---------------------------- MODULE LotterySystem -----------------------------
(***************************************************************************)
(* The deployed pair: DLottery bound to VRFProvider, which is served by an *)
(* external coordinator.  Calls between the two contracts happen inside    *)
(* one transaction, so a joint action of this module is one transaction:   *)
(*   performDraw  ->  provider.requestRandomness  ->  coordinator          *)
(*   coordinator  ->  provider.rawFulfillRandomWords -> fulfillRandomness  *)
(*   finalizeDraw ->  provider.deliver -> fulfillRandomness                *)
(*   anyone       ->  provider.deliver -> fulfillRandomness                *)
(* The coordinator returns a new id for each request.  It may answer late, *)
(* twice, with another word, or for an id nobody asked for.  The callback  *)
(* of an answer may fail (gas); that of a retry reverts the retry.         *)
(***************************************************************************)
EXTENDS Integers, FiniteSets, Sequences

CONSTANTS
  Wallets, DAO, Lottery, NoOne, Requests, NoRequest, Words, TicketPrice,
  MinimumParticipants, MaxParticipants, Numbers, Duration,
  MaxDraws, MaxTime, Funds, MaxDonated,
  OtherContract      \* a contract the provider may be bound to by mistake

VARIABLES
  now, currentDrawId, pendingRollover, activePool, outstandingPrizes,
  outstandingRefunds, draws, owners, ticketOf, refunded, requestDraw, balance,
  donated,
  lottery, requested, ready, delivered, words

L == INSTANCE DLottery
P == INSTANCE VRFProvider WITH Contracts <- {Lottery, OtherContract}, NoContract <- NoOne

lotteryVars ==
  <<now, currentDrawId, pendingRollover, activePool, outstandingPrizes,
    outstandingRefunds, draws, owners, ticketOf, refunded, requestDraw, balance, donated>>
providerVars == <<lottery, requested, ready, delivered, words>>
vars == <<lotteryVars, providerVars>>

\* A lottery whose constructor accepts its constants.
ASSUME SystemAssumption == L!ConfigurationAssumption /\ L!EnvironmentAssumption

Init == L!Init /\ P!Init

-----------------------------------------------------------------------------

\* A call that stays inside the lottery contract and the token.
LotteryOnly ==
  /\ \/ \E n \in 0..MaxDraws : L!StartDraw(n)
     \/ \E w \in Wallets, id \in L!DrawIds : L!BuyTicket(w, id, TicketPrice)
     \/ \E id \in L!DrawIds : L!CancelDraw(id)
     \/ L!Tick
     \/ L!Donate
  /\ UNCHANGED providerVars

ClaimPrize(w, id) == L!ClaimPrize(w, id) /\ UNCHANGED providerVars

ClaimRefund(w, id) == L!ClaimRefund(w, id) /\ UNCHANGED providerVars

SetLottery(value) == P!SetLottery(value) /\ UNCHANGED lotteryVars

\* The coordinator numbers requests so that no two share an id.
NewRequestId(r) == r \notin requested

PerformDraw(id, r) ==
  /\ NewRequestId(r)
  /\ L!RequestDraw(id, r)
  /\ P!RequestRandomness(Lottery, r)

\* The first answer to a request, with or without a successful callback.  Only
\* the bound consumer makes requests, so the callback goes to the lottery.
Answer(r, word, accepted) ==
  /\ P!StoreWord(r, <<word>>, accepted)
  /\ IF accepted THEN L!FulfillRandomness(r, word) ELSE UNCHANGED lotteryVars

\* Any other answer.
AnswerAgain(r, word) == P!IgnoreWord(r, <<word>>) /\ UNCHANGED lotteryVars

FinalizeDraw(id) ==
  LET r == draws[id].requestId IN
  /\ draws[id].status = "DRAWING"
  /\ r \in ready
  /\ IF r \in delivered
     THEN P!DeliverAgain(r) /\ UNCHANGED lotteryVars
     ELSE P!DeliverWord(r) /\ L!FinalizeDraw(id, words[r])

\* deliver called on the provider itself.
Deliver(r) ==
  \/ P!DeliverWord(r) /\ L!FulfillRandomness(r, words[r])
  \/ P!DeliverAgain(r) /\ UNCHANGED lotteryVars

Next ==
  \/ LotteryOnly
  \/ \E w \in Wallets, id \in L!DrawIds : ClaimPrize(w, id) \/ ClaimRefund(w, id)
  \/ \E value \in {Lottery, OtherContract} : SetLottery(value)
  \/ \E id \in L!DrawIds, r \in Requests : PerformDraw(id, r)
  \/ \E r \in Requests, word \in Words, accepted \in BOOLEAN : Answer(r, word, accepted)
  \/ \E r \in Requests, word \in Words : AnswerAgain(r, word)
  \/ \E id \in L!DrawIds : FinalizeDraw(id)
  \/ \E r \in Requests : Deliver(r)

\* The coordinator answers every request once, whatever becomes of the
\* callback, somebody keeps calling finalizeDraw for a round being drawn, and
\* every holder of a prize or refund keeps asking for it.
Fairness ==
  /\ \A r \in Requests :
       WF_vars(\E word \in Words, accepted \in BOOLEAN : Answer(r, word, accepted))
  /\ \A id \in L!DrawIds : WF_vars(FinalizeDraw(id))
  /\ \A w \in Wallets, id \in L!DrawIds : WF_vars(ClaimPrize(w, id)) /\ WF_vars(ClaimRefund(w, id))

Spec == Init /\ [][Next]_vars /\ Fairness

-----------------------------------------------------------------------------
(* Properties                                                              *)

\* The provider and the lottery agree on every request: the lottery knows it,
\* and the provider counts it as delivered exactly when its round is settled.
\* So a round in drawing can always still be delivered: a caught failure, a
\* repeated answer or a retry never leaves it stranded as delivered.
DeliveredMeansSettled ==
  \A r \in Requests :
    /\ r \in requested <=> requestDraw[r] # 0
    /\ r \in requested =>
         (r \in delivered <=> draws[requestDraw[r]].status \in L!Settled)

\* A round whose draw was performed is settled, even if the callback of the
\* only answer fails.
DrawingIsSettled ==
  \A id \in L!DrawIds : draws[id].status = "DRAWING" ~> draws[id].status \in L!Settled

\* A prize or refund that its holder keeps asking for is paid, whatever rounds
\* and claims come in between: neither an underflow nor a short balance nor a
\* newer round ever makes a claim impossible for good.
EveryClaimIsPaid ==
  \A id \in L!DrawIds :
    /\ draws[id].status = "WINNER_DECLARED" ~> draws[id].status = "COMPLETED"
    /\ \A w \in Wallets : L!OwedRefund(id, w) ~> refunded[id][w]

\* The pair of contracts keeps the promise of Raffle: the word stored for a
\* round is the word drawn for it, and its drawing is over when it is stored.
PhaseOf(id) ==
  LET d == draws[id] IN
  CASE id > currentDrawId                             -> "unopened"
    [] id <= currentDrawId /\ d.status = "ACTIVE"     -> "open"
    [] d.status = "DRAWING" /\ d.requestId \notin ready -> "closed"
    [] d.status = "DRAWING" /\ d.requestId \in ready  -> "drawn"
    [] d.status = "CANCELLED"                         -> "void"
    [] OTHER                                          -> "announced"

WordOf(id) == IF draws[id].requestId \in ready THEN words[draws[id].requestId] ELSE -1

Promise == INSTANCE Raffle WITH
  Players <- Wallets, Nobody <- NoOne, Rounds <- L!DrawIds, Words <- Words,
  Numbers <- Numbers, Minimum <- MinimumParticipants, Capacity <- MaxParticipants,
  NoWord <- -1,
  phase   <- [id \in L!DrawIds |-> PhaseOf(id)],
  entries <- [id \in L!DrawIds |-> SubSeq(owners[id], 1, draws[id].participantCount)],
  word    <- [id \in L!DrawIds |-> WordOf(id)],
  winner  <- [id \in L!DrawIds |-> draws[id].winner]

\* Entries fixed before the draw, one word per round, the winner it points at.
KeepsPromise == Promise!Spec
===============================================================================
