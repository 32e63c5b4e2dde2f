------------------------------ MODULE LotteryFeed ------------------------------
(***************************************************************************)
(* The contract and the read model built from its events.  Each            *)
(* transaction of DLottery emits one event with the values it emits in     *)
(* DLottery.sol, and the projection (project in store.go) applies it.      *)
(* What the projection makes of an event depends on earlier events only,   *)
(* so applying it at once stands for applying it in any later block.       *)
(***************************************************************************)
EXTENDS DLottery

CONSTANT NoDraw

VARIABLES
  readModel,     \* rows of draws with their tickets
  claims,        \* rows of claims
  stuck          \* an event was refused: its block can never be committed

R == INSTANCE Projection

\* A row of draws, with its tickets.
Row ==
  [status : Live \union Settled, deadline : Nat, ticketPrice : Nat, minimumParticipants : Nat,
   participantCount : Nat, luckyNumber : 0..Numbers, winner : Wallets \union {NoOne},
   pool : Nat, inheritedRollover : Nat, rollover : Nat, daoFee : Nat, winnerPrize : Nat,
   prizeClaimed : BOOLEAN, daoFeePaid : Nat, requestId : Requests \union {NoRequest},
   tickets : [1..Numbers -> [wallet : Wallets \union {NoOne}, refunded : BOOLEAN]]]

ASSUME FeedAssumption == NoDraw \notin Row

feedVars == <<readModel, claims, stuck>>
allVars == <<vars, feedVars>>

FeedInit ==
  /\ Init
  /\ readModel = [id \in DrawIds |-> NoDraw]
  /\ claims = {}
  /\ stuck = FALSE

-----------------------------------------------------------------------------
(* project, of one event                                                   *)

Claimed(e) == e.name \in {"PrizeClaimed", "RefundClaimed"}

ClaimWallet(e) == IF e.name = "RefundClaimed" THEN e.participant ELSE e.winner

ClaimRow(e) == [drawId |-> e.drawId, wallet |-> ClaimWallet(e), kind |-> e.name, amount |-> e.amount]

\* The primary key of claims: one row for a round, a wallet and a kind.
NewClaim(e) ==
  \A c \in claims : ~(c.drawId = e.drawId /\ c.wallet = ClaimWallet(e) /\ c.kind = e.name)

Project(e) ==
  IF R!Accepts(readModel[e.drawId], e) /\ (Claimed(e) => NewClaim(e))
  THEN /\ readModel' = [readModel EXCEPT ![e.drawId] = R!Apply(@, e)]
       /\ claims' = IF Claimed(e) THEN claims \union {ClaimRow(e)} ELSE claims
       /\ UNCHANGED stuck
  ELSE stuck' = TRUE /\ UNCHANGED <<readModel, claims>>

-----------------------------------------------------------------------------
(* The transactions and their events                                       *)

FeedStartDraw ==
  LET id == currentDrawId + 1 IN
  /\ StartDraw(currentDrawId)
  /\ Project([name |-> "DrawStarted", drawId |-> id, deadline |-> draws'[id].deadline,
              ticketPrice |-> TicketPrice, minimumParticipants |-> MinimumParticipants,
              inheritedRollover |-> draws'[id].inheritedRollover])

FeedBuyTicket(w, id, received) ==
  /\ BuyTicket(w, id, received)
  /\ LET d == draws'[id] IN
     Project([name |-> "TicketBought", drawId |-> id, buyer |-> w,
              ticketNumber |-> d.participantCount, participantCount |-> d.participantCount,
              pool |-> d.pool])

FeedCancelDraw(id) ==
  /\ CancelDraw(id)
  /\ Project([name |-> "DrawCancelled", drawId |-> id, rollover |-> CarriedOver(id)])

FeedRequestDraw(id, r) ==
  /\ RequestDraw(id, r)
  /\ Project([name |-> "RandomnessRequested", drawId |-> id, requestId |-> r])

\* By callback or by a retry of its delivery.
FeedSettleDraw(r, word) ==
  /\ SettleDraw(r, word)
  /\ LET id == requestDraw[r]
         d  == draws'[id]
     IN Project([name |-> "LotteryDrawn", drawId |-> id, luckyNumber |-> d.luckyNumber,
                 winner |-> d.winner, pool |-> d.pool, daoFee |-> d.daoFee,
                 winnerPrize |-> d.winnerPrize,
                 rollover |-> IF d.winner = NoOne THEN d.pool ELSE 0])

FeedClaimPrize(w, id) ==
  /\ ClaimPrize(w, id)
  /\ Project([name |-> "PrizeClaimed", drawId |-> id, winner |-> w,
              amount |-> draws[id].winnerPrize, daoFee |-> draws[id].daoFee])

FeedClaimRefund(w, id) ==
  /\ ClaimRefund(w, id)
  /\ Project([name |-> "RefundClaimed", drawId |-> id, participant |-> w, amount |-> TicketPrice])

FeedNext ==
  \/ FeedStartDraw
  \/ \E w \in Wallets, id \in DrawIds, received \in {TicketPrice - 1, TicketPrice} :
       FeedBuyTicket(w, id, received)
  \/ \E id \in DrawIds : FeedCancelDraw(id)
  \/ \E id \in DrawIds, r \in Requests : FeedRequestDraw(id, r)
  \/ \E r \in Requests, word \in Words : FeedSettleDraw(r, word)
  \/ \E w \in Wallets, id \in DrawIds : FeedClaimPrize(w, id) \/ FeedClaimRefund(w, id)
  \/ Tick /\ UNCHANGED feedVars

FeedSpec == FeedInit /\ [][FeedNext]_allVars

-----------------------------------------------------------------------------
(* Properties                                                              *)

Opened(id) == id <= currentDrawId

\* Every event the contract emits is accepted, in every order it can emit them:
\* the indexer never stops at a block of the real contract.
NothingRefused == ~stuck

\* Every round, ticket, refund and amount of the contract's storage.
RoundsAgree ==
  \A id \in DrawIds :
    IF ~Opened(id) THEN readModel[id] = NoDraw
    ELSE LET r == readModel[id]  d == draws[id] IN
         /\ \A field \in DOMAIN d : r[field] = d[field]
         /\ \A n \in 1..Numbers :
              /\ r.tickets[n].wallet = owners[id][n]
              /\ r.tickets[n].refunded <=> owners[id][n] # NoOne /\ refunded[id][owners[id][n]]

\* A round's rollover in the read model is what the next round inherits, and
\* that of the last settled round is what waits for the next one.
RolloverIsInherited ==
  \A id \in DrawIds : Opened(id) /\ draws[id].status \in Settled =>
    readModel[id].rollover =
      IF Opened(id + 1) THEN readModel[id + 1].inheritedRollover ELSE pendingRollover

PaidPrizes ==
  {[drawId |-> id, wallet |-> draws[id].winner, kind |-> "PrizeClaimed",
    amount |-> draws[id].winnerPrize] : id \in {i \in DrawIds : draws[i].status = "COMPLETED"}}

PaidRefunds ==
  {[drawId |-> c[1], wallet |-> c[2], kind |-> "RefundClaimed", amount |-> TicketPrice] :
     c \in {p \in DrawIds \X Wallets : refunded[p[1]][p[2]]}}

\* The service offers the draw of a round exactly when the contract, at the
\* same block time, would perform it.
EligibilityAgrees ==
  \A id \in DrawIds : Opened(id) => (R!OffersDraw(readModel[id], now) <=> CanPerformDraw(id))

\* The read model, which knows the events only, agrees with the contract: on
\* the storage of every round, on the pot the next round inherits, on who was
\* paid what (the claims table, one row for each payment and no other), and on
\* when a round can be drawn.
ReadModelAgrees ==
  /\ RoundsAgree
  /\ RolloverIsInherited
  /\ claims = PaidPrizes \union PaidRefunds
  /\ EligibilityAgrees
===============================================================================
