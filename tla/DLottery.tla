------------------------------- MODULE DLottery -------------------------------
(***************************************************************************)
(* The lottery contract, contracts/src/DLottery.sol: one live round at a   *)
(* time, and settled rounds whose prize or refunds are claimed later, in   *)
(* any order.  A transaction is one atomic action; a call that reverts is  *)
(* an action that is not enabled.                                          *)
(*                                                                         *)
(* The token and the randomness provider are the environment here.  The    *)
(* token moves balances or reverts the whole call, and may deliver less    *)
(* than it was asked to (a fee on transfer).  The provider hands out any   *)
(* request id and may call back for any id, with any word, any number of   *)
(* times; LotterySystem puts the real VRFProvider in its place.            *)
(*                                                                         *)
(* Left out: start and finalisation times and the id stored in a Draw      *)
(* (displayed, never read back), events, and 256-bit wrap-around (the      *)
(* compiler reverts on it and the token's supply keeps far below it).      *)
(***************************************************************************)
EXTENDS Integers, FiniteSets

CONSTANTS
  Wallets,             \* accounts that call the contract
  DAO,                 \* receiver of the fee; it may also play
  Lottery,             \* the contract's own token account
  NoOne,               \* address(0)
  Requests,            \* request ids the provider may return
  NoRequest,           \* request id 0
  Words,               \* random words the provider may deliver
  TicketPrice,         \* 10 * 10 ** decimals
  MinimumParticipants,
  MaxParticipants,     \* MAX_PARTICIPANTS
  Numbers,             \* ticket numbers are drawn from 1..Numbers
  Duration,            \* DURATION
  MaxDraws,            \* bound: rounds started
  MaxTime,             \* bound: clock
  Funds,               \* tokens each account starts with
  MaxDonated           \* bound: tokens sent to the contract outside buyTicket

\* The deployments the constructor accepts, over the two constants of the code.
ASSUME ConfigurationAssumption ==
  /\ DAO \notin {NoOne, Lottery}
  /\ MinimumParticipants \in 1..MaxParticipants
  /\ MaxParticipants \in Nat /\ Numbers \in Nat /\ MaxParticipants <= Numbers
  /\ TicketPrice \in Nat \ {0}
  /\ Duration \in Nat \ {0}

ASSUME EnvironmentAssumption ==
  /\ Wallets # {} /\ NoOne \notin Wallets /\ Lottery \notin Wallets
  /\ NoRequest \notin Requests
  /\ Words \subseteq Nat
  /\ MaxDraws \in Nat /\ MaxTime \in Nat /\ Funds \in Nat /\ MaxDonated \in Nat

VARIABLES
  now,                 \* block.timestamp
  currentDrawId,
  pendingRollover, activePool, outstandingPrizes, outstandingRefunds,
  draws, owners, ticketOf, refunded, requestDraw,
  balance,             \* the token's balances
  donated              \* history: tokens the contract received outside buyTicket

ledger  == <<pendingRollover, activePool, outstandingPrizes, outstandingRefunds>>
tickets == <<owners, ticketOf, refunded>>
token   == <<balance, donated>>
vars    == <<now, currentDrawId, ledger, draws, tickets, requestDraw, token>>

DrawIds  == 1..MaxDraws
Accounts == Wallets \union {DAO, Lottery}
Live     == {"ACTIVE", "DRAWING"}
Settled  == {"WINNER_DECLARED", "COMPLETED", "NO_WINNER", "CANCELLED"}

Draw ==
  [status            : Live \union Settled,
   deadline          : Nat,
   participantCount  : 0..MaxParticipants,
   luckyNumber       : 0..Numbers,
   winner            : Wallets \union {NoOne},
   inheritedRollover : Nat,
   pool              : Nat,
   daoFee            : Nat,
   winnerPrize       : Nat,
   requestId         : Requests \union {NoRequest}]

\* What a mapping holds for an id that was never written.
BlankDraw ==
  [status |-> "ACTIVE", deadline |-> 0, participantCount |-> 0, luckyNumber |-> 0,
   winner |-> NoOne, inheritedRollover |-> 0, pool |-> 0, daoFee |-> 0,
   winnerPrize |-> 0, requestId |-> NoRequest]

Init ==
  /\ now = 0 /\ currentDrawId = 0
  /\ pendingRollover = 0 /\ activePool = 0
  /\ outstandingPrizes = 0 /\ outstandingRefunds = 0
  /\ draws = [id \in DrawIds |-> BlankDraw]
  /\ owners = [id \in DrawIds |-> [k \in 1..Numbers |-> NoOne]]
  /\ ticketOf = [id \in DrawIds |-> [w \in Wallets |-> 0]]
  /\ refunded = [id \in DrawIds |-> [w \in Wallets |-> FALSE]]
  /\ requestDraw = [r \in Requests |-> 0]
  /\ balance = [a \in Accounts |-> IF a = Lottery THEN 0 ELSE Funds]
  /\ donated = 0

-----------------------------------------------------------------------------
(* Views                                                                   *)

CanStartDraw == currentDrawId # 0 => draws[currentDrawId].status \in Settled

CanPerformDraw(id) ==
  /\ id = currentDrawId
  /\ draws[id].status = "ACTIVE"
  /\ draws[id].participantCount = MaxParticipants \/ now >= draws[id].deadline

\* Altered: the prize is lost once another round starts.
OwedPrizeOfLatest(id, w) ==
  id = currentDrawId /\ draws[id].status = "WINNER_DECLARED" /\ draws[id].winner = w

OwedPrize(id, w) == draws[id].status = "WINNER_DECLARED" /\ draws[id].winner = w

\* Altered: the refund is not checked against earlier refunds.
OwedRefundAgain(id, w) == draws[id].status = "CANCELLED" /\ ticketOf[id][w] # 0

OwedRefund(id, w) ==
  draws[id].status = "CANCELLED" /\ ticketOf[id][w] # 0 /\ ~refunded[id][w]

Liabilities == activePool + pendingRollover + outstandingPrizes + outstandingRefunds

-----------------------------------------------------------------------------
(* Transactions                                                            *)

StartDraw(expectedPreviousId) ==
  LET id == currentDrawId + 1 IN
  /\ expectedPreviousId = currentDrawId
  /\ CanStartDraw
  /\ currentDrawId < MaxDraws
  /\ currentDrawId' = id
  /\ draws' = [draws EXCEPT ![id].deadline = now + Duration,
                            ![id].inheritedRollover = pendingRollover,
                            ![id].pool = pendingRollover]
  /\ activePool' = pendingRollover
  /\ pendingRollover' = 0
  /\ UNCHANGED <<now, outstandingPrizes, outstandingRefunds, tickets, requestDraw, token>>

\* Altered: tickets are still sold at the deadline itself.
OpenAtDeadline(id) ==
  /\ draws[id].status = "ACTIVE"
  /\ now <= draws[id].deadline
  /\ draws[id].participantCount < MaxParticipants

OpenForSale(id) ==
  /\ draws[id].status = "ACTIVE"
  /\ now < draws[id].deadline
  /\ draws[id].participantCount < MaxParticipants

\* Altered: a wallet may buy again.
HasTicketNever(id, w) == FALSE

HasTicket(id, w) == ticketOf[id][w] # 0

\* Altered: the balance is not compared before and after the transfer.
PaymentUnchecked(received) == received <= TicketPrice

PaymentExact(received) == received = TicketPrice

\* received: what the token really delivered for a transfer of TicketPrice.
BuyTicket(w, id, received) ==
  LET number == draws[id].participantCount + 1 IN
  /\ id = currentDrawId
  /\ OpenForSale(id)
  /\ ~HasTicket(id, w)
  /\ balance[w] >= TicketPrice
  /\ PaymentExact(received)
  /\ draws' = [draws EXCEPT ![id].participantCount = number,
                            ![id].pool = @ + TicketPrice]
  /\ owners' = [owners EXCEPT ![id][number] = w]
  /\ ticketOf' = [ticketOf EXCEPT ![id][w] = number]
  /\ activePool' = activePool + TicketPrice
  /\ balance' = [balance EXCEPT ![w] = @ - TicketPrice, ![Lottery] = @ + received]
  /\ UNCHANGED <<now, currentDrawId, pendingRollover, outstandingPrizes,
                 outstandingRefunds, refunded, requestDraw, donated>>

\* Altered: the pot inherited from earlier rounds is refunded as well.
RefundTotalOfPool(id) == draws[id].pool

RefundTotal(id) == draws[id].participantCount * TicketPrice

CarriedOver(id) == draws[id].inheritedRollover

\* performDraw below the minimum: tickets become refundable, the inherited
\* pot goes back to the rollover.
CancelDraw(id) ==
  /\ CanPerformDraw(id)
  /\ draws[id].participantCount < MinimumParticipants
  /\ draws' = [draws EXCEPT ![id].status = "CANCELLED"]
  /\ activePool' = 0
  /\ outstandingRefunds' = outstandingRefunds + RefundTotal(id)
  /\ pendingRollover' = pendingRollover + CarriedOver(id)
  /\ UNCHANGED <<now, currentDrawId, outstandingPrizes, tickets, requestDraw, token>>

\* Altered: a request id may be used twice.
FreshRequestOrNot(requestId) == requestId # NoRequest

FreshRequest(requestId) == requestId # NoRequest /\ requestDraw[requestId] = 0

\* performDraw at or above the minimum, with the id the provider returned.
RequestDraw(id, requestId) ==
  /\ CanPerformDraw(id)
  /\ draws[id].participantCount >= MinimumParticipants
  /\ FreshRequest(requestId)
  /\ draws' = [draws EXCEPT ![id].status = "DRAWING", ![id].requestId = requestId]
  /\ requestDraw' = [requestDraw EXCEPT ![requestId] = id]
  /\ activePool' = draws[id].pool
  /\ UNCHANGED <<now, currentDrawId, pendingRollover, outstandingPrizes,
                 outstandingRefunds, tickets, token>>

\* Altered: any callback for a known request is applied.
AwaitsWordAlways(requestId) == requestDraw[requestId] # 0

AwaitsWord(requestId) ==
  /\ requestDraw[requestId] # 0
  /\ draws[requestDraw[requestId]].status = "DRAWING"

LuckyNumber(word) == (word % Numbers) + 1

\* Altered: ticket numbers count from 1 but are used as an index from 0.
TicketAfter(id, number) == owners[id][(number % Numbers) + 1]

TicketOwner(id, number) == owners[id][number]

DaoFee(pool) == ((pool - TicketPrice) * 500) \div 10000

\* The callback for a round that waits for it; activePool is cleared and the
\* pool goes to the rollover or to the winner.
SettleDraw(requestId, word) ==
  LET id     == requestDraw[requestId]
      lucky  == LuckyNumber(word)
      winner == TicketOwner(id, lucky)
      pool   == draws[id].pool
      fee    == DaoFee(pool)
  IN
  /\ AwaitsWord(requestId)
  /\ activePool' = 0
  /\ \/ /\ winner = NoOne
        /\ draws' = [draws EXCEPT ![id].status = "NO_WINNER", ![id].luckyNumber = lucky,
                                  ![id].winner = NoOne]
        /\ pendingRollover' = pendingRollover + pool
        /\ UNCHANGED outstandingPrizes
     \/ /\ winner # NoOne
        /\ draws' = [draws EXCEPT ![id].status = "WINNER_DECLARED",
                                  ![id].luckyNumber = lucky, ![id].winner = winner,
                                  ![id].daoFee = fee, ![id].winnerPrize = pool - fee]
        /\ outstandingPrizes' = outstandingPrizes + pool
        /\ UNCHANGED pendingRollover
  /\ UNCHANGED <<now, currentDrawId, outstandingRefunds, tickets, requestDraw, token>>

\* A duplicate or unknown callback returns without effect.
IgnoreCallback(requestId) == ~AwaitsWord(requestId) /\ UNCHANGED vars

FulfillRandomness(requestId, word) ==
  SettleDraw(requestId, word) \/ IgnoreCallback(requestId)

\* finalizeDraw: the provider calls back with the word it holds.
FinalizeDraw(id, word) ==
  /\ draws[id].status = "DRAWING"
  /\ FulfillRandomness(draws[id].requestId, word)

\* Altered: the fee is paid and not taken from the prize.
PrizePaidFull(id) == draws[id].pool

PrizePaid(id) == draws[id].winnerPrize

\* Two transfers, one after the other: the winner may be the DAO itself.
ClaimPrize(w, id) ==
  LET pool == draws[id].pool
      fee  == draws[id].daoFee
      paid == [balance EXCEPT ![Lottery] = @ - fee - PrizePaid(id), ![DAO] = @ + fee]
  IN
  /\ OwedPrize(id, w)
  /\ outstandingPrizes >= pool
  /\ balance[Lottery] >= fee + PrizePaid(id)
  /\ draws' = [draws EXCEPT ![id].status = "COMPLETED"]
  /\ outstandingPrizes' = outstandingPrizes - pool
  /\ balance' = [paid EXCEPT ![w] = @ + PrizePaid(id)]
  /\ UNCHANGED <<now, currentDrawId, pendingRollover, activePool, outstandingRefunds,
                 tickets, requestDraw, donated>>

ClaimRefund(w, id) ==
  /\ OwedRefund(id, w)
  /\ outstandingRefunds >= TicketPrice
  /\ balance[Lottery] >= TicketPrice
  /\ refunded' = [refunded EXCEPT ![id][w] = TRUE]
  /\ outstandingRefunds' = outstandingRefunds - TicketPrice
  /\ balance' = [balance EXCEPT ![Lottery] = @ - TicketPrice, ![w] = @ + TicketPrice]
  /\ UNCHANGED <<now, currentDrawId, pendingRollover, activePool, outstandingPrizes,
                 draws, owners, ticketOf, requestDraw, donated>>

-----------------------------------------------------------------------------
(* Environment                                                             *)

Tick ==
  /\ now < MaxTime
  /\ now' = now + 1
  /\ UNCHANGED <<currentDrawId, ledger, draws, tickets, requestDraw, token>>

\* Someone sends a token to the contract's address.
Donate ==
  /\ donated < MaxDonated
  /\ donated' = donated + 1
  /\ balance' = [balance EXCEPT ![Lottery] = @ + 1]
  /\ UNCHANGED <<now, currentDrawId, ledger, draws, tickets, requestDraw>>

Next ==
  \/ \E n \in 0..MaxDraws : StartDraw(n)
  \/ \E w \in Wallets, id \in DrawIds, received \in {TicketPrice - 1, TicketPrice} :
       BuyTicket(w, id, received)
  \/ \E id \in DrawIds : CancelDraw(id)
  \/ \E id \in DrawIds, r \in Requests : RequestDraw(id, r)
  \/ \E r \in Requests, word \in Words : FulfillRandomness(r, word)
  \/ \E id \in DrawIds, word \in Words : FinalizeDraw(id, word)
  \/ \E w \in Wallets, id \in DrawIds : ClaimPrize(w, id)
  \/ \E w \in Wallets, id \in DrawIds : ClaimRefund(w, id)
  \/ Tick
  \/ Donate

Spec == Init /\ [][Next]_vars

-----------------------------------------------------------------------------
(* Properties                                                              *)

TypeOK ==
  /\ now \in Nat
  /\ currentDrawId \in 0..MaxDraws
  /\ pendingRollover \in Nat /\ activePool \in Nat
  /\ outstandingPrizes \in Nat /\ outstandingRefunds \in Nat
  /\ draws \in [DrawIds -> Draw]
  /\ owners \in [DrawIds -> [1..Numbers -> Wallets \union {NoOne}]]
  /\ ticketOf \in [DrawIds -> [Wallets -> 0..MaxParticipants]]
  /\ refunded \in [DrawIds -> [Wallets -> BOOLEAN]]
  /\ requestDraw \in [Requests -> 0..MaxDraws]
  /\ balance \in [Accounts -> Nat]
  /\ donated \in Nat

\* The contract holds exactly what its four buckets say it owes, plus what was
\* sent to it unasked: no transfer and no move between buckets loses or
\* invents a token, a token that takes a fee on transfer included.
ExactBacking == balance[Lottery] = Liabilities + donated

\* Each bucket is the sum over the rounds it stands for: the pool of the round
\* that is open or being drawn, the pools of declared and unclaimed prizes, one
\* ticket for each refund still open, and what the last settled round left
\* over.  So no claim can fail on the checked subtraction of a bucket, in
\* whatever order rounds are claimed, and no pot is in two places.
LeftOver(id) ==
  CASE draws[id].status = "NO_WINNER" -> draws[id].pool
    [] draws[id].status = "CANCELLED" -> draws[id].inheritedRollover
    [] OTHER -> 0

\* A unit for each token of an amount, over some rounds: their sum, counted.
Units(rounds, amount) == UNION {{id} \X (1..amount[id]) : id \in rounds}

RoundsIn(status) == {id \in DrawIds : draws[id].status = status}

OpenPrizeUnits == Units(RoundsIn("WINNER_DECLARED"), [id \in DrawIds |-> draws[id].pool])

OpenRefunds == {claim \in DrawIds \X Wallets : OwedRefund(claim[1], claim[2])}

BucketsMatchRounds ==
  /\ activePool = IF CanStartDraw THEN 0 ELSE draws[currentDrawId].pool
  /\ outstandingPrizes = Cardinality(OpenPrizeUnits)
  /\ outstandingRefunds = TicketPrice * Cardinality(OpenRefunds)
  /\ pendingRollover = IF currentDrawId = 0 THEN 0 ELSE LeftOver(currentDrawId)

\* Only the latest round is open or being drawn, and ids beyond it are blank.
OneLiveRound ==
  \A id \in DrawIds :
    /\ id < currentDrawId => draws[id].status \in Settled
    /\ id > currentDrawId => draws[id] = BlankDraw

\* The two views of the ticket board agree: numbers are handed out without a
\* gap, to one wallet each, one per wallet, and the pool is the inherited pot
\* plus the price of every ticket on the board.
TicketBoardConsistent ==
  \A id \in DrawIds :
    /\ \A k \in 1..Numbers :
         owners[id][k] # NoOne <=> k <= draws[id].participantCount
    /\ \A k \in 1..Numbers, w \in Wallets :
         owners[id][k] = w <=> ticketOf[id][w] = k
    /\ draws[id].pool =
         draws[id].inheritedRollover + draws[id].participantCount * TicketPrice

\* A declared winner holds the lucky ticket and takes the whole pool except a
\* fee of at most 5 % of what the other tickets and rollovers put in; a round
\* without winner is one whose lucky number was not sold.
WinnerTakesPool ==
  \A id \in DrawIds :
    LET d == draws[id] IN
    /\ d.status \in {"WINNER_DECLARED", "COMPLETED"} =>
         /\ d.winner \in Wallets
         /\ ticketOf[id][d.winner] = d.luckyNumber
         /\ d.winnerPrize + d.daoFee = d.pool
         /\ d.daoFee * 20 <= d.pool - TicketPrice
    /\ d.status = "NO_WINNER" => d.luckyNumber > d.participantCount

\* A round waits for, or was settled by, a request of its own: no callback can
\* reach two rounds, and no round in drawing is without a request that answers it.
RequestsBelongToOneRound ==
  /\ \A r \in Requests :
       requestDraw[r] # 0 => draws[requestDraw[r]].requestId = r
  /\ \A id \in DrawIds :
       draws[id].requestId # NoRequest => requestDraw[draws[id].requestId] = id
  /\ \A id \in DrawIds : draws[id].status = "DRAWING" => draws[id].requestId # NoRequest

\* What keeps rounds apart: one of them is live, and no request reaches two.
RoundsAreSeparate == OneLiveRound /\ RequestsBelongToOneRound

\* Every account's balance is explained by the rounds it played: what it paid
\* for tickets that were not refunded, what it won and took, and the fees when
\* it is the DAO.  Nobody is paid twice, nobody is paid someone else's prize.
TicketsPaid(a) ==
  {id \in DrawIds : a \in Wallets /\ ticketOf[id][a] # 0 /\ ~refunded[id][a]}

PrizesTaken(a) == {id \in RoundsIn("COMPLETED") : draws[id].winner = a}

FeesTaken(a) == {id \in RoundsIn("COMPLETED") : a = DAO}

BalanceFromRounds(a) ==
  Funds - TicketPrice * Cardinality(TicketsPaid(a))
        + Cardinality(Units(PrizesTaken(a), [id \in DrawIds |-> draws[id].winnerPrize]))
        + Cardinality(Units(FeesTaken(a), [id \in DrawIds |-> draws[id].daoFee]))

BalancesExplained == \A a \in Accounts \ {Lottery} : balance[a] = BalanceFromRounds(a)

\* Once a round is settled its outcome never changes: a duplicated, late or
\* different word, and anything done to later rounds, leave it as it is; the
\* one step left is that its winner completes it.
OutcomeFinal ==
  [][\A id \in DrawIds : draws[id].status \in Settled =>
       \/ draws'[id] = draws[id]
       \/ /\ draws[id].status = "WINNER_DECLARED"
          /\ draws'[id] = [draws[id] EXCEPT !.status = "COMPLETED"]]_vars

\* From the moment anyone may perform the draw, the tickets the word is
\* matched against and the pool it pays are fixed.
TicketsFixedOnceDrawable ==
  [][\A id \in DrawIds :
       CanPerformDraw(id) \/ (id <= currentDrawId /\ draws[id].status # "ACTIVE") =>
         /\ owners'[id] = owners[id] /\ ticketOf'[id] = ticketOf[id]
         /\ draws'[id].pool = draws[id].pool
         /\ draws'[id].participantCount = draws[id].participantCount]_vars

\* Tokens leave the contract only against a claim that the same step uses up
\* for good: a declared prize, whole, or one refund of one ticket.
PaysEachClaimOnce ==
  [][balance'[Lottery] < balance[Lottery] =>
       \/ \E id \in DrawIds :
            /\ draws[id].status = "WINNER_DECLARED" /\ draws'[id].status = "COMPLETED"
            /\ balance[Lottery] - balance'[Lottery] = draws[id].pool
       \/ \E id \in DrawIds, w \in Wallets :
            /\ draws[id].status = "CANCELLED" /\ ticketOf[id][w] # 0
            /\ ~refunded[id][w] /\ refunded'[id][w]
            /\ balance[Lottery] - balance'[Lottery] = TicketPrice]_vars
=============================================================================
