----------------------------- MODULE DLotteryProofs -----------------------------
(***************************************************************************)
(* Proofs about DLottery, for every number of wallets, requests, words and *)
(* rounds, every price, fee base and duration.                             *)
(*                                                                         *)
(* ExactBacking is not inductive by itself.  What each transaction moves   *)
(* between buckets is read from the round's record, so the invariant that  *)
(* is (IInv) also says how the live round's record relates to activePool,  *)
(* how a pool is made up of tickets and rollover, and how a prize is split.*)
(*                                                                         *)
(* On top of it come the tickets: the board, the holders and who wins.     *)
(* What a step may do to the tickets of a round is said once (TicketStep). *)
(* Then what the contract owes and what it has paid: every bucket is the   *)
(* sum over the rounds it stands for, and every balance is explained by    *)
(* the rounds its owner played.  A sum over rounds is the number of units  *)
(* in a set (Units), which changes by one round at a time.                 *)
(***************************************************************************)
EXTENDS DLottery, FiniteSetTheorems, TLAPS

\* A pool is what was inherited plus the price of every ticket sold.
PoolsAddUp ==
  \A id \in DrawIds :
    draws[id].pool = draws[id].inheritedRollover + draws[id].participantCount * TicketPrice

\* A declared prize and its fee are together the pool.
PrizesAddUp ==
  \A id \in DrawIds : draws[id].status = "WINNER_DECLARED" =>
    /\ draws[id].winner \in Wallets
    /\ draws[id].winnerPrize + draws[id].daoFee = draws[id].pool

\* A round that is being drawn has sold at least one ticket.
DrawnRoundsSold ==
  \A id \in DrawIds : draws[id].status = "DRAWING" => draws[id].pool >= TicketPrice

\* activePool is the pool of the round that is open or being drawn.
ActivePoolIsCurrent ==
  activePool = IF CanStartDraw THEN 0 ELSE draws[currentDrawId].pool

IInv ==
  /\ TypeOK
  /\ OneLiveRound
  /\ PoolsAddUp
  /\ PrizesAddUp
  /\ DrawnRoundsSold
  /\ ActivePoolIsCurrent
  /\ ExactBacking

-----------------------------------------------------------------------------
(* Arithmetic                                                              *)

\* The fee is a natural number, and leaves the winner at least the ticket.
LEMMA FeeBounds ==
  ASSUME NEW pool \in Nat, pool >= TicketPrice
  PROVE  DaoFee(pool) \in Nat /\ DaoFee(pool) <= pool - TicketPrice
BY ConfigurationAssumption DEF DaoFee

\* One more ticket adds its price.
LEMMA OneMoreTicket ==
  ASSUME NEW n \in Nat
  PROVE  /\ n * TicketPrice \in Nat
         /\ (n + 1) * TicketPrice = n * TicketPrice + TicketPrice
         /\ n >= 1 => n * TicketPrice >= TicketPrice
         /\ 0 * TicketPrice = 0
BY ConfigurationAssumption

\* A word points at one of the numbers.
LEMMA LuckyInRange ==
  ASSUME NEW word \in Words
  PROVE  LuckyNumber(word) \in 1..Numbers
BY ConfigurationAssumption, EnvironmentAssumption DEF LuckyNumber

-----------------------------------------------------------------------------
(* Each action preserves the invariant                                     *)

LEMMA InitIInv == Init => IInv
<1> SUFFICES ASSUME Init PROVE IInv
  OBVIOUS
<1> USE ConfigurationAssumption, EnvironmentAssumption DEF Init
<1>1. TypeOK
  BY DEF TypeOK, DrawIds, Accounts, Draw, BlankDraw, Live
<1>2. OneLiveRound
  BY DEF OneLiveRound, DrawIds
<1>3. PoolsAddUp
  BY DEF PoolsAddUp, BlankDraw
<1>4. PrizesAddUp /\ DrawnRoundsSold
  BY DEF PrizesAddUp, DrawnRoundsSold, BlankDraw
<1>5. ActivePoolIsCurrent
  BY DEF ActivePoolIsCurrent, CanStartDraw
<1>6. ExactBacking
  BY DEF ExactBacking, Liabilities, Accounts
<1> QED
  BY <1>1, <1>2, <1>3, <1>4, <1>5, <1>6 DEF IInv

LEMMA StartDrawIInv ==
  ASSUME IInv, NEW n \in 0..MaxDraws, StartDraw(n)
  PROVE  IInv'
<1> DEFINE id == currentDrawId + 1
<1> USE ConfigurationAssumption, EnvironmentAssumption
<1>1. id \in DrawIds
  <2>1. currentDrawId \in 0..MaxDraws
    BY DEF IInv, TypeOK
  <2>2. currentDrawId < MaxDraws
    BY DEF StartDraw
  <2>3. MaxDraws \in Nat
    OBVIOUS
  <2> HIDE ConfigurationAssumption, EnvironmentAssumption
  <2> QED
    BY <2>1, <2>2, <2>3 DEF DrawIds
<1>2. draws[id] = BlankDraw
  BY <1>1 DEF IInv, TypeOK, OneLiveRound, DrawIds
<1>3. activePool = 0
  BY DEF IInv, ActivePoolIsCurrent, StartDraw
<1>4. draws'[id] = [BlankDraw EXCEPT !.deadline = now + Duration,
                      !.inheritedRollover = pendingRollover, !.pool = pendingRollover]
  BY <1>1, <1>2 DEF IInv, TypeOK, StartDraw
<1>5. \A i \in DrawIds : i # id => draws'[i] = draws[i]
  BY DEF IInv, TypeOK, StartDraw
<1>6. TypeOK'
  <2>1. draws'[id] \in Draw
    <3>1. now + Duration \in Nat /\ pendingRollover \in Nat /\ 0 \in 0..MaxParticipants
          /\ 0 \in 0..Numbers
      BY DEF IInv, TypeOK
    <3> DEFINE opened ==
          [status |-> "ACTIVE", deadline |-> now + Duration, participantCount |-> 0,
           luckyNumber |-> 0, winner |-> NoOne, inheritedRollover |-> pendingRollover,
           pool |-> pendingRollover, daoFee |-> 0, winnerPrize |-> 0,
           requestId |-> NoRequest]
    <3>2. draws'[id] = opened
      BY <1>4 DEF BlankDraw
    <3>3. opened \in Draw
      BY <3>1 DEF Draw, Live
    <3> QED
      BY <3>2, <3>3
  <2>2. \A i \in DrawIds : draws'[i] \in Draw
    BY <2>1, <1>5 DEF IInv, TypeOK
  <2>3. draws' \in [DrawIds -> Draw]
    BY <2>2 DEF IInv, TypeOK, StartDraw
  <2> QED
    BY SMTT(30), <2>3, <1>1 DEF IInv, TypeOK, StartDraw, DrawIds, tickets, token
<1>7. OneLiveRound'
  <2>1. \A i \in DrawIds : i < id => draws[i].status \in Settled
    BY SMTT(30) DEF IInv, TypeOK, OneLiveRound, StartDraw, CanStartDraw, DrawIds
  <2>2. currentDrawId' = id
    BY DEF StartDraw
  <2>3. ASSUME NEW i \in DrawIds, i < id PROVE draws'[i].status \in Settled
    BY <2>1, <2>3, <1>5 DEF IInv, TypeOK, DrawIds
  <2>4. ASSUME NEW i \in DrawIds, i > id PROVE draws'[i] = BlankDraw
    BY <2>4, <1>5 DEF IInv, TypeOK, OneLiveRound, DrawIds
  <2> QED
    BY <2>2, <2>3, <2>4 DEF OneLiveRound
<1>8. PoolsAddUp'
  <2>1. 0 * TicketPrice = 0
    BY OneMoreTicket
  <2>2. draws'[id].pool = draws'[id].inheritedRollover + draws'[id].participantCount * TicketPrice
    BY <2>1, <1>4 DEF IInv, TypeOK, BlankDraw
  <2>3. ASSUME NEW i \in DrawIds, i # id
        PROVE  draws'[i].pool =
                 draws'[i].inheritedRollover + draws'[i].participantCount * TicketPrice
    <3>1. draws'[i] = draws[i]
      BY <2>3, <1>5
    <3> QED
      BY <3>1 DEF IInv, PoolsAddUp
  <2> QED
    BY <2>2, <2>3 DEF PoolsAddUp
<1>9. PrizesAddUp' /\ DrawnRoundsSold'
  BY <1>4, <1>5 DEF IInv, PrizesAddUp, DrawnRoundsSold, BlankDraw
<1>10. ActivePoolIsCurrent'
  <2>1. draws'[id].status = "ACTIVE" /\ draws'[id].pool = pendingRollover
    BY <1>4 DEF BlankDraw
  <2>2. currentDrawId' = id /\ id # 0 /\ activePool' = pendingRollover
    BY <1>1 DEF StartDraw, DrawIds
  <2>3. ~CanStartDraw'
    BY <2>1, <2>2 DEF CanStartDraw, Settled
  <2> QED
    BY <2>1, <2>2, <2>3 DEF ActivePoolIsCurrent
<1>11. ExactBacking'
  BY <1>3 DEF IInv, TypeOK, ExactBacking, Liabilities, StartDraw, token
<1> QED
  BY <1>6, <1>7, <1>8, <1>9, <1>10, <1>11 DEF IInv

\* What an action needs to show when it changes the record of one round that
\* was started, and starts none.
LEMMA OneRoundChanges ==
  ASSUME IInv, NEW id \in DrawIds, id <= currentDrawId, currentDrawId' = currentDrawId,
         NEW d \in Draw, draws' = [draws EXCEPT ![id] = d],
         id < currentDrawId => d.status \in Settled,
         d.pool = d.inheritedRollover + d.participantCount * TicketPrice,
         d.status = "WINNER_DECLARED" =>
           d.winner \in Wallets /\ d.winnerPrize + d.daoFee = d.pool,
         d.status = "DRAWING" => d.pool >= TicketPrice
  PROVE  /\ draws' \in [DrawIds -> Draw] /\ draws'[id] = d
         /\ OneLiveRound' /\ PoolsAddUp' /\ PrizesAddUp' /\ DrawnRoundsSold'
<1>1. draws' \in [DrawIds -> Draw] /\ draws'[id] = d
  BY DEF IInv, TypeOK
<1>2. \A i \in DrawIds : i # id => draws'[i] = draws[i]
  BY DEF IInv, TypeOK
<1>3. OneLiveRound'
  <2>1. ASSUME NEW i \in DrawIds, i < currentDrawId PROVE draws'[i].status \in Settled
    BY <2>1, <1>1, <1>2 DEF IInv, OneLiveRound
  <2>2. ASSUME NEW i \in DrawIds, i > currentDrawId PROVE draws'[i] = BlankDraw
    <3>1. i # id
      BY <2>2 DEF IInv, TypeOK, DrawIds
    <3> QED
      BY <2>2, <3>1, <1>2 DEF IInv, OneLiveRound
  <2> QED
    BY <2>1, <2>2 DEF OneLiveRound
<1>4. PoolsAddUp'
  <2>1. ASSUME NEW i \in DrawIds, i # id
        PROVE  draws'[i].pool =
                 draws'[i].inheritedRollover + draws'[i].participantCount * TicketPrice
    <3>1. draws'[i] = draws[i]
      BY <2>1, <1>2
    <3> QED
      BY <3>1 DEF IInv, PoolsAddUp
  <2>2. draws'[id].pool =
          draws'[id].inheritedRollover + draws'[id].participantCount * TicketPrice
    BY <1>1
  <2> QED
    BY <2>1, <2>2 DEF PoolsAddUp
<1>5. PrizesAddUp' /\ DrawnRoundsSold'
  BY <1>1, <1>2 DEF IInv, PrizesAddUp, DrawnRoundsSold
<1> QED
  BY <1>1, <1>3, <1>4, <1>5

LEMMA BuyTicketIInv ==
  ASSUME IInv, NEW w \in Wallets, NEW id \in DrawIds, NEW received, BuyTicket(w, id, received)
  PROVE  IInv'
<1> DEFINE number == draws[id].participantCount + 1
           pool   == draws[id].pool + TicketPrice
           d == [draws[id] EXCEPT !.participantCount = number, !.pool = pool]
<1> USE ConfigurationAssumption, EnvironmentAssumption
<1>1. draws[id] \in Draw /\ draws[id].status = "ACTIVE"
  BY DEF IInv, TypeOK, BuyTicket, OpenForSale
<1>2. draws[id].participantCount \in Nat /\ number \in 1..MaxParticipants
  BY <1>1 DEF IInv, BuyTicket, OpenForSale, Draw
<1>3. d \in Draw /\ d.status = "ACTIVE"
  <2>1. number \in 0..MaxParticipants /\ pool \in Nat
    BY <1>1, <1>2 DEF Draw
  <2> HIDE DEF number, pool
  <2> QED
    BY <1>1, <2>1 DEF Draw
<1>4. draws' = [draws EXCEPT ![id] = d]
  BY <1>1 DEF IInv, TypeOK, BuyTicket
<1>5. d.pool = d.inheritedRollover + d.participantCount * TicketPrice
  <2>1. draws[id].pool = draws[id].inheritedRollover + draws[id].participantCount * TicketPrice
    BY DEF IInv, PoolsAddUp
  <2>2. number * TicketPrice = draws[id].participantCount * TicketPrice + TicketPrice
    BY <1>2, OneMoreTicket
  <2>3. draws[id].participantCount * TicketPrice \in Nat
    BY <1>2, OneMoreTicket
  <2>4. /\ d.pool = draws[id].pool + TicketPrice
        /\ d.inheritedRollover = draws[id].inheritedRollover
        /\ d.participantCount = number
    BY <1>1 DEF Draw
  <2>5. draws[id].inheritedRollover \in Nat /\ draws[id].pool \in Nat /\ TicketPrice \in Nat
    BY <1>1 DEF Draw
  <2> HIDE DEF number, d
  <2> QED
    BY <2>1, <2>2, <2>3, <2>4, <2>5
<1>6. id = currentDrawId /\ currentDrawId' = currentDrawId
  BY DEF BuyTicket
<1>7. /\ draws' \in [DrawIds -> Draw] /\ draws'[id] = d
      /\ OneLiveRound' /\ PoolsAddUp' /\ PrizesAddUp' /\ DrawnRoundsSold'
  <2>1. id <= currentDrawId /\ ~(id < currentDrawId)
    BY <1>6 DEF DrawIds
  <2>2. d.status # "WINNER_DECLARED" /\ d.status # "DRAWING"
    BY <1>3
  <2> HIDE DEF d
  <2> QED
    BY <1>3, <1>4, <1>5, <1>6, <2>1, <2>2, OneRoundChanges
<1>8. balance' = [balance EXCEPT ![w] = @ - TicketPrice, ![Lottery] = @ + TicketPrice]
      /\ balance[w] >= TicketPrice /\ w # Lottery
  BY DEF BuyTicket, PaymentExact
<1>9. TypeOK'
  <2>1. balance' \in [Accounts -> Nat]
    <3>1. balance \in [Accounts -> Nat] /\ w \in Accounts /\ Lottery \in Accounts
      BY DEF IInv, TypeOK, Accounts
    <3>2. balance[w] - TicketPrice \in Nat /\ balance[Lottery] + TicketPrice \in Nat
      BY <1>8, <3>1
    <3> QED
      BY <1>8, <3>1, <3>2
  <2>2. owners' \in [DrawIds -> [1..Numbers -> Wallets \union {NoOne}]]
    <3>1. owners' = [owners EXCEPT ![id][number] = w]
      BY DEF BuyTicket
    <3>2. owners \in [DrawIds -> [1..Numbers -> Wallets \union {NoOne}]]
      BY DEF IInv, TypeOK
    <3> HIDE DEF number
    <3> HIDE ConfigurationAssumption, EnvironmentAssumption
    <3> QED
      BY <3>1, <3>2
  <2>3. ticketOf' \in [DrawIds -> [Wallets -> 0..MaxParticipants]]
    <3>1. ticketOf' = [ticketOf EXCEPT ![id][w] = number]
      BY DEF BuyTicket
    <3>2. number \in 0..MaxParticipants
      BY <1>2
    <3> HIDE DEF number
    <3> QED
      BY <3>1, <3>2 DEF IInv, TypeOK
  <2>4. activePool' \in Nat
    <3>1. activePool' = activePool + TicketPrice
      BY DEF BuyTicket
    <3>2. activePool \in Nat
      BY DEF IInv, TypeOK
    <3> QED
      BY <3>1, <3>2
  <2>5. /\ now' = now /\ pendingRollover' = pendingRollover
        /\ outstandingPrizes' = outstandingPrizes /\ outstandingRefunds' = outstandingRefunds
        /\ refunded' = refunded /\ requestDraw' = requestDraw /\ donated' = donated
    BY DEF BuyTicket
  <2>6. TypeOK
    BY DEF IInv
  <2> HIDE DEF d, number
  <2> HIDE ConfigurationAssumption, EnvironmentAssumption
  <2> QED
    BY <1>6, <1>7, <2>1, <2>2, <2>3, <2>4, <2>5, <2>6 DEF TypeOK
<1>10. ~CanStartDraw /\ ~CanStartDraw'
  BY <1>1, <1>3, <1>6, <1>7 DEF CanStartDraw, Settled, DrawIds
<1>11. ActivePoolIsCurrent'
  <2>1. activePool' = draws[id].pool + TicketPrice
    BY <1>6, <1>10 DEF IInv, ActivePoolIsCurrent, BuyTicket
  <2>2. draws'[id].pool = draws[id].pool + TicketPrice
    BY <1>1, <1>7 DEF Draw
  <2> QED
    BY <2>1, <2>2, <1>6, <1>10 DEF ActivePoolIsCurrent
<1>12. ExactBacking'
  <2>1. balance'[Lottery] = balance[Lottery] + TicketPrice
    BY <1>8 DEF IInv, TypeOK, Accounts
  <2>2. Liabilities' = Liabilities + TicketPrice
    <3>1. activePool' = activePool + TicketPrice
      BY DEF BuyTicket
    <3>2. /\ pendingRollover' = pendingRollover
          /\ outstandingPrizes' = outstandingPrizes
          /\ outstandingRefunds' = outstandingRefunds
      BY DEF BuyTicket
    <3>3. /\ activePool \in Nat /\ pendingRollover \in Nat
          /\ outstandingPrizes \in Nat /\ outstandingRefunds \in Nat
      BY DEF IInv, TypeOK
    <3> HIDE DEF number, pool, d
    <3> QED
      BY ONLY <3>1, <3>2, <3>3, ConfigurationAssumption DEF Liabilities
  <2>3. donated' = donated
    BY DEF BuyTicket
  <2> QED
    BY <2>1, <2>2, <2>3 DEF IInv, TypeOK, ExactBacking, Liabilities
<1> QED
  BY <1>7, <1>9, <1>11, <1>12 DEF IInv

\* The live round: what performDraw and the callback start from.
LEMMA LiveRound ==
  ASSUME IInv, NEW id \in DrawIds, draws[id].status \in Live,
         id = currentDrawId \/ draws[id].status = "DRAWING"
  PROVE  /\ id = currentDrawId /\ id <= currentDrawId /\ ~(id < currentDrawId)
         /\ ~CanStartDraw /\ activePool = draws[id].pool
         /\ draws[id] \in Draw
         /\ draws[id].participantCount * TicketPrice \in Nat
<1>1. draws[id] \in Draw /\ currentDrawId \in 0..MaxDraws
  BY DEF IInv, TypeOK
<1>2. id = currentDrawId
  <2>1. ~(id < currentDrawId)
    BY DEF IInv, OneLiveRound, Settled, Live
  <2>2. CASE draws[id].status = "DRAWING"
    <3>1. ~(id > currentDrawId)
      BY <2>2 DEF IInv, OneLiveRound, BlankDraw
    <3> QED
      BY <2>1, <3>1, <1>1, EnvironmentAssumption DEF DrawIds
  <2> QED
    BY <2>2
<1>3. ~CanStartDraw
  BY <1>2, EnvironmentAssumption DEF CanStartDraw, Live, Settled, DrawIds
<1>4. activePool = draws[id].pool
  BY <1>2, <1>3 DEF IInv, ActivePoolIsCurrent
<1>5. draws[id].participantCount \in Nat
  BY <1>1, ConfigurationAssumption DEF Draw
<1> QED
  BY <1>1, <1>2, <1>3, <1>4, <1>5, OneMoreTicket, EnvironmentAssumption DEF DrawIds

LEMMA CancelDrawIInv ==
  ASSUME IInv, NEW id \in DrawIds, CancelDraw(id)
  PROVE  IInv'
<1> DEFINE d == [draws[id] EXCEPT !.status = "CANCELLED"]
<1> USE ConfigurationAssumption, EnvironmentAssumption
<1>1. draws[id].status = "ACTIVE" /\ id = currentDrawId /\ currentDrawId' = currentDrawId
  BY DEF CancelDraw, CanPerformDraw
<1>2. /\ id <= currentDrawId /\ ~(id < currentDrawId)
      /\ activePool = draws[id].pool /\ draws[id] \in Draw
      /\ draws[id].participantCount * TicketPrice \in Nat
  BY <1>1, LiveRound DEF Live
<1>3. d \in Draw /\ d.status = "CANCELLED"
  BY <1>2 DEF Draw, Settled
<1>4. draws[id].pool = draws[id].inheritedRollover + draws[id].participantCount * TicketPrice
  BY DEF IInv, PoolsAddUp
<1>5. d.pool = d.inheritedRollover + d.participantCount * TicketPrice
  BY <1>2, <1>4 DEF Draw
<1>6. /\ draws' \in [DrawIds -> Draw] /\ draws'[id] = d
      /\ OneLiveRound' /\ PoolsAddUp' /\ PrizesAddUp' /\ DrawnRoundsSold'
  <2>1. draws' = [draws EXCEPT ![id] = d]
    BY DEF CancelDraw
  <2>2. d.status # "WINNER_DECLARED" /\ d.status # "DRAWING"
    BY <1>3
  <2> HIDE DEF d
  <2> QED
    BY <1>1, <1>2, <1>3, <1>5, <2>1, <2>2, OneRoundChanges
<1>7. /\ activePool' = 0
      /\ outstandingRefunds' = outstandingRefunds + draws[id].participantCount * TicketPrice
      /\ pendingRollover' = pendingRollover + draws[id].inheritedRollover
      /\ outstandingPrizes' = outstandingPrizes
  BY DEF CancelDraw, RefundTotal, CarriedOver
<1>8. draws[id].inheritedRollover \in Nat /\ draws[id].pool \in Nat
  BY <1>2 DEF Draw
<1>9. TypeOK'
  <2>1. outstandingRefunds' \in Nat /\ pendingRollover' \in Nat
    <3> DEFINE total == draws[id].participantCount * TicketPrice
               pot   == draws[id].inheritedRollover
    <3>1. outstandingRefunds \in Nat /\ pendingRollover \in Nat
      BY DEF IInv, TypeOK
    <3>2. total \in Nat /\ pot \in Nat
      BY <1>2, <1>8
    <3>3. outstandingRefunds' = outstandingRefunds + total /\ pendingRollover' = pendingRollover + pot
      BY <1>7
    <3> HIDE DEF total, pot
    <3> HIDE ConfigurationAssumption, EnvironmentAssumption
    <3> QED
      BY <3>1, <3>2, <3>3
  <2> QED
    BY SMTT(30), <1>6, <1>7, <2>1 DEF IInv, TypeOK, CancelDraw, tickets, token
<1>10. ActivePoolIsCurrent'
  BY <1>1, <1>3, <1>6, <1>7 DEF ActivePoolIsCurrent, CanStartDraw, Settled
<1>11. ExactBacking'
  <2>1. Liabilities' = Liabilities
    <3>1. /\ pendingRollover \in Nat /\ outstandingPrizes \in Nat
          /\ outstandingRefunds \in Nat
      BY DEF IInv, TypeOK
    <3> QED
      BY <1>2, <1>4, <1>7, <1>8, <3>1 DEF Liabilities
  <2> QED
    BY <2>1 DEF IInv, ExactBacking, CancelDraw, token
<1> QED
  BY <1>6, <1>9, <1>10, <1>11 DEF IInv

LEMMA RequestDrawIInv ==
  ASSUME IInv, NEW id \in DrawIds, NEW r \in Requests, RequestDraw(id, r)
  PROVE  IInv'
<1> DEFINE d == [draws[id] EXCEPT !.status = "DRAWING", !.requestId = r]
<1> USE ConfigurationAssumption, EnvironmentAssumption
<1>1. draws[id].status = "ACTIVE" /\ id = currentDrawId /\ currentDrawId' = currentDrawId
  BY DEF RequestDraw, CanPerformDraw
<1>2. /\ id <= currentDrawId /\ ~(id < currentDrawId)
      /\ activePool = draws[id].pool /\ draws[id] \in Draw
      /\ draws[id].participantCount * TicketPrice \in Nat
  BY <1>1, LiveRound DEF Live
<1>3. d \in Draw /\ d.status = "DRAWING"
  BY <1>2 DEF Draw, Live
<1>4. draws[id].pool = draws[id].inheritedRollover + draws[id].participantCount * TicketPrice
  BY DEF IInv, PoolsAddUp
<1>5. d.pool = d.inheritedRollover + d.participantCount * TicketPrice
  BY <1>2, <1>4 DEF Draw
<1>6. d.pool >= TicketPrice
  <2>1. draws[id].participantCount \in Nat /\ draws[id].participantCount >= 1
    BY <1>2 DEF Draw, RequestDraw
  <2>2. draws[id].participantCount * TicketPrice >= TicketPrice
    BY <2>1, OneMoreTicket
  <2>3. draws[id].inheritedRollover \in Nat /\ d.pool = draws[id].pool
    BY <1>2 DEF Draw
  <2> HIDE DEF d
  <2> QED
    BY <1>2, <1>4, <2>2, <2>3
<1>7. /\ draws' \in [DrawIds -> Draw] /\ draws'[id] = d
      /\ OneLiveRound' /\ PoolsAddUp' /\ PrizesAddUp' /\ DrawnRoundsSold'
  <2>1. draws' = [draws EXCEPT ![id] = d]
    BY DEF RequestDraw
  <2>2. d.status # "WINNER_DECLARED"
    BY <1>3
  <2> HIDE DEF d
  <2> QED
    BY <1>1, <1>2, <1>3, <1>5, <1>6, <2>1, <2>2, OneRoundChanges
<1>8. TypeOK'
  <2>1. requestDraw' \in [Requests -> 0..MaxDraws]
    <3>1. requestDraw' = [requestDraw EXCEPT ![r] = id]
      BY DEF RequestDraw
    <3>2. requestDraw \in [Requests -> 0..MaxDraws]
      BY DEF IInv, TypeOK
    <3>3. id \in 0..MaxDraws
      BY DEF DrawIds
    <3> HIDE ConfigurationAssumption, EnvironmentAssumption
    <3> QED
      BY <3>1, <3>2, <3>3
  <2>2. activePool' \in Nat
    BY <1>2 DEF RequestDraw, Draw
  <2>3. /\ now' = now /\ pendingRollover' = pendingRollover
        /\ outstandingPrizes' = outstandingPrizes /\ outstandingRefunds' = outstandingRefunds
        /\ owners' = owners /\ ticketOf' = ticketOf /\ refunded' = refunded
        /\ balance' = balance /\ donated' = donated
    BY DEF RequestDraw, tickets, token
  <2>4. TypeOK
    BY DEF IInv
  <2> HIDE DEF d
  <2> HIDE ConfigurationAssumption, EnvironmentAssumption
  <2> QED
    BY <1>1, <1>7, <2>1, <2>2, <2>3, <2>4 DEF TypeOK
<1>9. ActivePoolIsCurrent'
  <2>1. d.pool = draws[id].pool
    BY <1>2 DEF Draw
  <2>2. ~CanStartDraw'
    BY <1>1, <1>3, <1>7 DEF CanStartDraw, Settled, DrawIds
  <2> QED
    BY <1>1, <1>7, <2>1, <2>2 DEF ActivePoolIsCurrent, RequestDraw
<1>10. ExactBacking'
  BY <1>2 DEF IInv, ExactBacking, Liabilities, RequestDraw, token
<1> QED
  BY <1>7, <1>8, <1>9, <1>10 DEF IInv

LEMMA SettleDrawIInv ==
  ASSUME IInv, NEW r \in Requests, NEW word \in Words, SettleDraw(r, word)
  PROVE  IInv'
<1> DEFINE id     == requestDraw[r]
           lucky  == LuckyNumber(word)
           winner == TicketOwner(id, lucky)
           pool   == draws[id].pool
           fee    == DaoFee(pool)
<1> USE ConfigurationAssumption, EnvironmentAssumption
<1>1. id \in DrawIds /\ draws[id].status = "DRAWING"
  BY DEF IInv, TypeOK, SettleDraw, AwaitsWord, DrawIds
<1>2. /\ id = currentDrawId /\ id <= currentDrawId /\ ~(id < currentDrawId)
      /\ activePool = pool /\ draws[id] \in Draw
  BY <1>1, LiveRound DEF Live
<1>3. /\ currentDrawId' = currentDrawId /\ activePool' = 0
      /\ outstandingRefunds' = outstandingRefunds
      /\ UNCHANGED <<now, owners, ticketOf, refunded, requestDraw, balance, donated>>
  BY DEF SettleDraw, tickets, token
<1>4. lucky \in 1..Numbers /\ lucky \in 0..Numbers
  BY LuckyInRange
<1>5. winner \in Wallets \union {NoOne}
  BY <1>1, <1>4 DEF IInv, TypeOK, TicketOwner
<1>6. pool \in Nat /\ pool >= TicketPrice
  BY <1>1, <1>2 DEF IInv, DrawnRoundsSold, Draw
<1>7. fee \in Nat /\ pool - fee \in Nat
  <2>1. fee \in Nat /\ fee <= pool - TicketPrice
    BY <1>6, FeeBounds
  <2> HIDE DEF fee, pool
  <2> QED
    BY <1>6, <2>1
<1>8. pool = draws[id].inheritedRollover + draws[id].participantCount * TicketPrice
  BY <1>1 DEF IInv, PoolsAddUp
<1>9. pendingRollover \in Nat /\ outstandingPrizes \in Nat /\ outstandingRefunds \in Nat
  BY DEF IInv, TypeOK
<1>10. ASSUME NEW d \in Draw, draws' = [draws EXCEPT ![id] = d], d.status \in Settled,
              d.pool = pool,
              d.inheritedRollover = draws[id].inheritedRollover,
              d.participantCount = draws[id].participantCount,
              d.status = "WINNER_DECLARED" =>
                d.winner \in Wallets /\ d.winnerPrize + d.daoFee = d.pool,
              \/ /\ pendingRollover' = pendingRollover + pool
                 /\ outstandingPrizes' = outstandingPrizes
              \/ /\ pendingRollover' = pendingRollover
                 /\ outstandingPrizes' = outstandingPrizes + pool
       PROVE  IInv'
  <2> HIDE DEF id, pool
  <2>1. /\ draws' \in [DrawIds -> Draw] /\ draws'[id] = d
        /\ OneLiveRound' /\ PoolsAddUp' /\ PrizesAddUp' /\ DrawnRoundsSold'
    <3>1. d.pool = d.inheritedRollover + d.participantCount * TicketPrice
      BY <1>8, <1>10
    <3>2. d.status # "DRAWING"
      BY <1>10 DEF Settled
    <3> QED
      BY <1>1, <1>2, <1>3, <1>10, <3>1, <3>2, OneRoundChanges
  <2>2. TypeOK'
    <3>1. pendingRollover' \in Nat /\ outstandingPrizes' \in Nat
      BY <1>6, <1>9, <1>10
    <3> QED
      BY <2>1, <3>1, <1>3, <1>9 DEF IInv, TypeOK
  <2>3. ActivePoolIsCurrent'
    BY <1>2, <1>3, <1>10, <2>1 DEF ActivePoolIsCurrent, CanStartDraw
  <2>4. ExactBacking'
    <3>1. /\ activePool = pool /\ activePool' = 0
          /\ outstandingRefunds' = outstandingRefunds
          /\ balance' = balance /\ donated' = donated
      BY <1>2, <1>3
    <3>2. \/ /\ pendingRollover' = pendingRollover + pool
             /\ outstandingPrizes' = outstandingPrizes
          \/ /\ pendingRollover' = pendingRollover
             /\ outstandingPrizes' = outstandingPrizes + pool
      BY <1>10
    <3>3. Liabilities' = Liabilities
      BY <3>1, <3>2, <1>6, <1>9 DEF Liabilities
    <3> QED
      BY <3>1, <3>3 DEF IInv, ExactBacking
  <2> QED
    BY <2>1, <2>2, <2>3, <2>4 DEF IInv
<1>11. CASE winner = NoOne
  <2> DEFINE d == [draws[id] EXCEPT !.status = "NO_WINNER", !.luckyNumber = lucky,
                                    !.winner = NoOne]
  <2>1. /\ draws' = [draws EXCEPT ![id] = d]
        /\ pendingRollover' = pendingRollover + pool
        /\ outstandingPrizes' = outstandingPrizes
    BY <1>11 DEF SettleDraw
  <2>2. /\ d \in Draw /\ d.status = "NO_WINNER" /\ d.pool = pool
        /\ d.inheritedRollover = draws[id].inheritedRollover
        /\ d.participantCount = draws[id].participantCount
    <3> HIDE DEF id, lucky
    <3> QED
      BY <1>2, <1>4 DEF Draw, Settled
  <2>3. d.status \in Settled /\ d.status # "WINNER_DECLARED"
    BY <2>2 DEF Settled
  <2> HIDE DEF d, id, pool
  <2> QED
    BY <1>10, <2>1, <2>2, <2>3
<1>12. CASE winner # NoOne
  <2> DEFINE prize == pool - fee
             d == [draws[id] EXCEPT !.status = "WINNER_DECLARED", !.luckyNumber = lucky,
                                    !.winner = winner, !.daoFee = fee,
                                    !.winnerPrize = prize]
  <2>1. /\ draws' = [draws EXCEPT ![id] = d]
        /\ pendingRollover' = pendingRollover
        /\ outstandingPrizes' = outstandingPrizes + pool
    BY <1>12 DEF SettleDraw
  <2>2. winner \in Wallets
    BY <1>5, <1>12
  <2>3. prize \in Nat /\ prize + fee = pool
    <3> HIDE DEF fee, pool
    <3> QED
      BY <1>6, <1>7
  <2>4. /\ d \in Draw /\ d.status = "WINNER_DECLARED" /\ d.pool = pool
        /\ d.inheritedRollover = draws[id].inheritedRollover
        /\ d.participantCount = draws[id].participantCount
        /\ d.winner = winner /\ d.winnerPrize = prize /\ d.daoFee = fee
    <3>1. fee \in Nat
      BY <1>7
    <3> HIDE DEF id, lucky, winner, fee, prize
    <3> QED
      BY <1>2, <1>4, <2>2, <2>3, <3>1 DEF Draw, Settled
  <2>5. d.status \in Settled
    BY <2>4 DEF Settled
  <2> HIDE DEF d, id, pool, winner, fee, prize
  <2>6. d.winner \in Wallets /\ d.winnerPrize + d.daoFee = d.pool
    BY <2>2, <2>3, <2>4
  <2> QED
    BY <1>10, <2>1, <2>4, <2>5, <2>6
<1> QED
  BY <1>11, <1>12

LEMMA ClaimPrizeIInv ==
  ASSUME IInv, NEW w \in Wallets, NEW id \in DrawIds, ClaimPrize(w, id)
  PROVE  IInv'
<1> DEFINE pool  == draws[id].pool
           fee   == draws[id].daoFee
           prize == draws[id].winnerPrize
           d     == [draws[id] EXCEPT !.status = "COMPLETED"]
<1> USE ConfigurationAssumption, EnvironmentAssumption
<1>1. draws[id] \in Draw /\ draws[id].status = "WINNER_DECLARED"
  BY DEF IInv, TypeOK, ClaimPrize, OwedPrize
<1>2. pool \in Nat /\ fee \in Nat /\ prize \in Nat /\ prize + fee = pool
  BY <1>1 DEF IInv, PrizesAddUp, Draw
<1>3. id <= currentDrawId /\ currentDrawId \in 0..MaxDraws
  BY <1>1 DEF IInv, TypeOK, OneLiveRound, BlankDraw, DrawIds
<1>4. d \in Draw /\ d.status = "COMPLETED"
  BY <1>1 DEF Draw, Settled
<1>5. d.pool = d.inheritedRollover + d.participantCount * TicketPrice
  <2>1. /\ d.pool = draws[id].pool /\ d.inheritedRollover = draws[id].inheritedRollover
        /\ d.participantCount = draws[id].participantCount
    BY <1>1 DEF Draw
  <2> HIDE DEF d
  <2> QED
    BY <2>1 DEF IInv, PoolsAddUp
<1>6. draws' = [draws EXCEPT ![id] = d] /\ currentDrawId' = currentDrawId
  BY DEF ClaimPrize
<1>7. /\ draws' \in [DrawIds -> Draw] /\ draws'[id] = d
      /\ OneLiveRound' /\ PoolsAddUp' /\ PrizesAddUp' /\ DrawnRoundsSold'
  <2>1. d.status \in Settled /\ d.status # "WINNER_DECLARED" /\ d.status # "DRAWING"
    BY <1>4 DEF Settled
  <2> HIDE DEF d
  <2> QED
    BY <1>3, <1>4, <1>5, <1>6, <2>1, OneRoundChanges
<1>8. /\ outstandingPrizes >= pool /\ outstandingPrizes' = outstandingPrizes - pool
      /\ balance[Lottery] >= fee + prize
      /\ balance' = [[balance EXCEPT ![Lottery] = @ - fee - prize, ![DAO] = @ + fee]
                       EXCEPT ![w] = @ + prize]
  BY DEF ClaimPrize, PrizePaid
<1>9. balance' \in [Accounts -> Nat] /\ balance'[Lottery] = balance[Lottery] - pool
  <2> DEFINE paid == [balance EXCEPT ![Lottery] = @ - fee - prize, ![DAO] = @ + fee]
  <2>1. /\ balance \in [Accounts -> Nat] /\ w \in Accounts /\ Lottery \in Accounts
        /\ DAO \in Accounts /\ w # Lottery /\ DAO # Lottery
    BY DEF IInv, TypeOK, Accounts
  <2> HIDE DEF fee, prize, pool
  <2>2. /\ balance[Lottery] - fee - prize \in Nat /\ balance[DAO] + fee \in Nat
        /\ balance[Lottery] - fee - prize = balance[Lottery] - pool
    BY <1>2, <1>8, <2>1
  <2>3. paid \in [Accounts -> Nat] /\ paid[Lottery] = balance[Lottery] - pool
    BY <2>1, <2>2
  <2>4. balance' = [paid EXCEPT ![w] = paid[w] + prize]
    BY <1>8, <2>1
  <2> HIDE DEF paid
  <2>5. paid[w] + prize \in Nat
    BY <1>2, <2>1, <2>3
  <2> QED
    BY <2>1, <2>3, <2>4, <2>5
<1>10. TypeOK'
  <2>1. outstandingPrizes' \in Nat
    BY <1>2, <1>8 DEF IInv, TypeOK
  <2> QED
    BY <1>7, <1>9, <2>1 DEF IInv, TypeOK, ClaimPrize, tickets
<1>11. ActivePoolIsCurrent'
  <2>1. activePool' = activePool
    BY DEF ClaimPrize
  <2>2. CASE id = currentDrawId
    BY <1>1, <1>4, <1>6, <1>7, <2>1, <2>2
       DEF IInv, ActivePoolIsCurrent, CanStartDraw, Settled
  <2>3. CASE id # currentDrawId
    <3>1. currentDrawId # 0 => draws'[currentDrawId] = draws[currentDrawId]
      BY <1>3, <1>6, <2>3 DEF IInv, TypeOK, DrawIds
    <3> QED
      BY <3>1, <1>6, <2>1 DEF IInv, ActivePoolIsCurrent, CanStartDraw
  <2> QED
    BY <2>2, <2>3
<1>12. ExactBacking'
  <2>1. /\ activePool' = activePool /\ pendingRollover' = pendingRollover
        /\ outstandingRefunds' = outstandingRefunds /\ donated' = donated
    BY DEF ClaimPrize
  <2>2. /\ activePool \in Nat /\ pendingRollover \in Nat /\ outstandingRefunds \in Nat
        /\ outstandingPrizes \in Nat /\ donated \in Nat
    BY DEF IInv, TypeOK
  <2> HIDE DEF pool
  <2>3. Liabilities' = Liabilities - pool /\ Liabilities \in Nat
    BY <1>2, <1>8, <2>1, <2>2 DEF Liabilities
  <2> QED
    BY <1>2, <1>9, <2>1, <2>2, <2>3 DEF IInv, ExactBacking
<1> QED
  BY <1>7, <1>10, <1>11, <1>12 DEF IInv

LEMMA ClaimRefundIInv ==
  ASSUME IInv, NEW w \in Wallets, NEW id \in DrawIds, ClaimRefund(w, id)
  PROVE  IInv'
<1> USE ConfigurationAssumption, EnvironmentAssumption
<1>1. /\ draws' = draws /\ currentDrawId' = currentDrawId /\ activePool' = activePool
      /\ pendingRollover' = pendingRollover /\ outstandingPrizes' = outstandingPrizes
      /\ donated' = donated
      /\ outstandingRefunds' = outstandingRefunds - TicketPrice
      /\ outstandingRefunds >= TicketPrice /\ balance[Lottery] >= TicketPrice
  BY DEF ClaimRefund
<1>2. balance' \in [Accounts -> Nat] /\ balance'[Lottery] = balance[Lottery] - TicketPrice
  <2>1. /\ balance \in [Accounts -> Nat] /\ w \in Accounts /\ Lottery \in Accounts
        /\ w # Lottery
    BY DEF IInv, TypeOK, Accounts
  <2>2. balance[w] + TicketPrice \in Nat /\ balance[Lottery] - TicketPrice \in Nat
    BY <1>1, <2>1
  <2>3. balance' = [balance EXCEPT ![Lottery] = balance[Lottery] - TicketPrice,
                                   ![w] = balance[w] + TicketPrice]
    BY <2>1 DEF ClaimRefund
  <2> QED
    BY <2>1, <2>2, <2>3
<1>3. TypeOK'
  <2>1. outstandingRefunds' \in Nat
    BY <1>1 DEF IInv, TypeOK
  <2>2. refunded' \in [DrawIds -> [Wallets -> BOOLEAN]]
    BY DEF IInv, TypeOK, ClaimRefund
  <2> QED
    BY <1>1, <1>2, <2>1, <2>2 DEF IInv, TypeOK, ClaimRefund
<1>4. /\ OneLiveRound' /\ PoolsAddUp' /\ PrizesAddUp' /\ DrawnRoundsSold'
      /\ ActivePoolIsCurrent'
  BY <1>1 DEF IInv, OneLiveRound, PoolsAddUp, PrizesAddUp, DrawnRoundsSold,
       ActivePoolIsCurrent, CanStartDraw
<1>5. ExactBacking'
  <2>1. /\ activePool \in Nat /\ pendingRollover \in Nat /\ outstandingRefunds \in Nat
        /\ outstandingPrizes \in Nat /\ donated \in Nat
    BY DEF IInv, TypeOK
  <2>2. Liabilities' = Liabilities - TicketPrice /\ Liabilities \in Nat
    BY <1>1, <2>1 DEF Liabilities
  <2> QED
    BY <1>1, <1>2, <2>1, <2>2 DEF IInv, ExactBacking
<1> QED
  BY <1>3, <1>4, <1>5 DEF IInv

\* The steps that touch neither rounds nor buckets.
LEMMA EnvironmentIInv ==
  ASSUME IInv, Tick \/ Donate \/ UNCHANGED vars
  PROVE  IInv'
<1>1. /\ draws' = draws /\ currentDrawId' = currentDrawId /\ activePool' = activePool
      /\ pendingRollover' = pendingRollover /\ outstandingPrizes' = outstandingPrizes
      /\ outstandingRefunds' = outstandingRefunds
      /\ UNCHANGED <<owners, ticketOf, refunded, requestDraw>>
  BY DEF Tick, Donate, vars, ledger, tickets
<1>2. /\ OneLiveRound' /\ PoolsAddUp' /\ PrizesAddUp' /\ DrawnRoundsSold'
      /\ ActivePoolIsCurrent' /\ Liabilities' = Liabilities
  BY <1>1 DEF IInv, OneLiveRound, PoolsAddUp, PrizesAddUp, DrawnRoundsSold,
       ActivePoolIsCurrent, CanStartDraw, Liabilities
<1>3. TypeOK' /\ ExactBacking'
  <2>1. CASE Tick
    <3>1. now' \in Nat /\ balance' = balance /\ donated' = donated
      BY <2>1 DEF IInv, TypeOK, Tick, token
    <3> QED
      BY <1>1, <1>2, <3>1 DEF IInv, TypeOK, ExactBacking
  <2>2. CASE Donate
    <3>1. now' = now /\ donated' = donated + 1
          /\ balance' = [balance EXCEPT ![Lottery] = @ + 1]
      BY <2>2 DEF Donate
    <3>2. balance' \in [Accounts -> Nat] /\ balance'[Lottery] = balance[Lottery] + 1
      BY <3>1 DEF IInv, TypeOK, Accounts
    <3>3. Liabilities \in Nat /\ donated \in Nat /\ balance[Lottery] \in Nat
      BY DEF IInv, TypeOK, Liabilities, Accounts
    <3>4. ExactBacking'
      BY <1>2, <3>1, <3>2, <3>3 DEF IInv, ExactBacking
    <3> QED
      BY <1>1, <3>1, <3>2, <3>3, <3>4 DEF IInv, TypeOK
  <2>3. CASE UNCHANGED vars
    BY <2>3, <1>1, <1>2 DEF IInv, TypeOK, ExactBacking, vars, token
  <2> QED
    BY <2>1, <2>2, <2>3
<1> QED
  BY <1>2, <1>3 DEF IInv

LEMMA CallbackIInv ==
  ASSUME IInv, NEW r \in Requests, NEW word \in Words, FulfillRandomness(r, word)
  PROVE  IInv'
<1>1. CASE SettleDraw(r, word)
  BY <1>1, SettleDrawIInv
<1>2. CASE IgnoreCallback(r)
  BY <1>2, EnvironmentIInv DEF IgnoreCallback
<1> QED
  BY <1>1, <1>2 DEF FulfillRandomness

-----------------------------------------------------------------------------
(* Rounds and requests                                                     *)

\* A round asks for its word once: while it is open it has no request.
NoRequestYet ==
  \A id \in DrawIds : draws[id].status = "ACTIVE" => draws[id].requestId = NoRequest

RInv == RequestsBelongToOneRound /\ NoRequestYet

\* Only performDraw writes requests; the other transactions keep the ids of all
\* rounds and make no round live that was not.
RequestsKept ==
  /\ requestDraw' = requestDraw
  /\ \A id \in DrawIds :
       /\ draws'[id].requestId = draws[id].requestId
       /\ draws'[id].status \in Live => draws'[id].status = draws[id].status

LEMMA KeepRequests ==
  ASSUME RInv, IInv, RequestsKept
  PROVE  RInv'
<1>1. \A r \in Requests : requestDraw[r] # 0 => requestDraw[r] \in DrawIds
  BY EnvironmentAssumption DEF IInv, TypeOK, DrawIds
<1>2. RequestsBelongToOneRound'
  BY <1>1 DEF RInv, RequestsBelongToOneRound, RequestsKept, Live
<1>3. NoRequestYet'
  BY DEF RInv, NoRequestYet, RequestsKept, Live
<1> QED
  BY <1>2, <1>3 DEF RInv

LEMMA RequestDrawRInv ==
  ASSUME RInv, IInv, NEW id \in DrawIds, NEW r \in Requests, RequestDraw(id, r)
  PROVE  RInv'
<1>1. /\ draws[id].status = "ACTIVE" /\ draws[id].requestId = NoRequest
      /\ requestDraw[r] = 0
  BY DEF RequestDraw, CanPerformDraw, FreshRequest, RInv, NoRequestYet
<1>2. /\ draws'[id].status = "DRAWING" /\ draws'[id].requestId = r
      /\ \A i \in DrawIds : i # id => draws'[i] = draws[i]
  BY DEF RequestDraw, IInv, TypeOK, Draw
<1>3. /\ requestDraw'[r] = id
      /\ \A q \in Requests : q # r => requestDraw'[q] = requestDraw[q]
  BY DEF RequestDraw, IInv, TypeOK
<1>4. r # NoRequest /\ id # 0
  BY EnvironmentAssumption DEF DrawIds
<1>5. \A q \in Requests : requestDraw[q] # 0 => requestDraw[q] \in DrawIds
  BY EnvironmentAssumption DEF IInv, TypeOK, DrawIds
<1>6. \A q \in Requests : requestDraw'[q] # 0 => draws'[requestDraw'[q]].requestId = q
  <2>1. ASSUME NEW q \in Requests, q # r, requestDraw'[q] # 0
        PROVE  draws'[requestDraw'[q]].requestId = q
    <3>1. requestDraw'[q] = requestDraw[q] /\ requestDraw[q] \in DrawIds
      BY <2>1, <1>3, <1>5
    <3>2. draws[requestDraw[q]].requestId = q
      BY <2>1, <3>1 DEF RInv, RequestsBelongToOneRound
    <3>3. requestDraw[q] # id
      BY <3>2, <1>1, EnvironmentAssumption
    <3> QED
      BY <3>1, <3>2, <3>3, <1>2
  <2> QED
    BY <2>1, <1>2, <1>3
<1>7. \A i \in DrawIds :
        draws'[i].requestId # NoRequest => requestDraw'[draws'[i].requestId] = i
  <2>1. ASSUME NEW i \in DrawIds, i # id, draws'[i].requestId # NoRequest
        PROVE  requestDraw'[draws'[i].requestId] = i
    <3>1. draws'[i] = draws[i] /\ draws[i].requestId \in Requests
      BY <2>1, <1>2 DEF IInv, TypeOK, Draw
    <3>2. requestDraw[draws[i].requestId] = i /\ i # 0
      BY <2>1, <3>1, EnvironmentAssumption DEF RInv, RequestsBelongToOneRound, DrawIds
    <3>3. draws[i].requestId # r
      BY <3>2, <1>1
    <3> QED
      BY <3>1, <3>2, <3>3, <1>3
  <2> QED
    BY <2>1, <1>2, <1>3
<1>8. \A i \in DrawIds : draws'[i].status = "DRAWING" => draws'[i].requestId # NoRequest
  BY <1>2, <1>4 DEF RInv, RequestsBelongToOneRound
<1>9. NoRequestYet'
  BY <1>2 DEF RInv, NoRequestYet
<1> QED
  BY <1>6, <1>7, <1>8, <1>9 DEF RInv, RequestsBelongToOneRound

\* finalizeDraw reaches the callback only for the request of its round.
LEMMA FinalizeIsCallback ==
  ASSUME IInv, RInv, NEW id \in DrawIds, NEW word \in Words, FinalizeDraw(id, word)
  PROVE  draws[id].requestId \in Requests /\ FulfillRandomness(draws[id].requestId, word)
BY DEF IInv, TypeOK, Draw, FinalizeDraw, RInv, RequestsBelongToOneRound

LEMMA CallbackRInv ==
  ASSUME IInv, RInv, NEW r \in Requests, NEW word \in Words, FulfillRandomness(r, word)
  PROVE  RInv'
<1>1. CASE SettleDraw(r, word)
  <2>1. requestDraw' = requestDraw
    BY <1>1 DEF SettleDraw
  <2>2. requestDraw[r] \in DrawIds
    BY <1>1, EnvironmentAssumption DEF IInv, TypeOK, SettleDraw, AwaitsWord, DrawIds
  <2>3. \A i \in DrawIds : i # requestDraw[r] => draws'[i] = draws[i]
    BY <1>1, <2>2 DEF IInv, TypeOK, SettleDraw
  <2>4. /\ draws'[requestDraw[r]].requestId = draws[requestDraw[r]].requestId
        /\ draws'[requestDraw[r]].status \in {"NO_WINNER", "WINNER_DECLARED"}
    BY <1>1, <2>2 DEF IInv, TypeOK, SettleDraw, Draw
  <2>5. RequestsKept
    BY <2>1, <2>3, <2>4 DEF RequestsKept, Live
  <2> QED
    BY <2>5, KeepRequests
<1>2. CASE IgnoreCallback(r)
  BY <1>2, KeepRequests DEF IgnoreCallback, RequestsKept, vars
<1> QED
  BY <1>1, <1>2 DEF FulfillRandomness

FullInv == IInv /\ RInv

LEMMA InitFullInv == Init => FullInv
<1>1. Init => RInv
  BY EnvironmentAssumption DEF Init, RInv, RequestsBelongToOneRound, NoRequestYet, BlankDraw, DrawIds
<1> QED
  BY <1>1, InitIInv DEF FullInv

\* One step for each transaction.
LEMMA NextFullInv == FullInv /\ [Next]_vars => FullInv'
<1> SUFFICES ASSUME FullInv, [Next]_vars PROVE FullInv'
  OBVIOUS
<1>0. IInv /\ RInv
  BY DEF FullInv
<1>d. draws \in [DrawIds -> Draw]
  BY <1>0 DEF IInv, TypeOK
<1>1. ASSUME NEW n \in 0..MaxDraws, StartDraw(n) PROVE FullInv'
  <2>1. requestDraw' = requestDraw
    BY <1>1 DEF StartDraw
  <2>2. draws' = [draws EXCEPT ![currentDrawId + 1].deadline = now + Duration,
                               ![currentDrawId + 1].inheritedRollover = pendingRollover,
                               ![currentDrawId + 1].pool = pendingRollover]
    BY <1>1 DEF StartDraw
  <2>3. ASSUME NEW id \in DrawIds
        PROVE  draws'[id].requestId = draws[id].requestId /\ draws'[id].status = draws[id].status
    BY <1>d, <2>2, <2>3 DEF Draw
  <2>4. RequestsKept
    BY <2>1, <2>3 DEF RequestsKept
  <2>5. IInv'
    BY <1>0, <1>1, StartDrawIInv
  <2>6. RInv'
    BY <1>0, <2>4, KeepRequests
  <2> QED
    BY <2>5, <2>6 DEF FullInv
<1>2. ASSUME NEW w \in Wallets, NEW id \in DrawIds,
             NEW received \in {TicketPrice - 1, TicketPrice}, BuyTicket(w, id, received)
      PROVE  FullInv'
  <2>0. /\ requestDraw' = requestDraw
        /\ draws' = [draws EXCEPT ![id].participantCount = draws[id].participantCount + 1,
                                 ![id].pool = draws[id].pool + TicketPrice]
    BY <1>2 DEF BuyTicket
  <2>1. RequestsKept
    BY <1>d, <2>0 DEF RequestsKept, Draw
  <2>8. IInv'
    BY <1>0, <1>2, BuyTicketIInv
  <2>9. RInv'
    BY <1>0, <2>1, KeepRequests
  <2> QED
    BY <2>8, <2>9 DEF FullInv
<1>3. ASSUME NEW id \in DrawIds, CancelDraw(id) PROVE FullInv'
  <2>0. requestDraw' = requestDraw /\ draws' = [draws EXCEPT ![id].status = "CANCELLED"]
    BY <1>3 DEF CancelDraw
  <2>1. RequestsKept
    BY <1>d, <2>0 DEF RequestsKept, Draw, Live
  <2>8. IInv'
    BY <1>0, <1>3, CancelDrawIInv
  <2>9. RInv'
    BY <1>0, <2>1, KeepRequests
  <2> QED
    BY <2>8, <2>9 DEF FullInv
<1>4. ASSUME NEW id \in DrawIds, NEW r \in Requests, RequestDraw(id, r) PROVE FullInv'
  BY <1>0, <1>4, RequestDrawIInv, RequestDrawRInv DEF FullInv
<1>5. ASSUME NEW r \in Requests, NEW word \in Words, FulfillRandomness(r, word) PROVE FullInv'
  BY <1>0, <1>5, CallbackIInv, CallbackRInv DEF FullInv
<1>6. ASSUME NEW id \in DrawIds, NEW word \in Words, FinalizeDraw(id, word) PROVE FullInv'
  BY <1>0, <1>5, <1>6, FinalizeIsCallback
<1>7. ASSUME NEW w \in Wallets, NEW id \in DrawIds, ClaimPrize(w, id) PROVE FullInv'
  <2>0. requestDraw' = requestDraw /\ draws' = [draws EXCEPT ![id].status = "COMPLETED"]
    BY <1>7 DEF ClaimPrize
  <2>1. RequestsKept
    BY <1>d, <2>0 DEF RequestsKept, Draw, Live
  <2>8. IInv'
    BY <1>0, <1>7, ClaimPrizeIInv
  <2>9. RInv'
    BY <1>0, <2>1, KeepRequests
  <2> QED
    BY <2>8, <2>9 DEF FullInv
<1>8. ASSUME NEW w \in Wallets, NEW id \in DrawIds, ClaimRefund(w, id) PROVE FullInv'
  <2>1. RequestsKept
    BY <1>8 DEF ClaimRefund, RequestsKept
  <2>8. IInv'
    BY <1>0, <1>8, ClaimRefundIInv
  <2>9. RInv'
    BY <1>0, <2>1, KeepRequests
  <2> QED
    BY <2>8, <2>9 DEF FullInv
<1>9. ASSUME Tick \/ Donate \/ UNCHANGED vars PROVE FullInv'
  <2>1. RequestsKept
    BY <1>9 DEF Tick, Donate, vars, RequestsKept
  <2>8. IInv'
    BY <1>0, <1>9, EnvironmentIInv
  <2>9. RInv'
    BY <1>0, <2>1, KeepRequests
  <2> QED
    BY <2>8, <2>9 DEF FullInv
<1> QED
  BY <1>1, <1>2, <1>3, <1>4, <1>5, <1>6, <1>7, <1>8, <1>9 DEF Next

LEMMA Invariance == Spec => []FullInv
BY InitFullInv, NextFullInv, PTL DEF Spec

-----------------------------------------------------------------------------
(* Theorems                                                                *)

\* Every variable keeps its type; in particular no bucket and no balance, and
\* no fee or prize, ever goes below zero.
THEOREM TypeCorrectness == Spec => []TypeOK
<1>1. FullInv => TypeOK
  BY DEF FullInv, IInv
<1> QED
  BY <1>1, Invariance, PTL

\* The contract's balance is exactly the sum of its buckets plus donations:
\* it can always pay everything it owes at once.
THEOREM Backing == Spec => []ExactBacking
<1>1. FullInv => ExactBacking
  BY DEF FullInv, IInv
<1> QED
  BY <1>1, Invariance, PTL

\* At most one round is open or being drawn, and it is the latest.
THEOREM OneRoundAtATime == Spec => []OneLiveRound
<1>1. FullInv => OneLiveRound
  BY DEF FullInv, IInv
<1> QED
  BY <1>1, Invariance, PTL

\* Requests and rounds point at each other, one to one.
THEOREM OneRequestPerRound == Spec => []RequestsBelongToOneRound
<1>1. FullInv => RequestsBelongToOneRound
  BY DEF FullInv, RInv
<1> QED
  BY <1>1, Invariance, PTL

\* Rounds stay apart: one is live, and every request has its round.
THEOREM RoundsApart == Spec => []RoundsAreSeparate
BY OneRoundAtATime, OneRequestPerRound, PTL DEF RoundsAreSeparate

\* What a step may do to a settled round, whichever transaction it is.
OutcomeKept(id) ==
  \/ draws'[id] = draws[id]
  \/ /\ draws[id].status = "WINNER_DECLARED"
     /\ draws'[id] = [draws[id] EXCEPT !.status = "COMPLETED"]

LEMMA SettledStep ==
  ASSUME FullInv, [Next]_vars, NEW id \in DrawIds, draws[id].status \in Settled
  PROVE  OutcomeKept(id)
<1>0. draws \in [DrawIds -> Draw] /\ currentDrawId \in 0..MaxDraws
  BY DEF FullInv, IInv, TypeOK
<1>1. ASSUME NEW n \in 0..MaxDraws, StartDraw(n) PROVE OutcomeKept(id)
  <2>1. currentDrawId + 1 \in DrawIds
    BY <1>0, <1>1, EnvironmentAssumption DEF StartDraw, DrawIds
  <2>2. draws[currentDrawId + 1] = BlankDraw
    BY <2>1, <1>0 DEF FullInv, IInv, OneLiveRound, DrawIds
  <2>3. id # currentDrawId + 1
    BY <2>2 DEF BlankDraw, Settled
  <2> QED
    BY <1>0, <1>1, <2>1, <2>3 DEF StartDraw, OutcomeKept
<1>2. ASSUME NEW w \in Wallets, NEW i \in DrawIds, NEW received, BuyTicket(w, i, received)
      PROVE  OutcomeKept(id)
  BY <1>0, <1>2 DEF BuyTicket, OpenForSale, OutcomeKept, Settled
<1>3. ASSUME NEW i \in DrawIds, CancelDraw(i) PROVE OutcomeKept(id)
  BY <1>0, <1>3 DEF CancelDraw, CanPerformDraw, OutcomeKept, Settled
<1>4. ASSUME NEW i \in DrawIds, NEW r \in Requests, RequestDraw(i, r) PROVE OutcomeKept(id)
  BY <1>0, <1>4 DEF RequestDraw, CanPerformDraw, OutcomeKept, Settled
<1>5. ASSUME NEW r \in Requests, NEW word \in Words, FulfillRandomness(r, word)
      PROVE  OutcomeKept(id)
  <2>1. CASE SettleDraw(r, word)
    <3>1. id # requestDraw[r]
      BY <2>1 DEF SettleDraw, AwaitsWord, Settled
    <3> QED
      BY <1>0, <2>1, <3>1 DEF SettleDraw, OutcomeKept
  <2>2. CASE IgnoreCallback(r)
    BY <2>2 DEF IgnoreCallback, vars, OutcomeKept
  <2> QED
    BY <1>5, <2>1, <2>2 DEF FulfillRandomness
<1>6. ASSUME NEW i \in DrawIds, NEW word \in Words, FinalizeDraw(i, word)
      PROVE  OutcomeKept(id)
  BY <1>5, <1>6, FinalizeIsCallback DEF FullInv
<1>7. ASSUME NEW w \in Wallets, NEW i \in DrawIds, ClaimPrize(w, i) PROVE OutcomeKept(id)
  BY <1>0, <1>7 DEF ClaimPrize, OwedPrize, OutcomeKept
<1>8. ASSUME NEW w \in Wallets, NEW i \in DrawIds, ClaimRefund(w, i) PROVE OutcomeKept(id)
  BY <1>8 DEF ClaimRefund, OutcomeKept
<1>9. ASSUME Tick \/ Donate \/ UNCHANGED vars PROVE OutcomeKept(id)
  BY <1>9 DEF Tick, Donate, vars, OutcomeKept
<1> QED
  BY <1>1, <1>2, <1>3, <1>4, <1>5, <1>6, <1>7, <1>8, <1>9 DEF Next

\* A settled outcome is final: no duplicated or late word, no later round and
\* no claim changes it, except that the winner's claim completes it.
THEOREM OutcomesAreFinal == Spec => OutcomeFinal
<1>1. FullInv /\ [Next]_vars =>
        [\A id \in DrawIds : draws[id].status \in Settled =>
           \/ draws'[id] = draws[id]
           \/ /\ draws[id].status = "WINNER_DECLARED"
              /\ draws'[id] = [draws[id] EXCEPT !.status = "COMPLETED"]]_vars
  BY SettledStep DEF OutcomeKept
<1> QED
  BY <1>1, Invariance, PTL DEF Spec, OutcomeFinal

\* A claim that a step uses up, and the amount it takes out of the contract.
PrizeUsedUp(id) ==
  /\ draws[id].status = "WINNER_DECLARED" /\ draws'[id].status = "COMPLETED"
  /\ balance[Lottery] - balance'[Lottery] = draws[id].pool

RefundUsedUp(id, w) ==
  /\ draws[id].status = "CANCELLED" /\ ticketOf[id][w] # 0
  /\ ~refunded[id][w] /\ refunded'[id][w]
  /\ balance[Lottery] - balance'[Lottery] = TicketPrice

LEMMA PrizeTakesPool ==
  ASSUME FullInv, NEW w \in Wallets, NEW id \in DrawIds, ClaimPrize(w, id)
  PROVE  PrizeUsedUp(id)
<1> DEFINE pool == draws[id].pool
           fee == draws[id].daoFee
           prize == draws[id].winnerPrize
           paid == [balance EXCEPT ![Lottery] = @ - fee - prize, ![DAO] = @ + fee]
<1>1. draws[id] \in Draw /\ draws[id].status = "WINNER_DECLARED" /\ draws \in [DrawIds -> Draw]
  BY DEF FullInv, IInv, TypeOK, ClaimPrize, OwedPrize
<1>2. pool \in Nat /\ fee \in Nat /\ prize \in Nat /\ prize + fee = pool
  BY <1>1 DEF FullInv, IInv, PrizesAddUp, Draw
<1>3. draws'[id].status = "COMPLETED"
  BY <1>1 DEF ClaimPrize, Draw
<1>4. /\ balance \in [Accounts -> Nat] /\ w \in Accounts /\ Lottery \in Accounts
      /\ DAO \in Accounts /\ w # Lottery /\ DAO # Lottery
  BY ConfigurationAssumption, EnvironmentAssumption DEF FullInv, IInv, TypeOK, Accounts
<1>5. balance' = [paid EXCEPT ![w] = @ + prize]
  BY DEF ClaimPrize, PrizePaid
<1>6. balance'[Lottery] = balance[Lottery] - fee - prize
  BY <1>4, <1>5
<1>7. balance[Lottery] - balance'[Lottery] = pool
  <2>1. balance[Lottery] \in Nat
    BY <1>4
  <2> HIDE DEF fee, prize, pool
  <2> QED
    BY <1>2, <1>6, <2>1
<1> QED
  BY <1>1, <1>3, <1>7 DEF PrizeUsedUp

LEMMA RefundTakesTicket ==
  ASSUME FullInv, NEW w \in Wallets, NEW id \in DrawIds, ClaimRefund(w, id)
  PROVE  RefundUsedUp(id, w)
<1>1. /\ balance \in [Accounts -> Nat] /\ w \in Accounts /\ Lottery \in Accounts
      /\ w # Lottery /\ refunded \in [DrawIds -> [Wallets -> BOOLEAN]]
      /\ TicketPrice \in Nat
  BY ConfigurationAssumption, EnvironmentAssumption DEF FullInv, IInv, TypeOK, Accounts
<1>2. balance'[Lottery] = balance[Lottery] - TicketPrice
  BY <1>1 DEF ClaimRefund
<1>3. refunded'[id][w]
  BY <1>1 DEF ClaimRefund
<1> QED
  BY <1>1, <1>2, <1>3 DEF ClaimRefund, OwedRefund, RefundUsedUp

LEMMA OtherStepsPayNothing ==
  ASSUME FullInv, [Next]_vars, balance'[Lottery] < balance[Lottery]
  PROVE  \E w \in Wallets, id \in DrawIds : ClaimPrize(w, id) \/ ClaimRefund(w, id)
<1>0. /\ balance \in [Accounts -> Nat] /\ Lottery \in Accounts /\ Lottery \notin Wallets
      /\ Wallets \subseteq Accounts /\ balance[Lottery] \in Nat /\ TicketPrice \in Nat
  BY ConfigurationAssumption, EnvironmentAssumption DEF FullInv, IInv, TypeOK, Accounts
<1>1. ASSUME balance' = balance PROVE FALSE
  BY <1>0, <1>1
<1>2. ASSUME NEW w \in Wallets, NEW id \in DrawIds, NEW received, BuyTicket(w, id, received)
      PROVE  FALSE
  <2>1. balance'[Lottery] = balance[Lottery] + TicketPrice
    BY <1>0, <1>2 DEF BuyTicket, PaymentExact
  <2> QED
    BY <1>0, <2>1
<1>3. ASSUME Donate PROVE FALSE
  <2>1. balance'[Lottery] = balance[Lottery] + 1
    BY <1>0, <1>3 DEF Donate
  <2> QED
    BY <1>0, <2>1
<1>4. ASSUME NEW r, NEW word, FulfillRandomness(r, word) PROVE FALSE
  BY <1>1, <1>4 DEF FulfillRandomness, SettleDraw, IgnoreCallback, vars, token
<1>5. ASSUME NEW id \in DrawIds, NEW word, FinalizeDraw(id, word) PROVE FALSE
  BY <1>4, <1>5 DEF FinalizeDraw
<1>6. ASSUME \/ \E n \in 0..MaxDraws : StartDraw(n)
             \/ \E id \in DrawIds : CancelDraw(id)
             \/ \E id \in DrawIds, r \in Requests : RequestDraw(id, r)
             \/ Tick \/ UNCHANGED vars
      PROVE  FALSE
  BY <1>1, <1>6 DEF StartDraw, CancelDraw, RequestDraw, Tick, vars, token
<1> QED
  BY <1>2, <1>3, <1>4, <1>5, <1>6 DEF Next

\* Tokens leave only for a claim that is used up by the same step: nobody is
\* paid twice for a prize or a ticket, and nothing else drains the contract.
THEOREM EachClaimPaidOnce == Spec => PaysEachClaimOnce
<1>1. FullInv /\ [Next]_vars =>
        [balance'[Lottery] < balance[Lottery] =>
           \/ \E id \in DrawIds : PrizeUsedUp(id)
           \/ \E id \in DrawIds, w \in Wallets : RefundUsedUp(id, w)]_vars
  BY OtherStepsPayNothing, PrizeTakesPool, RefundTakesTicket
<1>2. [][balance'[Lottery] < balance[Lottery] =>
           \/ \E id \in DrawIds : PrizeUsedUp(id)
           \/ \E id \in DrawIds, w \in Wallets : RefundUsedUp(id, w)]_vars
        => PaysEachClaimOnce
  BY PTL DEF PaysEachClaimOnce, PrizeUsedUp, RefundUsedUp
<1> QED
  BY <1>1, <1>2, Invariance, PTL DEF Spec

-----------------------------------------------------------------------------
(* Tickets and debts, round by round                                       *)

\* The two views of the board; the pool is PoolsAddUp of DLotteryProofs.
Board ==
  \A id \in DrawIds :
    /\ \A k \in 1..Numbers :
         owners[id][k] # NoOne <=> k <= draws[id].participantCount
    /\ \A k \in 1..Numbers, w \in Wallets :
         owners[id][k] = w <=> ticketOf[id][w] = k

TInv == FullInv /\ Board /\ WinnerTakesPool

\* The wallets that hold a ticket of the round.
Holders(id) == {w \in Wallets : ticketOf[id][w] # 0}

HoldersCounted ==
  \A id \in DrawIds :
    IsFiniteSet(Holders(id)) /\ Cardinality(Holders(id)) = draws[id].participantCount

NoWinnerYet ==
  \A id \in DrawIds :
    draws[id].status \notin {"WINNER_DECLARED", "COMPLETED"} => draws[id].winner = NoOne

BookInv == TInv /\ HoldersCounted /\ NoWinnerYet

Amounts == [DrawIds -> Nat]

PrizesOwed ==
  IsFiniteSet(OpenPrizeUnits) /\ outstandingPrizes = Cardinality(OpenPrizeUnits)

RefundsOwed ==
  IsFiniteSet(OpenRefunds) /\ outstandingRefunds = TicketPrice * Cardinality(OpenRefunds)

RolloverWaits == pendingRollover = IF currentDrawId = 0 THEN 0 ELSE LeftOver(currentDrawId)

\* A round inherits exactly what the round before it left over.
PotsInherited ==
  \A id \in DrawIds : id < currentDrawId => draws[id + 1].inheritedRollover = LeftOver(id)

RefundsOfCancelled ==
  \A id \in DrawIds, w \in Wallets :
    refunded[id][w] => draws[id].status = "CANCELLED" /\ ticketOf[id][w] # 0

OwedInv ==
  BookInv /\ PrizesOwed /\ RefundsOwed /\ RolloverWaits /\ PotsInherited /\ RefundsOfCancelled

-----------------------------------------------------------------------------
(* What a step does to the tickets of a round                              *)

BoardKept(id) ==
  /\ owners'[id] = owners[id] /\ ticketOf'[id] = ticketOf[id]
  /\ draws'[id].participantCount = draws[id].participantCount

TicketsKept(id) == BoardKept(id) /\ draws'[id].pool = draws[id].pool

TicketSold(w, id) ==
  LET number == draws[id].participantCount + 1 IN
  /\ id = currentDrawId /\ OpenForSale(id) /\ ~HasTicket(id, w)
  /\ owners'[id] = [owners[id] EXCEPT ![number] = w]
  /\ ticketOf'[id] = [ticketOf[id] EXCEPT ![w] = number]
  /\ draws'[id].participantCount = number /\ draws'[id].status = "ACTIVE"

TicketChange(id) ==
  \/ TicketsKept(id)
  \/ \E w \in Wallets : TicketSold(w, id)
  \/ id = currentDrawId + 1 /\ BoardKept(id) /\ draws'[id].status = "ACTIVE"

LEMMA TicketStep ==
  ASSUME FullInv, [Next]_vars, NEW id \in DrawIds
  PROVE  TicketChange(id)
<1>0. /\ draws \in [DrawIds -> Draw] /\ currentDrawId \in 0..MaxDraws
      /\ owners \in [DrawIds -> [1..Numbers -> Wallets \union {NoOne}]]
      /\ ticketOf \in [DrawIds -> [Wallets -> 0..MaxParticipants]]
      /\ draws[id] \in Draw
  BY DEF FullInv, IInv, TypeOK
<1>1. ASSUME NEW n \in 0..MaxDraws, StartDraw(n) PROVE TicketChange(id)
  <2>1. CASE id # currentDrawId + 1
    BY <1>0, <1>1, <2>1 DEF StartDraw, tickets, TicketChange, TicketsKept, BoardKept
  <2>2. CASE id = currentDrawId + 1
    <3>1. draws[id] = BlankDraw
      BY <1>0, <2>2 DEF FullInv, IInv, OneLiveRound, DrawIds
    <3>2. draws'[id] = [draws[id] EXCEPT !.deadline = now + Duration,
                          !.inheritedRollover = pendingRollover, !.pool = pendingRollover]
      BY <1>0, <1>1, <2>2 DEF StartDraw
    <3>3. /\ draws'[id].participantCount = draws[id].participantCount
          /\ draws'[id].status = "ACTIVE"
      BY <3>1, <3>2 DEF BlankDraw
    <3>4. owners' = owners /\ ticketOf' = ticketOf
      BY <1>1 DEF StartDraw, tickets
    <3> QED BY <2>2, <3>3, <3>4 DEF TicketChange, BoardKept
  <2> QED BY <2>1, <2>2
<1>2. ASSUME NEW w \in Wallets, NEW i \in DrawIds, NEW received, BuyTicket(w, i, received)
      PROVE  TicketChange(id)
  <2> DEFINE number == draws[id].participantCount + 1
  <2>1. CASE id # i
    BY <1>0, <1>2, <2>1 DEF BuyTicket, TicketChange, TicketsKept, BoardKept
  <2>2. CASE id = i
    <3>1. id = currentDrawId /\ OpenForSale(id) /\ ~HasTicket(id, w)
      BY <1>2, <2>2 DEF BuyTicket
    <3>2. owners'[id] = [owners[id] EXCEPT ![number] = w]
      BY <1>0, <1>2, <2>2 DEF BuyTicket
    <3>3. ticketOf'[id] = [ticketOf[id] EXCEPT ![w] = number]
      BY <1>0, <1>2, <2>2 DEF BuyTicket
    <3>4. draws'[id] = [draws[id] EXCEPT !.participantCount = number, !.pool = @ + TicketPrice]
      BY <1>0, <1>2, <2>2 DEF BuyTicket
    <3>5. draws'[id].participantCount = number /\ draws'[id].status = "ACTIVE"
      BY <1>0, <3>1, <3>4 DEF Draw, OpenForSale
    <3> QED BY <3>1, <3>2, <3>3, <3>5 DEF TicketChange, TicketSold
  <2> QED BY <2>1, <2>2
<1>3. ASSUME NEW i \in DrawIds, CancelDraw(i) PROVE TicketChange(id)
  BY <1>0, <1>3 DEF CancelDraw, tickets, TicketChange, TicketsKept, BoardKept, Draw
<1>4. ASSUME NEW i \in DrawIds, NEW r \in Requests, RequestDraw(i, r) PROVE TicketChange(id)
  BY <1>0, <1>4 DEF RequestDraw, tickets, TicketChange, TicketsKept, BoardKept, Draw
<1>5. ASSUME NEW r \in Requests, NEW word \in Words, FulfillRandomness(r, word)
      PROVE  TicketChange(id)
  <2>1. CASE SettleDraw(r, word)
    <3>1. owners' = owners /\ ticketOf' = ticketOf
      BY <2>1 DEF SettleDraw, tickets
    <3>2. /\ draws'[id].participantCount = draws[id].participantCount
          /\ draws'[id].pool = draws[id].pool
      <4>1. CASE id # requestDraw[r]
        BY <1>0, <2>1, <4>1 DEF SettleDraw
      <4>2. CASE id = requestDraw[r] /\ TicketOwner(id, LuckyNumber(word)) = NoOne
        <5>1. draws'[id] = [draws[id] EXCEPT !.status = "NO_WINNER",
                              !.luckyNumber = LuckyNumber(word), !.winner = NoOne]
          BY <1>0, <2>1, <4>2 DEF SettleDraw
        <5> QED BY <1>0, <5>1 DEF Draw
      <4>3. CASE id = requestDraw[r] /\ TicketOwner(id, LuckyNumber(word)) # NoOne
        <5> DEFINE fee == DaoFee(draws[id].pool)
        <5>1. draws'[id] = [draws[id] EXCEPT !.status = "WINNER_DECLARED",
                              !.luckyNumber = LuckyNumber(word),
                              !.winner = TicketOwner(id, LuckyNumber(word)),
                              !.daoFee = fee, !.winnerPrize = draws[id].pool - fee]
          BY <1>0, <2>1, <4>3 DEF SettleDraw
        <5> HIDE DEF fee
        <5> QED BY <1>0, <5>1 DEF Draw
      <4> QED BY <4>1, <4>2, <4>3
    <3> QED BY <3>1, <3>2 DEF TicketChange, TicketsKept, BoardKept
  <2>2. CASE IgnoreCallback(r)
    BY <2>2 DEF IgnoreCallback, vars, tickets, TicketChange, TicketsKept, BoardKept
  <2> QED BY <1>5, <2>1, <2>2 DEF FulfillRandomness
<1>6. ASSUME NEW i \in DrawIds, NEW word \in Words, FinalizeDraw(i, word)
      PROVE  TicketChange(id)
  BY <1>5, <1>6, FinalizeIsCallback DEF FullInv
<1>7. ASSUME NEW w \in Wallets, NEW i \in DrawIds, ClaimPrize(w, i) PROVE TicketChange(id)
  BY <1>0, <1>7 DEF ClaimPrize, tickets, TicketChange, TicketsKept, BoardKept, Draw
<1>8. ASSUME NEW w \in Wallets, NEW i \in DrawIds, ClaimRefund(w, i) PROVE TicketChange(id)
  BY <1>8 DEF ClaimRefund, TicketChange, TicketsKept, BoardKept
<1>9. ASSUME Tick \/ Donate \/ UNCHANGED vars PROVE TicketChange(id)
  BY <1>9 DEF Tick, Donate, vars, tickets, TicketChange, TicketsKept, BoardKept
<1> QED
  BY <1>1, <1>2, <1>3, <1>4, <1>5, <1>6, <1>7, <1>8, <1>9 DEF Next

-----------------------------------------------------------------------------
(* The board                                                               *)

\* A sale fills the first free number and gives the buyer its only ticket.
LEMMA SaleKeepsBoard ==
  ASSUME FullInv, Board, NEW id \in DrawIds, NEW w \in Wallets, TicketSold(w, id)
  PROVE  /\ \A k \in 1..Numbers :
              owners'[id][k] # NoOne <=> k <= draws'[id].participantCount
         /\ \A k \in 1..Numbers, v \in Wallets :
              owners'[id][k] = v <=> ticketOf'[id][v] = k
<1> DEFINE number == draws[id].participantCount + 1
<1> USE ConfigurationAssumption, EnvironmentAssumption
<1>1. /\ owners[id] \in [1..Numbers -> Wallets \union {NoOne}]
      /\ ticketOf[id] \in [Wallets -> 0..MaxParticipants]
      /\ draws[id].participantCount \in Nat
      /\ draws[id].participantCount < MaxParticipants
  BY DEF FullInv, IInv, TypeOK, Draw, TicketSold, OpenForSale
<1>2. number \in 1..Numbers /\ number \in Nat
  BY <1>1
<1>3. /\ owners'[id] = [owners[id] EXCEPT ![number] = w]
      /\ ticketOf'[id] = [ticketOf[id] EXCEPT ![w] = number]
      /\ draws'[id].participantCount = number /\ ticketOf[id][w] = 0
  BY DEF TicketSold, HasTicket
<1>4. owners[id][number] = NoOne
  BY <1>1, <1>2 DEF Board
<1>5. \A k \in 1..Numbers : k # number => (k <= number <=> k <= draws[id].participantCount)
  BY <1>1
<1> HIDE DEF number
<1>6. ASSUME NEW k \in 1..Numbers PROVE owners'[id][k] # NoOne <=> k <= number
  <2>1. CASE k = number
    BY <1>1, <1>2, <1>3, <2>1
  <2>2. CASE k # number
    BY <1>1, <1>2, <1>3, <1>5, <2>2 DEF Board
  <2> QED BY <2>1, <2>2
<1>7. ASSUME NEW k \in 1..Numbers, NEW v \in Wallets
      PROVE  owners'[id][k] = v <=> ticketOf'[id][v] = k
  <2>1. owners[id][k] = v <=> ticketOf[id][v] = k
    BY DEF Board
  <2>2. owners[id][k] # w
    BY <1>3 DEF Board
  <2>3. ticketOf[id][v] # number
    BY <1>2, <1>4 DEF Board
  <2>4. owners'[id][k] = IF k = number THEN w ELSE owners[id][k]
    BY <1>1, <1>2, <1>3
  <2>5. ticketOf'[id][v] = IF v = w THEN number ELSE ticketOf[id][v]
    BY <1>1, <1>3
  <2> QED BY <2>1, <2>2, <2>3, <2>4, <2>5
<1> QED BY <1>3, <1>6, <1>7

LEMMA BoardStep ==
  ASSUME FullInv, Board, [Next]_vars
  PROVE  Board'
<1>1. ASSUME NEW id \in DrawIds
      PROVE  /\ \A k \in 1..Numbers :
                  owners'[id][k] # NoOne <=> k <= draws'[id].participantCount
             /\ \A k \in 1..Numbers, w \in Wallets :
                  owners'[id][k] = w <=> ticketOf'[id][w] = k
  <2>1. CASE BoardKept(id)
    BY <2>1 DEF Board, BoardKept
  <2>2. CASE \E w \in Wallets : TicketSold(w, id)
    BY <2>2, SaleKeepsBoard
  <2> QED BY <2>1, <2>2, TicketStep DEF TicketChange, TicketsKept
<1> QED BY <1>1 DEF Board

-----------------------------------------------------------------------------
(* The winner                                                              *)

\* What WinnerTakesPool says of one round with the record d and the tickets t.
Fair(d, t) ==
  /\ d.status \in {"WINNER_DECLARED", "COMPLETED"} =>
       /\ d.winner \in Wallets
       /\ t[d.winner] = d.luckyNumber
       /\ d.winnerPrize + d.daoFee = d.pool
       /\ d.daoFee * 20 <= d.pool - TicketPrice
  /\ d.status = "NO_WINNER" => d.luckyNumber > d.participantCount

\* The fee is at most a twentieth of what it is taken from.
LEMMA FeeIsSmall ==
  ASSUME NEW pool \in Nat, pool >= TicketPrice
  PROVE  DaoFee(pool) * 20 <= pool - TicketPrice
<1> DEFINE rest == pool - TicketPrice
<1>1. rest \in Nat
  BY ConfigurationAssumption
<1>2. DaoFee(pool) = (rest * 500) \div 10000
  BY DEF DaoFee
<1> HIDE DEF rest
<1>3. ((rest * 500) \div 10000) * 20 <= rest
  BY <1>1
<1>4. DaoFee(pool) * 20 <= rest
  BY <1>2, <1>3
<1> QED BY <1>4 DEF rest

\* A word that settles a round settles it fairly.
LEMMA SettledFairly ==
  ASSUME FullInv, Board, NEW r \in Requests, NEW word \in Words, SettleDraw(r, word)
  PROVE  Fair(draws'[requestDraw[r]], ticketOf'[requestDraw[r]])
<1> DEFINE id     == requestDraw[r]
           lucky  == LuckyNumber(word)
           winner == TicketOwner(id, lucky)
           pool   == draws[id].pool
           fee    == DaoFee(pool)
<1> USE ConfigurationAssumption, EnvironmentAssumption
<1>1. id \in DrawIds /\ draws[id].status = "DRAWING"
  BY DEF FullInv, IInv, TypeOK, SettleDraw, AwaitsWord, DrawIds
<1>2. draws[id] \in Draw /\ draws \in [DrawIds -> Draw] /\ ticketOf' = ticketOf
  BY <1>1 DEF FullInv, IInv, TypeOK, SettleDraw, tickets
<1>3. lucky \in 1..Numbers
  BY LuckyInRange
<1>4. winner = owners[id][lucky] /\ winner \in Wallets \union {NoOne}
  BY <1>1, <1>3 DEF FullInv, IInv, TypeOK, TicketOwner
<1>5. pool \in Nat /\ pool >= TicketPrice
  BY <1>1, <1>2 DEF FullInv, IInv, DrawnRoundsSold, Draw
<1>6. CASE winner = NoOne
  <2>1. draws'[id] = [draws[id] EXCEPT !.status = "NO_WINNER", !.luckyNumber = lucky,
                                       !.winner = NoOne]
    BY <1>1, <1>2, <1>6 DEF SettleDraw
  <2>2. lucky > draws[id].participantCount
    <3>1. ~(lucky <= draws[id].participantCount)
      BY <1>1, <1>3, <1>4, <1>6 DEF Board
    <3>2. lucky \in Nat /\ draws[id].participantCount \in Nat
      BY <1>2, <1>3 DEF Draw
    <3> HIDE DEF lucky
    <3> QED BY <3>1, <3>2
  <2>3. /\ draws'[id].status = "NO_WINNER" /\ draws'[id].luckyNumber = lucky
        /\ draws'[id].participantCount = draws[id].participantCount
    <3> HIDE DEF lucky, id
    <3> QED BY <2>1, <1>2 DEF Draw
  <2> HIDE DEF lucky, id
  <2>4. Fair(draws'[id], ticketOf'[id])
    BY <2>2, <2>3 DEF Fair
  <2> QED BY <2>4 DEF id
<1>7. CASE winner # NoOne
  <2> DEFINE prize == pool - fee
  <2>1. draws'[id] = [draws[id] EXCEPT !.status = "WINNER_DECLARED", !.luckyNumber = lucky,
                        !.winner = winner, !.daoFee = fee, !.winnerPrize = prize]
    BY <1>1, <1>2, <1>7 DEF SettleDraw
  <2>2. winner \in Wallets /\ ticketOf[id][winner] = lucky
    BY <1>1, <1>3, <1>4, <1>7 DEF Board
  <2>3. fee \in Nat /\ prize + fee = pool /\ fee * 20 <= pool - TicketPrice
    <3>1. fee \in Nat /\ fee * 20 <= pool - TicketPrice
      BY <1>5, FeeBounds, FeeIsSmall
    <3> HIDE DEF fee, pool
    <3> QED BY <1>5, <3>1
  <2>4. /\ draws'[id].status = "WINNER_DECLARED" /\ draws'[id].luckyNumber = lucky
        /\ draws'[id].winner = winner /\ draws'[id].daoFee = fee
        /\ draws'[id].winnerPrize = prize /\ draws'[id].pool = pool
    <3>1. pool = draws[id].pool
      OBVIOUS
    <3> HIDE DEF lucky, id, winner, fee, prize, pool
    <3> QED BY <2>1, <1>2, <3>1 DEF Draw
  <2> HIDE DEF lucky, id, winner, fee, prize, pool
  <2>5. Fair(draws'[id], ticketOf'[id])
    BY <1>2, <2>2, <2>3, <2>4 DEF Fair
  <2> QED BY <2>5 DEF id
<1> QED BY <1>6, <1>7

\* A round that is settled by a step, and not cancelled, is settled by a word.
LEMMA SettledByWord ==
  ASSUME FullInv, [Next]_vars, NEW id \in DrawIds, draws[id].status \notin Settled,
         draws'[id].status \in {"WINNER_DECLARED", "COMPLETED", "NO_WINNER"}
  PROVE  \E r \in Requests, word \in Words : SettleDraw(r, word) /\ requestDraw[r] = id
<1> DEFINE Goal == \E r \in Requests, word \in Words : SettleDraw(r, word) /\ requestDraw[r] = id
<1>0. /\ draws \in [DrawIds -> Draw] /\ draws[id] \in Draw
      /\ draws[id].status \in Live
  BY DEF FullInv, IInv, TypeOK, Draw
<1>1. ASSUME NEW n \in 0..MaxDraws, StartDraw(n) PROVE Goal
  <2>1. draws'[id].status = draws[id].status
    BY <1>0, <1>1 DEF StartDraw, Draw
  <2> QED BY <1>0, <2>1 DEF Live
<1>2. ASSUME NEW w \in Wallets, NEW i \in DrawIds, NEW received, BuyTicket(w, i, received)
      PROVE  Goal
  <2>1. draws'[id].status = draws[id].status
    BY <1>0, <1>2 DEF BuyTicket, Draw
  <2> QED BY <1>0, <2>1 DEF Live
<1>3. ASSUME NEW i \in DrawIds, CancelDraw(i) PROVE Goal
  <2>1. draws'[id].status \in {draws[id].status, "CANCELLED"}
    BY <1>0, <1>3 DEF CancelDraw, Draw
  <2> QED BY <1>0, <2>1 DEF Live
<1>4. ASSUME NEW i \in DrawIds, NEW r \in Requests, RequestDraw(i, r) PROVE Goal
  <2>1. draws'[id].status \in {draws[id].status, "DRAWING"}
    BY <1>0, <1>4 DEF RequestDraw, Draw
  <2> QED BY <1>0, <2>1 DEF Live
<1>5. ASSUME NEW r \in Requests, NEW word \in Words, FulfillRandomness(r, word) PROVE Goal
  <2>1. CASE SettleDraw(r, word)
    <3>1. CASE requestDraw[r] = id
      BY <2>1, <3>1
    <3>2. CASE requestDraw[r] # id
      <4>1. draws'[id] = draws[id]
        BY <1>0, <2>1, <3>2 DEF SettleDraw
      <4> QED BY <1>0, <4>1 DEF Live
    <3> QED BY <3>1, <3>2
  <2>2. CASE IgnoreCallback(r)
    BY <1>0, <2>2 DEF IgnoreCallback, vars, Live
  <2> QED BY <1>5, <2>1, <2>2 DEF FulfillRandomness
<1>6. ASSUME NEW i \in DrawIds, NEW word \in Words, FinalizeDraw(i, word) PROVE Goal
  BY <1>5, <1>6, FinalizeIsCallback DEF FullInv
<1>7. ASSUME NEW w \in Wallets, NEW i \in DrawIds, ClaimPrize(w, i) PROVE Goal
  <2>1. id # i
    BY <1>7 DEF ClaimPrize, OwedPrize, Settled
  <2>2. draws'[id] = draws[id]
    BY <1>0, <1>7, <2>1 DEF ClaimPrize
  <2> QED BY <1>0, <2>2 DEF Live
<1>8. ASSUME NEW w \in Wallets, NEW i \in DrawIds, ClaimRefund(w, i) PROVE Goal
  BY <1>0, <1>8 DEF ClaimRefund, Live
<1>9. ASSUME Tick \/ Donate \/ UNCHANGED vars PROVE Goal
  BY <1>0, <1>9 DEF Tick, Donate, vars, Live
<1> QED
  BY <1>1, <1>2, <1>3, <1>4, <1>5, <1>6, <1>7, <1>8, <1>9 DEF Next

LEMMA WinnerStep ==
  ASSUME TInv, [Next]_vars
  PROVE  WinnerTakesPool'
<1>1. ASSUME NEW id \in DrawIds PROVE Fair(draws'[id], ticketOf'[id])
  <2>1. CASE draws[id].status \in Settled
    <3>1. Fair(draws[id], ticketOf[id])
      BY DEF TInv, WinnerTakesPool, Fair
    <3>2. ticketOf'[id] = ticketOf[id]
      <4>1. ~OpenForSale(id)
        BY <2>1 DEF OpenForSale, Settled
      <4> QED BY <4>1, TicketStep DEF TInv, TicketChange, TicketsKept, BoardKept, TicketSold
    <3>3. OutcomeKept(id) /\ draws[id] \in Draw
      BY <2>1, SettledStep DEF TInv, FullInv, IInv, TypeOK
    <3>4. CASE draws'[id] = draws[id]
      BY <3>1, <3>2, <3>4
    <3>5. CASE /\ draws[id].status = "WINNER_DECLARED"
               /\ draws'[id] = [draws[id] EXCEPT !.status = "COMPLETED"]
      BY <3>1, <3>2, <3>3, <3>5 DEF Fair, Draw
    <3> QED BY <3>3, <3>4, <3>5 DEF OutcomeKept
  <2>2. CASE draws[id].status \notin Settled
    <3>1. CASE draws'[id].status \in {"WINNER_DECLARED", "COMPLETED", "NO_WINNER"}
      <4>1. PICK r \in Requests, word \in Words : SettleDraw(r, word) /\ requestDraw[r] = id
        BY <2>2, <3>1, SettledByWord DEF TInv
      <4> QED BY <4>1, SettledFairly DEF TInv
    <3>2. CASE draws'[id].status \notin {"WINNER_DECLARED", "COMPLETED", "NO_WINNER"}
      BY <3>2 DEF Fair
    <3> QED BY <3>1, <3>2
  <2> QED BY <2>1, <2>2
<1> QED BY <1>1 DEF WinnerTakesPool, Fair

LEMMA TicketsInvariance == Spec => []TInv
<1>1. Init => TInv
  <2> SUFFICES ASSUME Init PROVE TInv
    OBVIOUS
  <2>1. Board
    BY ConfigurationAssumption, EnvironmentAssumption DEF Init, Board, BlankDraw
  <2>2. WinnerTakesPool
    BY DEF Init, WinnerTakesPool, BlankDraw
  <2> QED BY <2>1, <2>2, InitFullInv DEF TInv
<1>2. TInv /\ [Next]_vars => TInv'
  BY NextFullInv, BoardStep, WinnerStep DEF TInv
<1> QED BY <1>1, <1>2, PTL DEF Spec

-----------------------------------------------------------------------------
(* Theorems                                                                *)

\* Ticket numbers are handed out without a gap, one to a wallet, and both views
\* of the board agree, for any number of wallets and rounds (DLottery.sol:120).
THEOREM BoardIsConsistent == Spec => []TicketBoardConsistent
<1>1. TInv => TicketBoardConsistent
  BY DEF TInv, Board, FullInv, IInv, PoolsAddUp, TicketBoardConsistent
<1> QED BY <1>1, TicketsInvariance, PTL

\* The declared winner holds the lucky ticket and takes the pool less a fee of
\* at most 5 %, for any word (DLottery.sol:163).
THEOREM LuckyTicketWins == Spec => []WinnerTakesPool
<1>1. TInv => WinnerTakesPool
  BY DEF TInv
<1> QED BY <1>1, TicketsInvariance, PTL

\* Once anyone may perform the draw, no transaction touches the tickets or the
\* pool of the round (DLottery.sol:97).
THEOREM TicketsAreFixed == Spec => TicketsFixedOnceDrawable
<1>1. ASSUME FullInv, [Next]_vars, NEW id \in DrawIds,
             CanPerformDraw(id) \/ (id <= currentDrawId /\ draws[id].status # "ACTIVE")
      PROVE  TicketsKept(id)
  <2>1. currentDrawId \in 0..MaxDraws /\ draws[id] \in Draw /\ now \in Nat
    BY <1>1 DEF FullInv, IInv, TypeOK
  <2>2. id # currentDrawId + 1
    BY <1>1, <2>1, EnvironmentAssumption DEF CanPerformDraw, DrawIds
  <2>3. ~OpenForSale(id)
    BY <1>1, <2>1, ConfigurationAssumption DEF CanPerformDraw, OpenForSale, Draw
  <2> QED BY <1>1, <2>2, <2>3, TicketStep DEF TicketChange, TicketSold
<1>2. FullInv /\ [Next]_vars =>
        [\A id \in DrawIds :
           CanPerformDraw(id) \/ (id <= currentDrawId /\ draws[id].status # "ACTIVE") =>
             /\ owners'[id] = owners[id] /\ ticketOf'[id] = ticketOf[id]
             /\ draws'[id].pool = draws[id].pool
             /\ draws'[id].participantCount = draws[id].participantCount]_vars
  BY <1>1 DEF TicketsKept, BoardKept
<1> QED BY <1>2, Invariance, PTL DEF Spec, TicketsFixedOnceDrawable

-----------------------------------------------------------------------------
(* The holders of a round, and winners                                     *)

LEMMA CountStep ==
  ASSUME FullInv, HoldersCounted, [Next]_vars
  PROVE  HoldersCounted'
<1>1. ASSUME NEW id \in DrawIds
      PROVE  /\ IsFiniteSet(Holders(id)')
             /\ Cardinality(Holders(id)') = draws'[id].participantCount
  <2>1. CASE BoardKept(id)
    <3>1. Holders(id)' = Holders(id)
      BY <2>1 DEF BoardKept, Holders
    <3> QED BY <2>1, <3>1 DEF BoardKept, HoldersCounted
  <2>2. CASE \E w \in Wallets : TicketSold(w, id)
    <3>1. PICK w \in Wallets : TicketSold(w, id)
      BY <2>2
    <3>2. /\ ticketOf[id] \in [Wallets -> 0..MaxParticipants]
          /\ draws[id].participantCount \in Nat
      BY DEF FullInv, IInv, TypeOK, Draw
    <3>3. Holders(id)' = Holders(id) \union {w}
      BY <3>1, <3>2 DEF Holders, TicketSold
    <3>4. w \notin Holders(id)
      BY <3>1 DEF Holders, TicketSold, HasTicket
    <3>5. draws'[id].participantCount = draws[id].participantCount + 1
      BY <3>1 DEF TicketSold
    <3>6. IsFiniteSet(Holders(id)) /\ Cardinality(Holders(id)) = draws[id].participantCount
      BY DEF HoldersCounted
    <3> QED BY <3>3, <3>4, <3>5, <3>6, FS_AddElement
  <2> QED BY <2>1, <2>2, TicketStep DEF TicketChange, TicketsKept
<1> QED BY <1>1 DEF HoldersCounted

LEMMA WinnerKept ==
  ASSUME NoWinnerYet, NEW id \in DrawIds,
         draws'[id].winner = draws[id].winner,
         \/ draws'[id].status = draws[id].status
         \/ draws[id].status \notin {"WINNER_DECLARED", "COMPLETED"}
  PROVE  draws'[id].status \notin {"WINNER_DECLARED", "COMPLETED"} => draws'[id].winner = NoOne
BY DEF NoWinnerYet

LEMMA NoWinnerStep ==
  ASSUME FullInv, NoWinnerYet, [Next]_vars
  PROVE  NoWinnerYet'
<1> SUFFICES ASSUME NEW id \in DrawIds,
                    draws'[id].status \notin {"WINNER_DECLARED", "COMPLETED"}
             PROVE  draws'[id].winner = NoOne
  BY DEF NoWinnerYet
<1>0. draws \in [DrawIds -> Draw]
  BY DEF FullInv, IInv, TypeOK
<1>1. ASSUME NEW n \in 0..MaxDraws, StartDraw(n) PROVE draws'[id].winner = NoOne
  BY <1>0, <1>1, WinnerKept DEF StartDraw, Draw
<1>2. ASSUME NEW w \in Wallets, NEW i \in DrawIds, NEW received, BuyTicket(w, i, received)
      PROVE  draws'[id].winner = NoOne
  BY <1>0, <1>2, WinnerKept DEF BuyTicket, Draw
<1>3. ASSUME NEW i \in DrawIds, CancelDraw(i) PROVE draws'[id].winner = NoOne
  BY <1>0, <1>3, WinnerKept DEF CancelDraw, CanPerformDraw, Draw
<1>4. ASSUME NEW i \in DrawIds, NEW r \in Requests, RequestDraw(i, r)
      PROVE  draws'[id].winner = NoOne
  BY <1>0, <1>4, WinnerKept DEF RequestDraw, CanPerformDraw, Draw
<1>5. ASSUME NEW r \in Requests, NEW word \in Words, FulfillRandomness(r, word)
      PROVE  draws'[id].winner = NoOne
  <2>1. CASE SettleDraw(r, word) /\ id = requestDraw[r]
    <3>1. CASE TicketOwner(id, LuckyNumber(word)) = NoOne
      <4>1. draws'[id] = [draws[id] EXCEPT !.status = "NO_WINNER",
                            !.luckyNumber = LuckyNumber(word), !.winner = NoOne]
        BY <1>0, <2>1, <3>1 DEF SettleDraw
      <4> QED BY <1>0, <4>1 DEF Draw
    <3>2. CASE TicketOwner(id, LuckyNumber(word)) # NoOne
      <4> DEFINE fee == DaoFee(draws[id].pool)
      <4>1. draws'[id] = [draws[id] EXCEPT !.status = "WINNER_DECLARED",
                            !.luckyNumber = LuckyNumber(word),
                            !.winner = TicketOwner(id, LuckyNumber(word)),
                            !.daoFee = fee, !.winnerPrize = draws[id].pool - fee]
        BY <1>0, <2>1, <3>2 DEF SettleDraw
      <4> HIDE DEF fee
      <4> QED BY <1>0, <4>1 DEF Draw
    <3> QED BY <3>1, <3>2
  <2>2. CASE SettleDraw(r, word) /\ id # requestDraw[r]
    <3>1. draws'[id] = draws[id]
      BY <1>0, <2>2 DEF SettleDraw
    <3> QED BY <3>1 DEF NoWinnerYet
  <2>3. CASE IgnoreCallback(r)
    BY <2>3 DEF IgnoreCallback, vars, NoWinnerYet
  <2> QED BY <1>5, <2>1, <2>2, <2>3 DEF FulfillRandomness
<1>6. ASSUME NEW i \in DrawIds, NEW word \in Words, FinalizeDraw(i, word)
      PROVE  draws'[id].winner = NoOne
  BY <1>5, <1>6, FinalizeIsCallback DEF FullInv
<1>7. ASSUME NEW w \in Wallets, NEW i \in DrawIds, ClaimPrize(w, i)
      PROVE  draws'[id].winner = NoOne
  <2>1. id # i
    BY <1>0, <1>7 DEF ClaimPrize, Draw
  <2>2. draws'[id] = draws[id]
    BY <1>0, <1>7, <2>1 DEF ClaimPrize
  <2> QED BY <2>2 DEF NoWinnerYet
<1>8. ASSUME NEW w \in Wallets, NEW i \in DrawIds, ClaimRefund(w, i)
      PROVE  draws'[id].winner = NoOne
  BY <1>8 DEF ClaimRefund, NoWinnerYet
<1>9. ASSUME Tick \/ Donate \/ UNCHANGED vars PROVE draws'[id].winner = NoOne
  BY <1>9 DEF Tick, Donate, vars, NoWinnerYet
<1> QED
  BY <1>1, <1>2, <1>3, <1>4, <1>5, <1>6, <1>7, <1>8, <1>9 DEF Next

LEMMA BookInvariance == Spec => []BookInv
<1>1. Init => HoldersCounted
  <2> SUFFICES ASSUME Init, NEW id \in DrawIds
               PROVE  IsFiniteSet(Holders(id)) /\ Cardinality(Holders(id)) = draws[id].participantCount
    BY DEF HoldersCounted
  <2>1. Holders(id) = {} /\ draws[id].participantCount = 0
    BY DEF Init, Holders, BlankDraw
  <2> QED BY <2>1, FS_EmptySet
<1>2. Init => NoWinnerYet
  BY DEF Init, NoWinnerYet, BlankDraw
<1>3. TInv /\ HoldersCounted /\ NoWinnerYet /\ [Next]_vars => HoldersCounted' /\ NoWinnerYet'
  BY CountStep, NoWinnerStep DEF TInv
<1> QED BY <1>1, <1>2, <1>3, TicketsInvariance, PTL DEF Spec, BookInv

-----------------------------------------------------------------------------
(* Sums                                                                    *)

LEMMA NoUnits ==
  ASSUME NEW f
  PROVE  Units({}, f) = {} /\ IsFiniteSet(Units({}, f)) /\ Cardinality(Units({}, f)) = 0
BY FS_EmptySet DEF Units

LEMMA UnitsOfRound ==
  ASSUME NEW id, NEW n \in Nat
  PROVE  IsFiniteSet({id} \X (1..n)) /\ Cardinality({id} \X (1..n)) = n
<1>1. IsFiniteSet({id}) /\ Cardinality({id}) = 1
  BY FS_Singleton
<1>2. IsFiniteSet(1..n) /\ Cardinality(1..n) = n
  BY FS_Interval
<1>3. Cardinality({id} \X (1..n)) = Cardinality({id}) * Cardinality(1..n)
  BY <1>1, <1>2, FS_Product
<1>4. IsFiniteSet({id} \X (1..n))
  BY <1>1, <1>2, FS_Product
<1> QED BY <1>1, <1>2, <1>3, <1>4

\* The same rounds with the same amounts.
LEMMA SameUnits ==
  ASSUME NEW S, NEW f, NEW g, \A i \in S : g[i] = f[i]
  PROVE  Units(S, g) = Units(S, f)
BY DEF Units

LEMMA DisjointUnion ==
  ASSUME NEW A, NEW B, IsFiniteSet(A), IsFiniteSet(B), A \cap B = {}
  PROVE  IsFiniteSet(A \union B) /\ Cardinality(A \union B) = Cardinality(A) + Cardinality(B)
<1>1. Cardinality(A) \in Nat /\ Cardinality(B) \in Nat
  BY FS_CardinalityType
<1>2. IsFiniteSet(A \union B)
  BY FS_Union
<1>3. Cardinality(A \union B) = Cardinality(A) + Cardinality(B) - Cardinality(A \cap B)
  BY FS_Union
<1>4. Cardinality(A \cap B) = 0
  BY FS_EmptySet
<1> QED BY <1>1, <1>2, <1>3, <1>4

\* One round more, or one less, changes the sum by its amount.
LEMMA OneRoundMore ==
  ASSUME NEW S, NEW T, NEW f, NEW g, NEW id, id \notin S, T = S \union {id},
         \A i \in S : g[i] = f[i], g[id] \in Nat,
         IsFiniteSet(Units(S, f)) \/ IsFiniteSet(Units(T, g))
  PROVE  /\ IsFiniteSet(Units(S, f)) /\ IsFiniteSet(Units(T, g))
         /\ Cardinality(Units(S, f)) \in Nat
         /\ Cardinality(Units(T, g)) = Cardinality(Units(S, f)) + g[id]
<1> DEFINE new == {id} \X (1..g[id])
           A == Units(S, f)
           B == Units(T, g)
<1>1. B = A \union new
  BY DEF Units
<1>2. A \cap new = {}
  BY DEF Units
<1>3. IsFiniteSet(new) /\ Cardinality(new) = g[id]
  BY UnitsOfRound
<1>4. IsFiniteSet(A) \/ IsFiniteSet(B)
  OBVIOUS
<1> HIDE DEF new, A, B
<1>5. IsFiniteSet(A)
  BY <1>1, <1>4, FS_Subset
<1>6. IsFiniteSet(B) /\ Cardinality(B) = Cardinality(A) + Cardinality(new)
  BY <1>1, <1>2, <1>3, <1>5, DisjointUnion
<1>7. Cardinality(A) \in Nat
  BY <1>5, FS_CardinalityType
<1> QED BY <1>3, <1>5, <1>6, <1>7 DEF A, B

-----------------------------------------------------------------------------
(* What a step does to the status of a round                               *)

StatusChange(id) ==
  \/ /\ draws'[id].status = draws[id].status
     /\ draws[id].status \in Settled => draws'[id] = draws[id]
  \/ CancelDraw(id) /\ draws'[id].status = "CANCELLED"
  \/ draws[id].status = "ACTIVE" /\ draws'[id].status = "DRAWING"
  \/ \E r \in Requests, word \in Words : SettleDraw(r, word) /\ requestDraw[r] = id
  \/ \E w \in Wallets : ClaimPrize(w, id)

LEMMA StatusStep ==
  ASSUME FullInv, [Next]_vars, NEW id \in DrawIds
  PROVE  StatusChange(id)
<1>0. /\ draws \in [DrawIds -> Draw] /\ currentDrawId \in 0..MaxDraws
      /\ draws[id].status \in Live \union Settled
  BY DEF FullInv, IInv, TypeOK, Draw
<1> USE DEF StatusChange
<1>1. ASSUME NEW n \in 0..MaxDraws, StartDraw(n) PROVE StatusChange(id)
  <2>1. CASE id # currentDrawId + 1
    BY <1>0, <1>1, <2>1 DEF StartDraw
  <2>2. CASE id = currentDrawId + 1
    <3>1. draws[id].status = "ACTIVE"
      BY <1>0, <2>2 DEF FullInv, IInv, OneLiveRound, BlankDraw, DrawIds
    <3>2. draws'[id].status = draws[id].status
      BY <1>0, <1>1 DEF StartDraw, Draw
    <3> QED BY <3>1, <3>2 DEF Settled
  <2> QED BY <2>1, <2>2
<1>2. ASSUME NEW w \in Wallets, NEW i \in DrawIds, NEW received, BuyTicket(w, i, received)
      PROVE  StatusChange(id)
  <2>1. CASE id # i
    BY <1>0, <1>2, <2>1 DEF BuyTicket
  <2>2. CASE id = i
    <3>1. draws[id].status = "ACTIVE"
      BY <1>2, <2>2 DEF BuyTicket, OpenForSale
    <3>2. draws'[id].status = draws[id].status
      BY <1>0, <1>2 DEF BuyTicket, Draw
    <3> QED BY <3>1, <3>2 DEF Settled
  <2> QED BY <2>1, <2>2
<1>3. ASSUME NEW i \in DrawIds, CancelDraw(i) PROVE StatusChange(id)
  BY <1>0, <1>3 DEF CancelDraw, Draw
<1>4. ASSUME NEW i \in DrawIds, NEW r \in Requests, RequestDraw(i, r) PROVE StatusChange(id)
  BY <1>0, <1>4 DEF RequestDraw, CanPerformDraw, Draw
<1>5. ASSUME NEW r \in Requests, NEW word \in Words, FulfillRandomness(r, word)
      PROVE  StatusChange(id)
  <2>1. CASE SettleDraw(r, word) /\ requestDraw[r] = id
    BY <2>1
  <2>2. CASE SettleDraw(r, word) /\ requestDraw[r] # id
    BY <1>0, <2>2 DEF SettleDraw
  <2>3. CASE IgnoreCallback(r)
    BY <2>3 DEF IgnoreCallback, vars
  <2> QED BY <1>5, <2>1, <2>2, <2>3 DEF FulfillRandomness
<1>6. ASSUME NEW i \in DrawIds, NEW word \in Words, FinalizeDraw(i, word) PROVE StatusChange(id)
  BY <1>5, <1>6, FinalizeIsCallback DEF FullInv
<1>7. ASSUME NEW w \in Wallets, NEW i \in DrawIds, ClaimPrize(w, i) PROVE StatusChange(id)
  BY <1>0, <1>7 DEF ClaimPrize
<1>8. ASSUME NEW w \in Wallets, NEW i \in DrawIds, ClaimRefund(w, i) PROVE StatusChange(id)
  BY <1>8 DEF ClaimRefund
<1>9. ASSUME Tick \/ Donate \/ UNCHANGED vars PROVE StatusChange(id)
  BY <1>9 DEF Tick, Donate, vars
<1> QED
  BY <1>1, <1>2, <1>3, <1>4, <1>5, <1>6, <1>7, <1>8, <1>9 DEF Next

-----------------------------------------------------------------------------
(* Prizes                                                                  *)

PoolOf == [id \in DrawIds |-> draws[id].pool]

\* A word that finds a winner: the record of the round it settles.
LEMMA DeclaredRecord ==
  ASSUME FullInv, NEW r \in Requests, NEW word \in Words, SettleDraw(r, word), NEW id,
         id = requestDraw[r]
  PROVE  /\ id \in DrawIds /\ draws[id].status = "DRAWING" /\ id = currentDrawId
         /\ \A i \in DrawIds : i # id => draws'[i] = draws[i]
         /\ \/ /\ draws'[id].status = "NO_WINNER" /\ draws'[id].pool = draws[id].pool
               /\ pendingRollover' = pendingRollover + draws[id].pool
               /\ outstandingPrizes' = outstandingPrizes
            \/ /\ draws'[id].status = "WINNER_DECLARED" /\ draws'[id].pool = draws[id].pool
               /\ pendingRollover' = pendingRollover
               /\ outstandingPrizes' = outstandingPrizes + draws[id].pool
<1>1. draws \in [DrawIds -> Draw] /\ id \in DrawIds /\ draws[id].status = "DRAWING"
  BY DEF FullInv, IInv, TypeOK, SettleDraw, AwaitsWord, DrawIds
<1>2. id = currentDrawId
  BY <1>1, LiveRound DEF FullInv, Live
<1>3. \A i \in DrawIds : i # id => draws'[i] = draws[i]
  BY <1>1 DEF SettleDraw
<1>4. CASE TicketOwner(id, LuckyNumber(word)) = NoOne
  <2>1. /\ draws'[id] = [draws[id] EXCEPT !.status = "NO_WINNER",
                           !.luckyNumber = LuckyNumber(word), !.winner = NoOne]
        /\ pendingRollover' = pendingRollover + draws[id].pool
        /\ outstandingPrizes' = outstandingPrizes
    BY <1>1, <1>4 DEF SettleDraw
  <2>2. draws'[id].status = "NO_WINNER" /\ draws'[id].pool = draws[id].pool
    BY <1>1, <2>1 DEF Draw
  <2> QED BY <1>1, <1>2, <1>3, <2>1, <2>2
<1>5. CASE TicketOwner(id, LuckyNumber(word)) # NoOne
  <2> DEFINE fee   == DaoFee(draws[id].pool)
             prize == draws[id].pool - fee
  <2>1. /\ draws'[id] = [draws[id] EXCEPT !.status = "WINNER_DECLARED",
                           !.luckyNumber = LuckyNumber(word),
                           !.winner = TicketOwner(id, LuckyNumber(word)),
                           !.daoFee = fee, !.winnerPrize = prize]
        /\ outstandingPrizes' = outstandingPrizes + draws[id].pool
        /\ pendingRollover' = pendingRollover
    BY <1>1, <1>5 DEF SettleDraw
  <2> HIDE DEF fee, prize
  <2>2. draws'[id].status = "WINNER_DECLARED" /\ draws'[id].pool = draws[id].pool
    BY <1>1, <2>1 DEF Draw
  <2> QED BY <1>1, <1>2, <1>3, <2>1, <2>2
<1> QED BY <1>4, <1>5

\* Nothing but a word and a claim touches outstandingPrizes.
LEMMA PrizesChange ==
  ASSUME FullInv, [Next]_vars,
         ~ \E r \in Requests, word \in Words : SettleDraw(r, word),
         ~ \E w \in Wallets, id \in DrawIds : ClaimPrize(w, id)
  PROVE  outstandingPrizes' = outstandingPrizes
<1>1. ASSUME NEW r \in Requests, NEW word \in Words, FulfillRandomness(r, word)
      PROVE  outstandingPrizes' = outstandingPrizes
  BY <1>1 DEF FulfillRandomness, IgnoreCallback, vars, ledger
<1>2. ASSUME NEW id \in DrawIds, NEW word \in Words, FinalizeDraw(id, word)
      PROVE  outstandingPrizes' = outstandingPrizes
  BY <1>1, <1>2, FinalizeIsCallback DEF FullInv
<1>3. ASSUME \/ \E n \in 0..MaxDraws : StartDraw(n)
             \/ \E w \in Wallets, id \in DrawIds, received \in {TicketPrice - 1, TicketPrice} :
                  BuyTicket(w, id, received)
             \/ \E id \in DrawIds : CancelDraw(id)
             \/ \E id \in DrawIds, r \in Requests : RequestDraw(id, r)
             \/ \E w \in Wallets, id \in DrawIds : ClaimRefund(w, id)
             \/ Tick \/ Donate \/ UNCHANGED vars
      PROVE  outstandingPrizes' = outstandingPrizes
  BY <1>3 DEF StartDraw, BuyTicket, CancelDraw, RequestDraw, ClaimRefund, Tick, Donate, vars, ledger
<1> QED BY <1>1, <1>2, <1>3 DEF Next

LEMMA PrizesStep ==
  ASSUME FullInv, PrizesOwed, [Next]_vars
  PROVE  PrizesOwed'
<1> DEFINE S == RoundsIn("WINNER_DECLARED")
           f == PoolOf
<1>0. draws \in [DrawIds -> Draw]
  BY DEF FullInv, IInv, TypeOK
<1>1. OpenPrizeUnits = Units(S, f) /\ OpenPrizeUnits' = Units(S', f')
  BY DEF OpenPrizeUnits, PoolOf
<1>2. \A id \in DrawIds : f[id] = draws[id].pool /\ f'[id] = draws'[id].pool /\ f[id] \in Nat
  BY <1>0 DEF PoolOf, Draw
<1>3. /\ \A id : id \in S <=> id \in DrawIds /\ draws[id].status = "WINNER_DECLARED"
      /\ \A id : id \in S' <=> id \in DrawIds /\ draws'[id].status = "WINNER_DECLARED"
  BY DEF RoundsIn
<1>4. IsFiniteSet(Units(S, f)) /\ outstandingPrizes = Cardinality(Units(S, f))
  BY <1>1 DEF PrizesOwed
<1> SUFFICES IsFiniteSet(Units(S', f')) /\ outstandingPrizes' = Cardinality(Units(S', f'))
  BY <1>1 DEF PrizesOwed
<1> HIDE DEF S, f
<1>5. ASSUME S' = S, \A id \in S : f'[id] = f[id], outstandingPrizes' = outstandingPrizes
      PROVE  IsFiniteSet(Units(S', f')) /\ outstandingPrizes' = Cardinality(Units(S', f'))
  BY <1>4, <1>5, SameUnits
<1>6. ASSUME NEW r \in Requests, NEW word \in Words, SettleDraw(r, word)
      PROVE  IsFiniteSet(Units(S', f')) /\ outstandingPrizes' = Cardinality(Units(S', f'))
  <2> DEFINE id == requestDraw[r]
  <2>1. /\ id \in DrawIds /\ draws[id].status = "DRAWING"
        /\ \A i \in DrawIds : i # id => draws'[i] = draws[i]
    BY <1>6, DeclaredRecord
  <2>2. \A i \in S : i # id /\ f'[i] = f[i]
    BY <1>2, <1>3, <2>1
  <2>3. CASE draws'[id].status = "NO_WINNER" /\ outstandingPrizes' = outstandingPrizes
    <3>1. \A i \in DrawIds :
            draws'[i].status = "WINNER_DECLARED" <=> draws[i].status = "WINNER_DECLARED"
      BY <2>1, <2>3
    <3>2. S' = S
      BY <1>3, <3>1
    <3> QED BY <1>5, <2>2, <2>3, <3>2
  <2>4. CASE /\ draws'[id].status = "WINNER_DECLARED" /\ draws'[id].pool = draws[id].pool
             /\ outstandingPrizes' = outstandingPrizes + draws[id].pool
    <3>1. S' = S \union {id} /\ id \notin S
      BY <1>3, <2>1, <2>2, <2>4
    <3>2. f'[id] = draws[id].pool /\ f'[id] \in Nat
      BY <1>2, <2>1, <2>4
    <3>3. /\ IsFiniteSet(Units(S', f'))
          /\ Cardinality(Units(S', f')) = Cardinality(Units(S, f)) + f'[id]
      BY <1>4, <2>2, <3>1, <3>2, OneRoundMore
    <3> QED BY <1>4, <2>4, <3>2, <3>3
  <2> QED BY <1>6, <2>3, <2>4, DeclaredRecord
<1>7. ASSUME NEW w \in Wallets, NEW id \in DrawIds, ClaimPrize(w, id)
      PROVE  IsFiniteSet(Units(S', f')) /\ outstandingPrizes' = Cardinality(Units(S', f'))
  <2>1. /\ draws[id].status = "WINNER_DECLARED"
        /\ draws' = [draws EXCEPT ![id].status = "COMPLETED"]
        /\ outstandingPrizes' = outstandingPrizes - draws[id].pool
    BY <1>7 DEF ClaimPrize, OwedPrize
  <2>2. draws'[id].status = "COMPLETED" /\ \A i \in DrawIds : i # id => draws'[i] = draws[i]
    BY <1>0, <2>1 DEF Draw
  <2>3. S = S' \union {id} /\ id \notin S' /\ \A i \in S' : f[i] = f'[i]
    BY <1>2, <1>3, <2>1, <2>2
  <2>5. f[id] = draws[id].pool /\ f[id] \in Nat
    BY <1>2, <1>7
  <2>4. /\ IsFiniteSet(Units(S', f')) /\ Cardinality(Units(S', f')) \in Nat
        /\ Cardinality(Units(S, f)) = Cardinality(Units(S', f')) + f[id]
    BY <1>4, <2>3, <2>5, OneRoundMore
  <2> QED BY <1>4, <2>1, <2>4, <2>5
<1>8. ASSUME ~ \E r \in Requests, word \in Words : SettleDraw(r, word),
             ~ \E w \in Wallets, id \in DrawIds : ClaimPrize(w, id)
      PROVE  IsFiniteSet(Units(S', f')) /\ outstandingPrizes' = Cardinality(Units(S', f'))
  <2>1. ASSUME NEW id \in DrawIds
        PROVE  /\ id \in S' <=> id \in S
               /\ id \in S => draws'[id] = draws[id]
    BY <1>3, <1>8, StatusStep DEF StatusChange, CancelDraw, CanPerformDraw, Settled
  <2>2. S' = S /\ \A id \in S : f'[id] = f[id]
    BY <1>2, <1>3, <2>1
  <2> QED BY <1>5, <1>8, <2>2, PrizesChange
<1> QED BY <1>6, <1>7, <1>8

-----------------------------------------------------------------------------
(* Refunds                                                                 *)

\* Refunds are given out by claims only, and owed by cancelled rounds only.
LEMMA RefundsChange ==
  ASSUME FullInv, [Next]_vars,
         ~ \E w \in Wallets, id \in DrawIds : ClaimRefund(w, id)
  PROVE  /\ refunded' = refunded
         /\ (~ \E id \in DrawIds : CancelDraw(id)) => outstandingRefunds' = outstandingRefunds
<1> DEFINE Goal ==
      /\ refunded' = refunded
      /\ (~ \E id \in DrawIds : CancelDraw(id)) => outstandingRefunds' = outstandingRefunds
<1>1. ASSUME NEW r \in Requests, NEW word \in Words, FulfillRandomness(r, word) PROVE Goal
  BY <1>1 DEF FulfillRandomness, SettleDraw, IgnoreCallback, vars, ledger, tickets
<1>2. ASSUME NEW id \in DrawIds, NEW word \in Words, FinalizeDraw(id, word) PROVE Goal
  BY <1>1, <1>2, FinalizeIsCallback DEF FullInv
<1>3. ASSUME \/ \E n \in 0..MaxDraws : StartDraw(n)
             \/ \E w \in Wallets, id \in DrawIds, received \in {TicketPrice - 1, TicketPrice} :
                  BuyTicket(w, id, received)
             \/ \E id \in DrawIds : CancelDraw(id)
             \/ \E id \in DrawIds, r \in Requests : RequestDraw(id, r)
             \/ \E w \in Wallets, id \in DrawIds : ClaimPrize(w, id)
             \/ Tick \/ Donate \/ UNCHANGED vars
      PROVE  Goal
  BY <1>3 DEF StartDraw, BuyTicket, CancelDraw, RequestDraw, ClaimPrize, Tick, Donate, vars,
     ledger, tickets
<1> QED BY <1>1, <1>2, <1>3 DEF Next

LEMMA BoardOfSettled ==
  ASSUME FullInv, [Next]_vars, NEW id \in DrawIds, draws[id].status # "ACTIVE"
  PROVE  BoardKept(id)
BY TicketStep DEF TicketChange, TicketsKept, TicketSold, OpenForSale

LEMMA CancelledStays ==
  ASSUME FullInv, [Next]_vars, NEW id \in DrawIds
  PROVE  /\ draws[id].status = "CANCELLED" => draws'[id] = draws[id] /\ BoardKept(id)
         /\ draws'[id].status = "CANCELLED" => draws[id].status = "CANCELLED" \/ CancelDraw(id)
<1>1. ASSUME draws[id].status = "CANCELLED" PROVE draws'[id] = draws[id] /\ BoardKept(id)
  BY <1>1, SettledStep, BoardOfSettled DEF OutcomeKept, Settled
<1>2. ASSUME draws'[id].status = "CANCELLED", draws[id].status # "CANCELLED"
      PROVE  CancelDraw(id)
  <2>1. ASSUME NEW r \in Requests, NEW word \in Words, SettleDraw(r, word), requestDraw[r] = id
        PROVE  FALSE
    BY <1>2, <2>1, DeclaredRecord
  <2>2. ASSUME NEW w \in Wallets, ClaimPrize(w, id) PROVE FALSE
    <3>1. draws'[id].status = "COMPLETED"
      BY <2>2 DEF ClaimPrize, FullInv, IInv, TypeOK, Draw
    <3> QED BY <1>2, <3>1
  <2> QED BY <1>2, <2>1, <2>2, StatusStep DEF StatusChange
<1> QED BY <1>1, <1>2

\* One wallet's refund is taken.
LEMMA OneRefundLess ==
  ASSUME FullInv, NEW w \in Wallets, NEW id \in DrawIds, ClaimRefund(w, id),
         NEW i \in DrawIds, NEW v \in Wallets
  PROVE  refunded'[i][v] <=> refunded[i][v] \/ (i = id /\ v = w)
BY DEF FullInv, IInv, TypeOK, ClaimRefund

LEMMA RefundsOfCancelledStep ==
  ASSUME FullInv, RefundsOfCancelled, [Next]_vars
  PROVE  RefundsOfCancelled'
<1> SUFFICES ASSUME NEW id \in DrawIds, NEW w \in Wallets, refunded'[id][w]
             PROVE  draws'[id].status = "CANCELLED" /\ ticketOf'[id][w] # 0
  BY DEF RefundsOfCancelled
<1>1. draws[id].status = "CANCELLED" /\ ticketOf[id][w] # 0
  <2>1. CASE \E v \in Wallets, i \in DrawIds : ClaimRefund(v, i)
    <3>1. PICK v \in Wallets, i \in DrawIds : ClaimRefund(v, i)
      BY <2>1
    <3>2. refunded[id][w] \/ (id = i /\ w = v)
      BY <3>1, OneRefundLess
    <3> QED BY <3>1, <3>2 DEF RefundsOfCancelled, ClaimRefund, OwedRefund
  <2>2. CASE ~ \E v \in Wallets, i \in DrawIds : ClaimRefund(v, i)
    BY <2>2, RefundsChange DEF RefundsOfCancelled
  <2> QED BY <2>1, <2>2
<1> QED BY <1>1, CancelledStays DEF BoardKept

LEMMA TicketsOfRound ==
  ASSUME HoldersCounted, NEW id \in DrawIds
  PROVE  /\ IsFiniteSet({id} \X Holders(id))
         /\ Cardinality({id} \X Holders(id)) = draws[id].participantCount
<1>1. IsFiniteSet({id}) /\ Cardinality({id}) = 1
  BY FS_Singleton
<1>2. /\ IsFiniteSet(Holders(id)) /\ Cardinality(Holders(id)) = draws[id].participantCount
      /\ Cardinality(Holders(id)) \in Nat
  BY FS_CardinalityType DEF HoldersCounted
<1>3. /\ IsFiniteSet({id} \X Holders(id))
      /\ Cardinality({id} \X Holders(id)) = Cardinality({id}) * Cardinality(Holders(id))
  BY <1>1, <1>2, FS_Product
<1> QED BY <1>1, <1>2, <1>3

LEMMA PriceOfBoth ==
  ASSUME NEW m \in Nat, NEW n \in Nat
  PROVE  /\ TicketPrice * (m + n) = TicketPrice * m + n * TicketPrice
         /\ TicketPrice * 0 = 0 /\ TicketPrice * m \in Nat
         /\ m >= 1 => TicketPrice * (m - 1) = TicketPrice * m - TicketPrice
BY ConfigurationAssumption

LEMMA RefundsStep ==
  ASSUME FullInv, HoldersCounted, RefundsOfCancelled, RefundsOwed, [Next]_vars
  PROVE  RefundsOwed'
<1>0. /\ \A c : c \in OpenRefunds <=>
           c \in DrawIds \X Wallets /\ OwedRefund(c[1], c[2])
      /\ \A c : c \in OpenRefunds' <=>
           c \in DrawIds \X Wallets /\ OwedRefund(c[1], c[2])'
  BY DEF OpenRefunds
<1>1. /\ IsFiniteSet(OpenRefunds) /\ outstandingRefunds = TicketPrice * Cardinality(OpenRefunds)
      /\ Cardinality(OpenRefunds) \in Nat
  BY FS_CardinalityType DEF RefundsOwed
<1>2. ASSUME OpenRefunds' = OpenRefunds, outstandingRefunds' = outstandingRefunds
      PROVE  RefundsOwed'
  BY <1>1, <1>2 DEF RefundsOwed
<1>3. ASSUME NEW id \in DrawIds, CancelDraw(id) PROVE RefundsOwed'
  <2> DEFINE new == {id} \X Holders(id)
  <2>1. /\ draws \in [DrawIds -> Draw] /\ draws[id].status = "ACTIVE"
        /\ draws' = [draws EXCEPT ![id].status = "CANCELLED"]
        /\ ticketOf' = ticketOf /\ refunded' = refunded
        /\ outstandingRefunds' = outstandingRefunds + draws[id].participantCount * TicketPrice
    BY <1>3 DEF FullInv, IInv, TypeOK, CancelDraw, CanPerformDraw, tickets, RefundTotal
  <2>2. ASSUME NEW i \in DrawIds, NEW w \in Wallets
        PROVE  OwedRefund(i, w)' <=> OwedRefund(i, w) \/ (i = id /\ w \in Holders(id))
    <3>1. CASE i = id
      <4>1. draws'[id].status = "CANCELLED" /\ ~refunded[id][w]
        BY <2>1 DEF Draw, RefundsOfCancelled
      <4> QED BY <2>1, <3>1, <4>1 DEF OwedRefund, Holders
    <3>2. CASE i # id
      BY <2>1, <3>2 DEF OwedRefund
    <3> QED BY <3>1, <3>2
  <2>3. OpenRefunds' = OpenRefunds \union new
    BY <1>0, <2>2 DEF Holders
  <2>4. OpenRefunds \cap new = {}
    BY <1>0, <2>1 DEF OwedRefund
  <2>5. IsFiniteSet(new) /\ Cardinality(new) = draws[id].participantCount
    BY TicketsOfRound
  <2>6. draws[id].participantCount \in Nat
    BY <2>1 DEF Draw
  <2> HIDE DEF new
  <2>7. /\ IsFiniteSet(OpenRefunds')
        /\ Cardinality(OpenRefunds') = Cardinality(OpenRefunds) + draws[id].participantCount
    BY <1>1, <2>3, <2>4, <2>5, DisjointUnion
  <2>8. outstandingRefunds' = TicketPrice * Cardinality(OpenRefunds')
    BY <1>1, <2>1, <2>6, <2>7, PriceOfBoth
  <2> QED BY <2>7, <2>8 DEF RefundsOwed
<1>4. ASSUME NEW w \in Wallets, NEW id \in DrawIds, ClaimRefund(w, id) PROVE RefundsOwed'
  <2>1. /\ OwedRefund(id, w) /\ draws' = draws /\ ticketOf' = ticketOf
        /\ outstandingRefunds' = outstandingRefunds - TicketPrice
    BY <1>4 DEF ClaimRefund
  <2>2. ASSUME NEW i \in DrawIds, NEW v \in Wallets
        PROVE  OwedRefund(i, v)' <=> OwedRefund(i, v) /\ <<i, v>> # <<id, w>>
    BY <1>4, <2>1, OneRefundLess DEF OwedRefund
  <2>3. OpenRefunds' = OpenRefunds \ {<<id, w>>}
    BY <1>0, <2>2
  <2>4. <<id, w>> \in OpenRefunds
    BY <1>0, <2>1
  <2>5. IsFiniteSet(OpenRefunds') /\ Cardinality(OpenRefunds') = Cardinality(OpenRefunds) - 1
    BY <1>1, <2>3, <2>4, FS_RemoveElement
  <2>6. Cardinality(OpenRefunds') \in Nat
    BY <2>5, FS_CardinalityType
  <2>7. outstandingRefunds' = TicketPrice * Cardinality(OpenRefunds')
    BY <1>1, <2>1, <2>5, <2>6, PriceOfBoth
  <2> QED BY <2>5, <2>7 DEF RefundsOwed
<1>5. ASSUME ~ \E id \in DrawIds : CancelDraw(id),
             ~ \E w \in Wallets, id \in DrawIds : ClaimRefund(w, id)
      PROVE  RefundsOwed'
  <2>1. refunded' = refunded /\ outstandingRefunds' = outstandingRefunds
    BY <1>5, RefundsChange
  <2>2. ASSUME NEW i \in DrawIds, NEW v \in Wallets
        PROVE  OwedRefund(i, v)' <=> OwedRefund(i, v)
    BY <1>5, <2>1, CancelledStays DEF OwedRefund, BoardKept
  <2>3. OpenRefunds' = OpenRefunds
    BY <1>0, <2>2
  <2> QED BY <1>2, <2>1, <2>3
<1> QED BY <1>3, <1>4, <1>5

-----------------------------------------------------------------------------
(* What waits for the next round                                           *)

\* The live round has left nothing over, so a cancelled round, or one without
\* a winner, leaves its pot alone.
LEMMA NothingLeftOver ==
  ASSUME IInv, RolloverWaits, NEW id \in DrawIds, id = currentDrawId, draws[id].status \in Live
  PROVE  pendingRollover = 0
<1>1. id # 0
  BY DEF DrawIds
<1> QED BY <1>1 DEF RolloverWaits, LeftOver, Live

LEMMA RolloverChange ==
  ASSUME FullInv, [Next]_vars, ~ \E n \in 0..MaxDraws : StartDraw(n)
  PROVE  /\ currentDrawId' = currentDrawId
         /\ \/ pendingRollover' = pendingRollover
            \/ \E id \in DrawIds : CancelDraw(id)
            \/ \E r \in Requests, word \in Words : SettleDraw(r, word)
<1> DEFINE Goal ==
      /\ currentDrawId' = currentDrawId
      /\ \/ pendingRollover' = pendingRollover
         \/ \E id \in DrawIds : CancelDraw(id)
         \/ \E r \in Requests, word \in Words : SettleDraw(r, word)
<1>1. ASSUME NEW r \in Requests, NEW word \in Words, FulfillRandomness(r, word) PROVE Goal
  BY <1>1 DEF FulfillRandomness, SettleDraw, IgnoreCallback, vars, ledger
<1>2. ASSUME NEW id \in DrawIds, NEW word \in Words, FinalizeDraw(id, word) PROVE Goal
  BY <1>1, <1>2, FinalizeIsCallback DEF FullInv
<1>3. ASSUME NEW id \in DrawIds, CancelDraw(id) PROVE Goal
  BY <1>3 DEF CancelDraw
<1>4. ASSUME \/ \E w \in Wallets, id \in DrawIds, received \in {TicketPrice - 1, TicketPrice} :
                  BuyTicket(w, id, received)
             \/ \E id \in DrawIds, r \in Requests : RequestDraw(id, r)
             \/ \E w \in Wallets, id \in DrawIds : ClaimPrize(w, id) \/ ClaimRefund(w, id)
             \/ Tick \/ Donate \/ UNCHANGED vars
      PROVE  Goal
  BY <1>4 DEF BuyTicket, RequestDraw, ClaimPrize, ClaimRefund, Tick, Donate, vars, ledger
<1> QED BY <1>1, <1>2, <1>3, <1>4 DEF Next

LEMMA LeftOverStep ==
  ASSUME FullInv, [Next]_vars, NEW id \in DrawIds,
         ~ CancelDraw(id),
         ~ \E r \in Requests, word \in Words : SettleDraw(r, word) /\ requestDraw[r] = id
  PROVE  LeftOver(id)' = LeftOver(id)
<1>1. ASSUME draws'[id].status = draws[id].status,
             draws[id].status \in Settled => draws'[id] = draws[id]
      PROVE  LeftOver(id)' = LeftOver(id)
  BY <1>1 DEF LeftOver, Settled
<1>2. ASSUME draws[id].status = "ACTIVE", draws'[id].status = "DRAWING"
      PROVE  LeftOver(id)' = LeftOver(id)
  BY <1>2 DEF LeftOver
<1>3. ASSUME NEW w \in Wallets, ClaimPrize(w, id) PROVE LeftOver(id)' = LeftOver(id)
  <2>1. draws[id].status = "WINNER_DECLARED" /\ draws'[id].status = "COMPLETED"
    BY <1>3 DEF ClaimPrize, OwedPrize, FullInv, IInv, TypeOK, Draw
  <2> QED BY <2>1 DEF LeftOver
<1> QED BY <1>1, <1>2, <1>3, StatusStep DEF StatusChange

\* Where a round's inherited pot is written: by the start of that round.
LEMMA InheritedStep ==
  ASSUME FullInv, [Next]_vars, NEW id \in DrawIds
  PROVE  \/ draws'[id].inheritedRollover = draws[id].inheritedRollover
         \/ id = currentDrawId + 1 /\ currentDrawId' = id
            /\ draws'[id].inheritedRollover = pendingRollover
<1> DEFINE Same == draws'[id].inheritedRollover = draws[id].inheritedRollover
           New  == id = currentDrawId + 1 /\ currentDrawId' = id
                   /\ draws'[id].inheritedRollover = pendingRollover
<1>0. draws \in [DrawIds -> Draw] /\ currentDrawId \in 0..MaxDraws
  BY DEF FullInv, IInv, TypeOK
<1>1. ASSUME NEW n \in 0..MaxDraws, StartDraw(n) PROVE Same \/ New
  <2>1. CASE id = currentDrawId + 1
    <3>1. draws'[id] = [draws[id] EXCEPT !.deadline = now + Duration,
                          !.inheritedRollover = pendingRollover, !.pool = pendingRollover]
      BY <1>0, <1>1, <2>1 DEF StartDraw
    <3> QED BY <1>0, <1>1, <2>1, <3>1 DEF StartDraw, Draw
  <2>2. CASE id # currentDrawId + 1
    BY <1>0, <1>1, <2>2 DEF StartDraw
  <2> QED BY <2>1, <2>2
<1>2. ASSUME NEW w \in Wallets, NEW i \in DrawIds, NEW received, BuyTicket(w, i, received)
      PROVE  Same
  BY <1>0, <1>2 DEF BuyTicket, Draw
<1>3. ASSUME NEW i \in DrawIds, CancelDraw(i) PROVE Same
  BY <1>0, <1>3 DEF CancelDraw, Draw
<1>4. ASSUME NEW i \in DrawIds, NEW r \in Requests, RequestDraw(i, r) PROVE Same
  BY <1>0, <1>4 DEF RequestDraw, Draw
<1>5. ASSUME NEW r \in Requests, NEW word \in Words, FulfillRandomness(r, word) PROVE Same
  <2>1. CASE SettleDraw(r, word) /\ requestDraw[r] # id
    BY <1>0, <2>1 DEF SettleDraw
  <2>2. CASE SettleDraw(r, word) /\ requestDraw[r] = id
    <3>1. CASE TicketOwner(id, LuckyNumber(word)) = NoOne
      <4>1. draws'[id] = [draws[id] EXCEPT !.status = "NO_WINNER",
                            !.luckyNumber = LuckyNumber(word), !.winner = NoOne]
        BY <1>0, <2>2, <3>1 DEF SettleDraw
      <4> QED BY <1>0, <4>1 DEF Draw
    <3>2. CASE TicketOwner(id, LuckyNumber(word)) # NoOne
      <4> DEFINE fee   == DaoFee(draws[id].pool)
                 prize == draws[id].pool - fee
      <4>1. draws'[id] = [draws[id] EXCEPT !.status = "WINNER_DECLARED",
                            !.luckyNumber = LuckyNumber(word),
                            !.winner = TicketOwner(id, LuckyNumber(word)),
                            !.daoFee = fee, !.winnerPrize = prize]
        BY <1>0, <2>2, <3>2 DEF SettleDraw
      <4> HIDE DEF fee, prize
      <4> QED BY <1>0, <4>1 DEF Draw
    <3> QED BY <3>1, <3>2
  <2>3. CASE IgnoreCallback(r)
    BY <2>3 DEF IgnoreCallback, vars
  <2> QED BY <1>5, <2>1, <2>2, <2>3 DEF FulfillRandomness
<1>6. ASSUME NEW i \in DrawIds, NEW word \in Words, FinalizeDraw(i, word) PROVE Same
  BY <1>5, <1>6, FinalizeIsCallback DEF FullInv
<1>7. ASSUME NEW w \in Wallets, NEW i \in DrawIds, ClaimPrize(w, i) PROVE Same
  BY <1>0, <1>7 DEF ClaimPrize, Draw
<1>8. ASSUME NEW w \in Wallets, NEW i \in DrawIds, ClaimRefund(w, i) PROVE Same
  BY <1>8 DEF ClaimRefund
<1>9. ASSUME Tick \/ Donate \/ UNCHANGED vars PROVE Same
  BY <1>9 DEF Tick, Donate, vars
<1> QED
  BY <1>1, <1>2, <1>3, <1>4, <1>5, <1>6, <1>7, <1>8, <1>9 DEF Next

LEMMA PotsStep ==
  ASSUME FullInv, RolloverWaits, PotsInherited, [Next]_vars
  PROVE  PotsInherited'
<1>0. currentDrawId \in 0..MaxDraws /\ MaxDraws \in Nat
  BY EnvironmentAssumption DEF FullInv, IInv, TypeOK
<1> SUFFICES ASSUME NEW id \in DrawIds, id < currentDrawId'
             PROVE  draws'[id + 1].inheritedRollover = LeftOver(id)'
  BY DEF PotsInherited
<1>1. currentDrawId' = currentDrawId \/ \E n \in 0..MaxDraws : StartDraw(n)
  BY RolloverChange
<1>2. id \in Nat /\ id <= currentDrawId /\ id # 0 /\ id + 1 \in DrawIds
  BY <1>0, <1>1 DEF StartDraw, DrawIds
<1>3. LeftOver(id)' = LeftOver(id)
  <2>1. CASE \E n \in 0..MaxDraws : StartDraw(n)
    <3>1. draws'[id] = draws[id]
      BY <1>0, <1>2, <2>1 DEF StartDraw, FullInv, IInv, TypeOK
    <3> QED BY <3>1 DEF LeftOver
  <2>2. CASE currentDrawId' = currentDrawId
    <3>1. draws[id].status \in Settled
      BY <2>2 DEF FullInv, IInv, OneLiveRound
    <3>2. ~ CancelDraw(id)
      BY <3>1 DEF CancelDraw, CanPerformDraw, Settled
    <3>3. ASSUME NEW r \in Requests, NEW word \in Words, SettleDraw(r, word), requestDraw[r] = id
          PROVE  FALSE
      BY <3>1, <3>3, DeclaredRecord DEF Settled
    <3> QED BY <3>2, <3>3, LeftOverStep
  <2> QED BY <1>1, <2>1, <2>2
<1>4. CASE draws'[id + 1].inheritedRollover = draws[id + 1].inheritedRollover /\ id < currentDrawId
  BY <1>3, <1>4 DEF PotsInherited
<1>5. CASE id + 1 = currentDrawId + 1 /\ draws'[id + 1].inheritedRollover = pendingRollover
  <2>1. id = currentDrawId /\ currentDrawId # 0
    BY <1>0, <1>2, <1>5
  <2> QED BY <1>3, <1>5, <2>1 DEF RolloverWaits
<1>6. CASE id = currentDrawId /\ draws'[id + 1].inheritedRollover = draws[id + 1].inheritedRollover
  <2>1. PICK n \in 0..MaxDraws : StartDraw(n)
    BY <1>0, <1>1, <1>6
  <2>2. draws'[id + 1].inheritedRollover = pendingRollover
    <3> DEFINE i == id + 1
    <3>1. draws \in [DrawIds -> Draw] /\ i \in DrawIds /\ i = currentDrawId + 1
      BY <1>2, <1>6 DEF FullInv, IInv, TypeOK
    <3> HIDE DEF i
    <3>2. draws'[i] = [draws[i] EXCEPT !.deadline = now + Duration,
                          !.inheritedRollover = pendingRollover, !.pool = pendingRollover]
      BY <2>1, <3>1 DEF StartDraw
    <3>3. draws'[i].inheritedRollover = pendingRollover
      BY <3>1, <3>2 DEF Draw
    <3> QED BY <3>3 DEF i
  <2>3. currentDrawId # 0
    BY <1>2, <1>6
  <2> QED BY <1>3, <1>6, <2>2, <2>3 DEF RolloverWaits
<1> QED BY <1>0, <1>2, <1>4, <1>5, <1>6, InheritedStep

LEMMA RolloverStep ==
  ASSUME FullInv, RolloverWaits, [Next]_vars
  PROVE  RolloverWaits'
<1>0. /\ IInv /\ draws \in [DrawIds -> Draw] /\ currentDrawId \in 0..MaxDraws
      /\ pendingRollover \in Nat
      /\ currentDrawId # 0 => currentDrawId \in DrawIds
  BY EnvironmentAssumption DEF FullInv, IInv, TypeOK, DrawIds
<1>1. ASSUME NEW n \in 0..MaxDraws, StartDraw(n) PROVE RolloverWaits'
  <2> DEFINE id == currentDrawId + 1
  <2>1. /\ currentDrawId' = id /\ id # 0 /\ id \in DrawIds /\ id > currentDrawId
        /\ pendingRollover' = 0
    BY <1>0, <1>1, EnvironmentAssumption DEF StartDraw, DrawIds
  <2>2. draws[id].status = "ACTIVE"
    BY <2>1 DEF FullInv, IInv, OneLiveRound, BlankDraw
  <2>3. draws'[id].status = "ACTIVE"
    BY <1>0, <1>1, <2>1, <2>2 DEF StartDraw, Draw
  <2> HIDE DEF id
  <2> QED BY <2>1, <2>3 DEF RolloverWaits, LeftOver
<1>2. ASSUME NEW id \in DrawIds, CancelDraw(id) PROVE RolloverWaits'
  <2>1. /\ id = currentDrawId /\ id # 0 /\ draws[id].status \in Live
        /\ currentDrawId' = currentDrawId
        /\ pendingRollover' = pendingRollover + draws[id].inheritedRollover
        /\ draws' = [draws EXCEPT ![id].status = "CANCELLED"]
    BY <1>2 DEF CancelDraw, CanPerformDraw, Live, DrawIds, CarriedOver
  <2>2. /\ draws'[id].status = "CANCELLED"
        /\ draws'[id].inheritedRollover = draws[id].inheritedRollover
        /\ draws[id].inheritedRollover \in Nat
    BY <1>0, <2>1 DEF Draw
  <2>3. pendingRollover' = draws'[id].inheritedRollover
    BY <1>0, <2>1, <2>2, NothingLeftOver
  <2> QED BY <2>1, <2>2, <2>3 DEF RolloverWaits, LeftOver
<1>3. ASSUME NEW r \in Requests, NEW word \in Words, SettleDraw(r, word) PROVE RolloverWaits'
  <2> DEFINE id == requestDraw[r]
  <2>1. /\ id \in DrawIds /\ id = currentDrawId /\ draws[id].status \in Live
        /\ \/ /\ draws'[id].status = "NO_WINNER" /\ draws'[id].pool = draws[id].pool
              /\ pendingRollover' = pendingRollover + draws[id].pool
           \/ draws'[id].status = "WINNER_DECLARED" /\ pendingRollover' = pendingRollover
    BY <1>3, DeclaredRecord DEF Live
  <2>2. currentDrawId' = currentDrawId /\ id # 0
    BY <1>3, <2>1 DEF SettleDraw, DrawIds
  <2>3. pendingRollover = 0 /\ draws[id].pool \in Nat
    BY <1>0, <2>1, NothingLeftOver DEF Draw
  <2> HIDE DEF id
  <2> QED BY <2>1, <2>2, <2>3 DEF RolloverWaits, LeftOver
<1>4. ASSUME ~ \E n \in 0..MaxDraws : StartDraw(n),
             ~ \E id \in DrawIds : CancelDraw(id),
             ~ \E r \in Requests, word \in Words : SettleDraw(r, word)
      PROVE  RolloverWaits'
  <2>1. currentDrawId' = currentDrawId /\ pendingRollover' = pendingRollover
    BY <1>4, RolloverChange
  <2>2. CASE currentDrawId = 0
    BY <2>1, <2>2 DEF RolloverWaits
  <2>3. CASE currentDrawId # 0
    <3> DEFINE id == currentDrawId
    <3>1. id \in DrawIds
      BY <1>0, <2>3
    <3>2. LeftOver(id)' = LeftOver(id)
      BY <1>4, <2>1, <3>1, LeftOverStep
    <3> QED BY <2>1, <2>3, <3>2 DEF RolloverWaits
  <2> QED BY <2>2, <2>3
<1> QED BY <1>1, <1>2, <1>3, <1>4

-----------------------------------------------------------------------------
(* The buckets                                                             *)

Owed == PrizesOwed /\ RefundsOwed /\ RolloverWaits /\ PotsInherited /\ RefundsOfCancelled

LEMMA OwedInit == Init => Owed
<1> SUFFICES ASSUME Init PROVE Owed
  OBVIOUS
<1>1. /\ \A id \in DrawIds : draws[id].status = "ACTIVE"
      /\ \A id \in DrawIds, w \in Wallets : ~refunded[id][w]
      /\ outstandingPrizes = 0 /\ outstandingRefunds = 0
      /\ pendingRollover = 0 /\ currentDrawId = 0
  BY DEF Init, BlankDraw
<1>2. OpenPrizeUnits = {}
  BY <1>1 DEF OpenPrizeUnits, Units, RoundsIn
<1>3. OpenRefunds = {}
  BY <1>1 DEF OpenRefunds, OwedRefund
<1>4. TicketPrice * 0 = 0
  BY PriceOfBoth
<1>5. PotsInherited
  BY <1>1 DEF PotsInherited, DrawIds
<1> QED
  BY <1>1, <1>2, <1>3, <1>4, <1>5, FS_EmptySet
  DEF Owed, PrizesOwed, RefundsOwed, RolloverWaits, RefundsOfCancelled

LEMMA OwedInvariance == Spec => []OwedInv
<1>1. BookInv => FullInv /\ HoldersCounted
  BY DEF BookInv, TInv
<1>2. BookInv /\ Owed /\ [Next]_vars => Owed'
  BY <1>1, PrizesStep, RefundsStep, RolloverStep, PotsStep, RefundsOfCancelledStep DEF Owed
<1>3. OwedInv <=> BookInv /\ Owed
  BY DEF OwedInv, Owed
<1> QED BY <1>2, <1>3, OwedInit, BookInvariance, PTL DEF Spec

\* Every bucket is the sum over the rounds it stands for, for any number of
\* rounds and wallets: no claim can fail on the checked subtraction of a bucket,
\* and no pot is in two places (DLottery.sol:183).
THEOREM BucketsAreExplained == Spec => []BucketsMatchRounds
<1>1. OwedInv => BucketsMatchRounds
  BY DEF OwedInv, BookInv, TInv, FullInv, IInv, ActivePoolIsCurrent, PrizesOwed, RefundsOwed,
     RolloverWaits, BucketsMatchRounds
<1> QED BY <1>1, OwedInvariance, PTL

-----------------------------------------------------------------------------
(* What was paid                                                           *)

PrizeOf == [id \in DrawIds |-> draws[id].winnerPrize]
FeeOf   == [id \in DrawIds |-> draws[id].daoFee]

WonUnits(a) == Units(PrizesTaken(a), PrizeOf)
FeeUnits(a) == Units(FeesTaken(a), FeeOf)

Players == Accounts \ {Lottery}

PaidInv ==
  /\ BalancesExplained
  /\ \A a \in Players : IsFiniteSet(WonUnits(a)) /\ IsFiniteSet(FeeUnits(a))

LEMMA BalanceIs ==
  ASSUME NEW a
  PROVE  /\ BalanceFromRounds(a) = Funds - TicketPrice * Cardinality(TicketsPaid(a))
                                   + Cardinality(WonUnits(a)) + Cardinality(FeeUnits(a))
         /\ BalanceFromRounds(a)' = Funds - TicketPrice * Cardinality(TicketsPaid(a)')
                                   + Cardinality(WonUnits(a)') + Cardinality(FeeUnits(a)')
BY DEF BalanceFromRounds, WonUnits, FeeUnits, PrizeOf, FeeOf

LEMMA PaidTicketsFinite ==
  ASSUME NEW a
  PROVE  IsFiniteSet(TicketsPaid(a)) /\ Cardinality(TicketsPaid(a)) \in Nat
<1>1. IsFiniteSet(DrawIds)
  BY FS_Interval, EnvironmentAssumption DEF DrawIds
<1>2. TicketsPaid(a) \in SUBSET DrawIds
  BY DEF TicketsPaid
<1>3. IsFiniteSet(TicketsPaid(a))
  BY <1>1, <1>2, FS_Subset
<1> QED BY <1>3, FS_CardinalityType

\* Who won a completed round, and how much, never changes; and a round is
\* completed by the claim of its prize.
LEMMA CompletedStays ==
  ASSUME FullInv, [Next]_vars, NEW id \in DrawIds
  PROVE  /\ draws[id].status = "COMPLETED" => draws'[id] = draws[id]
         /\ draws'[id].status = "COMPLETED" =>
              draws[id].status = "COMPLETED" \/ \E w \in Wallets : ClaimPrize(w, id)
<1>1. draws[id].status = "COMPLETED" => draws'[id] = draws[id]
  BY SettledStep DEF OutcomeKept, Settled
<1>2. ASSUME draws'[id].status = "COMPLETED", draws[id].status # "COMPLETED"
      PROVE  \E w \in Wallets : ClaimPrize(w, id)
  <2>1. ASSUME NEW r \in Requests, NEW word \in Words, SettleDraw(r, word), requestDraw[r] = id
        PROVE  FALSE
    BY <1>2, <2>1, DeclaredRecord
  <2> QED BY <1>2, <2>1, StatusStep DEF StatusChange
<1> QED BY <1>1, <1>2

LEMMA TakenKept ==
  ASSUME FullInv, [Next]_vars, NEW a,
         \A id \in DrawIds : draws'[id].status = "COMPLETED" => draws[id].status = "COMPLETED"
  PROVE  WonUnits(a)' = WonUnits(a) /\ FeeUnits(a)' = FeeUnits(a)
<1>1. \A id \in DrawIds : draws'[id].status = "COMPLETED" <=> draws[id].status = "COMPLETED"
  BY CompletedStays
<1>2. \A id \in RoundsIn("COMPLETED") : draws'[id] = draws[id]
  BY CompletedStays DEF RoundsIn
<1>3. PrizesTaken(a)' = PrizesTaken(a) /\ FeesTaken(a)' = FeesTaken(a)
  BY <1>1, <1>2 DEF PrizesTaken, FeesTaken, RoundsIn
<1>4. /\ \A id \in PrizesTaken(a) : PrizeOf'[id] = PrizeOf[id]
      /\ \A id \in FeesTaken(a) : FeeOf'[id] = FeeOf[id]
  BY <1>2 DEF PrizesTaken, FeesTaken, PrizeOf, FeeOf, RoundsIn
<1> QED BY <1>3, <1>4, SameUnits DEF WonUnits, FeeUnits

\* Tickets and balances change by sales and claims only.
LEMMA NobodyPays ==
  ASSUME FullInv, [Next]_vars,
         ~ \E w \in Wallets, id \in DrawIds, received \in {TicketPrice - 1, TicketPrice} :
             BuyTicket(w, id, received),
         ~ \E w \in Wallets, id \in DrawIds : ClaimPrize(w, id) \/ ClaimRefund(w, id)
  PROVE  /\ ticketOf' = ticketOf /\ refunded' = refunded
         /\ \A a \in Players : balance'[a] = balance[a]
<1> DEFINE Goal == /\ ticketOf' = ticketOf /\ refunded' = refunded
                   /\ \A a \in Players : balance'[a] = balance[a]
<1>1. ASSUME NEW r \in Requests, NEW word \in Words, FulfillRandomness(r, word) PROVE Goal
  BY <1>1 DEF FulfillRandomness, SettleDraw, IgnoreCallback, vars, tickets, token
<1>2. ASSUME NEW id \in DrawIds, NEW word \in Words, FinalizeDraw(id, word) PROVE Goal
  BY <1>1, <1>2, FinalizeIsCallback DEF FullInv
<1>3. ASSUME Donate PROVE Goal
  BY <1>3 DEF Donate, tickets, Players, FullInv, IInv, TypeOK
<1>4. ASSUME \/ \E n \in 0..MaxDraws : StartDraw(n)
             \/ \E id \in DrawIds : CancelDraw(id)
             \/ \E id \in DrawIds, r \in Requests : RequestDraw(id, r)
             \/ Tick \/ UNCHANGED vars
      PROVE  Goal
  BY <1>4 DEF StartDraw, CancelDraw, RequestDraw, Tick, vars, tickets, token
<1> QED BY <1>1, <1>2, <1>3, <1>4 DEF Next

\* A sale takes the price from the buyer, who has one ticket more.
LEMMA SalePaid ==
  ASSUME FullInv, RefundsOfCancelled, NEW w \in Wallets, NEW id \in DrawIds, NEW received,
         BuyTicket(w, id, received), NEW a \in Players
  PROVE  /\ a # w => TicketsPaid(a)' = TicketsPaid(a) /\ balance'[a] = balance[a]
         /\ a = w => /\ TicketsPaid(a)' = TicketsPaid(a) \union {id} /\ id \notin TicketsPaid(a)
                     /\ balance'[a] = balance[a] - TicketPrice
<1>1. /\ ticketOf \in [DrawIds -> [Wallets -> 0..MaxParticipants]]
      /\ balance \in [Accounts -> Nat] /\ draws[id] \in Draw
      /\ ticketOf' = [ticketOf EXCEPT ![id][w] = draws[id].participantCount + 1]
      /\ balance' = [balance EXCEPT ![w] = balance[w] - TicketPrice,
                                    ![Lottery] = balance[Lottery] + received]
      /\ refunded' = refunded /\ ticketOf[id][w] = 0 /\ draws[id].status = "ACTIVE"
  BY DEF FullInv, IInv, TypeOK, BuyTicket, HasTicket, OpenForSale
<1>2. draws[id].participantCount + 1 # 0 /\ ~refunded[id][w]
  BY <1>1 DEF Draw, RefundsOfCancelled
<1>3. ASSUME NEW i \in DrawIds, NEW v \in Wallets
      PROVE  ticketOf'[i][v] # 0 <=> ticketOf[i][v] # 0 \/ (i = id /\ v = w)
  BY <1>1, <1>2
<1>4. a \in Accounts /\ a # Lottery /\ w \in Accounts /\ w # Lottery
  BY EnvironmentAssumption DEF Players, Accounts
<1>5. ASSUME a # w PROVE TicketsPaid(a)' = TicketsPaid(a) /\ balance'[a] = balance[a]
  BY <1>1, <1>3, <1>4, <1>5 DEF TicketsPaid
<1>6. ASSUME a = w
      PROVE  /\ TicketsPaid(a)' = TicketsPaid(a) \union {id} /\ id \notin TicketsPaid(a)
             /\ balance'[a] = balance[a] - TicketPrice
  <2>1. TicketsPaid(a)' = TicketsPaid(a) \union {id} /\ id \notin TicketsPaid(a)
    BY <1>1, <1>2, <1>3, <1>6 DEF TicketsPaid
  <2>2. balance'[a] = balance[a] - TicketPrice
    BY <1>1, <1>4, <1>6
  <2> QED BY <2>1, <2>2
<1> QED BY <1>5, <1>6

\* A refund gives it back.
LEMMA RefundPaid ==
  ASSUME FullInv, NEW w \in Wallets, NEW id \in DrawIds, ClaimRefund(w, id), NEW a \in Players
  PROVE  /\ a # w => TicketsPaid(a)' = TicketsPaid(a) /\ balance'[a] = balance[a]
         /\ a = w => /\ TicketsPaid(a)' = TicketsPaid(a) \ {id} /\ id \in TicketsPaid(a)
                     /\ balance'[a] = balance[a] + TicketPrice
<1>1. /\ balance \in [Accounts -> Nat] /\ ticketOf' = ticketOf
      /\ balance' = [balance EXCEPT ![Lottery] = balance[Lottery] - TicketPrice,
                                    ![w] = balance[w] + TicketPrice]
      /\ OwedRefund(id, w)
  BY DEF FullInv, IInv, TypeOK, ClaimRefund
<1>2. a \in Accounts /\ a # Lottery /\ w \in Accounts /\ w # Lottery
  BY EnvironmentAssumption DEF Players, Accounts
<1>3. ASSUME a # w PROVE TicketsPaid(a)' = TicketsPaid(a) /\ balance'[a] = balance[a]
  BY <1>1, <1>2, <1>3, OneRefundLess DEF TicketsPaid
<1>4. ASSUME a = w
      PROVE  /\ TicketsPaid(a)' = TicketsPaid(a) \ {id} /\ id \in TicketsPaid(a)
             /\ balance'[a] = balance[a] + TicketPrice
  <2>1. TicketsPaid(a)' = TicketsPaid(a) \ {id} /\ id \in TicketsPaid(a)
    BY <1>1, <1>4, OneRefundLess DEF TicketsPaid, OwedRefund
  <2>2. balance'[a] = balance[a] + TicketPrice
    BY <1>1, <1>2, <1>4
  <2> QED BY <2>1, <2>2
<1> QED BY <1>3, <1>4

\* A prize is paid to its winner and its fee to the DAO, which may be the same.
LEMMA PrizePaidOut ==
  ASSUME FullInv, NEW w \in Wallets, NEW id \in DrawIds, ClaimPrize(w, id), NEW a \in Players
  PROVE  /\ balance'[a] = balance[a] + (IF a = w THEN draws[id].winnerPrize ELSE 0)
                                     + (IF a = DAO THEN draws[id].daoFee ELSE 0)
         /\ TicketsPaid(a)' = TicketsPaid(a)
<1> DEFINE fee == draws[id].daoFee
           prize == draws[id].winnerPrize
           paid == [balance EXCEPT ![Lottery] = @ - fee - prize, ![DAO] = @ + fee]
<1>1. /\ balance \in [Accounts -> Nat] /\ fee \in Nat /\ prize \in Nat
      /\ a \in Accounts /\ a # Lottery /\ w \in Accounts /\ w # Lottery
      /\ DAO \in Accounts /\ DAO # Lottery
  BY ConfigurationAssumption, EnvironmentAssumption
  DEF FullInv, IInv, TypeOK, Players, Accounts, Draw
<1>2. balance' = [paid EXCEPT ![w] = @ + prize] /\ UNCHANGED tickets
  BY DEF ClaimPrize, PrizePaid
<1>3. TicketsPaid(a)' = TicketsPaid(a)
  BY <1>2 DEF TicketsPaid, tickets
<1> HIDE DEF fee, prize
<1>4. paid[a] = balance[a] + IF a = DAO THEN fee ELSE 0
  BY <1>1
<1>5. balance'[a] = paid[a] + IF a = w THEN prize ELSE 0
  <2>1. paid \in [Accounts -> Int]
    BY <1>1
  <2> HIDE DEF paid
  <2>2. paid[a] \in Int
    BY <1>1, <2>1
  <2> QED BY <1>1, <1>2, <2>1, <2>2
<1>6. balance[a] \in Nat
  BY <1>1
<1> HIDE DEF paid
<1>7. balance'[a] = balance[a] + (IF a = w THEN prize ELSE 0) + (IF a = DAO THEN fee ELSE 0)
  BY <1>1, <1>4, <1>5, <1>6
<1> QED BY <1>3, <1>7 DEF fee, prize

\* The claimed round joins those its winner won, and those the DAO took a fee of.
LEMMA PrizeTaken ==
  ASSUME FullInv, [Next]_vars, NEW w \in Wallets, NEW id \in DrawIds, ClaimPrize(w, id),
         NEW a \in Players, IsFiniteSet(WonUnits(a)), IsFiniteSet(FeeUnits(a))
  PROVE  /\ IsFiniteSet(WonUnits(a)') /\ IsFiniteSet(FeeUnits(a)')
         /\ Cardinality(WonUnits(a)') =
              Cardinality(WonUnits(a)) + (IF a = w THEN draws[id].winnerPrize ELSE 0)
         /\ Cardinality(FeeUnits(a)') =
              Cardinality(FeeUnits(a)) + (IF a = DAO THEN draws[id].daoFee ELSE 0)
<1>1. /\ draws \in [DrawIds -> Draw] /\ draws[id].status = "WINNER_DECLARED"
      /\ draws[id].winner = w
      /\ draws' = [draws EXCEPT ![id].status = "COMPLETED"]
  BY DEF FullInv, IInv, TypeOK, ClaimPrize, OwedPrize
<1>2. /\ draws'[id].status = "COMPLETED" /\ draws'[id].winner = w
      /\ draws'[id].winnerPrize = draws[id].winnerPrize
      /\ draws'[id].daoFee = draws[id].daoFee
      /\ draws[id].winnerPrize \in Nat /\ draws[id].daoFee \in Nat
      /\ \A i \in DrawIds : i # id => draws'[i] = draws[i]
  BY <1>1 DEF Draw
<1>3. /\ \A i : i \in PrizesTaken(a) <=>
           i \in DrawIds /\ draws[i].status = "COMPLETED" /\ draws[i].winner = a
      /\ \A i : i \in PrizesTaken(a)' <=>
           i \in DrawIds /\ draws'[i].status = "COMPLETED" /\ draws'[i].winner = a
      /\ \A i : i \in FeesTaken(a) <=> i \in DrawIds /\ draws[i].status = "COMPLETED" /\ a = DAO
      /\ \A i : i \in FeesTaken(a)' <=> i \in DrawIds /\ draws'[i].status = "COMPLETED" /\ a = DAO
  BY DEF PrizesTaken, FeesTaken, RoundsIn
<1>4. /\ \A i \in DrawIds : PrizeOf[i] = draws[i].winnerPrize /\ FeeOf[i] = draws[i].daoFee
      /\ \A i \in DrawIds : PrizeOf'[i] = draws'[i].winnerPrize /\ FeeOf'[i] = draws'[i].daoFee
  BY DEF PrizeOf, FeeOf
<1>5. /\ id \notin PrizesTaken(a) /\ id \notin FeesTaken(a)
      /\ \A i \in PrizesTaken(a) : PrizeOf'[i] = PrizeOf[i]
      /\ \A i \in FeesTaken(a) : FeeOf'[i] = FeeOf[i]
      /\ PrizeOf'[id] = draws[id].winnerPrize /\ FeeOf'[id] = draws[id].daoFee
  BY <1>1, <1>2, <1>3, <1>4
<1>6. /\ PrizesTaken(a)' = IF a = w THEN PrizesTaken(a) \union {id} ELSE PrizesTaken(a)
      /\ FeesTaken(a)' = IF a = DAO THEN FeesTaken(a) \union {id} ELSE FeesTaken(a)
  <2>1. \A i : i \in PrizesTaken(a)' <=> i \in PrizesTaken(a) \/ (i = id /\ a = w)
    BY <1>1, <1>2, <1>3
  <2>2. \A i : i \in FeesTaken(a)' <=> i \in FeesTaken(a) \/ (i = id /\ a = DAO)
    BY <1>1, <1>2, <1>3
  <2> QED BY <2>1, <2>2
<1>7. /\ WonUnits(a)' = Units(PrizesTaken(a)', PrizeOf')
      /\ FeeUnits(a)' = Units(FeesTaken(a)', FeeOf')
      /\ WonUnits(a) = Units(PrizesTaken(a), PrizeOf)
      /\ FeeUnits(a) = Units(FeesTaken(a), FeeOf)
  BY DEF WonUnits, FeeUnits
<1>8. /\ IsFiniteSet(WonUnits(a)')
      /\ Cardinality(WonUnits(a)') =
           Cardinality(WonUnits(a)) + (IF a = w THEN draws[id].winnerPrize ELSE 0)
  <2>1. Cardinality(WonUnits(a)) \in Nat
    BY FS_CardinalityType
  <2>2. CASE a = w
    <3>1. PrizesTaken(a)' = PrizesTaken(a) \union {id} /\ PrizeOf'[id] \in Nat
      BY <1>2, <1>5, <1>6, <2>2
    <3>2. IsFiniteSet(Units(PrizesTaken(a), PrizeOf))
      BY <1>7
    <3>3. /\ IsFiniteSet(Units(PrizesTaken(a)', PrizeOf'))
          /\ Cardinality(Units(PrizesTaken(a)', PrizeOf')) = Cardinality(Units(PrizesTaken(a), PrizeOf)) + PrizeOf'[id]
      <4>1. id \notin PrizesTaken(a) /\ \A i \in PrizesTaken(a) : PrizeOf'[i] = PrizeOf[i]
        BY <1>5
      <4> QED BY <3>1, <3>2, <4>1, OneRoundMore
    <3>4. (IF a = w THEN draws[id].winnerPrize ELSE 0) = PrizeOf'[id]
      BY <1>5, <2>2
    <3> QED BY <1>7, <3>3, <3>4
  <2>3. CASE a # w
    BY <1>5, <1>6, <1>7, <2>1, <2>3, SameUnits
  <2> QED BY <2>2, <2>3
<1>9. /\ IsFiniteSet(FeeUnits(a)')
      /\ Cardinality(FeeUnits(a)') =
           Cardinality(FeeUnits(a)) + (IF a = DAO THEN draws[id].daoFee ELSE 0)
  <2>1. Cardinality(FeeUnits(a)) \in Nat
    BY FS_CardinalityType
  <2>2. CASE a = DAO
    <3>1. FeesTaken(a)' = FeesTaken(a) \union {id} /\ FeeOf'[id] \in Nat
      BY <1>2, <1>5, <1>6, <2>2
    <3>2. IsFiniteSet(Units(FeesTaken(a), FeeOf))
      BY <1>7
    <3>3. /\ IsFiniteSet(Units(FeesTaken(a)', FeeOf'))
          /\ Cardinality(Units(FeesTaken(a)', FeeOf')) = Cardinality(Units(FeesTaken(a), FeeOf)) + FeeOf'[id]
      <4>1. id \notin FeesTaken(a) /\ \A i \in FeesTaken(a) : FeeOf'[i] = FeeOf[i]
        BY <1>5
      <4> QED BY <3>1, <3>2, <4>1, OneRoundMore
    <3>4. (IF a = DAO THEN draws[id].daoFee ELSE 0) = FeeOf'[id]
      BY <1>5, <2>2
    <3> QED BY <1>7, <3>3, <3>4
  <2>3. CASE a # DAO
    BY <1>5, <1>6, <1>7, <2>1, <2>3, SameUnits
  <2> QED BY <2>2, <2>3
<1> QED BY <1>8, <1>9

LEMMA PaidStep ==
  ASSUME FullInv, RefundsOfCancelled, PaidInv, [Next]_vars
  PROVE  PaidInv'
<1> SUFFICES ASSUME NEW a \in Players
             PROVE  /\ balance'[a] = BalanceFromRounds(a)'
                    /\ IsFiniteSet(WonUnits(a)') /\ IsFiniteSet(FeeUnits(a)')
  BY DEF PaidInv, BalancesExplained, Players, Accounts
<1> DEFINE tickets0 == Cardinality(TicketsPaid(a))
           won0     == Cardinality(WonUnits(a))
           fees0    == Cardinality(FeeUnits(a))
           tickets1 == Cardinality(TicketsPaid(a)')
           won1     == Cardinality(WonUnits(a)')
           fees1    == Cardinality(FeeUnits(a)')
<1>1. /\ balance[a] = Funds - TicketPrice * tickets0 + won0 + fees0
      /\ IsFiniteSet(WonUnits(a)) /\ IsFiniteSet(FeeUnits(a))
      /\ tickets0 \in Nat /\ won0 \in Nat /\ fees0 \in Nat
      /\ BalanceFromRounds(a)' = Funds - TicketPrice * tickets1 + won1 + fees1
  BY BalanceIs, PaidTicketsFinite, FS_CardinalityType DEF PaidInv, BalancesExplained, Players
<1>2. IsFiniteSet(TicketsPaid(a))
  BY PaidTicketsFinite
<1>3. Funds \in Nat /\ TicketPrice \in Nat /\ TicketPrice * tickets0 \in Nat
  BY <1>1, PriceOfBoth, ConfigurationAssumption, EnvironmentAssumption
<1> DEFINE Goal == /\ balance'[a] = Funds - TicketPrice * tickets1 + won1 + fees1
                   /\ IsFiniteSet(WonUnits(a)') /\ IsFiniteSet(FeeUnits(a)')
<1> SUFFICES Goal
  BY <1>1
<1> HIDE DEF tickets0, won0, fees0
<1>4. ASSUME NEW w \in Wallets, NEW id \in DrawIds, NEW received, BuyTicket(w, id, received)
      PROVE  Goal
  <2>1. WonUnits(a)' = WonUnits(a) /\ FeeUnits(a)' = FeeUnits(a)
    <3>1. /\ draws \in [DrawIds -> Draw]
          /\ draws' = [draws EXCEPT ![id].participantCount = draws[id].participantCount + 1,
                                   ![id].pool = draws[id].pool + TicketPrice]
      BY <1>4 DEF BuyTicket, FullInv, IInv, TypeOK
    <3>2. \A i \in DrawIds : draws'[i].status = draws[i].status
      BY <3>1 DEF Draw
    <3> QED BY <3>2, TakenKept
  <2>2. CASE a # w
    BY <1>1, <1>4, <2>1, <2>2, SalePaid DEF tickets0, won0, fees0
  <2>3. CASE a = w
    <3>1. /\ TicketsPaid(a)' = TicketsPaid(a) \union {id} /\ id \notin TicketsPaid(a)
          /\ balance'[a] = balance[a] - TicketPrice
      BY <1>4, <2>3, SalePaid
    <3>2. tickets1 = tickets0 + 1 /\ won1 = won0 /\ fees1 = fees0
      BY <1>2, <2>1, <3>1, FS_AddElement DEF tickets0, won0, fees0
    <3>3. TicketPrice * (tickets0 + 1) = TicketPrice * tickets0 + TicketPrice
      BY <1>1, ConfigurationAssumption
    <3>4. balance'[a] = Funds - TicketPrice * tickets1 + won1 + fees1
      BY <1>1, <1>3, <3>1, <3>2, <3>3
    <3> QED BY <1>1, <2>1, <3>4
  <2> QED BY <2>2, <2>3
<1>5. ASSUME NEW w \in Wallets, NEW id \in DrawIds, ClaimRefund(w, id) PROVE Goal
  <2>1. WonUnits(a)' = WonUnits(a) /\ FeeUnits(a)' = FeeUnits(a)
    <3>1. draws' = draws
      BY <1>5 DEF ClaimRefund
    <3> QED BY <3>1 DEF WonUnits, FeeUnits, Units, PrizesTaken, FeesTaken, RoundsIn, PrizeOf, FeeOf
  <2>2. CASE a # w
    BY <1>1, <1>5, <2>1, <2>2, RefundPaid DEF tickets0, won0, fees0
  <2>3. CASE a = w
    <3>1. /\ TicketsPaid(a)' = TicketsPaid(a) \ {id} /\ id \in TicketsPaid(a)
          /\ balance'[a] = balance[a] + TicketPrice
      BY <1>5, <2>3, RefundPaid
    <3>2. tickets1 = tickets0 - 1 /\ won1 = won0 /\ fees1 = fees0
      BY <1>2, <2>1, <3>1, FS_RemoveElement DEF tickets0, won0, fees0
    <3>3. tickets1 \in Nat
      BY <1>2, <3>1, FS_RemoveElement, FS_CardinalityType
    <3>4. tickets0 = tickets1 + 1
      BY <1>1, <3>2, <3>3
    <3>5. /\ TicketPrice * (tickets1 + 1) = TicketPrice * tickets1 + TicketPrice
          /\ TicketPrice * tickets1 \in Nat
      BY <3>3, ConfigurationAssumption
    <3> HIDE DEF tickets1, won1, fees1
    <3>6. balance'[a] = Funds - TicketPrice * tickets1 + won1 + fees1
      BY <1>1, <1>3, <3>1, <3>2, <3>4, <3>5
    <3> QED BY <1>1, <2>1, <3>6
  <2> QED BY <2>2, <2>3
<1>6. ASSUME NEW w \in Wallets, NEW id \in DrawIds, ClaimPrize(w, id) PROVE Goal
  <2> DEFINE prize == IF a = w THEN draws[id].winnerPrize ELSE 0
             fee   == IF a = DAO THEN draws[id].daoFee ELSE 0
  <2>1. prize \in Nat /\ fee \in Nat
    BY DEF FullInv, IInv, TypeOK, Draw
  <2>2. balance'[a] = balance[a] + prize + fee /\ TicketsPaid(a)' = TicketsPaid(a)
    BY <1>6, PrizePaidOut
  <2>3. /\ IsFiniteSet(WonUnits(a)') /\ IsFiniteSet(FeeUnits(a)')
        /\ won1 = won0 + prize /\ fees1 = fees0 + fee
    BY <1>1, <1>6, PrizeTaken DEF won0, fees0
  <2>4. tickets1 = tickets0
    BY <2>2 DEF tickets0
  <2> HIDE DEF prize, fee, tickets1, won1, fees1
  <2>5. balance'[a] = Funds - TicketPrice * tickets1 + won1 + fees1
    BY <1>1, <1>3, <2>1, <2>2, <2>3, <2>4
  <2> QED BY <2>3, <2>5
<1>7. ASSUME ~ \E w \in Wallets, id \in DrawIds, received \in {TicketPrice - 1, TicketPrice} :
                 BuyTicket(w, id, received),
             ~ \E w \in Wallets, id \in DrawIds : ClaimPrize(w, id) \/ ClaimRefund(w, id)
      PROVE  Goal
  <2>1. TicketsPaid(a)' = TicketsPaid(a) /\ balance'[a] = balance[a]
    BY <1>7, NobodyPays DEF TicketsPaid
  <2>2. WonUnits(a)' = WonUnits(a) /\ FeeUnits(a)' = FeeUnits(a)
    BY <1>7, CompletedStays, TakenKept
  <2> QED BY <1>1, <2>1, <2>2 DEF tickets0, won0, fees0
<1> QED BY <1>4, <1>5, <1>6, <1>7

LEMMA PaidInit == Init => PaidInv
<1> SUFFICES ASSUME Init, NEW a \in Players
             PROVE  /\ balance[a] = BalanceFromRounds(a)
                    /\ IsFiniteSet(WonUnits(a)) /\ IsFiniteSet(FeeUnits(a))
  BY DEF PaidInv, BalancesExplained, Players, Accounts
<1>1. RoundsIn("COMPLETED") = {}
  BY DEF Init, RoundsIn, BlankDraw
<1>2. TicketsPaid(a) = {}
  BY DEF Init, TicketsPaid
<1>3. WonUnits(a) = {} /\ FeeUnits(a) = {}
  BY <1>1 DEF WonUnits, FeeUnits, PrizesTaken, FeesTaken, Units
<1>4. balance[a] = Funds
  BY DEF Init, Players
<1>5. TicketPrice * 0 = 0 /\ Funds \in Nat
  BY PriceOfBoth, EnvironmentAssumption
<1>6. IsFiniteSet({}) /\ Cardinality({}) = 0
  BY FS_EmptySet
<1>7. BalanceFromRounds(a) = Funds
  <2>1. BalanceFromRounds(a) = Funds - TicketPrice * 0 + 0 + 0
    BY <1>2, <1>3, <1>6, BalanceIs
  <2> QED BY <1>5, <2>1
<1> QED BY <1>3, <1>4, <1>6, <1>7

\* Every account holds what it started with, less the tickets it bought and was
\* not refunded, plus the prizes it won and, for the DAO, the fees: for any
\* number of rounds nobody is paid twice or in another's place (DLottery.sol:183).
THEOREM EveryBalanceExplained == Spec => []BalancesExplained
<1>1. OwedInv => FullInv /\ RefundsOfCancelled
  BY DEF OwedInv, BookInv, TInv
<1>2. PaidInv /\ FullInv /\ RefundsOfCancelled /\ [Next]_vars => PaidInv'
  BY PaidStep
<1>3. PaidInv => BalancesExplained
  BY DEF PaidInv
<1> QED BY <1>1, <1>2, <1>3, PaidInit, OwedInvariance, PTL DEF Spec
===============================================================================
