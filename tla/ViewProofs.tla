------------------------------ MODULE ViewProofs ------------------------------
(***************************************************************************)
(* The two views of the contract, for every value of the constants.        *)
(*                                                                         *)
(* Those who call it: DLottery implements Rounds, which is what the wallet *)
(* page and the scripts rely on.  Rounds counts the holders of a round     *)
(* where the contract keeps a counter, and knows no winner before the      *)
(* word; both are invariants of the contract.                              *)
(*                                                                         *)
(* Those who read its events: the read model is a function of the          *)
(* contract's storage, the row of a round is RowOf(id), and the claims are *)
(* the payments the contract made.  From that, whatever event the contract *)
(* emits next is accepted and keeps it so.                                 *)
(***************************************************************************)
EXTENDS DLotteryRounds, LotteryFeed, DLotteryProofs

-----------------------------------------------------------------------------
(* The book, field by field                                                *)

StatusOf   == [id \in DrawIds |-> draws[id].status]
HoldersOf  == [id \in DrawIds |-> Holders(id)]
WinnerOf   == [id \in DrawIds |-> draws[id].winner]
RefundedOf == [id \in DrawIds |-> {w \in Wallets : refunded[id][w]}]
ClosedNow  == currentDrawId # 0 /\ now >= draws[currentDrawId].deadline

LEMMA BookFields ==
  /\ book = [current |-> currentDrawId, status |-> StatusOf, holders |-> HoldersOf,
             winner |-> WinnerOf, refunded |-> RefundedOf, closed |-> ClosedNow]
  /\ book' = [current |-> currentDrawId', status |-> StatusOf', holders |-> HoldersOf',
              winner |-> WinnerOf', refunded |-> RefundedOf', closed |-> ClosedNow']
BY DEF book, StatusOf, HoldersOf, Holders, WinnerOf, RefundedOf, ClosedNow

\* A step that changes one round's record changes one entry of each field.
LEMMA RecordChanged ==
  ASSUME draws \in [DrawIds -> Draw], NEW id \in DrawIds, NEW d,
         draws' = [draws EXCEPT ![id] = d]
  PROVE  /\ StatusOf' = [StatusOf EXCEPT ![id] = d.status]
         /\ WinnerOf' = [WinnerOf EXCEPT ![id] = d.winner]
         /\ d.deadline = draws[id].deadline /\ UNCHANGED <<now, currentDrawId>>
              /\ currentDrawId \in 0..MaxDraws => ClosedNow' = ClosedNow
<1>1. ASSUME NEW i \in DrawIds PROVE draws'[i] = IF i = id THEN d ELSE draws[i]
  OBVIOUS
<1>2. StatusOf' = [StatusOf EXCEPT ![id] = d.status]
  BY <1>1 DEF StatusOf
<1>3. WinnerOf' = [WinnerOf EXCEPT ![id] = d.winner]
  BY <1>1 DEF WinnerOf
<1>4. ASSUME d.deadline = draws[id].deadline, UNCHANGED <<now, currentDrawId>>,
             currentDrawId \in 0..MaxDraws
      PROVE  ClosedNow' = ClosedNow
  <2>1. CASE currentDrawId = 0
    BY <1>4, <2>1 DEF ClosedNow
  <2>2. CASE currentDrawId # 0
    <3>1. currentDrawId \in DrawIds
      BY <1>4, <2>2, EnvironmentAssumption DEF DrawIds
    <3>2. draws'[currentDrawId].deadline = draws[currentDrawId].deadline
      BY <1>1, <1>4, <3>1
    <3> QED BY <1>4, <3>2 DEF ClosedNow
  <2> QED BY <2>1, <2>2
<1> QED BY <1>2, <1>3, <1>4

LEMMA WinnerStays ==
  ASSUME draws \in [DrawIds -> Draw], NEW id \in DrawIds, NEW d,
         draws' = [draws EXCEPT ![id] = d], d.winner = draws[id].winner
  PROVE  WinnerOf' = WinnerOf
BY DEF WinnerOf

LEMMA TicketsUnchanged ==
  ASSUME UNCHANGED tickets
  PROVE  HoldersOf' = HoldersOf /\ RefundedOf' = RefundedOf
BY DEF tickets, HoldersOf, Holders, RefundedOf

\* Changes of one field.
LEMMA StatusChanged ==
  ASSUME NEW c, NEW s, NEW h, NEW v, NEW r, NEW x, NEW b,
         b = [current |-> c, status |-> s, holders |-> h, winner |-> v, refunded |-> r,
              closed |-> x],
         NEW id, NEW e
  PROVE  Client!WithStatus(b, id, e) =
           [current |-> c, status |-> [s EXCEPT ![id] = e], holders |-> h, winner |-> v,
            refunded |-> r, closed |-> x]
BY DEF Client!WithStatus

LEMMA ClosedChanged ==
  ASSUME NEW c, NEW s, NEW h, NEW v, NEW r, NEW x, NEW b,
         b = [current |-> c, status |-> s, holders |-> h, winner |-> v, refunded |-> r,
              closed |-> x],
         NEW e
  PROVE  Client!WithClosed(b, e) =
           [current |-> c, status |-> s, holders |-> h, winner |-> v, refunded |-> r,
            closed |-> e]
BY DEF Client!WithClosed

\* Rounds counts with its own copy of the standard operator.
LEMMA SameCardinality ==
  ASSUME NEW S
  PROVE  Client!Cardinality(S) = Cardinality(S)
BY DEF Client!Cardinality, Cardinality

\* A call of some wallet that Rounds accepts.
LEMMA CallIsStep ==
  ASSUME NEW call \in Client!Calls, NEW p \in Wallets, NEW id \in 0..MaxDraws,
         book' \in Client!After(book, call, p, id)
  PROVE  Client!Step(book, book')
BY DEF Client!Step

-----------------------------------------------------------------------------
(* Every transaction is a call that Rounds accepts                         *)

LEMMA StartIsCall ==
  ASSUME BookInv, NEW n \in 0..MaxDraws, StartDraw(n)
  PROVE  Client!Step(book, book')
<1> DEFINE id == currentDrawId + 1
           d  == [draws[id] EXCEPT !.deadline = now + Duration,
                                   !.inheritedRollover = pendingRollover, !.pool = pendingRollover]
<1> USE ConfigurationAssumption, EnvironmentAssumption
<1>1. /\ draws \in [DrawIds -> Draw] /\ currentDrawId \in 0..MaxDraws /\ now \in Nat
      /\ n = currentDrawId /\ currentDrawId' = id /\ currentDrawId < MaxDraws /\ CanStartDraw
      /\ now' = now /\ UNCHANGED tickets
  BY DEF BookInv, TInv, FullInv, IInv, TypeOK, StartDraw
<1>2. id \in DrawIds /\ id # 0
  BY <1>1 DEF DrawIds
<1>3. draws' = [draws EXCEPT ![id] = d]
  BY <1>1, <1>2 DEF StartDraw
<1>4. d.status = draws[id].status /\ d.winner = draws[id].winner /\ d.deadline = now + Duration
  BY <1>1, <1>2 DEF Draw
<1> HIDE DEF d
<1>5. StatusOf' = StatusOf /\ WinnerOf' = WinnerOf
  BY <1>1, <1>2, <1>3, <1>4, RecordChanged DEF StatusOf, WinnerOf
<1>6. ClosedNow' = FALSE
  <2>1. draws'[id].deadline = now + Duration
    BY <1>1, <1>2, <1>3, <1>4
  <2> QED BY <1>1, <1>2, <2>1 DEF ClosedNow
<1>7. book' = Client!NextRound(book)
  <2> DEFINE next == [book EXCEPT !.current = @ + 1]
  <2>1. next = [current |-> id, status |-> StatusOf, holders |-> HoldersOf,
                winner |-> WinnerOf, refunded |-> RefundedOf, closed |-> ClosedNow]
    BY BookFields
  <2>2. Client!NextRound(book) = Client!WithClosed(next, FALSE)
    BY Zenon DEF Client!NextRound
  <2> HIDE DEF next
  <2>3. Client!WithClosed(next, FALSE) = Client!WithClosed(next, ClosedNow')
    BY <1>6, Zenon
  <2>4. Client!WithClosed(next, ClosedNow') =
          [current |-> id, status |-> StatusOf, holders |-> HoldersOf,
           winner |-> WinnerOf, refunded |-> RefundedOf, closed |-> ClosedNow']
    BY <2>1, ClosedChanged
  <2>5. book' = [current |-> id, status |-> StatusOf, holders |-> HoldersOf,
                 winner |-> WinnerOf, refunded |-> RefundedOf, closed |-> ClosedNow']
    BY <1>1, <1>5, BookFields, TicketsUnchanged
  <2> QED BY <2>2, <2>3, <2>4, <2>5, Zenon
<1>8. Client!MayStart(book, n)
  <2>1. currentDrawId # 0 => StatusOf[currentDrawId] \in Settled
    BY <1>1 DEF CanStartDraw, StatusOf, DrawIds
  <2> QED BY <1>1, <2>1, BookFields DEF Client!MayStart, Client!Ended, Settled
<1>9. PICK p \in Wallets : TRUE
  OBVIOUS
<1>10. "start" \in Client!Calls /\ book' \in Client!After(book, "start", p, n)
  BY <1>7, <1>8 DEF Client!Calls, Client!After
<1> QED BY <1>10, CallIsStep

LEMMA BuyIsCall ==
  ASSUME BookInv, NEW w \in Wallets, NEW id \in DrawIds, NEW received, BuyTicket(w, id, received)
  PROVE  Client!Step(book, book')
<1> DEFINE number == draws[id].participantCount + 1
           d == [draws[id] EXCEPT !.participantCount = number, !.pool = @ + TicketPrice]
<1> USE ConfigurationAssumption, EnvironmentAssumption
<1>1. /\ draws \in [DrawIds -> Draw] /\ currentDrawId \in 0..MaxDraws /\ now \in Nat
      /\ ticketOf \in [DrawIds -> [Wallets -> 0..MaxParticipants]]
      /\ id = currentDrawId /\ OpenForSale(id) /\ ~HasTicket(id, w)
      /\ UNCHANGED <<now, currentDrawId, refunded>>
  BY DEF BookInv, TInv, FullInv, IInv, TypeOK, BuyTicket
<1>2. draws' = [draws EXCEPT ![id] = d]
  BY <1>1 DEF BuyTicket
<1>3. /\ d.status = draws[id].status /\ d.winner = draws[id].winner
      /\ d.deadline = draws[id].deadline
  BY <1>1 DEF Draw
<1> HIDE DEF d
<1>4. StatusOf' = StatusOf /\ WinnerOf' = WinnerOf /\ ClosedNow' = ClosedNow
  BY <1>1, <1>2, <1>3, RecordChanged DEF StatusOf, WinnerOf
<1>5. RefundedOf' = RefundedOf
  BY <1>1 DEF RefundedOf
<1>6. HoldersOf' = [HoldersOf EXCEPT ![id] = @ \union {w}]
  <2>1. ticketOf' = [ticketOf EXCEPT ![id][w] = number] /\ number # 0
    BY <1>1 DEF BuyTicket, Draw
  <2>2. Holders(id)' = Holders(id) \union {w}
    BY <1>1, <2>1 DEF Holders
  <2>3. \A i \in DrawIds : i # id => Holders(i)' = Holders(i)
    BY <1>1, <2>1 DEF Holders
  <2> QED BY <2>2, <2>3 DEF HoldersOf
<1>7. book' = Client!Bought(book, w, id)
  <2>1. Client!Bought(book, w, id) =
          [current |-> currentDrawId, status |-> StatusOf,
           holders |-> [HoldersOf EXCEPT ![id] = @ \union {w}],
           winner |-> WinnerOf, refunded |-> RefundedOf, closed |-> ClosedNow]
    BY BookFields DEF Client!Bought
  <2> QED BY <1>1, <1>4, <1>5, <1>6, <2>1, BookFields
<1>8. Client!MayBuy(book, w, id)
  <2>1. HoldersOf[id] = Holders(id) /\ w \notin Holders(id)
    BY <1>1 DEF HoldersOf, Holders, HasTicket
  <2>2. Cardinality(Holders(id)) < MaxParticipants
    BY <1>1 DEF BookInv, HoldersCounted, OpenForSale
  <2>3. StatusOf[id] = "ACTIVE" /\ id # 0
    BY <1>1 DEF OpenForSale, StatusOf, DrawIds
  <2>4. ~ClosedNow
    <3>1. draws[id].deadline \in Nat
      BY <1>1 DEF Draw
    <3> QED BY <1>1, <3>1 DEF OpenForSale, ClosedNow
  <2> QED BY <1>1, <2>1, <2>2, <2>3, <2>4, BookFields, SameCardinality DEF Client!MayBuy, Client!Open
<1>9. "buy" \in Client!Calls /\ book' \in Client!After(book, "buy", w, id) /\ id \in 0..MaxDraws
  BY <1>7, <1>8 DEF Client!Calls, Client!After, DrawIds
<1> QED BY <1>9, CallIsStep

LEMMA DrawIsCall ==
  ASSUME BookInv, NEW id \in DrawIds, CanPerformDraw(id),
         NEW d, draws' = [draws EXCEPT ![id] = d],
         d.status = IF draws[id].participantCount < MinimumParticipants
                    THEN "CANCELLED" ELSE "DRAWING",
         d.winner = draws[id].winner, d.deadline = draws[id].deadline,
         UNCHANGED <<now, currentDrawId, tickets>>
  PROVE  Client!Step(book, book')
<1> USE ConfigurationAssumption, EnvironmentAssumption
<1>1. /\ draws \in [DrawIds -> Draw] /\ currentDrawId \in 0..MaxDraws /\ id # 0
      /\ id = currentDrawId
  BY DEF BookInv, TInv, FullInv, IInv, TypeOK, CanPerformDraw, DrawIds
<1>2. /\ StatusOf' = [StatusOf EXCEPT ![id] = d.status]
      /\ WinnerOf' = WinnerOf /\ ClosedNow' = ClosedNow
  BY <1>1, RecordChanged DEF WinnerOf
<1>3. HoldersOf[id] = Holders(id) /\ Cardinality(Holders(id)) = draws[id].participantCount
  BY DEF HoldersOf, BookInv, HoldersCounted
<1>4. book' = Client!Drawn(book, id)
  <2>1. Client!Drawn(book, id) =
          [current |-> currentDrawId, status |-> [StatusOf EXCEPT ![id] = d.status],
           holders |-> HoldersOf, winner |-> WinnerOf, refunded |-> RefundedOf,
           closed |-> ClosedNow]
    <3>1. Client!Drawn(book, id) = Client!WithStatus(book, id, d.status)
      <4>1. Client!Cardinality(book.holders[id]) = draws[id].participantCount
        BY <1>3, BookFields, SameCardinality
      <4> QED BY <4>1 DEF Client!Drawn
    <3> QED BY <3>1, BookFields, StatusChanged
  <2> QED BY <1>1, <1>2, <2>1, BookFields, TicketsUnchanged
<1>5. Client!MayDraw(book, id)
  <2>1. /\ StatusOf[id] = "ACTIVE"
        /\ ClosedNow \/ draws[id].participantCount = MaxParticipants
    BY <1>1 DEF StatusOf, ClosedNow, CanPerformDraw
  <2> QED BY <1>1, <1>3, <2>1, BookFields, SameCardinality DEF Client!MayDraw
<1>6. PICK p \in Wallets : TRUE
  OBVIOUS
<1>7. "draw" \in Client!Calls /\ book' \in Client!After(book, "draw", p, id) /\ id \in 0..MaxDraws
  BY <1>4, <1>5 DEF Client!Calls, Client!After, DrawIds
<1> QED BY <1>7, CallIsStep

LEMMA SettleIsCall ==
  ASSUME BookInv, NEW r \in Requests, NEW word \in Words, SettleDraw(r, word)
  PROVE  Client!Step(book, book')
<1> DEFINE id     == requestDraw[r]
           lucky  == LuckyNumber(word)
           winner == TicketOwner(id, lucky)
           fee    == DaoFee(draws[id].pool)
<1> USE ConfigurationAssumption, EnvironmentAssumption
<1>1. /\ draws \in [DrawIds -> Draw] /\ currentDrawId \in 0..MaxDraws
      /\ id \in DrawIds /\ id # 0 /\ id \in 0..MaxDraws /\ draws[id].status = "DRAWING"
      /\ UNCHANGED <<now, currentDrawId, tickets>>
  BY DEF BookInv, TInv, FullInv, IInv, TypeOK, SettleDraw, AwaitsWord, DrawIds
<1>2. id <= currentDrawId
  BY <1>1 DEF BookInv, TInv, FullInv, IInv, OneLiveRound, BlankDraw, DrawIds
<1>3. StatusOf[id] = "DRAWING" /\ HoldersOf[id] = Holders(id)
  BY <1>1 DEF StatusOf, HoldersOf
<1>4. lucky \in 1..Numbers
  BY LuckyInRange
<1>5. winner = owners[id][lucky] /\ owners[id][lucky] \in Wallets \union {NoOne}
  BY <1>1, <1>4 DEF BookInv, TInv, FullInv, IInv, TypeOK, TicketOwner
<1>6. HoldersOf' = HoldersOf /\ RefundedOf' = RefundedOf
  BY <1>1, TicketsUnchanged
<1>7. Client!MayFinalize(book, id)
  BY <1>1, <1>2, <1>3, BookFields DEF Client!MayFinalize, Client!Started
<1>8. book' \in Client!Finalized(book, id)
  <2>1. CASE winner = NoOne
    <3> DEFINE d == [draws[id] EXCEPT !.status = "NO_WINNER", !.luckyNumber = lucky,
                                      !.winner = NoOne]
    <3>1. draws' = [draws EXCEPT ![id] = d]
      BY <1>1, <2>1 DEF SettleDraw
    <3>2. d.status = "NO_WINNER" /\ d.winner = draws[id].winner /\ d.deadline = draws[id].deadline
      BY <1>1 DEF Draw, BookInv, NoWinnerYet
    <3> HIDE DEF d, id
    <3>3. /\ StatusOf' = [StatusOf EXCEPT ![id] = "NO_WINNER"]
          /\ WinnerOf' = WinnerOf /\ ClosedNow' = ClosedNow
      <4>1. StatusOf' = [StatusOf EXCEPT ![id] = d.status] /\ ClosedNow' = ClosedNow
        BY <1>1, <3>1, <3>2, RecordChanged
      <4>2. WinnerOf' = WinnerOf
        BY <1>1, <3>1, <3>2, WinnerStays
      <4> QED BY <3>2, <4>1, <4>2
    <3>4. book' = Client!WithStatus(book, id, "NO_WINNER")
      BY <1>1, <1>6, <3>3, BookFields, StatusChanged
    <3> QED BY <3>4 DEF Client!Finalized
  <2>2. CASE winner # NoOne
    <3> DEFINE d == [draws[id] EXCEPT !.status = "WINNER_DECLARED", !.luckyNumber = lucky,
                       !.winner = winner, !.daoFee = fee, !.winnerPrize = draws[id].pool - fee]
    <3>1. draws' = [draws EXCEPT ![id] = d]
      BY <1>1, <2>2 DEF SettleDraw
    <3>2. d.status = "WINNER_DECLARED" /\ d.winner = winner /\ d.deadline = draws[id].deadline
      <4> HIDE DEF fee, lucky, winner
      <4> QED BY <1>1 DEF Draw
    <3>3. winner \in Holders(id)
      BY <1>1, <1>4, <1>5, <2>2 DEF BookInv, TInv, Board, Holders
    <3> HIDE DEF d, id, winner
    <3>4. /\ StatusOf' = [StatusOf EXCEPT ![id] = "WINNER_DECLARED"]
          /\ WinnerOf' = [WinnerOf EXCEPT ![id] = winner] /\ ClosedNow' = ClosedNow
      BY <1>1, <3>1, <3>2, RecordChanged
    <3> DEFINE drawn == Client!WithStatus(book, id, "WINNER_DECLARED")
    <3>5. drawn = [current |-> currentDrawId, status |-> StatusOf', holders |-> HoldersOf,
                   winner |-> WinnerOf, refunded |-> RefundedOf, closed |-> ClosedNow]
      BY <3>4, BookFields, StatusChanged
    <3> HIDE DEF drawn
    <3>6. [drawn EXCEPT !.winner[id] = winner] =
            [current |-> currentDrawId, status |-> StatusOf', holders |-> HoldersOf,
             winner |-> WinnerOf', refunded |-> RefundedOf, closed |-> ClosedNow]
      BY <3>4, <3>5
    <3>7. book' = [drawn EXCEPT !.winner[id] = winner]
      BY <1>1, <1>6, <3>4, <3>6, BookFields
    <3>8. winner \in book.holders[id]
      BY <1>3, <3>3, BookFields
    <3> QED BY <3>7, <3>8 DEF Client!Finalized, drawn
  <2> QED BY <2>1, <2>2
<1>9. PICK p \in Wallets : TRUE
  OBVIOUS
<1>10. "finalize" \in Client!Calls /\ book' \in Client!After(book, "finalize", p, id)
  BY <1>7, <1>8 DEF Client!Calls, Client!After
<1> QED BY <1>1, <1>10, CallIsStep

LEMMA PrizeIsCall ==
  ASSUME BookInv, NEW w \in Wallets, NEW id \in DrawIds, ClaimPrize(w, id)
  PROVE  Client!Step(book, book')
<1> DEFINE d == [draws[id] EXCEPT !.status = "COMPLETED"]
<1> USE EnvironmentAssumption
<1>1. /\ draws \in [DrawIds -> Draw] /\ currentDrawId \in 0..MaxDraws /\ id # 0
      /\ draws[id].status = "WINNER_DECLARED" /\ draws[id].winner = w
      /\ draws' = [draws EXCEPT ![id] = d]
      /\ UNCHANGED <<now, currentDrawId, tickets>>
  BY DEF BookInv, TInv, FullInv, IInv, TypeOK, ClaimPrize, OwedPrize, DrawIds
<1>2. id <= currentDrawId
  BY <1>1 DEF BookInv, TInv, FullInv, IInv, OneLiveRound, BlankDraw, DrawIds
<1>3. d.status = "COMPLETED" /\ d.winner = draws[id].winner /\ d.deadline = draws[id].deadline
  BY <1>1 DEF Draw
<1> HIDE DEF d
<1>4. /\ StatusOf' = [StatusOf EXCEPT ![id] = "COMPLETED"]
      /\ WinnerOf' = WinnerOf /\ ClosedNow' = ClosedNow
  <2>1. StatusOf' = [StatusOf EXCEPT ![id] = d.status] /\ ClosedNow' = ClosedNow
    BY <1>1, <1>3, RecordChanged
  <2>2. WinnerOf' = WinnerOf
    BY <1>1, <1>3, WinnerStays
  <2> QED BY <1>3, <2>1, <2>2
<1>5. book' = Client!PrizeTaken(book, id)
  BY <1>1, <1>4, BookFields, StatusChanged, TicketsUnchanged DEF Client!PrizeTaken
<1>6. Client!MayClaimPrize(book, w, id)
  <2>1. StatusOf[id] = "WINNER_DECLARED" /\ WinnerOf[id] = w
    BY <1>1 DEF StatusOf, WinnerOf
  <2> QED BY <1>1, <1>2, <2>1, BookFields DEF Client!MayClaimPrize, Client!Started, DrawIds
<1>7. "prize" \in Client!Calls /\ book' \in Client!After(book, "prize", w, id) /\ id \in 0..MaxDraws
  BY <1>5, <1>6 DEF Client!Calls, Client!After, DrawIds
<1> QED BY <1>7, CallIsStep

LEMMA RefundIsCall ==
  ASSUME BookInv, NEW w \in Wallets, NEW id \in DrawIds, ClaimRefund(w, id)
  PROVE  Client!Step(book, book')
<1> USE EnvironmentAssumption
<1>1. /\ draws \in [DrawIds -> Draw] /\ currentDrawId \in 0..MaxDraws /\ id # 0
      /\ refunded \in [DrawIds -> [Wallets -> BOOLEAN]]
      /\ draws[id].status = "CANCELLED" /\ ticketOf[id][w] # 0 /\ ~refunded[id][w]
      /\ refunded' = [refunded EXCEPT ![id][w] = TRUE]
      /\ UNCHANGED <<now, currentDrawId, draws, ticketOf>>
  BY DEF BookInv, TInv, FullInv, IInv, TypeOK, ClaimRefund, OwedRefund, DrawIds
<1>2. id <= currentDrawId
  BY <1>1 DEF BookInv, TInv, FullInv, IInv, OneLiveRound, BlankDraw, DrawIds
<1>3. StatusOf' = StatusOf /\ WinnerOf' = WinnerOf /\ ClosedNow' = ClosedNow /\ HoldersOf' = HoldersOf
  BY <1>1 DEF StatusOf, WinnerOf, ClosedNow, HoldersOf, Holders
<1>4. RefundedOf' = [RefundedOf EXCEPT ![id] = @ \union {w}]
  <2>1. {v \in Wallets : refunded'[id][v]} = {v \in Wallets : refunded[id][v]} \union {w}
    BY <1>1
  <2>2. \A i \in DrawIds : i # id => refunded'[i] = refunded[i]
    BY <1>1
  <2> QED BY <2>1, <2>2 DEF RefundedOf
<1>5. book' = Client!Refunded(book, w, id)
  <2>1. Client!Refunded(book, w, id) =
          [current |-> currentDrawId, status |-> StatusOf, holders |-> HoldersOf,
           winner |-> WinnerOf, refunded |-> [RefundedOf EXCEPT ![id] = @ \union {w}],
           closed |-> ClosedNow]
    BY BookFields DEF Client!Refunded
  <2> QED BY <1>1, <1>3, <1>4, <2>1, BookFields
<1>6. Client!MayClaimRefund(book, w, id)
  <2>1. StatusOf[id] = "CANCELLED" /\ w \in HoldersOf[id] /\ w \notin RefundedOf[id]
    BY <1>1 DEF StatusOf, HoldersOf, Holders, RefundedOf
  <2> QED BY <1>1, <1>2, <2>1, BookFields DEF Client!MayClaimRefund, Client!Started, DrawIds
<1>7. "refund" \in Client!Calls /\ book' \in Client!After(book, "refund", w, id) /\ id \in 0..MaxDraws
  BY <1>5, <1>6 DEF Client!Calls, Client!After, DrawIds
<1> QED BY <1>7, CallIsStep

\* Time changes nothing for a client but whether the live round is closed.
LEMMA TimeIsStep ==
  ASSUME BookInv, Tick
  PROVE  Client!Step(book, book') \/ book' = book
<1>1. /\ draws \in [DrawIds -> Draw] /\ currentDrawId \in 0..MaxDraws /\ now \in Nat
      /\ now' = now + 1 /\ UNCHANGED <<currentDrawId, draws, tickets>>
  BY DEF BookInv, TInv, FullInv, IInv, TypeOK, Tick
<1>2. StatusOf' = StatusOf /\ WinnerOf' = WinnerOf
  BY <1>1 DEF StatusOf, WinnerOf
<1>3. HoldersOf' = HoldersOf /\ RefundedOf' = RefundedOf
  BY <1>1, TicketsUnchanged
<1>4. CASE ClosedNow' = ClosedNow
  BY <1>1, <1>2, <1>3, <1>4, BookFields
<1>5. CASE ClosedNow' # ClosedNow
  <2>1. currentDrawId # 0 /\ ~ClosedNow /\ ClosedNow'
    <3>1. CASE currentDrawId = 0
      BY <1>1, <1>5, <3>1 DEF ClosedNow
    <3>2. CASE currentDrawId # 0
      <4>1. draws[currentDrawId].deadline \in Nat
        BY <1>1, <3>2, EnvironmentAssumption DEF DrawIds, Draw
      <4> QED BY <1>1, <1>5, <3>2, <4>1 DEF ClosedNow
    <3> QED BY <3>1, <3>2
  <2>2. ClosedNow' = TRUE
    BY <2>1 DEF ClosedNow
  <2>3. Client!Lapsed(book) = Client!WithClosed(book, ClosedNow')
    BY <2>2, Zenon DEF Client!Lapsed
  <2>4. Client!WithClosed(book, ClosedNow') =
          [current |-> currentDrawId, status |-> StatusOf, holders |-> HoldersOf,
           winner |-> WinnerOf, refunded |-> RefundedOf, closed |-> ClosedNow']
    BY BookFields, ClosedChanged
  <2>5. book' = Client!Lapsed(book)
    BY <1>1, <1>2, <1>3, <2>3, <2>4, BookFields
  <2>6. book.current # 0 /\ ~book.closed
    BY <2>1, BookFields
  <2> QED BY <2>5, <2>6 DEF Client!Step
<1> QED BY <1>4, <1>5

LEMMA EveryStepIsCall ==
  ASSUME BookInv, [Next]_vars
  PROVE  Client!Step(book, book') \/ book' = book
<1> USE ConfigurationAssumption
<1>1. ASSUME NEW id \in DrawIds, CancelDraw(id) PROVE Client!Step(book, book')
  <2> DEFINE d == [draws[id] EXCEPT !.status = "CANCELLED"]
  <2>1. /\ CanPerformDraw(id) /\ draws[id].participantCount < MinimumParticipants
        /\ draws' = [draws EXCEPT ![id] = d] /\ UNCHANGED <<now, currentDrawId, tickets>>
    BY <1>1 DEF CancelDraw
  <2>2. d.status = "CANCELLED" /\ d.winner = draws[id].winner /\ d.deadline = draws[id].deadline
    BY DEF BookInv, TInv, FullInv, IInv, TypeOK, Draw
  <2> HIDE DEF d
  <2> QED BY <2>1, <2>2, DrawIsCall
<1>2. ASSUME NEW id \in DrawIds, NEW r \in Requests, RequestDraw(id, r)
      PROVE  Client!Step(book, book')
  <2> DEFINE d == [draws[id] EXCEPT !.status = "DRAWING", !.requestId = r]
  <2>1. /\ CanPerformDraw(id) /\ draws[id].participantCount >= MinimumParticipants
        /\ UNCHANGED <<now, currentDrawId, tickets>>
    BY <1>2 DEF RequestDraw
  <2>2. /\ draws \in [DrawIds -> Draw] /\ draws[id].participantCount \in Nat
        /\ MinimumParticipants \in Nat
    BY DEF BookInv, TInv, FullInv, IInv, TypeOK, Draw
  <2>3. draws' = [draws EXCEPT ![id] = d]
    BY <1>2, <2>2 DEF RequestDraw
  <2>4. d.status = "DRAWING" /\ d.winner = draws[id].winner /\ d.deadline = draws[id].deadline
    BY <2>2 DEF Draw
  <2>5. ~(draws[id].participantCount < MinimumParticipants)
    BY <2>1, <2>2
  <2> HIDE DEF d
  <2> QED BY <2>1, <2>3, <2>4, <2>5, DrawIsCall
<1>3. ASSUME UNCHANGED vars PROVE book' = book
  BY <1>3 DEF vars, tickets, book
<1>4. ASSUME NEW r \in Requests, NEW word \in Words, FulfillRandomness(r, word)
      PROVE  Client!Step(book, book') \/ book' = book
  BY <1>3, <1>4, SettleIsCall DEF FulfillRandomness, IgnoreCallback
<1>5. ASSUME NEW id \in DrawIds, NEW word \in Words, FinalizeDraw(id, word)
      PROVE  Client!Step(book, book') \/ book' = book
  BY <1>4, <1>5, FinalizeIsCallback DEF BookInv, TInv, FullInv
<1>6. ASSUME Donate PROVE book' = book
  BY <1>6 DEF Donate, tickets, book
<1> QED
  BY <1>1, <1>2, <1>3, <1>4, <1>5, <1>6, StartIsCall, BuyIsCall, PrizeIsCall, RefundIsCall,
     TimeIsStep
  DEF Next

-----------------------------------------------------------------------------
(* Theorem                                                                 *)

\* The contract keeps every promise its clients rely on: whatever is called,
\* and whenever, they see an accepted call of Rounds, a deadline passing, or
\* nothing (DLottery.sol:107).
THEOREM ClientsSeeRounds == Spec => KeepsRounds
<1>1. Init => book = Client!EmptyBook
  <2> SUFFICES ASSUME Init PROVE book = Client!EmptyBook
    OBVIOUS
  <2>1. /\ StatusOf = [id \in DrawIds |-> "ACTIVE"] /\ WinnerOf = [id \in DrawIds |-> NoOne]
        /\ HoldersOf = [id \in DrawIds |-> {}] /\ RefundedOf = [id \in DrawIds |-> {}]
    BY DEF Init, BlankDraw, StatusOf, WinnerOf, HoldersOf, Holders, RefundedOf
  <2>2. ClosedNow = FALSE /\ currentDrawId = 0
    BY DEF Init, ClosedNow
  <2>3. book = [current |-> 0, status |-> [id \in DrawIds |-> "ACTIVE"],
                holders |-> [id \in DrawIds |-> {}], winner |-> [id \in DrawIds |-> NoOne],
                refunded |-> [id \in DrawIds |-> {}], closed |-> FALSE]
    BY <2>1, <2>2, BookFields, Zenon
  <2> QED BY <2>3, Zenon DEF Client!EmptyBook, Client!RoundIds, DrawIds
<1>2. BookInv /\ [Next]_vars =>
        [\E before \in {book}, after \in {book'} : Client!Step(before, after)]_book
  BY EveryStepIsCall
<1> QED BY <1>1, <1>2, BookInvariance, PTL DEF Spec, KeepsRounds

-----------------------------------------------------------------------------
(* The read model                                                          *)

ARow(status, deadline, count, number, winner, pool, inherited, rollover, fee, prize,
     claimed, paid, request, board) ==
  [ status |-> status, deadline |-> deadline, ticketPrice |-> TicketPrice,
    minimumParticipants |-> MinimumParticipants, participantCount |-> count,
    luckyNumber |-> number, winner |-> winner, pool |-> pool,
    inheritedRollover |-> inherited, rollover |-> rollover, daoFee |-> fee,
    winnerPrize |-> prize, prizeClaimed |-> claimed, daoFeePaid |-> paid,
    requestId |-> request, tickets |-> board ]

\* What the service shows of a claimed prize.
PrizeDone(d) == d.status = "COMPLETED"
FeePaid(d)  == IF d.status = "COMPLETED" THEN d.daoFee ELSE 0

\* The ticket with number n as the contract stores it.
RefundedAt(id, n) == owners[id][n] # NoOne /\ refunded[id][owners[id][n]]

BoardOf(id) ==
  [n \in 1..Numbers |-> [wallet |-> owners[id][n], refunded |-> RefundedAt(id, n)]]

RowOf(id) ==
  LET d == draws[id] IN
  ARow(d.status, d.deadline, d.participantCount, d.luckyNumber, d.winner, d.pool,
       d.inheritedRollover, LeftOver(id), d.daoFee, d.winnerPrize, PrizeDone(d), FeePaid(d),
       d.requestId, BoardOf(id))

Shown(id) == IF Opened(id) THEN RowOf(id) ELSE NoDraw

Mirror == readModel = [id \in DrawIds |-> Shown(id)]

\* No event was refused, the rows are those of the storage, and the claims are
\* the payments.
FeedInv == Mirror /\ claims = PaidPrizes \union PaidRefunds /\ stuck = FALSE

-----------------------------------------------------------------------------
(* Rows                                                                    *)

\* The updates that Apply writes in line.
Sold(row, k, w, count, pool) ==
  [row EXCEPT !.tickets[k].wallet = w, !.participantCount = count, !.pool = pool]
Asked(row, request) == [row EXCEPT !.status = "DRAWING", !.requestId = request]
Taken(row, claimed, fee) ==
  [row EXCEPT !.status = "COMPLETED", !.prizeClaimed = claimed, !.daoFeePaid = fee]

\* A board with ticket k refunded.
Marked(board, k) == [board EXCEPT ![k].refunded = TRUE]

\* The columns of a row.
LEMMA Columns ==
  ASSUME NEW s, NEW dl, NEW c, NEW n, NEW w, NEW p, NEW i, NEW r, NEW f, NEW z, NEW cl, NEW pd,
         NEW q, NEW b, NEW row, row = ARow(s, dl, c, n, w, p, i, r, f, z, cl, pd, q, b)
  PROVE  /\ row.status = s /\ row.deadline = dl /\ row.ticketPrice = TicketPrice
         /\ row.participantCount = c /\ row.luckyNumber = n /\ row.winner = w /\ row.pool = p
         /\ row.inheritedRollover = i /\ row.rollover = r /\ row.daoFee = f
         /\ row.winnerPrize = z /\ row.requestId = q /\ row.tickets = b
BY DEF ARow

\* Which update an event is, and when it is accepted.
LEMMA EventKinds ==
  ASSUME NEW d, NEW e
  PROVE  /\ e.name = "DrawStarted" =>
              (R!Accepts(d, e) <=> d = NoDraw) /\ R!Apply(d, e) = R!StartedDraw(e)
         /\ e.name = "TicketBought" =>
              /\ R!Accepts(d, e) <=> d # NoDraw /\ R!AcceptsTicket(d, e)
              /\ R!Apply(d, e) = Sold(d, e.ticketNumber, e.buyer, e.participantCount, e.pool)
         /\ e.name = "RandomnessRequested" =>
              /\ R!Accepts(d, e) <=> d # NoDraw /\ d.status = "ACTIVE"
              /\ R!Apply(d, e) = Asked(d, e.requestId)
         /\ e.name = "LotteryDrawn" =>
              /\ R!Accepts(d, e) <=> d # NoDraw /\ d.status = "DRAWING" /\ e.luckyNumber \in R!Board
              /\ R!Apply(d, e) = R!DrawnDraw(d, e)
         /\ e.name = "DrawCancelled" =>
              /\ R!Accepts(d, e) <=> d # NoDraw /\ d.status = "ACTIVE"
              /\ R!Apply(d, e) = R!CancelledDraw(d, e)
         /\ e.name = "PrizeClaimed" =>
              /\ R!Accepts(d, e) <=> d # NoDraw /\ R!AcceptsPrizeClaim(d, e)
              /\ R!Apply(d, e) = Taken(d, TRUE, e.daoFee)
         /\ e.name = "RefundClaimed" =>
              /\ R!Accepts(d, e) <=> d # NoDraw /\ R!AcceptsRefund(d, e)
              /\ R!Apply(d, e) = R!RefundedDraw(d, e)
BY DEF R!Accepts, R!Apply, Sold, Asked, Taken

LEMMA BoughtRow ==
  ASSUME NEW s, NEW dl, NEW c, NEW n, NEW w, NEW p, NEW i, NEW r, NEW f, NEW z, NEW cl, NEW pd,
         NEW q, NEW b, NEW row, row = ARow(s, dl, c, n, w, p, i, r, f, z, cl, pd, q, b),
         NEW k, NEW v, NEW c2, NEW p2
  PROVE  Sold(row, k, v, c2, p2) =
           ARow(s, dl, c2, n, w, p2, i, r, f, z, cl, pd, q, [b EXCEPT ![k].wallet = v])
<1> DEFINE b2 == [b EXCEPT ![k].wallet = v]
           y1 == [row EXCEPT !.tickets = b2]
           y2 == [y1 EXCEPT !.participantCount = c2]
<1>1. row.tickets = b
  BY Columns
<1>2. Sold(row, k, v, c2, p2) = [y2 EXCEPT !.pool = p2]
  BY <1>1 DEF Sold
<1> HIDE DEF b2
<1>3. y1 = ARow(s, dl, c, n, w, p, i, r, f, z, cl, pd, q, b2)
  BY DEF ARow
<1> HIDE DEF y1
<1>4. y2 = ARow(s, dl, c2, n, w, p, i, r, f, z, cl, pd, q, b2)
  BY <1>3 DEF ARow
<1> HIDE DEF y2
<1>5. [y2 EXCEPT !.pool = p2] = ARow(s, dl, c2, n, w, p2, i, r, f, z, cl, pd, q, b2)
  BY <1>4 DEF ARow
<1> QED BY <1>2, <1>5 DEF b2

LEMMA RequestedRow ==
  ASSUME NEW s, NEW dl, NEW c, NEW n, NEW w, NEW p, NEW i, NEW r, NEW f, NEW z, NEW cl, NEW pd,
         NEW q, NEW b, NEW row, row = ARow(s, dl, c, n, w, p, i, r, f, z, cl, pd, q, b),
         NEW q2
  PROVE  Asked(row, q2) =
           ARow("DRAWING", dl, c, n, w, p, i, r, f, z, cl, pd, q2, b)
<1> DEFINE y1 == [row EXCEPT !.status = "DRAWING"]
<1>1. Asked(row, q2) = [y1 EXCEPT !.requestId = q2]
  BY DEF Asked
<1>2. y1 = ARow("DRAWING", dl, c, n, w, p, i, r, f, z, cl, pd, q, b)
  BY DEF ARow
<1> HIDE DEF y1
<1> QED BY <1>1, <1>2 DEF ARow

LEMMA CancelledRow ==
  ASSUME NEW s, NEW dl, NEW c, NEW n, NEW w, NEW p, NEW i, NEW r, NEW f, NEW z, NEW cl, NEW pd,
         NEW q, NEW b, NEW row, row = ARow(s, dl, c, n, w, p, i, r, f, z, cl, pd, q, b),
         NEW e
  PROVE  R!CancelledDraw(row, e) =
           ARow("CANCELLED", dl, c, n, w, p, i, e.rollover, f, z, cl, pd, q, b)
<1> DEFINE y1 == [row EXCEPT !.status = "CANCELLED"]
<1>1. R!CancelledDraw(row, e) = [y1 EXCEPT !.rollover = e.rollover]
  BY DEF R!CancelledDraw
<1>2. y1 = ARow("CANCELLED", dl, c, n, w, p, i, r, f, z, cl, pd, q, b)
  BY DEF ARow
<1> HIDE DEF y1
<1> QED BY <1>1, <1>2 DEF ARow

LEMMA ClaimedRow ==
  ASSUME NEW s, NEW dl, NEW c, NEW n, NEW w, NEW p, NEW i, NEW r, NEW f, NEW z, NEW cl, NEW pd,
         NEW q, NEW b, NEW row, row = ARow(s, dl, c, n, w, p, i, r, f, z, cl, pd, q, b),
         NEW cl2, NEW pd2
  PROVE  Taken(row, cl2, pd2) = ARow("COMPLETED", dl, c, n, w, p, i, r, f, z, cl2, pd2, q, b)
<1> DEFINE y1 == [row EXCEPT !.status = "COMPLETED"]
           y2 == [y1 EXCEPT !.prizeClaimed = cl2]
<1>1. Taken(row, cl2, pd2) = [y2 EXCEPT !.daoFeePaid = pd2]
  BY DEF Taken
<1>2. y1 = ARow("COMPLETED", dl, c, n, w, p, i, r, f, z, cl, pd, q, b)
  BY DEF ARow
<1> HIDE DEF y1
<1>3. y2 = ARow("COMPLETED", dl, c, n, w, p, i, r, f, z, cl2, pd, q, b)
  BY <1>2 DEF ARow
<1> HIDE DEF y2
<1> QED BY <1>1, <1>3 DEF ARow

LEMMA DrawnRow ==
  ASSUME NEW s, NEW dl, NEW c, NEW n, NEW w, NEW p, NEW i, NEW r, NEW f, NEW z, NEW cl, NEW pd,
         NEW q, NEW b, NEW row, row = ARow(s, dl, c, n, w, p, i, r, f, z, cl, pd, q, b),
         NEW e, NEW s2, s2 = IF e.winner = NoOne THEN "NO_WINNER" ELSE "WINNER_DECLARED"
  PROVE  R!DrawnDraw(row, e) =
           ARow(s2, dl, c, e.luckyNumber, e.winner, e.pool, i, e.rollover, e.daoFee,
                e.winnerPrize, cl, pd, q, b)
<1> DEFINE y1 == [row EXCEPT !.status = s2]
           y2 == [y1 EXCEPT !.luckyNumber = e.luckyNumber]
           y3 == [y2 EXCEPT !.winner = e.winner]
           y4 == [y3 EXCEPT !.pool = e.pool]
           y5 == [y4 EXCEPT !.daoFee = e.daoFee]
           y6 == [y5 EXCEPT !.winnerPrize = e.winnerPrize]
<1>1. R!DrawnDraw(row, e) = [y6 EXCEPT !.rollover = e.rollover]
  BY DEF R!DrawnDraw
<1>2. y1 = ARow(s2, dl, c, n, w, p, i, r, f, z, cl, pd, q, b)
  BY DEF ARow
<1> HIDE DEF y1
<1>3. y2 = ARow(s2, dl, c, e.luckyNumber, w, p, i, r, f, z, cl, pd, q, b)
  BY <1>2 DEF ARow
<1> HIDE DEF y2
<1>4. y3 = ARow(s2, dl, c, e.luckyNumber, e.winner, p, i, r, f, z, cl, pd, q, b)
  BY <1>3 DEF ARow
<1> HIDE DEF y3
<1>5. y4 = ARow(s2, dl, c, e.luckyNumber, e.winner, e.pool, i, r, f, z, cl, pd, q, b)
  BY <1>4 DEF ARow
<1> HIDE DEF y4
<1>6. y5 = ARow(s2, dl, c, e.luckyNumber, e.winner, e.pool, i, r, e.daoFee, z, cl, pd, q, b)
  BY <1>5 DEF ARow
<1> HIDE DEF y5
<1>7. y6 = ARow(s2, dl, c, e.luckyNumber, e.winner, e.pool, i, r, e.daoFee, e.winnerPrize, cl, pd,
                q, b)
  BY <1>6 DEF ARow
<1> HIDE DEF y6
<1> QED BY <1>1, <1>7 DEF ARow

LEMMA RefundedRow ==
  ASSUME NEW s, NEW dl, NEW c, NEW n, NEW w, NEW p, NEW i, NEW r, NEW f, NEW z, NEW cl, NEW pd,
         NEW q, NEW b, NEW row, row = ARow(s, dl, c, n, w, p, i, r, f, z, cl, pd, q, b),
         NEW e, NEW k, k \in Nat, R!RefundableTickets(row, e) = {k}
  PROVE  R!RefundedDraw(row, e) =
           ARow(s, dl, c, n, w, p, i, r, f, z, cl, pd, q, Marked(b, k))
<1> DEFINE first == CHOOSE m \in R!RefundableTickets(row, e) :
                      \A o \in R!RefundableTickets(row, e) : m <= o
           b2 == [b EXCEPT ![k].refunded = TRUE]
<1>0. R!RefundableTickets(row, e) = {k}
  OBVIOUS
<1>1. first = k
  <2> DEFINE only == R!RefundableTickets(row, e)
  <2>1. only = {k}
    OBVIOUS
  <2> HIDE DEF only
  <2>2. \A m : (m \in only /\ \A o \in only : m <= o) <=> m = k
    BY <2>1
  <2>3. (CHOOSE m : m \in only /\ \A o \in only : m <= o) = k
    BY <2>2, Zenon
  <2> QED BY <2>3 DEF only
<1>2. R!RefundedDraw(row, e) = [row EXCEPT !.tickets[k].refunded = TRUE]
  BY <1>1 DEF R!RefundedDraw
<1>3. row.tickets = b
  BY Columns
<1>4. [row EXCEPT !.tickets[k].refunded = TRUE] = [row EXCEPT !.tickets = b2]
  BY <1>3
<1> HIDE DEF b2
<1>5. [row EXCEPT !.tickets = b2] = ARow(s, dl, c, n, w, p, i, r, f, z, cl, pd, q, b2)
  BY DEF ARow
<1> QED BY <1>2, <1>4, <1>5 DEF b2, Marked

-----------------------------------------------------------------------------
(* What is known before a step                                             *)

LEMMA Facts ==
  ASSUME OwedInv
  PROVE  /\ FullInv /\ Board /\ OneLiveRound /\ RefundsOfCancelled
         /\ currentDrawId \in 0..MaxDraws
         /\ draws \in [DrawIds -> Draw]
         /\ owners \in [DrawIds -> [1..Numbers -> Wallets \union {NoOne}]]
         /\ ticketOf \in [DrawIds -> [Wallets -> 0..MaxParticipants]]
         /\ refunded \in [DrawIds -> [Wallets -> BOOLEAN]]
BY DEF OwedInv, BookInv, TInv, FullInv, IInv, TypeOK

\* A stored round makes a row, and a row is not the absence of one.
LEMMA RowIsARow ==
  ASSUME OwedInv, NEW id \in DrawIds
  PROVE  RowOf(id) # NoDraw
<1> DEFINE d == draws[id]
<1>1. d \in Draw
  BY Facts
<1>2. LeftOver(id) \in Nat
  BY <1>1 DEF LeftOver, Draw
<1>3. PrizeDone(d) \in BOOLEAN /\ FeePaid(d) \in Nat
  BY <1>1 DEF PrizeDone, FeePaid, Draw
<1>4. BoardOf(id) \in [1..Numbers -> [wallet : Wallets \union {NoOne}, refunded : BOOLEAN]]
  <2> SUFFICES ASSUME NEW n \in 1..Numbers
               PROVE  owners[id][n] \in Wallets \union {NoOne} /\ RefundedAt(id, n) \in BOOLEAN
    BY DEF BoardOf
  <2>1. owners[id][n] \in Wallets \union {NoOne}
    <3>1. owners \in [DrawIds -> [1..Numbers -> Wallets \union {NoOne}]]
      BY Facts
    <3>2. owners[id] \in [1..Numbers -> Wallets \union {NoOne}]
      BY <3>1
    <3> QED BY <3>2
  <2>2. RefundedAt(id, n) \in BOOLEAN
    BY Zenon DEF RefundedAt
  <2> QED BY <2>1, <2>2
<1> DEFINE left == LeftOver(id)
           cl   == PrizeDone(d)
           fee  == FeePaid(d)
           b    == BoardOf(id)
<1> HIDE DEF left, cl, fee, b
<1>5. ARow(d.status, d.deadline, d.participantCount, d.luckyNumber, d.winner, d.pool,
           d.inheritedRollover, left, d.daoFee, d.winnerPrize, cl, fee, d.requestId, b) \in Row
  <2>1. TicketPrice \in Nat /\ MinimumParticipants \in Nat /\ MaxParticipants \in Nat
    BY ConfigurationAssumption
  <2>2. left \in Nat /\ cl \in BOOLEAN /\ fee \in Nat
    BY <1>2, <1>3 DEF left, cl, fee
  <2>3. b \in [1..Numbers -> [wallet : Wallets \union {NoOne}, refunded : BOOLEAN]]
    BY <1>4 DEF b
  <2>4. /\ d.status \in Live \union Settled /\ d.deadline \in Nat /\ d.participantCount \in Nat
        /\ d.luckyNumber \in 0..Numbers /\ d.winner \in Wallets \union {NoOne} /\ d.pool \in Nat
        /\ d.inheritedRollover \in Nat /\ d.daoFee \in Nat /\ d.winnerPrize \in Nat
        /\ d.requestId \in Requests \union {NoRequest}
    BY <1>1, <2>1 DEF Draw
  <2> QED BY <2>1, <2>2, <2>3, <2>4 DEF ARow, Row
<1> QED BY <1>5, FeedAssumption DEF RowOf, left, cl, fee, b

\* The row of a round, before and after a step.
LEMMA RowColumns ==
  ASSUME NEW id
  PROVE  /\ RowOf(id) = ARow(draws[id].status, draws[id].deadline, draws[id].participantCount,
                             draws[id].luckyNumber, draws[id].winner, draws[id].pool,
                             draws[id].inheritedRollover, LeftOver(id), draws[id].daoFee,
                             draws[id].winnerPrize, PrizeDone(draws[id]), FeePaid(draws[id]),
                             draws[id].requestId, BoardOf(id))
         /\ RowOf(id)' = ARow(draws'[id].status, draws'[id].deadline, draws'[id].participantCount,
                              draws'[id].luckyNumber, draws'[id].winner, draws'[id].pool,
                              draws'[id].inheritedRollover, LeftOver(id)', draws'[id].daoFee,
                              draws'[id].winnerPrize, PrizeDone(draws'[id]), FeePaid(draws'[id]),
                              draws'[id].requestId, BoardOf(id)')
BY DEF RowOf, PrizeDone, FeePaid, ARow

LEMMA OtherRound ==
  ASSUME NEW id, draws'[id] = draws[id], owners'[id] = owners[id], refunded'[id] = refunded[id],
         (id <= currentDrawId') <=> (id <= currentDrawId)
  PROVE  Shown(id)' = Shown(id)
<1>1. BoardOf(id)' = BoardOf(id)
  BY DEF BoardOf, RefundedAt
<1>2. LeftOver(id)' = LeftOver(id)
  BY DEF LeftOver
<1>3. RowOf(id)' = RowOf(id)
  BY <1>1, <1>2, RowColumns
<1> QED BY <1>3 DEF Shown, Opened

LEMMA Mirrored ==
  ASSUME Mirror, NEW id \in DrawIds, NEW row, readModel' = [readModel EXCEPT ![id] = row],
         id <= currentDrawId', row = RowOf(id)',
         \A j \in DrawIds : j # id => Shown(j)' = Shown(j)
  PROVE  Mirror'
<1>1. readModel' = [j \in DrawIds |-> IF j = id THEN row ELSE Shown(j)]
  BY DEF Mirror
<1>2. ASSUME NEW j \in DrawIds PROVE (IF j = id THEN row ELSE Shown(j)) = Shown(j)'
  BY <1>2 DEF Shown, Opened
<1> QED BY <1>1, <1>2 DEF Mirror

\* What an accepted event does.
LEMMA Accepted ==
  ASSUME stuck = FALSE, NEW e, R!Accepts(readModel[e.drawId], e), Claimed(e) => NewClaim(e),
         Project(e)
  PROVE  /\ readModel' = [readModel EXCEPT ![e.drawId] = R!Apply(readModel[e.drawId], e)]
         /\ claims' = IF Claimed(e) THEN claims \union {ClaimRow(e)} ELSE claims
         /\ stuck' = FALSE
BY DEF Project

\* A step that completes no round and marks no refund makes no payment.
LEMMA SamePayments ==
  ASSUME FullInv, [Next]_vars, refunded' = refunded,
         \A id \in DrawIds : draws'[id].status = "COMPLETED" => draws[id].status = "COMPLETED"
  PROVE  PaidPrizes' = PaidPrizes /\ PaidRefunds' = PaidRefunds
<1>1. \A id \in DrawIds : draws[id].status = "COMPLETED" => draws'[id] = draws[id]
  BY CompletedStays
<1>2. {i \in DrawIds : draws'[i].status = "COMPLETED"} = {i \in DrawIds : draws[i].status = "COMPLETED"}
  BY <1>1
<1>3. PaidPrizes' = PaidPrizes
  BY <1>1, <1>2 DEF PaidPrizes
<1> QED BY <1>3 DEF PaidRefunds

-----------------------------------------------------------------------------
(* One step for each event                                                 *)

LEMMA FeedStartDrawInv ==
  ASSUME OwedInv, FeedInv, [Next]_vars, FeedStartDraw
  PROVE  FeedInv'
<1>1. StartDraw(currentDrawId)
  BY DEF FeedStartDraw
<1>2. PICK id \in DrawIds : id = currentDrawId + 1
  BY <1>1, Facts, EnvironmentAssumption DEF StartDraw, DrawIds
<1>3. /\ draws[id] = BlankDraw /\ draws \in [DrawIds -> Draw]
      /\ \A k \in 1..Numbers : owners[id][k] = NoOne
  <2>1. draws[id] = BlankDraw
    BY <1>2, Facts DEF OneLiveRound
  <2>2. \A k \in 1..Numbers : owners[id][k] # NoOne <=> k <= 0
    BY <2>1, Facts DEF Board, BlankDraw
  <2> QED BY <2>1, <2>2, Facts
<1>4. /\ draws' = [draws EXCEPT ![id].deadline = now + Duration,
                                ![id].inheritedRollover = pendingRollover,
                                ![id].pool = pendingRollover]
      /\ owners' = owners /\ refunded' = refunded /\ currentDrawId' = id
  BY <1>1, <1>2 DEF StartDraw, tickets
<1> DEFINE dl == now + Duration
<1> HIDE DEF dl
<1>5. draws'[id] = [BlankDraw EXCEPT !.deadline = dl, !.inheritedRollover = pendingRollover,
                                     !.pool = pendingRollover]
  BY <1>3, <1>4 DEF dl
<1>6. /\ draws'[id].status = "ACTIVE" /\ draws'[id].deadline = dl
      /\ draws'[id].participantCount = 0 /\ draws'[id].luckyNumber = 0
      /\ draws'[id].winner = NoOne /\ draws'[id].pool = pendingRollover
      /\ draws'[id].inheritedRollover = pendingRollover /\ draws'[id].daoFee = 0
      /\ draws'[id].winnerPrize = 0 /\ draws'[id].requestId = NoRequest
  BY <1>5 DEF BlankDraw
<1>7. PICK e : e = [name |-> "DrawStarted", drawId |-> id, deadline |-> draws'[id].deadline,
                    ticketPrice |-> TicketPrice, minimumParticipants |-> MinimumParticipants,
                    inheritedRollover |-> draws'[id].inheritedRollover]
  OBVIOUS
<1>8. Project(e)
  BY <1>2, <1>7 DEF FeedStartDraw
<1>9. readModel[id] = NoDraw
  BY <1>2, Facts DEF FeedInv, Mirror, Shown, Opened
<1>10. /\ e.drawId = id /\ e.name = "DrawStarted" /\ e.deadline = dl
       /\ e.ticketPrice = TicketPrice /\ e.minimumParticipants = MinimumParticipants
       /\ e.inheritedRollover = pendingRollover /\ ~Claimed(e)
  BY <1>6, <1>7 DEF Claimed
<1>11. /\ readModel' = [readModel EXCEPT ![id] = R!StartedDraw(e)]
       /\ claims' = claims /\ stuck' = FALSE
  <2>1. R!Accepts(readModel[id], e) /\ R!Apply(readModel[id], e) = R!StartedDraw(e)
    BY <1>9, <1>10, EventKinds
  <2> QED BY <1>8, <1>10, <2>1, Accepted DEF FeedInv
<1>12. BoardOf(id)' = [n \in R!Board |-> [wallet |-> NoOne, refunded |-> FALSE]]
  <2>1. ASSUME NEW n \in 1..Numbers PROVE owners'[id][n] = NoOne /\ RefundedAt(id, n)' = FALSE
    BY <1>3, <1>4, <2>1 DEF RefundedAt
  <2> QED BY <2>1, Zenon DEF BoardOf, R!Board
<1>13. LeftOver(id)' = 0 /\ PrizeDone(draws'[id]) = FALSE /\ FeePaid(draws'[id]) = 0
  BY <1>6 DEF LeftOver, PrizeDone, FeePaid
<1>14. R!StartedDraw(e) = RowOf(id)'
  <2> DEFINE b == [n \in R!Board |-> [wallet |-> NoOne, refunded |-> FALSE]]
             f == FALSE
  <2> HIDE DEF b, f
  <2>1. R!StartedDraw(e) = ARow("ACTIVE", dl, 0, 0, NoOne, pendingRollover, pendingRollover, 0,
                                0, 0, f, 0, NoRequest, b)
    BY <1>10, Zenon DEF R!StartedDraw, ARow, b, f
  <2> QED BY <1>6, <1>12, <1>13, <2>1, RowColumns DEF b, f
<1>15. \A j \in DrawIds : j # id => Shown(j)' = Shown(j)
  <2> SUFFICES ASSUME NEW j \in DrawIds, j # id PROVE Shown(j)' = Shown(j)
    OBVIOUS
  <2>1. draws'[j] = draws[j] /\ ((j <= currentDrawId') <=> (j <= currentDrawId))
    BY <1>2, <1>3, <1>4, Facts DEF DrawIds
  <2> QED BY <1>4, <2>1, OtherRound
<1>16. Mirror'
  <2>1. Mirror /\ id <= currentDrawId'
    BY <1>4 DEF FeedInv, DrawIds
  <2>2. readModel' = [readModel EXCEPT ![id] = R!StartedDraw(e)]
    BY <1>11
  <2> QED BY <1>14, <1>15, <2>1, <2>2, Mirrored
<1>17. PaidPrizes' = PaidPrizes /\ PaidRefunds' = PaidRefunds
  <2>1. \A j \in DrawIds : draws'[j].status = draws[j].status
    BY <1>3, <1>4 DEF Draw
  <2> QED BY <1>4, <2>1, Facts, SamePayments
<1> QED BY <1>11, <1>16, <1>17 DEF FeedInv

LEMMA OpenedRound ==
  ASSUME OwedInv, NEW id \in DrawIds, draws[id].status # "ACTIVE" \/ id = currentDrawId
  PROVE  id <= currentDrawId
<1>1. id > currentDrawId => draws[id] = BlankDraw
  BY Facts DEF OneLiveRound
<1>2. id \in Nat /\ currentDrawId \in Nat
  BY Facts DEF DrawIds
<1> QED BY <1>1, <1>2 DEF BlankDraw

\* An event of an opened round, which changes that round only.
LEMMA EventMirrored ==
  ASSUME OwedInv, FeedInv, NEW e, NEW id \in DrawIds, id <= currentDrawId,
         currentDrawId' = currentDrawId, e.drawId = id, Project(e),
         RowOf(id) # NoDraw => R!Accepts(RowOf(id), e), Claimed(e) => NewClaim(e),
         R!Apply(RowOf(id), e) = RowOf(id)',
         \A j \in DrawIds : j # id => /\ draws'[j] = draws[j] /\ owners'[j] = owners[j]
                                     /\ refunded'[j] = refunded[j]
  PROVE  /\ Mirror' /\ stuck' = FALSE
         /\ claims' = IF Claimed(e) THEN claims \union {ClaimRow(e)} ELSE claims
<1>1. readModel[id] = RowOf(id)
  BY DEF FeedInv, Mirror, Shown, Opened
<1>2. R!Accepts(readModel[e.drawId], e)
  BY <1>1, RowIsARow
<1>3. stuck = FALSE
  BY DEF FeedInv
<1>4. /\ readModel' = [readModel EXCEPT ![id] = R!Apply(RowOf(id), e)]
      /\ claims' = IF Claimed(e) THEN claims \union {ClaimRow(e)} ELSE claims
      /\ stuck' = FALSE
  BY <1>1, <1>2, <1>3, Accepted
<1>5. \A j \in DrawIds : j # id => Shown(j)' = Shown(j)
  BY OtherRound
<1>6. Mirror /\ id <= currentDrawId'
  BY DEF FeedInv
<1>7. readModel' = [readModel EXCEPT ![id] = RowOf(id)']
  BY <1>4
<1>8. Mirror'
  BY <1>5, <1>6, <1>7, Mirrored
<1> QED BY <1>4, <1>8

\* Events that pay nobody keep the claims.
LEMMA NoClaim ==
  ASSUME OwedInv, FeedInv, [Next]_vars, refunded' = refunded, Mirror', stuck' = FALSE,
         claims' = claims,
         \A id \in DrawIds : draws'[id].status = "COMPLETED" => draws[id].status = "COMPLETED"
  PROVE  FeedInv'
<1>1. PaidPrizes' = PaidPrizes /\ PaidRefunds' = PaidRefunds
  BY Facts, SamePayments
<1> QED BY <1>1 DEF FeedInv

LEMMA FeedCancelDrawInv ==
  ASSUME OwedInv, FeedInv, [Next]_vars, NEW id \in DrawIds, FeedCancelDraw(id)
  PROVE  FeedInv'
<1>1. /\ CancelDraw(id) /\ draws[id] \in Draw /\ draws \in [DrawIds -> Draw]
      /\ draws[id].status = "ACTIVE" /\ id = currentDrawId
  BY Facts DEF FeedCancelDraw, CancelDraw, CanPerformDraw
<1>2. /\ draws' = [draws EXCEPT ![id].status = "CANCELLED"]
      /\ owners' = owners /\ refunded' = refunded /\ currentDrawId' = currentDrawId
  BY <1>1 DEF CancelDraw, tickets
<1>3. /\ draws'[id].status = "CANCELLED" /\ draws'[id].deadline = draws[id].deadline
      /\ draws'[id].participantCount = draws[id].participantCount
      /\ draws'[id].luckyNumber = draws[id].luckyNumber /\ draws'[id].winner = draws[id].winner
      /\ draws'[id].pool = draws[id].pool
      /\ draws'[id].inheritedRollover = draws[id].inheritedRollover
      /\ draws'[id].daoFee = draws[id].daoFee /\ draws'[id].winnerPrize = draws[id].winnerPrize
      /\ draws'[id].requestId = draws[id].requestId
  BY <1>1, <1>2 DEF Draw
<1>4. PICK e : e = [name |-> "DrawCancelled", drawId |-> id, rollover |-> CarriedOver(id)]
  OBVIOUS
<1>5. Project(e)
  BY <1>4 DEF FeedCancelDraw
<1>6. /\ e.drawId = id /\ e.name = "DrawCancelled" /\ ~Claimed(e)
      /\ e.rollover = draws[id].inheritedRollover
  BY <1>4 DEF Claimed, CarriedOver
<1>7. /\ BoardOf(id)' = BoardOf(id) /\ LeftOver(id)' = draws[id].inheritedRollover
      /\ PrizeDone(draws'[id]) = PrizeDone(draws[id]) /\ FeePaid(draws'[id]) = FeePaid(draws[id])
  BY <1>1, <1>2, <1>3 DEF BoardOf, RefundedAt, LeftOver, PrizeDone, FeePaid
<1>8. R!CancelledDraw(RowOf(id), e) = RowOf(id)'
  BY <1>3, <1>6, <1>7, RowColumns, CancelledRow
<1>9. RowOf(id).status = "ACTIVE"
  BY <1>1, RowColumns, Columns
<1>10. /\ R!Apply(RowOf(id), e) = RowOf(id)'
       /\ RowOf(id) # NoDraw => R!Accepts(RowOf(id), e)
  BY <1>6, <1>8, <1>9, EventKinds
<1>11. \A j \in DrawIds : j # id => /\ draws'[j] = draws[j] /\ owners'[j] = owners[j]
                                    /\ refunded'[j] = refunded[j]
  BY <1>1, <1>2
<1>12. id <= currentDrawId
  BY <1>1, OpenedRound
<1>13. Mirror' /\ stuck' = FALSE /\ claims' = claims
  BY <1>2, <1>5, <1>6, <1>10, <1>11, <1>12, EventMirrored
<1>14. \A j \in DrawIds : draws'[j].status = "COMPLETED" => draws[j].status = "COMPLETED"
  BY <1>3, <1>11
<1> QED BY <1>2, <1>13, <1>14, NoClaim

LEMMA FeedRequestDrawInv ==
  ASSUME OwedInv, FeedInv, [Next]_vars, NEW id \in DrawIds, NEW r \in Requests,
         FeedRequestDraw(id, r)
  PROVE  FeedInv'
<1>1. /\ RequestDraw(id, r) /\ draws[id] \in Draw /\ draws \in [DrawIds -> Draw]
      /\ draws[id].status = "ACTIVE" /\ id = currentDrawId
  BY Facts DEF FeedRequestDraw, RequestDraw, CanPerformDraw
<1>2. /\ draws' = [draws EXCEPT ![id].status = "DRAWING", ![id].requestId = r]
      /\ owners' = owners /\ refunded' = refunded /\ currentDrawId' = currentDrawId
  BY <1>1 DEF RequestDraw, tickets
<1>3. /\ draws'[id].status = "DRAWING" /\ draws'[id].deadline = draws[id].deadline
      /\ draws'[id].participantCount = draws[id].participantCount
      /\ draws'[id].luckyNumber = draws[id].luckyNumber /\ draws'[id].winner = draws[id].winner
      /\ draws'[id].pool = draws[id].pool
      /\ draws'[id].inheritedRollover = draws[id].inheritedRollover
      /\ draws'[id].daoFee = draws[id].daoFee /\ draws'[id].winnerPrize = draws[id].winnerPrize
      /\ draws'[id].requestId = r
  BY <1>1, <1>2 DEF Draw
<1>4. PICK e : e = [name |-> "RandomnessRequested", drawId |-> id, requestId |-> r]
  OBVIOUS
<1>5. Project(e)
  BY <1>4 DEF FeedRequestDraw
<1>6. e.drawId = id /\ e.name = "RandomnessRequested" /\ ~Claimed(e) /\ e.requestId = r
  BY <1>4 DEF Claimed
<1>7. /\ BoardOf(id)' = BoardOf(id) /\ LeftOver(id)' = LeftOver(id)
      /\ PrizeDone(draws'[id]) = PrizeDone(draws[id]) /\ FeePaid(draws'[id]) = FeePaid(draws[id])
  BY <1>1, <1>2, <1>3 DEF BoardOf, RefundedAt, LeftOver, PrizeDone, FeePaid
<1>8. Asked(RowOf(id), e.requestId) = RowOf(id)'
  BY <1>3, <1>6, <1>7, RowColumns, RequestedRow
<1>9. RowOf(id).status = "ACTIVE"
  BY <1>1, RowColumns, Columns
<1>10. /\ R!Apply(RowOf(id), e) = RowOf(id)'
       /\ RowOf(id) # NoDraw => R!Accepts(RowOf(id), e)
  BY <1>6, <1>8, <1>9, EventKinds
<1>11. \A j \in DrawIds : j # id => /\ draws'[j] = draws[j] /\ owners'[j] = owners[j]
                                    /\ refunded'[j] = refunded[j]
  BY <1>1, <1>2
<1>12. id <= currentDrawId
  BY <1>1, OpenedRound
<1>13. Mirror' /\ stuck' = FALSE /\ claims' = claims
  BY <1>2, <1>5, <1>6, <1>10, <1>11, <1>12, EventMirrored
<1>14. \A j \in DrawIds : draws'[j].status = "COMPLETED" => draws[j].status = "COMPLETED"
  BY <1>3, <1>11
<1> QED BY <1>2, <1>13, <1>14, NoClaim

\* A ticket of an open round: its number is free and the wallet has no other.
LEMMA FreeNumber ==
  ASSUME OwedInv, NEW w \in Wallets, NEW id \in DrawIds, NEW received, BuyTicket(w, id, received)
  PROVE  /\ draws[id].participantCount + 1 \in 1..Numbers
         /\ owners[id][draws[id].participantCount + 1] = NoOne
         /\ \A n \in 1..Numbers : owners[id][n] # w
         /\ ~refunded[id][w]
<1>1. /\ draws[id].participantCount \in Nat /\ draws[id].participantCount < MaxParticipants
      /\ draws[id].status = "ACTIVE" /\ ticketOf[id][w] = 0
  BY Facts DEF BuyTicket, OpenForSale, HasTicket, Draw
<1>2. draws[id].participantCount + 1 \in 1..Numbers
  BY <1>1, ConfigurationAssumption
<1>3. \A n \in 1..Numbers : owners[id][n] # NoOne <=> n <= draws[id].participantCount
  BY Facts DEF Board
<1>4. owners[id][draws[id].participantCount + 1] = NoOne
  BY <1>1, <1>2, <1>3
<1>5. \A n \in 1..Numbers : owners[id][n] = w <=> ticketOf[id][w] = n
  BY Facts DEF Board
<1>6. \A n \in 1..Numbers : owners[id][n] # w
  BY <1>1, <1>5
<1>7. ~refunded[id][w]
  BY <1>1, Facts DEF RefundsOfCancelled
<1> QED BY <1>2, <1>4, <1>6, <1>7

\* The board of the read model when a ticket with a free number is sold.
BoardWith(id, k, w) == [BoardOf(id) EXCEPT ![k].wallet = w]

LEMMA BoardSold ==
  ASSUME OwedInv, NEW id \in DrawIds, NEW k \in 1..Numbers, NEW w \in Wallets,
         owners[id][k] = NoOne, ~refunded[id][w], refunded' = refunded,
         \A n \in 1..Numbers : owners'[id][n] = IF n = k THEN w ELSE owners[id][n]
  PROVE  BoardOf(id)' = BoardWith(id, k, w)
<1> DEFINE b == BoardOf(id)
           b2 == [b EXCEPT ![k].wallet = w]
           c == BoardOf(id)'
<1>1. \A n \in 1..Numbers : owners'[id][n] = IF n = k THEN w ELSE owners[id][n]
  OBVIOUS
<1>2. \A n \in 1..Numbers : RefundedAt(id, n)' = RefundedAt(id, n)
  <2> SUFFICES ASSUME NEW n \in 1..Numbers PROVE RefundedAt(id, n)' = RefundedAt(id, n)
    OBVIOUS
  <2>1. CASE n = k
    <3>1. RefundedAt(id, n) = FALSE
      BY <2>1 DEF RefundedAt
    <3>2. RefundedAt(id, n)' = FALSE
      BY <1>1, <2>1 DEF RefundedAt
    <3> QED BY <3>1, <3>2
  <2>2. CASE n # k
    <3>1. owners'[id][n] = owners[id][n]
      BY <1>1, <2>2
    <3> QED BY <3>1 DEF RefundedAt
  <2> QED BY <2>1, <2>2
<1>3. ASSUME NEW n \in 1..Numbers PROVE c[n] = b2[n]
  <2> DEFINE f == RefundedAt(id, n)
  <2>1. /\ c[n] = [wallet |-> owners'[id][n], refunded |-> RefundedAt(id, n)']
        /\ b[n] = [wallet |-> owners[id][n], refunded |-> f]
    BY Zenon DEF BoardOf
  <2>2. RefundedAt(id, n)' = f
    BY <1>2
  <2>3. b2[n] = IF n = k THEN [b[n] EXCEPT !.wallet = w] ELSE b[n]
    BY DEF BoardOf
  <2> HIDE DEF f, b, b2, c
  <2>4. c[n] = [wallet |-> owners'[id][n], refunded |-> f]
    BY <2>1, <2>2
  <2> QED BY <1>1, <2>1, <2>3, <2>4
<1>4. c = [n \in 1..Numbers |-> c[n]] /\ b2 = [n \in 1..Numbers |-> b2[n]]
  BY DEF BoardOf
<1> HIDE DEF b, b2, c
<1>5. c = b2
  BY <1>3, <1>4
<1> QED BY <1>5 DEF b, b2, c, BoardWith

LEMMA FeedBuyTicketInv ==
  ASSUME OwedInv, FeedInv, [Next]_vars, NEW w \in Wallets, NEW id \in DrawIds, NEW received,
         FeedBuyTicket(w, id, received)
  PROVE  FeedInv'
<1> DEFINE k == draws[id].participantCount + 1
           pool == draws[id].pool + TicketPrice
           b2 == [BoardOf(id) EXCEPT ![k].wallet = w]
<1>1. /\ BuyTicket(w, id, received) /\ draws[id] \in Draw /\ draws \in [DrawIds -> Draw]
      /\ draws[id].status = "ACTIVE" /\ id = currentDrawId
  BY Facts DEF FeedBuyTicket, BuyTicket, OpenForSale
<1>2. /\ draws' = [draws EXCEPT ![id].participantCount = k, ![id].pool = pool]
      /\ owners' = [owners EXCEPT ![id][k] = w]
      /\ refunded' = refunded /\ currentDrawId' = currentDrawId
  BY <1>1 DEF BuyTicket
<1>3. /\ k \in 1..Numbers /\ owners[id][k] = NoOne /\ ~refunded[id][w]
      /\ \A n \in 1..Numbers : owners[id][n] # w
  BY <1>1, FreeNumber
<1>4. BoardOf(id)' = b2
  <2> HIDE DEF k
  <2>1. k \in 1..Numbers /\ owners[id][k] = NoOne /\ ~refunded[id][w]
    BY <1>3
  <2>2. refunded' = refunded /\ \A n \in 1..Numbers : owners'[id][n] = IF n = k THEN w ELSE owners[id][n]
    BY <1>2, <2>1, Facts
  <2>3. BoardOf(id)' = BoardWith(id, k, w)
    BY <2>1, <2>2, BoardSold
  <2> QED BY <2>3 DEF BoardWith
<1>5. PICK e : e = [name |-> "TicketBought", drawId |-> id, buyer |-> w,
                    ticketNumber |-> draws'[id].participantCount,
                    participantCount |-> draws'[id].participantCount, pool |-> draws'[id].pool]
  OBVIOUS
<1>6. Project(e)
  BY <1>5 DEF FeedBuyTicket
<1> HIDE DEF k, pool, b2
<1>7. /\ draws'[id].status = draws[id].status /\ draws'[id].deadline = draws[id].deadline
      /\ draws'[id].participantCount = k
      /\ draws'[id].luckyNumber = draws[id].luckyNumber /\ draws'[id].winner = draws[id].winner
      /\ draws'[id].pool = pool
      /\ draws'[id].inheritedRollover = draws[id].inheritedRollover
      /\ draws'[id].daoFee = draws[id].daoFee /\ draws'[id].winnerPrize = draws[id].winnerPrize
      /\ draws'[id].requestId = draws[id].requestId
  BY <1>1, <1>2 DEF Draw
<1>8. /\ e.drawId = id /\ e.name = "TicketBought" /\ ~Claimed(e) /\ e.buyer = w
      /\ e.ticketNumber = k /\ e.participantCount = k /\ e.pool = pool
  BY <1>5, <1>7 DEF Claimed
<1>9. /\ LeftOver(id)' = LeftOver(id)
      /\ PrizeDone(draws'[id]) = PrizeDone(draws[id]) /\ FeePaid(draws'[id]) = FeePaid(draws[id])
  BY <1>1, <1>7 DEF LeftOver, PrizeDone, FeePaid
<1>10. Sold(RowOf(id), k, w, k, pool) = RowOf(id)'
  BY <1>4, <1>7, <1>9, RowColumns, BoughtRow DEF b2
<1>11. R!AcceptsTicket(RowOf(id), e)
  <2>1. /\ RowOf(id).status = "ACTIVE" /\ RowOf(id).participantCount = draws[id].participantCount
        /\ RowOf(id).tickets = BoardOf(id)
    BY <1>1, RowColumns, Columns
  <2>2. \A n \in 1..Numbers : BoardOf(id)[n].wallet = owners[id][n]
    BY DEF BoardOf
  <2>3. R!Board = 1..Numbers
    BY DEF R!Board
  <2>4. e.participantCount = RowOf(id).participantCount + 1
    BY <1>8, <2>1 DEF k
  <2> QED BY <1>3, <1>8, <2>1, <2>2, <2>3, <2>4 DEF R!AcceptsTicket
<1>12. /\ R!Apply(RowOf(id), e) = RowOf(id)'
       /\ RowOf(id) # NoDraw => R!Accepts(RowOf(id), e)
  BY <1>8, <1>10, <1>11, EventKinds
<1>13. \A j \in DrawIds : j # id => /\ draws'[j] = draws[j] /\ owners'[j] = owners[j]
                                    /\ refunded'[j] = refunded[j]
  BY <1>1, <1>2, Facts
<1>14. id <= currentDrawId
  BY <1>1, OpenedRound
<1>15. Mirror' /\ stuck' = FALSE /\ claims' = claims
  BY <1>2, <1>6, <1>8, <1>12, <1>13, <1>14, EventMirrored
<1>16. \A j \in DrawIds : draws'[j].status = "COMPLETED" => draws[j].status = "COMPLETED"
  BY <1>7, <1>13
<1> QED BY <1>2, <1>15, <1>16, NoClaim

\* What a word writes into the round it settles.
LEMMA SettledRecord ==
  ASSUME OwedInv, NEW r \in Requests, NEW word \in Words, SettleDraw(r, word),
         NEW id \in DrawIds, id = requestDraw[r]
  PROVE  LET d == draws[id]  n == draws'[id] IN
         /\ d.status = "DRAWING"
         /\ n.status = IF n.winner = NoOne THEN "NO_WINNER" ELSE "WINNER_DECLARED"
         /\ n.luckyNumber \in 1..Numbers
         /\ n.deadline = d.deadline /\ n.participantCount = d.participantCount
         /\ n.pool = d.pool /\ n.inheritedRollover = d.inheritedRollover
         /\ n.requestId = d.requestId
         /\ \A i \in DrawIds : i # id => draws'[i] = draws[i]
         /\ owners' = owners /\ refunded' = refunded /\ currentDrawId' = currentDrawId
<1> DEFINE lucky  == LuckyNumber(word)
           winner == TicketOwner(id, lucky)
           fee    == DaoFee(draws[id].pool)
<1>1. draws \in [DrawIds -> Draw] /\ draws[id] \in Draw
  BY Facts
<1>2. /\ draws[id].status = "DRAWING" /\ owners' = owners /\ refunded' = refunded
      /\ currentDrawId' = currentDrawId
  BY DEF SettleDraw, AwaitsWord, tickets
<1>3. lucky \in 1..Numbers
  BY LuckyInRange
<1>4. \/ /\ winner = NoOne
         /\ draws' = [draws EXCEPT ![id].status = "NO_WINNER", ![id].luckyNumber = lucky,
                                   ![id].winner = NoOne]
      \/ /\ winner # NoOne
         /\ draws' = [draws EXCEPT ![id].status = "WINNER_DECLARED", ![id].luckyNumber = lucky,
                                   ![id].winner = winner, ![id].daoFee = fee,
                                   ![id].winnerPrize = draws[id].pool - fee]
  BY DEF SettleDraw
<1> HIDE DEF lucky, winner, fee
<1>5. CASE winner = NoOne
  <2>1. draws'[id] = [draws[id] EXCEPT !.status = "NO_WINNER", !.luckyNumber = lucky,
                                       !.winner = NoOne]
    BY <1>1, <1>4, <1>5
  <2>2. \A i \in DrawIds : i # id => draws'[i] = draws[i]
    BY <1>1, <1>4, <1>5
  <2> QED BY <1>1, <1>2, <1>3, <2>1, <2>2 DEF Draw
<1>6. CASE winner # NoOne
  <2> DEFINE prize == draws[id].pool - fee
  <2> HIDE DEF prize
  <2>1. draws'[id] = [draws[id] EXCEPT !.status = "WINNER_DECLARED", !.luckyNumber = lucky,
                                       !.winner = winner, !.daoFee = fee, !.winnerPrize = prize]
    BY <1>1, <1>4, <1>6 DEF prize
  <2>2. \A i \in DrawIds : i # id => draws'[i] = draws[i]
    BY <1>1, <1>4, <1>6
  <2> QED BY <1>1, <1>2, <1>3, <1>6, <2>1, <2>2 DEF Draw
<1> QED BY <1>5, <1>6

LEMMA FeedSettleDrawInv ==
  ASSUME OwedInv, FeedInv, [Next]_vars, NEW r \in Requests, NEW word \in Words,
         FeedSettleDraw(r, word)
  PROVE  FeedInv'
<1>1. SettleDraw(r, word)
  BY DEF FeedSettleDraw
<1>2. PICK id \in DrawIds : id = requestDraw[r]
  BY <1>1, Facts, DeclaredRecord
<1>3. /\ draws[id].status = "DRAWING"
      /\ draws'[id].status = IF draws'[id].winner = NoOne THEN "NO_WINNER" ELSE "WINNER_DECLARED"
      /\ draws'[id].luckyNumber \in 1..Numbers
      /\ draws'[id].deadline = draws[id].deadline
      /\ draws'[id].participantCount = draws[id].participantCount
      /\ draws'[id].pool = draws[id].pool
      /\ draws'[id].inheritedRollover = draws[id].inheritedRollover
      /\ draws'[id].requestId = draws[id].requestId
      /\ \A i \in DrawIds : i # id => draws'[i] = draws[i]
      /\ owners' = owners /\ refunded' = refunded /\ currentDrawId' = currentDrawId
  BY <1>1, <1>2, SettledRecord
<1> DEFINE d == draws'[id]
           left == IF d.winner = NoOne THEN d.pool ELSE 0
<1>4. PICK e : e = [name |-> "LotteryDrawn", drawId |-> id, luckyNumber |-> d.luckyNumber,
                    winner |-> d.winner, pool |-> d.pool, daoFee |-> d.daoFee,
                    winnerPrize |-> d.winnerPrize, rollover |-> left]
  OBVIOUS
<1>5. Project(e)
  BY <1>2, <1>4 DEF FeedSettleDraw
<1>6. LeftOver(id)' = left
  BY <1>3 DEF LeftOver
<1>7. /\ e.drawId = id /\ e.name = "LotteryDrawn" /\ ~Claimed(e)
      /\ e.luckyNumber = draws'[id].luckyNumber /\ e.winner = draws'[id].winner
      /\ e.pool = draws'[id].pool /\ e.daoFee = draws'[id].daoFee
      /\ e.winnerPrize = draws'[id].winnerPrize /\ e.rollover = LeftOver(id)'
  <2> HIDE DEF left
  <2> QED BY <1>4, <1>6 DEF Claimed
<1> HIDE DEF d, left
<1>8. /\ BoardOf(id)' = BoardOf(id)
      /\ PrizeDone(draws'[id]) = PrizeDone(draws[id]) /\ FeePaid(draws'[id]) = FeePaid(draws[id])
  BY <1>3 DEF BoardOf, RefundedAt, PrizeDone, FeePaid
<1>9. R!DrawnDraw(RowOf(id), e) = RowOf(id)'
  <2> DEFINE s2 == IF e.winner = NoOne THEN "NO_WINNER" ELSE "WINNER_DECLARED"
  <2>1. s2 = draws'[id].status
    BY <1>3, <1>7
  <2> HIDE DEF s2
  <2>2. R!DrawnDraw(RowOf(id), e) =
          ARow(s2, draws[id].deadline, draws[id].participantCount, e.luckyNumber, e.winner, e.pool,
               draws[id].inheritedRollover, e.rollover, e.daoFee, e.winnerPrize,
               PrizeDone(draws[id]), FeePaid(draws[id]), draws[id].requestId, BoardOf(id))
    BY RowColumns, DrawnRow DEF s2
  <2> QED BY <1>3, <1>7, <1>8, <2>1, <2>2, RowColumns
<1>10. RowOf(id).status = "DRAWING"
  BY <1>3, RowColumns, Columns
<1>11. e.luckyNumber \in R!Board
  BY <1>3, <1>7 DEF R!Board
<1>12. /\ R!Apply(RowOf(id), e) = RowOf(id)'
       /\ RowOf(id) # NoDraw => R!Accepts(RowOf(id), e)
  BY <1>7, <1>9, <1>10, <1>11, EventKinds
<1>13. id <= currentDrawId
  BY <1>3, OpenedRound
<1>14. Mirror' /\ stuck' = FALSE /\ claims' = claims
  BY <1>3, <1>5, <1>7, <1>12, <1>13, EventMirrored
<1>15. \A j \in DrawIds : draws'[j].status = "COMPLETED" => draws[j].status = "COMPLETED"
  BY <1>3
<1> QED BY <1>3, <1>14, <1>15, NoClaim

LEMMA FeedClaimPrizeInv ==
  ASSUME OwedInv, FeedInv, [Next]_vars, NEW w \in Wallets, NEW id \in DrawIds,
         FeedClaimPrize(w, id)
  PROVE  FeedInv'
<1>1. /\ ClaimPrize(w, id) /\ draws[id] \in Draw /\ draws \in [DrawIds -> Draw]
      /\ draws[id].status = "WINNER_DECLARED" /\ draws[id].winner = w /\ w # NoOne
  BY Facts, EnvironmentAssumption DEF FeedClaimPrize, ClaimPrize, OwedPrize
<1>2. /\ draws' = [draws EXCEPT ![id].status = "COMPLETED"]
      /\ owners' = owners /\ refunded' = refunded /\ currentDrawId' = currentDrawId
  BY <1>1 DEF ClaimPrize, tickets
<1>3. /\ draws'[id].status = "COMPLETED" /\ draws'[id].deadline = draws[id].deadline
      /\ draws'[id].participantCount = draws[id].participantCount
      /\ draws'[id].luckyNumber = draws[id].luckyNumber /\ draws'[id].winner = draws[id].winner
      /\ draws'[id].pool = draws[id].pool
      /\ draws'[id].inheritedRollover = draws[id].inheritedRollover
      /\ draws'[id].daoFee = draws[id].daoFee /\ draws'[id].winnerPrize = draws[id].winnerPrize
      /\ draws'[id].requestId = draws[id].requestId
  BY <1>1, <1>2 DEF Draw
<1>4. PICK e : e = [name |-> "PrizeClaimed", drawId |-> id, winner |-> w,
                    amount |-> draws[id].winnerPrize, daoFee |-> draws[id].daoFee]
  OBVIOUS
<1>5. Project(e)
  BY <1>4 DEF FeedClaimPrize
<1>6. /\ e.drawId = id /\ e.name = "PrizeClaimed" /\ Claimed(e) /\ e.winner = w
      /\ e.amount = draws[id].winnerPrize /\ e.daoFee = draws[id].daoFee
  BY <1>4 DEF Claimed
<1> DEFINE yes == TRUE
<1>7. /\ BoardOf(id)' = BoardOf(id) /\ LeftOver(id)' = LeftOver(id)
      /\ PrizeDone(draws'[id]) = yes /\ FeePaid(draws'[id]) = draws[id].daoFee
  BY <1>1, <1>2, <1>3 DEF BoardOf, RefundedAt, LeftOver, PrizeDone, FeePaid
<1>8. R!Apply(RowOf(id), e) = Taken(RowOf(id), yes, e.daoFee)
  BY <1>6, EventKinds
<1> HIDE DEF yes
<1>9. Taken(RowOf(id), yes, e.daoFee) = RowOf(id)'
  BY <1>3, <1>6, <1>7, RowColumns, ClaimedRow
<1>10. /\ RowOf(id).status = "WINNER_DECLARED" /\ RowOf(id).winner = w
       /\ RowOf(id).winnerPrize = draws[id].winnerPrize /\ RowOf(id).daoFee = draws[id].daoFee
  BY <1>1, RowColumns, Columns
<1>11. R!AcceptsPrizeClaim(RowOf(id), e)
  BY <1>1, <1>6, <1>10 DEF R!AcceptsPrizeClaim
<1>12. /\ R!Apply(RowOf(id), e) = RowOf(id)'
       /\ RowOf(id) # NoDraw => R!Accepts(RowOf(id), e)
  BY <1>6, <1>8, <1>9, <1>11, EventKinds
<1>13. NewClaim(e)
  <2> SUFFICES ASSUME NEW c \in claims, c.drawId = id, c.kind = "PrizeClaimed" PROVE FALSE
    BY <1>6 DEF NewClaim
  <2>1. c \in PaidPrizes \/ c \in PaidRefunds
    BY DEF FeedInv
  <2>2. CASE c \in PaidPrizes
    BY <1>1, <2>2 DEF PaidPrizes
  <2>3. CASE c \in PaidRefunds
    BY <2>3 DEF PaidRefunds
  <2> QED BY <2>1, <2>2, <2>3
<1>14. \A j \in DrawIds : j # id => /\ draws'[j] = draws[j] /\ owners'[j] = owners[j]
                                    /\ refunded'[j] = refunded[j]
  BY <1>1, <1>2
<1>15. id <= currentDrawId
  BY <1>1, OpenedRound
<1>16. Mirror' /\ stuck' = FALSE /\ claims' = claims \union {ClaimRow(e)}
  BY <1>2, <1>5, <1>6, <1>12, <1>13, <1>14, <1>15, EventMirrored
<1>17. ClaimRow(e) = [drawId |-> id, wallet |-> draws'[id].winner, kind |-> "PrizeClaimed",
                      amount |-> draws'[id].winnerPrize]
  BY <1>1, <1>3, <1>6 DEF ClaimRow, ClaimWallet
<1>18. PaidPrizes' = PaidPrizes \union {ClaimRow(e)}
  <2> DEFINE Done    == {i \in DrawIds : draws[i].status = "COMPLETED"}
             Done1   == {i \in DrawIds : draws'[i].status = "COMPLETED"}
  <2>1. Done1 = Done \union {id}
    BY <1>3, <1>14
  <2>2. \A i \in Done : draws'[i] = draws[i]
    BY <1>1, <1>14
  <2>3. /\ PaidPrizes = {[drawId |-> i, wallet |-> draws[i].winner, kind |-> "PrizeClaimed",
                          amount |-> draws[i].winnerPrize] : i \in Done}
        /\ PaidPrizes' = {[drawId |-> i, wallet |-> draws'[i].winner, kind |-> "PrizeClaimed",
                           amount |-> draws'[i].winnerPrize] : i \in Done1}
    BY DEF PaidPrizes
  <2> HIDE DEF Done, Done1
  <2> QED BY <1>17, <2>1, <2>2, <2>3
<1>19. PaidRefunds' = PaidRefunds
  BY <1>2 DEF PaidRefunds
<1> QED BY <1>16, <1>18, <1>19 DEF FeedInv

LEMMA RefundOnBoard ==
  ASSUME OwedInv, NEW w \in Wallets, NEW id \in DrawIds, ClaimRefund(w, id),
         NEW k \in 1..Numbers, owners[id][k] = w
  PROVE  BoardOf(id)' = Marked(BoardOf(id), k)
<1> DEFINE b  == BoardOf(id)
           b2 == [b EXCEPT ![k].refunded = TRUE]
           c  == BoardOf(id)'
<1>1. /\ \A v \in Wallets : refunded'[id][v] <=> refunded[id][v] \/ v = w
      /\ owners' = owners /\ w # NoOne
  BY Facts, OneRefundLess, EnvironmentAssumption DEF ClaimRefund
<1>2. \A n \in 1..Numbers : owners[id][n] = w => n = k
  BY Facts DEF Board
<1>3. \A n \in 1..Numbers : RefundedAt(id, n)' = (IF n = k THEN TRUE ELSE RefundedAt(id, n))
  <2> SUFFICES ASSUME NEW n \in 1..Numbers
               PROVE  RefundedAt(id, n)' <=> (n = k \/ RefundedAt(id, n))
    BY DEF RefundedAt
  <2>1. owners[id][n] \in Wallets \union {NoOne}
    <3>1. owners \in [DrawIds -> [1..Numbers -> Wallets \union {NoOne}]]
      BY Facts
    <3>2. owners[id] \in [1..Numbers -> Wallets \union {NoOne}]
      BY <3>1
    <3> QED BY <3>2
  <2> QED BY <1>1, <1>2, <2>1 DEF RefundedAt
<1>4. ASSUME NEW n \in 1..Numbers PROVE c[n] = b2[n]
  <2> DEFINE f == RefundedAt(id, n)
             g == IF n = k THEN TRUE ELSE f
             t == TRUE
  <2>1. /\ c[n] = [wallet |-> owners'[id][n], refunded |-> RefundedAt(id, n)']
        /\ b[n] = [wallet |-> owners[id][n], refunded |-> f]
    BY Zenon DEF BoardOf
  <2>2. RefundedAt(id, n)' = g
    BY <1>3
  <2>3. b2[n] = IF n = k THEN [b[n] EXCEPT !.refunded = t] ELSE b[n]
    BY DEF BoardOf
  <2>4. g = IF n = k THEN t ELSE f
    OBVIOUS
  <2> HIDE DEF f, g, t, b, b2, c
  <2>5. c[n] = [wallet |-> owners[id][n], refunded |-> g]
    BY <1>1, <2>1, <2>2
  <2> QED BY <2>1, <2>3, <2>4, <2>5
<1>5. c = [n \in 1..Numbers |-> c[n]] /\ b2 = [n \in 1..Numbers |-> b2[n]]
  BY DEF BoardOf
<1> HIDE DEF b, b2, c
<1>6. c = b2
  BY <1>4, <1>5
<1> QED BY <1>6 DEF b, b2, c, Marked

LEMMA FeedClaimRefundInv ==
  ASSUME OwedInv, FeedInv, [Next]_vars, NEW w \in Wallets, NEW id \in DrawIds,
         FeedClaimRefund(w, id)
  PROVE  FeedInv'
<1>1. /\ ClaimRefund(w, id) /\ draws[id] \in Draw /\ draws[id].status = "CANCELLED"
      /\ ticketOf[id][w] # 0 /\ ~refunded[id][w] /\ w # NoOne
  BY Facts, EnvironmentAssumption DEF FeedClaimRefund, ClaimRefund, OwedRefund
<1>2. /\ draws' = draws /\ owners' = owners /\ currentDrawId' = currentDrawId
      /\ refunded' = [refunded EXCEPT ![id][w] = TRUE]
  BY <1>1 DEF ClaimRefund
<1>3. PICK k \in 1..Numbers : owners[id][k] = w
  <2>1. ticketOf[id][w] \in 1..Numbers
    BY <1>1, Facts, ConfigurationAssumption
  <2>2. \A k \in 1..Numbers : owners[id][k] = w <=> ticketOf[id][w] = k
    BY Facts DEF Board
  <2> QED BY <2>1, <2>2
<1>4. \A n \in 1..Numbers : owners[id][n] = w => n = k
  BY <1>3, Facts DEF Board
<1>5. BoardOf(id)' = Marked(BoardOf(id), k)
  BY <1>1, <1>3, RefundOnBoard
<1>6. PICK e : e = [name |-> "RefundClaimed", drawId |-> id, participant |-> w,
                    amount |-> TicketPrice]
  OBVIOUS
<1>7. Project(e)
  BY <1>6 DEF FeedClaimRefund
<1>8. /\ e.drawId = id /\ e.name = "RefundClaimed" /\ Claimed(e) /\ e.participant = w
      /\ e.amount = TicketPrice
  BY <1>6 DEF Claimed
<1>9. /\ RowOf(id).status = "CANCELLED" /\ RowOf(id).ticketPrice = TicketPrice
      /\ RowOf(id).tickets = BoardOf(id)
  BY <1>1, RowColumns, Columns
<1>10. R!RefundableTickets(RowOf(id), e) = {k}
  <2>1. \A n \in 1..Numbers : /\ BoardOf(id)[n].wallet = owners[id][n]
                              /\ BoardOf(id)[n].refunded <=> RefundedAt(id, n)
    BY Zenon DEF BoardOf
  <2>2. ~RefundedAt(id, k)
    BY <1>1, <1>3 DEF RefundedAt
  <2>3. R!RefundableTickets(RowOf(id), e) =
          {n \in 1..Numbers : BoardOf(id)[n].wallet = w /\ ~BoardOf(id)[n].refunded}
    BY <1>8, <1>9 DEF R!RefundableTickets, R!Board
  <2>4. BoardOf(id)[k].wallet = w /\ ~BoardOf(id)[k].refunded
    BY <1>3, <2>1, <2>2
  <2>5. \A n \in 1..Numbers : BoardOf(id)[n].wallet = w => n = k
    BY <1>4, <2>1
  <2> QED BY <2>3, <2>4, <2>5
<1>11. /\ LeftOver(id)' = LeftOver(id) /\ PrizeDone(draws'[id]) = PrizeDone(draws[id])
       /\ FeePaid(draws'[id]) = FeePaid(draws[id])
  BY <1>2 DEF LeftOver, PrizeDone, FeePaid
<1>12. R!RefundedDraw(RowOf(id), e) = RowOf(id)'
  <2>1. R!RefundedDraw(RowOf(id), e) =
          ARow(draws[id].status, draws[id].deadline, draws[id].participantCount,
               draws[id].luckyNumber, draws[id].winner, draws[id].pool,
               draws[id].inheritedRollover, LeftOver(id), draws[id].daoFee,
               draws[id].winnerPrize, PrizeDone(draws[id]), FeePaid(draws[id]),
               draws[id].requestId, Marked(BoardOf(id), k))
    BY <1>3, <1>10, RowColumns, RefundedRow
  <2> QED BY <1>2, <1>5, <1>11, <2>1, RowColumns
<1>13. R!AcceptsRefund(RowOf(id), e)
  BY <1>8, <1>9, <1>10 DEF R!AcceptsRefund
<1>14. /\ R!Apply(RowOf(id), e) = RowOf(id)'
       /\ RowOf(id) # NoDraw => R!Accepts(RowOf(id), e)
  BY <1>8, <1>12, <1>13, EventKinds
<1>15. NewClaim(e)
  <2> SUFFICES ASSUME NEW c \in claims, c.drawId = id, c.wallet = w, c.kind = "RefundClaimed"
               PROVE  FALSE
    BY <1>8 DEF NewClaim, ClaimWallet
  <2>1. c \in PaidPrizes \/ c \in PaidRefunds
    BY DEF FeedInv
  <2>2. CASE c \in PaidPrizes
    BY <2>2 DEF PaidPrizes
  <2>3. CASE c \in PaidRefunds
    BY <1>1, <2>3 DEF PaidRefunds
  <2> QED BY <2>1, <2>2, <2>3
<1>16. \A j \in DrawIds : j # id => /\ draws'[j] = draws[j] /\ owners'[j] = owners[j]
                                    /\ refunded'[j] = refunded[j]
  BY <1>2, Facts
<1>17. id <= currentDrawId
  BY <1>1, OpenedRound
<1>18. Mirror' /\ stuck' = FALSE /\ claims' = claims \union {ClaimRow(e)}
  BY <1>2, <1>7, <1>8, <1>14, <1>15, <1>16, <1>17, EventMirrored
<1>19. ClaimRow(e) = [drawId |-> id, wallet |-> w, kind |-> "RefundClaimed",
                      amount |-> TicketPrice]
  BY <1>8 DEF ClaimRow, ClaimWallet
<1>20. PaidRefunds' = PaidRefunds \union {ClaimRow(e)}
  <2> DEFINE Given  == {p \in DrawIds \X Wallets : refunded[p[1]][p[2]]}
             Given1 == {p \in DrawIds \X Wallets : refunded'[p[1]][p[2]]}
             Paid(c) == [drawId |-> c[1], wallet |-> c[2], kind |-> "RefundClaimed",
                         amount |-> TicketPrice]
  <2>1. Given1 = Given \union {<<id, w>>}
    BY <1>1, Facts, OneRefundLess
  <2>2. PaidRefunds = {Paid(c) : c \in Given} /\ PaidRefunds' = {Paid(c) : c \in Given1}
    BY DEF PaidRefunds
  <2>3. ClaimRow(e) = Paid(<<id, w>>)
    BY <1>19
  <2> HIDE DEF Given, Given1, Paid
  <2> QED BY <2>1, <2>2, <2>3
<1>21. PaidPrizes' = PaidPrizes
  BY <1>2 DEF PaidPrizes
<1> QED BY <1>18, <1>20, <1>21 DEF FeedInv

-----------------------------------------------------------------------------
(* The feed follows the contract                                           *)

LEMMA SameFeed ==
  ASSUME FeedInv, UNCHANGED feedVars, UNCHANGED <<draws, owners, refunded, currentDrawId>>
  PROVE  FeedInv'
<1>1. \A id \in DrawIds : Shown(id)' = Shown(id)
  BY OtherRound
<1>2. Mirror'
  BY <1>1 DEF FeedInv, Mirror, feedVars
<1> QED BY <1>2 DEF FeedInv, PaidPrizes, PaidRefunds, feedVars

\* Every step of the feed is a step of the contract.
LEMMA FeedStepIsAStep ==
  ASSUME currentDrawId \in 0..MaxDraws, [FeedNext]_allVars
  PROVE  /\ [Next]_vars
         /\ currentDrawId' \in 0..MaxDraws
<1>1. CASE FeedStartDraw
  <2>1. StartDraw(currentDrawId)
    BY <1>1 DEF FeedStartDraw
  <2>2. currentDrawId' \in 0..MaxDraws
    BY <2>1, EnvironmentAssumption DEF StartDraw
  <2> QED BY <2>1, <2>2 DEF Next
<1>2. ASSUME NEW w \in Wallets, NEW id \in DrawIds, NEW received \in {TicketPrice - 1, TicketPrice},
             FeedBuyTicket(w, id, received)
      PROVE  Next /\ currentDrawId' = currentDrawId
  <2>1. BuyTicket(w, id, received)
    BY <1>2 DEF FeedBuyTicket
  <2> QED BY <1>2, <2>1 DEF Next, BuyTicket
<1>3. ASSUME NEW id \in DrawIds, FeedCancelDraw(id) PROVE Next /\ currentDrawId' = currentDrawId
  <2>1. CancelDraw(id)
    BY <1>3 DEF FeedCancelDraw
  <2> QED BY <1>3, <2>1 DEF Next, CancelDraw
<1>4. ASSUME NEW id \in DrawIds, NEW r \in Requests, FeedRequestDraw(id, r)
      PROVE  Next /\ currentDrawId' = currentDrawId
  <2>1. RequestDraw(id, r)
    BY <1>4 DEF FeedRequestDraw
  <2> QED BY <1>4, <2>1 DEF Next, RequestDraw
<1>5. ASSUME NEW r \in Requests, NEW word \in Words, FeedSettleDraw(r, word)
      PROVE  Next /\ currentDrawId' = currentDrawId
  <2>1. SettleDraw(r, word)
    BY <1>5 DEF FeedSettleDraw
  <2>2. FulfillRandomness(r, word)
    BY <2>1 DEF FulfillRandomness
  <2> QED BY <1>5, <2>1, <2>2 DEF Next, SettleDraw
<1>6. ASSUME NEW w \in Wallets, NEW id \in DrawIds, FeedClaimPrize(w, id)
      PROVE  Next /\ currentDrawId' = currentDrawId
  <2>1. ClaimPrize(w, id)
    BY <1>6 DEF FeedClaimPrize
  <2> QED BY <1>6, <2>1 DEF Next, ClaimPrize
<1>7. ASSUME NEW w \in Wallets, NEW id \in DrawIds, FeedClaimRefund(w, id)
      PROVE  Next /\ currentDrawId' = currentDrawId
  <2>1. ClaimRefund(w, id)
    BY <1>7 DEF FeedClaimRefund
  <2> QED BY <1>7, <2>1 DEF Next, ClaimRefund
<1>8. CASE Tick
  BY <1>8 DEF Next, Tick
<1>9. CASE UNCHANGED allVars
  BY <1>9 DEF allVars, vars
<1> QED
  BY <1>1, <1>2, <1>3, <1>4, <1>5, <1>6, <1>7, <1>8, <1>9 DEF FeedNext

LEMMA FeedFollowsContract == FeedSpec => Spec
<1>1. Init => currentDrawId \in 0..MaxDraws
  BY EnvironmentAssumption DEF Init
<1>2. FeedInit => Init
  BY DEF FeedInit
<1>3. currentDrawId \in 0..MaxDraws /\ [FeedNext]_allVars => [Next]_vars /\ (currentDrawId \in 0..MaxDraws)'
  BY FeedStepIsAStep
<1> QED BY <1>1, <1>2, <1>3, PTL DEF FeedSpec, Spec

LEMMA FeedInitInv == FeedInit => FeedInv
<1> SUFFICES ASSUME FeedInit PROVE FeedInv
  OBVIOUS
<1>1. /\ readModel = [id \in DrawIds |-> NoDraw] /\ claims = {} /\ stuck = FALSE
      /\ currentDrawId = 0
      /\ \A id \in DrawIds : draws[id].status = "ACTIVE"
      /\ \A id \in DrawIds, w \in Wallets : ~refunded[id][w]
  BY DEF FeedInit, Init, BlankDraw
<1>2. \A id \in DrawIds : Shown(id) = NoDraw
  BY <1>1 DEF Shown, Opened, DrawIds
<1>3. Mirror
  BY <1>1, <1>2 DEF Mirror
<1>4. PaidPrizes = {} /\ PaidRefunds = {}
  BY <1>1 DEF PaidPrizes, PaidRefunds
<1> QED BY <1>1, <1>3, <1>4 DEF FeedInv

LEMMA FeedStep ==
  ASSUME OwedInv, FeedInv, [Next]_vars, [FeedNext]_allVars
  PROVE  FeedInv'
<1>1. CASE FeedStartDraw
  BY <1>1, FeedStartDrawInv
<1>2. CASE \E w \in Wallets, id \in DrawIds, received \in {TicketPrice - 1, TicketPrice} :
             FeedBuyTicket(w, id, received)
  BY <1>2, FeedBuyTicketInv
<1>3. CASE \E id \in DrawIds : FeedCancelDraw(id)
  BY <1>3, FeedCancelDrawInv
<1>4. CASE \E id \in DrawIds, r \in Requests : FeedRequestDraw(id, r)
  BY <1>4, FeedRequestDrawInv
<1>5. CASE \E r \in Requests, word \in Words : FeedSettleDraw(r, word)
  BY <1>5, FeedSettleDrawInv
<1>6. CASE \E w \in Wallets, id \in DrawIds : FeedClaimPrize(w, id)
  BY <1>6, FeedClaimPrizeInv
<1>7. CASE \E w \in Wallets, id \in DrawIds : FeedClaimRefund(w, id)
  BY <1>7, FeedClaimRefundInv
<1>8. CASE Tick /\ UNCHANGED feedVars
  BY <1>8, SameFeed DEF Tick, tickets
<1>9. CASE UNCHANGED allVars
  BY <1>9, SameFeed DEF allVars, vars, tickets
<1> QED
  BY <1>1, <1>2, <1>3, <1>4, <1>5, <1>6, <1>7, <1>8, <1>9 DEF FeedNext

LEMMA FeedInvariance == FeedSpec => [](OwedInv /\ FeedInv)
<1>1. FeedSpec => []OwedInv /\ [][Next]_vars
  BY FeedFollowsContract, OwedInvariance, PTL DEF Spec
<1>2. OwedInv /\ FeedInv /\ [Next]_vars /\ [FeedNext]_allVars => FeedInv'
  BY FeedStep
<1> QED BY <1>1, <1>2, FeedInitInv, PTL DEF FeedSpec

-----------------------------------------------------------------------------
(* Theorems                                                                *)

\* Whatever the contract does, in whatever order, every event it emits is
\* accepted by the projection: the indexer never stops at a real block
\* (the errors of Apply, model.go:113).
THEOREM NothingIsRefused == FeedSpec => []NothingRefused
<1>1. FeedInv => NothingRefused
  BY DEF FeedInv, NothingRefused
<1> QED BY <1>1, FeedInvariance, PTL

LEMMA RowsAgree ==
  ASSUME OwedInv, FeedInv
  PROVE  RoundsAgree
<1> SUFFICES ASSUME NEW id \in DrawIds
             PROVE  IF ~Opened(id) THEN readModel[id] = NoDraw
                    ELSE LET r == readModel[id]  d == draws[id] IN
                         /\ \A field \in DOMAIN d : r[field] = d[field]
                         /\ \A n \in 1..Numbers :
                              /\ r.tickets[n].wallet = owners[id][n]
                              /\ r.tickets[n].refunded <=>
                                   owners[id][n] # NoOne /\ refunded[id][owners[id][n]]
  BY DEF RoundsAgree
<1> DEFINE r == RowOf(id)
           d == draws[id]
<1>1. CASE ~Opened(id)
  BY <1>1 DEF FeedInv, Mirror, Shown
<1>2. CASE Opened(id)
  <2>1. readModel[id] = r
    BY <1>2 DEF FeedInv, Mirror, Shown
  <2>2. DOMAIN d = {"status", "deadline", "participantCount", "luckyNumber", "winner",
                    "inheritedRollover", "pool", "daoFee", "winnerPrize", "requestId"}
    BY Facts DEF Draw
  <2>3. /\ r.status = d.status /\ r.deadline = d.deadline
        /\ r.participantCount = d.participantCount /\ r.luckyNumber = d.luckyNumber
        /\ r.winner = d.winner /\ r.inheritedRollover = d.inheritedRollover /\ r.pool = d.pool
        /\ r.daoFee = d.daoFee /\ r.winnerPrize = d.winnerPrize /\ r.requestId = d.requestId
        /\ r.tickets = BoardOf(id)
    BY RowColumns, Columns
  <2>4. \A n \in 1..Numbers : /\ BoardOf(id)[n].wallet = owners[id][n]
                              /\ BoardOf(id)[n].refunded <=> RefundedAt(id, n)
    BY Zenon DEF BoardOf
  <2> HIDE DEF r, d
  <2>5. \A field \in DOMAIN d : r[field] = d[field]
    BY <2>2, <2>3
  <2>6. \A n \in 1..Numbers :
          /\ r.tickets[n].wallet = owners[id][n]
          /\ r.tickets[n].refunded <=> owners[id][n] # NoOne /\ refunded[id][owners[id][n]]
    BY <2>3, <2>4 DEF RefundedAt
  <2> QED BY <1>2, <2>1, <2>5, <2>6 DEF d
<1> QED BY <1>1, <1>2

LEMMA RolloversAgree ==
  ASSUME OwedInv, FeedInv
  PROVE  RolloverIsInherited
<1> SUFFICES ASSUME NEW id \in DrawIds, Opened(id), draws[id].status \in Settled
             PROVE  readModel[id].rollover =
                      IF Opened(id + 1) THEN readModel[id + 1].inheritedRollover
                                        ELSE pendingRollover
  BY DEF RolloverIsInherited
<1>0. id \in 1..MaxDraws /\ currentDrawId \in 0..MaxDraws /\ MaxDraws \in Nat
  BY Facts, EnvironmentAssumption DEF DrawIds
<1>1. readModel[id] = RowOf(id)
  BY DEF FeedInv, Mirror, Shown
<1>2. readModel[id].rollover = LeftOver(id)
  BY <1>1, RowColumns, Columns
<1>3. CASE Opened(id + 1)
  <2>1. id + 1 \in DrawIds /\ id < currentDrawId
    BY <1>0, <1>3 DEF Opened, DrawIds
  <2>2. readModel[id + 1] = RowOf(id + 1)
    BY <1>3, <2>1 DEF FeedInv, Mirror, Shown
  <2>3. readModel[id + 1].inheritedRollover = draws[id + 1].inheritedRollover
    BY <2>2, RowColumns, Columns
  <2>4. draws[id + 1].inheritedRollover = LeftOver(id)
    BY <2>1 DEF OwedInv, PotsInherited
  <2> QED BY <1>2, <1>3, <2>3, <2>4
<1>4. CASE ~Opened(id + 1)
  <2>1. id = currentDrawId /\ currentDrawId # 0
    BY <1>0, <1>4 DEF Opened
  <2>2. pendingRollover = LeftOver(id)
    BY <2>1 DEF OwedInv, RolloverWaits
  <2> QED BY <1>2, <1>4, <2>2
<1> QED BY <1>3, <1>4

LEMMA OffersAgree ==
  ASSUME OwedInv, FeedInv
  PROVE  EligibilityAgrees
<1> SUFFICES ASSUME NEW id \in DrawIds, Opened(id)
             PROVE  R!OffersDraw(readModel[id], now) <=> CanPerformDraw(id)
  BY DEF EligibilityAgrees
<1>1. readModel[id] = RowOf(id)
  BY DEF FeedInv, Mirror, Shown
<1>2. /\ readModel[id].status = draws[id].status /\ readModel[id].deadline = draws[id].deadline
      /\ readModel[id].participantCount = draws[id].participantCount
  BY <1>1, RowColumns, Columns
<1>3. draws[id].status = "ACTIVE" => id = currentDrawId
  <2>1. id < currentDrawId => draws[id].status \in Settled
    BY Facts DEF OneLiveRound
  <2>2. id \in Nat /\ currentDrawId \in Nat /\ id <= currentDrawId
    BY Facts DEF DrawIds, Opened
  <2> QED BY <2>1, <2>2 DEF Settled
<1> QED BY <1>2, <1>3 DEF R!OffersDraw, CanPerformDraw

\* The read model, built from the events alone, agrees with the contract's
\* storage on every round, pot, payment and on when a round can be drawn, for
\* any number of rounds, wallets and tickets (model.go:113, store.go:107).
THEOREM ReadModelIsRight == FeedSpec => []ReadModelAgrees
<1>1. OwedInv /\ FeedInv => ReadModelAgrees
  BY RowsAgree, RolloversAgree, OffersAgree DEF FeedInv, ReadModelAgrees
<1> QED BY <1>1, FeedInvariance, PTL
===============================================================================
