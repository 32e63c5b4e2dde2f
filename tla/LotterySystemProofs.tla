------------------------- MODULE LotterySystemProofs --------------------------
(***************************************************************************)
(* Proofs about LotterySystem, for every value of its constants: the pair  *)
(* of contracts behaves, for the lottery, like DLottery alone, so what     *)
(* DLotteryProofs shows of a lottery with any provider holds of the        *)
(* deployed one; the two contracts agree on every request; and together    *)
(* they keep the promise of Raffle.                                        *)
(***************************************************************************)
EXTENDS LotterySystem, SequenceTheorems, TLAPS

LP == INSTANCE DLotteryProofs

\* The words the provider holds are words the coordinator gave.
WordsKept ==
  /\ requested \subseteq Requests
  /\ ready \subseteq requested /\ delivered \subseteq ready
  /\ words \in [Requests -> Words \union {P!NoWord}]
  /\ \A r \in ready : words[r] \in Words

(***************************************************************************)
(* L and LP are the same module, once without and once with its proofs.    *)
(***************************************************************************)
LEMMA SameStep ==
  ASSUME [L!Next]_(L!vars)
  PROVE  [LP!Next]_(LP!vars)
<1> USE DEF L!DrawIds, LP!DrawIds, L!ledger, LP!ledger, L!tickets, LP!tickets, L!token, LP!token
<1>1. ASSUME NEW n \in 0..MaxDraws, L!StartDraw(n) PROVE LP!StartDraw(n)
  BY <1>1 DEF L!StartDraw, LP!StartDraw, L!CanStartDraw, LP!CanStartDraw, L!Settled, LP!Settled
<1>2. ASSUME NEW w \in Wallets, NEW id \in L!DrawIds, NEW received, L!BuyTicket(w, id, received)
      PROVE  LP!BuyTicket(w, id, received)
  BY <1>2 DEF L!BuyTicket, LP!BuyTicket, L!OpenForSale, LP!OpenForSale, L!HasTicket,
     LP!HasTicket, L!PaymentExact, LP!PaymentExact
<1>3. ASSUME NEW id \in L!DrawIds, L!CancelDraw(id) PROVE LP!CancelDraw(id)
  BY <1>3 DEF L!CancelDraw, LP!CancelDraw, L!CanPerformDraw, LP!CanPerformDraw,
     L!RefundTotal, LP!RefundTotal, L!CarriedOver, LP!CarriedOver
<1>4. ASSUME NEW id \in L!DrawIds, NEW r \in Requests, L!RequestDraw(id, r)
      PROVE  LP!RequestDraw(id, r)
  BY <1>4 DEF L!RequestDraw, LP!RequestDraw, L!CanPerformDraw, LP!CanPerformDraw,
     L!FreshRequest, LP!FreshRequest
<1>5. ASSUME NEW r, NEW word, L!FulfillRandomness(r, word)
      PROVE  LP!FulfillRandomness(r, word)
  <2>1. CASE L!SettleDraw(r, word)
    <3>0. /\ L!AwaitsWord(r) <=> LP!AwaitsWord(r)
          /\ L!LuckyNumber(word) = LP!LuckyNumber(word)
          /\ \A id, number : L!TicketOwner(id, number) = LP!TicketOwner(id, number)
          /\ \A pool : L!DaoFee(pool) = LP!DaoFee(pool)
      BY DEF L!AwaitsWord, LP!AwaitsWord, L!LuckyNumber, LP!LuckyNumber, L!TicketOwner,
         LP!TicketOwner, L!DaoFee, LP!DaoFee
    <3>1. LP!SettleDraw(r, word)
      BY <2>1, <3>0 DEF L!SettleDraw, LP!SettleDraw
    <3> QED BY <3>1 DEF LP!FulfillRandomness
  <2>2. CASE L!IgnoreCallback(r)
    BY <2>2 DEF L!IgnoreCallback, LP!IgnoreCallback, L!AwaitsWord, LP!AwaitsWord, L!vars, LP!vars,
       LP!FulfillRandomness
  <2> QED BY <1>5, <2>1, <2>2 DEF L!FulfillRandomness
<1>6. ASSUME NEW id \in L!DrawIds, NEW word \in Words, L!FinalizeDraw(id, word)
      PROVE  LP!FinalizeDraw(id, word)
  BY <1>5, <1>6 DEF L!FinalizeDraw, LP!FinalizeDraw
<1>7. ASSUME NEW w \in Wallets, NEW id \in L!DrawIds, L!ClaimPrize(w, id)
      PROVE  LP!ClaimPrize(w, id)
  BY <1>7 DEF L!ClaimPrize, LP!ClaimPrize, L!OwedPrize, LP!OwedPrize, L!PrizePaid, LP!PrizePaid
<1>8. ASSUME NEW w \in Wallets, NEW id \in L!DrawIds, L!ClaimRefund(w, id)
      PROVE  LP!ClaimRefund(w, id)
  BY <1>8 DEF L!ClaimRefund, LP!ClaimRefund, L!OwedRefund, LP!OwedRefund
<1>9. /\ L!Tick => LP!Tick
      /\ L!Donate => LP!Donate
      /\ UNCHANGED L!vars => UNCHANGED LP!vars
  BY DEF L!Tick, LP!Tick, L!Donate, LP!Donate, L!vars, LP!vars
<1> QED
  BY <1>1, <1>2, <1>3, <1>4, <1>5, <1>6, <1>7, <1>8, <1>9 DEF L!Next, LP!Next

LEMMA SameInit == L!Init => LP!Init
BY DEF L!Init, LP!Init, L!DrawIds, LP!DrawIds, L!BlankDraw, LP!BlankDraw, L!Accounts, LP!Accounts

LEMMA WordsInit == Init => WordsKept
BY DEF Init, P!Init, WordsKept

LEMMA WordsStep ==
  ASSUME WordsKept, [Next]_vars
  PROVE  WordsKept'
<1> USE DEF WordsKept, providerVars
<1>1. ASSUME UNCHANGED providerVars PROVE WordsKept'
  BY <1>1
<1>2. ASSUME NEW value \in {Lottery, OtherContract}, SetLottery(value) PROVE WordsKept'
  BY <1>2 DEF SetLottery, P!SetLottery
<1>3. ASSUME NEW id \in L!DrawIds, NEW r \in Requests, PerformDraw(id, r) PROVE WordsKept'
  BY <1>3 DEF PerformDraw, P!RequestRandomness
<1>4. ASSUME NEW r \in Requests, NEW word \in Words, NEW accepted \in BOOLEAN,
             Answer(r, word, accepted)
      PROVE  WordsKept'
  BY <1>4 DEF Answer, P!StoreWord, P!StoresWord, P!ReadyAfter, P!DeliveredBy
<1>5. ASSUME NEW r \in Requests, NEW word \in Words, AnswerAgain(r, word) PROVE WordsKept'
  BY <1>1, <1>5 DEF AnswerAgain, P!IgnoreWord, P!vars
<1>6. ASSUME NEW r \in Requests, P!DeliverWord(r) \/ P!DeliverAgain(r) PROVE WordsKept'
  BY <1>6 DEF P!DeliverWord, P!MayDeliver, P!DeliverAgain, P!vars
<1>7. ASSUME NEW id \in L!DrawIds, FinalizeDraw(id) PROVE WordsKept'
  BY <1>6, <1>7 DEF FinalizeDraw
<1>8. ASSUME NEW r \in Requests, Deliver(r) PROVE WordsKept'
  BY <1>6, <1>8 DEF Deliver
<1> QED
  BY <1>1, <1>2, <1>3, <1>4, <1>5, <1>7, <1>8
  DEF Next, LotteryOnly, ClaimPrize, ClaimRefund, vars

-----------------------------------------------------------------------------
(* The lottery of the pair is a lottery                                    *)

LEMMA LotteryStep ==
  ASSUME WordsKept, [Next]_vars
  PROVE  [L!Next]_(L!vars)
<1>1. ASSUME UNCHANGED lotteryVars PROVE UNCHANGED L!vars
  BY <1>1 DEF lotteryVars, L!vars, L!ledger, L!tickets, L!token
<1>2. ASSUME LotteryOnly PROVE L!Next
  BY <1>2 DEF LotteryOnly, L!Next
<1>3. ASSUME NEW w \in Wallets, NEW id \in L!DrawIds, ClaimPrize(w, id) \/ ClaimRefund(w, id)
      PROVE  L!Next
  BY <1>3 DEF ClaimPrize, ClaimRefund, L!Next
<1>4. ASSUME NEW id \in L!DrawIds, NEW r \in Requests, PerformDraw(id, r) PROVE L!Next
  BY <1>4 DEF PerformDraw, L!Next
<1>5. ASSUME NEW r \in Requests, NEW word \in Words, NEW accepted \in BOOLEAN,
             Answer(r, word, accepted)
      PROVE  [L!Next]_(L!vars)
  BY <1>1, <1>5 DEF Answer, L!Next
<1>6. ASSUME NEW id \in L!DrawIds, FinalizeDraw(id) PROVE [L!Next]_(L!vars)
  <2> DEFINE r == draws[id].requestId
  <2>1. CASE r \in delivered
    BY <1>1, <1>6, <2>1 DEF FinalizeDraw
  <2>2. CASE r \notin delivered
    <3>1. L!FinalizeDraw(id, words[r]) /\ words[r] \in Words
      BY <1>6, <2>2 DEF FinalizeDraw, WordsKept
    <3> QED BY <3>1 DEF L!Next
  <2> QED BY <2>1, <2>2
<1>7. ASSUME NEW r \in Requests, Deliver(r) PROVE [L!Next]_(L!vars)
  <2>1. CASE P!DeliverWord(r) /\ L!FulfillRandomness(r, words[r])
    <3>1. words[r] \in Words
      BY <2>1 DEF P!DeliverWord, P!MayDeliver, WordsKept
    <3> QED BY <2>1, <3>1 DEF L!Next
  <2>2. CASE P!DeliverAgain(r) /\ UNCHANGED lotteryVars
    BY <1>1, <2>2
  <2> QED BY <1>7, <2>1, <2>2 DEF Deliver
<1> QED
  BY <1>1, <1>2, <1>3, <1>4, <1>5, <1>6, <1>7 DEF Next, SetLottery, AnswerAgain, vars

LEMMA WordsInvariance == Spec => []WordsKept
BY WordsInit, WordsStep, PTL DEF Spec

\* Whatever the coordinator answers and whoever retries a delivery, the lottery
\* of the deployed pair takes the steps of DLottery and no others
\* (VRFProvider.sol:45, DLottery.sol:158).
THEOREM PairIsALottery == Spec => L!Spec
<1>1. Init => L!Init
  BY DEF Init
<1> QED BY <1>1, LotteryStep, WordsInvariance, PTL DEF Spec, L!Spec

-----------------------------------------------------------------------------
(* The two contracts agree on every request                                *)

LEMMA LotteryInvariance == Spec => []LP!FullInv
<1> USE SystemAssumption
    DEF L!ConfigurationAssumption, LP!ConfigurationAssumption,
        L!EnvironmentAssumption, LP!EnvironmentAssumption
<1>1. Init => LP!FullInv
  BY SameInit, LP!InitFullInv DEF Init
<1>2. LP!FullInv /\ WordsKept /\ [Next]_vars => LP!FullInv'
  BY LotteryStep, SameStep, LP!NextFullInv
<1> QED BY <1>1, <1>2, WordsInvariance, PTL DEF Spec

\* What the lottery knows of a request it has a round for.
LEMMA RequestFacts ==
  ASSUME LP!FullInv
  PROVE  /\ draws \in [L!DrawIds -> LP!Draw]
         /\ requestDraw \in [Requests -> 0..MaxDraws]
         /\ \A r \in Requests : requestDraw[r] # 0 =>
              /\ requestDraw[r] \in L!DrawIds
              /\ draws[requestDraw[r]].requestId = r
              /\ draws[requestDraw[r]].status # "ACTIVE"
<1>1. /\ draws \in [L!DrawIds -> LP!Draw]
      /\ requestDraw \in [Requests -> 0..MaxDraws]
  BY DEF LP!FullInv, LP!IInv, LP!TypeOK, LP!DrawIds, L!DrawIds
<1>2. ASSUME NEW r \in Requests, requestDraw[r] # 0 PROVE requestDraw[r] \in L!DrawIds
  BY <1>1, <1>2, SystemAssumption DEF L!EnvironmentAssumption, L!DrawIds
<1>3. ASSUME NEW r \in Requests, requestDraw[r] # 0
      PROVE  draws[requestDraw[r]].requestId = r /\ draws[requestDraw[r]].status # "ACTIVE"
  BY <1>2, <1>3, SystemAssumption
  DEF LP!FullInv, LP!RInv, LP!RequestsBelongToOneRound, LP!NoRequestYet, LP!DrawIds, L!DrawIds,
      L!EnvironmentAssumption
<1> QED BY <1>1, <1>2, <1>3

\* Steps that settle nothing and deliver nothing.
LEMMA AgreementKept ==
  ASSUME DeliveredMeansSettled, LP!FullInv,
         UNCHANGED <<requested, delivered, requestDraw>>,
         \A id \in L!DrawIds :
           draws[id].status # "ACTIVE" =>
             (draws'[id].status \in L!Settled <=> draws[id].status \in L!Settled)
  PROVE  DeliveredMeansSettled'
BY RequestFacts DEF DeliveredMeansSettled

\* A delivery, by the coordinator's answer or by a retry.
LEMMA DeliverySettles ==
  ASSUME DeliveredMeansSettled, LP!FullInv, NEW r \in Requests, NEW word,
         r \in requested, r \notin delivered,
         L!FulfillRandomness(r, word),
         requested' = requested, delivered' = delivered \union {r}
  PROVE  DeliveredMeansSettled'
<1> DEFINE id == requestDraw[r]
<1>1. id # 0 /\ draws[id].status \notin L!Settled
  BY DEF DeliveredMeansSettled
<1>2. id \in L!DrawIds /\ draws[id] \in LP!Draw /\ draws[id].status # "ACTIVE"
  BY <1>1, RequestFacts
<1>3. draws[id].status = "DRAWING"
  BY <1>1, <1>2 DEF LP!Draw, LP!Live, LP!Settled, L!Settled
<1>4. L!SettleDraw(r, word)
  BY <1>1, <1>3 DEF L!FulfillRandomness, L!IgnoreCallback, L!AwaitsWord
<1>5. requestDraw' = requestDraw /\ \A i \in L!DrawIds : i # id => draws'[i] = draws[i]
  BY <1>4, RequestFacts DEF L!SettleDraw
<1>6. draws'[id].status \in {"NO_WINNER", "WINNER_DECLARED"}
  BY <1>2, <1>4, RequestFacts DEF L!SettleDraw, LP!Draw
<1>7. \A q \in Requests : requestDraw[q] # 0 /\ q # r => requestDraw[q] # id
  BY <1>1, RequestFacts
<1> HIDE DEF id
<1>8. draws'[id].status \in L!Settled
  BY <1>6 DEF L!Settled
<1>9. ASSUME NEW q \in Requests
      PROVE  /\ q \in requested' <=> requestDraw'[q] # 0
             /\ q \in requested' =>
                  (q \in delivered' <=> draws'[requestDraw'[q]].status \in L!Settled)
  <2>1. CASE q = r
    BY <1>1, <1>5, <1>8, <2>1 DEF id
  <2>2. CASE q # r
    BY <1>5, <1>7, <2>2, RequestFacts DEF DeliveredMeansSettled
  <2> QED BY <2>1, <2>2
<1> QED BY <1>9 DEF DeliveredMeansSettled

LEMMA RequestAgrees ==
  ASSUME DeliveredMeansSettled, LP!FullInv, WordsKept,
         NEW id \in L!DrawIds, NEW r \in Requests, PerformDraw(id, r)
  PROVE  DeliveredMeansSettled'
<1>1. r \notin requested /\ r \notin delivered
  BY DEF PerformDraw, NewRequestId, WordsKept
<1>2. /\ requested' = requested \union {r} /\ delivered' = delivered
      /\ requestDraw' = [requestDraw EXCEPT ![r] = id]
      /\ draws[id].status = "ACTIVE"
      /\ draws' = [draws EXCEPT ![id].status = "DRAWING", ![id].requestId = r]
  BY DEF PerformDraw, L!RequestDraw, L!CanPerformDraw, P!RequestRandomness
<1>3. draws'[id].status = "DRAWING" /\ \A i \in L!DrawIds : i # id => draws'[i] = draws[i]
  BY <1>2, RequestFacts DEF LP!Draw
<1>4. id # 0
  BY SystemAssumption DEF L!EnvironmentAssumption, L!DrawIds
<1>5. ASSUME NEW q \in Requests
      PROVE  /\ q \in requested' <=> requestDraw'[q] # 0
             /\ q \in requested' =>
                  (q \in delivered' <=> draws'[requestDraw'[q]].status \in L!Settled)
  <2>1. CASE q = r
    BY <1>1, <1>2, <1>3, <1>4, <2>1, RequestFacts DEF L!Settled
  <2>2. CASE q # r
    <3>1. requestDraw'[q] = requestDraw[q] /\ (q \in requested' <=> q \in requested)
      BY <1>2, <2>2, RequestFacts
    <3>2. requestDraw[q] # 0 => draws'[requestDraw[q]] = draws[requestDraw[q]]
      BY <1>2, <1>3, RequestFacts
    <3> QED BY <1>2, <3>1, <3>2 DEF DeliveredMeansSettled
  <2> QED BY <2>1, <2>2
<1> QED BY <1>5 DEF DeliveredMeansSettled

LEMMA AgreementStep ==
  ASSUME DeliveredMeansSettled, LP!FullInv, WordsKept, [Next]_vars
  PROVE  DeliveredMeansSettled'
<1>0. draws \in [L!DrawIds -> LP!Draw]
  BY RequestFacts
<1>1. ASSUME UNCHANGED <<requested, delivered>>, UNCHANGED lotteryVars
      PROVE  DeliveredMeansSettled'
  BY <1>1, AgreementKept DEF lotteryVars
<1>2. CASE LotteryOnly
  <2>1. UNCHANGED <<requested, delivered, requestDraw>>
    BY <1>2 DEF LotteryOnly, providerVars, L!StartDraw, L!BuyTicket, L!CancelDraw, L!Tick, L!Donate
  <2>2. ASSUME NEW i \in L!DrawIds, draws[i].status # "ACTIVE"
        PROVE  draws'[i].status = draws[i].status
    <3>1. ASSUME NEW n \in 0..MaxDraws, L!StartDraw(n) PROVE draws'[i].status = draws[i].status
      BY <1>0, <3>1 DEF L!StartDraw, LP!Draw
    <3>2. ASSUME NEW w \in Wallets, NEW id \in L!DrawIds, L!BuyTicket(w, id, TicketPrice)
          PROVE  draws'[i].status = draws[i].status
      BY <1>0, <3>2 DEF L!BuyTicket, LP!Draw
    <3>3. ASSUME NEW id \in L!DrawIds, L!CancelDraw(id) PROVE draws'[i].status = draws[i].status
      BY <1>0, <2>2, <3>3 DEF L!CancelDraw, L!CanPerformDraw, LP!Draw
    <3>4. ASSUME L!Tick \/ L!Donate PROVE draws'[i].status = draws[i].status
      BY <3>4 DEF L!Tick, L!Donate
    <3> QED BY <1>2, <3>1, <3>2, <3>3, <3>4 DEF LotteryOnly
  <2> QED BY <2>1, <2>2, AgreementKept
<1>3. ASSUME NEW w \in Wallets, NEW id \in L!DrawIds, ClaimPrize(w, id) \/ ClaimRefund(w, id)
      PROVE  DeliveredMeansSettled'
  <2>1. UNCHANGED <<requested, delivered, requestDraw>>
    BY <1>3 DEF ClaimPrize, ClaimRefund, providerVars, L!ClaimPrize, L!ClaimRefund
  <2>2. ASSUME NEW i \in L!DrawIds
        PROVE  draws'[i].status \in L!Settled <=> draws[i].status \in L!Settled
    BY <1>0, <1>3 DEF ClaimPrize, ClaimRefund, L!ClaimPrize, L!ClaimRefund, L!OwedPrize,
       L!Settled, LP!Draw
  <2> QED BY <2>1, <2>2, AgreementKept
<1>4. ASSUME NEW value \in {Lottery, OtherContract}, SetLottery(value)
      PROVE  DeliveredMeansSettled'
  BY <1>1, <1>4 DEF SetLottery, P!SetLottery
<1>5. ASSUME NEW r \in Requests, NEW word \in Words, NEW accepted \in BOOLEAN,
             Answer(r, word, accepted)
      PROVE  DeliveredMeansSettled'
  <2>1. r \in requested /\ r \notin delivered /\ requested' = requested
    BY <1>5 DEF Answer, P!StoreWord, P!StoresWord, WordsKept
  <2>2. CASE accepted
    BY <1>5, <2>1, <2>2, DeliverySettles DEF Answer, P!StoreWord, P!DeliveredBy
  <2>3. CASE ~accepted
    BY <1>1, <1>5, <2>1, <2>3 DEF Answer, P!StoreWord, P!DeliveredBy
  <2> QED BY <2>2, <2>3
<1>6. ASSUME NEW r \in Requests, NEW word \in Words, AnswerAgain(r, word)
      PROVE  DeliveredMeansSettled'
  BY <1>1, <1>6 DEF AnswerAgain, P!IgnoreWord, P!vars
<1>7. ASSUME NEW r \in Requests, NEW word, P!DeliverWord(r), L!FulfillRandomness(r, word)
      PROVE  DeliveredMeansSettled'
  BY <1>7, DeliverySettles DEF P!DeliverWord, P!MayDeliver, WordsKept
<1>8. ASSUME NEW r, P!DeliverAgain(r), UNCHANGED lotteryVars PROVE DeliveredMeansSettled'
  BY <1>1, <1>8 DEF P!DeliverAgain, P!vars
<1>9. ASSUME NEW id \in L!DrawIds, FinalizeDraw(id) PROVE DeliveredMeansSettled'
  <2>1. draws[id].requestId \in Requests
    BY <1>9 DEF FinalizeDraw, WordsKept
  <2> QED BY <1>7, <1>8, <1>9, <2>1 DEF FinalizeDraw, L!FinalizeDraw
<1>10. ASSUME NEW r \in Requests, Deliver(r) PROVE DeliveredMeansSettled'
  BY <1>7, <1>8, <1>10 DEF Deliver
<1>11. CASE UNCHANGED vars
  BY <1>1, <1>11 DEF vars, providerVars
<1> QED
  BY <1>2, <1>3, <1>4, <1>5, <1>6, <1>9, <1>10, <1>11, RequestAgrees DEF Next

\* A request is delivered exactly when its round is settled, however often the
\* callback fails and whoever retries: no round in drawing is ever stranded as
\* delivered (VRFProvider.sol:52).
THEOREM PairAgrees == Spec => []DeliveredMeansSettled
<1>1. Init => DeliveredMeansSettled
  BY DEF Init, L!Init, P!Init, DeliveredMeansSettled
<1> QED BY <1>1, AgreementStep, LotteryInvariance, WordsInvariance, PTL DEF Spec

-----------------------------------------------------------------------------
(* The pair keeps the promise of Raffle                                    *)

LEMMA SystemTickets == Spec => []LP!TInv
<1> USE SystemAssumption
    DEF L!ConfigurationAssumption, LP!ConfigurationAssumption,
        L!EnvironmentAssumption, LP!EnvironmentAssumption
<1>1. L!Spec => LP!Spec
  BY SameInit, SameStep, PTL DEF L!Spec, LP!Spec
<1>2. LP!Spec => []LP!TInv
  BY LP!TicketsInvariance
<1> QED BY <1>1, <1>2, PairIsALottery

EntriesOf(id) == SubSeq(owners[id], 1, draws[id].participantCount)

\* What the mapping is read from, in reachable states.
LEMMA PromiseFacts ==
  ASSUME LP!TInv, WordsKept
  PROVE  /\ draws \in [L!DrawIds -> LP!Draw] /\ currentDrawId \in 0..MaxDraws
         /\ owners \in [L!DrawIds -> [1..Numbers -> Wallets \union {NoOne}]]
         /\ NoRequest \notin ready
         /\ \A i \in L!DrawIds :
              /\ i > currentDrawId => draws[i] = L!BlankDraw
              /\ i < currentDrawId => draws[i].status \in L!Settled
              /\ draws[i].status = "ACTIVE" => draws[i].requestId = NoRequest
              /\ draws[i].status = "DRAWING" => draws[i].requestId # NoRequest
              /\ draws[i].requestId # NoRequest => requestDraw[draws[i].requestId] = i
              /\ \A k \in 1..Numbers : owners[i][k] # NoOne <=> k <= draws[i].participantCount
              /\ \A k \in 1..Numbers, w \in Wallets : owners[i][k] = w <=> ticketOf[i][w] = k
<1>1. LP!IInv /\ LP!RInv /\ LP!Board
  BY DEF LP!TInv, LP!FullInv
<1>2. /\ draws \in [L!DrawIds -> LP!Draw] /\ currentDrawId \in 0..MaxDraws
      /\ owners \in [L!DrawIds -> [1..Numbers -> Wallets \union {NoOne}]]
  BY <1>1 DEF LP!IInv, LP!TypeOK, LP!DrawIds, L!DrawIds
<1>3. NoRequest \notin ready
  BY SystemAssumption DEF L!EnvironmentAssumption, WordsKept
<1>4. ASSUME NEW i \in L!DrawIds
      PROVE  /\ i > currentDrawId => draws[i] = L!BlankDraw
             /\ i < currentDrawId => draws[i].status \in L!Settled
  BY <1>1 DEF LP!IInv, LP!OneLiveRound, LP!DrawIds, L!DrawIds, LP!BlankDraw, L!BlankDraw,
     LP!Settled, L!Settled
<1>5. ASSUME NEW i \in L!DrawIds
      PROVE  /\ draws[i].status = "ACTIVE" => draws[i].requestId = NoRequest
             /\ draws[i].status = "DRAWING" => draws[i].requestId # NoRequest
             /\ draws[i].requestId # NoRequest => requestDraw[draws[i].requestId] = i
  BY <1>1 DEF LP!RInv, LP!RequestsBelongToOneRound, LP!NoRequestYet, LP!DrawIds, L!DrawIds
<1>6. ASSUME NEW i \in L!DrawIds
      PROVE  /\ \A k \in 1..Numbers : owners[i][k] # NoOne <=> k <= draws[i].participantCount
             /\ \A k \in 1..Numbers, w \in Wallets : owners[i][k] = w <=> ticketOf[i][w] = k
  BY <1>1 DEF LP!Board, LP!DrawIds, L!DrawIds
<1> QED BY <1>2, <1>3, <1>4, <1>5, <1>6

\* What Raffle sees of a round, and that a step leaves it alone.
SameView(id) ==
  /\ PhaseOf(id)' = PhaseOf(id) /\ EntriesOf(id)' = EntriesOf(id)
  /\ WordOf(id)' = WordOf(id) /\ draws'[id].winner = draws[id].winner

LEMMA NothingSeen ==
  ASSUME \A i \in L!DrawIds : SameView(i)
  PROVE  UNCHANGED Promise!vars
<1>1. [i \in L!DrawIds |-> PhaseOf(i)]' = [i \in L!DrawIds |-> PhaseOf(i)]
  BY DEF SameView
<1>2. [i \in L!DrawIds |-> SubSeq(owners[i], 1, draws[i].participantCount)]'
        = [i \in L!DrawIds |-> SubSeq(owners[i], 1, draws[i].participantCount)]
  BY DEF SameView, EntriesOf
<1>3. [i \in L!DrawIds |-> WordOf(i)]' = [i \in L!DrawIds |-> WordOf(i)]
  BY DEF SameView
<1>4. [i \in L!DrawIds |-> draws[i].winner]' = [i \in L!DrawIds |-> draws[i].winner]
  BY DEF SameView
<1> QED BY <1>1, <1>2, <1>3, <1>4 DEF Promise!vars

\* A round whose record, board and word stay as they are.
LEMMA SameRound ==
  ASSUME NEW i \in L!DrawIds,
         currentDrawId' = currentDrawId, owners'[i] = owners[i], draws'[i] = draws[i],
         ready' = ready, words' = words
  PROVE  SameView(i)
BY DEF SameView, PhaseOf, EntriesOf, WordOf

\* The entries of a round are the owners of the tickets sold.
LEMMA EntriesAre ==
  ASSUME LP!TInv, WordsKept, NEW id \in L!DrawIds
  PROVE  /\ draws[id].participantCount \in 0..MaxParticipants
         /\ draws[id].participantCount <= Numbers
         /\ EntriesOf(id) \in Seq(Wallets)
         /\ Len(EntriesOf(id)) = draws[id].participantCount
         /\ \A k \in 1..draws[id].participantCount : EntriesOf(id)[k] = owners[id][k]
<1> DEFINE n == draws[id].participantCount
<1>1. n \in 0..MaxParticipants /\ n \in Int
  BY PromiseFacts, SystemAssumption DEF LP!Draw, L!ConfigurationAssumption
<1>2. MaxParticipants \in Nat /\ Numbers \in Nat /\ MaxParticipants <= Numbers
  BY SystemAssumption DEF L!ConfigurationAssumption
<1>3. \A k \in 1..n : k \in 1..Numbers
  BY <1>1, <1>2
<1>4. ASSUME NEW k \in 1..n PROVE owners[id][k] \in Wallets
  <2>1. k \in 1..Numbers /\ k <= n
    BY <1>1, <1>3
  <2>2. owners[id][k] \in Wallets \union {NoOne}
    <3>1. owners \in [L!DrawIds -> [1..Numbers -> Wallets \union {NoOne}]]
      BY PromiseFacts
    <3> QED BY <2>1, <3>1
  <2>3. owners[id][k] # NoOne
    BY <2>1, PromiseFacts
  <2> QED BY <2>2, <2>3
<1> HIDE DEF n
<1>5. /\ SubSeq(owners[id], 1, n) \in Seq(Wallets)
      /\ Len(SubSeq(owners[id], 1, n)) = IF 1 <= n THEN n - 1 + 1 ELSE 0
      /\ \A k \in 1..(n - 1 + 1) : SubSeq(owners[id], 1, n)[k] = owners[id][1 + k - 1]
  BY <1>1, <1>4, SubSeqProperties
<1>6. \A k \in 1..n : k \in 1..(n - 1 + 1) /\ 1 + k - 1 = k
  BY <1>1
<1>7. \A k \in 1..n : SubSeq(owners[id], 1, n)[k] = owners[id][k]
  BY <1>5, <1>6
<1>8. (IF 1 <= n THEN n - 1 + 1 ELSE 0) = n
  BY <1>1
<1>9. EntriesOf(id) = SubSeq(owners[id], 1, n)
  BY DEF EntriesOf, n
<1> QED BY <1>1, <1>2, <1>5, <1>7, <1>8, <1>9 DEF n

\* What Raffle sees of the rounds when a step changes the view of one of them.
PhaseMap   == [i \in L!DrawIds |-> PhaseOf(i)]
EntriesMap == [i \in L!DrawIds |-> SubSeq(owners[i], 1, draws[i].participantCount)]
WordMap    == [i \in L!DrawIds |-> WordOf(i)]
WinnerMap  == [i \in L!DrawIds |-> draws[i].winner]

LEMMA OneRoundSeen ==
  ASSUME NEW id \in L!DrawIds, \A i \in L!DrawIds : i # id => SameView(i)
  PROVE  /\ PhaseMap'   = [PhaseMap EXCEPT ![id] = PhaseOf(id)']
         /\ EntriesMap' = [EntriesMap EXCEPT ![id] = EntriesOf(id)']
         /\ WordMap'    = [WordMap EXCEPT ![id] = WordOf(id)']
         /\ WinnerMap'  = [WinnerMap EXCEPT ![id] = draws'[id].winner]
         /\ EntriesOf(id)' = EntriesOf(id) => EntriesMap' = EntriesMap
         /\ WordOf(id)' = WordOf(id) => WordMap' = WordMap
         /\ draws'[id].winner = draws[id].winner => WinnerMap' = WinnerMap
         /\ PhaseMap[id] = PhaseOf(id) /\ EntriesMap[id] = EntriesOf(id)
<1>1. PhaseMap' = [PhaseMap EXCEPT ![id] = PhaseOf(id)']
  BY DEF SameView, PhaseMap
<1>2. EntriesMap' = [EntriesMap EXCEPT ![id] = EntriesOf(id)']
  BY DEF SameView, EntriesMap, EntriesOf
<1>3. WordMap' = [WordMap EXCEPT ![id] = WordOf(id)']
  BY DEF SameView, WordMap
<1>4. WinnerMap' = [WinnerMap EXCEPT ![id] = draws'[id].winner]
  BY DEF SameView, WinnerMap
<1>5. EntriesOf(id)' = EntriesOf(id) => EntriesMap' = EntriesMap
  BY DEF SameView, EntriesMap, EntriesOf
<1>6. WordOf(id)' = WordOf(id) => WordMap' = WordMap
  BY DEF SameView, WordMap
<1>7. draws'[id].winner = draws[id].winner => WinnerMap' = WinnerMap
  BY DEF SameView, WinnerMap
<1>8. PhaseMap[id] = PhaseOf(id) /\ EntriesMap[id] = EntriesOf(id)
  BY DEF PhaseMap, EntriesMap, EntriesOf
<1> QED BY <1>1, <1>2, <1>3, <1>4, <1>5, <1>6, <1>7, <1>8

\* startDraw opens the next round, once all earlier ones are over.
LEMMA StartOpens ==
  ASSUME LP!TInv, WordsKept, NEW n \in 0..MaxDraws, L!StartDraw(n), UNCHANGED providerVars,
         NEW id, id = currentDrawId + 1
  PROVE  Promise!Open(id)
<1>0. /\ draws \in [L!DrawIds -> LP!Draw] /\ currentDrawId \in 0..MaxDraws
      /\ MaxDraws \in Nat /\ L!DrawIds = 1..MaxDraws
  BY PromiseFacts, SystemAssumption DEF L!EnvironmentAssumption, L!DrawIds
<1>1. id \in L!DrawIds /\ currentDrawId' = id
  BY <1>0 DEF L!StartDraw
<1>2. /\ owners' = owners /\ ready' = ready /\ words' = words
      /\ \A i \in L!DrawIds : i # id => draws'[i] = draws[i]
  BY <1>0 DEF L!StartDraw, L!tickets, providerVars
<1>3. /\ draws[id] = L!BlankDraw
      /\ draws'[id].status = "ACTIVE" /\ draws'[id].participantCount = draws[id].participantCount
      /\ draws'[id].requestId = draws[id].requestId /\ draws'[id].winner = draws[id].winner
  <2>1. draws[id] = L!BlankDraw
    BY <1>0, <1>1, PromiseFacts
  <2>2. draws'[id] = [draws[id] EXCEPT !.deadline = now + Duration,
                        !.inheritedRollover = pendingRollover, !.pool = pendingRollover]
    BY <1>0, <1>1 DEF L!StartDraw
  <2> QED BY <2>1, <2>2 DEF L!BlankDraw
<1>4. ASSUME NEW i \in L!DrawIds, i # id PROVE SameView(i)
  <2>1. draws'[i] = draws[i] /\ (i > currentDrawId' <=> i > currentDrawId)
    BY <1>0, <1>1, <1>2, <1>4
  <2>2. i <= currentDrawId' <=> i <= currentDrawId
    BY <1>0, <1>1, <1>4
  <2> QED BY <1>2, <2>1, <2>2 DEF SameView, PhaseOf, EntriesOf, WordOf
<1>5. /\ PhaseOf(id) = "unopened" /\ PhaseOf(id)' = "open"
      /\ EntriesOf(id)' = EntriesOf(id) /\ WordOf(id)' = WordOf(id)
  <2>1. PhaseOf(id) = "unopened"
    BY <1>0, <1>3 DEF PhaseOf, L!BlankDraw
  <2>2. PhaseOf(id)' = "open"
    BY <1>0, <1>1, <1>3 DEF PhaseOf
  <2> QED BY <1>2, <1>3, <2>1, <2>2 DEF EntriesOf, WordOf
<1>6. ASSUME NEW q \in L!DrawIds, q < id PROVE PhaseOf(q) \in {"announced", "void"}
  <2>1. q <= currentDrawId /\ ~(q > currentDrawId)
    BY <1>0, <1>6
  <2>2. draws[q].status \in L!Settled
    <3>1. CASE q < currentDrawId
      BY <3>1, PromiseFacts
    <3>2. CASE q = currentDrawId
      BY <1>0, <3>2 DEF L!StartDraw, L!CanStartDraw
    <3> QED BY <1>0, <2>1, <3>1, <3>2
  <2> QED BY <2>1, <2>2 DEF PhaseOf, L!Settled
<1>7. /\ PhaseMap' = [PhaseMap EXCEPT ![id] = "open"]
      /\ EntriesMap' = EntriesMap /\ WordMap' = WordMap /\ WinnerMap' = WinnerMap
  BY <1>1, <1>3, <1>4, <1>5, OneRoundSeen
<1>8. \A q \in L!DrawIds : PhaseMap[q] = PhaseOf(q)
  BY DEF PhaseMap
<1> QED
  BY <1>1, <1>5, <1>6, <1>7, <1>8
  DEF Promise!Open, Promise!Over, PhaseMap, EntriesMap, WordMap, WinnerMap

\* buyTicket adds a new player to the entries of the open round.
LEMMA PurchaseEnters ==
  ASSUME LP!TInv, WordsKept, NEW w \in Wallets, NEW id \in L!DrawIds,
         L!BuyTicket(w, id, TicketPrice), UNCHANGED providerVars
  PROVE  Promise!Enter(w, id)
<1> DEFINE n == draws[id].participantCount
           record == [draws[id] EXCEPT !.participantCount = n + 1, !.pool = @ + TicketPrice]
<1>0. /\ draws \in [L!DrawIds -> LP!Draw] /\ currentDrawId \in 0..MaxDraws
      /\ owners \in [L!DrawIds -> [1..Numbers -> Wallets \union {NoOne}]]
      /\ id = currentDrawId /\ MaxDraws \in Nat /\ L!DrawIds = 1..MaxDraws
  BY PromiseFacts, SystemAssumption DEF L!BuyTicket, L!EnvironmentAssumption, L!DrawIds
<1>1. /\ draws[id].status = "ACTIVE" /\ n < MaxParticipants /\ ticketOf[id][w] = 0
      /\ n \in 0..MaxParticipants /\ MaxParticipants \in Nat /\ Numbers \in Nat
      /\ MaxParticipants <= Numbers
  BY <1>0, SystemAssumption DEF L!BuyTicket, L!OpenForSale, L!HasTicket, LP!Draw,
     L!ConfigurationAssumption
<1>2. n \in Nat /\ n + 1 \in 1..Numbers
  BY <1>1
<1>3. /\ draws' = [draws EXCEPT ![id] = record]
      /\ owners' = [owners EXCEPT ![id][n + 1] = w]
      /\ currentDrawId' = currentDrawId /\ ready' = ready /\ words' = words
  BY <1>0 DEF L!BuyTicket, providerVars
<1>4. /\ draws'[id] = record /\ record.participantCount = n + 1
      /\ record.status = "ACTIVE" /\ record.requestId = draws[id].requestId
      /\ record.winner = draws[id].winner
  BY <1>0, <1>1, <1>3 DEF LP!Draw
<1> HIDE DEF record
<1>5. ASSUME NEW i \in L!DrawIds, i # id PROVE SameView(i)
  BY <1>0, <1>3, <1>5, SameRound
<1>6. PhaseOf(id) = "open" /\ PhaseOf(id)' = "open" /\ WordOf(id)' = WordOf(id)
  <2>1. PhaseOf(id) = "open"
    BY <1>0, <1>1 DEF PhaseOf
  <2>2. PhaseOf(id)' = "open"
    BY <1>0, <1>3, <1>4 DEF PhaseOf
  <2>3. WordOf(id)' = WordOf(id)
    BY <1>3, <1>4 DEF WordOf
  <2> QED BY <2>1, <2>2, <2>3
<1>7. /\ EntriesOf(id) \in Seq(Wallets) /\ Len(EntriesOf(id)) = n
      /\ \A k \in 1..n : EntriesOf(id)[k] = owners[id][k]
  BY EntriesAre
<1>8. \A k \in 1..n : EntriesOf(id)[k] # w
  <2>1. \A k \in 1..n : k \in 1..Numbers /\ k # 0
    BY <1>1
  <2>2. \A k \in 1..Numbers : owners[id][k] = w <=> ticketOf[id][w] = k
    BY PromiseFacts
  <2> QED BY <1>1, <1>7, <2>1, <2>2
<1>9. EntriesOf(id)' = Append(EntriesOf(id), w)
  <2> DEFINE sold == owners'[id]
  <2>1. sold = [owners[id] EXCEPT ![n + 1] = w] /\ owners[id] \in [1..Numbers -> Wallets \union {NoOne}]
    BY <1>0, <1>3
  <2>2. \A k \in 1..(n + 1) : sold[k] = IF k = n + 1 THEN w ELSE owners[id][k]
    BY <1>1, <1>2, <2>1
  <2>3. \A k \in 1..(n + 1) : k # n + 1 => k \in 1..n
    BY <1>2
  <2>4. EntriesOf(id)' = SubSeq(sold, 1, n + 1)
    BY <1>4 DEF EntriesOf
  <2> HIDE DEF sold, n
  <2>5. \A k \in 1..(n + 1) : sold[k] \in Wallets
    <3>1. \A k \in 1..n : EntriesOf(id)[k] \in Wallets
      BY <1>7, <1>2
    <3> QED BY <1>7, <2>2, <2>3, <3>1
  <2>6. /\ SubSeq(sold, 1, n + 1) \in Seq(Wallets)
        /\ Len(SubSeq(sold, 1, n + 1)) = n + 1
        /\ \A k \in 1..(n + 1) : SubSeq(sold, 1, n + 1)[k] = sold[k]
    <3>1. /\ SubSeq(sold, 1, n + 1) \in Seq(Wallets)
          /\ Len(SubSeq(sold, 1, n + 1)) = IF 1 <= n + 1 THEN n + 1 - 1 + 1 ELSE 0
          /\ \A k \in 1..(n + 1 - 1 + 1) : SubSeq(sold, 1, n + 1)[k] = sold[1 + k - 1]
      BY <1>2, <2>5, SubSeqProperties
    <3>2. (IF 1 <= n + 1 THEN n + 1 - 1 + 1 ELSE 0) = n + 1 /\ n + 1 - 1 + 1 = n + 1
      BY <1>2
    <3>3. \A k \in 1..(n + 1) : 1 + k - 1 = k
      BY <1>2
    <3> QED BY <3>1, <3>2, <3>3
  <2>7. /\ Append(EntriesOf(id), w) \in Seq(Wallets) /\ Len(Append(EntriesOf(id), w)) = n + 1
        /\ \A k \in 1..(n + 1) :
             Append(EntriesOf(id), w)[k] = IF k = n + 1 THEN w ELSE EntriesOf(id)[k]
    BY <1>2, <1>7, AppendProperties
  <2>8. \A k \in 1..(n + 1) : SubSeq(sold, 1, n + 1)[k] = Append(EntriesOf(id), w)[k]
    BY <1>7, <2>2, <2>3, <2>6, <2>7
  <2> QED BY <2>4, <2>6, <2>7, <2>8, SeqEqual
<1>10. /\ EntriesMap' = [EntriesMap EXCEPT ![id] = Append(EntriesMap[id], w)]
       /\ PhaseMap' = PhaseMap /\ WordMap' = WordMap /\ WinnerMap' = WinnerMap
       /\ PhaseMap[id] = "open" /\ EntriesMap[id] = EntriesOf(id)
  <2>1. \A i \in L!DrawIds : PhaseOf(i)' = PhaseOf(i)
    BY <1>5, <1>6 DEF SameView
  <2>2. PhaseMap' = PhaseMap
    BY <2>1 DEF PhaseMap
  <2> QED BY <1>4, <1>5, <1>6, <1>9, <2>2, OneRoundSeen
<1>11. Len(EntriesMap[id]) < MaxParticipants /\ \A k \in DOMAIN EntriesMap[id] : EntriesMap[id][k] # w
  BY <1>1, <1>7, <1>8, <1>10
<1> QED
  BY <1>10, <1>11 DEF Promise!Enter, PhaseMap, EntriesMap, WordMap, WinnerMap

\* performDraw voids a round with too few entries, and closes one with enough.
LEMMA DrawClosesOrVoids ==
  ASSUME LP!TInv, WordsKept, NEW id \in L!DrawIds,
         \/ L!CancelDraw(id) /\ UNCHANGED providerVars
         \/ \E r \in Requests : PerformDraw(id, r)
  PROVE  Promise!Void(id) \/ Promise!Close(id)
<1>0. /\ draws \in [L!DrawIds -> LP!Draw] /\ currentDrawId \in 0..MaxDraws
      /\ MaxDraws \in Nat /\ L!DrawIds = 1..MaxDraws
  BY PromiseFacts, SystemAssumption DEF L!EnvironmentAssumption, L!DrawIds
<1>1. id = currentDrawId /\ draws[id].status = "ACTIVE"
  BY DEF PerformDraw, L!RequestDraw, L!CancelDraw, L!CanPerformDraw
<1>2. /\ draws[id].requestId = NoRequest /\ NoRequest \notin ready
      /\ Len(EntriesOf(id)) = draws[id].participantCount
  BY <1>1, PromiseFacts, EntriesAre
<1>3. PhaseOf(id) = "open"
  BY <1>0, <1>1 DEF PhaseOf
<1>4. CASE L!CancelDraw(id) /\ UNCHANGED providerVars
  <2>1. /\ draws' = [draws EXCEPT ![id].status = "CANCELLED"] /\ owners' = owners
        /\ currentDrawId' = currentDrawId /\ ready' = ready /\ words' = words
        /\ draws[id].participantCount < MinimumParticipants
    BY <1>4 DEF L!CancelDraw, L!tickets, providerVars
  <2>2. /\ draws'[id].status = "CANCELLED" /\ draws'[id].requestId = draws[id].requestId
        /\ draws'[id].winner = draws[id].winner
        /\ draws'[id].participantCount = draws[id].participantCount
    BY <1>0, <2>1 DEF LP!Draw
  <2>3. ASSUME NEW i \in L!DrawIds, i # id PROVE SameView(i)
    BY <1>0, <2>1, <2>3, SameRound
  <2>4. PhaseOf(id)' = "void"
    BY <1>0, <1>1, <2>1, <2>2 DEF PhaseOf
  <2>5. WordOf(id)' = WordOf(id) /\ EntriesOf(id)' = EntriesOf(id)
    <3>1. WordOf(id)' = WordOf(id)
      BY <2>1, <2>2 DEF WordOf
    <3>2. EntriesOf(id)' = EntriesOf(id)
      BY <2>1, <2>2 DEF EntriesOf
    <3> QED BY <3>1, <3>2
  <2>6. /\ PhaseMap' = [PhaseMap EXCEPT ![id] = "void"] /\ PhaseMap[id] = "open"
        /\ EntriesMap' = EntriesMap /\ WordMap' = WordMap /\ WinnerMap' = WinnerMap
        /\ Len(EntriesMap[id]) < MinimumParticipants
    BY <1>2, <1>3, <2>1, <2>2, <2>3, <2>4, <2>5, OneRoundSeen
  <2>7. Promise!Void(id)
    BY <2>6 DEF Promise!Void, PhaseMap, EntriesMap, WordMap, WinnerMap
  <2> QED BY <2>7
<1>5. ASSUME NEW r \in Requests, PerformDraw(id, r) PROVE Promise!Close(id)
  <2>1. /\ draws' = [draws EXCEPT ![id].status = "DRAWING", ![id].requestId = r]
        /\ owners' = owners /\ currentDrawId' = currentDrawId
        /\ ready' = ready /\ words' = words
        /\ draws[id].participantCount >= MinimumParticipants
        /\ r \notin ready
    BY <1>5 DEF PerformDraw, NewRequestId, L!RequestDraw, P!RequestRandomness, L!tickets, WordsKept
  <2>2. /\ draws'[id].status = "DRAWING" /\ draws'[id].requestId = r
        /\ draws'[id].winner = draws[id].winner
        /\ draws'[id].participantCount = draws[id].participantCount
    BY <1>0, <2>1 DEF LP!Draw
  <2>3. ASSUME NEW i \in L!DrawIds, i # id PROVE SameView(i)
    BY <1>0, <2>1, <2>3, SameRound
  <2>4. PhaseOf(id)' = "closed"
    BY <1>0, <1>1, <2>1, <2>2 DEF PhaseOf
  <2>5. WordOf(id)' = WordOf(id) /\ EntriesOf(id)' = EntriesOf(id)
    <3>1. WordOf(id)' = -1 /\ WordOf(id) = -1
      BY <1>2, <2>1, <2>2 DEF WordOf
    <3>2. EntriesOf(id)' = EntriesOf(id)
      BY <2>1, <2>2 DEF EntriesOf
    <3> QED BY <3>1, <3>2
  <2>6. /\ PhaseMap' = [PhaseMap EXCEPT ![id] = "closed"] /\ PhaseMap[id] = "open"
        /\ EntriesMap' = EntriesMap /\ WordMap' = WordMap /\ WinnerMap' = WinnerMap
        /\ Len(EntriesMap[id]) >= MinimumParticipants
    BY <1>2, <1>3, <2>1, <2>2, <2>3, <2>4, <2>5, OneRoundSeen
  <2> QED BY <2>6 DEF Promise!Close, PhaseMap, EntriesMap, WordMap, WinnerMap
<1> QED BY <1>4, <1>5

\* A request that is asked for and not delivered belongs to a round in drawing.
LEMMA Undelivered ==
  ASSUME LP!TInv, WordsKept, DeliveredMeansSettled,
         NEW r \in Requests, r \in requested, r \notin delivered
  PROVE  /\ requestDraw[r] \in L!DrawIds
         /\ draws[requestDraw[r]].status = "DRAWING"
         /\ draws[requestDraw[r]].requestId = r
<1>1. /\ requestDraw[r] # 0 /\ draws[requestDraw[r]].status \notin L!Settled
  BY DEF DeliveredMeansSettled
<1>2. /\ requestDraw[r] \in L!DrawIds /\ draws[requestDraw[r]] \in LP!Draw
      /\ draws[requestDraw[r]].status # "ACTIVE" /\ draws[requestDraw[r]].requestId = r
  BY <1>1, RequestFacts DEF LP!TInv
<1> QED BY <1>1, <1>2 DEF LP!Draw, LP!Live, LP!Settled, L!Settled

\* What the providers do to words reaches no round but the request's own.
LEMMA OthersUnseen ==
  ASSUME LP!TInv, WordsKept, NEW r \in Requests, NEW id \in L!DrawIds, requestDraw[r] = id,
         currentDrawId' = currentDrawId, owners' = owners,
         \A i \in L!DrawIds : i # id => draws'[i] = draws[i],
         \A q : q # r => (q \in ready' <=> q \in ready) /\ words'[q] = words[q],
         NEW i \in L!DrawIds, i # id
  PROVE  SameView(i)
<1> DEFINE q == draws[i].requestId
<1>1. draws'[i] = draws[i] /\ owners'[i] = owners[i]
  OBVIOUS
<1>2. q # r
  <2>1. q # NoRequest => requestDraw[q] = i
    BY PromiseFacts
  <2> QED BY <2>1, SystemAssumption DEF L!EnvironmentAssumption
<1>3. (q \in ready' <=> q \in ready) /\ words'[q] = words[q]
  BY <1>2
<1>4. WordOf(i)' = WordOf(i)
  BY <1>1, <1>3 DEF WordOf
<1>5. PhaseOf(i)' = PhaseOf(i)
  BY <1>1, <1>3 DEF PhaseOf
<1>6. EntriesOf(i)' = EntriesOf(i)
  BY <1>1 DEF EntriesOf
<1> QED BY <1>1, <1>4, <1>5, <1>6 DEF SameView

\* A callback settles its round: the winner is the entry the word points at.
LEMMA CallbackAnnounces ==
  ASSUME LP!TInv, WordsKept, DeliveredMeansSettled,
         NEW r \in Requests, r \in requested, r \notin delivered,
         NEW word \in Words, L!FulfillRandomness(r, word),
         r \in ready', words'[r] = word,
         \A q : q # r => (q \in ready' <=> q \in ready) /\ words'[q] = words[q],
         NEW id, id = requestDraw[r]
  PROVE  /\ r \in ready /\ words[r] = word => Promise!Announce(id)
         /\ r \notin ready => Promise!DrawAndAnnounce(id, word)
<1> DEFINE lucky == (word % Numbers) + 1
<1>1. id = requestDraw[r]
  OBVIOUS
<1>2. /\ id \in L!DrawIds /\ draws[id].status = "DRAWING" /\ draws[id].requestId = r
      /\ L!SettleDraw(r, word)
  <2>1. id \in L!DrawIds /\ draws[id].status = "DRAWING" /\ draws[id].requestId = r
    BY <1>1, Undelivered
  <2>2. id # 0
    BY <2>1, SystemAssumption DEF L!EnvironmentAssumption, L!DrawIds
  <2> QED BY <1>1, <2>1, <2>2 DEF L!FulfillRandomness, L!IgnoreCallback, L!AwaitsWord
<1>3. /\ draws \in [L!DrawIds -> LP!Draw] /\ currentDrawId' = currentDrawId
      /\ owners' = owners
      /\ \A i \in L!DrawIds : i # id => draws'[i] = draws[i]
  BY <1>1, <1>2, PromiseFacts DEF L!SettleDraw, L!tickets
<1>4. /\ draws'[id].requestId = r /\ draws'[id].winner = owners[id][lucky]
      /\ draws'[id].status \in {"NO_WINNER", "WINNER_DECLARED"}
      /\ draws'[id].participantCount = draws[id].participantCount
  <2> DEFINE fee == L!DaoFee(draws[id].pool)
             prize == draws[id].pool - fee
  <2>1. /\ owners[id][lucky] = NoOne =>
             draws' = [draws EXCEPT ![id].status = "NO_WINNER", ![id].luckyNumber = lucky,
                                    ![id].winner = NoOne]
        /\ owners[id][lucky] # NoOne =>
             draws' = [draws EXCEPT ![id].status = "WINNER_DECLARED",
                                    ![id].luckyNumber = lucky, ![id].winner = owners[id][lucky],
                                    ![id].daoFee = fee, ![id].winnerPrize = prize]
    <3>1. L!TicketOwner(requestDraw[r], L!LuckyNumber(word)) = owners[id][lucky]
      BY DEF L!TicketOwner, L!LuckyNumber
    <3>2. L!LuckyNumber(word) = lucky
      BY DEF L!LuckyNumber
    <3> HIDE DEF lucky
    <3> QED BY <1>1, <1>2, <3>1, <3>2 DEF L!SettleDraw
  <2> HIDE DEF fee, prize, lucky
  <2>2. CASE owners[id][lucky] = NoOne
    <3>1. draws'[id] = [draws[id] EXCEPT !.status = "NO_WINNER", !.luckyNumber = lucky,
                                         !.winner = NoOne]
      BY <1>2, <1>3, <2>1, <2>2
    <3> QED BY <1>2, <1>3, <2>2, <3>1 DEF LP!Draw
  <2>3. CASE owners[id][lucky] # NoOne
    <3>1. draws'[id] = [draws[id] EXCEPT !.status = "WINNER_DECLARED",
                              !.luckyNumber = lucky, !.winner = owners[id][lucky],
                              !.daoFee = fee, !.winnerPrize = prize]
      BY <1>2, <1>3, <2>1, <2>3
    <3> QED BY <1>2, <1>3, <3>1 DEF LP!Draw
  <2> QED BY <2>2, <2>3
<1>5. ASSUME NEW i \in L!DrawIds, i # id PROVE SameView(i)
  BY <1>1, <1>2, <1>3, <1>5, OthersUnseen
<1>6. ~(id > currentDrawId) /\ id <= currentDrawId
  <2>1. id > currentDrawId => draws[id].status = "ACTIVE"
    BY <1>2, PromiseFacts DEF L!BlankDraw
  <2>2. id \in Int /\ currentDrawId \in Int
    BY <1>2, PromiseFacts, SystemAssumption DEF L!EnvironmentAssumption, L!DrawIds
  <2> QED BY <1>2, <2>1, <2>2
<1>7. PhaseOf(id)' = "announced"
  BY <1>3, <1>4, <1>6 DEF PhaseOf
<1>8. /\ r \in ready => PhaseOf(id) = "drawn" /\ WordOf(id) = words[r]
      /\ r \notin ready => PhaseOf(id) = "closed"
  <2>1. r \in ready => PhaseOf(id) = "drawn"
    BY <1>2, <1>6 DEF PhaseOf
  <2>2. r \notin ready => PhaseOf(id) = "closed"
    BY <1>2, <1>6 DEF PhaseOf
  <2> QED BY <1>2, <2>1, <2>2 DEF WordOf
<1>9. WordOf(id)' = word
  BY <1>4 DEF WordOf
<1>10. EntriesOf(id)' = EntriesOf(id)
  BY <1>3, <1>4 DEF EntriesOf
<1>11. draws'[id].winner = IF lucky <= Len(EntriesOf(id)) THEN EntriesOf(id)[lucky] ELSE NoOne
  <2> DEFINE n == draws[id].participantCount
  <2>1. lucky \in 1..Numbers
    BY SystemAssumption DEF L!ConfigurationAssumption, L!EnvironmentAssumption
  <2>2. owners[id][lucky] # NoOne <=> lucky <= n
    BY <1>2, <2>1, PromiseFacts
  <2>3. /\ n \in Int /\ Len(EntriesOf(id)) = n
        /\ \A k \in 1..n : EntriesOf(id)[k] = owners[id][k]
    BY <1>2, EntriesAre
  <2>4. CASE lucky <= n
    <3>1. lucky \in 1..n
      BY <2>1, <2>3, <2>4, SystemAssumption DEF L!ConfigurationAssumption
    <3> QED BY <1>4, <2>3, <2>4, <3>1
  <2>5. CASE ~(lucky <= n)
    BY <1>4, <2>2, <2>3, <2>5
  <2> QED BY <2>4, <2>5
<1>12. /\ PhaseMap' = [PhaseMap EXCEPT ![id] = "announced"] /\ PhaseMap[id] = PhaseOf(id)
       /\ EntriesMap' = EntriesMap /\ EntriesMap[id] = EntriesOf(id)
       /\ WordMap' = [WordMap EXCEPT ![id] = word] /\ WordMap[id] = WordOf(id)
       /\ WinnerMap' = [WinnerMap EXCEPT ![id] = draws'[id].winner]
       /\ WordOf(id)' = WordOf(id) => WordMap' = WordMap
  <2>1. WordMap[id] = WordOf(id)
    BY <1>2 DEF WordMap
  <2> QED BY <1>2, <1>5, <1>7, <1>9, <1>10, <2>1, OneRoundSeen
<1>13. draws'[id].winner = Promise!Chosen(id, word)
  BY <1>11, <1>12 DEF Promise!Chosen, EntriesMap
<1>14. ASSUME r \in ready, words[r] = word PROVE Promise!Announce(id)
  <2>1. WordMap' = WordMap /\ PhaseMap[id] = "drawn" /\ WordMap[id] = word
    BY <1>8, <1>9, <1>12, <1>14
  <2> QED
    BY <1>12, <1>13, <2>1 DEF Promise!Announce, PhaseMap, EntriesMap, WordMap, WinnerMap
<1>15. ASSUME r \notin ready PROVE Promise!DrawAndAnnounce(id, word)
  BY <1>8, <1>12, <1>13, <1>15
  DEF Promise!DrawAndAnnounce, PhaseMap, EntriesMap, WordMap, WinnerMap
<1> QED BY <1>14, <1>15

\* The first answer to a request whose callback fails: the word is drawn.
LEMMA AnswerDraws ==
  ASSUME LP!TInv, WordsKept, DeliveredMeansSettled,
         NEW r \in Requests, NEW word \in Words, Answer(r, word, FALSE),
         NEW id, id = requestDraw[r]
  PROVE  Promise!DrawWord(id, word)
<1>1. /\ r \in requested /\ r \notin ready /\ r \notin delivered
      /\ ready' = ready \union {r} /\ words' = [words EXCEPT ![r] = word]
      /\ UNCHANGED lotteryVars
  BY DEF Answer, P!StoreWord, P!StoresWord, P!ReadyAfter, WordsKept
<1>2. /\ id \in L!DrawIds /\ draws[id].status = "DRAWING" /\ draws[id].requestId = r
  BY <1>1, Undelivered
<1>3. /\ draws' = draws /\ owners' = owners /\ currentDrawId' = currentDrawId
      /\ words'[r] = word /\ r \in ready'
      /\ \A q : q # r => (q \in ready' <=> q \in ready) /\ words'[q] = words[q]
  BY <1>1 DEF lotteryVars, WordsKept
<1>4. ASSUME NEW i \in L!DrawIds, i # id PROVE SameView(i)
  BY <1>2, <1>3, <1>4, OthersUnseen
<1>5. ~(id > currentDrawId) /\ id <= currentDrawId
  <2>1. id > currentDrawId => draws[id].status = "ACTIVE"
    BY <1>2, PromiseFacts DEF L!BlankDraw
  <2>2. id \in Int /\ currentDrawId \in Int
    BY <1>2, PromiseFacts, SystemAssumption DEF L!EnvironmentAssumption, L!DrawIds
  <2> QED BY <1>2, <2>1, <2>2
<1>6. PhaseOf(id) = "closed"
  BY <1>1, <1>2, <1>5 DEF PhaseOf
<1>7. PhaseOf(id)' = "drawn"
  BY <1>2, <1>3, <1>5 DEF PhaseOf
<1>8. WordOf(id)' = word
  BY <1>2, <1>3 DEF WordOf
<1>9. EntriesOf(id)' = EntriesOf(id)
  BY <1>3 DEF EntriesOf
<1>10. /\ PhaseMap' = [PhaseMap EXCEPT ![id] = "drawn"] /\ PhaseMap[id] = "closed"
       /\ EntriesMap' = EntriesMap /\ WinnerMap' = WinnerMap
       /\ WordMap' = [WordMap EXCEPT ![id] = word]
  BY <1>2, <1>3, <1>4, <1>6, <1>7, <1>8, <1>9, OneRoundSeen
<1> QED BY <1>10 DEF Promise!DrawWord, PhaseMap, EntriesMap, WordMap, WinnerMap

\* The steps that Raffle does not see: time, gifts, claims, binding, repeated answers.
LEMMA ClaimUnseen ==
  ASSUME LP!TInv, NEW w \in Wallets, NEW id \in L!DrawIds, ClaimPrize(w, id) \/ ClaimRefund(w, id),
         NEW i \in L!DrawIds
  PROVE  SameView(i)
<1>1. /\ currentDrawId' = currentDrawId /\ owners' = owners /\ ready' = ready /\ words' = words
      /\ \/ draws' = draws
         \/ draws[id].status = "WINNER_DECLARED" /\ draws' = [draws EXCEPT ![id].status = "COMPLETED"]
  BY DEF ClaimPrize, ClaimRefund, L!ClaimPrize, L!ClaimRefund, L!OwedPrize, L!tickets, providerVars
<1>2. draws \in [L!DrawIds -> LP!Draw]
  BY RequestFacts DEF LP!TInv
<1>3. CASE draws'[i] = draws[i]
  BY <1>1, <1>3, SameRound
<1>4. CASE draws'[i] # draws[i]
  <2>1. i = id /\ draws[i].status = "WINNER_DECLARED" /\ draws'[i].status = "COMPLETED"
    BY <1>1, <1>2, <1>4 DEF LP!Draw
  <2>2. /\ draws'[i].requestId = draws[i].requestId /\ draws'[i].winner = draws[i].winner
        /\ draws'[i].participantCount = draws[i].participantCount
    BY <1>1, <1>2, <2>1 DEF LP!Draw
  <2>3. PhaseOf(i)' = PhaseOf(i)
    BY <1>1, <2>1 DEF PhaseOf
  <2>4. WordOf(i)' = WordOf(i)
    BY <1>1, <2>2 DEF WordOf
  <2>5. EntriesOf(i)' = EntriesOf(i)
    BY <1>1, <2>2 DEF EntriesOf
  <2> QED BY <2>2, <2>3, <2>4, <2>5 DEF SameView
<1> QED BY <1>3, <1>4

LEMMA PromiseStep ==
  ASSUME LP!TInv, WordsKept, DeliveredMeansSettled, [Next]_vars
  PROVE  [Promise!Next]_(Promise!vars)
<1>1. ASSUME UNCHANGED <<currentDrawId, draws, owners, ready, words>>
      PROVE  UNCHANGED Promise!vars
  BY <1>1, SameRound, NothingSeen
<1>2. CASE LotteryOnly
  <2>1. ASSUME NEW n \in 0..MaxDraws, L!StartDraw(n), UNCHANGED providerVars PROVE Promise!Next
    <3>1. PICK id : id = currentDrawId + 1
      OBVIOUS
    <3>2. Promise!Open(id) /\ id \in L!DrawIds
      <4>1. Promise!Open(id)
        BY <2>1, <3>1, StartOpens
      <4>2. id \in L!DrawIds
        BY <2>1, <3>1, PromiseFacts, SystemAssumption
        DEF L!StartDraw, L!EnvironmentAssumption, L!DrawIds
      <4> QED BY <4>1, <4>2
    <3> QED BY <3>2 DEF Promise!Next
  <2>2. ASSUME NEW w \in Wallets, NEW id \in L!DrawIds, L!BuyTicket(w, id, TicketPrice),
               UNCHANGED providerVars
        PROVE  Promise!Next
    BY <2>2, PurchaseEnters DEF Promise!Next
  <2>3. ASSUME NEW id \in L!DrawIds, L!CancelDraw(id), UNCHANGED providerVars PROVE Promise!Next
    BY <2>3, DrawClosesOrVoids DEF Promise!Next
  <2>4. ASSUME L!Tick \/ L!Donate, UNCHANGED providerVars PROVE UNCHANGED Promise!vars
    BY <1>1, <2>4 DEF L!Tick, L!Donate, L!tickets, providerVars
  <2> QED BY <1>2, <2>1, <2>2, <2>3, <2>4 DEF LotteryOnly
<1>3. ASSUME NEW w \in Wallets, NEW id \in L!DrawIds, ClaimPrize(w, id) \/ ClaimRefund(w, id)
      PROVE  UNCHANGED Promise!vars
  BY <1>3, ClaimUnseen, NothingSeen
<1>4. ASSUME NEW value \in {Lottery, OtherContract}, SetLottery(value)
      PROVE  UNCHANGED Promise!vars
  BY <1>1, <1>4 DEF SetLottery, P!SetLottery, lotteryVars
<1>5. ASSUME NEW id \in L!DrawIds, NEW r \in Requests, PerformDraw(id, r) PROVE Promise!Next
  BY <1>5, DrawClosesOrVoids DEF Promise!Next
<1>6. ASSUME NEW r \in Requests, NEW word \in Words, NEW accepted \in BOOLEAN,
             Answer(r, word, accepted)
      PROVE  Promise!Next
  <2>1. PICK id : id = requestDraw[r]
    OBVIOUS
  <2>2. /\ r \in requested /\ r \notin ready /\ r \notin delivered
        /\ ready' = ready \union {r} /\ words' = [words EXCEPT ![r] = word]
    BY <1>6 DEF Answer, P!StoreWord, P!StoresWord, P!ReadyAfter, WordsKept
  <2>3. id \in L!DrawIds
    BY <2>1, <2>2, Undelivered
  <2>4. CASE accepted
    <3>1. L!FulfillRandomness(r, word)
      BY <1>6, <2>4 DEF Answer
    <3>2. /\ r \in ready' /\ words'[r] = word
          /\ \A q : q # r => (q \in ready' <=> q \in ready) /\ words'[q] = words[q]
      BY <2>2 DEF WordsKept
    <3>3. Promise!DrawAndAnnounce(id, word)
      BY <2>1, <2>2, <3>1, <3>2, CallbackAnnounces
    <3> QED BY <2>3, <3>3 DEF Promise!Next
  <2>5. CASE ~accepted
    <3>1. accepted = FALSE
      BY <2>5
    <3>2. Answer(r, word, FALSE)
      BY <1>6, <3>1
    <3>3. Promise!DrawWord(id, word)
      BY <2>1, <3>2, AnswerDraws
    <3> QED BY <2>3, <3>3 DEF Promise!Next
  <2> QED BY <2>4, <2>5
<1>7. ASSUME NEW r \in Requests, NEW word \in Words, AnswerAgain(r, word)
      PROVE  UNCHANGED Promise!vars
  BY <1>1, <1>7 DEF AnswerAgain, P!IgnoreWord, P!vars, lotteryVars
<1>8. ASSUME NEW r \in Requests, P!DeliverWord(r), L!FulfillRandomness(r, words[r])
      PROVE  Promise!Next
  <2>1. PICK id : id = requestDraw[r]
    OBVIOUS
  <2>2. PICK word : word = words[r]
    OBVIOUS
  <2>3. /\ r \in ready /\ r \in requested /\ r \notin delivered /\ word \in Words
        /\ ready' = ready /\ words' = words
    BY <1>8, <2>2 DEF P!DeliverWord, P!MayDeliver, WordsKept
  <2>4. L!FulfillRandomness(r, word)
    BY <1>8, <2>2 DEF L!FulfillRandomness, L!SettleDraw
  <2>5. id \in L!DrawIds
    BY <2>1, <2>3, Undelivered
  <2>6. Promise!Announce(id)
    BY <2>1, <2>2, <2>3, <2>4, CallbackAnnounces
  <2> QED BY <2>5, <2>6 DEF Promise!Next
<1>9. ASSUME NEW r, P!DeliverAgain(r), UNCHANGED lotteryVars PROVE UNCHANGED Promise!vars
  BY <1>1, <1>9 DEF P!DeliverAgain, P!vars, lotteryVars
<1>10. ASSUME NEW id \in L!DrawIds, FinalizeDraw(id) PROVE [Promise!Next]_(Promise!vars)
  <2>1. draws[id].requestId \in Requests
    BY <1>10 DEF FinalizeDraw, WordsKept
  <2> QED BY <1>8, <1>9, <1>10, <2>1 DEF FinalizeDraw, L!FinalizeDraw
<1>11. ASSUME NEW r \in Requests, Deliver(r) PROVE [Promise!Next]_(Promise!vars)
  BY <1>8, <1>9, <1>11 DEF Deliver
<1>12. CASE UNCHANGED vars
  BY <1>1, <1>12 DEF vars, lotteryVars, providerVars
<1> QED
  BY <1>2, <1>3, <1>4, <1>5, <1>6, <1>7, <1>10, <1>11, <1>12 DEF Next

\* The deployed pair is a fair raffle: the entries of a round are fixed before
\* its word is drawn, one word is drawn for it, whatever the coordinator repeats
\* and whoever retries, and the winner announced is the entry that the word
\* points at (DLottery.sol:158, VRFProvider.sol:45).
THEOREM PromiseIsKept == Spec => KeepsPromise
<1>1. Init => Promise!Init
  <2> SUFFICES ASSUME Init PROVE Promise!Init
    OBVIOUS
  <2>1. /\ currentDrawId = 0 /\ draws = [i \in L!DrawIds |-> L!BlankDraw] /\ ready = {}
    BY DEF Init, L!Init, P!Init
  <2>2. \A i \in L!DrawIds : i > 0
    BY SystemAssumption DEF L!EnvironmentAssumption, L!DrawIds
  <2>3. ASSUME NEW i \in L!DrawIds PROVE PhaseOf(i) = "unopened"
    <3>1. i > currentDrawId /\ ~(i <= currentDrawId) /\ draws[i].status = "ACTIVE"
      BY <2>1, <2>2, SystemAssumption DEF L!BlankDraw, L!EnvironmentAssumption, L!DrawIds
    <3> QED BY <3>1 DEF PhaseOf
  <2>4. \A i \in L!DrawIds : WordOf(i) = -1
    BY <2>1 DEF WordOf
  <2>5. \A i \in L!DrawIds : draws[i].winner = NoOne /\ draws[i].participantCount = 0
    BY <2>1 DEF L!BlankDraw
  <2>6. \A i \in L!DrawIds : SubSeq(owners[i], 1, draws[i].participantCount) = <<>>
    BY <2>5, SubSeqEmpty
  <2> QED BY <2>3, <2>4, <2>5, <2>6 DEF Promise!Init
<1>2. LP!TInv /\ WordsKept /\ DeliveredMeansSettled /\ [Next]_vars
        => [Promise!Next]_(Promise!vars)
  BY PromiseStep
<1> QED
  BY <1>1, <1>2, SystemTickets, WordsInvariance, PairAgrees, PTL
  DEF Spec, KeepsPromise, Promise!Spec
===============================================================================
