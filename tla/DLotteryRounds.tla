---------------------------- MODULE DLotteryRounds ----------------------------
(* DLottery keeps the promises of Rounds, the contract its clients rely on. *)
EXTENDS DLottery

Client == INSTANCE Rounds WITH
       Players <- Wallets, Nobody <- NoOne, MaxRounds <- MaxDraws,
       Minimum <- MinimumParticipants, Maximum <- MaxParticipants

\* What a client reads of the contract's storage.
book ==
  [current  |-> currentDrawId,
   status   |-> [id \in DrawIds |-> draws[id].status],
   holders  |-> [id \in DrawIds |-> {w \in Wallets : ticketOf[id][w] # 0}],
   winner   |-> [id \in DrawIds |-> draws[id].winner],
   refunded |-> [id \in DrawIds |-> {w \in Wallets : refunded[id][w]}],
   closed   |-> currentDrawId # 0 /\ now >= draws[currentDrawId].deadline]

\* Every transaction of the contract and every passing of time is, for a
\* client, one accepted call of Rounds, the passing of a deadline, or nothing.
KeepsRounds ==
  /\ book = Client!EmptyBook
  /\ [][\E before \in {book}, after \in {book'} : Client!Step(before, after)]_book
===============================================================================
