-------------------------- MODULE SepoliaCheckProofs --------------------------
(***************************************************************************)
(* Proofs about SepoliaCheck, the acceptance script that runs against      *)
(* Sepolia: what it reports is true and no step is sent twice, for any     *)
(* number of wallets, rounds and mishaps.                                  *)
(***************************************************************************)
EXTENDS SepoliaCheck, SequenceTheorems, FiniteSetTheorems, TLAPS

-----------------------------------------------------------------------------
(* The contract's rounds only go forward                                   *)

\* What a book b of the contract shows stays so in book c: tickets are kept, a
\* draw is not undone, and a round that ended keeps its winner and its status,
\* but for the claim of the prize.
Keeps(b, c) ==
  /\ c.current >= b.current
  /\ \A id \in RoundIds :
       /\ b.holders[id] \subseteq c.holders[id]
       /\ b.status[id] # "ACTIVE" => c.status[id] # "ACTIVE"
       /\ b.status[id] \in Ended =>
            /\ c.winner[id] = b.winner[id]
            /\ c.status[id] = b.status[id] \/ c.status[id] = "COMPLETED"

\* The fields of a book in which one round's entry was replaced.
LEMMA StatusSet ==
  ASSUME NEW b \in Book, NEW id \in RoundIds, NEW s \in Statuses
  PROVE  /\ WithStatus(b, id, s) \in Book
         /\ WithStatus(b, id, s).current = b.current
         /\ WithStatus(b, id, s).holders = b.holders
         /\ WithStatus(b, id, s).winner = b.winner
         /\ WithStatus(b, id, s).status = [b.status EXCEPT ![id] = s]
BY DEF WithStatus, Book

LEMMA HolderAdded ==
  ASSUME NEW b \in Book, NEW id \in RoundIds, NEW p \in Players
  PROVE  /\ Bought(b, p, id) \in Book
         /\ Bought(b, p, id).current = b.current
         /\ Bought(b, p, id).status = b.status
         /\ Bought(b, p, id).winner = b.winner
         /\ Bought(b, p, id).holders = [b.holders EXCEPT ![id] = @ \union {p}]
BY DEF Bought, Book

LEMMA WinnerSet ==
  ASSUME NEW b \in Book, NEW id \in RoundIds, NEW p \in Players
  PROVE  LET next == [b EXCEPT !.winner[id] = p] IN
         /\ next \in Book
         /\ next.current = b.current
         /\ next.status = b.status
         /\ next.holders = b.holders
         /\ next.winner = [b.winner EXCEPT ![id] = p]
BY DEF Book

LEMMA RoundAdded ==
  ASSUME NEW b \in Book, b.current < MaxRounds
  PROVE  /\ NextRound(b) \in Book
         /\ NextRound(b).current = b.current + 1
         /\ NextRound(b).status = b.status
         /\ NextRound(b).holders = b.holders
         /\ NextRound(b).winner = b.winner
<1>1. MaxRounds \in Nat /\ b.current \in 0..MaxRounds /\ b.current + 1 \in 0..MaxRounds
  BY BoundsAssumption DEF Book
<1> DEFINE c == [b EXCEPT !.current = @ + 1]
<1>2. /\ c \in Book /\ c.current = b.current + 1 /\ c.status = b.status
      /\ c.holders = b.holders /\ c.winner = b.winner
  BY <1>1 DEF Book
<1>3. PICK f \in BOOLEAN : f = FALSE
  OBVIOUS
<1> HIDE DEF c
<1>4. LET e == [c EXCEPT !.closed = f] IN
      /\ e \in Book /\ e.current = c.current /\ e.status = c.status
      /\ e.holders = c.holders /\ e.winner = c.winner
  BY <1>2 DEF Book
<1>5. NextRound(b) = [c EXCEPT !.closed = f]
  BY <1>3 DEF NextRound, WithClosed, c
<1> QED
  BY <1>2, <1>4, <1>5

LEMMA DeadlinePassed == ASSUME NEW b \in Book PROVE Lapsed(b) \in Book /\ Keeps(b, Lapsed(b))
<1>1. PICK f \in BOOLEAN : f = TRUE
  OBVIOUS
<1>2. LET e == [b EXCEPT !.closed = f] IN
      /\ e \in Book /\ e.current = b.current /\ e.status = b.status
      /\ e.holders = b.holders /\ e.winner = b.winner
  BY DEF Book
<1>3. Lapsed(b) = [b EXCEPT !.closed = f]
  BY <1>1 DEF Lapsed, WithClosed
<1>4. b.current \in Int
  BY BoundsAssumption DEF Book
<1> QED BY <1>2, <1>3, <1>4 DEF Keeps

\* The status of a round that has not ended is moved on, or its prize is taken.
LEMMA StatusMoves ==
  ASSUME NEW b \in Book, NEW id \in RoundIds, NEW s \in Statuses, s # "ACTIVE",
         b.status[id] \in Ended => s = "COMPLETED"
  PROVE  /\ WithStatus(b, id, s) \in Book /\ Keeps(b, WithStatus(b, id, s))
         /\ WithStatus(b, id, s).status[id] = s
<1>0. PICK moved : moved = WithStatus(b, id, s)
  OBVIOUS
<1>1. /\ moved \in Book /\ moved.current = b.current /\ moved.holders = b.holders
      /\ moved.winner = b.winner /\ moved.status = [b.status EXCEPT ![id] = s]
  BY <1>0, StatusSet
<1>2. b.status \in [RoundIds -> Statuses] /\ b.current \in Int
  BY BoundsAssumption DEF Book
<1>3. \A r \in RoundIds : moved.status[r] = IF r = id THEN s ELSE b.status[r]
  BY <1>1, <1>2
<1>4. Keeps(b, moved)
  BY <1>1, <1>2, <1>3 DEF Keeps
<1> QED BY <1>0, <1>1, <1>3, <1>4

\* A winner is named while the oracle's answer is waited for.
LEMMA WinnerNamed ==
  ASSUME NEW b \in Book, NEW id \in RoundIds, NEW w \in Players, b.status[id] = "DRAWING",
         NEW c, c = [WithStatus(b, id, "WINNER_DECLARED") EXCEPT !.winner[id] = w]
  PROVE  c \in Book /\ Keeps(b, c)
<1> DEFINE e == WithStatus(b, id, "WINNER_DECLARED")
<1>0. "WINNER_DECLARED" \in Statuses /\ "DRAWING" \notin Ended
  BY DEF Statuses, Ended
<1>1. /\ e \in Book /\ e.current = b.current /\ e.holders = b.holders /\ e.winner = b.winner
      /\ e.status = [b.status EXCEPT ![id] = "WINNER_DECLARED"]
  BY <1>0, StatusSet
<1>2. c = [e EXCEPT !.winner[id] = w]
  OBVIOUS
<1> HIDE DEF e
<1>3. /\ c \in Book /\ c.current = e.current /\ c.status = e.status /\ c.holders = e.holders
      /\ c.winner = [e.winner EXCEPT ![id] = w]
  <2>1. e \in Book
    BY <1>1
  <2>2. [e EXCEPT !.winner[id] = w].winner = [e.winner EXCEPT ![id] = w]
    BY <2>1, WinnerSet
  <2>3. LET next == [e EXCEPT !.winner[id] = w] IN
         /\ next \in Book
         /\ next.current = e.current
         /\ next.status = e.status
         /\ next.holders = e.holders
    BY <2>1, WinnerSet
  <2> QED BY <2>2, <2>3, <1>2
<1>4. /\ b.status \in [RoundIds -> Statuses] /\ b.current \in Int
      /\ b.winner \in [RoundIds -> Players \union {Nobody}]
  BY BoundsAssumption DEF Book
<1>5. \A r \in RoundIds : r # id => c.winner[r] = b.winner[r] /\ c.status[r] = b.status[r]
  BY <1>1, <1>3, <1>4
<1>6. c.status[id] # "ACTIVE"
  BY <1>1, <1>3, <1>4
<1>7. Keeps(b, c)
  BY <1>0, <1>1, <1>3, <1>4, <1>5, <1>6 DEF Keeps
<1> QED BY <1>3, <1>7

\* An accepted call keeps what the book shows and does what it is named for.
LEMMA CallGoesForward ==
  ASSUME NEW b \in Book, NEW call \in {"start", "buy", "draw", "finalize", "prize"},
         NEW p, call = "buy" => p \in Players, NEW id \in RoundIds, NEW c, c \in After(b, call, p, id)
  PROVE  /\ c \in Book /\ Keeps(b, c)
         /\ call = "buy"   => p \in c.holders[id]
         /\ call = "draw"  => c.status[id] # "ACTIVE"
         /\ call = "prize" => c.status[id] = "COMPLETED"
         /\ call = "start" => c.current = id + 1
<1>0. /\ b.current \in 0..MaxRounds /\ b.current \in Int
      /\ b.status \in [RoundIds -> Statuses] /\ b.holders \in [RoundIds -> SUBSET Players]
  BY BoundsAssumption DEF Book
<1>1. CASE call = "start"
  <2>1. MayStart(b, id) /\ c = NextRound(b)
    BY <1>1 DEF After
  <2>2. b.current < MaxRounds /\ id = b.current
    BY <2>1 DEF MayStart
  <2>3. /\ c \in Book /\ c.current = b.current + 1 /\ c.status = b.status
        /\ c.holders = b.holders /\ c.winner = b.winner
    BY <2>1, <2>2, RoundAdded
  <2>4. Keeps(b, c)
    BY <1>0, <2>3 DEF Keeps
  <2> QED BY <1>1, <2>2, <2>3, <2>4
<1>2. CASE call = "buy"
  <2>1. c = Bought(b, p, id) /\ p \in Players
    BY <1>2 DEF After
  <2>2. /\ c \in Book /\ c.current = b.current /\ c.status = b.status /\ c.winner = b.winner
        /\ c.holders = [b.holders EXCEPT ![id] = @ \union {p}]
    BY <2>1, HolderAdded
  <2>3. p \in c.holders[id] /\ \A r \in RoundIds : b.holders[r] \subseteq c.holders[r]
    BY <1>0, <2>2
  <2>4. Keeps(b, c)
    BY <1>0, <2>2, <2>3 DEF Keeps
  <2> QED BY <1>2, <2>2, <2>3, <2>4
<1>3. CASE call = "draw"
  <2>1. MayDraw(b, id) /\ c = Drawn(b, id)
    BY <1>3 DEF After
  <2>2. b.status[id] = "ACTIVE"
    BY <2>1 DEF MayDraw
  <2>3. PICK s \in {"CANCELLED", "DRAWING"} : c = WithStatus(b, id, s)
    BY <2>1 DEF Drawn
  <2>4. s \in Statuses /\ s # "ACTIVE" /\ b.status[id] \notin Ended
    BY <2>2 DEF Statuses, Ended
  <2>5. c \in Book /\ Keeps(b, c) /\ c.status[id] = s
    BY <2>3, <2>4, StatusMoves
  <2> QED BY <1>3, <2>4, <2>5
<1>4. CASE call = "finalize"
  <2>1. MayFinalize(b, id) /\ c \in Finalized(b, id)
    BY <1>4 DEF After
  <2>2. b.status[id] = "DRAWING"
    BY <2>1 DEF MayFinalize
  <2>3. /\ b.status[id] \notin Ended /\ "NO_WINNER" \in Statuses
    BY <2>2 DEF Statuses, Ended
  <2>4. CASE c = WithStatus(b, id, "NO_WINNER")
    <3>1. c \in Book /\ Keeps(b, c)
      BY <2>3, <2>4, StatusMoves
    <3> QED BY <1>4, <3>1
  <2>5. CASE \E w \in b.holders[id] :
               c = [WithStatus(b, id, "WINNER_DECLARED") EXCEPT !.winner[id] = w]
    <3>1. PICK w \in b.holders[id] :
               c = [WithStatus(b, id, "WINNER_DECLARED") EXCEPT !.winner[id] = w]
      BY <2>5
    <3>2. w \in Players
      BY <1>0
    <3>3. c \in Book /\ Keeps(b, c)
      BY <2>2, <3>1, <3>2, WinnerNamed
    <3> QED BY <1>4, <3>3
  <2> QED BY <2>1, <2>4, <2>5 DEF Finalized
<1>5. CASE call = "prize"
  <2>1. MayClaimPrize(b, p, id) /\ c = PrizeTaken(b, id)
    BY <1>5 DEF After
  <2>2. "COMPLETED" \in Statuses /\ c = WithStatus(b, id, "COMPLETED")
    BY <2>1 DEF Statuses, Ended, PrizeTaken
  <2>3. c \in Book /\ Keeps(b, c) /\ c.status[id] = "COMPLETED"
    BY <2>2, StatusMoves
  <2> QED BY <1>5, <2>3
<1> QED BY <1>1, <1>2, <1>3, <1>4, <1>5

-----------------------------------------------------------------------------
(* The acceptance script: what is true of its state                        *)

Fates == {"pending", "ok", "failed"}

States == {"", "look", "submit", "sent", "wait", "ok", "failed"}

Points == {"", "fund", "tickets1", "perform", "draw", "claim", "start", "current", "tickets2",
           "report"}

Sequel == {"claim", "start", "current", "tickets2", "report"}

\* A wallet is between the first look at a step and its receipt.
Working(p) == at[p] \in {"submit", "sent", "wait"}

CheckTypes ==
  /\ book \in Book /\ book.current >= 1
  /\ txs \in [Wallets -> [Labels -> Seq(Fates)]]
  /\ memo \in [Wallets -> [Labels -> Nat]] /\ file = memo
  /\ first \in [status : Statuses \union {""}, winner : Players \union {Nobody}]
  /\ pc \in Points /\ reported \in BOOLEAN
  /\ at \in [Wallets -> States] /\ doing \in [Wallets -> Labels \union {""}]

\* A hash on file is that of a transaction that was sent, and what is sent or
\* waited for has one.
Hashes ==
  \A p \in Wallets :
    /\ \A label \in Labels : memo[p][label] <= Len(txs[p][label])
    /\ Working(p) => doing[p] \in Labels
    /\ at[p] = "sent" => Sent(p, doing[p])
    /\ at[p] = "wait" => memo[p][doing[p]] # 0

\* One confirm of main at a time, of the label and the wallet main is at.
OneConfirm(p, label) ==
  \A q \in Wallets : at[q] # "" =>
    /\ q = p /\ at[q] # "look"
    /\ Working(q) => doing[q] = label

InTickets(wallets, labels) ==
  \A q \in Wallets :
    /\ q \notin wallets => at[q] = ""
    /\ Working(q) => doing[q] \in labels

\* Which wallets main has set to work, and on what.
AtWork ==
  /\ pc \in {"", "draw", "current", "report"} => \A q \in Wallets : at[q] = ""
  /\ pc = "fund" => \E p \in Wallets : OneConfirm(p, "fund")
  /\ pc = "perform" => OneConfirm(Owner, "performDraw1")
  /\ pc = "claim" =>
       IF first.status = "WINNER_DECLARED" /\ first.winner \in Wallets
       THEN OneConfirm(first.winner, "claimPrize1")
       ELSE \A q \in Wallets : at[q] = ""
  /\ pc = "start" => OneConfirm(Owner, "startDraw2")
  /\ pc = "tickets1" => InTickets(Wallets, {"mint", "approve1", "buy1"})
  /\ pc = "tickets2" => InTickets(Examiners, {"mint", "approve2", "buy2"})

\* Unless a process died unsaved: never sent, or sent and on file, or about to
\* be filed.
Filed(p, label) ==
  \/ Len(txs[p][label]) = 0
  \/ Len(txs[p][label]) = 1 /\ memo[p][label] = 1
  \/ Len(txs[p][label]) = 1 /\ memo[p][label] = 0 /\ at[p] = "sent" /\ doing[p] = label

OnceEach == lost = {} => \A p \in Wallets, label \in Labels : Filed(p, label)

\* What a transaction that went through left in the contract.
Left(p, label) ==
  /\ label = "performDraw1" => book.status[1] # "ACTIVE"
  /\ label = "claimPrize1"  => book.status[1] = "COMPLETED"
  /\ label = "startDraw2"   => book.current >= 2
  /\ label = "buy2"         => p \in book.holders[2]

DidLast == \A p \in Wallets, label \in Labels : Did(p, label) => Left(p, label)

\* A wallet that is done with what main asked for has done it.
DoneMeans ==
  \A p \in Wallets : at[p] = "ok" =>
    /\ pc = "perform"  => book.status[1] # "ACTIVE"
    /\ pc = "claim"    => book.status[1] = "COMPLETED"
    /\ pc = "start"    => book.current >= 2
    /\ pc = "tickets2" => p \in book.holders[2]

Paid == book.status[1] \in {"COMPLETED", "NO_WINNER", "CANCELLED"}

Secured ==
  book.current = 2 /\ book.status[2] = "ACTIVE" => Examiners \subseteq book.holders[2]

\* What main has seen to, at each of its points and in the end.
Reached ==
  /\ pc = "draw" => book.status[1] # "ACTIVE"
  /\ first # None => first.status \in Ended
  /\ pc \in Sequel => first.status \in Ended
  /\ pc \in Sequel \ {"claim"} => Paid
  /\ pc \in {"current", "tickets2", "report"} \/ reported => book.current >= 2
  /\ pc = "report" \/ reported => Secured
  /\ reported => Paid

CheckInv ==
  /\ CheckTypes /\ Hashes /\ AtWork /\ OnceEach /\ DidLast /\ DoneMeans /\ Reached
  /\ EvidenceTrue

LEMMA RoundsOneAndTwo == 1 \in RoundIds /\ 2 \in RoundIds
BY BoundsAssumption DEF RoundIds

LEMMA OwnerPlays == Owner \in Wallets /\ Owner \in Examiners /\ Wallets \subseteq Players
BY WalletsAssumption

\* The contract moves on while the script stands still: nothing that the script
\* has seen to is undone.
LEMMA BookMoves ==
  ASSUME CheckInv, book' \in Book, Keeps(book, book'), UNCHANGED <<first, pc, at, reported>>
  PROVE  /\ book'.current >= 1 /\ DoneMeans' /\ Reached' /\ EvidenceTrue'
         /\ \A p \in Wallets, label \in Labels : Left(p, label) => Left(p, label)'
<1>a. /\ first' = first /\ pc' = pc /\ at' = at /\ (reported' <=> reported)
      /\ book \in Book /\ book.current >= 1
  BY DEF CheckInv, CheckTypes
<1>b. \A b \in Book : /\ b.current \in 0..MaxRounds /\ b.status \in [RoundIds -> Statuses]
  BY DEF Book
<1>c. \A b \in Book : b.current \in Int /\ b.status[1] \in Statuses /\ b.status[2] \in Statuses
  BY <1>b, RoundsOneAndTwo, BoundsAssumption
<1>0. /\ first' = first /\ pc' = pc /\ at' = at /\ (reported' <=> reported)
      /\ book.current \in Int /\ book'.current \in Int /\ book.current >= 1
      /\ book.status[1] \in Statuses /\ book.status[2] \in Statuses
      /\ book'.status[1] \in Statuses /\ book'.status[2] \in Statuses
  BY <1>a, <1>c
<1>1. /\ book'.current >= book.current
      /\ book.holders[2] \subseteq book'.holders[2]
      /\ book.status[1] # "ACTIVE" => book'.status[1] # "ACTIVE"
      /\ book.status[2] # "ACTIVE" => book'.status[2] # "ACTIVE"
      /\ book.status[1] \in Ended =>
           /\ book'.winner[1] = book.winner[1]
           /\ book'.status[1] = book.status[1] \/ book'.status[1] = "COMPLETED"
  BY RoundsOneAndTwo DEF Keeps
<1>2. book'.current >= 1 /\ (book.current >= 2 => book'.current >= 2)
  BY <1>0, <1>1
<1>3. book.status[1] = "COMPLETED" => book'.status[1] = "COMPLETED"
  BY <1>1 DEF Ended
<1>4. \A p \in Wallets, label \in Labels : Left(p, label) => Left(p, label)'
  BY <1>1, <1>2, <1>3 DEF Left
<1>5. DoneMeans'
  BY <1>0, <1>1, <1>2, <1>3 DEF CheckInv, DoneMeans
<1>6. Paid => Paid'
  BY <1>1 DEF Paid, Ended
<1>7. Secured /\ book.current >= 2 => Secured'
  BY <1>0, <1>1 DEF Secured
<1>8. Reached'
  BY <1>0, <1>1, <1>2, <1>6, <1>7 DEF CheckInv, Reached, Sequel, None
<1>9. EvidenceTrue'
  <2> SUFFICES ASSUME first # None
               PROVE  /\ first.status # "DRAWING" /\ first.winner = book'.winner[1]
                      /\ book'.status[1] = first.status \/ book'.status[1] = "COMPLETED"
    BY <1>0 DEF EvidenceTrue, None
  <2>1. /\ first.status \in Ended /\ first.status # "DRAWING" /\ first.winner = book.winner[1]
        /\ book.status[1] = first.status \/ book.status[1] = "COMPLETED"
    BY DEF CheckInv, EvidenceTrue, Reached
  <2>2. book.status[1] \in Ended
    BY <2>1 DEF Ended
  <2> QED BY <1>1, <1>3, <2>1, <2>2
<1> QED BY <1>2, <1>4, <1>5, <1>8, <1>9

\* The chain and its other users, while no transaction of the script changes.
LEMMA WorldKeeps ==
  ASSUME CheckInv, book' \in Book, Keeps(book, book'), World
  PROVE  CheckInv'
<1>0. /\ UNCHANGED <<txs, file, memo, first, pc, doing, at, reported>> /\ lost' = lost
  BY DEF World
<1>1. /\ book'.current >= 1 /\ DoneMeans' /\ Reached' /\ EvidenceTrue'
      /\ \A p \in Wallets, label \in Labels : Left(p, label) => Left(p, label)'
  BY <1>0, BookMoves
<1>2. CheckTypes'
  BY <1>0, <1>1 DEF CheckInv, CheckTypes
<1>3. Hashes' /\ OnceEach'
  BY <1>0 DEF CheckInv, Hashes, Working, Sent, OnceEach, Filed
<1>4. AtWork'
  BY <1>0 DEF CheckInv, AtWork, OneConfirm, InTickets, Working
<1>5. DidLast'
  BY <1>0, <1>1 DEF CheckInv, DidLast, Did, Oks
<1> QED BY <1>1, <1>2, <1>3, <1>4, <1>5 DEF CheckInv

LEMMA OthersKeep == ASSUME CheckInv, Oracle \/ Deadline \/ Outsider PROVE CheckInv'
<1>0. book \in Book
  BY DEF CheckInv, CheckTypes
<1>1. CASE Oracle
  <2>1. PICK id \in RoundIds : book' \in After(book, "finalize", Nobody, id) /\ World
    BY <1>1 DEF Oracle
  <2>2. book' \in Book /\ Keeps(book, book')
    BY <1>0, <2>1, CallGoesForward
  <2> QED BY <2>1, <2>2, WorldKeeps
<1>2. CASE Deadline
  <2>1. book' \in Book /\ Keeps(book, book') /\ World
    BY <1>0, <1>2, DeadlinePassed DEF Deadline
  <2> QED BY <2>1, WorldKeeps
<1>3. CASE Outsider
  <2>1. World
    BY <1>3 DEF Outsider
  <2>2. PICK call \in {"buy", "draw", "start"}, p \in Players \ Wallets, id \in RoundIds :
          book' \in After(book, call, p, id)
    BY <1>3 DEF Outsider
  <2>3. book' \in Book /\ Keeps(book, book')
    BY <1>0, <2>2, CallGoesForward
  <2> QED BY <2>1, <2>3, WorldKeeps
<1> QED BY <1>1, <1>2, <1>3

-----------------------------------------------------------------------------
(* The chain mines a transaction                                           *)

\* The fates under one label are replaced.
LEMMA FatesSet ==
  ASSUME NEW t \in [Wallets -> [Labels -> Seq(Fates)]], NEW p \in Wallets, NEW l \in Labels,
         NEW s \in Seq(Fates), NEW u, u = [t EXCEPT ![p][l] = s]
  PROVE  /\ u \in [Wallets -> [Labels -> Seq(Fates)]]
         /\ u[p][l] = s
         /\ \A q \in Wallets, m \in Labels : q # p \/ m # l => u[q][m] = t[q][m]
<1>1. u = [t EXCEPT ![p] = [t[p] EXCEPT ![l] = s]]
  OBVIOUS
<1>2. /\ u[p] = [t[p] EXCEPT ![l] = s] /\ u[p] \in [Labels -> Seq(Fates)]
      /\ \A q \in Wallets : q # p => u[q] = t[q]
  BY <1>1
<1> QED BY <1>1, <1>2

\* One of them is.
LEMMA FateSet ==
  ASSUME NEW t \in [Wallets -> [Labels -> Seq(Fates)]], NEW p \in Wallets, NEW l \in Labels,
         NEW i \in 1..Len(t[p][l]), NEW fate \in Fates, NEW u, u = [t EXCEPT ![p][l][i] = fate]
  PROVE  /\ u \in [Wallets -> [Labels -> Seq(Fates)]]
         /\ Len(u[p][l]) = Len(t[p][l]) /\ u[p][l][i] = fate
         /\ \A j \in 1..Len(t[p][l]) : j # i => u[p][l][j] = t[p][l][j]
         /\ \A q \in Wallets, m \in Labels : q # p \/ m # l => u[q][m] = t[q][m]
<1>0. t[p][l] \in Seq(Fates)
  OBVIOUS
<1> DEFINE s == [t[p][l] EXCEPT ![i] = fate]
<1>1. /\ s \in Seq(Fates) /\ Len(s) = Len(t[p][l]) /\ s[i] = fate
      /\ \A j \in 1..Len(t[p][l]) : j # i => s[j] = t[p][l][j]
  BY <1>0, ExceptSeq
<1>2. u = [t EXCEPT ![p][l] = s]
  OBVIOUS
<1> HIDE DEF s
<1> QED BY <1>1, <1>2, FatesSet

\* What a transaction that goes through does to the contract.
LEMMA EffectMeans ==
  ASSUME book \in Book, NEW p \in Wallets, NEW label \in Labels, book' \in Effect(p, label)
  PROVE  book' \in Book /\ Keeps(book, book') /\ Left(p, label)'
<1>0. p \in Players /\ 1 \in RoundIds /\ 2 \in RoundIds
  BY OwnerPlays, RoundsOneAndTwo
<1>1. CASE label = "buy1"
  <2>1. book' \in After(book, "buy", p, 1)
    BY <1>1 DEF Effect
  <2> QED BY <1>0, <1>1, <2>1, CallGoesForward DEF Left
<1>2. CASE label = "buy2"
  <2>1. book' \in After(book, "buy", p, 2)
    BY <1>2 DEF Effect
  <2> QED BY <1>0, <1>2, <2>1, CallGoesForward DEF Left
<1>3. CASE label = "performDraw1"
  <2>1. book' \in After(book, "draw", p, 1)
    BY <1>3 DEF Effect
  <2> QED BY <1>0, <1>3, <2>1, CallGoesForward DEF Left
<1>4. CASE label = "claimPrize1"
  <2>1. book' \in After(book, "prize", p, 1)
    BY <1>4 DEF Effect
  <2> QED BY <1>0, <1>4, <2>1, CallGoesForward DEF Left
<1>5. CASE label = "startDraw2"
  <2>1. book' \in After(book, "start", p, 1)
    BY <1>5 DEF Effect
  <2>2. /\ book' \in Book /\ Keeps(book, book') /\ book'.current = 2
    BY <1>0, <2>1, CallGoesForward
  <2> QED BY <1>5, <2>2 DEF Left
<1>6. CASE label \notin {"buy1", "buy2", "performDraw1", "claimPrize1", "startDraw2"}
  <2>1. book' = book
    BY <1>6 DEF Effect
  <2>2. book.current \in 0..MaxRounds
    BY DEF Book
  <2>3. book.current \in Int
    BY <2>2, BoundsAssumption
  <2>4. Keeps(book, book')
    BY <2>1, <2>3 DEF Keeps
  <2> QED BY <1>6, <2>1, <2>4 DEF Left
<1> QED BY <1>1, <1>2, <1>3, <1>4, <1>5, <1>6

LEMMA BookStays == ASSUME book \in Book, book' = book PROVE book' \in Book /\ Keeps(book, book')
<1>1. book.current \in 0..MaxRounds
  BY DEF Book
<1>2. book.current \in Int
  BY <1>1, BoundsAssumption
<1> QED BY <1>2 DEF Keeps

\* A pending transaction meets its fate: hashes stay good, nothing is sent, and
\* what went through leaves its mark in the contract.
LEMMA MiningKeeps ==
  ASSUME CheckInv, NEW p \in Wallets, NEW label \in Labels, Mine(p, label)
  PROVE  CheckInv'
<1>0. /\ UNCHANGED <<file, memo, first, pc, doing, at, reported>> /\ lost' = lost
      /\ book \in Book /\ txs \in [Wallets -> [Labels -> Seq(Fates)]]
  BY DEF Mine, CheckInv, CheckTypes
<1>1. PICK i \in 1..Len(txs[p][label]) : 
        /\ txs[p][label][i] = "pending"
        /\ \/ book' \in Effect(p, label) /\ txs' = [txs EXCEPT ![p][label][i] = "ok"]
           \/ UNCHANGED book /\ txs' = [txs EXCEPT ![p][label][i] = "failed"]
  BY DEF Mine
<1>2. PICK fate \in {"ok", "failed"} :
        /\ txs' = [txs EXCEPT ![p][label][i] = fate]
        /\ fate = "ok" => book' \in Effect(p, label)
        /\ fate = "failed" => book' = book
  BY <1>1
<1>3. /\ txs' \in [Wallets -> [Labels -> Seq(Fates)]]
      /\ Len(txs'[p][label]) = Len(txs[p][label]) /\ txs'[p][label][i] = fate
      /\ \A j \in 1..Len(txs[p][label]) : j # i => txs'[p][label][j] = txs[p][label][j]
      /\ \A q \in Wallets, m \in Labels : q # p \/ m # label => txs'[q][m] = txs[q][m]
  <2>1. fate \in Fates
    BY DEF Fates
  <2> QED BY <1>0, <1>2, <2>1, FateSet
<1>4. book' \in Book /\ Keeps(book, book') /\ (fate = "ok" => Left(p, label)')
  BY <1>0, <1>2, EffectMeans, BookStays
<1>5. /\ book'.current >= 1 /\ DoneMeans' /\ Reached' /\ EvidenceTrue'
      /\ \A q \in Wallets, m \in Labels : Left(q, m) => Left(q, m)'
  BY <1>0, <1>4, BookMoves
<1>6. \A q \in Wallets, m \in Labels : Len(txs'[q][m]) = Len(txs[q][m])
  BY <1>3
<1>7. CheckTypes'
  BY <1>0, <1>3, <1>4, <1>5 DEF CheckInv, CheckTypes
<1>8. Hashes'
  <2>1. \A q \in Wallets, m \in Labels : Sent(q, m) => Sent(q, m)'
    <3> SUFFICES ASSUME NEW q \in Wallets, NEW m \in Labels, txs[q][m] # << >>
                 PROVE  txs'[q][m] # << >>
      BY DEF Sent
    <3>1. txs[q][m] \in Seq(Fates) /\ txs'[q][m] \in Seq(Fates)
      BY <1>0, <1>3
    <3>2. Len(txs[q][m]) # 0
      BY <3>1, EmptySeq
    <3> QED BY <1>6, <3>2
  <2>2. Hashes
    BY DEF CheckInv
  <2>3. \A q \in Wallets : Working(q)' <=> Working(q)
    BY <1>0 DEF Working
  <2>4. \A q \in Wallets : at[q] = "sent" => doing[q] \in Labels
    BY <2>2 DEF Hashes, Working
  <2> QED BY <1>0, <1>6, <2>1, <2>2, <2>3, <2>4 DEF Hashes
<1>9. OnceEach'
  BY <1>0, <1>6 DEF CheckInv, OnceEach, Filed
<1>10. AtWork'
  <2>1. AtWork
    BY DEF CheckInv
  <2>2. at' = at /\ doing' = doing /\ pc' = pc /\ first' = first
    BY <1>0
  <2>3. \A q \in Wallets, l \in Labels : OneConfirm(q, l) => OneConfirm(q, l)'
    BY <2>2 DEF OneConfirm, Working
  <2>4. \A ws, ls : InTickets(ws, ls) => InTickets(ws, ls)'
    BY <2>2 DEF InTickets, Working
  <2>5. Owner \in Wallets /\ {"fund", "performDraw1", "claimPrize1", "startDraw2"} \subseteq Labels
    BY WalletsAssumption DEF Labels
  <2> QED BY <2>1, <2>2, <2>3, <2>4, <2>5 DEF AtWork
<1>11. DidLast'
  <2> SUFFICES ASSUME NEW q \in Wallets, NEW m \in Labels, Did(q, m)'
               PROVE  Left(q, m)'
    BY DEF DidLast
  <2>1. CASE q # p \/ m # label
    <3>1. Did(q, m)
      BY <1>3, <2>1 DEF Did, Oks
    <3> QED BY <1>5, <3>1 DEF CheckInv, DidLast
  <2>2. CASE q = p /\ m = label /\ fate = "failed"
    <3>1. PICK j \in 1..Len(txs'[p][label]) : txs'[p][label][j] = "ok"
      BY <2>2 DEF Did, Oks
    <3>2. j # i /\ txs[p][label][j] = "ok" /\ j \in 1..Len(txs[p][label])
      BY <1>3, <2>2, <3>1
    <3>3. Did(p, label)
      BY <3>2 DEF Did, Oks
    <3> QED BY <1>5, <2>2, <3>3 DEF CheckInv, DidLast
  <2>3. CASE q = p /\ m = label /\ fate = "ok"
    BY <1>4, <2>3
  <2> QED BY <2>1, <2>2, <2>3
<1> QED BY <1>5, <1>7, <1>8, <1>9, <1>10, <1>11 DEF CheckInv

-----------------------------------------------------------------------------
(* A wallet takes a step                                                   *)

\* Wallet p, which main has set to work, may go to s with step d.
MayWork(p, s, d) ==
  /\ at[p] # "" /\ s \in {"submit", "sent", "wait", "ok", "failed"} /\ d \in Labels \union {""}
  /\ s \in {"submit", "sent", "wait"} =>
       \/ d = doing[p] /\ Working(p)
       \/ pc = "tickets1" /\ d \in {"mint", "approve1", "buy1"}
       \/ pc = "tickets2" /\ d \in {"mint", "approve2", "buy2"}

DoneHere(p) ==
  /\ pc = "perform"  => book.status[1] # "ACTIVE"
  /\ pc = "claim"    => book.status[1] = "COMPLETED"
  /\ pc = "start"    => book.current >= 2
  /\ pc = "tickets2" => p \in book.holders[2]

\* Its next place is one that main's point allows.
LEMMA WorkGoesOn ==
  ASSUME CheckInv, NEW p \in Wallets, NEW s, NEW d, MayWork(p, s, d),
         UNCHANGED <<pc, first>>, at' = [at EXCEPT ![p] = s], doing' = [doing EXCEPT ![p] = d]
  PROVE  /\ AtWork' /\ at' \in [Wallets -> States] /\ doing' \in [Wallets -> Labels \union {""}]
         /\ at'[p] = s /\ doing'[p] = d
         /\ \A q \in Wallets : q # p => at'[q] = at[q] /\ doing'[q] = doing[q]
<1>0. /\ at \in [Wallets -> States] /\ doing \in [Wallets -> Labels \union {""}] /\ AtWork
      /\ pc' = pc /\ first' = first
  BY DEF CheckInv, CheckTypes
<1>1. s \in States /\ d \in Labels \union {""} /\ at[p] # "" /\ s # "look" /\ s # ""
  BY DEF MayWork, States
<1>2. /\ at' \in [Wallets -> States] /\ doing' \in [Wallets -> Labels \union {""}]
      /\ at'[p] = s /\ doing'[p] = d
      /\ \A q \in Wallets : q # p => at'[q] = at[q] /\ doing'[q] = doing[q]
  BY <1>0, <1>1
<1>3. ASSUME pc \notin {"tickets1", "tickets2"}
      PROVE  Working(p)' => Working(p) /\ d = doing[p]
  BY <1>2, <1>3 DEF MayWork, Working
<1>4. ASSUME NEW w, NEW label, OneConfirm(w, label), pc \notin {"tickets1", "tickets2"}
      PROVE  \A q \in Wallets : at'[q] # "" =>
               /\ q = w /\ at'[q] # "look"
               /\ Working(q)' => doing'[q] = label
  <2> SUFFICES ASSUME NEW q \in Wallets, at'[q] # ""
               PROVE  q = w /\ at'[q] # "look" /\ (Working(q)' => doing'[q] = label)
    OBVIOUS
  <2>1. CASE q = p
    BY <1>1, <1>2, <1>3, <1>4, <2>1 DEF OneConfirm
  <2>2. CASE q # p
    <3>1. at'[q] = at[q] /\ doing'[q] = doing[q] /\ (Working(q)' <=> Working(q))
      BY <1>2, <2>2 DEF Working
    <3> QED BY <1>4, <3>1 DEF OneConfirm
  <2> QED BY <2>1, <2>2
<1>5. ASSUME NEW wallets, NEW labels, InTickets(wallets, labels),
             s \in {"submit", "sent", "wait"} => d \in labels
      PROVE  \A q \in Wallets : /\ q \notin wallets => at'[q] = ""
                                /\ Working(q)' => doing'[q] \in labels
  <2> SUFFICES ASSUME NEW q \in Wallets
               PROVE  (q \notin wallets => at'[q] = "") /\ (Working(q)' => doing'[q] \in labels)
    OBVIOUS
  <2>1. CASE q = p
    BY <1>1, <1>2, <1>5, <2>1 DEF InTickets, Working
  <2>2. CASE q # p
    <3>1. at'[q] = at[q] /\ doing'[q] = doing[q] /\ (Working(q)' <=> Working(q))
      BY <1>2, <2>2 DEF Working
    <3> QED BY <1>5, <3>1 DEF InTickets
  <2> QED BY <2>1, <2>2
<1>6. pc \notin {"", "draw", "current", "report"}
  BY <1>0, <1>1 DEF AtWork
<1>7. CASE pc = "fund"
  <2>1. PICK w \in Wallets : OneConfirm(w, "fund")
    BY <1>0, <1>7 DEF AtWork
  <2>2. OneConfirm(w, "fund")'
    <3>1. \A q \in Wallets : at'[q] # "" =>
            /\ q = w /\ at'[q] # "look"
            /\ Working(q)' => doing'[q] = "fund"
      BY <1>4, <1>7, <2>1
    <3> QED BY <3>1 DEF OneConfirm
  <2> QED BY <1>0, <1>2, <1>7, <2>2 DEF AtWork
<1>8. CASE pc = "perform"
  <2>1. OneConfirm(Owner, "performDraw1")
    BY <1>0, <1>8 DEF AtWork
  <2>2. OneConfirm(Owner, "performDraw1")'
    <3>1. \A q \in Wallets : at'[q] # "" =>
            /\ q = Owner /\ at'[q] # "look"
            /\ Working(q)' => doing'[q] = "performDraw1"
      BY <1>4, <1>8, <2>1
    <3> QED BY <3>1 DEF OneConfirm
  <2> QED BY <1>0, <1>2, <1>8, <2>2 DEF AtWork
<1>9. CASE pc = "claim"
  <2>1. first.status = "WINNER_DECLARED" /\ first.winner \in Wallets
    BY <1>0, <1>1, <1>9 DEF AtWork
  <2>2. OneConfirm(first.winner, "claimPrize1")
    BY <1>0, <1>9, <2>1 DEF AtWork
  <2>3. OneConfirm(first.winner, "claimPrize1")'
    <3>1. \A q \in Wallets : at'[q] # "" =>
            /\ q = first.winner /\ at'[q] # "look"
            /\ Working(q)' => doing'[q] = "claimPrize1"
      BY <1>4, <1>9, <2>2
    <3> QED BY <1>0, <3>1 DEF OneConfirm
  <2> QED BY <1>0, <1>2, <1>9, <2>1, <2>3 DEF AtWork
<1>10. CASE pc = "start"
  <2>1. OneConfirm(Owner, "startDraw2")
    BY <1>0, <1>10 DEF AtWork
  <2>2. OneConfirm(Owner, "startDraw2")'
    <3>1. \A q \in Wallets : at'[q] # "" =>
            /\ q = Owner /\ at'[q] # "look"
            /\ Working(q)' => doing'[q] = "startDraw2"
      BY <1>4, <1>10, <2>1
    <3> QED BY <3>1 DEF OneConfirm
  <2> QED BY <1>0, <1>2, <1>10, <2>2 DEF AtWork
<1>11. CASE pc = "tickets1"
  <2>1. InTickets(Wallets, {"mint", "approve1", "buy1"})
    BY <1>0, <1>11 DEF AtWork
  <2>2. s \in {"submit", "sent", "wait"} => d \in {"mint", "approve1", "buy1"}
    BY <1>11, <2>1 DEF MayWork, InTickets
  <2>3. InTickets(Wallets, {"mint", "approve1", "buy1"})'
    BY <1>5, <2>1, <2>2 DEF InTickets
  <2> QED BY <1>0, <1>2, <1>11, <2>3 DEF AtWork
<1>12. CASE pc = "tickets2"
  <2>1. InTickets(Examiners, {"mint", "approve2", "buy2"})
    BY <1>0, <1>12 DEF AtWork
  <2>2. s \in {"submit", "sent", "wait"} => d \in {"mint", "approve2", "buy2"}
    BY <1>12, <2>1 DEF MayWork, InTickets
  <2>3. InTickets(Examiners, {"mint", "approve2", "buy2"})'
    BY <1>5, <2>1, <2>2 DEF InTickets
  <2> QED BY <1>0, <1>2, <1>12, <2>3 DEF AtWork
<1>13. pc \in Points
  BY DEF CheckInv, CheckTypes
<1> QED BY <1>2, <1>6, <1>7, <1>8, <1>9, <1>10, <1>11, <1>12, <1>13 DEF Points

\* What does not hang on where the wallets are.
LEMMA StandsStill ==
  ASSUME CheckInv, UNCHANGED <<book, first, pc, reported>>
  PROVE  /\ Reached' /\ EvidenceTrue' /\ book' \in Book /\ book'.current >= 1
         /\ first' \in [status : Statuses \union {""}, winner : Players \union {Nobody}]
         /\ pc' \in Points /\ reported' \in BOOLEAN
<1>1. /\ book' = book /\ first' = first /\ pc' = pc /\ (reported' <=> reported)
      /\ reported' \in BOOLEAN
  BY DEF CheckInv, CheckTypes
<1>2. Reached'
  BY <1>1 DEF CheckInv, Reached, Paid, Secured
<1>3. EvidenceTrue'
  BY <1>1 DEF CheckInv, EvidenceTrue
<1> QED BY <1>1, <1>2, <1>3 DEF CheckInv, CheckTypes

\* One that sends and files nothing.
LEMMA WalletMoves ==
  ASSUME CheckInv, NEW p \in Wallets, NEW s, NEW d, MayWork(p, s, d),
         UNCHANGED <<book, txs, file, memo, first, pc, reported>>, lost' = lost,
         at' = [at EXCEPT ![p] = s], doing' = [doing EXCEPT ![p] = d],
         at[p] # "sent" /\ s # "sent",
         s = "ok" => DoneHere(p),
         s \in {"submit", "wait"} => d \in Labels,
         s = "wait" => memo[p][d] # 0
  PROVE  CheckInv'
<1>0. /\ book' = book /\ txs' = txs /\ file' = file /\ memo' = memo /\ first' = first
      /\ pc' = pc /\ (reported' <=> reported) /\ lost' = lost
  BY DEF CheckInv, CheckTypes
<1>1. /\ AtWork' /\ at' \in [Wallets -> States] /\ doing' \in [Wallets -> Labels \union {""}]
      /\ at'[p] = s /\ doing'[p] = d
      /\ \A q \in Wallets : q # p => at'[q] = at[q] /\ doing'[q] = doing[q]
  BY <1>0, WorkGoesOn
<1>2. /\ Reached' /\ EvidenceTrue' /\ book' \in Book /\ book'.current >= 1
      /\ first' \in [status : Statuses \union {""}, winner : Players \union {Nobody}]
      /\ pc' \in Points /\ reported' \in BOOLEAN
  BY <1>0, StandsStill
<1>3. CheckTypes'
  BY <1>0, <1>1, <1>2 DEF CheckInv, CheckTypes
<1>4. Hashes'
  <2>1. Hashes
    BY DEF CheckInv
  <2>2. /\ Working(p)' => doing'[p] \in Labels
        /\ at'[p] # "sent" /\ (at'[p] = "wait" => memo'[p][doing'[p]] # 0)
    BY <1>0, <1>1 DEF Working
  <2>3. ASSUME NEW q \in Wallets, q # p
        PROVE  /\ Working(q)' => doing'[q] \in Labels
               /\ at'[q] = "sent" => Sent(q, doing[q])'
               /\ at'[q] = "wait" => memo'[q][doing'[q]] # 0
    BY <1>0, <1>1, <2>1, <2>3 DEF Hashes, Working, Sent
  <2>4. \A q \in Wallets, m \in Labels : memo'[q][m] <= Len(txs'[q][m])
    BY <1>0, <2>1 DEF Hashes
  <2>5. \A q \in Wallets : q # p => doing'[q] = doing[q]
    BY <1>1
  <2> QED BY <1>0, <2>2, <2>3, <2>4, <2>5 DEF Hashes, Sent
<1>5. OnceEach'
  <2> SUFFICES ASSUME lost = {}, NEW q \in Wallets, NEW m \in Labels
               PROVE  Filed(q, m)'
    BY <1>0 DEF OnceEach
  <2>1. Filed(q, m)
    BY DEF CheckInv, OnceEach
  <2> QED BY <1>0, <1>1, <2>1 DEF Filed
<1>6. DidLast'
  BY <1>0 DEF CheckInv, DidLast, Did, Oks, Left
<1>7. DoneMeans'
  <2> SUFFICES ASSUME NEW q \in Wallets, at'[q] = "ok" PROVE DoneHere(q)
    BY <1>0 DEF DoneMeans, DoneHere
  <2> QED BY <1>1 DEF CheckInv, DoneMeans, DoneHere
<1> QED BY <1>1, <1>2, <1>3, <1>4, <1>5, <1>6, <1>7 DEF CheckInv

\* A transaction is sent under one label.
Added(t, p, l) == [t EXCEPT ![p][l] = Append(@, "pending")]

LEMMA FateAdded ==
  ASSUME NEW t \in [Wallets -> [Labels -> Seq(Fates)]], NEW p \in Wallets, NEW l \in Labels
  PROVE  /\ Added(t, p, l) \in [Wallets -> [Labels -> Seq(Fates)]]
         /\ Added(t, p, l)[p][l] = Append(t[p][l], "pending")
         /\ \A q \in Wallets, m \in Labels : q # p \/ m # l => Added(t, p, l)[q][m] = t[q][m]
<1> DEFINE u == Added(t, p, l)
<1> DEFINE s == Append(t[p][l], "pending")
<1>1. t[p][l] \in Seq(Fates) /\ "pending" \in Fates
  BY DEF Fates
<1>2. s \in Seq(Fates)
  BY <1>1, AppendProperties
<1>3. u = [t EXCEPT ![p] = [t[p] EXCEPT ![l] = s]]
  BY DEF Added
<1> HIDE DEF s, u
<1>4. u[p] = [t[p] EXCEPT ![l] = s] /\ \A q \in Wallets : q # p => u[q] = t[q]
  BY <1>3
<1>5. t[p] \in [Labels -> Seq(Fates)]
  OBVIOUS
<1>6. [t[p] EXCEPT ![l] = s] \in [Labels -> Seq(Fates)]
  BY <1>2, <1>5
<1>7. u \in [Wallets -> [Labels -> Seq(Fates)]]
  BY <1>3, <1>6
<1>8. u[p][l] = s /\ \A m \in Labels : m # l => u[p][m] = t[p][m]
  BY <1>4, <1>5
<1> QED BY <1>4, <1>7, <1>8 DEF s, u

LEMMA SendingKeeps ==
  ASSUME CheckInv, NEW p \in Wallets, at[p] = "submit", ~OnFile(p, doing[p]),
         txs' = [txs EXCEPT ![p][doing[p]] = Append(@, "pending")],
         at' = [at EXCEPT ![p] = "sent"], UNCHANGED <<disk, file, memo>>
  PROVE  CheckInv'
<1>0. /\ book' = book /\ file' = file /\ memo' = memo /\ first' = first /\ doing' = doing
      /\ pc' = pc /\ (reported' <=> reported) /\ lost' = lost
  BY DEF CheckInv, CheckTypes, disk, history
<1> DEFINE label == doing[p]
<1>1. /\ label \in Labels /\ memo[p][label] = 0
      /\ txs \in [Wallets -> [Labels -> Seq(Fates)]] /\ doing \in [Wallets -> Labels \union {""}]
  BY DEF CheckInv, CheckTypes, Hashes, Working, OnFile
<1> DEFINE more == Append(txs[p][label], "pending")
<1>3. /\ more \in Seq(Fates) /\ Len(more) = Len(txs[p][label]) + 1 /\ more # << >>
      /\ \A i \in 1..Len(txs[p][label]) : more[i] = txs[p][label][i]
      /\ more[Len(txs[p][label]) + 1] = "pending"
  <2>1. txs[p][label] \in Seq(Fates) /\ "pending" \in Fates
    BY <1>1 DEF Fates
  <2> QED BY <2>1, AppendProperties
<1>4. /\ txs' \in [Wallets -> [Labels -> Seq(Fates)]] /\ txs'[p][label] = more
      /\ \A q \in Wallets, m \in Labels : q # p \/ m # label => txs'[q][m] = txs[q][m]
  <2>1. txs' = Added(txs, p, label)
    BY DEF Added
  <2>2. /\ Added(txs, p, label) \in [Wallets -> [Labels -> Seq(Fates)]]
        /\ Added(txs, p, label)[p][label] = more
        /\ \A q \in Wallets, m \in Labels :
             q # p \/ m # label => Added(txs, p, label)[q][m] = txs[q][m]
    <3> HIDE DEF label
    <3> QED BY ONLY <1>1, p \in Wallets, FateAdded
  <2> QED BY ONLY <2>1, <2>2
<1> HIDE DEF more
<1>5. /\ AtWork' /\ at' \in [Wallets -> States] /\ at'[p] = "sent"
      /\ \A q \in Wallets : q # p => at'[q] = at[q]
  <2>1. MayWork(p, "sent", label)
    BY <1>1 DEF MayWork, Working
  <2>2. doing' = [doing EXCEPT ![p] = label]
    BY <1>0, <1>1
  <2> QED BY <1>0, <2>1, <2>2, WorkGoesOn
<1>6. /\ Reached' /\ EvidenceTrue' /\ book' \in Book /\ book'.current >= 1
      /\ first' \in [status : Statuses \union {""}, winner : Players \union {Nobody}]
      /\ pc' \in Points /\ reported' \in BOOLEAN
  BY <1>0, StandsStill
<1>7. CheckTypes'
  BY <1>0, <1>4, <1>5, <1>6 DEF CheckInv, CheckTypes
<1>8. \A q \in Wallets, m \in Labels : (q = p /\ m = label) \/ txs'[q][m] = txs[q][m]
  BY <1>4
<1>9. Hashes'
  <2>1. Hashes
    BY DEF CheckInv
  <2>2. ASSUME NEW q \in Wallets, NEW m \in Labels
        PROVE  memo'[q][m] <= Len(txs'[q][m])
    <3>0. txs[q][m] \in Seq(Fates)
      BY <1>1
    <3>1. txs[q][m] \in Seq(Fates) /\ memo \in [Wallets -> [Labels -> Nat]]
      BY <3>0 DEF CheckInv, CheckTypes
    <3>2. memo[q][m] \in Nat /\ memo[q][m] <= Len(txs[q][m]) /\ Len(txs[q][m]) \in Nat
      BY <2>1, <3>1, LenProperties DEF Hashes
    <3>3. Len(txs'[q][m]) >= Len(txs[q][m])
      BY <1>3, <1>4, <1>8, <3>2
    <3>4. Len(txs'[q][m]) \in Nat
      BY <1>4, LenProperties
    <3> QED BY <1>0, <3>2, <3>3, <3>4
  <2>3. ASSUME NEW q \in Wallets
        PROVE  /\ Working(q)' => doing'[q] \in Labels
               /\ at'[q] = "sent" => Sent(q, doing[q])'
               /\ at'[q] = "wait" => memo'[q][doing'[q]] # 0
    <3>1. CASE q = p
      BY <1>0, <1>1, <1>3, <1>4, <1>5, <3>1 DEF Sent
    <3>2. CASE q # p
      <4>1. at'[q] = at[q] /\ (Working(q)' <=> Working(q))
        BY <1>5, <3>2 DEF Working
      <4>2. at[q] = "sent" => doing[q] \in Labels /\ Sent(q, doing[q])
        BY <2>1 DEF Hashes, Working
      <4>3. at[q] = "sent" => txs'[q][doing[q]] = txs[q][doing[q]]
        BY <1>8, <3>2, <4>2
      <4> QED BY <1>0, <2>1, <4>1, <4>2, <4>3 DEF Hashes, Sent
    <3> QED BY <3>1, <3>2
  <2> QED BY <2>2, <2>3 DEF Hashes
<1>10. OnceEach'
  <2> SUFFICES ASSUME lost = {}, NEW q \in Wallets, NEW m \in Labels
               PROVE  Filed(q, m)'
    BY <1>0 DEF OnceEach
  <2>1. Filed(q, m)
    BY DEF CheckInv, OnceEach
  <2>2. CASE q = p /\ m = label
    <3>1. Len(txs[p][label]) = 0
      BY <1>1, <2>1, <2>2 DEF Filed
    <3>2. Len(txs'[p][label]) = 1 /\ memo'[p][label] = 0 /\ at'[p] = "sent" /\ doing'[p] = label
      <4>1. Len(more) = 1
        BY <1>3, <3>1
      <4> QED BY <1>0, <1>1, <1>4, <1>5, <4>1
    <3> QED BY <2>2, <3>2 DEF Filed
  <2>3. CASE q # p \/ m # label
    BY <1>0, <1>4, <1>5, <2>1, <2>3 DEF Filed
  <2> QED BY <2>2, <2>3
<1>11. DidLast'
  <2> SUFFICES ASSUME NEW q \in Wallets, NEW m \in Labels, Did(q, m)'
               PROVE  Left(q, m)'
    BY DEF DidLast
  <2>1. Did(q, m)
    <3>1. CASE q = p /\ m = label
      <4>1. PICK i \in 1..Len(more) : more[i] = "ok"
        BY <1>4, <3>1 DEF Did, Oks
      <4>2. Len(txs[p][label]) \in Nat
        <5>1. txs[p][label] \in Seq(Fates)
          BY <1>1
        <5> QED BY <5>1, LenProperties
      <4>3. i \in 1..Len(txs[p][label]) /\ txs[p][label][i] = "ok"
        BY <1>3, <4>1, <4>2
      <4> QED BY <3>1, <4>3 DEF Did, Oks
    <3>2. CASE q # p \/ m # label
      BY <1>4, <3>2 DEF Did, Oks
    <3> QED BY <3>1, <3>2
  <2> QED BY <1>0, <2>1 DEF CheckInv, DidLast, Left
<1>12. DoneMeans'
  BY <1>0, <1>5 DEF CheckInv, DoneMeans
<1> QED BY <1>5, <1>6, <1>7, <1>9, <1>10, <1>11, <1>12 DEF CheckInv

LEMMA SavingKeeps == ASSUME CheckInv, NEW p \in Wallets, Save(p) PROVE CheckInv'
<1>0. /\ book' = book /\ txs' = txs /\ first' = first /\ doing' = doing
      /\ pc' = pc /\ (reported' <=> reported) /\ lost' = lost
      /\ at[p] = "sent" /\ at' = [at EXCEPT ![p] = "wait"] /\ file' = memo'
  BY DEF CheckInv, CheckTypes, Save, disk, history
<1> DEFINE label == doing[p]
           n == Len(txs[p][label])
<1>1. /\ label \in Labels /\ txs[p][label] # << >>
      /\ txs \in [Wallets -> [Labels -> Seq(Fates)]] /\ doing \in [Wallets -> Labels \union {""}]
      /\ memo \in [Wallets -> [Labels -> Nat]]
  BY <1>0 DEF CheckInv, CheckTypes, Hashes, Working, Sent
<1>2. n \in Nat /\ n # 0
  <2>1. txs[p][label] \in Seq(Fates)
    BY <1>1
  <2> QED BY <1>1, <2>1, EmptySeq, LenProperties
<1>3. memo' = [memo EXCEPT ![p][label] = n]
  BY DEF Save
<1> HIDE DEF n
<1>4. /\ memo' \in [Wallets -> [Labels -> Nat]] /\ memo'[p][label] = n
      /\ \A q \in Wallets, m \in Labels : q # p \/ m # label => memo'[q][m] = memo[q][m]
  BY <1>1, <1>2, <1>3
<1>5. /\ AtWork' /\ at' \in [Wallets -> States] /\ at'[p] = "wait"
      /\ \A q \in Wallets : q # p => at'[q] = at[q]
  <2>1. MayWork(p, "wait", label)
    BY <1>0, <1>1 DEF MayWork, Working
  <2>2. doing' = [doing EXCEPT ![p] = label]
    BY <1>0, <1>1
  <2> QED BY <1>0, <2>1, <2>2, WorkGoesOn
<1>6. /\ Reached' /\ EvidenceTrue' /\ book' \in Book /\ book'.current >= 1
      /\ first' \in [status : Statuses \union {""}, winner : Players \union {Nobody}]
      /\ pc' \in Points /\ reported' \in BOOLEAN
  BY <1>0, StandsStill
<1>7. CheckTypes'
  BY <1>0, <1>1, <1>4, <1>5, <1>6 DEF CheckInv, CheckTypes
<1>8. Hashes'
  <2>1. Hashes
    BY DEF CheckInv
  <2>2. ASSUME NEW q \in Wallets, NEW m \in Labels
        PROVE  memo'[q][m] <= Len(txs'[q][m])
    <3>1. CASE q = p /\ m = label
      BY <1>0, <1>2, <1>4, <3>1 DEF n
    <3>2. CASE q # p \/ m # label
      <4>1. memo'[q][m] = memo[q][m] /\ memo[q][m] <= Len(txs[q][m])
        BY <1>4, <2>1, <3>2 DEF Hashes
      <4> QED BY <1>0, <4>1
    <3> QED BY <3>1, <3>2
  <2>3. ASSUME NEW q \in Wallets
        PROVE  /\ Working(q)' => doing'[q] \in Labels
               /\ at'[q] = "sent" => Sent(q, doing[q])'
               /\ at'[q] = "wait" => memo'[q][doing'[q]] # 0
    <3>1. CASE q = p
      BY <1>0, <1>1, <1>2, <1>4, <1>5, <3>1
    <3>2. CASE q # p
      <4>1. at'[q] = at[q] /\ (Working(q)' <=> Working(q))
        BY <1>5, <3>2 DEF Working
      <4>2. at[q] = "wait" => doing[q] \in Labels /\ memo[q][doing[q]] # 0
        BY <2>1 DEF Hashes, Working
      <4>3. at[q] = "wait" => memo'[q][doing[q]] # 0
        BY <1>4, <3>2, <4>2
      <4> QED BY <1>0, <2>1, <4>1, <4>2, <4>3 DEF Hashes, Sent
    <3> QED BY <3>1, <3>2
  <2> QED BY <2>2, <2>3 DEF Hashes
<1>9. OnceEach'
  <2> SUFFICES ASSUME lost = {}, NEW q \in Wallets, NEW m \in Labels
               PROVE  Filed(q, m)'
    BY <1>0 DEF OnceEach
  <2>1. Filed(q, m)
    BY DEF CheckInv, OnceEach
  <2>2. CASE q = p /\ m = label
    <3>1. n = 1
      BY <1>2, <2>1, <2>2 DEF Filed, n
    <3> QED BY <1>0, <1>4, <2>2, <3>1 DEF Filed, n
  <2>3. CASE q # p \/ m # label
    BY <1>0, <1>4, <1>5, <2>1, <2>3 DEF Filed
  <2> QED BY <2>2, <2>3
<1>10. DidLast'
  BY <1>0 DEF CheckInv, DidLast, Did, Oks, Left
<1>11. DoneMeans'
  BY <1>0, <1>5 DEF CheckInv, DoneMeans
<1> QED BY <1>5, <1>6, <1>7, <1>8, <1>9, <1>10, <1>11 DEF CheckInv

\* A step that was sent before, or is not sent at all.
LEMMA SubmitKeeps ==
  ASSUME CheckInv, NEW p \in Wallets, Submit(p) \/ Refused(p) PROVE CheckInv'
<1>0. /\ at[p] = "submit" /\ doing[p] \in Labels
      /\ doing \in [Wallets -> Labels \union {""}] /\ Working(p)
  BY DEF CheckInv, CheckTypes, Hashes, Working, Submit, Refused
<1>1. ASSUME NEW s \in {"wait", "failed"}, at' = [at EXCEPT ![p] = s], doing' = doing,
             UNCHANGED <<book, txs, file, memo, first, pc, reported>>, lost' = lost,
             s = "wait" => memo[p][doing[p]] # 0
      PROVE  CheckInv'
  <2>1. MayWork(p, s, doing[p])
    BY <1>0 DEF MayWork
  <2>2. doing' = [doing EXCEPT ![p] = doing[p]]
    BY <1>0, <1>1
  <2>3. s # "sent" /\ s # "ok"
    OBVIOUS
  <2> QED BY <1>0, <1>1, <2>1, <2>2, <2>3, WalletMoves
<1>2. CASE Refused(p)
  <2>1. /\ UNCHANGED <<book, txs, file, memo, first, pc, reported>> /\ lost' = lost
        /\ doing' = doing /\ at' = [at EXCEPT ![p] = "failed"]
    BY <1>2 DEF Refused
  <2> QED BY <1>1, <2>1
<1>3. CASE Submit(p) /\ txs' = txs
  <2>0. /\ UNCHANGED <<book, txs, file, memo, first, pc, reported>> /\ lost' = lost
        /\ doing' = doing
    BY <1>3 DEF Submit, disk, history
  <2>1. CASE OnFile(p, doing[p])
    <3>1. at' = [at EXCEPT ![p] = "wait"] /\ memo[p][doing[p]] # 0
      BY <1>3, <2>1 DEF Submit, OnFile
    <3> QED BY <1>1, <2>0, <3>1
  <2>2. CASE ~OnFile(p, doing[p]) /\ at' = [at EXCEPT ![p] = "failed"]
    BY <1>1, <2>0, <2>2
  <2>3. CASE ~OnFile(p, doing[p]) /\ at' # [at EXCEPT ![p] = "failed"]
    <3>1. /\ txs' = [txs EXCEPT ![p][doing[p]] = Append(@, "pending")]
          /\ at' = [at EXCEPT ![p] = "sent"] /\ UNCHANGED <<disk, file, memo>>
      BY <1>3, <2>3 DEF Submit
    <3> QED BY <1>0, <2>3, <3>1, SendingKeeps
  <2> QED BY <2>1, <2>2, <2>3
<1>4. CASE Submit(p) /\ txs' # txs
  <2>1. /\ ~OnFile(p, doing[p])
        /\ txs' = [txs EXCEPT ![p][doing[p]] = Append(@, "pending")]
        /\ at' = [at EXCEPT ![p] = "sent"] /\ UNCHANGED <<disk, file, memo>>
    BY <1>4 DEF Submit
  <2> QED BY <1>0, <2>1, SendingKeeps
<1> QED BY <1>2, <1>3, <1>4

\* A receipt: what was waited for went through, and main's next step follows.
LEMMA ConfirmKeeps == ASSUME CheckInv, NEW p \in Wallets, Confirm(p) PROVE CheckInv'
<1> DEFINE label == doing[p]
           next  == Following(label)
<1>0. /\ at[p] = "wait" /\ label \in Labels /\ memo[p][label] # 0
      /\ memo \in [Wallets -> [Labels -> Nat]] /\ doing \in [Wallets -> Labels \union {""}]
      /\ memo[p][label] <= Len(txs[p][label]) /\ Working(p)
  BY DEF CheckInv, CheckTypes, Hashes, Working, Confirm
<1>1. /\ UNCHANGED <<book, txs, file, memo, first, pc, reported>> /\ lost' = lost
  BY DEF Confirm, script, history
<1>2. CASE txs[p][label][memo[p][label]] # "ok"
  <2>1. at' = [at EXCEPT ![p] = "failed"] /\ doing' = [doing EXCEPT ![p] = label]
    BY <1>0, <1>2 DEF Confirm
  <2>2. MayWork(p, "failed", label)
    BY <1>0 DEF MayWork
  <2> QED BY <1>0, <1>1, <2>1, <2>2, WalletMoves
<1>3. CASE txs[p][label][memo[p][label]] = "ok"
  <2>1. /\ at' = [at EXCEPT ![p] = IF next = "" THEN "ok" ELSE "submit"]
        /\ doing' = [doing EXCEPT ![p] = next]
    BY <1>3 DEF Confirm
  <2>2. Did(p, label)
    <3>0. txs \in [Wallets -> [Labels -> Seq(Fates)]]
      BY DEF CheckInv, CheckTypes
    <3>1. memo[p][label] \in Nat /\ txs[p][label] \in Seq(Fates)
      BY <1>0, <3>0
    <3>2. Len(txs[p][label]) \in Nat
      BY <3>1, LenProperties
    <3> HIDE DEF label
    <3>3. memo[p][label] \in 1..Len(txs[p][label])
      <4>1. \A n, m : n \in Nat /\ n # 0 /\ m \in Nat /\ n <= m => n \in 1..m
        OBVIOUS
      <4> QED BY <1>0, <3>1, <3>2, <4>1
    <3> QED BY <1>3, <3>3 DEF Did, Oks
  <2>3. Left(p, label)
    BY <1>0, <2>2 DEF CheckInv, DidLast
  <2>4. AtWork /\ pc \in Points /\ at[p] # ""
    BY <1>0 DEF CheckInv, CheckTypes
  <2>5. next \in Labels \union {""}
    BY DEF Following, Labels
  <2>6. CASE next = ""
    <3>1. at' = [at EXCEPT ![p] = "ok"]
      BY <2>1, <2>6
    <3>2. MayWork(p, "ok", next)
      BY <2>4, <2>5 DEF MayWork
    <3>3. DoneHere(p)
      <4>1. ASSUME pc = "perform" PROVE book.status[1] # "ACTIVE"
        <5>1. label = "performDraw1"
          BY <1>0, <2>4, <4>1 DEF AtWork, OneConfirm
        <5> QED BY <2>3, <5>1 DEF Left
      <4>2. ASSUME pc = "claim" PROVE book.status[1] = "COMPLETED"
        <5>1. label = "claimPrize1"
          BY <1>0, <2>4, <4>2 DEF AtWork, OneConfirm
        <5> QED BY <2>3, <5>1 DEF Left
      <4>3. ASSUME pc = "start" PROVE book.current >= 2
        <5>1. label = "startDraw2"
          BY <1>0, <2>4, <4>3 DEF AtWork, OneConfirm
        <5> QED BY <2>3, <5>1 DEF Left
      <4>4. ASSUME pc = "tickets2" PROVE p \in book.holders[2]
        <5>1. label \in {"mint", "approve2", "buy2"}
          BY <1>0, <2>4, <4>4 DEF AtWork, InTickets
        <5>2. label = "buy2"
          BY <2>6, <4>4, <5>1 DEF Following
        <5> QED BY <2>3, <5>2 DEF Left
      <4> QED BY <4>1, <4>2, <4>3, <4>4 DEF DoneHere
    <3> QED BY <1>0, <1>1, <2>1, <3>1, <3>2, <3>3, WalletMoves
  <2>7. CASE next # ""
    <3>1. at' = [at EXCEPT ![p] = "submit"] /\ next \in Labels
      BY <2>1, <2>5, <2>7
    <3>2. label \in {"mint", "approve1", "approve2"}
      BY <2>7 DEF Following
    <3>3. pc \in {"tickets1", "tickets2"}
      BY <1>0, <2>4, <3>2 DEF AtWork, OneConfirm, Points
    <3>4. CASE pc = "tickets1"
      <4>1. label \in {"mint", "approve1", "buy1"}
        BY <1>0, <2>4, <3>4 DEF AtWork, InTickets
      <4>2. next \in {"approve1", "buy1"}
        BY <3>2, <3>4, <4>1 DEF Following
      <4>3. MayWork(p, "submit", next)
        BY <2>4, <3>1, <3>4, <4>2 DEF MayWork
      <4> QED BY <1>0, <1>1, <2>1, <3>1, <4>3, WalletMoves
    <3>5. CASE pc = "tickets2"
      <4>1. label \in {"mint", "approve2", "buy2"}
        BY <1>0, <2>4, <3>5 DEF AtWork, InTickets
      <4>2. next \in {"approve2", "buy2"}
        BY <3>2, <3>5, <4>1 DEF Following
      <4>3. MayWork(p, "submit", next)
        BY <2>4, <3>1, <3>5, <4>2 DEF MayWork
      <4> QED BY <1>0, <1>1, <2>1, <3>1, <4>3, WalletMoves
    <3> QED BY <3>3, <3>4, <3>5
  <2> QED BY <2>6, <2>7
<1> QED BY <1>2, <1>3

\* The first look of tickets.
LEMMA LookKeeps == ASSUME CheckInv, NEW p \in Wallets, Look(p) PROVE CheckInv'
<1>0. /\ at[p] = "look" /\ AtWork /\ pc \in Points /\ doing \in [Wallets -> Labels \union {""}]
      /\ UNCHANGED <<book, txs, file, memo, first, pc, reported>> /\ lost' = lost
  BY DEF CheckInv, CheckTypes, Look, script, history
<1>1. pc \in {"tickets1", "tickets2"}
  BY <1>0 DEF AtWork, OneConfirm, Points
<1> DEFINE id == IF pc = "tickets1" THEN 1 ELSE 2
<1>2. CASE Holds(p, id)
  <2>1. at' = [at EXCEPT ![p] = "ok"] /\ doing' = [doing EXCEPT ![p] = doing[p]]
    BY <1>0, <1>2 DEF Look
  <2>2. MayWork(p, "ok", doing[p])
    BY <1>0 DEF MayWork
  <2>3. DoneHere(p)
    BY <1>1, <1>2 DEF DoneHere, Holds
  <2> QED BY <1>0, <2>1, <2>2, <2>3, WalletMoves
<1>3. CASE ~Holds(p, id)
  <2> DEFINE d == FirstStep(p)
  <2>1. at' = [at EXCEPT ![p] = "submit"] /\ doing' = [doing EXCEPT ![p] = d]
    BY <1>3 DEF Look
  <2>2. \/ d = "mint"
        \/ pc = "tickets1" /\ d = "approve1"
        \/ pc = "tickets2" /\ d = "approve2"
    <3>1. Following("mint") = IF pc = "tickets1" THEN "approve1" ELSE "approve2"
      BY DEF Following
    <3> QED BY <1>1, <3>1 DEF FirstStep
  <2>3. MayWork(p, "submit", d) /\ d \in Labels
    BY <1>0, <1>1, <2>2 DEF MayWork, Labels
  <2> QED BY <1>0, <2>1, <2>3, WalletMoves
<1> QED BY <1>2, <1>3

-----------------------------------------------------------------------------
(* main takes a step                                                       *)

\* A process that stops loses the hash of what it was sending.
Unsent == lost' = {} => lost = {} /\ \A q \in Wallets : at[q] # "sent"

\* main sets wallets to their next task, or none.
LEMMA MainMoves ==
  ASSUME CheckInv, book' = book, txs' = txs, memo' = memo, file' = file,
         first' \in [status : Statuses \union {""}, winner : Players \union {Nobody}],
         pc' \in Points, reported' \in BOOLEAN,
         at' \in [Wallets -> {"", "look", "submit"}],
         doing' \in [Wallets -> Labels \union {""}],
         \A q \in Wallets : at'[q] = "submit" => doing'[q] \in Labels,
         Unsent, AtWork', Reached', EvidenceTrue'
  PROVE  CheckInv'
<1>1. \A q \in Wallets : at'[q] \in {"", "look", "submit"}
  OBVIOUS
<1>2. at' \in [Wallets -> States]
  BY DEF States
<1>3. CheckTypes'
  BY <1>2 DEF CheckInv, CheckTypes
<1>4. Hashes'
  <2>1. \A q \in Wallets : Working(q)' => doing'[q] \in Labels
    BY <1>1 DEF Working
  <2> QED BY <1>1, <2>1 DEF CheckInv, Hashes
<1>5. OnceEach'
  <2> SUFFICES ASSUME lost' = {}, NEW q \in Wallets, NEW m \in Labels
               PROVE  Filed(q, m)'
    BY DEF OnceEach
  <2>1. Filed(q, m) /\ at[q] # "sent"
    BY DEF CheckInv, OnceEach, Unsent
  <2> QED BY <2>1 DEF Filed
<1>6. DidLast'
  <2> SUFFICES ASSUME NEW q \in Wallets, NEW m \in Labels, Did(q, m)'
               PROVE  Left(q, m)'
    BY DEF DidLast
  <2>1. Did(q, m)
    BY DEF Did, Oks
  <2>2. Left(q, m)
    BY <2>1 DEF CheckInv, DidLast
  <2> QED BY <2>2 DEF Left
<1>7. DoneMeans'
  BY <1>1 DEF DoneMeans
<1> QED BY <1>3, <1>4, <1>5, <1>6, <1>7 DEF CheckInv

\* None, when it goes on to its next point.
LEMMA GoKeeps ==
  ASSUME CheckInv, NEW next \in Points, Go(next), UNCHANGED <<book, txs, file, memo>>,
         first' \in [status : Statuses \union {""}, winner : Players \union {Nobody}],
         reported' \in BOOLEAN, Unsent, Reached', EvidenceTrue'
  PROVE  CheckInv'
<1>0. pc' = next /\ at' = Idle /\ doing' = Idle
  BY DEF Go
<1>1. \A q \in Wallets : at'[q] = "" /\ doing'[q] = ""
  BY <1>0 DEF Idle
<1>2. /\ at' \in [Wallets -> {"", "look", "submit"}]
      /\ doing' \in [Wallets -> Labels \union {""}]
  BY <1>0 DEF Idle
<1>3. \A q \in Wallets : ~Working(q)'
  BY <1>1 DEF Working
<1>4. \A p, label : OneConfirm(p, label)'
  BY <1>1 DEF OneConfirm
<1>5. \A wallets, labels : InTickets(wallets, labels)'
  BY <1>1, <1>3 DEF InTickets
<1>6. AtWork'
  <2>1. Owner \in Wallets /\ OneConfirm(Owner, "fund")'
    BY <1>4, OwnerPlays
  <2>2. \E p \in Wallets : OneConfirm(p, "fund")'
    BY <2>1
  <2>3. /\ OneConfirm(Owner, "performDraw1")' /\ OneConfirm(Owner, "startDraw2")'
        /\ OneConfirm(first.winner, "claimPrize1")'
    BY <1>1 DEF OneConfirm
  <2>4. /\ InTickets(Wallets, {"mint", "approve1", "buy1"})'
        /\ InTickets(Examiners, {"mint", "approve2", "buy2"})'
    BY <1>5
  <2> QED BY <1>1, <2>2, <2>3, <2>4 DEF AtWork
<1> QED BY <1>0, <1>1, <1>2, <1>6, MainMoves

\* The confirm that main is at.
Due(p, label) ==
  \/ pc = "fund" /\ label = "fund"
  \/ pc = "perform" /\ p = Owner /\ label = "performDraw1"
  \/ /\ pc = "claim" /\ first.status = "WINNER_DECLARED" /\ p = first.winner
     /\ label = "claimPrize1"
  \/ pc = "start" /\ p = Owner /\ label = "startDraw2"

LEMMA CallKeeps ==
  ASSUME CheckInv, NEW p \in Wallets, NEW label \in Labels, Due(p, label), at = Idle,
         Call(p, label), UNCHANGED script
  PROVE  CheckInv'
<1>0. /\ UNCHANGED <<book, txs, file, memo, first, pc>> /\ (reported' <=> reported)
      /\ lost' = lost /\ reported' \in BOOLEAN
      /\ doing' = [Idle EXCEPT ![p] = label] /\ at' = [Idle EXCEPT ![p] = "submit"]
  BY DEF CheckInv, CheckTypes, Call, script, history
<1>1. /\ at' \in [Wallets -> {"", "look", "submit"}]
      /\ doing' \in [Wallets -> Labels \union {""}]
      /\ at'[p] = "submit" /\ doing'[p] = label
      /\ \A q \in Wallets : q # p => at'[q] = ""
  BY <1>0 DEF Idle
<1>2. \A q \in Wallets : at[q] = ""
  BY DEF Idle
<1>3. Unsent
  BY <1>0, <1>2 DEF Unsent
<1>4. \A q \in Wallets : at'[q] # "" => /\ q = p /\ at'[q] # "look"
                                        /\ Working(q)' => doing'[q] = label
  BY <1>1
<1>5. AtWork'
  <2>1. CASE pc = "fund"
    <3>1. OneConfirm(p, "fund")'
      BY <1>4, <2>1 DEF OneConfirm, Due
    <3> QED BY <1>0, <2>1, <3>1 DEF AtWork
  <2>2. CASE pc = "perform"
    <3>1. OneConfirm(Owner, "performDraw1")'
      BY <1>4, <2>2 DEF OneConfirm, Due
    <3> QED BY <1>0, <2>2, <3>1 DEF AtWork
  <2>3. CASE pc = "claim"
    <3>1. first'.status = "WINNER_DECLARED" /\ first'.winner = p /\ label = "claimPrize1"
      BY <1>0, <2>3 DEF Due
    <3>2. OneConfirm(first.winner, "claimPrize1")'
      BY <1>4, <3>1 DEF OneConfirm
    <3> QED BY <1>0, <2>3, <3>1, <3>2 DEF AtWork
  <2>4. CASE pc = "start"
    <3>1. OneConfirm(Owner, "startDraw2")'
      BY <1>4, <2>4 DEF OneConfirm, Due
    <3> QED BY <1>0, <2>4, <3>1 DEF AtWork
  <2> QED BY <2>1, <2>2, <2>3, <2>4 DEF Due
<1>6. /\ Reached' /\ EvidenceTrue' /\ pc' \in Points
      /\ first' \in [status : Statuses \union {""}, winner : Players \union {Nobody}]
  <2>1. UNCHANGED <<book, first, pc, reported>>
    BY DEF script, Call
  <2> QED BY <2>1, StandsStill
<1> QED BY <1>0, <1>1, <1>3, <1>5, <1>6, MainMoves

\* One confirm: begun, thrown, or passed when its wallet has done it.
LEMMA AwaitKeeps ==
  ASSUME CheckInv, NEW p \in Wallets, NEW label \in Labels, NEW next \in Points, Due(p, label),
         at = Idle \/ OneConfirm(p, label), Await(p, label, next), UNCHANGED script,
         at[p] = "ok" /\ pc' = next => Reached'
  PROVE  CheckInv'
<1>0. /\ UNCHANGED <<book, txs, file, memo, first>> /\ (reported' <=> reported)
      /\ lost' = lost /\ reported' \in BOOLEAN
      /\ first' \in [status : Statuses \union {""}, winner : Players \union {Nobody}]
  BY DEF CheckInv, CheckTypes, script, history
<1>1. EvidenceTrue'
  BY <1>0 DEF CheckInv, EvidenceTrue
<1>2. ASSUME at[p] \in {"ok", "failed"} PROVE Unsent
  <2>1. \A q \in Wallets : at[q] # "sent"
    BY <1>2 DEF OneConfirm, Idle
  <2> QED BY <1>0, <2>1 DEF Unsent
<1>3. CASE at = Idle /\ Call(p, label)
  BY <1>3, CallKeeps
<1>4. CASE at[p] = "ok" /\ Go(next)
  <2>1. Reached'
    BY <1>4 DEF Go
  <2> QED BY <1>0, <1>1, <1>2, <1>4, <2>1, GoKeeps
<1>5. CASE at[p] = "failed" /\ Throw
  <2>1. Go("") /\ pc' = "" /\ "" \in Points
    BY <1>5 DEF Throw, Go, Points
  <2>2. Reached'
    BY <1>0, <2>1 DEF CheckInv, Reached, Sequel, Paid, Secured
  <2> QED BY <1>0, <1>1, <1>2, <1>5, <2>1, <2>2, GoKeeps
<1> QED BY <1>3, <1>4, <1>5 DEF Await

\* Nobody is at work.
LEMMA IdleUnsent ==
  ASSUME CheckInv, \A q \in Wallets : at[q] = "", lost' = lost PROVE Unsent
BY DEF Unsent

\* What Reached says apart from main's point.
LEMMA KeptInReach ==
  ASSUME CheckInv, UNCHANGED <<book, first, reported>>
  PROVE  /\ first' # None => first'.status \in Ended
         /\ reported' => Paid' /\ Secured' /\ book'.current >= 2
         /\ EvidenceTrue' /\ (Paid => Paid') /\ (Secured => Secured') /\ reported' \in BOOLEAN
         /\ first' \in [status : Statuses \union {""}, winner : Players \union {Nobody}]
<1>0. book' = book /\ first' = first /\ (reported' <=> reported) /\ reported' \in BOOLEAN
  BY DEF CheckInv, CheckTypes
<1>1. EvidenceTrue'
  BY <1>0 DEF CheckInv, EvidenceTrue
<1>2. (Paid => Paid') /\ (Secured => Secured')
  BY <1>0 DEF Paid, Secured
<1>3. first' # None => first'.status \in Ended
  BY <1>0 DEF CheckInv, Reached, None
<1>4. reported' => Paid' /\ Secured' /\ book'.current >= 2
  BY <1>0, <1>2 DEF CheckInv, Reached
<1> QED BY <1>0, <1>1, <1>2, <1>3, <1>4 DEF CheckInv, CheckTypes

\* A step of main to a point whose claim holds.
LEMMA GoesOn ==
  ASSUME CheckInv, NEW next \in Points, Go(next), UNCHANGED script, \A q \in Wallets : at[q] # "sent",
         next = "draw" => book.status[1] # "ACTIVE",
         next \in Sequel => first.status \in Ended,
         next \in Sequel \ {"claim"} => Paid,
         next \in {"current", "tickets2", "report"} => book.current >= 2,
         next = "report" => Secured
  PROVE  CheckInv'
<1>0. /\ UNCHANGED <<book, txs, file, memo, first, reported>> /\ book' = book /\ first' = first
      /\ lost' = lost /\ pc' = next
  BY DEF script, history, Go
<1>1. /\ first' # None => first'.status \in Ended
      /\ reported' => Paid' /\ Secured' /\ book'.current >= 2
      /\ EvidenceTrue' /\ (Paid => Paid') /\ (Secured => Secured') /\ reported' \in BOOLEAN
      /\ first' \in [status : Statuses \union {""}, winner : Players \union {Nobody}]
  BY <1>0, KeptInReach
<1>2. Reached'
  BY <1>0, <1>1 DEF Reached
<1>3. Unsent
  BY <1>0 DEF Unsent
<1> QED BY <1>0, <1>1, <1>2, <1>3, GoKeeps

LEMMA EvidenceGiven ==
  ASSUME CheckInv, pc \in Sequel
  PROVE  /\ first.status \in Ended /\ first # None
         /\ book.status[1] = first.status \/ book.status[1] = "COMPLETED"
<1>1. first.status \in Ended
  BY DEF CheckInv, Reached
<1>2. first # None
  <2>1. first.status # ""
    BY <1>1 DEF Ended
  <2>2. None.status = ""
    <3>1. PICK e : e = ""
      OBVIOUS
    <3>2. None = [status |-> e, winner |-> Nobody]
      BY <3>1, Zenon DEF None
    <3> QED BY <3>1, <3>2
  <2> QED BY <2>1, <2>2
<1> QED BY <1>1, <1>2 DEF CheckInv, EvidenceTrue

LEMMA StartKeeps == ASSUME CheckInv, Start PROVE CheckInv'
<1>1. /\ pc = "" /\ Go("fund") /\ UNCHANGED <<book, txs, first, reported>> /\ lost' = lost
      /\ file' = file /\ memo' = memo /\ pc' = "fund" /\ "fund" \in Points
  BY DEF Start, Go, Points, CheckInv, CheckTypes, history
<1>2. \A q \in Wallets : at[q] = ""
  BY <1>1 DEF CheckInv, AtWork
<1>3. Unsent
  BY <1>1, <1>2, IdleUnsent
<1>4. /\ first' # None => first'.status \in Ended
      /\ reported' => Paid' /\ Secured' /\ book'.current >= 2
      /\ EvidenceTrue' /\ reported' \in BOOLEAN
      /\ first' \in [status : Statuses \union {""}, winner : Players \union {Nobody}]
  BY <1>1, KeptInReach
<1>5. Reached'
  BY <1>1, <1>4 DEF Reached, Sequel
<1> QED BY <1>1, <1>3, <1>4, <1>5, GoKeeps

LEMMA FundKeeps == ASSUME CheckInv, Fund PROVE CheckInv'
<1> DEFINE poor == {p \in Wallets \ {Owner} : ~OnFile(p, "fund") /\ Low(p)}
           busy == {p \in Wallets : at[p] # ""}
<1>0. pc = "fund" /\ UNCHANGED script /\ "fund" \in Labels /\ "fund" \in Points
  BY DEF Fund, Labels, Points
<1>1. ASSUME NEW p \in Wallets, at = Idle \/ OneConfirm(p, "fund"), Await(p, "fund", "fund")
      PROVE  CheckInv'
  <2>1. Due(p, "fund")
    BY <1>0 DEF Due
  <2>2. ASSUME pc' = "fund" PROVE Reached'
    <3>1. UNCHANGED <<book, first, reported, pc>>
      BY <1>0, <2>2 DEF script
    <3> QED BY <3>1, StandsStill
  <2> QED BY <1>0, <1>1, <2>1, <2>2, AwaitKeeps
<1>2. CASE busy # {}
  <2>1. PICK p \in busy : Await(p, "fund", "fund")
    BY <1>2 DEF Fund
  <2>2. PICK w \in Wallets : OneConfirm(w, "fund")
    BY <1>0 DEF CheckInv, AtWork
  <2>3. p \in Wallets /\ p = w
    BY <2>2 DEF OneConfirm
  <2> QED BY <1>1, <2>1, <2>2, <2>3
<1>3. CASE busy = {}
  <2>1. \A q \in Wallets : at[q] = ""
    BY <1>3
  <2>2. at = Idle
    BY <2>1 DEF Idle, CheckInv, CheckTypes
  <2>3. CASE poor # {}
    <3>1. Await(CHOOSE q \in poor : TRUE, "fund", "fund")
      BY <1>3, <2>3 DEF Fund
    <3>2. (CHOOSE q \in poor : TRUE) \in Wallets
      BY <2>3
    <3> QED BY <1>1, <2>2, <3>1, <3>2
  <2>4. CASE poor = {}
    <3>1. Go(IF book.status[1] = "ACTIVE" THEN "tickets1" ELSE "draw")
      BY <1>3, <2>4 DEF Fund
    <3>2. CASE book.status[1] = "ACTIVE"
      <4>1. Go("tickets1") /\ "tickets1" \in Points
        BY <3>1, <3>2 DEF Points
      <4> QED BY <1>0, <2>1, <4>1, GoesOn DEF Sequel
    <3>3. CASE book.status[1] # "ACTIVE"
      <4>1. Go("draw") /\ "draw" \in Points
        BY <3>1, <3>3 DEF Points
      <4> QED BY <1>0, <2>1, <3>3, <4>1, GoesOn DEF Sequel
    <3> QED BY <3>2, <3>3
  <2> QED BY <2>3, <2>4
<1> QED BY <1>2, <1>3

LEMMA TicketsKeep ==
  ASSUME CheckInv,
         \/ Tickets("tickets1", Wallets, "perform")
         \/ Tickets("tickets2", Examiners, "report")
  PROVE  CheckInv'
<1>1. PICK here \in {"tickets1", "tickets2"}, wallets \in SUBSET Wallets,
           next \in {"perform", "report"} :
        /\ Tickets(here, wallets, next)
        /\ here = "tickets1" => wallets = Wallets /\ next = "perform"
        /\ here = "tickets2" => wallets = Examiners /\ next = "report"
  BY WalletsAssumption
<1>2. /\ pc = here /\ UNCHANGED script /\ AtWork /\ DoneMeans
  BY <1>1 DEF Tickets, CheckInv
<1>3. \A q \in Wallets \ wallets : at[q] = ""
  <2>1. CASE here = "tickets1"
    BY <1>1, <2>1
  <2>2. CASE here = "tickets2"
    <3>1. InTickets(Examiners, {"mint", "approve2", "buy2"})
      BY <1>2, <2>2 DEF AtWork
    <3> QED BY <1>1, <2>2, <3>1 DEF InTickets
  <2> QED BY <2>1, <2>2
<1>4. CASE /\ at = Idle /\ UNCHANGED <<pc, doing>>
           /\ at' = [p \in Wallets |-> IF p \in wallets THEN "look" ELSE ""]
  <2>0. \A q \in Wallets : at[q] = ""
    BY <1>4 DEF Idle
  <2>1. /\ UNCHANGED <<book, txs, file, memo, first, pc, doing>> /\ lost' = lost
        /\ UNCHANGED <<book, first, pc, reported>>
    BY <1>2, <1>4 DEF script, history
  <2>2. /\ Reached' /\ EvidenceTrue' /\ pc' \in Points /\ reported' \in BOOLEAN
        /\ first' \in [status : Statuses \union {""}, winner : Players \union {Nobody}]
    BY <2>1, StandsStill
  <2>3. Unsent
    BY <2>0, <2>1, IdleUnsent
  <2>4. \A q \in Wallets : at'[q] = IF q \in wallets THEN "look" ELSE ""
    BY <1>4
  <2>5. \A q \in Wallets : ~Working(q)'
    BY <2>4 DEF Working
  <2>6. AtWork'
    <3>2. CASE here = "tickets1"
      <4>1. InTickets(Wallets, {"mint", "approve1", "buy1"})'
        BY <1>1, <2>4, <2>5, <3>2 DEF InTickets
      <4> QED BY <1>2, <2>1, <3>2, <4>1 DEF AtWork
    <3>3. CASE here = "tickets2"
      <4>1. InTickets(Examiners, {"mint", "approve2", "buy2"})'
        BY <1>1, <2>4, <2>5, <3>3 DEF InTickets
      <4> QED BY <1>2, <2>1, <3>3, <4>1 DEF AtWork
    <3> QED BY <3>2, <3>3
  <2>7. /\ at' \in [Wallets -> {"", "look", "submit"}] /\ doing' \in [Wallets -> Labels \union {""}]
        /\ \A q \in Wallets : at'[q] = "submit" => doing'[q] \in Labels
    BY <1>4, <2>1, <2>4 DEF CheckInv, CheckTypes
  <2> QED BY <2>1, <2>2, <2>3, <2>6, <2>7, MainMoves
<1>5. CASE /\ \A p \in wallets : at[p] \in {"ok", "failed"}
           /\ IF Throws(wallets) THEN Throw ELSE Go(next)
  <2>1. \A q \in Wallets : at[q] # "sent"
    BY <1>3, <1>5
  <2>2. CASE Throws(wallets)
    <3>1. Go("") /\ "" \in Points
      BY <1>5, <2>2 DEF Throw, Points
    <3> QED BY <1>2, <2>1, <3>1, GoesOn DEF Sequel
  <2>3. CASE ~Throws(wallets)
    <3>1. Go(next) /\ next \in Points
      BY <1>5, <2>3 DEF Points
    <3>2. CASE here = "tickets1"
      <4>1. next = "perform"
        BY <1>1, <3>2
      <4> QED BY <1>2, <2>1, <3>1, <4>1, GoesOn DEF Sequel
    <3>3. CASE here = "tickets2"
      <4>1. next = "report" /\ pc = "tickets2" /\ wallets = Examiners
        BY <1>1, <1>2, <3>3
      <4>2. \A p \in wallets : at[p] = "ok"
        BY <1>5, <2>3 DEF Throws
      <4>3. Secured
        BY <1>1, <1>2, <4>1, <4>2 DEF DoneMeans, Secured
      <4>4. first.status \in Ended /\ Paid /\ book.current >= 2
        BY <4>1 DEF CheckInv, Reached, Sequel
      <4> QED BY <1>2, <2>1, <3>1, <4>1, <4>3, <4>4, GoesOn
    <3> QED BY <3>2, <3>3
  <2> QED BY <2>2, <2>3
<1> QED BY <1>1, <1>4, <1>5 DEF Tickets

LEMMA PerformKeeps == ASSUME CheckInv, Perform PROVE CheckInv'
<1>1. /\ pc = "perform" /\ Await(Owner, "performDraw1", "draw") /\ UNCHANGED script
      /\ "performDraw1" \in Labels /\ "draw" \in Points
  BY DEF Perform, Labels, Points
<1>2. Due(Owner, "performDraw1") /\ OneConfirm(Owner, "performDraw1")
  BY <1>1 DEF Due, CheckInv, AtWork
<1>3. ASSUME at[Owner] = "ok", pc' = "draw" PROVE Reached'
  <2>1. book.status[1] # "ACTIVE"
    BY <1>1, <1>3, OwnerPlays DEF CheckInv, DoneMeans
  <2>2. UNCHANGED <<book, first, reported>>
    BY <1>1 DEF script
  <2> QED BY <1>3, <2>1, <2>2, KeptInReach DEF Reached, Sequel
<1> QED BY <1>1, <1>2, <1>3, OwnerPlays, AwaitKeeps

\* The draw is recorded when it is over.
LEMMA ObservedKeeps == ASSUME CheckInv, Observed PROVE CheckInv'
<1>1. /\ pc = "draw" /\ book.status[1] # "DRAWING" /\ Go("claim") /\ pc' = "claim"
      /\ first' = [status |-> book.status[1], winner |-> book.winner[1]]
      /\ UNCHANGED <<book, txs, file, memo>> /\ (reported' <=> reported) /\ reported' \in BOOLEAN
      /\ lost' = lost /\ "claim" \in Points
  BY DEF Observed, Settled, Go, history, Points, CheckInv, CheckTypes
<1>2. /\ book.status[1] \in Statuses /\ book.winner[1] \in Players \union {Nobody}
  <2>1. book.status \in [RoundIds -> Statuses] /\ book.winner \in [RoundIds -> Players \union {Nobody}]
    BY DEF CheckInv, CheckTypes, Book
  <2> QED BY <2>1, RoundsOneAndTwo
<1>3. book.status[1] \in Ended
  BY <1>1, <1>2 DEF CheckInv, Reached, Statuses
<1>4. /\ first'.status = book.status[1] /\ first'.winner = book.winner[1]
      /\ first' \in [status : Statuses \union {""}, winner : Players \union {Nobody}]
  BY <1>1, <1>2
<1>5. EvidenceTrue'
  BY <1>1, <1>4 DEF EvidenceTrue
<1>6. Reached'
  <2>1. (Paid => Paid') /\ (Secured => Secured') /\ book' = book
    BY <1>1 DEF Paid, Secured
  <2> QED BY <1>1, <1>3, <1>4, <2>1 DEF CheckInv, Reached, Sequel
<1>7. \A q \in Wallets : at[q] = ""
  BY <1>1 DEF CheckInv, AtWork
<1>8. Unsent
  BY <1>1, <1>7, IdleUnsent
<1> QED BY <1>1, <1>4, <1>5, <1>6, <1>8, GoKeeps

LEMMA StillPendingKeeps == ASSUME CheckInv, StillPending PROVE CheckInv'
<1>1. pc = "draw" /\ Go("") /\ UNCHANGED script /\ "" \in Points
  BY DEF StillPending, Throw, Points
<1>2. \A q \in Wallets : at[q] = ""
  BY <1>1 DEF CheckInv, AtWork
<1> QED BY <1>1, <1>2, GoesOn DEF Sequel

LEMMA ClaimKeeps == ASSUME CheckInv, Claim PROVE CheckInv'
<1>0. /\ pc = "claim" /\ UNCHANGED script /\ "start" \in Points /\ "" \in Points
      /\ "claimPrize1" \in Labels /\ AtWork
  BY DEF Claim, Points, Labels, CheckInv
<1>1. /\ first.status \in Ended
      /\ book.status[1] = first.status \/ book.status[1] = "COMPLETED"
  BY <1>0, EvidenceGiven DEF Sequel
<1>2. CASE first.status # "WINNER_DECLARED"
  <2>1. Go("start")
    BY <1>2 DEF Claim
  <2>2. Paid
    BY <1>1, <1>2 DEF Paid, Ended
  <2>3. \A q \in Wallets : at[q] = ""
    BY <1>0, <1>2 DEF AtWork
  <2> QED BY <1>0, <1>1, <2>1, <2>2, <2>3, GoesOn
<1>3. CASE first.status = "WINNER_DECLARED" /\ first.winner \notin Wallets
  <2>1. Go("")
    BY <1>3 DEF Claim, Throw
  <2>2. \A q \in Wallets : at[q] = ""
    BY <1>0, <1>3 DEF AtWork
  <2> QED BY <1>0, <2>1, <2>2, GoesOn DEF Sequel
<1>4. CASE first.status = "WINNER_DECLARED" /\ first.winner \in Wallets
  <2>1. Await(first.winner, "claimPrize1", "start")
    BY <1>4 DEF Claim
  <2>2. Due(first.winner, "claimPrize1") /\ OneConfirm(first.winner, "claimPrize1")
    BY <1>0, <1>4 DEF Due, AtWork
  <2>3. ASSUME at[first.winner] = "ok", pc' = "start" PROVE Reached'
    <3>1. Paid
      BY <1>0, <1>4, <2>3 DEF CheckInv, DoneMeans, Paid
    <3>2. UNCHANGED <<book, first, reported>> /\ first' = first
      BY <1>0 DEF script
    <3>3. /\ first' # None => first'.status \in Ended
          /\ reported' => Paid' /\ Secured' /\ book'.current >= 2
          /\ Paid'
      BY <3>1, <3>2, KeptInReach
    <3> QED BY <1>1, <2>3, <3>2, <3>3 DEF Reached
  <2> QED BY <1>0, <1>4, <2>1, <2>2, <2>3, AwaitKeeps
<1> QED BY <1>2, <1>3, <1>4

LEMMA StartSecondKeeps == ASSUME CheckInv, StartSecond PROVE CheckInv'
<1>0. /\ pc = "start" /\ UNCHANGED script /\ "current" \in Points /\ "startDraw2" \in Labels
      /\ AtWork
  BY DEF StartSecond, Points, Labels, CheckInv
<1>1. first.status \in Ended /\ Paid
  BY <1>0 DEF CheckInv, Reached, Sequel
<1>2. CASE at = Idle /\ book.current # 1
  <2>1. Go("current")
    BY <1>2 DEF StartSecond
  <2>2. book.current \in 0..MaxRounds /\ book.current >= 1
    BY DEF CheckInv, CheckTypes, Book
  <2>3. book.current >= 2
    BY <1>2, <2>2, BoundsAssumption
  <2>4. \A q \in Wallets : at[q] = ""
    BY <1>2 DEF Idle
  <2> QED BY <1>0, <1>1, <2>1, <2>3, <2>4, GoesOn
<1>3. CASE ~(at = Idle /\ book.current # 1)
  <2>1. Await(Owner, "startDraw2", "current")
    BY <1>3 DEF StartSecond
  <2>2. Due(Owner, "startDraw2") /\ OneConfirm(Owner, "startDraw2")
    BY <1>0 DEF Due, AtWork
  <2>3. ASSUME at[Owner] = "ok", pc' = "current" PROVE Reached'
    <3>1. book.current >= 2
      BY <1>0, <2>3, OwnerPlays DEF CheckInv, DoneMeans
    <3>2. UNCHANGED <<book, first, reported>> /\ first' = first /\ book' = book
      BY <1>0 DEF script
    <3>3. /\ first' # None => first'.status \in Ended
          /\ reported' => Paid' /\ Secured' /\ book'.current >= 2
          /\ Paid'
      BY <1>1, <3>2, KeptInReach
    <3> QED BY <1>1, <2>3, <3>1, <3>2, <3>3 DEF Reached
  <2> QED BY <1>0, <2>1, <2>2, <2>3, OwnerPlays, AwaitKeeps
<1> QED BY <1>2, <1>3

LEMMA CurrentKeeps == ASSUME CheckInv, Current PROVE CheckInv'
<1>0. /\ pc = "current" /\ UNCHANGED script /\ "tickets2" \in Points /\ "report" \in Points
      /\ Go(IF book.current = 2 /\ book.status[2] = "ACTIVE" THEN "tickets2" ELSE "report")
  BY DEF Current, Points
<1>1. first.status \in Ended /\ Paid /\ book.current >= 2
  BY <1>0 DEF CheckInv, Reached, Sequel
<1>2. \A q \in Wallets : at[q] = ""
  BY <1>0 DEF CheckInv, AtWork
<1>3. CASE book.current = 2 /\ book.status[2] = "ACTIVE"
  <2>1. Go("tickets2")
    BY <1>0, <1>3
  <2> QED BY <1>0, <1>1, <1>2, <2>1, GoesOn
<1>4. CASE ~(book.current = 2 /\ book.status[2] = "ACTIVE")
  <2>1. Go("report") /\ Secured
    BY <1>0, <1>4 DEF Secured
  <2> QED BY <1>0, <1>1, <1>2, <2>1, GoesOn
<1> QED BY <1>3, <1>4

\* The end of the script: everything it has seen to still holds.
LEMMA ReportKeeps == ASSUME CheckInv, Report PROVE CheckInv'
<1>1. /\ pc = "report" /\ Go("") /\ pc' = "" /\ UNCHANGED <<book, txs, file, memo, first>>
      /\ reported' \in BOOLEAN /\ lost' = lost /\ "" \in Points /\ first' = first /\ book' = book
  BY DEF Report, Go, Points, history
<1>2. \A q \in Wallets : at[q] = ""
  BY <1>1 DEF CheckInv, AtWork
<1>3. Paid /\ Secured /\ book.current >= 2
  BY <1>1 DEF CheckInv, Reached, Sequel
<1>4. Paid' /\ Secured' /\ book'.current >= 2 /\ EvidenceTrue'
  BY <1>1, <1>3 DEF CheckInv, Paid, Secured, EvidenceTrue
<1>5. Reached'
  BY <1>1, <1>4 DEF CheckInv, Reached, Sequel, None
<1>6. first' \in [status : Statuses \union {""}, winner : Players \union {Nobody}]
  BY <1>1 DEF CheckInv, CheckTypes
<1>7. Unsent
  BY <1>1, <1>2, IdleUnsent
<1> QED BY <1>1, <1>4, <1>5, <1>6, <1>7, GoKeeps

LEMMA CrashKeeps == ASSUME CheckInv, Crash PROVE CheckInv'
<1>1. /\ Go("") /\ pc' = "" /\ "" \in Points
      /\ UNCHANGED <<book, txs, file, memo, first, reported>>
      /\ lost' = lost \union {p \in Wallets : at[p] = "sent"}
  BY DEF Crash, Throw, Go, Points
<1>2. Unsent
  BY <1>1 DEF Unsent
<1>3. /\ first' # None => first'.status \in Ended
      /\ reported' => Paid' /\ Secured' /\ book'.current >= 2
      /\ EvidenceTrue' /\ reported' \in BOOLEAN
      /\ first' \in [status : Statuses \union {""}, winner : Players \union {Nobody}]
  BY <1>1, KeptInReach
<1>4. Reached'
  BY <1>1, <1>3 DEF Reached, Sequel
<1> QED BY <1>1, <1>2, <1>3, <1>4, GoKeeps

-----------------------------------------------------------------------------
(* The theorems                                                            *)

LEMMA StepKeeps == ASSUME CheckInv, [Next]_vars PROVE CheckInv'
<1>1. CASE Chain
  BY <1>1, MiningKeeps DEF Chain
<1>2. CASE Oracle \/ Deadline \/ Outsider
  BY <1>2, OthersKeep
<1>3. CASE Main
  BY <1>3, StartKeeps, FundKeeps, PerformKeeps, ObservedKeeps, StillPendingKeeps, ClaimKeeps,
     StartSecondKeeps, CurrentKeeps, ReportKeeps, TicketsKeep DEF Main
<1>4. CASE \E p \in Wallets : Wallet(p) \/ Refused(p)
  BY <1>4, SubmitKeeps, SavingKeeps, ConfirmKeeps, LookKeeps DEF Wallet
<1>5. CASE Crash
  BY <1>5, CrashKeeps
<1>6. CASE UNCHANGED vars
  <2>1. /\ UNCHANGED <<book, txs, file, memo, first, pc, doing, at, reported>> /\ lost' = lost
        /\ book' = book
    BY <1>6 DEF vars, history
  <2>2. book' \in Book /\ Keeps(book, book') /\ World
    BY <2>1, BookStays DEF World, CheckInv, CheckTypes
  <2> QED BY <2>2, WorldKeeps
<1> QED BY <1>1, <1>2, <1>3, <1>4, <1>5, <1>6 DEF Next

LEMMA InitKeeps == ASSUME Init PROVE CheckInv
<1>0. /\ book = NextRound(EmptyBook) /\ first = None /\ pc = "" /\ doing = Idle /\ at = Idle
      /\ reported = FALSE /\ lost = {} /\ file = memo
      /\ memo = [p \in Wallets |-> [label \in Labels |-> 0]]
      /\ txs = [p \in Wallets |-> [label \in Labels |-> << >>]]
  BY DEF Init
<1>1. PICK f \in BOOLEAN : f = FALSE
  OBVIOUS
<1>2. EmptyBook \in Book /\ EmptyBook.current = 0
  <2>1. EmptyBook = [current  |-> 0,
                     status   |-> [id \in RoundIds |-> "ACTIVE"],
                     holders  |-> [id \in RoundIds |-> {}],
                     winner   |-> [id \in RoundIds |-> Nobody],
                     refunded |-> [id \in RoundIds |-> {}],
                     closed   |-> f]
    BY <1>1, Zenon DEF EmptyBook
  <2>2. "ACTIVE" \in Statuses /\ 0 \in 0..MaxRounds
    BY BoundsAssumption DEF Statuses
  <2> QED BY <2>1, <2>2 DEF Book
<1>3. book \in Book /\ book.current = 1
  <2>1. EmptyBook.current < MaxRounds
    BY <1>2, BoundsAssumption
  <2>2. PICK b \in Book : b = EmptyBook
    BY <1>2
  <2>3. NextRound(b) \in Book /\ NextRound(b).current = b.current + 1
    BY <2>1, <2>2, RoundAdded
  <2>4. b.current + 1 = 1
    BY <1>2, <2>2
  <2> QED BY <1>0, <2>2, <2>3, <2>4
<1>4. first \in [status : Statuses \union {""}, winner : Players \union {Nobody}]
  <2>1. PICK e : e = ""
    OBVIOUS
  <2>2. first = [status |-> e, winner |-> Nobody]
    BY <1>0, <2>1, Zenon DEF None
  <2> QED BY <2>1, <2>2
<1>5. \A q \in Wallets : at[q] = "" /\ doing[q] = ""
  BY <1>0 DEF Idle
<1>6. \A q \in Wallets, m \in Labels : txs[q][m] = << >> /\ memo[q][m] = 0 /\ Len(txs[q][m]) = 0
  BY <1>0
<1>7. CheckTypes
  <2>1. /\ at \in [Wallets -> States] /\ doing \in [Wallets -> Labels \union {""}]
        /\ memo \in [Wallets -> [Labels -> Nat]] /\ file = memo
    BY <1>0 DEF Idle, States
  <2>2. txs \in [Wallets -> [Labels -> Seq(Fates)]]
    <3>1. << >> \in Seq(Fates)
      OBVIOUS
    <3> QED BY <1>0, <3>1
  <2>3. pc \in Points /\ reported \in BOOLEAN
    BY <1>0 DEF Points
  <2>4. book.current >= 1
    BY <1>3
  <2> QED BY <1>3, <1>4, <2>1, <2>2, <2>3, <2>4 DEF CheckTypes
<1>8. Hashes
  <2>1. \A p \in Wallets : ~Working(p) /\ at[p] # "sent" /\ at[p] # "wait"
    BY <1>5 DEF Working
  <2>2. \A p \in Wallets, label \in Labels : memo[p][label] <= Len(txs[p][label])
    <3> SUFFICES ASSUME NEW p \in Wallets, NEW label \in Labels
                 PROVE  memo[p][label] <= Len(txs[p][label])
      OBVIOUS
    <3>1. memo[p][label] = 0 /\ Len(txs[p][label]) = 0
      BY <1>6
    <3> QED BY <3>1
  <2> QED BY <2>1, <2>2 DEF Hashes
<1>9. AtWork
  BY <1>0, <1>5 DEF AtWork
<1>10. OnceEach /\ DidLast
  BY <1>6 DEF OnceEach, Filed, DidLast, Did, Oks
<1>11. DoneMeans
  BY <1>5 DEF DoneMeans
<1>12. Reached /\ EvidenceTrue
  BY <1>0 DEF Reached, Sequel, EvidenceTrue
<1> QED BY <1>7, <1>8, <1>9, <1>10, <1>11, <1>12 DEF CheckInv

\* What the acceptance script says is true, whatever the wallets, the chain and
\* other players do meanwhile and however often it stops: the draw it recorded
\* was over, and a script that ended left round 1 settled and paid out and the
\* examiners' tickets in a live second round.
THEOREM ReportIsTrue == Spec => []TellsTheTruth
<1>1. CheckInv => TellsTheTruth
  BY DEF CheckInv, Reached, Paid, Secured, TellsTheTruth, ReportTrue
<1> QED BY <1>1, InitKeeps, StepKeeps, PTL DEF Spec

\* Unless a process died between sending and saving, no wallet of the acceptance
\* script sends a step twice, over any number of runs.
THEOREM StepsSentOnce == Spec => []SentOnce
<1>1. CheckInv => SentOnce
  <2> SUFFICES ASSUME CheckInv, lost = {}, NEW p \in Wallets, NEW label \in Labels
               PROVE  Len(txs[p][label]) <= 1
    BY DEF SentOnce
  <2>1. Filed(p, label)
    BY DEF CheckInv, OnceEach
  <2>2. Len(txs[p][label]) = 0 \/ Len(txs[p][label]) = 1
    BY <2>1 DEF Filed
  <2>3. \A n : n = 0 \/ n = 1 => n <= 1
    OBVIOUS
  <2> QED BY <2>2, <2>3
<1> QED BY <1>1, InitKeeps, StepKeeps, PTL DEF Spec
===============================================================================
