---------------------------- MODULE WalletAppProofs ----------------------------
(***************************************************************************)
(* Proofs about the wallet page, for every number of players and rounds,   *)
(* every order in which the wallet may list its accounts, and any number   *)
(* of clicks, wallet changes and calls by others.                          *)
(*                                                                         *)
(* What a success message says stays true because the rounds only go       *)
(* forward (Grows): a ticket, a refund and an outcome are never taken      *)
(* back.  That it is true when it is shown takes the whole path of an      *)
(* action: the transaction waited for is the one the task sent (TaskInv),  *)
(* and once it is mined it has done what the task is named for.  That a    *)
(* purchase has its approval takes the accounts of all approvals: only a   *)
(* ticket of the current round spends one (ApprovalInv).                   *)
(*                                                                         *)
(* The list of past draws, the module HistoryView, is the last part: any   *)
(* number of requests that overlap, and pages of any length.               *)
(***************************************************************************)
EXTENDS WalletApp, HistoryView, SequenceTheorems, WellFoundedInduction, TLAPS

-----------------------------------------------------------------------------
(* The rounds only go forward                                              *)

\* Nothing a client has seen of book b is taken back in book c.
Grows(b, c) ==
  /\ c.current >= b.current
  /\ \A id \in RoundIds :
       /\ b.holders[id] \subseteq c.holders[id]
       /\ b.refunded[id] \subseteq c.refunded[id]
       /\ b.status[id] # "ACTIVE" => c.status[id] # "ACTIVE"
       /\ b.status[id] \in Ended => c.status[id] \in Ended
       /\ b.status[id] = "COMPLETED" => c.status[id] = "COMPLETED" /\ c.winner[id] = b.winner[id]

\* What a successful call of this kind, by p about round id, leaves true.
Holds(b, kind, p, id) ==
  /\ kind \in Calls \ {"start"} => id \in RoundIds
  /\ kind = "buy"      => p \in b.holders[id]
  /\ kind = "draw"     => b.status[id] # "ACTIVE"
  /\ kind = "finalize" => b.status[id] \in Ended
  /\ kind = "prize"    => b.status[id] = "COMPLETED" /\ b.winner[id] = p
  /\ kind = "refund"   => p \in b.refunded[id]
  /\ kind = "start"    => b.current > id

\* The fields of a book in which one round's entry was replaced.
LEMMA StatusSet ==
  ASSUME NEW b \in Book, NEW id \in RoundIds, NEW s \in Statuses
  PROVE  /\ WithStatus(b, id, s) \in Book
         /\ WithStatus(b, id, s).current = b.current
         /\ WithStatus(b, id, s).holders = b.holders
         /\ WithStatus(b, id, s).refunded = b.refunded
         /\ WithStatus(b, id, s).winner = b.winner
         /\ WithStatus(b, id, s).status = [b.status EXCEPT ![id] = s]
BY DEF WithStatus, Book

LEMMA HolderAdded ==
  ASSUME NEW b \in Book, NEW id \in RoundIds, NEW p \in Players
  PROVE  /\ Bought(b, p, id) \in Book
         /\ Bought(b, p, id).current = b.current
         /\ Bought(b, p, id).status = b.status
         /\ Bought(b, p, id).refunded = b.refunded
         /\ Bought(b, p, id).winner = b.winner
         /\ Bought(b, p, id).holders = [b.holders EXCEPT ![id] = @ \union {p}]
BY DEF Bought, Book

LEMMA RefundAdded ==
  ASSUME NEW b \in Book, NEW id \in RoundIds, NEW p \in Players
  PROVE  /\ Refunded(b, p, id) \in Book
         /\ Refunded(b, p, id).current = b.current
         /\ Refunded(b, p, id).status = b.status
         /\ Refunded(b, p, id).holders = b.holders
         /\ Refunded(b, p, id).winner = b.winner
         /\ Refunded(b, p, id).refunded = [b.refunded EXCEPT ![id] = @ \union {p}]
BY DEF Refunded, Book

LEMMA WinnerSet ==
  ASSUME NEW b \in Book, NEW id \in RoundIds, NEW p \in Players
  PROVE  LET c == [b EXCEPT !.winner[id] = p] IN
         /\ c \in Book
         /\ c.current = b.current
         /\ c.status = b.status
         /\ c.holders = b.holders
         /\ c.refunded = b.refunded
         /\ c.winner = [b.winner EXCEPT ![id] = p]
BY DEF Book

LEMMA RoundAdded ==
  ASSUME NEW b \in Book, b.current < MaxRounds
  PROVE  /\ NextRound(b) \in Book
         /\ NextRound(b).current = b.current + 1
         /\ NextRound(b).status = b.status
         /\ NextRound(b).holders = b.holders
         /\ NextRound(b).refunded = b.refunded
         /\ NextRound(b).winner = b.winner
<1>1. MaxRounds \in Nat /\ b.current \in 0..MaxRounds /\ b.current + 1 \in 0..MaxRounds
  BY WalletAppAssumption DEF Book
<1> DEFINE c == [b EXCEPT !.current = @ + 1]
<1>2. /\ c \in Book /\ c.current = b.current + 1 /\ c.status = b.status
      /\ c.holders = b.holders /\ c.refunded = b.refunded /\ c.winner = b.winner
  BY <1>1 DEF Book
<1>3. PICK f \in BOOLEAN : f = FALSE
  OBVIOUS
<1> HIDE DEF c
<1>4. LET e == [c EXCEPT !.closed = f] IN
      /\ e \in Book /\ e.current = c.current /\ e.status = c.status
      /\ e.holders = c.holders /\ e.refunded = c.refunded /\ e.winner = c.winner
  BY <1>2 DEF Book
<1>5. NextRound(b) = [c EXCEPT !.closed = f]
  BY <1>3 DEF NextRound, WithClosed, c
<1> QED
  BY <1>2, <1>4, <1>5

LEMMA DeadlinePassed ==
  ASSUME NEW b \in Book
  PROVE  Lapsed(b) \in Book /\ Grows(b, Lapsed(b))
<1>1. PICK f \in BOOLEAN : f = TRUE
  OBVIOUS
<1>2. LET e == [b EXCEPT !.closed = f] IN
      /\ e \in Book /\ e.current = b.current /\ e.status = b.status
      /\ e.holders = b.holders /\ e.refunded = b.refunded /\ e.winner = b.winner
  BY DEF Book
<1>3. Lapsed(b) = [b EXCEPT !.closed = f]
  BY <1>1 DEF Lapsed, WithClosed
<1>4. b.current \in Int
  BY WalletAppAssumption DEF Book
<1> QED
  BY <1>2, <1>3, <1>4 DEF Grows

\* Round id of b, which was not paid out, is in a later status s in c.
Moves(b, c, id, s) ==
  /\ c.current = b.current /\ c.holders = b.holders /\ c.refunded = b.refunded
  /\ c.status = [b.status EXCEPT ![id] = s]
  /\ \A r \in RoundIds : r # id => c.winner[r] = b.winner[r]
  /\ s # "ACTIVE" /\ (b.status[id] \in Ended => s \in Ended)
  /\ b.status[id] # "COMPLETED"

\* A later status of one round keeps what was seen of all.
LEMMA StatusGrows ==
  ASSUME NEW b \in Book, NEW c \in Book, NEW id \in RoundIds, NEW s \in Statuses,
         Moves(b, c, id, s)
  PROVE  Grows(b, c) /\ c.status[id] = s
<1> USE DEF Moves
<1>1. b.current \in Int /\ b.status \in [RoundIds -> Statuses]
  BY WalletAppAssumption DEF Book
<1>2. c.status[id] = s /\ \A r \in RoundIds : r # id => c.status[r] = b.status[r]
  BY <1>1
<1>3. c.current >= b.current
  BY <1>1
<1>4. ASSUME NEW r \in RoundIds
      PROVE  /\ b.holders[r] \subseteq c.holders[r]
             /\ b.refunded[r] \subseteq c.refunded[r]
             /\ b.status[r] # "ACTIVE" => c.status[r] # "ACTIVE"
             /\ b.status[r] \in Ended => c.status[r] \in Ended
             /\ b.status[r] = "COMPLETED" => c.status[r] = "COMPLETED" /\ c.winner[r] = b.winner[r]
  <2>1. CASE r = id
    BY <1>2, <2>1
  <2>2. CASE r # id
    BY <1>2, <2>2
  <2> QED
    BY <2>1, <2>2
<1> QED
  BY <1>2, <1>3, <1>4 DEF Grows

\* The same, of WithStatus itself.
LEMMA StatusMoves ==
  ASSUME NEW b \in Book, NEW id \in RoundIds, NEW s \in Statuses, s # "ACTIVE",
         b.status[id] \in {"ACTIVE", "DRAWING"} \/ (b.status[id] # "COMPLETED" /\ s \in Ended)
  PROVE  /\ WithStatus(b, id, s) \in Book /\ Grows(b, WithStatus(b, id, s))
         /\ WithStatus(b, id, s).status[id] = s /\ WithStatus(b, id, s).winner = b.winner
<1>0. PICK moved : moved = WithStatus(b, id, s)
  OBVIOUS
<1>1. /\ moved \in Book /\ moved.current = b.current /\ moved.holders = b.holders
      /\ moved.refunded = b.refunded /\ moved.winner = b.winner
      /\ moved.status = [b.status EXCEPT ![id] = s]
  BY <1>0, StatusSet
<1>2. b.status[id] # "COMPLETED" /\ (b.status[id] \in Ended => s \in Ended)
  BY DEF Ended
<1>3. \A r \in RoundIds : r # id => moved.winner[r] = b.winner[r]
  BY <1>1
<1>4. Moves(b, moved, id, s)
  BY <1>1, <1>2, <1>3 DEF Moves
<1>5. moved \in Book
  BY <1>1
<1>6. Grows(b, moved)
  BY <1>4, <1>5, StatusGrows
<1>7. moved.status[id] = s
  BY <1>4, <1>5, StatusGrows
<1> QED
  BY <1>0, <1>1, <1>6, <1>7

\* An accepted call moves the book forward and does what it is named for.
LEMMA CallGoesForward ==
  ASSUME NEW b \in Book, NEW op \in Calls, NEW p \in Players, NEW id \in 0..MaxRounds,
         NEW c, c \in After(b, op, p, id)
  PROVE  c \in Book /\ Grows(b, c) /\ Holds(c, op, p, id)
<1> USE WalletAppAssumption
<1>0. b.current \in 0..MaxRounds /\ b.current \in Int
  BY DEF Book
<1>1. CASE op = "start"
  <2>1. MayStart(b, id) /\ c = NextRound(b)
    BY <1>1 DEF After
  <2>2. b.current < MaxRounds /\ id = b.current
    BY <2>1 DEF MayStart
  <2>3. c \in Book /\ Grows(b, c) /\ c.current > id
    BY <1>0, <2>1, <2>2, RoundAdded DEF Grows
  <2> QED
    BY <1>1, <2>3 DEF Holds
<1>2. CASE op = "buy"
  <2>1. MayBuy(b, p, id) /\ c = Bought(b, p, id)
    BY <1>2 DEF After
  <2>2. id \in RoundIds
    BY <1>0, <2>1 DEF MayBuy, Open, RoundIds
  <2>3. /\ c \in Book /\ c.current = b.current /\ c.status = b.status
        /\ c.refunded = b.refunded /\ c.winner = b.winner
        /\ c.holders = [b.holders EXCEPT ![id] = @ \union {p}]
    BY <2>1, <2>2, HolderAdded
  <2>4. b.holders \in [RoundIds -> SUBSET Players]
    BY DEF Book
  <2>5. p \in c.holders[id] /\ \A r \in RoundIds : b.holders[r] \subseteq c.holders[r]
    BY <2>2, <2>3, <2>4
  <2> QED
    BY <1>0, <1>2, <2>2, <2>3, <2>5 DEF Grows, Holds
<1>3. CASE op = "draw"
  <2>1. MayDraw(b, id) /\ c = Drawn(b, id)
    BY <1>3 DEF After
  <2>2. id \in RoundIds /\ b.status[id] = "ACTIVE"
    BY <1>0, <2>1 DEF MayDraw, RoundIds
  <2>3. PICK s \in {"CANCELLED", "DRAWING"} : c = WithStatus(b, id, s)
    BY <2>1 DEF Drawn
  <2>4. s \in Statuses /\ s # "ACTIVE" /\ b.status[id] \notin Ended
    BY <2>2 DEF Statuses, Ended
  <2>5. c \in Book /\ Grows(b, c) /\ c.status[id] = s
    BY <2>2, <2>3, <2>4, StatusMoves
  <2> QED
    BY <1>3, <2>2, <2>4, <2>5 DEF Holds
<1>4. CASE op = "finalize"
  <2>1. MayFinalize(b, id) /\ c \in Finalized(b, id)
    BY <1>4 DEF After
  <2>2. id \in RoundIds /\ b.status[id] = "DRAWING"
    BY <1>0, <2>1 DEF MayFinalize, Started, RoundIds
  <2>3. /\ b.status[id] \notin Ended /\ b.status[id] # "COMPLETED"
        /\ "NO_WINNER" \in Statuses /\ "NO_WINNER" \in Ended
        /\ "WINNER_DECLARED" \in Statuses /\ "WINNER_DECLARED" \in Ended
    BY <2>2 DEF Statuses, Ended
  <2>4. CASE c = WithStatus(b, id, "NO_WINNER")
    <3>1. c \in Book /\ Grows(b, c) /\ c.status[id] = "NO_WINNER"
      BY <2>2, <2>3, <2>4, StatusMoves
    <3> QED
      BY <1>4, <2>2, <2>3, <3>1 DEF Holds
  <2>5. CASE \E w \in b.holders[id] :
               c = [WithStatus(b, id, "WINNER_DECLARED") EXCEPT !.winner[id] = w]
    <3>1. PICK w \in b.holders[id] :
               c = [WithStatus(b, id, "WINNER_DECLARED") EXCEPT !.winner[id] = w]
      BY <2>5
    <3>2. w \in Players /\ b.winner \in [RoundIds -> Players \union {Nobody}]
      BY <2>2 DEF Book
    <3> DEFINE e == WithStatus(b, id, "WINNER_DECLARED")
    <3>3. /\ e \in Book /\ e.current = b.current /\ e.holders = b.holders
          /\ e.refunded = b.refunded /\ e.winner = b.winner
          /\ e.status = [b.status EXCEPT ![id] = "WINNER_DECLARED"]
      BY <2>2, <2>3, StatusSet
    <3>4. c = [e EXCEPT !.winner[id] = w]
      BY <3>1
    <3> HIDE DEF e
    <3>5. /\ c \in Book /\ c.current = e.current /\ c.status = e.status
          /\ c.holders = e.holders /\ c.refunded = e.refunded
          /\ c.winner = [e.winner EXCEPT ![id] = w]
      BY <2>2, <3>2, <3>3, <3>4, WinnerSet
    <3>6. \A r \in RoundIds : r # id => c.winner[r] = b.winner[r]
      BY <3>2, <3>3, <3>5
    <3>7. Grows(b, c) /\ c.status[id] = "WINNER_DECLARED"
      <4>1. c.status = [b.status EXCEPT ![id] = "WINNER_DECLARED"] /\ c.current = b.current
            /\ c.holders = b.holders /\ c.refunded = b.refunded
        BY <3>3, <3>5
      <4>2. Moves(b, c, id, "WINNER_DECLARED")
        BY <2>2, <2>3, <3>6, <4>1 DEF Moves
      <4> QED
        BY <2>2, <2>3, <3>5, <4>2, StatusGrows
    <3> QED
      BY <1>4, <2>2, <2>3, <3>5, <3>7 DEF Holds
  <2> QED
    BY <2>1, <2>4, <2>5 DEF Finalized
<1>5. CASE op = "prize"
  <2>1. MayClaimPrize(b, p, id) /\ c = PrizeTaken(b, id)
    BY <1>5 DEF After
  <2>2. id \in RoundIds /\ b.status[id] = "WINNER_DECLARED" /\ b.winner[id] = p
    BY <1>0, <2>1 DEF MayClaimPrize, Started, RoundIds
  <2>3. "COMPLETED" \in Statuses /\ "COMPLETED" \in Ended
    BY DEF Statuses, Ended
  <2>4. c = WithStatus(b, id, "COMPLETED")
    BY <2>1 DEF PrizeTaken
  <2>5. c \in Book /\ Grows(b, c) /\ c.status[id] = "COMPLETED" /\ c.winner = b.winner
    BY <2>2, <2>3, <2>4, StatusMoves
  <2> QED
    BY <1>5, <2>2, <2>5 DEF Holds
<1>6. CASE op = "refund"
  <2>1. MayClaimRefund(b, p, id) /\ c = Refunded(b, p, id)
    BY <1>6 DEF After
  <2>2. id \in RoundIds
    BY <1>0, <2>1 DEF MayClaimRefund, Started, RoundIds
  <2>3. /\ c \in Book /\ c.current = b.current /\ c.status = b.status
        /\ c.holders = b.holders /\ c.winner = b.winner
        /\ c.refunded = [b.refunded EXCEPT ![id] = @ \union {p}]
    BY <2>1, <2>2, RefundAdded
  <2>4. b.refunded \in [RoundIds -> SUBSET Players]
    BY DEF Book
  <2>5. p \in c.refunded[id] /\ \A r \in RoundIds : b.refunded[r] \subseteq c.refunded[r]
    BY <2>2, <2>3, <2>4
  <2> QED
    BY <1>0, <1>6, <2>2, <2>3, <2>5 DEF Grows, Holds
<1> QED
  BY <1>1, <1>2, <1>3, <1>4, <1>5, <1>6 DEF Calls

\* What was true of a call stays true.
LEMMA HoldsOn ==
  ASSUME NEW b \in Book, NEW c \in Book, Grows(b, c),
         NEW kind, NEW p, NEW id \in 0..MaxRounds, Holds(b, kind, p, id)
  PROVE  Holds(c, kind, p, id)
<1>1. b.current \in Int /\ c.current \in Int /\ id \in Int
  BY WalletAppAssumption DEF Book
<1>2. kind = "start" => c.current > id
  BY <1>1 DEF Holds, Grows
<1>3. kind \in Calls \ {"start"} => id \in RoundIds
  BY DEF Holds
<1>4. kind \in {"buy", "draw", "finalize", "prize", "refund"} => id \in RoundIds
  BY <1>3 DEF Calls
<1> QED
  BY <1>2, <1>3, <1>4 DEF Holds, Grows

-----------------------------------------------------------------------------
(* Types                                                                   *)

Ids      == 0..MaxRounds
Accounts == Players \union {NoAccount}

Kinds == ActionKinds \union {"", "connect"}
Ops   == ActionKinds \union {"", "more", "approve"}
Fates == {"", "pending", "mined", "repriced", "cancelled", "reverted"}

\* The steps of connect, then those of action.
TaskSteps ==
  {"", "connecting", "granted"} \union
  {"chain", "switch", "accounts", "verify", "recheck", "send", "sign", "wait", "refresh",
   "refreshing"}

Shots == [id : Ids, status : Statuses \union {""}, holders : SUBSET Players,
          winner : Players \union {Nobody}, refunded : SUBSET Players]

Messages ==
  [type : {"accounts", "granted", "listed"}, list : AccountLists, more : BOOLEAN]
    \union [type : {"chain"}, network : Networks]

Askers == {"page", "task"}

Readers == [step : {"", "draw", "paint", "sync"}, by : Askers \union {""}, account : Accounts,
            selected : Ids, stale : BOOLEAN, id : Ids, draw : Shots]

Tasks == [step : TaskSteps, kind : Kinds, op : Ops, account : Accounts, id : Ids,
          selected : Ids, from : {"", "before"}]

Txs == [op : Ops, account : Accounts, id : Ids, fate : Fates]

Notices == [kind : Kinds, account : Accounts, id : Ids]

TypeOK ==
  /\ book \in Book
  /\ authorised \in AccountLists /\ chain \in Networks /\ mail \in Seq(Messages)
  /\ account \in Accounts
  /\ draw \in Shots /\ currentID \in Ids /\ selectedID \in Ids
  /\ bound \in [account : Accounts, selected : Ids]
  /\ reader \in Readers /\ task \in Tasks /\ tx \in Txs
  /\ notice \in Notices

LEMMA FirstIsAccount ==
  ASSUME NEW list \in AccountLists
  PROVE  First(list) \in Accounts
<1>1. list \in Seq(Players)
  BY WalletAppAssumption
<1> QED
  BY <1>1 DEF First, Accounts

LEMMA ExposedArePlayers ==
  ASSUME NEW list \in AccountLists, NEW a, Has(list, a)
  PROVE  a \in Players
<1>1. list \in Seq(Players)
  BY WalletAppAssumption
<1> QED
  BY <1>1 DEF Has

LEMMA Nothings ==
  /\ 0 \in Ids /\ NoAccount \in Accounts
  /\ NoDraw \in Shots /\ NoDraw.id = 0
  /\ NoReader \in Readers /\ ~NoReader.stale /\ NoTask \in Tasks /\ NoTx \in Txs
  /\ NoNotice \in Notices
<1>1. 0 \in Ids /\ NoAccount \in Accounts
  BY WalletAppAssumption DEF Ids, Accounts
<1>2. PICK e : e = ""
  OBVIOUS
<1>a. /\ e \in Statuses \union {""} /\ e \in Askers \union {""} /\ e \in Kinds /\ e \in Ops
      /\ e \in TaskSteps /\ e \in Fates /\ e \in {"", "draw", "paint", "sync"} /\ e \in {"", "before"}
  BY <1>2, Zenon DEF Kinds, Ops, TaskSteps, Fates
<1>3. PICK f \in BOOLEAN : f = FALSE
  OBVIOUS
<1>4. NoDraw = [id |-> 0, status |-> e, holders |-> {}, winner |-> Nobody, refunded |-> {}]
  BY <1>2, Zenon DEF NoDraw
<1>5. NoDraw \in Shots /\ NoDraw.id = 0
  BY <1>1, <1>a, <1>4 DEF Shots
<1>6. NoReader = [step |-> e, by |-> e, account |-> NoAccount, selected |-> 0,
                  stale |-> f, id |-> 0, draw |-> NoDraw]
  BY <1>2, <1>3, Zenon DEF NoReader
<1>7. NoReader \in Readers /\ ~NoReader.stale
  BY <1>1, <1>a, <1>3, <1>5, <1>6 DEF Readers
<1>8. NoTask = [step |-> e, kind |-> e, op |-> e, account |-> NoAccount, id |-> 0,
                selected |-> 0, from |-> e]
  BY <1>2, Zenon DEF NoTask
<1>9. NoTask \in Tasks
  BY <1>1, <1>a, <1>8 DEF Tasks
<1>10. NoTx = [op |-> e, account |-> NoAccount, id |-> 0, fate |-> e]
  BY <1>2, Zenon DEF NoTx
<1>11. NoNotice = [kind |-> e, account |-> NoAccount, id |-> 0]
  BY <1>2, Zenon DEF NoNotice
<1>12. NoTx \in Txs /\ NoNotice \in Notices
  BY <1>1, <1>a, <1>10, <1>11 DEF Txs, Notices
<1> QED
  BY <1>1, <1>5, <1>7, <1>9, <1>12

LEMMA ShotTyped ==
  ASSUME book \in Book, NEW id \in Ids
  PROVE  Snapshot(id) \in Shots
<1>1. CASE id = 0
  BY <1>1, Nothings DEF Snapshot
<1>2. CASE id # 0
  <2>1. id \in RoundIds
    BY <1>2, WalletAppAssumption DEF Ids, RoundIds
  <2>2. /\ book.status[id] \in Statuses /\ book.holders[id] \in SUBSET Players
        /\ book.winner[id] \in Players \union {Nobody} /\ book.refunded[id] \in SUBSET Players
    BY <2>1 DEF Book
  <2> QED
    BY <1>2, <2>2 DEF Snapshot, Shots
<1> QED
  BY <1>1, <1>2

LEMMA ReaderTyped ==
  ASSUME book \in Book, NEW by \in Askers, NEW a \in Accounts, NEW selected \in Ids
  PROVE  LET r == NewReader(by, a, selected) IN
         /\ r \in Readers /\ r.step = "draw" /\ r.by = by /\ r.account = a
         /\ r.selected = selected /\ ~r.stale
<1>1. book.current \in Ids
  BY DEF Book, Ids
<1> QED
  BY <1>1, Nothings DEF NewReader, Readers

\* What a message may do: an account is selected, where the task may be a
\* connect that ends here; or the refresh in flight, at most, is made stale.
Selects ==
  \E a \in Accounts : SelectAccount(a) /\ (task' = task \/ task' = NoTask)

SelectsNothing ==
  UNCHANGED <<account, painted, notice, task>> /\ reader' \in {reader, Invalidated(reader)}

LEMMA MessageHandled ==
  ASSUME TypeOK, HandleMail
  PROVE  mail' \in Seq(Messages) /\ (Selects \/ SelectsNothing)
<1> DEFINE m == Head(mail)
<1>1. mail \in Seq(Messages) /\ mail # << >>
  BY DEF TypeOK, HandleMail
<1>2. m \in Messages /\ mail' \in Seq(Messages)
  BY <1>1, HeadTailProperties DEF HandleMail
<1>3. m.type \in {"accounts", "chain", "granted", "listed"}
  BY <1>2 DEF Messages
<1>4. m.type # "chain" => m.list \in AccountLists /\ First(m.list) \in Accounts
  BY <1>2, FirstIsAccount DEF Messages
<1>5. CASE m.type = "accounts"
  <2>1. AccountsChanged(m.list)
    BY <1>5 DEF HandleMail
  <2> QED
    BY <1>2, <1>4, <1>5, <2>1 DEF AccountsChanged, Selects
<1>6. CASE m.type = "chain"
  <2>1. ChainChanged(m.network)
    BY <1>6 DEF HandleMail
  <2> QED
    BY <1>2, <2>1 DEF ChainChanged, SelectsNothing
<1>7. CASE m.type = "granted"
  <2>1. Granted(m.list, m.more)
    BY <1>7 DEF HandleMail
  <2> QED
    BY <1>2, <1>4, <1>7, <2>1 DEF Granted, Selects
<1>8. CASE m.type = "listed"
  <2>1. Listed(m.list)
    BY <1>8 DEF HandleMail
  <2>2. CASE Has(m.list, account)
    BY <1>2, <2>1, <2>2 DEF Listed, SelectsNothing
  <2>3. CASE ~Has(m.list, account)
    BY <1>2, <1>4, <1>8, <2>1, <2>3 DEF Listed, Selects
  <2> QED
    BY <2>2, <2>3
<1> QED
  BY <1>3, <1>5, <1>6, <1>7, <1>8

LEMMA Marked ==
  ASSUME NEW r \in Readers
  PROVE  /\ Invalidated(r) \in Readers /\ Invalidated(r).by = r.by
         /\ Invalidated(r).step = r.step /\ Invalidated(r).account = r.account
         /\ Invalidated(r).stale \/ r = NoReader
<1>1. CASE r = NoReader
  BY <1>1 DEF Invalidated
<1>2. CASE r # NoReader
  <2>1. PICK f \in BOOLEAN : f = TRUE
    OBVIOUS
  <2>2. Invalidated(r) = [r EXCEPT !.stale = f]
    BY <1>2, <2>1 DEF Invalidated
  <2> QED
    BY <2>1, <2>2 DEF Readers
<1> QED
  BY <1>1, <1>2

LEMMA SelectionTyped ==
  ASSUME TypeOK, Selects \/ SelectsNothing
  PROVE  account' \in Accounts /\ reader' \in Readers /\ task' \in Tasks /\ notice' \in Notices
<1>1. reader \in Readers /\ Invalidated(reader) \in Readers
  BY Marked DEF TypeOK
<1>2. CASE Selects
  <2>1. PICK a \in Accounts : SelectAccount(a) /\ (task' = task \/ task' = NoTask)
    BY <1>2 DEF Selects
  <2> QED
    BY <1>1, <2>1, Nothings DEF SelectAccount, TypeOK
<1>3. CASE SelectsNothing
  BY <1>1, <1>3 DEF SelectsNothing, TypeOK
<1> QED
  BY <1>2, <1>3

LEMMA InitTyped == Init => TypeOK
<1> SUFFICES ASSUME Init PROVE TypeOK
  OBVIOUS
<1> USE WalletAppAssumption
<1>1. book \in Book /\ authorised \in AccountLists /\ chain \in Networks
  BY DEF Init
<1>2. PICK f \in BOOLEAN : f = FALSE
  OBVIOUS
<1>3. mail = <<[type |-> "accounts", list |-> authorised, more |-> f],
               [type |-> "chain", network |-> chain]>>
  BY <1>2, Zenon DEF Init
<1>4. /\ [type |-> "accounts", list |-> authorised, more |-> f] \in Messages
      /\ [type |-> "chain", network |-> chain] \in Messages
  BY <1>1, <1>2 DEF Messages
<1>5. mail \in Seq(Messages)
  BY <1>3, <1>4
<1>6. bound \in [account : Accounts, selected : Ids]
  BY Nothings DEF Init
<1> QED
  BY <1>1, <1>5, <1>6, Nothings DEF Init, TypeOK

\* The contract under the calls of the page and of others.
LEMMA CallMade ==
  ASSUME book \in Book, NEW op \in Calls \union {"mint", "approve"},
         NEW p \in Players, NEW id \in Ids, Call(op, p, id)
  PROVE  book' \in Book /\ Grows(book, book') /\ Holds(book', op, p, id)
<1>1. CASE op \in Calls
  <2>1. book' \in After(book, op, p, id)
    BY <1>1 DEF Call, Calls
  <2> QED
    BY <1>1, <2>1, CallGoesForward DEF Ids
<1>2. CASE op \in {"mint", "approve"}
  <2>1. UNCHANGED book
    BY <1>2 DEF Call
  <2>2. book.current \in Int
    BY WalletAppAssumption DEF Book
  <2>3. Grows(book, book')
    BY <2>1, <2>2 DEF Grows
  <2> QED
    BY <1>2, <2>1, <2>3 DEF Holds, Calls
<1> QED
  BY <1>1, <1>2

LEMMA OtherCallMade ==
  ASSUME book \in Book, NEW op \in Calls \union {"mint", "approve"},
         NEW p \in Players, NEW id \in Ids, Elsewhere(op, p, id)
  PROVE  book' \in Book /\ Grows(book, book')
<1>1. CASE Call(op, p, id)
  BY <1>1, CallMade
<1>2. CASE op = "buy" /\ book' \in After(book, op, p, id)
  BY <1>2, CallGoesForward DEF Ids
<1> QED
  BY <1>1, <1>2 DEF Elsewhere

\* What is known of a transaction when it reaches a block.
SentBySomeone ==
  tx.fate = "pending" => tx.op \in Calls \union {"mint", "approve"} /\ tx.account \in Players

LEMMA Included ==
  ASSUME TypeOK, SentBySomeone, Include
  PROVE  /\ book' \in Book /\ Grows(book, book')
         /\ tx' \in Txs /\ tx'.fate \notin {"pending", ""}
         /\ tx'.op = tx.op /\ tx'.account = tx.account /\ tx'.id = tx.id
         /\ tx'.fate \in {"mined", "repriced"} => Holds(book', tx.op, tx.account, tx.id)
<1>1. /\ tx \in Txs /\ tx.id \in Ids /\ book \in Book
      /\ tx.op \in Calls \union {"mint", "approve"} /\ tx.account \in Players
  BY DEF TypeOK, SentBySomeone, Include, Txs
<1>2. CASE /\ Call(tx.op, tx.account, tx.id)
           /\ \E fate \in {"mined", "repriced"} : tx' = [tx EXCEPT !.fate = fate]
  <2>1. book' \in Book /\ Grows(book, book') /\ Holds(book', tx.op, tx.account, tx.id)
    BY <1>1, <1>2, CallMade
  <2>2. PICK fate \in {"mined", "repriced"} : tx' = [tx EXCEPT !.fate = fate]
    BY <1>2
  <2> QED
    BY <1>1, <2>1, <2>2 DEF Txs, Fates
<1>3. CASE /\ tx' = [tx EXCEPT !.fate = IF Works(tx.op, tx.account, tx.id) THEN "cancelled"
                                       ELSE "reverted"]
           /\ UNCHANGED ledger
  <2>1. PICK fate \in {"cancelled", "reverted"} : tx' = [tx EXCEPT !.fate = fate]
    BY <1>3
  <2>2. UNCHANGED book /\ book.current \in Int
    BY <1>1, <1>3, WalletAppAssumption DEF ledger, Book
  <2>3. Grows(book, book')
    BY <2>2 DEF Grows
  <2> QED
    BY <1>1, <2>1, <2>2, <2>3 DEF Txs, Fates
<1> QED
  BY <1>2, <1>3 DEF Include

\* The refresh that is started, if one is.
LEMMA ReaderStarted ==
  ASSUME TypeOK
  PROVE  /\ AwaitRefresh => reader' \in Readers
         /\ Effect => reader' \in Readers /\ bound' \in [account : Accounts, selected : Ids]
         /\ Tick => reader' \in Readers
<1>1. /\ book \in Book /\ reader \in Readers /\ account \in Accounts /\ selectedID \in Ids
      /\ task.account \in Accounts /\ task.selected \in Ids
      /\ bound.account \in Accounts /\ bound.selected \in Ids
  BY DEF TypeOK, Tasks
<1>2. Invalidated(reader) \in Readers
  BY <1>1, Marked
<1>3. "page" \in Askers /\ "task" \in Askers
  BY DEF Askers
<1>4. \A a \in Accounts, selected \in Ids :
         NewReader("page", a, selected) \in Readers /\ NewReader("task", a, selected) \in Readers
  BY <1>1, <1>3, ReaderTyped
<1> QED
  BY <1>1, <1>2, <1>4 DEF AwaitRefresh, Effect, Tick

-----------------------------------------------------------------------------
(* The path of an action                                                   *)

\* The steps of connect, and of nothing.
OfConnect == {"", "connecting", "granted"}

TaskInv ==
  /\ SentBySomeone
  /\ task.step \notin OfConnect => task.kind \in ActionKinds
  /\ task.op = "approve" => task.kind = "buy"
  /\ task.step \in {"chain", "switch", "accounts", "verify"} => task.op # "buy"
  /\ task.step = "recheck" => task.kind = "buy"
  /\ task.step \in {"send", "sign", "wait"} => task.op \in {task.kind, "approve"}
  /\ task.step = "wait" =>
       tx.op = task.op /\ tx.account = task.account /\ tx.id = task.id

PageInv == TypeOK /\ TaskInv

LEMMA NothingGoesOn ==
  /\ NoTask.step = "" /\ NoTask.kind = "" /\ NoTask.op = "" /\ NoTx.fate = ""
  /\ NoReader.step = "" /\ NoReader.by = "" /\ NoNotice.kind = ""
<1>1. PICK e : e = ""
  OBVIOUS
<1>2. PICK f \in BOOLEAN : f = FALSE
  OBVIOUS
<1>3. /\ NoTask = [step |-> e, kind |-> e, op |-> e, account |-> NoAccount, id |-> 0,
                   selected |-> 0, from |-> e]
      /\ NoTx = [op |-> e, account |-> NoAccount, id |-> 0, fate |-> e]
      /\ NoReader = [step |-> e, by |-> e, account |-> NoAccount, selected |-> 0,
                     stale |-> f, id |-> 0, draw |-> NoDraw]
      /\ NoNotice = [kind |-> e, account |-> NoAccount, id |-> 0]
  BY <1>1, <1>2, Zenon DEF NoTask, NoTx, NoReader, NoNotice
<1> QED
  BY <1>1, <1>3

\* An action is not an approval, and is neither nothing nor a connect.
LEMMA NamesApart ==
  /\ \A kind \in ActionKinds : kind \notin {"", "connect", "approve", "more"}
  /\ ActionKinds \subseteq Ops /\ ActionKinds \subseteq Kinds
  /\ ActionKinds \subseteq Calls \union {"mint"} /\ "buy" \in ActionKinds
BY DEF ActionKinds, Calls, Ops, Kinds

LEMMA Proceeds ==
  ASSUME TypeOK, NEW s \in TaskSteps, Proceed(s)
  PROVE  /\ task' \in Tasks /\ task'.step = s /\ task'.kind = task.kind
         /\ task'.op = task.op /\ task'.account = task.account /\ task'.id = task.id
BY DEF Proceed, TypeOK, Tasks

LEMMA GoesOn ==
  ASSUME TypeOK, NEW o \in Ops, task' = [task EXCEPT !.step = "send", !.op = o]
  PROVE  /\ task' \in Tasks /\ task'.step = "send" /\ task'.kind = task.kind
         /\ task'.op = o /\ task'.account = task.account /\ task'.id = task.id
BY DEF TypeOK, Tasks, TaskSteps

LEMMA Fails ==
  ASSUME TypeOK, Fail
  PROVE  /\ task' \in Tasks /\ tx' \in Txs /\ notice' \in Notices
         /\ task' = NoTask /\ tx' = NoTx /\ TaskInv'
<1>1. /\ task' \in Tasks /\ tx' \in Txs /\ notice' \in Notices
      /\ task' = NoTask /\ tx' = NoTx
  BY Nothings DEF Fail, TypeOK
<1> QED
  BY <1>1, NothingGoesOn DEF TaskInv, SentBySomeone, OfConnect

\* The steps of an action that only lead to the next one.
LEMMA StepMade ==
  ASSUME PageInv, CheckChain \/ CheckAccounts \/ SwitchChain \/ AwaitRefresh
  PROVE  /\ task' \in Tasks /\ tx' \in Txs /\ notice' \in Notices /\ TaskInv'
<1> USE DEF PageInv
<1>1. {"switch", "accounts", "verify", "refreshing"} \subseteq TaskSteps
  BY DEF TaskSteps
<1>2. \/ Fail
      \/ /\ task.step \in {"chain", "switch", "accounts", "refresh"} /\ UNCHANGED <<tx, notice>>
         /\ \E s \in {"switch", "accounts", "verify", "refreshing"} :
              Proceed(s) /\ (task.step = "refresh" => s = "refreshing")
  BY DEF CheckChain, CheckAccounts, SwitchChain, AwaitRefresh
<1>3. CASE Fail
  BY <1>3, Fails
<1>4. CASE /\ task.step \in {"chain", "switch", "accounts", "refresh"} /\ UNCHANGED <<tx, notice>>
           /\ \E s \in {"switch", "accounts", "verify", "refreshing"} :
              Proceed(s) /\ (task.step = "refresh" => s = "refreshing")
  <2>1. PICK s \in {"switch", "accounts", "verify", "refreshing"} :
             Proceed(s) /\ (task.step = "refresh" => s = "refreshing")
    BY <1>4
  <2>2. /\ task' \in Tasks /\ task'.step = s /\ task'.kind = task.kind
        /\ task'.op = task.op /\ task'.account = task.account /\ task'.id = task.id
    BY <1>1, <2>1, Proceeds
  <2>3. task.kind \in ActionKinds
    BY <1>4 DEF TaskInv, OfConnect
  <2>4. s = "refreshing" \/ task'.op # "buy"
    BY <1>4, <2>1, <2>2 DEF TaskInv
  <2> QED
    BY <1>4, <2>2, <2>3, <2>4 DEF TaskInv, SentBySomeone, OfConnect, TypeOK
<1> QED
  BY <1>2, <1>3, <1>4

LEMMA SignatureAsked ==
  ASSUME PageInv, Verify \/ Recheck \/ Send
  PROVE  /\ task' \in Tasks /\ tx' \in Txs /\ notice' \in Notices /\ TaskInv'
<1> USE DEF PageInv
<1>0. task \in Tasks /\ task.step \in {"verify", "recheck", "send"} /\ task.kind \in ActionKinds
  BY DEF Verify, Recheck, Send, TypeOK, TaskInv, OfConnect
<1>1. CASE Fail
  BY <1>1, Fails
<1>2. CASE Verify /\ ~Fail
  <2>0. UNCHANGED <<tx, notice>>
    BY <1>2 DEF Verify
  <2>1. CASE task.kind # "buy"
    <3>1. task' = [task EXCEPT !.step = "send", !.op = task.kind]
      BY <1>2, <2>1 DEF Verify
    <3>2. /\ task' \in Tasks /\ task'.step = "send" /\ task'.kind = task.kind
          /\ task'.op = task.kind
      BY <1>0, <3>1, GoesOn, NamesApart
    <3> QED
      BY <1>0, <2>0, <3>2, NamesApart DEF TaskInv, SentBySomeone, OfConnect, TypeOK
  <2>2. CASE task.kind = "buy" /\ allowance[task.account] = 0
    <3>1. task' = [task EXCEPT !.step = "send", !.op = "approve"]
      BY <1>2, <2>2 DEF Verify
    <3>2. /\ task' \in Tasks /\ task'.step = "send" /\ task'.kind = task.kind
          /\ task'.op = "approve"
      BY <3>1, GoesOn DEF Ops
    <3> QED
      BY <1>0, <2>0, <2>2, <3>2 DEF TaskInv, SentBySomeone, OfConnect, TypeOK
  <2>3. CASE task.kind = "buy" /\ allowance[task.account] # 0
    <3>1. Proceed("recheck")
      BY <1>2, <2>3 DEF Verify, Proceed
    <3>2. /\ task' \in Tasks /\ task'.step = "recheck" /\ task'.kind = task.kind
          /\ task'.op = task.op
      BY <3>1, Proceeds DEF TaskSteps
    <3> QED
      BY <1>0, <2>0, <2>3, <3>2 DEF TaskInv, SentBySomeone, OfConnect, TypeOK
  <2> QED
    BY <2>1, <2>2, <2>3
<1>3. CASE Recheck /\ ~Fail
  <2>1. task.step = "recheck" /\ task.kind = "buy" /\ UNCHANGED <<tx, notice>>
    BY <1>3 DEF Recheck, TaskInv
  <2>2. task' = [task EXCEPT !.step = "send", !.op = "buy"]
    BY <1>3 DEF Recheck
  <2>3. /\ task' \in Tasks /\ task'.step = "send" /\ task'.kind = task.kind /\ task'.op = "buy"
    BY <2>2, GoesOn, NamesApart
  <2> QED
    BY <1>0, <2>1, <2>3 DEF TaskInv, SentBySomeone, OfConnect, TypeOK
<1>4. CASE Send
  <2>1. PICK o \in {"", "before"} : o = ScanFrom
    BY DEF ScanFrom
  <2>2. task.step = "send" /\ UNCHANGED <<tx, notice>>
    BY <1>4 DEF Send
  <2>3. task' = [task EXCEPT !.step = "sign", !.from = o]
    BY <1>4, <2>1 DEF Send
  <2>4. /\ task' \in Tasks /\ task'.step = "sign" /\ task'.kind = task.kind
        /\ task'.op = task.op /\ task'.account = task.account /\ task'.id = task.id
    BY <1>0, <2>3 DEF Tasks, TaskSteps
  <2> QED
    BY <1>0, <2>2, <2>4 DEF TaskInv, SentBySomeone, OfConnect, TypeOK
<1> QED
  BY <1>1, <1>2, <1>3, <1>4

LEMMA TransactionSent ==
  ASSUME PageInv, Sign
  PROVE  /\ task' \in Tasks /\ tx' \in Txs /\ notice' \in Notices /\ TaskInv'
<1> USE DEF PageInv
<1>1. CASE Fail
  BY <1>1, Fails
<1>2. CASE ~Fail
  <2>1. /\ task.step = "sign" /\ Has(authorised, task.account) /\ Proceed("wait")
        /\ tx' = [op |-> task.op, account |-> task.account, id |-> task.id, fate |-> "pending"]
        /\ UNCHANGED notice
    BY <1>2 DEF Sign
  <2>2. task \in Tasks /\ task.kind \in ActionKinds /\ task.op \in {task.kind, "approve"}
    BY <2>1 DEF TypeOK, TaskInv, OfConnect
  <2>3. task.account \in Players
    BY <2>1, ExposedArePlayers DEF TypeOK
  <2>4. /\ task' \in Tasks /\ task'.step = "wait" /\ task'.kind = task.kind
        /\ task'.op = task.op /\ task'.account = task.account /\ task'.id = task.id
    BY <2>1, Proceeds DEF TaskSteps
  <2>5. tx' \in Txs
    BY <2>1, <2>2 DEF Tasks, Txs, Fates
  <2>6. task.op \in Calls \union {"mint", "approve"}
    BY <2>2, NamesApart
  <2> QED
    BY <2>1, <2>2, <2>3, <2>4, <2>5, <2>6 DEF TaskInv, SentBySomeone, OfConnect, TypeOK
<1> QED
  BY <1>1, <1>2

\* What the end of the wait leaves: an error, another step, or a notice.
LEMMA Confirmed ==
  ASSUME PageInv, Confirm
  PROVE  /\ task' \in Tasks /\ tx' \in Txs /\ notice' \in Notices /\ TaskInv'
         /\ selectedID' \in Ids /\ draw' \in Shots
         /\ \/ UNCHANGED notice
            \/ /\ tx.fate \in {"mined", "repriced"}
               /\ notice' = [kind |-> tx.op, account |-> tx.account, id |-> tx.id]
<1> USE DEF PageInv
<1>0. /\ task \in Tasks /\ task.step = "wait" /\ task.kind \in ActionKinds
      /\ tx.op = task.op /\ tx.account = task.account /\ tx.id = task.id
      /\ selectedID \in Ids /\ draw \in Shots /\ notice \in Notices
  BY DEF Confirm, TypeOK, TaskInv, OfConnect
<1>1. CASE ~Done(tx)
  BY <1>0, <1>1, Fails DEF Confirm, Fail
<1>2. CASE Done(tx) /\ task.op = "approve"
  <2>1. Proceed("recheck") /\ tx' = NoTx /\ UNCHANGED <<notice, selectedID, draw>>
    BY <1>2 DEF Confirm
  <2>2. /\ task' \in Tasks /\ task'.step = "recheck" /\ task'.kind = task.kind
        /\ task'.op = task.op
    BY <2>1, Proceeds DEF TaskSteps
  <2>3. task.kind = "buy"
    BY <1>2 DEF TaskInv
  <2>4. tx' \in Txs /\ tx'.fate = ""
    BY <2>1, Nothings, NothingGoesOn
  <2> QED
    BY <1>0, <2>1, <2>2, <2>3, <2>4 DEF TaskInv, SentBySomeone, OfConnect
<1>3. CASE Done(tx) /\ task.op # "approve"
  <2>1. /\ Proceed("refresh") /\ tx' = NoTx
        /\ notice' = [kind |-> task.kind, account |-> task.account, id |-> task.id]
        /\ selectedID' \in {selectedID, 0} /\ draw' \in {draw, NoDraw}
    BY <1>3 DEF Confirm
  <2>2. /\ task' \in Tasks /\ task'.step = "refresh" /\ task'.kind = task.kind
        /\ task'.op = task.op
    BY <2>1, Proceeds DEF TaskSteps
  <2>3. tx' \in Txs /\ tx'.fate = ""
    BY <2>1, Nothings, NothingGoesOn
  <2>4. task.op = task.kind
    BY <1>0, <1>3 DEF TaskInv
  <2>5. notice' \in Notices
    BY <1>0, <2>1 DEF Tasks, Notices
  <2>6. selectedID' \in Ids /\ draw' \in Shots
    BY <1>0, <2>1, Nothings
  <2>7. TaskInv'
    BY <1>0, <1>3, <2>2, <2>3 DEF TaskInv, SentBySomeone, OfConnect
  <2> QED
    BY <1>0, <1>3, <2>1, <2>2, <2>3, <2>4, <2>5, <2>6, <2>7 DEF Done
<1> QED
  BY <1>1, <1>2, <1>3

\* A selection leaves the task alone, or ends a connect.
LEMMA SelectionKeepsPath ==
  ASSUME PageInv, Selects \/ SelectsNothing, UNCHANGED tx
  PROVE  TaskInv'
<1>1. CASE SelectsNothing
  BY <1>1 DEF SelectsNothing, PageInv, TaskInv, SentBySomeone
<1>2. CASE Selects
  <2>1. task' = task \/ task' = NoTask
    BY <1>2 DEF Selects
  <2>2. CASE task' = NoTask
    BY <2>2, NothingGoesOn DEF PageInv, TaskInv, SentBySomeone, OfConnect
  <2>3. CASE task' = task
    BY <2>3 DEF PageInv, TaskInv, SentBySomeone
  <2> QED
    BY <2>1, <2>2, <2>3
<1> QED
  BY <1>1, <1>2

LEMMA ActionBegun ==
  ASSUME TypeOK, NEW kind \in ActionKinds, Begin(kind)
  PROVE  /\ task' \in Tasks /\ task'.step = "chain" /\ task'.kind = kind /\ task'.op = ""
         /\ task'.account = bound.account
<1>2. PICK n \in Ids : n = IF kind = "start" THEN currentID ELSE draw.id
  BY DEF TypeOK, Shots
<1>3. task' = [NoTask EXCEPT !.step = "chain", !.kind = kind, !.account = bound.account,
                 !.selected = bound.selected, !.id = n]
  BY <1>2 DEF Begin
<1>4. NoTask \in Tasks /\ NoTask.op = "" /\ bound.account \in Accounts /\ bound.selected \in Ids
  BY Nothings, NothingGoesOn DEF TypeOK
<1>5. "chain" \in TaskSteps /\ kind \in Kinds
  BY NamesApart DEF TaskSteps
<1> HIDE DEF Ids, Accounts
<1>6. /\ task' \in Tasks /\ task'.step = "chain" /\ task'.kind = kind /\ task'.op = NoTask.op
      /\ task'.account = bound.account
  BY <1>3, <1>4, <1>5 DEF Tasks
<1> QED
  BY <1>4, <1>6

LEMMA ConnectBegun ==
  ASSUME NEW more, Connect(more)
  PROVE  /\ task' \in Tasks /\ task'.step = "connecting" /\ task'.kind = "connect"
         /\ task'.op \in {"", "more"}
<1>1. PICK o \in {"", "more"} : o = IF more THEN "more" ELSE ""
  OBVIOUS
<1>2. task' = [NoTask EXCEPT !.step = "connecting", !.kind = "connect", !.op = o]
  BY <1>1 DEF Connect
<1>3. "connecting" \in TaskSteps /\ "connect" \in Kinds /\ o \in Ops
  BY DEF TaskSteps, Kinds, Ops
<1> QED
  BY <1>2, <1>3, Nothings DEF Tasks

\* An await of the page: what it may change, and that the path is kept.
AwaitStep ==
  \/ CheckChain \/ SwitchChain \/ CheckAccounts \/ Verify \/ Recheck \/ Send \/ Sign
  \/ Decline \/ RpcFails \/ Confirm \/ AwaitRefresh \/ EndAction

LEMMA AwaitKeepsPath ==
  ASSUME PageInv, AwaitStep
  PROVE  /\ task' \in Tasks /\ tx' \in Txs /\ notice' \in Notices /\ TaskInv'
<1>1. CASE CheckChain \/ CheckAccounts \/ SwitchChain \/ AwaitRefresh
  BY <1>1, StepMade
<1>2. CASE Verify \/ Recheck \/ Send
  BY <1>2, SignatureAsked
<1>3. CASE Sign
  BY <1>3, TransactionSent
<1>4. CASE Decline \/ RpcFails
  BY <1>4, Fails DEF Decline, RpcFails, PageInv
<1>5. CASE Confirm
  BY <1>5, Confirmed
<1>6. CASE EndAction
  <2>1. task' = NoTask /\ UNCHANGED <<tx, notice>>
    BY <1>6 DEF EndAction
  <2> QED
    BY <2>1, Nothings, NothingGoesOn DEF PageInv, TypeOK, TaskInv, SentBySomeone, OfConnect
<1> QED
  BY <1>1, <1>2, <1>3, <1>4, <1>5, <1>6 DEF AwaitStep

\* The rest of the page's state over an await.
LEMMA AwaitTyped ==
  ASSUME PageInv, AwaitStep
  PROVE  /\ UNCHANGED <<book, allowance, authorised, account, currentID, bound>>
         /\ selectedID' \in Ids /\ draw' \in Shots /\ reader' \in Readers
         /\ chain' \in Networks /\ mail' \in Seq(Messages)
<1> USE DEF ledger, wallet, choice, shown, effects
<1>0. /\ selectedID \in Ids /\ draw \in Shots /\ reader \in Readers
      /\ chain \in Networks /\ mail \in Seq(Messages)
  BY DEF PageInv, TypeOK
<1>1. CASE CheckChain \/ CheckAccounts \/ Verify \/ Recheck \/ Send \/ Sign \/ Decline \/ RpcFails
           \/ EndAction
  <2>1. Stay
    BY <1>1 DEF CheckChain, CheckAccounts, Verify, Recheck, Send, Sign, Decline, RpcFails, EndAction
  <2> QED
    BY <1>0, <2>1 DEF Stay
<1>2. CASE SwitchChain
  <2>1. [type |-> "chain", network |-> "lottery"] \in Messages
    BY DEF Messages, Networks
  <2>2. mail' \in Seq(Messages)
    BY <1>0, <1>2, <2>1 DEF SwitchChain
  <2> QED
    BY <1>0, <1>2, <2>2 DEF SwitchChain, Networks
<1>3. CASE Confirm
  BY <1>0, <1>3, Confirmed DEF Confirm
<1>4. CASE AwaitRefresh
  BY <1>0, <1>4, ReaderStarted DEF AwaitRefresh, PageInv
<1> QED
  BY <1>1, <1>2, <1>3, <1>4 DEF AwaitStep

\* A step of the refresh in flight, or the start of one by the page.
ReadingStep == LoadConfig \/ Effect \/ Tick \/ ReadDraw \/ Paint \/ EndRefresh \/ RefreshFails

LEMMA ShotTaken ==
  ASSUME TypeOK, ReadDraw
  PROVE  /\ reader' \in Readers /\ reader'.step = "paint" /\ reader'.by = reader.by
         /\ reader'.account = reader.account /\ reader'.stale = reader.stale
<1>1. reader \in Readers /\ book \in Book
  BY DEF TypeOK
<1>2. PICK x \in Shots : reader' = [reader EXCEPT !.step = "paint", !.draw = x]
  BY <1>1, ShotTyped DEF ReadDraw, Readers
<1> HIDE DEF Shots
<1> QED
  BY <1>1, <1>2 DEF Readers

LEMMA ReadingTyped ==
  ASSUME TypeOK, ReadingStep
  PROVE  TypeOK' /\ UNCHANGED <<book, allowance, account, task, tx, notice>>
<1> USE DEF ledger, wallet, choice, shown, effects, doing
<1>1. UNCHANGED <<book, allowance, authorised, chain, mail, account, selectedID, task, tx,
                  notice>>
  BY DEF ReadingStep, LoadConfig, Effect, Tick, ReadDraw, Paint, EndRefresh, RefreshFails
<1>2. /\ reader \in Readers /\ reader.id \in Ids /\ reader.draw \in Shots
      /\ draw \in Shots /\ currentID \in Ids /\ bound \in [account : Accounts, selected : Ids]
  BY DEF TypeOK, Readers
<1>3. CASE LoadConfig
  BY <1>1, <1>3 DEF LoadConfig, TypeOK
<1>4. CASE Effect
  BY <1>1, <1>4, ReaderStarted DEF Effect, TypeOK
<1>5. CASE Tick
  BY <1>1, <1>5, ReaderStarted DEF Tick, TypeOK
<1>6. CASE ReadDraw
  BY <1>1, <1>6, ShotTaken DEF ReadDraw, TypeOK
<1>7. CASE Paint
  <2>1. reader' \in Readers
    <3>1. [NoReader EXCEPT !.step = "sync", !.by = reader.by] \in Readers
      BY <1>2, Nothings DEF Readers
    <3> QED
      BY <1>7, <3>1, Nothings DEF Paint
  <2>2. draw' \in Shots /\ currentID' \in Ids
    BY <1>2, <1>7 DEF Paint
  <2> QED
    BY <1>1, <1>2, <1>7, <2>1, <2>2 DEF Paint, TypeOK
<1>8. CASE EndRefresh \/ RefreshFails
  BY <1>1, <1>8, Nothings DEF EndRefresh, RefreshFails, Released, TypeOK
<1> QED
  BY <1>1, <1>3, <1>4, <1>5, <1>6, <1>7, <1>8 DEF ReadingStep

LEMMA MessageTyped ==
  ASSUME NEW list \in AccountLists, NEW more \in BOOLEAN,
         NEW type \in {"accounts", "granted", "listed"}
  PROVE  [type |-> type, list |-> list, more |-> more] \in Messages
BY DEF Messages

\* What the wallet does by itself.
WalletStep ==
  \/ \E list \in AccountLists : GrantAccounts(list) \/ ChangeAccounts(list)
  \/ RefuseAccounts
  \/ \E network \in Networks : ChangeChain(network)

LEMMA WalletTyped ==
  ASSUME TypeOK, WalletStep
  PROVE  /\ TypeOK'
         /\ UNCHANGED <<book, allowance, account, reader, painted, tx, notice>>
         /\ UNCHANGED task \/ task' = NoTask \/ (task.step = "connecting" /\ Proceed("granted"))
<1> USE DEF ledger, choice, shown, effects, doing, wallet
<1>1. mail \in Seq(Messages)
  BY DEF TypeOK
<1>2. PICK f \in BOOLEAN : f = FALSE
  OBVIOUS
<1>3. CASE \E list \in AccountLists : GrantAccounts(list)
  <2>1. PICK list \in AccountLists : GrantAccounts(list)
    BY <1>3
  <2>2. PICK more \in BOOLEAN : more = (task.op = "more")
    OBVIOUS
  <2>3. /\ [type |-> "accounts", list |-> list, more |-> f] \in Messages
        /\ [type |-> "granted", list |-> list, more |-> more] \in Messages
    BY MessageTyped
  <2>4. mail' = mail \o (IF list = authorised THEN << >>
                         ELSE <<[type |-> "accounts", list |-> list, more |-> f]>>)
                     \o <<[type |-> "granted", list |-> list, more |-> more]>>
    BY <1>2, <2>1, <2>2, Zenon DEF GrantAccounts
  <2>5. mail' \in Seq(Messages)
    BY <1>1, <2>3, <2>4
  <2>6. task' \in Tasks
    BY <2>1, Proceeds DEF GrantAccounts, TaskSteps
  <2> QED
    BY <2>1, <2>5, <2>6 DEF GrantAccounts, TypeOK
<1>4. CASE \E list \in AccountLists : ChangeAccounts(list)
  <2>1. PICK list \in AccountLists : ChangeAccounts(list)
    BY <1>4
  <2>2. [type |-> "accounts", list |-> list, more |-> f] \in Messages
    BY MessageTyped
  <2>3. mail' = Append(mail, [type |-> "accounts", list |-> list, more |-> f])
    BY <1>2, <2>1, Zenon DEF ChangeAccounts
  <2>4. mail' \in Seq(Messages)
    BY <1>1, <2>2, <2>3
  <2> QED
    BY <2>1, <2>4 DEF ChangeAccounts, TypeOK
<1>5. CASE RefuseAccounts
  BY <1>5, Nothings DEF RefuseAccounts, TypeOK
<1>6. CASE \E network \in Networks : ChangeChain(network)
  <2>1. PICK network \in Networks : ChangeChain(network)
    BY <1>6
  <2>2. [type |-> "chain", network |-> network] \in Messages
    BY DEF Messages
  <2>3. mail' \in Seq(Messages)
    BY <1>1, <2>1, <2>2 DEF ChangeChain
  <2> QED
    BY <2>1, <2>3 DEF ChangeChain, TypeOK
<1> QED
  BY <1>3, <1>4, <1>5, <1>6 DEF WalletStep

\* What the user does on the page, an account of the menu apart.
ClickStep ==
  \/ \E kind \in ActionKinds : Begin(kind)
  \/ \E id \in Ids : SelectDraw(id)
  \/ \E more \in BOOLEAN : Connect(more)
  \/ OpenWallet

LEMMA ClickTyped ==
  ASSUME TypeOK, ClickStep
  PROVE  /\ TypeOK'
         /\ UNCHANGED <<book, allowance, account, reader, painted, tx>>
         /\ UNCHANGED notice \/ notice' = NoNotice
         /\ \/ UNCHANGED task
            \/ /\ task'.step \in {"chain", "connecting"}
               /\ task'.step = "chain" => task'.kind \in ActionKinds
               /\ task'.op \in {"", "more"}
<1> USE DEF ledger, choice, shown, effects, doing, wallet
<1>1. CASE \E kind \in ActionKinds : Begin(kind)
  <2>1. PICK kind \in ActionKinds : Begin(kind)
    BY <1>1
  <2>2. /\ task' \in Tasks /\ task'.step = "chain" /\ task'.kind = kind /\ task'.op = ""
    BY <2>1, ActionBegun
  <2>3. notice' \in Notices /\ notice' = NoNotice
    BY <2>1, Nothings DEF Begin
  <2>4. /\ UNCHANGED <<book, allowance, account, reader, painted, tx>>
        /\ UNCHANGED <<authorised, chain, mail, draw, currentID, selectedID, bound>>
    BY <2>1 DEF Begin
  <2>5. TypeOK'
    BY <2>2, <2>3, <2>4 DEF TypeOK
  <2> QED
    BY <2>2, <2>3, <2>4, <2>5
<1>2. CASE \E id \in Ids : SelectDraw(id)
  BY <1>2, Nothings DEF SelectDraw, TypeOK
<1>3. CASE \E more \in BOOLEAN : Connect(more)
  <2>1. PICK more \in BOOLEAN : Connect(more)
    BY <1>3
  <2>2. /\ task' \in Tasks /\ task'.step = "connecting" /\ task'.kind = "connect"
        /\ task'.op \in {"", "more"}
    BY <2>1, ConnectBegun
  <2> QED
    BY <2>1, <2>2, NamesApart DEF Connect, TypeOK
<1>4. CASE OpenWallet
  <2>1. PICK f \in BOOLEAN : f = FALSE
    OBVIOUS
  <2>2. [type |-> "listed", list |-> authorised, more |-> f] \in Messages
    BY MessageTyped DEF TypeOK
  <2>3. mail' \in {mail, Append(mail, [type |-> "listed", list |-> authorised, more |-> f])}
    BY <1>4, <2>1, Zenon DEF OpenWallet
  <2>4. mail' \in Seq(Messages)
    BY <2>2, <2>3 DEF TypeOK
  <2> QED
    BY <1>4, <2>4 DEF OpenWallet, TypeOK
<1> QED
  BY <1>1, <1>2, <1>3, <1>4 DEF ClickStep

-----------------------------------------------------------------------------
(* The path is kept by every step                                          *)

\* A call by others, or a deadline.
WorldStep ==
  \/ \E op \in OtherCalls, p \in Players, id \in Ids : Elsewhere(op, p, id)
  \/ Deadline

LEMMA WorldGoesForward ==
  ASSUME TypeOK, WorldStep
  PROVE  /\ book' \in Book /\ Grows(book, book')
         /\ UNCHANGED <<wallet, account, selectedID, effects, reader, doing, draw, currentID,
                        painted>>
<1> USE DEF ledger, choice, shown
<1>1. CASE \E op \in OtherCalls, p \in Players, id \in Ids : Elsewhere(op, p, id)
  <2>1. PICK op \in OtherCalls, p \in Players, id \in Ids : Elsewhere(op, p, id)
    BY <1>1
  <2> QED
    BY <2>1, OtherCallMade, WalletAppAssumption DEF Elsewhere, TypeOK
<1>2. CASE Deadline
  BY <1>2, DeadlinePassed DEF Deadline, TypeOK
<1> QED
  BY <1>1, <1>2 DEF WorldStep

\* Next, grouped by who acts.
LEMMA Actors ==
  ASSUME Next
  PROVE  \/ HandleMail \/ (\E a \in Players : PickAccount(a))
         \/ ReadingStep \/ AwaitStep \/ WalletStep \/ ClickStep \/ Include \/ WorldStep
BY DEF Next, ReadingStep, AwaitStep, WalletStep, ClickStep, WorldStep, Ids

\* An account of the open menu: the page works for nobody meanwhile.
LEMMA Picked ==
  ASSUME NEW a \in Players, PickAccount(a)
  PROVE  /\ Selects /\ task = NoTask
         /\ UNCHANGED <<book, allowance, authorised, chain, mail, draw, currentID, selectedID, bound,
                        task, tx>>
<1>1. a \in Accounts /\ SelectAccount(a) /\ task' = NoTask
  BY DEF PickAccount, Accounts
<1> QED
  BY <1>1 DEF PickAccount, Selects, ledger, wallet, effects

\* A selection by a message or from the menu.
SelectionStep == HandleMail \/ \E a \in Players : PickAccount(a)

LEMMA Selected ==
  ASSUME TypeOK, SelectionStep
  PROVE  /\ Selects \/ SelectsNothing
         /\ mail' \in Seq(Messages)
         /\ UNCHANGED <<book, allowance, authorised, chain, draw, currentID, selectedID, bound, tx>>
<1>1. CASE HandleMail
  BY <1>1, MessageHandled DEF HandleMail, ledger, effects
<1>2. CASE \E a \in Players : PickAccount(a)
  BY <1>2, Picked DEF TypeOK
<1> QED
  BY <1>1, <1>2 DEF SelectionStep

LEMMA PathKept == PageInv /\ [Next]_vars => PageInv'
<1> SUFFICES ASSUME PageInv, [Next]_vars PROVE PageInv'
  OBVIOUS
<1>0. TypeOK /\ TaskInv
  BY DEF PageInv
<1>1. CASE SelectionStep
  <2>1. TypeOK'
    BY <1>0, <1>1, Selected, SelectionTyped DEF TypeOK
  <2>2. TaskInv'
    BY <1>0, <1>1, Selected, SelectionKeepsPath
  <2> QED
    BY <2>1, <2>2 DEF PageInv
<1>2. CASE ReadingStep
  BY <1>0, <1>2, ReadingTyped DEF PageInv, TaskInv, SentBySomeone
<1>3. CASE AwaitStep
  BY <1>0, <1>3, AwaitKeepsPath, AwaitTyped DEF PageInv, TypeOK
<1>4. CASE WalletStep
  <2>1. /\ TypeOK' /\ UNCHANGED tx
        /\ UNCHANGED task \/ task' = NoTask \/ (task.step = "connecting" /\ Proceed("granted"))
    BY <1>0, <1>4, WalletTyped
  <2>2. CASE UNCHANGED task
    BY <1>0, <2>1, <2>2 DEF PageInv, TaskInv, SentBySomeone
  <2>3. CASE task' = NoTask
    BY <1>0, <2>1, <2>3, NothingGoesOn DEF PageInv, TaskInv, SentBySomeone, OfConnect
  <2>4. CASE task.step = "connecting" /\ Proceed("granted")
    <3>1. task'.step = "granted" /\ task'.kind = task.kind /\ task'.op = task.op
      BY <1>0, <2>4, Proceeds DEF TaskSteps
    <3> QED
      BY <1>0, <2>1, <3>1 DEF PageInv, TaskInv, SentBySomeone, OfConnect
  <2> QED
    BY <2>1, <2>2, <2>3, <2>4
<1>5. CASE ClickStep
  <2>1. /\ TypeOK' /\ UNCHANGED tx
        /\ \/ UNCHANGED task
           \/ /\ task'.step \in {"chain", "connecting"}
              /\ task'.step = "chain" => task'.kind \in ActionKinds
              /\ task'.op \in {"", "more"}
    BY <1>0, <1>5, ClickTyped
  <2> QED
    BY <1>0, <2>1 DEF PageInv, TaskInv, SentBySomeone, OfConnect
<1>6. CASE Include
  <2>1. /\ book' \in Book /\ tx' \in Txs /\ tx'.fate # "pending"
        /\ tx'.op = tx.op /\ tx'.account = tx.account /\ tx'.id = tx.id
    BY <1>0, <1>6, Included DEF TaskInv
  <2>2. UNCHANGED <<wallet, choice, shown, selectedID, effects, reader, task, notice>>
    BY <1>6 DEF Include
  <2> QED
    BY <1>0, <2>1, <2>2 DEF PageInv, TypeOK, TaskInv, SentBySomeone, wallet, choice, shown, effects
<1>7. CASE WorldStep
  <2>1. /\ book' \in Book
        /\ UNCHANGED <<wallet, account, selectedID, effects, reader, doing, draw, currentID>>
    BY <1>0, <1>7, WorldGoesForward
  <2> QED
    BY <1>0, <2>1 DEF PageInv, TypeOK, TaskInv, SentBySomeone, wallet, effects, doing
<1>8. CASE UNCHANGED vars
  BY <1>0, <1>8 DEF PageInv, TypeOK, TaskInv, SentBySomeone, vars, ledger, wallet, choice, shown,
                    effects, doing
<1> QED
  BY <1>1, <1>2, <1>3, <1>4, <1>5, <1>6, <1>7, <1>8, Actors DEF SelectionStep

LEMMA PathStarts == Init => PageInv
<1> SUFFICES ASSUME Init PROVE PageInv
  OBVIOUS
<1>1. TypeOK
  BY InitTyped
<1>2. task = NoTask /\ tx = NoTx
  BY DEF Init
<1> QED
  BY <1>1, <1>2, NothingGoesOn DEF PageInv, TaskInv, SentBySomeone, OfConnect

LEMMA PathInvariance == Spec => []PageInv
BY PathStarts, PathKept, PTL DEF Spec

-----------------------------------------------------------------------------
(* A success message is true                                               *)

FactInv ==
  /\ Holds(book, notice.kind, notice.account, notice.id)
  /\ tx.fate \in {"mined", "repriced"} => Holds(book, tx.op, tx.account, tx.id)

LEMMA NothingClaimed ==
  ASSUME NEW b
  PROVE  Holds(b, NoNotice.kind, NoNotice.account, NoNotice.id)
<1>1. NoNotice.kind = ""
  BY NothingGoesOn
<1> QED
  BY <1>1 DEF Holds, Calls

\* What an await does to the message and the transaction.
LEMMA AwaitClaims ==
  ASSUME PageInv, AwaitStep
  PROVE  /\ UNCHANGED tx \/ tx'.fate \in {"", "pending"}
         /\ \/ UNCHANGED notice
            \/ /\ tx.fate \in {"mined", "repriced"}
               /\ notice' = [kind |-> tx.op, account |-> tx.account, id |-> tx.id]
<1>0. Fail => tx'.fate = "" /\ UNCHANGED notice
  BY NothingGoesOn DEF Fail
<1>1. CASE Confirm
  <2>1. tx' = NoTx
    BY <1>1 DEF Confirm, Fail
  <2> QED
    BY <1>1, <2>1, Confirmed, NothingGoesOn
<1>2. CASE Sign /\ ~Fail
  <2>1. /\ UNCHANGED notice
        /\ tx' = [op |-> task.op, account |-> task.account, id |-> task.id, fate |-> "pending"]
    BY <1>2 DEF Sign
  <2>2. tx'.fate = "pending"
    BY <2>1
  <2> QED
    BY <2>1, <2>2
<1>3. CASE Fail
  BY <1>0, <1>3
<1>4. CASE AwaitStep /\ ~Confirm /\ ~Sign /\ ~Fail
  <2>1. UNCHANGED <<tx, notice>>
    BY <1>4 DEF AwaitStep, CheckChain, SwitchChain, CheckAccounts, Verify, Recheck, Send, Decline,
                RpcFails, AwaitRefresh, EndAction
  <2> QED
    BY <2>1
<1> QED
  BY <1>1, <1>2, <1>3, <1>4

LEMMA FactsKept == PageInv /\ FactInv /\ [Next]_vars => FactInv'
<1> SUFFICES ASSUME PageInv, FactInv, [Next]_vars PROVE FactInv'
  OBVIOUS
<1>0. /\ TypeOK /\ TaskInv /\ book \in Book
      /\ notice.id \in 0..MaxRounds /\ tx.id \in 0..MaxRounds
  BY DEF PageInv, TypeOK, Notices, Txs, Ids
<1>1. CASE SelectionStep
  <2>1. UNCHANGED <<book, tx>> /\ (UNCHANGED notice \/ notice' = NoNotice)
    BY <1>0, <1>1, Selected DEF Selects, SelectsNothing, SelectAccount
  <2> QED
    BY <2>1, NothingClaimed DEF FactInv
<1>2. CASE ReadingStep
  BY <1>0, <1>2, ReadingTyped DEF FactInv
<1>3. CASE AwaitStep
  <2>1. UNCHANGED book
    BY <1>3, AwaitTyped
  <2>2. /\ UNCHANGED tx \/ tx'.fate \in {"", "pending"}
        /\ \/ UNCHANGED notice
           \/ /\ tx.fate \in {"mined", "repriced"}
              /\ notice' = [kind |-> tx.op, account |-> tx.account, id |-> tx.id]
    BY <1>3, AwaitClaims
  <2>3. Holds(book', notice'.kind, notice'.account, notice'.id)
    <3>1. CASE UNCHANGED notice
      BY <2>1, <3>1 DEF FactInv
    <3>2. CASE /\ tx.fate \in {"mined", "repriced"}
               /\ notice' = [kind |-> tx.op, account |-> tx.account, id |-> tx.id]
      <4>1. notice'.kind = tx.op /\ notice'.account = tx.account /\ notice'.id = tx.id
        BY <3>2
      <4> QED
        BY <2>1, <3>2, <4>1 DEF FactInv
    <3> QED
      BY <2>2, <3>1, <3>2
  <2> QED
    BY <2>1, <2>2, <2>3 DEF FactInv
<1>4. CASE WalletStep
  BY <1>0, <1>4, WalletTyped DEF FactInv
<1>5. CASE ClickStep
  <2>1. UNCHANGED <<book, tx>> /\ (UNCHANGED notice \/ notice' = NoNotice)
    BY <1>0, <1>5, ClickTyped
  <2> QED
    BY <2>1, NothingClaimed DEF FactInv
<1>6. CASE Include
  <2>1. /\ book' \in Book /\ Grows(book, book')
        /\ tx'.op = tx.op /\ tx'.account = tx.account /\ tx'.id = tx.id
        /\ tx'.fate \in {"mined", "repriced"} => Holds(book', tx.op, tx.account, tx.id)
    BY <1>0, <1>6, Included DEF TaskInv
  <2>2. UNCHANGED notice
    BY <1>6 DEF Include
  <2>3. Holds(book', notice.kind, notice.account, notice.id)
    BY <1>0, <2>1, HoldsOn DEF FactInv
  <2> QED
    BY <2>1, <2>2, <2>3 DEF FactInv
<1>7. CASE WorldStep
  <2>1. book' \in Book /\ Grows(book, book') /\ UNCHANGED <<tx, notice>>
    BY <1>0, <1>7, WorldGoesForward DEF doing
  <2>2. Holds(book', notice.kind, notice.account, notice.id)
    BY <1>0, <2>1, HoldsOn DEF FactInv
  <2>3. tx.fate \in {"mined", "repriced"} => Holds(book', tx.op, tx.account, tx.id)
    BY <1>0, <2>1, HoldsOn DEF FactInv
  <2> QED
    BY <2>1, <2>2, <2>3 DEF FactInv
<1>8. CASE UNCHANGED vars
  BY <1>8 DEF FactInv, vars, ledger, doing
<1> QED
  BY <1>1, <1>2, <1>3, <1>4, <1>5, <1>6, <1>7, <1>8, Actors DEF SelectionStep

LEMMA FactsSay ==
  ASSUME FactInv
  PROVE  NoticeIsTrue
<1>1. Holds(book, notice.kind, notice.account, notice.id)
  BY DEF FactInv
<1> QED
  BY <1>1 DEF Holds, NoticeIsTrue

\* A success message is about something that is true on the chain, for the
\* account and the round of the click: whatever became of the transaction that
\* was sent (main.tsx action, chain.ts confirmed), whoever else called the
\* contract meanwhile, and however often the user changed account, network or
\* round before it was mined.
THEOREM SuccessIsTrue == Spec => []NoticeIsTrue
<1>1. Init => FactInv
  <2> SUFFICES ASSUME Init PROVE FactInv
    OBVIOUS
  <2>1. notice = NoNotice /\ tx = NoTx
    BY DEF Init
  <2> QED
    BY <2>1, NothingClaimed, NothingGoesOn DEF FactInv
<1>2. PageInv /\ FactInv /\ [Next]_vars => FactInv'
  BY FactsKept
<1>3. FactInv => NoticeIsTrue
  BY FactsSay
<1> QED
  BY <1>1, <1>2, <1>3, PathInvariance, PTL DEF Spec

-----------------------------------------------------------------------------
(* The balance on display is the selected account's                        *)

\* A refresh that the page started and that is not stale reads for the
\* account that is selected.
ShownInv ==
  /\ reader.step \in {"draw", "paint"} /\ ~reader.stale /\ reader.by # "task" =>
       reader.account = account
  /\ BalanceOfSelected

LEMMA SelectionShown ==
  ASSUME TypeOK, ShownInv, Selects \/ SelectsNothing
  PROVE  ShownInv'
<1>1. reader \in Readers
  BY DEF TypeOK
<1>2. Invalidated(reader).stale \/ Invalidated(reader).step = ""
  BY <1>1, Marked, NothingGoesOn
<1>3. CASE Selects
  <2>1. PICK a \in Accounts : SelectAccount(a)
    BY <1>3 DEF Selects
  <2>2. account' = a /\ painted'.account = a /\ reader' = Invalidated(reader)
    BY <2>1 DEF SelectAccount
  <2> QED
    BY <1>2, <2>2 DEF ShownInv, BalanceOfSelected
<1>4. CASE SelectsNothing
  BY <1>2, <1>4 DEF SelectsNothing, ShownInv, BalanceOfSelected
<1> QED
  BY <1>3, <1>4

LEMMA ReadingShown ==
  ASSUME TypeOK, ShownInv, ReadingStep
  PROVE  ShownInv'
<1>0. /\ reader \in Readers /\ book \in Book /\ account \in Accounts /\ selectedID \in Ids
      /\ bound \in [account : Accounts, selected : Ids] /\ UNCHANGED account
  BY ReadingTyped DEF TypeOK
<1>1. CASE LoadConfig
  BY <1>0, <1>1 DEF LoadConfig, shown, ShownInv, BalanceOfSelected
<1>2. CASE Effect
  <2>1. UNCHANGED painted
    BY <1>2 DEF Effect, shown
  <2>2. reader' \in {NewReader("page", account, selectedID), Invalidated(reader)}
    BY <1>2 DEF Effect
  <2>3. NewReader("page", account, selectedID).account = account
    BY <1>0, ReaderTyped DEF Askers
  <2>4. Invalidated(reader).stale \/ Invalidated(reader).step = ""
    BY <1>0, Marked, NothingGoesOn
  <2> QED
    BY <1>0, <2>1, <2>2, <2>3, <2>4 DEF ShownInv, BalanceOfSelected
<1>3. CASE Tick
  <2>1. UNCHANGED painted /\ bound = [account |-> account, selected |-> selectedID]
    BY <1>3 DEF Tick, shown, EffectDue
  <2>2. bound.account = account
    BY <2>1
  <2>3. reader' = NewReader("page", account, bound.selected)
    BY <1>3, <2>2 DEF Tick
  <2>4. reader'.account = account
    BY <1>0, <2>3, ReaderTyped DEF Askers
  <2> QED
    BY <1>0, <2>1, <2>4 DEF ShownInv, BalanceOfSelected
<1>4. CASE ReadDraw
  <2>1. /\ reader'.by = reader.by /\ reader'.account = reader.account
        /\ reader'.stale = reader.stale /\ reader.step = "draw" /\ UNCHANGED painted
    BY <1>4, ShotTaken DEF ReadDraw, shown
  <2> QED
    BY <1>0, <2>1 DEF ShownInv, BalanceOfSelected
<1>5. CASE Paint
  <2>1. CASE Fresh(reader)
    <3>1. /\ reader.step = "paint" /\ ~reader.stale
          /\ painted' = [account |-> reader.account, by |-> reader.by]
          /\ reader' = [NoReader EXCEPT !.step = "sync", !.by = reader.by]
      BY <1>5, <2>1 DEF Paint, Fresh
    <3>2. reader'.step = "sync"
      BY <3>1, Nothings DEF Readers
    <3> QED
      BY <1>0, <3>1, <3>2 DEF ShownInv, BalanceOfSelected
  <2>2. CASE ~Fresh(reader)
    <3>1. reader' = NoReader /\ UNCHANGED painted
      BY <1>5, <2>2 DEF Paint, shown
    <3> QED
      BY <1>0, <3>1, NothingGoesOn DEF ShownInv, BalanceOfSelected
  <2> QED
    BY <2>1, <2>2
<1>6. CASE EndRefresh \/ RefreshFails
  <2>1. reader' = NoReader /\ UNCHANGED painted
    BY <1>6 DEF EndRefresh, RefreshFails, Released, shown
  <2> QED
    BY <1>0, <2>1, NothingGoesOn DEF ShownInv, BalanceOfSelected
<1> QED
  BY <1>1, <1>2, <1>3, <1>4, <1>5, <1>6 DEF ReadingStep

\* An await touches what is shown only by the refresh it starts for the task.
LEMMA AwaitShown ==
  ASSUME PageInv, ShownInv, AwaitStep
  PROVE  ShownInv'
<1>0. UNCHANGED account /\ TypeOK
  BY AwaitTyped DEF PageInv
<1>1. CASE AwaitRefresh
  <2>1. /\ UNCHANGED painted
        /\ reader' \in {reader, NewReader("task", task.account, task.selected)}
    BY <1>1 DEF AwaitRefresh, shown
  <2>2. /\ book \in Book /\ "task" \in Askers
        /\ task.account \in Accounts /\ task.selected \in Ids
    BY <1>0 DEF TypeOK, Tasks, Askers
  <2>3. NewReader("task", task.account, task.selected).by = "task"
    BY <2>2, ReaderTyped
  <2> QED
    BY <1>0, <2>1, <2>3 DEF ShownInv, BalanceOfSelected
<1>2. CASE AwaitStep /\ ~AwaitRefresh
  <2>1. UNCHANGED <<painted, reader>>
    BY <1>2 DEF AwaitStep, CheckChain, SwitchChain, CheckAccounts, Verify, Recheck, Send, Sign,
                Decline, RpcFails, Confirm, EndAction, Stay, shown
  <2> QED
    BY <1>0, <2>1 DEF ShownInv, BalanceOfSelected
<1> QED
  BY <1>1, <1>2

\* The balance on display was read for the account on display (main.tsx
\* refresh, generation), except the one that the refresh an action awaits has
\* read for the account of the click: no refresh that an account change, a
\* network change or a new render overtook is ever shown.
THEOREM BalanceIsOfSelected == Spec => []BalanceOfSelected
<1>1. Init => ShownInv
  <2> SUFFICES ASSUME Init PROVE ShownInv
    OBVIOUS
  <2>1. reader = NoReader /\ account = NoAccount /\ painted.account = NoAccount
    BY DEF Init
  <2> QED
    BY <2>1, NothingGoesOn DEF ShownInv, BalanceOfSelected
<1>2. PageInv /\ ShownInv /\ [Next]_vars => ShownInv'
  <2> SUFFICES ASSUME PageInv, ShownInv, [Next]_vars PROVE ShownInv'
    OBVIOUS
  <2>0. TypeOK /\ TaskInv
    BY DEF PageInv
  <2>1. CASE SelectionStep
    BY <2>0, <2>1, Selected, SelectionShown
  <2>2. CASE ReadingStep
    BY <2>0, <2>2, ReadingShown
  <2>3. CASE AwaitStep
    BY <2>3, AwaitShown
  <2>4. CASE WalletStep
    BY <2>0, <2>4, WalletTyped DEF ShownInv, BalanceOfSelected
  <2>5. CASE ClickStep
    BY <2>0, <2>5, ClickTyped DEF ShownInv, BalanceOfSelected
  <2>6. CASE Include
    BY <2>6 DEF Include, choice, shown, ShownInv, BalanceOfSelected
  <2>7. CASE WorldStep
    BY <2>0, <2>7, WorldGoesForward DEF ShownInv, BalanceOfSelected
  <2>8. CASE UNCHANGED vars
    BY <2>8 DEF vars, choice, shown, ShownInv, BalanceOfSelected
  <2> QED
    BY <2>1, <2>2, <2>3, <2>4, <2>5, <2>6, <2>7, <2>8, Actors DEF SelectionStep
<1>3. ShownInv => BalanceOfSelected
  BY DEF ShownInv
<1> QED
  BY <1>1, <1>2, <1>3, PathInvariance, PTL DEF Spec

-----------------------------------------------------------------------------
(* No purchase without its approval                                        *)

\* A purchase for a in round id, which has been started.
Known(b, a, id) == a \in Players /\ id \in RoundIds /\ id <= b.current

\* Its approval was used for nothing else: it is there, or the player has the
\* ticket, or the round is over.
Covered(b, approvals, a, id) ==
  Known(b, a, id) /\ (approvals[a] > 0 \/ a \in b.holders[id] \/ id < b.current)

\* From the look at the round on, the purchase is one in the current round of
\* that moment; from the look at the approval, or the block that approves, it is
\* covered.
ApprovalInv ==
  /\ allowance \in [Players -> Nat]
  /\ task.step = "verify" => task.account \in Players
  /\ task.op = "approve" => Known(book, task.account, task.id)
  /\ task.step = "recheck" \/ task.op = "buy" =>
       Covered(book, allowance, task.account, task.id)
  /\ tx.op = "approve" =>
       /\ Known(book, tx.account, tx.id)
       /\ tx.fate \in {"mined", "repriced"} => Covered(book, allowance, tx.account, tx.id)

\* What the world does with approvals: one is gone only with a purchase in the
\* current round.
SpentOnTickets ==
  \A a \in Players :
    allowance[a] > 0 =>
      \/ allowance'[a] > 0
      \/ book.current \in RoundIds /\ a \in book'.holders[book.current]

LEMMA StaysKnown ==
  ASSUME book \in Book, book' \in Book, Grows(book, book'), NEW a, NEW id, Known(book, a, id)
  PROVE  Known(book', a, id)
<1>1. book.current \in Int /\ book'.current \in Int /\ MaxRounds \in Nat
  BY WalletAppAssumption DEF Book
<1> QED
  BY <1>1 DEF Known, Grows, RoundIds

LEMMA StaysCovered ==
  ASSUME book \in Book, book' \in Book, Grows(book, book'), SpentOnTickets,
         NEW a, NEW id, Covered(book, allowance, a, id)
  PROVE  Covered(book', allowance', a, id)
<1>1. /\ book.current \in Int /\ book'.current \in Int /\ MaxRounds \in Nat
      /\ book'.current >= book.current
  BY WalletAppAssumption DEF Book, Grows
<1>2. Known(book, a, id) /\ Known(book', a, id)
  BY StaysKnown DEF Covered
<1>3. a \in Players /\ id \in RoundIds /\ id <= book.current /\ id \in Int
  BY <1>1, <1>2 DEF Known, RoundIds
<1>4. CASE id < book.current
  <2>1. id < book'.current
    BY <1>1, <1>3, <1>4
  <2> QED
    BY <1>2, <2>1 DEF Covered
<1>5. CASE a \in book.holders[id]
  <2>1. a \in book'.holders[id]
    BY <1>3, <1>5 DEF Grows
  <2> QED
    BY <1>2, <2>1 DEF Covered
<1>6. CASE allowance[a] > 0 /\ id = book.current
  <2>1. allowance'[a] > 0 \/ a \in book'.holders[id]
    BY <1>3, <1>6 DEF SpentOnTickets
  <2> QED
    BY <1>2, <2>1 DEF Covered
<1> QED
  BY <1>1, <1>3, <1>4, <1>5, <1>6 DEF Covered

LEMMA CallSpends ==
  ASSUME book \in Book, allowance \in [Players -> Nat],
         NEW op \in Calls \union {"mint", "approve"}, NEW p \in Players, NEW id \in Ids,
         Call(op, p, id)
  PROVE  /\ allowance' \in [Players -> Nat] /\ SpentOnTickets
         /\ op = "approve" => allowance'[p] > 0
<1>1. CASE op = "buy"
  <2>1. /\ allowance[p] > 0 /\ book' \in After(book, "buy", p, id)
        /\ allowance' = [allowance EXCEPT ![p] = @ - 1]
    BY <1>1 DEF Call
  <2>2. MayBuy(book, p, id) /\ book' = Bought(book, p, id)
    BY <2>1 DEF After
  <2>3. id = book.current /\ id \in RoundIds
    BY <2>2, WalletAppAssumption DEF MayBuy, Open, Ids, RoundIds
  <2>4. p \in book'.holders[book.current]
    <3>1. book.holders \in [RoundIds -> SUBSET Players]
      BY DEF Book
    <3>2. book'.holders = [book.holders EXCEPT ![id] = @ \union {p}]
      BY <2>2, <2>3, HolderAdded
    <3> QED
      BY <2>3, <3>1, <3>2
  <2> QED
    BY <1>1, <2>1, <2>3, <2>4 DEF SpentOnTickets
<1>2. CASE op = "approve"
  <2>1. allowance' = [allowance EXCEPT ![p] = 1]
    BY <1>2 DEF Call
  <2> QED
    BY <2>1 DEF SpentOnTickets
<1>3. CASE op \notin {"buy", "approve"}
  <2>1. UNCHANGED allowance
    BY <1>3 DEF Call, Calls
  <2> QED
    BY <1>3, <2>1 DEF SpentOnTickets
<1> QED
  BY <1>1, <1>2, <1>3

\* A step of the world that leaves the task and the transaction's data alone.
LEMMA WorldApproves ==
  ASSUME PageInv, ApprovalInv, book' \in Book, Grows(book, book'),
         allowance' \in [Players -> Nat], SpentOnTickets, UNCHANGED <<task, tx>>
  PROVE  ApprovalInv'
BY StaysKnown, StaysCovered DEF PageInv, TypeOK, ApprovalInv

LEMMA IncludeApproves ==
  ASSUME PageInv, ApprovalInv, Include
  PROVE  ApprovalInv'
<1>0. /\ TypeOK /\ TaskInv /\ book \in Book /\ allowance \in [Players -> Nat]
      /\ UNCHANGED task /\ tx.id \in Ids
  BY DEF PageInv, TypeOK, ApprovalInv, Include, Txs
<1>1. /\ tx.op \in Calls \union {"mint", "approve"} /\ tx.account \in Players
      /\ tx.fate = "pending"
  BY <1>0 DEF TaskInv, SentBySomeone, Include
<1>2. /\ book' \in Book /\ Grows(book, book')
      /\ tx'.op = tx.op /\ tx'.account = tx.account /\ tx'.id = tx.id
  BY <1>0, Included DEF TaskInv
<1>3. /\ allowance' \in [Players -> Nat] /\ SpentOnTickets
      /\ tx'.fate \in {"mined", "repriced"} /\ tx.op = "approve" => allowance'[tx.account] > 0
  <2>1. CASE Call(tx.op, tx.account, tx.id)
    BY <1>0, <1>1, <2>1, CallSpends
  <2>2. CASE /\ tx' = [tx EXCEPT !.fate = IF Works(tx.op, tx.account, tx.id) THEN "cancelled"
                                         ELSE "reverted"]
             /\ UNCHANGED ledger
    <3>1. PICK fate \in {"cancelled", "reverted"} : tx' = [tx EXCEPT !.fate = fate]
      BY <2>2
    <3>2. tx'.fate \notin {"mined", "repriced"}
      BY <1>0, <3>1 DEF TypeOK, Txs
    <3>3. UNCHANGED allowance
      BY <2>2 DEF ledger
    <3> QED
      BY <1>0, <3>2, <3>3 DEF SpentOnTickets
  <2> QED
    BY <2>1, <2>2 DEF Include
<1>4. tx.op = "approve" => Known(book', tx.account, tx.id)
  BY <1>0, <1>2, StaysKnown DEF ApprovalInv
<1>5. tx.op = "approve" /\ tx'.fate \in {"mined", "repriced"} =>
        Covered(book', allowance', tx.account, tx.id)
  BY <1>3, <1>4 DEF Covered
<1>6. /\ task.op = "approve" => Known(book', task.account, task.id)
      /\ task.step = "recheck" \/ task.op = "buy" =>
           Covered(book', allowance', task.account, task.id)
  BY <1>0, <1>2, <1>3, StaysKnown, StaysCovered DEF ApprovalInv
<1> QED
  BY <1>0, <1>2, <1>3, <1>4, <1>5, <1>6 DEF ApprovalInv

\* No task, and the same transaction or none.
LEMMA NothingApproved ==
  ASSUME ApprovalInv, task' = NoTask, tx' \in {tx, NoTx}, UNCHANGED <<book, allowance>>
  PROVE  ApprovalInv'
<1>1. NoTx.op # "approve"
  <2>1. PICK e : e = ""
    OBVIOUS
  <2>2. NoTx = [op |-> e, account |-> NoAccount, id |-> 0, fate |-> e]
    BY <2>1, Zenon DEF NoTx
  <2> QED
    BY <2>1, <2>2
<1> QED
  BY <1>1, NothingGoesOn DEF ApprovalInv

LEMMA LookApproves ==
  ASSUME PageInv, ApprovalInv, Verify \/ Recheck \/ Send, ~Fail
  PROVE  ApprovalInv'
<1>0. /\ TypeOK /\ TaskInv /\ task \in Tasks /\ book \in Book /\ allowance \in [Players -> Nat]
      /\ UNCHANGED <<tx, book, allowance>>
  BY AwaitTyped DEF AwaitStep, PageInv, TypeOK, ApprovalInv, Verify, Recheck, Send
<1>1. CASE Verify /\ task.kind # "buy"
  <2>1. task.kind \in ActionKinds /\ task' = [task EXCEPT !.step = "send", !.op = task.kind]
    BY <1>0, <1>1 DEF Verify, TaskInv, OfConnect
  <2>2. task'.op = task.kind /\ task'.step = "send" /\ task.kind # "approve"
    BY <1>0, <2>1, GoesOn, NamesApart
  <2> QED
    BY <1>0, <1>1, <2>2 DEF ApprovalInv
<1>2. CASE Verify /\ task.kind = "buy"
  <2>1. /\ task.account \in Players /\ task.id # 0 /\ MayBuy(book, task.account, task.id)
    BY <1>0, <1>2 DEF Verify, Verified, ApprovalInv
  <2>2. Known(book, task.account, task.id)
    <3>1. task.id = book.current /\ task.id \in Ids /\ MaxRounds \in Nat
      BY <1>0, <2>1, WalletAppAssumption DEF MayBuy, Open, Tasks
    <3> QED
      BY <2>1, <3>1 DEF Known, Ids, RoundIds
  <2>3. CASE allowance[task.account] = 0
    <3>1. task' = [task EXCEPT !.step = "send", !.op = "approve"]
      BY <1>2, <2>3 DEF Verify
    <3>2. /\ task'.step = "send" /\ task'.op = "approve"
          /\ task'.account = task.account /\ task'.id = task.id
      BY <1>0, <3>1, GoesOn DEF Ops
    <3> QED
      BY <1>0, <2>2, <3>2 DEF ApprovalInv
  <2>4. CASE allowance[task.account] # 0
    <3>1. allowance[task.account] > 0
      BY <1>0, <2>1, <2>4
    <3>2. Proceed("recheck")
      BY <1>2, <2>4 DEF Verify, Proceed
    <3>3. /\ task'.step = "recheck" /\ task'.op = task.op
          /\ task'.account = task.account /\ task'.id = task.id
      BY <1>0, <3>2, Proceeds DEF TaskSteps
    <3>4. Covered(book, allowance, task.account, task.id)
      BY <2>2, <3>1 DEF Covered
    <3> QED
      BY <1>0, <2>2, <3>3, <3>4 DEF ApprovalInv
  <2> QED
    BY <2>3, <2>4
<1>3. CASE Recheck
  <2>1. task.step = "recheck" /\ task' = [task EXCEPT !.step = "send", !.op = "buy"]
    BY <1>3 DEF Recheck
  <2>2. /\ task'.step = "send" /\ task'.op = "buy"
        /\ task'.account = task.account /\ task'.id = task.id
    BY <1>0, <2>1, GoesOn, NamesApart
  <2> QED
    BY <1>0, <2>1, <2>2 DEF ApprovalInv
<1>4. CASE Send
  <2>1. PICK o \in {"", "before"} : o = ScanFrom
    BY DEF ScanFrom
  <2>2. task' = [task EXCEPT !.step = "sign", !.from = o]
    BY <1>4, <2>1 DEF Send
  <2>3. /\ task'.step = "sign" /\ task'.op = task.op
        /\ task'.account = task.account /\ task'.id = task.id
    BY <1>0, <2>2 DEF Tasks
  <2> QED
    BY <1>0, <2>3 DEF ApprovalInv
<1> QED
  BY <1>1, <1>2, <1>3, <1>4

LEMMA AwaitApproves ==
  ASSUME PageInv, ApprovalInv, AwaitStep
  PROVE  ApprovalInv'
<1>0. /\ TypeOK /\ TaskInv /\ task \in Tasks
      /\ UNCHANGED <<book, allowance>>
  BY AwaitTyped DEF PageInv, TypeOK
<1>1. CASE Fail
  BY <1>0, <1>1, NothingApproved DEF Fail
<1>2. CASE Verify \/ Recheck \/ Send
  BY <1>1, <1>2, LookApproves
<1>3. CASE EndAction
  BY <1>0, <1>3, NothingApproved DEF EndAction
<1>4. CASE (CheckChain \/ SwitchChain \/ AwaitRefresh) /\ ~Fail
  <2>1. UNCHANGED tx /\ \E s \in {"switch", "accounts", "refreshing"} : Proceed(s)
    BY <1>4 DEF CheckChain, SwitchChain, AwaitRefresh
  <2>2. PICK s \in {"switch", "accounts", "refreshing"} : Proceed(s)
    BY <2>1
  <2>3. /\ task'.step = s /\ task'.op = task.op
        /\ task'.account = task.account /\ task'.id = task.id
    BY <1>0, <2>2, Proceeds DEF TaskSteps
  <2> QED
    BY <1>0, <2>1, <2>3 DEF ApprovalInv
<1>5. CASE CheckAccounts /\ ~Fail
  <2>1. Has(authorised, task.account) /\ Proceed("verify") /\ UNCHANGED tx
    BY <1>5 DEF CheckAccounts
  <2>2. task.account \in Players
    BY <1>0, <2>1, ExposedArePlayers DEF TypeOK
  <2>3. /\ task'.step = "verify" /\ task'.op = task.op
        /\ task'.account = task.account /\ task'.id = task.id
    BY <1>0, <2>1, Proceeds DEF TaskSteps
  <2> QED
    BY <1>0, <2>1, <2>2, <2>3 DEF ApprovalInv
<1>6. CASE Sign /\ ~Fail
  <2>1. /\ Proceed("wait")
        /\ tx' = [op |-> task.op, account |-> task.account, id |-> task.id, fate |-> "pending"]
    BY <1>6 DEF Sign
  <2>2. /\ task'.step = "wait" /\ task'.op = task.op
        /\ task'.account = task.account /\ task'.id = task.id
    BY <1>0, <2>1, Proceeds DEF TaskSteps
  <2>3. /\ tx'.op = task.op /\ tx'.account = task.account /\ tx'.id = task.id
        /\ tx'.fate \notin {"mined", "repriced"}
    BY <2>1
  <2> QED
    BY <1>0, <2>2, <2>3 DEF ApprovalInv
<1>7. CASE Confirm /\ ~Fail
  <2>1. /\ task.step = "wait" /\ tx.fate \in {"mined", "repriced"} /\ tx' = NoTx
        /\ Proceed(IF task.op = "approve" THEN "recheck" ELSE "refresh")
    BY <1>7 DEF Confirm, Done
  <2>2. tx.op = task.op /\ tx.account = task.account /\ tx.id = task.id
    BY <1>0, <2>1 DEF TaskInv
  <2>3. PICK s \in {"recheck", "refresh"} :
             Proceed(s) /\ (s = "recheck" => task.op = "approve")
    BY <2>1
  <2>4. /\ task'.step = s /\ task'.op = task.op
        /\ task'.account = task.account /\ task'.id = task.id
    BY <1>0, <2>3, Proceeds DEF TaskSteps
  <2>5. s = "recheck" => Covered(book, allowance, task.account, task.id)
    BY <2>1, <2>2, <2>3 DEF ApprovalInv
  <2>6. tx'.op # "approve"
    <3>1. PICK e : e = ""
      OBVIOUS
    <3>2. NoTx = [op |-> e, account |-> NoAccount, id |-> 0, fate |-> e]
      BY <3>1, Zenon DEF NoTx
    <3> QED
      BY <2>1, <3>1, <3>2
  <2> QED
    BY <1>0, <2>4, <2>5, <2>6 DEF ApprovalInv
<1> QED
  BY <1>1, <1>2, <1>3, <1>4, <1>5, <1>6, <1>7 DEF AwaitStep, Decline, RpcFails

LEMMA WorldSpends ==
  ASSUME PageInv, ApprovalInv, WorldStep
  PROVE  allowance' \in [Players -> Nat] /\ SpentOnTickets
<1>0. book \in Book /\ allowance \in [Players -> Nat]
  BY DEF PageInv, TypeOK, ApprovalInv
<1>1. UNCHANGED allowance => allowance' \in [Players -> Nat] /\ SpentOnTickets
  BY <1>0 DEF SpentOnTickets
<1>2. CASE \E op \in OtherCalls, p \in Players, id \in Ids : Elsewhere(op, p, id)
  <2>1. PICK op \in OtherCalls, p \in Players, id \in Ids : Elsewhere(op, p, id)
    BY <1>2
  <2>2. op \in Calls \union {"mint", "approve"}
    BY WalletAppAssumption
  <2> QED
    BY <1>0, <1>1, <2>1, <2>2, CallSpends DEF Elsewhere
<1>3. CASE Deadline
  BY <1>1, <1>3 DEF Deadline
<1> QED
  BY <1>2, <1>3 DEF WorldStep

\* A purchase goes to the wallet only with its approval in force (main.tsx
\* action, the allowance and the wait for approve; chain.ts confirmed), unless
\* the player has the ticket by then or the round is over: although the approval
\* may be replaced, cancelled or refused by the contract, an earlier one may be
\* left behind by a click that gave up, and other programs of the same account
\* buy with it.
THEOREM PurchasesAreApproved == Spec => []PurchaseIsApproved
<1>1. Init => ApprovalInv
  <2> SUFFICES ASSUME Init PROVE ApprovalInv
    OBVIOUS
  <2>1. /\ task = NoTask /\ tx = NoTx /\ allowance = [p \in Players |-> 0]
    BY DEF Init
  <2>2. PICK e : e = ""
    OBVIOUS
  <2>3. tx = [op |-> e, account |-> NoAccount, id |-> 0, fate |-> e]
    BY <2>1, <2>2, Zenon DEF NoTx
  <2>4. tx.op # "approve"
    BY <2>2, <2>3
  <2> QED
    BY <2>1, <2>4, NothingGoesOn DEF ApprovalInv
<1>2. PageInv /\ ApprovalInv /\ [Next]_vars => ApprovalInv'
  <2> SUFFICES ASSUME PageInv, ApprovalInv, [Next]_vars PROVE ApprovalInv'
    OBVIOUS
  <2>0. TypeOK /\ TaskInv
    BY DEF PageInv
  <2>1. CASE SelectionStep
    <3>1. UNCHANGED <<book, allowance, tx>> /\ (task' = task \/ task' = NoTask)
      BY <2>0, <2>1, Selected DEF Selects, SelectsNothing
    <3> QED
      BY <3>1, NothingApproved DEF ApprovalInv
  <2>2. CASE ReadingStep
    BY <2>0, <2>2, ReadingTyped DEF ApprovalInv
  <2>3. CASE AwaitStep
    BY <2>3, AwaitApproves
  <2>4. CASE WalletStep
    <3>1. UNCHANGED <<book, allowance, tx>>
      BY <2>0, <2>4, WalletTyped
    <3>2. CASE task' = NoTask
      BY <3>1, <3>2, NothingApproved
    <3>3. CASE UNCHANGED task
      BY <3>1, <3>3 DEF ApprovalInv
    <3>4. CASE task.step = "connecting" /\ Proceed("granted")
      <4>1. /\ task'.step = "granted" /\ task'.op = task.op
            /\ task'.account = task.account /\ task'.id = task.id
        BY <2>0, <3>4, Proceeds DEF TaskSteps
      <4> QED
        BY <3>1, <4>1 DEF ApprovalInv
    <3> QED
      BY <2>0, <2>4, <3>2, <3>3, <3>4, WalletTyped
  <2>5. CASE ClickStep
    <3>1. /\ UNCHANGED <<book, allowance, tx>>
          /\ UNCHANGED task \/ (task'.step \in {"chain", "connecting"} /\ task'.op \in {"", "more"})
      BY <2>0, <2>5, ClickTyped
    <3> QED
      BY <3>1 DEF ApprovalInv
  <2>6. CASE Include
    BY <2>6, IncludeApproves
  <2>7. CASE WorldStep
    BY <2>0, <2>7, WorldGoesForward, WorldSpends, WorldApproves DEF doing
  <2>8. CASE UNCHANGED vars
    BY <2>8 DEF ApprovalInv, vars, ledger, doing
  <2> QED
    BY <2>1, <2>2, <2>3, <2>4, <2>5, <2>6, <2>7, <2>8, Actors DEF SelectionStep
<1>3. PageInv /\ ApprovalInv => PurchaseIsApproved
  <2> SUFFICES ASSUME PageInv, ApprovalInv, task.op = "buy"
               PROVE  \/ allowance[task.account] > 0
                      \/ task.account \in book.holders[task.id]
                      \/ task.id # book.current
    BY DEF PurchaseIsApproved
  <2>1. Covered(book, allowance, task.account, task.id)
    BY DEF ApprovalInv
  <2>2. book \in Book /\ task.id \in Ids /\ MaxRounds \in Nat
    BY WalletAppAssumption DEF PageInv, TypeOK, Tasks
  <2>3. book.current \in Int /\ task.id \in Int
    BY <2>2 DEF Book, Ids
  <2> QED
    BY <2>1, <2>3 DEF Covered
<1> QED
  BY <1>1, <1>2, <1>3, PathInvariance, PTL DEF Spec


-----------------------------------------------------------------------------
(* Past draws: what one answer brings                                      *)

\* A minimal element of a set of numbers.
LEMMA Least ==
  ASSUME NEW S \in SUBSET Nat, S # {}
  PROVE  \E n \in S : \A m \in S : n <= m
<1>1. PICK n \in S : \A m \in S : ~(<<m, n>> \in OpToRel(<, Nat))
  BY NatLessThanWellFounded, WFMin
<1>2. \A m \in S : ~(m < n)
  BY <1>1 DEF OpToRel
<1> QED BY <1>2

\* One step of the loop that adds the rows of a page to the list.
AddsRow(f, old, new, k) ==
  IF k = 0 THEN old
  ELSE IF Contains(old, new[k]) THEN f[k - 1]
  ELSE Append(f[k - 1], new[k])

\* The loop can be unrolled.
LEMMA LoopEnds ==
  ASSUME NEW old, NEW new, Len(new) \in Nat
  PROVE  \E f : f = [k \in 0..Len(new) |-> AddsRow(f, old, new, k)]
<1> DEFINE unrolled(n) == \E f : f = [k \in 0..n |-> AddsRow(f, old, new, k)]
           bad == {n \in Nat : ~unrolled(n)}
<1>1. bad = {}
  <2> SUFFICES ASSUME bad # {} PROVE FALSE
    OBVIOUS
  <2>1. PICK n \in bad : \A m \in bad : n <= m
    <3>1. bad \in SUBSET Nat
      OBVIOUS
    <3> QED BY <3>1, Least
  <2>2. CASE n = 0
    <3> DEFINE f == [k \in 0..0 |-> old]
    <3>1. \A k \in 0..0 : f[k] = AddsRow(f, old, new, k)
      BY DEF AddsRow
    <3>2. f = [k \in 0..0 |-> f[k]]
      OBVIOUS
    <3> HIDE DEF f
    <3>3. f = [k \in 0..0 |-> AddsRow(f, old, new, k)]
      BY <3>1, <3>2
    <3> QED BY <2>1, <2>2, <3>3
  <2>3. CASE n # 0
    <3>1. n - 1 \in Nat /\ n - 1 \notin bad
      BY <2>1, <2>3
    <3>2. PICK f : f = [k \in 0..(n - 1) |-> AddsRow(f, old, new, k)]
      BY <3>1
    <3> DEFINE g == [k \in 0..n |-> IF k = n THEN AddsRow(f, old, new, n) ELSE f[k]]
    <3>3. ASSUME NEW k \in 0..n PROVE g[k] = AddsRow(g, old, new, k)
      <4>1. k # 0 => k - 1 \in 0..n /\ k - 1 # n /\ g[k - 1] = f[k - 1]
        BY <2>1
      <4>2. k # n => g[k] = f[k] /\ f[k] = AddsRow(f, old, new, k)
        <5> SUFFICES ASSUME k # n PROVE g[k] = f[k] /\ f[k] = AddsRow(f, old, new, k)
          OBVIOUS
        <5>1. k \in 0..(n - 1)
          BY <2>1
        <5>2. \A i \in 0..(n - 1) : f[i] = AddsRow(f, old, new, i)
          <6> HIDE DEF bad, unrolled
          <6> QED BY <3>2, Zenon
        <5>3. f[k] = AddsRow(f, old, new, k)
          BY <5>1, <5>2, Zenon
        <5> QED BY <5>3
      <4>3. k = n => g[k] = AddsRow(f, old, new, k)
        OBVIOUS
      <4> HIDE DEF g
      <4>4. AddsRow(g, old, new, k) = AddsRow(f, old, new, k)
        BY <4>1 DEF AddsRow
      <4> QED BY <4>2, <4>3, <4>4
    <3>4. g = [k \in 0..n |-> g[k]]
      OBVIOUS
    <3> HIDE DEF g
    <3>5. g = [k \in 0..n |-> AddsRow(g, old, new, k)]
      BY <3>3, <3>4
    <3> QED BY <2>1, <3>5
  <2> QED BY <2>2, <2>3
<1>2. Len(new) \notin bad
  BY <1>1
<1> QED BY <1>2

LEMMA AppendedIs ==
  ASSUME NEW old, NEW new, Len(new) \in Nat
  PROVE  \E f : /\ f = [k \in 0..Len(new) |-> AddsRow(f, old, new, k)]
                /\ Appended(old, new) = f[Len(new)]
<1> DEFINE added == CHOOSE f : f = [k \in 0..Len(new) |->
                      IF k = 0 THEN old
                      ELSE IF Contains(old, new[k]) THEN f[k - 1]
                      ELSE Append(f[k - 1], new[k])]
<1>1. Appended(old, new) = added[Len(new)]
  BY DEF Appended
<1>2. \E f : f = [k \in 0..Len(new) |->
               IF k = 0 THEN old
               ELSE IF Contains(old, new[k]) THEN f[k - 1]
               ELSE Append(f[k - 1], new[k])]
  <2>1. PICK f : f = [k \in 0..Len(new) |-> AddsRow(f, old, new, k)]
    BY LoopEnds
  <2>2. f = [k \in 0..Len(new) |->
               IF k = 0 THEN old
               ELSE IF Contains(old, new[k]) THEN f[k - 1]
               ELSE Append(f[k - 1], new[k])]
    BY <2>1, Zenon DEF AddsRow
  <2> QED BY <2>2, Zenon
<1>3. added = [k \in 0..Len(new) |-> AddsRow(added, old, new, k)]
  BY <1>2, Zenon DEF AddsRow
<1> QED BY <1>1, <1>3

\* A list without repetition.
Once(list) == list \in Seq(Nat) /\ \A i, j \in 1..Len(list) : list[i] = list[j] => i = j

Lists(list, id) == \E i \in 1..Len(list) : list[i] = id

LEMMA OneAppended ==
  ASSUME NEW list, Once(list), NEW id \in Nat, ~Lists(list, id)
  PROVE  /\ Once(Append(list, id)) /\ Lists(Append(list, id), id)
         /\ \A n : Lists(list, n) => Lists(Append(list, id), n)
         /\ \A n : Lists(Append(list, id), n) => Lists(list, n) \/ n = id
<1> DEFINE longer == Append(list, id)
<1>1. list \in Seq(Nat) /\ Len(list) \in Nat
  BY DEF Once
<1>2. /\ longer \in Seq(Nat) /\ Len(longer) = Len(list) + 1 /\ longer[Len(list) + 1] = id
      /\ \A i \in 1..Len(list) : longer[i] = list[i]
  BY <1>1, AppendProperties
<1> HIDE DEF longer
<1>3. \A i \in 1..Len(longer) : i \in 1..Len(list) \/ i = Len(list) + 1
  BY <1>1, <1>2
<1>4. \A i \in 1..Len(list) : i \in 1..Len(longer)
  BY <1>1, <1>2
<1>5. Len(list) + 1 \in 1..Len(longer)
  BY <1>1, <1>2
<1>6. Once(longer)
  <2> SUFFICES ASSUME NEW i \in 1..Len(longer), NEW j \in 1..Len(longer), longer[i] = longer[j]
               PROVE  i = j
    BY <1>2 DEF Once
  <2>1. CASE i \in 1..Len(list) /\ j \in 1..Len(list)
    BY <1>2, <2>1 DEF Once
  <2>2. \A k \in 1..Len(list) : longer[k] # id
    BY <1>2 DEF Lists
  <2> QED BY <1>2, <1>3, <2>1, <2>2
<1>7. Lists(longer, id) /\ \A n : Lists(list, n) => Lists(longer, n)
  BY <1>2, <1>4, <1>5 DEF Lists
<1>8. \A n : Lists(longer, n) => Lists(list, n) \/ n = id
  BY <1>2, <1>3 DEF Lists
<1> QED BY <1>6, <1>7, <1>8 DEF longer

\* A page added to the list leaves no id twice, and all of both.
LEMMA AppendedOnce ==
  ASSUME NEW old, NEW new, Once(old), Once(new)
  PROVE  /\ Once(Appended(old, new))
         /\ \A id : Lists(old, id) \/ Lists(new, id) => Lists(Appended(old, new), id)
<1>1. new \in Seq(Nat) /\ Len(new) \in Nat
  BY DEF Once
<1>2. PICK f : /\ f = [k \in 0..Len(new) |-> AddsRow(f, old, new, k)]
               /\ Appended(old, new) = f[Len(new)]
  BY <1>1, AppendedIs
<1> DEFINE good(k) == /\ Once(f[k]) /\ \A id : Lists(old, id) => Lists(f[k], id)
                      /\ \A j \in 1..k : Lists(f[k], new[j])
                      /\ \A id : Lists(f[k], id) => Lists(old, id) \/ \E j \in 1..k : id = new[j]
           bad == {k \in 0..Len(new) : ~good(k)}
<1>3. bad = {}
  <2> SUFFICES ASSUME bad # {} PROVE FALSE
    OBVIOUS
  <2>1. PICK n \in bad : \A m \in bad : n <= m
    <3>1. bad \in SUBSET Nat
      OBVIOUS
    <3> HIDE DEF bad
    <3> QED BY <3>1, Least
  <2>2. n \in 0..Len(new) /\ ~good(n)
    OBVIOUS
  <2>3. f[n] = AddsRow(f, old, new, n)
    BY <1>2, <2>2
  <2>4. CASE n = 0
    <3>1. f[n] = old
      BY <2>3, <2>4 DEF AddsRow
    <3>2. good(n)
      BY <2>4, <3>1
    <3> QED BY <2>2, <3>2
  <2>5. CASE n # 0
    <3>1. n - 1 \in 0..Len(new) /\ n \in 1..Len(new) /\ ~(n <= n - 1)
      BY <1>1, <2>2, <2>5
    <3>2. good(n - 1)
      BY <2>1, <3>1
    <3> DEFINE before == f[n - 1]
    <3>3. /\ Once(before) /\ \A id : Lists(old, id) => Lists(before, id)
          /\ \A j \in 1..(n - 1) : Lists(before, new[j])
          /\ \A id : Lists(before, id) => Lists(old, id) \/ \E j \in 1..(n - 1) : id = new[j]
      BY <3>2
    <3>4. f[n] = IF Lists(old, new[n]) THEN before ELSE Append(before, new[n])
      BY <2>3, <2>5 DEF AddsRow, Contains, Lists
    <3> HIDE DEF before, bad
    <3>5. \A j \in 1..n : j \in 1..(n - 1) \/ j = n
      BY <3>1
    <3>6. \A j \in 1..(n - 1) : j \in 1..n /\ j \in 1..Len(new) /\ j # n
      BY <1>1, <3>1
    <3>7. n \in 1..n
      BY <3>1
    <3>8. CASE Lists(old, new[n])
      <4>1. f[n] = before
        BY <3>4, <3>8
      <4>2. \A j \in 1..n : Lists(before, new[j])
        BY <3>3, <3>5, <3>8
      <4>3. good(n)
        BY <3>3, <3>6, <4>1, <4>2
      <4> QED BY <2>2, <4>3
    <3>9. CASE ~Lists(old, new[n])
      <4>1. f[n] = Append(before, new[n]) /\ new[n] \in Nat
        BY <1>1, <3>1, <3>4, <3>9
      <4>2. \A j \in 1..(n - 1) : new[j] # new[n]
        BY <3>1, <3>6 DEF Once
      <4>3. ~Lists(before, new[n])
        BY <3>3, <3>9, <4>2
      <4>4. /\ Once(f[n]) /\ Lists(f[n], new[n])
            /\ \A id : Lists(before, id) => Lists(f[n], id)
            /\ \A id : Lists(f[n], id) => Lists(before, id) \/ id = new[n]
        BY <3>3, <4>1, <4>3, OneAppended
      <4>5. \A j \in 1..n : Lists(f[n], new[j])
        BY <3>3, <3>5, <4>4
      <4>6. \A id : Lists(f[n], id) => Lists(old, id) \/ \E j \in 1..n : id = new[j]
        BY <3>3, <3>6, <3>7, <4>4
      <4>7. good(n)
        BY <3>3, <4>4, <4>5, <4>6
      <4> QED BY <2>2, <4>7
    <3> QED BY <3>8, <3>9
  <2> QED BY <2>4, <2>5
<1>4. good(Len(new))
  BY <1>1, <1>3
<1> QED BY <1>1, <1>2, <1>4 DEF Lists

-----------------------------------------------------------------------------
(* Past draws: the list                                                    *)

\* What a page holds: no id twice; the first round, unless there are more rows
\* than fit, and then a row to go on from.
LEMMA DownIs ==
  ASSUME NEW n \in Nat, NEW k \in Nat \ {0}
  PROVE  /\ Once(Down(n, k))
         /\ n = 0 => Down(n, k) = << >>
         /\ n # 0 /\ ~(n > k) => Lists(Down(n, k), 1)
         /\ n > k => Last(Down(n, k)) \in 2..n
<1> DEFINE size == IF k < n THEN k ELSE n
           page == Down(n, k)
<1>1. size \in Nat /\ size <= n
  OBVIOUS
<1>2. page = [i \in 1..size |-> n + 1 - i]
  BY DEF Down
<1>3. n > k => size = k
  OBVIOUS
<1>4. ~(n > k) => size = n
  OBVIOUS
<1> HIDE DEF size, page
<1>5. \A i \in 1..size : n + 1 - i \in Nat
  BY <1>1
<1>6. page \in Seq(Nat) /\ Len(page) = size
  <2>1. page \in [1..size -> Nat]
    BY <1>2, <1>5
  <2> QED BY <1>1, <1>2, <2>1
<1>7. \A i \in 1..size : page[i] = n + 1 - i
  BY <1>2
<1>8. Once(page)
  BY <1>1, <1>6, <1>7 DEF Once
<1>9. n = 0 => page = << >>
  BY <1>1, <1>6, EmptySeq
<1>10. ASSUME n # 0, ~(n > k) PROVE Lists(page, 1)
  <2>1. size \in 1..size /\ page[size] = 1
    BY <1>1, <1>4, <1>7, <1>10
  <2> QED BY <1>6, <2>1 DEF Lists
<1>11. ASSUME n > k PROVE Last(page) \in 2..n
  <2>1. Last(page) = page[k] /\ k \in 1..size
    BY <1>3, <1>6, <1>11 DEF Last
  <2> QED BY <1>7, <1>11, <2>1
<1> QED BY <1>8, <1>9, <1>10, <1>11 DEF page

Requests == [state : {"free", "asked", "answered"}, below : Nat, rows : Seq(Nat), next : Nat]

\* A cursor below which there are rounds.
Reachable(id) == id = 0 \/ id \in 2..settled

\* An answer without a next page ends with the first round.
EndsWell(r) ==
  r.state = "answered" /\ r.next = 0 /\ (r.rows # << >> \/ r.below # 0) => Lists(r.rows, 1)

GoodRequest(r) ==
  /\ r \in Requests /\ Once(r.rows)
  /\ rewinds = 0 => Reachable(r.below) /\ Reachable(r.next) /\ EndsWell(r)

GoodList ==
  rewinds = 0 => Reachable(cursor) /\ (cursor = 0 /\ rows # << >> => Lists(rows, 1))

HistoryInv ==
  /\ settled \in Nat /\ rewinds \in Nat
  /\ Once(rows) /\ cursor \in Nat
  /\ requests \in [1..Slots -> Requests]
  /\ \A s \in 1..Slots : GoodRequest(requests[s])
  /\ GoodList

LEMMA HistoryInitInv ==
  ASSUME HistoryInit
  PROVE  HistoryInv
<1>1. << >> \in Seq(Nat) /\ Len(<< >>) = 0
  OBVIOUS
<1>2. Once(<< >>)
  BY <1>1 DEF Once
<1>3. Nothing \in Requests /\ Nothing.rows = << >> /\ Nothing.below = 0 /\ Nothing.next = 0
  BY <1>1 DEF Nothing, Requests
<1>4. Nothing.state # "answered"
  BY DEF Nothing
<1>5. GoodRequest(Nothing)
  BY <1>2, <1>3, <1>4 DEF GoodRequest, Reachable, EndsWell
<1>6. requests \in [1..Slots -> Requests] /\ \A s \in 1..Slots : requests[s] = Nothing
  BY <1>3 DEF HistoryInit
<1> QED BY <1>2, <1>5, <1>6 DEF HistoryInit, HistoryInv, GoodList, Reachable

\* What is good stays so when more rounds are settled or one is taken back.
LEMMA StaysGood ==
  ASSUME HistoryInv, settled' \in Nat, rewinds' \in Nat,
         rewinds' = 0 => rewinds = 0 /\ settled <= settled'
  PROVE  /\ \A r : GoodRequest(r) => GoodRequest(r)'
         /\ rewinds' = 0 => \A id : Reachable(id) => Reachable(id)'
<1>1. rewinds' = 0 => \A id : Reachable(id) => Reachable(id)'
  BY DEF Reachable, HistoryInv
<1> QED BY <1>1 DEF GoodRequest, EndsWell

\* A request is replaced by a good one.
LEMMA RequestReplaced ==
  ASSUME HistoryInv, NEW s, NEW r, GoodRequest(r),
         requests' = [requests EXCEPT ![s] = r], settled' = settled, rewinds' = rewinds
  PROVE  /\ requests' \in [1..Slots -> Requests]
         /\ \A t \in 1..Slots : GoodRequest(requests[t])'
<1>1. r \in Requests /\ requests \in [1..Slots -> Requests]
  BY DEF HistoryInv, GoodRequest
<1>2. requests' \in [1..Slots -> Requests]
  BY <1>1
<1>3. ASSUME NEW t \in 1..Slots PROVE GoodRequest(requests'[t])
  <2>1. requests'[t] = r \/ requests'[t] = requests[t]
    BY <1>1
  <2> QED BY <2>1 DEF HistoryInv
<1>4. settled' \in Nat /\ rewinds' \in Nat /\ (rewinds' = 0 => rewinds = 0 /\ settled <= settled')
  BY DEF HistoryInv
<1>5. \A q : GoodRequest(q) => (/\ q \in Requests /\ Once(q.rows)
           /\ rewinds' = 0 => Reachable(q.below)' /\ Reachable(q.next)' /\ EndsWell(q))
  BY DEF GoodRequest, Reachable
<1> QED BY <1>2, <1>3, <1>5 DEF GoodRequest, Reachable, EndsWell

\* Asking for a page leaves the list alone.
LEMMA AskedKeeps ==
  ASSUME HistoryAssumption, HistoryInv, NEW s, NEW id \in Nat, rewinds = 0 => Reachable(id),
         requests' = [requests EXCEPT ![s] = Asked(id)],
         settled' = settled, rewinds' = rewinds, rows' = rows, cursor' = cursor
  PROVE  HistoryInv'
<1>1. << >> \in Seq(Nat) /\ Len(<< >>) = 0
  OBVIOUS
<1>2. Asked(id) = [state |-> "asked", below |-> id, rows |-> << >>, next |-> 0]
  BY DEF Asked
<1>3. Once(<< >>)
  BY <1>1 DEF Once
<1>4. Asked(id) \in Requests /\ Asked(id).rows = << >> /\ Asked(id).below = id /\ Asked(id).next = 0
      /\ Asked(id).state = "asked"
  BY <1>1, <1>2 DEF Requests
<1>5. GoodRequest(Asked(id))
  BY <1>3, <1>4 DEF GoodRequest, Reachable, EndsWell
<1>6. /\ requests' \in [1..Slots -> Requests]
      /\ \A t \in 1..Slots : GoodRequest(requests[t])'
  BY <1>5, RequestReplaced
<1> QED BY <1>6 DEF HistoryInv, GoodList, Reachable

\* The slot is given back.
LEMMA FreedKeeps ==
  ASSUME HistoryInv, NEW s, requests' = [requests EXCEPT ![s] = Nothing],
         settled' = settled, rewinds' = rewinds
  PROVE  /\ requests' \in [1..Slots -> Requests]
         /\ \A t \in 1..Slots : GoodRequest(requests[t])'
<1>1. << >> \in Seq(Nat) /\ Len(<< >>) = 0
  OBVIOUS
<1>2. Once(<< >>)
  BY <1>1 DEF Once
<1>3. Nothing \in Requests /\ Nothing.rows = << >> /\ Nothing.below = 0 /\ Nothing.next = 0
      /\ Nothing.state # "answered"
  BY <1>1 DEF Nothing, Requests
<1>4. GoodRequest(Nothing)
  BY <1>2, <1>3 DEF GoodRequest, Reachable, EndsWell
<1> QED BY <1>4, RequestReplaced

\* The page that is served.
LEMMA ServeKeeps ==
  ASSUME HistoryAssumption, HistoryInv, NEW s \in 1..Slots, Serve(s)
  PROVE  HistoryInv'
<1> DEFINE old == requests[s]
           served == [state |-> "answered", below |-> old.below,
                      rows |-> Page(old.below), next |-> NextCursor(old.below)]
<1>1. old \in Requests /\ requests \in [1..Slots -> Requests] /\ GoodRequest(old)
  BY DEF HistoryInv
<1>2. requests' = [requests EXCEPT ![s] = served]
  BY DEF Serve, AnswerTo
<1>3. settled' = settled /\ rewinds' = rewinds /\ rows' = rows /\ cursor' = cursor
  BY DEF Serve, view
<1> DEFINE id == old.below
           top == Upper(id)
<1>4. id \in Nat /\ settled \in Nat /\ Limit \in Nat \ {0}
  BY <1>1 DEF HistoryInv, Requests, HistoryAssumption
<1>5. top \in Nat
  BY <1>4 DEF Upper
<1>6. /\ Once(Page(id))
      /\ top = 0 => Page(id) = << >>
      /\ top # 0 /\ ~(top > Limit) => Lists(Page(id), 1)
      /\ top > Limit => Last(Page(id)) \in 2..top
  <2> HIDE DEF id, top
  <2>1. Page(id) = Down(top, Limit)
    BY DEF Page, top
  <2> QED BY <1>4, <1>5, <2>1, DownIs
<1>7. NextCursor(id) = IF top > Limit THEN Last(Page(id)) ELSE 0
  BY DEF NextCursor
<1>8. NextCursor(id) \in Nat
  BY <1>5, <1>6, <1>7
<1>9. served \in Requests
  BY <1>4, <1>6, <1>8 DEF Requests, Once
<1>10. served.rows = Page(id) /\ served.below = id /\ served.next = NextCursor(id)
  OBVIOUS
<1>11. ASSUME rewinds = 0
       PROVE  Reachable(served.below) /\ Reachable(served.next) /\ EndsWell(served)
  <2>1. Reachable(id)
    BY <1>1, <1>11 DEF GoodRequest
  <2>2. top <= settled /\ (id # 0 => top # 0)
    BY <1>4, <2>1 DEF Upper, Reachable
  <2> HIDE DEF id, top, served
  <2>3. Reachable(NextCursor(id))
    BY <1>4, <1>5, <1>6, <1>7, <2>2 DEF Reachable
  <2>4. NextCursor(id) = 0 => ~(top > Limit)
    BY <1>5, <1>6, <1>7
  <2>5. EndsWell(served)
    BY <1>6, <1>10, <2>2, <2>4 DEF EndsWell
  <2> QED BY <1>10, <2>1, <2>3, <2>5
<1>12. GoodRequest(served)
  <2> HIDE DEF served
  <2> QED BY <1>6, <1>9, <1>10, <1>11 DEF GoodRequest
<1>13. /\ requests' \in [1..Slots -> Requests]
       /\ \A t \in 1..Slots : GoodRequest(requests[t])'
  <2> HIDE DEF served
  <2> QED BY <1>2, <1>3, <1>12, RequestReplaced
<1> QED BY <1>3, <1>13 DEF HistoryInv, GoodList, Reachable

\* The answer that is taken over.
LEMMA ReceiveKeeps ==
  ASSUME HistoryAssumption, HistoryInv, NEW s \in 1..Slots, Receive(s)
  PROVE  HistoryInv'
<1> DEFINE r == requests[s]
<1>1. /\ r.state = "answered"
      /\ rows' = IF r.below = 0 THEN r.rows ELSE Appended(rows, r.rows)
      /\ cursor' = r.next
      /\ requests' = [requests EXCEPT ![s] = Nothing]
      /\ settled' = settled /\ rewinds' = rewinds
  BY DEF Receive
<1>2. GoodRequest(r) /\ Once(rows)
  BY DEF HistoryInv
<1> HIDE DEF r
<1>3. r.next \in Nat /\ Once(r.rows)
  BY <1>2 DEF GoodRequest, Requests
<1>4. Once(rows')
  BY <1>1, <1>2, <1>3, AppendedOnce
<1>5. /\ requests' \in [1..Slots -> Requests]
      /\ \A t \in 1..Slots : GoodRequest(requests[t])'
  BY <1>1, FreedKeeps
<1>6. ASSUME rewinds' = 0
      PROVE  Reachable(cursor)' /\ (cursor' = 0 /\ rows' # << >> => Lists(rows', 1))
  <2>1. Reachable(r.next) /\ EndsWell(r)
    BY <1>1, <1>2, <1>6 DEF GoodRequest
  <2>2. Reachable(cursor)'
    BY <1>1, <2>1 DEF Reachable
  <2>3. r.below = 0 /\ cursor' = 0 /\ rows' # << >> => Lists(rows', 1)
    BY <1>1, <2>1 DEF EndsWell
  <2>4. r.below # 0 /\ cursor' = 0 => Lists(rows', 1)
    <3>1. r.below # 0 /\ cursor' = 0 => Lists(r.rows, 1)
      BY <1>1, <2>1 DEF EndsWell
    <3> QED BY <1>1, <1>2, <1>3, <3>1, AppendedOnce
  <2> QED BY <2>2, <2>3, <2>4
<1>7. GoodList'
  BY <1>6 DEF GoodList, Lists
<1> QED BY <1>1, <1>3, <1>4, <1>5, <1>7 DEF HistoryInv, Once

LEMMA HistoryInvStep ==
  ASSUME HistoryAssumption, HistoryInv, [HistoryNext]_historyVars
  PROVE  HistoryInv'
<1>1. ASSUME Settle \/ TakeBack PROVE HistoryInv'
  <2>1. rows' = rows /\ cursor' = cursor /\ requests' = requests
    BY <1>1 DEF Settle, TakeBack, view
  <2>2. settled' \in Nat /\ rewinds' \in Nat /\ (rewinds' = 0 => rewinds = 0 /\ settled <= settled')
    BY <1>1 DEF HistoryInv, Settle, TakeBack
  <2>3. \A id : rewinds' = 0 /\ Reachable(id) => id = 0 \/ id \in 2..settled'
    BY <2>2 DEF Reachable, HistoryInv
  <2>4. \A t \in 1..Slots : GoodRequest(requests[t])'
    BY <2>1, <2>2, <2>3 DEF HistoryInv, GoodRequest, Reachable, EndsWell
  <2>5. GoodList'
    BY <2>1, <2>2, <2>3 DEF HistoryInv, GoodList, Reachable
  <2> QED BY <2>1, <2>2, <2>4, <2>5 DEF HistoryInv
<1>2. ASSUME NEW id, LoadHistory(id), id = 0 \/ id = cursor PROVE HistoryInv'
  <2>1. settled' = settled /\ rewinds' = rewinds /\ rows' = rows /\ cursor' = cursor
    BY <1>2 DEF LoadHistory, view
  <2>2. PICK s : requests' = [requests EXCEPT ![s] = Asked(id)]
    BY <1>2 DEF LoadHistory
  <2>3. id \in Nat /\ (rewinds = 0 => Reachable(id))
    BY <1>2 DEF HistoryInv, GoodList, Reachable
  <2> QED BY <2>1, <2>2, <2>3, AskedKeeps
<1>3. ASSUME ReloadConfig PROVE HistoryInv'
  <2>1. settled' = settled /\ rewinds' = rewinds /\ rows' = rows /\ cursor' = cursor
    BY <1>3 DEF ReloadConfig, view
  <2>2. PICK s : requests' = [requests EXCEPT ![s] = Asked(0)]
    BY <1>3 DEF ReloadConfig, ReloadsAlways
  <2>3. 0 \in Nat /\ Reachable(0)
    BY DEF Reachable
  <2> QED BY <2>1, <2>2, <2>3, AskedKeeps
<1>4. ASSUME Interval \/ AfterAction \/ Refresh \/ LoadOlder PROVE HistoryInv'
  BY <1>2, <1>4 DEF Interval, AfterAction, Refresh, LoadOlder
<1>5. ASSUME NEW s \in 1..Slots, RequestFails(s) PROVE HistoryInv'
  <2>1. /\ requests' = [requests EXCEPT ![s] = Nothing]
        /\ settled' = settled /\ rewinds' = rewinds /\ rows' = rows /\ cursor' = cursor
    BY <1>5 DEF RequestFails, view
  <2>2. /\ requests' \in [1..Slots -> Requests]
        /\ \A t \in 1..Slots : GoodRequest(requests[t])'
    BY <2>1, FreedKeeps
  <2> QED BY <2>1, <2>2 DEF HistoryInv, GoodList, Reachable
<1>6. ASSUME UNCHANGED historyVars PROVE HistoryInv'
  <2>1. settled' = settled /\ rewinds' = rewinds /\ rows' = rows /\ cursor' = cursor
        /\ requests' = requests
    BY <1>6 DEF historyVars
  <2> QED BY <2>1 DEF HistoryInv, GoodList, GoodRequest, Reachable, EndsWell
<1> QED BY <1>1, <1>3, <1>4, <1>5, <1>6, ServeKeeps, ReceiveKeeps DEF HistoryNext

\* Whatever requests overlap and in whatever order their answers arrive, no
\* round is listed twice, and as long as no block was taken back a list without
\* "Load older draws" ends with the first round: loadHistory of main.tsx with
\* the pages http.go cuts.
THEOREM HistoryIsSound == HistorySpec => []ListIsSound
<1>1. HistoryInit => HistoryInv
  BY HistoryInitInv
<1>2. HistoryInv /\ [HistoryNext]_historyVars => HistoryInv'
  BY HistoryInvStep, HistoryAssumption
<1>3. HistoryInv => ListIsSound
  <2> SUFFICES ASSUME HistoryInv PROVE ListIsSound
    OBVIOUS
  <2>1. rows \in Seq(Nat) /\ \A i, j \in 1..Len(rows) : rows[i] = rows[j] => i = j
    BY DEF HistoryInv, Once
  <2>2. DOMAIN rows = 1..Len(rows)
    BY <2>1
  <2>3. IsInjective(rows)
    BY <2>1, <2>2 DEF IsInjective
  <2>4. rewinds = 0 /\ rows # << >> /\ cursor = 0 => Contains(rows, 1)
    BY DEF HistoryInv, GoodList, Lists, Contains
  <2> QED BY <2>3, <2>4 DEF ListIsSound, NoRoundTwice, OldestReachable
<1> QED BY <1>1, <1>2, <1>3, PTL DEF HistorySpec
===============================================================================
