-------------------------------- MODULE Rounds --------------------------------
(***************************************************************************)
(* The lottery contract as its clients see it: which call is accepted in   *)
(* which state and what it leaves behind.  A book holds the rounds; money, *)
(* requests and times are left out, the deadline of the live round is a    *)
(* flag.  DLotteryRounds shows that DLottery behaves like this; the        *)
(* modules of the wallet page and of the scripts use it as the chain they  *)
(* talk to.                                                                *)
(***************************************************************************)
EXTENDS Integers, FiniteSets

CONSTANTS
  Players,    \* accounts that hold tickets
  Nobody,     \* address(0)
  MaxRounds,  \* bound: rounds started
  Minimum,    \* minimumParticipants
  Maximum     \* MAX_PARTICIPANTS

RoundIds == 1..MaxRounds
Ended    == {"WINNER_DECLARED", "COMPLETED", "NO_WINNER", "CANCELLED"}
Statuses == {"ACTIVE", "DRAWING"} \union Ended

Book ==
  [current  : 0..MaxRounds,
   status   : [RoundIds -> Statuses],
   holders  : [RoundIds -> SUBSET Players],
   winner   : [RoundIds -> Players \union {Nobody}],
   refunded : [RoundIds -> SUBSET Players],
   closed   : BOOLEAN]               \* the live round's deadline has passed

EmptyBook ==
  [current  |-> 0,
   status   |-> [id \in RoundIds |-> "ACTIVE"],
   holders  |-> [id \in RoundIds |-> {}],
   winner   |-> [id \in RoundIds |-> Nobody],
   refunded |-> [id \in RoundIds |-> {}],
   closed   |-> FALSE]

Started(b, id) == 0 < id /\ id <= b.current

-----------------------------------------------------------------------------
(* What the contract accepts                                               *)

\* startDraw(previous) and canStartDraw.
MayStart(b, previous) ==
  /\ previous = b.current
  /\ previous # 0 => b.status[previous] \in Ended
  /\ b.current < MaxRounds

Open(b, id) ==
  /\ id = b.current /\ id # 0
  /\ b.status[id] = "ACTIVE"
  /\ ~b.closed
  /\ Cardinality(b.holders[id]) < Maximum

MayBuy(b, p, id) == Open(b, id) /\ p \notin b.holders[id]

\* canPerformDraw.
MayDraw(b, id) ==
  /\ id = b.current /\ id # 0
  /\ b.status[id] = "ACTIVE"
  /\ b.closed \/ Cardinality(b.holders[id]) = Maximum

MayFinalize(b, id) == Started(b, id) /\ b.status[id] = "DRAWING"

MayClaimPrize(b, p, id) ==
  Started(b, id) /\ b.status[id] = "WINNER_DECLARED" /\ b.winner[id] = p

MayClaimRefund(b, p, id) ==
  /\ Started(b, id) /\ b.status[id] = "CANCELLED"
  /\ p \in b.holders[id] \ b.refunded[id]

-----------------------------------------------------------------------------
(* What it leaves behind                                                   *)

WithStatus(b, id, status) == [b EXCEPT !.status[id] = status]

WithClosed(b, closed) == [b EXCEPT !.closed = closed]

NextRound(b) == WithClosed([b EXCEPT !.current = @ + 1], FALSE)

Bought(b, p, id) == [b EXCEPT !.holders[id] = @ \union {p}]

Drawn(b, id) ==
  WithStatus(b, id, IF Cardinality(b.holders[id]) < Minimum THEN "CANCELLED" ELSE "DRAWING")

\* The word decides: an unsold number, or one of the holders.
Finalized(b, id) ==
  {WithStatus(b, id, "NO_WINNER")} \union
  {[WithStatus(b, id, "WINNER_DECLARED") EXCEPT !.winner[id] = p] : p \in b.holders[id]}

PrizeTaken(b, id) == WithStatus(b, id, "COMPLETED")

Refunded(b, p, id) == [b EXCEPT !.refunded[id] = @ \union {p}]

Lapsed(b) == WithClosed(b, TRUE)

Calls == {"start", "buy", "draw", "finalize", "prize", "refund"}

\* The books a call of p about round id can lead to; none when it reverts.
After(b, call, p, id) ==
  CASE call = "start"    -> IF MayStart(b, id) THEN {NextRound(b)} ELSE {}
    [] call = "buy"      -> IF MayBuy(b, p, id) THEN {Bought(b, p, id)} ELSE {}
    [] call = "draw"     -> IF MayDraw(b, id) THEN {Drawn(b, id)} ELSE {}
    [] call = "finalize" -> IF MayFinalize(b, id) THEN Finalized(b, id) ELSE {}
    [] call = "prize"    -> IF MayClaimPrize(b, p, id) THEN {PrizeTaken(b, id)} ELSE {}
    [] call = "refund"   -> IF MayClaimRefund(b, p, id) THEN {Refunded(b, p, id)} ELSE {}

Accepted(b, call, p, id) == After(b, call, p, id) # {}

\* One accepted call, or the deadline of a live round passing.
Step(b, next) ==
  \/ \E call \in Calls, p \in Players, id \in 0..MaxRounds : next \in After(b, call, p, id)
  \/ b.current # 0 /\ ~b.closed /\ next = Lapsed(b)
===============================================================================
