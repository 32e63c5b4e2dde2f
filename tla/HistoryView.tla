------------------------------ MODULE HistoryView ------------------------------
(***************************************************************************)
(* Past draws: loadHistory in frontend/src/main.tsx, the timers, effects   *)
(* and buttons that call it, and the page the backend cuts out of its      *)
(* projection (http.go history, store.go Read).  Requests overlap: the     *)
(* timers and the end of an action do not look at historyBusy, and answers *)
(* arrive in any order.  Between two requests a round may be settled or a  *)
(* reorganisation may take back the last one.                              *)
(*                                                                         *)
(* A round is its id: settled rounds are 1..settled, since only the latest *)
(* round is open.  The columns of a row are left out.                      *)
(***************************************************************************)
EXTENDS Integers, Sequences, SequencesExt

CONSTANTS
  Limit,        \* rounds on a page: limit=10
  MaxSettled,   \* bound: rounds ever settled
  MaxRewinds,   \* bound: rounds taken back by a reorganisation
  Slots         \* bound: requests in flight

ASSUME HistoryAssumption == Limit \in Nat \ {0} /\ MaxSettled \in Nat /\ Slots \in Nat \ {0}

VARIABLES
  settled, rewinds,   \* backend: settled rounds of the projection
  configured,         \* configuration loaded
  rows,               \* history: ids on display, newest first if all is well
  cursor,             \* id the next page starts below; 0 for null
  historyPages, historyBusy,
  requests            \* per slot: nothing, asked or answered

historyVars == <<settled, rewinds, configured, rows, cursor, historyPages, historyBusy, requests>>
view == <<rows, cursor, historyPages>>

Nothing == [state |-> "free", below |-> 0, rows |-> <<>>, next |-> 0]
Asked(below) == [state |-> "asked", below |-> below, rows |-> <<>>, next |-> 0]

HistoryInit ==
  /\ settled = 0 /\ rewinds = 0
  /\ configured = FALSE
  /\ rows = <<>> /\ cursor = 0 /\ historyPages = 1 /\ historyBusy = FALSE
  /\ requests = [s \in 1..Slots |-> Nothing]

-----------------------------------------------------------------------------
(* The backend                                                             *)

\* The ids n, n-1, ... down to 1, at most k of them.
Down(n, k) == [i \in 1..(IF k < n THEN k ELSE n) |-> n + 1 - i]

\* Ids below the cursor, in a projection that may have shrunk meanwhile.
Upper(below) ==
  IF below = 0 \/ below > settled THEN settled ELSE below - 1

\* One row more than the limit is read, to know whether there is a next page.
Page(below) == Down(Upper(below), Limit)

\* Altered: a page with exactly one more row is taken for the last.
NextCursorEarly(below) == IF Upper(below) > Limit + 1 THEN Last(Page(below)) ELSE 0

NextCursor(below) == IF Upper(below) > Limit THEN Last(Page(below)) ELSE 0

AnswerTo(below) ==
  [state |-> "answered", below |-> below, rows |-> Page(below), next |-> NextCursor(below)]

Serve(s) ==
  /\ requests[s].state = "asked"
  /\ requests' = [requests EXCEPT ![s] = AnswerTo(requests[s].below)]
  /\ UNCHANGED <<settled, rewinds, configured, view, historyBusy>>

Settle ==
  /\ settled < MaxSettled /\ settled' = settled + 1
  /\ UNCHANGED <<rewinds, configured, view, historyBusy, requests>>

TakeBack ==
  /\ settled > 0 /\ rewinds < MaxRewinds
  /\ settled' = settled - 1 /\ rewinds' = rewinds + 1
  /\ UNCHANGED <<configured, view, historyBusy, requests>>

-----------------------------------------------------------------------------
(* The page                                                                *)

FreeSlots == {s \in 1..Slots : requests[s] = Nothing}

\* loadHistory up to its await.
LoadHistory(below) ==
  /\ configured /\ FreeSlots # {}
  /\ historyBusy' = TRUE
  /\ LET s == CHOOSE f \in FreeSlots : \A g \in FreeSlots : f <= g IN
     requests' = [requests EXCEPT ![s] = Asked(below)]
  /\ UNCHANGED <<settled, rewinds, view>>

\* Altered: a reload of the configuration keeps the pages that were opened.
ReloadsFirstPages == historyPages = 1

ReloadsAlways == TRUE

\* The configuration is replaced every 30 s; the effect of the new loadHistory
\* asks for the first page.
ReloadConfig ==
  /\ configured' = TRUE /\ FreeSlots # {}
  /\ IF ReloadsAlways
     THEN /\ historyBusy' = TRUE
          /\ LET s == CHOOSE f \in FreeSlots : \A g \in FreeSlots : f <= g IN
             requests' = [requests EXCEPT ![s] = Asked(0)]
     ELSE UNCHANGED <<historyBusy, requests>>
  /\ UNCHANGED <<settled, rewinds, view>>

\* The timer, every 15 s: only while a single page is open.
Interval == historyPages = 1 /\ LoadHistory(0) /\ UNCHANGED configured

\* The end of an action, which does not wait for a request in flight.
AfterAction == LoadHistory(0) /\ UNCHANGED configured

Refresh == ~historyBusy /\ LoadHistory(0) /\ UNCHANGED configured

LoadOlder == ~historyBusy /\ cursor # 0 /\ LoadHistory(cursor) /\ UNCHANGED configured

\* The rows of a page that are not in the list are added to it.
Appended(old, new) ==
  LET added[k \in 0..Len(new)] ==
        IF k = 0 THEN old
        ELSE IF Contains(old, new[k]) THEN added[k - 1]
        ELSE Append(added[k - 1], new[k])
  IN  added[Len(new)]

\* An answer replaces the list or is appended to whatever is on display now.
Receive(s) ==
  LET r == requests[s] IN
  /\ r.state = "answered"
  /\ rows' = IF r.below = 0 THEN r.rows ELSE Appended(rows, r.rows)
  /\ cursor' = r.next
  /\ historyPages' = IF r.below = 0 THEN 1
                     ELSE IF historyPages < MaxSettled THEN historyPages + 1 ELSE historyPages
  /\ historyBusy' = FALSE
  /\ requests' = [requests EXCEPT ![s] = Nothing]
  /\ UNCHANGED <<settled, rewinds, configured>>

RequestFails(s) ==
  /\ requests[s].state = "asked"
  /\ historyBusy' = FALSE
  /\ requests' = [requests EXCEPT ![s] = Nothing]
  /\ UNCHANGED <<settled, rewinds, configured, view>>

-----------------------------------------------------------------------------
HistoryNext ==
  \/ Settle \/ TakeBack
  \/ ReloadConfig \/ Interval \/ AfterAction \/ Refresh \/ LoadOlder
  \/ \E s \in 1..Slots : Serve(s) \/ Receive(s) \/ RequestFails(s)

\* The configuration is asked for every 30 s, a request is answered or given up
\* after 12 s; one that is tried again and again does not fail every time.  (The bound on
\* requests in flight may disable a reload for a while, hence SF.)
HistorySpec ==
  /\ HistoryInit /\ [][HistoryNext]_historyVars
  /\ SF_historyVars(ReloadConfig)
  /\ \A s \in 1..Slots :
       /\ WF_historyVars(Serve(s) \/ RequestFails(s)) /\ WF_historyVars(Receive(s))
       /\ SF_historyVars(Serve(s) /\ requests[s].below = 0)

-----------------------------------------------------------------------------
(* Properties                                                              *)

\* Whatever overlaps, a round is listed once: rows carry the id as their key.
NoRoundTwice == IsInjective(rows)

\* The oldest row asked for stays reachable: as long as nothing was taken back,
\* a list without "Load older draws" ends with the first round.
OldestReachable ==
  rewinds = 0 /\ rows # <<>> /\ cursor = 0 => Contains(rows, 1)

\* What overlapping answers never do to the list.
ListIsSound == NoRoundTwice /\ OldestReachable

\* The list starts at the newest settled round and leaves none out.
Complete == rows = Down(settled, Len(rows)) /\ (settled > 0 => rows # <<>>)

\* Overlapping answers may leave a gap, which then has no button to fill it, or
\* an old list on display, but never for good: whatever the user opens, the
\* list is complete again and again.
Recovers == []<>Complete
===============================================================================
