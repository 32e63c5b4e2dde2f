-------------------------------- MODULE Raffle --------------------------------
(***************************************************************************)
(* What the lottery promises its players, free of money, deadlines, oracle *)
(* requests and retries: rounds run one after another; the entries of a    *)
(* round are fixed before its word is drawn; one word is drawn; and the    *)
(* winner announced is the entry that word points at, if it was taken.     *)
(***************************************************************************)
EXTENDS Integers, Sequences

CONSTANTS Players, Nobody, Rounds, Words, Numbers, Minimum, Capacity, NoWord

VARIABLES
  phase,     \* of each round
  entries,   \* players of each round, in the order they entered
  word,      \* the word drawn for each round
  winner     \* as announced

vars == <<phase, entries, word, winner>>

Phases == {"unopened", "open", "closed", "drawn", "announced", "void"}
Over   == {"announced", "void"}

Init ==
  /\ phase   = [r \in Rounds |-> "unopened"]
  /\ entries = [r \in Rounds |-> <<>>]
  /\ word    = [r \in Rounds |-> NoWord]
  /\ winner  = [r \in Rounds |-> Nobody]

Chosen(r, w) ==
  LET number == (w % Numbers) + 1 IN
  IF number <= Len(entries[r]) THEN entries[r][number] ELSE Nobody

Open(r) ==
  /\ phase[r] = "unopened"
  /\ \A q \in Rounds : q < r => phase[q] \in Over
  /\ phase' = [phase EXCEPT ![r] = "open"]
  /\ UNCHANGED <<entries, word, winner>>

Enter(p, r) ==
  /\ phase[r] = "open"
  /\ \A k \in DOMAIN entries[r] : entries[r][k] # p
  /\ Len(entries[r]) < Capacity
  /\ entries' = [entries EXCEPT ![r] = Append(@, p)]
  /\ UNCHANGED <<phase, word, winner>>

Void(r) ==
  /\ phase[r] = "open"
  /\ Len(entries[r]) < Minimum
  /\ phase' = [phase EXCEPT ![r] = "void"]
  /\ UNCHANGED <<entries, word, winner>>

Close(r) ==
  /\ phase[r] = "open"
  /\ Len(entries[r]) >= Minimum
  /\ phase' = [phase EXCEPT ![r] = "closed"]
  /\ UNCHANGED <<entries, word, winner>>

DrawWord(r, w) ==
  /\ phase[r] = "closed"
  /\ phase' = [phase EXCEPT ![r] = "drawn"]
  /\ word' = [word EXCEPT ![r] = w]
  /\ UNCHANGED <<entries, winner>>

Announce(r) ==
  /\ phase[r] = "drawn"
  /\ phase' = [phase EXCEPT ![r] = "announced"]
  /\ winner' = [winner EXCEPT ![r] = Chosen(r, word[r])]
  /\ UNCHANGED <<entries, word>>

\* The word is announced the moment it is drawn.
DrawAndAnnounce(r, w) ==
  /\ phase[r] = "closed"
  /\ phase' = [phase EXCEPT ![r] = "announced"]
  /\ word' = [word EXCEPT ![r] = w]
  /\ winner' = [winner EXCEPT ![r] = Chosen(r, w)]
  /\ UNCHANGED entries

Next ==
  \E r \in Rounds :
    \/ Open(r) \/ Void(r) \/ Close(r) \/ Announce(r)
    \/ \E p \in Players : Enter(p, r)
    \/ \E w \in Words : DrawWord(r, w) \/ DrawAndAnnounce(r, w)

Spec == Init /\ [][Next]_vars
===============================================================================
