------------------------------ MODULE StoreProofs ------------------------------
(***************************************************************************)
(* Proofs about Store, for every deployment block and every set of blocks: *)
(* a single writer or many, calling CommitBlock and Rewind in any order,   *)
(* keep the stored blocks one chain, the events those of its blocks, and   *)
(* the projections the replay of the events.                               *)
(***************************************************************************)
EXTENDS Store, SequenceTheorems, FiniteSetTheorems, WellFoundedInduction, TLAPS

\* The log of a block that a delivery has at position i, when the log at d is
\* delivered twice.
Source(i, d) == IF i <= d THEN i ELSE i - 1

Repeats(sent, logs, d) ==
  /\ d \in 0..Len(logs) /\ Len(sent) \in {Len(logs), Len(logs) + 1}
  /\ Len(sent) = Len(logs) => d = Len(logs)
  /\ Len(sent) = Len(logs) + 1 => d >= 1
  /\ \A i \in 1..Len(sent) : sent[i] = logs[Source(i, d)]

LEMMA Delivered ==
  ASSUME NEW T, NEW logs \in Seq(T), NEW sent \in Deliveries(logs)
  PROVE  sent \in Seq(T) /\ \E d \in Nat : Repeats(sent, logs, d)
<1>1. CASE sent = logs
  <2>1. Repeats(sent, logs, Len(logs))
    BY <1>1 DEF Repeats, Source
  <2> QED BY <1>1, <2>1
<1>2. ASSUME NEW k \in DOMAIN logs, sent = SubSeq(logs, 1, k) \o SubSeq(logs, k, Len(logs))
      PROVE  sent \in Seq(T) /\ \E d \in Nat : Repeats(sent, logs, d)
  <2>1. k \in 1..Len(logs) /\ Len(logs) \in Nat
    OBVIOUS
  <2> DEFINE first == SubSeq(logs, 1, k)
             rest  == SubSeq(logs, k, Len(logs))
  <2>2. /\ first \in Seq(T) /\ Len(first) = k
        /\ \A i \in 1..k : first[i] = logs[i]
    BY <2>1
  <2>3. /\ rest \in Seq(T) /\ Len(rest) = Len(logs) - k + 1
        /\ \A i \in 1..(Len(logs) - k + 1) : rest[i] = logs[k + i - 1]
    <3>1. rest \in Seq(T)
      BY <2>1
    <3>2. Len(rest) = Len(logs) - k + 1
      BY <2>1
    <3>3. ASSUME NEW i \in 1..(Len(logs) - k + 1) PROVE rest[i] = logs[k + i - 1]
      BY <2>1
    <3> QED
      BY <3>1, <3>2, <3>3
  <2> HIDE DEF first, rest
  <2>4. sent = first \o rest
    BY <1>2 DEF first, rest
  <2>5. sent \in Seq(T) /\ Len(sent) = Len(logs) + 1
    <3>1. sent \in Seq(T) /\ Len(sent) = Len(first) + Len(rest)
      BY <2>2, <2>3, <2>4, ConcatProperties
    <3> QED
      BY <3>1, <2>1, <2>2, <2>3
  <2>6. \A i \in 1..k : sent[i] = logs[i]
    BY <2>1, <2>2, <2>3, <2>4
  <2>7. \A i \in (k + 1)..(Len(logs) + 1) : sent[i] = logs[i - 1]
    <3> SUFFICES ASSUME NEW i \in (k + 1)..(Len(logs) + 1) PROVE sent[i] = logs[i - 1]
      OBVIOUS
    <3>1. sent[i] = rest[i - k]
      BY <2>1, <2>2, <2>3, <2>4
    <3>2. i - k \in 1..(Len(logs) - k + 1) /\ k + (i - k) - 1 = i - 1
      BY <2>1
    <3> QED
      BY <3>1, <3>2, <2>3
  <2>8. Repeats(sent, logs, k)
    BY <2>1, <2>5, <2>6, <2>7 DEF Repeats, Source
  <2> QED
    BY <2>1, <2>5, <2>8
<1> QED
  BY <1>1, <1>2 DEF Deliveries

\* Delivering a log twice adds no log.
LEMMA SameLogs ==
  ASSUME NEW T, NEW logs \in Seq(T), NEW sent \in Deliveries(logs)
  PROVE  sent \in Seq(T) /\ ToSet(sent) = ToSet(logs)
<1>1. PICK d \in Nat : Repeats(sent, logs, d)
  BY Delivered
<1>2. sent \in Seq(T) /\ Len(sent) \in Nat /\ Len(logs) \in Nat
  <2>1. sent \in Seq(T)
    BY Delivered
  <2> QED BY <2>1
<1>3. \A i \in 1..Len(logs) : \E j \in 1..Len(sent) : Source(j, d) = i
  <2> SUFFICES ASSUME NEW i \in 1..Len(logs) PROVE \E j \in 1..Len(sent) : Source(j, d) = i
    OBVIOUS
  <2>1. CASE i <= d
    <3>1. i \in 1..Len(sent) /\ Source(i, d) = i
      BY <1>1, <1>2, <2>1 DEF Repeats, Source
    <3> QED BY <3>1
  <2>2. CASE i > d
    <3>1. i + 1 \in 1..Len(sent) /\ Source(i + 1, d) = i
      BY <1>1, <1>2, <2>2 DEF Repeats, Source
    <3> QED BY <3>1
  <2> QED BY <2>1, <2>2
<1>4. \A j \in 1..Len(sent) : Source(j, d) \in 1..Len(logs) /\ sent[j] = logs[Source(j, d)]
  BY <1>1, <1>2 DEF Repeats, Source
<1>5. ToSet(logs) = {logs[i] : i \in 1..Len(logs)} /\ ToSet(sent) = {sent[j] : j \in 1..Len(sent)}
  BY <1>2 DEF ToSet
<1>6. ToSet(sent) \subseteq ToSet(logs)
  BY <1>4, <1>5
<1>7. ToSet(logs) \subseteq ToSet(sent)
  BY <1>3, <1>4, <1>5
<1> QED BY <1>2, <1>6, <1>7

\* The logs of a block carry its number and hash.
LEMMA LogsOfBlock ==
  ASSUME NEW b \in Blocks, NEW e \in ToSet(b.logs)
  PROVE  e.number = b.number /\ e.hash = b.hash /\ e.index \in Nat
<1> DEFINE logs == b.logs
           OfBlock == [number : {b.number}, hash : {b.hash}, index : Nat]
<1>1. logs \in Seq(OfBlock)
  BY StoreAssumption
<1>2. PICK i \in 1..Len(logs) : e = logs[i]
  BY <1>1 DEF ToSet
<1>3. e \in OfBlock
  <2> HIDE DEF logs, OfBlock
  <2> QED
    BY <1>1, <1>2, ElementOfSeq
<1> QED
  BY <1>3

Stored(b) == b.number \in DOMAIN blocks /\ blocks[b.number].hash = b.hash

IInv == TypeOK /\ StoredChain /\ EventsMatchBlocks

LEMMA InitIInv == Init => IInv
<1> SUFFICES ASSUME Init PROVE IInv
  OBVIOUS
<1>1. Start \in Nat \ {0}
  BY StoreAssumption
<1>2. DOMAIN blocks = {} /\ Start..cursor = {}
  BY <1>1 DEF Init
<1>3. TypeOK
  BY <1>1, <1>2 DEF Init, TypeOK
<1>4. StoredChain
  BY <1>1, <1>2 DEF Init, StoredChain
<1>5. EventsMatchBlocks
  BY <1>2 DEF Init, EventsMatchBlocks
<1> QED
  BY <1>3, <1>4, <1>5 DEF IInv

LEMMA CommitBlockIInv ==
  ASSUME IInv, NEW b \in Blocks, NEW logs \in Deliveries(b.logs), CommitBlock(b, logs)
  PROVE  IInv'
<1> DEFINE header == [hash |-> b.hash, parent |-> b.parent]
<1>1. /\ Start \in Nat \ {0} /\ b.number \in Nat /\ b.number >= Start /\ b.hash # NoHash
      /\ cursor \in Nat /\ cursor >= Start - 1 /\ DOMAIN blocks = Start..cursor
  BY StoreAssumption DEF IInv, TypeOK
<1>2. /\ b.number = cursor + 1 /\ cursor' = b.number /\ cursorHash' = b.hash
      /\ cursorHash # NoHash => cursorHash = b.parent
  BY DEF CommitBlock, Extends
<1>3. /\ DOMAIN blocks' = Start..cursor'
      /\ blocks'[b.number] = header
      /\ \A n \in Start..cursor : blocks'[n] = blocks[n]
  <2>1. Start..cursor' = (Start..cursor) \union {b.number}
    BY <1>1, <1>2
  <2>2. blocks' = [n \in DOMAIN blocks \union {b.number} |->
                     IF n = b.number THEN header ELSE blocks[n]]
    BY DEF CommitBlock
  <2>3. b.number \notin Start..cursor
    BY <1>1, <1>2
  <2> HIDE DEF header
  <2> QED
    BY <1>1, <2>1, <2>2, <2>3
<1>4. events' = events \union ToSet(b.logs)
  <2>1. b.logs \in Seq([number : {b.number}, hash : {b.hash}, index : Nat])
    BY StoreAssumption
  <2>2. ToSet(logs) = ToSet(b.logs)
    BY <2>1, SameLogs
  <2> QED
    BY <2>2 DEF CommitBlock
<1>5. TypeOK'
  <2>1. cursor' \in Nat /\ cursor' >= Start - 1 /\ cursorHash' \in Hashes \union {NoHash}
    BY <1>1, <1>2 DEF Hashes
  <2>2. \A n \in DOMAIN blocks' : \E c \in Blocks :
          c.number = n /\ blocks'[n] = [hash |-> c.hash, parent |-> c.parent]
    <3> SUFFICES ASSUME NEW n \in DOMAIN blocks'
                 PROVE  \E c \in Blocks :
                          c.number = n /\ blocks'[n] = [hash |-> c.hash, parent |-> c.parent]
      OBVIOUS
    <3>1. CASE n = b.number
      BY <3>1, <1>3
    <3>2. CASE n # b.number
      <4>1. n \in Start..cursor
        BY <3>2, <1>1, <1>2, <1>3
      <4> QED
        BY <4>1, <1>1, <1>3 DEF IInv, TypeOK
    <3> QED
      BY <3>1, <3>2
  <2>3. events' \subseteq Logs
    BY <1>4 DEF IInv, TypeOK, Logs
  <2> QED
    BY <2>1, <2>2, <2>3, <1>3 DEF TypeOK, Hashes, Logs
<1>6. StoredChain'
  <2>1. cursorHash' = blocks'[cursor'].hash /\ cursor' >= Start
    BY <1>1, <1>2, <1>3
  <2>2. \A n \in DOMAIN blocks' : n > Start => blocks'[n].parent = blocks'[n - 1].hash
    <3> SUFFICES ASSUME NEW n \in DOMAIN blocks', n > Start
                 PROVE  blocks'[n].parent = blocks'[n - 1].hash
      OBVIOUS
    <3>1. n - 1 \in Start..cursor
      BY <1>1, <1>2, <1>3
    <3>2. blocks'[n - 1] = blocks[n - 1]
      BY <3>1, <1>3
    <3>3. CASE n = b.number
      <4>1. n - 1 = cursor /\ cursor >= Start
        BY <3>1, <3>3, <1>1, <1>2
      <4>2. cursorHash = blocks[cursor].hash
        BY <4>1 DEF IInv, StoredChain
      <4>3. cursorHash # NoHash
        <5>1. PICK c \in Blocks : blocks[cursor] = [hash |-> c.hash, parent |-> c.parent]
          BY <4>1, <3>1, <1>1 DEF IInv, TypeOK
        <5> QED
          BY <5>1, <4>2, StoreAssumption
      <4> QED
        BY <3>2, <3>3, <4>1, <4>2, <4>3, <1>2, <1>3
    <3>4. CASE n # b.number
      <4>1. n \in Start..cursor
        BY <3>4, <1>1, <1>2, <1>3
      <4>2. blocks[n].parent = blocks[n - 1].hash
        BY <4>1, <1>1 DEF IInv, StoredChain
      <4> QED
        BY <4>1, <4>2, <3>2, <1>3
    <3> QED
      BY <3>3, <3>4
  <2> QED
    BY <1>3, <2>1, <2>2 DEF StoredChain
<1>7. EventsMatchBlocks'
  <2>1. \A c \in Blocks : Stored(c)' <=> Stored(c) \/ c = b
    <3> SUFFICES ASSUME NEW c \in Blocks PROVE Stored(c)' <=> Stored(c) \/ c = b
      OBVIOUS
    <3>1. CASE c.number = b.number
      <4>1. Stored(c)' <=> c.hash = b.hash
        BY <3>1, <1>1, <1>2, <1>3 DEF Stored
      <4>2. ~Stored(c)
        BY <3>1, <1>1, <1>2 DEF Stored
      <4> QED
        BY <4>1, <4>2, StoreAssumption
    <3>2. CASE c.number # b.number
      <4>1. c.number \in Start..cursor' <=> c.number \in Start..cursor
        BY <3>2, <1>1, <1>2, StoreAssumption
      <4> QED
        BY <3>2, <4>1, <1>1, <1>3 DEF Stored
    <3> QED
      BY <3>1, <3>2
  <2>2. events = UNION {ToSet(c.logs) : c \in {d \in Blocks : Stored(d)}}
    BY DEF IInv, EventsMatchBlocks, Stored
  <2>3. events' = UNION {ToSet(c.logs) : c \in {d \in Blocks : Stored(d)'}}
    BY <2>1, <2>2, <1>4
  <2> QED
    BY <2>3 DEF EventsMatchBlocks, Stored
<1> QED
  BY <1>5, <1>6, <1>7 DEF IInv

LEMMA RewindIInv ==
  ASSUME IInv, NEW ancestor \in {Start - 1} \union {b.number : b \in Blocks}, Rewind(ancestor)
  PROVE  IInv'
<1>1. /\ Start \in Nat \ {0} /\ ancestor \in Nat /\ ancestor >= Start - 1
      /\ cursor \in Nat /\ cursor >= Start - 1 /\ DOMAIN blocks = Start..cursor
  BY StoreAssumption DEF IInv, TypeOK
<1>2. ancestor <= cursor
  BY <1>1 DEF Rewind
<1>3. /\ DOMAIN blocks' = Start..cursor' /\ cursor' = ancestor
      /\ \A n \in Start..ancestor : n \in Start..cursor /\ blocks'[n] = blocks[n]
      /\ cursorHash' = IF ancestor >= Start THEN blocks[ancestor].hash ELSE NoHash
  <2>1. RetainedHeaders(ancestor) = Start..ancestor
    BY <1>1, <1>2 DEF RetainedHeaders
  <2> QED
    BY <2>1, <1>1, <1>2 DEF Rewind
<1>4. TypeOK'
  <2>1. \A n \in DOMAIN blocks' : \E c \in Blocks :
          c.number = n /\ blocks'[n] = [hash |-> c.hash, parent |-> c.parent]
    BY <1>1, <1>3 DEF IInv, TypeOK
  <2>2. cursorHash' \in Hashes \union {NoHash}
    <3>1. CASE ancestor >= Start
      <4>1. ancestor \in Start..ancestor
        BY <3>1, <1>1
      <4>2. PICK c \in Blocks : blocks[ancestor] = [hash |-> c.hash, parent |-> c.parent]
        BY <4>1, <1>1, <1>3 DEF IInv, TypeOK
      <4> QED
        BY <3>1, <4>2, <1>3 DEF Hashes
    <3>2. CASE ~(ancestor >= Start)
      BY <3>2, <1>3
    <3> QED
      BY <3>1, <3>2
  <2>3. events' \subseteq Logs
    BY DEF IInv, TypeOK, Rewind, RetainedEvents
  <2> QED
    BY <1>1, <1>3, <2>1, <2>2, <2>3 DEF TypeOK, Hashes, Logs
<1>5. StoredChain'
  <2>1. \A n \in DOMAIN blocks' : n > Start => blocks'[n].parent = blocks'[n - 1].hash
    <3> SUFFICES ASSUME NEW n \in DOMAIN blocks', n > Start
                 PROVE  blocks'[n].parent = blocks'[n - 1].hash
      OBVIOUS
    <3>1. n \in Start..ancestor /\ n - 1 \in Start..ancestor
      BY <1>1, <1>3
    <3>2. blocks[n].parent = blocks[n - 1].hash
      BY <3>1, <1>1, <1>3 DEF IInv, StoredChain
    <3> QED
      BY <3>1, <3>2, <1>3
  <2>2. cursorHash' = IF cursor' >= Start THEN blocks'[cursor'].hash ELSE NoHash
    BY <1>1, <1>3
  <2> QED
    BY <1>3, <2>1, <2>2 DEF StoredChain
<1>6. EventsMatchBlocks'
  <2>1. \A c \in Blocks : Stored(c)' <=> Stored(c) /\ c.number <= ancestor
    BY <1>1, <1>2, <1>3, StoreAssumption DEF Stored
  <2>2. events = UNION {ToSet(c.logs) : c \in {d \in Blocks : Stored(d)}}
    BY DEF IInv, EventsMatchBlocks, Stored
  <2>3. events' = {e \in events : e.number <= ancestor}
    BY DEF Rewind, RetainedEvents
  <2>4. events' = UNION {ToSet(c.logs) : c \in {d \in Blocks : Stored(d)'}}
    BY <2>1, <2>2, <2>3, LogsOfBlock
  <2> QED
    BY <2>4 DEF EventsMatchBlocks, Stored
<1> QED
  BY <1>4, <1>5, <1>6 DEF IInv

LEMMA NextIInv == IInv /\ [Next]_vars => IInv'
<1> SUFFICES ASSUME IInv, [Next]_vars PROVE IInv'
  OBVIOUS
<1>1. ASSUME NEW b \in Blocks, NEW logs \in Deliveries(b.logs), CommitBlock(b, logs) PROVE IInv'
  BY <1>1, CommitBlockIInv
<1>2. ASSUME NEW ancestor \in {Start - 1} \union {b.number : b \in Blocks}, Rewind(ancestor)
      PROVE  IInv'
  BY <1>2, RewindIInv
<1>3. CASE UNCHANGED vars
  BY <1>3 DEF vars, IInv, TypeOK, StoredChain, EventsMatchBlocks, Hashes, Logs
<1>4. ASSUME NEW b \in Blocks, CommitAgain(b) PROVE IInv'
  BY <1>3, <1>4 DEF CommitAgain
<1> QED
  BY <1>1, <1>2, <1>3, <1>4 DEF Next

THEOREM StoreInvariant == Spec => []IInv
BY InitIInv, NextIInv, PTL DEF Spec

\* The tables are well typed in every reachable state.
THEOREM TypeCorrectness == Spec => []TypeOK
<1>1. IInv => TypeOK
  BY DEF IInv
<1> QED
  BY <1>1, StoreInvariant, PTL

\* Whatever the order of commits, repeated commits and rewinds, and however many
\* writers make them, the stored blocks are one parent-linked chain.
THEOREM OneChain == Spec => []StoredChain
<1>1. IInv => StoredChain
  BY DEF IInv
<1> QED
  BY <1>1, StoreInvariant, PTL

\* No event of an abandoned block survives, and none of a stored one is missing.
THEOREM NoOrphanEvents == Spec => []EventsMatchBlocks
<1>1. IInv => EventsMatchBlocks
  BY DEF IInv
<1> QED
  BY <1>1, StoreInvariant, PTL

\* Both together: commits, repeated commits and rewinds of any number of writers
\* never mix two forks, in the headers or in the events.
THEOREM TablesHoldOneHistory == Spec => []OneHistory
BY OneChain, NoOrphanEvents, PTL DEF OneHistory

-----------------------------------------------------------------------------
(* What a commit applies                                                   *)

\* A minimal element of a set of numbers.
LEMMA Least ==
  ASSUME NEW S \in SUBSET Nat, S # {}
  PROVE  \E n \in S : \A m \in S : n <= m
<1>1. PICK n \in S : \A m \in S : ~(<<m, n>> \in OpToRel(<, Nat))
  BY NatLessThanWellFounded, WFMin
<1>2. \A m \in S : ~(m < n)
  BY <1>1 DEF OpToRel
<1> QED BY <1>2

\* One step of the loop over the logs that are delivered.
Applies(f, sent, k) ==
  IF k = 0 THEN << >>
  ELSE IF sent[k] \in events \union {sent[j] : j \in 1..(k - 1)} THEN f[k - 1]
  ELSE Append(f[k - 1], sent[k])

\* If the loop can be unrolled to g, it gives g's last value.
LEMMA Unrolled ==
  ASSUME NEW sent, Len(sent) \in Nat, NEW g,
         g = [k \in 0..Len(sent) |-> Applies(g, sent, k)]
  PROVE  NewLogs(sent) = g[Len(sent)]
<1> DEFINE applied == CHOOSE f : f = [k \in 0..Len(sent) |->
                        IF k = 0 THEN << >>
                        ELSE IF sent[k] \in events \union {sent[j] : j \in 1..(k - 1)} THEN f[k - 1]
                        ELSE Append(f[k - 1], sent[k])]
<1>1. NewLogs(sent) = applied[Len(sent)]
  BY DEF NewLogs
<1>2. \E f : f = [k \in 0..Len(sent) |->
               IF k = 0 THEN << >>
               ELSE IF sent[k] \in events \union {sent[j] : j \in 1..(k - 1)} THEN f[k - 1]
               ELSE Append(f[k - 1], sent[k])]
  BY DEF Applies
<1>3. applied = [k \in 0..Len(sent) |-> Applies(applied, sent, k)]
  BY <1>2, Zenon DEF Applies
<1> HIDE DEF applied
<1> DEFINE bad == {k \in 0..Len(sent) : applied[k] # g[k]}
<1>4. bad = {}
  <2> SUFFICES ASSUME bad # {} PROVE FALSE
    OBVIOUS
  <2>1. PICK n \in bad : \A m \in bad : n <= m
    <3>1. bad \in SUBSET Nat
      OBVIOUS
    <3> QED BY <3>1, Least
  <2>2. applied[n] = Applies(applied, sent, n) /\ g[n] = Applies(g, sent, n)
    BY <1>3
  <2>3. CASE n = 0
    BY <2>1, <2>2, <2>3 DEF Applies
  <2>4. CASE n # 0
    <3>1. n - 1 \in 0..Len(sent) /\ n - 1 \notin bad
      BY <2>1, <2>4
    <3>2. applied[n - 1] = g[n - 1]
      BY <3>1
    <3> QED BY <2>1, <2>2, <2>4, <3>2 DEF Applies
  <2> QED BY <2>3, <2>4
<1> QED BY <1>1, <1>4

\* Logs that differ and are new are applied once each, in their order.
LEMMA AllApplied ==
  ASSUME NEW T, NEW logs \in Seq(T), \A i \in 1..Len(logs) : logs[i] \notin events,
         \A i, j \in 1..Len(logs) : i # j => logs[i] # logs[j], NEW sent \in Deliveries(logs)
  PROVE  NewLogs(sent) = logs
<1>1. PICK d \in Nat : Repeats(sent, logs, d)
  BY Delivered
<1>2. sent \in Seq(T) /\ Len(sent) \in Nat /\ Len(logs) \in Nat
  <2>1. sent \in Seq(T)
    BY Delivered
  <2> QED BY <2>1
<1> DEFINE Done(k) == SubSeq(logs, 1, Source(k, d))
           g == [k \in 0..Len(sent) |-> Done(k)]
<1>3. ASSUME NEW n \in 1..Len(logs)
      PROVE  SubSeq(logs, 1, n) = Append(SubSeq(logs, 1, n - 1), logs[n])
  <2>1. /\ SubSeq(logs, 1, n) \in Seq(T) /\ SubSeq(logs, 1, n - 1) \in Seq(T)
        /\ Len(SubSeq(logs, 1, n)) = n /\ Len(SubSeq(logs, 1, n - 1)) = n - 1
        /\ \A i \in 1..n : SubSeq(logs, 1, n)[i] = logs[i]
        /\ \A i \in 1..(n - 1) : SubSeq(logs, 1, n - 1)[i] = logs[i]
    BY <1>2
  <2>2. logs[n] \in T
    BY <1>2
  <2> DEFINE longer == Append(SubSeq(logs, 1, n - 1), logs[n])
  <2>3. /\ longer \in Seq(T) /\ Len(longer) = n /\ longer[n] = logs[n]
        /\ \A i \in 1..(n - 1) : longer[i] = logs[i]
    <3>1. /\ longer \in Seq(T) /\ Len(longer) = Len(SubSeq(logs, 1, n - 1)) + 1
          /\ \A i \in 1..Len(SubSeq(logs, 1, n - 1)) : longer[i] = SubSeq(logs, 1, n - 1)[i]
          /\ longer[Len(SubSeq(logs, 1, n - 1)) + 1] = logs[n]
      BY <2>1, <2>2, AppendProperties
    <3> HIDE DEF longer
    <3> QED BY <1>2, <2>1, <3>1
  <2> HIDE DEF longer
  <2>4. \A i \in 1..n : i \in 1..(n - 1) \/ i = n
    BY <1>2
  <2>5. \A i \in 1..n : SubSeq(logs, 1, n)[i] = longer[i]
    BY <2>1, <2>3, <2>4
  <2>6. SubSeq(logs, 1, n) = longer
    BY <2>1, <2>3, <2>5, SeqEqual
  <2> QED BY <2>6 DEF longer
<1>4. ASSUME NEW k \in 1..Len(sent)
      PROVE  Done(k) = IF sent[k] \in events \union {sent[j] : j \in 1..(k - 1)} THEN Done(k - 1)
                       ELSE Append(Done(k - 1), sent[k])
  <2>1. /\ Source(k, d) \in 1..Len(logs) /\ sent[k] = logs[Source(k, d)]
        /\ \A j \in 1..(k - 1) : Source(j, d) \in 1..Len(logs) /\ sent[j] = logs[Source(j, d)]
    BY <1>1, <1>2 DEF Repeats, Source
  <2>2. sent[k] \notin events
    BY <2>1
  <2>3. CASE k = d + 1
    <3>1. d \in 1..(k - 1) /\ Source(d, d) = d /\ Source(k, d) = d /\ Source(k - 1, d) = d
      BY <1>1, <1>2, <2>3 DEF Repeats, Source
    <3>2. sent[k] = sent[d]
      BY <2>1, <3>1
    <3> QED BY <3>1, <3>2
  <2>4. CASE k # d + 1
    <3>1. /\ Source(k - 1, d) = Source(k, d) - 1
          /\ \A j \in 1..(k - 1) : Source(j, d) # Source(k, d)
      BY <1>2, <2>4 DEF Source
    <3>2. \A j \in 1..(k - 1) : sent[j] # sent[k]
      BY <2>1, <3>1
    <3>3. Done(k) = Append(Done(k - 1), sent[k])
      BY <1>3, <2>1, <3>1
    <3> QED BY <2>2, <3>2, <3>3
  <2> QED BY <2>3, <2>4
<1>5. Done(0) = << >>
  <2>1. Source(0, d) = 0
    BY DEF Source
  <2> QED BY <2>1
<1> HIDE DEF Done
<1>6. \A k \in 0..Len(sent) : g[k] = Applies(g, sent, k)
  <2> SUFFICES ASSUME NEW k \in 0..Len(sent) PROVE g[k] = Applies(g, sent, k)
    OBVIOUS
  <2>1. CASE k = 0
    BY <1>5, <2>1 DEF Applies
  <2>2. CASE k # 0
    <3>1. k \in 1..Len(sent) /\ k - 1 \in 0..Len(sent)
      BY <1>2, <2>2
    <3>2. g[k] = Done(k) /\ g[k - 1] = Done(k - 1)
      BY <3>1
    <3> HIDE DEF g
    <3> QED BY <1>4, <2>2, <3>1, <3>2 DEF Applies
  <2> QED BY <2>1, <2>2
<1>7. g = [k \in 0..Len(sent) |-> Applies(g, sent, k)]
  <2>1. g = [k \in 0..Len(sent) |-> g[k]]
    OBVIOUS
  <2> HIDE DEF g
  <2> QED BY <1>6, <2>1
<1>8. NewLogs(sent) = g[Len(sent)]
  <2> HIDE DEF g
  <2> QED BY <1>2, <1>7, Unrolled
<1>9. g[Len(sent)] = SubSeq(logs, 1, Len(logs))
  <2>1. Source(Len(sent), d) = Len(logs)
    BY <1>1, <1>2 DEF Repeats, Source
  <2> QED BY <1>2, <2>1 DEF Done
<1> QED BY <1>2, <1>8, <1>9

-----------------------------------------------------------------------------
(* Rows in replay order                                                    *)

\* The first n logs: n of them, if the logs are different.
FirstLogs(logs, n) == {logs[j] : j \in 1..n}

LEMMA CountLogs ==
  ASSUME NEW T, NEW logs \in Seq(T), \A i, j \in 1..Len(logs) : i # j => logs[i] # logs[j],
         NEW n \in 0..Len(logs)
  PROVE  IsFiniteSet(FirstLogs(logs, n)) /\ Cardinality(FirstLogs(logs, n)) = n
<1> DEFINE S == {logs[j] : j \in 1..n}
           f == [j \in 1..n |-> logs[j]]
<1>1. Len(logs) \in Nat
  OBVIOUS
<1>2. f \in Bijection(1..n, S)
  <2>1. f \in [1..n -> S]
    OBVIOUS
  <2>2. \A i, j \in 1..n : f[i] = f[j] => i = j
    BY <1>1
  <2>3. \A e \in S : \E j \in 1..n : f[j] = e
    OBVIOUS
  <2> HIDE DEF S, f
  <2> QED BY <2>1, <2>2, <2>3 DEF Bijection, Injection, Surjection, IsInjective
<1>3. IsFiniteSet(1..n) /\ Cardinality(1..n) = n
  <2>1. 1 \in Int /\ n \in Int /\ n >= 0
    BY <1>1
  <2>2. IsFiniteSet(1..n) /\ Cardinality(1..n) = IF 1 > n THEN 0 ELSE n - 1 + 1
    BY <2>1, FS_Interval
  <2> QED BY <2>1, <2>2
<1>4. ExistsBijection(1..n, S)
  BY <1>2 DEF ExistsBijection
<1> HIDE DEF S, f
<1>5. IsFiniteSet(S) /\ Cardinality(S) = n
  BY <1>3, <1>4, FS_Bijection
<1> QED BY <1>5 DEF S, FirstLogs

\* How many rows are replayed before e.
Rank(e, rows) == Cardinality({f \in rows : Before(f, e)})

InOrder(rows, list) ==
  /\ IsFiniteSet(rows) /\ list \in Seq(rows) /\ Len(list) = Cardinality(rows)
  /\ \A k \in 1..Len(list) : Rank(list[k], rows) = k - 1
  /\ \A e, f \in rows : Rank(e, rows) = Rank(f, rows) => e = f

\* A list of rows by their ranks is what Replay gives.
LEMMA ReplayIs ==
  ASSUME NEW rows, NEW list, InOrder(rows, list)
  PROVE  Replay(rows) = list
<1>1. Len(list) = Cardinality(rows) /\ Len(list) \in Nat /\ list \in Seq(rows)
  BY DEF InOrder
<1>2. ASSUME NEW k \in 1..Len(list)
      PROVE  (CHOOSE e \in rows : Cardinality({f \in rows : Before(f, e)}) = k - 1) = list[k]
  <2>1. list[k] \in rows /\ Rank(list[k], rows) = k - 1
    BY <1>1 DEF InOrder
  <2>2. \A e \in rows : Rank(e, rows) = k - 1 => e = list[k]
    BY <2>1 DEF InOrder
  <2>3. (CHOOSE e \in rows : Rank(e, rows) = k - 1) = list[k]
    BY <2>1, <2>2
  <2> QED BY <2>3 DEF Rank
<1>3. Replay(rows) = [k \in 1..Len(list) |-> list[k]]
  BY <1>1, <1>2, Zenon DEF Replay
<1> QED BY <1>1, <1>3

LEMMA NoRows == InOrder({}, << >>)
BY FS_EmptySet DEF InOrder

\* Logs that come after every row go to the end.
LEMMA RowsAdded ==
  ASSUME NEW rows, NEW list, InOrder(rows, list), NEW T, NEW logs \in Seq(T),
         \A e \in rows : ~Before(e, e),
         \A e \in rows, i \in 1..Len(logs) : Before(e, logs[i]) /\ ~Before(logs[i], e),
         \A i, j \in 1..Len(logs) : Before(logs[i], logs[j]) <=> i < j
  PROVE  InOrder(rows \union ToSet(logs), list \o logs)
<1> DEFINE more == rows \union ToSet(logs)
           size == Cardinality(rows)
<1>0. logs \in Seq(T)
  OBVIOUS
<1>1. /\ list \in Seq(rows) /\ Len(list) = size /\ size \in Nat /\ Len(logs) \in Nat
      /\ IsFiniteSet(rows)
  BY DEF InOrder
<1>2. ToSet(logs) = {logs[j] : j \in 1..Len(logs)} /\ ToSet(logs) = FirstLogs(logs, Len(logs))
  BY DEF ToSet, FirstLogs
<1>3. \A i, j \in 1..Len(logs) : i # j => logs[i] # logs[j]
  <2> SUFFICES ASSUME NEW i \in 1..Len(logs), NEW j \in 1..Len(logs), i # j
               PROVE  logs[i] # logs[j]
    OBVIOUS
  <2>1. i < j \/ j < i
    BY <1>1
  <2>2. ~(i < i) /\ ~(j < j)
    BY <1>1
  <2> QED BY <2>1, <2>2
<1>4. \A e \in rows : e \notin ToSet(logs)
  <2> SUFFICES ASSUME NEW e \in rows, NEW i \in 1..Len(logs), e = logs[i] PROVE FALSE
    BY <1>2
  <2> QED OBVIOUS
<1>5. IsFiniteSet(more) /\ Cardinality(more) = size + Len(logs)
  <2>1. IsFiniteSet(ToSet(logs)) /\ Cardinality(ToSet(logs)) = Len(logs)
    <3>1. Len(logs) \in 0..Len(logs)
      BY <1>1
    <3>2. /\ IsFiniteSet(FirstLogs(logs, Len(logs)))
          /\ Cardinality(FirstLogs(logs, Len(logs))) = Len(logs)
      BY <1>0, <1>3, <3>1, CountLogs
    <3> HIDE DEF more, size
    <3> QED BY ONLY <1>2, <3>2
  <2>2. rows \cap ToSet(logs) = {}
    BY <1>4
  <2>3. Cardinality(rows \cap ToSet(logs)) = 0
    BY <2>2, FS_EmptySet
  <2>4. /\ IsFiniteSet(more)
        /\ Cardinality(more) = size + Cardinality(ToSet(logs)) - Cardinality(rows \cap ToSet(logs))
    BY <1>1, <2>1, FS_Union
  <2> QED BY <1>1, <2>1, <2>3, <2>4
<1>6. \A e \in rows : Rank(e, more) = Rank(e, rows) /\ Rank(e, more) < size
  <2> SUFFICES ASSUME NEW e \in rows PROVE Rank(e, more) = Rank(e, rows) /\ Rank(e, more) < size
    OBVIOUS
  <2>1. {f \in more : Before(f, e)} = {f \in rows : Before(f, e)}
    BY <1>2
  <2>2. Rank(e, rows) < size
    <3> DEFINE before == {f \in rows : Before(f, e)}
    <3>1. before \in SUBSET rows /\ before # rows
      OBVIOUS
    <3>2. Cardinality(before) <= size /\ Cardinality(before) # size /\ Cardinality(before) \in Nat
      <4> HIDE DEF before
      <4> QED BY <1>1, <3>1, FS_Subset, FS_CardinalityType
    <3> QED BY <1>1, <3>2 DEF Rank
  <2> QED BY <2>1, <2>2 DEF Rank
<1>7. \A i \in 1..Len(logs) : Rank(logs[i], more) = size + i - 1
  <2> SUFFICES ASSUME NEW i \in 1..Len(logs) PROVE Rank(logs[i], more) = size + i - 1
    OBVIOUS
  <2> DEFINE earlier == FirstLogs(logs, i - 1)
  <2>0. earlier = {logs[j] : j \in 1..(i - 1)}
    BY DEF FirstLogs
  <2> HIDE DEF earlier
  <2>1. {f \in more : Before(f, logs[i])} = rows \union earlier
    <3>1. \A j \in 1..Len(logs) : j < i <=> j \in 1..(i - 1)
      BY <1>1
    <3>2. \A j \in 1..(i - 1) : j \in 1..Len(logs)
      BY <1>1
    <3> QED BY <1>2, <2>0, <3>1, <3>2
  <2>2. IsFiniteSet(earlier) /\ Cardinality(earlier) = i - 1
    <3>1. i - 1 \in 0..Len(logs)
      BY <1>1
    <3> QED BY <1>0, <1>3, <3>1, CountLogs DEF earlier
  <2>3. rows \cap earlier = {}
    <3>1. \A j \in 1..(i - 1) : j \in 1..Len(logs)
      BY <1>1
    <3> QED BY <1>2, <1>4, <2>0, <3>1
  <2>4. Cardinality(rows \cap earlier) = 0
    BY <2>3, FS_EmptySet
  <2>5. Cardinality(rows \union earlier)
          = size + Cardinality(earlier) - Cardinality(rows \cap earlier)
    BY <1>1, <2>2, FS_Union
  <2>6. Rank(logs[i], more) = Cardinality(rows \union earlier)
    BY <2>1 DEF Rank
  <2>7. Cardinality(rows \union earlier) = size + (i - 1) - 0
    BY <2>2, <2>4, <2>5
  <2> HIDE DEF more, size
  <2> QED BY <1>1, <2>6, <2>7
<1> DEFINE longer == list \o logs
<1>8. /\ longer \in Seq(more) /\ Len(longer) = size + Len(logs)
      /\ \A k \in 1..size : longer[k] = list[k]
      /\ \A i \in 1..Len(logs) : longer[size + i] = logs[i]
  <2>1. list \in Seq(more) /\ logs \in Seq(more)
    <3>1. list \in Seq(more)
      BY <1>1
    <3>2. \A i \in 1..Len(logs) : logs[i] \in more
      BY <1>2
    <3>3. logs \in Seq(more)
      BY <3>2
    <3> QED BY <3>1, <3>3
  <2> HIDE DEF more
  <2>2. /\ longer \in Seq(more) /\ Len(longer) = Len(list) + Len(logs)
        /\ \A k \in 1..(Len(list) + Len(logs)) :
             longer[k] = IF k <= Len(list) THEN list[k] ELSE logs[k - Len(list)]
    BY <2>1, ConcatProperties
  <2> HIDE DEF longer
  <2>3. \A k \in 1..size : longer[k] = list[k]
    BY <1>1, <2>2
  <2>4. ASSUME NEW i \in 1..Len(logs) PROVE longer[size + i] = logs[i]
    <3>1. size + i \in 1..(size + Len(logs)) /\ ~(size + i <= size) /\ (size + i) - size = i
      BY <1>1
    <3> QED BY <1>1, <2>2, <3>1
  <2> QED BY <1>1, <2>2, <2>3, <2>4
<1> HIDE DEF longer, more, size
<1>9. \A k \in 1..Len(longer) : Rank(longer[k], more) = k - 1
  <2> SUFFICES ASSUME NEW k \in 1..Len(longer) PROVE Rank(longer[k], more) = k - 1
    OBVIOUS
  <2>1. CASE k <= size
    <3>1. k \in 1..size /\ list[k] \in rows
      BY <1>1, <1>8, <2>1
    <3>2. Rank(list[k], rows) = k - 1
      BY <1>1, <3>1 DEF InOrder
    <3> QED BY <1>6, <1>8, <3>1, <3>2
  <2>2. CASE k > size
    <3>1. k - size \in 1..Len(logs) /\ size + (k - size) = k
      BY <1>1, <1>8, <2>2
    <3>2. longer[k] = logs[k - size] /\ Rank(logs[k - size], more) = size + (k - size) - 1
      BY <1>7, <1>8, <3>1
    <3>3. size + (k - size) - 1 = k - 1
      BY <1>1, <1>8
    <3> QED BY <3>2, <3>3
  <2> QED BY <1>1, <1>8, <2>1, <2>2
<1>10. \A e, f \in more : Rank(e, more) = Rank(f, more) => e = f
  <2> SUFFICES ASSUME NEW e \in more, NEW f \in more, Rank(e, more) = Rank(f, more)
               PROVE  e = f
    OBVIOUS
  <2>1. \A x \in more : x \in rows \/ \E i \in 1..Len(logs) : x = logs[i]
    BY <1>2 DEF more
  <2>2. CASE e \in rows /\ f \in rows
    BY <1>6, <2>2 DEF InOrder
  <2>3. \A x, y \in more : x \in rows /\ y \notin rows => Rank(x, more) # Rank(y, more)
    <3> SUFFICES ASSUME NEW x \in rows, NEW i \in 1..Len(logs)
                 PROVE  Rank(x, more) # Rank(logs[i], more)
      BY <2>1
    <3>1. Rank(x, more) < size /\ Rank(logs[i], more) = size + i - 1
      BY <1>6, <1>7
    <3>2. size + i - 1 >= size
      BY <1>1
    <3>3. Rank(x, more) # Rank(logs[i], more)
      BY <1>1, <3>1, <3>2
    <3> QED BY <3>3
  <2>4. CASE e \notin rows /\ f \notin rows
    <3>1. PICK i \in 1..Len(logs) : e = logs[i]
      BY <2>1, <2>4
    <3>2. PICK j \in 1..Len(logs) : f = logs[j]
      BY <2>1, <2>4
    <3>3. size + i - 1 = size + j - 1
      BY <1>7, <3>1, <3>2
    <3>4. i = j
      BY <1>1, <3>3
    <3> QED BY <3>1, <3>2, <3>4
  <2> QED BY <2>2, <2>3, <2>4
<1> QED BY <1>5, <1>8, <1>9, <1>10 DEF InOrder, longer, more, size

\* The rows that stay when later ones are removed are the first of the list.
LEMMA RowsRemoved ==
  ASSUME NEW rows, NEW list, InOrder(rows, list), NEW kept \in SUBSET rows,
         \A e \in kept, f \in rows \ kept : Before(e, f) /\ ~Before(f, e)
  PROVE  InOrder(kept, SubSeq(list, 1, Cardinality(kept)))
<1> DEFINE size == Cardinality(rows)
           left == Cardinality(kept)
           shorter == SubSeq(list, 1, left)
<1>1. /\ list \in Seq(rows) /\ Len(list) = size /\ size \in Nat /\ IsFiniteSet(rows)
  BY DEF InOrder
<1>2. IsFiniteSet(kept) /\ left \in Nat /\ left <= size
  BY <1>1, FS_Subset, FS_CardinalityType
<1>3. \A e \in kept : Rank(e, kept) = Rank(e, rows)
  <2> SUFFICES ASSUME NEW e \in kept PROVE Rank(e, kept) = Rank(e, rows)
    OBVIOUS
  <2>1. {f \in kept : Before(f, e)} = {f \in rows : Before(f, e)}
    OBVIOUS
  <2> QED BY <2>1 DEF Rank
<1>4. \A f \in rows \ kept : Rank(f, rows) \in Nat /\ Rank(f, rows) >= left
  <2> SUFFICES ASSUME NEW f \in rows \ kept
               PROVE  Rank(f, rows) \in Nat /\ Rank(f, rows) >= left
    OBVIOUS
  <2> DEFINE before == {e \in rows : Before(e, f)}
  <2>1. kept \in SUBSET before /\ before \in SUBSET rows
    OBVIOUS
  <2>2. IsFiniteSet(before)
    <3> HIDE DEF before
    <3> QED BY <1>1, <2>1, FS_Subset
  <2>3. Cardinality(before) \in Nat /\ left <= Cardinality(before)
    <3> HIDE DEF before
    <3> QED BY <2>1, <2>2, FS_Subset, FS_CardinalityType
  <2> QED BY <1>2, <2>3 DEF Rank
<1> HIDE DEF left, size
<1>5. /\ Len(shorter) = left /\ \A k \in 1..left : shorter[k] = list[k]
      /\ \A k \in 1..left : k \in 1..Len(list)
  BY <1>1, <1>2
<1>6. \A k \in 1..left : list[k] \in kept
  <2> SUFFICES ASSUME NEW k \in 1..left, list[k] \notin kept PROVE FALSE
    OBVIOUS
  <2>1. list[k] \in rows /\ Rank(list[k], rows) = k - 1
    BY <1>1, <1>5 DEF InOrder
  <2>2. k - 1 >= left
    BY <1>4, <2>1
  <2> QED BY <1>2, <2>2
<1>7. shorter \in Seq(kept)
  <2>1. shorter = [k \in 1..left |-> list[k]]
    BY <1>1, <1>2
  <2> HIDE DEF shorter
  <2> QED BY <1>2, <1>6, <2>1
<1> HIDE DEF shorter
<1>8. \A k \in 1..Len(shorter) : Rank(shorter[k], kept) = k - 1
  <2> SUFFICES ASSUME NEW k \in 1..left PROVE Rank(shorter[k], kept) = k - 1
    BY <1>5
  <2>1. shorter[k] = list[k] /\ list[k] \in kept /\ k \in 1..Len(list)
    BY <1>5, <1>6
  <2>2. Rank(list[k], rows) = k - 1
    BY <2>1 DEF InOrder
  <2> QED BY <1>3, <2>1, <2>2
<1>9. \A e, f \in kept : Rank(e, kept) = Rank(f, kept) => e = f
  BY <1>3 DEF InOrder
<1>10. InOrder(kept, shorter)
  BY <1>2, <1>5, <1>7, <1>8, <1>9 DEF InOrder, left
<1> QED BY <1>10 DEF shorter, left

-----------------------------------------------------------------------------
(* The projections                                                         *)

\* The projections hold the events in replay order.
Projected == InOrder(events, draws)

\* A stored event is of a stored block.
LEMMA StoredEvents ==
  ASSUME IInv, NEW e \in events
  PROVE  /\ e.number \in Nat /\ e.number <= cursor /\ e.index \in Nat /\ ~Before(e, e)
<1>1. PICK b \in Blocks : Stored(b) /\ e \in ToSet(b.logs)
  BY DEF IInv, EventsMatchBlocks, Stored
<1>2. e.number = b.number /\ e.index \in Nat
  BY <1>1, LogsOfBlock
<1>3. b.number \in Start..cursor /\ Start \in Nat /\ cursor \in Nat
  BY <1>1, StoreAssumption DEF IInv, TypeOK, Stored
<1> QED BY <1>2, <1>3 DEF Before

LEMMA CommitProjected ==
  ASSUME IInv, Projected, NEW b \in Blocks, NEW sent \in Deliveries(b.logs), CommitBlock(b, sent)
  PROVE  Projected'
<1> DEFINE logs == b.logs
           OfBlock == [number : {b.number}, hash : {b.hash}, index : Nat]
<1>1. /\ logs \in Seq(OfBlock) /\ b.number \in Nat
      /\ \A i, j \in DOMAIN logs : i < j => logs[i].index < logs[j].index
  BY StoreAssumption
<1>2. DOMAIN logs = 1..Len(logs) /\ Len(logs) \in Nat
  BY <1>1
<1>3. \A i \in 1..Len(logs) : logs[i].number = b.number /\ logs[i].index \in Nat
  <2> SUFFICES ASSUME NEW i \in 1..Len(logs)
               PROVE  logs[i].number = b.number /\ logs[i].index \in Nat
    OBVIOUS
  <2>1. logs[i] \in ToSet(logs)
    BY <1>2 DEF ToSet
  <2> QED BY <2>1, LogsOfBlock
<1> HIDE DEF logs, OfBlock
<1>4. b.number = cursor + 1 /\ cursor \in Nat
  BY DEF CommitBlock, Extends, IInv, TypeOK
<1>5. \A i, j \in 1..Len(logs) : Before(logs[i], logs[j]) <=> i < j
  <2> SUFFICES ASSUME NEW i \in 1..Len(logs), NEW j \in 1..Len(logs)
               PROVE  Before(logs[i], logs[j]) <=> i < j
    OBVIOUS
  <2>1. Before(logs[i], logs[j]) <=> logs[i].index < logs[j].index
    BY <1>1, <1>3 DEF Before
  <2>2. i < j => logs[i].index < logs[j].index
    BY <1>1, <1>2
  <2>3. j < i => logs[j].index < logs[i].index
    BY <1>1, <1>2
  <2>4. i = j \/ i < j \/ j < i
    BY <1>2
  <2>5. logs[i].index \in Nat /\ logs[j].index \in Nat
    BY <1>3
  <2> QED BY <1>2, <2>1, <2>2, <2>3, <2>4, <2>5
<1>6. \A e \in events : ~Before(e, e)
  BY StoredEvents
<1>7. \A e \in events, i \in 1..Len(logs) : Before(e, logs[i]) /\ ~Before(logs[i], e)
  <2> SUFFICES ASSUME NEW e \in events, NEW i \in 1..Len(logs)
               PROVE  Before(e, logs[i]) /\ ~Before(logs[i], e)
    OBVIOUS
  <2>1. e.number \in Nat /\ e.number < logs[i].number /\ logs[i].number \in Nat
    BY <1>1, <1>3, <1>4, StoredEvents
  <2> QED BY <2>1 DEF Before
<1>8. \A i \in 1..Len(logs) : logs[i] \notin events
  BY <1>6, <1>7
<1>9. \A i, j \in 1..Len(logs) : i # j => logs[i] # logs[j]
  <2> SUFFICES ASSUME NEW i \in 1..Len(logs), NEW j \in 1..Len(logs), i # j
               PROVE  logs[i] # logs[j]
    OBVIOUS
  <2>1. i < j \/ j < i
    BY <1>2
  <2>2. ~(i < i) /\ ~(j < j)
    BY <1>2
  <2> QED BY <1>5, <2>1, <2>2
<1>10. sent \in Deliveries(logs)
  BY DEF logs
<1>11. NewLogs(sent) = logs /\ ToSet(sent) = ToSet(logs)
  BY <1>1, <1>8, <1>9, <1>10, AllApplied, SameLogs
<1>12. events' = events \union ToSet(logs) /\ draws' = draws \o logs
  BY <1>11 DEF CommitBlock
<1>13. InOrder(events \union ToSet(logs), draws \o logs)
  BY <1>1, <1>5, <1>6, <1>7, RowsAdded DEF Projected
<1> QED BY <1>12, <1>13 DEF Projected

LEMMA RewindProjected ==
  ASSUME IInv, Projected, NEW ancestor \in {Start - 1} \union {b.number : b \in Blocks},
         Rewind(ancestor)
  PROVE  Projected'
<1> DEFINE kept == RetainedEvents(ancestor)
<1>1. ancestor \in Nat
  BY StoreAssumption
<1>2. \A e \in kept, f \in events \ kept : Before(e, f) /\ ~Before(f, e)
  <2> SUFFICES ASSUME NEW e \in kept, NEW f \in events \ kept
               PROVE  Before(e, f) /\ ~Before(f, e)
    OBVIOUS
  <2>1. e \in events /\ e.number <= ancestor /\ f \in events /\ ~(f.number <= ancestor)
    BY DEF RetainedEvents
  <2>2. e.number \in Nat /\ f.number \in Nat
    BY <2>1, StoredEvents
  <2> QED BY <1>1, <2>1, <2>2 DEF Before
<1>3. kept \in SUBSET events
  BY DEF RetainedEvents
<1> HIDE DEF kept
<1>4. InOrder(kept, SubSeq(draws, 1, Cardinality(kept)))
  BY <1>2, <1>3, RowsRemoved DEF Projected
<1>5. events' = kept /\ draws' = Replay(kept)
  BY DEF Rewind, kept
<1>6. draws' = SubSeq(draws, 1, Cardinality(kept))
  BY <1>4, <1>5, ReplayIs
<1> QED BY <1>4, <1>5, <1>6 DEF Projected

LEMMA ProjectedKept == IInv /\ Projected /\ [Next]_vars => Projected'
<1> SUFFICES ASSUME IInv, Projected, [Next]_vars PROVE Projected'
  OBVIOUS
<1>1. ASSUME NEW b \in Blocks, NEW logs \in Deliveries(b.logs), CommitBlock(b, logs)
      PROVE  Projected'
  BY <1>1, CommitProjected
<1>2. ASSUME NEW ancestor \in {Start - 1} \union {b.number : b \in Blocks}, Rewind(ancestor)
      PROVE  Projected'
  BY <1>2, RewindProjected
<1>3. CASE UNCHANGED vars
  BY <1>3 DEF vars, Projected
<1>4. ASSUME NEW b \in Blocks, CommitAgain(b) PROVE Projected'
  BY <1>3, <1>4 DEF CommitAgain
<1> QED BY <1>1, <1>2, <1>3, <1>4 DEF Next

\* The projections are the replay of the stored events: each log was applied
\* once, and in chain order, whatever was delivered twice, committed again or
\* rolled back, and in whatever order the writers came.
THEOREM ProjectionsAreReplays == Spec => []ProjectionIsReplay
<1>1. Init => Projected
  BY NoRows DEF Init, Projected
<1>2. Projected => ProjectionIsReplay
  BY ReplayIs DEF Projected, ProjectionIsReplay
<1> QED BY <1>1, <1>2, ProjectedKept, StoreInvariant, PTL DEF Spec
===============================================================================
