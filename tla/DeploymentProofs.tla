--------------------------- MODULE DeploymentProofs ---------------------------
(***************************************************************************)
(* Proofs about what brings the system up and down: SepoliaDeploy, the     *)
(* deployment script; LocalStack, the scripts that start and stop the      *)
(* local services; and BackendLife, the backend processes that replace     *)
(* each other.  For any number of crashes, failures, deaths, ports taken,  *)
(* processes and requests.                                                 *)
(***************************************************************************)
EXTENDS SepoliaDeploy, LocalStack, BackendLife, SequenceTheorems, FiniteSetTheorems, TLAPS

-----------------------------------------------------------------------------
(* The deployment script                                                   *)

Transactions == [label : Labels, args : Seq(Nat), state : {"pending", "ok", "failed"}]

DeployTypes ==
  /\ txs \in Seq(Transactions)
  /\ memo \in [Labels -> Nat]
  /\ pc \in 0..10 /\ at \in {"idle", "look", "sent", "wait", "done"}
  /\ at \in {"look", "sent", "wait"} => pc \in 1..9

\* The process and the disk hold the same checkpoint.
SameCheckpoint == file = memo

\* Unless a hash was lost, a transaction that was sent is the one on file for
\* its label, or the one that is about to be saved, the first of its label.
EachOnFile ==
  lost = {} =>
    \A i \in 1..Len(txs) :
      \/ memo[txs[i].label] = i
      \/ at = "sent" /\ i = Len(txs) /\ txs[i].label = Label /\ memo[Label] = 0

NotYetSaved == at = "sent" => Len(txs) > 0 /\ txs[Len(txs)].label = Label

DeployInv == DeployTypes /\ SameCheckpoint /\ EachOnFile /\ NotYetSaved

LEMMA LabelIsLabel == ASSUME NEW n \in 1..9 PROVE Steps[n] \in Labels
BY DEF Steps, Labels

LEMMA StepsLength == Len(Steps) = 9
BY DEF Steps

LEMMA ArgsType ==
  ASSUME NEW label \in Labels, NEW m \in [Labels -> Nat]
  PROVE  Args(label, m) \in Seq(Nat)
<1>1. /\ m["createSubscription"] \in Nat /\ m["deployMockUSD8"] \in Nat
      /\ m["deployVRFProvider"] \in Nat /\ m["deployDLottery"] \in Nat
  BY LabelIsLabel DEF Labels, Steps
<1> QED BY <1>1 DEF Args

LEMMA DeployInit == Init => DeployInv
<1> SUFFICES ASSUME Init PROVE DeployInv
  OBVIOUS
<1>1. txs = <<>> /\ memo \in [Labels -> Nat] /\ file = memo /\ pc = 0 /\ at = "idle"
  BY DEF Init
<1>2. txs \in Seq(Transactions) /\ Len(txs) = 0
  BY <1>1
<1> QED BY <1>1, <1>2 DEF DeployInv, DeployTypes, SameCheckpoint, EachOnFile, NotYetSaved

LEMMA DeployStep == DeployInv /\ [Next]_vars => DeployInv'
<1> SUFFICES ASSUME DeployInv, [Next]_vars PROVE DeployInv'
  OBVIOUS
<1> USE DEF DeployInv, SameCheckpoint
<1>1. CASE Mine
  <2>1. PICK i \in 1..Len(txs) : \E s \in {"ok", "failed"} : txs' = [txs EXCEPT ![i].state = s]
    BY <1>1 DEF Mine
  <2>2. PICK s \in {"ok", "failed"} : txs' = [txs EXCEPT ![i].state = s]
    BY <2>1
  <2>3. UNCHANGED <<file, memo, pc, at, lost>>
    BY <1>1 DEF Mine
  <2> DEFINE new == [txs[i] EXCEPT !.state = s]
  <2>4. txs \in Seq(Transactions) /\ txs[i] \in Transactions /\ Len(txs) \in Nat
    BY DEF DeployTypes
  <2>5. new \in Transactions /\ new.label = txs[i].label
    BY <2>4 DEF Transactions
  <2>6. txs' = [txs EXCEPT ![i] = new]
    BY <2>2
  <2>7. /\ txs' \in Seq(Transactions) /\ Len(txs') = Len(txs)
        /\ \A j \in 1..Len(txs) : txs'[j].label = txs[j].label
    BY <2>4, <2>5, <2>6
  <2>8. DeployTypes'
    BY <2>3, <2>7 DEF DeployTypes
  <2>9. NotYetSaved'
    BY <2>3, <2>4, <2>7 DEF NotYetSaved, Label
  <2>10. EachOnFile'
    BY <2>3, <2>4, <2>7 DEF EachOnFile, Label
  <2> QED BY <2>3, <2>8, <2>9, <2>10
<1>2. CASE Start
  <2>1. /\ pc = 0 /\ pc' = 1 /\ at' = "look" /\ memo' = memo /\ file' = memo
        /\ UNCHANGED <<txs, lost>>
    BY <1>2 DEF Start
  <2>2. at # "sent"
    BY <2>1 DEF DeployTypes
  <2> QED BY <2>1, <2>2 DEF DeployTypes, EachOnFile, NotYetSaved
<1>3. CASE Skip
  BY <1>3, StepsLength DEF Skip, DeployTypes, EachOnFile, NotYetSaved, Label
<1>4. CASE Resume
  BY <1>4 DEF Resume, DeployTypes, EachOnFile, NotYetSaved, Label
<1>5. CASE Send
  <2>1. pc \in 1..9 /\ Label \in Labels
    BY <1>5, LabelIsLabel DEF Send, DeployTypes, Label
  <2>2. UNCHANGED <<file, memo, lost>>
    BY <1>5 DEF Send
  <2>3. CASE Reverts(Label, Args(Label, memo))
    <3>1. pc' = 0 /\ at' = "idle" /\ UNCHANGED txs /\ at = "look"
      BY <1>5, <2>3 DEF Send, Stop
    <3>2. DeployTypes' /\ NotYetSaved'
      BY <2>2, <3>1 DEF DeployTypes, NotYetSaved
    <3>3. EachOnFile'
      BY <2>2, <3>1 DEF EachOnFile
    <3> QED BY <2>2, <3>2, <3>3
  <2>4. CASE ~Reverts(Label, Args(Label, memo))
    <3> DEFINE new == [label |-> Label, args |-> Args(Label, memo), state |-> "pending"]
    <3>1. txs' = Append(txs, new) /\ at' = "sent" /\ pc' = pc /\ at = "look" /\ memo[Label] = 0
      BY <1>5, <2>4 DEF Send, OnFile
    <3>2. new \in Transactions /\ new.label = Label
      BY <2>1, ArgsType DEF DeployTypes, Transactions
    <3>3. /\ txs' \in Seq(Transactions) /\ Len(txs') = Len(txs) + 1 /\ Len(txs) \in Nat
          /\ txs'[Len(txs) + 1].label = Label
          /\ \A i \in 1..Len(txs) : txs'[i] = txs[i]
      BY <3>1, <3>2 DEF DeployTypes
    <3>4. Label' = Label
      BY <3>1 DEF Label
    <3> QED BY <2>1, <2>2, <3>1, <3>3, <3>4 DEF DeployTypes, EachOnFile, NotYetSaved
  <2> QED BY <2>3, <2>4
<1>6. CASE Save
  <2>1. /\ at = "sent" /\ at' = "wait" /\ UNCHANGED <<txs, pc, lost>>
        /\ memo' = [memo EXCEPT ![Label] = Len(txs)] /\ file' = memo'
    BY <1>6 DEF Save, Saved
  <2>2. Label \in Labels /\ Len(txs) \in Nat /\ \A i \in 1..Len(txs) : txs[i].label \in Labels
    <3>1. pc \in 1..9 /\ Len(txs) \in Nat /\ \A i \in 1..Len(txs) : txs[i] \in Transactions
      BY <2>1 DEF DeployTypes
    <3>2. Label \in Labels
      BY <3>1, LabelIsLabel DEF Label
    <3> QED BY <3>1, <3>2 DEF Transactions
  <2>3. memo' \in [Labels -> Nat] /\ memo'[Label] = Len(txs)
        /\ \A l \in Labels \ {Label} : memo'[l] = memo[l]
    BY <2>1, <2>2 DEF DeployTypes
  <2>4. DeployTypes' /\ NotYetSaved'
    BY <2>1, <2>3 DEF DeployTypes, NotYetSaved
  <2>5. ASSUME lost = {}, NEW i \in 1..Len(txs) PROVE memo'[txs[i].label] = i
    <3>1. CASE memo[txs[i].label] = i
      <4>1. txs[Len(txs)].label = Label /\ Len(txs) > 0
        BY <2>1 DEF NotYetSaved
      <4>2. memo[Label] = 0 \/ memo[Label] = Len(txs)
        BY <2>2, <2>5, <4>1 DEF EachOnFile
      <4>3. CASE txs[i].label = Label
        BY <2>2, <2>3, <3>1, <4>2, <4>3
      <4>4. CASE txs[i].label # Label
        BY <2>2, <2>3, <3>1, <4>4
      <4> QED BY <4>3, <4>4
    <3>2. CASE i = Len(txs) /\ txs[i].label = Label
      BY <2>3, <3>2
    <3> QED BY <2>5, <3>1, <3>2 DEF EachOnFile
  <2>6. EachOnFile'
    BY <2>1, <2>5 DEF EachOnFile
  <2> QED BY <2>1, <2>4, <2>6
<1>7. CASE Confirmed
  <2>1. /\ at = "wait" /\ pc' = pc + 1 /\ file' = memo /\ UNCHANGED <<txs, memo, lost>>
        /\ at' = IF pc < 9 THEN "look" ELSE "done"
    BY <1>7, StepsLength DEF Confirmed
  <2>2. DeployTypes' /\ NotYetSaved'
    BY <2>1 DEF DeployTypes, NotYetSaved
  <2>3. EachOnFile'
    BY <2>1 DEF EachOnFile
  <2> QED BY <2>1, <2>2, <2>3
<1>8. CASE GiveUp
  BY <1>8 DEF GiveUp, Stop, DeployTypes, EachOnFile, NotYetSaved
<1>9. CASE WriteManifest
  BY <1>9 DEF WriteManifest, Stop, DeployTypes, EachOnFile, NotYetSaved
<1>10. CASE Crash
  <2>1. /\ pc' = 0 /\ at' = "idle" /\ UNCHANGED <<txs, file, memo>>
        /\ lost' = IF at = "sent" THEN lost \union {Len(txs)} ELSE lost
    BY <1>10 DEF Crash, Stop
  <2>2. lost' = {} => lost = {} /\ at # "sent"
    BY <2>1
  <2>3. DeployTypes' /\ NotYetSaved'
    BY <2>1 DEF DeployTypes, NotYetSaved
  <2>4. EachOnFile'
    BY <2>1, <2>2 DEF EachOnFile
  <2> QED BY <2>1, <2>3, <2>4
<1>11. CASE UNCHANGED vars
  BY <1>11 DEF vars, DeployTypes, EachOnFile, NotYetSaved, Label
<1> QED
  BY <1>1, <1>2, <1>3, <1>4, <1>5, <1>6, <1>7, <1>8, <1>9, <1>10, <1>11 DEF Next

LEMMA DeployAlways == Spec => []DeployInv
BY DeployInit, DeployStep, PTL DEF Spec

\* However often the deployment is interrupted, gives up waiting or is run
\* again, no label is sent twice unless a process died between sending and
\* saving (deploy-sepolia.mjs:47-61).
THEOREM NothingSentTwice == Spec => []SentOnce
<1>1. DeployInv => SentOnce
  <2> SUFFICES ASSUME DeployInv, lost = {}, NEW label \in Labels
               PROVE  Cardinality({i \in 1..Len(txs) : txs[i].label = label}) <= 1
    BY DEF SentOnce
  <2> DEFINE sent == {i \in 1..Len(txs) : txs[i].label = label}
  <2>1. \A i, j \in sent : i = j
    <3>1. SUFFICES ASSUME NEW i \in sent, NEW j \in sent PROVE i = j
      OBVIOUS
    <3>2. i \in 1..Len(txs) /\ j \in 1..Len(txs) /\ txs[i].label = label /\ txs[j].label = label
          /\ Len(txs) \in Nat
      BY DEF DeployInv, DeployTypes
    <3>3. i # 0 /\ j # 0
      BY <3>2
    <3>4. /\ memo[label] = i \/ (i = Len(txs) /\ label = Label /\ memo[Label] = 0)
          /\ memo[label] = j \/ (j = Len(txs) /\ label = Label /\ memo[Label] = 0)
      BY <3>2 DEF DeployInv, EachOnFile
    <3> QED BY <3>3, <3>4
  <2>2. CASE sent = {}
    <3>1. Cardinality({}) = 0
      BY FS_EmptySet
    <3> HIDE DEF sent
    <3>2. Cardinality(sent) <= 1
      BY <2>2, <3>1
    <3> QED BY <3>2 DEF sent
  <2>3. CASE \E i \in sent : sent = {i}
    <3>1. PICK i \in sent : sent = {i}
      BY <2>3
    <3>2. Cardinality({i}) = 1
      BY FS_Singleton
    <3> HIDE DEF sent
    <3>3. Cardinality(sent) <= 1
      BY <3>1, <3>2
    <3> QED BY <3>3 DEF sent
  <2>4. sent = {} \/ \E i \in sent : sent = {i}
    <3> HIDE DEF sent
    <3> QED BY <2>1
  <2> QED BY <2>2, <2>3, <2>4
<1> QED BY <1>1, DeployAlways, PTL

-----------------------------------------------------------------------------
(* The manifest names contracts that belong together                        *)

Given(label) ==
  \/ label = "createSubscription" /\ "subscription" \in given
  \/ label \in {"deployMockUSD8", "mintDeployer"} /\ "token" \in given

\* Every step before step n is given, is the funding, which may have failed, or
\* is on file with a transaction that succeeded.
PassedBefore(n) ==
  \A k \in 1..n - 1 :
    \/ Given(Steps[k])
    \/ k = 2
    \/ memo[Steps[k]] # 0 /\ Ok(memo[Steps[k]])

\* What a step on file was sent as: its arguments are still those that the
\* checkpoint gives today.
OnFileAs(n) ==
  LET tx == memo[Steps[n]]
  IN tx \in 1..Len(txs) /\ txs[tx].label = Steps[n] /\ txs[tx].args = Args(Steps[n], memo)

FileInOrder ==
  \A n \in 1..9 : memo[Steps[n]] # 0 => ~Given(Steps[n]) /\ PassedBefore(n) /\ OnFileAs(n)

RunInOrder ==
  /\ at # "idle" => PassedBefore(pc)
  /\ at = "sent" => memo[Label] = 0 /\ ~Given(Label) /\ txs[Len(txs)].args = Args(Label, memo)
  /\ at = "wait" => memo[Label] # 0
  /\ at = "done" => pc = 10

ManifestInOrder ==
  manifest # NoManifest => pc = 0 /\ at = "idle" /\ manifest = memo /\ PassedBefore(10)

WorksInv == DeployInv /\ FileInOrder /\ RunInOrder /\ ManifestInOrder

LEMMA StepNames ==
  /\ Steps[1] = "createSubscription" /\ Steps[2] = "fundSubscription"
  /\ Steps[3] = "deployMockUSD8" /\ Steps[4] = "deployVRFProvider"
  /\ Steps[5] = "deployDLottery" /\ Steps[6] = "bindLottery" /\ Steps[7] = "addConsumer"
  /\ Steps[8] = "startDraw" /\ Steps[9] = "mintDeployer"
BY DEF Steps

LEMMA StepsDiffer == ASSUME NEW i \in 1..9, NEW j \in 1..9, Steps[i] = Steps[j] PROVE i = j
BY StepNames

\* Every label is the name of a step.
LEMMA EveryLabelIsAStep == ASSUME NEW label \in Labels PROVE \E n \in 1..9 : label = Steps[n]
BY StepsLength DEF Labels

\* A step names contracts of earlier steps only.
LEMMA ArgsKept ==
  ASSUME NEW n \in 1..9, NEW m \in [Labels -> Nat], NEW m2 \in [Labels -> Nat],
         \A k \in {1, 3, 4, 5} : k < n => m2[Steps[k]] = m[Steps[k]]
  PROVE  Args(Steps[n], m2) = Args(Steps[n], m)
<1>1. CASE n \in {1, 3, 9}
  BY <1>1, StepNames DEF Args
<1>2. CASE n \in {2, 4, 7}
  BY <1>2, StepNames DEF Args
<1>3. CASE n = 5
  BY <1>3, StepNames DEF Args
<1>4. CASE n \in {6, 8}
  BY <1>4, StepNames DEF Args
<1> QED BY <1>1, <1>2, <1>3, <1>4

\* Transactions may be sent and may be included: what is there keeps its label
\* and arguments, and a success is not undone.
TxsGrow ==
  /\ Len(txs) <= Len(txs')
  /\ \A i \in 1..Len(txs) :
       /\ txs'[i].label = txs[i].label /\ txs'[i].args = txs[i].args
       /\ Ok(i) => Ok(i)'

LEMMA FileKept ==
  ASSUME DeployTypes, DeployTypes', FileInOrder, TxsGrow, memo' = memo, given' = given
  PROVE  /\ FileInOrder'
         /\ \A n \in 1..10 : PassedBefore(n) => PassedBefore(n)'
<1>1. ASSUME NEW n \in 1..9, memo[Steps[n]] # 0
      PROVE  memo[Steps[n]] \in 1..Len(txs) /\ memo[Steps[n]] \in 1..Len(txs')
  <2>1. memo[Steps[n]] \in 1..Len(txs)
    BY <1>1 DEF FileInOrder, OnFileAs
  <2>2. Len(txs) \in Nat /\ Len(txs') \in Nat /\ Len(txs) <= Len(txs')
    BY DEF DeployTypes, TxsGrow
  <2> QED BY <2>1, <2>2
<1>2. ASSUME NEW n \in 1..10, PassedBefore(n), NEW k \in 1..n - 1
      PROVE  (Given(Steps[k]) \/ k = 2 \/ (memo[Steps[k]] # 0 /\ Ok(memo[Steps[k]])))'
  <2>1. k \in 1..9
    OBVIOUS
  <2>2. Given(Steps[k]) \/ k = 2 \/ (memo[Steps[k]] # 0 /\ Ok(memo[Steps[k]]))
    BY <1>2 DEF PassedBefore
  <2>3. CASE Given(Steps[k]) \/ k = 2
    BY <2>3 DEF Given
  <2>4. CASE memo[Steps[k]] # 0 /\ Ok(memo[Steps[k]])
    <3>1. memo[Steps[k]] \in 1..Len(txs)
      BY <1>1, <2>1, <2>4
    <3>2. txs'[memo[Steps[k]]].state = "ok"
      BY <2>4, <3>1 DEF TxsGrow, Ok
    <3> QED BY <2>4, <3>2 DEF Ok
  <2> QED BY <2>2, <2>3, <2>4
<1>3. \A n \in 1..10 : PassedBefore(n) => PassedBefore(n)'
  BY <1>2 DEF PassedBefore
<1>4. ASSUME NEW n \in 1..9, memo'[Steps[n]] # 0
      PROVE  (~Given(Steps[n]) /\ PassedBefore(n) /\ OnFileAs(n))'
  <2>1. ~Given(Steps[n]) /\ PassedBefore(n) /\ OnFileAs(n)
    BY <1>4 DEF FileInOrder
  <2>2. (~Given(Steps[n]) /\ PassedBefore(n))'
    BY <1>3, <2>1 DEF Given
  <2>3. Args(Steps[n], memo)' = Args(Steps[n], memo)
    BY DEF Args
  <2>4. OnFileAs(n)'
    BY <1>1, <1>4, <2>1, <2>3 DEF OnFileAs, TxsGrow
  <2> QED BY <2>2, <2>4
<1> QED BY <1>3, <1>4 DEF FileInOrder

\* A new hash goes on file for a step that had none: whatever is on file for
\* another step was sent without it.
LEMMA SaveKeepsOrder ==
  ASSUME WorksInv, Save
  PROVE  FileInOrder' /\ PassedBefore(pc)'
<1>1. /\ at = "sent" /\ UNCHANGED <<given, txs, pc>> /\ pc \in 1..9
      /\ memo' = [memo EXCEPT ![Label] = Len(txs)]
      /\ memo \in [Labels -> Nat] /\ txs \in Seq(Transactions)
  BY DEF Save, WorksInv, DeployInv, DeployTypes
<1>2. /\ memo[Label] = 0 /\ ~Given(Label) /\ txs[Len(txs)].args = Args(Label, memo)
      /\ Len(txs) > 0 /\ txs[Len(txs)].label = Label /\ PassedBefore(pc) /\ FileInOrder
  BY <1>1 DEF WorksInv, DeployInv, RunInOrder, NotYetSaved
<1>3. Label = Steps[pc] /\ Label \in Labels /\ Len(txs) \in Nat
      /\ \A n \in 1..9 : Steps[n] \in Labels
  <2>1. \A n \in 1..9 : Steps[n] \in Labels
    BY LabelIsLabel
  <2>2. Label = Steps[pc]
    BY DEF Label
  <2>3. Len(txs) \in Nat
    BY <1>1
  <2> QED BY <1>1, <2>1, <2>2, <2>3
<1>4. /\ memo' \in [Labels -> Nat] /\ memo'[Steps[pc]] = Len(txs)
      /\ \A n \in 1..9 : n # pc => memo'[Steps[n]] = memo[Steps[n]]
  BY <1>1, <1>3, StepsDiffer
<1>5. ASSUME NEW n \in 1..9, PassedBefore(n) PROVE PassedBefore(n)'
  <2> SUFFICES ASSUME NEW k \in 1..n - 1
               PROVE  (Given(Steps[k]) \/ k = 2 \/ (memo[Steps[k]] # 0 /\ Ok(memo[Steps[k]])))'
    BY DEF PassedBefore
  <2>1. k \in 1..9
    OBVIOUS
  <2>2. Given(Steps[k]) \/ k = 2 \/ (memo[Steps[k]] # 0 /\ Ok(memo[Steps[k]]))
    BY <1>5 DEF PassedBefore
  <2>3. CASE Given(Steps[k]) \/ k = 2
    BY <1>1, <2>3 DEF Given
  <2>4. CASE memo[Steps[k]] # 0 /\ Ok(memo[Steps[k]])
    <3>1. k # pc
      BY <1>2, <1>3, <2>4
    <3>2. memo'[Steps[k]] = memo[Steps[k]]
      BY <1>4, <2>1, <3>1
    <3> QED BY <1>1, <2>4, <3>2 DEF Ok
  <2> QED BY <2>2, <2>3, <2>4
<1>6. ASSUME NEW n \in 1..9, n = pc \/ memo[Steps[n]] # 0
      PROVE  Args(Steps[n], memo)' = Args(Steps[n], memo)
  <2>1. PassedBefore(n)
    BY <1>2, <1>6 DEF FileInOrder
  <2>2. ASSUME NEW k \in {1, 3, 4, 5}, k < n PROVE memo'[Steps[k]] = memo[Steps[k]]
    <3>1. CASE k # pc
      <4>1. k \in 1..9
        OBVIOUS
      <4> QED BY <1>4, <3>1, <4>1
    <3>2. CASE k = pc
      <4>1. k \in 1..n - 1
        BY <2>2
      <4>2. Given(Steps[k]) \/ memo[Steps[k]] # 0
        BY <2>1, <2>2, <4>1 DEF PassedBefore
      <4> QED BY <1>2, <1>3, <3>2, <4>2
    <3> QED BY <3>1, <3>2
  <2>3. Args(Steps[n], memo') = Args(Steps[n], memo)
    BY <1>1, <1>4, <2>2, ArgsKept
  <2> QED BY <2>3 DEF Args
<1>7. ASSUME NEW n \in 1..9, memo'[Steps[n]] # 0
      PROVE  (~Given(Steps[n]) /\ PassedBefore(n) /\ OnFileAs(n))'
  <2>1. CASE n = pc
    <3>1. (~Given(Steps[n]) /\ PassedBefore(n))'
      BY <1>1, <1>2, <1>3, <1>5, <2>1 DEF Given
    <3>2. Args(Steps[n], memo)' = txs[Len(txs)].args
      BY <1>2, <1>3, <1>6, <2>1
    <3>3. OnFileAs(n)'
      BY <1>1, <1>2, <1>3, <1>4, <2>1, <3>2 DEF OnFileAs
    <3> QED BY <3>1, <3>3
  <2>2. CASE n # pc
    <3>1. memo'[Steps[n]] = memo[Steps[n]]
      BY <1>4, <2>2
    <3>2. ~Given(Steps[n]) /\ PassedBefore(n) /\ OnFileAs(n)
      BY <1>2, <1>7, <3>1 DEF FileInOrder
    <3>3. (~Given(Steps[n]) /\ PassedBefore(n))'
      BY <1>1, <1>5, <3>2 DEF Given
    <3>4. Args(Steps[n], memo)' = Args(Steps[n], memo)
      BY <1>6, <1>7, <3>1
    <3>5. OnFileAs(n)'
      BY <1>1, <3>1, <3>2, <3>4 DEF OnFileAs
    <3> QED BY <3>3, <3>5
  <2> QED BY <2>1, <2>2
<1> QED BY <1>1, <1>2, <1>5, <1>7 DEF FileInOrder

LEMMA WorksStart == Init => WorksInv
<1> SUFFICES ASSUME Init PROVE WorksInv
  OBVIOUS
<1>1. /\ memo = [label \in Labels |-> 0] /\ manifest = NoManifest /\ at = "idle"
      /\ DeployInv
  BY DeployInit DEF Init
<1>2. FileInOrder
  BY <1>1, LabelIsLabel DEF FileInOrder
<1>3. RunInOrder /\ ManifestInOrder
  BY <1>1 DEF RunInOrder, ManifestInOrder
<1> QED BY <1>1, <1>2, <1>3 DEF WorksInv

\* What a step leaves behind that does not write the checkpoint.
LEMMA WorksKept ==
  ASSUME WorksInv, DeployInv', TxsGrow, memo' = memo, given' = given
  PROVE  /\ FileInOrder'
         /\ \A n \in 1..10 : PassedBefore(n) => PassedBefore(n)'
         /\ UNCHANGED <<manifest, pc, at>> => ManifestInOrder'
<1>1. /\ FileInOrder'
      /\ \A n \in 1..10 : PassedBefore(n) => PassedBefore(n)'
  BY FileKept DEF WorksInv, DeployInv
<1>2. ASSUME UNCHANGED <<manifest, pc, at>> PROVE ManifestInOrder'
  BY <1>1, <1>2 DEF WorksInv, ManifestInOrder, NoManifest
<1> QED BY <1>1, <1>2

LEMMA SameTxsGrow == ASSUME DeployTypes, UNCHANGED txs PROVE TxsGrow
BY DEF DeployTypes, TxsGrow, Ok

LEMMA MineGrows == ASSUME DeployTypes, Mine PROVE TxsGrow
<1>1. PICK i \in 1..Len(txs) :
        /\ txs[i].state = "pending"
        /\ \E s \in {"ok", "failed"} : txs' = [txs EXCEPT ![i].state = s]
  BY DEF Mine
<1>2. PICK s \in {"ok", "failed"} : txs' = [txs EXCEPT ![i].state = s]
  BY <1>1
<1> DEFINE new == [txs[i] EXCEPT !.state = s]
<1>3. txs \in Seq(Transactions) /\ txs[i] \in Transactions /\ Len(txs) \in Nat
  BY DEF DeployTypes
<1>4. new \in Transactions /\ new.label = txs[i].label /\ new.args = txs[i].args
  BY <1>3 DEF Transactions
<1>5. txs' = [txs EXCEPT ![i] = new]
  BY <1>2
<1> HIDE DEF new
<1>6. /\ Len(txs') = Len(txs) /\ txs'[i] = new
      /\ \A j \in 1..Len(txs) : j # i => txs'[j] = txs[j]
  BY <1>3, <1>4, <1>5
<1>7. ASSUME NEW j \in 1..Len(txs)
      PROVE  /\ txs'[j].label = txs[j].label /\ txs'[j].args = txs[j].args
             /\ Ok(j) => Ok(j)'
  <2>1. CASE j = i
    BY <1>1, <1>4, <1>6, <2>1 DEF Ok
  <2>2. CASE j # i
    BY <1>6, <2>2 DEF Ok
  <2> QED BY <2>1, <2>2
<1> QED BY <1>3, <1>6, <1>7 DEF TxsGrow

LEMMA WorksStep == WorksInv /\ [Next]_vars => WorksInv'
<1> SUFFICES ASSUME WorksInv, [Next]_vars PROVE WorksInv'
  OBVIOUS
<1> DEFINE NextPassed == \A n \in 1..10 : PassedBefore(n) => PassedBefore(n)'
<1>1. DeployInv /\ DeployInv' /\ DeployTypes /\ DeployTypes'
  BY DeployStep DEF WorksInv, DeployInv
<1>2. /\ at # "idle" => PassedBefore(pc)
      /\ at = "sent" => memo[Label] = 0 /\ ~Given(Label)
                        /\ txs[Len(txs)].args = Args(Label, memo)
      /\ at = "wait" => memo[Label] # 0
      /\ at = "done" => pc = 10
      /\ manifest # NoManifest => pc = 0 /\ at = "idle" /\ manifest = memo /\ PassedBefore(10)
  BY DEF WorksInv, RunInOrder, ManifestInOrder
<1>3. pc \in 0..10 /\ (at \in {"look", "sent", "wait"} => pc \in 1..9)
  BY <1>1 DEF DeployTypes
<1>4. CASE Mine
  <2>1. TxsGrow /\ UNCHANGED <<given, manifest, memo, pc, at>> /\ Len(txs') = Len(txs)
    BY <1>1, <1>4, MineGrows DEF Mine
  <2>2. FileInOrder' /\ NextPassed /\ ManifestInOrder'
    BY <1>1, <2>1, WorksKept
  <2>3. at = "sent" => txs'[Len(txs)].args = txs[Len(txs)].args
    <3>1. at = "sent" => Len(txs) > 0 /\ Len(txs) \in Nat
      BY <1>1 DEF DeployInv, NotYetSaved, DeployTypes
    <3> QED BY <2>1, <3>1 DEF TxsGrow
  <2>4. Args(Label, memo)' = Args(Label, memo) /\ Label' = Label
    BY <2>1 DEF Args, Label
  <2>5. ASSUME at # "idle" PROVE PassedBefore(pc)'
    <3>1. PassedBefore(pc) /\ pc \in 1..10
      BY <1>1, <1>2, <1>3, <2>5 DEF DeployTypes
    <3>2. PICK n \in 1..10 : n = pc
      BY <3>1
    <3>3. PassedBefore(n)'
      BY <2>2, <3>1, <3>2
    <3>4. pc' = n
      BY <2>1, <3>2
    <3> QED BY <3>3, <3>4 DEF PassedBefore
  <2>6. at = "sent" => ~Given(Label)'
    BY <1>2, <2>1, <2>4 DEF Given
  <2>7. RunInOrder'
    BY <1>2, <2>1, <2>3, <2>4, <2>5, <2>6 DEF RunInOrder
  <2> QED BY <1>1, <2>2, <2>7 DEF WorksInv
<1>5. CASE Start
  <2>1. /\ pc = 0 /\ pc' = 1 /\ at' = "look" /\ memo' = memo /\ manifest = NoManifest
        /\ UNCHANGED <<given, txs, manifest>>
    BY <1>1, <1>5 DEF Start, DeployInv, SameCheckpoint
  <2>2. FileInOrder'
    BY <1>1, <2>1, SameTxsGrow, WorksKept
  <2>3. PassedBefore(1)'
    BY DEF PassedBefore
  <2> QED BY <1>1, <2>1, <2>2, <2>3 DEF WorksInv, RunInOrder, ManifestInOrder, NoManifest
<1>6. CASE Skip
  <2>1. /\ at = "look" /\ pc' = pc + 1 /\ at' = IF pc < 9 THEN "look" ELSE "done"
        /\ UNCHANGED <<given, txs, manifest, memo>> /\ Skipped(Label)
    BY <1>6, StepsLength DEF Skip
  <2>2. FileInOrder' /\ NextPassed
    BY <1>1, <2>1, SameTxsGrow, WorksKept
  <2> PICK n \in 1..9 : n = pc
    BY <1>3, <2>1
  <2>3. manifest = NoManifest /\ pc \in 1..9 /\ PassedBefore(n)'
    BY <1>2, <1>3, <2>1, <2>2
  <2>4. Given(Steps[pc]) \/ pc = 2
    <3>1. Steps[2] = "fundSubscription" /\ Steps[pc] = Label
      BY StepNames DEF Label
    <3> QED BY <2>1, <2>3, <3>1, StepsDiffer DEF Skipped, Given
  <2>5. PassedBefore(n + 1)'
    <3>1. Given(Steps[n])' \/ n = 2
      BY <2>1, <2>4 DEF Given
    <3> QED BY <2>3, <3>1 DEF PassedBefore
  <2>6. RunInOrder'
    BY <2>1, <2>3, <2>5 DEF RunInOrder
  <2>7. ManifestInOrder'
    BY <2>1, <2>3 DEF ManifestInOrder, NoManifest
  <2> QED BY <1>1, <2>2, <2>6, <2>7 DEF WorksInv
<1>7. CASE Resume
  <2>1. at = "look" /\ at' = "wait" /\ UNCHANGED <<given, txs, manifest, pc, memo>> /\ memo[Label] # 0
    BY <1>7 DEF Resume, OnFile
  <2>2. FileInOrder' /\ NextPassed
    BY <1>1, <2>1, SameTxsGrow, WorksKept
  <2>3. RunInOrder'
    BY <1>2, <1>3, <2>1, <2>2 DEF RunInOrder, Label
  <2>4. ManifestInOrder'
    BY <1>2, <2>1 DEF ManifestInOrder, NoManifest
  <2> QED BY <1>1, <2>2, <2>3, <2>4 DEF WorksInv
<1>8. CASE Send
  <2>1. /\ at = "look" /\ UNCHANGED <<given, manifest, memo>> /\ ~Skipped(Label)
        /\ memo[Label] = 0 /\ manifest = NoManifest /\ pc \in 1..9
    BY <1>2, <1>3, <1>8 DEF Send, OnFile
  <2>2. ManifestInOrder'
    BY <2>1 DEF ManifestInOrder, NoManifest
  <2>3. CASE Reverts(Label, Args(Label, memo))
    <3>1. at' = "idle" /\ UNCHANGED txs
      BY <1>8, <2>3 DEF Send, Stop
    <3>2. FileInOrder'
      BY <1>1, <2>1, <3>1, SameTxsGrow, WorksKept
    <3> QED BY <1>1, <2>2, <3>1, <3>2 DEF WorksInv, RunInOrder
  <2>4. CASE ~Reverts(Label, Args(Label, memo))
    <3> DEFINE new == [label |-> Label, args |-> Args(Label, memo), state |-> "pending"]
    <3>1. txs' = Append(txs, new) /\ at' = "sent" /\ pc' = pc
      BY <1>8, <2>4 DEF Send
    <3>2. /\ Len(txs') = Len(txs) + 1 /\ Len(txs) \in Nat
          /\ txs'[Len(txs')].args = Args(Label, memo)
          /\ \A i \in 1..Len(txs) : txs'[i] = txs[i]
      BY <1>1, <3>1 DEF DeployTypes
    <3>3. TxsGrow
      BY <3>2 DEF TxsGrow, Ok
    <3>4. FileInOrder' /\ NextPassed
      BY <1>1, <2>1, <3>3, WorksKept
    <3>5. Label' = Label /\ Args(Label, memo)' = Args(Label, memo)
      BY <2>1, <3>1 DEF Label, Args
    <3>6. ~Given(Label)'
      <4>1. ~Given(Label)
        BY <2>1 DEF Skipped, Given
      <4> QED BY <2>1, <3>5, <4>1 DEF Given
    <3>7. PassedBefore(pc)'
      BY <1>2, <2>1, <3>1, <3>4
    <3>8. RunInOrder'
      BY <2>1, <3>1, <3>2, <3>5, <3>6, <3>7 DEF RunInOrder
    <3> QED BY <1>1, <2>2, <3>4, <3>8 DEF WorksInv
  <2> QED BY <2>3, <2>4
<1>9. CASE Save
  <2>1. FileInOrder' /\ PassedBefore(pc)'
    BY <1>9, SaveKeepsOrder
  <2>2. /\ at = "sent" /\ at' = "wait" /\ UNCHANGED <<txs, pc, manifest>>
        /\ memo' = [memo EXCEPT ![Label] = Len(txs)] /\ manifest = NoManifest
    BY <1>2, <1>9 DEF Save
  <2>3. memo'[Label] # 0 /\ Label' = Label
    <3>1. Label \in Labels /\ memo \in [Labels -> Nat] /\ Len(txs) > 0 /\ Label' = Label
      BY <1>1, <1>3, <2>2, LabelIsLabel DEF DeployTypes, DeployInv, NotYetSaved, Label
    <3> QED BY <2>2, <3>1
  <2>4. RunInOrder'
    BY <2>1, <2>2, <2>3 DEF RunInOrder
  <2>5. ManifestInOrder'
    BY <2>2 DEF ManifestInOrder, NoManifest
  <2> QED BY <1>1, <2>1, <2>4, <2>5 DEF WorksInv
<1>10. CASE Confirmed
  <2>1. /\ at = "wait" /\ pc' = pc + 1 /\ at' = IF pc < 9 THEN "look" ELSE "done"
        /\ UNCHANGED <<given, txs, manifest, memo>> /\ Ok(memo[Label])
    BY <1>10, StepsLength DEF Confirmed, Receipt, Ok
  <2>2. FileInOrder' /\ NextPassed
    BY <1>1, <2>1, SameTxsGrow, WorksKept
  <2> PICK n \in 1..9 : n = pc
    BY <1>3, <2>1
  <2>3. manifest = NoManifest /\ pc \in 1..9 /\ PassedBefore(n)' /\ memo[Label] # 0
    BY <1>2, <1>3, <2>1, <2>2
  <2>4. PassedBefore(n + 1)'
    <3>1. (memo[Steps[n]] # 0 /\ Ok(memo[Steps[n]]))'
      BY <2>1, <2>3 DEF Label, Ok
    <3> QED BY <2>3, <3>1 DEF PassedBefore
  <2>5. RunInOrder'
    BY <2>1, <2>3, <2>4 DEF RunInOrder
  <2>6. ManifestInOrder'
    BY <2>1, <2>3 DEF ManifestInOrder, NoManifest
  <2> QED BY <1>1, <2>2, <2>5, <2>6 DEF WorksInv
<1>11. CASE GiveUp
  <2>1. at = "wait" /\ pc' = 0 /\ at' = "idle" /\ UNCHANGED <<given, txs, manifest, memo>>
    BY <1>11 DEF GiveUp, Stop
  <2>2. FileInOrder'
    BY <1>1, <2>1, SameTxsGrow, WorksKept
  <2> QED BY <1>1, <1>2, <2>1, <2>2 DEF WorksInv, RunInOrder, ManifestInOrder, NoManifest
<1>12. CASE WriteManifest
  <2>1. /\ at = "done" /\ manifest' = memo /\ pc' = 0 /\ at' = "idle"
        /\ UNCHANGED <<given, txs, memo>>
    BY <1>12 DEF WriteManifest, Stop
  <2>2. FileInOrder' /\ NextPassed
    BY <1>1, <2>1, SameTxsGrow, WorksKept
  <2>3. PassedBefore(10)'
    BY <1>2, <2>1, <2>2
  <2> QED BY <1>1, <2>1, <2>2, <2>3 DEF WorksInv, RunInOrder, ManifestInOrder
<1>13. CASE Crash
  <2>1. pc # 0 /\ pc' = 0 /\ at' = "idle" /\ UNCHANGED <<given, txs, manifest, memo>>
    BY <1>13 DEF Crash, Stop
  <2>2. FileInOrder'
    BY <1>1, <2>1, SameTxsGrow, WorksKept
  <2> QED BY <1>1, <1>2, <2>1, <2>2 DEF WorksInv, RunInOrder, ManifestInOrder, NoManifest
<1>14. CASE UNCHANGED vars
  <2>1. UNCHANGED <<given, txs, manifest, memo, pc, at>>
    BY <1>14 DEF vars
  <2>2. FileInOrder' /\ NextPassed /\ ManifestInOrder'
    BY <1>1, <2>1, SameTxsGrow, WorksKept
  <2>3. Args(Label, memo)' = Args(Label, memo) /\ Label' = Label
    BY <2>1 DEF Args, Label
  <2>4. ASSUME at # "idle" PROVE PassedBefore(pc)'
    <3>1. PassedBefore(pc) /\ pc \in 1..10
      BY <1>1, <1>2, <1>3, <2>4 DEF DeployTypes
    <3>2. PICK n \in 1..10 : n = pc
      BY <3>1
    <3>3. PassedBefore(n)'
      BY <2>2, <3>1, <3>2
    <3>4. pc' = n
      BY <2>1, <3>2
    <3> QED BY <3>3, <3>4 DEF PassedBefore
  <2>5. at = "sent" => ~Given(Label)'
    BY <1>2, <2>1, <2>3 DEF Given
  <2>6. RunInOrder'
    BY <1>2, <2>1, <2>3, <2>4, <2>5 DEF RunInOrder
  <2> QED BY <1>1, <2>2, <2>6 DEF WorksInv
<1> QED
  BY <1>4, <1>5, <1>6, <1>7, <1>8, <1>9, <1>10, <1>11, <1>12, <1>13, <1>14 DEF Next

LEMMA WorksAlways == Spec => []WorksInv
BY WorksStart, WorksStep, PTL DEF Spec

\* A manifest that was written names contracts that exist and belong together,
\* however often the script died, gave up or sent a transaction twice
\* (deploy-sepolia.mjs:47-61, 63-127, 129-150).
THEOREM ManifestIsWhole == Spec => []ManifestWorks
<1>1. WorksInv => ManifestWorks
  <2> SUFFICES ASSUME WorksInv, manifest # NoManifest PROVE ManifestWorks
    BY DEF ManifestWorks
  <2>1. manifest = memo /\ PassedBefore(10) /\ FileInOrder
    BY DEF WorksInv, ManifestInOrder
  <2>2. ASSUME NEW n \in 4..8
        PROVE  /\ memo[Steps[n]] # 0 /\ Ok(memo[Steps[n]]) /\ memo[Steps[n]] \in 1..Len(txs)
               /\ txs[memo[Steps[n]]].label = Steps[n]
               /\ txs[memo[Steps[n]]].args = Args(Steps[n], memo)
               /\ Did(Steps[n], Args(Steps[n], memo))
    <3>1. n \in 1..10 - 1 /\ n \in 1..9 /\ n # 2
      OBVIOUS
    <3>2. ~Given(Steps[n])
      BY StepNames DEF Given
    <3>3. memo[Steps[n]] # 0 /\ Ok(memo[Steps[n]])
      BY <2>1, <3>1, <3>2 DEF PassedBefore
    <3>4. OnFileAs(n)
      BY <2>1, <3>1, <3>3 DEF FileInOrder
    <3> QED BY <3>3, <3>4 DEF OnFileAs, Did
  <2>3. Args(Steps[4], memo) = <<memo["createSubscription"]>>
    BY StepNames DEF Args
  <2>4. Args(Steps[5], memo) = <<memo["deployMockUSD8"], memo["deployVRFProvider"]>>
    BY StepNames DEF Args
  <2>5. /\ memo["deployVRFProvider"] # 0 /\ Ok(memo["deployVRFProvider"])
        /\ txs[memo["deployVRFProvider"]].args = <<memo["createSubscription"]>>
    <3>1. memo[Steps[4]] # 0 /\ Ok(memo[Steps[4]]) /\ txs[memo[Steps[4]]].args = Args(Steps[4], memo)
      BY <2>2
    <3> QED BY <2>3, <3>1, StepNames
  <2>6. /\ memo["deployDLottery"] # 0 /\ Ok(memo["deployDLottery"])
        /\ txs[memo["deployDLottery"]].args = <<memo["deployMockUSD8"], memo["deployVRFProvider"]>>
    <3>1. memo[Steps[5]] # 0 /\ Ok(memo[Steps[5]]) /\ txs[memo[Steps[5]]].args = Args(Steps[5], memo)
      BY <2>2
    <3> QED BY <2>4, <3>1, StepNames
  <2>7. /\ Did("bindLottery", Args("bindLottery", memo)) /\ Did("addConsumer", Args("addConsumer", memo))
        /\ Did("startDraw", Args("startDraw", memo))
    <3>1. \A n \in 6..8 : Did(Steps[n], Args(Steps[n], memo))
      BY <2>2
    <3> QED BY <3>1, StepNames
  <2> QED BY <2>1, <2>5, <2>6, <2>7 DEF ManifestWorks
<1> QED BY <1>1, WorksAlways, PTL

-----------------------------------------------------------------------------
(* The local stack: what is true of its state                              *)

Processes == [service : Ports, state : {"starting", "serving", "stopping", "gone"}]

Places ==
  {<<"ports", "">>, <<"run", "backend">>, <<"ready", "">>, End}
    \union {<<"spawn", s>> : s \in Ports} \union {<<"wait", s>> : s \in Ports}

StackTypes ==
  /\ place \in Places /\ afterwards \in {End, <<"spawn", "backend">>}
  /\ procs \in Seq(Processes) /\ children \in Seq(Nat) /\ toStop \in Seq(Nat)
  /\ port \in [Ports -> {Free, Foreign} \union (Nat \ {0})]
  /\ restarted \in BOOLEAN /\ deaths \in Nat /\ foreigns \in Nat

AreSpawned(list) == \A i \in 1..Len(list) : list[i] \in 1..Len(procs)

Service(p) == procs[p].service

\* What the script refers to was spawned.
Known ==
  AreSpawned(children) /\ AreSpawned(toStop) /\ \A s \in Ports : port[s] <= Len(procs)

\* What the script has spawned at each point of startStack.
Progress ==
  /\ place \in {<<"ports", "">>, <<"spawn", "db">>} => Len(procs) = 0
  /\ place = <<"wait", "db">> => Len(procs) = 1 /\ Service(1) = "db" /\ children = << >>
  /\ place = <<"spawn", "chain">> => \A p \in 1..Len(procs) : Service(p) = "db"
  /\ place \in {<<"wait", "backend">>, <<"spawn", "web">>, <<"wait", "web">>, <<"ready", "">>} =>
       \E p \in 1..Len(procs) : Service(p) = "backend"

\* What is being stopped when: everything, or the backend alone for the restart.
Stops ==
  /\ place = End => toStop = << >>
  /\ Stopping /\ afterwards # End =>
       restarted /\ place = <<"ready", "">> /\ Len(toStop) = 1 /\ Service(toStop[1]) = "backend"
  /\ restarted => place \in {<<"ready", "">>, <<"spawn", "backend">>, <<"wait", "backend">>, End}
  /\ \A p \in 1..Len(procs) : procs[p].state = "stopping" =>
       place = End \/ (Stopping /\ p = toStop[1])

Listed(list, p) == \E i \in 1..Len(list) : list[i] = p

StopsAll == Stopping /\ afterwards = End

\* No living process is forgotten: it will be stopped, or is among the children,
\* or is the database that has not answered yet.
NoneForgotten ==
  \A p \in 1..Len(procs) : Alive(p) =>
    \/ place = End /\ interrupted
    \/ StopsAll /\ Listed(toStop, p)
    \/ ~StopsAll /\ place # End /\ (place = <<"wait", "db">> \/ Listed(children, p))

DependentsAhead(list) ==
  \A i, j \in 1..Len(list) :
    i < j /\ Service(list[i]) \in {"db", "chain"} => Service(list[j]) # "backend"

DependentsBehind(list) ==
  \A i, j \in 1..Len(list) :
    i < j /\ Service(list[j]) \in {"db", "chain"} => Service(list[i]) # "backend"

\* A backend comes after what it uses among the children, and before it in the
\* list of what is to be stopped.
InOrder == DependentsBehind(children) /\ DependentsAhead(toStop)

\* A port is held by a process of its service that has not gone.
Held ==
  \A s \in Ports : port[s] # Free /\ port[s] # Foreign =>
    Service(port[s]) = s /\ procs[port[s]].state \in {"serving", "stopping"}

\* A service has answered at this point, and was not told to stop since.
HasAnswered(s) ==
  \/ s = "db" /\ place \notin {<<"ports", "">>, <<"spawn", "db">>, <<"wait", "db">>}
  \/ s = "chain" /\ place \notin {<<"ports", "">>, <<"spawn", "db">>, <<"wait", "db">>,
                               <<"spawn", "chain">>, <<"wait", "chain">>}
  \/ s = "backend" /\ place \in {<<"spawn", "web">>, <<"wait", "web">>, <<"ready", "">>} /\ ~Stopping
  \/ s = "web" /\ (restarted \/ place = <<"ready", "">>)

\* With nothing going wrong, what has answered still does.
StillAnswers ==
  /\ foreigns = 0 => \A s \in Ports : port[s] # Foreign
  /\ deaths = 0 /\ foreigns = 0 /\ place # End /\ ~StopsAll =>
       \A s \in Ports : HasAnswered(s) => port[s] # Free

StackInv ==
  /\ StackTypes /\ Known /\ Progress /\ Stops /\ NoneForgotten /\ InOrder
  /\ Held /\ StillAnswers /\ DependentsFirst

LEMMA PortsAre == Ports = {"db", "chain", "backend", "web"}
<1>1. Services = <<"db", "chain", "backend", "web">> /\ Len(Services) = 4
  BY DEF Services
<1> QED BY <1>1 DEF Ports

\* The script's places differ in their first or their second part.
PlaceIs(x) ==
  /\ x = <<"ports", "">> <=> x[1] = "ports"
  /\ x = <<"run", "backend">> <=> x[1] = "run"
  /\ x = <<"ready", "">> <=> x[1] = "ready"
  /\ x = End <=> x[1] = "gone"
  /\ x = <<"spawn", "db">> <=> x[1] = "spawn" /\ x[2] = "db"
  /\ x = <<"spawn", "chain">> <=> x[1] = "spawn" /\ x[2] = "chain"
  /\ x = <<"spawn", "backend">> <=> x[1] = "spawn" /\ x[2] = "backend"
  /\ x = <<"spawn", "web">> <=> x[1] = "spawn" /\ x[2] = "web"
  /\ x = <<"wait", "db">> <=> x[1] = "wait" /\ x[2] = "db"
  /\ x = <<"wait", "chain">> <=> x[1] = "wait" /\ x[2] = "chain"
  /\ x = <<"wait", "backend">> <=> x[1] = "wait" /\ x[2] = "backend"
  /\ x = <<"wait", "web">> <=> x[1] = "wait" /\ x[2] = "web"
LEMMA PlacesDiffer == ASSUME NEW x \in Places PROVE PlaceIs(x)
<1>1. CASE x = <<"ports", "">>
  BY <1>1 DEF PlaceIs, End
<1>2. CASE x = <<"run", "backend">>
  BY <1>2 DEF PlaceIs, End
<1>3. CASE x = <<"ready", "">>
  BY <1>3 DEF PlaceIs, End
<1>4. CASE x = End
  BY <1>4 DEF PlaceIs, End
<1>5. CASE \E s \in Ports : x = <<"spawn", s>>
  BY <1>5, PortsAre DEF PlaceIs, End
<1>6. CASE \E s \in Ports : x = <<"wait", s>>
  BY <1>6, PortsAre DEF PlaceIs, End
<1> QED BY <1>1, <1>2, <1>3, <1>4, <1>5, <1>6 DEF Places

\* The state of one process is set.
LEMMA StateSet ==
  ASSUME StackTypes, NEW p \in 1..Len(procs),
         NEW st \in {"starting", "serving", "stopping", "gone"},
         procs' = [procs EXCEPT ![p].state = st]
  PROVE  /\ procs' \in Seq(Processes) /\ Len(procs') = Len(procs)
         /\ \A q \in 1..Len(procs) :
              /\ procs'[q].service = procs[q].service
              /\ procs'[q].state = IF q = p THEN st ELSE procs[q].state
<1> DEFINE r == [procs[p] EXCEPT !.state = st]
<1>1. procs[p] \in Processes
  BY DEF StackTypes
<1>2. r \in Processes /\ r.service = procs[p].service /\ r.state = st
  BY <1>1 DEF Processes
<1>3. procs' = [procs EXCEPT ![p] = r]
  OBVIOUS
<1> HIDE DEF r
<1>4. procs' \in Seq(Processes) /\ Len(procs') = Len(procs)
      /\ \A q \in 1..Len(procs) : procs'[q] = IF q = p THEN r ELSE procs[q]
  <2>1. procs \in Seq(Processes) /\ r \in Processes
    BY <1>2 DEF StackTypes
  <2>2. /\ [procs EXCEPT ![p] = r] \in Seq(Processes)
        /\ Len([procs EXCEPT ![p] = r]) = Len(procs)
        /\ \A q \in 1..Len(procs) : [procs EXCEPT ![p] = r][q] = IF q = p THEN r ELSE procs[q]
    BY <2>1, ExceptSeq
  <2> QED BY <2>2, <1>3
<1> QED BY <1>2, <1>4

\* A process is added.
LEMMA ProcessAdded ==
  ASSUME StackTypes, NEW s \in Ports, procs' = Spawned(s)
  PROVE  /\ procs' \in Seq(Processes) /\ Len(procs') = Len(procs) + 1
         /\ \A q \in 1..Len(procs) : procs'[q] = procs[q]
         /\ procs'[Len(procs) + 1].service = s /\ procs'[Len(procs) + 1].state = "starting"
BY DEF StackTypes, Processes, Spawned

\* A process that is gone frees the port it held.
LEMMA GoneEffect ==
  ASSUME StackInv, NEW p \in 1..Len(procs), Gone(p)
  PROVE  /\ procs' = [procs EXCEPT ![p].state = "gone"]
         /\ port' \in [Ports -> {Free, Foreign} \union (Nat \ {0})]
         /\ \A s \in Ports :
              /\ port[s] = p => port'[s] = Free /\ s = Service(p)
                                /\ procs[p].state \in {"serving", "stopping"}
              /\ port[s] # p => port'[s] = port[s]
BY DEF StackInv, StackTypes, Held, Gone, Free, Foreign, Service

\* Steps after which the script is where it was, and every process what it was.
LEMMA SameShape ==
  ASSUME StackInv, UNCHANGED <<place, children, toStop>>,
         Len(procs') = Len(procs),
         \A q \in 1..Len(procs) : procs'[q].service = procs[q].service,
         \A s \in Ports : port'[s] <= Len(procs)
  PROVE  Known' /\ Progress' /\ InOrder'
<1>0. place' = place /\ children' = children /\ toStop' = toStop /\ procs \in Seq(Processes)
      /\ children \in Seq(Nat) /\ toStop \in Seq(Nat)
  BY DEF StackInv, StackTypes
<1>1. Known'
  BY <1>0 DEF StackInv, Known, AreSpawned
<1>2. Progress'
  <2>1. place \in {<<"ports", "">>, <<"spawn", "db">>} => Len(procs') = 0
    BY DEF StackInv, Progress
  <2>2. place = <<"wait", "db">> =>
          Len(procs') = 1 /\ procs'[1].service = "db" /\ children = << >>
    BY <1>0 DEF StackInv, Progress, Service
  <2>3. place = <<"spawn", "chain">> => \A p \in 1..Len(procs') : procs'[p].service = "db"
    BY <1>0 DEF StackInv, Progress, Service
  <2>4. place \in {<<"wait", "backend">>, <<"spawn", "web">>, <<"wait", "web">>, <<"ready", "">>} =>
          \E p \in 1..Len(procs') : procs'[p].service = "backend"
    BY <1>0 DEF StackInv, Progress, Service
  <2> QED BY <1>0, <2>1, <2>2, <2>3, <2>4 DEF Progress, Service
<1>3. InOrder'
  <2>1. DependentsBehind(children) /\ DependentsAhead(toStop) /\ AreSpawned(children) /\ AreSpawned(toStop)
    BY DEF StackInv, InOrder, Known
  <2>2. DependentsBehind(children)'
    BY <1>0, <2>1 DEF DependentsBehind, AreSpawned, Service
  <2>3. DependentsAhead(toStop)'
    BY <1>0, <2>1 DEF DependentsAhead, AreSpawned, Service
  <2> QED BY <2>2, <2>3 DEF InOrder
<1> QED BY <1>1, <1>2, <1>3

\* What a process does, or a signal does to it, leaves the script's book-keeping
\* right, if only the process that is being stopped becomes a stopping one.
LEMMA BooksKept ==
  ASSUME StackInv, NEW p \in 1..Len(procs),
         NEW st \in {"starting", "serving", "stopping", "gone"},
         procs' = [procs EXCEPT ![p].state = st],
         st # "gone" => Alive(p),
         st = "stopping" => Stopping /\ p = Head(toStop),
         UNCHANGED <<place, children, toStop, afterwards, restarted, interrupted>>,
         \A s \in Ports : port'[s] <= Len(procs)
  PROVE  /\ procs' \in Seq(Processes)
         /\ Known' /\ Progress' /\ InOrder' /\ Stops' /\ NoneForgotten'
<1>0. /\ procs' \in Seq(Processes) /\ Len(procs') = Len(procs)
      /\ \A q \in 1..Len(procs) :
              /\ procs'[q].service = procs[q].service
              /\ procs'[q].state = IF q = p THEN st ELSE procs[q].state
  BY StateSet DEF StackInv
<1>1. /\ place' = place /\ children' = children /\ toStop' = toStop /\ afterwards' = afterwards
      /\ restarted' = restarted /\ interrupted' = interrupted
  OBVIOUS
<1>2. Known' /\ Progress' /\ InOrder'
  BY <1>0, SameShape
<1>3. Stops'
  <2>1. Stops /\ AreSpawned(toStop) /\ toStop \in Seq(Nat)
    BY DEF StackInv, Known, StackTypes
  <2>2. ASSUME Stopping, afterwards # End
        PROVE  restarted /\ place = <<"ready", "">> /\ Len(toStop) = 1
               /\ procs'[toStop[1]].service = "backend"
    <3>1. /\ restarted /\ place = <<"ready", "">> /\ Len(toStop) = 1
          /\ procs[toStop[1]].service = "backend"
      BY <2>1, <2>2 DEF Stops, Service
    <3>2. toStop[1] \in 1..Len(procs)
      <4>1. Len(toStop) = 1 /\ AreSpawned(toStop)
        BY <2>1, <3>1
      <4> QED BY <4>1 DEF AreSpawned
    <3> QED BY <3>1, <3>2, <1>0
  <2>3. ASSUME NEW q \in 1..Len(procs), procs'[q].state = "stopping"
        PROVE  place = End \/ (Stopping /\ q = toStop[1])
    <3>1. CASE q = p
      <4>1. st = "stopping"
        BY <2>3, <3>1, <1>0
      <4>2. Stopping /\ Head(toStop) = toStop[1]
        BY <4>1, <2>1 DEF Stopping
      <4> QED BY <3>1, <4>1, <4>2
    <3>2. CASE q # p
      <4>1. procs[q].state = "stopping"
        BY <2>3, <3>2, <1>0
      <4> QED BY <4>1, <2>1 DEF Stops
    <3> QED BY <3>1, <3>2
  <2>4. place = End => toStop = << >>
    BY <2>1 DEF Stops
  <2>5. restarted => place \in {<<"ready", "">>, <<"spawn", "backend">>, <<"wait", "backend">>, End}
    BY <2>1 DEF Stops
  <2>6. (Stopping <=> toStop' # << >>) /\ (restarted' <=> restarted)
    BY <1>1 DEF Stopping
  <2>7. (\A q \in 1..Len(procs) : procs[q].state = "stopping" =>
                                     place = End \/ (Stopping /\ q = toStop[1]))'
    BY <1>0, <1>1, <2>3, <2>6 DEF Stopping
  <2>8. (Stopping /\ afterwards # End =>
           restarted /\ place = <<"ready", "">> /\ Len(toStop) = 1 /\ Service(toStop[1]) = "backend")'
    BY <1>1, <2>2, <2>6 DEF Stopping, Service
  <2> QED BY <1>1, <2>4, <2>5, <2>6, <2>7, <2>8 DEF Stops
<1>4. NoneForgotten'
  <2>1. \A q \in 1..Len(procs) : procs'[q].state # "gone" => Alive(q)
    BY <1>0 DEF Alive
  <2> QED BY <1>0, <1>1, <2>1 DEF StackInv, NoneForgotten, Alive, Listed, StopsAll, Stopping
<1> QED BY <1>0, <1>2, <1>3, <1>4

\* A process that listens, or finds its port taken.
LEMMA ListenKeeps == ASSUME StackInv, NEW p \in 1..Len(procs), Listen(p) PROVE StackInv'
<1>0. /\ UNCHANGED <<place, children, toStop, afterwards, restarted, interrupted>>
      /\ deaths' = deaths /\ foreigns' = foreigns /\ procs[p].state = "starting"
  BY DEF Listen, world
<1>1. Service(p) \in Ports
  <2>1. procs[p] \in Processes
    BY DEF StackInv, StackTypes
  <2> QED BY <2>1 DEF Processes, Service
<1>2. CASE port[Service(p)] = Free
  <2>0. /\ procs' = [procs EXCEPT ![p].state = "serving"]
        /\ port' = [port EXCEPT ![Service(p)] = p]
    BY <1>2 DEF Listen, Service
  <2>1. /\ procs' \in Seq(Processes) /\ Len(procs') = Len(procs)
        /\ \A q \in 1..Len(procs) :
              /\ procs'[q].service = procs[q].service
              /\ procs'[q].state = IF q = p THEN "serving" ELSE procs[q].state
    BY <2>0, StateSet DEF StackInv
  <2>2. /\ port' \in [Ports -> {Free, Foreign} \union (Nat \ {0})]
        /\ \A s \in Ports : port'[s] = IF s = Service(p) THEN p ELSE port[s]
        /\ \A s \in Ports : port'[s] <= Len(procs)
    BY <2>0, <1>1 DEF StackInv, StackTypes, Known
  <2>3. Known' /\ Progress' /\ InOrder' /\ Stops' /\ NoneForgotten'
    BY <1>0, <2>0, <2>2, BooksKept DEF Alive
  <2>4. StackTypes'
    BY <1>0, <2>1, <2>2 DEF StackInv, StackTypes
  <2>5. Held'
    <3> SUFFICES ASSUME NEW s \in Ports, port'[s] # Free, port'[s] # Foreign
                 PROVE  Service(port[s])' = s /\ procs'[port'[s]].state \in {"serving", "stopping"}
      BY DEF Held
    <3>1. CASE s = Service(p)
      BY <2>1, <2>2, <3>1 DEF Service
    <3>2. CASE s # Service(p)
      <4>1. port'[s] = port[s] /\ port[s] \in 1..Len(procs)
        BY <2>2, <3>2 DEF StackInv, StackTypes, Known, Free, Foreign
      <4> QED BY <4>1, <2>1, <1>0 DEF StackInv, Held, Service
    <3> QED BY <3>1, <3>2
  <2>6. StillAnswers'
    <3>1. \A s \in Ports : port[s] # Free => port'[s] = port[s]
      BY <2>2, <1>2
    <3>2. p # Free /\ p # Foreign
      BY DEF Free, Foreign
    <3> QED BY <1>0, <2>2, <3>1, <3>2
            DEF StackInv, StillAnswers, HasAnswered, StopsAll, Stopping
  <2>7. DependentsFirst'
    BY <1>0, <2>1 DEF StackInv, DependentsFirst
  <2> QED BY <2>3, <2>4, <2>5, <2>6, <2>7 DEF StackInv
<1>3. CASE port[Service(p)] # Free
  <2>0. Gone(p)
    BY <1>3 DEF Listen, Service
  <2>1. /\ procs' = [procs EXCEPT ![p].state = "gone"]
        /\ port' \in [Ports -> {Free, Foreign} \union (Nat \ {0})]
        /\ \A s \in Ports : port'[s] = port[s]
    BY <2>0, <1>0, GoneEffect
  <2>2. /\ procs' \in Seq(Processes) /\ Len(procs') = Len(procs)
        /\ \A q \in 1..Len(procs) :
              /\ procs'[q].service = procs[q].service
              /\ procs'[q].state = IF q = p THEN "gone" ELSE procs[q].state
    BY <2>1, StateSet DEF StackInv
  <2>3. Known' /\ Progress' /\ InOrder' /\ Stops' /\ NoneForgotten'
    <3>1. \A s \in Ports : port'[s] <= Len(procs)
      BY <2>1 DEF StackInv, Known
    <3> QED BY <3>1, <1>0, <2>1, BooksKept
  <2>4. StackTypes'
    BY <1>0, <2>1, <2>2 DEF StackInv, StackTypes
  <2>5. Held'
    <3> SUFFICES ASSUME NEW s \in Ports, port'[s] # Free, port'[s] # Foreign
                 PROVE  Service(port[s])' = s /\ procs'[port'[s]].state \in {"serving", "stopping"}
      BY DEF Held
    <3>1. port'[s] = port[s] /\ port[s] \in 1..Len(procs)
      BY <2>1 DEF StackInv, StackTypes, Known, Free, Foreign
    <3> QED BY <3>1, <2>2, <1>0 DEF StackInv, Held, Service
  <2>6. StillAnswers'
    BY <1>0, <2>1 DEF StackInv, StillAnswers, HasAnswered, StopsAll, Stopping
  <2>7. DependentsFirst'
    BY <2>2 DEF StackInv, DependentsFirst
  <2> QED BY <2>3, <2>4, <2>5, <2>6, <2>7 DEF StackInv
<1> QED BY <1>2, <1>3

\* When only the backend is stopped for the restart, its end takes no other
\* service's port away.
LEMMA OnlyTheBackend ==
  ASSUME StackInv, NEW p \in 1..Len(procs), Gone(p), procs[p].state = "stopping",
         place # End, ~StopsAll
  PROVE  /\ Stopping /\ p = toStop[1] /\ Service(p) = "backend" /\ restarted
         /\ \A s \in Ports : s # "backend" => port'[s] = port[s]
<1>1. Stopping /\ p = toStop[1]
  BY DEF StackInv, Stops
<1>2. afterwards # End
  BY <1>1 DEF StopsAll
<1>3. Service(toStop[1]) = "backend" /\ restarted
  BY <1>1, <1>2 DEF StackInv, Stops
<1> QED BY <1>1, <1>3, GoneEffect

\* A port that is held after a process has gone is held by another one.
LEMMA HeldByOthers ==
  ASSUME StackInv, NEW p \in 1..Len(procs), Gone(p)
  PROVE  Held'
<1>0. /\ \A s \in Ports : port'[s] # Free => port'[s] = port[s] /\ port[s] # p
      /\ procs' = [procs EXCEPT ![p].state = "gone"]
  BY GoneEffect
<1>1. \A q \in 1..Len(procs) :
        /\ procs'[q].service = procs[q].service
        /\ procs'[q].state = IF q = p THEN "gone" ELSE procs[q].state
  BY <1>0, StateSet DEF StackInv
<1> SUFFICES ASSUME NEW s \in Ports, port'[s] # Free, port'[s] # Foreign
             PROVE  Service(port[s])' = s /\ procs'[port'[s]].state \in {"serving", "stopping"}
  BY DEF Held
<1>2. port'[s] = port[s] /\ port[s] # p /\ port[s] \in 1..Len(procs)
  BY <1>0 DEF StackInv, StackTypes, Known, Free, Foreign
<1> QED BY <1>1, <1>2 DEF StackInv, Held, Service

\* A process that leaves by itself, or because it was told to.
LEMMA DieKeeps == ASSUME StackInv, NEW p \in 1..Len(procs), Die(p) PROVE StackInv'
<1>0. /\ UNCHANGED <<place, children, toStop, afterwards, restarted, interrupted>>
      /\ foreigns' = foreigns /\ Alive(p) /\ Gone(p)
  BY DEF Die
<1>1. /\ procs' = [procs EXCEPT ![p].state = "gone"]
      /\ port' \in [Ports -> {Free, Foreign} \union (Nat \ {0})]
      /\ \A s \in Ports : port'[s] = port[s] \/ port'[s] = Free
  BY <1>0, GoneEffect
<1>2. /\ procs' \in Seq(Processes) /\ Len(procs') = Len(procs)
      /\ \A q \in 1..Len(procs) :
            /\ procs'[q].service = procs[q].service
            /\ procs'[q].state = IF q = p THEN "gone" ELSE procs[q].state
  BY <1>1, StateSet DEF StackInv
<1>3. Known' /\ Progress' /\ InOrder' /\ Stops' /\ NoneForgotten'
  <2>1. \A s \in Ports : port'[s] <= Len(procs)
    <3>1. Len(procs) \in Nat /\ \A s \in Ports : port[s] <= Len(procs)
      BY DEF StackInv, Known, StackTypes
    <3> QED BY <1>1, <3>1 DEF Free
  <2> QED BY <2>1, <1>0, <1>1, BooksKept
<1>4. deaths' \in Nat /\ (deaths' = deaths \/ deaths' # 0)
  BY DEF Die, StackInv, StackTypes
<1>5. StackTypes'
  BY <1>0, <1>1, <1>2, <1>4 DEF StackInv, StackTypes
<1>6. Held'
  BY <1>0, HeldByOthers
<1>7. StillAnswers'
  <2>1. foreigns' = 0 => \A s \in Ports : port'[s] # Foreign
    BY <1>0, <1>1 DEF StackInv, StillAnswers, Free, Foreign
  <2>2. ASSUME deaths' = 0, foreigns' = 0, place # End, ~StopsAll,
               NEW s \in Ports, HasAnswered(s)
        PROVE  port'[s] # Free
    <3>1. procs[p].state = "stopping" /\ deaths = 0
      BY <2>2 DEF Die, StackInv, StackTypes
    <3>2. Stopping /\ \A t \in Ports : t # "backend" => port'[t] = port[t]
      BY <2>2, <3>1, <1>0, OnlyTheBackend
    <3>3. s # "backend"
      BY <2>2, <3>2 DEF HasAnswered
    <3>4. port[s] # Free
      BY <2>2, <3>1, <1>0 DEF StackInv, StillAnswers
    <3> QED BY <3>2, <3>3, <3>4
  <2>3. /\ StopsAll' <=> StopsAll
        /\ \A s \in Ports : HasAnswered(s)' <=> HasAnswered(s)
    BY <1>0 DEF StopsAll, HasAnswered, Stopping
  <2> QED BY <2>1, <2>2, <2>3, <1>0 DEF StillAnswers
<1>8. DependentsFirst'
  BY <1>2 DEF StackInv, DependentsFirst
<1> QED BY <1>3, <1>5, <1>6, <1>7, <1>8 DEF StackInv

\* Another program takes a port that is free.
LEMMA TakePortKeeps == ASSUME StackInv, NEW s \in Ports, TakePort(s) PROVE StackInv'
<1>0. /\ UNCHANGED <<place, children, procs, toStop, afterwards, restarted, interrupted, deaths>>
      /\ foreigns' = foreigns + 1 /\ port[s] = Free
      /\ port' = [port EXCEPT ![s] = Foreign]
  BY DEF TakePort
<1>1. /\ port' \in [Ports -> {Free, Foreign} \union (Nat \ {0})]
      /\ \A t \in Ports : port'[t] = IF t = s THEN Foreign ELSE port[t]
  BY <1>0 DEF StackInv, StackTypes
<1>2. Known' /\ Progress' /\ InOrder'
  <2>1. \A t \in Ports : port'[t] <= Len(procs)
    <3>1. Len(procs) \in Nat /\ \A t \in Ports : port[t] <= Len(procs)
      BY DEF StackInv, Known, StackTypes
    <3> QED BY <1>1, <3>1 DEF Foreign
  <2> QED BY <2>1, <1>0, SameShape
<1>3. StackTypes'
  BY <1>0, <1>1 DEF StackInv, StackTypes
<1>4. Held'
  BY <1>0, <1>1 DEF StackInv, Held, Service
<1>5. StillAnswers'
  <2>1. foreigns' # 0
    BY <1>0 DEF StackInv, StackTypes
  <2> QED BY <2>1 DEF StillAnswers
<1>6. Stops' /\ NoneForgotten' /\ DependentsFirst'
  BY <1>0 DEF StackInv, Stops, NoneForgotten, DependentsFirst, Stopping, StopsAll, Alive, Listed,
              Service
<1> QED BY <1>2, <1>3, <1>4, <1>5, <1>6 DEF StackInv

\* The signal to the process that is to be stopped: when it is the database or
\* the chain, every backend has been stopped.
LEMMA TerminateKeeps == ASSUME StackInv, Terminate PROVE StackInv'
<1> DEFINE h == toStop[1]
<1>0. /\ UNCHANGED <<place, children, port, toStop, afterwards, restarted, interrupted, deaths, foreigns>>
      /\ Stopping /\ Head(toStop) = toStop[1]
      /\ procs[h].state \in {"starting", "serving"}
      /\ procs' = [procs EXCEPT ![h].state = "stopping"]
  BY DEF Terminate, world, StackInv, StackTypes, Stopping
<1>1. h \in 1..Len(procs) /\ 1 \in 1..Len(toStop)
  BY <1>0 DEF StackInv, StackTypes, Stopping, Known, AreSpawned
<1> HIDE DEF h
<1>2. /\ procs' \in Seq(Processes) /\ Len(procs') = Len(procs)
      /\ \A q \in 1..Len(procs) :
            /\ procs'[q].service = procs[q].service
            /\ procs'[q].state = IF q = h THEN "stopping" ELSE procs[q].state
  BY <1>0, <1>1, StateSet DEF StackInv
<1>3. Known' /\ Progress' /\ InOrder' /\ Stops' /\ NoneForgotten'
  <2>1. \A s \in Ports : port'[s] <= Len(procs)
    BY <1>0 DEF StackInv, Known
  <2>2. Alive(h) /\ Head(toStop) = h
    BY <1>0 DEF Alive, h
  <2> QED BY <2>1, <2>2, <1>0, <1>1, BooksKept
<1>4. StackTypes'
  BY <1>0, <1>2 DEF StackInv, StackTypes
<1>5. Held'
  <2> SUFFICES ASSUME NEW s \in Ports, port[s] # Free, port[s] # Foreign
               PROVE  procs'[port[s]].service = s
                      /\ procs'[port[s]].state \in {"serving", "stopping"}
    BY <1>0 DEF Held, Service
  <2>1. port[s] \in 1..Len(procs)
    BY DEF StackInv, StackTypes, Known, Free, Foreign
  <2> QED BY <2>1, <1>2 DEF StackInv, Held, Service
<1>6. StillAnswers'
  BY <1>0 DEF StackInv, StillAnswers, HasAnswered, StopsAll, Stopping
<1>7. ASSUME NEW q \in 1..Len(procs), Service(h) \in {"db", "chain"}, Service(q) = "backend"
      PROVE  procs[q].state \notin {"starting", "serving"}
  <2> SUFFICES ASSUME procs[q].state \in {"starting", "serving"} PROVE FALSE
    OBVIOUS
  <2>1. place # End /\ afterwards = End
    BY <1>0, <1>7 DEF StackInv, Stops, Stopping, h
  <2>2. Listed(toStop, q)
    BY <2>1, <1>0 DEF StackInv, NoneForgotten, Alive, StopsAll
  <2>3. PICK i \in 1..Len(toStop) : toStop[i] = q
    BY <2>2 DEF Listed
  <2>4. i # 1
    BY <2>3, <1>7 DEF h
  <2>5. 1 < i
    BY <2>3, <2>4 DEF StackInv, StackTypes
  <2>6. Service(toStop[1]) \in {"db", "chain"}
    BY <1>7 DEF h
  <2> QED BY <2>3, <2>5, <2>6, <1>1, <1>7 DEF StackInv, InOrder, DependentsAhead
<1>8. DependentsFirst'
  BY <1>2, <1>7, <1>1 DEF StackInv, DependentsFirst, Service
<1> QED BY <1>3, <1>4, <1>5, <1>6, <1>8 DEF StackInv

-----------------------------------------------------------------------------
(* The local stack: the script starts services                             *)

\* Steps of the script that change no process and no port, and stop nothing.
LEMMA ScriptMoves ==
  ASSUME StackInv, ~Stopping, place # End, UNCHANGED <<procs, port, toStop>>
  PROVE  /\ Held' /\ DependentsFirst' /\ ~Stopping' /\ ~StopsAll'
         /\ \A p \in 1..Len(procs) : procs[p].state # "stopping"
BY DEF StackInv, Held, Service, DependentsFirst, Stopping, StopsAll, Stops

\* While nothing is being stopped.
LEMMA NothingStops ==
  ASSUME toStop' = << >>,
         restarted' => place' \in {<<"ready", "">>, <<"spawn", "backend">>, <<"wait", "backend">>, End},
         \A p \in 1..Len(procs') : procs'[p].state # "stopping"
  PROVE  Stops' /\ ~Stopping' /\ ~StopsAll'
BY DEF Stops, Stopping, StopsAll

LEMMA CheckPortsKeeps == ASSUME StackInv, CheckPorts PROVE StackInv'
<1>0. /\ UNCHANGED <<children, procs, port, toStop, afterwards, restarted, interrupted, deaths, foreigns>>
      /\ ~Stopping /\ place' \in {End, <<"spawn", "db">>} /\ place \in Places /\ place[1] = "ports"
  BY DEF CheckPorts, world, StackInv, StackTypes
<1>1. place' \in Places
  BY <1>0, PortsAre DEF Places
<1>2. PlaceIs(place) /\ PlaceIs(place)'
  BY <1>0, <1>1, PlacesDiffer
<1>3. Len(procs) = 0 /\ place # End /\ (restarted' <=> restarted) /\ ~restarted
  BY <1>0, <1>2 DEF StackInv, Progress, Stops, PlaceIs
<1>4. /\ Held' /\ DependentsFirst' /\ ~Stopping' /\ ~StopsAll' /\ toStop' = << >>
  BY <1>0, <1>3, ScriptMoves DEF Stopping
<1>5. StackTypes'
  BY <1>0, <1>1 DEF StackInv, StackTypes
<1>6. Known' /\ NoneForgotten'
  BY <1>0, <1>3 DEF StackInv, Known, AreSpawned, NoneForgotten
<1>7. Progress'
  BY <1>0, <1>2, <1>3 DEF Progress, PlaceIs
<1>8. InOrder'
  BY <1>0 DEF StackInv, InOrder, DependentsAhead, DependentsBehind, Service
<1>9. Stops'
  <2>1. \A p \in 1..Len(procs') : procs'[p].state # "stopping"
    BY <1>0, <1>3
  <2>2. ~restarted'
    BY <1>3
  <2> QED BY <2>1, <2>2, <1>4, NothingStops
<1>10. StillAnswers'
  <2>1. ASSUME place' # End, NEW s \in Ports PROVE ~HasAnswered(s)'
    BY <2>1, <1>0, <1>2, <1>3 DEF HasAnswered, PlaceIs
  <2> QED BY <1>0, <2>1 DEF StackInv, StillAnswers
<1> QED BY <1>4, <1>5, <1>6, <1>7, <1>8, <1>9, <1>10 DEF StackInv

\* postgres is started.
LEMMA SpawnDbKeeps == ASSUME StackInv, SpawnDb PROVE StackInv'
<1>0. /\ UNCHANGED <<children, port, toStop, afterwards, restarted, interrupted, deaths, foreigns>>
      /\ ~Stopping /\ place = <<"spawn", "db">> /\ place \in Places
      /\ \/ place' = End /\ UNCHANGED procs
         \/ place' = <<"wait", "db">> /\ procs' = Spawned("db")
  BY DEF SpawnDb, world, StackInv, StackTypes
<1>1. place' \in Places
  BY <1>0, PortsAre DEF Places
<1>2. PlaceIs(place) /\ PlaceIs(place)'
  BY <1>0, <1>1, PlacesDiffer
<1>3. /\ Len(procs) = 0 /\ place # End /\ (restarted' <=> restarted) /\ ~restarted
      /\ toStop' = << >> /\ toStop = << >>
  BY <1>0, <1>2 DEF StackInv, Progress, Stops, PlaceIs, Stopping
<1>4. Len(children) = 0
  BY <1>3 DEF StackInv, Known, AreSpawned, StackTypes
<1>5. CASE place' = End /\ UNCHANGED procs
  <2>1. /\ Held' /\ DependentsFirst'
    BY <1>0, <1>3, <1>5, ScriptMoves
  <2>2. StackTypes'
    BY <1>0, <1>1, <1>5 DEF StackInv, StackTypes
  <2>3. Known' /\ NoneForgotten' /\ InOrder'
    BY <1>0, <1>3, <1>4, <1>5
       DEF StackInv, Known, AreSpawned, NoneForgotten, InOrder, DependentsAhead, DependentsBehind
  <2>5. Progress'
    BY <1>2, <1>3, <1>5 DEF Progress, PlaceIs
  <2>6. Stops'
    <3>1. \A p \in 1..Len(procs') : procs'[p].state # "stopping"
      BY <1>5, <1>3
    <3>2. ~restarted'
      BY <1>3
    <3> QED BY <3>1, <3>2, <1>3, NothingStops
  <2>4. StillAnswers'
    BY <1>0, <1>5 DEF StackInv, StillAnswers
  <2> QED BY <2>1, <2>2, <2>3, <2>4, <2>5, <2>6 DEF StackInv
<1>6. CASE place' = <<"wait", "db">> /\ procs' = Spawned("db")
  <2>0. /\ procs' \in Seq(Processes) /\ Len(procs') = 1
        /\ procs'[1].service = "db" /\ procs'[1].state = "starting"
    BY <1>3, <1>6, PortsAre, ProcessAdded DEF StackInv
  <2>1. StackTypes'
    BY <1>0, <1>1, <2>0 DEF StackInv, StackTypes
  <2>2. \A s \in Ports : port[s] <= 0
    BY <1>3 DEF StackInv, Known
  <2>3. Held'
    BY <1>0, <2>2 DEF StackInv, StackTypes, Held, Free, Foreign
  <2>4. Known'
    <3>1. AreSpawned(children)'
      BY <1>0, <1>4 DEF AreSpawned
    <3>2. AreSpawned(toStop)'
      BY <1>3 DEF AreSpawned
    <3>3. \A s \in Ports : port[s] <= 1
      <4>1. \A s \in Ports : port[s] \in Int
        BY DEF StackInv, StackTypes, Free, Foreign
      <4> QED BY <4>1, <2>2
    <3> QED BY <1>0, <3>1, <3>2, <3>3, <2>0 DEF Known
  <2>5. Progress'
    <3>1. Len(children') = 0 /\ children' \in Seq(Nat)
      BY <1>0, <1>4 DEF StackInv, StackTypes
    <3>2. children' = << >>
      BY <3>1
    <3> QED BY <1>2, <1>6, <2>0, <3>2 DEF Progress, PlaceIs, Service
  <2>6. InOrder' /\ NoneForgotten' /\ DependentsFirst'
    BY <1>0, <1>2, <1>3, <1>4, <1>6, <2>0
       DEF InOrder, DependentsAhead, DependentsBehind, NoneForgotten, DependentsFirst, StopsAll,
           Stopping, PlaceIs
  <2>7. Stops'
    <3>1. \A p \in 1..Len(procs') : procs'[p].state # "stopping"
      BY <2>0
    <3>2. ~restarted'
      BY <1>3
    <3> QED BY <3>1, <3>2, <1>3, NothingStops
  <2>8. StillAnswers'
    <3>1. ASSUME NEW s \in Ports PROVE ~HasAnswered(s)'
      BY <3>1, <1>6, <1>2, <1>3 DEF HasAnswered, PlaceIs
    <3> QED BY <1>0, <3>1 DEF StackInv, StillAnswers
  <2> QED BY <2>1, <2>3, <2>4, <2>5, <2>6, <2>7, <2>8 DEF StackInv
<1> QED BY <1>0, <1>5, <1>6

\* The next service is started and added to the children: the chain before
\* anything that uses it.
LEMMA SpawnKeeps == ASSUME StackInv, NEW s \in Ports, Spawn(s) PROVE StackInv'
<1> DEFINE n == Len(procs) + 1
<1>0. /\ UNCHANGED <<port, toStop, afterwards, restarted, interrupted, deaths, foreigns>>
      /\ ~Stopping /\ s # "db" /\ place = <<"spawn", s>> /\ place' = <<"wait", s>>
      /\ procs' = Spawned(s) /\ children' = Append(children, n) /\ place \in Places
  BY DEF Spawn, world, StackInv, StackTypes, Registered
<1>1. place' \in Places
  BY <1>0, PortsAre DEF Places
<1>2. PlaceIs(place) /\ PlaceIs(place)' /\ place[1] = "spawn" /\ place[2] = s /\ place'[1] = "wait" /\ place'[2] = s
  BY <1>0, <1>1, PlacesDiffer
<1>3. /\ s \in {"chain", "backend", "web"} /\ place # End /\ place' # End
      /\ place # <<"wait", "db">> /\ place' # <<"wait", "db">>
  BY <1>0, <1>2, PortsAre DEF PlaceIs
<1>4. /\ procs' \in Seq(Processes) /\ Len(procs') = n /\ Len(procs) \in Nat
      /\ \A q \in 1..Len(procs) : procs'[q] = procs[q]
      /\ procs'[n].service = s /\ procs'[n].state = "starting"
  BY <1>0, ProcessAdded DEF StackInv, StackTypes
<1> HIDE DEF n
<1>5. /\ toStop = << >> /\ toStop' = << >> /\ ~StopsAll /\ (restarted' <=> restarted)
      /\ \A q \in 1..Len(procs) : procs[q].state # "stopping"
  BY <1>0, <1>3 DEF Stopping, StopsAll, StackInv, Stops
<1>6. n = Len(procs) + 1 /\ \A q \in 1..n : q \in 1..Len(procs) \/ q = n
  BY <1>4 DEF n
<1>7. /\ children \in Seq(Nat) /\ children' \in Seq(Nat) /\ Len(children') = Len(children) + 1
      /\ \A i \in 1..Len(children) : children'[i] = children[i] /\ children[i] \in 1..Len(procs)
      /\ children'[Len(children) + 1] = n /\ Len(children) \in Nat
  BY <1>0, <1>4, <1>6 DEF StackInv, StackTypes, Known, AreSpawned
<1>8. \A i \in 1..Len(children') :
        (i \in 1..Len(children) /\ children'[i] = children[i] /\ children[i] \in 1..Len(procs))
        \/ (i = Len(children) + 1 /\ children'[i] = n)
  BY <1>7
<1>9. StackTypes'
  BY <1>0, <1>1, <1>4, <1>7 DEF StackInv, StackTypes
<1>10. Known'
  <2>1. AreSpawned(children)'
    BY <1>4, <1>6, <1>8 DEF AreSpawned
  <2>2. AreSpawned(toStop)'
    BY <1>5 DEF AreSpawned
  <2>3. \A t \in Ports : port[t] <= n
    <3>1. \A t \in Ports : port[t] \in Int /\ port[t] <= Len(procs)
      <4>1. \A t \in Ports : port[t] \in {Free, Foreign} \union (Nat \ {0})
        BY DEF StackInv, StackTypes
      <4> QED BY <4>1 DEF StackInv, Known, Free, Foreign
    <3> QED BY <3>1, <1>4, <1>6
  <2> QED BY <1>0, <1>4, <2>1, <2>2, <2>3 DEF Known
<1>11. Progress'
  <2>1. s = "backend" => \E p \in 1..Len(procs') : procs'[p].service = "backend"
    BY <1>4, <1>6
  <2>2. s = "web" => \E p \in 1..Len(procs') : procs'[p].service = "backend"
    <3>1. s = "web" => \E p \in 1..Len(procs) : procs[p].service = "backend"
      BY <1>0 DEF StackInv, Progress, Service
    <3> QED BY <3>1, <1>4, <1>6
  <2> QED BY <1>2, <1>3, <2>1, <2>2 DEF Progress, PlaceIs, Service
<1>12. Stops'
  <2>1. \A p \in 1..Len(procs') : procs'[p].state # "stopping"
    BY <1>4, <1>5, <1>6
  <2>2. restarted => s = "backend"
    BY <1>2, <1>3 DEF StackInv, Stops, PlaceIs
  <2> QED BY <2>1, <2>2, <1>0, <1>5, NothingStops
<1>13. NoneForgotten'
  <2> SUFFICES ASSUME NEW p \in 1..Len(procs'), Alive(p)' PROVE Listed(children, p)'
    BY <1>3, <1>5 DEF NoneForgotten, StopsAll, Stopping
  <2>1. CASE p = n
    BY <2>1, <1>7 DEF Listed
  <2>2. CASE p \in 1..Len(procs)
    <3>1. Alive(p)
      BY <2>2, <1>4 DEF Alive
    <3>2. Listed(children, p)
      BY <2>2, <3>1, <1>3, <1>5 DEF StackInv, NoneForgotten
    <3> QED BY <3>2, <1>7 DEF Listed
  <2> QED BY <2>1, <2>2, <1>4, <1>6
<1>14. InOrder'
  <2>1. s = "chain" => \A p \in 1..Len(procs) : procs[p].service = "db"
    BY <1>0 DEF StackInv, Progress, Service
  <2>2. DependentsBehind(children)
    BY DEF StackInv, InOrder
  <2>3. ASSUME NEW i \in 1..Len(children'), NEW j \in 1..Len(children'), i < j,
               procs'[children'[j]].service \in {"db", "chain"}
        PROVE  procs'[children'[i]].service # "backend"
    <3>1. i \in 1..Len(children) /\ children'[i] = children[i] /\ children[i] \in 1..Len(procs)
          /\ procs'[children[i]] = procs[children[i]]
      <4>1. i \in 1..Len(children)
        BY <2>3, <1>7
      <4> QED BY <4>1, <1>4, <1>7
    <3>2. CASE j \in 1..Len(children)
      BY <3>1, <3>2, <2>2, <2>3, <1>4, <1>7 DEF DependentsBehind, Service
    <3>3. CASE j = Len(children) + 1
      <4>1. procs'[children'[j]].service = s /\ s \in {"db", "chain"}
        BY <2>3, <3>3, <1>4, <1>7
      <4>2. s = "chain"
        BY <4>1, <1>0, <1>3
      <4> QED BY <3>1, <4>2, <2>1
    <3> QED BY <3>2, <3>3, <1>8
  <2>4. DependentsAhead(toStop)'
    BY <1>5 DEF DependentsAhead
  <2> QED BY <2>3, <2>4 DEF InOrder, DependentsBehind, Service
<1>15. Held'
  <2> SUFFICES ASSUME NEW t \in Ports, port[t] # Free, port[t] # Foreign
               PROVE  procs'[port[t]].service = t
                      /\ procs'[port[t]].state \in {"serving", "stopping"}
    BY <1>0 DEF Held, Service
  <2>1. port[t] \in 1..Len(procs)
    BY DEF StackInv, StackTypes, Known, Free, Foreign
  <2> QED BY <2>1, <1>4 DEF StackInv, Held, Service
<1>16. StillAnswers'
  <2>1. ASSUME NEW t \in Ports, HasAnswered(t)' PROVE HasAnswered(t)
    BY <2>1, <1>0, <1>2, <1>3, <1>5 DEF HasAnswered, PlaceIs
  <2> QED BY <2>1, <1>0, <1>3, <1>5 DEF StackInv, StillAnswers
<1>17. DependentsFirst'
  BY <1>4, <1>5, <1>6 DEF DependentsFirst
<1> QED BY <1>9, <1>10, <1>11, <1>12, <1>13, <1>14, <1>15, <1>16, <1>17 DEF StackInv

\* A service answers: the script goes on to what needs it.
LEMMA AnsweredKeeps == ASSUME StackInv, NEW s \in Ports, Answered(s) PROVE StackInv'
<1>0. /\ UNCHANGED <<procs, port, toStop, afterwards, restarted, interrupted, deaths, foreigns>>
      /\ ~Stopping /\ place = <<"wait", s>> /\ place' = Following(s) /\ port[s] # Free
      /\ children' = (IF s = "db" THEN Append(children, Len(procs)) ELSE children)
      /\ place \in Places
  BY DEF Answered, world, StackInv, StackTypes, Answers
<1>1. /\ s = "db" => place' = <<"spawn", "chain">>
      /\ s = "chain" => place' = <<"run", "backend">>
      /\ s = "backend" => place' = IF restarted THEN <<"ready", "">> ELSE <<"spawn", "web">>
      /\ s = "web" => place' = <<"ready", "">>
  BY <1>0 DEF Following
<1>2. s \in {"db", "chain", "backend", "web"}
  BY PortsAre
<1>3. place' \in Places
  BY <1>1, <1>2, PortsAre DEF Places
<1>4. PlaceIs(place) /\ PlaceIs(place)' /\ place[1] = "wait" /\ place[2] = s
  BY <1>0, <1>3, PlacesDiffer
<1>5. place # End /\ place' # End /\ place' # <<"wait", "db">> /\ (restarted' <=> restarted)
      /\ place' \notin {<<"ports", "">>, <<"spawn", "db">>}
  BY <1>0, <1>1, <1>2, <1>4 DEF PlaceIs
<1>6. /\ Held' /\ DependentsFirst' /\ ~Stopping' /\ ~StopsAll' /\ ~StopsAll
      /\ \A p \in 1..Len(procs) : procs[p].state # "stopping"
  BY <1>0, <1>5, ScriptMoves DEF StopsAll
<1>7. toStop = << >> /\ toStop' = << >>
  BY <1>0 DEF Stopping
<1>8. CASE s = "db"
  <2>0. /\ Len(procs) = 1 /\ Service(1) = "db" /\ children = << >>
        /\ place' = <<"spawn", "chain">> /\ children' = <<1>>
    <3>1. Len(procs) = 1 /\ Service(1) = "db" /\ children = << >>
      BY <1>0, <1>8 DEF StackInv, Progress
    <3>2. children' = Append(children, Len(procs))
      BY <1>0, <1>8
    <3>3. children' = <<1>>
      BY <3>1, <3>2
    <3> QED BY <1>1, <1>8, <3>1, <3>3
  <2>1. StackTypes'
    BY <1>0, <1>3, <2>0 DEF StackInv, StackTypes
  <2>2. Known'
    BY <1>0, <1>7, <2>0 DEF StackInv, Known, AreSpawned
  <2>3. Progress'
    BY <1>0, <1>4, <2>0 DEF Progress, PlaceIs, Service
  <2>4. ~restarted
    BY <1>4, <1>8 DEF StackInv, Stops, PlaceIs
  <2>5. Stops'
    BY <2>4, <1>0, <1>5, <1>6, <1>7, NothingStops
  <2>6. NoneForgotten'
    <3>1. Listed(children, 1)'
      BY <2>0 DEF Listed
    <3> QED BY <3>1, <1>0, <1>5, <1>6, <2>0 DEF NoneForgotten
  <2>7. InOrder'
    BY <1>7, <2>0 DEF InOrder, DependentsAhead, DependentsBehind
  <2>8. StillAnswers'
    <3>1. ASSUME NEW t \in Ports, HasAnswered(t)' PROVE t = s
      BY <3>1, <1>4, <1>5, <1>8, <2>0, <2>4, PortsAre DEF HasAnswered, PlaceIs
    <3> QED BY <3>1, <1>0 DEF StackInv, StillAnswers
  <2> QED BY <1>6, <2>1, <2>2, <2>3, <2>5, <2>6, <2>7, <2>8 DEF StackInv
<1>9. CASE s # "db"
  <2>0. /\ children' = children /\ place # <<"wait", "db">>
        /\ place' # <<"spawn", "chain">>
    BY <1>0, <1>1, <1>2, <1>4, <1>9 DEF PlaceIs
  <2>1. StackTypes'
    BY <1>0, <1>3, <2>0 DEF StackInv, StackTypes
  <2>2. Known' /\ InOrder'
    BY <1>0, <2>0 DEF StackInv, Known, AreSpawned, InOrder, DependentsAhead, DependentsBehind,
                      Service
  <2>3. Progress'
    <3>1. place' \in {<<"wait", "backend">>, <<"spawn", "web">>, <<"wait", "web">>, <<"ready", "">>}
            => s \in {"backend", "web"}
      BY <1>1, <1>2, <1>4, <1>9 DEF PlaceIs
    <3>2. s \in {"backend", "web"} => \E p \in 1..Len(procs) : Service(p) = "backend"
      BY <1>0 DEF StackInv, Progress
    <3> QED BY <1>0, <1>5, <2>0, <3>1, <3>2 DEF Progress, Service
  <2>4. restarted => place' = <<"ready", "">>
    BY <1>1, <1>2, <1>4 DEF StackInv, Stops, PlaceIs
  <2>5. Stops'
    BY <2>4, <1>0, <1>5, <1>6, <1>7, NothingStops
  <2>6. NoneForgotten'
    BY <1>0, <1>5, <1>6, <2>0 DEF StackInv, NoneForgotten, Listed, Alive
  <2>7. StillAnswers'
    <3>1. ASSUME NEW t \in Ports, HasAnswered(t)' PROVE t = s \/ HasAnswered(t)
      BY <3>1, <1>0, <1>1, <1>2, <1>4, <1>5, <1>9, <2>4 DEF HasAnswered, PlaceIs
    <3> QED BY <3>1, <1>0, <1>5, <1>6 DEF StackInv, StillAnswers
  <2> QED BY <1>6, <2>1, <2>2, <2>3, <2>5, <2>6, <2>7 DEF StackInv
<1> QED BY <1>8, <1>9

-----------------------------------------------------------------------------
(* The local stack: the script stops services                              *)

\* The script begins to stop all processes that live, the dependents of the
\* database and of the chain first.
LEMMA StopAllKeeps ==
  ASSUME StackInv, NEW list \in Seq(Nat),
         \A i \in 1..Len(list) : list[i] \in 1..Len(procs),
         \A p \in 1..Len(procs) : Alive(p) => Listed(list, p),
         DependentsAhead(list),
         ~Stopping, place # End, StopEach(list, End),
         UNCHANGED <<children, procs, port, restarted, deaths, foreigns>>
  PROVE  StackInv'
<1>1. /\ Held' /\ DependentsFirst' /\ procs' = procs /\ port' = port
      /\ \A p \in 1..Len(procs) : procs[p].state # "stopping"
  <2>1. /\ \A p \in 1..Len(procs) : procs[p].state # "stopping"
        /\ procs' = procs /\ port' = port
    BY DEF StackInv, Stops
  <2> QED BY <2>1 DEF StackInv, Held, Service, DependentsFirst
<1>2. restarted' = restarted /\ (restarted' <=> restarted) /\ children' = children
      /\ deaths' = deaths /\ foreigns' = foreigns /\ toStop = << >>
  BY DEF Stopping
<1>3. CASE list = << >>
  <2>0. place' = End /\ toStop' = << >> /\ afterwards' = afterwards
    BY <1>2, <1>3 DEF StopEach
  <2>1. place' \in Places
    BY <2>0 DEF Places
  <2>2. PlaceIs(place)' /\ place'[1] = "gone"
    BY <2>0, <2>1, PlacesDiffer DEF PlaceIs
  <2>3. StackTypes'
    BY <1>1, <1>2, <2>0, <2>1 DEF StackInv, StackTypes
  <2>4. Known'
    BY <1>1, <1>2, <2>0 DEF StackInv, Known, AreSpawned
  <2>5. Progress'
    BY <2>2 DEF Progress, PlaceIs
  <2>6. Stops'
    BY <2>0, <1>1, NothingStops
  <2>7. NoneForgotten'
    BY <1>1, <1>3 DEF NoneForgotten, Listed, Alive
  <2>8. InOrder'
    BY <1>1, <1>2, <2>0 DEF StackInv, InOrder, DependentsAhead, DependentsBehind, Service
  <2>9. StillAnswers'
    BY <1>1, <1>2, <2>0 DEF StackInv, StillAnswers
  <2> QED BY <1>1, <2>3, <2>4, <2>5, <2>6, <2>7, <2>8, <2>9 DEF StackInv
<1>4. CASE list # << >>
  <2>0. place' = place /\ toStop' = list /\ afterwards' = End
    BY <1>4 DEF StopEach
  <2>1. Stopping' /\ StopsAll'
    BY <2>0, <1>4 DEF Stopping, StopsAll
  <2>3. StackTypes'
    BY <1>1, <1>2, <2>0 DEF StackInv, StackTypes
  <2>4. Known'
    BY <1>1, <1>2, <2>0 DEF StackInv, Known, AreSpawned
  <2>5. Progress'
    BY <1>1, <1>2, <2>0 DEF StackInv, Progress, Service
  <2>6. Stops'
    <3>1. restarted => place \in {<<"ready", "">>, <<"spawn", "backend">>, <<"wait", "backend">>, End}
      BY DEF StackInv, Stops
    <3> QED BY <3>1, <2>0, <1>1, <1>2 DEF Stops
  <2>7. NoneForgotten'
    BY <1>1, <2>0, <2>1 DEF NoneForgotten, Listed, Alive
  <2>8. InOrder'
    BY <1>1, <1>2, <2>0 DEF StackInv, InOrder, DependentsAhead, DependentsBehind, Service
  <2>9. StillAnswers'
    BY <1>1, <1>2, <2>1 DEF StackInv, StillAnswers
  <2> QED BY <1>1, <2>3, <2>4, <2>5, <2>6, <2>7, <2>8, <2>9 DEF StackInv
<1> QED BY <1>3, <1>4

\* Reversed, the children are a list that can be stopped from its front.
LEMMA OrderOfChildren ==
  ASSUME StackInv
  PROVE  /\ Order(children) \in Seq(Nat)
         /\ \A i \in 1..Len(Order(children)) : Order(children)[i] \in 1..Len(procs)
         /\ \A p : Listed(children, p) => Listed(Order(children), p)
         /\ DependentsAhead(Order(children))
<1> DEFINE n == Len(children)
<1>1. n \in Nat /\ children \in Seq(Nat) /\ \A i \in 1..n : children[i] \in 1..Len(procs)
  BY DEF StackInv, StackTypes, Known, AreSpawned
<1>2. Order(children) = [i \in 1..n |-> children[(n - i) + 1]]
  BY DEF Order, Reverse
<1>3. \A i \in 1..n : (n - i) + 1 \in 1..n /\ (n - ((n - i) + 1)) + 1 = i
  BY <1>1
<1>4. /\ Order(children) \in Seq(Nat) /\ Len(Order(children)) = n
      /\ \A i \in 1..n : Order(children)[i] = children[(n - i) + 1]
  BY <1>1, <1>2, <1>3
<1>5. ASSUME NEW p, Listed(children, p) PROVE Listed(Order(children), p)
  <2>1. PICK i \in 1..n : children[i] = p
    BY <1>5 DEF Listed
  <2>2. (n - i) + 1 \in 1..n /\ Order(children)[(n - i) + 1] = p
    BY <2>1, <1>3, <1>4
  <2> QED BY <2>2, <1>4 DEF Listed
<1>6. DependentsAhead(Order(children))
  <2> SUFFICES ASSUME NEW i \in 1..n, NEW j \in 1..n, i < j,
                      Service(Order(children)[i]) \in {"db", "chain"}
               PROVE  Service(Order(children)[j]) # "backend"
    BY <1>4 DEF DependentsAhead
  <2>1. (n - j) + 1 < (n - i) + 1 /\ (n - j) + 1 \in 1..n /\ (n - i) + 1 \in 1..n
    BY <1>1, <1>3
  <2>2. DependentsBehind(children)
    BY DEF StackInv, InOrder
  <2>3. Service(children[(n - i) + 1]) \in {"db", "chain"}
    BY <1>4
  <2>4. Service(children[(n - j) + 1]) # "backend"
    BY <2>1, <2>2, <2>3 DEF DependentsBehind
  <2> QED BY <2>4, <1>4
<1> QED BY <1>1, <1>3, <1>4, <1>5, <1>6

\* When startStack fails, when a test run ends and after Ctrl+C.
LEMMA ShutdownKeeps ==
  ASSUME StackInv, ~Stopping, place # End, place # <<"wait", "db">>, Shutdown,
         UNCHANGED <<children, procs, port, restarted, deaths, foreigns>>
  PROVE  StackInv'
<1>1. \A p \in 1..Len(procs) : Alive(p) => Listed(Order(children), p)
  BY OrderOfChildren DEF StackInv, NoneForgotten, StopsAll
<1> QED BY <1>1, OrderOfChildren, StopAllKeeps DEF Shutdown

LEMMA TimedOutKeeps == ASSUME StackInv, NEW s \in Ports, TimedOut(s) PROVE StackInv'
<1>0. /\ UNCHANGED <<children, procs, port, restarted, deaths, foreigns>>
      /\ ~Stopping /\ place = <<"wait", s>> /\ place \in Places
  BY DEF TimedOut, world, StackInv, StackTypes
<1>1. PlaceIs(place) /\ place[1] = "wait" /\ place[2] = s
  BY <1>0, PlacesDiffer
<1>2. place # End
  BY <1>1 DEF PlaceIs
<1>3. CASE s = "db"
  <2>1. Len(procs) = 1 /\ StopEach(<<Len(procs)>>, End)
    BY <1>0, <1>3 DEF StackInv, Progress, TimedOut
  <2>2. /\ <<Len(procs)>> \in Seq(Nat) /\ Len(<<Len(procs)>>) = 1 /\ <<Len(procs)>>[1] = 1
    BY <2>1
  <2> DEFINE list == <<Len(procs)>>
  <2>3. list \in Seq(Nat) /\ Len(list) = 1 /\ list[1] = 1 /\ Len(procs) = 1 /\ StopEach(list, End)
    BY <2>1, <2>2
  <2> HIDE DEF list
  <2>4. /\ \A i \in 1..Len(list) : list[i] \in 1..Len(procs)
        /\ \A p \in 1..Len(procs) : Listed(list, p)
        /\ DependentsAhead(list)
    BY <2>3 DEF Listed, DependentsAhead
  <2> QED BY <1>0, <1>2, <2>3, <2>4, StopAllKeeps
<1>4. CASE s # "db"
  <2>1. Shutdown
    BY <1>4 DEF TimedOut
  <2>2. place # <<"wait", "db">>
    BY <1>1, <1>4 DEF PlaceIs
  <2> QED BY <1>0, <1>2, <2>1, <2>2, ShutdownKeeps
<1> QED BY <1>3, <1>4

\* The build of the server goes well, or the script stops what it started.
LEMMA RunKeeps == ASSUME StackInv, Run PROVE StackInv'
<1>0. /\ UNCHANGED <<children, procs, port, restarted, interrupted, deaths, foreigns>>
      /\ ~Stopping /\ place = <<"run", "backend">> /\ place \in Places
  BY DEF Run, world, StackInv, StackTypes
<1>1. PlaceIs(place) /\ place # End /\ place # <<"wait", "db">>
  BY <1>0, PlacesDiffer DEF PlaceIs
<1>2. CASE Shutdown
  BY <1>0, <1>1, <1>2, ShutdownKeeps
<1>3. CASE place' = <<"spawn", "backend">> /\ UNCHANGED <<toStop, afterwards>>
  <2>0. place' \in Places
    BY <1>3, PortsAre DEF Places
  <2>1. PlaceIs(place)' /\ (restarted' <=> restarted) /\ ~restarted /\ toStop' = << >> /\ toStop' = toStop
        /\ place' # End
    BY <1>0, <1>1, <1>3, <2>0, PlacesDiffer DEF StackInv, Stops, PlaceIs, Stopping
  <2>2. /\ Held' /\ DependentsFirst' /\ ~StopsAll' /\ ~StopsAll
        /\ \A p \in 1..Len(procs) : procs[p].state # "stopping"
    BY <1>0, <1>1, <1>3, ScriptMoves DEF StopsAll
  <2>3. StackTypes'
    BY <1>0, <1>3, <2>0 DEF StackInv, StackTypes
  <2>4. Known' /\ InOrder'
    BY <1>0, <2>1 DEF StackInv, Known, AreSpawned, InOrder, DependentsAhead, DependentsBehind,
                      Service
  <2>5. Progress'
    BY <1>3, <2>1 DEF Progress, PlaceIs
  <2>6. Stops'
    BY <1>0, <2>1, <2>2, NothingStops
  <2>7. NoneForgotten'
    BY <1>0, <1>1, <2>1, <2>2 DEF StackInv, NoneForgotten, Listed, Alive
  <2>8. StillAnswers'
    <3>1. ASSUME NEW t \in Ports, HasAnswered(t)' PROVE HasAnswered(t)
      BY <3>1, <1>0, <1>1, <1>3, <2>1 DEF HasAnswered, PlaceIs
    <3> QED BY <3>1, <1>0, <1>1, <2>2 DEF StackInv, StillAnswers
  <2> QED BY <2>2, <2>3, <2>4, <2>5, <2>6, <2>7, <2>8 DEF StackInv
<1> QED BY <1>2, <1>3 DEF Run

\* The test restarts the backend: nothing else is told to stop.
LEMMA RestartKeeps == ASSUME StackInv, RestartBackend PROVE StackInv'
<1> DEFINE b == CHOOSE p \in 1..Len(procs) : procs[p].service = "backend"
<1>0. /\ UNCHANGED <<children, procs, port, interrupted, deaths, foreigns>>
      /\ ~Stopping /\ place = <<"ready", "">> /\ place \in Places /\ restarted' = TRUE
      /\ StopEach(<<b>>, <<"spawn", "backend">>)
  BY DEF RestartBackend, Ready, StackInv, StackTypes
<1>1. b \in 1..Len(procs) /\ Service(b) = "backend"
  <2>1. \E p \in 1..Len(procs) : procs[p].service = "backend"
    BY <1>0 DEF StackInv, Progress, Service
  <2> QED BY <2>1 DEF Service
<1>2. /\ place' = place /\ toStop' = <<b>> /\ afterwards' = <<"spawn", "backend">>
  BY <1>0 DEF StopEach
<1> HIDE DEF b
<1>3. /\ toStop' \in Seq(Nat) /\ Len(toStop') = 1 /\ toStop'[1] = b /\ toStop' # << >>
  BY <1>1, <1>2
<1>4. PlaceIs(place) /\ place # End /\ place # <<"wait", "db">> /\ PlaceIs(afterwards)' /\ afterwards' # End
  <2>1. afterwards' \in Places
    BY <1>2, PortsAre DEF Places
  <2> QED BY <2>1, <1>0, <1>2, PlacesDiffer DEF PlaceIs
<1>5. ~StopsAll' /\ ~StopsAll /\ Stopping'
  BY <1>0, <1>3, <1>4 DEF StopsAll, Stopping
<1>6. StackTypes'
  BY <1>0, <1>2, <1>3 DEF StackInv, StackTypes
<1>7. Known'
  <2>1. AreSpawned(toStop)'
    <3>1. Len(toStop') = 1 /\ toStop'[1] \in 1..Len(procs') /\ Len(procs') = Len(procs)
      BY <1>0, <1>1, <1>3
    <3> QED BY <3>1 DEF AreSpawned
  <2>2. AreSpawned(children)'
    BY <1>0 DEF StackInv, Known, AreSpawned
  <2> QED BY <1>0, <2>1, <2>2 DEF StackInv, Known
<1>8. Progress'
  BY <1>0, <1>2 DEF StackInv, Progress, Service
<1>9. \A p \in 1..Len(procs) : procs[p].state # "stopping"
  BY <1>0, <1>4 DEF StackInv, Stops
<1>10. Stops'
  BY <1>0, <1>1, <1>2, <1>3, <1>4, <1>9 DEF Stops, Service
<1>11. NoneForgotten'
  BY <1>0, <1>2, <1>4, <1>5 DEF StackInv, NoneForgotten, Listed, Alive
<1>12. InOrder'
  <2>1. DependentsAhead(toStop)'
    BY <1>3 DEF DependentsAhead
  <2>2. DependentsBehind(children)'
    BY <1>0 DEF StackInv, InOrder, DependentsBehind, Service
  <2> QED BY <2>1, <2>2 DEF InOrder
<1>13. Held' /\ DependentsFirst'
  BY <1>0 DEF StackInv, Held, Service, DependentsFirst
<1>14. StillAnswers'
  <2>1. ASSUME NEW t \in Ports, HasAnswered(t)' PROVE HasAnswered(t)
    BY <2>1, <1>0, <1>2, <1>5 DEF HasAnswered
  <2> QED BY <2>1, <1>0, <1>4, <1>5 DEF StackInv, StillAnswers
<1> QED BY <1>6, <1>7, <1>8, <1>10, <1>11, <1>12, <1>13, <1>14 DEF StackInv

LEMMA FinishKeeps == ASSUME StackInv, Finish PROVE StackInv'
<1>0. /\ UNCHANGED <<children, procs, port, restarted, deaths, foreigns>> /\ Shutdown
      /\ ~Stopping /\ place = <<"ready", "">> /\ place \in Places
  BY DEF Finish, Ready, world, StackInv, StackTypes
<1>1. place # End /\ place # <<"wait", "db">>
  BY <1>0, PlacesDiffer DEF PlaceIs
<1> QED BY <1>0, <1>1, ShutdownKeeps

LEMMA InterruptKeeps == ASSUME StackInv, Interrupt PROVE StackInv'
<1>0. UNCHANGED <<children, procs, port, restarted, deaths, foreigns>> /\ place # End /\ place \in Places
  BY DEF Interrupt, StackInv, StackTypes
<1>1. CASE Handled
  <2>1. ~Stopping /\ Shutdown /\ place = <<"ready", "">>
    BY <1>1 DEF Interrupt, Handled
  <2>2. place # <<"wait", "db">>
    BY <2>1, <1>0, PlacesDiffer DEF PlaceIs
  <2> QED BY <1>0, <2>1, <2>2, ShutdownKeeps
<1>2. CASE ~Handled
  <2>0. place' = End /\ toStop' = << >> /\ interrupted' = TRUE /\ afterwards' = afterwards
        /\ (restarted' <=> restarted)
    BY <1>0, <1>2 DEF Interrupt
  <2>1. place' \in Places
    BY <2>0 DEF Places
  <2>2. PlaceIs(place)' /\ place'[1] = "gone"
    BY <2>0, <2>1, PlacesDiffer DEF PlaceIs
  <2>3. StackTypes'
    BY <1>0, <2>0, <2>1 DEF StackInv, StackTypes
  <2>4. Known'
    BY <1>0, <2>0 DEF StackInv, Known, AreSpawned
  <2>5. Progress'
    BY <2>2 DEF Progress, PlaceIs
  <2>6. Stops'
    BY <2>0 DEF Stops, Stopping
  <2>7. NoneForgotten'
    BY <2>0 DEF NoneForgotten
  <2>8. InOrder'
    BY <1>0, <2>0 DEF StackInv, InOrder, DependentsAhead, DependentsBehind, Service
  <2>9. StillAnswers'
    BY <1>0, <2>0 DEF StackInv, StillAnswers
  <2>10. Held' /\ DependentsFirst'
    BY <1>0 DEF StackInv, Held, Service, DependentsFirst
  <2> QED BY <2>3, <2>4, <2>5, <2>6, <2>7, <2>8, <2>9, <2>10 DEF StackInv
<1> QED BY <1>1, <1>2

\* The script goes on to the next process to stop, once the first one is gone.
LEMMA StopNextKeeps ==
  ASSUME StackInv, Stopping, StopNext,
         procs' \in Seq(Processes), Len(procs') = Len(procs),
         \A q \in 1..Len(procs) :
           /\ procs'[q].service = procs[q].service
           /\ procs'[q].state = procs[q].state \/ procs'[q].state = "gone",
         procs'[toStop[1]].state = "gone",
         port' \in [Ports -> {Free, Foreign} \union (Nat \ {0})],
         \A s \in Ports :
           \/ port'[s] = port[s]
           \/ port'[s] = Free /\ (afterwards # End => s = "backend"),
         Held'
  PROVE  StackInv'
<1>0. /\ UNCHANGED <<children, afterwards, restarted, interrupted, deaths, foreigns>>
      /\ toStop' = Tail(toStop) /\ toStop \in Seq(Nat) /\ toStop # << >> /\ place \in Places
      /\ (restarted' <=> restarted) /\ place # End
  BY DEF StopNext, world, Stopping, StackInv, StackTypes, Stops
<1>1. /\ toStop' \in Seq(Nat) /\ Len(toStop') = Len(toStop) - 1 /\ Len(toStop) \in Nat \ {0}
      /\ \A i \in 1..Len(toStop') : toStop'[i] = toStop[i + 1] /\ i + 1 \in 1..Len(toStop)
  BY <1>0, HeadTailProperties
<1>2. Known'
  <2>1. AreSpawned(children)'
    BY <1>0 DEF StackInv, Known, AreSpawned
  <2>2. AreSpawned(toStop)'
    BY <1>1 DEF StackInv, Known, AreSpawned
  <2>3. \A s \in Ports : port'[s] <= Len(procs)
    <3>1. Len(procs) \in Nat /\ \A s \in Ports : port[s] <= Len(procs)
      BY DEF StackInv, Known, StackTypes
    <3> QED BY <3>1 DEF Free
  <2> QED BY <2>1, <2>2, <2>3 DEF Known
<1>3. InOrder'
  <2>1. DependentsBehind(children)'
    <3>1. DependentsBehind(children) /\ AreSpawned(children) /\ children' = children
      BY <1>0 DEF StackInv, InOrder, Known
    <3> QED BY <3>1 DEF AreSpawned, DependentsBehind, Service
  <2>2. DependentsAhead(toStop)'
    <3>1. DependentsAhead(toStop) /\ AreSpawned(toStop)
      BY DEF StackInv, InOrder, Known
    <3>2. ASSUME NEW i \in 1..Len(toStop'), NEW j \in 1..Len(toStop'), i < j,
                 procs'[toStop'[i]].service \in {"db", "chain"}
          PROVE  procs'[toStop'[j]].service # "backend"
      <4>1. /\ i + 1 \in 1..Len(toStop) /\ j + 1 \in 1..Len(toStop) /\ i + 1 < j + 1
            /\ toStop'[i] = toStop[i + 1] /\ toStop'[j] = toStop[j + 1]
        BY <1>1, <3>2
      <4>2. toStop[i + 1] \in 1..Len(procs) /\ toStop[j + 1] \in 1..Len(procs)
        BY <3>1, <4>1 DEF AreSpawned
      <4>3. Service(toStop[i + 1]) \in {"db", "chain"}
        BY <3>2, <4>1, <4>2 DEF Service
      <4>4. Service(toStop[j + 1]) # "backend"
        BY <3>1, <4>1, <4>3 DEF DependentsAhead
      <4> QED BY <4>1, <4>2, <4>4 DEF Service
    <3> QED BY <3>2 DEF DependentsAhead, Service
  <2> QED BY <2>1, <2>2 DEF InOrder
<1>4. \A q \in 1..Len(procs) : procs'[q].state # "stopping"
  BY <1>0 DEF StackInv, Stops
<1>5. DependentsFirst'
  BY <1>4 DEF DependentsFirst
<1>6. CASE Len(toStop) = 1
  <2>0. place' = afterwards /\ afterwards \in {End, <<"spawn", "backend">>} /\ toStop' = << >>
    <3>1. afterwards \in {End, <<"spawn", "backend">>}
      BY DEF StackInv, StackTypes
    <3>2. place' = afterwards
      BY <1>6 DEF StopNext
    <3>3. Len(toStop') = 0
      BY <1>1, <1>6
    <3>4. toStop' = << >>
      BY <1>1, <3>3
    <3> QED BY <3>1, <3>2, <3>4
  <2>1. place' \in Places
    BY <2>0, PortsAre DEF Places
  <2>2. PlaceIs(place)' /\ PlaceIs(place)
    BY <1>0, <2>1, PlacesDiffer
  <2>3. StackTypes'
    BY <1>0, <1>1, <2>1 DEF StackInv, StackTypes
  <2>4. Progress'
    BY <2>0, <2>2 DEF Progress, PlaceIs
  <2>5. Stops' /\ ~StopsAll' /\ ~Stopping'
    BY <2>0, <1>4, NothingStops
  <2>6. afterwards # End => restarted /\ place = <<"ready", "">> /\ ~StopsAll
    BY DEF StackInv, Stops, StopsAll
  <2>7. NoneForgotten'
    <3> SUFFICES ASSUME NEW p \in 1..Len(procs), procs'[p].state # "gone"
                 PROVE  place' # End /\ Listed(children, p)
      BY <1>0, <2>5 DEF NoneForgotten, Alive, Listed
    <3>1. Alive(p) /\ p # toStop[1]
      BY DEF Alive
    <3>2. afterwards # End
      <4> SUFFICES ASSUME afterwards = End PROVE FALSE
        OBVIOUS
      <4>1. Listed(toStop, p)
        BY <1>0, <3>1 DEF StackInv, NoneForgotten, StopsAll, Stopping
      <4> QED BY <4>1, <3>1, <1>6 DEF Listed
    <3>3. Listed(children, p)
      BY <1>0, <2>2, <2>6, <3>1, <3>2 DEF StackInv, NoneForgotten, PlaceIs
    <3> QED BY <2>0, <3>2, <3>3
  <2>8. StillAnswers'
    <3>1. foreigns' = 0 => \A s \in Ports : port'[s] # Foreign
      <4>1. foreigns' = 0 => \A s \in Ports : port[s] # Foreign
        BY <1>0 DEF StackInv, StillAnswers
      <4> QED BY <4>1 DEF Free, Foreign
    <3>2. ASSUME deaths' = 0, foreigns' = 0, place' # End, NEW s \in Ports, HasAnswered(s)'
          PROVE  port'[s] # Free
      <4>1. afterwards # End /\ place' = <<"spawn", "backend">>
        BY <2>0, <3>2
      <4>2. HasAnswered(s) /\ s # "backend"
        BY <3>2, <4>1, <2>2, <2>6 DEF HasAnswered, PlaceIs
      <4>3. port[s] # Free
        BY <3>2, <4>1, <4>2, <2>6, <1>0 DEF StackInv, StillAnswers
      <4> QED BY <4>1, <4>2, <4>3
    <3> QED BY <3>1, <3>2 DEF StillAnswers
  <2> QED BY <1>2, <1>3, <1>5, <2>3, <2>4, <2>5, <2>7, <2>8 DEF StackInv
<1>7. CASE Len(toStop) # 1
  <2>0. place' = place /\ toStop' # << >> /\ afterwards = End
    <3>1. place' = place
      BY <1>7 DEF StopNext
    <3>2. Len(toStop') # 0
      BY <1>1, <1>7
    <3>3. afterwards = End
      BY <1>7 DEF StackInv, Stops
    <3> QED BY <3>1, <3>2, <3>3
  <2>1. StopsAll /\ StopsAll' /\ Stopping'
    BY <1>0, <2>0 DEF StopsAll, Stopping
  <2>3. StackTypes'
    BY <1>0, <1>1, <2>0 DEF StackInv, StackTypes
  <2>4. Progress'
    <3>1. place \in {<<"wait", "backend">>, <<"spawn", "web">>, <<"wait", "web">>, <<"ready", "">>} =>
            \E p \in 1..Len(procs') : procs'[p].service = "backend"
      BY DEF StackInv, Progress, Service
    <3>2. place = <<"wait", "db">> => Len(procs') = 1 /\ procs'[1].service = "db" /\ children' = << >>
      BY <1>0 DEF StackInv, Progress, Service
    <3>3. place = <<"spawn", "chain">> => \A p \in 1..Len(procs') : procs'[p].service = "db"
      BY DEF StackInv, Progress, Service
    <3>4. place \in {<<"ports", "">>, <<"spawn", "db">>} => Len(procs') = 0
      BY DEF StackInv, Progress
    <3> QED BY <2>0, <3>1, <3>2, <3>3, <3>4 DEF Progress, Service
  <2>5. Stops'
    <3>1. restarted => place \in {<<"ready", "">>, <<"spawn", "backend">>, <<"wait", "backend">>, End}
      BY DEF StackInv, Stops
    <3>2. afterwards' = End /\ \A q \in 1..Len(procs') : procs'[q].state # "stopping"
      BY <1>0, <1>4, <2>0
    <3> QED BY <3>1, <3>2, <1>0, <2>0 DEF Stops
  <2>7. NoneForgotten'
    <3> SUFFICES ASSUME NEW p \in 1..Len(procs), procs'[p].state # "gone"
                 PROVE  Listed(toStop, p)'
      BY <2>1 DEF NoneForgotten, Alive
    <3>1. Alive(p) /\ p # toStop[1]
      BY DEF Alive
    <3>2. Listed(toStop, p)
      BY <1>0, <2>1, <3>1 DEF StackInv, NoneForgotten
    <3>3. PICK i \in 1..Len(toStop) : toStop[i] = p
      BY <3>2 DEF Listed
    <3>4. i - 1 \in 1..Len(toStop') /\ toStop'[i - 1] = p
      BY <1>1, <3>1, <3>3
    <3> QED BY <3>4 DEF Listed
  <2>8. StillAnswers'
    BY <1>0, <2>1 DEF StackInv, StillAnswers, Free, Foreign
  <2> QED BY <1>2, <1>3, <1>5, <2>3, <2>4, <2>5, <2>7, <2>8 DEF StackInv
<1> QED BY <1>6, <1>7

\* The first process to stop, while there is one.
LEMMA FirstToStop ==
  ASSUME StackInv, Stopping
  PROVE  Head(toStop) = toStop[1] /\ toStop[1] \in 1..Len(procs)
<1>1. toStop \in Seq(Nat) /\ toStop # << >> /\ AreSpawned(toStop)
  BY DEF StackInv, StackTypes, Stopping, Known
<1>2. Head(toStop) = toStop[1] /\ 1 \in 1..Len(toStop)
  BY <1>1
<1> QED BY <1>1, <1>2 DEF AreSpawned

LEMMA ExitedKeeps == ASSUME StackInv, Exited PROVE StackInv'
<1>1. /\ Stopping /\ StopNext /\ procs' = procs /\ port' = port
      /\ procs[toStop[1]].state = "gone"
  BY FirstToStop DEF Exited, Alive
<1>2. /\ procs \in Seq(Processes) /\ Held'
      /\ port \in [Ports -> {Free, Foreign} \union (Nat \ {0})]
  BY <1>1 DEF StackInv, StackTypes, Held, Service
<1> QED BY <1>1, <1>2, StopNextKeeps

LEMMA KillKeeps == ASSUME StackInv, Kill PROVE StackInv'
<1>1. /\ Stopping /\ StopNext /\ Gone(toStop[1]) /\ procs[toStop[1]].state = "stopping"
      /\ toStop[1] \in 1..Len(procs)
  BY FirstToStop DEF Kill, PatienceEnds
<1>2. /\ procs' = [procs EXCEPT ![toStop[1]].state = "gone"]
      /\ port' \in [Ports -> {Free, Foreign} \union (Nat \ {0})]
      /\ \A s \in Ports : port'[s] = port[s] \/ (port'[s] = Free /\ s = Service(toStop[1]))
  BY <1>1, GoneEffect
<1>3. /\ procs' \in Seq(Processes) /\ Len(procs') = Len(procs)
      /\ \A q \in 1..Len(procs) :
            /\ procs'[q].service = procs[q].service
            /\ procs'[q].state = IF q = toStop[1] THEN "gone" ELSE procs[q].state
  BY <1>1, <1>2, StateSet DEF StackInv
<1>4. Held'
  BY <1>1, HeldByOthers
<1>5. afterwards # End => Service(toStop[1]) = "backend"
  BY <1>1 DEF StackInv, Stops
<1> QED BY <1>1, <1>2, <1>3, <1>4, <1>5, StopNextKeeps

-----------------------------------------------------------------------------
(* The local stack: what holds                                             *)

LEMMA StackStarts == StackInit => StackInv
<1> SUFFICES ASSUME StackInit PROVE StackInv
  OBVIOUS
<1>0. /\ place = <<"ports", "">> /\ children = << >> /\ procs = << >> /\ toStop = << >>
      /\ afterwards = End /\ port = [s \in Ports |-> Free]
      /\ restarted = FALSE /\ deaths = 0 /\ foreigns = 0
  BY DEF StackInit
<1>1. place \in Places
  BY <1>0 DEF Places
<1>2. /\ PlaceIs(place) /\ Len(procs) = 0 /\ Len(children) = 0 /\ Len(toStop) = 0
      /\ ~restarted /\ ~Stopping /\ place # End
  BY <1>0, <1>1, PlacesDiffer DEF PlaceIs, Stopping
<1>3. /\ port \in [Ports -> {Free, Foreign} \union (Nat \ {0})]
      /\ \A s \in Ports : port[s] = Free
  BY <1>0
<1>4. StackTypes
  <2>1. procs \in Seq(Processes) /\ children \in Seq(Nat) /\ toStop \in Seq(Nat)
    BY <1>0, EmptySeq
  <2>3. deaths \in Nat /\ foreigns \in Nat
    BY <1>0
  <2>2. restarted \in BOOLEAN
    BY <1>0
  <2> QED BY <1>0, <1>1, <1>3, <2>1, <2>2, <2>3 DEF StackTypes
<1>5. Known /\ Held
  BY <1>2, <1>3 DEF Known, AreSpawned, Held, Free
<1>6. NoneForgotten /\ DependentsFirst
  BY <1>2 DEF NoneForgotten, DependentsFirst
<1>7. Progress
  BY <1>0, <1>2 DEF Progress, PlaceIs
<1>8. Stops /\ InOrder
  <2>1. Stops
    <3>1. \A p \in 1..Len(procs) : FALSE
      BY <1>2
    <3> QED BY <3>1, <1>2 DEF Stops
  <2>2. InOrder
    BY <1>2 DEF InOrder, DependentsAhead, DependentsBehind
  <2> QED BY <2>1, <2>2
<1>9. StillAnswers
  <2>1. ASSUME NEW s \in Ports PROVE ~HasAnswered(s)
    BY <1>0, <1>2 DEF HasAnswered, PlaceIs
  <2> QED BY <1>3, <2>1 DEF StillAnswers, Free, Foreign
<1> QED BY <1>4, <1>5, <1>6, <1>7, <1>8, <1>9 DEF StackInv

LEMMA StackStep == StackInv /\ [StackNext]_stackVars => StackInv'
<1> SUFFICES ASSUME StackInv, [StackNext]_stackVars PROVE StackInv'
  OBVIOUS
<1>1. ASSUME NEW p \in 1..Len(procs), Listen(p) \/ Die(p) PROVE StackInv'
  BY <1>1, ListenKeeps, DieKeeps
<1>2. ASSUME NEW s \in Ports, TakePort(s) \/ Spawn(s) \/ Answered(s) \/ TimedOut(s)
      PROVE  StackInv'
  BY <1>2, TakePortKeeps, SpawnKeeps, AnsweredKeeps, TimedOutKeeps
<1>3. ASSUME CheckPorts \/ SpawnDb \/ Run PROVE StackInv'
  BY <1>3, CheckPortsKeeps, SpawnDbKeeps, RunKeeps
<1>4. ASSUME Terminate \/ Exited \/ Kill PROVE StackInv'
  BY <1>4, TerminateKeeps, ExitedKeeps, KillKeeps
<1>5. ASSUME RestartBackend \/ Finish \/ Interrupt PROVE StackInv'
  BY <1>5, RestartKeeps, FinishKeeps, InterruptKeeps
<1>6. ASSUME UNCHANGED stackVars PROVE StackInv'
  <2>0. /\ UNCHANGED <<place, children, procs, port, toStop, afterwards, restarted, interrupted>>
        /\ UNCHANGED <<deaths, foreigns>>
    BY <1>6 DEF stackVars
  <2>1. StackTypes'
    BY <2>0 DEF StackInv, StackTypes
  <2>2. Known' /\ Progress' /\ InOrder'
    BY <2>0, SameShape DEF StackInv, Known
  <2>3. Stops' /\ NoneForgotten'
    BY <2>0 DEF StackInv, Stops, Stopping, NoneForgotten, StopsAll, Listed, Alive, Service
  <2>4. Held' /\ DependentsFirst'
    BY <2>0 DEF StackInv, Held, DependentsFirst, Service
  <2>5. StillAnswers'
    BY <2>0 DEF StackInv, StillAnswers, HasAnswered, StopsAll, Stopping
  <2> QED BY <2>1, <2>2, <2>3, <2>4, <2>5 DEF StackInv
<1> QED BY <1>1, <1>2, <1>3, <1>4, <1>5, <1>6 DEF StackNext, Script

LEMMA StackAlways == StackSpec => []StackInv
BY StackStarts, StackStep, PTL DEF StackSpec

\* At whichever step the script fails and whichever services die meanwhile, a
\* script that ends by itself has stopped every process it started, and asked
\* the database and the chain to stop when no backend ran any more
\* (stack.mjs:23-33, processes.mjs:21-41, local.mjs:11-25).
THEOREM StackStopsCleanly == StackSpec => []StopsCleanly
<1>1. ASSUME StackInv PROVE NothingLeft
  <2> SUFFICES ASSUME place = End, ~interrupted, NEW p \in 1..Len(procs), Alive(p) PROVE FALSE
    BY DEF NothingLeft
  <2>1. toStop = << >>
    BY <1>1 DEF StackInv, Stops
  <2> QED BY <1>1, <2>1 DEF StackInv, NoneForgotten, StopsAll, Stopping
<1>2. StackInv => StopsCleanly
  BY <1>1 DEF StackInv, StopsCleanly
<1> QED BY <1>2, StackAlways, PTL

\* A stack that is reported ready, at the start or after the restart of its
\* backend, has its own four services listening while none dies and no other
\* program takes a port (processes.mjs:43-66, stack.mjs:35-97).
THEOREM StackServes == StackSpec => []ReadyServes
<1>1. ASSUME StackInv, Ready, deaths = 0, foreigns = 0, NEW s \in Ports
      PROVE  port[s] \in 1..Len(procs) /\ procs[port[s]].service = s
  <2>1. place = <<"ready", "">> /\ ~Stopping /\ place \in Places
    BY <1>1 DEF Ready, StackInv, StackTypes
  <2>2. PlaceIs(place) /\ place # End /\ ~StopsAll
    BY <2>1, PlacesDiffer DEF PlaceIs, StopsAll
  <2>3. HasAnswered(s)
    BY <2>1, <2>2, PortsAre DEF HasAnswered, PlaceIs
  <2>4. port[s] # Free /\ port[s] # Foreign
    BY <1>1, <2>2, <2>3 DEF StackInv, StillAnswers
  <2>5. port[s] \in 1..Len(procs)
    BY <1>1, <2>4 DEF StackInv, StackTypes, Known, Free, Foreign
  <2> QED BY <1>1, <2>4, <2>5 DEF StackInv, Held, Service
<1>2. StackInv => ReadyServes
  BY <1>1 DEF ReadyServes
<1> QED BY <1>2, StackAlways, PTL

-----------------------------------------------------------------------------
(* The backend process                                                     *)

BackendTypes ==
  /\ main \in [Procs -> {"opened", "serving", "draining", "joining", "closing", "exited"}]
  /\ cancelled \in [Procs -> BOOLEAN] /\ gaveUp \in [Procs -> BOOLEAN]
  /\ listener \in [Procs -> {"up", "failed", "closed"}]
  /\ worker \in [Procs -> {"none", "waiting", "passing", "writing", "done"}]
  /\ handler \in [Procs -> [Requests -> {"idle", "begun", "reading", "failed"}]]
  /\ lock \in Procs \cup {Nobody}

\* Who holds the lock is between taking and releasing it.
LockInUse == \A p \in Procs : lock = p => main[p] \in {"serving", "draining", "joining"}

\* A worker that may still work belongs to the holder of the lock, and there is
\* none before the lock is asked for or after the exit.
WorkerOwnsLock ==
  \A p \in Procs :
    /\ worker[p] \in {"waiting", "passing", "writing"} => lock = p
    /\ main[p] \in {"opened", "exited"} => worker[p] = "none"

ListensWhileServing == \A p \in Procs : listener[p] # "closed" => main[p] = "serving"

\* Requests that outlive the wait for them do so because it was given up.
LateOnesGivenUp ==
  \A p \in Procs : \A r \in Requests :
    /\ main[p] = "opened" => handler[p][r] = "idle"
    /\ main[p] \in {"joining", "closing"} /\ handler[p][r] \in {"begun", "reading"} => gaveUp[p]

LifeInv ==
  BackendTypes /\ LockInUse /\ WorkerOwnsLock /\ ListensWhileServing /\ LateOnesGivenUp /\ NoneCutOff

LEMMA LifeStarts == LifeInit => LifeInv
BY BackendLifeAssumption
   DEF LifeInit, LifeInv, BackendTypes, LockInUse, WorkerOwnsLock, ListensWhileServing,
       LateOnesGivenUp, NoneCutOff, AllIdle

\* A step of main keeps the invariant.
LEMMA MainKeeps ==
  ASSUME LifeInv, NEW p \in Procs, StartProcess(p) \/ RunMain(p)
  PROVE  LifeInv'
<1> USE BackendLifeAssumption
    DEF LifeInv, BackendTypes, LockInUse, WorkerOwnsLock, ListensWhileServing, LateOnesGivenUp,
        NoneCutOff, AllIdle
<1>1. CASE StartProcess(p)
  BY <1>1 DEF StartProcess
<1>2. CASE TakeLock(p)
  BY <1>2 DEF TakeLock
<1>3. CASE LockRefused(p)
  BY <1>3 DEF LockRefused
<1>4. CASE BeginShutdown(p)
  BY <1>4 DEF BeginShutdown, AfterShutdown
<1>5. CASE EndShutdown(p)
  <2>0. /\ main[p] = "draining" /\ main' = [main EXCEPT ![p] = "joining"]
        /\ cancelled' = [cancelled EXCEPT ![p] = TRUE]
        /\ UNCHANGED <<listener, worker, handler, lock>>
    BY <1>5 DEF EndShutdown
  <2>1. CASE Drained(p) /\ gaveUp' = gaveUp
    <3>1. BackendTypes'
      BY <2>0, <2>1
    <3>2. LateOnesGivenUp' /\ NoneCutOff'
      BY <2>0, <2>1 DEF Drained
    <3>3. LockInUse' /\ WorkerOwnsLock' /\ ListensWhileServing'
      BY <2>0
    <3> QED BY <3>1, <3>2, <3>3
  <2>2. CASE gaveUp' = [gaveUp EXCEPT ![p] = TRUE]
    BY <2>0, <2>2
  <2> QED BY <1>5, <2>1, <2>2 DEF EndShutdown
<1>6. CASE Release(p)
  BY <1>6 DEF Release, Joined
<1>7. CASE Exit(p)
  BY <1>7 DEF Exit, Busy
<1> QED BY <1>1, <1>2, <1>3, <1>4, <1>5, <1>6, <1>7 DEF RunMain

\* So does a step of the worker or of a handler, and whatever happens to the
\* process.
LEMMA OthersKeep ==
  ASSUME LifeInv, NEW p \in Procs,
         Work(p) \/ Handle(p) \/ Signal(p) \/ ListenerFails(p) \/ KillProcess(p)
         \/ \E r \in Requests : Receive(p, r)
  PROVE  LifeInv'
<1> USE BackendLifeAssumption
    DEF LifeInv, BackendTypes, LockInUse, WorkerOwnsLock, ListensWhileServing, LateOnesGivenUp,
        NoneCutOff
<1>1. CASE Work(p)
  <2>1. CASE BeginPass(p)
    BY <2>1 DEF BeginPass, BecomeWorker
  <2>2. CASE BeginWrite(p)
    BY <2>2 DEF BeginWrite, BecomeWorker
  <2>3. CASE EndWrite(p)
    BY <2>3 DEF EndWrite, BecomeWorker
  <2>4. CASE EndPass(p)
    BY <2>4 DEF EndPass, BecomeWorker
  <2>5. CASE EndWorker(p)
    BY <2>5 DEF EndWorker, BecomeWorker
  <2> QED BY <1>1, <2>1, <2>2, <2>3, <2>4, <2>5 DEF Work
<1>2. CASE Handle(p)
  <2>1. PICK r \in Requests : Read(p, r) \/ ReadRefused(p, r) \/ Reply(p, r)
    BY <1>2 DEF Handle
  <2>2. CASE Read(p, r)
    BY <2>2 DEF Read, PoolOpen, BecomeHandler
  <2>3. CASE ReadRefused(p, r)
    BY <2>3 DEF ReadRefused, PoolOpen, BecomeHandler
  <2>4. CASE Reply(p, r)
    BY <2>4 DEF Reply, BecomeHandler
  <2> QED BY <2>1, <2>2, <2>3, <2>4
<1>3. CASE Signal(p)
  BY <1>3 DEF Signal
<1>4. CASE ListenerFails(p)
  BY <1>4 DEF ListenerFails
<1>5. CASE KillProcess(p)
  BY <1>5 DEF KillProcess, AllIdle
<1>6. CASE \E r \in Requests : Receive(p, r)
  BY <1>6 DEF Receive, BecomeHandler
<1> QED BY <1>1, <1>2, <1>3, <1>4, <1>5, <1>6

LEMMA LifeStep == LifeInv /\ [LifeNext]_lifeVars => LifeInv'
<1> SUFFICES ASSUME LifeInv, [LifeNext]_lifeVars PROVE LifeInv'
  OBVIOUS
<1>1. CASE LifeNext
  BY <1>1, MainKeeps, OthersKeep DEF LifeNext
<1>2. CASE UNCHANGED lifeVars
  BY <1>2 DEF lifeVars, LifeInv, BackendTypes, LockInUse, WorkerOwnsLock, ListensWhileServing,
              LateOnesGivenUp, NoneCutOff
<1> QED BY <1>1, <1>2

LEMMA LifeAlways == LifeSpec => []LifeInv
BY LifeStarts, LifeStep, PTL DEF LifeSpec

\* The types, and what a process that exited has given back: its worker, its
\* listener and the lock (main.go:133-146, store.go:62-68).
THEOREM LifeTypes == LifeSpec => []TypeOK
<1>1. LifeInv => TypeOK
  BY BackendLifeAssumption
     DEF LifeInv, BackendTypes, LockInUse, WorkerOwnsLock, ListensWhileServing, TypeOK
<1> QED BY <1>1, LifeAlways, PTL

\* However many processes start, stop, are killed and replace each other, a
\* worker that may write is that of the process with the lock (main.go:142).
THEOREM OnlyHolderWrites == LifeSpec => []WriterHoldsLock
<1>1. LifeInv => WriterHoldsLock
  BY DEF LifeInv, WorkerOwnsLock, WriterHoldsLock
<1> QED BY <1>1, LifeAlways, PTL

\* With any number of requests in flight, none finds the pool closed unless the
\* ten seconds of the shutdown ran out (main.go:138-142).
THEOREM RequestsAnswered == LifeSpec => []NoneCutOff
<1>1. LifeInv => NoneCutOff
  BY DEF LifeInv
<1> QED BY <1>1, LifeAlways, PTL

\* Both together, for any number of processes and requests.
THEOREM ReplacementIsClean == LifeSpec => []ReplacesCleanly
BY OnlyHolderWrites, RequestsAnswered, PTL DEF ReplacesCleanly
===============================================================================
