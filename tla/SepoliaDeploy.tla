----------------------------- MODULE SepoliaDeploy -----------------------------
(***************************************************************************)
(* scripts/deploy-sepolia.mjs: a deployment in nine transactions that can  *)
(* be interrupted and run again.  The checkpoint file maps the label of a  *)
(* step to the hash it was sent with; a step with a hash is not sent again *)
(* but waited for.  A process dies at any point, gives up waiting after    *)
(* 180 s, or stops at an error; the operator starts the script again.      *)
(*                                                                         *)
(* A transaction hash is its position in txs, and a contract or            *)
(* subscription is the hash that created it.  What the chain holds is read *)
(* off the transactions that succeeded.  One deployer sends everything, so *)
(* transactions are included in the order they were sent.  The write of    *)
(* the checkpoint file is taken to be atomic.                              *)
(***************************************************************************)
EXTENDS Integers, Sequences, FiniteSets

CONSTANTS
  MaxTxs,       \* bound: transactions sent
  MaxCrashes,   \* bound: processes that die
  MaxFailures   \* bound: transactions that fail for want of gas

ASSUME BoundsAssumption == MaxTxs \in Nat /\ MaxCrashes \in Nat /\ MaxFailures \in Nat

Steps == <<"createSubscription", "fundSubscription", "deployMockUSD8", "deployVRFProvider",
           "deployDLottery", "bindLottery", "addConsumer", "startDraw", "mintDeployer">>
Labels == {Steps[i] : i \in 1..Len(Steps)}

VARIABLES
  given,       \* what .env names already: a subscription, with its funds, a token
  txs,         \* transactions sent: label, arguments, fate
  file,        \* the checkpoint on disk: label -> hash, 0 when there is none
  manifest,    \* shared/deployment.json: the checkpoint it was written from
  pc, at,      \* the process: step, and where in transact; pc = 0 when none runs
  memo,        \* its copy of the checkpoint
  crashes, failures,
  lost         \* history: hashes sent and not saved when the process died

vars == <<given, txs, file, manifest, pc, at, memo, crashes, failures, lost>>

NoManifest == [label \in {} |-> 0]
Hashes     == 0..MaxTxs

Init ==
  /\ given \in SUBSET {"subscription", "funds", "token"}
  /\ "funds" \in given => "subscription" \in given
  /\ txs = <<>>
  /\ file = [label \in Labels |-> 0] /\ memo = file
  /\ manifest = NoManifest
  /\ pc = 0 /\ at = "idle"
  /\ crashes = 0 /\ failures = 0 /\ lost = {}

-----------------------------------------------------------------------------
(* The chain                                                               *)

Ok(i) == txs[i].state = "ok"

Did(label, args) == \E i \in 1..Len(txs) : Ok(i) /\ txs[i].label = label /\ txs[i].args = args

\* bindLottery works once per provider, startDraw(0) once per lottery.
Reverts(label, args) ==
  \/ label = "bindLottery" /\ \E i \in 1..Len(txs) :
                                Ok(i) /\ txs[i].label = label /\ txs[i].args[1] = args[1]
  \/ label = "startDraw" /\ Did(label, args)

Mine ==
  \E i \in 1..Len(txs) :
    /\ txs[i].state = "pending" /\ \A j \in 1..i - 1 : txs[j].state # "pending"
    /\ \/ /\ ~Reverts(txs[i].label, txs[i].args)
          /\ txs' = [txs EXCEPT ![i].state = "ok"] /\ UNCHANGED failures
       \/ /\ Reverts(txs[i].label, txs[i].args)
          /\ txs' = [txs EXCEPT ![i].state = "failed"] /\ UNCHANGED failures
       \/ /\ failures < MaxFailures /\ failures' = failures + 1
          /\ txs' = [txs EXCEPT ![i].state = "failed"]
    /\ UNCHANGED <<given, file, manifest, pc, at, memo, crashes, lost>>

-----------------------------------------------------------------------------
(* The script                                                              *)

Label == Steps[pc]

\* The contracts a step names, from the receipts of the steps before it.
Args(label, m) ==
  LET subscription == m["createSubscription"]
      token        == m["deployMockUSD8"]
      provider     == m["deployVRFProvider"]
      lottery      == m["deployDLottery"]
  IN CASE label = "fundSubscription"  -> <<subscription>>
       [] label = "deployVRFProvider" -> <<subscription>>
       [] label = "deployDLottery"    -> <<token, provider>>
       [] label = "bindLottery"       -> <<provider, lottery>>
       [] label = "addConsumer"       -> <<subscription, provider>>
       [] label = "startDraw"         -> <<lottery>>
       [] label = "mintDeployer"      -> <<token>>
       [] OTHER -> <<>>

\* Steps that are left out: what .env gives, and a subscription that holds
\* enough or has been funded by this checkpoint, whatever became of that.
Skipped(label) ==
  \/ label = "createSubscription" /\ "subscription" \in given
  \/ label \in {"deployMockUSD8", "mintDeployer"} /\ "token" \in given
  \/ label = "fundSubscription" /\
       (memo[label] # 0 \/ "funds" \in given \/ Did(label, Args(label, memo)))

Start ==
  /\ pc = 0 /\ manifest = NoManifest
  /\ pc' = 1 /\ at' = "look" /\ memo' = file
  /\ UNCHANGED <<given, txs, file, manifest, crashes, failures, lost>>

Stop == pc' = 0 /\ at' = "idle"

Skip ==
  /\ at = "look" /\ Skipped(Label)
  /\ pc' = pc + 1 /\ at' = IF pc < Len(Steps) THEN "look" ELSE "done"
  /\ UNCHANGED <<given, txs, file, manifest, memo, crashes, failures, lost>>

\* Altered: the hash on file is not looked at.
OnFileNever(label) == FALSE

OnFile(label) == memo[label] # 0

Resume ==
  /\ at = "look" /\ ~Skipped(Label) /\ OnFile(Label)
  /\ at' = "wait"
  /\ UNCHANGED <<given, txs, file, manifest, pc, memo, crashes, failures, lost>>

\* The transaction goes out, unless gas estimation finds that it reverts.
Send ==
  /\ at = "look" /\ ~Skipped(Label) /\ ~OnFile(Label) /\ Len(txs) < MaxTxs
  /\ IF Reverts(Label, Args(Label, memo))
     THEN Stop /\ UNCHANGED txs
     ELSE /\ txs' = Append(txs, [label |-> Label, args |-> Args(Label, memo),
                                 state |-> "pending"])
          /\ at' = "sent" /\ UNCHANGED pc
  /\ UNCHANGED <<given, file, manifest, memo, crashes, failures, lost>>

\* Altered: the checkpoint is written to disk only with the block number.
SavedLater(m) == file

Saved(m) == m

Save ==
  /\ at = "sent" /\ at' = "wait"
  /\ memo' = [memo EXCEPT ![Label] = Len(txs)]
  /\ file' = Saved(memo')
  /\ UNCHANGED <<given, txs, manifest, pc, crashes, failures, lost>>

\* Altered: any receipt will do.
ReceiptAny(i) == txs[i].state # "pending"

Receipt(i) == txs[i].state = "ok"

Confirmed ==
  /\ at = "wait" /\ Receipt(memo[Label])
  /\ file' = memo
  /\ pc' = pc + 1 /\ at' = IF pc < Len(Steps) THEN "look" ELSE "done"
  /\ UNCHANGED <<given, txs, manifest, memo, crashes, failures, lost>>

\* No receipt within 180 s, or one of a failed transaction.
GiveUp ==
  /\ at = "wait" /\ ~Receipt(memo[Label])
  /\ Stop
  /\ UNCHANGED <<given, txs, file, manifest, memo, crashes, failures, lost>>

WriteManifest ==
  /\ at = "done" /\ manifest' = memo /\ Stop
  /\ UNCHANGED <<given, txs, file, memo, crashes, failures, lost>>

Crash ==
  /\ pc # 0 /\ crashes < MaxCrashes /\ crashes' = crashes + 1
  /\ Stop
  /\ lost' = IF at = "sent" THEN lost \union {Len(txs)} ELSE lost
  /\ UNCHANGED <<given, txs, file, manifest, memo, failures>>

-----------------------------------------------------------------------------
Next ==
  \/ Mine
  \/ Start \/ Skip \/ Resume \/ Send \/ Save \/ Confirmed \/ GiveUp \/ WriteManifest
  \/ Crash

\* Transactions are included, the script runs, and the operator starts it again.
Spec ==
  /\ Init /\ [][Next]_vars
  /\ WF_vars(Mine)
  /\ WF_vars(Start) /\ WF_vars(Skip \/ Resume \/ Send \/ Save \/ WriteManifest)
  /\ SF_vars(Confirmed)

-----------------------------------------------------------------------------
(* Properties                                                              *)

\* However often the script died and whatever it sent twice, a manifest that
\* was written names contracts that exist and belong together: the provider is
\* bound to this lottery, is a consumer of its subscription, and the lottery
\* was built on this provider and token and has its first round open.
ManifestWorks ==
  LET m == manifest IN
  m # NoManifest =>
    /\ \A label \in {"deployVRFProvider", "deployDLottery"} : m[label] # 0 /\ Ok(m[label])
    /\ txs[m["deployVRFProvider"]].args = <<m["createSubscription"]>>
    /\ txs[m["deployDLottery"]].args = <<m["deployMockUSD8"], m["deployVRFProvider"]>>
    /\ \A label \in {"bindLottery", "addConsumer", "startDraw"} : Did(label, Args(label, m))

\* Unless a process died between sending and saving, no step is sent twice:
\* neither a restart nor a wait that was given up repeats a transaction.
SentOnce ==
  lost = {} =>
    \A label \in Labels : Cardinality({i \in 1..Len(txs) : txs[i].label = label}) <= 1

\* A deployment that lost no hash and met no failed transaction is completed,
\* in however many runs.
Finishes == <>(manifest # NoManifest \/ lost # {} \/ failures > 0)
===============================================================================
