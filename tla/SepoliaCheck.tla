------------------------------ MODULE SepoliaCheck ------------------------------
(***************************************************************************)
(* scripts/check-sepolia.mjs: plays round 1 with every test wallet, waits  *)
(* for the real draw, collects the prize and leaves tickets in round 2 for *)
(* an examiner.  The wallets buy concurrently.  The evidence file maps     *)
(* labels to hashes as the deployment's checkpoint does, but here most     *)
(* steps look at the contract before they look at the file.                *)
(*                                                                         *)
(* A label belongs to the wallet it is about; txs[p][label] holds the      *)
(* fates of the transactions sent under it, and a hash is a position in    *)
(* that sequence.                                                          *)
(***************************************************************************)
EXTENDS Rounds, Sequences

CONSTANTS
  Owner,        \* the deployer's wallet, one of the test wallets
  Wallets,      \* the test wallets
  Examiners,    \* those that hold tickets in round 2
  MaxMishaps    \* bound: different mishaps, each at most once

ASSUME WalletsAssumption ==
  /\ Owner \in Examiners /\ Examiners \subseteq Wallets /\ Wallets \subseteq Players
  /\ Nobody \notin Players
ASSUME BoundsAssumption == MaxMishaps \in Nat /\ MaxRounds \in Nat /\ MaxRounds >= 2

Labels == {"fund", "mint", "approve1", "buy1", "approve2", "buy2",
           "performDraw1", "claimPrize1", "startDraw2"}

VARIABLES
  book,        \* the contract
  txs,         \* transactions sent
  file, memo,  \* the evidence on disk and in the process: wallet -> label -> hash
  first,       \* evidence.firstDraw
  pc,          \* main: "" when no process runs
  doing, at,   \* per wallet: its step in tickets or confirm, and where in it
  reported,    \* the script ran to its end
  mishaps,     \* history: what has gone wrong
  lost         \* history: hashes sent and not saved when the process died

history == <<mishaps, lost>>
vars == <<book, txs, file, memo, first, pc, doing, at, reported, history>>

\* A process dies, a transaction runs out of gas, the pool refuses one for two
\* minutes, somebody else calls the contract.
Mishap(kind) ==
  /\ kind \notin mishaps /\ Cardinality(mishaps) < MaxMishaps
  /\ mishaps' = mishaps \union {kind}

None == [status |-> "", winner |-> Nobody]
Idle == [p \in Wallets |-> ""]

Init ==
  /\ book = NextRound(EmptyBook)
  /\ txs = [p \in Wallets |-> [label \in Labels |-> <<>>]]
  /\ file = [p \in Wallets |-> [label \in Labels |-> 0]] /\ memo = file
  /\ first = None
  /\ pc = "" /\ doing = Idle /\ at = Idle
  /\ reported = FALSE /\ mishaps = {} /\ lost = {}

-----------------------------------------------------------------------------
(* The chain                                                               *)

Oks(p, label)  == {i \in 1..Len(txs[p][label]) : txs[p][label][i] = "ok"}
Did(p, label)  == Oks(p, label) # {}
Sent(p, label) == txs[p][label] # <<>>

Spent(p)  == \E label \in Labels \ {"fund"} : Sent(p, label)
Funded(p) == p = Owner \/ Did(p, "fund")

\* Below 0.003 ETH: what one funding leaves once any gas was spent.
Low(p) == Cardinality(Oks(p, "fund")) <= (IF Spent(p) THEN 1 ELSE 0)

\* The contract's states a transaction can lead to; none when it reverts.
Effect(p, label) ==
  CASE label = "buy1"         -> IF Did(p, "approve1") THEN After(book, "buy", p, 1) ELSE {}
    [] label = "buy2"         -> IF Did(p, "approve2") THEN After(book, "buy", p, 2) ELSE {}
    [] label = "performDraw1" -> After(book, "draw", p, 1)
    [] label = "claimPrize1"  -> After(book, "prize", p, 1)
    [] label = "startDraw2"   -> After(book, "start", p, 1)
    [] OTHER                  -> {book}

Mine(p, label) ==
  \E i \in 1..Len(txs[p][label]) :
    /\ txs[p][label][i] = "pending" /\ \A j \in 1..i - 1 : txs[p][label][j] # "pending"
    /\ \/ /\ book' \in Effect(p, label)
          /\ txs' = [txs EXCEPT ![p][label][i] = "ok"]
          /\ UNCHANGED mishaps
       \/ /\ txs' = [txs EXCEPT ![p][label][i] = "failed"]
          /\ UNCHANGED book
          /\ IF Effect(p, label) = {} THEN UNCHANGED mishaps
             ELSE Mishap("gas")
    /\ UNCHANGED <<file, memo, first, pc, doing, at, reported, lost>>

Chain == \E p \in Wallets, label \in Labels : Mine(p, label)

World == UNCHANGED <<txs, file, memo, first, pc, doing, at, reported, lost>>

Oracle == \E id \in RoundIds : book' \in After(book, "finalize", Nobody, id) /\ World /\ UNCHANGED mishaps

Deadline == ~book.closed /\ book' = Lapsed(book) /\ World /\ UNCHANGED mishaps

Outsider ==
  /\ Mishap("call")
  /\ \E call \in {"buy", "draw", "start"}, p \in Players \ Wallets, id \in RoundIds :
       book' \in After(book, call, p, id)
  /\ World

-----------------------------------------------------------------------------
(* submit and confirm: one label of one wallet                             *)

script == <<book, txs, file, memo, first, reported, history>>
disk   == <<book, first, pc, doing, reported, history>>

\* Altered: the hash on file is not looked at.
OnFileNever(p, label) == FALSE

OnFile(p, label) == memo[p][label] # 0

\* Sent, unless estimating its gas shows that it reverts or cannot be paid.
Submit(p) ==
  LET label == doing[p] IN
  /\ at[p] = "submit"
  /\ IF OnFile(p, label)
     THEN at' = [at EXCEPT ![p] = "wait"] /\ UNCHANGED txs
     ELSE IF Effect(p, label) = {} \/ (label # "fund" /\ ~Funded(p))
     THEN at' = [at EXCEPT ![p] = "failed"] /\ UNCHANGED txs
     ELSE /\ txs' = [txs EXCEPT ![p][label] = Append(@, "pending")]
          /\ at' = [at EXCEPT ![p] = "sent"]
  /\ UNCHANGED <<disk, file, memo>>

\* The pool refuses nine times, fifteen seconds apart; fewer refusals are waited out.
Refused(p) ==
  /\ at[p] = "submit" /\ ~OnFile(p, doing[p]) /\ Mishap("refusal")
  /\ at' = [at EXCEPT ![p] = "failed"]
  /\ UNCHANGED <<book, txs, file, memo, first, pc, doing, reported, lost>>

Save(p) ==
  /\ at[p] = "sent" /\ at' = [at EXCEPT ![p] = "wait"]
  /\ memo' = [memo EXCEPT ![p][doing[p]] = Len(txs[p][doing[p]])]
  /\ file' = memo'
  /\ UNCHANGED <<disk, txs>>

\* The step after label in tickets; "" for a confirm of main.
Following(label) ==
  CASE label = "mint" -> IF pc = "tickets1" THEN "approve1" ELSE "approve2"
    [] label = "approve1" -> "buy1"
    [] label = "approve2" -> "buy2"
    [] OTHER -> ""

\* A receipt, or none within 180 s, or that of a failed transaction.
Confirm(p) ==
  LET label == doing[p]  next == Following(label)
      fate  == txs[p][label][memo[p][label]]
  IN
  /\ at[p] = "wait"
  /\ IF fate = "ok"
     THEN /\ at' = [at EXCEPT ![p] = IF next = "" THEN "ok" ELSE "submit"]
          /\ doing' = [doing EXCEPT ![p] = next]
     ELSE at' = [at EXCEPT ![p] = "failed"] /\ UNCHANGED doing
  /\ UNCHANGED <<script, pc>>

\* Altered: the wallet's ticket is not looked up.
HoldsUnseen(p, id) == FALSE

Holds(p, id) == p \in book.holders[id]

FirstStep(p) == IF Did(p, "mint") THEN Following("mint") ELSE "mint"

\* tickets: what a wallet that is looked at has to do first.
Look(p) ==
  /\ at[p] = "look"
  /\ LET id == IF pc = "tickets1" THEN 1 ELSE 2 IN
     IF Holds(p, id)
     THEN at' = [at EXCEPT ![p] = "ok"] /\ UNCHANGED doing
     ELSE /\ at' = [at EXCEPT ![p] = "submit"]
          /\ doing' = [doing EXCEPT ![p] = FirstStep(p)]
  /\ UNCHANGED <<script, pc>>

-----------------------------------------------------------------------------
(* main                                                                    *)

Go(next)   == pc' = next /\ doing' = Idle /\ at' = Idle
Throw      == Go("")
Call(p, l) == /\ doing' = [Idle EXCEPT ![p] = l] /\ at' = [Idle EXCEPT ![p] = "submit"]
              /\ UNCHANGED pc

\* One confirm of main: begun, then passed or thrown.
Await(p, label, next) ==
  \/ at = Idle /\ Call(p, label)
  \/ at[p] = "ok" /\ Go(next)
  \/ at[p] = "failed" /\ Throw

Start ==
  /\ pc = "" /\ ~reported /\ Go("fund") /\ memo' = file
  /\ UNCHANGED <<book, txs, file, first, reported, history>>

Fund ==
  LET poor == {p \in Wallets \ {Owner} : ~OnFile(p, "fund") /\ Low(p)}
      busy == {p \in Wallets : at[p] # ""}
  IN
  /\ pc = "fund"
  /\ IF busy # {} THEN \E p \in busy : Await(p, "fund", "fund")
     ELSE IF poor # {} THEN LET p == CHOOSE q \in poor : TRUE IN Await(p, "fund", "fund")
     ELSE Go(IF book.status[1] = "ACTIVE" THEN "tickets1" ELSE "draw")
  /\ UNCHANGED script

Throws(wallets) == \E p \in wallets : at[p] = "failed"

\* Promise.allSettled over the wallets.
Tickets(here, wallets, next) ==
  /\ pc = here
  /\ \/ /\ at = Idle /\ UNCHANGED <<pc, doing>>
        /\ at' = [p \in Wallets |-> IF p \in wallets THEN "look" ELSE ""]
     \/ /\ \A p \in wallets : at[p] \in {"ok", "failed"}
        /\ IF Throws(wallets) THEN Throw ELSE Go(next)
  /\ UNCHANGED script

Perform == pc = "perform" /\ Await(Owner, "performDraw1", "draw") /\ UNCHANGED script

\* Altered: the draw is recorded as it was before the wait.
SettledAnyway(status) == TRUE

Settled(status) == status # "DRAWING"

Observed ==
  /\ pc = "draw" /\ Settled(book.status[1])
  /\ first' = [status |-> book.status[1], winner |-> book.winner[1]]
  /\ Go("claim")
  /\ UNCHANGED <<book, txs, file, memo, reported, history>>

\* Fifteen minutes without an answer of the oracle.
StillPending == pc = "draw" /\ ~Settled(book.status[1]) /\ Throw /\ UNCHANGED script

Claim ==
  /\ pc = "claim"
  /\ IF first.status # "WINNER_DECLARED" THEN Go("start")
     ELSE IF first.winner \notin Wallets THEN Throw
     ELSE Await(first.winner, "claimPrize1", "start")
  /\ UNCHANGED script

StartSecond ==
  /\ pc = "start"
  /\ IF at = Idle /\ book.current # 1 THEN Go("current")
     ELSE Await(Owner, "startDraw2", "current")
  /\ UNCHANGED script

Current ==
  /\ pc = "current"
  /\ Go(IF book.current = 2 /\ book.status[2] = "ACTIVE" THEN "tickets2" ELSE "report")
  /\ UNCHANGED script

Report ==
  /\ pc = "report" /\ reported' = TRUE /\ Go("")
  /\ UNCHANGED <<book, txs, file, memo, first, history>>

Crash ==
  /\ pc # "" /\ Mishap("crash") /\ Throw
  /\ lost' = lost \union {p \in Wallets : at[p] = "sent"}
  /\ UNCHANGED <<book, txs, file, memo, first, reported>>

Main == \/ Start \/ Fund \/ Perform \/ Observed \/ StillPending \/ Claim \/ StartSecond
        \/ Current \/ Report
        \/ Tickets("tickets1", Wallets, "perform") \/ Tickets("tickets2", Examiners, "report")

Wallet(p) == Submit(p) \/ Save(p) \/ Confirm(p) \/ Look(p)

-----------------------------------------------------------------------------
Next ==
  \/ Chain \/ Oracle \/ Deadline \/ Outsider
  \/ Main \/ \E p \in Wallets : Wallet(p) \/ Refused(p)
  \/ Crash

\* Transactions are included, the oracle answers, and the script is run again.
Spec ==
  /\ Init /\ [][Next]_vars
  /\ WF_vars(Chain) /\ WF_vars(Oracle)
  /\ WF_vars(Main) /\ \A p \in Wallets : WF_vars(Wallet(p))

-----------------------------------------------------------------------------
(* Properties                                                              *)

\* The result the script prints is the draw's: the round was over when it was
\* recorded, and later claims change nothing but its status.
EvidenceTrue ==
  first # None =>
    /\ first.status # "DRAWING"
    /\ first.winner = book.winner[1]
    /\ book.status[1] = first.status \/ book.status[1] = "COMPLETED"

\* A script that ran to its end left what it promises: the first round is
\* settled, its prize is paid out, and the examiner's tickets are in the second
\* round unless that was over already.
ReportTrue ==
  reported =>
    /\ book.status[1] \in {"COMPLETED", "NO_WINNER", "CANCELLED"}
    /\ book.current >= 2
    /\ book.current = 2 /\ book.status[2] = "ACTIVE" => Examiners \subseteq book.holders[2]

\* What the script says is true, while it runs and when it has ended.
TellsTheTruth == EvidenceTrue /\ ReportTrue

\* Unless a process died between sending and saving, no wallet sends a step
\* twice, whatever the other wallets' failures and the restarts do to it.
SentOnce == lost = {} => \A p \in Wallets, label \in Labels : Len(txs[p][label]) <= 1

\* A wallet that still wants a ticket of a live round can no longer have one.
MissedOut ==
  \E id \in {1, 2} :
    /\ book.current = id /\ book.status[id] = "ACTIVE" /\ ~Open(book, id)
    /\ ~((IF id = 1 THEN Wallets ELSE Examiners) \subseteq book.holders[id])

\* Run again as often as it stops, the script reaches its end: what died unsaved
\* is found on the chain, be it mined at the restart or still pending.
Completes == <>(reported \/ "gas" \in mishaps \/ MissedOut)
===============================================================================
