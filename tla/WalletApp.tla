------------------------------- MODULE WalletApp -------------------------------
(***************************************************************************)
(* The wallet page: the component App of frontend/src/main.tsx and the     *)
(* calls of chain.ts it makes.  One page, its user, the wallet extension   *)
(* and the chain.  Every await is an interleaving point: in between the    *)
(* user or the wallet may change account, network or round, other players  *)
(* act, and timers fire.                                                   *)
(*                                                                         *)
(* An asynchronous function is a record with a step: reader is the refresh *)
(* in flight, task the connect or action in flight.  What a function       *)
(* captured when it was created (account, selectedID) is kept in the       *)
(* record.  bound is what the last render whose effect ran captured: the   *)
(* timers and the buttons work with it until the next effect.              *)
(*                                                                         *)
(* generation is compared only with the value a refresh captured, so a     *)
(* change of it is the flag stale of the refresh in flight.  Left out:     *)
(* texts, amounts (balances are counted in tickets), the countdown (the    *)
(* page's clock may be ahead or behind, so a button that depends on it may *)
(* be there), the second half of an address.  History is in HistoryView.   *)
(***************************************************************************)
EXTENDS Rounds, Sequences

CONSTANTS
  NoAccount,       \* the empty string: no account selected
  AccountLists,    \* orders in which the wallet may expose its accounts
  Openings,        \* what the contract may hold when the page is opened
  Offers,          \* user actions this instance allows
  OtherCalls,      \* calls by other programs this instance allows
  Grant,           \* tickets one faucet request pays for
  Purse,           \* tickets each account can pay for at first
  MaxClicks,       \* bound: user actions on the page
  MaxChanges,      \* bound: changes in the wallet
  MaxOthers,       \* bound: calls by other programs and passing deadlines
  MaxMail          \* bound: wallet messages on their way

ASSUME WalletAppAssumption ==
  /\ MaxRounds \in Nat
  /\ NoAccount \notin Players /\ Nobody \notin Players
  /\ Openings \subseteq Book
  /\ AccountLists \subseteq Seq(Players)
  /\ OtherCalls \subseteq Calls \union {"mint", "approve"}

VARIABLES
  book, purse, allowance,          \* chain: rounds, tokens, approvals of one ticket
  authorised, chain,               \* the wallet: exposed accounts, network
  mail,                            \* its messages to the page, in order
  config,                          \* page: configuration loaded
  account, walletAccounts, walletOpen, walletChain,
  draw, currentID, selectedID, balance,
  notice,                          \* the success message on display
  bound, reloaded,                 \* last effect run; config replaced since
  reader,                          \* refresh in flight
  painted,                         \* history: who asked for the values on display
  task, tx,                        \* connect or action in flight, its transaction
  clicks, changes, others          \* bounds

ledger  == <<book, purse, allowance>>
wallet  == <<authorised, chain, mail>>
choice  == <<account, walletAccounts, walletOpen, walletChain>>
shown   == <<draw, currentID, balance, painted>>
effects == <<bound, reloaded>>
doing   == <<task, tx, notice>>
bounds  == <<clicks, changes, others>>
vars    == <<ledger, wallet, config, choice, shown, selectedID, effects, reader, doing, bounds>>

Networks  == {"lottery", "other"}
NoDraw    == [id |-> 0, status |-> "", holders |-> {}, winner |-> Nobody, refunded |-> {}]
NoNotice  == [kind |-> "", account |-> NoAccount, id |-> 0]
NoReader  == [step |-> "", by |-> "", account |-> NoAccount, selected |-> 0,
              stale |-> FALSE, id |-> 0, draw |-> NoDraw]
NoTask    == [step |-> "", kind |-> "", op |-> "", account |-> NoAccount, id |-> 0,
              selected |-> 0, from |-> ""]
NoTx      == [op |-> "", account |-> NoAccount, id |-> 0, fate |-> ""]
ActionKinds == Calls \union {"mint"}

First(list) == IF list = <<>> THEN NoAccount ELSE list[1]
Has(list, a) == \E i \in DOMAIN list : list[i] = a

Init ==
  /\ book \in Openings /\ purse = [p \in Players |-> Purse]
  /\ allowance = [p \in Players |-> 0]
  /\ authorised \in AccountLists /\ chain \in Networks
  \* The answers to the two requests of the first effect.
  /\ mail = <<[type |-> "accounts", list |-> authorised, more |-> FALSE],
              [type |-> "chain", network |-> chain]>>
  /\ config = FALSE
  /\ account = NoAccount /\ walletAccounts = <<>> /\ walletOpen = FALSE /\ walletChain = ""
  /\ draw = NoDraw /\ currentID = 0 /\ selectedID = 0 /\ balance = 0
  /\ notice = NoNotice
  /\ bound = [account |-> NoAccount, selected |-> 0] /\ reloaded = FALSE
  /\ reader = NoReader /\ painted = [account |-> NoAccount, by |-> "page"]
  /\ task = NoTask /\ tx = NoTx
  /\ clicks = 0 /\ changes = 0 /\ others = 0

-----------------------------------------------------------------------------
(* Chain, as the page reads and changes it                                 *)

\* chainDraw: one round, read at one block.
Snapshot(id) ==
  IF id = 0 THEN NoDraw
  ELSE [id |-> id, status |-> book.status[id], holders |-> book.holders[id],
        winner |-> book.winner[id], refunded |-> book.refunded[id]]

\* A call by p, with the tokens it moves.
Call(op, p, id) ==
  CASE op = "mint" ->
         purse' = [purse EXCEPT ![p] = @ + Grant] /\ UNCHANGED <<book, allowance>>
    [] op = "approve" ->
         allowance' = [allowance EXCEPT ![p] = 1] /\ UNCHANGED <<book, purse>>
    [] op = "buy" ->
         /\ purse[p] > 0 /\ allowance[p] > 0 /\ book' \in After(book, op, p, id)
         /\ purse' = [purse EXCEPT ![p] = @ - 1]
         /\ allowance' = [allowance EXCEPT ![p] = @ - 1]
    [] op = "prize" ->
         /\ book' \in After(book, op, p, id)
         /\ purse' = [purse EXCEPT ![p] = @ + Cardinality(book.holders[id])]
         /\ UNCHANGED allowance
    [] op = "refund" ->
         /\ book' \in After(book, op, p, id)
         /\ purse' = [purse EXCEPT ![p] = @ + 1] /\ UNCHANGED allowance
    [] OTHER -> book' \in After(book, op, p, id) /\ UNCHANGED <<purse, allowance>>

\* Whether the call would be accepted now: what gas estimation finds out.
Works(op, p, id) ==
  CASE op \in {"mint", "approve"} -> TRUE
    [] op = "buy" -> purse[p] > 0 /\ allowance[p] > 0 /\ Accepted(book, op, p, id)
    [] OTHER -> Accepted(book, op, p, id)

-----------------------------------------------------------------------------
(* Selection                                                               *)

Invalidated(r) == IF r = NoReader THEN r ELSE [r EXCEPT !.stale = TRUE]

\* generation is bumped; balance, message, error and hash are cleared.
SelectAccount(a) ==
  /\ account' = a /\ balance' = 0 /\ painted' = [account |-> a, by |-> "page"]
  /\ notice' = NoNotice
  /\ reader' = Invalidated(reader)

AccountsChanged(list) ==
  /\ walletAccounts' = list /\ SelectAccount(First(list))
  /\ UNCHANGED <<walletOpen, walletChain, task>>

ChainChanged(network) ==
  /\ walletChain' = network /\ reader' = Invalidated(reader)
  /\ UNCHANGED <<account, walletAccounts, walletOpen, balance, painted, notice, task>>

\* connect, once the wallet has granted accounts.
Granted(list, more) ==
  /\ walletAccounts' = list /\ SelectAccount(First(list))
  /\ walletOpen' = (more \/ Len(list) > 1)
  /\ task' = NoTask
  /\ UNCHANGED walletChain

\* openWallet, once the wallet has listed its accounts.
Listed(list) ==
  /\ walletAccounts' = list
  /\ IF Has(list, account)
     THEN UNCHANGED <<account, balance, painted, notice, reader>>
     ELSE SelectAccount(First(list))
  /\ UNCHANGED <<walletOpen, walletChain, task>>

\* The page handles the wallet's next message.
HandleMail ==
  /\ mail # <<>> /\ mail' = Tail(mail)
  /\ LET m == Head(mail) IN
     CASE m.type = "accounts" -> AccountsChanged(m.list)
       [] m.type = "chain"    -> ChainChanged(m.network)
       [] m.type = "granted"  -> Granted(m.list, m.more)
       [] m.type = "listed"   -> Listed(m.list)
  /\ UNCHANGED <<ledger, authorised, chain, config, draw, currentID, selectedID, effects,
                 tx, bounds>>

-----------------------------------------------------------------------------
(* Refreshing                                                              *)

EffectDue == reloaded \/ bound # [account |-> account, selected |-> selectedID]

NewReader(by, a, selected) ==
  [NoReader EXCEPT !.step = "draw", !.by = by, !.account = a, !.selected = selected,
                   !.id = book.current]

\* The configuration is loaded at first and again every 30 s, into a new
\* object each time: what depends on it is created anew.
LoadConfig ==
  /\ ~reloaded /\ reloaded' = TRUE /\ config' = TRUE
  /\ UNCHANGED <<ledger, wallet, choice, shown, selectedID, bound, reader, doing, bounds>>

\* The effect of a render with a new refresh: what is in flight becomes stale,
\* and a refresh that finds it there returns at once.
Effect ==
  /\ EffectDue
  /\ bound' = [account |-> account, selected |-> selectedID] /\ reloaded' = FALSE
  /\ reader' = IF config /\ reader = NoReader THEN NewReader("page", account, selectedID)
               ELSE Invalidated(reader)
  /\ UNCHANGED <<ledger, wallet, config, choice, shown, selectedID, doing, bounds>>

\* The timer of the last effect, every 4 s, or Retry.  A render and its effect
\* take less than the timer's next turn.
Tick ==
  /\ config /\ ~EffectDue /\ reader = NoReader
  /\ reader' = NewReader("page", bound.account, bound.selected)
  /\ UNCHANGED <<ledger, wallet, config, choice, shown, selectedID, effects, doing, bounds>>

ReadDraw ==
  /\ reader.step = "draw"
  /\ reader' = [reader EXCEPT !.step = "paint",
                  !.draw = Snapshot(IF reader.selected # 0 THEN reader.selected ELSE reader.id)]
  /\ UNCHANGED <<ledger, wallet, config, choice, shown, selectedID, effects, doing, bounds>>

\* Altered: a refresh shows what it read, whatever happened since it began.
FreshAlways(r) == TRUE

Fresh(r) == ~r.stale

\* The balance is the last thing read; all is shown or all is dropped.
Paint ==
  /\ reader.step = "paint"
  /\ IF Fresh(reader)
     THEN /\ currentID' = reader.id /\ draw' = reader.draw
          /\ balance' = IF reader.account = NoAccount THEN 0 ELSE purse[reader.account]
          /\ painted' = [account |-> reader.account, by |-> reader.by]
          /\ reader' = [NoReader EXCEPT !.step = "sync", !.by = reader.by]
     ELSE reader' = NoReader /\ UNCHANGED shown
  /\ UNCHANGED <<ledger, wallet, config, choice, selectedID, effects, doing, bounds>>

\* The backend's state arrived or did not; or a read failed on the way.
EndRefresh ==
  /\ reader.step = "sync" /\ reader' = NoReader
  /\ UNCHANGED <<ledger, wallet, config, choice, shown, selectedID, effects, doing, bounds>>

\* Altered: a failed refresh leaves refreshBusy set.
ReleasedNever(r) == [r EXCEPT !.step = "failed"]

Released(r) == NoReader

RefreshFails ==
  /\ reader.step \in {"draw", "paint"} /\ reader' = Released(reader)
  /\ UNCHANGED <<ledger, wallet, config, choice, shown, selectedID, effects, doing, bounds>>

-----------------------------------------------------------------------------
(* The user on the page                                                    *)

Click(offer) == offer \in Offers /\ clicks < MaxClicks /\ clicks' = clicks + 1

Holding == bound.account \in draw.holders

\* The buttons on display, for the account of the last render.
Offered(kind) ==
  CASE kind = "mint"     -> bound.account # NoAccount
    [] kind = "buy"      -> /\ bound.account # NoAccount /\ draw.status = "ACTIVE" /\ ~Holding
                            /\ Cardinality(draw.holders) < Maximum
    [] kind = "draw"     -> bound.account # NoAccount /\ draw.status = "ACTIVE"
    [] kind = "finalize" -> bound.account # NoAccount /\ draw.status = "DRAWING"
    [] kind = "start"    -> /\ bound.account # NoAccount
                            /\ currentID = 0 \/ (draw.id = currentID /\ draw.status \in Ended)
    [] kind = "prize"    -> draw.winner = bound.account /\ draw.status # "COMPLETED"
    [] kind = "refund"   -> draw.status = "CANCELLED" /\ Holding /\ bound.account \notin draw.refunded

\* The first lines of action: pending is set, the last message is cleared.
Begin(kind) ==
  /\ task = NoTask /\ config /\ Offered(kind) /\ Click(kind)
  /\ task' = [NoTask EXCEPT !.step = "chain", !.kind = kind, !.account = bound.account,
                !.selected = bound.selected,
                !.id = IF kind = "start" THEN currentID ELSE draw.id]
  /\ notice' = NoNotice
  /\ UNCHANGED <<ledger, wallet, config, choice, shown, selectedID, effects, reader, tx,
                 changes, others>>

\* View and Back are not disabled while an action runs.
SelectDraw(id) ==
  /\ Click("view")
  /\ id = 0 \/ (Started(book, id) /\ book.status[id] \in Ended)
  /\ selectedID' = id /\ draw' = NoDraw
  /\ UNCHANGED <<ledger, wallet, config, choice, currentID, balance, painted, effects, reader,
                 doing, changes, others>>

Connect(more) ==
  /\ task = NoTask /\ Click("connect")
  /\ more \in BOOLEAN /\ (more => walletOpen)
  /\ task' = [NoTask EXCEPT !.step = "connecting", !.kind = "connect",
                            !.op = IF more THEN "more" ELSE ""]
  /\ UNCHANGED <<ledger, wallet, config, choice, shown, selectedID, effects, reader, tx, notice,
                 changes, others>>

\* The wallet button with an account selected: opening the menu asks the
\* wallet for its accounts, without blocking anything else.
OpenWallet ==
  /\ task = NoTask /\ bound.account # NoAccount /\ Click("menu")
  /\ Len(mail) < MaxMail
  /\ walletOpen' = ~walletOpen
  /\ mail' = IF walletOpen THEN mail
             ELSE Append(mail, [type |-> "listed", list |-> authorised, more |-> FALSE])
  /\ UNCHANGED <<ledger, authorised, chain, config, account, walletAccounts, walletChain, shown,
                 selectedID, effects, reader, doing, changes, others>>

\* An account of the open menu.  The bound counts the opening, not the pick.
PickAccount(a) ==
  /\ task = NoTask /\ walletOpen /\ Has(walletAccounts, a) /\ "menu" \in Offers
  /\ SelectAccount(a) /\ walletOpen' = FALSE
  /\ UNCHANGED <<ledger, wallet, config, walletAccounts, walletChain, draw, currentID, selectedID,
                 effects, task, tx, bounds>>

-----------------------------------------------------------------------------
(* connect and action, one step per await                                  *)

Stay == UNCHANGED <<ledger, wallet, config, choice, shown, selectedID, effects, reader, bounds>>

Proceed(step) == task' = [task EXCEPT !.step = step]

\* catch and finally: the error is shown, pending is cleared.
Fail == task' = NoTask /\ tx' = NoTx /\ UNCHANGED notice

\* walletContracts: the network, if need be after a switch the user allows.
CheckChain ==
  /\ task.step = "chain"
  /\ Proceed(IF chain = "lottery" THEN "accounts" ELSE "switch")
  /\ UNCHANGED <<tx, notice>> /\ Stay

SwitchChain ==
  /\ task.step = "switch" /\ Len(mail) < MaxMail
  /\ chain' = "lottery"
  /\ mail' = Append(mail, [type |-> "chain", network |-> "lottery"])
  /\ Proceed("accounts")
  /\ UNCHANGED <<ledger, authorised, config, choice, shown, selectedID, effects, reader, tx,
                 notice, bounds>>

\* walletContracts: the account the action was started for must be exposed.
CheckAccounts ==
  /\ task.step = "accounts"
  /\ IF Has(authorised, task.account) THEN Proceed("verify") /\ UNCHANGED <<tx, notice>>
     ELSE Fail
  /\ Stay

\* What the page looks up before it asks for a signature.
Verified(kind, a, id) ==
  CASE kind = "buy"  -> id # 0 /\ MayBuy(book, a, id) /\ purse[a] > 0
    [] kind = "draw" -> id # 0 /\ MayDraw(book, id)
    [] OTHER -> TRUE

Verify ==
  /\ task.step = "verify"
  /\ IF ~Verified(task.kind, task.account, task.id) THEN Fail
     ELSE /\ task' = IF task.kind # "buy" THEN [task EXCEPT !.step = "send", !.op = task.kind]
                     ELSE IF allowance[task.account] = 0
                     THEN [task EXCEPT !.step = "send", !.op = "approve"]
                     ELSE [task EXCEPT !.step = "recheck"]
          /\ UNCHANGED <<tx, notice>>
  /\ Stay

SameWallet(t) ==
  account = t.account /\ Has(authorised, t.account) /\ chain = "lottery"

Recheck ==
  /\ task.step = "recheck"
  /\ IF SameWallet(task)
     THEN task' = [task EXCEPT !.step = "send", !.op = "buy"] /\ UNCHANGED <<tx, notice>>
     ELSE Fail
  /\ Stay

\* Altered: the scan for a replacement has no boundary to start from.
ScanFromNowhere == "nowhere"

ScanFrom == "before"

\* send: the block number is read before the wallet is asked.
Send ==
  /\ task.step = "send"
  /\ task' = [task EXCEPT !.step = "sign", !.from = ScanFrom]
  /\ UNCHANGED <<tx, notice>> /\ Stay

\* The user confirms; the library refuses a changed network, the wallet an
\* account it no longer exposes, gas estimation a call that would revert.
Sign ==
  /\ task.step = "sign"
  /\ IF chain = "lottery" /\ Has(authorised, task.account)
        /\ Works(task.op, task.account, task.id)
     THEN /\ Proceed("wait")
          /\ tx' = [op |-> task.op, account |-> task.account, id |-> task.id, fate |-> "pending"]
          /\ UNCHANGED notice
     ELSE Fail
  /\ Stay

Decline == task.step \in {"switch", "sign"} /\ Fail /\ Stay

\* An RPC call fails; a transaction that was sent is then another program's
\* business (Elsewhere).
RpcFails == task.step \in {"verify", "recheck", "send", "wait"} /\ Fail /\ Stay

\* Altered: a cancelled transaction counts as done.
DoneAnyway(t) == t.fate # "reverted"

Done(t) == t.fate \in {"mined", "repriced"}

\* Whether the wait for t ends: a transaction that took its place is found
\* from the block the scan starts at.
Noticed(t) ==
  \/ t.fate \in {"mined", "reverted"}
  \/ t.fate \in {"repriced", "cancelled"} /\ task.from = "before"

\* confirmed, and what follows it: the notice, for a start the current round.
Confirm ==
  /\ task.step = "wait" /\ Noticed(tx)
  /\ IF ~Done(tx) THEN Fail /\ UNCHANGED <<selectedID, draw>>
     ELSE /\ tx' = NoTx
          /\ Proceed(IF task.op = "approve" THEN "recheck" ELSE "refresh")
          /\ IF task.op = "approve" THEN UNCHANGED <<notice, selectedID, draw>>
             ELSE /\ notice' = [kind |-> task.kind, account |-> task.account, id |-> task.id]
                  /\ IF task.kind = "start" THEN selectedID' = 0 /\ draw' = NoDraw
                     ELSE UNCHANGED <<selectedID, draw>>
  /\ UNCHANGED <<ledger, wallet, config, choice, currentID, balance, painted, effects, reader,
                 bounds>>

\* await refresh(): the one captured when the action began, for its account
\* and round; it returns at once when a refresh is in flight.
AwaitRefresh ==
  /\ task.step = "refresh"
  /\ Proceed("refreshing")
  /\ reader' = IF reader = NoReader THEN NewReader("task", task.account, task.selected)
               ELSE reader
  /\ UNCHANGED <<ledger, wallet, config, choice, shown, selectedID, effects, tx, notice, bounds>>

\* After loadHistory, which never fails: pending is cleared.
EndAction ==
  /\ task.step = "refreshing" /\ reader.by # "task"
  /\ task' = NoTask /\ UNCHANGED <<tx, notice>> /\ Stay

-----------------------------------------------------------------------------
(* The wallet extension and the rest of the world                          *)

GrantAccounts(list) ==
  /\ task.step = "connecting" /\ list # <<>> /\ Len(mail) + 1 < MaxMail
  /\ authorised' = list
  /\ mail' = mail \o (IF list = authorised THEN <<>>
                      ELSE <<[type |-> "accounts", list |-> list, more |-> FALSE]>>)
                  \o <<[type |-> "granted", list |-> list, more |-> task.op = "more"]>>
  /\ Proceed("granted")
  /\ UNCHANGED <<ledger, chain, config, choice, shown, selectedID, effects, reader, tx, notice,
                 bounds>>

\* The request for accounts is declined or unknown: the menu shows why.
RefuseAccounts ==
  /\ task.step = "connecting" /\ task' = NoTask /\ walletOpen' = TRUE
  /\ UNCHANGED <<ledger, wallet, config, account, walletAccounts, walletChain, shown, selectedID,
                 effects, reader, tx, notice, bounds>>

ChangeAccounts(list) ==
  /\ changes < MaxChanges /\ changes' = changes + 1 /\ Len(mail) < MaxMail
  /\ list # authorised /\ authorised' = list
  /\ mail' = Append(mail, [type |-> "accounts", list |-> list, more |-> FALSE])
  /\ UNCHANGED <<ledger, chain, config, choice, shown, selectedID, effects, reader, doing, clicks,
                 others>>

ChangeChain(network) ==
  /\ changes < MaxChanges /\ changes' = changes + 1 /\ Len(mail) < MaxMail
  /\ network # chain /\ chain' = network
  /\ mail' = Append(mail, [type |-> "chain", network |-> network])
  /\ UNCHANGED <<ledger, authorised, config, choice, shown, selectedID, effects, reader, doing,
                 clicks, others>>

\* The page's transaction reaches a block, as it is or with a higher fee; it
\* fails there, or the user has put an empty one in its place.
Include ==
  /\ tx.fate = "pending"
  /\ \/ Call(tx.op, tx.account, tx.id)
        /\ \E fate \in {"mined", "repriced"} : tx' = [tx EXCEPT !.fate = fate]
     \/ /\ tx' = [tx EXCEPT !.fate = IF Works(tx.op, tx.account, tx.id) THEN "cancelled"
                                     ELSE "reverted"]
        /\ UNCHANGED ledger
  /\ UNCHANGED <<wallet, config, choice, shown, selectedID, effects, reader, task, notice, bounds>>

\* Someone else, or the same player with another program, makes a call, or one
\* that the page gave up waiting for is mined.  A purchase there brings its own
\* approval or uses up the one there is; other programs take no approval back.
Elsewhere(op, p, id) ==
  /\ others < MaxOthers /\ others' = others + 1
  /\ \/ Call(op, p, id)
     \/ /\ op = "buy" /\ purse[p] > 0 /\ book' \in After(book, op, p, id)
        /\ purse' = [purse EXCEPT ![p] = @ - 1] /\ UNCHANGED allowance
  /\ UNCHANGED <<wallet, config, choice, shown, selectedID, effects, reader, doing, clicks, changes>>

Deadline ==
  /\ book.current # 0 /\ ~book.closed /\ book' = Lapsed(book)
  /\ UNCHANGED <<purse, allowance, wallet, config, choice, shown, selectedID, effects, reader,
                 doing, bounds>>

-----------------------------------------------------------------------------
Next ==
  \/ HandleMail \/ LoadConfig \/ Effect \/ Tick
  \/ ReadDraw \/ Paint \/ EndRefresh \/ RefreshFails
  \/ \E kind \in ActionKinds : Begin(kind)
  \/ \E id \in 0..MaxRounds : SelectDraw(id)
  \/ \E more \in BOOLEAN : Connect(more)
  \/ OpenWallet \/ (\E a \in Players : PickAccount(a))
  \/ CheckChain \/ SwitchChain \/ CheckAccounts \/ Verify \/ Recheck \/ Send \/ Sign
  \/ Decline \/ RpcFails \/ Confirm \/ AwaitRefresh \/ EndAction
  \/ \E list \in AccountLists : GrantAccounts(list) \/ ChangeAccounts(list)
  \/ RefuseAccounts \/ (\E network \in Networks : ChangeChain(network))
  \/ Include \/ Deadline
  \/ \E op \in OtherCalls, p \in Players, id \in 0..MaxRounds : Elsewhere(op, p, id)

\* The browser runs what is due: messages, effects, timers, answers.  Reads are
\* tried again every 4 s: they cannot all fail, nor all be overtaken by a
\* reload of the configuration, which comes every 30 s.
PageFairness ==
  /\ WF_vars(HandleMail) /\ WF_vars(LoadConfig /\ ~config) /\ WF_vars(Effect) /\ WF_vars(Tick)
  /\ WF_vars(ReadDraw \/ Paint \/ EndRefresh)
  /\ SF_vars(ReadDraw /\ Fresh(reader)) /\ SF_vars(Paint /\ Fresh(reader))
  /\ WF_vars(CheckChain \/ CheckAccounts \/ Verify \/ Recheck \/ Send \/ Confirm
             \/ AwaitRefresh \/ EndAction)

Spec == Init /\ [][Next]_vars

FairSpec == Spec /\ PageFairness

\* The user answers the wallet's questions and the chain includes what it gets.
Answered ==
  /\ WF_vars(SwitchChain \/ Decline \/ Sign \/ RefuseAccounts
             \/ \E list \in AccountLists : GrantAccounts(list))
  /\ WF_vars(Include)

LiveSpec == FairSpec /\ Answered

-----------------------------------------------------------------------------
(* Properties                                                              *)

\* A success message is about something that is true on the chain, for the
\* account and the round of the click, whatever became of the transaction that
\* was sent first: replaced, cancelled, reverted, or overtaken by another call.
NoticeIsTrue ==
  LET id == notice.id IN
  CASE notice.kind = "buy"      -> notice.account \in book.holders[id]
    [] notice.kind = "draw"     -> book.status[id] # "ACTIVE"
    [] notice.kind = "finalize" -> book.status[id] \in Ended
    [] notice.kind = "prize"    -> book.status[id] = "COMPLETED" /\ book.winner[id] = notice.account
    [] notice.kind = "refund"   -> notice.account \in book.refunded[id]
    [] notice.kind = "start"    -> book.current > id
    [] OTHER -> TRUE

\* The balance on display was read for the selected account, except for one
\* refresh: the one an action awaits is the one of the click, and shows the
\* figures of the account it started with.
BalanceOfSelected ==
  painted.account # account => painted.by = "task"

\* A purchase goes to the wallet only with its approval in force, unless the
\* player has the ticket by then or the round is over: whatever became of the
\* transaction that was to approve it (replaced, cancelled, reverted, found only
\* by the scan), of the one an earlier click left behind, and of the approval
\* since.
PurchaseIsApproved ==
  task.op = "buy" =>
    \/ allowance[task.account] > 0
    \/ task.account \in book.holders[task.id]
    \/ task.id # book.current

\* When the user, the wallet and the others come to rest, the page ends up
\* showing the selected account, the selected or current round and the balance
\* as they are on the chain, although reads fail, overlap, are dropped as stale
\* and run with what an earlier render captured.
Agrees ==
  /\ walletChain = chain /\ (account # NoAccount => Has(authorised, account))
  /\ currentID = book.current
  /\ draw = Snapshot(IF selectedID # 0 THEN selectedID ELSE book.current)
  /\ balance = IF account = NoAccount THEN 0 ELSE purse[account]

Converges == <>[]Agrees

\* No action and no connect blocks the page for ever, replaced and cancelled
\* transactions included.
NeverStuck == task # NoTask ~> task = NoTask
===============================================================================
