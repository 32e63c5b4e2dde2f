# DLottery: a TLA+ development

This directory holds a formal model of the DLottery repository: TLA+ modules,
TLC configurations that check them on small instances, and proofs that TLAPS
checks for every value of the constants. It is read next to the source; paths
below are relative to the repository.

## 1. The system and its parts

| Part | Source | State it keeps | Operations | Status |
|---|---|---|---|---|
| Lottery contract | `contracts/src/DLottery.sol` | current round, four money buckets, a record per round, ticket board, refund flags, request index | `startDraw`, `buyTicket`, `performDraw`, `fulfillRandomness`, `finalizeDraw`, `claimPrize`, `claimRefund` | modelled |
| VRF adapter | `contracts/src/VRFProvider.sol` | bound lottery; per request: requested, ready, delivered, word | `setLottery`, `requestRandomness`, `rawFulfillRandomWords`, `deliver` | modelled |
| Test doubles | `contracts/src/mocks/*` | - | coordinator answers, failing consumer, token with fee, blocked recipient, reentrant callback | partly, as environment |
| Indexer | `backend/internal/indexer/indexer.go` | observed and safe head, cursor, recovering, synced | `Sync` pass: lock check, ancestor walk, rewind, block loop | modelled |
| Store | `backend/internal/store/store.go`, `schema.sql` | blocks, events, draws, tickets, claims, cursor and its hash | `CommitBlock`, `Rewind`, `Read`, advisory lock | modelled |
| Projection | `backend/internal/lottery/model.go` | the read model of a round | `Apply`, `Refresh` | modelled |
| HTTP service | `backend/internal/service/http.go` | none of its own | readiness, current, detail, history pages | modelled |
| Backend process | `backend/cmd/server/main.go` | three goroutines, listener, pool, writer lock | start, serve, drain, exit | partly: the start-up checks have no state |
| Wallet application | `frontend/src/main.tsx`, `chain.ts` | configuration, account, network, chain view, history pages, pending action | refreshes, wallet events, connect, seven actions | modelled |
| Deployment scripts | `scripts/deploy-sepolia.mjs`, `check-sepolia.mjs`, `contracts/scripts/deploy.cjs` | checkpoint and evidence files | resumable transactions | partly: `deploy.cjs` keeps nothing |
| Local stack | `scripts/stack.mjs`, `processes.mjs`, `local.mjs`, `verify.mjs` | child processes, ports | start in order, restart the backend, stop in reverse | partly: see section 7 |
| Pure UI, vendored code | `Transactions.tsx`, `Help.tsx`, `style.css`, `contracts/src/vendor` | - | - | not modelled |

How they interact. A wallet sends transactions to the lottery contract; the
contract moves tokens and, in `performDraw`, calls the adapter, which calls the
Chainlink coordinator. The coordinator answers later by calling the adapter,
which stores the word and calls the lottery back; if that callback fails,
anybody retries with `finalizeDraw` or `deliver`. The contract emits events; the
indexer reads them block by block from an RPC node, survives reorganisations by
rewinding, and keeps a read model in PostgreSQL that the HTTP service serves.
The wallet page takes the live round from the chain and past rounds from that
service. The Sepolia scripts send transactions of their own and remember them
in a file.

What is hard in it:

- money: three ways a pool can end (prize, rollover, refunds plus inherited
  rollover), claimed in any order while later rounds run on the same balance;
- the oracle: late, repeated, contradictory and failed callbacks; a round that
  is being drawn blocks all later ones;
- boundaries: the deadline, sell-out, minimum, fee rounding, 0- and 1-based
  ticket numbers;
- the indexer: reorganisations below the cursor, crashes and timeouts around a
  commit, two writers after a lost lock connection;
- staleness: snapshots, flags and history pages read at different moments;
  accounts and networks that change while a transaction is pending;
- restarts: scripts that die between sending a transaction and saving its hash;
- shutdown: goroutines and processes that share a pool, a lock or a port.

What makes each part correct:

- contract: balance equals liabilities plus donations; each bucket equals the
  rounds it stands for; outcomes final; each claim paid once and always payable;
- adapter: one word per request, never replaced, never lost;
- pair: requests and rounds agree; every drawn round settles; entries fixed
  before the word;
- store and indexer: stored blocks form one parent-linked chain, the read model
  is the replay of its events, and it converges to the node's confirmed chain;
- projection: equal to the contract's own view, and no emitted event rejected;
- service: an answer called synced is canonical, and readiness comes back;
- wallet page: true messages, figures of the selected account, no purchase
  without its approval in force, and no screen that stays wrong or busy;
- scripts: what they report is true, nothing is sent twice, nothing is left
  running, and they end.

The hazards of the code are listed with their lines, and with the properties
that cover them, in `PROJECT.json`.

## 2. Modules

| Module | Models | Used by |
|---|---|---|
| `DLottery` | the contract; provider and token are its environment | `LotteryFeed`, `LotterySystem`, `DLotteryRounds` |
| `VRFProvider` | the adapter; coordinator and consumer are its environment | `LotterySystem` |
| `Raffle` | abstract: what the lottery promises its players | `LotterySystem` (refinement) |
| `LotterySystem` | contract + adapter + coordinator | `MCLotterySystem`, `LotterySystemProofs` |
| `Rounds` | abstract: the contract as its clients see it | `DLotteryRounds` (refinement), `WalletApp`, `SepoliaCheck` |
| `DLotteryRounds` | the mapping from `DLottery` to `Rounds` | `MCLotteryFeed`, `ViewProofs` |
| `Store` | the tables and the two transactions that write them | `MCStore`, `StoreProofs`, `Indexer` |
| `Chain` | external: the Ethereum node, its forks and reorganisations | `Indexer` |
| `Indexer` | `Sync` call by call, the processes and their lock, over `Chain` and `Store` | `MCIndexer`, `QueryService` |
| `QueryService` | `Indexer` and the requests answered while it works | `MCQueryService`, `QueryServiceProofs` |
| `Projection` | what an event does to the read model of its round | `LotteryFeed` |
| `LotteryFeed` | `DLottery`, the events it emits, and the read model built from them | `MCLotteryFeed`, `ViewProofs` |
| `BackendLife` | the goroutines of a backend process and their shutdown | itself |
| `WalletApp` | the page, its user, the wallet extension and the chain | `MCWalletApp` |
| `HistoryView` | the list of past draws and the pages it is put together from | itself |
| `SepoliaDeploy`, `SepoliaCheck` | the two resumable scripts | themselves |
| `LocalStack` | the local services, their processes and ports | itself |
| `MC...` | constants for TLC | the runs |
| `DLotteryProofs`, `ViewProofs`, `LotterySystemProofs`, `StoreProofs`, `QueryServiceProofs`, `WalletAppProofs`, `SepoliaCheckProofs`, `DeploymentProofs` | proofs | - |

Definitions marked "Altered" are wrong variants of the definition that follows
them. The models do not use them; putting one in place of the right one shows
that a property notices the mistake (`PROJECT.json`, "mutants").

### DLottery

A transaction is one action: the EVM runs it alone, and a revert undoes it, so
a call that reverts is an action that is not enabled. Variables carry the names
of the contract's storage; `draws[id]` holds a record like `struct Draw` without
the fields that are written and never read back (id, start and finalisation
time). Solidity's zero values are explicit: `BlankDraw`, `NoOne` for
`address(0)`, `NoRequest` for id 0. `performDraw` is two actions, one per branch
(`CancelDraw`, `RequestDraw`); `fulfillRandomness` is `SettleDraw` when a round
waits for the request and `IgnoreCallback` otherwise. Checked subtraction and an
insufficient token balance are guards, so a wrong bucket shows up as a claim that
cannot be made.

The environment: time passes (`Tick`); anybody may send tokens to the contract
(`Donate`); a transfer may deliver less than asked (`received`); the provider
returns any request id, and calls back for any id and word at any time. The DAO
may be one of the players. The history variable `donated` counts what arrived
outside `buyTicket`.

### VRFProvider, LotterySystem and Raffle

`VRFProvider` keeps the adapter's three flags as sets of request ids. Whether
the consumer's callback succeeds is the parameter `accepted`; it reverts only
for lack of gas, which is a free choice. `LotterySystem` joins an action of each
contract into one transaction: `PerformDraw`, `Answer` (the first answer of the
coordinator, delivered or not), `AnswerAgain` (any other), `FinalizeDraw`,
`Deliver`. The coordinator's only promise is that request ids are not reused.

`Raffle` knows nothing of money, deadlines, requests or retries. The refinement
mapping (end of `LotterySystem`) reads its phases from a round's status and
from whether the word is stored, its entries from the owner slots, and its word
from the adapter.

### Rounds

What a program that uses the contract may rely on: which call is accepted in
which state, and the status, holders, winner and refunds it leaves. The word is
a choice between "nobody" and one of the holders; the deadline is a flag. The
page and the acceptance script are modelled against `Rounds`; `KeepsRounds`,
checked on `DLottery` and proved of it, is what entitles them to.

### Store, Chain and Indexer

`Store` has one action per transaction that writes. Both transactions lock the
deployment's row first, so they are atomic and serial; one that fails leaves no
trace and is an action that is not enabled. `draws` stands for the three
projection tables: it is the sequence of events applied to them since they were
last emptied, which is all that their contents depend on. `CommitBlock` receives
the logs as delivered, possibly one twice, and skips those already in `events`,
as `ON CONFLICT DO NOTHING` does; `Rewind` empties `draws` and replays.

`Chain` is the node. A block's hash is the sequence of payloads up to it, so
equal hashes mean equal pasts, and the parent's hash is the sequence without its
last element. A reorganisation cuts the chain; another fork then grows. Some
payloads carry two logs, the others none.

`Indexer` cuts `Sync` where it calls the node or the database: `CheckLock`,
`ReadHead`, `ReadCursor`, `WalkHeader` and `WalkBlock` (the ancestor walk),
`Rewind`, `RereadCursor`, `ScanHeader`, `Recheck`, `CommitBlock`, `FinishPass`.
Between two of them the chain may change, another process may write, the call
may fail or the pass may time out (`Fault`), the process may crash (`Crash`) or
lose the connection that holds its lock (`LoseLock`). What the code computes
between two calls belongs to the step before it. Two calls have no step of their
own: fetching the logs asks for them by the hash of the header just read, so the
answer is a function of that hash; and the log query is followed by the `Recheck`
that the code makes. `Launch` is the start of a process that gets the lock; one
that does not get it exits, and the supervisor starts it again. `undisturbed` is
a history variable: no reorganisation since the process's pass read the head.

### QueryService

A handler reads the tables in one repeatable-read transaction, then the
indexer's state, then that state again for its health; the indexer goes on in
between. `recent` is "the last successful pass is less than 60 s old": it is set
by a pass that succeeds and lost at any time. One request per process is enough,
since handlers share nothing that they write. `rewound` is a history variable:
whether a rollback fell after the handler's snapshot, and whether it is over, that
is, whether the pass has said since that it is synced again.

### Projection and LotteryFeed

`Projection` is `Apply` in two halves: `Accepts` collects every `return nil, err`,
and `Apply` what an accepted event changes. Decimal strings are numbers. `Project`
in `LotteryFeed` is `project` in `store.go` for one event, with the row of
`draws` and its tickets together in `readModel`, and the `claims` table with its
primary key. A refused event sets `stuck`: in the code its block fails, and every
later pass fails at the same block. Each `Feed` action is a transaction of
`DLottery` joined with the event it emits, whose fields are those of the `emit`
statement, taken from the state before or after as the code does. The indexer
applies events later, but in the order in which they were emitted, and the
outcome depends on earlier events only; so it is enough to apply each at once.
Callbacks that are ignored emit nothing.

### BackendLife

Each process has `main` (where `run` is), the cancelled context, the listener,
the indexer's worker and a handler per request; `lock` is the advisory lock.
Several processes may run at once, as when one replaces another. The ten seconds
of the HTTP shutdown may run out with handlers still at work (`gaveUp`); a second
signal, or any other death, is `KillProcess`.

### WalletApp

Every `await` is an interleaving point. An asynchronous function is a record with
a step: `reader` is the refresh in flight (`refreshBusy` allows one), `task` the
connect or action in flight (`pending` allows one). What such a function captured
when it was created, the account and the selected round, is kept in its record;
`bound` is what the last render captured whose effect ran, and the timers and
buttons work with it until the next effect. A change of `generation` matters only
to the refresh in flight, where it is the flag `stale`. The wallet's events and
answers reach the page through the queue `mail`, so the user may be on another
account before the page hears of it.

The wallet may change accounts and network at any time, refuse or grant, and a
transaction may be mined, reverted, replaced by one with a higher fee, or
cancelled (`Include`). `Elsewhere` is any call of another program, also for the
same player (`OtherCalls` says which a run allows), and the mining of what the page
gave up waiting for; another program may buy with an approval of its own or with
the page's, but takes none back. Balances are counted in tickets. The page's clock may be ahead or
behind, so a button that depends on the countdown may be there.

### HistoryView

`loadHistory` is called by two timers, by effects, after an action and by a
button; only the button looks at `historyBusy`, so requests overlap in `Slots`
and are answered in any order from a projection that grows and may be taken
back. A settled round is its id.

### SepoliaDeploy and SepoliaCheck

Both scripts map labels to transaction hashes in a file. A hash is a position in
the sequence of transactions that were sent, a contract is the hash that created
it, and what the chain holds is read off the transactions that succeeded. The
process may die at any point; the hash of a transaction that was sent and not
saved is then `lost`. `SepoliaCheck` adds the wallets that buy at the same time,
each with its own step, and strangers who call the contract.

### LocalStack

A child process is its position in `procs`, a port is held from the moment a
service listens until it is gone. Services may hang, die, ignore `SIGTERM` or
never listen; other programs may take a free port.

## 3. Runs

| Run | Instance | Shows |
|---|---|---|
| `lottery_feed` | 3 wallets (one is the DAO), minimum = maximum = 3, 4 numbers, 3 rounds, 2 requests | exact backing; buckets equal the rounds they stand for; rounds separate; every wallet's balance explained; ticket board consistent; the winner holds the lucky ticket and takes the pool; outcomes final; tokens leave only for a claim that is used up; tickets fixed once the round can be drawn; clients see `Rounds`; every event is accepted and the read model agrees |
| `system_draws` | 3 wallets (one is the DAO), minimum 2, maximum 3, 4 numbers, 2 words, 2 rounds, 2 requests, 1 donation | `delivered` exactly when settled; a drawn round settles; every claim is paid to a holder who keeps asking; `LotterySystem` implements `Raffle` |
| `store_forks` | every chain of up to 4 blocks, 3 payloads each, from a deployment block 2, logs delivered once or twice | one stored chain with exactly its events; the projections are the replay of the events |
| `query_service` | 1 process, height 3, 1 confirmation, 1 block per pass, 1 reorganisation to any depth, 1 failed call, crash or lost lock | a rewind removes the orphans and nothing else; "synced" is never said of a fork, but for the one window of section 4; the database catches up; readiness comes back |
| `indexer_lock_lost` | 2 processes, height 1 | a counterexample: see below |
| `wallet_actions` | 2 accounts, every stage of a round, every button but the faucet's, 1 click, 1 change in the wallet, 1 call by others | messages are true; the balance is the selected account's; no purchase without its approval in force |
| `wallet_page` | an open round, buying and connecting, 1 click, 1 change, 1 call by others, failing reads | the page ends up showing the chain; no action blocks it for ever |
| `history_view` | pages of 2, 5 rounds, 1 taken back, 3 requests at once | no round twice, the oldest reachable; gaps heal |
| `sepolia_deploy` | 9 steps, 11 transactions, 2 crashes, 1 failed transaction, any part of it configured already | the manifest names contracts that work together; nothing sent twice; it finishes |
| `sepolia_check` | 2 wallets and a stranger, 2 rounds, any 2 of: a crash, a refusing pool, no gas, a stranger's call | evidence and report are true; nothing sent twice; it completes |
| `local_stack` | demo and acceptance run, 4 services, 1 death, 1 port taken | nothing is left running, dependents stop first; ready means serving; it ends |
| `backend_life` | 2 processes, 2 requests each | only the lock's holder writes, received requests are answered; shutdown ends |

Bounds and why they suffice. Three rounds is the least in which two old rounds
are claimed while a third is live and in which two rollovers add up (a pool of
60 at price 10, so that the fee is not zero). A minimum of 3 lets a cancelled
round owe two refunds, claimed in either order; `system_draws` has minimum and
maximum apart, a word that meets an unsold number, and a donation. The ticket
price is the code's own for a token without decimals. In `lottery_feed` `Words`
reaches `Numbers`, so the reduction modulo `Numbers` wraps. `Duration` 1 makes
"before", "at" and "after" the deadline all occur; `MaxTime` leaves each round
time to expire. `Funds` lets a wallet buy in two rounds and run dry. Deadlock is
not checked in these two runs, because the bounds on rounds and time stop the
system, nor for the three scripts, which end. Request ids and the two plain
wallets are symmetric in `lottery_feed`; runs with liveness use no symmetry.

For the indexer, one reorganisation can strike between any two calls and to any
depth; a height of 3 with one block per pass gives passes that end early and
rewinds over several blocks, down to below the first block. `Start` is 2 in
`store_forks`, so that the deployment block has a parent that is not stored.

The page has one click, one change and one call by others, which may fall at any
await; messages wait in a queue of two or three. Two such hazards at once (a
second change while the first is handled) are outside the bound; so is opening
the wallet menu in `wallet_page`, which `wallet_actions` has. The faucet's button,
which no property is about and which nearly doubles the run, is in the model and
under the theorems but in no run. In `history_view` three requests overlap, and five rounds are three pages.

`SepoliaDeploy` may send two transactions twice (two crashes over nine steps).
In `SepoliaCheck` each kind of mishap happens at most once, and two kinds
together; its rounds hold two, so that a stranger's ticket shuts a wallet out.

Fairness. `system_draws` assumes that the coordinator answers each request once
(the service bought from the oracle network), whatever becomes of the callback,
that somebody keeps calling `finalizeDraw`, which is open to everyone and offered
by the page, and that a holder keeps claiming; the properties are that the round
then settles and the claim succeeds. Nothing is assumed about who performs a
draw or starts a round. `query_service` assumes that a process that is running
keeps polling and that its calls return, with an answer or an error, as the
pass's time limit guarantees. That a process is running and holds the lock is
the premise of `Converges` and `ReadyAgain`, not an assumption: nothing is
assumed about `Launch`, faults or the chain. `wallet_page` assumes that the
browser runs what is due, that a refresh tried every 4 s is not dropped or failed
every time (the configuration, whose reload makes refreshes stale, comes every
30 s), that the user answers the wallet's questions, and that the chain includes
what it gets in some form. `history_view` assumes the same of its requests, which
are given up after 12 s. The scripts' runs assume that the chain includes
transactions and the operator runs the script again; `local_stack` assumes
nothing of the services; `backend_life` that calls return and goroutines run,
with strong fairness for the worker's exit because Go's `select` is random when
the timer and the context are both ready.

## 4. Disagreements with the documentation

`indexer_lock_lost` is one with `docs/architecture.md`, line 66: "A held
PostgreSQL advisory lock permits only one writer per deployment." `Sync`
checks the connection of its lock when a pass begins. If the connection dies
later in that pass, the pass goes on to commit, also when another process holds
the lock. `store_forks` and the proof of `OneHistory` show why this does no
lasting harm: both transactions are serial and refuse what does not continue the
stored chain.

The models also follow the code in these places, where a sentence of the
documentation promises more; no run is given to them:

- a success message is set for the account of the click even if the page has
  since moved to another account (`main.tsx:351`; `docs/architecture.md:78`), and
  the refresh after an action paints the balance of the account of the click
  until the next one: `BalanceOfSelected` states exactly that exception;
- a deployment that died between sending and saving deploys that contract again
  (`deploy-sepolia.mjs:49`; `docs/sepolia-assessment.md:82`), and a funding
  transaction that failed is taken for done (`deploy-sepolia.mjs:111`): the
  manifest is written over a subscription without funds;
- Ctrl+C while the services are being started leaves them running
  (`local.mjs:15`; `README.md:22`); a port that another program takes after the
  check is not noticed when that program answers in the service's place
  (`stack.mjs:30`; `README.md:22`);
- an answer marked synced may show an abandoned fork (`http.go:121`), although
  `docs/api-guide.md:37` keeps older data for answers with `synced: false` and
  `docs/architecture.md:68` has recovery "return temporary unavailability". A
  rollback that is still going on when the state is read is seen there, and the
  answer is refused or not synced; one that began after the snapshot and is over
  by then, recovered, caught up and recorded as a success, is not. `SyncedAnswers`
  has no premise about rollbacks and names this exception (`Overtaken`: such a
  recovery, and the block of the answer is no longer stored). The exception is
  real: without that disjunct `query_service` finds such an answer;
- "Wallet changed. Please review and buy again." (`main.tsx:348`) is the last
  look at the wallet before a purchase. The `await` of the block number
  (`main.tsx:299`) comes after it, and a change of account there goes unnoticed:
  the purchase is still handed to the wallet for the account of the click
  (`main.tsx:300`). In `WalletApp` `AccountsChanged` may fall between `Recheck` and
  `Send`, and between `Send` and `Sign`; no property says otherwise, since the
  code does not. The transaction names its account, and the wallet asks its user
  to confirm it;
- readiness is lost for a moment in every ordinary pass (`indexer.go:109`;
  `docs/operations.md:89`), which is why `ReadyAgain` says "again and again".

## 5. Proofs

Each proof module extends the modules it is about; `WalletAppProofs` and
`DeploymentProofs` extend several that share no names. Assumptions: in
`DLottery`, `ConfigurationAssumption` (what the constructor accepts, over the two
constants of the code) and `EnvironmentAssumption` (names are distinct, bounds are
numbers, there is a wallet); `SystemAssumption` is the same two for the pair;
`StoreAssumption` (a hash identifies its block; a log carries the number and hash
of its block; logs come in increasing index, as `indexer.go:164` sorts them); `IndexerAssumption` (the deployment block has a number of at least
1, `NoHash` is no hash, bounds are numbers); `WalletAppAssumption` (the chain
opens in some state of `Rounds`, the wallet lists players, names are distinct);
`HistoryAssumption` (a page has room for a row); `BackendLifeAssumption`;
`LocalStackAssumption`; `WalletsAssumption` (the owner is an examiner, examiners are
wallets, wallets are players) and `BoundsAssumption` of `SepoliaCheck` (at least two
rounds); `BoundsAssumption` of `SepoliaDeploy`. The bounds of the runs are constants
that the proofs leave open: where a bound caps a counter, the theorem holds for
every value of it.

`DLotteryProofs`: `TypeCorrectness`, `Backing`, `RoundsApart` (from
`OneRoundAtATime` and `OneRequestPerRound`), `OutcomesAreFinal` and
`EachClaimPaidOnce`. `ExactBacking` relates the balance to the buckets, but what a
transaction moves is read from a round's record: `performDraw` adds
`participantCount * ticketPrice` to the refunds and clears `activePool`;
`claimPrize` pays fee and prize and subtracts `pool`. The inductive invariant
`IInv` therefore also says that a pool is inherited rollover plus tickets
(`PoolsAddUp`), that a declared prize and its fee are the pool (`PrizesAddUp`),
that a round in drawing sold a ticket, so that the fee's subtraction stays natural
(`DrawnRoundsSold`), that `activePool` is the live round's pool
(`ActivePoolIsCurrent`), and that only the latest round is live (`OneLiveRound`).
Requests need their own part, `RInv`: `RequestsBelongToOneRound` is inductive only
with "an open round has no request yet" (`NoRequestYet`). `FullInv` is the
conjunction; each transaction has a lemma.

The second half of `DLotteryProofs` goes round by round: first the tickets,
`BoardIsConsistent`, `LuckyTicketWins` and `TicketsAreFixed`. What any step may do to the tickets of a round is said once
(`TicketStep`: nothing, one sale in an open round, or opening it with an empty
board), and the invariant `TInv` adds `Board` (slots are filled from the front, and
the two views of the board are inverse) and `WinnerTakesPool` to `FullInv`. Then
the money round by round, `BucketsAreExplained` and `EveryBalanceExplained`. A sum
over rounds is the cardinality of a set with one unit per token (`Units`), which a
transaction changes by the units of one round (`OneRoundMore`), so no recursion is
needed. `BookInv` adds that the counter of participants is the number of holders
and that a round without a word has no winner; `OwedInv`, that the prizes and
refunds owed are those of the declared and cancelled rounds, that the waiting
rollover is what the last round left over (`RolloverWaits`), that each round
inherited what the one before it left over (`PotsInherited`: without it a
cancelled round could send back a pot that is still elsewhere), and that only
tickets of cancelled rounds are refunded. `PaidInv` is the same for the players'
balances.

`ViewProofs`: `ClientsSeeRounds`, that `DLottery` implements `Rounds`, with one
lemma per transaction; and `NothingIsRefused` and `ReadModelIsRight`, that the
read model accepts every event and agrees with the contract. Its invariant
`FeedInv` is stronger than agreement: each row of the read model is the function
`RowOf` of the contract's state, and the claims table holds exactly the paid
prizes and refunds. That an event is accepted follows from `OwedInv` on the side
of the contract and from the row being the mirror of it.

`LotterySystemProofs`: `PairIsALottery`, that the lottery of the pair is a
`DLottery` whose provider calls back with words of `Words` only (`WordsKept`), and
hence has every invariant above; `PairAgrees`, that `delivered` means settled,
whatever callbacks fail; and `PromiseIsKept`, that the pair implements `Raffle`.
`PairAgrees` uses `RequestsBelongToOneRound` of the lottery: without it, one
delivery could settle another request's round. `PromiseIsKept` uses both, and
`Board`: a failed callback is the step that draws the word and does not announce
it, a retry the one that announces it, and the winner is an entry because the
owner slots are filled from the front.

`StoreProofs`: `TypeCorrectness` and `TablesHoldOneHistory`. The chain, the match of
events and blocks, and the types are inductive together and not alone: that a
committed block's events are not there already needs the types of the rows, and
that a rewind keeps the events of exactly the blocks it keeps needs both others.
`ProjectionsAreReplays` says that the projections are the replay of the stored
events. `Replay` puts an event at the position given by the number of events
before it; the proof goes through these ranks: a sequence is the events in order
(`InOrder`) when its length is their number and each stands at its rank. A commit
adds logs that rank after everything stored, each of them once although it may be
delivered twice (`NewLogs`, the loop over the delivered logs, is a recursive
function; it is unrolled, and followed from a least counterexample, by `WFMin` on
the numbers). A rewind that is refused or that empties and replays gives the
ranks of what is left.

`QueryServiceProofs`: `IndexerIsAWriter`, that every step of the processes is a step
of `Store` or none, so that `TablesHoldOneHistory` holds of any number of
processes, whatever crashes and lost locks (`ProcessesKeepOneHistory`), and so does
`ProjectionsAreReplays` (`ProcessesKeepProjections`);
`PassesTellTheTruth` and `AnswersTellTheTruth`, that a pass that reports success,
and an answer called synced, speak of the chain; and `LockHolderWrites`, that only
the holder of the lock writes as long as lock connections do not die. `PassInv`
says for each point of a pass what its local variables mean: its cursor is the one
in the tables (`CursorIsLocal`); the walk has left only orphans above it
(`WalkInOrder`; by `PastInHash` it is enough to know the lowest of them); from the
rewind on, everything stored is canonical, unless the chain was reorganised after
the pass read the head (`ScanInOrder`); and `synced` is down in the middle of a
pass (`StoppedIsSilent`). Two theorems have the hypothesis
`Undisputed`: there is one process, or lock connections do not die. With two
processes and a lost lock, the older one may rewind or commit in the middle of the
other's pass (section 4), and of the tables only their one history is left.
`AnswerInv` ties a handler's snapshot to the tables of the moment it was taken, and
`AnswersTellTheTruth` needs no premise about rollbacks: from a rewind to the end of
the pass that catches up, `synced` is down (`SilentInRecovery`), so an answer that
found it up saw either no rewind since its snapshot or a whole recovery, the
exception of section 4.

`WalletAppProofs`: `SuccessIsTrue`, `BalanceIsOfSelected` and
`PurchasesAreApproved`. That a success message stays true is a fact about `Rounds`: tickets, refunds and outcomes
are never taken back (`Grows`, kept by every call and by the deadline). That it is
true when it is shown takes the path of an action from the click to the receipt,
`TaskInv`: the task of kind k asks the wallet for k or for an approval, an approval
only leads back to the check before a purchase, and the transaction waited for is
the one that was sent. Together with "a mined transaction did what it is named
for" (`FactInv`) that is inductive. The balance needs that a refresh the page
started and that is not stale reads for the selected account (`ShownInv`: every
selection marks the refresh in flight, and a timer starts one only after the
effect of the last render). A purchase is on its way only after the allowance was
seen or its approval mined (`Covered` in `ApprovalInv`), its round is never one to
come (`Known`), and whatever takes an approval away buys a ticket for the same account
in the current round (`SpentOnTickets`), so that `PurchaseIsApproved` lets go of the
allowance only when the ticket is there or the round is over. The two runs have
`MaxRounds` 1: the last case, a round that others ended and followed by a new one, is
covered by the proof alone.
`HistoryIsSound` is about `HistoryView`. `HistoryInv` says of every request, in flight
or answered, that the cursor it starts below has rounds below it (`Reachable`: a
cursor is never 1, since a next page is offered only for a row that was left out) and
that an answer without a next page ends with round 1, both as long as nothing was
taken back; then so does whatever list an answer replaces or is appended to.
`AppendedOnce` is the loop that appends a page, whatever the list on display is by
then.

`SepoliaCheckProofs`: `StepsSentOnce` and `ReportIsTrue`. Several wallets are between
look and receipt at once, and `AtWork` says which of them `main` may have set to
work, on what. Unless a hash was lost, what was sent of a step is on file or about
to be saved (`OnceEach`). For the report, a transaction that went through left its
mark in the contract (`DidLast`), a wallet that is done with its task has done it
(`DoneMeans`), and each point of `main` has seen to what lies before it (`Reached`).
That strangers cannot undo any of it is a fact about `Rounds` (`Keeps`: tickets are
kept, a round that ended keeps its winner, and its status but for the claim). Over
restarts nothing needs to be remembered but the file: `main` looks again.

`DeploymentProofs`, three parts. Of `SepoliaDeploy`: `NothingSentTwice`. Unless a hash
was lost, every transaction is the one on file for its label or the one about to be
saved (`EachOnFile`). `ManifestIsWhole`: the manifest names contracts that work
together. `WorksInv` adds that a step on file was sent with the arguments that the
file still gives it, after all earlier steps had succeeded, except the funding, which
may have failed (`FileInOrder`), and that the run in progress has passed the steps
before its own (`RunInOrder`).

Of `LocalStack`: `StackStopsCleanly` and `StackServes`. `StackInv` says for each place
of the script which services it has spawned (`Progress`) and what it is stopping
(`Stops`), that every process that lives is a child, on the list to be stopped, or the
database before it answered (`NoneForgotten`), that in the children a backend comes
after what it uses, so that in the reversed list it comes before (`InOrder`,
`DependentsFirst`), that a port is held by a process of its service which has not
gone (`Held`), and, with nothing going wrong, that what has answered still does
(`StillAnswers`).

Of `BackendLife`: `LifeTypes` and `ReplacementIsClean`. The invariant ties the lock to
the phase of `main` (`LockInUse`), the worker to the lock, and requests that outlive
the wait for them to `gaveUp`.

Only model-checked: everything with fairness, which is outside what TLAPS proves
(`DrawingIsSettled`, `EveryClaimIsPaid`, `Converges`, `ReadyAgain`, `NeverStuck`,
`Recovers` and that each script ends), and `OneWriter`, which does not hold. Every
invariant and every action property that a passing run checks is a theorem.

## 6. Plan

1. `Reentrancy`: `buyTicket` and the claims in micro-steps around token callbacks,
   with the unguarded `finalizeDraw` and `fulfillRandomness` in between, shown to
   implement the atomic `DLottery`.
2. `WalletApp` with two changes in the wallet during one action; the proofs of
   `WalletAppProofs` already allow any number, so this is for liveness only.

## 7. Left out

In the contracts: 256-bit wrap-around (the compiler reverts; token supply is far
below), the encoding of events, gas as a quantity, the constructor's code
checks, view functions that return stored data, and reentrancy (guarded functions
refuse it, so only `finalizeDraw` and `fulfillRandomness` are in question). A
permanently failing token transfer, for instance a frozen recipient, reverts a
claim and leaves it open; it is a claim that is never made, so no safety property
depends on it, and `EveryClaimIsPaid` assumes a token that does transfer.

In the backend: metrics, log redaction, the retry delay, schema migration,
headers, CORS and the validation of parameters, the check of the chain id and of
the contract's code at start, and the start and finalisation times of the read
model.

In the frontend: texts, amounts, the countdown, the backend's synchronisation
figure, and the components without state (`Transactions.tsx`, `Help.tsx`).

In the scripts: `e2e.mjs` is a sequential test of the running stack and
`round.mjs` a one-shot helper; neither keeps state. `deploy.cjs` deploys to a local
chain in one go. The checkpoint files are written atomically in the models.
