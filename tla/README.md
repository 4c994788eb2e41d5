# MYDON: a TLA+ model of its protocols

MYDON is the back office of a vending and rental business: a Core service
(NestJS over Postgres) with the registers and rules, an agents process that
carries out tasks with paid LLM calls, a Telegram bot, a web command centre and
an MCP façade. Most of it is registers and reports. What is hard in it are the
protocols in which a crash, a lost answer or an unlucky order of steps costs
money, repeats an external effect, loses a message or leaves two records in
disagreement. This directory models those protocols, checks them with TLC and
proves the central ones with TLAPS.

Every definition that stands for code is listed in `PROJECT.json` under `map`
with its lines. Paths below are relative to `src/`.

## 1. Inventory

| Part | State | Operations | Speaks to | What is hard |
|---|---|---|---|---|
| Task execution (`apps/core/src/tasks/tasks.service.ts`, `task-llm-jobs.service.ts`) | the task row (status, owner, lease, attempt, block, retry time), `task_agent_execution`, `agent_task_llm_job` | claim, start, ensure job, claim dispatch, complete, checkpoint, commit, release, heartbeat; set status, edit, rate, owner retry | workers over HTTP; the ledger inside its transactions; the delivery outbox at commit | leases that run out under a live worker, answers that get lost, calls that arrive late, the owner changing the task meanwhile |
| Task worker (`apps/agents/src/task-worker.ts`, `task-llm-session.ts`, `runner.ts`, `llm.ts`) | run id, step and model it is at | the loop claim, start, (ensure, dispatch, call, complete)*, checkpoint, commit | Core, LLM providers | a crash between any two calls, repeating a call whose answer is lost |
| LLM ledger (`apps/core/src/llm-ledger/llm-ledger.service.ts`) | `llm_spend` | reserve, settle/fail, release, recover-pre-dispatch | task execution, ledger clients | concurrent transactions under advisory locks, midnight, the provider circuit |
| Settlement outbox (`packages/llm-ledger-outbox/src/index.ts`) | files in `pending/`, `processing/`, `dead/`, locks | persistPreReserve, armFallback, persistExact, acknowledge, retryLater, rejectTerminal; the drain | the ledger through `packages/shared/src/llm-ledger.ts` | crashes of producer and drainer at every file operation, closes that arrive late, stale listings |
| File-system lock (same file) | a directory with owner files | acquire, heartbeat, stale reclaim, release | every record of the settlement outbox | judging a directory and renaming it are two steps |
| Delivery outbox (`apps/core/src/outbox/outbox.service.ts`, `apps/agents/src/outbox-dispatcher.ts`) | `outbox_delivery` | enqueue (at commit), claim with expiry sweep, complete | Notion | a provider without idempotency key; answers lost on both sides |
| Units (`apps/core/src/units/units.service.ts`, `packages/shared/src/globerent/unit-status.ts`) | `globerent_unit`, `unit_reserve`, commissions in `money_flow` | create, the transitions, VIN unbinding, reserve and cancel, the expiry sweep at each list, sales stages, accrual | import contracts, finance, events | a sweep of two statements, an accrual after the commit it belongs to |
| Import contracts (`apps/core/src/imports/imports.service.ts`, `import-lifecycle.ts`) | `gr_import_contract`, its payments in `money_flow` | sign, mark paid, bulk action, recompute, cancel | units, the finance screen | a lifecycle computed without locks from units that move meanwhile |
| Events, rules and the bot's notifier (`apps/core/src/events`, `rules`, `apps/bot/src/notifier.ts`, `index.ts`) | `event`, `notification_delivery`; in the bot a cursor, unacknowledged notes | record, pending, ack; collect, send, acknowledge | Telegram; every producer of events | events dated before they are visible, lost answers, restarts |
| OurVend parity (`apps/core/src/ourvend`) | `operational_issue` with its task, a watermark | daily scan, reconcile | events | overlapping scans that end in another order |
| Entities and approvals (`apps/core/src/entities`, `approvals`) | `entity`, `entity_draft`, `approval` | create, propose, update, approve, approve or reject a field, remove; decide | bot, command centre | three orders of row locks, reads before the transaction, forms filled in earlier |
| Schedules (`apps/agents/src/schedule.ts`, `scheduled-occurrence-queue.ts`) | occurrences | enqueue, run | task execution | one task per occurrence over restarts |
| Registers: stock, supply, vending, coffee, sales, finance, contracts, documents, raw data ... | tables | transactional CRUD, sums, imports | bot, command centre | domain arithmetic rather than protocol |
| Command centre, MCP, watchdog, deployment scripts | none of their own | views, tools, pings | Core | nothing that the models here could show |

What makes each modelled part correct:

* **Task execution**: a job is sent to its provider at most once; its ledger row
  tells whether it was sent; an unknown outcome stays unknown until evidence
  arrives; only the owner pays for a step a second time; what is reserved stays
  within reach of a closing or a retry; a task does not circle.
* **Ledger**: admissions never pass the caps of the day; one grant per request
  key; the key of a job's day is booked on that day; no grant on a provider with
  an open circuit; no deadlock.
* **Settlement outbox**: from dispatch to close there is a durable record; an
  exact cost is not lost; money is given back only for calls not made.
* **Lock**: one holder, and a dead one does not block the key.
* **Delivery outbox**: one page per intent, and a status the operator can trust.
* **Units**: a milestone is not undone, a sweep puts no machine back on offer that was
  held when it began to free it, a lapsed reserve does not keep a machine out of
  stock, a closed sale is not paid twice.
* **Import contracts**: the contract says of its units what is so, an obligation
  falls due once, and the lifecycle goes back for one known reason only.
* **Notifications and parity**: the newest message about an issue is true;
  every message reaches the owner, in order, and again only after a failure.
* **Cards and approvals**: a question waits as long as its card does; an approval
  takes effect or is not recorded; an answer is final; changes are not lost
  without a reason that can be named.

The hazards behind these properties, each at its line, are in `PROJECT.json`.

## 2. Modules

| Module | Models | Composition |
|---|---|---|
| `TaskExecution` | one task: Core's handlers, its jobs, the workers, the owner, lost and late calls | refines `MeteredCalls` |
| `MeteredCalls` | abstract: a call is made at most once against its own reservation, which is kept if it was made and returned only if not | |
| `LlmLedger` | reserve, settle and release as transactions that lock, read and write in separate steps | EXTENDS and refines `LedgerBudget` |
| `LedgerBudget` | the `llm_spend` table, its sums and statements, and the atomic ledger | |
| `SettlementOutbox` | producer, drainers and Core over the files of one request key | its critical sections assume the lock of `FsLock` |
| `FsLock` | the directory lock, one step per file-system call | |
| `Units` | units, reserves with their sweep, sales with their commission | |
| `ImportContracts` | a contract, its payments and the workers on it | EXTENDS `Units`: the units move by both |
| `Notifications` | event journal, the pending query, the bot's delivery round | |
| `ParityIssues` | overlapping scans, issue, task and watermark | EXTENDS `Notifications` as a producer of events |
| `CardApprovals` | a card with one proposed field, its question, and the calls of bot, panel and editors on the three rows | |
| `DeliveryOutbox` | outbox table, dispatcher loops, Notion, the network between them | refines `AtMostOnceDelivery` |
| `AtMostOnceDelivery` | abstract: opened once, performed at most once, honest verdict | |
| `MC*` | constants for TLC | EXTEND the module they are named after |
| `*Proofs` | theorems and their lemmas | EXTEND the module they are named after |

### TaskExecution

The task row is one variable per column (`status`, `owner`, `run`, `attempt`,
...), the executions and jobs are functions of the attempt and of (attempt,
(step, model)). A handler of Core is an operator with the caller `c` and the
answer `res`: `StartAgentRun`, `Ensure`, `ClaimDispatch`, `Complete`,
`CheckpointAgentRun`, `CommitAgentRun`, `ReleaseAgentRun`. Each is one step
because each locks the task row first. `edit` of the owner and `rate` read the
row before they write it and are therefore two steps (`Read`, then `Assign` or
`Redo`). A worker is at one call at a time; `Request` lets Core handle it and
`Proceed` says where the worker goes with the answer. A worker that gives a
call up (`Unanswered`, `Crash`) leaves it in `late`, from where it reaches Core
at any later time (`LateArrives`), or never.

Choices worth knowing:

* A run id is a UUID; the model takes the least id that nobody knows any more.
  `MaxRuns` bounds the ids in use at one time and is never reached in the runs.
* A dispatch token is a UUID per wire attempt. A run visits a job at most once,
  so the run id stands for it.
* `DISPATCH_GRANT_MS` may run out at any time after the grant. Core writes
  that down when it next looks at the job; nothing can tell the difference
  before.
* The ledger's answers to a reservation and to the reauthorisation of a
  dispatch are choices; `LlmLedger` is about them.
* `Ensure` may find that a stored job differs from the request; that is a
  choice too (`jobMismatch`).

### LlmLedger

A transaction moves through provider lock, request lock, budget lock, read,
write; `Rollback` may end it at any point, and `Midnight` may pass between any
two points. The reservation of a task job is made under a key of the day
(`requestKeyForDay`): `KeyOn` gives the key of a call on a day, a transaction
that is `dated` looks it up again (`Redate`) whenever midnight passed while it
waited for a lock, and keeps the locks it has. Policies, prices and switches may deny any new request. A row is
one function per column. `Exposed` gives what a row counts for, `Exposure` and
`AgentExposure` are the sums of a day.

### SettlementOutbox

Keys share no file and no row, so one key is the model. A file is its kind and
its attempts; `pending` is indexed by the two record ids a key can have, a claim
in `processing` carries its token. Sections that hold a record or reservation
lock are one step unless they call Core. `Timely` is the delay that
`fallbackDelayMs` grants a producer; with `SlowProducer` a record may come due
earlier than its producer is done, and the history variable `overrun` records
that it did. `Verdict` is what Core itself answers to a close; a close of which
nothing is booked (`Unbooked`) was lost, may arrive later, or was refused by what
stands before Core.

### FsLock

`lock` is the directory at the lock path with its age against the lease,
`owners` the owner files in it, `doomed` what a clean-up has listed and not yet
unlinked. Two history variables say why a rename went wrong: `watched` is who
judged the very directory that is at the path now, and `misfired` whether a
rename took a directory in use, and if so that of a successor of the judged one
or that of a process that had paused beyond its lease.

### DeliveryOutbox

`Claim` is the whole handler: expire the old claims, take the oldest row that is
not locked, check the hash of its payload. Completions are messages in `calls`
that Core may process after their sender stopped waiting; publish requests that
were given up are in `late` and may still create the page.

### Units

`applyAction`, `reserve` and `cancelReserve` lock their row and are one step.
`expireReserves` is not: each of its two statements is committed on its own, and
the second takes a snapshot (`ListFree`) before it updates the rows and looks at
each of them again (`FreeListed`): Postgres checks the status of the row again,
not the NOT EXISTS over another table. The history variable `renewed` is what was
reserved since that snapshot. The commission is accrued after
the sale is committed; row, trail and the answers to both may fail. `doubtful`
counts the inserts that were committed and reported as failed, the case that no
code on this side can tell. Prices, costs and rates are left out: whether the
method yields anything is a choice.

### ImportContracts

Handlers that lock the contract are one step; a bulk action picks its units and
moves them in two. `recomputeLifecycle` reads the contract, reads the units and
writes in three, for it takes no lock. The units move by all actions of `Units`
at the same time. No code under `src/` gives a unit its sale contract, so the
phases "delivered" and "closed" are never computed and `finalLifecycle` is not
modelled.

### Notifications and ParityIssues

An event has the time its producer gave it and is visible from its commit. The
bot has a scan with an upper bound and a page cursor, a lower bound that moves
when a scan ends, the notes it has not acknowledged, and forgets all of it in
`Restart`. `Send` and `Ack` are calls of their own; each may fail, or succeed
with a lost answer. `ParityIssues` is one producer: a scan has a start, then a
reading, then its reconcile, which is one transaction under an advisory lock.
`MaxScan` is how long a scan may take. Other producers date their events in the
same way or leave the time to the insert; they are not modelled.

### CardApprovals

The three rows are `card`, `draft` and `question`; `drop`, `step` and `by` of a
call say which of them it has locked, and a call waits for a row that another
one holds. What a call has read before its transaction, or without a lock, is in
`base` and `seen`. The content of a card is the number of prices in its history
and the value of the one field that is proposed, which is what the properties
tell apart. `Abort` is a rollback: a lost connection or the victim of a
deadlock, which Postgres chooses. `approve` takes the drafts with the card, as
both of its callers ask (`entities.controller.ts:194`, `entities.service.ts:270`).

## 3. Runs

| Run | Instance | Distinct states | Shows |
|---|---|---|---|
| `delivery` | 2 intents, 2 dispatchers, lease of 1 tick, 1 retry after 429 | 242,585 | `AtMostOnePage`, `VerdictMatchesProvider`, refinement of `AtMostOnceDelivery`, `EventuallySettled` |
| `fslock` | 3 processes, 2 crashes, stalls | 8,671 | exclusion fails only by a misfired rename; a holder owns its directory; what a dead owner left goes |
| `settlement` | 1 drainer, slow producer, 2 submissions, 3 submissions and crashes together, 2 attempts, every call may be late | 777,036 | `DispatchCovered`, `ExactPreserved`, `PromptReleasedUndispatched`, `OneDispatch`, `Accounted` |
| `ledger` | a request and a job with a key for each of 2 days, a cap for one of them, 2 providers, 2 transactions at a time, 3 in all | 117,580 | caps, circuit, `KeysHonoured`, refinement of `LedgerBudget`, no deadlock |
| `task_money` | 2 workers of one agent, 1 step with 2 models, 2 attempts, 2 faults or requests of the owner | 391,815 | `OneWirePerJob`, `UnknownIsFinal`, refinement of `MeteredCalls`, `TerminalRetainsNothing` |
| `task_owner` | 2 agents with a worker each, 2 steps, 3 attempts, 2 requests of the owner | 287,249 | `PaidPerDecision`, `NoStrandedReserve`, `SequentialExposure`, `Settles` |
| `stock` | 1 unit, 2 sweeps, 2 accruals, 3 days, 2 closings, 2 failures | 276,056 | `NeverBackwards`, `HoldRespected`, `LapsedReserveFrees`, `CommissionPerClosing` |
| `imports` | 2 units of one contract, 1 payment, 2 workers | 994,210 | `ContractMatchesUnits`, `ObligationOnce`, `BackOnlyFromStaleRead` |
| `alerts` | 2 scans of at most the overlap, 2 episodes, 2 changes of the data, 1 failure, pages and memory of 2 | 235,766 | `NewestEventIsTrue`, `DeliveredAsTold`, `ToldInOrder`, `EventuallyTold` |
| `cards` | 3 calls at a time, 2 price changes, 1 proposal | 1,229,538 | `QuestionIsOpen`, `ApprovedIsFact`, `AnswerIsFinal`, `HistoryAddsUp` |

Two more runs, `alerts_late` and `task_rotation`, end in a counterexample, and
further configurations do; see section 6. `FsLockPrompt.cfg` (`MCFsLock`, 4 processes
that do not stall, 394 states up to symmetry) passes: without stalls, exclusion fails
only by a rename that takes the directory of a successor.

Why the bounds are enough. The delivery and lock races need a victim, a rival
and a third party that profits, and at most two failures. The settlement
outbox needs one crash of each side, or one crash and a second submission;
`MaxAttempts = 2` is the least value at which a record can both be returned and
be buried. At the ledger two transactions at a time show every conflict of two
lock sets, and three calls are what it takes to open a circuit and race it. A
task needs two workers for a takeover, two models for a fallback, two steps for
an order among paid calls and two requests for one to overtake the other. A
sweep is disturbed by a reservation or by a second sweep, and a unit does not
look at another one, so one is enough in `stock`; a contract needs two units to
be in two phases at once and two recomputations to overtake each other. In
`imports` the reserves and sales of `Units` are switched off to keep the run
small: `stock` covers them, and the proofs have both at once. Notifications need two pages, two scans,
and an episode that ends and begins again. Three calls on a card are a writer,
one that has read before it, and one that holds the row the other waits for. The
counters that are bounded (`MaxCalls`, `MaxRuns`, `MaxOps`, `MaxFaults`,
`MaxTrouble`, `MaxDay`, `MaxClosings`, `MaxNow`, `MaxEpisode`, `MaxFlips`,
`MaxPriced`, `MaxProposals`, `MaxAttempts` of `TaskExecution`) only stop the environment.
`MaxAttempts` of `TaskExecution` exceeds the number of requests in `task_owner`,
so that the bound never keeps a task from being claimed there. Where a cfg says
CHECK_DEADLOCK FALSE the system may stop: its environment has nothing left to do
within the bounds, or, in `cards`, the card is removed. `TransactionsEnd` states the absence of deadlock where it matters.

`settlement` states some properties for a key that is submitted once (`Once`),
because a second submission breaks them: see `SettlementRelease.cfg` in
section 6.

Fairness. Weak fairness only, of what the code repeats or cannot avoid: the
dispatcher and the drain are polled by timers and their awaited calls have time
limits; Postgres grants a free lock to a waiting transaction; a worker polls and
gets through its calls unless a fault stops it; time passes; the bot polls every
few seconds, and a list of units, which sweeps, is read again. Nothing is assumed
of crashes, providers, lost calls or the owner. `task_owner` runs without
faults; with one fault as well (`MaxFaults = 1`, 608,813 states) the same
properties hold. Its two agents are alike, so it starts with the first of them.

Every property of a passing run has a mutant: a changed definition, as a
plausible bug would change the code, under which TLC finds the property
violated. They stand before the definition they change, marked `Mutant`.

## 4. Proofs

| Module | Theorems | Inductive invariant |
|---|---|---|
| `TaskExecutionProofs` | `Typed`, `OneWire`, `UnknownKept`, `Metered`; `ReserveReachable`, `OneExposed`, `ClosedRetainsNothing`, `PaidAsDecided` | `Inv == TypeOK /\ Actors /\ Apart /\ Books /\ Chain`; then `PlanInv`: `Line`, `Anchored`, `Alone`, `Issued` and `Minded` of everyone at work |
| `SettlementOutboxProofs` | `SettlementTyped`, `CalledOnce`, `ReleasedRightly`; `PaidCallCovered`, `MeasuredCostKept` | `Inv`: types, `Dispatching`, `Untouched`, `Tokens`, `Booked` and, for a key submitted once, `OneFile`, `Progress`, `Recovery`, `Buried`; then `LoopInv`: `Finished`, `Covered`, `Kept` |
| `LlmLedgerProofs` | `LedgerTyped`, `GrantOnce`, `Serialisable`, `CircuitKept`, `WithinCap` | `Inv == TypeOK /\ Exclusive /\ Guarded /\ Booked /\ Hinted /\ Planned /\ Granted /\ Dated /\ KeyOfItsDay`, and `FewRows` |
| `ImportContractsProofs`, on the units | `UnitsTyped`, `MilestonesStay`, `HoldsRespected`, `CommissionsBounded` | `Inv == TypeOK /\ Owed /\ ListedWereFree` |
| `ImportContractsProofs`, on the contracts | `ContractAndUnitsAgree`, `ObligationsOnce`, `LifecycleBack`, `ImportedMilestonesStay` | `ContractInv`: types, `DraftIsBlank`, `WritesAhead` and the two parts of `ContractMatchesUnits` |
| `ParityIssuesProofs` | `FeedTyped`, `JournalFollowsIssue`, `NotesBounded`; `AlarmBeforeRecovery` | `Inv`: types, `Memory`, `DeliveredWasTold`, `Repeats`, `Journal`; then `OrderInv`: `Line`, `Waiting`, `Clock` |
| `CardApprovalsProofs` | `CardTyped`, `QuestionFollowsCard`, `ApprovalTakesEffect`, `OneAnswer`, `HistoryKept` | `Inv`: types, `Unasked`, `HoldsWhatItRead`, `Exclusive`, `QuestionIsOpen`, `ApprovedIsFact` |
| `DeliveryOutboxProofs` | `TypeCorrect`, `OnePage`, `HonestVerdict`, `Refinement` | `TypeOK`, then `Rights` |
| `FsLockProofs` | `Exclusion`, `Ownership` | `Inv`: types, `OneTenancy` until a misfire, `Prompt` without stalls |

They hold for every value of the constants that satisfies the assumptions of the
component (`TaskAssumption`, `LedgerAssumption`, `LlmLedgerAssumption`,
`DeliveryAssumption`, `LockAssumption`, `UnitsAssumption`, `ImportAssumption`,
`NotificationAssumption`, `ParityAssumption`): that counters are naturals, functions
have their domains, and sets that are counted are finite. TLC evaluates them in
the runs. Five theorems need a hypothesis on top, and a configuration shows for
each that it cannot be dropped:

* `PaidAsDecided` assumes that nobody writes the bare status of the task
  (`"status" \notin Requests`); with it, `task_rotation` pays twice (section 6).
* `ClosedRetainsNothing` assumes that the task is not given to another owner
  (`"assign" \notin Requests`); with it, `TaskAssignedAway.cfg` leaves a request
  behind (section 6).
* `PaidCallCovered` and `MeasuredCostKept` assume one draining loop (`OneLoop`):
  the drain is called in one place, the poll of the agents service
  (`apps/agents/src/index.ts:626`), which never overlaps itself (`singleFlight`,
  line 987), and `deploy/docker-compose.yml` starts one such service.
  `SettlementTwoDrainers.cfg` shows what two would do.
* `AlarmBeforeRecovery` assumes that a scan of the parity check takes no longer
  than the overlap of the bot, and that the overlap is within the look-back of a
  restart (`InTimeForScans`). The second is so by far (five seconds, seven days);
  the first is what `alerts_late` is about, and with a longer scan or a shorter
  look-back TLC finds messages out of order.

*Task execution.* `OneWirePerJob` is not inductive: it says nothing of a worker
that holds a grant it has not used. `Actors` says so: whoever is granted has the
token of the job, and the job has not been sent; whoever completes has the token
and has sent it. `Apart` makes the token personal: no two workers have one run.
`Books` ties the job to its money, `Chain` a fallback to the rejection before
it. Core's transactions do one of six things to the job rows (`Effect`: nothing,
reserve, grant, lose, settle, cancel); each handler is shown to be one of them,
and the invariant is shown against the six. `Metered` maps each effect to a step
of `MeteredCalls`.

That no attempt has two open jobs is not inductive either: a job is made by
whoever asks for it, and a worker with an old view might ask for another one.
`Line` says that the jobs of an attempt are the path of its plan up to one slot,
`Minded` that whoever works at a slot has come along that path, and `Alone` that a
call which was given up, and may still arrive, has no rival under its run. A
denial that releases the task leaves nothing reserved, so the undispatched jobs are
always those of the task's own attempt (`Anchored`). As an attempt has at most one
unresolved job (`OneUnresolved`), neither a closing nor a retry is refused because of
it: that is `NoStrandedReserve`, which speaks of a task while it is an agent's, and
`ClosedRetainsNothing` follows for a task that stays one. `Issued` counts attempts against the retries of the
owner. All steps obey one relation (`Law`), and the second invariant is shown
against it.

*Settlement outbox.* A key has one paid call because the producer goes on only
under a row it has opened itself, and a row is opened once (`Dispatching`); this
holds for any number of submissions and drainers. While the key is submitted once
there is one file, which changes its kind, its name and its directory (`OneFile`),
and its kind tells how far the producer was (`Progress`): a marker that is being
recovered lies behind a producer that stopped before its call (`Recovery`, as long
as it kept to its delay). A claim is removed only after Core has booked what it
says or a dead letter was written (`Booked`, `Buried`, with `Tokens` to tell the
claims apart). The one place where a file is unlinked without this is the corrupt
record; with one loop that name is free and its producer has stopped (`Finished`),
and so the paid call stays covered and the measured cost is kept.

*Ledger.* A transaction that has read holds its three locks (`Guarded`,
`Exclusive`). Whoever writes meanwhile writes a row of another key, provider and
day, and such a row enters neither the sums nor the circuit that was read
(`ExposureFrame`, `CircuitFrame`). So the decision still stands when it is
written (`Planned`), and the write is a step of the atomic ledger. `Dated` says
that the key and the day of a job's transaction belong together from the first
lookup on, and that any other reserve which may insert a row has a key that is
the same on every day.

`WithinCap` speaks of the exposure after the admission. The exposure is a fold
over the rows of the day; `SumAdd` shows that one more row adds its value,
whatever order the fold takes, by induction over the size of the set. The
induction is a lemma on sets of naturals (`NatInd`, from the well-foundedness of
the order), because the induction theorems of the library take an operator, which
the provers do not instantiate. The rows of a day are finitely many because every
step books one at most (`FewRows`).

*Delivery outbox.* The right to create the page of an intent is passed from the
pending row to one dispatcher and to its abandoned request; every conclusion but
"unknown" is drawn after the right is spent or forfeited (`Rights`).

*Lock.* Exclusion has to cover the tenancy from mkdir to rmdir, and every
tenancy has its directory, unless a rename misfired (`OneTenancy`). If no process
pauses beyond the lease, a directory that has grown stale or was judged, and is still
there, is one that nobody uses (`Prompt`): a rename then misfires on the directory of
a successor only, which is all that the theorem excuses in that case.

*Units.* That a sweep frees a held unit only if the hold came later needs to know of
every listed unit that it was free when it was listed (`ListedWereFree`, with the
history of `renewed`). Commissions alone are not inductive: an accrual under way is going to
add one. `Owed` counts them in: commissions, notices and accruals due together
do not exceed closings and doubtful inserts.

*Import contracts.* A recomputation that is about to write "warehoused" has seen
a unit past the customs, and units do not go back (`WritesAhead`, with the
milestones of `Units`); a contract that was never signed has no units, payments
or lifecycle (`DraftIsBlank`).

*Parity and notifications.* The times of the events of the journal lie at or
below the watermark, and the newest of them says what the issue is (`Journal`). A
message told once more often than something failed is about to be acknowledged,
or delivered and no longer held (`Repeats`, `Memory`).

For the order of the messages it is not enough that the bot holds its notes in
order (`Line`): what it does not hold yet must be newer. `Waiting` says of every
event that is neither delivered nor held that the present scan or a later one has
it still before it, behind everything held and told, or that no scan will ever
look at it, not even after a restart. A page keeps this because it takes the
oldest (`PageFirst`) and all of them (`InTimeAll`); an event that becomes visible
late is kept in reach by the overlap (`Clock`).

*Cards.* While the bot holds the question it stays pending, and while an edit
with a new price holds the card its history stays as the edit found it
(`HoldsWhatItRead`); question and card have one holder each (`Exclusive`). All
else follows per action.

Only model-checked: the liveness properties (`EventuallySettled`,
`DeadOwnerEvicted`, `Accounted`, `TransactionsEnd`, `Settles`,
`LapsedReserveFrees`, `EventuallyTold`), because fairness and ENABLED are out of
the prover's reach. Every safety property of a passing run is a theorem. No
module uses RECURSIVE; sums are folds of the community modules.

## 5. What is not modelled

* Task execution: human tasks, comments, notifications, schedules, maintenance
  facts; the stored-plan and payload corruption checks; the bridge for old
  checkpoints; the retrieval snapshot; the release reason `action_capped`,
  which no worker sends, and the release without a reason after
  `not_implemented`: it needs a new release of the agents service without the skill
  of a running execution. The daily action cap is a choice at commit.
* Ledger: monitoring and alerts; the lookup of prices and policies.
* Settlement outbox: the temporary file of an atomic write, corrupt records in
  `processing/`, monitoring. Two dead letters of one record id are one (in the
  code, too, the second replaces the first). A claim is reclaimed only when no
  living drainer works on it: a drainer that pauses beyond its lease would need
  another one beside it, and there is one loop.
* Units: prices, costs and commission methods; the codes and VINs, whose
  uniqueness rests on indexes; the cards of the command centre. `mark-sold`
  leaves a running reserve as it is, in the code and in the model.
* Import contracts: drafts and their edits, sums and currencies, and the count of
  moved units in the audit log, which may exceed what was moved.
* Notifications: several chats, events of equal time, several rules for one
  event, clock skew between bot and Core, `rules.claim`. The look-back of seven
  days, the memory of 5000 and the page of 500 are small bounds here.
* Parity: the comparison itself, several fingerprints at a time (each has its own
  issue under the same lock), the event about a failed reconcile.
* Cards: decisions that execute an import, a purchase order, a coffee import or a
  backdating; the client key of a request; geo points; a second proposed field;
  `approve` without its drafts, which has no caller.
* The components marked `not_modelled` in `PROJECT.json`, each with its reason.

The share of the repository that is modelled stays small. The bulk of it is
registers, screens, reports and imports of a single transaction each, in which
nothing is left to interleave, and arithmetic over sums that a unit test reaches
better than a model.

## 6. Where code and documents disagree

Two runs violate a sentence of the repository; `PROJECT.json` quotes it.

1. `alerts_late`: the bot's lower bound follows its polls with an overlap of five
   seconds, and a parity event is dated with the start of its scan. A scan that
   takes longer writes an event that no later poll looks at. "Events written while a
   long catch-up is running are picked up by the next overlapping scan"
   (`apps/bot/src/notifier.ts:80`).
2. `task_rotation`: the test for paid calls looks under a key that durable jobs
   do not use. Closing and reopening a task at the wrong moment makes the next
   run pay for finished steps again, which "automation does not do"
   (`tasks.service.ts:2280`).

Further configurations, to be run by hand in the same way, each end in the
violation of the one property they check.

| Configuration (module) | Property | What happens, and what the repository says |
|---|---|---|
| `FsLockExclusion.cfg` (`MCFsLock`) | `MutualExclusion` | a reclaimer that pauses between judging a lock directory and renaming it quarantines the live lock of a successor, and two processes hold the lock; `llm-ledger-outbox/src/index.ts:631` speaks of a cross-process lock |
| `SettlementTwoDrainers.cfg` (`MCSettlementOutbox`) | `DispatchCovered` | a drainer that lists a file another one has moved takes it for corrupt and unlinks the path, by then a valid record again; the design says a record is removed only after an exact replay (`docs/superpowers/specs/2026-08-29-llm-ledger-design.md:195`) |
| `SettlementRelease.cfg` (`MCSettlementOutbox`) | `ReleasedUndispatched` | persistPreReserve does not look into `processing/`; the recovery record of an earlier submission releases the reservation of a later one, which goes on to its call (same document, 186) |
| `TaskAssignedAway.cfg` (`MCTaskExecution`) | `TerminalRetainsNothing` | cancelUndispatchedTaskLlmJobs (`tasks.service.ts:2590`) passes over a task that was given to a person: it is closed without cancelling the request its agent had reserved; "a terminal task must not retain a provider request that has not crossed the dispatch boundary" (2580) |
| `StockRace.cfg` (`MCUnits`) | `FreedOnlyUnheld` | a unit that is RESERVED without a reserve when the second statement of the sweep takes its snapshot, and reserved when the statement comes to its row, goes back to IN_STOCK with the new reserve running; the sweep is to free units "without an active reserve" (`units.service.ts:109`). `HoldRespected` and its theorem bound the damage: only a hold made in that window is passed over |
| `ImportsMarked.cfg` (`MCImportContracts`) | `MarkedIsSettled` | a payment may be marked on a draft (`imports.service.ts:352`), and signing plans it afterwards: it is marked as paid and stays due; mark and obligation are to be "one fact" (383) |
| `TaskReopened.cfg` (`MCTaskExecution`) | `Settles` | reopening a finished task leaves its committed attempt; each claim finds it committed and is dropped, the circle that `tasks.service.ts:2143` describes |
| `ImportsForward.cfg` (`MCImportContracts`) | `LifecycleForward` | a recomputation overwrites a payment or a cancellation that came after its reading; `import-lifecycle.ts:3` says the lifecycle moves only forward |

Met while modelling, without a run of their own: `setSalesStage` accepts CLOSED
again and accrues another commission, although its comment speaks of "only once"
(`units.service.ts:441`); `CommissionPerClosing` is therefore stated per closing.
`update` replaces all attributes of a card by those of a form, while its comment
says that concurrent edits are not lost (`entities.service.ts:653`), and so does
`approve` with what it read before its transaction; `HistoryAddsUp` names these
writes as the only ones that lose a price, and does not speak of other attributes.

## 7. Plan

Done, in this order: delivery outbox, lock, settlement outbox, ledger, task
execution, units, import contracts, notifications with parity, cards with their
approvals, the ledger's day change; each with its runs and its proofs, and with
an abstract specification where it has one.

Next:

1. `Occurrences`: one task per scheduled occurrence
   (`scheduled-occurrence-queue.ts`, `schedule.ts`).
2. A composition of `TaskExecution` with `LedgerBudget` in which the reservation
   of a job is a row, and the daily action cap across the tasks of an agent.
3. The other decisions of `approvals.service.ts` (import, purchase order,
   backdating) and the approval a task commit requests.
4. Stock movements (`stock.service.ts`) and the latch of the ledger's alerts.
