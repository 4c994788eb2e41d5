---------------------------- MODULE TaskExecution ---------------------------
(***************************************************************************)
(* One task executed by agents: the lease and the durable execution in     *)
(* Core (apps/core/src/tasks/tasks.service.ts), its paid LLM jobs          *)
(* (task-llm-jobs.service.ts), the workers that run it (apps/agents/src/   *)
(* task-worker.ts, task-llm-session.ts) and the owner, who may retry,      *)
(* edit, reassign, close and reopen it at any moment.                      *)
(*                                                                         *)
(* Every Core handler locks the task row first, so it is one step; only    *)
(* "edit" and "rate" read the row before they write it.  A call that its   *)
(* worker stopped waiting for may still reach Core later.  The ledger's    *)
(* decisions are choices here; module LlmLedger is about them.             *)
(***************************************************************************)
EXTENDS Naturals, FiniteSets

CONSTANTS Worker, Agent,
          AgentOf,          \* the agent each worker works for
          Steps, Models,    \* LLM steps of the plan and models per step
          MaxAttempts,
          MaxRuns,          \* run ids in use at one time
          MaxOps,           \* requests of the owner
          Requests,         \* which of them happen: see Next
          MaxFaults,        \* crashes, stalls and calls given up
          MaxTrouble        \* requests and faults together

ASSUME TaskAssumption ==
    /\ AgentOf \in [Worker -> Agent]
    /\ "human" \notin Agent
    /\ Steps \in Nat \ {0} /\ Models \in Nat \ {0}
    /\ MaxAttempts \in Nat /\ MaxRuns \in Nat /\ MaxOps \in Nat
    /\ MaxFaults \in Nat /\ MaxTrouble \in Nat
    /\ Requests \subseteq {"status", "retry", "edit", "assign", "redo"}

\* The task row.
VARIABLES status, owner,
          text,             \* version of the other fields durableTaskInputHash covers
          run,              \* agentRunId, 0 for null
          leaseOver,        \* agentRunClaimedAt is older than AGENT_RUN_LEASE_MS
          attempt,          \* agentExecutionAttemptId, 0 for null
          deferred,         \* agentExecutionRetryAt lies in the future
          blocked           \* agentExecutionBlockedAt with the kind of its reason

\* task_agent_execution and agent_task_llm_job, by attempt and (attempt, slot).
VARIABLES execStatus, execInput,
          job,              \* status of the job
          token,            \* its dispatch token: the run that generated it
          spend             \* status of the ledger row under spendId

VARIABLES wk,               \* the workers
          late,             \* calls given up by their worker, not yet at Core
          desk,             \* an edit or rating that has read the row
          wires,            \* provider calls made for each job
          commits,          \* outcomes committed: task result, approval, events, outbox
          attempts,         \* attempt ids given out
          retries, ops, faults

taskRow  == <<status, owner, text, run, leaseOver, attempt, deferred, blocked>>
execRows == <<execStatus, execInput>>
jobRows  == <<job, token, spend>>
core     == <<taskRow, execRows, jobRows, commits, attempts>>
vars     == <<core, wk, late, desk, wires, retries, ops, faults>>

Attempt == 1..MaxAttempts
Slot    == (1..Steps) \X (1..Models)      \* (step, providerAttemptNo)
Job     == Attempt \X Slot
Owner   == Agent \union {"human"}
Input   == Nat \X Owner                   \* durableTaskInputHash
Task    == {"todo", "in_progress", "done", "cancelled"}

Terminal  == {"succeeded", "rejected", "cancelled"}
JobStatus == {"none", "waiting_budget", "ready", "dispatching", "unknown"} \union Terminal
Reason    == {"none", "budget_denied", "execution_unknown", "workflow_changed",
              "route_unavailable", "unsupported", "skill_failed"}

WorkerState == [pc : {"idle", "claimed", "ensure", "dispatch", "granted", "complete",
                      "checkpoint", "commit", "release"},
                agent : Agent, run : 0..MaxRuns, att : 0..MaxAttempts, input : Input,
                slot : Slot, goal : {"succeeded", "rejected", "unknown"},
                again : BOOLEAN, reason : Reason]

CoreTyped ==
    /\ status \in Task /\ owner \in Owner /\ text \in Nat
    /\ run \in 0..MaxRuns /\ leaseOver \in BOOLEAN
    /\ attempt \in 0..MaxAttempts /\ deferred \in BOOLEAN
    /\ blocked \in {"no", "execution_unknown", "other"}
    /\ execStatus \in [Attempt -> {"none", "active", "ready", "committed", "abandoned"}]
    /\ execInput \in [Attempt -> Input]
    /\ job \in [Job -> JobStatus]
    /\ token \in [Job -> 0..MaxRuns]
    /\ spend \in [Job -> {"none", "reserved", "released", "settled"}]
    /\ commits \in [Attempt -> Nat] /\ attempts \in 0..MaxAttempts

ActorsTyped ==
    /\ wk \in [Worker -> WorkerState]
    /\ late \subseteq WorkerState
    /\ desk \in [op : {"none", "assign", "redo"}, to : Owner, owner : Owner, attempt : 0..MaxAttempts]
    /\ wires \in [Job -> Nat]
    /\ retries \in Nat /\ ops \in 0..MaxOps /\ faults \in 0..MaxFaults

TypeOK == CoreTyped /\ ActorsTyped

Idle(a) == [pc |-> "idle", agent |-> a, run |-> 0, att |-> 0, input |-> <<0, a>>, slot |-> <<1, 1>>,
            goal |-> "unknown", again |-> FALSE, reason |-> "none"]

NoRequest == [op |-> "none", to |-> "human", owner |-> "human", attempt |-> 0]

Init ==
    /\ status = "todo" /\ owner \in Agent /\ text = 0
    /\ run = 0 /\ leaseOver = FALSE /\ attempt = 0 /\ deferred = FALSE /\ blocked = "no"
    /\ execStatus = [a \in Attempt |-> "none"]
    /\ execInput = [a \in Attempt |-> <<0, "human">>]
    /\ job = [j \in Job |-> "none"]
    /\ token = [j \in Job |-> 0]
    /\ spend = [j \in Job |-> "none"]
    /\ wk = [w \in Worker |-> Idle(AgentOf[w])]
    /\ late = {}
    /\ desk = NoRequest
    /\ wires = [j \in Job |-> 0]
    /\ commits = [a \in Attempt |-> 0]
    /\ attempts = 0 /\ retries = 0 /\ ops = 0 /\ faults = 0

-----------------------------------------------------------------------------
(* Core: the handlers, each with the caller c and the answer res           *)

Closed == status \in {"done", "cancelled"}
CurrentInput == <<text, owner>>

\* assertAgentRunFence, fenceConflict
Fence(c) == owner = c.agent /\ run = c.run /\ attempt = c.att /\ ~Closed

\* The run ends and the task goes back to the queue.
Unlease == status' = "todo" /\ run' = 0 /\ leaseOver' = FALSE

\* blockAgentExecution, blockTask
Block == /\ Unlease
         /\ deferred' = FALSE /\ blocked' = "other"
         /\ UNCHANGED <<owner, text, attempt>>

Claimable(agent) ==
    /\ owner = agent
    /\ ~Closed /\ blocked = "no" /\ ~deferred
    /\ run = 0 \/ leaseOver

\* A UUID is fresh: nobody knows it.  The least one unused stands for it.
Known(r) == \/ run = r
            \/ \E w \in Worker : wk[w].run = r
            \/ \E c \in late : c.run = r
            \/ \E j \in Job : token[j] = r
IsFresh(r) == ~Known(r) /\ \A q \in 1..(r - 1) : Known(q)

\* claimAgentRun: a new run id; the attempt is kept if there is one.
ClaimAgentRun(agent) ==
    /\ Claimable(agent)
    /\ attempt = 0 => attempts < MaxAttempts
    /\ \E r \in 1..MaxRuns : IsFresh(r) /\ run' = r
    /\ attempts' = IF attempt = 0 THEN attempts + 1 ELSE attempts
    /\ attempt' = IF attempt = 0 THEN attempts + 1 ELSE attempt
    /\ status' = "in_progress" /\ leaseOver' = FALSE
    /\ UNCHANGED <<owner, text, deferred, blocked, execRows, jobRows, commits>>

StartConflicts(c) ==
    c.input # CurrentInput \/ (execStatus[c.att] # "none" /\ execInput[c.att] # CurrentInput)

StartAgentRun(c, res) ==
    /\ \/ /\ ~Fence(c) \/ (~StartConflicts(c) /\ execStatus[c.att] = "abandoned")
          /\ res = "conflict"
          /\ UNCHANGED <<taskRow, execRows>>
       \/ /\ Fence(c) /\ StartConflicts(c)
          /\ Block /\ res = "conflict"
          /\ UNCHANGED execRows
       \/ /\ Fence(c) /\ ~StartConflicts(c) /\ execStatus[c.att] = "none"
          /\ execStatus' = [execStatus EXCEPT ![c.att] = "active"]
          /\ execInput' = [execInput EXCEPT ![c.att] = CurrentInput]
          /\ res = "active"
          /\ UNCHANGED taskRow
       \/ /\ Fence(c) /\ ~StartConflicts(c) /\ execStatus[c.att] \in {"active", "ready", "committed"}
          /\ res = execStatus[c.att]
          /\ UNCHANGED <<taskRow, execRows>>
    /\ UNCHANGED <<jobRows, commits, attempts>>

Executable(c) == execStatus[c.att] = "active" /\ execInput[c.att] = CurrentInput

JobsOf(a) == {j \in Job : j[1] = a /\ job[j] # "none"}
MyJob(c)  == <<c.att, c.slot>>

\* A new fallback model needs a definitive rejection of the one before.
FallbackConflict(j) ==
    /\ job[j] = "none"
    /\ j[2][2] > 1
    /\ job[<<j[1], <<j[2][1], j[2][2] - 1>>>>] # "rejected"

\* The authorisation of the day: the ledger grants the reservation or denies it.
Authorise(j, res) ==
    \/ res = "ready" /\ spend' = [spend EXCEPT ![j] = "reserved"]
    \/ res = "waiting_budget" /\ UNCHANGED spend

\* TaskLlmJobsService.ensure
Ensure(c, res) ==
    LET j == MyJob(c) IN
    /\ \/ ~Fence(c) /\ res = "conflict" /\ UNCHANGED <<taskRow, job, spend>>
       \/ /\ Fence(c)
          /\ ~Executable(c) \/ FallbackConflict(j) \/ job[j] # "none"   \* the last: jobMismatch
          /\ Block /\ res = "conflict"
          /\ UNCHANGED <<job, spend>>
       \/ /\ Fence(c) /\ Executable(c) /\ ~FallbackConflict(j)
          /\ IF job[j] \in {"none", "waiting_budget"}
             THEN Authorise(j, res)
             ELSE res = job[j] /\ UNCHANGED spend
          /\ job' = [job EXCEPT ![j] = res]
          /\ UNCHANGED taskRow
    /\ UNCHANGED <<execRows, token, commits, attempts>>

\* claimDispatch: one grant per job, repeated only for the token that got it.
ClaimDispatch(c, res) ==
    LET j == MyJob(c) IN
    /\ \/ ~Fence(c) /\ res = "conflict" /\ UNCHANGED <<taskRow, job, token>>
       \/ Fence(c) /\ ~Executable(c) /\ Block /\ res = "conflict" /\ UNCHANGED <<job, token>>
       \/ /\ Fence(c) /\ Executable(c)
          /\ \/ /\ job[j] \in {"succeeded", "rejected", "unknown", "dispatching"}
                /\ res = IF token[j] # c.run THEN "conflict"
                         ELSE IF job[j] = "dispatching" THEN "granted" ELSE job[j]
                /\ UNCHANGED <<taskRow, job, token>>
             \/ /\ job[j] \in {"none", "waiting_budget", "cancelled"}
                /\ res = "refused" /\ UNCHANGED <<taskRow, job, token>>
             \/ /\ job[j] = "ready"           \* reauthorised by the ledger
                /\ job' = [job EXCEPT ![j] = "dispatching"]
                /\ token' = [token EXCEPT ![j] = c.run]
                /\ res = "granted" /\ UNCHANGED taskRow
             \/ /\ job[j] = "ready"           \* caps, prices or the day have changed
                /\ Block /\ res = "conflict" /\ UNCHANGED <<job, token>>
    /\ UNCHANGED <<execRows, spend, commits, attempts>>

AllKnown(a, jobs) == JobsOf(a) # {} /\ \A j \in JobsOf(a) : jobs[j] \in Terminal

\* complete: no fence, the token is enough.  Evidence that arrives after the
\* task was blocked for it releases the block.
Complete(c, res) ==
    LET j == MyJob(c)
        unblocks == /\ execStatus[c.att] = "active" /\ execInput[c.att] = CurrentInput
                    /\ status = "todo" /\ attempt = c.att /\ blocked = "execution_unknown"
                    /\ AllKnown(c.att, [job EXCEPT ![j] = c.goal])
    IN
    /\ \/ /\ token[j] # c.run \/ (job[j] \notin {"dispatching", "unknown"} /\ job[j] # c.goal)
          /\ res = "conflict"
          /\ UNCHANGED <<taskRow, job, spend>>
       \/ /\ token[j] = c.run /\ job[j] = c.goal
          /\ res = c.goal
          /\ UNCHANGED <<taskRow, job, spend>>
       \/ /\ token[j] = c.run /\ job[j] = "dispatching" /\ c.goal = "unknown"
          /\ job' = [job EXCEPT ![j] = "unknown"]
          /\ res = c.goal
          /\ UNCHANGED <<taskRow, spend>>
       \/ /\ token[j] = c.run /\ job[j] \in {"dispatching", "unknown"} /\ c.goal # "unknown"
          /\ job' = [job EXCEPT ![j] = c.goal]
          /\ spend' = [spend EXCEPT ![j] = "settled"]
          /\ res = c.goal
          /\ blocked' = IF unblocks THEN "no" ELSE blocked
          /\ deferred' = IF unblocks THEN FALSE ELSE deferred
          /\ UNCHANGED <<status, owner, text, run, leaseOver, attempt>>
    /\ UNCHANGED <<execRows, token, commits, attempts>>

\* terminalLlmJobManifest: every paid call of the attempt has a known result.
Finished(a) == \A j \in JobsOf(a) : job[j] \in Terminal

CheckpointAgentRun(c, res) ==
    /\ \/ ~Fence(c) /\ res = "conflict" /\ UNCHANGED <<taskRow, execStatus>>
       \/ Fence(c) /\ execInput[c.att] # CurrentInput /\ Block /\ res = "conflict" /\ UNCHANGED execStatus
       \/ /\ Fence(c) /\ execInput[c.att] = CurrentInput
          /\ \/ /\ Finished(c.att) /\ execStatus[c.att] = "active"
                /\ execStatus' = [execStatus EXCEPT ![c.att] = "ready"] /\ res = "ok"
             \/ Finished(c.att) /\ execStatus[c.att] = "ready" /\ res = "ok" /\ UNCHANGED execStatus
             \/ /\ ~Finished(c.att) \/ execStatus[c.att] \in {"committed", "abandoned"}
                /\ res = "conflict" /\ UNCHANGED execStatus
          /\ UNCHANGED taskRow
    /\ UNCHANGED <<execInput, jobRows, commits, attempts>>

\* actionCapReached: the agent has used up its actions of the day, the task waits.
Capped ==
    /\ Unlease /\ deferred' = TRUE /\ blocked' = "no"
    /\ UNCHANGED <<execStatus, commits>>

\* The effects, the closed task and the committed execution, in one transaction.
CommitEffects(a) ==
    /\ status' = "done" /\ run' = 0 /\ leaseOver' = FALSE
    /\ deferred' = FALSE /\ blocked' = "no"
    /\ execStatus' = [execStatus EXCEPT ![a] = "committed"]
    /\ commits' = [commits EXCEPT ![a] = @ + 1]

\* commitAgentRun: a committed execution answers first, then the fence, the
\* input hash, the agent's daily action cap and the effects.
CommitAgentRun(c, res) ==
    /\ \/ /\ execStatus[c.att] # "ready" \/ ~Fence(c)
          /\ res = IF execStatus[c.att] = "committed" THEN "replay" ELSE "conflict"
          /\ execStatus[c.att] = "active" => ~Fence(c) \/ execInput[c.att] = CurrentInput
          /\ UNCHANGED <<taskRow, execStatus, commits>>
       \/ /\ execStatus[c.att] \in {"active", "ready"} /\ Fence(c) /\ execInput[c.att] # CurrentInput
          /\ Block /\ res = "blocked"
          /\ UNCHANGED <<execStatus, commits>>
       \/ /\ execStatus[c.att] = "ready" /\ Fence(c) /\ execInput[c.att] = CurrentInput
          /\ \/ Capped /\ res = "capped"
             \/ CommitEffects(c.att) /\ res = "committed"
          /\ UNCHANGED <<owner, text, attempt>>
    /\ UNCHANGED <<execInput, jobRows, attempts>>

\* The jobs a release looks at: those of an active execution.
OpenJobs(c) == IF execStatus[c.att] = "active" THEN JobsOf(c.att) ELSE {}

\* Mutant: every budget denial starts the task over.
RotatesAlways(c) == c.reason = "budget_denied"

\* A budget denial with no job waiting rotates the attempt: the spends of the
\* attempt are looked up under a key that no durable job uses.
Rotates(c) == c.reason = "budget_denied" /\ \A j \in OpenJobs(c) : job[j] # "waiting_budget"

\* The route of a task that has not started is tried again later.
RouteRetry(c) == c.reason = "route_unavailable" /\ execStatus[c.att] = "none"

\* Mutant: a failed skill goes back to the queue.
MustBlockNotSkill(c) ==
    \/ /\ c.reason = "execution_unknown"
       /\ OpenJobs(c) = {} \/ \E j \in OpenJobs(c) : job[j] \notin Terminal
    \/ c.reason \in {"workflow_changed", "unsupported"}

MustBlock(c) ==
    \/ /\ c.reason = "execution_unknown"
       /\ OpenJobs(c) = {} \/ \E j \in OpenJobs(c) : job[j] \notin Terminal
    \/ c.reason \in {"workflow_changed", "unsupported", "skill_failed"}
    \/ c.reason = "route_unavailable" /\ ~RouteRetry(c)

\* The row goes back to the queue: to be tried later, blocked, or as it was.
ReleaseTask(c) ==
    LET retryLater == c.reason = "budget_denied" \/ RouteRetry(c) IN
    /\ Unlease
    /\ attempt' = IF Rotates(c) THEN 0 ELSE attempt
    /\ deferred' = (deferred \/ retryLater)
    /\ blocked' = IF retryLater THEN "no"
                  ELSE IF ~MustBlock(c) THEN blocked
                  ELSE IF c.reason = "execution_unknown" THEN "execution_unknown" ELSE "other"
    /\ UNCHANGED <<owner, text>>

\* releaseAgentRun: a grant whose outcome the worker lost becomes unknown.
ReleaseAgentRun(c, res) ==
    /\ \/ ~Fence(c) /\ res = "null" /\ UNCHANGED <<taskRow, job>>
       \/ /\ Fence(c) /\ res = "released"
          /\ job' = [j \in Job |->
                       IF c.reason = "execution_unknown" /\ j \in OpenJobs(c) /\ job[j] = "dispatching"
                       THEN "unknown" ELSE job[j]]
          /\ ReleaseTask(c)
    /\ UNCHANGED <<execRows, token, spend, commits, attempts>>

-----------------------------------------------------------------------------
(* The owner                                                               *)

Ask(request) == /\ request \in Requests
                /\ ops < MaxOps /\ ops + faults < MaxTrouble /\ ops' = ops + 1

\* Mutant: a job of unknown outcome counts as not dispatched.
UndispatchedOrUnknown(a) == {j \in JobsOf(a) : job[j] \in {"ready", "waiting_budget", "unknown"}}

Undispatched(a) == {j \in JobsOf(a) : job[j] \in {"ready", "waiting_budget"}}

\* Mutant: the jobs are left as they are.
CancelledNot(a) == [j \in Job |-> job[j]]

\* Mutant: the reservation of a granted call is released too.
ReleasedGranted(a) ==
    [j \in Job |-> IF j \in JobsOf(a) /\ job[j] \in {"ready", "dispatching", "unknown"} THEN "released"
                   ELSE spend[j]]

\* Undispatched jobs are cancelled, their reservations released.
Cancelled(a) == [j \in Job |-> IF j \in Undispatched(a) THEN "cancelled" ELSE job[j]]
Released(a) == [j \in Job |-> IF j \in JobsOf(a) /\ job[j] = "ready" THEN "released" ELSE spend[j]]

\* cancelUndispatchedTaskLlmJobs: only while the task belongs to an agent.
CleanUp ==
    IF owner \in Agent /\ attempt # 0 /\ execStatus[attempt] # "none"
    THEN /\ Cardinality({j \in JobsOf(attempt) : job[j] = "ready"}) <= 1
         /\ job' = Cancelled(attempt) /\ spend' = Released(attempt)
    ELSE UNCHANGED <<job, spend>>

\* setStatus leaves the run, the attempt and the block as they are.
SetStatus(s) ==
    /\ Ask("status")
    /\ status' = s
    /\ IF s \in {"done", "cancelled"} THEN CleanUp ELSE UNCHANGED <<job, spend>>
    /\ UNCHANGED <<owner, text, run, leaseOver, attempt, deferred, blocked, execRows, token,
                   commits, attempts, wk, late, desk, wires, retries, faults>>

\* retryBlockedAgentExecution: resumes an execution whose evidence is
\* complete, abandons any other and lets the next claim start a new attempt.
RetryBlocked ==
    LET open   == attempt # 0 /\ execStatus[attempt] \in {"active", "ready"}
        resume == /\ open /\ execStatus[attempt] = "active" /\ execInput[attempt] = CurrentInput
                  /\ blocked = "execution_unknown" /\ AllKnown(attempt, job)
    IN
    /\ Ask("retry")
    /\ owner \in Agent /\ blocked # "no" /\ ~Closed
    /\ open => \A j \in JobsOf(attempt) : job[j] # "dispatching"
    /\ IF open /\ ~resume
       THEN /\ job' = Cancelled(attempt)
            /\ spend' = Released(attempt)
            /\ execStatus' = [execStatus EXCEPT ![attempt] = "abandoned"]
       ELSE UNCHANGED <<job, spend, execStatus>>
    /\ attempt' = IF resume THEN attempt ELSE 0
    /\ retries' = IF resume THEN retries ELSE retries + 1
    /\ Unlease /\ deferred' = FALSE /\ blocked' = "no"
    /\ UNCHANGED <<owner, text, execInput, token, commits, attempts, wk, late, desk, wires, faults>>

\* edit of a field the input hash covers, other than the owner.
EditText ==
    /\ Ask("edit")
    /\ text' = text + 1
    /\ UNCHANGED <<status, owner, run, leaseOver, attempt, deferred, blocked, execRows, jobRows,
                   commits, attempts, wk, late, desk, wires, retries, faults>>

\* edit of the owner and rate("redo") read the row, then write it.
Read(request, to) ==
    /\ Ask(request)
    /\ desk.op = "none"
    /\ request = "redo" => status = "done"
    /\ desk' = [op |-> request, to |-> to, owner |-> owner, attempt |-> attempt]
    /\ UNCHANGED <<core, wk, late, wires, retries, faults>>

\* A started attempt waits for the owner's retry.
HoldAttempt(hold) ==
    /\ deferred' = IF hold THEN FALSE ELSE deferred
    /\ blocked' = IF hold THEN "other" ELSE blocked

Assign ==
    LET changed == desk.to # desk.owner IN
    /\ desk.op = "assign"
    /\ owner' = desk.to
    /\ run' = IF changed THEN 0 ELSE run
    /\ leaseOver' = IF changed THEN FALSE ELSE leaseOver
    /\ HoldAttempt(changed /\ desk.attempt # 0)
    /\ desk' = NoRequest
    /\ UNCHANGED <<status, text, attempt, execRows, jobRows, commits, attempts,
                   wk, late, wires, retries, ops, faults>>

Redo ==
    /\ desk.op = "redo"
    /\ status' = "in_progress" /\ run' = 0 /\ leaseOver' = FALSE
    /\ HoldAttempt(desk.owner \in Agent /\ desk.attempt # 0)
    /\ desk' = NoRequest
    /\ UNCHANGED <<owner, text, attempt, execRows, jobRows, commits, attempts,
                   wk, late, wires, retries, ops, faults>>

-----------------------------------------------------------------------------
(* The workers                                                             *)

Stop(w) == wk' = [wk EXCEPT ![w] = Idle(AgentOf[w])]
Goto(c, pc) == [c EXCEPT !.pc = pc, !.again = FALSE, !.goal = "unknown"]
Leave(c, why) == [Goto(c, "release") EXCEPT !.reason = why]

\* Where the skill goes with the result of a model: the chain of callModel,
\* the next step of the plan, the checkpoint, or a failure of the skill.
Onward(c, result) ==
    IF result = "rejected" /\ c.slot[2] < Models
    THEN {[Goto(c, "ensure") EXCEPT !.slot = <<c.slot[1], c.slot[2] + 1>>]}
    ELSE {Leave(c, "skill_failed"),
          IF c.slot[1] < Steps THEN [Goto(c, "ensure") EXCEPT !.slot = <<c.slot[1] + 1, 1>>]
                               ELSE Goto(c, "checkpoint")}

\* Mutant: an unknown outcome is passed over like a rejection.
UsableUnknown == {"succeeded", "rejected", "unknown"}

\* terminalResult: the outcomes a skill can go on with.
Usable == {"succeeded", "rejected"}

\* What the worker may do with the answer to the call it is at.
Proceed(c, res) ==
    CASE c.pc = "claimed" ->
            IF res = "active" THEN {Goto(c, "ensure")}
            ELSE IF res = "ready" THEN {Goto(c, "commit")} ELSE {Idle(c.agent)}
      [] c.pc = "ensure" ->
            IF res = "ready" THEN {Goto(c, "dispatch")}
            ELSE IF res = "waiting_budget" THEN {Leave(c, "budget_denied")}
            ELSE IF res \in Usable THEN Onward(c, res)
            ELSE {Leave(c, "execution_unknown")}
      [] c.pc = "dispatch" ->
            IF res = "granted" THEN {Goto(c, "granted")}
            ELSE IF res \in Usable THEN Onward(c, res)
            ELSE {Leave(c, "execution_unknown")}
      [] c.pc = "complete" ->
            IF res \in Usable THEN Onward(c, res)
            ELSE {Leave(c, "execution_unknown")}
      [] c.pc = "checkpoint" ->
            IF res = "ok" THEN {Goto(c, "commit")} ELSE {Idle(c.agent)}
      [] OTHER -> {Idle(c.agent)}

\* What a handler can answer to a worker at pc.
Answer(pc) ==
    CASE pc = "claimed"    -> {"conflict", "active", "ready", "committed"}
      [] pc = "ensure"     -> (JobStatus \ {"none"}) \union {"conflict"}
      [] pc = "dispatch"   -> {"conflict", "refused", "granted", "succeeded", "rejected", "unknown"}
      [] pc = "complete"   -> {"conflict", "succeeded", "rejected", "unknown"}
      [] pc = "checkpoint" -> {"conflict", "ok"}
      [] pc = "commit"     -> {"conflict", "replay", "blocked", "capped", "committed"}
      [] pc = "release"    -> {"null", "released"}

\* The handler a worker calls from where it is.
Handle(c, res) ==
    CASE c.pc = "claimed"    -> StartAgentRun(c, res)
      [] c.pc = "ensure"     -> Ensure(c, res)
      [] c.pc = "dispatch"   -> ClaimDispatch(c, res)
      [] c.pc = "complete"   -> Complete(c, res)
      [] c.pc = "checkpoint" -> CheckpointAgentRun(c, res)
      [] c.pc = "commit"     -> CommitAgentRun(c, res)
      [] c.pc = "release"    -> ReleaseAgentRun(c, res)

Calling(w) == wk[w].pc \notin {"idle", "granted"}

ClaimRun(w) ==
    /\ wk[w].pc = "idle"
    /\ ClaimAgentRun(AgentOf[w])
    /\ wk' = [wk EXCEPT ![w] = [Idle(AgentOf[w]) EXCEPT !.pc = "claimed", !.run = run', !.att = attempt',
                                                        !.input = CurrentInput]]
    /\ UNCHANGED <<late, desk, wires, retries, ops, faults>>

\* No skill for the task, or no metered route for the skill: nothing is started.
Decline(w) ==
    /\ wk[w].pc = "claimed" /\ execStatus[wk[w].att] = "none"
    /\ \E why \in {"unsupported", "route_unavailable"} : wk' = [wk EXCEPT ![w] = Leave(wk[w], why)]
    /\ UNCHANGED <<core, late, desk, wires, retries, ops, faults>>

\* The configured route no longer matches the plan of the execution.
Drift(w) ==
    /\ wk[w].pc = "ensure"
    /\ wk' = [wk EXCEPT ![w] = Leave(wk[w], "workflow_changed")]
    /\ UNCHANGED <<core, late, desk, wires, retries, ops, faults>>

Request(w) ==
    /\ Calling(w)
    /\ \E res \in Answer(wk[w].pc) :
          /\ Handle(wk[w], res)
          /\ \E c \in Proceed(wk[w], res) : wk' = [wk EXCEPT ![w] = c]
    /\ UNCHANGED <<late, desk, wires, retries, ops, faults>>

CallProvider(w) ==
    /\ wk[w].pc = "granted"
    /\ wires' = [wires EXCEPT ![MyJob(wk[w])] = @ + 1]
    /\ \E outcome \in {"succeeded", "rejected", "unknown"} :
          wk' = [wk EXCEPT ![w] = [Goto(wk[w], "complete") EXCEPT !.goal = outcome]]
    /\ UNCHANGED <<core, late, desk, retries, ops, faults>>

Fault == faults < MaxFaults /\ ops + faults < MaxTrouble /\ faults' = faults + 1

\* The call is given up: it may still arrive.  A dispatch claim and a
\* completion are repeated once with the same token.
Unanswered(w) ==
    LET c == wk[w] IN
    /\ Calling(w)
    /\ Fault
    /\ late' = late \union {c}
    /\ wk' = [wk EXCEPT ![w] =
                 CASE c.pc = "ensure" -> Leave(c, "none")
                   [] c.pc \in {"dispatch", "complete"} ->
                        IF c.again THEN Leave(c, "execution_unknown") ELSE [c EXCEPT !.again = TRUE]
                   [] OTHER -> Idle(c.agent)]
    /\ UNCHANGED <<core, desk, wires, retries, ops>>

\* claimAgentRun succeeds and its answer is lost: nobody holds the lease.
ClaimUnanswered(w) ==
    /\ wk[w].pc = "idle"
    /\ Fault
    /\ ClaimAgentRun(AgentOf[w])
    /\ UNCHANGED <<wk, late, desk, wires, retries, ops>>

Crash(w) ==
    /\ wk[w].pc # "idle"
    /\ Fault
    /\ Stop(w)
    /\ late' = IF Calling(w) THEN late \union {wk[w]} ELSE late
    /\ UNCHANGED <<core, desk, wires, retries, ops>>

LateArrives(c) ==
    /\ late' = late \ {c}
    /\ \E res \in Answer(c.pc) : Handle(c, res)
    /\ UNCHANGED <<wk, desk, wires, retries, ops, faults>>

\* heartbeatAgentRun
Renewable(c) == owner = c.agent /\ run = c.run /\ ~Closed

Heartbeat(w) ==
    /\ wk[w].pc # "idle" /\ Renewable(wk[w]) /\ leaseOver
    /\ leaseOver' = FALSE
    /\ UNCHANGED <<status, owner, text, run, attempt, deferred, blocked, execRows, jobRows,
                   commits, attempts, wk, late, desk, wires, retries, ops, faults>>

\* assertLease: the run is no longer ours, so its worker walks away from it;
\* or the heartbeat is not answered, which before the outcome is known ends
\* the skill with "ledger_unavailable".
LeaseLost(w) ==
    /\ wk[w].pc \in {"claimed", "ensure", "checkpoint", "commit", "release"}
    /\ ~Renewable(wk[w])
    /\ Stop(w)
    /\ UNCHANGED <<core, late, desk, wires, retries, ops, faults>>

LeaseUnconfirmed(w) ==
    /\ wk[w].pc = "checkpoint"
    /\ Fault
    /\ wk' = [wk EXCEPT ![w] = Leave(wk[w], "none")]
    /\ UNCHANGED <<core, late, desk, wires, retries, ops>>

-----------------------------------------------------------------------------
(* Time                                                                    *)

\* AGENT_RUN_LEASE_MS pass without a heartbeat, because nobody holds the run
\* any more, or because no heartbeat of its worker got through.
LeaseExpires ==
    /\ run # 0 /\ ~leaseOver
    /\ leaseOver' = TRUE
    /\ UNCHANGED <<status, owner, text, run, attempt, deferred, blocked, execRows, jobRows,
                   commits, attempts, wk, late, desk, wires, retries, ops>>

Held == \E w \in Worker : wk[w].run = run
LeaseAbandoned == ~Held /\ LeaseExpires /\ UNCHANGED faults
LeaseStalls == Held /\ LeaseExpires /\ Fault

\* Mutant: an expired grant is offered again.
DispatchExpiresRequeues(j) ==
    /\ job[j] = "dispatching"
    /\ job' = [job EXCEPT ![j] = "ready"]
    /\ UNCHANGED <<taskRow, execRows, token, spend, commits, attempts,
                   wk, late, desk, wires, retries, ops, faults>>

\* expireDispatchIfNeeded: DISPATCH_GRANT_MS after the grant the outcome is
\* unknown.  Core writes that down when it next looks at the job; nothing
\* before that can tell the difference.
DispatchExpires(j) ==
    /\ job[j] = "dispatching"
    /\ job' = [job EXCEPT ![j] = "unknown"]
    /\ UNCHANGED <<taskRow, execRows, token, spend, commits, attempts,
                   wk, late, desk, wires, retries, ops, faults>>

RetryDue ==
    /\ deferred
    /\ deferred' = FALSE
    /\ UNCHANGED <<status, owner, text, run, leaseOver, attempt, blocked, execRows, jobRows,
                   commits, attempts, wk, late, desk, wires, retries, ops, faults>>

-----------------------------------------------------------------------------
Work(w) == ClaimRun(w) \/ Decline(w) \/ Drift(w) \/ Request(w) \/ CallProvider(w) \/ LeaseLost(w)

OwnerRequest ==
    \/ \E s \in Task : SetStatus(s)
    \/ RetryBlocked \/ EditText \/ Assign \/ Redo
    \/ \E to \in Owner : Read("assign", to)
    \/ Read("redo", "human")

Next ==
    \/ \E w \in Worker : \/ Work(w) \/ Heartbeat(w)
                         \/ Unanswered(w) \/ ClaimUnanswered(w) \/ Crash(w) \/ LeaseUnconfirmed(w)
    \/ \E c \in late : LateArrives(c)
    \/ OwnerRequest
    \/ LeaseAbandoned \/ LeaseStalls \/ RetryDue
    \/ \E j \in Job : DispatchExpires(j)

Spec == Init /\ [][Next]_vars

\* Workers poll and get through their calls unless a fault stops them, time
\* passes, and the lease of a run nobody renews runs out.
Fairness ==
    /\ \A w \in Worker : WF_vars(Work(w))
    /\ WF_vars(RetryDue)
    /\ WF_vars(LeaseAbandoned)

FairSpec == Spec /\ Fairness

-----------------------------------------------------------------------------
(* Properties                                                              *)

\* "Exactly one provider wire attempt" (task-llm-session.ts): whatever is
\* repeated, delayed, taken over or restarted, no job is sent twice, and a
\* fallback model is paid for only after the one before it was rejected.
OneWirePerJob ==
    \A j \in Job : /\ wires[j] <= 1
                   /\ wires[j] = 1 /\ j[2][2] > 1 => job[<<j[1], <<j[2][1], j[2][2] - 1>>>>] = "rejected"

\* The executions of a task keep the promise of MeteredCalls.
Calls == INSTANCE MeteredCalls WITH Call <- Job, money <- spend, sent <- {j \in Job : wires[j] > 0}

\* Whatever the workers, the owner, lost calls and lapsed leases do, the ledger
\* row of each job (spendId of agent_task_llm_job) tells whether the provider
\* was called: settled only after the call, released only without one.
ImplementsMeteredCalls == Calls!Spec

\* A closing of the task now would cancel the job, and would not be refused.
ClosingReaches(j) ==
    /\ attempt # 0 /\ execStatus[attempt] # "none"
    /\ Cardinality({k \in JobsOf(attempt) : job[k] = "ready"}) <= 1
    /\ j \in Undispatched(attempt)

\* So would the owner's retry of a blocked task.
RetryReaches(j) ==
    /\ execStatus[attempt] \in {"active", "ready"} /\ ~AllKnown(attempt, job)
    /\ \A k \in JobsOf(attempt) : job[k] # "dispatching"
    /\ j \in Undispatched(attempt)

\* No job that has not been dispatched, and no reservation with it, is
\* stranded: it belongs to the attempt of the task, and while the task is an
\* agent's, the owner gets rid of it by closing the task or, if it is blocked,
\* by retrying.  While the task is a person's neither looks at the job
\* (TerminalRetainsNothing); it is kept for the agent that gets the task next.
NoStrandedReserve ==
    \A j \in Job : job[j] \in {"ready", "waiting_budget"} =>
        /\ j[1] = attempt /\ execStatus[attempt] = "active"
        /\ owner \in Agent => ClosingReaches(j) /\ (blocked # "no" => RetryReaches(j))

\* "A sequential durable workflow can expose only one undispatched reserve"
\* (cancelUndispatchedTaskLlmJobs), and what is unresolved stops the workflow.
SequentialExposure ==
    \A a \in Attempt :
        Cardinality({j \in JobsOf(a) : job[j] \in {"waiting_budget", "ready", "dispatching", "unknown"}}) <= 1

\* An unknown outcome is final until the provider's evidence arrives: it is
\* never reissued, released or cancelled (llm-durable-result-design.md).
UnknownIsFinal ==
    [][\A j \in Job : job[j] = "unknown" => job'[j] \in {"unknown", "succeeded", "rejected"}]_vars

\* Only the owner's retry starts a new paid attempt (retryBlockedAgentExecution):
\* each call of the plan is paid for, and an outcome committed, at most once
\* more than the owner asked for it.
PaidPerDecision ==
    /\ \A s \in Slot : Cardinality({a \in Attempt : wires[<<a, s>>] > 0}) <= 1 + retries
    /\ Cardinality({a \in Attempt : commits[a] > 0}) <= 1 + retries

\* "A terminal task must not retain a provider request that has not crossed the
\* dispatch boundary" (cancelUndispatchedTaskLlmJobs): not from before it was
\* closed, and not from a call that arrives afterwards.
TerminalRetainsNothing == Closed => \A j \in Job : job[j] \notin {"ready", "waiting_budget"}

\* The task does not circle through claim, replay and release at every poll:
\* again and again it is closed, blocked, put off or in a person's hands.
Settles == []<>(Closed \/ blocked # "no" \/ deferred \/ owner = "human")
=============================================================================
