------------------------ MODULE TaskExecutionProofs -------------------------
(***************************************************************************)
(* The executions of a task keep the promise of MeteredCalls for any       *)
(* number of workers, agents, steps, models and faults, expose one job at  *)
(* a time, strand no reservation and pay as often as the owner decides.    *)
(*                                                                         *)
(* The argument: a dispatch token is the run id of one worker, so whoever  *)
(* holds a grant is alone in holding it (Apart, GrantOpen), and a job that *)
(* was sent never leaves the states whose money is held or settled (Books).*)
(* What the transactions of Core do to the job rows is one of six effects  *)
(* (Effect), and the invariant is shown against these.                     *)
(*                                                                         *)
(* The second half is about the plan.  The jobs of an attempt lie on one   *)
(* path of slots (Line), because a worker asks for a slot only when it has *)
(* the result of every slot before it (Planned); a denial and a request    *)
(* never meet under one run (Alone), so a rotation leaves nothing reserved.*)
(* A closing and a retry get rid of the one undispatched job of the        *)
(* attempt, so a task that is never reassigned retains none once closed.   *)
(***************************************************************************)
EXTENDS TaskExecution, FiniteSetTheorems, TLAPS

Open == {"dispatching", "unknown"}

\* Who is not idle has a run and an attempt.
Engaged(c) == c.pc # "idle" => c.run \in 1..MaxRuns /\ c.att \in Attempt

\* A grant not yet used, and a claim that may be answered by one.
GrantOpen(c) ==
    /\ c.pc = "granted" => /\ token[MyJob(c)] = c.run /\ job[MyJob(c)] \in Open
                           /\ wires[MyJob(c)] = 0
    /\ c.pc = "dispatch" /\ token[MyJob(c)] = c.run => wires[MyJob(c)] = 0

\* A completion is sent by the holder of the grant, after the call.
Answers(c) == c.pc = "complete" => token[MyJob(c)] = c.run /\ wires[MyJob(c)] = 1

Apart == \A v, w \in Worker : v # w /\ wk[v].pc # "idle" /\ wk[w].pc # "idle" => wk[v].run # wk[w].run

\* What the rows of one job say about its money and its call.
Books ==
    \A j \in Job :
        /\ job[j] \in {"none", "waiting_budget"} => spend[j] = "none"
        /\ job[j] \in Open \union {"ready"} => spend[j] = "reserved"
        /\ wires[j] \in {0, 1}
        /\ wires[j] = 1 => job[j] \in Open \union {"succeeded", "rejected"}

\* The job of the model before in the chain.
Before(j) == <<j[1], <<j[2][1], j[2][2] - 1>>>>

\* Fallback jobs exist only behind a rejection, which is final.
Chain == \A j \in Job : j[2][2] > 1 /\ job[j] # "none" => job[Before(j)] = "rejected"

Actors ==
    /\ \A w \in Worker : Engaged(wk[w]) /\ GrantOpen(wk[w]) /\ Answers(wk[w])
    /\ \A c \in late : Engaged(c) /\ Answers(c) /\ c.pc \notin {"idle", "granted"}

Inv == TypeOK /\ Actors /\ Apart /\ Books /\ Chain

-----------------------------------------------------------------------------
(* What Core does to the rows of the jobs                                  *)

Reserve(j) == /\ job[j] \in {"none", "waiting_budget"} /\ ~FallbackConflict(j)
              /\ \/ /\ job' = [job EXCEPT ![j] = "ready"]
                    /\ spend' = [spend EXCEPT ![j] = "reserved"]
                 \/ job' = [job EXCEPT ![j] = "waiting_budget"] /\ UNCHANGED spend
              /\ UNCHANGED token

Grant(j, r) == /\ job[j] = "ready"
               /\ job' = [job EXCEPT ![j] = "dispatching"]
               /\ token' = [token EXCEPT ![j] = r]
               /\ UNCHANGED spend

Lose(S) == /\ \A j \in S : job[j] = "dispatching"
           /\ job' = [j \in Job |-> IF j \in S THEN "unknown" ELSE job[j]]
           /\ UNCHANGED <<token, spend>>

Settle(j) == /\ job[j] \in Open /\ wires[j] = 1
             /\ \E goal \in {"succeeded", "rejected"} : job' = [job EXCEPT ![j] = goal]
             /\ spend' = [spend EXCEPT ![j] = "settled"]
             /\ UNCHANGED token

Cancel(S) == /\ \A j \in S : job[j] \in {"ready", "waiting_budget"}
             /\ job' = [j \in Job |-> IF j \in S THEN "cancelled" ELSE job[j]]
             /\ spend' = [j \in Job |-> IF j \in S /\ job[j] = "ready" THEN "released" ELSE spend[j]]
             /\ UNCHANGED token

Effect ==
    \/ UNCHANGED jobRows
    \/ \E j \in Job : Reserve(j) \/ Settle(j) \/ \E r \in 1..MaxRuns : Grant(j, r)
    \/ \E S \in SUBSET Job : Lose(S) \/ Cancel(S)

\* What no effect takes from a job that was granted or sent.
Stable ==
    \A j \in Job :
        /\ wires[j] = 1 => token'[j] = token[j]
        /\ wires[j] = 0 /\ job[j] \in Open => job'[j] \in Open /\ token'[j] = token[j]

LEMMA EffectStable == ASSUME Inv, Effect PROVE Stable
  <1> USE DEF Inv, TypeOK, CoreTyped, ActorsTyped, JobStatus, Terminal, Books, Open, Stable
  <1>1. CASE UNCHANGED jobRows
    BY <1>1 DEF jobRows
  <1>2. ASSUME NEW j \in Job, Reserve(j) PROVE Stable
    BY <1>2 DEF Reserve
  <1>3. ASSUME NEW j \in Job, Settle(j) PROVE Stable
    BY <1>3 DEF Settle
  <1>4. ASSUME NEW j \in Job, NEW r \in 1..MaxRuns, Grant(j, r) PROVE Stable
    BY <1>4 DEF Grant
  <1>5. ASSUME NEW S \in SUBSET Job, Lose(S) PROVE Stable
    BY <1>5 DEF Lose
  <1>6. ASSUME NEW S \in SUBSET Job, Cancel(S) PROVE Stable
    BY <1>6 DEF Cancel
  <1> QED
    BY <1>1, <1>2, <1>3, <1>4, <1>5, <1>6 DEF Effect

LEMMA EffectBooks == ASSUME Inv, Effect, wires' = wires PROVE Books'
  <1> USE DEF Inv, TypeOK, CoreTyped, ActorsTyped, JobStatus, Terminal, Books, Open
  <1>1. CASE UNCHANGED jobRows
    BY <1>1 DEF jobRows
  <1>2. ASSUME NEW j \in Job, Reserve(j) PROVE Books'
    BY <1>2 DEF Reserve
  <1>3. ASSUME NEW j \in Job, Settle(j) PROVE Books'
    BY <1>3 DEF Settle
  <1>4. ASSUME NEW j \in Job, NEW r \in 1..MaxRuns, Grant(j, r) PROVE Books'
    BY <1>4 DEF Grant
  <1>5. ASSUME NEW S \in SUBSET Job, Lose(S) PROVE Books'
    BY <1>5 DEF Lose
  <1>6. ASSUME NEW S \in SUBSET Job, Cancel(S) PROVE Books'
    BY <1>6 DEF Cancel
  <1> QED
    BY <1>1, <1>2, <1>3, <1>4, <1>5, <1>6 DEF Effect

LEMMA BeforeJob ==
    ASSUME NEW j \in Job, j[2][2] > 1 PROVE Before(j) \in Job
  <1>1. /\ j[1] \in Attempt /\ j[2][1] \in 1..Steps /\ j[2][2] \in 1..Models
    BY DEF Job, Slot
  <1>2. j[2][2] - 1 \in 1..Models
    BY <1>1, TaskAssumption DEF TaskAssumption
  <1> QED
    BY <1>1, <1>2 DEF Before, Job, Slot

\* A job that exists goes on existing, and a rejection is final.
LEMMA EffectKeeps ==
    ASSUME Inv, Effect, NEW j \in Job
    PROVE  /\ job[j] = "rejected" => job'[j] = "rejected"
           /\ job[j] = "none" /\ job'[j] # "none" => ~FallbackConflict(j)
  <1> USE DEF Inv, TypeOK, CoreTyped, JobStatus, Terminal, Open
  <1> DEFINE Kept == /\ job[j] = "rejected" => job'[j] = "rejected"
                     /\ job[j] = "none" /\ job'[j] # "none" => ~FallbackConflict(j)
  <1>1. CASE UNCHANGED jobRows
    BY <1>1 DEF jobRows
  <1>2. ASSUME NEW k \in Job, Reserve(k) PROVE Kept
    BY <1>2 DEF Reserve
  <1>3. ASSUME NEW k \in Job, Settle(k) PROVE Kept
    BY <1>3 DEF Settle
  <1>4. ASSUME NEW k \in Job, NEW r \in 1..MaxRuns, Grant(k, r) PROVE Kept
    BY <1>4 DEF Grant
  <1>5. ASSUME NEW S \in SUBSET Job, Lose(S) PROVE Kept
    BY <1>5 DEF Lose
  <1>6. ASSUME NEW S \in SUBSET Job, Cancel(S) PROVE Kept
    BY <1>6 DEF Cancel
  <1> QED
    BY <1>1, <1>2, <1>3, <1>4, <1>5, <1>6 DEF Effect

LEMMA EffectChain == ASSUME Inv, Effect PROVE Chain'
  <1> SUFFICES ASSUME NEW j \in Job, j[2][2] > 1, job'[j] # "none" PROVE job'[Before(j)] = "rejected"
    BY DEF Chain, Before
  <1>1. Before(j) \in Job
    BY BeforeJob
  <1>2. job[Before(j)] = "rejected"
    BY EffectKeeps DEF FallbackConflict, Inv, Chain, Before
  <1> QED
    BY <1>1, <1>2, EffectKeeps

-----------------------------------------------------------------------------
(* The handlers                                                            *)

LEMMA MyJobTyped ==
    ASSUME NEW c \in WorkerState, c.pc # "idle", Engaged(c)
    PROVE  c.att \in Attempt /\ c.run \in 1..MaxRuns /\ MyJob(c) \in Job
  BY DEF Engaged, MyJob, Job, WorkerState

LEMMA InputTyped == ASSUME CoreTyped PROVE CurrentInput \in Input
  BY DEF CoreTyped, CurrentInput, Input

LEMMA Blocks ==
    ASSUME CoreTyped, Block, UNCHANGED <<execRows, jobRows, commits, attempts>>
    PROVE  CoreTyped'
  <1>1. /\ status' = "todo" /\ run' = 0 /\ leaseOver' = FALSE /\ deferred' = FALSE /\ blocked' = "other"
        /\ UNCHANGED <<owner, text, attempt>>
    BY DEF Block, Unlease
  <1>2. /\ UNCHANGED <<execStatus, execInput>> /\ UNCHANGED <<job, token, spend>>
        /\ UNCHANGED <<commits, attempts>>
    BY DEF execRows, jobRows
  <1>3. 0 \in 0..MaxRuns
    BY TaskAssumption DEF TaskAssumption
  <1>4. status' \in Task /\ run' \in 0..MaxRuns /\ leaseOver' \in BOOLEAN /\ deferred' \in BOOLEAN
        /\ blocked' \in {"no", "execution_unknown", "other"}
    BY <1>1, <1>3 DEF Task
  <1> QED
    BY <1>1, <1>2, <1>4 DEF CoreTyped

LEMMA StartTyped ==
    ASSUME CoreTyped, NEW c \in WorkerState, c.att \in Attempt, NEW res, StartAgentRun(c, res)
    PROVE  CoreTyped' /\ UNCHANGED jobRows
  <1> USE DEF StartAgentRun
  <1>1. UNCHANGED <<jobRows, commits, attempts>>
    OBVIOUS
  <1>2. CASE UNCHANGED <<taskRow, execRows>>
    BY <1>1, <1>2 DEF CoreTyped, taskRow, execRows, jobRows
  <1>3. CASE Block /\ UNCHANGED execRows
    BY <1>1, <1>3, Blocks
  <1>4. CASE /\ execStatus' = [execStatus EXCEPT ![c.att] = "active"]
             /\ execInput' = [execInput EXCEPT ![c.att] = CurrentInput]
             /\ UNCHANGED taskRow
    BY <1>1, <1>4, InputTyped DEF CoreTyped, taskRow, jobRows
  <1> QED
    BY <1>1, <1>2, <1>3, <1>4

LEMMA EnsureTyped ==
    ASSUME CoreTyped, NEW c \in WorkerState, MyJob(c) \in Job, NEW res, Ensure(c, res)
    PROVE  /\ CoreTyped'
           /\ UNCHANGED jobRows \/ Reserve(MyJob(c))
           /\ res = "ready" => job'[MyJob(c)] = "ready"
  <1> DEFINE j == MyJob(c)
  <1> USE DEF Ensure, Authorise
  <1>1. UNCHANGED <<execRows, token, commits, attempts>>
    OBVIOUS
  <1>2. CASE res = "conflict" /\ UNCHANGED <<taskRow, job, spend>>
    BY <1>1, <1>2 DEF CoreTyped, taskRow, execRows, jobRows
  <1>3. CASE Block /\ res = "conflict" /\ UNCHANGED <<job, spend>>
    BY <1>1, <1>3, Blocks DEF jobRows
  <1>4. CASE /\ ~FallbackConflict(j) /\ job[j] \in {"none", "waiting_budget"}
             /\ \/ res = "ready" /\ spend' = [spend EXCEPT ![j] = "reserved"]
                \/ res = "waiting_budget" /\ UNCHANGED spend
             /\ job' = [job EXCEPT ![j] = res] /\ UNCHANGED taskRow
    <2>1. CoreTyped'
      BY <1>1, <1>4 DEF CoreTyped, taskRow, execRows, JobStatus
    <2>2. Reserve(j) /\ (res = "ready" => job'[j] = "ready")
      BY <1>1, <1>4 DEF CoreTyped, Reserve
    <2> QED
      BY <2>1, <2>2
  <1>5. CASE /\ job[j] \notin {"none", "waiting_budget"} /\ res = job[j] /\ UNCHANGED spend
             /\ job' = [job EXCEPT ![j] = res] /\ UNCHANGED taskRow
    <2>1. job' = job
      BY <1>5 DEF CoreTyped
    <2> QED
      BY <1>1, <1>5, <2>1 DEF CoreTyped, taskRow, execRows, jobRows
  <1> QED
    BY <1>2, <1>3, <1>4, <1>5

LEMMA ClaimDispatchTyped ==
    ASSUME CoreTyped, NEW c \in WorkerState, MyJob(c) \in Job, c.run \in 1..MaxRuns,
           NEW res, ClaimDispatch(c, res)
    PROVE  /\ CoreTyped'
           /\ UNCHANGED jobRows \/ Grant(MyJob(c), c.run)
           /\ res = "granted" => token'[MyJob(c)] = c.run /\ job'[MyJob(c)] = "dispatching"
  <1> DEFINE j == MyJob(c)
  <1> USE DEF ClaimDispatch
  <1>1. UNCHANGED <<execRows, spend, commits, attempts>>
    OBVIOUS
  <1>2. CASE res # "granted" /\ UNCHANGED <<taskRow, job, token>>
    BY <1>1, <1>2 DEF CoreTyped, taskRow, execRows, jobRows
  <1>3. CASE Block /\ res = "conflict" /\ UNCHANGED <<job, token>>
    BY <1>1, <1>3, Blocks DEF jobRows
  <1>4. CASE /\ job[j] = "dispatching" /\ token[j] = c.run /\ UNCHANGED <<taskRow, job, token>>
    BY <1>1, <1>4 DEF CoreTyped, taskRow, execRows, jobRows
  <1>5. CASE /\ job[j] = "ready" /\ job' = [job EXCEPT ![j] = "dispatching"]
             /\ token' = [token EXCEPT ![j] = c.run] /\ UNCHANGED taskRow
    <2>1. CoreTyped'
      BY <1>1, <1>5 DEF CoreTyped, taskRow, execRows, JobStatus
    <2>2. Grant(j, c.run) /\ token'[j] = c.run /\ job'[j] = "dispatching"
      BY <1>1, <1>5 DEF CoreTyped, Grant
    <2> QED
      BY <2>1, <2>2
  <1> QED
    BY <1>2, <1>3, <1>4, <1>5 DEF CoreTyped

LEMMA CompleteTyped ==
    ASSUME CoreTyped, NEW c \in WorkerState, MyJob(c) \in Job, wires[MyJob(c)] = 1,
           NEW res, Complete(c, res)
    PROVE  CoreTyped' /\ (UNCHANGED jobRows \/ Lose({MyJob(c)}) \/ Settle(MyJob(c)))
  <1> DEFINE j == MyJob(c)
  <1> USE DEF Complete
  <1>1. UNCHANGED <<execRows, token, commits, attempts>>
    OBVIOUS
  <1>2. CASE UNCHANGED <<taskRow, job, spend>>
    BY <1>1, <1>2 DEF CoreTyped, taskRow, execRows, jobRows
  <1>3. CASE /\ job[j] = "dispatching" /\ job' = [job EXCEPT ![j] = "unknown"]
             /\ UNCHANGED <<taskRow, spend>>
    <2>1. CoreTyped'
      BY <1>1, <1>3 DEF CoreTyped, taskRow, execRows, JobStatus
    <2>2. Lose({j})
      BY <1>1, <1>3 DEF CoreTyped, Lose
    <2> QED
      BY <2>1, <2>2
  <1>4. CASE /\ job[j] \in {"dispatching", "unknown"} /\ c.goal # "unknown"
             /\ job' = [job EXCEPT ![j] = c.goal]
             /\ spend' = [spend EXCEPT ![j] = "settled"]
             /\ blocked' \in {"no", blocked} /\ deferred' \in {FALSE, deferred}
             /\ UNCHANGED <<status, owner, text, run, leaseOver, attempt>>
    <2>1. c.goal \in {"succeeded", "rejected"}
      BY <1>4 DEF WorkerState
    <2>2. job' \in [Job -> JobStatus]
      BY <1>4, <2>1 DEF CoreTyped, JobStatus, Terminal
    <2>3. spend' \in [Job -> {"none", "reserved", "released", "settled"}]
      BY <1>4 DEF CoreTyped
    <2>4. blocked' \in {"no", "execution_unknown", "other"} /\ deferred' \in BOOLEAN
      BY <1>4 DEF CoreTyped
    <2>5. CoreTyped'
      BY <1>1, <1>4, <2>2, <2>3, <2>4 DEF CoreTyped, execRows
    <2>6. Settle(j)
      BY <1>1, <1>4, <2>1 DEF Settle, Open
    <2> QED
      BY <2>5, <2>6
  <1> QED
    BY <1>2, <1>3, <1>4

LEMMA CheckpointTyped ==
    ASSUME CoreTyped, NEW c \in WorkerState, c.att \in Attempt, NEW res, CheckpointAgentRun(c, res)
    PROVE  CoreTyped' /\ UNCHANGED jobRows
  <1> USE DEF CheckpointAgentRun
  <1>1. UNCHANGED <<execInput, jobRows, commits, attempts>>
    OBVIOUS
  <1>2. CASE UNCHANGED <<taskRow, execStatus>>
    BY <1>1, <1>2 DEF CoreTyped, taskRow, jobRows
  <1>3. CASE Block /\ UNCHANGED execStatus
    BY <1>1, <1>3, Blocks DEF execRows
  <1>4. CASE execStatus' = [execStatus EXCEPT ![c.att] = "ready"] /\ UNCHANGED taskRow
    BY <1>1, <1>4 DEF CoreTyped, taskRow, jobRows
  <1> QED
    BY <1>1, <1>2, <1>3, <1>4

LEMMA CommitTyped ==
    ASSUME CoreTyped, NEW c \in WorkerState, c.att \in Attempt, NEW res, CommitAgentRun(c, res)
    PROVE  CoreTyped' /\ UNCHANGED jobRows
  <1> USE DEF CommitAgentRun, Capped, CommitEffects
  <1>0. 0 \in 0..MaxRuns
    BY TaskAssumption DEF TaskAssumption
  <1>1. UNCHANGED <<execInput, jobRows, attempts>>
    OBVIOUS
  <1>2. CASE UNCHANGED <<taskRow, execStatus, commits>>
    BY <1>1, <1>2 DEF CoreTyped, taskRow, jobRows
  <1>3. CASE Block /\ UNCHANGED <<execStatus, commits>>
    BY <1>1, <1>3, Blocks DEF execRows
  <1>4. CASE /\ Unlease /\ deferred' = TRUE /\ blocked' = "no"
             /\ UNCHANGED <<execStatus, commits>> /\ UNCHANGED <<owner, text, attempt>>
    BY <1>0, <1>1, <1>4 DEF CoreTyped, Unlease, Task, jobRows
  <1>5. CASE /\ status' = "done" /\ run' = 0 /\ leaseOver' = FALSE
             /\ deferred' = FALSE /\ blocked' = "no"
             /\ execStatus' = [execStatus EXCEPT ![c.att] = "committed"]
             /\ commits' = [commits EXCEPT ![c.att] = @ + 1]
             /\ UNCHANGED <<owner, text, attempt>>
    <2>1. commits' \in [Attempt -> Nat]
      BY <1>5 DEF CoreTyped
    <2>2. execStatus' \in [Attempt -> {"none", "active", "ready", "committed", "abandoned"}]
      BY <1>5 DEF CoreTyped
    <2> QED
      BY <1>0, <1>1, <1>5, <2>1, <2>2 DEF CoreTyped, Task, jobRows
  <1> QED
    BY <1>1, <1>2, <1>3, <1>4, <1>5

LEMMA ReleaseTyped ==
    ASSUME CoreTyped, NEW c \in WorkerState, NEW res, ReleaseAgentRun(c, res)
    PROVE  CoreTyped' /\ \E S \in SUBSET Job : UNCHANGED jobRows \/ Lose(S)
  <1> USE DEF ReleaseAgentRun, ReleaseTask
  <1>0. 0 \in 0..MaxRuns /\ 0 \in 0..MaxAttempts
    BY TaskAssumption DEF TaskAssumption
  <1>1. UNCHANGED <<execRows, token, spend, commits, attempts>>
    OBVIOUS
  <1>2. CASE UNCHANGED <<taskRow, job>>
    BY <1>1, <1>2 DEF CoreTyped, taskRow, execRows, jobRows
  <1>3. CASE Fence(c) /\ res = "released"
    <2> DEFINE S == {j \in Job : c.reason = "execution_unknown" /\ j \in OpenJobs(c) /\ job[j] = "dispatching"}
    <2>1. job' = [j \in Job |-> IF j \in S THEN "unknown" ELSE job[j]]
      BY <1>3 DEF Fence
    <2>2. Lose(S)
      BY <1>1, <2>1 DEF Lose
    <2>3. job' \in [Job -> JobStatus]
      BY <2>1 DEF CoreTyped, JobStatus
    <2>4. Unlease /\ UNCHANGED <<owner, text>> /\ attempt' \in {0, attempt}
      BY <1>3 DEF Fence
    <2>5. deferred' \in BOOLEAN
      BY <1>3 DEF Fence, CoreTyped
    <2>6. blocked' \in {"no", "execution_unknown", "other"}
      BY <1>3 DEF Fence, CoreTyped
    <2>7. CoreTyped'
      BY <1>0, <1>1, <2>3, <2>4, <2>5, <2>6 DEF CoreTyped, Unlease, Task, execRows
    <2> QED
      BY <2>2, <2>7
  <1> QED
    BY <1>2, <1>3

\* Every handler changes the rows by an effect, whoever calls it.
LEMMA HandleTyped ==
    ASSUME Inv, NEW c \in WorkerState, c.pc \notin {"idle", "granted"}, Engaged(c), Answers(c),
           NEW res, Handle(c, res)
    PROVE  /\ CoreTyped' /\ Effect
           /\ c.pc = "ensure" /\ res = "ready" => job'[MyJob(c)] = "ready"
           /\ c.pc = "dispatch" /\ res = "granted" =>
                 token'[MyJob(c)] = c.run /\ job'[MyJob(c)] = "dispatching"
  <1>1. c.att \in Attempt /\ c.run \in 1..MaxRuns /\ MyJob(c) \in Job
    BY MyJobTyped
  <1>2. CoreTyped
    BY DEF Inv, TypeOK
  <1>3. CASE c.pc = "claimed" /\ StartAgentRun(c, res)
    BY <1>1, <1>2, <1>3, StartTyped DEF Effect
  <1>4. CASE c.pc = "ensure" /\ Ensure(c, res)
    BY <1>1, <1>2, <1>4, EnsureTyped DEF Effect
  <1>5. CASE c.pc = "dispatch" /\ ClaimDispatch(c, res)
    BY <1>1, <1>2, <1>5, ClaimDispatchTyped DEF Effect
  <1>6. CASE c.pc = "complete" /\ Complete(c, res)
    <2>1. CoreTyped' /\ (UNCHANGED jobRows \/ Lose({MyJob(c)}) \/ Settle(MyJob(c)))
      BY <1>1, <1>2, <1>6, CompleteTyped DEF Answers
    <2>2. {MyJob(c)} \in SUBSET Job
      BY <1>1
    <2> QED
      BY <1>1, <1>6, <2>1, <2>2 DEF Effect
  <1>7. CASE c.pc = "checkpoint" /\ CheckpointAgentRun(c, res)
    BY <1>1, <1>2, <1>7, CheckpointTyped DEF Effect
  <1>8. CASE c.pc = "commit" /\ CommitAgentRun(c, res)
    BY <1>1, <1>2, <1>8, CommitTyped DEF Effect
  <1>9. CASE c.pc = "release" /\ ReleaseAgentRun(c, res)
    BY <1>1, <1>2, <1>9, ReleaseTyped DEF Effect
  <1>10. c.pc \in {"claimed", "ensure", "dispatch", "complete", "checkpoint", "commit", "release"}
    BY DEF WorkerState
  <1> QED
    BY <1>3, <1>4, <1>5, <1>6, <1>7, <1>8, <1>9, <1>10 DEF Handle

-----------------------------------------------------------------------------
(* The workers                                                             *)

\* Whoever stays where it is keeps what it holds.
LEMMA StaySound ==
    ASSUME Inv, Effect, wires' = wires
    PROVE  \A c \in WorkerState : c.pc # "idle" /\ Engaged(c) =>
               (GrantOpen(c) => GrantOpen(c)') /\ (Answers(c) => Answers(c)')
  <1> TAKE c \in WorkerState
  <1> HAVE c.pc # "idle" /\ Engaged(c)
  <1> DEFINE j == MyJob(c)
  <1>1. j \in Job
    BY MyJobTyped
  <1>2. wires[j] \in {0, 1}
    BY <1>1 DEF Inv, Books
  <1>3. /\ wires[j] = 1 => token'[j] = token[j]
        /\ wires[j] = 0 /\ job[j] \in Open => job'[j] \in Open /\ token'[j] = token[j]
    BY <1>1, EffectStable DEF Stable
  <1>4. GrantOpen(c) => GrantOpen(c)'
    BY <1>2, <1>3 DEF GrantOpen, MyJob
  <1>5. Answers(c) => Answers(c)'
    BY <1>2, <1>3 DEF Answers, MyJob
  <1> QED
    BY <1>4, <1>5

\* A worker another one's step does not touch.
LEMMA Bystander ==
    ASSUME Inv, Effect, wires' = wires, NEW w \in Worker, wk'[w] = wk[w]
    PROVE  (Engaged(wk[w]) /\ GrantOpen(wk[w]) /\ Answers(wk[w]))'
  <1>1. PICK c \in WorkerState : c = wk[w]
    BY DEF Inv, TypeOK, ActorsTyped
  <1>2. Engaged(c) /\ GrantOpen(c) /\ Answers(c)
    BY <1>1 DEF Inv, Actors
  <1>3. CASE c.pc = "idle"
    BY <1>1, <1>3 DEF Engaged, GrantOpen, Answers
  <1>4. CASE c.pc # "idle"
    <2>1. Engaged(c) /\ GrantOpen(c)' /\ Answers(c)'
      BY <1>2, <1>4, StaySound
    <2> QED
      BY <1>1, <2>1 DEF Engaged, GrantOpen, Answers, MyJob
  <1> QED
    BY <1>3, <1>4

\* Calls given up stay sound while they wait.
LEMMA Waiting ==
    ASSUME Inv, Effect, wires' = wires, NEW c \in late
    PROVE  Engaged(c) /\ Answers(c)' /\ c.pc \notin {"idle", "granted"}
  <1>1. c \in WorkerState /\ Engaged(c) /\ Answers(c) /\ c.pc \notin {"idle", "granted"}
    BY DEF Inv, TypeOK, ActorsTyped, Actors
  <1>2. Answers(c)'
    BY <1>1, StaySound
  <1> QED
    BY <1>1, <1>2

\* What every step but the call of the provider does.
Keeps == Inv' /\ Effect /\ wires' = wires

\* A step that moves no worker.
LEMMA Rest ==
    ASSUME Inv, Effect, CoreTyped', ActorsTyped', wires' = wires, wk' = wk, late' \subseteq late
    PROVE  Keeps
  <1>1. \A w \in Worker : (Engaged(wk[w]) /\ GrantOpen(wk[w]) /\ Answers(wk[w]))'
    BY Bystander
  <1>2. ASSUME NEW c \in late' PROVE Engaged(c) /\ Answers(c)' /\ c.pc \notin {"idle", "granted"}
    BY <1>2, Waiting
  <1>3. Actors'
    BY <1>1, <1>2 DEF Actors, Engaged, Answers, MyJob
  <1>4. Apart'
    BY DEF Inv, Apart
  <1> QED
    BY <1>3, <1>4, EffectBooks, EffectChain DEF Keeps, Inv, TypeOK

\* A step of one worker, which stays with its run, takes a fresh one or ends.
LEMMA Moves ==
    ASSUME Inv, Effect, CoreTyped', wires' = wires, UNCHANGED <<desk, retries, ops>>,
           faults' \in 0..MaxFaults,
           NEW w \in Worker, NEW n \in WorkerState, wk' = [wk EXCEPT ![w] = n],
           Engaged(n), GrantOpen(n)', Answers(n)',
           n.pc # "idle" => \/ wk[w].pc # "idle" /\ n.run = wk[w].run
                           \/ \A v \in Worker : wk[v].run # n.run,
           late' \subseteq late \union {wk[w]}, late' \subseteq late \/ wk[w].pc \notin {"idle", "granted"}
    PROVE  Keeps
  <1>1. wk \in [Worker -> WorkerState] /\ late \subseteq WorkerState
    BY DEF Inv, TypeOK, ActorsTyped
  <1>2. ActorsTyped'
    BY <1>1 DEF Inv, TypeOK, ActorsTyped
  <1>3. ASSUME NEW v \in Worker PROVE (Engaged(wk[v]) /\ GrantOpen(wk[v]) /\ Answers(wk[v]))'
    <2>1. CASE v = w
      <3>1. wk'[v] = n
        BY <1>1, <2>1
      <3> QED
        BY <3>1 DEF Engaged, GrantOpen, Answers, MyJob
    <2>2. CASE v # w
      BY <1>1, <2>2, Bystander
    <2> QED
      BY <2>1, <2>2
  <1>4. ASSUME NEW c \in late' PROVE Engaged(c) /\ Answers(c)' /\ c.pc \notin {"idle", "granted"}
    <2>1. CASE c \in late
      BY <2>1, Waiting
    <2>2. CASE c \notin late
      <3>1. c = wk[w] /\ c \in WorkerState /\ c.pc \notin {"idle", "granted"}
        BY <1>1, <1>4, <2>2
      <3>2. Engaged(c) /\ Answers(c)
        BY <3>1 DEF Inv, Actors
      <3>3. Answers(c)'
        BY <3>1, <3>2, StaySound
      <3> QED
        BY <3>1, <3>2, <3>3
    <2> QED
      BY <2>1, <2>2
  <1>5. Actors'
    BY <1>3, <1>4 DEF Actors, Engaged, Answers, MyJob
  <1>6. Apart'
    BY <1>1 DEF Inv, Apart
  <1> QED
    BY <1>2, <1>5, <1>6, EffectBooks, EffectChain DEF Keeps, Inv, TypeOK

-----------------------------------------------------------------------------
(* Where a worker goes                                                     *)

LEMMA IdleTyped == ASSUME NEW a \in Agent PROVE Idle(a) \in WorkerState
  <1>1. 0 \in 0..MaxRuns /\ 0 \in 0..MaxAttempts
    BY TaskAssumption DEF TaskAssumption
  <1>2. <<0, a>> \in Input
    BY DEF Input, Owner
  <1>3. <<1, 1>> \in Slot
    BY TaskAssumption DEF TaskAssumption, Slot
  <1> QED
    BY <1>1, <1>2, <1>3 DEF Idle, WorkerState, Reason

LEMMA GotoTyped ==
    ASSUME NEW c \in WorkerState,
           NEW pc \in {"ensure", "dispatch", "granted", "checkpoint", "commit", "release"}
    PROVE  /\ Goto(c, pc) \in WorkerState /\ Goto(c, pc).pc = pc /\ Goto(c, pc).run = c.run
           /\ Goto(c, pc).att = c.att /\ Goto(c, pc).slot = c.slot
  BY DEF Goto, WorkerState

LEMMA LeaveTyped ==
    ASSUME NEW c \in WorkerState, NEW why \in Reason
    PROVE  /\ Leave(c, why) \in WorkerState /\ Leave(c, why).pc = "release"
           /\ Leave(c, why).run = c.run /\ Leave(c, why).att = c.att
  BY DEF Leave, Goto, WorkerState

\* What can be said of the worker n that c goes on as.
Follows(n, c) ==
    /\ n \in WorkerState
    /\ n.pc = "idle" \/ (n.run = c.run /\ n.att = c.att)
    /\ n.pc \in {"idle", "ensure", "dispatch", "granted", "checkpoint", "commit", "release"}

LEMMA OnwardFollows ==
    ASSUME NEW c \in WorkerState, NEW result, NEW n \in Onward(c, result)
    PROVE  Follows(n, c) /\ n.pc \in {"ensure", "checkpoint", "release"}
  <1>1. CASE n = Leave(c, "skill_failed")
    BY <1>1, LeaveTyped DEF Follows, Reason
  <1>2. CASE n = Goto(c, "checkpoint")
    BY <1>2, GotoTyped DEF Follows
  <1>3. ASSUME NEW slot \in Slot, n = [Goto(c, "ensure") EXCEPT !.slot = slot]
        PROVE Follows(n, c) /\ n.pc = "ensure"
    BY <1>3 DEF Follows, Goto, WorkerState
  <1>4. c.slot \in Slot /\ c.slot[1] \in 1..Steps /\ c.slot[2] \in 1..Models
    BY DEF WorkerState, Slot
  <1>5. c.slot[2] < Models => <<c.slot[1], c.slot[2] + 1>> \in Slot
    BY <1>4, TaskAssumption DEF TaskAssumption, Slot
  <1>6. c.slot[1] < Steps => <<c.slot[1] + 1, 1>> \in Slot
    BY <1>4, TaskAssumption DEF TaskAssumption, Slot
  <1> QED
    BY <1>1, <1>2, <1>3, <1>5, <1>6 DEF Onward

LEMMA ProceedFollows ==
    ASSUME NEW c \in WorkerState, NEW res, NEW n \in Proceed(c, res)
    PROVE  /\ Follows(n, c)
           /\ n.pc = "dispatch" => c.pc = "ensure" /\ res = "ready" /\ n.slot = c.slot
           /\ n.pc = "granted" => c.pc = "dispatch" /\ res = "granted" /\ n.slot = c.slot
  <1>1. c.agent \in Agent
    BY DEF WorkerState
  <1>2. CASE n = Idle(c.agent)
    BY <1>1, <1>2, IdleTyped DEF Follows, Idle
  <1>3. ASSUME NEW why \in Reason, n = Leave(c, why)
        PROVE Follows(n, c) /\ n.pc = "release"
    BY <1>3, LeaveTyped DEF Follows
  <1>4. ASSUME NEW pc \in {"ensure", "dispatch", "granted", "commit"}, n = Goto(c, pc)
        PROVE Follows(n, c) /\ n.pc = pc /\ n.slot = c.slot
    BY <1>4, GotoTyped DEF Follows
  <1>5. CASE n \in Onward(c, res)
    BY <1>5, OnwardFollows
  <1>6. \/ n = Idle(c.agent) \/ n \in Onward(c, res)
        \/ n = Leave(c, "budget_denied") \/ n = Leave(c, "execution_unknown")
        \/ n = Goto(c, "ensure") \/ n = Goto(c, "commit")
        \/ c.pc = "ensure" /\ res = "ready" /\ n = Goto(c, "dispatch")
        \/ c.pc = "dispatch" /\ res = "granted" /\ n = Goto(c, "granted")
    <2>1. CASE c.pc = "claimed"
      BY <2>1 DEF Proceed
    <2>2. CASE c.pc = "ensure"
      BY <2>2 DEF Proceed
    <2>3. CASE c.pc = "dispatch"
      BY <2>3 DEF Proceed
    <2>4. CASE c.pc = "complete"
      BY <2>4 DEF Proceed
    <2>5. CASE c.pc = "checkpoint"
      BY <2>5 DEF Proceed
    <2>6. CASE c.pc \notin {"claimed", "ensure", "dispatch", "complete", "checkpoint"}
      BY <2>6 DEF Proceed
    <2> QED
      BY <2>1, <2>2, <2>3, <2>4, <2>5, <2>6
  <1>7. "budget_denied" \in Reason /\ "execution_unknown" \in Reason
    BY DEF Reason
  <1> QED
    BY <1>2, <1>3, <1>4, <1>5, <1>6, <1>7, OnwardFollows, IdleTyped

-----------------------------------------------------------------------------
(* The steps                                                               *)

LEMMA Nothing == ASSUME UNCHANGED jobRows PROVE Effect
  BY DEF Effect

LEMMA CoreStays == ASSUME Inv, UNCHANGED core PROVE CoreTyped' /\ UNCHANGED jobRows
  BY DEF Inv, TypeOK, CoreTyped, core, taskRow, execRows, jobRows

LEMMA WorkerTyped ==
    ASSUME Inv, NEW w \in Worker
    PROVE  wk[w] \in WorkerState /\ Engaged(wk[w]) /\ GrantOpen(wk[w]) /\ Answers(wk[w])
  BY DEF Inv, TypeOK, ActorsTyped, Actors

\* Who waits for a dispatch or holds one needs care; the others do not.
LEMMA Harmless ==
    ASSUME NEW n \in WorkerState, n.pc \notin {"dispatch", "granted", "complete"}
    PROVE  GrantOpen(n)' /\ Answers(n)'
  BY DEF GrantOpen, Answers

LEMMA RequestKeeps == ASSUME Inv, NEW w \in Worker, Request(w) PROVE Keeps
  <1>1. PICK c \in WorkerState : c = wk[w]
    BY WorkerTyped
  <1>2. PICK res \in Answer(c.pc) : Handle(c, res) /\ \E n \in Proceed(c, res) : wk' = [wk EXCEPT ![w] = n]
    BY <1>1 DEF Request
  <1>3. PICK n \in Proceed(c, res) : wk' = [wk EXCEPT ![w] = n]
    BY <1>2
  <1>4. /\ c.pc \notin {"idle", "granted"} /\ Engaged(c) /\ GrantOpen(c) /\ Answers(c)
        /\ UNCHANGED <<late, desk, wires, retries, ops, faults>>
    BY <1>1, WorkerTyped DEF Request, Calling
  <1>5. /\ CoreTyped' /\ Effect
        /\ c.pc = "ensure" /\ res = "ready" => job'[MyJob(c)] = "ready"
        /\ c.pc = "dispatch" /\ res = "granted" =>
              token'[MyJob(c)] = c.run /\ job'[MyJob(c)] = "dispatching"
    BY <1>2, <1>4, HandleTyped
  <1>6. /\ Follows(n, c)
        /\ n.pc = "dispatch" => c.pc = "ensure" /\ res = "ready" /\ n.slot = c.slot
        /\ n.pc = "granted" => c.pc = "dispatch" /\ res = "granted" /\ n.slot = c.slot
    BY ProceedFollows
  <1>7. n \in WorkerState /\ Engaged(n) /\ (n.pc # "idle" => n.run = c.run /\ n.att = c.att)
    BY <1>4, <1>6 DEF Follows, Engaged
  <1>8. MyJob(c) \in Job /\ wires[MyJob(c)] \in {0, 1}
    BY <1>4, MyJobTyped DEF Inv, Books
  <1>9. Books'
    BY <1>4, <1>5, EffectBooks
  <1>10. GrantOpen(n)' /\ Answers(n)'
    <2>1. CASE n.pc = "dispatch"
      <3>1. MyJob(n) = MyJob(c) /\ job'[MyJob(c)] = "ready"
        BY <1>5, <1>6, <1>7, <2>1 DEF MyJob
      <3>2. wires'[MyJob(c)] = 0
        BY <1>8, <1>9, <3>1 DEF Books, Open
      <3> QED
        BY <2>1, <3>1, <3>2 DEF GrantOpen, Answers, MyJob
    <2>2. CASE n.pc = "granted"
      <3>1. /\ MyJob(n) = MyJob(c) /\ n.run = c.run /\ c.pc = "dispatch"
            /\ token'[MyJob(c)] = c.run /\ job'[MyJob(c)] = "dispatching"
        BY <1>5, <1>6, <1>7, <2>2 DEF MyJob
      <3>2. wires[MyJob(c)] = 1 => token'[MyJob(c)] = token[MyJob(c)]
        BY <1>5, <1>8, EffectStable DEF Stable
      <3>3. wires[MyJob(c)] = 0
        BY <1>4, <1>8, <3>1, <3>2 DEF GrantOpen
      <3> QED
        BY <1>4, <2>2, <3>1, <3>3 DEF GrantOpen, Answers, MyJob, Open
    <2>3. CASE n.pc \notin {"dispatch", "granted"}
      BY <1>6, <1>7, <2>3, Harmless DEF Follows
    <2> QED
      BY <2>1, <2>2, <2>3
  <1>11. faults' \in 0..MaxFaults
    BY <1>4 DEF Inv, TypeOK, ActorsTyped
  <1> QED
    BY <1>1, <1>3, <1>4, <1>5, <1>7, <1>10, <1>11, Moves

\* A worker that ends, leaves or repeats its call; Core does nothing.
LEMMA WalkKeeps ==
    ASSUME Inv, UNCHANGED core, UNCHANGED <<desk, wires, retries, ops>>, faults' \in 0..MaxFaults,
           NEW w \in Worker, NEW n \in WorkerState, wk' = [wk EXCEPT ![w] = n],
           \/ n.pc \in {"idle", "release"}
           \/ n.pc \in {"dispatch", "complete"} /\ n.pc = wk[w].pc /\ n.slot = wk[w].slot,
           n.pc # "idle" => wk[w].pc # "idle" /\ n.run = wk[w].run /\ n.att = wk[w].att,
           late' \subseteq late \union {wk[w]}, late' \subseteq late \/ wk[w].pc \notin {"idle", "granted"}
    PROVE  Keeps
  <1>1. CoreTyped' /\ UNCHANGED jobRows
    BY CoreStays
  <1>2. Effect
    BY <1>1, Nothing
  <1>3. Engaged(wk[w]) /\ GrantOpen(wk[w]) /\ Answers(wk[w])
    BY WorkerTyped
  <1>4. Engaged(n)
    BY <1>3 DEF Engaged
  <1>5. GrantOpen(n)' /\ Answers(n)'
    <2>1. CASE n.pc \in {"idle", "release"}
      BY <2>1, Harmless
    <2>2. CASE n.pc \in {"dispatch", "complete"} /\ n.pc = wk[w].pc /\ n.slot = wk[w].slot
      <3>1. MyJob(n) = MyJob(wk[w]) /\ n.run = wk[w].run
        BY <2>2 DEF MyJob
      <3> QED
        BY <1>1, <1>3, <2>2, <3>1 DEF GrantOpen, Answers, MyJob, jobRows
    <2> QED
      BY <2>1, <2>2
  <1>6. UNCHANGED <<desk, retries, ops>>
    OBVIOUS
  <1> QED
    BY <1>1, <1>2, <1>4, <1>5, <1>6, Moves

LEMMA ClaimTyped ==
    ASSUME Inv, NEW agent, ClaimAgentRun(agent)
    PROVE  /\ CoreTyped' /\ UNCHANGED jobRows
           /\ run' \in 1..MaxRuns /\ ~Known(run') /\ attempt' \in Attempt
  <1>1. PICK r \in 1..MaxRuns : IsFresh(r) /\ run' = r
    BY DEF ClaimAgentRun
  <1>2. ~Known(r)
    BY <1>1 DEF IsFresh
  <1>3. attempts' \in 0..MaxAttempts /\ attempt' \in Attempt
    BY TaskAssumption DEF TaskAssumption, ClaimAgentRun, Inv, TypeOK, CoreTyped, Attempt
  <1>4. run' \in 0..MaxRuns /\ attempt' \in 0..MaxAttempts
    BY <1>1, <1>3 DEF Attempt
  <1>5. /\ status' = "in_progress" /\ leaseOver' = FALSE
        /\ UNCHANGED <<owner, text, deferred, blocked, execStatus, execInput, job, token, spend, commits>>
    BY DEF ClaimAgentRun, execRows, jobRows
  <1>6. CoreTyped'
    BY <1>3, <1>4, <1>5 DEF Inv, TypeOK, CoreTyped, Task
  <1> QED
    BY <1>1, <1>2, <1>3, <1>6 DEF ClaimAgentRun

LEMMA ClaimRunKeeps == ASSUME Inv, NEW w \in Worker, ClaimRun(w) PROVE Keeps
  <1>1. ClaimAgentRun(AgentOf[w]) /\ UNCHANGED <<late, desk, wires, retries, ops, faults>>
    BY DEF ClaimRun
  <1>2. /\ CoreTyped' /\ UNCHANGED jobRows
        /\ run' \in 1..MaxRuns /\ ~Known(run') /\ attempt' \in Attempt
    BY <1>1, ClaimTyped
  <1>3. PICK n : /\ wk' = [wk EXCEPT ![w] = n]
                 /\ n = [Idle(AgentOf[w]) EXCEPT !.pc = "claimed", !.run = run', !.att = attempt',
                                                  !.input = CurrentInput]
    BY DEF ClaimRun
  <1>4. Idle(AgentOf[w]) \in WorkerState
    BY IdleTyped, TaskAssumption DEF TaskAssumption
  <1>5. CurrentInput \in Input
    BY InputTyped DEF Inv, TypeOK
  <1>6. n \in WorkerState /\ n.pc = "claimed" /\ n.run = run' /\ n.att = attempt'
    <2>1. run' \in 0..MaxRuns /\ attempt' \in 0..MaxAttempts
      BY <1>2 DEF CoreTyped
    <2> QED
      BY <1>3, <1>4, <1>5, <2>1 DEF WorkerState
  <1>7. Engaged(n) /\ GrantOpen(n)' /\ Answers(n)'
    BY <1>2, <1>6, Harmless DEF Engaged
  <1>8. \A v \in Worker : wk[v].run # n.run
    BY <1>2, <1>6 DEF Known
  <1>9. faults' \in 0..MaxFaults
    BY <1>1 DEF Inv, TypeOK, ActorsTyped
  <1> QED
    BY <1>1, <1>2, <1>3, <1>6, <1>7, <1>8, <1>9, Nothing, Moves

LEMMA FaultTyped == ASSUME Inv, Fault PROVE faults' \in 0..MaxFaults
  BY TaskAssumption DEF TaskAssumption, Fault, Inv, TypeOK, ActorsTyped

LEMMA ClaimUnansweredKeeps == ASSUME Inv, NEW w \in Worker, ClaimUnanswered(w) PROVE Keeps
  <1>1. ClaimAgentRun(AgentOf[w]) /\ UNCHANGED <<wk, late, desk, wires, retries, ops>> /\ Fault
    BY DEF ClaimUnanswered
  <1>2. CoreTyped' /\ UNCHANGED jobRows
    BY <1>1, ClaimTyped
  <1>3. ActorsTyped'
    BY <1>1, FaultTyped DEF Inv, TypeOK, ActorsTyped
  <1> QED
    BY <1>1, <1>2, <1>3, Nothing, Rest

\* Decline, Drift, Unanswered, Crash, LeaseLost, LeaseUnconfirmed.
LEMMA StopKeeps ==
    ASSUME Inv, NEW w \in Worker,
           Decline(w) \/ Drift(w) \/ Crash(w) \/ LeaseLost(w) \/ LeaseUnconfirmed(w)
    PROVE  Keeps
  <1>0. wk[w] \in WorkerState /\ faults \in 0..MaxFaults /\ AgentOf[w] \in Agent
    BY TaskAssumption DEF TaskAssumption, Inv, TypeOK, ActorsTyped
  <1>1. ASSUME NEW why \in Reason, wk' = [wk EXCEPT ![w] = Leave(wk[w], why)], wk[w].pc # "idle",
               UNCHANGED core, UNCHANGED <<late, desk, wires, retries, ops>>, faults' \in 0..MaxFaults
        PROVE Keeps
    <2>1. PICK n : n = Leave(wk[w], why)
      OBVIOUS
    <2>2. n \in WorkerState /\ n.pc = "release" /\ n.run = wk[w].run /\ n.att = wk[w].att
      BY <1>0, <2>1, LeaveTyped
    <2> QED
      BY <1>1, <2>1, <2>2, WalkKeeps
  <1>2. ASSUME Stop(w), UNCHANGED core, UNCHANGED <<desk, wires, retries, ops>>, faults' \in 0..MaxFaults,
               late' \subseteq late \union {wk[w]}, late' \subseteq late \/ wk[w].pc \notin {"idle", "granted"}
        PROVE Keeps
    <2>1. PICK n : n = Idle(AgentOf[w])
      OBVIOUS
    <2>2. n \in WorkerState /\ n.pc = "idle"
      BY <1>0, <2>1, IdleTyped DEF Idle
    <2> QED
      BY <1>2, <2>1, <2>2, WalkKeeps DEF Stop
  <1>3. CASE Decline(w)
    BY <1>0, <1>1, <1>3 DEF Decline, Reason
  <1>4. CASE Drift(w)
    BY <1>0, <1>1, <1>4 DEF Drift, Reason
  <1>5. CASE Crash(w)
    BY <1>2, <1>5, FaultTyped DEF Crash, Calling
  <1>6. CASE LeaseLost(w)
    BY <1>0, <1>2, <1>6 DEF LeaseLost
  <1>7. CASE LeaseUnconfirmed(w)
    BY <1>1, <1>7, FaultTyped DEF LeaseUnconfirmed, Reason
  <1> QED
    BY <1>3, <1>4, <1>5, <1>6, <1>7

LEMMA UnansweredKeeps == ASSUME Inv, NEW w \in Worker, Unanswered(w) PROVE Keeps
  <1>1. PICK c \in WorkerState : c = wk[w]
    BY WorkerTyped
  <1>2. /\ c.pc \notin {"idle", "granted"} /\ faults' \in 0..MaxFaults /\ late' = late \union {c}
        /\ UNCHANGED <<desk, wires, retries, ops>> /\ UNCHANGED core
    BY <1>1, FaultTyped DEF Unanswered, Calling
  <1>3. PICK n : /\ wk' = [wk EXCEPT ![w] = n]
                 /\ \/ n = Leave(c, "none") \/ n = Leave(c, "execution_unknown") \/ n = Idle(c.agent)
                    \/ c.pc \in {"dispatch", "complete"} /\ n = [c EXCEPT !.again = TRUE]
    <2>1. wk' = [wk EXCEPT ![w] =
                    CASE c.pc = "ensure" -> Leave(c, "none")
                      [] c.pc \in {"dispatch", "complete"} ->
                           IF c.again THEN Leave(c, "execution_unknown") ELSE [c EXCEPT !.again = TRUE]
                      [] OTHER -> Idle(c.agent)]
      BY <1>1 DEF Unanswered
    <2>2. CASE c.pc = "ensure"
      BY <2>1, <2>2
    <2>3. CASE c.pc \in {"dispatch", "complete"}
      BY <2>1, <2>3
    <2>4. CASE c.pc \notin {"ensure", "dispatch", "complete"}
      BY <2>1, <2>4
    <2> QED
      BY <2>2, <2>3, <2>4
  <1>4. CASE n = Leave(c, "none") \/ n = Leave(c, "execution_unknown")
    <2>1. n \in WorkerState /\ n.pc = "release" /\ n.run = c.run /\ n.att = c.att
      BY <1>4, LeaveTyped DEF Reason
    <2> QED
      BY <1>1, <1>2, <1>3, <2>1, WalkKeeps
  <1>5. CASE n = Idle(c.agent)
    <2>1. n \in WorkerState /\ n.pc = "idle"
      BY <1>5, IdleTyped DEF WorkerState, Idle
    <2> QED
      BY <1>1, <1>2, <1>3, <2>1, WalkKeeps
  <1>6. CASE c.pc \in {"dispatch", "complete"} /\ n = [c EXCEPT !.again = TRUE]
    <2>1. n \in WorkerState /\ n.pc = c.pc /\ n.slot = c.slot /\ n.run = c.run /\ n.att = c.att
      BY <1>6 DEF WorkerState
    <2> QED
      BY <1>1, <1>2, <1>3, <1>6, <2>1, WalkKeeps
  <1> QED
    BY <1>3, <1>4, <1>5, <1>6

LEMMA LateArrivesKeeps == ASSUME Inv, NEW c \in late, LateArrives(c) PROVE Keeps
  <1>1. c \in WorkerState /\ Engaged(c) /\ Answers(c) /\ c.pc \notin {"idle", "granted"}
    BY DEF Inv, TypeOK, ActorsTyped, Actors
  <1>2. PICK res \in Answer(c.pc) : Handle(c, res)
    BY DEF LateArrives
  <1>3. CoreTyped' /\ Effect
    BY <1>1, <1>2, HandleTyped
  <1>4. late' = late \ {c} /\ UNCHANGED <<wk, desk, wires, retries, ops, faults>>
    BY DEF LateArrives
  <1>5. ActorsTyped'
    BY <1>4 DEF Inv, TypeOK, ActorsTyped
  <1> QED
    BY <1>3, <1>4, <1>5, Rest

\* The grant is used: its holder alone holds it.
LEMMA CallProviderKeeps == ASSUME Inv, NEW w \in Worker, CallProvider(w) PROVE Inv' /\ UNCHANGED jobRows
  <1>1. PICK c \in WorkerState : c = wk[w]
    BY WorkerTyped
  <1> DEFINE j == MyJob(c)
  <1>2. /\ c.pc = "granted" /\ Engaged(c) /\ GrantOpen(c)
        /\ wires' = [wires EXCEPT ![j] = @ + 1]
        /\ UNCHANGED core /\ UNCHANGED <<late, desk, retries, ops, faults>>
    BY <1>1, WorkerTyped DEF CallProvider
  <1>3. PICK outcome \in {"succeeded", "rejected", "unknown"} :
            wk' = [wk EXCEPT ![w] = [Goto(c, "complete") EXCEPT !.goal = outcome]]
    BY <1>1 DEF CallProvider
  <1>4. PICK n : n = [Goto(c, "complete") EXCEPT !.goal = outcome]
    OBVIOUS
  <1>5. /\ n \in WorkerState /\ n.pc = "complete" /\ n.run = c.run /\ n.att = c.att /\ n.slot = c.slot
    BY <1>4 DEF Goto, WorkerState
  <1>6. j \in Job /\ c.run \in 1..MaxRuns
    BY <1>2, MyJobTyped
  <1>7. CoreTyped' /\ UNCHANGED <<job, token, spend>>
    BY <1>2, CoreStays DEF jobRows
  <1>8. /\ wires \in [Job -> Nat] /\ wk \in [Worker -> WorkerState] /\ late \subseteq WorkerState
        /\ wires[j] = 0 /\ token[j] = c.run /\ job[j] \in Open
    BY <1>2 DEF GrantOpen, Inv, TypeOK, ActorsTyped
  <1>9. wires' \in [Job -> Nat] /\ wires'[j] = 1 /\ \A k \in Job : k # j => wires'[k] = wires[k]
    BY <1>2, <1>6, <1>8
  <1>10. wk'[w] = n /\ \A v \in Worker : v # w => wk'[v] = wk[v]
    BY <1>3, <1>4, <1>8
  <1>11. ActorsTyped'
    BY <1>2, <1>3, <1>4, <1>5, <1>8, <1>9 DEF Inv, TypeOK, ActorsTyped
  <1>12. Books'
    BY <1>7, <1>8, <1>9 DEF Inv, Books, Open
  <1>13. Chain' /\ Apart'
    BY <1>1, <1>2, <1>5, <1>7, <1>10 DEF Inv, Chain, Before, Apart
  <1>14. ASSUME NEW v \in Worker PROVE (Engaged(wk[v]) /\ GrantOpen(wk[v]) /\ Answers(wk[v]))'
    <2>1. CASE v = w
      <3>1. MyJob(n) = j
        BY <1>5 DEF MyJob
      <3> QED
        BY <1>2, <1>5, <1>6, <1>7, <1>8, <1>9, <1>10, <2>1, <3>1
           DEF Engaged, GrantOpen, Answers, MyJob
    <2>2. CASE v # w
      <3>1. PICK d \in WorkerState : d = wk[v] /\ d = wk'[v]
        BY <1>8, <1>10, <2>2
      <3>2. Engaged(d) /\ GrantOpen(d) /\ Answers(d)
        BY <3>1, WorkerTyped
      <3>3. CASE d.pc = "idle"
        BY <3>1, <3>3 DEF Engaged, GrantOpen, Answers
      <3>4. CASE d.pc # "idle"
        <4>1. d.run # c.run
          BY <1>1, <1>2, <2>2, <3>1, <3>4 DEF Inv, Apart
        <4>2. MyJob(d) \in Job
          BY <3>2, <3>4, MyJobTyped
        <4>3. GrantOpen(d)'
          BY <1>7, <1>8, <1>9, <3>2, <4>1, <4>2 DEF GrantOpen, MyJob
        <4>4. Answers(d)'
          BY <1>7, <1>8, <1>9, <3>2, <4>1, <4>2 DEF Answers, MyJob
        <4> QED
          BY <3>1, <3>2, <4>3, <4>4 DEF Engaged, GrantOpen, Answers, MyJob
      <3> QED
        BY <3>3, <3>4
    <2> QED
      BY <2>1, <2>2
  <1>15. ASSUME NEW d \in late PROVE Engaged(d) /\ Answers(d)' /\ d.pc \notin {"idle", "granted"}
    <2>1. d \in WorkerState /\ Engaged(d) /\ Answers(d) /\ d.pc \notin {"idle", "granted"}
      BY <1>8 DEF Inv, Actors
    <2>2. MyJob(d) \in Job
      BY <2>1, MyJobTyped
    <2>3. Answers(d)'
      BY <1>7, <1>8, <1>9, <2>1, <2>2 DEF Answers, MyJob
    <2> QED
      BY <2>1, <2>3
  <1>16. Actors'
    BY <1>2, <1>14, <1>15 DEF Actors, Engaged, Answers, MyJob
  <1> QED
    BY <1>7, <1>11, <1>12, <1>13, <1>16 DEF Inv, TypeOK, jobRows

\* The heartbeat, the lapse of a lease, a deferred task falling due.
LEMMA ClockKeeps ==
    ASSUME Inv,
           (\E w \in Worker : Heartbeat(w)) \/ LeaseAbandoned \/ LeaseStalls \/ RetryDue
    PROVE  Keeps
  <1> DEFINE Ticks ==
        /\ UNCHANGED <<status, owner, text, run, attempt, blocked, execRows, jobRows, commits, attempts>>
        /\ UNCHANGED <<wk, late, desk, wires, retries, ops>>
        /\ leaseOver' \in {TRUE, FALSE, leaseOver} /\ deferred' \in {FALSE, deferred}
        /\ faults' = faults \/ Fault
  <1>1. Ticks
    <2>1. ASSUME NEW w \in Worker, Heartbeat(w) PROVE Ticks
      BY <2>1 DEF Heartbeat
    <2>2. CASE LeaseAbandoned
      BY <2>2 DEF LeaseAbandoned, LeaseExpires
    <2>3. CASE LeaseStalls
      BY <2>3 DEF LeaseStalls, LeaseExpires
    <2>4. CASE RetryDue
      BY <2>4 DEF RetryDue
    <2> QED
      BY <2>1, <2>2, <2>3, <2>4
  <1>2. CoreTyped'
    BY <1>1 DEF Inv, TypeOK, CoreTyped, execRows, jobRows
  <1>3. ActorsTyped'
    BY <1>1, FaultTyped DEF Inv, TypeOK, ActorsTyped
  <1> QED
    BY <1>1, <1>2, <1>3, Nothing, Rest

LEMMA DispatchExpiresKeeps == ASSUME Inv, NEW j \in Job, DispatchExpires(j) PROVE Keeps
  <1>1. /\ job[j] = "dispatching" /\ job' = [job EXCEPT ![j] = "unknown"]
        /\ UNCHANGED <<taskRow, execRows, token, spend, commits, attempts>>
        /\ UNCHANGED <<wk, late, desk, wires, retries, ops, faults>>
    BY DEF DispatchExpires
  <1>2. CoreTyped'
    BY <1>1 DEF Inv, TypeOK, CoreTyped, JobStatus, taskRow, execRows
  <1>3. Lose({j}) /\ {j} \in SUBSET Job
    BY <1>1 DEF Inv, TypeOK, CoreTyped, Lose
  <1>4. ActorsTyped'
    BY <1>1 DEF Inv, TypeOK, ActorsTyped
  <1>5. Effect
    BY <1>3 DEF Effect
  <1> QED
    BY <1>1, <1>2, <1>4, <1>5, Rest

LEMMA AskTyped == ASSUME Inv, NEW request, Ask(request) PROVE ops' \in 0..MaxOps
  BY TaskAssumption DEF TaskAssumption, Ask, Inv, TypeOK, ActorsTyped

\* Cancelling what has not been dispatched is one of the effects.
LEMMA Cancelling ==
    ASSUME CoreTyped, NEW a \in Attempt, job' = Cancelled(a), spend' = Released(a), UNCHANGED token
    PROVE  /\ Cancel(Undispatched(a)) /\ Undispatched(a) \in SUBSET Job
           /\ job' \in [Job -> JobStatus]
           /\ spend' \in [Job -> {"none", "reserved", "released", "settled"}]
  <1>1. Undispatched(a) \in SUBSET Job
    BY DEF Undispatched, JobsOf
  <1>2. \A j \in Undispatched(a) : job[j] \in {"ready", "waiting_budget"}
    BY DEF Undispatched
  <1>3. spend' = [j \in Job |-> IF j \in Undispatched(a) /\ job[j] = "ready" THEN "released" ELSE spend[j]]
    BY DEF Released, Undispatched, JobsOf
  <1>4. job' \in [Job -> JobStatus]
    BY DEF Cancelled, CoreTyped, JobStatus, Terminal
  <1>5. spend' \in [Job -> {"none", "reserved", "released", "settled"}]
    BY <1>3 DEF CoreTyped
  <1> QED
    BY <1>1, <1>2, <1>3, <1>4, <1>5 DEF Cancel, Cancelled

LEMMA SetStatusKeeps == ASSUME Inv, NEW s \in Task, SetStatus(s) PROVE Keeps
  <1>1. /\ status' = s /\ ops' \in 0..MaxOps
        /\ UNCHANGED <<owner, text, run, leaseOver, attempt, deferred, blocked, execStatus, execInput>>
        /\ UNCHANGED <<token, commits, attempts, wk, late, desk, wires, retries, faults>>
    BY AskTyped DEF SetStatus, execRows
  <1>2. CoreTyped
    BY DEF Inv, TypeOK
  <1>3. /\ job' \in [Job -> JobStatus] /\ spend' \in [Job -> {"none", "reserved", "released", "settled"}]
        /\ Effect
    <2>1. CASE UNCHANGED <<job, spend>>
      BY <1>1, <1>2, <2>1 DEF CoreTyped, Effect, jobRows
    <2>2. CASE attempt # 0 /\ job' = Cancelled(attempt) /\ spend' = Released(attempt)
      <3>1. attempt \in Attempt
        BY <1>2, <2>2, TaskAssumption DEF TaskAssumption, CoreTyped, Attempt
      <3> QED
        BY <1>1, <1>2, <2>2, <3>1, Cancelling DEF Effect
    <2> QED
      BY <2>1, <2>2 DEF SetStatus, CleanUp
  <1>4. CoreTyped'
    BY <1>1, <1>2, <1>3 DEF CoreTyped
  <1>5. ActorsTyped'
    BY <1>1 DEF Inv, TypeOK, ActorsTyped
  <1> QED
    BY <1>1, <1>3, <1>4, <1>5, Rest

LEMMA RetryBlockedKeeps == ASSUME Inv, RetryBlocked PROVE Keeps
  <1>1. /\ ops' \in 0..MaxOps /\ Unlease /\ deferred' = FALSE /\ blocked' = "no"
        /\ attempt' \in {0, attempt} /\ retries' \in {retries, retries + 1}
        /\ UNCHANGED <<owner, text, execInput, token, commits, attempts, wk, late, desk, wires, faults>>
    BY AskTyped DEF RetryBlocked
  <1>2. CoreTyped
    BY DEF Inv, TypeOK
  <1>3. /\ job' \in [Job -> JobStatus] /\ spend' \in [Job -> {"none", "reserved", "released", "settled"}]
        /\ execStatus' \in [Attempt -> {"none", "active", "ready", "committed", "abandoned"}]
        /\ Effect
    <2>1. CASE UNCHANGED <<job, spend, execStatus>>
      BY <1>1, <1>2, <2>1 DEF CoreTyped, Effect, jobRows
    <2>2. CASE /\ attempt # 0 /\ job' = Cancelled(attempt) /\ spend' = Released(attempt)
               /\ execStatus' = [execStatus EXCEPT ![attempt] = "abandoned"]
      <3>1. attempt \in Attempt
        BY <1>2, <2>2, TaskAssumption DEF TaskAssumption, CoreTyped, Attempt
      <3>2. execStatus' \in [Attempt -> {"none", "active", "ready", "committed", "abandoned"}]
        BY <1>2, <2>2, <3>1 DEF CoreTyped
      <3> QED
        BY <1>1, <1>2, <2>2, <3>1, <3>2, Cancelling DEF Effect
    <2> QED
      BY <2>1, <2>2 DEF RetryBlocked
  <1>4. 0 \in 0..MaxRuns /\ 0 \in 0..MaxAttempts
    BY TaskAssumption DEF TaskAssumption
  <1>5. CoreTyped'
    BY <1>1, <1>2, <1>3, <1>4 DEF CoreTyped, Unlease, Task
  <1>6. ActorsTyped'
    BY <1>1 DEF Inv, TypeOK, ActorsTyped
  <1> QED
    BY <1>1, <1>3, <1>5, <1>6, Rest

\* The requests that leave the rows of the jobs alone.
LEMMA RequestsKeep ==
    ASSUME Inv,
           EditText \/ Assign \/ Redo \/ Read("redo", "human") \/ \E to \in Owner : Read("assign", to)
    PROVE  Keeps
  <1>1. CoreTyped /\ ActorsTyped
    BY DEF Inv, TypeOK
  <1>2. 0 \in 0..MaxRuns /\ "human" \in Owner /\ NoRequest.op = "none"
        /\ 0 \in 0..MaxAttempts
    BY TaskAssumption DEF TaskAssumption, Owner, NoRequest
  <1>3. NoRequest \in [op : {"none", "assign", "redo"}, to : Owner, owner : Owner, attempt : 0..MaxAttempts]
    BY <1>2 DEF NoRequest
  <1>4. CASE EditText
    <2>1. CoreTyped' /\ UNCHANGED jobRows
      BY <1>1, <1>4 DEF EditText, CoreTyped, execRows, jobRows
    <2>2. ActorsTyped' /\ UNCHANGED <<wk, late, wires>>
      BY <1>1, <1>4, AskTyped DEF EditText, ActorsTyped
    <2> QED
      BY <2>1, <2>2, Nothing, Rest
  <1>5. ASSUME NEW request \in {"assign", "redo"}, NEW to \in Owner, Read(request, to) PROVE Keeps
    <2>1. CoreTyped' /\ UNCHANGED jobRows
      BY <1>5, CoreStays DEF Read
    <2>2. desk' \in [op : {"none", "assign", "redo"}, to : Owner, owner : Owner, attempt : 0..MaxAttempts]
      BY <1>1, <1>5 DEF Read, CoreTyped
    <2>3. ops' \in 0..MaxOps /\ UNCHANGED <<wk, late, wires, retries, faults>>
      BY <1>5, AskTyped DEF Read
    <2>4. ActorsTyped'
      BY <1>1, <2>2, <2>3 DEF ActorsTyped
    <2> QED
      BY <2>1, <2>3, <2>4, Nothing, Rest
  <1>6. CASE Assign
    <2>1. /\ owner' = desk.to /\ run' \in {0, run} /\ leaseOver' \in {FALSE, leaseOver}
          /\ deferred' \in {FALSE, deferred} /\ blocked' \in {"other", blocked} /\ desk' = NoRequest
          /\ UNCHANGED <<status, text, attempt, execRows, jobRows, commits, attempts>>
          /\ UNCHANGED <<wk, late, wires, retries, ops, faults>>
      BY <1>6 DEF Assign, HoldAttempt
    <2>2. owner' \in Owner
      BY <1>1, <2>1 DEF ActorsTyped
    <2>3. CoreTyped'
      BY <1>1, <1>2, <2>1, <2>2 DEF CoreTyped, execRows, jobRows
    <2>4. ActorsTyped'
      BY <1>1, <1>3, <2>1 DEF ActorsTyped
    <2> QED
      BY <2>1, <2>3, <2>4, Nothing, Rest
  <1>7. CASE Redo
    <2>1. /\ status' = "in_progress" /\ run' = 0 /\ leaseOver' = FALSE
          /\ deferred' \in {FALSE, deferred} /\ blocked' \in {"other", blocked} /\ desk' = NoRequest
          /\ UNCHANGED <<owner, text, attempt, execRows, jobRows, commits, attempts>>
          /\ UNCHANGED <<wk, late, wires, retries, ops, faults>>
      BY <1>7 DEF Redo, HoldAttempt
    <2>2. CoreTyped'
      BY <1>1, <1>2, <2>1 DEF CoreTyped, Task, execRows, jobRows
    <2>3. ActorsTyped'
      BY <1>1, <1>3, <2>1 DEF ActorsTyped
    <2> QED
      BY <2>1, <2>2, <2>3, Nothing, Rest
  <1> QED
    BY <1>2, <1>4, <1>5, <1>6, <1>7

LEMMA NextSteps ==
    ASSUME Inv, [Next]_vars PROVE Keeps \/ \E w \in Worker : CallProvider(w)
  <1>1. ASSUME NEW w \in Worker, Work(w) PROVE Keeps \/ CallProvider(w)
    BY <1>1, ClaimRunKeeps, StopKeeps, RequestKeeps DEF Work
  <1>2. CASE OwnerRequest
    BY <1>2, SetStatusKeeps, RetryBlockedKeeps, RequestsKeep DEF OwnerRequest
  <1>3. CASE UNCHANGED vars
    <2>1. UNCHANGED core /\ UNCHANGED <<wk, late, desk, wires, retries, ops, faults>>
      BY <1>3 DEF vars
    <2>2. CoreTyped' /\ UNCHANGED jobRows
      BY <2>1, CoreStays
    <2>3. ActorsTyped'
      BY <2>1 DEF Inv, TypeOK, ActorsTyped
    <2> QED
      BY <2>1, <2>2, <2>3, Nothing, Rest
  <1> QED
    BY <1>1, <1>2, <1>3, ClockKeeps, StopKeeps, UnansweredKeeps, ClaimUnansweredKeeps,
       LateArrivesKeeps, DispatchExpiresKeeps DEF Next

LEMMA NextKeeps == ASSUME Inv, [Next]_vars PROVE Inv'
  BY NextSteps, CallProviderKeeps DEF Keeps

LEMMA InitInv == ASSUME Init PROVE Inv
  <1>1. 0 \in 0..MaxRuns /\ 0 \in 0..MaxAttempts /\ 0 \in 0..MaxOps /\ 0 \in 0..MaxFaults
    BY TaskAssumption DEF TaskAssumption
  <1>2. "human" \in Owner /\ owner \in Owner /\ <<0, "human">> \in Input
    BY DEF Init, Owner, Input
  <1>3. CoreTyped
    BY <1>1, <1>2 DEF Init, CoreTyped, Task, JobStatus
  <1>4. \A w \in Worker : wk[w] \in WorkerState /\ wk[w].pc = "idle"
    <2>1. ASSUME NEW w \in Worker PROVE AgentOf[w] \in Agent /\ Idle(AgentOf[w]) \in WorkerState
      BY IdleTyped, TaskAssumption DEF TaskAssumption
    <2> QED
      BY <2>1 DEF Init, Idle
  <1>5. ActorsTyped
    BY <1>1, <1>2, <1>4 DEF Init, ActorsTyped, NoRequest
  <1>6. Actors /\ Apart
    BY <1>4 DEF Init, Actors, Apart, Engaged, GrantOpen, Answers
  <1>7. Books
    BY DEF Init, Books, Open
  <1>8. Chain
    BY DEF Init, Chain
  <1> QED
    BY <1>3, <1>5, <1>6, <1>7, <1>8 DEF Inv, TypeOK

-----------------------------------------------------------------------------
(* The theorems                                                            *)

LEMMA Invariance == Spec => []Inv
  <1>1. Inv /\ [Next]_vars => Inv'
    BY NextKeeps
  <1> QED
    BY InitInv, <1>1, PTL DEF Spec

\* Every variable keeps to its range: the task row, the rows of the jobs and
\* the workers (agentRunId, task_agent_execution, agent_task_llm_job).
THEOREM Typed == Spec => []TypeOK
  <1>1. Inv => TypeOK
    BY DEF Inv
  <1> QED
    BY <1>1, Invariance, PTL

\* No job is sent to its provider twice, and a fallback model only after a
\* rejection (claimDispatch, callModel), for any number of workers and faults.
THEOREM OneWire == Spec => []OneWirePerJob
  <1>1. ASSUME Inv PROVE OneWirePerJob
    <2> SUFFICES ASSUME NEW j \in Job
                 PROVE  /\ wires[j] <= 1
                        /\ wires[j] = 1 /\ j[2][2] > 1 => job[<<j[1], <<j[2][1], j[2][2] - 1>>>>] = "rejected"
      BY DEF OneWirePerJob
    <2>1. wires[j] \in {0, 1} /\ (wires[j] = 1 => job[j] # "none")
      BY <1>1 DEF Inv, Books, Open
    <2>2. j[2][2] > 1 /\ job[j] # "none" => job[Before(j)] = "rejected"
      BY <1>1 DEF Inv, Chain
    <2> QED
      BY <2>1, <2>2 DEF Before
  <1> QED
    BY <1>1, Invariance, PTL

\* An unknown outcome is never reissued, released or cancelled, only settled by
\* the provider's evidence (complete, cancelUndispatchedTaskLlmJobs).
THEOREM UnknownKept == Spec => UnknownIsFinal
  <1> DEFINE Final == \A j \in Job : job[j] = "unknown" => job'[j] \in {"unknown", "succeeded", "rejected"}
  <1>1. ASSUME Inv, Next PROVE Final
    <2>1. CASE UNCHANGED jobRows
      BY <2>1 DEF jobRows
    <2>2. CASE Effect
      <3> USE <1>1 DEF Inv, TypeOK, CoreTyped, Open
      <3>1. ASSUME NEW j \in Job, Reserve(j) PROVE Final
        BY <3>1 DEF Reserve
      <3>2. ASSUME NEW j \in Job, Settle(j) PROVE Final
        BY <3>2 DEF Settle
      <3>3. ASSUME NEW j \in Job, NEW r \in 1..MaxRuns, Grant(j, r) PROVE Final
        BY <3>3 DEF Grant
      <3>4. ASSUME NEW S \in SUBSET Job, Lose(S) PROVE Final
        BY <3>4 DEF Lose
      <3>5. ASSUME NEW S \in SUBSET Job, Cancel(S) PROVE Final
        BY <3>5 DEF Cancel
      <3> QED
        BY <2>1, <2>2, <3>1, <3>2, <3>3, <3>4, <3>5 DEF Effect
    <2>3. Keeps \/ UNCHANGED jobRows
      BY <1>1, NextSteps, CallProviderKeeps
    <2> QED
      BY <2>1, <2>2, <2>3 DEF Keeps
  <1>2. Inv /\ [Next]_vars => [Final]_vars
    BY <1>1
  <1>3. UnknownIsFinal <=> [][Final]_vars
    BY DEF UnknownIsFinal
  <1> QED
    BY <1>2, <1>3, Invariance, PTL DEF Spec

LEMMA EffectCalls ==
    ASSUME Inv, Effect, wires' = wires PROVE [Calls!Next]_(Calls!vars)
  <1> DEFINE sent == {j \in Job : wires[j] > 0}
  <1> USE DEF Inv, TypeOK, CoreTyped, ActorsTyped
  <1>1. sent' = sent
    OBVIOUS
  <1>2. ASSUME UNCHANGED spend PROVE UNCHANGED Calls!vars
    BY <1>1, <1>2 DEF Calls!vars
  <1>3. ASSUME NEW j \in Job, Reserve(j) PROVE [Calls!Next]_(Calls!vars)
    <2>1. CASE spend' = [spend EXCEPT ![j] = "reserved"]
      <3>1. spend[j] = "none"
        BY <1>3 DEF Reserve, Books
      <3>2. {j} \in SUBSET {c \in Job : spend[c] = "none"}
        BY <3>1
      <3>3. spend' = [c \in Job |-> IF c \in {j} THEN "reserved" ELSE spend[c]]
        BY <2>1
      <3> QED
        BY <1>1, <3>2, <3>3 DEF Calls!Hold, Calls!Next
    <2> QED
      BY <1>2, <1>3, <2>1 DEF Reserve
  <1>4. ASSUME NEW j \in Job, Settle(j) PROVE [Calls!Next]_(Calls!vars)
    <2>1. spend[j] = "reserved" /\ j \in sent /\ spend' = [spend EXCEPT ![j] = "settled"]
      BY <1>4 DEF Settle, Books
    <2> QED
      BY <1>1, <2>1 DEF Calls!Keep, Calls!Next
  <1>5. ASSUME NEW S \in SUBSET Job, Cancel(S) PROVE [Calls!Next]_(Calls!vars)
    <2> DEFINE T == {j \in S : job[j] = "ready"}
    <2>1. \A j \in T : spend[j] = "reserved" /\ j \notin sent
      BY DEF Books, Open
    <2>2. T \in SUBSET {c \in Job : spend[c] = "reserved" /\ c \notin sent}
      BY <2>1
    <2>3. spend' = [c \in Job |-> IF c \in T THEN "released" ELSE spend[c]]
      BY <1>5 DEF Cancel
    <2> QED
      BY <1>1, <2>2, <2>3 DEF Calls!Return, Calls!Next
  <1>6. ASSUME NEW j \in Job, NEW r \in 1..MaxRuns, Grant(j, r) PROVE UNCHANGED spend
    BY <1>6 DEF Grant
  <1>7. ASSUME NEW S \in SUBSET Job, Lose(S) PROVE UNCHANGED spend
    BY <1>7 DEF Lose
  <1>8. CASE UNCHANGED jobRows
    BY <1>2, <1>8 DEF jobRows
  <1> QED
    BY <1>2, <1>3, <1>4, <1>5, <1>6, <1>7, <1>8 DEF Effect

LEMMA SendCalls ==
    ASSUME Inv, NEW w \in Worker, CallProvider(w) PROVE Calls!Next
  <1>1. PICK c \in WorkerState : c = wk[w]
    BY WorkerTyped
  <1> DEFINE j == MyJob(c)
             sent == {k \in Job : wires[k] > 0}
  <1>2. c.pc = "granted" /\ Engaged(c) /\ GrantOpen(c) /\ wires' = [wires EXCEPT ![j] = @ + 1]
    BY <1>1, WorkerTyped DEF CallProvider
  <1>3. j \in Job /\ wires[j] = 0 /\ job[j] \in Open
    BY <1>2, MyJobTyped DEF GrantOpen
  <1>4. spend[j] = "reserved" /\ wires \in [Job -> Nat]
    BY <1>3 DEF Inv, TypeOK, ActorsTyped, Books
  <1>5. j \notin sent /\ sent' = sent \union {j}
    BY <1>2, <1>3, <1>4
  <1>6. UNCHANGED spend
    BY DEF CallProvider, core, jobRows
  <1> QED
    BY <1>3, <1>4, <1>5, <1>6 DEF Calls!Send, Calls!Next

\* The executions of a task implement MeteredCalls: a reservation is held for
\* each call that is made, kept after it and returned only without it.
THEOREM Metered == Spec => ImplementsMeteredCalls
  <1>1. Init => Calls!Init
    BY DEF Init, Calls!Init
  <1>2. ASSUME Inv, [Next]_vars PROVE [Calls!Next]_(Calls!vars)
    <2>1. CASE Keeps
      BY <1>2, <2>1, EffectCalls DEF Keeps
    <2>2. ASSUME NEW w \in Worker, CallProvider(w) PROVE [Calls!Next]_(Calls!vars)
      BY <1>2, <2>2, SendCalls
    <2> QED
      BY <1>2, <2>1, <2>2, NextSteps
  <1>3. Inv /\ [Next]_vars => [Calls!Next]_(Calls!vars)
    BY <1>2
  <1> QED
    BY <1>1, <1>3, Invariance, PTL DEF Spec, ImplementsMeteredCalls, Calls!Spec

-----------------------------------------------------------------------------
(* The plan of an attempt                                                  *)

\* A step of the plan has its result: a model succeeded or the last was rejected.
StepDone(a, s) ==
    \E m \in 1..Models : \/ job[<<a, <<s, m>>>>] = "succeeded"
                         \/ m = Models /\ job[<<a, <<s, m>>>>] = "rejected"

\* Everything the plan asks for before this slot has its result.
Reached(a, slot) ==
    /\ \A m \in 1..(slot[2] - 1) : job[<<a, <<slot[1], m>>>>] = "rejected"
    /\ \A s \in 1..(slot[1] - 1) : StepDone(a, s)

\* The jobs of an attempt are the path of its plan up to one slot ...
Line == \A j \in Job : job[j] # "none" => Reached(j[1], j[2])

\* ... and whoever works at a slot has come along that path.
Planned(c) == c.pc \in {"claimed", "ensure", "dispatch", "granted", "complete"} => Reached(c.att, c.slot)

\* A denial under the current run leaves nothing reserved, and what it waits
\* for goes on waiting unless the owner closes the task.
Denied(c) ==
    c.pc = "release" /\ c.reason = "budget_denied" /\ run = c.run =>
        /\ \A j \in Job : job[j] # "ready"
        /\ "status" \notin Requests =>
              execStatus[c.att] = "active" /\ \E j \in Job : j[1] = c.att /\ job[j] = "waiting_budget"

Actor == {wk[w] : w \in Worker} \union late

\* A call of ensure or release that was given up has no rival under its run.
Alone ==
    \A c \in late :
        /\ c.pc = "release" => \A w \in Worker : wk[w].pc # "idle" => wk[w].run # c.run
        /\ c.pc = "ensure" =>
              /\ \A w \in Worker : wk[w].pc # "idle" /\ wk[w].run = c.run =>
                                  wk[w].pc = "release" /\ wk[w].reason = "none"
              /\ \A d \in late : d.pc = "release" /\ d.run = c.run => d.reason = "none"

\* Paid calls and commits belong to attempts given out, and only the owner's
\* retry makes room for another one unless a closing interferes.
Issued ==
    /\ attempt <= attempts
    /\ \A j \in Job : wires[j] > 0 => j[1] <= attempts
    /\ \A a \in Attempt : commits[a] > 0 => a <= attempts
    /\ "status" \notin Requests => attempts <= retries + (IF attempt = 0 THEN 0 ELSE 1)

Pending == {"ready", "waiting_budget"}

\* What is not dispatched belongs to the attempt of the task, which is active.
Anchored == \A j \in Job : job[j] \in Pending => j[1] = attempt /\ execStatus[attempt] = "active"

Minded(c) == Planned(c) /\ Denied(c) /\ (c.pc # "idle" => c.att <= attempts)

PlanInv == /\ Line /\ Anchored /\ Alone /\ Issued
        /\ \A c \in Actor : Minded(c)

\* A result is final.
LEMMA EffectFinal ==
    ASSUME Inv, Effect, NEW j \in Job
    PROVE  job[j] \in {"succeeded", "rejected"} => job'[j] = job[j]
  <1> USE DEF Inv, TypeOK, CoreTyped, JobStatus, Terminal, Open
  <1> DEFINE Kept == job[j] \in {"succeeded", "rejected"} => job'[j] = job[j]
  <1>1. CASE UNCHANGED jobRows
    BY <1>1 DEF jobRows
  <1>2. ASSUME NEW k \in Job, Reserve(k) PROVE Kept
    BY <1>2 DEF Reserve
  <1>3. ASSUME NEW k \in Job, Settle(k) PROVE Kept
    BY <1>3 DEF Settle
  <1>4. ASSUME NEW k \in Job, NEW r \in 1..MaxRuns, Grant(k, r) PROVE Kept
    BY <1>4 DEF Grant
  <1>5. ASSUME NEW S \in SUBSET Job, Lose(S) PROVE Kept
    BY <1>5 DEF Lose
  <1>6. ASSUME NEW S \in SUBSET Job, Cancel(S) PROVE Kept
    BY <1>6 DEF Cancel
  <1> QED
    BY <1>1, <1>2, <1>3, <1>4, <1>5, <1>6 DEF Effect

\* So a slot once reached stays reached.
LEMMA ReachedStays ==
    ASSUME Inv, \A j \in Job : job[j] \in {"succeeded", "rejected"} => job'[j] = job[j],
           NEW a \in Attempt, NEW slot \in Slot, Reached(a, slot)
    PROVE  Reached(a, slot)'
  <1>1. slot[1] \in 1..Steps /\ slot[2] \in 1..Models /\ Steps \in Nat /\ Models \in Nat
    BY TaskAssumption DEF TaskAssumption, Slot
  <1>2. ASSUME NEW m \in 1..(slot[2] - 1) PROVE job'[<<a, <<slot[1], m>>>>] = "rejected"
    <2>1. m \in 1..Models
      BY <1>1
    <2>2. <<a, <<slot[1], m>>>> \in Job
      BY <1>1, <2>1 DEF Job, Slot
    <2> QED
      BY <2>2 DEF Reached
  <1>3. ASSUME NEW s \in 1..(slot[1] - 1) PROVE StepDone(a, s)'
    <2>1. s \in 1..Steps
      BY <1>1
    <2>2. PICK m \in 1..Models : \/ job[<<a, <<s, m>>>>] = "succeeded"
                                 \/ m = Models /\ job[<<a, <<s, m>>>>] = "rejected"
      BY DEF Reached, StepDone
    <2>3. <<a, <<s, m>>>> \in Job
      BY <2>1 DEF Job, Slot
    <2> QED
      BY <2>2, <2>3 DEF StepDone
  <1> QED
    BY <1>2, <1>3 DEF Reached

\* Two slots of a path cannot both be without a result: whoever reached the
\* second has seen the result of the first.
LEMMA LineSequential ==
    ASSUME Inv, Line, NEW a \in Attempt, NEW s \in Slot, NEW t \in Slot, Reached(a, s), Reached(a, t),
           job[<<a, s>>] \notin {"succeeded", "rejected"}, job[<<a, t>>] \notin {"succeeded", "rejected"}
    PROVE  s = t
  <1>1. /\ s[1] \in 1..Steps /\ s[2] \in 1..Models /\ t[1] \in 1..Steps /\ t[2] \in 1..Models
        /\ Steps \in Nat /\ Models \in Nat
    BY TaskAssumption DEF TaskAssumption, Slot
  <1>2. s = <<s[1], s[2]>> /\ t = <<t[1], t[2]>>
    BY DEF Slot
  <1>4. ASSUME NEW u \in Slot, NEW v \in Slot, Reached(a, u), Reached(a, v), u[1] = v[1], u[2] < v[2],
               job[<<a, u>>] \notin {"succeeded", "rejected"}
        PROVE  FALSE
    <2>1. u = <<v[1], u[2]>> /\ u[2] \in 1..(v[2] - 1)
      BY <1>1, <1>4 DEF Slot
    <2> QED
      BY <1>4, <2>1 DEF Reached
  <1>5. ASSUME NEW u \in Slot, NEW v \in Slot, Reached(a, u), Reached(a, v), u[1] < v[1],
               job[<<a, u>>] \notin {"succeeded", "rejected"}
        PROVE  FALSE
    <2>1. /\ u[1] \in 1..(v[1] - 1) /\ u = <<u[1], u[2]>> /\ <<a, u>> \in Job
          /\ u[1] \in 1..Steps /\ u[2] \in 1..Models
      BY <1>1, <1>5 DEF Slot, Job
    <2>2. PICK m \in 1..Models : \/ job[<<a, <<u[1], m>>>>] = "succeeded"
                                 \/ m = Models /\ job[<<a, <<u[1], m>>>>] = "rejected"
      BY <1>5, <2>1 DEF Reached, StepDone
    <2>3. CASE m = u[2]
      BY <1>5, <2>1, <2>2, <2>3
    <2>4. CASE m < u[2]
      <3>1. m \in 1..(u[2] - 1) /\ m # Models
        BY <1>1, <2>1, <2>4
      <3>2. job[<<a, <<u[1], m>>>>] = "rejected"
        BY <1>5, <3>1 DEF Reached
      <3> QED
        BY <2>2, <3>1, <3>2
    <2>5. CASE m > u[2]
      <3>1. <<a, <<u[1], m>>>> \in Job
        BY <2>1 DEF Job, Slot
      <3>2. Reached(a, <<u[1], m>>)
        BY <2>2, <3>1 DEF Line
      <3>3. u[2] \in 1..(m - 1)
        BY <1>1, <2>1, <2>5
      <3>4. job[<<a, <<u[1], u[2]>>>>] = "rejected"
        BY <3>2, <3>3 DEF Reached
      <3> QED
        BY <1>5, <2>1, <3>4
    <2> QED
      BY <1>1, <2>1, <2>3, <2>4, <2>5
  <1>6. s[1] = t[1] /\ s[2] = t[2]
    <2>1. ~(s[1] < t[1]) /\ ~(t[1] < s[1])
      BY <1>5
    <2>2. s[1] = t[1]
      BY <1>1, <2>1
    <2>3. ~(s[2] < t[2]) /\ ~(t[2] < s[2])
      BY <1>4, <2>2
    <2> QED
      BY <1>1, <2>2, <2>3
  <1> QED
    BY <1>2, <1>6

-----------------------------------------------------------------------------
(* What a step does to what is not yet dispatched                           *)

\* d asks for the job j under the current run of the task.
Asks(d, j) == d.pc = "ensure" /\ Fence(d) /\ Executable(d) /\ j = MyJob(d)

Law ==
    /\ run' \in {run, 0} \/ ~Known(run')
    /\ \A j \in Job : job[j] \in {"none", "waiting_budget"} /\ job'[j] \notin {job[j], "cancelled"} =>
          \E d \in Actor : Asks(d, j) /\ UNCHANGED <<run, attempt, execStatus>>
    /\ attempt' # attempt => \A j \in Job : job'[j] \notin Pending
    /\ \A j \in Job : job'[j] \in Pending /\ execStatus[j[1]] = "active" => execStatus'[j[1]] = "active"
    /\ \A a \in Attempt : commits'[a] > 0 => commits[a] > 0 \/ \E d \in Actor : d.pc # "idle" /\ d.att = a
    /\ attempts' \in Nat /\ attempts <= attempts' /\ attempt' <= attempts'
    /\ "status" \notin Requests =>
          /\ attempts' <= retries' + (IF attempt' = 0 THEN 0 ELSE 1)
          /\ run' = 0 \/ \A j \in Job : job[j] = "waiting_budget" =>
                /\ job'[j] # "cancelled"
                /\ execStatus[j[1]] = "active" => execStatus'[j[1]] = "active"

LEMMA LawStill ==
    ASSUME Inv, PlanInv, run' \in {run, 0} \/ ~Known(run'),
           UNCHANGED <<attempt, attempts, execStatus, job, commits, retries>>
    PROVE  Law
  <1>1. attempt \in Nat /\ attempts \in Nat
    BY TaskAssumption DEF TaskAssumption, Inv, TypeOK, CoreTyped
  <1> QED
    BY <1>1 DEF Law, Pending, PlanInv, Issued

\* The task is blocked or nothing happens to it.
LEMMA BlockLaw ==
    ASSUME Inv, PlanInv, Block \/ UNCHANGED taskRow, UNCHANGED <<execStatus, job, commits, attempts, retries>>
    PROVE  Law
  <1>1. run' \in {run, 0} /\ attempt' = attempt
    BY DEF Block, Unlease, taskRow
  <1> QED
    BY <1>1, LawStill

LEMMA StartLaw ==
    ASSUME Inv, PlanInv, NEW c \in WorkerState, c.att \in Attempt, NEW res, StartAgentRun(c, res), retries' = retries
    PROVE  Law
  <1> USE DEF StartAgentRun
  <1>1. UNCHANGED <<job, commits, attempts>>
    BY DEF jobRows
  <1>2. CASE UNCHANGED <<taskRow, execRows>>
    BY <1>1, <1>2, BlockLaw DEF execRows
  <1>3. CASE Block /\ UNCHANGED execRows
    BY <1>1, <1>3, BlockLaw DEF execRows
  <1>4. CASE /\ execStatus[c.att] = "none"
             /\ execStatus' = [execStatus EXCEPT ![c.att] = "active"]
             /\ UNCHANGED taskRow
    <2>1. \A a \in Attempt : execStatus[a] = "active" => execStatus'[a] = "active"
      BY <1>4 DEF Inv, TypeOK, CoreTyped
    <2>2. \A j \in Job : j[1] \in Attempt
      BY DEF Job
    <2>3. run' = run /\ attempt' = attempt /\ attempts \in Nat
      BY <1>4, TaskAssumption DEF taskRow, TaskAssumption, Inv, TypeOK, CoreTyped
    <2> QED
      BY <1>1, <2>1, <2>2, <2>3 DEF Law, Pending, PlanInv, Issued
  <1> QED
    BY <1>1, <1>2, <1>3, <1>4

LEMMA EnsureLaw ==
    ASSUME Inv, PlanInv, NEW c \in WorkerState, c \in Actor, c.pc = "ensure", MyJob(c) \in Job,
           NEW res, Ensure(c, res), retries' = retries
    PROVE  Law
  <1> DEFINE j == MyJob(c)
  <1> USE DEF Ensure, Authorise
  <1>1. UNCHANGED <<execStatus, commits, attempts>> /\ attempt \in Nat /\ attempts \in Nat
    BY TaskAssumption DEF TaskAssumption, execRows, Inv, TypeOK, CoreTyped
  <1>2. CASE UNCHANGED <<taskRow, job>>
    BY <1>1, <1>2, BlockLaw
  <1>3. CASE Block /\ UNCHANGED job
    BY <1>1, <1>3, BlockLaw
  <1>4. CASE Fence(c) /\ Executable(c) /\ job' = [job EXCEPT ![j] = res] /\ UNCHANGED taskRow
    <2>1. Asks(c, j)
      BY <1>4 DEF Asks
    <2>2. \A k \in Job : k # j => job'[k] = job[k]
      BY <1>4 DEF Inv, TypeOK, CoreTyped
    <2>3. run' = run /\ attempt' = attempt
      BY <1>4 DEF taskRow
    <2>4. job[j] \in {"none", "waiting_budget"} => job'[j] # "cancelled"
      BY <1>4 DEF Inv, TypeOK, CoreTyped, Fence, FallbackConflict
    <2> QED
      BY <1>1, <2>1, <2>2, <2>3, <2>4 DEF Law, Pending, PlanInv, Issued
  <1> QED
    BY <1>2, <1>3, <1>4

LEMMA DispatchLaw ==
    ASSUME Inv, PlanInv, NEW c \in WorkerState, MyJob(c) \in Job, NEW res, ClaimDispatch(c, res), retries' = retries
    PROVE  Law
  <1> DEFINE j == MyJob(c)
  <1> USE DEF ClaimDispatch
  <1>1. UNCHANGED <<execStatus, commits, attempts>> /\ attempt \in Nat /\ attempts \in Nat
    BY TaskAssumption DEF TaskAssumption, execRows, Inv, TypeOK, CoreTyped
  <1>2. CASE UNCHANGED <<taskRow, job>>
    BY <1>1, <1>2, BlockLaw
  <1>3. CASE Block /\ UNCHANGED job
    BY <1>1, <1>3, BlockLaw
  <1>4. CASE job[j] = "ready" /\ job' = [job EXCEPT ![j] = "dispatching"] /\ UNCHANGED taskRow
    <2>1. run' = run /\ attempt' = attempt
      BY <1>4 DEF taskRow
    <2>2. \A k \in Job : k # j => job'[k] = job[k]
      BY <1>4 DEF Inv, TypeOK, CoreTyped
    <2> QED
      BY <1>1, <1>4, <2>1, <2>2 DEF Law, Pending, PlanInv, Issued
  <1> QED
    BY <1>2, <1>3, <1>4

LEMMA CompleteLaw ==
    ASSUME Inv, PlanInv, NEW c \in WorkerState, MyJob(c) \in Job, NEW res, Complete(c, res), retries' = retries
    PROVE  Law
  <1> DEFINE j == MyJob(c)
  <1> USE DEF Complete
  <1>1. UNCHANGED <<execStatus, commits, attempts>> /\ attempt \in Nat /\ attempts \in Nat
    BY TaskAssumption DEF TaskAssumption, execRows, Inv, TypeOK, CoreTyped
  <1>2. run' = run /\ attempt' = attempt
    BY DEF taskRow
  <1>3. CASE UNCHANGED job
    BY <1>1, <1>2, <1>3, LawStill
  <1>4. CASE /\ job[j] \in {"dispatching", "unknown"}
             /\ \E goal \in {"succeeded", "rejected", "unknown"} : job' = [job EXCEPT ![j] = goal]
    <2>1. \A k \in Job : k # j => job'[k] = job[k]
      BY <1>4 DEF Inv, TypeOK, CoreTyped
    <2>2. job'[j] \in {"succeeded", "rejected", "unknown"}
      BY <1>4 DEF Inv, TypeOK, CoreTyped
    <2> QED
      BY <1>1, <1>2, <1>4, <2>1, <2>2 DEF Law, Pending, PlanInv, Issued
  <1> QED
    BY <1>3, <1>4 DEF WorkerState

LEMMA CheckpointLaw ==
    ASSUME Inv, PlanInv, NEW c \in WorkerState, c.att \in Attempt, NEW res, CheckpointAgentRun(c, res), retries' = retries
    PROVE  Law
  <1> USE DEF CheckpointAgentRun
  <1>1. UNCHANGED <<job, commits, attempts>> /\ attempt \in Nat /\ attempts \in Nat
    BY TaskAssumption DEF TaskAssumption, jobRows, Inv, TypeOK, CoreTyped
  <1>2. CASE UNCHANGED <<taskRow, execStatus>>
    BY <1>1, <1>2, BlockLaw
  <1>3. CASE Block /\ UNCHANGED execStatus
    BY <1>1, <1>3, BlockLaw
  <1>4. CASE Finished(c.att) /\ execStatus' = [execStatus EXCEPT ![c.att] = "ready"] /\ UNCHANGED taskRow
    <2>1. \A j \in Job : j[1] = c.att => job[j] \notin {"ready", "waiting_budget"}
      BY <1>4 DEF Finished, JobsOf, Terminal
    <2>2. \A a \in Attempt : a # c.att => execStatus'[a] = execStatus[a]
      BY <1>4 DEF Inv, TypeOK, CoreTyped
    <2>3. run' = run /\ attempt' = attempt /\ \A j \in Job : j[1] \in Attempt
      BY <1>4 DEF taskRow, Job
    <2> QED
      BY <1>1, <2>1, <2>2, <2>3 DEF Law, Pending, PlanInv, Issued
  <1> QED
    BY <1>2, <1>3, <1>4

LEMMA CommitLaw ==
    ASSUME Inv, PlanInv, NEW c \in WorkerState, c \in Actor, c.pc # "idle", c.att \in Attempt,
           NEW res, CommitAgentRun(c, res), retries' = retries
    PROVE  Law
  <1> USE DEF CommitAgentRun, Capped, CommitEffects
  <1>1. UNCHANGED <<job, attempts>> /\ attempt \in Nat /\ attempts \in Nat
    BY TaskAssumption DEF TaskAssumption, jobRows, Inv, TypeOK, CoreTyped
  <1>2. CASE UNCHANGED <<taskRow, execStatus, commits>>
    BY <1>1, <1>2, BlockLaw
  <1>3. CASE Block /\ UNCHANGED <<execStatus, commits>>
    BY <1>1, <1>3, BlockLaw
  <1>4. CASE Unlease /\ UNCHANGED <<execStatus, commits>> /\ UNCHANGED attempt
    BY <1>1, <1>4, LawStill DEF Unlease
  <1>5. CASE /\ run' = 0 /\ execStatus[c.att] = "ready"
             /\ execStatus' = [execStatus EXCEPT ![c.att] = "committed"]
             /\ commits' = [commits EXCEPT ![c.att] = @ + 1] /\ UNCHANGED attempt
    <2>1. \A a \in Attempt : execStatus[a] = "active" => execStatus'[a] = "active"
      BY <1>5 DEF Inv, TypeOK, CoreTyped
    <2>2. \A a \in Attempt : a # c.att => commits'[a] = commits[a]
      BY <1>5 DEF Inv, TypeOK, CoreTyped
    <2>3. \A j \in Job : j[1] \in Attempt
      BY DEF Job
    <2> QED
      BY <1>1, <1>5, <2>1, <2>2, <2>3 DEF Law, Pending, PlanInv, Issued
  <1> QED
    BY <1>1, <1>2, <1>3, <1>4, <1>5

LEMMA ReleaseLaw ==
    ASSUME Inv, PlanInv, NEW c \in WorkerState, c \in Actor, c.pc = "release", c.att \in Attempt,
           NEW res, ReleaseAgentRun(c, res), retries' = retries
    PROVE  Law
  <1>1. UNCHANGED <<execStatus, commits, attempts>> /\ attempt \in Nat /\ attempts \in Nat
    BY TaskAssumption DEF TaskAssumption, execRows, Inv, TypeOK, CoreTyped, ReleaseAgentRun
  <1>2. CASE UNCHANGED <<taskRow, job>>
    BY <1>1, <1>2, BlockLaw
  <1>3. CASE /\ Fence(c)
             /\ job' = [j \in Job |->
                          IF c.reason = "execution_unknown" /\ j \in OpenJobs(c) /\ job[j] = "dispatching"
                          THEN "unknown" ELSE job[j]]
             /\ ReleaseTask(c)
    <2>1. \A j \in Job : job'[j] = job[j] \/ (job[j] = "dispatching" /\ job'[j] = "unknown")
      BY <1>3
    <2>2. run' = 0 /\ attempt' = IF Rotates(c) THEN 0 ELSE attempt
      BY <1>3 DEF ReleaseTask, Unlease
    <2>3. Denied(c) /\ run = c.run
      BY <1>3 DEF PlanInv, Minded, Fence
    <2>4. Rotates(c) => \A j \in Job : job'[j] \notin Pending
      <3>1. \A j \in Job : job[j] = "waiting_budget" => j \in OpenJobs(c)
        BY <1>3 DEF PlanInv, Anchored, Pending, Fence, OpenJobs, JobsOf
      <3> QED
        BY <2>1, <2>3, <3>1 DEF Rotates, Denied, Pending
    <2>5. "status" \notin Requests => ~Rotates(c)
      BY <2>3 DEF Rotates, Denied, OpenJobs, JobsOf
    <2> QED
      BY <1>1, <2>1, <2>2, <2>4, <2>5 DEF Law, Pending, PlanInv, Issued
  <1> QED
    BY <1>2, <1>3 DEF ReleaseAgentRun

LEMMA HandleLaw ==
    ASSUME Inv, PlanInv, NEW c \in Actor, c.pc \notin {"idle", "granted"}, NEW res, Handle(c, res), retries' = retries
    PROVE  Law
  <1>1. c \in WorkerState /\ Engaged(c)
    BY DEF Actor, Inv, TypeOK, ActorsTyped, Actors
  <1>2. c.att \in Attempt /\ MyJob(c) \in Job
    BY <1>1, MyJobTyped
  <1>3. c.pc \in {"claimed", "ensure", "dispatch", "complete", "checkpoint", "commit", "release"}
    BY <1>1 DEF WorkerState
  <1> QED
    BY <1>1, <1>2, <1>3, StartLaw, EnsureLaw, DispatchLaw, CompleteLaw, CheckpointLaw, CommitLaw, ReleaseLaw
       DEF Handle

-----------------------------------------------------------------------------
(* What the others keep                                                     *)

LEMMA EffectSlots ==
    ASSUME Inv, Effect, NEW j \in Job
    PROVE  /\ job'[j] = "ready" => job[j] \in {"ready", "none", "waiting_budget"}
           /\ job'[j] = "waiting_budget" => job[j] \in {"none", "waiting_budget"}
           /\ job[j] = "waiting_budget" => job'[j] \in {"waiting_budget", "ready", "cancelled"}
           /\ job[j] = "none" => job'[j] \in {"none", "waiting_budget", "ready"}
  <1> USE DEF Inv, TypeOK, CoreTyped, JobStatus, Terminal, Open
  <1> DEFINE Goes == /\ job'[j] = "ready" => job[j] \in {"ready", "none", "waiting_budget"}
                     /\ job'[j] = "waiting_budget" => job[j] \in {"none", "waiting_budget"}
                     /\ job[j] = "waiting_budget" => job'[j] \in {"waiting_budget", "ready", "cancelled"}
                     /\ job[j] = "none" => job'[j] \in {"none", "waiting_budget", "ready"}
  <1>1. CASE UNCHANGED jobRows
    BY <1>1 DEF jobRows
  <1>2. ASSUME NEW k \in Job, Reserve(k) PROVE Goes
    BY <1>2 DEF Reserve
  <1>3. ASSUME NEW k \in Job, Settle(k) PROVE Goes
    BY <1>3 DEF Settle
  <1>4. ASSUME NEW k \in Job, NEW r \in 1..MaxRuns, Grant(k, r) PROVE Goes
    BY <1>4 DEF Grant
  <1>5. ASSUME NEW S \in SUBSET Job, Lose(S) PROVE Goes
    BY <1>5 DEF Lose
  <1>6. ASSUME NEW S \in SUBSET Job, Cancel(S) PROVE Goes
    BY <1>6 DEF Cancel
  <1> QED
    BY <1>1, <1>2, <1>3, <1>4, <1>5, <1>6 DEF Effect

LEMMA ActorTyped ==
    ASSUME Inv, NEW c \in Actor
    PROVE  /\ c \in WorkerState /\ Engaged(c)
           /\ c.pc # "idle" => c.run \in 1..MaxRuns /\ c.att \in Attempt /\ MyJob(c) \in Job /\ c.slot \in Slot
  <1>1. c \in WorkerState /\ Engaged(c)
    BY DEF Actor, Inv, TypeOK, ActorsTyped, Actors
  <1> QED
    BY <1>1, MyJobTyped DEF WorkerState

\* Nobody asks for a job under the run of a denial.
LEMMA NoRival ==
    ASSUME Inv, Alone, NEW c \in Actor, NEW d \in Actor,
           c.pc = "release", c.reason = "budget_denied", d.pc = "ensure"
    PROVE  c.run # d.run
  <1>1. CASE c \in late /\ d \in late
    BY <1>1 DEF Alone
  <1>2. ASSUME NEW w \in Worker, d = wk[w], c \in late PROVE c.run # d.run
    BY <1>2 DEF Alone
  <1>3. ASSUME NEW w \in Worker, c = wk[w], d \in late PROVE c.run # d.run
    BY <1>3 DEF Alone
  <1>4. ASSUME NEW v \in Worker, NEW w \in Worker, c = wk[v], d = wk[w] PROVE c.run # d.run
    <2>1. v # w
      BY <1>4
    <2> QED
      BY <1>4, <2>1 DEF Inv, Apart
  <1> QED
    BY <1>1, <1>2, <1>3, <1>4 DEF Actor

LEMMA DeniedStays ==
    ASSUME Inv, PlanInv, Effect, Law, NEW c \in Actor, c.pc # "idle"
    PROVE  Denied(c)'
  <1> SUFFICES ASSUME c.pc = "release", c.reason = "budget_denied", run' = c.run
               PROVE  /\ \A j \in Job : job'[j] # "ready"
                      /\ "status" \notin Requests =>
                            /\ execStatus'[c.att] = "active"
                            /\ \E j \in Job : j[1] = c.att /\ job'[j] = "waiting_budget"
    BY DEF Denied
  <1>1. c.run \in 1..MaxRuns /\ c.run # 0
    BY ActorTyped
  <1>2. Known(c.run)
    BY DEF Known, Actor
  <1>3. run = c.run /\ run' # 0
    BY <1>1, <1>2 DEF Law, Pending
  <1>4. /\ \A j \in Job : job[j] # "ready"
        /\ "status" \notin Requests =>
              execStatus[c.att] = "active" /\ \E j \in Job : j[1] = c.att /\ job[j] = "waiting_budget"
    BY <1>3 DEF PlanInv, Minded, Denied
  <1>5. ASSUME NEW d \in Actor, NEW j \in Job PROVE ~Asks(d, j)
    <2>1. ASSUME Asks(d, j) PROVE FALSE
      BY <1>3, <2>1, NoRival DEF PlanInv, Asks, Fence
    <2> QED
      BY <2>1
  <1>6. \A j \in Job : job[j] \in {"none", "waiting_budget"} => job'[j] \in {job[j], "cancelled"}
    BY <1>5 DEF Law, Pending
  <1>7. \A j \in Job : job'[j] # "ready"
    BY <1>4, <1>6, EffectSlots
  <1>8. ASSUME "status" \notin Requests
        PROVE  execStatus'[c.att] = "active" /\ \E j \in Job : j[1] = c.att /\ job'[j] = "waiting_budget"
    <2>1. PICK j \in Job : j[1] = c.att /\ job[j] = "waiting_budget"
      BY <1>4, <1>8
    <2>2. job'[j] # "cancelled" /\ (execStatus[j[1]] = "active" => execStatus'[j[1]] = "active")
      BY <1>3, <1>8, <2>1 DEF Law, Pending
    <2> QED
      BY <1>4, <1>6, <1>8, <2>1, <2>2
  <1> QED
    BY <1>7, <1>8

\* Whoever does not move keeps what is said of it.
LEMMA MindedStays ==
    ASSUME Inv, PlanInv, Effect, Law, NEW c \in Actor, c.pc # "idle"
    PROVE  Minded(c)'
  <1>1. c.att \in Attempt /\ c.slot \in Slot
    BY ActorTyped
  <1>2. Planned(c)'
    <2>1. Planned(c)
      BY DEF PlanInv, Minded
    <2>2. \A j \in Job : job[j] \in {"succeeded", "rejected"} => job'[j] = job[j]
      BY EffectFinal
    <2> QED
      BY <1>1, <2>1, <2>2, ReachedStays DEF Planned, Reached, StepDone
  <1>3. c.att <= attempts'
    <2>1. c.att <= attempts /\ attempts <= attempts' /\ attempts' \in Nat
      BY DEF PlanInv, Minded, Law
    <2>2. c.att \in Nat /\ attempts \in Nat
      BY <1>1, TaskAssumption DEF TaskAssumption, Attempt, Inv, TypeOK, CoreTyped
    <2> QED
      BY <2>1, <2>2
  <1> QED
    BY <1>2, <1>3, DeniedStays DEF Minded, Planned, Denied, Reached, StepDone

LEMMA LineStays == ASSUME Inv, PlanInv, Effect, Law PROVE Line'
  <1> SUFFICES ASSUME NEW j \in Job, job'[j] # "none" PROVE Reached(j[1], j[2])'
    BY DEF Line, Reached, StepDone
  <1>1. j[1] \in Attempt /\ j[2] \in Slot
    BY DEF Job
  <1>2. Reached(j[1], j[2])
    <2>1. CASE job[j] # "none"
      BY <2>1 DEF PlanInv, Line
    <2>2. CASE job[j] = "none"
      <3>1. PICK d \in Actor : Asks(d, j)
        BY <2>2, EffectSlots DEF Law, Pending
      <3>2. Reached(d.att, d.slot) /\ j = <<d.att, d.slot>>
        BY <3>1 DEF PlanInv, Minded, Planned, Asks, MyJob
      <3> QED
        BY <3>2
    <2> QED
      BY <2>1, <2>2
  <1>3. \A k \in Job : job[k] \in {"succeeded", "rejected"} => job'[k] = job[k]
    BY EffectFinal
  <1> QED
    BY <1>1, <1>2, <1>3, ReachedStays

LEMMA AnchoredStays == ASSUME Inv, PlanInv, Effect, Law PROVE Anchored'
  <1> SUFFICES ASSUME NEW j \in Job, job'[j] \in Pending
               PROVE  j[1] = attempt' /\ execStatus'[attempt'] = "active"
    BY DEF Anchored, Pending
  <1>1. attempt' = attempt
    BY DEF Law
  <1>2. CASE job[j] \in Pending
    BY <1>1, <1>2 DEF PlanInv, Anchored, Law
  <1>3. CASE job[j] \notin Pending
    <2>1. job[j] = "none"
      BY <1>3, EffectSlots DEF Pending
    <2>2. PICK d \in Actor : Asks(d, j) /\ UNCHANGED <<run, attempt, execStatus>>
      BY <2>1 DEF Law, Pending
    <2> QED
      BY <2>2 DEF Asks, Fence, Executable, MyJob
  <1> QED
    BY <1>2, <1>3

LEMMA IssuedStays ==
    ASSUME Inv, PlanInv, Law,
           \A j \in Job : wires'[j] > 0 => wires[j] > 0 \/ \E d \in Actor : d.pc # "idle" /\ d.att = j[1],
           Inv'
    PROVE  Issued'
  <1>1. attempts \in Nat /\ attempts' \in Nat /\ attempts <= attempts'
    BY TaskAssumption DEF TaskAssumption, Inv, TypeOK, CoreTyped, Law
  <1>2. \A d \in Actor : d.pc # "idle" => d.att <= attempts /\ d.att \in Nat
    BY ActorTyped, TaskAssumption DEF TaskAssumption, Attempt, PlanInv, Minded
  <1>3. \A j \in Job : j[1] \in Nat
    BY TaskAssumption DEF TaskAssumption, Job, Attempt
  <1>4. ASSUME NEW j \in Job, wires'[j] > 0 PROVE j[1] <= attempts'
    <2>1. j[1] <= attempts
      BY <1>2, <1>4 DEF PlanInv, Issued
    <2> QED
      BY <1>1, <1>3, <2>1
  <1>5. ASSUME NEW a \in Attempt, commits'[a] > 0 PROVE a <= attempts'
    <2>1. a <= attempts
      BY <1>2, <1>5 DEF PlanInv, Issued, Law
    <2>2. a \in Nat
      BY TaskAssumption DEF TaskAssumption, Attempt
    <2> QED
      BY <1>1, <2>1, <2>2
  <1> QED
    BY <1>4, <1>5 DEF Issued, Law

LEMMA IdleMinded == ASSUME NEW n, n.pc = "idle" PROVE Minded(n)'
  BY DEF Minded, Planned, Denied

\* A step that moves no worker.
LEMMA RestPlan ==
    ASSUME Inv, PlanInv, Inv', Effect, Law, wires' = wires, wk' = wk, late' \subseteq late
    PROVE  PlanInv'
  <1>1. ASSUME NEW c \in Actor' PROVE Minded(c)'
    <2>1. c \in Actor
      BY DEF Actor
    <2> QED
      BY <2>1, MindedStays, IdleMinded
  <1>2. Alone'
    BY DEF PlanInv, Alone
  <1>3. Issued'
    BY IssuedStays
  <1> QED
    BY <1>1, <1>2, <1>3, LineStays, AnchoredStays DEF PlanInv

\* What a worker leaves behind when its call is given up.
Hands(c, n) ==
    /\ c.pc # "idle"
    /\ c.pc = "release" => n.pc = "idle"
    /\ c.pc = "ensure" => n.pc = "idle" \/ (n.pc = "release" /\ n.reason = "none")

LEMMA AloneMoves ==
    ASSUME Inv, Alone, NEW w \in Worker, NEW n, wk' = [wk EXCEPT ![w] = n],
           n.pc # "idle" => \/ wk[w].pc \notin {"idle", "release"} /\ n.run = wk[w].run
                            \/ \A c \in Actor : c.run # n.run,
           late' \subseteq late \union {wk[w]}, late' \subseteq late \/ Hands(wk[w], n)
    PROVE  Alone'
  <1> DEFINE c0 == wk[w]
  <1>1. wk'[w] = n /\ \A v \in Worker : v # w => wk'[v] = wk[v]
    BY DEF Inv, TypeOK, ActorsTyped
  <1>2. \A c \in late : c \in Actor
    BY DEF Actor
  <1>3. ASSUME NEW c \in late', c.pc = "release", NEW v \in Worker, wk'[v].pc # "idle"
        PROVE  wk'[v].run # c.run
    <2>1. CASE c \in late
      <3>1. CASE v = w
        BY <1>1, <1>2, <1>3, <2>1, <3>1 DEF Alone
      <3>2. CASE v # w
        BY <1>1, <1>3, <2>1, <3>2 DEF Alone
      <3> QED
        BY <3>1, <3>2
    <2>2. CASE c \notin late
      <3>1. c = c0 /\ Hands(c0, n)
        BY <1>3, <2>2
      <3>2. v # w
        BY <1>1, <1>3, <3>1 DEF Hands
      <3> QED
        BY <1>1, <1>3, <3>1, <3>2 DEF Inv, Apart, Hands
    <2> QED
      BY <2>1, <2>2
  <1>4. ASSUME NEW c \in late', c.pc = "ensure", NEW v \in Worker, wk'[v].pc # "idle", wk'[v].run = c.run
        PROVE  wk'[v].pc = "release" /\ wk'[v].reason = "none"
    <2>1. CASE c \in late
      <3>1. CASE v = w
        BY <1>1, <1>2, <1>4, <2>1, <3>1 DEF Alone
      <3>2. CASE v # w
        BY <1>1, <1>4, <2>1, <3>2 DEF Alone
      <3> QED
        BY <3>1, <3>2
    <2>2. CASE c \notin late
      <3>1. c = c0 /\ Hands(c0, n)
        BY <1>4, <2>2
      <3>2. v = w
        BY <1>1, <1>4, <3>1 DEF Inv, Apart, Hands
      <3> QED
        BY <1>1, <1>4, <3>1, <3>2 DEF Hands
    <2> QED
      BY <2>1, <2>2
  <1>5. ASSUME NEW c \in late', c.pc = "ensure", NEW d \in late', d.pc = "release", d.run = c.run
        PROVE  d.reason = "none"
    <2>1. CASE c \in late /\ d \in late
      BY <1>5, <2>1 DEF Alone
    <2>2. CASE c \in late /\ d \notin late
      BY <1>5, <2>2 DEF Alone
    <2>3. CASE c \notin late /\ d \in late
      BY <1>5, <2>3 DEF Alone
    <2>4. CASE c \notin late /\ d \notin late
      BY <1>5, <2>4
    <2> QED
      BY <2>1, <2>2, <2>3, <2>4
  <1> QED
    BY <1>3, <1>4, <1>5 DEF Alone

\* A step of one worker, which goes on with its run, takes a fresh one or ends.
LEMMA MovesPlan ==
    ASSUME Inv, PlanInv, Inv', Effect, Law,
           \A j \in Job : wires'[j] > 0 => wires[j] > 0 \/ \E d \in Actor : d.pc # "idle" /\ d.att = j[1],
           NEW w \in Worker, NEW n, wk' = [wk EXCEPT ![w] = n], Minded(n)',
           n.pc # "idle" => \/ wk[w].pc \notin {"idle", "release"} /\ n.run = wk[w].run
                            \/ \A c \in Actor : c.run # n.run,
           late' \subseteq late \union {wk[w]}, late' \subseteq late \/ Hands(wk[w], n)
    PROVE  PlanInv'
  <1>1. ASSUME NEW c \in Actor' PROVE Minded(c)'
    <2>1. c \in Actor \/ c = n
      BY DEF Actor, Inv, TypeOK, ActorsTyped
    <2>2. ASSUME c \in Actor PROVE Minded(c)'
      BY <2>2, MindedStays, IdleMinded
    <2> QED
      BY <2>1, <2>2
  <1>2. Alone'
    BY AloneMoves DEF PlanInv
  <1>3. Issued'
    BY IssuedStays
  <1> QED
    BY <1>1, <1>2, <1>3, LineStays, AnchoredStays DEF PlanInv

-----------------------------------------------------------------------------
(* The steps                                                                *)

\* A result the worker goes on with is the result of its job.
LEMMA HandleResult ==
    ASSUME Inv, NEW c \in Actor, c.pc \in {"ensure", "dispatch", "complete"},
           NEW res \in Usable, Handle(c, res)
    PROVE  job'[MyJob(c)] = res
  <1>1. MyJob(c) \in Job
    BY ActorTyped
  <1>2. job \in [Job -> JobStatus] /\ res \in {"succeeded", "rejected"}
    BY DEF Inv, TypeOK, CoreTyped, Usable
  <1>3. CASE c.pc = "ensure"
    BY <1>1, <1>2, <1>3 DEF Handle, Ensure, Authorise
  <1>4. CASE c.pc = "dispatch"
    BY <1>1, <1>2, <1>4 DEF Handle, ClaimDispatch
  <1>5. CASE c.pc = "complete"
    BY <1>1, <1>2, <1>5 DEF Handle, Complete
  <1> QED
    BY <1>3, <1>4, <1>5

\* With the result of a slot the next one is reached.
LEMMA OnwardReached ==
    ASSUME NEW c \in WorkerState, c.att \in Attempt, NEW res \in Usable, NEW n \in Onward(c, res),
           Reached(c.att, c.slot)', job'[MyJob(c)] = res
    PROVE  Planned(n)' /\ ~(n.pc = "release" /\ n.reason = "budget_denied")
  <1>1. /\ c.slot \in Slot /\ c.slot = <<c.slot[1], c.slot[2]>>
        /\ c.slot[1] \in 1..Steps /\ c.slot[2] \in 1..Models /\ Steps \in Nat /\ Models \in Nat
    BY TaskAssumption DEF TaskAssumption, WorkerState, Slot
  <1>2. job'[<<c.att, <<c.slot[1], c.slot[2]>>>>] = res
    BY <1>1 DEF MyJob
  <1>3. CASE n = Leave(c, "skill_failed")
    BY <1>3 DEF Leave, Goto, WorkerState, Planned
  <1>4. CASE n = Goto(c, "checkpoint")
    BY <1>4 DEF Goto, WorkerState, Planned
  <1>5. CASE res = "rejected" /\ n = [Goto(c, "ensure") EXCEPT !.slot = <<c.slot[1], c.slot[2] + 1>>]
    <2>1. n.pc = "ensure" /\ n.att = c.att /\ n.slot = <<c.slot[1], c.slot[2] + 1>>
      BY <1>5 DEF Goto, WorkerState
    <2>2. ASSUME NEW m \in 1..((c.slot[2] + 1) - 1) PROVE job'[<<c.att, <<c.slot[1], m>>>>] = "rejected"
      <3>1. m = c.slot[2] \/ m \in 1..(c.slot[2] - 1)
        BY <1>1
      <3> QED
        BY <1>2, <1>5, <3>1 DEF Reached
    <2>3. \A s \in 1..(c.slot[1] - 1) : StepDone(c.att, s)'
      BY DEF Reached
    <2> QED
      BY <2>1, <2>2, <2>3 DEF Planned, Reached, StepDone
  <1>6. CASE /\ res = "succeeded" \/ c.slot[2] = Models
             /\ n = [Goto(c, "ensure") EXCEPT !.slot = <<c.slot[1] + 1, 1>>]
    <2>1. n.pc = "ensure" /\ n.att = c.att /\ n.slot = <<c.slot[1] + 1, 1>>
      BY <1>6 DEF Goto, WorkerState
    <2>2. StepDone(c.att, c.slot[1])'
      BY <1>1, <1>2, <1>6 DEF StepDone, Usable
    <2>3. ASSUME NEW s \in 1..((c.slot[1] + 1) - 1) PROVE StepDone(c.att, s)'
      <3>1. s = c.slot[1] \/ s \in 1..(c.slot[1] - 1)
        BY <1>1
      <3>2. \A t \in 1..(c.slot[1] - 1) : StepDone(c.att, t)'
        BY DEF Reached
      <3> QED
        BY <2>2, <3>1, <3>2
    <2>4. \A m \in 1..(1 - 1) : job'[<<c.att, <<c.slot[1] + 1, m>>>>] = "rejected"
      OBVIOUS
    <2> QED
      BY <2>1, <2>3, <2>4 DEF Planned, Reached, StepDone
  <1>7. res = "rejected" /\ ~(c.slot[2] < Models) => c.slot[2] = Models
    BY <1>1
  <1> QED
    BY <1>3, <1>4, <1>5, <1>6, <1>7 DEF Onward, Usable

LEMMA ProceedPlanned ==
    ASSUME NEW c \in WorkerState, c.att \in Attempt, NEW res, NEW n \in Proceed(c, res), Planned(c)',
           c.pc \in {"ensure", "dispatch", "complete"} /\ res \in Usable => job'[MyJob(c)] = res
    PROVE  /\ Planned(n)'
           /\ n.pc = "release" /\ n.reason = "budget_denied" => c.pc = "ensure" /\ res = "waiting_budget"
           /\ n.pc # "idle" => c.pc \in {"claimed", "ensure", "dispatch", "complete", "checkpoint"}
  <1>1. CASE n = Idle(c.agent)
    BY <1>1 DEF Idle, Planned
  <1>2. ASSUME NEW why, n = Leave(c, why)
        PROVE Planned(n)' /\ n.pc = "release" /\ n.reason = why
    BY <1>2 DEF Leave, Goto, WorkerState, Planned
  <1>3. ASSUME n = Goto(c, "commit") PROVE Planned(n)' /\ n.pc = "commit"
    BY <1>3 DEF Goto, WorkerState, Planned
  <1>4. ASSUME NEW pc \in {"ensure", "dispatch", "granted"}, n = Goto(c, pc),
               c.pc \in {"claimed", "ensure", "dispatch"}
        PROVE Planned(n)' /\ n.pc # "release"
    BY <1>4 DEF Goto, WorkerState, Planned, Reached, StepDone
  <1>5. ASSUME n \in Onward(c, res), res \in Usable, c.pc \in {"ensure", "dispatch", "complete"}
        PROVE Planned(n)' /\ ~(n.pc = "release" /\ n.reason = "budget_denied")
    BY <1>5, OnwardReached DEF Planned
  <1>6. CASE c.pc = "claimed"
    BY <1>1, <1>3, <1>4, <1>6 DEF Proceed, Idle, Goto
  <1>7. CASE c.pc = "ensure"
    BY <1>2, <1>4, <1>5, <1>7 DEF Proceed
  <1>8. CASE c.pc = "dispatch"
    BY <1>2, <1>4, <1>5, <1>8 DEF Proceed
  <1>9. CASE c.pc = "complete"
    BY <1>2, <1>5, <1>9 DEF Proceed
  <1>10. CASE c.pc = "checkpoint"
    BY <1>1, <1>3, <1>10 DEF Proceed, Idle, Goto
  <1>11. CASE c.pc \notin {"claimed", "ensure", "dispatch", "complete", "checkpoint"}
    BY <1>1, <1>11 DEF Proceed, Idle
  <1> QED
    BY <1>6, <1>7, <1>8, <1>9, <1>10, <1>11

\* When the ledger denies a reservation, none is open: the slot that waits is
\* the only one without a result.
LEMMA DenialLeaves ==
    ASSUME Inv, PlanInv, NEW c \in Actor, c.pc = "ensure", Ensure(c, "waiting_budget")
    PROVE  /\ \A j \in Job : job'[j] # "ready"
           /\ execStatus'[c.att] = "active"
           /\ \E j \in Job : j[1] = c.att /\ job'[j] = "waiting_budget"
  <1> DEFINE j == MyJob(c)
  <1>1. c.att \in Attempt /\ c.slot \in Slot /\ j \in Job /\ j = <<c.att, c.slot>>
    BY ActorTyped DEF MyJob
  <1>2. /\ Fence(c) /\ Executable(c) /\ job[j] \in {"none", "waiting_budget"}
        /\ job' = [job EXCEPT ![j] = "waiting_budget"] /\ UNCHANGED <<attempt, execStatus>>
    BY DEF Ensure, taskRow, execRows
  <1>3. job'[j] = "waiting_budget" /\ \A k \in Job : k # j => job'[k] = job[k]
    BY <1>1, <1>2 DEF Inv, TypeOK, CoreTyped
  <1>4. ASSUME NEW k \in Job, job'[k] = "ready" PROVE FALSE
    <2>1. k # j /\ job[k] = "ready"
      BY <1>3, <1>4
    <2>2. k[1] = c.att /\ k[2] \in Slot /\ k = <<c.att, k[2]>>
      BY <1>2, <2>1 DEF PlanInv, Pending, Anchored, Fence, Job
    <2>3. Reached(c.att, k[2])
      BY <2>1, <2>2 DEF PlanInv, Line
    <2>4. Reached(c.att, c.slot)
      BY DEF PlanInv, Minded, Planned
    <2>5. k[2] = c.slot
      BY <1>1, <1>2, <2>1, <2>2, <2>3, <2>4, LineSequential DEF PlanInv
    <2> QED
      BY <1>1, <2>1, <2>2, <2>5
  <1>5. execStatus'[c.att] = "active" /\ j[1] = c.att
    BY <1>1, <1>2 DEF Executable
  <1> QED
    BY <1>1, <1>3, <1>4, <1>5

LEMMA RequestKeepsPlan == ASSUME Inv, PlanInv, Inv', NEW w \in Worker, Request(w) PROVE PlanInv'
  <1>1. PICK c \in Actor : c = wk[w]
    BY DEF Actor
  <1>2. PICK res \in Answer(c.pc) : Handle(c, res) /\ \E n \in Proceed(c, res) : wk' = [wk EXCEPT ![w] = n]
    BY <1>1 DEF Request
  <1>3. PICK n \in Proceed(c, res) : wk' = [wk EXCEPT ![w] = n]
    BY <1>2
  <1>4. c.pc \notin {"idle", "granted"} /\ UNCHANGED <<late, desk, wires, retries, ops, faults>>
    BY <1>1 DEF Request, Calling
  <1>5. c \in WorkerState /\ Engaged(c) /\ Answers(c) /\ c.att \in Attempt
    BY <1>1, <1>4, ActorTyped, WorkerTyped
  <1>6. Effect
    BY <1>2, <1>4, <1>5, HandleTyped
  <1>7. Law
    BY <1>2, <1>4, HandleLaw
  <1>8. Minded(c)'
    BY <1>4, <1>6, <1>7, MindedStays
  <1>9. c.pc \in {"ensure", "dispatch", "complete"} /\ res \in Usable => job'[MyJob(c)] = res
    BY <1>2, HandleResult
  <1>10. /\ Planned(n)'
         /\ n.pc = "release" /\ n.reason = "budget_denied" => c.pc = "ensure" /\ res = "waiting_budget"
         /\ n.pc # "idle" => c.pc \in {"claimed", "ensure", "dispatch", "complete", "checkpoint"}
    BY <1>5, <1>8, <1>9, ProceedPlanned DEF Minded
  <1>11. n.pc # "idle" => n.run = c.run /\ n.att = c.att
    BY <1>5, ProceedFollows DEF Follows
  <1>12. Denied(n)'
    <2>1. ASSUME n.pc = "release", n.reason = "budget_denied" PROVE Denied(n)'
      <3>1. c.pc = "ensure" /\ Ensure(c, "waiting_budget") /\ n.att = c.att
        BY <1>2, <1>10, <1>11, <2>1 DEF Handle
      <3> QED
        BY <3>1, DenialLeaves DEF Denied
    <2> QED
      BY <2>1 DEF Denied
  <1>13. Minded(n)'
    BY <1>4, <1>8, <1>10, <1>11, <1>12 DEF Minded
  <1> QED
    BY <1>1, <1>3, <1>4, <1>6, <1>7, <1>10, <1>11, <1>13, MovesPlan

\* Nothing but the worker moves, and it ends, leaves or repeats its call.
LEMMA WalkKeepsPlan ==
    ASSUME Inv, PlanInv, Inv', UNCHANGED core, UNCHANGED <<wires, retries>>,
           NEW w \in Worker, NEW n, wk' = [wk EXCEPT ![w] = n],
           \/ n.pc = "idle"
           \/ /\ n.pc = "release" /\ n.reason # "budget_denied"
              /\ n.run = wk[w].run /\ n.att = wk[w].att /\ wk[w].pc \notin {"idle", "release"}
           \/ /\ n.pc = wk[w].pc /\ n.pc \in {"dispatch", "complete"} /\ n.slot = wk[w].slot
              /\ n.run = wk[w].run /\ n.att = wk[w].att,
           late' \subseteq late \union {wk[w]}, late' \subseteq late \/ Hands(wk[w], n)
    PROVE  PlanInv'
  <1>1. PICK c \in Actor : c = wk[w]
    BY DEF Actor
  <1>2. UNCHANGED <<run, attempt, attempts, execStatus, job, commits, retries>> /\ UNCHANGED jobRows
    BY DEF core, taskRow, execRows, jobRows
  <1>3. Effect
    BY <1>2, Nothing
  <1>4. Law
    BY <1>2, LawStill
  <1>5. Minded(n)'
    <2>1. CASE n.pc = "idle"
      BY <2>1, IdleMinded
    <2>2. CASE n.pc # "idle"
      <3>1. c.pc # "idle" /\ n.att = c.att /\ (n.pc = "release" \/ (n.pc = c.pc /\ n.slot = c.slot))
        BY <1>1, <2>2
      <3>2. Minded(c)'
        BY <1>3, <1>4, <3>1, MindedStays
      <3>3. Planned(n)'
        BY <3>1, <3>2 DEF Minded, Planned
      <3>4. Denied(n)'
        BY <1>1, <2>2, <3>1 DEF Denied
      <3> QED
        BY <3>1, <3>2, <3>3, <3>4 DEF Minded
    <2> QED
      BY <2>1, <2>2
  <1>6. n.pc # "idle" => wk[w].pc \notin {"idle", "release"} /\ n.run = wk[w].run
    OBVIOUS
  <1> QED
    BY <1>3, <1>4, <1>5, <1>6, MovesPlan

LEMMA LeaveIs ==
    ASSUME NEW c \in WorkerState, NEW why
    PROVE  /\ Leave(c, why).pc = "release" /\ Leave(c, why).reason = why
           /\ Leave(c, why).run = c.run /\ Leave(c, why).att = c.att
  BY DEF Leave, Goto, WorkerState

LEMMA StopKeepsPlan ==
    ASSUME Inv, PlanInv, Inv', NEW w \in Worker,
           Decline(w) \/ Drift(w) \/ Crash(w) \/ LeaseLost(w) \/ LeaseUnconfirmed(w)
    PROVE  PlanInv'
  <1>1. wk[w] \in WorkerState
    BY WorkerTyped
  <1>2. ASSUME NEW why \in Reason \ {"budget_denied"}, wk' = [wk EXCEPT ![w] = Leave(wk[w], why)],
               wk[w].pc \notin {"idle", "release"}, UNCHANGED core, UNCHANGED <<late, wires, retries>>
        PROVE PlanInv'
    <2>1. PICK n : n = Leave(wk[w], why)
      OBVIOUS
    <2>2. n.pc = "release" /\ n.reason # "budget_denied" /\ n.run = wk[w].run /\ n.att = wk[w].att
      BY <1>1, <2>1, LeaveIs
    <2> QED
      BY <1>2, <2>1, <2>2, WalkKeepsPlan
  <1>3. ASSUME Stop(w), wk[w].pc # "idle", UNCHANGED core, UNCHANGED <<wires, retries>>,
               late' \subseteq late \union {wk[w]}
        PROVE PlanInv'
    <2>1. PICK n : n = Idle(AgentOf[w])
      OBVIOUS
    <2>2. n.pc = "idle"
      BY <2>1 DEF Idle
    <2> QED
      BY <1>3, <2>1, <2>2, WalkKeepsPlan DEF Stop, Hands
  <1>4. CASE Decline(w)
    BY <1>2, <1>4 DEF Decline, Reason
  <1>5. CASE Drift(w)
    BY <1>2, <1>5 DEF Drift, Reason
  <1>6. CASE Crash(w)
    BY <1>3, <1>6 DEF Crash
  <1>7. CASE LeaseLost(w)
    BY <1>3, <1>7 DEF LeaseLost
  <1>8. CASE LeaseUnconfirmed(w)
    BY <1>2, <1>8 DEF LeaseUnconfirmed, Reason
  <1> QED
    BY <1>4, <1>5, <1>6, <1>7, <1>8

LEMMA UnansweredKeepsPlan == ASSUME Inv, PlanInv, Inv', NEW w \in Worker, Unanswered(w) PROVE PlanInv'
  <1>1. PICK c \in WorkerState : c = wk[w]
    BY WorkerTyped
  <1>2. /\ c.pc \notin {"idle", "granted"} /\ late' = late \union {c}
        /\ UNCHANGED <<wires, retries>> /\ UNCHANGED core
    BY <1>1 DEF Unanswered, Calling
  <1>3. PICK n : /\ wk' = [wk EXCEPT ![w] = n]
                 /\ \/ n = Leave(c, "none") /\ c.pc = "ensure"
                    \/ n = Leave(c, "execution_unknown") /\ c.pc \in {"dispatch", "complete"}
                    \/ n = Idle(c.agent)
                    \/ c.pc \in {"dispatch", "complete"} /\ n = [c EXCEPT !.again = TRUE]
    <2>1. wk' = [wk EXCEPT ![w] =
                    CASE c.pc = "ensure" -> Leave(c, "none")
                      [] c.pc \in {"dispatch", "complete"} ->
                           IF c.again THEN Leave(c, "execution_unknown") ELSE [c EXCEPT !.again = TRUE]
                      [] OTHER -> Idle(c.agent)]
      BY <1>1 DEF Unanswered
    <2>2. CASE c.pc = "ensure"
      BY <2>1, <2>2
    <2>3. CASE c.pc \in {"dispatch", "complete"}
      BY <2>1, <2>3
    <2>4. CASE c.pc \notin {"ensure", "dispatch", "complete"}
      BY <2>1, <2>4
    <2> QED
      BY <2>2, <2>3, <2>4
  <1>4. \/ n.pc = "idle"
        \/ /\ n.pc = "release" /\ n.reason # "budget_denied" /\ n.run = c.run /\ n.att = c.att
           /\ c.pc \notin {"idle", "release"} /\ (c.pc = "ensure" => n.reason = "none")
        \/ /\ n.pc = c.pc /\ n.pc \in {"dispatch", "complete"} /\ n.slot = c.slot
           /\ n.run = c.run /\ n.att = c.att
    <2>1. CASE n = Leave(c, "none") /\ c.pc = "ensure"
      BY <2>1, LeaveIs
    <2>2. CASE n = Leave(c, "execution_unknown") /\ c.pc \in {"dispatch", "complete"}
      BY <2>2, LeaveIs
    <2>3. CASE n = Idle(c.agent)
      BY <2>3 DEF Idle
    <2>4. CASE c.pc \in {"dispatch", "complete"} /\ n = [c EXCEPT !.again = TRUE]
      BY <2>4 DEF WorkerState
    <2> QED
      BY <1>3, <2>1, <2>2, <2>3, <2>4
  <1>5. Hands(c, n)
    BY <1>2, <1>4 DEF Hands
  <1> QED
    BY <1>1, <1>2, <1>3, <1>4, <1>5, WalkKeepsPlan

\* The call uses a grant of an attempt given out.
LEMMA CallProviderKeepsPlan == ASSUME Inv, PlanInv, Inv', NEW w \in Worker, CallProvider(w) PROVE PlanInv'
  <1>1. PICK c \in Actor : c = wk[w]
    BY DEF Actor
  <1>2. /\ c.pc = "granted" /\ c \in WorkerState /\ MyJob(c) \in Job /\ wires' = [wires EXCEPT ![MyJob(c)] = @ + 1]
        /\ UNCHANGED core /\ UNCHANGED <<late, retries>>
    BY <1>1, ActorTyped DEF CallProvider
  <1>3. PICK outcome \in {"succeeded", "rejected", "unknown"} :
            wk' = [wk EXCEPT ![w] = [Goto(c, "complete") EXCEPT !.goal = outcome]]
    BY <1>1 DEF CallProvider
  <1>4. PICK n : n = [Goto(c, "complete") EXCEPT !.goal = outcome]
    OBVIOUS
  <1>5. n.pc = "complete" /\ n.run = c.run /\ n.att = c.att /\ n.slot = c.slot
    BY <1>2, <1>4 DEF Goto, WorkerState
  <1>6. UNCHANGED <<run, attempt, attempts, execStatus, job, commits, retries>> /\ UNCHANGED jobRows
    BY <1>2 DEF core, taskRow, execRows, jobRows
  <1>7. Effect /\ Law
    BY <1>6, Nothing, LawStill
  <1>8. Minded(n)'
    <2>1. Minded(c)'
      BY <1>2, <1>7, MindedStays
    <2>2. Reached(c.att, c.slot)' /\ c.att <= attempts'
      BY <1>2, <2>1 DEF Minded, Planned
    <2>3. Planned(n)'
      BY <1>5, <2>2 DEF Planned
    <2>4. Denied(n)'
      BY <1>5 DEF Denied
    <2> QED
      BY <1>5, <2>2, <2>3, <2>4 DEF Minded
  <1>9. \A j \in Job : wires'[j] > 0 => wires[j] > 0 \/ \E d \in Actor : d.pc # "idle" /\ d.att = j[1]
    BY <1>2 DEF MyJob, Inv, TypeOK, ActorsTyped
  <1> QED
    BY <1>1, <1>2, <1>3, <1>4, <1>5, <1>7, <1>8, <1>9, MovesPlan

LEMMA LateArrivesKeepsPlan == ASSUME Inv, PlanInv, Inv', NEW c \in late, LateArrives(c) PROVE PlanInv'
  <1>1. c \in WorkerState /\ Engaged(c) /\ Answers(c) /\ c.pc \notin {"idle", "granted"} /\ c \in Actor
    BY DEF Inv, TypeOK, ActorsTyped, Actors, Actor
  <1>2. PICK res \in Answer(c.pc) : Handle(c, res)
    BY DEF LateArrives
  <1>3. late' = late \ {c} /\ UNCHANGED <<wk, wires, retries>>
    BY DEF LateArrives
  <1> QED
    BY <1>1, <1>2, <1>3, HandleTyped, HandleLaw, RestPlan

\* A claim takes a fresh run, and an attempt no job of which exists.
LEMMA ClaimLaw ==
    ASSUME Inv, PlanInv, NEW agent, ClaimAgentRun(agent), retries' = retries
    PROVE  Law /\ UNCHANGED jobRows /\ (\A c \in Actor : c.run # run') /\ attempt' <= attempts'
  <1>1. /\ UNCHANGED <<execStatus, job, commits>> /\ UNCHANGED jobRows
        /\ attempts' = IF attempt = 0 THEN attempts + 1 ELSE attempts
        /\ attempt' = IF attempt = 0 THEN attempts + 1 ELSE attempt
    BY DEF ClaimAgentRun, execRows, jobRows
  <1>2. ~Known(run')
    BY DEF ClaimAgentRun, IsFresh
  <1>3. attempt \in Nat /\ attempts \in Nat /\ retries \in Nat
    BY TaskAssumption DEF TaskAssumption, Inv, TypeOK, CoreTyped, ActorsTyped
  <1>4. attempt = 0 => \A j \in Job : job[j] \notin Pending
    BY TaskAssumption DEF TaskAssumption, PlanInv, Anchored, Job, Attempt
  <1>5. /\ attempts' \in Nat /\ attempts <= attempts' /\ attempt' <= attempts'
        /\ "status" \notin Requests => attempts' <= retries' + (IF attempt' = 0 THEN 0 ELSE 1)
    BY <1>1, <1>3 DEF PlanInv, Issued
  <1>6. attempt' # attempt => \A j \in Job : job'[j] \notin Pending
    BY <1>1, <1>4
  <1>7. \A c \in Actor : c.run # run'
    BY <1>2 DEF Known, Actor
  <1> QED
    BY <1>1, <1>2, <1>5, <1>6, <1>7 DEF Law, Pending

LEMMA ClaimRunKeepsPlan == ASSUME Inv, PlanInv, Inv', NEW w \in Worker, ClaimRun(w) PROVE PlanInv'
  <1>1. ClaimAgentRun(AgentOf[w]) /\ UNCHANGED <<late, wires, retries>>
    BY DEF ClaimRun
  <1>2. Law /\ UNCHANGED jobRows /\ (\A c \in Actor : c.run # run') /\ attempt' <= attempts'
    BY <1>1, ClaimLaw
  <1>3. PICK n : /\ wk' = [wk EXCEPT ![w] = n]
                 /\ n = [Idle(AgentOf[w]) EXCEPT !.pc = "claimed", !.run = run', !.att = attempt',
                                                  !.input = CurrentInput]
    BY DEF ClaimRun
  <1>4. n.pc = "claimed" /\ n.run = run' /\ n.att = attempt' /\ n.slot = <<1, 1>>
    BY <1>3 DEF Idle
  <1>5. Minded(n)'
    BY <1>2, <1>4 DEF Minded, Planned, Denied, Reached
  <1> QED
    BY <1>1, <1>2, <1>3, <1>4, <1>5, Nothing, MovesPlan

LEMMA ClaimUnansweredKeepsPlan == ASSUME Inv, PlanInv, Inv', NEW w \in Worker, ClaimUnanswered(w) PROVE PlanInv'
  <1>1. ClaimAgentRun(AgentOf[w]) /\ UNCHANGED <<wk, late, wires, retries>>
    BY DEF ClaimUnanswered
  <1> QED
    BY <1>1, ClaimLaw, Nothing, RestPlan

\* Steps that leave jobs, executions and attempts alone; a lease may end.
LEMMA QuietKeepsPlan ==
    ASSUME Inv, PlanInv, Inv', run' \in {run, 0}, UNCHANGED jobRows,
           UNCHANGED <<attempt, attempts, execStatus, commits, wk, late, wires, retries>>
    PROVE  PlanInv'
  <1>1. UNCHANGED job
    BY DEF jobRows
  <1> QED
    BY <1>1, LawStill, Nothing, RestPlan

LEMMA ClockKeepsPlan ==
    ASSUME Inv, PlanInv, Inv',
           (\E w \in Worker : Heartbeat(w)) \/ LeaseAbandoned \/ LeaseStalls \/ RetryDue
    PROVE  PlanInv'
  <1>1. /\ run' = run /\ UNCHANGED jobRows
        /\ UNCHANGED <<attempt, attempts, execStatus, commits, wk, late, wires, retries>>
    BY DEF Heartbeat, LeaseAbandoned, LeaseStalls, LeaseExpires, RetryDue, execRows
  <1> QED
    BY <1>1, QuietKeepsPlan

LEMMA DispatchExpiresKeepsPlan == ASSUME Inv, PlanInv, Inv', NEW j \in Job, DispatchExpires(j) PROVE PlanInv'
  <1>1. /\ job[j] = "dispatching" /\ job' = [job EXCEPT ![j] = "unknown"]
        /\ UNCHANGED <<run, attempt, attempts, execStatus, commits, wk, late, wires, retries>>
        /\ UNCHANGED <<token, spend>>
    BY DEF DispatchExpires, taskRow, execRows
  <1>2. Lose({j}) /\ {j} \in SUBSET Job
    BY <1>1 DEF Inv, TypeOK, CoreTyped, Lose
  <1>3. \A k \in Job : job'[k] = job[k] \/ (job[k] = "dispatching" /\ job'[k] = "unknown")
    BY <1>1 DEF Inv, TypeOK, CoreTyped
  <1>4. attempt \in Nat /\ attempts \in Nat
    BY TaskAssumption DEF TaskAssumption, Inv, TypeOK, CoreTyped
  <1>5. Law
    BY <1>1, <1>3, <1>4 DEF Law, Pending, PlanInv, Issued
  <1>6. Effect
    BY <1>2 DEF Effect
  <1> QED
    BY <1>1, <1>5, <1>6, RestPlan

LEMMA SetStatusKeepsPlan == ASSUME Inv, PlanInv, Inv', NEW s \in Task, SetStatus(s) PROVE PlanInv'
  <1>1. /\ "status" \in Requests
        /\ UNCHANGED <<run, attempt, attempts, execStatus, commits, wk, late, wires, retries>>
        /\ UNCHANGED token
    BY DEF SetStatus, Ask, execRows
  <1>2. CASE UNCHANGED <<job, spend>>
    BY <1>1, <1>2, QuietKeepsPlan DEF jobRows
  <1>3. CASE attempt # 0 /\ job' = Cancelled(attempt) /\ spend' = Released(attempt)
    <2>1. attempt \in Attempt /\ attempt \in Nat /\ attempts \in Nat
      BY <1>3, TaskAssumption DEF TaskAssumption, Inv, TypeOK, CoreTyped, Attempt
    <2>2. Effect
      BY <1>1, <1>3, <2>1, Cancelling DEF Effect, Inv, TypeOK
    <2>3. \A k \in Job : job'[k] = job[k] \/ job'[k] = "cancelled"
      BY <1>3 DEF Cancelled
    <2>4. Law
      BY <1>1, <2>1, <2>3 DEF Law, Pending, PlanInv, Issued
    <2> QED
      BY <1>1, <2>2, <2>4, RestPlan
  <1> QED
    BY <1>2, <1>3 DEF SetStatus, CleanUp

LEMMA RetryBlockedKeepsPlan == ASSUME Inv, PlanInv, Inv', RetryBlocked PROVE PlanInv'
  <1> DEFINE open   == attempt # 0 /\ execStatus[attempt] \in {"active", "ready"}
             resume == /\ open /\ execStatus[attempt] = "active" /\ execInput[attempt] = CurrentInput
                       /\ blocked = "execution_unknown" /\ AllKnown(attempt, job)
  <1>1. /\ run' = 0 /\ UNCHANGED <<attempts, commits, wk, late, wires>> /\ UNCHANGED token
        /\ attempt' = IF resume THEN attempt ELSE 0
        /\ retries' = IF resume THEN retries ELSE retries + 1
        /\ IF open /\ ~resume
           THEN /\ job' = Cancelled(attempt)
                /\ spend' = Released(attempt)
                /\ execStatus' = [execStatus EXCEPT ![attempt] = "abandoned"]
           ELSE UNCHANGED <<job, spend, execStatus>>
    BY DEF RetryBlocked, Unlease
  <1>2. attempt \in Nat /\ attempts \in Nat /\ retries \in Nat
    BY TaskAssumption DEF TaskAssumption, Inv, TypeOK, CoreTyped, ActorsTyped
  <1>3. /\ attempts <= attempts' /\ attempts' \in Nat /\ attempt' <= attempts'
        /\ "status" \notin Requests => attempts' <= retries' + (IF attempt' = 0 THEN 0 ELSE 1)
    BY <1>1, <1>2 DEF PlanInv, Issued
  <1>4. CASE open /\ ~resume
    <2>1. attempt \in Attempt
      BY <1>2, <1>4, TaskAssumption DEF TaskAssumption, Inv, TypeOK, CoreTyped, Attempt
    <2>2. Effect
      BY <1>1, <1>4, <2>1, Cancelling DEF Effect, Inv, TypeOK
    <2>3. /\ \A k \in Job : job'[k] = job[k] \/ job'[k] = "cancelled"
          /\ \A k \in Job : k[1] = attempt => job'[k] \notin Pending
      BY <1>1, <1>4 DEF Cancelled, Undispatched, JobsOf, Pending
    <2>4. \A k \in Job : job'[k] \notin Pending
      BY <2>3 DEF PlanInv, Pending, Anchored
    <2>5. Law
      BY <1>1, <1>3, <2>3, <2>4 DEF Law, Pending
    <2> QED
      BY <1>1, <2>2, <2>5, RestPlan
  <1>5. CASE ~(open /\ ~resume)
    <2>1. UNCHANGED <<job, execStatus>> /\ UNCHANGED jobRows
      BY <1>1, <1>5 DEF jobRows
    <2>2. attempt' # attempt => \A k \in Job : job'[k] \notin Pending
      <3>1. CASE resume
        BY <1>1, <3>1
      <3>2. CASE ~open
        <4>1. attempt = 0 => \A k \in Job : k[1] # attempt
          BY TaskAssumption DEF TaskAssumption, Job, Attempt
        <4> QED
          BY <2>1, <3>2, <4>1 DEF PlanInv, Pending, Anchored
      <3> QED
        BY <1>5, <3>1, <3>2
    <2>3. Law
      BY <1>1, <1>3, <2>1, <2>2 DEF Law, Pending
    <2> QED
      BY <1>1, <2>1, <2>3, Nothing, RestPlan
  <1> QED
    BY <1>4, <1>5

LEMMA RequestsKeepPlan ==
    ASSUME Inv, PlanInv, Inv',
           EditText \/ Assign \/ Redo \/ Read("redo", "human") \/ \E to \in Owner : Read("assign", to)
    PROVE  PlanInv'
  <1>1. ASSUME NEW request, NEW to, Read(request, to) PROVE PlanInv'
    <2>1. /\ run' = run /\ UNCHANGED jobRows
          /\ UNCHANGED <<attempt, attempts, execStatus, commits, wk, late, wires, retries>>
      BY <1>1 DEF Read, core, taskRow, execRows
    <2> QED
      BY <2>1, QuietKeepsPlan
  <1>2. CASE EditText \/ Assign \/ Redo
    <2>1. /\ run' \in {run, 0} /\ UNCHANGED jobRows
          /\ UNCHANGED <<attempt, attempts, execStatus, commits, wk, late, wires, retries>>
      BY <1>2 DEF EditText, Assign, Redo, execRows
    <2> QED
      BY <2>1, QuietKeepsPlan
  <1> QED
    BY <1>1, <1>2

LEMMA NextKeepsPlan == ASSUME Inv, PlanInv, [Next]_vars PROVE PlanInv'
  <1>0. Inv'
    BY NextKeeps
  <1>1. ASSUME NEW w \in Worker, Work(w) PROVE PlanInv'
    BY <1>0, <1>1, ClaimRunKeepsPlan, StopKeepsPlan, RequestKeepsPlan, CallProviderKeepsPlan DEF Work
  <1>2. CASE OwnerRequest
    BY <1>0, <1>2, SetStatusKeepsPlan, RetryBlockedKeepsPlan, RequestsKeepPlan DEF OwnerRequest
  <1>3. CASE UNCHANGED vars
    <2>1. /\ run' = run /\ UNCHANGED jobRows
          /\ UNCHANGED <<attempt, attempts, execStatus, commits, wk, late, wires, retries>>
      BY <1>3 DEF vars, core, taskRow, execRows
    <2> QED
      BY <1>0, <2>1, QuietKeepsPlan
  <1> QED
    BY <1>0, <1>1, <1>2, <1>3, ClockKeepsPlan, StopKeepsPlan, UnansweredKeepsPlan, ClaimUnansweredKeepsPlan,
       LateArrivesKeepsPlan, DispatchExpiresKeepsPlan DEF Next

LEMMA InitPlan == ASSUME Init PROVE PlanInv
  <1>1. \A j \in Job : job[j] = "none" /\ wires[j] = 0
    BY DEF Init
  <1>2. \A c \in Actor : c.pc = "idle"
    BY DEF Init, Actor, Idle
  <1>3. \A c \in Actor : Minded(c)
    BY <1>2 DEF Minded, Planned, Denied
  <1>4. Alone
    BY DEF Init, Alone
  <1>5. Issued
    BY <1>1 DEF Init, Issued
  <1> QED
    BY <1>1, <1>3, <1>4, <1>5 DEF PlanInv, Line, Anchored, Pending

LEMMA PlanInvariance == Spec => [](Inv /\ PlanInv)
  <1>1. Init => Inv /\ PlanInv
    BY InitInv, InitPlan
  <1>2. Inv /\ PlanInv /\ [Next]_vars => (Inv /\ PlanInv)'
    BY NextKeeps, NextKeepsPlan
  <1> QED
    BY <1>1, <1>2, PTL DEF Spec

LEMMA AtMostOne ==
    ASSUME NEW S, \A x, y \in S : x = y PROVE IsFiniteSet(S) /\ Cardinality(S) <= 1
  <1>1. CASE S = {}
    BY <1>1, FS_EmptySet
  <1>2. ASSUME NEW x \in S PROVE IsFiniteSet(S) /\ Cardinality(S) <= 1
    <2>1. S = {x}
      BY <1>2
    <2>2. IsFiniteSet({x}) /\ Cardinality({x}) = 1
      BY FS_Singleton
    <2>3. IsFiniteSet(S) /\ Cardinality(S) = 1
      BY <2>1, <2>2
    <2> QED
      BY <2>3
  <1> QED
    BY <1>1, <1>2

Unresolved == {"waiting_budget", "ready", "dispatching", "unknown"}

\* The path of a plan has at most one slot without a result.
LEMMA OneUnresolved ==
    ASSUME Inv, PlanInv, NEW a \in Attempt, NEW j \in JobsOf(a), NEW k \in JobsOf(a),
           job[j] \in Unresolved, job[k] \in Unresolved
    PROVE  j = k
  <1>1. /\ j \in Job /\ k \in Job /\ j[2] \in Slot /\ k[2] \in Slot
        /\ j = <<a, j[2]>> /\ k = <<a, k[2]>> /\ job[j] # "none" /\ job[k] # "none"
    BY DEF JobsOf, Job
  <1>2. Reached(a, j[2]) /\ Reached(a, k[2])
    BY <1>1 DEF PlanInv, Line
  <1>3. job[<<a, j[2]>>] \notin {"succeeded", "rejected"} /\ job[<<a, k[2]>>] \notin {"succeeded", "rejected"}
    BY <1>1 DEF Unresolved
  <1>4. j[2] = k[2]
    BY <1>1, <1>2, <1>3, LineSequential DEF PlanInv
  <1> QED
    BY <1>1, <1>4

\* No rotation, retry, checkpoint, takeover or late call strands a call that is
\* not dispatched (releaseAgentRun, retryBlockedAgentExecution,
\* checkpointAgentRun): it belongs to the attempt of the task, and while the
\* task is an agent's, neither the closing of the task nor, if it is blocked,
\* the owner's retry is refused, and both cancel it.
THEOREM ReserveReachable == Spec => []NoStrandedReserve
  <1>1. ASSUME Inv, PlanInv PROVE NoStrandedReserve
    <2> SUFFICES ASSUME NEW j \in Job, job[j] \in Pending
                 PROVE  /\ j[1] = attempt /\ execStatus[attempt] = "active"
                        /\ ClosingReaches(j) /\ RetryReaches(j)
      BY DEF NoStrandedReserve, Pending
    <2>1. j[1] = attempt /\ execStatus[attempt] = "active"
      BY <1>1 DEF PlanInv, Anchored
    <2>2. attempt \in Attempt /\ attempt # 0
      BY <2>1, TaskAssumption DEF TaskAssumption, Job, Attempt
    <2>3. j \in JobsOf(attempt) /\ j \in Undispatched(attempt) /\ job[j] \in Unresolved
      BY <2>1 DEF JobsOf, Undispatched, Pending, Unresolved
    <2>4. ASSUME NEW k \in JobsOf(attempt), job[k] \in Unresolved PROVE k = j
      BY <1>1, <2>2, <2>3, <2>4, OneUnresolved
    <2>5. Cardinality({k \in JobsOf(attempt) : job[k] = "ready"}) <= 1
      <3>1. \A x, y \in {k \in JobsOf(attempt) : job[k] = "ready"} : x = y
        BY <2>4 DEF Unresolved
      <3> QED
        BY <3>1, AtMostOne
    <2>6. \A k \in JobsOf(attempt) : job[k] # "dispatching"
      BY <2>4 DEF Unresolved, Pending
    <2>7. ~AllKnown(attempt, job)
      BY <2>3 DEF AllKnown, Terminal, Unresolved
    <2> QED
      BY <2>1, <2>2, <2>3, <2>5, <2>6, <2>7 DEF ClosingReaches, RetryReaches
  <1>2. Inv /\ PlanInv => NoStrandedReserve
    BY <1>1
  <1> QED
    BY <1>2, PlanInvariance, PTL

\* "A sequential durable workflow can expose only one undispatched reserve"
\* (cancelUndispatchedTaskLlmJobs): an attempt has at most one job without a
\* result, for any plan, any number of workers and any faults.
THEOREM OneExposed == Spec => []SequentialExposure
  <1>1. ASSUME Inv, PlanInv PROVE SequentialExposure
    <2> SUFFICES ASSUME NEW a \in Attempt
                 PROVE  Cardinality({j \in JobsOf(a) : job[j] \in
                            {"waiting_budget", "ready", "dispatching", "unknown"}}) <= 1
      BY DEF SequentialExposure
    <2> DEFINE S == {j \in JobsOf(a) : job[j] \in {"waiting_budget", "ready", "dispatching", "unknown"}}
    <2>1. ASSUME NEW j \in S, NEW k \in S PROVE j = k
      BY <1>1, OneUnresolved DEF Unresolved
    <2> QED
      BY <2>1, AtMostOne
  <1>2. Inv /\ PlanInv => SequentialExposure
    BY <1>1
  <1> QED
    BY <1>2, PlanInvariance, PTL

\* A set of attempts given out is no larger than their number.
LEMMA AtMostIssued ==
    ASSUME NEW n \in Nat, NEW S \in SUBSET (1..n) PROVE Cardinality(S) <= n
  <1>1. IsFiniteSet(1..n) /\ Cardinality(1..n) = n
    BY FS_Interval
  <1>2. Cardinality(S) <= Cardinality(1..n)
    BY <1>1, FS_Subset
  <1> QED
    BY <1>1, <1>2

\* As long as the owner does not close the task while an agent works on it,
\* each call of the plan is paid for, and an outcome committed, at most once
\* more than the owner asked for a retry (retryBlockedAgentExecution).  The
\* hypothesis is needed: closing and reopening the task lets a budget denial
\* rotate the attempt (releaseAgentRun).
THEOREM PaidAsDecided ==
    ASSUME "status" \notin Requests PROVE Spec => []PaidPerDecision
  <1>1. ASSUME Inv, PlanInv PROVE PaidPerDecision
    <2>1. attempts \in Nat /\ retries \in Nat /\ MaxAttempts \in Nat
      BY <1>1, TaskAssumption DEF TaskAssumption, Inv, TypeOK, CoreTyped, ActorsTyped
    <2>2. attempts <= retries + 1
      BY <1>1, <2>1 DEF PlanInv, Issued
    <2>3. ASSUME NEW S, S \subseteq 1..attempts PROVE Cardinality(S) <= 1 + retries
      <3>1. Cardinality(S) <= attempts
        BY <2>1, <2>3, AtMostIssued
      <3>2. IsFiniteSet(1..attempts)
        BY <2>1, FS_Interval
      <3>3. Cardinality(S) \in Nat
        BY <2>3, <3>2, FS_Subset, FS_CardinalityType
      <3> QED
        BY <2>1, <2>2, <3>1, <3>3
    <2>4. ASSUME NEW s \in Slot PROVE {a \in Attempt : wires[<<a, s>>] > 0} \subseteq 1..attempts
      <3>1. ASSUME NEW a \in Attempt, wires[<<a, s>>] > 0 PROVE a \in 1..attempts
        <4>1. <<a, s>> \in Job
          BY DEF Job
        <4>2. a <= attempts /\ a \in Nat /\ a >= 1
          BY <1>1, <2>1, <3>1, <4>1 DEF PlanInv, Issued, Attempt
        <4> QED
          BY <2>1, <4>2
      <3> QED
        BY <3>1
    <2>5. {a \in Attempt : commits[a] > 0} \subseteq 1..attempts
      BY <1>1, <2>1 DEF PlanInv, Issued, Attempt
    <2> QED
      BY <2>3, <2>4, <2>5 DEF PaidPerDecision
  <1>2. Inv /\ PlanInv => PaidPerDecision
    BY <1>1
  <1> QED
    BY <1>2, PlanInvariance, PTL

-----------------------------------------------------------------------------
(* A closed task retains no request, unless it was given to a person       *)

\* An open task is closed by a request of the owner, or by the commit of an
\* execution that was ready and touches no job.
Closes ==
    \/ \E s \in Task : SetStatus(s)
    \/ execStatus[attempt] = "ready" /\ job' = job

\* No job is added to those not dispatched.
NoMore == \A j \in Job : job'[j] \in Pending => job[j] \in Pending

LEMMA HandleCloses ==
    ASSUME Inv, NEW c \in WorkerState, c.pc \notin {"idle", "granted"}, NEW res, Handle(c, res)
    PROVE  /\ UNCHANGED owner
           /\ status' \in {status, "todo"} \/ (execStatus[attempt] = "ready" /\ job' = job)
           /\ Closed => NoMore
  <1> USE DEF taskRow, jobRows, Block, Unlease, NoMore, Pending, Inv, TypeOK, CoreTyped
  <1>1. CASE c.pc = "claimed"
    BY <1>1 DEF Handle, StartAgentRun
  <1>2. CASE c.pc = "ensure"
    BY <1>2 DEF Handle, Ensure, Fence
  <1>3. CASE c.pc = "dispatch"
    BY <1>3 DEF Handle, ClaimDispatch, Fence
  <1>4. CASE c.pc = "complete"
    BY <1>4 DEF Handle, Complete, WorkerState
  <1>5. CASE c.pc = "checkpoint"
    BY <1>5 DEF Handle, CheckpointAgentRun
  <1>6. CASE c.pc = "commit"
    BY <1>6 DEF Handle, CommitAgentRun, Capped, CommitEffects, Fence
  <1>7. CASE c.pc = "release"
    BY <1>7 DEF Handle, ReleaseAgentRun, ReleaseTask, Fence
  <1> QED
    BY <1>1, <1>2, <1>3, <1>4, <1>5, <1>6, <1>7 DEF WorkerState

\* Without assignments the task stays an agent's.
AgentOwned == owner \in Agent /\ desk.op # "assign"

\* How a step closes the task, and what it does to a closed one.
LEMMA ClosingSteps ==
    ASSUME "assign" \notin Requests, Inv, AgentOwned, [Next]_vars
    PROVE  AgentOwned' /\ (~Closed /\ Closed' => Closes) /\ (Closed => NoMore)
  <1> DEFINE Good == AgentOwned' /\ (~Closed /\ Closed' => Closes) /\ (Closed => NoMore)
  <1>1. ASSUME UNCHANGED <<owner, desk>>, status' \in {status, "todo", "in_progress"}, Closed => NoMore
        PROVE  Good
    BY <1>1 DEF Closed, AgentOwned
  <1>2. ASSUME UNCHANGED <<owner, desk>>, status' \in {status, "in_progress"}, UNCHANGED jobRows PROVE Good
    BY <1>1, <1>2 DEF jobRows, NoMore
  <1>3. CASE UNCHANGED vars
    BY <1>2, <1>3 DEF vars, core, taskRow
  <1>4. ASSUME NEW c \in WorkerState, c.pc \notin {"idle", "granted"}, NEW res, Handle(c, res), UNCHANGED desk
        PROVE  Good
    BY <1>1, <1>4, HandleCloses DEF Closes, AgentOwned
  <1>5. ASSUME NEW w \in Worker, Work(w) PROVE Good
    <2>1. CASE ClaimRun(w)
      BY <1>2, <2>1 DEF ClaimRun, ClaimAgentRun
    <2>2. CASE Decline(w) \/ Drift(w) \/ CallProvider(w) \/ LeaseLost(w)
      BY <1>2, <2>2 DEF Decline, Drift, CallProvider, LeaseLost, core, taskRow
    <2>3. CASE Request(w)
      <3>1. wk[w] \in WorkerState
        BY DEF Inv, TypeOK, ActorsTyped
      <3> QED
        BY <1>4, <2>3, <3>1 DEF Request, Calling
    <2> QED
      BY <1>5, <2>1, <2>2, <2>3 DEF Work
  <1>6. ASSUME NEW w \in Worker,
               Heartbeat(w) \/ Unanswered(w) \/ ClaimUnanswered(w) \/ Crash(w) \/ LeaseUnconfirmed(w)
        PROVE  Good
    BY <1>2, <1>6 DEF Heartbeat, Unanswered, ClaimUnanswered, ClaimAgentRun, Crash, LeaseUnconfirmed,
       core, taskRow
  <1>7. ASSUME NEW c \in late, LateArrives(c) PROVE Good
    <2>1. c \in WorkerState /\ c.pc \notin {"idle", "granted"}
      BY DEF Inv, TypeOK, ActorsTyped, Actors
    <2> QED
      BY <1>4, <1>7, <2>1 DEF LateArrives
  <1>8. CASE OwnerRequest
    <2>1. ASSUME NEW s \in Task, SetStatus(s) PROVE Good
      <3>1. NoMore
        BY <2>1 DEF SetStatus, CleanUp, Cancelled, NoMore, Pending
      <3> QED
        BY <2>1, <3>1 DEF SetStatus, Closes, AgentOwned
    <2>2. CASE RetryBlocked
      BY <1>1, <2>2 DEF RetryBlocked, Unlease
    <2>3. CASE EditText
      BY <1>2, <2>3 DEF EditText
    <2>4. CASE Assign
      BY <2>4 DEF Assign, AgentOwned
    <2>5. CASE Redo
      BY <2>5 DEF Redo, NoRequest, Closed, AgentOwned, NoMore, jobRows
    <2>6. ASSUME NEW to \in Owner, Read("assign", to) PROVE Good
      BY <2>6 DEF Read, Ask
    <2>7. CASE Read("redo", "human")
      BY <2>7 DEF Read, core, taskRow, jobRows, Closed, AgentOwned, NoMore
    <2> QED
      BY <1>8, <2>1, <2>2, <2>3, <2>4, <2>5, <2>6, <2>7 DEF OwnerRequest
  <1>9. CASE LeaseAbandoned \/ LeaseStalls \/ RetryDue
    BY <1>2, <1>9 DEF LeaseAbandoned, LeaseStalls, LeaseExpires, RetryDue
  <1>10. ASSUME NEW j \in Job, DispatchExpires(j) PROVE Good
    <2>1. NoMore
      BY <1>10 DEF DispatchExpires, NoMore, Pending, Inv, TypeOK, CoreTyped
    <2> QED
      BY <1>1, <1>10, <2>1 DEF DispatchExpires, taskRow
  <1> QED
    BY <1>3, <1>5, <1>6, <1>7, <1>8, <1>9, <1>10 DEF Next

\* The closing cancels what is not dispatched, and nothing is added later.
LEMMA RetainsStep ==
    ASSUME "assign" \notin Requests, Inv, PlanInv, AgentOwned, TerminalRetainsNothing, [Next]_vars
    PROVE  AgentOwned' /\ TerminalRetainsNothing'
  <1>1. AgentOwned' /\ (~Closed /\ Closed' => Closes) /\ (Closed => NoMore)
    BY ClosingSteps
  <1> SUFFICES ASSUME Closed', NEW j \in Job, job'[j] \in Pending PROVE FALSE
    BY <1>1 DEF TerminalRetainsNothing, Pending
  <1>2. CASE Closed
    BY <1>1, <1>2 DEF NoMore, TerminalRetainsNothing, Pending
  <1>3. ASSUME NEW s \in Task, SetStatus(s) PROVE FALSE
    <2>1. s \in {"done", "cancelled"} /\ CleanUp
      BY <1>3 DEF SetStatus, Closed
    <2>2. job[j] \in Pending
      BY <2>1 DEF CleanUp, Cancelled, Pending
    <2>3. j[1] = attempt /\ execStatus[attempt] = "active" /\ attempt # 0
      BY <2>2, TaskAssumption DEF PlanInv, Anchored, TaskAssumption, Job, Attempt
    <2>4. job' = Cancelled(attempt)
      BY <2>1, <2>3 DEF CleanUp, AgentOwned
    <2> QED
      BY <2>2, <2>3, <2>4 DEF Cancelled, Undispatched, JobsOf, Pending
  <1>4. CASE execStatus[attempt] = "ready" /\ job' = job
    BY <1>4 DEF PlanInv, Anchored
  <1> QED
    BY <1>1, <1>2, <1>3, <1>4 DEF Closes

\* "A terminal task must not retain a provider request that has not crossed the
\* dispatch boundary" (cancelUndispatchedTaskLlmJobs): so it is, whatever calls
\* arrive late, for any plan, workers and faults, if the task is never given to
\* somebody else.  The hypothesis is needed: the closing passes over the jobs
\* of a task that was given to a person.
THEOREM ClosedRetainsNothing ==
    ASSUME "assign" \notin Requests PROVE Spec => []TerminalRetainsNothing
  <1>1. Init => AgentOwned /\ TerminalRetainsNothing
    BY DEF Init, AgentOwned, NoRequest, TerminalRetainsNothing, Closed
  <1>2. Inv /\ PlanInv /\ AgentOwned /\ TerminalRetainsNothing /\ [Next]_vars
           => AgentOwned' /\ TerminalRetainsNothing'
    BY RetainsStep
  <1> QED
    BY <1>1, <1>2, PlanInvariance, PTL DEF Spec
=============================================================================
