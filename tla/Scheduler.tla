----------------------------- MODULE Scheduler -----------------------------
(***************************************************************************)
(* The scheduler of src/internal/scheduler and the requests of             *)
(* src/internal/api that change jobs, on top of Submit and the job store.  *)
(*                                                                         *)
(* Every goroutine of fireJob, every request and the catch-up of a skipped *)
(* job is a task; its steps are those between which another goroutine may  *)
(* run: the check, each Submit (module Submit), and the dispatch.  All     *)
(* nodes read one clock, in minutes, and every schedule is "each minute".  *)
(*                                                                         *)
(* Operators named Bug... are plausible mistakes, used by no specification.*)
(***************************************************************************)
EXTENDS Submit, JobStore

CONSTANTS
    Job,
    Policies,   \* the catch-up policies of the jobs: "skip", "run_once", any other string
    Requests,   \* the requests clients make: "create", "delete", "trigger"
    MaxMinute   \* bound: no schedule has an occurrence after it

ASSUME SchedulerAssumption ==
    /\ Policies \subseteq {"skip", "run_once", "other"}
    /\ Requests \subseteq {"create", "delete", "trigger"}
    /\ MaxMinute \in Nat \ {0}

VARIABLES
    now,         \* the minute all clocks show
    store,       \* the state of the store of each node
    tasks,
    reconciled,  \* the nodes whose process has run ReconcileMissedJobs
    executed,    \* history: the goroutines that gave each firing to the executor
    overtaken    \* history: the goroutines whose node ceased to be the newest leader while
                 \* the running record they had submitted was not committed

schedVars == <<now, store, tasks, reconciled, executed>>
vars == <<submitVars, schedVars, overtaken>>

NoJob == [enabled |-> FALSE, policy |-> "skip", nextRun |-> 0, lastStatus |-> ""]

FreeTask == [stage |-> "free", by |-> "", node |-> Nil, id |-> Nil, job |-> NoJob,
             minute |-> 0, at |-> 0, status |-> ""]

key(t) == RunIdempotencyKey(t.id, t.minute)

Firing(by, i, id, minute) ==
    [FreeTask EXCEPT !.stage = "check", !.by = by, !.node = i, !.id = id,
                     !.job = store[i].jobs[id], !.minute = minute, !.at = now]

Request(op, i, id, job) ==
    [FreeTask EXCEPT !.stage = "submit", !.by = op, !.node = i, !.id = id, !.job = job]

\* Goroutines are started for the given tasks, one each.
go(new) ==
    \E f \in [new -> {c \in Caller : tasks[c].stage = "free"}] :
        /\ \A s, t \in new : f[s] = f[t] => s = t
        /\ tasks' = [c \in Caller |-> IF \E t \in new : f[t] = c
                                      THEN CHOOSE t \in new : f[t] = c ELSE tasks[c]]

\* nextRun: the first occurrence after the given time, 0 if there is none.
nextRun(minute) == IF minute < MaxMinute THEN minute + 1 ELSE 0

-----------------------------------------------------------------------------
(* Who starts tasks *)

\* A reading of the clock lies after the minute it shows has begun.
due(i) == {id \in DOMAIN store[i].jobs : store[i].jobs[id].nextRun \in 1 .. now}

\* tickLoop and tick on a node that takes itself for the leader.  Ticks are 15 s apart and
\* Submit gives up after 5 s, so what the tick before started has left its first two.
tick(i) ==
    LET enabled == {id \in due(i) : store[i].jobs[id].enabled}
    IN  /\ i \in believes
        /\ enabled # {}
        /\ \A c \in Caller : tasks[c].by = "tick" /\ tasks[c].node = i
                             => tasks[c].stage \notin {"check", "update", "record"}
        /\ go({Firing("tick", i, id, store[i].jobs[id].nextRun) : id \in enabled})
        /\ UNCHANGED <<submitVars, now, store, reconciled, executed>>

\* ReconcileMissedJobs, once per process, when the node leads for the first time; it does
\* not ask whether a job is enabled.  (The code advances skipped jobs one after the other:
\* with one job, as in all runs, the same.)
ReconcileMissedJobs(i) ==
    LET catchUp(id) ==
            LET job == store[i].jobs[id]
            IN  CASE job.policy = "run_once" -> {Firing("reconcile", i, id, job.nextRun)}
                  [] job.policy = "skip" /\ nextRun(now) # 0 ->
                        {Request("update_job", i, id, [job EXCEPT !.nextRun = nextRun(now)])}
                  [] OTHER -> {}
    IN  /\ i \in believes \ reconciled
        /\ reconciled' = reconciled \cup {i}
        /\ go(UNION {catchUp(id) : id \in due(i)})
        /\ UNCHANGED <<submitVars, now, store, executed>>

\* triggerJob: any node may fire a job it knows, for the current minute.
FireNow(i, id) ==
    /\ "trigger" \in Requests
    /\ id \in DOMAIN store[i].jobs
    /\ go({Firing("trigger", i, id, now)})
    /\ UNCHANGED <<submitVars, now, store, reconciled, executed>>

\* POST /jobs: an id that exists is replaced.
createJob(i, id) ==
    /\ "create" \in Requests
    /\ \E policy \in Policies, enabled \in BOOLEAN :
          go({Request("create_job", i, id,
                      [NoJob EXCEPT !.enabled = enabled, !.policy = policy,
                                    !.nextRun = nextRun(now)])})
    /\ UNCHANGED <<submitVars, now, store, reconciled, executed>>

deleteJob(i, id) ==
    /\ "delete" \in Requests
    /\ id \in DOMAIN store[i].jobs
    /\ go({Request("delete_job", i, id, NoJob)})
    /\ UNCHANGED <<submitVars, now, store, reconciled, executed>>

-----------------------------------------------------------------------------
(* The steps of a task *)

\* The job runs first, and is recorded when it has run.
BugRunFirst(c) ==
    LET t == tasks[c]
    IN  /\ t.stage = "check"
        /\ tasks' = [tasks EXCEPT ![c].stage =
              IF AlreadyFired(store[t.node], key(t)) THEN "done" ELSE "dispatch"]
        /\ UNCHANGED <<submitVars, now, store, reconciled, executed>>

\* fireJob looks for the key in the store of its node and works out the next run.
fireJob(c) ==
    LET t == tasks[c]
    IN  /\ t.stage = "check"
        /\ tasks' = [tasks EXCEPT ![c] =
              IF AlreadyFired(store[t.node], key(t)) \/ nextRun(t.at) = 0
              THEN [t EXCEPT !.stage = "done"]
              ELSE [t EXCEPT !.stage = "update", !.job.nextRun = nextRun(t.at)]]
        /\ UNCHANGED <<submitVars, now, store, reconciled, executed>>

\* What the task submits at its stage.
command(t) ==
    CASE t.stage = "update" -> [op |-> "update_job", id |-> t.id, job |-> t.job]
      [] t.stage = "record" ->
            [op |-> "record_run", id |-> t.id,
             run |-> [key |-> key(t), id |-> t.id, status |-> "running", finished |-> FALSE]]
      [] t.stage = "final" ->
            [op |-> "record_run", id |-> t.id,
             run |-> [key |-> key(t), id |-> t.id, status |-> t.status, finished |-> TRUE]]
      [] t.stage = "submit" -> [op |-> t.by, id |-> t.id, job |-> t.job]

submit(c) ==
    /\ tasks[c].stage \in {"update", "record", "final", "submit"}
    /\ Start(c, tasks[c].node, command(tasks[c]))
    /\ UNCHANGED schedVars

\* The job runs whatever became of its record.
BugIgnoreError(stage, outcome) ==
    CASE stage = "update" /\ outcome = "nil" -> "record"
      [] stage = "record" -> "dispatch"
      [] OTHER -> "done"

\* Where Submit's answer leads: an error ends fireJob before the job has run.
after(stage, outcome) ==
    CASE stage = "update" /\ outcome = "nil" -> "record"
      [] stage = "record" /\ outcome = "nil" -> "dispatch"
      [] OTHER -> "done"

submitReturns(c) ==
    /\ calls[c].pc \in Outcome
    /\ tasks' = [tasks EXCEPT ![c].stage = after(@, calls[c].pc)]
    /\ calls' = [calls EXCEPT ![c] = NoCall]
    /\ UNCHANGED <<raftVars, crashes, applied, waiters, now, store, reconciled, executed>>

\* The outcome is recorded before the executor has run.
BugRecordFirst(c) ==
    /\ tasks[c].stage = "dispatch"
    /\ \E status \in {"success", "failed"} :
          tasks' = [tasks EXCEPT ![c].stage = "final", ![c].status = status]
    /\ UNCHANGED <<submitVars, now, store, reconciled, executed>>

\* exec.Dispatch: the executor runs the job and succeeds or fails.
Dispatch(c) ==
    /\ tasks[c].stage = "dispatch"
    /\ executed' = [executed EXCEPT ![key(tasks[c])] = @ \cup {c}]
    /\ \E status \in {"success", "failed"} :
          tasks' = [tasks EXCEPT ![c].stage = "final", ![c].status = status]
    /\ UNCHANGED <<submitVars, now, store, reconciled>>

-----------------------------------------------------------------------------
(* The store, Raft and the world *)

\* The store of node i applies the next command.
applyLoop(i) ==
    /\ applyNext(i)
    /\ store' = [store EXCEPT ![i] = applyCommand(@, log[applied[i] + 1])]
    /\ UNCHANGED <<now, tasks, reconciled, executed>>

installSnapshot(i, j) ==
    /\ applySnapshot(i, j)
    /\ store' = [store EXCEPT ![i] = store[j]]
    /\ UNCHANGED <<now, tasks, reconciled, executed>>

raftStep(i) ==
    /\ elect(i) \/ stepDown(i)
    /\ UNCHANGED schedVars

\* The process dies; its tasks are gone, its store is in the snapshot.
restart(i) ==
    /\ crash(i)
    /\ tasks' = [c \in Caller |-> IF tasks[c].node = i THEN [tasks[c] EXCEPT !.stage = "done"]
                                  ELSE tasks[c]]
    /\ reconciled' = reconciled \ {i}
    /\ UNCHANGED <<now, store, executed>>

clock ==
    /\ now < MaxMinute
    /\ now' = now + 1
    /\ UNCHANGED <<submitVars, store, tasks, reconciled, executed>>

\* Every node starts from a snapshot with the jobs in it, each due in the first minute.
Init ==
    /\ SubmitInit
    /\ now = 0
    /\ \E policy \in Policies :
          store = [i \in Node |->
                     [jobs |-> [id \in Job |-> [NoJob EXCEPT !.enabled = TRUE, !.nextRun = 1,
                                                             !.policy = policy]],
                      runs |-> <<>>]]
    /\ tasks = [c \in Caller |-> FreeTask]
    /\ reconciled = {}
    /\ executed = [k \in Job \X (0 .. MaxMinute) |-> {}]
    /\ overtaken = {}

Step ==
    \/ \E i \in Node :
          \/ tick(i)
          \/ ReconcileMissedJobs(i)
          \/ \E id \in Job : FireNow(i, id) \/ createJob(i, id) \/ deleteJob(i, id)
          \/ applyLoop(i)
          \/ \E j \in Node : installSnapshot(i, j)
          \/ raftStep(i)
          \/ restart(i)
    \/ \E c \in Caller :
          \/ fireJob(c)
          \/ submit(c)
          \/ (registerWaiter(c) \/ timeout(c)) /\ UNCHANGED schedVars
          \/ submitReturns(c)
          \/ Dispatch(c)
    \/ commit /\ UNCHANGED schedVars
    \/ clock

\* Whether what the task submitted is committed at the index Start returned
isCommitted(c) ==
    calls[c].index \in 1 .. Len(log) /\ log[calls[c].index] = command(tasks[c])

\* Tasks that wait for their running record on a node after which another one was elected
atDeposed ==
    {c \in Caller : /\ tasks[c].stage = "record"
                    /\ calls[c].pc \in {"started", "waiting"}
                    /\ calls[c].node # leader
                    /\ ~isCommitted(c)}

Next == Step /\ overtaken' = overtaken \cup atDeposed'

Spec == Init /\ [][Next]_vars

-----------------------------------------------------------------------------
(* Properties *)

JobType == [enabled : BOOLEAN, policy : {"skip", "run_once", "other"}, nextRun : 0 .. MaxMinute,
            lastStatus : {"", "running", "success", "failed"}]
RunType == [key : Job \X (0 .. MaxMinute), id : Job,
            status : {"running", "success", "failed"}, finished : BOOLEAN]

\* TypeOK: the shape of the state; a store holds well-formed jobs and no more runs than
\* maxRuns, whatever commands were committed in which order.
TypeOK ==
    /\ now \in 0 .. MaxMinute
    /\ \A i \in Node :
          /\ DOMAIN store[i].jobs \subseteq Job
          /\ \A id \in DOMAIN store[i].jobs : store[i].jobs[id] \in JobType
          /\ store[i].runs \in Seq(RunType) /\ Len(store[i].runs) <= MaxRuns
    /\ \A c \in Caller :
          /\ tasks[c].stage \in {"free", "check", "update", "record", "dispatch", "final",
                                 "submit", "done"}
          /\ tasks[c].job \in JobType /\ tasks[c].node \in Node \cup {Nil}
    /\ reconciled \subseteq Node
    /\ executed \in [Job \X (0 .. MaxMinute) -> SUBSET Caller]

\* RunsUnique: no store has two records of one firing, although the running and the final
\* record, and those of leaders that fired twice, come in any order (upsertRun).
RunsUnique ==
    \A i \in Node : \A a, b \in 1 .. Len(store[i].runs) :
        store[i].runs[a].key = store[i].runs[b].key => a = b

\* FinishedWasExecuted: a run that any store shows as finished was given to the executor,
\* whatever failed or was repeated on the way (fireJob, mergeRun).
FinishedWasExecuted ==
    \A i \in Node : \A k \in 1 .. Len(store[i].runs) :
        store[i].runs[k].finished => executed[store[i].runs[k].key] # {}

\* RecordedBeforeRun: "No replicated run record means we should not continue with side
\* effects" - what the executor was given has its record in the committed log, unless another
\* node was elected before the record was committed: then Submit may have answered nil for
\* the command the new leader put at the same index.
RecordedBeforeRun ==
    \A k \in DOMAIN executed :
        executed[k] \ overtaken # {} =>
            \E n \in 1 .. Len(log) : log[n].op = "record_run" /\ log[n].run.key = k

recordedFirings ==
    {log[n].run.key : n \in {n \in 1 .. Len(log) : log[n].op = "record_run"}}

\* The stores know of every recorded firing: no job was deleted with its runs, and no more
\* firings were recorded than a store keeps.
historyComplete ==
    /\ \A n \in 1 .. Len(log) : log[n].op # "delete_job"
    /\ Cardinality(recordedFirings) <= MaxRuns

\* RepeatedOnlyByOthers: when a firing is executed twice, it was started on two nodes or in
\* two ways (tick, catch-up), or by requests: the ticks of one node, also after a restart,
\* execute it once, because its record is replicated before the job runs (fireJob).
RepeatedOnlyByOthers ==
    historyComplete =>
        \A k \in DOMAIN executed : \A c, d \in executed[k] \ overtaken :
            c # d => \/ tasks[c].node # tasks[d].node
                     \/ tasks[c].by # tasks[d].by
                     \/ tasks[c].by = "trigger"

\* ExecutedOnce: a firing, which its key identifies, is executed at most once ("Leader
\* failover does not cause double execution"), not counting the goroutines whose Submit may
\* have been woken by another command (fireJob, Submit).
ExecutedOnce == \A k \in DOMAIN executed : Cardinality(executed[k] \ overtaken) <= 1

=============================================================================
