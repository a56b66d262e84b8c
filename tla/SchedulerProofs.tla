-------------------------- MODULE SchedulerProofs --------------------------
(***************************************************************************)
(* Proofs about the records of runs, for any nodes, jobs and goroutines,   *)
(* and any number of elections and crashes.                                *)
(***************************************************************************)
EXTENDS Scheduler, TLAPS, FiniteSetTheorems, SequenceTheorems, WellFoundedInduction

Key == Job \X (0 .. MaxMinute)

\* A record of a run that is finished only if the executor had the firing ...
BackedRun == {run \in RunType : run.finished => executed[run.key] # {}}

\* ... and the commands that tasks submit: a job, or such a record.
BackedCommand ==
    [op : {"create_job", "update_job", "delete_job"}, id : Job, job : JobType]
    \cup [op : {"record_run"}, id : Job, run : BackedRun]

uniqueKeys(runs) ==
    \A a, b \in 1 .. Len(runs) : runs[a].key = runs[b].key => a = b

isJobMap(jobs) ==
    /\ DOMAIN jobs \subseteq Job
    /\ jobs = [id \in DOMAIN jobs |-> jobs[id]]
    /\ \A id \in DOMAIN jobs : jobs[id] \in JobType

isStore(st) ==
    /\ st = [jobs |-> st.jobs, runs |-> st.runs]
    /\ isJobMap(st.jobs)
    /\ st.runs \in Seq(BackedRun) /\ Len(st.runs) <= MaxRuns
    /\ uniqueKeys(st.runs)

-----------------------------------------------------------------------------
(* The state machine of the store *)

LEMMA SeqMonotone ==
    ASSUME NEW S, NEW T, S \subseteq T, NEW s \in Seq(S)
    PROVE  s \in Seq(T)
  OBVIOUS

LEMMA MaxOfPair ==
    ASSUME NEW n \in Int
    PROVE  /\ Max({1, n}) \in Int
           /\ Max({1, n}) >= 1 /\ Max({1, n}) >= n
           /\ Max({1, n}) = 1 \/ Max({1, n}) = n
  <1> DEFINE largest == IF n >= 1 THEN n ELSE 1
  <1>1. largest \in {1, n} /\ \A y \in {1, n} : largest >= y
    OBVIOUS
  <1>2. Max({1, n}) \in {1, n} /\ \A y \in {1, n} : Max({1, n}) >= y
    BY <1>1 DEF Max
  <1> QED BY <1>2

LEMMA MinOfOne ==
    ASSUME NEW n \in Int
    PROVE  Min({n}) = n
  <1>1. n \in {n} /\ \A y \in {n} : n <= y
    OBVIOUS
  <1>2. Min({n}) \in {n}
    BY <1>1 DEF Min
  <1> QED BY <1>2

\* The newest runs of a history with different keys are some of its runs.
LEMMA LastRunsOK ==
    ASSUME NEW S, NEW runs \in Seq(S), uniqueKeys(runs)
    PROVE  /\ lastRuns(runs) \in Seq(S) /\ Len(lastRuns(runs)) <= MaxRuns
           /\ uniqueKeys(lastRuns(runs))
  <1> DEFINE from == Max({1, Len(runs) - MaxRuns + 1})
  <1>1. Len(runs) - MaxRuns + 1 \in Int
    BY MaxRunsAssumption
  <1>2. from \in 1 .. Len(runs) + 1 /\ from >= Len(runs) - MaxRuns + 1
    BY <1>1, MaxOfPair, MaxRunsAssumption
  <1> HIDE DEF from
  <1>3. /\ SubSeq(runs, from, Len(runs)) \in Seq(S)
        /\ Len(SubSeq(runs, from, Len(runs))) = Len(runs) - from + 1
        /\ \A k \in 1 .. Len(runs) - from + 1 :
              SubSeq(runs, from, Len(runs))[k] = runs[from + k - 1]
    BY <1>2, SubSeqProperties
  <1>4. lastRuns(runs) = SubSeq(runs, from, Len(runs))
    BY DEF lastRuns, from
  <1>5. uniqueKeys(SubSeq(runs, from, Len(runs)))
    <2> SUFFICES ASSUME NEW a \in 1 .. Len(runs) - from + 1, NEW b \in 1 .. Len(runs) - from + 1,
                        runs[from + a - 1].key = runs[from + b - 1].key
                 PROVE  a = b
      BY <1>3 DEF uniqueKeys
    <2>1. from + a - 1 \in 1 .. Len(runs) /\ from + b - 1 \in 1 .. Len(runs)
      BY <1>2
    <2>2. from + a - 1 = from + b - 1
      BY <2>1 DEF uniqueKeys
    <2> QED BY <2>2, <1>2
  <1>6. Len(runs) - from + 1 <= MaxRuns
    BY <1>1, <1>2, MaxRunsAssumption
  <1> QED BY <1>3, <1>4, <1>5, <1>6

LEMMA RunFieldsOK ==
    ASSUME NEW st, isStore(st), NEW run \in RunType
    PROVE  isStore(updateJobRunFields(st, run))
  <1>1. CASE run.id \in DOMAIN st.jobs
    <2> DEFINE jobs == [st.jobs EXCEPT ![run.id].lastStatus = run.status]
    <2>1. updateJobRunFields(st, run) = [jobs |-> jobs, runs |-> st.runs]
      BY <1>1 DEF updateJobRunFields, isStore
    <2>2. run.status \in {"running", "success", "failed"}
      BY DEF RunType
    <2>3. isJobMap(jobs)
      <3>1. DOMAIN jobs = DOMAIN st.jobs
        BY DEF isStore, isJobMap
      <3>2. jobs = [id \in DOMAIN st.jobs |-> jobs[id]]
        BY DEF isStore, isJobMap
      <3>3. \A id \in DOMAIN st.jobs : jobs[id] \in JobType
        BY <2>2 DEF isStore, isJobMap, JobType
      <3> QED BY <3>1, <3>2, <3>3 DEF isStore, isJobMap
    <2> HIDE DEF jobs
    <2> QED BY <2>1, <2>3 DEF isStore
  <1>2. CASE run.id \notin DOMAIN st.jobs
    BY <1>2 DEF updateJobRunFields
  <1> QED BY <1>1, <1>2

LEMMA MergeOK ==
    ASSUME NEW existing \in BackedRun, NEW run \in BackedRun, existing.key = run.key
    PROVE  mergeRun(existing, run) \in BackedRun /\ mergeRun(existing, run).key = run.key
  BY DEF mergeRun, BackedRun, RunType

LEMMA UpsertRunOK ==
    ASSUME NEW st, isStore(st), NEW run \in BackedRun
    PROVE  isStore(upsertRun(st, run))
  <1> DEFINE same == {k \in 1 .. Len(st.runs) : st.runs[k].key = run.key}
             merged == mergeRun(st.runs[Min(same)], run)
  <1>0. run \in RunType
    BY DEF BackedRun
  <1>1. CASE same # {}
    <2>1. PICK k \in 1 .. Len(st.runs) : st.runs[k].key = run.key
      BY <1>1
    <2>2. same = {k}
      BY <2>1 DEF isStore, uniqueKeys
    <2>3. Min(same) = k
      BY <2>2, MinOfOne
    <2>4. merged = mergeRun(st.runs[k], run)
      BY <2>3
    <2>5. st.runs[k] \in BackedRun
      BY DEF isStore
    <2>6. merged \in BackedRun /\ merged.key = run.key
      BY <2>1, <2>4, <2>5, MergeOK
    <2>7. upsertRun(st, run)
          = updateJobRunFields([st EXCEPT !.runs[k] = merged], merged)
      BY <1>1, <2>3 DEF upsertRun
    <2> HIDE DEF merged, same
    <2>8. isStore([st EXCEPT !.runs[k] = merged])
      <3> DEFINE new == [st.runs EXCEPT ![k] = merged]
      <3>1. [st EXCEPT !.runs[k] = merged] = [jobs |-> st.jobs, runs |-> new]
        BY DEF isStore
      <3>2. new \in Seq(BackedRun) /\ Len(new) = Len(st.runs)
        BY <2>6 DEF isStore
      <3>3. \A j \in 1 .. Len(st.runs) : new[j].key = st.runs[j].key
        BY <2>1, <2>6 DEF isStore
      <3>4. uniqueKeys(new)
        BY <3>2, <3>3 DEF isStore, uniqueKeys
      <3> HIDE DEF new
      <3> QED BY <3>1, <3>2, <3>4 DEF isStore
    <2>9. merged \in RunType
      BY <2>6 DEF BackedRun
    <2> QED BY <2>7, <2>8, <2>9, RunFieldsOK
  <1>2. CASE same = {}
    <2> DEFINE longer == Append(st.runs, run)
    <2>1. upsertRun(st, run)
          = updateJobRunFields([jobs |-> st.jobs, runs |-> lastRuns(longer)], run)
      <3>1. [st EXCEPT !.runs = lastRuns(Append(@, run))]
            = [jobs |-> st.jobs, runs |-> lastRuns(longer)]
        BY DEF isStore
      <3> QED BY <1>2, <3>1 DEF upsertRun
    <2>2. st.runs \in Seq(BackedRun) /\ uniqueKeys(st.runs)
      BY DEF isStore
    <2>3. longer \in Seq(BackedRun) /\ Len(longer) = Len(st.runs) + 1
      BY <2>2
    <2>4. uniqueKeys(longer)
      <3>1. \A k \in 1 .. Len(st.runs) : longer[k] = st.runs[k] /\ st.runs[k].key # run.key
        BY <1>2, <2>2
      <3>2. longer[Len(st.runs) + 1] = run
        BY <2>2
      <3>3. Len(st.runs) \in Nat
        BY <2>2
      <3> HIDE DEF longer
      <3> SUFFICES ASSUME NEW a \in 1 .. Len(st.runs) + 1, NEW b \in 1 .. Len(st.runs) + 1,
                          longer[a].key = longer[b].key
                   PROVE  a = b
        BY <2>3 DEF uniqueKeys
      <3>4. CASE a \in 1 .. Len(st.runs) /\ b \in 1 .. Len(st.runs)
        BY <2>2, <3>1, <3>4 DEF uniqueKeys
      <3>5. CASE a = Len(st.runs) + 1 \/ b = Len(st.runs) + 1
        <4>1. ~(a \in 1 .. Len(st.runs)) \/ ~(b \in 1 .. Len(st.runs))
          BY <3>3, <3>5
        <4>2. a \in 1 .. Len(st.runs) \/ a = Len(st.runs) + 1
          BY <3>3
        <4>3. b \in 1 .. Len(st.runs) \/ b = Len(st.runs) + 1
          BY <3>3
        <4> QED BY <3>1, <3>2, <4>1, <4>2, <4>3
      <3> QED BY <3>3, <3>4, <3>5
    <2> HIDE DEF longer
    <2>5. /\ lastRuns(longer) \in Seq(BackedRun) /\ Len(lastRuns(longer)) <= MaxRuns
          /\ uniqueKeys(lastRuns(longer))
      BY <2>3, <2>4, LastRunsOK
    <2>6. isStore([jobs |-> st.jobs, runs |-> lastRuns(longer)])
      BY <2>5 DEF isStore
    <2> QED BY <1>0, <2>1, <2>6, RunFieldsOK
  <1> QED BY <1>1, <1>2

LEMMA UpsertJobOK ==
    ASSUME NEW st, isStore(st), NEW id \in Job, NEW job \in JobType
    PROVE  isStore(upsertJob(st, id, job))
  <1> DEFINE jobs == [k \in DOMAIN st.jobs \cup {id} |-> IF k = id THEN job ELSE st.jobs[k]]
  <1>1. upsertJob(st, id, job) = [jobs |-> jobs, runs |-> st.runs]
    BY DEF upsertJob, isStore
  <1>2. isJobMap(jobs)
    BY DEF isStore, isJobMap
  <1> HIDE DEF jobs
  <1> QED BY <1>1, <1>2 DEF isStore

\* Induction over the runs goes by the first one that makes an exception.
LEMMA FirstException ==
    ASSUME NEW S, S \subseteq Nat, S # {}
    PROVE  \E x \in S : \A y \in S : x <= y
  <1> DEFINE R == {ss \in Nat \X Nat : ss[1] < ss[2]}
  <1>1. IsWellFoundedOn(R, Nat)
    BY NatLessThanWellFounded DEF OpToRel
  <1>2. PICK x \in S : \A y \in S : ~ (<<y, x>> \in R)
    <2> HIDE DEF R
    <2> QED BY <1>1, WFMin
  <1>3. ASSUME NEW y \in S PROVE x <= y
    <2>1. x \in Nat /\ y \in Nat
      OBVIOUS
    <2>2. y < x => <<y, x>> \in R
      BY <2>1
    <2> QED BY <1>2, <2>1, <2>2
  <1> QED BY <1>3

\* What the loop of withoutJob has kept after n runs, from what it kept before, ...
keep(runs, id, g, n) ==
    IF n = 0 THEN <<>>
    ELSE IF runs[n].id # id THEN Append(g[n - 1], runs[n]) ELSE g[n - 1]

\* ... and the course of the loop over the first m runs.
isCourse(runs, id, g, m) == g = [n \in 0 .. m |-> keep(runs, id, g, n)]

LEMMA CourseExists ==
    ASSUME NEW runs, NEW id, NEW len \in Nat
    PROVE  \E g : isCourse(runs, id, g, len)
  <1> DEFINE bad == {m \in 0 .. len : ~ \E g : isCourse(runs, id, g, m)}
  <1> SUFFICES bad = {}
    OBVIOUS
  <1> SUFFICES ASSUME bad # {} PROVE FALSE
    OBVIOUS
  <1>1. PICK m \in bad : \A y \in bad : m <= y
    <2>1. bad \subseteq Nat
      OBVIOUS
    <2> HIDE DEF bad
    <2> QED BY <2>1, FirstException
  <1>2. CASE m = 0
    <2> DEFINE g == [n \in 0 .. 0 |-> <<>>]
    <2>1. isCourse(runs, id, g, 0)
      BY DEF isCourse, keep
    <2> HIDE DEF g
    <2> QED BY <1>1, <1>2, <2>1
  <1>3. CASE m # 0
    <2>1. m \in 1 .. len /\ m - 1 \in 0 .. len /\ m - 1 \notin bad
      BY <1>1, <1>3
    <2>2. PICK g : isCourse(runs, id, g, m - 1)
      BY <2>1
    <2> DEFINE h == [n \in 0 .. m |-> keep(runs, id, g, n)]
    <2>3. \A n \in 0 .. m - 1 : h[n] = g[n]
      BY <2>1, <2>2 DEF isCourse
    <2>4. ASSUME NEW n \in 0 .. m PROVE keep(runs, id, h, n) = keep(runs, id, g, n)
      <3>1. n = 0 \/ n - 1 \in 0 .. m - 1
        BY <2>1
      <3> HIDE DEF h
      <3> QED BY <2>3, <3>1 DEF keep
    <2>5. h = [n \in 0 .. m |-> keep(runs, id, h, n)]
      BY <2>4
    <2>6. isCourse(runs, id, h, m)
      BY <2>5 DEF isCourse
    <2> HIDE DEF h
    <2> QED BY <1>1, <2>6
  <1> QED BY <1>2, <1>3

\* The runs that a delete leaves are some of the runs, no more and no two the same.
LEMMA WithoutJobOK ==
    ASSUME NEW S, NEW runs \in Seq(S), uniqueKeys(runs), NEW id
    PROVE  /\ withoutJob(runs, id) \in Seq(S) /\ Len(withoutJob(runs, id)) <= Len(runs)
           /\ uniqueKeys(withoutJob(runs, id))
  <1> DEFINE g == CHOOSE f : isCourse(runs, id, f, Len(runs))
             some(s, n) ==
                /\ s \in Seq(S) /\ Len(s) <= n /\ uniqueKeys(s)
                /\ \A a \in 1 .. Len(s) : \E k \in 1 .. n : s[a] = runs[k]
             bad == {n \in 0 .. Len(runs) : ~ some(g[n], n)}
  <1>1. Len(runs) \in Nat
    OBVIOUS
  <1>2. isCourse(runs, id, g, Len(runs))
    BY <1>1, CourseExists
  <1>3. withoutJob(runs, id) = g[Len(runs)]
    BY DEF withoutJob, isCourse, keep
  <1> HIDE DEF g
  <1>4. ASSUME NEW n \in 0 .. Len(runs) PROVE g[n] = keep(runs, id, g, n)
    BY <1>2 DEF isCourse
  <1>5. bad = {}
    <2> SUFFICES ASSUME bad # {} PROVE FALSE
      OBVIOUS
    <2>1. PICK n \in bad : \A y \in bad : n <= y
      <3>1. bad \subseteq Nat
        OBVIOUS
      <3> HIDE DEF bad
      <3> QED BY <3>1, FirstException
    <2>2. n \in 0 .. Len(runs) /\ ~ some(g[n], n)
      BY <2>1
    <2>3. CASE n = 0
      <3>1. g[n] = <<>>
        BY <1>4, <2>2, <2>3 DEF keep
      <3>2. some(<<>>, 0)
        BY DEF uniqueKeys
      <3> QED BY <2>2, <2>3, <3>1, <3>2
    <2>4. CASE n # 0
      <3>1. n \in 1 .. Len(runs) /\ n - 1 \in 0 .. Len(runs) /\ n - 1 \notin bad
        BY <2>1, <2>2, <2>4
      <3>2. some(g[n - 1], n - 1)
        BY <3>1
      <3>3. g[n] = g[n - 1] \/ g[n] = Append(g[n - 1], runs[n])
        BY <1>4, <2>2, <2>4 DEF keep
      <3> DEFINE s == g[n - 1]
                 longer == Append(s, runs[n])
      <3>4. /\ s \in Seq(S) /\ Len(s) \in Nat /\ Len(s) <= n - 1 /\ uniqueKeys(s)
            /\ \A a \in 1 .. Len(s) : \E k \in 1 .. n - 1 : s[a] = runs[k]
        BY <3>2
      <3> HIDE DEF s
      <3>5. some(s, n)
        BY <3>1, <3>4
      <3>6. /\ longer \in Seq(S) /\ Len(longer) = Len(s) + 1
            /\ \A a \in 1 .. Len(s) : longer[a] = s[a]
            /\ longer[Len(s) + 1] = runs[n]
        BY <3>1, <3>4
      <3> HIDE DEF longer
      <3>7. \A a \in 1 .. Len(s) : s[a].key # runs[n].key
        <4> SUFFICES ASSUME NEW a \in 1 .. Len(s) PROVE s[a].key # runs[n].key
          OBVIOUS
        <4>1. PICK k \in 1 .. n - 1 : s[a] = runs[k]
          BY <3>4
        <4>2. k \in 1 .. Len(runs) /\ k # n
          BY <3>1
        <4> QED BY <3>1, <4>1, <4>2 DEF uniqueKeys
      <3>8. uniqueKeys(longer)
        <4> SUFFICES ASSUME NEW a \in 1 .. Len(s) + 1, NEW b \in 1 .. Len(s) + 1,
                            longer[a].key = longer[b].key
                     PROVE  a = b
          BY <3>6 DEF uniqueKeys
        <4>1. CASE a \in 1 .. Len(s) /\ b \in 1 .. Len(s)
          BY <3>4, <3>6, <4>1 DEF uniqueKeys
        <4>2. CASE a \in 1 .. Len(s) /\ b = Len(s) + 1
          BY <3>6, <3>7, <4>2
        <4>3. CASE a = Len(s) + 1 /\ b \in 1 .. Len(s)
          BY <3>6, <3>7, <4>3
        <4> QED BY <3>4, <4>1, <4>2, <4>3
      <3>9. some(longer, n)
        <4>1. Len(longer) <= n
          BY <3>1, <3>4, <3>6
        <4>2. ASSUME NEW a \in 1 .. Len(longer)
              PROVE  \E k \in 1 .. n : longer[a] = runs[k]
          <5>1. CASE a \in 1 .. Len(s)
            <6>1. PICK k \in 1 .. n - 1 : s[a] = runs[k]
              BY <3>4, <5>1
            <6>2. k \in 1 .. n
              BY <3>1
            <6> QED BY <3>6, <5>1, <6>1, <6>2
          <5>2. CASE a = Len(s) + 1
            <6>1. n \in 1 .. n
              BY <3>1
            <6> QED BY <3>6, <5>2, <6>1
          <5> QED BY <3>4, <3>6, <5>1, <5>2
        <4> QED BY <3>6, <3>8, <4>1, <4>2
      <3>10. g[n] = s \/ g[n] = longer
        BY <3>3 DEF s, longer
      <3> HIDE DEF some
      <3> QED BY <2>2, <3>5, <3>9, <3>10
    <2> QED BY <2>3, <2>4
  <1>6. some(g[Len(runs)], Len(runs))
    BY <1>1, <1>5
  <1> QED BY <1>3, <1>6

LEMMA DeleteFromOK ==
    ASSUME NEW st, isStore(st), NEW id \in Job
    PROVE  isStore(deleteFrom(st, id))
  <1> DEFINE jobs == [k \in DOMAIN st.jobs \ {id} |-> st.jobs[k]]
             runs == withoutJob(st.runs, id)
  <1>1. deleteFrom(st, id) = [jobs |-> jobs, runs |-> runs]
    BY DEF deleteFrom
  <1>2. isJobMap(jobs)
    BY DEF isStore, isJobMap
  <1>3. st.runs \in Seq(BackedRun) /\ uniqueKeys(st.runs) /\ Len(st.runs) <= MaxRuns
    BY DEF isStore
  <1>4. runs \in Seq(BackedRun) /\ Len(runs) <= Len(st.runs) /\ uniqueKeys(runs)
    BY <1>3, WithoutJobOK
  <1> HIDE DEF jobs, runs
  <1>5. Len(runs) <= MaxRuns
    BY <1>3, <1>4, MaxRunsAssumption
  <1> QED BY <1>1, <1>2, <1>4, <1>5 DEF isStore

LEMMA ApplyCommandOK ==
    ASSUME NEW st, isStore(st), NEW cmd \in BackedCommand
    PROVE  isStore(applyCommand(st, cmd))
  <1>1. CASE cmd \in [op : {"create_job", "update_job", "delete_job"}, id : Job, job : JobType]
    <2>1. CASE cmd.op # "delete_job"
      <3>1. applyCommand(st, cmd) = upsertJob(st, cmd.id, cmd.job)
        BY <1>1, <2>1 DEF applyCommand
      <3> QED BY <1>1, <3>1, UpsertJobOK
    <2>2. CASE cmd.op = "delete_job"
      <3>1. applyCommand(st, cmd) = deleteFrom(st, cmd.id)
        BY <2>2 DEF applyCommand
      <3> QED BY <1>1, <3>1, DeleteFromOK
    <2> QED BY <2>1, <2>2
  <1>2. CASE cmd \in [op : {"record_run"}, id : Job, run : BackedRun]
    <2>1. applyCommand(st, cmd) = upsertRun(st, cmd.run)
      BY <1>2 DEF applyCommand
    <2> QED BY <1>2, <2>1, UpsertRunOK
  <1> QED BY <1>1, <1>2 DEF BackedCommand

-----------------------------------------------------------------------------
(* The invariant *)

\* What any node has in its log may be committed and applied one day.
LogsOK ==
    /\ log \in Seq(BackedCommand) /\ tail \in Seq(BackedCommand) /\ inherited \in Nat
    /\ leader \in Node
    /\ deposed \in [Node -> [base : Nat, tail : Seq(BackedCommand)]]
    /\ applied \in [Node -> Nat]

StoresOK == \A i \in Node : isStore(store[i])

Stage == {"free", "check", "update", "record", "dispatch", "final", "submit", "done"}

TaskType ==
    [stage : Stage,
     by : {"", "tick", "reconcile", "trigger", "create_job", "update_job", "delete_job"},
     node : Node \cup {Nil}, id : Job \cup {Nil}, job : JobType,
     minute : 0 .. MaxMinute, at : 0 .. MaxMinute, status : {"", "success", "failed"}]

\* A task at work has a node and a job; it comes to its final record by way of the executor.
isTask(t) ==
    /\ t \in TaskType
    /\ t.stage \notin {"free", "done"} => t.node \in Node /\ t.id \in Job
    /\ t.stage = "submit" => t.by \in {"create_job", "update_job", "delete_job"}
    /\ t.stage = "final" => t.status # "" /\ executed[key(t)] # {}

TasksOK == tasks \in [Caller -> TaskType] /\ \A c \in Caller : isTask(tasks[c])

SchedInv ==
    /\ now \in 0 .. MaxMinute
    /\ executed \in [Key -> SUBSET Caller]
    /\ store \in [Node -> {store[i] : i \in Node}]
    /\ LogsOK /\ StoresOK /\ TasksOK

LEMMA NoJobOK == NoJob \in JobType
  BY SchedulerAssumption DEF NoJob, JobType

LEMMA NewJobOK ==
    ASSUME NEW job \in JobType, NEW enabled \in BOOLEAN, NEW minute \in 0 .. MaxMinute,
           NEW policy \in {"skip", "run_once", "other"}
    PROVE  /\ [job EXCEPT !.enabled = enabled, !.nextRun = minute, !.policy = policy] \in JobType
           /\ [job EXCEPT !.enabled = enabled, !.policy = policy, !.nextRun = minute] \in JobType
           /\ [job EXCEPT !.nextRun = minute] \in JobType
  BY DEF JobType

LEMMA FreeTaskOK == isTask(FreeTask)
  BY NoJobOK, SchedulerAssumption DEF isTask, TaskType, FreeTask, Stage

LEMMA SchedInit == Init => SchedInv
  <1> SUFFICES ASSUME Init PROVE SchedInv
    OBVIOUS
  <1>1. now \in 0 .. MaxMinute /\ executed \in [Key -> SUBSET Caller]
    BY SchedulerAssumption DEF Init, Key
  <1>2. LogsOK
    BY DEF Init, SubmitInit, LogsOK
  <1>3. TasksOK
    BY ZenonT(60), FreeTaskOK DEF Init, TasksOK, isTask
  <1>4. PICK policy \in Policies :
           store = [i \in Node |->
                     [jobs |-> [id \in Job |-> [NoJob EXCEPT !.enabled = TRUE, !.nextRun = 1,
                                                             !.policy = policy]],
                      runs |-> <<>>]]
    BY DEF Init
  <1>5. [NoJob EXCEPT !.enabled = TRUE, !.nextRun = 1, !.policy = policy] \in JobType
    <2>1. TRUE \in BOOLEAN /\ policy \in {"skip", "run_once", "other"} /\ 1 \in 0 .. MaxMinute
      BY SchedulerAssumption
    <2> QED BY <2>1, NoJobOK, NewJobOK
  <1>6. isJobMap([id \in Job |-> [NoJob EXCEPT !.enabled = TRUE, !.nextRun = 1,
                                               !.policy = policy]])
    BY <1>5 DEF isJobMap
  <1>7. StoresOK
    <2> SUFFICES ASSUME NEW i \in Node PROVE isStore(store[i])
      BY DEF StoresOK
    <2>1. uniqueKeys(<<>>) /\ <<>> \in Seq(BackedRun) /\ Len(<<>>) <= MaxRuns
      BY MaxRunsAssumption DEF uniqueKeys
    <2> QED BY <1>4, <1>6, <2>1 DEF isStore
  <1>8. store \in [Node -> {store[i] : i \in Node}]
    BY <1>4
  <1> QED BY <1>1, <1>2, <1>3, <1>7, <1>8 DEF SchedInv

\* What was backed stays so: executions are never forgotten.
LEMMA BackedGrows ==
    ASSUME SchedInv, \A k \in Key : executed[k] \subseteq executed'[k]
    PROVE  BackedRun \subseteq BackedRun' /\ BackedCommand \subseteq BackedCommand'
  <1>1. BackedRun \subseteq BackedRun'
    BY DEF BackedRun, RunType, Key
  <1> QED BY <1>1 DEF BackedCommand

LEMMA LogsStay ==
    ASSUME SchedInv, \A k \in Key : executed[k] \subseteq executed'[k],
           UNCHANGED <<log, tail, inherited, leader, deposed>>, applied' \in [Node -> Nat]
    PROVE  LogsOK'
  <1>1. BackedCommand \subseteq BackedCommand'
    BY BackedGrows
  <1>2. Seq(BackedCommand) \subseteq Seq(BackedCommand')
    BY <1>1, SeqMonotone
  <1> QED BY <1>2 DEF SchedInv, LogsOK

LEMMA StoresStay ==
    ASSUME SchedInv, \A k \in Key : executed[k] \subseteq executed'[k], UNCHANGED store
    PROVE  StoresOK'
  <1>1. Seq(BackedRun) \subseteq Seq(BackedRun')
    BY BackedGrows, SeqMonotone
  <1> QED BY ZenonT(60), <1>1 DEF SchedInv, StoresOK, isStore, isJobMap, uniqueKeys, JobType

LEMMA TasksStay ==
    ASSUME SchedInv, \A k \in Key : executed[k] \subseteq executed'[k],
           NEW t, isTask(t)
    PROVE  isTask(t)'
  <1> QED BY DEF SchedInv, isTask, TaskType, key, RunIdempotencyKey, Key, JobType

\* A step that leaves clock, stores and executions alone.
LEMMA QuietStep ==
    ASSUME SchedInv, UNCHANGED <<now, store, executed>>, LogsOK', TasksOK'
    PROVE  SchedInv'
  <1>1. StoresOK'
    BY StoresStay
  <1> QED BY <1>1 DEF SchedInv

-----------------------------------------------------------------------------
(* Who starts tasks *)

LEMMA GoOK ==
    ASSUME SchedInv, UNCHANGED <<submitVars, now, store, executed>>,
           NEW new, \A t \in new : isTask(t), go(new)
    PROVE  SchedInv'
  <1>1. PICK f \in [new -> {c \in Caller : tasks[c].stage = "free"}] :
           tasks' = [c \in Caller |-> IF \E t \in new : f[t] = c
                                      THEN CHOOSE t \in new : f[t] = c ELSE tasks[c]]
    BY DEF go
  <1>2. ASSUME NEW c \in Caller PROVE isTask(tasks'[c])
    <2>1. CASE \E t \in new : f[t] = c
      <3>1. tasks'[c] \in new
        BY <1>1, <2>1
      <3> QED BY <3>1
    <2>2. CASE ~ \E t \in new : f[t] = c
      BY <1>1, <2>2 DEF SchedInv, TasksOK
    <2> QED BY <2>1, <2>2
  <1>3. TasksOK'
    <2>1. \A c \in Caller : tasks'[c] \in TaskType
      BY <1>2 DEF isTask
    <2>2. tasks' \in [Caller -> TaskType]
      BY <1>1, <2>1
    <2>3. \A c \in Caller : isTask(tasks[c])'
      BY <1>2 DEF isTask, key, TaskType, JobType
    <2> QED BY <2>2, <2>3 DEF TasksOK, TaskType, JobType
  <1>4. LogsOK'
    BY LogsStay DEF submitVars, raftVars, SchedInv, LogsOK
  <1> QED BY <1>3, <1>4, QuietStep

LEMMA FiringShape ==
    ASSUME NEW t \in TaskType, NEW by \in {"tick", "reconcile", "trigger"}, NEW i \in Node,
           NEW id \in Job, NEW job \in JobType, NEW minute \in 0 .. MaxMinute,
           NEW at \in 0 .. MaxMinute
    PROVE  isTask([t EXCEPT !.stage = "check", !.by = by, !.node = i, !.id = id,
                            !.job = job, !.minute = minute, !.at = at])
  <1> DEFINE u == [t EXCEPT !.stage = "check", !.by = by, !.node = i, !.id = id,
                            !.job = job, !.minute = minute, !.at = at]
  <1> SUFFICES isTask(u)
    OBVIOUS
  <1>1. u \in TaskType
    BY DEF TaskType, Stage
  <1>2. u.stage = "check" /\ u.node = i /\ u.id = id
    BY DEF TaskType
  <1> HIDE DEF u
  <1> QED BY <1>1, <1>2 DEF isTask

LEMMA FiringOK ==
    ASSUME SchedInv, NEW by \in {"tick", "reconcile", "trigger"}, NEW i \in Node,
           NEW id \in DOMAIN store[i].jobs, NEW minute \in 0 .. MaxMinute
    PROVE  isTask(Firing(by, i, id, minute))
  <1>1. store[i].jobs[id] \in JobType /\ id \in Job
    BY DEF SchedInv, StoresOK, isStore, isJobMap
  <1>2. FreeTask \in TaskType /\ now \in 0 .. MaxMinute
    BY FreeTaskOK DEF SchedInv, isTask
  <1> QED BY ZenonT(60), <1>1, <1>2, FiringShape DEF Firing

LEMMA RequestOK ==
    ASSUME NEW op \in {"create_job", "update_job", "delete_job"}, NEW i \in Node, NEW id \in Job,
           NEW job \in JobType
    PROVE  isTask(Request(op, i, id, job))
  <1> DEFINE u == [FreeTask EXCEPT !.stage = "submit", !.by = op, !.node = i, !.id = id,
                                   !.job = job]
  <1>1. FreeTask \in TaskType
    BY FreeTaskOK DEF isTask
  <1>2. u \in TaskType
    BY <1>1 DEF TaskType, Stage
  <1>3. u.stage = "submit" /\ u.by = op /\ u.node = i /\ u.id = id
    BY <1>1 DEF TaskType
  <1>4. Request(op, i, id, job) = u
    BY DEF Request
  <1> HIDE DEF u
  <1> QED BY <1>2, <1>3, <1>4 DEF isTask

LEMMA NextRunOK ==
    ASSUME NEW minute \in 0 .. MaxMinute
    PROVE  nextRun(minute) \in 0 .. MaxMinute
  BY SchedulerAssumption DEF nextRun

LEMMA TickOK ==
    ASSUME SchedInv, NEW i \in Node, tick(i)
    PROVE  SchedInv'
  <1> DEFINE enabled == {id \in due(i) : store[i].jobs[id].enabled}
             new == {Firing("tick", i, id, store[i].jobs[id].nextRun) : id \in enabled}
  <1>1. go(new) /\ UNCHANGED <<submitVars, now, store, executed>>
    BY DEF tick
  <1>2. ASSUME NEW id \in enabled PROVE isTask(Firing("tick", i, id, store[i].jobs[id].nextRun))
    <2>1. id \in DOMAIN store[i].jobs /\ store[i].jobs[id] \in JobType
      BY DEF due, SchedInv, StoresOK, isStore, isJobMap
    <2>2. store[i].jobs[id].nextRun \in 0 .. MaxMinute
      BY <2>1 DEF JobType
    <2> QED BY <2>1, <2>2, FiringOK
  <1>3. \A t \in new : isTask(t)
    BY <1>2
  <1> HIDE DEF new
  <1> QED BY <1>1, <1>3, GoOK

LEMMA ReconcileOK ==
    ASSUME SchedInv, NEW i \in Node, ReconcileMissedJobs(i)
    PROVE  SchedInv'
  <1> DEFINE catchUp(id) ==
                LET job == store[i].jobs[id]
                IN  CASE job.policy = "run_once" -> {Firing("reconcile", i, id, job.nextRun)}
                      [] job.policy = "skip" /\ nextRun(now) # 0 ->
                            {Request("update_job", i, id, [job EXCEPT !.nextRun = nextRun(now)])}
                      [] OTHER -> {}
             new == UNION {catchUp(id) : id \in due(i)}
  <1>1. go(new) /\ UNCHANGED <<submitVars, now, store, executed>>
    BY DEF ReconcileMissedJobs
  <1>2. ASSUME NEW id \in due(i), NEW t \in catchUp(id) PROVE isTask(t)
    <2>1. /\ id \in DOMAIN store[i].jobs /\ id \in Job /\ store[i].jobs[id] \in JobType
      BY DEF due, SchedInv, StoresOK, isStore, isJobMap
    <2>2. store[i].jobs[id].nextRun \in 0 .. MaxMinute
      BY <2>1 DEF JobType
    <2>3. nextRun(now) \in 0 .. MaxMinute
      BY NextRunOK DEF SchedInv
    <2>4. [store[i].jobs[id] EXCEPT !.nextRun = nextRun(now)] \in JobType
      BY <2>1, <2>3 DEF JobType
    <2>5. isTask(Firing("reconcile", i, id, store[i].jobs[id].nextRun))
      BY <2>1, <2>2, FiringOK
    <2>6. isTask(Request("update_job", i, id,
                         [store[i].jobs[id] EXCEPT !.nextRun = nextRun(now)]))
      BY <2>1, <2>4, RequestOK
    <2>7. \/ t = Firing("reconcile", i, id, store[i].jobs[id].nextRun)
          \/ t = Request("update_job", i, id,
                         [store[i].jobs[id] EXCEPT !.nextRun = nextRun(now)])
      <3>1. CASE store[i].jobs[id].policy = "run_once"
        BY <3>1
      <3>2. CASE store[i].jobs[id].policy # "run_once"
        BY <3>2
      <3> QED BY <3>1, <3>2
    <2> QED BY <2>5, <2>6, <2>7
  <1> HIDE DEF catchUp
  <1>3. \A t \in new : isTask(t)
    BY <1>2
  <1> HIDE DEF new
  <1> QED BY <1>1, <1>3, GoOK

LEMMA FireNowOK ==
    ASSUME SchedInv, NEW i \in Node, NEW id \in Job, FireNow(i, id)
    PROVE  SchedInv'
  <1>1. isTask(Firing("trigger", i, id, now))
    BY FiringOK DEF FireNow, SchedInv
  <1>2. \A t \in {Firing("trigger", i, id, now)} : isTask(t)
    BY <1>1
  <1>3. go({Firing("trigger", i, id, now)}) /\ UNCHANGED <<submitVars, now, store, executed>>
    BY DEF FireNow
  <1> QED BY <1>2, <1>3, GoOK

LEMMA CreateOK ==
    ASSUME SchedInv, NEW i \in Node, NEW id \in Job, createJob(i, id)
    PROVE  SchedInv'
  <1>1. PICK policy \in Policies, enabled \in BOOLEAN :
           go({Request("create_job", i, id,
                       [NoJob EXCEPT !.enabled = enabled, !.policy = policy,
                                     !.nextRun = nextRun(now)])})
    BY ZenonT(60) DEF createJob
  <1> DEFINE job == [NoJob EXCEPT !.enabled = enabled, !.policy = policy,
                                  !.nextRun = nextRun(now)]
  <1>2. job \in JobType
    BY NoJobOK, NewJobOK, NextRunOK, SchedulerAssumption DEF SchedInv
  <1> HIDE DEF job
  <1>3. isTask(Request("create_job", i, id, job))
    BY <1>2, RequestOK
  <1>4. \A t \in {Request("create_job", i, id, job)} : isTask(t)
    BY <1>3
  <1>5. go({Request("create_job", i, id, job)}) /\ UNCHANGED <<submitVars, now, store, executed>>
    BY <1>1 DEF createJob, job
  <1> QED BY <1>4, <1>5, GoOK

LEMMA DeleteOK ==
    ASSUME SchedInv, NEW i \in Node, NEW id \in Job, deleteJob(i, id)
    PROVE  SchedInv'
  <1>1. isTask(Request("delete_job", i, id, NoJob))
    BY NoJobOK, RequestOK
  <1>2. \A t \in {Request("delete_job", i, id, NoJob)} : isTask(t)
    BY <1>1
  <1>3. go({Request("delete_job", i, id, NoJob)}) /\ UNCHANGED <<submitVars, now, store, executed>>
    BY DEF deleteJob
  <1> QED BY <1>2, <1>3, GoOK

-----------------------------------------------------------------------------
(* The steps of a task *)

\* One task moves on, and nothing is executed.
LEMMA TaskStep ==
    ASSUME SchedInv, UNCHANGED <<now, store, executed>>, LogsOK',
           NEW c \in Caller, NEW t, isTask(t), tasks' = [tasks EXCEPT ![c] = t]
    PROVE  SchedInv'
  <1>1. tasks' \in [Caller -> TaskType] /\ \A d \in Caller : isTask(tasks'[d])
    BY DEF SchedInv, TasksOK, isTask
  <1>2. \A d \in Caller : isTask(tasks[d])'
    BY ZenonT(60), <1>1 DEF isTask, key, TaskType, JobType
  <1>3. TasksOK'
    BY <1>1, <1>2 DEF TasksOK, TaskType, JobType
  <1> QED BY <1>3, QuietStep

LEMMA LogsQuiet ==
    ASSUME SchedInv, UNCHANGED <<log, tail, inherited, leader, deposed, applied, executed>>
    PROVE  LogsOK'
  BY LogsStay DEF SchedInv, LogsOK

LEMMA FireJobOK ==
    ASSUME SchedInv, NEW c \in Caller, fireJob(c)
    PROVE  SchedInv'
  <1> DEFINE t == tasks[c]
             ended == [t EXCEPT !.stage = "done"]
             moved == [t EXCEPT !.stage = "update", !.job.nextRun = nextRun(t.at)]
  <1>1. isTask(t) /\ t \in TaskType /\ t.stage = "check"
    BY DEF SchedInv, TasksOK, fireJob
  <1>2. t.node \in Node /\ t.id \in Job
    BY <1>1 DEF isTask
  <1>3. isTask(ended)
    <2>1. ended \in TaskType /\ ended.stage = "done"
      BY <1>1 DEF TaskType, Stage
    <2> HIDE DEF ended
    <2> QED BY <2>1 DEF isTask
  <1>4. nextRun(t.at) \in 0 .. MaxMinute
    BY <1>1, NextRunOK DEF TaskType
  <1>5. isTask(moved)
    <2>1. [t.job EXCEPT !.nextRun = nextRun(t.at)] \in JobType
      BY ZenonT(60), <1>1, <1>4, NewJobOK DEF TaskType, JobType
    <2>2. moved = [t EXCEPT !.stage = "update", !.job = [t.job EXCEPT !.nextRun = nextRun(t.at)]]
      BY <1>1 DEF TaskType
    <2>3. moved \in TaskType
      BY <1>1, <2>1, <2>2 DEF TaskType, Stage
    <2>4. moved.stage = "update" /\ moved.node = t.node /\ moved.id = t.id
      BY <1>1 DEF TaskType
    <2> HIDE DEF moved, t
    <2> QED BY <1>2, <2>3, <2>4 DEF isTask
  <1>6. LogsOK'
    BY LogsQuiet DEF fireJob, submitVars, raftVars
  <1>7. tasks' = [tasks EXCEPT ![c] = ended] \/ tasks' = [tasks EXCEPT ![c] = moved]
    BY DEF fireJob
  <1> HIDE DEF ended, moved, t
  <1> QED BY <1>3, <1>5, <1>6, <1>7, TaskStep DEF fireJob

\* A task submits a job, or a record that is backed.
LEMMA CommandOK ==
    ASSUME SchedInv, NEW c \in Caller,
           tasks[c].stage \in {"update", "record", "final", "submit"}
    PROVE  command(tasks[c]) \in BackedCommand /\ tasks[c].node \in Node
  <1> DEFINE t == tasks[c]
  <1>1. isTask(t) /\ t \in TaskType
    BY DEF SchedInv, TasksOK
  <1>2. t.node \in Node /\ t.id \in Job
    BY <1>1 DEF isTask
  <1>3. key(t) \in Key
    BY <1>1, <1>2 DEF key, RunIdempotencyKey, Key, TaskType
  <1>4. CASE t.stage = "update"
    BY <1>1, <1>2, <1>4 DEF command, BackedCommand, TaskType
  <1>5. CASE t.stage = "record"
    <2> DEFINE run == [key |-> key(t), id |-> t.id, status |-> "running", finished |-> FALSE]
    <2>1. run \in BackedRun
      BY <1>2, <1>3 DEF BackedRun, RunType, Key
    <2>2. command(t) = [op |-> "record_run", id |-> t.id, run |-> run]
      BY <1>5 DEF command
    <2> HIDE DEF run
    <2> QED BY <1>2, <2>1, <2>2 DEF BackedCommand
  <1>6. CASE t.stage = "final"
    <2> DEFINE run == [key |-> key(t), id |-> t.id, status |-> t.status, finished |-> TRUE]
    <2>1. t.status \in {"success", "failed"} /\ executed[key(t)] # {}
      BY <1>1, <1>6 DEF isTask, TaskType
    <2>2. run \in BackedRun
      BY <1>2, <1>3, <2>1 DEF BackedRun, RunType, Key
    <2>3. command(t) = [op |-> "record_run", id |-> t.id, run |-> run]
      BY <1>6 DEF command
    <2> HIDE DEF run
    <2> QED BY <1>2, <2>2, <2>3 DEF BackedCommand
  <1>7. CASE t.stage = "submit"
    <2>1. t.by \in {"create_job", "update_job", "delete_job"} /\ t.job \in JobType
      BY <1>1, <1>7 DEF isTask, TaskType
    <2>2. command(t) = [op |-> t.by, id |-> t.id, job |-> t.job]
      BY <1>7 DEF command
    <2> QED BY <1>2, <2>1, <2>2 DEF BackedCommand
  <1> QED BY <1>2, <1>4, <1>5, <1>6, <1>7

\* What leaves all but the logs, and the stores' place in them, to the rest of Submit.
LEMMA LogStep ==
    ASSUME SchedInv, UNCHANGED schedVars, LogsOK'
    PROVE  SchedInv'
  <1>1. TasksOK'
    BY DEF SchedInv, schedVars, TasksOK, isTask, key, TaskType, JobType
  <1> QED BY <1>1, QuietStep DEF schedVars

LEMMA SubmitOK ==
    ASSUME SchedInv, NEW c \in Caller, submit(c)
    PROVE  SchedInv'
  <1> DEFINE i == tasks[c].node
             cmd == command(tasks[c])
  <1>1. cmd \in BackedCommand /\ i \in Node
    BY CommandOK DEF submit
  <1>2. Start(c, i, cmd) /\ UNCHANGED schedVars
    BY DEF submit
  <1> HIDE DEF i, cmd
  <1>3. BackedCommand' = BackedCommand
    BY <1>2 DEF schedVars, BackedCommand, BackedRun, RunType, JobType
  <1>4. UNCHANGED <<log, inherited, leader, applied>>
    BY <1>2 DEF Start
  <1>5. tail' \in Seq(BackedCommand)
    <2>1. tail' = tail \/ tail' = Append(tail, cmd)
      BY <1>2 DEF Start
    <2>2. tail \in Seq(BackedCommand)
      BY DEF SchedInv, LogsOK
    <2> QED BY <1>1, <2>1, <2>2
  <1>6. deposed' \in [Node -> [base : Nat, tail : Seq(BackedCommand)]]
    <2>1. \/ deposed' = deposed
          \/ deposed' = [deposed EXCEPT ![i].tail = Append(@, cmd)]
      BY <1>2 DEF Start
    <2>2. deposed[i].tail \in Seq(BackedCommand)
      BY <1>1 DEF SchedInv, LogsOK
    <2>3. Append(deposed[i].tail, cmd) \in Seq(BackedCommand)
      BY <1>1, <2>2
    <2> QED BY <1>1, <2>1, <2>3 DEF SchedInv, LogsOK
  <1>7. LogsOK'
    BY <1>3, <1>4, <1>5, <1>6 DEF SchedInv, LogsOK
  <1> QED BY <1>2, <1>7, LogStep

LEMMA SubmitReturnsOK ==
    ASSUME SchedInv, NEW c \in Caller, submitReturns(c)
    PROVE  SchedInv'
  <1> DEFINE t == tasks[c]
             stage == after(t.stage, calls[c].pc)
             next == [t EXCEPT !.stage = stage]
  <1>1. isTask(t) /\ t \in TaskType
    BY DEF SchedInv, TasksOK
  <1>2. /\ stage \in {"record", "dispatch", "done"}
        /\ stage # "done" => t.stage \in {"update", "record"}
    BY DEF after
  <1>3. isTask(next)
    <2>1. next \in TaskType
      BY <1>1, <1>2 DEF TaskType, Stage
    <2>2. next.stage = stage /\ next.node = t.node /\ next.id = t.id
      BY <1>1 DEF TaskType
    <2> HIDE DEF next, stage, t
    <2> QED BY <1>1, <1>2, <2>1, <2>2 DEF isTask
  <1>4. tasks' = [tasks EXCEPT ![c] = next]
    BY <1>1 DEF submitReturns, SchedInv, TasksOK
  <1>5. LogsOK' /\ UNCHANGED <<now, store, executed>>
    BY LogsQuiet DEF submitReturns, raftVars
  <1> HIDE DEF next, stage, t
  <1> QED BY <1>3, <1>4, <1>5, TaskStep

LEMMA DispatchOK ==
    ASSUME SchedInv, NEW c \in Caller, Dispatch(c)
    PROVE  SchedInv'
  <1> DEFINE t == tasks[c]
  <1>1. isTask(t) /\ t \in TaskType /\ t.stage = "dispatch"
    BY DEF SchedInv, TasksOK, Dispatch
  <1>2. t.node \in Node /\ t.id \in Job
    BY <1>1 DEF isTask
  <1>3. key(t) \in Key
    BY <1>1, <1>2 DEF key, RunIdempotencyKey, Key, TaskType
  <1>4. executed' = [executed EXCEPT ![key(t)] = @ \cup {c}]
    BY DEF Dispatch
  <1>5. /\ executed' \in [Key -> SUBSET Caller]
        /\ \A k \in Key : executed[k] \subseteq executed'[k]
        /\ executed'[key(t)] # {}
    BY <1>3, <1>4 DEF SchedInv
  <1>6. LogsOK' /\ StoresOK'
    BY <1>5, LogsStay, StoresStay DEF Dispatch, submitVars, raftVars, SchedInv, LogsOK
  <1>7. PICK status \in {"success", "failed"} :
           tasks' = [tasks EXCEPT ![c].stage = "final", ![c].status = status]
    BY DEF Dispatch
  <1> DEFINE next == [t EXCEPT !.stage = "final", !.status = status]
  <1>8. tasks' = [tasks EXCEPT ![c] = next]
    BY <1>1, <1>7 DEF SchedInv, TasksOK
  <1>9. next \in TaskType
    BY <1>1 DEF TaskType, Stage
  <1>10. /\ next.stage = "final" /\ next.status = status /\ next.node = t.node
         /\ next.id = t.id /\ next.minute = t.minute
    BY <1>1 DEF TaskType
  <1>11. key(next) = key(t)
    BY <1>10 DEF key
  <1> HIDE DEF next, t
  <1>12. tasks' \in [Caller -> TaskType]
    BY <1>8, <1>9 DEF SchedInv, TasksOK
  <1>13. ASSUME NEW d \in Caller PROVE isTask(tasks[d])'
    <2>1. CASE d = c
      <3>1. tasks'[c] = next
        BY <1>8 DEF SchedInv, TasksOK
      <3>2. TaskType' = TaskType
        BY DEF TaskType, JobType
      <3>3. isTask(tasks[c])'
        <4>1. tasks'[c] \in TaskType'
          BY <1>9, <3>1, <3>2
        <4>2. executed'[key(tasks'[c])] # {} /\ tasks'[c].status # ""
          BY <1>5, <1>10, <1>11, <3>1
        <4> QED BY <1>2, <1>10, <3>1, <4>1, <4>2 DEF isTask, key
      <3> QED BY <2>1, <3>3
    <2>2. CASE d # c
      <3>1. tasks'[d] = tasks[d] /\ isTask(tasks[d])
        BY <1>8, <2>2 DEF SchedInv, TasksOK
      <3> QED BY <1>5, <3>1 DEF SchedInv, isTask, TaskType, key, RunIdempotencyKey, Key, JobType
    <2> QED BY <2>1, <2>2
  <1>14. TasksOK'
    BY <1>12, <1>13 DEF TasksOK, TaskType, JobType
  <1> QED BY <1>5, <1>6, <1>14 DEF SchedInv, Dispatch, Key

-----------------------------------------------------------------------------
(* The store, Raft and the world *)

LEMMA RunTypesStay ==
    ASSUME UNCHANGED executed
    PROVE  BackedRun' = BackedRun /\ BackedCommand' = BackedCommand
  BY DEF BackedRun, BackedCommand, RunType, JobType

LEMMA OneStoreStep ==
    ASSUME SchedInv, UNCHANGED <<log, tail, inherited, leader, deposed, now, tasks, executed>>,
           applied' \in [Node -> Nat],
           NEW i \in Node, NEW st, isStore(st), store' = [store EXCEPT ![i] = st]
    PROVE  SchedInv'
  <1>1. LogsOK'
    BY LogsStay
  <1>2. TasksOK'
    BY DEF SchedInv, TasksOK, isTask, key, TaskType, JobType
  <1>3. \A j \in Node : isStore(store'[j])
    BY DEF SchedInv, StoresOK
  <1>4. StoresOK'
    BY ZenonT(60), <1>3, RunTypesStay DEF StoresOK, isStore, isJobMap, uniqueKeys, JobType
  <1>5. store' \in [Node -> {store'[j] : j \in Node}]
    BY DEF SchedInv
  <1> QED BY <1>1, <1>2, <1>4, <1>5 DEF SchedInv

LEMMA ApplyLoopOK ==
    ASSUME SchedInv, NEW i \in Node, applyLoop(i)
    PROVE  SchedInv'
  <1>a. log \in Seq(BackedCommand) /\ applied \in [Node -> Nat]
    BY DEF SchedInv, LogsOK
  <1>b. applied[i] < Len(log) /\ applied' = [applied EXCEPT ![i] = @ + 1]
    BY DEF applyLoop, applyNext, mayApply
  <1>1. applied[i] + 1 \in 1 .. Len(log)
    BY <1>a, <1>b
  <1>2. log[applied[i] + 1] \in BackedCommand
    BY <1>a, <1>1
  <1>3. isStore(applyCommand(store[i], log[applied[i] + 1]))
    BY <1>2, ApplyCommandOK DEF SchedInv, StoresOK
  <1>4. store' = [store EXCEPT ![i] = applyCommand(store[i], log[applied[i] + 1])]
    BY DEF applyLoop
  <1>5. applied' \in [Node -> Nat]
    BY <1>a, <1>b
  <1> QED BY <1>3, <1>4, <1>5, OneStoreStep DEF applyLoop, applyNext, raftVars

LEMMA InstallOK ==
    ASSUME SchedInv, NEW i \in Node, NEW j \in Node, installSnapshot(i, j)
    PROVE  SchedInv'
  <1>1. isStore(store[j])
    BY DEF SchedInv, StoresOK
  <1>2. applied' \in [Node -> Nat]
    BY DEF installSnapshot, applySnapshot, SchedInv, LogsOK
  <1> QED BY <1>1, <1>2, OneStoreStep DEF installSnapshot, applySnapshot, raftVars

LEMMA ElectOK ==
    ASSUME SchedInv, NEW j \in Node, elect(j), UNCHANGED schedVars
    PROVE  SchedInv'
  <1>1. log \in Seq(BackedCommand) /\ tail \in Seq(BackedCommand) /\ leader \in Node
    BY DEF SchedInv, LogsOK
  <1>2. deposed \in [Node -> [base : Nat, tail : Seq(BackedCommand)]]
    BY DEF SchedInv, LogsOK
  <1>3. \/ tail' = tail
        \/ \E n \in 0 .. Len(tail) : tail' = SubSeq(tail, 1, n)
        \/ tail' = deposed[j].tail
    BY DEF elect
  <1>4. ASSUME NEW n \in 0 .. Len(tail) PROVE SubSeq(tail, 1, n) \in Seq(BackedCommand)
    BY <1>1, SubSeqProperties
  <1>5. deposed[j].tail \in Seq(BackedCommand)
    BY <1>2
  <1>6. tail' \in Seq(BackedCommand) /\ Len(tail') \in Nat
    BY <1>1, <1>3, <1>4, <1>5, LenProperties
  <1>7. \/ deposed' = deposed
        \/ deposed' = [deposed EXCEPT ![leader] = [base |-> Len(log), tail |-> tail]]
    BY DEF elect
  <1>8. Len(log) \in Nat
    BY <1>1, LenProperties
  <1>9. deposed' \in [Node -> [base : Nat, tail : Seq(BackedCommand)]]
    <2> DEFINE End == [base : Nat, tail : Seq(BackedCommand)]
               last == [base |-> Len(log), tail |-> tail]
    <2>1. last \in End
      BY <1>1, <1>8
    <2> HIDE DEF last, End
    <2>2. deposed \in [Node -> End]
      BY <1>2 DEF End
    <2>3. deposed' = deposed \/ deposed' = [deposed EXCEPT ![leader] = last]
      BY <1>7 DEF last
    <2>4. deposed' \in [Node -> End]
      BY <1>1, <2>1, <2>2, <2>3
    <2> QED BY <2>4 DEF End
  <1>10. leader' = j /\ inherited' = Len(tail') /\ UNCHANGED <<log, applied>>
    BY DEF elect
  <1>11. BackedCommand' = BackedCommand
    BY RunTypesStay DEF schedVars
  <1>12. LogsOK'
    BY <1>1, <1>6, <1>9, <1>10, <1>11 DEF SchedInv, LogsOK
  <1> QED BY <1>12, LogStep

LEMMA CommitOK ==
    ASSUME SchedInv, commit, UNCHANGED schedVars
    PROVE  SchedInv'
  <1>1. log \in Seq(BackedCommand) /\ tail \in Seq(BackedCommand) /\ inherited \in Nat
    BY DEF SchedInv, LogsOK
  <1>2. PICK n \in (inherited + 1) .. Len(tail) :
           /\ log' = log \o SubSeq(tail, 1, n)
           /\ tail' = SubSeq(tail, n + 1, Len(tail))
           /\ inherited' = 0
    BY DEF commit
  <1>3. n \in 1 .. Len(tail)
    BY <1>1, LenProperties
  <1>4. SubSeq(tail, 1, n) \in Seq(BackedCommand)
    BY <1>1, <1>3, SubSeqProperties
  <1>5. log' \in Seq(BackedCommand)
    BY <1>1, <1>2, <1>4, ConcatProperties
  <1>6. tail' \in Seq(BackedCommand)
    <2>1. n + 1 \in 1 .. Len(tail) + 1
      BY <1>1, <1>3, LenProperties
    <2> QED BY <1>1, <1>2, <2>1, SubSeqProperties
  <1>7. UNCHANGED <<leader, deposed, applied>>
    BY DEF commit
  <1>8. BackedCommand' = BackedCommand
    BY RunTypesStay DEF schedVars
  <1>9. LogsOK'
    BY <1>2, <1>5, <1>6, <1>7, <1>8 DEF SchedInv, LogsOK
  <1> QED BY <1>9, LogStep

LEMMA RestartOK ==
    ASSUME SchedInv, NEW i \in Node, restart(i)
    PROVE  SchedInv'
  <1>1. tasks' = [c \in Caller |-> IF tasks[c].node = i THEN [tasks[c] EXCEPT !.stage = "done"]
                                   ELSE tasks[c]]
    BY DEF restart
  <1>2. ASSUME NEW c \in Caller PROVE isTask(tasks'[c])
    <2>1. isTask(tasks[c]) /\ tasks[c] \in TaskType
      BY DEF SchedInv, TasksOK
    <2> DEFINE ended == [tasks[c] EXCEPT !.stage = "done"]
    <2>2. ended \in TaskType /\ ended.stage = "done"
      BY <2>1 DEF TaskType, Stage
    <2>3. tasks'[c] = ended \/ tasks'[c] = tasks[c]
      BY <1>1
    <2> HIDE DEF ended
    <2>4. isTask(ended)
      BY <2>2 DEF isTask
    <2> QED BY <2>1, <2>3, <2>4
  <1>3. UNCHANGED <<now, store, executed>>
    BY DEF restart
  <1>4. TasksOK'
    <2>1. \A c \in Caller : tasks'[c] \in TaskType
      BY <1>2 DEF isTask
    <2>2. tasks' \in [Caller -> TaskType]
      BY <1>1, <2>1
    <2>3. \A c \in Caller : isTask(tasks[c])'
      BY <1>2, <1>3 DEF isTask, key, TaskType, JobType
    <2> QED BY <2>2, <2>3 DEF TasksOK, TaskType, JobType
  <1>5. LogsOK'
    BY <1>3, LogsQuiet DEF restart, crash
  <1> QED BY <1>3, <1>4, <1>5, QuietStep

LEMMA ClockOK ==
    ASSUME SchedInv, clock
    PROVE  SchedInv'
  <1>1. LogsOK'
    BY LogsQuiet DEF clock, submitVars, raftVars
  <1>2. StoresOK'
    BY StoresStay DEF clock
  <1>3. TasksOK'
    BY DEF clock, SchedInv, TasksOK, isTask, key, TaskType, JobType
  <1>4. now' \in 0 .. MaxMinute
    BY SchedulerAssumption DEF clock, SchedInv
  <1> QED BY <1>1, <1>2, <1>3, <1>4 DEF clock, SchedInv

LEMMA SchedNext ==
    ASSUME SchedInv, [Next]_vars
    PROVE  SchedInv'
  <1>1. CASE UNCHANGED vars
    BY <1>1, LogsQuiet, LogStep DEF vars, submitVars, raftVars, schedVars
  <1>2. ASSUME NEW i \in Node, tick(i) PROVE SchedInv'
    BY <1>2, TickOK
  <1>3. ASSUME NEW i \in Node, ReconcileMissedJobs(i) PROVE SchedInv'
    BY <1>3, ReconcileOK
  <1>4. ASSUME NEW i \in Node, NEW id \in Job, FireNow(i, id) PROVE SchedInv'
    BY <1>4, FireNowOK
  <1>5. ASSUME NEW i \in Node, NEW id \in Job, createJob(i, id) PROVE SchedInv'
    BY <1>5, CreateOK
  <1>6. ASSUME NEW i \in Node, NEW id \in Job, deleteJob(i, id) PROVE SchedInv'
    BY <1>6, DeleteOK
  <1>7. ASSUME NEW i \in Node, applyLoop(i) PROVE SchedInv'
    BY <1>7, ApplyLoopOK
  <1>8. ASSUME NEW i \in Node, NEW j \in Node, installSnapshot(i, j) PROVE SchedInv'
    BY <1>8, InstallOK
  <1>9. ASSUME NEW i \in Node, raftStep(i) PROVE SchedInv'
    <2>1. CASE elect(i)
      BY <1>9, <2>1, ElectOK DEF raftStep
    <2>2. CASE stepDown(i)
      <3>1. UNCHANGED schedVars
        BY <1>9 DEF raftStep
      <3>2. LogsOK'
        BY <2>2, <3>1, LogsQuiet DEF stepDown, schedVars
      <3> QED BY <3>1, <3>2, LogStep
    <2> QED BY <1>9, <2>1, <2>2 DEF raftStep
  <1>10. ASSUME NEW i \in Node, restart(i) PROVE SchedInv'
    BY <1>10, RestartOK
  <1>11. ASSUME NEW c \in Caller, fireJob(c) PROVE SchedInv'
    BY <1>11, FireJobOK
  <1>12. ASSUME NEW c \in Caller, submit(c) PROVE SchedInv'
    BY <1>12, SubmitOK
  <1>13. ASSUME NEW c \in Caller, registerWaiter(c) \/ timeout(c), UNCHANGED schedVars
         PROVE  SchedInv'
    <2>1. LogsOK'
      BY <1>13, LogsQuiet DEF registerWaiter, timeout, raftVars, schedVars
    <2> QED BY <1>13, <2>1, LogStep
  <1>14. ASSUME NEW c \in Caller, submitReturns(c) PROVE SchedInv'
    BY <1>14, SubmitReturnsOK
  <1>15. ASSUME NEW c \in Caller, Dispatch(c) PROVE SchedInv'
    BY <1>15, DispatchOK
  <1>16. CASE commit /\ UNCHANGED schedVars
    BY <1>16, CommitOK
  <1>17. CASE clock
    BY <1>17, ClockOK
  <1> QED
    BY <1>1, <1>2, <1>3, <1>4, <1>5, <1>6, <1>7, <1>8, <1>9, <1>10, <1>11, <1>12, <1>13,
       <1>14, <1>15, <1>16, <1>17 DEF Next, Step

LEMMA SchedulerInvariance == Spec => []SchedInv
  <1>1. Init => SchedInv
    BY SchedInit
  <1>2. SchedInv /\ [Next]_vars => SchedInv'
    BY SchedNext
  <1> QED BY <1>1, <1>2, PTL DEF Spec

ReconciledOK == reconciled \subseteq Node

LEMMA ReconciledInvariance == Spec => []ReconciledOK
  <1>1. Init => ReconciledOK
    BY DEF Init, ReconciledOK
  <1>2. ReconciledOK /\ [Next]_vars => ReconciledOK'
    <2> SUFFICES ASSUME reconciled \subseteq Node, [Next]_vars
                 PROVE  reconciled' \subseteq Node
      BY SMTT(60) DEF ReconciledOK
    <2>1. \/ UNCHANGED reconciled
          \/ \E i \in Node : reconciled' = reconciled \cup {i} \/ reconciled' = reconciled \ {i}
      BY DEF Next, Step, vars, schedVars, tick, ReconcileMissedJobs, FireNow, createJob, deleteJob,
             fireJob, submit, submitReturns, Dispatch, applyLoop, installSnapshot, raftStep,
             restart, clock
    <2> QED BY <2>1
  <1> QED BY <1>1, <1>2, PTL DEF Spec

\* The state keeps its shape, and no store has more runs than maxRuns, for any number of
\* nodes, jobs, requests, goroutines, elections and crashes.
THEOREM SchedulerTypes == Spec => []TypeOK
  <1>1. ASSUME SchedInv, ReconciledOK PROVE TypeOK
    <2>1. now \in 0 .. MaxMinute /\ executed \in [Job \X (0 .. MaxMinute) -> SUBSET Caller]
      BY <1>1 DEF SchedInv, Key
    <2>2. ASSUME NEW i \in Node
          PROVE  /\ DOMAIN store[i].jobs \subseteq Job
                 /\ \A id \in DOMAIN store[i].jobs : store[i].jobs[id] \in JobType
                 /\ store[i].runs \in Seq(RunType) /\ Len(store[i].runs) <= MaxRuns
      <3>1. isStore(store[i])
        BY <1>1 DEF SchedInv, StoresOK
      <3>2. BackedRun \subseteq RunType
        BY DEF BackedRun
      <3>3. store[i].runs \in Seq(RunType)
        BY <3>1, <3>2, SeqMonotone DEF isStore
      <3> QED BY <3>1, <3>3 DEF isStore, isJobMap
    <2>3. ASSUME NEW c \in Caller
          PROVE  /\ tasks[c].stage \in {"free", "check", "update", "record", "dispatch", "final",
                                        "submit", "done"}
                 /\ tasks[c].job \in JobType /\ tasks[c].node \in Node \cup {Nil}
      BY <1>1 DEF SchedInv, TasksOK, TaskType, Stage
    <2> QED BY <1>1, <2>1, <2>2, <2>3 DEF TypeOK, ReconciledOK
  <1> QED BY <1>1, SchedulerInvariance, ReconciledInvariance, PTL

\* No store ever has two records of one firing, for any number of nodes, jobs, goroutines,
\* elections and crashes, also where jobs are deleted meanwhile (upsertRun, lastRuns).
THEOREM RunsStayUnique == Spec => []RunsUnique
  <1>1. SchedInv => RunsUnique
    BY DEF SchedInv, StoresOK, isStore, uniqueKeys, RunsUnique
  <1> QED BY <1>1, SchedulerInvariance, PTL

\* No store ever shows a run as finished that the executor was not given: through any
\* failover, crash, lost answer or snapshot, the final record comes from a task that had
\* dispatched the job, and merging records invents no end (fireJob, mergeRun).
THEOREM FinishedStaysExecuted == Spec => []FinishedWasExecuted
  <1>1. ASSUME SchedInv PROVE FinishedWasExecuted
    <2> SUFFICES ASSUME NEW i \in Node, NEW k \in 1 .. Len(store[i].runs),
                        store[i].runs[k].finished
                 PROVE  executed[store[i].runs[k].key] # {}
      BY DEF FinishedWasExecuted
    <2>1. store[i].runs \in Seq(BackedRun)
      BY <1>1 DEF SchedInv, StoresOK, isStore
    <2>2. store[i].runs[k] \in BackedRun
      BY <2>1
    <2> QED BY <2>2 DEF BackedRun
  <1> QED BY <1>1, SchedulerInvariance, PTL

-----------------------------------------------------------------------------
(* What a task that runs a job may rely on.  Nothing is needed of the stores here. *)

Elems(s) == {s[k] : k \in 1 .. Len(s)}
isSeq(s) == s \in Seq(Elems(s))

isTaskRecord(t) == {"stage", "node", "id", "minute", "status"} \subseteq DOMAIN t
isCallRecord(call) == {"pc", "node", "index"} \subseteq DOMAIN call

\* The shape of the logs, of the tasks, and of the calls; whoever is in the map waits.
LogShape ==
    /\ isSeq(log) /\ isSeq(tail) /\ inherited \in Nat /\ applied \in [Node -> Nat]
    /\ deposed = [i \in Node |-> deposed[i]]
    /\ \A i \in Node : "tail" \in DOMAIN deposed[i] /\ isSeq(deposed[i].tail)

TaskShape ==
    tasks = [c \in Caller |-> tasks[c]] /\ \A c \in Caller : isTaskRecord(tasks[c])

CallShape ==
    /\ calls = [c \in Caller |-> calls[c]] /\ \A c \in Caller : isCallRecord(calls[c])
    /\ \A w \in waiters :
          /\ w.caller \in Caller
          /\ calls[w.caller].pc = "waiting"
          /\ calls[w.caller].node = w.node /\ calls[w.caller].index = w.index

\* The entry of c is in the tail of the newest leader, which c called.
inTail(c) ==
    /\ calls[c].pc # "nil" /\ calls[c].node = leader
    /\ calls[c].index \in Len(log) + 1 .. Len(log) + Len(tail)
    /\ tail[calls[c].index - Len(log)] = command(tasks[c])

isRecorded(k) == \E n \in 1 .. Len(log) : log[n].op = "record_run" /\ log[n].run.key = k

\* A running record that nobody overtook is at its index, in the log or in the tail ...
PendingInv ==
    \A c \in Caller \ overtaken :
        tasks[c].stage = "record" /\ calls[c].pc \in {"started", "waiting", "nil"}
            => isCommitted(c) \/ inTail(c)

\* ... and committed before the job runs.
DispatchInv ==
    \A c \in Caller \ overtaken : tasks[c].stage = "dispatch" => isRecorded(key(tasks[c]))

ExecutedInv ==
    /\ executed = [k \in Key |-> executed[k]]
    /\ \A k \in Key : executed[k] \ overtaken # {} => isRecorded(k)

RecordInv == LogShape /\ TaskShape /\ CallShape /\ PendingInv /\ DispatchInv /\ ExecutedInv

LEMMA SeqOfElems ==
    ASSUME NEW S, NEW s \in Seq(S)
    PROVE  isSeq(s)
  <1>1. Len(s) \in Nat /\ s = [k \in 1 .. Len(s) |-> s[k]]
    OBVIOUS
  <1>2. \A k \in 1 .. Len(s) : s[k] \in Elems(s)
    BY DEF Elems
  <1> HIDE DEF Elems
  <1> QED BY <1>1, <1>2 DEF isSeq

LEMMA AppendIsSeq ==
    ASSUME NEW s, isSeq(s), NEW e
    PROVE  /\ isSeq(Append(s, e)) /\ Len(Append(s, e)) = Len(s) + 1 /\ Len(s) \in Nat
           /\ \A k \in 1 .. Len(s) : Append(s, e)[k] = s[k]
           /\ Append(s, e)[Len(s) + 1] = e
  <1>1. s \in Seq(Elems(s) \cup {e})
    BY SeqMonotone DEF isSeq
  <1>2. /\ Append(s, e) \in Seq(Elems(s) \cup {e})
        /\ Len(Append(s, e)) = Len(s) + 1 /\ Len(s) \in Nat
        /\ \A k \in 1 .. Len(s) : Append(s, e)[k] = s[k]
        /\ Append(s, e)[Len(s) + 1] = e
    BY <1>1
  <1>3. isSeq(Append(s, e))
    BY <1>2, SeqOfElems
  <1> QED BY <1>2, <1>3

LEMMA RecordInit == Init => RecordInv
  <1> SUFFICES ASSUME Init PROVE RecordInv
    OBVIOUS
  <1>1. isSeq(<<>>)
    <2>1. <<>> \in Seq({})
      OBVIOUS
    <2> QED BY <2>1, SeqOfElems
  <1>2. LogShape /\ CallShape
    BY <1>1 DEF Init, SubmitInit, LogShape, CallShape, isCallRecord, NoCall
  <1>3. TaskShape /\ \A c \in Caller : tasks[c].stage = "free"
    BY DEF Init, TaskShape, isTaskRecord, FreeTask
  <1>4. ExecutedInv
    BY DEF Init, ExecutedInv, Key
  <1> QED BY <1>2, <1>3, <1>4 DEF RecordInv, PendingInv, DispatchInv

\* The step takes c out of the picture, leaves its record alone, or finds it committed.
leftAlone(c) ==
    /\ tasks'[c].stage = "record" /\ calls'[c].pc \in {"started", "waiting", "nil"} =>
          /\ tasks'[c] = tasks[c] /\ calls[c].pc \in {"started", "waiting", "nil"}
          /\ calls'[c].node = calls[c].node /\ calls'[c].index = calls[c].index
          /\ calls'[c].pc = "nil" => calls[c].pc = "nil" \/ calls[c].index \in 1 .. Len(log)
    /\ tasks'[c].stage = "dispatch" =>
          tasks'[c] = tasks[c] \/ c \in overtaken' \/ isRecorded(key(tasks'[c]))

\* Steps that leave the logs and the executions alone
LEMMA RecordsKept ==
    ASSUME RecordInv, UNCHANGED <<log, tail, leader, executed>>, overtaken \subseteq overtaken',
           \A c \in Caller : leftAlone(c)
    PROVE  PendingInv' /\ DispatchInv' /\ ExecutedInv'
  <1>0. Len(log) \in Nat
    BY DEF RecordInv, LogShape, isSeq
  <1>1. ASSUME NEW c \in Caller \ overtaken', tasks'[c].stage = "record",
               calls'[c].pc \in {"started", "waiting", "nil"}
        PROVE  isCommitted(c)' \/ inTail(c)'
    <2>1. /\ tasks'[c] = tasks[c] /\ calls[c].pc \in {"started", "waiting", "nil"}
          /\ calls'[c].node = calls[c].node /\ calls'[c].index = calls[c].index
          /\ calls'[c].pc = "nil" => calls[c].pc = "nil" \/ calls[c].index \in 1 .. Len(log)
      BY <1>1 DEF leftAlone
    <2>2. isCommitted(c) \/ inTail(c)
      BY <1>1, <2>1 DEF RecordInv, PendingInv
    <2>3. CASE isCommitted(c)
      BY <2>1, <2>3 DEF isCommitted, command, key
    <2>4. CASE inTail(c)
      <3>1. calls'[c].pc # "nil"
        BY <1>0, <2>1, <2>4 DEF inTail
      <3> QED BY <2>1, <2>4, <3>1 DEF inTail, command, key
    <2> QED BY <2>2, <2>3, <2>4
  <1>2. ASSUME NEW c \in Caller \ overtaken', tasks'[c].stage = "dispatch"
        PROVE  isRecorded(key(tasks[c]))'
    <2>1. tasks'[c] = tasks[c] \/ isRecorded(key(tasks'[c]))
      BY <1>2 DEF leftAlone
    <2>2. isRecorded(key(tasks'[c]))
      BY <1>2, <2>1 DEF RecordInv, DispatchInv
    <2> QED BY <2>2 DEF isRecorded, key
  <1>3. ExecutedInv'
    BY DEF RecordInv, ExecutedInv, isRecorded, Key
  <1> QED BY <1>1, <1>2, <1>3 DEF PendingInv, DispatchInv

\* Tasks at their first stage
isNew(t) == isTaskRecord(t) /\ t.stage \in {"check", "submit"}

LEMMA GoKeepsRecords ==
    ASSUME RecordInv, UNCHANGED <<submitVars, executed>>, overtaken \subseteq overtaken',
           NEW new, \A t \in new : isNew(t), go(new)
    PROVE  RecordInv'
  <1>1. PICK f \in [new -> {c \in Caller : tasks[c].stage = "free"}] :
           tasks' = [c \in Caller |-> IF \E t \in new : f[t] = c
                                      THEN CHOOSE t \in new : f[t] = c ELSE tasks[c]]
    BY DEF go
  <1>2. \A c \in Caller : tasks'[c] = tasks[c] \/ isNew(tasks'[c])
    <2> SUFFICES ASSUME NEW c \in Caller PROVE tasks'[c] = tasks[c] \/ isNew(tasks'[c])
      OBVIOUS
    <2>1. CASE \E t \in new : f[t] = c
      <3>1. tasks'[c] \in new
        BY <1>1, <2>1
      <3> QED BY <3>1
    <2>2. CASE ~ \E t \in new : f[t] = c
      BY <1>1, <2>2
    <2> QED BY <2>1, <2>2
  <1>3. TaskShape'
    BY <1>1, <1>2 DEF RecordInv, TaskShape, isNew, isTaskRecord
  <1>4. UNCHANGED <<log, tail, leader, inherited, deposed, applied, waiters, calls>>
    BY DEF submitVars, raftVars
  <1>5. \A c \in Caller : leftAlone(c)
    BY <1>2, <1>4 DEF leftAlone, isNew
  <1>6. LogShape' /\ CallShape'
    BY <1>4 DEF RecordInv, LogShape, CallShape, isCallRecord
  <1> QED BY <1>3, <1>4, <1>5, <1>6, RecordsKept DEF RecordInv

LEMMA FiringIsNew ==
    ASSUME NEW by, NEW i, NEW id, NEW minute
    PROVE  isNew(Firing(by, i, id, minute))
  BY DEF isNew, isTaskRecord, Firing, FreeTask

LEMMA RequestIsNew ==
    ASSUME NEW op, NEW i, NEW id, NEW job
    PROVE  isNew(Request(op, i, id, job))
  BY DEF isNew, isTaskRecord, Request, FreeTask

\* The ticks and the catch-up only start tasks ...
LEMMA LoopsKeepRecords ==
    ASSUME RecordInv, overtaken \subseteq overtaken', NEW i \in Node,
           tick(i) \/ ReconcileMissedJobs(i)
    PROVE  RecordInv'
  <1>1. CASE tick(i)
    <2> DEFINE new == {Firing("tick", i, j, store[i].jobs[j].nextRun) :
                          j \in {j \in due(i) : store[i].jobs[j].enabled}}
    <2>1. go(new) /\ UNCHANGED <<submitVars, executed>>
      BY <1>1 DEF tick
    <2>2. \A t \in new : isNew(t)
      BY FiringIsNew
    <2> HIDE DEF new
    <2> QED BY <2>1, <2>2, GoKeepsRecords
  <1>2. CASE ReconcileMissedJobs(i)
    <2> DEFINE catchUp(j) ==
                  LET job == store[i].jobs[j]
                  IN  CASE job.policy = "run_once" -> {Firing("reconcile", i, j, job.nextRun)}
                        [] job.policy = "skip" /\ nextRun(now) # 0 ->
                              {Request("update_job", i, j, [job EXCEPT !.nextRun = nextRun(now)])}
                        [] OTHER -> {}
               new == UNION {catchUp(j) : j \in due(i)}
    <2>1. go(new) /\ UNCHANGED <<submitVars, executed>>
      BY <1>2 DEF ReconcileMissedJobs
    <2>2. ASSUME NEW j \in due(i), NEW t \in catchUp(j) PROVE isNew(t)
      <3> DEFINE job == store[i].jobs[j]
      <3>1. \/ t = Firing("reconcile", i, j, job.nextRun)
            \/ t = Request("update_job", i, j, [job EXCEPT !.nextRun = nextRun(now)])
        <4>1. CASE job.policy = "run_once"
          BY <4>1
        <4>2. CASE job.policy # "run_once"
          BY <4>2
        <4> QED BY <4>1, <4>2
      <3> QED BY <3>1, FiringIsNew, RequestIsNew
    <2> HIDE DEF catchUp
    <2>3. \A t \in new : isNew(t)
      BY <2>2
    <2> HIDE DEF new
    <2> QED BY <2>1, <2>3, GoKeepsRecords
  <1> QED BY <1>1, <1>2

\* ... and so do requests.
LEMMA StartersKeepRecords ==
    ASSUME RecordInv, overtaken \subseteq overtaken', NEW i \in Node, NEW id \in Job,
           FireNow(i, id) \/ createJob(i, id) \/ deleteJob(i, id)
    PROVE  RecordInv'
  <1>1. CASE FireNow(i, id)
    <2>1. go({Firing("trigger", i, id, now)}) /\ UNCHANGED <<submitVars, executed>>
      BY <1>1 DEF FireNow
    <2>2. \A t \in {Firing("trigger", i, id, now)} : isNew(t)
      BY FiringIsNew
    <2> QED BY <2>1, <2>2, GoKeepsRecords
  <1>2. CASE createJob(i, id) \/ deleteJob(i, id)
    <2>1. PICK op, job : go({Request(op, i, id, job)})
      BY <1>2 DEF createJob, deleteJob
    <2>2. UNCHANGED <<submitVars, executed>>
      BY <1>2 DEF createJob, deleteJob
    <2>3. \A t \in {Request(op, i, id, job)} : isNew(t)
      BY RequestIsNew
    <2> QED BY <2>1, <2>2, <2>3, GoKeepsRecords
  <1> QED BY <1>1, <1>2

LEMMA FireJobKeepsRecords ==
    ASSUME RecordInv, overtaken \subseteq overtaken', NEW c \in Caller, fireJob(c)
    PROVE  RecordInv'
  <1> DEFINE t == tasks[c]
             ended == [t EXCEPT !.stage = "done"]
             moved == [t EXCEPT !.stage = "update", !.job.nextRun = nextRun(t.at)]
  <1>1. isTaskRecord(t)
    BY DEF RecordInv, TaskShape
  <1>2. /\ isTaskRecord(ended) /\ ended.stage = "done"
        /\ isTaskRecord(moved) /\ moved.stage = "update"
    BY <1>1 DEF isTaskRecord
  <1>3. /\ tasks' = [tasks EXCEPT ![c] = ended] \/ tasks' = [tasks EXCEPT ![c] = moved]
        /\ UNCHANGED <<submitVars, executed>>
    BY DEF fireJob
  <1> HIDE DEF ended, moved, t
  <1>4. TaskShape'
    BY <1>2, <1>3 DEF RecordInv, TaskShape, isTaskRecord
  <1>5. UNCHANGED <<log, tail, leader, inherited, deposed, applied, waiters, calls>>
    BY <1>3 DEF submitVars, raftVars
  <1>6. \A d \in Caller : tasks'[d] = tasks[d] \/ tasks'[d].stage \in {"done", "update"}
    BY <1>2, <1>3 DEF RecordInv, TaskShape
  <1>7. \A d \in Caller : leftAlone(d)
    BY <1>5, <1>6 DEF leftAlone
  <1>8. LogShape' /\ CallShape'
    BY <1>5 DEF RecordInv, LogShape, CallShape, isCallRecord
  <1> QED BY <1>3, <1>4, <1>5, <1>7, <1>8, RecordsKept DEF RecordInv

\* The record goes into the tail of the newest leader; on any other node c is overtaken.
LEMMA SubmitKeepsRecords ==
    ASSUME RecordInv, NEW c \in Caller, submit(c), overtaken' = overtaken \cup atDeposed'
    PROVE  RecordInv'
  <1> DEFINE i == tasks[c].node
             cmd == command(tasks[c])
  <1>1. /\ calls[c].pc = "idle" /\ Start(c, i, cmd)
        /\ UNCHANGED <<log, inherited, leader, applied, waiters, tasks, executed>>
    BY DEF submit, Start, schedVars
  <1>2. \/ /\ calls' = [calls EXCEPT ![c] = [NoCall EXCEPT !.pc = "ErrNotLeader", !.node = i]]
           /\ UNCHANGED <<tail, deposed>>
        \/ /\ calls' = [calls EXCEPT ![c] = [pc |-> "started", node |-> i,
                                             index |-> lastLogIndex(i) + 1]]
           /\ \/ /\ i = leader /\ tail' = Append(tail, cmd) /\ UNCHANGED deposed
              \/ /\ i # leader /\ UNCHANGED tail
                 /\ deposed' = [deposed EXCEPT ![i].tail = Append(@, cmd)]
    BY <1>1 DEF Start
  <1>3. TaskShape'
    BY <1>1 DEF RecordInv, TaskShape, isTaskRecord
  <1> HIDE DEF i, cmd
  <1>4. LogShape'
    <2>1. isSeq(tail')
      <3>1. isSeq(tail) /\ (tail' = tail \/ tail' = Append(tail, cmd))
        BY <1>2 DEF RecordInv, LogShape
      <3>2. isSeq(Append(tail, cmd))
        BY <3>1, AppendIsSeq
      <3> QED BY <3>1, <3>2
    <2>2. /\ deposed' = [j \in Node |-> deposed'[j]]
          /\ \A j \in Node : "tail" \in DOMAIN deposed'[j] /\ isSeq(deposed'[j].tail)
      <3>1. CASE UNCHANGED deposed
        BY <3>1 DEF RecordInv, LogShape
      <3>2. CASE deposed' = [deposed EXCEPT ![i].tail = Append(@, cmd)]
        <4>1. ASSUME NEW j \in Node
              PROVE  "tail" \in DOMAIN deposed'[j] /\ isSeq(deposed'[j].tail)
          <5>1. "tail" \in DOMAIN deposed[j] /\ isSeq(deposed[j].tail)
            BY DEF RecordInv, LogShape
          <5>2. CASE j = i
            <6>1. /\ deposed'[j].tail = Append(deposed[j].tail, cmd)
                  /\ "tail" \in DOMAIN deposed'[j]
              BY <3>2, <5>1, <5>2 DEF RecordInv, LogShape
            <6> QED BY <5>1, <6>1, AppendIsSeq
          <5>3. CASE j # i
            BY <3>2, <5>1, <5>3 DEF RecordInv, LogShape
          <5> QED BY <5>2, <5>3
        <4> QED BY <3>2, <4>1 DEF RecordInv, LogShape
      <3> QED BY <1>2, <3>1, <3>2
    <2> QED BY <1>1, <2>1, <2>2 DEF RecordInv, LogShape
  <1>5. /\ \A d \in Caller : d # c => calls'[d] = calls[d]
        /\ calls' = [d \in Caller |-> calls'[d]]
        /\ isCallRecord(calls'[c])
    BY <1>2 DEF RecordInv, CallShape, isCallRecord, NoCall
  <1>6. CallShape'
    BY <1>1, <1>5 DEF RecordInv, CallShape, isCallRecord
  <1>7. CASE calls' = [calls EXCEPT ![c] = [NoCall EXCEPT !.pc = "ErrNotLeader", !.node = i]]
             /\ UNCHANGED tail
    <2>1. calls'[c].pc = "ErrNotLeader"
      BY <1>7 DEF RecordInv, CallShape, NoCall
    <2>2. \A d \in Caller : leftAlone(d)
      BY <1>1, <1>5, <2>1 DEF leftAlone
    <2> QED BY <1>1, <1>3, <1>4, <1>6, <1>7, <2>2, RecordsKept DEF RecordInv
  <1>8. CASE calls' = [calls EXCEPT ![c] = [pc |-> "started", node |-> i,
                                            index |-> lastLogIndex(i) + 1]]
             /\ (i = leader => tail' = Append(tail, cmd))
    <2>1. calls'[c] = [pc |-> "started", node |-> i, index |-> lastLogIndex(i) + 1]
      BY <1>8 DEF RecordInv, CallShape
    <2>2. /\ Len(log) \in Nat /\ Len(tail) \in Nat /\ Len(tail') \in Nat
          /\ Len(tail') >= Len(tail) /\ \A k \in 1 .. Len(tail) : tail'[k] = tail[k]
      <3>1. Len(log) \in Nat /\ Len(tail) \in Nat
        BY DEF RecordInv, LogShape, isSeq
      <3>2. tail' = tail \/ tail' = Append(tail, cmd)
        BY <1>2
      <3> QED BY <3>1, <3>2, AppendIsSeq DEF RecordInv, LogShape
    <2>3. ASSUME NEW d \in Caller \ overtaken', tasks'[d].stage = "record",
                 calls'[d].pc \in {"started", "waiting", "nil"}
          PROVE  isCommitted(d)' \/ inTail(d)'
      <3>1. CASE d # c
        <4>1. calls'[d] = calls[d] /\ tasks'[d] = tasks[d]
          BY <1>1, <1>5, <3>1
        <4>2. isCommitted(d) \/ inTail(d)
          BY <2>3, <4>1 DEF RecordInv, PendingInv
        <4>3. CASE isCommitted(d)
          BY <1>1, <4>1, <4>3 DEF isCommitted, command, key
        <4>4. CASE inTail(d)
          <5>1. /\ calls'[d].pc # "nil" /\ calls'[d].node = leader'
                /\ calls'[d].index \in Len(log') + 1 .. Len(log') + Len(tail')
                /\ tail'[calls'[d].index - Len(log')] = command(tasks'[d])
            BY SMTT(60), <1>1, <2>2, <4>1, <4>4 DEF inTail
          <5> QED BY <5>1 DEF inTail, command, key
        <4> QED BY <4>2, <4>3, <4>4
      <3>2. CASE d = c /\ i = leader
        <4>1. tail' = Append(tail, cmd) /\ lastLogIndex(i) = Len(log) + Len(tail)
          BY <1>8, <3>2 DEF lastLogIndex
        <4>2. Len(tail') = Len(tail) + 1 /\ tail'[Len(tail) + 1] = cmd
          BY <4>1, AppendIsSeq DEF RecordInv, LogShape
        <4>3. /\ calls'[c].pc # "nil" /\ calls'[c].node = leader'
              /\ calls'[c].index \in Len(log') + 1 .. Len(log') + Len(tail')
              /\ calls'[c].index - Len(log') = Len(tail) + 1
          BY <1>1, <2>1, <2>2, <3>2, <4>1, <4>2
        <4>4. cmd = command(tasks'[c])
          BY <1>1 DEF cmd
        <4> QED BY <3>2, <4>2, <4>3, <4>4 DEF inTail, command, key
      <3>3. CASE d = c /\ i # leader
        <4>1. c \in atDeposed' \/ isCommitted(c)'
          BY <1>1, <2>1, <2>3, <3>3 DEF atDeposed
        <4> QED BY <2>3, <3>3, <4>1
      <3> QED BY <3>1, <3>2, <3>3
    <2>4. PendingInv'
      BY <2>3 DEF PendingInv
    <2>5. DispatchInv' /\ ExecutedInv'
      BY <1>1 DEF RecordInv, DispatchInv, ExecutedInv, isRecorded, key, Key
    <2> QED BY <1>3, <1>4, <1>6, <2>4, <2>5 DEF RecordInv
  <1> QED BY <1>2, <1>7, <1>8

\* Only an answer of nil leads to the executor, and then the record is committed.
LEMMA ReturnKeepsRecords ==
    ASSUME RecordInv, overtaken \subseteq overtaken', NEW c \in Caller, submitReturns(c)
    PROVE  RecordInv'
  <1> DEFINE t == tasks[c]
             stage == after(t.stage, calls[c].pc)
  <1>1. /\ calls[c].pc \in Outcome
        /\ tasks' = [tasks EXCEPT ![c].stage = stage]
        /\ calls' = [calls EXCEPT ![c] = NoCall]
        /\ UNCHANGED <<log, tail, leader, inherited, deposed, applied, waiters, executed>>
    BY DEF submitReturns, raftVars
  <1>2. /\ tasks' = [d \in Caller |-> tasks'[d]]
        /\ \A d \in Caller : d # c => tasks'[d] = tasks[d]
        /\ isTaskRecord(tasks'[c]) /\ tasks'[c].stage = stage
        /\ tasks'[c].id = t.id /\ tasks'[c].minute = t.minute
    BY <1>1 DEF RecordInv, TaskShape, isTaskRecord
  <1>3. TaskShape'
    BY <1>2 DEF RecordInv, TaskShape, isTaskRecord
  <1>4. /\ calls' = [d \in Caller |-> calls'[d]]
        /\ \A d \in Caller : d # c => calls'[d] = calls[d]
        /\ isCallRecord(calls'[c]) /\ calls'[c].pc = "idle"
    BY <1>1 DEF RecordInv, CallShape, isCallRecord, NoCall
  <1>5. CallShape'
    BY <1>1, <1>4 DEF RecordInv, CallShape, isCallRecord, Outcome
  <1>6. LogShape'
    BY <1>1 DEF RecordInv, LogShape
  <1>7. ASSUME stage = "dispatch", c \notin overtaken' PROVE isRecorded(key(tasks'[c]))
    <2>1. t.stage = "record" /\ calls[c].pc = "nil"
      BY <1>7 DEF after
    <2>2. isCommitted(c)
      BY <1>7, <2>1 DEF RecordInv, PendingInv, inTail
    <2>3. /\ log[calls[c].index].op = "record_run"
          /\ log[calls[c].index].run.key = key(t)
      BY <2>1, <2>2 DEF isCommitted, command
    <2>4. key(tasks'[c]) = key(t)
      BY <1>2 DEF key
    <2> QED BY <2>2, <2>3, <2>4 DEF isRecorded, isCommitted
  <1> HIDE DEF stage, t
  <1>8. \A d \in Caller : leftAlone(d)
    BY <1>2, <1>4, <1>7 DEF leftAlone
  <1> QED BY <1>1, <1>3, <1>5, <1>6, <1>8, RecordsKept DEF RecordInv

LEMMA DispatchKeepsRecords ==
    ASSUME RecordInv, overtaken \subseteq overtaken', NEW c \in Caller, Dispatch(c)
    PROVE  RecordInv'
  <1>1. /\ tasks[c].stage = "dispatch"
        /\ executed' = [executed EXCEPT ![key(tasks[c])] = @ \cup {c}]
        /\ UNCHANGED submitVars
    BY DEF Dispatch
  <1>2. PICK status : tasks' = [tasks EXCEPT ![c].stage = "final", ![c].status = status]
    BY DEF Dispatch
  <1>3. UNCHANGED <<log, tail, leader, inherited, deposed, applied, waiters, calls>>
    BY <1>1 DEF submitVars, raftVars
  <1>4. /\ tasks' = [d \in Caller |-> tasks'[d]]
        /\ \A d \in Caller : d # c => tasks'[d] = tasks[d]
        /\ isTaskRecord(tasks'[c]) /\ tasks'[c].stage = "final"
    BY <1>2 DEF RecordInv, TaskShape, isTaskRecord
  <1>5. TaskShape' /\ CallShape' /\ LogShape'
    BY <1>3, <1>4 DEF RecordInv, TaskShape, CallShape, LogShape, isTaskRecord, isCallRecord
  <1>6. PendingInv'
    <2> SUFFICES ASSUME NEW d \in Caller \ overtaken', tasks'[d].stage = "record",
                        calls'[d].pc \in {"started", "waiting", "nil"}
                 PROVE  isCommitted(d)' \/ inTail(d)'
      BY DEF PendingInv
    <2>1. tasks'[d] = tasks[d]
      BY <1>4
    <2>2. isCommitted(d) \/ inTail(d)
      BY <1>3, <2>1 DEF RecordInv, PendingInv
    <2> QED BY <1>3, <2>1, <2>2 DEF isCommitted, inTail, command, key
  <1>7. DispatchInv'
    <2> SUFFICES ASSUME NEW d \in Caller \ overtaken', tasks'[d].stage = "dispatch"
                 PROVE  isRecorded(key(tasks[d]))'
      BY DEF DispatchInv
    <2>1. tasks'[d] = tasks[d]
      BY <1>4
    <2>2. isRecorded(key(tasks[d]))
      BY <2>1 DEF RecordInv, DispatchInv
    <2> QED BY <1>3, <2>1, <2>2 DEF isRecorded, key
  <1>8. ExecutedInv'
    <2>1. executed' = [k \in Key |-> executed'[k]]
      BY <1>1 DEF RecordInv, ExecutedInv
    <2>2. ASSUME NEW k \in Key, executed'[k] \ overtaken' # {} PROVE isRecorded(k)
      <3>1. CASE executed[k] \ overtaken # {}
        BY <3>1 DEF RecordInv, ExecutedInv
      <3>2. CASE executed[k] \ overtaken = {}
        <4>1. k = key(tasks[c]) /\ c \notin overtaken
          BY <1>1, <2>2, <3>2 DEF RecordInv, ExecutedInv
        <4> QED BY <1>1, <4>1 DEF RecordInv, DispatchInv
      <3> QED BY <3>1, <3>2
    <2>3. \A k \in Key : executed'[k] \ overtaken' # {} => isRecorded(k)'
      BY <1>3, <2>2 DEF isRecorded
    <2> QED BY <2>1, <2>3 DEF ExecutedInv, Key
  <1> QED BY <1>5, <1>6, <1>7, <1>8 DEF RecordInv

LEMMA WaitersKeepRecords ==
    ASSUME RecordInv, overtaken \subseteq overtaken', NEW c \in Caller,
           registerWaiter(c) \/ timeout(c), UNCHANGED schedVars
    PROVE  RecordInv'
  <1>1. UNCHANGED <<log, tail, leader, inherited, deposed, applied, tasks, executed>>
    BY DEF registerWaiter, timeout, raftVars, schedVars
  <1>2. \/ /\ calls[c].pc = "started" /\ calls' = [calls EXCEPT ![c].pc = "waiting"]
           /\ waiters' = (waiters \ waitersAt(calls[c].node, calls[c].index))
                  \cup {[node |-> calls[c].node, index |-> calls[c].index, caller |-> c]}
        \/ /\ calls[c].pc = "waiting" /\ calls' = [calls EXCEPT ![c].pc = "ErrTimeout"]
           /\ waiters' = waiters \ waitersAt(calls[c].node, calls[c].index)
    BY DEF registerWaiter, timeout
  <1>3. /\ calls' = [d \in Caller |-> calls'[d]]
        /\ \A d \in Caller : d # c => calls'[d] = calls[d]
        /\ isCallRecord(calls'[c])
        /\ calls'[c].node = calls[c].node /\ calls'[c].index = calls[c].index
        /\ \/ calls[c].pc = "started" /\ calls'[c].pc = "waiting"
           \/ calls[c].pc = "waiting" /\ calls'[c].pc = "ErrTimeout"
    BY <1>2 DEF RecordInv, CallShape, isCallRecord
  <1>4. \A w \in waiters' :
           /\ w.caller \in Caller
           /\ calls'[w.caller].pc = "waiting"
           /\ calls'[w.caller].node = w.node /\ calls'[w.caller].index = w.index
    <2>1. CASE /\ calls[c].pc = "started" /\ calls' = [calls EXCEPT ![c].pc = "waiting"]
               /\ waiters' = (waiters \ waitersAt(calls[c].node, calls[c].index))
                     \cup {[node |-> calls[c].node, index |-> calls[c].index, caller |-> c]}
      <3>1. \A w \in waiters : w.caller # c
        BY <2>1 DEF RecordInv, CallShape
      <3>2. calls'[c].pc = "waiting"
        BY <1>3, <2>1
      <3> QED BY <1>3, <2>1, <3>1, <3>2 DEF RecordInv, CallShape
    <2>2. CASE /\ calls[c].pc = "waiting" /\ calls' = [calls EXCEPT ![c].pc = "ErrTimeout"]
               /\ waiters' = waiters \ waitersAt(calls[c].node, calls[c].index)
      <3>1. \A w \in waiters' : w \in waiters /\ w.caller # c
        BY <2>2 DEF RecordInv, CallShape, waitersAt
      <3> QED BY <1>3, <3>1 DEF RecordInv, CallShape
    <2> QED BY <1>2, <2>1, <2>2
  <1>5. CallShape'
    BY <1>3, <1>4 DEF RecordInv, CallShape, isCallRecord
  <1>6. LogShape' /\ TaskShape'
    BY <1>1 DEF RecordInv, LogShape, TaskShape, isTaskRecord
  <1>7. \A d \in Caller : leftAlone(d)
    BY <1>1, <1>3 DEF leftAlone
  <1> QED BY <1>1, <1>5, <1>6, <1>7, RecordsKept DEF RecordInv

\* Only the waiter of the index that is applied is woken, and that index is committed.
LEMMA ApplyKeepsRecords ==
    ASSUME RecordInv, overtaken \subseteq overtaken', NEW i \in Node, applyLoop(i)
    PROVE  RecordInv'
  <1> DEFINE woken == waitersAt(i, applied[i] + 1)
  <1>1. /\ UNCHANGED <<log, tail, leader, inherited, deposed, tasks, executed>>
        /\ applied' = [applied EXCEPT ![i] = @ + 1] /\ applied[i] < Len(log)
        /\ waiters' = waiters \ woken
        /\ calls' = [c \in Caller |-> IF \E w \in woken : w.caller = c
                                      THEN [calls[c] EXCEPT !.pc = "nil"] ELSE calls[c]]
    BY DEF applyLoop, applyNext, mayApply, raftVars
  <1>2. Len(log) \in Nat /\ applied[i] \in Nat /\ applied' \in [Node -> Nat]
    BY <1>1 DEF RecordInv, LogShape, isSeq
  <1>3. ASSUME NEW c \in Caller
        PROVE  \/ calls'[c] = calls[c] /\ ~ \E w \in woken : w.caller = c
               \/ /\ calls[c].pc = "waiting" /\ calls[c].node = i
                  /\ calls[c].index = applied[i] + 1
                  /\ calls'[c].pc = "nil" /\ isCallRecord(calls'[c])
                  /\ calls'[c].node = calls[c].node /\ calls'[c].index = calls[c].index
    <2>1. CASE \E w \in woken : w.caller = c
      <3>1. calls'[c] = [calls[c] EXCEPT !.pc = "nil"] /\ isCallRecord(calls[c])
        BY <1>1, <2>1 DEF RecordInv, CallShape
      <3>2. /\ calls[c].pc = "waiting" /\ calls[c].node = i
            /\ calls[c].index = applied[i] + 1
        BY <2>1 DEF waitersAt, RecordInv, CallShape
      <3> QED BY <3>1, <3>2 DEF isCallRecord
    <2>2. CASE ~ \E w \in woken : w.caller = c
      BY <1>1, <2>2
    <2> QED BY <2>1, <2>2
  <1>4. CallShape'
    <2>1. ASSUME NEW w \in waiters'
          PROVE  w \in waiters /\ w.caller \in Caller /\ calls'[w.caller] = calls[w.caller]
      <3>1. w \in waiters /\ w \notin woken /\ w.caller \in Caller
        BY <1>1 DEF RecordInv, CallShape
      <3>2. ~ (calls[w.caller].node = i /\ calls[w.caller].index = applied[i] + 1)
        BY <3>1 DEF RecordInv, CallShape, waitersAt
      <3> QED BY <1>3, <3>1, <3>2
    <2>2. calls' = [c \in Caller |-> calls'[c]]
      BY <1>1
    <2>3. \A c \in Caller : isCallRecord(calls'[c])
      BY <1>3 DEF RecordInv, CallShape
    <2> QED BY <2>1, <2>2, <2>3 DEF RecordInv, CallShape, isCallRecord
  <1>5. LogShape' /\ TaskShape'
    BY <1>1, <1>2 DEF RecordInv, LogShape, TaskShape, isTaskRecord
  <1>6. \A c \in Caller : leftAlone(c)
    BY <1>1, <1>2, <1>3 DEF leftAlone
  <1> QED BY <1>1, <1>4, <1>5, <1>6, RecordsKept DEF RecordInv

LEMMA CommitKeepsRecords ==
    ASSUME RecordInv, overtaken \subseteq overtaken', commit, UNCHANGED schedVars
    PROVE  RecordInv'
  <1>1. PICK n \in (inherited + 1) .. Len(tail) :
            /\ log' = log \o SubSeq(tail, 1, n)
            /\ tail' = SubSeq(tail, n + 1, Len(tail))
            /\ inherited' = 0
    BY DEF commit
  <1>2. UNCHANGED <<leader, deposed, applied, waiters, calls, tasks, executed>>
    BY DEF commit, schedVars
  <1> DEFINE S == Elems(log) \cup Elems(tail)
  <1>3. /\ log \in Seq(S) /\ tail \in Seq(S) /\ n \in 1 .. Len(tail)
        /\ Len(log) \in Nat /\ Len(tail) \in Nat
    <2>1. log \in Seq(Elems(log)) /\ tail \in Seq(Elems(tail)) /\ inherited \in Nat
      BY DEF RecordInv, LogShape, isSeq
    <2> HIDE DEF Elems
    <2> QED BY <1>1, <2>1, SeqMonotone
  <1> HIDE DEF S
  <1>4. /\ SubSeq(tail, 1, n) \in Seq(S) /\ Len(SubSeq(tail, 1, n)) = n
        /\ \A k \in 1 .. n : SubSeq(tail, 1, n)[k] = tail[k]
    BY <1>3, SubSeqProperties
  <1>5. /\ tail' \in Seq(S) /\ Len(tail') = Len(tail) - n
        /\ \A k \in 1 .. Len(tail) - n : tail'[k] = tail[n + k]
    BY <1>1, <1>3, SubSeqProperties
  <1>6. /\ log' \in Seq(S) /\ Len(log') = Len(log) + n
        /\ \A k \in 1 .. Len(log) : log'[k] = log[k]
        /\ \A k \in Len(log) + 1 .. Len(log) + n : log'[k] = tail[k - Len(log)]
    BY <1>1, <1>3, <1>4, ConcatProperties
  <1>7. LogShape'
    <2>1. isSeq(log') /\ isSeq(tail')
      BY <1>5, <1>6, SeqOfElems
    <2> QED BY <1>1, <1>2, <2>1 DEF RecordInv, LogShape
  <1>8. TaskShape' /\ CallShape'
    BY <1>2 DEF RecordInv, TaskShape, CallShape, isTaskRecord, isCallRecord
  <1>9. ASSUME NEW c \in Caller, isCommitted(c) \/ inTail(c)
        PROVE  isCommitted(c)' \/ inTail(c)'
    <2> DEFINE index == calls[c].index
               cmd == command(tasks[c])
    <2>1. /\ index = calls'[c].index /\ cmd = command(tasks'[c])
          /\ index \in Int
      BY <1>2, <1>3, <1>9 DEF isCommitted, inTail
    <2>2. \/ index \in 1 .. Len(log) /\ log[index] = cmd
          \/ /\ calls[c].pc # "nil" /\ calls[c].node = leader
             /\ index \in Len(log) + 1 .. Len(log) + Len(tail) /\ tail[index - Len(log)] = cmd
      BY <1>9 DEF isCommitted, inTail
    <2> HIDE DEF index, cmd
    <2>3. \/ index \in 1 .. Len(log') /\ log'[index] = cmd
          \/ /\ calls'[c].pc # "nil" /\ calls'[c].node = leader'
             /\ index \in Len(log') + 1 .. Len(log') + Len(tail')
             /\ tail'[index - Len(log')] = cmd
      <3>1. CASE index \in 1 .. Len(log) + n
        <4>1. log'[index] = cmd
          BY <1>3, <1>6, <2>1, <2>2, <3>1
        <4> QED BY <1>6, <3>1, <4>1
      <3>2. CASE index \notin 1 .. Len(log) + n
        <4>1. /\ calls[c].pc # "nil" /\ calls[c].node = leader
              /\ index \in Len(log) + n + 1 .. Len(log) + Len(tail)
              /\ tail[index - Len(log)] = cmd
          BY <1>3, <2>1, <2>2, <3>2
        <4>2. index - Len(log') \in 1 .. Len(tail) - n
          BY SMTT(60), <1>3, <1>6, <2>1, <4>1
        <4>3. tail'[index - Len(log')] = tail[n + (index - Len(log'))]
          BY <1>5, <4>2
        <4>4. n + (index - Len(log')) = index - Len(log)
          BY <1>3, <1>6, <2>1
        <4>5. index \in Len(log') + 1 .. Len(log') + Len(tail')
          BY <1>3, <1>5, <1>6, <2>1, <4>1
        <4> QED BY <1>2, <4>1, <4>3, <4>4, <4>5
      <3> QED BY <3>1, <3>2
    <2> QED BY <2>1, <2>3 DEF isCommitted, inTail, command, key
  <1>10. PendingInv'
    BY <1>2, <1>9 DEF RecordInv, PendingInv
  <1>11. ASSUME NEW k, isRecorded(k) PROVE isRecorded(k)'
    BY <1>3, <1>6, <1>11 DEF isRecorded
  <1>12. DispatchInv'
    <2> SUFFICES ASSUME NEW c \in Caller \ overtaken', tasks'[c].stage = "dispatch"
                 PROVE  isRecorded(key(tasks[c]))'
      BY DEF DispatchInv
    <2>1. isRecorded(key(tasks[c]))
      BY <1>2 DEF RecordInv, DispatchInv
    <2>2. key(tasks'[c]) = key(tasks[c])
      BY <1>2
    <2> QED BY <1>11, <2>1, <2>2 DEF isRecorded, key
  <1>13. ExecutedInv'
    BY <1>2, <1>11 DEF RecordInv, ExecutedInv, Key
  <1> QED BY <1>7, <1>8, <1>10, <1>12, <1>13 DEF RecordInv

\* Whoever waits at the old leader with a record in its tail is overtaken.
LEMMA ElectKeepsRecords ==
    ASSUME RecordInv, NEW j \in Node, elect(j), UNCHANGED schedVars,
           overtaken' = overtaken \cup atDeposed'
    PROVE  RecordInv'
  <1>1. /\ UNCHANGED <<log, applied, waiters, calls, tasks, executed>>
        /\ leader' = j /\ inherited' = Len(tail')
        /\ j = leader => tail' = tail
    BY DEF elect, schedVars
  <1>2. isSeq(tail')
    <2>1. \/ tail' = tail \/ tail' = deposed[j].tail
          \/ \E n \in 0 .. Len(tail) : tail' = SubSeq(tail, 1, n)
      BY DEF elect
    <2>2. isSeq(tail) /\ isSeq(deposed[j].tail)
      BY DEF RecordInv, LogShape
    <2>3. ASSUME NEW n \in 0 .. Len(tail) PROVE isSeq(SubSeq(tail, 1, n))
      <3>1. tail \in Seq(Elems(tail))
        BY <2>2 DEF isSeq
      <3> HIDE DEF Elems
      <3>2. SubSeq(tail, 1, n) \in Seq(Elems(tail))
        BY <3>1, SubSeqProperties
      <3> QED BY <3>2, SeqOfElems
    <2> QED BY <2>1, <2>2, <2>3
  <1>3. LogShape'
    <2>1. Len(tail') \in Nat
      BY <1>2 DEF isSeq
    <2>2. /\ deposed' = [i \in Node |-> deposed'[i]]
          /\ \A i \in Node : "tail" \in DOMAIN deposed'[i] /\ isSeq(deposed'[i].tail)
      <3> DEFINE last == [base |-> Len(log), tail |-> tail]
      <3>1. deposed' = deposed \/ deposed' = [deposed EXCEPT ![leader] = last]
        BY DEF elect
      <3>2. "tail" \in DOMAIN last /\ isSeq(last.tail)
        BY DEF RecordInv, LogShape
      <3> HIDE DEF last
      <3> QED BY <3>1, <3>2 DEF RecordInv, LogShape
    <2> QED BY <1>1, <1>2, <2>1, <2>2 DEF RecordInv, LogShape
  <1>4. TaskShape' /\ CallShape'
    BY <1>1 DEF RecordInv, TaskShape, CallShape, isTaskRecord, isCallRecord
  <1>5. ASSUME NEW c \in Caller \ overtaken', tasks[c].stage = "record",
               calls[c].pc \in {"started", "waiting", "nil"}
        PROVE  isCommitted(c)' \/ inTail(c)'
    <2>1. isCommitted(c) \/ inTail(c)
      BY <1>5 DEF RecordInv, PendingInv
    <2>2. CASE isCommitted(c)
      BY <1>1, <2>2 DEF isCommitted
    <2>3. CASE inTail(c) /\ j = leader
      BY <1>1, <2>3 DEF inTail
    <2>4. CASE inTail(c) /\ j # leader
      <3>1. calls[c].pc \in {"started", "waiting"} /\ calls[c].node # j
        BY <1>5, <2>4 DEF inTail
      <3>2. c \notin atDeposed'
        BY <1>5
      <3> QED BY <1>1, <1>5, <3>1, <3>2 DEF atDeposed
    <2> QED BY <2>1, <2>2, <2>3, <2>4
  <1>6. PendingInv'
    BY <1>1, <1>5 DEF PendingInv
  <1>7. DispatchInv' /\ ExecutedInv'
    BY <1>1 DEF RecordInv, DispatchInv, ExecutedInv, isRecorded, key, Key
  <1> QED BY <1>3, <1>4, <1>6, <1>7 DEF RecordInv

\* A crash ends the calls and the tasks of its node.
LEMMA RestartKeepsRecords ==
    ASSUME RecordInv, overtaken \subseteq overtaken', NEW i \in Node, restart(i)
    PROVE  RecordInv'
  <1>1. /\ UNCHANGED <<log, tail, leader, inherited, deposed, applied, executed>>
        /\ waiters' = {w \in waiters : w.node # i}
        /\ calls' = [c \in Caller |-> IF calls[c].node = i THEN [NoCall EXCEPT !.pc = "dead"]
                                      ELSE calls[c]]
        /\ tasks' = [c \in Caller |-> IF tasks[c].node = i
                                      THEN [tasks[c] EXCEPT !.stage = "done"] ELSE tasks[c]]
    BY DEF restart, crash
  <1>2. \A c \in Caller :
           tasks'[c] = tasks[c] \/ (isTaskRecord(tasks'[c]) /\ tasks'[c].stage = "done")
    BY <1>1 DEF RecordInv, TaskShape, isTaskRecord
  <1>3. \A c \in Caller :
           \/ calls'[c] = calls[c]
           \/ calls[c].node = i /\ isCallRecord(calls'[c]) /\ calls'[c].pc = "dead"
    BY <1>1 DEF isCallRecord, NoCall
  <1>4. LogShape' /\ TaskShape'
    BY <1>1, <1>2 DEF RecordInv, LogShape, TaskShape, isTaskRecord
  <1>5. CallShape'
    BY <1>1, <1>3 DEF RecordInv, CallShape, isCallRecord
  <1>6. \A c \in Caller : leftAlone(c)
    BY <1>2, <1>3 DEF leftAlone
  <1> QED BY <1>1, <1>4, <1>5, <1>6, RecordsKept DEF RecordInv

\* Steps that touch nothing of it, but applied
LEMMA QuietKeepsRecords ==
    ASSUME RecordInv, overtaken \subseteq overtaken', applied' \in [Node -> Nat],
           UNCHANGED <<log, tail, leader, inherited, deposed, waiters, calls, tasks, executed>>
    PROVE  RecordInv'
  <1>1. LogShape' /\ TaskShape' /\ CallShape'
    BY DEF RecordInv, LogShape, TaskShape, CallShape, isTaskRecord, isCallRecord
  <1>2. \A c \in Caller : leftAlone(c)
    BY DEF leftAlone
  <1> QED BY <1>1, <1>2, RecordsKept DEF RecordInv

LEMMA RecordNext == RecordInv /\ [Next]_vars => RecordInv'
  <1> SUFFICES ASSUME RecordInv, [Next]_vars PROVE RecordInv'
    OBVIOUS
  <1>0. applied \in [Node -> Nat]
    BY DEF RecordInv, LogShape
  <1>1. CASE UNCHANGED vars
    <2>1. /\ UNCHANGED <<log, tail, leader, inherited, deposed, waiters, calls, tasks, executed>>
          /\ UNCHANGED <<applied, overtaken>>
      BY <1>1 DEF vars, submitVars, raftVars, schedVars
    <2> QED BY <1>0, <2>1, QuietKeepsRecords
  <1> SUFFICES ASSUME Step, overtaken' = overtaken \cup atDeposed'
               PROVE  RecordInv'
    BY <1>1 DEF Next
  <1>2. overtaken \subseteq overtaken'
    OBVIOUS
  <1>3. ASSUME NEW i \in Node, NEW id \in Job,
               FireNow(i, id) \/ createJob(i, id) \/ deleteJob(i, id)
        PROVE  RecordInv'
    BY <1>2, <1>3, StartersKeepRecords
  <1>4. ASSUME NEW i \in Node, tick(i) \/ ReconcileMissedJobs(i) PROVE RecordInv'
    BY <1>2, <1>4, LoopsKeepRecords
  <1>5. ASSUME NEW i \in Node, applyLoop(i) PROVE RecordInv'
    BY <1>2, <1>5, ApplyKeepsRecords
  <1>6. ASSUME NEW i \in Node, NEW j \in Node, installSnapshot(i, j) PROVE RecordInv'
    <2>1. /\ UNCHANGED <<log, tail, leader, inherited, deposed, waiters, calls, tasks, executed>>
          /\ applied' = [applied EXCEPT ![i] = applied[j]]
      BY <1>6 DEF installSnapshot, applySnapshot, raftVars
    <2>2. applied' \in [Node -> Nat]
      BY <1>0, <2>1
    <2> QED BY <1>2, <2>1, <2>2, QuietKeepsRecords
  <1>7. ASSUME NEW i \in Node, raftStep(i) PROVE RecordInv'
    <2>1. CASE elect(i)
      BY <1>7, <2>1, ElectKeepsRecords DEF raftStep
    <2>2. CASE stepDown(i)
      <3>1. /\ UNCHANGED <<log, tail, leader, inherited, deposed, waiters, calls>>
            /\ UNCHANGED <<tasks, executed, applied>>
        BY <1>7, <2>2 DEF raftStep, stepDown, schedVars
      <3> QED BY <1>0, <1>2, <3>1, QuietKeepsRecords
    <2> QED BY <1>7, <2>1, <2>2 DEF raftStep
  <1>8. ASSUME NEW i \in Node, restart(i) PROVE RecordInv'
    BY <1>2, <1>8, RestartKeepsRecords
  <1>9. ASSUME NEW c \in Caller, fireJob(c) PROVE RecordInv'
    BY <1>2, <1>9, FireJobKeepsRecords
  <1>10. ASSUME NEW c \in Caller, submit(c) PROVE RecordInv'
    BY <1>10, SubmitKeepsRecords
  <1>11. ASSUME NEW c \in Caller, registerWaiter(c) \/ timeout(c), UNCHANGED schedVars
         PROVE  RecordInv'
    BY <1>2, <1>11, WaitersKeepRecords
  <1>12. ASSUME NEW c \in Caller, submitReturns(c) PROVE RecordInv'
    BY <1>2, <1>12, ReturnKeepsRecords
  <1>13. ASSUME NEW c \in Caller, Dispatch(c) PROVE RecordInv'
    BY <1>2, <1>13, DispatchKeepsRecords
  <1>14. CASE commit /\ UNCHANGED schedVars
    BY <1>2, <1>14, CommitKeepsRecords
  <1>15. CASE clock
    <2>1. /\ UNCHANGED <<log, tail, leader, inherited, deposed, waiters, calls>>
          /\ UNCHANGED <<tasks, executed, applied>>
      BY <1>15 DEF clock, submitVars, raftVars
    <2> QED BY <1>0, <1>2, <2>1, QuietKeepsRecords
  <1> QED
    BY <1>3, <1>4, <1>5, <1>6, <1>7, <1>8, <1>9, <1>10, <1>11, <1>12, <1>13, <1>14, <1>15
       DEF Step

\* Whatever the executor was given has its running record in the committed log, for any
\* nodes, jobs, requests, elections and crashes, unless another node was elected before the
\* record was committed: an error of Submit ends fireJob, and nil stands for the record.
THEOREM RunsAreRecorded == Spec => []RecordedBeforeRun
  <1>1. RecordInv => RecordedBeforeRun
    BY DEF RecordInv, ExecutedInv, RecordedBeforeRun, isRecorded
  <1> QED BY <1>1, RecordInit, RecordNext, PTL DEF Spec

-----------------------------------------------------------------------------
(* How often a firing is executed *)

\* Two tasks for one firing, started on one node in the same way
twins(c, d) ==
    /\ c # d /\ tasks[c].by \in {"tick", "reconcile"} /\ tasks[d].by = tasks[c].by
    /\ tasks[d].node = tasks[c].node /\ key(tasks[d]) = key(tasks[c])

Early == {"check", "update", "record"}

ran(c) == tasks[c].stage = "dispatch" \/ \E k \in Key : c \in executed[k]

\* The store of i has applied a record of the firing k.
recordedAt(i, k) ==
    \E n \in 1 .. applied[i] : log[n].op = "record_run" /\ log[n].run.key = k

\* A goroutine that was not started has no call; all others have a node and a job.
StartedInv ==
    \A c \in Caller :
        \/ tasks[c] = FreeTask /\ calls[c] = NoCall
        \/ tasks[c].stage # "free" /\ tasks[c].node \in Node /\ key(tasks[c]) \in Key

\* A call is of the node of its task, which has applied the index of a call that returned nil.
AnsweredInv ==
    /\ \A i \in Node : applied[i] <= Len(log)
    /\ \A c \in Caller : calls[c].pc \in {"started", "waiting", "nil"} =>
          /\ calls[c].node = tasks[c].node
          /\ calls[c].pc = "nil" => calls[c].index \in 0 .. applied[tasks[c].node]

\* A store has the runs of the records it applied, all of them and no others.
StoreInv ==
    historyComplete =>
        \A i \in Node, k \in Key : AlreadyFired(store[i], k) <=> recordedAt(i, k)

\* What ran has a record in the store of its node.
RanInv ==
    /\ \A k \in Key : \A c \in executed[k] :
          key(tasks[c]) = k /\ tasks[c].stage \in {"final", "done"}
    /\ \A c \in Caller \ overtaken : ran(c) => recordedAt(tasks[c].node, key(tasks[c]))

\* What may run, or ran, is a firing.
KindInv ==
    \A c \in Caller :
        tasks[c].stage \in Early \/ ran(c) => tasks[c].by \in {"tick", "reconcile", "trigger"}

\* While a catch-up may still fire a job, its node starts no other.
CatchUpInv ==
    \A c \in Caller :
        tasks[c].by = "reconcile" /\ tasks[c].stage \in Early => tasks[c].node \in reconciled

\* Of two such tasks only one is before its run, and none is once the other has run.
TwinsInv ==
    \A c, d \in Caller : twins(c, d) =>
        /\ ~ (tasks[c].stage \in Early /\ tasks[d].stage \in Early)
        /\ historyComplete /\ c \notin overtaken /\ d \notin overtaken /\ ran(c) =>
              tasks[d].stage \notin {"update", "record"} /\ ~ ran(d)

OnceInv ==
    /\ StartedInv /\ AnsweredInv /\ StoreInv /\ RanInv
    /\ KindInv /\ CatchUpInv /\ TwinsInv

LEMMA RecordedIsFinite ==
    ASSUME NEW s, Len(s) \in Nat
    PROVE  IsFiniteSet({s[n].run.key : n \in {n \in 1 .. Len(s) : s[n].op = "record_run"}})
  <1> DEFINE records == {n \in 1 .. Len(s) : s[n].op = "record_run"}
             keys == {s[n].run.key : n \in records}
             f == [n \in records |-> s[n].run.key]
  <1>1. IsFiniteSet(1 .. Len(s))
    BY FS_Interval
  <1>2. IsFiniteSet(records)
    BY <1>1, FS_Subset
  <1>3. f \in Surjection(records, keys)
    BY DEF Surjection
  <1>4. IsFiniteSet(keys)
    <2> HIDE DEF f, records, keys
    <2> QED BY <1>2, <1>3, FS_Surjection
  <1> QED BY <1>4

\* A history that is complete was so before.
LEMMA WasComplete ==
    ASSUME Len(log) \in Nat, Len(log)' \in Nat, Len(log) <= Len(log'),
           \A n \in 1 .. Len(log) : log'[n] = log[n], historyComplete'
    PROVE  historyComplete
  <1>1. recordedFirings \subseteq recordedFirings'
    BY DEF recordedFirings
  <1>2. IsFiniteSet(recordedFirings')
    BY RecordedIsFinite DEF recordedFirings
  <1>3. /\ Cardinality(recordedFirings) <= Cardinality(recordedFirings')
        /\ Cardinality(recordedFirings) \in Nat /\ Cardinality(recordedFirings') \in Nat
    BY <1>1, <1>2, FS_Subset, FS_CardinalityType
  <1>4. Cardinality(recordedFirings) <= MaxRuns
    BY <1>3, MaxRunsAssumption DEF historyComplete
  <1> QED BY <1>4 DEF historyComplete

\* As long as there is room a history has the firings it had and the new one.
LEMMA UpsertRunKeys ==
    ASSUME NEW st, isStore(st), NEW run \in BackedRun,
           AlreadyFired(st, run.key) \/ Len(st.runs) < MaxRuns, NEW k
    PROVE  AlreadyFired(upsertRun(st, run), k) <=> AlreadyFired(st, k) \/ k = run.key
  <1> DEFINE same == {a \in 1 .. Len(st.runs) : st.runs[a].key = run.key}
  <1>0. st.runs \in Seq(BackedRun) /\ Len(st.runs) \in Nat
    BY DEF isStore
  <1>1. ASSUME NEW s, NEW u PROVE updateJobRunFields([jobs |-> st.jobs, runs |-> s], u).runs = s
    BY DEF updateJobRunFields
  <1>2. CASE same # {}
    <2>1. PICK a \in 1 .. Len(st.runs) : st.runs[a].key = run.key
      BY <1>2
    <2>2. same = {a}
      BY <2>1 DEF isStore, uniqueKeys
    <2>3. Min(same) = a
      BY <2>2, MinOfOne
    <2> DEFINE merged == mergeRun(st.runs[a], run)
               new == [st.runs EXCEPT ![a] = merged]
    <2>4. merged.key = run.key
      <3>1. st.runs[a] \in BackedRun
        BY <1>0
      <3> QED BY <2>1, <3>1, MergeOK
    <2>5. upsertRun(st, run) = updateJobRunFields([st EXCEPT !.runs[a] = merged], merged)
      BY <1>2, <2>3 DEF upsertRun
    <2> HIDE DEF merged
    <2>6. [st EXCEPT !.runs[a] = merged] = [jobs |-> st.jobs, runs |-> new]
      BY DEF isStore
    <2>7. Len(new) = Len(st.runs) /\ \A b \in 1 .. Len(st.runs) : new[b].key = st.runs[b].key
      BY <1>0, <2>1, <2>4
    <2> HIDE DEF new
    <2>8. upsertRun(st, run).runs = new
      BY <1>1, <2>5, <2>6
    <2> QED BY <2>1, <2>7, <2>8 DEF AlreadyFired
  <1>3. CASE same = {}
    <2> DEFINE longer == Append(st.runs, run)
    <2>1. Len(st.runs) < MaxRuns
      BY <1>3 DEF AlreadyFired
    <2>2. /\ longer \in Seq(BackedRun) /\ Len(longer) = Len(st.runs) + 1
          /\ \A b \in 1 .. Len(st.runs) : longer[b] = st.runs[b]
          /\ longer[Len(st.runs) + 1] = run
      BY <1>0
    <2>3. [st EXCEPT !.runs = lastRuns(Append(@, run))] = [jobs |-> st.jobs, runs |-> lastRuns(longer)]
      BY DEF isStore
    <2>4. upsertRun(st, run) = updateJobRunFields([jobs |-> st.jobs, runs |-> lastRuns(longer)], run)
      BY <1>3, <2>3 DEF upsertRun
    <2> HIDE DEF longer
    <2>5. lastRuns(longer) = longer
      <3>1. Len(longer) - MaxRuns + 1 \in Int /\ Len(longer) - MaxRuns + 1 <= 1
        BY <1>0, <2>1, <2>2, MaxRunsAssumption
      <3>2. Max({1, Len(longer) - MaxRuns + 1}) = 1
        BY <3>1, MaxOfPair
      <3>3. SubSeq(longer, 1, Len(longer)) = longer
        BY <2>2
      <3> QED BY <3>2, <3>3 DEF lastRuns
    <2>6. upsertRun(st, run).runs = longer
      BY <1>1, <2>4, <2>5
    <2>7. 1 .. Len(longer) = 1 .. Len(st.runs) \cup {Len(st.runs) + 1}
      BY <1>0, <2>2
    <2> QED BY <2>2, <2>6, <2>7 DEF AlreadyFired
  <1> QED BY <1>2, <1>3

\* A history whose firings are all recorded has room for another one.
LEMMA RoomForRun ==
    ASSUME NEW st, isStore(st), NEW k, ~ AlreadyFired(st, k), k \in recordedFirings,
           \A a \in 1 .. Len(st.runs) : st.runs[a].key \in recordedFirings,
           Len(log) \in Nat, historyComplete
    PROVE  Len(st.runs) < MaxRuns
  <1> DEFINE S == 1 .. Len(st.runs)
             T == recordedFirings \ {k}
             f == [a \in S |-> st.runs[a].key]
  <1>1. Len(st.runs) \in Nat
    BY DEF isStore
  <1>2. IsFiniteSet(recordedFirings)
    BY RecordedIsFinite DEF recordedFirings
  <1>3. IsFiniteSet(T) /\ Cardinality(T) = Cardinality(recordedFirings) - 1
    BY <1>2, FS_RemoveElement
  <1>4. f \in Injection(S, T)
    <2>1. f \in [S -> T]
      BY DEF AlreadyFired
    <2>2. \A a, b \in S : f[a] = f[b] => a = b
      BY DEF isStore, uniqueKeys
    <2>3. DOMAIN f = S
      OBVIOUS
    <2> HIDE DEF f, S, T
    <2> QED BY <2>1, <2>2, <2>3 DEF Injection, IsInjective
  <1>5. Cardinality(S) <= Cardinality(T)
    <2> HIDE DEF f, S, T
    <2> QED BY <1>3, <1>4, FS_Injection
  <1>6. Cardinality(S) = Len(st.runs)
    BY SMTT(60), <1>1, FS_Interval
  <1>7. Cardinality(recordedFirings) \in Nat /\ Cardinality(recordedFirings) <= MaxRuns
    BY <1>2, FS_CardinalityType DEF historyComplete
  <1> HIDE DEF S, T
  <1> QED BY <1>1, <1>3, <1>5, <1>6, <1>7, MaxRunsAssumption

LEMMA OnceInit == Init => OnceInv
  <1> SUFFICES ASSUME Init PROVE OnceInv
    OBVIOUS
  <1>1. \A c \in Caller : tasks[c] = FreeTask /\ calls[c] = NoCall
    BY DEF Init, SubmitInit
  <1>2. FreeTask.stage = "free" /\ FreeTask.by = "" /\ NoCall.pc = "idle"
    BY DEF FreeTask, NoCall
  <1>3. \A k \in Key : executed[k] = {}
    BY DEF Init, Key
  <1>4. Len(log) = 0 /\ \A i \in Node : applied[i] = 0
    BY DEF Init, SubmitInit
  <1>5. \A i \in Node : Len(store[i].runs) = 0
    <2>1. PICK jobs : store = [i \in Node |-> [jobs |-> jobs, runs |-> <<>>]]
      BY DEF Init
    <2>2. \A i \in Node : store[i].runs = <<>>
      BY <2>1
    <2> QED BY <2>2
  <1>6. StartedInv /\ AnsweredInv
    <2>1. StartedInv
      BY <1>1 DEF StartedInv
    <2>2. \A c \in Caller : calls[c].pc = "idle"
      BY <1>1, <1>2
    <2>3. AnsweredInv
      BY <1>4, <2>2 DEF AnsweredInv
    <2> QED BY <2>1, <2>3
  <1>7. StoreInv
    BY <1>4, <1>5 DEF StoreInv, AlreadyFired, recordedAt
  <1>8. \A c \in Caller : ~ ran(c)
    BY <1>1, <1>2, <1>3 DEF ran
  <1>9. RanInv /\ KindInv /\ CatchUpInv /\ TwinsInv
    BY <1>1, <1>2, <1>3, <1>8 DEF RanInv, KindInv, CatchUpInv, TwinsInv, twins, Early
  <1> QED BY <1>6, <1>7, <1>9 DEF OnceInv

\* How a step may move the task c: not back, past the check only without a run in the store
\* of its node, and past its record only with one.
movesOn(c) ==
    /\ tasks'[c].by = tasks[c].by /\ tasks'[c].node = tasks[c].node
    /\ key(tasks'[c]) = key(tasks[c])
    /\ tasks'[c].stage \in Early => /\ tasks[c].stage \in Early
                                    /\ tasks[c].node \in reconciled => tasks[c].node \in reconciled'
    /\ tasks'[c].stage \in {"update", "record"} =>
          \/ tasks[c].stage \in {"update", "record"}
          \/ ~ AlreadyFired(store[tasks[c].node], key(tasks[c]))
    /\ ran(c)' =>
          \/ ran(c)
          \/ /\ tasks[c].stage = "record"
             /\ c \in overtaken' \/ recordedAt(tasks[c].node, key(tasks[c]))

\* How it may move the call of c: one that has not been started stays so.
callKept(c) ==
    /\ tasks[c].stage = "free" => tasks'[c] = tasks[c] /\ calls'[c] = calls[c]
    /\ tasks'[c].stage = "free" => tasks[c].stage = "free"
    /\ \/ calls'[c] = calls[c]
       \/ calls'[c].pc \notin {"started", "waiting", "nil"}
       \/ /\ calls'[c].node = tasks[c].node
          /\ calls'[c].pc = "nil" => calls'[c].index \in 0 .. applied'[tasks[c].node]

\* What was committed and applied stays so.
logGrows ==
    /\ Len(log) \in Nat /\ Len(log') \in Nat /\ Len(log) <= Len(log')
    /\ \A n \in 1 .. Len(log) : log'[n] = log[n]
    /\ applied \in [Node -> Nat] /\ applied' \in [Node -> Nat]
    /\ \A i \in Node : applied[i] <= applied'[i] /\ applied'[i] <= Len(log')

LEMMA MovesKeepTwins ==
    ASSUME OnceInv, overtaken \subseteq overtaken', historyComplete' => historyComplete,
           \A c \in Caller : movesOn(c)
    PROVE  TwinsInv'
  <1> SUFFICES ASSUME NEW c \in Caller, NEW d \in Caller, twins(c, d)'
               PROVE  /\ ~ (tasks'[c].stage \in Early /\ tasks'[d].stage \in Early)
                      /\ historyComplete' /\ c \notin overtaken' /\ d \notin overtaken' /\ ran(c)' =>
                            tasks'[d].stage \notin {"update", "record"} /\ ~ ran(d)'
    BY DEF TwinsInv, Early
  <1>1. movesOn(c) /\ movesOn(d)
    OBVIOUS
  <1>2. twins(c, d) /\ twins(d, c)
    BY <1>1 DEF twins, movesOn, key
  <1>3. ~ (tasks[c].stage \in Early /\ tasks[d].stage \in Early)
    BY <1>2 DEF OnceInv, TwinsInv
  <1>4. ~ (tasks'[c].stage \in Early /\ tasks'[d].stage \in Early)
    BY <1>1, <1>3 DEF movesOn
  <1>5. ASSUME historyComplete', c \notin overtaken', d \notin overtaken', ran(c)'
        PROVE  tasks'[d].stage \notin {"update", "record"} /\ ~ ran(d)'
    <2>1. historyComplete /\ c \notin overtaken /\ d \notin overtaken
      BY <1>5
    <2>2. CASE ran(c)
      <3>1. tasks[d].stage \notin {"update", "record"} /\ ~ ran(d)
        BY <1>2, <2>1, <2>2 DEF OnceInv, TwinsInv
      <3>2. AlreadyFired(store[tasks[d].node], key(tasks[d]))
        <4>1. recordedAt(tasks[d].node, key(tasks[d]))
          BY <1>2, <2>1, <2>2 DEF OnceInv, RanInv, twins
        <4>2. tasks[d].node \in Node /\ key(tasks[d]) \in Key
          <5>1. tasks[d].by # FreeTask.by
            BY <1>2 DEF twins, FreeTask
          <5> QED BY <5>1 DEF OnceInv, StartedInv
        <4> QED BY <2>1, <4>1, <4>2 DEF OnceInv, StoreInv
      <3> QED BY <1>1, <1>5, <3>1, <3>2 DEF movesOn
    <2>3. CASE ~ ran(c)
      <3>1. tasks[c].stage = "record"
        BY <1>1, <1>5, <2>3 DEF movesOn
      <3>2. tasks[d].stage \notin Early
        BY <1>3, <3>1 DEF Early
      <3>3. ~ ran(d)
        BY <1>2, <2>1, <3>1 DEF OnceInv, TwinsInv
      <3>4. tasks'[d].stage \notin Early
        BY <1>1, <3>2 DEF movesOn
      <3> QED BY <1>1, <1>5, <3>2, <3>3, <3>4 DEF movesOn, Early
    <2> QED BY <2>2, <2>3
  <1> QED BY <1>4, <1>5

\* Steps under which tasks move on and nothing is forgotten
LEMMA MovesKeepOnce ==
    ASSUME OnceInv, overtaken \subseteq overtaken', logGrows, StoreInv',
           \A c \in Caller : movesOn(c) /\ callKept(c),
           \A k \in Key : \A c \in executed'[k] :
               c \in Caller /\ key(tasks[c]) = k /\ tasks'[c].stage \in {"final", "done"}
    PROVE  OnceInv'
  <1>0. FreeTask.stage = "free" /\ FreeTask.by = "" /\ NoCall.pc = "idle"
    BY DEF FreeTask, NoCall
  <1>1. historyComplete' => historyComplete
    BY WasComplete DEF logGrows
  <1>2. TwinsInv'
    BY <1>1, MovesKeepTwins
  <1>3. KindInv' /\ CatchUpInv'
    BY DEF OnceInv, KindInv, CatchUpInv, movesOn, Early
  <1>4. \A c \in Caller : tasks[c].stage # "free" => tasks[c].node \in Node /\ key(tasks[c]) \in Key
    BY <1>0 DEF OnceInv, StartedInv
  <1>5. StartedInv'
    <2> SUFFICES ASSUME NEW c \in Caller
                 PROVE  \/ tasks'[c] = FreeTask /\ calls'[c] = NoCall
                        \/ tasks'[c].stage # "free" /\ tasks'[c].node \in Node /\ key(tasks'[c]) \in Key
      BY DEF StartedInv, key, Key, FreeTask, NoJob, NoCall
    <2>1. CASE tasks[c].stage = "free"
      BY <2>1 DEF OnceInv, StartedInv, callKept
    <2>2. CASE tasks[c].stage # "free"
      BY <1>4, <2>2 DEF callKept, movesOn
    <2> QED BY <2>1, <2>2
  <1>6. AnsweredInv'
    <2> SUFFICES ASSUME NEW c \in Caller, calls'[c].pc \in {"started", "waiting", "nil"}
                 PROVE  /\ calls'[c].node = tasks'[c].node
                        /\ calls'[c].pc = "nil" => calls'[c].index \in 0 .. applied'[tasks'[c].node]
      BY DEF AnsweredInv, logGrows
    <2>1. tasks[c].stage # "free"
      BY <1>0 DEF callKept, OnceInv, StartedInv
    <2>2. tasks[c].node \in Node /\ tasks'[c].node = tasks[c].node
      BY <1>4, <2>1 DEF movesOn
    <2>3. CASE calls'[c] = calls[c]
      BY <2>2, <2>3 DEF OnceInv, AnsweredInv, logGrows
    <2>4. CASE calls'[c] # calls[c]
      BY <2>2, <2>4 DEF callKept
    <2> QED BY <2>3, <2>4
  <1>7. ASSUME NEW i \in Node, NEW k, recordedAt(i, k)
        PROVE  \E n \in 1 .. applied'[i] : log'[n].op = "record_run" /\ log'[n].run.key = k
    <2>1. PICK n \in 1 .. applied[i] : log[n].op = "record_run" /\ log[n].run.key = k
      BY <1>7 DEF recordedAt
    <2>2. n \in 1 .. Len(log) /\ n \in 1 .. applied'[i]
      BY DEF logGrows, OnceInv, AnsweredInv
    <2> QED BY <2>1, <2>2 DEF logGrows
  <1>8. RanInv'
    <2>1. \A k \in Key : \A c \in executed'[k] :
             key(tasks'[c]) = k /\ tasks'[c].stage \in {"final", "done"}
      BY DEF movesOn
    <2>2. ASSUME NEW c \in Caller \ overtaken', ran(c)'
          PROVE  recordedAt(tasks[c].node, key(tasks[c]))'
      <3>1. recordedAt(tasks[c].node, key(tasks[c]))
        BY <2>2 DEF OnceInv, RanInv, movesOn
      <3>2. tasks'[c].node = tasks[c].node /\ key(tasks'[c]) = key(tasks[c])
        BY DEF movesOn
      <3>3. tasks'[c].stage # "free"
        BY <2>1, <2>2 DEF ran, Key
      <3>4. tasks[c].node \in Node
        BY <1>4, <3>3 DEF callKept
      <3> QED BY <1>7, <3>1, <3>2, <3>4 DEF recordedAt, key
    <2> QED BY <2>1, <2>2 DEF RanInv, Key, key
  <1> QED BY <1>2, <1>3, <1>5, <1>6, <1>8 DEF OnceInv

LEMMA StoresQuiet ==
    ASSUME OnceInv, UNCHANGED <<log, applied, store>>
    PROVE  StoreInv'
  BY DEF OnceInv, StoreInv, historyComplete, recordedFirings, AlreadyFired, recordedAt, Key

\* Whoever starts tasks starts none for a firing that another one of the same kind may
\* still execute.
LEMMA GoKeepsOnce ==
    ASSUME SchedInv, OnceInv, UNCHANGED <<log, applied, calls, store, executed>>,
           overtaken \subseteq overtaken', reconciled \subseteq reconciled',
           NEW new, go(new), \A t \in new : isTask(t) /\ t.stage \in {"check", "submit"},
           \A t \in new : t.by \in {"tick", "reconcile"} =>
               \A c \in Caller : tasks[c].by = t.by /\ tasks[c].node = t.node
                                 => tasks[c].stage \notin Early,
           \A t \in new : t.by = "reconcile" => t.node \in reconciled',
           \A t \in new : t.stage = "check" => t.by \in {"tick", "reconcile", "trigger"},
           \A s, t \in new : s.by \in {"tick", "reconcile"} /\ t.by = s.by /\ key(t) = key(s)
                             => t = s
    PROVE  OnceInv'
  <1>1. PICK f \in [new -> {c \in Caller : tasks[c].stage = "free"}] :
           tasks' = [c \in Caller |-> IF \E t \in new : f[t] = c
                                      THEN CHOOSE t \in new : f[t] = c ELSE tasks[c]]
    BY DEF go
  <1>2. ASSUME NEW c \in Caller
        PROVE  \/ tasks'[c] = tasks[c]
               \/ tasks'[c] \in new /\ f[tasks'[c]] = c /\ tasks[c].stage = "free"
    <2>1. CASE \E t \in new : f[t] = c
      <3>1. tasks'[c] \in new /\ f[tasks'[c]] = c
        BY <1>1, <2>1
      <3> QED BY <3>1
    <2>2. CASE ~ \E t \in new : f[t] = c
      BY <1>1, <2>2
    <2> QED BY <2>1, <2>2
  <1>3. FreeTask.stage = "free" /\ FreeTask.by = "" /\ NoCall.pc = "idle"
    BY DEF FreeTask, NoCall
  <1>4. \A c \in Caller : tasks[c].stage = "free" => tasks[c] = FreeTask /\ calls[c] = NoCall
    BY DEF OnceInv, StartedInv
  <1>5. \A t \in new : t.stage # "free" /\ t.node \in Node /\ key(t) \in Key
    <2> SUFFICES ASSUME NEW t \in new PROVE t.stage # "free" /\ t.node \in Node /\ key(t) \in Key
      OBVIOUS
    <2>1. t.stage # "free" /\ t.node \in Node /\ t.id \in Job /\ t \in TaskType
      BY DEF isTask
    <2> QED BY <2>1 DEF key, RunIdempotencyKey, Key, TaskType
  <1>6. StartedInv'
    <2>1. \A c \in Caller :
             \/ tasks'[c] = FreeTask /\ calls'[c] = NoCall
             \/ tasks'[c].stage # "free" /\ tasks'[c].node \in Node /\ key(tasks'[c]) \in Key
      BY <1>2, <1>5 DEF OnceInv, StartedInv
    <2> QED BY <2>1 DEF StartedInv, key, Key, FreeTask, NoJob, NoCall
  <1>7. AnsweredInv'
    <2>1. \A c \in Caller : calls[c].pc \in {"started", "waiting", "nil"} => tasks'[c] = tasks[c]
      BY <1>2, <1>3, <1>4
    <2> QED BY <2>1 DEF OnceInv, AnsweredInv
  <1>8. StoreInv'
    BY StoresQuiet
  <1>9. ASSUME NEW c \in Caller PROVE /\ ran(c)' => ran(c) /\ tasks'[c] = tasks[c]
                                      /\ ran(c) => tasks'[c] = tasks[c]
    <2>1. tasks'[c].stage = "dispatch" => tasks'[c] = tasks[c]
      BY <1>2
    <2>2. \A k \in Key : c \in executed[k] => tasks'[c] = tasks[c]
      BY <1>2 DEF OnceInv, RanInv
    <2>3. tasks[c].stage = "dispatch" => tasks'[c] = tasks[c]
      BY <1>2
    <2> QED BY <2>1, <2>2, <2>3 DEF ran, Key
  <1>10. RanInv'
    <2>1. \A k \in Key : \A c \in executed[k] :
             key(tasks'[c]) = k /\ tasks'[c].stage \in {"final", "done"}
      <3>1. \A k \in Key : \A c \in executed[k] : c \in Caller
        BY DEF SchedInv
      <3> QED BY <1>2, <3>1 DEF OnceInv, RanInv
    <2>2. ASSUME NEW c \in Caller \ overtaken', ran(c)'
          PROVE  recordedAt(tasks[c].node, key(tasks[c]))'
      <3>1. tasks'[c] = tasks[c] /\ recordedAt(tasks[c].node, key(tasks[c]))
        BY <1>9, <2>2 DEF OnceInv, RanInv
      <3> QED BY <3>1 DEF recordedAt, key
    <2> QED BY <2>1, <2>2 DEF RanInv, Key, key
  <1>11. KindInv' /\ CatchUpInv'
    BY <1>2, <1>9 DEF OnceInv, KindInv, CatchUpInv, Early
  <1>12. TwinsInv'
    <2> SUFFICES ASSUME NEW c \in Caller, NEW d \in Caller, twins(c, d)'
                 PROVE  /\ ~ (tasks'[c].stage \in Early /\ tasks'[d].stage \in Early)
                        /\ historyComplete' /\ c \notin overtaken' /\ d \notin overtaken' /\ ran(c)' =>
                              tasks'[d].stage \notin {"update", "record"} /\ ~ ran(d)'
      BY DEF TwinsInv, Early
    <2>0. /\ c # d /\ tasks'[c].by \in {"tick", "reconcile"} /\ tasks'[d].by = tasks'[c].by
          /\ tasks'[d].node = tasks'[c].node /\ key(tasks'[d]) = key(tasks'[c])
      BY DEF twins, key
    <2>1. CASE tasks'[c] = tasks[c] /\ tasks'[d] = tasks[d]
      <3>1. twins(c, d)
        BY <2>0, <2>1 DEF twins
      <3>2. historyComplete' = historyComplete
        BY DEF historyComplete, recordedFirings
      <3> QED BY <1>9, <2>1, <3>1, <3>2 DEF OnceInv, TwinsInv
    <2>2. CASE tasks'[c] # tasks[c] /\ tasks'[d] = tasks[d]
      <3>1. tasks[d].stage \notin Early
        BY <1>2, <2>0, <2>2
      <3> QED BY <1>9, <2>2, <3>1
    <2>3. CASE tasks'[c] = tasks[c] /\ tasks'[d] # tasks[d]
      <3>1. tasks[c].stage \notin Early
        BY <1>2, <2>0, <2>3
      <3>2. tasks'[d].stage \in {"check", "submit"}
        BY <1>2, <2>3
      <3> QED BY <1>9, <2>3, <3>1, <3>2
    <2>4. CASE tasks'[c] # tasks[c] /\ tasks'[d] # tasks[d]
      <3>1. tasks'[c] = tasks'[d]
        BY <1>2, <2>0, <2>4
      <3> QED BY <1>2, <2>0, <2>4, <3>1
    <2> QED BY <2>1, <2>2, <2>3, <2>4
  <1> QED BY <1>6, <1>7, <1>8, <1>10, <1>11, <1>12 DEF OnceInv

LEMMA FiringFields ==
    ASSUME NEW by, NEW i, NEW id, NEW minute
    PROVE  /\ Firing(by, i, id, minute).stage = "check" /\ Firing(by, i, id, minute).by = by
           /\ Firing(by, i, id, minute).node = i
           /\ key(Firing(by, i, id, minute)) = <<id, minute>>
  BY DEF Firing, FreeTask, key, RunIdempotencyKey

LEMMA RequestFields ==
    ASSUME NEW op, NEW i, NEW id, NEW job
    PROVE  Request(op, i, id, job).stage = "submit" /\ Request(op, i, id, job).by = op
  BY DEF Request, FreeTask

\* The tick before has left its first stages, and there is one task per job.
LEMMA TickKeepsOnce ==
    ASSUME SchedInv, OnceInv, overtaken \subseteq overtaken', NEW i \in Node, tick(i)
    PROVE  OnceInv'
  <1> DEFINE enabled == {id \in due(i) : store[i].jobs[id].enabled}
             new == {Firing("tick", i, id, store[i].jobs[id].nextRun) : id \in enabled}
  <1>1. /\ go(new) /\ UNCHANGED <<submitVars, store, reconciled, executed>>
        /\ \A c \in Caller : tasks[c].by = "tick" /\ tasks[c].node = i
                             => tasks[c].stage \notin {"check", "update", "record"}
    BY DEF tick
  <1>2. ASSUME NEW id \in enabled PROVE isTask(Firing("tick", i, id, store[i].jobs[id].nextRun))
    <2>1. id \in DOMAIN store[i].jobs /\ store[i].jobs[id] \in JobType
      BY DEF due, SchedInv, StoresOK, isStore, isJobMap
    <2>2. store[i].jobs[id].nextRun \in 0 .. MaxMinute
      BY <2>1 DEF JobType
    <2> QED BY <2>1, <2>2, FiringOK
  <1>3. \A t \in new : isTask(t) /\ t.stage \in {"check", "submit"} /\ t.by = "tick" /\ t.node = i
    BY <1>2, FiringFields
  <1>4. \A s, t \in new : key(s) = key(t) => s = t
    BY FiringFields
  <1>5. UNCHANGED <<log, applied, calls>>
    BY <1>1 DEF submitVars, raftVars
  <1> HIDE DEF new
  <1> QED BY <1>1, <1>3, <1>4, <1>5, GoKeepsOnce DEF Early

\* A process catches up once, so that of an earlier one nothing is left.
LEMMA ReconcileKeepsOnce ==
    ASSUME SchedInv, OnceInv, overtaken \subseteq overtaken', NEW i \in Node,
           ReconcileMissedJobs(i)
    PROVE  OnceInv'
  <1> DEFINE catchUp(id) ==
                LET job == store[i].jobs[id]
                IN  CASE job.policy = "run_once" -> {Firing("reconcile", i, id, job.nextRun)}
                      [] job.policy = "skip" /\ nextRun(now) # 0 ->
                            {Request("update_job", i, id, [job EXCEPT !.nextRun = nextRun(now)])}
                      [] OTHER -> {}
             new == UNION {catchUp(id) : id \in due(i)}
             fires(id) == Firing("reconcile", i, id, store[i].jobs[id].nextRun)
             skips(id) == Request("update_job", i, id,
                                  [store[i].jobs[id] EXCEPT !.nextRun = nextRun(now)])
  <1>1. /\ go(new) /\ UNCHANGED <<submitVars, store, executed>>
        /\ i \notin reconciled /\ reconciled' = reconciled \cup {i}
    BY DEF ReconcileMissedJobs
  <1>2. ASSUME NEW id \in due(i), NEW t \in catchUp(id) PROVE t = fires(id) \/ t = skips(id)
    <2>1. CASE store[i].jobs[id].policy = "run_once"
      BY <2>1
    <2>2. CASE store[i].jobs[id].policy # "run_once"
      BY <2>2
    <2> QED BY <2>1, <2>2
  <1>3. ASSUME NEW id \in due(i) PROVE isTask(fires(id)) /\ isTask(skips(id))
    <2>1. id \in DOMAIN store[i].jobs /\ id \in Job /\ store[i].jobs[id] \in JobType
      BY DEF due, SchedInv, StoresOK, isStore, isJobMap
    <2>2. store[i].jobs[id].nextRun \in 0 .. MaxMinute
      BY <2>1 DEF JobType
    <2>3. nextRun(now) \in 0 .. MaxMinute
      BY NextRunOK DEF SchedInv
    <2>4. [store[i].jobs[id] EXCEPT !.nextRun = nextRun(now)] \in JobType
      BY <2>1, <2>3 DEF JobType
    <2> QED BY <2>1, <2>2, <2>4, FiringOK, RequestOK
  <1>4. \A id : /\ fires(id).stage = "check" /\ fires(id).by = "reconcile" /\ fires(id).node = i
                /\ key(fires(id)) = <<id, store[i].jobs[id].nextRun>>
                /\ skips(id).stage = "submit" /\ skips(id).by = "update_job"
    BY FiringFields, RequestFields
  <1>5. \A t \in new : \E id \in due(i) : t = fires(id) \/ t = skips(id)
    <2> HIDE DEF catchUp, fires, skips
    <2> QED BY <1>2
  <1> HIDE DEF new, fires, skips
  <1>6. \A t \in new : /\ isTask(t) /\ t.stage \in {"check", "submit"}
                       /\ t.stage = "check" => t.by = "reconcile"
                       /\ t.by \in {"tick", "reconcile"} => t.by = "reconcile" /\ t.node = i
    BY <1>3, <1>4, <1>5
  <1>7. \A s, t \in new : s.by \in {"tick", "reconcile"} /\ key(s) = key(t)
                          /\ t.by \in {"tick", "reconcile"} => s = t
    BY <1>4, <1>5
  <1>8. \A c \in Caller : tasks[c].by = "reconcile" /\ tasks[c].node = i
                          => tasks[c].stage \notin Early
    BY <1>1 DEF OnceInv, CatchUpInv
  <1>9. UNCHANGED <<log, applied, calls>>
    BY <1>1 DEF submitVars, raftVars
  <1> QED BY <1>1, <1>6, <1>7, <1>8, <1>9, GoKeepsOnce

LEMMA RequestsKeepOnce ==
    ASSUME SchedInv, OnceInv, overtaken \subseteq overtaken', NEW i \in Node, NEW id \in Job,
           FireNow(i, id) \/ createJob(i, id) \/ deleteJob(i, id)
    PROVE  OnceInv'
  <1>1. UNCHANGED <<log, applied, calls, store, executed, reconciled>>
    BY DEF FireNow, createJob, deleteJob, submitVars, raftVars
  <1>2. CASE FireNow(i, id)
    <2> DEFINE t == Firing("trigger", i, id, now)
    <2>1. go({t}) /\ id \in DOMAIN store[i].jobs
      BY <1>2 DEF FireNow
    <2>2. isTask(t) /\ t.stage = "check" /\ t.by = "trigger"
      BY <2>1, FiringOK, FiringFields DEF SchedInv
    <2> HIDE DEF t
    <2> QED BY <1>1, <2>1, <2>2, GoKeepsOnce
  <1>3. CASE createJob(i, id)
    <2>1. PICK policy \in Policies, enabled \in BOOLEAN :
             go({Request("create_job", i, id,
                         [NoJob EXCEPT !.enabled = enabled, !.policy = policy,
                                       !.nextRun = nextRun(now)])})
      BY ZenonT(60), <1>3 DEF createJob
    <2> DEFINE job == [NoJob EXCEPT !.enabled = enabled, !.policy = policy,
                                    !.nextRun = nextRun(now)]
               t == Request("create_job", i, id, job)
    <2>2. job \in JobType
      BY NoJobOK, NewJobOK, NextRunOK, SchedulerAssumption DEF SchedInv
    <2>3. go({t})
      BY <2>1
    <2> HIDE DEF job
    <2>4. isTask(t) /\ t.stage = "submit" /\ t.by = "create_job"
      BY <2>2, RequestOK, RequestFields
    <2> HIDE DEF t
    <2> QED BY <1>1, <2>3, <2>4, GoKeepsOnce
  <1>4. CASE deleteJob(i, id)
    <2> DEFINE t == Request("delete_job", i, id, NoJob)
    <2>1. go({t})
      BY <1>4 DEF deleteJob
    <2>2. isTask(t) /\ t.stage = "submit" /\ t.by = "delete_job"
      BY NoJobOK, RequestOK, RequestFields
    <2> HIDE DEF t
    <2> QED BY <1>1, <2>1, <2>2, GoKeepsOnce
  <1> QED BY <1>2, <1>3, <1>4


LEMMA LogsStand ==
    ASSUME RecordInv, OnceInv, UNCHANGED <<log, applied>>
    PROVE  logGrows
  BY DEF RecordInv, LogShape, isSeq, OnceInv, AnsweredInv, logGrows

LEMMA TaskStands ==
    ASSUME NEW c \in Caller, tasks'[c] = tasks[c], UNCHANGED executed,
           overtaken \subseteq overtaken', reconciled \subseteq reconciled'
    PROVE  movesOn(c)
  BY DEF movesOn, ran, key, Early, Key

\* Only a task without a run in its store goes on to update the job.
LEMMA FireJobKeepsOnce ==
    ASSUME SchedInv, RecordInv, OnceInv, overtaken \subseteq overtaken', NEW c \in Caller, fireJob(c)
    PROVE  OnceInv'
  <1> DEFINE t == tasks[c]
             ended == [t EXCEPT !.stage = "done"]
             moved == [t EXCEPT !.stage = "update", !.job.nextRun = nextRun(t.at)]
  <1>1. UNCHANGED <<log, applied, calls, store, executed, reconciled>>
    BY DEF fireJob, submitVars, raftVars
  <1>2. t.stage = "check" /\ t \in TaskType
    BY DEF fireJob, SchedInv, TasksOK
  <1>3. /\ ended.stage = "done" /\ ended.by = t.by /\ ended.node = t.node
        /\ ended.id = t.id /\ ended.minute = t.minute
        /\ moved.stage = "update" /\ moved.by = t.by /\ moved.node = t.node
        /\ moved.id = t.id /\ moved.minute = t.minute
    BY <1>2 DEF TaskType
  <1>4. \/ tasks' = [tasks EXCEPT ![c] = ended]
        \/ ~ AlreadyFired(store[t.node], key(t)) /\ tasks' = [tasks EXCEPT ![c] = moved]
    BY DEF fireJob
  <1> HIDE DEF ended, moved
  <1>5. \A d \in Caller : d # c => tasks'[d] = tasks[d]
    BY <1>4 DEF SchedInv, TasksOK
  <1>6. \/ tasks'[c] = ended
        \/ ~ AlreadyFired(store[t.node], key(t)) /\ tasks'[c] = moved
    BY <1>4 DEF SchedInv, TasksOK
  <1>7. movesOn(c)
    BY <1>1, <1>2, <1>3, <1>6 DEF movesOn, ran, key, Early, Key
  <1>8. \A d \in Caller : movesOn(d) /\ callKept(d)
    BY <1>1, <1>2, <1>3, <1>5, <1>6, <1>7, TaskStands DEF callKept
  <1>9. \A k \in Key : \A d \in executed'[k] :
           d \in Caller /\ key(tasks[d]) = k /\ tasks'[d].stage \in {"final", "done"}
    <2>1. \A k \in Key : \A d \in executed[k] :
             d \in Caller /\ key(tasks[d]) = k /\ tasks[d].stage \in {"final", "done"}
      BY DEF SchedInv, OnceInv, RanInv
    <2> QED BY <1>1, <1>2, <1>5, <2>1
  <1> QED BY <1>1, <1>8, <1>9, LogsStand, StoresQuiet, MovesKeepOnce

\* Submit answers nil to a record once the node has applied it.
LEMMA ReturnKeepsOnce ==
    ASSUME SchedInv, RecordInv, OnceInv, overtaken \subseteq overtaken', NEW c \in Caller,
           submitReturns(c)
    PROVE  OnceInv'
  <1> DEFINE t == tasks[c]
             stage == after(t.stage, calls[c].pc)
  <1>1. /\ calls[c].pc \in Outcome
        /\ tasks' = [tasks EXCEPT ![c].stage = stage]
        /\ calls' = [calls EXCEPT ![c] = NoCall]
        /\ UNCHANGED <<log, applied, store, executed, reconciled>>
    BY DEF submitReturns, raftVars
  <1>2. /\ \A d \in Caller : d # c => tasks'[d] = tasks[d] /\ calls'[d] = calls[d]
        /\ tasks'[c].stage = stage /\ tasks'[c].by = t.by /\ tasks'[c].node = t.node
        /\ tasks'[c].id = t.id /\ tasks'[c].minute = t.minute
        /\ calls'[c] = NoCall
    BY ZenonT(60), <1>1 DEF SchedInv, TasksOK, TaskType, RecordInv, CallShape
  <1>3. NoCall.pc = "idle" /\ FreeTask.stage = "free"
    BY DEF NoCall, FreeTask
  <1>4. t.stage # "free" /\ t.node \in Node
    BY <1>1, <1>3 DEF OnceInv, StartedInv, Outcome
  <1>5. /\ stage \in {"record", "dispatch", "done"}
        /\ stage = "record" => t.stage = "update"
        /\ stage = "dispatch" => t.stage = "record" /\ calls[c].pc = "nil"
    BY DEF after
  <1>6. ASSUME stage = "dispatch", c \notin overtaken' PROVE recordedAt(t.node, key(t))
    <2>1. t.stage = "record" /\ calls[c].pc = "nil"
      BY <1>5, <1>6
    <2>2. isCommitted(c)
      BY <1>6, <2>1 DEF RecordInv, PendingInv, inTail
    <2>3. /\ log[calls[c].index].op = "record_run"
          /\ log[calls[c].index].run.key = key(t)
      BY <2>1, <2>2 DEF isCommitted, command
    <2>4. calls[c].index \in 1 .. applied[t.node]
      <3>1. calls[c].index \in 1 .. Len(log) /\ calls[c].index \in 0 .. applied[t.node]
        BY <2>1, <2>2 DEF isCommitted, OnceInv, AnsweredInv
      <3>2. applied[t.node] \in Nat
        BY <1>4 DEF RecordInv, LogShape
      <3> QED BY <3>1, <3>2
    <2> QED BY <2>3, <2>4 DEF recordedAt
  <1> HIDE DEF stage
  <1>7. movesOn(c)
    BY <1>1, <1>2, <1>5, <1>6 DEF movesOn, ran, key, Early, Key
  <1>8. \A d \in Caller : movesOn(d) /\ callKept(d)
    BY <1>1, <1>2, <1>3, <1>4, <1>5, <1>7, TaskStands DEF callKept
  <1>9. \A k \in Key : \A d \in executed'[k] :
           d \in Caller /\ key(tasks[d]) = k /\ tasks'[d].stage \in {"final", "done"}
    <2>1. \A k \in Key : \A d \in executed[k] :
             d \in Caller /\ key(tasks[d]) = k /\ tasks[d].stage \in {"final", "done"}
      BY DEF SchedInv, OnceInv, RanInv
    <2> QED BY <1>1, <1>2, <1>5, <2>1
  <1> QED BY <1>1, <1>8, <1>9, LogsStand, StoresQuiet, MovesKeepOnce

LEMMA DispatchKeepsOnce ==
    ASSUME SchedInv, RecordInv, OnceInv, overtaken \subseteq overtaken', NEW c \in Caller,
           Dispatch(c)
    PROVE  OnceInv'
  <1> DEFINE t == tasks[c]
  <1>1. /\ t.stage = "dispatch"
        /\ executed' = [executed EXCEPT ![key(t)] = @ \cup {c}]
        /\ UNCHANGED <<log, applied, calls, store, reconciled>>
    BY DEF Dispatch, submitVars, raftVars
  <1>2. PICK status : tasks' = [tasks EXCEPT ![c].stage = "final", ![c].status = status]
    BY DEF Dispatch
  <1>3. /\ \A d \in Caller : d # c => tasks'[d] = tasks[d]
        /\ tasks'[c].stage = "final" /\ tasks'[c].by = t.by /\ tasks'[c].node = t.node
        /\ tasks'[c].id = t.id /\ tasks'[c].minute = t.minute
    BY <1>2 DEF SchedInv, TasksOK, TaskType
  <1>4. \A k \in Key : \A d \in executed'[k] : d \in executed[k] \/ (d = c /\ k = key(t))
    BY <1>1 DEF SchedInv
  <1>5. ran(c) /\ movesOn(c)
    BY <1>1, <1>3 DEF movesOn, ran, key, Early
  <1>6. ASSUME NEW d \in Caller, d # c PROVE movesOn(d)
    <2>1. ran(d)' => ran(d)
      BY <1>3, <1>4, <1>6 DEF ran, Key
    <2> QED BY <1>1, <1>3, <1>6, <2>1 DEF movesOn, key, Early
  <1>7. \A d \in Caller : movesOn(d) /\ callKept(d)
    BY <1>1, <1>3, <1>5, <1>6 DEF callKept
  <1>8. \A k \in Key : \A d \in executed'[k] :
           d \in Caller /\ key(tasks[d]) = k /\ tasks'[d].stage \in {"final", "done"}
    <2>1. \A k \in Key : \A d \in executed[k] :
             d \in Caller /\ key(tasks[d]) = k /\ tasks[d].stage \in {"final", "done"}
      BY DEF SchedInv, OnceInv, RanInv
    <2> QED BY <1>3, <1>4, <2>1
  <1> QED BY <1>1, <1>7, <1>8, LogsStand, StoresQuiet, MovesKeepOnce

\* A crash ends the tasks of its node, those of the catch-up too.
LEMMA RestartKeepsOnce ==
    ASSUME SchedInv, RecordInv, OnceInv, overtaken \subseteq overtaken', NEW i \in Node, restart(i)
    PROVE  OnceInv'
  <1>1. /\ UNCHANGED <<log, applied, store, executed>> /\ reconciled' = reconciled \ {i}
        /\ calls' = [c \in Caller |-> IF calls[c].node = i THEN [NoCall EXCEPT !.pc = "dead"]
                                      ELSE calls[c]]
        /\ tasks' = [c \in Caller |-> IF tasks[c].node = i
                                      THEN [tasks[c] EXCEPT !.stage = "done"] ELSE tasks[c]]
    BY DEF restart, crash
  <1>2. /\ [NoCall EXCEPT !.pc = "dead"].pc = "dead"
        /\ NoCall.node = Nil /\ FreeTask.node = Nil /\ FreeTask.stage = "free"
    BY DEF NoCall, FreeTask
  <1>3. \A c \in Caller : calls'[c] = calls[c] \/ (calls[c].node = i /\ calls'[c].pc = "dead")
    BY <1>1, <1>2
  <1>4. ASSUME NEW c \in Caller
        PROVE  \/ tasks'[c] = tasks[c] /\ tasks[c].node # i
               \/ /\ tasks[c].node = i
                  /\ tasks'[c].stage = "done" /\ tasks'[c].by = tasks[c].by
                  /\ tasks'[c].node = tasks[c].node
                  /\ tasks'[c].id = tasks[c].id /\ tasks'[c].minute = tasks[c].minute
    <2>1. tasks[c] \in TaskType
      BY DEF SchedInv, TasksOK
    <2>2. CASE tasks[c].node = i
      <3>1. tasks'[c] = [tasks[c] EXCEPT !.stage = "done"]
        BY <1>1, <2>2
      <3> QED BY <2>1, <2>2, <3>1 DEF TaskType
    <2>3. CASE tasks[c].node # i
      BY <1>1, <2>3
    <2> QED BY <2>2, <2>3
  <1>5. ASSUME NEW c \in Caller PROVE movesOn(c)
    BY <1>1, <1>4 DEF movesOn, ran, key, Early, Key
  <1>6. ASSUME NEW c \in Caller PROVE callKept(c)
    <2>1. tasks[c].stage = "free" => tasks[c].node # i /\ calls[c].node # i
      BY <1>2, SubmitAssumption DEF OnceInv, StartedInv
    <2> QED BY <1>3, <1>4, <2>1 DEF callKept
  <1>7. \A k \in Key : \A d \in executed'[k] :
           d \in Caller /\ key(tasks[d]) = k /\ tasks'[d].stage \in {"final", "done"}
    <2>1. \A k \in Key : \A d \in executed[k] :
             d \in Caller /\ key(tasks[d]) = k /\ tasks[d].stage \in {"final", "done"}
      BY DEF SchedInv, OnceInv, RanInv
    <2> QED BY <1>1, <1>4, <2>1
  <1> QED BY <1>1, <1>5, <1>6, <1>7, LogsStand, StoresQuiet, MovesKeepOnce


\* Steps that leave the tasks alone
LEMMA CallsKeepOnce ==
    ASSUME SchedInv, OnceInv, overtaken \subseteq overtaken', logGrows, StoreInv',
           UNCHANGED <<tasks, executed, reconciled>>, \A c \in Caller : callKept(c)
    PROVE  OnceInv'
  <1>1. \A c \in Caller : movesOn(c)
    BY TaskStands
  <1>2. \A k \in Key : \A c \in executed'[k] :
           c \in Caller /\ key(tasks[c]) = k /\ tasks'[c].stage \in {"final", "done"}
    BY DEF SchedInv, OnceInv, RanInv
  <1> QED BY <1>1, <1>2, MovesKeepOnce

LEMMA SubmitKeepsOnce ==
    ASSUME SchedInv, RecordInv, OnceInv, overtaken \subseteq overtaken', NEW c \in Caller,
           submit(c) \/ ((registerWaiter(c) \/ timeout(c)) /\ UNCHANGED schedVars)
    PROVE  OnceInv'
  <1>1. UNCHANGED <<log, applied, store, tasks, executed, reconciled>>
    BY DEF submit, Start, registerWaiter, timeout, raftVars, schedVars
  <1>2. NoCall.pc = "idle" /\ FreeTask.stage = "free"
    BY DEF NoCall, FreeTask
  <1>3. \A d \in Caller : d # c => calls'[d] = calls[d]
    BY DEF submit, Start, registerWaiter, timeout, RecordInv, CallShape
  <1>4. callKept(c)
    <2>1. CASE submit(c)
      <3> DEFINE refused == [NoCall EXCEPT !.pc = "ErrNotLeader", !.node = tasks[c].node]
                 started == [pc |-> "started", node |-> tasks[c].node,
                             index |-> lastLogIndex(tasks[c].node) + 1]
      <3>1. refused.pc = "ErrNotLeader" /\ started.pc = "started" /\ started.node = tasks[c].node
        BY DEF NoCall
      <3>2. /\ calls' = [calls EXCEPT ![c] = refused] \/ calls' = [calls EXCEPT ![c] = started]
            /\ tasks[c].stage # "free"
        BY <2>1 DEF submit, Start
      <3> HIDE DEF refused, started
      <3>3. calls'[c] = refused \/ calls'[c] = started
        BY <3>2 DEF RecordInv, CallShape
      <3> QED BY <1>1, <3>1, <3>2, <3>3 DEF callKept
    <2>2. CASE registerWaiter(c) \/ timeout(c)
      <3>1. /\ calls[c].pc \in {"started", "waiting"} /\ calls'[c].node = calls[c].node
            /\ calls'[c].pc \in {"waiting", "ErrTimeout"}
        BY <2>2 DEF registerWaiter, timeout, RecordInv, CallShape, isCallRecord
      <3>2. tasks[c].stage # "free" /\ calls[c].node = tasks[c].node
        BY <1>2, <3>1 DEF OnceInv, StartedInv, AnsweredInv
      <3> QED BY <1>1, <3>1, <3>2 DEF callKept
    <2> QED BY <2>1, <2>2
  <1>5. \A d \in Caller : callKept(d)
    BY <1>1, <1>3, <1>4 DEF callKept
  <1> QED BY <1>1, <1>5, LogsStand, StoresQuiet, CallsKeepOnce

\* Elections, and the clock
LEMMA WorldKeepsOnce ==
    ASSUME SchedInv, RecordInv, OnceInv, overtaken \subseteq overtaken',
           UNCHANGED <<log, applied, calls, store, tasks, executed, reconciled>>
    PROVE  OnceInv'
  <1>1. \A c \in Caller : callKept(c)
    BY DEF callKept
  <1> QED BY <1>1, LogsStand, StoresQuiet, CallsKeepOnce

LEMMA CommitKeepsOnce ==
    ASSUME SchedInv, RecordInv, OnceInv, overtaken \subseteq overtaken', commit, UNCHANGED schedVars
    PROVE  OnceInv'
  <1>1. UNCHANGED <<applied, calls, store, tasks, executed, reconciled>>
    BY DEF commit, schedVars
  <1>2. PICK n \in (inherited + 1) .. Len(tail) : log' = log \o SubSeq(tail, 1, n)
    BY DEF commit
  <1>3. log \in Seq(BackedCommand) /\ tail \in Seq(BackedCommand) /\ n \in 1 .. Len(tail)
    BY DEF SchedInv, LogsOK
  <1>4. SubSeq(tail, 1, n) \in Seq(BackedCommand) /\ Len(SubSeq(tail, 1, n)) = n
    <2>1. 1 \in 1 .. Len(tail) + 1 /\ n \in 0 .. Len(tail)
      BY <1>3
    <2> QED BY <1>3, <2>1, SubSeqProperties
  <1>5. /\ Len(log) \in Nat /\ Len(log') = Len(log) + n
        /\ \A m \in 1 .. Len(log) : log'[m] = log[m]
    <2> HIDE DEF BackedCommand
    <2> QED BY <1>2, <1>3, <1>4
  <1>6. logGrows
    BY <1>1, <1>3, <1>5 DEF logGrows, OnceInv, AnsweredInv, RecordInv, LogShape
  <1>7. StoreInv'
    <2> SUFFICES ASSUME historyComplete', NEW i \in Node, NEW k \in Key
                 PROVE  AlreadyFired(store[i], k)' <=> recordedAt(i, k)'
      BY DEF StoreInv, Key
    <2>1. AlreadyFired(store[i], k) <=> recordedAt(i, k)
      BY <1>6, WasComplete DEF logGrows, OnceInv, StoreInv
    <2>2. recordedAt(i, k) <=> recordedAt(i, k)'
      <3>1. \A m \in 1 .. applied[i] : log'[m] = log[m]
        BY <1>6 DEF logGrows, OnceInv, AnsweredInv
      <3> QED BY <1>1, <3>1 DEF recordedAt
    <2> QED BY <1>1, <2>1, <2>2 DEF AlreadyFired
  <1>8. \A c \in Caller : callKept(c)
    BY <1>1 DEF callKept
  <1> QED BY <1>1, <1>6, <1>7, <1>8, CallsKeepOnce

\* A store that applies a command has the record of it, and those it had.
LEMMA ApplyKeepsStores ==
    ASSUME SchedInv, OnceInv, NEW i \in Node, applyLoop(i)
    PROVE  StoreInv'
  <1> DEFINE cmd == log[applied[i] + 1]
             st == store[i]
  <1>1. log \in Seq(BackedCommand) /\ applied \in [Node -> Nat] /\ isStore(st)
    BY DEF SchedInv, LogsOK, StoresOK
  <1>2. /\ applied[i] < Len(log) /\ applied' = [applied EXCEPT ![i] = applied[i] + 1]
        /\ store' = [store EXCEPT ![i] = applyCommand(st, cmd)]
        /\ log' = log
    BY DEF applyLoop, applyNext, mayApply, raftVars
  <1>3. applied[i] + 1 \in 1 .. Len(log) /\ cmd \in BackedCommand /\ Len(log) \in Nat
    BY <1>1, <1>2
  <1> SUFFICES ASSUME historyComplete', NEW j \in Node, NEW k \in Key
               PROVE  AlreadyFired(store'[j], k) <=> recordedAt(j, k)'
    BY DEF StoreInv, Key, AlreadyFired
  <1>4. historyComplete
    BY <1>2 DEF historyComplete, recordedFirings
  <1>5. \A a \in Node, b \in Key : AlreadyFired(store[a], b) <=> recordedAt(a, b)
    BY <1>4 DEF OnceInv, StoreInv
  <1>6. CASE j # i
    <2>1. store'[j] = store[j] /\ applied'[j] = applied[j]
      BY <1>1, <1>2, <1>6 DEF SchedInv
    <2> QED BY <1>2, <1>5, <2>1 DEF recordedAt
  <1>7. CASE j = i
    <2>1. store'[i] = applyCommand(st, cmd) /\ applied'[i] = applied[i] + 1
      BY <1>1, <1>2 DEF SchedInv
    <2>2. recordedAt(i, k)' <=>
             recordedAt(i, k) \/ (cmd.op = "record_run" /\ cmd.run.key = k)
      <3>1. 1 .. applied[i] + 1 = 1 .. applied[i] \cup {applied[i] + 1}
        BY <1>1
      <3> QED BY <1>2, <2>1, <3>1 DEF recordedAt
    <2>3. CASE cmd \in [op : {"create_job", "update_job", "delete_job"}, id : Job, job : JobType]
      <3>1. cmd.op \in {"create_job", "update_job"}
        BY <1>3, <1>4, <2>3 DEF historyComplete
      <3>2. applyCommand(st, cmd) = upsertJob(st, cmd.id, cmd.job)
        BY <3>1 DEF applyCommand
      <3>3. upsertJob(st, cmd.id, cmd.job).runs = st.runs
        BY <1>1 DEF upsertJob, isStore
      <3> HIDE DEF st, cmd
      <3>4. AlreadyFired(applyCommand(st, cmd), k) <=> AlreadyFired(st, k)
        BY <3>2, <3>3 DEF AlreadyFired
      <3> QED BY <1>5, <1>7, <2>1, <2>2, <3>1, <3>4 DEF st
    <2>4. CASE cmd \in [op : {"record_run"}, id : Job, run : BackedRun]
      <3>1. cmd.op = "record_run" /\ cmd.run \in BackedRun
        BY <2>4
      <3>2. cmd.run.key \in recordedFirings
        BY <1>3, <3>1 DEF recordedFirings
      <3>3. \A a \in 1 .. Len(st.runs) : st.runs[a].key \in recordedFirings
        <4> SUFFICES ASSUME NEW a \in 1 .. Len(st.runs) PROVE st.runs[a].key \in recordedFirings
          OBVIOUS
        <4>1. st.runs[a].key \in Key
          BY <1>1 DEF isStore, BackedRun, RunType, Key
        <4>2. recordedAt(i, st.runs[a].key)
          BY <1>5, <4>1 DEF AlreadyFired
        <4>3. \A n \in 1 .. applied[i] : n \in 1 .. Len(log)
          BY <1>1, <1>2
        <4> QED BY <4>2, <4>3 DEF recordedAt, recordedFirings
      <3>4. AlreadyFired(st, cmd.run.key) \/ Len(st.runs) < MaxRuns
        <4> HIDE DEF st, cmd
        <4> QED BY <1>1, <1>3, <1>4, <3>2, <3>3, RoomForRun
      <3>5. applyCommand(st, cmd) = upsertRun(st, cmd.run)
        BY <3>1 DEF applyCommand
      <3> HIDE DEF st, cmd
      <3>6. AlreadyFired(applyCommand(st, cmd), k) <=> AlreadyFired(st, k) \/ k = cmd.run.key
        BY <1>1, <3>1, <3>4, <3>5, UpsertRunKeys
      <3> QED BY <1>5, <1>7, <2>1, <2>2, <3>1, <3>6 DEF st
    <2> QED BY <1>3, <2>3, <2>4 DEF BackedCommand
  <1> QED BY <1>6, <1>7

LEMMA ApplyKeepsOnce ==
    ASSUME SchedInv, RecordInv, OnceInv, overtaken \subseteq overtaken', NEW i \in Node, applyLoop(i)
    PROVE  OnceInv'
  <1> DEFINE woken == waitersAt(i, applied[i] + 1)
  <1>1. /\ UNCHANGED <<log, tasks, executed, reconciled>>
        /\ applied' = [applied EXCEPT ![i] = @ + 1] /\ applied[i] < Len(log)
        /\ calls' = [c \in Caller |-> IF \E w \in woken : w.caller = c
                                      THEN [calls[c] EXCEPT !.pc = "nil"] ELSE calls[c]]
    BY DEF applyLoop, applyNext, mayApply, raftVars
  <1>2. Len(log) \in Nat /\ applied \in [Node -> Nat]
    BY DEF RecordInv, LogShape, isSeq
  <1>3. NoCall.pc = "idle" /\ FreeTask.stage = "free"
    BY DEF NoCall, FreeTask
  <1>4. logGrows
    BY <1>1, <1>2 DEF logGrows, OnceInv, AnsweredInv
  <1>5. ASSUME NEW c \in Caller PROVE callKept(c)
    <2>1. CASE \E w \in woken : w.caller = c
      <3>1. calls'[c] = [calls[c] EXCEPT !.pc = "nil"] /\ isCallRecord(calls[c])
        BY <1>1, <2>1 DEF RecordInv, CallShape
      <3>2. calls[c].pc = "waiting" /\ calls[c].node = i /\ calls[c].index = applied[i] + 1
        BY <2>1 DEF waitersAt, RecordInv, CallShape
      <3>3. calls'[c].pc = "nil" /\ calls'[c].node = i /\ calls'[c].index = applied[i] + 1
        BY <3>1, <3>2 DEF isCallRecord
      <3>4. tasks[c].stage # "free" /\ tasks[c].node = i
        BY <1>3, <3>2 DEF OnceInv, StartedInv, AnsweredInv
      <3>5. applied'[i] = applied[i] + 1 /\ applied[i] \in Nat
        BY <1>1, <1>2
      <3> QED BY <1>1, <3>3, <3>4, <3>5 DEF callKept
    <2>2. CASE ~ \E w \in woken : w.caller = c
      BY <1>1, <2>2 DEF callKept
    <2> QED BY <2>1, <2>2
  <1> QED BY <1>1, <1>4, <1>5, ApplyKeepsStores, CallsKeepOnce

LEMMA InstallKeepsOnce ==
    ASSUME SchedInv, RecordInv, OnceInv, overtaken \subseteq overtaken', NEW i \in Node,
           NEW j \in Node, installSnapshot(i, j)
    PROVE  OnceInv'
  <1>1. /\ UNCHANGED <<log, calls, tasks, executed, reconciled>> /\ applied[i] < applied[j]
        /\ applied' = [applied EXCEPT ![i] = applied[j]]
        /\ store' = [store EXCEPT ![i] = store[j]]
    BY DEF installSnapshot, applySnapshot, raftVars
  <1>2. Len(log) \in Nat /\ applied \in [Node -> Nat]
    BY DEF RecordInv, LogShape, isSeq
  <1>3. logGrows
    BY <1>1, <1>2 DEF logGrows, OnceInv, AnsweredInv
  <1>4. StoreInv'
    <2> SUFFICES ASSUME historyComplete', NEW h \in Node, NEW k \in Key
                 PROVE  AlreadyFired(store'[h], k) <=> recordedAt(h, k)'
      BY DEF StoreInv, Key, AlreadyFired
    <2>1. \A a \in Node : AlreadyFired(store[a], k) <=> recordedAt(a, k)
      BY <1>1 DEF historyComplete, recordedFirings, OnceInv, StoreInv
    <2>2. PICK g \in Node : store'[h] = store[g] /\ applied'[h] = applied[g]
      BY <1>1, <1>2 DEF SchedInv
    <2> QED BY <1>1, <2>1, <2>2 DEF recordedAt
  <1>5. \A c \in Caller : callKept(c)
    BY <1>1 DEF callKept
  <1> QED BY <1>1, <1>3, <1>4, <1>5, CallsKeepOnce

LEMMA OnceNext ==
    ASSUME SchedInv, RecordInv, OnceInv, [Next]_vars
    PROVE  OnceInv'
  <1>1. CASE UNCHANGED vars
    BY <1>1, WorldKeepsOnce DEF vars, submitVars, raftVars, schedVars
  <1> SUFFICES ASSUME Step, overtaken \subseteq overtaken'
               PROVE  OnceInv'
    BY <1>1 DEF Next
  <1>2. ASSUME NEW i \in Node, NEW id \in Job,
               FireNow(i, id) \/ createJob(i, id) \/ deleteJob(i, id)
        PROVE  OnceInv'
    BY <1>2, RequestsKeepOnce
  <1>3. ASSUME NEW i \in Node, tick(i) PROVE OnceInv'
    BY <1>3, TickKeepsOnce
  <1>4. ASSUME NEW i \in Node, ReconcileMissedJobs(i) PROVE OnceInv'
    BY <1>4, ReconcileKeepsOnce
  <1>5. ASSUME NEW i \in Node, applyLoop(i) PROVE OnceInv'
    BY <1>5, ApplyKeepsOnce
  <1>6. ASSUME NEW i \in Node, NEW j \in Node, installSnapshot(i, j) PROVE OnceInv'
    BY <1>6, InstallKeepsOnce
  <1>7. ASSUME NEW i \in Node, raftStep(i) PROVE OnceInv'
    BY <1>7, WorldKeepsOnce DEF raftStep, elect, stepDown, schedVars
  <1>8. ASSUME NEW i \in Node, restart(i) PROVE OnceInv'
    BY <1>8, RestartKeepsOnce
  <1>9. ASSUME NEW c \in Caller, fireJob(c) PROVE OnceInv'
    BY <1>9, FireJobKeepsOnce
  <1>10. ASSUME NEW c \in Caller,
                submit(c) \/ ((registerWaiter(c) \/ timeout(c)) /\ UNCHANGED schedVars)
         PROVE  OnceInv'
    BY <1>10, SubmitKeepsOnce
  <1>11. ASSUME NEW c \in Caller, submitReturns(c) PROVE OnceInv'
    BY <1>11, ReturnKeepsOnce
  <1>12. ASSUME NEW c \in Caller, Dispatch(c) PROVE OnceInv'
    BY <1>12, DispatchKeepsOnce
  <1>13. CASE commit /\ UNCHANGED schedVars
    BY <1>13, CommitKeepsOnce
  <1>14. CASE clock
    BY <1>14, WorldKeepsOnce DEF clock, submitVars, raftVars
  <1> QED
    BY <1>2, <1>3, <1>4, <1>5, <1>6, <1>7, <1>8, <1>9, <1>10, <1>11, <1>12, <1>13, <1>14
       DEF Step

\* As long as no job is deleted and the stores keep every recorded firing, the ticks of one
\* node, over its restarts, execute a firing once, and so do its catch-ups, for any nodes,
\* jobs, elections and crashes: the record reaches the store of the node before the job runs.
\* Excepted are goroutines that were overtaken by an election, and requests.
THEOREM FiringsRunOnce == Spec => []RepeatedOnlyByOthers
  <1>1. SchedInv /\ OnceInv => RepeatedOnlyByOthers
    <2> SUFFICES ASSUME SchedInv, OnceInv, historyComplete, NEW k \in DOMAIN executed,
                        NEW c \in executed[k] \ overtaken, NEW d \in executed[k] \ overtaken,
                        c # d, tasks[c].node = tasks[d].node, tasks[c].by = tasks[d].by,
                        tasks[c].by # "trigger"
                 PROVE  FALSE
      BY DEF RepeatedOnlyByOthers
    <2>1. k \in Key /\ c \in Caller /\ d \in Caller
      BY DEF SchedInv
    <2>2. ran(c) /\ ran(d) /\ key(tasks[c]) = k /\ key(tasks[d]) = k
      BY <2>1 DEF ran, OnceInv, RanInv
    <2>3. tasks[c].by \in {"tick", "reconcile"}
      BY <2>1, <2>2 DEF OnceInv, KindInv
    <2>4. twins(c, d)
      BY <2>2, <2>3 DEF twins
    <2> QED BY <2>1, <2>2, <2>4 DEF OnceInv, TwinsInv
  <1>2. Init => SchedInv /\ RecordInv /\ OnceInv
    BY SchedInit, RecordInit, OnceInit
  <1>3. SchedInv /\ RecordInv /\ OnceInv /\ [Next]_vars => (SchedInv /\ RecordInv /\ OnceInv)'
    BY SchedNext, RecordNext, OnceNext
  <1> QED BY <1>1, <1>2, <1>3, PTL DEF Spec


=============================================================================
