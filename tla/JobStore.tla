------------------------------ MODULE JobStore ------------------------------
(***************************************************************************)
(* The state machine of src/internal/store: what the committed commands do *)
(* to the jobs and to the history of runs.  A state is a record of a       *)
(* function `jobs', the Go map, and a sequence `runs'.  Times are minutes, *)
(* the grain of the schedule and of the keys; a run is "finished" when     *)
(* FinishedAt is set.  Names, payloads and the CreatedAt and UpdatedAt     *)
(* stamps decide nothing and are left out, and with them the defaults that *)
(* normalizeJob fills in.                                                  *)
(*                                                                         *)
(* Operators named Bug... are plausible mistakes, used by no specification.*)
(***************************************************************************)
EXTENDS Integers, Sequences, FiniteSetsExt

CONSTANT MaxRuns    \* maxRuns, 1000 in the code

ASSUME MaxRunsAssumption == MaxRuns \in Nat \ {0}

RunIdempotencyKey(id, minute) == <<id, minute>>

AlreadyFired(st, key) == \E k \in 1 .. Len(st.runs) : st.runs[k].key = key

\* The final update fills in what was not known; all else is taken from the newer record,
\* a status of "running" too.
mergeRun(existing, next) == [next EXCEPT !.finished = @ \/ existing.finished]

\* The job keeps the status of its last recorded run, if there still is a job.
updateJobRunFields(st, run) ==
    IF run.id \in DOMAIN st.jobs
    THEN [st EXCEPT !.jobs[run.id].lastStatus = run.status]
    ELSE st

\* One run too many is kept.
BugLastRuns(runs) == SubSeq(runs, Max({1, Len(runs) - MaxRuns}), Len(runs))

lastRuns(runs) == SubSeq(runs, Max({1, Len(runs) - MaxRuns + 1}), Len(runs))

\* Every record is a new run.
BugAppendRun(st, run) ==
    updateJobRunFields([st EXCEPT !.runs = lastRuns(Append(@, run))], run)

\* One record per firing: a known key is merged, a new one appended, the oldest dropped.
upsertRun(st, run) ==
    LET same   == {k \in 1 .. Len(st.runs) : st.runs[k].key = run.key}
        merged == mergeRun(st.runs[Min(same)], run)
    IN  IF same # {}
        THEN updateJobRunFields([st EXCEPT !.runs[Min(same)] = merged], merged)
        ELSE updateJobRunFields([st EXCEPT !.runs = lastRuns(Append(@, run))], run)

upsertJob(st, id, job) ==
    [st EXCEPT !.jobs = [k \in DOMAIN st.jobs \cup {id} |->
                            IF k = id THEN job ELSE st.jobs[k]]]

\* The loop that filters the runs, with what it has kept after each of them.
withoutJob(runs, id) ==
    LET dst[n \in 0 .. Len(runs)] ==
            IF n = 0 THEN <<>>
            ELSE IF runs[n].id # id THEN Append(dst[n - 1], runs[n]) ELSE dst[n - 1]
    IN  dst[Len(runs)]

\* A job goes with its runs.
deleteFrom(st, id) ==
    [jobs |-> [k \in DOMAIN st.jobs \ {id} |-> st.jobs[k]],
     runs |-> withoutJob(st.runs, id)]

applyCommand(st, cmd) ==
    CASE cmd.op \in {"create_job", "update_job"} -> upsertJob(st, cmd.id, cmd.job)
      [] cmd.op = "delete_job" -> deleteFrom(st, cmd.id)
      [] cmd.op = "record_run" -> upsertRun(st, cmd.run)

=============================================================================
