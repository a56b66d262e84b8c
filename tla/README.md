# market-intel: TLA+ models and proofs of crond

`crond` is a replicated cron service: a cluster of nodes keeps a log of job commands with
Raft, every node applies the log to its job store, and the leader's scheduler fires jobs
through executors (shell, HTTP, Kafka). Python workers consume the Kafka jobs and write
market data to a database. This directory holds TLA+ models of that system, TLC
configurations for small instances, and proofs checked by TLAPS.

## Inventory

| Component | State | Operations | Interacts with |
|---|---|---|---|
| `internal/raft/raft.go`, `rpc.go` | term, vote, log, snapshot index, commit index, per-peer indices, role | election and heartbeat loops, `Start`, `Snapshot`, the handlers `RequestVote`, `AppendEntries`, `InstallSnapshot`, reply goroutines | peers by one-shot TCP calls, persister, `applyCh` |
| `internal/raft/persister.go` | raft state and snapshot | `Save` (temporary file, rename), `load` | file |
| `raft.applyLoop` and `store.applyLoop` | `lastApplied`, `pendingSnapshot`, jobs, waiters | send, receive, apply, snapshot, notify | each other over an unbuffered channel |
| `internal/store` | jobs, runs, waiters | `Submit`, apply of four commands, queries, shard router | raft, scheduler, API |
| `internal/scheduler` | none of its own | `tick`, `fireJob`, `FireNow`, `ReconcileMissedJobs` | store, executor, `GetState` |
| `pkg/cron` | none | `Parse`, `Next` | scheduler, API |
| `internal/api` | none | create, list, delete, trigger | store, scheduler |
| `internal/executor` | none | `Dispatch` | shell, HTTP, Kafka |
| `ml/worker.py` | consumer position, committed offset | poll, dispatch, commit | Kafka, `ml/jobs` |
| `ml/jobs`, `ml/db` | database rows, cache | fetch, compute, upsert | TimescaleDB, Redis |
| `ml/models`, `ml/indicators` | none | numerics | `ml/jobs` |
| `cmd/crond/main.go` | none | start-up order | everything |

What is hard here: the goroutines of Raft keep values over an unlock and an RPC; a node may
crash between two persists of one handler; RPCs are lost, delayed and reordered; snapshots
come from the local store and from a leader and race with the apply loop, which gives up
the lock for every send; `Submit`, the scheduler and a new leader act on state that may be
stale; a firing becomes any number of Kafka messages and deliveries; the search for the next
run jumps over months, days and hours. `PROJECT.json` lists each of these hazards at its line.

What makes the components right: one leader per term; committed entries agree, are durable
and are in every later leader's log; diverged logs converge; the store is always the result
of a prefix of the committed log; an acknowledged write is on disk; and, above that, a firing
of a job is executed once; a message is run before its offset is committed, and a job that ends
well leaves its rows; `Next` returns the first match of an expression. Not all of this holds
without conditions (*Findings*, *Where the guarantees end*).

## Modules

**`Raft.tla`** models `raft.go` with the persister and the RPC layer. Each stretch of code
that holds `rf.mu` is one action:

| Action | Code |
|---|---|
| `startElection` | `electionTimeoutLoop` and `startElection` up to the calls |
| `RequestVote`, `AppendEntries`, `InstallSnapshot` | the handlers, whole |
| `HandleRequestVoteReply`, `HandleAppendEntriesReply`, `HandleInstallSnapshotReply` | the goroutines after their call returned |
| `sendHeartbeats`, `replicate` | `sendHeartbeats`: the capture under the first lock, then the goroutine of one peer under the second |
| `Start`, `Snapshot` | the calls of the service |
| `Restart`, `CrashInHandler` | a crash with `readPersist` and `Make`; a crash between the two persists of a handler |

The values a goroutine carries across an unlock are kept as the code keeps them: the term
and indices of a request travel in the reply record (`term`, `newMatch`,
`lastIncludedIndex`), and what `sendHeartbeats` captured is an element of `captures`. A
capture is never used up, since heartbeats and `Start` create any number of goroutines with
the same values; `heartbeating` says where calls of `sendHeartbeats` may still be waiting for
the lock although the node has stepped down. `inc` is the incarnation of the caller: TCP
delivers a reply only to the process that called. A lost call is a request or a reply that
vanishes; there are no duplicates, since `Call` dials and asks once.

Abstractions: timers are "may fire at any time"; the sentinel `log[0]` is left out
(`logTerm` answers for it from `lastIncludedTerm`); a snapshot is the sequence of entries it
covers, so that agreement can be stated over compacted logs (`FullLog`). The disk is the
file-backed persister: `Save` is one atomic replacement. The memory-only persister, used
when no data directory is set, forgets everything at a restart and is not modelled.
`ballots`, `elected`, `committed`, `leaderLogs` and `acked` are history variables: the votes
given, the elections won, what was ever committed, the log of the leader of each term in the
order of the elections, and which node stored which index of a leader's log while in its term.

**`MCRaft.tla`** instantiates it: the symmetry set, a view, and the diverged start of the
convergence run. The view leaves out history that no invariant of the run reads and fields
that no later step reads (indices of a node that does not lead, votes of one that is no
candidate, captures that can only produce requests which are refused and whose replies are
ignored).

**`ApplyPipeline.tla`** models one node between Raft and its store: `raft.applyLoop`,
`Snapshot`, `InstallSnapshot`, `store.applyLoop` and `NewStore`, in the sections between
which a lock is released or the channel is waited on. The committed log is given
(`1, 2, 3, ...`), the rest of the cluster moves `commitIndex` and sends snapshots. The state
of the store is the sequence of entries applied to it. `snapThreshold` is 1 in the code, so
every command is followed by a snapshot.

`calm` is a history variable. It becomes false when a snapshot of a leader is installed while
`raft.applyLoop` is in its inner loop, or has a snapshot in hand before `NewStore` has read the
disk (`between`). What the store promises is stated under `calm`; see *Where the guarantees
end*.

**`ReplicaStore.tla`** is the abstract store: its state is the result of a prefix of the log,
it only goes forward while the node is up, the disk holds such a state and only gets newer, and
a write is acknowledged when it is on disk. `ApplyPipeline` instantiates it as `Promise` with
`running <- storeLoop.pc # "boot"`, `store <- jobs`, `disk <- persister.snapshot`,
`acked <- notified`, `exact <- calm`; `ImplementsStore` is its specification. The channel, the
loops, `lastApplied`, `commitIndex` and `pendingSnapshot` do not appear there.

**`Submit.tla`** models `Store.Submit`: `Start`, the waiter that is registered only after it
returned (`registerWaiter`), the timeout that removes whoever waits for the index, and the
notification by the apply loop (`applyNext`). Raft is seen from above, as the runs of `Raft`
justify it: one committed log, the uncommitted tail of the node elected last, how much of the
tail is of earlier terms (`inherited`; it commits only together with an entry of this term),
and nodes that still take themselves for the leader with a log of their own (`believes`,
`deposed`). `elect` gives the new leader any prefix of the tail, since only committed entries
have to be in its log. What a node applied survives its crash (`NotifiedIsDurable` of
`ApplyPipeline`). `Node` are the nodes whose store is looked at; the majorities lie in
`commit` and `elect`. **`SubmitClients.tla`** adds callers with a command of their own, each
calling once, and the history variable `overtaken`: the callers that were still in `Submit`,
with a command not committed, when their node ceased to be the newest leader.
**`MCSubmit.tla`** adds the symmetry.

**`JobStore.tla`** is the state machine of the store as operators: the four commands on jobs
and runs, the merge of two records of one firing, the cap on the history, the key of a firing
and the test for it. Times are minutes, the grain of schedules and keys.

**`Scheduler.tla`** composes `Submit` and `JobStore` with the scheduler and with the requests
of the API. Each goroutine of `fireJob`, each request and the catch-up of a skipped job is a
task, at one of the stages between which other goroutines run:

| Stage | Code |
|---|---|
| `check` | `fireJob` up to the first `submit`: `AlreadyFired` and `nextRun` |
| `update`, `record` | the two `submit` before the dispatch; an error ends the task |
| `dispatch` | `exec.Dispatch`, which succeeds or fails |
| `final` | the last `submit`, whose error is ignored |
| `submit` | a request of the API, or `advanceNextRun` |

`tick`, `ReconcileMissedJobs`, `FireNow`, `createJob` and `deleteJob` start tasks from the
store of their node, which may lag. `executed` holds for each key the tasks that gave it to the
executor. Abstractions: all nodes read one clock, every schedule is "each minute", and a tick
waits for the first two Submits of the tasks of the tick before it, because ticks are 15 s
apart and a Submit gives up after 5 s. `restart` keeps the store and kills the tasks.
`overtaken` is a history variable, as in `SubmitClients`: the tasks that waited for their running
record, not yet committed, when their node ceased to be the newest leader. `historyComplete` says
that no delete was committed and that no more firings were recorded than a store keeps.
**`MCScheduler.tla`** adds the symmetry.

**`Worker.tla`** follows a firing from `KafkaExecutor.Execute` to the rows in the database.

| Action | Code |
|---|---|
| `Execute`, `Publish` | `kafka.go`: the checks of the payload, the skip without brokers, and a write that may be repeated or fail after it took effect |
| `start`, `stop`, `runReturns`, `crash` | `main`, the signal handler, the end of `run`, a dead process |
| `deliver`, `undecodable` | `for msg in consumer`: the next record, or the deserializer's error that ends the worker |
| `nextTicker` | the loop of `execute` in `fetch_quotes`, `run_predictions` and `compute_indicators`, with `upsert_*` |
| `dispatchReturns` | the end of `dispatch`: `commit`, or the `except` branch (`fail`) |
| `rebalance`, `join` | the group coordinator (external) |

Kafka is modelled from its use: `for msg in consumer` moves the position when it delivers, an
iterator that is left by `break` is continued, `commit()` commits the positions of all
partitions of the worker, a worker that lost its partitions is refused, and every assignment
starts from the committed offset. Time runs in half minutes, so that two moments of one minute
differ. The time of a row (`rowTimes`) is the moment or a past candle for a quote, the minute for a
prediction, and for an indicator the last bar of the history, whatever that is, or the moment when
the history has no times (`latest_timestamp`); its key holds the minute (`minute_bucket`). `ended`
is a history variable: the messages whose run has ended, and whether well. A message is a firing and a kind: one of the jobs, `bad` (no such job), `junk` (no
JSON); `malformed` is a payload that is not `topic:message`. **`MCWorker.tla`** names the model
values.

**`Cron.tla`** models `Parse` and `Next`: an expression is a set of parts per field, each part a
star, a value or a range with a step, and each turn of the loop of `Next` is a step. What Go's
`time` answers (the fields of a time, the next midnight, the first of the next month, four
years on, the hour truncated) comes in as constants, and `CalendarAssumption` says what is
assumed of them: a month and a day are stretches of time with the same date, and `advanceHour`
passes over nothing but the rest of an hour. It may stay or go back within the hour: `Truncate`
works in UTC and `time.Date` on the local clock. `TextAssumption` says that a field of a text has
parts and that these hold numbers. **`MCCron.tla`** is a calendar with hours of 2 minutes, days of
2 hours, weeks of 2 days, and years with a month of 2 and one of 3 days, with a zone of whole hours
and one that is half an hour off.

**`RaftTypeProofs.tla`, `RaftElectionProofs.tla`, `RaftLogProofs.tla`, `ApplyProofs.tla`, `SubmitProofs.tla`,
`SchedulerProofs.tla`, `WorkerProofs.tla`, `CronProofs.tla`** hold the theorems.

Operators named `Bug...` are plausible mistakes in the definition they precede. No
specification uses them; replacing the definition by one makes the property named in
`PROJECT.json` fail, which shows that the property can.

## Runs

| Run | Bounds | Shows |
|---|---|---|
| `raft_replication` | 3 nodes, 3 terms, 2 entries, 1 RPC | `CommittedAgreement`, `LeaderCompleteness`, `LogMatching` |
| `raft_crash` | 3 nodes, 2 terms, 1 entry, 1 crash, 2 RPCs | `ElectionSafety`, `CommittedDurable`, `MatchIndexConfirmed` |
| `raft_snapshot` | 3 nodes, 2 terms, 2 entries, snapshots up to index 1, 1 RPC | `TypeOK`, `CommittedAgreement`, `NextIndexInRange`, `TermIsDurable`, `CommitIndexMonotonic` |
| `raft_convergence` | the diverged start, no losses, fairness, snapshots up to 2 | `LogsConverge` |
| `apply_pipeline` | 5 entries, snapshots of every index, 2 restarts, fairness | `TypeOK`, `IndicesOrdered`, `AppliedInOrder`, `NotifiedIsDurable`, `SnapshotNeverOlder`, `AppliedNeverUndone`, `EventuallyApplied`, `ImplementsStore` |
| `submit_cluster` | 2 nodes, 3 callers, 3 elections, 1 crash, log up to 3 | `TypeOK`, `WaitersAreWaiting`, `RejectedNeverCommitted`, `NilMeansCommitted` |
| `sched_requests` | 1 node, 2 tasks, all requests and policies, 2 minutes, history of 1 run | `TypeOK`, `RecordedBeforeRun` |
| `sched_cluster` | 2 nodes, 2 tasks, 1 election, 1 crash, catch-up, 2 minutes | `RunsUnique`, `FinishedWasExecuted`, `RepeatedOnlyByOthers`, `RecordedBeforeRun` |
| `sched_failover` | 2 nodes, 2 tasks, 1 election | violated: `ExecutedOnce` |
| `worker_group` | 2 workers, 1 partition, 2 firings of quotes, unknown jobs, values that are no JSON and malformed payloads, 1 failure, 1 ticker, 2 moments, fairness | `TypeOK`, `CommittedWasRun`, `FinishedLeftRows`, `ReportedIsRun` |
| `worker_quotes` | 1 worker, 1 firing of the three jobs, 1 failure, 2 moments | violated: `OneQuotePerKey` |
| `cron_next` | 2801 expressions, from each minute of a year, 2 zones, fairness | `TypeOK`, `NextIsFirst`, `NextReturns` |

Why the bounds are enough to be interesting: three nodes are the smallest cluster in which
a majority is neither everyone nor one node; three terms allow a leader that is deposed and
elected again (stale captures) and the entry of an old term on a majority that a later
leader overwrites; two entries allow a conflict behind an agreeing prefix. One RPC in flight
still orders requests arbitrarily against elections, since any number of goroutines wait
with old captures; the runs with two add reordering of requests and replies. A wider network
or a crash on top of three terms and two entries is past what the runs can exhaust.
For the scheduler two tasks are enough for a pair that races; the log holds all that a task
submits before its last record, and the last minute is
one after which no schedule has an occurrence, as with an exhausted cron expression. The
history of one run in `sched_requests` makes the cap take effect. One ticker in the runs of `Worker`
can be stored, fail, or fail after it was stored, which is all that a job's outcome depends on;
one failure is a crash, a stop or a rebalance at any point, and a repeated write gives a third
message. Predictions and indicators are in `worker_quotes` only: with them
`worker_group` has several times the states, and its invariants are proved for every kind. The small calendar
has months of different lengths and days that only some of them have, weekdays that move from year
to year, and hours that a jump can leave in the middle. The four-year limit of `Next` is never
reached in it, as it never is in the code: the two day fields are joined by "or", and a month that
is allowed has a day of every weekday. (Under the rule the comment at `parser.go:71` names,
31 February would reach it.) What `NextIsFirst` says of the limit is therefore shown by the proof
only, for any calendar.

Deadlock checking is off in every run: an idle cluster rests, and the bounds stop it too.

Fairness. `LogsConverge` assumes what a leader that stays leader does for ever: the
heartbeat ticker calls `sendHeartbeats`, the goroutine with the newest capture gets the
mutex (Go's mutex does not starve a waiter), requests that are not lost are handled and
their replies too. Sends need strong fairness because the bound on messages in flight
disables them now and then; in the code nothing does. Elections, commands, snapshots and
losses are never forced. `EventuallyApplied` assumes that the two apply loops keep running
and that `NewStore` is reached; it promises nothing across a crash. `ReportedIsRun` assumes
that a worker polls, and is then given a message or ends over one it cannot decode, that jobs end
(requests and database calls time out), that docker
compose starts a worker that ended (`restart: unless-stopped`), and that a worker that polls
again and again joins the group; crashes, stops and rebalances are never forced. `NextReturns`
assumes that the loop is not stopped.

### Findings

Each of these runs states what a document or a comment of the repository says, and TLC gives the
shortest behaviour of the model that does otherwise.

* `sched_failover`: a new leader whose store has not applied the run the old leader recorded fires
  it again, and both execute it. `src/docs/plan.md:13` excludes this. `ExecutedOnce` does not count
  tasks that were overtaken; if it did, the shortest trace would also have the record of the old
  leader overwritten by the update of the new one, which wakes its Submit.
* `worker_quotes`: the time of a quote has seconds, `ON CONFLICT` asks for time and key, and a
  second delivery in the same minute adds a second row with the same key; `timescale.py:68` says
  that the key prevents it. (The time of a prediction is cut to its minute.)

### Where the guarantees end

Some properties hold under a condition that is written into them. What happens outside it is a
behaviour of the modules, too, and TLC finds it when the condition is dropped or the stronger
property is stated; none of it is excluded by the code:

* `AppliedInOrder`, `NotifiedIsDurable`, `AppliedNeverUndone`, `EventuallyApplied` and
  `ImplementsStore` hold while `calm`. The inner loop of `raft.applyLoop` does not look at
  `pendingSnapshot`, although `raft.go:435` means to send the snapshot first: one installed while it
  sends is delivered after later commands and takes them back, also acknowledged ones, and
  `lastApplied` does not go back with it, so that until a restart they are missing. And Raft and its
  listener run before `store.Make` reads the disk: an entry that waits on the channel is then applied
  on top of a snapshot that covers it, although `store.go:59` means to load the snapshot "before new
  log entries arrive".
* `MatchIndexConfirmed` is about the leader of the newest term. A deposed leader that still
  believes in itself counts on peers that may have been truncated, in five nodes even on one
  that is still in its term: A leads term 1, follows B in term 2 and captures that term in a
  waiting heartbeat, then leads term 3; the old goroutine sends A's new log to C with Term 2,
  and C, in term 2, replaces what B counts on. It does no harm, since B cannot reach a majority
  that has not heard of term 3 - which is what the proof of `CommittedAgreement` comes down to.
* `NilMeansCommitted` excludes callers whose node was overtaken. Submit waits for an index; a
  deposed leader whose entry was overwritten wakes its caller for the other leader's command
  and reports success for one that is in no log (`store_test.go:249` expects `ErrNotLeader`). For
  the same reason `RecordedBeforeRun` and `ExecutedOnce` exclude tasks that were overtaken: with one
  election a job runs whose record is in no log.
* `RepeatedOnlyByOthers` speaks of the ticks of one node only. Two leaders may run a firing twice
  (`sched_failover`), and so may, without any failure, the tick and the catch-up of one leader, which
  race for the same missed minute (`recovery.go:17` says "exactly once"), and two requests. It
  excludes overtaken tasks, and it asks for `historyComplete`: `AlreadyFired` finds nothing in a
  history from which the job was deleted, or from which the firing was dropped. And it rests on the
  time between ticks: the guard of `tick` is no condition of the code, but follows from ticks every
  15 s and two Submits of at most 5 s each.
* No property says that a firing which began is executed. `fireJob` moves the schedule on first:
  when the process dies before the dispatch, no store has the firing before it any more
  (`docs/forward.md:16` promises exactly-once across crashes); and when Submit of the moved schedule
  fails, the command may be committed all the same, so that every store is past the firing, where
  `scheduler.go:92` says that another leader will take over.
* No property says that an update is of the newest job. `fireJob` writes the whole job as it was
  when it began: a trigger of the minute before that is late puts `nextRun` back to a run that was
  executed, whose key is then found at every tick, and the schedule stands still (`scheduler.go:88`
  means to keep the cluster "ahead of executor side effects"); and an update of a job that was
  deleted meanwhile creates it again (`index/sprint1_test.md:222`: deleted jobs are gone).
* `CommittedWasRun` and `ReportedIsRun` say "run to an end", not "succeeded", although `worker.py:41`
  says that a message is marked done only "after the job finishes without error": the position is
  past a failed message, and the commit after the next success covers it. It is retried only when
  the group changes or the worker restarts before that.
* `ReportedIsRun` excludes topics with a value that is no JSON. The deserializer fails outside the
  `try` of the loop; the worker ends, and so does every one that follows it, and the jobs fetched
  with it are never run (`docs/forward.md:1846` promises "at-least-once processing").
* `FinishedLeftRows` says that there is a row of the job, not one of each ticker: a job ends well when
  one of its tickers was stored.
* `NextIsFirst` takes the days the code allows. The day fields are joined by "or" always; with a
  star in one of them the other is not looked at, so that "0 9 * * 1", "09:00 every Monday" in
  `parser_test.go:56`, fires on every day, against the rule the comment at `parser.go:71` names.
* `NextReturns` is for zones a whole number of hours from UTC. `Truncate` works in UTC and
  `time.Date` on the local clock: half an hour off, `advanceHour` of a full hour returns that hour,
  and the loop stays there without ever reaching the limit that should "avoid infinite loop"
  (`parser.go:60`).
* That a waiter registered after its entry was applied, or removed by the timeout of another caller,
  ends in `ErrTimeout` is how `Submit` reports an unknown outcome; nothing promises more.

## Proofs

`tlapm` checks the theorems for every finite set of servers and every bound.

* `RaftTypeProofs`: `TypeInvariant` and its corollary `TypeCorrect` (`Spec => []TypeOK`).
  `TypeOK` is not inductive: the length of a snapshot has to equal its index, in memory, on
  disk, and in `InstallSnapshot` requests in flight, or taking a snapshot of a log that
  follows one is not a sequence of entries. `TypeInv` adds that, split into `MemoryOK`,
  `VolatileOK`, `DiskOK`, `NetOK` and `HistoryOK`. Lemmas give the types of the helpers
  (`logAfter`, `mergedLog`, `Max` and `Min` of a set, bag sums and differences).
* `RaftElectionProofs`: `VotesAreSafe` and `OneLeaderPerTerm` (`Spec => []ElectionSafety`).
  The inductive invariant `VoteInv` says that no node casts two ballots in a term
  (`BallotsUnique`), that a node's term, in memory and on disk, is at least that of each of
  its ballots and that at equal terms its vote, again in both, is that ballot
  (`BallotsKept`; this carries the argument over a crash, also one between two persists, and
  over `AppendEntries`, which raises the term without clearing the vote), that votes counted
  by a candidate and granted replies in flight are ballots (`VotesAreBallots`,
  `RepliesAreBallots`), and that a leader had a majority of ballots (`ElectedByMajority`).
  Two majorities meet (proved from the cardinality of finite sets), so two leaders of a term
  are one. `VoteInv` was checked by TLC before it was proved.
* `RaftLogProofs`: `LogsAreSafe` (`Spec => []LogInv`), and from it `CommittedAgrees`,
  `LeadersAreComplete`, `CommittedIsDurable`, `LogsMatch`, `MatchIndexIsConfirmed`,
  `NextIndexStaysInRange`, `TermsAreDurable` and the action property `CommitIndexNeverFalls`.
  This is the replication of Raft as the code does it, with its snapshots, goroutines and
  persists. The argument:
  * An entry is *chosen* in term t when its leader appended it in t and a majority is in `acked`
    with it. `CarriedLater`: every later leader has it. Take the first leader, in the order of
    the elections (`Turn`), that has not; a voter of it acknowledged the entry and still had it
    when it voted, and the candidate's log was at least as up to date. The order has to be that
    of the elections and not of the terms: a goroutine of a former leadership may send entries
    of a leader of a higher term, so a node's log may be ahead of its term.
  * `ElectedInv`, `BallotInv` and `AckInv` carry this over the steps: a node keeps what it
    acknowledged until a later leader without it comes, a candidate has what its voters
    acknowledged, a leader what its electorate had.
  * `LateCandidateInv` is for the candidate that was sent entries of a term above its own: a
    majority is past its term and has not voted for it, so it never wins.
  * `LeaderLogInv` and `NodeLogInv` are log matching. For a node only past its snapshot:
    `InstallSnapshot` keeps a suffix it never compared. For the same reason an `AppendEntries`
    that begins within a node's snapshot is not an acknowledgement of what the snapshot covers;
    there `Confirmed` argues with the commit instead.
  * `CommitInv` says that what a node, a waiting goroutine, a request or a snapshot calls
    committed was chosen in a term it can know of (`Decided`), and `NetInv` says of every kind of
    message what its handler relies on.
  * That `TermIsDurable` holds rests on `SnapshotRequestInv`: `InstallSnapshot` returns on an
    outdated snapshot without persisting the term it just raised, but a snapshot that raises the
    term ends in an entry of that term, and then it is not outdated.
  `LogInv` has one lemma for each action (`LogRequestVote`, `LogAppendEntries`, ...). It was
  checked by TLC, on small instances, before it was proved.
* `ApplyProofs`: `IndicesStayOrdered` (`Spec => []IndicesOrdered`) and
  `SnapshotNeverGoesBack` (`Spec => SnapshotNeverOlder`), for any set of snapshots from a
  leader and a log of any length. The strengthening `IndexInv` adds that the command being
  sent counts as applied. On top of it `AppliedStaysInOrder`, `NotifiedStaysDurable` and the
  refinement `PipelineKeepsPromise` (`Spec => ImplementsStore`). Their invariant `CalmInv` says,
  while `calm`: store, disk and the snapshot in the store's hands are prefixes of the log
  (`PrefixesOK`); a booting store is empty, and of a running one at most the newest command
  is not on disk (`StoreOK`); and what `applyLoop` sends fits what the store has: the next command follows the
  last entry of the store, or of the disk while the store boots, and a pending snapshot is not
  older (`ApplierOK`). This is the link between the two loops that `AppliedInOrder` alone
  does not carry over a step. `AppliedStays` (`Spec => AppliedNeverUndone`) is the action property
  of the same invariant. `PipelineTypes` is `Spec => []TypeOK`.
* `SubmitProofs`: `NoWaiterLeaks` (`Spec => []WaitersAreWaiting`) and `RejectedStaysOut`
  (`Spec => []RejectedNeverCommitted`) for any nodes, callers and bounds. `SubmitInv` adds the
  shape of the state (`ShapeOK`) and that each command in the log, in the tail or in a deposed
  leader's tail is of a caller that was not refused (`AcceptedOnly`); the deposed tails are
  needed since one of them may become the tail again. `NilIsTheCallersOwn`
  (`Spec => []NilMeansCommitted`) needs to know where the entry of a caller is until it is
  committed: in the tail of the newest leader, at the index `Start` returned, unless the caller
  was overtaken (`EntryInv`). `SubmitTypes` (`Spec => []TypeOK`, with one waiter for an index of a
  node and no store ahead of the log) adds where a command may be: in one place of the log and the
  tails of leader and deposed, at most (`PlacesInv`).
* `SchedulerProofs`: `SchedulerTypes` (`Spec => []TypeOK`, with the bound on the history),
  `RunsStayUnique` (`Spec => []RunsUnique`) and `FinishedStaysExecuted`
  (`Spec => []FinishedWasExecuted`) for any nodes, jobs, goroutines, requests, elections and
  crashes. The invariant `SchedInv` says that every record that is finished, wherever it is - in a
  store, in the committed log, in the tail of a leader or of a deposed one - is *backed* by an
  execution, and that a task with its final record still to submit is too; `BackedGrows` says that
  executions are never forgotten. What a delete leaves of a history (`withoutJob`) takes an
  induction over the runs; it is done with a least counter-example (`FirstException`), since the
  induction theorems of the library cannot be instantiated.
  * `RunsAreRecorded` (`Spec => []RecordedBeforeRun`) has the argument of `NilIsTheCallersOwn`
    below the stages of a task: until nil comes back, a running record that nobody overtook is at
    its index, in the log or in the tail of the node it was given to (`PendingInv`); a task is sent
    on to the dispatch only then (`DispatchInv`); and what was executed stays recorded
    (`ExecutedInv`). Together with the shape of logs, tasks and calls this is `RecordInv`.
  * `FiringsRunOnce` (`Spec => []RepeatedOnlyByOthers`) needs the stores as well. `OnceInv` says
    that a call that returned nil has been applied on its node (`AnsweredInv`); that
    `AlreadyFired` is true of exactly the firings whose record the store applied, while the
    history is complete (`StoreInv`; that there is room for each of them is a count of the keys,
    `RoomForRun`); that what ran has its record in the store of its node (`RanInv`); that a process
    catches up once (`CatchUpInv`); and that of two tasks for one firing, started on one node in
    one way, one at most is before its run, and none that has passed the check once the other has
    run (`TwinsInv`). `movesOn` and `callKept` say what all steps do to tasks and calls, so that
    each action has one lemma that shows them. `OnceInv` was checked by TLC before it was proved.
* `WorkerProofs`: `NothingSkippedUnrun` (`Spec => []CommittedWasRun`) and `FinishedLeavesRows`
  (`Spec => []FinishedLeftRows`) for any workers, partitions, tickers and bounds. The invariant of
  the first says that below the position of a partition every message has been run, except the one
  its owner is running; a worker that has lost its partition owns nothing it could commit. That of
  the second (`RowInv`) says that a worker which counts a ticker of its message as stored has left a
  row in the table of that message (`RunningInv`), that a run that ended well has (`EndedInv`), and
  that neither the log nor the rows lose anything (`kept`). `WorkerTypes` (`Spec => []TypeOK`) bounds
  positions and offsets by the ends of their logs.
* `CronProofs`: `FirstMatchIsReturned` (`Spec => []NextIsFirst`) for every calendar that meets
  `CalendarAssumption`, every expression and zone. `SearchInv` says that nothing between the
  start and the loop variable matches. Since `advanceHour` may go back, it also says
  (`HeldByHour`) that a step back stays in an hour that is not allowed. `CronTypes`
  (`Spec => []TypeOK`): what `Parse` accepts allows something in every field and nothing outside
  its range.

Assumptions are those the modules name: servers are a finite, non-empty set, the bounds are
natural numbers, and the calendar is one. Every invariant and every action property of a passing run is proved, and the
refinement. Only model-checked are the liveness properties (`LogsConverge`, `EventuallyApplied`,
`ReportedIsRun`, `NextReturns`), which are beyond the prover.

## Plan

In this order:

1. *(done)* `Raft`, `MCRaft`, `ApplyPipeline` and the first three proof modules.
2. *(done)* `Submit`, `SubmitClients` and `SubmitProofs`.
3. *(done)* `JobStore` and `Scheduler`.
4. *(done)* `ReplicaStore`, and `ApplyPipeline` shown to implement it, by TLC and by proof.
5. *(done)* `Worker` and `WorkerProofs`.
6. *(done)* `Cron` and `CronProofs`.
7. *(done)* `SchedulerProofs`.
8. *(done)* `RaftLogProofs`, and proofs of the remaining invariants and action properties.
9. Several jobs in one instance of `Scheduler`, and schedules other than each minute.
10. The view of Raft in `Submit` (one committed log, the tail of the newest leader) as a refinement
    of `Raft` instead of an argument from its properties.

## Not modelled

Shell and HTTP executors (their outcome is an input of `Dispatch`), HTTP routing and authentication,
JSON and gob encoding, logging (pure I/O or
formatting); the cache in Redis, the contents of rows, and `upsert_ohlcv`, which nothing calls;
summer time in `Next`; `ml/models` and `ml/indicators` (floating-point numerics); the probes, SQL
schema, container and shell scripts. `Kill` and `GetState` of Raft change nothing that a
model could tell apart. Growth of goroutines and memory is not bounded by the code and is
not modelled (an RPC has no timeout; that it may stay in flight for ever is). A command that
does not decode and the time stamps of `applyCommand`, by which nothing decides, are left out. A
power failure that loses a renamed file which was never synced is outside:
crashes here are of the process.
