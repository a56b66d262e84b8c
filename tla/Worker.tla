------------------------------- MODULE Worker -------------------------------
(***************************************************************************)
(* The way of a scheduled job through Kafka: KafkaExecutor of              *)
(* src/internal/executor/kafka.go publishes it, the workers of             *)
(* src/ml/worker.py consume it, and the jobs of src/ml/jobs leave rows in  *)
(* TimescaleDB (src/ml/db/timescale.py).                                   *)
(*                                                                         *)
(* Kafka and its clients are modelled from how the code uses them: a       *)
(* partition is a log, the consumer's position moves past a record when    *)
(* the record is delivered, commit() commits the positions of all its      *)
(* partitions, and a change in the group brings every position back to the *)
(* committed offset.  Undecodable values fail inside the consumer, for a   *)
(* whole batch.  Topics and the contents of payloads are left out.         *)
(*                                                                         *)
(* Operators named Bug... are plausible mistakes, used by no specification.*)
(***************************************************************************)
EXTENDS Integers, Sequences, FiniteSets

CONSTANTS
    Worker, Partition, Nil,
    Kinds,         \* what is published: a job of ml/jobs, "bad" (no such job), "junk" (no JSON)
    Tickers,       \* the number of tickers of a job
    MaxFirings,    \* bounds
    MaxFailures,   \* crashes and stops of a worker, and changes in the group
    MaxTime

JobKinds == {"fetch_quotes", "compute_indicators", "run_predictions"}

ASSUME WorkerAssumption ==
    /\ Nil \notin Worker
    /\ Kinds \subseteq JobKinds \cup {"bad", "junk", "malformed"}
    /\ Tickers \in Nat \ {0}
    /\ MaxFirings \in Nat /\ MaxFailures \in Nat /\ MaxTime \in Nat

VARIABLES
    now,        \* half minutes
    brokers,    \* whether the scheduler was given any
    reported,   \* what Execute returned for each firing so far
    log,        \* the messages of each partition: their firing and kind
    committed,  \* the offset of the group in each partition
    owner,      \* the worker each partition is assigned to
    position,   \* the position of the owner's consumer in each partition
    workers,    \* the state of each worker
    rows,       \* the rows of the database
    ended,      \* history: the messages whose run has ended, and whether well
    failures

brokerVars == <<log, committed, owner, position>>
vars == <<now, brokers, reported, brokerVars, workers, rows, ended, failures>>

\* Offsets count from 0, sequences from 1.
messageAt(p, offset) == log[p][offset + 1]

Down    == [pc |-> "down", running |-> FALSE, part |-> Nil, offset |-> 0, ticker |-> 0,
            stored |-> FALSE]
Started == [Down EXCEPT !.pc = "poll", !.running = TRUE]

\* The message of the worker, as one whose run ended.
endOf(w, ok) == [part |-> workers[w].part, offset |-> workers[w].offset, ok |-> ok]

\* The worker waits for the next message.
waiting(w) == [Started EXCEPT !.running = workers[w].running]

-----------------------------------------------------------------------------
(* The producer: KafkaExecutor *)

\* Nobody acknowledges the write.
BugNoAcks(err, copies) == err \in {"nil", "error"} /\ copies \in 0 .. 2

\* What WriteMessages returns and how often the message is written: a lost acknowledgement
\* is tried again, and an error does not say that nothing was written.
Publish(err, copies) ==
    \/ err = "nil" /\ copies \in 1 .. 2
    \/ err = "error" /\ copies \in 0 .. 2

\* Execute for one more firing.  The payload is not looked into beyond "topic:message",
\* and without brokers nothing is sent and all is well.
Execute(kind) ==
    /\ Len(reported) < MaxFirings
    /\ IF kind = "malformed" \/ ~brokers
       THEN /\ reported' = Append(reported, IF kind = "malformed" THEN "error" ELSE "nil")
            /\ log' = log
       ELSE \E err \in {"nil", "error"}, copies \in 0 .. 2, p \in Partition :
               LET message == [firing |-> Len(reported) + 1, kind |-> kind]
               IN  /\ Publish(err, copies)
                   /\ reported' = Append(reported, err)
                   /\ log' = [log EXCEPT ![p] = @ \o [k \in 1 .. copies |-> message]]
    /\ UNCHANGED <<now, brokers, committed, owner, position, workers, rows, ended, failures>>

-----------------------------------------------------------------------------
(* The consumer group (external) *)

\* The coordinator assigns the partitions to the members, who start from what is committed.
assignTo(members) ==
    /\ owner' \in IF members = {} THEN [Partition -> {Nil}] ELSE [Partition -> members]
    /\ position' = committed

polling == {w \in Worker : workers[w].pc = "poll"}

\* A change in the group does not wait for ever for one that is busy with a job: after
\* max_poll_interval_ms it is no member any more.
rebalance ==
    /\ failures < MaxFailures
    /\ failures' = failures + 1
    /\ assignTo(polling)
    /\ UNCHANGED <<now, brokers, reported, log, committed, workers, rows, ended>>

\* Free partitions are assigned when a worker polls and nobody is busy with another.
join(w) ==
    /\ w \in polling
    /\ \E p \in Partition : owner[p] = Nil
    /\ \A p \in Partition : owner[p] \in polling \cup {Nil}
    /\ assignTo(polling)
    /\ UNCHANGED <<now, brokers, reported, log, committed, workers, rows, ended, failures>>

-----------------------------------------------------------------------------
(* The worker *)

\* main starts run; docker compose restarts what ended.
start(w) ==
    /\ workers[w].pc = "down"
    /\ workers' = [workers EXCEPT ![w] = Started]
    /\ UNCHANGED <<now, brokers, reported, brokerVars, rows, ended, failures>>

\* The consumer is closed, or its process is gone: the partitions are free, and what was
\* not committed is not.
leave(w) ==
    /\ workers' = [workers EXCEPT ![w] = Down]
    /\ owner' = [p \in Partition |-> IF owner[p] = w THEN Nil ELSE owner[p]]
    /\ position' = [p \in Partition |-> IF owner[p] = w THEN committed[p] ELSE position[p]]
    /\ UNCHANGED <<now, brokers, reported, log, committed, rows, ended>>

\* The offset is committed when the message is taken.
BugCommitEarly(w, p) ==
    /\ workers[w].pc = "poll" /\ workers[w].running
    /\ owner[p] = w /\ position[p] < Len(log[p])
    /\ messageAt(p, position[p]).kind # "junk"
    /\ workers' = [workers EXCEPT ![w].pc = "run", ![w].part = p, ![w].offset = position[p],
                                  ![w].ticker = 1, ![w].stored = FALSE]
    /\ position' = [position EXCEPT ![p] = @ + 1]
    /\ committed' = [committed EXCEPT ![p] = position[p] + 1]
    /\ UNCHANGED <<now, brokers, reported, log, owner, rows, ended, failures>>

\* `for msg in consumer': the next record of a partition is delivered.
deliver(w, p) ==
    /\ workers[w].pc = "poll" /\ workers[w].running
    /\ owner[p] = w /\ position[p] < Len(log[p])
    /\ messageAt(p, position[p]).kind # "junk"
    /\ workers' = [workers EXCEPT ![w].pc = "run", ![w].part = p, ![w].offset = position[p],
                                  ![w].ticker = 1, ![w].stored = FALSE]
    /\ position' = [position EXCEPT ![p] = @ + 1]
    /\ UNCHANGED <<now, brokers, reported, log, committed, owner, rows, ended, failures>>

\* A batch with a value that is no JSON: decode_value fails in the consumer, outside the
\* try of the loop; run closes the consumer and main lets the error through.
undecodable(w, p) ==
    /\ workers[w].pc = "poll" /\ owner[p] = w
    /\ \E offset \in position[p] .. (Len(log[p]) - 1) : messageAt(p, offset).kind = "junk"
    /\ leave(w)
    /\ UNCHANGED failures

\* The except branch: the message is left as it is and the loop goes on.
fail(w) ==
    /\ ended' = ended \cup {endOf(w, FALSE)}
    /\ workers' = [workers EXCEPT ![w] = waiting(w)]
    /\ UNCHANGED <<committed, rows>>

\* The committed offset is one too high.
BugCommitNext(w) ==
    /\ committed' = [p \in Partition |-> IF owner[p] = w THEN position[p] + 1
                                         ELSE committed[p]]
    /\ ended' = ended \cup {endOf(w, TRUE)}
    /\ workers' = [workers EXCEPT ![w] = waiting(w)]
    /\ UNCHANGED rows

\* commit() is refused to a worker that has lost its partitions; that is caught as a
\* failure of the job.
commit(w) ==
    /\ committed' = [p \in Partition |-> IF owner[p] = w THEN position[p] ELSE committed[p]]
    /\ ended' = ended \cup {endOf(w, TRUE)}
    /\ workers' = [workers EXCEPT ![w] = waiting(w)]
    /\ UNCHANGED rows

\* The times market data may bear: minutes up to this one, and -2 for all earlier ones.
bars == {2 * m : m \in -1 .. (now \div 2)}

minute_bucket(time)    == time \div 2
minute_timestamp(time) == 2 * minute_bucket(time)

\* The time column of a row: of a quote the moment, or the candle it was read from; of a
\* prediction the minute; of an indicator the last bar of the history, or the moment when the
\* history has no times.
rowTimes(kind) ==
    CASE kind = "fetch_quotes" -> {now} \cup bars
      [] kind = "run_predictions" -> {minute_timestamp(now)}
      [] kind = "compute_indicators" -> bars \cup {now}

\* INSERT ... ON CONFLICT (time, idempotency_key) DO NOTHING; the key is made of the
\* ticker and the minute of that time.
upsert(kind, ticker) ==
    \E time \in rowTimes(kind) :
        rows' = rows \cup {[table |-> kind, time |-> time,
                            key |-> <<ticker, minute_bucket(time)>>]}

\* A ticker counts as stored whether or not the row was written.
BugStoredAnyway(w) ==
    LET kind   == messageAt(workers[w].part, workers[w].offset).kind
        ticker == workers[w].ticker
    IN  /\ workers[w].pc = "run" /\ kind \in JobKinds /\ ticker <= Tickers
        /\ upsert(kind, ticker) \/ UNCHANGED rows
        /\ workers' = [workers EXCEPT ![w].ticker = ticker + 1, ![w].stored = TRUE]
        /\ UNCHANGED <<now, brokers, reported, brokerVars, ended, failures>>

\* The job's loop: a ticker is stored, or cannot be fetched, or fails after it was stored
\* (Redis); then the next.
nextTicker(w) ==
    LET kind   == messageAt(workers[w].part, workers[w].offset).kind
        ticker == workers[w].ticker
    IN  /\ workers[w].pc = "run" /\ kind \in JobKinds /\ ticker <= Tickers
        /\ \/ /\ upsert(kind, ticker)
              /\ workers' = [workers EXCEPT ![w].ticker = ticker + 1, ![w].stored = TRUE]
           \/ /\ UNCHANGED rows
              /\ workers' = [workers EXCEPT ![w].ticker = ticker + 1]
           \/ /\ kind = "fetch_quotes"
              /\ upsert(kind, ticker)
              /\ workers' = [workers EXCEPT ![w].ticker = ticker + 1]
        /\ UNCHANGED <<now, brokers, reported, brokerVars, ended, failures>>

\* A success of any ticker is a success of the job.  parse_envelope or the import of the
\* module fail for a message that is no job.
dispatchReturns(w) ==
    LET kind == messageAt(workers[w].part, workers[w].offset).kind
    IN  /\ workers[w].pc = "run"
        /\ kind \in JobKinds => workers[w].ticker > Tickers
        /\ IF kind \in JobKinds /\ workers[w].stored THEN commit(w) ELSE fail(w)
        /\ UNCHANGED <<now, brokers, reported, log, owner, position, failures>>

\* SIGTERM: stop() clears the flag.
stop(w) ==
    /\ failures < MaxFailures
    /\ failures' = failures + 1
    /\ workers[w].running
    /\ workers' = [workers EXCEPT ![w].running = FALSE]
    /\ UNCHANGED <<now, brokers, reported, brokerVars, rows, ended>>

\* The loops end at their next turn; a message taken then is dropped with the consumer.
runReturns(w) ==
    /\ workers[w].pc = "poll" /\ ~workers[w].running
    /\ leave(w)
    /\ UNCHANGED failures

crash(w) ==
    /\ failures < MaxFailures
    /\ failures' = failures + 1
    /\ workers[w].pc # "down"
    /\ leave(w)

clock ==
    /\ now < MaxTime
    /\ now' = now + 1
    /\ UNCHANGED <<brokers, reported, brokerVars, workers, rows, ended, failures>>

-----------------------------------------------------------------------------

Init ==
    /\ now = 0
    /\ brokers \in BOOLEAN
    /\ reported = <<>>
    /\ log = [p \in Partition |-> <<>>]
    /\ committed = [p \in Partition |-> 0]
    /\ owner = [p \in Partition |-> Nil]
    /\ position = [p \in Partition |-> 0]
    /\ workers = [w \in Worker |-> Down]
    /\ rows = {}
    /\ ended = {}
    /\ failures = 0

Next ==
    \/ \E kind \in Kinds : Execute(kind)
    \/ rebalance
    \/ \E w \in Worker :
          \/ start(w)
          \/ join(w)
          \/ \E p \in Partition : deliver(w, p) \/ undecodable(w, p)
          \/ nextTicker(w)
          \/ dispatchReturns(w)
          \/ stop(w)
          \/ runReturns(w)
          \/ crash(w)
    \/ clock

Spec == Init /\ [][Next]_vars

\* A worker that runs keeps polling, jobs end (every request has a timeout), the group
\* settles, and docker compose starts a worker again.
FairSpec ==
    /\ Spec
    /\ \A w \in Worker :
          /\ WF_vars(start(w))
          /\ SF_vars(join(w))
          /\ WF_vars(nextTicker(w))
          /\ WF_vars(dispatchReturns(w))
          /\ WF_vars(runReturns(w))
          /\ \A p \in Partition : WF_vars(deliver(w, p) \/ undecodable(w, p))

-----------------------------------------------------------------------------
(* Properties *)

\* TypeOK: the shape of the state; no consumer is past the end of its log.
TypeOK ==
    /\ now \in 0 .. MaxTime /\ brokers \in BOOLEAN
    /\ reported \in Seq({"nil", "error"})
    /\ \A p \in Partition :
          /\ log[p] \in Seq([firing : Nat, kind : Kinds])
          /\ committed[p] \in 0 .. Len(log[p]) /\ position[p] \in 0 .. Len(log[p])
    /\ owner \in [Partition -> Worker \cup {Nil}]
    /\ workers \in [Worker -> [pc : {"down", "poll", "run"}, running : BOOLEAN,
                               part : Partition \cup {Nil}, offset : Nat,
                               ticker : 0 .. Tickers + 1, stored : BOOLEAN]]
    /\ rows \subseteq [table : JobKinds, time : Int, key : (0 .. Tickers) \X Int]
    /\ ended \subseteq [part : Partition, offset : Nat, ok : BOOLEAN]
    /\ failures \in Nat

\* CommittedWasRun: whatever is below the committed offset was run to an end, good or bad, by
\* some worker: no crash, stop or change in the group makes the group pass over a message
\* nobody has run.  ("A message is only marked done after the job finishes without error" says
\* more than run keeps: the position is past a message whose job failed, and the commit after
\* the next success covers it.)
CommittedWasRun ==
    \A p \in Partition : \A offset \in 0 .. (committed[p] - 1) :
        \E o \in ended : o.part = p /\ o.offset = offset

\* FinishedLeftRows: "commit only after successful DB write" - a message whose job ended well,
\* which alone makes a worker commit, has left a row in the table of its job, whichever tickers
\* failed and whoever else ran it.
FinishedLeftRows ==
    \A o \in ended : o.ok => \E r \in rows : r.table = messageAt(o.part, o.offset).kind

\* ReportedIsRun: a firing that Execute reported as sent is run by some worker in the end,
\* through crashes, stops and changes in the group - unless the topic holds a message that
\* cannot be decoded, which ends every worker that fetches it.
ReportedIsRun ==
    \A f \in 1 .. MaxFirings :
        brokers /\ f <= Len(reported) /\ reported[f] = "nil"
        ~> \/ \E o \in ended : messageAt(o.part, o.offset).firing = f
           \/ \E p \in Partition : \E k \in 1 .. Len(log[p]) : log[p][k].kind = "junk"

\* OneQuotePerKey: "The idempotency key is what keeps repeated writes from duplicating the same
\* quote" - no two quotes bear one key, however often a message is delivered.
OneQuotePerKey ==
    \A r, s \in rows : r.table = "fetch_quotes" /\ s.table = "fetch_quotes" /\ r.key = s.key => r = s

=============================================================================
