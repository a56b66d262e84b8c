---------------------------- MODULE WorkerProofs ----------------------------
(* Proofs about module Worker, for any workers, partitions, jobs and bounds. *)
EXTENDS Worker, TLAPS, SequenceTheorems

MessageType == [firing : Nat, kind : Kinds]

WorkerType == [pc : {"down", "poll", "run"}, running : BOOLEAN,
               part : Partition \cup {Nil}, offset : Nat,
               ticker : 0 .. Tickers + 1, stored : BOOLEAN]

EndType == [part : Partition, offset : Nat, ok : BOOLEAN]

\* The functions have their domains, which TypeOK does not ask for.
ShapeOK ==
    /\ log \in [Partition -> Seq(MessageType)]
    /\ committed \in [Partition -> Nat] /\ position \in [Partition -> Nat]
    /\ owner \in [Partition -> Worker \cup {Nil}]
    /\ workers \in [Worker -> WorkerType]
    /\ \A w \in Worker : workers[w].pc = "run" => workers[w].part \in Partition
    /\ ended \subseteq EndType

OffsetsOK == \A p \in Partition : committed[p] <= position[p] /\ position[p] <= Len(log[p])

hasEnded(p, offset) == \E o \in ended : o.part = p /\ o.offset = offset

\* The owner of p is busy with the message at offset.
isRunning(p, offset) ==
    \E w \in Worker : /\ owner[p] = w /\ workers[w].pc = "run"
                      /\ workers[w].part = p /\ workers[w].offset = offset

\* What the consumer of a partition has moved past was run, or is what its worker runs now.
DeliveredWasRun ==
    \A p \in Partition : \A offset \in 0 .. (position[p] - 1) :
        hasEnded(p, offset) \/ (offset >= committed[p] /\ isRunning(p, offset))

WorkerInv == ShapeOK /\ OffsetsOK /\ DeliveredWasRun

LEMMA WorkerInitOK == Init => WorkerInv
  <1> SUFFICES ASSUME Init PROVE WorkerInv
    OBVIOUS
  <1>1. ShapeOK
    BY WorkerAssumption DEF Init, ShapeOK, WorkerType, Down
  <1>2. OffsetsOK /\ DeliveredWasRun
    BY DEF Init, OffsetsOK, DeliveredWasRun
  <1> QED BY <1>1, <1>2 DEF WorkerInv

LEMMA StartedOK ==
    /\ Started \in WorkerType /\ Started.pc = "poll"
    /\ Down \in WorkerType /\ Down.pc = "down"
  <1>1. Down \in WorkerType /\ Down.pc = "down"
    BY WorkerAssumption DEF Down, WorkerType
  <1>2. Started = [Down EXCEPT !.pc = "poll", !.running = TRUE]
    BY DEF Started
  <1> QED BY <1>1, <1>2 DEF WorkerType

\* The step leaves the worker with the message it runs, if any.
sameRun(w) ==
    \/ workers[w].pc # "run" /\ workers'[w].pc # "run"
    \/ /\ workers'[w].pc = workers[w].pc
       /\ workers'[w].part = workers[w].part
       /\ workers'[w].offset = workers[w].offset

\* Steps that move no consumer and end no run
LEMMA Untouched ==
    ASSUME WorkerInv, UNCHANGED <<committed, owner, position, ended>>,
           log' \in [Partition -> Seq(MessageType)],
           \A p \in Partition : Len(log[p]) <= Len(log'[p]),
           workers' \in [Worker -> WorkerType],
           \A w \in Worker : sameRun(w)
    PROVE  WorkerInv'
  <1> USE DEF WorkerInv
  <1>1. ShapeOK'
    BY DEF ShapeOK, sameRun
  <1>2. OffsetsOK'
    BY DEF OffsetsOK, ShapeOK
  <1>3. ASSUME NEW p \in Partition, NEW offset, isRunning(p, offset)
        PROVE  isRunning(p, offset)'
    BY <1>3 DEF isRunning, sameRun
  <1>4. DeliveredWasRun'
    BY <1>3 DEF DeliveredWasRun, hasEnded
  <1> QED BY <1>1, <1>2, <1>4

LEMMA ExecuteOK ==
    ASSUME WorkerInv, NEW kind \in Kinds, Execute(kind), Len(reported) \in Nat
    PROVE  WorkerInv'
  <1>1. UNCHANGED <<committed, owner, position, workers, ended>>
    BY DEF Execute
  <1>2. /\ log' \in [Partition -> Seq(MessageType)]
        /\ \A p \in Partition : Len(log[p]) <= Len(log'[p])
    <2>1. CASE log' = log
      BY <2>1 DEF WorkerInv, ShapeOK
    <2>2. CASE log' # log
      <3>1. PICK copies \in 0 .. 2, p \in Partition :
                log' = [log EXCEPT ![p] = @ \o [k \in 1 .. copies |->
                           [firing |-> Len(reported) + 1, kind |-> kind]]]
        BY <2>2 DEF Execute
      <3> DEFINE new == [k \in 1 .. copies |-> [firing |-> Len(reported) + 1, kind |-> kind]]
      <3>2. new \in Seq(MessageType) /\ Len(new) \in Nat
        BY DEF MessageType
      <3>3. log \in [Partition -> Seq(MessageType)]
        BY DEF WorkerInv, ShapeOK
      <3>5. log' = [log EXCEPT ![p] = log[p] \o new]
        BY <3>1, <3>3
      <3> HIDE DEF new
      <3>4. log[p] \o new \in Seq(MessageType) /\ Len(log[p] \o new) = Len(log[p]) + Len(new)
        <4>1. log[p] \in Seq(MessageType)
          BY <3>3
        <4> QED BY <3>2, <4>1, ConcatProperties
      <3>6. \A q \in Partition : log'[q] = IF q = p THEN log[p] \o new ELSE log[q]
        BY <3>3, <3>5
      <3>7. log' \in [Partition -> Seq(MessageType)]
        BY <3>3, <3>4, <3>5
      <3>8. \A q \in Partition : Len(log[q]) \in Nat
        BY <3>3
      <3> QED BY <3>2, <3>4, <3>6, <3>7, <3>8
    <2> QED BY <2>1, <2>2
  <1> QED BY <1>1, <1>2, Untouched DEF WorkerInv, ShapeOK, sameRun

\* Whoever gets a partition starts at the committed offset: nothing is delivered yet.
LEMMA AssignOK ==
    ASSUME WorkerInv, assignTo(polling), UNCHANGED <<log, committed, workers, ended>>
    PROVE  WorkerInv'
  <1> USE DEF WorkerInv
  <1>1. position' = committed /\ owner' \in [Partition -> Worker \cup {Nil}]
    BY DEF assignTo, polling
  <1>2. ShapeOK'
    BY <1>1 DEF ShapeOK
  <1>3. OffsetsOK'
    BY <1>1 DEF OffsetsOK, ShapeOK
  <1>4. DeliveredWasRun'
    <2> SUFFICES ASSUME NEW p \in Partition, NEW offset \in 0 .. (committed[p] - 1)
                 PROVE  hasEnded(p, offset)
      BY <1>1 DEF DeliveredWasRun, hasEnded
    <2> QED BY DEF DeliveredWasRun, OffsetsOK, ShapeOK
  <1> QED BY <1>2, <1>3, <1>4

LEMMA LeaveOK ==
    ASSUME WorkerInv, NEW w \in Worker, leave(w)
    PROVE  WorkerInv'
  <1> USE DEF WorkerInv
  <1>1. /\ UNCHANGED <<log, committed, ended>>
        /\ workers' = [workers EXCEPT ![w] = Down]
        /\ owner' = [p \in Partition |-> IF owner[p] = w THEN Nil ELSE owner[p]]
        /\ position' = [p \in Partition |-> IF owner[p] = w THEN committed[p] ELSE position[p]]
    BY DEF leave
  <1>2. ShapeOK'
    <2>1. Down \in WorkerType /\ Down.pc = "down"
      BY StartedOK
    <2>2. workers' \in [Worker -> WorkerType]
      BY <1>1, <2>1 DEF ShapeOK
    <2>3. \A v \in Worker : workers'[v].pc = "run" => workers'[v].part \in Partition
      BY <1>1, <2>1 DEF ShapeOK
    <2> QED BY <1>1, <2>2, <2>3 DEF ShapeOK
  <1>3. OffsetsOK'
    BY <1>1 DEF OffsetsOK, ShapeOK
  <1>4. DeliveredWasRun'
    <2> SUFFICES ASSUME NEW p \in Partition, NEW offset \in 0 .. (position'[p] - 1)
                 PROVE  hasEnded(p, offset) \/ (offset >= committed[p] /\ isRunning(p, offset)')
      BY <1>1 DEF DeliveredWasRun, hasEnded
    <2>1. CASE owner[p] = w
      <3>1. offset \in 0 .. (position[p] - 1) /\ ~(offset >= committed[p])
        BY <1>1, <2>1 DEF OffsetsOK, ShapeOK
      <3> QED BY <3>1 DEF DeliveredWasRun
    <2>2. CASE owner[p] # w
      <3>1. offset \in 0 .. (position[p] - 1) /\ owner'[p] = owner[p]
        BY <1>1, <2>2
      <3>2. isRunning(p, offset) => isRunning(p, offset)'
        BY <1>1, <2>2, <3>1 DEF isRunning, ShapeOK
      <3> QED BY <3>1, <3>2 DEF DeliveredWasRun
    <2> QED BY <2>1, <2>2
  <1> QED BY <1>2, <1>3, <1>4

\* A worker takes a message only when it has ended the one before.
LEMMA DeliverOK ==
    ASSUME WorkerInv, NEW w \in Worker, NEW p \in Partition, deliver(w, p)
    PROVE  WorkerInv'
  <1> USE DEF WorkerInv
  <1>1. /\ workers[w].pc = "poll" /\ owner[p] = w /\ position[p] < Len(log[p])
        /\ workers' = [workers EXCEPT ![w].pc = "run", ![w].part = p, ![w].offset = position[p],
                                      ![w].ticker = 1, ![w].stored = FALSE]
        /\ position' = [position EXCEPT ![p] = @ + 1]
        /\ UNCHANGED <<log, committed, owner, ended>>
    BY DEF deliver
  <1>2. /\ workers'[w].pc = "run" /\ workers'[w].part = p /\ workers'[w].offset = position[p]
        /\ \A v \in Worker : v # w => workers'[v] = workers[v]
    BY <1>1 DEF ShapeOK, WorkerType
  <1>3. ShapeOK'
    <2>1. workers' \in [Worker -> WorkerType]
      <3>1. 1 \in 0 .. Tickers + 1 /\ position[p] \in Nat
        BY WorkerAssumption DEF ShapeOK
      <3>2. workers[w] \in WorkerType
        BY DEF ShapeOK
      <3>3. [workers[w] EXCEPT !.pc = "run", !.part = p, !.offset = position[p], !.ticker = 1,
                               !.stored = FALSE] \in WorkerType
        BY <3>1, <3>2 DEF WorkerType
      <3>4. workers' = [workers EXCEPT ![w] =
                           [workers[w] EXCEPT !.pc = "run", !.part = p, !.offset = position[p],
                                              !.ticker = 1, !.stored = FALSE]]
        BY <1>1
      <3> QED BY <3>3, <3>4 DEF ShapeOK
    <2>2. position' \in [Partition -> Nat]
      BY <1>1 DEF ShapeOK
    <2> QED BY <1>1, <1>2, <2>1, <2>2 DEF ShapeOK
  <1>4. OffsetsOK'
    BY <1>1 DEF OffsetsOK, ShapeOK
  <1>5. DeliveredWasRun'
    <2> SUFFICES ASSUME NEW q \in Partition, NEW offset \in 0 .. (position'[q] - 1)
                 PROVE  hasEnded(q, offset) \/ (offset >= committed[q] /\ isRunning(q, offset)')
      BY <1>1 DEF DeliveredWasRun, hasEnded
    <2>1. CASE q = p /\ offset = position[p]
      BY <1>1, <1>2, <2>1 DEF isRunning, OffsetsOK
    <2>2. CASE offset \in 0 .. (position[q] - 1)
      <3>1. isRunning(q, offset) => isRunning(q, offset)'
        BY <1>1, <1>2 DEF isRunning
      <3> QED BY <2>2, <3>1 DEF DeliveredWasRun
    <2>3. offset \in 0 .. (position[q] - 1) \/ (q = p /\ offset = position[p])
      BY <1>1 DEF ShapeOK
    <2> QED BY <2>1, <2>2, <2>3
  <1> QED BY <1>3, <1>4, <1>5

\* The run of a message ends; a commit covers what is delivered of the worker's partitions,
\* all of which has now been run.
LEMMA DispatchReturnsOK ==
    ASSUME WorkerInv, NEW w \in Worker, dispatchReturns(w)
    PROVE  WorkerInv'
  <1> USE DEF WorkerInv
  <1>1. /\ workers[w].pc = "run" /\ UNCHANGED <<log, owner, position>>
        /\ \E ok \in BOOLEAN : ended' = ended \cup {endOf(w, ok)}
        /\ workers' = [workers EXCEPT ![w] = waiting(w)]
        /\ \/ committed' = committed
           \/ committed' = [p \in Partition |-> IF owner[p] = w THEN position[p]
                                                ELSE committed[p]]
    BY DEF dispatchReturns, commit, fail
  <1>2. waiting(w) \in WorkerType /\ waiting(w).pc = "poll"
    <2>1. workers[w].running \in BOOLEAN
      BY DEF ShapeOK, WorkerType
    <2> QED BY <2>1, StartedOK DEF waiting, WorkerType
  <1>3. /\ committed' \in [Partition -> Nat]
        /\ \A p \in Partition : \/ committed'[p] = committed[p]
                                \/ owner[p] = w /\ committed'[p] = position[p]
    BY <1>1 DEF ShapeOK
  <1>4. ShapeOK'
    <2>1. workers' \in [Worker -> WorkerType]
      BY <1>1, <1>2 DEF ShapeOK
    <2>2. \A v \in Worker : workers'[v].pc = "run" => workers'[v].part \in Partition
      BY <1>1, <1>2 DEF ShapeOK
    <2>3. ended' \subseteq EndType
      BY <1>1 DEF ShapeOK, WorkerType, endOf, EndType
    <2> QED BY <1>1, <1>3, <2>1, <2>2, <2>3 DEF ShapeOK
  <1>5. OffsetsOK'
    BY <1>1, <1>3 DEF OffsetsOK, ShapeOK
  <1>6. DeliveredWasRun'
    <2> SUFFICES ASSUME NEW p \in Partition, NEW offset \in 0 .. (position[p] - 1)
                 PROVE  hasEnded(p, offset)' \/ (offset >= committed'[p] /\ isRunning(p, offset)')
      BY <1>1 DEF DeliveredWasRun
    <2>1. CASE hasEnded(p, offset)
      BY <1>1, <2>1 DEF hasEnded
    <2>2. CASE offset >= committed[p] /\ isRunning(p, offset)
      <3>1. PICK v \in Worker : /\ owner[p] = v /\ workers[v].pc = "run"
                                /\ workers[v].part = p /\ workers[v].offset = offset
        BY <2>2 DEF isRunning
      <3>2. CASE v = w
        <4>1. PICK ok \in BOOLEAN : ended' = ended \cup {endOf(w, ok)}
          BY <1>1
        <4>2. endOf(w, ok).part = p /\ endOf(w, ok).offset = offset
          BY <3>1, <3>2 DEF endOf
        <4>3. endOf(w, ok) \in ended'
          BY <4>1
        <4> QED BY <4>2, <4>3 DEF hasEnded
      <3>3. CASE v # w
        <4>1. workers'[v] = workers[v] /\ committed'[p] = committed[p]
          BY <1>1, <1>3, <3>1, <3>3 DEF ShapeOK
        <4> QED BY <1>1, <2>2, <3>1, <4>1 DEF isRunning
      <3> QED BY <3>2, <3>3
    <2> QED BY <2>1, <2>2 DEF DeliveredWasRun
  <1> QED BY <1>4, <1>5, <1>6

\* The worker starts, goes on to the next ticker or is asked to stop.
LEMMA OwnStepOK ==
    ASSUME WorkerInv, NEW w \in Worker, start(w) \/ nextTicker(w) \/ stop(w)
    PROVE  WorkerInv'
  <1> USE DEF WorkerInv
  <1>1. UNCHANGED <<log, committed, owner, position, ended>>
    BY DEF start, nextTicker, stop, brokerVars
  <1>2. /\ workers' \in [Worker -> WorkerType]
        /\ \A v \in Worker : sameRun(v)
    <2>1. CASE start(w)
      BY <2>1, StartedOK DEF start, ShapeOK, sameRun
    <2>2. CASE stop(w)
      <3>1. workers' = [workers EXCEPT ![w].running = FALSE]
        BY <2>2 DEF stop
      <3> QED BY ZenonT(60), <3>1 DEF ShapeOK, WorkerType, sameRun
    <2>3. CASE nextTicker(w)
      <3>1. workers[w].ticker \in 0 .. Tickers
        BY <2>3, WorkerAssumption DEF nextTicker, ShapeOK, WorkerType
      <3>2. PICK b \in BOOLEAN :
                workers' = [workers EXCEPT ![w] = [workers[w] EXCEPT !.ticker = @ + 1, !.stored = b]]
        <4>1. /\ workers \in [Worker -> WorkerType] /\ workers[w].stored \in BOOLEAN
              /\ workers[w] = [workers[w] EXCEPT !.stored = workers[w].stored]
          BY DEF ShapeOK, WorkerType
        <4>2. CASE workers' = [workers EXCEPT ![w].ticker = workers[w].ticker + 1, ![w].stored = TRUE]
          BY <4>1, <4>2
        <4>3. CASE workers' = [workers EXCEPT ![w].ticker = workers[w].ticker + 1]
          <5>1. [workers[w] EXCEPT !.ticker = @ + 1] =
                    [workers[w] EXCEPT !.ticker = @ + 1, !.stored = workers[w].stored]
            BY <4>1 DEF WorkerType
          <5> QED BY <4>1, <4>3, <5>1
        <4> QED BY <2>3, <4>2, <4>3 DEF nextTicker
      <3>3. workers[w].ticker + 1 \in 0 .. Tickers + 1 /\ workers[w] \in WorkerType
        BY <3>1, WorkerAssumption DEF ShapeOK
      <3> DEFINE r == [workers[w] EXCEPT !.ticker = @ + 1, !.stored = b]
      <3>4. /\ r \in WorkerType
            /\ r.pc = workers[w].pc /\ r.part = workers[w].part /\ r.offset = workers[w].offset
        BY <3>2, <3>3 DEF WorkerType
      <3>5. workers' = [workers EXCEPT ![w] = r]
        BY <3>2
      <3> HIDE DEF r
      <3>6. /\ workers' \in [Worker -> WorkerType] /\ workers'[w] = r
            /\ \A v \in Worker : v # w => workers'[v] = workers[v]
        BY <3>4, <3>5 DEF ShapeOK
      <3> QED BY <3>4, <3>6 DEF sameRun
    <2> QED BY <2>1, <2>2, <2>3
  <1>3. /\ log' \in [Partition -> Seq(MessageType)]
        /\ \A p \in Partition : Len(log[p]) <= Len(log'[p])
    BY <1>1 DEF ShapeOK
  <1> QED BY <1>1, <1>2, <1>3, Untouched

\* What a worker does by itself or what happens to it
workerStep(w) ==
    \/ start(w) \/ join(w)
    \/ \E p \in Partition : deliver(w, p) \/ undecodable(w, p)
    \/ nextTicker(w) \/ dispatchReturns(w)
    \/ stop(w) \/ runReturns(w) \/ crash(w)

LEMMA NextCases ==
    ASSUME [Next]_vars
    PROVE  \/ \E kind \in Kinds : Execute(kind)
           \/ \E w \in Worker : workerStep(w)
           \/ rebalance \/ clock \/ UNCHANGED vars
  BY DEF Next, workerStep

LEMMA WorkerFrame ==
    ASSUME NEW w \in Worker, workerStep(w)
    PROVE  /\ UNCHANGED <<now, brokers, reported>>
           /\ failures' = failures \/ failures' = failures + 1
  <1>1. CASE start(w) \/ join(w)
    BY <1>1 DEF start, join
  <1>2. ASSUME NEW p \in Partition, deliver(w, p) \/ undecodable(w, p)
        PROVE  UNCHANGED <<now, brokers, reported, failures>>
    BY <1>2 DEF deliver, undecodable, leave
  <1>3. CASE nextTicker(w) \/ dispatchReturns(w)
    BY <1>3 DEF nextTicker, dispatchReturns
  <1>4. CASE stop(w) \/ runReturns(w) \/ crash(w)
    BY <1>4 DEF stop, runReturns, crash, leave
  <1> QED BY <1>1, <1>2, <1>3, <1>4 DEF workerStep

ReportedOK == reported \in Seq({"nil", "error"})

LEMMA ReportedNext == ReportedOK /\ [Next]_vars => ReportedOK'
  <1> SUFFICES ASSUME ReportedOK, [Next]_vars PROVE ReportedOK'
    OBVIOUS
  <1>1. CASE UNCHANGED reported
    BY <1>1 DEF ReportedOK
  <1>2. ASSUME NEW kind \in Kinds, Execute(kind) PROVE ReportedOK'
    <2>1. \E err \in {"nil", "error"} : reported' = Append(reported, err)
      BY <1>2 DEF Execute
    <2> QED BY <2>1 DEF ReportedOK
  <1>3. CASE rebalance \/ clock \/ UNCHANGED vars
    BY <1>1, <1>3 DEF rebalance, clock, vars
  <1>4. ASSUME NEW w \in Worker, workerStep(w) PROVE ReportedOK'
    BY <1>1, <1>4, WorkerFrame
  <1> QED BY <1>2, <1>3, <1>4, NextCases

LEMMA WorkerNextOK == ReportedOK /\ WorkerInv /\ [Next]_vars => WorkerInv'
  <1> SUFFICES ASSUME ReportedOK, WorkerInv, [Next]_vars PROVE WorkerInv'
    OBVIOUS
  <1>1. CASE UNCHANGED <<brokerVars, workers, ended>>
    <2>1. UNCHANGED <<log, committed, owner, position, workers, ended>>
      BY <1>1 DEF brokerVars
    <2> QED BY <2>1 DEF WorkerInv, ShapeOK, OffsetsOK, DeliveredWasRun, hasEnded, isRunning
  <1>2. ASSUME NEW kind \in Kinds, Execute(kind) PROVE WorkerInv'
    BY <1>2, ExecuteOK DEF ReportedOK
  <1>3. ASSUME NEW w \in Worker, rebalance \/ join(w) PROVE WorkerInv'
    BY <1>3, AssignOK DEF rebalance, join
  <1>4. CASE rebalance
    BY <1>4, AssignOK DEF rebalance
  <1>5. ASSUME NEW w \in Worker, NEW p \in Partition, undecodable(w, p) PROVE WorkerInv'
    BY <1>5, LeaveOK DEF undecodable
  <1>6. ASSUME NEW w \in Worker, runReturns(w) \/ crash(w) PROVE WorkerInv'
    BY <1>6, LeaveOK DEF runReturns, crash
  <1>7. CASE clock \/ UNCHANGED vars
    BY <1>1, <1>7 DEF clock, vars
  <1> QED
    BY <1>2, <1>3, <1>4, <1>5, <1>6, <1>7, DeliverOK, DispatchReturnsOK, OwnStepOK DEF Next

\* The group never commits past a message that no worker has run to an end, whatever
\* crashes, stops, redeliveries and changes in the group come between.
THEOREM NothingSkippedUnrun == Spec => []CommittedWasRun
  <1>1. Init => ReportedOK
    BY DEF Init, ReportedOK
  <1>2. WorkerInv => CommittedWasRun
    <2> SUFFICES ASSUME WorkerInv, NEW p \in Partition, NEW offset \in 0 .. (committed[p] - 1)
                 PROVE  \E o \in ended : o.part = p /\ o.offset = offset
      BY DEF CommittedWasRun
    <2>1. hasEnded(p, offset)
      BY SMTT(60) DEF WorkerInv, DeliveredWasRun, OffsetsOK, ShapeOK
    <2> QED BY <2>1 DEF hasEnded
  <1> QED BY <1>1, <1>2, ReportedNext, WorkerInitOK, WorkerNextOK, PTL DEF Spec

-----------------------------------------------------------------------------
(* The rows of the database *)

RowType == [table : JobKinds, time : Int, key : (0 .. Tickers) \X Int]

\* Among the rows rs is one of the job of the message at offset of partition p of the logs lg.
hasRow(rs, lg, p, offset) == \E r \in rs : r.table = lg[p][offset + 1].kind

\* A worker that counts a ticker as stored has a row to show for it.
RunningInv ==
    \A w \in Worker : workers[w].pc = "run" =>
        /\ workers[w].offset < Len(log[workers[w].part])
        /\ workers[w].stored => hasRow(rows, log, workers[w].part, workers[w].offset)

EndedInv ==
    \A o \in ended : /\ o.offset < Len(log[o.part])
                     /\ o.ok => hasRow(rows, log, o.part, o.offset)

RowInv == now \in Nat /\ rows \subseteq RowType /\ RunningInv /\ EndedInv

LEMMA RowTimesOK ==
    ASSUME NEW kind \in JobKinds, now \in Nat
    PROVE  rowTimes(kind) \subseteq Int
  BY DEF rowTimes, bars, minute_timestamp, minute_bucket, JobKinds

\* Nothing is taken out of a log or of a table.
kept ==
    /\ rows \subseteq rows'
    /\ \A p \in Partition :
          /\ Len(log[p]) \in Nat /\ Len(log'[p]) \in Nat /\ Len(log[p]) <= Len(log'[p])
          /\ \A k \in 1 .. Len(log[p]) : log'[p][k] = log[p][k]

LEMMA MessageKept ==
    ASSUME kept, NEW p \in Partition, NEW offset \in Nat, offset < Len(log[p])
    PROVE  /\ offset < Len(log'[p])
           /\ hasRow(rows, log, p, offset) => hasRow(rows', log', p, offset)
  <1>1. offset < Len(log'[p]) /\ log'[p][offset + 1] = log[p][offset + 1]
    BY DEF kept
  <1> QED BY <1>1 DEF kept, hasRow

LEMMA EndedKept ==
    ASSUME WorkerInv, EndedInv, kept, NEW o \in ended
    PROVE  o.offset < Len(log'[o.part]) /\ (o.ok => hasRow(rows', log', o.part, o.offset))
  <1>1. o.part \in Partition /\ o.offset \in Nat
    BY DEF WorkerInv, ShapeOK, EndType
  <1>2. o.offset < Len(log[o.part]) /\ (o.ok => hasRow(rows, log, o.part, o.offset))
    BY DEF EndedInv
  <1> QED BY <1>1, <1>2, MessageKept

\* A worker goes on with its message: what it counts as stored it had before, or stores now.
LEMMA RunKept ==
    ASSUME WorkerInv, RunningInv, kept, NEW w \in Worker, workers[w].pc = "run",
           workers'[w].part = workers[w].part, workers'[w].offset = workers[w].offset,
           workers'[w].stored => \/ workers[w].stored
                                 \/ hasRow(rows', log', workers[w].part, workers[w].offset)
    PROVE  /\ workers'[w].offset < Len(log'[workers'[w].part])
           /\ workers'[w].stored => hasRow(rows', log', workers'[w].part, workers'[w].offset)
  <1>1. workers[w].part \in Partition /\ workers[w].offset \in Nat
    BY DEF WorkerInv, ShapeOK, WorkerType
  <1>2. /\ workers[w].offset < Len(log[workers[w].part])
        /\ workers[w].stored => hasRow(rows, log, workers[w].part, workers[w].offset)
    BY DEF RunningInv
  <1>3. /\ workers[w].offset < Len(log'[workers[w].part])
        /\ hasRow(rows, log, workers[w].part, workers[w].offset)
              => hasRow(rows', log', workers[w].part, workers[w].offset)
    BY <1>1, <1>2, MessageKept
  <1> QED BY <1>2, <1>3

\* Steps that take no message, store nothing and end no run
LEMMA RowsUntouched ==
    ASSUME WorkerInv, RowInv, kept, now' \in Nat, rows' \subseteq RowType, ended' = ended,
           \A w \in Worker : workers'[w].pc = "run" =>
               /\ workers[w].pc = "run" /\ workers'[w].part = workers[w].part
               /\ workers'[w].offset = workers[w].offset
               /\ workers'[w].stored => workers[w].stored
    PROVE  RowInv'
  <1>1. RunningInv'
    BY RunKept DEF RowInv, RunningInv
  <1>2. EndedInv'
    BY EndedKept DEF RowInv, EndedInv
  <1> QED BY <1>1, <1>2 DEF RowInv

LEMMA RowsNextTicker ==
    ASSUME WorkerInv, RowInv, NEW w \in Worker, nextTicker(w)
    PROVE  RowInv'
  <1> DEFINE kind == messageAt(workers[w].part, workers[w].offset).kind
             ticker == workers[w].ticker
  <1>1. /\ UNCHANGED <<now, log, ended>> /\ workers[w].pc = "run" /\ kind \in JobKinds
        /\ ticker <= Tickers
        /\ rows' = rows \/ upsert(kind, ticker)
    BY DEF nextTicker, brokerVars
  <1>2. \/ /\ upsert(kind, ticker)
           /\ workers' = [workers EXCEPT ![w].ticker = ticker + 1, ![w].stored = TRUE]
        \/ workers' = [workers EXCEPT ![w].ticker = ticker + 1]
    BY DEF nextTicker
  <1>3. ticker \in 0 .. Tickers
    BY <1>1, WorkerAssumption DEF WorkerInv, ShapeOK, WorkerType
  <1>4. ASSUME upsert(kind, ticker)
        PROVE  /\ rows \subseteq rows' /\ rows' \subseteq RowType
               /\ hasRow(rows', log', workers[w].part, workers[w].offset)
    <2>1. PICK time \in rowTimes(kind) :
              rows' = rows \cup {[table |-> kind, time |-> time, key |-> <<ticker, time \div 2>>]}
      BY <1>4 DEF upsert, minute_bucket
    <2>2. time \in Int
      BY <1>1, RowTimesOK DEF RowInv
    <2>3. kind = log'[workers[w].part][workers[w].offset + 1].kind
      BY <1>1 DEF messageAt
    <2> DEFINE row == [table |-> kind, time |-> time, key |-> <<ticker, time \div 2>>]
    <2> HIDE DEF kind, ticker
    <2>4. row \in RowType /\ row.table = kind
      BY <1>1, <1>3, <2>2 DEF RowType
    <2> HIDE DEF row
    <2>5. rows' = rows \cup {row}
      BY <2>1 DEF row
    <2> QED BY <2>3, <2>4, <2>5 DEF hasRow, RowInv
  <1> HIDE DEF kind, ticker
  <1>5. kept /\ rows' \subseteq RowType
    <2>1. rows \subseteq rows' /\ rows' \subseteq RowType
      BY <1>1, <1>4 DEF RowInv
    <2> QED BY <1>1, <2>1 DEF kept, WorkerInv, ShapeOK
  <1>6. /\ workers'[w].part = workers[w].part /\ workers'[w].offset = workers[w].offset
        /\ workers'[w].stored => \/ workers[w].stored
                                 \/ hasRow(rows', log', workers[w].part, workers[w].offset)
        /\ \A v \in Worker : v # w => workers'[v] = workers[v]
    <2>1. workers \in [Worker -> WorkerType]
      BY DEF WorkerInv, ShapeOK
    <2>2. CASE /\ upsert(kind, ticker)
               /\ workers' = [workers EXCEPT ![w].ticker = ticker + 1, ![w].stored = TRUE]
      BY <1>4, <2>1, <2>2 DEF WorkerType
    <2>3. CASE workers' = [workers EXCEPT ![w].ticker = ticker + 1]
      BY <2>1, <2>3 DEF WorkerType
    <2> QED BY <1>2, <2>2, <2>3
  <1>7. RunningInv'
    <2> SUFFICES ASSUME NEW v \in Worker, workers'[v].pc = "run"
                 PROVE  /\ workers'[v].offset < Len(log'[workers'[v].part])
                        /\ workers'[v].stored =>
                              hasRow(rows', log', workers'[v].part, workers'[v].offset)
      BY DEF RunningInv
    <2>1. CASE v = w
      BY <1>1, <1>5, <1>6, <2>1, RunKept DEF RowInv
    <2>2. CASE v # w
      BY <1>5, <1>6, <2>2, RunKept DEF RowInv
    <2> QED BY <2>1, <2>2
  <1>8. EndedInv'
    BY <1>1, <1>5, EndedKept DEF RowInv, EndedInv
  <1> QED BY <1>1, <1>5, <1>7, <1>8 DEF RowInv

\* A worker takes a message of the log, with nothing stored for it yet.
LEMMA RowsDeliver ==
    ASSUME WorkerInv, RowInv, NEW w \in Worker, NEW p \in Partition, deliver(w, p)
    PROVE  RowInv'
  <1>1. /\ UNCHANGED <<now, log, rows, ended>> /\ position[p] < Len(log[p])
        /\ workers' = [workers EXCEPT ![w].pc = "run", ![w].part = p, ![w].offset = position[p],
                                      ![w].ticker = 1, ![w].stored = FALSE]
    BY DEF deliver
  <1>2. /\ workers'[w].part = p /\ workers'[w].offset = position[p] /\ workers'[w].stored = FALSE
        /\ \A v \in Worker : v # w => workers'[v] = workers[v]
    BY <1>1 DEF WorkerInv, ShapeOK, WorkerType
  <1>3. RunningInv'
    BY <1>1, <1>2 DEF RowInv, RunningInv
  <1>4. EndedInv'
    BY <1>1 DEF RowInv, EndedInv
  <1> QED BY <1>1, <1>3, <1>4 DEF RowInv

\* A run ends well only when something was stored.
LEMMA RowsDispatchReturns ==
    ASSUME WorkerInv, RowInv, NEW w \in Worker, dispatchReturns(w)
    PROVE  RowInv'
  <1>1. /\ workers[w].pc = "run" /\ UNCHANGED <<now, log, rows>>
        /\ \/ ended' = ended \cup {endOf(w, TRUE)} /\ workers[w].stored
           \/ ended' = ended \cup {endOf(w, FALSE)}
        /\ workers' = [workers EXCEPT ![w] = waiting(w)]
    BY DEF dispatchReturns, commit, fail
  <1>2. waiting(w).pc = "poll"
    <2>1. workers[w].running \in BOOLEAN
      BY DEF WorkerInv, ShapeOK, WorkerType
    <2> QED BY <2>1, StartedOK DEF waiting, WorkerType
  <1>3. RunningInv'
    <2>1. \A v \in Worker : workers'[v].pc = "run" => workers'[v] = workers[v]
      BY <1>1, <1>2 DEF WorkerInv, ShapeOK
    <2> QED BY <1>1, <2>1 DEF RowInv, RunningInv
  <1>4. EndedInv'
    <2>1. \A ok \in BOOLEAN :
              /\ endOf(w, ok).part = workers[w].part /\ endOf(w, ok).offset = workers[w].offset
              /\ endOf(w, ok).ok = ok
      BY DEF endOf
    <2>2. /\ workers[w].offset < Len(log[workers[w].part])
          /\ workers[w].stored => hasRow(rows, log, workers[w].part, workers[w].offset)
      BY <1>1 DEF RowInv, RunningInv
    <2>3. CASE ended' = ended \cup {endOf(w, TRUE)} /\ workers[w].stored
      BY <1>1, <2>1, <2>2, <2>3 DEF RowInv, EndedInv
    <2>4. CASE ended' = ended \cup {endOf(w, FALSE)}
      BY <1>1, <2>1, <2>2, <2>4 DEF RowInv, EndedInv
    <2> QED BY <1>1, <2>3, <2>4
  <1> QED BY <1>1, <1>3, <1>4 DEF RowInv

\* The worker starts, leaves or is asked to stop.
LEMMA RowsOwnStep ==
    ASSUME WorkerInv, RowInv, NEW w \in Worker, start(w) \/ stop(w) \/ leave(w), now' = now
    PROVE  RowInv'
  <1>1. UNCHANGED <<log, rows, ended>>
    BY DEF start, stop, leave, brokerVars
  <1>2. kept
    BY <1>1 DEF kept, WorkerInv, ShapeOK
  <1>3. \A v \in Worker : workers'[v].pc = "run" =>
            /\ workers[v].pc = "run" /\ workers'[v].part = workers[v].part
            /\ workers'[v].offset = workers[v].offset
            /\ workers'[v].stored => workers[v].stored
    <2>1. workers \in [Worker -> WorkerType]
      BY DEF WorkerInv, ShapeOK
    <2>2. CASE start(w) \/ leave(w)
      BY <2>1, <2>2, StartedOK DEF start, leave
    <2>3. CASE stop(w)
      <3>1. workers' = [workers EXCEPT ![w].running = FALSE]
        BY <2>3 DEF stop
      <3>2. /\ workers'[w].pc = workers[w].pc /\ workers'[w].part = workers[w].part
            /\ workers'[w].offset = workers[w].offset /\ workers'[w].stored = workers[w].stored
        BY <2>1, <3>1 DEF WorkerType
      <3>3. \A v \in Worker : v # w => workers'[v] = workers[v]
        BY <2>1, <3>1
      <3> QED BY <3>2, <3>3
    <2> QED BY <2>2, <2>3
  <1> QED BY <1>1, <1>2, <1>3, RowsUntouched DEF RowInv

LEMMA RowsExecute ==
    ASSUME WorkerInv, WorkerInv', RowInv, ReportedOK, NEW kind \in Kinds, Execute(kind)
    PROVE  RowInv'
  <1>1. UNCHANGED <<now, rows, workers, ended>>
    BY DEF Execute
  <1>2. /\ log \in [Partition -> Seq(MessageType)] /\ log' \in [Partition -> Seq(MessageType)]
        /\ \A p \in Partition : Len(log[p]) \in Nat /\ Len(log'[p]) \in Nat
    BY DEF WorkerInv, ShapeOK
  <1>3. \A p \in Partition : /\ Len(log[p]) <= Len(log'[p])
                             /\ \A k \in 1 .. Len(log[p]) : log'[p][k] = log[p][k]
    <2>1. CASE log' = log
      BY <1>2, <2>1
    <2>2. CASE log' # log
      <3>1. PICK copies \in 0 .. 2, p \in Partition :
                log' = [log EXCEPT ![p] = @ \o [k \in 1 .. copies |->
                           [firing |-> Len(reported) + 1, kind |-> kind]]]
        BY <2>2 DEF Execute
      <3> DEFINE new == [k \in 1 .. copies |-> [firing |-> Len(reported) + 1, kind |-> kind]]
      <3>2. new \in Seq(MessageType) /\ Len(new) \in Nat
        BY DEF MessageType, ReportedOK
      <3>3. \A q \in Partition : log'[q] = IF q = p THEN log[p] \o new ELSE log[q]
        BY <1>2, <3>1
      <3> HIDE DEF new
      <3>4. /\ Len(log[p] \o new) = Len(log[p]) + Len(new)
            /\ \A k \in 1 .. Len(log[p]) : (log[p] \o new)[k] = log[p][k]
        <4>1. log[p] \in Seq(MessageType)
          BY <1>2
        <4> QED BY <3>2, <4>1, ConcatProperties
      <3> QED BY <1>2, <3>2, <3>3, <3>4
    <2> QED BY <2>1, <2>2
  <1>4. kept
    BY <1>1, <1>2, <1>3 DEF kept
  <1> QED BY <1>1, <1>4, RowsUntouched DEF RowInv

LEMMA RowsNext == WorkerInv /\ WorkerInv' /\ ReportedOK /\ RowInv /\ [Next]_vars => RowInv'
  <1> SUFFICES ASSUME WorkerInv, WorkerInv', ReportedOK, RowInv, [Next]_vars PROVE RowInv'
    OBVIOUS
  <1>1. ASSUME UNCHANGED <<log, rows, workers, ended>>, now' \in Nat PROVE RowInv'
    BY <1>1 DEF RowInv, RunningInv, EndedInv
  <1>2. ASSUME NEW kind \in Kinds, Execute(kind) PROVE RowInv'
    BY <1>2, RowsExecute
  <1>3. CASE rebalance \/ clock \/ UNCHANGED vars
    BY <1>1, <1>3 DEF rebalance, clock, vars, brokerVars, RowInv
  <1>4. ASSUME NEW w \in Worker, workerStep(w) PROVE RowInv'
    <2>1. now' = now /\ now' \in Nat
      BY <1>4, WorkerFrame DEF RowInv
    <2>2. CASE start(w) \/ stop(w)
      BY <2>1, <2>2, RowsOwnStep
    <2>3. CASE runReturns(w) \/ crash(w)
      BY <2>1, <2>3, RowsOwnStep DEF runReturns, crash
    <2>4. ASSUME NEW p \in Partition, undecodable(w, p) PROVE RowInv'
      BY <2>1, <2>4, RowsOwnStep DEF undecodable
    <2>5. CASE join(w)
      BY <1>1, <2>1, <2>5 DEF join
    <2> QED BY <1>4, <2>2, <2>3, <2>4, <2>5, RowsNextTicker, RowsDeliver, RowsDispatchReturns
            DEF workerStep
  <1> QED BY <1>2, <1>3, <1>4, NextCases

LEMMA RowInit == Init => RowInv
  BY StartedOK DEF Init, RowInv, RunningInv, EndedInv

\* Whoever else runs a message and whichever tickers fail: a job that ended well, after which
\* alone a worker commits, has left a row.
THEOREM FinishedLeavesRows == Spec => []FinishedLeftRows
  <1>1. Init => ReportedOK
    BY DEF Init, ReportedOK
  <1>2. RowInv => FinishedLeftRows
    BY DEF RowInv, EndedInv, FinishedLeftRows, hasRow, messageAt
  <1> QED BY <1>1, <1>2, ReportedNext, WorkerInitOK, WorkerNextOK, RowInit, RowsNext, PTL DEF Spec

-----------------------------------------------------------------------------
(* Types *)

CountersOK == now \in 0 .. MaxTime /\ brokers \in BOOLEAN /\ failures \in Nat

LEMMA CountersNext == CountersOK /\ [Next]_vars => CountersOK'
  <1> SUFFICES ASSUME CountersOK, [Next]_vars PROVE CountersOK'
    OBVIOUS
  <1>1. ASSUME NEW kind \in Kinds, Execute(kind) PROVE CountersOK'
    BY <1>1 DEF Execute, CountersOK
  <1>2. ASSUME NEW w \in Worker, workerStep(w) PROVE CountersOK'
    BY <1>2, WorkerFrame DEF CountersOK
  <1>3. CASE rebalance \/ UNCHANGED vars
    BY <1>3 DEF rebalance, vars, CountersOK
  <1>4. CASE clock
    BY <1>4, WorkerAssumption DEF clock, CountersOK
  <1> QED BY <1>1, <1>2, <1>3, <1>4, NextCases

\* The shape of the state; no consumer and no committed offset is past the end of its log,
\* and no job past its last ticker, whatever is redelivered.
THEOREM WorkerTypes == Spec => []TypeOK
  <1>1. Init => ReportedOK /\ CountersOK
    BY WorkerAssumption DEF Init, ReportedOK, CountersOK
  <1>2. ReportedOK /\ WorkerInv /\ RowInv /\ CountersOK => TypeOK
    <2> SUFFICES ASSUME ReportedOK, WorkerInv, RowInv, CountersOK PROVE TypeOK
      OBVIOUS
    <2>1. ASSUME NEW p \in Partition
          PROVE  /\ log[p] \in Seq([firing : Nat, kind : Kinds])
                 /\ committed[p] \in 0 .. Len(log[p]) /\ position[p] \in 0 .. Len(log[p])
      <3>1. /\ log[p] \in Seq(MessageType) /\ committed[p] \in Nat /\ position[p] \in Nat
            /\ committed[p] <= position[p] /\ position[p] <= Len(log[p])
        BY DEF WorkerInv, ShapeOK, OffsetsOK
      <3>2. Len(log[p]) \in Nat
        BY <3>1
      <3> QED BY <3>1, <3>2 DEF MessageType
    <2>2. /\ owner \in [Partition -> Worker \cup {Nil}]
          /\ workers \in [Worker -> WorkerType]
          /\ ended \subseteq EndType
      BY DEF WorkerInv, ShapeOK
    <2> QED BY <2>1, <2>2 DEF TypeOK, ReportedOK, CountersOK, WorkerType, EndType, RowInv, RowType
  <1> QED
    BY <1>1, <1>2, ReportedNext, WorkerInitOK, WorkerNextOK, RowInit, RowsNext, CountersNext, PTL
    DEF Spec

=============================================================================
