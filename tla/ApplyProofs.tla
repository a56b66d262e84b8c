---------------------------- MODULE ApplyProofs ----------------------------
(* Proofs about module ApplyPipeline, with any snapshots from leaders. *)
EXTENDS ApplyPipeline, TLAPS

LEMMA MaxOfTwo ==
    ASSUME NEW a \in Nat, NEW b \in Nat
    PROVE  Max({a, b}) \in Nat /\ Max({a, b}) >= a /\ Max({a, b}) >= b
  <1>1. \E x \in {a, b} : \A y \in {a, b} : x >= y
    OBVIOUS
  <1> QED BY <1>1 DEF Max

LEMMA UpToLength ==
    ASSUME NEW n \in Nat
    PROVE  UpTo(n) \in Seq(Nat) /\ Len(UpTo(n)) = n
  BY DEF UpTo

LEMMA UpToZero == UpTo(0) = <<>>
  BY DEF UpTo

LEMMA UpToAppend ==
    ASSUME NEW n \in Nat
    PROVE  Append(UpTo(n), n + 1) = UpTo(n + 1)
  BY DEF UpTo

-----------------------------------------------------------------------------
(* Types *)

LEMMA TypeInit == Init => TypeOK
  BY DEF Init, TypeOK, AtTop, Booting

LEMMA NextCommandType ==
    ASSUME TypeOK, nextCommand
    PROVE  TypeOK'
  <1>1. appliedFloor \in Nat /\ appliedFloor + 1 \in Nat
    BY DEF TypeOK, appliedFloor
  <1>2. UNCHANGED <<commitIndex, lastIncludedIndex, pendingSnapshot, persister, jobs, storeLoop,
                    notified, restarts>>
    BY DEF nextCommand, storeVars
  <1>3. lastApplied' \in Nat /\ applier' \in [pc : {"top", "snapshot", "command", "sent"}, index : Nat]
    BY <1>1 DEF nextCommand, Sending, AtTop
  <1> QED BY <1>2, <1>3 DEF TypeOK

LEMMA TypeNext == TypeOK /\ [Next]_vars => TypeOK'
  <1> SUFFICES ASSUME TypeOK, [Next]_vars PROVE TypeOK'
    OBVIOUS
  <1>1. ASSUME NEW n \in 1 .. MaxIndex, AdvanceCommit(n) PROVE TypeOK'
    BY <1>1, ApplyAssumption DEF AdvanceCommit, storeVars, TypeOK
  <1>2. ASSUME NEW k \in InstallIndexes, InstallSnapshot(k) PROVE TypeOK'
    <2>1. k \in Nat /\ UpTo(k) \in Seq(Nat)
      BY ApplyAssumption, UpToLength
    <2>2. Max({commitIndex, k}) \in Nat /\ Max({lastApplied, k}) \in Nat
      BY <2>1, MaxOfTwo DEF TypeOK
    <2> QED BY <1>2, <2>1, <2>2 DEF InstallSnapshot, storeVars, TypeOK
  <1>3. CASE applyLoop
    <2>1. CASE nextCommand
      BY <2>1, NextCommandType
    <2>2. CASE /\ applier' = Sending("snapshot", pendingSnapshot)
               /\ pendingSnapshot' = 0
               /\ UNCHANGED <<commitIndex, lastApplied, lastIncludedIndex, persister, storeVars,
                              calm, restarts>>
      BY <2>2 DEF Sending, storeVars, TypeOK
    <2> QED BY <1>3, <2>1, <2>2 DEF applyLoop
  <1>4. CASE innerLoop
    BY <1>4, NextCommandType DEF innerLoop
  <1>5. CASE NewStore
    BY <1>5 DEF NewStore, raftVars, Receiving, TypeOK
  <1>6. CASE receiveSnapshot
    <2>1. UpTo(applier.index) \in Seq(Nat)
      BY UpToLength DEF TypeOK
    <2> QED BY <1>6, <2>1 DEF receiveSnapshot, raftVars, AtTop, TypeOK
  <1>7. CASE receiveCommand
    <2>1. jobs' \in Seq(Nat) /\ applier.index \in Nat
      BY <1>7 DEF receiveCommand, TypeOK
    <2> QED BY <1>7, <2>1 DEF receiveCommand, raftVars, Sending, TypeOK
  <1> DEFINE Section == [pc : {"boot", "receive", "snapshot", "notify"}, index : Nat,
                         snap : Seq(Nat)]
  <1>8. CASE takeSnapshot
    <2>1. storeLoop.index \in Nat /\ storeLoop.snap \in Seq(Nat) /\ storeLoop' \in Section
      BY <1>8 DEF takeSnapshot, TypeOK
    <2>2. lastIncludedIndex' \in Nat /\ persister' \in [lastIncludedIndex : Nat, snapshot : Seq(Nat)]
      BY <1>8, <2>1 DEF takeSnapshot, Snapshot, TypeOK
    <2> QED BY <1>8, <2>1, <2>2 DEF takeSnapshot, TypeOK
  <1>9. CASE notifyWaiter
    <2>1. storeLoop.index \in Nat /\ notified' \subseteq Nat
      BY <1>9 DEF notifyWaiter, TypeOK
    <2>2. storeLoop' \in Section
      BY <1>9 DEF notifyWaiter, Receiving
    <2> QED BY <1>9, <2>1, <2>2 DEF notifyWaiter, raftVars, TypeOK
  <1>10. CASE Restart
    BY <1>10 DEF Restart, AtTop, Booting, TypeOK
  <1>11. CASE UNCHANGED vars
    BY <1>11 DEF vars, raftVars, storeVars, TypeOK
  <1> QED BY <1>1, <1>2, <1>3, <1>4, <1>5, <1>6, <1>7, <1>8, <1>9, <1>10, <1>11 DEF Next

\* The indices stay numbers, the snapshots sequences of entries, and the two loops in one of
\* their sections (applyLoop of raft and of the store, NewStore).
THEOREM PipelineTypes == Spec => []TypeOK
  BY TypeInit, TypeNext, PTL DEF Spec

-----------------------------------------------------------------------------
(* Indices *)

\* The indices are numbers, and what applyLoop sends it has counted as applied before:
\* without that, a command that waits on applyCh could come after its own snapshot index.
NumbersOK ==
    /\ commitIndex \in Nat /\ lastApplied \in Nat /\ lastIncludedIndex \in Nat
    /\ pendingSnapshot \in Nat /\ persister.lastIncludedIndex \in Nat
    /\ applier.index \in Nat /\ storeLoop.index \in Nat

SentIsApplied == applier.pc = "command" => applier.index <= lastApplied

IndexInv == NumbersOK /\ SentIsApplied /\ IndicesOrdered

LEMMA IndexInit == Init => IndexInv
  BY DEF Init, IndexInv, NumbersOK, SentIsApplied, IndicesOrdered, AtTop, Booting

LEMMA SnapshotNewer ==
    ASSUME IndexInv, NEW index \in Nat, index <= lastApplied, NEW snap, Snapshot(index, snap)
    PROVE  /\ lastIncludedIndex' \in Nat
           /\ lastIncludedIndex' >= lastIncludedIndex
           /\ lastIncludedIndex' <= lastApplied
           /\ persister'.lastIncludedIndex = lastIncludedIndex'
  BY DEF Snapshot, IndexInv, NumbersOK, IndicesOrdered

LEMMA NextCommandOK ==
    ASSUME IndexInv, nextCommand
    PROVE  IndexInv'
  <1> USE DEF IndexInv, NumbersOK, IndicesOrdered
  <1>1. /\ appliedFloor \in Nat
        /\ appliedFloor >= lastApplied /\ appliedFloor <= commitIndex
    BY DEF appliedFloor
  <1>2. CASE appliedFloor < commitIndex
    BY <1>1, <1>2 DEF nextCommand, Sending, SentIsApplied, storeVars
  <1>3. CASE ~(appliedFloor < commitIndex)
    BY <1>1, <1>3 DEF nextCommand, AtTop, SentIsApplied, storeVars
  <1> QED BY <1>2, <1>3

LEMMA IndexNext == IndexInv /\ [Next]_vars => IndexInv'
  <1> SUFFICES ASSUME IndexInv, [Next]_vars PROVE IndexInv'
    OBVIOUS
  <1> USE DEF IndexInv, NumbersOK, SentIsApplied, IndicesOrdered
  <1>1. ASSUME NEW n \in 1 .. MaxIndex, AdvanceCommit(n) PROVE IndexInv'
    BY <1>1, ApplyAssumption DEF AdvanceCommit, storeVars
  <1>2. ASSUME NEW k \in InstallIndexes, InstallSnapshot(k) PROVE IndexInv'
    <2>1. k \in Nat
      BY ApplyAssumption
    <2>2. /\ Max({commitIndex, k}) \in Nat /\ Max({commitIndex, k}) >= commitIndex
          /\ Max({commitIndex, k}) >= k
      BY <2>1, MaxOfTwo
    <2>3. /\ Max({lastApplied, k}) \in Nat /\ Max({lastApplied, k}) >= lastApplied
          /\ Max({lastApplied, k}) >= k
      BY <2>1, MaxOfTwo
    <2>4. Max({lastApplied, k}) <= Max({commitIndex, k})
      BY <2>1, <2>2 DEF Max
    <2> QED BY <1>2, <2>1, <2>2, <2>3, <2>4 DEF InstallSnapshot, storeVars
  <1>3. CASE applyLoop
    <2>1. CASE nextCommand
      BY <2>1, NextCommandOK
    <2>2. CASE /\ applier' = Sending("snapshot", pendingSnapshot)
               /\ pendingSnapshot' = 0
               /\ UNCHANGED <<commitIndex, lastApplied, lastIncludedIndex, persister, storeVars>>
      BY <2>2 DEF Sending, storeVars
    <2> QED BY <1>3, <2>1, <2>2 DEF applyLoop
  <1>4. CASE innerLoop
    BY <1>4, NextCommandOK DEF innerLoop
  <1>5. CASE NewStore
    BY <1>5 DEF NewStore, raftVars, Receiving
  <1>6. CASE receiveSnapshot
    BY <1>6 DEF receiveSnapshot, raftVars, AtTop
  <1>7. CASE receiveCommand
    BY <1>7 DEF receiveCommand, raftVars, Sending
  <1>8. CASE takeSnapshot
    BY <1>8, SnapshotNewer DEF takeSnapshot
  <1>9. CASE notifyWaiter
    BY <1>9 DEF notifyWaiter, raftVars, Receiving
  <1>10. CASE Restart
    BY <1>10 DEF Restart, AtTop, Booting
  <1>11. CASE UNCHANGED vars
    BY <1>11 DEF vars, raftVars, storeVars
  <1> QED BY <1>1, <1>2, <1>3, <1>4, <1>5, <1>6, <1>7, <1>8, <1>9, <1>10, <1>11 DEF Next

\* applyLoop never runs ahead of commitIndex or behind its own snapshot, however the
\* snapshots of the store and of leaders race with it.
THEOREM IndicesStayOrdered == Spec => []IndicesOrdered
  <1>1. IndexInv => IndicesOrdered
    BY DEF IndexInv
  <1> QED BY <1>1, IndexInit, IndexNext, PTL DEF Spec

\* Snapshot and InstallSnapshot both refuse an outdated snapshot, and nothing else writes
\* one: the index on disk never decreases, whichever of them comes first.
THEOREM SnapshotNeverGoesBack == Spec => SnapshotNeverOlder
  <1>1. IndexInv /\ [Next]_vars =>
            [persister'.lastIncludedIndex >= persister.lastIncludedIndex]_vars
    <2> SUFFICES ASSUME IndexInv, Next
                 PROVE  persister'.lastIncludedIndex >= persister.lastIncludedIndex
      OBVIOUS
    <2> USE DEF IndexInv, NumbersOK, SentIsApplied, IndicesOrdered
    <2>1. CASE UNCHANGED persister
      BY <2>1
    <2>2. ASSUME NEW k \in InstallIndexes, InstallSnapshot(k)
          PROVE  persister'.lastIncludedIndex >= persister.lastIncludedIndex
      BY <2>2, ApplyAssumption DEF InstallSnapshot
    <2>3. CASE takeSnapshot
      BY <2>3, SnapshotNewer DEF takeSnapshot
    <2> QED
      BY <2>1, <2>2, <2>3 DEF Next, AdvanceCommit, applyLoop, innerLoop, nextCommand,
         NewStore, receiveSnapshot, receiveCommand, notifyWaiter, Restart
  <1> QED BY <1>1, IndexInit, IndexNext, PTL DEF Spec, SnapshotNeverOlder

-----------------------------------------------------------------------------
(* The pipeline implements ReplicaStore *)

\* The state of the store and both snapshots are prefixes of the log.
PrefixesOK ==
    /\ jobs \in Seq(Nat) /\ jobs = UpTo(Len(jobs))
    /\ persister.snapshot = UpTo(lastIncludedIndex)
    /\ notified \subseteq 1 .. lastIncludedIndex

\* Where the store is: before it is loaded the disk is as far as applyLoop, but for the
\* command that waits; afterwards at most the newest command is not on disk.
StoreOK ==
    /\ storeLoop.pc \in {"boot", "receive", "snapshot", "notify"}
    /\ storeLoop.pc = "boot" =>
          /\ jobs = <<>> /\ applier.pc # "sent"
          /\ lastIncludedIndex = IF applier.pc = "command" THEN lastApplied - 1 ELSE lastApplied
    /\ storeLoop.pc \in {"receive", "notify"} => Len(jobs) <= lastIncludedIndex
    /\ storeLoop.pc = "snapshot" => Len(jobs) <= lastIncludedIndex + 1 /\ storeLoop.snap = jobs
    /\ storeLoop.pc \in {"snapshot", "notify"} =>
          storeLoop.index = Len(jobs) /\ storeLoop.index # 0

\* Where applyLoop is: what it sends is the next thing the store has to get.
ApplierOK ==
    /\ applier.pc \in {"top", "snapshot", "command", "sent"}
    /\ applier.pc \in {"command", "sent"} => pendingSnapshot = 0
    /\ applier.pc = "command" =>
          /\ applier.index = lastApplied
          /\ storeLoop.pc # "boot" => Len(jobs) = lastApplied - 1
    /\ applier.pc = "sent" => Len(jobs) = lastApplied
    /\ applier.pc = "snapshot" =>
          /\ applier.index \in 1 .. lastIncludedIndex /\ lastIncludedIndex = lastApplied
          /\ Len(jobs) <= applier.index
          /\ storeLoop.pc = "boot" \/ pendingSnapshot = 0 => applier.index = lastIncludedIndex
    /\ applier.pc = "top" /\ pendingSnapshot = 0 /\ storeLoop.pc # "boot" =>
          Len(jobs) = lastApplied
    /\ pendingSnapshot # 0 =>
          /\ pendingSnapshot = lastIncludedIndex /\ lastIncludedIndex = lastApplied
          /\ Len(jobs) <= lastIncludedIndex

CalmInv ==
    /\ commitIndex <= MaxIndex /\ calm \in BOOLEAN
    /\ calm => PrefixesOK /\ StoreOK /\ ApplierOK

LEMMA CalmInit == Init => CalmInv
  BY UpToZero, UpToLength, ApplyAssumption DEF Init, CalmInv, PrefixesOK, StoreOK, ApplierOK,
     AtTop, Booting

LEMMA CalmNextCommand ==
    ASSUME IndexInv, CalmInv, nextCommand,
           applier.pc = "sent" \/ (applier.pc = "top" /\ pendingSnapshot = 0)
    PROVE  CalmInv'
  <1> USE DEF IndexInv, NumbersOK, IndicesOrdered
  <1>1. appliedFloor = lastApplied
    BY DEF appliedFloor
  <1>2. UNCHANGED <<commitIndex, lastIncludedIndex, pendingSnapshot, persister, jobs, storeLoop,
                    notified, calm>>
    BY DEF nextCommand, storeVars
  <1> SUFFICES ASSUME calm PROVE PrefixesOK' /\ StoreOK' /\ ApplierOK'
    BY <1>2 DEF CalmInv
  <1>3. PrefixesOK /\ StoreOK /\ ApplierOK
    BY DEF CalmInv
  <1>4. PrefixesOK'
    BY <1>2, <1>3 DEF PrefixesOK
  <1>5. CASE lastApplied < commitIndex
    <2>1. lastApplied' = lastApplied + 1 /\ applier' = [pc |-> "command", index |-> lastApplied + 1]
      BY <1>1, <1>5 DEF nextCommand, Sending
    <2>2. StoreOK' /\ ApplierOK'
      BY <1>2, <1>3, <2>1 DEF StoreOK, ApplierOK
    <2> QED BY <1>4, <2>2
  <1>6. CASE ~(lastApplied < commitIndex)
    <2>1. lastApplied' = lastApplied /\ applier' = [pc |-> "top", index |-> 0]
      BY <1>1, <1>6 DEF nextCommand, AtTop
    <2>2. StoreOK' /\ ApplierOK'
      BY <1>2, <1>3, <2>1 DEF StoreOK, ApplierOK
    <2> QED BY <1>4, <2>2
  <1> QED BY <1>5, <1>6

\* A snapshot that does not come in between is at least as new as all that was applied.
LEMMA CalmInstall ==
    ASSUME IndexInv, CalmInv, NEW k \in InstallIndexes, InstallSnapshot(k)
    PROVE  CalmInv'
  <1> USE DEF IndexInv, NumbersOK, IndicesOrdered
  <1>1. k \in 1 .. MaxIndex
    BY ApplyAssumption
  <1>2. /\ k > lastIncludedIndex /\ lastIncludedIndex' = k /\ pendingSnapshot' = k
        /\ lastApplied' = Max({lastApplied, k}) /\ commitIndex' = Max({commitIndex, k})
        /\ persister' = [lastIncludedIndex |-> k, snapshot |-> UpTo(k)]
        /\ calm' = (calm /\ ~between)
        /\ UNCHANGED <<applier, jobs, storeLoop, notified>>
    BY DEF InstallSnapshot, storeVars
  <1>3. commitIndex' <= MaxIndex
    BY <1>1, <1>2, ApplyAssumption DEF CalmInv, Max
  <1> SUFFICES ASSUME calm, ~between PROVE PrefixesOK' /\ StoreOK' /\ ApplierOK'
    BY <1>2, <1>3 DEF CalmInv
  <1>4. PrefixesOK /\ StoreOK /\ ApplierOK
    BY DEF CalmInv
  <1>5. applier.pc = "top" \/ (applier.pc = "snapshot" /\ storeLoop.pc # "boot")
    BY <1>4 DEF between, ApplierOK
  <1>6. Len(jobs) \in Nat
    BY <1>4 DEF PrefixesOK
  <1>7. lastApplied <= k /\ Len(jobs) <= k
    BY <1>1, <1>2, <1>4, <1>5, <1>6 DEF StoreOK, ApplierOK, PrefixesOK
  <1>8. lastApplied' = k
    <2>1. Max({lastApplied, k}) \in {lastApplied, k} /\ Max({lastApplied, k}) >= k
      <3>1. \E x \in {lastApplied, k} : \A y \in {lastApplied, k} : x >= y
        BY <1>1
      <3> QED BY <1>1, <3>1 DEF Max
    <2> QED BY <1>1, <1>2, <1>7, <2>1
  <1>9. PrefixesOK'
    BY <1>1, <1>2, <1>4 DEF PrefixesOK
  <1>10. StoreOK'
    BY <1>1, <1>2, <1>4, <1>5, <1>6, <1>7, <1>8 DEF StoreOK
  <1>11. ApplierOK'
    BY <1>1, <1>2, <1>4, <1>5, <1>6, <1>7, <1>8 DEF ApplierOK
  <1> QED BY <1>9, <1>10, <1>11

LEMMA CalmReceive ==
    ASSUME IndexInv, CalmInv, receiveSnapshot \/ receiveCommand
    PROVE  CalmInv'
  <1> USE DEF IndexInv, NumbersOK, IndicesOrdered
  <1>1. UNCHANGED <<commitIndex, lastApplied, lastIncludedIndex, pendingSnapshot, persister,
                    notified, calm>>
    BY DEF receiveSnapshot, receiveCommand, raftVars
  <1> SUFFICES ASSUME calm PROVE PrefixesOK' /\ StoreOK' /\ ApplierOK'
    BY <1>1 DEF CalmInv
  <1>2. PrefixesOK /\ StoreOK /\ ApplierOK
    BY DEF CalmInv
  <1>3. CASE receiveSnapshot
    <2>1. /\ storeLoop.pc = "receive" /\ applier.pc = "snapshot"
          /\ jobs' = UpTo(applier.index) /\ applier' = [pc |-> "top", index |-> 0]
          /\ storeLoop' = storeLoop
      BY <1>3 DEF receiveSnapshot, AtTop
    <2>2. jobs' \in Seq(Nat) /\ Len(jobs') = applier.index
      BY <2>1, UpToLength
    <2>3. PrefixesOK'
      BY <1>1, <1>2, <2>1, <2>2 DEF PrefixesOK
    <2>4. StoreOK'
      BY <1>1, <1>2, <2>1, <2>2 DEF StoreOK, ApplierOK
    <2>5. ApplierOK'
      BY <1>1, <1>2, <2>1, <2>2 DEF ApplierOK
    <2> QED BY <2>3, <2>4, <2>5
  <1>4. CASE receiveCommand
    <2>1. /\ storeLoop.pc = "receive" /\ applier.pc = "command"
          /\ jobs' = Append(jobs, applier.index) /\ applier' = [pc |-> "sent", index |-> 0]
          /\ storeLoop' = [pc |-> "snapshot", index |-> applier.index, snap |-> jobs']
      BY <1>4 DEF receiveCommand, Sending
    <2>2. applier.index = lastApplied /\ Len(jobs) = lastApplied - 1 /\ Len(jobs) \in Nat
      BY <1>2, <2>1 DEF ApplierOK, PrefixesOK
    <2>3. jobs' = UpTo(Len(jobs) + 1)
      <3>1. jobs = UpTo(Len(jobs)) /\ applier.index = Len(jobs) + 1
        BY <1>2, <2>2 DEF PrefixesOK
      <3>2. Append(UpTo(Len(jobs)), Len(jobs) + 1) = UpTo(Len(jobs) + 1)
        BY <2>2, UpToAppend
      <3> QED BY <2>1, <3>1, <3>2
    <2>4. jobs' \in Seq(Nat) /\ Len(jobs') = Len(jobs) + 1
      BY <2>2, <2>3, UpToLength
    <2>5. PrefixesOK'
      BY <1>1, <1>2, <2>3, <2>4 DEF PrefixesOK
    <2>6. StoreOK'
      BY <1>1, <1>2, <2>1, <2>2, <2>4 DEF StoreOK, ApplierOK
    <2>7. ApplierOK'
      BY <1>1, <1>2, <2>1, <2>2, <2>4 DEF ApplierOK
    <2> QED BY <2>5, <2>6, <2>7
  <1> QED BY <1>3, <1>4

LEMMA CalmStore ==
    ASSUME IndexInv, CalmInv, NewStore \/ takeSnapshot \/ notifyWaiter
    PROVE  CalmInv'
  <1> USE DEF IndexInv, NumbersOK, IndicesOrdered
  <1>1. UNCHANGED <<commitIndex, lastApplied, pendingSnapshot, applier, calm>>
    BY DEF NewStore, takeSnapshot, notifyWaiter, raftVars
  <1> SUFFICES ASSUME calm PROVE PrefixesOK' /\ StoreOK' /\ ApplierOK'
    BY <1>1 DEF CalmInv
  <1>2. PrefixesOK /\ StoreOK /\ ApplierOK /\ Len(jobs) \in Nat
    BY DEF CalmInv, PrefixesOK
  <1>3. CASE NewStore
    <2>1. /\ storeLoop.pc = "boot" /\ storeLoop'.pc = "receive"
          /\ jobs' = UpTo(lastIncludedIndex)
          /\ UNCHANGED <<lastIncludedIndex, persister, notified>>
      BY <1>2, <1>3 DEF NewStore, Receiving, raftVars, PrefixesOK
    <2>2. jobs' \in Seq(Nat) /\ Len(jobs') = lastIncludedIndex
      BY <2>1, UpToLength
    <2>3. PrefixesOK'
      BY <1>2, <2>1, <2>2 DEF PrefixesOK
    <2>4. StoreOK'
      BY <1>1, <2>1, <2>2 DEF StoreOK
    <2>5. ApplierOK'
      BY <1>1, <1>2, <2>1, <2>2 DEF ApplierOK, StoreOK
    <2> QED BY <2>3, <2>4, <2>5
  <1>4. CASE takeSnapshot
    <2>1. /\ storeLoop.pc = "snapshot" /\ Snapshot(storeLoop.index, storeLoop.snap)
          /\ storeLoop' = [storeLoop EXCEPT !.pc = "notify"] /\ UNCHANGED <<jobs, notified>>
      BY <1>4 DEF takeSnapshot
    <2>2. storeLoop'.pc = "notify" /\ storeLoop'.index = storeLoop.index
      BY <2>1
    <2>3. /\ storeLoop.index = Len(jobs) /\ storeLoop.index # 0 /\ storeLoop.snap = jobs
          /\ Len(jobs) <= lastIncludedIndex + 1
      BY <1>2, <2>1 DEF StoreOK
    <2>4. CASE storeLoop.index <= lastIncludedIndex
      <3>1. UNCHANGED <<lastIncludedIndex, persister>>
        BY <2>1, <2>4 DEF Snapshot
      <3> QED BY <1>1, <1>2, <2>1, <2>2, <2>3, <2>4, <3>1 DEF PrefixesOK, StoreOK, ApplierOK
    <2>5. CASE ~(storeLoop.index <= lastIncludedIndex)
      <3>1. /\ lastIncludedIndex' = Len(jobs) /\ persister'.snapshot = jobs
            /\ lastIncludedIndex < Len(jobs)
        BY <2>1, <2>3, <2>5 DEF Snapshot
      <3>2. PrefixesOK'
        BY <1>2, <2>1, <3>1 DEF PrefixesOK
      <3>3. StoreOK'
        BY <1>2, <2>1, <2>2, <2>3, <3>1 DEF StoreOK
      <3>4. ApplierOK'
        BY <1>1, <1>2, <2>1, <2>2, <2>3, <3>1 DEF ApplierOK
      <3> QED BY <3>2, <3>3, <3>4
    <2> QED BY <2>4, <2>5
  <1>5. CASE notifyWaiter
    <2>1. /\ storeLoop.pc = "notify" /\ storeLoop'.pc = "receive"
          /\ notified' = notified \cup {storeLoop.index}
          /\ UNCHANGED <<lastIncludedIndex, persister, jobs>>
      BY <1>5 DEF notifyWaiter, Receiving, raftVars
    <2>2. storeLoop.index \in 1 .. lastIncludedIndex
      BY <1>2, <2>1 DEF StoreOK
    <2> QED BY <1>1, <1>2, <2>1, <2>2 DEF PrefixesOK, StoreOK, ApplierOK
  <1> QED BY <1>3, <1>4, <1>5

LEMMA CalmNext == IndexInv /\ CalmInv /\ [Next]_vars => CalmInv'
  <1> SUFFICES ASSUME IndexInv, CalmInv, [Next]_vars PROVE CalmInv'
    OBVIOUS
  <1> USE DEF IndexInv, NumbersOK, IndicesOrdered
  <1>1. ASSUME NEW n \in 1 .. MaxIndex, AdvanceCommit(n) PROVE CalmInv'
    BY <1>1 DEF AdvanceCommit, storeVars, CalmInv, PrefixesOK, StoreOK, ApplierOK
  <1>2. CASE applyLoop
    <2>1. CASE pendingSnapshot # 0
      <3>1. /\ applier' = [pc |-> "snapshot", index |-> pendingSnapshot]
            /\ pendingSnapshot' = 0 /\ applier.pc = "top"
            /\ UNCHANGED <<commitIndex, lastApplied, lastIncludedIndex, persister, jobs,
                           storeLoop, notified, calm>>
        BY <1>2, <2>1 DEF applyLoop, Sending, storeVars
      <3> QED BY <2>1, <3>1 DEF CalmInv, PrefixesOK, StoreOK, ApplierOK
    <2>2. CASE pendingSnapshot = 0
      BY <1>2, <2>2, CalmNextCommand DEF applyLoop
    <2> QED BY <2>1, <2>2
  <1>3. CASE innerLoop
    BY <1>3, CalmNextCommand DEF innerLoop
  <1>4. CASE Restart
    <2>1. /\ lastIncludedIndex' = lastIncludedIndex /\ lastApplied' = lastIncludedIndex
          /\ commitIndex' = lastIncludedIndex /\ pendingSnapshot' = 0
          /\ applier'.pc = "top" /\ jobs' = <<>> /\ storeLoop'.pc = "boot"
          /\ UNCHANGED <<persister, notified, calm>>
      BY <1>4 DEF Restart, AtTop, Booting
    <2>2. jobs' \in Seq(Nat) /\ jobs' = UpTo(Len(jobs')) /\ Len(jobs') = 0
      BY <2>1, UpToZero
    <2> QED BY <2>1, <2>2, ApplyAssumption DEF CalmInv, PrefixesOK, StoreOK, ApplierOK
  <1>5. CASE UNCHANGED vars
    BY <1>5 DEF vars, raftVars, storeVars, CalmInv, PrefixesOK, StoreOK, ApplierOK
  <1> QED
    BY <1>1, <1>2, <1>3, <1>4, <1>5, CalmInstall, CalmReceive, CalmStore DEF Next

\* The store of a node holds a prefix of the log, through restarts and snapshots from
\* leaders, as long as none of these comes between two sends of applyLoop.
THEOREM AppliedStaysInOrder == Spec => []AppliedInOrder
  <1>1. CalmInv => AppliedInOrder
    BY DEF CalmInv, PrefixesOK, AppliedInOrder
  <1> QED BY <1>1, IndexInit, IndexNext, CalmInit, CalmNext, PTL DEF Spec

\* A write whose Submit returned is in the snapshot on disk, whatever crashes follow.
THEOREM NotifiedStaysDurable == Spec => []NotifiedIsDurable
  <1>1. IndexInv /\ CalmInv => NotifiedIsDurable
    <2> SUFFICES ASSUME IndexInv, PrefixesOK, NEW k \in notified
                 PROVE  \E i \in 1 .. Len(persister.snapshot) : persister.snapshot[i] = k
      BY DEF CalmInv, NotifiedIsDurable
    <2>1. /\ persister.snapshot = UpTo(lastIncludedIndex) /\ k \in 1 .. lastIncludedIndex
          /\ lastIncludedIndex \in Nat
      BY DEF PrefixesOK, IndexInv, NumbersOK
    <2>2. Len(persister.snapshot) = lastIncludedIndex /\ persister.snapshot[k] = k
      BY <2>1, UpToLength DEF UpTo
    <2> QED BY <2>1, <2>2
  <1> QED BY <1>1, IndexInit, IndexNext, CalmInit, CalmNext, PTL DEF Spec

\* What came in between is not forgotten.
LEMMA CalmStaysLost == [Next]_vars /\ calm' => calm
  <1>1. CASE UNCHANGED calm
    BY <1>1
  <1>2. ASSUME NEW k \in InstallIndexes, InstallSnapshot(k) PROVE calm' => calm
    BY <1>2 DEF InstallSnapshot
  <1> QED
    BY <1>1, <1>2 DEF Next, vars, AdvanceCommit, applyLoop, innerLoop, nextCommand, NewStore,
       receiveSnapshot, receiveCommand, takeSnapshot, notifyWaiter, Restart

LEMMA StoreGrows ==
    ASSUME TypeOK, IndexInv, CalmInv, CalmInv', [Next]_vars, calm', restarts' = restarts
    PROVE  Len(jobs) <= Len(jobs')
  <1>1. /\ PrefixesOK /\ StoreOK /\ ApplierOK /\ PrefixesOK'
        /\ Len(jobs) \in Nat /\ Len(jobs') \in Nat /\ applier.index \in Nat /\ restarts \in Nat
    BY CalmStaysLost DEF CalmInv, PrefixesOK, TypeOK
  <1>2. CASE UNCHANGED jobs
    BY <1>1, <1>2
  <1>3. CASE NewStore
    BY <1>1, <1>3 DEF NewStore, StoreOK
  <1>4. CASE receiveSnapshot
    <2>1. jobs' = UpTo(applier.index) /\ Len(jobs) <= applier.index
      BY <1>1, <1>4 DEF receiveSnapshot, ApplierOK
    <2> QED BY <1>1, <2>1, UpToLength
  <1>5. CASE receiveCommand
    BY <1>1, <1>5 DEF receiveCommand, PrefixesOK
  <1>6. CASE Restart
    BY <1>1, <1>6 DEF Restart
  <1> QED
    BY <1>2, <1>3, <1>4, <1>5, <1>6 DEF Next, vars, AdvanceCommit, InstallSnapshot, applyLoop,
       innerLoop, nextCommand, storeVars, takeSnapshot, notifyWaiter

\* No snapshot takes the store of a running node back behind a command that applyLoop sent
\* before it, as long as none was installed between two sends.
THEOREM AppliedStays == Spec => AppliedNeverUndone
  <1> DEFINE Kept == calm' /\ restarts' = restarts =>
                       \A i \in 1 .. Len(jobs) : \E j \in 1 .. Len(jobs') : jobs'[j] = jobs[i]
  <1>1. TypeOK /\ IndexInv /\ CalmInv /\ CalmInv' /\ [Next]_vars => [Kept]_vars
    <2> SUFFICES ASSUME TypeOK, IndexInv, CalmInv, CalmInv', Next, calm', restarts' = restarts,
                        NEW i \in 1 .. Len(jobs)
                 PROVE  \E j \in 1 .. Len(jobs') : jobs'[j] = jobs[i]
      OBVIOUS
    <2>1. /\ jobs = UpTo(Len(jobs)) /\ jobs' = UpTo(Len(jobs'))
          /\ Len(jobs) \in Nat /\ Len(jobs') \in Nat
      BY CalmStaysLost DEF CalmInv, PrefixesOK
    <2>2. Len(jobs) <= Len(jobs')
      BY StoreGrows
    <2>3. i \in 1 .. Len(jobs') /\ UpTo(Len(jobs))[i] = i /\ UpTo(Len(jobs'))[i] = i
      BY <2>1, <2>2 DEF UpTo
    <2> QED BY <2>1, <2>3
  <1> QED
    BY <1>1, TypeInit, TypeNext, IndexInit, IndexNext, CalmInit, CalmNext, PTL
    DEF Spec, AppliedNeverUndone

\* Every step of the pipeline is a step of the promised store or leaves it unchanged.
LEMMA StepKeepsPromise ==
    IndexInv /\ CalmInv /\ [Next]_vars => [Promise!Next]_(Promise!vars)
  <1> SUFFICES ASSUME IndexInv, CalmInv, [Next]_vars PROVE [Promise!Next]_(Promise!vars)
    OBVIOUS
  <1>a. calm \in BOOLEAN /\ calm' \in BOOLEAN
    BY CalmNext DEF CalmInv
  <1>b. calm' => calm
    BY CalmStaysLost
  <1> SUFFICES ASSUME calm, calm'
               PROVE  Promise!Step \/ UNCHANGED Promise!vars
    BY <1>a, <1>b DEF Promise!Next
  <1> USE DEF Promise!vars
  <1>1. PrefixesOK /\ StoreOK /\ ApplierOK /\ Len(jobs) \in Nat
    BY DEF CalmInv, PrefixesOK
  <1>2. /\ lastIncludedIndex \in Nat /\ lastApplied \in Nat /\ lastIncludedIndex <= lastApplied
        /\ lastApplied <= MaxIndex /\ applier.index \in Nat /\ storeLoop.index \in Nat
        /\ persister.lastIncludedIndex = lastIncludedIndex
    BY ApplyAssumption DEF IndexInv, NumbersOK, IndicesOrdered, CalmInv
  <1>3. Len(persister.snapshot) = lastIncludedIndex
    BY <1>1, <1>2, UpToLength DEF PrefixesOK
  <1>4. ASSUME NEW n \in 1 .. MaxIndex, AdvanceCommit(n) PROVE UNCHANGED Promise!vars
    BY <1>4 DEF AdvanceCommit, storeVars
  <1>5. ASSUME NEW k \in InstallIndexes, InstallSnapshot(k) PROVE Promise!Step
    <2>1. /\ k \in 1 .. MaxIndex /\ k > Len(persister.snapshot)
          /\ persister'.snapshot = UpTo(k) /\ UNCHANGED <<jobs, storeLoop, notified>>
      BY <1>3, <1>5, ApplyAssumption DEF InstallSnapshot, storeVars
    <2>2. Promise!Receive(k)
      BY <2>1 DEF Promise!Receive, Promise!Prefix, UpTo
    <2> QED BY <2>1, <2>2 DEF Promise!Step
  <1>6. CASE applyLoop \/ innerLoop
    BY <1>6 DEF applyLoop, innerLoop, nextCommand, storeVars
  <1>7. CASE NewStore
    <2>1. Promise!Load
      BY <1>7 DEF NewStore, Receiving, Promise!Load
    <2> QED BY <2>1 DEF Promise!Step
  <1>8. CASE receiveSnapshot
    <2>1. /\ storeLoop.pc = "receive" /\ jobs' = UpTo(applier.index)
          /\ UNCHANGED <<storeLoop, persister, notified>>
          /\ applier.index \in 1 .. MaxIndex
          /\ applier.index \in Len(jobs) .. Len(persister.snapshot)
      BY <1>1, <1>2, <1>3, <1>8, ApplyAssumption DEF receiveSnapshot, ApplierOK
    <2>2. Promise!Catchup(applier.index)
      BY <2>1 DEF Promise!Catchup, Promise!Prefix, UpTo
    <2> QED BY <2>1, <2>2 DEF Promise!Step
  <1>9. CASE receiveCommand
    <2>1. /\ storeLoop.pc = "receive" /\ applier.index = Len(jobs) + 1
          /\ jobs' = Append(jobs, applier.index) /\ storeLoop'.pc = "snapshot"
          /\ UNCHANGED <<persister, notified>>
      BY <1>1, <1>2, <1>9 DEF receiveCommand, ApplierOK
    <2>2. Promise!Apply
      BY <2>1 DEF Promise!Apply
    <2> QED BY <2>2 DEF Promise!Step
  <1>10. CASE takeSnapshot
    <2>1. /\ storeLoop.pc = "snapshot" /\ storeLoop'.pc = "notify"
          /\ UNCHANGED <<jobs, notified>>
          /\ Snapshot(storeLoop.index, storeLoop.snap)
          /\ storeLoop.index = Len(jobs) /\ storeLoop.snap = jobs
      BY <1>1, <1>10 DEF takeSnapshot, StoreOK
    <2>2. CASE storeLoop.index <= lastIncludedIndex
      BY <2>1, <2>2 DEF Snapshot
    <2>3. CASE ~(storeLoop.index <= lastIncludedIndex)
      <3>1. persister'.snapshot = jobs /\ Len(jobs) > Len(persister.snapshot)
        BY <1>1, <1>2, <1>3, <2>1, <2>3 DEF Snapshot
      <3>2. Promise!Persist
        BY <2>1, <3>1 DEF Promise!Persist
      <3> QED BY <3>2 DEF Promise!Step
    <2> QED BY <2>2, <2>3
  <1>11. CASE notifyWaiter
    <2>1. /\ storeLoop.pc = "notify" /\ storeLoop'.pc = "receive"
          /\ notified' = notified \cup {storeLoop.index} /\ UNCHANGED <<jobs, persister>>
          /\ storeLoop.index \in 1 .. MaxIndex /\ storeLoop.index <= Len(persister.snapshot)
      BY <1>1, <1>2, <1>3, <1>11, ApplyAssumption DEF notifyWaiter, Receiving, StoreOK
    <2>2. Promise!Ack(storeLoop.index)
      BY <2>1 DEF Promise!Ack
    <2> QED BY <2>1, <2>2 DEF Promise!Step
  <1>12. CASE Restart
    <2>1. Promise!Crash
      BY <1>12 DEF Restart, Booting, Promise!Crash
    <2> QED BY <2>1 DEF Promise!Step
  <1>13. CASE UNCHANGED vars
    BY <1>13 DEF vars, raftVars, storeVars
  <1> QED
    BY <1>4, <1>5, <1>6, <1>7, <1>8, <1>9, <1>10, <1>11, <1>12, <1>13 DEF Next

\* The pipeline implements the promise of the store: a prefix of the log that is never taken
\* back while the node is up, a snapshot that only gets newer, and no acknowledgement before
\* the write is on disk.
THEOREM PipelineKeepsPromise == Spec => ImplementsStore
  <1>1. Init => Promise!Init
    BY DEF Init, Promise!Init, Booting
  <1> QED
    BY <1>1, StepKeepsPromise, IndexInit, IndexNext, CalmInit, CalmNext, PTL
    DEF Spec, ImplementsStore, Promise!Spec

=============================================================================
