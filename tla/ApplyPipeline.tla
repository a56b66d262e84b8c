--------------------------- MODULE ApplyPipeline ---------------------------
(***************************************************************************)
(* How committed entries reach the store of one node, and come back as     *)
(* snapshots: applyLoop, Snapshot and InstallSnapshot of                   *)
(* src/internal/raft/raft.go with applyLoop and NewStore of                *)
(* src/internal/store/store.go, joined by the unbuffered applyCh.          *)
(*                                                                         *)
(* The committed log is taken as given (module Raft): entry k is the       *)
(* number k, and the state of the store is the sequence of entries that    *)
(* went into it.  The rest of the cluster moves commitIndex and may send a *)
(* snapshot of the log up to any index of InstallIndexes, whenever rf.mu   *)
(* is free.  The store snapshots after every command (snapThreshold = 1).  *)
(*                                                                         *)
(* Operators named Bug... are plausible mistakes, used by no specification.*)
(***************************************************************************)
EXTENDS Integers, Sequences, FiniteSetsExt

CONSTANTS
    MaxIndex,        \* bound: entries of the log
    InstallIndexes,  \* the snapshots a leader may send to this node
    MaxRestarts      \* bound

ASSUME ApplyAssumption ==
    /\ MaxIndex \in Nat /\ MaxRestarts \in Nat
    /\ InstallIndexes \subseteq 1 .. MaxIndex

VARIABLES
    commitIndex, lastApplied, lastIncludedIndex,
    pendingSnapshot,  \* the snapshot InstallSnapshot archived, 0 for nil
    persister,        \* the snapshot on disk: its index and the store state in it
    applier,          \* raft's applyLoop: where it is and what it sends on applyCh
    jobs,             \* the state of the store: the entries applied to it, in order
    storeLoop,        \* the store's applyLoop: where it is, the index and the snapshot it holds
    notified,         \* history: the indices whose Submit was told of success
    calm,             \* history: no snapshot of a leader has come in between (see between)
    restarts

raftVars  == <<commitIndex, lastApplied, lastIncludedIndex, pendingSnapshot>>
storeVars == <<jobs, storeLoop, notified>>
vars == <<raftVars, persister, applier, storeVars, calm, restarts>>

UpTo(n) == [k \in 1 .. n |-> k]

\* The loop is at its top, or waits on applyCh with a snapshot or a command to send;
\* after a command it continues the inner loop.
AtTop         == [pc |-> "top", index |-> 0]
Sending(w, k) == [pc |-> w, index |-> k]

Receiving == [pc |-> "receive", index |-> 0, snap |-> <<>>]
Booting   == [pc |-> "boot", index |-> 0, snap |-> <<>>]

-----------------------------------------------------------------------------
(* raft *)

\* AppendEntries or maybeAdvanceCommitIndex commit more of the log.
AdvanceCommit(n) ==
    /\ n > commitIndex
    /\ commitIndex' = n
    /\ UNCHANGED <<lastApplied, lastIncludedIndex, pendingSnapshot, persister, applier,
                   storeVars, calm, restarts>>

\* rf.mu is free while applyLoop is in the middle of its inner loop, and before NewStore
\* has read the disk: a snapshot that is installed then is on disk and counted as applied
\* before messages that applyLoop has taken from the log reach the store.
between ==
    \/ applier.pc \in {"command", "sent"}
    \/ applier.pc = "snapshot" /\ storeLoop.pc = "boot"

\* The snapshot does not count as applied.
BugInstallNotApplied(k) ==
    /\ k > lastIncludedIndex
    /\ lastIncludedIndex' = k
    /\ commitIndex' = Max({commitIndex, k})
    /\ persister' = [lastIncludedIndex |-> k, snapshot |-> UpTo(k)]
    /\ pendingSnapshot' = k
    /\ calm' = (calm /\ ~between)
    /\ UNCHANGED <<lastApplied, applier, storeVars, restarts>>

\* InstallSnapshot with a snapshot up to k that is not outdated.
InstallSnapshot(k) ==
    /\ k > lastIncludedIndex
    /\ lastIncludedIndex' = k
    /\ commitIndex' = Max({commitIndex, k})
    /\ lastApplied' = Max({lastApplied, k})
    /\ persister' = [lastIncludedIndex |-> k, snapshot |-> UpTo(k)]
    /\ pendingSnapshot' = k
    /\ calm' = (calm /\ ~between)
    /\ UNCHANGED <<applier, storeVars, restarts>>

\* lastApplied after the guard against index underflow of the inner loop.
appliedFloor ==
    IF lastApplied < commitIndex /\ lastApplied + 1 <= lastIncludedIndex
    THEN lastIncludedIndex
    ELSE lastApplied

\* The loop stops one short of commitIndex.
BugStopsShort ==
    /\ IF appliedFloor + 1 < commitIndex
       THEN /\ lastApplied' = appliedFloor + 1
            /\ applier' = Sending("command", appliedFloor + 1)
       ELSE /\ lastApplied' = appliedFloor
            /\ applier' = AtTop
    /\ UNCHANGED <<commitIndex, lastIncludedIndex, pendingSnapshot, persister, storeVars,
                   calm, restarts>>

\* The increment of the loop is undone when it turns out that there is nothing to send.
BugStepsBack ==
    /\ IF appliedFloor < commitIndex
       THEN /\ lastApplied' = appliedFloor + 1
            /\ applier' = Sending("command", appliedFloor + 1)
       ELSE /\ lastApplied' = appliedFloor - 1
            /\ applier' = AtTop
    /\ UNCHANGED <<commitIndex, lastIncludedIndex, pendingSnapshot, persister, storeVars,
                   calm, restarts>>

\* The inner loop of applyLoop gets (or still has) the lock: one more command to send,
\* or back to the top.
nextCommand ==
    /\ IF appliedFloor < commitIndex
       THEN /\ lastApplied' = appliedFloor + 1
            /\ applier' = Sending("command", appliedFloor + 1)
       ELSE /\ lastApplied' = appliedFloor
            /\ applier' = AtTop
    /\ UNCHANGED <<commitIndex, lastIncludedIndex, pendingSnapshot, persister, storeVars,
                   calm, restarts>>

\* Committed commands go first, and a pending snapshot when there are none.
BugCommandsFirst ==
    /\ applier.pc = "top"
    /\ IF pendingSnapshot # 0 /\ lastApplied = commitIndex
       THEN /\ applier' = Sending("snapshot", pendingSnapshot)
            /\ pendingSnapshot' = 0
            /\ UNCHANGED <<commitIndex, lastApplied, lastIncludedIndex, persister, storeVars,
                           calm, restarts>>
       ELSE nextCommand

\* A turn of applyLoop: a pending snapshot goes first, and only here.
applyLoop ==
    /\ applier.pc = "top"
    /\ IF pendingSnapshot # 0
       THEN /\ applier' = Sending("snapshot", pendingSnapshot)
            /\ pendingSnapshot' = 0
            /\ UNCHANGED <<commitIndex, lastApplied, lastIncludedIndex, persister, storeVars,
                           calm, restarts>>
       ELSE nextCommand

\* The command was sent and applyLoop has the lock again.
innerLoop ==
    /\ applier.pc = "sent"
    /\ nextCommand

\* The snapshot is taken for its index even if a later one is on disk.
BugStaleSnapshot(index, snap) ==
    /\ lastIncludedIndex' = index
    /\ persister' = [lastIncludedIndex |-> index, snapshot |-> snap]

\* The service hands over a snapshot; one that is not newer is ignored.
Snapshot(index, snap) ==
    IF index <= lastIncludedIndex
    THEN UNCHANGED <<lastIncludedIndex, persister>>
    ELSE /\ lastIncludedIndex' = index
         /\ persister' = [lastIncludedIndex |-> index, snapshot |-> snap]

-----------------------------------------------------------------------------
(* store *)

\* The store starts empty, as before snapshots existed.
BugStoreStartsEmpty ==
    /\ storeLoop.pc = "boot"
    /\ jobs' = <<>>
    /\ storeLoop' = Receiving
    /\ UNCHANGED <<raftVars, persister, applier, notified, calm, restarts>>

\* NewStore loads the snapshot on disk and starts the apply loop; raft runs already.
NewStore ==
    /\ storeLoop.pc = "boot"
    /\ jobs' = persister.snapshot
    /\ storeLoop' = Receiving
    /\ UNCHANGED <<raftVars, persister, applier, notified, calm, restarts>>

\* applyCh is unbuffered: both loops meet, and the store applies what it received.
\* A snapshot replaces the state, whatever the state is.
receiveSnapshot ==
    /\ storeLoop.pc = "receive"
    /\ applier.pc = "snapshot"
    /\ jobs' = UpTo(applier.index)
    /\ applier' = AtTop
    /\ UNCHANGED <<raftVars, persister, storeLoop, notified, calm, restarts>>

\* The state is encoded before the command goes into it.
BugEncodeFirst ==
    /\ storeLoop.pc = "receive"
    /\ applier.pc = "command"
    /\ jobs' = Append(jobs, applier.index)
    /\ storeLoop' = [pc |-> "snapshot", index |-> applier.index, snap |-> jobs]
    /\ applier' = Sending("sent", 0)
    /\ UNCHANGED <<raftVars, persister, notified, calm, restarts>>

receiveCommand ==
    /\ storeLoop.pc = "receive"
    /\ applier.pc = "command"
    /\ jobs' = Append(jobs, applier.index)
    /\ storeLoop' = [pc |-> "snapshot", index |-> applier.index, snap |-> jobs']
    /\ applier' = Sending("sent", 0)
    /\ UNCHANGED <<raftVars, persister, notified, calm, restarts>>

\* Submit is woken first and the snapshot is left for the next turn.
BugNotifyFirst ==
    /\ storeLoop.pc = "snapshot"
    /\ notified' = notified \cup {storeLoop.index}
    /\ storeLoop' = Receiving
    /\ UNCHANGED <<raftVars, persister, applier, jobs, calm, restarts>>

\* The store calls rf.Snapshot with what it encoded, then wakes the caller of Submit.
takeSnapshot ==
    /\ storeLoop.pc = "snapshot"
    /\ Snapshot(storeLoop.index, storeLoop.snap)
    /\ storeLoop' = [storeLoop EXCEPT !.pc = "notify"]
    /\ UNCHANGED <<commitIndex, lastApplied, pendingSnapshot, applier, jobs, notified, calm, restarts>>

notifyWaiter ==
    /\ storeLoop.pc = "notify"
    /\ notified' = notified \cup {storeLoop.index}
    /\ storeLoop' = Receiving
    /\ UNCHANGED <<raftVars, persister, applier, jobs, calm, restarts>>

-----------------------------------------------------------------------------

\* The process dies; raft.Make restores its indices from disk, NewStore comes later.
Restart ==
    /\ restarts < MaxRestarts
    /\ restarts' = restarts + 1
    /\ lastIncludedIndex' = persister.lastIncludedIndex
    /\ commitIndex' = persister.lastIncludedIndex
    /\ lastApplied' = persister.lastIncludedIndex
    /\ pendingSnapshot' = 0
    /\ applier' = AtTop
    /\ jobs' = <<>>
    /\ storeLoop' = Booting
    /\ UNCHANGED <<persister, notified, calm>>

Init ==
    /\ commitIndex = 0
    /\ lastApplied = 0
    /\ lastIncludedIndex = 0
    /\ pendingSnapshot = 0
    /\ persister = [lastIncludedIndex |-> 0, snapshot |-> <<>>]
    /\ applier = AtTop
    /\ jobs = <<>>
    /\ storeLoop = Booting
    /\ notified = {}
    /\ calm = TRUE
    /\ restarts = 0

Next ==
    \/ \E n \in 1 .. MaxIndex : AdvanceCommit(n)
    \/ \E k \in InstallIndexes : InstallSnapshot(k)
    \/ applyLoop
    \/ innerLoop
    \/ NewStore
    \/ receiveSnapshot
    \/ receiveCommand
    \/ takeSnapshot
    \/ notifyWaiter
    \/ Restart

Spec == Init /\ [][Next]_vars

\* Both loops run for ever and rf.mu is fair (sync.Mutex); commits, snapshots from the
\* leader and crashes are up to the rest of the cluster.
FairSpec ==
    /\ Spec
    /\ WF_vars(applyLoop)
    /\ WF_vars(innerLoop)
    /\ WF_vars(NewStore)
    /\ WF_vars(receiveSnapshot)
    /\ WF_vars(receiveCommand)
    /\ WF_vars(takeSnapshot)
    /\ WF_vars(notifyWaiter)

-----------------------------------------------------------------------------
(* Properties *)

\* TypeOK: the shape of the state; the two loops are always in one of their sections.
TypeOK ==
    /\ commitIndex \in Nat /\ lastApplied \in Nat /\ lastIncludedIndex \in Nat
    /\ pendingSnapshot \in Nat
    /\ persister \in [lastIncludedIndex : Nat, snapshot : Seq(Nat)]
    /\ applier \in [pc : {"top", "snapshot", "command", "sent"}, index : Nat]
    /\ jobs \in Seq(Nat)
    /\ storeLoop \in [pc : {"boot", "receive", "snapshot", "notify"}, index : Nat,
                      snap : Seq(Nat)]
    /\ notified \subseteq Nat
    /\ restarts \in Nat

\* AppliedInOrder: the store always is the result of a prefix of the committed log, every
\* entry once and in order, also across restarts (store.applyLoop, applySnapshot), as long
\* as no snapshot was installed between the sends of applyLoop.
AppliedInOrder == calm => jobs = UpTo(Len(jobs))

\* AppliedNeverUndone: an entry that went into the store of a running node stays in it;
\* applyLoop means to ensure it with "Send pending snapshot first if one exists", and does
\* when the snapshot was not installed between two sends.
AppliedNeverUndone ==
    [][calm' /\ restarts' = restarts =>
          \A i \in 1 .. Len(jobs) : \E j \in 1 .. Len(jobs') : jobs'[j] = jobs[i]]_vars

\* NotifiedIsDurable: when Submit returned, its write is in the snapshot on disk ("Snapshot
\* before notifying Submit so successful writes are durable on disk").
NotifiedIsDurable ==
    calm => \A k \in notified :
                \E i \in 1 .. Len(persister.snapshot) : persister.snapshot[i] = k

\* IndicesOrdered: lastApplied stays between the snapshot and commitIndex, so applyLoop
\* reads an entry that is in the log and never meets the underflow it guards against; and
\* the snapshot index in memory is the one on disk.
IndicesOrdered ==
    /\ lastIncludedIndex <= lastApplied
    /\ lastApplied <= commitIndex
    /\ lastIncludedIndex = persister.lastIncludedIndex
    /\ storeLoop.index <= lastApplied

\* SnapshotNeverOlder: the snapshot on disk is never replaced by one of an earlier index,
\* however the store's own snapshots and those of a leader race (Snapshot, InstallSnapshot).
SnapshotNeverOlder ==
    [][persister'.lastIncludedIndex >= persister.lastIncludedIndex]_vars

\* EventuallyApplied: what is committed reaches the store, as a command or in a snapshot,
\* unless the node dies first.
EventuallyApplied ==
    \A n \in 1 .. MaxIndex, r \in 0 .. MaxRestarts :
        (commitIndex >= n /\ restarts = r) ~> (Len(jobs) >= n \/ restarts > r \/ ~calm)

\* What the store promises (module ReplicaStore), read off this module's state.
Promise == INSTANCE ReplicaStore
    WITH running <- storeLoop.pc # "boot", store <- jobs, disk <- persister.snapshot,
         acked <- notified, exact <- calm

\* ImplementsStore: the two loops, the channel and the snapshots of both sides keep the
\* promise of the store, as long as no snapshot is installed between two sends.
ImplementsStore == Promise!Spec

=============================================================================
