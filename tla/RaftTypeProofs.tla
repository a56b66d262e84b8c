-------------------------- MODULE RaftTypeProofs --------------------------
(* Type correctness of module Raft, for any number of nodes and any bounds. *)
EXTENDS Raft, TLAPS, FiniteSetTheorems, SequenceTheorems, WellFoundedInduction

-----------------------------------------------------------------------------
(* Bags: the network only ever gains what is sent. *)

LEMMA BagAdd ==
    ASSUME NEW B, IsABag(B), NEW S
    PROVE  /\ IsABag(B (+) SetToBag(S))
           /\ BagToSet(B (+) SetToBag(S)) = BagToSet(B) \cup S
  BY DEF IsABag, SetToBag, BagToSet, (+)

LEMMA BagRemove ==
    ASSUME NEW B, IsABag(B), NEW S
    PROVE  /\ IsABag(B (-) SetToBag(S))
           /\ BagToSet(B (-) SetToBag(S)) \subseteq BagToSet(B)
  BY DEF IsABag, SetToBag, BagToSet, (-)

LEMMA BagRestrict ==
    ASSUME NEW B, IsABag(B), NEW S, S \subseteq BagToSet(B)
    PROVE  /\ IsABag([m \in S |-> B[m]])
           /\ BagToSet([m \in S |-> B[m]]) = S
  BY DEF IsABag, BagToSet

LEMMA NetCall ==
    ASSUME IsABag(net), NEW requests, Call(requests)
    PROVE  IsABag(net') /\ BagToSet(net') \subseteq BagToSet(net) \cup requests
  <1>1. PICK sent \in SUBSET requests : net' = net (+) SetToBag(sent)
    BY DEF Call
  <1> QED BY <1>1, BagAdd

LEMMA NetDiscard ==
    ASSUME IsABag(net), NEW m, Discard(m)
    PROVE  IsABag(net') /\ BagToSet(net') \subseteq BagToSet(net)
  BY BagRemove DEF Discard

LEMMA NetReply ==
    ASSUME IsABag(net), NEW m, NEW reply, Reply(m, reply)
    PROVE  IsABag(net') /\ BagToSet(net') \subseteq BagToSet(net) \cup {reply}
  <1>1. CASE Discard(m)
    BY <1>1, NetDiscard
  <1>2. CASE net' = (net (-) SetToBag({m})) (+) SetToBag({reply})
    BY <1>2, BagAdd, BagRemove
  <1> QED BY <1>1, <1>2 DEF Reply

-----------------------------------------------------------------------------
(* Least and greatest elements. *)

LEMMA NatLessWellFounded ==
    IsWellFoundedOn({ss \in Nat \X Nat : ss[1] < ss[2]}, Nat)
  BY NatLessThanWellFounded DEF OpToRel

LEMMA LeastElement ==
    ASSUME NEW S, S \subseteq Nat, S # {}
    PROVE  \E x \in S : \A y \in S : x <= y
  <1> DEFINE R == {ss \in Nat \X Nat : ss[1] < ss[2]}
  <1>1. IsWellFoundedOn(R, Nat)
    BY NatLessWellFounded
  <1>2. PICK x \in S : \A y \in S : ~ (<<y, x>> \in R)
    <2> HIDE DEF R
    <2> QED BY <1>1, WFMin
  <1>3. ASSUME NEW y \in S PROVE x <= y
    <2>1. x \in Nat /\ y \in Nat
      OBVIOUS
    <2>2. y < x => <<y, x>> \in {ss \in Nat \X Nat : ss[1] < ss[2]}
      BY <2>1
    <2>3. ~ (y < x)
      BY <1>2, <2>2
    <2> QED BY <2>1, <2>3
  <1> QED BY <1>3

LEMMA MinInSet ==
    ASSUME NEW S, S \subseteq Nat, S # {}
    PROVE  Min(S) \in S /\ \A y \in S : Min(S) <= y
  BY LeastElement DEF Min

LEMMA MaxInSet ==
    ASSUME NEW b \in Nat, NEW S, S \subseteq 0 .. b, S # {}
    PROVE  Max(S) \in S
  <1> DEFINE T == {b - x : x \in S}
  <1>1. T \subseteq Nat
    OBVIOUS
  <1>2. T # {}
    OBVIOUS
  <1>3. PICK z \in T : \A y \in T : z <= y
    <2> HIDE DEF T
    <2> QED BY <1>1, <1>2, LeastElement
  <1>4. PICK x \in S : z = b - x
    BY <1>3
  <1>5. ASSUME NEW y \in S PROVE x >= y
    <2>1. b - y \in T
      OBVIOUS
    <2>2. b - x <= b - y
      <3> HIDE DEF T
      <3> QED BY <1>3, <1>4, <2>1
    <2> QED BY <2>2
  <1> QED BY <1>5 DEF Max

LEMMA MaxPair ==
    ASSUME NEW a \in Nat, NEW b \in Nat
    PROVE  Max({a, b}) \in Nat
  <1>1. \E x \in {a, b} : \A y \in {a, b} : x >= y
    OBVIOUS
  <1> QED BY <1>1 DEF Max

LEMMA MinPair ==
    ASSUME NEW a \in Nat, NEW b \in Nat
    PROVE  Min({a, b}) \in Nat
  <1>1. \E x \in {a, b} : \A y \in {a, b} : x <= y
    OBVIOUS
  <1> QED BY <1>1 DEF Min

-----------------------------------------------------------------------------
(* The inductive type invariant: TypeOK, cut into the parts the steps of a proof  *)
(* need, and the fact that a snapshot is as long as the index it stands for.      *)

MemoryOK ==
    /\ currentTerm \in [Server -> Nat]
    /\ votedFor \in [Server -> Server \cup {Nil}]
    /\ log \in [Server -> Seq(Entry)]
    /\ lastIncludedIndex \in [Server -> Nat]
    /\ lastIncludedTerm \in [Server -> Nat]

VolatileOK ==
    /\ commitIndex \in [Server -> Nat]
    /\ nextIndex \in [Server -> [Server -> Nat]]
    /\ matchIndex \in [Server -> [Server -> Nat]]
    /\ state \in [Server -> {"follower", "candidate", "leader"}]
    /\ votes \in [Server -> SUBSET Server]
    /\ heartbeating \subseteq Server
    /\ captures \subseteq Capture
    /\ restarts \in [Server -> Nat]

DiskOK ==
    /\ persister \in [Server -> PersistedState]
    /\ \A i \in Server : /\ persister[i].lastIncludedIndex = lastIncludedIndex[i]
                         /\ Len(persister[i].snapshot) = lastIncludedIndex[i]

SnapshotWhole(m) ==
    m.kind = "InstallSnapshot" => Len(m.Data) = m.LastIncludedIndex

NetOK ==
    /\ IsABag(net)
    /\ \A m \in BagToSet(net) : m \in Message /\ SnapshotWhole(m)

HistoryOK ==
    /\ ballots \subseteq [term : Nat, voter : Server, candidate : Server]
    /\ elected \subseteq [term : Nat, leader : Server]
    /\ committed \in Seq(Entry)
    /\ leaderLogs \in Seq([term : Nat, log : Seq(Entry)])
    /\ acked \subseteq [term : Nat, node : Server, index : Nat]

TypeInv == MemoryOK /\ VolatileOK /\ DiskOK /\ NetOK /\ HistoryOK

LEMMA TypeInvImpliesTypeOK == TypeInv => TypeOK
  BY DEF TypeInv, MemoryOK, VolatileOK, DiskOK, NetOK, HistoryOK, TypeOK

-----------------------------------------------------------------------------
(* Messages *)

LEMMA MessageFields ==
    ASSUME NEW m \in Message
    PROVE  m.caller \in Server /\ m.callee \in Server /\ m.inc \in Nat /\ m.Term \in Nat
  BY DEF Message, RequestVoteArgs, RequestVoteReply, AppendEntriesArgs, AppendEntriesReply,
         InstallSnapshotArgs, InstallSnapshotReply

LEMMA MessageKinds ==
    ASSUME NEW m \in Message
    PROVE  /\ m.kind = "RequestVote" => m \in RequestVoteArgs
           /\ m.kind = "RequestVoteReply" => m \in RequestVoteReply
           /\ m.kind = "AppendEntries" => m \in AppendEntriesArgs
           /\ m.kind = "AppendEntriesReply" => m \in AppendEntriesReply
           /\ m.kind = "InstallSnapshot" => m \in InstallSnapshotArgs
           /\ m.kind = "InstallSnapshotReply" => m \in InstallSnapshotReply
  BY DEF Message, RequestVoteArgs, RequestVoteReply, AppendEntriesArgs, AppendEntriesReply,
         InstallSnapshotArgs, InstallSnapshotReply

LEMMA PlainMessage ==
    ASSUME NEW m, \/ m \in RequestVoteArgs \/ m \in RequestVoteReply
                  \/ m \in AppendEntriesArgs \/ m \in AppendEntriesReply
                  \/ m \in InstallSnapshotReply
    PROVE  m \in Message /\ SnapshotWhole(m)
  BY DEF Message, RequestVoteArgs, RequestVoteReply, AppendEntriesArgs, AppendEntriesReply,
         InstallSnapshotReply, SnapshotWhole

-----------------------------------------------------------------------------
(* The index helpers, on a well-typed node *)

LEMMA LogTermType ==
    ASSUME MemoryOK, NEW i \in Server, NEW k \in lastIncludedIndex[i] .. lastLogIndex(i)
    PROVE  logTerm(i, k) \in Nat
  <1>1. CASE k = lastIncludedIndex[i]
    BY <1>1 DEF logTerm, MemoryOK
  <1>2. CASE k # lastIncludedIndex[i]
    <2>1. k - lastIncludedIndex[i] \in 1 .. Len(log[i])
      BY <1>2 DEF MemoryOK, lastLogIndex
    <2>2. log[i][k - lastIncludedIndex[i]] \in Entry
      BY <2>1, ElementOfSeq DEF MemoryOK
    <2> QED BY <1>2, <2>2 DEF logTerm, Entry
  <1> QED BY <1>1, <1>2

LEMMA LastLogIndexType ==
    ASSUME MemoryOK, NEW i \in Server
    PROVE  lastLogIndex(i) \in Nat /\ lastLogIndex(i) >= lastIncludedIndex[i]
  BY DEF MemoryOK, lastLogIndex

LEMMA LogAfterType ==
    ASSUME MemoryOK, NEW i \in Server, NEW k \in lastIncludedIndex[i] .. lastLogIndex(i)
    PROVE  logAfter(i, k) \in Seq(Entry)
  <1> DEFINE n == k - lastIncludedIndex[i] + 1
  <1>1. n \in Int /\ n >= 1 /\ Len(log[i]) \in Int /\ log[i] \in Seq(Entry)
    BY LastLogIndexType DEF MemoryOK
  <1>2. \A l \in n .. Len(log[i]) : log[i][l] \in Entry
    BY <1>1, ElementOfSeq
  <1> HIDE DEF n
  <1>3. SubSeq(log[i], n, Len(log[i])) \in Seq(Entry)
    BY <1>1, <1>2, SubSeqProperties
  <1> QED BY <1>3 DEF logAfter, n

LEMMA FullLogType ==
    ASSUME MemoryOK, DiskOK, NEW i \in Server
    PROVE  FullLog(i) \in Seq(Entry) /\ Len(FullLog(i)) = lastLogIndex(i)
  <1>1. persister[i].snapshot \in Seq(Entry) /\ log[i] \in Seq(Entry)
    BY DEF MemoryOK, DiskOK, PersistedState
  <1>2. /\ FullLog(i) \in Seq(Entry)
        /\ Len(FullLog(i)) = Len(persister[i].snapshot) + Len(log[i])
    BY <1>1, ConcatProperties DEF FullLog
  <1> QED BY <1>2 DEF DiskOK, lastLogIndex

LEMMA FullLogNextType ==
    ASSUME MemoryOK', DiskOK', NEW i \in Server
    PROVE  FullLog(i)' \in Seq(Entry) /\ Len(FullLog(i)') = lastLogIndex(i)'
  <1>1. persister'[i].snapshot \in Seq(Entry) /\ log'[i] \in Seq(Entry)
    BY DEF MemoryOK, DiskOK, PersistedState
  <1>2. /\ FullLog(i)' \in Seq(Entry)
        /\ Len(FullLog(i)') = Len(persister'[i].snapshot) + Len(log'[i])
    BY <1>1, ConcatProperties DEF FullLog
  <1> QED BY <1>2 DEF DiskOK, lastLogIndex

LEMMA FullLogPrefix ==
    ASSUME MemoryOK, DiskOK, NEW i \in Server, NEW n \in 0 .. lastLogIndex(i)
    PROVE  /\ SubSeq(FullLog(i), 1, n) \in Seq(Entry)
           /\ Len(SubSeq(FullLog(i), 1, n)) = n
  <1>2. FullLog(i) \in Seq(Entry) /\ Len(FullLog(i)) = lastLogIndex(i)
    BY FullLogType
  <1>3. \A l \in 1 .. n : FullLog(i)[l] \in Entry
    BY <1>2, ElementOfSeq, LastLogIndexType
  <1>4. n \in Nat
    BY LastLogIndexType
  <1>5. /\ SubSeq(FullLog(i), 1, n) \in Seq(Entry)
        /\ Len(SubSeq(FullLog(i), 1, n)) = IF 1 <= n THEN n - 1 + 1 ELSE 0
    BY <1>3, <1>4, SubSeqProperties
  <1> QED BY <1>4, <1>5

LEMMA MergedLogType ==
    ASSUME MemoryOK, NEW i \in Server, NEW entries \in Seq(Entry),
           NEW p \in lastIncludedIndex[i] .. lastLogIndex(i)
    PROVE  mergedLog(i, p, entries) \in Seq(Entry)
  <1> DEFINE new  == {k \in 1 .. Len(entries) :
                        p + k > lastLogIndex(i) \/ logTerm(i, p + k) # entries[k].Term}
             from == Min(new)
             last == p + from - 1 - lastIncludedIndex[i]
  <1>1. CASE new = {}
    BY <1>1 DEF mergedLog, MemoryOK
  <1>2. CASE new # {}
    <2>1. from \in new /\ \A k \in new : from <= k
      <3>1. new \subseteq Nat
        OBVIOUS
      <3> HIDE DEF new
      <3> QED BY <1>2, <3>1, MinInSet
    <2> HIDE DEF from
    <2>2. from \in 1 .. Len(entries)
      BY <2>1
    <2>3. p + from - 1 <= lastLogIndex(i)
      <3>1. SUFFICES ASSUME p + from - 1 > lastLogIndex(i) PROVE FALSE
        BY <2>2, LastLogIndexType DEF MemoryOK
      <3>2. from - 1 \in 1 .. Len(entries) /\ p + (from - 1) > lastLogIndex(i)
        BY <2>2, <3>1, LastLogIndexType DEF MemoryOK
      <3>3. from - 1 \in new
        BY <3>2
      <3> QED BY <2>1, <2>2, <3>3
    <2>4. last \in Int /\ last <= Len(log[i]) /\ log[i] \in Seq(Entry)
      BY <2>2, <2>3, LastLogIndexType DEF MemoryOK, lastLogIndex
    <2>5. SubSeq(log[i], 1, last) \in Seq(Entry)
      <3>1. \A l \in 1 .. last : log[i][l] \in Entry
        BY <2>4, ElementOfSeq
      <3> HIDE DEF last
      <3> QED BY <2>4, <3>1, SubSeqProperties
    <2>6. SubSeq(entries, from, Len(entries)) \in Seq(Entry)
      <3>1. \A l \in from .. Len(entries) : entries[l] \in Entry
        BY <2>2, ElementOfSeq
      <3> QED BY <2>2, <3>1, SubSeqProperties
    <2>7. mergedLog(i, p, entries)
            = SubSeq(log[i], 1, last) \o SubSeq(entries, from, Len(entries))
      BY <1>2 DEF mergedLog, from
    <2> QED BY <2>5, <2>6, <2>7, ConcatProperties
  <1> QED BY <1>1, <1>2

LEMMA ConflictStartType ==
    ASSUME MemoryOK, NEW i \in Server, NEW p \in Nat
    PROVE  conflictStart(i, p) \in Nat
  <1> DEFINE run == {k \in (lastIncludedIndex[i] + 1) .. p :
                       \A l \in k .. p : logTerm(i, l) = logTerm(i, p)}
  <1>1. run \subseteq Nat
    BY DEF MemoryOK
  <1>2. run # {} => Min(run) \in Nat
    <2> HIDE DEF run
    <2> QED BY <1>1, MinInSet
  <1> QED BY <1>2 DEF conflictStart

LEMMA BackUpToType ==
    ASSUME MemoryOK, NEW i \in Server, NEW m \in AppendEntriesReply
    PROVE  backUpTo(i, m) \in Nat
  <1> DEFINE same == {j \in (lastIncludedIndex[i] + 1) .. lastLogIndex(i) :
                        logTerm(i, j) = m.ConflictTerm}
             ni   == IF m.ConflictTerm = -1 \/ same = {}
                     THEN m.ConflictIndex
                     ELSE Max(same) + 1
  <1>1. same \subseteq 0 .. lastLogIndex(i) /\ lastLogIndex(i) \in Nat
    BY LastLogIndexType DEF MemoryOK
  <1>2. same # {} => Max(same) \in Nat
    <2> HIDE DEF same
    <2>1. ASSUME same # {} PROVE Max(same) \in same
      BY <1>1, <2>1, MaxInSet
    <2>2. \A x \in same : x \in Nat
      BY <1>1
    <2> QED BY <2>1, <2>2
  <1>3. m.ConflictIndex \in Nat
    BY DEF AppendEntriesReply
  <1>4. ni \in Nat
    BY <1>2, <1>3
  <1>5. backUpTo(i, m) = Max({ni, 1})
    BY DEF backUpTo
  <1> HIDE DEF ni
  <1> QED BY <1>4, <1>5, MaxPair

LEMMA CommittableBelow ==
    ASSUME MemoryOK, VolatileOK, NEW i \in Server, NEW match, Committable(i, match) # {}
    PROVE  Max(Committable(i, match)) \in 0 .. lastLogIndex(i)
  <1>1. /\ Committable(i, match) \subseteq 0 .. lastLogIndex(i)
        /\ lastLogIndex(i) \in Nat
    BY LastLogIndexType DEF Committable, VolatileOK
  <1> QED BY <1>1, MaxInSet

LEMMA CommitAfterType ==
    ASSUME VolatileOK, NEW i \in Server, NEW m \in AppendEntriesArgs
    PROVE  commitAfter(i, m) \in Nat
  <1>1. m.LeaderCommit \in Nat /\ m.PrevLogIndex + Len(m.Entries) \in Nat
    BY LenProperties DEF AppendEntriesArgs
  <1>2. Min({m.LeaderCommit, m.PrevLogIndex + Len(m.Entries)}) \in Nat
    BY <1>1, MinPair
  <1> QED BY <1>2 DEF commitAfter, VolatileOK

-----------------------------------------------------------------------------
(* Every step keeps TypeInv *)

LEMMA SendOK ==
    ASSUME NetOK, IsABag(net'), NEW new, BagToSet(net') \subseteq BagToSet(net) \cup new,
           \A m \in new : m \in Message /\ SnapshotWhole(m)
    PROVE  NetOK'
  BY DEF NetOK, SnapshotWhole

LEMMA ShrinkOK ==
    ASSUME NetOK, IsABag(net'), BagToSet(net') \subseteq BagToSet(net)
    PROVE  NetOK'
  BY DEF NetOK, SnapshotWhole

LEMMA PersistOK ==
    ASSUME DiskOK, MemoryOK', NEW i \in Server, NEW snapshot \in Seq(Entry),
           lastIncludedIndex \in [Server -> Nat],
           Len(snapshot) = lastIncludedIndex'[i],
           \A j \in Server \ {i} : lastIncludedIndex'[j] = lastIncludedIndex[j],
           persistWithSnapshot(i, snapshot)
    PROVE  DiskOK'
  <1>1. DiskState(i, snapshot) \in PersistedState
    BY DEF MemoryOK, DiskState, PersistedState
  <1>2. /\ DiskState(i, snapshot).lastIncludedIndex = lastIncludedIndex'[i]
        /\ DiskState(i, snapshot).snapshot = snapshot
    BY DEF DiskState
  <1>3. persister' = [persister EXCEPT ![i] = DiskState(i, snapshot)]
    BY DEF persistWithSnapshot
  <1>4. persister' \in [Server -> PersistedState]
    BY <1>1, <1>3 DEF DiskOK
  <1>5. ASSUME NEW j \in Server
        PROVE  /\ persister'[j].lastIncludedIndex = lastIncludedIndex'[j]
               /\ Len(persister'[j].snapshot) = lastIncludedIndex'[j]
    BY <1>2, <1>3 DEF DiskOK
  <1> QED BY <1>4, <1>5 DEF DiskOK

\* persist keeps the snapshot, and lastIncludedIndex with it.
LEMMA PersistSameOK ==
    ASSUME DiskOK, MemoryOK, MemoryOK', NEW i \in Server, persist(i),
           UNCHANGED lastIncludedIndex
    PROVE  DiskOK'
  <1>1. /\ persister[i].snapshot \in Seq(Entry)
        /\ Len(persister[i].snapshot) = lastIncludedIndex'[i]
    BY DEF DiskOK, PersistedState
  <1>2. lastIncludedIndex \in [Server -> Nat]
    BY DEF MemoryOK
  <1> QED BY <1>1, <1>2, PersistOK DEF persist

LEMMA DiskUnchangedOK ==
    ASSUME DiskOK, UNCHANGED <<persister, lastIncludedIndex>>
    PROVE  DiskOK'
  BY DEF DiskOK

LEMMA TypeStartElection ==
    ASSUME TypeInv, NEW i \in Server, startElection(i)
    PROVE  TypeInv'
  <1> USE DEF TypeInv
  <1>1. MemoryOK'
    <2>1. /\ currentTerm' = [currentTerm EXCEPT ![i] = @ + 1]
          /\ votedFor' = [votedFor EXCEPT ![i] = i]
          /\ UNCHANGED <<log, lastIncludedIndex, lastIncludedTerm>>
      BY DEF startElection
    <2> QED BY <2>1 DEF MemoryOK
  <1>2. VolatileOK'
    BY DEF VolatileOK, startElection, leaderVars, taskVars
  <1>3. DiskOK'
    BY <1>1, PersistSameOK DEF startElection
  <1>4. NetOK'
    <2> DEFINE requests == {[kind |-> "RequestVote", caller |-> i, callee |-> j,
                             inc |-> restarts[i], Term |-> currentTerm[i] + 1,
                             LastLogIndex |-> lastLogIndex(i),
                             LastLogTerm |-> logTerm(i, lastLogIndex(i))] : j \in Others(i)}
    <2>1. lastLogIndex(i) \in Nat /\ logTerm(i, lastLogIndex(i)) \in Nat
      BY LastLogIndexType, LogTermType DEF MemoryOK
    <2>2. restarts[i] \in Nat /\ currentTerm[i] + 1 \in Nat
      BY DEF MemoryOK, VolatileOK
    <2>3. ASSUME NEW m \in requests PROVE m \in RequestVoteArgs
      <3>1. PICK j \in Others(i) :
               m = [kind |-> "RequestVote", caller |-> i, callee |-> j,
                    inc |-> restarts[i], Term |-> currentTerm[i] + 1,
                    LastLogIndex |-> lastLogIndex(i),
                    LastLogTerm |-> logTerm(i, lastLogIndex(i))]
        OBVIOUS
      <3>2. j \in Server
        BY DEF Others
      <3> HIDE DEF TypeInv, requests
      <3> QED BY <2>1, <2>2, <3>1, <3>2 DEF RequestVoteArgs
    <2>4. Call(requests)
      BY DEF startElection
    <2> HIDE DEF requests
    <2> QED BY <2>3, <2>4, NetCall, SendOK, PlainMessage DEF NetOK
  <1>5. HistoryOK'
    BY DEF HistoryOK, startElection, MemoryOK
  <1> QED BY <1>1, <1>2, <1>3, <1>4, <1>5

LEMMA TypeRequestVote ==
    ASSUME TypeInv, NEW m \in BagToSet(net), RequestVote(m)
    PROVE  TypeInv'
  <1> USE DEF TypeInv
  <1> DEFINE i == m.callee
  <1>1. m \in RequestVoteArgs
    BY MessageKinds DEF NetOK, RequestVote
  <1>2. /\ i \in Server /\ m.caller \in Server /\ m.inc \in Nat /\ m.Term \in Nat
    BY <1>1 DEF RequestVoteArgs
  <1> HIDE DEF i
  <1>3. MemoryOK'
    BY <1>2 DEF MemoryOK, RequestVote, i
  <1>4. VolatileOK'
    BY <1>2 DEF VolatileOK, RequestVote, leaderVars, taskVars, i
  <1>5. DiskOK'
    BY <1>2, <1>3, PersistSameOK, DiskUnchangedOK DEF RequestVote, i
  <1>6. NetOK'
    <2>1. PICK grant \in BOOLEAN :
             Reply(m, [kind |-> "RequestVoteReply", caller |-> m.caller, callee |-> i,
                       inc |-> m.inc, term |-> m.Term, Term |-> currentTerm[i],
                       VoteGranted |-> grant])
      BY DEF RequestVote, i
    <2> DEFINE reply == [kind |-> "RequestVoteReply", caller |-> m.caller, callee |-> i,
                         inc |-> m.inc, term |-> m.Term, Term |-> currentTerm[i],
                         VoteGranted |-> grant]
    <2>2. reply \in RequestVoteReply
      BY <1>2 DEF RequestVoteReply, MemoryOK
    <2>3. Reply(m, reply)
      BY <2>1
    <2> HIDE DEF reply
    <2> QED BY <2>2, <2>3, NetReply, SendOK, PlainMessage DEF NetOK
  <1>7. HistoryOK'
    BY <1>2 DEF HistoryOK, RequestVote, i
  <1> QED BY <1>3, <1>4, <1>5, <1>6, <1>7

LEMMA DemoteOK ==
    ASSUME MemoryOK, DiskOK, NEW i \in Server, NEW term \in Nat, demote(i, term)
    PROVE  MemoryOK' /\ DiskOK'
  <1>1. MemoryOK'
    BY DEF demote, MemoryOK
  <1> QED BY <1>1, PersistSameOK DEF demote

LEMMA TypeHandleRequestVoteReply ==
    ASSUME TypeInv, NEW m \in BagToSet(net), HandleRequestVoteReply(m)
    PROVE  TypeInv'
  <1> USE DEF TypeInv
  <1> DEFINE i == m.caller
  <1>1. i \in Server /\ m.callee \in Server /\ m.Term \in Nat
    BY MessageFields DEF NetOK
  <1>2. lastLogIndex(i) \in Nat
    BY <1>1, LastLogIndexType
  <1> HIDE DEF i
  <1>3. MemoryOK' /\ DiskOK'
    <2>1. CASE demote(i, m.Term)
      BY <1>1, <2>1, DemoteOK
    <2>2. CASE UNCHANGED <<durableVars, persister>>
      BY <2>2, DiskUnchangedOK DEF MemoryOK, durableVars
    <2> QED BY <2>1, <2>2 DEF HandleRequestVoteReply, i
  <1>4. VolatileOK'
    <2>1. votes' \in [Server -> SUBSET Server]
      BY <1>1 DEF VolatileOK, HandleRequestVoteReply, i
    <2>2. CASE becomeLeader(i)
      <3>1. nextIndex' \in [Server -> [Server -> Nat]]
        <4>1. [j \in Server |-> lastLogIndex(i) + 1] \in [Server -> Nat]
          BY <1>2
        <4> QED BY <4>1, <2>2 DEF VolatileOK, becomeLeader
      <3>2. matchIndex' \in [Server -> [Server -> Nat]]
        BY <2>2 DEF VolatileOK, becomeLeader, noMatch, firstNext
      <3>3. state' \in [Server -> {"follower", "candidate", "leader"}]
        BY <2>2 DEF VolatileOK, becomeLeader
      <3>4. heartbeating' \subseteq Server
        BY <1>1, <2>2 DEF VolatileOK, becomeLeader
      <3> QED BY <2>1, <3>1, <3>2, <3>3, <3>4 DEF VolatileOK, HandleRequestVoteReply
    <2>3. CASE UNCHANGED <<leaderVars, heartbeating>>
      <3>1. state' \in [Server -> {"follower", "candidate", "leader"}]
        BY <1>1 DEF VolatileOK, HandleRequestVoteReply, becomeLeader, demote, i
      <3> QED BY <2>1, <2>3, <3>1 DEF VolatileOK, HandleRequestVoteReply, leaderVars
    <2> QED BY <2>2, <2>3 DEF HandleRequestVoteReply, i
  <1>5. NetOK'
    BY NetDiscard, ShrinkOK DEF NetOK, HandleRequestVoteReply
  <1>6. HistoryOK'
    <2>1. CASE becomeLeader(i)
      <3>1. [term |-> currentTerm[i], log |-> FullLog(i)] \in [term : Nat, log : Seq(Entry)]
        BY <1>1, FullLogType DEF MemoryOK
      <3>2. leaderLogs' = Append(leaderLogs, [term |-> currentTerm[i], log |-> FullLog(i)])
        BY <2>1 DEF becomeLeader
      <3>3. leaderLogs' \in Seq([term : Nat, log : Seq(Entry)])
        BY <3>1, <3>2, AppendProperties DEF HistoryOK
      <3>4. elected' \subseteq [term : Nat, leader : Server]
        BY <1>1, <2>1 DEF HistoryOK, becomeLeader, MemoryOK
      <3> QED BY <3>3, <3>4 DEF HistoryOK, HandleRequestVoteReply
    <2>2. CASE UNCHANGED <<elected, leaderLogs>>
      BY <2>2 DEF HistoryOK, HandleRequestVoteReply
    <2> QED BY <2>1, <2>2 DEF HandleRequestVoteReply, i
  <1> QED BY <1>3, <1>4, <1>5, <1>6

LEMMA TypeSendHeartbeats ==
    ASSUME TypeInv, NEW i \in Server, sendHeartbeats(i)
    PROVE  TypeInv'
  <1>1. MemoryOK' /\ DiskOK' /\ NetOK' /\ HistoryOK'
    BY DEF TypeInv, MemoryOK, DiskOK, NetOK, HistoryOK, sendHeartbeats, durableVars,
           histVars, SnapshotWhole
  <1>2. VolatileOK'
    <2>1. currentTerm[i] \in Nat /\ commitIndex[i] \in Nat
      BY DEF TypeInv, MemoryOK, VolatileOK
    <2>2. [src |-> i, term |-> currentTerm[i], commitIndex |-> commitIndex[i]] \in Capture
      BY <2>1 DEF Capture
    <2> QED BY <2>2 DEF TypeInv, VolatileOK, sendHeartbeats, leaderVars
  <1> QED BY <1>1, <1>2 DEF TypeInv

LEMMA TypeReplicate ==
    ASSUME TypeInv, NEW c \in captures, NEW peer \in Server, replicate(c, peer)
    PROVE  TypeInv'
  <1> USE DEF TypeInv
  <1> DEFINE i == c.src
  <1>1. i \in Server /\ c.term \in Nat /\ c.commitIndex \in Nat
    BY DEF VolatileOK, Capture
  <1>2. restarts[i] \in Nat /\ currentTerm[i] \in Nat /\ nextIndex[i][peer] \in Nat
    BY <1>1 DEF VolatileOK, MemoryOK
  <1> HIDE DEF i
  <1>3. MemoryOK' /\ VolatileOK' /\ DiskOK' /\ HistoryOK'
    BY DEF replicate, MemoryOK, VolatileOK, DiskOK, HistoryOK, durableVars, leaderVars,
           taskVars, histVars
  <1>4. NetOK'
    <2>1. CASE /\ nextIndex[i][peer] <= lastIncludedIndex[i]
               /\ Call({InstallSnapshotRequest(i, peer)})
      <3> DEFINE m == InstallSnapshotRequest(i, peer)
      <3>1. persister[i] \in PersistedState
        BY <1>1 DEF DiskOK
      <3>2. /\ lastIncludedIndex[i] \in Nat /\ lastIncludedTerm[i] \in Nat
            /\ persister[i].snapshot \in Seq(Entry)
        BY <1>1, <3>1 DEF MemoryOK, PersistedState
      <3>3. m \in InstallSnapshotArgs
        BY <1>1, <1>2, <3>2 DEF InstallSnapshotRequest, InstallSnapshotArgs
      <3>4. SnapshotWhole(m)
        BY <1>1 DEF InstallSnapshotRequest, SnapshotWhole, DiskOK
      <3>5. m \in Message
        BY <3>3 DEF Message
      <3> HIDE DEF m
      <3> QED BY <2>1, <3>4, <3>5, NetCall, SendOK DEF NetOK, m
    <2>2. CASE /\ nextIndex[i][peer] \in (lastIncludedIndex[i] + 1) .. (lastLogIndex(i) + 1)
               /\ Call({AppendEntriesRequest(c, peer)})
      <3> DEFINE m    == AppendEntriesRequest(c, peer)
                 prev == nextIndex[i][peer] - 1
      <3>1. prev \in lastIncludedIndex[i] .. lastLogIndex(i) /\ prev \in Nat
        <4>1. lastLogIndex(i) \in Nat /\ lastIncludedIndex[i] \in Nat
          BY <1>1, LastLogIndexType DEF MemoryOK
        <4> QED BY <1>2, <2>2, <4>1
      <3>2. logTerm(i, prev) \in Nat /\ logAfter(i, prev) \in Seq(Entry)
        <4> HIDE DEF prev
        <4> QED BY <1>1, <3>1, LogTermType, LogAfterType
      <3>3. m \in AppendEntriesArgs
        BY <1>1, <1>2, <3>1, <3>2 DEF AppendEntriesRequest, AppendEntriesArgs, i
      <3> HIDE DEF m
      <3> QED BY <2>2, <3>3, NetCall, SendOK, PlainMessage DEF NetOK, m
    <2> QED BY <2>1, <2>2 DEF replicate, i
  <1> QED BY <1>3, <1>4

LEMMA AdvanceOK ==
    ASSUME MemoryOK, VolatileOK, DiskOK, HistoryOK, NEW i \in Server, NEW match,
           maybeAdvanceCommitIndex(i, match)
    PROVE  commitIndex' \in [Server -> Nat] /\ committed' \in Seq(Entry)
  <1>1. CASE Committable(i, match) = {}
    BY <1>1 DEF maybeAdvanceCommitIndex, VolatileOK, HistoryOK
  <1>2. CASE Committable(i, match) # {}
    <2> DEFINE n == Max(Committable(i, match))
    <2>1. n \in 0 .. lastLogIndex(i) /\ n \in Nat
      BY <1>2, CommittableBelow
    <2>2. /\ commitIndex' = [commitIndex EXCEPT ![i] = n]
          /\ committed' = IF n > Len(committed) THEN SubSeq(FullLog(i), 1, n)
                                                ELSE committed
      BY <1>2 DEF maybeAdvanceCommitIndex
    <2> HIDE DEF n
    <2>3. SubSeq(FullLog(i), 1, n) \in Seq(Entry)
      BY <2>1, FullLogPrefix
    <2> QED BY <2>1, <2>2, <2>3 DEF VolatileOK, HistoryOK
  <1> QED BY <1>1, <1>2

LEMMA TypeHandleAppendEntriesReply ==
    ASSUME TypeInv, NEW m \in BagToSet(net), HandleAppendEntriesReply(m)
    PROVE  TypeInv'
  <1> USE DEF TypeInv
  <1> DEFINE i == m.caller
             p == m.callee
             match == [matchIndex[i] EXCEPT ![p] = Max({@, m.newMatch})]
  <1>1. m \in AppendEntriesReply
    BY MessageKinds DEF NetOK, HandleAppendEntriesReply
  <1>2. i \in Server /\ p \in Server /\ m.Term \in Nat /\ m.newMatch \in Nat
    BY <1>1 DEF AppendEntriesReply
  <1>3. match \in [Server -> Nat]
    <2>1. matchIndex[i] \in [Server -> Nat] /\ matchIndex[i][p] \in Nat
      BY <1>2 DEF VolatileOK
    <2>2. Max({matchIndex[i][p], m.newMatch}) \in Nat
      BY <1>2, <2>1, MaxPair
    <2> QED BY <2>1, <2>2
  <1>4. backUpTo(i, m) \in Nat
    BY <1>1, <1>2, BackUpToType
  <1> HIDE DEF i, p, match
  <1>5. MemoryOK' /\ DiskOK'
    <2>1. CASE demote(i, m.Term)
      BY <1>2, <2>1, DemoteOK
    <2>2. CASE UNCHANGED <<durableVars, persister>>
      BY <2>2, DiskUnchangedOK DEF MemoryOK, durableVars
    <2> QED BY <2>1, <2>2 DEF HandleAppendEntriesReply, i
  <1>6. state' \in [Server -> {"follower", "candidate", "leader"}]
    BY <1>2 DEF HandleAppendEntriesReply, demote, VolatileOK, i
  <1>7. /\ nextIndex' \in [Server -> [Server -> Nat]]
        /\ matchIndex' \in [Server -> [Server -> Nat]]
        /\ commitIndex' \in [Server -> Nat]
        /\ committed' \in Seq(Entry)
    <2>1. CASE UNCHANGED <<leaderVars, commitIndex, committed>>
      BY <2>1 DEF VolatileOK, HistoryOK, leaderVars
    <2>2. CASE /\ matchIndex' = [matchIndex EXCEPT ![i] = match]
               /\ nextIndex' = [nextIndex EXCEPT ![i][p] = match[p] + 1]
               /\ maybeAdvanceCommitIndex(i, match)
      <3>1. commitIndex' \in [Server -> Nat] /\ committed' \in Seq(Entry)
        BY <1>2, <2>2, AdvanceOK
      <3>2. match[p] + 1 \in Nat
        BY <1>2, <1>3
      <3>3. nextIndex' \in [Server -> [Server -> Nat]]
        BY <1>2, <2>2, <3>2 DEF VolatileOK
      <3>4. matchIndex' \in [Server -> [Server -> Nat]]
        BY <1>2, <1>3, <2>2 DEF VolatileOK
      <3> QED BY <3>1, <3>3, <3>4
    <2>3. CASE /\ nextIndex' = [nextIndex EXCEPT ![i][p] = backUpTo(i, m)]
               /\ UNCHANGED <<matchIndex, commitIndex, committed>>
      BY <1>2, <1>4, <2>3 DEF VolatileOK, HistoryOK
    <2> QED BY <2>1, <2>2, <2>3 DEF HandleAppendEntriesReply, i, p, match
  <1>8. VolatileOK'
    BY <1>6, <1>7 DEF VolatileOK, HandleAppendEntriesReply, taskVars
  <1>9. NetOK'
    BY NetDiscard, ShrinkOK DEF NetOK, HandleAppendEntriesReply
  <1>10. HistoryOK'
    BY <1>7 DEF HistoryOK, HandleAppendEntriesReply
  <1> QED BY <1>5, <1>8, <1>9, <1>10

LEMMA TypeStart ==
    ASSUME TypeInv, NEW i \in Server, NEW command \in Command, Start(i, command)
    PROVE  TypeInv'
  <1> USE DEF TypeInv
  <1>1. MemoryOK'
    <2>1. [Term |-> currentTerm[i], Command |-> command] \in Entry
      BY DEF Entry, MemoryOK
    <2>2. Append(log[i], [Term |-> currentTerm[i], Command |-> command]) \in Seq(Entry)
      BY <2>1, AppendProperties DEF MemoryOK
    <2> QED BY <2>2 DEF MemoryOK, Start
  <1>2. DiskOK'
    BY <1>1, PersistSameOK DEF Start
  <1>3. VolatileOK'
    BY DEF VolatileOK, Start, leaderVars
  <1>4. NetOK'
    BY DEF NetOK, Start, SnapshotWhole
  <1>5. HistoryOK'
    <2>1. [term |-> currentTerm[i], log |-> FullLog(i)'] \in [term : Nat, log : Seq(Entry)]
      BY <1>1, <1>2, FullLogNextType DEF MemoryOK
    <2>2. leaderLogs' \in Seq([term : Nat, log : Seq(Entry)])
      <3> DEFINE S == [term : Nat, log : Seq(Entry)]
                 new == [term |-> currentTerm[i], log |-> FullLog(i)']
      <3>1. /\ leaderLogs \in Seq(S) /\ new \in S
            /\ leaderLogs' = [d \in DOMAIN leaderLogs |->
                                IF leaderLogs[d].term = currentTerm[i] THEN new
                                ELSE leaderLogs[d]]
        BY <2>1 DEF HistoryOK, Start
      <3> HIDE DEF S, new
      <3>2. leaderLogs' \in Seq(S)
        BY <3>1
      <3> QED BY <3>2 DEF S
    <2>3. acked' \subseteq [term : Nat, node : Server, index : Nat]
      BY LastLogIndexType DEF HistoryOK, Start, MemoryOK
    <2> QED BY <2>2, <2>3 DEF HistoryOK, Start
  <1> QED BY <1>1, <1>2, <1>3, <1>4, <1>5

LEMMA AppendEntriesReplyType ==
    ASSUME NEW m \in AppendEntriesArgs, NEW term \in Nat, NEW success \in BOOLEAN,
           NEW conflictTerm \in Nat \cup {-1}, NEW conflictIndex \in Nat
    PROVE  AppendEntriesReplyTo(m, term, success, conflictTerm, conflictIndex)
             \in AppendEntriesReply
  <1>1. /\ m.caller \in Server /\ m.callee \in Server /\ m.inc \in Nat /\ m.Term \in Nat
        /\ m.PrevLogIndex + Len(m.Entries) \in Nat
    BY LenProperties DEF AppendEntriesArgs
  <1> QED BY <1>1 DEF AppendEntriesReplyTo, AppendEntriesReply

LEMMA TypeAppendEntries ==
    ASSUME TypeInv, NEW m \in BagToSet(net), AppendEntries(m)
    PROVE  TypeInv'
  <1> USE DEF TypeInv
  <1> DEFINE i == m.callee
             p == m.PrevLogIndex
             ok == p \in lastIncludedIndex[i] .. lastLogIndex(i)
  <1>1. m \in AppendEntriesArgs
    BY MessageKinds DEF NetOK, AppendEntries
  <1>2. i \in Server /\ m.Term \in Nat /\ p \in Nat /\ m.Entries \in Seq(Entry)
    BY <1>1 DEF AppendEntriesArgs
  <1>3. /\ currentTerm[i] \in Nat /\ lastIncludedIndex[i] + 1 \in Nat
        /\ lastLogIndex(i) + 1 \in Nat
    BY <1>2, LastLogIndexType DEF MemoryOK
  <1>4. ok => /\ logTerm(i, p) \in Nat
              /\ conflictStart(i, p) \in Nat
              /\ mergedLog(i, p, m.Entries) \in Seq(Entry)
    BY <1>2, LogTermType, ConflictStartType, MergedLogType
  <1>5. commitAfter(i, m) \in Nat
    BY <1>1, <1>2, CommitAfterType
  <1> HIDE DEF i, p, ok
  <1>6. MemoryOK'
    <2>1. log' \in [Server -> Seq(Entry)]
      BY <1>2, <1>4 DEF AppendEntries, MemoryOK, durableVars, i, p, ok
    <2> QED BY <1>2, <2>1 DEF AppendEntries, MemoryOK, durableVars, i
  <1>7. DiskOK'
    <2>1. CASE persist(i) /\ UNCHANGED lastIncludedIndex
      BY <1>2, <1>6, <2>1, PersistSameOK
    <2>2. CASE UNCHANGED <<durableVars, persister>>
      BY <2>2, DiskUnchangedOK DEF durableVars
    <2> QED BY <2>1, <2>2 DEF AppendEntries, i
  <1>8. VolatileOK'
    <2>1. commitIndex' \in [Server -> Nat]
      BY <1>2, <1>5 DEF AppendEntries, VolatileOK, i, p
    <2>2. state' \in [Server -> {"follower", "candidate", "leader"}]
      BY <1>2 DEF AppendEntries, VolatileOK, i
    <2> QED BY <2>1, <2>2 DEF AppendEntries, VolatileOK, leaderVars, taskVars
  <1>9. NetOK'
    <2>1. PICK term \in Nat, success \in BOOLEAN, conflictTerm \in Nat \cup {-1},
                conflictIndex \in Nat :
             Reply(m, AppendEntriesReplyTo(m, term, success, conflictTerm, conflictIndex))
      <3>1. CASE Reply(m, AppendEntriesReplyTo(m, currentTerm[i], FALSE, -1, 0))
        BY <1>3, <3>1
      <3>2. CASE Reply(m, AppendEntriesReplyTo(m, m.Term, FALSE, -1, lastIncludedIndex[i] + 1))
        BY <1>2, <1>3, <3>2
      <3>3. CASE Reply(m, AppendEntriesReplyTo(m, m.Term, FALSE, -1, lastLogIndex(i) + 1))
        BY <1>2, <1>3, <3>3
      <3>4. CASE /\ ok
                 /\ Reply(m, AppendEntriesReplyTo(m, m.Term, FALSE, logTerm(i, p),
                                                  conflictStart(i, p)))
        BY <1>2, <1>4, <3>4
      <3>5. CASE Reply(m, AppendEntriesReplyTo(m, m.Term, TRUE, -1, 0))
        BY <1>2, <3>5
      <3> QED BY <3>1, <3>2, <3>3, <3>4, <3>5 DEF AppendEntries, i, p, ok
    <2> DEFINE reply == AppendEntriesReplyTo(m, term, success, conflictTerm, conflictIndex)
    <2>2. reply \in AppendEntriesReply
      BY <1>1, AppendEntriesReplyType
    <2>3. Reply(m, reply)
      BY <2>1
    <2> HIDE DEF reply
    <2> QED BY <2>2, <2>3, NetReply, SendOK, PlainMessage DEF NetOK
  <1>10. HistoryOK'
    <2>1. Acknowledged(m) \subseteq [term : Nat, node : Server, index : Nat]
      BY <1>1, LenProperties DEF Acknowledged, AppendEntriesArgs
    <2>2. acked' = acked \/ acked' = acked \cup Acknowledged(m)
      BY DEF AppendEntries
    <2> QED BY <2>1, <2>2 DEF AppendEntries, HistoryOK
  <1> QED BY <1>6, <1>7, <1>8, <1>9, <1>10

LEMMA TypeSnapshot ==
    ASSUME TypeInv, NEW i \in Server, NEW index \in Nat, Snapshot(i, index)
    PROVE  TypeInv'
  <1> USE DEF TypeInv
  <1>1. index \in (lastIncludedIndex[i] + 1) .. lastLogIndex(i)
    BY DEF Snapshot
  <1>2. /\ index \in lastIncludedIndex[i] .. lastLogIndex(i)
        /\ index \in 0 .. lastLogIndex(i)
    BY <1>1, LastLogIndexType DEF MemoryOK
  <1>3. MemoryOK'
    <2>1. logAfter(i, index) \in Seq(Entry) /\ logTerm(i, index) \in Nat
      BY <1>2, LogAfterType, LogTermType
    <2> QED BY <2>1 DEF MemoryOK, Snapshot
  <1>4. DiskOK'
    <2>1. /\ SubSeq(FullLog(i), 1, index) \in Seq(Entry)
          /\ Len(SubSeq(FullLog(i), 1, index)) = index
      BY <1>2, FullLogPrefix
    <2>2. /\ lastIncludedIndex'[i] = index
          /\ \A j \in Server \ {i} : lastIncludedIndex'[j] = lastIncludedIndex[j]
          /\ lastIncludedIndex \in [Server -> Nat]
          /\ persistWithSnapshot(i, SubSeq(FullLog(i), 1, index))
      BY DEF Snapshot, MemoryOK
    <2> QED BY <1>3, <2>1, <2>2, PersistOK
  <1>5. VolatileOK' /\ NetOK' /\ HistoryOK'
    BY DEF Snapshot, VolatileOK, NetOK, HistoryOK, leaderVars, taskVars, histVars,
           SnapshotWhole
  <1> QED BY <1>3, <1>4, <1>5

LEMMA TypeInstallSnapshot ==
    ASSUME TypeInv, NEW m \in BagToSet(net), InstallSnapshot(m)
    PROVE  TypeInv'
  <1> USE DEF TypeInv
  <1> DEFINE i == m.callee
             index == m.LastIncludedIndex
             kept == IF index <= lastLogIndex(i) THEN logAfter(i, index) ELSE <<>>
  <1>1. m \in InstallSnapshotArgs /\ Len(m.Data) = index
    BY MessageKinds DEF NetOK, SnapshotWhole, InstallSnapshot
  <1>2. /\ i \in Server /\ m.caller \in Server /\ m.inc \in Nat /\ m.Term \in Nat
        /\ index \in Nat /\ m.LastIncludedTerm \in Nat /\ m.Data \in Seq(Entry)
    BY <1>1 DEF InstallSnapshotArgs
  <1>3. index > lastIncludedIndex[i] => kept \in Seq(Entry)
    <2>1. lastLogIndex(i) \in Nat /\ lastIncludedIndex[i] \in Nat
      BY <1>2, LastLogIndexType DEF MemoryOK
    <2>2. ASSUME index > lastIncludedIndex[i], index <= lastLogIndex(i)
          PROVE  logAfter(i, index) \in Seq(Entry)
      BY <1>2, <2>1, <2>2, LogAfterType
    <2> QED BY <2>2
  <1>4. Max({commitIndex[i], index}) \in Nat
    BY <1>2, MaxPair DEF VolatileOK
  <1> HIDE DEF i, index, kept
  <1>5. MemoryOK'
    <2>1. log' \in [Server -> Seq(Entry)]
      BY <1>2, <1>3 DEF InstallSnapshot, MemoryOK, durableVars, i, index, kept
    <2>2. /\ currentTerm' \in [Server -> Nat]
          /\ votedFor' \in [Server -> Server \cup {Nil}]
      BY <1>2 DEF InstallSnapshot, MemoryOK, durableVars, i
    <2>3. /\ lastIncludedIndex' \in [Server -> Nat]
          /\ lastIncludedTerm' \in [Server -> Nat]
      BY <1>2 DEF InstallSnapshot, MemoryOK, durableVars, i, index
    <2> QED BY <2>1, <2>2, <2>3 DEF MemoryOK
  <1>6. DiskOK'
    <2>1. CASE UNCHANGED <<persister, lastIncludedIndex>>
      BY <2>1, DiskUnchangedOK
    <2>2. CASE /\ lastIncludedIndex' = [lastIncludedIndex EXCEPT ![i] = index]
               /\ persistWithSnapshot(i, m.Data)
      <3>1. /\ lastIncludedIndex'[i] = index
            /\ \A j \in Server \ {i} : lastIncludedIndex'[j] = lastIncludedIndex[j]
            /\ lastIncludedIndex \in [Server -> Nat]
        BY <1>2, <2>2 DEF MemoryOK
      <3> QED BY <1>1, <1>2, <1>5, <2>2, <3>1, PersistOK
    <2> QED BY <2>1, <2>2 DEF InstallSnapshot, durableVars, i, index
  <1>7. VolatileOK'
    <2>1. commitIndex' \in [Server -> Nat]
      BY <1>2, <1>4 DEF InstallSnapshot, VolatileOK, i, index
    <2>2. state' \in [Server -> {"follower", "candidate", "leader"}]
      BY <1>2 DEF InstallSnapshot, VolatileOK, i
    <2> QED BY <2>1, <2>2 DEF InstallSnapshot, VolatileOK, leaderVars, taskVars
  <1>8. NetOK'
    <2> DEFINE reply == [kind |-> "InstallSnapshotReply", caller |-> m.caller, callee |-> i,
                         inc |-> m.inc, term |-> m.Term, lastIncludedIndex |-> index,
                         Term |-> currentTerm[i]]
    <2>1. currentTerm[i] \in Nat
      BY <1>2 DEF MemoryOK
    <2>2. reply \in InstallSnapshotReply
      BY <1>2, <2>1 DEF InstallSnapshotReply
    <2>3. Reply(m, reply)
      BY DEF InstallSnapshot, i, index
    <2> HIDE DEF reply
    <2> QED BY <2>2, <2>3, NetReply, SendOK, PlainMessage DEF NetOK
  <1>9. HistoryOK'
    BY DEF InstallSnapshot, HistoryOK, histVars
  <1> QED BY <1>5, <1>6, <1>7, <1>8, <1>9

LEMMA TypeHandleInstallSnapshotReply ==
    ASSUME TypeInv, NEW m \in BagToSet(net), HandleInstallSnapshotReply(m)
    PROVE  TypeInv'
  <1> USE DEF TypeInv
  <1> DEFINE i == m.caller
             p == m.callee
             match == Max({matchIndex[i][p], m.lastIncludedIndex})
  <1>1. m \in InstallSnapshotReply
    BY MessageKinds DEF NetOK, HandleInstallSnapshotReply
  <1>2. i \in Server /\ p \in Server /\ m.Term \in Nat /\ m.lastIncludedIndex \in Nat
    BY <1>1 DEF InstallSnapshotReply
  <1>3. match \in Nat
    BY <1>2, MaxPair DEF VolatileOK
  <1> HIDE DEF i, p, match
  <1>4. MemoryOK' /\ DiskOK'
    <2>1. CASE demote(i, m.Term)
      BY <1>2, <2>1, DemoteOK
    <2>2. CASE UNCHANGED <<durableVars, persister>>
      BY <2>2, DiskUnchangedOK DEF MemoryOK, durableVars
    <2> QED BY <2>1, <2>2 DEF HandleInstallSnapshotReply, i
  <1>5. VolatileOK'
    <2>1. state' \in [Server -> {"follower", "candidate", "leader"}]
      BY <1>2 DEF HandleInstallSnapshotReply, demote, VolatileOK, i
    <2>2. /\ nextIndex' \in [Server -> [Server -> Nat]]
          /\ matchIndex' \in [Server -> [Server -> Nat]]
      <3>1. CASE UNCHANGED leaderVars
        BY <3>1 DEF VolatileOK, leaderVars
      <3>2. CASE /\ matchIndex' = [matchIndex EXCEPT ![i][p] = match]
                 /\ nextIndex' = [nextIndex EXCEPT ![i][p] = match + 1]
        BY <1>2, <1>3, <3>2 DEF VolatileOK
      <3> QED BY <3>1, <3>2 DEF HandleInstallSnapshotReply, i, p, match
    <2> QED BY <2>1, <2>2 DEF HandleInstallSnapshotReply, VolatileOK, taskVars
  <1>6. NetOK'
    BY NetDiscard, ShrinkOK DEF NetOK, HandleInstallSnapshotReply
  <1>7. HistoryOK'
    BY DEF HistoryOK, HandleInstallSnapshotReply, histVars
  <1> QED BY <1>4, <1>5, <1>6, <1>7

LEMMA RestartFromOK ==
    ASSUME TypeInv, NEW i \in Server, NEW disk \in PersistedState, RestartFrom(i, disk),
           disk.lastIncludedIndex = lastIncludedIndex[i],
           Len(disk.snapshot) = lastIncludedIndex[i]
    PROVE  MemoryOK' /\ VolatileOK' /\ DiskOK' /\ HistoryOK'
  <1> USE DEF TypeInv
  <1>1. /\ disk.currentTerm \in Nat /\ disk.votedFor \in Server \cup {Nil}
        /\ disk.log \in Seq(Entry) /\ disk.lastIncludedIndex \in Nat
        /\ disk.lastIncludedTerm \in Nat
    BY DEF PersistedState
  <1>2. MemoryOK'
    BY <1>1 DEF MemoryOK, RestartFrom
  <1>3. DiskOK'
    BY DEF DiskOK, MemoryOK, RestartFrom
  <1>4. VolatileOK'
    <2>1. /\ nextIndex' \in [Server -> [Server -> Nat]]
          /\ matchIndex' \in [Server -> [Server -> Nat]]
      BY DEF VolatileOK, RestartFrom, noMatch, firstNext
    <2>2. commitIndex' \in [Server -> Nat] /\ restarts' \in [Server -> Nat]
      BY SMTT(60), <1>1 DEF VolatileOK, RestartFrom
    <2>3. state' \in [Server -> {"follower", "candidate", "leader"}]
      BY DEF VolatileOK, RestartFrom
    <2>4. votes' \in [Server -> SUBSET Server]
      BY DEF VolatileOK, RestartFrom
    <2>5. heartbeating' \subseteq Server /\ captures' \subseteq Capture
      BY DEF VolatileOK, RestartFrom
    <2> QED BY <2>1, <2>2, <2>3, <2>4, <2>5 DEF VolatileOK
  <1>5. HistoryOK'
    BY DEF HistoryOK, RestartFrom, histVars
  <1> QED BY <1>2, <1>3, <1>4, <1>5

LEMMA TypeRestart ==
    ASSUME TypeInv, NEW i \in Server, Restart(i)
    PROVE  TypeInv'
  <1> USE DEF TypeInv
  <1>1. MemoryOK' /\ VolatileOK' /\ DiskOK' /\ HistoryOK'
    BY RestartFromOK DEF Restart, DiskOK
  <1>2. NetOK'
    <2> DEFINE left == {n \in BagToSet(net) : ~IsReplyTo(n, i)}
    <2>1. net' = [m \in left |-> net[m]]
      BY DEF Restart, BagToSet
    <2>2. left \subseteq BagToSet(net)
      OBVIOUS
    <2> HIDE DEF left
    <2>3. IsABag(net') /\ BagToSet(net') = left
      BY <2>1, <2>2, BagRestrict DEF NetOK
    <2> QED BY <2>2, <2>3, ShrinkOK
  <1> QED BY <1>1, <1>2

LEMMA TypeCrashInHandler ==
    ASSUME TypeInv, NEW m \in BagToSet(net), CrashInHandler(m)
    PROVE  TypeInv'
  <1> USE DEF TypeInv
  <1> DEFINE i == m.callee
             disk == [persister[i] EXCEPT
                        !.currentTerm = m.Term,
                        !.votedFor = IF m.kind = "RequestVote" THEN Nil ELSE votedFor[i]]
             net1 == net (-) SetToBag({m})
             left == {n \in BagToSet(net1) : ~IsReplyTo(n, i)}
  <1>1. i \in Server /\ m.Term \in Nat
    BY MessageFields DEF NetOK
  <1>2. disk \in PersistedState
    <2>1. votedFor[i] \in Server \cup {Nil} /\ persister[i] \in PersistedState
      BY <1>1 DEF MemoryOK, DiskOK
    <2> QED BY <1>1, <2>1 DEF PersistedState
  <1>3. /\ disk.lastIncludedIndex = lastIncludedIndex[i]
        /\ Len(disk.snapshot) = lastIncludedIndex[i]
    BY <1>1 DEF DiskOK, PersistedState
  <1>4. RestartFrom(i, disk)
    BY DEF CrashInHandler
  <1>5. MemoryOK' /\ VolatileOK' /\ DiskOK' /\ HistoryOK'
    <2> HIDE DEF disk, i
    <2> QED BY <1>1, <1>2, <1>3, <1>4, RestartFromOK
  <1>6. NetOK'
    <2>1. net' = [n \in left |-> net1[n]]
      BY DEF CrashInHandler, BagToSet
    <2>2. IsABag(net1) /\ BagToSet(net1) \subseteq BagToSet(net)
      BY BagRemove DEF NetOK
    <2>3. left \subseteq BagToSet(net1)
      OBVIOUS
    <2> HIDE DEF left, net1
    <2>4. IsABag(net') /\ BagToSet(net') = left
      BY <2>1, <2>2, <2>3, BagRestrict
    <2> QED BY <2>2, <2>3, <2>4, ShrinkOK
  <1> QED BY <1>5, <1>6

LEMMA InitTypeInv == Init => TypeInv
  <1> SUFFICES ASSUME Init PROVE TypeInv
    OBVIOUS
  <1> USE DEF Init, noMatch, firstNext
  <1>1. MemoryOK /\ HistoryOK
    BY EmptySeq DEF MemoryOK, HistoryOK
  <1>2. VolatileOK
    BY DEF VolatileOK
  <1>3. DiskOK
    BY EmptySeq DEF DiskOK, PersistedState
  <1>4. NetOK
    BY DEF NetOK, EmptyBag, SetToBag, IsABag, BagToSet
  <1> QED BY <1>1, <1>2, <1>3, <1>4 DEF TypeInv

LEMMA StutterTypeInv == TypeInv /\ UNCHANGED vars => TypeInv'
  BY DEF TypeInv, MemoryOK, VolatileOK, DiskOK, NetOK, HistoryOK, SnapshotWhole, vars,
         durableVars, leaderVars, taskVars, histVars

LEMMA NextTypeInv == TypeInv /\ [Next]_vars => TypeInv'
  <1> SUFFICES ASSUME TypeInv, Next PROVE TypeInv'
    BY StutterTypeInv
  <1>1. ASSUME NEW i \in Server, startElection(i) PROVE TypeInv'
    BY <1>1, TypeStartElection
  <1>2. ASSUME NEW i \in Server, sendHeartbeats(i) PROVE TypeInv'
    BY <1>2, TypeSendHeartbeats
  <1>3. ASSUME NEW i \in Server, NEW command \in Command, Start(i, command) PROVE TypeInv'
    BY <1>3, TypeStart
  <1>4. ASSUME NEW i \in Server, NEW index \in 1 .. MaxSnapshotIndex, Snapshot(i, index)
        PROVE  TypeInv'
    BY <1>4, TypeSnapshot, BoundsAssumption
  <1>5. ASSUME NEW i \in Server, Restart(i) PROVE TypeInv'
    BY <1>5, TypeRestart
  <1>6. ASSUME NEW c \in captures, NEW peer \in Others(c.src), replicate(c, peer)
        PROVE  TypeInv'
    BY <1>6, TypeReplicate DEF Others
  <1>7. ASSUME NEW m \in BagToSet(net), RequestVote(m) PROVE TypeInv'
    BY <1>7, TypeRequestVote
  <1>8. ASSUME NEW m \in BagToSet(net), HandleRequestVoteReply(m) PROVE TypeInv'
    BY <1>8, TypeHandleRequestVoteReply
  <1>9. ASSUME NEW m \in BagToSet(net), AppendEntries(m) PROVE TypeInv'
    BY <1>9, TypeAppendEntries
  <1>10. ASSUME NEW m \in BagToSet(net), HandleAppendEntriesReply(m) PROVE TypeInv'
    BY <1>10, TypeHandleAppendEntriesReply
  <1>11. ASSUME NEW m \in BagToSet(net), InstallSnapshot(m) PROVE TypeInv'
    BY <1>11, TypeInstallSnapshot
  <1>12. ASSUME NEW m \in BagToSet(net), HandleInstallSnapshotReply(m) PROVE TypeInv'
    BY <1>12, TypeHandleInstallSnapshotReply
  <1>13. ASSUME NEW m \in BagToSet(net), CrashInHandler(m) PROVE TypeInv'
    BY <1>13, TypeCrashInHandler
  <1> QED BY <1>1, <1>2, <1>3, <1>4, <1>5, <1>6, <1>7, <1>8, <1>9, <1>10, <1>11, <1>12,
             <1>13 DEF Next

\* Every field keeps its type, every message is well formed and a snapshot always has
\* exactly the entries its index says, whatever the nodes, commands and bounds.
THEOREM TypeInvariant == Spec => []TypeInv
  BY InitTypeInv, NextTypeInv, PTL DEF Spec

\* TypeOK: every field of Raft and every message keeps the type the code declares.
THEOREM TypeCorrect == Spec => []TypeOK
  BY TypeInvariant, TypeInvImpliesTypeOK, PTL

=============================================================================
