------------------------ MODULE RaftElectionProofs ------------------------
(* Election safety of module Raft: a term never has two leaders. *)
EXTENDS RaftTypeProofs

-----------------------------------------------------------------------------
(* Election safety.  The inductive invariant follows a vote from the voter to the   *)
(* majority: cast once per term and never forgotten, not even by a crash; counted   *)
(* only when it was cast; a leader had a majority of them.                          *)

Ballot(term, voter, candidate) == [term |-> term, voter |-> voter, candidate |-> candidate]

\* A node with this term and vote cannot contradict ballot b any more.
Keeps(term, vote, b) == term > b.term \/ (term = b.term /\ vote = b.candidate)

BallotsUnique ==
    \A a, b \in ballots : a.term = b.term /\ a.voter = b.voter => a.candidate = b.candidate

BallotsKept ==
    \A b \in ballots :
        /\ Keeps(currentTerm[b.voter], votedFor[b.voter], b)
        /\ Keeps(persister[b.voter].currentTerm, persister[b.voter].votedFor, b)

VotesAreBallots ==
    \A i \in Server : state[i] = "candidate" =>
        \A v \in votes[i] : Ballot(currentTerm[i], v, i) \in ballots

GrantIsBallot(m) ==
    m.kind = "RequestVoteReply" /\ m.VoteGranted => Ballot(m.term, m.callee, m.caller) \in ballots

RepliesAreBallots == \A m \in BagToSet(net) : GrantIsBallot(m)

ElectedByMajority ==
    \A e \in elected : \E Q \in SUBSET Server :
        IsMajority(Q) /\ \A v \in Q : Ballot(e.term, v, e.leader) \in ballots

VoteInv == BallotsUnique /\ BallotsKept /\ VotesAreBallots /\ RepliesAreBallots
           /\ ElectedByMajority

-----------------------------------------------------------------------------
(* Two majorities have a node in common *)

LEMMA MajoritiesMeet ==
    ASSUME NEW P \in SUBSET Server, NEW Q \in SUBSET Server, IsMajority(P), IsMajority(Q)
    PROVE  P \cap Q # {}
  <1>1. IsFiniteSet(Server)
    BY ServerAssumption
  <1>2. /\ Cardinality(Server) \in Nat
        /\ Cardinality(P) \in Nat
        /\ Cardinality(Q) \in Nat
    BY <1>1, FS_Subset, FS_CardinalityType
  <1>3. Cardinality(P) + Cardinality(Q) > Cardinality(Server)
    BY <1>2 DEF IsMajority
  <1> QED BY <1>1, <1>3, FS_MajoritiesIntersect

LEMMA VoteInvImpliesElectionSafety == TypeInv /\ VoteInv => ElectionSafety
  <1> SUFFICES ASSUME TypeInv, VoteInv, NEW e \in elected, NEW f \in elected, e.term = f.term
               PROVE  e.leader = f.leader
    BY DEF ElectionSafety
  <1>1. PICK P \in SUBSET Server :
           IsMajority(P) /\ \A v \in P : Ballot(e.term, v, e.leader) \in ballots
    BY DEF VoteInv, ElectedByMajority
  <1>2. PICK Q \in SUBSET Server :
           IsMajority(Q) /\ \A v \in Q : Ballot(f.term, v, f.leader) \in ballots
    BY DEF VoteInv, ElectedByMajority
  <1>3. PICK v \in P : v \in Q
    BY <1>1, <1>2, MajoritiesMeet
  <1>4. /\ Ballot(e.term, v, e.leader) \in ballots
        /\ Ballot(e.term, v, f.leader) \in ballots
    BY <1>1, <1>2, <1>3
  <1> QED BY <1>4 DEF VoteInv, BallotsUnique, Ballot

-----------------------------------------------------------------------------
(* Steps that cast no vote and make no leader *)

\* A node's term only grows, and within a term it keeps its vote.
MemoryForward(j) ==
    \/ currentTerm'[j] > currentTerm[j]
    \/ currentTerm'[j] = currentTerm[j] /\ votedFor'[j] = votedFor[j]

\* The disk keeps its term and vote or takes those of the memory.
DiskFollows(j) ==
    \/ /\ persister'[j].currentTerm = persister[j].currentTerm
       /\ persister'[j].votedFor = persister[j].votedFor
    \/ /\ persister'[j].currentTerm = currentTerm'[j]
       /\ persister'[j].votedFor = votedFor'[j]

StaysCandidate(j) ==
    state'[j] = "candidate" => /\ state[j] = "candidate"
                               /\ currentTerm'[j] = currentTerm[j]
                               /\ votes'[j] = votes[j]

NoNewGrant ==
    \A m \in BagToSet(net') :
        m \in BagToSet(net) \/ ~(m.kind = "RequestVoteReply" /\ m.VoteGranted)

LEMMA PersistFollows ==
    ASSUME DiskOK, NEW i \in Server, NEW snapshot, persistWithSnapshot(i, snapshot)
    PROVE  /\ \A j \in Server : DiskFollows(j)
           /\ persister'[i].currentTerm = currentTerm'[i]
           /\ persister'[i].votedFor = votedFor'[i]
  BY DEF DiskOK, persistWithSnapshot, DiskState, DiskFollows

LEMMA KeptForward ==
    ASSUME TypeInv, TypeInv', BallotsKept, ballots' = ballots,
           \A j \in Server : MemoryForward(j) /\ DiskFollows(j)
    PROVE  BallotsKept'
  <1> SUFFICES ASSUME NEW b \in ballots
               PROVE  /\ Keeps(currentTerm'[b.voter], votedFor'[b.voter], b)
                      /\ Keeps(persister'[b.voter].currentTerm, persister'[b.voter].votedFor, b)
    BY DEF BallotsKept, Keeps
  <1> DEFINE j == b.voter
  <1>1. /\ j \in Server /\ b.term \in Nat
        /\ currentTerm[j] \in Nat /\ currentTerm'[j] \in Nat
    BY DEF TypeInv, HistoryOK, MemoryOK
  <1>2. /\ Keeps(currentTerm[j], votedFor[j], b)
        /\ Keeps(persister[j].currentTerm, persister[j].votedFor, b)
    BY DEF BallotsKept
  <1>3. MemoryForward(j) /\ DiskFollows(j)
    BY <1>1
  <1> HIDE DEF j
  <1>4. Keeps(currentTerm'[j], votedFor'[j], b)
    BY <1>1, <1>2, <1>3 DEF Keeps, MemoryForward
  <1>5. Keeps(persister'[j].currentTerm, persister'[j].votedFor, b)
    BY <1>2, <1>3, <1>4 DEF Keeps, DiskFollows
  <1> QED BY <1>4, <1>5 DEF j

LEMMA ElectedKept ==
    ASSUME ElectedByMajority, elected' = elected, ballots \subseteq ballots'
    PROVE  ElectedByMajority'
  BY DEF ElectedByMajority, IsMajority, Ballot

LEMMA QuietStep ==
    ASSUME TypeInv, VoteInv, BallotsKept', ballots' = ballots, elected' = elected,
           \A j \in Server : StaysCandidate(j), NoNewGrant
    PROVE  VoteInv'
  <1>1. BallotsUnique'
    BY DEF VoteInv, BallotsUnique
  <1>2. VotesAreBallots'
    BY DEF VoteInv, VotesAreBallots, StaysCandidate, Ballot
  <1>3. RepliesAreBallots'
    BY DEF VoteInv, RepliesAreBallots, GrantIsBallot, NoNewGrant, Ballot
  <1>4. ElectedByMajority'
    BY ElectedKept DEF VoteInv
  <1> QED BY <1>1, <1>2, <1>3, <1>4 DEF VoteInv

LEMMA DemoteQuiet ==
    ASSUME TypeInv, NEW i \in Server, NEW term \in Nat, term > currentTerm[i],
           demote(i, term), UNCHANGED votes
    PROVE  \A j \in Server : MemoryForward(j) /\ DiskFollows(j) /\ StaysCandidate(j)
  <1>1. \A j \in Server : DiskFollows(j)
    BY PersistFollows DEF demote, persist, TypeInv
  <1>2. \A j \in Server : MemoryForward(j)
    BY DEF demote, TypeInv, MemoryOK, MemoryForward
  <1>3. \A j \in Server : StaysCandidate(j)
    BY DEF demote, TypeInv, MemoryOK, VolatileOK, StaysCandidate
  <1> QED BY <1>1, <1>2, <1>3

LEMMA SameQuiet ==
    ASSUME UNCHANGED <<durableVars, persister, state, votes>>
    PROVE  \A j \in Server : MemoryForward(j) /\ DiskFollows(j) /\ StaysCandidate(j)
  BY DEF durableVars, MemoryForward, DiskFollows, StaysCandidate

LEMMA VoteSendHeartbeats ==
    ASSUME TypeInv, TypeInv', VoteInv, NEW i \in Server, sendHeartbeats(i)
    PROVE  VoteInv'
  <1>1. \A j \in Server : MemoryForward(j) /\ DiskFollows(j) /\ StaysCandidate(j)
    BY SameQuiet DEF sendHeartbeats
  <1>2. ballots' = ballots /\ elected' = elected /\ NoNewGrant
    BY DEF sendHeartbeats, histVars, NoNewGrant
  <1> QED BY <1>1, <1>2, KeptForward, QuietStep DEF VoteInv

LEMMA VoteReplicate ==
    ASSUME TypeInv, TypeInv', VoteInv, NEW c \in captures, NEW peer, replicate(c, peer)
    PROVE  VoteInv'
  <1>1. \A j \in Server : MemoryForward(j) /\ DiskFollows(j) /\ StaysCandidate(j)
    BY SameQuiet DEF replicate
  <1>2. NoNewGrant
    <2>1. CASE Call({InstallSnapshotRequest(c.src, peer)})
      BY <2>1, NetCall DEF TypeInv, NetOK, NoNewGrant, InstallSnapshotRequest
    <2>2. CASE Call({AppendEntriesRequest(c, peer)})
      BY <2>2, NetCall DEF TypeInv, NetOK, NoNewGrant, AppendEntriesRequest
    <2> QED BY <2>1, <2>2 DEF replicate
  <1>3. ballots' = ballots /\ elected' = elected
    BY DEF replicate, histVars
  <1> QED BY <1>1, <1>2, <1>3, KeptForward, QuietStep DEF VoteInv

LEMMA VoteStart ==
    ASSUME TypeInv, TypeInv', VoteInv, NEW i \in Server, NEW command, Start(i, command)
    PROVE  VoteInv'
  <1>1. \A j \in Server : DiskFollows(j)
    BY PersistFollows DEF Start, persist, TypeInv
  <1>2. \A j \in Server : MemoryForward(j) /\ StaysCandidate(j)
    BY DEF Start, MemoryForward, StaysCandidate
  <1>3. ballots' = ballots /\ elected' = elected /\ NoNewGrant
    BY DEF Start, histVars, NoNewGrant
  <1> QED BY <1>1, <1>2, <1>3, KeptForward, QuietStep DEF VoteInv

LEMMA VoteSnapshot ==
    ASSUME TypeInv, TypeInv', VoteInv, NEW i \in Server, NEW index, Snapshot(i, index)
    PROVE  VoteInv'
  <1>1. \A j \in Server : DiskFollows(j)
    BY PersistFollows DEF Snapshot, TypeInv
  <1>2. \A j \in Server : MemoryForward(j) /\ StaysCandidate(j)
    BY DEF Snapshot, MemoryForward, StaysCandidate
  <1>3. ballots' = ballots /\ elected' = elected /\ NoNewGrant
    BY DEF Snapshot, histVars, NoNewGrant
  <1> QED BY <1>1, <1>2, <1>3, KeptForward, QuietStep DEF VoteInv

LEMMA VoteHandleAppendEntriesReply ==
    ASSUME TypeInv, TypeInv', VoteInv, NEW m \in BagToSet(net), HandleAppendEntriesReply(m)
    PROVE  VoteInv'
  <1>1. m.caller \in Server /\ m.Term \in Nat
    BY MessageFields DEF TypeInv, NetOK
  <1>2. \A j \in Server : MemoryForward(j) /\ DiskFollows(j) /\ StaysCandidate(j)
    <2>1. CASE m.Term > currentTerm[m.caller] /\ demote(m.caller, m.Term)
      BY <1>1, <2>1, DemoteQuiet DEF HandleAppendEntriesReply
    <2>2. CASE UNCHANGED <<durableVars, persister, state>>
      BY <2>2, SameQuiet DEF HandleAppendEntriesReply
    <2> QED BY <2>1, <2>2 DEF HandleAppendEntriesReply
  <1>3. NoNewGrant
    BY NetDiscard DEF HandleAppendEntriesReply, TypeInv, NetOK, NoNewGrant
  <1>4. ballots' = ballots /\ elected' = elected
    BY DEF HandleAppendEntriesReply
  <1> QED BY <1>2, <1>3, <1>4, KeptForward, QuietStep DEF VoteInv

LEMMA VoteHandleInstallSnapshotReply ==
    ASSUME TypeInv, TypeInv', VoteInv, NEW m \in BagToSet(net), HandleInstallSnapshotReply(m)
    PROVE  VoteInv'
  <1>1. m.caller \in Server /\ m.Term \in Nat
    BY MessageFields DEF TypeInv, NetOK
  <1>2. \A j \in Server : MemoryForward(j) /\ DiskFollows(j) /\ StaysCandidate(j)
    <2>1. CASE m.Term > currentTerm[m.caller] /\ demote(m.caller, m.Term)
      BY <1>1, <2>1, DemoteQuiet DEF HandleInstallSnapshotReply
    <2>2. CASE UNCHANGED <<durableVars, persister, state>>
      BY <2>2, SameQuiet DEF HandleInstallSnapshotReply
    <2> QED BY <2>1, <2>2 DEF HandleInstallSnapshotReply
  <1>3. NoNewGrant
    BY NetDiscard DEF HandleInstallSnapshotReply, TypeInv, NetOK, NoNewGrant
  <1>4. ballots' = ballots /\ elected' = elected
    BY DEF HandleInstallSnapshotReply, histVars
  <1> QED BY <1>2, <1>3, <1>4, KeptForward, QuietStep DEF VoteInv

\* AppendEntries keeps the vote of an older term, which only makes the node pickier.
LEMMA VoteAppendEntries ==
    ASSUME TypeInv, TypeInv', VoteInv, NEW m \in BagToSet(net), AppendEntries(m)
    PROVE  VoteInv'
  <1> DEFINE i == m.callee
  <1>1. i \in Server /\ m.Term \in Nat /\ currentTerm[i] \in Nat
    BY MessageFields DEF TypeInv, NetOK, MemoryOK
  <1>2. \A j \in Server : MemoryForward(j) /\ DiskFollows(j) /\ StaysCandidate(j)
    <2>1. CASE UNCHANGED <<durableVars, persister, state>>
      BY <2>1, SameQuiet DEF AppendEntries
    <2>2. CASE /\ m.Term >= currentTerm[i]
               /\ state' = [state EXCEPT ![i] = "follower"]
               /\ currentTerm' = [currentTerm EXCEPT ![i] = m.Term]
               /\ votedFor' = votedFor
               /\ persist(i)
      <3>1. \A j \in Server : DiskFollows(j)
        BY <1>1, <2>2, PersistFollows DEF persist, TypeInv
      <3>2. \A j \in Server : MemoryForward(j)
        BY <1>1, <2>2 DEF TypeInv, MemoryOK, MemoryForward
      <3>3. \A j \in Server : StaysCandidate(j)
        BY <1>1, <2>2 DEF TypeInv, MemoryOK, VolatileOK, StaysCandidate, AppendEntries
      <3> QED BY <3>1, <3>2, <3>3
    <2> QED BY <2>1, <2>2 DEF AppendEntries
  <1>3. NoNewGrant
    <2>1. PICK reply : Reply(m, reply) /\ reply.kind = "AppendEntriesReply"
      BY DEF AppendEntries, AppendEntriesReplyTo
    <2> QED BY <2>1, NetReply DEF TypeInv, NetOK, NoNewGrant
  <1>4. ballots' = ballots /\ elected' = elected
    BY DEF AppendEntries, histVars
  <1> QED BY <1>2, <1>3, <1>4, KeptForward, QuietStep DEF VoteInv

\* An outdated snapshot raises the term in memory only: the disk still keeps every ballot.
LEMMA VoteInstallSnapshot ==
    ASSUME TypeInv, TypeInv', VoteInv, NEW m \in BagToSet(net), InstallSnapshot(m)
    PROVE  VoteInv'
  <1> DEFINE i == m.callee
  <1>1. i \in Server /\ m.Term \in Nat /\ currentTerm[i] \in Nat
    BY MessageFields DEF TypeInv, NetOK, MemoryOK
  <1>2. \A j \in Server : MemoryForward(j) /\ DiskFollows(j) /\ StaysCandidate(j)
    <2>1. CASE UNCHANGED <<durableVars, persister, state>>
      BY <2>1, SameQuiet DEF InstallSnapshot
    <2>2. CASE /\ m.Term >= currentTerm[i]
               /\ state' = [state EXCEPT ![i] = "follower"]
               /\ currentTerm' = [currentTerm EXCEPT ![i] = m.Term]
               /\ votedFor' = [votedFor EXCEPT ![i] = IF m.Term > currentTerm[i] THEN Nil ELSE @]
               /\ UNCHANGED persister \/ persistWithSnapshot(i, m.Data)
      <3>1. \A j \in Server : DiskFollows(j)
        <4>1. CASE UNCHANGED persister
          BY <4>1 DEF DiskFollows
        <4>2. CASE persistWithSnapshot(i, m.Data)
          BY <1>1, <4>2, PersistFollows DEF TypeInv
        <4> QED BY <2>2, <4>1, <4>2
      <3>2. \A j \in Server : MemoryForward(j)
        BY <1>1, <2>2 DEF TypeInv, MemoryOK, MemoryForward
      <3>3. \A j \in Server : StaysCandidate(j)
        BY <1>1, <2>2 DEF TypeInv, MemoryOK, VolatileOK, StaysCandidate, InstallSnapshot
      <3> QED BY <3>1, <3>2, <3>3
    <2> QED BY <2>1, <2>2 DEF InstallSnapshot
  <1>3. NoNewGrant
    <2>1. PICK reply : Reply(m, reply) /\ reply.kind = "InstallSnapshotReply"
      BY DEF InstallSnapshot
    <2> QED BY <2>1, NetReply DEF TypeInv, NetOK, NoNewGrant
  <1>4. ballots' = ballots /\ elected' = elected
    BY DEF InstallSnapshot, histVars
  <1> QED BY <1>2, <1>3, <1>4, KeptForward, QuietStep DEF VoteInv

-----------------------------------------------------------------------------
(* Crashes: a node comes back with a term and vote that keep all its ballots *)

LEMMA RestartKeepsVotes ==
    ASSUME TypeInv, TypeInv', VoteInv, NEW i \in Server, NEW disk \in PersistedState,
           RestartFrom(i, disk), BagToSet(net') \subseteq BagToSet(net),
           \A b \in ballots : b.voter = i => Keeps(disk.currentTerm, disk.votedFor, b)
    PROVE  VoteInv'
  <1>1. BallotsKept'
    <2> SUFFICES ASSUME NEW b \in ballots
                 PROVE  /\ Keeps(currentTerm'[b.voter], votedFor'[b.voter], b)
                        /\ Keeps(persister'[b.voter].currentTerm,
                                 persister'[b.voter].votedFor, b)
      BY DEF BallotsKept, Keeps, RestartFrom, histVars
    <2>1. b.voter \in Server
      BY DEF TypeInv, HistoryOK
    <2>2. CASE b.voter = i
      <3>1. /\ currentTerm'[i] = disk.currentTerm /\ votedFor'[i] = disk.votedFor
            /\ persister'[i] = disk
        BY DEF RestartFrom, TypeInv, MemoryOK, DiskOK
      <3> QED BY <2>2, <3>1
    <2>3. CASE b.voter # i
      <3>1. /\ currentTerm'[b.voter] = currentTerm[b.voter]
            /\ votedFor'[b.voter] = votedFor[b.voter]
            /\ persister'[b.voter] = persister[b.voter]
        BY <2>1, <2>3 DEF RestartFrom, TypeInv, MemoryOK, DiskOK
      <3> QED BY <3>1 DEF VoteInv, BallotsKept
    <2> QED BY <2>2, <2>3
  <1>2. \A j \in Server : StaysCandidate(j)
    BY DEF RestartFrom, TypeInv, MemoryOK, VolatileOK, StaysCandidate
  <1>3. ballots' = ballots /\ elected' = elected /\ NoNewGrant
    BY DEF RestartFrom, histVars, NoNewGrant
  <1> QED BY <1>1, <1>2, <1>3, QuietStep

LEMMA VoteRestart ==
    ASSUME TypeInv, TypeInv', VoteInv, NEW i \in Server, Restart(i)
    PROVE  VoteInv'
  <1>1. BagToSet(net') \subseteq BagToSet(net)
    BY DEF Restart, BagToSet
  <1>2. \A b \in ballots : b.voter = i =>
           Keeps(persister[i].currentTerm, persister[i].votedFor, b)
    BY DEF VoteInv, BallotsKept
  <1>3. persister[i] \in PersistedState
    BY DEF TypeInv, DiskOK
  <1> QED BY <1>1, <1>2, <1>3, RestartKeepsVotes DEF Restart

LEMMA VoteCrashInHandler ==
    ASSUME TypeInv, TypeInv', VoteInv, NEW m \in BagToSet(net), CrashInHandler(m)
    PROVE  VoteInv'
  <1> DEFINE i == m.callee
             disk == [persister[i] EXCEPT
                        !.currentTerm = m.Term,
                        !.votedFor = IF m.kind = "RequestVote" THEN Nil ELSE votedFor[i]]
             net1 == net (-) SetToBag({m})
  <1>1. i \in Server /\ m.Term \in Nat /\ currentTerm[i] \in Nat
    BY MessageFields DEF TypeInv, NetOK, MemoryOK
  <1>2. BagToSet(net') \subseteq BagToSet(net)
    <2>1. BagToSet(net1) \subseteq BagToSet(net)
      BY BagRemove DEF TypeInv, NetOK
    <2>2. net' = [n \in {k \in DOMAIN net1 : ~IsReplyTo(k, i)} |-> net1[n]]
      BY DEF CrashInHandler
    <2> HIDE DEF net1
    <2> QED BY <2>1, <2>2 DEF BagToSet
  <1>3. persister[i] \in PersistedState /\ votedFor[i] \in Server \cup {Nil}
    BY <1>1 DEF TypeInv, DiskOK, MemoryOK
  <1>4. /\ disk \in PersistedState
        /\ disk.currentTerm = m.Term
        /\ disk.votedFor = IF m.kind = "RequestVote" THEN Nil ELSE votedFor[i]
    BY <1>1, <1>3 DEF PersistedState
  <1>5. RestartFrom(i, disk)
    BY DEF CrashInHandler
  <1>6. ASSUME NEW b \in ballots, b.voter = i
        PROVE  Keeps(disk.currentTerm, disk.votedFor, b)
    <2>1. Keeps(currentTerm[i], votedFor[i], b) /\ b.term \in Nat
      BY <1>6 DEF VoteInv, BallotsKept, TypeInv, HistoryOK
    <2>2. \/ m.kind = "RequestVote" /\ m.Term > currentTerm[i]
          \/ m.kind = "AppendEntries" /\ m.Term >= currentTerm[i]
      BY DEF CrashInHandler
    <2> HIDE DEF disk
    <2> QED BY <1>1, <1>4, <2>1, <2>2 DEF Keeps
  <1> HIDE DEF i, disk
  <1> QED BY <1>1, <1>2, <1>4, <1>5, <1>6, RestartKeepsVotes

-----------------------------------------------------------------------------
(* Steps that cast a vote *)

\* A node that moves to `term' and votes there, in memory and on disk, when it could.
LEMMA CastVote ==
    ASSUME TypeInv, TypeInv', VoteInv, NEW i \in Server, NEW candidate \in Server,
           NEW term \in Nat,
           \/ term > currentTerm[i]
           \/ term = currentTerm[i] /\ votedFor[i] \in {Nil, candidate},
           currentTerm' = [currentTerm EXCEPT ![i] = term],
           votedFor' = [votedFor EXCEPT ![i] = candidate],
           persist(i),
           ballots' = ballots \cup {Ballot(term, i, candidate)}
    PROVE  BallotsUnique' /\ BallotsKept'
  <1> DEFINE new == Ballot(term, i, candidate)
  <1>1. /\ currentTerm[i] \in Nat /\ currentTerm'[i] = term /\ votedFor'[i] = candidate
        /\ persister'[i].currentTerm = term /\ persister'[i].votedFor = candidate
    BY PersistFollows DEF TypeInv, MemoryOK, persist
  <1>2. \A j \in Server \ {i} : /\ currentTerm'[j] = currentTerm[j]
                               /\ votedFor'[j] = votedFor[j]
                               /\ persister'[j] = persister[j]
    BY DEF TypeInv, MemoryOK, DiskOK, persist, persistWithSnapshot
  <1>3. new.term = term /\ new.voter = i /\ new.candidate = candidate
    BY DEF Ballot
  <1>4. \A b \in ballots : b.voter \in Server /\ b.term \in Nat /\ b.candidate \in Server
    BY DEF TypeInv, HistoryOK
  <1>5. ASSUME NEW b \in ballots, b.voter = i
        PROVE  b.term < term \/ (b.term = term /\ b.candidate = candidate)
    <2>1. Keeps(currentTerm[i], votedFor[i], b)
      BY <1>5 DEF VoteInv, BallotsKept
    <2> QED BY <1>1, <1>4, <2>1, ServerAssumption DEF Keeps
  <1> HIDE DEF new
  <1>6. BallotsUnique'
    <2> SUFFICES ASSUME NEW a \in ballots \cup {new}, NEW b \in ballots \cup {new},
                        a.term = b.term, a.voter = b.voter
                 PROVE  a.candidate = b.candidate
      BY DEF BallotsUnique, new
    <2>1. CASE a \in ballots /\ b \in ballots
      BY <2>1 DEF VoteInv, BallotsUnique
    <2>2. CASE a \in ballots /\ b = new
      BY <1>3, <1>4, <1>5, <2>2
    <2>3. CASE a = new /\ b \in ballots
      BY <1>3, <1>4, <1>5, <2>3
    <2>4. CASE a = new /\ b = new
      BY <2>4
    <2> QED BY <2>1, <2>2, <2>3, <2>4
  <1>7. BallotsKept'
    <2> SUFFICES ASSUME NEW b \in ballots \cup {new}
                 PROVE  /\ Keeps(currentTerm'[b.voter], votedFor'[b.voter], b)
                        /\ Keeps(persister'[b.voter].currentTerm,
                                 persister'[b.voter].votedFor, b)
      BY DEF BallotsKept, Keeps, new
    <2>1. CASE b = new
      BY <1>1, <1>3, <2>1 DEF Keeps
    <2>2. CASE b \in ballots /\ b.voter = i
      BY <1>1, <1>4, <1>5, <2>2 DEF Keeps
    <2>3. CASE b \in ballots /\ b.voter # i
      BY <1>2, <1>4, <2>3 DEF VoteInv, BallotsKept
    <2> QED BY <2>1, <2>2, <2>3
  <1> QED BY <1>6, <1>7

LEMMA VoteStartElection ==
    ASSUME TypeInv, TypeInv', VoteInv, NEW i \in Server, startElection(i)
    PROVE  VoteInv'
  <1>1. currentTerm[i] \in Nat /\ currentTerm[i] + 1 \in Nat
    BY DEF TypeInv, MemoryOK
  <1>2. ballots' = ballots \cup {Ballot(currentTerm[i] + 1, i, i)} /\ elected' = elected
    BY DEF startElection, Ballot
  <1>3. BallotsUnique' /\ BallotsKept'
    <2>1. /\ currentTerm' = [currentTerm EXCEPT ![i] = currentTerm[i] + 1]
          /\ votedFor' = [votedFor EXCEPT ![i] = i]
          /\ persist(i)
      BY DEF startElection
    <2>2. currentTerm[i] + 1 > currentTerm[i]
      BY <1>1
    <2> QED BY <1>1, <1>2, <2>1, <2>2, CastVote
  <1>4. VotesAreBallots'
    <2> SUFFICES ASSUME NEW j \in Server, state'[j] = "candidate", NEW v \in votes'[j]
                 PROVE  Ballot(currentTerm'[j], v, j) \in ballots'
      BY DEF VotesAreBallots, Ballot
    <2>1. CASE j = i
      BY <1>2, <2>1 DEF startElection, TypeInv, MemoryOK, VolatileOK
    <2>2. CASE j # i
      <3>1. state[j] = "candidate" /\ v \in votes[j] /\ currentTerm'[j] = currentTerm[j]
        BY <2>2 DEF startElection, TypeInv, MemoryOK, VolatileOK
      <3> QED BY <1>2, <3>1 DEF VoteInv, VotesAreBallots
    <2> QED BY <2>1, <2>2
  <1>5. RepliesAreBallots'
    <2>1. PICK requests : /\ Call(requests)
                          /\ \A m \in requests : m.kind = "RequestVote"
      BY DEF startElection
    <2>2. \A m \in BagToSet(net') : m \in BagToSet(net) \/ m.kind = "RequestVote"
      BY <2>1, NetCall DEF TypeInv, NetOK
    <2> QED BY <1>2, <2>2 DEF VoteInv, RepliesAreBallots, GrantIsBallot, Ballot
  <1>6. ElectedByMajority'
    BY <1>2, ElectedKept DEF VoteInv
  <1> QED BY <1>3, <1>4, <1>5, <1>6 DEF VoteInv

LEMMA VoteRequestVote ==
    ASSUME TypeInv, TypeInv', VoteInv, NEW m \in BagToSet(net), RequestVote(m)
    PROVE  VoteInv'
  <1> DEFINE i      == m.callee
             higher == m.Term > currentTerm[i]
             voted  == IF higher THEN Nil ELSE votedFor[i]
             grant  == /\ m.Term >= currentTerm[i]
                       /\ voted \in {Nil, m.caller}
                       /\ logOk(i, m)
             reply  == [kind |-> "RequestVoteReply", caller |-> m.caller, callee |-> i,
                        inc |-> m.inc, term |-> m.Term, Term |-> currentTerm[i],
                        VoteGranted |-> grant]
  <1>1. /\ i \in Server /\ m.caller \in Server /\ m.Term \in Nat
        /\ currentTerm[i] \in Nat
    BY MessageFields DEF TypeInv, NetOK, MemoryOK
  <1>2. BagToSet(net') \subseteq BagToSet(net) \cup {reply}
    <2>1. Reply(m, reply)
      BY DEF RequestVote
    <2> HIDE DEF reply
    <2> QED BY <2>1, NetReply DEF TypeInv, NetOK
  <1>3. /\ reply.VoteGranted = grant
        /\ reply.term = m.Term /\ reply.callee = i /\ reply.caller = m.caller
    OBVIOUS
  <1> HIDE DEF reply
  <1>4. elected' = elected /\ votes' = votes
    BY DEF RequestVote
  <1>5. \A j \in Server : StaysCandidate(j)
    <2>1. /\ state' = [state EXCEPT ![i] = IF higher THEN "follower" ELSE @]
          /\ currentTerm' = [currentTerm EXCEPT ![i] = IF higher THEN m.Term ELSE @]
      BY DEF RequestVote
    <2> QED BY <1>4, <2>1 DEF TypeInv, MemoryOK, VolatileOK, StaysCandidate
  <1>6. CASE ~grant
    <2>1. ballots' = ballots
      BY <1>6 DEF RequestVote
    <2>2. /\ currentTerm' = [currentTerm EXCEPT ![i] = IF higher THEN m.Term ELSE @]
          /\ votedFor' = [votedFor EXCEPT ![i] = IF higher THEN Nil ELSE @]
          /\ persist(i) \/ UNCHANGED persister
      BY <1>6 DEF RequestVote
    <2>3. \A j \in Server : MemoryForward(j)
      BY <1>1, <2>2 DEF TypeInv, MemoryOK, MemoryForward
    <2>4. \A j \in Server : DiskFollows(j)
      <3>1. CASE persist(i)
        BY <1>1, <3>1, PersistFollows DEF TypeInv, persist
      <3>2. CASE UNCHANGED persister
        BY <3>2 DEF DiskFollows
      <3> QED BY <2>2, <3>1, <3>2
    <2>5. NoNewGrant
      BY <1>2, <1>3, <1>6 DEF NoNewGrant
    <2> HIDE DEF i, grant, higher, voted
    <2> QED BY <1>4, <1>5, <2>1, <2>3, <2>4, <2>5, KeptForward, QuietStep DEF VoteInv
  <1>7. CASE grant
    <2>1. ballots' = ballots \cup {Ballot(m.Term, i, m.caller)}
      BY <1>7 DEF RequestVote, Ballot
    <2>2. \/ m.Term > currentTerm[i]
          \/ m.Term = currentTerm[i] /\ votedFor[i] \in {Nil, m.caller}
      BY <1>1, <1>7
    <2>3. /\ currentTerm' = [currentTerm EXCEPT ![i] = m.Term]
          /\ votedFor' = [votedFor EXCEPT ![i] = m.caller]
          /\ persist(i)
      <3>1. currentTerm' = [currentTerm EXCEPT ![i] = IF higher THEN m.Term ELSE @]
        BY DEF RequestVote
      <3>2. currentTerm' = [currentTerm EXCEPT ![i] = m.Term]
        BY <1>1, <2>2, <3>1 DEF TypeInv, MemoryOK
      <3> QED BY <1>7, <3>2 DEF RequestVote
    <2> HIDE DEF i, grant, higher, voted
    <2>4. BallotsUnique' /\ BallotsKept'
      BY <1>1, <2>1, <2>2, <2>3, CastVote
    <2>5. VotesAreBallots'
      BY <1>5, <2>1 DEF VoteInv, VotesAreBallots, StaysCandidate, Ballot
    <2>6. RepliesAreBallots'
      <3> SUFFICES ASSUME NEW n \in BagToSet(net'), n.kind = "RequestVoteReply",
                          n.VoteGranted
                   PROVE  Ballot(n.term, n.callee, n.caller) \in ballots'
        BY DEF RepliesAreBallots, GrantIsBallot, Ballot
      <3>1. CASE n \in BagToSet(net)
        BY <2>1, <3>1 DEF VoteInv, RepliesAreBallots, GrantIsBallot
      <3>2. CASE n = reply
        BY <1>3, <2>1, <3>2
      <3> QED BY <1>2, <3>1, <3>2
    <2>7. ElectedByMajority'
      BY <1>4, <2>1, ElectedKept DEF VoteInv
    <2> QED BY <2>4, <2>5, <2>6, <2>7 DEF VoteInv
  <1> QED BY <1>6, <1>7

-----------------------------------------------------------------------------
(* Counting the votes *)

LEMMA VoteHandleRequestVoteReply ==
    ASSUME TypeInv, TypeInv', VoteInv, NEW m \in BagToSet(net), HandleRequestVoteReply(m)
    PROVE  VoteInv'
  <1> DEFINE i == m.caller
  <1>1. i \in Server /\ m.callee \in Server /\ m.Term \in Nat /\ currentTerm[i] \in Nat
    BY MessageFields DEF TypeInv, NetOK, MemoryOK
  <1>2. ballots' = ballots
    BY DEF HandleRequestVoteReply
  <1>3. NoNewGrant /\ BagToSet(net') \subseteq BagToSet(net)
    BY NetDiscard DEF HandleRequestVoteReply, TypeInv, NetOK, NoNewGrant
  <1>4. CASE UNCHANGED <<durableVars, persister, state, votes, elected>>
    <2>1. \A j \in Server : MemoryForward(j) /\ DiskFollows(j) /\ StaysCandidate(j)
      BY <1>4, SameQuiet
    <2> QED BY <1>2, <1>3, <1>4, <2>1, KeptForward, QuietStep DEF VoteInv
  <1>5. CASE /\ m.Term > currentTerm[i] /\ demote(i, m.Term)
             /\ UNCHANGED <<votes, elected>>
    <2>1. \A j \in Server : MemoryForward(j) /\ DiskFollows(j) /\ StaysCandidate(j)
      BY <1>1, <1>5, DemoteQuiet
    <2> QED BY <1>2, <1>3, <1>5, <2>1, KeptForward, QuietStep DEF VoteInv
  <1>6. CASE /\ currentTerm[i] = m.term /\ state[i] = "candidate" /\ m.VoteGranted
             /\ votes' = [votes EXCEPT ![i] = @ \cup {m.callee}]
             /\ IF IsMajority(votes'[i])
                THEN becomeLeader(i)
                ELSE UNCHANGED <<state, leaderVars, heartbeating, elected>>
             /\ UNCHANGED <<durableVars, persister>>
    <2>1. m.kind = "RequestVoteReply"
      BY DEF HandleRequestVoteReply
    <2>2. \A v \in votes'[i] : Ballot(currentTerm[i], v, i) \in ballots
      <3>1. Ballot(currentTerm[i], m.callee, i) \in ballots
        BY <1>6, <2>1 DEF VoteInv, RepliesAreBallots, GrantIsBallot
      <3>2. \A v \in votes[i] : Ballot(currentTerm[i], v, i) \in ballots
        BY <1>1, <1>6 DEF VoteInv, VotesAreBallots
      <3>3. votes'[i] = votes[i] \cup {m.callee}
        BY <1>1, <1>6 DEF TypeInv, VolatileOK
      <3> QED BY <3>1, <3>2, <3>3
    <2>3. currentTerm' = currentTerm /\ votedFor' = votedFor /\ persister' = persister
      BY <1>6 DEF durableVars
    <2>4. BallotsUnique' /\ BallotsKept'
      BY <1>2, <2>3 DEF VoteInv, BallotsUnique, BallotsKept, Keeps
    <2>5. VotesAreBallots'
      <3> SUFFICES ASSUME NEW j \in Server, state'[j] = "candidate", NEW v \in votes'[j]
                   PROVE  Ballot(currentTerm[j], v, j) \in ballots
        BY <1>2, <2>3 DEF VotesAreBallots, Ballot
      <3>1. CASE j = i
        BY <2>2, <3>1
      <3>2. CASE j # i
        <4>1. v \in votes[j]
          BY <1>1, <1>6, <3>2 DEF TypeInv, VolatileOK
        <4>2. state'[j] = state[j]
          <5>1. CASE becomeLeader(i)
            BY <1>1, <3>2, <5>1 DEF becomeLeader, TypeInv, VolatileOK
          <5>2. CASE state' = state
            BY <5>2
          <5> QED BY <1>6, <5>1, <5>2
        <4> QED BY <4>1, <4>2 DEF VoteInv, VotesAreBallots
      <3> QED BY <3>1, <3>2
    <2>6. RepliesAreBallots'
      BY <1>2, <1>3 DEF VoteInv, RepliesAreBallots, GrantIsBallot, Ballot
    <2>7. ElectedByMajority'
      <3>1. CASE elected' = elected
        BY <1>2, <3>1, ElectedKept DEF VoteInv
      <3>2. CASE IsMajority(votes'[i]) /\ becomeLeader(i)
        <4> SUFFICES ASSUME NEW e \in elected'
                     PROVE  \E Q \in SUBSET Server :
                              IsMajority(Q) /\ \A v \in Q : Ballot(e.term, v, e.leader) \in ballots
          BY <1>2 DEF ElectedByMajority, IsMajority, Ballot
        <4>1. CASE e \in elected
          BY <4>1 DEF VoteInv, ElectedByMajority
        <4>2. CASE e = [term |-> currentTerm[i], leader |-> i]
          <5>1. votes'[i] \in SUBSET Server
            BY <1>1 DEF TypeInv, VolatileOK
          <5>2. e.term = currentTerm[i] /\ e.leader = i
            BY <4>2
          <5> QED BY <2>2, <3>2, <5>1, <5>2
        <4> QED BY <3>2, <4>1, <4>2 DEF becomeLeader
      <3> QED BY <1>6, <3>1, <3>2
    <2> QED BY <2>4, <2>5, <2>6, <2>7 DEF VoteInv
  <1> QED BY <1>4, <1>5, <1>6 DEF HandleRequestVoteReply

-----------------------------------------------------------------------------

LEMMA InitVoteInv == Init => VoteInv
  <1> SUFFICES ASSUME Init PROVE VoteInv
    OBVIOUS
  <1>1. BagToSet(net) = {}
    BY DEF Init, EmptyBag, SetToBag, BagToSet
  <1> QED BY <1>1 DEF Init, VoteInv, BallotsUnique, BallotsKept, VotesAreBallots,
                      RepliesAreBallots, ElectedByMajority

LEMMA StutterVoteInv == VoteInv /\ UNCHANGED vars => VoteInv'
  BY DEF VoteInv, BallotsUnique, BallotsKept, Keeps, VotesAreBallots, RepliesAreBallots,
         GrantIsBallot, ElectedByMajority, IsMajority, Ballot, vars, durableVars, histVars

LEMMA NextVoteInv == TypeInv /\ TypeInv' /\ VoteInv /\ [Next]_vars => VoteInv'
  <1> SUFFICES ASSUME TypeInv, TypeInv', VoteInv, Next PROVE VoteInv'
    BY StutterVoteInv
  <1>1. ASSUME NEW i \in Server, startElection(i) PROVE VoteInv'
    BY <1>1, VoteStartElection
  <1>2. ASSUME NEW i \in Server, sendHeartbeats(i) PROVE VoteInv'
    BY <1>2, VoteSendHeartbeats
  <1>3. ASSUME NEW i \in Server, NEW command \in Command, Start(i, command) PROVE VoteInv'
    BY <1>3, VoteStart
  <1>4. ASSUME NEW i \in Server, NEW index \in 1 .. MaxSnapshotIndex, Snapshot(i, index)
        PROVE  VoteInv'
    BY <1>4, VoteSnapshot
  <1>5. ASSUME NEW i \in Server, Restart(i) PROVE VoteInv'
    BY <1>5, VoteRestart
  <1>6. ASSUME NEW c \in captures, NEW peer \in Others(c.src), replicate(c, peer)
        PROVE  VoteInv'
    BY <1>6, VoteReplicate
  <1>7. ASSUME NEW m \in BagToSet(net), RequestVote(m) PROVE VoteInv'
    BY <1>7, VoteRequestVote
  <1>8. ASSUME NEW m \in BagToSet(net), HandleRequestVoteReply(m) PROVE VoteInv'
    BY <1>8, VoteHandleRequestVoteReply
  <1>9. ASSUME NEW m \in BagToSet(net), AppendEntries(m) PROVE VoteInv'
    BY <1>9, VoteAppendEntries
  <1>10. ASSUME NEW m \in BagToSet(net), HandleAppendEntriesReply(m) PROVE VoteInv'
    BY <1>10, VoteHandleAppendEntriesReply
  <1>11. ASSUME NEW m \in BagToSet(net), InstallSnapshot(m) PROVE VoteInv'
    BY <1>11, VoteInstallSnapshot
  <1>12. ASSUME NEW m \in BagToSet(net), HandleInstallSnapshotReply(m) PROVE VoteInv'
    BY <1>12, VoteHandleInstallSnapshotReply
  <1>13. ASSUME NEW m \in BagToSet(net), CrashInHandler(m) PROVE VoteInv'
    BY <1>13, VoteCrashInHandler
  <1> QED BY <1>1, <1>2, <1>3, <1>4, <1>5, <1>6, <1>7, <1>8, <1>9, <1>10, <1>11, <1>12,
             <1>13 DEF Next

\* No vote is cast twice in a term, forgotten by a crash or counted without being cast,
\* and every leader had a majority (RequestVote, startElection, persist, readPersist).
THEOREM VotesAreSafe == Spec => []VoteInv
  BY InitVoteInv, NextVoteInv, TypeInvariant, PTL DEF Spec

\* No term ever has two leaders, with any number of nodes, of crashes inside and between
\* handlers and of lost, reordered and late RPCs (becomeLeader).
THEOREM OneLeaderPerTerm == Spec => []ElectionSafety
  BY VotesAreSafe, TypeInvariant, VoteInvImpliesElectionSafety, PTL

=============================================================================
