------------------------------- MODULE Raft -------------------------------
(***************************************************************************)
(* The consensus layer of crond: src/internal/raft/raft.go, with the       *)
(* durable part of persister.go and the at-most-once RPCs of rpc.go.       *)
(*                                                                         *)
(* Every section that holds rf.mu is one action, so the interleavings are  *)
(* those of the goroutines: the two loops, one goroutine per vote request, *)
(* one per heartbeat and peer, and the RPC handlers.  What a goroutine     *)
(* captured before it released the lock travels in its message or in       *)
(* `captures', exactly the values the closure keeps.                       *)
(*                                                                         *)
(* Time is abstracted: an election timeout may fire whenever the node is   *)
(* not leader and a heartbeat round whenever it is.  The sentinel log[0]   *)
(* is left out (logTerm never reads it), a snapshot is the sequence of     *)
(* entries it was made from, and the fields lastApplied, pendingSnapshot   *)
(* and applyCh belong to module ApplyPipeline.                             *)
(*                                                                         *)
(* An operator named Bug... is a plausible mistake in the definition after *)
(* it, to show that a property can fail; the specification uses none.      *)
(***************************************************************************)
EXTENDS Integers, Sequences, FiniteSets, FiniteSetsExt, Bags

CONSTANTS
    Server,         \* the peers, rf.peers
    Command,        \* what clients submit
    Nil,            \* votedFor = -1
    Lossy,          \* whether an RPC may fail
    \* Bounds of the model, none of them in the code.
    MaxTerm, MaxIndex, MaxSnapshotIndex,
    MaxRestarts,    \* of all the nodes together
    MaxRpcs         \* requests and replies in flight

ASSUME ServerAssumption == IsFiniteSet(Server) /\ Server # {} /\ Nil \notin Server
ASSUME LossyAssumption == Lossy \in BOOLEAN
ASSUME BoundsAssumption ==
    /\ MaxTerm \in Nat /\ MaxIndex \in Nat /\ MaxSnapshotIndex \in Nat
    /\ MaxRestarts \in Nat /\ MaxRpcs \in Nat

VARIABLES
    \* persistent fields of Raft, as held in memory
    currentTerm, votedFor, log, lastIncludedIndex, lastIncludedTerm,
    \* volatile fields
    commitIndex, nextIndex, matchIndex, state,
    votes,          \* the peers counted by the closure of startElection
    persister,      \* what each node would read back after a crash
    heartbeating,   \* the nodes where calls of sendHeartbeats may be waiting for rf.mu
    captures,       \* what the calls of sendHeartbeats so far captured for their goroutines
    net,            \* bag of RPC requests and replies
    restarts,       \* the incarnation of each node
    \* history: every vote cast, every leader made, what leaders committed
    ballots, elected, committed,
    leaderLogs,     \* history: the log of each leader, in the order of their election
    acked           \* history: how far nodes stored the log of a leader while in its term

durableVars == <<currentTerm, votedFor, log, lastIncludedIndex, lastIncludedTerm>>
leaderVars  == <<nextIndex, matchIndex>>
taskVars    == <<heartbeating, captures>>
histVars    == <<ballots, elected, committed, leaderLogs, acked>>
vars == <<durableVars, commitIndex, leaderVars, state, votes, persister, taskVars,
          net, restarts, histVars>>

-----------------------------------------------------------------------------
(* Values *)

Entry == [Term : Nat, Command : Command]

Capture == [src : Server, term : Nat, commitIndex : Nat]

\* `inc' is the caller's incarnation: a reply only reaches the process that called.
RequestVoteArgs ==
    [kind : {"RequestVote"}, caller : Server, callee : Server, inc : Nat,
     Term : Nat, LastLogIndex : Nat, LastLogTerm : Nat]

RequestVoteReply ==
    [kind : {"RequestVoteReply"}, caller : Server, callee : Server, inc : Nat,
     term : Nat, Term : Nat, VoteGranted : BOOLEAN]

AppendEntriesArgs ==
    [kind : {"AppendEntries"}, caller : Server, callee : Server, inc : Nat,
     Term : Nat, PrevLogIndex : Nat, PrevLogTerm : Nat, Entries : Seq(Entry),
     LeaderCommit : Nat]

AppendEntriesReply ==
    [kind : {"AppendEntriesReply"}, caller : Server, callee : Server, inc : Nat,
     term : Nat, newMatch : Nat, Term : Nat, Success : BOOLEAN,
     ConflictTerm : Nat \cup {-1}, ConflictIndex : Nat]

InstallSnapshotArgs ==
    [kind : {"InstallSnapshot"}, caller : Server, callee : Server, inc : Nat,
     Term : Nat, LastIncludedIndex : Nat, LastIncludedTerm : Nat,
     Data : Seq(Entry)]

InstallSnapshotReply ==
    [kind : {"InstallSnapshotReply"}, caller : Server, callee : Server, inc : Nat,
     term : Nat, lastIncludedIndex : Nat, Term : Nat]

Message == RequestVoteArgs \cup RequestVoteReply \cup AppendEntriesArgs
           \cup AppendEntriesReply \cup InstallSnapshotArgs \cup InstallSnapshotReply

PersistedState ==
    [currentTerm : Nat, votedFor : Server \cup {Nil}, log : Seq(Entry),
     lastIncludedIndex : Nat, lastIncludedTerm : Nat, snapshot : Seq(Entry)]

-----------------------------------------------------------------------------
(* The index helpers *)

\* get full length of the log
lastLogIndex(i) == lastIncludedIndex[i] + Len(log[i])

\* the term at an absolute index of the log
logTerm(i, absoluteIndex) ==
    IF absoluteIndex = lastIncludedIndex[i]
    THEN lastIncludedTerm[i]
    ELSE log[i][absoluteIndex - lastIncludedIndex[i]].Term

\* rf.log[rf.logIndex(absoluteIndex):] without the entry that becomes the sentinel
logAfter(i, absoluteIndex) ==
    SubSeq(log[i], absoluteIndex - lastIncludedIndex[i] + 1, Len(log[i]))

\* Everything the node knows: the entries its snapshot covers, then its log.
FullLog(i) == persister[i].snapshot \o log[i]

IsMajority(S) == Cardinality(S) >= Cardinality(Server) \div 2 + 1

Others(i) == Server \ {i}

-----------------------------------------------------------------------------
(* Stable storage and the network *)

DiskState(i, snapshot) ==
    [currentTerm       |-> currentTerm'[i],
     votedFor          |-> votedFor'[i],
     log               |-> log'[i],
     lastIncludedIndex |-> lastIncludedIndex'[i],
     lastIncludedTerm  |-> lastIncludedTerm'[i],
     snapshot          |-> snapshot]

\* One of the fields is not saved.
BugPersistNoVote(i, snapshot) ==
    persister' = [persister EXCEPT ![i] = [DiskState(i, snapshot) EXCEPT
                                               !.votedFor = persister[i].votedFor]]
BugPersistOldSnapshot(i, snapshot) ==
    persister' = [persister EXCEPT ![i] = DiskState(i, persister[i].snapshot)]
BugPersistNoTerm(i, snapshot) ==
    persister' = [persister EXCEPT ![i] = [DiskState(i, snapshot) EXCEPT
                                               !.currentTerm = persister[i].currentTerm]]

\* persistWithSnapshot: one atomic Save of the fields as this step leaves them.
persistWithSnapshot(i, snapshot) ==
    persister' = [persister EXCEPT ![i] = DiskState(i, snapshot)]

persist(i) == persistWithSnapshot(i, persister[i].snapshot)

\* Call fails when the dial or the request is lost: no retry, the goroutine just ends.
Call(requests) ==
    \E sent \in SUBSET requests :
        /\ Lossy \/ sent = requests
        /\ BagCardinality(net) + Cardinality(sent) <= MaxRpcs
        /\ net' = net (+) SetToBag(sent)

Discard(m) == net' = net (-) SetToBag({m})

\* The handler returned: its reply travels back, unless it is lost or the process that
\* called is gone.
Reply(m, reply) ==
    \/ (Lossy \/ m.inc # restarts[m.caller]) /\ Discard(m)
    \/ /\ m.inc = restarts[m.caller]
       /\ net' = (net (-) SetToBag({m})) (+) SetToBag({reply})

-----------------------------------------------------------------------------
(* Elections *)

\* electionTimeoutLoop fires and startElection asks every peer.
startElection(i) ==
    /\ state[i] # "leader"
    /\ currentTerm[i] < MaxTerm
    /\ state' = [state EXCEPT ![i] = "candidate"]
    /\ currentTerm' = [currentTerm EXCEPT ![i] = @ + 1]
    /\ votedFor' = [votedFor EXCEPT ![i] = i]
    /\ UNCHANGED <<log, lastIncludedIndex, lastIncludedTerm>>
    /\ persist(i)
    /\ votes' = [votes EXCEPT ![i] = {i}]
    /\ ballots' = ballots \cup
                  {[term |-> currentTerm[i] + 1, voter |-> i, candidate |-> i]}
    /\ Call({[kind |-> "RequestVote", caller |-> i, callee |-> j, inc |-> restarts[i],
              Term |-> currentTerm[i] + 1, LastLogIndex |-> lastLogIndex(i),
              LastLogTerm |-> logTerm(i, lastLogIndex(i))] : j \in Others(i)})
    /\ UNCHANGED <<commitIndex, leaderVars, taskVars, restarts, elected, committed,
                   leaderLogs, acked>>

\* Only the length of the logs is compared.
BugLogOkByLength(i, m) == m.LastLogIndex >= lastLogIndex(i)

\* The candidate's log is at least as up to date as that of node i.
logOk(i, m) ==
    LET lastTerm == logTerm(i, lastLogIndex(i))
    IN  \/ m.LastLogTerm > lastTerm
        \/ m.LastLogTerm = lastTerm /\ m.LastLogIndex >= lastLogIndex(i)

\* The RequestVote handler of m.callee.  reply.Term is read before the update.
RequestVote(m) ==
    LET i       == m.callee
        higher  == m.Term > currentTerm[i]
        voted   == IF higher THEN Nil ELSE votedFor[i]
        grant   == /\ m.Term >= currentTerm[i]
                   /\ voted \in {Nil, m.caller}
                   /\ logOk(i, m)
    IN  /\ m.kind = "RequestVote"
        /\ currentTerm' = [currentTerm EXCEPT ![i] = IF higher THEN m.Term ELSE @]
        /\ state' = [state EXCEPT ![i] = IF higher THEN "follower" ELSE @]
        /\ votedFor' = [votedFor EXCEPT ![i] = IF grant THEN m.caller
                                               ELSE IF higher THEN Nil ELSE @]
        /\ UNCHANGED <<log, lastIncludedIndex, lastIncludedTerm>>
        /\ IF higher \/ grant THEN persist(i) ELSE UNCHANGED persister
        /\ ballots' = IF grant
                      THEN ballots \cup
                           {[term |-> m.Term, voter |-> i, candidate |-> m.caller]}
                      ELSE ballots
        /\ Reply(m, [kind |-> "RequestVoteReply", caller |-> m.caller, callee |-> i,
                     inc |-> m.inc, term |-> m.Term, Term |-> currentTerm[i],
                     VoteGranted |-> grant])
        /\ UNCHANGED <<commitIndex, leaderVars, votes, taskVars, restarts,
                       elected, committed, leaderLogs, acked>>

\* A leader begins with no confirmations; until a node leads, both slices are nil (here their
\* lowest values).
noMatch   == [peer \in Server |-> 0]
firstNext == [peer \in Server |-> 1]

\* becomeLeader starts heartbeatLoop, which calls sendHeartbeats again and again.
becomeLeader(i) ==
    /\ state' = [state EXCEPT ![i] = "leader"]
    /\ matchIndex' = [matchIndex EXCEPT ![i] = noMatch]
    /\ nextIndex' = [nextIndex EXCEPT ![i] = [peer \in Server |-> lastLogIndex(i) + 1]]
    /\ heartbeating' = heartbeating \cup {i}
    /\ elected' = elected \cup {[term |-> currentTerm[i], leader |-> i]}
    /\ leaderLogs' = Append(leaderLogs, [term |-> currentTerm[i], log |-> FullLog(i)])

\* A reply shows a higher term: step down.
demote(i, term) ==
    /\ currentTerm' = [currentTerm EXCEPT ![i] = term]
    /\ state' = [state EXCEPT ![i] = "follower"]
    /\ votedFor' = [votedFor EXCEPT ![i] = Nil]
    /\ UNCHANGED <<log, lastIncludedIndex, lastIncludedTerm>>
    /\ persist(i)

\* The rest of the vote goroutine, back from its call.
HandleRequestVoteReply(m) ==
    LET i     == m.caller
        fresh == currentTerm[i] = m.term /\ state[i] = "candidate"
    IN  /\ m.kind = "RequestVoteReply"
        /\ Discard(m)
        /\ \/ /\ ~fresh \/ (m.Term <= currentTerm[i] /\ ~m.VoteGranted)
              /\ UNCHANGED <<durableVars, persister, state, leaderVars, votes, heartbeating,
                             elected, leaderLogs>>
           \/ /\ fresh
              /\ m.Term > currentTerm[i]
              /\ demote(i, m.Term)
              /\ UNCHANGED <<leaderVars, votes, heartbeating, elected, leaderLogs>>
           \/ /\ fresh
              /\ m.Term <= currentTerm[i]
              /\ m.VoteGranted
              /\ votes' = [votes EXCEPT ![i] = @ \cup {m.callee}]
              /\ IF IsMajority(votes'[i])
                 THEN becomeLeader(i)
                 ELSE UNCHANGED <<state, leaderVars, heartbeating, elected, leaderLogs>>
              /\ UNCHANGED <<durableVars, persister>>
        /\ UNCHANGED <<commitIndex, captures, restarts, ballots, committed, acked>>

-----------------------------------------------------------------------------
(* Replication, the leader's side *)

\* A call of sendHeartbeats, made by heartbeatLoop or Start while the node was leader,
\* gets the lock at last: it captures the term and the commit index, whatever the node
\* now is, and starts one goroutine per peer.
sendHeartbeats(i) ==
    /\ i \in heartbeating
    /\ captures' = captures \cup {[src |-> i, term |-> currentTerm[i],
                                   commitIndex |-> commitIndex[i]]}
    /\ UNCHANGED <<durableVars, commitIndex, leaderVars, state, votes, persister,
                   heartbeating, net, restarts, histVars>>

AppendEntriesRequest(c, peer) ==
    LET i            == c.src
        prevLogIndex == nextIndex[i][peer] - 1
    IN  [kind |-> "AppendEntries", caller |-> i, callee |-> peer, inc |-> restarts[i],
         Term |-> c.term, PrevLogIndex |-> prevLogIndex,
         PrevLogTerm |-> logTerm(i, prevLogIndex), Entries |-> logAfter(i, prevLogIndex),
         LeaderCommit |-> c.commitIndex]

\* sendSnapshot uses the term of now, not the captured one.
InstallSnapshotRequest(i, peer) ==
    [kind |-> "InstallSnapshot", caller |-> i, callee |-> peer, inc |-> restarts[i],
     Term |-> currentTerm[i], LastIncludedIndex |-> lastIncludedIndex[i],
     LastIncludedTerm |-> lastIncludedTerm[i], Data |-> persister[i].snapshot]

\* A goroutine that sendHeartbeats started for a peer gets the lock.  It gives up when
\* the node is no leader, but does not ask of which term.  There may be any number of
\* them, so a capture stays available.  A nextIndex beyond the log would be an index
\* panic and has no step here: NextIndexInRange says that it does not happen.
replicate(c, peer) ==
    LET i == c.src
    IN  /\ state[i] = "leader"
        /\ \/ /\ nextIndex[i][peer] <= lastIncludedIndex[i]
              /\ Call({InstallSnapshotRequest(i, peer)})
           \/ /\ nextIndex[i][peer] \in (lastIncludedIndex[i] + 1) .. (lastLogIndex(i) + 1)
              /\ Call({AppendEntriesRequest(c, peer)})
        /\ UNCHANGED <<durableVars, commitIndex, leaderVars, state, votes, persister,
                       taskVars, restarts, histVars>>

\* An entry counts as replicated on a peer that only has the one before it.
BugCommittableEarly(i, match) ==
    {n \in (commitIndex[i] + 1) .. lastLogIndex(i) :
        /\ logTerm(i, n) = currentTerm'[i]
        /\ IsMajority({i} \cup {j \in Others(i) : match[j] >= n - 1})}

\* The indices maybeAdvanceCommitIndex may commit once matchIndex[i] = match: entries of
\* the current term, which the same step may have just raised, that a majority has.
Committable(i, match) ==
    {n \in (commitIndex[i] + 1) .. lastLogIndex(i) :
        /\ logTerm(i, n) = currentTerm'[i]
        /\ IsMajority({i} \cup {j \in Others(i) : match[j] >= n})}

maybeAdvanceCommitIndex(i, match) ==
    LET ok == Committable(i, match)
        n  == Max(ok)
    IN  IF ok = {}
        THEN UNCHANGED <<commitIndex, committed>>
        ELSE /\ commitIndex' = [commitIndex EXCEPT ![i] = n]
             /\ committed' = IF n > Len(committed) THEN SubSeq(FullLog(i), 1, n)
                                                   ELSE committed

\* The follower's hint is off by one, without the floor; is off by one upwards; is ignored.
BugBackUpTooFar(i, m) == m.ConflictIndex - 1
BugBackUpTooLittle(i, m) == m.ConflictIndex + 1
BugNoBackUp(i, m) == nextIndex[i][m.callee]

\* The index to retry from after a rejection: past the leader's last entry of the
\* conflicting term, or where the follower said.
backUpTo(i, m) ==
    LET same == {j \in (lastIncludedIndex[i] + 1) .. lastLogIndex(i) :
                    logTerm(i, j) = m.ConflictTerm}
        ni   == IF m.ConflictTerm = -1 \/ same = {}
                THEN m.ConflictIndex
                ELSE Max(same) + 1
    IN  Max({ni, 1})

\* The goroutine is back from AppendEntries.  A demotion does not return early.
HandleAppendEntriesReply(m) ==
    LET i     == m.caller
        p     == m.callee
        match == [matchIndex[i] EXCEPT ![p] = Max({@, m.newMatch})]
    IN  /\ m.kind = "AppendEntriesReply"
        /\ Discard(m)
        /\ \/ /\ state[i] # "leader" \/ currentTerm[i] # m.term
              /\ UNCHANGED <<durableVars, persister, state, leaderVars, commitIndex,
                             committed>>
           \/ /\ state[i] = "leader" /\ currentTerm[i] = m.term
              /\ IF m.Term > currentTerm[i]
                 THEN demote(i, m.Term)
                 ELSE UNCHANGED <<durableVars, persister, state>>
              /\ \/ /\ m.Success
                    /\ matchIndex' = [matchIndex EXCEPT ![i] = match]
                    /\ nextIndex' = [nextIndex EXCEPT ![i][p] = match[p] + 1]
                    /\ maybeAdvanceCommitIndex(i, match)
                 \/ /\ ~m.Success
                    /\ nextIndex' = [nextIndex EXCEPT ![i][p] = backUpTo(i, m)]
                    /\ UNCHANGED <<matchIndex, commitIndex, committed>>
        /\ UNCHANGED <<votes, taskVars, restarts, ballots, elected, leaderLogs, acked>>

\* The service hands a command to the leader.
Start(i, command) ==
    /\ state[i] = "leader"
    /\ lastLogIndex(i) < MaxIndex
    /\ log' = [log EXCEPT ![i] = Append(@, [Term |-> currentTerm[i], Command |-> command])]
    /\ UNCHANGED <<currentTerm, votedFor, lastIncludedIndex, lastIncludedTerm>>
    /\ persist(i)
    /\ heartbeating' = heartbeating \cup {i}
    /\ leaderLogs' = [d \in DOMAIN leaderLogs |->
                        IF leaderLogs[d].term = currentTerm[i]
                        THEN [term |-> currentTerm[i], log |-> FullLog(i)']
                        ELSE leaderLogs[d]]
    /\ acked' = acked \cup {[term |-> currentTerm[i], node |-> i, index |-> lastLogIndex(i) + 1]}
    /\ UNCHANGED <<commitIndex, leaderVars, state, votes, captures, net, restarts,
                   ballots, elected, committed>>

-----------------------------------------------------------------------------
(* Replication, the follower's side *)

\* The first index of the run of equal terms that ends at p.
conflictStart(i, p) ==
    LET run == {k \in (lastIncludedIndex[i] + 1) .. p :
                   \A l \in k .. p : logTerm(i, l) = logTerm(i, p)}
    IN  IF run = {} THEN p ELSE Min(run)

\* Everything after PrevLogIndex is replaced; entries that are there are never compared.
BugMergeTruncates(i, p, entries) ==
    SubSeq(log[i], 1, p - lastIncludedIndex[i]) \o entries
BugMergeOnlyAppends(i, p, entries) ==
    log[i] \o SubSeq(entries, lastLogIndex(i) - p + 1, Len(entries))

\* Append from the first entry that is missing or of another term; entries that
\* agree are skipped and nothing behind them is truncated.
mergedLog(i, p, entries) ==
    LET new  == {k \in 1 .. Len(entries) :
                    p + k > lastLogIndex(i) \/ logTerm(i, p + k) # entries[k].Term}
        from == Min(new)
    IN  IF new = {}
        THEN log[i]
        ELSE SubSeq(log[i], 1, p + from - 1 - lastIncludedIndex[i])
             \o SubSeq(entries, from, Len(entries))

AppendEntriesReplyTo(m, term, success, conflictTerm, conflictIndex) ==
    [kind |-> "AppendEntriesReply", caller |-> m.caller, callee |-> m.callee,
     inc |-> m.inc, term |-> m.Term, newMatch |-> m.PrevLogIndex + Len(m.Entries),
     Term |-> term, Success |-> success,
     ConflictTerm |-> conflictTerm, ConflictIndex |-> conflictIndex]

\* A follower commits all it was sent; takes over the commit index of a leader behind it.
BugCommitAll(i, m) == m.PrevLogIndex + Len(m.Entries)
BugCommitFollowsLeader(i, m) == Min({m.LeaderCommit, m.PrevLogIndex + Len(m.Entries)})

\* commitIndex after the entries of m were accepted.
commitAfter(i, m) ==
    IF m.LeaderCommit > commitIndex[i]
    THEN Min({m.LeaderCommit, m.PrevLogIndex + Len(m.Entries)})
    ELSE commitIndex[i]

\* The request carries a part of this log.
SentFrom(m, entries) ==
    /\ m.PrevLogIndex + Len(m.Entries) <= Len(entries)
    /\ m.PrevLogIndex > 0 => entries[m.PrevLogIndex].Term = m.PrevLogTerm
    /\ \A k \in 1 .. Len(m.Entries) : m.Entries[k] = entries[m.PrevLogIndex + k]

\* What history notes of an accepted request: nothing when the goroutine that sent it had
\* captured a term earlier than that of the log it then read, and nothing when the
\* follower's snapshot covers it all.
Acknowledged(m) ==
    {[term |-> m.Term, node |-> m.callee, index |-> m.PrevLogIndex + Len(m.Entries)] :
        d \in {e \in DOMAIN leaderLogs :
                 /\ leaderLogs[e].term = m.Term /\ SentFrom(m, leaderLogs[e].log)
                 /\ m.PrevLogIndex + Len(m.Entries) > lastIncludedIndex[m.callee]}}

\* The AppendEntries handler of m.callee.  A new term keeps the old vote.
AppendEntries(m) ==
    LET i == m.callee
        p == m.PrevLogIndex
    IN  /\ m.kind = "AppendEntries"
        /\ \/ /\ m.Term < currentTerm[i]
              /\ Reply(m, AppendEntriesReplyTo(m, currentTerm[i], FALSE, -1, 0))
              /\ UNCHANGED <<durableVars, persister, state, commitIndex, acked>>
           \/ /\ m.Term >= currentTerm[i]
              /\ state' = [state EXCEPT ![i] = "follower"]
              /\ currentTerm' = [currentTerm EXCEPT ![i] = m.Term]
              /\ UNCHANGED <<votedFor, lastIncludedIndex, lastIncludedTerm>>
              /\ \/ /\ p < lastIncludedIndex[i]
                    /\ UNCHANGED <<log, commitIndex, acked>>
                    /\ Reply(m, AppendEntriesReplyTo(m, m.Term, FALSE, -1,
                                                     lastIncludedIndex[i] + 1))
                 \/ /\ p > lastLogIndex(i)
                    /\ UNCHANGED <<log, commitIndex, acked>>
                    /\ Reply(m, AppendEntriesReplyTo(m, m.Term, FALSE, -1,
                                                     lastLogIndex(i) + 1))
                 \/ /\ p \in lastIncludedIndex[i] .. lastLogIndex(i)
                    /\ logTerm(i, p) # m.PrevLogTerm
                    /\ UNCHANGED <<log, commitIndex, acked>>
                    /\ Reply(m, AppendEntriesReplyTo(m, m.Term, FALSE, logTerm(i, p),
                                                     conflictStart(i, p)))
                 \/ /\ p \in lastIncludedIndex[i] .. lastLogIndex(i)
                    /\ logTerm(i, p) = m.PrevLogTerm
                    /\ log' = [log EXCEPT ![i] = mergedLog(i, p, m.Entries)]
                    /\ commitIndex' = [commitIndex EXCEPT ![i] = commitAfter(i, m)]
                    /\ acked' = acked \cup Acknowledged(m)
                    /\ Reply(m, AppendEntriesReplyTo(m, m.Term, TRUE, -1, 0))
              /\ persist(i)
        /\ UNCHANGED <<leaderVars, votes, taskVars, restarts, ballots, elected, committed,
                       leaderLogs>>

-----------------------------------------------------------------------------
(* Snapshots *)

\* The service made a snapshot of what was applied up to index.  An index past the
\* log would be a panic (CommittedAgreement says it is none).
Snapshot(i, index) ==
    /\ index \in (lastIncludedIndex[i] + 1) .. lastLogIndex(i)
    /\ log' = [log EXCEPT ![i] = logAfter(i, index)]
    /\ lastIncludedIndex' = [lastIncludedIndex EXCEPT ![i] = index]
    /\ lastIncludedTerm' = [lastIncludedTerm EXCEPT ![i] = logTerm(i, index)]
    /\ UNCHANGED <<currentTerm, votedFor>>
    /\ persistWithSnapshot(i, SubSeq(FullLog(i), 1, index))
    /\ UNCHANGED <<commitIndex, leaderVars, state, votes, taskVars, net, restarts, histVars>>

\* The InstallSnapshot handler of m.callee.  The suffix past the snapshot is kept
\* whatever its terms; an outdated snapshot raises the term without a persist.
InstallSnapshot(m) ==
    LET i      == m.callee
        higher == m.Term > currentTerm[i]
    IN  /\ m.kind = "InstallSnapshot"
        /\ Reply(m, [kind |-> "InstallSnapshotReply", caller |-> m.caller, callee |-> i,
                     inc |-> m.inc, term |-> m.Term,
                     lastIncludedIndex |-> m.LastIncludedIndex, Term |-> currentTerm[i]])
        /\ \/ /\ m.Term < currentTerm[i]
              /\ UNCHANGED <<durableVars, persister, state, commitIndex>>
           \/ /\ m.Term >= currentTerm[i]
              /\ currentTerm' = [currentTerm EXCEPT ![i] = m.Term]
              /\ votedFor' = [votedFor EXCEPT ![i] = IF higher THEN Nil ELSE @]
              /\ state' = [state EXCEPT ![i] = "follower"]
              /\ \/ /\ m.LastIncludedIndex <= lastIncludedIndex[i]
                    /\ UNCHANGED <<log, lastIncludedIndex, lastIncludedTerm, persister,
                                   commitIndex>>
                 \/ /\ m.LastIncludedIndex > lastIncludedIndex[i]
                    /\ log' = [log EXCEPT ![i] = IF m.LastIncludedIndex <= lastLogIndex(i)
                                                 THEN logAfter(i, m.LastIncludedIndex)
                                                 ELSE <<>>]
                    /\ lastIncludedIndex' = [lastIncludedIndex EXCEPT ![i] = m.LastIncludedIndex]
                    /\ lastIncludedTerm' = [lastIncludedTerm EXCEPT ![i] = m.LastIncludedTerm]
                    /\ commitIndex' = [commitIndex EXCEPT ![i] =
                          Max({@, m.LastIncludedIndex})]
                    /\ persistWithSnapshot(i, m.Data)
        /\ UNCHANGED <<leaderVars, votes, taskVars, restarts, histVars>>

\* The rest of sendSnapshot, back from its call.
HandleInstallSnapshotReply(m) ==
    LET i     == m.caller
        p     == m.callee
        match == Max({matchIndex[i][p], m.lastIncludedIndex})
        fresh == state[i] = "leader" /\ currentTerm[i] = m.term
    IN  /\ m.kind = "InstallSnapshotReply"
        /\ Discard(m)
        /\ \/ /\ ~fresh
              /\ UNCHANGED <<durableVars, persister, state, leaderVars>>
           \/ /\ fresh
              /\ m.Term > currentTerm[i]
              /\ demote(i, m.Term)
              /\ UNCHANGED leaderVars
           \/ /\ fresh
              /\ m.Term <= currentTerm[i]
              /\ matchIndex' = [matchIndex EXCEPT ![i][p] = match]
              /\ nextIndex' = [nextIndex EXCEPT ![i][p] = match + 1]
              /\ UNCHANGED <<durableVars, persister, state>>
        /\ UNCHANGED <<commitIndex, votes, taskVars, restarts, histVars>>

-----------------------------------------------------------------------------
(* Failures *)

IsReplyTo(m, i) ==
    m.caller = i /\ m.kind \notin {"RequestVote", "AppendEntries", "InstallSnapshot"}

\* The process of node i dies with `disk' on its disk, and Make reads it back.
RestartFrom(i, disk) ==
    /\ MapThenSumSet(LAMBDA j : restarts[j], Server) < MaxRestarts
    /\ restarts' = [restarts EXCEPT ![i] = @ + 1]
    /\ persister' = [persister EXCEPT ![i] = disk]
    /\ currentTerm' = [currentTerm EXCEPT ![i] = disk.currentTerm]
    /\ votedFor' = [votedFor EXCEPT ![i] = disk.votedFor]
    /\ log' = [log EXCEPT ![i] = disk.log]
    /\ lastIncludedIndex' = [lastIncludedIndex EXCEPT ![i] = disk.lastIncludedIndex]
    /\ lastIncludedTerm' = [lastIncludedTerm EXCEPT ![i] = disk.lastIncludedTerm]
    /\ commitIndex' = [commitIndex EXCEPT ![i] = disk.lastIncludedIndex]
    /\ state' = [state EXCEPT ![i] = "follower"]
    /\ matchIndex' = [matchIndex EXCEPT ![i] = noMatch]
    /\ heartbeating' = heartbeating \ {i}
    /\ votes' = [votes EXCEPT ![i] = {}]
    /\ captures' = {c \in captures : c.src # i}
    /\ nextIndex' = [nextIndex EXCEPT ![i] = firstNext]
    /\ UNCHANGED histVars

Restart(i) ==
    /\ RestartFrom(i, persister[i])
    /\ net' = [m \in {n \in DOMAIN net : ~IsReplyTo(n, i)} |-> net[m]]

\* The node dies inside a handler, after the first of its two persists: the term
\* (and a cleared vote) is on disk, the vote or the entries are not.
CrashInHandler(m) ==
    LET i    == m.callee
        disk == [persister[i] EXCEPT
                    !.currentTerm = m.Term,
                    !.votedFor = IF m.kind = "RequestVote" THEN Nil ELSE votedFor[i]]
    IN  /\ \/ m.kind = "RequestVote" /\ m.Term > currentTerm[i]
           \/ m.kind = "AppendEntries" /\ m.Term >= currentTerm[i]
        /\ RestartFrom(i, disk)
        /\ LET left == net (-) SetToBag({m})
           IN  net' = [n \in {k \in DOMAIN left : ~IsReplyTo(k, i)} |-> left[n]]

-----------------------------------------------------------------------------

Init ==
    /\ currentTerm = [i \in Server |-> 0]
    /\ votedFor = [i \in Server |-> Nil]
    /\ log = [i \in Server |-> <<>>]
    /\ lastIncludedIndex = [i \in Server |-> 0]
    /\ lastIncludedTerm = [i \in Server |-> 0]
    /\ commitIndex = [i \in Server |-> 0]
    /\ matchIndex = [i \in Server |-> noMatch]
    /\ state = [i \in Server |-> "follower"]
    /\ nextIndex = [i \in Server |-> firstNext]
    /\ votes = [i \in Server |-> {}]
    /\ persister = [i \in Server |->
                      [currentTerm |-> 0, votedFor |-> Nil, log |-> <<>>,
                       lastIncludedIndex |-> 0, lastIncludedTerm |-> 0, snapshot |-> <<>>]]
    /\ heartbeating = {}
    /\ captures = {}
    /\ net = EmptyBag
    /\ restarts = [i \in Server |-> 0]
    /\ ballots = {}
    /\ elected = {}
    /\ committed = <<>>
    /\ leaderLogs = <<>>
    /\ acked = {}

Next ==
    \/ \E i \in Server :
          \/ startElection(i)
          \/ sendHeartbeats(i)
          \/ \E command \in Command : Start(i, command)
          \/ \E index \in 1 .. MaxSnapshotIndex :
                index <= commitIndex[i] /\ Snapshot(i, index)
          \/ Restart(i)
    \/ \E c \in captures : \E peer \in Others(c.src) : replicate(c, peer)
    \/ \E m \in BagToSet(net) :
          \/ RequestVote(m)
          \/ HandleRequestVoteReply(m)
          \/ AppendEntries(m)
          \/ HandleAppendEntriesReply(m)
          \/ InstallSnapshot(m)
          \/ HandleInstallSnapshotReply(m)
          \/ CrashInHandler(m)

Spec == Init /\ [][Next]_vars

\* The scheduling a leader relies on: heartbeatLoop keeps calling sendHeartbeats, its
\* goroutines get the lock with what was captured last, a request that is not lost is
\* handled and its reply too.  (Strong fairness only for sends, which the bound on net
\* disables now and then.)  Elections, commands and failures are not forced.
Fairness ==
    \A i \in Server :
        /\ WF_vars(sendHeartbeats(i))
        /\ \A j \in Others(i) :
              /\ SF_vars(\E c \in captures :
                            /\ c = [src |-> i, term |-> currentTerm[i],
                                    commitIndex |-> commitIndex[i]]
                            /\ replicate(c, j))
              /\ WF_vars(\E m \in BagToSet(net) :
                            /\ m.caller = i /\ m.callee = j
                            /\ RequestVote(m) \/ AppendEntries(m) \/ InstallSnapshot(m))
              /\ WF_vars(\E m \in BagToSet(net) :
                            /\ m.caller = i /\ m.callee = j
                            /\ \/ HandleRequestVoteReply(m)
                               \/ HandleAppendEntriesReply(m)
                               \/ HandleInstallSnapshotReply(m))

FairSpec == Spec /\ Fairness

-----------------------------------------------------------------------------
(* Properties *)

\* TypeOK: every field has the type its Go declaration gives it, the network is a
\* proper bag of well-formed messages and goroutines captured well-formed values.
TypeOK ==
    /\ currentTerm \in [Server -> Nat]
    /\ votedFor \in [Server -> Server \cup {Nil}]
    /\ log \in [Server -> Seq(Entry)]
    /\ lastIncludedIndex \in [Server -> Nat]
    /\ lastIncludedTerm \in [Server -> Nat]
    /\ commitIndex \in [Server -> Nat]
    /\ nextIndex \in [Server -> [Server -> Nat]]
    /\ matchIndex \in [Server -> [Server -> Nat]]
    /\ state \in [Server -> {"follower", "candidate", "leader"}]
    /\ votes \in [Server -> SUBSET Server]
    /\ persister \in [Server -> PersistedState]
    /\ heartbeating \subseteq Server
    /\ captures \subseteq Capture
    /\ IsABag(net) /\ BagToSet(net) \subseteq Message
    /\ restarts \in [Server -> Nat]
    /\ ballots \subseteq [term : Nat, voter : Server, candidate : Server]
    /\ elected \subseteq [term : Nat, leader : Server]
    /\ committed \in Seq(Entry)
    /\ leaderLogs \in Seq([term : Nat, log : Seq(Entry)])
    /\ acked \subseteq [term : Nat, node : Server, index : Nat]

\* ElectionSafety: no term ever has two leaders, not even at different times and with
\* restarts in between (becomeLeader; the votes are counted in startElection).
ElectionSafety ==
    \A e, f \in elected : e.term = f.term => e.leader = f.leader

\* CommittedAgreement: what a node regards as committed, it holds, and it is what the
\* leaders committed: no two nodes ever hand different commands to their services at an
\* index (AppendEntries, InstallSnapshot, maybeAdvanceCommitIndex).
CommittedAgreement ==
    \A i \in Server :
        /\ commitIndex[i] <= Len(FullLog(i))
        /\ commitIndex[i] <= Len(committed)
        /\ \A k \in 1 .. commitIndex[i] : FullLog(i)[k] = committed[k]

\* CommittedDurable: a majority has every committed entry on disk, so that any crash of
\* a minority, and a restart of everyone, keeps it (persist before each reply).
CommittedDurable ==
    \A k \in 1 .. Len(committed) :
        IsMajority({i \in Server :
            LET disk == persister[i].snapshot \o persister[i].log
            IN  k <= Len(disk) /\ disk[k] = committed[k]})

\* LeaderCompleteness: the newest leader has everything that was ever committed (the
\* logOk comparison of RequestVote and the current-term rule of maybeAdvanceCommitIndex).
LeaderCompleteness ==
    \A i \in Server :
        state[i] = "leader" /\ (\A e \in elected : e.term <= currentTerm[i])
        => /\ Len(committed) <= Len(FullLog(i))
           /\ \A k \in 1 .. Len(committed) : FullLog(i)[k] = committed[k]

\* NextIndexInRange: a leader never asks for a slice outside its own log, which is an
\* index panic in sendHeartbeats (the conflict hints of AppendEntries are trusted).
NextIndexInRange ==
    \A i, j \in Server :
        state[i] = "leader" => nextIndex[i][j] \in 1 .. (lastLogIndex(i) + 1)

\* MatchIndexConfirmed: "I know for certain you have up to here" - until a later leader is
\* elected, every peer has on disk what its leader counts on, in whichever term it now is.
MatchIndexConfirmed ==
    \A i, j \in Server :
        (i # j /\ state[i] = "leader" /\ (\A e \in elected : e.term <= currentTerm[i])) =>
            LET disk == persister[j].snapshot \o persister[j].log
            IN  /\ matchIndex[i][j] <= Len(disk)
                /\ \A k \in 1 .. matchIndex[i][j] : disk[k] = FullLog(i)[k]

\* LogMatching: two logs that agree on the term at an index agree up to it.  Stated for
\* nodes that have no snapshot: InstallSnapshot may keep a suffix it never compared.
LogMatching ==
    \A i, j \in Server :
        \A k \in 1 .. Min({Len(log[i]), Len(log[j])}) :
            lastIncludedIndex[i] = 0 /\ lastIncludedIndex[j] = 0
            /\ log[i][k].Term = log[j][k].Term
            => SubSeq(log[i], 1, k) = SubSeq(log[j], 1, k)

\* TermIsDurable: the term a node answers with survives a crash (the file-backed
\* persister of crond), even though InstallSnapshot has a path that does not persist it.
TermIsDurable ==
    \A i \in Server : persister[i].currentTerm = currentTerm[i]

\* CommitIndexMonotonic: within one incarnation commitIndex never moves back, although
\* AppendEntries may assign it a value below its old one.
CommitIndexMonotonic ==
    [][\A i \in Server : restarts'[i] = restarts[i] => commitIndex'[i] >= commitIndex[i]]_vars

\* LogsConverge: under a leader that stays, every follower ends up with the leader's log
\* as a prefix of its own and with its commit index, however their logs had diverged:
\* backing up nextIndex and falling back to a snapshot always make progress.
LogsConverge ==
    \A i \in Server :
        <>[](state[i] = "leader") =>
            <>[](\A j \in Server :
                    /\ Len(FullLog(i)) <= Len(FullLog(j))
                    /\ SubSeq(FullLog(j), 1, Len(FullLog(i))) = FullLog(i)
                    /\ commitIndex[j] = commitIndex[i])

=============================================================================
