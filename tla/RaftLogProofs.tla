--------------------------- MODULE RaftLogProofs ---------------------------
(* Safety of the replicated log of module Raft: what a majority stored in a term is in  *)
(* the log of every later leader, so that no committed entry is ever replaced.          *)
EXTENDS RaftElectionProofs

-----------------------------------------------------------------------------
(* Logs *)

\* Two logs have the same first n entries.
Agree(a, b, n) == n <= Len(a) /\ n <= Len(b) /\ \A k \in 1 .. n : a[k] = b[k]

LastTerm(a) == IF Len(a) = 0 THEN 0 ELSE a[Len(a)].Term

\* The log of the leader of term t, and its place in the order of the elections.
Led      == {leaderLogs[d].term : d \in DOMAIN leaderLogs}
Turn(t)  == CHOOSE d \in DOMAIN leaderLogs : leaderLogs[d].term = t
LogOf(t) == leaderLogs[Turn(t)].log

\* The leader of term t appended its entry n itself.
Own(t, n) == t \in Led /\ n \in 1 .. Len(LogOf(t)) /\ LogOf(t)[n].Term = t

\* A later leader has another log up to entry n of term t.
Lacking(t, n) == \E u \in Led : u > t /\ ~Agree(LogOf(u), LogOf(t), n)

HasAcked(t, q, n) == \E a \in acked : a.term = t /\ a.node = q /\ a.index >= n

\* A majority stored entry n of term t during that term.
Chosen(t, n) ==
    /\ Own(t, n)
    /\ \E Q \in SUBSET Server : IsMajority(Q) /\ \A q \in Q : HasAcked(t, q, n)

\* The first s committed entries were chosen in term t, in a term up to x.
ChosenBy(t, s) ==
    Agree(committed, LogOf(t), s) /\ \E n \in s .. Len(LogOf(t)) : Chosen(t, n)
Decided(x, s) ==
    /\ s <= Len(committed)
    /\ s > 0 => \E t \in Led : t <= x /\ ChosenBy(t, s)

\* Of the first n entries of its log, the leader of t appended none that is not chosen.
Sure(t, n) == \A k \in 1 .. n : Own(t, k) => Chosen(t, k)

\* A log that holds what was acknowledged and is newer than it.
Holds(a, t, n) == Agree(a, LogOf(t), n) /\ LastTerm(a) >= t

-----------------------------------------------------------------------------
(* The inductive invariant *)

\* The disk is what memory says.
DiskInv ==
    \A i \in Server :
        /\ persister[i].log = log[i]
        /\ persister[i].currentTerm = currentTerm[i]
        /\ persister[i].lastIncludedTerm = lastIncludedTerm[i]
        /\ lastIncludedTerm[i] = IF lastIncludedIndex[i] = 0 THEN 0
                                 ELSE FullLog(i)[lastIncludedIndex[i]].Term

\* One log per elected term, and one term per log.
LeadersInv ==
    /\ \A d, e \in DOMAIN leaderLogs : leaderLogs[d].term = leaderLogs[e].term => d = e
    /\ Led = {e.term : e \in elected}
    /\ \A e \in elected :
        /\ e.term >= 1
        /\ e.term <= currentTerm[e.leader]
        /\ e.term = currentTerm[e.leader] => state[e.leader] # "candidate"
    /\ \A i \in Server : state[i] = "leader" =>
        /\ [term |-> currentTerm[i], leader |-> i] \in elected
        /\ LogOf(currentTerm[i]) = FullLog(i)
    /\ \A i \in Server : state[i] = "candidate" => currentTerm[i] >= 1
    /\ \A e \in elected : \A n \in 1 .. Len(LogOf(e.term)) :
          Own(e.term, n) => HasAcked(e.term, e.leader, n)

\* A log of a leader is, up to any entry, the log of the leader of that entry's term;
\* terms only grow along it, up to its own.
Matched(a, k) ==
    LET u == a[k].Term IN u \in Led /\ Agree(a, LogOf(u), k)

LeaderLogInv ==
    \A t \in Led : \A k \in 1 .. Len(LogOf(t)) :
        /\ LogOf(t)[k].Term <= t
        /\ Matched(LogOf(t), k)
        /\ \A l \in 1 .. k : LogOf(t)[l].Term <= LogOf(t)[k].Term

\* The same of a node, past its snapshot: what InstallSnapshot keeps behind a snapshot
\* was never compared with it.
NodeLogOK(i) ==
    \A k \in (lastIncludedIndex[i] + 1) .. Len(FullLog(i)) :
        LET u == FullLog(i)[k].Term
        IN  /\ u \in Led
            /\ k <= Len(LogOf(u))
            /\ \A l \in (lastIncludedIndex[i] + 1) .. k : FullLog(i)[l] = LogOf(u)[l]

NodeLogInv == \A i \in Server : NodeLogOK(i)

\* A node keeps what it acknowledged, until a later leader without it comes.
AckOK(a) ==
    /\ a.term \in Led /\ a.index <= Len(LogOf(a.term)) /\ a.term <= currentTerm[a.node]
    /\ \A n \in 1 .. a.index :
          Own(a.term, n) => Holds(FullLog(a.node), a.term, n) \/ Lacking(a.term, n)

AckInv == \A a \in acked : AckOK(a)

\* The same, of the entries of earlier terms too, while the term is the newest.
NewestAckOK(a) ==
    \/ \E u \in Led : u > a.term
    \/ Agree(FullLog(a.node), LogOf(a.term), a.index)

NewestAckInv == \A a \in acked : NewestAckOK(a)

Running(i, t) == state[i] = "candidate" /\ currentTerm[i] = t

\* A candidate has what its voters acknowledged in earlier terms.
Covers(i, voter, term) ==
    \A a \in acked : a.node = voter /\ a.term < term =>
        \A n \in 1 .. a.index :
            Own(a.term, n) => Holds(FullLog(i), a.term, n) \/ Lacking(a.term, n)

BallotOK(b) ==
    /\ b.term <= currentTerm[b.candidate]
    /\ Running(b.candidate, b.term) => Covers(b.candidate, b.voter, b.term)

BallotInv == \A b \in ballots : BallotOK(b)

\* A candidate with entries of a term above its own (a goroutine of an earlier term sent
\* them) has a majority against it.
Opposed(i) ==
    \E Q \in SUBSET Server :
        /\ IsMajority(Q)
        /\ \A q \in Q : /\ currentTerm[q] > currentTerm[i]
                        /\ Ballot(currentTerm[i], q, i) \notin ballots

LateCandidateInv ==
    \A i \in Server :
        state[i] = "candidate" /\ LastTerm(FullLog(i)) > currentTerm[i] => Opposed(i)

\* A leader has what its voters acknowledged in earlier terms, or some leader elected
\* before it had not.
Inherits(u, q) ==
    \A a \in acked : a.node = q /\ a.term < u =>
        \A n \in 1 .. a.index : Own(a.term, n) =>
            \/ Agree(LogOf(u), LogOf(a.term), n)
            \/ \E w \in Led : /\ w > a.term /\ Turn(w) < Turn(u)
                              /\ ~Agree(LogOf(w), LogOf(a.term), n)

ElectedOK(u) ==
    \E Q \in SUBSET Server :
        /\ IsMajority(Q)
        /\ \A q \in Q : currentTerm[q] >= u /\ Inherits(u, q)

ElectedInv == \A u \in Led : ElectedOK(u)

\* The last term in which what the node regards as committed may have been chosen.
Reach(i) == IF state[i] = "candidate" THEN currentTerm[i] - 1 ELSE currentTerm[i]

CommitOK(i) ==
    /\ lastIncludedIndex[i] <= commitIndex[i]
    /\ Agree(FullLog(i), committed, commitIndex[i])
    /\ Decided(Reach(i), commitIndex[i])

CaptureOK(c) ==
    /\ c.term <= currentTerm[c.src]
    /\ c.commitIndex <= commitIndex[c.src]
    /\ Decided(c.term, c.commitIndex)

CommitInv ==
    /\ \A i \in Server : CommitOK(i)
    /\ Len(committed) > 0 => \E t \in Led : ChosenBy(t, Len(committed))
    /\ \A c \in captures : CaptureOK(c)

\* What a leader believes of its peers.
Confirmed(t, q, n) == HasAcked(t, q, n) \/ (Sure(t, n) /\ n <= lastIncludedIndex[q])

ProgressOK(i, j) ==
    /\ nextIndex[i][j] \in 1 .. (Len(FullLog(i)) + 1)
    /\ matchIndex[i][j] <= Len(FullLog(i))
    /\ matchIndex[i][j] > 0 => Confirmed(currentTerm[i], j, matchIndex[i][j])
    /\ currentTerm[j] < currentTerm[i] =>
          \A k \in nextIndex[i][j] .. Len(FullLog(i)) : FullLog(i)[k].Term = currentTerm[i]

ProgressInv == \A i, j \in Server : state[i] = "leader" => ProgressOK(i, j)

VoteRequestInv(m) ==
    m.kind = "RequestVote" =>
        /\ m.Term <= currentTerm[m.caller]
        /\ Running(m.caller, m.Term) =>
              /\ m.LastLogIndex = Len(FullLog(m.caller))
              /\ m.LastLogTerm = LastTerm(FullLog(m.caller))

AppendRequestInv(m) ==
    m.kind = "AppendEntries" =>
        /\ \E u \in Led :
              /\ u >= m.Term /\ SentFrom(m, LogOf(u))
              /\ u = m.Term \/ currentTerm[m.caller] > m.Term
        /\ m.PrevLogIndex = 0 => m.PrevLogTerm = 0
        /\ Decided(m.Term, m.LeaderCommit)
        /\ m.LeaderCommit <= m.PrevLogIndex + Len(m.Entries)

AppendReplyInv(m) ==
    m.kind = "AppendEntriesReply" =>
        /\ m.term <= currentTerm[m.callee]
        /\ \/ currentTerm[m.caller] > m.term
           \/ /\ m.term \in Led
              /\ m.ConflictIndex <= Len(LogOf(m.term)) + 1
              /\ m.Success => /\ m.Term = m.term
                              /\ m.newMatch <= Len(LogOf(m.term))
                              /\ m.newMatch > 0 => Confirmed(m.term, m.callee, m.newMatch)

SnapshotRequestInv(m) ==
    m.kind = "InstallSnapshot" =>
        /\ m.LastIncludedIndex >= 1 /\ m.Term \in Led
        /\ Agree(m.Data, LogOf(m.Term), m.LastIncludedIndex)
        /\ Agree(m.Data, committed, m.LastIncludedIndex)
        /\ m.LastIncludedTerm = m.Data[m.LastIncludedIndex].Term
        /\ Decided(m.Term, m.LastIncludedIndex)
        /\ currentTerm[m.callee] < m.Term => LogOf(m.Term)[m.LastIncludedIndex].Term = m.Term

SnapshotReplyInv(m) ==
    m.kind = "InstallSnapshotReply" =>
        /\ m.term <= currentTerm[m.callee]
        /\ m.term \in Led
        /\ m.lastIncludedIndex <= Len(LogOf(m.term))
        /\ m.Term <= m.term => Confirmed(m.term, m.callee, m.lastIncludedIndex)

MessageInv(m) ==
    /\ VoteRequestInv(m) /\ AppendRequestInv(m) /\ AppendReplyInv(m)
    /\ SnapshotRequestInv(m) /\ SnapshotReplyInv(m)

NetInv == \A m \in BagToSet(net) : MessageInv(m)

LogInv ==
    /\ DiskInv /\ LeadersInv /\ LeaderLogInv /\ NodeLogInv /\ AckInv /\ NewestAckInv
    /\ BallotInv /\ LateCandidateInv /\ ElectedInv /\ CommitInv /\ ProgressInv /\ NetInv

-----------------------------------------------------------------------------
(* Types of the logs *)

IsLog(a) == Len(a) \in Nat /\ \A k \in 1 .. Len(a) : a[k].Term \in Nat

LogsTyped ==
    /\ Led \subseteq Nat
    /\ \A t \in Led : IsLog(LogOf(t)) /\ Turn(t) \in Nat
    /\ \A i \in Server : IsLog(FullLog(i))
    /\ IsLog(committed)
    /\ \A a \in acked : a.term \in Nat /\ a.node \in Server /\ a.index \in Nat

LEMMA SeqIsLog ==
    ASSUME NEW a \in Seq(Entry)
    PROVE  IsLog(a)
  <1>1. Len(a) \in Nat
    OBVIOUS
  <1>2. \A k \in 1 .. Len(a) : a[k] \in Entry
    BY ElementOfSeq
  <1> QED BY <1>1, <1>2 DEF IsLog, Entry

LEMMA LedTurn ==
    ASSUME HistoryOK, NEW t \in Led
    PROVE  /\ t \in Nat /\ Turn(t) \in Nat
           /\ Turn(t) \in DOMAIN leaderLogs
           /\ leaderLogs[Turn(t)].term = t
           /\ LogOf(t) \in Seq(Entry)
  <1>1. \E d \in DOMAIN leaderLogs : leaderLogs[d].term = t
    BY DEF Led
  <1>2. Turn(t) \in DOMAIN leaderLogs /\ leaderLogs[Turn(t)].term = t
    BY <1>1 DEF Turn
  <1>3. DOMAIN leaderLogs = 1 .. Len(leaderLogs) /\ Len(leaderLogs) \in Nat
    BY LenProperties DEF HistoryOK
  <1>4. leaderLogs[Turn(t)] \in [term : Nat, log : Seq(Entry)]
    BY <1>2, <1>3, ElementOfSeq DEF HistoryOK
  <1> QED BY <1>2, <1>3, <1>4 DEF LogOf

LEMMA LogsAreTyped == TypeInv => LogsTyped
  <1> SUFFICES ASSUME TypeInv PROVE LogsTyped
    OBVIOUS
  <1>1. \A t \in Led : t \in Nat /\ Turn(t) \in Nat /\ LogOf(t) \in Seq(Entry)
    BY LedTurn DEF TypeInv
  <1>2. \A i \in Server : FullLog(i) \in Seq(Entry)
    BY FullLogType DEF TypeInv
  <1>3. committed \in Seq(Entry) /\ acked \subseteq [term : Nat, node : Server, index : Nat]
    BY DEF TypeInv, HistoryOK
  <1>4. \A a \in acked : a.term \in Nat /\ a.node \in Server /\ a.index \in Nat
    BY <1>3
  <1> QED BY <1>1, <1>2, <1>3, <1>4, SeqIsLog DEF LogsTyped

LEMMA LogsAreTypedNext == TypeInv' => LogsTyped'
  BY LogsAreTyped, PTL

-----------------------------------------------------------------------------
(* What was chosen is in the log of every later leader *)

\* The argument looks at the first leader, in the order of the elections, that would have
\* another log: a voter of it acknowledged the entry, so an even earlier one had.
LEMMA CarriedLater ==
    ASSUME LogsTyped, ElectedInv, NEW t \in Led, NEW n, Chosen(t, n), NEW u \in Led, u > t
    PROVE  Agree(LogOf(u), LogOf(t), n)
  <1> DEFINE Bad == {w \in Led : w > t /\ ~Agree(LogOf(w), LogOf(t), n)}
             Turns == {Turn(w) : w \in Bad}
  <1> SUFFICES ASSUME u \in Bad PROVE FALSE
    OBVIOUS
  <1>1. Turns \subseteq Nat /\ Turns # {}
    BY DEF LogsTyped
  <1>2. PICK x \in Turns : \A y \in Turns : x <= y
    <2> HIDE DEF Turns
    <2> QED BY <1>1, LeastElement
  <1>3. PICK w \in Bad : x = Turn(w)
    BY <1>2
  <1>4. \A v \in Bad : Turn(w) <= Turn(v)
    BY <1>2, <1>3
  <1> HIDE DEF Turns
  <1>5. PICK P \in SUBSET Server : IsMajority(P) /\ \A q \in P : HasAcked(t, q, n)
    BY DEF Chosen
  <1>6. PICK Q \in SUBSET Server : IsMajority(Q) /\ \A q \in Q : Inherits(w, q)
    BY <1>3 DEF ElectedInv, ElectedOK
  <1>7. PICK q \in P : q \in Q
    BY <1>5, <1>6, MajoritiesMeet
  <1>8. PICK a \in acked : a.term = t /\ a.node = q /\ a.index >= n
    BY <1>5, <1>7 DEF HasAcked
  <1>9. Own(t, n)
    BY DEF Chosen
  <1>10. n \in 1 .. a.index
    BY <1>8, <1>9 DEF Own, LogsTyped, IsLog
  <1>11. \E v \in Led : v > t /\ Turn(v) < Turn(w) /\ ~Agree(LogOf(v), LogOf(t), n)
    BY <1>3, <1>6, <1>7, <1>8, <1>9, <1>10 DEF Inherits
  <1>12. PICK v \in Bad : Turn(v) < Turn(w)
    BY <1>11
  <1>13. Turn(v) \in Nat /\ Turn(w) \in Nat /\ Turn(w) <= Turn(v)
    BY <1>3, <1>4, <1>12 DEF LogsTyped
  <1> QED BY <1>12, <1>13

LEMMA Carried ==
    ASSUME LogsTyped, ElectedInv, NEW t \in Led, NEW n, Chosen(t, n), NEW u \in Led, u >= t
    PROVE  Agree(LogOf(u), LogOf(t), n)
  <1>1. CASE u > t
    BY <1>1, CarriedLater
  <1>2. CASE u = t
    BY <1>2 DEF Chosen, Own, Agree, LogsTyped, IsLog
  <1> QED BY <1>1, <1>2 DEF LogsTyped

\* What was decided up to a term is in the log of every leader from that term on.
LEMMA DecidedCarried ==
    ASSUME LogsTyped, ElectedInv, NEW x \in Nat, NEW s \in Nat, Decided(x, s),
           NEW u \in Led, u >= x
    PROVE  Agree(LogOf(u), committed, s)
  <1>1. CASE s = 0
    BY <1>1 DEF Agree, LogsTyped, IsLog
  <1>2. CASE s > 0
    <2>1. PICK t \in Led : t <= x /\ ChosenBy(t, s)
      BY <1>2 DEF Decided
    <2>2. PICK n \in s .. Len(LogOf(t)) : Chosen(t, n)
      BY <2>1 DEF ChosenBy
    <2>3. Agree(LogOf(u), LogOf(t), n)
      BY <2>1, <2>2, Carried DEF LogsTyped
    <2>4. Agree(committed, LogOf(t), s)
      BY <2>1 DEF ChosenBy
    <2> QED BY <2>2, <2>3, <2>4 DEF Agree, LogsTyped, IsLog
  <1> QED BY <1>1, <1>2

-----------------------------------------------------------------------------
(* The entries of a node, behind its snapshot *)

NodeView(i) ==
    /\ Len(FullLog(i)) = lastLogIndex(i)
    /\ lastIncludedIndex[i] \in 0 .. Len(FullLog(i))
    /\ Len(log[i]) = Len(FullLog(i)) - lastIncludedIndex[i]
    /\ \A k \in 1 .. lastIncludedIndex[i] : persister[i].snapshot[k] = FullLog(i)[k]
    /\ \A k \in 1 .. Len(log[i]) : log[i][k] = FullLog(i)[lastIncludedIndex[i] + k]

LEMMA NodeViews ==
    ASSUME TypeInv, NEW i \in Server
    PROVE  NodeView(i)
  <1>1. /\ persister[i].snapshot \in Seq(Entry) /\ log[i] \in Seq(Entry)
        /\ Len(persister[i].snapshot) = lastIncludedIndex[i]
        /\ lastIncludedIndex[i] \in Nat
    BY DEF TypeInv, MemoryOK, DiskOK, PersistedState
  <1>2. Len(FullLog(i)) = lastLogIndex(i)
    BY FullLogType DEF TypeInv
  <1>3. lastLogIndex(i) = lastIncludedIndex[i] + Len(log[i]) /\ Len(log[i]) \in Nat
    BY <1>1 DEF lastLogIndex
  <1>4. \A k \in 1 .. Len(persister[i].snapshot) + Len(log[i]) :
           FullLog(i)[k] = IF k <= Len(persister[i].snapshot) THEN persister[i].snapshot[k]
                           ELSE log[i][k - Len(persister[i].snapshot)]
    BY <1>1, ConcatProperties DEF FullLog
  <1>5. \A k \in 1 .. lastIncludedIndex[i] : persister[i].snapshot[k] = FullLog(i)[k]
    BY <1>1, <1>3, <1>4
  <1>6. ASSUME NEW k \in 1 .. Len(log[i])
        PROVE  log[i][k] = FullLog(i)[lastIncludedIndex[i] + k]
    <2> DEFINE l == lastIncludedIndex[i] + k
    <2>1. /\ l \in 1 .. Len(persister[i].snapshot) + Len(log[i])
          /\ ~(l <= Len(persister[i].snapshot)) /\ l - Len(persister[i].snapshot) = k
      BY <1>1, <1>3
    <2> HIDE DEF l
    <2>2. FullLog(i)[l] = log[i][l - Len(persister[i].snapshot)]
      BY <1>4, <2>1
    <2> QED BY <2>1, <2>2 DEF l
  <1> QED BY <1>1, <1>2, <1>3, <1>5, <1>6 DEF NodeView

LEMMA NodeViewsNext ==
    ASSUME TypeInv', NEW i \in Server
    PROVE  NodeView(i)'
  BY NodeViews, PTL

\* logTerm reads the full log.
LEMMA LogTermView ==
    ASSUME TypeInv, DiskInv, NEW i \in Server, NEW k \in lastIncludedIndex[i] .. lastLogIndex(i)
    PROVE  logTerm(i, k) = IF k = 0 THEN 0 ELSE FullLog(i)[k].Term
  <1>1. NodeView(i) /\ lastIncludedIndex[i] \in Nat
    BY NodeViews DEF TypeInv, MemoryOK
  <1>2. CASE k = lastIncludedIndex[i]
    BY <1>2 DEF logTerm, DiskInv
  <1>3. CASE k # lastIncludedIndex[i]
    <2>1. k - lastIncludedIndex[i] \in 1 .. Len(log[i]) /\ k # 0
      BY <1>1, <1>3 DEF NodeView
    <2>2. log[i][k - lastIncludedIndex[i]] = FullLog(i)[k]
      <3> DEFINE l == k - lastIncludedIndex[i]
      <3>1. l \in 1 .. Len(log[i]) /\ lastIncludedIndex[i] + l = k
        BY <1>1, <2>1
      <3> HIDE DEF l
      <3>2. log[i][l] = FullLog(i)[lastIncludedIndex[i] + l]
        BY <1>1, <3>1 DEF NodeView
      <3> QED BY <3>1, <3>2 DEF l
    <2> QED BY <1>3, <2>1, <2>2 DEF logTerm
  <1> QED BY <1>2, <1>3

\* The last term of a node, as startElection and logOk read it.
LEMMA LastTermView ==
    ASSUME TypeInv, DiskInv, NEW i \in Server
    PROVE  logTerm(i, lastLogIndex(i)) = LastTerm(FullLog(i))
  <1>1. NodeView(i) /\ lastIncludedIndex[i] \in Nat
    BY NodeViews DEF TypeInv, MemoryOK
  <1>2. lastLogIndex(i) \in lastIncludedIndex[i] .. lastLogIndex(i)
    BY <1>1 DEF NodeView
  <1> QED BY <1>1, <1>2, LogTermView DEF NodeView, LastTerm

-----------------------------------------------------------------------------
(* What every step does to the history, and what it leaves true *)

\* The log of the leader of t only grows, by entries of its own.
Extends(t) ==
    /\ Len(LogOf(t)) <= Len(LogOf(t)')
    /\ \A k \in 1 .. Len(LogOf(t)) : LogOf(t)'[k] = LogOf(t)[k]
    /\ \A k \in (Len(LogOf(t)) + 1) .. Len(LogOf(t)') : LogOf(t)'[k].Term = t

Forward ==
    /\ \A t \in Led : t \in Led' /\ Turn(t)' = Turn(t) /\ Extends(t)
    /\ acked \subseteq acked'
    /\ Agree(committed', committed, Len(committed))
    /\ \A j \in Server : currentTerm[j] <= currentTerm'[j]
    /\ \A j \in Server : lastIncludedIndex[j] <= lastIncludedIndex'[j]

LEMMA LogForward ==
    ASSUME LogsTyped, LogsTyped', Forward, NEW t \in Led
    PROVE  /\ t \in Nat /\ t \in Led' /\ Extends(t)
           /\ IsLog(LogOf(t)) /\ IsLog(LogOf(t)')
  BY DEF Forward, LogsTyped

LEMMA AgreeForward ==
    ASSUME LogsTyped, LogsTyped', Forward, NEW t \in Led, NEW a, NEW n \in Nat,
           Agree(a, LogOf(t), n)
    PROVE  Agree(a, LogOf(t)', n)
  BY DEF Forward, Extends, Agree, LogsTyped, IsLog

LEMMA OwnForward ==
    ASSUME LogsTyped, LogsTyped', Forward, NEW t \in Led, NEW n \in Nat
    PROVE  /\ Own(t, n) => Own(t, n)'
           /\ n <= Len(LogOf(t)) /\ Own(t, n)' => Own(t, n)
  BY DEF Forward, Extends, Own, LogsTyped, IsLog

LEMMA AgreeBackward ==
    ASSUME LogsTyped, LogsTyped', Forward, NEW t \in Led, NEW n \in Nat, Own(t, n),
           NEW u \in Led, u > t, Agree(LogOf(u)', LogOf(t)', n)
    PROVE  Agree(LogOf(u), LogOf(t), n)
  <1>1. n \in 1 .. Len(LogOf(t)) /\ LogOf(t)[n].Term = t /\ t \in Nat /\ u \in Nat
    BY DEF Own, LogsTyped
  <1>2. LogOf(t)'[n].Term = t /\ LogOf(u)'[n].Term = t
    BY <1>1 DEF Forward, Extends, Agree, LogsTyped, IsLog
  <1>3. n <= Len(LogOf(u))
    <2> SUFFICES ASSUME n > Len(LogOf(u)) PROVE FALSE
      BY <1>1 DEF LogsTyped, IsLog
    <2>1. n \in (Len(LogOf(u)) + 1) .. Len(LogOf(u)')
      BY <1>1 DEF Agree, LogsTyped, IsLog
    <2>2. LogOf(u)'[n].Term = u
      BY <2>1 DEF Forward, Extends
    <2> QED BY <1>1, <1>2, <2>2
  <1>4. \A k \in 1 .. n : LogOf(u)'[k] = LogOf(u)[k] /\ LogOf(t)'[k] = LogOf(t)[k]
    BY <1>1, <1>3, LogForward DEF Extends, IsLog
  <1>5. \A k \in 1 .. n : LogOf(u)'[k] = LogOf(t)'[k]
    BY DEF Agree
  <1> QED BY <1>1, <1>3, <1>4, <1>5 DEF Agree

LEMMA LackingForward ==
    ASSUME LogsTyped, LogsTyped', Forward, NEW t \in Led, NEW n \in Nat, Own(t, n), Lacking(t, n)
    PROVE  Lacking(t, n)'
  <1>1. PICK u \in Led : u > t /\ ~Agree(LogOf(u), LogOf(t), n)
    BY DEF Lacking
  <1>2. ~Agree(LogOf(u)', LogOf(t)', n)
    BY <1>1, AgreeBackward
  <1>3. u \in Led'
    BY DEF Forward
  <1> QED BY <1>1, <1>2, <1>3 DEF Lacking, Agree

LEMMA HoldsForward ==
    ASSUME LogsTyped, LogsTyped', Forward, NEW t \in Led, NEW n \in Nat, Own(t, n), NEW a,
           Holds(a, t, n) \/ Lacking(t, n)
    PROVE  (Agree(a, LogOf(t)', n) /\ LastTerm(a) >= t) \/ Lacking(t, n)'
  <1>1. CASE Holds(a, t, n)
    BY <1>1, AgreeForward DEF Holds
  <1>2. CASE Lacking(t, n)
    BY <1>2, LackingForward
  <1> QED BY <1>1, <1>2

LEMMA ChosenForward ==
    ASSUME LogsTyped, LogsTyped', Forward, NEW t \in Led, NEW n \in Nat, Chosen(t, n)
    PROVE  Chosen(t, n)'
  <1>1. Own(t, n)'
    BY OwnForward DEF Chosen
  <1>2. PICK Q \in SUBSET Server : IsMajority(Q) /\ \A q \in Q : HasAcked(t, q, n)
    BY DEF Chosen
  <1>3. \A q \in Q : HasAcked(t, q, n)'
    BY <1>2 DEF HasAcked, Forward
  <1>4. IsMajority(Q)'
    BY <1>2 DEF IsMajority
  <1> QED BY <1>1, <1>3, <1>4 DEF Chosen

LEMMA ChosenByForward ==
    ASSUME LogsTyped, LogsTyped', Forward, NEW t \in Led, NEW s \in Nat, ChosenBy(t, s)
    PROVE  ChosenBy(t, s)'
  <1>1. PICK n \in s .. Len(LogOf(t)) : Chosen(t, n)
    BY DEF ChosenBy
  <1>2. n \in Nat /\ n \in s .. Len(LogOf(t)')
    BY <1>1, LogForward DEF Extends, IsLog
  <1>3. Chosen(t, n)'
    BY <1>1, <1>2, ChosenForward
  <1>4. Agree(committed', LogOf(t)', s)
    <2>1. Agree(committed, LogOf(t)', s)
      BY AgreeForward DEF ChosenBy
    <2> QED BY <2>1 DEF Forward, Agree, LogsTyped, IsLog
  <1> QED BY <1>2, <1>3, <1>4 DEF ChosenBy

LEMMA DecidedForward ==
    ASSUME LogsTyped, LogsTyped', Forward, NEW x \in Int, NEW y \in Int, x <= y,
           NEW s \in Nat, Decided(x, s)
    PROVE  Decided(y, s)'
  <1>1. s <= Len(committed')
    BY DEF Decided, Forward, Agree, LogsTyped, IsLog
  <1>2. ASSUME s > 0 PROVE \E t \in Led' : t <= y /\ ChosenBy(t, s)'
    <2>1. PICK t \in Led : t <= x /\ ChosenBy(t, s)
      BY <1>2 DEF Decided
    <2>2. ChosenBy(t, s)'
      BY <2>1, ChosenByForward
    <2>3. t \in Led' /\ t <= y
      BY <2>1 DEF Forward, LogsTyped
    <2> QED BY <2>2, <2>3
  <1> QED BY <1>1, <1>2 DEF Decided

LEMMA SureForward ==
    ASSUME LogsTyped, LogsTyped', Forward, NEW t \in Led, NEW n \in Nat, n <= Len(LogOf(t)),
           Sure(t, n)
    PROVE  Sure(t, n)'
  <1> SUFFICES ASSUME NEW k \in 1 .. n, Own(t, k)' PROVE Chosen(t, k)'
    BY DEF Sure
  <1>1. k \in Nat /\ k <= Len(LogOf(t))
    BY DEF LogsTyped, IsLog
  <1>2. Own(t, k)
    BY <1>1, OwnForward
  <1> QED BY <1>1, <1>2, ChosenForward DEF Sure

LEMMA ConfirmedForward ==
    ASSUME LogsTyped, LogsTyped', TypeInv, TypeInv', Forward, NEW t \in Led, NEW q \in Server,
           NEW n \in Nat, n <= Len(LogOf(t)), Confirmed(t, q, n)
    PROVE  Confirmed(t, q, n)'
  <1>1. CASE HasAcked(t, q, n)
    BY <1>1 DEF HasAcked, Forward, Confirmed
  <1>2. CASE Sure(t, n) /\ n <= lastIncludedIndex[q]
    <2>1. Sure(t, n)'
      BY <1>2, SureForward
    <2>2. n <= lastIncludedIndex'[q]
      BY <1>2 DEF Forward, TypeInv, MemoryOK
    <2> QED BY <2>1, <2>2 DEF Confirmed
  <1> QED BY <1>1, <1>2 DEF Confirmed

-----------------------------------------------------------------------------
(* Each part of the invariant, across a step that does not touch what it speaks of *)

LEMMA DecidedLess ==
    ASSUME LogsTyped, NEW x, NEW s \in Nat, Decided(x, s), NEW r \in Nat, r <= s
    PROVE  Decided(x, r)
  <1>1. r <= Len(committed)
    BY DEF Decided, LogsTyped, IsLog
  <1>2. ASSUME r > 0 PROVE \E t \in Led : t <= x /\ ChosenBy(t, r)
    <2>1. PICK t \in Led : t <= x /\ ChosenBy(t, s)
      BY <1>2 DEF Decided
    <2>2. Agree(committed, LogOf(t), r)
      BY <2>1 DEF ChosenBy, Agree, LogsTyped, IsLog
    <2>3. PICK n \in s .. Len(LogOf(t)) : Chosen(t, n)
      BY <2>1 DEF ChosenBy
    <2>4. n \in r .. Len(LogOf(t))
      BY <2>3 DEF LogsTyped, IsLog
    <2> QED BY <2>1, <2>2, <2>3, <2>4 DEF ChosenBy
  <1> QED BY <1>1, <1>2 DEF Decided

LEMMA NodeLogFrame ==
    ASSUME LogsTyped, LogsTyped', Forward, TypeInv, TypeInv', NEW i \in Server, NodeLogOK(i),
           FullLog(i)' = FullLog(i)
    PROVE  NodeLogOK(i)'
  <1>1. /\ lastIncludedIndex[i] \in Nat /\ lastIncludedIndex'[i] \in Nat
        /\ lastIncludedIndex[i] <= lastIncludedIndex'[i]
        /\ Len(FullLog(i)) \in Nat
    BY DEF TypeInv, MemoryOK, Forward, LogsTyped, IsLog
  <1> SUFFICES ASSUME NEW k \in (lastIncludedIndex'[i] + 1) .. Len(FullLog(i)),
                      NEW u, u = FullLog(i)[k].Term
               PROVE  /\ u \in Led'
                      /\ k <= Len(LogOf(u)')
                      /\ \A l \in (lastIncludedIndex'[i] + 1) .. k : FullLog(i)[l] = LogOf(u)'[l]
    BY DEF NodeLogOK
  <1>2. k \in (lastIncludedIndex[i] + 1) .. Len(FullLog(i))
    BY <1>1
  <1>3. /\ u \in Led
        /\ k <= Len(LogOf(u))
        /\ \A l \in (lastIncludedIndex[i] + 1) .. k : FullLog(i)[l] = LogOf(u)[l]
    BY <1>2 DEF NodeLogOK
  <1>4. \A l \in (lastIncludedIndex'[i] + 1) .. k : FullLog(i)[l] = LogOf(u)[l]
    BY <1>1, <1>2, <1>3
  <1>5. u \in Led' /\ k <= Len(LogOf(u)') /\ \A l \in 1 .. k : LogOf(u)'[l] = LogOf(u)[l]
    BY <1>1, <1>3, LogForward DEF Extends, IsLog
  <1>6. \A l \in (lastIncludedIndex'[i] + 1) .. k : l \in 1 .. k
    BY <1>1
  <1> QED BY <1>4, <1>5, <1>6

\* Own entries that were acknowledged existed before the step.
LEMMA OwnBefore ==
    ASSUME LogsTyped, LogsTyped', Forward, NEW a \in acked, AckOK(a),
           NEW n \in 1 .. a.index, Own(a.term, n)'
    PROVE  a.term \in Led /\ n \in Nat /\ Own(a.term, n)
  <1>1. /\ a.term \in Led /\ a.index \in Nat /\ n \in Nat /\ n <= Len(LogOf(a.term))
    BY DEF AckOK, LogsTyped, IsLog
  <1> QED BY <1>1, OwnForward

LEMMA AckFrame ==
    ASSUME LogsTyped, LogsTyped', Forward, TypeInv, TypeInv', NEW a \in acked, AckOK(a),
           FullLog(a.node)' = FullLog(a.node)
    PROVE  AckOK(a)'
  <1>1. a.term \in Led /\ a.node \in Server /\ a.index \in Nat /\ a.term \in Nat
    BY DEF AckOK, LogsTyped
  <1>2. a.index <= Len(LogOf(a.term)')
    BY <1>1, LogForward DEF AckOK, Extends, IsLog
  <1>3. a.term <= currentTerm'[a.node]
    BY <1>1 DEF AckOK, Forward, TypeInv, MemoryOK
  <1>4. ASSUME NEW n \in 1 .. a.index, Own(a.term, n)'
        PROVE  Holds(FullLog(a.node), a.term, n)' \/ Lacking(a.term, n)'
    <2>1. n \in Nat /\ Own(a.term, n)
      BY <1>4, OwnBefore
    <2>2. Holds(FullLog(a.node), a.term, n) \/ Lacking(a.term, n)
      BY <1>4, <2>1 DEF AckOK
    <2> QED BY <1>1, <2>1, <2>2, HoldsForward DEF Holds
  <1>5. a.term \in Led'
    BY <1>1, LogForward
  <1> QED BY <1>2, <1>3, <1>4, <1>5 DEF AckOK

LEMMA NewestAckFrame ==
    ASSUME LogsTyped, LogsTyped', Forward, NEW a \in acked, AckOK(a), NewestAckOK(a),
           FullLog(a.node)' = FullLog(a.node)
    PROVE  NewestAckOK(a)'
  <1>1. a.term \in Led /\ a.index \in Nat
    BY DEF AckOK, LogsTyped
  <1>2. CASE \E u \in Led : u > a.term
    BY <1>2 DEF NewestAckOK, Forward
  <1>3. CASE Agree(FullLog(a.node), LogOf(a.term), a.index)
    BY <1>1, <1>3, AgreeForward DEF NewestAckOK
  <1> QED BY <1>2, <1>3 DEF NewestAckOK

\* Acknowledgements and votes are given in a node's term or a later one.
NewAcks    == \A a \in acked' : a \in acked \/ a.term >= currentTerm[a.node]
NewBallots == \A b \in ballots' : b \in ballots \/ b.term >= currentTerm[b.voter]

LEMMA CoversFrame ==
    ASSUME LogsTyped, LogsTyped', Forward, TypeInv, TypeInv', AckInv, NewAcks,
           NEW i \in Server, NEW voter \in Server, NEW term \in Nat,
           acked' = acked \/ currentTerm[voter] >= term, FullLog(i)' = FullLog(i), Covers(i, voter, term)
    PROVE  Covers(i, voter, term)'
  <1> SUFFICES ASSUME NEW a \in acked', a.node = voter, a.term < term,
                      NEW n \in 1 .. a.index, Own(a.term, n)'
               PROVE  Holds(FullLog(i), a.term, n)' \/ Lacking(a.term, n)'
    BY DEF Covers
  <1>1. a \in acked
    BY SMTT(60) DEF NewAcks, LogsTyped, TypeInv, MemoryOK
  <1>2. AckOK(a)
    BY <1>1 DEF AckInv
  <1>3. a.term \in Led /\ n \in Nat /\ Own(a.term, n)
    BY <1>1, <1>2, OwnBefore
  <1>4. Holds(FullLog(i), a.term, n) \/ Lacking(a.term, n)
    BY <1>1, <1>3 DEF Covers
  <1> QED BY <1>3, <1>4, HoldsForward DEF Holds

LEMMA BallotTerm ==
    ASSUME TypeInv, BallotsKept, NEW b \in ballots
    PROVE  /\ b.term \in Nat /\ b.voter \in Server /\ b.candidate \in Server
           /\ currentTerm[b.voter] \in Nat /\ currentTerm[b.voter] >= b.term
  <1>1. b.term \in Nat /\ b.voter \in Server /\ b.candidate \in Server
    BY DEF TypeInv, HistoryOK
  <1>2. Keeps(currentTerm[b.voter], votedFor[b.voter], b)
    BY DEF BallotsKept
  <1>3. currentTerm[b.voter] \in Nat
    BY <1>1 DEF TypeInv, MemoryOK
  <1> QED BY <1>1, <1>2, <1>3 DEF Keeps

LEMMA BallotFrame ==
    ASSUME LogsTyped, LogsTyped', Forward, TypeInv, TypeInv', AckInv, BallotsKept, NewAcks,
           NEW b \in ballots, BallotOK(b),
           Running(b.candidate, b.term)' =>
               Running(b.candidate, b.term) /\ FullLog(b.candidate)' = FullLog(b.candidate)
    PROVE  BallotOK(b)'
  <1>1. b.term \in Nat /\ b.voter \in Server /\ b.candidate \in Server
    BY BallotTerm
  <1>2. currentTerm[b.voter] >= b.term
    BY BallotTerm
  <1>3. b.term <= currentTerm'[b.candidate]
    BY SMTT(60), <1>1 DEF BallotOK, Forward, TypeInv, MemoryOK
  <1>4. Running(b.candidate, b.term)' => Covers(b.candidate, b.voter, b.term)'
    BY <1>1, <1>2, CoversFrame DEF BallotOK
  <1> QED BY <1>3, <1>4 DEF BallotOK

LEMMA OpposedFrame ==
    ASSUME TypeInv, TypeInv', Forward, NewBallots, NEW i \in Server, Opposed(i),
           currentTerm'[i] = currentTerm[i]
    PROVE  Opposed(i)'
  <1>1. PICK Q \in SUBSET Server :
          /\ IsMajority(Q)
          /\ \A q \in Q : /\ currentTerm[q] > currentTerm[i]
                          /\ Ballot(currentTerm[i], q, i) \notin ballots
    BY DEF Opposed
  <1>2. ASSUME NEW q \in Q
        PROVE  currentTerm'[q] > currentTerm[i] /\ Ballot(currentTerm[i], q, i) \notin ballots'
    <2>1. currentTerm[q] \in Nat /\ currentTerm'[q] \in Nat /\ currentTerm[i] \in Nat
      BY DEF TypeInv, MemoryOK
    <2>2. currentTerm[q] > currentTerm[i] /\ currentTerm[q] <= currentTerm'[q]
      BY <1>1 DEF Forward
    <2>3. Ballot(currentTerm[i], q, i).term = currentTerm[i] /\ Ballot(currentTerm[i], q, i).voter = q
      BY DEF Ballot
    <2> QED BY <1>1, <2>1, <2>2, <2>3 DEF NewBallots
  <1>3. IsMajority(Q)'
    BY <1>1 DEF IsMajority
  <1>4. \A q \in Q : Ballot(currentTerm[i], q, i)' = Ballot(currentTerm[i], q, i)
    BY DEF Ballot
  <1> QED BY <1>2, <1>3, <1>4 DEF Opposed

LEMMA ElectedFrame ==
    ASSUME LogsTyped, LogsTyped', Forward, TypeInv, TypeInv', AckInv, NewAcks,
           NEW u \in Led, ElectedOK(u)
    PROVE  ElectedOK(u)'
  <1>1. PICK Q \in SUBSET Server :
          IsMajority(Q) /\ \A q \in Q : currentTerm[q] >= u /\ Inherits(u, q)
    BY DEF ElectedOK
  <1>2. IsMajority(Q)'
    BY <1>1 DEF IsMajority
  <1>3. ASSUME NEW q \in Q PROVE currentTerm'[q] >= u /\ Inherits(u, q)'
    <2>1. /\ currentTerm[q] \in Nat /\ currentTerm'[q] \in Nat /\ u \in Nat
          /\ currentTerm[q] >= u /\ currentTerm[q] <= currentTerm'[q]
      BY <1>1 DEF TypeInv, MemoryOK, LogsTyped, Forward
    <2>2. ASSUME NEW a \in acked', a.node = q, a.term < u, NEW n \in 1 .. a.index, Own(a.term, n)'
          PROVE  \/ Agree(LogOf(u)', LogOf(a.term)', n)
                 \/ \E w \in Led' : /\ w > a.term /\ Turn(w)' < Turn(u)'
                                    /\ ~Agree(LogOf(w)', LogOf(a.term)', n)
      <3>1. a \in acked
        BY <2>1, <2>2 DEF NewAcks, LogsTyped
      <3>2. AckOK(a)
        BY <3>1 DEF AckInv
      <3>3. a.term \in Led /\ n \in Nat /\ Own(a.term, n)
        BY <2>2, <3>1, <3>2, OwnBefore
      <3>4. CASE Agree(LogOf(u), LogOf(a.term), n)
        <4>1. Agree(LogOf(u), LogOf(a.term)', n)
          BY <3>3, <3>4, AgreeForward
        <4>2. n <= Len(LogOf(u)') /\ \A k \in 1 .. n : LogOf(u)'[k] = LogOf(u)[k]
          BY <3>3, <4>1, LogForward DEF Extends, IsLog, Agree
        <4> QED BY <4>1, <4>2 DEF Agree
      <3>5. ASSUME NEW w \in Led, w > a.term, Turn(w) < Turn(u),
                   ~Agree(LogOf(w), LogOf(a.term), n)
            PROVE  w \in Led' /\ Turn(w)' < Turn(u)' /\ ~Agree(LogOf(w)', LogOf(a.term)', n)
        BY <3>3, <3>5, AgreeBackward DEF Forward
      <3>6. \/ Agree(LogOf(u), LogOf(a.term), n)
            \/ \E w \in Led : /\ w > a.term /\ Turn(w) < Turn(u)
                              /\ ~Agree(LogOf(w), LogOf(a.term), n)
        BY <1>1, <2>2, <3>1, <3>3 DEF Inherits
      <3> QED BY <3>4, <3>5, <3>6
    <2> QED BY <2>1, <2>2 DEF Inherits, Agree
  <1> QED BY <1>2, <1>3 DEF ElectedOK

LEMMA LeaderLogFrame ==
    ASSUME LeaderLogInv, leaderLogs' = leaderLogs
    PROVE  LeaderLogInv'
  <1>1. Led' = Led /\ \A t : LogOf(t)' = LogOf(t)
    BY DEF Led, LogOf, Turn
  <1> QED BY <1>1 DEF LeaderLogInv, Matched, Agree

LEMMA ReachType ==
    ASSUME TypeInv, NEW i \in Server
    PROVE  Reach(i) \in Int /\ Reach(i) <= currentTerm[i] /\ currentTerm[i] \in Nat
  BY DEF Reach, TypeInv, MemoryOK

\* A candidate keeps its log, and a new one takes a new term; no node becomes a leader.
Candidates ==
    \A j \in Server : state'[j] = "candidate" =>
        /\ FullLog(j)' = FullLog(j)
        /\ \/ state[j] = "candidate" /\ currentTerm'[j] = currentTerm[j]
           \/ currentTerm'[j] > currentTerm[j]

Leaders ==
    \A j \in Server : state'[j] = "leader" =>
        state[j] = "leader" /\ currentTerm'[j] = currentTerm[j]

Roles == Candidates /\ Leaders

NewCandidates ==
    \A j \in Server : state'[j] = "candidate" /\ currentTerm'[j] # currentTerm[j] =>
        LastTerm(FullLog(j)) <= currentTerm'[j] \/ Opposed(j)'

LEMMA ReachForward ==
    ASSUME TypeInv, TypeInv', Forward, Candidates, NEW i \in Server
    PROVE  Reach(i) <= Reach(i)'
  <1>1. currentTerm[i] \in Nat /\ currentTerm'[i] \in Nat /\ currentTerm[i] <= currentTerm'[i]
    BY DEF TypeInv, MemoryOK, Forward
  <1> QED BY <1>1 DEF Reach, Candidates

\* A restart sets the commit index back to the snapshot.
LEMMA CommitFrame ==
    ASSUME LogsTyped, LogsTyped', Forward, TypeInv, TypeInv', Candidates, NEW i \in Server,
           CommitOK(i),
           FullLog(i)' = FullLog(i), lastIncludedIndex'[i] <= commitIndex'[i],
           commitIndex'[i] <= commitIndex[i]
    PROVE  CommitOK(i)'
  <1>1. commitIndex[i] \in Nat /\ commitIndex'[i] \in Nat
    BY DEF TypeInv, VolatileOK
  <1>2. Agree(FullLog(i), committed', commitIndex'[i])
    <2>1. Agree(FullLog(i), committed, commitIndex'[i])
      BY <1>1 DEF CommitOK, Agree, LogsTyped, IsLog
    <2> QED BY <1>1, <2>1 DEF Forward, Agree, LogsTyped, IsLog
  <1>3. Decided(Reach(i), commitIndex'[i])
    BY <1>1, DecidedLess DEF CommitOK
  <1>4. Reach(i) \in Int /\ Reach(i)' \in Int
    BY DEF Reach, TypeInv, MemoryOK
  <1>5. Decided(Reach(i), commitIndex[i])'
    <2>1. ASSUME NEW y \in Int, y = Reach(i)', NEW s \in Nat, s = commitIndex'[i]
          PROVE  Decided(y, s)'
      BY <1>3, <1>4, <2>1, ReachForward, DecidedForward
    <2> QED BY <1>1, <1>4, <2>1
  <1> QED BY <1>2, <1>5 DEF CommitOK

LEMMA CaptureFrame ==
    ASSUME LogsTyped, LogsTyped', Forward, TypeInv, TypeInv', NEW c \in captures, CaptureOK(c),
           commitIndex[c.src] <= commitIndex'[c.src]
    PROVE  CaptureOK(c)'
  <1>1. c.src \in Server /\ c.term \in Nat /\ c.commitIndex \in Nat
    BY DEF TypeInv, VolatileOK, Capture
  <1>2. c.term <= currentTerm'[c.src]
    BY <1>1 DEF CaptureOK, Forward, TypeInv, MemoryOK
  <1>3. c.commitIndex <= commitIndex'[c.src]
    BY <1>1 DEF CaptureOK, TypeInv, VolatileOK
  <1>4. Decided(c.term, c.commitIndex)'
    BY <1>1, DecidedForward DEF CaptureOK
  <1> QED BY <1>2, <1>3, <1>4 DEF CaptureOK

LEMMA CommittedFrame ==
    ASSUME LogsTyped, LogsTyped', Forward, CommitInv, committed' = committed
    PROVE  (Len(committed) > 0 => \E t \in Led : ChosenBy(t, Len(committed)))'
  <1> SUFFICES ASSUME Len(committed) > 0
               PROVE  \E t \in Led' : ChosenBy(t, Len(committed))'
    OBVIOUS
  <1>1. PICK t \in Led : ChosenBy(t, Len(committed))
    BY DEF CommitInv
  <1>2. Len(committed) \in Nat
    BY DEF LogsTyped, IsLog
  <1>3. t \in Led'
    BY LogForward
  <1>4. ChosenBy(t, Len(committed))'
    <2>1. ASSUME NEW s \in Nat, s = Len(committed) PROVE ChosenBy(t, s)'
      BY <1>1, <2>1, ChosenByForward
    <2> QED BY <1>2, <2>1
  <1> QED BY <1>3, <1>4

LEMMA LeaderHasLog ==
    ASSUME LeadersInv, NEW i \in Server, state[i] = "leader"
    PROVE  currentTerm[i] \in Led /\ LogOf(currentTerm[i]) = FullLog(i)
  <1> DEFINE e == [term |-> currentTerm[i], leader |-> i]
  <1>1. e \in elected /\ e.term = currentTerm[i] /\ LogOf(currentTerm[i]) = FullLog(i)
    BY DEF LeadersInv
  <1>2. Led = {f.term : f \in elected}
    BY DEF LeadersInv
  <1> HIDE DEF e
  <1> QED BY <1>1, <1>2

LEMMA ProgressFrame ==
    ASSUME LogsTyped, LogsTyped', Forward, TypeInv, TypeInv', LeadersInv,
           NEW i \in Server, NEW j \in Server, state[i] = "leader", ProgressOK(i, j),
           currentTerm'[i] = currentTerm[i], FullLog(i)' = FullLog(i),
           nextIndex'[i][j] = nextIndex[i][j], matchIndex'[i][j] = matchIndex[i][j]
    PROVE  ProgressOK(i, j)'
  <1>1. currentTerm[i] \in Led /\ LogOf(currentTerm[i]) = FullLog(i)
    BY LeaderHasLog
  <1>2. matchIndex[i][j] \in Nat
    BY DEF TypeInv, VolatileOK
  <1>3. matchIndex[i][j] > 0 => Confirmed(currentTerm[i], j, matchIndex[i][j])'
    <2> DEFINE t == currentTerm[i]
               n == matchIndex[i][j]
    <2>1. t \in Led /\ n \in Nat /\ n <= Len(LogOf(t)) /\ (n > 0 => Confirmed(t, j, n))
      BY <1>1, <1>2 DEF ProgressOK
    <2>2. t' = t /\ n' = n
      OBVIOUS
    <2> HIDE DEF t, n
    <2>3. n > 0 => Confirmed(t, j, n)'
      BY <2>1, <2>2, ConfirmedForward
    <2> QED BY <2>2, <2>3 DEF t, n
  <1>4. currentTerm'[j] < currentTerm'[i] => currentTerm[j] < currentTerm[i]
    BY DEF Forward, TypeInv, MemoryOK
  <1> QED BY <1>3, <1>4 DEF ProgressOK

LEMMA VoteRequestFrame ==
    ASSUME Forward, TypeInv, TypeInv', Candidates, NEW m \in Message, VoteRequestInv(m)
    PROVE  VoteRequestInv(m)'
  <1>1. m.caller \in Server /\ m.Term \in Nat
    BY MessageFields
  <1>2. /\ currentTerm[m.caller] \in Nat /\ currentTerm'[m.caller] \in Nat
        /\ currentTerm[m.caller] <= currentTerm'[m.caller]
    BY <1>1 DEF TypeInv, MemoryOK, Forward
  <1>3. m.Term <= currentTerm[m.caller] /\ Running(m.caller, m.Term)' =>
           Running(m.caller, m.Term) /\ FullLog(m.caller)' = FullLog(m.caller)
    BY <1>1, <1>2 DEF Candidates, Running
  <1> QED BY <1>1, <1>2, <1>3 DEF VoteRequestInv

LEMMA AppendRequestFrame ==
    ASSUME LogsTyped, LogsTyped', Forward, TypeInv, TypeInv', NEW m \in Message,
           AppendRequestInv(m)
    PROVE  AppendRequestInv(m)'
  <1> SUFFICES ASSUME m.kind = "AppendEntries" PROVE AppendRequestInv(m)'
    BY DEF AppendRequestInv
  <1>1. /\ m.caller \in Server /\ m.Term \in Nat /\ m.PrevLogIndex \in Nat
        /\ m.Entries \in Seq(Entry) /\ m.LeaderCommit \in Nat
    BY MessageKinds DEF AppendEntriesArgs
  <1>2. PICK u \in Led : /\ u >= m.Term /\ SentFrom(m, LogOf(u))
                         /\ u = m.Term \/ currentTerm[m.caller] > m.Term
    BY DEF AppendRequestInv
  <1>3. Len(m.Entries) \in Nat
    BY <1>1
  <1>4. SentFrom(m, LogOf(u)')
    <2>1. /\ Len(LogOf(u)) \in Nat /\ Len(LogOf(u)') \in Nat /\ Len(LogOf(u)) <= Len(LogOf(u)')
          /\ \A k \in 1 .. Len(LogOf(u)) : LogOf(u)'[k] = LogOf(u)[k]
      BY LogForward DEF Extends, IsLog
    <2>2. m.PrevLogIndex + Len(m.Entries) <= Len(LogOf(u))
      BY <1>2 DEF SentFrom
    <2>3. m.PrevLogIndex > 0 => LogOf(u)'[m.PrevLogIndex].Term = m.PrevLogTerm
      BY <1>1, <1>2, <1>3, <2>1, <2>2 DEF SentFrom
    <2>4. ASSUME NEW k \in 1 .. Len(m.Entries) PROVE m.Entries[k] = LogOf(u)'[m.PrevLogIndex + k]
      <3>1. m.PrevLogIndex + k \in 1 .. Len(LogOf(u))
        BY <1>1, <1>3, <2>1, <2>2
      <3> QED BY <1>2, <2>1, <3>1 DEF SentFrom
    <2> QED BY <1>1, <1>3, <2>1, <2>2, <2>3, <2>4 DEF SentFrom
  <1>5. u = m.Term \/ currentTerm'[m.caller] > m.Term
    BY <1>1, <1>2 DEF Forward, TypeInv, MemoryOK
  <1>6. u \in Led'
    BY LogForward
  <1>7. Decided(m.Term, m.LeaderCommit)'
    BY <1>1, DecidedForward DEF AppendRequestInv
  <1>8. \E v \in Led' : /\ v >= m.Term /\ SentFrom(m, LogOf(v)')
                        /\ v = m.Term \/ currentTerm'[m.caller] > m.Term
    BY <1>2, <1>4, <1>5, <1>6
  <1> QED BY <1>7, <1>8 DEF AppendRequestInv, SentFrom

LEMMA AppendReplyFrame ==
    ASSUME LogsTyped, LogsTyped', Forward, TypeInv, TypeInv', NEW m \in Message, AppendReplyInv(m)
    PROVE  AppendReplyInv(m)'
  <1> SUFFICES ASSUME m.kind = "AppendEntriesReply" PROVE AppendReplyInv(m)'
    BY DEF AppendReplyInv
  <1>1. /\ m.caller \in Server /\ m.callee \in Server /\ m.term \in Nat /\ m.newMatch \in Nat
        /\ m.ConflictIndex \in Nat
    BY MessageKinds DEF AppendEntriesReply
  <1>2. \A q \in Server : /\ currentTerm[q] \in Nat /\ currentTerm'[q] \in Nat
                          /\ currentTerm[q] <= currentTerm'[q]
    BY DEF TypeInv, MemoryOK, Forward
  <1>3. m.term <= currentTerm'[m.callee]
    BY <1>1, <1>2 DEF AppendReplyInv
  <1>4. CASE currentTerm[m.caller] > m.term
    <2>1. currentTerm'[m.caller] > m.term
      BY <1>1, <1>2, <1>4
    <2> QED BY <1>3, <2>1 DEF AppendReplyInv
  <1>5. CASE /\ m.term \in Led
             /\ m.ConflictIndex <= Len(LogOf(m.term)) + 1
             /\ m.Success => /\ m.Term = m.term
                             /\ m.newMatch <= Len(LogOf(m.term))
                             /\ m.newMatch > 0 => Confirmed(m.term, m.callee, m.newMatch)
    <2>1. m.term \in Led' /\ Len(LogOf(m.term)) <= Len(LogOf(m.term)')
          /\ Len(LogOf(m.term)) \in Nat /\ Len(LogOf(m.term)') \in Nat
      BY <1>5, LogForward DEF Extends, IsLog
    <2>2. m.ConflictIndex <= Len(LogOf(m.term)') + 1
      BY <1>1, <1>5, <2>1
    <2>3. m.Success => m.newMatch <= Len(LogOf(m.term)')
      BY <1>1, <1>5, <2>1
    <2>4. m.Success /\ m.newMatch > 0 => Confirmed(m.term, m.callee, m.newMatch)'
      BY <1>1, <1>5, ConfirmedForward
    <2> QED BY <1>3, <1>5, <2>1, <2>2, <2>3, <2>4 DEF AppendReplyInv
  <1> QED BY <1>4, <1>5 DEF AppendReplyInv

LEMMA SnapshotRequestFrame ==
    ASSUME LogsTyped, LogsTyped', Forward, TypeInv, TypeInv', NEW m \in Message,
           SnapshotRequestInv(m)
    PROVE  SnapshotRequestInv(m)'
  <1> SUFFICES ASSUME m.kind = "InstallSnapshot" PROVE SnapshotRequestInv(m)'
    BY DEF SnapshotRequestInv
  <1> DEFINE n == m.LastIncludedIndex
  <1>1. m.callee \in Server /\ m.Term \in Nat /\ n \in Nat
    BY MessageKinds DEF InstallSnapshotArgs
  <1>2. /\ n >= 1 /\ m.Term \in Led
        /\ Agree(m.Data, LogOf(m.Term), n) /\ Agree(m.Data, committed, n)
        /\ m.LastIncludedTerm = m.Data[n].Term
        /\ Decided(m.Term, n)
        /\ currentTerm[m.callee] < m.Term => LogOf(m.Term)[n].Term = m.Term
    BY DEF SnapshotRequestInv
  <1>3. Agree(m.Data, LogOf(m.Term)', n)
    BY <1>1, <1>2, AgreeForward
  <1>4. Agree(m.Data, committed', n)
    BY <1>1, <1>2 DEF Agree, Forward, LogsTyped, IsLog
  <1>5. Decided(m.Term, n)'
    BY <1>1, <1>2, DecidedForward
  <1>6. m.Term \in Led' /\ LogOf(m.Term)'[n] = LogOf(m.Term)[n]
    BY <1>1, <1>2, LogForward DEF Agree, Extends, IsLog
  <1>7. currentTerm'[m.callee] < m.Term => currentTerm[m.callee] < m.Term
    BY <1>1 DEF Forward, TypeInv, MemoryOK
  <1> QED BY <1>2, <1>3, <1>4, <1>5, <1>6, <1>7 DEF SnapshotRequestInv

LEMMA SnapshotReplyFrame ==
    ASSUME LogsTyped, LogsTyped', Forward, TypeInv, TypeInv', NEW m \in Message,
           SnapshotReplyInv(m)
    PROVE  SnapshotReplyInv(m)'
  <1> SUFFICES ASSUME m.kind = "InstallSnapshotReply" PROVE SnapshotReplyInv(m)'
    BY DEF SnapshotReplyInv
  <1>1. m.callee \in Server /\ m.term \in Nat /\ m.lastIncludedIndex \in Nat
    BY MessageKinds DEF InstallSnapshotReply
  <1>2. m.term \in Led /\ m.lastIncludedIndex <= Len(LogOf(m.term))
    BY DEF SnapshotReplyInv
  <1>3. m.term \in Led' /\ m.lastIncludedIndex <= Len(LogOf(m.term)')
    BY <1>1, <1>2, LogForward DEF Extends, IsLog
  <1>4. m.term <= currentTerm'[m.callee]
    BY <1>1 DEF SnapshotReplyInv, Forward, TypeInv, MemoryOK
  <1>5. m.Term <= m.term => Confirmed(m.term, m.callee, m.lastIncludedIndex)'
    BY <1>1, <1>2, ConfirmedForward DEF SnapshotReplyInv
  <1> QED BY <1>3, <1>4, <1>5 DEF SnapshotReplyInv

LEMMA MessageFrame ==
    ASSUME LogsTyped, LogsTyped', Forward, TypeInv, TypeInv', Candidates, NEW m \in Message,
           MessageInv(m)
    PROVE  MessageInv(m)'
  BY VoteRequestFrame, AppendRequestFrame, AppendReplyFrame, SnapshotRequestFrame,
     SnapshotReplyFrame DEF MessageInv

-----------------------------------------------------------------------------
(* Steps that make no leader and no candidate and append to no leader's log *)

LEMMA ForwardSame ==
    ASSUME LogsTyped, leaderLogs' = leaderLogs, acked \subseteq acked',
           Agree(committed', committed, Len(committed)),
           \A j \in Server : currentTerm[j] <= currentTerm'[j],
           \A j \in Server : lastIncludedIndex[j] <= lastIncludedIndex'[j]
    PROVE  Forward
  <1>1. Led' = Led /\ \A t : Turn(t)' = Turn(t) /\ LogOf(t)' = LogOf(t)
    BY DEF Led, LogOf, Turn
  <1>2. \A t \in Led : Extends(t)
    BY <1>1 DEF Extends, LogsTyped, IsLog
  <1> QED BY <1>1, <1>2 DEF Forward

LEMMA SameCommitted ==
    ASSUME LogsTyped, committed' = committed
    PROVE  Agree(committed', committed, Len(committed))
  BY DEF Agree, LogsTyped, IsLog

LEMMA LeadersFrame ==
    ASSUME TypeInv, TypeInv', Forward, LeadersInv, Roles, leaderLogs' = leaderLogs,
           elected' = elected,
           \A j \in Server : state'[j] = "leader" => FullLog(j)' = FullLog(j)
    PROVE  LeadersInv'
  <1>1. Led' = Led /\ \A t : LogOf(t)' = LogOf(t)
    BY DEF Led, LogOf, Turn
  <1>2. (\A d, e \in DOMAIN leaderLogs : leaderLogs[d].term = leaderLogs[e].term => d = e)'
    BY DEF LeadersInv
  <1>3. Led' = {e.term : e \in elected'}
    BY <1>1 DEF LeadersInv
  <1>4. ASSUME NEW e \in elected
        PROVE  /\ e.term >= 1
               /\ e.term <= currentTerm'[e.leader]
               /\ e.term = currentTerm'[e.leader] => state'[e.leader] # "candidate"
    <2>1. /\ e.leader \in Server /\ e.term \in Nat
      BY DEF TypeInv, HistoryOK
    <2>2. /\ currentTerm[e.leader] \in Nat /\ currentTerm'[e.leader] \in Nat
          /\ currentTerm[e.leader] <= currentTerm'[e.leader]
      BY <2>1 DEF TypeInv, MemoryOK, Forward
    <2>3. /\ e.term >= 1 /\ e.term <= currentTerm[e.leader]
          /\ e.term = currentTerm[e.leader] => state[e.leader] # "candidate"
      BY DEF LeadersInv
    <2>4. state'[e.leader] = "candidate" =>
             \/ state[e.leader] = "candidate" /\ currentTerm'[e.leader] = currentTerm[e.leader]
             \/ currentTerm'[e.leader] > currentTerm[e.leader]
      BY <2>1 DEF Roles, Candidates
    <2> QED BY <2>1, <2>2, <2>3, <2>4
  <1>5. ASSUME NEW i \in Server, state'[i] = "leader"
        PROVE  /\ [term |-> currentTerm'[i], leader |-> i] \in elected'
               /\ LogOf(currentTerm[i])' = FullLog(i)'
    <2>1. state[i] = "leader" /\ currentTerm'[i] = currentTerm[i] /\ FullLog(i)' = FullLog(i)
      BY <1>5 DEF Roles, Leaders
    <2>2. [term |-> currentTerm[i], leader |-> i] \in elected /\ LogOf(currentTerm[i]) = FullLog(i)
      BY <2>1 DEF LeadersInv
    <2>3. LogOf(currentTerm[i])' = LogOf(currentTerm[i])
      BY <1>1, <2>1 DEF LogOf, Turn
    <2> QED BY <2>1, <2>2, <2>3
  <1>6. ASSUME NEW i \in Server, state'[i] = "candidate" PROVE currentTerm'[i] >= 1
    <2>1. currentTerm[i] \in Nat /\ currentTerm'[i] \in Nat
      BY DEF TypeInv, MemoryOK
    <2>2. state[i] = "candidate" => currentTerm[i] >= 1
      BY DEF LeadersInv
    <2> QED BY <1>6, <2>1, <2>2 DEF Roles, Candidates
  <1>7. ASSUME NEW e \in elected, NEW n \in 1 .. Len(LogOf(e.term)), Own(e.term, n)
        PROVE  HasAcked(e.term, e.leader, n)'
    BY <1>7 DEF LeadersInv, HasAcked, Forward
  <1>8. (\A e \in elected : \A n \in 1 .. Len(LogOf(e.term)) :
           Own(e.term, n) => HasAcked(e.term, e.leader, n))'
    BY <1>1, <1>7 DEF Own
  <1> QED BY <1>2, <1>3, <1>4, <1>5, <1>6, <1>8 DEF LeadersInv

\* What a step has to show for itself.
LEMMA GeneralStep ==
    ASSUME TypeInv, TypeInv', VoteInv, LogInv, Forward, Candidates, NewCandidates, NewAcks,
           NewBallots, DiskInv', LeadersInv', LeaderLogInv', CommitInv', ProgressInv',
           \A u \in Led' : u \in Led \/ ElectedOK(u)',
           \A j \in Server : FullLog(j)' = FullLog(j) \/ NodeLogOK(j)',
           \A a \in acked' : \/ a \in acked /\ FullLog(a.node)' = FullLog(a.node)
                             \/ AckOK(a)' /\ NewestAckOK(a)',
           \A b \in ballots' : b \in ballots \/ BallotOK(b)',
           \A m \in BagToSet(net') : m \in BagToSet(net) \/ MessageInv(m)'
    PROVE  LogInv'
  <1>1. LogsTyped /\ LogsTyped'
    BY LogsAreTyped, LogsAreTypedNext
  <1>2. NodeLogInv'
    BY <1>1, NodeLogFrame DEF LogInv, NodeLogInv
  <1>3. AckInv'
    BY <1>1, AckFrame DEF LogInv, AckInv
  <1>4. NewestAckInv'
    BY <1>1, NewestAckFrame DEF LogInv, AckInv, NewestAckInv
  <1>5. BallotInv'
    <2> SUFFICES ASSUME NEW b \in ballots PROVE BallotOK(b)'
      BY DEF BallotInv
    <2>1. b.candidate \in Server /\ b.term \in Nat
      BY DEF TypeInv, HistoryOK
    <2>2. /\ b.term <= currentTerm[b.candidate]
          /\ currentTerm[b.candidate] \in Nat /\ currentTerm'[b.candidate] \in Nat
      BY <2>1 DEF LogInv, BallotInv, BallotOK, TypeInv, MemoryOK
    <2>3. Running(b.candidate, b.term)' =>
             Running(b.candidate, b.term) /\ FullLog(b.candidate)' = FullLog(b.candidate)
      BY <2>1, <2>2 DEF Running, Candidates
    <2> QED BY <1>1, <2>3, BallotFrame DEF LogInv, BallotInv, VoteInv
  <1>6. LateCandidateInv'
    <2> SUFFICES ASSUME NEW i \in Server, state'[i] = "candidate",
                        LastTerm(FullLog(i)') > currentTerm'[i]
                 PROVE  Opposed(i)'
      BY DEF LateCandidateInv, LastTerm
    <2>1. /\ FullLog(i)' = FullLog(i)
          /\ \/ state[i] = "candidate" /\ currentTerm'[i] = currentTerm[i]
             \/ currentTerm'[i] > currentTerm[i]
      BY DEF Candidates
    <2>2. CASE state[i] = "candidate" /\ currentTerm'[i] = currentTerm[i]
      <3>1. Opposed(i)
        BY <2>1, <2>2 DEF LogInv, LateCandidateInv
      <3> QED BY <2>2, <3>1, OpposedFrame
    <2>3. CASE currentTerm'[i] > currentTerm[i]
      <3>1. /\ currentTerm[i] \in Nat /\ currentTerm'[i] \in Nat
            /\ LastTerm(FullLog(i)) \in Nat
        BY <1>1 DEF TypeInv, MemoryOK, LastTerm, LogsTyped, IsLog
      <3> QED BY <2>1, <2>3, <3>1 DEF NewCandidates
    <2> QED BY <2>1, <2>2, <2>3
  <1>7. ElectedInv'
    BY <1>1, ElectedFrame DEF LogInv, ElectedInv
  <1>8. NetInv'
    BY <1>1, MessageFrame DEF LogInv, NetInv, TypeInv, NetOK
  <1> QED BY <1>2, <1>3, <1>4, <1>5, <1>6, <1>7, <1>8 DEF LogInv

\* The same, when no leader's log changes.
LEMMA OrdinaryStep ==
    ASSUME TypeInv, TypeInv', VoteInv, LogInv, Forward, Roles, NewCandidates, NewAcks,
           NewBallots, DiskInv', CommitInv', ProgressInv',
           leaderLogs' = leaderLogs, elected' = elected,
           \A j \in Server : state'[j] = "leader" => FullLog(j)' = FullLog(j),
           \A j \in Server : FullLog(j)' = FullLog(j) \/ NodeLogOK(j)',
           \A a \in acked' : \/ a \in acked /\ FullLog(a.node)' = FullLog(a.node)
                             \/ AckOK(a)' /\ NewestAckOK(a)',
           \A b \in ballots' : b \in ballots \/ BallotOK(b)',
           \A m \in BagToSet(net') : m \in BagToSet(net) \/ MessageInv(m)'
    PROVE  LogInv'
  <1>1. LeadersInv'
    BY LeadersFrame DEF LogInv
  <1>2. LeaderLogInv'
    BY LeaderLogFrame DEF LogInv
  <1>3. Led' = Led
    BY DEF Led
  <1> QED BY <1>1, <1>2, <1>3, GeneralStep DEF Roles

\* Steps that keep every log, every commit index and what leaders believe.
LEMMA QuietLogStep ==
    ASSUME TypeInv, TypeInv', VoteInv, LogInv, Roles, NewCandidates, NewBallots, DiskInv',
           UNCHANGED <<leaderLogs, elected, acked, committed, lastIncludedIndex, commitIndex>>,
           \A j \in Server : currentTerm[j] <= currentTerm'[j] /\ FullLog(j)' = FullLog(j),
           \A i, j \in Server : state'[i] = "leader" =>
               nextIndex'[i][j] = nextIndex[i][j] /\ matchIndex'[i][j] = matchIndex[i][j],
           \A b \in ballots' : b \in ballots \/ BallotOK(b)',
           \A c \in captures' : c \in captures \/ CaptureOK(c)',
           \A m \in BagToSet(net') : m \in BagToSet(net) \/ MessageInv(m)'
    PROVE  LogInv'
  <1>1. LogsTyped /\ LogsTyped'
    BY LogsAreTyped, LogsAreTypedNext
  <1>2. Forward
    BY <1>1, ForwardSame, SameCommitted DEF TypeInv, MemoryOK
  <1>3. NewAcks
    BY DEF NewAcks
  <1>4. CommitInv'
    <2>1. ASSUME NEW i \in Server PROVE CommitOK(i)'
      BY <1>1, <1>2, CommitFrame DEF LogInv, CommitInv, CommitOK, TypeInv, VolatileOK, Roles
    <2>2. ASSUME NEW c \in captures PROVE CaptureOK(c)'
      <3>1. CaptureOK(c)
        BY DEF LogInv, CommitInv
      <3>2. c.src \in Server
        BY DEF TypeInv, VolatileOK, Capture
      <3>3. commitIndex[c.src] <= commitIndex'[c.src]
        BY <3>2 DEF TypeInv, VolatileOK
      <3> QED BY <1>1, <1>2, <3>1, <3>3, CaptureFrame
    <2>3. (Len(committed) > 0 => \E t \in Led : ChosenBy(t, Len(committed)))'
      BY <1>1, <1>2, CommittedFrame DEF LogInv
    <2> QED BY <2>1, <2>2, <2>3 DEF CommitInv
  <1>5. ProgressInv'
    <2> SUFFICES ASSUME NEW i \in Server, NEW j \in Server, state'[i] = "leader"
                 PROVE  ProgressOK(i, j)'
      BY DEF ProgressInv
    <2>1. state[i] = "leader" /\ currentTerm'[i] = currentTerm[i]
      BY DEF Roles, Leaders
    <2>2. ProgressOK(i, j)
      BY <2>1 DEF LogInv, ProgressInv
    <2> QED BY <1>1, <1>2, <2>1, <2>2, ProgressFrame DEF LogInv
  <1>6. \A a \in acked' : a \in acked /\ a.node \in Server
    BY <1>1 DEF LogsTyped
  <1> QED BY <1>2, <1>3, <1>4, <1>5, <1>6, OrdinaryStep

LEMMA DiskSame ==
    ASSUME DiskInv, UNCHANGED <<durableVars, persister>>
    PROVE  DiskInv' /\ \A j \in Server : FullLog(j)' = FullLog(j)
  BY DEF DiskInv, durableVars, FullLog

LEMMA PersistSame ==
    ASSUME TypeInv, DiskInv, NEW i \in Server, persist(i),
           UNCHANGED <<log, lastIncludedIndex, lastIncludedTerm>>,
           \A j \in Server : j # i => currentTerm'[j] = currentTerm[j]
    PROVE  DiskInv' /\ \A j \in Server : FullLog(j)' = FullLog(j)
  <1>1. \A j \in Server : j # i => persister'[j] = persister[j]
    BY DEF persist, persistWithSnapshot, TypeInv, DiskOK
  <1>2. persister'[i] = DiskState(i, persister[i].snapshot)
    BY DEF persist, persistWithSnapshot, TypeInv, DiskOK
  <1>3. /\ persister'[i].snapshot = persister[i].snapshot
        /\ persister'[i].log = log'[i]
        /\ persister'[i].currentTerm = currentTerm'[i]
        /\ persister'[i].lastIncludedTerm = lastIncludedTerm'[i]
    BY <1>2 DEF DiskState
  <1>4. \A j \in Server : FullLog(j)' = FullLog(j)
    BY <1>1, <1>3 DEF FullLog
  <1> QED BY <1>1, <1>3, <1>4 DEF DiskInv

-----------------------------------------------------------------------------
(* The leader's goroutines *)

LEMMA LogSendHeartbeats ==
    ASSUME TypeInv, TypeInv', VoteInv, LogInv, NEW i \in Server, sendHeartbeats(i)
    PROVE  LogInv'
  <1>1. /\ UNCHANGED <<durableVars, persister, commitIndex, leaderVars, state, net, histVars>>
        /\ captures' = captures \cup {[src |-> i, term |-> currentTerm[i],
                                       commitIndex |-> commitIndex[i]]}
    BY DEF sendHeartbeats
  <1>2. DiskInv' /\ \A j \in Server : FullLog(j)' = FullLog(j)
    BY <1>1, DiskSame DEF LogInv
  <1>3. \A j \in Server : currentTerm[j] <= currentTerm'[j]
    BY <1>1 DEF durableVars, TypeInv, MemoryOK
  <1>4. Roles /\ NewCandidates /\ NewBallots
    BY <1>1, <1>2 DEF durableVars, histVars, Roles, Candidates, Leaders, NewCandidates,
                      NewBallots
  <1>5. ASSUME NEW c \in captures', c \notin captures PROVE CaptureOK(c)'
    <2>1. c.src = i /\ c.term = currentTerm[i] /\ c.commitIndex = commitIndex[i]
      BY <1>1, <1>5
    <2>2. /\ currentTerm[i] \in Nat /\ commitIndex[i] \in Nat
          /\ Decided(Reach(i), commitIndex[i])
      BY DEF TypeInv, MemoryOK, VolatileOK, LogInv, CommitInv, CommitOK
    <2>3. LogsTyped /\ LogsTyped' /\ Forward
      BY <1>1, <1>3, LogsAreTyped, LogsAreTypedNext, ForwardSame, SameCommitted
         DEF histVars, durableVars, TypeInv, MemoryOK
    <2>4. Reach(i) \in Int /\ Reach(i) <= currentTerm[i]
      BY ReachType
    <2>5. Decided(c.term, c.commitIndex)'
      BY <2>1, <2>2, <2>3, <2>4, DecidedForward
    <2> QED BY <1>1, <2>1, <2>2, <2>5 DEF CaptureOK, durableVars
  <1> QED BY <1>1, <1>2, <1>3, <1>4, <1>5, QuietLogStep DEF durableVars, leaderVars, histVars

LEMMA LogAfterView ==
    ASSUME TypeInv, NEW i \in Server, NEW k \in lastIncludedIndex[i] .. lastLogIndex(i)
    PROVE  /\ Len(logAfter(i, k)) = lastLogIndex(i) - k
           /\ \A l \in 1 .. Len(logAfter(i, k)) : logAfter(i, k)[l] = FullLog(i)[k + l]
  <1> DEFINE s == lastIncludedIndex[i]
             a == k - s + 1
             b == Len(log[i])
  <1>1. NodeView(i) /\ s \in Nat /\ log[i] \in Seq(Entry)
    BY NodeViews DEF TypeInv, MemoryOK
  <1>2. /\ k \in Nat /\ a \in 1 .. b + 1 /\ b \in Nat /\ lastLogIndex(i) = s + b
        /\ lastLogIndex(i) - k = b - a + 1 /\ a = k - s + 1
    BY <1>1 DEF lastLogIndex
  <1>3. \A l \in a .. b : log[i][l] \in Entry
    BY <1>1, <1>2, ElementOfSeq
  <1> HIDE DEF a, b, s
  <1>4. /\ Len(SubSeq(log[i], a, b)) = IF a <= b THEN b - a + 1 ELSE 0
        /\ \A l \in 1 .. b - a + 1 : SubSeq(log[i], a, b)[l] = log[i][a + l - 1]
    BY <1>2, <1>3, SubSeqProperties
  <1>5. Len(SubSeq(log[i], a, b)) = b - a + 1
    BY <1>2, <1>4
  <1>6. ASSUME NEW l \in 1 .. b - a + 1 PROVE log[i][a + l - 1] = FullLog(i)[k + l]
    <2>1. a + l - 1 \in 1 .. b /\ s + (a + l - 1) = k + l
      BY <1>1, <1>2
    <2>2. log[i][a + l - 1] = FullLog(i)[s + (a + l - 1)]
      BY <1>1, <2>1 DEF NodeView, b, s
    <2> QED BY <2>1, <2>2
  <1>7. logAfter(i, k) = SubSeq(log[i], a, b)
    BY DEF logAfter, a, b, s
  <1> QED BY <1>2, <1>4, <1>5, <1>6, <1>7

LEMMA AppendEntriesSound ==
    ASSUME TypeInv, LogInv, NEW c \in captures, NEW peer \in Server, state[c.src] = "leader",
           nextIndex[c.src][peer] \in (lastIncludedIndex[c.src] + 1) .. (lastLogIndex(c.src) + 1),
           NEW m, m = AppendEntriesRequest(c, peer)
    PROVE  MessageInv(m)
  <1> DEFINE i == c.src
             p == nextIndex[i][peer] - 1
  <1>1. i \in Server /\ c.term \in Nat /\ c.commitIndex \in Nat /\ currentTerm[i] \in Nat
    BY DEF TypeInv, MemoryOK, VolatileOK, Capture
  <1>2. NodeView(i) /\ LogsTyped
    BY <1>1, NodeViews, LogsAreTyped
  <1>3. p \in lastIncludedIndex[i] .. lastLogIndex(i) /\ p \in Nat /\ lastLogIndex(i) \in Nat
    <2>1. nextIndex[i][peer] \in Nat /\ lastIncludedIndex[i] \in Nat
      BY <1>1 DEF TypeInv, MemoryOK, VolatileOK
    <2>2. lastLogIndex(i) \in Nat
      BY <1>1, LastLogIndexType DEF TypeInv
    <2> QED BY <2>1, <2>2
  <1>4. currentTerm[i] \in Led /\ LogOf(currentTerm[i]) = FullLog(i)
    BY <1>1, LeaderHasLog DEF LogInv
  <1>5. /\ m.kind = "AppendEntries" /\ m.caller = i /\ m.Term = c.term
        /\ m.PrevLogIndex = p /\ m.PrevLogTerm = logTerm(i, p) /\ m.Entries = logAfter(i, p)
        /\ m.LeaderCommit = c.commitIndex
    BY DEF AppendEntriesRequest
  <1> HIDE DEF i, p
  <1>6. /\ Len(m.Entries) = lastLogIndex(i) - p
        /\ \A l \in 1 .. Len(m.Entries) : m.Entries[l] = FullLog(i)[p + l]
    BY <1>1, <1>3, <1>5, LogAfterView
  <1>7. m.PrevLogTerm = IF p = 0 THEN 0 ELSE FullLog(i)[p].Term
    BY <1>1, <1>3, <1>5, LogTermView DEF LogInv
  <1>8. SentFrom(m, FullLog(i))
    BY <1>2, <1>3, <1>5, <1>6, <1>7 DEF SentFrom, NodeView
  <1>9. CaptureOK(c) /\ CommitOK(i)
    BY <1>1 DEF LogInv, CommitInv
  <1>10. c.term <= currentTerm[i] /\ c.commitIndex <= commitIndex[i] /\ Decided(c.term, c.commitIndex)
    BY <1>9 DEF CaptureOK, i
  <1>11. c.commitIndex <= Len(FullLog(i))
    BY <1>1, <1>2, <1>9, <1>10 DEF CommitOK, Agree, LogsTyped, IsLog, TypeInv, VolatileOK
  <1>12. AppendRequestInv(m)
    <2>1. currentTerm[i] = m.Term \/ currentTerm[i] > m.Term
      BY <1>1, <1>5, <1>10
    <2>2. m.LeaderCommit <= m.PrevLogIndex + Len(m.Entries)
      BY <1>1, <1>2, <1>3, <1>5, <1>6, <1>11 DEF NodeView
    <2> QED BY <1>1, <1>4, <1>5, <1>7, <1>8, <1>10, <2>1, <2>2 DEF AppendRequestInv
  <1> QED BY <1>5, <1>12 DEF MessageInv, VoteRequestInv, AppendReplyInv, SnapshotRequestInv,
                             SnapshotReplyInv

LEMMA InstallSnapshotSound ==
    ASSUME TypeInv, LogInv, NEW i \in Server, NEW peer \in Server, state[i] = "leader",
           nextIndex[i][peer] <= lastIncludedIndex[i],
           NEW m, m = InstallSnapshotRequest(i, peer)
    PROVE  MessageInv(m)
  <1> DEFINE s == lastIncludedIndex[i]
  <1>1. NodeView(i) /\ LogsTyped /\ currentTerm[i] \in Nat /\ s \in Nat
        /\ commitIndex[i] \in Nat /\ nextIndex[i][peer] \in Nat
    BY ZenonT(60), NodeViews, LogsAreTyped DEF TypeInv, MemoryOK, VolatileOK
  <1>2. ProgressOK(i, peer) /\ CommitOK(i)
    BY DEF LogInv, ProgressInv, CommitInv
  <1>3. s >= 1 /\ s <= commitIndex[i]
    BY <1>1, <1>2 DEF ProgressOK, CommitOK
  <1>4. currentTerm[i] \in Led /\ LogOf(currentTerm[i]) = FullLog(i)
    BY LeaderHasLog DEF LogInv
  <1>5. /\ m.kind = "InstallSnapshot" /\ m.callee = peer /\ m.Term = currentTerm[i]
        /\ m.LastIncludedIndex = s /\ m.LastIncludedTerm = lastIncludedTerm[i]
        /\ m.Data = persister[i].snapshot
    BY DEF InstallSnapshotRequest
  <1>6. Len(m.Data) = s /\ \A k \in 1 .. s : m.Data[k] = FullLog(i)[k]
    BY <1>1, <1>5 DEF NodeView, TypeInv, DiskOK
  <1>7. Agree(m.Data, FullLog(i), s)
    BY <1>1, <1>6 DEF Agree, NodeView
  <1>8. Agree(m.Data, committed, s)
    BY <1>1, <1>2, <1>3, <1>6 DEF Agree, CommitOK, LogsTyped, IsLog
  <1>9. m.LastIncludedTerm = m.Data[s].Term
    BY <1>1, <1>3, <1>5, <1>6 DEF LogInv, DiskInv
  <1>10. Decided(currentTerm[i], s)
    <2>1. Reach(i) = currentTerm[i]
      BY DEF Reach
    <2> QED BY <1>1, <1>2, <1>3, <2>1, DecidedLess DEF CommitOK
  <1>11. currentTerm[peer] < currentTerm[i] => FullLog(i)[s].Term = currentTerm[i]
    BY <1>1, <1>2, <1>3 DEF ProgressOK, NodeView
  <1>12. SnapshotRequestInv(m)
    BY <1>3, <1>4, <1>5, <1>7, <1>8, <1>9, <1>10, <1>11 DEF SnapshotRequestInv
  <1> QED BY <1>5, <1>12 DEF MessageInv, VoteRequestInv, AppendReplyInv, AppendRequestInv,
                             SnapshotReplyInv

LEMMA LogReplicate ==
    ASSUME TypeInv, TypeInv', VoteInv, LogInv, NEW c \in captures, NEW peer \in Others(c.src),
           replicate(c, peer)
    PROVE  LogInv'
  <1>1. /\ UNCHANGED <<durableVars, persister, commitIndex, leaderVars, state, captures, histVars>>
        /\ state[c.src] = "leader"
    BY DEF replicate, taskVars
  <1>2. DiskInv' /\ \A j \in Server : FullLog(j)' = FullLog(j)
    BY <1>1, DiskSame DEF LogInv
  <1>3. \A j \in Server : currentTerm[j] <= currentTerm'[j]
    BY <1>1 DEF durableVars, TypeInv, MemoryOK
  <1>4. Roles /\ NewCandidates /\ NewBallots
    BY <1>1, <1>2 DEF durableVars, histVars, Roles, Candidates, Leaders, NewCandidates,
                      NewBallots
  <1>5. LogsTyped /\ LogsTyped' /\ Forward
    BY <1>1, <1>3, LogsAreTyped, LogsAreTypedNext, ForwardSame, SameCommitted
       DEF histVars, durableVars, TypeInv, MemoryOK
  <1>6. ASSUME NEW m \in BagToSet(net'), m \notin BagToSet(net) PROVE MessageInv(m)'
    <2>1. c.src \in Server /\ peer \in Server /\ IsABag(net) /\ m \in Message
      BY <1>6 DEF TypeInv, VolatileOK, Capture, NetOK, Others
    <2>2. MessageInv(m)
      <3>1. CASE /\ nextIndex[c.src][peer] <= lastIncludedIndex[c.src]
                 /\ Call({InstallSnapshotRequest(c.src, peer)})
        <4>1. m = InstallSnapshotRequest(c.src, peer)
          BY <1>6, <2>1, <3>1, NetCall
        <4> QED BY <1>1, <2>1, <3>1, <4>1, InstallSnapshotSound
      <3>2. CASE /\ nextIndex[c.src][peer] \in
                      (lastIncludedIndex[c.src] + 1) .. (lastLogIndex(c.src) + 1)
                 /\ Call({AppendEntriesRequest(c, peer)})
        <4>1. m = AppendEntriesRequest(c, peer)
          BY <1>6, <2>1, <3>2, NetCall
        <4> QED BY <1>1, <2>1, <3>2, <4>1, AppendEntriesSound
      <3> QED BY <3>1, <3>2 DEF replicate
    <2> QED BY <1>4, <1>5, <2>1, <2>2, MessageFrame DEF Roles
  <1> QED BY <1>1, <1>2, <1>3, <1>4, <1>6, QuietLogStep DEF durableVars, leaderVars, histVars

-----------------------------------------------------------------------------
(* Votes: a candidate whose log passes logOk has what the voter acknowledged *)

LEMMA LedPositive ==
    ASSUME LogInv, LogsTyped, NEW t \in Led
    PROVE  t \in Nat /\ t >= 1
  <1>1. PICK e \in elected : t = e.term
    BY DEF LogInv, LeadersInv
  <1> QED BY <1>1 DEF LogInv, LeadersInv, LogsTyped

LEMMA TermsGrow ==
    ASSUME LogInv, LogsTyped, NEW t \in Led, NEW k \in 1 .. Len(LogOf(t)), NEW l \in 1 .. k
    PROVE  LogOf(t)[l].Term <= LogOf(t)[k].Term
  BY DEF LogInv, LeaderLogInv

\* A snapshot was chosen.
LEMMA SnapshotChosen ==
    ASSUME TypeInv, LogInv, LogsTyped, NEW i \in Server, lastIncludedIndex[i] > 0
    PROVE  \E t \in Led : \E n \in lastIncludedIndex[i] .. Len(LogOf(t)) :
              /\ t <= Reach(i) /\ Chosen(t, n)
              /\ Agree(FullLog(i), LogOf(t), lastIncludedIndex[i])
  <1> DEFINE s == lastIncludedIndex[i]
  <1>1. CommitOK(i) /\ s \in Nat /\ commitIndex[i] \in Nat
    BY DEF LogInv, CommitInv, TypeInv, MemoryOK, VolatileOK
  <1>2. s <= commitIndex[i] /\ Agree(FullLog(i), committed, commitIndex[i])
    BY <1>1 DEF CommitOK
  <1>3. Decided(Reach(i), s)
    BY <1>1, <1>2, DecidedLess DEF CommitOK
  <1>4. PICK t \in Led : t <= Reach(i) /\ ChosenBy(t, s)
    BY <1>3 DEF Decided
  <1>5. PICK n \in s .. Len(LogOf(t)) : Chosen(t, n)
    BY <1>4 DEF ChosenBy
  <1>6. Agree(FullLog(i), LogOf(t), s)
    BY <1>1, <1>2, <1>4 DEF ChosenBy, Agree, LogsTyped, IsLog
  <1> QED BY <1>4, <1>5, <1>6

\* A log holds the entry, or a leader elected meanwhile does not.
LEMMA UpToDateHolds ==
    ASSUME TypeInv, LogInv, NEW i \in Server, NEW t \in Led, NEW n \in Nat, Own(t, n),
           LastTerm(FullLog(i)) >= t, LastTerm(FullLog(i)) = t => Len(FullLog(i)) >= n
    PROVE  Holds(FullLog(i), t, n) \/ Lacking(t, n)
  <1> SUFFICES ASSUME ~Lacking(t, n) PROVE Agree(FullLog(i), LogOf(t), n)
    BY DEF Holds
  <1> DEFINE F == FullLog(i)
             L == Len(F)
             s == lastIncludedIndex[i]
             v == LastTerm(F)
  <1>1. LogsTyped /\ NodeView(i)
    BY LogsAreTyped, NodeViews
  <1>2. /\ t \in Nat /\ t >= 1 /\ L \in Nat /\ s \in 0 .. L
        /\ n \in 1 .. Len(LogOf(t)) /\ LogOf(t)[n].Term = t /\ Len(LogOf(t)) \in Nat
    BY <1>1, LedPositive DEF LogsTyped, IsLog, NodeView, Own
  <1>3. L >= 1 /\ v = F[L].Term /\ v \in Nat
    BY <1>1, <1>2 DEF LastTerm, LogsTyped, IsLog
  <1>4. \A u \in Led : u > t => Agree(LogOf(u), LogOf(t), n)
    BY DEF Lacking
  <1> HIDE DEF F, L, s, v
  <1>5. ASSUME s > 0
        PROVE  /\ \A l \in 1 .. s : l <= n => F[l] = LogOf(t)[l]
               /\ L = s /\ n > L => v = t
    <2>0. PICK ts \in Led : \E ns \in s .. Len(LogOf(ts)) :
                               Chosen(ts, ns) /\ Agree(F, LogOf(ts), s)
      BY <1>1, <1>5, SnapshotChosen DEF s, F
    <2>1. PICK ns \in s .. Len(LogOf(ts)) : Chosen(ts, ns) /\ Agree(F, LogOf(ts), s)
      BY <2>0
    <2>2. ts \in Nat /\ ns \in Nat /\ s <= ns /\ s \in Nat /\ s <= Len(LogOf(ts))
          /\ Len(LogOf(ts)) \in Nat
      BY <1>1, <1>2, <2>1 DEF LogsTyped, IsLog
    <2>3. CASE ts <= t
      <3>1. Agree(LogOf(t), LogOf(ts), ns)
        BY <1>1, <1>2, <2>1, <2>3, Carried DEF LogInv
      <3>2. \A l \in 1 .. s : F[l] = LogOf(t)[l]
        BY <2>1, <2>2, <3>1 DEF Agree
      <3>3. L = s /\ n > L => LogOf(t)[L].Term = v /\ LogOf(t)[L].Term <= t
        BY <1>1, <1>2, <1>3, <3>2, TermsGrow
      <3> QED BY <1>2, <1>3, <3>2, <3>3 DEF v, F
    <2>4. CASE ts > t
      <3>1. Agree(LogOf(ts), LogOf(t), n)
        BY <1>4, <2>4
      <3>2. \A l \in 1 .. s : l <= n => F[l] = LogOf(t)[l]
        BY <1>2, <2>1, <2>2, <3>1 DEF Agree
      <3>3. ASSUME L = s, n > L PROVE v = t
        <4>1. F[L] = LogOf(ts)[L]
          BY <1>2, <1>3, <2>1, <3>3 DEF Agree
        <4>2. LogOf(ts)[n] = LogOf(t)[n] /\ n \in 1 .. Len(LogOf(ts)) /\ L \in 1 .. n
          BY <1>2, <1>3, <2>2, <3>1, <3>3 DEF Agree
        <4>3. LogOf(ts)[L].Term <= LogOf(ts)[n].Term
          BY <1>1, <4>2, TermsGrow
        <4> QED BY <1>2, <1>3, <4>1, <4>2, <4>3 DEF v, F
      <3> QED BY <3>2, <3>3
    <2> QED BY <1>2, <2>2, <2>3, <2>4
  <1>6. n <= L /\ \A l \in (s + 1) .. n : F[l] = LogOf(t)[l]
    <2>1. CASE L = s
      <3>1. n <= L
        BY <1>2, <1>3, <1>5, <2>1 DEF v, L, F
      <3> QED BY <1>2, <2>1, <3>1
    <2>2. CASE L > s
      <3>1. NodeLogOK(i) /\ L \in (s + 1) .. L
        BY <1>2, <2>2 DEF LogInv, NodeLogInv
      <3>2. v \in Led /\ L <= Len(LogOf(v)) /\ \A l \in (s + 1) .. L : F[l] = LogOf(v)[l]
        BY <1>3, <3>1 DEF NodeLogOK, F, L, s
      <3>3. CASE v = t
        BY <1>2, <3>2, <3>3 DEF L, F, v
      <3>4. CASE v > t
        <4>1. Agree(LogOf(v), LogOf(t), n)
          BY <1>4, <3>2, <3>4
        <4>2. n <= L
          <5> SUFFICES ASSUME n > L PROVE FALSE
            BY <1>2
          <5>1. n \in 1 .. Len(LogOf(v)) /\ L \in 1 .. n /\ LogOf(v)[n] = LogOf(t)[n]
            BY <1>2, <1>3, <4>1 DEF Agree
          <5>2. LogOf(v)[L].Term <= LogOf(v)[n].Term
            BY <1>1, <3>2, <5>1, TermsGrow
          <5>3. LogOf(v)[L] = F[L]
            BY <3>1, <3>2
          <5> QED BY <1>2, <1>3, <3>4, <5>1, <5>2, <5>3
        <4> QED BY <1>2, <3>2, <4>1, <4>2 DEF Agree
      <3> QED BY <1>2, <1>3, <3>3, <3>4 DEF v, F
    <2> QED BY <1>2, <2>1, <2>2
  <1>7. \A l \in 1 .. n : F[l] = LogOf(t)[l]
    BY <1>2, <1>5, <1>6
  <1> QED BY <1>2, <1>6, <1>7 DEF Agree, F, L

\* The comparison of RequestVote.
LEMMA GrantCovers ==
    ASSUME TypeInv, LogInv, NEW m \in Message, m.kind = "RequestVote", VoteRequestInv(m),
           Running(m.caller, m.Term), logOk(m.callee, m)
    PROVE  Covers(m.caller, m.callee, m.Term)
  <1> DEFINE i == m.caller
             j == m.callee
  <1>1. LogsTyped /\ i \in Server /\ j \in Server
    BY LogsAreTyped, MessageFields
  <1>2. m.LastLogIndex = Len(FullLog(i)) /\ m.LastLogTerm = LastTerm(FullLog(i))
    BY DEF VoteRequestInv
  <1>3. \/ LastTerm(FullLog(i)) > LastTerm(FullLog(j))
        \/ /\ LastTerm(FullLog(i)) = LastTerm(FullLog(j))
           /\ Len(FullLog(i)) >= Len(FullLog(j))
    BY <1>1, <1>2, LastTermView, NodeViews DEF logOk, NodeView, LogInv
  <1> SUFFICES ASSUME NEW a \in acked, a.node = j, a.term < m.Term, NEW n \in 1 .. a.index,
                      Own(a.term, n)
               PROVE  Holds(FullLog(i), a.term, n) \/ Lacking(a.term, n)
    BY DEF Covers
  <1> HIDE DEF i, j
  <1>4. AckOK(a) /\ a.term \in Led /\ n \in Nat /\ a.term \in Nat
    BY <1>1 DEF LogInv, AckInv, AckOK, LogsTyped
  <1>5. CASE Lacking(a.term, n)
    BY <1>5
  <1>6. CASE Holds(FullLog(j), a.term, n)
    <2>1. LastTerm(FullLog(j)) >= a.term /\ n <= Len(FullLog(j))
      BY <1>6 DEF Holds, Agree
    <2>2. /\ LastTerm(FullLog(j)) \in Nat /\ LastTerm(FullLog(i)) \in Nat
          /\ Len(FullLog(i)) \in Nat /\ Len(FullLog(j)) \in Nat
      BY <1>1 DEF LastTerm, LogsTyped, IsLog
    <2>3. /\ LastTerm(FullLog(i)) >= a.term
          /\ LastTerm(FullLog(i)) = a.term => Len(FullLog(i)) >= n
      BY <1>3, <1>4, <2>1, <2>2
    <2> QED BY <1>1, <1>4, <2>3, UpToDateHolds
  <1> QED BY <1>4, <1>5, <1>6 DEF AckOK

LEMMA OtherKinds ==
    ASSUME NEW m, m.kind = "RequestVoteReply"
    PROVE  MessageInv(m)'
  BY DEF MessageInv, VoteRequestInv, AppendRequestInv, AppendReplyInv, SnapshotRequestInv,
         SnapshotReplyInv

LEMMA LogRequestVote ==
    ASSUME TypeInv, TypeInv', VoteInv, LogInv, NEW m \in BagToSet(net), RequestVote(m)
    PROVE  LogInv'
  <1> DEFINE i == m.callee
             higher == m.Term > currentTerm[i]
             grant == ballots' # ballots
             new == [term |-> m.Term, voter |-> i, candidate |-> m.caller]
  <1>1. /\ m \in Message /\ i \in Server /\ m.caller \in Server /\ m.Term \in Nat
        /\ currentTerm[i] \in Nat /\ MessageInv(m) /\ m.kind = "RequestVote"
        /\ LogsTyped /\ LogsTyped'
    BY MessageFields, LogsAreTyped, LogsAreTypedNext
       DEF TypeInv, NetOK, MemoryOK, LogInv, NetInv, RequestVote
  <1>2. /\ UNCHANGED <<log, lastIncludedIndex, lastIncludedTerm, commitIndex, leaderVars, captures,
                       elected, committed, leaderLogs, acked>>
        /\ currentTerm' = [currentTerm EXCEPT ![i] = IF higher THEN m.Term ELSE @]
        /\ state' = [state EXCEPT ![i] = IF higher THEN "follower" ELSE @]
    BY DEF RequestVote, taskVars
  <1>3. /\ \A j \in Server : j # i => currentTerm'[j] = currentTerm[j] /\ state'[j] = state[j]
        /\ currentTerm'[i] = IF higher THEN m.Term ELSE currentTerm[i]
        /\ state'[i] = IF higher THEN "follower" ELSE state[i]
    BY <1>1, <1>2 DEF TypeInv, MemoryOK, VolatileOK
  <1>4. DiskInv' /\ \A j \in Server : FullLog(j)' = FullLog(j)
    <2>1. CASE persist(i)
      BY <1>1, <1>2, <1>3, <2>1, PersistSame DEF LogInv
    <2>2. CASE persister' = persister /\ ~higher
      <3>1. currentTerm' = currentTerm
        BY <1>1, <1>2, <1>3, <2>2 DEF TypeInv, MemoryOK
      <3> QED BY <1>2, <2>2, <3>1 DEF DiskInv, FullLog, LogInv
    <2> QED BY <2>1, <2>2 DEF RequestVote
  <1>5. \A j \in Server : currentTerm[j] <= currentTerm'[j]
    <2>1. \A j \in Server : currentTerm[j] \in Nat
      BY DEF TypeInv, MemoryOK
    <2> QED BY <1>1, <1>3, <2>1
  <1>6. Roles /\ NewCandidates
    BY <1>3, <1>4 DEF Roles, Candidates, Leaders, NewCandidates
  <1>7. Forward
    BY <1>1, <1>2, <1>5, ForwardSame, SameCommitted DEF TypeInv, MemoryOK
  <1>8. \A b \in ballots' : \/ b \in ballots
                            \/ b = new /\ m.Term >= currentTerm[i] /\ logOk(i, m)
    BY DEF RequestVote
  <1>9. NewBallots
    BY <1>8 DEF NewBallots
  <1>10. ASSUME NEW b \in ballots', b \notin ballots PROVE BallotOK(b)'
    <2>1. b.term = m.Term /\ b.voter = i /\ b.candidate = m.caller /\ logOk(i, m)
      BY <1>8, <1>10
    <2>2. VoteRequestInv(m)
      BY <1>1 DEF MessageInv
    <2>3. m.Term <= currentTerm'[m.caller]
      BY <1>1, <1>5, <2>2 DEF VoteRequestInv, TypeInv, MemoryOK
    <2>4. ASSUME Running(m.caller, m.Term)' PROVE Covers(m.caller, i, m.Term)'
      <3>1. Running(m.caller, m.Term)
        BY <1>1, <1>3, <2>4 DEF Running
      <3>2. Covers(m.caller, i, m.Term)
        BY <1>1, <2>1, <2>2, <3>1, GrantCovers
      <3>3. NewAcks /\ AckInv
        BY <1>2 DEF NewAcks, LogInv
      <3> QED BY <1>1, <1>2, <1>4, <1>7, <3>2, <3>3, CoversFrame
    <2> QED BY <2>1, <2>3, <2>4 DEF BallotOK
  <1>11. ASSUME NEW n \in BagToSet(net'), n \notin BagToSet(net) PROVE MessageInv(n)'
    <2>1. PICK reply : Reply(m, reply) /\ reply.kind = "RequestVoteReply"
      BY DEF RequestVote
    <2> QED BY <1>11, <2>1, NetReply, OtherKinds DEF TypeInv, NetOK
  <1> HIDE DEF i, new
  <1> QED BY <1>2, <1>4, <1>5, <1>6, <1>9, <1>10, <1>11, QuietLogStep DEF leaderVars

\* A node whose last entry is of a term above the one it starts an election for cannot win.
LEMMA LateCandidate ==
    ASSUME TypeInv, LogInv, LogsTyped, NEW i \in Server, LastTerm(FullLog(i)) > currentTerm[i]
    PROVE  \E Q \in SUBSET Server :
              IsMajority(Q) /\ \A q \in Q : currentTerm[q] >= LastTerm(FullLog(i))
  <1> DEFINE F == FullLog(i)
             L == Len(F)
             s == lastIncludedIndex[i]
             v == LastTerm(F)
  <1>1. NodeView(i) /\ currentTerm[i] \in Nat /\ s \in Nat /\ L \in Nat /\ s <= L
    BY NodeViews DEF TypeInv, MemoryOK, NodeView, LogsTyped, IsLog
  <1>2. L >= 1 /\ v = F[L].Term /\ v \in Nat
    BY <1>1 DEF LastTerm, LogsTyped, IsLog
  <1>3. L > s
    <2> SUFFICES ASSUME L = s PROVE FALSE
      BY <1>1
    <2> HIDE DEF v
    <2>1. PICK t \in Led : \E n \in s .. Len(LogOf(t)) :
              /\ t <= Reach(i) /\ Chosen(t, n) /\ Agree(F, LogOf(t), s)
      BY <1>1, <1>2, SnapshotChosen
    <2>2. t <= Reach(i) /\ Agree(F, LogOf(t), s) /\ t \in Nat
      BY <2>1 DEF LogsTyped
    <2>3. s \in 1 .. Len(LogOf(t)) /\ LogOf(t)[s] = F[L]
      BY <1>1, <1>2, <2>2 DEF Agree
    <2>4. LogOf(t)[s].Term <= t
      BY <2>3 DEF LogInv, LeaderLogInv
    <2>5. Reach(i) \in Int /\ Reach(i) <= currentTerm[i] /\ v > currentTerm[i]
      BY ReachType DEF v
    <2> QED BY <1>1, <1>2, <2>2, <2>3, <2>4, <2>5
  <1>4. v \in Led
    <2>1. L \in (s + 1) .. L
      BY <1>1, <1>3
    <2> QED BY <1>2, <2>1 DEF LogInv, NodeLogInv, NodeLogOK
  <1>5. ElectedOK(v)
    BY <1>4 DEF LogInv, ElectedInv
  <1> QED BY <1>5 DEF ElectedOK

LEMMA LogStartElection ==
    ASSUME TypeInv, TypeInv', VoteInv, LogInv, NEW i \in Server, startElection(i)
    PROVE  LogInv'
  <1> DEFINE X == currentTerm[i] + 1
             new == Ballot(X, i, i)
  <1>1. /\ UNCHANGED <<log, lastIncludedIndex, lastIncludedTerm, commitIndex, leaderVars, captures,
                       elected, committed, leaderLogs, acked>>
        /\ persist(i) /\ currentTerm[i] \in Nat /\ X \in Nat
        /\ ballots' = ballots \cup {new}
        /\ \A j \in Server : j # i => currentTerm'[j] = currentTerm[j] /\ state'[j] = state[j]
        /\ currentTerm'[i] = X /\ state'[i] = "candidate"
    BY DEF startElection, taskVars, TypeInv, MemoryOK, VolatileOK, Ballot
  <1>2. DiskInv' /\ \A j \in Server : FullLog(j)' = FullLog(j)
    BY <1>1, PersistSame DEF LogInv
  <1>3. \A j \in Server : currentTerm[j] <= currentTerm'[j] /\ currentTerm[j] \in Nat
    <2>1. \A j \in Server : currentTerm[j] \in Nat
      BY DEF TypeInv, MemoryOK
    <2> QED BY <1>1, <2>1
  <1>4. Roles
    BY <1>1, <1>2 DEF Roles, Candidates, Leaders
  <1>5. new.term = X /\ new.voter = i /\ new.candidate = i
    BY DEF Ballot
  <1>6. NewBallots
    BY <1>1, <1>5 DEF NewBallots
  <1>7. LogsTyped /\ LogsTyped' /\ Forward
    BY <1>1, <1>3, LogsAreTyped, LogsAreTypedNext, ForwardSame, SameCommitted DEF TypeInv, MemoryOK
  <1> HIDE DEF new
  <1>8. NewCandidates
    <2> SUFFICES ASSUME ~(LastTerm(FullLog(i)) <= X) PROVE Opposed(i)'
      BY <1>1 DEF NewCandidates
    <2>1. LastTerm(FullLog(i)) \in Nat /\ LastTerm(FullLog(i)) > X
      <3>1. LastTerm(FullLog(i)) \in Nat
        BY <1>7 DEF LastTerm, LogsTyped, IsLog
      <3> QED BY <1>1, <3>1
    <2>2. PICK Q \in SUBSET Server :
             IsMajority(Q) /\ \A q \in Q : currentTerm[q] >= LastTerm(FullLog(i))
      BY <1>1, <1>7, <2>1, LateCandidate
    <2>3. ASSUME NEW q \in Q
          PROVE  currentTerm'[q] > currentTerm'[i] /\ Ballot(X, q, i) \notin ballots'
      <3>1. q # i /\ currentTerm[q] \in Nat /\ currentTerm'[q] = currentTerm[q]
        BY <1>1, <1>3, <2>1, <2>2
      <3>2. Ballot(X, q, i).voter = q /\ Ballot(X, q, i).term = X /\ Ballot(X, q, i).candidate = i
        BY DEF Ballot
      <3>3. Ballot(X, q, i) \notin ballots
        <4>1. ASSUME NEW b \in ballots PROVE b.term <= currentTerm[b.candidate]
          BY DEF LogInv, BallotInv, BallotOK
        <4> QED BY <1>1, <3>2, <4>1
      <3> QED BY <1>1, <1>5, <2>1, <2>2, <3>1, <3>2, <3>3
    <2>4. IsMajority(Q)'
      BY <2>2 DEF IsMajority
    <2>5. \A q \in Q : Ballot(currentTerm[i], q, i)' = Ballot(X, q, i)
      BY <1>1 DEF Ballot
    <2> QED BY <2>3, <2>4, <2>5 DEF Opposed
  <1>9. ASSUME NEW b, b = new PROVE BallotOK(b)'
    <2>1. Covers(i, i, X)
      BY DEF Covers, LogInv, AckInv, AckOK
    <2>2. NewAcks /\ AckInv
      BY <1>1 DEF NewAcks, LogInv
    <2>3. ASSUME NEW x \in Nat, x = X PROVE Covers(i, i, x)'
      BY <1>1, <1>2, <1>7, <2>1, <2>2, <2>3, CoversFrame
    <2>4. b.term = X /\ b.voter = i /\ b.candidate = i
      BY <1>5, <1>9
    <2> QED BY <1>1, <2>3, <2>4 DEF BallotOK
  <1>10. ASSUME NEW m \in BagToSet(net'), m \notin BagToSet(net) PROVE MessageInv(m)'
    <2>1. PICK j \in Others(i) :
            m = [kind |-> "RequestVote", caller |-> i, callee |-> j, inc |-> restarts[i],
                 Term |-> currentTerm[i] + 1, LastLogIndex |-> lastLogIndex(i),
                 LastLogTerm |-> logTerm(i, lastLogIndex(i))]
      BY <1>10, NetCall DEF startElection, TypeInv, NetOK
    <2>2. /\ m.kind = "RequestVote" /\ m.caller = i /\ m.Term = X
          /\ m.LastLogIndex = lastLogIndex(i) /\ m.LastLogTerm = logTerm(i, lastLogIndex(i))
      BY <2>1
    <2>3. m.LastLogIndex = Len(FullLog(i)) /\ m.LastLogTerm = LastTerm(FullLog(i))
      BY <2>2, LastTermView, NodeViews DEF NodeView, LogInv
    <2>4. VoteRequestInv(m)'
      BY <1>1, <1>2, <2>2, <2>3 DEF VoteRequestInv, LastTerm
    <2> QED BY <2>2, <2>4 DEF MessageInv, AppendRequestInv, AppendReplyInv, SnapshotRequestInv,
                              SnapshotReplyInv
  <1>11. \A b \in ballots' : b \in ballots \/ BallotOK(b)'
    BY <1>1, <1>9
  <1> QED BY <1>1, <1>2, <1>3, <1>4, <1>6, <1>8, <1>10, <1>11, QuietLogStep DEF leaderVars

\* Stepping down keeps every log.
LEMMA DemoteSame ==
    ASSUME TypeInv, LogInv, NEW i \in Server, NEW term \in Nat, term > currentTerm[i],
           demote(i, term)
    PROVE  /\ DiskInv' /\ Roles /\ NewCandidates
           /\ \A j \in Server : currentTerm[j] <= currentTerm'[j] /\ FullLog(j)' = FullLog(j)
           /\ lastIncludedIndex' = lastIncludedIndex
           /\ state'[i] = "follower"
  <1>1. /\ UNCHANGED <<log, lastIncludedIndex, lastIncludedTerm>> /\ persist(i)
        /\ \A j \in Server : j # i => currentTerm'[j] = currentTerm[j] /\ state'[j] = state[j]
        /\ currentTerm'[i] = term /\ state'[i] = "follower"
    BY DEF demote, TypeInv, MemoryOK, VolatileOK
  <1>2. DiskInv' /\ \A j \in Server : FullLog(j)' = FullLog(j)
    BY <1>1, PersistSame DEF LogInv
  <1>3. \A j \in Server : currentTerm[j] <= currentTerm'[j]
    <2>1. \A j \in Server : currentTerm[j] \in Nat
      BY DEF TypeInv, MemoryOK
    <2> QED BY <1>1, <2>1
  <1>4. Roles /\ NewCandidates
    BY <1>1, <1>2 DEF Roles, Candidates, Leaders, NewCandidates
  <1> QED BY <1>1, <1>2, <1>3, <1>4

\* A step that changes nothing a log depends on.
LEMMA IdleSame ==
    ASSUME TypeInv, LogInv, UNCHANGED <<durableVars, persister, state>>
    PROVE  /\ DiskInv' /\ Roles /\ NewCandidates
           /\ \A j \in Server : currentTerm[j] <= currentTerm'[j] /\ FullLog(j)' = FullLog(j)
           /\ lastIncludedIndex' = lastIncludedIndex
  <1>1. DiskInv' /\ \A j \in Server : FullLog(j)' = FullLog(j)
    BY DiskSame DEF LogInv
  <1>2. \A j \in Server : currentTerm[j] <= currentTerm'[j]
    BY DEF durableVars, TypeInv, MemoryOK
  <1> QED BY <1>1, <1>2 DEF durableVars, Roles, Candidates, Leaders, NewCandidates

-----------------------------------------------------------------------------
(* A new leader *)

\* The log a candidate with a majority has is, whole, a part of an earlier leader's log:
\* its voters saw to what its snapshot covers.
LEMMA WinnerLog ==
    ASSUME TypeInv, VoteInv, LogInv, LogsTyped, NEW i \in Server, state[i] = "candidate",
           NEW X \in Nat, X = currentTerm[i], NEW Q \in SUBSET Server, IsMajority(Q),
           \A q \in Q : Ballot(X, q, i) \in ballots
    PROVE  /\ \A q \in Q : Covers(i, q, X) /\ currentTerm[q] >= X
           /\ Len(FullLog(i)) > 0 =>
                 \E w \in Led : w <= X /\ Agree(FullLog(i), LogOf(w), Len(FullLog(i)))
  <1>1. ASSUME NEW q \in Q PROVE Covers(i, q, X) /\ currentTerm[q] >= X
    <2> DEFINE b == Ballot(X, q, i)
    <2>1. b \in ballots /\ b.term = X /\ b.voter = q /\ b.candidate = i
      BY DEF Ballot
    <2> HIDE DEF b
    <2>2. BallotOK(b) /\ Running(i, X) /\ BallotsKept
      BY <2>1 DEF LogInv, BallotInv, Running, VoteInv
    <2> QED BY <2>1, <2>2, BallotTerm DEF BallotOK
  <1> DEFINE F == FullLog(i)
             L == Len(F)
             s == lastIncludedIndex[i]
             v == LastTerm(F)
  <1>2. /\ NodeView(i) /\ s \in Nat /\ L \in Nat /\ s <= L /\ v \in Nat
        /\ L > 0 => v = F[L].Term
    BY NodeViews DEF TypeInv, MemoryOK, NodeView, LogsTyped, IsLog, LastTerm
  <1>3. v <= X
    <2> SUFFICES ASSUME v > X PROVE FALSE
      BY <1>2
    <2>1. Opposed(i)
      BY DEF LogInv, LateCandidateInv
    <2>2. PICK R \in SUBSET Server :
            IsMajority(R) /\ \A q \in R : Ballot(X, q, i) \notin ballots
      BY <2>1 DEF Opposed
    <2>3. PICK q \in R : q \in Q
      BY <2>2, MajoritiesMeet
    <2> QED BY <2>2, <2>3
  <1> HIDE DEF F, L, s, v
  <1>4. ASSUME s > 0
        PROVE  \E t \in Led : /\ t <= X /\ t <= v /\ Agree(F, LogOf(t), s)
                              /\ \A u \in Led : u >= t => Agree(F, LogOf(u), s)
    <2>1. PICK t \in Led : \E n \in s .. Len(LogOf(t)) :
              /\ t <= Reach(i) /\ Chosen(t, n) /\ Agree(F, LogOf(t), s)
      BY <1>4, SnapshotChosen DEF F, s
    <2>2. PICK n \in s .. Len(LogOf(t)) :
              /\ t <= Reach(i) /\ Chosen(t, n) /\ Agree(F, LogOf(t), s)
      BY <2>1
    <2>3. /\ t \in Nat /\ n \in Nat /\ s <= n /\ n >= 1 /\ n <= Len(LogOf(t))
          /\ Len(LogOf(t)) \in Nat
      BY <1>2, <1>4, <2>2 DEF LogsTyped, IsLog
    <2>4. t < X
      BY <2>2, <2>3 DEF Reach
    <2>5. PICK P \in SUBSET Server : IsMajority(P) /\ \A q \in P : HasAcked(t, q, n)
      BY <2>2 DEF Chosen
    <2>6. PICK q \in P : q \in Q
      BY <2>5, MajoritiesMeet
    <2>7. PICK a \in acked : a.term = t /\ a.node = q /\ a.index >= n
      BY <2>5, <2>6 DEF HasAcked
    <2>8. n \in 1 .. a.index /\ Own(t, n)
      BY <2>2, <2>3, <2>7 DEF Chosen, LogsTyped
    <2>9. Holds(F, t, n) \/ Lacking(t, n)
      BY <1>1, <2>4, <2>6, <2>7, <2>8 DEF Covers, F
    <2>10. ~Lacking(t, n)
      BY <2>2, CarriedLater DEF Lacking, LogInv
    <2>11. v >= t
      BY <2>9, <2>10 DEF Holds, v
    <2>12. ASSUME NEW u \in Led, u >= t PROVE Agree(F, LogOf(u), s)
      <3>1. Agree(LogOf(u), LogOf(t), n)
        BY <2>2, <2>12, Carried DEF LogInv
      <3>2. Len(LogOf(u)) \in Nat /\ s <= Len(LogOf(u))
        BY <1>2, <2>3, <3>1 DEF Agree, LogsTyped, IsLog
      <3>3. \A l \in 1 .. s : l \in 1 .. n
        BY <1>2, <2>3
      <3> QED BY <2>2, <3>1, <3>2, <3>3 DEF Agree
    <2> QED BY <2>2, <2>3, <2>4, <2>11, <2>12
  <1>5. ASSUME L > 0 PROVE \E w \in Led : w <= X /\ Agree(F, LogOf(w), L)
    <2>1. CASE L = s
      BY <1>4, <1>5, <2>1
    <2>2. CASE L > s
      <3>1. L \in (s + 1) .. L
        BY <1>2, <2>2
      <3>2. v \in Led /\ L <= Len(LogOf(v)) /\ \A l \in (s + 1) .. L : F[l] = LogOf(v)[l]
        BY <1>2, <1>5, <3>1 DEF LogInv, NodeLogInv, NodeLogOK, F, L, s
      <3>3. \A l \in 1 .. s : F[l] = LogOf(v)[l]
        <4>1. CASE s = 0
          BY <4>1
        <4>2. CASE s > 0
          <5>1. Agree(F, LogOf(v), s)
            BY <1>2, <1>4, <3>2, <4>2
          <5> QED BY <5>1 DEF Agree
        <4> QED BY <1>2, <4>1, <4>2
      <3>4. \A l \in 1 .. L : F[l] = LogOf(v)[l]
        BY <1>2, <3>2, <3>3
      <3>5. Agree(F, LogOf(v), L)
        BY <1>2, <3>2, <3>4 DEF Agree, L
      <3> QED BY <1>3, <3>2, <3>5
    <2> QED BY <1>2, <2>1, <2>2
  <1> QED BY <1>1, <1>5 DEF F, L

\* What becomeLeader adds to the history.
LEMMA NewLeaderLog ==
    ASSUME TypeInv, LogsTyped, LogInv, NEW X \in Nat, X \notin Led, NEW F,
           leaderLogs' = Append(leaderLogs, [term |-> X, log |-> F])
    PROVE  /\ Led' = Led \cup {X}
           /\ \A t \in Led : Turn(t)' = Turn(t) /\ LogOf(t)' = LogOf(t) /\ Turn(t)' < Turn(X)'
           /\ LogOf(X)' = F
           /\ (\A d, e \in DOMAIN leaderLogs : leaderLogs[d].term = leaderLogs[e].term => d = e)'
  <1> DEFINE D == Len(leaderLogs)
             new == [term |-> X, log |-> F]
             R == [term : Nat, log : Seq(Entry)]
  <1>1. leaderLogs \in Seq(R) /\ D \in Nat /\ DOMAIN leaderLogs = 1 .. D
    BY LenProperties DEF TypeInv, HistoryOK
  <1>2. /\ DOMAIN leaderLogs' = 1 .. D + 1
        /\ \A d \in 1 .. D : leaderLogs'[d] = leaderLogs[d]
        /\ leaderLogs'[D + 1] = new
    <2>1. leaderLogs' = [d \in 1 .. D + 1 |-> IF d \in 1 .. D THEN leaderLogs[d] ELSE new]
      BY <1>1
    <2> QED BY <1>1, <2>1
  <1>3. new.term = X /\ new.log = F
    OBVIOUS
  <1> HIDE DEF new, R
  <1>4. Led = {leaderLogs[d].term : d \in 1 .. D}
    BY <1>1 DEF Led
  <1>5. Led' = {leaderLogs'[d].term : d \in 1 .. D + 1}
    BY <1>2 DEF Led
  <1>6. \A d \in 1 .. D : leaderLogs[d].term \in Led
    BY <1>4
  <1>7. \A d, e \in 1 .. D : leaderLogs[d].term = leaderLogs[e].term => d = e
    BY <1>1 DEF LogInv, LeadersInv
  <1>8. \A d \in 1 .. D + 1 : d \in 1 .. D \/ d = D + 1
    BY <1>1
  <1> HIDE DEF D
  <1>9. Led' = Led \cup {X}
    <2>1. Led' \subseteq Led \cup {X}
      BY ZenonT(60), <1>2, <1>3, <1>5, <1>6, <1>8
    <2>2. X \in Led'
      BY <1>1, <1>2, <1>3, <1>5
    <2>3. Led \subseteq Led'
      BY <1>1, <1>2, <1>4, <1>5
    <2> QED BY <2>1, <2>2, <2>3
  <1>10. \A d, e \in 1 .. D + 1 : leaderLogs'[d].term = leaderLogs'[e].term => d = e
    <2> SUFFICES ASSUME NEW d \in 1 .. D + 1, NEW f \in 1 .. D + 1,
                        leaderLogs'[d].term = leaderLogs'[f].term
                 PROVE  d = f
      OBVIOUS
    <2>1. \A g \in 1 .. D : leaderLogs'[g].term = leaderLogs[g].term /\ leaderLogs[g].term # X
      BY <1>2, <1>6
    <2>2. leaderLogs'[D + 1].term = X
      BY <1>2, <1>3
    <2>3. CASE d = D + 1 \/ f = D + 1
      BY <1>8, <2>1, <2>2, <2>3
    <2>4. CASE d \in 1 .. D /\ f \in 1 .. D
      BY <1>7, <2>1, <2>4
    <2> QED BY <1>8, <2>3, <2>4
  <1>11. ASSUME NEW t \in Led PROVE Turn(t)' = Turn(t) /\ Turn(t) \in 1 .. D
    <2>1. Turn(t) \in 1 .. D /\ leaderLogs[Turn(t)].term = t
      BY <1>1, LedTurn DEF TypeInv
    <2>2. Turn(t) \in 1 .. D + 1 /\ leaderLogs'[Turn(t)].term = t
      BY <1>1, <1>2, <2>1
    <2>3. Turn(t)' \in 1 .. D + 1 /\ leaderLogs'[Turn(t)'].term = t
      <3>1. Turn(t)' = CHOOSE d \in 1 .. D + 1 : leaderLogs'[d].term = t
        BY <1>2 DEF Turn
      <3> QED BY <2>2, <3>1
    <2> QED BY <1>10, <2>1, <2>2, <2>3
  <1>12. Turn(X)' = D + 1
    <2>1. Turn(X)' = CHOOSE d \in 1 .. D + 1 : leaderLogs'[d].term = X
      BY <1>2 DEF Turn
    <2>2. D + 1 \in 1 .. D + 1 /\ leaderLogs'[D + 1].term = X
      BY <1>1, <1>2, <1>3
    <2>3. Turn(X)' \in 1 .. D + 1 /\ leaderLogs'[Turn(X)'].term = X
      BY <2>1, <2>2
    <2> QED BY <1>10, <2>2, <2>3
  <1>13. \A t \in Led : Turn(t)' < Turn(X)'
    BY <1>1, <1>11, <1>12
  <1>14. \A t \in Led : LogOf(t)' = LogOf(t)
    BY <1>2, <1>11 DEF LogOf
  <1>15. LogOf(X)' = F
    BY <1>2, <1>3, <1>12 DEF LogOf
  <1> QED BY <1>2, <1>9, <1>10, <1>11, <1>13, <1>14, <1>15

LEMMA LogBecomeLeader ==
    ASSUME TypeInv, TypeInv', VoteInv, VoteInv', LogInv, NEW i \in Server,
           state[i] = "candidate", becomeLeader(i),
           UNCHANGED <<durableVars, persister, commitIndex, captures, ballots, committed, acked>>,
           BagToSet(net') \subseteq BagToSet(net)
    PROVE  LogInv'
  <1>0. currentTerm[i] \in Nat /\ LogsTyped /\ LogsTyped' /\ currentTerm' = currentTerm
    BY LogsAreTyped, LogsAreTypedNext DEF TypeInv, MemoryOK, durableVars
  <1> SUFFICES ASSUME NEW X \in Nat, X = currentTerm[i], NEW F, F = FullLog(i)
               PROVE  LogInv'
    BY <1>0
  <1> DEFINE e == [term |-> X, leader |-> i]
  <1>1. /\ \A j \in Server : j # i => state'[j] = state[j] /\ nextIndex'[j] = nextIndex[j]
                                      /\ matchIndex'[j] = matchIndex[j]
        /\ state'[i] = "leader"
        /\ \A j \in Server : nextIndex'[i][j] = Len(F) + 1 /\ matchIndex'[i][j] = 0
        /\ elected' = elected \cup {e}
        /\ leaderLogs' = Append(leaderLogs, [term |-> X, log |-> F])
    BY NodeViews DEF becomeLeader, TypeInv, VolatileOK, noMatch, NodeView
  <1>2. DiskInv' /\ \A j \in Server : FullLog(j)' = FullLog(j)
    BY DiskSame DEF LogInv
  <1>3. e.term = X /\ e.leader = i
    OBVIOUS
  <1> HIDE DEF e
  <1>4. X \notin Led
    <2> SUFFICES ASSUME X \in Led PROVE FALSE
      OBVIOUS
    <2>1. PICK f \in elected : f.term = X
      BY DEF LogInv, LeadersInv
    <2>2. ElectionSafety'
      BY VoteInvImpliesElectionSafety, PTL
    <2>3. f.leader = i
      BY <1>1, <1>3, <2>1, <2>2 DEF ElectionSafety
    <2> QED BY <2>1, <2>3 DEF LogInv, LeadersInv
  <1>5. /\ Led' = Led \cup {X}
        /\ \A t \in Led : Turn(t)' = Turn(t) /\ LogOf(t)' = LogOf(t) /\ Turn(t)' < Turn(X)'
        /\ LogOf(X)' = F
        /\ (\A d, f \in DOMAIN leaderLogs : leaderLogs[d].term = leaderLogs[f].term => d = f)'
    BY <1>0, <1>1, <1>4, NewLeaderLog
  <1>6. PICK Q \in SUBSET Server : IsMajority(Q) /\ \A q \in Q : Ballot(X, q, i) \in ballots
    <2>1. \E Q \in SUBSET Server : IsMajority(Q)' /\ \A q \in Q : Ballot(e.term, q, e.leader) \in ballots
      BY <1>1 DEF VoteInv, ElectedByMajority, Ballot
    <2> QED BY <1>3, <2>1 DEF IsMajority
  <1>7. /\ \A q \in Q : Covers(i, q, X) /\ currentTerm[q] >= X
        /\ Len(F) > 0 => \E w \in Led : w <= X /\ Agree(F, LogOf(w), Len(F))
    BY <1>0, <1>6, WinnerLog
  <1>8. Forward
    <2>1. \A t \in Led : Extends(t)
      BY <1>0, <1>5 DEF Extends, LogsTyped, IsLog
    <2>2. Agree(committed', committed, Len(committed))
      BY <1>0, SameCommitted
    <2>3. \A j \in Server : currentTerm[j] <= currentTerm'[j]
                            /\ lastIncludedIndex[j] <= lastIncludedIndex'[j]
      BY DEF TypeInv, MemoryOK, durableVars
    <2> QED BY <1>5, <2>1, <2>2, <2>3 DEF Forward
  <1>9. Candidates /\ NewCandidates
    BY <1>0, <1>1, <1>2 DEF Candidates, NewCandidates
  <1>10. NewAcks /\ NewBallots
    BY DEF NewAcks, NewBallots
  <1>11. ASSUME NEW t \in Led, NEW k \in 1 .. Len(LogOf(t))
        PROVE  /\ LogOf(t)[k].Term <= t
               /\ LogOf(t)[k].Term \in Led
               /\ Agree(LogOf(t), LogOf(LogOf(t)[k].Term), k)
               /\ \A l \in 1 .. k : LogOf(t)[l].Term <= LogOf(t)[k].Term
    BY DEF LogInv, LeaderLogInv, Matched
  <1>12. ASSUME NEW k \in 1 .. Len(F)
        PROVE  /\ F[k].Term <= X
               /\ F[k].Term \in Led
               /\ Agree(F, LogOf(F[k].Term), k)
               /\ \A l \in 1 .. k : F[l].Term <= F[k].Term
    <2>1. Len(F) \in Nat /\ Len(F) > 0
      BY <1>0, <1>12 DEF LogsTyped, IsLog
    <2>2. PICK w \in Led : w <= X /\ Agree(F, LogOf(w), Len(F))
      BY <1>7, <2>1
    <2>3. /\ k \in 1 .. Len(LogOf(w)) /\ F[k] = LogOf(w)[k] /\ \A l \in 1 .. k : F[l] = LogOf(w)[l]
          /\ k <= Len(F)
      BY SMTT(60), <1>0, <2>1, <2>2 DEF Agree, LogsTyped, IsLog
    <2>4. w \in Nat /\ F[k].Term \in Nat
      BY <1>0 DEF LogsTyped, IsLog
    <2>5. F[k].Term <= w /\ F[k].Term \in Led /\ Agree(LogOf(w), LogOf(F[k].Term), k)
          /\ \A l \in 1 .. k : LogOf(w)[l].Term <= LogOf(w)[k].Term
      BY <1>11, <2>3
    <2> QED BY SMTT(60), <2>2, <2>3, <2>4, <2>5 DEF Agree
  <1>13. LeadersInv'
    <2>1. Led' = {f.term : f \in elected'}
      BY <1>1, <1>3, <1>5 DEF LogInv, LeadersInv
    <2>2. ASSUME NEW f \in elected'
          PROVE  /\ f.term >= 1 /\ f.term <= currentTerm'[f.leader]
                 /\ f.term = currentTerm'[f.leader] => state'[f.leader] # "candidate"
      <3>1. CASE f \in elected
        <4>1. f.leader \in Server
          BY <3>1 DEF TypeInv, HistoryOK
        <4> QED BY <1>0, <1>1, <3>1, <4>1 DEF LogInv, LeadersInv
      <3>2. CASE f = e
        <4>1. X >= 1
          BY DEF LogInv, LeadersInv
        <4> QED BY <1>0, <1>1, <1>3, <3>2, <4>1
      <3> QED BY <1>1, <3>1, <3>2
    <2>3. ASSUME NEW j \in Server, state'[j] = "leader"
          PROVE  /\ [term |-> currentTerm'[j], leader |-> j] \in elected'
                 /\ LogOf(currentTerm[j])' = FullLog(j)'
      <3>1. CASE j = i
        <4>1. LogOf(currentTerm[i])' = LogOf(X)'
          BY <1>0 DEF LogOf, Turn
        <4> QED BY <1>0, <1>1, <1>2, <1>5, <3>1, <4>1 DEF e
      <3>2. CASE j # i
        <4>1. state[j] = "leader"
          BY <1>1, <2>3, <3>2
        <4>2. currentTerm[j] \in Led /\ LogOf(currentTerm[j]) = FullLog(j)
              /\ [term |-> currentTerm[j], leader |-> j] \in elected
          BY <4>1, LeaderHasLog DEF LogInv, LeadersInv
        <4>3. ASSUME NEW t, t = currentTerm[j]
              PROVE  LogOf(currentTerm[j])' = LogOf(t)' /\ LogOf(t)' = LogOf(currentTerm[j])
          BY SMTT(60), <1>0, <1>5, <4>2, <4>3 DEF LogOf, Turn
        <4> QED BY <1>0, <1>1, <1>2, <4>2, <4>3
      <3> QED BY <3>1, <3>2
    <2>4. ASSUME NEW j \in Server, state'[j] = "candidate" PROVE currentTerm'[j] >= 1
      BY <1>0, <1>1, <2>4 DEF LogInv, LeadersInv
    <2>5. ASSUME NEW f \in elected', NEW t, t = f.term, NEW n \in 1 .. Len(LogOf(t)'), Own(t, n)'
          PROVE  HasAcked(t, f.leader, n)'
      <3>1. CASE f \in elected
        <4>1. t \in Led
          BY <2>5, <3>1 DEF LogInv, LeadersInv
        <4>2. n \in 1 .. Len(LogOf(t)) /\ Own(t, n)
          BY <1>5, <2>5, <4>1 DEF Own
        <4> QED BY <2>5, <3>1, <4>2 DEF LogInv, LeadersInv, HasAcked
      <3>2. CASE f = e
        <4>1. n \in 1 .. Len(F) /\ F[n].Term = X
          BY <1>3, <1>5, <2>5, <3>2 DEF Own
        <4> QED BY <1>4, <1>12, <4>1
      <3> QED BY <1>1, <3>1, <3>2
    <2>6. (\A f \in elected : \A n \in 1 .. Len(LogOf(f.term)) :
             Own(f.term, n) => HasAcked(f.term, f.leader, n))'
      BY <2>5
    <2> QED BY <1>5, <2>1, <2>2, <2>3, <2>4, <2>6 DEF LeadersInv
  <1>14. LeaderLogInv'
    <2> SUFFICES ASSUME NEW t \in Led', NEW a, a = LogOf(t)', NEW k \in 1 .. Len(a),
                        NEW u, u = a[k].Term
                 PROVE  /\ u <= t /\ u \in Led' /\ Agree(a, LogOf(u)', k)
                        /\ \A l \in 1 .. k : a[l].Term <= u
      BY DEF LeaderLogInv, Matched, Agree
    <2>3. CASE t \in Led
      BY <1>5, <1>11, <2>3
    <2>4. CASE t = X
      BY <1>5, <1>12, <2>4
    <2> QED BY <1>5, <2>3, <2>4
  <1>15. \A u \in Led' : u \in Led \/ ElectedOK(u)'
    <2>1. ASSUME NEW q \in Q PROVE Inherits(X, q)'
      <3> SUFFICES ASSUME NEW a \in acked, a.node = q, a.term < X, NEW n \in 1 .. a.index,
                          Own(a.term, n)'
                   PROVE  \/ Agree(LogOf(X)', LogOf(a.term)', n)
                          \/ \E w \in Led' : /\ w > a.term /\ Turn(w)' < Turn(X)'
                                             /\ ~Agree(LogOf(w)', LogOf(a.term)', n)
        BY DEF Inherits, Agree
      <3>1. a.term \in Led /\ Own(a.term, n)
        BY <1>0, <1>8, OwnBefore DEF LogInv, AckInv
      <3>2. Holds(F, a.term, n) \/ Lacking(a.term, n)
        BY <1>7, <3>1 DEF Covers
      <3> QED BY <1>5, <3>1, <3>2 DEF Holds, Lacking
    <2>2. IsMajority(Q)'
      BY <1>6 DEF IsMajority
    <2>3. ElectedOK(X)'
      BY <1>0, <1>7, <2>1, <2>2 DEF ElectedOK
    <2> QED BY <1>5, <2>3
  <1>16. CommitInv'
    <2>1. ASSUME NEW j \in Server PROVE CommitOK(j)'
      <3>1. CommitOK(j) /\ commitIndex[j] \in Nat
        BY DEF LogInv, CommitInv, TypeInv, VolatileOK
      <3>2. lastIncludedIndex'[j] <= commitIndex'[j] /\ commitIndex'[j] <= commitIndex[j]
        BY <3>1 DEF CommitOK, durableVars
      <3> QED BY <1>0, <1>2, <1>8, <1>9, <3>1, <3>2, CommitFrame
    <2>2. ASSUME NEW c \in captures PROVE CaptureOK(c)'
      <3>1. c.src \in Server /\ CaptureOK(c)
        BY DEF TypeInv, VolatileOK, Capture, LogInv, CommitInv
      <3>2. commitIndex[c.src] <= commitIndex'[c.src]
        BY <3>1 DEF TypeInv, VolatileOK
      <3> QED BY <1>0, <1>8, <3>1, <3>2, CaptureFrame
    <2>3. (Len(committed) > 0 => \E t \in Led : ChosenBy(t, Len(committed)))'
      BY <1>0, <1>8, CommittedFrame DEF LogInv
    <2> QED BY <2>1, <2>2, <2>3 DEF CommitInv
  <1>17. ProgressInv'
    <2> SUFFICES ASSUME NEW j \in Server, NEW k \in Server, state'[j] = "leader"
                 PROVE  ProgressOK(j, k)'
      BY DEF ProgressInv
    <2>1. CASE j = i
      <3>1. Len(F) \in Nat /\ FullLog(i)' = F
        BY <1>0, <1>2 DEF LogsTyped, IsLog
      <3> QED BY <1>1, <2>1, <3>1 DEF ProgressOK
    <2>2. CASE j # i
      <3>1. state[j] = "leader" /\ ProgressOK(j, k)
        BY <1>1, <2>2 DEF LogInv, ProgressInv
      <3> QED BY <1>0, <1>1, <1>2, <1>8, <2>2, <3>1, ProgressFrame DEF LogInv
    <2> QED BY <2>1, <2>2
  <1>18. \A a \in acked' : a \in acked /\ a.node \in Server
    BY <1>0 DEF LogsTyped
  <1> QED BY <1>2, <1>8, <1>9, <1>10, <1>13, <1>14, <1>15, <1>16, <1>17, <1>18, GeneralStep

LEMMA LogHandleRequestVoteReply ==
    ASSUME TypeInv, TypeInv', VoteInv, VoteInv', LogInv, NEW m \in BagToSet(net),
           HandleRequestVoteReply(m)
    PROVE  LogInv'
  <1> DEFINE i == m.caller
  <1>1. i \in Server /\ m.Term \in Nat /\ currentTerm[i] \in Nat
    BY MessageFields DEF TypeInv, NetOK, MemoryOK
  <1>2. /\ UNCHANGED <<commitIndex, captures, ballots, committed, acked>>
        /\ BagToSet(net') \subseteq BagToSet(net)
    BY NetDiscard DEF HandleRequestVoteReply, TypeInv, NetOK
  <1>3. NewBallots
    BY <1>2 DEF NewBallots
  <1>4. CASE UNCHANGED <<durableVars, persister, state, leaderVars, elected, leaderLogs>>
    BY <1>2, <1>3, <1>4, IdleSame, QuietLogStep DEF leaderVars
  <1>5. CASE m.Term > currentTerm[i] /\ demote(i, m.Term) /\ UNCHANGED <<leaderVars, elected, leaderLogs>>
    BY <1>1, <1>2, <1>3, <1>5, DemoteSame, QuietLogStep DEF leaderVars
  <1>6. CASE state[i] = "candidate" /\ becomeLeader(i) /\ UNCHANGED <<durableVars, persister>>
    BY <1>1, <1>2, <1>6, LogBecomeLeader
  <1> QED BY <1>4, <1>5, <1>6 DEF HandleRequestVoteReply

-----------------------------------------------------------------------------
(* Replies: what a leader believes of its peers, and what it commits *)

LEMMA MaxOfPair ==
    ASSUME NEW a \in Nat, NEW b \in Nat
    PROVE  Max({a, b}) = IF a >= b THEN a ELSE b
  <1> DEFINE c == IF a >= b THEN a ELSE b
  <1>1. c \in {a, b} /\ \A y \in {a, b} : c >= y
    OBVIOUS
  <1>2. \A x \in {a, b} : (\A y \in {a, b} : x >= y) => x = c
    OBVIOUS
  <1> HIDE DEF c
  <1>3. Max({a, b}) = c
    BY <1>1, <1>2 DEF Max
  <1> QED BY <1>3 DEF c

\* Only the leader's beliefs, the commit index and what was committed may change.
LEMMA LeaderStep ==
    ASSUME TypeInv, TypeInv', VoteInv, LogInv,
           UNCHANGED <<durableVars, persister, state, captures, ballots, elected, leaderLogs, acked>>,
           BagToSet(net') \subseteq BagToSet(net),
           Agree(committed', committed, Len(committed)), CommitInv',
           NEW i \in Server, NEW p \in Server, ProgressOK(i, p)',
           \A j, k \in Server : (j # i \/ k # p) =>
               nextIndex'[j][k] = nextIndex[j][k] /\ matchIndex'[j][k] = matchIndex[j][k]
    PROVE  LogInv'
  <1>1. /\ DiskInv' /\ Roles /\ NewCandidates
        /\ \A j \in Server : currentTerm[j] <= currentTerm'[j] /\ FullLog(j)' = FullLog(j)
        /\ lastIncludedIndex' = lastIncludedIndex
    BY IdleSame
  <1>2. LogsTyped /\ LogsTyped' /\ Forward
    BY SMTT(60), <1>1, LogsAreTyped, LogsAreTypedNext, ForwardSame DEF TypeInv, MemoryOK
  <1>3. NewAcks /\ NewBallots
    BY DEF NewAcks, NewBallots
  <1>4. ProgressInv'
    <2> SUFFICES ASSUME NEW j \in Server, NEW k \in Server, state'[j] = "leader",
                        j # i \/ k # p
                 PROVE  ProgressOK(j, k)'
      BY DEF ProgressInv
    <2>1. state[j] = "leader" /\ ProgressOK(j, k) /\ LeadersInv
      BY DEF LogInv, ProgressInv
    <2>2. currentTerm'[j] = currentTerm[j]
      BY DEF durableVars
    <2> QED BY <1>1, <1>2, <2>1, <2>2, ProgressFrame
  <1>5. \A a \in acked' : a \in acked /\ a.node \in Server
    BY <1>2 DEF LogsTyped
  <1> QED BY <1>1, <1>2, <1>3, <1>4, <1>5, OrdinaryStep

LEMMA CommitSame ==
    ASSUME TypeInv, TypeInv', LogInv, UNCHANGED <<durableVars, persister, state, captures,
           leaderLogs, acked, commitIndex, committed>>
    PROVE  CommitInv' /\ Agree(committed', committed, Len(committed))
  <1>1. /\ Roles /\ lastIncludedIndex' = lastIncludedIndex
        /\ \A j \in Server : currentTerm[j] <= currentTerm'[j] /\ FullLog(j)' = FullLog(j)
    BY IdleSame
  <1>2. LogsTyped /\ LogsTyped'
    BY LogsAreTyped, LogsAreTypedNext
  <1>3. Agree(committed', committed, Len(committed))
    BY <1>2, SameCommitted
  <1>4. Forward
    BY <1>1, <1>2, <1>3, ForwardSame DEF TypeInv, MemoryOK
  <1>5. ASSUME NEW j \in Server PROVE CommitOK(j)'
    <2>1. CommitOK(j) /\ commitIndex[j] \in Nat
      BY DEF LogInv, CommitInv, TypeInv, VolatileOK
    <2>2. lastIncludedIndex'[j] <= commitIndex'[j] /\ commitIndex'[j] <= commitIndex[j]
      BY <1>1, <2>1 DEF CommitOK
    <2> QED BY <1>1, <1>2, <1>4, <2>1, <2>2, CommitFrame DEF Roles
  <1>6. ASSUME NEW c \in captures PROVE CaptureOK(c)'
    <2>1. c.src \in Server /\ CaptureOK(c)
      BY DEF TypeInv, VolatileOK, Capture, LogInv, CommitInv
    <2>2. commitIndex[c.src] <= commitIndex'[c.src]
      BY <2>1 DEF TypeInv, VolatileOK
    <2> QED BY <1>2, <1>4, <2>1, <2>2, CaptureFrame
  <1>7. (Len(committed) > 0 => \E t \in Led : ChosenBy(t, Len(committed)))'
    BY <1>2, <1>4, CommittedFrame DEF LogInv
  <1> QED BY <1>3, <1>5, <1>6, <1>7 DEF CommitInv

\* A confirmation raises matchIndex to what is confirmed.
LEMMA MatchRaised ==
    ASSUME TypeInv, LogInv, LogsTyped, NEW i \in Server, NEW p \in Server, state[i] = "leader",
           NEW n \in Nat, n <= Len(FullLog(i)), n > 0 => Confirmed(currentTerm[i], p, n),
           NEW x, x = Max({matchIndex[i][p], n})
    PROVE  x \in Nat /\ x <= Len(FullLog(i)) /\ (x > 0 => Confirmed(currentTerm[i], p, x))
  <1>1. ProgressOK(i, p) /\ matchIndex[i][p] \in Nat
    BY DEF LogInv, ProgressInv, TypeInv, VolatileOK
  <1>2. x = matchIndex[i][p] \/ x = n
    BY <1>1, MaxOfPair
  <1> QED BY <1>1, <1>2 DEF ProgressOK

\* The new beliefs about a peer that has reached the leader's term.
LEMMA RaisedProgress ==
    ASSUME TypeInv, TypeInv', LogInv, NEW i \in Server, NEW p \in Server, state[i] = "leader",
           UNCHANGED <<durableVars, persister, leaderLogs, acked>>,
           currentTerm[p] >= currentTerm[i],
           nextIndex'[i][p] \in 1 .. (Len(FullLog(i)) + 1),
           matchIndex'[i][p] <= Len(FullLog(i)),
           matchIndex'[i][p] > 0 => Confirmed(currentTerm[i], p, matchIndex'[i][p])
    PROVE  ProgressOK(i, p)'
  <1>1. FullLog(i)' = FullLog(i) /\ currentTerm' = currentTerm /\ lastIncludedIndex' = lastIncludedIndex
    BY DEF FullLog, durableVars
  <1>2. currentTerm[i] \in Nat /\ currentTerm[p] \in Nat
    BY DEF TypeInv, MemoryOK
  <1>3. ASSUME NEW t, NEW n, Confirmed(t, p, n) PROVE Confirmed(t, p, n)'
    <2>1. Led' = Led /\ \A u : LogOf(u)' = LogOf(u)
      BY DEF Led, LogOf, Turn
    <2>2. \A k : Own(t, k)' = Own(t, k) /\ \A q : HasAcked(t, q, k)' = HasAcked(t, q, k)
      BY <2>1 DEF Own, HasAcked
    <2>3. \A k : Chosen(t, k) => Chosen(t, k)'
      BY <2>2 DEF Chosen, IsMajority
    <2> QED BY <1>1, <1>3, <2>2, <2>3 DEF Confirmed, Sure
  <1>4. matchIndex'[i][p] > 0 => Confirmed(currentTerm[i], p, matchIndex[i][p])'
    <2>1. ASSUME NEW t, t = currentTerm[i], NEW n, n = matchIndex'[i][p], n > 0
          PROVE  Confirmed(t, p, n)'
      BY <1>3, <2>1
    <2> QED BY <1>1, <2>1 DEF Confirmed
  <1> QED BY <1>1, <1>2, <1>4 DEF ProgressOK

LEMMA LogHandleInstallSnapshotReply ==
    ASSUME TypeInv, TypeInv', VoteInv, LogInv, NEW m \in BagToSet(net),
           HandleInstallSnapshotReply(m)
    PROVE  LogInv'
  <1> DEFINE i == m.caller
             p == m.callee
             match == Max({matchIndex[i][p], m.lastIncludedIndex})
  <1>1. /\ i \in Server /\ p \in Server /\ m.Term \in Nat /\ currentTerm[i] \in Nat
        /\ m.kind = "InstallSnapshotReply" /\ m \in Message
    BY MessageFields DEF TypeInv, NetOK, MemoryOK, HandleInstallSnapshotReply
  <1>2. m.lastIncludedIndex \in Nat /\ m.term \in Nat /\ SnapshotReplyInv(m)
    BY <1>1, MessageKinds DEF InstallSnapshotReply, LogInv, NetInv, MessageInv
  <1>3. /\ UNCHANGED <<commitIndex, captures, ballots, committed, acked, elected, leaderLogs>>
        /\ BagToSet(net') \subseteq BagToSet(net)
    BY NetDiscard DEF HandleInstallSnapshotReply, TypeInv, NetOK, taskVars, histVars
  <1>4. NewBallots
    BY <1>3 DEF NewBallots
  <1>5. CASE UNCHANGED <<durableVars, persister, state, leaderVars>>
    BY <1>3, <1>4, <1>5, IdleSame, QuietLogStep DEF leaderVars
  <1>6. CASE m.Term > currentTerm[i] /\ demote(i, m.Term) /\ UNCHANGED leaderVars
    BY <1>1, <1>3, <1>4, <1>6, DemoteSame, QuietLogStep DEF leaderVars
  <1>7. CASE /\ state[i] = "leader" /\ currentTerm[i] = m.term /\ m.Term <= currentTerm[i]
             /\ matchIndex' = [matchIndex EXCEPT ![i][p] = match]
             /\ nextIndex' = [nextIndex EXCEPT ![i][p] = match + 1]
             /\ UNCHANGED <<durableVars, persister, state>>
    <2>1. LogsTyped /\ LogOf(currentTerm[i]) = FullLog(i)
      BY <1>1, <1>7, LogsAreTyped, LeaderHasLog DEF LogInv
    <2>2. /\ m.lastIncludedIndex <= Len(FullLog(i)) /\ Confirmed(currentTerm[i], p, m.lastIncludedIndex)
          /\ currentTerm[p] >= currentTerm[i]
      BY <1>1, <1>2, <1>7, <2>1 DEF SnapshotReplyInv, TypeInv, MemoryOK
    <2>3. match \in Nat /\ match <= Len(FullLog(i)) /\ (match > 0 => Confirmed(currentTerm[i], p, match))
      BY <1>1, <1>2, <1>7, <2>1, <2>2, MatchRaised
    <2> HIDE DEF match, i, p
    <2>4. /\ matchIndex'[i][p] = match /\ nextIndex'[i][p] = match + 1
          /\ \A j, k \in Server : (j # i \/ k # p) =>
                nextIndex'[j][k] = nextIndex[j][k] /\ matchIndex'[j][k] = matchIndex[j][k]
      BY <1>1, <1>7 DEF TypeInv, VolatileOK
    <2>5. match + 1 \in 1 .. (Len(FullLog(i)) + 1)
      BY <1>1, <2>1, <2>3 DEF LogsTyped, IsLog
    <2>6. ProgressOK(i, p)'
      BY <1>1, <1>3, <1>7, <2>2, <2>3, <2>4, <2>5, RaisedProgress
    <2>7. CommitInv' /\ Agree(committed', committed, Len(committed))
      BY <1>3, <1>7, CommitSame
    <2> QED BY <1>1, <1>3, <1>7, <2>4, <2>6, <2>7, LeaderStep
  <1> QED BY <1>5, <1>6, <1>7 DEF HandleInstallSnapshotReply

\* A majority of confirmations makes an entry of the leader's own term chosen.
LEMMA CommittableChosen ==
    ASSUME TypeInv, LogInv, LogsTyped, NEW i \in Server, state[i] = "leader",
           NEW X \in Nat, X = currentTerm[i], currentTerm'[i] = X,
           NEW match \in [Server -> Nat],
           \A j \in Server : match[j] > 0 => Confirmed(X, j, match[j]),
           NEW n \in Committable(i, match)
    PROVE  n \in (commitIndex[i] + 1) .. Len(FullLog(i)) /\ n \in Nat /\ n >= 1 /\ Chosen(X, n)
  <1>1. /\ NodeView(i) /\ lastIncludedIndex[i] \in Nat /\ commitIndex[i] \in Nat
        /\ lastLogIndex(i) = Len(FullLog(i)) /\ Len(FullLog(i)) \in Nat
        /\ lastIncludedIndex[i] <= commitIndex[i]
    BY NodeViews DEF TypeInv, MemoryOK, VolatileOK, NodeView, LogsTyped, IsLog, LogInv, CommitInv,
                     CommitOK
  <1> DEFINE Q == {i} \cup {j \in Others(i) : match[j] >= n}
  <1>2. /\ n \in (commitIndex[i] + 1) .. lastLogIndex(i) /\ logTerm(i, n) = X
        /\ IsMajority(Q)
    BY DEF Committable
  <1>3. n \in Nat /\ n >= 1 /\ n \in lastIncludedIndex[i] .. lastLogIndex(i)
    BY <1>1, <1>2
  <1>4. FullLog(i)[n].Term = X
    BY <1>2, <1>3, LogTermView DEF LogInv
  <1>5. X \in Led /\ LogOf(X) = FullLog(i)
    BY LeaderHasLog DEF LogInv
  <1>6. Own(X, n)
    BY <1>1, <1>2, <1>3, <1>4, <1>5 DEF Own
  <1> HIDE DEF Q
  <1>7. HasAcked(X, i, n)
    <2> DEFINE e == [term |-> X, leader |-> i]
    <2>1. e \in elected /\ e.term = X /\ e.leader = i
      BY DEF LogInv, LeadersInv
    <2> HIDE DEF e
    <2>2. n \in 1 .. Len(LogOf(X))
      BY <1>6 DEF Own
    <2> QED BY <1>6, <2>1, <2>2 DEF LogInv, LeadersInv
  <1>8. CASE \E j \in Server : match[j] >= n /\ Sure(X, match[j])
    <2>1. PICK j \in Server : match[j] >= n /\ Sure(X, match[j])
      BY <1>8
    <2>2. n \in 1 .. match[j]
      BY <1>3, <2>1
    <2>3. Chosen(X, n)
      BY <1>6, <2>1, <2>2 DEF Sure
    <2> QED BY <1>1, <1>2, <1>3, <2>3
  <1>9. CASE \A j \in Server : match[j] >= n => ~Sure(X, match[j])
    <2>1. ASSUME NEW q \in Q PROVE HasAcked(X, q, n)
      <3>1. CASE q = i
        BY <1>7, <3>1
      <3>2. CASE q \in Server /\ match[q] >= n
        <4>1. Confirmed(X, q, match[q]) /\ match[q] \in Nat
          BY <1>3, <3>2
        <4>2. PICK a \in acked : a.term = X /\ a.node = q /\ a.index >= match[q]
          BY <1>9, <3>2, <4>1 DEF Confirmed, HasAcked
        <4>3. a.index >= n
          BY <1>3, <3>2, <4>1, <4>2 DEF LogsTyped
        <4> QED BY <4>2, <4>3 DEF HasAcked
      <3> QED BY <3>1, <3>2 DEF Q, Others
    <2>2. Q \in SUBSET Server
      BY DEF Q, Others
    <2>3. Chosen(X, n)
      BY <1>2, <1>6, <2>1, <2>2 DEF Chosen
    <2> QED BY <1>1, <1>2, <1>3, <2>3
  <1> QED BY <1>8, <1>9

\* What is chosen does not contradict what was committed.
LEMMA ChosenAgrees ==
    ASSUME LogInv, LogsTyped, NEW X \in Led, NEW n \in Nat, Chosen(X, n), NEW l \in Nat, l <= n,
           l <= Len(committed)
    PROVE  Agree(LogOf(X), committed, l)
  <1>1. X \in Nat /\ n \in 1 .. Len(LogOf(X)) /\ Len(LogOf(X)) \in Nat /\ Len(committed) \in Nat
    BY DEF Chosen, Own, LogsTyped, IsLog
  <1>2. CASE l = 0
    BY <1>1, <1>2 DEF Agree
  <1>3. CASE l > 0
    <2>1. PICK t \in Led : ChosenBy(t, Len(committed))
      BY <1>1, <1>3 DEF LogInv, CommitInv
    <2>2. PICK k \in Len(committed) .. Len(LogOf(t)) : Chosen(t, k)
      BY <2>1 DEF ChosenBy
    <2>3. Agree(committed, LogOf(t), Len(committed)) /\ t \in Nat /\ Len(LogOf(t)) \in Nat
          /\ k \in Nat /\ Len(committed) <= k
      BY <1>1, <2>1, <2>2 DEF ChosenBy, LogsTyped, IsLog
    <2>4. CASE t <= X
      <3>1. Agree(LogOf(X), LogOf(t), k)
        BY <1>1, <2>2, <2>3, <2>4, Carried DEF LogInv
      <3> QED BY <1>1, <2>3, <3>1 DEF Agree
    <2>5. CASE t > X
      <3>1. Agree(LogOf(t), LogOf(X), n)
        BY <1>1, <2>5, CarriedLater DEF LogInv
      <3> QED BY <1>1, <2>3, <3>1 DEF Agree
    <2> QED BY <1>1, <2>3, <2>4, <2>5
  <1> QED BY <1>2, <1>3

LEMMA LogAdvance ==
    ASSUME TypeInv, TypeInv', LogInv, NEW i \in Server, state[i] = "leader",
           NEW match \in [Server -> Nat],
           \A j \in Server : match[j] > 0 => Confirmed(currentTerm[i], j, match[j]),
           UNCHANGED <<durableVars, persister, state, captures, leaderLogs, acked>>,
           maybeAdvanceCommitIndex(i, match)
    PROVE  CommitInv' /\ Agree(committed', committed, Len(committed))
  <1>1. CASE Committable(i, match) = {}
    BY <1>1, CommitSame DEF maybeAdvanceCommitIndex
  <1>2. CASE Committable(i, match) # {}
    <2> DEFINE M == Max(Committable(i, match))
    <2>1. M \in Committable(i, match)
      <3>1. /\ Committable(i, match) \subseteq 0 .. lastLogIndex(i) /\ lastLogIndex(i) \in Nat
        BY LastLogIndexType DEF Committable, TypeInv, VolatileOK
      <3> QED BY <1>2, <3>1, MaxInSet
    <2>2. LogsTyped /\ LogsTyped' /\ currentTerm[i] \in Nat /\ currentTerm'[i] = currentTerm[i]
      BY LogsAreTyped, LogsAreTypedNext DEF durableVars, TypeInv, MemoryOK
    <2> SUFFICES ASSUME NEW X \in Nat, X = currentTerm[i], NEW n, n = M
                 PROVE  CommitInv' /\ Agree(committed', committed, Len(committed))
      BY <2>2
    <2>3. /\ n \in (commitIndex[i] + 1) .. Len(FullLog(i)) /\ n \in Nat /\ n >= 1
          /\ Chosen(X, n) /\ commitIndex[i] \in Nat
      BY <2>1, <2>2, CommittableChosen DEF TypeInv, VolatileOK
    <2>4. /\ commitIndex' = [commitIndex EXCEPT ![i] = n]
          /\ committed' = IF n > Len(committed) THEN SubSeq(FullLog(i), 1, n) ELSE committed
      BY <1>2 DEF maybeAdvanceCommitIndex
    <2> HIDE DEF M
    <2>5. X \in Led /\ LogOf(X) = FullLog(i) /\ Len(FullLog(i)) \in Nat /\ Len(committed) \in Nat
      BY <2>2, LeaderHasLog DEF LogInv, LogsTyped, IsLog
    <2>6. n > Len(committed) =>
             Len(committed') = n /\ \A k \in 1 .. n : committed'[k] = FullLog(i)[k]
      <3>1. FullLog(i) \in Seq(Entry)
        BY FullLogType DEF TypeInv
      <3>2. Len(SubSeq(FullLog(i), 1, n)) = n
            /\ \A k \in 1 .. n : SubSeq(FullLog(i), 1, n)[k] = FullLog(i)[k]
        BY <2>3, <2>5, <3>1
      <3> QED BY <2>4, <3>2
    <2>7. /\ Agree(committed', committed, Len(committed))
          /\ Agree(FullLog(i), committed', n)
      <3>1. CASE n > Len(committed)
        <4>1. Agree(LogOf(X), committed, Len(committed))
          BY <2>2, <2>3, <2>5, <3>1, ChosenAgrees
        <4> QED BY SMTT(60), <2>3, <2>5, <2>6, <3>1, <4>1 DEF Agree
      <3>2. CASE n <= Len(committed)
        <4>1. Agree(LogOf(X), committed, n)
          BY <2>2, <2>3, <2>5, <3>2, ChosenAgrees
        <4>2. committed' = committed
          BY <2>3, <2>4, <2>5, <3>2
        <4> QED BY <2>2, <2>5, <4>1, <4>2, SameCommitted
      <3> QED BY <2>3, <2>5, <3>1, <3>2
    <2>8. /\ Roles /\ lastIncludedIndex' = lastIncludedIndex
          /\ \A j \in Server : currentTerm[j] <= currentTerm'[j] /\ FullLog(j)' = FullLog(j)
      BY IdleSame
    <2>9. Forward
      BY <2>2, <2>7, <2>8, ForwardSame DEF TypeInv, MemoryOK
    <2>10. LogOf(X)' = FullLog(i) /\ X \in Led'
      BY <2>5 DEF LogOf, Turn, Led
    <2>11. ChosenBy(X, n)'
      <3>1. Agree(committed', LogOf(X)', n)
        BY <2>7, <2>10 DEF Agree
      <3>2. Chosen(X, n)'
        BY <2>2, <2>3, <2>5, <2>9, ChosenForward
      <3>3. n \in n .. Len(LogOf(X)')
        BY <2>3, <2>5, <2>10
      <3> QED BY <3>1, <3>2, <3>3 DEF ChosenBy
    <2>12. n <= Len(committed')
      BY <2>7 DEF Agree
    <2>13. ASSUME NEW j \in Server PROVE CommitOK(j)'
      <3>1. CommitOK(j) /\ commitIndex[j] \in Nat /\ lastIncludedIndex[j] \in Nat
        BY DEF LogInv, CommitInv, TypeInv, VolatileOK, MemoryOK
      <3>2. CASE j = i
        <4>1. commitIndex'[i] = n
          BY <2>4 DEF TypeInv, VolatileOK
        <4>2. lastIncludedIndex'[i] <= n
          BY <2>3, <2>8, <3>1, <3>2 DEF CommitOK
        <4>3. Reach(i)' = X
          BY <2>2 DEF Reach
        <4>4. ASSUME NEW x, x = X PROVE Decided(x, n)'
          BY <2>2, <2>10, <2>11, <2>12, <4>4 DEF Decided
        <4>5. Decided(Reach(i), commitIndex[i])'
          BY <4>1, <4>3, <4>4 DEF Decided
        <4> QED BY <2>7, <2>8, <3>2, <4>1, <4>2, <4>5 DEF CommitOK
      <3>3. CASE j # i
        <4>1. lastIncludedIndex'[j] <= commitIndex'[j] /\ commitIndex'[j] <= commitIndex[j]
          BY <2>4, <2>8, <3>1, <3>3 DEF CommitOK, TypeInv, VolatileOK
        <4> QED BY <2>2, <2>8, <2>9, <3>1, <4>1, CommitFrame DEF Roles
      <3> QED BY <3>2, <3>3
    <2>14. ASSUME NEW c \in captures PROVE CaptureOK(c)'
      <3>1. c.src \in Server /\ CaptureOK(c) /\ commitIndex[c.src] \in Nat
        BY DEF TypeInv, VolatileOK, Capture, LogInv, CommitInv
      <3>2. /\ c.src = i => commitIndex'[c.src] = n
            /\ c.src # i => commitIndex'[c.src] = commitIndex[c.src]
        BY <2>4, <3>1 DEF TypeInv, VolatileOK
      <3>3. commitIndex[c.src] <= commitIndex'[c.src]
        BY <2>3, <3>1, <3>2
      <3> QED BY <2>2, <2>9, <3>1, <3>3, CaptureFrame
    <2>15. (Len(committed) > 0 => \E t \in Led : ChosenBy(t, Len(committed)))'
      <3>1. CASE n > Len(committed)
        <4>1. Len(committed') = n
          BY <2>6, <3>1
        <4>2. ChosenBy(X, Len(committed))'
          BY <2>11, <4>1 DEF ChosenBy, Agree
        <4> QED BY <2>10, <4>2
      <3>2. CASE committed' = committed
        BY <2>2, <2>9, <3>2, CommittedFrame DEF LogInv
      <3> QED BY <2>4, <3>1, <3>2
    <2> QED BY <2>7, <2>13, <2>14, <2>15 DEF CommitInv
  <1> QED BY <1>1, <1>2

\* A rejection makes the leader retry inside its own log.
LEMMA BackUpInRange ==
    ASSUME TypeInv, LogsTyped, NEW i \in Server, NEW m \in AppendEntriesReply,
           m.ConflictIndex <= Len(FullLog(i)) + 1
    PROVE  backUpTo(i, m) \in 1 .. (Len(FullLog(i)) + 1)
  <1> DEFINE same == {j \in (lastIncludedIndex[i] + 1) .. lastLogIndex(i) :
                        logTerm(i, j) = m.ConflictTerm}
             ni   == IF m.ConflictTerm = -1 \/ same = {} THEN m.ConflictIndex ELSE Max(same) + 1
             L == Len(FullLog(i))
  <1>1. L \in Nat /\ lastLogIndex(i) = L /\ m.ConflictIndex \in Nat /\ lastIncludedIndex[i] \in Nat
    BY NodeViews DEF LogsTyped, IsLog, NodeView, AppendEntriesReply, TypeInv, MemoryOK
  <1>2. same \subseteq 0 .. L
    BY <1>1
  <1>3. same # {} => Max(same) \in 0 .. L
    <2> HIDE DEF same, L
    <2> QED BY <1>1, <1>2, MaxInSet
  <1> HIDE DEF L, same
  <1>4. ni \in Nat /\ ni <= L + 1
    BY <1>1, <1>3 DEF L
  <1>5. backUpTo(i, m) = Max({ni, 1})
    BY DEF backUpTo, same
  <1> HIDE DEF ni
  <1>6. Max({ni, 1}) = IF ni >= 1 THEN ni ELSE 1
    BY <1>4, MaxOfPair
  <1> QED BY <1>1, <1>4, <1>5, <1>6 DEF L

LEMMA LogHandleAppendEntriesReply ==
    ASSUME TypeInv, TypeInv', VoteInv, LogInv, NEW m \in BagToSet(net),
           HandleAppendEntriesReply(m)
    PROVE  LogInv'
  <1> DEFINE i == m.caller
             p == m.callee
             x == Max({matchIndex[i][p], m.newMatch})
             match == [matchIndex[i] EXCEPT ![p] = x]
  <1>1. /\ i \in Server /\ p \in Server /\ m.Term \in Nat /\ currentTerm[i] \in Nat
        /\ m.kind = "AppendEntriesReply" /\ m \in Message
    BY MessageFields DEF TypeInv, NetOK, MemoryOK, HandleAppendEntriesReply
  <1>2. m \in AppendEntriesReply /\ m.newMatch \in Nat /\ m.term \in Nat /\ AppendReplyInv(m)
    BY <1>1, MessageKinds DEF AppendEntriesReply, LogInv, NetInv, MessageInv
  <1>3. /\ UNCHANGED <<captures, ballots, acked, elected, leaderLogs>>
        /\ BagToSet(net') \subseteq BagToSet(net)
    BY NetDiscard DEF HandleAppendEntriesReply, TypeInv, NetOK, taskVars
  <1>4. NewBallots
    BY <1>3 DEF NewBallots
  <1>5. CASE UNCHANGED <<durableVars, persister, state, leaderVars, commitIndex, committed>>
    BY <1>3, <1>4, <1>5, IdleSame, QuietLogStep DEF leaderVars
  <1>6. CASE state[i] = "leader" /\ currentTerm[i] = m.term
    <2>1. LogsTyped /\ LogOf(currentTerm[i]) = FullLog(i) /\ Len(FullLog(i)) \in Nat
      BY <1>1, <1>6, LogsAreTyped, LeaderHasLog DEF LogInv, LogsTyped, IsLog
    <2>2. currentTerm[p] >= currentTerm[i]
      BY <1>1, <1>2, <1>6 DEF AppendReplyInv, TypeInv, MemoryOK
    <2>3. /\ m.ConflictIndex <= Len(FullLog(i)) + 1
          /\ m.Success => /\ m.Term = currentTerm[i]
                          /\ m.newMatch <= Len(FullLog(i))
                          /\ m.newMatch > 0 => Confirmed(currentTerm[i], p, m.newMatch)
      BY <1>1, <1>2, <1>6, <2>1 DEF AppendReplyInv
    <2>4. CASE m.Success
      <3>1. ~(m.Term > currentTerm[i])
        BY <1>1, <2>3, <2>4
      <3>2. /\ UNCHANGED <<durableVars, persister, state>>
            /\ matchIndex' = [matchIndex EXCEPT ![i] = match]
            /\ nextIndex' = [nextIndex EXCEPT ![i][p] = match[p] + 1]
            /\ maybeAdvanceCommitIndex(i, match)
        BY <1>6, <2>4, <3>1 DEF HandleAppendEntriesReply
      <3>3. x \in Nat /\ x <= Len(FullLog(i)) /\ (x > 0 => Confirmed(currentTerm[i], p, x))
        BY <1>1, <1>2, <1>6, <2>1, <2>3, <2>4, MatchRaised
      <3> HIDE DEF x, i, p
      <3>4. matchIndex[i] \in [Server -> Nat]
        BY <1>1 DEF TypeInv, VolatileOK
      <3>5. match \in [Server -> Nat] /\ match[p] = x
            /\ \A j \in Server : j # p => match[j] = matchIndex[i][j]
        BY <1>1, <3>3, <3>4
      <3>6. \A j \in Server : match[j] > 0 => Confirmed(currentTerm[i], j, match[j])
        <4> SUFFICES ASSUME NEW j \in Server, match[j] > 0, j # p
                     PROVE  Confirmed(currentTerm[i], j, match[j])
          BY <3>3, <3>5
        <4>1. ProgressOK(i, j)
          BY <1>1, <1>6 DEF LogInv, ProgressInv
        <4> QED BY <3>5, <4>1 DEF ProgressOK
      <3> HIDE DEF match
      <3>7. CommitInv' /\ Agree(committed', committed, Len(committed))
        BY <1>1, <1>3, <1>6, <3>2, <3>5, <3>6, LogAdvance
      <3>8. matchIndex'[i] = match /\ nextIndex'[i][p] = x + 1
        BY <1>1, <3>2, <3>5 DEF TypeInv, VolatileOK
      <3>9. \A j, k \in Server : (j # i \/ k # p) =>
                nextIndex'[j][k] = nextIndex[j][k] /\ matchIndex'[j][k] = matchIndex[j][k]
        BY <1>1, <3>2, <3>5, <3>8 DEF TypeInv, VolatileOK
      <3>10. x + 1 \in 1 .. (Len(FullLog(i)) + 1)
        BY <2>1, <3>3
      <3>11. ProgressOK(i, p)'
        BY <1>1, <1>3, <1>6, <2>2, <3>2, <3>3, <3>5, <3>8, <3>10, RaisedProgress
      <3> QED BY <1>1, <1>3, <3>2, <3>7, <3>9, <3>11, LeaderStep
    <2>5. CASE ~m.Success
      <3> HIDE DEF i, p
      <3>1. /\ nextIndex' = [nextIndex EXCEPT ![i][p] = backUpTo(i, m)]
            /\ UNCHANGED <<matchIndex, commitIndex, committed>>
        BY <1>6, <2>5 DEF HandleAppendEntriesReply, i, p
      <3>2. CASE m.Term > currentTerm[i] /\ demote(i, m.Term)
        <4>1. /\ DiskInv' /\ Roles /\ NewCandidates
              /\ \A j \in Server : currentTerm[j] <= currentTerm'[j] /\ FullLog(j)' = FullLog(j)
              /\ lastIncludedIndex' = lastIncludedIndex
              /\ state'[i] = "follower"
          BY <1>1, <3>2, DemoteSame
        <4>2. \A j, k \in Server : state'[j] = "leader" =>
                 nextIndex'[j][k] = nextIndex[j][k] /\ matchIndex'[j][k] = matchIndex[j][k]
          BY <1>1, <3>1, <4>1 DEF TypeInv, VolatileOK
        <4> QED BY <1>3, <1>4, <3>1, <4>1, <4>2, QuietLogStep
      <3>3. CASE UNCHANGED <<durableVars, persister, state>>
        <4>1. backUpTo(i, m) \in 1 .. (Len(FullLog(i)) + 1)
          BY <1>1, <1>2, <2>1, <2>3, BackUpInRange
        <4>2. /\ nextIndex'[i][p] = backUpTo(i, m)
              /\ \A j, k \in Server : (j # i \/ k # p) =>
                   nextIndex'[j][k] = nextIndex[j][k] /\ matchIndex'[j][k] = matchIndex[j][k]
          BY <1>1, <3>1 DEF TypeInv, VolatileOK
        <4>3. ProgressOK(i, p)
          BY <1>1, <1>6 DEF LogInv, ProgressInv
        <4>4. ProgressOK(i, p)'
          BY <1>1, <1>3, <1>6, <2>2, <3>1, <3>3, <4>1, <4>2, <4>3, RaisedProgress DEF ProgressOK
        <4>5. CommitInv' /\ Agree(committed', committed, Len(committed))
          BY <1>3, <3>1, <3>3, CommitSame
        <4> QED BY <1>1, <1>3, <3>3, <4>2, <4>4, <4>5, LeaderStep
      <3> QED BY <1>6, <3>2, <3>3 DEF HandleAppendEntriesReply, i
    <2> QED BY <2>4, <2>5
  <1> QED BY <1>5, <1>6 DEF HandleAppendEntriesReply

-----------------------------------------------------------------------------
(* Steps that change the log of a node *)

LEMMA CommitMoved ==
    ASSUME LogsTyped, LogsTyped', Forward, TypeInv, TypeInv', NEW i \in Server,
           NEW x \in Int, x <= Reach(i)', Decided(x, commitIndex'[i]),
           Agree(FullLog(i)', committed, commitIndex'[i]),
           lastIncludedIndex'[i] <= commitIndex'[i]
    PROVE  CommitOK(i)'
  <1>1. commitIndex'[i] \in Nat /\ Reach(i)' \in Int
    BY DEF TypeInv, VolatileOK, MemoryOK, Reach
  <1>2. Agree(FullLog(i)', committed', commitIndex'[i])
    BY <1>1 DEF Forward, Agree, LogsTyped, IsLog
  <1>3. ASSUME NEW y \in Int, y = Reach(i)', NEW s \in Nat, s = commitIndex'[i]
        PROVE  Decided(y, s)'
    BY <1>3, DecidedForward
  <1>4. Decided(Reach(i), commitIndex[i])'
    BY <1>1, <1>3
  <1> QED BY <1>2, <1>4 DEF CommitOK

\* The captures and what was committed, across a step that commits nothing.
LEMMA CommitInvKept ==
    ASSUME LogsTyped, LogsTyped', Forward, TypeInv, TypeInv', LogInv,
           \A j \in Server : CommitOK(j)', captures' \subseteq captures, committed' = committed,
           \A c \in captures' : commitIndex[c.src] <= commitIndex'[c.src]
    PROVE  CommitInv'
  <1>1. ASSUME NEW c \in captures' PROVE CaptureOK(c)'
    <2>1. c \in captures /\ CaptureOK(c)
      BY DEF LogInv, CommitInv
    <2> QED BY <2>1, CaptureFrame
  <1>2. (Len(committed) > 0 => \E t \in Led : ChosenBy(t, Len(committed)))'
    BY CommittedFrame DEF LogInv
  <1> QED BY <1>1, <1>2 DEF CommitInv

\* An entry behind the log of the leader.
LEMMA StartLog ==
    ASSUME TypeInv, TypeInv', LogInv, LogsTyped, NEW i \in Server, NEW command,
           Start(i, command), NEW X, X = currentTerm[i]
    PROVE  /\ Len(FullLog(i)') = Len(FullLog(i)) + 1
           /\ \A k \in 1 .. Len(FullLog(i)) : FullLog(i)'[k] = FullLog(i)[k]
           /\ FullLog(i)'[Len(FullLog(i)) + 1].Term = X
           /\ Led' = Led
           /\ \A t \in Led : Turn(t)' = Turn(t)
           /\ \A t \in Led : t # X => LogOf(t)' = LogOf(t)
           /\ LogOf(X)' = FullLog(i)'
           /\ (\A d, f \in DOMAIN leaderLogs : leaderLogs[d].term = leaderLogs[f].term => d = f)'
           /\ DiskInv'
           /\ \A j \in Server : j # i => FullLog(j)' = FullLog(j)
  <1> DEFINE E == [Term |-> X, Command |-> command]
             L == Len(FullLog(i))
  <1>1. /\ log'[i] = Append(log[i], E) /\ \A j \in Server : j # i => log'[j] = log[j]
        /\ UNCHANGED <<currentTerm, lastIncludedIndex, lastIncludedTerm>> /\ persist(i)
        /\ state[i] = "leader"
        /\ leaderLogs' = [d \in DOMAIN leaderLogs |->
                            IF leaderLogs[d].term = X
                            THEN [term |-> X, log |-> FullLog(i)'] ELSE leaderLogs[d]]
    BY DEF Start, TypeInv, MemoryOK
  <1>2. /\ persister'[i] = DiskState(i, persister[i].snapshot)
        /\ \A j \in Server : j # i => persister'[j] = persister[j]
    BY <1>1 DEF persist, persistWithSnapshot, TypeInv, DiskOK
  <1>3. /\ persister'[i].snapshot = persister[i].snapshot
        /\ persister'[i].log = log'[i]
        /\ persister'[i].currentTerm = currentTerm'[i]
        /\ persister'[i].lastIncludedTerm = lastIncludedTerm'[i]
    BY <1>2 DEF DiskState
  <1>4. log[i] \in Seq(Entry) /\ Len(log[i]) \in Nat /\ log'[i] \in Seq(Entry)
    BY DEF TypeInv, MemoryOK
  <1>5. /\ Len(log'[i]) = Len(log[i]) + 1 /\ \A k \in 1 .. Len(log[i]) : log'[i][k] = log[i][k]
        /\ log'[i][Len(log[i]) + 1] = E
    <2> HIDE DEF E
    <2>1. log'[i] = [k \in 1 .. Len(log[i]) + 1 |-> IF k \in 1 .. Len(log[i]) THEN log[i][k] ELSE E]
      BY <1>1, <1>4
    <2>2. Len(log'[i]) = Len(log[i]) + 1
      BY <1>1, <1>4
    <2> QED BY <1>4, <2>1, <2>2
  <1>6. NodeView(i) /\ NodeView(i)'
    BY NodeViews, PTL
  <1>7. lastIncludedIndex'[i] = lastIncludedIndex[i] /\ lastIncludedIndex[i] \in Nat
        /\ L = lastIncludedIndex[i] + Len(log[i]) /\ L \in Nat
    BY <1>1, <1>4, <1>6 DEF TypeInv, MemoryOK, NodeView
  <1>8. Len(FullLog(i)') = L + 1
    BY <1>5, <1>6, <1>7 DEF NodeView, lastLogIndex
  <1>9. \A k \in 1 .. L : FullLog(i)'[k] = FullLog(i)[k]
    <2> SUFFICES ASSUME NEW k \in 1 .. L PROVE FullLog(i)'[k] = FullLog(i)[k]
      OBVIOUS
    <2>1. CASE k <= lastIncludedIndex[i]
      BY <1>3, <1>6, <1>7, <2>1 DEF NodeView
    <2>2. CASE k > lastIncludedIndex[i]
      <3> DEFINE l == k - lastIncludedIndex[i]
      <3>1. l \in 1 .. Len(log[i]) /\ l \in 1 .. Len(log'[i]) /\ k = lastIncludedIndex[i] + l
        BY <1>4, <1>5, <1>7, <2>2
      <3> HIDE DEF l
      <3>2. log[i][l] = FullLog(i)[lastIncludedIndex[i] + l]
        BY <1>6, <3>1 DEF NodeView
      <3>3. log'[i][l] = FullLog(i)'[lastIncludedIndex[i] + l]
        BY <1>6, <1>7, <3>1 DEF NodeView
      <3> QED BY <1>5, <3>1, <3>2, <3>3
    <2> QED BY <1>7, <2>1, <2>2
  <1>10. FullLog(i)'[L + 1] = E
    <2> DEFINE l == Len(log[i]) + 1
    <2>1. l \in 1 .. Len(log'[i]) /\ L + 1 = lastIncludedIndex[i] + l
      BY <1>4, <1>5, <1>7
    <2>2. log'[i][l] = E
      BY <1>5
    <2> HIDE DEF l, E, L
    <2>3. log'[i][l] = FullLog(i)'[lastIncludedIndex[i] + l]
      BY <1>6, <1>7, <2>1 DEF NodeView
    <2> QED BY <2>1, <2>2, <2>3
  <1>11. \A j \in Server : j # i => FullLog(j)' = FullLog(j)
    BY <1>1, <1>2 DEF FullLog
  <1>12. DiskInv'
    <2> SUFFICES ASSUME NEW j \in Server
                 PROVE  /\ persister'[j].log = log'[j]
                        /\ persister'[j].currentTerm = currentTerm'[j]
                        /\ persister'[j].lastIncludedTerm = lastIncludedTerm'[j]
                        /\ lastIncludedTerm'[j] = IF lastIncludedIndex'[j] = 0 THEN 0
                                                  ELSE FullLog(j)'[lastIncludedIndex'[j]].Term
      BY DEF DiskInv
    <2>1. CASE j = i
      <3>1. lastIncludedIndex[i] # 0 => lastIncludedIndex[i] \in 1 .. L
        BY <1>4, <1>7
      <3> QED BY <1>1, <1>3, <1>9, <2>1, <3>1 DEF LogInv, DiskInv
    <2>2. CASE j # i
      BY <1>1, <1>2, <1>11, <2>2 DEF LogInv, DiskInv
    <2> QED BY <2>1, <2>2
  <1>13. DOMAIN leaderLogs' = DOMAIN leaderLogs
         /\ \A d \in DOMAIN leaderLogs : leaderLogs'[d].term = leaderLogs[d].term
    BY <1>1
  <1>14. \A d, f \in DOMAIN leaderLogs : leaderLogs[d].term = leaderLogs[f].term => d = f
    BY DEF LogInv, LeadersInv
  <1>15. (\A d, f \in DOMAIN leaderLogs : leaderLogs[d].term = leaderLogs[f].term => d = f)'
    BY <1>13, <1>14
  <1>16. Led' = Led
    BY <1>13 DEF Led
  <1>17. ASSUME NEW t \in Led PROVE Turn(t)' = Turn(t) /\ Turn(t) \in DOMAIN leaderLogs
                                    /\ leaderLogs[Turn(t)].term = t
    <2>1. Turn(t) \in DOMAIN leaderLogs /\ leaderLogs[Turn(t)].term = t
      BY LedTurn DEF TypeInv
    <2>2. Turn(t)' \in DOMAIN leaderLogs /\ leaderLogs'[Turn(t)'].term = t
      <3>1. Turn(t)' = CHOOSE d \in DOMAIN leaderLogs : leaderLogs'[d].term = t
        BY <1>13 DEF Turn
      <3> QED BY <1>13, <2>1, <3>1
    <2> QED BY <1>13, <1>14, <2>1, <2>2
  <1>18. \A t \in Led : t # X => LogOf(t)' = LogOf(t)
    BY <1>1, <1>17 DEF LogOf
  <1>19. LogOf(X)' = FullLog(i)'
    <2>1. X \in Led
      BY <1>1, LeaderHasLog DEF LogInv
    <2>2. leaderLogs'[Turn(X)'] = [term |-> X, log |-> FullLog(i)']
      BY <1>1, <1>17, <2>1
    <2> QED BY <2>2 DEF LogOf
  <1>20. E.Term = X
    OBVIOUS
  <1> QED BY <1>8, <1>9, <1>10, <1>11, <1>12, <1>15, <1>16, <1>17, <1>18, <1>19, <1>20

LEMMA LogStart ==
    ASSUME TypeInv, TypeInv', VoteInv, VoteInv', LogInv, NEW i \in Server, NEW command,
           Start(i, command)
    PROVE  LogInv'
  <1>0. LogsTyped /\ LogsTyped' /\ currentTerm[i] \in Nat /\ Len(FullLog(i)) \in Nat
    BY LogsAreTyped, LogsAreTypedNext DEF TypeInv, MemoryOK, LogsTyped, IsLog
  <1> SUFFICES ASSUME NEW X \in Nat, X = currentTerm[i], NEW F, F = FullLog(i),
                      NEW L \in Nat, L = Len(F), NEW G, G = FullLog(i)'
               PROVE  LogInv'
    BY <1>0
  <1>1. /\ UNCHANGED <<currentTerm, lastIncludedIndex, lastIncludedTerm, commitIndex, leaderVars, state,
                       captures, net, ballots, elected, committed>>
        /\ state[i] = "leader"
        /\ acked' = acked \cup {[term |-> X, node |-> i, index |-> L + 1]}
    BY NodeViews DEF Start, NodeView
  <1>2. /\ Len(G) = L + 1 /\ (\A k \in 1 .. L : G[k] = F[k]) /\ G[L + 1].Term = X
        /\ Led' = Led /\ (\A t \in Led : Turn(t)' = Turn(t))
        /\ (\A t \in Led : t # X => LogOf(t)' = LogOf(t)) /\ LogOf(X)' = G
        /\ (\A d, f \in DOMAIN leaderLogs : leaderLogs[d].term = leaderLogs[f].term => d = f)'
        /\ DiskInv' /\ \A j \in Server : j # i => FullLog(j)' = FullLog(j)
    BY <1>0, StartLog
  <1>3. X \in Led /\ LogOf(X) = F
    BY <1>1, LeaderHasLog DEF LogInv
  <1>4. ASSUME NEW f \in elected, f.term = X PROVE f.leader = i
    <2> DEFINE e == [term |-> X, leader |-> i]
    <2>1. e \in elected /\ e.term = X /\ e.leader = i
      BY <1>1 DEF LogInv, LeadersInv
    <2> HIDE DEF e
    <2> QED BY <1>4, <2>1, VoteInvImpliesElectionSafety DEF ElectionSafety
  <1>5. Forward
    <2>1. ASSUME NEW t \in Led PROVE Extends(t)
      <3>1. CASE t = X
        BY <1>2, <1>3, <3>1 DEF Extends
      <3>2. CASE t # X
        BY <1>0, <1>2, <3>2 DEF Extends, LogsTyped, IsLog
      <3> QED BY <3>1, <3>2
    <2>2. Agree(committed', committed, Len(committed))
      BY <1>0, <1>1, SameCommitted
    <2> QED BY <1>1, <1>2, <2>1, <2>2 DEF Forward, TypeInv, MemoryOK
  <1>6. Candidates /\ NewCandidates
    BY <1>1, <1>2 DEF Candidates, NewCandidates
  <1>7. NewAcks /\ NewBallots
    BY <1>1 DEF NewAcks, NewBallots
  <1>8. \A t \in Led : \A k \in 1 .. L : Agree(F, LogOf(t), k) => Agree(G, LogOf(t)', k)
    <2> SUFFICES ASSUME NEW t \in Led, NEW k \in 1 .. L, Agree(F, LogOf(t), k)
                 PROVE  Agree(G, LogOf(t)', k)
      OBVIOUS
    <2>1. Agree(F, LogOf(t)', k)
      BY <1>0, <1>5, AgreeForward
    <2> QED BY <1>2, <2>1 DEF Agree
  <1>9. LeaderLogInv'
    <2> SUFFICES ASSUME NEW t \in Led, NEW a, a = LogOf(t)', NEW k \in 1 .. Len(a),
                        NEW u, u = a[k].Term
                 PROVE  /\ u <= t /\ u \in Led /\ Agree(a, LogOf(u)', k)
                        /\ \A l \in 1 .. k : a[l].Term <= u
      BY <1>2 DEF LeaderLogInv, Matched, Agree
    <2>1. ASSUME NEW b \in Led, NEW h \in 1 .. Len(LogOf(b))
          PROVE  /\ LogOf(b)[h].Term <= b
                 /\ LogOf(b)[h].Term \in Led
                 /\ Agree(LogOf(b), LogOf(LogOf(b)[h].Term), h)
                 /\ \A l \in 1 .. h : LogOf(b)[l].Term <= LogOf(b)[h].Term
      BY DEF LogInv, LeaderLogInv, Matched
    <2>2. CASE t # X
      <3>1. a = LogOf(t) /\ k \in Nat
        BY <1>0, <1>2, <2>2 DEF LogsTyped, IsLog
      <3>2. u <= t /\ u \in Led /\ Agree(a, LogOf(u), k) /\ \A l \in 1 .. k : a[l].Term <= u
        BY <2>1, <3>1
      <3>3. Agree(a, LogOf(u)', k)
        BY <1>0, <1>5, <3>1, <3>2, AgreeForward
      <3> QED BY <3>2, <3>3
    <2>3. CASE t = X /\ k <= L
      <3>1. a = G /\ k \in 1 .. L /\ a[k] = F[k] /\ (\A l \in 1 .. k : G[l] = F[l])
        BY <1>2, <2>3
      <3>2. u <= X /\ u \in Led /\ Agree(F, LogOf(u), k) /\ \A l \in 1 .. k : F[l].Term <= u
        BY <1>3, <2>1, <3>1
      <3> QED BY <1>8, <2>3, <3>1, <3>2
    <2>4. CASE t = X /\ k = L + 1
      <3>1. a = G /\ u = X /\ Agree(G, G, k)
        BY <1>2, <2>4 DEF Agree
      <3>2. \A l \in 1 .. L : F[l].Term <= X
        BY <1>3, <2>1
      <3>3. \A l \in 1 .. k : G[l].Term <= X
        BY <1>2, <2>4, <3>2
      <3> QED BY <1>2, <1>3, <2>4, <3>1, <3>3
    <2> QED BY <1>2, <2>2, <2>3, <2>4
  <1>10. LeadersInv'
    <2>1. Led' = {f.term : f \in elected'}
      BY <1>1, <1>2 DEF LogInv, LeadersInv
    <2>2. ASSUME NEW j \in Server, state'[j] = "leader"
          PROVE  /\ [term |-> currentTerm'[j], leader |-> j] \in elected'
                 /\ LogOf(currentTerm[j])' = FullLog(j)'
      <3>1. [term |-> currentTerm[j], leader |-> j] \in elected
            /\ currentTerm[j] \in Led /\ LogOf(currentTerm[j]) = FullLog(j)
        BY <1>1, <2>2, LeaderHasLog DEF LogInv, LeadersInv
      <3>2. LogOf(currentTerm[j])' = FullLog(j)'
        <4> SUFFICES ASSUME NEW t, t = currentTerm[j] PROVE LogOf(t)' = FullLog(j)'
          BY <1>1 DEF LogOf, Turn
        <4>1. CASE j = i
          BY <1>2, <4>1
        <4>2. CASE j # i
          <5>1. t # X
            <6> DEFINE e == [term |-> t, leader |-> j]
            <6>1. e \in elected /\ e.term = t /\ e.leader = j
              BY <3>1
            <6> HIDE DEF e
            <6> QED BY <1>4, <4>2, <6>1
          <5> QED BY <1>2, <3>1, <4>2, <5>1
        <4> QED BY <4>1, <4>2
      <3> QED BY <1>1, <3>1, <3>2
    <2>3. ASSUME NEW f \in elected, NEW t, t = f.term, NEW n \in 1 .. Len(LogOf(t)'), Own(t, n)'
          PROVE  HasAcked(t, f.leader, n)'
      <3>1. t \in Led /\ n \in Nat
        BY <1>0, <1>2, <2>3 DEF LogInv, LeadersInv, LogsTyped, IsLog
      <3>2. CASE n <= Len(LogOf(t))
        <4>1. Own(t, n)
          BY <1>0, <1>5, <2>3, <3>1, <3>2, OwnForward
        <4>2. n \in 1 .. Len(LogOf(t))
          BY <4>1 DEF Own
        <4>3. HasAcked(t, f.leader, n)
          BY <2>3, <4>1, <4>2 DEF LogInv, LeadersInv
        <4> QED BY <1>1, <4>3 DEF HasAcked
      <3>3. CASE n > Len(LogOf(t))
        <4>1. t = X
          BY <1>0, <1>2, <2>3, <3>1, <3>3 DEF LogsTyped, IsLog
        <4>2. n = L + 1
          BY <1>2, <1>3, <2>3, <3>1, <3>3, <4>1
        <4>3. f.leader = i
          BY <1>4, <2>3, <4>1
        <4> DEFINE a == [term |-> X, node |-> i, index |-> L + 1]
        <4>4. a \in acked' /\ a.term = X /\ a.node = i /\ a.index = L + 1
          BY <1>1
        <4> HIDE DEF a
        <4> QED BY <3>1, <4>1, <4>2, <4>3, <4>4 DEF HasAcked
      <3> QED BY <1>0, <3>1, <3>2, <3>3 DEF LogsTyped, IsLog
    <2>4. (\A f \in elected : \A n \in 1 .. Len(LogOf(f.term)) :
             Own(f.term, n) => HasAcked(f.term, f.leader, n))'
      BY <1>1, <2>3
    <2> QED BY <1>1, <1>2, <2>1, <2>2, <2>4 DEF LogInv, LeadersInv
  <1>11. ASSUME NEW a \in acked', a.node = i PROVE AckOK(a)' /\ NewestAckOK(a)'
    <2>1. LastTerm(G) = X
      BY <1>2 DEF LastTerm
    <2>2. CASE a \in acked
      <3>1. AckOK(a) /\ a.term \in Led /\ a.term \in Nat /\ a.index \in Nat /\ a.term <= X
            /\ a.index <= Len(LogOf(a.term)) /\ NewestAckOK(a)
        BY <1>0, <1>11, <2>2 DEF LogInv, AckInv, NewestAckInv, AckOK, LogsTyped
      <3>2. a.index <= Len(LogOf(a.term)')
        BY <1>0, <1>5, <3>1, LogForward DEF Extends, IsLog
      <3>3. ASSUME NEW n \in 1 .. a.index, Own(a.term, n)'
            PROVE  Holds(FullLog(a.node), a.term, n)' \/ Lacking(a.term, n)'
        <4>1. n \in Nat /\ Own(a.term, n)
          BY <1>0, <1>5, <2>2, <3>1, <3>3, OwnBefore
        <4>2. CASE Holds(F, a.term, n)
          <5>1. n \in 1 .. L
            BY <4>1, <4>2 DEF Holds, Agree, Own
          <5>2. Agree(G, LogOf(a.term)', n)
            BY <1>8, <3>1, <4>2, <5>1 DEF Holds
          <5> QED BY <1>11, <2>1, <3>1, <5>2 DEF Holds
        <4>3. CASE Lacking(a.term, n)
          BY <1>0, <1>5, <3>1, <4>1, <4>3, LackingForward
        <4> QED BY <1>11, <3>1, <3>3, <4>1, <4>2, <4>3 DEF AckOK
      <3>4. AckOK(a)'
        BY <1>1, <1>2, <1>11, <3>1, <3>2, <3>3 DEF AckOK
      <3>5. CASE \E u \in Led : u > a.term
        BY <1>2, <3>4, <3>5 DEF NewestAckOK
      <3>6. CASE Agree(F, LogOf(a.term), a.index)
        <4>1. Agree(G, LogOf(a.term)', a.index)
          <5>1. a.index <= L
            BY <3>6 DEF Agree
          <5>2. CASE a.index = 0
            BY <1>0, <1>2, <3>1, <3>2, <5>2 DEF Agree
          <5>3. CASE a.index \in 1 .. L
            BY <1>8, <3>1, <3>6, <5>3
          <5> QED BY <3>1, <5>1, <5>2, <5>3
        <4> QED BY <1>11, <3>4, <4>1 DEF NewestAckOK
      <3> QED BY <1>11, <3>1, <3>5, <3>6 DEF NewestAckOK
    <2>3. CASE a = [term |-> X, node |-> i, index |-> L + 1]
      <3>1. a.term = X /\ a.node = i /\ a.index = L + 1
        BY <2>3
      <3>2. \A n \in 1 .. (L + 1) : Agree(G, G, n)
        BY <1>2 DEF Agree
      <3>3. \A n \in 1 .. (L + 1) : Holds(FullLog(i), X, n)'
        BY <1>2, <2>1, <3>2 DEF Holds
      <3>4. AckOK(a)'
        BY <1>1, <1>2, <1>3, <3>1, <3>3 DEF AckOK
      <3>5. NewestAckOK(a)'
        BY <1>2, <3>1, <3>2 DEF NewestAckOK
      <3> QED BY <3>4, <3>5
    <2> QED BY <1>1, <2>2, <2>3
  <1>12. NodeLogOK(i)'
    <2>0. lastIncludedIndex[i] \in Nat
      BY DEF TypeInv, MemoryOK
    <2> SUFFICES ASSUME NEW k \in (lastIncludedIndex[i] + 1) .. Len(G), NEW u, u = G[k].Term
                 PROVE  /\ u \in Led /\ k <= Len(LogOf(u)')
                        /\ \A l \in (lastIncludedIndex[i] + 1) .. k : G[l] = LogOf(u)'[l]
      BY <1>1, <1>2 DEF NodeLogOK
    <2>1. CASE k <= L
      <3>1. k \in (lastIncludedIndex[i] + 1) .. L /\ G[k] = F[k]
            /\ \A l \in (lastIncludedIndex[i] + 1) .. k : l \in 1 .. k /\ G[l] = F[l]
        BY <1>2, <2>0, <2>1
      <3>2. u \in Led /\ k <= Len(LogOf(u)) /\ \A l \in (lastIncludedIndex[i] + 1) .. k : F[l] = LogOf(u)[l]
        BY <3>1 DEF LogInv, NodeLogInv, NodeLogOK
      <3>3. k <= Len(LogOf(u)') /\ \A l \in 1 .. k : LogOf(u)'[l] = LogOf(u)[l]
        BY <1>0, <1>5, <2>0, <3>2, LogForward DEF Extends, IsLog
      <3> QED BY <3>1, <3>2, <3>3
    <2>2. CASE k = L + 1
      BY <1>2, <1>3, <2>2
    <2> QED BY <1>2, <2>0, <2>1, <2>2
  <1>13. CommitInv'
    <2>1. ASSUME NEW j \in Server PROVE CommitOK(j)'
      <3>1. CommitOK(j) /\ commitIndex[j] \in Nat
        BY DEF LogInv, CommitInv, TypeInv, VolatileOK
      <3>2. Agree(FullLog(j)', committed, commitIndex[j])
        <4>1. Agree(FullLog(j), committed, commitIndex[j])
          BY <3>1 DEF CommitOK
        <4>2. CASE j = i
          BY <1>2, <3>1, <4>1, <4>2 DEF Agree
        <4> QED BY <1>2, <4>1, <4>2
      <3>3. Reach(j)' = Reach(j) /\ Reach(j) \in Int
        BY <1>1, ReachType DEF Reach
      <3> QED BY <1>0, <1>1, <1>5, <3>1, <3>2, <3>3, CommitMoved DEF CommitOK
    <2>2. \A c \in captures' : commitIndex[c.src] <= commitIndex'[c.src]
      BY <1>1 DEF TypeInv, VolatileOK, Capture
    <2> QED BY <1>0, <1>1, <1>5, <2>1, <2>2, CommitInvKept
  <1>14. ProgressInv'
    <2> SUFFICES ASSUME NEW j \in Server, NEW k \in Server, state'[j] = "leader"
                 PROVE  ProgressOK(j, k)'
      BY DEF ProgressInv
    <2>1. state[j] = "leader" /\ ProgressOK(j, k) /\ LeadersInv
      BY <1>1 DEF LogInv, ProgressInv
    <2>2. CASE j = i
      <3>1. nextIndex[i][k] \in Nat /\ matchIndex[i][k] \in Nat /\ FullLog(i)' = G
        BY DEF TypeInv, VolatileOK
      <3>2. nextIndex[i][k] \in 1 .. (L + 2) /\ matchIndex[i][k] <= L + 1 /\ matchIndex[i][k] <= L
        BY <2>1, <2>2, <3>1 DEF ProgressOK
      <3>3. matchIndex[i][k] > 0 => Confirmed(currentTerm[i], k, matchIndex[i][k])'
        <4>1. ASSUME NEW n \in Nat, n = matchIndex[i][k], n > 0 PROVE Confirmed(X, k, n)'
          BY <1>0, <1>3, <1>5, <2>1, <2>2, <3>2, <4>1, ConfirmedForward DEF ProgressOK
        <4> QED BY <1>1, <3>1, <4>1 DEF leaderVars, Confirmed
      <3>4. currentTerm[k] < X => \A l \in nextIndex[i][k] .. (L + 1) : G[l].Term = X
        <4>1. currentTerm[k] < X => \A l \in nextIndex[i][k] .. L : F[l].Term = X
          BY <2>1, <2>2 DEF ProgressOK
        <4>2. \A l \in nextIndex[i][k] .. (L + 1) : l = L + 1 \/ (l \in nextIndex[i][k] .. L /\ l \in 1 .. L)
          BY <3>1, <3>2
        <4> QED BY <1>2, <4>1, <4>2
      <3>5. L + 1 + 1 = L + 2
        OBVIOUS
      <3> QED BY <1>1, <1>2, <2>2, <3>1, <3>2, <3>3, <3>4, <3>5 DEF ProgressOK, leaderVars
    <2>3. CASE j # i
      BY <1>0, <1>1, <1>2, <1>5, <2>1, <2>3, ProgressFrame DEF leaderVars
    <2> QED BY <2>2, <2>3
  <1>15. \A a \in acked' : \/ a \in acked /\ FullLog(a.node)' = FullLog(a.node)
                           \/ AckOK(a)' /\ NewestAckOK(a)'
    <2> SUFFICES ASSUME NEW a \in acked', a.node # i
                 PROVE  a \in acked /\ FullLog(a.node)' = FullLog(a.node)
      BY <1>11
    <2>1. a \in acked
      BY <1>1
    <2> QED BY <1>0, <1>2, <2>1 DEF LogsTyped
  <1> QED BY <1>1, <1>2, <1>5, <1>6, <1>7, <1>9, <1>10, <1>12, <1>13, <1>14, <1>15, GeneralStep

-----------------------------------------------------------------------------
(* Restarts and snapshots of the service *)

\* Steps that keep every log and set no commit index forward.
LEMMA SameLogsStep ==
    ASSUME TypeInv, TypeInv', VoteInv, LogInv, Roles, NewCandidates, DiskInv',
           UNCHANGED <<leaderLogs, elected, acked, committed, ballots>>,
           \A j \in Server : /\ currentTerm[j] <= currentTerm'[j] /\ FullLog(j)' = FullLog(j)
                             /\ lastIncludedIndex[j] <= lastIncludedIndex'[j]
                             /\ lastIncludedIndex'[j] <= commitIndex'[j]
                             /\ commitIndex'[j] <= commitIndex[j],
           captures' \subseteq captures,
           \A c \in captures' : commitIndex'[c.src] = commitIndex[c.src],
           \A i, j \in Server : state'[i] = "leader" =>
               nextIndex'[i][j] = nextIndex[i][j] /\ matchIndex'[i][j] = matchIndex[i][j],
           BagToSet(net') \subseteq BagToSet(net)
    PROVE  LogInv'
  <1>1. LogsTyped /\ LogsTyped' /\ Forward
    BY LogsAreTyped, LogsAreTypedNext, ForwardSame, SameCommitted
  <1>2. NewAcks /\ NewBallots
    BY DEF NewAcks, NewBallots
  <1>3. CommitInv'
    <2>1. ASSUME NEW j \in Server PROVE CommitOK(j)'
      BY <1>1, CommitFrame DEF LogInv, CommitInv, Roles
    <2>2. \A c \in captures' : commitIndex[c.src] <= commitIndex'[c.src]
      BY DEF TypeInv, VolatileOK, Capture
    <2> QED BY <1>1, <2>1, <2>2, CommitInvKept
  <1>4. ProgressInv'
    <2> SUFFICES ASSUME NEW i \in Server, NEW j \in Server, state'[i] = "leader"
                 PROVE  ProgressOK(i, j)'
      BY DEF ProgressInv
    <2>1. state[i] = "leader" /\ currentTerm'[i] = currentTerm[i]
      BY DEF Roles, Leaders
    <2>2. ProgressOK(i, j) /\ LeadersInv
      BY <2>1 DEF LogInv, ProgressInv
    <2> QED BY <1>1, <2>1, <2>2, ProgressFrame
  <1>5. \A a \in acked' : a \in acked /\ a.node \in Server
    BY <1>1 DEF LogsTyped
  <1> QED BY <1>1, <1>2, <1>3, <1>4, <1>5, OrdinaryStep

\* The disk a node restarts from differs at most in its term and vote.
LEMMA LogRestartFrom ==
    ASSUME TypeInv, TypeInv', VoteInv, LogInv, NEW i \in Server, NEW disk,
           disk.log = persister[i].log, disk.snapshot = persister[i].snapshot,
           disk.lastIncludedIndex = persister[i].lastIncludedIndex,
           disk.lastIncludedTerm = persister[i].lastIncludedTerm,
           disk.currentTerm \in Nat, disk.currentTerm >= currentTerm[i],
           RestartFrom(i, disk), BagToSet(net') \subseteq BagToSet(net)
    PROVE  LogInv'
  <1>1. /\ \A j \in Server : j # i =>
               /\ persister'[j] = persister[j] /\ currentTerm'[j] = currentTerm[j] /\ log'[j] = log[j]
               /\ lastIncludedIndex'[j] = lastIncludedIndex[j] /\ lastIncludedTerm'[j] = lastIncludedTerm[j]
        /\ persister'[i] = disk /\ currentTerm'[i] = disk.currentTerm /\ log'[i] = disk.log
        /\ lastIncludedIndex'[i] = disk.lastIncludedIndex /\ lastIncludedTerm'[i] = disk.lastIncludedTerm
    BY DEF RestartFrom, TypeInv, MemoryOK, DiskOK
  <1>2. /\ \A j \in Server : j # i => commitIndex'[j] = commitIndex[j] /\ state'[j] = state[j]
                                      /\ nextIndex'[j] = nextIndex[j] /\ matchIndex'[j] = matchIndex[j]
        /\ commitIndex'[i] = disk.lastIncludedIndex /\ state'[i] = "follower"
    BY DEF RestartFrom, TypeInv, VolatileOK
  <1>3. /\ captures' = {c \in captures : c.src # i}
        /\ UNCHANGED <<leaderLogs, elected, acked, committed, ballots>>
    BY DEF RestartFrom, histVars
  <1>4. /\ disk.log = log[i] /\ disk.lastIncludedTerm = lastIncludedTerm[i]
        /\ disk.lastIncludedIndex = lastIncludedIndex[i]
    BY DEF LogInv, DiskInv, TypeInv, DiskOK
  <1>5. \A j \in Server : FullLog(j)' = FullLog(j)
    BY <1>1, <1>4 DEF FullLog
  <1>6. DiskInv'
    BY <1>1, <1>4, <1>5 DEF LogInv, DiskInv
  <1>7. ASSUME NEW j \in Server
        PROVE  /\ currentTerm[j] <= currentTerm'[j] /\ FullLog(j)' = FullLog(j)
               /\ lastIncludedIndex[j] <= lastIncludedIndex'[j]
               /\ lastIncludedIndex'[j] <= commitIndex'[j]
               /\ commitIndex'[j] <= commitIndex[j]
    <2>1. /\ currentTerm[j] \in Nat /\ lastIncludedIndex[j] \in Nat /\ commitIndex[j] \in Nat
          /\ lastIncludedIndex[j] <= commitIndex[j]
      BY DEF TypeInv, MemoryOK, VolatileOK, LogInv, CommitInv, CommitOK
    <2>2. CASE j = i
      BY <1>1, <1>2, <1>4, <1>5, <2>1, <2>2
    <2>3. CASE j # i
      BY <1>1, <1>2, <1>5, <2>1, <2>3
    <2> QED BY <2>2, <2>3
  <1>8. Roles /\ NewCandidates
    BY <1>1, <1>2, <1>5 DEF Roles, Candidates, Leaders, NewCandidates
  <1>9. \A c \in captures' : c \in captures /\ commitIndex'[c.src] = commitIndex[c.src]
    BY <1>2, <1>3 DEF TypeInv, VolatileOK, Capture
  <1>10. \A j, k \in Server : state'[j] = "leader" =>
               nextIndex'[j][k] = nextIndex[j][k] /\ matchIndex'[j][k] = matchIndex[j][k]
    BY <1>2
  <1> QED BY <1>3, <1>6, <1>7, <1>8, <1>9, <1>10, SameLogsStep

LEMMA LogRestart ==
    ASSUME TypeInv, TypeInv', VoteInv, LogInv, NEW i \in Server, Restart(i)
    PROVE  LogInv'
  <1>1. BagToSet(net') \subseteq BagToSet(net)
    <2> DEFINE left == {n \in BagToSet(net) : ~IsReplyTo(n, i)}
    <2>1. net' = [m \in left |-> net[m]] /\ left \subseteq BagToSet(net)
      BY DEF Restart, BagToSet
    <2> HIDE DEF left
    <2> QED BY <2>1, BagRestrict DEF TypeInv, NetOK
  <1>2. persister[i].currentTerm = currentTerm[i] /\ currentTerm[i] \in Nat
    BY DEF LogInv, DiskInv, TypeInv, MemoryOK
  <1> QED BY <1>1, <1>2, LogRestartFrom DEF Restart

LEMMA LogCrashInHandler ==
    ASSUME TypeInv, TypeInv', VoteInv, LogInv, NEW m \in BagToSet(net), CrashInHandler(m)
    PROVE  LogInv'
  <1> DEFINE i == m.callee
             disk == [persister[i] EXCEPT
                        !.currentTerm = m.Term,
                        !.votedFor = IF m.kind = "RequestVote" THEN Nil ELSE votedFor[i]]
             net1 == net (-) SetToBag({m})
             left == {n \in BagToSet(net1) : ~IsReplyTo(n, i)}
  <1>1. i \in Server /\ m.Term \in Nat /\ currentTerm[i] \in Nat
    BY MessageFields DEF TypeInv, NetOK, MemoryOK
  <1>2. persister[i] \in PersistedState
    BY <1>1 DEF TypeInv, DiskOK
  <1>3. /\ disk.log = persister[i].log /\ disk.snapshot = persister[i].snapshot
        /\ disk.lastIncludedIndex = persister[i].lastIncludedIndex
        /\ disk.lastIncludedTerm = persister[i].lastIncludedTerm
        /\ disk.currentTerm = m.Term
    BY <1>2 DEF PersistedState
  <1>4. RestartFrom(i, disk) /\ m.Term >= currentTerm[i]
    BY <1>1 DEF CrashInHandler
  <1>5. BagToSet(net') \subseteq BagToSet(net)
    <2>1. net' = [n \in left |-> net1[n]] /\ left \subseteq BagToSet(net1)
      BY DEF CrashInHandler, BagToSet
    <2>2. IsABag(net1) /\ BagToSet(net1) \subseteq BagToSet(net)
      BY BagRemove DEF TypeInv, NetOK
    <2> HIDE DEF left, net1
    <2> QED BY <2>1, <2>2, BagRestrict
  <1> HIDE DEF disk, i
  <1> QED BY <1>1, <1>3, <1>4, <1>5, LogRestartFrom

LEMMA LogSnapshot ==
    ASSUME TypeInv, TypeInv', VoteInv, LogInv, NEW i \in Server, NEW index \in Nat,
           index <= commitIndex[i], Snapshot(i, index)
    PROVE  LogInv'
  <1> DEFINE S == SubSeq(FullLog(i), 1, index)
  <1>1. /\ index \in (lastIncludedIndex[i] + 1) .. lastLogIndex(i)
        /\ UNCHANGED <<currentTerm, commitIndex, leaderVars, state, captures, net, ballots, elected,
                       committed, leaderLogs, acked>>
        /\ persistWithSnapshot(i, S)
        /\ log'[i] = logAfter(i, index) /\ lastIncludedIndex'[i] = index
        /\ lastIncludedTerm'[i] = logTerm(i, index)
        /\ \A j \in Server : j # i =>
              /\ log'[j] = log[j] /\ lastIncludedIndex'[j] = lastIncludedIndex[j]
              /\ lastIncludedTerm'[j] = lastIncludedTerm[j]
    BY DEF Snapshot, taskVars, histVars, TypeInv, MemoryOK
  <1>2. /\ persister'[i] = DiskState(i, S)
        /\ \A j \in Server : j # i => persister'[j] = persister[j]
    BY <1>1 DEF persistWithSnapshot, TypeInv, DiskOK
  <1>3. /\ persister'[i].snapshot = S /\ persister'[i].log = log'[i]
        /\ persister'[i].currentTerm = currentTerm'[i]
        /\ persister'[i].lastIncludedTerm = lastIncludedTerm'[i]
    BY <1>2 DEF DiskState
  <1>4. NodeView(i) /\ NodeView(i)'
    BY NodeViews, PTL
  <1>5. /\ FullLog(i) \in Seq(Entry) /\ FullLog(i)' \in Seq(Entry)
        /\ Len(FullLog(i)) = lastLogIndex(i) /\ lastLogIndex(i) \in Nat
        /\ lastIncludedIndex[i] \in Nat
    BY FullLogType, FullLogNextType, LastLogIndexType DEF TypeInv, MemoryOK
  <1>6. index \in lastIncludedIndex[i] .. lastLogIndex(i)
    BY <1>1, <1>4, <1>5
  <1>7. /\ Len(logAfter(i, index)) = lastLogIndex(i) - index
        /\ \A l \in 1 .. Len(logAfter(i, index)) : logAfter(i, index)[l] = FullLog(i)[index + l]
    BY <1>6, LogAfterView
  <1>8. Len(FullLog(i)') = Len(FullLog(i))
    BY <1>1, <1>4, <1>5, <1>7 DEF NodeView, lastLogIndex
  <1>9. ASSUME NEW k \in 1 .. Len(FullLog(i)) PROVE FullLog(i)'[k] = FullLog(i)[k]
    <2>1. CASE k <= index
      <3>1. k \in 1 .. index /\ S[k] = FullLog(i)[k]
        BY <1>1, <1>5, <2>1
      <3> QED BY <1>1, <1>3, <1>4, <3>1 DEF NodeView
    <2>2. CASE k > index
      <3> DEFINE l == k - index
      <3>1. l \in 1 .. Len(logAfter(i, index)) /\ k = index + l
        BY <1>1, <1>4, <1>5, <1>7, <2>2
      <3> HIDE DEF l
      <3>2. logAfter(i, index)[l] = FullLog(i)[index + l]
        BY <1>7, <3>1
      <3>3. log'[i][l] = FullLog(i)'[index + l]
        BY <1>1, <1>4, <3>1 DEF NodeView
      <3> QED BY <1>1, <3>1, <3>2, <3>3
    <2> QED BY <1>5, <2>1, <2>2
  <1>10. FullLog(i)' = FullLog(i)
    BY <1>5, <1>8, <1>9, SeqEqual
  <1> HIDE DEF S
  <1>11. \A j \in Server : FullLog(j)' = FullLog(j)
    BY <1>1, <1>2, <1>10 DEF FullLog
  <1>12. DiskInv'
    <2> SUFFICES ASSUME NEW j \in Server
                 PROVE  /\ persister'[j].log = log'[j]
                        /\ persister'[j].currentTerm = currentTerm'[j]
                        /\ persister'[j].lastIncludedTerm = lastIncludedTerm'[j]
                        /\ lastIncludedTerm'[j] = IF lastIncludedIndex'[j] = 0 THEN 0
                                                  ELSE FullLog(j)'[lastIncludedIndex'[j]].Term
      BY DEF DiskInv
    <2>1. CASE j = i
      <3>1. logTerm(i, index) = IF index = 0 THEN 0 ELSE FullLog(i)[index].Term
        BY <1>6, LogTermView DEF LogInv
      <3> QED BY <1>1, <1>3, <1>10, <2>1, <3>1
    <2>2. CASE j # i
      BY <1>1, <1>2, <1>11, <2>2 DEF LogInv, DiskInv
    <2> QED BY <2>1, <2>2
  <1>13. ASSUME NEW j \in Server
         PROVE  /\ currentTerm[j] <= currentTerm'[j] /\ FullLog(j)' = FullLog(j)
                /\ lastIncludedIndex[j] <= lastIncludedIndex'[j]
                /\ lastIncludedIndex'[j] <= commitIndex'[j]
                /\ commitIndex'[j] <= commitIndex[j]
    <2>1. /\ currentTerm[j] \in Nat /\ lastIncludedIndex[j] \in Nat /\ commitIndex[j] \in Nat
          /\ lastIncludedIndex[j] <= commitIndex[j]
      BY DEF TypeInv, MemoryOK, VolatileOK, LogInv, CommitInv, CommitOK
    <2>2. CASE j = i
      BY <1>1, <1>11, <2>1, <2>2
    <2>3. CASE j # i
      BY <1>1, <1>11, <2>1, <2>3
    <2> QED BY <2>2, <2>3
  <1>14. Roles /\ NewCandidates
    BY <1>1, <1>11 DEF Roles, Candidates, Leaders, NewCandidates
  <1> QED BY <1>1, <1>12, <1>13, <1>14, SameLogsStep DEF leaderVars

-----------------------------------------------------------------------------
(* AppendEntries, the follower's side *)

\* What a node regards as committed was decided by its term, so that every later leader
\* has it.
LEMMA DecidedNow ==
    ASSUME TypeInv, LogInv, LogsTyped, NEW i \in Server, NEW n \in Nat, n <= commitIndex[i]
    PROVE  Decided(currentTerm[i], n)
  <1>1. Decided(Reach(i), commitIndex[i]) /\ commitIndex[i] \in Nat
    BY DEF LogInv, CommitInv, CommitOK, TypeInv, VolatileOK
  <1>2. Decided(Reach(i), n)
    BY <1>1, DecidedLess
  <1>3. Reach(i) \in Int /\ Reach(i) <= currentTerm[i] /\ currentTerm[i] \in Nat
    BY ReachType
  <1> QED BY <1>2, <1>3 DEF Decided, LogsTyped

LEMMA LaterLeaderHas ==
    ASSUME TypeInv, LogInv, LogsTyped, NEW i \in Server, NEW u \in Led, u >= currentTerm[i]
    PROVE  /\ Agree(LogOf(u), committed, commitIndex[i])
           /\ Agree(LogOf(u), FullLog(i), commitIndex[i])
           /\ Agree(LogOf(u), FullLog(i), lastIncludedIndex[i])
  <1>1. /\ commitIndex[i] \in Nat /\ currentTerm[i] \in Nat /\ lastIncludedIndex[i] \in Nat
        /\ lastIncludedIndex[i] <= commitIndex[i]
        /\ Agree(FullLog(i), committed, commitIndex[i])
    BY DEF LogInv, CommitInv, CommitOK, TypeInv, VolatileOK, MemoryOK
  <1>2. Decided(currentTerm[i], commitIndex[i])
    BY <1>1, DecidedNow
  <1>3. Agree(LogOf(u), committed, commitIndex[i])
    BY <1>1, <1>2, DecidedCarried DEF LogInv
  <1> QED BY <1>1, <1>3 DEF Agree, LogsTyped, IsLog

\* Of what is decided in a term, the entries of the term were chosen in it.
LEMMA DecidedSure ==
    ASSUME LogInv, LogsTyped, NEW t \in Led, NEW n \in Nat, Decided(t, n)
    PROVE  Sure(t, n)
  <1> SUFFICES ASSUME NEW k \in 1 .. n, Own(t, k) PROVE Chosen(t, k)
    BY DEF Sure
  <1>1. PICK u \in Led : u <= t /\ ChosenBy(u, n)
    BY DEF Decided
  <1>2. PICK l \in n .. Len(LogOf(u)) : Chosen(u, l)
    BY <1>1 DEF ChosenBy
  <1>3. t \in Nat /\ u \in Nat /\ l \in Nat /\ k \in Nat /\ k <= l
    BY <1>2 DEF LogsTyped, IsLog
  <1>4. Agree(LogOf(t), committed, n)
    BY <1>3, DecidedCarried DEF LogInv
  <1>5. LogOf(u)[k].Term = t
    BY <1>1, <1>4 DEF ChosenBy, Agree, Own
  <1>6. LogOf(u)[k].Term <= u
    BY <1>2, <1>3 DEF LogInv, LeaderLogInv, LogsTyped, IsLog
  <1>7. u = t
    BY <1>1, <1>3, <1>5, <1>6
  <1>8. PICK Q \in SUBSET Server : IsMajority(Q) /\ \A q \in Q : HasAcked(t, q, l)
    BY <1>2, <1>7 DEF Chosen
  <1>9. \A q \in Q : HasAcked(t, q, k)
    BY <1>3, <1>8 DEF HasAcked, LogsTyped
  <1> QED BY <1>8, <1>9 DEF Chosen

\* An entry of the same term, behind the snapshot: the logs are the same up to there.
LEMMA SameTermAgrees ==
    ASSUME TypeInv, LogInv, LogsTyped, NEW i \in Server, NEW u \in Led, u >= currentTerm[i],
           NEW k \in lastIncludedIndex[i] .. Len(FullLog(i)), k <= Len(LogOf(u)),
           k > lastIncludedIndex[i] => FullLog(i)[k].Term = LogOf(u)[k].Term
    PROVE  Agree(FullLog(i), LogOf(u), k)
  <1> DEFINE s == lastIncludedIndex[i]
  <1>1. s \in Nat /\ Len(FullLog(i)) \in Nat /\ k \in Nat /\ Len(LogOf(u)) \in Nat
    BY DEF TypeInv, MemoryOK, LogsTyped, IsLog
  <1>2. Agree(LogOf(u), FullLog(i), s)
    BY LaterLeaderHas
  <1>3. CASE k = s
    BY <1>1, <1>2, <1>3 DEF Agree
  <1>4. CASE k > s
    <2> DEFINE w == FullLog(i)[k].Term
    <2>1. k \in (s + 1) .. Len(FullLog(i)) /\ k \in 1 .. Len(LogOf(u))
      BY <1>1, <1>4
    <2>2. \A l \in (s + 1) .. k : FullLog(i)[l] = LogOf(w)[l]
      BY <2>1 DEF LogInv, NodeLogInv, NodeLogOK
    <2>3. Matched(LogOf(u), k) /\ LogOf(u)[k].Term = w
      BY <1>4, <2>1 DEF LogInv, LeaderLogInv
    <2> HIDE DEF w
    <2>4. \A l \in 1 .. k : LogOf(u)[l] = LogOf(w)[l]
      BY <2>3 DEF Matched, Agree
    <2>5. ASSUME NEW l \in 1 .. k PROVE FullLog(i)[l] = LogOf(u)[l]
      <3>1. CASE l <= s
        BY <1>1, <1>2, <3>1 DEF Agree
      <3>2. CASE l > s
        <4>1. l \in (s + 1) .. k
          BY <1>1, <3>2
        <4> QED BY <2>2, <2>4, <4>1
      <3> QED BY <1>1, <3>1, <3>2
    <2> QED BY <1>1, <2>1, <2>5 DEF Agree
  <1> QED BY <1>1, <1>3, <1>4

\* The log after a merge: as it was, when every entry is there; otherwise cut before the
\* first entry that is missing or of another term, and continued with the new ones.
LEMMA MergedView ==
    ASSUME TypeInv, TypeInv', DiskInv, NEW i \in Server, NEW entries \in Seq(Entry),
           NEW p \in lastIncludedIndex[i] .. lastLogIndex(i),
           persister'[i].snapshot = persister[i].snapshot,
           lastIncludedIndex'[i] = lastIncludedIndex[i],
           log'[i] = mergedLog(i, p, entries)
    PROVE  \/ /\ FullLog(i)' = FullLog(i)
              /\ p + Len(entries) <= Len(FullLog(i))
              /\ \A k \in 1 .. Len(entries) : FullLog(i)[p + k].Term = entries[k].Term
           \/ \E x \in 1 .. Len(entries) :
                /\ p + x - 1 <= Len(FullLog(i))
                /\ Len(FullLog(i)') = p + Len(entries)
                /\ \A k \in 1 .. (p + x - 1) : FullLog(i)'[k] = FullLog(i)[k]
                /\ \A k \in x .. Len(entries) : FullLog(i)'[p + k] = entries[k]
                /\ \A k \in 1 .. (x - 1) : FullLog(i)[p + k].Term = entries[k].Term
                /\ p + x <= Len(FullLog(i)) => FullLog(i)[p + x].Term # entries[x].Term
  <1> DEFINE s == lastIncludedIndex[i]
             n == Len(entries)
             new  == {k \in 1 .. n :
                        p + k > lastLogIndex(i) \/ logTerm(i, p + k) # entries[k].Term}
             x == Min(new)
             last == p + x - 1 - s
  <1>1. NodeView(i) /\ NodeView(i)'
    BY NodeViews, PTL
  <1>2. /\ s \in Nat /\ lastLogIndex(i) \in Nat /\ p \in Nat /\ n \in Nat /\ s <= p
        /\ p <= lastLogIndex(i) /\ Len(FullLog(i)) = lastLogIndex(i)
        /\ log[i] \in Seq(Entry) /\ Len(log[i]) = lastLogIndex(i) - s
    BY LastLogIndexType, FullLogType DEF TypeInv, MemoryOK, lastLogIndex
  <1>3. \A l \in (p + 1) .. lastLogIndex(i) : logTerm(i, l) = FullLog(i)[l].Term
    <2> SUFFICES ASSUME NEW l \in (p + 1) .. lastLogIndex(i)
                 PROVE  logTerm(i, l) = FullLog(i)[l].Term
      OBVIOUS
    <2>1. l \in lastIncludedIndex[i] .. lastLogIndex(i) /\ l # 0
      BY <1>2
    <2> QED BY <2>1, LogTermView
  <1>4. ASSUME NEW k \in 1 .. n, p + k <= lastLogIndex(i)
        PROVE  logTerm(i, p + k) = FullLog(i)[p + k].Term
    <2>1. p + k \in (p + 1) .. lastLogIndex(i)
      BY <1>2, <1>4
    <2> QED BY <1>3, <2>1
  <1>5. CASE new = {}
    <2>1. mergedLog(i, p, entries) = log[i]
      BY <1>5 DEF mergedLog
    <2>2. FullLog(i)' = FullLog(i)
      BY <2>1 DEF FullLog
    <2>3. ASSUME NEW k \in 1 .. n
          PROVE  p + k <= lastLogIndex(i) /\ FullLog(i)[p + k].Term = entries[k].Term
      <3>1. ~(p + k > lastLogIndex(i)) /\ logTerm(i, p + k) = entries[k].Term
        BY <1>5
      <3>2. p + k <= lastLogIndex(i)
        BY <1>2, <3>1
      <3> QED BY <1>4, <3>1, <3>2
    <2>4. p + n <= lastLogIndex(i)
      <3>1. CASE n = 0
        BY <1>2, <3>1
      <3>2. CASE n > 0
        BY <1>2, <2>3, <3>2
      <3> QED BY <1>2, <3>1, <3>2
    <2> QED BY <1>2, <2>2, <2>3, <2>4
  <1>6. CASE new # {}
    <2>1. x \in new /\ \A k \in new : x <= k
      <3>1. new \subseteq Nat
        OBVIOUS
      <3> HIDE DEF new
      <3> QED BY <1>6, <3>1, MinInSet
    <2>2. mergedLog(i, p, entries) = SubSeq(log[i], 1, last) \o SubSeq(entries, x, n)
      BY <1>6 DEF mergedLog
    <2> HIDE DEF x
    <2>3. x \in 1 .. n
      BY <2>1
    <2>4. ASSUME NEW k \in 1 .. (x - 1)
          PROVE  p + k <= lastLogIndex(i) /\ FullLog(i)[p + k].Term = entries[k].Term
      <3>1. k \in 1 .. n /\ ~(x <= k)
        BY <1>2, <2>3
      <3>2. k \notin new
        BY <2>1, <3>1
      <3>3. p + k <= lastLogIndex(i) /\ logTerm(i, p + k) = entries[k].Term
        BY <1>2, <3>1, <3>2
      <3> QED BY <1>4, <3>1, <3>3
    <2>5. p + x - 1 <= lastLogIndex(i)
      <3>1. CASE x = 1
        BY <1>2, <3>1
      <3>2. CASE x > 1
        <4>1. x - 1 \in 1 .. (x - 1)
          BY <2>3, <3>2
        <4>2. p + (x - 1) <= lastLogIndex(i)
          BY <2>4, <4>1
        <4> QED BY <1>2, <2>3, <4>2
      <3> QED BY <2>3, <3>1, <3>2
    <2>6. p + x <= lastLogIndex(i) => FullLog(i)[p + x].Term # entries[x].Term
      <3> SUFFICES ASSUME p + x <= lastLogIndex(i)
                   PROVE  FullLog(i)[p + x].Term # entries[x].Term
        OBVIOUS
      <3>1. logTerm(i, p + x) # entries[x].Term
        BY <1>2, <2>1, <2>3
      <3> QED BY <1>4, <2>3, <3>1
    <2>7. last \in 0 .. Len(log[i]) /\ s + last = p + x - 1
      BY <1>2, <2>3, <2>5
    <2>8. last \in Nat /\ n - x + 1 \in Nat /\ s + (last + (n - x + 1)) = p + n
      BY <1>2, <2>3, <2>5
    <2> DEFINE A == SubSeq(log[i], 1, last)
               B == SubSeq(entries, x, n)
    <2>9. A \in Seq(Entry) /\ Len(A) = last /\ \A l \in 1 .. last : A[l] = log[i][l]
      <3>1. \A l \in 1 .. last : log[i][l] \in Entry
        BY <1>2, <2>7, ElementOfSeq
      <3> HIDE DEF last
      <3> QED BY <1>2, <2>7, <3>1, SubSeqProperties
    <2>10. B \in Seq(Entry) /\ Len(B) = n - x + 1 /\ \A l \in 1 .. (n - x + 1) : B[l] = entries[x + l - 1]
      <3>1. \A l \in x .. n : entries[l] \in Entry
        BY <2>3, ElementOfSeq
      <3> QED BY <1>2, <2>3, <3>1, SubSeqProperties
    <2> HIDE DEF A, B, last
    <2>11. /\ Len(log'[i]) = last + (n - x + 1)
           /\ \A l \in 1 .. last : log'[i][l] = log[i][l]
           /\ \A l \in 1 .. (n - x + 1) : log'[i][last + l] = entries[x + l - 1]
      <3>1. log'[i] = A \o B
        BY <2>2 DEF A, B
      <3>2. Len(A \o B) = Len(A) + Len(B)
            /\ \A l \in 1 .. Len(A) + Len(B) : (A \o B)[l] = IF l <= Len(A) THEN A[l] ELSE B[l - Len(A)]
        BY <2>9, <2>10, ConcatProperties
      <3>3. ASSUME NEW l \in 1 .. (n - x + 1) PROVE (A \o B)[last + l] = entries[x + l - 1]
        <4> DEFINE h == last + l
        <4>1. h \in 1 .. Len(A) + Len(B) /\ ~(h <= Len(A)) /\ h - Len(A) = l
          BY <1>2, <2>3, <2>7, <2>9, <2>10
        <4> HIDE DEF h
        <4>2. (A \o B)[h] = B[l]
          BY <3>2, <4>1
        <4> QED BY <2>10, <4>2 DEF h
      <3>4. \A l \in 1 .. last : (A \o B)[l] = log[i][l]
        BY SMTT(60), <1>2, <2>3, <2>7, <2>9, <2>10, <3>2
      <3> QED BY <2>9, <2>10, <3>1, <3>2, <3>3, <3>4
    <2>12. Len(FullLog(i)') = p + n
      <3>1. Len(log'[i]) = Len(FullLog(i)') - s /\ s \in 0 .. Len(FullLog(i)') /\ Len(FullLog(i)') \in Nat
        BY <1>1, FullLogNextType, LenProperties DEF NodeView, TypeInv
      <3>2. s + Len(log'[i]) = p + n
        BY <2>8, <2>11
      <3> QED BY <1>2, <3>1, <3>2
    <2>13. ASSUME NEW k \in 1 .. (p + x - 1) PROVE FullLog(i)'[k] = FullLog(i)[k]
      <3>1. CASE k <= s
        <4>1. k \in 1 .. s
          BY <1>2, <3>1
        <4> QED BY <1>1, <4>1 DEF NodeView
      <3>2. CASE k > s
        <4> DEFINE l == k - s
        <4>1. l \in 1 .. last /\ s + l = k /\ l \in 1 .. Len(log[i]) /\ l \in 1 .. Len(log'[i])
          BY SMTT(60), <1>2, <2>3, <2>7, <2>11, <3>2
        <4> HIDE DEF l
        <4>2. log[i][l] = FullLog(i)[s + l] /\ log'[i][l] = FullLog(i)'[s + l]
          BY <1>1, <4>1 DEF NodeView
        <4> QED BY <2>11, <4>1, <4>2
      <3> QED BY <1>2, <2>3, <3>1, <3>2
    <2>14. ASSUME NEW k \in x .. n PROVE FullLog(i)'[p + k] = entries[k]
      <3> DEFINE l == k - x + 1
                 h == last + l
      <3>1. l \in 1 .. (n - x + 1) /\ x + l - 1 = k /\ s + h = p + k /\ h \in 1 .. Len(log'[i])
        <4>1. l \in 1 .. (n - x + 1) /\ x + l - 1 = k
          BY <1>2, <2>3
        <4>2. s + h = p + k
          <5>1. s \in Int /\ last \in Int /\ x \in Int /\ p \in Int /\ k \in Int
            BY <1>2, <2>3, <2>8
          <5> HIDE DEF s
          <5> QED BY <2>7, <5>1
        <4>3. h \in 1 .. (last + (n - x + 1))
          BY <2>8, <4>1
        <4> QED BY <2>11, <4>1, <4>2, <4>3
      <3>2. log'[i][h] = entries[k]
        <4> HIDE DEF l
        <4> QED BY <2>11, <3>1
      <3> HIDE DEF h
      <3>3. log'[i][h] = FullLog(i)'[s + h]
        BY <1>1, <3>1 DEF NodeView
      <3> QED BY <3>1, <3>2, <3>3
    <2> QED BY <1>2, <2>3, <2>4, <2>5, <2>6, <2>12, <2>13, <2>14
  <1> QED BY <1>5, <1>6

\* The last entry that a request brings, and what the handler has checked and done when it
\* accepts one.
LastSent(m) == m.PrevLogIndex + Len(m.Entries)

Accepting(i, m) ==
    /\ m.PrevLogIndex \in lastIncludedIndex[i] .. lastLogIndex(i)
    /\ logTerm(i, m.PrevLogIndex) = m.PrevLogTerm
    /\ persister'[i].snapshot = persister[i].snapshot
    /\ lastIncludedIndex'[i] = lastIncludedIndex[i]
    /\ log'[i] = mergedLog(i, m.PrevLogIndex, m.Entries)

\* The node has the log of leader u up to entry e; only entries behind the first conflict
\* are gone.
Merged(i, u, e) ==
    /\ Agree(FullLog(i)', LogOf(u), e)
    /\ \/ FullLog(i)' = FullLog(i)
       \/ /\ Len(FullLog(i)') = e
          /\ \E y \in (lastIncludedIndex[i] + 1) .. e :
                /\ Agree(FullLog(i)', FullLog(i), y - 1)
                /\ y <= Len(FullLog(i)) => FullLog(i)[y].Term # LogOf(u)[y].Term

\* Where an index past the first x - 1 entries of a request lies in it
LEMMA PlaceInRequest ==
    ASSUME NEW p \in Nat, NEW n \in Nat, NEW x \in 1 .. n, NEW k \in 1 .. (p + n),
           k > p + x - 1
    PROVE  k - p \in x .. n /\ k - p \in 1 .. n /\ p + (k - p) = k
  OBVIOUS

LEMMA AcceptedLog ==
    ASSUME TypeInv, TypeInv', LogInv, LogsTyped, LogsTyped', NEW i \in Server,
           NEW m \in AppendEntriesArgs, Accepting(i, m), NEW u \in Led, u >= currentTerm[i],
           SentFrom(m, LogOf(u))
    PROVE  Merged(i, u, LastSent(m))
  <1> DEFINE s == lastIncludedIndex[i]
             p == m.PrevLogIndex
             n == Len(m.Entries)
             F == FullLog(i)
             V == LogOf(u)
  <1>1. /\ s \in Nat /\ p \in Nat /\ n \in Nat /\ m.Entries \in Seq(Entry)
        /\ Len(F) \in Nat /\ Len(F) = lastLogIndex(i) /\ Len(V) \in Nat
        /\ p \in s .. Len(F) /\ p + n <= Len(V)
    BY FullLogType, LenProperties
       DEF TypeInv, MemoryOK, LogsTyped, IsLog, AppendEntriesArgs, Accepting, SentFrom
  <1>2. \A k \in 1 .. n : m.Entries[k] = V[p + k]
    BY DEF SentFrom
  <1>3. Agree(F, V, p)
    <2>1. ASSUME p > s PROVE F[p].Term = V[p].Term
      <3>1. logTerm(i, p) = F[p].Term
        BY <1>1, <2>1, LogTermView DEF LogInv
      <3>2. V[p].Term = m.PrevLogTerm
        BY <1>1, <2>1 DEF SentFrom
      <3> QED BY <3>1, <3>2 DEF Accepting
    <2> QED BY SMTT(60), <1>1, <2>1, SameTermAgrees
  <1>4. ASSUME NEW k \in 1 .. n, p + k <= Len(F), F[p + k].Term = m.Entries[k].Term
        PROVE  Agree(F, V, p + k)
    <2> DEFINE l == p + k
    <2>1. l \in s .. Len(F) /\ l <= Len(V)
      BY <1>1, <1>4
    <2>2. F[l].Term = V[l].Term
      BY <1>2, <1>4
    <2> HIDE DEF l
    <2>3. Agree(F, V, l)
      BY <2>1, <2>2, SameTermAgrees
    <2> QED BY <2>3 DEF l
  <1> HIDE DEF F, V
  <1>5. CASE /\ FullLog(i)' = FullLog(i) /\ p + n <= Len(F)
             /\ \A k \in 1 .. n : F[p + k].Term = m.Entries[k].Term
    <2>1. Agree(F, V, p + n)
      <3>1. CASE n = 0
        BY <1>1, <1>3, <3>1
      <3>2. CASE n > 0
        BY <1>1, <1>4, <1>5, <3>2
      <3> QED BY <1>1, <3>1, <3>2
    <2> QED BY <1>5, <2>1 DEF Merged, LastSent, F, V
  <1>6. ASSUME NEW x \in 1 .. n,
               p + x - 1 <= Len(F), Len(FullLog(i)') = p + n,
               \A k \in 1 .. (p + x - 1) : FullLog(i)'[k] = F[k],
               \A k \in x .. n : FullLog(i)'[p + k] = m.Entries[k],
               \A k \in 1 .. (x - 1) : F[p + k].Term = m.Entries[k].Term,
               p + x <= Len(F) => F[p + x].Term # m.Entries[x].Term
        PROVE  Merged(i, u, LastSent(m))
    <2> DEFINE y == p + x
    <2>1. y \in (s + 1) .. (p + n) /\ y - 1 = p + x - 1 /\ x \in Nat
      BY <1>1
    <2>2. Agree(F, V, p + x - 1)
      <3>1. CASE x = 1
        BY <1>1, <1>3, <3>1
      <3>2. CASE x > 1
        <4>1. x - 1 \in 1 .. n /\ x - 1 \in 1 .. (x - 1) /\ p + (x - 1) = p + x - 1
          BY <1>1, <3>2
        <4>2. Agree(F, V, p + (x - 1))
          BY <1>4, <1>6, <4>1
        <4> QED BY <4>1, <4>2
      <3> QED BY <2>1, <3>1, <3>2
    <2>3. Agree(FullLog(i)', F, p + x - 1)
      BY <1>1, <1>6, <2>1 DEF Agree
    <2>4. ASSUME NEW k \in 1 .. (p + n) PROVE FullLog(i)'[k] = V[k]
      <3>1. CASE k <= p + x - 1
        <4>1. k \in 1 .. (p + x - 1)
          BY <1>1, <3>1
        <4> QED BY <2>2, <2>3, <4>1 DEF Agree
      <3>2. CASE k > p + x - 1
        <4> DEFINE l == k - p
        <4>1. l \in x .. n /\ l \in 1 .. n /\ p + l = k
          BY <1>1, <3>2, PlaceInRequest
        <4> HIDE DEF l
        <4>2. FullLog(i)'[p + l] = m.Entries[l] /\ m.Entries[l] = V[p + l]
          BY <1>2, <1>6, <4>1
        <4> QED BY <4>1, <4>2
      <3> QED BY <1>1, <2>1, <3>1, <3>2
    <2>5. Agree(FullLog(i)', V, p + n)
      BY <1>1, <1>6, <2>4 DEF Agree
    <2>6. y <= Len(F) => F[y].Term # V[y].Term
      BY <1>2, <1>6
    <2> HIDE DEF y
    <2>7. Agree(FullLog(i)', F, y - 1)
      BY <2>1, <2>3
    <2> QED BY <1>6, <2>1, <2>5, <2>6, <2>7 DEF Merged, LastSent, F, V
  <1> HIDE DEF n
  <1> QED BY ZenonT(60), <1>1, <1>5, <1>6, MergedView DEF Accepting, LogInv, F, n

\* Behind a snapshot, terms only grow up to the last one.
LEMMA NodeTermsGrow ==
    ASSUME TypeInv, LogsTyped, LeaderLogInv, NEW i \in Server, NodeLogOK(i)
    PROVE  \A k \in (lastIncludedIndex[i] + 1) .. Len(FullLog(i)) :
              LastTerm(FullLog(i)) >= FullLog(i)[k].Term
  <1> SUFFICES ASSUME NEW k \in (lastIncludedIndex[i] + 1) .. Len(FullLog(i))
               PROVE  LastTerm(FullLog(i)) >= FullLog(i)[k].Term
    OBVIOUS
  <1> DEFINE n == Len(FullLog(i))
             w == FullLog(i)[n].Term
  <1>1. lastIncludedIndex[i] \in Nat /\ n \in Nat /\ k \in 1 .. n
    BY DEF TypeInv, MemoryOK, LogsTyped, IsLog
  <1>2. n \in (lastIncludedIndex[i] + 1) .. n
    BY <1>1
  <1>3. /\ w \in Led /\ n <= Len(LogOf(w))
        /\ \A l \in (lastIncludedIndex[i] + 1) .. n : FullLog(i)[l] = LogOf(w)[l]
    BY <1>2 DEF NodeLogOK
  <1>4. LastTerm(FullLog(i)) = w
    BY <1>1 DEF LastTerm
  <1> HIDE DEF w
  <1>5. n \in 1 .. Len(LogOf(w))
    BY <1>1, <1>3 DEF LogsTyped, IsLog
  <1>6. LogOf(w)[k].Term <= LogOf(w)[n].Term
    BY <1>1, <1>3, <1>5 DEF LeaderLogInv
  <1>7. FullLog(i)[k] = LogOf(w)[k] /\ FullLog(i)[n] = LogOf(w)[n]
    BY <1>2, <1>3
  <1>8. FullLog(i)[k].Term \in Nat /\ FullLog(i)[n].Term \in Nat
    BY <1>1 DEF LogsTyped, IsLog
  <1> QED BY <1>4, <1>6, <1>7, <1>8 DEF w

LEMMA SameLeaders ==
    ASSUME leaderLogs' = leaderLogs
    PROVE  /\ Led' = Led
           /\ \A t : LogOf(t)' = LogOf(t)
           /\ \A t, n : Own(t, n)' = Own(t, n) /\ Lacking(t, n)' = Lacking(t, n)
  <1>1. Led' = Led /\ \A t : LogOf(t)' = LogOf(t)
    BY DEF Led, LogOf, Turn
  <1> QED BY <1>1 DEF Own, Lacking, Agree

LEMMA MergedNodeLog ==
    ASSUME TypeInv, TypeInv', LogInv, LogsTyped, LogsTyped', Forward, leaderLogs' = leaderLogs,
           NEW i \in Server, NEW u \in Led, NEW e \in Nat, Merged(i, u, e),
           lastIncludedIndex'[i] = lastIncludedIndex[i]
    PROVE  NodeLogOK(i)'
  <1>1. CASE FullLog(i)' = FullLog(i)
    BY <1>1, NodeLogFrame DEF LogInv, NodeLogInv
  <1>2. CASE Len(FullLog(i)') = e
    <2> SUFFICES ASSUME NEW k \in (lastIncludedIndex[i] + 1) .. e,
                        NEW w, w = FullLog(i)'[k].Term
                 PROVE  /\ w \in Led
                        /\ k <= Len(LogOf(w))
                        /\ \A l \in (lastIncludedIndex[i] + 1) .. k : FullLog(i)'[l] = LogOf(w)[l]
      BY <1>2, SameLeaders DEF NodeLogOK
    <2>1. /\ Agree(FullLog(i)', LogOf(u), e)
          /\ lastIncludedIndex[i] \in Nat /\ k \in 1 .. e /\ k \in 1 .. Len(LogOf(u))
      BY DEF Merged, Agree, TypeInv, MemoryOK, LogsTyped, IsLog
    <2>2. Matched(LogOf(u), k)
      BY <2>1 DEF LogInv, LeaderLogInv
    <2>3. LogOf(u)[k].Term = w
      BY <2>1 DEF Agree
    <2>4. w \in Led /\ Agree(LogOf(u), LogOf(w), k)
      BY <2>2, <2>3 DEF Matched
    <2>5. ASSUME NEW l \in (lastIncludedIndex[i] + 1) .. k PROVE FullLog(i)'[l] = LogOf(w)[l]
      <3>1. l \in 1 .. k /\ l \in 1 .. e
        BY <2>1
      <3> QED BY <2>1, <2>4, <3>1 DEF Agree
    <2> QED BY <2>4, <2>5 DEF Agree
  <1> QED BY <1>1, <1>2 DEF Merged

\* The entries of the term of a leader that is held up to entry e: nothing newer follows.
LEMMA MergedLast ==
    ASSUME TypeInv, TypeInv', LogInv, LogsTyped, LogsTyped', leaderLogs' = leaderLogs,
           NEW i \in Server, NEW u \in Led, NEW e \in Nat, NodeLogOK(i)',
           Agree(FullLog(i)', LogOf(u), e), e > lastIncludedIndex'[i],
           NEW n \in 1 .. e
    PROVE  LastTerm(FullLog(i)') >= LogOf(u)[n].Term
  <1>1. LeaderLogInv'
    BY LeaderLogFrame DEF LogInv
  <1>2. \A k \in (lastIncludedIndex'[i] + 1) .. Len(FullLog(i)') :
              LastTerm(FullLog(i)') >= FullLog(i)'[k].Term
    <2>1. (\A k \in (lastIncludedIndex[i] + 1) .. Len(FullLog(i)) :
              LastTerm(FullLog(i)) >= FullLog(i)[k].Term)'
      BY <1>1, NodeTermsGrow, PTL
    <2> QED BY <2>1 DEF LastTerm
  <1>3. /\ lastIncludedIndex'[i] \in Nat /\ Len(FullLog(i)') \in Nat /\ Len(LogOf(u)) \in Nat
        /\ e <= Len(FullLog(i)') /\ e <= Len(LogOf(u)) /\ n \in Nat /\ n <= e
    BY DEF TypeInv, MemoryOK, LogsTyped, IsLog, Agree
  <1>4. LastTerm(FullLog(i)') >= FullLog(i)'[e].Term
    BY <1>2, <1>3
  <1>5. FullLog(i)'[e] = LogOf(u)[e]
    BY <1>3 DEF Agree
  <1>6. e \in 1 .. Len(LogOf(u))
    BY <1>3
  <1>7. LogOf(u)[n].Term <= LogOf(u)[e].Term
    BY <1>6, TermsGrow
  <1>8. LogOf(u)[n].Term \in Nat /\ LogOf(u)[e].Term \in Nat
    <2>1. n \in 1 .. Len(LogOf(u)) /\ IsLog(LogOf(u))
      BY <1>3 DEF LogsTyped
    <2> QED BY <1>6, <2>1 DEF IsLog
  <1>9. LastTerm(FullLog(i)') \in Nat
    <2>1. Len(FullLog(i)') \in 1 .. Len(FullLog(i)')
      BY <1>3
    <2> QED BY <2>1 DEF LogsTyped, IsLog, LastTerm
  <1> QED BY <1>4, <1>5, <1>7, <1>8, <1>9

LEMMA MergedAck ==
    ASSUME TypeInv, TypeInv', LogInv, LogsTyped, LogsTyped', Forward, leaderLogs' = leaderLogs,
           NEW i \in Server, NEW u \in Led, u >= currentTerm[i], NEW e \in Nat, Merged(i, u, e),
           lastIncludedIndex'[i] = lastIncludedIndex[i], NodeLogOK(i)',
           NEW a \in acked, a.node = i, FullLog(i)' # FullLog(i)
    PROVE  AckOK(a)' /\ NewestAckOK(a)'
  <1> DEFINE t == a.term
             F == FullLog(i)
  <1>1. /\ t \in Led /\ t \in Nat /\ a.index \in Nat /\ a.index <= Len(LogOf(t))
        /\ t <= currentTerm[i] /\ currentTerm[i] \in Nat /\ u \in Nat /\ t <= u
        /\ currentTerm'[i] \in Nat /\ currentTerm[i] <= currentTerm'[i] /\ AckOK(a)
    BY DEF LogInv, AckInv, AckOK, LogsTyped, TypeInv, MemoryOK, Forward
  <1>2. PICK y \in (lastIncludedIndex[i] + 1) .. e :
           /\ Agree(FullLog(i)', F, y - 1)
           /\ y <= Len(F) => F[y].Term # LogOf(u)[y].Term
    BY DEF Merged
  <1>3. /\ y \in Nat /\ y >= 1 /\ y <= e /\ lastIncludedIndex[i] \in Nat
        /\ Len(F) \in Nat /\ Len(LogOf(u)) \in Nat /\ Len(LogOf(t)) \in Nat
        /\ Len(FullLog(i)') \in Nat /\ Agree(FullLog(i)', LogOf(u), e)
    <2>1. lastIncludedIndex[i] \in Nat
      BY DEF TypeInv, MemoryOK
    <2>2. y \in Nat /\ y >= 1 /\ y <= e
      BY <2>1
    <2>3. /\ Len(F) \in Nat /\ Len(LogOf(u)) \in Nat /\ Len(LogOf(t)) \in Nat
          /\ Len(FullLog(i)') \in Nat
      BY <1>1 DEF LogsTyped, IsLog
    <2> QED BY <2>1, <2>2, <2>3 DEF Merged
  <1>4. ASSUME NEW n \in Nat, Agree(F, LogOf(t), n), n >= y
        PROVE  u > t /\ ~Agree(LogOf(u), LogOf(t), n)
    <2>1. y \in 1 .. n /\ y <= Len(F) /\ F[y] = LogOf(t)[y]
      BY <1>3, <1>4 DEF Agree
    <2>2. LogOf(u)[y] # LogOf(t)[y]
      BY <1>2, <2>1
    <2> QED BY <1>1, <2>1, <2>2 DEF Agree
  <1>5. ASSUME NEW n \in Nat, Agree(F, LogOf(t), n), n < y
        PROVE  Agree(FullLog(i)', LogOf(t), n)
    <2> DEFINE z == y - 1
    <2>1. n <= z /\ z \in Nat /\ Agree(FullLog(i)', F, z)
      BY <1>2, <1>3, <1>5
    <2> HIDE DEF z, F
    <2> QED BY <1>3, <1>5, <2>1 DEF Agree
  <1>6. ASSUME NEW n \in 1 .. a.index, Own(t, n)
        PROVE  (Agree(FullLog(i)', LogOf(t), n) /\ LastTerm(FullLog(i)') >= t) \/ Lacking(t, n)
    <2>0. n \in Nat /\ n >= 1 /\ LogOf(t)[n].Term = t
      BY <1>1, <1>6 DEF Own
    <2>1. Holds(F, t, n) \/ Lacking(t, n)
      BY <1>1, <1>6 DEF AckOK
    <2>2. CASE Holds(F, t, n) /\ n >= y
      <3>1. u > t /\ ~Agree(LogOf(u), LogOf(t), n)
        BY <1>4, <2>0, <2>2 DEF Holds
      <3> QED BY <3>1 DEF Lacking
    <2>3. CASE Holds(F, t, n) /\ n < y
      <3>1. Agree(FullLog(i)', LogOf(t), n)
        BY <1>5, <2>0, <2>3 DEF Holds
      <3>2. n \in 1 .. e /\ e > lastIncludedIndex'[i]
        BY <1>3, <2>0, <2>3
      <3>3. LastTerm(FullLog(i)') >= LogOf(u)[n].Term
        BY <1>3, <3>2, MergedLast
      <3>4. LogOf(u)[n] = LogOf(t)[n]
        BY <1>3, <2>0, <3>1, <3>2 DEF Agree
      <3> QED BY <2>0, <3>1, <3>3, <3>4
    <2> QED BY <1>3, <2>0, <2>1, <2>2, <2>3
  <1>7. AckOK(a)'
    <2>1. ASSUME NEW n \in 1 .. a.index, Own(a.term, n)'
          PROVE  Holds(FullLog(a.node), a.term, n)' \/ Lacking(a.term, n)'
      BY <1>6, <2>1, SameLeaders DEF Holds
    <2>2. a.term \in Led' /\ a.index <= Len(LogOf(a.term)')
      BY <1>1, SameLeaders
    <2>3. a.term <= currentTerm'[a.node]
      BY <1>1
    <2> QED BY <2>1, <2>2, <2>3 DEF AckOK
  <1>8. NewestAckOK(a)'
    <2>1. CASE \E w \in Led : w > t
      BY <2>1, SameLeaders DEF NewestAckOK
    <2>2. CASE ~(\E w \in Led : w > t)
      <3>1. Agree(F, LogOf(t), a.index)
        BY <2>2 DEF LogInv, NewestAckInv, NewestAckOK
      <3>2. ~(u > t)
        BY <2>2
      <3>3. a.index < y
        BY <1>1, <1>3, <1>4, <3>1, <3>2
      <3>4. Agree(FullLog(i)', LogOf(t), a.index)
        BY <1>1, <1>5, <3>1, <3>3
      <3> QED BY <3>4, SameLeaders DEF NewestAckOK
    <2> QED BY <2>1, <2>2
  <1> QED BY <1>7, <1>8

\* The acknowledgement that history notes is true when it is noted.
LEMMA NewAckTrue ==
    ASSUME TypeInv, TypeInv', LogInv, LogsTyped, LogsTyped', leaderLogs' = leaderLogs,
           NEW i \in Server, NEW t \in Led, NEW e \in Nat, t = currentTerm'[i],
           Agree(FullLog(i)', LogOf(t), e), e > lastIncludedIndex'[i], NodeLogOK(i)',
           NEW a, a.term = t, a.node = i, a.index = e
    PROVE  AckOK(a)' /\ NewestAckOK(a)'
  <1>1. t \in Nat /\ Len(LogOf(t)) \in Nat
    BY DEF LogsTyped, IsLog
  <1>2. ASSUME NEW n \in 1 .. e, Own(t, n)
        PROVE  Agree(FullLog(i)', LogOf(t), n) /\ LastTerm(FullLog(i)') >= t
    <2>1. LastTerm(FullLog(i)') >= LogOf(t)[n].Term
      BY MergedLast
    <2>2. LogOf(t)[n].Term = t
      BY <1>2 DEF Own
    <2> QED BY <2>1, <2>2 DEF Agree, LogsTyped, IsLog
  <1>3. ASSUME NEW n \in 1 .. a.index, Own(a.term, n)'
        PROVE  Holds(FullLog(a.node), a.term, n)' \/ Lacking(a.term, n)'
    BY <1>2, <1>3, SameLeaders DEF Holds
  <1>4. a.term \in Led' /\ a.index <= Len(LogOf(a.term)') /\ a.term <= currentTerm'[a.node]
    BY <1>1, SameLeaders DEF Agree
  <1>5. NewestAckOK(a)'
    BY SameLeaders DEF NewestAckOK
  <1> QED BY <1>3, <1>4, <1>5 DEF AckOK

\* Which acknowledgements history notes.
LEMMA AcknowledgedView ==
    ASSUME TypeInv, LogInv, LogsTyped, NEW m \in AppendEntriesArgs
    PROVE  /\ \A a \in Acknowledged(m) :
                /\ m.Term \in Led /\ SentFrom(m, LogOf(m.Term))
                /\ LastSent(m) > lastIncludedIndex[m.callee]
                /\ a.term = m.Term /\ a.node = m.callee /\ a.index = LastSent(m)
           /\ m.Term \in Led /\ SentFrom(m, LogOf(m.Term))
                /\ LastSent(m) > lastIncludedIndex[m.callee]
              => \E a \in Acknowledged(m) :
                    a.term = m.Term /\ a.node = m.callee /\ a.index = LastSent(m)
  <1> DEFINE new == [term |-> m.Term, node |-> m.callee, index |-> LastSent(m)]
             D == {d \in DOMAIN leaderLogs :
                     /\ leaderLogs[d].term = m.Term /\ SentFrom(m, leaderLogs[d].log)
                     /\ LastSent(m) > lastIncludedIndex[m.callee]}
  <1>1. Acknowledged(m) = {new : d \in D}
    BY DEF Acknowledged, LastSent
  <1>2. ASSUME NEW d \in DOMAIN leaderLogs, leaderLogs[d].term = m.Term
        PROVE  m.Term \in Led /\ LogOf(m.Term) = leaderLogs[d].log
    <2>1. m.Term \in Led
      BY <1>2 DEF Led
    <2>2. Turn(m.Term) \in DOMAIN leaderLogs /\ leaderLogs[Turn(m.Term)].term = m.Term
      BY <2>1, LedTurn DEF TypeInv
    <2>3. Turn(m.Term) = d
      BY <1>2, <2>2 DEF LogInv, LeadersInv
    <2> QED BY <2>1, <2>3 DEF LogOf
  <1>3. ASSUME NEW a \in Acknowledged(m)
        PROVE  /\ m.Term \in Led /\ SentFrom(m, LogOf(m.Term))
               /\ LastSent(m) > lastIncludedIndex[m.callee]
               /\ a.term = m.Term /\ a.node = m.callee /\ a.index = LastSent(m)
    <2>1. PICK d \in D : a = new
      BY <1>1
    <2> QED BY <1>2, <2>1
  <1>4. ASSUME m.Term \in Led, SentFrom(m, LogOf(m.Term)), LastSent(m) > lastIncludedIndex[m.callee]
        PROVE  \E a \in Acknowledged(m) :
                    a.term = m.Term /\ a.node = m.callee /\ a.index = LastSent(m)
    <2>1. Turn(m.Term) \in DOMAIN leaderLogs /\ leaderLogs[Turn(m.Term)].term = m.Term
      BY <1>4, LedTurn DEF TypeInv
    <2>2. Turn(m.Term) \in D
      BY <1>4, <2>1 DEF LogOf
    <2>3. new \in Acknowledged(m)
      BY <1>1, <2>2
    <2> QED BY <2>3
  <1> QED BY <1>3, <1>4

LEMMA MinOfPair ==
    ASSUME NEW a \in Nat, NEW b \in Nat, a <= b
    PROVE  Min({a, b}) = a
  BY MinInSet

\* Accepting the leader's commit index.
LEMMA MergedCommit ==
    ASSUME TypeInv, TypeInv', LogInv, LogsTyped, LogsTyped', NEW i \in Server,
           NEW m \in AppendEntriesArgs, AppendRequestInv(m), m.Term >= currentTerm[i],
           NEW u \in Led, u >= m.Term, Merged(i, u, LastSent(m)),
           commitIndex'[i] = commitAfter(i, m)
    PROVE  /\ commitIndex[i] <= commitIndex'[i]
           /\ Decided(m.Term, commitIndex'[i])
           /\ Agree(FullLog(i)', committed, commitIndex'[i])
  <1> DEFINE c == commitIndex[i]
             e == LastSent(m)
  <1>1. /\ m.Term \in Nat /\ m.LeaderCommit \in Nat /\ e \in Nat /\ c \in Nat /\ u \in Nat
        /\ currentTerm[i] \in Nat /\ m.kind = "AppendEntries"
    <2>1. /\ m.Term \in Nat /\ m.LeaderCommit \in Nat /\ m.PrevLogIndex \in Nat
          /\ Len(m.Entries) \in Nat /\ m.kind = "AppendEntries"
      BY LenProperties DEF AppendEntriesArgs
    <2>2. e \in Nat
      BY <2>1 DEF LastSent
    <2>3. c \in Nat /\ u \in Nat /\ currentTerm[i] \in Nat
      BY DEF TypeInv, MemoryOK, VolatileOK, LogsTyped
    <2> QED BY <2>1, <2>2, <2>3
  <1>2. Decided(m.Term, m.LeaderCommit) /\ m.LeaderCommit <= e
    BY <1>1 DEF AppendRequestInv, LastSent
  <1>3. Agree(FullLog(i)', LogOf(u), e)
    BY DEF Merged
  <1>4. CASE m.LeaderCommit > c
    <2>1. commitIndex'[i] = m.LeaderCommit
      BY <1>1, <1>2, <1>4, MinOfPair DEF commitAfter, LastSent
    <2>2. Agree(LogOf(u), committed, m.LeaderCommit)
      BY <1>1, <1>2, DecidedCarried DEF LogInv
    <2>3. Agree(FullLog(i)', committed, m.LeaderCommit)
      BY <1>1, <1>2, <1>3, <2>2 DEF Agree, LogsTyped, IsLog
    <2> QED BY <1>1, <1>2, <1>4, <2>1, <2>3
  <1>5. CASE ~(m.LeaderCommit > c)
    <2>1. commitIndex'[i] = c
      BY <1>5 DEF commitAfter
    <2>2. Decided(currentTerm[i], c)
      BY <1>1, DecidedNow
    <2>3. Decided(m.Term, c)
      BY <1>1, <2>2 DEF Decided, LogsTyped
    <2>4. Agree(LogOf(u), committed, c) /\ Agree(LogOf(u), FullLog(i), c)
      BY <1>1, LaterLeaderHas
    <2>5. Agree(FullLog(i), committed, c)
      BY DEF LogInv, CommitInv, CommitOK
    <2>6. CASE FullLog(i)' = FullLog(i)
      BY <1>1, <2>1, <2>3, <2>5, <2>6
    <2>7. CASE FullLog(i)' # FullLog(i)
      <3>1. PICK y \in (lastIncludedIndex[i] + 1) .. e :
               /\ Agree(FullLog(i)', FullLog(i), y - 1)
               /\ y <= Len(FullLog(i)) => FullLog(i)[y].Term # LogOf(u)[y].Term
        BY <2>7 DEF Merged
      <3>2. y \in Nat /\ y >= 1
        BY <3>1 DEF TypeInv, MemoryOK
      <3>3. c < y
        <4> SUFFICES ASSUME y <= c PROVE FALSE
          BY <1>1, <3>2
        <4>1. y \in 1 .. c /\ y <= Len(FullLog(i)) /\ LogOf(u)[y] = FullLog(i)[y]
          BY <1>1, <2>4, <3>2 DEF Agree, LogsTyped, IsLog
        <4> QED BY <3>1, <4>1
      <3>4. c <= y - 1 /\ y - 1 \in Nat
        BY <1>1, <3>2, <3>3
      <3>5. Agree(FullLog(i)', committed, c)
        BY <1>1, <2>5, <3>1, <3>4 DEF Agree, LogsTyped, IsLog
      <3> QED BY <1>1, <2>1, <2>3, <3>5
    <2> QED BY <2>6, <2>7
  <1> QED BY <1>4, <1>5

\* The reply to a request.
LEMMA AppendReplySound ==
    ASSUME TypeInv, TypeInv', LogsTyped, Forward, leaderLogs' = leaderLogs,
           NEW m \in AppendEntriesArgs, AppendRequestInv(m), m.Term <= currentTerm'[m.callee],
           NEW term, NEW success \in BOOLEAN, NEW conflictTerm, NEW conflictIndex,
           NEW r, r = AppendEntriesReplyTo(m, term, success, conflictTerm, conflictIndex),
           m.Term \in Led /\ SentFrom(m, LogOf(m.Term)) =>
               /\ conflictIndex <= Len(LogOf(m.Term)) + 1
               /\ success => /\ term = m.Term
                             /\ LastSent(m) > 0 => Confirmed(m.Term, m.callee, LastSent(m))'
    PROVE  MessageInv(r)'
  <1>1. /\ r.kind = "AppendEntriesReply" /\ r.caller = m.caller /\ r.callee = m.callee
        /\ r.term = m.Term /\ r.newMatch = LastSent(m) /\ r.Term = term /\ r.Success = success
        /\ r.ConflictIndex = conflictIndex
    BY DEF AppendEntriesReplyTo, LastSent
  <1>2. /\ m.Term \in Nat /\ m.caller \in Server /\ m.kind = "AppendEntries"
        /\ currentTerm[m.caller] \in Nat /\ currentTerm'[m.caller] \in Nat
        /\ currentTerm[m.caller] <= currentTerm'[m.caller]
    BY DEF AppendEntriesArgs, TypeInv, MemoryOK, Forward
  <1>3. \/ currentTerm[m.caller] > m.Term
        \/ m.Term \in Led /\ SentFrom(m, LogOf(m.Term))
    BY <1>2 DEF AppendRequestInv
  <1>4. AppendReplyInv(r)'
    <2>1. CASE currentTerm[m.caller] > m.Term
      <3>1. currentTerm'[m.caller] > m.Term
        BY <1>2, <2>1
      <3> QED BY <1>1, <3>1 DEF AppendReplyInv
    <2>2. CASE m.Term \in Led /\ SentFrom(m, LogOf(m.Term))
      <3>1. LastSent(m) <= Len(LogOf(m.Term))
        BY <2>2 DEF SentFrom, LastSent
      <3>2. Confirmed(r.term, r.callee, r.newMatch)' = Confirmed(m.Term, m.callee, LastSent(m))'
        BY <1>1
      <3>3. LastSent(m)' = LastSent(m)
        BY DEF LastSent
      <3> QED BY <1>1, <2>2, <3>1, <3>2, <3>3, SameLeaders DEF AppendReplyInv
    <2> QED BY <1>3, <2>1, <2>2
  <1> QED BY <1>1, <1>4 DEF MessageInv, VoteRequestInv, AppendRequestInv, SnapshotRequestInv,
                            SnapshotReplyInv

\* The handler turns the node into a follower of the sender's term and persists.
Follows(i, term) ==
    /\ term >= currentTerm[i]
    /\ state' = [state EXCEPT ![i] = "follower"]
    /\ currentTerm' = [currentTerm EXCEPT ![i] = term]
    /\ UNCHANGED <<lastIncludedIndex, lastIncludedTerm>>
    /\ persist(i)

LEMMA FollowsView ==
    ASSUME TypeInv, NEW i \in Server, NEW term \in Nat, Follows(i, term)
    PROVE  /\ state'[i] = "follower" /\ currentTerm'[i] = term /\ currentTerm[i] <= term
           /\ persister'[i].snapshot = persister[i].snapshot
           /\ persister'[i].log = log'[i] /\ persister'[i].currentTerm = term
           /\ persister'[i].lastIncludedTerm = lastIncludedTerm[i]
           /\ \A j \in Server : /\ currentTerm[j] <= currentTerm'[j]
                                /\ j # i => /\ state'[j] = state[j]
                                            /\ currentTerm'[j] = currentTerm[j]
                                            /\ persister'[j] = persister[j]
  <1>1. persister' = [persister EXCEPT ![i] = DiskState(i, persister[i].snapshot)]
    BY DEF Follows, persist, persistWithSnapshot
  <1>2. /\ persister'[i] = DiskState(i, persister[i].snapshot)
        /\ \A j \in Server : j # i => persister'[j] = persister[j]
    BY <1>1 DEF TypeInv, DiskOK
  <1>3. /\ state'[i] = "follower" /\ currentTerm'[i] = term /\ currentTerm[i] <= term
        /\ \A j \in Server : j # i => state'[j] = state[j] /\ currentTerm'[j] = currentTerm[j]
    BY DEF Follows, TypeInv, MemoryOK, VolatileOK
  <1>4. /\ persister'[i].snapshot = persister[i].snapshot
        /\ persister'[i].log = log'[i] /\ persister'[i].currentTerm = term
        /\ persister'[i].lastIncludedTerm = lastIncludedTerm[i]
    BY <1>2, <1>3 DEF DiskState, Follows
  <1>5. ASSUME NEW j \in Server PROVE currentTerm[j] <= currentTerm'[j]
    <2>1. currentTerm[j] \in Nat
      BY DEF TypeInv, MemoryOK
    <2> QED BY <1>3, <2>1
  <1> QED BY <1>2, <1>3, <1>4, <1>5

LEMMA LogRejectEntries ==
    ASSUME TypeInv, TypeInv', VoteInv, LogInv, NEW m \in BagToSet(net), AppendEntries(m),
           \/ UNCHANGED <<durableVars, persister, state>> /\ m.Term <= currentTerm[m.callee]
           \/ Follows(m.callee, m.Term),
           UNCHANGED <<log, commitIndex, acked>>,
           NEW term, NEW conflictTerm, NEW conflictIndex,
           Reply(m, AppendEntriesReplyTo(m, term, FALSE, conflictTerm, conflictIndex)),
           m.Term \in Led /\ SentFrom(m, LogOf(m.Term)) =>
               conflictIndex <= Len(LogOf(m.Term)) + 1
    PROVE  LogInv'
  <1> DEFINE i == m.callee
             r == AppendEntriesReplyTo(m, term, FALSE, conflictTerm, conflictIndex)
  <1>1. /\ m \in AppendEntriesArgs /\ i \in Server /\ m.Term \in Nat
        /\ AppendRequestInv(m) /\ LogsTyped /\ LogsTyped'
    BY MessageKinds, MessageFields, LogsAreTyped, LogsAreTypedNext
       DEF TypeInv, NetOK, LogInv, NetInv, MessageInv, AppendEntries
  <1>2. UNCHANGED <<leaderLogs, elected, acked, committed, commitIndex, leaderVars, captures, ballots>>
    BY DEF AppendEntries, taskVars
  <1>3. /\ DiskInv' /\ \A j \in Server : currentTerm[j] <= currentTerm'[j] /\ FullLog(j)' = FullLog(j)
        /\ Roles /\ NewCandidates /\ NewBallots /\ m.Term <= currentTerm'[i]
        /\ lastIncludedIndex' = lastIncludedIndex
    <2>1. CASE UNCHANGED <<durableVars, persister, state>> /\ m.Term <= currentTerm[i]
      <3>1. DiskInv' /\ \A j \in Server : FullLog(j)' = FullLog(j)
        BY <2>1, DiskSame DEF LogInv
      <3>2. currentTerm' = currentTerm /\ state' = state /\ lastIncludedIndex' = lastIncludedIndex
        BY <2>1 DEF durableVars
      <3>3. \A j \in Server : currentTerm[j] \in Nat
        BY DEF TypeInv, MemoryOK
      <3>4. Roles /\ NewCandidates /\ NewBallots
        BY <1>2, <3>1, <3>2 DEF Roles, Candidates, Leaders, NewCandidates, NewBallots
      <3> QED BY <2>1, <3>1, <3>2, <3>3, <3>4
    <2>2. CASE Follows(i, m.Term)
      <3>1. /\ state'[i] = "follower" /\ currentTerm'[i] = m.Term
            /\ \A j \in Server : /\ currentTerm[j] <= currentTerm'[j]
                                 /\ j # i => state'[j] = state[j] /\ currentTerm'[j] = currentTerm[j]
        BY <1>1, <2>2, FollowsView
      <3>2. DiskInv' /\ \A j \in Server : FullLog(j)' = FullLog(j)
        BY <1>1, <2>2, <3>1, PersistSame DEF LogInv, Follows
      <3>3. Roles /\ NewCandidates /\ NewBallots
        BY <1>2, <3>1, <3>2 DEF Roles, Candidates, Leaders, NewCandidates, NewBallots
      <3> QED BY <1>1, <2>2, <3>1, <3>2, <3>3 DEF Follows
    <2> QED BY <2>1, <2>2
  <1>4. Forward
    BY <1>1, <1>2, <1>3, ForwardSame, SameCommitted DEF TypeInv, MemoryOK
  <1> HIDE DEF r
  <1>5. \A x \in BagToSet(net') : x \in BagToSet(net) \/ MessageInv(x)'
    <2>1. BagToSet(net') \subseteq BagToSet(net) \cup {r}
      BY NetReply DEF TypeInv, NetOK, r
    <2>2. ASSUME NEW x, x = r PROVE MessageInv(x)'
      BY <1>1, <1>2, <1>3, <1>4, <2>2, AppendReplySound DEF r
    <2> QED BY <2>1, <2>2
  <1> HIDE DEF i
  <1> QED BY <1>2, <1>3, <1>5, QuietLogStep DEF leaderVars

LEMMA LogAcceptEntries ==
    ASSUME TypeInv, TypeInv', VoteInv, LogInv, NEW m \in BagToSet(net), AppendEntries(m),
           Follows(m.callee, m.Term),
           m.PrevLogIndex \in lastIncludedIndex[m.callee] .. lastLogIndex(m.callee),
           logTerm(m.callee, m.PrevLogIndex) = m.PrevLogTerm,
           log' = [log EXCEPT ![m.callee] = mergedLog(m.callee, m.PrevLogIndex, m.Entries)],
           commitIndex' = [commitIndex EXCEPT ![m.callee] = commitAfter(m.callee, m)],
           acked' = acked \cup Acknowledged(m),
           Reply(m, AppendEntriesReplyTo(m, m.Term, TRUE, -1, 0))
    PROVE  LogInv'
  <1> DEFINE i == m.callee
             e == LastSent(m)
             s == lastIncludedIndex[i]
             r == AppendEntriesReplyTo(m, m.Term, TRUE, -1, 0)
  <1>1. /\ m \in AppendEntriesArgs /\ i \in Server /\ m.Term \in Nat /\ AppendRequestInv(m)
        /\ LogsTyped /\ LogsTyped' /\ m.kind = "AppendEntries"
    BY MessageKinds, MessageFields, LogsAreTyped, LogsAreTypedNext
       DEF TypeInv, NetOK, LogInv, NetInv, MessageInv, AppendEntries
  <1>2. e \in Nat
    BY <1>1, LenProperties DEF AppendEntriesArgs, LastSent
  <1>3. UNCHANGED <<leaderLogs, elected, committed, leaderVars, captures, ballots>>
    BY DEF AppendEntries, taskVars
  <1>4. /\ state'[i] = "follower" /\ currentTerm'[i] = m.Term /\ currentTerm[i] <= m.Term
        /\ persister'[i].snapshot = persister[i].snapshot
        /\ persister'[i].log = log'[i] /\ persister'[i].currentTerm = m.Term
        /\ persister'[i].lastIncludedTerm = lastIncludedTerm[i]
        /\ \A j \in Server : /\ currentTerm[j] <= currentTerm'[j]
                             /\ j # i => /\ state'[j] = state[j]
                                         /\ currentTerm'[j] = currentTerm[j]
                                         /\ persister'[j] = persister[j]
    BY <1>1, FollowsView
  <1>5. /\ lastIncludedIndex' = lastIncludedIndex /\ lastIncludedTerm' = lastIncludedTerm
        /\ m.Term >= currentTerm[i]
    BY DEF Follows
  <1>6. /\ log'[i] = mergedLog(i, m.PrevLogIndex, m.Entries)
        /\ commitIndex'[i] = commitAfter(i, m)
        /\ \A j \in Server : j # i => log'[j] = log[j] /\ commitIndex'[j] = commitIndex[j]
    BY <1>1 DEF TypeInv, MemoryOK, VolatileOK
  <1>7. Accepting(i, m)
    BY <1>4, <1>5, <1>6 DEF Accepting
  <1>8. \A j \in Server : j # i => FullLog(j)' = FullLog(j)
    BY <1>4, <1>6 DEF FullLog
  <1>9. Forward
    BY <1>1, <1>3, <1>4, <1>5, ForwardSame, SameCommitted DEF TypeInv, MemoryOK
  <1>10. PICK u \in Led : u >= m.Term /\ SentFrom(m, LogOf(u))
    BY <1>1 DEF AppendRequestInv
  <1>11. /\ u \in Nat /\ u >= currentTerm[i] /\ currentTerm[i] \in Nat
         /\ s \in Nat /\ lastIncludedIndex'[i] = s
    BY <1>1, <1>4, <1>5, <1>10 DEF LogsTyped, TypeInv, MemoryOK
  <1>12. Merged(i, u, e)
    BY <1>1, <1>7, <1>10, <1>11, AcceptedLog
  <1>13. NodeLogOK(i)'
    BY <1>1, <1>2, <1>3, <1>9, <1>11, <1>12, MergedNodeLog
  <1>14. ASSUME m.Term \in Led, SentFrom(m, LogOf(m.Term))
         PROVE  Agree(FullLog(i)', LogOf(m.Term), e)
    <2>1. Merged(i, m.Term, e)
      BY <1>1, <1>5, <1>7, <1>14, AcceptedLog
    <2> QED BY <2>1 DEF Merged
  <1>15. ASSUME NEW a \in Acknowledged(m)
         PROVE  AckOK(a)' /\ NewestAckOK(a)' /\ a.term = m.Term /\ a.node = i
    <2>1. /\ m.Term \in Led /\ SentFrom(m, LogOf(m.Term)) /\ e > s
          /\ a.term = m.Term /\ a.node = i /\ a.index = e
      BY <1>1, AcknowledgedView
    <2>2. Agree(FullLog(i)', LogOf(m.Term), e)
      BY <1>14, <2>1
    <2>3. e > lastIncludedIndex'[i]
      BY <1>11, <2>1
    <2> HIDE DEF e, i
    <2> QED BY <1>1, <1>2, <1>3, <1>4, <1>13, <2>1, <2>2, <2>3, NewAckTrue
  <1>16. NewAcks
    <2> SUFFICES ASSUME NEW a \in acked', a \notin acked PROVE a.term >= currentTerm[a.node]
      BY DEF NewAcks
    <2> QED BY <1>5, <1>15
  <1>17. \A a \in acked' : \/ a \in acked /\ FullLog(a.node)' = FullLog(a.node)
                           \/ AckOK(a)' /\ NewestAckOK(a)'
    <2> SUFFICES ASSUME NEW a \in acked, FullLog(a.node)' # FullLog(a.node)
                 PROVE  AckOK(a)' /\ NewestAckOK(a)'
      BY <1>15
    <2>1. a.node = i
      BY <1>1, <1>8 DEF LogsTyped
    <2> HIDE DEF e, i
    <2> QED BY <1>1, <1>2, <1>3, <1>9, <1>11, <1>12, <1>13, <2>1, MergedAck
  <1>18. DiskInv'
    <2> SUFFICES ASSUME NEW j \in Server
                 PROVE  /\ persister'[j].log = log'[j]
                        /\ persister'[j].currentTerm = currentTerm'[j]
                        /\ persister'[j].lastIncludedTerm = lastIncludedTerm'[j]
                        /\ lastIncludedTerm'[j] = IF lastIncludedIndex'[j] = 0 THEN 0
                                                  ELSE FullLog(j)'[lastIncludedIndex'[j]].Term
      BY DEF DiskInv
    <2>1. CASE j = i
      <3>1. NodeView(j) /\ NodeView(j)'
        BY NodeViews, NodeViewsNext
      <3>2. s > 0 => FullLog(i)'[s] = FullLog(i)[s]
        <4> SUFFICES ASSUME s > 0 PROVE FullLog(i)'[s] = FullLog(i)[s]
          OBVIOUS
        <4>1. s \in 1 .. s
          BY <1>11
        <4>2. persister[i].snapshot[s] = FullLog(i)[s] /\ persister'[i].snapshot[s] = FullLog(i)'[s]
          BY <1>11, <2>1, <3>1, <4>1 DEF NodeView
        <4> QED BY <1>4, <4>2
      <3>3. lastIncludedTerm[i] = IF s = 0 THEN 0 ELSE FullLog(i)[s].Term
        BY <1>1 DEF LogInv, DiskInv
      <3> QED BY <1>4, <1>5, <1>11, <2>1, <3>2, <3>3
    <2>2. CASE j # i
      BY <1>4, <1>5, <1>6, <1>8, <2>2 DEF LogInv, DiskInv
    <2> QED BY <2>1, <2>2
  <1>19. /\ commitIndex[i] <= commitIndex'[i] /\ Decided(m.Term, commitIndex'[i])
         /\ Agree(FullLog(i)', committed, commitIndex'[i])
    BY <1>1, <1>5, <1>6, <1>10, <1>12, MergedCommit
  <1>20. Roles /\ NewCandidates /\ NewBallots
    BY <1>3, <1>4, <1>8 DEF Roles, Candidates, Leaders, NewCandidates, NewBallots
  <1>21. CommitInv'
    <2>1. CommitOK(i)'
      <3>1. Reach(i)' = m.Term
        BY <1>4 DEF Reach
      <3>2. s <= commitIndex[i] /\ commitIndex[i] \in Nat /\ commitIndex'[i] \in Nat
        BY <1>1 DEF LogInv, CommitInv, CommitOK, TypeInv, VolatileOK
      <3>3. lastIncludedIndex'[i] <= commitIndex'[i]
        BY <1>11, <1>19, <3>2
      <3> QED BY <1>1, <1>9, <1>19, <3>1, <3>3, CommitMoved
    <2>2. ASSUME NEW j \in Server, j # i PROVE CommitOK(j)'
      <3>1. CommitOK(j) /\ commitIndex[j] \in Nat
        BY DEF LogInv, CommitInv, TypeInv, VolatileOK
      <3>2. lastIncludedIndex'[j] <= commitIndex'[j] /\ commitIndex'[j] <= commitIndex[j]
        BY <1>5, <1>6, <2>2, <3>1 DEF CommitOK
      <3> QED BY <1>1, <1>8, <1>9, <1>20, <2>2, <3>1, <3>2, CommitFrame DEF Roles
    <2>3. \A c \in captures' : commitIndex[c.src] <= commitIndex'[c.src]
      <3> SUFFICES ASSUME NEW c \in captures PROVE commitIndex[c.src] <= commitIndex'[c.src]
        BY <1>3
      <3>1. c.src \in Server
        BY DEF TypeInv, VolatileOK, Capture
      <3>2. commitIndex[c.src] \in Nat
        BY <3>1 DEF TypeInv, VolatileOK
      <3> QED BY <1>6, <1>19, <3>1, <3>2
    <2> QED BY <1>1, <1>3, <1>9, <2>1, <2>2, <2>3, CommitInvKept
  <1>22. ProgressInv'
    <2> SUFFICES ASSUME NEW j \in Server, NEW k \in Server, state'[j] = "leader"
                 PROVE  ProgressOK(j, k)'
      BY DEF ProgressInv
    <2>1. j # i /\ state[j] = "leader" /\ currentTerm'[j] = currentTerm[j]
      BY <1>4
    <2>2. ProgressOK(j, k) /\ LeadersInv
      BY <2>1 DEF LogInv, ProgressInv
    <2>3. nextIndex'[j][k] = nextIndex[j][k] /\ matchIndex'[j][k] = matchIndex[j][k]
      BY <1>3 DEF leaderVars
    <2> QED BY <1>1, <1>8, <1>9, <2>1, <2>2, <2>3, ProgressFrame
  <1>23. ASSUME m.Term \in Led, SentFrom(m, LogOf(m.Term)), e > 0
         PROVE  Confirmed(m.Term, i, e)'
    <2>1. CASE e > s
      <3>1. PICK a \in Acknowledged(m) : a.term = m.Term /\ a.node = i /\ a.index = e
        BY <1>1, <1>23, <2>1, AcknowledgedView
      <3>2. HasAcked(m.Term, i, e)'
        BY <1>2, <3>1 DEF HasAcked
      <3> QED BY <3>2 DEF Confirmed
    <2>2. CASE ~(e > s)
      <3>1. e <= commitIndex[i] /\ commitIndex[i] \in Nat
        BY <1>1, <1>2, <1>11, <2>2 DEF LogInv, CommitInv, CommitOK, TypeInv, VolatileOK
      <3>2. Decided(currentTerm[i], e)
        BY <1>1, <1>2, <3>1, DecidedNow
      <3>3. Decided(m.Term, e)
        BY <1>1, <1>5, <1>11, <3>2 DEF Decided, LogsTyped
      <3>4. Sure(m.Term, e)
        BY <1>1, <1>2, <1>23, <3>3, DecidedSure
      <3>5. e <= Len(LogOf(m.Term))
        BY <1>23 DEF SentFrom, LastSent
      <3> HIDE DEF e
      <3>6. Sure(m.Term, e)'
        BY <1>1, <1>2, <1>9, <1>23, <3>4, <3>5, SureForward
      <3>7. e <= lastIncludedIndex'[i]
        BY <1>2, <1>11, <2>2
      <3> QED BY <3>6, <3>7 DEF Confirmed
    <2> QED BY <2>1, <2>2
  <1>24. \A x \in BagToSet(net') : x \in BagToSet(net) \/ MessageInv(x)'
    <2>1. BagToSet(net') \subseteq BagToSet(net) \cup {r}
      BY NetReply DEF TypeInv, NetOK
    <2>2. m.Term \in Led /\ SentFrom(m, LogOf(m.Term)) =>
               /\ 0 <= Len(LogOf(m.Term)) + 1
               /\ LastSent(m) > 0 => Confirmed(m.Term, m.callee, LastSent(m))'
      BY <1>1, <1>23 DEF LogsTyped, IsLog
    <2>3. m.Term <= currentTerm'[m.callee]
      BY <1>1, <1>4
    <2>4. ASSUME NEW x, x = r PROVE MessageInv(x)'
      BY <1>1, <1>3, <1>9, <2>2, <2>3, <2>4, AppendReplySound
    <2> HIDE DEF r
    <2> QED BY <2>1, <2>4
  <1>25. \A j \in Server : FullLog(j)' = FullLog(j) \/ NodeLogOK(j)'
    BY <1>8, <1>13
  <1>26. \A j \in Server : state'[j] = "leader" => FullLog(j)' = FullLog(j)
    BY <1>4, <1>8
  <1> HIDE DEF i, e, s, r
  <1> QED BY <1>3, <1>9, <1>16, <1>17, <1>18, <1>20, <1>21, <1>22, <1>24, <1>25, <1>26, OrdinaryStep

LEMMA LogAppendEntries ==
    ASSUME TypeInv, TypeInv', VoteInv, LogInv, NEW m \in BagToSet(net), AppendEntries(m)
    PROVE  LogInv'
  <1> DEFINE i == m.callee
             p == m.PrevLogIndex
             s == lastIncludedIndex[i]
             V == LogOf(m.Term)
  <1>1. /\ m \in AppendEntriesArgs /\ i \in Server /\ m.Term \in Nat /\ p \in Nat
        /\ Len(m.Entries) \in Nat /\ currentTerm[i] \in Nat /\ s \in Nat
        /\ lastLogIndex(i) \in Nat /\ LogsTyped
    <2>1. m \in AppendEntriesArgs /\ i \in Server /\ m.Term \in Nat
      BY MessageKinds, MessageFields DEF TypeInv, NetOK, AppendEntries
    <2>2. p \in Nat /\ Len(m.Entries) \in Nat
      BY <2>1, LenProperties DEF AppendEntriesArgs
    <2> QED BY <2>1, <2>2, LastLogIndexType, LogsAreTyped DEF TypeInv, MemoryOK
  <1>2. ASSUME m.Term \in Led, SentFrom(m, V)
        PROVE  p <= Len(V) /\ Len(V) \in Nat
    <2>1. Len(V) \in Nat
      BY <1>1, <1>2 DEF LogsTyped, IsLog
    <2>2. p + Len(m.Entries) <= Len(V)
      BY <1>2 DEF SentFrom
    <2> HIDE DEF V
    <2> QED BY <1>1, <2>1, <2>2
  <1>3. CASE /\ m.Term < currentTerm[i]
             /\ Reply(m, AppendEntriesReplyTo(m, currentTerm[i], FALSE, -1, 0))
             /\ UNCHANGED <<durableVars, persister, state, commitIndex, acked>>
    <2>1. m.Term \in Led /\ SentFrom(m, V) => 0 <= Len(V) + 1
      BY <1>2
    <2>2. log' = log /\ m.Term <= currentTerm[i]
      BY <1>1, <1>3 DEF durableVars
    <2> HIDE DEF V
    <2> QED BY <1>3, <2>1, <2>2, LogRejectEntries DEF V
  <1>4. CASE Follows(i, m.Term)
    <2>1. CASE /\ p < s /\ UNCHANGED <<log, commitIndex, acked>>
               /\ Reply(m, AppendEntriesReplyTo(m, m.Term, FALSE, -1, s + 1))
      <3>1. ASSUME m.Term \in Led, SentFrom(m, V) PROVE s + 1 <= Len(V) + 1
        <4>1. Agree(V, FullLog(i), s)
          BY <1>1, <1>4, <3>1, LaterLeaderHas DEF Follows
        <4> QED BY <1>1, <1>2, <3>1, <4>1 DEF Agree
      <3> HIDE DEF V, s
      <3> QED BY <1>4, <2>1, <3>1, LogRejectEntries DEF V, s
    <2>2. CASE /\ p > lastLogIndex(i) /\ UNCHANGED <<log, commitIndex, acked>>
               /\ Reply(m, AppendEntriesReplyTo(m, m.Term, FALSE, -1, lastLogIndex(i) + 1))
      <3>1. m.Term \in Led /\ SentFrom(m, V) => lastLogIndex(i) + 1 <= Len(V) + 1
        BY <1>1, <1>2, <2>2
      <3> HIDE DEF V
      <3> QED BY <1>4, <2>2, <3>1, LogRejectEntries DEF V
    <2>3. CASE /\ p \in s .. lastLogIndex(i) /\ UNCHANGED <<log, commitIndex, acked>>
               /\ Reply(m, AppendEntriesReplyTo(m, m.Term, FALSE, logTerm(i, p),
                                                conflictStart(i, p)))
      <3> DEFINE run == {k \in (s + 1) .. p : \A l \in k .. p : logTerm(i, l) = logTerm(i, p)}
      <3>1. conflictStart(i, p) \in Nat /\ conflictStart(i, p) <= p
        <4>1. conflictStart(i, p) = IF run = {} THEN p ELSE Min(run)
          BY DEF conflictStart
        <4>2. run \subseteq Nat /\ \A k \in run : k <= p
          BY <1>1
        <4> HIDE DEF run
        <4>3. run # {} => Min(run) \in run
          BY <4>2, MinInSet
        <4> QED BY <1>1, <4>1, <4>2, <4>3
      <3>2. m.Term \in Led /\ SentFrom(m, V) => conflictStart(i, p) <= Len(V) + 1
        BY <1>1, <1>2, <3>1
      <3> HIDE DEF V
      <3> QED BY <1>4, <2>3, <3>2, LogRejectEntries DEF V
    <2>4. CASE /\ p \in s .. lastLogIndex(i) /\ logTerm(i, p) = m.PrevLogTerm
               /\ log' = [log EXCEPT ![i] = mergedLog(i, p, m.Entries)]
               /\ commitIndex' = [commitIndex EXCEPT ![i] = commitAfter(i, m)]
               /\ acked' = acked \cup Acknowledged(m)
               /\ Reply(m, AppendEntriesReplyTo(m, m.Term, TRUE, -1, 0))
      BY <1>4, <2>4, LogAcceptEntries
    <2>5. ~(m.Term < currentTerm[i])
      BY <1>1, <1>4 DEF Follows
    <2> HIDE DEF V
    <2> QED BY <2>1, <2>2, <2>3, <2>4, <2>5 DEF AppendEntries
  <1> QED BY <1>3, <1>4 DEF AppendEntries, Follows

-----------------------------------------------------------------------------
(* InstallSnapshot, the follower's side *)

\* The node has the snapshot, and behind it what it had there.
Installed(i, data, idx) ==
    /\ idx <= Len(FullLog(i)') /\ Len(FullLog(i)) <= Len(FullLog(i)')
    /\ Len(FullLog(i)') > idx => Len(FullLog(i)') = Len(FullLog(i))
    /\ \A k \in 1 .. idx : FullLog(i)'[k] = data[k]
    /\ \A k \in (idx + 1) .. Len(FullLog(i)') : FullLog(i)'[k] = FullLog(i)[k]

LEMMA InstalledView ==
    ASSUME TypeInv, TypeInv', NEW i \in Server, NEW data, NEW idx \in Nat,
           idx > lastIncludedIndex[i], lastIncludedIndex'[i] = idx,
           persister'[i].snapshot = data,
           log'[i] = IF idx <= lastLogIndex(i) THEN logAfter(i, idx) ELSE <<>>
    PROVE  Installed(i, data, idx)
  <1> DEFINE n == lastLogIndex(i)
  <1>1. /\ NodeView(i)' /\ n \in Nat /\ Len(FullLog(i)) = n /\ lastIncludedIndex[i] \in Nat
        /\ Len(FullLog(i)') \in Nat
    BY NodeViewsNext, LastLogIndexType, FullLogType, FullLogNextType, LenProperties
       DEF TypeInv, MemoryOK
  <1>2. /\ idx <= Len(FullLog(i)') /\ Len(log'[i]) = Len(FullLog(i)') - idx
        /\ \A k \in 1 .. idx : FullLog(i)'[k] = data[k]
        /\ \A k \in 1 .. Len(log'[i]) : log'[i][k] = FullLog(i)'[idx + k]
    BY <1>1 DEF NodeView
  <1>3. CASE idx <= n
    <2>1. idx \in lastIncludedIndex[i] .. lastLogIndex(i)
      BY <1>1, <1>3
    <2>2. /\ Len(logAfter(i, idx)) = n - idx
          /\ \A l \in 1 .. Len(logAfter(i, idx)) : logAfter(i, idx)[l] = FullLog(i)[idx + l]
      BY <2>1, LogAfterView
    <2>3. log'[i] = logAfter(i, idx)
      BY <1>3
    <2>4. Len(FullLog(i)') = n
      BY <1>1, <1>2, <2>2, <2>3
    <2>5. ASSUME NEW k \in (idx + 1) .. Len(FullLog(i)') PROVE FullLog(i)'[k] = FullLog(i)[k]
      <3> DEFINE l == k - idx
      <3>1. l \in 1 .. Len(log'[i]) /\ idx + l = k
        BY <1>1, <1>2, <2>4
      <3> HIDE DEF l
      <3>2. log'[i][l] = FullLog(i)'[idx + l] /\ log'[i][l] = FullLog(i)[idx + l]
        BY <1>2, <2>2, <2>3, <3>1
      <3> QED BY <3>1, <3>2
    <2> QED BY <1>1, <1>2, <1>3, <2>4, <2>5 DEF Installed
  <1>4. CASE idx > n
    <2>1. log'[i] = <<>>
      BY <1>1, <1>4
    <2>2. Len(log'[i]) = 0
      BY <2>1
    <2>3. Len(FullLog(i)') = idx
      BY <1>1, <1>2, <2>2
    <2> QED BY <1>1, <1>2, <1>4, <2>3 DEF Installed
  <1> QED BY <1>1, <1>3, <1>4

\* The snapshot replaces entries of the node only where a later leader has others.
LEMMA InstalledAck ==
    ASSUME TypeInv, TypeInv', LogInv, LogsTyped, LogsTyped', Forward, leaderLogs' = leaderLogs,
           NEW i \in Server, NEW u \in Led, u >= currentTerm[i], NEW data, NEW idx \in Nat,
           idx >= 1, Agree(data, LogOf(u), idx), Installed(i, data, idx),
           NEW a \in acked, a.node = i
    PROVE  AckOK(a)' /\ NewestAckOK(a)'
  <1> DEFINE t == a.term
             F == FullLog(i)
  <1>1. /\ t \in Led /\ t \in Nat /\ a.index \in Nat /\ a.index <= Len(LogOf(t))
        /\ t <= currentTerm[i] /\ currentTerm[i] \in Nat /\ u \in Nat /\ t <= u
        /\ currentTerm'[i] \in Nat /\ currentTerm[i] <= currentTerm'[i] /\ AckOK(a)
    BY DEF LogInv, AckInv, AckOK, LogsTyped, TypeInv, MemoryOK, Forward
  <1>2. /\ Len(F) \in Nat /\ Len(FullLog(i)') \in Nat /\ Len(LogOf(t)) \in Nat
        /\ Len(LogOf(u)) \in Nat /\ idx <= Len(LogOf(u))
    BY <1>1 DEF LogsTyped, IsLog, Agree
  <1>3. \A k \in 1 .. idx : FullLog(i)'[k] = LogOf(u)[k]
    BY DEF Installed, Agree
  <1>4. ASSUME NEW n \in Nat, Agree(F, LogOf(t), n),
               \A k \in 1 .. n : k <= idx => LogOf(u)[k] = LogOf(t)[k]
        PROVE  Agree(FullLog(i)', LogOf(t), n)
    <2>1. n <= Len(FullLog(i)') /\ n <= Len(LogOf(t))
      BY <1>2, <1>4 DEF Installed, Agree
    <2>2. ASSUME NEW k \in 1 .. n PROVE FullLog(i)'[k] = LogOf(t)[k]
      <3>1. CASE k <= idx
        BY <1>3, <1>4, <3>1
      <3>2. CASE k > idx
        <4>1. k \in (idx + 1) .. Len(FullLog(i)')
          BY <1>2, <2>1, <3>2
        <4> QED BY <1>4, <4>1 DEF Installed, Agree
      <3> QED BY <3>1, <3>2
    <2> QED BY <2>1, <2>2 DEF Agree
  <1>5. ASSUME NEW n \in 1 .. a.index, Own(t, n)
        PROVE  (Agree(FullLog(i)', LogOf(t), n) /\ LastTerm(FullLog(i)') >= t) \/ Lacking(t, n)
    <2>0. n \in Nat /\ n >= 1 /\ LogOf(t)[n].Term = t
      BY <1>1, <1>5 DEF Own
    <2>1. Holds(F, t, n) \/ Lacking(t, n)
      BY <1>1, <1>5 DEF AckOK
    <2>2. CASE Holds(F, t, n) /\ \A k \in 1 .. n : k <= idx => LogOf(u)[k] = LogOf(t)[k]
      <3>1. Agree(FullLog(i)', LogOf(t), n)
        BY <1>4, <2>0, <2>2 DEF Holds
      <3>2. CASE Len(FullLog(i)') > idx
        <4>1. Len(FullLog(i)') = Len(F) /\ Len(F) \in (idx + 1) .. Len(FullLog(i)') /\ Len(F) # 0
          BY <1>2, <3>2 DEF Installed
        <4>2. FullLog(i)'[Len(F)] = F[Len(F)]
          BY <4>1 DEF Installed
        <4>3. LastTerm(FullLog(i)') = LastTerm(F)
          BY <4>1, <4>2 DEF LastTerm
        <4> QED BY <2>2, <3>1, <4>3 DEF Holds
      <3>3. CASE ~(Len(FullLog(i)') > idx)
        <4>1. Len(FullLog(i)') = idx /\ n \in 1 .. idx /\ idx \in 1 .. Len(LogOf(u))
          BY <1>2, <2>0, <3>1, <3>3 DEF Installed, Agree
        <4>2. LastTerm(FullLog(i)') = LogOf(u)[idx].Term
          BY <1>3, <4>1 DEF LastTerm
        <4>3. LogOf(u)[n].Term <= LogOf(u)[idx].Term
          BY <4>1, TermsGrow
        <4>4. LogOf(u)[n].Term = t
          <5>1. n \in 1 .. n /\ n <= idx
            BY <2>0, <4>1
          <5> QED BY <2>0, <2>2, <5>1
        <4>5. LogOf(u)[idx].Term \in Nat
          BY <4>1 DEF LogsTyped, IsLog
        <4> QED BY <1>1, <3>1, <4>2, <4>3, <4>4, <4>5
      <3> QED BY <3>2, <3>3
    <2>3. CASE \E k \in 1 .. n : k <= idx /\ LogOf(u)[k] # LogOf(t)[k]
      <3>1. u # t /\ ~Agree(LogOf(u), LogOf(t), n)
        BY <2>3 DEF Agree
      <3> QED BY <1>1, <3>1 DEF Lacking
    <2> QED BY <2>1, <2>2, <2>3
  <1>6. AckOK(a)'
    <2>1. ASSUME NEW n \in 1 .. a.index, Own(a.term, n)'
          PROVE  Holds(FullLog(a.node), a.term, n)' \/ Lacking(a.term, n)'
      BY <1>5, <2>1, SameLeaders DEF Holds
    <2>2. a.term \in Led' /\ a.index <= Len(LogOf(a.term)')
      BY <1>1, SameLeaders
    <2>3. a.term <= currentTerm'[a.node]
      BY <1>1
    <2> QED BY <2>1, <2>2, <2>3 DEF AckOK
  <1>7. NewestAckOK(a)'
    <2>1. CASE \E w \in Led : w > t
      BY <2>1, SameLeaders DEF NewestAckOK
    <2>2. CASE ~(\E w \in Led : w > t)
      <3>1. Agree(F, LogOf(t), a.index)
        BY <2>2 DEF LogInv, NewestAckInv, NewestAckOK
      <3>2. u = t
        BY <1>1, <2>2
      <3>3. Agree(FullLog(i)', LogOf(t), a.index)
        BY <1>1, <1>4, <3>1, <3>2
      <3> QED BY <3>3, SameLeaders DEF NewestAckOK
    <2> QED BY <2>1, <2>2
  <1> QED BY <1>6, <1>7

LEMMA InstalledNodeLog ==
    ASSUME TypeInv, TypeInv', LogInv, LogsTyped, LogsTyped', leaderLogs' = leaderLogs,
           NEW i \in Server, NEW data, NEW idx \in Nat, idx > lastIncludedIndex[i],
           lastIncludedIndex'[i] = idx, Installed(i, data, idx)
    PROVE  NodeLogOK(i)'
  <1>1. /\ lastIncludedIndex[i] \in Nat /\ Len(FullLog(i)) \in Nat /\ Len(FullLog(i)') \in Nat
    BY DEF TypeInv, MemoryOK, LogsTyped, IsLog
  <1> SUFFICES ASSUME NEW k \in (idx + 1) .. Len(FullLog(i)'),
                      NEW w, w = FullLog(i)'[k].Term
               PROVE  /\ w \in Led
                      /\ k <= Len(LogOf(w))
                      /\ \A l \in (idx + 1) .. k : FullLog(i)'[l] = LogOf(w)[l]
    BY SameLeaders DEF NodeLogOK
  <1>2. k \in (lastIncludedIndex[i] + 1) .. Len(FullLog(i)) /\ FullLog(i)'[k] = FullLog(i)[k]
    BY <1>1 DEF Installed
  <1>3. /\ w \in Led /\ k <= Len(LogOf(w))
        /\ \A l \in (lastIncludedIndex[i] + 1) .. k : FullLog(i)[l] = LogOf(w)[l]
    BY <1>2 DEF LogInv, NodeLogInv, NodeLogOK
  <1>4. ASSUME NEW l \in (idx + 1) .. k PROVE FullLog(i)'[l] = LogOf(w)[l]
    <2>1. l \in (idx + 1) .. Len(FullLog(i)') /\ l \in (lastIncludedIndex[i] + 1) .. k
      BY <1>1
    <2> QED BY <1>3, <2>1 DEF Installed
  <1> QED BY <1>3, <1>4

\* What the handler of a snapshot answers: the sender counts it as replicated only when
\* the node was not ahead of its term, and then the node has the snapshot.
LEMMA SnapshotReplySound ==
    ASSUME TypeInv, TypeInv', LogInv, LogsTyped, LogsTyped', Forward, leaderLogs' = leaderLogs,
           NEW m \in InstallSnapshotArgs, SnapshotRequestInv(m), m.Term <= currentTerm'[m.callee],
           currentTerm[m.callee] <= m.Term => m.LastIncludedIndex <= lastIncludedIndex'[m.callee],
           NEW r, r.kind = "InstallSnapshotReply", r.callee = m.callee, r.term = m.Term,
           r.lastIncludedIndex = m.LastIncludedIndex, r.Term = currentTerm[m.callee]
    PROVE  MessageInv(r)'
  <1> DEFINE n == m.LastIncludedIndex
  <1>1. n \in Nat /\ m.Term \in Nat /\ m.callee \in Server /\ m.kind = "InstallSnapshot"
    BY DEF InstallSnapshotArgs
  <1>2. m.Term \in Led /\ Agree(m.Data, LogOf(m.Term), n) /\ Decided(m.Term, n)
    BY <1>1 DEF SnapshotRequestInv
  <1>3. n <= Len(LogOf(m.Term))
    BY <1>2 DEF Agree
  <1>4. Sure(m.Term, n)
    BY <1>1, <1>2, DecidedSure
  <1>5. Sure(m.Term, n)'
    BY <1>1, <1>2, <1>3, <1>4, SureForward
  <1>6. currentTerm[m.callee] <= m.Term => Confirmed(m.Term, m.callee, n)'
    BY <1>5 DEF Confirmed
  <1>7. SnapshotReplyInv(r)'
    <2>1. m.Term \in Led' /\ n <= Len(LogOf(m.Term)')
      BY <1>2, <1>3, SameLeaders
    <2>2. r.Term <= r.term => Confirmed(r.term, r.callee, r.lastIncludedIndex)'
      BY <1>6
    <2> QED BY <2>1, <2>2 DEF SnapshotReplyInv
  <1> QED BY <1>7 DEF MessageInv, VoteRequestInv, AppendRequestInv, AppendReplyInv,
                      SnapshotRequestInv

\* The path that raises the term in memory only is not taken: a leader that has not heard
\* from a node of an earlier term sends it no snapshot without an entry of its own term.
LEMMA OutdatedSameTerm ==
    ASSUME TypeInv, LogInv, LogsTyped, NEW m \in InstallSnapshotArgs, SnapshotRequestInv(m),
           m.Term >= currentTerm[m.callee], m.LastIncludedIndex <= lastIncludedIndex[m.callee]
    PROVE  m.Term = currentTerm[m.callee]
  <1> DEFINE i == m.callee
             n == m.LastIncludedIndex
             s == lastIncludedIndex[i]
  <1>1. /\ n \in Nat /\ m.Term \in Nat /\ i \in Server /\ m.kind = "InstallSnapshot"
        /\ currentTerm[i] \in Nat /\ s \in Nat
    BY DEF InstallSnapshotArgs, TypeInv, MemoryOK
  <1> SUFFICES ASSUME currentTerm[i] < m.Term PROVE FALSE
    BY <1>1
  <1>2. n >= 1 /\ m.Term \in Led /\ LogOf(m.Term)[n].Term = m.Term
    BY <1>1 DEF SnapshotRequestInv
  <1>3. Agree(LogOf(m.Term), FullLog(i), s)
    BY <1>1, <1>2, LaterLeaderHas
  <1>4. s > 0
    BY <1>1, <1>2
  <1>5. PICK t \in Led : \E k \in s .. Len(LogOf(t)) :
              /\ t <= Reach(i) /\ Chosen(t, k) /\ Agree(FullLog(i), LogOf(t), s)
    BY <1>1, <1>4, SnapshotChosen
  <1>6. /\ t \in Nat /\ t <= currentTerm[i] /\ s <= Len(LogOf(t)) /\ Len(LogOf(t)) \in Nat
        /\ Agree(FullLog(i), LogOf(t), s)
    <2>1. Reach(i) \in Int /\ Reach(i) <= currentTerm[i]
      BY <1>1, ReachType
    <2> QED BY <1>1, <1>5, <2>1 DEF LogsTyped, IsLog, Agree
  <1>7. n \in 1 .. s /\ n \in 1 .. Len(LogOf(t))
    BY <1>1, <1>2, <1>6
  <1>8. LogOf(t)[n].Term = m.Term
    BY <1>2, <1>3, <1>6, <1>7 DEF Agree
  <1>9. LogOf(t)[n].Term <= t
    BY <1>7 DEF LogInv, LeaderLogInv
  <1> QED BY <1>1, <1>6, <1>8, <1>9

LEMMA LogKeepSnapshot ==
    ASSUME TypeInv, TypeInv', VoteInv, LogInv, NEW m \in BagToSet(net), InstallSnapshot(m),
           UNCHANGED <<currentTerm, log, lastIncludedIndex, lastIncludedTerm, persister, commitIndex>>,
           \/ state' = state /\ m.Term < currentTerm[m.callee]
           \/ /\ state' = [state EXCEPT ![m.callee] = "follower"]
              /\ m.Term = currentTerm[m.callee]
              /\ m.LastIncludedIndex <= lastIncludedIndex[m.callee]
    PROVE  LogInv'
  <1> DEFINE i == m.callee
             r == [kind |-> "InstallSnapshotReply", caller |-> m.caller, callee |-> i,
                   inc |-> m.inc, term |-> m.Term,
                   lastIncludedIndex |-> m.LastIncludedIndex, Term |-> currentTerm[i]]
  <1>1. /\ m \in InstallSnapshotArgs /\ i \in Server /\ m.Term \in Nat
        /\ SnapshotRequestInv(m) /\ LogsTyped /\ LogsTyped' /\ currentTerm[i] \in Nat
    BY MessageKinds, MessageFields, LogsAreTyped, LogsAreTypedNext
       DEF TypeInv, NetOK, LogInv, NetInv, MessageInv, InstallSnapshot, MemoryOK
  <1>2. /\ UNCHANGED <<leaderLogs, elected, acked, committed, leaderVars, captures, ballots>>
        /\ Reply(m, r)
    BY DEF InstallSnapshot, taskVars, histVars
  <1>3. DiskInv' /\ \A j \in Server : FullLog(j)' = FullLog(j)
    BY DEF LogInv, DiskInv, FullLog
  <1>4. \A j \in Server : currentTerm[j] <= currentTerm'[j]
    BY DEF TypeInv, MemoryOK
  <1>5. \A j \in Server : state'[j] = state[j] \/ state'[j] = "follower"
    BY <1>1 DEF TypeInv, VolatileOK
  <1>6. Roles /\ NewCandidates /\ NewBallots
    BY <1>2, <1>3, <1>5 DEF Roles, Candidates, Leaders, NewCandidates, NewBallots
  <1>7. Forward
    BY <1>1, <1>2, <1>4, ForwardSame, SameCommitted DEF TypeInv, MemoryOK
  <1>8. \A x \in BagToSet(net') : x \in BagToSet(net) \/ MessageInv(x)'
    <2>1. /\ r.kind = "InstallSnapshotReply" /\ r.callee = m.callee /\ r.term = m.Term
          /\ r.lastIncludedIndex = m.LastIncludedIndex /\ r.Term = currentTerm[m.callee]
      OBVIOUS
    <2> HIDE DEF r
    <2>2. BagToSet(net') \subseteq BagToSet(net) \cup {r}
      BY <1>2, NetReply DEF TypeInv, NetOK
    <2>3. m.Term <= currentTerm'[m.callee]
      BY <1>1
    <2>4. currentTerm[m.callee] <= m.Term => m.LastIncludedIndex <= lastIncludedIndex'[m.callee]
      BY <1>1
    <2>5. ASSUME NEW x, x = r PROVE MessageInv(x)'
      BY <1>1, <1>2, <1>7, <2>1, <2>3, <2>4, <2>5, SnapshotReplySound
    <2> QED BY <2>2, <2>5
  <1> QED BY <1>2, <1>3, <1>4, <1>6, <1>8, QuietLogStep DEF leaderVars

LEMMA LogTakeSnapshot ==
    ASSUME TypeInv, TypeInv', VoteInv, LogInv, NEW m \in BagToSet(net), InstallSnapshot(m),
           m.Term >= currentTerm[m.callee], m.LastIncludedIndex > lastIncludedIndex[m.callee],
           currentTerm' = [currentTerm EXCEPT ![m.callee] = m.Term],
           state' = [state EXCEPT ![m.callee] = "follower"],
           log' = [log EXCEPT ![m.callee] = IF m.LastIncludedIndex <= lastLogIndex(m.callee)
                                            THEN logAfter(m.callee, m.LastIncludedIndex)
                                            ELSE <<>>],
           lastIncludedIndex' = [lastIncludedIndex EXCEPT ![m.callee] = m.LastIncludedIndex],
           lastIncludedTerm' = [lastIncludedTerm EXCEPT ![m.callee] = m.LastIncludedTerm],
           commitIndex' = [commitIndex EXCEPT ![m.callee] = Max({@, m.LastIncludedIndex})],
           persistWithSnapshot(m.callee, m.Data)
    PROVE  LogInv'
  <1> DEFINE i == m.callee
             n == m.LastIncludedIndex
             u == m.Term
             r == [kind |-> "InstallSnapshotReply", caller |-> m.caller, callee |-> i,
                   inc |-> m.inc, term |-> m.Term,
                   lastIncludedIndex |-> m.LastIncludedIndex, Term |-> currentTerm[i]]
  <1>1. /\ m \in InstallSnapshotArgs /\ i \in Server /\ u \in Nat /\ n \in Nat
        /\ SnapshotRequestInv(m) /\ LogsTyped /\ LogsTyped' /\ m.kind = "InstallSnapshot"
        /\ currentTerm[i] \in Nat /\ commitIndex[i] \in Nat
    <2>1. /\ m \in InstallSnapshotArgs /\ SnapshotRequestInv(m)
      BY MessageKinds DEF TypeInv, NetOK, LogInv, NetInv, MessageInv, InstallSnapshot
    <2>2. i \in Server /\ u \in Nat /\ n \in Nat /\ m.kind = "InstallSnapshot"
      BY <2>1 DEF InstallSnapshotArgs
    <2> QED BY <2>1, <2>2, LogsAreTyped, LogsAreTypedNext DEF TypeInv, MemoryOK, VolatileOK
  <1>2. /\ UNCHANGED <<leaderLogs, elected, acked, committed, leaderVars, captures, ballots>>
        /\ Reply(m, r)
    BY DEF InstallSnapshot, taskVars, histVars
  <1>3. /\ n >= 1 /\ u \in Led /\ Agree(m.Data, LogOf(u), n) /\ Agree(m.Data, committed, n)
        /\ m.LastIncludedTerm = m.Data[n].Term /\ Decided(u, n)
    BY <1>1 DEF SnapshotRequestInv
  <1>4. /\ state'[i] = "follower" /\ currentTerm'[i] = u
        /\ lastIncludedIndex'[i] = n /\ lastIncludedTerm'[i] = m.LastIncludedTerm
        /\ commitIndex'[i] = Max({commitIndex[i], n})
        /\ log'[i] = IF n <= lastLogIndex(i) THEN logAfter(i, n) ELSE <<>>
        /\ \A j \in Server : j # i =>
              /\ state'[j] = state[j] /\ currentTerm'[j] = currentTerm[j] /\ log'[j] = log[j]
              /\ lastIncludedIndex'[j] = lastIncludedIndex[j]
              /\ lastIncludedTerm'[j] = lastIncludedTerm[j] /\ commitIndex'[j] = commitIndex[j]
    BY <1>1 DEF TypeInv, MemoryOK, VolatileOK
  <1>5. /\ persister'[i] = DiskState(i, m.Data)
        /\ \A j \in Server : j # i => persister'[j] = persister[j]
    BY <1>1 DEF persistWithSnapshot, TypeInv, DiskOK
  <1>6. /\ persister'[i].snapshot = m.Data /\ persister'[i].log = log'[i]
        /\ persister'[i].currentTerm = currentTerm'[i]
        /\ persister'[i].lastIncludedTerm = lastIncludedTerm'[i]
    BY <1>5 DEF DiskState
  <1>7. \A j \in Server : j # i => FullLog(j)' = FullLog(j)
    BY <1>4, <1>5 DEF FullLog
  <1>8. Installed(i, m.Data, n)
    BY <1>1, <1>4, <1>6, InstalledView
  <1>9. ASSUME NEW j \in Server
        PROVE  currentTerm[j] <= currentTerm'[j] /\ lastIncludedIndex[j] <= lastIncludedIndex'[j]
    <2>1. currentTerm[j] \in Nat /\ lastIncludedIndex[j] \in Nat
      BY DEF TypeInv, MemoryOK
    <2>2. CASE j = i
      BY <1>1, <1>4, <2>1, <2>2
    <2>3. CASE j # i
      BY <1>4, <2>1, <2>3
    <2> QED BY <2>2, <2>3
  <1>10. Forward
    BY <1>1, <1>2, <1>9, ForwardSame, SameCommitted
  <1>11. Roles /\ NewCandidates /\ NewBallots /\ NewAcks
    BY <1>2, <1>4, <1>7 DEF Roles, Candidates, Leaders, NewCandidates, NewBallots, NewAcks
  <1>12. NodeLogOK(i)'
    BY <1>1, <1>2, <1>4, <1>8, InstalledNodeLog
  <1>13. \A a \in acked' : \/ a \in acked /\ FullLog(a.node)' = FullLog(a.node)
                           \/ AckOK(a)' /\ NewestAckOK(a)'
    <2> SUFFICES ASSUME NEW a \in acked, FullLog(a.node)' # FullLog(a.node)
                 PROVE  AckOK(a)' /\ NewestAckOK(a)'
      BY <1>2
    <2>1. a.node = i
      BY <1>1, <1>7 DEF LogsTyped
    <2> HIDE DEF i, n, u
    <2>2. u >= currentTerm[i]
      BY DEF i, u
    <2> QED BY <1>1, <1>2, <1>3, <1>8, <1>10, <2>1, <2>2, InstalledAck
  <1>14. DiskInv'
    <2> SUFFICES ASSUME NEW j \in Server
                 PROVE  /\ persister'[j].log = log'[j]
                        /\ persister'[j].currentTerm = currentTerm'[j]
                        /\ persister'[j].lastIncludedTerm = lastIncludedTerm'[j]
                        /\ lastIncludedTerm'[j] = IF lastIncludedIndex'[j] = 0 THEN 0
                                                  ELSE FullLog(j)'[lastIncludedIndex'[j]].Term
      BY DEF DiskInv
    <2>1. CASE j = i
      <3>1. FullLog(i)'[n] = m.Data[n] /\ n # 0
        BY <1>1, <1>3, <1>8 DEF Installed
      <3> QED BY <1>3, <1>4, <1>6, <2>1, <3>1
    <2>2. CASE j # i
      BY <1>4, <1>5, <1>7, <2>2 DEF LogInv, DiskInv
    <2> QED BY <2>1, <2>2
  <1>15. /\ commitIndex'[i] \in Nat /\ commitIndex[i] <= commitIndex'[i] /\ n <= commitIndex'[i]
         /\ commitIndex'[i] = commitIndex[i] \/ commitIndex'[i] = n
    <2> DEFINE c == commitIndex[i]
    <2>1. Max({c, n}) \in Nat /\ c <= Max({c, n}) /\ n <= Max({c, n}) /\ Max({c, n}) \in {c, n}
      BY <1>1, MaxOfPair
    <2> QED BY <1>4, <2>1
  <1>16. Decided(u, commitIndex'[i]) /\ Agree(FullLog(i)', committed, commitIndex'[i])
    <2>1. Agree(FullLog(i)', committed, n)
      BY <1>1, <1>3, <1>8 DEF Installed, Agree
    <2>2. CASE commitIndex'[i] = n
      BY <1>3, <2>1, <2>2
    <2>3. CASE commitIndex'[i] = commitIndex[i]
      <3> DEFINE c == commitIndex[i]
      <3>1. Decided(currentTerm[i], c)
        BY <1>1, DecidedNow
      <3>2. Decided(u, c)
        BY <1>1, <3>1 DEF Decided, LogsTyped
      <3>3. Agree(FullLog(i), committed, c)
        BY <1>1 DEF LogInv, CommitInv, CommitOK
      <3>4. Len(FullLog(i)) \in Nat /\ Len(FullLog(i)') \in Nat
        BY <1>1 DEF LogsTyped, IsLog
      <3>5. c <= Len(FullLog(i)') /\ c <= Len(committed)
        BY <1>1, <1>8, <3>3, <3>4 DEF Installed, Agree
      <3>6. ASSUME NEW k \in 1 .. c PROVE FullLog(i)'[k] = committed[k]
        <4>1. CASE k <= n
          BY <1>1, <2>1, <4>1 DEF Agree
        <4>2. CASE k > n
          <5>1. k \in (n + 1) .. Len(FullLog(i)')
            BY <1>1, <3>4, <3>5, <4>2
          <5> QED BY <1>8, <3>3, <5>1 DEF Installed, Agree
        <4> QED BY <1>1, <4>1, <4>2
      <3> QED BY <2>3, <3>2, <3>5, <3>6 DEF Agree
    <2> QED BY <1>15, <2>2, <2>3
  <1>17. CommitInv'
    <2>1. CommitOK(i)'
      <3>1. u \in Int /\ u <= Reach(i)'
        BY <1>1, <1>4 DEF Reach
      <3>2. lastIncludedIndex'[i] <= commitIndex'[i]
        BY <1>4, <1>15
      <3> HIDE DEF i, n, u
      <3> QED BY <1>1, <1>10, <1>16, <3>1, <3>2, CommitMoved
    <2>2. ASSUME NEW j \in Server, j # i PROVE CommitOK(j)'
      <3>1. CommitOK(j) /\ commitIndex[j] \in Nat
        BY DEF LogInv, CommitInv, TypeInv, VolatileOK
      <3>2. lastIncludedIndex'[j] <= commitIndex'[j] /\ commitIndex'[j] <= commitIndex[j]
        BY <1>4, <2>2, <3>1 DEF CommitOK
      <3> QED BY <1>1, <1>7, <1>10, <1>11, <2>2, <3>1, <3>2, CommitFrame DEF Roles
    <2>3. \A c \in captures' : commitIndex[c.src] <= commitIndex'[c.src]
      <3> SUFFICES ASSUME NEW c \in captures PROVE commitIndex[c.src] <= commitIndex'[c.src]
        BY <1>2
      <3>1. c.src \in Server
        BY DEF TypeInv, VolatileOK, Capture
      <3>2. commitIndex[c.src] \in Nat
        BY <3>1 DEF TypeInv, VolatileOK
      <3> QED BY <1>4, <1>15, <3>1, <3>2
    <2> QED BY <1>1, <1>2, <1>10, <2>1, <2>2, <2>3, CommitInvKept
  <1>18. ProgressInv'
    <2> SUFFICES ASSUME NEW j \in Server, NEW k \in Server, state'[j] = "leader"
                 PROVE  ProgressOK(j, k)'
      BY DEF ProgressInv
    <2>1. j # i /\ state[j] = "leader" /\ currentTerm'[j] = currentTerm[j]
      BY <1>4
    <2>2. ProgressOK(j, k) /\ LeadersInv
      BY <2>1 DEF LogInv, ProgressInv
    <2>3. nextIndex'[j][k] = nextIndex[j][k] /\ matchIndex'[j][k] = matchIndex[j][k]
      BY <1>2 DEF leaderVars
    <2> QED BY <1>1, <1>7, <1>10, <2>1, <2>2, <2>3, ProgressFrame
  <1>19. \A x \in BagToSet(net') : x \in BagToSet(net) \/ MessageInv(x)'
    <2>1. /\ r.kind = "InstallSnapshotReply" /\ r.callee = m.callee /\ r.term = m.Term
          /\ r.lastIncludedIndex = m.LastIncludedIndex /\ r.Term = currentTerm[m.callee]
      OBVIOUS
    <2> HIDE DEF r
    <2>2. BagToSet(net') \subseteq BagToSet(net) \cup {r}
      BY <1>2, NetReply DEF TypeInv, NetOK
    <2>3. m.Term <= currentTerm'[m.callee] /\ m.LastIncludedIndex <= lastIncludedIndex'[m.callee]
      BY <1>1, <1>4
    <2>4. ASSUME NEW x, x = r PROVE MessageInv(x)'
      BY <1>1, <1>2, <1>10, <2>1, <2>3, <2>4, SnapshotReplySound
    <2> QED BY <2>2, <2>4
  <1>20. \A j \in Server : /\ FullLog(j)' = FullLog(j) \/ NodeLogOK(j)'
                           /\ state'[j] = "leader" => FullLog(j)' = FullLog(j)
    BY <1>4, <1>7, <1>12
  <1> HIDE DEF i, n, u, r
  <1> QED BY <1>2, <1>10, <1>11, <1>13, <1>14, <1>17, <1>18, <1>19, <1>20, OrdinaryStep

LEMMA LogInstallSnapshot ==
    ASSUME TypeInv, TypeInv', VoteInv, LogInv, NEW m \in BagToSet(net), InstallSnapshot(m)
    PROVE  LogInv'
  <1> DEFINE i == m.callee
  <1>1. /\ m \in InstallSnapshotArgs /\ SnapshotRequestInv(m) /\ LogsTyped
        /\ i \in Server /\ m.Term \in Nat /\ currentTerm[i] \in Nat
    BY MessageKinds, MessageFields, LogsAreTyped
       DEF TypeInv, NetOK, LogInv, NetInv, MessageInv, InstallSnapshot, MemoryOK
  <1>2. CASE m.Term < currentTerm[i] /\ UNCHANGED <<durableVars, persister, state, commitIndex>>
    BY <1>2, LogKeepSnapshot DEF durableVars
  <1>3. CASE /\ m.Term >= currentTerm[i]
             /\ currentTerm' = [currentTerm EXCEPT ![i] = m.Term]
             /\ state' = [state EXCEPT ![i] = "follower"]
             /\ m.LastIncludedIndex <= lastIncludedIndex[i]
             /\ UNCHANGED <<log, lastIncludedIndex, lastIncludedTerm, persister, commitIndex>>
    <2>1. m.Term = currentTerm[i]
      BY <1>1, <1>3, OutdatedSameTerm
    <2>2. currentTerm' = currentTerm
      BY <1>1, <1>3, <2>1 DEF TypeInv, MemoryOK
    <2> QED BY <1>3, <2>1, <2>2, LogKeepSnapshot
  <1>4. CASE m.Term >= currentTerm[i] /\ m.LastIncludedIndex > lastIncludedIndex[i]
    <2>1. ~(m.Term < currentTerm[i]) /\ ~(m.LastIncludedIndex <= lastIncludedIndex[i])
      BY SMTT(60), <1>1, <1>4 DEF InstallSnapshotArgs, TypeInv, MemoryOK
    <2> QED BY <1>4, <2>1, LogTakeSnapshot DEF InstallSnapshot
  <1> QED BY <1>2, <1>3, <1>4 DEF InstallSnapshot

-----------------------------------------------------------------------------
(* The invariant holds throughout *)

LEMMA InitLogInv == Init => LogInv
  <1> SUFFICES ASSUME Init PROVE LogInv
    OBVIOUS
  <1>1. BagToSet(net) = {} /\ captures = {} /\ acked = {} /\ ballots = {} /\ elected = {}
    BY DEF Init, EmptyBag, SetToBag, BagToSet
  <1>2. leaderLogs = <<>> /\ committed = <<>>
    BY DEF Init
  <1>3. Led = {} /\ DOMAIN leaderLogs = {} /\ Len(committed) = 0
    BY <1>2 DEF Led
  <1>4. ASSUME NEW i \in Server
        PROVE  /\ FullLog(i) = <<>> /\ Len(FullLog(i)) = 0 /\ state[i] = "follower"
               /\ lastIncludedIndex[i] = 0 /\ commitIndex[i] = 0
    <2>1. persister[i].snapshot = <<>> /\ log[i] = <<>>
      BY DEF Init
    <2>2. FullLog(i) = <<>> \o <<>>
      BY <2>1 DEF FullLog
    <2>3. FullLog(i) = <<>>
      BY <2>2
    <2> QED BY <2>3 DEF Init
  <1>5. DiskInv
    BY <1>4 DEF Init, DiskInv
  <1>6. LeadersInv
    BY <1>1, <1>3, <1>4 DEF LeadersInv
  <1>7. LeaderLogInv /\ ElectedInv
    BY <1>3 DEF LeaderLogInv, ElectedInv
  <1>8. NodeLogInv
    BY <1>4 DEF NodeLogInv, NodeLogOK
  <1>9. AckInv /\ NewestAckInv /\ BallotInv /\ NetInv
    BY <1>1 DEF AckInv, NewestAckInv, BallotInv, NetInv
  <1>10. LateCandidateInv /\ ProgressInv
    BY <1>4 DEF LateCandidateInv, ProgressInv
  <1>11. CommitInv
    BY <1>1, <1>3, <1>4 DEF CommitInv, CommitOK, Agree, Decided
  <1> QED BY <1>5, <1>6, <1>7, <1>8, <1>9, <1>10, <1>11 DEF LogInv

LEMMA StutterLogInv ==
    ASSUME TypeInv, TypeInv', VoteInv, LogInv, UNCHANGED vars
    PROVE  LogInv'
  <1>1. /\ UNCHANGED <<log, lastIncludedIndex, lastIncludedTerm, currentTerm, persister, state,
                       commitIndex, nextIndex, matchIndex, captures, net>>
        /\ UNCHANGED <<leaderLogs, elected, acked, committed, ballots>>
    BY DEF vars, durableVars, leaderVars, taskVars, histVars
  <1>2. \A j \in Server : FullLog(j)' = FullLog(j)
    BY <1>1 DEF FullLog
  <1>3. DiskInv'
    BY <1>1, <1>2 DEF LogInv, DiskInv
  <1>4. Roles /\ NewCandidates
    BY <1>1, <1>2 DEF Roles, Candidates, Leaders, NewCandidates
  <1>5. ASSUME NEW j \in Server
        PROVE  /\ currentTerm[j] <= currentTerm'[j] /\ FullLog(j)' = FullLog(j)
               /\ lastIncludedIndex[j] <= lastIncludedIndex'[j]
               /\ lastIncludedIndex'[j] <= commitIndex'[j]
               /\ commitIndex'[j] <= commitIndex[j]
    <2>1. /\ currentTerm[j] \in Nat /\ lastIncludedIndex[j] \in Nat /\ commitIndex[j] \in Nat
          /\ lastIncludedIndex[j] <= commitIndex[j]
      BY DEF TypeInv, MemoryOK, VolatileOK, LogInv, CommitInv, CommitOK
    <2> QED BY <1>1, <1>2, <2>1
  <1> QED BY <1>1, <1>3, <1>4, <1>5, SameLogsStep

LEMMA NextLogInv ==
    TypeInv /\ TypeInv' /\ VoteInv /\ VoteInv' /\ LogInv /\ [Next]_vars => LogInv'
  <1> SUFFICES ASSUME TypeInv, TypeInv', VoteInv, VoteInv', LogInv, Next PROVE LogInv'
    BY StutterLogInv
  <1>1. ASSUME NEW i \in Server, startElection(i) PROVE LogInv'
    BY <1>1, LogStartElection
  <1>2. ASSUME NEW i \in Server, sendHeartbeats(i) PROVE LogInv'
    BY <1>2, LogSendHeartbeats
  <1>3. ASSUME NEW i \in Server, NEW command \in Command, Start(i, command) PROVE LogInv'
    BY <1>3, LogStart
  <1>4. ASSUME NEW i \in Server, NEW index \in 1 .. MaxSnapshotIndex, index <= commitIndex[i],
               Snapshot(i, index)
        PROVE  LogInv'
    BY <1>4, LogSnapshot, BoundsAssumption
  <1>5. ASSUME NEW i \in Server, Restart(i) PROVE LogInv'
    BY <1>5, LogRestart
  <1>6. ASSUME NEW c \in captures, NEW peer \in Others(c.src), replicate(c, peer)
        PROVE  LogInv'
    BY <1>6, LogReplicate DEF Others
  <1>7. ASSUME NEW m \in BagToSet(net), RequestVote(m) PROVE LogInv'
    BY <1>7, LogRequestVote
  <1>8. ASSUME NEW m \in BagToSet(net), HandleRequestVoteReply(m) PROVE LogInv'
    BY <1>8, LogHandleRequestVoteReply
  <1>9. ASSUME NEW m \in BagToSet(net), AppendEntries(m) PROVE LogInv'
    BY <1>9, LogAppendEntries
  <1>10. ASSUME NEW m \in BagToSet(net), HandleAppendEntriesReply(m) PROVE LogInv'
    BY <1>10, LogHandleAppendEntriesReply
  <1>11. ASSUME NEW m \in BagToSet(net), InstallSnapshot(m) PROVE LogInv'
    BY <1>11, LogInstallSnapshot
  <1>12. ASSUME NEW m \in BagToSet(net), HandleInstallSnapshotReply(m) PROVE LogInv'
    BY <1>12, LogHandleInstallSnapshotReply
  <1>13. ASSUME NEW m \in BagToSet(net), CrashInHandler(m) PROVE LogInv'
    BY <1>13, LogCrashInHandler
  <1> QED BY <1>1, <1>2, <1>3, <1>4, <1>5, <1>6, <1>7, <1>8, <1>9, <1>10, <1>11, <1>12,
             <1>13 DEF Next

\* What is on the disks, in the logs of leaders and nodes, in flight and acknowledged stays
\* consistent through every election, replication, snapshot, crash and restart.
THEOREM LogsAreSafe == Spec => []LogInv
  BY InitLogInv, NextLogInv, TypeInvariant, VotesAreSafe, PTL DEF Spec

-----------------------------------------------------------------------------
(* What follows from it *)

LEMMA LogInvImpliesCommittedAgreement == TypeInv /\ LogInv => CommittedAgreement
  BY DEF CommittedAgreement, LogInv, CommitInv, CommitOK, Agree

LEMMA LogInvImpliesTermIsDurable == LogInv => TermIsDurable
  BY DEF TermIsDurable, LogInv, DiskInv

LEMMA LogInvImpliesNextIndexInRange == TypeInv /\ LogInv => NextIndexInRange
  <1> SUFFICES ASSUME TypeInv, LogInv, NEW i \in Server, NEW j \in Server, state[i] = "leader"
               PROVE  nextIndex[i][j] \in 1 .. (lastLogIndex(i) + 1)
    BY DEF NextIndexInRange
  <1>1. Len(FullLog(i)) = lastLogIndex(i)
    BY FullLogType DEF TypeInv
  <1> QED BY <1>1 DEF LogInv, ProgressInv, ProgressOK

LEMMA DiskIsFullLog ==
    ASSUME LogInv, NEW i \in Server
    PROVE  persister[i].snapshot \o persister[i].log = FullLog(i)
  BY DEF LogInv, DiskInv, FullLog

\* A term that is the newest: it has everything that was committed.
Newest(t) == \A e \in elected : e.term <= t

LEMMA NewestHasAll ==
    ASSUME LogInv, LogsTyped, NEW t \in Led, Newest(t)
    PROVE  Agree(LogOf(t), committed, Len(committed))
  <1>1. Len(committed) \in Nat /\ t \in Nat
    BY DEF LogsTyped, IsLog
  <1>2. \A u \in Led : u <= t
    BY DEF LogInv, LeadersInv, Newest
  <1>3. Decided(t, Len(committed))
    BY <1>1, <1>2 DEF LogInv, CommitInv, Decided
  <1> QED BY <1>1, <1>3, DecidedCarried DEF LogInv

LEMMA LogInvImpliesLeaderCompleteness == TypeInv /\ LogInv => LeaderCompleteness
  <1> SUFFICES ASSUME TypeInv, LogInv, NEW i \in Server, state[i] = "leader",
                      Newest(currentTerm[i])
               PROVE  /\ Len(committed) <= Len(FullLog(i))
                      /\ \A k \in 1 .. Len(committed) : FullLog(i)[k] = committed[k]
    BY DEF LeaderCompleteness, Newest
  <1>1. LogsTyped
    BY LogsAreTyped
  <1>2. currentTerm[i] \in Led /\ LogOf(currentTerm[i]) = FullLog(i)
    BY LeaderHasLog DEF LogInv
  <1>3. Agree(LogOf(currentTerm[i]), committed, Len(committed))
    BY <1>1, <1>2, NewestHasAll
  <1> QED BY <1>2, <1>3 DEF Agree

LEMMA NewestLeaderIsMatched ==
    ASSUME TypeInv, LogInv, NEW i \in Server, NEW j \in Server, state[i] = "leader",
           Newest(currentTerm[i])
    PROVE  /\ matchIndex[i][j] <= Len(FullLog(j))
           /\ \A k \in 1 .. matchIndex[i][j] : FullLog(j)[k] = FullLog(i)[k]
  <1> DEFINE t == currentTerm[i]
             n == matchIndex[i][j]
             s == lastIncludedIndex[j]
  <1>1. /\ LogsTyped /\ n \in Nat /\ s \in Nat /\ t \in Nat /\ commitIndex[j] \in Nat
        /\ s <= commitIndex[j] /\ Agree(FullLog(j), committed, commitIndex[j])
    <2>1. LogsTyped
      BY LogsAreTyped
    <2>2. n \in Nat /\ commitIndex[j] \in Nat
      BY DEF TypeInv, VolatileOK
    <2>3. s \in Nat /\ t \in Nat
      BY DEF TypeInv, MemoryOK
    <2>4. s <= commitIndex[j] /\ Agree(FullLog(j), committed, commitIndex[j])
      BY DEF LogInv, CommitInv, CommitOK
    <2> QED BY <2>1, <2>2, <2>3, <2>4
  <1>2. t \in Led /\ LogOf(t) = FullLog(i)
    BY LeaderHasLog DEF LogInv
  <1>3. CASE n = 0
    BY <1>1, <1>3 DEF LogsTyped, IsLog
  <1>4. CASE n > 0
    <2>1. Confirmed(t, j, n)
      BY <1>4 DEF LogInv, ProgressInv, ProgressOK
    <2>2. CASE HasAcked(t, j, n)
      <3>1. PICK a \in acked : a.term = t /\ a.node = j /\ a.index >= n
        BY <2>2 DEF HasAcked
      <3>2. \A u \in Led : ~(u > t)
        BY <1>1 DEF LogInv, LeadersInv, Newest, LogsTyped
      <3>3. Agree(FullLog(j), LogOf(t), a.index) /\ a.index \in Nat
        BY <1>1, <3>1, <3>2 DEF LogInv, NewestAckInv, NewestAckOK, LogsTyped
      <3> QED BY <1>1, <1>2, <3>1, <3>3 DEF Agree, LogsTyped, IsLog
    <2>3. CASE n <= s
      <3>1. Agree(LogOf(t), committed, Len(committed))
        BY <1>1, <1>2, NewestHasAll
      <3>2. n <= commitIndex[j]
        BY <1>1, <2>3
      <3> QED BY <1>1, <1>2, <3>1, <3>2 DEF Agree, LogsTyped, IsLog
    <2> QED BY <2>1, <2>2, <2>3 DEF Confirmed
  <1> QED BY <1>1, <1>3, <1>4

LEMMA LogInvImpliesMatchIndexConfirmed == TypeInv /\ LogInv => MatchIndexConfirmed
  <1> SUFFICES ASSUME TypeInv, LogInv PROVE MatchIndexConfirmed
    OBVIOUS
  <1> DEFINE Disk(j) == persister[j].snapshot \o persister[j].log
  <1>1. ASSUME NEW i \in Server, NEW j \in Server,
               state[i] = "leader", \A e \in elected : e.term <= currentTerm[i]
        PROVE  /\ matchIndex[i][j] <= Len(Disk(j))
               /\ \A k \in 1 .. matchIndex[i][j] : Disk(j)[k] = FullLog(i)[k]
    <2>1. Disk(j) = FullLog(j)
      BY DiskIsFullLog
    <2>2. Newest(currentTerm[i])
      BY <1>1 DEF Newest
    <2> HIDE DEF Disk
    <2> QED BY <1>1, <2>1, <2>2, NewestLeaderIsMatched
  <1> QED BY <1>1, Zenon DEF MatchIndexConfirmed

LEMMA LogInvImpliesCommittedDurable == TypeInv /\ LogInv => CommittedDurable
  <1> SUFFICES ASSUME TypeInv, LogInv, NEW k \in 1 .. Len(committed)
               PROVE  IsMajority({i \in Server :
                                    k <= Len(FullLog(i)) /\ FullLog(i)[k] = committed[k]})
    BY DiskIsFullLog DEF CommittedDurable
  <1> DEFINE P == {i \in Server : k <= Len(FullLog(i)) /\ FullLog(i)[k] = committed[k]}
             c == Len(committed)
  <1>1. LogsTyped /\ c \in Nat /\ c > 0 /\ ElectedInv
    BY LogsAreTyped DEF LogsTyped, IsLog, LogInv
  <1>2. PICK t \in Led : ChosenBy(t, c)
    BY <1>1 DEF LogInv, CommitInv
  <1>3. PICK n \in c .. Len(LogOf(t)) : Chosen(t, n)
    BY <1>2 DEF ChosenBy
  <1>4. n \in Nat /\ n >= c /\ Agree(committed, LogOf(t), c) /\ Own(t, n)
    BY <1>1, <1>2, <1>3 DEF ChosenBy, Chosen, LogsTyped, IsLog
  <1>5. PICK Q \in SUBSET Server : IsMajority(Q) /\ \A q \in Q : HasAcked(t, q, n)
    BY <1>3 DEF Chosen
  <1>6. ~Lacking(t, n)
    BY <1>1, <1>3, <1>4, CarriedLater DEF Lacking
  <1>7. ASSUME NEW q \in Q PROVE q \in P
    <2>1. PICK a \in acked : a.term = t /\ a.node = q /\ a.index >= n
      BY <1>5 DEF HasAcked
    <2>2. n \in 1 .. a.index
      BY <1>1, <1>4, <2>1 DEF LogsTyped
    <2>3. Agree(FullLog(q), LogOf(t), n)
      BY <1>4, <1>6, <2>1, <2>2 DEF LogInv, AckInv, AckOK, Holds
    <2> QED BY <1>1, <1>4, <2>3 DEF Agree, LogsTyped, IsLog
  <1>8. Q \subseteq P /\ P \subseteq Server /\ IsFiniteSet(Server)
    BY <1>7, ServerAssumption
  <1> HIDE DEF P
  <1>9. IsFiniteSet(P) /\ IsFiniteSet(Q)
    BY <1>8, FS_Subset
  <1>10. Cardinality(Q) <= Cardinality(P)
    BY <1>8, <1>9, FS_Subset
  <1>11. Cardinality(Q) \in Nat /\ Cardinality(P) \in Nat /\ Cardinality(Server) \in Nat
    BY <1>8, <1>9, FS_CardinalityType
  <1>12. IsMajority(P)
    BY <1>5, <1>10, <1>11 DEF IsMajority
  <1> QED BY <1>12 DEF P

LEMMA LogInvImpliesLogMatching == TypeInv /\ LogInv => LogMatching
  <1> SUFFICES ASSUME TypeInv, LogInv, NEW i \in Server, NEW j \in Server,
                      NEW k \in 1 .. Min({Len(log[i]), Len(log[j])}),
                      lastIncludedIndex[i] = 0, lastIncludedIndex[j] = 0,
                      log[i][k].Term = log[j][k].Term
               PROVE  SubSeq(log[i], 1, k) = SubSeq(log[j], 1, k)
    BY DEF LogMatching
  <1>1. /\ log[i] \in Seq(Entry) /\ log[j] \in Seq(Entry)
        /\ Len(log[i]) \in Nat /\ Len(log[j]) \in Nat
    BY DEF TypeInv, MemoryOK
  <1>2. k \in Nat /\ k >= 1 /\ k <= Len(log[i]) /\ k <= Len(log[j])
    <2> DEFINE S == {Len(log[i]), Len(log[j])}
    <2>1. S \subseteq Nat /\ S # {}
      BY <1>1
    <2>2. Min(S) \in S /\ \A y \in S : Min(S) <= y
      <3> HIDE DEF S
      <3> QED BY <2>1, MinInSet
    <2> QED BY <1>1, <2>2
  <1>3. ASSUME NEW h \in {i, j}
        PROVE  /\ Len(FullLog(h)) = Len(log[h]) /\ \A l \in 1 .. Len(log[h]) : log[h][l] = FullLog(h)[l]
               /\ \A l \in 1 .. k : log[h][l] = LogOf(log[h][k].Term)[l]
    <2>1. NodeView(h) /\ lastIncludedIndex[h] = 0 /\ Len(log[h]) \in Nat /\ k <= Len(log[h])
      BY <1>1, <1>2, NodeViews
    <2>2. Len(FullLog(h)) = Len(log[h]) /\ \A l \in 1 .. Len(log[h]) : log[h][l] = FullLog(h)[l]
      BY <2>1, LogsAreTyped DEF NodeView, LogsTyped, IsLog
    <2>3. k \in (lastIncludedIndex[h] + 1) .. Len(FullLog(h))
      BY <1>2, <2>1, <2>2
    <2>4. \A l \in (lastIncludedIndex[h] + 1) .. k : FullLog(h)[l] = LogOf(FullLog(h)[k].Term)[l]
      BY <2>3 DEF LogInv, NodeLogInv, NodeLogOK
    <2> QED BY <1>2, <2>1, <2>2, <2>4
  <1>4. \A l \in 1 .. k : log[i][l] = log[j][l]
    BY <1>3
  <1>5. /\ \A l \in 1 .. k : log[i][l] \in Entry /\ log[j][l] \in Entry
    BY <1>1, <1>2, ElementOfSeq
  <1>6. /\ SubSeq(log[i], 1, k) \in Seq(Entry) /\ Len(SubSeq(log[i], 1, k)) = k
        /\ \A l \in 1 .. k : SubSeq(log[i], 1, k)[l] = log[i][l]
        /\ SubSeq(log[j], 1, k) \in Seq(Entry) /\ Len(SubSeq(log[j], 1, k)) = k
        /\ \A l \in 1 .. k : SubSeq(log[j], 1, k)[l] = log[j][l]
    BY <1>1, <1>2, <1>5, SubSeqProperties
  <1> QED BY <1>4, <1>6, SeqEqual

\* A node never takes back what it regards as committed, short of a restart.
CommitKept == \A i \in Server : restarts'[i] = restarts[i] => commitIndex'[i] >= commitIndex[i]

LEMMA AppendCommitKept ==
    ASSUME TypeInv, TypeInv', LogInv, NEW m \in BagToSet(net), AppendEntries(m)
    PROVE  CommitKept
  <1>1. /\ m \in AppendEntriesArgs /\ m.callee \in Server /\ AppendRequestInv(m)
    BY MessageKinds, MessageFields DEF TypeInv, NetOK, LogInv, NetInv, MessageInv, AppendEntries
  <1>2. m.LeaderCommit \in Nat /\ LastSent(m) \in Nat /\ m.LeaderCommit <= LastSent(m)
    <2>1. m.LeaderCommit \in Nat /\ m.PrevLogIndex \in Nat /\ Len(m.Entries) \in Nat
      BY <1>1, LenProperties DEF AppendEntriesArgs
    <2> QED BY <1>1, <2>1 DEF AppendEntries, AppendRequestInv, LastSent
  <1>3. \A i \in Server : commitIndex[i] \in Nat
    BY DEF TypeInv, VolatileOK
  <1>4. commitAfter(m.callee, m) >= commitIndex[m.callee]
    BY <1>1, <1>2, <1>3, MinOfPair DEF commitAfter, LastSent
  <1>5. \/ commitIndex' = commitIndex
        \/ commitIndex' = [commitIndex EXCEPT ![m.callee] = commitAfter(m.callee, m)]
    BY DEF AppendEntries
  <1>6. ASSUME NEW i \in Server PROVE commitIndex'[i] >= commitIndex[i]
    <2> DEFINE new == commitAfter(m.callee, m)
    <2>1. commitIndex \in [Server -> Nat] /\ new >= commitIndex[m.callee]
      BY <1>4 DEF TypeInv, VolatileOK
    <2>2. commitIndex' = commitIndex \/ commitIndex' = [commitIndex EXCEPT ![m.callee] = new]
      BY <1>5
    <2> HIDE DEF new
    <2> QED BY <1>1, <1>3, <2>1, <2>2
  <1> QED BY <1>6 DEF CommitKept

LEMMA NextCommitKept == TypeInv /\ TypeInv' /\ LogInv /\ [Next]_vars => (CommitKept \/ UNCHANGED vars)
  <1> SUFFICES ASSUME TypeInv, TypeInv', LogInv, Next PROVE CommitKept
    OBVIOUS
  <1>0. \A i \in Server : commitIndex[i] \in Nat
    BY DEF TypeInv, VolatileOK
  <1>1. CASE commitIndex' = commitIndex
    BY <1>0, <1>1 DEF CommitKept
  <1>2. ASSUME NEW i \in Server, NEW disk, RestartFrom(i, disk) PROVE CommitKept
    <2>1. restarts'[i] # restarts[i] /\ \A j \in Server : j # i => commitIndex'[j] = commitIndex[j]
      BY <1>2 DEF RestartFrom, TypeInv, VolatileOK, NetOK
    <2> QED BY <1>0, <2>1 DEF CommitKept
  <1>3. ASSUME NEW m \in BagToSet(net), HandleAppendEntriesReply(m) PROVE CommitKept
    <2>1. CASE commitIndex' = commitIndex
      BY <1>1, <2>1
    <2>2. ASSUME NEW i \in Server, NEW match, Committable(i, match) # {},
                 commitIndex' = [commitIndex EXCEPT ![i] = Max(Committable(i, match))]
          PROVE  CommitKept
      <3>1. Committable(i, match) \subseteq 0 .. lastLogIndex(i) /\ lastLogIndex(i) \in Nat
        BY <1>0, LastLogIndexType DEF Committable, TypeInv
      <3>2. Max(Committable(i, match)) \in Committable(i, match)
        BY <2>2, <3>1, MaxInSet
      <3>3. \A x \in Committable(i, match) : x >= commitIndex[i]
        BY <1>0 DEF Committable
      <3>4. ASSUME NEW j \in Server PROVE commitIndex'[j] >= commitIndex[j]
        <4> DEFINE new == Max(Committable(i, match))
        <4>1. commitIndex \in [Server -> Nat] /\ new >= commitIndex[i]
          BY <3>2, <3>3 DEF TypeInv, VolatileOK
        <4>2. commitIndex' = [commitIndex EXCEPT ![i] = new]
          BY <2>2
        <4> HIDE DEF new
        <4> QED BY <1>0, <4>1, <4>2
      <3> QED BY <3>4 DEF CommitKept
    <2>3. m.caller \in Server
      BY MessageFields DEF TypeInv, NetOK
    <2> QED BY <1>3, <2>1, <2>2, <2>3 DEF HandleAppendEntriesReply, maybeAdvanceCommitIndex
  <1>4. ASSUME NEW m \in BagToSet(net), InstallSnapshot(m) PROVE CommitKept
    <2>1. m.callee \in Server /\ m.LastIncludedIndex \in Nat
      BY <1>4, MessageKinds, MessageFields DEF TypeInv, NetOK, InstallSnapshot, InstallSnapshotArgs
    <2>2. \/ commitIndex' = commitIndex
          \/ commitIndex' = [commitIndex EXCEPT ![m.callee] = Max({@, m.LastIncludedIndex})]
      BY <1>4 DEF InstallSnapshot
    <2>3. Max({commitIndex[m.callee], m.LastIncludedIndex}) >= commitIndex[m.callee]
      BY <1>0, <2>1, MaxOfPair
    <2>4. ASSUME NEW j \in Server PROVE commitIndex'[j] >= commitIndex[j]
      <3> DEFINE new == Max({commitIndex[m.callee], m.LastIncludedIndex})
      <3>1. commitIndex \in [Server -> Nat] /\ new >= commitIndex[m.callee]
        BY <2>3 DEF TypeInv, VolatileOK
      <3>2. commitIndex' = commitIndex \/ commitIndex' = [commitIndex EXCEPT ![m.callee] = new]
        BY <2>2
      <3> HIDE DEF new
      <3> QED BY <1>0, <2>1, <3>1, <3>2
    <2> QED BY <2>4 DEF CommitKept
  <1>5. ASSUME NEW m \in BagToSet(net), AppendEntries(m) PROVE CommitKept
    BY <1>5, AppendCommitKept
  <1>6. ASSUME NEW i \in Server,
               \/ startElection(i) \/ sendHeartbeats(i)
               \/ \E command \in Command : Start(i, command)
               \/ \E index \in 1 .. MaxSnapshotIndex : Snapshot(i, index)
        PROVE  commitIndex' = commitIndex
    BY <1>6 DEF startElection, sendHeartbeats, Start, Snapshot
  <1>7. ASSUME NEW c \in captures, NEW peer, replicate(c, peer) PROVE commitIndex' = commitIndex
    BY <1>7 DEF replicate
  <1>8. ASSUME NEW m \in BagToSet(net),
               RequestVote(m) \/ HandleRequestVoteReply(m) \/ HandleInstallSnapshotReply(m)
        PROVE  commitIndex' = commitIndex
    BY <1>8 DEF RequestVote, HandleRequestVoteReply, HandleInstallSnapshotReply
  <1>9. ASSUME NEW i \in Server, Restart(i) PROVE CommitKept
    BY <1>2, <1>9 DEF Restart
  <1>10. ASSUME NEW m \in BagToSet(net), CrashInHandler(m) PROVE CommitKept
    <2>1. m.callee \in Server
      BY MessageFields DEF TypeInv, NetOK
    <2> QED BY <1>2, <1>10, <2>1 DEF CrashInHandler
  <1> QED BY <1>1, <1>3, <1>4, <1>5, <1>6, <1>7, <1>8, <1>9, <1>10 DEF Next

-----------------------------------------------------------------------------

\* What any node regards as committed it holds, and it is what the leaders committed: no two
\* nodes apply different commands at an index, with any number of nodes, terms, entries,
\* snapshots, crashes and lost or late RPCs (AppendEntries, InstallSnapshot,
\* maybeAdvanceCommitIndex).
THEOREM CommittedAgrees == Spec => []CommittedAgreement
  BY LogsAreSafe, TypeInvariant, LogInvImpliesCommittedAgreement, PTL

\* The newest leader has everything that was ever committed (logOk of RequestVote, the
\* current-term rule of maybeAdvanceCommitIndex).
THEOREM LeadersAreComplete == Spec => []LeaderCompleteness
  BY LogsAreSafe, TypeInvariant, LogInvImpliesLeaderCompleteness, PTL

\* A majority has every committed entry on disk (persist before each reply).
THEOREM CommittedIsDurable == Spec => []CommittedDurable
  BY LogsAreSafe, TypeInvariant, LogInvImpliesCommittedDurable, PTL

\* Logs of the same term at an index are the same up to it, where no snapshot hides a part
\* (the PrevLogTerm check and the merge of AppendEntries).
THEOREM LogsMatch == Spec => []LogMatching
  BY LogsAreSafe, TypeInvariant, LogInvImpliesLogMatching, PTL

\* What a leader counts a peer for is on that peer's disk until a later leader is elected
\* (the replies of AppendEntries and InstallSnapshot, however late they arrive).
THEOREM MatchIndexIsConfirmed == Spec => []MatchIndexConfirmed
  BY LogsAreSafe, TypeInvariant, LogInvImpliesMatchIndexConfirmed, PTL

\* No conflict hint, stale reply or snapshot moves nextIndex outside the leader's log, where
\* sendHeartbeats would panic.
THEOREM NextIndexStaysInRange == Spec => []NextIndexInRange
  BY LogsAreSafe, TypeInvariant, LogInvImpliesNextIndexInRange, PTL

\* A node never answers with a term that a crash makes it forget: the path of InstallSnapshot
\* that raises the term without persisting it is never taken with a higher term.
THEOREM TermsAreDurable == Spec => []TermIsDurable
  BY LogsAreSafe, LogInvImpliesTermIsDurable, PTL

\* A node never takes back what it regards as committed, except by a restart (commitAfter
\* of AppendEntries, InstallSnapshot, maybeAdvanceCommitIndex).
THEOREM CommitIndexNeverFalls == Spec => CommitIndexMonotonic
  BY LogsAreSafe, TypeInvariant, NextCommitKept, PTL DEF Spec, CommitIndexMonotonic, CommitKept

=============================================================================
