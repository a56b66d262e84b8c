------------------------------- MODULE Submit -------------------------------
(***************************************************************************)
(* Store.Submit of src/internal/store/store.go: how a caller hands a       *)
(* command to Raft and learns what became of it, through Start, a waiter   *)
(* for the log index, and a timeout.  A module that extends this one says  *)
(* who calls Submit with what.                                             *)
(*                                                                         *)
(* Raft is seen from above, as module Raft justifies it: a committed log   *)
(* that all nodes share, the uncommitted tail of the newest leader, and    *)
(* nodes that still take themselves for the leader although they were      *)
(* deposed.  The snapshot after every command makes what a node applied    *)
(* survive its crash (NotifiedIsDurable of ApplyPipeline).                 *)
(*                                                                         *)
(* Operators named Bug... are plausible mistakes, used by no specification.*)
(***************************************************************************)
EXTENDS Integers, Sequences, FiniteSets

CONSTANTS
    Node,          \* nodes whose store is looked at; the cluster may have more
    Caller,        \* goroutines that call Submit
    Nil,
    MaxLog, MaxElections, MaxCrashes    \* bounds

ASSUME SubmitAssumption ==
    /\ Node # {} /\ Nil \notin Node
    /\ MaxLog \in Nat /\ MaxElections \in Nat /\ MaxCrashes \in Nat

VARIABLES
    log,        \* the commands Raft committed
    tail,       \* what the leader has in its log beyond them
    inherited,  \* how much of the tail is of earlier terms
    leader,     \* the node that was elected last
    believes,   \* the nodes whose state is "leader"
    deposed,    \* for a node another one was elected after: the end of its log then
    elections, crashes,
    applied,    \* how much of the log the store of each node has applied
    waiters,    \* Store.waiters: at most one caller per node and index
    calls       \* where each caller is in Submit

raftVars == <<log, tail, inherited, leader, believes, deposed, elections>>
submitVars == <<raftVars, crashes, applied, waiters, calls>>

Outcome == {"nil", "ErrNotLeader", "ErrTimeout"}
NoCall  == [pc |-> "idle", node |-> Nil, index |-> 0]

SubmitInit ==
    /\ log = <<>>
    /\ tail = <<>>
    /\ inherited = 0
    /\ leader \in Node
    /\ believes = {leader}
    /\ deposed = [i \in Node |-> [base |-> 0, tail |-> <<>>]]
    /\ elections = 0
    /\ crashes = 0
    /\ applied = [i \in Node |-> 0]
    /\ waiters = {}
    /\ calls = [c \in Caller |-> NoCall]

-----------------------------------------------------------------------------
(* Submit *)

\* rf.lastLogIndex() of a node that takes itself for the leader
lastLogIndex(i) ==
    IF i = leader THEN Len(log) + Len(tail)
                  ELSE deposed[i].base + Len(deposed[i].tail)

\* The command goes into the log of the node before the node looks whether it leads.
BugStart(c, i, command) ==
    /\ calls[c].pc = "idle"
    /\ lastLogIndex(i) < MaxLog
    /\ calls' = [calls EXCEPT ![c] = [pc |-> IF i \in believes THEN "started"
                                             ELSE "ErrNotLeader",
                                      node |-> i, index |-> lastLogIndex(i) + 1]]
    /\ IF i = leader
       THEN tail' = Append(tail, command) /\ UNCHANGED deposed
       ELSE deposed' = [deposed EXCEPT ![i].tail = Append(@, command)] /\ UNCHANGED tail
    /\ UNCHANGED <<log, inherited, leader, believes, elections, crashes, applied, waiters>>

\* Submit calls rf.Start: a node that does not take itself for the leader refuses, the
\* others append to their own log and return the index.
Start(c, i, command) ==
    /\ calls[c].pc = "idle"
    /\ \/ /\ i \notin believes
          /\ calls' = [calls EXCEPT ![c] = [NoCall EXCEPT !.pc = "ErrNotLeader", !.node = i]]
          /\ UNCHANGED <<tail, deposed>>
       \/ /\ i \in believes
          /\ lastLogIndex(i) < MaxLog
          /\ calls' = [calls EXCEPT ![c] = [pc |-> "started", node |-> i,
                                            index |-> lastLogIndex(i) + 1]]
          /\ IF i = leader
             THEN tail' = Append(tail, command) /\ UNCHANGED deposed
             ELSE deposed' = [deposed EXCEPT ![i].tail = Append(@, command)] /\ UNCHANGED tail
    /\ UNCHANGED <<log, inherited, leader, believes, elections, crashes, applied, waiters>>

waitersAt(i, index) == {w \in waiters : w.node = i /\ w.index = index}

\* The place may be taken twice.
BugRegisterBeside(c) ==
    /\ calls[c].pc = "started"
    /\ waiters' = waiters \cup {[node |-> calls[c].node, index |-> calls[c].index, caller |-> c]}
    /\ calls' = [calls EXCEPT ![c].pc = "waiting"]
    /\ UNCHANGED <<raftVars, crashes, applied>>

\* registerWaiter: only now does the caller get a place in the map, and takes that of
\* whoever waits for the same index.
registerWaiter(c) ==
    /\ calls[c].pc = "started"
    /\ waiters' = (waiters \ waitersAt(calls[c].node, calls[c].index))
                  \cup {[node |-> calls[c].node, index |-> calls[c].index, caller |-> c]}
    /\ calls' = [calls EXCEPT ![c].pc = "waiting"]
    /\ UNCHANGED <<raftVars, crashes, applied>>

\* The waiter stays behind.
BugTimeoutLeaks(c) ==
    /\ calls[c].pc = "waiting"
    /\ calls' = [calls EXCEPT ![c].pc = "ErrTimeout"]
    /\ UNCHANGED <<raftVars, crashes, applied, waiters>>

\* The timer fires; removeWaiter goes by the index, whoever the waiter belongs to.
timeout(c) ==
    /\ calls[c].pc = "waiting"
    /\ waiters' = waiters \ waitersAt(calls[c].node, calls[c].index)
    /\ calls' = [calls EXCEPT ![c].pc = "ErrTimeout"]
    /\ UNCHANGED <<raftVars, crashes, applied>>

-----------------------------------------------------------------------------
(* The store's applyLoop *)

\* A deposed node knows no commit that came after it, until it has stepped down.
mayApply(i) ==
    /\ applied[i] < Len(log)
    /\ i \in believes \ {leader} => applied[i] < deposed[i].base

\* Those who wait for the entry after the applied one are woken.
BugNotifyEarly(i) ==
    LET woken == waitersAt(i, applied[i] + 2)
    IN  /\ mayApply(i)
        /\ applied' = [applied EXCEPT ![i] = @ + 1]
        /\ waiters' = waiters \ woken
        /\ calls' = [c \in Caller |-> IF \E w \in woken : w.caller = c
                                      THEN [calls[c] EXCEPT !.pc = "nil"] ELSE calls[c]]
        /\ UNCHANGED <<raftVars, crashes>>

\* One command is applied, saved in a snapshot, and notifyWaiter wakes the waiter of its
\* index: Submit returns nil.
applyNext(i) ==
    LET woken == waitersAt(i, applied[i] + 1)
    IN  /\ mayApply(i)
        /\ applied' = [applied EXCEPT ![i] = @ + 1]
        /\ waiters' = waiters \ woken
        /\ calls' = [c \in Caller |-> IF \E w \in woken : w.caller = c
                                      THEN [calls[c] EXCEPT !.pc = "nil"] ELSE calls[c]]
        /\ UNCHANGED <<raftVars, crashes>>

\* A follower is sent the snapshot of node j and wakes nobody.
applySnapshot(i, j) ==
    /\ i \notin believes
    /\ applied[i] < applied[j]
    /\ applied' = [applied EXCEPT ![i] = applied[j]]
    /\ UNCHANGED <<raftVars, crashes, waiters, calls>>

-----------------------------------------------------------------------------
(* Raft, and failures *)

\* maybeAdvanceCommitIndex: entries of earlier terms only together with one of this term.
commit ==
    /\ leader \in believes
    /\ \E n \in (inherited + 1) .. Len(tail) :
          /\ log' = log \o SubSeq(tail, 1, n)
          /\ tail' = SubSeq(tail, n + 1, Len(tail))
          /\ inherited' = 0
    /\ UNCHANGED <<leader, believes, deposed, elections, crashes, applied, waiters, calls>>

\* Node j is elected.  Its log has all that was committed and as much of the tail as
\* had reached it; or it is a deposed leader whose own tail nobody overwrote.
elect(j) ==
    /\ elections < MaxElections
    /\ j \notin believes
    /\ elections' = elections + 1
    /\ leader' = j
    /\ believes' = believes \cup {j}
    /\ \/ /\ j = leader
          /\ UNCHANGED <<tail, deposed>>
       \/ /\ j # leader
          /\ deposed' = [deposed EXCEPT ![leader] = [base |-> Len(log), tail |-> tail]]
          /\ \/ \E n \in 0 .. Len(tail) : tail' = SubSeq(tail, 1, n)
             \/ deposed[j].base = Len(log) /\ tail' = deposed[j].tail
    /\ inherited' = Len(tail')
    /\ UNCHANGED <<log, crashes, applied, waiters, calls>>

\* A node sees a higher term.
stepDown(i) ==
    /\ i \in believes
    /\ believes' = believes \ {i}
    /\ UNCHANGED <<log, tail, inherited, leader, deposed, elections, crashes, applied,
                   waiters, calls>>

\* The process of node i dies and starts again; its callers and waiters are gone.
crash(i) ==
    /\ crashes < MaxCrashes
    /\ crashes' = crashes + 1
    /\ believes' = believes \ {i}
    /\ waiters' = {w \in waiters : w.node # i}
    /\ calls' = [c \in Caller |-> IF calls[c].node = i THEN [NoCall EXCEPT !.pc = "dead"]
                                  ELSE calls[c]]
    /\ UNCHANGED <<log, tail, inherited, leader, deposed, elections, applied>>

=============================================================================
