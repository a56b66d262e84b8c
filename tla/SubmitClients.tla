--------------------------- MODULE SubmitClients ---------------------------
(* Callers of Submit, each with a command of its own. *)
EXTENDS Submit

VARIABLE overtaken  \* history: the callers whose node ceased to be the newest leader too early

vars == <<submitVars, overtaken>>

\* Whether the command of c is committed at the index Start returned
isCommitted(c) == calls[c].index \in 1 .. Len(log) /\ log[calls[c].index] = c

\* Callers in Submit at a node after which another one was elected, with a command that is
\* not committed yet
atDeposed ==
    {c \in Caller : /\ calls[c].pc \in {"started", "waiting"}
                    /\ calls[c].node # leader
                    /\ ~isCommitted(c)}

Init == SubmitInit /\ overtaken = {}

Step ==
    \/ \E c \in Caller :
          \/ \E i \in Node : Start(c, i, c)
          \/ registerWaiter(c)
          \/ timeout(c)
    \/ commit
    \/ \E i \in Node :
          \/ applyNext(i)
          \/ \E j \in Node : applySnapshot(i, j)
          \/ elect(i)
          \/ stepDown(i)
          \/ crash(i)

Next == Step /\ overtaken' = overtaken \cup atDeposed'

Spec == Init /\ [][Next]_vars

-----------------------------------------------------------------------------

\* TypeOK: the shape of the state, with one waiter per node and index as in a Go map.
TypeOK ==
    /\ log \in Seq(Caller) /\ tail \in Seq(Caller)
    /\ inherited \in 0 .. Len(tail)
    /\ leader \in Node /\ believes \subseteq Node
    /\ deposed \in [Node -> [base : Nat, tail : Seq(Caller)]]
    /\ elections \in Nat /\ crashes \in Nat
    /\ applied \in [Node -> 0 .. Len(log)]
    /\ waiters \subseteq [node : Node, index : Nat, caller : Caller]
    /\ calls \in [Caller -> [pc : {"idle", "started", "waiting", "dead"} \cup Outcome,
                             node : Node \cup {Nil}, index : Nat]]
    /\ overtaken \subseteq Caller
    /\ \A v, w \in waiters : v.node = w.node /\ v.index = w.index => v = w

\* WaitersAreWaiting: "clean up the waiter so it does not leak" - whoever is in the map
\* waits for that very index, although removal goes by index and a later caller may have
\* taken the place (registerWaiter, removeWaiter, notifyWaiter).
WaitersAreWaiting ==
    \A w \in waiters :
        /\ calls[w.caller].pc = "waiting"
        /\ calls[w.caller].node = w.node
        /\ calls[w.caller].index = w.index

\* RejectedNeverCommitted: "Followers reject immediately" - a command answered with
\* ErrNotLeader is not in the log and never gets there, so a client may submit it again.
RejectedNeverCommitted ==
    \A c \in Caller : calls[c].pc = "ErrNotLeader" => \A k \in 1 .. Len(log) : log[k] # c

\* NilMeansCommitted: Submit "sends a mutation through Raft and waits for commit" - when it
\* returns nil, the command of this caller, and not another one, is in the store of its node,
\* unless another node was elected before the command was committed: then the waiter may
\* have been woken by the command the new leader put at the same index.
NilMeansCommitted ==
    \A c \in Caller \ overtaken :
        calls[c].pc = "nil" => isCommitted(c) /\ calls[c].index <= applied[calls[c].node]

=============================================================================
