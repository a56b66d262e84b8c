------------------------------ MODULE MCRaft ------------------------------
(* Instances of Raft for TLC. *)
EXTENDS Raft, TLC

CONSTANTS s1, s2, s3, c1

\* Nodes are interchangeable: no action or property names one of them.
Symmetry == Permutations(Server)

\* The nextIndex and matchIndex arrays of a node that does not lead, the votes of one
\* that is no candidate and the captures of one that can lead no more are never read
\* again; a capture older than every term is only good for a request that is refused and
\* whose reply is ignored, and such a term has no more elections.  States that differ only
\* in these are one.
LiveState ==
    LET lead         == {i \in Server : state[i] = "leader"}
        mayLead(i)   == currentTerm[i] < MaxTerm \/ state[i] # "follower"
        mayMatter(t) == \E i \in Server : t >= persister[i].currentTerm
    IN  <<durableVars, commitIndex, state, persister, net, restarts, committed,
          {e \in elected : mayMatter(e.term)},
          {i \in heartbeating : mayLead(i)},
          {c \in captures : mayLead(c.src) /\ mayMatter(c.term)},
          [i \in lead |-> nextIndex[i]], [i \in lead |-> matchIndex[i]],
          [i \in {j \in Server : state[j] = "candidate"} |-> votes[i]]>>

\* A moment with diverged logs, to start convergence from: `new' led term 1 and appended
\* one entry, `old' led term 2 and appended two, neither reached anyone; then `new' won
\* term 3 and appended again.  The third node voted for all of them and has nothing.
Diverged(new, old) ==
    LET e(t)  == [Term |-> t, Command |-> c1]
        logs  == [i \in Server |-> IF i = new THEN <<e(1), e(3)>>
                                   ELSE IF i = old THEN <<e(2), e(2)>> ELSE <<>>]
        term  == [i \in Server |-> IF i = old THEN 2 ELSE 3]
        vote  == [i \in Server |-> IF i = old THEN old ELSE new]
        third == CHOOSE i \in Server : i \notin {new, old}
        won   == {[term |-> 1, leader |-> new], [term |-> 2, leader |-> old],
                  [term |-> 3, leader |-> new]}
    IN  /\ currentTerm = term
        /\ votedFor = vote
        /\ log = logs
        /\ lastIncludedIndex = [i \in Server |-> 0]
        /\ lastIncludedTerm = [i \in Server |-> 0]
        /\ commitIndex = [i \in Server |-> 0]
        /\ nextIndex = [i \in Server |-> [j \in Server |-> IF i = new THEN 2 ELSE 1]]
        /\ matchIndex = [i \in Server |-> [j \in Server |-> 0]]
        /\ state = [i \in Server |-> IF i = third THEN "follower" ELSE "leader"]
        /\ votes = [i \in Server |-> IF i = third THEN {} ELSE {i, third}]
        /\ persister = [i \in Server |->
                          [currentTerm |-> term[i], votedFor |-> vote[i], log |-> logs[i],
                           lastIncludedIndex |-> 0, lastIncludedTerm |-> 0, snapshot |-> <<>>]]
        /\ heartbeating = {new, old}
        /\ captures = {}
        /\ net = EmptyBag
        /\ restarts = [i \in Server |-> 0]
        /\ ballots = UNION {{[term |-> w.term, voter |-> v, candidate |-> w.leader] :
                               v \in {w.leader, third}} : w \in won}
        /\ elected = won
        /\ committed = <<>>
        /\ leaderLogs = <<[term |-> 1, log |-> <<e(1)>>], [term |-> 2, log |-> <<e(2), e(2)>>],
                          [term |-> 3, log |-> logs[new]]>>
        /\ acked = {[term |-> 1, node |-> new, index |-> 1], [term |-> 2, node |-> old, index |-> 1],
                    [term |-> 2, node |-> old, index |-> 2], [term |-> 3, node |-> new, index |-> 2]}

DivergedSpec ==
    /\ Diverged(s1, s2)
    /\ [][Next]_vars
    /\ Fairness

=============================================================================
