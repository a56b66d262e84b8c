---------------------------- MODULE MCScheduler ----------------------------
(* Instances of Scheduler for TLC. *)
EXTENDS Scheduler, TLC

\* Nodes and goroutines are interchangeable.
Symmetry == Permutations(Node) \cup Permutations(Caller)

=============================================================================
