------------------------------ MODULE MCSubmit ------------------------------
(* Instances of SubmitClients for TLC. *)
EXTENDS SubmitClients, TLC

\* Nodes and callers are interchangeable.
Symmetry == Permutations(Node) \cup Permutations(Caller)

=============================================================================
