------------------------------ MODULE MCWorker ------------------------------
(* The model values of the instances of Worker that TLC checks. *)
EXTENDS Worker

CONSTANTS w1, w2, p1

=============================================================================
