---------------------------- MODULE ReplicaStore ----------------------------
(***************************************************************************)
(* What the store of one node promises to its readers and to the callers   *)
(* of Submit: its state is the result of the first entries of the log,     *)
(* each applied once and in order; nothing it shows is taken back while    *)
(* the node is up; the snapshot on disk is such a state too and only gets  *)
(* newer; and a write is acknowledged when it is on disk.  How the entries *)
(* get there (the two loops, the channel, the indices) is module           *)
(* ApplyPipeline, which is shown to implement this one.                    *)
(*                                                                         *)
(* The promise holds until exact becomes FALSE; nothing is promised after. *)
(***************************************************************************)
EXTENDS Naturals, Sequences

CONSTANT MaxIndex  \* entries of the log

VARIABLES
    running,  \* the store has been loaded since the last crash
    store,    \* the entries applied to the store, in order
    disk,     \* the entries in the snapshot on disk
    acked,    \* the entries whose caller was told of success
    exact     \* the promise still holds

vars == <<running, store, disk, acked, exact>>

Prefix(n) == [k \in 1 .. n |-> k]

Init ==
    /\ running = FALSE
    /\ store = <<>>
    /\ disk = <<>>
    /\ acked = {}
    /\ exact = TRUE

\* The store starts from the disk.
Load ==
    /\ ~running
    /\ running' = TRUE
    /\ store' = disk
    /\ UNCHANGED <<disk, acked>>

\* The next entry of the log goes into the store.
Apply ==
    /\ running
    /\ store' = Append(store, Len(store) + 1)
    /\ UNCHANGED <<running, disk, acked>>

\* The state of the store goes to disk, if it is newer.
Persist ==
    /\ Len(store) > Len(disk)
    /\ disk' = store
    /\ UNCHANGED <<running, store, acked>>

\* A snapshot of the log up to k comes from a leader and goes to disk ...
Receive(k) ==
    /\ k > Len(disk)
    /\ disk' = Prefix(k)
    /\ UNCHANGED <<running, store, acked>>

\* ... and one that came goes into the store, which never goes back.
Catchup(k) ==
    /\ running
    /\ k \in Len(store) .. Len(disk)
    /\ store' = Prefix(k)
    /\ UNCHANGED <<running, disk, acked>>

\* A caller is told that its write succeeded.
Ack(k) ==
    /\ k <= Len(disk)
    /\ acked' = acked \cup {k}
    /\ UNCHANGED <<running, store, disk>>

Crash ==
    /\ running' = FALSE
    /\ store' = <<>>
    /\ UNCHANGED <<disk, acked>>

Step ==
    \/ Load
    \/ Apply
    \/ Persist
    \/ \E k \in 1 .. MaxIndex : Receive(k) \/ Catchup(k) \/ Ack(k)
    \/ Crash

Next ==
    \/ exact /\ exact' /\ Step
    \/ ~exact'

Spec == Init /\ [][Next]_vars

=============================================================================
