---------------------------- MODULE SubmitProofs ----------------------------
(* Proofs about Submit with clients, for any nodes, callers and bounds. *)
EXTENDS SubmitClients, TLAPS, SequenceTheorems

Elems(s) == {s[k] : k \in 1 .. Len(s)}

LEMMA ElemsAppend ==
    ASSUME NEW s \in Seq(Caller), NEW e \in Caller
    PROVE  Append(s, e) \in Seq(Caller) /\ Elems(Append(s, e)) \subseteq Elems(s) \cup {e}
  BY DEF Elems

LEMMA ElemsSubSeq ==
    ASSUME NEW s \in Seq(Caller), NEW m \in 1 .. Len(s) + 1, NEW n \in 0 .. Len(s)
    PROVE  SubSeq(s, m, n) \in Seq(Caller) /\ Elems(SubSeq(s, m, n)) \subseteq Elems(s)
  BY SubSeqProperties DEF Elems

LEMMA ElemsConcat ==
    ASSUME NEW s \in Seq(Caller), NEW t \in Seq(Caller)
    PROVE  s \o t \in Seq(Caller) /\ Elems(s \o t) \subseteq Elems(s) \cup Elems(t)
  BY ConcatProperties DEF Elems

\* The sequences are sequences of callers and each caller is at one place of Submit.
ShapeOK ==
    /\ log \in Seq(Caller) /\ tail \in Seq(Caller) /\ inherited \in Nat
    /\ leader \in Node
    /\ deposed \in [Node -> [base : Nat, tail : Seq(Caller)]]
    /\ applied \in [Node -> Nat]
    /\ waiters \subseteq [node : Node, index : Nat, caller : Caller]
    /\ calls \in [Caller -> [pc : {"idle", "started", "waiting", "dead"} \cup Outcome,
                             node : Node \cup {Nil}, index : Nat]]
    /\ \A c \in Caller :
          /\ calls[c].pc = "idle" => calls[c].node = Nil
          /\ calls[c].pc \in {"started", "waiting"} => calls[c].node \in Node

\* Every log anywhere holds commands of callers that Start accepted: what one node refused
\* is in no log, not even in one that could still win.
AcceptedOnly ==
    \A c \in Caller :
        calls[c].pc \in {"idle", "ErrNotLeader"} =>
            /\ c \notin Elems(log)
            /\ c \notin Elems(tail)
            /\ \A i \in Node : c \notin Elems(deposed[i].tail)

SubmitInv == ShapeOK /\ AcceptedOnly /\ WaitersAreWaiting

LEMMA SubmitInitOK == Init => SubmitInv
  BY SubmitAssumption DEF Init, SubmitInit, SubmitInv, ShapeOK, AcceptedOnly,
     WaitersAreWaiting, Elems, NoCall, Outcome

LEMMA LastLogIndexNat ==
    ASSUME ShapeOK, NEW i \in Node
    PROVE  lastLogIndex(i) \in Nat
  BY DEF ShapeOK, lastLogIndex

LEMMA StartOK ==
    ASSUME SubmitInv, NEW c \in Caller, NEW i \in Node, Start(c, i, c)
    PROVE  SubmitInv'
  <1> USE DEF SubmitInv
  <1>1. CASE i \notin believes
    <2>1. /\ calls' = [calls EXCEPT ![c] = [pc |-> "ErrNotLeader", node |-> i, index |-> 0]]
          /\ calls[c].pc = "idle"
          /\ UNCHANGED <<log, tail, inherited, leader, deposed, applied, waiters>>
      BY <1>1 DEF Start, NoCall
    <2>2. ShapeOK'
      BY <2>1 DEF ShapeOK, Outcome
    <2>3. AcceptedOnly'
      BY <2>1 DEF AcceptedOnly, ShapeOK
    <2>4. WaitersAreWaiting'
      BY <2>1 DEF WaitersAreWaiting, ShapeOK
    <2> QED BY <2>2, <2>3, <2>4
  <1>2. CASE i \in believes
    <2>1. /\ calls' = [calls EXCEPT ![c] = [pc |-> "started", node |-> i,
                                            index |-> lastLogIndex(i) + 1]]
          /\ calls[c].pc = "idle"
          /\ UNCHANGED <<log, inherited, leader, applied, waiters>>
      BY <1>2 DEF Start
    <2>2. /\ tail' \in Seq(Caller) /\ Elems(tail') \subseteq Elems(tail) \cup {c}
          /\ deposed' \in [Node -> [base : Nat, tail : Seq(Caller)]]
          /\ \A j \in Node : Elems(deposed'[j].tail) \subseteq Elems(deposed[j].tail) \cup {c}
      <3>1. CASE i = leader
        <4>1. tail' = Append(tail, c) /\ deposed' = deposed /\ tail \in Seq(Caller)
          BY <1>2, <3>1 DEF Start, ShapeOK
        <4> QED BY <4>1, ElemsAppend DEF ShapeOK
      <3>2. CASE i # leader
        <4>1. /\ tail' = tail
              /\ deposed' = [deposed EXCEPT ![i].tail = Append(@, c)]
          BY <1>2, <3>2 DEF Start
        <4>2. /\ Append(deposed[i].tail, c) \in Seq(Caller)
              /\ Elems(Append(deposed[i].tail, c)) \subseteq Elems(deposed[i].tail) \cup {c}
          BY ElemsAppend DEF ShapeOK
        <4>3. /\ deposed' \in [Node -> [base : Nat, tail : Seq(Caller)]]
              /\ \A j \in Node : deposed'[j].tail = IF j = i THEN Append(deposed[i].tail, c)
                                                   ELSE deposed[j].tail
          BY <4>1, <4>2 DEF ShapeOK
        <4> QED BY <4>1, <4>2, <4>3 DEF ShapeOK
      <3> QED BY <3>1, <3>2
    <2>3. ShapeOK'
      <3>1. lastLogIndex(i) + 1 \in Nat
        BY LastLogIndexNat
      <3> QED BY <2>1, <2>2, <3>1 DEF ShapeOK
    <2>4. AcceptedOnly'
      BY <2>1, <2>2 DEF AcceptedOnly, ShapeOK
    <2>5. WaitersAreWaiting'
      BY <2>1 DEF WaitersAreWaiting, ShapeOK
    <2> QED BY <2>3, <2>4, <2>5
  <1> QED BY <1>1, <1>2

LEMMA RegisterOK ==
    ASSUME SubmitInv, NEW c \in Caller, registerWaiter(c)
    PROVE  SubmitInv'
  <1> DEFINE new == [node |-> calls[c].node, index |-> calls[c].index, caller |-> c]
  <1> USE DEF SubmitInv
  <1>1. /\ UNCHANGED <<log, tail, inherited, leader, deposed, applied>>
        /\ calls' = [calls EXCEPT ![c].pc = "waiting"] /\ calls[c].pc = "started"
        /\ waiters' \subseteq waiters \cup {new}
    BY DEF registerWaiter, raftVars
  <1>2. new \in [node : Node, index : Nat, caller : Caller]
    BY <1>1 DEF ShapeOK
  <1>3. ShapeOK'
    BY <1>1, <1>2 DEF ShapeOK
  <1>4. AcceptedOnly'
    BY <1>1 DEF AcceptedOnly, ShapeOK
  <1>5. WaitersAreWaiting'
    <2> SUFFICES ASSUME NEW w \in waiters'
                 PROVE  /\ calls'[w.caller].pc = "waiting"
                        /\ calls'[w.caller].node = w.node
                        /\ calls'[w.caller].index = w.index
      BY DEF WaitersAreWaiting
    <2>1. CASE w = new
      BY <1>1, <2>1 DEF ShapeOK
    <2>2. CASE w \in waiters
      BY <1>1, <2>2 DEF ShapeOK, WaitersAreWaiting
    <2> QED BY <1>1, <2>1, <2>2
  <1> QED BY <1>3, <1>4, <1>5

LEMMA TimeoutOK ==
    ASSUME SubmitInv, NEW c \in Caller, timeout(c)
    PROVE  SubmitInv'
  <1> USE DEF SubmitInv
  <1>1. /\ UNCHANGED <<log, tail, inherited, leader, deposed, applied>>
        /\ calls' = [calls EXCEPT ![c].pc = "ErrTimeout"]
        /\ waiters' = waiters \ waitersAt(calls[c].node, calls[c].index)
    BY DEF timeout, raftVars
  <1>2. ShapeOK'
    BY <1>1 DEF ShapeOK, Outcome
  <1>3. AcceptedOnly'
    BY <1>1 DEF AcceptedOnly, ShapeOK
  <1>4. WaitersAreWaiting'
    \* Removal goes by index, but the index of a waiter is that of its caller.
    BY <1>1 DEF WaitersAreWaiting, waitersAt, ShapeOK
  <1> QED BY <1>2, <1>3, <1>4

\* A caller is woken with all its waiters, which are one.
LEMMA ApplyOK ==
    ASSUME SubmitInv, NEW i \in Node, applyNext(i)
    PROVE  SubmitInv'
  <1> DEFINE woken == waitersAt(i, applied[i] + 1)
  <1> USE DEF SubmitInv
  <1>1. /\ UNCHANGED <<log, tail, inherited, leader, deposed>>
        /\ applied' = [applied EXCEPT ![i] = @ + 1]
        /\ waiters' = waiters \ woken
        /\ calls' = [c \in Caller |-> IF \E w \in woken : w.caller = c
                                      THEN [calls[c] EXCEPT !.pc = "nil"] ELSE calls[c]]
    BY DEF applyNext, raftVars
  <1>2. \A c \in Caller : \/ calls'[c] = calls[c]
                          \/ /\ calls[c].pc = "waiting"
                             /\ calls'[c] = [calls[c] EXCEPT !.pc = "nil"]
    BY <1>1 DEF waitersAt, WaitersAreWaiting
  <1>3. ShapeOK'
    <2>1. calls' \in [Caller -> [pc : {"idle", "started", "waiting", "dead"} \cup Outcome,
                                node : Node \cup {Nil}, index : Nat]]
      BY SMTT(60), <1>1, <1>2 DEF ShapeOK, Outcome
    <2>2. \A c \in Caller :
             /\ calls'[c].pc = "idle" => calls'[c].node = Nil
             /\ calls'[c].pc \in {"started", "waiting"} => calls'[c].node \in Node
      BY ZenonT(60), <1>2 DEF ShapeOK
    <2>3. applied' \in [Node -> Nat]
      BY <1>1 DEF ShapeOK
    <2> QED BY <1>1, <2>1, <2>2, <2>3 DEF ShapeOK
  <1>4. AcceptedOnly'
    BY <1>1, <1>2 DEF AcceptedOnly, ShapeOK
  <1>5. WaitersAreWaiting'
    <2> SUFFICES ASSUME NEW w \in waiters, w \notin woken
                 PROVE  calls'[w.caller] = calls[w.caller]
      BY <1>1 DEF WaitersAreWaiting
    <2>1. \A v \in woken : v.caller # w.caller
      BY DEF waitersAt, WaitersAreWaiting
    <2> QED BY <1>1, <2>1 DEF ShapeOK
  <1> QED BY <1>3, <1>4, <1>5

\* Commits and elections only move commands from one log to another.
LEMMA LogStepsOK ==
    ASSUME SubmitInv, commit \/ \E j \in Node : elect(j)
    PROVE  SubmitInv'
  <1> USE DEF SubmitInv
  <1>1. CASE commit
    <2>1. PICK n \in (inherited + 1) .. Len(tail) :
              /\ log' = log \o SubSeq(tail, 1, n)
              /\ tail' = SubSeq(tail, n + 1, Len(tail))
              /\ inherited' = 0
      BY <1>1 DEF commit
    <2>2. UNCHANGED <<leader, deposed, applied, waiters, calls>>
      BY <1>1 DEF commit
    <2>3. n \in 1 .. Len(tail) /\ Len(tail) \in Nat
      BY DEF ShapeOK
    <2>4. SubSeq(tail, 1, n) \in Seq(Caller) /\ Elems(SubSeq(tail, 1, n)) \subseteq Elems(tail)
      <3>1. tail \in Seq(Caller) /\ 1 \in 1 .. Len(tail) + 1 /\ n \in 0 .. Len(tail)
        BY <2>3 DEF ShapeOK
      <3> QED BY <3>1, ElemsSubSeq
    <2>5. tail' \in Seq(Caller) /\ Elems(tail') \subseteq Elems(tail)
      <3>1. tail \in Seq(Caller) /\ n + 1 \in 1 .. Len(tail) + 1 /\ Len(tail) \in 0 .. Len(tail)
        BY <2>3 DEF ShapeOK
      <3> QED BY <2>1, <3>1, ElemsSubSeq
    <2>6. log' \in Seq(Caller) /\ Elems(log') \subseteq Elems(log) \cup Elems(tail)
      <3>1. log \in Seq(Caller)
        BY DEF ShapeOK
      <3>2. Elems(log \o SubSeq(tail, 1, n)) \subseteq Elems(log) \cup Elems(SubSeq(tail, 1, n))
        BY <2>4, <3>1, ElemsConcat
      <3> QED BY <2>1, <2>4, <3>1, <3>2, ElemsConcat
    <2> QED BY <2>1, <2>2, <2>5, <2>6 DEF ShapeOK, AcceptedOnly, WaitersAreWaiting
  <1>2. CASE \E j \in Node : elect(j)
    <2>1. PICK j \in Node : elect(j)
      BY <1>2
    <2>2. UNCHANGED <<log, applied, waiters, calls>> /\ leader' = j /\ inherited' = Len(tail')
      BY <2>1 DEF elect
    <2>3. \/ tail' = tail
          \/ \E n \in 0 .. Len(tail) : tail' = SubSeq(tail, 1, n)
          \/ tail' = deposed[j].tail
      BY <2>1 DEF elect
    <2>4. \A n \in 0 .. Len(tail) :
             SubSeq(tail, 1, n) \in Seq(Caller) /\ Elems(SubSeq(tail, 1, n)) \subseteq Elems(tail)
      <3>1. tail \in Seq(Caller) /\ 1 \in 1 .. Len(tail) + 1
        BY DEF ShapeOK
      <3> QED BY <3>1, ElemsSubSeq
    <2>5. /\ tail' \in Seq(Caller) /\ Len(tail') \in Nat
          /\ Elems(tail') \subseteq Elems(tail) \cup Elems(deposed[j].tail)
      <3>1. tail' \in Seq(Caller) /\ Elems(tail') \subseteq Elems(tail) \cup Elems(deposed[j].tail)
        <4>1. CASE tail' = tail
          BY <4>1 DEF ShapeOK
        <4>2. CASE \E n \in 0 .. Len(tail) : tail' = SubSeq(tail, 1, n)
          BY <4>2, <2>4
        <4>3. CASE tail' = deposed[j].tail
          BY <4>3 DEF ShapeOK
        <4> QED BY <2>3, <4>1, <4>2, <4>3
      <3> QED BY <3>1
    <2>6. /\ deposed' \in [Node -> [base : Nat, tail : Seq(Caller)]]
          /\ \A i \in Node : deposed'[i].tail \in {deposed[i].tail, tail}
      <3>1. CASE j = leader
        BY <2>1, <3>1 DEF elect, ShapeOK
      <3>2. CASE j # leader
        <4>1. deposed' = [deposed EXCEPT ![leader] = [base |-> Len(log), tail |-> tail]]
          BY <2>1, <3>2 DEF elect
        <4>2. [base |-> Len(log), tail |-> tail] \in [base : Nat, tail : Seq(Caller)]
          BY DEF ShapeOK
        <4> QED BY <4>1, <4>2 DEF ShapeOK
      <3> QED BY <3>1, <3>2
    <2>7. ShapeOK'
      BY <2>2, <2>5, <2>6 DEF ShapeOK
    <2>8. AcceptedOnly'
      BY <2>2, <2>5, <2>6 DEF AcceptedOnly
    <2> QED BY <2>2, <2>7, <2>8 DEF WaitersAreWaiting
  <1> QED BY <1>1, <1>2

LEMMA CrashOK ==
    ASSUME SubmitInv, NEW i \in Node, crash(i)
    PROVE  SubmitInv'
  <1> USE DEF SubmitInv
  <1>1. /\ UNCHANGED <<log, tail, inherited, leader, deposed, applied>>
        /\ waiters' = {w \in waiters : w.node # i}
        /\ \A c \in Caller : calls'[c] = IF calls[c].node = i
                                        THEN [pc |-> "dead", node |-> Nil, index |-> 0]
                                        ELSE calls[c]
        /\ calls' = [c \in Caller |-> calls'[c]]
    BY DEF crash, NoCall
  <1>2. ShapeOK'
    BY SMTT(60), <1>1 DEF ShapeOK
  <1>3. AcceptedOnly'
    BY <1>1 DEF AcceptedOnly
  <1>4. WaitersAreWaiting'
    BY <1>1 DEF WaitersAreWaiting, ShapeOK
  <1> QED BY <1>2, <1>3, <1>4

LEMMA SubmitNextOK == SubmitInv /\ [Next]_vars => SubmitInv'
  <1> SUFFICES ASSUME SubmitInv, [Next]_vars PROVE SubmitInv'
    OBVIOUS
  <1>1. ASSUME NEW i \in Node, NEW j \in Node, applySnapshot(i, j) PROVE SubmitInv'
    BY <1>1 DEF SubmitInv, ShapeOK, AcceptedOnly, WaitersAreWaiting, applySnapshot, raftVars
  <1>2. ASSUME NEW i \in Node, stepDown(i) PROVE SubmitInv'
    BY <1>2 DEF SubmitInv, ShapeOK, AcceptedOnly, WaitersAreWaiting, stepDown
  <1>3. CASE UNCHANGED vars
    BY <1>3 DEF SubmitInv, ShapeOK, AcceptedOnly, WaitersAreWaiting, vars, submitVars, raftVars
  <1> QED
    BY <1>1, <1>2, <1>3, StartOK, RegisterOK, TimeoutOK, ApplyOK, LogStepsOK, CrashOK DEF Next, Step

\* No waiter outlives its Submit, and a waiter's place in the map is that of its caller:
\* the clean-up by index never leaks one.
THEOREM NoWaiterLeaks == Spec => []WaitersAreWaiting
  <1>1. SubmitInv => WaitersAreWaiting
    BY DEF SubmitInv
  <1> QED BY <1>1, SubmitInitOK, SubmitNextOK, PTL DEF Spec

\* A command that Start refused is never committed by anyone.
THEOREM RejectedStaysOut == Spec => []RejectedNeverCommitted
  <1>1. SubmitInv => RejectedNeverCommitted
    BY DEF SubmitInv, AcceptedOnly, RejectedNeverCommitted, Elems
  <1> QED BY <1>1, SubmitInitOK, SubmitNextOK, PTL DEF Spec

-----------------------------------------------------------------------------
(* What a caller that got nil may rely on *)

\* The entry of c is in the tail of the newest leader, which c called.
inTail(c) ==
    /\ calls[c].pc # "nil" /\ calls[c].node = leader
    /\ calls[c].index \in Len(log) + 1 .. Len(log) + Len(tail)
    /\ tail[calls[c].index - Len(log)] = c

\* A caller that nobody overtook has its command at its index, in the log or in the tail.
EntryInv ==
    /\ \A i \in Node : applied[i] <= Len(log)
    /\ \A c \in Caller \ overtaken :
          /\ calls[c].pc \in {"started", "waiting", "nil"} => isCommitted(c) \/ inTail(c)
          /\ calls[c].pc = "nil" => /\ calls[c].node \in Node
                                    /\ calls[c].index <= applied[calls[c].node]

LEMMA EntryInit == Init => EntryInv
  BY DEF Init, SubmitInit, EntryInv, NoCall

\* The step takes d out of the picture or leaves its entry alone.
leftAlone(d) ==
    \/ calls'[d].pc \notin {"started", "waiting", "nil"}
    \/ /\ calls[d].pc \in {"started", "waiting", "nil"}
       /\ calls'[d].node = calls[d].node
       /\ calls'[d].index = calls[d].index
       /\ calls'[d].pc = "nil" => calls[d].pc = "nil"

\* Steps that leave the logs alone and at most take callers out of the picture
LEMMA EntryKept ==
    ASSUME ShapeOK, EntryInv, UNCHANGED <<log, tail, leader>>,
           overtaken \subseteq overtaken',
           applied' \in [Node -> Nat],
           \A i \in Node : applied[i] <= applied'[i] /\ applied'[i] <= Len(log),
           \A c \in Caller : leftAlone(c)
    PROVE  EntryInv'
  <1> SUFFICES ASSUME NEW c \in Caller \ overtaken',
                      calls'[c].pc \in {"started", "waiting", "nil"}
               PROVE  /\ isCommitted(c)' \/ inTail(c)'
                      /\ calls'[c].pc = "nil" => /\ calls'[c].node \in Node
                                                 /\ calls'[c].index <= applied'[calls'[c].node]
    BY DEF EntryInv
  <1>1. /\ calls[c].pc \in {"started", "waiting", "nil"}
        /\ calls'[c].node = calls[c].node /\ calls'[c].index = calls[c].index
        /\ calls'[c].pc = "nil" => calls[c].pc = "nil"
        /\ calls[c].index \in Nat
    BY DEF ShapeOK, leftAlone
  <1>2. isCommitted(c) \/ inTail(c)
    BY <1>1 DEF EntryInv
  <1>3. isCommitted(c)' \/ inTail(c)'
    <2>1. CASE isCommitted(c)
      BY <1>1, <2>1 DEF isCommitted
    <2>2. CASE inTail(c)
      BY <1>1, <2>2 DEF inTail
    <2> QED BY <1>2, <2>1, <2>2
  <1>4. ASSUME calls'[c].pc = "nil"
        PROVE  calls'[c].node \in Node /\ calls'[c].index <= applied'[calls'[c].node]
    <2>1. calls[c].node \in Node /\ calls[c].index <= applied[calls[c].node]
      BY <1>1, <1>4 DEF EntryInv
    <2> QED BY <1>1, <2>1 DEF ShapeOK
  <1> QED BY <1>3, <1>4

LEMMA EntryStart ==
    ASSUME ShapeOK, EntryInv, NEW c \in Caller, NEW i \in Node, Start(c, i, c),
           overtaken' = overtaken \cup atDeposed'
    PROVE  EntryInv'
  <1>1. CASE i \notin believes
    <2>1. /\ calls' = [calls EXCEPT ![c] = [pc |-> "ErrNotLeader", node |-> i, index |-> 0]]
          /\ UNCHANGED <<log, tail, leader, applied>>
      BY <1>1 DEF Start, NoCall
    <2>2. \A d \in Caller : d # c => calls'[d] = calls[d]
      BY <2>1 DEF ShapeOK
    <2>3. calls'[c].pc = "ErrNotLeader"
      BY <2>1 DEF ShapeOK
    <2>4. \A d \in Caller : leftAlone(d)
      BY <2>2, <2>3 DEF leftAlone
    <2>5. /\ applied' \in [Node -> Nat]
          /\ \A j \in Node : applied[j] <= applied'[j] /\ applied'[j] <= Len(log)
      BY <2>1 DEF EntryInv, ShapeOK
    <2> QED BY <2>1, <2>4, <2>5, EntryKept
  <1>2. CASE i \in believes
    <2>1. /\ calls' = [calls EXCEPT ![c] = [pc |-> "started", node |-> i,
                                            index |-> lastLogIndex(i) + 1]]
          /\ UNCHANGED <<log, leader, applied>>
      BY <1>2 DEF Start
    <2>2. calls'[c] = [pc |-> "started", node |-> i, index |-> lastLogIndex(i) + 1]
      BY <2>1 DEF ShapeOK
    <2>3. \A d \in Caller : d # c => calls'[d] = calls[d]
      BY <2>1 DEF ShapeOK
    <2>4. tail' = IF i = leader THEN Append(tail, c) ELSE tail
      BY <1>2 DEF Start
    <2>5. /\ tail \in Seq(Caller) /\ log \in Seq(Caller) /\ Len(tail) \in Nat /\ Len(log) \in Nat
      BY DEF ShapeOK
    <2>6. /\ Len(tail') >= Len(tail) /\ Len(tail') \in Nat
          /\ \A k \in 1 .. Len(tail) : tail'[k] = tail[k]
      BY <2>4, <2>5
    <2>7. \A d \in Caller \ overtaken' : calls'[d].pc \in {"started", "waiting", "nil"} =>
             isCommitted(d)' \/ inTail(d)'
      <3>1. ASSUME NEW d \in Caller \ overtaken', d # c,
                   calls'[d].pc \in {"started", "waiting", "nil"}
            PROVE  isCommitted(d)' \/ inTail(d)'
        <4>1. isCommitted(d) \/ inTail(d)
          BY <2>3, <3>1 DEF EntryInv
        <4>2. CASE isCommitted(d)
          BY <2>1, <2>3, <3>1, <4>2 DEF isCommitted
        <4>3. CASE inTail(d)
          BY SMTT(60), <2>1, <2>3, <2>5, <2>6, <3>1, <4>3 DEF inTail
        <4> QED BY <4>1, <4>2, <4>3
      <3>2. CASE i = leader
        <4>1. /\ lastLogIndex(i) + 1 = Len(log') + Len(tail) + 1
              /\ tail' = Append(tail, c)
          BY <2>1, <2>4, <3>2 DEF lastLogIndex
        <4>2. Len(tail') = Len(tail) + 1 /\ tail'[Len(tail) + 1] = c
          BY <2>5, <4>1
        <4>3. inTail(c)'
          BY <2>1, <2>2, <2>5, <3>2, <4>1, <4>2 DEF inTail
        <4> QED BY <3>1, <4>3
      <3>3. CASE i # leader
        <4>1. c \in atDeposed' \/ isCommitted(c)'
          BY <2>1, <2>2, <3>3 DEF atDeposed
        <4> QED BY <3>1, <4>1
      <3> QED BY <3>2, <3>3
    <2>8. \A d \in Caller \ overtaken' : calls'[d].pc = "nil" =>
              calls'[d].node \in Node /\ calls'[d].index <= applied'[calls'[d].node]
      <3>1. \A d \in Caller : calls'[d].pc = "nil" => d # c
        BY <2>2
      <3> QED BY <2>1, <2>3, <3>1 DEF EntryInv
    <2>9. \A j \in Node : applied'[j] <= Len(log')
      BY <2>1 DEF EntryInv
    <2> QED BY <2>7, <2>8, <2>9 DEF EntryInv
  <1> QED BY <1>1, <1>2

\* Only the waiter of the index that is applied is woken, and that index is committed.
LEMMA EntryApply ==
    ASSUME SubmitInv, EntryInv, NEW i \in Node, applyNext(i),
           overtaken \subseteq overtaken'
    PROVE  EntryInv'
  <1> DEFINE woken == waitersAt(i, applied[i] + 1)
  <1>1. /\ UNCHANGED <<log, tail, leader>>
        /\ applied' = [applied EXCEPT ![i] = @ + 1]
        /\ applied[i] < Len(log)
        /\ calls' = [c \in Caller |-> IF \E w \in woken : w.caller = c
                                      THEN [calls[c] EXCEPT !.pc = "nil"] ELSE calls[c]]
    BY DEF applyNext, mayApply, raftVars
  <1>2. \A c \in Caller : \/ calls'[c] = calls[c]
                          \/ /\ calls[c].pc = "waiting" /\ calls[c].node = i
                             /\ calls[c].index = applied[i] + 1
                             /\ calls'[c] = [calls[c] EXCEPT !.pc = "nil"]
    BY <1>1 DEF waitersAt, SubmitInv, WaitersAreWaiting
  <1>3. /\ Len(log) \in Nat /\ applied \in [Node -> Nat]
        /\ \A j \in Node : applied'[j] = IF j = i THEN applied[i] + 1 ELSE applied[j]
        /\ \A j \in Node : applied[j] <= applied'[j] /\ applied'[j] <= Len(log)
    BY <1>1 DEF SubmitInv, ShapeOK, EntryInv
  <1> SUFFICES ASSUME NEW c \in Caller \ overtaken',
                      calls'[c].pc \in {"started", "waiting", "nil"}
               PROVE  /\ isCommitted(c)' \/ inTail(c)'
                      /\ calls'[c].pc = "nil" => /\ calls'[c].node \in Node
                                                 /\ calls'[c].index <= applied'[calls'[c].node]
    BY <1>1, <1>3 DEF EntryInv
  <1>4. calls[c].pc \in {"started", "waiting", "nil"} /\ calls[c].index \in Nat
    BY <1>2 DEF SubmitInv, ShapeOK
  <1>5. isCommitted(c) \/ inTail(c)
    BY <1>4 DEF EntryInv
  <1>6. CASE calls'[c] = calls[c]
    <2>1. isCommitted(c)' \/ inTail(c)'
      BY <1>1, <1>5, <1>6 DEF isCommitted, inTail
    <2>2. ASSUME calls[c].pc = "nil"
          PROVE  calls[c].node \in Node /\ calls[c].index <= applied'[calls[c].node]
      <3>1. calls[c].node \in Node /\ calls[c].index <= applied[calls[c].node]
        BY <2>2 DEF EntryInv
      <3> QED BY <1>3, <1>4, <3>1
    <2> QED BY <1>6, <2>1, <2>2
  <1>7. CASE /\ calls[c].pc = "waiting" /\ calls[c].node = i
             /\ calls[c].index = applied[i] + 1
             /\ calls'[c] = [calls[c] EXCEPT !.pc = "nil"]
    <2>1. calls'[c].node = i /\ calls'[c].index = applied[i] + 1
      BY <1>7 DEF SubmitInv, ShapeOK
    <2>2. ~inTail(c)
      BY <1>1, <1>3, <1>7 DEF inTail
    <2>3. isCommitted(c)'
      BY <1>1, <1>5, <1>7, <2>1, <2>2 DEF isCommitted
    <2> QED BY <1>3, <2>1, <2>3
  <1> QED BY <1>2, <1>6, <1>7

\* A commit moves the front of the tail to the end of the log, index by index.
LEMMA EntryCommit ==
    ASSUME ShapeOK, EntryInv, commit, overtaken \subseteq overtaken'
    PROVE  EntryInv'
  <1>1. PICK n \in (inherited + 1) .. Len(tail) :
            /\ log' = log \o SubSeq(tail, 1, n)
            /\ tail' = SubSeq(tail, n + 1, Len(tail))
    BY DEF commit
  <1>2. UNCHANGED <<leader, applied, calls>>
    BY DEF commit
  <1>3. /\ log \in Seq(Caller) /\ tail \in Seq(Caller) /\ n \in 1 .. Len(tail)
        /\ Len(log) \in Nat /\ Len(tail) \in Nat
    BY <1>1 DEF ShapeOK
  <1>4. /\ SubSeq(tail, 1, n) \in Seq(Caller) /\ Len(SubSeq(tail, 1, n)) = n
        /\ \A k \in 1 .. n : SubSeq(tail, 1, n)[k] = tail[k]
    BY <1>3, SubSeqProperties
  <1>5. /\ Len(tail') = Len(tail) - n
        /\ \A k \in 1 .. Len(tail) - n : tail'[k] = tail[n + k]
    BY <1>1, <1>3, SubSeqProperties
  <1>6. /\ Len(log') = Len(log) + n
        /\ \A k \in 1 .. Len(log) : log'[k] = log[k]
        /\ \A k \in Len(log) + 1 .. Len(log) + n : log'[k] = tail[k - Len(log)]
    BY <1>1, <1>3, <1>4, ConcatProperties
  <1>7. ASSUME NEW c \in Caller, isCommitted(c) \/ inTail(c)
        PROVE  isCommitted(c)' \/ inTail(c)'
    <2>1. calls[c].index \in Nat
      BY DEF ShapeOK
    <2>2. CASE isCommitted(c)
      BY <1>2, <1>3, <1>6, <2>1, <2>2 DEF isCommitted
    <2>3. CASE inTail(c) /\ calls[c].index <= Len(log) + n
      <3>1. /\ calls[c].index \in Len(log) + 1 .. Len(log) + n
            /\ tail[calls[c].index - Len(log)] = c
        BY <1>3, <2>1, <2>3 DEF inTail
      <3>2. log'[calls[c].index] = c /\ calls[c].index \in 1 .. Len(log')
        BY <1>3, <1>6, <3>1
      <3> QED BY <1>2, <3>2 DEF isCommitted
    <2>4. CASE inTail(c) /\ calls[c].index > Len(log) + n
      <3>1. calls[c].index - Len(log') \in 1 .. Len(tail) - n
        BY <1>3, <1>6, <2>1, <2>4 DEF inTail
      <3>2. tail'[calls[c].index - Len(log')] = tail[n + (calls[c].index - Len(log'))]
        BY <1>5, <3>1
      <3>3. n + (calls[c].index - Len(log')) = calls[c].index - Len(log)
        BY <1>3, <1>6, <2>1
      <3>4. calls[c].index \in Len(log') + 1 .. Len(log') + Len(tail')
        BY <1>3, <1>5, <1>6, <2>1, <3>1
      <3> QED BY <1>2, <2>4, <3>2, <3>3, <3>4 DEF inTail
    <2> QED BY <1>3, <1>7, <2>1, <2>2, <2>3, <2>4
  <1>8. \A i \in Node : applied'[i] <= Len(log')
    BY <1>2, <1>3, <1>6 DEF EntryInv, ShapeOK
  <1> QED BY <1>2, <1>7, <1>8 DEF EntryInv

\* Whoever waits at the old leader with an entry in its tail is overtaken.
LEMMA EntryElect ==
    ASSUME ShapeOK, EntryInv, NEW j \in Node, elect(j),
           overtaken' = overtaken \cup atDeposed'
    PROVE  EntryInv'
  <1>1. UNCHANGED <<log, applied, calls>> /\ leader' = j
    BY DEF elect
  <1>2. j = leader => tail' = tail
    BY DEF elect
  <1>3. ASSUME NEW c \in Caller \ overtaken', calls[c].pc \in {"started", "waiting", "nil"}
        PROVE  isCommitted(c)' \/ inTail(c)'
    <2>1. isCommitted(c) \/ inTail(c)
      BY <1>3 DEF EntryInv
    <2>2. CASE isCommitted(c)
      BY <1>1, <2>2 DEF isCommitted
    <2>3. CASE inTail(c) /\ j = leader
      BY <1>1, <1>2, <2>3 DEF inTail
    <2>4. CASE inTail(c) /\ j # leader
      <3>1. calls[c].pc \in {"started", "waiting"} /\ calls[c].node # j
        BY <1>3, <2>4 DEF inTail
      <3>2. c \notin atDeposed'
        BY <1>3
      <3> QED BY <1>1, <3>1, <3>2 DEF atDeposed
    <2> QED BY <2>1, <2>2, <2>3, <2>4
  <1> QED BY <1>1, <1>3 DEF EntryInv

LEMMA EntryNext == SubmitInv /\ EntryInv /\ [Next]_vars => EntryInv'
  <1> SUFFICES ASSUME SubmitInv, EntryInv, [Next]_vars PROVE EntryInv'
    OBVIOUS
  <1>1. CASE UNCHANGED vars
    BY <1>1 DEF EntryInv, isCommitted, inTail, vars, submitVars, raftVars
  <1> SUFFICES ASSUME Step, overtaken' = overtaken \cup atDeposed'
               PROVE  EntryInv'
    BY <1>1 DEF Next
  <1> USE DEF SubmitInv
  <1>2. /\ applied \in [Node -> Nat] /\ Len(log) \in Nat
        /\ \A i \in Node : applied[i] <= applied[i] /\ applied[i] <= Len(log)
    BY DEF ShapeOK, EntryInv
  <1>3. ASSUME NEW c \in Caller, registerWaiter(c) \/ timeout(c) PROVE EntryInv'
    <2>1. UNCHANGED <<log, tail, leader, applied>>
      BY <1>3 DEF registerWaiter, timeout, raftVars
    <2>2. /\ calls[c].pc \in {"started", "waiting"}
          /\ \/ calls' = [calls EXCEPT ![c].pc = "waiting"]
             \/ calls' = [calls EXCEPT ![c].pc = "ErrTimeout"]
      BY <1>3 DEF registerWaiter, timeout
    <2>3. \A d \in Caller : leftAlone(d)
      <3>1. \A d \in Caller : d # c => calls'[d] = calls[d]
        BY <2>2 DEF ShapeOK
      <3>2. /\ calls'[c].pc \in {"waiting", "ErrTimeout"}
            /\ calls'[c].node = calls[c].node /\ calls'[c].index = calls[c].index
        BY <2>2 DEF ShapeOK
      <3> QED BY <2>2, <3>1, <3>2 DEF leftAlone
    <2> QED BY <1>2, <2>1, <2>3, EntryKept
  <1>4. ASSUME NEW i \in Node, NEW j \in Node, applySnapshot(i, j) PROVE EntryInv'
    <2>1. /\ UNCHANGED <<log, tail, leader, calls>>
          /\ applied' = [applied EXCEPT ![i] = applied[j]] /\ applied[i] < applied[j]
      BY <1>4 DEF applySnapshot, raftVars
    <2>2. /\ applied' \in [Node -> Nat]
          /\ \A k \in Node : applied[k] <= applied'[k] /\ applied'[k] <= Len(log)
      BY <1>2, <2>1
    <2>3. \A d \in Caller : leftAlone(d)
      BY <2>1 DEF leftAlone
    <2> QED BY <2>1, <2>2, <2>3, EntryKept
  <1>5. ASSUME NEW i \in Node, stepDown(i) PROVE EntryInv'
    <2>1. UNCHANGED <<log, tail, leader, applied, calls>>
      BY <1>5 DEF stepDown
    <2>2. \A d \in Caller : leftAlone(d)
      BY <2>1 DEF leftAlone
    <2> QED BY <1>2, <2>1, <2>2, EntryKept
  <1>6. ASSUME NEW i \in Node, crash(i) PROVE EntryInv'
    <2>1. UNCHANGED <<log, tail, leader, applied>>
      BY <1>6 DEF crash
    <2>2. \A c \in Caller : calls'[c] = calls[c] \/ calls'[c].pc = "dead"
      BY <1>6 DEF crash, NoCall
    <2>3. \A d \in Caller : leftAlone(d)
      BY <2>2 DEF leftAlone
    <2> QED BY <1>2, <2>1, <2>3, EntryKept
  <1> QED
    BY <1>3, <1>4, <1>5, <1>6, EntryStart, EntryApply, EntryCommit, EntryElect DEF Step

\* When Submit returns nil, the command of that caller is committed at the index Start gave
\* it and is in the store of its node, unless another node was elected before the commit.
THEOREM NilIsTheCallersOwn == Spec => []NilMeansCommitted
  <1>1. EntryInv => NilMeansCommitted
    BY DEF EntryInv, NilMeansCommitted, inTail
  <1> QED BY <1>1, SubmitInitOK, SubmitNextOK, EntryInit, EntryNext, PTL DEF Spec

-----------------------------------------------------------------------------
(* Types *)

\* One waiter for each node and index: registerWaiter takes the place of whoever has it.
OnePerPlace == \A v, w \in waiters : v.node = w.node /\ v.index = w.index => v = w

CountersOK ==
    /\ inherited <= Len(tail)
    /\ believes \subseteq Node
    /\ elections \in Nat /\ crashes \in Nat
    /\ overtaken \subseteq Caller

PlacesInv == CountersOK /\ OnePerPlace

LEMMA PlacesInit == Init => PlacesInv
  BY DEF Init, SubmitInit, PlacesInv, CountersOK, OnePerPlace

LEMMA PlaceTaken ==
    ASSUME OnePerPlace, NEW c \in Caller, registerWaiter(c)
    PROVE  OnePerPlace'
  <1> DEFINE new == [node |-> calls[c].node, index |-> calls[c].index, caller |-> c]
  <1>1. waiters' = (waiters \ waitersAt(new.node, new.index)) \cup {new}
    BY DEF registerWaiter
  <1> HIDE DEF new
  <1> QED BY <1>1 DEF OnePerPlace, waitersAt

LEMMA PlacesNext == SubmitInv /\ SubmitInv' /\ PlacesInv /\ [Next]_vars => PlacesInv'
  <1> SUFFICES ASSUME SubmitInv, SubmitInv', PlacesInv, [Next]_vars PROVE PlacesInv'
    OBVIOUS
  <1>1. CASE UNCHANGED vars
    BY <1>1 DEF vars, submitVars, raftVars, PlacesInv, CountersOK, OnePerPlace
  <1> SUFFICES ASSUME Step, overtaken' = overtaken \cup atDeposed' PROVE PlacesInv'
    BY <1>1 DEF Next
  <1>2. overtaken' \subseteq Caller
    BY DEF PlacesInv, CountersOK, atDeposed
  <1>3. /\ inherited \in Nat /\ Len(tail) \in Nat /\ inherited <= Len(tail) /\ OnePerPlace
        /\ Len(tail') \in Nat /\ believes \subseteq Node /\ elections \in Nat /\ crashes \in Nat
    BY SMTT(60) DEF SubmitInv, ShapeOK, PlacesInv, CountersOK
  <1> SUFFICES /\ inherited' <= Len(tail') /\ believes' \subseteq Node
               /\ elections' \in Nat /\ crashes' \in Nat /\ OnePerPlace'
    BY <1>2 DEF PlacesInv, CountersOK
  <1> DEFINE Goal == /\ inherited' <= Len(tail') /\ believes' \subseteq Node
                     /\ elections' \in Nat /\ crashes' \in Nat /\ OnePerPlace'
  <1>4. ASSUME NEW c \in Caller, NEW i \in Node, Start(c, i, c) PROVE Goal
    <2>1. UNCHANGED <<inherited, believes, elections, crashes, waiters>>
      BY <1>4 DEF Start
    <2>2. tail' = tail \/ tail' = Append(tail, c)
      BY <1>4 DEF Start
    <2>3. Len(tail') >= Len(tail)
      <3>1. tail \in Seq(Caller)
        BY DEF SubmitInv, ShapeOK
      <3>2. Len(Append(tail, c)) = Len(tail) + 1
        BY <3>1
      <3> QED BY <1>3, <2>2, <3>2
    <2> QED BY <1>3, <2>1, <2>3 DEF OnePerPlace
  <1>5. ASSUME NEW c \in Caller, registerWaiter(c) PROVE Goal
    <2>1. UNCHANGED <<inherited, tail, believes, elections, crashes>>
      BY <1>5 DEF registerWaiter, raftVars
    <2> QED BY <1>3, <1>5, <2>1, PlaceTaken
  <1>6. ASSUME UNCHANGED <<inherited, tail, believes, elections, crashes>>,
               waiters' \subseteq waiters
        PROVE  Goal
    BY <1>3, <1>6 DEF OnePerPlace
  <1>7. ASSUME NEW c \in Caller, timeout(c) PROVE Goal
    BY <1>6, <1>7 DEF timeout, raftVars
  <1>8. ASSUME NEW i \in Node, applyNext(i) PROVE Goal
    BY <1>6, <1>8 DEF applyNext, raftVars
  <1>9. ASSUME NEW i \in Node, NEW j \in Node, applySnapshot(i, j) PROVE Goal
    BY <1>6, <1>9 DEF applySnapshot, raftVars
  <1>10. ASSUME commit PROVE Goal
    <2>1. inherited' = 0 /\ UNCHANGED <<believes, elections, crashes, waiters>>
      BY <1>10 DEF commit
    <2> QED BY <1>3, <2>1 DEF OnePerPlace
  <1>11. ASSUME NEW j \in Node, elect(j) PROVE Goal
    <2>1. /\ inherited' = Len(tail') /\ believes' = believes \cup {j}
          /\ elections' = elections + 1 /\ UNCHANGED <<crashes, waiters>>
      BY <1>11 DEF elect
    <2> QED BY <1>3, <2>1 DEF OnePerPlace
  <1>12. ASSUME NEW i \in Node, stepDown(i) PROVE Goal
    BY <1>3, <1>12 DEF stepDown, OnePerPlace
  <1>13. ASSUME NEW i \in Node, crash(i) PROVE Goal
    BY <1>3, <1>13 DEF crash, OnePerPlace
  <1> HIDE DEF Goal
  <1>14. Goal
    BY <1>4, <1>5, <1>7, <1>8, <1>9, <1>10, <1>11, <1>12, <1>13 DEF Step
  <1> QED BY <1>14 DEF Goal

\* The shape of the state: in particular Store.waiters never has two callers for one index of
\* a node, whichever leaders handed the index out, and no store is ahead of the log.
THEOREM SubmitTypes == Spec => []TypeOK
  <1>1. SubmitInv /\ EntryInv /\ PlacesInv => TypeOK
    BY DEF SubmitInv, ShapeOK, EntryInv, PlacesInv, CountersOK, OnePerPlace, TypeOK
  <1> QED
    BY <1>1, SubmitInitOK, SubmitNextOK, EntryInit, EntryNext, PlacesInit, PlacesNext, PTL DEF Spec

=============================================================================
