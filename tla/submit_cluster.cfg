CONSTANTS
    Node = {n1, n2}
    Caller = {c1, c2, c3}
    Nil = Nil
    MaxLog = 3
    MaxElections = 3
    MaxCrashes = 1
SPECIFICATION Spec
SYMMETRY Symmetry
INVARIANTS TypeOK WaitersAreWaiting RejectedNeverCommitted NilMeansCommitted
CHECK_DEADLOCK FALSE
