CONSTANTS
    s1 = s1
    s2 = s2
    s3 = s3
    c1 = c1
    Nil = Nil
    Server = {s1, s2, s3}
    Command = {c1}
    Lossy = TRUE
    MaxTerm = 2
    MaxIndex = 1
    MaxSnapshotIndex = 0
    MaxRestarts = 1
    MaxRpcs = 2
SPECIFICATION Spec
SYMMETRY Symmetry
VIEW LiveState
INVARIANTS ElectionSafety MatchIndexConfirmed CommittedDurable
CHECK_DEADLOCK FALSE
