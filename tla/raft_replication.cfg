CONSTANTS
    s1 = s1
    s2 = s2
    s3 = s3
    c1 = c1
    Nil = Nil
    Server = {s1, s2, s3}
    Command = {c1}
    Lossy = TRUE
    MaxTerm = 3
    MaxIndex = 2
    MaxSnapshotIndex = 0
    MaxRestarts = 0
    MaxRpcs = 1
SPECIFICATION Spec
SYMMETRY Symmetry
VIEW LiveState
INVARIANTS CommittedAgreement LeaderCompleteness LogMatching
CHECK_DEADLOCK FALSE
