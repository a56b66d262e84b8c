CONSTANTS
    s1 = s1
    s2 = s2
    s3 = s3
    c1 = c1
    Nil = Nil
    Server = {s1, s2, s3}
    Command = {c1}
    Lossy = FALSE
    MaxTerm = 3
    MaxIndex = 2
    MaxSnapshotIndex = 2
    MaxRestarts = 0
    MaxRpcs = 1
SPECIFICATION DivergedSpec
PROPERTY LogsConverge
CHECK_DEADLOCK FALSE
