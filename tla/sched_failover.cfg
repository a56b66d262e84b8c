CONSTANTS
    Node = {n1, n2}
    Caller = {c1, c2}
    Nil = Nil
    Job = {j1}
    Policies = {"other"}
    Requests = {}
    MaxMinute = 2
    MaxRuns = 2
    MaxLog = 6
    MaxElections = 1
    MaxCrashes = 0
SPECIFICATION Spec
SYMMETRY Symmetry
INVARIANT ExecutedOnce
CHECK_DEADLOCK FALSE
