CONSTANTS
    Node = {n1}
    Caller = {c1, c2}
    Nil = Nil
    Job = {j1}
    Policies = {"skip", "run_once", "other"}
    Requests = {"create", "delete", "trigger"}
    MaxMinute = 2
    MaxRuns = 1
    MaxLog = 4
    MaxElections = 0
    MaxCrashes = 0
SPECIFICATION Spec
SYMMETRY Symmetry
INVARIANTS TypeOK RecordedBeforeRun
CHECK_DEADLOCK FALSE
