CONSTANTS
    Node = {n1, n2}
    Caller = {c1, c2}
    Nil = Nil
    Job = {j1}
    Policies = {"run_once"}
    Requests = {}
    MaxMinute = 2
    MaxRuns = 2
    MaxLog = 4
    MaxElections = 1
    MaxCrashes = 1
SPECIFICATION Spec
SYMMETRY Symmetry
INVARIANTS RunsUnique FinishedWasExecuted RepeatedOnlyByOthers RecordedBeforeRun
CHECK_DEADLOCK FALSE
