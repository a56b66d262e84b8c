CONSTANTS
    w1 = w1
    w2 = w2
    p1 = p1
    Nil = Nil
    Worker = {w1, w2}
    Partition = {p1}
    Kinds = {"fetch_quotes", "bad", "junk", "malformed"}
    Tickers = 1
    MaxFirings = 2
    MaxFailures = 1
    MaxTime = 1
SPECIFICATION FairSpec
INVARIANTS TypeOK CommittedWasRun 
PROPERTY ReportedIsRun
CHECK_DEADLOCK FALSE
