CONSTANTS
    w1 = w1
    w2 = w2
    p1 = p1
    Nil = Nil
    Worker = {w1}
    Partition = {p1}
    Kinds = {"fetch_quotes", "run_predictions", "compute_indicators"}
    Tickers = 1
    MaxFirings = 1
    MaxFailures = 1
    MaxTime = 1
SPECIFICATION Spec
INVARIANT OneQuotePerKey
CHECK_DEADLOCK FALSE
