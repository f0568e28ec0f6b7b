SPECIFICATION FairSpec
CONSTANTS
    Threads = {t1}
    Workers = {w1, w2}
    UserModes = {"enabled", "disabled"}
    MaxSource = 1
    MaxFaults = 1
INVARIANTS TypeOK BaselineIsConsolidated MarkedIsConsolidated
PROPERTY PollutedIsForgotten
