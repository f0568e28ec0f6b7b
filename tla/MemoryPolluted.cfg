SPECIFICATION FairSpec
CONSTANTS
    Threads = {t1}
    Workers = {w1}
    UserModes = {}
    MaxSource = 1
    MaxFaults = 0
PROPERTY PollutionIsKept
