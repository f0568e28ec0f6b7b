SPECIFICATION Spec
CONSTANTS
    Commands = {c1, c2, c3}
    Ids = {i1, i2}
    MaxProcesses = 1
    Protected = 0
    MaxSweeps = 1
    MaxWrites = 1
    MaxKills = 1
SYMMETRY Symmetry
INVARIANTS TypeOK NoOrphanProcess AnswerNamesOwnProcess EndReportedOnce
CHECK_DEADLOCK FALSE
