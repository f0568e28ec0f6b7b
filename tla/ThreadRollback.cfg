SPECIFICATION Spec
CONSTANTS
    plain = plain
    strict = strict
    Settings <- MCSettings
    CompactKeep = 3
    MaxTurns = 3
    MaxDeviations = 3
SYMMETRY Symmetry
INVARIANT RollbackKeepsOlderTurns
CHECK_DEADLOCK FALSE
