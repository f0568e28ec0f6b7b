SPECIFICATION Spec
CONSTANTS
    plain = plain
    strict = strict
    Settings <- MCSettings
    CompactKeep = 2
    MaxTurns = 3
    MaxDeviations = 3
SYMMETRY Symmetry
INVARIANTS TypeOK ResumeYieldsLiveHistory RollbackDropsWholeTurns BaselineIsWhatWasTold PromptIsPaired
CHECK_DEADLOCK FALSE
