SPECIFICATION Spec
CONSTANTS
    Scripts <- MCScripts
    MaxTurns = 2
    CallTurns = 1
INVARIANTS TypeOK ResponseMatchesOutcome InterruptIsNoRejection ConsentIsToThisCall GrantStaysInItsTurn
PROPERTY EverythingSettles
CHECK_DEADLOCK FALSE
