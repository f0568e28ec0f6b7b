SPECIFICATION LiveSpec
CONSTANTS
    MaxTurns = 3
    MaxSlots = 3
    UserItems = {u1, u2}
    Mails = {}
    TriggerMails = {}
    InjectedItems = {}
    RejectedPrompts = {}
    BlockedPrompts = {u2}
    GoalItems = {}
    MaxInterrupts = 1
    MaxOtherTasks = 1
    MaxDenials = 0
    MaxContinues = 0
    MaxSamples = 0
    AllowShutdown = FALSE
INVARIANT TypeOK
INVARIANT InstallsIntoFreeTurn
INVARIANT OneTerminalEvent
INVARIANT NothingLost
PROPERTY EveryTurnEnds
