SPECIFICATION Spec
CONSTANTS
    MaxTurns = 4
    MaxSlots = 6
    UserItems = {u1}
    Mails = {m1, m2}
    TriggerMails = {m1}
    InjectedItems = {}
    RejectedPrompts = {u1}
    BlockedPrompts = {}
    GoalItems = {g1}
    MaxInterrupts = 0
    MaxOtherTasks = 0
    MaxDenials = 0
    MaxContinues = 1
    MaxSamples = 1
    AllowShutdown = FALSE
SYMMETRY SymmetricItems
INVARIANT InstallsIntoFreeTurn
INVARIANT NothingLost
PROPERTY MailWaitsForNextTurn
