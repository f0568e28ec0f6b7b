SPECIFICATION Spec
CONSTANTS
    MaxTurns = 5
    MaxSlots = 6
    UserItems = {u1, u2}
    Mails = {m1}
    TriggerMails = {m1}
    InjectedItems = {}
    RejectedPrompts = {}
    BlockedPrompts = {}
    GoalItems = {}
    MaxInterrupts = 0
    MaxOtherTasks = 0
    MaxDenials = 0
    MaxContinues = 0
    MaxSamples = 0
    AllowShutdown = FALSE
INVARIANT InstallsIntoFreeTurn
