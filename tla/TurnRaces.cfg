SPECIFICATION Spec
CONSTANTS
    MaxTurns = 4
    MaxSlots = 6
    UserItems = {u1}
    Mails = {m1}
    TriggerMails = {m1}
    InjectedItems = {i1}
    RejectedPrompts = {}
    BlockedPrompts = {}
    GoalItems = {}
    MaxInterrupts = 0
    MaxOtherTasks = 0
    MaxDenials = 1
    MaxContinues = 0
    MaxSamples = 0
    AllowShutdown = TRUE
SYMMETRY SymmetricItems
INVARIANT AbortedTurnIsDead
INVARIANT RecordedOnce
