\* MCRateLimit: batches of 1 to 3 messages, 3 being a mail too large to split; and the whole of
\* schedule() on bounded inputs.
SPECIFICATION MCSpec
CONSTANTS
    Limit = 2
    Window = 3
    Margin = 1
    Sizes = {1, 2, 3}
    Keep = 3
    Hold = 1
    Start = 3
    MaxTime = 9
    MaxSlots = 5
    MaxLogged = 3
    MaxCosts = 3
    SlotLogs <- MCSlotLogs
    CostLists <- MCCostLists
CONSTRAINT Bounded
CHECK_DEADLOCK FALSE
INVARIANTS
    TypeOK
    LiveWithinLimit
    ProviderPaced
    PlanKeepsItsPromise
    LoopComputesSchedule
PROPERTY
    Terminates
