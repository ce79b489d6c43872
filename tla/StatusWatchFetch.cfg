\* MCStatusWatch: the button that takes over the registered address.
SPECIFICATION MCSpec
CONSTANTS
    PartnerCount = 2
    Numbers = {"works", "down", "vat"}
    Answers <- MCAnswers
    Contacts <- MCContacts
    Broken = {"down"}
    Names = {"own", "other"}
    RecheckTicks = 2
    RetryTicks = 1
    IncompleteTicks = 1
    IncompleteStop = 2
    NewBatch = 1
    DueBatch = 2
    MaxOverdue = 1
    MaxEvents = 2
CHECK_DEADLOCK FALSE
INVARIANT OldNumberIsVoid
