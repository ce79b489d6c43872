\* MCInvoiceSend: two users who prepare and send at the same time, a delivery that goes wrong, and
\* reminders of both invoices through all levels.
SPECIFICATION Spec
CONSTANTS
    m1 = m1
    m2 = m2
    c1 = c1
    u1 = u1
    u2 = u2
    Invoices <- MCInvoices
    Customer <- MCCustomer
    Due <- MCDue
    LevelDays <- MCLevelDays
    LevelFee <- MCLevelFee
    Channels <- MCChannels
    Batches <- MCBatches
    NoAddress = {}
    NoNumber = {}
    Users = {u1, u2}
    MaxReminders = 4
    LastDay = 4
    ShortReminders = 2
    ShortDays = 2
    MaxFaults = 1
    MaxOther = 1
    CloseAtOnce = TRUE
CONSTRAINT ShortOrByHand
SYMMETRY UserSymmetry
CHECK_DEADLOCK FALSE
INVARIANTS
    LettersWhole
    InvoiceTellsReminders
    LeavesOnce
    LevelsRise
    FeesAskedFor
