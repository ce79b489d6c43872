\* MCBankFeed: scheduled pulls of two accounts with failures, ended sessions and manual pulls.
SPECIFICATION Spec
CONSTANTS
    a1 = a1
    a2 = a2
    Accounts <- MCAccounts
    MaxSessions = 2
    ConsentDays = 2
    WarnDays = 0
    RetryDays = 0
    LastDay = 3
    MaxBooked = 2
    MaxFaults = 1
ACTION_CONSTRAINT Overlapping
SYMMETRY Symmetry
CHECK_DEADLOCK FALSE
INVARIANTS
    NothingMissed
    SessionsAgree
    AlarmIsRight
