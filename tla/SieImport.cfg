\* MCSieImport: a user beside the scheduled action, with stops, undos, kills and other users.
SPECIFICATION Spec
CONSTANTS
    Vouchers <- MCVouchers
    FileOpening <- MCFileOpening
    Selections <- MCSelections
    Users = {"user"}
    SyncLimit = 1
    UndoSyncLimit = 1
    UndoAttempts = 2
    MaxImports = 2
    MaxTrouble = 2
CHECK_DEADLOCK FALSE
INVARIANTS
    CountedOnce
PROPERTIES
    EveryVoucherOnce
    OpeningAsFile
    UndoAllOrNothing
    LaterChecksFresh
