\* MCSebPaymentFile: one bill paid in parts by three files, two exports at a time, and changed by other ways.
SPECIFICATION Spec
CONSTANTS
    b1 = b1
    u1 = u1
    u2 = u2
    Bills <- OneBill
    Totals = {2}
    Users = {u1, u2}
    MaxFiles = 3
    MaxOther = 1
SYMMETRY UserSymmetry
CHECK_DEADLOCK FALSE
INVARIANTS
    TypeOK
    OneActiveLine
    FileMatchesLines
    HeldUntilReached
    NotPaidTwice
