\* MCMailQueue: every answer of the server, a user who intervenes and a worker killed at any point.
SPECIFICATION Spec
CONSTANTS
    p1 = p1
    p2 = p2
    p3 = p3
    a1 = a1
    a2 = a2
    Partners <- MCPartners
    Addresses <- MCAddresses
    Letters <- LongLetters
    Outcomes = {"accept", "invalid", "temporary", "permanent", "drop", "no connection"}
    Limit = 2
    Window = 2
    Margin = 1
    RetryAfter = 2
    RetryMax = 1
    Hold = 1
    Late = 9
    MaxPosts = 1
    LastPost = 0
    MaxMails = 4
    MaxTime = 5
    MaxManual = 1
    MaxCrashes = 1
VIEW QueueView
SYMMETRY PartnerSymmetry
CHECK_DEADLOCK FALSE
INVARIANTS
    NoSecondCopy
    EveryRecipientAccountedFor
    MessageHasOneOwner
    EveryDeferralHasAWake
