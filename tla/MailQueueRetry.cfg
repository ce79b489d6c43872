\* MCMailQueue: a mail that fails for good after an invalid address is retried by hand.
SPECIFICATION Spec
CONSTANTS
    p1 = p1
    p2 = p2
    p3 = p3
    a1 = a1
    a2 = a2
    Partners <- MCPartners
    Addresses <- MCAddresses
    Letters <- LongLetters
    Outcomes = {"accept", "invalid", "permanent"}
    Limit = 3
    Window = 2
    Margin = 1
    RetryAfter = 2
    RetryMax = 1
    Hold = 1
    Late = 9
    MaxPosts = 1
    LastPost = 0
    MaxMails = 4
    MaxTime = 4
    MaxManual = 1
    MaxCrashes = 0
VIEW QueueView
CHECK_DEADLOCK FALSE
INVARIANTS
    RetryReachesNobodyTwice
