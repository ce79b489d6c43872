\* MCMailQueue: the queue implements Pacing, and what is deferred leaves it, woken by its triggers alone.
SPECIFICATION FairSpec
CONSTANTS
    p1 = p1
    p2 = p2
    p3 = p3
    a1 = a1
    a2 = a2
    Partners <- MCPartners
    Addresses <- MCTwoAddresses
    Letters <- MixedLetters
    Outcomes = {"accept", "temporary"}
    Limit = 2
    Window = 2
    Margin = 1
    RetryAfter = 2
    RetryMax = 1
    Hold = 1
    Late = 1
    MaxPosts = 1
    LastPost = 0
    MaxMails = 3
    MaxTime = 12
    MaxManual = 0
    MaxCrashes = 0
CHECK_DEADLOCK FALSE
PROPERTIES
    DeferredMailLeaves
    QueueIsPaced
