SPECIFICATION FairSpec
CONSTANTS
    e1 = e1
    e2 = e2
    Epic = {e1, e2}
    NoEpic = NoEpic
    EpicOf <- TwoEpics
    Needs <- Independent
    MaxAttempts = 3
    Capacity = 1
    RetryBudget = 1
    MaxFaults = 0
    Gates = {"recovery"}
    Operators = {"retry", "cancel", "reopen"}
INVARIANT OneWriterPerEpic
 
INVARIANT CapacityKept
 
PROPERTY QueuedResumeDelivered
