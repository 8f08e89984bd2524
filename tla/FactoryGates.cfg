SPECIFICATION Spec
CONSTANTS
    e1 = e1
    e2 = e2
    Epic = {e1}
    NoEpic = NoEpic
    EpicOf <- OneEpic
    Needs <- Independent
    MaxAttempts = 2
    Capacity = 2
    RetryBudget = 1
    MaxFaults = 1
    Gates = {"recovery", "authority", "project"}
    Operators = {"stop", "pause", "close"}
INVARIANT TypeOK
INVARIANT InProgressIsLive
INVARIANT StoppingUngated
INVARIANT ClosedEpicIdle
 
PROPERTY OutcomesAreFinal
