SPECIFICATION Spec
CONSTANTS
    e1 = e1
    e2 = e2
    Epic = {e1}
    NoEpic = NoEpic
    EpicOf <- OneEpic
    Needs <- Independent
    MaxAttempts = 2
    Capacity = 1
    RetryBudget = 1
    MaxFaults = 0
    Gates = {"recovery"}
    Operators = {"retry"}
INVARIANT NothingSharesWorkspace
