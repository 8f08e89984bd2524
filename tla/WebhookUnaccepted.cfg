SPECIFICATION Spec
CONSTANTS
    Delivery = {1, 2}
    Routine = {1, 2}
    Wants <- OnlySecond
    Lane <- SecondKeeps
    New = "new"
    Edited = {2}
    PageSize = 1
    MaxAttempts = 2
    MaxFaults = 1
INVARIANT AcknowledgedIsAccepted
