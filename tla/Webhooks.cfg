SPECIFICATION FairSpec
CONSTANTS
    Delivery = {1, 2}
    Routine = {1, 2}
    Wants <- OnlySecond
    Lane <- SecondKeeps
    New = "new"
    Edited = {2}
    PageSize = 1
    MaxAttempts = 2
    MaxFaults = 1
INVARIANTS TypeOK PromptedOnce AcknowledgedIsSettled TerminalWasPrompted PollMissesNone
PROPERTY DeliveriesLeave
