SPECIFICATION Spec
CONSTANTS
    Message = {1, 2}
    Part = {p1}
    MessageOf <- OfTheFirst
    Reader = {r1, r2}
    MaxParts = 0
    MaxMessages = 1
    MaxLength = 2
    MaxEvents = 2
    MaxReads = 2
    Returns = FALSE
CHECK_DEADLOCK FALSE
INVARIANT RemovedStaysGone
