SPECIFICATION Spec
CONSTANTS
    Message = {1, 2}
    Part = {p1}
    MessageOf <- OfTheFirst
    Reader = {r1, r2}
    MaxParts = 0
    MaxMessages = 1
    MaxLength = 2
    MaxEvents = 3
    MaxReads = 3
    Returns = FALSE
SYMMETRY Interchangeable
CHECK_DEADLOCK FALSE
INVARIANTS TypeOK   NothingConfirmedIsKept
 
