SPECIFICATION Spec
CONSTANTS
    s1 = s1
    m1 = m1
    m2 = m2
    Session = {s1}
    Message = {m1, m2}
    Owner <- OneSession
    None = None
    Drafts = {s1}
    AttemptLimit = 2
    MaxFaults = 1
    MaxDirect = 0
    PromptLag = TRUE
    SilentTurns = TRUE
SYMMETRY Interchangeable
INVARIANTS TypeOK PositionsDistinct BlockedAtLimit OneDrainPerMessage  AtMostOnceUnlessInDoubt NoLostFollowUp
