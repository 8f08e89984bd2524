SPECIFICATION FairSpec
CONSTANTS
    s1 = s1
    m1 = m1
    m2 = m2
    Session = {s1}
    Message = {m1, m2}
    Owner <- OneSession
    None = None
    Drafts = {}
    AttemptLimit = 2
    MaxFaults = 0
    MaxDirect = 0
    PromptLag = FALSE
    SilentTurns = TRUE
PROPERTY HeldMessagesDrain
