SPECIFICATION FairSpec
CONSTANTS
    s1 = s1
    m1 = m1
    m2 = m2
    Session = {s1}
    Message = {m1, m2}
    Owner <- OneSession
    None = None
    Drafts = {}
    AttemptLimit = 2
    MaxFaults = 1
    MaxDirect = 1
    PromptLag = FALSE
    SilentTurns = FALSE
PROPERTIES KeepsPromise HeldMessagesDrain
