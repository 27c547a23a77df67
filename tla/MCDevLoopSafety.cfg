SPECIFICATION Spec
CONSTANTS
    r1 = r1
    r2 = r2
    chat = chat
    web = web
    Requests = {r1, r2}
    Surfaces = {chat, web}
    NoSurface = NoSurface
    NoRef = NoRef
    MaxSupersedes = 0
    MaxResumes = 0
    MaxRewrites = 1
    MaxHops = 1
    Replaced = FALSE
INVARIANTS ResumeIsDecided
PROPERTIES HumanDecides
CHECK_DEADLOCK FALSE
SYMMETRY Symmetry
