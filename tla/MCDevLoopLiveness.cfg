SPECIFICATION FairSpec
CONSTANTS
    r1 = r1
    r2 = r2
    chat = chat
    web = web
    Requests = {r1}
    Surfaces = {chat}
    NoSurface = NoSurface
    NoRef = NoRef
    MaxSupersedes = 1
    MaxResumes = 1
    MaxRewrites = 0
    MaxHops = 1
    Replaced = TRUE
PROPERTIES ParksEnd DeliveryEnds
CHECK_DEADLOCK FALSE
