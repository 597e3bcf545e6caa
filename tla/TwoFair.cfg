SPECIFICATION FairSpec
CONSTANTS
    p1 = p1
    p2 = p2
    p3 = p3
    p4 = p4
    itemA = itemA
    itemB = itemB
    Peers <- Two
    Leader <- LeadersTwo
    Byz = {}
    ByzReplies = {}
    Eager = {p1}
    Patient = {}
    Pinned <- NoPins
    Payloads = {itemA}
    MaxRound = 2
    AppWindow = 32
    MaxRestarts = 0
PROPERTIES
    NobodyLeftBehind
    RoundsEnd
    FinalityReachesApp
CHECK_DEADLOCK FALSE
