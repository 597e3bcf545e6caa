SPECIFICATION Spec
CONSTANTS
    p1 = p1
    p2 = p2
    p3 = p3
    p4 = p4
    itemA = itemA
    itemB = itemB
    Peers <- Two
    Leader <- LeadersTwo
    Byz = {}
    ByzReplies = {}
    Eager = {p1, p2}
    Patient = {}
    Pinned <- SomePins
    Payloads = {itemA}
    MaxRound = 3
    AppWindow = 32
    MaxRestarts = 1
INVARIANTS
    TypeOK
    NotarizedChain
    FinalIsIrreversible
    LogsAgree
    FinalBlockAvailable
    PinsRespected
PROPERTIES
    NeverBack
CHECK_DEADLOCK FALSE
