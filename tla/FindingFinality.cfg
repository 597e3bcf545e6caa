SPECIFICATION Spec
CONSTANTS
    p1 = p1
    p2 = p2
    p3 = p3
    p4 = p4
    itemA = itemA
    itemB = itemB
    Peers <- Four
    Leader <- LeadersFour
    Byz = {}
    ByzReplies = {}
    Eager = {p4}
    Patient = {p1}
    Pinned <- NoPins
    Payloads = {itemA}
    MaxRound = 2
    AppWindow = 32
    MaxRestarts = 0
INVARIANTS
    FinalIsIrreversible
ACTION_CONSTRAINT
    FinalitySchedule
CHECK_DEADLOCK FALSE
