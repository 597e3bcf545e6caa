SPECIFICATION Spec
CONSTANTS
    p1 = p1
    p2 = p2
    p3 = p3
    p4 = p4
    itemA = itemA
    itemB = itemB
    Peers <- Four
    Leader <- LeadersFirst
    Byz = {p1}
    ByzReplies = {"vote", "dummy", "cert", "finality"}
    Eager = {}
    Patient = {p2, p3, p4}
    Pinned <- PlannedPins
    Payloads = {itemA, itemB}
    MaxRound = 2
    AppWindow = 32
    MaxRestarts = 0
INVARIANTS
    NotarizedUnique
    OneVotePerRound
    NotarizedHasVotes
    FinalityBacked
    FirstBlockComesFirst
ACTION_CONSTRAINT
    Bounds
SYMMETRY SameButTwo
CHECK_DEADLOCK FALSE
