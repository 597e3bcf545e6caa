SPECIFICATION FairSpec
CONSTANTS
    p1 = p1
    p2 = p2
    p3 = p3
    v1 = v1
    v2 = v2
    Absent = Absent
    Peers <- ThreePeers
    InitPeers <- TwoPeers
    MaxKey = 2
    Values = {v1, v2}
    MaxCalls = 3
    MaxChanges = 2
    MaxPipeline = 2
CHECK_DEADLOCK FALSE
ACTION_CONSTRAINT MembersPropose
INVARIANTS NothingLeftToAgree VotesAreWanted
PROPERTY UnanimityDecides
