SPECIFICATION FairSpec
CONSTANTS
    p1 = p1
    p2 = p2
    p3 = p3
    p4 = p4
    p5 = p5
    Self = p1
    Peers <- FivePeers
    InitMembers <- FourPeers
    Faulty = {p4}
    MaxVote = 2
    MaxChanges = 2
CHECK_DEADLOCK FALSE
INVARIANTS ChannelCovers
PROPERTIES FinalityForward FinalityReached
