SPECIFICATION FairSpec
CONSTANTS
    p1 = p1
    p2 = p2
    p3 = p3
    Founder = p1
    Pulling = {p2}
    Peers <- ThreeNodes
    Members = {p1, p2}
    MaxTime = 1
    MaxStarts = 4
    MaxPushes = 1
CHECK_DEADLOCK FALSE
ACTION_CONSTRAINT FounderRestarts
INVARIANTS OwnIsNewest
PROPERTIES AddressesSpread
