SPECIFICATION MCSpec
CONSTANTS
    p1 = p1
    p2 = p2
    p3 = p3
    ctrl = ctrl
    meta = meta
    other = other
    Absent = Absent
    CtrlKind = ctrl
    Peers <- ThreePeers
    InitPeers <- TwoPeers
    Kinds <- AllKinds
    Singletons <- MetaKinds
    Majors = {0}
    MaxMinor = 1
    MaxId = 2
    Votable = {"add", "remove", "module", "version"}
    MaxCalls = 5
    MaxPipeline = 4
CHECK_DEADLOCK FALSE
SYMMETRY Same
ACTION_CONSTRAINT Bounds
INVARIANTS VotesMakeSense UpgradesApplied
PROPERTY ConfigsOnlyUpgrade
