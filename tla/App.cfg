SPECIFICATION FairSpec
CONSTANTS
    p1 = p1
    p2 = p2
    Peers <- MCPeers
    InitPeers <- MCPeers
    Modules <- MCModules
    Blocks <- MCBlocks
    MaxRound = 2
    MaxVersion = 2
    MaxCrashes = 2
CHECK_DEADLOCK FALSE
INVARIANTS CopiesAgree ScheduleAgreed RepeatedByCrashOnly
PROPERTIES NeverSkipped EveryBlockCompleted
