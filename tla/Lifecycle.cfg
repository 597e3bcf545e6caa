SPECIFICATION FairSpec
CONSTANTS
    created1 = created1
    created2 = created2
    invited1 = invited1
    invited2 = invited2
    h1 = h1
    h2 = h2
    None = None
    Created = {created1, created2}
    Invited = {invited1, invited2}
    Handlers = {h1, h2}
    MaxRequests = 4
    MaxCrashes = 2
CHECK_DEADLOCK FALSE
INVARIANTS ConsensusIsThere
PROPERTIES OneFederation StoredIsRun
