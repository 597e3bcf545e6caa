SPECIFICATION FairSharedSpec
CONSTANTS
    Ids = {0, 1}
    Blocks = {0, 3}
    MaxVersion = 2
INVARIANTS
    ChangeNoticed
PROPERTIES
    ItemsGetThrough
    SetupEnds
CHECK_DEADLOCK FALSE
