SPECIFICATION MCSpec
CONSTANTS
    Block <- MCBlock
    Genesis <- MCGenesis
    Parent <- MCParent
    Height <- MCHeight
    Round <- MCRound
    ParentRound <- MCParentRound
    Chain <- MCChain
    Rounds = 3
    EpochFirst = {}
    MaxPendingAcks = 2
    MaxContexts = 3
    MaxRequests = 0
    MaxFaults = 0
    MaxRestarts = 0
    SnapshotRestore = FALSE
    StaleContexts = FALSE
    Scenarios <- OneScenario
INVARIANTS
    PendingHeadIsOfNewestContext
