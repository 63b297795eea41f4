SPECIFICATION MCFairSpec
CONSTANTS
    Block <- MCBlock
    Genesis <- MCGenesis
    Parent <- MCParent
    Height <- MCHeight
    Round <- MCRound
    ParentRound <- MCParentRound
    Chain <- MCChain
    Rounds = 2
    EpochFirst = {}
    MaxPendingAcks = 2
    MaxContexts = 2
    MaxRequests = 1
    MaxFaults = 1
    MaxRestarts = 0
    SnapshotRestore = FALSE
    StaleContexts = FALSE
    Scenarios <- RequestScenarios
PROPERTIES
    FinalizationCatchesUp
    RequestOnPendingHeadResolves
    ConvergesOnPendingHead
CHECK_DEADLOCK FALSE
