SPECIFICATION MCFairSpec
CONSTANTS
    Block <- MCBlock
    Genesis <- MCGenesis
    Parent <- MCParent
    Height <- MCHeight
    Round <- MCRound
    ParentRound <- MCParentRound
    Chain <- MCChain
    Rounds = 3
    EpochFirst = {}
    MaxPendingAcks = 2
    MaxContexts = 2
    MaxRequests = 0
    MaxFaults = 1
    MaxRestarts = 0
    SnapshotRestore = FALSE
    StaleContexts = FALSE
    Scenarios <- ConvergenceScenarios
PROPERTIES
    ConvergesOnPendingHead
CHECK_DEADLOCK FALSE
