SPECIFICATION MCSpec
CONSTANTS
    Block <- MCBlock
    Genesis <- MCGenesis
    Parent <- MCParent
    Height <- MCHeight
    Round <- MCRound
    ParentRound <- MCParentRound
    Chain <- MCChain
    Rounds = 3
    EpochFirst = {2}
    MaxPendingAcks = 2
    MaxContexts = 2
    MaxRequests = 2
    MaxFaults = 1
    MaxRestarts = 2
    SnapshotRestore = TRUE
    StaleContexts = FALSE
    Scenarios <- SafetyScenarios
INVARIANTS
    PipelineInv
    LocalNotAheadOfNetwork
    ForkchoiceInv
    NeverShutsDown
    HeadDescendsFromFinalized
    TrackedHeadIsCanonical
    AcknowledgedStaysCanonical
PROPERTIES
    FinalizesInOrder
    LayerFinalityAdvances
    OnlyRequestsOvertakeFinalization
CHECK_DEADLOCK FALSE
