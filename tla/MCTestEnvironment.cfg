CONSTANTS
    Contracts = {"Controller", "SetToken"}
    External = {"PerpV2Vault", "PerpV2Quoter"}
    Networks = {"hardhat", "kovan"}
    NoFile = NoFile
    NoChain = NoChain
    MaxScripts = 3
    Suites <- MCSuites
    Root = "Root"
    Children <- MCChildren
    Style <- MCStyle
    Initializers <- MCInitializers
    Sends <- MCSends
    Tests <- MCTests
SPECIFICATION Spec
INVARIANTS CompletedBuildIsConsistent SnapshotStackSound TestsStartAlike HandlesLive DeploymentsWired
CHECK_DEADLOCK FALSE
