SPECIFICATION GateSpec
CONSTANTS
    b0 = b0
    c1 = c1
    c2 = c2
    c3 = c3
    c4 = c4
    src = src
    lib = lib
    pkg = pkg
    gem = gem
    tool = tool
    lock = lock
    Null = Null
    Lockfiles = {lock}
    TestPaths = {}
    TestDepPaths = {}
    BinPaths = {tool}
    ApiCapable = {}
    Commits = {b0, c1, c2, c3, c4}
    MergeBaseOf <- MCMergeBaseOf
    Diff <- MCDiff
    Ruled = {src, lib}
    ManifestKind <- MCManifestKind
    Policies <- MCPolicies
    PrStates <- MCPrStates
    Worlds <- MCWorlds
    LineLimit = 3
    BlobLimit = 2
    ChunkOutput = 4
    ChunkPaths = 3
    MaxFaults = 1
    MaxPrSteps = 1
    p = p
    q = q
    NoPath = NoPath
    Kinds <- MCKinds
    Pool <- MCPool
    Paths <- MCPaths
    Texts <- MCTexts
    Shapes <- MCShapes
    Resting <- MCResting
    Langs = {"go", "typescript"}
    MaxManifest = 4
    MaxFiles = 2
    MaxHunks = 2
    MaxLines = 2
    MaxSource = 5
INVARIANTS
    CompleteEvidenceIsTrue
    WouldMergeIsEarned
    OneSnapshot
    EvidenceReplays
    DepsNeverHidden
    PatchRoundTrip
    ScanCountsMembers
CHECK_DEADLOCK FALSE
