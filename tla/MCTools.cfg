CONSTANTS
    Null = Null
    Phases = {"eng"}
    Voices = {"native"}
    Kinds = {"review", "native"}
    ProjectDocs <- MCProjectDocs
    RootDocs <- MCRootDocs
    WalkOrder <- MCWalkOrder
    Shape <- MCShape
    Hidden = {"odd"}
    TestNames <- MCTestNames
    TestDirs = {"tests", "spec"}
    SharedDocs <- MCShared
    ListedDocs <- MCListed
    ProtectedDocs <- MCProtected
    Source <- MCSource
    Allowance = 7
    Plans <- MCPlans
    Propers <- MCPropers
    Shapes <- MCShapes
    MessageFor <- MCMessageFor
    MaxWrites = 2
    MaxCommands = 3
    Worlds <- MCWorlds
    Edits <- MCEdits
    AfterEdit <- MCEdited
    Excludable <- MCExcludable
    Dropped <- MCDropped
    MaxLayoutFaults = 2
    MaxLayoutCommands = 2
    Policies <- MCPolicies
    Trees <- MCTrees
    PolicyEdits <- MCPolicyEdits
    SourceEdits <- MCSourceEdits
    RootSets <- MCRootSets
    MaxEntries = 4
    Globs = {"odd*"}
    MaxRuns = 2
    MaxEdits = 1
    MaxFaults = 1
SPECIFICATION MCSpec
INVARIANTS
    RecordsSurvive SealLeavesPair EveryOutputIsKept HandoffIsCurrent
    HalfFinishedIsBlocked MapIsTheClosure PackingIsAFixpoint AuditedFrontierIsSafe
PROPERTIES NothingLost OnlyConfirmed
CHECK_DEADLOCK FALSE
