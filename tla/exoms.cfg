SPECIFICATION Spec
CONSTANTS
    Public = "public"
    Users <- MC_Users
    Exoms <- MC_Exoms
    Folders <- MC_Folders
    NewNames <- MC_NewNames
    Targets <- MC_Targets
    Default = Default
    Branches = {"main", "b"}
    Main = "main"
    Starts <- MC_Starts
    FirstId = 10
    MaxSuffix = 2
    MaxRequests = 2
    MaxParallel = 2
    MaxCrashes = 1
    NoTable = NoTable
    None = None
INVARIANT TypeOK
 
INVARIANT NothingLost
 
INVARIANT QueriesAnswerTheirBranch
INVARIANT GrantsFollowTheirDirectory
INVARIANT TreeShowsWhatIsReadable
CHECK_DEADLOCK FALSE
