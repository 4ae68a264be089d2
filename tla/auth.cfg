SPECIFICATION Spec
CONSTANTS
    Public = "public"
    Emails = {"first", "second"}
    DomainOf <- MCDomainOf
    SeedDomains = {"a.org"}
    Sessions = {"s1", "s2"}
    Keys = {"k1", "k2"}
    Shares = {"g1", "g2"}
    Labels = {"old label", "new label"}
    Permissions = {"read-write"}
    Old = "old"
    New = "new"
    Backends = {"store", "jsonl", "pg"}
    Histories <- MCHistories
    MaxRequests = 2
    MaxParallel = 2
    MaxCrashes = 1
    Nobody = Nobody
CHECK_DEADLOCK FALSE
INVARIANTS TypeOK ReplayIsMemory CachedKeysAreStored OneTopAdmin DeletedLeavesNothing
PROPERTIES DeactivatedStaysOut RenameKeepsAccess
