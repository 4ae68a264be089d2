SPECIFICATION Spec
CONSTANTS
    Public = "public"
    Users = {"creator", "other"}
    Creator = "creator"
    Path <- MCPath
    Grants <- MCGrants
    Branches = {"main", "side"}
    Main = "main"
    Nobody = Nobody
    MaxRequests = 2
    MaxParallel = 2
    MaxCrashes = 1
PROPERTY OthersClaimsAreRefused
