SPECIFICATION Spec
CONSTANTS
    Callers = {"c1", "c2"}
    TokenIds <- MCTokenIds
    MemberIds <- MCMemberIds
    Targets <- MCTargets
    Bootstrap <- MCBootstrap
    Requested <- MCRequested
    Scenarios <- MCScenarios
    None = None
    Installations <- MCInstallations
    ProviderOf <- MCProviderOf
    PlaceOf <- MCPlaceOf
    Issues = {k1, k2}
    HookKinds = {"push", "odd"}
    PollLimit = 1
    TicksPerMinute = 2
    MaxClock = 3
    Connectors = {"k1"}
    Instances = {"i1"}
    HomeOf <- MCHomeOf
    ClaimPlaces <- MCClaimPlaces
    MaxShares = 2
SYMMETRY MCSymmetry
INVARIANTS
    
    UpdatesAreSeen

    
CHECK_DEADLOCK FALSE
