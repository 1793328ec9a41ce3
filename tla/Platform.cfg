\* Two administrators, three slugs of which two differ in case only, two hosts;
\* requests of either kind share one budget.
SPECIFICATION Spec
CONSTANTS
    Accounts = {a1, a2}
    Requests = {r1, r2, r3, r4}
    MaxInvites = 2
    LockAfter = 2
    None = None
    Slugs <- MCSlugs
    Hosts = {h1, h2}
    Lower <- MCLower
    MaxTenants = 2
    MaxRestarts = 1
SYMMETRY Symmetry
INVARIANTS
    TypeOK
    PlatformAdministratorRemains
    LinksAndRecoveries
    
PROPERTIES
    OnlySuspendedGo
CHECK_DEADLOCK FALSE
