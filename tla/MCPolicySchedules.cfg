CONSTANTS
    Policies = {p1}
    Sessions = {s1, s2}
    NoSession = NoSession
    LastDay = 2
    Ranges <- MCRanges
    MaxVersions = 2
    TicksPerDay = 2
    MaxClock = 4
    BatchLimit = 1
SPECIFICATION PSFairSpec
INVARIANT PSInv
INVARIANT StaleOnlyWhileDue
INVARIANT NoOverlap
INVARIANT NumbersAreConsecutive
PROPERTY VersionsOnlyClose
PROPERTY EarlierDatesKeepTheirVersion
PROPERTY StaleIsRefreshed
