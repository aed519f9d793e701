CONSTANTS
    Users = {u1, u2}
    Roles = {r1}
    NoUser = NoUser
    SessionTTL = 4
    IdleTTL = 3
    Coarse = 2
    ReauthTTL = 1
    Window = 2
    MaxFailures = 2
    ResetTTL = 1
    MfaRequired = TRUE
    Rows = {row1, row2}
    MaxClock = 4
    Bounded = TRUE
SPECIFICATION HASpec
SYMMETRY Symmetry
INVARIANT HAInv
INVARIANT IdleCountsFromLastRequest
INVARIANT SessionsFollowCredentials
INVARIANT SignInsAreThrottled
PROPERTY RefusedStaysRefused
CHECK_DEADLOCK FALSE
