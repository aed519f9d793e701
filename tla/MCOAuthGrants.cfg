CONSTANTS
    Codes = {c1}
    Tokens = {t1, t2, t3}
    Requests = {q1, q2}
    NoCode = NoCode
    NoToken = NoToken
    Nothing = Nothing
    CodeTTL = 1
    RefreshTTL = 2
    MaxClock = 3
SPECIFICATION OGSpec
INVARIANT OGTypeOK
INVARIANT OneLivePair
INVARIANT GrantKeepsItsTerms
PROPERTY EndedGrantStaysEnded
