CONSTANTS
    pa = pa
    pb = pb
    ka = ka
    kb = kb
    kc = kc
    one = one
    many = many
    Keys <- MCKeys
    FieldOf <- MCFieldOf
    OneValued <- MCOneValued
    Facts <- MCFacts
    Resolve <- MCResolve
    Writers = {w1}
    MaxClock = 3
    Null = Null
SPECIFICATION CRSpec
INVARIANT CRInv
INVARIANT OneAssignmentAtATime
PROPERTY EndedRowsAreFinal
PROPERTY ImplementsTimeline
PROPERTY ImplementsRecord
