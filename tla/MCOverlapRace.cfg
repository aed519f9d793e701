CONSTANTS
    pa = pa
    pb = pb
    ka = ka
    kb = kb
    kc = kc
    one = one
    many = many
    Keys <- MCKeys
    FieldOf <- MCFieldOf
    OneValued <- MCOneValued
    Facts <- MCFacts
    Resolve <- MCResolve
    Writers = {w1, w2}
    MaxClock = 2
    Null = Null
SPECIFICATION CRSpec
SYMMETRY Symmetry
INVARIANT OneAssignmentAtATime
