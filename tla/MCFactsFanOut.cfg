CONSTANTS
    e1 = e1
    e2 = e2
    one = one
    many = many
    x = x
    y = y
    Employees = {e1, e2}
    Groups = {g1}
    Fields = {one, many}
    Values = {x, y}
    OneValued = {one}
    Policies = {1, 2}
    Priority <- MCPriority2
    Gives <- MCGives2
    Dated = {2}
    Conditional = {1}
    Sessions = {s1}
    MaxOverrides = 1
SPECIFICATION AFSpec
SYMMETRY Symmetry
INVARIANT EveryoneShowsThePromise
INVARIANT AFInv
INVARIANT ReportsAgree
PROPERTY ChangesAreAnnounced
