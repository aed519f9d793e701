CONSTANTS
    e1 = e1
    e2 = e2
    one = one
    many = many
    x = x
    y = y
    Employees = {e1}
    Groups = {g1}
    Fields = {one, many}
    Values = {x, y}
    OneValued = {one}
    Policies = {1, 2, 3}
    Priority <- MCPriority3
    Gives <- MCGives3
    Dated = {}
    Conditional = {1}
    Sessions = {s1}
    MaxOverrides = 2
SPECIFICATION AFSpec
SYMMETRY Symmetry
INVARIANT EveryoneShowsThePromise
INVARIANT OverridesCounted
INVARIANT OneValueShown
