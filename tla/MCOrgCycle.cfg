CONSTANTS
    Employees = {e1, e2, e3}
    Sessions = {s1, s2}
    NoManager = NoManager
    Absent = Absent
    Levels <- NoLevels
    MaxDepth = 3
    MaxGroups = 20
    MaxConditions = 50
    MaxClauses = 200
SPECIFICATION OCSpec
SYMMETRY Symmetry
INVARIANT Acyclic
