CONSTANTS
    Employees = {e1, e2, e3, e4}
    Sessions = {s1}
    NoManager = NoManager
    Absent = Absent
    Levels <- MCLevels
    MaxDepth = 3
    MaxGroups = 4
    MaxConditions = 6
    MaxClauses = 5
SPECIFICATION OCSpec
SYMMETRY Symmetry
INVARIANT Acyclic
INVARIANT MatchesFollowTheTree
PROPERTY ScopesHold
