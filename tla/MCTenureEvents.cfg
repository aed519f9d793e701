CONSTANTS
    Employees = {e1}
    Policies = {p1}
    Sessions = {s1}
    LastDay = 5
    StartDays = {0, 2}
    MaxYears = 2
    Conditions <- MCConditions
    FromDays = {0, 4}
    MaxVersions = 2
    Anniversary <- MCAnniversary
    Absent = Absent
    Open = Open
SPECIFICATION TESpec
SYMMETRY Symmetry
INVARIANT TEInv
INVARIANT StaleOnlyWhileTenureDue
