--------------------------- MODULE MCAuthoredFacts ---------------------------
(* Two policies of one priority that agree on one value and disagree on     *)
(* another field, and one of higher priority; one field of each cardinality.*)
EXTENDS AssignmentReports, TLC

CONSTANTS e1, e2, one, many, x, y

MCPriority2 == <<1, 1>>
MCGives2 == << {<<one, x>>, <<many, x>>}, {<<one, y>>, <<many, x>>} >>
MCPriority3 == <<1, 1, 2>>
MCGives3 == << {<<one, x>>, <<many, x>>}, {<<one, y>>, <<many, x>>}, {<<one, y>>, <<many, y>>} >>
Symmetry == Permutations(Employees) \cup Permutations(Sessions)
=============================================================================
