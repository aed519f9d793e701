----------------------------- MODULE MCOrgChart -----------------------------
(* Charts of a few employees, and condition trees on them: each condition by*)
(* itself, and shapes of nested groups over some conditions, of which the   *)
(* fourth has six clauses and the last an empty group.                      *)
EXTENDS PolicyConditions, EmployeeScopes, TLC

C(field, op, value) == [field |-> field, op |-> op, value |-> value]
G(op, conditions, children) == [op |-> op, conditions |-> conditions, children |-> children]

References1 == {C(f, "=", e) : f \in References, e \in Employees}
Numbers1 == {C(f, op, n) : f \in Counts, op \in {"=", "<", "<=", ">", ">="}, n \in 0 .. 2}
Managers1 == {C("is_manager", "=", b) : b \in BOOLEAN}
Combined == {C("reports_under", "=", e) : e \in Employees}
            \cup {C("is_manager", "=", TRUE), C("management_level", ">", 1)}

Single == {G("and", <<c>>, <<>>) : c \in References1 \cup Numbers1 \cup Managers1}
Pairs == {G(op, <<a, b>>, <<>>) : op \in {"and", "or"}, a, b \in Combined}
Triples == {G("or", <<a, b, c>>, <<>>) : a, b, c \in Combined}

MCLevels == <<
    Single \cup Pairs \cup Triples \cup {G("or", <<>>, <<>>)},
    {G("and", <<a>>, <<G("or", <<b, c>>, <<>>)>>) : a, b, c \in Combined}
    \cup {G("or", <<a>>, <<G("and", <<b, c>>, <<>>)>>) : a, b, c \in Combined}
    \cup {G("and", <<>>, <<G("or", <<a, b>>, <<>>), G("or", <<b, c>>, <<>>)>>) : a, b, c \in Combined}
    \cup {G("and", <<>>, <<G("or", <<a, b>>, <<>>), G("or", <<c, b, a>>, <<>>)>>) : a, b, c \in Combined}
    \cup {G("or", <<>>, <<G("and", <<a>>, <<>>), G("or", <<>>, <<>>)>>) : a \in Combined}>>
NoLevels == <<>>

\* Employees and requests are interchangeable.
Symmetry == Permutations(Employees) \cup Permutations(Sessions)
=============================================================================
