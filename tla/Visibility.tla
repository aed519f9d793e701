----------------------------- MODULE Visibility -----------------------------
(***************************************************************************)
(* Which employees and which assignment fields a caller sees               *)
(* (services/employee_visibility.py, assignment_field_visibility.py).      *)
(*                                                                         *)
(* A caller is an API credential or a user: [user, root, self, roles], with*)
(* self the employee the user is linked to, as a set of at most one, and   *)
(* each role a record [employees, fields, selected] of its two scopes and  *)
(* the fields it selects.  Both scopes are read anew by every request.     *)
(***************************************************************************)

Unrestricted == [unrestricted |-> TRUE, ids |-> {}, mayCreate |-> TRUE]
Only(ids, mayCreate) == [unrestricted |-> FALSE, ids |-> ids, mayCreate |-> mayCreate]

CanAccess(v, x) == v.unrestricted \/ x \in v.ids

\* apply: the filter on every listing.
Seen(v, S) == {x \in S : CanAccess(v, x)}

\* below: the descendants of the employee the user is linked to.  Without a link no
\* scope but "all" shows anyone.
EmployeeVisibility(c, below) ==
    LET scopes == {r.employees : r \in c.roles}
    IN  CASE ~ c.user \/ c.root \/ "all" \in scopes -> Unrestricted
          [] "reporting_tree" \in scopes /\ c.self # {} -> Only(c.self \cup below, TRUE)
          [] "self" \in scopes /\ "reporting_tree" \notin scopes -> Only(c.self, FALSE)
          [] OTHER -> Only({}, FALSE)

FieldVisibility(c) ==
    IF ~ c.user \/ c.root \/ \E r \in c.roles : r.fields = "all"
      THEN Unrestricted
      ELSE Only(UNION {r.selected : r \in {q \in c.roles : q.fields = "selected"}}, FALSE)

\* visible_policy_condition: none of its outputs, in any version, is hidden.
PolicyVisible(v, outputs) == v.unrestricted \/ outputs \subseteq v.ids
=============================================================================
