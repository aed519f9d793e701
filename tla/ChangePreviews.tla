---------------------------- MODULE ChangePreviews ----------------------------
(***************************************************************************)
(* What a change preview announces (routers/change_previews.py,            *)
(* services/employee_change_previews.py, policy_change_previews.py).       *)
(*                                                                         *)
(* A preview is a request of AuthoredFacts that never commits: in a        *)
(* savepoint it makes the change, flushes, reconciles, compares the open   *)
(* assignments before and after, and rolls back (Begin, Flush, Reconcile,  *)
(* Rollback).  So what it would announce is a function of any request that *)
(* has reconciled, and is compared here with what that request commits.    *)
(* The caller sees the employees and the assignment fields of its roles.   *)
(* An explanation of an assignment is left out, as it is in AuthoredFacts. *)
(***************************************************************************)
EXTENDS AuthoredFacts

\* The open assignments a preview reads: of visible employees in visible fields.
CurrentAssignments(open, seen, fields) ==
    [e \in {x \in seen : \E a \in open[x] : a.field \in fields} |->
        {a \in open[e] : a.field \in fields}]

\* What the request has written, and sees, before it ends.
Written(s) ==
    [e \in Employees |-> IF e \in DOMAIN txn[s].desired THEN txn[s].desired[e] ELSE shown[e]]

Of(assignments, e) == IF e \in DOMAIN assignments THEN assignments[e] ELSE {}

\* The employee a membership, an override or an employee change is about is listed
\* even when nothing changes for them; a change of a policy names nobody.
Included(s, seen) ==
    IF txn[s].aim.kind = "these" THEN txn[s].aim.of \cap seen ELSE {}

\* Faulty: only those the change names are compared.
ChangesOfIncluded(before, after, included) ==
    [e \in included |->
        [added   |-> Of(after, e) \ Of(before, e),
         removed |-> Of(before, e) \ Of(after, e)]]

\* _assignment_changes: anyone with an assignment before or after, or included, and
\* of them those with a difference or included.
AssignmentChanges(before, after, included) ==
    LET compared == DOMAIN before \cup DOMAIN after \cup included
        differ   == {e \in compared : Of(before, e) # Of(after, e)}
    IN  [e \in differ \cup included |->
            [added   |-> Of(after, e) \ Of(before, e),
             removed |-> Of(before, e) \ Of(after, e)]]

\* _changed_fields: the fields of an employee listed with what they held and will hold.
ChangedFields(before, after, e) ==
    LET In(S, f) == {a \in S : a.field = f}
    IN  {<<f, In(Of(before, e), f), In(Of(after, e), f)>> :
            f \in {g \in Fields : In(Of(before, e), g) # In(Of(after, e), g)}}

\* A conflict of anyone in the batch, seen by the caller or not, when the preview
\* reconciles makes the change invalid.
Rejected(s) ==
    LET now == Changed(facts, txn[s])
    IN  pc[s] = "flushed" /\ \E e \in Reconciled(now, txn[s].aim) : Conflicts(now, e, passed)

\* The answer to a caller who sees some employees and fields.
Preview(s, seen, fields) ==
    LET before   == CurrentAssignments(shown, seen, fields)
        after    == CurrentAssignments(Written(s), seen, fields)
        changes  == AssignmentChanges(before, after, Included(s, seen))
        affected == {e \in DOMAIN changes : changes[e].added \cup changes[e].removed # {}}
    IN  IF Rejected(s)
          THEN [valid |-> FALSE, affected |-> {}, changes |-> <<>>, fields |-> {}]
          ELSE [valid |-> TRUE, affected |-> affected, changes |-> changes,
                fields |-> UNION {{<<e, c>> : c \in ChangedFields(before, after, e)} :
                                     e \in DOMAIN changes}]

-----------------------------------------------------------------------------
\* What the caller is told of each employee and field is what the change does.
Announced(s, seen, fields) ==
    LET answer == Preview(s, seen, fields)
        Sees(open, e, F) == {a \in open[e] : a.field \in F}
    IN  \A e \in seen :
          /\ Sees(shown', e, fields) # Sees(shown, e, fields) <=> e \in answer.affected
          /\ e \in DOMAIN answer.changes =>
                Sees(shown', e, fields) =
                    (Sees(shown, e, fields) \ answer.changes[e].removed)
                        \cup answer.changes[e].added
          /\ \A f \in fields :
                Sees(shown', e, {f}) # Sees(shown, e, {f}) <=>
                    <<e, <<f, Sees(shown, e, {f}), Sees(shown', e, {f})>>>> \in answer.fields

\* A change does what its preview announces (docs/system-design.md:9 and :160): whichever
\* employees and fields the caller sees, a change that goes through was announced as
\* valid, the additions and removals announced turn what the caller sees of everyone into
\* what the change leaves, only those announced as affected are affected, and a field is
\* announced as changed with what it held and will hold, or not at all.
ChangesAreAnnounced ==
    [][\A s \in Sessions :
        /\ pc[s] = "flushed" /\ pc'[s] = "resolved" => ~ Rejected(s)
        /\ pc[s] = "resolved" /\ <<facts, shown>>' # <<facts, shown>> =>
              \A seen \in SUBSET Employees \ {{}}, fields \in SUBSET Fields \ {{}} :
                  Announced(s, seen, fields)
      ]_afVars
=============================================================================
