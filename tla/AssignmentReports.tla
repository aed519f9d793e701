-------------------------- MODULE AssignmentReports --------------------------
(***************************************************************************)
(* What is answered about assignments: the queries about some employees    *)
(* (services/assignment_queries.py), the summary of a population and the   *)
(* impact of one policy (services/impact_summaries.py), each filtered to   *)
(* the employees and fields the caller sees.                               *)
(*                                                                         *)
(* All three read the committed rows of AuthoredFacts and change nothing.  *)
(* About today they read the open assignments, about a later day they      *)
(* calculate with the versions of that day and the facts of today; the     *)
(* impact of a policy is always calculated.  Answers about the past are    *)
(* read from the rows that AssignmentTimeline and AssignmentRecord model.  *)
(* Samples are not shortened here.                                         *)
(***************************************************************************)
EXTENDS ChangePreviews, Visibility

\* The day asked about: today, or a later one, before which the boundaries in at lie.
Today == [later |-> FALSE, at |-> passed]
Days ==
    {Today} \cup
    {[later |-> TRUE, at |-> b] : b \in {x \in SUBSET Boundaries : passed \subseteq x
        /\ \A p \in Dated : <<p, "expires">> \in x => <<p, "becomes_effective">> \in x}}

\* Employees for whom the calculation raises.
Unresolved(ids, day) == {e \in ids : day.later /\ Conflicts(facts, e, day.at)}

AssignmentsOn(e, day, fields) ==
    {a \in IF day.later THEN Resolution(facts, e, day.at) ELSE shown[e] :
        CanAccess(fields, a.field)}

\* query_employee_assignments; one employee that cannot be resolved fails it.
QueryFails(ids, day) == Unresolved(ids, day) # {}
Query(ids, day, fields) == UNION {{e} \X AssignmentsOn(e, day, fields) : e \in ids}

\* build_assignment_summary leaves out whom it cannot resolve, and says so.
Summary(ids, day, fields) ==
    LET unresolved  == Unresolved(ids, day)
        assignments == UNION {{e} \X AssignmentsOn(e, day, fields) : e \in ids \ unresolved}
        holders     == {r[1] : r \in assignments}
        InField(f)  == {r \in assignments : r[2].field = f}
    IN  [complete      |-> unresolved = {},
         conflicted    |-> Cardinality(unresolved),
         employees     |-> Cardinality(ids),
         with          |-> Cardinality(holders),
         without       |-> Cardinality(ids) - Cardinality(unresolved) - Cardinality(holders),
         fromPolicies  |-> Cardinality({r \in assignments : r[2].source[1] = "version"}),
         fromOverrides |-> Cardinality({r \in assignments : r[2].source[1] = "override"}),
         fields        |-> [f \in {r[2].field : r \in assignments} |->
                              [employees   |-> Cardinality({r[1] : r \in InField(f)}),
                               values      |-> {r[2].value : r \in InField(f)},
                               assignments |-> Cardinality(InField(f))]]]

\* What version p gives to employee e before any override is looked at.
Won(p, e, at) ==
    {Assignment(f[1], f[2], "version", p) :
        f \in {g \in Fields \X Values : <<p, g[2]>> \in Winners(facts, e, g[1], at)}}

\* Faulty: overrides are forgotten.
NothingOverridden(e) == {}

Overridden(e) == {o.field : o \in {x \in facts.overrides : x.employee = e}}

\* build_policy_impact_summary; if p is not effective nobody matches it.
Impact(p, ids, at) ==
    LET matched    == {e \in ids : p \in Matches(facts, e, at)}
        unresolved == {e \in matched : Conflicts(facts, e, at)}
        won        == UNION {{e} \X Won(p, e, at) : e \in matched \ unresolved}
        suppressed == {r \in won : r[2].field \in Overridden(r[1])}
        selected   == won \ suppressed
        direct     == {e \in matched : Directly(facts, e, p)}
        grouped    == {e \in matched : ThroughGroup(facts, e, p)}
    IN  [effective       |-> p \in Effective(facts, at),
         matched         |-> matched,
         direct          |-> Cardinality(direct),
         group           |-> Cardinality(grouped),
         both            |-> Cardinality(direct \cap grouped),
         conflicted      |-> unresolved,
         selected        |-> selected,
         suppressed      |-> suppressed,
         withoutSelected |-> Cardinality((matched \ unresolved) \ {r[1] : r \in selected})]

-----------------------------------------------------------------------------
\* The reports of one caller about one day.
Agree(ids, day, fields) ==
    LET answer  == Query(ids, day, fields)
        summary == Summary(ids, day, fields)
        visible == {p \in Policies : PolicyVisible(fields, {g[1] : g \in Gives[p]})}
        impact  == [p \in visible |-> Impact(p, ids, day.at)]
        selected == UNION {impact[p].selected : p \in visible}
    IN  /\ QueryFails(ids, day) <=> ~ summary.complete
        /\ summary.with + summary.without + summary.conflicted = summary.employees
        /\ \A p \in visible : impact[p].conflicted # {} => summary.conflicted > 0
        /\ fields.unrestricted =>
              Cardinality(UNION {impact[p].conflicted : p \in visible}) = summary.conflicted
        /\ summary.complete =>
              /\ selected \subseteq answer
              /\ fields.unrestricted =>
                    selected = {r \in answer : r[2].source[1] = "version"}
              /\ Cardinality(selected) <= summary.fromPolicies
              /\ \A p \in visible : \A r \in impact[p].suppressed :
                    \E a \in answer : a[1] = r[1] /\ a[2].field = r[2].field
                                        /\ a[2].source[1] = "override"

\* A user with one role that shows some fields, and a credential.
FieldViews ==
    {FieldVisibility([user |-> TRUE, root |-> FALSE, self |-> {}, roles |-> {r}]) :
        r \in [employees : {"all"}, fields : {"selected"}, selected : {{}} \cup {{f} : f \in Fields}]}
    \cup {FieldVisibility([user |-> FALSE, root |-> FALSE, self |-> {}, roles |-> {}])}

\* The reports agree (docs/system-design.md:18 and :106-108): between requests, when no
\* event is due, what the impact of the policies calculates is what is stored for today
\* and what a query calculates for any later day, no assignment is selected for two
\* policies or for none, a suppressed one stands under an override, an employee whom one
\* report cannot resolve the others cannot either, and a caller with restricted fields
\* is told a part of it.
ReportsAgree ==
    Quiet => \A day \in Days, ids \in {Employees} \cup {{e} : e \in Employees} :
                \A fields \in FieldViews : Agree(ids, day, fields)
=============================================================================
