---------------------------- MODULE ConditionFields ----------------------------
(***************************************************************************)
(* The catalogue of condition fields and the evaluation of one condition   *)
(* (services/condition_fields.py).                                         *)
(*                                                                         *)
(* The fields are those that read the reporting tree, and are evaluated on *)
(* what the reconciliations of OrgChart have read of it; columns of an     *)
(* employee's own row compare in the same way, tenure is the matter of     *)
(* TenureEvents.                                                           *)
(***************************************************************************)
EXTENDS OrgChart

ASSUME FiniteAssumption == IsFiniteSet(Employees)

-----------------------------------------------------------------------------
(* CONDITION_FIELD_SPECS: type, operators, resolver.                        *)

References == {"employee_id", "manager_id", "reports_under"}
Counts == {"direct_report_count", "management_level"}

AllowedOperators(field) ==
    IF field \in Counts THEN {"=", "<", "<=", ">", ">="} ELSE {"="}

\* What the parser of a field reads of a stored value: a reference is to an employee
\* by a positive number, whether or not the employee exists.
Parses(field, value) ==
    CASE field \in References  -> value \in Employees
      [] field \in Counts      -> value \in Nat
      [] field = "is_manager"  -> value \in BOOLEAN

\* The resolvers, of what was read for employee e.  Only manager_id may be null.
Resolve(field, e, read) ==
    CASE field = "employee_id"         -> e
      [] field = "manager_id"          -> read.manager
      [] field = "is_manager"          -> read.reports > 0
      [] field = "direct_report_count" -> read.reports
      [] field = "reports_under"       -> read.above
      [] field = "management_level"    -> Cardinality(read.above)

Compare(actual, op, expected) ==
    CASE op = "="  -> actual = expected
      [] op = "<"  -> actual < expected
      [] op = "<=" -> actual <= expected
      [] op = ">"  -> actual > expected
      [] op = ">=" -> actual >= expected

\* evaluate_condition_with_evidence: false for an operator the field does not have, a
\* value that does not parse and a field without a value; an ancestor is looked up.
Evaluate(c, e, read) ==
    LET actual == Resolve(c.field, e, read)
    IN  /\ c.op \in AllowedOperators(c.field)
        /\ Parses(c.field, c.value)
        /\ c.field = "manager_id" => actual # NoManager
        /\ IF c.field = "reports_under" THEN c.value \in actual
           ELSE Compare(actual, c.op, c.value)

-----------------------------------------------------------------------------
\* What a condition says, in terms of the chart alone.
Means(c, e) ==
    CASE c.field = "employee_id"         -> e = c.value
      [] c.field = "manager_id"          -> org[e] = c.value
      [] c.field = "is_manager"          -> (\E r \in Employees : org[r] = e) = c.value
      [] c.field = "reports_under"       -> c.value \in Ancestors(org, e)
      [] c.field = "direct_report_count" -> Compare(Cardinality(ReportsOf(org, e)), c.op, c.value)
      [] c.field = "management_level"    -> Compare(Cardinality(Ancestors(org, e)), c.op, c.value)

\* The conditions that a request may author.
Authored(c) ==
    /\ c.field \in References \cup Counts \cup {"is_manager"}
    /\ c.op \in AllowedOperators(c.field)
    /\ Parses(c.field, c.value)

\* Whatever moves, joins or leaves, a condition evaluated on what the last reconciliation
\* of an employee has read says what it says of the chart as it is: the resolvers read what
\* the fields mean, and the impact resolvers find everyone (condition_impacts.py:60-89).
EvaluatedAsMeant(c) ==
    \A e \in Staff(org) : Evaluate(c, e, shown[e]) <=> Means(c, e)
================================================================================
