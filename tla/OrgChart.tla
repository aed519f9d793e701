------------------------------ MODULE OrgChart ------------------------------
(***************************************************************************)
(* The reporting tree and the requests that change it: create, update and  *)
(* delete an employee (services/employees.py), the check of a new manager  *)
(* (services/org_chart.py) and the choice of the employees to reconcile    *)
(* (services/condition_impacts.py).                                        *)
(*                                                                         *)
(* shown[e] holds the org facts with which e was last reconciled; what a   *)
(* reconciliation makes of them is the matter of other modules.  A request *)
(* is a transaction: it reads without locks, flushes its writes, reconciles*)
(* and commits.                                                            *)
(***************************************************************************)
EXTENDS Integers, FiniteSets

CONSTANTS
    Employees,     \* identities of Employee rows
    Sessions,      \* request transactions that may run at the same time
    NoManager,     \* manager_id IS NULL
    Absent         \* "no such row"

ASSUME NoManagerAssumption == NoManager \notin Employees
ASSUME AbsentAssumption == Absent \notin Employees \cup {NoManager}

Charts == [Employees -> Employees \cup {NoManager, Absent}]

VARIABLES
    org,           \* committed manager_id of each employee
    shown,         \* the facts each employee was last reconciled with
    pc,            \* where each request is
    txn            \* what each request has loaded and not yet committed

ocVars == <<org, shown, pc, txn>>

Staff(o) == {e \in Employees : o[e] # Absent}

ReportsOf(o, m) == {e \in Employees : o[e] = m}

\* get_ancestor_ids: the least set that holds e's manager and the manager of each
\* of its members (UNION, so it ends even on a cycle).
Upward(o, C) == \A x \in C : o[x] \in Employees => o[x] \in C
Ancestors(o, e) ==
    {a \in Employees : \A C \in SUBSET Employees :
        Upward(o, C) /\ (o[e] \in Employees => o[e] \in C) => a \in C}

\* get_descendant_ids
Descendants(o, m) == {e \in Employees : m \in Ancestors(o, e)}

\* What the fields manager_id, direct_report_count (is_manager), reports_under and
\* management_level (their number) read for an employee.
Facts(o, e) == [manager |-> o[e], reports |-> Cardinality(ReportsOf(o, e)),
                above |-> Ancestors(o, e)]

-----------------------------------------------------------------------------
\* Faulty: the chain of the new manager is not looked at.
AnyOtherManager(o, e, m) == m = NoManager \/ (m # e /\ m \in Staff(o))

\* validate_manager_assignment; a new employee has nobody below it.
ManagerAllowed(o, e, m) ==
    \/ m = NoManager
    \/ m # e /\ m \in Staff(o) /\ e \notin Ancestors(o, m)

\* Faulty: the moved employee's reports are left out.
MovedEmployeeOnly(o, e) == {e}

\* The impact resolvers that a change of manager_id selects.
ChangedEmployee(e) == {e}
OldAndNewManagers(before, after) == {before, after} \cap Employees
MovedSubtree(o, e) == {e} \cup Descendants(o, e)

Impacted(o, e, before, after) ==
    ChangedEmployee(e) \cup OldAndNewManagers(before, after) \cup MovedSubtree(o, e)

\* The chart as request w leaves it when the committed chart is o.  A deletion
\* clears the manager of the reports it loaded, and the foreign key that of others.
Applied(o, w) ==
    [e \in Employees |->
        IF e = w.who THEN w.to
        ELSE IF w.op = "delete" /\ (e \in w.reports \/ o[e] = w.who) THEN NoManager
        ELSE o[e]]

Idle == [op |-> "none", who |-> NoManager, from |-> NoManager, to |-> NoManager,
         reports |-> {}, impacted |-> {}, facts |-> <<>>]

-----------------------------------------------------------------------------
OCInit ==
    /\ org = [e \in Employees |-> Absent]
    /\ shown = [e \in Employees |-> Facts(org, e)]
    /\ pc = [s \in Sessions |-> "idle"]
    /\ txn = [s \in Sessions |-> Idle]

Start(s, op, e, m) ==
    /\ pc[s] = "idle"
    /\ pc' = [pc EXCEPT ![s] = "checked"]
    /\ txn' = [txn EXCEPT ![s] = [Idle EXCEPT !.op = op, !.who = e,
                                    !.from = org[e], !.to = m]]
    /\ UNCHANGED <<org, shown>>

\* POST /employees: the manager is validated; the new row is this request's own.
BeginCreate(s, e, m) ==
    /\ org[e] = Absent /\ \A t \in Sessions : txn[t].who # e
    /\ ManagerAllowed(org, e, m)
    /\ Start(s, "create", e, m)

\* PATCH /employees/{id}: before is snapshot, the manager validated; setting the
\* manager it already has changes nothing.
BeginUpdate(s, e, m) ==
    /\ e \in Staff(org) /\ m # org[e]
    /\ ManagerAllowed(org, e, m)
    /\ Start(s, "update", e, m)

\* DELETE /employees/{id} reads descendants and direct reports first.
BeginDelete(s, e) ==
    /\ e \in Staff(org)
    /\ pc[s] = "idle"
    /\ pc' = [pc EXCEPT ![s] = "checked"]
    /\ txn' = [txn EXCEPT ![s] = [Idle EXCEPT !.op = "delete", !.who = e,
                !.from = org[e], !.to = Absent, !.reports = ReportsOf(org, e),
                !.impacted = Descendants(org, e) \cup ({org[e]} \cap Employees)]]
    /\ UNCHANGED <<org, shown>>

\* Rows t has written, and the manager whose row its foreign key check holds.
Wrote(t) == IF pc[t] \in {"flushed", "reconciled"} THEN {txn[t].who} \cup txn[t].reports ELSE {}
RefersTo(t) == IF pc[t] \in {"flushed", "reconciled"} THEN {txn[t].to} \cap Employees ELSE {}
Deletes(t) == IF pc[t] \in {"flushed", "reconciled"} /\ txn[t].op = "delete" THEN {txn[t].who} ELSE {}

\* session.flush(): waits for the rows of other requests; the rows it changes and
\* the manager it names must still exist.  Deleting a row that is gone is no error.
Flush(s) ==
    LET w == txn[s] IN
    /\ pc[s] = "checked"
    /\ \A t \in Sessions \ {s} :
          /\ Wrote(t) \cap ({w.who} \cup w.reports) = {}
          /\ Deletes(t) \cap {w.to} = {}
          /\ w.op = "delete" => w.who \notin RefersTo(t)
    /\ w.op = "update" => w.who \in Staff(org)
    /\ w.reports \subseteq Staff(org)
    /\ w.to \in Employees => w.to \in Staff(org)
    /\ pc' = [pc EXCEPT ![s] = "flushed"]
    /\ UNCHANGED <<org, shown, txn>>

\* find_impacted_employee_ids and reconcile_employees: committed rows and its own.
Reconcile(s) ==
    LET w   == txn[s]
        now == Applied(org, w)
        ids == IF w.op = "delete" THEN w.impacted
               ELSE Impacted(now, w.who,
                             IF w.op = "create" THEN NoManager ELSE w.from, w.to)
    IN
    /\ pc[s] = "flushed"
    /\ txn' = [txn EXCEPT ![s].impacted = ids,
                          ![s].facts = [e \in ids \cap Staff(now) |-> Facts(now, e)]]
    /\ pc' = [pc EXCEPT ![s] = "reconciled"]
    /\ UNCHANGED <<org, shown>>

Commit(s) ==
    LET w == txn[s] IN
    /\ pc[s] = "reconciled"
    /\ org' = Applied(org, w)
    /\ shown' = [e \in Employees |-> IF e \in DOMAIN w.facts THEN w.facts[e] ELSE shown[e]]
    /\ pc' = [pc EXCEPT ![s] = "idle"]
    /\ txn' = [txn EXCEPT ![s] = Idle]

\* A row or manager that is gone, a policy conflict, a lost connection.
Rollback(s) ==
    /\ pc[s] \in {"checked", "reconciled"}
    /\ pc' = [pc EXCEPT ![s] = "idle"]
    /\ txn' = [txn EXCEPT ![s] = Idle]
    /\ UNCHANGED <<org, shown>>

OCNext ==
    \E s \in Sessions :
        \/ \E e \in Employees, m \in Employees \cup {NoManager} :
              BeginCreate(s, e, m) \/ BeginUpdate(s, e, m)
        \/ \E e \in Employees : BeginDelete(s, e)
        \/ Flush(s)
        \/ Reconcile(s)
        \/ Commit(s)
        \/ Rollback(s)

OCSpec == OCInit /\ [][OCNext]_ocVars

-----------------------------------------------------------------------------
\* No set of employees holds the manager of each of its members.
EveryChainEnds(o) ==
    \A S \in (SUBSET Employees) \ {{}} : \E e \in S : o[e] \notin S

\* No group of employees manages itself: everyone's chain of managers ends
\* (docs/system-design.md:158, org_chart.py:30-54).
Acyclic == EveryChainEnds(org)

\* A manager named by a row exists, whatever is deleted meanwhile (models.py:570).
ManagersExist == \A e \in Staff(org) : org[e] # NoManager => org[e] \in Staff(org)

\* Every employee was last reconciled with the org facts that the committed chart gives
\* it, so whoever's facts a request changes is among those it reconciles
\* (condition_impacts.py:60-89, employees.py:118-140).
FactsFresh == \A e \in Staff(org) : shown[e] = Facts(org, e)
=============================================================================
