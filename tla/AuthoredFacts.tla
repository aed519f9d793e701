---------------------------- MODULE AuthoredFacts ----------------------------
(***************************************************************************)
(* What administrators author about employees (group members, policies     *)
(* attached to groups, policies in effect, manual overrides), how it       *)
(* resolves to assignments (services/policy_engine.py, overrides.py,       *)
(* assignment_resolution.py) and whom each mutation reconciles             *)
(* (services/groups.py, employee_overrides.py, policy_reconciliation.py).  *)
(*                                                                         *)
(* Each policy has one version here, with the policy's number as its id.   *)
(* Time only matters in that a dated version becomes effective one day and *)
(* expires another, whether or not the worker, or anyone, can reconcile    *)
(* then.  A request is a transaction that checks, flushes, reconciles and  *)
(* commits, or is rolled back.                                             *)
(***************************************************************************)
EXTENDS Integers, FiniteSets

CONSTANTS
    Employees, Groups, Fields, Values,
    OneValued,     \* fields of cardinality "one"
    Policies,      \* ids of policy versions
    Priority,      \* their priorities
    Gives,         \* their field values: version -> set of <<field, value>>
    Dated,         \* policies whose version has a first and a last day to come
    Conditional,   \* bound: policies whose conditions an employee may satisfy
    Sessions,      \* request transactions that may run at the same time
    MaxOverrides   \* bound: overrides ever created

ASSUME PoliciesAssumption == Policies \subseteq Nat /\ Priority \in [Policies -> Int]
ASSUME GivesAssumption == Gives \in [Policies -> SUBSET (Fields \X Values)]
ASSUME FieldsAssumption == OneValued \subseteq Fields
ASSUME KindsAssumption == Dated \subseteq Policies /\ Conditional \subseteq Policies
ASSUME OverridesAssumption == MaxOverrides \in Nat
ASSUME FiniteAssumption ==
    /\ IsFiniteSet(Employees) /\ IsFiniteSet(Policies)
    /\ IsFiniteSet(Fields) /\ IsFiniteSet(Values)

Override == [id : 1 .. MaxOverrides, employee : Employees, field : Fields, value : Values]

\* The rows of the tables: group memberships, group policies, active policies,
\* satisfied conditions, overrides that are not retired.
Table == [members : SUBSET (Employees \X Groups), attached : SUBSET (Groups \X Policies),
          active : SUBSET Policies, satisfied : SUBSET (Employees \X Policies),
          overrides : SUBSET Override]

NoRows == [members |-> {}, attached |-> {}, active |-> {}, satisfied |-> {},
           overrides |-> {}]

\* The instants at which a dated version becomes effective and expires.
Boundaries == Dated \X {"becomes_effective", "expires"}

VARIABLES
    facts,         \* committed rows
    passed,        \* boundaries that lie in the past
    processed,     \* boundaries whose events the worker has processed
    shown,         \* open assignments of each employee
    created,       \* overrides created so far
    pc,            \* where each request is
    txn            \* what each request adds, deletes and has resolved

afVars == <<facts, passed, processed, shown, created, pc, txn>>

\* get_effective_policy_versions: active, and in the range of its version on the day
\* before which the boundaries in at lie.
Effective(t, at) ==
    {p \in t.active : p \in Dated =>
        <<p, "becomes_effective">> \in at /\ <<p, "expires">> \notin at}

-----------------------------------------------------------------------------
\* find_policy_matches: effective, and matched directly or through a group.
Directly(t, e, p) == <<e, p>> \in t.satisfied
ThroughGroup(t, e, p) == \E g \in Groups : <<e, g>> \in t.members /\ <<g, p>> \in t.attached

Matches(t, e, at) ==
    {p \in Effective(t, at) : Directly(t, e, p) \/ ThroughGroup(t, e, p)}

\* The values of a field that the matches of e give, and their order:
\* ORDER BY priority DESC, version id.
Candidates(t, e, f, at) == {c \in Matches(t, e, at) \X Values : <<f, c[2]>> \in Gives[c[1]]}

Ahead(p, q) == Priority[p] > Priority[q] \/ (Priority[p] = Priority[q] /\ p <= q)

\* _resolve_one raises when its best candidates disagree, _resolve_many never.
Best(C) == {c \in C : \A d \in C : Priority[c[1]] >= Priority[d[1]]}

Conflicts(t, e, at) ==
    \E f \in OneValued : \E c, d \in Best(Candidates(t, e, f, at)) : c[2] # d[2]

\* Faulty: among equals the last one is the source.
LastOf(C, c) ==
    \A d \in C : Priority[c[1]] > Priority[d[1]]
        \/ (Priority[c[1]] = Priority[d[1]] /\ d[1] <= c[1])

\* The first candidate of a field wins; of many values, the first with each value.
FirstOf(C, c) == \A d \in C : Ahead(c[1], d[1])

Winners(t, e, f, at) ==
    LET C == Candidates(t, e, f, at) IN
    IF f \in OneValued
      THEN {c \in C : FirstOf(C, c)}
      ELSE {c \in C : FirstOf({d \in C : d[2] = c[2]}, c)}

Assignment(f, v, kind, id) == [field |-> f, value |-> v, source |-> <<kind, id>>]

\* Faulty: an override is one more value.
OverridesAdded(t, e, at) ==
    {Assignment(o.field, o.value, "override", o.id) : o \in {x \in t.overrides : x.employee = e}}
    \cup UNION {{Assignment(f, c[2], "version", c[1]) : c \in Winners(t, e, f, at)} : f \in Fields}

\* apply_employee_overrides: the overrides of a field replace all its values.
Resolution(t, e, at) ==
    LET own == {o \in t.overrides : o.employee = e}
    IN  {Assignment(o.field, o.value, "override", o.id) : o \in own}
        \cup UNION {{Assignment(f, c[2], "version", c[1]) : c \in Winners(t, e, f, at)} :
                        f \in Fields \ {o.field : o \in own}}

-----------------------------------------------------------------------------
\* The rows as request w leaves them.
Changed(t, w) ==
    [members   |-> (t.members \ w.del.members) \cup w.add.members,
     attached  |-> (t.attached \ w.del.attached) \cup w.add.attached,
     active    |-> (t.active \ w.del.active) \cup w.add.active,
     satisfied |-> (t.satisfied \ w.del.satisfied) \cup w.add.satisfied,
     overrides |-> (t.overrides \ w.del.overrides) \cup w.add.overrides]

\* Whom a request reconciles: certain employees, the members of a group once its rows
\* are flushed, or all.
These(E) == [kind |-> "these", of |-> E]
MembersOf(g) == [kind |-> "group", of |-> g]
Everybody == [kind |-> "all"]

\* Faulty: of a group only those are reconciled who match a policy now.
MembersWithPolicies(t, aim) ==
    CASE aim.kind = "these" -> aim.of
      [] aim.kind = "group" -> {e \in Employees : <<e, aim.of>> \in t.members
                                    /\ Matches(t, e, passed) # {}}
      [] aim.kind = "all"   -> Employees

Reconciled(t, aim) ==
    CASE aim.kind = "these" -> aim.of
      [] aim.kind = "group" -> {e \in Employees : <<e, aim.of>> \in t.members}
      [] aim.kind = "all"   -> Employees

Idle == [add |-> NoRows, del |-> NoRows, aim |-> Everybody, events |-> {},
         desired |-> <<>>]

-----------------------------------------------------------------------------
AFInit ==
    /\ facts = NoRows
    /\ passed = {} /\ processed = {}
    /\ shown = [e \in Employees |-> {}]
    /\ created = 0
    /\ pc = [s \in Sessions |-> "idle"]
    /\ txn = [s \in Sessions |-> Idle]

Begin(s, add, del, aim) ==
    /\ pc[s] = "idle"
    /\ pc' = [pc EXCEPT ![s] = "checked"]
    /\ txn' = [txn EXCEPT ![s] = [Idle EXCEPT !.add = add, !.del = del, !.aim = aim]]
    /\ UNCHANGED <<facts, passed, processed, shown>>

\* PATCH /groups/{id}/employees: remove_employee_from_group for some employees, then
\* add_employee_to_group for others, each followed by its reconciliation; a repeated
\* call does nothing.  The calls for a single employee are cases of it.
ChangeMembership(s, g, leave, join) ==
    LET gone == (leave \X {g}) \cap facts.members
        new  == (join \X {g}) \ facts.members
    IN  /\ gone \cup new # {}
        /\ Begin(s, [NoRows EXCEPT !.members = new], [NoRows EXCEPT !.members = gone],
                 These({m[1] : m \in gone \cup new}))
        /\ UNCHANGED created

\* POST /employees/{id}/refresh reconciles and changes nothing else.
Refresh(s, e) ==
    /\ Begin(s, NoRows, NoRows, These({e}))
    /\ UNCHANGED created

\* update_group_policies: removals, then additions, then one reconciliation, unless
\* nothing changed; the calls for a single policy are cases of it.
ChangeGroupPolicies(s, g, remove, add) ==
    LET gone == ({g} \X remove) \cap facts.attached
        new  == ({g} \X add) \ facts.attached
    IN  /\ gone \cup new # {}
        /\ Begin(s, [NoRows EXCEPT !.attached = new], [NoRows EXCEPT !.attached = gone],
                 MembersOf(g))
        /\ UNCHANGED created

\* A policy is activated or deactivated; every employee is refreshed.
ChangePolicy(s, p) ==
    /\ IF p \in facts.active
         THEN Begin(s, NoRows, [NoRows EXCEPT !.active = {p}], Everybody)
         ELSE Begin(s, [NoRows EXCEPT !.active = {p}], NoRows, Everybody)
    /\ UNCHANGED created

\* update_employee changes a fact a condition names; the impacted employee is e.
ChangeFact(s, e, p) ==
    /\ IF <<e, p>> \in facts.satisfied
         THEN Begin(s, NoRows, [NoRows EXCEPT !.satisfied = {<<e, p>>}], These({e}))
         ELSE Begin(s, [NoRows EXCEPT !.satisfied = {<<e, p>>}], NoRows, These({e}))
    /\ UNCHANGED created

\* Faulty: only a second override of the same value is rejected, in any field.
CardinalityByValue(e, f, v, old) ==
    \A o \in facts.overrides \ old : o.employee = e /\ o.field = f => o.value # v

\* _validate_override_cardinality; old holds the override to leave out, if any.
CardinalityOK(e, f, v, old) ==
    \A o \in facts.overrides \ old :
        o.employee = e /\ o.field = f => f \notin OneValued /\ o.value # v

New(e, f, v) == [id |-> created + 1, employee |-> e, field |-> f, value |-> v]

CreateOverride(s, e, f, v) ==
    /\ CardinalityOK(e, f, v, {})
    /\ created < MaxOverrides
    /\ created' = created + 1
    /\ Begin(s, [NoRows EXCEPT !.overrides = {New(e, f, v)}], NoRows, These({e}))

\* update_employee_override retires the old row and adds a new one; it may move to
\* another field, and does nothing when field and value stay.
UpdateOverride(s, o, f, v) ==
    /\ <<f, v>> # <<o.field, o.value>>
    /\ CardinalityOK(o.employee, f, v, {o})
    /\ created < MaxOverrides
    /\ created' = created + 1
    /\ Begin(s, [NoRows EXCEPT !.overrides = {New(o.employee, f, v)}],
             [NoRows EXCEPT !.overrides = {o}], These({o.employee}))

DeleteOverride(s, o) ==
    /\ Begin(s, NoRows, [NoRows EXCEPT !.overrides = {o}], These({o.employee}))
    /\ UNCHANGED created

\* The worker claims the due events of policy versions; each concerns everyone.
ClaimEvents(s) ==
    /\ passed # processed
    /\ pc[s] = "idle"
    /\ pc' = [pc EXCEPT ![s] = "flushed"]
    /\ txn' = [txn EXCEPT ![s] = [Idle EXCEPT !.events = passed \ processed]]
    /\ UNCHANGED <<facts, passed, processed, shown, created>>

\* Midnight: a version becomes effective, or expires, in the midst of anything.
PassBoundary(p) ==
    /\ passed' \in {passed \cup {b} : b \in ({p} \X {"becomes_effective", "expires"}) \ passed}
    /\ <<p, "expires">> \in passed' => <<p, "becomes_effective">> \in passed
    /\ UNCHANGED <<facts, processed, shown, created, pc, txn>>

\* Rows that s and t would both write.
Collide(w, x) ==
    \E r \in {"members", "attached", "active", "satisfied", "overrides"} :
        (w.add[r] \cup w.del[r]) \cap (x.add[r] \cup x.del[r]) # {}

\* session.flush(): waits for other requests' rows; a second insertion of one key is
\* rejected, a second deletion or retirement is not.
Flush(s) ==
    /\ pc[s] = "checked"
    /\ \A t \in Sessions \ {s} :
          pc[t] \in {"flushed", "resolved"} => ~ Collide(txn[s], txn[t])
    /\ txn[s].add.members \cap facts.members = {}
    /\ txn[s].add.attached \cap facts.attached = {}
    /\ pc' = [pc EXCEPT ![s] = "flushed"]
    /\ UNCHANGED <<facts, passed, processed, shown, created, txn>>

\* Faulty: an override conceals a conflict.
ReconcileOverConflict(s) ==
    LET now == Changed(facts, txn[s])
        ids == Reconciled(now, txn[s].aim)
    IN  /\ pc[s] = "flushed"
        /\ \A e \in ids : Conflicts(now, e, passed) =>
              \E o \in now.overrides : o.employee = e /\ o.field \in OneValued
        /\ pc' = [pc EXCEPT ![s] = "resolved"]
        /\ txn' = [txn EXCEPT ![s].desired = [e \in ids |-> Resolution(now, e, passed)]]
        /\ UNCHANGED <<facts, passed, processed, shown, created>>

\* reconcile_employees, from what is committed and its own rows; a conflict of any
\* employee in the batch raises and ends the request.
Reconcile(s) ==
    LET now == Changed(facts, txn[s])
        ids == Reconciled(now, txn[s].aim)
    IN  /\ pc[s] = "flushed"
        /\ \A e \in ids : ~ Conflicts(now, e, passed)
        /\ pc' = [pc EXCEPT ![s] = "resolved"]
        /\ txn' = [txn EXCEPT ![s].desired = [e \in ids |-> Resolution(now, e, passed)]]
        /\ UNCHANGED <<facts, passed, processed, shown, created>>

Commit(s) ==
    LET w == txn[s] IN
    /\ pc[s] = "resolved"
    /\ facts' = Changed(facts, w)
    /\ shown' = [e \in Employees |-> IF e \in DOMAIN w.desired THEN w.desired[e] ELSE shown[e]]
    /\ processed' = processed \cup w.events
    /\ pc' = [pc EXCEPT ![s] = "idle"]
    /\ txn' = [txn EXCEPT ![s] = Idle]
    /\ UNCHANGED <<passed, created>>

\* A conflict, a rejected row, a lost connection.
Rollback(s) ==
    /\ pc[s] # "idle"
    /\ pc' = [pc EXCEPT ![s] = "idle"]
    /\ txn' = [txn EXCEPT ![s] = Idle]
    /\ UNCHANGED <<facts, passed, processed, shown, created>>

\* The routes for members of groups.
MembershipRequest(s) ==
    \E g \in Groups, leave, join \in SUBSET Employees :
        leave \cap join = {} /\ ChangeMembership(s, g, leave, join)

\* The routes for policies of groups.
GroupPolicyRequest(s) ==
    \E g \in Groups, remove, add \in SUBSET Policies :
        remove \cap add = {} /\ ChangeGroupPolicies(s, g, remove, add)

\* The routes for overrides of an employee, and the refresh of one.
OverrideRequest(s) ==
    \/ \E e \in Employees, f \in Fields, v \in Values : CreateOverride(s, e, f, v)
    \/ \E o \in facts.overrides, f \in Fields, v \in Values : UpdateOverride(s, o, f, v)
    \/ \E o \in facts.overrides : DeleteOverride(s, o)
    \/ \E e \in Employees : Refresh(s, e)

\* Callers see every employee and field here: what a scope hides from a caller
\* (Visibility) can only refuse a request.
Author(s) ==
    \/ MembershipRequest(s)
    \/ GroupPolicyRequest(s)
    \/ OverrideRequest(s)
    \/ \E p \in Policies : ChangePolicy(s, p)
    \/ \E e \in Employees, p \in Conditional : ChangeFact(s, e, p)

AFNext ==
    \/ \E s \in Sessions :
          Author(s) \/ ClaimEvents(s) \/ Flush(s) \/ Reconcile(s) \/ Commit(s) \/ Rollback(s)
    \/ \E p \in Dated : PassBoundary(p)

AFSpec == AFInit /\ [][AFNext]_afVars

-----------------------------------------------------------------------------
AFTypeOK ==
    /\ facts \in Table
    /\ processed \subseteq passed /\ passed \subseteq Boundaries
    /\ \A e \in Employees : \A a \in shown[e] :
          a.field \in Fields /\ a.value \in Values
            /\ a.source \in ({"version"} \X Policies) \cup ({"override"} \X (1 .. created))
    /\ created \in 0 .. MaxOverrides
    /\ pc \in [Sessions -> {"idle", "checked", "flushed", "resolved"}]
    /\ \A s \in Sessions : Changed(facts, txn[s]) \in Table

\* No request is under way and no event of a policy version is due.
Quiet == (\A s \in Sessions : pc[s] = "idle") /\ passed = processed

\* The rule in the words of docs/system-design.md:92-96, from which nothing of
\* Resolution is used: what policy p sets for field f of employee e.
Prevails(p, f, v, e) ==
    /\ p \in Matches(facts, e, passed) /\ <<f, v>> \in Gives[p]
    /\ ~ \E o \in facts.overrides : o.employee = e /\ o.field = f
    /\ ~ \E q \in Matches(facts, e, passed), u \in Values :
          /\ <<f, u>> \in Gives[q]
          /\ f \in OneValued \/ u = v
          /\ Priority[q] > Priority[p] \/ (Priority[q] = Priority[p] /\ q < p)

Promised(e) ==
    {Assignment(o.field, o.value, "override", o.id) :
        o \in {x \in facts.overrides : x.employee = e}}
    \cup {a \in [field : Fields, value : Values, source : {"version"} \X Policies] :
            Prevails(a.source[2], a.field, a.value, e)}

\* Whoever a mutation or a boundary concerns has been reconciled: between requests,
\* unless an event is due, everyone's assignments are what the committed facts
\* promise (docs/system-design.md:132-141).
EveryoneShowsThePromise == Quiet => \A e \in Employees : shown[e] = Promised(e)

\* No two equally ranked policies disagree on a one-valued field of anyone: each
\* mutation that would make them is rejected whole, and a boundary that makes them
\* leaves its event due (docs/system-design.md:92).
NoStandingConflict == Quiet => \A e \in Employees : ~ Conflicts(facts, e, passed)

\* Both: the types, and no conflict that stands.
AFInv == AFTypeOK /\ NoStandingConflict

OneOverride(O) ==
    \A o, x \in O :
        o.employee = x.employee /\ o.field = x.field
          /\ (o.field \in OneValued \/ o.value = x.value) => o = x

\* A one-valued field has one active override per employee, and no field has two of
\* the same value (employee_overrides.py:196-230).
OverridesCounted == OneOverride(facts.overrides)

\* Everyone sees at most one value in a one-valued field.
OneValueShown ==
    \A e \in Employees : \A a, b \in shown[e] :
        a.field = b.field /\ a.field \in OneValued => a.value = b.value
=============================================================================
