---------------------------- MODULE TenureEvents ----------------------------
(***************************************************************************)
(* Conditions on tenure become true or false on an anniversary, when no    *)
(* request runs.  Requests that change an employee's start date or a       *)
(* policy therefore schedule one event per employee and anniversary        *)
(* (services/tenure_scheduling.py), and the worker reconciles the employee *)
(* that day.                                                               *)
(*                                                                         *)
(* A policy consists here of versions with one tenure condition each.  The *)
(* instants that matter are midnights, so time is counted in days.  A      *)
(* request selects and writes its event rows in one step; it waits for     *)
(* rows that another request has written.  The events of version ranges,   *)
(* the matter of PolicySchedules, appear as missed.                        *)
(***************************************************************************)
EXTENDS Integers, FiniteSets

CONSTANTS
    Employees, Policies,
    Sessions,      \* request transactions that may run at the same time
    LastDay,       \* bound: days are 0..LastDay
    StartDays,     \* bound: start dates of employees
    MaxYears,      \* bound: years in a condition
    Conditions,    \* bound: <<operator, years>> of a version's condition
    FromDays,      \* bound: first days of versions
    MaxVersions,   \* bound: versions a policy may get
    Anniversary,   \* add_calendar_years: start date -> years -> day
    Absent, Open   \* no such row; effective_until IS NULL

Days == 0 .. LastDay
Years == 1 .. MaxYears + 1

ASSUME LastDayAssumption == LastDay \in Nat
ASSUME CalendarAssumption ==
    /\ StartDays \subseteq Days /\ FromDays \subseteq Days
    /\ Anniversary \in [StartDays -> [Years -> Nat]]
    /\ \A d \in StartDays : \A m, n \in Years : m < n => Anniversary[d][m] < Anniversary[d][n]
ASSUME MaxYearsAssumption == MaxYears \in Nat \ {0}
ASSUME ConditionsAssumption ==
    Conditions \subseteq {"=", "<", "<=", ">", ">="} \X (1 .. MaxYears)
ASSUME NullsAssumption == Absent \notin Int /\ Open \notin Int

Version == [cond : Conditions, from : FromDays, until : Days \cup {Open}]

EventKey == Employees \X {Anniversary[d][n] : d \in StartDays, n \in Years}

VARIABLES
    today,         \* current_date()
    start,         \* committed start_date of each employee
    active,        \* committed policies with status "active"
    versions,      \* committed versions of each policy
    events,        \* committed tenure events: key -> status
    shown,         \* the policies each employee was last reconciled with
    missed,        \* policies with a version boundary the worker has yet to process
    late,          \* employees whose last decision was older than the one it replaced
    pc,            \* where each request is
    txn            \* what each request has read and not yet committed

teVars == <<today, start, active, versions, events, shown, missed, late, pc, txn>>

Staff == {e \in Employees : start[e] # Absent}

Pending == {k \in DOMAIN events : events[k] = "pending"}

-----------------------------------------------------------------------------
\* tenure_transition_dates
TransitionYears(op, n) ==
    CASE op = "="            -> {n, n + 1}
      [] op \in {"<", ">="}  -> {n}
      [] op \in {"<=", ">"}  -> {n + 1}

\* _compare_tenure on a day, for an employee who started on day s.
Satisfied(op, n, s, day) ==
    LET reached == Anniversary[s][n] <= day
        next    == Anniversary[s][n + 1] <= day
    IN  CASE op = "="  -> reached /\ ~ next
          [] op = "<"  -> ~ reached
          [] op = "<=" -> ~ next
          [] op = ">"  -> next
          [] op = ">=" -> reached

Effective(v, day) == v.from <= day /\ (v.until = Open \/ day <= v.until)

\* The policies an employee who started on day s matches on a day.
Matching(act, vs, s, day) ==
    {p \in act : \E v \in vs[p] : Effective(v, day) /\ Satisfied(v.cond[1], v.cond[2], s, day)}

\* The anniversaries on which an active policy's condition turns while the version
\* it belongs to is in effect.
Transitions(act, vs, s) ==
    {day \in {Anniversary[s][n] : n \in Years} :
        \E p \in act : \E v \in vs[p] : \E n \in TransitionYears(v.cond[1], v.cond[2]) :
            day = Anniversary[s][n] /\ Effective(v, day)}

Desired(act, vs, e, s, now) == {e} \X {day \in Transitions(act, vs, s) : day > now}

\* Faulty: cancelled events are taken for scheduled ones.
InsertOnly(E, desired) ==
    [k \in {j \in Pending : j[1] \in E /\ j \notin desired} \cup (desired \ DOMAIN events) |->
        IF k \in desired THEN "pending" ELSE "cancelled"]

\* cancel_pending_reconciliations for employees E, keeping desired, and then
\* schedule_reconciliation of each desired event: the rows written.
EventWrites(E, desired) ==
    [k \in {j \in Pending : j[1] \in E /\ j \notin desired}
            \cup {j \in desired : j \in DOMAIN events => events[j] = "cancelled"} |->
        IF k \in desired THEN "pending" ELSE "cancelled"]

\* An open version that starts before a new one is closed the day before it.
Closed(vs, v) ==
    {IF u.until = Open /\ u.from < v.from THEN [u EXCEPT !.until = v.from - 1] ELSE u : u \in vs}

\* The ranges of two versions meet, on whatever day of the calendar.
Meets(u, v) == (v.until = Open \/ u.from <= v.until) /\ (u.until = Open \/ v.from <= u.until)

Added(vs, v) == Closed(vs, v) \cup {v}

\* emp, to: the employee a request changes and the new start date; pol, on, vs: the
\* policy, its new status and versions; at: the day it decides for; staff: the start
\* dates it has listed; writes: its event rows; shows: what it decided; overtaken:
\* the worker has refreshed the employee meanwhile (a history variable).
Idle == [emp |-> {}, to |-> Absent, pol |-> {}, on |-> FALSE, vs |-> {}, at |-> 0,
         staff |-> <<>>, writes |-> <<>>, shows |-> {}, overtaken |-> FALSE]

ActiveFor(w) == (active \ w.pol) \cup (IF w.on THEN w.pol ELSE {})
VersionsFor(w) == [p \in Policies |-> IF p \in w.pol THEN w.vs ELSE versions[p]]

\* The event rows as the writes w leave them.
EventsAfter(w) ==
    [k \in DOMAIN events \cup DOMAIN w |-> IF k \in DOMAIN w THEN w[k] ELSE events[k]]

\* A row, or a key not yet committed, that another request has written.
HeldByOthers(s, keys) ==
    \E t \in Sessions \ {s} : DOMAIN txn[t].writes \cap keys # {}

-----------------------------------------------------------------------------
TEInit ==
    /\ today = 0
    /\ start = [e \in Employees |-> Absent]
    /\ active = {}
    /\ versions = [p \in Policies |-> {}]
    /\ events = <<>>
    /\ shown = [e \in Employees |-> {}]
    /\ missed = {} /\ late = {}
    /\ pc = [s \in Sessions |-> "idle"]
    /\ txn = [s \in Sessions |-> Idle]

Begin(s, to, w) ==
    /\ pc[s] = "idle"
    /\ \A t \in Sessions : w.emp \cap txn[t].emp = {} /\ w.pol \cap txn[t].pol = {}
    /\ pc' = [pc EXCEPT ![s] = to]
    /\ txn' = [txn EXCEPT ![s] = w]
    /\ UNCHANGED <<today, start, active, versions, events, shown, missed, late>>

\* POST /employees, or PATCH of a start date, up to the reconciliation, which decides
\* with the clock read before it.
BeginEmployee(s, e, d) ==
    /\ d # start[e]
    /\ Begin(s, "decided", [Idle EXCEPT !.emp = {e}, !.to = d, !.at = today,
                               !.shows = Matching(active, versions, d, today)])

\* Faulty: the schedules are written as of a second reading of the clock.
SyncWithFreshClock(s) ==
    LET w == txn[s]
        writes == EventWrites(w.emp, UNION {Desired(active, versions, e, w.to, today) : e \in w.emp})
    IN  /\ pc[s] = "decided"
        /\ ~ HeldByOthers(s, DOMAIN writes)
        /\ txn' = [txn EXCEPT ![s].writes = writes]
        /\ pc' = [pc EXCEPT ![s] = "written"]
        /\ UNCHANGED <<today, start, active, versions, events, shown, missed, late>>

\* sync_employee_tenure_schedules as of the same instant.
SyncEmployee(s) ==
    LET w == txn[s]
        writes == EventWrites(w.emp, UNION {Desired(active, versions, e, w.to, w.at) : e \in w.emp})
    IN  /\ pc[s] = "decided"
        /\ ~ HeldByOthers(s, DOMAIN writes)
        /\ txn' = [txn EXCEPT ![s].writes = writes]
        /\ pc' = [pc EXCEPT ![s] = "written"]
        /\ UNCHANGED <<today, start, active, versions, events, shown, missed, late>>

\* DELETE /employees/{id} cancels the employee's events and deletes the row.
BeginDelete(s, e) ==
    /\ e \in Staff
    /\ ~ HeldByOthers(s, {k \in Pending : k[1] = e})
    /\ Begin(s, "written", [Idle EXCEPT !.emp = {e}, !.writes = EventWrites({e}, {})])

\* A policy gets a version or another status; up to the list of the employees whose
\* events sync_all_employee_tenure_schedules will rewrite, and its clock.
BeginPolicy(s, p, on, vs) ==
    Begin(s, "listed", [Idle EXCEPT !.pol = {p}, !.on = on, !.vs = vs, !.at = today,
                           !.staff = [e \in Staff |-> start[e]]])

AddVersion(s, p) ==
    \E cond \in Conditions, from \in FromDays : \E until \in (from .. LastDay) \cup {Open} :
        LET v == [cond |-> cond, from |-> from, until |-> until] IN
        /\ Cardinality(versions[p]) < MaxVersions
        /\ \A u \in Closed(versions[p], v) : ~ Meets(u, v)
        /\ BeginPolicy(s, p, p \in active, Added(versions[p], v))

ChangeStatus(s, p) == versions[p] # {} /\ BeginPolicy(s, p, p \notin active, versions[p])

SyncAll(s) ==
    LET w == txn[s]
        writes == EventWrites(DOMAIN w.staff,
                    UNION {Desired(ActiveFor(w), VersionsFor(w), e, w.staff[e], w.at) :
                               e \in DOMAIN w.staff})
    IN  /\ pc[s] = "listed"
        /\ ~ HeldByOthers(s, DOMAIN writes)
        /\ txn' = [txn EXCEPT ![s].writes = writes]
        /\ pc' = [pc EXCEPT ![s] = "written"]
        /\ UNCHANGED <<today, start, active, versions, events, shown, missed, late>>

EndTxn(s) ==
    /\ pc' = [pc EXCEPT ![s] = "idle"]
    /\ txn' = [txn EXCEPT ![s] = Idle]

CommitEmployee(s) ==
    LET w == txn[s] IN
    /\ pc[s] = "written" /\ w.pol = {}
    /\ start' = [e \in Employees |-> IF e \in w.emp THEN w.to ELSE start[e]]
    /\ events' = EventsAfter(w.writes)
    /\ shown' = [e \in Employees |-> IF e \in w.emp THEN w.shows ELSE shown[e]]
    /\ late' = IF w.overtaken THEN late \cup w.emp ELSE late \ w.emp
    /\ EndTxn(s)
    /\ UNCHANGED <<today, active, versions, missed>>

\* refresh_employees_affected_by_policy reads the clock again; then the commit.
RefreshAndCommit(s) ==
    LET w == txn[s] IN
    /\ pc[s] = "written" /\ w.pol # {}
    /\ active' = ActiveFor(w)
    /\ versions' = VersionsFor(w)
    /\ events' = EventsAfter(w.writes)
    /\ shown' = [e \in Employees |->
                    IF e \in Staff THEN Matching(active', versions', start[e], today) ELSE {}]
    /\ missed' = missed \ w.pol
    /\ late' = {}
    /\ EndTxn(s)
    /\ UNCHANGED <<today, start>>

Rollback(s) ==
    /\ pc[s] # "idle"
    /\ EndTxn(s)
    /\ UNCHANGED <<today, start, active, versions, events, shown, missed, late>>

\* The due rows a worker can lock, and the employees it refreshes for them: those
\* named, or all when a version boundary is due as well.
Claimed == {k \in Pending : k[2] <= today /\ \A s \in Sessions : k \notin DOMAIN txn[s].writes}
Refreshed == IF missed = {} THEN {k[1] : k \in Claimed} ELSE Staff

\* reconcile_due_events with one batch for all that is due; an event of an employee
\* who does not exist raises, and nothing of the batch is processed.
ProcessDue ==
    /\ Claimed # {} \/ missed # {}
    /\ \A k \in Claimed : k[1] \in Staff
    /\ events' = [k \in DOMAIN events |-> IF k \in Claimed THEN "processed" ELSE events[k]]
    /\ shown' = [e \in Employees |->
                    IF e \in Refreshed THEN Matching(active, versions, start[e], today)
                    ELSE shown[e]]
    /\ late' = late \ Refreshed
    /\ txn' = [s \in Sessions |->
                    [txn[s] EXCEPT !.overtaken = @ \/ missed # {} \/ txn[s].emp \cap Refreshed # {}]]
    /\ missed' = {}
    /\ UNCHANGED <<today, start, active, versions, pc>>

PassDay ==
    /\ today < LastDay
    /\ today' = today + 1
    /\ missed' = missed \cup {p \in active : \E v \in versions[p] :
                                 v.from = today' \/ (v.until # Open /\ v.until = today)}
    /\ UNCHANGED <<start, active, versions, events, shown, late, pc, txn>>

Request(s) ==
    \/ \E e \in Employees : BeginDelete(s, e) \/ \E d \in StartDays : BeginEmployee(s, e, d)
    \/ \E p \in Policies : AddVersion(s, p) \/ ChangeStatus(s, p)
    \/ SyncEmployee(s) \/ SyncAll(s)
    \/ CommitEmployee(s) \/ RefreshAndCommit(s)
    \/ Rollback(s)

TENext == (\E s \in Sessions : Request(s)) \/ ProcessDue \/ PassDay

TESpec == TEInit /\ [][TENext]_teVars

-----------------------------------------------------------------------------
\* Types; the versions of a policy share no day.
TETypeOK ==
    /\ today \in Days
    /\ start \in [Employees -> StartDays \cup {Absent}]
    /\ active \subseteq Policies /\ missed \subseteq Policies /\ late \subseteq Employees
    /\ \A p \in Policies :
          /\ versions[p] \subseteq Version
          /\ \A u, v \in versions[p] : \A day \in Days : Effective(u, day) /\ Effective(v, day) => u = v
    /\ DOMAIN events \subseteq EventKey
    /\ \A k \in DOMAIN events : events[k] \in {"pending", "processed", "cancelled"}
    /\ shown \in [Employees -> SUBSET Policies]
    /\ pc \in [Sessions -> {"idle", "listed", "decided", "written"}]

\* The pending tenure events that lie ahead are, for each employee, exactly the
\* anniversaries on which a condition of an active policy turns, whatever versions
\* were closed, policies switched off and on, start dates moved and employees deleted
\* since; nobody who does not exist has one (tenure_scheduling.py:31).
TenureEventsMatch ==
    \A e \in Employees :
        IF e \in Staff
          THEN {k \in Pending : k[1] = e /\ k[2] > today}
                 = Desired(active, versions, e, start[e], today)
          ELSE \A k \in Pending : k[1] # e

\* Both: the types, with the versions of a policy apart, and the events that match.
TEInv == TETypeOK /\ TenureEventsMatch

\* The policies an employee shows are the ones matched today, unless an event for it
\* is due, or the worker refreshed the employee while a request that had decided for
\* an earlier day was under way.
StaleOnlyWhileTenureDue ==
    \A e \in Staff :
        shown[e] # Matching(active, versions, start[e], today) =>
            \/ \E k \in Pending : k[1] = e /\ k[2] <= today
            \/ missed # {}
            \/ e \in late
=============================================================================
