--------------------------- MODULE PolicySchedules --------------------------
(***************************************************************************)
(* Policy requests composed with the events they schedule and the worker   *)
(* that processes them.  Every mutation of a policy, in its transaction,   *)
(* rewrites the policy's pending events (scheduled_reconciliations.py:     *)
(* 118-161) and then reconciles every employee; later the worker           *)
(* reconciles again at each version boundary (192-260).  shown is the      *)
(* result for an employee whom every policy matches.                       *)
(*                                                                         *)
(* A reconciliation and the commit after it are one step here; what        *)
(* happens when two of them overlap is ConcurrentReconciliation's matter.  *)
(***************************************************************************)
EXTENDS PolicyVersions

CONSTANTS
    TicksPerDay,   \* instants in a day; the first one is midnight UTC
    MaxClock,      \* bound: the last instant
    BatchLimit     \* events a worker transaction claims at most

ASSUME TicksAssumption == TicksPerDay \in Nat \ {0}
ASSUME ClockAssumption == MaxClock \in 0 .. TicksPerDay * (LastDay + 1) - 1
ASSUME BatchAssumption == BatchLimit \in Nat \ {0}

StartOfDay(d) == TicksPerDay * d
DayOf(t) == t \div TicksPerDay

\* A scheduled_reconciliations row is identified by its unique key.
EventKey == [policy : Policies, number : Nat,
             trigger : {"becomes_effective", "expires"}, at : {StartOfDay(d) : d \in Days}]

VARIABLES
    clock,         \* current_datetime()
    events,        \* committed events: key -> "pending", "processed" or "cancelled"
    changes,       \* events a request has cancelled and scheduled, uncommitted
    shown,         \* version of each policy in the employee's assignments, 0 if none
    slipped,       \* history: policies whose events a stale status last rewrote
    outdated       \* history: policies whose events stale versions last rewrote

psVars == <<status, versions, lock, pc, txn, clock, events, changes, shown, slipped, outdated>>

NoChanges == [cancel |-> {}, add |-> {}]

Pending == {k \in DOMAIN events : events[k] = "pending"}

-----------------------------------------------------------------------------
\* Faulty: an event on the last day of the version instead of the day after it.
BoundariesOnTheLastDay(vs, now) ==
    {k \in {[policy |-> v.policy, number |-> v.number,
             trigger |-> "becomes_effective", at |-> StartOfDay(v.from)] : v \in vs}
           \cup
           {[policy |-> v.policy, number |-> v.number,
             trigger |-> "expires", at |-> StartOfDay(v.until)] :
                v \in {x \in vs : x.until < LastDay}} :
        k.at > now}

\* Boundaries of the rows vs of a policy that lie after now.
Boundaries(vs, now) ==
    {k \in {[policy |-> v.policy, number |-> v.number,
             trigger |-> "becomes_effective", at |-> StartOfDay(v.from)] : v \in vs}
           \cup
           {[policy |-> v.policy, number |-> v.number,
             trigger |-> "expires", at |-> StartOfDay(v.until + 1)] :
                v \in {x \in vs : x.until < LastDay}} :
        k.at > now}

\* The desired events: none unless the policy OBJECT of this session is active.
Desired(vs, st, now) == IF st = "active" THEN Boundaries(vs, now) ELSE {}

\* The version number a reconciliation on a day materialises for policy p.
EffectiveNumber(st, vs, p, day) ==
    LET found == {v.number : v \in EffectiveRows(st, vs, p, day)}
    IN  IF found = {} THEN 0 ELSE Max(found)

Materialised(st, vs, now) ==
    [p \in Policies |-> EffectiveNumber(st, vs, p, DayOf(now))]

-----------------------------------------------------------------------------
PSInit ==
    /\ PVInit
    /\ clock = 0
    /\ events = <<>>
    /\ changes = [s \in Sessions |-> NoChanges]
    /\ shown = [p \in Policies |-> 0]
    /\ slipped = {} /\ outdated = {}

\* The versions of the policy of w once w is flushed.
Flushed(vs, w) == (VersionsOf(vs, w.policy) \ w.gone) \cup w.add

\* The same rows as objects of the session: one that it loaded open, and has not
\* closed itself, is open to it although another request has closed it since.
Objects(vs, w) ==
    {IF v.number \in w.open /\ v \notin w.add THEN [v EXCEPT !.until = Open] ELSE v :
        v \in Flushed(vs, w)}

\* sync_policy_version_schedules in the transaction of s: w is the request, with
\* the rows it has just flushed.  Status and versions are those of its objects.
Sync(s, w) ==
    LET st == IF w.op = "version" THEN w.loaded ELSE w.to
        desired == Desired(Objects(versions, w), st, clock)
    IN  changes' = [changes EXCEPT ![s] =
            [cancel |-> {k \in Pending : k.policy = w.policy /\ k \notin desired},
             add    |-> desired]]

\* Faulty: a cancelled event stays cancelled; every desired event is set pending.
EventsNeverRestored(c) ==
    [k \in DOMAIN events \cup c.add |->
        IF k \in c.cancel THEN "cancelled"
        ELSE IF k \notin DOMAIN events THEN "pending" ELSE events[k]]

\* schedule_reconciliation inserts an event, restores a cancelled one, and leaves
\* a pending or processed one alone.
EventsAfter(c) ==
    [k \in DOMAIN events \cup c.add |->
        IF k \in c.cancel THEN "cancelled"
        ELSE IF k \notin DOMAIN events THEN "pending"
        ELSE IF k \in c.add /\ events[k] = "cancelled" THEN "pending"
        ELSE events[k]]

Requests(s) ==
    /\ \/ \E p \in Policies, r \in Ranges :
             \/ \E st \in Statuses : BeginCreate(s, p, st, r[1], r[2])
             \/ BeginVersion(s, p, r[1], r[2])
       \/ \E p \in Policies, st \in Statuses : BeginPatch(s, p, st)
       \/ AcquireLock(s)
       \/ RejectOverlap(s)
    /\ UNCHANGED <<clock, events, changes, shown, slipped, outdated>>

WriteVersionAndSync(s) ==
    /\ WriteVersion(s)
    /\ Sync(s, Written(versions, txn[s]))
    /\ UNCHANGED <<clock, events, shown, slipped, outdated>>

WriteStatusAndSync(s) ==
    /\ WriteStatus(s)
    /\ Sync(s, txn[s])
    /\ UNCHANGED <<clock, events, shown, slipped, outdated>>

\* refresh_employees_affected_by_policy reads the clock again, and get_db commits.
RefreshAndCommit(s) ==
    /\ Commit(s)
    /\ shown' = Materialised(status', versions', clock)
    /\ events' = EventsAfter(changes[s])
    /\ changes' = [changes EXCEPT ![s] = NoChanges]
    /\ slipped' = IF txn[s].op = "version" /\ txn[s].loaded # status[txn[s].policy]
                    THEN slipped \cup {txn[s].policy} ELSE slipped \ {txn[s].policy}
    /\ outdated' = IF Objects(versions, txn[s]) # Flushed(versions, txn[s])
                    THEN outdated \cup {txn[s].policy} ELSE outdated \ {txn[s].policy}
    /\ UNCHANGED clock

RollbackRequest(s) ==
    /\ Rollback(s)
    /\ changes' = [changes EXCEPT ![s] = NoChanges]
    /\ UNCHANGED <<clock, events, shown, slipped, outdated>>

\* Event rows an open transaction has updated: SKIP LOCKED passes them over.
Locked == UNION {changes[s].cancel \cup {k \in changes[s].add : k \in DOMAIN events /\ events[k] = "cancelled"} : s \in Sessions}

Due == {k \in Pending : k.at <= clock}

\* Faulty: claims events strictly before the clock.
OverdueBatches ==
    LET free == {k \in Due : k.at < clock} \ Locked
    IN  {B \in SUBSET free :
            /\ B # {}
            /\ Cardinality(B) = IF Cardinality(free) < BatchLimit
                                  THEN Cardinality(free) ELSE BatchLimit
            /\ \A k \in B, j \in free \ B : k.at <= j.at}

\* Any batch the worker may claim: the earliest unlocked due events, up to the limit.
Batches ==
    LET free == Due \ Locked
    IN  {B \in SUBSET free :
            /\ B # {}
            /\ Cardinality(B) = IF Cardinality(free) < BatchLimit
                                  THEN Cardinality(free) ELSE BatchLimit
            /\ \A k \in B, j \in free \ B : k.at <= j.at}

\* reconcile_due_events, one transaction of the worker.
ProcessBatch ==
    \E B \in Batches :
        /\ events' = [k \in DOMAIN events |-> IF k \in B THEN "processed" ELSE events[k]]
        /\ shown' = Materialised(status, versions, clock)
        /\ UNCHANGED <<status, versions, lock, pc, txn, clock, changes, slipped, outdated>>

PassTime ==
    /\ clock < MaxClock
    /\ clock' = clock + 1
    /\ UNCHANGED <<status, versions, lock, pc, txn, events, changes, shown, slipped, outdated>>

RequestStep(s) ==
    \/ Requests(s)
    \/ WriteVersionAndSync(s)
    \/ WriteStatusAndSync(s)
    \/ RefreshAndCommit(s)
    \/ RollbackRequest(s)

PSNext ==
    \/ \E s \in Sessions : RequestStep(s)
    \/ ProcessBatch
    \/ PassTime

PSSpec == PSInit /\ [][PSNext]_psVars

\* An external scheduler keeps starting the worker; nothing is assumed of users, of
\* requests that have begun, or of the clock.
PSFairSpec == PSSpec /\ WF_psVars(ProcessBatch)

-----------------------------------------------------------------------------
PSTypeOK ==
    /\ PVTypeOK
    /\ clock \in 0 .. MaxClock
    /\ DOMAIN events \subseteq EventKey
    /\ \A k \in DOMAIN events : events[k] \in {"pending", "processed", "cancelled"}
    /\ \A s \in Sessions : /\ changes[s].cancel \subseteq DOMAIN events
                           /\ changes[s].add \subseteq EventKey
    /\ shown \in [Policies -> Nat]

Ahead(p) == {k \in Pending : k.policy = p /\ k.at > clock}
BoundariesAhead(p) == Desired(VersionsOf(versions, p), status[p], clock)

\* The pending events of a policy that lie ahead are exactly the boundaries of its
\* versions when it is active, and none when it is not (docstring of
\* sync_policy_version_schedules, scheduled_reconciliations.py:124).  A writer that had
\* loaded a version before another request closed it drops the event of its end, and no
\* other: no event is wrong even then, and every boundary's instant keeps one.
SchedulesMatch ==
    \A p \in Policies \ slipped : status[p] # "absent" =>
        /\ Ahead(p) \subseteq BoundariesAhead(p)
        /\ p \notin outdated => BoundariesAhead(p) \subseteq Ahead(p)
        /\ \A k \in BoundariesAhead(p) : \E j \in Ahead(p) : j.at = k.at

\* Both: every event names a day of the calendar, date.max has no event after it, and
\* the events are those of the versions (scheduled_reconciliations.py:133-142).
PSInv == PSTypeOK /\ SchedulesMatch

Stale(p) == shown[p] # EffectiveNumber(status, versions, p, DayOf(clock))

\* The employee's assignments differ from what the policies say today only while
\* an event that will reconcile them is pending and due, however midnight falls
\* between reading the clock to schedule and reading it again to reconcile.
StaleOnlyWhileDue == \A p \in Policies \ slipped : Stale(p) => \E k \in Due : k.policy = p

\* What went stale is refreshed by the worker or by a request, unless requests hold
\* the due event's row again and again.
StaleIsRefreshed ==
    \A p \in Policies :
        \/ Stale(p) ~> (~ Stale(p) \/ p \in slipped)
        \/ []<>(\E k \in Locked \cap Due : k.policy = p)
=============================================================================
