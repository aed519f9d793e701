--------------------------- MODULE PolicyVersions ---------------------------
(***************************************************************************)
(* Policies and their dated versions: the routes that create a policy, add *)
(* a version to it or change its status (routers/policies.py), and the     *)
(* service that closes the open version, rejects overlaps and numbers the  *)
(* new one (services/policy_versions.py).                                  *)
(*                                                                         *)
(* A request is a database transaction under READ COMMITTED.  It loads the *)
(* policy WITHOUT a lock, later takes the policy's row lock, then reads    *)
(* and writes, and commits.  What it has written is kept in txn[s] until   *)
(* the commit publishes it, so nobody else sees it earlier.                *)
(***************************************************************************)
EXTENDS Integers, FiniteSets, FiniteSetsExt

CONSTANTS
    Policies,      \* identities of Policy rows
    Sessions,      \* request transactions that may run at the same time
    NoSession,     \* "nobody holds the row lock"
    LastDay,       \* date.max: dates are 0..LastDay
    Ranges,        \* bound: date ranges that requests ask for
    MaxVersions    \* bound: versions a policy may get

ASSUME SessionsAssumption == NoSession \notin Sessions
ASSUME LastDayAssumption == LastDay \in Nat
ASSUME MaxVersionsAssumption == MaxVersions \in Nat

Days == 0 .. LastDay
Open == LastDay + 1            \* effective_until IS NULL: later than any date
ASSUME RangesAssumption == Ranges \subseteq Days \X (Days \cup {Open})

Statuses == {"draft", "active", "archived"}

Version == [policy : Policies, number : Nat, from : Days, until : Days \cup {Open}]

\* A request's work.  "loaded" is the status read with the unlocked load, "open" the
\* numbers of the versions that were open in it; "to" is the status the request
\* wants; gone and add are the rows it replaces and inserts, not yet committed.
Work == [op : {"create", "version", "patch"}, policy : Policies,
         loaded : Statuses, open : SUBSET Nat, to : Statuses,
         from : Days, until : Days \cup {Open},
         gone : SUBSET Version, add : SUBSET Version]

VARIABLES
    status,     \* committed Policy.status, "absent" before the policy exists
    versions,   \* committed policy_versions rows
    lock,       \* holder of the row lock of each policy
    pc,         \* where each request is
    txn         \* each request's work

pvVars == <<status, versions, lock, pc, txn>>

NoWork(p) == [op |-> "patch", policy |-> p, loaded |-> "draft", open |-> {},
              to |-> "draft", from |-> 0, until |-> Open, gone |-> {}, add |-> {}]

-----------------------------------------------------------------------------
\* Operators of services/policy_versions.py, on a set of version rows.

VersionsOf(vs, p) == {v \in vs : v.policy = p}

\* Faulty: closes an open version that does not start before the new one.
AnyPriorOpen(vs, p, from) ==
    LET open == {v \in VersionsOf(vs, p) : v.until = Open}
    IN  {v \in open : \A w \in open : w.from <= v.from}

\* _close_prior_open_ended_version: the open version that starts latest before
\* the new one (ORDER BY effective_from DESC LIMIT 1), as a set.
PriorOpen(vs, p, from) ==
    LET open == {v \in VersionsOf(vs, p) : v.until = Open /\ v.from < from}
    IN  {v \in open : \A w \in open : w.from <= v.from}

\* Faulty: leaves a day between the closed version and the new one.
ClosedADayEarly(v, from) == [v EXCEPT !.until = Max({v.from, from - 2})]

Closed(v, from) == [v EXCEPT !.until = from - 1]

AfterClosing(vs, p, from) ==
    (vs \ PriorOpen(vs, p, from)) \cup {Closed(v, from) : v \in PriorOpen(vs, p, from)}

\* Inclusive ranges meet; Open stands for both NULL and "or date.max".
RangesMeet(f1, u1, f2, u2) == f1 <= u2 /\ f2 <= u1

\* Faulty: compares effective_until with >= only, which NULL never satisfies.
OverlappingClosedOnly(vs, p, from, until) ==
    \E v \in VersionsOf(vs, p) : v.until # Open /\ RangesMeet(v.from, v.until, from, until)

\* _reject_overlapping_range
Overlapping(vs, p, from, until) ==
    \E v \in VersionsOf(vs, p) : RangesMeet(v.from, v.until, from, until)

\* Faulty: the number of versions that are still open, plus one.
NumberByOpenVersions(vs, p) == 1 + Cardinality({v \in VersionsOf(vs, p) : v.until = Open})

\* coalesce(max(version_number), 0) + 1
NextNumber(vs, p) ==
    LET numbers == {v.number : v \in VersionsOf(vs, p)}
    IN  IF numbers = {} THEN 1 ELSE 1 + Max(numbers)

\* get_effective_policy_versions for one policy: every row the query returns.
EffectiveRows(st, vs, p, day) ==
    {v \in VersionsOf(vs, p) : st[p] = "active" /\ v.from <= day /\ day <= v.until}

-----------------------------------------------------------------------------
PVInit ==
    /\ status = [p \in Policies |-> "absent"]
    /\ versions = {}
    /\ lock = [p \in Policies |-> NoSession]
    /\ pc = [s \in Sessions |-> "idle"]
    /\ \E p \in Policies : txn = [s \in Sessions |-> NoWork(p)]

\* POST /policies: the new row is invisible to others and needs no lock to be
\* waited for; holding its lock keeps two requests off the same identity.
BeginCreate(s, p, st, from, until) ==
    /\ pc[s] = "idle"
    /\ status[p] = "absent" /\ lock[p] = NoSession
    /\ from <= until
    /\ lock' = [lock EXCEPT ![p] = s]
    /\ pc' = [pc EXCEPT ![s] = "locked"]
    /\ txn' = [txn EXCEPT ![s] = [NoWork(p) EXCEPT !.op = "create", !.loaded = st,
                                    !.to = st, !.from = from, !.until = until]]
    /\ UNCHANGED <<status, versions>>

\* Versions of p as _policy_or_404 loads them with the policy, without a lock; the
\* session keeps these objects, and a later SELECT does not refresh them.
LoadedOpen(p) == {v.number : v \in {x \in VersionsOf(versions, p) : x.until = Open}}

\* POST /policies/{id}/versions up to the row lock: _policy_or_404, 409 for an
\* archived policy, 422 for a reversed range.
BeginVersion(s, p, from, until) ==
    /\ pc[s] = "idle"
    /\ status[p] \in {"draft", "active"}
    /\ from <= until
    /\ Cardinality(VersionsOf(versions, p)) < MaxVersions
    /\ pc' = [pc EXCEPT ![s] = "loaded"]
    /\ txn' = [txn EXCEPT ![s] = [NoWork(p) EXCEPT !.op = "version", !.loaded = status[p],
                                    !.open = LoadedOpen(p), !.to = status[p],
                                    !.from = from, !.until = until]]
    /\ UNCHANGED <<status, versions, lock>>

\* PATCH /policies/{id} up to the UPDATE that session.flush() sends.  A request
\* that sets the status it loaded writes no status and stops there.
BeginPatch(s, p, st) ==
    /\ pc[s] = "idle"
    /\ status[p] \in Statuses /\ st # status[p]
    /\ pc' = [pc EXCEPT ![s] = "loaded"]
    /\ txn' = [txn EXCEPT ![s] = [NoWork(p) EXCEPT !.loaded = status[p],
                                    !.open = LoadedOpen(p), !.to = st]]
    /\ UNCHANGED <<status, versions, lock>>

\* SELECT ... FOR UPDATE, or the UPDATE of the status: waits for the row lock.
AcquireLock(s) ==
    /\ pc[s] = "loaded"
    /\ lock[txn[s].policy] = NoSession
    /\ lock' = [lock EXCEPT ![txn[s].policy] = s]
    /\ pc' = [pc EXCEPT ![s] = "locked"]
    /\ UNCHANGED <<status, versions, txn>>

\* create_policy_version below the lock: close, check, number, insert.
Written(vs, w) ==
    LET p == w.policy
    IN  [w EXCEPT !.gone = PriorOpen(vs, p, w.from),
                  !.add = {Closed(v, w.from) : v \in PriorOpen(vs, p, w.from)} \cup
                          {[policy |-> p, number |-> NextNumber(vs, p),
                            from |-> w.from, until |-> w.until]}]

WriteVersion(s) ==
    LET w == txn[s] IN
    /\ pc[s] = "locked" /\ w.op \in {"create", "version"}
    /\ ~ Overlapping(AfterClosing(versions, w.policy, w.from), w.policy, w.from, w.until)
    /\ txn' = [txn EXCEPT ![s] = Written(versions, w)]
    /\ pc' = [pc EXCEPT ![s] = "written"]
    /\ UNCHANGED <<status, versions, lock>>

WriteStatus(s) ==
    /\ pc[s] = "locked" /\ txn[s].op = "patch"
    /\ pc' = [pc EXCEPT ![s] = "written"]
    /\ UNCHANGED <<status, versions, lock, txn>>

\* A transaction that ends forgets its work and releases its lock.
EndTxn(s) ==
    /\ lock' = [lock EXCEPT ![txn[s].policy] = NoSession]
    /\ pc' = [pc EXCEPT ![s] = "idle"]
    /\ txn' = [txn EXCEPT ![s] = NoWork(txn[s].policy)]

\* PolicyVersionOverlapError: get_db rolls the closing of the prior version back.
RejectOverlap(s) ==
    LET w == txn[s] IN
    /\ pc[s] = "locked" /\ w.op \in {"create", "version"}
    /\ Overlapping(AfterClosing(versions, w.policy, w.from), w.policy, w.from, w.until)
    /\ EndTxn(s)
    /\ UNCHANGED <<status, versions>>

\* Any later failure of the request (a policy conflict found by the refresh, a
\* lost connection) rolls everything back.
Rollback(s) ==
    /\ pc[s] = "written"
    /\ EndTxn(s)
    /\ UNCHANGED <<status, versions>>

\* get_db commits.  A version request does not write the status column.
Commit(s) ==
    LET w == txn[s] IN
    /\ pc[s] = "written"
    /\ versions' = (versions \ w.gone) \cup w.add
    /\ status' = IF w.op = "version" THEN status ELSE [status EXCEPT ![w.policy] = w.to]
    /\ EndTxn(s)

PVNext ==
    \E s \in Sessions :
        \/ \E p \in Policies, r \in Ranges :
              \/ \E st \in Statuses : BeginCreate(s, p, st, r[1], r[2])
              \/ BeginVersion(s, p, r[1], r[2])
        \/ \E p \in Policies, st \in Statuses : BeginPatch(s, p, st)
        \/ AcquireLock(s)
        \/ WriteVersion(s)
        \/ WriteStatus(s)
        \/ RejectOverlap(s)
        \/ Rollback(s)
        \/ Commit(s)

PVSpec == PVInit /\ [][PVNext]_pvVars

-----------------------------------------------------------------------------
\* Every variable has its type and a lock is held by a request in progress.
PVTypeOK ==
    /\ status \in [Policies -> Statuses \cup {"absent"}]
    /\ versions \subseteq Version
    /\ lock \in [Policies -> Sessions \cup {NoSession}]
    /\ pc \in [Sessions -> {"idle", "loaded", "locked", "written"}]
    /\ txn \in [Sessions -> Work]

Disjoint(vs) ==
    \A v, w \in vs :
        v.policy = w.policy /\ RangesMeet(v.from, v.until, w.from, w.until) => v = w

\* No two versions of a policy have a date in common, however requests
\* interleave: policy_versions.py:134-170 raises when a date has two versions,
\* which would make every reconciliation fail.
NoOverlap == Disjoint(versions)

\* Versions of a policy are numbered 1..n without gap or repetition although
\* the number is computed by a read (policy_versions.py:91-96), so
\* uq(policy_id, version_number) never fires.
NumbersAreConsecutive ==
    /\ \A v, w \in versions : v.policy = w.policy /\ v.number = w.number => v = w
    /\ \A v \in versions : \A n \in 1 .. v.number :
          \E w \in versions : w.policy = v.policy /\ w.number = n

\* w is v, or v with its open end closed no earlier than its start.
SameOrClosed(v, w) ==
    /\ w.policy = v.policy /\ w.number = v.number /\ w.from = v.from
    /\ w.until = v.until \/ (v.until = Open /\ w.until >= v.from)

\* A committed version is never lost, re-dated or reopened: a step may only end
\* an open version, and never before its own start (policy_versions.py:203-220).
VersionsOnlyClose ==
    [][\A v \in versions : \E w \in versions' : SameOrClosed(v, w)]_pvVars

\* Which version answers for a date changes only from the date the new version
\* starts: adding a version leaves every earlier date's answer as it was.
EarlierDatesKeepTheirVersion ==
    [][\A s \in Sessions :
          pc[s] = "written" /\ versions' # versions /\ pc'[s] = "idle" =>
             \A d \in Days : d < txn[s].from =>
                 {v.number : v \in {x \in VersionsOf(versions, txn[s].policy) :
                                       x.from <= d /\ d <= x.until}}
               = {v.number : v \in {x \in VersionsOf(versions', txn[s].policy) :
                                       x.from <= d /\ d <= x.until}}]_pvVars
=============================================================================
