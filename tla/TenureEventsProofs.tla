------------------------- MODULE TenureEventsProofs -------------------------
(***************************************************************************)
(* For any calendar in which each anniversary is later than the one before:*)
(* the days that tenure_transition_dates schedules are exactly the days on *)
(* which _compare_tenure changes its answer (services/condition_fields.py: *)
(* 585-599, 702-719), and so, while a version is in effect, an employee's  *)
(* matches change on no other day.  From this, for requests that do not    *)
(* overlap with each other, the invariants of TenureEvents, with the worker*)
(* and midnight at any point of a request.                                 *)
(***************************************************************************)
EXTENDS TenureEvents, TLAPS

\* The condition answers differently on a day and on the day before.
Turns(c, s, day) == ~ (Satisfied(c[1], c[2], s, day) <=> Satisfied(c[1], c[2], s, day - 1))

\* The two anniversaries a condition of n years compares with, in order.
LEMMA Thresholds ==
    ASSUME NEW c \in Conditions, NEW s \in StartDays
    PROVE  /\ c[1] \in {"=", "<", "<=", ">", ">="}
           /\ c[2] \in Years /\ c[2] + 1 \in Years
           /\ Anniversary[s][c[2]] \in Nat /\ Anniversary[s][c[2] + 1] \in Nat
           /\ Anniversary[s][c[2]] < Anniversary[s][c[2] + 1]
<1>1. c[1] \in {"=", "<", "<=", ">", ">="} /\ c[2] \in 1 .. MaxYears
  BY ConditionsAssumption
<1>2. c[2] \in Years /\ c[2] + 1 \in Years /\ c[2] < c[2] + 1
  BY <1>1, MaxYearsAssumption DEF Years
<1> QED
  BY <1>1, <1>2, CalendarAssumption

\* Nothing turns on a day that is not scheduled, and every day that is scheduled
\* turns the condition: the agreement of tenure_transition_dates and _compare_tenure.
THEOREM TransitionsAreTurns ==
    ASSUME NEW c \in Conditions, NEW s \in StartDays, NEW day \in Int
    PROVE  Turns(c, s, day) <=>
               \E n \in TransitionYears(c[1], c[2]) : day = Anniversary[s][n]
<1> DEFINE a == Anniversary[s][c[2]]
           b == Anniversary[s][c[2] + 1]
<1>0. a \in Nat /\ b \in Nat /\ a < b
  BY Thresholds
<1>1. /\ (a <= day) # (a <= day - 1) <=> day = a
      /\ (b <= day) # (b <= day - 1) <=> day = b
      /\ (a <= day /\ ~ (b <= day)) # (a <= day - 1 /\ ~ (b <= day - 1)) <=> day = a \/ day = b
  BY <1>0
<1> HIDE DEF a, b
<1>2. CASE c[1] = "="
  <2>1. Turns(c, s, day) <=> day = a \/ day = b
    BY <1>1, <1>2 DEF Turns, Satisfied, a, b
  <2> QED
    BY <1>2, <2>1 DEF TransitionYears, a, b
<1>3. CASE c[1] \in {"<", ">="}
  <2>1. Turns(c, s, day) <=> day = a
    BY <1>1, <1>3 DEF Turns, Satisfied, a, b
  <2> QED
    BY <1>3, <2>1 DEF TransitionYears, a, b
<1>4. CASE c[1] \in {"<=", ">"}
  <2>1. Turns(c, s, day) <=> day = b
    BY <1>1, <1>4 DEF Turns, Satisfied, a, b
  <2> QED
    BY <1>4, <2>1 DEF TransitionYears, a, b
<1> QED
  BY <1>2, <1>3, <1>4, Thresholds

\* A version starts on the day, or ended the day before.
RangeTurns(v, day) == v.from = day \/ (v.until # Open /\ v.until + 1 = day)

\* Unless the day is the boundary of an active version, which has an event of its
\* own, or one of the anniversaries that are scheduled, an employee matches the
\* policies matched the day before: no other day needs an event.
THEOREM OnlyScheduledDaysMatter ==
    ASSUME NEW act \in SUBSET Policies, NEW vs \in [Policies -> SUBSET Version],
           NEW s \in StartDays, NEW day \in Int,
           \A p \in act : \A v \in vs[p] : ~ RangeTurns(v, day),
           day \notin Transitions(act, vs, s)
    PROVE  Matching(act, vs, s, day) = Matching(act, vs, s, day - 1)
<1>1. ASSUME NEW p \in act, NEW v \in vs[p]
      PROVE  /\ Effective(v, day) <=> Effective(v, day - 1)
             /\ Effective(v, day) =>
                   (Satisfied(v.cond[1], v.cond[2], s, day)
                      <=> Satisfied(v.cond[1], v.cond[2], s, day - 1))
  <2>1. v \in Version /\ v.cond \in Conditions
    BY DEF Version
  <2>2. /\ v.from \in Int
        /\ v.until # Open => v.until \in Int
        /\ ~ RangeTurns(v, day)
    <3>1. Days \subseteq Int /\ FromDays \subseteq Days
      BY CalendarAssumption, LastDayAssumption DEF Days
    <3>2. v.from \in FromDays /\ v.until \in Days \cup {Open}
      BY <2>1 DEF Version
    <3>3. ~ RangeTurns(v, day)
      OBVIOUS
    <3> QED
      BY <3>1, <3>2, <3>3
  <2>3. Effective(v, day) <=> Effective(v, day - 1)
    BY <2>2 DEF Effective, RangeTurns
  <2>4. ASSUME Effective(v, day)
        PROVE  ~ Turns(v.cond, s, day)
    <3> SUFFICES ASSUME NEW n \in TransitionYears(v.cond[1], v.cond[2]),
                        day = Anniversary[s][n]
                 PROVE  FALSE
      BY <2>1, TransitionsAreTurns
    <3>1. n \in Years
      BY <2>1, Thresholds DEF TransitionYears
    <3> QED
      BY <2>4, <3>1 DEF Transitions
  <2> QED
    BY <2>3, <2>4 DEF Turns
<1>2. Matching(act, vs, s, day) \subseteq Matching(act, vs, s, day - 1)
  BY <1>1 DEF Matching
<1>3. Matching(act, vs, s, day - 1) \subseteq Matching(act, vs, s, day)
  BY <1>1 DEF Matching
<1> QED
  BY <1>2, <1>3

-----------------------------------------------------------------------------
(* One request at a time, with the worker and midnight at any point of it. *)

\* The fields of a request, whatever they hold.
Fields == {"emp", "to", "pol", "on", "vs", "at", "staff", "writes", "shows", "overtaken"}
Shaped(w) == w = [f \in Fields |-> w[f]]

Apart(vs) ==
    \A u, v \in vs : \A day \in Days : Effective(u, day) /\ Effective(v, day) => u = v

\* The rows x leave exactly the events D of the employees E pending, but for those that
\* have been processed.
Wrote(x, E, D) ==
    /\ DOMAIN x \subseteq EventKey
    /\ \A k \in DOMAIN x : k[1] \in E /\ x[k] = IF k \in D THEN "pending" ELSE "cancelled"
    /\ \A k \in Pending : k[1] \in E /\ k \notin D => k \in DOMAIN x
    /\ \A k \in D : k \in DOMAIN x \/ (k \in DOMAIN events /\ events[k] \in {"pending", "processed"})

Processed(k) == k \in DOMAIN events /\ events[k] = "processed"

\* What a request has decided for an employee is right today, or the worker has been there
\* since, or has work that will put it right: a boundary, or an event not yet processed.
CaughtUp(w) ==
    \A e \in w.emp :
        \/ w.shows = Matching(active, versions, w.to, today)
        \/ w.overtaken \/ missed # {}
        \/ \E day \in Transitions(active, versions, w.to) :
              w.at < day /\ day <= today /\ ~ Processed(<<e, day>>)

EmployeeWork(w) ==
    /\ w.pol = {} /\ w.emp \subseteq Employees /\ w.at \in Days /\ w.at <= today
    /\ w.shows \subseteq Policies

PolicyWork(w) ==
    /\ w.pol # {} /\ w.pol \subseteq Policies /\ w.on \in BOOLEAN
    /\ w.vs \subseteq Version /\ Apart(w.vs)
    /\ w.at \in Days /\ w.at <= today
    /\ w.staff = [e \in Staff |-> start[e]]

EmployeeEvents(w) == UNION {Desired(active, versions, e, w.to, w.at) : e \in w.emp}
PolicyEvents(w) ==
    UNION {Desired(ActiveFor(w), VersionsFor(w), e, start[e], w.at) : e \in Staff}

Sensible(w, at) ==
    /\ at = "decided" => EmployeeWork(w) /\ w.to \in StartDays /\ CaughtUp(w)
    /\ at = "listed" => PolicyWork(w)
    /\ at = "written" =>
          \/ /\ EmployeeWork(w) /\ w.to \in StartDays /\ CaughtUp(w)
             /\ Wrote(w.writes, w.emp, EmployeeEvents(w))
          \/ EmployeeWork(w) /\ w.to = Absent /\ Wrote(w.writes, w.emp, {})
          \/ PolicyWork(w) /\ Wrote(w.writes, Staff, PolicyEvents(w))

TInv ==
    /\ TEInv /\ StaleOnlyWhileTenureDue
    /\ versions \in [Policies -> SUBSET Version]
    /\ txn = [s \in Sessions |-> txn[s]]
    /\ \A s \in Sessions : Shaped(txn[s]) /\ Sensible(txn[s], pc[s])
    /\ \A k \in DOMAIN events : events[k] = "processed" => k[2] <= today

LEMMA Calendar ==
    /\ Days \subseteq Nat /\ FromDays \subseteq Days /\ StartDays \subseteq Days
    /\ Absent \notin StartDays /\ Open \notin Days
    /\ \A k \in EventKey : k[2] \in Nat /\ k[1] \in Employees /\ k = <<k[1], k[2]>>
<1>1. /\ Days \subseteq Nat /\ FromDays \subseteq Days /\ StartDays \subseteq Days
      /\ Absent \notin StartDays /\ Open \notin Days
  <2>1. Days \subseteq Nat
    BY LastDayAssumption DEF Days
  <2>2. FromDays \subseteq Days /\ StartDays \subseteq Days
    BY CalendarAssumption
  <2>3. \A d \in Days : d # Absent /\ d # Open
    BY <2>1, NullsAssumption
  <2> QED
    BY <2>1, <2>2, <2>3
<1>2. \A d \in StartDays, n \in Years : Anniversary[d][n] \in Nat
  BY CalendarAssumption
<1>3. ASSUME NEW k \in EventKey
      PROVE  k[2] \in Nat /\ k[1] \in Employees /\ k = <<k[1], k[2]>>
  BY <1>2 DEF EventKey
<1> QED
  BY <1>1, <1>3

\* The events of one employee, and the ones that remain of them on a later day.
LEMMA DesiredAre ==
    ASSUME NEW act, NEW vs, NEW e \in Employees, NEW d \in StartDays, NEW now \in Int
    PROVE  /\ Transitions(act, vs, d) \subseteq Nat
           /\ Desired(act, vs, e, d, now) \subseteq EventKey
           /\ \A k : k \in Desired(act, vs, e, d, now) <=>
                 k = <<e, k[2]>> /\ k[2] \in Transitions(act, vs, d) /\ k[2] > now
<1>1. Transitions(act, vs, d) \subseteq {Anniversary[d][n] : n \in Years}
  BY DEF Transitions
<1>2. \A n \in Years : Anniversary[d][n] \in Nat
  BY CalendarAssumption
<1>3. \A k : k \in Desired(act, vs, e, d, now) <=>
                 k = <<e, k[2]>> /\ k[2] \in Transitions(act, vs, d) /\ k[2] > now
  BY DEF Desired
<1>4. Desired(act, vs, e, d, now) \subseteq EventKey
  <2> SUFFICES ASSUME NEW k \in Desired(act, vs, e, d, now) PROVE k \in EventKey
    OBVIOUS
  <2>1. k = <<e, k[2]>> /\ k[2] \in {Anniversary[d][n] : n \in Years}
    BY <1>1, <1>3
  <2>2. k[2] \in {Anniversary[x][n] : x \in StartDays, n \in Years}
    BY <2>1
  <2> QED
    BY <2>1, <2>2 DEF EventKey
<1> QED
  BY <1>1, <1>2, <1>3, <1>4

\* cancel_pending_reconciliations and schedule_reconciliation write what they should.
LEMMA WritesAre ==
    ASSUME TETypeOK, NEW E \in SUBSET Employees, NEW D \in SUBSET EventKey,
           \A k \in D : k[1] \in E
    PROVE  Wrote(EventWrites(E, D), E, D)
BY DEF Wrote, EventWrites, Pending, TETypeOK

\* What a commit of such rows makes of the events.
LEMMA CommittedEvents ==
    ASSUME TETypeOK, NEW E, NEW D, NEW x, Wrote(x, E, D), events' = EventsAfter(x)
    PROVE  /\ DOMAIN events' \subseteq EventKey
           /\ \A k \in DOMAIN events' : events'[k] \in {"pending", "processed", "cancelled"}
           /\ \A k \in DOMAIN events' : events'[k] = "processed" => Processed(k)
           /\ \A k : k[1] \notin E => (k \in Pending' <=> k \in Pending)
           /\ \A k \in Pending' : k[1] \in E => k \in D
           /\ \A k \in D : k[1] \in E => k \in Pending' \/ Processed(k)
<1>1. /\ DOMAIN events' = DOMAIN events \cup DOMAIN x
      /\ \A k \in DOMAIN events' : events'[k] = IF k \in DOMAIN x THEN x[k] ELSE events[k]
  BY DEF EventsAfter
<1> QED
  BY <1>1 DEF Wrote, Pending, Processed, TETypeOK

\* After the commit of the rows of a request, the events ahead of each of its employees
\* are those of the facts it commits.
LEMMA CommittedMatch ==
    ASSUME TInv, NEW E \in SUBSET Employees, NEW D, NEW x, NEW act, NEW vs,
           NEW e \in E, NEW d \in StartDays, NEW at \in Days, at <= today,
           Wrote(x, E, D), \A k : k \in D /\ k[1] = e <=> k \in Desired(act, vs, e, d, at),
           events' = EventsAfter(x)
    PROVE  {k \in Pending' : k[1] = e /\ k[2] > today} = Desired(act, vs, e, d, today)
<1>1. TETypeOK /\ today \in Int /\ at \in Int /\ e \in Employees
  BY Calendar DEF TInv, TEInv, TETypeOK
<1>2. /\ Transitions(act, vs, d) \subseteq Nat
      /\ \A k : k \in Desired(act, vs, e, d, at) <=>
            k = <<e, k[2]>> /\ k[2] \in Transitions(act, vs, d) /\ k[2] > at
      /\ \A k : k \in Desired(act, vs, e, d, today) <=>
            k = <<e, k[2]>> /\ k[2] \in Transitions(act, vs, d) /\ k[2] > today
  BY <1>1, DesiredAre
<1>3. \A k : k \in D /\ k[1] = e /\ k[2] > today <=> k \in Desired(act, vs, e, d, today)
  BY <1>1, <1>2
<1>4. /\ \A k \in Pending' : k[1] = e => k \in D
      /\ \A k \in D : k[1] = e => k \in Pending' \/ Processed(k)
  BY <1>1, CommittedEvents
<1>5. \A k \in D : k[1] = e /\ k[2] > today => ~ Processed(k)
  BY <1>1, <1>2, <1>3 DEF TInv, Processed
<1> QED
  BY <1>3, <1>4, <1>5

\* A step that commits nothing, with the request's work sensible after it.
LEMMA NothingCommitted ==
    ASSUME TInv, UNCHANGED <<today, start, active, versions, events, shown, missed, late>>,
           pc' \in [Sessions -> {"idle", "listed", "decided", "written"}],
           txn' = [s \in Sessions |-> txn'[s]],
           \A s \in Sessions : Shaped(txn'[s]) /\ Sensible(txn'[s], pc'[s])
    PROVE  TInv'
<1>1. TETypeOK'
  BY DEF TInv, TEInv, TETypeOK, Effective
<1>2. TenureEventsMatch'
  BY DEF TInv, TEInv, TenureEventsMatch, Pending, Staff, Desired, Transitions, Effective
<1>3. StaleOnlyWhileTenureDue'
  BY DEF TInv, StaleOnlyWhileTenureDue, Pending, Staff, Matching, Effective
<1>4. ASSUME NEW s \in Sessions
      PROVE  Sensible(txn[s], pc[s])'
  <2>1. EmployeeWork(txn'[s]) => EmployeeWork(txn[s])'
    BY DEF EmployeeWork
  <2>2. PolicyWork(txn'[s]) => PolicyWork(txn[s])'
    BY DEF PolicyWork, Apart, Staff, Effective
  <2>3. CaughtUp(txn'[s]) => CaughtUp(txn[s])'
    BY DEF CaughtUp, Matching, Transitions, Effective, Processed
  <2>4. EmployeeEvents(txn'[s]) = EmployeeEvents(txn[s])'
    BY DEF EmployeeEvents, Desired, Transitions, Effective
  <2>5. PolicyEvents(txn'[s]) = PolicyEvents(txn[s])'
    BY DEF PolicyEvents, Desired, Transitions, Effective, ActiveFor, VersionsFor, Staff
  <2>6. \A E, D : Wrote(txn'[s].writes, E, D) => Wrote(txn[s].writes, E, D)'
    BY DEF Wrote, Pending
  <2>7. Staff' = Staff
    BY DEF Staff
  <2>8. Sensible(txn'[s], pc'[s])
    OBVIOUS
  <2> QED
    BY <2>1, <2>2, <2>3, <2>4, <2>5, <2>6, <2>7, <2>8 DEF Sensible
<1>5. \A s \in Sessions : Shaped(txn[s])'
  BY DEF Shaped
<1>6. \A k \in DOMAIN events' : events'[k] = "processed" => k[2] <= today'
  BY DEF TInv
<1>7. versions' \in [Policies -> SUBSET Version]
  BY DEF TInv
<1> QED
  BY <1>1, <1>2, <1>3, <1>4, <1>5, <1>6, <1>7 DEF TInv, TEInv

LEMMA RequestAlone ==
    ASSUME TInv, \A r, t \in Sessions : r = t, NEW s \in Sessions, NEW w, NEW c,
           c \in {"idle", "listed", "decided", "written"}, Shaped(w), Sensible(w, c),
           txn' = [txn EXCEPT ![s] = w], pc' = [pc EXCEPT ![s] = c],
           UNCHANGED <<today, start, active, versions, events, shown, missed, late>>
    PROVE  TInv'
<1>1. pc \in [Sessions -> {"idle", "listed", "decided", "written"}] /\ txn = [r \in Sessions |-> txn[r]]
  BY DEF TInv, TEInv, TETypeOK
<1>2. txn'[s] = w /\ pc'[s] = c /\ \A r \in Sessions : r = s
  BY <1>1
<1>3. /\ pc' \in [Sessions -> {"idle", "listed", "decided", "written"}]
      /\ txn' = [r \in Sessions |-> txn'[r]]
  BY <1>1
<1>4. \A r \in Sessions : Shaped(txn'[r]) /\ Sensible(txn'[r], pc'[r])
  BY <1>2
<1> QED
  BY <1>3, <1>4, NothingCommitted

\* A version added to those of a policy leaves them in the calendar and apart.
LEMMA AddedIsApart ==
    ASSUME NEW vs \in SUBSET Version, Apart(vs), NEW v \in Version,
           \A u \in Closed(vs, v) : ~ Meets(u, v)
    PROVE  Added(vs, v) \in SUBSET Version /\ Apart(Added(vs, v))
<1> DEFINE end(u) == IF u.until = Open /\ u.from < v.from THEN [u EXCEPT !.until = v.from - 1] ELSE u
<1>1. ASSUME NEW u \in vs
      PROVE  /\ end(u) \in Version
             /\ \A day \in Days : Effective(end(u), day) => Effective(u, day)
  <2>1. u.from \in Days /\ v.from \in Days /\ u \in Version
    BY Calendar DEF Version
  <2>2. CASE u.until = Open /\ u.from < v.from
    <3>1. end(u) = [u EXCEPT !.until = v.from - 1]
      BY <2>2
    <3>2. v.from - 1 \in Days
      BY <2>1, <2>2, LastDayAssumption DEF Days
    <3>3. end(u).from = u.from /\ end(u) \in Version
      BY <2>1, <3>1, <3>2 DEF Version
    <3> HIDE DEF end
    <3> QED
      BY <2>2, <3>3 DEF Effective
  <2>3. CASE ~ (u.until = Open /\ u.from < v.from)
    <3>1. end(u) = u
      BY <2>3
    <3> QED
      BY <2>1, <3>1
  <2> QED
    BY <2>2, <2>3
<1>2. Added(vs, v) = {end(u) : u \in vs} \cup {v} /\ \A u \in vs : ~ Meets(end(u), v)
  BY DEF Added, Closed
<1> HIDE DEF end
<1>3. ASSUME NEW a \in Added(vs, v), NEW b \in Added(vs, v), NEW day \in Days,
             Effective(a, day), Effective(b, day)
      PROVE  a = b
  <2>1. day \in Int /\ v.from \in Int /\ (v.until # Open => v.until \in Int)
    BY Calendar DEF Version
  <2>2. \A u \in vs : ~ (Effective(end(u), day) /\ Effective(v, day))
    <3> SUFFICES ASSUME NEW u \in vs, Effective(end(u), day), Effective(v, day)
                 PROVE  FALSE
      OBVIOUS
    <3>1. end(u).from \in Int /\ (end(u).until # Open => end(u).until \in Int)
      BY <1>1, Calendar DEF Version
    <3> QED
      BY <2>1, <3>1, <1>2 DEF Effective, Meets
  <2>3. \A u, x \in vs : Effective(end(u), day) /\ Effective(end(x), day) => u = x
    BY <1>1 DEF Apart
  <2> QED
    BY <1>2, <1>3, <2>2, <2>3
<1> QED
  BY <1>1, <1>2, <1>3 DEF Apart

LEMMA MatchingAre == \A act, vs, d, day : Matching(act, vs, d, day) \subseteq act
BY DEF Matching

\* The work that a request begins with.
LEMMA BegunWith ==
    ASSUME NEW w, NEW e, NEW d, NEW now, NEW m, NEW x, NEW p, NEW on, NEW vs, NEW l
    PROVE  /\ w = [Idle EXCEPT !.emp = {e}, !.to = d, !.at = now, !.shows = m] =>
                 /\ w.emp = {e} /\ w.to = d /\ w.at = now /\ w.shows = m /\ w.pol = {} /\ Shaped(w)
           /\ w = [Idle EXCEPT !.emp = {e}, !.writes = x] =>
                 /\ w.emp = {e} /\ w.writes = x /\ w.to = Absent /\ w.at = 0 /\ w.pol = {}
                 /\ w.shows = {} /\ Shaped(w)
           /\ w = [Idle EXCEPT !.pol = {p}, !.on = on, !.vs = vs, !.at = now, !.staff = l] =>
                 /\ w.pol = {p} /\ w.on = on /\ w.vs = vs /\ w.at = now /\ w.staff = l /\ Shaped(w)
<1>1. ASSUME w = [Idle EXCEPT !.emp = {e}, !.to = d, !.at = now, !.shows = m]
      PROVE  w.emp = {e} /\ w.to = d /\ w.at = now /\ w.shows = m /\ w.pol = {} /\ Shaped(w)
  BY <1>1 DEF Idle, Shaped, Fields
<1>2. ASSUME w = [Idle EXCEPT !.emp = {e}, !.writes = x]
      PROVE  /\ w.emp = {e} /\ w.writes = x /\ w.to = Absent /\ w.at = 0 /\ w.pol = {}
             /\ w.shows = {} /\ Shaped(w)
  BY <1>2 DEF Idle, Shaped, Fields
<1>3. ASSUME w = [Idle EXCEPT !.pol = {p}, !.on = on, !.vs = vs, !.at = now, !.staff = l]
      PROVE  w.pol = {p} /\ w.on = on /\ w.vs = vs /\ w.at = now /\ w.staff = l /\ Shaped(w)
  BY <1>3 DEF Idle, Shaped, Fields
<1> QED
  BY <1>1, <1>2, <1>3

\* Every step of a request up to its commit.
LEMMA OpenRequest ==
    ASSUME TInv, \A r, t \in Sessions : r = t, NEW s \in Sessions,
           \/ \E e \in Employees : BeginDelete(s, e) \/ \E d \in StartDays : BeginEmployee(s, e, d)
           \/ \E p \in Policies : AddVersion(s, p) \/ ChangeStatus(s, p)
           \/ SyncEmployee(s) \/ SyncAll(s) \/ Rollback(s)
    PROVE  TInv'
<1>0. /\ TETypeOK /\ today \in Days /\ 0 \in Days /\ today \in Nat /\ active \subseteq Policies
      /\ versions \in [Policies -> SUBSET Version] /\ \A p \in Policies : Apart(versions[p])
      /\ start \in [Employees -> StartDays \cup {Absent}]
      /\ Shaped(txn[s]) /\ Sensible(txn[s], pc[s])
      /\ txn = [r \in Sessions |-> txn[r]]
  BY Calendar, LastDayAssumption DEF TInv, TEInv, TETypeOK, Apart, Days
<1>1. CASE Rollback(s)
  <2>1. Shaped(Idle) /\ Sensible(Idle, "idle")
    BY DEF Shaped, Fields, Sensible, Idle
  <2> QED
    BY <1>1, <2>1, RequestAlone DEF Rollback, EndTxn
<1>2. ASSUME NEW e \in Employees, NEW d \in StartDays, BeginEmployee(s, e, d)
      PROVE  TInv'
  <2> DEFINE m == Matching(active, versions, d, today)
             w == [Idle EXCEPT !.emp = {e}, !.to = d, !.at = today, !.shows = m]
  <2>2. pc' = [pc EXCEPT ![s] = "decided"] /\ txn' = [txn EXCEPT ![s] = w]
        /\ UNCHANGED <<today, start, active, versions, events, shown, missed, late>>
    BY <1>2 DEF BeginEmployee, Begin
  <2> HIDE DEF m
  <2>1. w.emp = {e} /\ w.to = d /\ w.at = today /\ w.shows = m /\ w.pol = {} /\ Shaped(w)
    BY BegunWith
  <2> HIDE DEF w
  <2>3. Sensible(w, "decided")
    BY <2>1, <1>0, MatchingAre DEF Sensible, EmployeeWork, CaughtUp, m
  <2> QED
    BY <2>1, <2>2, <2>3, RequestAlone
<1>3. ASSUME NEW e \in Employees, BeginDelete(s, e)
      PROVE  TInv'
  <2> DEFINE x == EventWrites({e}, {})
             w == [Idle EXCEPT !.emp = {e}, !.writes = x]
  <2>2. pc' = [pc EXCEPT ![s] = "written"] /\ txn' = [txn EXCEPT ![s] = w]
        /\ UNCHANGED <<today, start, active, versions, events, shown, missed, late>>
    BY <1>3 DEF BeginDelete, Begin
  <2> HIDE DEF x
  <2>1. /\ w.emp = {e} /\ w.writes = x /\ w.to = Absent /\ w.at = 0 /\ w.pol = {}
        /\ w.shows = {} /\ Shaped(w)
    BY BegunWith
  <2> HIDE DEF w
  <2>3. Wrote(w.writes, w.emp, {})
    BY <2>1, <1>0, WritesAre DEF x
  <2>4. Sensible(w, "written")
    BY <2>1, <2>3, <1>0 DEF Sensible, EmployeeWork
  <2> QED
    BY <2>1, <2>2, <2>4, RequestAlone
<1>4. ASSUME NEW p \in Policies, NEW on \in BOOLEAN, NEW vs \in SUBSET Version, Apart(vs),
             BeginPolicy(s, p, on, vs)
      PROVE  TInv'
  <2> DEFINE l == [e \in Staff |-> start[e]]
             w == [Idle EXCEPT !.pol = {p}, !.on = on, !.vs = vs, !.at = today, !.staff = l]
  <2>2. pc' = [pc EXCEPT ![s] = "listed"] /\ txn' = [txn EXCEPT ![s] = w]
        /\ UNCHANGED <<today, start, active, versions, events, shown, missed, late>>
    BY <1>4 DEF BeginPolicy, Begin
  <2> HIDE DEF l
  <2>1. w.pol = {p} /\ w.on = on /\ w.vs = vs /\ w.at = today /\ w.staff = l /\ Shaped(w)
    BY BegunWith
  <2> HIDE DEF w
  <2>3. Sensible(w, "listed")
    BY <2>1, <1>0, <1>4 DEF Sensible, PolicyWork, l
  <2> QED
    BY <2>1, <2>2, <2>3, RequestAlone
<1>5. ASSUME NEW p \in Policies, AddVersion(s, p)
      PROVE  TInv'
  <2>1. PICK cond \in Conditions, from \in FromDays : \E until \in (from .. LastDay) \cup {Open} :
          LET v == [cond |-> cond, from |-> from, until |-> until] IN
          /\ \A u \in Closed(versions[p], v) : ~ Meets(u, v)
          /\ BeginPolicy(s, p, p \in active, Added(versions[p], v))
    BY <1>5 DEF AddVersion
  <2>2. PICK until \in (from .. LastDay) \cup {Open} :
          LET v == [cond |-> cond, from |-> from, until |-> until] IN
          /\ \A u \in Closed(versions[p], v) : ~ Meets(u, v)
          /\ BeginPolicy(s, p, p \in active, Added(versions[p], v))
    BY <2>1
  <2> DEFINE v == [cond |-> cond, from |-> from, until |-> until]
  <2>3. v \in Version
    <3>1. from \in Nat /\ (from .. LastDay) \subseteq Days
      BY Calendar, LastDayAssumption DEF Days
    <3> QED
      BY <3>1 DEF Version
  <2>4. /\ \A u \in Closed(versions[p], v) : ~ Meets(u, v)
        /\ BeginPolicy(s, p, p \in active, Added(versions[p], v))
    BY <2>2
  <2> HIDE DEF v
  <2>5. Added(versions[p], v) \in SUBSET Version /\ Apart(Added(versions[p], v))
    BY <1>0, <2>3, <2>4, AddedIsApart
  <2>6. (p \in active) \in BOOLEAN
    OBVIOUS
  <2> QED
    BY <2>4, <2>5, <2>6, <1>4
<1>6. ASSUME NEW p \in Policies, ChangeStatus(s, p)
      PROVE  TInv'
  <2>1. (p \notin active) \in BOOLEAN
    OBVIOUS
  <2> QED
    BY <1>0, <1>4, <1>6, <2>1 DEF ChangeStatus
<1>7. CASE SyncEmployee(s)
  <2> DEFINE D == EmployeeEvents(txn[s])
             w == [txn[s] EXCEPT !.writes = EventWrites(txn[s].emp, D)]
  <2>1. /\ EmployeeWork(txn[s]) /\ txn[s].to \in StartDays /\ CaughtUp(txn[s])
        /\ pc' = [pc EXCEPT ![s] = "written"] /\ txn' = [txn EXCEPT ![s] = w]
        /\ UNCHANGED <<today, start, active, versions, events, shown, missed, late>>
    BY <1>0, <1>7 DEF SyncEmployee, Sensible, EmployeeEvents
  <2>2. /\ w.emp = txn[s].emp /\ w.to = txn[s].to /\ w.at = txn[s].at /\ w.pol = txn[s].pol
        /\ w.shows = txn[s].shows /\ w.overtaken = txn[s].overtaken
        /\ w.writes = EventWrites(txn[s].emp, D) /\ Shaped(w)
    BY <1>0 DEF Shaped, Fields
  <2> HIDE DEF w
  <2>3. \A e \in txn[s].emp : \A k \in Desired(active, versions, e, txn[s].to, txn[s].at) :
            k \in EventKey /\ k[1] = e
    <3> SUFFICES ASSUME NEW e \in txn[s].emp
                 PROVE  \A k \in Desired(active, versions, e, txn[s].to, txn[s].at) :
                            k \in EventKey /\ k[1] = e
      OBVIOUS
    <3>1. e \in Employees /\ txn[s].at \in Int
      BY <2>1, Calendar DEF EmployeeWork
    <3> QED
      BY <2>1, <3>1, DesiredAre
  <2>4. D \in SUBSET EventKey /\ \A k \in D : k[1] \in txn[s].emp
    BY <2>3 DEF EmployeeEvents
  <2>5. Wrote(w.writes, w.emp, D)
    BY <2>1, <2>2, <2>4, <1>0, WritesAre DEF EmployeeWork
  <2>6. EmployeeEvents(w) = D
    BY <2>2 DEF EmployeeEvents
  <2>7. EmployeeWork(w) /\ CaughtUp(w) /\ w.to \in StartDays
    BY <2>1, <2>2 DEF EmployeeWork, CaughtUp
  <2>8. Sensible(w, "written")
    BY <2>5, <2>6, <2>7 DEF Sensible
  <2> QED
    BY <2>1, <2>2, <2>8, RequestAlone
<1>8. CASE SyncAll(s)
  <2> DEFINE D == PolicyEvents(txn[s])
             w == [txn[s] EXCEPT !.writes = EventWrites(Staff, D)]
  <2>0. PolicyWork(txn[s])
    BY <1>0, <1>8 DEF SyncAll, Sensible
  <2>1. /\ pc' = [pc EXCEPT ![s] = "written"] /\ txn' = [txn EXCEPT ![s] = w]
        /\ UNCHANGED <<today, start, active, versions, events, shown, missed, late>>
    <3>1. DOMAIN txn[s].staff = Staff /\ \A e \in Staff : txn[s].staff[e] = start[e]
      BY <2>0 DEF PolicyWork
    <3>2. UNION {Desired(ActiveFor(txn[s]), VersionsFor(txn[s]), e, txn[s].staff[e], txn[s].at) :
                     e \in DOMAIN txn[s].staff} = D
      BY <3>1 DEF PolicyEvents
    <3> HIDE DEF D
    <3> QED
      BY <1>0, <1>8, <3>1, <3>2 DEF SyncAll
  <2>2. /\ w.emp = txn[s].emp /\ w.pol = txn[s].pol /\ w.on = txn[s].on /\ w.vs = txn[s].vs
        /\ w.at = txn[s].at /\ w.staff = txn[s].staff
        /\ w.writes = EventWrites(Staff, D) /\ Shaped(w)
    BY <1>0 DEF Shaped, Fields
  <2> HIDE DEF w
  <2>3. \A e \in Staff :
            \A k \in Desired(ActiveFor(txn[s]), VersionsFor(txn[s]), e, start[e], txn[s].at) :
                k \in EventKey /\ k[1] = e
    <3> SUFFICES ASSUME NEW e \in Staff
                 PROVE  \A k \in Desired(ActiveFor(txn[s]), VersionsFor(txn[s]), e, start[e], txn[s].at) :
                            k \in EventKey /\ k[1] = e
      OBVIOUS
    <3>1. e \in Employees /\ txn[s].at \in Int /\ start[e] \in StartDays
      BY <1>0, <2>0, Calendar DEF PolicyWork, Staff
    <3> QED
      BY <3>1, DesiredAre
  <2>4. D \in SUBSET EventKey /\ \A k \in D : k[1] \in Staff
    BY <2>3 DEF PolicyEvents
  <2>5. Wrote(w.writes, Staff, D)
    <3>1. Staff \in SUBSET Employees
      BY DEF Staff
    <3> QED
      BY <3>1, <2>2, <2>4, <1>0, WritesAre
  <2>6. PolicyEvents(w) = D
    BY <2>2 DEF PolicyEvents, ActiveFor, VersionsFor
  <2>7. PolicyWork(w)
    BY <2>0, <2>2 DEF PolicyWork
  <2>8. Sensible(w, "written")
    BY <2>5, <2>6, <2>7 DEF Sensible
  <2> QED
    BY <2>1, <2>2, <2>8, RequestAlone
<1> QED
  BY <1>1, <1>2, <1>3, <1>5, <1>6, <1>7, <1>8

\* What a request commits at its end, and what is left of it: nothing.
LEMMA Ended ==
    ASSUME TInv, \A r, t \in Sessions : r = t, NEW s \in Sessions, EndTxn(s)
    PROVE  /\ pc' \in [Sessions -> {"idle", "listed", "decided", "written"}]
           /\ txn' = [r \in Sessions |-> txn'[r]]
           /\ \A r \in Sessions : Shaped(txn'[r]) /\ pc'[r] = "idle"
<1>1. pc \in [Sessions -> {"idle", "listed", "decided", "written"}] /\ txn = [r \in Sessions |-> txn[r]]
  BY DEF TInv, TEInv, TETypeOK
<1>2. Shaped(Idle)
  BY DEF Shaped, Fields, Idle
<1> QED
  BY <1>1, <1>2 DEF EndTxn

\* The step that commits an employee: its events are those of the new start date, nobody
\* else's change, and what it shows is right unless work is due or the worker was faster.
LEMMA EmployeeCommits ==
    ASSUME TInv, \A r, t \in Sessions : r = t, NEW s \in Sessions, CommitEmployee(s)
    PROVE  TInv'
<1> DEFINE w == txn[s]
<1>0. /\ TETypeOK /\ TenureEventsMatch /\ StaleOnlyWhileTenureDue
      /\ pc[s] = "written" /\ w.pol = {} /\ Sensible(w, pc[s])
      /\ versions \in [Policies -> SUBSET Version]
  BY DEF TInv, TEInv, CommitEmployee
<1>1. /\ start' = [e \in Employees |-> IF e \in w.emp THEN w.to ELSE start[e]]
      /\ events' = EventsAfter(w.writes)
      /\ shown' = [e \in Employees |-> IF e \in w.emp THEN w.shows ELSE shown[e]]
      /\ late' = IF w.overtaken THEN late \cup w.emp ELSE late \ w.emp
      /\ EndTxn(s) /\ UNCHANGED <<today, active, versions, missed>>
  BY DEF CommitEmployee
<1>2. EmployeeWork(w)
  BY <1>0 DEF Sensible, PolicyWork
<1>3. \/ w.to \in StartDays /\ CaughtUp(w) /\ Wrote(w.writes, w.emp, EmployeeEvents(w))
      \/ w.to = Absent /\ Wrote(w.writes, w.emp, {})
  BY <1>0 DEF Sensible, PolicyWork
<1> HIDE DEF w
<1>4. /\ DOMAIN events' \subseteq EventKey
      /\ \A k \in DOMAIN events' : events'[k] \in {"pending", "processed", "cancelled"}
      /\ \A k \in DOMAIN events' : events'[k] = "processed" => Processed(k)
      /\ \A k : k[1] \notin w.emp => (k \in Pending' <=> k \in Pending)
  <2>1. PICK D : Wrote(w.writes, w.emp, D)
    BY <1>3
  <2> QED
    BY <1>0, <1>1, <2>1, CommittedEvents
<1>5. TETypeOK'
  <2>1. start' \in [Employees -> StartDays \cup {Absent}]
    BY <1>0, <1>1, <1>3 DEF TETypeOK
  <2>2. shown' \in [Employees -> SUBSET Policies]
    BY <1>0, <1>1, <1>2 DEF TETypeOK, EmployeeWork
  <2>3. late' \subseteq Employees
    BY <1>0, <1>1, <1>2 DEF TETypeOK, EmployeeWork
  <2>4. pc' \in [Sessions -> {"idle", "listed", "decided", "written"}]
    BY <1>1, Ended
  <2> QED
    BY <1>0, <1>1, <1>4, <2>1, <2>2, <2>3, <2>4 DEF TETypeOK, Effective
<1>6. ASSUME NEW e \in Employees, e \in w.emp, w.to \in StartDays, CaughtUp(w),
             Wrote(w.writes, w.emp, EmployeeEvents(w))
      PROVE  /\ {k \in Pending' : k[1] = e /\ k[2] > today} = Desired(active, versions, e, w.to, today)
             /\ \/ w.shows = Matching(active, versions, w.to, today)
                \/ \E k \in Pending' : k[1] = e /\ k[2] <= today
                \/ missed # {} \/ w.overtaken
  <2>1. {k \in Pending' : k[1] = e /\ k[2] > today} = Desired(active, versions, e, w.to, today)
    <3>1. w.emp \in SUBSET Employees /\ w.at \in Days /\ w.at <= today
      BY <1>2 DEF EmployeeWork
    <3>2. \A k : k \in EmployeeEvents(w) /\ k[1] = e <=>
                     k \in Desired(active, versions, e, w.to, w.at)
      BY <1>6 DEF EmployeeEvents, Desired
    <3> QED
      BY <3>1, <3>2, <1>1, <1>6, CommittedMatch
  <2>2. ASSUME NEW day \in Transitions(active, versions, w.to), w.at < day, day <= today,
               ~ Processed(<<e, day>>)
        PROVE  \E k \in Pending' : k[1] = e /\ k[2] <= today
    <3>1. w.at \in Int
      BY <1>2, Calendar DEF EmployeeWork
    <3>2. <<e, day>> \in Desired(active, versions, e, w.to, w.at)
      BY <2>2 DEF Desired
    <3>3. <<e, day>> \in EmployeeEvents(w)
      BY <3>2, <1>6 DEF EmployeeEvents
    <3>4. \A k \in EmployeeEvents(w) : k[1] \in w.emp => k \in Pending' \/ Processed(k)
      BY <1>0, <1>1, <1>6, CommittedEvents
    <3>5. <<e, day>> \in Pending'
      BY <2>2, <3>3, <3>4, <1>6
    <3> QED
      BY <2>2, <3>5
  <2> QED
    BY <1>6, <2>1, <2>2 DEF CaughtUp
<1>7. ASSUME w.to = Absent, Wrote(w.writes, w.emp, {})
      PROVE  \A k \in Pending' : k[1] \notin w.emp
  BY <1>0, <1>1, <1>7, CommittedEvents
<1>8. \A e \in Employees : e \notin w.emp =>
          /\ start'[e] = start[e] /\ shown'[e] = shown[e] /\ (e \in late' <=> e \in late)
          /\ (e \in Staff' <=> e \in Staff)
          /\ \A k : k[1] = e => (k \in Pending' <=> k \in Pending)
  BY <1>1, <1>4 DEF Staff
<1>9. \A e \in w.emp : e \in Employees /\ start'[e] = w.to /\ shown'[e] = w.shows
  BY <1>1, <1>2 DEF EmployeeWork
<1>10. TenureEventsMatch'
  <2> SUFFICES ASSUME NEW e \in Employees
               PROVE  IF e \in Staff'
                        THEN {k \in Pending' : k[1] = e /\ k[2] > today}
                               = Desired(active, versions, e, start'[e], today)
                        ELSE \A k \in Pending' : k[1] # e
    BY <1>1 DEF TenureEventsMatch, Desired, Transitions, Effective
  <2>1. CASE e \notin w.emp
    <3>1. IF e \in Staff
            THEN {k \in Pending : k[1] = e /\ k[2] > today}
                   = Desired(active, versions, e, start[e], today)
            ELSE \A k \in Pending : k[1] # e
      BY <1>0 DEF TenureEventsMatch
    <3> QED
      BY <2>1, <3>1, <1>8
  <2>2. CASE e \in w.emp
    <3>1. CASE w.to \in StartDays /\ CaughtUp(w) /\ Wrote(w.writes, w.emp, EmployeeEvents(w))
      <4>1. e \in Staff'
        BY <2>2, <3>1, <1>9, Calendar DEF Staff
      <4> QED
        BY <2>2, <3>1, <4>1, <1>6, <1>9
    <3>2. CASE w.to = Absent /\ Wrote(w.writes, w.emp, {})
      <4>1. e \notin Staff'
        BY <2>2, <3>2, <1>9 DEF Staff
      <4> QED
        BY <2>2, <3>2, <4>1, <1>7
    <3> QED
      BY <3>1, <3>2, <1>3
  <2> QED
    BY <2>1, <2>2
<1>11. StaleOnlyWhileTenureDue'
  <2> SUFFICES ASSUME NEW e \in Staff', shown'[e] # Matching(active, versions, start'[e], today)
               PROVE  \/ \E k \in Pending' : k[1] = e /\ k[2] <= today
                      \/ missed # {}
                      \/ e \in late'
    BY <1>1 DEF StaleOnlyWhileTenureDue, Matching, Effective
  <2>0. e \in Employees /\ start'[e] # Absent
    BY DEF Staff
  <2>1. CASE e \notin w.emp
    <3>1. \/ \E k \in Pending : k[1] = e /\ k[2] <= today
          \/ missed # {}
          \/ e \in late
      BY <2>0, <2>1, <1>0, <1>8 DEF StaleOnlyWhileTenureDue
    <3> QED
      BY <2>0, <2>1, <3>1, <1>8
  <2>2. CASE e \in w.emp
    <3>1. w.to \in StartDays /\ CaughtUp(w) /\ Wrote(w.writes, w.emp, EmployeeEvents(w))
      BY <2>0, <2>2, <1>3, <1>9
    <3>2. w.overtaken => e \in late'
      BY <2>2, <1>1
    <3> QED
      BY <2>0, <2>2, <3>1, <3>2, <1>6, <1>9
  <2> QED
    BY <2>1, <2>2
<1>12. \A k \in DOMAIN events' : events'[k] = "processed" => k[2] <= today'
  BY <1>1, <1>4 DEF TInv, Processed
<1>13. /\ txn' = [r \in Sessions |-> txn'[r]]
       /\ \A r \in Sessions : Shaped(txn'[r]) /\ pc'[r] = "idle"
  BY <1>1, Ended
<1>14. \A r \in Sessions : Shaped(txn[r])' /\ Sensible(txn[r], pc[r])'
  BY <1>13 DEF Shaped, Sensible
<1> QED
  BY <1>0, <1>1, <1>5, <1>10, <1>11, <1>12, <1>13, <1>14 DEF TInv, TEInv

\* The step that commits a policy: everyone is refreshed, and has the events of the new
\* versions.
LEMMA PolicyCommits ==
    ASSUME TInv, \A r, t \in Sessions : r = t, NEW s \in Sessions, RefreshAndCommit(s)
    PROVE  TInv'
<1> DEFINE w == txn[s]
           act == ActiveFor(w)
           vs == VersionsFor(w)
<1>0. /\ TETypeOK /\ TenureEventsMatch
      /\ pc[s] = "written" /\ w.pol # {} /\ Sensible(w, pc[s])
      /\ versions \in [Policies -> SUBSET Version]
  BY DEF TInv, TEInv, RefreshAndCommit
<1>1. /\ active' = act /\ versions' = vs /\ events' = EventsAfter(w.writes)
      /\ shown' = [e \in Employees |->
                      IF e \in Staff THEN Matching(active', versions', start[e], today) ELSE {}]
      /\ missed' = missed \ w.pol /\ late' = {}
      /\ EndTxn(s) /\ UNCHANGED <<today, start>>
  BY DEF RefreshAndCommit
<1>2. PolicyWork(w) /\ Wrote(w.writes, Staff, PolicyEvents(w))
  BY <1>0 DEF Sensible, EmployeeWork
<1>3. act \subseteq Policies /\ vs \in [Policies -> SUBSET Version] /\ \A p \in Policies : Apart(vs[p])
  BY <1>0, <1>2 DEF PolicyWork, ActiveFor, VersionsFor, TETypeOK, Apart
<1>4. PolicyEvents(w) = UNION {Desired(act, vs, e, start[e], w.at) : e \in Staff}
  BY DEF PolicyEvents
<1> HIDE DEF w, act, vs
<1>5. /\ DOMAIN events' \subseteq EventKey
      /\ \A k \in DOMAIN events' : events'[k] \in {"pending", "processed", "cancelled"}
      /\ \A k \in DOMAIN events' : events'[k] = "processed" => Processed(k)
      /\ \A k : k[1] \notin Staff => (k \in Pending' <=> k \in Pending)
  BY <1>0, <1>1, <1>2, CommittedEvents
<1>6. TETypeOK'
  <2>1. shown' \in [Employees -> SUBSET Policies]
    BY <1>1, <1>3, MatchingAre
  <2>2. pc' \in [Sessions -> {"idle", "listed", "decided", "written"}]
    BY <1>1, Ended
  <2>3. \A p \in Policies :
           /\ versions'[p] \subseteq Version
           /\ \A u, v \in versions'[p] : \A day \in Days : Effective(u, day) /\ Effective(v, day) => u = v
    BY <1>1, <1>3 DEF Apart
  <2> QED
    BY <1>0, <1>1, <1>3, <1>5, <2>1, <2>2, <2>3 DEF TETypeOK, Effective
<1>7. ASSUME NEW e \in Staff
      PROVE  {k \in Pending' : k[1] = e /\ k[2] > today} = Desired(act, vs, e, start[e], today)
  <2>1. Staff \in SUBSET Employees /\ start[e] \in StartDays
    BY <1>0 DEF Staff, TETypeOK
  <2>2. w.at \in Days /\ w.at <= today
    BY <1>2 DEF PolicyWork
  <2>3. \A k : k \in PolicyEvents(w) /\ k[1] = e <=> k \in Desired(act, vs, e, start[e], w.at)
    BY <1>4 DEF Desired
  <2> QED
    BY <1>1, <1>2, <2>1, <2>2, <2>3, CommittedMatch
<1>8. TenureEventsMatch'
  <2>1. Staff' = Staff
    BY <1>1 DEF Staff
  <2>2. \A e \in Staff : Desired(act, vs, e, start[e], today)
                            = (Desired(active, versions, e, start[e], today))'
    BY <1>1 DEF Desired, Transitions, Effective
  <2>3. \A e \in Employees : e \notin Staff => \A k \in Pending' : k[1] # e
    BY <1>0, <1>5 DEF TenureEventsMatch
  <2> QED
    BY <1>1, <1>7, <2>1, <2>2, <2>3 DEF TenureEventsMatch
<1>9. StaleOnlyWhileTenureDue'
  BY <1>1 DEF StaleOnlyWhileTenureDue, Staff, Matching, Effective
<1>10. \A k \in DOMAIN events' : events'[k] = "processed" => k[2] <= today'
  BY <1>1, <1>5 DEF TInv, Processed
<1>11. /\ txn' = [r \in Sessions |-> txn'[r]]
       /\ \A r \in Sessions : Shaped(txn'[r]) /\ pc'[r] = "idle"
  BY <1>1, Ended
<1>12. \A r \in Sessions : Shaped(txn[r])' /\ Sensible(txn[r], pc[r])'
  BY <1>11 DEF Shaped, Sensible
<1> QED
  BY <1>1, <1>3, <1>6, <1>8, <1>9, <1>10, <1>11, <1>12 DEF TInv, TEInv

\* The worker marks nothing that lies ahead and takes nothing that the request holds; what
\* the request has decided it may overtake, and then says so.
LEMMA DueProcessed ==
    ASSUME TInv, ProcessDue
    PROVE  TInv'
<1>0. /\ TETypeOK /\ TenureEventsMatch /\ StaleOnlyWhileTenureDue
      /\ versions \in [Policies -> SUBSET Version] /\ txn = [s \in Sessions |-> txn[s]]
      /\ \A s \in Sessions : Shaped(txn[s]) /\ Sensible(txn[s], pc[s])
  BY DEF TInv, TEInv
<1>1. /\ events' = [k \in DOMAIN events |-> IF k \in Claimed THEN "processed" ELSE events[k]]
      /\ shown' = [e \in Employees |->
                      IF e \in Refreshed THEN Matching(active, versions, start[e], today)
                      ELSE shown[e]]
      /\ late' = late \ Refreshed
      /\ txn' = [s \in Sessions |->
                      [txn[s] EXCEPT !.overtaken = @ \/ missed # {} \/ txn[s].emp \cap Refreshed # {}]]
      /\ missed' = {}
      /\ UNCHANGED <<today, start, active, versions, pc>>
  BY DEF ProcessDue
<1>2. /\ DOMAIN events' = DOMAIN events
      /\ Pending' = Pending \ Claimed
      /\ \A k : Processed(k)' <=> Processed(k) \/ k \in Claimed
      /\ \A k \in Claimed : k \in Pending /\ k[2] <= today
      /\ \A k \in Claimed : \A s \in Sessions : k \notin DOMAIN txn[s].writes
  BY <1>1 DEF Pending, Claimed, Processed
<1>3. missed # {} => Refreshed = Staff
  BY DEF Refreshed
<1>4. missed = {} => Refreshed = {k[1] : k \in Claimed}
  BY DEF Refreshed
<1>5. TETypeOK'
  <2>1. \A k \in DOMAIN events' : events'[k] \in {"pending", "processed", "cancelled"}
    BY <1>0, <1>1 DEF TETypeOK
  <2>2. shown' \in [Employees -> SUBSET Policies]
    BY <1>0, <1>1, MatchingAre DEF TETypeOK
  <2> QED
    BY <1>0, <1>1, <1>2, <2>1, <2>2 DEF TETypeOK, Effective
<1>6. TenureEventsMatch'
  <2>1. \A e : {k \in Pending' : k[1] = e /\ k[2] > today} = {k \in Pending : k[1] = e /\ k[2] > today}
    <3>1. today \in Int /\ \A k \in Pending : k[2] \in Int
      BY <1>0, Calendar DEF TETypeOK, Pending
    <3> QED
      BY <1>2, <3>1
  <2>2. Staff' = Staff /\ Pending' \subseteq Pending
    BY <1>1, <1>2 DEF Staff
  <2>3. \A e \in Employees : Desired(active, versions, e, start[e], today)
                                = (Desired(active, versions, e, start[e], today))'
    BY <1>1 DEF Desired, Transitions, Effective
  <2> QED
    BY <1>0, <1>1, <2>1, <2>2, <2>3 DEF TenureEventsMatch
<1>7. StaleOnlyWhileTenureDue'
  <2> SUFFICES ASSUME NEW e \in Staff, shown'[e] # Matching(active, versions, start[e], today)
               PROVE  (\E k \in Pending' : k[1] = e /\ k[2] <= today) \/ e \in late'
    BY <1>1 DEF StaleOnlyWhileTenureDue, Staff, Matching, Effective
  <2>1. e \notin Refreshed /\ shown'[e] = shown[e]
    BY <1>1 DEF Staff
  <2>2. missed = {} /\ \A k \in Claimed : k[1] # e
    BY <2>1, <1>3, <1>4
  <2> QED
    BY <1>0, <1>1, <1>2, <2>1, <2>2 DEF StaleOnlyWhileTenureDue
<1>8. ASSUME NEW s \in Sessions
      PROVE  Shaped(txn[s])' /\ Sensible(txn[s], pc[s])'
  <2> DEFINE w == txn[s]
             x == txn'[s]
  <2>1. x = [w EXCEPT !.overtaken = @ \/ missed # {} \/ w.emp \cap Refreshed # {}]
    BY <1>1
  <2>2. Shaped(w) /\ Sensible(w, pc[s]) /\ DOMAIN w.writes \cap Claimed = {}
    BY <1>0, <1>2
  <2> HIDE DEF w, x
  <2>3. /\ Shaped(x)
        /\ x.emp = w.emp /\ x.to = w.to /\ x.pol = w.pol /\ x.on = w.on /\ x.vs = w.vs
        /\ x.at = w.at /\ x.staff = w.staff /\ x.writes = w.writes /\ x.shows = w.shows
    BY <2>1, <2>2 DEF Shaped, Fields
  <2>4. x.overtaken = (w.overtaken \/ missed # {} \/ w.emp \cap Refreshed # {})
    BY <2>1, <2>2 DEF Shaped, Fields
  <2>5. Shaped(txn[s])'
    BY <2>3 DEF Shaped, x
  <2>6. EmployeeWork(w) => EmployeeWork(txn[s])'
    BY <2>3, <1>1 DEF EmployeeWork, x
  <2>7. PolicyWork(w) => PolicyWork(txn[s])'
    BY <2>3, <1>1 DEF PolicyWork, Apart, Staff, Effective, x
  <2>8. EmployeeEvents(w) = EmployeeEvents(txn[s])'
    BY <2>3, <1>1 DEF EmployeeEvents, Desired, Transitions, Effective, x
  <2>9. PolicyEvents(w) = PolicyEvents(txn[s])'
    BY <2>3, <1>1 DEF PolicyEvents, Desired, Transitions, Effective, ActiveFor, VersionsFor, Staff, x
  <2>10. \A E, D : Wrote(w.writes, E, D) => Wrote(txn[s].writes, E, D)'
    <3> SUFFICES ASSUME NEW E, NEW D, Wrote(w.writes, E, D)
                 PROVE  Wrote(txn[s].writes, E, D)'
      OBVIOUS
    <3>1. \A k \in D : k \in DOMAIN events /\ events[k] \in {"pending", "processed"} =>
              k \in DOMAIN events' /\ events'[k] \in {"pending", "processed"}
      BY <1>1
    <3> QED
      BY <1>2, <2>3, <3>1 DEF Wrote, x
  <2>11. CaughtUp(w) => CaughtUp(txn[s])'
    <3> DEFINE trans == Transitions(active, versions, w.to)
    <3>a. Matching(active, versions, w.to, today) = Matching(active, versions, txn[s].to, today)'
      BY <2>3, <1>1 DEF Matching, Effective, x
    <3>b. trans = Transitions(active, versions, txn[s].to)'
      BY <2>3, <1>1 DEF Transitions, Effective, x
    <3>c. /\ txn'[s].emp = w.emp /\ txn'[s].shows = w.shows /\ txn'[s].at = w.at
          /\ txn'[s].overtaken = x.overtaken /\ today' = today
      BY <2>3, <1>1 DEF x
    <3> SUFFICES ASSUME CaughtUp(w), NEW e \in w.emp, ~ x.overtaken,
                        w.shows # Matching(active, versions, w.to, today)
                 PROVE  \E day \in trans : w.at < day /\ day <= today /\ ~ Processed(<<e, day>>)'
      <4> HIDE DEF trans
      <4> QED
        BY <3>a, <3>b, <3>c DEF CaughtUp, Processed
    <3>1. ~ w.overtaken /\ missed = {} /\ w.emp \cap Refreshed = {}
      BY <2>4
    <3>2. PICK day \in Transitions(active, versions, w.to) :
             w.at < day /\ day <= today /\ ~ Processed(<<e, day>>)
      BY <3>1 DEF CaughtUp
    <3>3. <<e, day>> \notin Claimed
      BY <3>1, <1>4
    <3> QED
      BY <3>2, <3>3, <1>2
  <2>12. Staff' = Staff /\ pc' = pc
    BY <1>1 DEF Staff
  <2>13. txn'[s].to = w.to /\ txn'[s].emp = w.emp
    BY <2>3 DEF x
  <2> QED
    BY <2>2, <2>5, <2>6, <2>7, <2>8, <2>9, <2>10, <2>11, <2>12, <2>13 DEF Sensible, x
<1>9. txn' = [s \in Sessions |-> txn'[s]]
  BY <1>1
<1>10. \A k \in DOMAIN events' : events'[k] = "processed" => k[2] <= today'
  BY <1>1, <1>2 DEF TInv
<1> QED
  BY <1>0, <1>1, <1>5, <1>6, <1>7, <1>8, <1>9, <1>10 DEF TInv, TEInv

\* Midnight: what turns has an event, which is then due.
LEMMA DayPasses ==
    ASSUME TInv, PassDay
    PROVE  TInv'
<1>0. /\ TETypeOK /\ TenureEventsMatch /\ StaleOnlyWhileTenureDue
      /\ versions \in [Policies -> SUBSET Version] /\ txn = [s \in Sessions |-> txn[s]]
      /\ \A s \in Sessions : Shaped(txn[s]) /\ Sensible(txn[s], pc[s])
      /\ \A k \in DOMAIN events : events[k] = "processed" => k[2] <= today
      /\ active \in SUBSET Policies /\ today \in Nat
  BY Calendar DEF TInv, TEInv, TETypeOK
<1>1. /\ today' = today + 1 /\ today < LastDay
      /\ missed' = missed \cup {p \in active : \E v \in versions[p] :
                                    v.from = today + 1 \/ (v.until # Open /\ v.until = today)}
      /\ UNCHANGED <<start, active, versions, events, shown, late, pc, txn>>
  BY DEF PassDay
<1>2. Staff' = Staff /\ Pending' = Pending /\ \A k : Processed(k)' <=> Processed(k)
  BY <1>1 DEF Staff, Pending, Processed
<1>3. ASSUME NEW d \in StartDays, missed' = {}
      PROVE  \/ today + 1 \in Transitions(active, versions, d)
             \/ Matching(active, versions, d, today + 1) = Matching(active, versions, d, today)
  <2>1. \A p \in active : \A v \in versions[p] : ~ RangeTurns(v, today + 1)
    <3> SUFFICES ASSUME NEW p \in active, NEW v \in versions[p], RangeTurns(v, today + 1)
                 PROVE  FALSE
      OBVIOUS
    <3>1. v.from = today + 1 \/ (v.until # Open /\ v.until + 1 = today + 1)
      BY DEF RangeTurns
    <3>2. v \in Version
      BY <1>0
    <3>3. v.until # Open => v.until \in Int
      BY <3>2, Calendar DEF Version
    <3>4. v.from = today + 1 \/ (v.until # Open /\ v.until = today)
      BY <3>1, <3>3, <1>0
    <3> QED
      BY <3>4, <1>1, <1>3
  <2>2. today + 1 \in Int /\ (today + 1) - 1 = today
    BY <1>0
  <2> QED
    BY <2>1, <2>2, <1>0, OnlyScheduledDaysMatter
<1>4. TETypeOK'
  <2>1. today' \in Days
    BY <1>0, <1>1, LastDayAssumption DEF Days
  <2>2. missed' \subseteq Policies
    BY <1>0, <1>1 DEF TETypeOK
  <2> QED
    BY <1>0, <1>1, <2>1, <2>2 DEF TETypeOK, Effective
<1>5. TenureEventsMatch'
  <2> SUFFICES ASSUME NEW e \in Staff
               PROVE  {k \in Pending : k[1] = e /\ k[2] > today + 1}
                         = Desired(active, versions, e, start[e], today + 1)
    <3>1. \A e \in Employees : Desired(active, versions, e, start[e], today + 1)
                                  = (Desired(active, versions, e, start[e], today))'
      BY <1>1 DEF Desired, Transitions, Effective
    <3>2. \A e \in Employees : e \notin Staff => \A k \in Pending : k[1] # e
      BY <1>0 DEF TenureEventsMatch
    <3> QED
      BY <1>1, <1>2, <3>1, <3>2 DEF TenureEventsMatch
  <2>1. e \in Employees /\ start[e] \in StartDays
    BY <1>0 DEF Staff, TETypeOK
  <2>2. /\ Transitions(active, versions, start[e]) \subseteq Nat
        /\ \A k : k \in Desired(active, versions, e, start[e], today) <=>
               k = <<e, k[2]>> /\ k[2] \in Transitions(active, versions, start[e]) /\ k[2] > today
        /\ \A k : k \in Desired(active, versions, e, start[e], today + 1) <=>
               k = <<e, k[2]>> /\ k[2] \in Transitions(active, versions, start[e]) /\ k[2] > today + 1
    <3>1. today \in Int /\ today + 1 \in Int
      BY <1>0
    <3> QED
      BY <2>1, <3>1, DesiredAre
  <2>3. {k \in Pending : k[1] = e /\ k[2] > today} = Desired(active, versions, e, start[e], today)
    BY <2>1, <1>0 DEF TenureEventsMatch
  <2>4. \A k \in Pending : k[2] \in Nat
    BY <1>0, Calendar DEF TETypeOK, Pending
  <2> QED
    BY <2>2, <2>3, <2>4, <1>0
<1>6. StaleOnlyWhileTenureDue'
  <2> SUFFICES ASSUME NEW e \in Staff, shown[e] # Matching(active, versions, start[e], today + 1),
                      missed' = {}, e \notin late
               PROVE  \E k \in Pending : k[1] = e /\ k[2] <= today + 1
    <3>1. \A e \in Staff : Matching(active, versions, start[e], today + 1)
                              = (Matching(active, versions, start[e], today))'
      BY <1>1 DEF Matching, Effective
    <3> QED
      BY <1>1, <1>2, <3>1 DEF StaleOnlyWhileTenureDue
  <2>1. e \in Employees /\ start[e] \in StartDays
    BY <1>0 DEF Staff, TETypeOK
  <2>2. CASE today + 1 \in Transitions(active, versions, start[e])
    <3>1. <<e, today + 1>> \in Desired(active, versions, e, start[e], today)
      BY <2>2, <1>0 DEF Desired
    <3>2. <<e, today + 1>> \in Pending
      BY <2>1, <3>1, <1>0 DEF TenureEventsMatch
    <3> QED
      BY <3>2, <1>0
  <2>3. CASE Matching(active, versions, start[e], today + 1) = Matching(active, versions, start[e], today)
    <3>1. \E k \in Pending : k[1] = e /\ k[2] <= today
      BY <2>3, <1>0, <1>1 DEF StaleOnlyWhileTenureDue
    <3>2. \A k \in Pending : k[2] \in Nat
      BY <1>0, Calendar DEF TETypeOK, Pending
    <3> QED
      BY <3>1, <3>2, <1>0
  <2> QED
    BY <2>1, <2>2, <2>3, <1>3
<1>7. ASSUME NEW s \in Sessions
      PROVE  Shaped(txn[s])' /\ Sensible(txn[s], pc[s])'
  <2> DEFINE w == txn[s]
  <2>1. /\ txn'[s] = w /\ pc'[s] = pc[s] /\ Shaped(w) /\ Sensible(w, pc[s])
    BY <1>0, <1>1
  <2>2. EmployeeWork(w) => EmployeeWork(w)'
    BY <1>0, <1>1, Calendar DEF EmployeeWork
  <2>3. PolicyWork(w) => PolicyWork(w)'
    BY <1>0, <1>1, Calendar DEF PolicyWork, Apart, Staff, Effective
  <2>4. EmployeeEvents(w) = EmployeeEvents(w)'
    BY <1>1 DEF EmployeeEvents, Desired, Transitions, Effective
  <2>5. PolicyEvents(w) = PolicyEvents(w)'
    BY <1>1 DEF PolicyEvents, Desired, Transitions, Effective, ActiveFor, VersionsFor, Staff
  <2>6. \A E, D : Wrote(w.writes, E, D) => Wrote(w.writes, E, D)'
    BY <1>1 DEF Wrote, Pending
  <2>7. ASSUME EmployeeWork(w), w.to \in StartDays, CaughtUp(w)
        PROVE  CaughtUp(w)'
    <3> DEFINE trans == Transitions(active, versions, w.to)
    <3>1. /\ Matching(active, versions, w.to, today + 1) = (Matching(active, versions, w.to, today))'
          /\ trans = Transitions(active, versions, w.to)'
      BY <1>1 DEF Matching, Transitions, Effective
    <3>2. w' = w
      BY <1>1
    <3> SUFFICES ASSUME NEW e \in w.emp, ~ w.overtaken, missed' = {},
                        w.shows # Matching(active, versions, w.to, today + 1)
                 PROVE  \E day \in trans : w.at < day /\ day <= today + 1 /\ ~ Processed(<<e, day>>)
      <4> HIDE DEF trans, w
      <4> QED
        BY <1>1, <1>2, <3>1, <3>2 DEF CaughtUp
    <3>3. w.at \in Int /\ w.at <= today
      BY <2>7, Calendar DEF EmployeeWork
    <3>4. CASE today + 1 \in trans
      <4>1. ~ Processed(<<e, today + 1>>)
        BY <1>0 DEF Processed
      <4> QED
        BY <3>3, <3>4, <4>1, <1>0
    <3>5. CASE Matching(active, versions, w.to, today + 1) = Matching(active, versions, w.to, today)
      <4>1. PICK day \in trans : w.at < day /\ day <= today /\ ~ Processed(<<e, day>>)
        BY <2>7, <3>5, <1>1 DEF CaughtUp
      <4>2. day \in Nat
        <5>1. trans \subseteq {Anniversary[w.to][n] : n \in Years}
          BY DEF Transitions
        <5> QED
          BY <4>1, <5>1, <2>7, CalendarAssumption
      <4> QED
        BY <4>1, <4>2, <1>0
    <3> QED
      BY <3>4, <3>5, <2>7, <1>3
  <2>8. Staff' = Staff /\ w' = w
    BY <1>1, <1>2
  <2> HIDE DEF w
  <2>9. Sensible(w, pc[s])'
    BY <2>1, <2>2, <2>3, <2>4, <2>5, <2>6, <2>7, <2>8 DEF Sensible
  <2> QED
    BY <2>1, <2>8, <2>9 DEF Shaped, w
<1>8. txn' = [s \in Sessions |-> txn'[s]]
  BY <1>0, <1>1
<1>9. \A k \in DOMAIN events' : events'[k] = "processed" => k[2] <= today'
  <2>1. \A k \in DOMAIN events : k[2] \in Nat
    BY <1>0, Calendar DEF TETypeOK
  <2> QED
    BY <2>1, <1>0, <1>1
<1>10. versions' \in [Policies -> SUBSET Version]
  BY <1>0, <1>1
<1> QED
  BY <1>4, <1>5, <1>6, <1>7, <1>8, <1>9, <1>10 DEF TInv, TEInv

\* The invariant of one request at a time, under the assumption that makes it so.
LEMMA OneRequestInv ==
    ASSUME \A r, t \in Sessions : r = t
    PROVE  TESpec => []TInv
<1>1. TEInit => TInv
  <2> SUFFICES ASSUME TEInit PROVE TInv
    OBVIOUS
  <2>1. /\ today = 0 /\ start = [e \in Employees |-> Absent] /\ active = {} /\ events = <<>>
        /\ versions = [p \in Policies |-> {}] /\ shown = [e \in Employees |-> {}]
        /\ missed = {} /\ late = {} /\ pc = [s \in Sessions |-> "idle"]
        /\ txn = [s \in Sessions |-> Idle]
    BY DEF TEInit
  <2>2. DOMAIN events = {} /\ Pending = {} /\ Staff = {}
    BY <2>1 DEF Pending, Staff
  <2>3. TETypeOK
    BY <2>1, <2>2, LastDayAssumption DEF TETypeOK, Days
  <2>4. TenureEventsMatch /\ StaleOnlyWhileTenureDue
    BY <2>2 DEF TenureEventsMatch, StaleOnlyWhileTenureDue
  <2>5. Shaped(Idle)
    BY DEF Shaped, Fields, Idle
  <2>6. \A s \in Sessions : Shaped(txn[s]) /\ Sensible(txn[s], pc[s])
    BY <2>1, <2>5 DEF Sensible
  <2> QED
    BY <2>1, <2>2, <2>3, <2>4, <2>6 DEF TInv, TEInv
<1>2. TInv /\ [TENext]_teVars => TInv'
  <2> SUFFICES ASSUME TInv, [TENext]_teVars PROVE TInv'
    OBVIOUS
  <2>1. CASE UNCHANGED teVars
    <3>1. /\ pc' \in [Sessions -> {"idle", "listed", "decided", "written"}]
          /\ txn' = [s \in Sessions |-> txn'[s]]
          /\ \A s \in Sessions : Shaped(txn'[s]) /\ Sensible(txn'[s], pc'[s])
      BY <2>1 DEF teVars, TInv, TEInv, TETypeOK
    <3> QED
      BY <2>1, <3>1, NothingCommitted DEF teVars
  <2>2. ASSUME NEW s \in Sessions, Request(s) PROVE TInv'
    <3>1. CASE CommitEmployee(s)
      BY <3>1, EmployeeCommits
    <3>2. CASE RefreshAndCommit(s)
      BY <3>2, PolicyCommits
    <3>3. CASE \/ \E e \in Employees : BeginDelete(s, e) \/ \E d \in StartDays : BeginEmployee(s, e, d)
               \/ \E p \in Policies : AddVersion(s, p) \/ ChangeStatus(s, p)
               \/ SyncEmployee(s) \/ SyncAll(s) \/ Rollback(s)
      BY <3>3, OpenRequest
    <3> QED
      BY <2>2, <3>1, <3>2, <3>3 DEF Request
  <2>3. CASE ProcessDue
    BY <2>3, DueProcessed
  <2>4. CASE PassDay
    BY <2>4, DayPasses
  <2> QED
    BY <2>1, <2>2, <2>3, <2>4 DEF TENext
<1> QED
  BY <1>1, <1>2, PTL DEF TESpec

\* As long as requests do not overlap with each other (the worker and midnight may come at
\* any point of one), the pending events ahead are, for any calendar and any number of
\* employees and policies, the anniversaries on which something turns, and nobody who has
\* been deleted has any (sync_employee_tenure_schedules, sync_all_employee_tenure_schedules).
THEOREM OneRequestKeepsEvents ==
    ASSUME \A r, t \in Sessions : r = t
    PROVE  TESpec => []TEInv
<1>1. TInv => TEInv
  BY DEF TInv
<1> QED
  BY <1>1, OneRequestInv, PTL

\* And nobody shows policies that the day no longer matches, unless work for them is due or
\* the worker came between a request's decision and its commit.
THEOREM OneRequestStaleOnlyWhileDue ==
    ASSUME \A r, t \in Sessions : r = t
    PROVE  TESpec => []StaleOnlyWhileTenureDue
<1>1. TInv => StaleOnlyWhileTenureDue
  BY DEF TInv
<1> QED
  BY <1>1, OneRequestInv, PTL
=============================================================================
