------------------------- MODULE AssignmentTimeline -------------------------
(***************************************************************************)
(* The temporal rows of one employee in employee_assignments and what      *)
(* refresh_employee_assignments (services/reconciliation.py) does to them: *)
(* it keeps the open rows that are still wanted, ends or deletes the       *)
(* others and inserts what is missing.  Here reconciliations are single    *)
(* steps, at instants that never go back; ConcurrentReconciliation takes   *)
(* them apart and interleaves them.  AssignmentRecord is the promise these *)
(* rows implement.                                                         *)
(***************************************************************************)
EXTENDS Integers

CONSTANTS
    Keys,          \* assignments, identified as _assignment_key does
    FieldOf,       \* the assignment field of a key
    OneValued,     \* the fields that hold one value at a time
    Writers,       \* transactions that reconcile the employee
    MaxClock,      \* bound: instants are 0..MaxClock
    Null           \* effective_until IS NULL

ASSUME TimelineFieldOf == DOMAIN FieldOf = Keys
ASSUME TimelineMaxClock == MaxClock \in Nat
ASSUME TimelineNull == Null \notin Int

Instants == 0 .. MaxClock

\* "by" tells apart rows that two transactions insert for the same key.
Row == [key : Keys, from : Instants, until : Instants \cup {Null}, by : Writers]

VARIABLES
    rows,          \* committed employee_assignments rows
    last           \* instant of the last reconciliation that committed

timelineVars == <<rows, last>>

-----------------------------------------------------------------------------
KeysOf(rs) == {r.key : r \in rs}

\* Faulty: the WHERE effective_until IS NULL forgotten.
EveryRow(rs) == rs

OpenRows(rs) == {r \in rs : r.until = Null}

\* The half-open interval [effective_from, effective_until) of the as-of query.
Covers(r, t) == r.from <= t /\ (r.until = Null \/ t < r.until)

AsOf(rs, t) == KeysOf({r \in rs : Covers(r, t)})

\* At most one resolved assignment for a one-valued field.
Consistent(D) ==
    \A k, l \in D : FieldOf[k] = FieldOf[l] /\ FieldOf[k] \in OneValued => k = l

\* _reject_out_of_order_reconciliation: only the latest START is compared.
OutOfOrder(rs, at) == \E r \in rs : at < r.from

\* desired_by_key.pop keeps one open row for every wanted key; which one, when
\* two open rows have the same key, depends on the query's order.
KeptRows(cur, D) ==
    {K \in SUBSET cur : /\ KeysOf(K) = KeysOf(cur) \cap D
                        /\ \A r, q \in K : r.key = q.key => r = q}

\* Faulty: rows end one instant late; rows are deleted and their history with them.
EndedLate(rs, at) == {[r EXCEPT !.until = at + 1] : r \in {q \in rs : q.from # at}}
EndedByDeletion(rs, at) == {}

\* A row that started at this very instant is deleted, any other one is ended.
Ended(rs, at) == {[r EXCEPT !.until = at] : r \in {q \in rs : q.from # at}}

Started(ks, at, w) == {[key |-> k, from |-> at, until |-> Null, by |-> w] : k \in ks}

\* ck_employee_assignment_valid_effective_range on the rows it would end.
RangesValid(rs, at) == \A r \in rs : r.from <= at

\* refresh_employee_assignments, given the open rows it locked.
Refreshed(rs, cur, kept, at, D, w) ==
    (rs \ (cur \ kept)) \cup Ended(cur \ kept, at) \cup Started(D \ KeysOf(cur), at, w)

-----------------------------------------------------------------------------
TimelineInit ==
    /\ rows = {}
    /\ last = 0

\* at: current_datetime() in the request, or the instant the worker was given.
Reconcile(w, at, D) ==
    /\ at >= last
    /\ Consistent(D)
    /\ ~ OutOfOrder(rows, at)
    /\ \E kept \in KeptRows(OpenRows(rows), D) :
          /\ RangesValid(OpenRows(rows) \ kept, at)
          /\ rows' = Refreshed(rows, OpenRows(rows), kept, at, D, w)
    /\ last' = at

TimelineNext ==
    \E w \in Writers, at \in Instants, D \in SUBSET Keys : Reconcile(w, at, D)

TimelineSpec == TimelineInit /\ [][TimelineNext]_timelineVars

-----------------------------------------------------------------------------
\* Types, and the range check of the table.
TimelineTypeOK ==
    /\ rows \subseteq Row
    /\ \A r \in rows : r.until # Null => r.from < r.until
    /\ last \in Instants

\* At no instant do two rows give one assignment twice, or a one-valued field
\* two assignments: ending and starting meet exactly (reconciliation.py:126-205).
OneAssignmentAtATime ==
    \A r, q \in rows : \A t \in Instants :
        /\ Covers(r, t) /\ Covers(q, t)
        /\ r.key = q.key \/ (FieldOf[r.key] = FieldOf[q.key] /\ FieldOf[r.key] \in OneValued)
        => r = q

\* A row that has ended is history: it is never deleted, reopened or re-dated
\* (reconciliation.py:120-148 selects open rows only).
EndedRowsAreFinal ==
    [][\A r \in rows : r.until # Null => r \in rows']_timelineVars

\* The rows implement the record: read as of an instant they give what the last
\* decision not after that instant wanted, and past answers never change.
Record == INSTANCE AssignmentRecord WITH record <- [t \in Instants |-> AsOf(rows, t)]

ImplementsRecord == Record!RecordSpec
=============================================================================
