-------------------- MODULE ConcurrentReconciliationProofs --------------------
(***************************************************************************)
(* First, with one reconciliation at a time, for any assignments, fields,  *)
(* writers and number of instants: the rows keep one assignment of a key,  *)
(* and of a one-valued field, at a time; they implement the record; ended  *)
(* rows are final.  The strengthening: no boundary of a row lies after the *)
(* last reconciliation (NothingAhead).  Without it a reconciliation could  *)
(* end a row inside another row's interval.                                *)
(*                                                                         *)
(* Then, for any number of transactions that reconcile one employee at     *)
(* once: a transaction only ends rows that are still open, and no commit   *)
(* changes an answer about the past.  What the row locks do not carry, one *)
(* assignment at a time, is refuted by the run overlap_race.               *)
(***************************************************************************)
EXTENDS ConcurrentReconciliation, TLAPS

\* No boundary of rs lies after instant t.
BoundariesBy(rs, t) ==
    \A r \in rs : r.from <= t /\ (r.until # Null => r.until <= t)

NothingAhead == BoundariesBy(rows, last)

IInv == TimelineTypeOK /\ NothingAhead /\ OneAssignmentAtATime

\* Two rows that may not be in force together.
Exclusive(r, q) ==
    r.key = q.key \/ (FieldOf[r.key] = FieldOf[q.key] /\ FieldOf[r.key] \in OneValued)

-----------------------------------------------------------------------------
(* What Refreshed does to rows whose boundaries are not after the instant. *)

\* Where a row of the result comes from.
LEMMA ResultRows ==
    ASSUME NEW rs \in SUBSET Row, NEW a \in Instants, NEW w \in Writers,
           NEW D \in SUBSET Keys, NEW kept \in KeptRows(OpenRows(rs), D),
           NEW x \in Refreshed(rs, OpenRows(rs), kept, a, D, w)
    PROVE  \/ x \in rs /\ x.until # Null
           \/ x \in kept
           \/ \E r \in OpenRows(rs) \ kept : r.from # a /\ x = [r EXCEPT !.until = a]
           \/ \E k \in D \ KeysOf(OpenRows(rs)) :
                  x = [key |-> k, from |-> a, until |-> Null, by |-> w]
BY DEF Refreshed, Ended, Started, OpenRows, KeptRows

\* Every row has its type, and the range check holds.
LEMMA ResultTyped ==
    ASSUME NEW rs \in SUBSET Row, NEW a \in Instants, NEW w \in Writers,
           NEW D \in SUBSET Keys, NEW kept \in KeptRows(OpenRows(rs), D),
           BoundariesBy(rs, a), \A r \in rs : r.until # Null => r.from < r.until
    PROVE  LET new == Refreshed(rs, OpenRows(rs), kept, a, D, w)
           IN  /\ new \subseteq Row
               /\ \A r \in new : r.until # Null => r.from < r.until
               /\ BoundariesBy(new, a)
<1> DEFINE new == Refreshed(rs, OpenRows(rs), kept, a, D, w)
<1> SUFFICES ASSUME NEW x \in new
             PROVE  /\ x \in Row
                    /\ x.until # Null => x.from < x.until
                    /\ x.from <= a /\ (x.until # Null => x.until <= a)
  BY DEF BoundariesBy
<1>0. kept \subseteq rs /\ OpenRows(rs) \subseteq rs /\ a \in Int /\ a # Null
  BY TimelineNull, TimelineMaxClock DEF KeptRows, OpenRows, Instants
<1>1. CASE x \in rs
  BY <1>1 DEF BoundariesBy
<1>2. CASE \E r \in OpenRows(rs) \ kept : r.from # a /\ x = [r EXCEPT !.until = a]
  <2>1. PICK r \in OpenRows(rs) \ kept : r.from # a /\ x = [r EXCEPT !.until = a]
    BY <1>2
  <2>2. r \in Row /\ r.from <= a /\ r.from \in Int
    BY <1>0, TimelineMaxClock DEF BoundariesBy, Row, Instants
  <2>3. x \in Row /\ x.from = r.from /\ x.until = a
    BY <2>1, <2>2 DEF Row
  <2> QED
    BY <2>1, <2>2, <2>3, <1>0
<1>3. CASE \E k \in D \ KeysOf(OpenRows(rs)) :
               x = [key |-> k, from |-> a, until |-> Null, by |-> w]
  BY <1>0, <1>3 DEF Row
<1> QED
  BY <1>0, <1>1, <1>2, <1>3, ResultRows

\* Before the instant, the result and the rows before agree row by row.
LEMMA BeforeInstant ==
    ASSUME NEW rs \in SUBSET Row, NEW a \in Instants, NEW w \in Writers,
           NEW D \in SUBSET Keys, NEW kept \in KeptRows(OpenRows(rs), D),
           NEW t \in Instants, t < a,
           NEW x \in Refreshed(rs, OpenRows(rs), kept, a, D, w), Covers(x, t)
    PROVE  \E r \in rs : /\ Covers(r, t) /\ r.key = x.key
                         /\ x = IF r \in OpenRows(rs) \ kept THEN [r EXCEPT !.until = a] ELSE r
<1>0. kept \subseteq OpenRows(rs) /\ OpenRows(rs) \subseteq rs /\ a \in Int /\ t \in Int
  BY TimelineMaxClock DEF KeptRows, OpenRows, Instants
<1>1. CASE x \in rs /\ x.until # Null
  BY <1>1 DEF OpenRows
<1>2. CASE x \in kept
  BY <1>0, <1>2
<1>3. CASE \E r \in OpenRows(rs) \ kept : r.from # a /\ x = [r EXCEPT !.until = a]
  <2>1. PICK r \in OpenRows(rs) \ kept : r.from # a /\ x = [r EXCEPT !.until = a]
    BY <1>3
  <2>2. r \in Row /\ r.until = Null /\ x.from = r.from /\ x.key = r.key
    BY <2>1, <1>0 DEF OpenRows, Row
  <2>3. Covers(r, t)
    BY <2>2 DEF Covers
  <2> QED
    BY <2>1, <2>2, <2>3, <1>0
<1>4. CASE \E k \in D \ KeysOf(OpenRows(rs)) :
               x = [key |-> k, from |-> a, until |-> Null, by |-> w]
  BY <1>0, <1>4 DEF Covers
<1> QED
  BY <1>1, <1>2, <1>3, <1>4, ResultRows

\* From the instant on, exactly the kept and the started rows are in force.
LEMMA FromInstant ==
    ASSUME NEW rs \in SUBSET Row, NEW a \in Instants, NEW w \in Writers,
           NEW D \in SUBSET Keys, NEW kept \in KeptRows(OpenRows(rs), D),
           BoundariesBy(rs, a),
           NEW t \in Instants, a <= t,
           NEW x \in Refreshed(rs, OpenRows(rs), kept, a, D, w), Covers(x, t)
    PROVE  \/ x \in kept /\ x.key \in D
           \/ \E k \in D \ KeysOf(OpenRows(rs)) :
                  x = [key |-> k, from |-> a, until |-> Null, by |-> w]
<1>0. kept \subseteq OpenRows(rs) /\ OpenRows(rs) \subseteq rs /\ a \in Int /\ t \in Int /\ a # Null
  BY TimelineMaxClock, TimelineNull DEF KeptRows, OpenRows, Instants
<1>1. x \in kept => x.key \in D
  <2>1. x \in kept => x.key \in KeysOf(kept)
    BY DEF KeysOf
  <2> QED
    BY <2>1 DEF KeptRows
<1>2. ~ (x \in rs /\ x.until # Null)
  <2> SUFFICES ASSUME x \in rs, x.until # Null PROVE FALSE
    OBVIOUS
  <2>1. x.until <= a /\ x.until \in Int
    BY TimelineMaxClock DEF BoundariesBy, Row, Instants
  <2> QED
    BY <2>1, <1>0 DEF Covers
<1>3. ~ \E r \in OpenRows(rs) \ kept : r.from # a /\ x = [r EXCEPT !.until = a]
  <2> SUFFICES ASSUME NEW r \in OpenRows(rs) \ kept, x = [r EXCEPT !.until = a]
               PROVE  FALSE
    OBVIOUS
  <2>1. x.until = a
    BY <1>0 DEF Row
  <2> QED
    BY <2>1, <1>0 DEF Covers
<1> QED
  BY <1>1, <1>2, <1>3, ResultRows

-----------------------------------------------------------------------------
(* Reading the result as of an instant.                                    *)

LEMMA AnswersBefore ==
    ASSUME NEW rs \in SUBSET Row, NEW a \in Instants, NEW w \in Writers,
           NEW D \in SUBSET Keys, NEW kept \in KeptRows(OpenRows(rs), D),
           NEW t \in Instants, t < a
    PROVE  AsOf(Refreshed(rs, OpenRows(rs), kept, a, D, w), t) = AsOf(rs, t)
<1> DEFINE new == Refreshed(rs, OpenRows(rs), kept, a, D, w)
<1>0. a \in Int /\ t \in Int /\ a # Null /\ OpenRows(rs) \subseteq rs
  BY TimelineMaxClock, TimelineNull DEF Instants, OpenRows
<1>1. AsOf(new, t) \subseteq AsOf(rs, t)
  <2> SUFFICES ASSUME NEW x \in new, Covers(x, t)
               PROVE  \E r \in rs : Covers(r, t) /\ r.key = x.key
    BY DEF AsOf, KeysOf
  <2> QED
    BY BeforeInstant
<1>2. AsOf(rs, t) \subseteq AsOf(new, t)
  <2> SUFFICES ASSUME NEW r \in rs, Covers(r, t)
               PROVE  \E x \in new : Covers(x, t) /\ x.key = r.key
    BY DEF AsOf, KeysOf
  <2>1. CASE r \in OpenRows(rs) \ kept
    <3> DEFINE x == [r EXCEPT !.until = a]
    <3>1. r \in Row /\ r.from <= t /\ r.from \in Int
      BY TimelineMaxClock DEF Covers, Row, Instants
    <3>2. r.from # a
      BY <3>1, <1>0
    <3>3. x \in new
      BY <2>1, <3>2 DEF Refreshed, Ended
    <3>4. x.from = r.from /\ x.until = a /\ x.key = r.key
      BY <3>1 DEF Row
    <3>5. Covers(x, t)
      BY <3>1, <3>4, <1>0 DEF Covers
    <3> QED
      BY <3>3, <3>4, <3>5
  <2>2. CASE r \notin OpenRows(rs) \ kept
    BY <2>2 DEF Refreshed
  <2> QED
    BY <2>1, <2>2
<1> QED
  BY <1>1, <1>2

LEMMA AnswersFrom ==
    ASSUME NEW rs \in SUBSET Row, NEW a \in Instants, NEW w \in Writers,
           NEW D \in SUBSET Keys, NEW kept \in KeptRows(OpenRows(rs), D),
           BoundariesBy(rs, a), NEW t \in Instants, a <= t
    PROVE  AsOf(Refreshed(rs, OpenRows(rs), kept, a, D, w), t) = D
<1> DEFINE new == Refreshed(rs, OpenRows(rs), kept, a, D, w)
<1>0. a \in Int /\ t \in Int /\ kept \subseteq OpenRows(rs) /\ OpenRows(rs) \subseteq rs
  BY TimelineMaxClock DEF Instants, OpenRows, KeptRows
<1>1. AsOf(new, t) \subseteq D
  <2> SUFFICES ASSUME NEW x \in new, Covers(x, t)
               PROVE  x.key \in D
    BY DEF AsOf, KeysOf
  <2> QED
    BY FromInstant
<1>2. ASSUME NEW k \in D
      PROVE  \E x \in new : Covers(x, t) /\ x.key = k
  <2>1. CASE k \in KeysOf(OpenRows(rs))
    <3>1. PICK r \in kept : r.key = k
      BY <2>1 DEF KeptRows, KeysOf
    <3>2. r \in new
      BY <1>0 DEF Refreshed
    <3>3. r \in Row /\ r.from <= a /\ r.until = Null /\ r.from \in Int
      BY <1>0, TimelineMaxClock DEF BoundariesBy, OpenRows, Row, Instants
    <3>4. Covers(r, t)
      BY <3>3, <1>0 DEF Covers
    <3> QED
      BY <3>1, <3>2, <3>4
  <2>2. CASE k \notin KeysOf(OpenRows(rs))
    <3> DEFINE x == [key |-> k, from |-> a, until |-> Null, by |-> w]
    <3>1. x \in new
      BY <2>2 DEF Refreshed, Started
    <3>2. Covers(x, t) /\ x.key = k
      BY <1>0 DEF Covers
    <3> QED
      BY <3>1, <3>2
  <2> QED
    BY <2>1, <2>2
<1>3. D \subseteq AsOf(new, t)
  BY <1>2 DEF AsOf, KeysOf
<1> QED
  BY <1>1, <1>3

\* Exclusive rows of the result are never in force together.
LEMMA ResultExclusive ==
    ASSUME NEW rs \in SUBSET Row, NEW a \in Instants, NEW w \in Writers,
           NEW D \in SUBSET Keys, Consistent(D),
           NEW kept \in KeptRows(OpenRows(rs), D),
           BoundariesBy(rs, a),
           \A r, q \in rs : \A t \in Instants :
               Covers(r, t) /\ Covers(q, t) /\ Exclusive(r, q) => r = q,
           NEW t \in Instants,
           NEW x \in Refreshed(rs, OpenRows(rs), kept, a, D, w),
           NEW y \in Refreshed(rs, OpenRows(rs), kept, a, D, w),
           Covers(x, t), Covers(y, t), Exclusive(x, y)
    PROVE  x = y
<1>0. a \in Int /\ t \in Int /\ kept \subseteq OpenRows(rs)
  BY TimelineMaxClock DEF Instants, KeptRows
<1>1. CASE t < a
  <2>1. PICK r \in rs : /\ Covers(r, t) /\ r.key = x.key
                        /\ x = IF r \in OpenRows(rs) \ kept THEN [r EXCEPT !.until = a] ELSE r
    BY <1>1, BeforeInstant
  <2>2. PICK q \in rs : /\ Covers(q, t) /\ q.key = y.key
                        /\ y = IF q \in OpenRows(rs) \ kept THEN [q EXCEPT !.until = a] ELSE q
    BY <1>1, BeforeInstant
  <2>3. Exclusive(r, q)
    BY <2>1, <2>2 DEF Exclusive
  <2>4. r = q
    BY <2>1, <2>2, <2>3
  <2> QED
    BY <2>1, <2>2, <2>4
<1>2. CASE a <= t
  <2>1. \/ x \in kept /\ x.key \in D
        \/ \E k \in D \ KeysOf(OpenRows(rs)) :
               x = [key |-> k, from |-> a, until |-> Null, by |-> w]
    BY <1>2, FromInstant
  <2>2. \/ y \in kept /\ y.key \in D
        \/ \E k \in D \ KeysOf(OpenRows(rs)) :
               y = [key |-> k, from |-> a, until |-> Null, by |-> w]
    BY <1>2, FromInstant
  <2>3. x.key \in D /\ y.key \in D
    BY <2>1, <2>2
  <2>4. x.key = y.key
    BY <2>3 DEF Exclusive, Consistent
  <2>5. \A r, q \in kept : r.key = q.key => r = q
    BY DEF KeptRows
  <2>6. \A r \in kept : r.key \in KeysOf(OpenRows(rs))
    BY <1>0 DEF KeysOf
  <2> QED
    BY <2>1, <2>2, <2>4, <2>5, <2>6
<1> QED
  BY <1>0, <1>1, <1>2

-----------------------------------------------------------------------------
(* The invariant and the theorems.                                         *)

LEMMA InitIInv == TimelineInit => IInv
BY TimelineMaxClock DEF TimelineInit, IInv, TimelineTypeOK, NothingAhead, BoundariesBy,
                        OneAssignmentAtATime, Instants

\* Boundaries that are not after the last reconciliation are not after a later one.
LEMMA BoundariesLater ==
    ASSUME IInv, NEW at \in Instants, at >= last
    PROVE  BoundariesBy(rows, at)
BY TimelineMaxClock, TimelineNull
   DEF IInv, TimelineTypeOK, NothingAhead, BoundariesBy, Row, Instants

LEMMA ReconcileIInv ==
    ASSUME IInv, NEW w \in Writers, NEW at \in Instants, NEW D \in SUBSET Keys,
           Reconcile(w, at, D)
    PROVE  IInv'
<1>1. PICK kept \in KeptRows(OpenRows(rows), D) :
          rows' = Refreshed(rows, OpenRows(rows), kept, at, D, w)
  BY DEF Reconcile
<1>2. /\ rows \in SUBSET Row /\ last' = at
      /\ BoundariesBy(rows, at) /\ Consistent(D)
      /\ \A r \in rows : r.until # Null => r.from < r.until
      /\ at \in Int
  BY BoundariesLater, TimelineMaxClock DEF IInv, TimelineTypeOK, Reconcile, Instants
<1>3. /\ rows' \subseteq Row
      /\ \A r \in rows' : r.until # Null => r.from < r.until
      /\ BoundariesBy(rows', at)
  BY <1>1, <1>2, ResultTyped
<1>4. TimelineTypeOK'
  BY <1>2, <1>3 DEF TimelineTypeOK
<1>5. NothingAhead'
  BY <1>2, <1>3 DEF NothingAhead, BoundariesBy
<1>6. \A r, q \in rows : \A t \in Instants :
          Covers(r, t) /\ Covers(q, t) /\ Exclusive(r, q) => r = q
  BY DEF IInv, OneAssignmentAtATime, Exclusive
<1>7. \A r, q \in rows' : \A t \in Instants :
          Covers(r, t) /\ Covers(q, t) /\ Exclusive(r, q) => r = q
  BY <1>1, <1>2, <1>6, ResultExclusive
<1>8. OneAssignmentAtATime'
  BY <1>7 DEF OneAssignmentAtATime, Exclusive, Covers
<1> QED
  BY <1>4, <1>5, <1>8 DEF IInv

LEMMA NextIInv == IInv /\ [TimelineNext]_timelineVars => IInv'
<1> SUFFICES ASSUME IInv, [TimelineNext]_timelineVars PROVE IInv'
  OBVIOUS
<1>1. CASE TimelineNext
  BY <1>1, ReconcileIInv DEF TimelineNext
<1>2. CASE UNCHANGED timelineVars
  BY <1>2 DEF timelineVars, IInv, TimelineTypeOK, NothingAhead, BoundariesBy,
              OneAssignmentAtATime, Covers
<1> QED
  BY <1>1, <1>2

\* The strengthened invariant holds of every reachable state.
THEOREM StrongInvariant == TimelineSpec => []IInv
<1> QED
  BY InitIInv, NextIInv, PTL DEF TimelineSpec

\* Type correctness of the table, with its range check.
THEOREM TimelineTypeCorrect == TimelineSpec => []TimelineTypeOK
<1>1. IInv => TimelineTypeOK
  BY DEF IInv
<1> QED
  BY <1>1, StrongInvariant, PTL

\* Serial reconciliations never give one assignment twice, or a one-valued field
\* two assignments, at any instant.
THEOREM OneAssignment == TimelineSpec => []OneAssignmentAtATime
<1>1. IInv => OneAssignmentAtATime
  BY DEF IInv
<1> QED
  BY <1>1, StrongInvariant, PTL

\* A row that has ended is never written again.
THEOREM EndedRowsFinal == TimelineSpec => EndedRowsAreFinal
<1>1. [TimelineNext]_timelineVars => [\A r \in rows : r.until # Null => r \in rows']_timelineVars
  <2> SUFFICES ASSUME [TimelineNext]_timelineVars, NEW r \in rows, r.until # Null
               PROVE  r \in rows'
    OBVIOUS
  <2>1. ASSUME NEW w \in Writers, NEW at \in Instants, NEW D \in SUBSET Keys,
               Reconcile(w, at, D)
        PROVE  r \in rows'
    <3>1. PICK kept \in KeptRows(OpenRows(rows), D) :
              rows' = Refreshed(rows, OpenRows(rows), kept, at, D, w)
      BY <2>1 DEF Reconcile
    <3> QED
      BY <3>1 DEF Refreshed, OpenRows
  <2> QED
    BY <2>1 DEF TimelineNext, timelineVars
<1> QED
  BY <1>1, PTL DEF TimelineSpec, EndedRowsAreFinal

\* The rows implement the record: a past instant's answer never changes, and from
\* the instant of a reconciliation on the answer is what it resolved.
THEOREM RowsImplementRecord == TimelineSpec => ImplementsRecord
<1> DEFINE rec == [t \in Instants |-> AsOf(rows, t)]
<1>1. TimelineInit => Record!RecordInit
  BY DEF TimelineInit, Record!RecordInit, Record!Instants, Instants, AsOf, KeysOf
<1>2. IInv /\ [TimelineNext]_timelineVars => [Record!RecordNext]_<<rec, last>>
  <2> SUFFICES ASSUME IInv, [TimelineNext]_timelineVars
               PROVE  [Record!RecordNext]_<<rec, last>>
    OBVIOUS
  <2>1. ASSUME NEW w \in Writers, NEW at \in Instants, NEW D \in SUBSET Keys,
               Reconcile(w, at, D)
        PROVE  Record!RecordNext
    <3>1. PICK kept \in KeptRows(OpenRows(rows), D) :
              rows' = Refreshed(rows, OpenRows(rows), kept, at, D, w)
      BY <2>1 DEF Reconcile
    <3>2. /\ rows \in SUBSET Row /\ last' = at /\ at >= last
          /\ BoundariesBy(rows, at) /\ Consistent(D)
      BY <2>1, BoundariesLater DEF IInv, TimelineTypeOK, NothingAhead, Reconcile
    <3>3. \A t \in Instants : AsOf(rows', t) = IF t < at THEN AsOf(rows, t) ELSE D
      <4> SUFFICES ASSUME NEW t \in Instants
                   PROVE  AsOf(rows', t) = IF t < at THEN AsOf(rows, t) ELSE D
        OBVIOUS
      <4>1. t < at \/ at <= t
        BY <3>2, TimelineMaxClock DEF Instants
      <4>2. CASE t < at
        BY <4>2, <3>1, <3>2, AnswersBefore
      <4>3. CASE at <= t
        <5>1. ~ (t < at)
          BY <4>3, <3>2, TimelineMaxClock DEF Instants
        <5>2. AsOf(rows', t) = D
          BY <4>3, <3>1, <3>2, AnswersFrom
        <5> QED
          BY <5>1, <5>2
      <4> QED
        BY <4>1, <4>2, <4>3
    <3>4. Record!Consistent(D)
      BY <3>2 DEF Record!Consistent, Consistent
    <3>5. rec' = [t \in Instants |-> IF t < at THEN rec[t] ELSE D]
      BY <3>3 DEF AsOf
    <3>6. Record!Decide(at, D)
      BY <3>2, <3>4, <3>5 DEF Record!Decide, Record!Instants, Instants
    <3> QED
      BY <3>2, <3>6 DEF Record!RecordNext, Record!Instants, Instants
  <2>2. CASE UNCHANGED timelineVars
    BY <2>2 DEF timelineVars, AsOf, KeysOf, Covers
  <2> QED
    BY <2>1, <2>2 DEF TimelineNext
<1> QED
  BY <1>1, <1>2, StrongInvariant, PTL
     DEF TimelineSpec, ImplementsRecord, Record!RecordSpec

-----------------------------------------------------------------------------

States == {"idle", "begun", "resolved", "deleting", "linked", "ordered", "locking",
           "refreshed"}

Work == [at : Instants, flip : SUBSET Facts, view : SUBSET Facts, del : SUBSET Facts,
         cur : SUBSET Row, kept : SUBSET Row]

\* A row that was found open is never changed: it is there, open, or it is gone.
Found(w) == \A r \in w.cur : r.until = Null

\* What a transaction that has its row locks is about to write.
Ready(w) ==
    /\ w.cur \subseteq rows
    /\ w.kept \in KeptRows(w.cur, Resolve(w.view))
    /\ RangesValid(w.cur \ w.kept, w.at)

Apart(s, t) == txn[s].cur \cap txn[t].cur = {}

CInv ==
    /\ TimelineTypeOK
    /\ clock \in Instants /\ world \subseteq Facts /\ links \subseteq Facts
    /\ pc \in [Writers -> States]
    /\ txn \in [Writers -> Work]
    /\ \A s \in Writers : pc[s] \in {"locking", "refreshed"} => Found(txn[s])
    /\ \A s \in Writers : pc[s] = "refreshed" => Ready(txn[s])
    /\ \A s, t \in Writers : pc[s] = "refreshed" /\ pc[t] = "refreshed" /\ s # t => Apart(s, t)

-----------------------------------------------------------------------------
LEMMA IdleIsWork == Idle \in Work
  BY TimelineMaxClock DEF Idle, Work, Instants

\* A statement of s other than its commit.
LEMMA OwnStep ==
    ASSUME CInv, NEW s \in Writers, NEW place \in States, NEW w \in Work,
           UNCHANGED <<rows, last, clock, world, links>>,
           pc' = [pc EXCEPT ![s] = place], txn' = [txn EXCEPT ![s] = w],
           place \in {"locking", "refreshed"} => Found(w),
           place = "refreshed" =>
               /\ Ready(w)
               /\ \A t \in Writers \ {s} : pc[t] = "refreshed" => txn[t].cur \cap w.cur = {}
    PROVE  CInv'
<1>1. /\ pc' \in [Writers -> States] /\ txn' \in [Writers -> Work]
      /\ pc'[s] = place /\ txn'[s] = w
      /\ \A t \in Writers \ {s} : pc'[t] = pc[t] /\ txn'[t] = txn[t]
  BY DEF CInv
<1>2. \A t \in Writers : pc'[t] \in {"locking", "refreshed"} => Found(txn'[t])
  BY <1>1 DEF CInv
<1>3. \A t \in Writers : pc'[t] = "refreshed" => Ready(txn[t])' 
  BY <1>1 DEF CInv, Ready
<1>4. \A t, u \in Writers :
          pc'[t] = "refreshed" /\ pc'[u] = "refreshed" /\ t # u => Apart(t, u)'
  BY <1>1 DEF CInv, Apart
<1> QED
  BY <1>1, <1>2, <1>3, <1>4 DEF CInv, TimelineTypeOK

LEMMA StatementKeepsInv ==
    ASSUME CInv, NEW s \in Writers,
           \/ \E flip \in {{}} \cup {{f} : f \in Facts} : Begin(s, flip)
           \/ ResolveMatches(s) \/ FindLinks(s) \/ ReplaceLinks(s) \/ CheckOrder(s)
           \/ FindOpenRows(s) \/ LockAndWrite(s) \/ Rollback(s)
    PROVE  CInv'
<1>0. /\ rows \subseteq Row /\ clock \in Instants /\ world \subseteq Facts /\ links \subseteq Facts
      /\ pc \in [Writers -> States] /\ txn \in [Writers -> Work] /\ txn[s] \in Work
  BY DEF CInv, TimelineTypeOK
<1>1. ASSUME NEW flip \in {{}} \cup {{f} : f \in Facts}, Begin(s, flip)
      PROVE  CInv'
  <2> DEFINE w == [Idle EXCEPT !.at = clock, !.flip = flip]
  <2>1. w \in Work
    BY <1>0, IdleIsWork DEF Work
  <2> QED
    BY <1>1, <2>1, OwnStep DEF Begin, Move, States
<1>2. CASE ResolveMatches(s)
  <2> DEFINE w == [txn[s] EXCEPT !.view = Toggled(world, txn[s].flip)]
  <2>1. w \in Work
    BY <1>0 DEF Work, Toggled
  <2>2. txn' = [txn EXCEPT ![s] = w]
    BY <1>0, <1>2 DEF ResolveMatches
  <2> QED
    BY <1>2, <2>1, <2>2, OwnStep DEF ResolveMatches, Move, States
<1>3. CASE FindLinks(s)
  <2> DEFINE w == [txn[s] EXCEPT !.del = links]
  <2>1. w \in Work
    BY <1>0 DEF Work
  <2>2. txn' = [txn EXCEPT ![s] = w]
    BY <1>0, <1>3 DEF FindLinks
  <2> QED
    BY <1>3, <2>1, <2>2, OwnStep DEF FindLinks, Move, States
<1>4. CASE ReplaceLinks(s)
  <2> DEFINE w == [txn[s] EXCEPT !.del = txn[s].del \cap links]
  <2>1. w \in Work
    BY <1>0 DEF Work
  <2>2. txn' = [txn EXCEPT ![s] = w]
    BY <1>0, <1>4 DEF ReplaceLinks
  <2> QED
    BY <1>4, <2>1, <2>2, OwnStep DEF ReplaceLinks, Move, States
<1>5. CASE CheckOrder(s)
  <2>1. txn' = [txn EXCEPT ![s] = txn[s]]
    BY <1>0, <1>5 DEF CheckOrder
  <2> QED
    BY <1>0, <1>5, <2>1, OwnStep DEF CheckOrder, Move, States
<1>6. CASE FindOpenRows(s)
  <2> DEFINE w == [txn[s] EXCEPT !.cur = OpenRows(rows)]
  <2>1. w \in Work /\ w.cur = OpenRows(rows)
    BY <1>0 DEF Work, OpenRows
  <2>2. txn' = [txn EXCEPT ![s] = w]
    BY <1>0, <1>6 DEF FindOpenRows
  <2>3. Found(w)
    BY <2>1 DEF Found, OpenRows
  <2> QED
    BY <1>6, <2>1, <2>2, <2>3, OwnStep DEF FindOpenRows, Move, States
<1>7. CASE LockAndWrite(s)
  <2> DEFINE cur == txn[s].cur \cap rows
  <2>1. PICK kept \in KeptRows(cur, Resolve(txn[s].view)) :
            /\ RangesValid(cur \ kept, txn[s].at)
            /\ txn' = [txn EXCEPT ![s].cur = cur, ![s].kept = kept]
    BY <1>7 DEF LockAndWrite
  <2> DEFINE w == [txn[s] EXCEPT !.cur = cur, !.kept = kept]
  <2>2. kept \subseteq cur
    BY DEF KeptRows
  <2>3. /\ w \in Work /\ w.cur = cur /\ w.kept = kept
        /\ w.at = txn[s].at /\ w.view = txn[s].view
    BY <1>0, <2>2 DEF Work
  <2>4. txn' = [txn EXCEPT ![s] = w]
    BY <1>0, <2>1 DEF Work
  <2>5. /\ pc[s] = "locking" /\ pc' = [pc EXCEPT ![s] = "refreshed"]
        /\ \A t \in Writers \ {s} : pc[t] = "refreshed" => txn[t].cur \cap txn[s].cur = {}
        /\ UNCHANGED <<rows, last, clock, world, links>>
    BY <1>7 DEF LockAndWrite, Move
  <2>6. Found(w)
    BY <2>3, <2>5 DEF CInv, Found
  <2>7. Ready(w)
    BY <2>1, <2>3 DEF Ready
  <2>8. \A t \in Writers \ {s} : pc[t] = "refreshed" => txn[t].cur \cap w.cur = {}
    BY <2>3, <2>5
  <2> HIDE DEF w
  <2> QED
    BY <2>3, <2>4, <2>5, <2>6, <2>7, <2>8, OwnStep DEF States
<1>8. CASE Rollback(s)
  BY <1>8, IdleIsWork, OwnStep DEF Rollback, EndTxn, States
<1> QED
  BY <1>1, <1>2, <1>3, <1>4, <1>5, <1>6, <1>7, <1>8

\* What a commit adds to the table has the types of the table and its range check, and
\* what it removes was open.
LEMMA CommittedRows ==
    ASSUME CInv, NEW s \in Writers, Commit(s)
    PROVE  LET w == txn[s] gone == w.cur \ w.kept IN
           /\ gone \subseteq OpenRows(rows)
           /\ rows' = (rows \ gone) \cup Ended(gone, w.at)
                        \cup Started(Resolve(w.view) \ KeysOf(w.cur), w.at, s)
           /\ Ended(gone, w.at) \subseteq Row
           /\ \A r \in Ended(gone, w.at) : r.from < r.until
           /\ Started(Resolve(w.view) \ KeysOf(w.cur), w.at, s) \subseteq Row
           /\ \A r \in Started(Resolve(w.view) \ KeysOf(w.cur), w.at, s) : r.until = Null
<1> DEFINE w == txn[s]
           gone == w.cur \ w.kept
<1>1. /\ w \in Work /\ w.at \in Instants /\ w.view \subseteq Facts /\ rows \subseteq Row
      /\ Found(w) /\ Ready(w)
  BY DEF CInv, TimelineTypeOK, Commit, Move, Work
<1>2. /\ gone \subseteq OpenRows(rows) /\ gone \subseteq Row
      /\ \A r \in gone : r.from <= w.at
  BY <1>1 DEF Found, Ready, RangesValid, OpenRows
<1>3. rows' = (rows \ gone) \cup Ended(gone, w.at)
                \cup Started(Resolve(w.view) \ KeysOf(w.cur), w.at, s)
  BY DEF Commit, Refreshed
<1>4. ASSUME NEW r \in gone, r.from # w.at
      PROVE  LET x == [r EXCEPT !.until = w.at] IN x \in Row /\ x.from < x.until
  <2>1. r \in Row /\ r.from \in Int /\ w.at \in Int /\ r.from < w.at
    BY <1>1, <1>2, <1>4, TimelineMaxClock DEF Row, Instants
  <2> QED
    BY <1>1, <2>1 DEF Row
<1>5. Ended(gone, w.at) \subseteq Row /\ \A r \in Ended(gone, w.at) : r.from < r.until
  BY <1>4 DEF Ended
<1>6. Resolve(w.view) \subseteq Keys
  BY <1>1, ResolveAssumption
<1>7. ASSUME NEW k \in Resolve(w.view) \ KeysOf(w.cur)
      PROVE  LET x == [key |-> k, from |-> w.at, until |-> Null, by |-> s]
             IN  x \in Row /\ x.until = Null
  BY <1>1, <1>6 DEF Row
<1>8. /\ Started(Resolve(w.view) \ KeysOf(w.cur), w.at, s) \subseteq Row
      /\ \A r \in Started(Resolve(w.view) \ KeysOf(w.cur), w.at, s) : r.until = Null
  BY <1>7 DEF Started
<1> QED
  BY <1>2, <1>3, <1>5, <1>8

LEMMA CommitKeepsInv ==
    ASSUME CInv, NEW s \in Writers, Commit(s)
    PROVE  CInv'
<1> DEFINE w == txn[s]
           gone == w.cur \ w.kept
<1>1. /\ pc[s] = "refreshed" /\ pc' = [pc EXCEPT ![s] = "idle"]
      /\ txn' = [txn EXCEPT ![s] = Idle] /\ clock' = clock /\ last' = w.at
      /\ links' = (links \ w.del) \cup w.view /\ world' = Toggled(world, w.flip)
  BY DEF Commit, Move, EndTxn
<1>2. /\ w \in Work /\ w.at \in Instants /\ w.view \subseteq Facts /\ w.flip \subseteq Facts
      /\ rows \subseteq Row
  BY DEF CInv, TimelineTypeOK, Work
<1>3. TimelineTypeOK'
  <2>1. rows' \subseteq Row /\ \A r \in rows' : r.until # Null => r.from < r.until
    BY <1>2, CommittedRows DEF CInv, TimelineTypeOK
  <2> QED
    BY <1>1, <1>2, <2>1 DEF TimelineTypeOK
<1>4. clock' \in Instants /\ world' \subseteq Facts /\ links' \subseteq Facts
  BY <1>1, <1>2 DEF CInv, Toggled
<1>5. /\ pc' \in [Writers -> States] /\ txn' \in [Writers -> Work] /\ pc'[s] = "idle"
      /\ \A t \in Writers \ {s} : pc'[t] = pc[t] /\ txn'[t] = txn[t]
  BY <1>1, IdleIsWork DEF CInv, States
<1>6. \A t \in Writers : pc'[t] \in {"locking", "refreshed"} => Found(txn'[t])
  BY <1>5 DEF CInv
<1>7. ASSUME NEW t \in Writers, pc'[t] = "refreshed"
      PROVE  Ready(txn[t])'
  <2>1. t # s /\ txn'[t] = txn[t] /\ Ready(txn[t]) /\ Apart(t, s)
    BY <1>1, <1>5, <1>7 DEF CInv
  <2>2. rows \ gone \subseteq rows'
    BY CommittedRows
  <2>3. txn[t].cur \subseteq rows'
    BY <2>1, <2>2 DEF Ready, Apart
  <2> QED
    BY <2>1, <2>3 DEF Ready
<1>8. \A t, u \in Writers :
          pc'[t] = "refreshed" /\ pc'[u] = "refreshed" /\ t # u => Apart(t, u)'
  BY <1>5 DEF CInv, Apart
<1> QED
  BY <1>3, <1>4, <1>5, <1>6, <1>7, <1>8 DEF CInv

LEMMA InitCInv == CRInit => CInv
<1> SUFFICES ASSUME CRInit PROVE CInv
  OBVIOUS
<1>1. txn \in [Writers -> Work] /\ pc \in [Writers -> States]
  BY IdleIsWork DEF CRInit, States
<1>2. TimelineTypeOK /\ clock \in Instants
  BY TimelineMaxClock DEF CRInit, TimelineInit, TimelineTypeOK, Instants
<1> QED
  BY <1>1, <1>2 DEF CRInit, CInv

LEMMA NextCInv == CInv /\ [CRNext]_crVars => CInv'
<1> SUFFICES ASSUME CInv, [CRNext]_crVars PROVE CInv'
  OBVIOUS
<1>1. ASSUME NEW s \in Writers, Step(s)
      PROVE  CInv'
  BY <1>1, StatementKeepsInv, CommitKeepsInv DEF Step
<1>2. CASE PassTime
  <2>1. clock' \in Instants /\ UNCHANGED <<rows, last, world, links, pc, txn>>
    BY <1>2, TimelineMaxClock DEF PassTime, CInv, Instants
  <2> QED
    BY <2>1 DEF CInv, TimelineTypeOK, Ready, Apart
<1>3. CASE UNCHANGED crVars
  BY <1>3 DEF crVars, CInv, TimelineTypeOK, Ready, Apart
<1> QED
  BY <1>1, <1>2, <1>3 DEF CRNext

-----------------------------------------------------------------------------
\* The inductive invariant: what a transaction that holds its row locks is about to write
\* stands for the rows as they are now.
THEOREM LockedRowsStayOpen == CRSpec => []CInv
<1> QED
  BY InitCInv, NextCInv, PTL DEF CRSpec

\* The rows a transaction is about to end are open, committed rows, however many other
\* transactions reconcile the employee (reconciliation.py:120-130).
THEOREM OnlyOpenRowsWritten == CRSpec => []WritesOnlyOpenRows
<1>1. CInv => WritesOnlyOpenRows
  BY DEF CInv, WritesOnlyOpenRows, Ready, Found, OpenRows
<1> QED
  BY <1>1, LockedRowsStayOpen, PTL

\* Rows that are not those a transaction locked answer for themselves.
LEMMA AnswersOfParts ==
    ASSUME NEW A, NEW B, NEW t
    PROVE  AsOf(A \cup B, t) = AsOf(A, t) \cup AsOf(B, t)
  BY DEF AsOf, KeysOf

LEMMA CommitKeepsThePast ==
    ASSUME CInv, NEW s \in Writers, Commit(s), NEW t \in Instants, t < txn[s].at
    PROVE  AsOf(rows', t) = AsOf(rows, t)
<1> DEFINE w == txn[s]
           D == Resolve(w.view)
           new == Refreshed(w.cur, w.cur, w.kept, w.at, D, s)
<1>1. /\ w \in Work /\ w.at \in Instants /\ w.view \subseteq Facts /\ rows \subseteq Row
      /\ Found(w) /\ Ready(w) /\ rows' = Refreshed(rows, w.cur, w.kept, w.at, D, s)
  BY DEF CInv, TimelineTypeOK, Commit, Move, Work
<1>2. w.cur \subseteq rows /\ w.cur \in SUBSET Row /\ w.kept \subseteq w.cur
  BY <1>1 DEF Ready, KeptRows
<1>3. OpenRows(w.cur) = w.cur
  BY <1>1 DEF Found, OpenRows
<1>4. D \in SUBSET Keys
  BY <1>1, ResolveAssumption
<1>5. w.kept \in KeptRows(OpenRows(w.cur), D)
  BY <1>1, <1>3 DEF Ready
<1>6. AsOf(new, t) = AsOf(w.cur, t)
  BY <1>1, <1>2, <1>3, <1>4, <1>5, AnswersBefore
<1>7. rows' = (rows \ w.cur) \cup new
  BY <1>1, <1>2 DEF Refreshed
<1>8. rows = (rows \ w.cur) \cup w.cur
  BY <1>2
<1> DEFINE rest == rows \ w.cur
<1>9. AsOf(rest \cup new, t) = AsOf(rest, t) \cup AsOf(new, t)
  BY AnswersOfParts
<1>10. AsOf(rest \cup w.cur, t) = AsOf(rest, t) \cup AsOf(w.cur, t)
  BY AnswersOfParts
<1> HIDE DEF new, rest
<1>11. rows' = rest \cup new /\ rows = rest \cup w.cur
  BY <1>7, <1>8 DEF rest
<1> QED
  BY <1>6, <1>9, <1>10, <1>11

\* No commit changes what the employee had at an earlier instant, however many
\* reconciliations of the employee overlap (reconciliation.py:120-148).
THEOREM ThePastStands == CRSpec => PastAnswersStand
<1> DEFINE Stands == \A s \in Writers : \A t \in Instants :
               pc[s] = "refreshed" /\ pc'[s] = "idle" /\ t < txn[s].at
                  => AsOf(rows', t) = AsOf(rows, t)
<1>1. ASSUME CInv, [CRNext]_crVars
      PROVE  [Stands]_crVars
  <2> SUFFICES ASSUME NEW s \in Writers, NEW t \in Instants, CRNext,
                      pc[s] = "refreshed", pc'[s] = "idle", t < txn[s].at
               PROVE  AsOf(rows', t) = AsOf(rows, t)
    BY <1>1
  <2>1. CASE rows' = rows
    BY <2>1
  <2>2. ASSUME NEW u \in Writers, Commit(u)
        PROVE  AsOf(rows', t) = AsOf(rows, t)
    <3>1. pc' = [pc EXCEPT ![u] = "idle"] /\ pc \in [Writers -> States]
      BY <1>1, <2>2 DEF Commit, Move, CInv
    <3>2. u = s
      BY <3>1
    <3> QED
      BY <1>1, <2>2, <3>2, CommitKeepsThePast
  <2>3. rows' = rows \/ \E u \in Writers : Commit(u)
    BY DEF CRNext, Step, PassTime, Begin, ResolveMatches, FindLinks, ReplaceLinks, CheckOrder,
           FindOpenRows, LockAndWrite, Rollback
  <2> QED
    BY <2>1, <2>2, <2>3
<1> QED
  BY <1>1, LockedRowsStayOpen, PTL DEF CRSpec, PastAnswersStand

-----------------------------------------------------------------------------
(* One transaction at a time.                                              *)

Fresh == KeysOf(OpenRows(rows)) = Resolve(world) /\ links = world

\* What a transaction has read is still so, as nobody else has written.
Current(s) ==
    LET w == txn[s] IN
    /\ pc[s] # "idle" => last <= w.at /\ w.at <= clock
    /\ pc[s] \in {"resolved", "deleting", "linked", "ordered", "locking", "refreshed"} =>
           w.view = Toggled(world, w.flip)
    /\ pc[s] \in {"deleting", "linked", "ordered", "locking", "refreshed"} => w.del = links
    /\ pc[s] \in {"ordered", "locking", "refreshed"} => ~ OutOfOrder(rows, w.at)
    /\ pc[s] \in {"locking", "refreshed"} => w.cur = OpenRows(rows)

SInv == CInv /\ last <= clock /\ Fresh /\ \A s \in Writers : Current(s)

\* After a reconciliation the open rows are those that were wanted.
LEMMA OpenAfter ==
    ASSUME NEW rs \in SUBSET Row, NEW a \in Instants, NEW D, NEW w,
           NEW kept \in KeptRows(OpenRows(rs), D)
    PROVE  KeysOf(OpenRows(Refreshed(rs, OpenRows(rs), kept, a, D, w))) = D
<1> DEFINE cur == OpenRows(rs)
           new == Refreshed(rs, cur, kept, a, D, w)
<1>1. \A x \in Ended(cur \ kept, a) : x.until # Null
  <2> SUFFICES ASSUME NEW r \in cur \ kept, NEW x, x = [r EXCEPT !.until = a]
               PROVE  x.until # Null
    BY DEF Ended
  <2>1. r \in Row /\ a \in Int
    BY TimelineMaxClock DEF OpenRows, Instants
  <2> QED
    BY <2>1, TimelineNull DEF Row
<1>2. OpenRows(new) = kept \cup Started(D \ KeysOf(cur), a, w)
  <2>1. kept \subseteq cur
    BY DEF KeptRows
  <2>2. \A x \in Started(D \ KeysOf(cur), a, w) : x.until = Null
    BY DEF Started
  <2> QED
    BY <1>1, <2>1, <2>2 DEF Refreshed, OpenRows
<1>3. KeysOf(Started(D \ KeysOf(cur), a, w)) = D \ KeysOf(cur)
  <2> DEFINE row(k) == [key |-> k, from |-> a, until |-> Null, by |-> w]
             wanted == D \ KeysOf(cur)
  <2>1. \A k : row(k).key = k
    OBVIOUS
  <2>2. Started(wanted, a, w) = {row(k) : k \in wanted}
    BY DEF Started
  <2> HIDE DEF row, wanted
  <2>3. KeysOf({row(k) : k \in wanted}) = wanted
    BY <2>1 DEF KeysOf
  <2> QED
    BY <2>2, <2>3 DEF wanted
<1>4. KeysOf(kept) = KeysOf(cur) \cap D
  BY DEF KeptRows
<1>5. KeysOf(OpenRows(new)) = KeysOf(kept) \cup KeysOf(Started(D \ KeysOf(cur), a, w))
  BY <1>2 DEF KeysOf
<1> QED
  BY <1>3, <1>4, <1>5

LEMMA SerialStatement ==
    ASSUME \A s, t \in Writers : s = t, SInv, NEW s \in Writers,
           \/ \E flip \in {{}} \cup {{f} : f \in Facts} : Begin(s, flip)
           \/ ResolveMatches(s) \/ FindLinks(s) \/ ReplaceLinks(s) \/ CheckOrder(s)
           \/ FindOpenRows(s) \/ LockAndWrite(s) \/ Rollback(s)
    PROVE  SInv'
<1>0. CInv' /\ txn[s] \in Work /\ txn \in [Writers -> Work] /\ pc \in [Writers -> States]
  BY StatementKeepsInv DEF SInv, CInv
<1>1. UNCHANGED <<rows, last, clock, world, links>>
  BY DEF Begin, ResolveMatches, FindLinks, ReplaceLinks, CheckOrder, FindOpenRows,
         LockAndWrite, Rollback
<1>2. Fresh' /\ last' <= clock'
  BY <1>1 DEF SInv, Fresh
<1>3. Current(s)'
  <2> USE DEF Current
  <2>1. Current(s) /\ last <= clock /\ last \in Int /\ clock \in Int
    BY TimelineMaxClock DEF SInv, CInv, TimelineTypeOK, Instants
  <2>2. ASSUME NEW flip \in {{}} \cup {{f} : f \in Facts}, Begin(s, flip)
        PROVE  Current(s)'
    <3>1. pc'[s] = "begun" /\ txn'[s].at = clock
      BY <1>0, <2>2, IdleIsWork DEF Begin, Move, Work
    <3> QED
      BY <1>1, <2>1, <3>1
  <2>3. CASE ResolveMatches(s)
    <3>1. /\ pc[s] = "begun" /\ pc'[s] = "resolved" /\ txn'[s].at = txn[s].at
          /\ txn'[s].flip = txn[s].flip /\ txn'[s].view = Toggled(world, txn[s].flip)
      BY <1>0, <2>3 DEF ResolveMatches, Move, Work
    <3> QED
      BY <1>1, <2>1, <3>1
  <2>4. CASE FindLinks(s)
    <3>1. /\ pc[s] = "resolved" /\ pc'[s] = "deleting" /\ txn'[s].at = txn[s].at
          /\ txn'[s].flip = txn[s].flip /\ txn'[s].view = txn[s].view /\ txn'[s].del = links
      BY <1>0, <2>4 DEF FindLinks, Move, Work
    <3> QED
      BY <1>1, <2>1, <3>1
  <2>5. CASE ReplaceLinks(s)
    <3>1. /\ pc[s] = "deleting" /\ pc'[s] = "linked" /\ txn'[s].at = txn[s].at
          /\ txn'[s].flip = txn[s].flip /\ txn'[s].view = txn[s].view
          /\ txn'[s].del = txn[s].del \cap links
      BY <1>0, <2>5 DEF ReplaceLinks, Move, Work
    <3> QED
      BY <1>1, <2>1, <3>1
  <2>6. CASE CheckOrder(s)
    <3>1. /\ pc[s] = "linked" /\ pc'[s] = "ordered" /\ txn' = txn
          /\ ~ OutOfOrder(rows, txn[s].at)
      BY <1>0, <2>6 DEF CheckOrder, Move
    <3> QED
      BY <1>1, <2>1, <3>1
  <2>7. CASE FindOpenRows(s)
    <3>1. /\ pc[s] = "ordered" /\ pc'[s] = "locking" /\ txn'[s].at = txn[s].at
          /\ txn'[s].flip = txn[s].flip /\ txn'[s].view = txn[s].view
          /\ txn'[s].del = txn[s].del /\ txn'[s].cur = OpenRows(rows)
      BY <1>0, <2>7 DEF FindOpenRows, Move, Work
    <3> QED
      BY <1>1, <2>1, <3>1
  <2>8. CASE LockAndWrite(s)
    <3>1. PICK kept : txn' = [txn EXCEPT ![s].cur = txn[s].cur \cap rows, ![s].kept = kept]
      BY <2>8 DEF LockAndWrite
    <3>2. /\ pc[s] = "locking" /\ pc'[s] = "refreshed" /\ txn'[s].at = txn[s].at
          /\ txn'[s].flip = txn[s].flip /\ txn'[s].view = txn[s].view
          /\ txn'[s].del = txn[s].del /\ txn'[s].cur = txn[s].cur \cap rows
      BY <1>0, <2>8, <3>1 DEF LockAndWrite, Move, Work
    <3>3. txn[s].cur \cap rows = OpenRows(rows)
      BY <2>1, <3>2 DEF OpenRows
    <3> QED
      BY <1>1, <2>1, <3>2, <3>3
  <2>9. CASE Rollback(s)
    <3>1. pc'[s] = "idle"
      BY <1>0, <2>9 DEF Rollback
    <3> QED
      BY <3>1
  <2> QED
    BY <2>2, <2>3, <2>4, <2>5, <2>6, <2>7, <2>8, <2>9
<1>4. \A t \in Writers : Current(t)'
  <2> SUFFICES ASSUME NEW t \in Writers PROVE Current(t)'
    OBVIOUS
  <2>1. t = s
    OBVIOUS
  <2> QED
    BY <1>3, <2>1
<1> QED
  BY <1>0, <1>2, <1>4 DEF SInv

\* Alone, a transaction commits what one reconciliation of AssignmentTimeline does.
LEMMA SerialCommit ==
    ASSUME SInv, NEW s \in Writers, Commit(s)
    PROVE  /\ Reconcile(s, txn[s].at, Resolve(txn[s].view))
           /\ KeysOf(OpenRows(rows')) = Resolve(txn[s].view)
<1> DEFINE w == txn[s]
           D == Resolve(w.view)
<1>1. /\ w \in Work /\ w.at \in Instants /\ w.view \subseteq Facts /\ rows \in SUBSET Row
      /\ Ready(w) /\ Current(s) /\ pc[s] = "refreshed" /\ last \in Instants
  BY DEF SInv, CInv, TimelineTypeOK, Commit, Move, Work
<1>2. w.cur = OpenRows(rows) /\ last <= w.at /\ ~ OutOfOrder(rows, w.at)
  BY <1>1 DEF Current
<1>3. rows' = Refreshed(rows, OpenRows(rows), w.kept, w.at, D, s) /\ last' = w.at
  BY <1>2 DEF Commit
<1>4. w.kept \in KeptRows(OpenRows(rows), D) /\ RangesValid(OpenRows(rows) \ w.kept, w.at)
  BY <1>1, <1>2 DEF Ready
<1>5. Consistent(D)
  BY <1>1, ResolveAssumption
<1>6. w.at >= last
  BY <1>1, <1>2, TimelineMaxClock DEF Instants
<1>7. KeysOf(OpenRows(rows')) = D
  BY <1>1, <1>3, <1>4, OpenAfter
<1> QED
  BY <1>2, <1>3, <1>4, <1>5, <1>6, <1>7 DEF Reconcile

LEMMA SerialStep ==
    ASSUME \A s, t \in Writers : s = t, SInv, [CRNext]_crVars
    PROVE  SInv'
<1>1. ASSUME NEW s \in Writers, Commit(s)
      PROVE  SInv'
  <2>1. CInv' /\ KeysOf(OpenRows(rows')) = Resolve(txn[s].view)
    BY <1>1, CommitKeepsInv, SerialCommit DEF SInv
  <2>2. /\ pc[s] = "refreshed" /\ pc' = [pc EXCEPT ![s] = "idle"] /\ clock' = clock
        /\ last' = txn[s].at /\ links' = (links \ txn[s].del) \cup txn[s].view
        /\ world' = Toggled(world, txn[s].flip)
    BY <1>1 DEF Commit, Move
  <2>3. /\ txn[s].view = Toggled(world, txn[s].flip) /\ txn[s].del = links
        /\ txn[s].at <= clock
    BY <2>2 DEF SInv, Current
  <2>4. Fresh' /\ last' <= clock'
    BY <2>1, <2>2, <2>3 DEF Fresh
  <2>5. \A t \in Writers : pc'[t] = "idle"
    <3> SUFFICES ASSUME NEW t \in Writers PROVE pc'[t] = "idle"
      OBVIOUS
    <3>1. t = s
      OBVIOUS
    <3> QED
      BY <2>2, <3>1 DEF SInv, CInv
  <2> QED
    BY <2>1, <2>4, <2>5 DEF SInv, Current
<1>2. CASE PassTime
  <2>1. CInv'
    BY <1>2, NextCInv DEF SInv, CRNext
  <2>2. /\ UNCHANGED <<rows, last, world, links, pc, txn>> /\ clock' = clock + 1
        /\ clock \in Int /\ last \in Int /\ \A s \in Writers : txn[s].at \in Int
    BY <1>2, TimelineMaxClock DEF PassTime, SInv, CInv, TimelineTypeOK, Instants, Work
  <2>3. Fresh' /\ last' <= clock'
    BY <2>2 DEF SInv, Fresh
  <2>4. ASSUME NEW s \in Writers PROVE Current(s)'
    <3>1. Current(s)
      BY DEF SInv
    <3> QED
      BY <2>2, <3>1 DEF Current
  <2> QED
    BY <2>1, <2>3, <2>4 DEF SInv
<1>3. CASE UNCHANGED crVars
  <2>1. CInv'
    BY <1>3, NextCInv DEF SInv
  <2> QED
    BY <1>3, <2>1 DEF crVars, SInv, Fresh, Current
<1> QED
  BY <1>1, <1>2, <1>3, SerialStatement DEF CRNext, Step

LEMMA SerialInit == CRInit => SInv
<1> SUFFICES ASSUME CRInit PROVE SInv
  OBVIOUS
<1>1. CInv
  BY InitCInv
<1>2. KeysOf(OpenRows({})) = {}
  BY DEF KeysOf, OpenRows
<1> QED
  BY <1>1, <1>2, NoPolicyAssumption DEF CRInit, TimelineInit, SInv, Fresh, Current

\* With one transaction at a time, open rows and policy links are between transactions
\* those the committed facts resolve to (reconciliation.py:61-84); with two they need not
\* be.
THEOREM OneWriterLeavesNothingStale ==
    ASSUME \A s, t \in Writers : s = t
    PROVE  CRSpec => []CRInv
<1>1. SInv /\ [CRNext]_crVars => SInv'
  BY SerialStep
<1>2. SInv => CRInv
  BY DEF SInv, CInv, Fresh, CRInv, CRTypeOK, QuiescentFresh, States, Work
<1> QED
  BY <1>1, <1>2, SerialInit, PTL DEF CRSpec

\* With one transaction at a time, the statements amount to the single step of
\* AssignmentTimeline (reconciliation.py:61-84, 120-187), and what is proved of that holds
\* of them.
THEOREM OneWriterImplementsTimeline ==
    ASSUME \A s, t \in Writers : s = t
    PROVE  CRSpec => ImplementsTimeline
<1>1. SInv /\ [CRNext]_crVars => SInv'
  BY SerialStep
<1>2. CRInit => TimelineInit
  BY DEF CRInit
<1>3. SInv /\ [CRNext]_crVars => [TimelineNext]_timelineVars
  <2> SUFFICES ASSUME SInv, [CRNext]_crVars PROVE [TimelineNext]_timelineVars
    OBVIOUS
  <2>1. ASSUME NEW s \in Writers, Commit(s)
        PROVE  TimelineNext
    <3>1. txn[s].at \in Instants /\ Resolve(txn[s].view) \in SUBSET Keys
      BY ResolveAssumption DEF SInv, CInv, Work
    <3> QED
      BY <2>1, <3>1, SerialCommit DEF TimelineNext
  <2>2. (\E s \in Writers : Commit(s)) \/ UNCHANGED timelineVars
    BY DEF CRNext, Step, PassTime, crVars, timelineVars, Begin, ResolveMatches, FindLinks,
           ReplaceLinks, CheckOrder, FindOpenRows, LockAndWrite, Rollback
  <2> QED
    BY <2>1, <2>2
<1> QED
  BY <1>1, <1>2, <1>3, SerialInit, PTL DEF CRSpec, TimelineSpec, ImplementsTimeline
=============================================================================
