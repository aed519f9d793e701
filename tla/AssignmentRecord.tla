-------------------------- MODULE AssignmentRecord --------------------------
(***************************************************************************)
(* What the assignment history of one employee promises, without rows: for *)
(* every instant, the set of assignments in force.  A decision taken at an *)
(* instant settles that instant and, until the next decision, all later    *)
(* ones; it never touches an earlier one.  Employee assignment queries as  *)
(* of an instant (services/employee_assignments.py:20-41) read this record *)
(* and the past answers it gave stay what they were.                       *)
(***************************************************************************)
EXTENDS Integers

CONSTANTS
    Keys,          \* assignments, identified as _assignment_key does
    FieldOf,       \* the assignment field of a key
    OneValued,     \* the fields that hold one value at a time
    MaxClock       \* bound: instants are 0..MaxClock

Instants == 0 .. MaxClock

VARIABLES
    record,        \* the assignments in force at each instant
    last           \* the instant of the last decision

\* A resolution gives a one-valued field at most one assignment.
Consistent(D) ==
    \A k, l \in D : FieldOf[k] = FieldOf[l] /\ FieldOf[k] \in OneValued => k = l

RecordInit ==
    /\ record = [t \in Instants |-> {}]
    /\ last = 0

Decide(at, D) ==
    /\ at >= last
    /\ Consistent(D)
    /\ record' = [t \in Instants |-> IF t < at THEN record[t] ELSE D]
    /\ last' = at

RecordNext == \E at \in Instants, D \in SUBSET Keys : Decide(at, D)

RecordSpec == RecordInit /\ [][RecordNext]_<<record, last>>
=============================================================================
