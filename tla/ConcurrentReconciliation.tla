---------------------- MODULE ConcurrentReconciliation ----------------------
(***************************************************************************)
(* Transactions that reconcile the SAME employee at the same time: a       *)
(* request that changes authored facts and then reconciles, or the worker, *)
(* which changes none.  reconcile_employees (services/reconciliation.py)   *)
(* takes no lock on the employee, so under READ COMMITTED its statements   *)
(* interleave with another transaction's: it reads the clock, resolves,    *)
(* replaces the policy links (policy_matching.py:209-229), checks the      *)
(* order, locks the open rows, writes, and commits.  Each statement sees   *)
(* what was committed when it started.                                     *)
(***************************************************************************)
EXTENDS AssignmentTimeline

CONSTANTS
    Facts,         \* policies that authored rows may make match the employee
    Resolve(_)     \* assignments resolved from the policies that match

ASSUME ResolveAssumption ==
    \A w \in SUBSET Facts : Resolve(w) \subseteq Keys /\ Consistent(Resolve(w))
ASSUME NoPolicyAssumption == Resolve({}) = {}

VARIABLES
    clock,         \* current_datetime()
    world,         \* committed facts: the policies that match the employee
    links,         \* committed employee_policies rows
    pc,            \* the statement each transaction runs next
    txn            \* what each transaction has read and not yet committed

crVars == <<rows, last, clock, world, links, pc, txn>>

\* flip: the facts it changes; view: the matches it resolved; del: the links its
\* DELETE found, then locked; cur: the open rows its SELECT found, then locked;
\* kept: the rows of cur it leaves open.
Idle == [at |-> 0, flip |-> {}, view |-> {}, del |-> {}, cur |-> {}, kept |-> {}]

Toggled(w, flip) == (w \ flip) \cup (flip \ w)

Move(s, from, to) == pc[s] = from /\ pc' = [pc EXCEPT ![s] = to]

CRInit ==
    /\ TimelineInit
    /\ clock = 0
    /\ world = {} /\ links = {}
    /\ pc = [s \in Writers |-> "idle"]
    /\ txn = [s \in Writers |-> Idle]

\* The mutation is flushed first (its row lock makes a second writer of the same
\* fact wait), then the instant is read.  The worker reads its clock before its
\* transaction and changes no fact.
Begin(s, flip) ==
    /\ Move(s, "idle", "begun")
    /\ \A t \in Writers : txn[t].flip \cap flip = {}
    /\ txn' = [txn EXCEPT ![s] = [Idle EXCEPT !.at = clock, !.flip = flip]]
    /\ UNCHANGED <<rows, last, clock, world, links>>

\* Faulty: the reconciliation resolves before the mutation has been flushed.
ResolveBeforeFlush(s) ==
    /\ Move(s, "begun", "resolved")
    /\ txn' = [txn EXCEPT ![s].view = world]
    /\ UNCHANGED <<rows, last, clock, world, links>>

\* resolve_employees_assignments_for_date: committed facts and its own change.
ResolveMatches(s) ==
    /\ Move(s, "begun", "resolved")
    /\ txn' = [txn EXCEPT ![s].view = Toggled(world, txn[s].flip)]
    /\ UNCHANGED <<rows, last, clock, world, links>>

\* DELETE FROM employee_policies starts: the links it finds.
FindLinks(s) ==
    /\ Move(s, "resolved", "deleting")
    /\ txn' = [txn EXCEPT ![s].del = links]
    /\ UNCHANGED <<rows, last, clock, world, links>>

HoldsLinks(t) == pc[t] \in {"linked", "ordered", "locking", "refreshed"}

\* The DELETE waits for links another transaction deleted and skips the ones that
\* are gone; the INSERT waits for a link another transaction inserted, and must
\* not meet a committed link (primary key employee, policy).
ReplaceLinks(s) ==
    /\ Move(s, "deleting", "linked")
    /\ \A t \in Writers \ {s} :
          HoldsLinks(t) => /\ txn[t].del \cap txn[s].del = {}
                           /\ txn[t].view \cap txn[s].view = {}
    /\ txn[s].view \cap (links \ txn[s].del) = {}
    /\ txn' = [txn EXCEPT ![s].del = @ \cap links]
    /\ UNCHANGED <<rows, last, clock, world, links>>

CheckOrder(s) ==
    /\ Move(s, "linked", "ordered")
    /\ ~ OutOfOrder(rows, txn[s].at)
    /\ UNCHANGED <<rows, last, clock, world, links, txn>>

\* SELECT ... WHERE effective_until IS NULL FOR UPDATE starts: the rows it finds.
FindOpenRows(s) ==
    /\ Move(s, "ordered", "locking")
    /\ txn' = [txn EXCEPT ![s].cur = OpenRows(rows)]
    /\ UNCHANGED <<rows, last, clock, world, links>>

\* Faulty: without FOR UPDATE nothing waits; with it but without the re-check a
\* row that another transaction has ended or deleted meanwhile is written again.
WriteWithoutWaiting(s) ==
    LET cur == txn[s].cur \cap rows IN
    /\ Move(s, "locking", "refreshed")
    /\ \E kept \in KeptRows(cur, Resolve(txn[s].view)) :
          /\ RangesValid(cur \ kept, txn[s].at)
          /\ txn' = [txn EXCEPT ![s].cur = cur, ![s].kept = kept]
    /\ UNCHANGED <<rows, last, clock, world, links>>

WriteWithoutRecheck(s) ==
    LET cur == txn[s].cur IN
    /\ Move(s, "locking", "refreshed")
    /\ \A t \in Writers \ {s} : pc[t] = "refreshed" => txn[t].cur \cap cur = {}
    /\ \E kept \in KeptRows(cur, Resolve(txn[s].view)) :
          /\ RangesValid(cur \ kept, txn[s].at)
          /\ txn' = [txn EXCEPT ![s].kept = kept]
    /\ UNCHANGED <<rows, last, clock, world, links>>

\* It waits for rows another transaction locked and drops those that are no
\* longer open; rows inserted since it started stay unseen.  Then the writes.
LockAndWrite(s) ==
    LET cur == txn[s].cur \cap rows IN
    /\ Move(s, "locking", "refreshed")
    /\ \A t \in Writers \ {s} : pc[t] = "refreshed" => txn[t].cur \cap txn[s].cur = {}
    /\ \E kept \in KeptRows(cur, Resolve(txn[s].view)) :
          /\ RangesValid(cur \ kept, txn[s].at)
          /\ txn' = [txn EXCEPT ![s].cur = cur, ![s].kept = kept]
    /\ UNCHANGED <<rows, last, clock, world, links>>

EndTxn(s) == txn' = [txn EXCEPT ![s] = Idle]

\* Faulty: the new rows start at a second reading of the clock.
CommitWithTwoClocks(s) ==
    LET w == txn[s]
        gone == w.cur \ w.kept IN
    /\ Move(s, "refreshed", "idle")
    /\ rows' = (rows \ gone) \cup Ended(gone, w.at)
                 \cup Started(Resolve(w.view) \ KeysOf(w.cur), clock, s)
    /\ links' = (links \ w.del) \cup w.view
    /\ world' = Toggled(world, w.flip)
    /\ last' = w.at
    /\ EndTxn(s)
    /\ UNCHANGED clock

Commit(s) ==
    LET w == txn[s] IN
    /\ Move(s, "refreshed", "idle")
    /\ rows' = Refreshed(rows, w.cur, w.kept, w.at, Resolve(w.view), s)
    /\ links' = (links \ w.del) \cup w.view
    /\ world' = Toggled(world, w.flip)
    /\ last' = w.at
    /\ EndTxn(s)
    /\ UNCHANGED clock

\* A rejected order, a duplicate link, a reversed range, a lost connection: the
\* transaction ends with nothing written.
Rollback(s) ==
    /\ pc[s] \in {"deleting", "linked", "locking", "refreshed"}
    /\ pc' = [pc EXCEPT ![s] = "idle"]
    /\ EndTxn(s)
    /\ UNCHANGED <<rows, last, clock, world, links>>

PassTime ==
    /\ clock < MaxClock
    /\ clock' = clock + 1
    /\ UNCHANGED <<rows, last, world, links, pc, txn>>

Step(s) ==
    \/ \E flip \in {{}} \cup {{f} : f \in Facts} : Begin(s, flip)
    \/ ResolveMatches(s)
    \/ FindLinks(s)
    \/ ReplaceLinks(s)
    \/ CheckOrder(s)
    \/ FindOpenRows(s)
    \/ LockAndWrite(s)
    \/ Commit(s)
    \/ Rollback(s)

CRNext == (\E s \in Writers : Step(s)) \/ PassTime

CRSpec == CRInit /\ [][CRNext]_crVars

-----------------------------------------------------------------------------
CRTypeOK ==
    /\ TimelineTypeOK
    /\ clock \in Instants
    /\ world \subseteq Facts /\ links \subseteq Facts
    /\ pc \in [Writers -> {"idle", "begun", "resolved", "deleting", "linked",
                           "ordered", "locking", "refreshed"}]
    /\ txn \in [Writers -> [at : Instants, flip : SUBSET Facts, view : SUBSET Facts,
                            del : SUBSET Facts, cur : SUBSET Row, kept : SUBSET Row]]

\* The rows a transaction is about to end are committed, open rows: the row lock
\* kept any other transaction from ending them between its read and its commit
\* (reconciliation.py:120-130).
WritesOnlyOpenRows ==
    \A s \in Writers : pc[s] = "refreshed" => txn[s].cur \subseteq OpenRows(rows)

\* A commit leaves the answer as of every instant before its own untouched, even
\* when reconciliations of the employee overlap (reconciliation.py:120-148).
PastAnswersStand ==
    [][\A s \in Writers : \A t \in Instants :
          pc[s] = "refreshed" /\ pc'[s] = "idle" /\ t < txn[s].at
             => AsOf(rows', t) = AsOf(rows, t)]_crVars

\* Outside transactions the policy links and the open assignments are the ones
\* the committed facts resolve to (reconciliation.py:61-84, with the docstring of
\* policy_reconciliation.py:18-24): nothing stale stays behind a commit.
QuiescentFresh ==
    (\A s \in Writers : pc[s] = "idle") =>
        /\ KeysOf(OpenRows(rows)) = Resolve(world)
        /\ links = world

\* Both: every row satisfies the table's check of its range, and what is open follows
\* from the committed facts (models.py:959, reconciliation.py:61-84).
CRInv == CRTypeOK /\ QuiescentFresh

\* One transaction at a time, the statements amount to the single step of
\* AssignmentTimeline: nothing is lost between the check, the lock and the write
\* (reconciliation.py:61-84, 120-187).
ImplementsTimeline == TimelineSpec
=============================================================================
