------------------------ MODULE ReconciliationWorker ------------------------
(***************************************************************************)
(* The one-shot worker (workers/reconciliation.py) that an external        *)
(* scheduler starts again and again, perhaps while another one still runs. *)
(* It takes a PostgreSQL advisory lock or leaves, then processes batches of*)
(* due events, one transaction each, until nothing is left or its time is  *)
(* up.  Requests read event rows without a lock and write them later, to   *)
(* cancel or restore them.  Any process may be killed between two          *)
(* statements: PostgreSQL then rolls its transaction back and frees its    *)
(* locks.                                                                  *)
(*                                                                         *)
(* What processing an event changes is counted in effects.                 *)
(***************************************************************************)
EXTENDS Integers, FiniteSets

CONSTANTS
    Workers,       \* worker processes
    Nobody,        \* "the advisory lock is free"
    Events,        \* identities of scheduled_reconciliations rows, in id order
    At,            \* scheduled_at of each event
    Broken,        \* events whose employees meet a policy conflict
    BatchSize,     \* RECONCILIATION_BATCH_SIZE
    MaxRuntime,    \* RECONCILIATION_MAX_RUNTIME_SECONDS
    MaxClock,      \* bound: instants are 0..MaxClock
    MaxCrashes     \* bound: processes killed

ASSUME WorkersAssumption == Nobody \notin Workers
ASSUME EventsAssumption == Events \subseteq Nat /\ IsFiniteSet(Events) /\ Broken \subseteq Events
ASSUME AtAssumption == At \in [Events -> Nat]
ASSUME LimitsAssumption ==
    BatchSize \in Nat \ {0} /\ MaxRuntime \in Nat \ {0} /\ {MaxClock, MaxCrashes} \subseteq Nat

VARIABLES
    clock,         \* current_datetime(), and the monotonic clock
    status,        \* committed status of each event
    effects,       \* how often an event's reconciliation has been committed
    intent,        \* what a request has read an event row to do, and not yet written
    held,          \* event rows written, hence locked, by requests that go on
    advisory,      \* holder of the advisory lock
    pc,            \* where each worker is
    claimed,       \* the rows of each worker's batch, locked while its transaction lasts
    run,           \* the other local variables of each worker
    crashes

rwVars == <<clock, status, effects, intent, held, advisory, pc, claimed, run, crashes>>

\* started: monotonic time of the first batch; due: the due rows nobody had locked
\* when the batch was read (a history variable); drained: what the run reports.
NewRun == [started |-> 0, batches |-> 0, due |-> {}, drained |-> FALSE]

Claimed == UNION {claimed[w] : w \in Workers}

DueAt(t) == {e \in Events : status[e] = "pending" /\ At[e] <= t}

\* ORDER BY scheduled_at, id
Before(e, f) == At[e] < At[f] \/ (At[e] = At[f] /\ e < f)

\* get_due_reconciliations(lock=True): the first BatchSize of the unlocked rows.
Batch(t) ==
    LET free == DueAt(t) \ (held \cup Claimed)
    IN  {B \in SUBSET free :
            /\ Cardinality(B) = IF Cardinality(free) < BatchSize
                                  THEN Cardinality(free) ELSE BatchSize
            /\ \A e \in B, f \in free \ B : Before(e, f)}

-----------------------------------------------------------------------------
RWInit ==
    /\ clock = 0
    /\ status \in [Events -> {"pending", "cancelled"}]
    /\ effects = [e \in Events |-> 0]
    /\ intent = [e \in Events |-> "none"]
    /\ held = {}
    /\ advisory = Nobody
    /\ pc = [w \in Workers |-> "off"]
    /\ claimed = [w \in Workers |-> {}]
    /\ run = [w \in Workers |-> NewRun]
    /\ crashes = 0

Goto(w, from, to) == pc[w] = from /\ pc' = [pc EXCEPT ![w] = to]

\* Faulty: the result of pg_try_advisory_lock is not looked at.
StartWithoutLock(w) ==
    /\ Goto(w, "off", "loop")
    /\ advisory' = IF advisory = Nobody THEN w ELSE advisory
    /\ run' = [run EXCEPT ![w] = [NewRun EXCEPT !.started = clock]]
    /\ UNCHANGED <<clock, status, effects, intent, held, claimed, crashes>>

\* run_worker: pg_try_advisory_lock succeeds; when another worker has the lock
\* the process ends and nothing changes.
StartRun(w) ==
    /\ Goto(w, "off", "loop")
    /\ advisory = Nobody
    /\ advisory' = w
    /\ run' = [run EXCEPT ![w] = [NewRun EXCEPT !.started = clock]]
    /\ UNCHANGED <<clock, status, effects, intent, held, claimed, crashes>>

OutOfTime(w) == run[w].batches > 0 /\ clock - run[w].started >= MaxRuntime

\* The head of the loop: stop for lack of time, or read the clock and claim a batch.
StopInTime(w) ==
    /\ OutOfTime(w)
    /\ Goto(w, "loop", "ending")
    /\ UNCHANGED <<clock, status, effects, intent, held, advisory, claimed, run, crashes>>

Claim(w) ==
    /\ ~ OutOfTime(w)
    /\ Goto(w, "loop", "batch")
    /\ \E B \in Batch(clock) : claimed' = [claimed EXCEPT ![w] = B]
    /\ run' = [run EXCEPT ![w].due = DueAt(clock) \ held]
    /\ UNCHANGED <<clock, status, effects, intent, held, advisory, crashes>>

\* Faulty: a full batch is taken for the last one.
DrainedByFullBatch(n) == n <= BatchSize

\* len(events) < settings.batch_size, which an empty batch satisfies too.
Drained(n) == n < BatchSize

\* reconcile_due_events succeeds: reconciliations and statuses commit together.
CommitBatch(w) ==
    LET B == claimed[w] IN
    /\ B \cap Broken = {}
    /\ Goto(w, "batch", IF Drained(Cardinality(B)) THEN "ending" ELSE "loop")
    /\ status' = [e \in Events |-> IF e \in B THEN "processed" ELSE status[e]]
    /\ effects' = [e \in Events |-> IF e \in B THEN effects[e] + 1 ELSE effects[e]]
    /\ claimed' = [claimed EXCEPT ![w] = {}]
    /\ run' = [run EXCEPT ![w].batches = IF B = {} THEN @ ELSE @ + 1,
                          ![w].drained = Drained(Cardinality(B))]
    /\ UNCHANGED <<clock, intent, held, advisory, crashes>>

\* Faulty: each reconciliation commits on its own, the statuses at the end.
FailHalfway(w) ==
    LET B == claimed[w] IN
    /\ B \cap Broken # {}
    /\ Goto(w, "batch", "ending")
    /\ effects' = [e \in Events |-> IF e \in B \ Broken THEN effects[e] + 1 ELSE effects[e]]
    /\ claimed' = [claimed EXCEPT ![w] = {}]
    /\ UNCHANGED <<clock, status, intent, held, advisory, run, crashes>>

\* It raises: the batch is rolled back, the exception ends the run.
FailBatch(w) ==
    /\ claimed[w] \cap Broken # {}
    /\ Goto(w, "batch", "ending")
    /\ claimed' = [claimed EXCEPT ![w] = {}]
    /\ UNCHANGED <<clock, status, effects, intent, held, advisory, run, crashes>>

\* Faulty: the connection goes back to its pool with the lock.
EndWithoutUnlock(w) ==
    /\ Goto(w, "ending", "off")
    /\ run' = [run EXCEPT ![w] = NewRun]
    /\ UNCHANGED <<clock, status, effects, intent, held, advisory, claimed, crashes>>

\* finally: pg_advisory_unlock.
EndRun(w) ==
    /\ Goto(w, "ending", "off")
    /\ advisory' = Nobody
    /\ run' = [run EXCEPT ![w] = NewRun]
    /\ UNCHANGED <<clock, status, effects, intent, held, claimed, crashes>>

Crash(w) ==
    /\ pc[w] # "off" /\ crashes < MaxCrashes
    /\ pc' = [pc EXCEPT ![w] = "off"]
    /\ advisory' = IF advisory = w THEN Nobody ELSE advisory
    /\ claimed' = [claimed EXCEPT ![w] = {}]
    /\ run' = [run EXCEPT ![w] = NewRun]
    /\ crashes' = crashes + 1
    /\ UNCHANGED <<clock, status, effects, intent, held>>

\* A request selects an event row: a pending event to cancel, a cancelled one that
\* lies ahead to restore (cancel_pending_reconciliations, schedule_reconciliation).
Read(e) ==
    /\ intent[e] = "none"
    /\ \/ status[e] = "pending" /\ intent' = [intent EXCEPT ![e] = "cancelled"]
       \/ status[e] = "cancelled" /\ At[e] > clock
             /\ intent' = [intent EXCEPT ![e] = "pending"]
    /\ UNCHANGED <<clock, status, effects, held, advisory, pc, claimed, run, crashes>>

\* It writes the status it decided on, by id, waiting for a worker that has claimed
\* the row.  processed_at is set exactly in processed rows (a CHECK of the table),
\* so a row processed meanwhile fails the write and the request is rolled back.
Write(e) ==
    /\ intent[e] # "none"
    /\ e \notin held \cup Claimed
    /\ IF status[e] = "processed"
         THEN held' = held /\ intent' = [intent EXCEPT ![e] = "none"]
         ELSE held' = held \cup {e} /\ intent' = intent
    /\ UNCHANGED <<clock, status, effects, advisory, pc, claimed, run, crashes>>

\* The request commits or rolls back.
Release(e) ==
    /\ e \in held
    /\ held' = held \ {e}
    /\ intent' = [intent EXCEPT ![e] = "none"]
    /\ status' \in {status, [status EXCEPT ![e] = intent[e]]}
    /\ UNCHANGED <<clock, effects, advisory, pc, claimed, run, crashes>>

PassTime ==
    /\ clock < MaxClock
    /\ clock' = clock + 1
    /\ UNCHANGED <<status, effects, intent, held, advisory, pc, claimed, run, crashes>>

WorkerStep(w) ==
    \/ StopInTime(w)
    \/ Claim(w)
    \/ CommitBatch(w)
    \/ FailBatch(w)
    \/ EndRun(w)

RWNext ==
    \/ \E w \in Workers : StartRun(w) \/ WorkerStep(w) \/ Crash(w)
    \/ \E e \in Events : Read(e) \/ Write(e) \/ Release(e)
    \/ PassTime

RWSpec == RWInit /\ [][RWNext]_rwVars

\* The scheduler keeps starting workers, a started worker takes its steps, a
\* request that holds a row ends; nothing is assumed of new requests or crashes.
RWFairSpec ==
    /\ RWSpec
    /\ WF_rwVars(\E w \in Workers : StartRun(w))
    /\ \A w \in Workers : WF_rwVars(WorkerStep(w))
    /\ \A e \in Events : WF_rwVars(Release(e))

-----------------------------------------------------------------------------
\* Types; a claimed batch holds pending events, no more than the limit.
RWTypeOK ==
    /\ clock \in 0 .. MaxClock
    /\ status \in [Events -> {"pending", "processed", "cancelled"}]
    /\ effects \in [Events -> Nat]
    /\ intent \in [Events -> {"none", "cancelled", "pending"}]
    /\ held \subseteq Events
    /\ advisory \in Workers \cup {Nobody}
    /\ pc \in [Workers -> {"off", "loop", "batch", "ending"}]
    /\ \A w \in Workers : /\ claimed[w] \subseteq {e \in Events : status[e] = "pending"}
                           /\ Cardinality(claimed[w]) <= BatchSize

\* One worker at a time is past the lock, and the lock is never left behind by a
\* worker that has ended or died (docs/system-design.md:163).
OneWorker ==
    \A w \in Workers : pc[w] # "off" <=> advisory = w

\* Both: the types, with batches within the limit, and one worker at a time.
RWInv == RWTypeOK /\ OneWorker

\* An event's reconciliation is committed once, with its status, and never again:
\* not after a crash, after a failed batch, by another worker, nor when a request
\* had read the row before it was processed (README.md:184, models.py:463).
ProcessedOnce ==
    \A e \in Events : effects[e] = IF status[e] = "processed" THEN 1 ELSE 0

\* A run that reports "drained" has processed every event that was due and not
\* locked when it last read the clock (workers/reconciliation.py:117-169).
DrainedLeavesNothing ==
    [][\A w \in Workers : pc[w] = "batch" /\ pc'[w] = "ending" /\ run'[w].drained =>
          \A e \in run[w].due : status'[e] = "processed"]_rwVars

\* A due event is processed, or cancelled, although workers die, run out of time
\* and skip locked rows; unless requests go on holding its row forever, or an event
\* that cannot be processed stays due and fails the batches it is in.
DueIsProcessed ==
    \A e \in Events :
        \/ e \in DueAt(clock) ~> status[e] # "pending"
        \/ []<>(e \in held)
        \/ []<>(DueAt(clock) \cap Broken # {})
=============================================================================
