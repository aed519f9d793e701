---------------------- MODULE ReconciliationWorkerProofs ----------------------
(***************************************************************************)
(* Any number of workers, events and requests: one worker at a time, and   *)
(* every event processed once.  The worker's transaction is protected by   *)
(* two locks, the advisory one against other workers and those of the rows *)
(* against requests; the invariant says what each of them carries.         *)
(***************************************************************************)
EXTENDS ReconciliationWorker, FiniteSetTheorems, TLAPS

Statuses == {"pending", "processed", "cancelled"}
Places == {"off", "loop", "batch", "ending"}

Types ==
    /\ clock \in 0 .. MaxClock
    /\ status \in [Events -> Statuses]
    /\ effects \in [Events -> Nat]
    /\ intent \in [Events -> {"none", "cancelled", "pending"}]
    /\ held \in SUBSET Events
    /\ advisory \in Workers \cup {Nobody}
    /\ pc \in [Workers -> Places]
    /\ claimed \in [Workers -> SUBSET Events]

\* A batch is claimed only while its transaction is open, holds pending rows that no
\* request has written, and is no larger than the limit.
Batches ==
    \A w \in Workers :
        /\ pc[w] # "batch" => claimed[w] = {}
        /\ claimed[w] \cap held = {}
        /\ \A e \in claimed[w] : status[e] = "pending"
        /\ Cardinality(claimed[w]) <= BatchSize

\* A row that a request has written was not processed, and cannot be meanwhile.
Written == \A e \in held : intent[e] # "none" /\ status[e] # "processed"

WInv == Types /\ OneWorker /\ Batches /\ Written /\ ProcessedOnce

-----------------------------------------------------------------------------
LEMMA BatchFits ==
    ASSUME NEW t \in Nat, NEW B \in Batch(t)
    PROVE  /\ B \in SUBSET Events /\ B \cap held = {}
           /\ \A e \in B : status[e] = "pending"
           /\ Cardinality(B) <= BatchSize
<1> DEFINE free == DueAt(t) \ (held \cup Claimed)
<1>1. B \subseteq free /\ Cardinality(B) = IF Cardinality(free) < BatchSize
                                             THEN Cardinality(free) ELSE BatchSize
  BY DEF Batch
<1>2. free \subseteq {e \in Events : status[e] = "pending"} /\ free \cap held = {}
  BY DEF DueAt
<1>3. Cardinality(free) \in Nat
  BY <1>2, EventsAssumption, FS_Subset, FS_CardinalityType
<1> HIDE DEF free
<1> QED
  BY <1>1, <1>2, <1>3, LimitsAssumption

LEMMA EmptyBatchFits == Cardinality({}) <= BatchSize
  BY FS_EmptySet, LimitsAssumption

\* Only one worker has claimed rows, so the batch it commits is nobody else's.
LEMMA OnlyOneBatch ==
    ASSUME WInv, NEW w \in Workers, pc[w] # "off", NEW v \in Workers, v # w
    PROVE  claimed[v] = {}
  BY WorkersAssumption DEF WInv, Types, OneWorker, Batches

\* A step of worker w that writes no event row: its batch B afterwards must be sound.
LEMMA OnlyItsOwnBatch ==
    ASSUME WInv, NEW w \in Workers, NEW place \in Places, NEW B \in SUBSET Events,
           UNCHANGED <<clock, status, effects, intent, held>>,
           advisory' \in Workers \cup {Nobody}, OneWorker',
           pc' = [pc EXCEPT ![w] = place], claimed' = [claimed EXCEPT ![w] = B],
           place # "batch" => B = {}, B \cap held = {},
           \A e \in B : status[e] = "pending", Cardinality(B) <= BatchSize
    PROVE  WInv'
<1> USE DEF WInv
<1>1. Types'
  BY DEF Types
<1>2. Batches'
  <2> SUFFICES ASSUME NEW v \in Workers
               PROVE  /\ pc'[v] # "batch" => claimed'[v] = {}
                      /\ claimed'[v] \cap held = {}
                      /\ \A e \in claimed'[v] : status[e] = "pending"
                      /\ Cardinality(claimed'[v]) <= BatchSize
    BY DEF Batches
  <2>1. CASE v = w
    BY <2>1 DEF Types
  <2>2. CASE v # w
    <3>1. claimed'[v] = claimed[v] /\ pc'[v] = pc[v]
      BY <2>2 DEF Types
    <3> QED
      BY <3>1 DEF Batches
  <2> QED
    BY <2>1, <2>2
<1>3. Written' /\ ProcessedOnce'
  BY DEF Written, ProcessedOnce
<1> QED
  BY <1>1, <1>2, <1>3

\* The steps that end w's batch, if it has one, and leave every event row as it is.
LEMMA WithoutBatch ==
    ASSUME WInv, NEW w \in Workers, NEW place \in Places \ {"batch"},
           UNCHANGED <<clock, status, effects, intent, held>>,
           advisory' \in Workers \cup {Nobody}, OneWorker',
           pc' = [pc EXCEPT ![w] = place], claimed' = [claimed EXCEPT ![w] = {}]
    PROVE  WInv'
<1>1. /\ {} \in SUBSET Events /\ {} \cap held = {} /\ Cardinality({}) <= BatchSize
      /\ \A e \in {} : status[e] = "pending"
  BY EmptyBatchFits
<1>2. place \in Places /\ (place # "batch" => {} = {})
  OBVIOUS
<1> QED
  BY <1>1, <1>2, OnlyItsOwnBatch

LEMMA WorkerKeepsInv ==
    ASSUME WInv, NEW w \in Workers, StartRun(w) \/ WorkerStep(w) \/ Crash(w)
    PROVE  WInv'
<1> USE DEF WInv
<1>0. pc[w] # "batch" /\ UNCHANGED claimed => claimed' = [claimed EXCEPT ![w] = {}]
  BY DEF Types, Batches
<1>1. CASE StartRun(w)
  <2>1. /\ pc' = [pc EXCEPT ![w] = "loop"] /\ pc[w] = "off"
        /\ advisory = Nobody /\ advisory' = w
        /\ UNCHANGED <<clock, status, effects, intent, held, claimed>>
    BY <1>1 DEF StartRun, Goto
  <2>2. OneWorker'
    BY <2>1, WorkersAssumption DEF OneWorker, Types
  <2> QED
    BY <1>0, <2>1, <2>2, WithoutBatch DEF Places
<1>2. CASE StopInTime(w)
  <2>1. /\ pc' = [pc EXCEPT ![w] = "ending"] /\ pc[w] = "loop"
        /\ UNCHANGED <<clock, status, effects, intent, held, advisory, claimed>>
    BY <1>2 DEF StopInTime, Goto
  <2>2. OneWorker' /\ advisory' \in Workers \cup {Nobody}
    BY <2>1 DEF OneWorker, Types
  <2> QED
    BY <1>0, <2>1, <2>2, WithoutBatch DEF Places
<1>3. CASE Claim(w)
  <2>1. PICK B \in Batch(clock) : claimed' = [claimed EXCEPT ![w] = B]
    BY <1>3 DEF Claim
  <2>2. /\ B \in SUBSET Events /\ B \cap held = {} /\ Cardinality(B) <= BatchSize
        /\ \A e \in B : status[e] = "pending"
    BY BatchFits, LimitsAssumption DEF Types
  <2>3. /\ pc' = [pc EXCEPT ![w] = "batch"] /\ pc[w] = "loop"
        /\ UNCHANGED <<clock, status, effects, intent, held, advisory>>
    BY <1>3 DEF Claim, Goto
  <2>4. OneWorker' /\ advisory' \in Workers \cup {Nobody}
    BY <2>3 DEF OneWorker, Types
  <2> QED
    BY <2>1, <2>2, <2>3, <2>4, OnlyItsOwnBatch DEF Places
<1>4. CASE CommitBatch(w)
  <2> DEFINE B == claimed[w]
             place == IF Drained(Cardinality(B)) THEN "ending" ELSE "loop"
  <2>1. /\ B \in SUBSET Events /\ B \cap held = {} /\ \A e \in B : status[e] = "pending"
    BY DEF Types, Batches
  <2>2. pc[w] = "batch" /\ \A v \in Workers \ {w} : claimed[v] = {}
    BY <1>4, OnlyOneBatch DEF CommitBatch, Goto
  <2>3. /\ pc' = [pc EXCEPT ![w] = place] /\ place \in {"ending", "loop"}
        /\ claimed' = [claimed EXCEPT ![w] = {}]
        /\ UNCHANGED <<clock, intent, held, advisory>>
    BY <1>4 DEF CommitBatch, Goto
  <2>4. /\ status' = [e \in Events |-> IF e \in B THEN "processed" ELSE status[e]]
        /\ effects' = [e \in Events |-> IF e \in B THEN effects[e] + 1 ELSE effects[e]]
    BY <1>4 DEF CommitBatch
  <2> HIDE DEF B, place
  <2>5. Types'
    BY <2>3, <2>4 DEF Types, Statuses, Places
  <2>6. OneWorker'
    BY <2>2, <2>3 DEF OneWorker, Types
  <2>7. Batches'
    <3>1. \A v \in Workers : claimed'[v] = {}
      BY <2>2, <2>3 DEF Types
    <3> QED
      BY <3>1, EmptyBatchFits DEF Batches
  <2>8. Written'
    BY <2>1, <2>3, <2>4 DEF Written, Types
  <2>9. ProcessedOnce'
    BY <2>1, <2>4 DEF ProcessedOnce, Types
  <2> QED
    BY <2>5, <2>6, <2>7, <2>8, <2>9
<1>5. CASE FailBatch(w)
  <2>1. /\ claimed' = [claimed EXCEPT ![w] = {}]
        /\ pc' = [pc EXCEPT ![w] = "ending"] /\ pc[w] = "batch"
        /\ UNCHANGED <<clock, status, effects, intent, held, advisory>>
    BY <1>5 DEF FailBatch, Goto
  <2>2. OneWorker' /\ advisory' \in Workers \cup {Nobody}
    BY <2>1 DEF OneWorker, Types
  <2> QED
    BY <2>1, <2>2, WithoutBatch DEF Places
<1>6. CASE EndRun(w)
  <2>1. /\ pc' = [pc EXCEPT ![w] = "off"] /\ pc[w] = "ending" /\ advisory' = Nobody
        /\ UNCHANGED <<clock, status, effects, intent, held, claimed>>
    BY <1>6 DEF EndRun, Goto
  <2>2. OneWorker'
    BY <2>1, WorkersAssumption DEF OneWorker, Types
  <2> QED
    BY <1>0, <2>1, <2>2, WithoutBatch DEF Places
<1>7. CASE Crash(w)
  <2>1. /\ claimed' = [claimed EXCEPT ![w] = {}]
        /\ pc' = [pc EXCEPT ![w] = "off"] /\ pc[w] # "off"
        /\ advisory' = IF advisory = w THEN Nobody ELSE advisory
        /\ UNCHANGED <<clock, status, effects, intent, held>>
    BY <1>7 DEF Crash
  <2>2. OneWorker' /\ advisory' \in Workers \cup {Nobody}
    BY <2>1, WorkersAssumption DEF OneWorker, Types
  <2> QED
    BY <2>1, <2>2, WithoutBatch DEF Places
<1> QED
  BY <1>1, <1>2, <1>3, <1>4, <1>5, <1>6, <1>7 DEF WorkerStep

LEMMA RequestKeepsInv ==
    ASSUME WInv, NEW e \in Events, Read(e) \/ Write(e) \/ Release(e)
    PROVE  WInv'
<1> USE DEF WInv
<1>1. CASE Read(e)
  BY <1>1 DEF Read, Types, OneWorker, Batches, Written, ProcessedOnce
<1>2. CASE Write(e)
  <2>1. \A w \in Workers : e \notin claimed[w]
    BY <1>2 DEF Write, Claimed
  <2> QED
    BY <1>2, <2>1 DEF Write, Types, OneWorker, Batches, Written, ProcessedOnce
<1>3. CASE Release(e)
  <2>1. /\ e \in held /\ held' = held \ {e} /\ status[e] # "processed"
        /\ intent[e] \in {"cancelled", "pending"}
    BY <1>3 DEF Release, Types, Written
  <2>2. \A w \in Workers : e \notin claimed[w]
    BY <2>1 DEF Batches
  <2>3. /\ status' \in [Events -> Statuses] /\ status'[e] # "processed"
        /\ \A f \in Events \ {e} : status'[f] = status[f]
    BY <1>3, <2>1 DEF Release, Types, Statuses
  <2>4. /\ intent' = [intent EXCEPT ![e] = "none"] /\ held' \subseteq Events
        /\ UNCHANGED <<clock, effects, advisory, pc, claimed>>
    BY <1>3 DEF Release, Types
  <2>5. Types'
    BY <2>3, <2>4 DEF Types
  <2>6. OneWorker' /\ Written'
    BY <2>1, <2>3, <2>4 DEF OneWorker, Written, Types
  <2>7. Batches'
    BY <2>1, <2>2, <2>3, <2>4 DEF Batches, Types, Places
  <2>8. ProcessedOnce'
    BY <2>1, <2>3, <2>4 DEF ProcessedOnce, Types
  <2> QED
    BY <2>5, <2>6, <2>7, <2>8
<1> QED
  BY <1>1, <1>2, <1>3

\* The inductive invariant: with what the advisory lock and the row locks carry.
THEOREM WorkerInvariant == RWSpec => []WInv
<1>1. RWInit => WInv
  <2> SUFFICES ASSUME RWInit PROVE WInv
    OBVIOUS
  <2>1. Types
    BY LimitsAssumption DEF RWInit, Types, Statuses, Places
  <2>2. OneWorker
    BY WorkersAssumption DEF RWInit, OneWorker
  <2>3. Batches
    BY EmptyBatchFits DEF RWInit, Batches
  <2>4. Written /\ ProcessedOnce
    BY DEF RWInit, Written, ProcessedOnce
  <2> QED
    BY <2>1, <2>2, <2>3, <2>4 DEF WInv
<1>2. WInv /\ [RWNext]_rwVars => WInv'
  <2> SUFFICES ASSUME WInv, [RWNext]_rwVars PROVE WInv'
    OBVIOUS
  <2>1. ASSUME NEW w \in Workers, StartRun(w) \/ WorkerStep(w) \/ Crash(w)
        PROVE  WInv'
    BY <2>1, WorkerKeepsInv
  <2>2. ASSUME NEW e \in Events, Read(e) \/ Write(e) \/ Release(e)
        PROVE  WInv'
    BY <2>2, RequestKeepsInv
  <2>3. CASE PassTime
    BY <2>3, LimitsAssumption
    DEF PassTime, WInv, Types, OneWorker, Batches, Written, ProcessedOnce
  <2>4. CASE UNCHANGED rwVars
    BY <2>4 DEF rwVars, WInv, Types, OneWorker, Batches, Written, ProcessedOnce
  <2> QED
    BY <2>1, <2>2, <2>3, <2>4 DEF RWNext
<1> QED
  BY <1>1, <1>2, PTL DEF RWSpec

\* However many workers are started, one at a time is past the advisory lock, a lock is
\* never left behind, and a batch holds pending events within the limit
\* (workers/reconciliation.py:77-160, docs/system-design.md:163).
THEOREM OneWorkerAtATime == RWSpec => []RWInv
<1>1. WInv => RWInv
  BY DEF WInv, Types, Statuses, Places, Batches, RWInv, RWTypeOK
<1> QED
  BY <1>1, WorkerInvariant, PTL

\* Every event's effect is committed once, with its status, whatever crashes, fails, or is
\* written by requests that had read the row before (models.py:463).
THEOREM EventsProcessedOnce == RWSpec => []ProcessedOnce
<1>1. WInv => ProcessedOnce
  BY DEF WInv
<1> QED
  BY <1>1, WorkerInvariant, PTL

-----------------------------------------------------------------------------
\* What a run reports.

Run == [started : Nat, batches : Nat, due : SUBSET Events, drained : BOOLEAN]

\* A run has not reported "drained" before its last batch, and a batch below the limit
\* holds every row that was due and not locked when it was read.
RunSound(w) ==
    /\ pc[w] # "ending" => ~ run[w].drained
    /\ pc[w] = "batch" /\ Drained(Cardinality(claimed[w])) => run[w].due \subseteq claimed[w]

RunsInv ==
    /\ run \in [Workers -> Run]
    /\ \A w \in Workers : RunSound(w)

LEMMA NewRunIsSound == NewRun \in Run /\ ~ NewRun.drained
  BY DEF NewRun, Run

\* Nobody else has claimed rows when a batch is read, so that one below the limit is all
\* there was.
LEMMA ShortBatchIsEverything ==
    ASSUME WInv, NEW w \in Workers, pc[w] = "loop", NEW B \in Batch(clock),
           Drained(Cardinality(B))
    PROVE  DueAt(clock) \ held \subseteq B
<1> DEFINE free == DueAt(clock) \ (held \cup Claimed)
<1>1. Claimed = {}
  <2>1. \A v \in Workers : claimed[v] = {}
    BY OnlyOneBatch DEF WInv, Batches
  <2> QED
    BY <2>1 DEF Claimed
<1>2. B \subseteq free /\ Cardinality(B) = IF Cardinality(free) < BatchSize
                                             THEN Cardinality(free) ELSE BatchSize
  BY DEF Batch
<1>3. IsFiniteSet(free)
  BY EventsAssumption, FS_Subset DEF DueAt
<1>4. free = DueAt(clock) \ held
  BY <1>1
<1> HIDE DEF free
<1>5. Cardinality(B) = Cardinality(free)
  BY <1>2, LimitsAssumption DEF Drained
<1> QED
  BY <1>2, <1>3, <1>4, <1>5, FS_Subset

\* The run of a worker that does not take the step stays as it was.
LEMMA OtherRuns ==
    ASSUME WInv, RunsInv, NEW v \in Workers,
           run'[v] = run[v], pc'[v] = pc[v], claimed'[v] = claimed[v]
    PROVE  RunSound(v)'
  BY DEF RunsInv, RunSound, Drained

LEMMA WorkerKeepsRuns ==
    ASSUME WInv, RunsInv, NEW w \in Workers, StartRun(w) \/ WorkerStep(w) \/ Crash(w)
    PROVE  RunsInv'
<1> USE DEF WInv
<1>1. ASSUME NEW r \in Run, run' = [run EXCEPT ![w] = r],
             NEW place \in Places, pc' = [pc EXCEPT ![w] = place],
             NEW B \in SUBSET Events, claimed' = [claimed EXCEPT ![w] = B],
             place # "ending" => ~ r.drained,
             place = "batch" /\ Drained(Cardinality(B)) => r.due \subseteq B
      PROVE  RunsInv'
  <2>1. DOMAIN run = Workers /\ DOMAIN pc = Workers /\ DOMAIN claimed = Workers
    BY DEF RunsInv, Types
  <2>2. RunSound(w)'
    BY <1>1, <2>1 DEF RunSound, Drained
  <2>3. ASSUME NEW v \in Workers \ {w} PROVE RunSound(v)'
    <3>1. run'[v] = run[v] /\ pc'[v] = pc[v] /\ claimed'[v] = claimed[v]
      BY <1>1, <2>1
    <3> QED
      BY <3>1, OtherRuns
  <2>4. run' \in [Workers -> Run]
    BY <1>1 DEF RunsInv
  <2> QED
    BY <2>2, <2>3, <2>4 DEF RunsInv
<1>2. /\ claimed[w] \in SUBSET Events /\ claimed = [claimed EXCEPT ![w] = claimed[w]]
      /\ run[w] \in Run /\ run = [run EXCEPT ![w] = run[w]]
      /\ pc[w] # "ending" => ~ run[w].drained
      /\ clock \in Nat /\ {} \in SUBSET Events
  BY LimitsAssumption DEF Types, RunsInv, RunSound
<1>3. CASE StartRun(w)
  <2> DEFINE r == [NewRun EXCEPT !.started = clock]
  <2>1. r \in Run /\ ~ r.drained
    BY <1>2, NewRunIsSound DEF Run
  <2>2. /\ run' = [run EXCEPT ![w] = r] /\ pc' = [pc EXCEPT ![w] = "loop"]
        /\ UNCHANGED claimed
    BY <1>3 DEF StartRun, Goto
  <2> HIDE DEF r
  <2> QED
    BY <1>1, <1>2, <2>1, <2>2 DEF Places
<1>4. CASE StopInTime(w)
  <2>1. pc' = [pc EXCEPT ![w] = "ending"] /\ UNCHANGED <<run, claimed>>
    BY <1>4 DEF StopInTime, Goto
  <2> QED
    BY <1>1, <1>2, <2>1 DEF Places
<1>5. CASE Claim(w)
  <2>1. PICK B \in Batch(clock) : claimed' = [claimed EXCEPT ![w] = B]
    BY <1>5 DEF Claim
  <2> DEFINE r == [run[w] EXCEPT !.due = DueAt(clock) \ held]
  <2>2. B \in SUBSET Events
    BY <1>2, BatchFits
  <2>3. /\ pc' = [pc EXCEPT ![w] = "batch"] /\ pc[w] = "loop" /\ run' = [run EXCEPT ![w] = r]
    BY <1>5 DEF Claim, Goto
  <2>4. r \in Run /\ r.due = DueAt(clock) \ held /\ ~ r.drained
    BY <1>2, <2>3 DEF Run, DueAt
  <2>5. Drained(Cardinality(B)) => r.due \subseteq B
    BY <2>3, <2>4, ShortBatchIsEverything
  <2> HIDE DEF r
  <2> QED
    BY <1>1, <2>1, <2>2, <2>3, <2>4, <2>5 DEF Places
<1>6. CASE CommitBatch(w)
  <2> DEFINE d == Drained(Cardinality(claimed[w]))
             place == IF d THEN "ending" ELSE "loop"
  <2>1. PICK n : n = IF claimed[w] = {} THEN run[w].batches ELSE run[w].batches + 1
    OBVIOUS
  <2> DEFINE r == [run[w] EXCEPT !.batches = n, !.drained = d]
  <2>2. /\ run' = [run EXCEPT ![w] = r] /\ pc' = [pc EXCEPT ![w] = place]
        /\ claimed' = [claimed EXCEPT ![w] = {}]
    BY <1>6, <2>1 DEF CommitBatch, Goto
  <2>3. n \in Nat /\ d \in BOOLEAN
    BY <1>2, <2>1 DEF Run, Drained
  <2>4. r \in Run /\ r.drained = d
    BY <1>2, <2>3 DEF Run
  <2>5. place \in Places /\ place # "batch" /\ (place # "ending" => ~ d)
    BY DEF Places
  <2> HIDE DEF r, place, d
  <2> QED
    BY <1>1, <1>2, <2>2, <2>4, <2>5
<1>7. CASE FailBatch(w)
  <2>1. /\ pc' = [pc EXCEPT ![w] = "ending"] /\ UNCHANGED run
        /\ claimed' = [claimed EXCEPT ![w] = {}]
    BY <1>7 DEF FailBatch, Goto
  <2> QED
    BY <1>1, <1>2, <2>1 DEF Places
<1>8. CASE EndRun(w)
  <2>1. /\ run' = [run EXCEPT ![w] = NewRun] /\ pc' = [pc EXCEPT ![w] = "off"]
        /\ UNCHANGED claimed
    BY <1>8 DEF EndRun, Goto
  <2> QED
    BY <1>1, <1>2, <2>1, NewRunIsSound DEF Places
<1>9. CASE Crash(w)
  <2>1. /\ run' = [run EXCEPT ![w] = NewRun] /\ pc' = [pc EXCEPT ![w] = "off"]
        /\ claimed' = [claimed EXCEPT ![w] = {}]
    BY <1>9 DEF Crash
  <2> QED
    BY <1>1, <1>2, <2>1, NewRunIsSound DEF Places
<1> QED
  BY <1>3, <1>4, <1>5, <1>6, <1>7, <1>8, <1>9 DEF WorkerStep

LEMMA RunsStep ==
    ASSUME WInv, RunsInv, [RWNext]_rwVars
    PROVE  RunsInv'
<1>1. ASSUME UNCHANGED <<run, pc, claimed>> PROVE RunsInv'
  BY <1>1, OtherRuns DEF RunsInv
<1>2. ASSUME NEW w \in Workers, StartRun(w) \/ WorkerStep(w) \/ Crash(w)
      PROVE  RunsInv'
  BY <1>2, WorkerKeepsRuns
<1>3. ASSUME NEW e \in Events, Read(e) \/ Write(e) \/ Release(e)
      PROVE  RunsInv'
  BY <1>1, <1>3 DEF Read, Write, Release
<1>4. CASE PassTime
  BY <1>1, <1>4 DEF PassTime
<1>5. CASE UNCHANGED rwVars
  BY <1>1, <1>5 DEF rwVars
<1> QED
  BY <1>2, <1>3, <1>4, <1>5 DEF RWNext

\* Only the commit of a batch reports "drained".
LEMMA DrainedByCommit ==
    ASSUME WInv, RunsInv, [RWNext]_rwVars, NEW w \in Workers,
           pc[w] = "batch", pc'[w] = "ending", run'[w].drained
    PROVE  CommitBatch(w) /\ Drained(Cardinality(claimed[w]))
<1> USE DEF WInv
<1>1. DOMAIN run = Workers /\ pc \in [Workers -> Places] /\ ~ run[w].drained
  BY DEF RunsInv, RunSound, Types
<1>2. ASSUME NEW v \in Workers, StartRun(v) \/ WorkerStep(v) \/ Crash(v)
      PROVE  v = w
  <2>1. \E place \in Places : pc' = [pc EXCEPT ![v] = place]
    BY <1>2 DEF StartRun, WorkerStep, StopInTime, Claim, CommitBatch, FailBatch, EndRun,
                Crash, Goto, Places
  <2> QED
    BY <1>1, <2>1
<1>3. ~ UNCHANGED pc
  OBVIOUS
<1>4. StartRun(w) \/ WorkerStep(w) \/ Crash(w)
  BY <1>2, <1>3 DEF RWNext, Read, Write, Release, PassTime, rwVars
<1>5. CommitBatch(w) \/ FailBatch(w)
  BY <1>1, <1>4 DEF StartRun, WorkerStep, StopInTime, Claim, EndRun, Crash, Goto
<1>6. ~ FailBatch(w)
  BY <1>1 DEF FailBatch
<1>7. CommitBatch(w)
  BY <1>5, <1>6
<1> QED
  BY <1>1, <1>7 DEF CommitBatch, Goto

\* A run that reports "drained" leaves nothing behind that was due and free when it last
\* looked, however many workers, requests and crashes there are
\* (workers/reconciliation.py:117-169).
THEOREM DrainedRunsLeaveNothing == RWSpec => DrainedLeavesNothing
<1>1. RWInit => RunsInv
  BY NewRunIsSound DEF RWInit, RunsInv, RunSound
<1>2. WInv /\ RunsInv /\ [RWNext]_rwVars => RunsInv'
  BY RunsStep
<1>3. WInv /\ RunsInv /\ [RWNext]_rwVars =>
        [\A w \in Workers : pc[w] = "batch" /\ pc'[w] = "ending" /\ run'[w].drained =>
            \A e \in run[w].due : status'[e] = "processed"]_rwVars
  <2> SUFFICES ASSUME WInv, RunsInv, [RWNext]_rwVars, NEW w \in Workers,
                      pc[w] = "batch", pc'[w] = "ending", run'[w].drained,
                      NEW e \in run[w].due
               PROVE  status'[e] = "processed"
    OBVIOUS
  <2>1. CommitBatch(w) /\ Drained(Cardinality(claimed[w]))
    BY DrainedByCommit
  <2>2. e \in claimed[w]
    BY <2>1 DEF RunsInv, RunSound
  <2>3. e \in Events
    BY <2>2 DEF WInv, Types
  <2> QED
    BY <2>1, <2>2, <2>3 DEF CommitBatch
<1> QED
  BY <1>1, <1>2, <1>3, WorkerInvariant, PTL DEF RWSpec, DrainedLeavesNothing
=============================================================================
