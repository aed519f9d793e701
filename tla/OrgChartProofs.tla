--------------------------- MODULE OrgChartProofs ---------------------------
(***************************************************************************)
(* Results about the chart for every set of employees.  With one request   *)
(* at a time it stays acyclic, everyone whose org facts change is          *)
(* reconciled, policies match whom their trees describe, and callers see   *)
(* and do what their part of the chart allows.  With any number of requests*)
(* a manager named by a committed row always exists.                       *)
(*                                                                         *)
(* The trees of conditions are recursive.  Induction over them and along   *)
(* their operands is had from the well-foundedness of the naturals, applied*)
(* to sets instead of predicates (Least, IntervalInduction, GroupInduction)*)
(* and so is the existence of the functions that the definitions speak of. *)
(***************************************************************************)
EXTENDS EmployeeScopes, PolicyConditions, FiniteSetTheorems, WellFoundedInduction, TLAPS

Busy(s) == pc[s] \in {"checked", "flushed", "reconciled"}
Writing(s) == pc[s] \in {"flushed", "reconciled"}

Target(w) ==
    /\ w.who \in Employees
    /\ w.reports \subseteq Employees
    /\ \/ w.op = "delete" /\ w.to = Absent
       \/ w.op \in {"create", "update"} /\ w.to \in Employees \cup {NoManager}

\* Part of the type that the arguments need.
Typed ==
    /\ org \in Charts
    /\ pc \in [Sessions -> {"idle", "checked", "flushed", "reconciled"}]
    /\ DOMAIN txn = Sessions
    /\ \A s \in Sessions : Busy(s) => Target(txn[s])

-----------------------------------------------------------------------------
\* What is applied is a chart (Commit writes it, org_chart.py, employees.py).
LEMMA AppliedTyped ==
    ASSUME NEW o \in Charts, NEW w, Target(w)
    PROVE  Applied(o, w) \in Charts
BY DEF Applied, Charts, Target

\* Each action keeps the type.
LEMMA TypedInv == OCSpec => []Typed
<1>1. OCInit => Typed
  BY DEF OCInit, Typed, Charts, Busy
<1>2. Typed /\ [OCNext]_ocVars => Typed'
  <2> SUFFICES ASSUME Typed, [OCNext]_ocVars PROVE Typed'
    OBVIOUS
  <2>1. CASE UNCHANGED ocVars
    BY <2>1 DEF Typed, ocVars, Busy, Target
  <2>2. ASSUME NEW s \in Sessions, NEW op \in {"create", "update"}, NEW e \in Employees,
               NEW m \in Employees \cup {NoManager}, Start(s, op, e, m)
        PROVE  Typed'
    BY <2>2 DEF Start, Typed, Busy, Target, Idle
  <2>3. ASSUME NEW s \in Sessions, NEW e \in Employees, BeginDelete(s, e)
        PROVE  Typed'
    BY <2>3 DEF BeginDelete, Typed, Busy, Target, Idle, ReportsOf
  <2>4. ASSUME NEW s \in Sessions, Flush(s)
        PROVE  Typed'
    BY <2>4 DEF Flush, Typed, Busy, Target
  <2>5. ASSUME NEW s \in Sessions, Reconcile(s)
        PROVE  Typed'
    <3>1. /\ txn'[s].who = txn[s].who /\ txn'[s].reports = txn[s].reports
          /\ txn'[s].op = txn[s].op /\ txn'[s].to = txn[s].to
          /\ DOMAIN txn' = Sessions
          /\ \A t \in Sessions \ {s} : txn'[t] = txn[t]
      BY <2>5 DEF Reconcile, Typed
    <3>2. /\ pc' = [pc EXCEPT ![s] = "reconciled"] /\ org' = org /\ pc[s] = "flushed"
      BY <2>5 DEF Reconcile
    <3> QED
      BY <3>1, <3>2 DEF Typed, Busy, Target
  <2>6. ASSUME NEW s \in Sessions, Commit(s)
        PROVE  Typed'
    <3>1. Target(txn[s])
      BY <2>6 DEF Commit, Typed, Busy
    <3> QED
      BY <2>6, <3>1, AppliedTyped DEF Commit, Typed, Busy, Target
  <2>7. ASSUME NEW s \in Sessions, Rollback(s)
        PROVE  Typed'
    BY <2>7 DEF Rollback, Typed, Busy, Target
  <2> QED
    BY <2>1, <2>2, <2>3, <2>4, <2>5, <2>6, <2>7 DEF OCNext, BeginCreate, BeginUpdate
<1> QED
  BY <1>1, <1>2, PTL DEF OCSpec

-----------------------------------------------------------------------------
\* The check of org_chart.py:30-54 is enough: on an acyclic chart it admits only
\* managers that keep the chart acyclic.
LEMMA AllowedManagerKeepsChains ==
    ASSUME NEW o \in Charts, NEW e \in Employees, NEW m \in Employees \cup {NoManager},
           EveryChainEnds(o), ManagerAllowed(o, e, m)
    PROVE  EveryChainEnds([o EXCEPT ![e] = m])
<1> DEFINE n == [o EXCEPT ![e] = m]
<1> SUFFICES ASSUME NEW S \in (SUBSET Employees) \ {{}}, \A x \in S : n[x] \in S
             PROVE  FALSE
  BY DEF EveryChainEnds
<1>1. \A x \in Employees : n[x] = IF x = e THEN m ELSE o[x]
  BY DEF Charts
<1>2. e \in S
  BY <1>1 DEF EveryChainEnds
<1>3. m \in S /\ m \in Employees /\ m # NoManager
  BY <1>1, <1>2, NoManagerAssumption
<1>4. m # e /\ e \notin Ancestors(o, m)
  BY <1>3 DEF ManagerAllowed
<1>5. PICK C \in SUBSET Employees :
         Upward(o, C) /\ (o[m] \in Employees => o[m] \in C) /\ e \notin C
  BY <1>4 DEF Ancestors
<1> DEFINE T == S \cap (C \cup {m})
<1>6. T \in (SUBSET Employees) \ {{}} /\ e \notin T
  BY <1>3, <1>4, <1>5
<1>7. \A x \in T : o[x] \in T
  <2> SUFFICES ASSUME NEW x \in T PROVE o[x] \in T
    OBVIOUS
  <2>1. o[x] \in S /\ o[x] \in Employees
    BY <1>1, <1>6
  <2> QED
    BY <2>1, <1>5 DEF Upward
<1> QED
  BY <1>6, <1>7 DEF EveryChainEnds

\* Clearing managers, as a deletion does, creates no cycle.
LEMMA DeletionKeepsChains ==
    ASSUME NEW o \in Charts, NEW w, Target(w), w.op = "delete", EveryChainEnds(o)
    PROVE  EveryChainEnds(Applied(o, w))
<1> SUFFICES ASSUME NEW S \in (SUBSET Employees) \ {{}}, \A x \in S : Applied(o, w)[x] \in S
             PROVE  FALSE
  BY DEF EveryChainEnds
<1>1. \A x \in S : Applied(o, w)[x] \in Employees
  OBVIOUS
<1>2. \A x \in S : Applied(o, w)[x] = o[x]
  BY <1>1, NoManagerAssumption, AbsentAssumption DEF Applied, Target
<1> QED
  BY <1>2 DEF EveryChainEnds

\* What a create or an update applies is the chart with one manager set.
LEMMA AppliedIsExcept ==
    ASSUME NEW o \in Charts, NEW w, Target(w), w.op # "delete"
    PROVE  Applied(o, w) = [o EXCEPT ![w.who] = w.to]
BY DEF Applied, Charts, Target

\* The inductive invariant for one request: what it is going to commit is acyclic.
PendingAcyclic == \A s \in Sessions : Busy(s) => EveryChainEnds(Applied(org, txn[s]))

\* With one request at a time no step closes a reporting cycle
\* (docs/system-design.md:158); with two, run org_cycle shows one.
THEOREM OneRequestKeepsAcyclic ==
    ASSUME \A s, t \in Sessions : s = t
    PROVE  OCSpec => []Acyclic
<1> DEFINE Inv == Acyclic /\ PendingAcyclic
<1>1. OCInit => Inv
  <2> SUFFICES ASSUME OCInit PROVE Inv
    OBVIOUS
  <2>1. \A e \in Employees : org[e] = Absent
    BY DEF OCInit
  <2>2. Acyclic
    BY <2>1, AbsentAssumption DEF Acyclic, EveryChainEnds
  <2> QED
    BY <2>2 DEF OCInit, PendingAcyclic, Busy
<1>2. Typed /\ Inv /\ [OCNext]_ocVars => Inv'
  <2> SUFFICES ASSUME Typed, Inv, [OCNext]_ocVars PROVE Inv'
    OBVIOUS
  <2>1. CASE UNCHANGED ocVars
    BY <2>1 DEF ocVars, Acyclic, PendingAcyclic, Busy
  <2>2. ASSUME NEW s \in Sessions, NEW op \in {"create", "update"}, NEW e \in Employees,
               NEW m \in Employees \cup {NoManager}, Start(s, op, e, m),
               ManagerAllowed(org, e, m)
        PROVE  Inv'
    <3>1. Target(txn'[s]) /\ txn'[s].op # "delete" /\ txn'[s].who = e /\ txn'[s].to = m
      BY <2>2 DEF Start, Typed, Idle, Target
    <3>2. Applied(org, txn'[s]) = [org EXCEPT ![e] = m]
      BY <3>1, AppliedIsExcept DEF Typed
    <3>3. EveryChainEnds(Applied(org, txn'[s]))
      BY <2>2, <3>2, AllowedManagerKeepsChains DEF Typed, Acyclic
    <3>4. org' = org /\ \A t \in Sessions : t = s
      BY <2>2 DEF Start
    <3> QED
      BY <3>3, <3>4 DEF Acyclic, PendingAcyclic
  <2>3. ASSUME NEW s \in Sessions, NEW e \in Employees, BeginDelete(s, e)
        PROVE  Inv'
    <3>1. Target(txn'[s]) /\ txn'[s].op = "delete"
      BY <2>3 DEF BeginDelete, Typed, Idle, Target, ReportsOf
    <3>2. org' = org /\ \A t \in Sessions : t = s
      BY <2>3 DEF BeginDelete
    <3> QED
      BY <3>1, <3>2, DeletionKeepsChains DEF Typed, Acyclic, PendingAcyclic
  <2>4. ASSUME NEW s \in Sessions, Flush(s)
        PROVE  Inv'
    BY <2>4 DEF Flush, Typed, Acyclic, PendingAcyclic, Busy
  <2>5. ASSUME NEW s \in Sessions, Reconcile(s)
        PROVE  Inv'
    <3>1. /\ txn'[s].who = txn[s].who /\ txn'[s].reports = txn[s].reports
          /\ txn'[s].op = txn[s].op /\ txn'[s].to = txn[s].to
      BY <2>5 DEF Reconcile, Typed
    <3>2. org' = org /\ pc[s] = "flushed" /\ \A t \in Sessions : t = s
      BY <2>5 DEF Reconcile
    <3>3. Applied(org, txn'[s]) = Applied(org, txn[s])
      BY <3>1 DEF Applied
    <3> QED
      BY <3>2, <3>3 DEF Acyclic, PendingAcyclic, Busy
  <2>6. ASSUME NEW s \in Sessions, Commit(s)
        PROVE  Inv'
    <3>1. pc[s] = "reconciled" /\ org' = Applied(org, txn[s])
      BY <2>6 DEF Commit
    <3>2. \A t \in Sessions : ~ Busy(t)'
      BY <2>6 DEF Commit, Typed, Busy
    <3> QED
      BY <3>1, <3>2 DEF Acyclic, PendingAcyclic, Busy
  <2>7. ASSUME NEW s \in Sessions, Rollback(s)
        PROVE  Inv'
    BY <2>7 DEF Rollback, Typed, Acyclic, PendingAcyclic, Busy
  <2> QED
    BY <2>1, <2>2, <2>3, <2>4, <2>5, <2>6, <2>7 DEF OCNext, BeginCreate, BeginUpdate
<1> QED
  BY <1>1, <1>2, TypedInv, PTL DEF OCSpec

-----------------------------------------------------------------------------
\* The foreign key at work: a manager whom an uncommitted row names is a committed
\* row, and no other request is deleting it.
Referenced ==
    /\ ManagersExist
    /\ \A s \in Sessions : RefersTo(s) \subseteq Staff(org)
    /\ \A s, t \in Sessions : s # t => Deletes(t) \cap RefersTo(s) = {}

\* A commit removes nobody but the employee it deletes, and leaves no row whose
\* manager that employee is.
LEMMA StaffAfter ==
    ASSUME NEW o \in Charts, NEW w, Target(w)
    PROVE  /\ \A e \in Staff(o) : e \in Staff(Applied(o, w)) \/ (w.op = "delete" /\ e = w.who)
           /\ w.op # "delete" => w.who \in Staff(Applied(o, w))
BY NoManagerAssumption, AbsentAssumption DEF Staff, Applied, Target, Charts

LEMMA ManagersAfter ==
    ASSUME NEW o \in Charts, NEW w, Target(w),
           \A e \in Staff(o) : o[e] # NoManager => o[e] \in Staff(o),
           {w.to} \cap Employees \subseteq Staff(o)
    PROVE  \A e \in Staff(Applied(o, w)) :
              Applied(o, w)[e] # NoManager => Applied(o, w)[e] \in Staff(Applied(o, w))
<1> SUFFICES ASSUME NEW e \in Employees, NEW m \in Employees, Applied(o, w)[e] = m
             PROVE  m \in Staff(Applied(o, w))
  BY AppliedTyped DEF Staff, Charts
<1>1. CASE e = w.who
  <2>1. m = w.to /\ w.op # "delete"
    BY <1>1, AbsentAssumption DEF Applied, Target
  <2> QED
    BY <2>1, StaffAfter
<1>2. CASE e # w.who
  <2>1. o[e] = m /\ ~ (w.op = "delete" /\ m = w.who)
    BY <1>2, NoManagerAssumption DEF Applied
  <2>2. m \in Staff(o)
    BY <2>1, NoManagerAssumption, AbsentAssumption DEF Staff
  <2> QED
    BY <2>1, <2>2, StaffAfter
<1> QED
  BY <1>1, <1>2

LEMMA ReferencedInv == OCSpec => []Referenced
<1>1. OCInit => Referenced
  BY AbsentAssumption DEF OCInit, Referenced, ManagersExist, Staff, RefersTo, Deletes
<1>2. Typed /\ Referenced /\ [OCNext]_ocVars => Referenced'
  <2> SUFFICES ASSUME Typed, Referenced, [OCNext]_ocVars PROVE Referenced'
    OBVIOUS
  <2>1. CASE UNCHANGED ocVars
    BY <2>1 DEF Referenced, ManagersExist, Staff, RefersTo, Deletes, ocVars
  <2>2. ASSUME NEW s \in Sessions,
               org' = org, pc[s] = "idle" \/ pc'[s] = "idle",
               pc' = [pc EXCEPT ![s] = "checked"] \/ pc' = [pc EXCEPT ![s] = "idle"],
               \A t \in Sessions \ {s} : txn'[t] = txn[t]
        PROVE  Referenced'
    <3>1. RefersTo(s)' = {} /\ Deletes(s)' = {}
      BY <2>2 DEF Typed, RefersTo, Deletes
    <3>2. \A t \in Sessions \ {s} : RefersTo(t)' = RefersTo(t) /\ Deletes(t)' = Deletes(t)
      BY <2>2 DEF Typed, RefersTo, Deletes
    <3>3. Staff(org)' = Staff(org) /\ ManagersExist'
      BY <2>2 DEF Referenced, ManagersExist, Staff
    <3> QED
      BY <3>1, <3>2, <3>3 DEF Referenced
  <2>3. ASSUME NEW s \in Sessions, Flush(s)
        PROVE  Referenced'
    <3>1. RefersTo(s)' = {txn[s].to} \cap Employees
      BY <2>3 DEF Flush, Typed, RefersTo
    <3>2. Deletes(s)' = IF txn[s].op = "delete" THEN {txn[s].who} ELSE {}
      BY <2>3 DEF Flush, Typed, Deletes
    <3>3. \A t \in Sessions \ {s} : RefersTo(t)' = RefersTo(t) /\ Deletes(t)' = Deletes(t)
      BY <2>3 DEF Flush, Typed, RefersTo, Deletes
    <3>4. Staff(org)' = Staff(org) /\ ManagersExist'
      BY <2>3 DEF Flush, Referenced, ManagersExist, Staff
    <3>5. RefersTo(s)' \subseteq Staff(org)
      BY <2>3, <3>1 DEF Flush
    <3>6. \A t \in Sessions \ {s} :
            Deletes(t) \cap RefersTo(s)' = {} /\ Deletes(s)' \cap RefersTo(t) = {}
      BY <2>3, <3>1, <3>2 DEF Flush
    <3> QED
      BY <3>3, <3>4, <3>5, <3>6 DEF Referenced
  <2>4. ASSUME NEW s \in Sessions, Reconcile(s)
        PROVE  Referenced'
    <3>1. /\ txn'[s].who = txn[s].who /\ txn'[s].op = txn[s].op /\ txn'[s].to = txn[s].to
          /\ \A t \in Sessions \ {s} : txn'[t] = txn[t]
      BY <2>4 DEF Reconcile, Typed
    <3>2. org' = org /\ pc' = [pc EXCEPT ![s] = "reconciled"] /\ pc[s] = "flushed"
      BY <2>4 DEF Reconcile
    <3>3. \A t \in Sessions : RefersTo(t)' = RefersTo(t) /\ Deletes(t)' = Deletes(t)
      BY <3>1, <3>2 DEF Typed, RefersTo, Deletes
    <3>4. Staff(org)' = Staff(org) /\ ManagersExist'
      BY <3>2 DEF Referenced, ManagersExist, Staff
    <3> QED
      BY <3>3, <3>4 DEF Referenced
  <2>5. ASSUME NEW s \in Sessions, Commit(s)
        PROVE  Referenced'
    <3>1. /\ Target(txn[s]) /\ pc[s] = "reconciled" /\ org' = Applied(org, txn[s])
          /\ pc' = [pc EXCEPT ![s] = "idle"]
          /\ \A t \in Sessions \ {s} : txn'[t] = txn[t]
      BY <2>5 DEF Commit, Typed, Busy
    <3>2. {txn[s].to} \cap Employees \subseteq Staff(org)
      BY <3>1 DEF Referenced, RefersTo
    <3>3. ManagersExist'
      BY <3>1, <3>2, ManagersAfter DEF Typed, Referenced, ManagersExist
    <3>4. RefersTo(s)' = {} /\ Deletes(s)' = {}
      BY <3>1 DEF Typed, RefersTo, Deletes
    <3>5. \A t \in Sessions \ {s} : RefersTo(t)' = RefersTo(t) /\ Deletes(t)' = Deletes(t)
      BY <3>1 DEF Typed, RefersTo, Deletes
    <3>6. \A t \in Sessions \ {s} : RefersTo(t) \subseteq Staff(org')
      <4> SUFFICES ASSUME NEW t \in Sessions \ {s}, NEW m \in RefersTo(t)
                   PROVE  m \in Staff(org')
        OBVIOUS
      <4>1. m \in Staff(org)
        BY DEF Referenced
      <4>2. ~ (txn[s].op = "delete" /\ m = txn[s].who)
        BY <3>1 DEF Referenced, Deletes
      <4> QED
        BY <3>1, <4>1, <4>2, StaffAfter DEF Typed
    <3> QED
      BY <3>3, <3>4, <3>5, <3>6 DEF Referenced
  <2>6. ASSUME NEW s \in Sessions, Rollback(s)
        PROVE  Referenced'
    BY <2>2, <2>6 DEF Rollback, Typed
  <2>7. ASSUME NEW s \in Sessions, NEW op, NEW e, NEW m, Start(s, op, e, m)
        PROVE  Referenced'
    BY <2>2, <2>7 DEF Start, Typed
  <2>8. ASSUME NEW s \in Sessions, NEW e \in Employees, BeginDelete(s, e)
        PROVE  Referenced'
    BY <2>2, <2>8 DEF BeginDelete, Typed
  <2> QED
    BY <2>1, <2>3, <2>4, <2>5, <2>6, <2>7, <2>8 DEF OCNext, BeginCreate, BeginUpdate
<1> QED
  BY <1>1, <1>2, TypedInv, PTL DEF OCSpec

\* However many requests create, move and delete employees at the same time, a
\* committed row never names a manager that does not exist (models.py:570).
THEOREM ManagersAlwaysExist == OCSpec => []ManagersExist
<1>1. Referenced => ManagersExist
  BY DEF Referenced
<1> QED
  BY <1>1, ReferencedInv, PTL

-----------------------------------------------------------------------------
\* Lemmas about the operator that walks upward (org_chart.py:57-85).

\* What is above e is closed, holds e's manager, and is the least such set.
LEMMA AncestorsClosed ==
    ASSUME NEW o, NEW e
    PROVE  /\ Ancestors(o, e) \subseteq Employees
           /\ Upward(o, Ancestors(o, e))
           /\ o[e] \in Employees => o[e] \in Ancestors(o, e)
  BY DEF Ancestors, Upward

LEMMA AncestorsLeast ==
    ASSUME NEW o, NEW e, NEW C \in SUBSET Employees, Upward(o, C),
           o[e] \in Employees => o[e] \in C
    PROVE  Ancestors(o, e) \subseteq C
  BY DEF Ancestors

LEMMA AncestorsOfAncestors ==
    ASSUME NEW o, NEW e, NEW a \in Ancestors(o, e)
    PROVE  Ancestors(o, a) \subseteq Ancestors(o, e)
<1>1. o[a] \in Employees => o[a] \in Ancestors(o, e)
  BY AncestorsClosed DEF Upward
<1> QED
  BY <1>1, AncestorsClosed, AncestorsLeast

\* Clearing links adds nobody above anyone.
LEMMA FewerLinks ==
    ASSUME NEW o, NEW n, \A y \in Employees : n[y] \in Employees => n[y] = o[y],
           NEW e \in Employees
    PROVE  Ancestors(n, e) \subseteq Ancestors(o, e)
<1>1. Upward(n, Ancestors(o, e)) /\ (n[e] \in Employees => n[e] \in Ancestors(o, e))
  BY AncestorsClosed DEF Upward
<1> QED
  BY <1>1, AncestorsClosed, AncestorsLeast

\* The chain of e changes only if the link of e or of somebody above e does.
LEMMA SameChain ==
    ASSUME NEW o, NEW n, NEW e, \A y \in {e} \cup Ancestors(o, e) : n[y] = o[y]
    PROVE  Ancestors(n, e) = Ancestors(o, e)
<1>1. Ancestors(n, e) \subseteq Ancestors(o, e)
  <2>1. Upward(n, Ancestors(o, e)) /\ (n[e] \in Employees => n[e] \in Ancestors(o, e))
    BY AncestorsClosed DEF Upward
  <2> QED
    BY <2>1, AncestorsClosed, AncestorsLeast
<1>2. Ancestors(o, e) \subseteq Ancestors(n, e)
  <2>1. Upward(o, Ancestors(n, e)) /\ (o[e] \in Employees => o[e] \in Ancestors(n, e))
    BY <1>1, AncestorsClosed DEF Upward
  <2> QED
    BY <2>1, AncestorsClosed, AncestorsLeast
<1> QED
  BY <1>1, <1>2

\* Nobody who does not exist is above anyone.
LEMMA AncestorsExist ==
    ASSUME NEW o, \A y \in Staff(o) : o[y] # NoManager => o[y] \in Staff(o),
           NEW e \in Staff(o)
    PROVE  Ancestors(o, e) \subseteq Staff(o)
<1>1. Upward(o, Staff(o)) /\ (o[e] \in Employees => o[e] \in Staff(o))
  BY NoManagerAssumption DEF Upward, Staff
<1> QED
  BY <1>1, AncestorsLeast DEF Staff

-----------------------------------------------------------------------------
\* Whom a request reconciles.

ToReconcile(o, w) ==
    IF w.op = "delete" THEN Descendants(o, w.who) \cup ({o[w.who]} \cap Employees)
    ELSE Impacted(Applied(o, w), w.who,
                  IF w.op = "create" THEN NoManager ELSE o[w.who], w.to)

\* What request w has read is what the committed chart o holds.
Loaded(o, w) ==
    /\ w.op = "create" => o[w.who] = Absent
    /\ w.op = "update" => w.who \in Staff(o) /\ w.from = o[w.who]
    /\ w.op = "delete" => w.reports = ReportsOf(o, w.who) /\ w.impacted = ToReconcile(o, w)

\* The impact resolvers leave out nobody whose facts change (condition_impacts.py:60-89).
LEMMA ImpactFindsEveryone ==
    ASSUME NEW o \in Charts, NEW w, Target(w), Loaded(o, w),
           NEW x \in Staff(Applied(o, w)) \ ToReconcile(o, w)
    PROVE  x \in Staff(o) /\ Facts(Applied(o, w), x) = Facts(o, x)
<1> DEFINE n == Applied(o, w)
<1>1. n \in Charts /\ x \in Employees /\ n[x] # Absent
  BY AppliedTyped DEF Staff
<1>2. CASE w.op = "delete"
  <2>1. /\ w.to = Absent /\ w.reports = ReportsOf(o, w.who) /\ w.who \in Employees
        /\ ToReconcile(o, w) = Descendants(o, w.who) \cup ({o[w.who]} \cap Employees)
    BY <1>2 DEF Target, Loaded, ToReconcile
  <2>2. \A y \in Employees : n[y] = IF y = w.who THEN Absent
                                       ELSE IF o[y] = w.who THEN NoManager ELSE o[y]
    BY <1>2, <2>1 DEF Applied, ReportsOf
  <2>3. x # w.who /\ x # o[w.who] /\ w.who \notin Ancestors(o, x)
    BY <1>1, <2>1, <2>2 DEF Descendants
  <2>4. \A y \in {x} \cup Ancestors(o, x) : y \in Employees /\ y # w.who /\ o[y] # w.who
    BY <1>1, <2>1, <2>3, AncestorsClosed DEF Upward
  <2>5. \A y \in {x} \cup Ancestors(o, x) : n[y] = o[y]
    BY <2>2, <2>4
  <2>6. Ancestors(n, x) = Ancestors(o, x)
    BY <2>5, SameChain
  <2>7. ReportsOf(n, x) = ReportsOf(o, x)
    BY <1>1, <2>2, <2>3, NoManagerAssumption, AbsentAssumption DEF ReportsOf
  <2> QED
    BY <1>1, <2>5, <2>6, <2>7 DEF Facts, Staff
<1>3. CASE w.op # "delete"
  <2> DEFINE before == IF w.op = "create" THEN NoManager ELSE o[w.who]
  <2>1. /\ n = [o EXCEPT ![w.who] = w.to] /\ w.who \in Employees
        /\ w.to \in Employees \cup {NoManager}
    BY <1>3, AppliedIsExcept DEF Target
  <2>2. ToReconcile(o, w) = {w.who} \cup ({before, w.to} \cap Employees)
                              \cup ({w.who} \cup Descendants(n, w.who))
    BY <1>3 DEF ToReconcile, Impacted, ChangedEmployee, OldAndNewManagers, MovedSubtree
  <2>3. x # w.who /\ x # before /\ x # w.to /\ w.who \notin Ancestors(n, x)
    BY <1>1, <2>2 DEF Descendants
  <2>4. x # o[w.who]
    BY <1>1, <1>3, <2>3, AbsentAssumption DEF Target, Loaded
  <2>5. \A y \in Employees \ {w.who} : n[y] = o[y]
    BY <2>1 DEF Charts
  <2>6. n[w.who] = w.to
    BY <2>1 DEF Charts
  <2> HIDE DEF n
  <2>7. \A y \in {x} \cup Ancestors(n, x) : o[y] = n[y]
    BY <1>1, <2>3, <2>5, AncestorsClosed
  <2>8. Ancestors(o, x) = Ancestors(n, x)
    BY <2>7, SameChain
  <2>9. ReportsOf(n, x) = ReportsOf(o, x)
    BY <2>3, <2>4, <2>5, <2>6 DEF ReportsOf
  <2> QED
    BY <1>1, <2>7, <2>8, <2>9 DEF Facts, Staff, n
<1> QED
  BY <1>2, <1>3

\* The inductive invariant: what a request has read still holds, what it has reconciled
\* is calculated from the chart it will commit, and the committed facts are fresh.
Fresh(s) ==
    /\ {"impacted", "facts"} \subseteq DOMAIN txn[s]
    /\ Busy(s) => Loaded(org, txn[s])
    /\ pc[s] = "reconciled" =>
          txn[s].facts = [e \in ToReconcile(org, txn[s]) \cap Staff(Applied(org, txn[s]))
                            |-> Facts(Applied(org, txn[s]), e)]

FreshInv == FactsFresh /\ \A s \in Sessions : Fresh(s)

\* What a request loads when it begins.
LEMMA BeginLoads ==
    ASSUME Typed, NEW s \in Sessions,
           NEW e \in Employees, NEW m \in Employees \cup {NoManager},
           BeginCreate(s, e, m) \/ BeginUpdate(s, e, m) \/ BeginDelete(s, e)
    PROVE  /\ UNCHANGED <<org, shown>> /\ pc[s] = "idle" /\ pc' = [pc EXCEPT ![s] = "checked"]
           /\ txn'[s].who = e /\ Loaded(org, txn'[s])
<1>1. ASSUME NEW op \in {"create", "update"}, Start(s, op, e, m)
      PROVE  /\ UNCHANGED <<org, shown>> /\ pc[s] = "idle" /\ pc' = [pc EXCEPT ![s] = "checked"]
             /\ txn'[s].who = e /\ txn'[s].op = op /\ txn'[s].from = org[e]
  BY <1>1 DEF Start, Typed, Idle
<1>2. CASE BeginCreate(s, e, m)
  BY <1>1, <1>2 DEF BeginCreate, Loaded
<1>3. CASE BeginUpdate(s, e, m)
  BY <1>1, <1>3 DEF BeginUpdate, Loaded
<1>4. CASE BeginDelete(s, e)
  <2>1. /\ UNCHANGED <<org, shown>> /\ pc[s] = "idle" /\ pc' = [pc EXCEPT ![s] = "checked"]
        /\ txn'[s].who = e /\ txn'[s].op = "delete" /\ txn'[s].reports = ReportsOf(org, e)
        /\ txn'[s].impacted = Descendants(org, e) \cup ({org[e]} \cap Employees)
    BY <1>4 DEF BeginDelete, Typed, Idle
  <2> QED
    BY <2>1 DEF Loaded, ToReconcile
<1> QED
  BY <1>2, <1>3, <1>4

\* What a request reconciles is what it should.
LEMMA ReconcileLoads ==
    ASSUME Typed, NEW s \in Sessions, Fresh(s), Reconcile(s)
    PROVE  Fresh(s)'
<1> DEFINE w == txn[s]
           ids == IF w.op = "delete" THEN w.impacted
                  ELSE Impacted(Applied(org, w), w.who,
                                IF w.op = "create" THEN NoManager ELSE w.from, w.to)
           facts == [e \in ids \cap Staff(Applied(org, w)) |-> Facts(Applied(org, w), e)]
<1>1. ids = ToReconcile(org, w)
  <2>1. w.op \in {"create", "update", "delete"} /\ Loaded(org, w)
    BY DEF Reconcile, Typed, Busy, Target, Fresh
  <2>2. /\ w.op = "delete" => w.impacted = ToReconcile(org, w)
        /\ w.op = "update" => w.from = org[w.who]
    BY <2>1 DEF Loaded
  <2> QED
    BY <2>1, <2>2 DEF ToReconcile
<1>2. /\ org' = org /\ pc[s] = "flushed" /\ pc' = [pc EXCEPT ![s] = "reconciled"]
      /\ txn' = [txn EXCEPT ![s].impacted = ids, ![s].facts = facts]
  BY DEF Reconcile
<1>3. PICK v : v = [w EXCEPT !.impacted = ids, !.facts = facts]
  OBVIOUS
<1>4. txn'[s] = v
  BY <1>2, <1>3 DEF Typed
<1>5. w.op \in {"create", "update", "delete"}
  BY <1>2 DEF Typed, Busy, Target
<1> HIDE DEF ids, facts
<1>6. /\ v.op = w.op /\ v.who = w.who /\ v.to = w.to /\ v.from = w.from
      /\ v.reports = w.reports /\ v.impacted = ids
  BY <1>3
<1>7. v.facts = facts /\ {"impacted", "facts"} \subseteq DOMAIN v
  BY <1>3 DEF Fresh
<1>8. Loaded(org, w)
  BY <1>2 DEF Fresh, Busy
<1>9. Applied(org, v) = Applied(org, w)
  BY <1>6 DEF Applied
<1>10. ToReconcile(org, v) = ToReconcile(org, w)
  BY <1>6, <1>9 DEF ToReconcile
<1>11. Loaded(org, v)
  BY <1>1, <1>6, <1>8, <1>10 DEF Loaded
<1>12. v.facts = [e \in ToReconcile(org, v) \cap Staff(Applied(org, v)) |->
                      Facts(Applied(org, v), e)]
  BY <1>1, <1>7, <1>9, <1>10 DEF facts
<1> HIDE DEF w
<1> QED
  <2>1. txn'[s].facts = [e \in ToReconcile(org, v) \cap Staff(Applied(org, v)) |->
                            Facts(Applied(org, v), e)]
    BY <1>4, <1>12
  <2>2. (txn[s])' = v /\ org' = org
    BY <1>2, <1>4
  <2> QED
    BY <1>4, <1>7, <1>11, <1>12, <2>2 DEF Fresh

LEMMA FreshInvariant ==
    ASSUME \A s, t \in Sessions : s = t
    PROVE  OCSpec => []FreshInv
<1>1. OCInit => FreshInv
  BY DEF OCInit, FreshInv, FactsFresh, Fresh, Busy, Idle, Staff
<1>2. Typed /\ FreshInv /\ [OCNext]_ocVars => FreshInv'
  <2> SUFFICES ASSUME Typed, FreshInv, [OCNext]_ocVars PROVE FreshInv'
    OBVIOUS
  <2> USE DEF FreshInv
  <2>1. CASE UNCHANGED ocVars
    BY <2>1 DEF ocVars, FactsFresh, Fresh, Busy
  <2>2. ASSUME NEW s \in Sessions, NEW e \in Employees, NEW m \in Employees \cup {NoManager},
               BeginCreate(s, e, m) \/ BeginUpdate(s, e, m) \/ BeginDelete(s, e)
        PROVE  FreshInv'
    <3>1. /\ UNCHANGED <<org, shown>> /\ pc' = [pc EXCEPT ![s] = "checked"]
          /\ Loaded(org, txn'[s])
      BY <2>2, BeginLoads
    <3>2. {"impacted", "facts"} \subseteq DOMAIN txn'[s]
      <4>1. ASSUME NEW op, Start(s, op, e, m)
            PROVE  {"impacted", "facts"} \subseteq DOMAIN txn'[s]
        BY <4>1 DEF Start, Typed, Idle
      <4>2. CASE BeginDelete(s, e)
        BY <4>2 DEF BeginDelete, Typed, Idle
      <4> QED
        BY <2>2, <4>1, <4>2 DEF BeginCreate, BeginUpdate
    <3>3. Fresh(s)'
      BY <3>1, <3>2 DEF Fresh, Typed
    <3> QED
      BY <3>1, <3>3 DEF FactsFresh
  <2>3. ASSUME NEW s \in Sessions, Flush(s)
        PROVE  FreshInv'
    BY <2>3 DEF Flush, Typed, FactsFresh, Fresh, Busy
  <2>4. ASSUME NEW s \in Sessions, Reconcile(s)
        PROVE  FreshInv'
    <3>1. Fresh(s)'
      BY <2>4, ReconcileLoads
    <3> QED
      BY <2>4, <3>1 DEF Reconcile, FactsFresh
  <2>5. ASSUME NEW s \in Sessions, Commit(s)
        PROVE  FreshInv'
    <3> DEFINE w == txn[s]
               n == Applied(org, w)
    <3>1. /\ org' = n /\ pc[s] = "reconciled" /\ pc' = [pc EXCEPT ![s] = "idle"]
          /\ shown' = [e \in Employees |-> IF e \in DOMAIN w.facts THEN w.facts[e] ELSE shown[e]]
          /\ txn' = [txn EXCEPT ![s] = Idle]
      BY <2>5 DEF Commit
    <3>2. /\ Target(w) /\ Loaded(org, w)
          /\ w.facts = [e \in ToReconcile(org, w) \cap Staff(n) |-> Facts(n, e)]
      BY <3>1 DEF Typed, Fresh, Busy
    <3> HIDE DEF n
    <3>3. ASSUME NEW e \in Staff(n) PROVE shown'[e] = Facts(n, e)
      <4>0. e \in Employees
        BY DEF Staff
      <4>1. CASE e \in ToReconcile(org, w)
        BY <3>1, <3>2, <4>0, <4>1
      <4>2. CASE e \notin ToReconcile(org, w)
        <5>1. e \in Staff(org) /\ Facts(n, e) = Facts(org, e)
          BY <3>2, <4>2, ImpactFindsEveryone DEF Typed, n
        <5> QED
          BY <3>1, <3>2, <4>0, <4>2, <5>1 DEF FactsFresh
      <4> QED
        BY <4>1, <4>2
    <3>4. Fresh(s)'
      BY <3>1 DEF Fresh, Typed, Busy, Idle
    <3> QED
      BY <3>1, <3>3, <3>4 DEF FactsFresh
  <2>6. ASSUME NEW s \in Sessions, Rollback(s)
        PROVE  FreshInv'
    BY <2>6 DEF Rollback, Typed, FactsFresh, Fresh, Busy, Idle
  <2> QED
    BY <2>1, <2>2, <2>3, <2>4, <2>5, <2>6 DEF OCNext
<1> QED
  BY <1>1, <1>2, TypedInv, PTL DEF OCSpec

\* With one request at a time every employee is reconciled whose org facts change, for
\* any number of employees and whatever is moved, created and deleted
\* (condition_impacts.py:60-89, employees.py:118-140).
THEOREM OneRequestKeepsFactsFresh ==
    ASSUME \A s, t \in Sessions : s = t
    PROVE  OCSpec => []FactsFresh
<1>1. FreshInv => FactsFresh
  BY DEF FreshInv
<1> QED
  BY <1>1, FreshInvariant, PTL

-----------------------------------------------------------------------------
\* Conditions on the chart.

\* An employee is a manager if it has a report.
LEMMA ManagersHaveReports ==
    ASSUME NEW o, NEW e
    PROVE  /\ Cardinality(ReportsOf(o, e)) \in Nat
           /\ Cardinality(ReportsOf(o, e)) > 0 <=> \E r \in Employees : o[r] = e
<1>1. IsFiniteSet(ReportsOf(o, e))
  BY FiniteAssumption, FS_Subset DEF ReportsOf
<1>2. ReportsOf(o, e) = {} <=> ~ \E r \in Employees : o[r] = e
  BY DEF ReportsOf
<1>3. Cardinality(ReportsOf(o, e)) \in Nat
  BY <1>1, FS_CardinalityType
<1>4. Cardinality(ReportsOf(o, e)) = 0 <=> ReportsOf(o, e) = {}
  BY <1>1, FS_EmptySet
<1> QED
  BY <1>2, <1>3, <1>4

\* What is read for each field, and what a condition on it says.
LEMMA WhatFieldsRead ==
    ASSUME NEW e, NEW read
    PROVE  /\ Resolve("employee_id", e, read) = e
           /\ Resolve("manager_id", e, read) = read.manager
           /\ Resolve("is_manager", e, read) = (read.reports > 0)
           /\ Resolve("direct_report_count", e, read) = read.reports
           /\ Resolve("reports_under", e, read) = read.above
           /\ Resolve("management_level", e, read) = Cardinality(read.above)
<1>1. Resolve("employee_id", e, read) = e
  BY Zenon DEF Resolve
<1>2. Resolve("manager_id", e, read) = read.manager
  BY Zenon DEF Resolve
<1>3. Resolve("is_manager", e, read) = (read.reports > 0)
  BY Zenon DEF Resolve
<1>4. Resolve("direct_report_count", e, read) = read.reports
  BY Zenon DEF Resolve
<1>5. Resolve("reports_under", e, read) = read.above
  BY Zenon DEF Resolve
<1>6. Resolve("management_level", e, read) = Cardinality(read.above)
  BY Zenon DEF Resolve
<1> QED
  BY <1>1, <1>2, <1>3, <1>4, <1>5, <1>6

\* A manager is compared with an employee, whether or not the employee exists.
LEMMA ReferencesParse ==
    ASSUME NEW v, Parses("manager_id", v)
    PROVE  v \in Employees
<1>1. "manager_id" \in References /\ "manager_id" \notin Counts /\ "manager_id" # "is_manager"
  BY DEF References, Counts
<1>2. Parses("manager_id", v) = (v \in Employees)
  BY <1>1, Zenon DEF Parses
<1> QED
  BY <1>2

\* Each condition of the catalogue, evaluated on fresh facts, is what it says of the chart
\* (condition_fields.py:357-462).
LEMMA FreshFactsEvaluateRight ==
    ASSUME Typed, FactsFresh, NEW c, Authored(c)
    PROVE  EvaluatedAsMeant(c)
<1> SUFFICES ASSUME NEW e \in Staff(org), NEW read, read = Facts(org, e)
             PROVE  Evaluate(c, e, read) <=> Means(c, e)
  BY DEF EvaluatedAsMeant, FactsFresh
<1>1. /\ read.manager = org[e] /\ read.above = Ancestors(org, e)
      /\ read.reports = Cardinality(ReportsOf(org, e))
  BY DEF Facts
<1>2. e \in Employees
  BY DEF Staff
<1>3. /\ c.field \in References \cup Counts \cup {"is_manager"}
      /\ c.op \in AllowedOperators(c.field) /\ Parses(c.field, c.value)
  BY DEF Authored
<1> DEFINE actual == Resolve(c.field, e, read)
<1>4. Evaluate(c, e, read) <=>
        /\ c.field = "manager_id" => actual # NoManager
        /\ IF c.field = "reports_under" THEN c.value \in actual
           ELSE Compare(actual, c.op, c.value)
  BY <1>3 DEF Evaluate
<1>5. c.field \in References \cup {"is_manager"}
        => (Compare(actual, c.op, c.value) <=> actual = c.value)
  <2> HIDE DEF actual
  <2>1. c.field \in References \cup {"is_manager"} => c.op = "="
    BY <1>3 DEF AllowedOperators, References, Counts
  <2>2. Compare(actual, "=", c.value) <=> actual = c.value
    BY Zenon DEF Compare
  <2> QED
    BY <2>1, <2>2
<1>6. CASE c.field = "employee_id"
  <2>1. actual = e
    BY <1>6, WhatFieldsRead
  <2>2. Means(c, e) <=> e = c.value
    BY <1>6 DEF Means
  <2> HIDE DEF actual
  <2> QED
    BY <1>4, <1>5, <1>6, <2>1, <2>2 DEF References
<1>7. CASE c.field = "manager_id"
  <2>1. actual = org[e]
    BY <1>1, <1>7, WhatFieldsRead
  <2>2. Means(c, e) <=> org[e] = c.value
    BY <1>7 DEF Means
  <2>3. c.value \in Employees
    BY <1>3, <1>7, ReferencesParse
  <2> HIDE DEF actual
  <2>4. Evaluate(c, e, read) <=> actual # NoManager /\ Compare(actual, c.op, c.value)
    BY <1>4, <1>7
  <2>5. Compare(actual, c.op, c.value) <=> actual = c.value
    BY <1>5, <1>7 DEF References
  <2>6. c.value # NoManager
    BY <2>3, NoManagerAssumption
  <2> QED
    BY <2>1, <2>2, <2>4, <2>5, <2>6
<1>8. CASE c.field = "is_manager"
  <2>1. actual = (Cardinality(ReportsOf(org, e)) > 0)
    BY <1>1, <1>8, WhatFieldsRead
  <2>2. Means(c, e) <=> (\E r \in Employees : org[r] = e) = c.value
    BY <1>8 DEF Means
  <2>3. (Cardinality(ReportsOf(org, e)) > 0) = (\E r \in Employees : org[r] = e)
    <3>1. (Cardinality(ReportsOf(org, e)) > 0) <=> (\E r \in Employees : org[r] = e)
      BY ManagersHaveReports
    <3>2. (Cardinality(ReportsOf(org, e)) > 0) \in BOOLEAN
      BY ManagersHaveReports
    <3> QED
      BY <3>1, <3>2, Zenon
  <2> HIDE DEF actual
  <2>4. Evaluate(c, e, read) <=> actual = c.value
    <3>1. c.field # "manager_id" /\ c.field # "reports_under"
      BY <1>8
    <3>3. Evaluate(c, e, read) <=> Compare(actual, c.op, c.value)
      BY <1>4, <3>1, Zenon
    <3>2. Compare(actual, c.op, c.value) <=> actual = c.value
      <4>1. c.field \in References \cup {"is_manager"}
        BY <1>8
      <4> QED
        BY <1>5, <4>1
    <3> QED
      BY <3>3, <3>2
  <2> QED
    BY <2>1, <2>2, <2>3, <2>4
<1>9. CASE c.field = "reports_under"
  <2>1. actual = Ancestors(org, e)
    BY <1>1, <1>9, WhatFieldsRead
  <2>2. Means(c, e) <=> c.value \in Ancestors(org, e)
    BY <1>9 DEF Means
  <2> HIDE DEF actual
  <2> QED
    BY <1>4, <1>9, <2>1, <2>2
<1>10. CASE c.field = "direct_report_count"
  <2>1. actual = Cardinality(ReportsOf(org, e))
    BY <1>1, <1>10, WhatFieldsRead
  <2>2. Means(c, e) <=> Compare(Cardinality(ReportsOf(org, e)), c.op, c.value)
    BY <1>10 DEF Means
  <2> HIDE DEF actual
  <2> QED
    BY <1>4, <1>10, <2>1, <2>2
<1>11. CASE c.field = "management_level"
  <2>1. actual = Cardinality(Ancestors(org, e))
    BY <1>1, <1>11, WhatFieldsRead
  <2>2. Means(c, e) <=> Compare(Cardinality(Ancestors(org, e)), c.op, c.value)
    BY <1>11 DEF Means
  <2> HIDE DEF actual
  <2> QED
    BY <1>4, <1>11, <2>1, <2>2
<1> QED
  BY <1>3, <1>6, <1>7, <1>8, <1>9, <1>10, <1>11 DEF References, Counts

\* With one request at a time every condition that a policy may have is, of every employee,
\* evaluated as what it says of the chart as it is (condition_fields.py, condition_impacts.py).
THEOREM ConditionsMeanWhatTheySay ==
    ASSUME \A s, t \in Sessions : s = t, NEW CONSTANT c, Authored(c)
    PROVE  OCSpec => []EvaluatedAsMeant(c)
<1>1. Typed /\ FactsFresh => EvaluatedAsMeant(c)
  BY FreshFactsEvaluateRight
<1> QED
  BY <1>1, TypedInv, OneRequestKeepsFactsFresh, PTL

-----------------------------------------------------------------------------
\* Clauses of conditions.

\* Positions in a product: n to a row, as in the nested loops of the compiler.
LEMMA Division ==
    ASSUME NEW n \in Nat \ {0}, NEW a \in Int
    PROVE  a \div n \in Int /\ a % n \in 0 .. n - 1 /\ a = n * (a \div n) + (a % n)
  OBVIOUS

Place(p, n, i, j) == ((p - 1) \div n) + 1 = i /\ ((p - 1) % n) + 1 = j

LEMMA PlaceOfPair ==
    ASSUME NEW m \in Nat, NEW n \in Nat, NEW i \in 1 .. m, NEW j \in 1 .. n
    PROVE  \E p \in 1 .. m * n : Place(p, n, i, j)
<1> DEFINE a == n * (i - 1) + (j - 1)
<1>1. a \in Nat /\ a + 1 <= m * n
  <2>1. n * (i - 1) + n <= m * n
    OBVIOUS
  <2>2. n * (i - 1) \in Nat
    OBVIOUS
  <2> QED
    BY <2>1, <2>2
<1>2. a \div n = i - 1 /\ a % n = j - 1
  <2> DEFINE d == a \div n  s == a % n
  <2>1. d \in Int /\ s \in 0 .. n - 1 /\ a = n * d + s
    <3>1. n \in Nat \ {0}
      OBVIOUS
    <3> HIDE DEF a
    <3> QED
      BY <1>1, <3>1, Division
  <2>2. n * d + s = n * (i - 1) + (j - 1)
    BY <2>1
  <2> HIDE DEF d, s
  <2>3. d = i - 1
    BY <2>1, <2>2
  <2>4. s = j - 1
    BY <2>1, <2>2, <2>3
  <2> QED
    BY <2>3, <2>4 DEF d, s
<1> HIDE DEF a
<1>3. (a + 1) - 1 = a /\ a + 1 \in 1 .. m * n
  BY <1>1
<1>4. Place(a + 1, n, i, j)
  BY <1>2, <1>3 DEF Place
<1> QED
  BY <1>3, <1>4

LEMMA PairAtPlace ==
    ASSUME NEW m \in Nat, NEW n \in Nat, NEW p \in 1 .. m * n
    PROVE  ((p - 1) \div n) + 1 \in 1 .. m /\ ((p - 1) % n) + 1 \in 1 .. n
<1>1. n \in Nat \ {0}
  OBVIOUS
<1> DEFINE d == (p - 1) \div n  s == (p - 1) % n
<1>2. d \in Int /\ s \in 0 .. n - 1 /\ p - 1 = n * d + s
  BY <1>1, Division
<1> HIDE DEF d, s
<1>3. d >= 0
  BY <1>1, <1>2
<1>4. d < m
  BY <1>1, <1>2
<1> QED
  BY <1>2, <1>3, <1>4 DEF d, s

\* The clauses of one operand, as the compiler has them: none is empty.
ClauseLists(C) == Seq(Seq(C) \ {<<>>})

Satisfied(clause, e, read) == \A k \in 1 .. Len(clause) : Evaluate(clause[k], e, read)

LEMMA BothHalves ==
    ASSUME NEW C, NEW a \in Seq(C), NEW b \in Seq(C), NEW e, NEW read
    PROVE  /\ a \o b \in Seq(C) /\ (b # <<>> => a \o b # <<>>)
           /\ Satisfied(a \o b, e, read) <=> Satisfied(a, e, read) /\ Satisfied(b, e, read)
<1>1. /\ a \o b \in Seq(C) /\ Len(a \o b) = Len(a) + Len(b) /\ Len(a) \in Nat /\ Len(b) \in Nat
      /\ \A k \in 1 .. Len(a) : (a \o b)[k] = a[k]
      /\ \A k \in 1 .. Len(b) : (a \o b)[Len(a) + k] = b[k]
  OBVIOUS
<1>2. b # <<>> => Len(b) > 0
  OBVIOUS
<1>3. b # <<>> => a \o b # <<>>
  BY <1>1, <1>2
<1>4. ASSUME Satisfied(a \o b, e, read)
      PROVE  Satisfied(a, e, read) /\ Satisfied(b, e, read)
  <2>1. \A k \in 1 .. Len(a) : k \in 1 .. Len(a \o b)
    BY <1>1
  <2>2. \A k \in 1 .. Len(b) : Len(a) + k \in 1 .. Len(a \o b)
    BY <1>1
  <2> QED
    BY <1>1, <1>4, <2>1, <2>2, Zenon DEF Satisfied
<1>5. ASSUME Satisfied(a, e, read), Satisfied(b, e, read)
      PROVE  Satisfied(a \o b, e, read)
  <2> SUFFICES ASSUME NEW k \in 1 .. Len(a \o b) PROVE Evaluate((a \o b)[k], e, read)
    BY DEF Satisfied
  <2>1. CASE k \in 1 .. Len(a)
    BY <1>1, <1>5, <2>1, Zenon DEF Satisfied
  <2>2. CASE k \notin 1 .. Len(a)
    <3>1. k - Len(a) \in 1 .. Len(b) /\ Len(a) + (k - Len(a)) = k
      BY <1>1, <2>2
    <3> QED
      BY <1>1, <1>5, <3>1 DEF Satisfied
  <2> QED
    BY <2>1, <2>2
<1> QED
  BY <1>1, <1>3, <1>4, <1>5

SomeSatisfied(clauses, e, read) == \E i \in 1 .. Len(clauses) : Satisfied(clauses[i], e, read)

LEMMA MatchesBySatisfied ==
    ASSUME NEW C, NEW L \in ClauseLists(C), NEW e, NEW read
    PROVE  MatchesClauses(L, e, read) <=> SomeSatisfied(L, e, read)
<1>1. \A i \in 1 .. Len(L) : L[i] # <<>>
  BY DEF ClauseLists
<1> QED
  BY <1>1, Zenon DEF MatchesClauses, Satisfied, SomeSatisfied

\* Every clause of a product is a clause of the left and one of the right, and each pair of
\* them is one: a product has no empty clause if the right has none.
LEMMA ProductSatisfied ==
    ASSUME NEW C, NEW L \in Seq(Seq(C)), NEW R \in Seq(Seq(C)), NEW e, NEW read
    PROVE  /\ Product(L, R) \in Seq(Seq(C)) /\ Len(Product(L, R)) = Len(L) * Len(R)
           /\ R \in ClauseLists(C) => Product(L, R) \in ClauseLists(C)
           /\ SomeSatisfied(Product(L, R), e, read) <=>
                SomeSatisfied(L, e, read) /\ SomeSatisfied(R, e, read)
<1> DEFINE m == Len(L)  n == Len(R)  P == Product(L, R)
<1> DEFINE row(p) == ((p - 1) \div n) + 1  column(p) == ((p - 1) % n) + 1
<1>1. m \in Nat /\ n \in Nat /\ m * n \in Nat
  OBVIOUS
<1>2. /\ \A i \in 1 .. m : L[i] \in Seq(C)
      /\ \A j \in 1 .. n : R[j] \in Seq(C)
  OBVIOUS
<1>3. P = [p \in 1 .. m * n |-> L[row(p)] \o R[column(p)]]
  BY DEF Product
<1> HIDE DEF m, n, P, row, column
<1>4. ASSUME NEW p \in 1 .. m * n
      PROVE  row(p) \in 1 .. m /\ column(p) \in 1 .. n
  BY <1>1, PairAtPlace DEF row, column
<1>5. ASSUME NEW i \in 1 .. m, NEW j \in 1 .. n
      PROVE  \E p \in 1 .. m * n : row(p) = i /\ column(p) = j
  <2>1. PICK p \in 1 .. m * n : Place(p, n, i, j)
    BY <1>1, PlaceOfPair
  <2>2. row(p) = i /\ column(p) = j
    BY <2>1 DEF Place, row, column
  <2> QED
    BY <2>2
<1>6. ASSUME NEW p \in 1 .. m * n
      PROVE  /\ P[p] \in Seq(C) /\ (R[column(p)] # <<>> => P[p] # <<>>)
             /\ Satisfied(P[p], e, read) <=>
                  Satisfied(L[row(p)], e, read) /\ Satisfied(R[column(p)], e, read)
  <2>1. P[p] = L[row(p)] \o R[column(p)]
    BY <1>3
  <2>2. L[row(p)] \in Seq(C) /\ R[column(p)] \in Seq(C)
    BY <1>2, <1>4
  <2> QED
    BY <2>1, <2>2, BothHalves
<1>7. ASSUME NEW S, \A p \in 1 .. m * n : P[p] \in S
      PROVE  P \in Seq(S) /\ Len(P) = m * n
  <2> DEFINE k == m * n
  <2>1. P = [p \in 1 .. k |-> P[p]]
    BY <1>3, Zenon
  <2>2. P \in [1 .. k -> S] /\ k \in Nat
    BY <1>1, <1>7, <2>1
  <2> HIDE DEF k
  <2>3. P \in Seq(S) /\ Len(P) = k
    BY <2>2
  <2> QED
    BY <2>3 DEF k
<1>8. P \in Seq(Seq(C)) /\ Len(P) = m * n
  BY <1>6, <1>7
<1>9. ASSUME R \in ClauseLists(C)
      PROVE  P \in ClauseLists(C)
  <2>1. \A j \in 1 .. n : R[j] # <<>>
    BY <1>9 DEF ClauseLists, n
  <2>2. \A p \in 1 .. m * n : P[p] \in Seq(C) \ {<<>>}
    BY <1>4, <1>6, <2>1
  <2> QED
    BY <1>7, <2>2 DEF ClauseLists
<1>10. (\E p \in 1 .. m * n : Satisfied(P[p], e, read)) <=>
         /\ \E i \in 1 .. m : Satisfied(L[i], e, read)
         /\ \E j \in 1 .. n : Satisfied(R[j], e, read)
  <2>1. ASSUME NEW p \in 1 .. m * n, Satisfied(P[p], e, read)
        PROVE  /\ \E i \in 1 .. m : Satisfied(L[i], e, read)
               /\ \E j \in 1 .. n : Satisfied(R[j], e, read)
    BY <1>4, <1>6, <2>1, Zenon
  <2>2. ASSUME NEW i \in 1 .. m, NEW j \in 1 .. n,
               Satisfied(L[i], e, read), Satisfied(R[j], e, read)
        PROVE  \E p \in 1 .. m * n : Satisfied(P[p], e, read)
    <3>1. PICK p \in 1 .. m * n : row(p) = i /\ column(p) = j
      BY <1>5
    <3> QED
      BY <1>6, <2>2, <3>1, Zenon
  <2> QED
    BY <2>1, <2>2, Zenon
<1> QED
  BY <1>8, <1>9, <1>10 DEF m, n, P, SomeSatisfied

\* The product of the clauses of two operands of "and" matches an employee exactly if both
\* match: "distributes" in docs/system-design.md:80, as nested loops do it.
THEOREM ProductMeansBoth ==
    ASSUME NEW C, NEW L \in ClauseLists(C), NEW R \in ClauseLists(C), NEW e, NEW read
    PROVE  /\ Product(L, R) \in ClauseLists(C) /\ Len(Product(L, R)) = Len(L) * Len(R)
           /\ MatchesClauses(Product(L, R), e, read) <=>
                MatchesClauses(L, e, read) /\ MatchesClauses(R, e, read)
<1>1. L \in Seq(Seq(C)) /\ R \in Seq(Seq(C))
  BY DEF ClauseLists
<1> QED
  BY <1>1, ProductSatisfied, MatchesBySatisfied

\* The clauses of two operands of "or", one list after the other, match an employee exactly
\* if one of them does.
THEOREM ConcatenationMeansEither ==
    ASSUME NEW C, NEW L \in ClauseLists(C), NEW R \in ClauseLists(C), NEW e, NEW read
    PROVE  /\ L \o R \in ClauseLists(C)
           /\ MatchesClauses(L \o R, e, read) <=>
                MatchesClauses(L, e, read) \/ MatchesClauses(R, e, read)
<1>1. /\ L \o R \in ClauseLists(C) /\ Len(L \o R) = Len(L) + Len(R)
      /\ Len(L) \in Nat /\ Len(R) \in Nat
      /\ \A k \in 1 .. Len(L) : (L \o R)[k] = L[k]
      /\ \A k \in 1 .. Len(R) : (L \o R)[Len(L) + k] = R[k]
  BY DEF ClauseLists
<1>2. /\ MatchesClauses(L \o R, e, read) <=>
           \E i \in 1 .. Len(L \o R) : Satisfied((L \o R)[i], e, read)
      /\ MatchesClauses(L, e, read) <=> \E i \in 1 .. Len(L) : Satisfied(L[i], e, read)
      /\ MatchesClauses(R, e, read) <=> \E i \in 1 .. Len(R) : Satisfied(R[i], e, read)
  BY <1>1, MatchesBySatisfied DEF SomeSatisfied
<1>3. ASSUME NEW i \in 1 .. Len(L \o R), Satisfied((L \o R)[i], e, read)
      PROVE  \/ \E k \in 1 .. Len(L) : Satisfied(L[k], e, read)
             \/ \E k \in 1 .. Len(R) : Satisfied(R[k], e, read)
  <2>1. CASE i \in 1 .. Len(L)
    BY <1>1, <1>3, <2>1, Zenon
  <2>2. CASE i \notin 1 .. Len(L)
    <3>1. i - Len(L) \in 1 .. Len(R) /\ Len(L) + (i - Len(L)) = i
      BY <1>1, <2>2
    <3>2. (L \o R)[i] = R[i - Len(L)]
      BY <1>1, <3>1
    <3> QED
      BY <1>3, <3>1, <3>2, Zenon
  <2> QED
    BY <2>1, <2>2
<1>4. ASSUME NEW k \in 1 .. Len(L), Satisfied(L[k], e, read)
      PROVE  \E i \in 1 .. Len(L \o R) : Satisfied((L \o R)[i], e, read)
  <2>1. k \in 1 .. Len(L \o R)
    BY <1>1
  <2> QED
    BY <1>1, <1>4, <2>1, Zenon
<1>5. ASSUME NEW k \in 1 .. Len(R), Satisfied(R[k], e, read)
      PROVE  \E i \in 1 .. Len(L \o R) : Satisfied((L \o R)[i], e, read)
  <2>1. Len(L) + k \in 1 .. Len(L \o R)
    BY <1>1
  <2> QED
    BY <1>1, <1>5, <2>1, Zenon
<1> QED
  BY <1>1, <1>2, <1>3, <1>4, <1>5, Zenon

-----------------------------------------------------------------------------
\* Induction, and recursive definitions.

\* A set of numbers has a least one.
LEMMA Least ==
    ASSUME NEW T, T \subseteq Nat, T # {}
    PROVE  \E n \in T : \A k \in T : n <= k
<1> DEFINE R == OpToRel(<, Nat)
<1>1. IsWellFoundedOn(R, Nat)
  BY NatLessThanWellFounded
<1>2. R = {ss \in Nat \X Nat : ss[1] < ss[2]}
  BY DEF OpToRel
<1> HIDE DEF R
<1>3. PICK n \in T : \A k \in T : ~ (<<k, n>> \in R)
  BY <1>1, WFMin
<1>4. \A k \in T : k < n => <<k, n>> \in R
  BY <1>2
<1>5. \A k \in T : ~ (k < n)
  BY <1>3, <1>4, Zenon
<1>6. \A k \in T : k \in Nat /\ n \in Nat
  OBVIOUS
<1> QED
  BY <1>5, <1>6

\* Induction on the positions of a sequence, and on the groups: what holds of a group if it
\* holds of those of earlier levels holds of every group.
LEMMA IntervalInduction ==
    ASSUME NEW n \in Nat, NEW S, 0 \in S, \A k \in 1 .. n : k - 1 \in S => k \in S
    PROVE  \A k \in 0 .. n : k \in S
<1> DEFINE T == {k \in 0 .. n : k \notin S}
<1> SUFFICES ASSUME T # {} PROVE FALSE
  OBVIOUS
<1>1. T \subseteq Nat
  OBVIOUS
<1> HIDE DEF T
<1>2. PICK m \in T : \A k \in T : m <= k
  BY <1>1, Least
<1>3. m \in 0 .. n /\ m \notin S
  BY <1>2 DEF T
<1>4. m \in 1 .. n /\ m - 1 \in 0 .. n /\ ~ (m <= m - 1)
  BY <1>3
<1>5. m - 1 \in S
  BY <1>2, <1>4 DEF T
<1> QED
  BY <1>3, <1>4, <1>5

LEMMA GroupInduction ==
    ASSUME NEW S,
           \A n \in 1 .. Len(Levels) : \A g \in Levels[n] : Earlier(n) \subseteq S => g \in S
    PROVE  Groups \subseteq S
<1>1. Len(Levels) \in Nat
  BY LevelsAssumption
<1> DEFINE T == {n \in 1 .. Len(Levels) : ~ (Levels[n] \subseteq S)}
<1> SUFFICES ASSUME T # {} PROVE FALSE
  BY DEF Groups
<1>2. T \subseteq Nat
  BY <1>1
<1> HIDE DEF T
<1>3. PICK m \in T : \A k \in T : m <= k
  BY <1>2, Least
<1>4. m \in 1 .. Len(Levels) /\ ~ (Levels[m] \subseteq S)
  BY <1>3 DEF T
<1>5. ASSUME NEW k \in 1 .. m - 1
      PROVE  Levels[k] \subseteq S
  <2>1. k \in 1 .. Len(Levels) /\ ~ (m <= k)
    BY <1>1, <1>4
  <2> QED
    BY <1>3, <2>1 DEF T
<1>6. Earlier(m) \subseteq S
  BY <1>5 DEF Earlier
<1> QED
  BY <1>4, <1>6

\* The functions that a recursive definition speaks of exist, so that they are what it says:
\* along a sequence, and over the groups.
Recursion(n, V, base, step) ==
    n \in Nat /\ base \in V /\ step \in [(1 .. n) \X V -> V]

Follows(f, n, base, step) ==
    f[0] = base /\ \A k \in 1 .. n : f[k] = step[<<k, f[k - 1]>>]

LEMMA SequenceRecursion ==
    ASSUME NEW n, NEW V, NEW base, NEW step, Recursion(n, V, base, step)
    PROVE  \E f \in [0 .. n -> V] : Follows(f, n, base, step)
<1> DEFINE Upto(m, f) == f[0] = base /\ \A k \in 1 .. m : f[k] = step[<<k, f[k - 1]>>]
           S == {m \in 0 .. n : \E f \in [0 .. n -> V] : Upto(m, f)}
<1> USE DEF Recursion
<1>1. 0 \in S
  <2> DEFINE f == [k \in 0 .. n |-> base]
  <2>1. f \in [0 .. n -> V] /\ f[0] = base
    OBVIOUS
  <2> HIDE DEF f
  <2> QED
    BY <2>1
<1>2. ASSUME NEW m \in 1 .. n, m - 1 \in S
      PROVE  m \in S
  <2>1. PICK f \in [0 .. n -> V] : Upto(m - 1, f)
    BY <1>2
  <2> DEFINE last == step[<<m, f[m - 1]>>]
             h == [f EXCEPT ![m] = last]
  <2>2. m - 1 \in 0 .. n /\ m \in 0 .. n /\ m # 0
    OBVIOUS
  <2>3. last \in V
    BY <2>2
  <2> HIDE DEF last
  <2>4. h \in [0 .. n -> V] /\ h[m] = last /\ \A k \in 0 .. n : k # m => h[k] = f[k]
    BY <2>2, <2>3
  <2> HIDE DEF h
  <2>5. h[0] = base
    BY <2>1, <2>2, <2>4
  <2>6. ASSUME NEW k \in 1 .. m
        PROVE  h[k] = step[<<k, h[k - 1]>>]
    <3>1. k - 1 \in 0 .. n /\ k - 1 # m /\ k \in 0 .. n
      OBVIOUS
    <3>2. h[k - 1] = f[k - 1]
      BY <2>4, <3>1
    <3>3. CASE k = m
      BY <2>4, <3>2, <3>3 DEF last
    <3>4. CASE k # m
      <4>1. k \in 1 .. m - 1
        BY <3>4
      <4>2. f[k] = step[<<k, f[k - 1]>>]
        BY <2>1, <4>1
      <4> QED
        BY <2>4, <3>1, <3>2, <3>4, <4>2
    <3> QED
      BY <3>3, <3>4
  <2> QED
    BY <2>2, <2>4, <2>5, <2>6
<1> HIDE DEF S
<1>3. n \in S
  BY <1>1, <1>2, IntervalInduction
<1> QED
  BY <1>3 DEF S, Follows

LEMMA GroupRecursion ==
    ASSUME NEW V, V # {}, NEW step \in [[Groups -> V] -> [Groups -> V]],
           \A n \in 1 .. Len(Levels) : \A g \in Levels[n] : \A f, h \in [Groups -> V] :
              (\A x \in Earlier(n) : f[x] = h[x]) => step[f][g] = step[h][g]
    PROVE  \E f \in [Groups -> V] : f = step[f]
<1> DEFINE N == Len(Levels)
           Upto(m, f) == \A k \in 1 .. m : \A g \in Levels[k] : f[g] = step[f][g]
           S == {m \in 0 .. N : \E f \in [Groups -> V] : Upto(m, f)}
<1>1. N \in Nat /\ \A k \in 1 .. N : Levels[k] \subseteq Groups
  BY LevelsAssumption DEF Groups
<1> HIDE DEF N
<1>2. 0 \in S
  <2>1. PICK v \in V : TRUE
    OBVIOUS
  <2> DEFINE f == [g \in Groups |-> v]
  <2>2. f \in [Groups -> V]
    OBVIOUS
  <2> HIDE DEF f
  <2>3. 0 \in 0 .. N /\ Upto(0, f)
    BY <1>1
  <2> QED
    BY <2>2, <2>3
<1>3. ASSUME NEW m \in 1 .. N, m - 1 \in S
      PROVE  m \in S
  <2>1. PICK f \in [Groups -> V] : Upto(m - 1, f)
    BY <1>3
  <2>2. step[f] \in [Groups -> V]
    OBVIOUS
  <2>3. ASSUME NEW k \in 1 .. m, NEW g \in Levels[k]
        PROVE  step[f][g] = step[step[f]][g]
    <3>1. k \in 1 .. N
      BY <1>1
    <3>2. ASSUME NEW x \in Earlier(k)
          PROVE  f[x] = step[f][x]
      <4>1. PICK j \in 1 .. k - 1 : x \in Levels[j]
        BY <3>2 DEF Earlier
      <4>2. j \in 1 .. m - 1
        BY <1>1
      <4> QED
        BY <2>1, <4>1, <4>2
    <3> QED
      BY <2>2, <3>1, <3>2 DEF N
  <2>4. m \in 0 .. N
    BY <1>1
  <2> QED
    BY <2>2, <2>3, <2>4
<1> HIDE DEF S
<1>4. N \in S
  BY <1>1, <1>2, <1>3, IntervalInduction
<1>5. PICK f \in [Groups -> V] : Upto(N, f)
  BY <1>4 DEF S
<1>6. \A g \in Groups : f[g] = step[f][g]
  BY <1>5 DEF Groups, N
<1>7. step[f] \in [Groups -> V]
  OBVIOUS
<1> QED
  BY <1>6, <1>7

-----------------------------------------------------------------------------
\* What the sums and products of the compiler are made of, position by position.
LEMMA TotalUnfolds ==
    ASSUME NEW ns \in Seq(Nat)
    PROVE  \E u \in [0 .. Len(ns) -> Nat] :
              /\ u[0] = 0 /\ \A k \in 1 .. Len(ns) : u[k] = u[k - 1] + ns[k]
              /\ Total(ns) = u[Len(ns)]
<1> DEFINE n == Len(ns)
           sums(u) == [k \in 0 .. n |-> IF k = 0 THEN 0 ELSE u[k - 1] + ns[k]]
           some == CHOOSE u : u = sums(u)
           step == [p \in (1 .. n) \X Nat |-> p[2] + ns[p[1]]]
<1>1. n \in Nat /\ \A k \in 1 .. n : ns[k] \in Nat
  OBVIOUS
<1>2. Total(ns) = some[n]
  BY DEF Total
<1> HIDE DEF n
<1>3. step \in [(1 .. n) \X Nat -> Nat]
  BY <1>1
<1>4. \A k \in 1 .. n : \A v \in Nat : step[<<k, v>>] = v + ns[k]
  OBVIOUS
<1>5. \E u : u = sums(u)
  <2> DEFINE base == 0  V == Nat
  <2>0. Recursion(n, V, base, step)
    BY <1>1, <1>3 DEF Recursion
  <2> HIDE DEF step, base, V
  <2>1. PICK u \in [0 .. n -> V] : Follows(u, n, base, step)
    BY <2>0, SequenceRecursion
  <2>2. ASSUME NEW k \in 1 .. n
        PROVE  u[k] = u[k - 1] + ns[k]
    <3>1. k - 1 \in 0 .. n
      BY <1>1
    <3>2. u[k - 1] \in Nat
      BY <3>1 DEF V
    <3> QED
      BY <1>4, <2>1, <3>2 DEF Follows
  <2>3. u = sums(u)
    BY <1>1, <2>1, <2>2 DEF Follows, base, V
  <2> QED
    BY <2>3
<1> HIDE DEF step
<1>6. some = sums(some)
  BY <1>5
<1> HIDE DEF some
<1>7. /\ some[0] = 0 /\ \A k \in 1 .. n : some[k] = some[k - 1] + ns[k]
  <2>1. 0 \in 0 .. n /\ \A k \in 1 .. n : k \in 0 .. n /\ k # 0
    BY <1>1
  <2> QED
    BY <1>6, <2>1, Zenon
<1>8. \A k \in 0 .. n : some[k] \in Nat
  <2> DEFINE S == {k \in 0 .. n : some[k] \in Nat}
  <2>1. 0 \in S
    BY <1>1, <1>7
  <2>2. ASSUME NEW k \in 1 .. n, k - 1 \in S
        PROVE  k \in S
    <3>1. some[k - 1] \in Nat /\ ns[k] \in Nat /\ k \in 0 .. n
      BY <1>1, <2>2
    <3> QED
      BY <1>7, <3>1
  <2> HIDE DEF S
  <2>3. \A k \in 0 .. n : k \in S
    BY <1>1, <2>1, <2>2, IntervalInduction
  <2> QED
    BY <2>3 DEF S
<1>9. some = [k \in 0 .. n |-> some[k]]
  BY <1>6, Zenon
<1>10. some \in [0 .. n -> Nat]
  BY <1>8, <1>9
<1> QED
  BY <1>2, <1>7, <1>10 DEF n

LEMMA TimesUnfolds ==
    ASSUME NEW ns \in Seq(Nat)
    PROVE  \E u \in [0 .. Len(ns) -> Nat] :
              /\ u[0] = 1 /\ \A k \in 1 .. Len(ns) : u[k] = u[k - 1] * ns[k]
              /\ Times(ns) = u[Len(ns)]
<1> DEFINE n == Len(ns)
           products(u) == [k \in 0 .. n |-> IF k = 0 THEN 1 ELSE u[k - 1] * ns[k]]
           some == CHOOSE u : u = products(u)
           step == [p \in (1 .. n) \X Nat |-> p[2] * ns[p[1]]]
<1>1. n \in Nat /\ \A k \in 1 .. n : ns[k] \in Nat
  OBVIOUS
<1>2. Times(ns) = some[n]
  BY DEF Times
<1> HIDE DEF n
<1>3. step \in [(1 .. n) \X Nat -> Nat]
  BY <1>1
<1>4. \A k \in 1 .. n : \A v \in Nat : step[<<k, v>>] = v * ns[k]
  OBVIOUS
<1>5. \E u : u = products(u)
  <2> DEFINE base == 1  V == Nat
  <2>0. Recursion(n, V, base, step)
    BY <1>1, <1>3 DEF Recursion
  <2> HIDE DEF step, base, V
  <2>1. PICK u \in [0 .. n -> V] : Follows(u, n, base, step)
    BY <2>0, SequenceRecursion
  <2>2. ASSUME NEW k \in 1 .. n
        PROVE  u[k] = u[k - 1] * ns[k]
    <3>1. k - 1 \in 0 .. n
      BY <1>1
    <3>2. u[k - 1] \in Nat
      BY <3>1 DEF V
    <3> QED
      BY <1>4, <2>1, <3>2 DEF Follows
  <2>3. u = products(u)
    BY <1>1, <2>1, <2>2 DEF Follows, base, V
  <2> QED
    BY <2>3
<1> HIDE DEF step
<1>6. some = products(some)
  BY <1>5
<1> HIDE DEF some
<1>7. /\ some[0] = 1 /\ \A k \in 1 .. n : some[k] = some[k - 1] * ns[k]
  <2>1. 0 \in 0 .. n /\ \A k \in 1 .. n : k \in 0 .. n /\ k # 0
    BY <1>1
  <2> QED
    BY <1>6, <2>1, Zenon
<1>8. \A k \in 0 .. n : some[k] \in Nat
  <2> DEFINE S == {k \in 0 .. n : some[k] \in Nat}
  <2>1. 0 \in S
    BY <1>1, <1>7
  <2>2. ASSUME NEW k \in 1 .. n, k - 1 \in S
        PROVE  k \in S
    <3>1. some[k - 1] \in Nat /\ ns[k] \in Nat /\ k \in 0 .. n
      BY <1>1, <2>2
    <3> QED
      BY <1>7, <3>1
  <2> HIDE DEF S
  <2>3. \A k \in 0 .. n : k \in S
    BY <1>1, <2>1, <2>2, IntervalInduction
  <2> QED
    BY <2>3 DEF S
<1>9. some = [k \in 0 .. n |-> some[k]]
  BY <1>6, Zenon
<1>10. some \in [0 .. n -> Nat]
  BY <1>8, <1>9
<1> QED
  BY <1>2, <1>7, <1>10 DEF n

\* No operand has more clauses than its group.
LEMMA TotalBounds ==
    ASSUME NEW ns \in Seq(Nat)
    PROVE  Total(ns) \in Nat /\ \A k \in 1 .. Len(ns) : ns[k] <= Total(ns)
<1> DEFINE n == Len(ns)
<1>1. n \in Nat /\ \A k \in 1 .. n : ns[k] \in Nat
  OBVIOUS
<1>2. PICK u \in [0 .. n -> Nat] :
         /\ u[0] = 0 /\ \A k \in 1 .. n : u[k] = u[k - 1] + ns[k]
         /\ Total(ns) = u[n]
  BY TotalUnfolds
<1> DEFINE S == {m \in 0 .. n : \A k \in 1 .. m : ns[k] <= u[m]}
<1> HIDE DEF n
<1>3. 0 \in S
  BY <1>1
<1>4. ASSUME NEW m \in 1 .. n, m - 1 \in S
      PROVE  m \in S
  <2>1. u[m] = u[m - 1] + ns[m] /\ u[m - 1] \in Nat /\ ns[m] \in Nat
    BY <1>1, <1>2
  <2>2. ASSUME NEW k \in 1 .. m
        PROVE  ns[k] <= u[m]
    <3>1. CASE k = m
      BY <2>1, <3>1
    <3>2. CASE k # m
      <4>1. k \in 1 .. m - 1 /\ k \in 1 .. n
        BY <1>1, <3>2
      <4>2. ns[k] <= u[m - 1] /\ ns[k] \in Nat
        BY <1>1, <1>4, <4>1
      <4> QED
        BY <2>1, <4>2
    <3> QED
      BY <3>1, <3>2
  <2> QED
    BY <1>1, <2>2
<1> HIDE DEF S
<1>5. \A m \in 0 .. n : m \in S
  BY <1>1, <1>3, <1>4, IntervalInduction
<1>6. u[n] \in Nat /\ \A k \in 1 .. n : ns[k] <= u[n]
  BY <1>1, <1>5 DEF S
<1> QED
  BY <1>2, <1>6 DEF n

LEMMA ProductOfPositive ==
    ASSUME NEW a \in Nat \ {0}, NEW b \in Nat \ {0}
    PROVE  a * b \in Nat \ {0} /\ a <= a * b /\ b <= a * b
  OBVIOUS

\* Nor has any part of the operands, when there is a clause in each.
LEMMA TimesBounds ==
    ASSUME NEW ns \in Seq(Nat \ {0}), NEW u \in [0 .. Len(ns) -> Nat],
           u[0] = 1, \A k \in 1 .. Len(ns) : u[k] = u[k - 1] * ns[k]
    PROVE  /\ \A k \in 0 .. Len(ns) : u[k] \in Nat \ {0} /\ u[k] <= u[Len(ns)]
           /\ \A k \in 1 .. Len(ns) : ns[k] <= u[Len(ns)]
<1> DEFINE n == Len(ns)
<1>1. n \in Nat /\ \A k \in 1 .. n : ns[k] \in Nat \ {0}
  OBVIOUS
<1>2. u[0] = 1 /\ \A k \in 1 .. n : u[k] = u[k - 1] * ns[k]
  OBVIOUS
<1>3. u \in [0 .. n -> Nat]
  OBVIOUS
<1> DEFINE S == {m \in 0 .. n : /\ u[m] # 0
                                /\ \A k \in 0 .. m : u[k] <= u[m]
                                /\ \A k \in 1 .. m : ns[k] <= u[m]}
<1> HIDE DEF n
<1>4. 0 \in S
  BY <1>1, <1>2
<1>5. ASSUME NEW m \in 1 .. n, m - 1 \in S
      PROVE  m \in S
  <2>1. u[m] = u[m - 1] * ns[m] /\ u[m - 1] \in Nat \ {0} /\ ns[m] \in Nat \ {0}
    BY <1>1, <1>2, <1>3, <1>5
  <2>2. u[m] \in Nat \ {0} /\ u[m - 1] <= u[m] /\ ns[m] <= u[m]
    BY <2>1, ProductOfPositive
  <2>3. ASSUME NEW k \in 0 .. m
        PROVE  u[k] <= u[m] /\ (k # 0 => ns[k] <= u[m])
    <3>1. CASE k = m
      BY <2>2, <3>1
    <3>2. CASE k # m
      <4>1. k \in 0 .. m - 1 /\ k \in 0 .. n
        BY <1>1, <3>2
      <4>2. u[k] <= u[m - 1] /\ u[k] \in Nat /\ (k # 0 => ns[k] <= u[m - 1] /\ ns[k] \in Nat)
        <5>1. k # 0 => k \in 1 .. m - 1 /\ k \in 1 .. n
          BY <4>1
        <5> QED
          BY <1>1, <1>3, <1>5, <4>1, <5>1
      <4> QED
        BY <2>1, <2>2, <4>2
    <3> QED
      BY <3>1, <3>2
  <2>4. m \in 0 .. n /\ \A k \in 1 .. m : k \in 0 .. m /\ k # 0
    BY <1>1
  <2> QED
    BY <2>2, <2>3, <2>4
<1> HIDE DEF S
<1>6. \A m \in 0 .. n : m \in S
  BY <1>1, <1>4, <1>5, IntervalInduction
<1>7. n \in S /\ \A m \in 0 .. n : u[m] # 0
  BY <1>1, <1>6 DEF S
<1> QED
  BY <1>1, <1>3, <1>7 DEF S, n

LEMMA AllClausesUnfolds ==
    ASSUME NEW X, NEW operands \in Seq(Seq(X))
    PROVE  \E u \in [0 .. Len(operands) -> Seq(X)] :
              /\ u[0] = <<>> /\ \A k \in 1 .. Len(operands) : u[k] = u[k - 1] \o operands[k]
              /\ AllClauses(operands) = u[Len(operands)]
<1> DEFINE n == Len(operands)
           V == Seq(X)
           base == <<>>
           lists(u) == [k \in 0 .. n |-> IF k = 0 THEN base ELSE u[k - 1] \o operands[k]]
           some == CHOOSE u : u = lists(u)
           step == [p \in (1 .. n) \X V |-> p[2] \o operands[p[1]]]
<1>1. AllClauses(operands) = some[n]
  BY DEF AllClauses
<1>2. n \in Nat /\ base \in V
  OBVIOUS
<1> HIDE DEF n, base
<1>3. \A k \in 1 .. n : operands[k] \in V
  BY DEF n
<1>4. \A v, w \in V : v \o w \in V
  OBVIOUS
<1> HIDE DEF V
<1>5. step \in [(1 .. n) \X V -> V]
  BY <1>3, <1>4
<1>6. \A k \in 1 .. n : \A v \in V : step[<<k, v>>] = v \o operands[k]
  OBVIOUS
<1> HIDE DEF step
<1>7. \E u : u = lists(u)
  <2>1. PICK u \in [0 .. n -> V] : Follows(u, n, base, step)
    BY <1>2, <1>5, SequenceRecursion DEF Recursion
  <2>2. ASSUME NEW k \in 1 .. n
        PROVE  u[k] = u[k - 1] \o operands[k]
    <3>1. k - 1 \in 0 .. n
      BY <1>2
    <3>2. u[k - 1] \in V
      BY <3>1
    <3> QED
      BY <1>6, <2>1, <3>2 DEF Follows
  <2>3. ASSUME NEW k \in 0 .. n
        PROVE  u[k] = IF k = 0 THEN base ELSE u[k - 1] \o operands[k]
    <3>1. k = 0 \/ k \in 1 .. n
      BY <1>2
    <3>2. u[0] = base
      BY <2>1 DEF Follows
    <3> QED
      BY <2>2, <3>1, <3>2, Zenon
  <2>4. u = lists(u)
    BY <2>3, Zenon
  <2> QED
    BY <2>4
<1>8. some = lists(some)
  BY <1>7
<1> HIDE DEF some
<1>9. some[0] = base /\ \A k \in 1 .. n : some[k] = some[k - 1] \o operands[k]
  <2>1. 0 \in 0 .. n /\ \A k \in 1 .. n : k \in 0 .. n /\ k # 0
    BY <1>2
  <2> QED
    BY <1>8, <2>1, Zenon
<1>10. \A k \in 0 .. n : some[k] \in V
  <2> DEFINE S == {k \in 0 .. n : some[k] \in V}
  <2>1. 0 \in S
    BY <1>2, <1>9
  <2>2. ASSUME NEW k \in 1 .. n, k - 1 \in S
        PROVE  k \in S
    <3>1. some[k - 1] \in V /\ operands[k] \in V /\ k \in 0 .. n
      BY <1>2, <1>3, <2>2
    <3> QED
      BY <1>4, <1>9, <3>1
  <2> HIDE DEF S
  <2>3. \A k \in 0 .. n : k \in S
    BY <1>2, <2>1, <2>2, IntervalInduction
  <2> QED
    BY <2>3 DEF S
<1>11. some = [k \in 0 .. n |-> some[k]]
  BY <1>8, Zenon
<1>12. some \in [0 .. n -> V]
  BY <1>10, <1>11
<1> QED
  BY <1>1, <1>9, <1>12 DEF n, V, base

LEMMA ProductUnfolds ==
    ASSUME NEW C, NEW operands \in Seq(Seq(Seq(C)))
    PROVE  \E u \in [0 .. Len(operands) -> Seq(Seq(C))] :
              /\ u[0] = << <<>> >>
              /\ \A k \in 1 .. Len(operands) : u[k] = Limited(Product(u[k - 1], operands[k]))
              /\ ProductOfClauses(operands) = u[Len(operands)]
<1> DEFINE n == Len(operands)
           V == Seq(Seq(C))
           base == << <<>> >>
           lists(u) == [k \in 0 .. n |->
                           IF k = 0 THEN base ELSE Limited(Product(u[k - 1], operands[k]))]
           some == CHOOSE u : u = lists(u)
           step == [p \in (1 .. n) \X V |-> Limited(Product(p[2], operands[p[1]]))]
<1>1. ProductOfClauses(operands) = some[n]
  BY DEF ProductOfClauses
<1>2. n \in Nat /\ base \in V
  OBVIOUS
<1> HIDE DEF n, base
<1>3. \A k \in 1 .. n : operands[k] \in V
  BY DEF n
<1>4. \A v, w \in V : Limited(Product(v, w)) \in V
  <2> SUFFICES ASSUME NEW v \in V, NEW w \in V
               PROVE  Limited(Product(v, w)) \in V
    OBVIOUS
  <2>1. Product(v, w) \in V
    BY ProductSatisfied
  <2> QED
    BY <2>1 DEF Limited, Rejected
<1> HIDE DEF V
<1>5. step \in [(1 .. n) \X V -> V]
  BY <1>3, <1>4
<1>6. \A k \in 1 .. n : \A v \in V : step[<<k, v>>] = Limited(Product(v, operands[k]))
  OBVIOUS
<1> HIDE DEF step
<1>7. \E u : u = lists(u)
  <2>1. PICK u \in [0 .. n -> V] : Follows(u, n, base, step)
    BY <1>2, <1>5, SequenceRecursion DEF Recursion
  <2>2. ASSUME NEW k \in 1 .. n
        PROVE  u[k] = Limited(Product(u[k - 1], operands[k]))
    <3>1. k - 1 \in 0 .. n
      BY <1>2
    <3>2. u[k - 1] \in V
      BY <3>1
    <3> QED
      BY <1>6, <2>1, <3>2 DEF Follows
  <2>3. ASSUME NEW k \in 0 .. n
        PROVE  u[k] = IF k = 0 THEN base ELSE Limited(Product(u[k - 1], operands[k]))
    <3>1. k = 0 \/ k \in 1 .. n
      BY <1>2
    <3>2. u[0] = base
      BY <2>1 DEF Follows
    <3> QED
      BY <2>2, <3>1, <3>2, Zenon
  <2>4. u = lists(u)
    BY <2>3, Zenon
  <2> QED
    BY <2>4
<1>8. some = lists(some)
  BY <1>7
<1> HIDE DEF some
<1>9. some[0] = base /\ \A k \in 1 .. n : some[k] = Limited(Product(some[k - 1], operands[k]))
  <2>1. 0 \in 0 .. n /\ \A k \in 1 .. n : k \in 0 .. n /\ k # 0
    BY <1>2
  <2> QED
    BY <1>8, <2>1, Zenon
<1>10. \A k \in 0 .. n : some[k] \in V
  <2> DEFINE S == {k \in 0 .. n : some[k] \in V}
  <2>1. 0 \in S
    BY <1>2, <1>9
  <2>2. ASSUME NEW k \in 1 .. n, k - 1 \in S
        PROVE  k \in S
    <3>1. some[k - 1] \in V /\ operands[k] \in V /\ k \in 0 .. n
      BY <1>2, <1>3, <2>2
    <3> QED
      BY <1>4, <1>9, <3>1
  <2> HIDE DEF S
  <2>3. \A k \in 0 .. n : k \in S
    BY <1>2, <2>1, <2>2, IntervalInduction
  <2> QED
    BY <2>3 DEF S
<1>11. some = [k \in 0 .. n |-> some[k]]
  BY <1>8, Zenon
<1>12. some \in [0 .. n -> V]
  BY <1>10, <1>11
<1> QED
  BY <1>1, <1>9, <1>12 DEF n, V, base

Lengths(operands) == [k \in 1 .. Len(operands) |-> Len(operands[k])]

\* The clauses of the operands of "or" are as many as theirs together, and match an employee
\* exactly if those of one operand do.
LEMMA AnyOperand ==
    ASSUME NEW C, NEW operands \in Seq(ClauseLists(C)), NEW e, NEW read
    PROVE  /\ AllClauses(operands) \in ClauseLists(C)
           /\ Len(AllClauses(operands)) = Total(Lengths(operands))
           /\ MatchesClauses(AllClauses(operands), e, read) <=>
                \E k \in 1 .. Len(operands) : MatchesClauses(operands[k], e, read)
<1> DEFINE n == Len(operands)
           V == ClauseLists(C)
           matches(k) == \E j \in 1 .. k : MatchesClauses(operands[j], e, read)
<1>1. n \in Nat /\ \A k \in 1 .. n : operands[k] \in V
  OBVIOUS
<1>2. PICK u \in [0 .. n -> V] :
         /\ u[0] = <<>> /\ \A k \in 1 .. n : u[k] = u[k - 1] \o operands[k]
         /\ AllClauses(operands) = u[n]
  BY AllClausesUnfolds DEF ClauseLists
<1>3. \A k \in 1 .. n : Len(operands[k]) \in Nat
  BY <1>1 DEF ClauseLists
<1>4. /\ Lengths(operands) \in Seq(Nat) /\ Len(Lengths(operands)) = n
      /\ \A k \in 1 .. n : Lengths(operands)[k] = Len(operands[k])
  BY <1>1, <1>3 DEF Lengths
<1>5. PICK t \in [0 .. n -> Nat] :
         /\ t[0] = 0 /\ \A k \in 1 .. n : t[k] = t[k - 1] + Len(operands[k])
         /\ Total(Lengths(operands)) = t[n]
  BY <1>4, TotalUnfolds
<1> HIDE DEF n, V
<1> DEFINE S == {k \in 0 .. n : Len(u[k]) = t[k] /\ (MatchesClauses(u[k], e, read) <=> matches(k))}
<1>6. 0 \in S
  <2>1. ~ MatchesClauses(<<>>, e, read) /\ Len(<<>>) = 0 /\ 0 \in 0 .. n /\ ~ matches(0)
    BY <1>1 DEF MatchesClauses
  <2> QED
    BY <1>2, <1>5, <2>1
<1>7. ASSUME NEW k \in 1 .. n, k - 1 \in S
      PROVE  k \in S
  <2>1. /\ u[k - 1] \in V /\ operands[k] \in V /\ k \in 0 .. n
        /\ u[k] = u[k - 1] \o operands[k] /\ t[k] = t[k - 1] + Len(operands[k])
    <3>1. k - 1 \in 0 .. n /\ k \in 0 .. n
      BY <1>1
    <3>2. u[k - 1] \in V /\ operands[k] \in V
      BY <1>1, <3>1
    <3>3. u[k] = u[k - 1] \o operands[k]
      BY <1>2
    <3>4. t[k] = t[k - 1] + Len(operands[k])
      BY <1>5
    <3> QED
      BY <3>1, <3>2, <3>3, <3>4
  <2>2. Len(u[k - 1]) = t[k - 1] /\ (MatchesClauses(u[k - 1], e, read) <=> matches(k - 1))
    BY <1>7
  <2>3. Len(u[k - 1] \o operands[k]) = Len(u[k - 1]) + Len(operands[k])
    BY <2>1 DEF V, ClauseLists
  <2>4. MatchesClauses(u[k - 1] \o operands[k], e, read) <=>
          MatchesClauses(u[k - 1], e, read) \/ MatchesClauses(operands[k], e, read)
    BY <2>1, ConcatenationMeansEither DEF V
  <2>5. matches(k) <=> matches(k - 1) \/ MatchesClauses(operands[k], e, read)
    <3>1. \A j : j \in 1 .. k <=> j \in 1 .. k - 1 \/ j = k
      BY <1>1
    <3> QED
      BY <3>1, Zenon
  <2>6. Len(u[k]) = t[k]
    BY <2>1, <2>2, <2>3
  <2>7. MatchesClauses(u[k], e, read) <=> matches(k)
    BY <2>1, <2>2, <2>4, <2>5
  <2> QED
    BY <2>1, <2>6, <2>7
<1> HIDE DEF S
<1>8. \A k \in 0 .. n : k \in S
  BY <1>1, <1>6, <1>7, IntervalInduction
<1>9. n \in S /\ u[n] \in V
  BY <1>1, <1>8
<1>10. Len(u[n]) = t[n] /\ (MatchesClauses(u[n], e, read) <=> matches(n))
  BY <1>9 DEF S
<1> QED
  BY <1>2, <1>5, <1>9, <1>10 DEF V, n

\* The clauses of the operands of "and" are as many as the product of theirs, and match an
\* employee exactly if those of each operand do.  They are never rejected on the way when
\* their number is within the limit, as each operand has a clause.
LEMMA EveryOperand ==
    ASSUME NEW C, NEW operands \in Seq(ClauseLists(C) \ {<<>>}), operands # <<>>,
           Times(Lengths(operands)) <= MaxClauses, NEW e, NEW read
    PROVE  /\ ProductOfClauses(operands) \in ClauseLists(C)
           /\ Len(ProductOfClauses(operands)) = Times(Lengths(operands))
           /\ MatchesClauses(ProductOfClauses(operands), e, read) <=>
                \A k \in 1 .. Len(operands) : MatchesClauses(operands[k], e, read)
<1> DEFINE n == Len(operands)
           V == Seq(Seq(C))
           matches(k) == \A j \in 1 .. k : MatchesClauses(operands[j], e, read)
<1>1. n \in Nat \ {0} /\ \A k \in 1 .. n : operands[k] \in ClauseLists(C) \ {<<>>}
  OBVIOUS
<1>2. operands \in Seq(V) /\ \A k \in 1 .. n : operands[k] \in V
  <2>1. ClauseLists(C) \ {<<>>} \subseteq V
    BY DEF ClauseLists
  <2>2. \A T, W : T \subseteq W => Seq(T) \subseteq Seq(W)
    OBVIOUS
  <2> HIDE DEF V
  <2>3. operands \in Seq(V)
    BY <2>1, <2>2
  <2> QED
    BY <1>1, <2>1, <2>3
<1>3. PICK u \in [0 .. n -> V] :
         /\ u[0] = << <<>> >>
         /\ \A k \in 1 .. n : u[k] = Limited(Product(u[k - 1], operands[k]))
         /\ ProductOfClauses(operands) = u[n]
  BY <1>2, ProductUnfolds
<1>4. \A k \in 1 .. n : Len(operands[k]) \in Nat \ {0}
  BY <1>1 DEF ClauseLists
<1>5. /\ Lengths(operands) \in Seq(Nat \ {0}) /\ Lengths(operands) \in Seq(Nat)
      /\ Len(Lengths(operands)) = n
      /\ \A k \in 1 .. n : Lengths(operands)[k] = Len(operands[k])
  BY <1>1, <1>4 DEF Lengths
<1>6. PICK t \in [0 .. n -> Nat] :
         /\ t[0] = 1 /\ \A k \in 1 .. n : t[k] = t[k - 1] * Lengths(operands)[k]
         /\ Times(Lengths(operands)) = t[n]
  BY <1>5, TimesUnfolds
<1>7. \A k \in 0 .. n : t[k] \in Nat \ {0} /\ t[k] <= t[n]
  BY <1>5, <1>6, TimesBounds
<1>8. \A k \in 1 .. n : t[k] = t[k - 1] * Len(operands[k])
  BY <1>5, <1>6
<1> HIDE DEF n, V
<1> DEFINE S == {k \in 0 .. n : /\ k # 0 => u[k] \in ClauseLists(C)
                                /\ Len(u[k]) = t[k]
                                /\ SomeSatisfied(u[k], e, read) <=> matches(k)}
<1>9. 0 \in S
  <2>1. SomeSatisfied(<< <<>> >>, e, read) /\ Len(<< <<>> >>) = 1 /\ 0 \in 0 .. n /\ matches(0)
    BY <1>1 DEF SomeSatisfied, Satisfied
  <2> QED
    BY <1>3, <1>6, <2>1
<1>10. ASSUME NEW k \in 1 .. n, k - 1 \in S
       PROVE  k \in S
  <2>1. /\ u[k - 1] \in V /\ operands[k] \in V /\ operands[k] \in ClauseLists(C) /\ k \in 0 .. n
        /\ u[k] = Limited(Product(u[k - 1], operands[k]))
    BY <1>1, <1>2, <1>3
  <2> DEFINE P == Product(u[k - 1], operands[k])
  <2>2. Len(u[k - 1]) = t[k - 1] /\ (SomeSatisfied(u[k - 1], e, read) <=> matches(k - 1))
    BY <1>10
  <2>3. /\ P \in ClauseLists(C) /\ Len(P) = Len(u[k - 1]) * Len(operands[k])
        /\ SomeSatisfied(P, e, read) <=>
             SomeSatisfied(u[k - 1], e, read) /\ SomeSatisfied(operands[k], e, read)
    BY <2>1, ProductSatisfied DEF V
  <2>4. SomeSatisfied(operands[k], e, read) <=> MatchesClauses(operands[k], e, read)
    BY <2>1, MatchesBySatisfied
  <2> HIDE DEF P
  <2>5. Len(P) = t[k]
    BY <1>8, <2>2, <2>3
  <2>6. t[k] \in Nat /\ t[n] \in Nat /\ t[k] <= t[n] /\ t[n] <= MaxClauses /\ MaxClauses \in Nat
    BY <1>1, <1>6, <1>7, <2>1, MaxClausesAssumption
  <2>7. u[k] = P
    BY <2>1, <2>5, <2>6 DEF P, Limited
  <2>8. matches(k) <=> matches(k - 1) /\ MatchesClauses(operands[k], e, read)
    <3>1. \A j : j \in 1 .. k <=> j \in 1 .. k - 1 \/ j = k
      BY <1>1
    <3> QED
      BY <3>1, Zenon
  <2>9. SomeSatisfied(u[k], e, read) <=> matches(k)
    BY <2>2, <2>3, <2>4, <2>7, <2>8
  <2> QED
    BY <2>1, <2>3, <2>5, <2>7, <2>9
<1> HIDE DEF S
<1>11. \A k \in 0 .. n : k \in S
  BY <1>1, <1>9, <1>10, IntervalInduction
<1>12. n \in S /\ n # 0
  BY <1>1, <1>11
<1>13. /\ u[n] \in ClauseLists(C) /\ Len(u[n]) = t[n]
       /\ SomeSatisfied(u[n], e, read) <=> matches(n)
  BY <1>12 DEF S
<1>14. MatchesClauses(u[n], e, read) <=> matches(n)
  BY <1>13, MatchesBySatisfied
<1> QED
  BY <1>3, <1>6, <1>13, <1>14 DEF n

-----------------------------------------------------------------------------
\* What is computed of a group depends on its children, which are of earlier levels.
LEMMA GroupParts ==
    ASSUME NEW n \in 1 .. Len(Levels), NEW g \in Levels[n]
    PROVE  /\ g \in Groups /\ g.op \in {"and", "or"}
           /\ g.conditions \in Seq(Conditions) /\ g.children \in Seq(Earlier(n))
           /\ Earlier(n) \subseteq Groups
<1>1. Levels[n] \subseteq
        [op : {"and", "or"}, conditions : Seq(Conditions), children : Seq(Earlier(n))]
  BY LevelsAssumption
<1>2. g \in [op : {"and", "or"}, conditions : Seq(Conditions), children : Seq(Earlier(n))]
  BY <1>1
<1>3. g.op \in {"and", "or"} /\ g.conditions \in Seq(Conditions) /\ g.children \in Seq(Earlier(n))
  BY <1>2
<1>4. Len(Levels) \in Nat
  BY LevelsAssumption
<1>5. g \in Groups /\ Earlier(n) \subseteq Groups
  BY <1>4 DEF Groups, Earlier
<1> QED
  BY <1>3, <1>5

LEMMA PartsOfGroup ==
    ASSUME NEW g \in Groups
    PROVE  g.conditions \in Seq(Conditions) /\ g.children \in Seq(Groups)
<1>1. PICK n \in 1 .. Len(Levels) : g \in Levels[n]
  BY DEF Groups
<1>2. /\ g.conditions \in Seq(Conditions) /\ g.children \in Seq(Earlier(n))
      /\ Earlier(n) \subseteq Groups
  BY <1>1, GroupParts
<1>3. \A T, W : T \subseteq W => Seq(T) \subseteq Seq(W)
  OBVIOUS
<1> QED
  BY <1>2, <1>3

LEMMA OfChildrenTyped ==
    ASSUME NEW V, NEW f \in [Groups -> V], NEW g \in Groups
    PROVE  OfChildren(g, f) \in Seq(V)
<1>1. g.children \in Seq(Groups)
  BY PartsOfGroup
<1>2. \A i \in 1 .. Len(g.children) : f[g.children[i]] \in V
  BY <1>1
<1>3. Len(g.children) \in Nat
  BY <1>1
<1> QED
  BY <1>2, <1>3 DEF OfChildren

LEMMA OfChildrenLocal ==
    ASSUME NEW n \in 1 .. Len(Levels), NEW g \in Levels[n], NEW f, NEW h,
           \A x \in Earlier(n) : f[x] = h[x]
    PROVE  /\ OfChildren(g, f) = OfChildren(g, h)
           /\ \A i \in 1 .. Len(g.children) : f[g.children[i]] = h[g.children[i]]
<1>1. \A i \in 1 .. Len(g.children) : g.children[i] \in Earlier(n)
  BY GroupParts
<1> QED
  BY <1>1 DEF OfChildren

\* Each is what its definition says, of the children as of the group.
LEMMA ClauseCountUnfolds ==
    \A g \in Groups : ClauseCount[g] = CountFrom(g, ClauseCount)
<1> DEFINE V == Nat
           step == [f \in [Groups -> V] |-> [g \in Groups |-> CountFrom(g, f)]]
<1>1. ASSUME NEW g \in Groups, NEW f \in [Groups -> V]
      PROVE  CountFrom(g, f) \in V
  <2> DEFINE ones == [i \in 1 .. Len(g.conditions) |-> 1]  operands == ones \o OfChildren(g, f)
  <2>1. g.conditions \in Seq(Conditions)
    BY PartsOfGroup
  <2>2. ones \in Seq(Nat)
    BY <2>1
  <2>3. OfChildren(g, f) \in Seq(Nat)
    BY OfChildrenTyped
  <2> HIDE DEF ones
  <2>4. operands \in Seq(Nat)
    BY <2>2, <2>3
  <2> HIDE DEF operands
  <2>5. Total(operands) \in Nat
    BY <2>4, TotalBounds
  <2>6. Times(operands) \in Nat
    <3>1. PICK u \in [0 .. Len(operands) -> Nat] : Times(operands) = u[Len(operands)]
      BY <2>4, TimesUnfolds
    <3>2. Len(operands) \in 0 .. Len(operands)
      BY <2>4
    <3> QED
      BY <3>1, <3>2
  <2> QED
    BY <2>5, <2>6, MaxClausesAssumption DEF CountFrom, operands, ones
<1>2. V # {}
  OBVIOUS
<1> HIDE DEF V
<1>3. step \in [[Groups -> V] -> [Groups -> V]]
  BY <1>1
<1>4. ASSUME NEW n \in 1 .. Len(Levels), NEW g \in Levels[n],
             NEW f \in [Groups -> V], NEW h \in [Groups -> V],
             \A x \in Earlier(n) : f[x] = h[x]
      PROVE  step[f][g] = step[h][g]
  <2>1. CountFrom(g, f) = CountFrom(g, h)
    BY <1>4, OfChildrenLocal DEF CountFrom
  <2>2. g \in Groups
    BY GroupParts
  <2> QED
    BY <2>1, <2>2
<1>5. \A f \in [Groups -> V] : step[f] = [g \in Groups |-> CountFrom(g, f)]
  OBVIOUS
<1> HIDE DEF step
<1>6. PICK f \in [Groups -> V] : f = step[f]
  BY <1>2, <1>3, <1>4, GroupRecursion
<1>7. f = [g \in Groups |-> CountFrom(g, f)]
  BY <1>5, <1>6, Zenon
<1>8. ClauseCount = [g \in Groups |-> CountFrom(g, ClauseCount)]
  BY <1>7 DEF ClauseCount
<1> QED
  BY <1>8, Zenon

LEMMA HasOperandsUnfolds ==
    \A g \in Groups : HasOperands[g] = HasOperandsFrom(g, HasOperands)
<1> DEFINE V == BOOLEAN
           step == [f \in [Groups -> V] |-> [g \in Groups |-> HasOperandsFrom(g, f)]]
<1>1. ASSUME NEW g \in Groups, NEW f \in [Groups -> V]
      PROVE  HasOperandsFrom(g, f) \in V
  BY DEF HasOperandsFrom
<1>2. V # {}
  OBVIOUS
<1> HIDE DEF V
<1>3. step \in [[Groups -> V] -> [Groups -> V]]
  BY <1>1
<1>4. ASSUME NEW n \in 1 .. Len(Levels), NEW g \in Levels[n],
             NEW f \in [Groups -> V], NEW h \in [Groups -> V],
             \A x \in Earlier(n) : f[x] = h[x]
      PROVE  step[f][g] = step[h][g]
  <2>1. \A i \in 1 .. Len(g.children) : f[g.children[i]] = h[g.children[i]]
    BY <1>4, OfChildrenLocal
  <2>2. HasOperandsFrom(g, f) = HasOperandsFrom(g, h)
    BY <2>1, Zenon DEF HasOperandsFrom
  <2>3. g \in Groups
    BY GroupParts
  <2> QED
    BY <2>2, <2>3
<1>5. \A f \in [Groups -> V] : step[f] = [g \in Groups |-> HasOperandsFrom(g, f)]
  OBVIOUS
<1> HIDE DEF step
<1>6. PICK f \in [Groups -> V] : f = step[f]
  BY <1>2, <1>3, <1>4, GroupRecursion
<1>7. f = [g \in Groups |-> HasOperandsFrom(g, f)]
  BY <1>5, <1>6, Zenon
<1>8. HasOperands = [g \in Groups |-> HasOperandsFrom(g, HasOperands)]
  BY <1>7 DEF HasOperands
<1> QED
  BY <1>8, Zenon

LEMMA HoldsFromBoolean ==
    ASSUME NEW g, NEW e, NEW holds
    PROVE  HoldsFrom(g, e, holds) \in BOOLEAN
<1> DEFINE said == {Means(g.conditions[i], e) : i \in 1 .. Len(g.conditions)}
                   \cup {holds[g.children[i]] : i \in 1 .. Len(g.children)}
<1>1. HoldsFrom(g, e, holds) = IF g.op = "and" THEN FALSE \notin said ELSE TRUE \in said
  BY DEF HoldsFrom
<1> HIDE DEF said
<1>2. CASE g.op = "and"
  BY <1>1, <1>2
<1>3. CASE g.op # "and"
  BY <1>1, <1>3
<1> QED
  BY <1>2, <1>3

LEMMA HoldsUnfolds ==
    ASSUME NEW e
    PROVE  \E h : \A g \in Groups : Holds(g, e) = h[g] /\ h[g] = HoldsFrom(g, e, h)
<1> DEFINE V == BOOLEAN
           some == CHOOSE h : h = [g \in Groups |-> HoldsFrom(g, e, h)]
           step == [f \in [Groups -> V] |-> [g \in Groups |-> HoldsFrom(g, e, f)]]
<1>1. \A g \in Groups : Holds(g, e) = some[g]
  BY DEF Holds
<1>2. ASSUME NEW g \in Groups, NEW f \in [Groups -> V]
      PROVE  HoldsFrom(g, e, f) \in V
  BY HoldsFromBoolean
<1>3. V # {}
  OBVIOUS
<1> HIDE DEF V
<1>4. step \in [[Groups -> V] -> [Groups -> V]]
  BY <1>2
<1>5. ASSUME NEW n \in 1 .. Len(Levels), NEW g \in Levels[n],
             NEW f \in [Groups -> V], NEW h \in [Groups -> V],
             \A x \in Earlier(n) : f[x] = h[x]
      PROVE  step[f][g] = step[h][g]
  <2>1. \A i \in 1 .. Len(g.children) : f[g.children[i]] = h[g.children[i]]
    BY <1>5, OfChildrenLocal
  <2>2. {f[g.children[i]] : i \in 1 .. Len(g.children)}
          = {h[g.children[i]] : i \in 1 .. Len(g.children)}
    BY <2>1
  <2>3. HoldsFrom(g, e, f) = HoldsFrom(g, e, h)
    BY <2>2, Zenon DEF HoldsFrom
  <2>4. g \in Groups
    BY GroupParts
  <2> QED
    BY <2>3, <2>4
<1>6. \A f \in [Groups -> V] : step[f] = [g \in Groups |-> HoldsFrom(g, e, f)]
  OBVIOUS
<1> HIDE DEF step
<1>7. PICK f \in [Groups -> V] : f = step[f]
  BY <1>3, <1>4, <1>5, GroupRecursion
<1>8. f = [g \in Groups |-> HoldsFrom(g, e, f)]
  BY <1>6, <1>7, Zenon
<1>9. some = [g \in Groups |-> HoldsFrom(g, e, some)]
  BY <1>8
<1> HIDE DEF some
<1>10. \A g \in Groups : some[g] = HoldsFrom(g, e, some)
  BY <1>9, Zenon
<1> QED
  BY <1>1, <1>10

LEMMA CompileUnfolds ==
    \A g \in Groups : Compile[g] = CompileFrom(g, Compile)
<1> DEFINE V == Seq(Seq(Conditions))
           step == [f \in [Groups -> V] |-> [g \in Groups |-> CompileFrom(g, f)]]
<1>1. ASSUME NEW g \in Groups, NEW f \in [Groups -> V]
      PROVE  CompileFrom(g, f) \in V
  <2> DEFINE single == [i \in 1 .. Len(g.conditions) |-> << <<g.conditions[i]>> >>]
             operands == single \o OfChildren(g, f)
  <2>1. g.conditions \in Seq(Conditions)
    BY PartsOfGroup
  <2>2. single \in Seq(V)
    <3>1. \A i \in 1 .. Len(g.conditions) : g.conditions[i] \in Conditions
      BY <2>1
    <3>2. \A c \in Conditions : << <<c>> >> \in V
      OBVIOUS
    <3> HIDE DEF V
    <3>3. Len(g.conditions) \in Nat
      BY <2>1
    <3>4. \A i \in 1 .. Len(g.conditions) : << <<g.conditions[i]>> >> \in V
      BY <3>1, <3>2
    <3> QED
      BY <3>3, <3>4
  <2>3. OfChildren(g, f) \in Seq(V)
    BY OfChildrenTyped
  <2> HIDE DEF single
  <2>4. operands \in Seq(V)
    <3> HIDE DEF V
    <3> QED
      BY <2>2, <2>3
  <2> HIDE DEF operands
  <2>5. AllClauses(operands) \in V
    <3>1. PICK u \in [0 .. Len(operands) -> V] : AllClauses(operands) = u[Len(operands)]
      BY <2>4, AllClausesUnfolds
    <3>2. Len(operands) \in 0 .. Len(operands)
      BY <2>4
    <3> QED
      BY <3>1, <3>2
  <2>6. ProductOfClauses(operands) \in V
    <3>1. PICK u \in [0 .. Len(operands) -> V] : ProductOfClauses(operands) = u[Len(operands)]
      BY <2>4, ProductUnfolds
    <3>2. Len(operands) \in 0 .. Len(operands)
      BY <2>4
    <3> QED
      BY <3>1, <3>2
  <2>7. Rejected \in V /\ Limited(AllClauses(operands)) \in V
    BY <2>5 DEF Limited, Rejected
  <2> HIDE DEF V
  <2> QED
    BY <2>6, <2>7, Zenon DEF CompileFrom, operands, single
<1>2. V # {}
  <2>1. <<>> \in V
    OBVIOUS
  <2> QED
    BY <2>1, Zenon
<1> HIDE DEF V
<1>3. step \in [[Groups -> V] -> [Groups -> V]]
  BY <1>1
<1>4. ASSUME NEW n \in 1 .. Len(Levels), NEW g \in Levels[n],
             NEW f \in [Groups -> V], NEW h \in [Groups -> V],
             \A x \in Earlier(n) : f[x] = h[x]
      PROVE  step[f][g] = step[h][g]
  <2>1. OfChildren(g, f) = OfChildren(g, h)
    BY <1>4, OfChildrenLocal
  <2>2. CompileFrom(g, f) = CompileFrom(g, h)
    BY <2>1, Zenon DEF CompileFrom
  <2>3. g \in Groups
    BY GroupParts
  <2> QED
    BY <2>2, <2>3
<1>5. \A f \in [Groups -> V] : step[f] = [g \in Groups |-> CompileFrom(g, f)]
  OBVIOUS
<1> HIDE DEF step
<1>6. PICK f \in [Groups -> V] : f = step[f]
  BY <1>2, <1>3, <1>4, GroupRecursion
<1>7. f = [g \in Groups |-> CompileFrom(g, f)]
  BY <1>5, <1>6, Zenon
<1>8. Compile = [g \in Groups |-> CompileFrom(g, Compile)]
  BY <1>7 DEF Compile
<1> QED
  BY <1>8, Zenon

\* A condition that may be authored is true or false of an employee.
LEMMA MeansBoolean ==
    ASSUME NEW c, Authored(c), NEW e
    PROVE  Means(c, e) \in BOOLEAN
<1>1. /\ c.field \in References \cup Counts \cup {"is_manager"}
      /\ c.op \in AllowedOperators(c.field)
  BY DEF Authored
<1>2. \A a, b : \A op \in {"=", "<", "<=", ">", ">="} : Compare(a, op, b) \in BOOLEAN
  <2> SUFFICES ASSUME NEW a, NEW b, NEW op \in {"=", "<", "<=", ">", ">="}
               PROVE  Compare(a, op, b) \in BOOLEAN
    OBVIOUS
  <2>1. CASE op = "="
    BY <2>1, Zenon DEF Compare
  <2>2. CASE op = "<"
    BY <2>2 DEF Compare
  <2>3. CASE op = "<="
    BY <2>3 DEF Compare
  <2>4. CASE op = ">"
    BY <2>4 DEF Compare
  <2>5. CASE op = ">="
    BY <2>5 DEF Compare
  <2> QED
    BY <2>1, <2>2, <2>3, <2>4, <2>5
<1>3. CASE c.field = "employee_id"
  BY <1>3 DEF Means
<1>4. CASE c.field = "manager_id"
  BY <1>4 DEF Means
<1>5. CASE c.field = "is_manager"
  BY <1>5 DEF Means
<1>6. CASE c.field = "reports_under"
  BY <1>6 DEF Means
<1>7. CASE c.field = "direct_report_count"
  <2>1. Means(c, e) = Compare(Cardinality(ReportsOf(org, e)), c.op, c.value)
    BY <1>7 DEF Means
  <2>2. c.op \in {"=", "<", "<=", ">", ">="}
    BY <1>1, <1>7 DEF AllowedOperators, Counts
  <2> QED
    BY <1>2, <2>1, <2>2
<1>8. CASE c.field = "management_level"
  <2>1. Means(c, e) = Compare(Cardinality(Ancestors(org, e)), c.op, c.value)
    BY <1>8 DEF Means
  <2>2. c.op \in {"=", "<", "<=", ">", ">="}
    BY <1>1, <1>8 DEF AllowedOperators, Counts
  <2> QED
    BY <1>2, <2>1, <2>2
<1> QED
  BY <1>1, <1>3, <1>4, <1>5, <1>6, <1>7, <1>8 DEF References, Counts

-----------------------------------------------------------------------------
\* A group, all of whose groups have an operand: it has a clause, and if its clauses are
\* within the limit it is compiled to as many, which say of an employee what it says, when
\* its conditions are evaluated as meant.
Compiles(g, e, read) ==
    HasOperands[g] =>
      /\ ClauseCount[g] \in Nat \ {0}
      /\ ClauseCount[g] <= MaxClauses =>
           /\ Compile[g] \in ClauseLists(Conditions)
           /\ Len(Compile[g]) = ClauseCount[g]
           /\ (\A c \in Conditions : Evaluate(c, e, read) <=> Means(c, e)) =>
                (MatchesClauses(Compile[g], e, read) <=> Holds(g, e))

LEMMA SingleCondition ==
    ASSUME NEW C, NEW c \in C, NEW e, NEW read
    PROVE  /\ << <<c>> >> \in ClauseLists(C) \ {<<>>} /\ Len(<< <<c>> >>) = 1
           /\ MatchesClauses(<< <<c>> >>, e, read) <=> Evaluate(c, e, read)
<1>1. <<c>> \in Seq(C) \ {<<>>}
  OBVIOUS
<1>2. << <<c>> >> \in ClauseLists(C) \ {<<>>} /\ Len(<< <<c>> >>) = 1
  BY <1>1 DEF ClauseLists
<1>3. MatchesClauses(<< <<c>> >>, e, read) <=> Evaluate(c, e, read)
  BY DEF MatchesClauses
<1> QED
  BY <1>2, <1>3

\* The operands of a group are its conditions and its children, in this order.
OperandsIn(V, g, first, of) ==
    /\ first \in [1 .. Len(g.conditions) -> V]
    /\ \A i \in 1 .. Len(g.children) : of[g.children[i]] \in V

OperandsAre(operands, V, g, first, of) ==
    /\ operands \in Seq(V) /\ Len(operands) = Len(g.conditions) + Len(g.children)
    /\ \A k \in 1 .. Len(g.conditions) : operands[k] = first[k]
    /\ \A i \in 1 .. Len(g.children) : operands[Len(g.conditions) + i] = of[g.children[i]]

LEMMA OperandsOfGroup ==
    ASSUME NEW V, NEW g \in Groups, NEW first, NEW of, OperandsIn(V, g, first, of)
    PROVE  OperandsAre(first \o OfChildren(g, of), V, g, first, of)
<1> DEFINE m == Len(g.conditions)  n == Len(g.children)  last == OfChildren(g, of)
<1>1. m \in Nat /\ n \in Nat
  BY PartsOfGroup
<1>2. first \in Seq(V) /\ Len(first) = m
  BY <1>1 DEF OperandsIn
<1>3. last \in [1 .. n -> V] /\ \A i \in 1 .. n : last[i] = of[g.children[i]]
  BY DEF OfChildren, OperandsIn
<1> HIDE DEF m, n, last
<1>4. last \in Seq(V) /\ Len(last) = n
  BY <1>1, <1>3
<1>5. /\ first \o last \in Seq(V) /\ Len(first \o last) = m + n
      /\ \A k \in 1 .. m : (first \o last)[k] = first[k]
      /\ \A i \in 1 .. n : (first \o last)[m + i] = last[i]
  BY <1>1, <1>2, <1>4
<1> QED
  BY <1>3, <1>5, Zenon DEF OperandsAre, m, n, last

LEMMA EachPosition ==
    ASSUME NEW m \in Nat, NEW n \in Nat, NEW k \in 1 .. m + n
    PROVE  k \in 1 .. m \/ \E i \in 1 .. n : k = m + i
<1>1. CASE k <= m
  BY <1>1
<1>2. CASE ~ (k <= m)
  <2>1. k - m \in 1 .. n /\ k = m + (k - m)
    BY <1>2
  <2> QED
    BY <2>1
<1> QED
  BY <1>1, <1>2

LEMMA GroupCompiles ==
    ASSUME NEW g \in Groups, NEW e, NEW read,
           \A i \in 1 .. Len(g.children) : Compiles(g.children[i], e, read)
    PROVE  Compiles(g, e, read)
<1> SUFFICES ASSUME HasOperands[g]
             PROVE  /\ ClauseCount[g] \in Nat \ {0}
                    /\ ClauseCount[g] <= MaxClauses =>
                         /\ Compile[g] \in ClauseLists(Conditions)
                         /\ Len(Compile[g]) = ClauseCount[g]
                         /\ (\A c \in Conditions : Evaluate(c, e, read) <=> Means(c, e)) =>
                              (MatchesClauses(Compile[g], e, read) <=> Holds(g, e))
  BY DEF Compiles
<1> DEFINE m == Len(g.conditions)
           n == Len(g.children)
           child(i) == g.children[i]
           ones == [k \in 1 .. m |-> 1]
           singles == [k \in 1 .. m |-> << <<g.conditions[k]>> >>]
           counts == ones \o OfChildren(g, ClauseCount)
           operands == singles \o OfChildren(g, Compile)
           total == IF g.op = "or" THEN Total(counts) ELSE Times(counts)
<1>1. /\ m \in Nat /\ n \in Nat
      /\ \A k \in 1 .. m : g.conditions[k] \in Conditions
      /\ \A i \in 1 .. n : child(i) \in Groups
  BY PartsOfGroup
<1>2. g.op \in {"and", "or"}
  BY GroupParts DEF Groups
<1>3. (m > 0 \/ n > 0) /\ \A i \in 1 .. n : HasOperands[child(i)]
  <2>1. HasOperandsFrom(g, HasOperands)
    BY HasOperandsUnfolds
  <2>2. (g.conditions # <<>> \/ g.children # <<>>) /\ \A i \in 1 .. n : HasOperands[child(i)]
    BY <2>1 DEF HasOperandsFrom
  <2>3. (g.conditions # <<>> => m > 0) /\ (g.children # <<>> => n > 0)
    BY PartsOfGroup
  <2> QED
    BY <2>2, <2>3
<1>4. \A i \in 1 .. n : ClauseCount[child(i)] \in Nat \ {0}
  BY <1>3 DEF Compiles
<1>5. ones \in [1 .. m -> Nat \ {0}] /\ \A k \in 1 .. m : ones[k] = 1
  OBVIOUS
<1>6. singles \in [1 .. m -> ClauseLists(Conditions) \ {<<>>}]
      /\ \A k \in 1 .. m : singles[k] = << <<g.conditions[k]>> >>
  <2>1. \A k \in 1 .. m : << <<g.conditions[k]>> >> \in ClauseLists(Conditions) \ {<<>>}
    BY <1>1, SingleCondition
  <2> QED
    BY <2>1
<1> HIDE DEF ones, singles
<1>7. /\ counts \in Seq(Nat \ {0}) /\ Len(counts) = m + n
      /\ \A k \in 1 .. m : counts[k] = 1
      /\ \A i \in 1 .. n : counts[m + i] = ClauseCount[child(i)]
  <2> DEFINE V == Nat \ {0}
  <2>1. OperandsIn(V, g, ones, ClauseCount)
    BY <1>4, <1>5 DEF OperandsIn
  <2> HIDE DEF V
  <2>2. OperandsAre(counts, V, g, ones, ClauseCount)
    BY <2>1, OperandsOfGroup
  <2> QED
    BY <1>5, <2>2 DEF V, OperandsAre
<1>8. ClauseCount[g] = IF counts = <<>> THEN 0
                       ELSE IF total > MaxClauses THEN MaxClauses + 1 ELSE total
  <2>1. ClauseCount[g] = CountFrom(g, ClauseCount)
    BY ClauseCountUnfolds
  <2> QED
    BY <2>1 DEF CountFrom, ones
<1>9. Compile[g] = IF operands = <<>> \/ \E k \in 1 .. Len(operands) : operands[k] = Rejected
                     THEN Rejected
                   ELSE IF g.op = "or" THEN Limited(AllClauses(operands))
                   ELSE ProductOfClauses(operands)
  <2>1. Compile[g] = CompileFrom(g, Compile)
    BY CompileUnfolds
  <2> QED
    BY <2>1 DEF CompileFrom, singles
<1> HIDE DEF m, n, counts, operands
<1>10. counts # <<>>
  BY <1>1, <1>3, <1>7
<1>11. /\ total \in Nat \ {0}
       /\ \A k \in 1 .. m + n : counts[k] <= total
  <2>1. counts \in Seq(Nat) /\ m + n \in Nat \ {0} /\ \A k \in 1 .. m + n : counts[k] \in Nat \ {0}
    BY <1>1, <1>3, <1>7
  <2>2. CASE g.op = "or"
    <3>1. Total(counts) \in Nat /\ \A k \in 1 .. m + n : counts[k] <= Total(counts)
      BY <1>7, <2>1, TotalBounds
    <3>2. 1 \in 1 .. m + n
      BY <2>1
    <3>3. Total(counts) # 0
      BY <2>1, <3>1, <3>2
    <3> QED
      BY <2>2, <3>1, <3>3
  <2>3. CASE g.op # "or"
    <3>1. PICK u \in [0 .. m + n -> Nat] :
            /\ u[0] = 1 /\ \A k \in 1 .. m + n : u[k] = u[k - 1] * counts[k]
            /\ Times(counts) = u[m + n]
      BY <1>7, <2>1, TimesUnfolds
    <3>2. /\ \A k \in 0 .. m + n : u[k] \in Nat \ {0} /\ u[k] <= u[m + n]
          /\ \A k \in 1 .. m + n : counts[k] <= u[m + n]
      BY <1>7, <3>1, TimesBounds
    <3>3. m + n \in 0 .. m + n
      BY <2>1
    <3> QED
      BY <2>3, <3>1, <3>2, <3>3
  <2> QED
    BY <2>2, <2>3
<1> HIDE DEF total
<1>12. ClauseCount[g] \in Nat \ {0}
  BY <1>8, <1>10, <1>11, MaxClausesAssumption
<1>13. ASSUME ClauseCount[g] <= MaxClauses
       PROVE  /\ Compile[g] \in ClauseLists(Conditions)
              /\ Len(Compile[g]) = ClauseCount[g]
              /\ (\A c \in Conditions : Evaluate(c, e, read) <=> Means(c, e)) =>
                   (MatchesClauses(Compile[g], e, read) <=> Holds(g, e))
  <2>1. ClauseCount[g] = total /\ total <= MaxClauses
    BY <1>8, <1>10, <1>11, <1>13, MaxClausesAssumption
  <2>2. \A i \in 1 .. n : ClauseCount[child(i)] <= MaxClauses
    <3> SUFFICES ASSUME NEW i \in 1 .. n PROVE ClauseCount[child(i)] <= MaxClauses
      OBVIOUS
    <3>1. m + i \in 1 .. m + n
      BY <1>1
    <3>2. counts[m + i] <= total /\ counts[m + i] = ClauseCount[child(i)]
      BY <1>7, <1>11, <3>1
    <3> QED
      BY <1>4, <1>11, <2>1, <3>2, MaxClausesAssumption
  <2>3. \A i \in 1 .. n :
          /\ Compile[child(i)] \in ClauseLists(Conditions)
          /\ Len(Compile[child(i)]) = ClauseCount[child(i)]
          /\ (\A c \in Conditions : Evaluate(c, e, read) <=> Means(c, e)) =>
               (MatchesClauses(Compile[child(i)], e, read) <=> Holds(child(i), e))
    BY <1>3, <2>2 DEF Compiles, n
  <2>4. \A i \in 1 .. n : Compile[child(i)] \in ClauseLists(Conditions) \ {<<>>}
    <3>1. Len(<<>>) = 0
      OBVIOUS
    <3> QED
      BY <1>4, <2>3, <3>1
  <2>5. /\ operands \in Seq(ClauseLists(Conditions) \ {<<>>}) /\ Len(operands) = m + n
        /\ \A k \in 1 .. m : operands[k] = singles[k]
        /\ \A i \in 1 .. n : operands[m + i] = Compile[child(i)]
    <3> DEFINE V == ClauseLists(Conditions) \ {<<>>}
    <3>1. OperandsIn(V, g, singles, Compile)
      BY <1>6, <2>4 DEF OperandsIn, m, n
    <3> HIDE DEF V
    <3>2. OperandsAre(operands, V, g, singles, Compile)
      BY <3>1, OperandsOfGroup DEF operands
    <3> QED
      BY <3>2 DEF V, OperandsAre, m, n
  <2>6. operands # <<>> /\ ~ \E k \in 1 .. Len(operands) : operands[k] = Rejected
    BY <1>1, <1>3, <2>5 DEF Rejected
  <2>7. Compile[g] = IF g.op = "or" THEN Limited(AllClauses(operands))
                     ELSE ProductOfClauses(operands)
    BY <1>9, <2>6
  <2>8. Lengths(operands) = counts
    <3>1. \A k \in 1 .. m + n : Len(operands[k]) = counts[k]
      <4> SUFFICES ASSUME NEW k \in 1 .. m + n PROVE Len(operands[k]) = counts[k]
        OBVIOUS
      <4>1. ASSUME k \in 1 .. m PROVE Len(operands[k]) = counts[k]
        <5>1. operands[k] = << <<g.conditions[k]>> >> /\ counts[k] = 1
          BY <1>6, <1>7, <2>5, <4>1 DEF m
        <5> QED
          BY <5>1
      <4>2. ASSUME NEW i \in 1 .. n, k = m + i PROVE Len(operands[k]) = counts[k]
        BY <1>7, <2>3, <2>5, <4>2
      <4> QED
        BY <1>1, <4>1, <4>2, EachPosition
    <3> QED
      BY <1>7, <2>5, <3>1 DEF Lengths
  <2> DEFINE matches(k) == MatchesClauses(operands[k], e, read)
  <2>9. /\ Compile[g] \in ClauseLists(Conditions) /\ Len(Compile[g]) = total
        /\ g.op = "or" =>
             (MatchesClauses(Compile[g], e, read) <=> \E k \in 1 .. m + n : matches(k))
        /\ g.op = "and" =>
             (MatchesClauses(Compile[g], e, read) <=> \A k \in 1 .. m + n : matches(k))
    <3>1. CASE g.op = "or"
      <4>1. operands \in Seq(ClauseLists(Conditions))
        BY <2>5
      <4>2. /\ AllClauses(operands) \in ClauseLists(Conditions)
            /\ Len(AllClauses(operands)) = total
            /\ MatchesClauses(AllClauses(operands), e, read) <=> \E k \in 1 .. m + n : matches(k)
        BY <2>5, <2>8, <3>1, <4>1, AnyOperand DEF total
      <4>3. Compile[g] = AllClauses(operands)
        BY <1>11, <2>1, <2>7, <3>1, <4>2, MaxClausesAssumption DEF Limited
      <4> QED
        BY <3>1, <4>2, <4>3
    <3>2. CASE g.op # "or"
      <4>1. Times(Lengths(operands)) = total
        BY <2>8, <3>2 DEF total
      <4>2. /\ ProductOfClauses(operands) \in ClauseLists(Conditions)
            /\ Len(ProductOfClauses(operands)) = total
            /\ MatchesClauses(ProductOfClauses(operands), e, read) <=>
                 \A k \in 1 .. m + n : matches(k)
        BY <2>1, <2>5, <2>6, <4>1, EveryOperand
      <4> QED
        BY <2>7, <3>2, <4>2
    <3> QED
      BY <3>1, <3>2
  <2>10. ASSUME \A c \in Conditions : Evaluate(c, e, read) <=> Means(c, e)
         PROVE  MatchesClauses(Compile[g], e, read) <=> Holds(g, e)
    <3>1. PICK h : \A x \in Groups : Holds(x, e) = h[x] /\ h[x] = HoldsFrom(x, e, h)
      BY HoldsUnfolds
    <3> DEFINE said == {Means(g.conditions[k], e) : k \in 1 .. m} \cup {h[child(i)] : i \in 1 .. n}
    <3>2. h[g] = IF g.op = "and" THEN FALSE \notin said ELSE TRUE \in said
      BY <3>1 DEF HoldsFrom, m, n
    <3>3. \A k \in 1 .. m : /\ matches(k) <=> Means(g.conditions[k], e)
                            /\ Means(g.conditions[k], e) \in BOOLEAN
      <4> SUFFICES ASSUME NEW k \in 1 .. m
                   PROVE  /\ matches(k) <=> Means(g.conditions[k], e)
                          /\ Means(g.conditions[k], e) \in BOOLEAN
        OBVIOUS
      <4>1. g.conditions[k] \in Conditions /\ Authored(g.conditions[k])
        BY <1>1, ConditionsAssumption
      <4>2. matches(k) <=> Evaluate(g.conditions[k], e, read)
        BY <1>6, <2>5, <4>1, SingleCondition
      <4> QED
        BY <2>10, <4>1, <4>2, MeansBoolean
    <3>4. \A i \in 1 .. n : (matches(m + i) <=> h[child(i)]) /\ h[child(i)] \in BOOLEAN
      <4> SUFFICES ASSUME NEW i \in 1 .. n
                   PROVE  (matches(m + i) <=> h[child(i)]) /\ h[child(i)] \in BOOLEAN
        OBVIOUS
      <4>1. child(i) \in Groups
        BY <1>1
      <4>2. matches(m + i) <=> Holds(child(i), e)
        BY <2>3, <2>5, <2>10
      <4>3. Holds(child(i), e) = h[child(i)] /\ h[child(i)] = HoldsFrom(child(i), e, h)
        BY <3>1, <4>1
      <4>4. HoldsFrom(child(i), e, h) \in BOOLEAN
        BY HoldsFromBoolean
      <4> QED
        BY <4>2, <4>3, <4>4
    <3> DEFINE value(k) == IF k \in 1 .. m THEN Means(g.conditions[k], e) ELSE h[child(k - m)]
    <3>5. said = {value(k) : k \in 1 .. m + n}
      <4>1. ASSUME NEW k \in 1 .. m
            PROVE  k \in 1 .. m + n /\ value(k) = Means(g.conditions[k], e)
        BY <1>1
      <4>2. ASSUME NEW i \in 1 .. n
            PROVE  m + i \in 1 .. m + n /\ value(m + i) = h[child(i)]
        <5>1. m + i \in 1 .. m + n /\ m + i \notin 1 .. m /\ (m + i) - m = i
          BY <1>1
        <5> QED
          BY <5>1
      <4>3. ASSUME NEW k \in 1 .. m + n
            PROVE  value(k) \in said
        <5>1. CASE k \in 1 .. m
          BY <4>1, <5>1
        <5>2. ASSUME NEW i \in 1 .. n, k = m + i
              PROVE  value(k) \in said
          BY <4>2, <5>2
        <5> QED
          BY <1>1, <5>1, <5>2, EachPosition
      <4>4. \A v \in said : \E k \in 1 .. m + n : v = value(k)
        <5> HIDE DEF value
        <5> QED
          BY <4>1, <4>2
      <4> HIDE DEF said, value
      <4> QED
        BY <4>3, <4>4
    <3>6. \A k \in 1 .. m + n : (matches(k) <=> value(k)) /\ value(k) \in BOOLEAN
      <4> SUFFICES ASSUME NEW k \in 1 .. m + n
                   PROVE  (matches(k) <=> value(k)) /\ value(k) \in BOOLEAN
        OBVIOUS
      <4>1. CASE k \in 1 .. m
        <5>1. value(k) = Means(g.conditions[k], e)
          BY <4>1
        <5> HIDE DEF value
        <5> QED
          BY <3>3, <4>1, <5>1
      <4>2. ASSUME NEW i \in 1 .. n, k = m + i
            PROVE  (matches(k) <=> value(k)) /\ value(k) \in BOOLEAN
        <5>1. k \notin 1 .. m /\ k - m = i
          BY <1>1, <4>2
        <5>2. value(k) = h[child(i)]
          BY <5>1
        <5> HIDE DEF value
        <5> QED
          BY <3>4, <4>2, <5>2
      <4> QED
        BY <1>1, <4>1, <4>2, EachPosition
    <3> HIDE DEF value, said
    <3>7. /\ (TRUE \in said) <=> \E k \in 1 .. m + n : matches(k)
          /\ (FALSE \notin said) <=> \A k \in 1 .. m + n : matches(k)
      <4> HIDE DEF matches
      <4>1. \A k \in 1 .. m + n : /\ matches(k) <=> value(k) = TRUE
                                  /\ ~ matches(k) <=> value(k) = FALSE
        BY <3>6
      <4> QED
        BY <3>5, <4>1
    <3>8. g.op = "or" => (h[g] <=> TRUE \in said)
      BY <3>2
    <3>9. g.op = "and" => (h[g] <=> FALSE \notin said)
      BY <3>2
    <3>10. Holds(g, e) = h[g]
      BY <3>1
    <3> QED
      BY <1>2, <2>9, <3>7, <3>8, <3>9, <3>10
  <2> QED
    BY <2>1, <2>9, <2>10
<1> QED
  BY <1>12, <1>13

LEMMA EveryGroupCompiles ==
    ASSUME NEW e, NEW read
    PROVE  \A g \in Groups : Compiles(g, e, read)
<1> DEFINE S == {g \in Groups : Compiles(g, e, read)}
<1>1. ASSUME NEW n \in 1 .. Len(Levels), NEW g \in Levels[n], Earlier(n) \subseteq S
      PROVE  g \in S
  <2>1. g \in Groups /\ g.children \in Seq(Earlier(n))
    BY GroupParts
  <2>2. \A i \in 1 .. Len(g.children) : g.children[i] \in Earlier(n)
    BY <2>1
  <2>3. \A i \in 1 .. Len(g.children) : Compiles(g.children[i], e, read)
    BY <1>1, <2>2
  <2> QED
    BY <2>1, <2>3, GroupCompiles
<1> HIDE DEF S
<1>2. Groups \subseteq S
  BY <1>1, GroupInduction
<1> QED
  BY <1>2 DEF S

\* A tree that passes the limits of the API is never beyond the limit the compiler applies at
\* each of its groups (policy_compiler.py:82, 87): it compiles, to the number of clauses
\* that its validation has counted (policy_condition_limits.py).
THEOREM AcceptedTreesCompile ==
    ASSUME NEW g \in Accepted
    PROVE  Compile[g] # Rejected /\ Len(Compile[g]) = ClauseCount[g]
<1>1. g \in Groups /\ HasOperands[g] /\ ClauseCount[g] <= MaxClauses
  BY DEF Accepted, WithinLimits
<1> DEFINE anyone == CHOOSE e : TRUE
<1>2. Compiles(g, anyone, anyone)
  BY <1>1, EveryGroupCompiles
<1>3. ClauseCount[g] # 0 /\ Len(Compile[g]) = ClauseCount[g]
  BY <1>1, <1>2 DEF Compiles
<1>4. Len(Rejected) = 0
  BY DEF Rejected
<1> QED
  BY <1>3, <1>4

\* With one request at a time, whoever moves, joins or leaves, every policy matches by its
\* compiled clauses exactly the employees of whom its authored tree is true
\* (policy_compiler.py, policy_matching.py, condition_impacts.py:60-89).
THEOREM OneRequestKeepsMatchesTrue ==
    ASSUME \A s, t \in Sessions : s = t
    PROVE  OCSpec => []MatchesFollowTheTree
<1>1. ASSUME Typed, FactsFresh
      PROVE  MatchesFollowTheTree
  <2> SUFFICES ASSUME NEW e \in Staff(org), NEW g \in Accepted
               PROVE  MatchesClauses(CompiledClauses[g], e, shown[e]) <=> Holds(g, e)
    BY DEF MatchesFollowTheTree
  <2>1. g \in Groups /\ HasOperands[g] /\ ClauseCount[g] <= MaxClauses
    BY DEF Accepted, WithinLimits
  <2>2. \A c \in Conditions : Evaluate(c, e, shown[e]) <=> Means(c, e)
    BY <1>1, FreshFactsEvaluateRight, ConditionsAssumption DEF EvaluatedAsMeant
  <2>3. Compiles(g, e, shown[e])
    BY <2>1, EveryGroupCompiles
  <2>4. CompiledClauses[g] = Compile[g]
    BY DEF CompiledClauses
  <2> QED
    BY <2>1, <2>2, <2>3, <2>4 DEF Compiles
<1> QED
  BY <1>1, TypedInv, OneRequestKeepsFactsFresh, PTL

-----------------------------------------------------------------------------
\* What a restricted caller sees, and brings about.

Below(o, c) == UNION {Descendants(o, e) : e \in c.self}

\* A caller's visibility is of one of four kinds, whatever the chart.
LEMMA FourVisibilities ==
    ASSUME NEW o, NEW c \in Callers(o)
    PROVE  /\ c.self \subseteq Staff(o) /\ \A a, b \in c.self : a = b
           /\ \/ \A n : VisibilityOf(n, c) = Unrestricted
              \/ \A n : VisibilityOf(n, c) = Only({}, FALSE)
              \/ \A n : VisibilityOf(n, c) = Only(c.self, FALSE)
              \/ \A n : VisibilityOf(n, c) = Only(c.self \cup Below(n, c), TRUE)
<1> DEFINE A == {{}} \cup {{e} : e \in Staff(o)}
           B == {{x} : x \in Scopes} \cup {{"self", "reporting_tree"}}
           caller(self, scopes) ==
               [user |-> TRUE, root |-> FALSE, self |-> self,
                roles |-> {[employees |-> x, fields |-> "none", selected |-> {}] : x \in scopes}]
<1>1. PICK self \in A, scopes \in B : c = caller(self, scopes)
  <2>1. Callers(o) = {caller(self, scopes) : self \in A, scopes \in B}
    BY DEF Callers
  <2> HIDE DEF A, B, caller
  <2> QED
    BY <2>1
<1>2. c.user = TRUE /\ c.root = FALSE /\ c.self = self
  BY <1>1
<1>3. c.roles = {[employees |-> x, fields |-> "none", selected |-> {}] : x \in scopes}
  BY <1>1
<1> DEFINE given == {r.employees : r \in c.roles}
<1>4. given = scopes
  <2> DEFINE role(x) == [employees |-> x, fields |-> "none", selected |-> {}]
  <2>1. c.roles = {role(x) : x \in scopes} /\ \A x : role(x).employees = x
    BY <1>3
  <2> HIDE DEF role
  <2>2. \A x : x \in given <=> \E r \in c.roles : r.employees = x
    OBVIOUS
  <2>3. \A x : x \in given <=> x \in scopes
    BY <2>1, <2>2
  <2> HIDE DEF given
  <2> QED
    BY <2>3
<1>5. ASSUME NEW n
      PROVE  VisibilityOf(n, c) =
               CASE ~ c.user \/ c.root \/ "all" \in given -> Unrestricted
                 [] "reporting_tree" \in given /\ c.self # {} -> Only(c.self \cup Below(n, c), TRUE)
                 [] "self" \in given /\ "reporting_tree" \notin given -> Only(c.self, FALSE)
                 [] OTHER -> Only({}, FALSE)
  BY Zenon DEF VisibilityOf, EmployeeVisibility, Below
<1> HIDE DEF given
<1>6. CASE "all" \in scopes
  <2>1. scopes = {"all"}
    BY <1>6 DEF Scopes
  <2>2. "reporting_tree" \notin given /\ "self" \notin given /\ "all" \in given
    BY <1>4, <2>1
  <2>3. \A n : VisibilityOf(n, c) = Unrestricted
    BY <1>2, <1>5, <2>2
  <2> QED
    BY <1>2, <2>3
<1>7. CASE "all" \notin scopes /\ "reporting_tree" \in scopes
  <2>1. CASE c.self = {}
    <3>1. \A n : VisibilityOf(n, c) = Only({}, FALSE)
      BY <1>2, <1>4, <1>5, <1>7, <2>1
    <3> QED
      BY <1>2, <3>1
  <2>2. CASE c.self # {}
    <3>1. \A n : VisibilityOf(n, c) = Only(c.self \cup Below(n, c), TRUE)
      BY <1>2, <1>4, <1>5, <1>7, <2>2
    <3> QED
      BY <1>2, <3>1
  <2> QED
    BY <2>1, <2>2
<1>8. CASE "all" \notin scopes /\ "reporting_tree" \notin scopes /\ "self" \in scopes
  <2>1. \A n : VisibilityOf(n, c) = Only(c.self, FALSE)
    BY <1>2, <1>4, <1>5, <1>8
  <2> QED
    BY <1>2, <2>1
<1>9. CASE "all" \notin scopes /\ "reporting_tree" \notin scopes /\ "self" \notin scopes
  <2>1. \A n : VisibilityOf(n, c) = Only({}, FALSE)
    BY <1>2, <1>4, <1>5, <1>9
  <2> QED
    BY <1>2, <2>1
<1> QED
  BY <1>6, <1>7, <1>8, <1>9

\* The candidates offered are the managers accepted.
LEMMA CandidatesAreAccepted ==
    ASSUME ManagersExist, Typed, NEW e \in Employees, NEW c \in Callers(org)
    PROVE  OffersAreAccepted(org, VisibilityOf(org, c), e)
<1> DEFINE v == VisibilityOf(org, c)
<1>1. /\ Seen(v, Staff(org)) \subseteq Staff(org) /\ Staff(org) \subseteq Employees
      /\ CanAccess(v, e) /\ e \in Staff(org) => e \in Seen(v, Staff(org))
      /\ v.unrestricted => Seen(v, Staff(org)) = Staff(org)
  BY DEF Seen, CanAccess, Staff
<1> HIDE DEF v
<1>2. CASE e \in Staff(org)
  <2>1. SUFFICES ASSUME CanAccess(v, e), NEW m \in Employees \ {org[e]}
                 PROVE  m \in Offered(org, v, e) <=> UpdateAccepted(org, v, e, m)
    <3>1. Offered(org, v, e) \subseteq Employees
      BY <1>1 DEF Offered
    <3> QED
      BY <1>2, <3>1 DEF OffersAreAccepted, v
  <2>2. m \in Descendants(org, e) <=> e \in Ancestors(org, m)
    BY DEF Descendants
  <2>3. m # NoManager
    BY NoManagerAssumption
  <2> QED
    BY <1>1, <1>2, <2>1, <2>2, <2>3 DEF Offered, UpdateAccepted, ManagerAllowed
<1>3. CASE e \notin Staff(org)
  <2>1. SUFFICES ASSUME NEW m \in Employees
                 PROVE  m \in OfferedForNew(org, v) <=> CreateAccepted(org, v, e, m)
    <3>1. OfferedForNew(org, v) \subseteq Employees
      BY <1>1 DEF OfferedForNew
    <3> QED
      BY <1>3, <3>1 DEF OffersAreAccepted, v
  <2>2. m # NoManager
    BY NoManagerAssumption
  <2>3. m \in Staff(org) => e \notin Ancestors(org, m)
    BY <1>3, AncestorsExist DEF ManagersExist
  <2> QED
    BY <1>1, <1>3, <2>2, <2>3 DEF OfferedForNew, CreateAccepted, MayCreate, ManagerAllowed
<1> QED
  BY <1>2, <1>3

\* The part of the chart that a caller linked to e sees.
Tree(o, e) == ({e} \cup Descendants(o, e)) \cap Staff(o)

\* How a request that a caller may send changes that part.
KeepsSight(o, w, before, after) ==
    /\ before \ LostWith(o, w) \subseteq after
    /\ after \subseteq before \cup (IF w.op = "create" THEN {w.who} ELSE {})
    /\ w.op = "create" => w.who \in after

LEMMA StaffOfApplied ==
    ASSUME NEW o \in Charts, NEW w, Target(w), Loaded(o, w)
    PROVE  /\ w.op = "create" =>
                 Staff(Applied(o, w)) = Staff(o) \cup {w.who} /\ w.who \notin Staff(o)
           /\ w.op = "update" => Staff(Applied(o, w)) = Staff(o)
           /\ w.op = "delete" => Staff(Applied(o, w)) = Staff(o) \ {w.who}
BY NoManagerAssumption, AbsentAssumption DEF Staff, Applied, Target, Charts, Loaded, ReportsOf

LEMMA TreeAfterCreation ==
    ASSUME NEW o \in Charts, NEW w, Target(w), Loaded(o, w), w.op = "create",
           \A y \in Staff(o) : o[y] # NoManager => o[y] \in Staff(o),
           NEW e \in Staff(o), w.to \in Tree(o, e)
    PROVE  KeepsSight(o, w, Tree(o, e), Tree(Applied(o, w), e))
<1> DEFINE n == Applied(o, w)
<1>1. /\ \A y \in Employees \ {w.who} : n[y] = o[y]
      /\ n[w.who] = w.to /\ w.to \in Employees /\ w.to \in Staff(o)
  BY AppliedIsExcept DEF Target, Charts, Tree, Staff
<1>2. Staff(n) = Staff(o) \cup {w.who} /\ w.who \notin Staff(o) /\ e # w.who
  BY StaffOfApplied
<1> HIDE DEF n
<1>3. ASSUME NEW x \in Staff(o) PROVE Ancestors(n, x) = Ancestors(o, x)
  <2>1. \A y \in {x} \cup Ancestors(o, x) : n[y] = o[y]
    BY <1>1, <1>2, AncestorsExist DEF Staff
  <2> QED
    BY <2>1, SameChain
<1>4. w.to = e \/ e \in Ancestors(n, w.to)
  BY <1>1, <1>3 DEF Tree, Descendants
<1>5. e \in Ancestors(n, w.who)
  <2>1. w.to \in Ancestors(n, w.who)
    BY <1>1, AncestorsClosed
  <2> QED
    BY <1>4, <2>1, AncestorsOfAncestors
<1>6. w.who \in Tree(n, e)
  BY <1>2, <1>5 DEF Tree, Descendants, Target
<1>7. \A x \in Staff(o) : x \in Tree(n, e) <=> x \in Tree(o, e)
  BY <1>2, <1>3 DEF Tree, Descendants
<1>8. Tree(n, e) \subseteq Staff(o) \cup {w.who} /\ Tree(o, e) \subseteq Staff(o)
  BY <1>2 DEF Tree
<1> QED
  BY <1>6, <1>7, <1>8 DEF KeepsSight, n

LEMMA TreeAfterDeletion ==
    ASSUME NEW o \in Charts, NEW w, Target(w), Loaded(o, w), w.op = "delete",
           NEW e \in Staff(o), e # w.who
    PROVE  KeepsSight(o, w, Tree(o, e), Tree(Applied(o, w), e))
<1> DEFINE n == Applied(o, w)
<1>1. \A y \in Employees : n[y] = IF y = w.who THEN Absent
                                     ELSE IF o[y] = w.who THEN NoManager ELSE o[y]
  BY DEF Applied, ReportsOf, Loaded, Target
<1>2. Staff(n) = Staff(o) \ {w.who}
  BY StaffOfApplied
<1>3. \A y \in Employees : n[y] \in Employees => n[y] = o[y]
  BY <1>1, NoManagerAssumption, AbsentAssumption
<1>4. LostWith(o, w) = {w.who} \cup Descendants(o, w.who)
  BY DEF LostWith
<1> HIDE DEF n
<1>5. ASSUME NEW x \in Tree(n, e) PROVE x \in Tree(o, e)
  <2>1. x \in Staff(o) /\ x \in Employees
    BY <1>2 DEF Tree, Staff
  <2>2. Ancestors(n, x) \subseteq Ancestors(o, x)
    BY <1>3, <2>1, FewerLinks
  <2> QED
    BY <2>1, <2>2 DEF Tree, Descendants
<1>6. ASSUME NEW x \in Tree(o, e) \ LostWith(o, w) PROVE x \in Tree(n, e)
  <2>1. x \in Staff(n) /\ x \in Employees /\ x # w.who /\ w.who \notin Ancestors(o, x)
    BY <1>2, <1>4 DEF Tree, Staff, Descendants
  <2>2. \A y \in {x} \cup Ancestors(o, x) : y \in Employees /\ y # w.who /\ o[y] # w.who
    BY <2>1, AncestorsClosed DEF Upward, Target
  <2>3. \A y \in {x} \cup Ancestors(o, x) : n[y] = o[y]
    BY <1>1, <2>2
  <2>4. Ancestors(n, x) = Ancestors(o, x)
    BY <2>3, SameChain
  <2> QED
    BY <2>1, <2>4 DEF Tree, Descendants
<1> QED
  BY <1>5, <1>6 DEF KeepsSight, n

LEMMA TreeAfterMove ==
    ASSUME NEW o \in Charts, NEW w, Target(w), Loaded(o, w), w.op = "update",
           NEW e \in Staff(o), e # w.who, w.who \in Tree(o, e),
           ManagerAllowed(o, w.who, w.to), w.to # NoManager => w.to \in Tree(o, e)
    PROVE  KeepsSight(o, w, Tree(o, e), Tree(Applied(o, w), e))
<1> DEFINE n == Applied(o, w)
<1>1. /\ \A y \in Employees \ {w.who} : n[y] = o[y]
      /\ n[w.who] = w.to /\ w.who \in Employees
  BY AppliedIsExcept DEF Target, Charts
<1>2. Staff(n) = Staff(o)
  BY StaffOfApplied
<1> HIDE DEF n
\* Nobody's place changes but that of the employees below the one that moves.
<1>3. ASSUME NEW x \in Staff(o), x # w.who, w.who \notin Ancestors(o, x)
      PROVE  x \in Tree(n, e) <=> x \in Tree(o, e)
  <2>1. \A y \in {x} \cup Ancestors(o, x) : n[y] = o[y]
    BY <1>1, <1>3, AncestorsClosed DEF Staff
  <2>2. Ancestors(n, x) = Ancestors(o, x)
    BY <2>1, SameChain
  <2> QED
    BY <1>2, <2>2 DEF Tree, Descendants
\* All of those were in sight, and still are if the new manager is.
<1>4. ASSUME NEW x \in Staff(o), x = w.who \/ w.who \in Ancestors(o, x)
      PROVE  x \in Tree(o, e)
  <2>1. e \in Ancestors(o, w.who)
    BY DEF Tree, Descendants
  <2>2. e \in Ancestors(o, x)
    BY <1>4, <2>1, AncestorsOfAncestors
  <2> QED
    BY <2>2 DEF Tree, Descendants, Staff
<1>5. ASSUME NEW x \in Staff(o), x = w.who \/ w.who \in Ancestors(o, x), w.to # NoManager
      PROVE  x \in Tree(n, e)
  <2>1. w.to \in Employees /\ w.to # w.who /\ w.who \notin Ancestors(o, w.to)
    BY <1>5 DEF ManagerAllowed, Target
  <2>2. Ancestors(n, w.to) = Ancestors(o, w.to)
    <3>1. \A y \in {w.to} \cup Ancestors(o, w.to) : n[y] = o[y]
      BY <1>1, <2>1, AncestorsClosed
    <3> QED
      BY <3>1, SameChain
  <2>3. e \in Ancestors(n, w.who)
    <3>1. w.to \in Ancestors(n, w.who)
      BY <1>1, <2>1, AncestorsClosed
    <3>2. w.to = e \/ e \in Ancestors(n, w.to)
      BY <1>5, <2>2 DEF Tree, Descendants
    <3> QED
      BY <3>1, <3>2, AncestorsOfAncestors
  <2>4. x = w.who \/ w.who \in Ancestors(n, x)
    <3>1. SUFFICES ASSUME x # w.who, w.who \notin Ancestors(n, x) PROVE FALSE
      OBVIOUS
    <3>2. \A y \in {x} \cup Ancestors(n, x) : o[y] = n[y]
      BY <1>1, <3>1, AncestorsClosed DEF Staff
    <3>3. Ancestors(o, x) = Ancestors(n, x)
      BY <3>2, SameChain
    <3> QED
      BY <1>5, <3>1, <3>3
  <2>5. e \in Ancestors(n, x)
    BY <2>3, <2>4, AncestorsOfAncestors
  <2> QED
    BY <1>2, <2>5 DEF Tree, Descendants, Staff
<1>6. /\ LostWith(o, w) = IF w.to = NoManager THEN {w.who} \cup Descendants(o, w.who) ELSE {}
      /\ \A x \in Staff(o) : x \in Descendants(o, w.who) <=> w.who \in Ancestors(o, x)
  BY DEF LostWith, Descendants, Staff
<1>7. Tree(o, e) \subseteq Staff(o) /\ Tree(n, e) \subseteq Staff(o)
  BY <1>2 DEF Tree
<1>8. Tree(n, e) \subseteq Tree(o, e)
  BY <1>3, <1>4, <1>7
<1>9. Tree(o, e) \ LostWith(o, w) \subseteq Tree(n, e)
  BY <1>3, <1>5, <1>6, <1>7
<1> QED
  BY <1>8, <1>9 DEF KeepsSight, n

\* A request keeps the sight of every caller that may send it.
LEMMA RequestKeepsSight ==
    ASSUME NEW o \in Charts, NEW w, Target(w), Loaded(o, w), Applied(o, w) # o,
           \A y \in Staff(o) : o[y] # NoManager => o[y] \in Staff(o),
           NEW c \in Callers(o), MaySend(o, VisibilityOf(o, c), w), c.self # {w.who}
    PROVE  KeepsSight(o, w, Seen(VisibilityOf(o, c), Staff(o)),
                      Seen(VisibilityOf(Applied(o, w), c), Staff(Applied(o, w))))
<1> DEFINE n == Applied(o, w)
           v == VisibilityOf(o, c)
           u == VisibilityOf(n, c)
<1>1. w.op \in {"create", "update", "delete"} /\ w.who \in Employees
  BY DEF Target
<1>2. /\ w.op = "create" => Staff(n) = Staff(o) \cup {w.who} /\ w.who \notin Staff(o)
      /\ w.op = "update" => Staff(n) = Staff(o)
      /\ w.op = "delete" => Staff(n) = Staff(o) \ {w.who}
  BY StaffOfApplied
<1>3. /\ w.op = "create" => CreateAccepted(o, v, w.who, w.to)
      /\ w.op = "update" => UpdateAccepted(o, v, w.who, w.to)
      /\ w.op = "delete" => DeleteAccepted(o, v, w.who)
  BY <1>1 DEF MaySend
<1>4. w.op = "update" => w.to # o[w.who]
  BY AppliedIsExcept DEF Charts
<1>5. w.op = "delete" => w.who \in LostWith(o, w)
  BY DEF LostWith
<1>6. c.self \subseteq Staff(o) /\ \A a, b \in c.self : a = b
  BY FourVisibilities
<1>7. CASE v = Unrestricted /\ u = Unrestricted
  <2>1. Seen(v, Staff(o)) = Staff(o) /\ Seen(u, Staff(n)) = Staff(n)
    <3> HIDE DEF n, u, v
    <3> QED
      BY <1>7 DEF Seen, CanAccess, Unrestricted
  <2> HIDE DEF n, u, v
  <2> QED
    BY <1>1, <1>2, <1>5, <2>1 DEF KeepsSight, n, u, v
<1>8. CASE v = Only({}, FALSE) /\ u = Only({}, FALSE)
  <2>1. Seen(v, Staff(o)) = {} /\ Seen(u, Staff(n)) = {} /\ ~ v.unrestricted /\ ~ v.mayCreate
    <3> HIDE DEF n, u, v
    <3> QED
      BY <1>8 DEF Seen, CanAccess, Only
  <2>2. w.op # "create"
    BY <1>3, <2>1 DEF CreateAccepted, MayCreate
  <2> HIDE DEF n, u, v
  <2> QED
    BY <2>1, <2>2 DEF KeepsSight, n, u, v
<1>9. CASE v = Only(c.self, FALSE) /\ u = Only(c.self, FALSE)
  <2>1. /\ Seen(v, Staff(o)) = Staff(o) \cap c.self /\ Seen(u, Staff(n)) = Staff(n) \cap c.self
        /\ ~ v.unrestricted /\ ~ v.mayCreate
    <3> HIDE DEF n, u, v
    <3> QED
      BY <1>9 DEF Seen, CanAccess, Only
  <2>2. w.op # "create"
    BY <1>3, <2>1 DEF CreateAccepted, MayCreate
  <2> HIDE DEF n, u, v
  <2> QED
    BY <1>1, <1>2, <1>5, <2>1, <2>2 DEF KeepsSight, n, u, v
<1>10. CASE v = Only(c.self \cup Below(o, c), TRUE) /\ u = Only(c.self \cup Below(n, c), TRUE)
  <2>1. CASE c.self = {}
    <3>1. Below(o, c) = {} /\ Below(n, c) = {}
      BY <2>1 DEF Below
    <3>2. Seen(v, Staff(o)) = {} /\ Seen(u, Staff(n)) = {} /\ ~ v.unrestricted
      <4> HIDE DEF n, u, v
      <4> QED
        BY <1>10, <2>1, <3>1 DEF Seen, CanAccess, Only
    <3>3. w.op # "create"
      BY <1>3, <3>2 DEF CreateAccepted, MayCreate
    <3> HIDE DEF n, u, v
    <3> QED
      BY <3>2, <3>3 DEF KeepsSight, n, u, v
  <2>2. CASE c.self # {}
    <3>1. PICK e : c.self = {e}
      BY <1>6, <2>2
    <3>2. e \in Staff(o) /\ e # w.who
      BY <1>6, <3>1
    <3>3. Below(o, c) = Descendants(o, e) /\ Below(n, c) = Descendants(n, e)
      BY <3>1 DEF Below
    <3>4. Seen(v, Staff(o)) = Tree(o, e) /\ Seen(u, Staff(n)) = Tree(n, e) /\ ~ v.unrestricted
      <4> HIDE DEF n, u, v
      <4>1. Seen(v, Staff(o)) = Staff(o) \cap ({e} \cup Descendants(o, e))
        BY <1>10, <3>1, <3>3 DEF Seen, CanAccess, Only
      <4>2. Seen(u, Staff(n)) = Staff(n) \cap ({e} \cup Descendants(n, e))
        BY <1>10, <3>1, <3>3 DEF Seen, CanAccess, Only
      <4>3. ~ v.unrestricted
        BY <1>10 DEF Only
      <4> QED
        BY <4>1, <4>2, <4>3 DEF Tree
    <3>5. KeepsSight(o, w, Tree(o, e), Tree(n, e))
      <4>1. CASE w.op = "create"
        <5>1. w.to \in Tree(o, e)
          BY <1>3, <3>4, <4>1 DEF CreateAccepted, MayCreate
        <5> QED
          BY <3>2, <4>1, <5>1, TreeAfterCreation
      <4>2. CASE w.op = "update"
        <5>1. /\ w.who \in Tree(o, e) /\ ManagerAllowed(o, w.who, w.to)
              /\ w.to # NoManager => w.to \in Tree(o, e)
          BY <1>3, <1>4, <3>4, <4>2 DEF UpdateAccepted, Target
        <5> QED
          BY <3>2, <4>2, <5>1, TreeAfterMove
      <4>3. CASE w.op = "delete"
        BY <3>2, <4>3, TreeAfterDeletion
      <4> QED
        BY <1>1, <4>1, <4>2, <4>3
    <3> HIDE DEF n, u, v
    <3> QED
      BY <3>4, <3>5 DEF n, u, v
  <2> QED
    BY <2>1, <2>2
<1>11. \/ v = Unrestricted /\ u = Unrestricted
       \/ v = Only({}, FALSE) /\ u = Only({}, FALSE)
       \/ v = Only(c.self, FALSE) /\ u = Only(c.self, FALSE)
       \/ v = Only(c.self \cup Below(o, c), TRUE) /\ u = Only(c.self \cup Below(n, c), TRUE)
  BY FourVisibilities
<1> QED
  BY <1>7, <1>8, <1>9, <1>10, <1>11

\* With one request at a time the candidates offered to any caller are the managers its
\* request would be accepted with, and what a caller confined to a part of the chart does
\* there takes nobody out of its sight whom it does not delete or detach, and brings in
\* nobody but whom it creates (docs/system-design.md:158, employee_visibility.py:94).
THEOREM OneRequestKeepsScopes ==
    ASSUME \A s, t \in Sessions : s = t
    PROVE  OCSpec => ScopesHold
<1>1. ASSUME Typed, FreshInv, ManagersExist, [OCNext]_ocVars, NEW s \in Sessions,
             pc[s] = "idle", pc'[s] = "checked", NEW c \in Callers(org)
      PROVE  OffersAreAccepted(org, VisibilityOf(org, c), txn'[s].who)
  <2>1. pc' # pc /\ \A t \in Sessions : t = s
    BY <1>1
  <2>2. ~ UNCHANGED ocVars /\ ~ Flush(s) /\ ~ Reconcile(s) /\ ~ Commit(s) /\ ~ Rollback(s)
    BY <1>1 DEF ocVars, Flush, Reconcile, Commit, Rollback
  <2>3. PICK e \in Employees, m \in Employees \cup {NoManager} :
            BeginCreate(s, e, m) \/ BeginUpdate(s, e, m) \/ BeginDelete(s, e)
    BY <1>1, <2>1, <2>2 DEF OCNext
  <2>4. txn'[s].who = e
    BY <1>1, <2>3, BeginLoads
  <2> QED
    BY <1>1, <2>3, <2>4, CandidatesAreAccepted
<1>2. ASSUME Typed, FreshInv, ManagersExist, [OCNext]_ocVars, NEW s \in Sessions,
             pc[s] = "reconciled", org' # org, NEW c \in Callers(org),
             MaySend(org, VisibilityOf(org, c), txn[s]), c.self # {txn[s].who}
      PROVE  KeepsSight(org, txn[s], Seen(VisibilityOf(org, c), Staff(org)),
                        Seen(VisibilityOf(org', c), Staff(org')))
  <2>1. org' = Applied(org, txn[s])
    <3>1. \A t \in Sessions : t = s
      OBVIOUS
    <3> QED
      BY <1>2, <3>1 DEF OCNext, ocVars, BeginCreate, BeginUpdate, BeginDelete, Start, Flush,
                        Reconcile, Commit, Rollback
  <2>2. Target(txn[s]) /\ Loaded(org, txn[s]) /\ org \in Charts
    BY <1>2 DEF Typed, FreshInv, Fresh, Busy
  <2> QED
    BY <1>2, <2>1, <2>2, RequestKeepsSight DEF ManagersExist
<1>3. Typed /\ FreshInv /\ ManagersExist /\ [OCNext]_ocVars =>
        [\A s \in Sessions :
        /\ pc[s] = "idle" /\ pc'[s] = "checked" =>
              \A c \in Callers(org) : OffersAreAccepted(org, VisibilityOf(org, c), txn'[s].who)
        /\ pc[s] = "reconciled" /\ org' # org =>
              \A c \in Callers(org) :
                LET v == VisibilityOf(org, c)
                    w == txn[s]
                    before == Seen(v, Staff(org))
                    after  == Seen(VisibilityOf(org', c), Staff(org'))
                IN  MaySend(org, v, w) /\ c.self # {w.who} =>
                      /\ before \ LostWith(org, w) \subseteq after
                      /\ after \subseteq before \cup (IF w.op = "create" THEN {w.who} ELSE {})
                      /\ w.op = "create" => w.who \in after
        ]_ocVars
  BY <1>1, <1>2, Zenon DEF KeepsSight
<1> QED
  BY <1>3, TypedInv, FreshInvariant, ManagersAlwaysExist, PTL DEF OCSpec, ScopesHold
=============================================================================
