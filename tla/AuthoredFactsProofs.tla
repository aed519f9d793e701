------------------------- MODULE AuthoredFactsProofs -------------------------
(***************************************************************************)
(* For every set of employees, fields, values and policies: with one       *)
(* request at a time the overrides are counted right and nobody ever sees  *)
(* two values in a one-valued field; what a preview promises everyone      *)
(* sees, and what changes was announced; and the reports agree with each   *)
(* other.                                                                  *)
(***************************************************************************)
EXTENDS AssignmentReports, FiniteSetTheorems, TLAPS

OneValue(A) ==
    \A a, b \in A : a.field = b.field /\ a.field \in OneValued => a.value = b.value

\* The inductive invariant: what is committed is sound, and so is what each request
\* under way would commit.
SoundRows(t) == t.active \subseteq Policies /\ OneOverride(t.overrides)

RowsSound ==
    /\ SoundRows(facts)
    /\ \A s \in Sessions : pc[s] # "idle" => SoundRows(Changed(facts, txn[s]))

ValuesSound ==
    /\ \A e \in Employees : OneValue(shown[e])
    /\ \A s \in Sessions : pc[s] = "resolved" =>
          \A e \in DOMAIN txn[s].desired : OneValue(txn[s].desired[e])

FactsInv ==
    /\ DOMAIN txn = Sessions /\ DOMAIN pc = Sessions
    /\ RowsSound
    /\ ValuesSound

-----------------------------------------------------------------------------
\* The policy engine and the overrides give one value per one-valued field, given
\* that overrides are counted right and that a conflict has not been raised
\* (policy_engine.py:119-156, overrides.py:17-74).
LEMMA ResolutionGivesOneValue ==
    ASSUME NEW t, NEW e, NEW at, SoundRows(t), ~ Conflicts(t, e, at)
    PROVE  OneValue(Resolution(t, e, at))
<1> DEFINE own == {o \in t.overrides : o.employee = e}
           overridden == {o.field : o \in own}
           manual == {Assignment(o.field, o.value, "override", o.id) : o \in own}
           derived(f) == {Assignment(f, c[2], "version", c[1]) : c \in Winners(t, e, f, at)}
<1> SUFFICES ASSUME NEW a \in Resolution(t, e, at), NEW b \in Resolution(t, e, at),
                    a.field = b.field, a.field \in OneValued
             PROVE  a.value = b.value
  BY DEF OneValue
<1>1. \A r \in Resolution(t, e, at) :
        r \in manual \/ \E f \in Fields \ overridden : r \in derived(f)
  BY DEF Resolution
<1>2. \A r \in manual : \E o \in own : r.field = o.field /\ r.value = o.value
  BY DEF Assignment
<1>3. \A f : \A r \in derived(f) :
        \E c \in Winners(t, e, f, at) : r.field = f /\ r.value = c[2]
  BY DEF Assignment
<1> USE DEF SoundRows
<1>4. CASE a \in manual /\ b \in manual
  <2>1. PICK o \in own : a.field = o.field /\ a.value = o.value
    BY <1>4, <1>2
  <2>2. PICK x \in own : b.field = x.field /\ b.value = x.value
    BY <1>4, <1>2
  <2> QED
    BY <2>1, <2>2 DEF OneOverride
<1>5. CASE a \notin manual /\ b \notin manual
  <2>1. PICK f \in Fields \ overridden : a \in derived(f)
    BY <1>1, <1>5
  <2>2. PICK g \in Fields \ overridden : b \in derived(g)
    BY <1>1, <1>5
  <2>3. PICK c \in Winners(t, e, f, at) : a.field = f /\ a.value = c[2]
    BY <2>1, <1>3
  <2>4. PICK d \in Winners(t, e, g, at) : b.field = g /\ b.value = d[2]
    BY <2>2, <1>3
  <2>5. f = g /\ f \in OneValued
    BY <2>3, <2>4
  <2> DEFINE C == Candidates(t, e, f, at)
  <2>6. c \in C /\ d \in C /\ FirstOf(C, c) /\ FirstOf(C, d)
    BY <2>5 DEF Winners
  <2>7. \A k \in C : k[1] \in Policies
    <3>1. \A k \in C : k[1] \in t.active
      BY DEF Candidates, Matches, Effective
    <3> QED
      BY <3>1
  <2>8. c \in Best(C) /\ d \in Best(C)
    <3>1. \A k \in C : Priority[k[1]] \in Int
      BY <2>7, PoliciesAssumption
    <3> QED
      BY <2>6, <3>1 DEF FirstOf, Ahead, Best
  <2> QED
    BY <2>3, <2>4, <2>5, <2>8 DEF Conflicts
<1>6. CASE a \in manual /\ b \notin manual
  BY <1>1, <1>2, <1>3, <1>6
<1>7. CASE a \notin manual /\ b \in manual
  BY <1>1, <1>2, <1>3, <1>7
<1> QED
  BY <1>4, <1>5, <1>6, <1>7

-----------------------------------------------------------------------------
\* A request that begins with sound rows in view keeps the invariant.
LEMMA BeginKeepsInv ==
    ASSUME FactsInv, NEW s \in Sessions, NEW add, NEW del, NEW aim,
           Begin(s, add, del, aim),
           (facts.active \ del.active) \cup add.active \subseteq Policies,
           OneOverride((facts.overrides \ del.overrides) \cup add.overrides)
    PROVE  FactsInv'
<1>1. /\ pc' = [pc EXCEPT ![s] = "checked"] /\ facts' = facts /\ shown' = shown
      /\ DOMAIN txn' = Sessions /\ DOMAIN pc' = Sessions
      /\ txn'[s].add = add /\ txn'[s].del = del
      /\ \A r \in Sessions \ {s} : txn'[r] = txn[r] /\ pc'[r] = pc[r]
      /\ pc'[s] = "checked"
  BY DEF Begin, FactsInv, Idle
<1>2. SoundRows(Changed(facts, txn'[s]))
  BY <1>1 DEF SoundRows, Changed
<1>3. RowsSound'
  BY <1>1, <1>2 DEF FactsInv, RowsSound, SoundRows, Changed
<1>4. ValuesSound'
  BY <1>1 DEF FactsInv, ValuesSound, OneValue
<1> QED
  BY <1>1, <1>3, <1>4 DEF FactsInv

\* What a request may do to the overrides: nothing, retire one, or write a new one
\* that the check has let pass (employee_overrides.py:60-230).
LEMMA CheckedOverridesStaySound ==
    ASSUME OneOverride(facts.overrides), NEW e, NEW f, NEW v, NEW old,
           CardinalityOK(e, f, v, old)
    PROVE  OneOverride((facts.overrides \ old) \cup {New(e, f, v)})
<1>1. /\ New(e, f, v).employee = e /\ New(e, f, v).field = f /\ New(e, f, v).value = v
  BY DEF New
<1> QED
  BY <1>1 DEF OneOverride, CardinalityOK

\* Every operation of an administrator begins a request with sound rows in view.
LEMMA AuthorKeepsInv ==
    ASSUME FactsInv, NEW s \in Sessions, Author(s)
    PROVE  FactsInv'
<1> USE DEF FactsInv, RowsSound, SoundRows
<1>1. ASSUME NEW g \in Groups, NEW leave, NEW join, ChangeMembership(s, g, leave, join)
      PROVE  FactsInv'
  <2> DEFINE gone == (leave \X {g}) \cap facts.members
             new  == (join \X {g}) \ facts.members
             aim  == These({m[1] : m \in gone \cup new})
  <2>1. Begin(s, [NoRows EXCEPT !.members = new], [NoRows EXCEPT !.members = gone], aim)
    BY <1>1 DEF ChangeMembership
  <2>2. /\ [NoRows EXCEPT !.members = new].active = {}
        /\ [NoRows EXCEPT !.members = gone].active = {}
        /\ [NoRows EXCEPT !.members = new].overrides = {}
        /\ [NoRows EXCEPT !.members = gone].overrides = {}
    BY DEF NoRows
  <2> HIDE DEF gone, new, aim
  <2> QED
    BY <2>1, <2>2, BeginKeepsInv
<1>2. ASSUME NEW g \in Groups, NEW remove, NEW add, ChangeGroupPolicies(s, g, remove, add)
      PROVE  FactsInv'
  BY <1>2, BeginKeepsInv DEF ChangeGroupPolicies, NoRows
<1>3. ASSUME NEW p \in Policies, ChangePolicy(s, p)
      PROVE  FactsInv'
  BY <1>3, BeginKeepsInv DEF ChangePolicy, NoRows
<1>4. ASSUME NEW e \in Employees, NEW p \in Conditional, ChangeFact(s, e, p)
      PROVE  FactsInv'
  BY <1>4, BeginKeepsInv DEF ChangeFact, NoRows
<1>5. ASSUME NEW e \in Employees, NEW f \in Fields, NEW v \in Values, CreateOverride(s, e, f, v)
      PROVE  FactsInv'
  <2>1. OneOverride((facts.overrides \ {}) \cup {New(e, f, v)})
    BY <1>5, CheckedOverridesStaySound DEF CreateOverride
  <2> QED
    BY <1>5, <2>1, BeginKeepsInv DEF CreateOverride, NoRows
<1>6. ASSUME NEW o \in facts.overrides, NEW f \in Fields, NEW v \in Values,
             UpdateOverride(s, o, f, v)
      PROVE  FactsInv'
  <2>1. OneOverride((facts.overrides \ {o}) \cup {New(o.employee, f, v)})
    BY <1>6, CheckedOverridesStaySound DEF UpdateOverride
  <2> QED
    BY <1>6, <2>1, BeginKeepsInv DEF UpdateOverride, NoRows
<1>7. ASSUME NEW o \in facts.overrides, DeleteOverride(s, o)
      PROVE  FactsInv'
  <2>1. OneOverride(facts.overrides \ {o})
    BY DEF OneOverride
  <2> QED
    BY <1>7, <2>1, BeginKeepsInv DEF DeleteOverride, NoRows
<1>8. ASSUME NEW e \in Employees, Refresh(s, e)
      PROVE  FactsInv'
  BY <1>8, BeginKeepsInv DEF Refresh, NoRows
<1> QED
  BY <1>1, <1>2, <1>3, <1>4, <1>5, <1>6, <1>7, <1>8 DEF Author, MembershipRequest, GroupPolicyRequest,
                                                             OverrideRequest

\* With one request at a time every step keeps the invariant.
LEMMA FactsInvInductive ==
    ASSUME \A s, t \in Sessions : s = t
    PROVE  /\ AFInit => FactsInv
           /\ FactsInv /\ [AFNext]_afVars => FactsInv'
<1>1. AFInit => FactsInv
  BY DEF AFInit, FactsInv, RowsSound, SoundRows, ValuesSound, OneOverride, OneValue, NoRows
<1>2. ASSUME FactsInv, [AFNext]_afVars
      PROVE  FactsInv'
  <2>1. CASE UNCHANGED afVars
    BY <1>2, <2>1 DEF afVars, FactsInv, RowsSound, SoundRows, ValuesSound, OneOverride,
                      OneValue, Changed
  <2>2. ASSUME NEW s \in Sessions, Author(s)
        PROVE  FactsInv'
    BY <1>2, <2>2, AuthorKeepsInv
  <2>3. ASSUME NEW s \in Sessions, ClaimEvents(s)
        PROVE  FactsInv'
    <3>1. /\ facts' = facts /\ shown' = shown /\ pc'[s] = "flushed"
          /\ DOMAIN txn' = Sessions /\ DOMAIN pc' = Sessions
          /\ txn'[s].add = NoRows /\ txn'[s].del = NoRows
      BY <1>2, <2>3 DEF ClaimEvents, FactsInv, Idle
    <3>2. SoundRows(Changed(facts, txn'[s]))
      BY <1>2, <3>1 DEF FactsInv, RowsSound, SoundRows, Changed, NoRows
    <3> QED
      BY <1>2, <3>1, <3>2 DEF FactsInv, RowsSound, SoundRows, ValuesSound, OneValue, Changed
  <2>4. ASSUME NEW s \in Sessions, Flush(s)
        PROVE  FactsInv'
    BY <1>2, <2>4 DEF Flush, FactsInv, RowsSound, SoundRows, ValuesSound, OneValue, Changed
  <2>5. ASSUME NEW s \in Sessions, Reconcile(s)
        PROVE  FactsInv'
    <3> DEFINE now == Changed(facts, txn[s])
               ids == Reconciled(now, txn[s].aim)
    <3>1. /\ pc[s] = "flushed" /\ facts' = facts /\ shown' = shown
          /\ DOMAIN txn' = Sessions /\ DOMAIN pc' = Sessions
          /\ txn'[s].add = txn[s].add /\ txn'[s].del = txn[s].del
          /\ txn'[s].desired = [e \in ids |-> Resolution(now, e, passed)]
          /\ \A e \in ids : ~ Conflicts(now, e, passed)
      BY <1>2, <2>5 DEF Reconcile, FactsInv
    <3>2. SoundRows(now)
      BY <1>2, <3>1 DEF FactsInv, RowsSound
    <3>3. \A e \in ids : OneValue(Resolution(now, e, passed))
      BY <3>1, <3>2, ResolutionGivesOneValue
    <3>4. SoundRows(Changed(facts, txn'[s]))
      BY <3>1, <3>2 DEF Changed
    <3>5. \A e \in DOMAIN txn'[s].desired : OneValue(txn'[s].desired[e])
      BY <3>1, <3>3
    <3>6. RowsSound'
      BY <1>2, <3>1, <3>4 DEF FactsInv, RowsSound, SoundRows, Changed
    <3>7. ValuesSound'
      <4>1. \A e \in Employees : OneValue(shown'[e])
        BY <1>2, <3>1 DEF FactsInv, ValuesSound
      <4> HIDE DEF ids, now
      <4> QED
        BY <3>5, <4>1 DEF ValuesSound, OneValue
    <3> QED
      BY <3>1, <3>6, <3>7 DEF FactsInv
  <2>6. ASSUME NEW s \in Sessions, Commit(s)
        PROVE  FactsInv'
    <3>1. /\ pc[s] = "resolved" /\ facts' = Changed(facts, txn[s]) /\ pc'[s] = "idle"
          /\ DOMAIN txn' = Sessions /\ DOMAIN pc' = Sessions
          /\ \A e \in Employees : shown'[e] = IF e \in DOMAIN txn[s].desired
                                              THEN txn[s].desired[e] ELSE shown[e]
      BY <1>2, <2>6 DEF Commit, FactsInv
    <3>2. SoundRows(facts')
      BY <1>2, <3>1 DEF FactsInv, RowsSound
    <3>3. \A e \in Employees : OneValue(shown'[e])
      BY <1>2, <3>1 DEF FactsInv, ValuesSound
    <3> QED
      BY <3>1, <3>2, <3>3 DEF FactsInv, RowsSound, SoundRows, ValuesSound, OneValue
  <2>7. ASSUME NEW s \in Sessions, Rollback(s)
        PROVE  FactsInv'
    BY <1>2, <2>7 DEF Rollback, FactsInv, RowsSound, SoundRows, ValuesSound, OneValue, Changed
  <2>8. ASSUME NEW p \in Dated, PassBoundary(p)
        PROVE  FactsInv'
    BY <1>2, <2>8 DEF PassBoundary, FactsInv, RowsSound, SoundRows, ValuesSound, OneValue, Changed
  <2> QED
    BY <1>2, <2>1, <2>2, <2>3, <2>4, <2>5, <2>6, <2>7, <2>8 DEF AFNext
<1> QED
  BY <1>1, <1>2

\* With one request at a time a one-valued field never has two active overrides, nor
\* any field two of the same value, whoever creates, changes and removes them
\* (employee_overrides.py:196-230).
THEOREM OverridesStayCounted ==
    ASSUME \A s, t \in Sessions : s = t
    PROVE  AFSpec => []OverridesCounted
<1>1. FactsInv => OverridesCounted
  BY DEF FactsInv, RowsSound, SoundRows, OverridesCounted
<1> QED
  BY <1>1, FactsInvInductive, PTL DEF AFSpec

\* With one request at a time nobody ever sees two values in a one-valued field,
\* whatever policies, groups, facts and overrides combine (policy_engine.py:119-156,
\* overrides.py:17-74).
THEOREM OneValueAtATime ==
    ASSUME \A s, t \in Sessions : s = t
    PROVE  AFSpec => []OneValueShown
<1>1. FactsInv => OneValueShown
  BY DEF FactsInv, ValuesSound, OneValue, OneValueShown
<1> QED
  BY <1>1, FactsInvInductive, PTL DEF AFSpec

-----------------------------------------------------------------------------
\* Types, for any number of requests at once.

\* An assignment that names a policy or an override created so far.
Known(a, n) ==
    /\ a.field \in Fields /\ a.value \in Values
    /\ a.source \in ({"version"} \X Policies) \cup ({"override"} \X (1 .. n))

\* Rows in which overrides are among the n created so far.
Rows(t, n) == t \in Table /\ \A o \in t.overrides : o.id \in 1 .. n

\* What request w writes is within its aim: about certain employees, about the
\* policies of a group, or about anything.
Aimed(w) ==
    /\ w.aim.kind \in {"these", "group", "all"}
    /\ w.aim.kind = "these" =>
          /\ \A m \in w.add.members \cup w.del.members : m[1] \in w.aim.of
          /\ \A m \in w.add.satisfied \cup w.del.satisfied : m[1] \in w.aim.of
          /\ \A o \in w.add.overrides \cup w.del.overrides : o.employee \in w.aim.of
          /\ w.add.attached = {} /\ w.del.attached = {}
          /\ w.add.active = {} /\ w.del.active = {}
    /\ w.aim.kind = "group" =>
          /\ \A m \in w.add.attached \cup w.del.attached : m[1] = w.aim.of
          /\ w.add.members = {} /\ w.del.members = {}
          /\ w.add.satisfied = {} /\ w.del.satisfied = {}
          /\ w.add.overrides = {} /\ w.del.overrides = {}
          /\ w.add.active = {} /\ w.del.active = {}

Request(w) ==
    /\ DOMAIN w = {"add", "del", "aim", "events", "desired"}
    /\ Rows(w.add, created) /\ Aimed(w) /\ w.events \subseteq passed
    /\ w.events # {} => w.aim.kind = "all"
    /\ \A e \in DOMAIN w.desired : \A a \in w.desired[e] : Known(a, created)

TypesInv ==
    /\ Rows(facts, created)
    /\ processed \subseteq passed /\ passed \subseteq Boundaries
    /\ created \in 0 .. MaxOverrides
    /\ pc \in [Sessions -> {"idle", "checked", "flushed", "resolved"}]
    /\ DOMAIN txn = Sessions /\ \A s \in Sessions : Request(txn[s])
    /\ \A e \in Employees : \A a \in shown[e] : Known(a, created)

LEMMA IdleRequest ==
    ASSUME NEW ev \in SUBSET passed, NEW w, w = [Idle EXCEPT !.events = ev], created \in Nat
    PROVE  Request(w) /\ w.events = ev /\ w.add = NoRows /\ w.del = NoRows /\ w.aim.kind = "all"
<1>1. /\ w.events = ev /\ w.add = NoRows /\ w.del = NoRows /\ w.aim.kind = "all" /\ w.desired = <<>>
      /\ DOMAIN w = {"add", "del", "aim", "events", "desired"}
  BY DEF Idle, Everybody
<1>2. NoRows \in Table /\ NoRows.overrides = {}
  BY DEF NoRows, Table
<1>3. DOMAIN w.desired = {}
  BY <1>1
<1> QED
  BY <1>1, <1>2, <1>3 DEF Request, Rows, Aimed

LEMMA ChangedRows ==
    ASSUME NEW n, NEW t, NEW w, Rows(t, n), Rows(w.add, n)
    PROVE  Rows(Changed(t, w), n)
<1>1. /\ t.members \subseteq Employees \X Groups /\ t.attached \subseteq Groups \X Policies
      /\ t.active \subseteq Policies /\ t.satisfied \subseteq Employees \X Policies
      /\ t.overrides \subseteq Override /\ \A o \in t.overrides : o.id \in 1 .. n
  BY DEF Rows, Table
<1>2. /\ w.add.members \subseteq Employees \X Groups /\ w.add.attached \subseteq Groups \X Policies
      /\ w.add.active \subseteq Policies /\ w.add.satisfied \subseteq Employees \X Policies
      /\ w.add.overrides \subseteq Override /\ \A o \in w.add.overrides : o.id \in 1 .. n
  BY DEF Rows, Table
<1> QED
  BY <1>1, <1>2 DEF Changed, Rows, Table

\* More rows may be known later.
LEMMA KnownLater ==
    ASSUME NEW m \in Nat, NEW n \in Nat, m <= n
    PROVE  /\ \A t : Rows(t, m) => Rows(t, n)
           /\ \A a : Known(a, m) => Known(a, n)
<1>1. 1 .. m \subseteq 1 .. n
  OBVIOUS
<1>2. \A t : Rows(t, m) => Rows(t, n)
  BY <1>1 DEF Rows
<1>3. \A a : Known(a, m) => Known(a, n)
  BY <1>1 DEF Known
<1> QED
  BY <1>2, <1>3

\* The engine and the overrides know what they assign.
LEMMA ResolutionKnown ==
    ASSUME NEW t, NEW n, Rows(t, n), NEW e, NEW at
    PROVE  \A a \in Resolution(t, e, at) : Known(a, n)
<1> DEFINE own == {o \in t.overrides : o.employee = e}
           manual == {Assignment(o.field, o.value, "override", o.id) : o \in own}
           derived(f) == {Assignment(f, c[2], "version", c[1]) : c \in Winners(t, e, f, at)}
<1>1. t \in Table /\ \A o \in t.overrides : o.id \in 1 .. n
  BY DEF Rows
<1>2. \A o \in own : o.field \in Fields /\ o.value \in Values
  BY <1>1 DEF Table, Override
<1>3. \A a \in manual : Known(a, n)
  <2>1. ASSUME NEW o \in own PROVE Known(Assignment(o.field, o.value, "override", o.id), n)
    BY <1>1, <1>2 DEF Known, Assignment
  <2> QED
    BY <2>1
<1>4. ASSUME NEW f \in Fields, NEW c \in Winners(t, e, f, at)
      PROVE  Known(Assignment(f, c[2], "version", c[1]), n)
  <2>1. c[1] \in t.active /\ c[2] \in Values
    BY DEF Winners, Candidates, Matches, Effective
  <2>2. c[1] \in Policies
    BY <1>1, <2>1 DEF Table
  <2> QED
    BY <2>1, <2>2 DEF Known, Assignment
<1>5. \A a \in Resolution(t, e, at) : a \in manual \/ \E f \in Fields : a \in derived(f)
  BY DEF Resolution
<1> QED
  BY <1>3, <1>4, <1>5

\* A request that begins.
LEMMA BeginTyped ==
    ASSUME TypesInv, NEW s \in Sessions, NEW add, NEW del, NEW aim, Begin(s, add, del, aim),
           created' \in created .. MaxOverrides, Rows(add, created'),
           \A w : w.add = add /\ w.del = del /\ w.aim = aim => Aimed(w)
    PROVE  TypesInv'
<1>0. created \in Nat /\ created' \in Nat /\ created <= created' /\ MaxOverrides \in Nat
  BY OverridesAssumption DEF TypesInv
<1>1. /\ \A t : Rows(t, created) => Rows(t, created')
      /\ \A a : Known(a, created) => Known(a, created')
  BY <1>0, KnownLater
<1>2. /\ facts' = facts /\ passed' = passed /\ processed' = processed /\ shown' = shown
      /\ pc' = [pc EXCEPT ![s] = "checked"] /\ DOMAIN txn' = Sessions
      /\ \A r \in Sessions \ {s} : txn'[r] = txn[r]
      /\ txn'[s].add = add /\ txn'[s].del = del /\ txn'[s].aim = aim
      /\ txn'[s].events = {} /\ txn'[s].desired = <<>>
      /\ DOMAIN txn'[s] = {"add", "del", "aim", "events", "desired"}
  BY DEF Begin, TypesInv, Idle
<1>3. Request(txn[s])'
  <2>1. DOMAIN txn'[s].desired = {}
    BY <1>2
  <2>2. Aimed(txn'[s])
    BY <1>2
  <2> QED
    BY <1>2, <2>1, <2>2 DEF Request, Aimed
<1>4. ASSUME NEW r \in Sessions, r # s
      PROVE  Request(txn[r])'
  <2>1. Request(txn[r]) /\ txn'[r] = txn[r]
    BY <1>2, <1>4 DEF TypesInv
  <2> QED
    BY <1>1, <1>2, <2>1 DEF Request, Aimed
<1>5. \A r \in Sessions : Request(txn[r])'
  BY <1>3, <1>4
<1>6. pc' \in [Sessions -> {"idle", "checked", "flushed", "resolved"}]
  BY <1>2 DEF TypesInv
<1> QED
  BY <1>0, <1>1, <1>2, <1>5, <1>6 DEF TypesInv

\* Every operation of an administrator begins a request that keeps to its aim.
LEMMA AuthorTyped ==
    ASSUME TypesInv, NEW s \in Sessions, Author(s)
    PROVE  TypesInv'
<1>0. /\ facts \in Table /\ \A o \in facts.overrides : o.id \in 1 .. created
      /\ created \in Nat /\ MaxOverrides \in Nat /\ created <= MaxOverrides
      /\ created \in created .. MaxOverrides
  BY OverridesAssumption DEF TypesInv, Rows
<1>n. /\ NoRows \in Table /\ NoRows.members = {} /\ NoRows.attached = {} /\ NoRows.active = {}
      /\ NoRows.satisfied = {} /\ NoRows.overrides = {} /\ Rows(NoRows, created)
  BY DEF NoRows, Table, Rows
<1>1. ASSUME NEW g \in Groups, NEW leave \in SUBSET Employees, NEW join \in SUBSET Employees,
             ChangeMembership(s, g, leave, join)
      PROVE  TypesInv'
  <2> DEFINE gone == (leave \X {g}) \cap facts.members
             new  == (join \X {g}) \ facts.members
             add  == [NoRows EXCEPT !.members = new]
             del  == [NoRows EXCEPT !.members = gone]
             aim  == These({m[1] : m \in gone \cup new})
  <2>1. Begin(s, add, del, aim) /\ created' = created
    BY <1>1 DEF ChangeMembership
  <2>2. new \subseteq Employees \X Groups /\ \A m \in gone \cup new : m[1] \in aim.of
    BY DEF These
  <2>3. aim.kind = "these"
    BY DEF These
  <2> HIDE DEF gone, new, aim
  <2>4. Rows(add, created)
    BY <1>n, <2>2 DEF Rows, Table
  <2>5. /\ add.members = new /\ del.members = gone
        /\ add.satisfied = {} /\ del.satisfied = {} /\ add.overrides = {} /\ del.overrides = {}
        /\ add.attached = {} /\ del.attached = {} /\ add.active = {} /\ del.active = {}
    BY <1>n DEF NoRows
  <2> HIDE DEF add, del
  <2>6. \A w : w.add = add /\ w.del = del /\ w.aim = aim => Aimed(w)
    BY <2>2, <2>3, <2>5 DEF Aimed
  <2> QED
    BY <1>0, <2>1, <2>4, <2>6, BeginTyped
<1>2. ASSUME NEW g \in Groups, NEW remove \in SUBSET Policies, NEW more \in SUBSET Policies,
             ChangeGroupPolicies(s, g, remove, more)
      PROVE  TypesInv'
  <2> DEFINE gone == ({g} \X remove) \cap facts.attached
             new  == ({g} \X more) \ facts.attached
             add  == [NoRows EXCEPT !.attached = new]
             del  == [NoRows EXCEPT !.attached = gone]
             aim  == MembersOf(g)
  <2>1. Begin(s, add, del, aim) /\ created' = created
    BY <1>2 DEF ChangeGroupPolicies
  <2>2. new \subseteq Groups \X Policies /\ \A m \in gone \cup new : m[1] = aim.of
    BY DEF MembersOf
  <2>3. aim.kind = "group"
    BY DEF MembersOf
  <2> HIDE DEF gone, new, aim
  <2>4. Rows(add, created)
    BY <1>n, <2>2 DEF Rows, Table
  <2>5. /\ add.attached = new /\ del.attached = gone
        /\ add.satisfied = {} /\ del.satisfied = {} /\ add.overrides = {} /\ del.overrides = {}
        /\ add.members = {} /\ del.members = {} /\ add.active = {} /\ del.active = {}
    BY <1>n DEF NoRows
  <2> HIDE DEF add, del
  <2>6. \A w : w.add = add /\ w.del = del /\ w.aim = aim => Aimed(w)
    BY <2>2, <2>3, <2>5 DEF Aimed
  <2> QED
    BY <1>0, <2>1, <2>4, <2>6, BeginTyped
<1>3. ASSUME NEW p \in Policies, ChangePolicy(s, p)
      PROVE  TypesInv'
  <2>1. \A w : w.aim = Everybody => Aimed(w)
    BY DEF Aimed, Everybody
  <2>2. Rows([NoRows EXCEPT !.active = {p}], created)
    BY <1>n DEF Rows, Table
  <2>3. \/ Begin(s, NoRows, [NoRows EXCEPT !.active = {p}], Everybody)
        \/ Begin(s, [NoRows EXCEPT !.active = {p}], NoRows, Everybody)
    BY <1>3 DEF ChangePolicy
  <2>4. created' = created
    BY <1>3 DEF ChangePolicy
  <2> QED
    BY <1>0, <1>n, <2>1, <2>2, <2>3, <2>4, BeginTyped
<1>4. ASSUME NEW e \in Employees, NEW p \in Policies, ChangeFact(s, e, p)
      PROVE  TypesInv'
  <2> DEFINE one == [NoRows EXCEPT !.satisfied = {<<e, p>>}]
  <2>1. /\ one.satisfied = {<<e, p>>} /\ one.members = {} /\ one.overrides = {}
        /\ one.attached = {} /\ one.active = {} /\ Rows(one, created)
    BY <1>n DEF NoRows, Rows, Table
  <2>2. These({e}).kind = "these" /\ These({e}).of = {e}
    BY DEF These
  <2>3. /\ created' = created
        /\ Begin(s, NoRows, one, These({e})) \/ Begin(s, one, NoRows, These({e}))
    BY <1>4 DEF ChangeFact
  <2> HIDE DEF one
  <2>4. \A w : w.aim = These({e}) /\ {w.add, w.del} = {one, NoRows} => Aimed(w)
    BY <1>n, <2>1, <2>2 DEF Aimed
  <2>5. /\ \A w : w.add = NoRows /\ w.del = one /\ w.aim = These({e}) => Aimed(w)
        /\ \A w : w.add = one /\ w.del = NoRows /\ w.aim = These({e}) => Aimed(w)
    BY <2>4
  <2> QED
    BY <1>0, <1>n, <2>1, <2>3, <2>5, BeginTyped
\* Of the overrides of e some are retired, and a new one may be written.
<1>5. ASSUME NEW e \in Employees, NEW old \in SUBSET facts.overrides, NEW new \in SUBSET Override,
             \A o \in old \cup new : o.employee = e, created' \in created .. MaxOverrides,
             \A o \in new : o.id \in 1 .. created',
             Begin(s, [NoRows EXCEPT !.overrides = new], [NoRows EXCEPT !.overrides = old],
                   These({e}))
      PROVE  TypesInv'
  <2> DEFINE add == [NoRows EXCEPT !.overrides = new]
             del == [NoRows EXCEPT !.overrides = old]
  <2>1. /\ add.overrides = new /\ add.members = {} /\ add.satisfied = {}
        /\ add.attached = {} /\ add.active = {}
        /\ del.overrides = old /\ del.members = {} /\ del.satisfied = {}
        /\ del.attached = {} /\ del.active = {}
        /\ add \in Table
    BY <1>n DEF NoRows, Table
  <2>2. These({e}).kind = "these" /\ These({e}).of = {e}
    BY DEF These
  <2>3. Begin(s, add, del, These({e}))
    BY <1>5
  <2> HIDE DEF add, del
  <2>4. Rows(add, created')
    BY <1>5, <2>1 DEF Rows
  <2>5. \A w : w.add = add /\ w.del = del /\ w.aim = These({e}) => Aimed(w)
    BY <1>5, <2>1, <2>2 DEF Aimed
  <2> QED
    BY <1>5, <2>3, <2>4, <2>5, BeginTyped
<1>6. ASSUME NEW e \in Employees, NEW f \in Fields, NEW v \in Values, created < MaxOverrides
      PROVE  New(e, f, v) \in Override /\ New(e, f, v).employee = e /\ New(e, f, v).id = created + 1
  BY <1>0, <1>6 DEF New, Override
<1>7. ASSUME NEW e \in Employees, NEW f \in Fields, NEW v \in Values, CreateOverride(s, e, f, v)
      PROVE  TypesInv'
  <2> DEFINE new == {New(e, f, v)}
  <2>1. created < MaxOverrides /\ created' = created + 1
    BY <1>7 DEF CreateOverride
  <2>2. /\ new \in SUBSET Override /\ \A o \in new : o.employee = e /\ o.id \in 1 .. created'
        /\ created' \in created .. MaxOverrides
    BY <1>0, <1>6, <2>1
  <2>3. Begin(s, [NoRows EXCEPT !.overrides = new], [NoRows EXCEPT !.overrides = {}], These({e}))
    <3>1. [NoRows EXCEPT !.overrides = {}] = NoRows
      BY DEF NoRows
    <3> QED
      BY <1>7, <3>1 DEF CreateOverride
  <2> HIDE DEF new
  <2>4. /\ {} \in SUBSET facts.overrides /\ \A o \in {} \cup new : o.employee = e
        /\ \A o \in new : o.id \in 1 .. created'
    BY <2>2
  <2> QED
    BY <1>5, <2>2, <2>3, <2>4
<1>8. ASSUME NEW o \in facts.overrides, NEW f \in Fields, NEW v \in Values, UpdateOverride(s, o, f, v)
      PROVE  TypesInv'
  <2> DEFINE e == o.employee
             new == {New(e, f, v)}
             old == {o}
  <2>1. created < MaxOverrides /\ created' = created + 1
    BY <1>8 DEF UpdateOverride
  <2>2. e \in Employees
    BY <1>0 DEF Table, Override
  <2>3. /\ new \in SUBSET Override /\ \A x \in old \cup new : x.employee = e
        /\ \A x \in new : x.id \in 1 .. created'
        /\ created' \in created .. MaxOverrides /\ old \in SUBSET facts.overrides
    BY <1>0, <1>6, <2>1, <2>2
  <2>4. Begin(s, [NoRows EXCEPT !.overrides = new], [NoRows EXCEPT !.overrides = old], These({e}))
    BY <1>8 DEF UpdateOverride
  <2> HIDE DEF new, e, old
  <2> QED
    BY <1>5, <2>2, <2>3, <2>4
<1>9. ASSUME NEW o \in facts.overrides, DeleteOverride(s, o)
      PROVE  TypesInv'
  <2> DEFINE e == o.employee
             old == {o}
  <2>1. e \in Employees /\ created' = created /\ \A x \in old \cup {} : x.employee = e
    BY <1>0, <1>9 DEF Table, Override, DeleteOverride
  <2>2. Begin(s, [NoRows EXCEPT !.overrides = {}], [NoRows EXCEPT !.overrides = old], These({e}))
    <3>1. [NoRows EXCEPT !.overrides = {}] = NoRows
      BY DEF NoRows
    <3> QED
      BY <1>9, <3>1 DEF DeleteOverride
  <2>3. old \in SUBSET facts.overrides /\ {} \in SUBSET Override
    OBVIOUS
  <2> HIDE DEF e, old
  <2> QED
    BY <1>0, <1>5, <2>1, <2>2, <2>3
<1>10. ASSUME NEW e \in Employees, Refresh(s, e)
       PROVE  TypesInv'
  <2>1. Begin(s, NoRows, NoRows, These({e})) /\ created' = created
    BY <1>10 DEF Refresh
  <2>2. \A w : w.add = NoRows /\ w.del = NoRows /\ w.aim = These({e}) => Aimed(w)
    BY <1>n DEF Aimed, These
  <2> QED
    BY <1>0, <1>n, <2>1, <2>2, BeginTyped
<1>11. Conditional \subseteq Policies
  BY KindsAssumption
<1> QED
  BY <1>1, <1>2, <1>3, <1>4, <1>7, <1>8, <1>9, <1>10, <1>11
     DEF Author, MembershipRequest, GroupPolicyRequest, OverrideRequest

LEMMA IdleTyped == ASSUME TypesInv PROVE Request(Idle)
<1>1. PICK w : w = [Idle EXCEPT !.events = {}]
  OBVIOUS
<1>2. created \in Nat
  BY OverridesAssumption DEF TypesInv
<1>3. w = Idle
  BY <1>1 DEF Idle
<1>4. Request(w)
  BY <1>1, <1>2, IdleRequest
<1> QED
  BY <1>3, <1>4

LEMMA TypesStep == ASSUME TypesInv, [AFNext]_afVars PROVE TypesInv'
<1>0. created \in Nat /\ MaxOverrides \in Nat
  BY OverridesAssumption DEF TypesInv
<1>1. CASE UNCHANGED afVars
  BY <1>1 DEF afVars, TypesInv, Request, Aimed
<1>2. ASSUME NEW s \in Sessions, NEW w,
             facts' = facts /\ passed' = passed /\ processed' = processed,
             shown' = shown /\ created' = created,
             NEW at \in {"idle", "checked", "flushed", "resolved"}, pc' = [pc EXCEPT ![s] = at],
             txn' = [txn EXCEPT ![s] = w], Request(w)
      PROVE  TypesInv'
  <2>1. /\ DOMAIN txn' = Sessions
        /\ \A r \in Sessions : Request(txn'[r])
    BY <1>2 DEF TypesInv
  <2>2. \A r \in Sessions : Request(txn[r])'
    BY <1>2, <2>1 DEF Request, Aimed
  <2> QED
    BY <1>2, <2>1, <2>2 DEF TypesInv
<1>3. ASSUME NEW s \in Sessions, ClaimEvents(s) PROVE TypesInv'
  <2> DEFINE ev == passed \ processed
  <2>1. PICK w : w = [Idle EXCEPT !.events = ev]
    OBVIOUS
  <2>2. Request(w)
    BY <1>0, <2>1, IdleRequest
  <2>3. /\ pc' = [pc EXCEPT ![s] = "flushed"] /\ txn' = [txn EXCEPT ![s] = w]
        /\ facts' = facts /\ passed' = passed /\ processed' = processed
        /\ shown' = shown /\ created' = created
    BY <1>3, <2>1 DEF ClaimEvents
  <2> QED
    BY <1>2, <2>2, <2>3
<1>4. ASSUME NEW s \in Sessions, Flush(s) PROVE TypesInv'
  <2>1. /\ facts' = facts /\ passed' = passed /\ processed' = processed
        /\ shown' = shown /\ created' = created /\ txn' = txn
        /\ pc' = [pc EXCEPT ![s] = "flushed"]
    BY <1>4 DEF Flush
  <2>2. \A r \in Sessions : Request(txn[r])'
    BY <2>1 DEF TypesInv, Request, Aimed
  <2> QED
    BY <2>1, <2>2 DEF TypesInv
<1>5. ASSUME NEW s \in Sessions, Reconcile(s) PROVE TypesInv'
  <2> DEFINE now == Changed(facts, txn[s])
             ids == Reconciled(now, txn[s].aim)
             des == [e \in ids |-> Resolution(now, e, passed)]
  <2>1. PICK w : w = [txn[s] EXCEPT !.desired = des]
    OBVIOUS
  <2>2. Request(txn[s]) /\ Rows(now, created)
    BY ChangedRows DEF TypesInv, Request
  <2>3. \A e \in DOMAIN des : \A a \in des[e] : Known(a, created)
    BY <2>2, ResolutionKnown
  <2>4. txn' = [txn EXCEPT ![s] = w]
    BY <1>5, <2>1 DEF Reconcile
  <2>5. /\ pc' = [pc EXCEPT ![s] = "resolved"]
        /\ facts' = facts /\ passed' = passed /\ processed' = processed
        /\ shown' = shown /\ created' = created
    BY <1>5 DEF Reconcile
  <2> HIDE DEF des
  <2>6. /\ w.add = txn[s].add /\ w.del = txn[s].del /\ w.aim = txn[s].aim /\ w.events = txn[s].events
        /\ w.desired = des /\ DOMAIN w = {"add", "del", "aim", "events", "desired"}
    BY <2>1, <2>2 DEF Request
  <2>7. Request(w)
    BY <2>2, <2>3, <2>6 DEF Request, Aimed
  <2> QED
    BY <1>2, <2>4, <2>5, <2>7
<1>6. ASSUME NEW s \in Sessions, Commit(s) PROVE TypesInv'
  <2> DEFINE w == txn[s]
  <2>1. /\ facts' = Changed(facts, w) /\ passed' = passed /\ created' = created
        /\ processed' = processed \cup w.events
        /\ \A e \in Employees : shown'[e] \in {w.desired[e], shown[e]}
                                  /\ (e \notin DOMAIN w.desired => shown'[e] = shown[e])
        /\ pc' = [pc EXCEPT ![s] = "idle"] /\ txn' = [txn EXCEPT ![s] = Idle]
    BY <1>6 DEF Commit
  <2>2. Request(w)
    BY DEF TypesInv
  <2> HIDE DEF w
  <2>3. Rows(facts', created')
    BY <2>1, <2>2, ChangedRows DEF TypesInv, Request
  <2>4. processed' \subseteq passed' /\ passed' \subseteq Boundaries
    BY <2>1, <2>2 DEF TypesInv, Request
  <2>5. \A e \in Employees : \A a \in shown'[e] : Known(a, created')
    BY <2>1, <2>2 DEF TypesInv, Request
  <2>6. \A r \in Sessions : Request(txn'[r])
    BY <2>1, IdleTyped DEF TypesInv
  <2>7. \A r \in Sessions : Request(txn[r])'
    BY <2>1, <2>6 DEF Request, Aimed
  <2> QED
    BY <1>0, <2>1, <2>3, <2>4, <2>5, <2>7 DEF TypesInv
<1>7. ASSUME NEW s \in Sessions, Rollback(s) PROVE TypesInv'
  BY <1>2, <1>7, IdleTyped DEF Rollback
<1>8. ASSUME NEW p \in Dated, PassBoundary(p) PROVE TypesInv'
  <2>1. /\ facts' = facts /\ processed' = processed /\ shown' = shown /\ created' = created
        /\ pc' = pc /\ txn' = txn
        /\ \E b \in {p} \X {"becomes_effective", "expires"} : passed' = passed \cup {b}
    BY <1>8 DEF PassBoundary
  <2>2. passed \subseteq passed' /\ passed' \subseteq Boundaries
    BY <2>1 DEF TypesInv, Boundaries
  <2>3. \A r \in Sessions : Request(txn[r])'
    BY <2>1, <2>2 DEF TypesInv, Request, Aimed
  <2> QED
    BY <2>1, <2>2, <2>3 DEF TypesInv
<1> QED
  BY <1>1, <1>3, <1>4, <1>5, <1>6, <1>7, <1>8, AuthorTyped DEF AFNext

-----------------------------------------------------------------------------
\* Whom a mutation does not reconcile it does not concern.

SameFor(t, u, e) ==
    /\ t.active = u.active
    /\ \A p : Directly(t, e, p) <=> Directly(u, e, p)
    /\ \A p : ThroughGroup(t, e, p) <=> ThroughGroup(u, e, p)
    /\ {o \in t.overrides : o.employee = e} = {o \in u.overrides : o.employee = e}

LEMMA SameResolution ==
    ASSUME NEW t, NEW u, NEW e, NEW at, SameFor(t, u, e)
    PROVE  /\ Resolution(t, e, at) = Resolution(u, e, at)
           /\ Conflicts(t, e, at) <=> Conflicts(u, e, at)
<1>1. Matches(t, e, at) = Matches(u, e, at)
  <2>1. Effective(t, at) = Effective(u, at)
    BY DEF SameFor, Effective
  <2> QED
    BY <2>1 DEF SameFor, Matches
<1>2. \A f : Candidates(t, e, f, at) = Candidates(u, e, f, at)
  BY <1>1 DEF Candidates
<1>3. \A f : Winners(t, e, f, at) = Winners(u, e, f, at)
  <2>1. ASSUME NEW f PROVE Winners(t, e, f, at) = Winners(u, e, f, at)
    <3> DEFINE C == Candidates(t, e, f, at) D == Candidates(u, e, f, at)
    <3>1. C = D
      BY <1>2
    <3>2. /\ Winners(t, e, f, at) = IF f \in OneValued THEN {c \in C : FirstOf(C, c)}
                                    ELSE {c \in C : FirstOf({d \in C : d[2] = c[2]}, c)}
          /\ Winners(u, e, f, at) = IF f \in OneValued THEN {c \in D : FirstOf(D, c)}
                                    ELSE {c \in D : FirstOf({d \in D : d[2] = c[2]}, c)}
      BY DEF Winners
    <3> HIDE DEF C, D
    <3> QED
      BY <3>1, <3>2
  <2> QED
    BY <2>1
<1>4. Conflicts(t, e, at) <=> Conflicts(u, e, at)
  BY <1>2 DEF Conflicts
<1>5. Resolution(t, e, at) = Resolution(u, e, at)
  <2>1. {o \in t.overrides : o.employee = e} = {o \in u.overrides : o.employee = e}
    BY DEF SameFor
  <2> QED
    BY <1>3, <2>1 DEF Resolution
<1> QED
  BY <1>4, <1>5

\* The rows that a request writes beside its aim do not exist (groups.py,
\* employee_overrides.py, policy_reconciliation.py: whom each mutation reconciles).
LEMMA OutsideTheAim ==
    ASSUME NEW t, NEW w, Aimed(w), NEW e \in Employees, e \notin Reconciled(Changed(t, w), w.aim)
    PROVE  SameFor(Changed(t, w), t, e) /\ w.aim.kind # "all"
<1> DEFINE now == Changed(t, w)
<1>1. w.aim.kind \in {"these", "group", "all"}
  BY DEF Aimed
<1>2. CASE w.aim.kind = "all"
  BY <1>2 DEF Reconciled
<1>3. /\ now.members = (t.members \ w.del.members) \cup w.add.members
      /\ now.attached = (t.attached \ w.del.attached) \cup w.add.attached
      /\ now.active = (t.active \ w.del.active) \cup w.add.active
      /\ now.satisfied = (t.satisfied \ w.del.satisfied) \cup w.add.satisfied
      /\ now.overrides = (t.overrides \ w.del.overrides) \cup w.add.overrides
  BY DEF Changed
<1>4. CASE w.aim.kind = "these"
  <2>1. e \notin w.aim.of
    BY <1>4 DEF Reconciled
  <2>2. /\ \A m \in w.add.members \cup w.del.members : m[1] # e
        /\ \A m \in w.add.satisfied \cup w.del.satisfied : m[1] # e
        /\ \A o \in w.add.overrides \cup w.del.overrides : o.employee # e
        /\ w.add.attached = {} /\ w.del.attached = {}
        /\ w.add.active = {} /\ w.del.active = {}
    BY <1>4, <2>1 DEF Aimed
  <2>3. /\ \A g : <<e, g>> \in now.members <=> <<e, g>> \in t.members
        /\ \A p : <<e, p>> \in now.satisfied <=> <<e, p>> \in t.satisfied
        /\ \A o : o.employee = e => (o \in now.overrides <=> o \in t.overrides)
        /\ now.attached = t.attached /\ now.active = t.active
    <3>1. /\ \A x : <<e, x>>[1] = e
      OBVIOUS
    <3> HIDE DEF now
    <3> QED
      BY <1>3, <2>2, <3>1
  <2> HIDE DEF now
  <2>4. {o \in now.overrides : o.employee = e} = {o \in t.overrides : o.employee = e}
    BY <2>3
  <2> QED
    BY <1>4, <2>3, <2>4 DEF SameFor, Directly, ThroughGroup, now
<1>5. CASE w.aim.kind = "group"
  <2>1. <<e, w.aim.of>> \notin now.members
    BY <1>5 DEF Reconciled
  <2>2. /\ \A m \in w.add.attached \cup w.del.attached : m[1] = w.aim.of
        /\ w.add.members = {} /\ w.del.members = {}
        /\ w.add.satisfied = {} /\ w.del.satisfied = {}
        /\ w.add.overrides = {} /\ w.del.overrides = {}
        /\ w.add.active = {} /\ w.del.active = {}
    BY <1>5 DEF Aimed
  <2> HIDE DEF now
  <2>3. /\ now.members = t.members /\ now.satisfied = t.satisfied
        /\ now.overrides = t.overrides /\ now.active = t.active
        /\ \A g, p : g # w.aim.of => (<<g, p>> \in now.attached <=> <<g, p>> \in t.attached)
    <3>1. \A g, p : <<g, p>>[1] = g
      OBVIOUS
    <3> QED
      BY <1>3, <2>2, <3>1
  <2> QED
    BY <1>5, <2>1, <2>3 DEF SameFor, Directly, ThroughGroup, now
<1> QED
  BY <1>1, <1>2, <1>4, <1>5

-----------------------------------------------------------------------------
\* What the engine and the overrides compute is what was promised.

LEMMA ResolutionKeepsThePromise ==
    ASSUME facts \in Table, NEW e \in Employees
    PROVE  Resolution(facts, e, passed) = Promised(e)
<1> DEFINE own == {o \in facts.overrides : o.employee = e}
           over == {o.field : o \in own}
           manual == {Assignment(o.field, o.value, "override", o.id) : o \in own}
           V == [field : Fields, value : Values, source : {"version"} \X Policies]
           derived(f) == {Assignment(f, c[2], "version", c[1]) : c \in Winners(facts, e, f, passed)}
           R == Resolution(facts, e, passed)
           M == Matches(facts, e, passed)
<1>1. M \subseteq Policies /\ \A p \in Policies : p \in Int /\ Priority[p] \in Int
  BY PoliciesAssumption DEF Matches, Effective, Table
<1> HIDE DEF M
\* A winner has no better rival.
<1>2. ASSUME NEW f \in Fields, NEW p \in Policies, NEW v \in Values
      PROVE  <<p, v>> \in Winners(facts, e, f, passed) <=>
               /\ p \in M /\ <<f, v>> \in Gives[p]
               /\ ~ \E q \in M, u \in Values :
                     /\ <<f, u>> \in Gives[q]
                     /\ f \in OneValued \/ u = v
                     /\ Priority[q] > Priority[p] \/ (Priority[q] = Priority[p] /\ q < p)
  <2> DEFINE C == Candidates(facts, e, f, passed)
  <2>1. \A q, u : <<q, u>> \in C <=> q \in M /\ u \in Values /\ <<f, u>> \in Gives[q]
    BY DEF Candidates, M
  <2>2. \A d \in C : d = <<d[1], d[2]>> /\ d[1] \in M /\ d[2] \in Values
    BY DEF Candidates, M
  <2>3. <<p, v>> \in Winners(facts, e, f, passed) <=>
          /\ <<p, v>> \in C
          /\ \A d \in C : f \in OneValued \/ d[2] = v => Ahead(p, d[1])
    BY DEF Winners, FirstOf
  <2>4. \A q \in M : Ahead(p, q) <=>
          ~ (Priority[q] > Priority[p] \/ (Priority[q] = Priority[p] /\ q < p))
    BY <1>1 DEF Ahead
  <2> HIDE DEF C
  <2>5. (\A d \in C : f \in OneValued \/ d[2] = v => Ahead(p, d[1])) <=>
        (\A q \in M, u \in Values : <<f, u>> \in Gives[q] /\ (f \in OneValued \/ u = v) => Ahead(p, q))
    <3>1. ASSUME \A d \in C : f \in OneValued \/ d[2] = v => Ahead(p, d[1]),
                 NEW q \in M, NEW u \in Values, <<f, u>> \in Gives[q], f \in OneValued \/ u = v
          PROVE  Ahead(p, q)
      <4>1. <<q, u>> \in C /\ <<q, u>>[1] = q /\ <<q, u>>[2] = u
        BY <2>1, <3>1
      <4> QED
        BY <3>1, <4>1
    <3> QED
      BY <2>1, <2>2, <3>1
  <2> QED
    BY <2>1, <2>3, <2>4, <2>5
<1>3. \A f \in Fields : \A c \in Winners(facts, e, f, passed) :
          c = <<c[1], c[2]>> /\ c[1] \in Policies /\ c[2] \in Values
  BY <1>1 DEF Winners, Candidates, M
<1>4. R = manual \cup UNION {derived(f) : f \in Fields \ over}
  BY DEF Resolution
<1>5. ASSUME NEW a \in V
      PROVE  (\E f \in Fields \ over : a \in derived(f)) <=>
                Prevails(a.source[2], a.field, a.value, e)
  <2> DEFINE f == a.field v == a.value p == a.source[2]
  <2>1. f \in Fields /\ v \in Values /\ p \in Policies /\ a = Assignment(f, v, "version", p)
    BY DEF Assignment
  <2>2. Prevails(p, f, v, e) <=> f \notin over /\ <<p, v>> \in Winners(facts, e, f, passed)
    <3>1. f \notin over <=> ~ \E o \in facts.overrides : o.employee = e /\ o.field = f
      OBVIOUS
    <3> HIDE DEF f, v, p, over
    <3> QED
      BY <1>2, <2>1, <3>1 DEF Prevails, M
  <2>3. (\E g \in Fields \ over : a \in derived(g)) <=>
            f \notin over /\ <<p, v>> \in Winners(facts, e, f, passed)
    <3>1. ASSUME NEW g \in Fields \ over, a \in derived(g)
          PROVE  f \notin over /\ <<p, v>> \in Winners(facts, e, f, passed)
      <4>1. PICK c \in Winners(facts, e, g, passed) : a = Assignment(g, c[2], "version", c[1])
        BY <3>1
      <4>2. f = g /\ v = c[2] /\ p = c[1]
        BY <4>1 DEF Assignment
      <4> QED
        BY <1>3, <4>1, <4>2
    <3>2. ASSUME f \notin over, <<p, v>> \in Winners(facts, e, f, passed)
          PROVE  \E g \in Fields \ over : a \in derived(g)
      <4>1. a \in derived(f)
        BY <2>1, <3>2
      <4> QED
        BY <2>1, <3>2, <4>1
    <3> QED
      BY <3>1, <3>2
  <2> QED
    BY <2>2, <2>3
<1>6. ASSUME NEW f \in Fields, NEW a \in derived(f) PROVE a \in V
  BY <1>3 DEF Assignment
<1>7. Promised(e) = manual \cup {a \in V : Prevails(a.source[2], a.field, a.value, e)}
  BY DEF Promised
<1> HIDE DEF R, V, own, over, manual, derived
<1>8. UNION {derived(f) : f \in Fields \ over} =
          {a \in V : Prevails(a.source[2], a.field, a.value, e)}
  <2>1. \A a : a \in UNION {derived(f) : f \in Fields \ over} <=> \E f \in Fields \ over : a \in derived(f)
    OBVIOUS
  <2> QED
    BY <1>5, <1>6, <2>1
<1> QED
  BY <1>4, <1>7, <1>8 DEF R

-----------------------------------------------------------------------------
\* Everyone shows the promise, with one request at a time.

\* Unless an event is due everyone shows what the committed rows resolve to, and what
\* a request has resolved is what its rows resolve to, once its events are processed.
Current ==
    passed = processed =>
        \A e \in Employees : /\ shown[e] = Resolution(facts, e, passed)
                             /\ ~ Conflicts(facts, e, passed)

Ready(s) ==
    LET w == txn[s] now == Changed(facts, txn[s]) IN
    pc[s] = "resolved" =>
        /\ DOMAIN w.desired = Reconciled(now, w.aim)
        /\ passed = processed \cup w.events =>
              \A e \in Reconciled(now, w.aim) :
                  /\ w.desired[e] = Resolution(now, e, passed)
                  /\ ~ Conflicts(now, e, passed)

PromiseInv == TypesInv /\ Current /\ \A s \in Sessions : Ready(s)

\* A request at an earlier point has resolved nothing.
LEMMA NotReady ==
    ASSUME PromiseInv, NEW s \in Sessions, \A t \in Sessions : t = s,
           facts' = facts, passed' = passed, processed' = processed, shown' = shown,
           pc'[s] # "resolved", TypesInv'
    PROVE  PromiseInv'
<1>1. Current'
  BY DEF PromiseInv, Current
<1>2. \A t \in Sessions : Ready(t)'
  BY DEF Ready
<1> QED
  BY <1>1, <1>2 DEF PromiseInv

LEMMA AuthorBegins ==
    ASSUME TypesInv, NEW s \in Sessions, Author(s)
    PROVE  /\ facts' = facts /\ passed' = passed /\ processed' = processed /\ shown' = shown
           /\ pc'[s] = "checked"
<1>1. ASSUME NEW add, NEW del, NEW aim, Begin(s, add, del, aim)
      PROVE  /\ facts' = facts /\ passed' = passed /\ processed' = processed /\ shown' = shown
             /\ pc'[s] = "checked"
  BY <1>1 DEF Begin, TypesInv
<1> QED
  BY <1>1 DEF Author, MembershipRequest, GroupPolicyRequest, OverrideRequest, ChangeMembership,
              ChangeGroupPolicies, CreateOverride, UpdateOverride, DeleteOverride, Refresh,
              ChangePolicy, ChangeFact

LEMMA ReconcileKeepsPromise ==
    ASSUME PromiseInv, NEW s \in Sessions, \A t \in Sessions : t = s, Reconcile(s), TypesInv'
    PROVE  PromiseInv'
<1> DEFINE now == Changed(facts, txn[s])
           ids == Reconciled(now, txn[s].aim)
           des == [e \in ids |-> Resolution(now, e, passed)]
<1>1. /\ facts' = facts /\ passed' = passed /\ processed' = processed /\ shown' = shown
      /\ txn' = [txn EXCEPT ![s].desired = des]
      /\ \A e \in ids : ~ Conflicts(now, e, passed)
  BY DEF Reconcile
<1>2. /\ txn'[s].add = txn[s].add /\ txn'[s].del = txn[s].del /\ txn'[s].aim = txn[s].aim
      /\ txn'[s].desired = des
  <2>1. DOMAIN txn = Sessions /\ DOMAIN txn[s] = {"add", "del", "aim", "events", "desired"}
    BY DEF PromiseInv, TypesInv, Request
  <2> HIDE DEF des
  <2> QED
    BY <1>1, <2>1
<1>3. Changed(facts, txn[s])' = now
  BY <1>1, <1>2 DEF Changed
<1>4. DOMAIN des = ids /\ \A e \in ids : des[e] = Resolution(now, e, passed)
  OBVIOUS
<1> HIDE DEF now, ids, des
<1>5. Reconciled(now, txn'[s].aim) = ids
  BY <1>2 DEF ids
<1>6. Ready(s)'
  BY <1>1, <1>2, <1>3, <1>4, <1>5 DEF Ready
<1>7. Current'
  BY <1>1 DEF PromiseInv, Current
<1> QED
  BY <1>6, <1>7 DEF PromiseInv

LEMMA CommitKeepsPromise ==
    ASSUME PromiseInv, NEW s \in Sessions, \A t \in Sessions : t = s, Commit(s), TypesInv'
    PROVE  PromiseInv'
<1> DEFINE w == txn[s]
           now == Changed(facts, w)
           ids == Reconciled(now, w.aim)
<1>1. /\ pc[s] = "resolved" /\ pc'[s] = "idle"
      /\ facts' = now /\ passed' = passed /\ processed' = processed \cup w.events
      /\ \A e \in Employees : shown'[e] = IF e \in DOMAIN w.desired THEN w.desired[e] ELSE shown[e]
  BY DEF Commit, PromiseInv, TypesInv
<1>2. Request(w)
  BY DEF PromiseInv, TypesInv
<1>3. /\ DOMAIN w.desired = ids
      /\ passed = processed \cup w.events =>
            \A e \in ids : w.desired[e] = Resolution(now, e, passed) /\ ~ Conflicts(now, e, passed)
  BY <1>1 DEF PromiseInv, Ready
<1> HIDE DEF w
<1>4. ASSUME NEW e \in Employees, e \notin ids
      PROVE  SameFor(now, facts, e) /\ w.events = {}
  BY <1>2, <1>4, OutsideTheAim DEF Request
<1> HIDE DEF now, ids
<1>5. ASSUME passed' = processed', NEW e \in Employees
      PROVE  shown'[e] = Resolution(facts', e, passed') /\ ~ Conflicts(facts', e, passed')
  <2>1. passed = processed \cup w.events
    BY <1>1, <1>5
  <2>2. CASE e \in ids
    BY <1>1, <1>3, <2>1, <2>2
  <2>3. CASE e \notin ids
    <3>1. SameFor(now, facts, e) /\ w.events = {} /\ passed = processed
      BY <1>4, <2>1, <2>3
    <3>2. shown[e] = Resolution(facts, e, passed) /\ ~ Conflicts(facts, e, passed)
      BY <3>1 DEF PromiseInv, Current
    <3>3. /\ Resolution(now, e, passed) = Resolution(facts, e, passed)
          /\ Conflicts(now, e, passed) <=> Conflicts(facts, e, passed)
      BY <3>1, SameResolution
    <3> QED
      BY <1>1, <1>3, <2>3, <3>2, <3>3
  <2> QED
    BY <2>2, <2>3
<1>6. Current'
  BY <1>5 DEF Current
<1>7. \A t \in Sessions : Ready(t)'
  BY <1>1 DEF Ready
<1> QED
  BY <1>6, <1>7 DEF PromiseInv

LEMMA PromiseStep ==
    ASSUME \A s, t \in Sessions : s = t, PromiseInv, [AFNext]_afVars
    PROVE  PromiseInv'
<1>1. TypesInv' /\ TypesInv
  BY TypesStep DEF PromiseInv
<1>2. CASE UNCHANGED afVars
  BY <1>1, <1>2 DEF afVars, PromiseInv, Current, Ready
<1>3. ASSUME NEW s \in Sessions,
             Author(s) \/ ClaimEvents(s) \/ Flush(s) \/ Rollback(s)
      PROVE  PromiseInv'
  <2>1. /\ facts' = facts /\ passed' = passed /\ processed' = processed /\ shown' = shown
        /\ pc'[s] # "resolved"
    <3>1. pc \in [Sessions -> {"idle", "checked", "flushed", "resolved"}]
      BY <1>1 DEF TypesInv
    <3>2. CASE Author(s)
      BY <1>1, <3>2, AuthorBegins
    <3> QED
      BY <1>3, <3>1, <3>2 DEF ClaimEvents, Flush, Rollback
  <2> QED
    BY <1>1, <2>1, NotReady
<1>4. ASSUME NEW s \in Sessions, Reconcile(s) PROVE PromiseInv'
  BY <1>1, <1>4, ReconcileKeepsPromise
<1>5. ASSUME NEW s \in Sessions, Commit(s) PROVE PromiseInv'
  BY <1>1, <1>5, CommitKeepsPromise
<1>6. ASSUME NEW p \in Dated, PassBoundary(p) PROVE PromiseInv'
  <2>1. /\ facts' = facts /\ processed' = processed /\ pc' = pc /\ txn' = txn
        /\ \E b : b \notin passed /\ passed' = passed \cup {b}
    BY <1>6 DEF PassBoundary
  <2>2. processed \subseteq passed /\ \A s \in Sessions : txn[s].events \subseteq passed
    BY <1>1 DEF TypesInv, Request
  <2>3. passed' # processed' /\ \A s \in Sessions : passed' # processed' \cup txn'[s].events
    BY <2>1, <2>2
  <2>4. Current' /\ \A s \in Sessions : Ready(s)'
    BY <2>1, <2>3 DEF Current, Ready, PromiseInv
  <2> QED
    BY <1>1, <2>4 DEF PromiseInv
<1> QED
  BY <1>2, <1>3, <1>4, <1>5, <1>6 DEF AFNext

LEMMA PromiseInit == ASSUME AFInit PROVE PromiseInv
<1>1. /\ facts = NoRows /\ passed = {} /\ processed = {} /\ shown = [e \in Employees |-> {}]
      /\ created = 0 /\ pc = [s \in Sessions |-> "idle"] /\ txn = [s \in Sessions |-> Idle]
  BY DEF AFInit
<1>2. NoRows \in Table /\ NoRows.overrides = {} /\ NoRows.active = {}
  BY DEF NoRows, Table
<1>3. TypesInv
  <2>1. Request(Idle)
    <3>1. /\ Idle.events = {} /\ Idle.add = NoRows /\ Idle.aim.kind = "all" /\ Idle.desired = <<>>
          /\ DOMAIN Idle = {"add", "del", "aim", "events", "desired"}
      BY DEF Idle, Everybody
    <3>2. DOMAIN Idle.desired = {}
      BY <3>1
    <3> QED
      BY <1>1, <1>2, <3>1, <3>2 DEF Request, Rows, Aimed
  <2> QED
    BY <1>1, <1>2, <2>1, OverridesAssumption DEF TypesInv, Rows
<1>4. ASSUME NEW e \in Employees
      PROVE  Resolution(facts, e, passed) = {} /\ ~ Conflicts(facts, e, passed)
  <2>1. \A f : Candidates(facts, e, f, passed) = {}
    BY <1>1, <1>2 DEF Candidates, Matches, Effective
  <2>2. \A f : Winners(facts, e, f, passed) = {}
    BY <2>1 DEF Winners
  <2>3. Resolution(facts, e, passed) = {}
    BY <1>1, <1>2, <2>2 DEF Resolution
  <2> QED
    BY <2>1, <2>3 DEF Conflicts, Best
<1>5. Current
  BY <1>1, <1>4 DEF Current
<1>6. \A s \in Sessions : Ready(s)
  BY <1>1 DEF Ready
<1> QED
  BY <1>3, <1>5, <1>6 DEF PromiseInv

\* The strengthening: what is shown is current unless an event is due, and so is what a
\* request would commit.
THEOREM PromiseInvariant ==
    ASSUME \A s, t \in Sessions : s = t
    PROVE  AFSpec => []PromiseInv
<1>1. AFInit => PromiseInv
  BY PromiseInit
<1>2. PromiseInv /\ [AFNext]_afVars => PromiseInv'
  BY PromiseStep
<1> QED
  BY <1>1, <1>2, PTL DEF AFSpec

\* Rows, assignments and requests keep their types, for any number of requests at once;
\* and what a request writes stays within whom it reconciles.
THEOREM FactsTyped == AFSpec => []TypesInv
<1>1. AFInit => TypesInv
  BY PromiseInit DEF PromiseInv
<1>2. TypesInv /\ [AFNext]_afVars => TypesInv'
  BY TypesStep
<1> QED
  BY <1>1, <1>2, PTL DEF AFSpec

\* With one request at a time, between requests and unless an event is due, everyone's
\* assignments are what the committed facts promise: no mutation concerns anyone whom
\* it does not reconcile (docs/system-design.md:132-141).
THEOREM PromiseKept ==
    ASSUME \A s, t \in Sessions : s = t
    PROVE  AFSpec => []EveryoneShowsThePromise
<1>1. PromiseInv => EveryoneShowsThePromise
  BY ResolutionKeepsThePromise
     DEF PromiseInv, Current, TypesInv, Rows, EveryoneShowsThePromise, Quiet
<1> QED
  BY <1>1, PromiseInvariant, PTL

\* With one request at a time no two equally ranked policies disagree on anyone while no
\* event is due; rows and assignments have their types.
THEOREM NoConflictStands ==
    ASSUME \A s, t \in Sessions : s = t
    PROVE  AFSpec => []AFInv
<1>1. ASSUME PromiseInv PROVE AFInv
  <2>1. TypesInv
    BY <1>1 DEF PromiseInv
  <2>2. ASSUME NEW s \in Sessions PROVE Changed(facts, txn[s]) \in Table
    <3>1. Rows(facts, created) /\ Rows(txn[s].add, created)
      BY <2>1 DEF TypesInv, Request
    <3> QED
      BY <3>1, ChangedRows DEF Rows
  <2>3. AFTypeOK
    BY <2>1, <2>2 DEF TypesInv, AFTypeOK, Rows, Known
  <2>4. NoStandingConflict
    BY <1>1 DEF PromiseInv, Current, NoStandingConflict, Quiet
  <2> QED
    BY <2>3, <2>4 DEF AFInv
<1> QED
  BY <1>1, PromiseInvariant, PTL

-----------------------------------------------------------------------------
\* A change does what its preview announces.

\* What a caller with some fields sees of e in the assignments open.
SeesOf(open, e, F) == {a \in open[e] : a.field \in F}

LEMMA CurrentIsSeen ==
    ASSUME NEW open, NEW seen, NEW fields, NEW e \in seen
    PROVE  /\ Of(CurrentAssignments(open, seen, fields), e) = SeesOf(open, e, fields)
           /\ SeesOf(open, e, fields) # {} => e \in DOMAIN CurrentAssignments(open, seen, fields)
<1> DEFINE D == {x \in seen : \E a \in open[x] : a.field \in fields}
           c == [x \in D |-> {a \in open[x] : a.field \in fields}]
<1>1. CurrentAssignments(open, seen, fields) = c /\ DOMAIN c = D
  BY DEF CurrentAssignments
<1>2. e \in D => c[e] = SeesOf(open, e, fields)
  BY DEF SeesOf
<1>3. e \in D <=> SeesOf(open, e, fields) # {}
  BY DEF SeesOf
<1> HIDE DEF c, D
<1> QED
  BY <1>1, <1>2, <1>3 DEF Of

\* The comparison of what was and what will be is complete and exact.
LEMMA ChangesCompared ==
    ASSUME NEW before, NEW after, NEW included, NEW e,
           Of(before, e) # {} => e \in DOMAIN before,
           Of(after, e) # {} => e \in DOMAIN after
    PROVE  LET changes == AssignmentChanges(before, after, included) IN
           /\ Of(before, e) # Of(after, e) => e \in DOMAIN changes
           /\ e \in DOMAIN changes =>
                 /\ changes[e].added = Of(after, e) \ Of(before, e)
                 /\ changes[e].removed = Of(before, e) \ Of(after, e)
<1> DEFINE differ == {x \in DOMAIN before \cup DOMAIN after \cup included : Of(before, x) # Of(after, x)}
           D == differ \cup included
           ch == [x \in D |-> [added   |-> Of(after, x) \ Of(before, x),
                               removed |-> Of(before, x) \ Of(after, x)]]
<1>1. AssignmentChanges(before, after, included) = ch /\ DOMAIN ch = D
  BY DEF AssignmentChanges
<1>2. Of(before, e) # Of(after, e) => e \in D
  OBVIOUS
<1>3. e \in D => /\ ch[e].added = Of(after, e) \ Of(before, e)
                 /\ ch[e].removed = Of(before, e) \ Of(after, e)
  OBVIOUS
<1> HIDE DEF ch, D
<1> QED
  BY <1>1, <1>2, <1>3

\* Of a change that goes through, a caller has been told of each employee and field seen.
LEMMA CommitAnnounced ==
    ASSUME NEW s \in Sessions, pc[s] = "resolved", Commit(s),
           NEW seen \in SUBSET Employees, NEW fields \in SUBSET Fields
    PROVE  Announced(s, seen, fields)
<1> DEFINE before == CurrentAssignments(shown, seen, fields)
           after == CurrentAssignments(Written(s), seen, fields)
           changes == AssignmentChanges(before, after, Included(s, seen))
           affected == {e \in DOMAIN changes : changes[e].added \cup changes[e].removed # {}}
           cells == UNION {{<<e, c>> : c \in ChangedFields(before, after, e)} : e \in DOMAIN changes}
           answer == Preview(s, seen, fields)
<1>1. shown' = Written(s)
  BY DEF Commit, Written
<1>2. answer.affected = affected /\ answer.changes = changes /\ answer.fields = cells
  BY DEF Preview, Rejected
<1>3. ASSUME NEW e \in seen
      PROVE  /\ Of(before, e) = SeesOf(shown, e, fields)
             /\ Of(after, e) = SeesOf(shown', e, fields)
             /\ Of(before, e) # {} => e \in DOMAIN before
             /\ Of(after, e) # {} => e \in DOMAIN after
  BY <1>1, CurrentIsSeen
<1> HIDE DEF before, after
<1>4. ASSUME NEW e \in seen
      PROVE  /\ Of(before, e) # Of(after, e) => e \in DOMAIN changes
             /\ e \in DOMAIN changes =>
                 /\ changes[e].added = Of(after, e) \ Of(before, e)
                 /\ changes[e].removed = Of(before, e) \ Of(after, e)
  BY <1>3, ChangesCompared
<1> HIDE DEF changes, answer
<1>5. ASSUME NEW e \in seen
      PROVE  SeesOf(shown', e, fields) # SeesOf(shown, e, fields) <=> e \in affected
  BY <1>3, <1>4
<1>6. ASSUME NEW e \in seen, e \in DOMAIN changes
      PROVE  SeesOf(shown', e, fields) =
                 (SeesOf(shown, e, fields) \ changes[e].removed) \cup changes[e].added
  <2>1. changes[e].added = SeesOf(shown', e, fields) \ SeesOf(shown, e, fields)
    BY <1>3, <1>4, <1>6
  <2>2. changes[e].removed = SeesOf(shown, e, fields) \ SeesOf(shown', e, fields)
    BY <1>3, <1>4, <1>6
  <2> QED
    BY <2>1, <2>2
<1>7. ASSUME NEW e \in seen, NEW f \in fields
      PROVE  SeesOf(shown', e, {f}) # SeesOf(shown, e, {f}) <=>
                 <<e, <<f, SeesOf(shown, e, {f}), SeesOf(shown', e, {f})>>>> \in cells
  <2> DEFINE In(S, g) == {a \in S : a.field = g}
  <2>1. In(Of(before, e), f) = SeesOf(shown, e, {f}) /\ In(Of(after, e), f) = SeesOf(shown', e, {f})
    BY <1>3 DEF SeesOf
  <2>2. ChangedFields(before, after, e) =
            {<<g, In(Of(before, e), g), In(Of(after, e), g)>> :
                g \in {h \in Fields : In(Of(before, e), h) # In(Of(after, e), h)}}
    BY DEF ChangedFields
  <2>3. ASSUME SeesOf(shown', e, {f}) # SeesOf(shown, e, {f})
        PROVE  <<e, <<f, SeesOf(shown, e, {f}), SeesOf(shown', e, {f})>>>> \in cells
    <3>1. Of(before, e) # Of(after, e)
      BY <2>1, <2>3
    <3>2. e \in DOMAIN changes
      BY <1>4, <3>1
    <3>3. <<f, SeesOf(shown, e, {f}), SeesOf(shown', e, {f})>> \in ChangedFields(before, after, e)
      BY <2>1, <2>2, <2>3
    <3> QED
      BY <3>2, <3>3
  <2>4. ASSUME <<e, <<f, SeesOf(shown, e, {f}), SeesOf(shown', e, {f})>>>> \in cells
        PROVE  SeesOf(shown', e, {f}) # SeesOf(shown, e, {f})
    <3>1. <<f, SeesOf(shown, e, {f}), SeesOf(shown', e, {f})>> \in ChangedFields(before, after, e)
      BY <2>4
    <3>2. PICK g \in Fields : /\ In(Of(before, e), g) # In(Of(after, e), g)
                              /\ <<f, SeesOf(shown, e, {f}), SeesOf(shown', e, {f})>> =
                                     <<g, In(Of(before, e), g), In(Of(after, e), g)>>
      BY <2>2, <3>1
    <3> QED
      BY <3>2
  <2> QED
    BY <2>3, <2>4
<1> HIDE DEF affected, cells
<1> QED
  BY <1>2, <1>5, <1>6, <1>7 DEF Announced, SeesOf, answer

\* With one request at a time a change that goes through was announced as valid, and what
\* any caller has been told of it is what becomes of the employees and fields seen: the
\* preview reconciles the rows that the change commits (docs/system-design.md:160).
THEOREM ChangesWereAnnounced ==
    ASSUME \A s, t \in Sessions : s = t
    PROVE  AFSpec => ChangesAreAnnounced
<1>1. ASSUME TypesInv, [AFNext]_afVars, NEW s \in Sessions,
             pc[s] = "flushed", pc'[s] = "resolved"
      PROVE  ~ Rejected(s)
  <2>1. pc \in [Sessions -> {"idle", "checked", "flushed", "resolved"}]
    BY <1>1 DEF TypesInv
  <2>2. CASE Reconcile(s)
    BY <2>2 DEF Reconcile, Rejected
  <2>3. ASSUME Author(s) PROVE FALSE
    BY <1>1, <2>3, AuthorBegins
  <2>4. ASSUME ClaimEvents(s) \/ Flush(s) \/ Commit(s) \/ Rollback(s) PROVE FALSE
    BY <1>1, <2>1, <2>4 DEF ClaimEvents, Flush, Commit, Rollback
  <2>5. ASSUME UNCHANGED afVars \/ \E p \in Dated : PassBoundary(p) PROVE FALSE
    BY <1>1, <2>5 DEF afVars, PassBoundary
  <2> QED
    BY <1>1, <2>2, <2>3, <2>4, <2>5 DEF AFNext
<1>2. ASSUME TypesInv, [AFNext]_afVars, NEW s \in Sessions,
             pc[s] = "resolved", <<facts, shown>>' # <<facts, shown>>
      PROVE  Commit(s)
  <2>1. ASSUME Author(s) PROVE FALSE
    BY <1>2, <2>1, AuthorBegins
  <2>2. ASSUME ClaimEvents(s) \/ Flush(s) \/ Reconcile(s) \/ Rollback(s) PROVE FALSE
    BY <1>2, <2>2 DEF ClaimEvents, Flush, Reconcile, Rollback
  <2>3. ASSUME UNCHANGED afVars \/ \E p \in Dated : PassBoundary(p) PROVE FALSE
    BY <1>2, <2>3 DEF afVars, PassBoundary
  <2> QED
    BY <1>2, <2>1, <2>2, <2>3 DEF AFNext
<1>3. ASSUME TypesInv, [AFNext]_afVars
      PROVE  \A s \in Sessions :
                /\ pc[s] = "flushed" /\ pc'[s] = "resolved" => ~ Rejected(s)
                /\ pc[s] = "resolved" /\ <<facts, shown>>' # <<facts, shown>> =>
                      \A seen \in SUBSET Employees \ {{}}, fields \in SUBSET Fields \ {{}} :
                          Announced(s, seen, fields)
  BY <1>1, <1>2, <1>3, CommitAnnounced
<1> QED
  BY <1>3, FactsTyped, PTL DEF AFSpec, ChangesAreAnnounced

-----------------------------------------------------------------------------
\* The reports agree.

\* Every value that a version wins and no override replaces is resolved, with that
\* version as its source, and nothing else is.
LEMMA WonIsResolved ==
    ASSUME facts \in Table, NEW e, NEW at, NEW p \in Policies, NEW a
    PROVE  /\ a \in Won(p, e, at) /\ a.field \notin Overridden(e) <=>
                 a \in Resolution(facts, e, at) /\ a.source = <<"version", p>>
           /\ a \in Won(p, e, at) =>
                 /\ a.source = <<"version", p>> /\ p \in Matches(facts, e, at)
                 /\ a.field \in {g[1] : g \in Gives[p]}
<1> DEFINE own == {o \in facts.overrides : o.employee = e}
           over == {o.field : o \in own}
           manual == {Assignment(o.field, o.value, "override", o.id) : o \in own}
           derived(f) == {Assignment(f, c[2], "version", c[1]) : c \in Winners(facts, e, f, at)}
<1>1. Overridden(e) = over
  BY DEF Overridden
<1>2. a \in Resolution(facts, e, at) <=> a \in manual \/ \E f \in Fields \ over : a \in derived(f)
  BY DEF Resolution
<1>3. a \in manual => a.source # <<"version", p>>
  BY DEF Assignment
<1>4. ASSUME NEW f \in Fields, NEW c \in Winners(facts, e, f, at)
      PROVE  /\ c = <<c[1], c[2]>> /\ c[1] \in Matches(facts, e, at) /\ c[2] \in Values
             /\ <<f, c[2]>> \in Gives[c[1]]
  BY DEF Winners, Candidates
<1>5. a \in Won(p, e, at) <=>
        \E f \in Fields, v \in Values : <<p, v>> \in Winners(facts, e, f, at)
                                          /\ a = Assignment(f, v, "version", p)
  <2>1. a \in Won(p, e, at) <=>
          \E g \in Fields \X Values : <<p, g[2]>> \in Winners(facts, e, g[1], at)
                                          /\ a = Assignment(g[1], g[2], "version", p)
    BY DEF Won
  <2>2. ASSUME NEW f \in Fields, NEW v \in Values, <<p, v>> \in Winners(facts, e, f, at),
               a = Assignment(f, v, "version", p)
        PROVE  a \in Won(p, e, at)
    <3>1. <<f, v>> \in Fields \X Values /\ <<f, v>>[1] = f /\ <<f, v>>[2] = v
      OBVIOUS
    <3> QED
      BY <2>1, <2>2, <3>1
  <2>3. \A g \in Fields \X Values : g[1] \in Fields /\ g[2] \in Values
    OBVIOUS
  <2> QED
    BY <2>1, <2>2, <2>3
<1>6. ASSUME a \in Won(p, e, at)
      PROVE  /\ a.source = <<"version", p>> /\ p \in Matches(facts, e, at)
             /\ a.field \in {g[1] : g \in Gives[p]}
             /\ a.field \in Fields /\ a \in derived(a.field)
  <2>1. PICK f \in Fields, v \in Values : <<p, v>> \in Winners(facts, e, f, at)
                                          /\ a = Assignment(f, v, "version", p)
    BY <1>5, <1>6
  <2>2. a.field = f /\ a.value = v /\ a.source = <<"version", p>>
    BY <2>1 DEF Assignment
  <2>3. p \in Matches(facts, e, at) /\ <<f, v>> \in Gives[p]
    BY <1>4, <2>1
  <2>4. <<f, v>>[1] = f
    OBVIOUS
  <2> QED
    BY <2>1, <2>2, <2>3, <2>4
<1>7. ASSUME NEW f \in Fields, a \in derived(f), a.source = <<"version", p>>
      PROVE  a \in Won(p, e, at) /\ a.field = f
  <2>1. PICK c \in Winners(facts, e, f, at) : a = Assignment(f, c[2], "version", c[1])
    BY <1>7
  <2>2. a.field = f /\ c[1] = p
    BY <1>7, <2>1 DEF Assignment
  <2> QED
    BY <1>4, <1>5, <2>1, <2>2
<1> HIDE DEF over, manual, derived
<1> QED
  BY <1>1, <1>2, <1>3, <1>6, <1>7

\* A conflict is one of versions that match.
LEMMA ConflictsMatch ==
    ASSUME facts \in Table, NEW e, NEW at, Conflicts(facts, e, at)
    PROVE  \E p \in Policies : p \in Matches(facts, e, at)
<1>1. PICK f \in OneValued : \E c \in Best(Candidates(facts, e, f, at)) : TRUE
  BY DEF Conflicts
<1>3. PICK c \in Best(Candidates(facts, e, f, at)) : TRUE
  BY <1>1
<1>2. c[1] \in Matches(facts, e, at)
  BY DEF Best, Candidates
<1> QED
  BY <1>2 DEF Matches, Effective, Table

\* What is answered about a day is what is calculated for it, of today and of later.
LEMMA AnswersAreCalculated ==
    ASSUME PromiseInv, Quiet, NEW day \in Days, NEW fields, NEW e \in Employees
    PROVE  /\ AssignmentsOn(e, day, fields) =
                  {a \in Resolution(facts, e, day.at) : CanAccess(fields, a.field)}
           /\ day.later /\ Conflicts(facts, e, day.at) <=> Conflicts(facts, e, day.at)
<1>1. shown[e] = Resolution(facts, e, passed) /\ ~ Conflicts(facts, e, passed)
  BY DEF PromiseInv, Current, Quiet
<1>2. day.later = TRUE \/ (day.later = FALSE /\ day.at = passed)
  BY DEF Days, Today
<1> QED
  BY <1>1, <1>2 DEF AssignmentsOn

LEMMA FiniteAnswers ==
    ASSUME NEW T,
           \A r \in T : \E e \in Employees, f \in Fields, v \in Values, p \in Policies :
               r = <<e, Assignment(f, v, "version", p)>>
    PROVE  IsFiniteSet(T)
<1> DEFINE S == (Employees \X Fields) \X (Values \X Policies)
           g == [x \in S |-> <<x[1][1], Assignment(x[1][2], x[2][1], "version", x[2][2])>>]
           G == {g[x] : x \in S}
<1>1. IsFiniteSet(S)
  BY FiniteAssumption, FS_Product
<1>2. g \in [S -> G] /\ \A r \in G : \E x \in S : g[x] = r
  OBVIOUS
<1>3. IsFiniteSet(G)
  <2>1. g \in Surjection(S, G)
    <3> HIDE DEF S, g, G
    <3> QED
      BY <1>2 DEF Surjection
  <2> HIDE DEF S, g, G
  <2> QED
    BY <1>1, <2>1, FS_Surjection
<1>4. T \subseteq G
  <2>1. ASSUME NEW e \in Employees, NEW f \in Fields, NEW v \in Values, NEW p \in Policies
        PROVE  <<e, Assignment(f, v, "version", p)>> \in G
    <3> DEFINE x == <<<<e, f>>, <<v, p>>>>
    <3>1. x \in S /\ x[1][1] = e /\ x[1][2] = f /\ x[2][1] = v /\ x[2][2] = p
      OBVIOUS
    <3>2. g[x] = <<e, Assignment(f, v, "version", p)>>
      BY <3>1
    <3> QED
      BY <3>1, <3>2
  <2> HIDE DEF G
  <2> QED
    BY <2>1
<1> HIDE DEF G
<1> QED
  BY <1>3, <1>4, FS_Subset

LEMMA ReportsOfOneCaller ==
    ASSUME PromiseInv, Quiet, NEW day \in Days, NEW ids \in SUBSET Employees, NEW fields
    PROVE  Agree(ids, day, fields)
<1> DEFINE at == day.at
           A(e) == {a \in Resolution(facts, e, at) : CanAccess(fields, a.field)}
           U == Unresolved(ids, day)
           answer == Query(ids, day, fields)
           summary == Summary(ids, day, fields)
           assignments == UNION {{e} \X AssignmentsOn(e, day, fields) : e \in ids \ U}
           holders == {r[1] : r \in assignments}
           visible == {p \in Policies : PolicyVisible(fields, {g[1] : g \in Gives[p]})}
           selected == UNION {Impact(p, ids, at).selected : p \in visible}
           versions == {r \in assignments : r[2].source[1] = "version"}
<1>1. facts \in Table /\ TypesInv /\ Rows(facts, created)
  BY DEF PromiseInv, TypesInv, Rows
<1>2. U = {e \in ids : Conflicts(facts, e, at)}
  BY AnswersAreCalculated DEF Unresolved
<1>3. \A e \in ids : AssignmentsOn(e, day, fields) = A(e)
  BY AnswersAreCalculated
<1>4. IsFiniteSet(ids) /\ IsFiniteSet(U) /\ U \subseteq ids
  BY <1>2, FiniteAssumption, FS_Subset
<1>5. \A r : r \in assignments <=> \E e \in ids \ U : \E a \in A(e) : r = <<e, a>>
  <2> HIDE DEF A, U
  <2>1. assignments = UNION {{e} \X A(e) : e \in ids \ U}
    BY <1>3
  <2> QED
    BY <2>1
<1>6. \A r : r \in answer <=> \E e \in ids : \E a \in A(e) : r = <<e, a>>
  <2> HIDE DEF A
  <2>1. answer = UNION {{e} \X A(e) : e \in ids}
    BY <1>3 DEF Query
  <2> HIDE DEF answer
  <2> QED
    BY <2>1
<1>7. /\ summary.complete = (U = {}) /\ summary.conflicted = Cardinality(U)
      /\ summary.employees = Cardinality(ids) /\ summary.with = Cardinality(holders)
      /\ summary.without = Cardinality(ids) - Cardinality(U) - Cardinality(holders)
      /\ summary.fromPolicies = Cardinality(versions)
  BY DEF Summary
\* The impact of one version.
<1>8. ASSUME NEW p \in Policies
      PROVE  /\ Impact(p, ids, at).conflicted =
                    {e \in ids : p \in Matches(facts, e, at) /\ Conflicts(facts, e, at)}
             /\ \A r : r \in Impact(p, ids, at).selected <=>
                    \E e \in ids \ U : \E a \in Resolution(facts, e, at) :
                        r = <<e, a>> /\ a.source = <<"version", p>>
             /\ \A r \in Impact(p, ids, at).suppressed :
                    \E e \in ids \ U : \E a \in Won(p, e, at) :
                        r = <<e, a>> /\ a.field \in Overridden(e)
  <2> DEFINE matched == {e \in ids : p \in Matches(facts, e, at)}
             unresolved == {e \in matched : Conflicts(facts, e, at)}
             gain == UNION {{e} \X Won(p, e, at) : e \in matched \ unresolved}
             suppressed == {r \in gain : r[2].field \in Overridden(r[1])}
  <2>1. /\ Impact(p, ids, at).conflicted = unresolved
        /\ Impact(p, ids, at).suppressed = suppressed
        /\ Impact(p, ids, at).selected = gain \ suppressed
    BY DEF Impact
  <2>2. \A r : r \in gain <=> \E e \in matched \ unresolved : \E a \in Won(p, e, at) : r = <<e, a>>
    OBVIOUS
  <2>3. matched \ unresolved \subseteq ids \ U
    BY <1>2
  <2>4. \A e \in ids \ U : (\E a \in Won(p, e, at) : TRUE) => e \in matched \ unresolved
    BY <1>1, <1>2, WonIsResolved
  <2> HIDE DEF gain, U
  <2>5. ASSUME NEW r PROVE r \in gain \ suppressed <=>
            \E e \in ids \ U : \E a \in Resolution(facts, e, at) :
                r = <<e, a>> /\ a.source = <<"version", p>>
    <3>1. r \in gain \ suppressed <=>
            \E e \in ids \ U : \E a \in Won(p, e, at) : r = <<e, a>> /\ a.field \notin Overridden(e)
      BY <2>2, <2>3, <2>4
    <3>2. \A e, a : a \in Won(p, e, at) /\ a.field \notin Overridden(e) <=>
                       a \in Resolution(facts, e, at) /\ a.source = <<"version", p>>
      BY <1>1, WonIsResolved
    <3> QED
      BY <3>1, <3>2
  <2>6. \A r \in suppressed : \E e \in ids \ U : \E a \in Won(p, e, at) :
            r = <<e, a>> /\ a.field \in Overridden(e)
    BY <2>2, <2>3
  <2>7. unresolved = {e \in ids : p \in Matches(facts, e, at) /\ Conflicts(facts, e, at)}
    OBVIOUS
  <2> QED
    BY <2>1, <2>5, <2>6, <2>7
<1>9. \A r : r \in selected <=>
          \E p \in visible : \E e \in ids \ U : \E a \in Resolution(facts, e, at) :
              r = <<e, a>> /\ a.source = <<"version", p>>
  <2> HIDE DEF U
  <2>1. \A r : r \in selected <=> \E p \in visible : r \in Impact(p, ids, at).selected
    OBVIOUS
  <2>2. \A p \in visible : \A r : r \in Impact(p, ids, at).selected <=>
            \E e \in ids \ U : \E a \in Resolution(facts, e, at) :
                r = <<e, a>> /\ a.source = <<"version", p>>
    BY <1>8
  <2> HIDE DEF visible, selected
  <2> QED
    BY <2>1, <2>2
\* What a version gives lies in fields that the caller of its report sees.
<1>10. ASSUME NEW p \in visible, NEW e, NEW a \in Won(p, e, at)
       PROVE  CanAccess(fields, a.field)
  <2>1. a.field \in {g[1] : g \in Gives[p]}
    BY <1>1, WonIsResolved
  <2> QED
    BY <2>1 DEF PolicyVisible, CanAccess
<1> HIDE DEF U, answer, summary, assignments, holders, visible, selected, versions, A
<1> USE DEF visible
<1>a. QueryFails(ids, day) <=> ~ summary.complete
  BY <1>7 DEF QueryFails, U
<1>b. summary.with + summary.without + summary.conflicted = summary.employees
  <2>1. holders \subseteq ids
    BY <1>5 DEF holders
  <2>2. /\ Cardinality(ids) \in Nat /\ Cardinality(U) \in Nat /\ Cardinality(holders) \in Nat
    BY <1>4, <2>1, FS_Subset, FS_CardinalityType
  <2> QED
    BY <1>7, <2>2
<1>c. \A p \in visible : Impact(p, ids, at).conflicted # {} => summary.conflicted > 0
  <2>1. \A p \in visible : Impact(p, ids, at).conflicted # {} => U # {}
    BY <1>2, <1>8
  <2>2. U # {} => Cardinality(U) > 0
    BY <1>4, FS_EmptySet, FS_CardinalityType
  <2> QED
    BY <1>7, <2>1, <2>2
<1>d. fields.unrestricted =>
          Cardinality(UNION {Impact(p, ids, at).conflicted : p \in visible}) = summary.conflicted
  <2>1. SUFFICES ASSUME fields.unrestricted
                 PROVE  UNION {Impact(p, ids, at).conflicted : p \in visible} = U
    BY <1>7
  <2>2. visible = Policies
    BY <2>1 DEF PolicyVisible
  <2>3. \A e \in U : \E p \in Policies : e \in Impact(p, ids, at).conflicted
    BY <1>1, <1>2, <1>8, ConflictsMatch
  <2>4. \A p \in Policies : Impact(p, ids, at).conflicted \subseteq U
    BY <1>2, <1>8
  <2> HIDE DEF visible
  <2> QED
    BY <2>2, <2>3, <2>4
<1>e. ASSUME summary.complete
      PROVE  /\ selected \subseteq answer
             /\ fields.unrestricted => selected = {r \in answer : r[2].source[1] = "version"}
             /\ Cardinality(selected) <= summary.fromPolicies
             /\ \A p \in visible : \A r \in Impact(p, ids, at).suppressed :
                    \E a \in answer : a[1] = r[1] /\ a[2].field = r[2].field
                                        /\ a[2].source[1] = "override"
  <2>1. U = {} /\ ids \ U = ids
    BY <1>7, <1>e
  <2>2. assignments = answer
    BY <1>5, <1>6, <2>1
  <2>3. ASSUME NEW r \in selected PROVE r \in answer /\ r[2].source[1] = "version"
    <3>0. PICK p \in visible : \E e \in ids : \E a \in Resolution(facts, e, at) :
              r = <<e, a>> /\ a.source = <<"version", p>>
      <4> HIDE DEF visible
      <4> QED
        BY <1>9, <2>1
    <3>2. PICK e \in ids : \E a \in Resolution(facts, e, at) :
              r = <<e, a>> /\ a.source = <<"version", p>>
      BY <3>0
    <3>1. PICK a \in Resolution(facts, e, at) : r = <<e, a>> /\ a.source = <<"version", p>>
      BY <3>2
    <3>3. a \in Won(p, e, at)
      BY <1>1, <3>1, WonIsResolved
    <3>4. a \in A(e)
      BY <1>10, <3>1, <3>3 DEF A
    <3> QED
      BY <1>6, <3>1, <3>4
  <2>4. ASSUME fields.unrestricted, NEW r \in answer, r[2].source[1] = "version"
        PROVE  r \in selected
    <3>0. PICK e \in ids : \E a \in A(e) : r = <<e, a>>
      BY <1>6
    <3>1. PICK a \in A(e) : r = <<e, a>>
      BY <3>0
    <3>2. a \in Resolution(facts, e, at) /\ Known(a, created) /\ a.source[1] = "version"
      BY <1>1, <2>4, <3>1, ResolutionKnown DEF A
    <3>3. PICK p \in Policies : a.source = <<"version", p>>
      BY <3>2 DEF Known
    <3>4. p \in visible
      BY <2>4 DEF PolicyVisible
    <3> QED
      BY <1>9, <2>1, <3>1, <3>2, <3>3, <3>4
  <2>5. Cardinality(selected) <= summary.fromPolicies
    <3>1. selected \subseteq versions
      BY <2>2, <2>3 DEF versions
    <3>2. ASSUME NEW r \in versions
          PROVE  \E e \in Employees, f \in Fields, v \in Values, p \in Policies :
                     r = <<e, Assignment(f, v, "version", p)>>
      <4>0. PICK e \in ids : \E a \in A(e) : r = <<e, a>> /\ r[2].source[1] = "version"
        BY <1>6, <2>2, <3>2 DEF versions
      <4>1. PICK a \in A(e) : r = <<e, a>> /\ a.source[1] = "version"
        BY <4>0
      <4>2. a \in Resolution(facts, e, at) /\ Known(a, created)
        BY <1>1, ResolutionKnown DEF A
      <4>3. PICK p \in Policies : a.source = <<"version", p>>
        BY <4>1, <4>2 DEF Known
      <4>4. a \in Won(p, e, at)
        BY <1>1, <4>2, <4>3, WonIsResolved
      <4>5. PICK g \in Fields \X Values : a = Assignment(g[1], g[2], "version", p)
        BY <4>4 DEF Won
      <4> QED
        BY <4>1, <4>5
    <3>3. IsFiniteSet(versions)
      BY <3>2, FiniteAnswers
    <3> QED
      BY <1>7, <3>1, <3>3, FS_Subset
  <2>6. ASSUME NEW p \in visible, NEW r \in Impact(p, ids, at).suppressed
        PROVE  \E a \in answer : a[1] = r[1] /\ a[2].field = r[2].field
                                        /\ a[2].source[1] = "override"
    <3>0. PICK e \in ids : \E a \in Won(p, e, at) : r = <<e, a>> /\ a.field \in Overridden(e)
      BY <1>8, <2>1
    <3>1. PICK a \in Won(p, e, at) : r = <<e, a>> /\ a.field \in Overridden(e)
      BY <3>0
    <3>2. PICK o \in facts.overrides : o.employee = e /\ o.field = a.field
      BY <3>1 DEF Overridden
    <3> DEFINE b == Assignment(o.field, o.value, "override", o.id)
    <3>3. b \in Resolution(facts, e, at)
      BY <3>2 DEF Resolution
    <3>4. b.field = a.field /\ b.source[1] = "override"
      BY <3>2 DEF Assignment
    <3>5. CanAccess(fields, a.field)
      BY <1>10
    <3>6. <<e, b>> \in answer
      <4> HIDE DEF b
      <4> QED
        BY <1>6, <3>3, <3>4, <3>5 DEF A
    <3> QED
      BY <3>1, <3>4, <3>6
  <2> QED
    BY <2>3, <2>4, <2>5, <2>6
\* The same, said as Agree says it.
<1> DEFINE impact == [p \in visible |-> Impact(p, ids, at)]
<1>f. /\ \A p \in visible : impact[p].conflicted # {} => summary.conflicted > 0
      /\ UNION {impact[p].conflicted : p \in visible} = UNION {Impact(p, ids, at).conflicted : p \in visible}
      /\ UNION {impact[p].selected : p \in visible} = selected
      /\ summary.complete => \A p \in visible : \A r \in impact[p].suppressed :
                \E a \in answer : a[1] = r[1] /\ a[2].field = r[2].field
                                    /\ a[2].source[1] = "override"
  <2>1. \A p \in visible : impact[p] = Impact(p, ids, at)
    OBVIOUS
  <2>2. selected = UNION {Impact(p, ids, at).selected : p \in visible}
    BY DEF selected
  <2> HIDE DEF visible, impact
  <2> QED
    BY <1>c, <1>e, <2>1, <2>2
<1> DEFINE whole == UNION {impact[p].selected : p \in visible}
           failed == UNION {impact[p].conflicted : p \in visible}
<1>g. /\ fields.unrestricted => Cardinality(failed) = summary.conflicted
      /\ summary.complete =>
            /\ whole \subseteq answer
            /\ fields.unrestricted => whole = {r \in answer : r[2].source[1] = "version"}
            /\ Cardinality(whole) <= summary.fromPolicies
  BY <1>d, <1>e, <1>f
<1> QED
  BY <1>a, <1>b, <1>f, <1>g, Zenon DEF Agree, summary, answer

\* With one request at a time the reports agree: of whatever caller, population and day,
\* the impact of the policies, the summary and the answer to a query tell the same.
THEOREM ReportsAlwaysAgree ==
    ASSUME \A s, t \in Sessions : s = t
    PROVE  AFSpec => []ReportsAgree
<1>1. ASSUME PromiseInv, Quiet, NEW ids \in {Employees} \cup {{e} : e \in Employees}
      PROVE  ids \in SUBSET Employees
  OBVIOUS
<1>2. PromiseInv => ReportsAgree
  BY <1>1, ReportsOfOneCaller DEF ReportsAgree
<1> QED
  BY <1>2, PromiseInvariant, PTL
=============================================================================
