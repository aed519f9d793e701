------------------------ MODULE PolicyVersionsProofs ------------------------
(***************************************************************************)
(* For any number of policies, concurrent requests and dates: versions of  *)
(* a policy never overlap, are numbered 1..n, and are only ever closed;    *)
(* their events match them, and what is stale has an event that is due.    *)
(*                                                                         *)
(* The properties are not inductive alone: a request commits what it       *)
(* computed some steps earlier.  The strengthening says that the rows of a *)
(* policy cannot change under the lock of a request (LockInv), and that    *)
(* what a request holds ready to commit is sound for the rows (Sound) and  *)
(* for the events (Prepared) as they are now.  A request also uses version *)
(* objects that it loaded before it had the lock: LoadedInv says how far   *)
(* the rows can have moved away from them meanwhile.                       *)
(***************************************************************************)
EXTENDS PolicySchedules, TLAPS

Numbered(vs) ==
    /\ \A v, w \in vs : v.number = w.number => v = w
    /\ \E n \in Nat : {v.number : v \in vs} = 1 .. n

\* The numbers of the versions among rs that answer for a date.
Answer(rs, d) == {v.number : v \in {x \in rs : x.from <= d /\ d <= x.until}}

Sound(vs, w) ==
    /\ w.gone \subseteq VersionsOf(vs, w.policy)
    /\ \A v \in w.add : v.policy = w.policy
    /\ Disjoint(Flushed(vs, w))
    /\ Numbered(Flushed(vs, w))
    /\ \A v \in w.gone : \E x \in w.add : SameOrClosed(v, x)
    /\ \A v \in w.add : \/ \E x \in w.add : x.from = v.until + 1
                       \/ \A u \in VersionsOf(vs, w.policy) : u.number # v.number
    /\ \A d \in Days : d < w.from => Answer(Flushed(vs, w), d) = Answer(VersionsOf(vs, w.policy), d)

\* Version n of policy p is open, or another one starts the day after it ends.
OpenOrFollowed(vs, p, n) ==
    \E v \in VersionsOf(vs, p) :
        v.number = n /\ (v.until = Open \/ \E x \in VersionsOf(vs, p) : x.from = v.until + 1)

\* A version that was open when a request loaded it has a successor if it has ended since.
LoadedInv == \A s \in Sessions : \A n \in txn[s].open : OpenOrFollowed(versions, txn[s].policy, n)

LockInv ==
    \A s \in Sessions : pc[s] \in {"locked", "written"} => lock[txn[s].policy] = s

NothingWritten ==
    \A s \in Sessions : pc[s] # "written" => txn[s].gone = {} /\ txn[s].add = {}

AllNumbered == \A p \in Policies : Numbered(VersionsOf(versions, p))

AllSound == \A s \in Sessions : pc[s] = "written" => Sound(versions, txn[s])

IInv ==
    /\ PVTypeOK
    /\ LockInv
    /\ NothingWritten
    /\ NoOverlap
    /\ AllNumbered
    /\ AllSound
    /\ LoadedInv

-----------------------------------------------------------------------------
(* Lemmas on the operators of policy_versions.py.                          *)

\* Closing a version that starts earlier gives a version with the same identity
\* that ends the day before the new one and not before its own start.
LEMMA ClosedVersion ==
    ASSUME NEW v \in Version, NEW from \in Days, v.from < from
    PROVE  /\ Closed(v, from) \in Version
           /\ Closed(v, from).policy = v.policy
           /\ Closed(v, from).number = v.number
           /\ Closed(v, from).from = v.from
           /\ Closed(v, from).until = from - 1
           /\ Closed(v, from).until >= v.from
BY LastDayAssumption DEF Closed, Version, Days, Open

\* Rows that do not overlap have at most one open version before a date.
LEMMA OnePriorOpen ==
    ASSUME NEW vs \in SUBSET Version, NEW p \in Policies, NEW from \in Days,
           Disjoint(vs),
           NEW v \in PriorOpen(vs, p, from), NEW w \in PriorOpen(vs, p, from)
    PROVE  v = w
BY LastDayAssumption DEF PriorOpen, VersionsOf, Disjoint, RangesMeet, Version, Days, Open

\* max + 1 is n + 1 when the numbers are 1..n.
LEMMA NextNumberIs ==
    ASSUME NEW vs \in SUBSET Version, NEW p \in Policies, NEW n \in Nat,
           {v.number : v \in VersionsOf(vs, p)} = 1 .. n
    PROVE  NextNumber(vs, p) = n + 1
<1> DEFINE numbers == {v.number : v \in VersionsOf(vs, p)}
<1>1. CASE n = 0
  <2>1. numbers = {}
    BY <1>1
  <2> QED
    BY <2>1, <1>1 DEF NextNumber
<1>2. CASE n # 0
  <2>1. n \in numbers /\ \A m \in numbers : m <= n
    BY <1>2
  <2>2. \A k \in numbers : (\A m \in numbers : k >= m) => k = n
    <3>1. \A k \in numbers : k \in Int
      OBVIOUS
    <3> HIDE DEF numbers
    <3> QED
      BY <2>1, <3>1
  <2>3. Max(numbers) = n
    BY <2>1, <2>2 DEF Max
  <2> QED
    BY <2>1, <2>3 DEF NextNumber
<1> QED
  BY <1>1, <1>2

\* What create_policy_version writes below the lock is sound for the rows it read.
LEMMA WrittenIsSound ==
    ASSUME NEW vs \in SUBSET Version, NEW w \in Work,
           Disjoint(vs), Numbered(VersionsOf(vs, w.policy)),
           ~ Overlapping(AfterClosing(vs, w.policy, w.from), w.policy, w.from, w.until)
    PROVE  Written(vs, w) \in Work /\ Sound(vs, Written(vs, w))
<1> DEFINE p == w.policy
           prior == PriorOpen(vs, p, w.from)
           ended == {Closed(v, w.from) : v \in prior}
           fresh == [policy |-> p, number |-> NextNumber(vs, p),
                     from |-> w.from, until |-> w.until]
           W == Written(vs, w)
           A == Flushed(vs, W)
<1>1. p \in Policies /\ w.from \in Days /\ w.until \in Days \cup {Open}
  BY DEF Work
<1>2. PICK n \in Nat : {v.number : v \in VersionsOf(vs, p)} = 1 .. n
  BY DEF Numbered
<1>3. NextNumber(vs, p) = n + 1
  BY <1>1, <1>2, NextNumberIs
<1>4. fresh \in Version
  BY <1>1, <1>3 DEF Version
<1>5. \A v \in prior : v \in vs /\ v \in Version /\ v.policy = p /\ v.from < w.from /\ v.until = Open
  BY DEF PriorOpen, VersionsOf
<1>6. \A v \in prior : /\ Closed(v, w.from) \in Version
                       /\ Closed(v, w.from).policy = v.policy
                       /\ Closed(v, w.from).number = v.number
                       /\ Closed(v, w.from).from = v.from
                       /\ Closed(v, w.from).until = w.from - 1
                       /\ Closed(v, w.from).until >= v.from
  BY <1>1, <1>5, ClosedVersion
<1>7. /\ W.gone = prior /\ W.add = ended \cup {fresh} /\ W.policy = p
      /\ W \in Work
  <2>1. prior \in SUBSET Version /\ ended \cup {fresh} \in SUBSET Version
    BY <1>4, <1>5, <1>6
  <2>2. W = [w EXCEPT !.gone = prior, !.add = ended \cup {fresh}]
    BY DEF Written
  <2> HIDE DEF W, prior, ended, fresh
  <2> QED
    BY <2>1, <2>2 DEF Work
<1>8. A = (VersionsOf(vs, p) \ prior) \cup ended \cup {fresh}
  BY <1>7 DEF Flushed
<1>9. Disjoint(A)
  <2> SUFFICES ASSUME NEW a \in A, NEW b \in A, a.policy = b.policy,
                      RangesMeet(a.from, a.until, b.from, b.until)
               PROVE  a = b
    BY DEF Disjoint
  <2>0. \A v \in VersionsOf(vs, p) : v \in vs /\ v \in Version /\ v.policy = p
    BY DEF VersionsOf
  <2>1. CASE a \in VersionsOf(vs, p) \ prior /\ b \in VersionsOf(vs, p) \ prior
    BY <2>0, <2>1 DEF Disjoint
  <2>2. ASSUME NEW x \in VersionsOf(vs, p) \ prior, NEW y \in prior,
               RangesMeet(x.from, x.until, y.from, w.from - 1)
        PROVE  FALSE
    <3>1. RangesMeet(x.from, x.until, y.from, y.until)
      BY <2>2, <2>0, <1>5, <1>1, LastDayAssumption DEF RangesMeet, Version, Days, Open
    <3> QED
      BY <3>1, <2>0, <1>5 DEF Disjoint
  <2>3. CASE a \in ended /\ b \in VersionsOf(vs, p) \ prior
    <3>1. PICK y \in prior : a = Closed(y, w.from)
      BY <2>3
    <3>2. RangesMeet(b.from, b.until, y.from, w.from - 1)
      BY <3>1, <1>6 DEF RangesMeet
    <3> QED
      BY <3>2, <2>2, <2>3
  <2>4. CASE b \in ended /\ a \in VersionsOf(vs, p) \ prior
    <3>1. PICK y \in prior : b = Closed(y, w.from)
      BY <2>4
    <3>2. RangesMeet(a.from, a.until, y.from, w.from - 1)
      BY <3>1, <1>6 DEF RangesMeet
    <3> QED
      BY <3>2, <2>2, <2>4
  <2>5. CASE a \in ended /\ b \in ended
    BY <2>5, <1>1, OnePriorOpen
  <2>6. \A v \in (VersionsOf(vs, p) \ prior) \cup ended :
            ~ RangesMeet(v.from, v.until, w.from, w.until)
    <3>1. \A v \in (VersionsOf(vs, p) \ prior) \cup ended :
              v \in VersionsOf(AfterClosing(vs, p, w.from), p)
      BY <1>5, <1>6, <2>0 DEF AfterClosing, VersionsOf
    <3> QED
      BY <3>1 DEF Overlapping
  <2>7. fresh.from = w.from /\ fresh.until = w.until
    OBVIOUS
  <2>8. CASE a = fresh /\ b # fresh
    <3>1. b \in (VersionsOf(vs, p) \ prior) \cup ended
      BY <2>8, <1>8
    <3>2. RangesMeet(b.from, b.until, w.from, w.until)
      BY <2>7, <2>8 DEF RangesMeet
    <3> QED
      BY <3>1, <3>2, <2>6
  <2>9. CASE b = fresh /\ a # fresh
    <3>1. a \in (VersionsOf(vs, p) \ prior) \cup ended
      BY <2>9, <1>8
    <3>2. RangesMeet(a.from, a.until, w.from, w.until)
      BY <2>7, <2>9
    <3> QED
      BY <3>1, <3>2, <2>6
  <2> QED
    BY <1>8, <2>1, <2>3, <2>4, <2>5, <2>8, <2>9
<1>10. Numbered(A)
  <2>0. \A v \in VersionsOf(vs, p) : v.number \in 1 .. n
    BY <1>2
  <2>1. \A v \in prior : v \in VersionsOf(vs, p)
    BY DEF PriorOpen
  <2>2. \A v, x \in VersionsOf(vs, p) : v.number = x.number => v = x
    BY DEF Numbered
  <2>3. fresh.number = n + 1
    BY <1>3
  <2>4. \A a \in (VersionsOf(vs, p) \ prior) \cup ended : a.number \in 1 .. n
    BY <2>0, <2>1, <1>6
  <2>5. \A a, b \in (VersionsOf(vs, p) \ prior) \cup ended : a.number = b.number => a = b
    BY <2>1, <2>2, <1>6
  <2>6. \A a, b \in A : a.number = b.number => a = b
    BY <2>3, <2>4, <2>5, <1>8
  <2>7. \A k \in 1 .. n : \E a \in (VersionsOf(vs, p) \ prior) \cup ended : a.number = k
    <3> SUFFICES ASSUME NEW k \in 1 .. n
                 PROVE  \E a \in (VersionsOf(vs, p) \ prior) \cup ended : a.number = k
      OBVIOUS
    <3>1. PICK v \in VersionsOf(vs, p) : v.number = k
      BY <1>2
    <3> QED
      BY <3>1, <1>6
  <2>8. {a.number : a \in A} = 1 .. (n + 1)
    <3>1. \A k \in 1 .. (n + 1) : \E a \in A : a.number = k
      <4> SUFFICES ASSUME NEW k \in 1 .. (n + 1)
                   PROVE  \E a \in A : a.number = k
        OBVIOUS
      <4>1. CASE k = n + 1
        <5>1. fresh \in A
          BY <1>8
        <5> QED
          BY <4>1, <5>1, <2>3
      <4>2. CASE k \in 1 .. n
        <5>1. PICK a \in (VersionsOf(vs, p) \ prior) \cup ended : a.number = k
          BY <4>2, <2>7
        <5> QED
          BY <5>1, <1>8
      <4> QED
        BY <4>1, <4>2
    <3>2. \A a \in A : a.number \in 1 .. (n + 1)
      BY <2>4, <2>3, <1>8
    <3> QED
      BY <3>1, <3>2
  <2> QED
    BY <2>6, <2>8 DEF Numbered
<1>11. \A v \in W.gone : \E x \in W.add : SameOrClosed(v, x)
  BY <1>5, <1>6, <1>7 DEF SameOrClosed
<1>12. W.gone \subseteq VersionsOf(vs, p) /\ \A v \in W.add : v.policy = p
  BY <1>5, <1>6, <1>7 DEF VersionsOf
<1>13. ASSUME NEW d \in Days, d < w.from
       PROVE  Answer(A, d) = Answer(VersionsOf(vs, p), d)
  <2> DEFINE Covers(v) == v.from <= d /\ d <= v.until
  <2>1. ASSUME NEW y \in prior
        PROVE  Covers(Closed(y, w.from)) <=> Covers(y)
    <3>1. d \in Int /\ w.from \in Int /\ d <= w.from - 1 /\ d <= Open
      BY <1>1, <1>13, LastDayAssumption DEF Days, Open
    <3> QED
      BY <3>1, <1>5, <1>6
  <2>2. ~ Covers(fresh)
    <3>1. d \in Int /\ w.from \in Int /\ fresh.from = w.from
      BY <1>1, LastDayAssumption DEF Days
    <3> QED
      BY <3>1, <1>13
  <2>3. prior \subseteq VersionsOf(vs, p)
    BY DEF PriorOpen
  <2> HIDE DEF Covers, prior, fresh, A
  <2>4. ASSUME NEW x \in A, Covers(x)
        PROVE  \E v \in VersionsOf(vs, p) : Covers(v) /\ v.number = x.number
    <3>1. CASE x \in VersionsOf(vs, p)
      BY <2>4, <3>1
    <3>2. CASE x \in ended
      <4>1. PICK y \in prior : x = Closed(y, w.from)
        BY <3>2
      <4> QED
        BY <4>1, <2>1, <2>3, <2>4, <1>6
    <3> QED
      BY <1>8, <2>2, <2>4, <3>1, <3>2
  <2>5. ASSUME NEW v \in VersionsOf(vs, p), Covers(v)
        PROVE  \E x \in A : Covers(x) /\ x.number = v.number
    <3>1. CASE v \in prior
      <4>1. Closed(v, w.from) \in A
        BY <3>1, <1>8
      <4> QED
        BY <4>1, <3>1, <2>1, <2>5, <1>6
    <3>2. CASE v \notin prior
      BY <3>2, <2>5, <1>8
    <3> QED
      BY <3>1, <3>2
  <2> QED
    BY <2>4, <2>5 DEF Answer, Covers
<1>14. W \in Work /\ W.policy = p /\ W.from = w.from
  BY <1>7 DEF Written
<1>15. \A d \in Days : d < W.from => Answer(A, d) = Answer(VersionsOf(vs, W.policy), d)
  <2> HIDE DEF A, W
  <2> QED
    BY <1>13, <1>14
<1>16. \A v \in W.add : \/ \E x \in W.add : x.from = v.until + 1
                       \/ \A u \in VersionsOf(vs, W.policy) : u.number # v.number
  <2> HIDE DEF W, A
  <2>1. /\ fresh \in W.add /\ fresh.from = w.from /\ fresh.number = n + 1
        /\ W.add = ended \cup {fresh} /\ W.policy = p
    BY <1>3, <1>7, <1>14
  <2>2. ASSUME NEW v \in ended PROVE fresh.from = v.until + 1
    BY <1>1, <1>6, <2>1, LastDayAssumption DEF Days
  <2>3. \A u \in VersionsOf(vs, p) : u.number # n + 1
    BY <1>2
  <2> HIDE DEF fresh, ended
  <2> QED
    BY <2>1, <2>2, <2>3
<1> HIDE DEF W, A
<1>17. Sound(vs, W)
  BY <1>9, <1>10, <1>11, <1>12, <1>14, <1>15, <1>16 DEF Sound, A
<1> QED
  BY <1>14, <1>17 DEF W

-----------------------------------------------------------------------------
(* Every step preserves the strengthened invariant.                        *)

LEMMA InitIInv == PVInit => IInv
<1> SUFFICES ASSUME PVInit PROVE IInv
  OBVIOUS
<1>1. PVTypeOK
  BY LastDayAssumption DEF PVInit, PVTypeOK, NoWork, Work, Statuses, Days, Open
<1>2. AllNumbered
  <2>1. \A p \in Policies : {v.number : v \in VersionsOf(versions, p)} = 1 .. 0
    BY DEF PVInit, VersionsOf
  <2> QED
    BY <2>1 DEF AllNumbered, Numbered, PVInit, VersionsOf
<1> QED
  BY <1>1, <1>2 DEF PVInit, IInv, LockInv, NothingWritten, NoOverlap, Disjoint,
                    AllSound, LoadedInv, NoWork

\* Another policy's rows are the same before and after a sound commit, and the
\* committing policy's rows become exactly what the request prepared.
LEMMA CommittedRows ==
    ASSUME NEW vs \in SUBSET Version, NEW w \in Work, Sound(vs, w)
    PROVE  LET new == (vs \ w.gone) \cup w.add
           IN  /\ VersionsOf(new, w.policy) = Flushed(vs, w)
               /\ \A q \in Policies : q # w.policy => VersionsOf(new, q) = VersionsOf(vs, q)
BY DEF Sound, Flushed, VersionsOf

LEMMA DisjointByPolicy ==
    ASSUME NEW vs \in SUBSET Version
    PROVE  Disjoint(vs) <=> \A p \in Policies : Disjoint(VersionsOf(vs, p))
BY DEF Disjoint, VersionsOf, Version

LEMMA NoWorkIsWork ==
    ASSUME NEW p \in Policies
    PROVE  /\ NoWork(p) \in Work /\ NoWork(p).policy = p
           /\ NoWork(p).gone = {} /\ NoWork(p).add = {} /\ NoWork(p).open = {}
BY LastDayAssumption DEF NoWork, Work, Statuses, Days, Open

\* The request s moves to a state that holds nothing ready to commit; every
\* other request and every committed row stays as it is.
LEMMA BeginOrLock ==
    ASSUME IInv, NEW s \in Sessions, NEW w \in Work, w.gone = {}, w.add = {},
           \A n \in w.open : OpenOrFollowed(versions, w.policy, n),
           NEW c \in {"loaded", "locked"},
           txn' = [txn EXCEPT ![s] = w],
           pc' = [pc EXCEPT ![s] = c],
           \/ c = "loaded" /\ lock' = lock
           \/ c = "locked" /\ lock[w.policy] = NoSession /\ lock' = [lock EXCEPT ![w.policy] = s],
           pc[s] \in {"idle", "loaded"},
           UNCHANGED <<status, versions>>
    PROVE  IInv'
<1>1. PVTypeOK'
  BY DEF IInv, PVTypeOK, Work
<1>2. LockInv'
  <2> SUFFICES ASSUME NEW t \in Sessions, pc'[t] \in {"locked", "written"}
               PROVE  lock'[txn'[t].policy] = t
    BY DEF LockInv
  <2>1. CASE t = s
    BY <2>1, <1>1 DEF IInv, PVTypeOK, Work
  <2>2. CASE t # s
    BY <2>2, SessionsAssumption DEF IInv, PVTypeOK, LockInv, Work
  <2> QED
    BY <2>1, <2>2
<1>3. NothingWritten'
  BY DEF IInv, PVTypeOK, NothingWritten
<1>4. AllSound'
  BY DEF IInv, PVTypeOK, AllSound
<1>5. NoOverlap' /\ AllNumbered'
  BY DEF IInv, NoOverlap, AllNumbered
<1>6. LoadedInv'
  BY DEF IInv, PVTypeOK, LoadedInv, OpenOrFollowed
<1> QED
  BY <1>1, <1>2, <1>3, <1>4, <1>5, <1>6 DEF IInv

\* The request s ends without having changed a committed version.
LEMMA EndWithoutRows ==
    ASSUME IInv, NEW s \in Sessions, EndTxn(s), pc[s] \in {"locked", "written"},
           status' = status \/ status' \in [Policies -> Statuses \cup {"absent"}],
           versions' = versions
    PROVE  IInv'
<1> DEFINE p == txn[s].policy
<1>0. p \in Policies
  BY DEF IInv, PVTypeOK, Work
<1>1. PVTypeOK'
  BY <1>0, NoWorkIsWork DEF IInv, PVTypeOK, EndTxn
<1>2. LockInv'
  <2> SUFFICES ASSUME NEW t \in Sessions, pc'[t] \in {"locked", "written"}
               PROVE  lock'[txn'[t].policy] = t
    BY DEF LockInv
  <2>1. t # s /\ pc'[t] = pc[t] /\ txn'[t] = txn[t]
    BY DEF IInv, PVTypeOK, EndTxn
  <2>2. lock[txn[t].policy] = t /\ lock[p] = s
    BY <2>1 DEF IInv, LockInv
  <2> QED
    BY <2>1, <2>2 DEF IInv, PVTypeOK, EndTxn, Work
<1>3. NothingWritten'
  BY <1>0, NoWorkIsWork DEF IInv, PVTypeOK, NothingWritten, EndTxn
<1>4. AllSound'
  BY DEF IInv, PVTypeOK, AllSound, EndTxn
<1>5. NoOverlap' /\ AllNumbered'
  BY DEF IInv, NoOverlap, AllNumbered
<1>6. LoadedInv'
  BY <1>0, NoWorkIsWork DEF IInv, PVTypeOK, LoadedInv, OpenOrFollowed, EndTxn
<1> QED
  BY <1>1, <1>2, <1>3, <1>4, <1>5, <1>6 DEF IInv

\* What another request holds ready stays sound, because its policy's rows did
\* not change: the row lock has one holder.
LEMMA OthersStaySound ==
    ASSUME NEW vs \in SUBSET Version, NEW new \in SUBSET Version, NEW w \in Work,
           VersionsOf(new, w.policy) = VersionsOf(vs, w.policy), Sound(vs, w)
    PROVE  Sound(new, w)
BY DEF Sound, Flushed

\* A commit closes an open version only with a successor, and re-dates no start.
LEMMA CommitFollows ==
    ASSUME NEW vs \in SUBSET Version, NEW w \in Work, Sound(vs, w), NEW n,
           OpenOrFollowed(vs, w.policy, n)
    PROVE  OpenOrFollowed((vs \ w.gone) \cup w.add, w.policy, n)
<1> DEFINE p == w.policy
           new == (vs \ w.gone) \cup w.add
<1>1. PICK v \in VersionsOf(vs, p) :
        v.number = n /\ (v.until = Open \/ \E x \in VersionsOf(vs, p) : x.from = v.until + 1)
  BY DEF OpenOrFollowed
<1>2. VersionsOf(new, p) = (VersionsOf(vs, p) \ w.gone) \cup w.add
  BY CommittedRows DEF Flushed
<1>3. \A x \in VersionsOf(vs, p) : \E y \in VersionsOf(new, p) : y.from = x.from
  BY <1>2 DEF Sound, SameOrClosed
<1>4. CASE v \in w.gone
  <2>1. PICK y \in w.add : SameOrClosed(v, y)
    BY <1>4 DEF Sound
  <2>2. y.number = n /\ v.number = y.number
    BY <1>1, <2>1 DEF SameOrClosed
  <2>3. \E x \in w.add : x.from = y.until + 1
    BY <1>1, <2>2 DEF Sound
  <2> QED
    BY <1>2, <2>2, <2>3 DEF OpenOrFollowed
<1>5. CASE v \notin w.gone
  BY <1>1, <1>2, <1>3, <1>5 DEF OpenOrFollowed
<1> QED
  BY <1>4, <1>5

LEMMA CommitIInv ==
    ASSUME IInv, NEW s \in Sessions, Commit(s)
    PROVE  IInv'
<1> DEFINE w == txn[s]
           p == txn[s].policy
<1>1. /\ w \in Work /\ p \in Policies /\ w.to \in Statuses /\ w.add \subseteq Version
      /\ versions \subseteq Version
  BY DEF IInv, PVTypeOK, Work
<1>2. Sound(versions, w) /\ pc[s] = "written" /\ lock[p] = s
  BY DEF IInv, AllSound, LockInv, Commit
<1>3. /\ versions' = (versions \ w.gone) \cup w.add /\ EndTxn(s)
      /\ status' = IF w.op = "version" THEN status ELSE [status EXCEPT ![p] = w.to]
  BY DEF Commit
<1>4. VersionsOf(versions', p) = Flushed(versions, w)
  BY <1>1, <1>2, <1>3, CommittedRows
<1>5. \A q \in Policies : q # p => VersionsOf(versions', q) = VersionsOf(versions, q)
  BY <1>1, <1>2, <1>3, CommittedRows
<1>6. PVTypeOK'
  BY <1>1, <1>3, NoWorkIsWork DEF IInv, PVTypeOK, EndTxn
<1>7. versions' \subseteq Version
  BY <1>6 DEF PVTypeOK
<1>8. LockInv'
  <2> SUFFICES ASSUME NEW t \in Sessions, pc'[t] \in {"locked", "written"}
               PROVE  lock'[txn'[t].policy] = t
    BY DEF LockInv
  <2>1. t # s /\ pc'[t] = pc[t] /\ txn'[t] = txn[t]
    BY <1>3 DEF IInv, PVTypeOK, EndTxn
  <2>2. lock[txn[t].policy] = t
    BY <2>1 DEF IInv, LockInv
  <2> QED
    BY <2>1, <2>2, <1>2, <1>3 DEF IInv, PVTypeOK, EndTxn, Work
<1>9. NothingWritten'
  BY <1>1, <1>3, NoWorkIsWork DEF IInv, PVTypeOK, NothingWritten, EndTxn
<1>10. NoOverlap'
  <2>1. \A q \in Policies : Disjoint(VersionsOf(versions, q))
    BY <1>1, DisjointByPolicy DEF IInv, NoOverlap
  <2>2. \A q \in Policies : Disjoint(VersionsOf(versions', q))
    BY <2>1, <1>2, <1>4, <1>5 DEF Sound
  <2> QED
    BY <2>2, <1>7, DisjointByPolicy DEF NoOverlap
<1>11. AllNumbered'
  BY <1>2, <1>4, <1>5 DEF IInv, AllNumbered, Sound
<1>12. AllSound'
  <2> SUFFICES ASSUME NEW t \in Sessions, pc'[t] = "written"
               PROVE  Sound(versions', txn'[t])
    BY DEF AllSound
  <2>1. t # s /\ pc[t] = "written" /\ txn'[t] = txn[t] /\ txn[t] \in Work
    BY <1>3 DEF IInv, PVTypeOK, EndTxn
  <2>2. txn[t].policy # p
    BY <2>1, <1>2 DEF IInv, LockInv
  <2>3. txn[t].policy \in Policies /\ Sound(versions, txn[t])
    BY <2>1 DEF IInv, AllSound, Work
  <2> QED
    BY <1>1, <1>5, <1>7, <2>1, <2>2, <2>3, OthersStaySound
<1>13. LoadedInv'
  <2> SUFFICES ASSUME NEW t \in Sessions, NEW n \in txn'[t].open
               PROVE  OpenOrFollowed(versions', txn'[t].policy, n)
    BY DEF LoadedInv
  <2>1. t # s /\ txn'[t] = txn[t] /\ txn[t].policy \in Policies
    BY <1>1, <1>3, NoWorkIsWork DEF IInv, PVTypeOK, EndTxn, Work
  <2>2. OpenOrFollowed(versions, txn[t].policy, n)
    BY <2>1 DEF IInv, LoadedInv
  <2>3. CASE txn[t].policy = p
    BY <1>1, <1>2, <1>3, <2>1, <2>2, <2>3, CommitFollows
  <2>4. CASE txn[t].policy # p
    BY <1>5, <2>1, <2>2, <2>4 DEF OpenOrFollowed
  <2> QED
    BY <2>3, <2>4
<1> QED
  BY <1>6, <1>8, <1>9, <1>10, <1>11, <1>12, <1>13 DEF IInv

LEMMA WriteIInv ==
    ASSUME IInv, NEW s \in Sessions, WriteVersion(s) \/ WriteStatus(s)
    PROVE  IInv'
<1> DEFINE w == txn[s]
<1>1. /\ w \in Work /\ w.policy \in Policies /\ versions \subseteq Version
      /\ pc[s] = "locked" /\ w.gone = {} /\ w.add = {}
  BY DEF IInv, PVTypeOK, NothingWritten, WriteVersion, WriteStatus, Work
<1>2. Disjoint(versions) /\ Numbered(VersionsOf(versions, w.policy))
  BY <1>1 DEF IInv, NoOverlap, AllNumbered
<1>3. \E x \in Work : /\ x.policy = w.policy /\ x.open = w.open /\ Sound(versions, x)
                      /\ txn' = [txn EXCEPT ![s] = x]
  <2>1. CASE WriteVersion(s)
    <3>1. Written(versions, w) \in Work /\ Sound(versions, Written(versions, w))
      BY <1>1, <1>2, <2>1, WrittenIsSound DEF WriteVersion
    <3>2. Written(versions, w).policy = w.policy /\ Written(versions, w).open = w.open
      BY <1>1 DEF Written, Work
    <3> QED
      BY <2>1, <3>1, <3>2 DEF WriteVersion
  <2>2. CASE WriteStatus(s)
    <3>1. Flushed(versions, w) = VersionsOf(versions, w.policy)
      BY <1>1 DEF Flushed
    <3>2. Disjoint(VersionsOf(versions, w.policy))
      BY <1>2 DEF Disjoint, VersionsOf
    <3>3. Sound(versions, w)
      BY <1>1, <1>2, <3>1, <3>2 DEF Sound
    <3>4. txn' = [txn EXCEPT ![s] = w]
      BY <2>2 DEF WriteStatus, IInv, PVTypeOK
    <3> QED
      BY <1>1, <3>3, <3>4
  <2> QED
    BY <2>1, <2>2
<1>4. PICK x \in Work : /\ x.policy = w.policy /\ x.open = w.open /\ Sound(versions, x)
                        /\ txn' = [txn EXCEPT ![s] = x]
  BY <1>3
<1>5. pc' = [pc EXCEPT ![s] = "written"] /\ UNCHANGED <<status, versions, lock>>
  BY DEF WriteVersion, WriteStatus
<1>6. PVTypeOK'
  BY <1>4, <1>5 DEF IInv, PVTypeOK
<1>7. LockInv'
  BY <1>1, <1>4, <1>5 DEF IInv, PVTypeOK, LockInv
<1>8. NothingWritten'
  BY <1>4, <1>5 DEF IInv, PVTypeOK, NothingWritten
<1>9. AllSound'
  BY <1>4, <1>5 DEF IInv, PVTypeOK, AllSound
<1>10. NoOverlap' /\ AllNumbered'
  BY <1>5 DEF IInv, NoOverlap, AllNumbered
<1>11. LoadedInv'
  BY <1>4, <1>5 DEF IInv, PVTypeOK, LoadedInv, OpenOrFollowed
<1> QED
  BY <1>6, <1>7, <1>8, <1>9, <1>10, <1>11 DEF IInv

LEMMA LoadedAreOpen ==
    ASSUME IInv, NEW p \in Policies
    PROVE  /\ LoadedOpen(p) \subseteq Nat
           /\ \A n \in LoadedOpen(p) : OpenOrFollowed(versions, p, n)
BY DEF IInv, PVTypeOK, LoadedOpen, OpenOrFollowed, VersionsOf, Version

LEMMA NextIInv == IInv /\ [PVNext]_pvVars => IInv'
<1> SUFFICES ASSUME IInv, [PVNext]_pvVars PROVE IInv'
  OBVIOUS
<1>1. ASSUME NEW s \in Sessions, NEW p \in Policies, NEW st \in Statuses,
             NEW from \in Days, NEW until \in Days \cup {Open},
             BeginCreate(s, p, st, from, until)
      PROVE  IInv'
  <2> DEFINE w == [NoWork(p) EXCEPT !.op = "create", !.loaded = st,
                                     !.to = st, !.from = from, !.until = until]
  <2>1. w \in Work /\ w.gone = {} /\ w.add = {} /\ w.policy = p /\ w.open = {}
    BY NoWorkIsWork DEF NoWork, Work
  <2>2. /\ lock[p] = NoSession /\ lock' = [lock EXCEPT ![p] = s]
        /\ pc' = [pc EXCEPT ![s] = "locked"] /\ txn' = [txn EXCEPT ![s] = w]
        /\ pc[s] = "idle" /\ UNCHANGED <<status, versions>>
    BY <1>1 DEF BeginCreate
  <2> QED
    BY <2>1, <2>2, BeginOrLock
<1>2. ASSUME NEW s \in Sessions, NEW p \in Policies,
             NEW from \in Days, NEW until \in Days \cup {Open},
             BeginVersion(s, p, from, until)
      PROVE  IInv'
  <2> DEFINE w == [NoWork(p) EXCEPT !.op = "version", !.loaded = status[p],
                                     !.open = LoadedOpen(p), !.to = status[p],
                                     !.from = from, !.until = until]
  <2>1. w \in Work /\ w.gone = {} /\ w.add = {} /\ w.policy = p /\ w.open = LoadedOpen(p)
    BY <1>2, NoWorkIsWork, LoadedAreOpen DEF NoWork, Work, BeginVersion, Statuses
  <2>2. /\ lock' = lock /\ pc' = [pc EXCEPT ![s] = "loaded"] /\ txn' = [txn EXCEPT ![s] = w]
        /\ pc[s] = "idle" /\ UNCHANGED <<status, versions>>
    BY <1>2 DEF BeginVersion
  <2> QED
    BY <2>1, <2>2, LoadedAreOpen, BeginOrLock
<1>3. ASSUME NEW s \in Sessions, NEW p \in Policies, NEW st \in Statuses,
             BeginPatch(s, p, st)
      PROVE  IInv'
  <2> DEFINE w == [NoWork(p) EXCEPT !.loaded = status[p], !.open = LoadedOpen(p), !.to = st]
  <2>1. w \in Work /\ w.gone = {} /\ w.add = {} /\ w.policy = p /\ w.open = LoadedOpen(p)
    BY <1>3, NoWorkIsWork, LoadedAreOpen DEF NoWork, Work, BeginPatch
  <2>2. /\ lock' = lock /\ pc' = [pc EXCEPT ![s] = "loaded"] /\ txn' = [txn EXCEPT ![s] = w]
        /\ pc[s] = "idle" /\ UNCHANGED <<status, versions>>
    BY <1>3 DEF BeginPatch
  <2> QED
    BY <2>1, <2>2, LoadedAreOpen, BeginOrLock
<1>4. ASSUME NEW s \in Sessions, AcquireLock(s)
      PROVE  IInv'
  <2>1. txn[s] \in Work /\ pc[s] = "loaded" /\ txn[s].gone = {} /\ txn[s].add = {}
    BY <1>4 DEF AcquireLock, IInv, PVTypeOK, NothingWritten
  <2>2. txn' = [txn EXCEPT ![s] = txn[s]]
    BY <1>4 DEF AcquireLock, IInv, PVTypeOK
  <2>3. \A n \in txn[s].open : OpenOrFollowed(versions, txn[s].policy, n)
    BY DEF IInv, LoadedInv
  <2> QED
    BY <1>4, <2>1, <2>2, <2>3, BeginOrLock DEF AcquireLock
<1>5. ASSUME NEW s \in Sessions, RejectOverlap(s) \/ Rollback(s)
      PROVE  IInv'
  BY <1>5, EndWithoutRows DEF RejectOverlap, Rollback
<1>6. CASE UNCHANGED pvVars
  BY <1>6 DEF pvVars, IInv, PVTypeOK, LockInv, NothingWritten, NoOverlap, AllNumbered,
              AllSound, LoadedInv, OpenOrFollowed
<1>7. \A r \in Ranges : r[1] \in Days /\ r[2] \in Days \cup {Open}
  BY RangesAssumption
<1> QED
  BY <1>1, <1>2, <1>3, <1>4, <1>5, <1>6, <1>7, WriteIInv, CommitIInv DEF PVNext

\* Committed rows change at a commit and nowhere else.
LEMMA OnlyCommitChangesRows ==
    ASSUME [PVNext]_pvVars
    PROVE  (\E s \in Sessions : Commit(s)) \/ versions' = versions
<1>1. CASE UNCHANGED pvVars
  BY <1>1 DEF pvVars
<1>2. ASSUME NEW s \in Sessions, NEW p \in Policies, NEW st \in Statuses,
             NEW from, NEW until, BeginCreate(s, p, st, from, until)
      PROVE  versions' = versions
  BY <1>2 DEF BeginCreate
<1>3. ASSUME NEW s \in Sessions, NEW p \in Policies, NEW from, NEW until,
             BeginVersion(s, p, from, until)
      PROVE  versions' = versions
  BY <1>3 DEF BeginVersion
<1>4. ASSUME NEW s \in Sessions, NEW p \in Policies, NEW st \in Statuses,
             BeginPatch(s, p, st)
      PROVE  versions' = versions
  BY <1>4 DEF BeginPatch
<1>5. ASSUME NEW s \in Sessions,
             \/ AcquireLock(s) \/ WriteVersion(s) \/ WriteStatus(s)
             \/ RejectOverlap(s) \/ Rollback(s)
      PROVE  versions' = versions
  BY <1>5 DEF AcquireLock, WriteVersion, WriteStatus, RejectOverlap, Rollback
<1> QED
  BY <1>1, <1>2, <1>3, <1>4, <1>5 DEF PVNext

-----------------------------------------------------------------------------
\* The strengthened invariant holds of every reachable state.
THEOREM StrongInvariant == PVSpec => []IInv
<1> QED
  BY InitIInv, NextIInv, PTL DEF PVSpec

\* Type correctness of the policy and version tables and of every request.
THEOREM TypeCorrect == PVSpec => []PVTypeOK
<1>1. IInv => PVTypeOK
  BY DEF IInv
<1> QED
  BY <1>1, StrongInvariant, PTL

\* Inclusive date ranges of one policy never meet, for any number of concurrent
\* requests: get_effective_policy_versions never finds two versions of a policy.
THEOREM VersionsNeverOverlap == PVSpec => []NoOverlap
<1>1. IInv => NoOverlap
  BY DEF IInv
<1> QED
  BY <1>1, StrongInvariant, PTL

\* Version numbers are 1..n for every policy, computed under the row lock.
THEOREM VersionNumbersConsecutive == PVSpec => []NumbersAreConsecutive
<1>1. IInv => NumbersAreConsecutive
  <2> SUFFICES ASSUME IInv PROVE NumbersAreConsecutive
    OBVIOUS
  <2>1. \A v \in versions : v.policy \in Policies /\ v \in VersionsOf(versions, v.policy)
    BY DEF IInv, PVTypeOK, Version, VersionsOf
  <2>2. \A p \in Policies : Numbered(VersionsOf(versions, p))
    BY DEF IInv, AllNumbered
  <2>3. ASSUME NEW v \in versions, NEW w \in versions,
               v.policy = w.policy, v.number = w.number
        PROVE  v = w
    BY <2>1, <2>2, <2>3 DEF Numbered
  <2>4. ASSUME NEW v \in versions, NEW n \in 1 .. v.number
        PROVE  \E w \in versions : w.policy = v.policy /\ w.number = n
    <3>1. PICK k \in Nat : {x.number : x \in VersionsOf(versions, v.policy)} = 1 .. k
      BY <2>1, <2>2 DEF Numbered
    <3>2. v.number \in 1 .. k
      BY <2>1, <3>1
    <3>3. n \in {x.number : x \in VersionsOf(versions, v.policy)}
      BY <3>1, <3>2
    <3> QED
      BY <3>3 DEF VersionsOf
  <2> QED
    BY <2>3, <2>4 DEF NumbersAreConsecutive
<1> QED
  BY <1>1, StrongInvariant, PTL

\* No step loses, re-dates, renumbers or reopens a committed version.
THEOREM CommittedVersionsOnlyClose == PVSpec => VersionsOnlyClose
<1>1. ASSUME IInv, [PVNext]_pvVars
      PROVE  [\A v \in versions : \E w \in versions' : SameOrClosed(v, w)]_pvVars
  <2>1. ASSUME NEW s \in Sessions, Commit(s), NEW v \in versions
        PROVE  \E w \in versions' : SameOrClosed(v, w)
    <3>1. \A x \in txn[s].gone : \E y \in txn[s].add : SameOrClosed(x, y)
      BY <1>1, <2>1 DEF IInv, AllSound, Sound, Commit
    <3>2. CASE v \in txn[s].gone
      BY <2>1, <3>1, <3>2 DEF Commit
    <3>3. CASE v \notin txn[s].gone
      BY <2>1, <3>3 DEF Commit, SameOrClosed
    <3> QED
      BY <3>2, <3>3
  <2>2. CASE versions' = versions
    BY <2>2 DEF SameOrClosed
  <2>3. (\E s \in Sessions : Commit(s)) \/ versions' = versions
    BY <1>1, OnlyCommitChangesRows
  <2> QED
    BY <2>1, <2>2, <2>3
<1> QED
  BY <1>1, StrongInvariant, PTL DEF PVSpec, VersionsOnlyClose

\* A commit leaves the answer for every date before the new version's start as it was,
\* whichever other requests run (policy_versions.py:203-220).
THEOREM EarlierDatesKept == PVSpec => EarlierDatesKeepTheirVersion
<1> DEFINE Kept ==
        \A s \in Sessions :
          pc[s] = "written" /\ versions' # versions /\ pc'[s] = "idle" =>
             \A d \in Days : d < txn[s].from =>
                 {v.number : v \in {x \in VersionsOf(versions, txn[s].policy) :
                                       x.from <= d /\ d <= x.until}}
               = {v.number : v \in {x \in VersionsOf(versions', txn[s].policy) :
                                       x.from <= d /\ d <= x.until}}
<1>1. ASSUME IInv, [PVNext]_pvVars
      PROVE  [Kept]_pvVars
  <2> SUFFICES ASSUME NEW s \in Sessions, pc[s] = "written", versions' # versions,
                      pc'[s] = "idle", NEW d \in Days, d < txn[s].from
               PROVE  Answer(VersionsOf(versions, txn[s].policy), d)
                        = Answer(VersionsOf(versions', txn[s].policy), d)
    BY DEF Answer
  <2>1. PICK u \in Sessions : Commit(u)
    BY <1>1, OnlyCommitChangesRows
  <2>2. u = s
    BY <1>1, <2>1 DEF Commit, EndTxn, IInv, PVTypeOK
  <2>3. txn[s] \in Work /\ Sound(versions, txn[s]) /\ versions \in SUBSET Version
    BY <1>1 DEF IInv, PVTypeOK, AllSound
  <2>4. VersionsOf(versions', txn[s].policy) = Flushed(versions, txn[s])
    BY <2>1, <2>2, <2>3, CommittedRows DEF Commit
  <2> QED
    BY <2>3, <2>4 DEF Sound
<1> QED
  BY <1>1, StrongInvariant, PTL DEF PVSpec, EarlierDatesKeepTheirVersion


-----------------------------------------------------------------------------
(* PolicySchedules: the same requests with the events they schedule, the   *)
(* worker and the clock.  Every step of it is a step of PolicyVersions or  *)
(* leaves that module's variables alone, so the theorems above hold of it. *)

LEMMA SchedulesAreRequests == [PSNext]_psVars => [PVNext]_pvVars
<1> SUFFICES ASSUME [PSNext]_psVars PROVE [PVNext]_pvVars
  OBVIOUS
<1>1. CASE UNCHANGED psVars \/ ProcessBatch \/ PassTime
  BY <1>1 DEF psVars, pvVars, ProcessBatch, PassTime
<1>2. ASSUME NEW s \in Sessions, RequestStep(s)
      PROVE  PVNext
  <2>1. CASE Requests(s)
    BY <2>1 DEF Requests, PVNext
  <2>2. CASE WriteVersionAndSync(s) \/ WriteStatusAndSync(s) \/ RefreshAndCommit(s)
             \/ RollbackRequest(s)
    BY <2>2 DEF WriteVersionAndSync, WriteStatusAndSync, RefreshAndCommit,
                RollbackRequest, PVNext
  <2> QED
    BY <1>2, <2>1, <2>2 DEF RequestStep
<1> QED
  BY <1>1, <1>2 DEF PSNext

\* The status for which a request rewrites the events of its policy.
SyncedStatus(w) == IF w.op = "version" THEN w.loaded ELSE w.to

\* What a request will do to the events when it commits: add are the boundaries of the
\* versions as its objects show them, as of an instant that is past, and cancel is every
\* other pending event of the policy, still, since the worker passes over the rows the
\* request has written and no other request has the policy's lock.
Prepared(s) ==
    /\ \E t \in 0 .. clock :
          changes[s].add = Desired(Objects(versions, txn[s]), SyncedStatus(txn[s]), t)
    /\ changes[s].cancel =
          {k \in Pending : k.policy = txn[s].policy /\ k \notin changes[s].add}

EInv ==
    /\ IInv
    /\ PSInv
    /\ changes \in [Sessions -> [cancel : SUBSET EventKey, add : SUBSET EventKey]]
    /\ \A s \in Sessions : pc[s] = "written" => Prepared(s)
    /\ \A k \in DOMAIN events : events[k] = "processed" => k.at <= clock

LEMMA DayInstants == \A d \in Days : StartOfDay(d) \in Int
BY TicksAssumption, LastDayAssumption DEF StartOfDay, Days

\* Boundaries are events of the versions they are computed for, ahead of the instant they
\* are computed at, and those of a later instant are among them.
LEMMA BoundariesAre ==
    ASSUME NEW vs \in SUBSET Version, NEW now \in Int
    PROVE  /\ Boundaries(vs, now) \subseteq EventKey
           /\ \A k \in Boundaries(vs, now) : k.at \in Int /\ k.at > now
                                             /\ \E v \in vs : k.policy = v.policy
           /\ \A t \in Int : now <= t => {k \in Boundaries(vs, now) : k.at > t} = Boundaries(vs, t)
<1> DEFINE Starts == {[policy |-> v.policy, number |-> v.number,
                       trigger |-> "becomes_effective", at |-> StartOfDay(v.from)] : v \in vs}
           Ends == {[policy |-> v.policy, number |-> v.number,
                     trigger |-> "expires", at |-> StartOfDay(v.until + 1)] :
                       v \in {x \in vs : x.until < LastDay}}
<1>1. \A v \in vs : /\ v.policy \in Policies /\ v.number \in Nat /\ v.from \in Days
                    /\ v.until < LastDay => v.until + 1 \in Days
  BY LastDayAssumption DEF Version, Days, Open
<1>2. \A k \in Starts \cup Ends : k \in EventKey /\ \E v \in vs : k.policy = v.policy
  <2>1. ASSUME NEW k \in Starts
        PROVE  k \in EventKey /\ \E v \in vs : k.policy = v.policy
    <3>1. PICK v \in vs : k = [policy |-> v.policy, number |-> v.number,
                       trigger |-> "becomes_effective", at |-> StartOfDay(v.from)]
      OBVIOUS
    <3> QED
      BY <3>1, <1>1 DEF EventKey
  <2>2. ASSUME NEW k \in Ends
        PROVE  k \in EventKey /\ \E v \in vs : k.policy = v.policy
    <3>1. PICK v \in vs : v.until < LastDay /\
                k = [policy |-> v.policy, number |-> v.number,
                     trigger |-> "expires", at |-> StartOfDay(v.until + 1)]
      OBVIOUS
    <3> QED
      BY <3>1, <1>1 DEF EventKey
  <2> QED
    BY <2>1, <2>2
<1>3. \A t : Boundaries(vs, t) = {k \in Starts \cup Ends : k.at > t}
  BY DEF Boundaries
<1>4. \A k \in Starts \cup Ends : k.at \in Int
  BY <1>2, DayInstants DEF EventKey
<1> HIDE DEF Starts, Ends
<1> QED
  BY <1>2, <1>3, <1>4

LEMMA DesiredAre ==
    ASSUME NEW vs \in SUBSET Version, NEW now \in Int, NEW st
    PROVE  /\ Desired(vs, st, now) \subseteq EventKey
           /\ \A k \in Desired(vs, st, now) : k.at > now /\ \E v \in vs : k.policy = v.policy
           /\ \A t \in Int : now <= t => {k \in Desired(vs, st, now) : k.at > t} = Desired(vs, st, t)
BY BoundariesAre DEF Desired

\* What a session takes to be open although it has ended moves no boundary to another
\* instant: its end is missing, and the version that follows it starts then.
LEMMA ObjectsBoundaries ==
    ASSUME NEW vs \in SUBSET Version, NEW w \in Work, Sound(vs, w),
           Numbered(VersionsOf(vs, w.policy)),
           \A n \in w.open : OpenOrFollowed(vs, w.policy, n), NEW now \in Int
    PROVE  /\ Objects(vs, w) \subseteq Version /\ \A v \in Objects(vs, w) : v.policy = w.policy
           /\ Boundaries(Objects(vs, w), now) \subseteq Boundaries(Flushed(vs, w), now)
           /\ \A k \in Boundaries(Flushed(vs, w), now) :
                 \E j \in Boundaries(Objects(vs, w), now) : j.at = k.at
<1> DEFINE F == Flushed(vs, w)
           O == Objects(vs, w)
           Forgotten(v) == v.number \in w.open /\ v \notin w.add
           Object(v) == IF Forgotten(v) THEN [v EXCEPT !.until = Open] ELSE v
           Start(v) == [policy |-> v.policy, number |-> v.number,
                        trigger |-> "becomes_effective", at |-> StartOfDay(v.from)]
           End(v) == [policy |-> v.policy, number |-> v.number,
                      trigger |-> "expires", at |-> StartOfDay(v.until + 1)]
<1>1. \A v \in F : v \in Version /\ v.policy = w.policy
  BY DEF Flushed, Sound, VersionsOf, Work
<1>2. O = {Object(v) : v \in F}
  BY DEF Objects
<1>3. \A v \in F : /\ Object(v) \in Version /\ Object(v).policy = v.policy
                   /\ Object(v).number = v.number /\ Object(v).from = v.from
                   /\ Object(v).until = IF Forgotten(v) THEN Open ELSE v.until
  BY <1>1 DEF Version
<1>4. \A rs, k : k \in Boundaries(rs, now) <=>
         k.at > now /\ (\/ \E v \in rs : k = Start(v)
                       \/ \E v \in rs : v.until < LastDay /\ k = End(v))
  BY DEF Boundaries
<1>5. \A v : Start(v).at = StartOfDay(v.from) /\ End(v).at = StartOfDay(v.until + 1)
  OBVIOUS
<1>6. \A v \in F : Start(Object(v)) = Start(v) /\ (~ Forgotten(v) => Object(v) = v)
  BY <1>3
<1>7. ASSUME NEW v \in F, Forgotten(v), v.until < LastDay
      PROVE  \E x \in F : x.from = v.until + 1
  <2>1. PICK u \in VersionsOf(vs, w.policy) :
          /\ u.number = v.number
          /\ u.until = Open \/ \E x \in VersionsOf(vs, w.policy) : x.from = u.until + 1
    BY <1>7 DEF OpenOrFollowed
  <2>2. v \in VersionsOf(vs, w.policy)
    BY <1>7 DEF Flushed
  <2>3. u = v
    BY <2>1, <2>2 DEF Numbered
  <2>4. v.until # Open
    BY <1>7, LastDayAssumption DEF Open
  <2>5. PICK x \in VersionsOf(vs, w.policy) : x.from = v.until + 1
    BY <2>1, <2>3, <2>4
  <2>6. x \in w.gone => \E y \in w.add : y.from = x.from
    BY DEF Sound, SameOrClosed
  <2> QED
    BY <2>5, <2>6 DEF Flushed
<1> HIDE DEF F, O, Forgotten, Object, Start, End
<1>8. O \subseteq Version /\ \A v \in O : v.policy = w.policy
  BY <1>1, <1>2, <1>3
<1>9. ASSUME NEW k \in Boundaries(O, now)
      PROVE  k \in Boundaries(F, now)
  <2>1. CASE \E o \in O : k = Start(o)
    BY <2>1, <1>2, <1>4, <1>6
  <2>2. ASSUME NEW o \in O, o.until < LastDay, k = End(o)
        PROVE  k \in Boundaries(F, now)
    <3>1. PICK v \in F : o = Object(v)
      BY <1>2
    <3>2. ~ Forgotten(v)
      BY <2>2, <3>1, <1>3, LastDayAssumption DEF Open
    <3> QED
      BY <2>2, <3>1, <3>2, <1>4, <1>6
  <2> QED
    BY <1>4, <2>1, <2>2
<1>10. ASSUME NEW k \in Boundaries(F, now)
       PROVE  \E j \in Boundaries(O, now) : j.at = k.at
  <2>0. k.at > now
    BY <1>4
  <2>1. CASE \E v \in F : k = Start(v)
    BY <2>0, <2>1, <1>2, <1>4, <1>6
  <2>2. ASSUME NEW v \in F, v.until < LastDay, k = End(v)
        PROVE  \E j \in Boundaries(O, now) : j.at = k.at
    <3>1. CASE Forgotten(v)
      <4>1. PICK x \in F : x.from = v.until + 1
        BY <2>2, <3>1, <1>7
      <4>2. Start(Object(x)).at = k.at
        BY <2>2, <4>1, <1>5, <1>6
      <4>3. Object(x) \in O
        BY <1>2
      <4> QED
        BY <2>0, <4>2, <4>3, <1>4
    <3>2. CASE ~ Forgotten(v)
      BY <2>0, <2>2, <3>2, <1>2, <1>4, <1>6
    <3> QED
      BY <3>1, <3>2
  <2> QED
    BY <1>4, <2>1, <2>2
<1> QED
  BY <1>8, <1>9, <1>10 DEF F, O

\* The same of the events that a request wants.
LEMMA ObjectsDesired ==
    ASSUME IInv, NEW s \in Sessions, pc[s] = "written", NEW st, NEW now \in Int
    PROVE  LET O == Objects(versions, txn[s])
               F == Flushed(versions, txn[s])
           IN  /\ O \subseteq Version /\ \A v \in O : v.policy = txn[s].policy
               /\ F \subseteq Version
               /\ Desired(O, st, now) \subseteq Desired(F, st, now)
               /\ \A k \in Desired(F, st, now) : \E j \in Desired(O, st, now) : j.at = k.at
<1>1. /\ versions \in SUBSET Version /\ txn[s] \in Work /\ Sound(versions, txn[s])
      /\ Numbered(VersionsOf(versions, txn[s].policy))
      /\ \A n \in txn[s].open : OpenOrFollowed(versions, txn[s].policy, n)
  BY DEF IInv, PVTypeOK, AllSound, AllNumbered, LoadedInv, Work
<1>2. Flushed(versions, txn[s]) \subseteq Version
  BY <1>1 DEF Flushed, VersionsOf, Work
<1> QED
  BY <1>1, <1>2, ObjectsBoundaries DEF Desired

\* The rows of a policy a reconciliation finds: one at most, so a number of it is a number.
LEMMA MaterialisedTyped ==
    ASSUME NEW vs \in SUBSET Version, Disjoint(vs), NEW st, NEW now \in Int
    PROVE  Materialised(st, vs, now) \in [Policies -> Nat]
<1> SUFFICES ASSUME NEW p \in Policies
             PROVE  EffectiveNumber(st, vs, p, DayOf(now)) \in Nat
  BY DEF Materialised
<1> DEFINE d == DayOf(now)
           found == {v.number : v \in EffectiveRows(st, vs, p, d)}
<1>1. CASE found = {}
  BY <1>1 DEF EffectiveNumber
<1>2. CASE found # {}
  <2>1. PICK v \in EffectiveRows(st, vs, p, d) : v.number \in found
    BY <1>2
  <2>2. v \in vs /\ v.policy = p /\ v.from <= d /\ d <= v.until /\ v.number \in Nat
    BY <2>1 DEF EffectiveRows, VersionsOf, Version
  <2>3. d \in Int
    BY TicksAssumption DEF DayOf
  <2>4. \A w \in EffectiveRows(st, vs, p, d) : w = v
    BY <2>2, <2>3, LastDayAssumption DEF EffectiveRows, VersionsOf, Disjoint, RangesMeet, Version, Days, Open
  <2>5. found = {v.number}
    BY <2>1, <2>4
  <2>6. Max(found) = v.number
    BY <2>5, <2>2 DEF Max
  <2> QED
    BY <2>6, <2>2, <1>2 DEF EffectiveNumber
<1> QED
  BY <1>1, <1>2

LEMMA StillPrepared ==
    ASSUME NEW s \in Sessions, Prepared(s), UNCHANGED <<versions, clock, events>>,
           txn'[s] = txn[s], changes'[s] = changes[s]
    PROVE  Prepared(s)'
BY DEF Prepared, Pending

\* A step that commits nothing.
LEMMA NothingCommitted ==
    ASSUME EInv, IInv', UNCHANGED <<status, versions, clock, events, shown, slipped, outdated>>,
           changes' \in [Sessions -> [cancel : SUBSET EventKey, add : SUBSET EventKey]],
           \A s \in Sessions : changes'[s].cancel \subseteq DOMAIN events,
           \A s \in Sessions : pc'[s] = "written" => Prepared(s)'
    PROVE  EInv'
<1>1. PSTypeOK'
  BY DEF EInv, PSInv, PSTypeOK, IInv
<1>2. SchedulesMatch'
  BY DEF EInv, PSInv, SchedulesMatch, Ahead, BoundariesAhead, Pending
<1> QED
  BY <1>1, <1>2 DEF EInv, PSInv

\* sync_policy_version_schedules prepares what its docstring says.
LEMMA SyncPrepares ==
    ASSUME EInv, IInv', NEW s \in Sessions, Sync(s, txn'[s]),
           UNCHANGED <<versions, clock, events>>
    PROVE  /\ Prepared(s)'
           /\ changes' \in [Sessions -> [cancel : SUBSET EventKey, add : SUBSET EventKey]]
           /\ \A t \in Sessions : changes'[t].cancel \subseteq DOMAIN events
           /\ \A t \in Sessions \ {s} : changes'[t] = changes[t]
<1> DEFINE w == txn'[s]
           add == Desired(Objects(versions, w), SyncedStatus(w), clock)
           cancel == {k \in Pending : k.policy = w.policy /\ k \notin add}
<1>1. w \in Work /\ versions \subseteq Version /\ clock \in Nat /\ DOMAIN events \subseteq EventKey
  BY DEF EInv, PSInv, PSTypeOK, IInv, PVTypeOK
<1>2. Objects(versions, w) \subseteq Version
  <2>1. Flushed(versions, w) \subseteq Version
    BY <1>1 DEF Flushed, VersionsOf, Work
  <2> QED
    BY <2>1, LastDayAssumption DEF Objects, Version
<1>3. add \subseteq EventKey /\ cancel \subseteq EventKey /\ cancel \subseteq DOMAIN events
  BY <1>1, <1>2, DesiredAre DEF Pending
<1>4. changes' = [changes EXCEPT ![s] = [cancel |-> cancel, add |-> add]]
  BY DEF Sync, SyncedStatus
<1>5. changes'[s] = [cancel |-> cancel, add |-> add]
  BY <1>4 DEF EInv
<1>6. Prepared(s)'
  <2>1. Pending' = Pending /\ clock' = clock /\ versions' = versions
    BY DEF Pending
  <2>2. clock \in 0 .. clock
    BY <1>1
  <2>3. changes'[s].add = Desired(Objects(versions', txn'[s]), SyncedStatus(txn'[s]), clock)
    BY <2>1, <1>5
  <2>4. changes'[s].cancel =
          {k \in Pending' : k.policy = txn'[s].policy /\ k \notin changes'[s].add}
    BY <2>1, <1>5
  <2> QED
    BY <2>1, <2>2, <2>3, <2>4 DEF Prepared
<1>7. \A t \in Sessions \ {s} : changes'[t] = changes[t]
  BY <1>4 DEF EInv
<1>8. \A t \in Sessions : changes'[t].cancel \subseteq DOMAIN events
  BY <1>3, <1>5, <1>7 DEF EInv, PSInv, PSTypeOK
<1>9. changes' \in [Sessions -> [cancel : SUBSET EventKey, add : SUBSET EventKey]]
  BY <1>3, <1>4 DEF EInv
<1> QED
  BY <1>6, <1>7, <1>8, <1>9

LEMMA RequestKeepsEInv ==
    ASSUME EInv, IInv', NEW s \in Sessions,
           Requests(s) \/ WriteVersionAndSync(s) \/ WriteStatusAndSync(s) \/ RollbackRequest(s)
    PROVE  EInv'
<1>0. /\ pc \in [Sessions -> {"idle", "loaded", "locked", "written"}]
      /\ txn \in [Sessions -> Work]
      /\ changes \in [Sessions -> [cancel : SUBSET EventKey, add : SUBSET EventKey]]
      /\ \A t \in Sessions : changes[t].cancel \subseteq DOMAIN events
  BY DEF EInv, PSInv, PSTypeOK, PVTypeOK
<1>1. CASE Requests(s)
  <2>1. /\ UNCHANGED <<status, versions, clock, events, changes, shown, slipped, outdated>>
        /\ \A t \in Sessions : pc'[t] = "written" => pc[t] = "written" /\ txn'[t] = txn[t]
    BY <1>0, <1>1 DEF Requests, BeginCreate, BeginVersion, BeginPatch, AcquireLock,
                      RejectOverlap, EndTxn
  <2>2. \A t \in Sessions : pc'[t] = "written" => Prepared(t)'
    BY <2>1, StillPrepared DEF EInv
  <2> QED
    BY <1>0, <2>1, <2>2, NothingCommitted
<1>2. CASE RollbackRequest(s)
  <2>1. /\ UNCHANGED <<status, versions, clock, events, shown, slipped, outdated>>
        /\ \A t \in Sessions : pc'[t] = "written" =>
              pc[t] = "written" /\ txn'[t] = txn[t] /\ changes'[t] = changes[t]
        /\ changes' = [changes EXCEPT ![s] = NoChanges]
    BY <1>0, <1>2 DEF RollbackRequest, Rollback, EndTxn
  <2>2. \A t \in Sessions : pc'[t] = "written" => Prepared(t)'
    BY <2>1, StillPrepared DEF EInv
  <2>3. /\ changes' \in [Sessions -> [cancel : SUBSET EventKey, add : SUBSET EventKey]]
        /\ \A t \in Sessions : changes'[t].cancel \subseteq DOMAIN events
    BY <1>0, <2>1 DEF NoChanges
  <2> QED
    BY <2>1, <2>2, <2>3, NothingCommitted
<1>3. CASE WriteVersionAndSync(s) \/ WriteStatusAndSync(s)
  <2>1. /\ UNCHANGED <<status, versions, clock, events, shown, slipped, outdated>>
        /\ Sync(s, txn'[s])
        /\ \A t \in Sessions \ {s} : pc'[t] = pc[t] /\ txn'[t] = txn[t]
    BY <1>0, <1>3 DEF WriteVersionAndSync, WriteStatusAndSync, WriteVersion, WriteStatus
  <2>2. /\ Prepared(s)'
        /\ changes' \in [Sessions -> [cancel : SUBSET EventKey, add : SUBSET EventKey]]
        /\ \A t \in Sessions : changes'[t].cancel \subseteq DOMAIN events
        /\ \A t \in Sessions \ {s} : changes'[t] = changes[t]
    BY <2>1, SyncPrepares
  <2>3. \A t \in Sessions : pc'[t] = "written" => Prepared(t)'
    BY <2>1, <2>2, StillPrepared DEF EInv
  <2> QED
    BY <2>1, <2>2, <2>3, NothingCommitted
<1> QED
  BY <1>1, <1>2, <1>3

LEMMA RefreshAndCommitKeepsEInv ==
    ASSUME EInv, IInv', NEW s \in Sessions, RefreshAndCommit(s)
    PROVE  EInv'
<1> DEFINE w == txn[s]
           p == txn[s].policy
           c == changes[s]
<1>1. /\ w \in Work /\ p \in Policies /\ versions \subseteq Version /\ clock \in Nat
      /\ pc[s] = "written" /\ lock[p] = s /\ Sound(versions, w) /\ Prepared(s)
      /\ pc \in [Sessions -> {"idle", "loaded", "locked", "written"}]
      /\ txn \in [Sessions -> Work]
      /\ status \in [Policies -> Statuses \cup {"absent"}]
  BY DEF EInv, PSInv, PSTypeOK, IInv, PVTypeOK, AllSound, LockInv, Work, RefreshAndCommit, Commit
<1>2. /\ c.add \subseteq EventKey /\ c.cancel \subseteq DOMAIN events
      /\ changes \in [Sessions -> [cancel : SUBSET EventKey, add : SUBSET EventKey]]
      /\ DOMAIN events \subseteq EventKey
      /\ \A k \in DOMAIN events : events[k] \in {"pending", "processed", "cancelled"}
  BY DEF EInv, PSInv, PSTypeOK
<1> DEFINE O == Objects(versions, w)
           F == Flushed(versions, w)
           st == SyncedStatus(w)
<1>3. /\ O \subseteq Version /\ \A v \in O : v.policy = p
      /\ Desired(O, st, clock) \subseteq Desired(F, st, clock)
      /\ \A k \in Desired(F, st, clock) : \E j \in Desired(O, st, clock) : j.at = k.at
  <2>1. clock \in Int
    BY <1>1
  <2> HIDE DEF st
  <2> QED
    BY <2>1, <1>1, ObjectsDesired DEF EInv
<1>4. PICK t \in 0 .. clock : c.add = Desired(O, st, t)
  BY <1>1 DEF Prepared
<1> HIDE DEF O, F, st
<1>5. t \in Int /\ t <= clock
  BY <1>1
<1>6. /\ \A k \in c.add : k.policy = p
      /\ {k \in c.add : k.at > clock} = Desired(O, st, clock)
  BY <1>1, <1>3, <1>4, <1>5, DesiredAre
<1>7. c.cancel = {k \in Pending : k.policy = p /\ k \notin c.add}
  BY <1>1 DEF Prepared
<1>8. /\ clock' = clock /\ events' = EventsAfter(c)
      /\ shown' = Materialised(status', versions', clock)
      /\ changes' = [changes EXCEPT ![s] = NoChanges]
      /\ slipped' = IF w.op = "version" /\ w.loaded # status[p]
                      THEN slipped \cup {p} ELSE slipped \ {p}
      /\ outdated' = IF O # F THEN outdated \cup {p} ELSE outdated \ {p}
      /\ versions' = (versions \ w.gone) \cup w.add
      /\ status' = IF w.op = "version" THEN status ELSE [status EXCEPT ![p] = w.to]
      /\ \A u \in Sessions \ {s} : pc'[u] = pc[u] /\ txn'[u] = txn[u]
      /\ pc'[s] = "idle"
  BY <1>1 DEF RefreshAndCommit, Commit, EndTxn, O, F
<1>9. /\ VersionsOf(versions', p) = F
      /\ \A q \in Policies : q # p => VersionsOf(versions', q) = VersionsOf(versions, q)
  BY <1>1, <1>8, CommittedRows DEF F
<1>10. /\ DOMAIN events' = DOMAIN events \cup c.add
       /\ \A k \in DOMAIN events' :
             events'[k] = IF k \in c.cancel THEN "cancelled"
                          ELSE IF k \notin DOMAIN events THEN "pending"
                          ELSE IF k \in c.add /\ events[k] = "cancelled" THEN "pending"
                          ELSE events[k]
  BY <1>8 DEF EventsAfter
<1>11. \A k : k.policy # p => (k \in Pending' <=> k \in Pending)
  BY <1>6, <1>7, <1>10 DEF Pending
<1>12. \A k : k.policy = p /\ k.at > clock => (k \in Pending' <=> k \in c.add)
  <2>1. \A k \in DOMAIN events : events[k] = "processed" /\ k.at > clock => FALSE
    <3>1. \A k \in DOMAIN events : k.at \in Int
      BY <1>2, DayInstants DEF EventKey
    <3> QED
      BY <3>1, <1>1 DEF EInv
  <2> QED
    BY <2>1, <1>2, <1>7, <1>10 DEF Pending
<1>13. SchedulesMatch'
  <2> SUFFICES ASSUME NEW q \in Policies \ slipped', status'[q] # "absent"
               PROVE  /\ Ahead(q)' \subseteq BoundariesAhead(q)'
                      /\ q \notin outdated' => BoundariesAhead(q)' \subseteq Ahead(q)'
                      /\ \A k \in BoundariesAhead(q)' : \E j \in Ahead(q)' : j.at = k.at
    BY DEF SchedulesMatch
  <2>1. CASE q = p
    <3>1. status'[q] = st
      BY <2>1, <1>1, <1>8 DEF SyncedStatus, st
    <3>2. Ahead(q)' = Desired(O, st, clock)
      <4>1. Ahead(q)' = {k \in c.add : k.at > clock}
        BY <2>1, <1>6, <1>8, <1>12 DEF Ahead
      <4> QED
        BY <4>1, <1>6
    <3>3. BoundariesAhead(q)' = Desired(F, st, clock)
      BY <2>1, <3>1, <1>8, <1>9 DEF BoundariesAhead
    <3>4. q \notin outdated' => O = F
      BY <2>1, <1>8
    <3> QED
      BY <3>2, <3>3, <3>4, <1>3
  <2>2. CASE q # p
    <3>1. q \in Policies \ slipped /\ status'[q] = status[q] /\ (q \notin outdated' => q \notin outdated)
      BY <2>2, <1>1, <1>8
    <3>2. Ahead(q)' = Ahead(q)
      BY <2>2, <1>8, <1>11 DEF Ahead
    <3>3. BoundariesAhead(q)' = BoundariesAhead(q)
      BY <2>2, <3>1, <1>8, <1>9 DEF BoundariesAhead
    <3> QED
      BY <2>2, <3>1, <3>2, <3>3 DEF EInv, PSInv, SchedulesMatch
  <2> QED
    BY <2>1, <2>2
<1>14. ASSUME NEW u \in Sessions, pc'[u] = "written"
       PROVE  Prepared(u)'
  <2>1. u # s /\ pc[u] = "written" /\ txn'[u] = txn[u] /\ changes'[u] = changes[u]
    BY <1>2, <1>8, <1>14
  <2>2. txn[u].policy \in Policies /\ txn[u].policy # p
    BY <2>1, <1>1 DEF EInv, IInv, LockInv, Work
  <2>3. Objects(versions', txn[u]) = Objects(versions, txn[u])
    BY <2>2, <1>9 DEF Objects, Flushed
  <2>4. {k \in Pending' : k.policy = txn[u].policy /\ k \notin changes[u].add}
          = {k \in Pending : k.policy = txn[u].policy /\ k \notin changes[u].add}
    BY <2>2, <1>11
  <2>5. Prepared(u)
    BY <2>1 DEF EInv
  <2> QED
    BY <2>1, <2>3, <2>4, <2>5, <1>8 DEF Prepared
<1>15. \A k \in DOMAIN events' : events'[k] = "processed" => k.at <= clock'
  BY <1>8, <1>10 DEF EInv
<1>16. /\ DOMAIN events' \subseteq EventKey
       /\ \A k \in DOMAIN events' : events'[k] \in {"pending", "processed", "cancelled"}
  BY <1>2, <1>10
<1>17. /\ changes' \in [Sessions -> [cancel : SUBSET EventKey, add : SUBSET EventKey]]
       /\ \A u \in Sessions : changes'[u].cancel \subseteq DOMAIN events'
  <2>1. \A u \in Sessions : changes[u].cancel \subseteq DOMAIN events
    BY DEF EInv, PSInv, PSTypeOK
  <2> QED
    BY <2>1, <1>2, <1>8, <1>10 DEF NoChanges
<1>18. \A u \in Sessions : changes'[u].add \subseteq EventKey
  BY <1>17
<1>19. shown' \in [Policies -> Nat]
  <2>1. versions' \in SUBSET Version /\ Disjoint(versions')
    BY DEF IInv, PVTypeOK, NoOverlap
  <2>2. clock \in Int
    BY <1>1
  <2>3. Materialised(status', versions', clock) \in [Policies -> Nat]
    BY <2>1, <2>2, MaterialisedTyped
  <2> QED
    BY <2>3, <1>8
<1>20. PSTypeOK'
  BY <1>8, <1>16, <1>17, <1>18, <1>19 DEF PSTypeOK, EInv, PSInv, IInv
<1> QED
  BY <1>13, <1>14, <1>15, <1>17, <1>20 DEF EInv, PSInv

\* The worker's rows are due, and none of them is one a request has written.
LEMMA ProcessBatchKeepsEInv ==
    ASSUME EInv, IInv', ProcessBatch
    PROVE  EInv'
<1>1. PICK B \in Batches :
        /\ events' = [k \in DOMAIN events |-> IF k \in B THEN "processed" ELSE events[k]]
        /\ shown' = Materialised(status, versions, clock)
        /\ UNCHANGED <<status, versions, lock, pc, txn, clock, changes, slipped, outdated>>
  BY DEF ProcessBatch
<1>2. B \subseteq Pending /\ \A k \in B : k.at <= clock /\ k \notin Locked
  BY DEF Batches, Due
<1>3. Pending' = Pending \ B
  BY <1>1, <1>2 DEF Pending
<1>4. \A k \in Pending : k.at \in Int
  BY DayInstants DEF EInv, PSInv, PSTypeOK, Pending, EventKey
<1>5. clock \in Nat
  BY DEF EInv, PSInv, PSTypeOK
<1>6. \A q : Ahead(q)' = Ahead(q) /\ BoundariesAhead(q)' = BoundariesAhead(q)
  BY <1>1, <1>2, <1>3, <1>4, <1>5 DEF Ahead, BoundariesAhead
<1>7. SchedulesMatch'
  BY <1>1, <1>6 DEF EInv, PSInv, SchedulesMatch
<1>8. ASSUME NEW s \in Sessions, pc'[s] = "written"
      PROVE  Prepared(s)'
  <2>1. Prepared(s)
    BY <1>1, <1>8 DEF EInv
  <2>2. changes[s].cancel \cap B = {}
    BY <1>2 DEF Locked
  <2>3. {k \in Pending' : k.policy = txn[s].policy /\ k \notin changes[s].add} = changes[s].cancel
    BY <2>1, <2>2, <1>3 DEF Prepared
  <2> QED
    BY <2>1, <2>3, <1>1 DEF Prepared
<1>9. shown' \in [Policies -> Nat]
  <2>1. versions \in SUBSET Version /\ Disjoint(versions)
    BY DEF EInv, IInv, PVTypeOK, NoOverlap
  <2> QED
    BY <2>1, <1>1, <1>5, MaterialisedTyped
<1>10. PSTypeOK'
  BY <1>1, <1>9 DEF EInv, PSInv, PSTypeOK, IInv
<1>11. \A k \in DOMAIN events' : events'[k] = "processed" => k.at <= clock'
  BY <1>1, <1>2 DEF EInv
<1> QED
  BY <1>1, <1>7, <1>8, <1>10, <1>11 DEF EInv, PSInv

LEMMA PassTimeKeepsEInv ==
    ASSUME EInv, IInv', PassTime
    PROVE  EInv'
<1>1. /\ clock \in 0 .. MaxClock /\ MaxClock \in Int /\ clock' = clock + 1 /\ clock' \in 0 .. MaxClock
      /\ UNCHANGED <<status, versions, lock, pc, txn, events, changes, shown, slipped, outdated>>
      /\ versions \in SUBSET Version
  BY ClockAssumption, TicksAssumption, LastDayAssumption DEF PassTime, EInv, PSInv, PSTypeOK, PVTypeOK
<1>2. Pending' = Pending
  BY <1>1 DEF Pending
<1>3. \A k \in DOMAIN events : k.at \in Int
  BY DayInstants DEF EInv, PSInv, PSTypeOK, EventKey
<1>4. SchedulesMatch'
  <2> SUFFICES ASSUME NEW p \in Policies \ slipped, status[p] # "absent"
               PROVE  /\ Ahead(p)' \subseteq BoundariesAhead(p)'
                      /\ p \notin outdated => BoundariesAhead(p)' \subseteq Ahead(p)'
                      /\ \A k \in BoundariesAhead(p)' : \E j \in Ahead(p)' : j.at = k.at
    BY <1>1 DEF SchedulesMatch
  <2>1. /\ Ahead(p) \subseteq BoundariesAhead(p)
        /\ p \notin outdated => BoundariesAhead(p) \subseteq Ahead(p)
        /\ \A k \in BoundariesAhead(p) : \E j \in Ahead(p) : j.at = k.at
    BY DEF EInv, PSInv, SchedulesMatch
  <2>2. Ahead(p)' = {k \in Ahead(p) : k.at > clock + 1}
    BY <1>1, <1>2, <1>3 DEF Ahead, Pending
  <2>3. VersionsOf(versions, p) \in SUBSET Version
    BY <1>1 DEF VersionsOf
  <2>4. BoundariesAhead(p)' = {k \in BoundariesAhead(p) : k.at > clock + 1}
    <3>1. clock \in Int /\ clock + 1 \in Int /\ clock <= clock + 1
      BY <1>1
    <3> QED
      BY <2>3, <3>1, <1>1, DesiredAre DEF BoundariesAhead
  <2> QED
    BY <2>1, <2>2, <2>4
<1>5. \A s \in Sessions : pc'[s] = "written" => Prepared(s)'
  BY <1>1, <1>2 DEF EInv, Prepared
<1>6. \A k \in DOMAIN events' : events'[k] = "processed" => k.at <= clock'
  BY <1>1, <1>3 DEF EInv
<1>7. PSTypeOK'
  BY <1>1 DEF EInv, PSInv, PSTypeOK, IInv
<1> QED
  BY <1>1, <1>4, <1>5, <1>6, <1>7 DEF EInv, PSInv

LEMMA InitEInv == PSInit => EInv
<1> SUFFICES ASSUME PSInit PROVE EInv
  OBVIOUS
<1>1. IInv
  BY InitIInv DEF PSInit
<1>2. PSTypeOK
  BY <1>1, ClockAssumption, TicksAssumption, LastDayAssumption DEF PSInit, PSTypeOK, IInv, NoChanges
<1>3. SchedulesMatch
  BY DEF PSInit, PVInit, SchedulesMatch
<1> QED
  BY <1>1, <1>2, <1>3 DEF PSInit, PVInit, EInv, PSInv, NoChanges

LEMMA NextEInv == EInv /\ [PSNext]_psVars => EInv'
<1> SUFFICES ASSUME EInv, [PSNext]_psVars PROVE EInv'
  OBVIOUS
<1>1. IInv'
  BY SchedulesAreRequests, NextIInv DEF EInv
<1>2. CASE UNCHANGED psVars
  <2>1. \A s \in Sessions : pc'[s] = "written" => Prepared(s)'
    BY <1>2, StillPrepared DEF psVars, EInv
  <2> QED
    BY <1>1, <1>2, <2>1, NothingCommitted DEF psVars, EInv, PSInv, PSTypeOK
<1> QED
  BY <1>1, <1>2, RequestKeepsEInv, RefreshAndCommitKeepsEInv, ProcessBatchKeepsEInv,
     PassTimeKeepsEInv DEF PSNext, RequestStep

\* Whatever requests, the worker and the clock do in whichever order, the events that lie
\* ahead are the boundaries of the versions, but for a policy whose last writer had loaded
\* a status that was stale; where that writer had loaded stale versions, the end of a
\* version may lack its event, and even then none is wrong and each instant at which the
\* versions turn has one (scheduled_reconciliations.py:118-161).
THEOREM EventsMatchVersions == PSSpec => []PSInv
<1>1. EInv => PSInv
  BY DEF EInv
<1> QED
  BY <1>1, InitEInv, NextEInv, PTL DEF PSSpec

-----------------------------------------------------------------------------
(* Staleness: what is in force changes at midnight only, and then there is *)
(* a boundary at that midnight, whose event is due.                        *)

LEMMA Midnight ==
    ASSUME NEW t \in 0 .. MaxClock, t + 1 \in 0 .. MaxClock
    PROVE  /\ DayOf(t) \in Days /\ DayOf(t + 1) \in Days
           /\ \/ DayOf(t + 1) = DayOf(t)
              \/ DayOf(t + 1) = DayOf(t) + 1 /\ StartOfDay(DayOf(t + 1)) = t + 1
<1> DEFINE q == t \div TicksPerDay
           r == t % TicksPerDay
           q2 == (t + 1) \div TicksPerDay
           r2 == (t + 1) % TicksPerDay
<1>1. /\ t \in Nat /\ TicksPerDay \in Nat /\ TicksPerDay > 0 /\ LastDay \in Nat
      /\ t + 1 < TicksPerDay * (LastDay + 1)
  BY TicksAssumption, ClockAssumption, LastDayAssumption
<1>2. q \in Nat /\ r \in 0 .. (TicksPerDay - 1) /\ t = TicksPerDay * q + r
  BY <1>1
<1>3. q2 \in Nat /\ r2 \in 0 .. (TicksPerDay - 1) /\ t + 1 = TicksPerDay * q2 + r2
  BY <1>1
<1> HIDE DEF q, r, q2, r2
<1>4. q2 < LastDay + 1 /\ q < LastDay + 1
  <2>1. ASSUME NEW x \in Nat, x >= LastDay + 1
        PROVE  TicksPerDay * x >= TicksPerDay * (LastDay + 1)
    BY <1>1, <2>1
  <2> QED
    BY <2>1, <1>1, <1>2, <1>3
<1>5. q2 = q \/ (q2 = q + 1 /\ TicksPerDay * q2 = t + 1)
  <2>1. CASE q2 < q
    <3>1. TicksPerDay * q >= TicksPerDay * (q2 + 1)
      BY <1>1, <1>2, <1>3, <2>1
    <3> QED
      BY <3>1, <1>1, <1>2, <1>3
  <2>2. CASE q2 > q + 1
    <3>1. TicksPerDay * q2 >= TicksPerDay * (q + 2)
      BY <1>1, <1>2, <1>3, <2>2
    <3> QED
      BY <3>1, <1>1, <1>2, <1>3
  <2>3. CASE q2 = q + 1
    <3>1. TicksPerDay * q2 = TicksPerDay * q + TicksPerDay
      BY <1>1, <1>2, <2>3
    <3> QED
      BY <2>3, <3>1, <1>1, <1>2, <1>3
  <2> QED
    BY <2>1, <2>2, <2>3, <1>2, <1>3
<1> QED
  BY <1>1, <1>2, <1>3, <1>4, <1>5 DEF q, q2, DayOf, StartOfDay, Days

LEMMA TurnHasBoundary ==
    ASSUME NEW vs \in SUBSET Version, NEW st, NEW p \in Policies, NEW d \in Days, d + 1 \in Days,
           EffectiveNumber(st, vs, p, d + 1) # EffectiveNumber(st, vs, p, d)
    PROVE  /\ st[p] = "active"
           /\ \A now \in Int : StartOfDay(d + 1) > now =>
                 \E k \in Boundaries(VersionsOf(vs, p), now) :
                    k.policy = p /\ k.at = StartOfDay(d + 1)
<1>1. EffectiveRows(st, vs, p, d + 1) # EffectiveRows(st, vs, p, d)
  BY DEF EffectiveNumber
<1>2. PICK v \in VersionsOf(vs, p) :
        /\ st[p] = "active"
        /\ ~ (v.from <= d + 1 /\ d + 1 <= v.until <=> v.from <= d /\ d <= v.until)
  BY <1>1 DEF EffectiveRows
<1>3. v \in Version /\ v.policy = p
  BY DEF VersionsOf
<1>4. v.from = d + 1 \/ (v.until = d /\ v.until < LastDay)
  BY <1>2, <1>3, LastDayAssumption DEF Version, Days, Open
<1>5. ASSUME NEW now \in Int, StartOfDay(d + 1) > now
      PROVE  \E k \in Boundaries(VersionsOf(vs, p), now) : k.policy = p /\ k.at = StartOfDay(d + 1)
  <2>1. CASE v.from = d + 1
    <3> DEFINE k == [policy |-> v.policy, number |-> v.number,
                     trigger |-> "becomes_effective", at |-> StartOfDay(v.from)]
    <3>1. k \in Boundaries(VersionsOf(vs, p), now)
      BY <2>1, <1>5 DEF Boundaries
    <3> QED
      BY <3>1, <2>1, <1>3
  <2>2. CASE v.until = d /\ v.until < LastDay
    <3> DEFINE k == [policy |-> v.policy, number |-> v.number,
                     trigger |-> "expires", at |-> StartOfDay(v.until + 1)]
    <3>1. k \in Boundaries(VersionsOf(vs, p), now)
      BY <2>2, <1>5 DEF Boundaries
    <3> QED
      BY <3>1, <2>2, <1>3
  <2> QED
    BY <2>1, <2>2, <1>4
<1> QED
  BY <1>2, <1>5

LEMMA InitFresh == PSInit => StaleOnlyWhileDue
<1> SUFFICES ASSUME PSInit, NEW p \in Policies PROVE ~ Stale(p)
  BY DEF StaleOnlyWhileDue
<1>1. EffectiveRows(status, versions, p, DayOf(clock)) = {}
  BY DEF PSInit, PVInit, EffectiveRows, VersionsOf
<1> QED
  BY <1>1 DEF Stale, EffectiveNumber, PSInit

LEMMA NextStaleOnlyWhileDue ==
    EInv /\ StaleOnlyWhileDue /\ [PSNext]_psVars => StaleOnlyWhileDue'
<1> SUFFICES ASSUME EInv, StaleOnlyWhileDue, [PSNext]_psVars,
                    NEW p \in Policies, p \notin slipped', Stale(p)'
             PROVE  \E k \in Due' : k.policy = p
  BY DEF StaleOnlyWhileDue
<1>1. CASE UNCHANGED <<status, versions, clock, events, shown, slipped, outdated>>
  <2>1. Stale(p) /\ p \notin slipped /\ Due' = Due
    BY <1>1 DEF Stale, Due, Pending
  <2> QED
    BY <2>1 DEF StaleOnlyWhileDue
<1>2. ASSUME NEW s \in Sessions, RefreshAndCommit(s)
      PROVE  FALSE
  <2>1. shown' = Materialised(status', versions', clock') /\ clock' = clock
    BY <1>2 DEF RefreshAndCommit
  <2> QED
    BY <2>1 DEF Stale, Materialised
<1>3. CASE ProcessBatch
  <2>1. shown' = Materialised(status', versions', clock') /\ clock' = clock
    BY <1>3 DEF ProcessBatch
  <2> QED
    BY <2>1 DEF Stale, Materialised
<1>4. CASE PassTime
  <2> DEFINE d == DayOf(clock)
  <2>1. /\ clock \in 0 .. MaxClock /\ MaxClock \in Int /\ clock' = clock + 1
        /\ clock + 1 \in 0 .. MaxClock
        /\ UNCHANGED <<status, versions, events, shown, slipped, outdated>>
        /\ versions \in SUBSET Version
    BY <1>4, ClockAssumption, TicksAssumption, LastDayAssumption
       DEF PassTime, EInv, PSInv, PSTypeOK, PVTypeOK
  <2>2. \A k \in Pending : k.at \in Int
    BY DayInstants DEF EInv, PSInv, PSTypeOK, Pending, EventKey
  <2>3. Due \subseteq Due' /\ \A k \in Pending : k.at = clock + 1 => k \in Due'
    BY <2>1, <2>2 DEF Due, Pending
  <2>4. CASE Stale(p)
    BY <2>1, <2>3, <2>4 DEF StaleOnlyWhileDue
  <2>5. CASE ~ Stale(p)
    <3>1. EffectiveNumber(status, versions, p, DayOf(clock + 1))
            # EffectiveNumber(status, versions, p, d)
      BY <2>1, <2>5 DEF Stale
    <3>2. /\ d \in Days /\ d + 1 \in Days /\ DayOf(clock + 1) = d + 1
          /\ StartOfDay(d + 1) = clock + 1
      BY <3>1, <2>1, Midnight
    <3>3. PICK k \in Boundaries(VersionsOf(versions, p), clock) :
            k.policy = p /\ k.at = clock + 1
      <4>1. clock \in Int /\ StartOfDay(d + 1) > clock
        BY <2>1, <3>2
      <4>2. EffectiveNumber(status, versions, p, d + 1) # EffectiveNumber(status, versions, p, d)
        BY <3>1, <3>2
      <4>3. \E k \in Boundaries(VersionsOf(versions, p), clock) :
               k.policy = p /\ k.at = StartOfDay(d + 1)
        <5> HIDE DEF d
        <5> QED
          BY <2>1, <3>2, <4>1, <4>2, TurnHasBoundary
      <4> QED
        BY <4>3, <3>2
    <3>4. status[p] = "active"
      <4> HIDE DEF d
      <4> QED
        BY <2>1, <3>1, <3>2, TurnHasBoundary
    <3>5. k \in BoundariesAhead(p)
      BY <3>3, <3>4 DEF BoundariesAhead, Desired
    <3>6. p \in Policies \ slipped /\ status[p] # "absent"
      BY <2>1, <3>4
    <3>7. PICK j \in Ahead(p) : j.at = clock + 1
      BY <3>3, <3>5, <3>6 DEF EInv, PSInv, SchedulesMatch
    <3> QED
      BY <3>7, <2>3 DEF Ahead
  <2> QED
    BY <2>4, <2>5
<1>5. ASSUME NEW s \in Sessions,
             Requests(s) \/ WriteVersionAndSync(s) \/ WriteStatusAndSync(s) \/ RollbackRequest(s)
      PROVE  UNCHANGED <<status, versions, clock, events, shown, slipped, outdated>>
  BY <1>5 DEF Requests, BeginCreate, BeginVersion, BeginPatch, AcquireLock, RejectOverlap,
              WriteVersionAndSync, WriteStatusAndSync, WriteVersion, WriteStatus,
              RollbackRequest, Rollback
<1>6. CASE UNCHANGED psVars
  BY <1>1, <1>6 DEF psVars
<1> QED
  BY <1>1, <1>2, <1>3, <1>4, <1>5, <1>6 DEF PSNext, RequestStep

\* An employee's assignments differ from what the policies say today only while an event
\* that will reconcile them is pending and due, for any number of overlapping requests,
\* any calendar and any batch limit, also after a writer with stale versions, but for the
\* policies whose last writer had loaded a stale status
\* (policy_authoring.py:84-95, scheduled_reconciliations.py:133-142, 192-260).
THEOREM StalenessIsDue == PSSpec => []StaleOnlyWhileDue
<1>1. PSSpec => []EInv
  BY InitEInv, NextEInv, PTL DEF PSSpec
<1> QED
  BY <1>1, InitFresh, NextStaleOnlyWhileDue, PTL DEF PSSpec

\* The requests of PolicySchedules are those of PolicyVersions, whose theorems hold of it.
THEOREM SchedulesImplementVersions == PSSpec => PVSpec
<1>1. PSInit => PVInit
  BY DEF PSInit
<1> QED
  BY <1>1, SchedulesAreRequests, PTL DEF PSSpec, PVSpec
=============================================================================
