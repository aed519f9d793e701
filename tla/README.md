# PolicyOS: a TLA+ development of the policy assignment system

PolicyOS keeps *policies* with dated *versions*, resolves for every employee which
assignments follow from the policies that match (by condition, by group, or by a manual
override), and materialises them as temporal rows so that "what did this employee have on
that day" has a stable answer. This directory holds TLA+ models of the parts in which that
can go wrong, the TLC configurations that check them, and theorems proved with TLAPS.

Paths below are relative to `src/backend/app` unless they start with `src/`. The entry
`map` of PROJECT.json gives for every definition the lines it translates.

- [1. The system](#1-the-system)
- [2. Modules and how they correspond to the code](#2-modules-and-how-they-correspond-to-the-code)
- [3. Runs](#3-runs)
- [4. Fairness](#4-fairness)
- [5. What is proved](#5-what-is-proved)
- [6. Where overlapping requests break what the documents say](#6-where-overlapping-requests-break-what-the-documents-say)
- [7. What is not modelled](#7-what-is-not-modelled)
- [8. Plan](#8-plan)

## 1. The system

A FastAPI application, PostgreSQL at READ COMMITTED, and a one-shot worker that an
external scheduler starts again and again. One request is one transaction
(`database.py:56-63`: commit when the handler returns, roll back when it raises). Row
locks are taken in five places only: `services/scheduled_reconciliations.py:188`,
`services/policy_versions.py:75`, `services/reconciliation.py:131` and twice in
`services/oauth.py`; everything else relies on what a statement saw when it started, on
unique keys and on the row locks that UPDATE and DELETE take by themselves.

### Inventory

| Component | State | Operations | Hard part | What makes it correct |
|---|---|---|---|---|
| Policies and versions: `routers/policies.py`, `services/policy_versions.py`, `policy_authoring.py` | `policies.status`, `policy_versions` rows | create a policy, add a version, change the status | the policy is loaded before its row lock is taken; an overlap is found after the prior version was closed | ranges of a policy never meet; numbers have no gap; committed versions only close |
| Scheduled reconciliations: `services/scheduled_reconciliations.py` | one event per version boundary, with a unique key and a status | each policy request rewrites the policy's pending events; the worker claims the due ones | two readings of the clock in one request; SKIP LOCKED; cancelled events come back, processed ones do not | events ahead are the boundaries of active versions; nothing is stale unless an event for it is due |
| Reconciliation worker: `workers/reconciliation.py` | an advisory lock | batches until nothing is left or time is up | a second worker, a kill, a failing batch, requests that write event rows it has read | one worker; each event once; a due event is processed |
| Assignment timeline: `services/reconciliation.py`, `employee_assignments.py`, `policy_matching.py:209-229` | `employee_assignments` rows with `[from, until)`, `employee_policies` links | reconcile an employee at an instant | statements of two transactions on one employee; several decisions at one instant | at most one row per assignment and instant; history is final; past answers stand |
| Resolution: `services/policy_matching.py`, `policy_engine.py`, `overrides.py`, `assignment_resolution.py` | none | match, rank, detect conflicts, apply overrides | equal priorities; overrides that take a whole field | the documented rule (`src/docs/system-design.md:86-96`) |
| Overrides: `services/employee_overrides.py` | overrides, retired or not | create, change (retire and replace), delete | cardinality is counted, not constrained by a key | one override of a one-valued field |
| Groups: `services/groups.py` | memberships, attached policies | bulk and single changes | whom to reconcile, and when rows are flushed | everyone concerned shows what is promised |
| Org chart: `services/employees.py`, `org_chart.py`, `condition_impacts.py` | `manager_id` | create, move, delete | the chain that is checked is not locked; whose org facts did this change? | the chart stays a forest; nobody stale is left out |
| Tenure events: `services/tenure_scheduling.py`, the tenure part of `condition_fields.py` | events per employee and anniversary | rewritten by employee requests and by policy requests | two algorithms must agree on the day; two kinds of request write one table | events ahead are the anniversaries on which a rule turns |
| Condition fields, policy compiler: `services/condition_fields.py`, `policy_condition_limits.py`, `policy_compiler.py` | none | resolve a field, compare, compile a tree to clauses | limits before and during compilation; nested groups and empty ones | the clauses mean what the tree means, for the employees as they are |
| Change previews: `routers/change_previews.py`, `services/*_change_previews.py` | a savepoint that is rolled back | make a change, compare before and after | whom and which fields the preview names, and what the caller may see of it | the mutation does what was announced |
| Assignment queries, impact summaries: `services/assignment_queries.py`, `impact_summaries.py` | none | today from rows, later days by calculation | three ways to compute one answer | they agree with each other and with the rows |
| Visibility: `services/employee_visibility.py`, `assignment_field_visibility.py`, `routers/employees.py` | the scopes of roles | filter every listing, refuse requests | the scope is a function of the chart that the request changes | who may be chosen is who is accepted; nobody leaves one's own sight |
| Human authentication: `services/human_auth.py` | users, sessions, throttles, resets | set up, sign in and out, password, second factor, reset | idle and absolute expiry against renewal; a mark on an expired session that is rolled back; throttle windows | refused stays refused; sessions end with their credentials; sign-ins are throttled |
| Access control: `services/access_control.py` | roles, users' roles | create and change roles and users, suspend, reset | guards that count who is left, each in another route | somebody can always manage the accounts |
| OAuth: `services/oauth.py` | codes, pairs of tokens | exchange, rotate, revoke | one code or token presented twice, at once or again; revocation during a rotation | one pair in force per grant, on the terms of the consent |
| API credentials, audit log, HTTP application, tables, demo data, frontend, MCP adapter | log rows, credentials | logging, routing, forwarding | - | - |

### Interaction

Every mutation of authored data runs, in its own transaction: change the rows; flush;
rewrite the scheduled events (policies, employees); reconcile the employees concerned;
commit. A conflict found by the reconciliation raises and takes the whole request back.
The worker does for a boundary of time what a request does for a change of data: claim
due events, reconcile the employees they concern, mark them processed, commit. Requests
and the worker meet in three tables: events, assignments and links. No process calls
another.

## 2. Modules and how they correspond to the code

```
PolicyVersions            policy requests, statement by statement
  PolicySchedules         + their events, the clock and the worker        (EXTENDS)
AssignmentRecord          what the history of one employee promises
  AssignmentTimeline      the rows, one reconciliation per step           (refines it)
    ConcurrentReconciliation   the statements, several transactions       (EXTENDS, refines)
OrgChart                  the reporting tree and whom a change concerns
  ConditionFields         + the fields that read it, and single conditions (EXTENDS)
    ConditionClauses      + lists of clauses, combined and matched      (EXTENDS)
      PolicyConditions    + condition trees and their compilation       (EXTENDS)
  EmployeeScopes          + callers who see a part of it        (EXTENDS, with Visibility)
AuthoredFacts             groups, overrides, conditions, resolution, fan-out
  ChangePreviews          + what a preview of each request announces      (EXTENDS)
    AssignmentReports     + queries, summaries and impact       (EXTENDS, with Visibility)
Visibility                the two scopes of a caller
ReconciliationWorker      the worker process, its lock, batches and failures
TenureEvents              anniversaries, their events, and who writes them
HumanAccounts             accounts, sign-in, browser sessions, administration
OAuthGrants               codes and rotating pairs of tokens, requests overlapping
*Proofs                   theorems about PolicyVersions (with PolicySchedules),
                          ConcurrentReconciliation (with AssignmentTimeline), OrgChart
                          (with ConditionFields, ConditionClauses,
                          PolicyConditions, EmployeeScopes),
                          AuthoredFacts (with ChangePreviews and AssignmentReports),
                          TenureEvents, ReconciliationWorker, HumanAccounts, OAuthGrants
MC*                       constants for TLC and symmetry sets
```

The convention in every module that has transactions: `pc[s]` is the statement session `s`
runs next and `txn[s]` what it has read and written without committing. Commit publishes,
Rollback forgets. Another session sees committed values only. Where a statement would wait
for a row lock, its action is disabled. Operators whose comment begins with "Faulty" are
plausible bugs of the operator below them; no specification uses them.

**PolicyVersions.** `status` and `versions` are the committed tables, `lock` the row lock
of each policy. `BeginCreate`, `BeginVersion`, `BeginPatch` are the three routes up to the
point where they wait; `AcquireLock` is `SELECT ... FOR UPDATE` or the UPDATE of the status;
`WriteVersion` closes the prior open version, checks overlap, computes the number and
inserts; `RejectOverlap` is the same with the overlap found. Values, conditions and
permissions are left out. NULL for `effective_until` is one day past the calendar (`Open`),
which orders as the code's `or date.max` does. An `Open` version and one that ends on
`date.max` stay different rows.

**PolicySchedules** adds `events` (committed status by unique key), `changes` (the event
writes of an open request) and `clock`, with several instants a day. `Sync` works from the
*objects* of the session, as the code does, not from the committed rows: `_policy_or_404` loads
the policy and its versions before the wait for the row lock, and the later SELECT of the
versions does not refresh objects that are there (`scheduled_reconciliations.py:127`). The field
`loaded` of a request is the status it loaded, `open` the versions that were open then, and
`Objects` the rows as the session sees them: what another request has closed since is open
still. Rows that no object was loaded of, and the session's own, are as flushed. The queries of
`_policy_or_404` are one step. The event rows are selected
and flushed in one step, and reconciliation and commit are one step
(`RefreshAndCommit`), at which the clock is read a second time; it filters dates in SQL and so
sees committed ranges. `shown` is the version of
each policy an employee shows whom every policy matches. Two histories mark the policies whose
events were last rewritten from stale objects: `slipped` for a stale status, `outdated` for
stale versions. The properties say nothing of the first and, of the second, how little may be
missing (section 6).

**AssignmentRecord / AssignmentTimeline / ConcurrentReconciliation.** The record maps each
instant to a set of assignments; a decision rewrites the present and the future.
`Reconcile(w, at, D)` is `refresh_employee_assignments`: keep, end or delete, insert. A row
that started at that instant is deleted because `until > from` is a check of the table.
ConcurrentReconciliation splits `reconcile_employees` into the statements at which READ
COMMITTED matters: flush and clock, resolve, find links, delete and insert them, check the
order, find open rows, lock and write, commit. `FindLinks`/`ReplaceLinks` and
`FindOpenRows`/`LockAndWrite` are two halves of one statement: PostgreSQL finds rows in the
statement's snapshot, waits for those that are locked, and looks again only at those.
A link is its policy: one that another transaction has deleted and inserted again counts as
the one found, where the code would miss it; that allows more commits than there are, never fewer.
The worker appears as a transaction that changes no fact. `Resolve` is any operator that
gives a one-valued field one value: `ResolutionGivesOneValue` shows that AuthoredFacts is one.

**OrgChart.** `org` is `manager_id`; `shown[e]` holds the org facts (manager, number of
reports, chain) with which `e` was last reconciled. `ManagerAllowed` is the check,
`Impacted` the union of the impact resolvers, `Applied` what a request does to the chart,
the foreign key's SET NULL included. `Flush` is where row locks and foreign keys bite.
Changes of an employee's other columns concern only that employee and are an action of
AuthoredFacts.

**ConditionFields.** `Resolve` and `Compare` are the catalogue of org fields and their
operators, on the facts an employee was last reconciled with; `Evaluate` is the evaluation of
one condition, and `Means` what a condition says of the chart.

**ConditionClauses and PolicyConditions.** A tree is compiled to a list of clauses: `Product`
is the nested loop for "and", `Limited` the limit on its result, `MatchesClauses` the matching
by the stored clauses. `WithinLimits` is `policy_condition_limits.py`, `Compile` is
`policy_compiler.py` with the limit where the code applies it, and `Holds` says when a tree is
true, by a reading of its own that compiles nothing. A group is a nested record, as the request
body has it, and any group may be submitted as a tree. The constant `Levels` lists the groups so
that children come before their parents (`LevelsAssumption`), which is to say that a body has no
cycle; a level may be any set, and accepted trees are at most `MaxDepth` deep. Where the code
recurses into the children of a group (`ClauseCount`, `Compile`, `HasOperands`, the structural
counts) the module has a recursive function on the groups; loops over operands (`AllClauses`,
`ProductOfClauses`) are recursive functions of the position.

**EmployeeScopes and Visibility.** `EmployeeVisibility` and `FieldVisibility` are the two
scopes of a caller as functions of the roles and of the chart below the linked employee.
EmployeeScopes asks, of every step of OrgChart, for which callers the route would have
let it through (`routers/employees.py`), and compares that with the candidates it lists and
with what the caller sees afterwards.

**AuthoredFacts.** One record `facts` holds memberships, attachments, active policies,
satisfied conditions and overrides. `Matches`, `Conflicts`, `Winners` and `Resolution`
translate matching, the engine and the overrides; a request, one of `MembershipRequest`,
`GroupPolicyRequest`, `OverrideRequest` and changes of a condition or of a policy, is
`Begin -> Flush -> Reconcile -> Commit`. Each policy has one version; time enters as
`PassBoundary` (a dated version becomes effective, later expires) and `ClaimEvents` (the
worker takes what is due). `Promised` says the documented rule without using any operator
of `Resolution`. The operators take the boundaries passed as of the date evaluated, since
previews and reports evaluate later dates.

**ChangePreviews.** A preview is a request that never commits, so what it would announce is
a function of a request that has reconciled: `before`, `after`, the employees included and
affected, the fields changed. The property compares it with the step that commits, for
every caller.

**AssignmentReports.** The query for some employees, the population summary and the
impact of a policy, about today (from open rows) and about each later date (calculated),
as operators on the same state. Answers about the past are `AsOf` of AssignmentTimeline.

**ReconciliationWorker.** Workers with their local variables in `run` and the events they
have claimed in `claimed`, the advisory lock,
event rows with the requests that read them without a lock (`Read`), write them later
(`Write`, which fails on a row processed meanwhile because of the check on `processed_at`)
and end (`Release`). `Crash` frees what the process held, as PostgreSQL does.

**TenureEvents.** Days, start dates and an `Anniversary` table in place of the calendar,
which `CalendarAssumption` only requires to be increasing in the years. `TransitionYears` is
`tenure_transition_dates`, `Satisfied` is `_compare_tenure`. `SyncEmployee` and `SyncAll`
write events as of the clock read earlier in the request. `ProcessDue` is the worker with
one batch for all that is due; it raises on an event of an employee who does not exist.
Boundaries of versions are events of PolicySchedules and appear as `missed`. Policy
requests on one policy exclude each other here: PolicyVersions models how they wait. A
version has one condition, and a new one may start before, between or after those there are
(`Closed`, `Meets`). `late` marks an employee whose request decided on an earlier
day than the worker refresh it then overwrote: a request that straddles midnight may
commit yesterday's answer after the worker has refreshed, and nothing remains due.

**HumanAccounts.** One request is one step: it authenticates its session as
`authenticate_session` does, runs its handler and commits; a refused one changes nothing,
because the transaction is rolled back with the mark it may have put on an expired session.
The exception is a failed sign-in, which commits its count. `sessions` are the browser
sessions in use, `throttle` and `resets` one row each per account; `misses` and the field
`acted` of a session are history, and `Bounded` keeps a run's sign-ins and resets few; nothing
of the code depends on it. Permissions are reduced to managing the accounts or not.
Requests are serial (section 6). Recovery codes and administration with an OAuth token are left out.

**OAuthGrants.** A token request asks for the lock of the row it presents (`BeginToken`), is
answered from the row as committed when the lock is granted (`Answer`: an exchange, a rotation,
a refusal), and then commits or is lost. A revocation reads without a lock and waits only to
write. Meanwhile time passes and codes and refresh tokens expire. Neither an exchange nor a
rotation looks at the account, so there is none; how an access token is checked, which writes
nothing, is left out. Rows that refuse for another reason (client, address, verifier) behave
like rows that are too late.

## 3. Runs

Bounds are constants of the cfg. Deadlock is checked in every run but `accounts`, where
everything really stops: at the last instant of the bounded clock every session may have
expired and the throttle may block. Several runs check one invariant that conjoins the
type invariant of the module with its main state property: `PSInv` (events match versions),
`CRInv` (between transactions rows and links follow from the committed facts), `RWInv` (one
worker past the lock, batches within the limit), `TEInv` (tenure events match the rules),
`AFInv` (no conflict stands but while an event is due), `HAInv` (somebody active can manage
the accounts). The mutant of each breaks the second part.

| Run | Shows | Bounds, and why they are enough |
|---|---|---|
| `policy_schedules` | ranges never overlap, numbers are 1..n, committed versions only close, an insertion changes no earlier date (`NoOverlap`, `NumbersAreConsecutive`, `VersionsOnlyClose`, `EarlierDatesKeepTheirVersion`); events match versions (`PSInv`), staleness is covered by a due event (`StaleOnlyWhileDue`) and repaired (`StaleIsRefreshed`) | one policy (policies share nothing but the worker), two overlapping requests, two versions: one before or after the other, adjacent or not, open, closed or up to `date.max` (`MCRanges`); five instants of three days, so a midnight may fall between the two readings of the clock, and events of two midnights may wait together; batches of one, so that these need several and the earliest goes first. All but `StaleIsRefreshed` are theorems for any bounds |
| `reconcile_serial` | the statements implement the single step (`ImplementsTimeline`), the step implements the record (`ImplementsRecord`); no overlap, history final, nothing stale after a commit (`CRInv`) | four instants, several decisions at one of them; two policies that compete for a one-valued field, one of which also gives a value to a many-valued field |
| `reconcile_concurrent` | what the locks do guarantee when two reconciliations of one employee overlap: rows about to be ended are open (`WritesOnlyOpenRows`), and past answers stand (`PastAnswersStand`) | two transactions, two instants; theorems for any number of either |
| `overlap_race` | **violated**: one assignment at a time, see section 6 | as above, three instants |
| `org_serial` | the chart stays a forest (`Acyclic`); a policy's compiled clauses match exactly those for whom its tree is true (`MatchesFollowTheTree`), which needs compilation, limits, resolvers and impact all to be right; candidates are the managers accepted, and callers keep their part of the chart in sight (`ScopesHold`) | four employees: old manager, new manager, moved employee and a report; trees of each single condition, of nested groups up to six clauses, beyond the limits and with an empty group; the limits are small enough to be met |
| `org_cycle` | **violated**: the chart has no cycle | two overlapping moves, three employees |
| `worker` | one worker (`RWInv`), each event once (`ProcessedOnce`), "drained" means drained (`DrainedLeavesNothing`), a due event is processed (`DueIsProcessed`) | two workers, three events, batches of two (a full batch, then a short one), one event that cannot be processed, one crash, a run time that one tick exhausts |
| `facts_fan_out` | everyone concerned shows the promise (`EveryoneShowsThePromise`); no conflict stands (`AFInv`); every change does what its preview announces (`ChangesAreAnnounced`); the reports agree with the rows and with each other (`ReportsAgree`) | two employees and a group, so that members and others differ; two equal policies that disagree, one of which has a first and a last day; one override |
| `facts_resolution` | the engine and overrides implement the documented rule; overrides are counted (`OverridesCounted`); one value in a one-valued field (`OneValueShown`) | one employee, three policies of two priorities, a one-valued and a many-valued field, two overrides |
| `tenure_events` | events ahead are the anniversaries on which a rule turns (`TEInv`); matches go stale only while an event is due (`StaleOnlyWhileTenureDue`) | six days with years of two days and a leap day, every comparison operator, a second version that cuts the first one short; one employee and one policy: events have a key per employee, and rules of several policies are united |
| `accounts` | a refused session stays refused (`RefusedStaysRefused`), idle time counts from the last request served (`IdleCountsFromLastRequest`), no session outlives its credentials (`SessionsFollowCredentials`), wrong sign-ins are throttled (`SignInsAreThrottled`), somebody manages (`HAInv`) | root and a second account, one role, two sessions, five instants; every duration can be met and missed by one. A session that is not used is idle for too long an instant before it expires, so idle expiry acts alone, and with `Coarse` of two `last_seen_at` may lag when it does. Two failures within the window block; a counter of more is the theorem's (`Throttling`) |
| `oauth` | one pair in force per grant (`OneLivePair`), on the terms of the consent (`GrantKeepsItsTerms`), never after the grant ended (`EndedGrantStaysEnded`) | one code (grants share nothing), three tokens, so two rotations; two requests, which may present the same row; four instants, so that codes and refresh tokens expire at every point; the properties are theorems for any bounds |

The passing runs have between 30 thousand and 2.8 million distinct states.

`Conditional`, `Dated` and `MaxOverrides` in AuthoredFacts bound which policies have conditions
or dates and how many overrides are ever made. `MaxClock`, `LastDay`, `MaxVersions` and
`MaxCrashes` bound counters. Symmetry permutes employees, policies, sessions, users and session
rows where no definition orders them, and is used in no run that checks liveness. In
`org_serial` the set of trees is closed under the permutations of employees.

Each property of a passing run has a mutant in PROJECT.json: the same run with one
definition replaced by a faulty one, in which the property fails.

## 4. Fairness

- `PSFairSpec` (schedules): weak fairness of `ProcessBatch`, because the scheduler keeps
  starting the worker (`src/backend/README.md:107-116`). Nothing is assumed of users, of
  requests that have begun, nor of the clock. The property excuses the case in which requests
  hold a due row of the policy again and again, for ever.
- `RWFairSpec` (worker): weak fairness of starting some worker, of a started worker's steps
  and of the end of a request that holds a row. Crashes and new requests are not fair. The
  property excuses an event whose batch always fails, since the code stops at it on every
  run, and a row that requests hold again and again.

## 5. What is proved

All theorems hold for every value of the constants that satisfies the named assumptions.

- **PolicyVersionsProofs**: `TypeCorrect`, `VersionsNeverOverlap`, `VersionNumbersConsecutive`,
  `CommittedVersionsOnlyClose`, `EarlierDatesKept`, with any number of overlapping requests. The
  invariant `IInv` adds to the goals: a request past its lock owns it (`LockInv`), a request
  before its write has written nothing (`NothingWritten`), and what a request in `written` will
  do to the committed rows keeps them disjoint and numbered and leaves the answer for each date
  before the new range (`Sound`). The last part is preserved by the commits of others only
  because of the first: another request's rows are those of another policy. It is this step that
  the row lock of `policy_versions.py:72-76` carries. A further part (`LoadedInv`) says of the
  versions a request has loaded as open that those closed since are followed by another: to
  close a version is to insert one from the day after (`OpenOrFollowed`). The same module proves
  of PolicySchedules, again with any number of overlapping requests, `EventsMatchVersions`
  (`PSInv`), `StalenessIsDue` (`StaleOnlyWhileDue`) and `SchedulesImplementVersions`, by which
  the theorems on versions hold with events, worker and clock. The invariant `EInv` adds that
  what a request will do to the events is exact when it commits (`Prepared`): it is what the
  request's objects called for at an instant that is past, the worker skips the rows it holds,
  and no other request has its policy's lock. The lemma `ObjectsBoundaries` says that what stale
  objects leave out of the boundaries is ends of versions that another version follows, whose
  event has the same instant. Without `LoadedInv` a boundary might be left with no event at all.
  Staleness arises only at a midnight (`Midnight`), at which some version starts or ends, and
  the event of that boundary is due from then on.
- **ConcurrentReconciliationProofs**: first of AssignmentTimeline, `TimelineTypeCorrect`,
  `OneAssignment`, `EndedRowsFinal` and the refinement `RowsImplementRecord`. Strengthening: no
  boundary of a row lies after the last decision (`NothingAhead`), without which ending a row
  could reverse its range. The lemmas `AnswersBefore` and `AnswersFrom` say what the rows answer
  before and from the instant of a decision; the refinement is these two. Then, of the
  statements, `OnlyOpenRowsWritten` and `ThePastStands` for any number
  of overlapping transactions, from `CInv`: what a transaction found open is, at every later
  moment, still open and unchanged or gone, and once it holds the row locks it is there.
  That is what the second look at locked rows gives, and it is not enough for one assignment
  at a time, as `overlap_race` shows. Under the hypothesis that there is one transaction,
  `OneWriterLeavesNothingStale` (`CRInv`) and the refinement `OneWriterImplementsTimeline`:
  the statements before the commit stutter, the commit is `Reconcile`; with it the theorems
  on AssignmentTimeline hold of the statements.
- **OrgChartProofs**: `OneRequestKeepsAcyclic`, under the hypothesis that requests run one at a
  time, which `org_cycle` shows to be needed. A cycle is stated as a nonempty set that holds the
  manager of each of its members, so no induction over chains is needed: if putting `e` below
  `m` made such a set `S`, the part of `S` that lies on `m`'s chain, `m` included and `e` not,
  would be one already. The strengthening says the same of the chart a request is about to
  commit. `ManagersAlwaysExist` holds for any number of overlapping requests. Under the same
  hypothesis `OneRequestKeepsFactsFresh`: what was last read of the chart for an employee is the
  chart as it is (`FactsFresh`). `FreshInv` adds that an open request has read the chart it will
  commit for everyone it reconciles; the step is the lemma `ImpactFindsEveryone`, that the facts
  of everybody else are the same before and after: a chain changes only by a change on it
  (`SameChain`). From it follow `ConditionsMeanWhatTheySay`, for any condition a policy may
  have, and, with lemmas on the part of the chart below an employee (`TreeAfterCreation`,
  `TreeAfterMove`, `TreeAfterDeletion`), `OneRequestKeepsScopes` (`ScopesHold`). Of the
  compiler, `ProductMeansBoth` and `ConcatenationMeansEither` say what the clauses of two
  operands match, from `PlaceOfPair` and `PairAtPlace`, by which each pair of clauses has a
  place in the product. `AcceptedTreesCompile` and `OneRequestKeepsMatchesTrue`
  (`MatchesFollowTheTree`) say of whole trees, whatever the groups and the conditions on them,
  that the limit of the compiler never meets a tree that has passed validation and that its
  clauses match whom the tree describes. They need two inductions: along the operands of a group
  (`AnyOperand`, `EveryOperand`) and over the groups (`GroupCompiles`). The induction theorems
  of the library take the statement as an operator, which the provers cannot instantiate; they
  can instantiate a set, so induction is had from the least element of a set of naturals
  (`Least`, by `WFMin` of WellFoundedInduction) as `IntervalInduction` and `GroupInduction`. A
  recursive function is to the prover a choice among the functions that satisfy its equation,
  and says nothing until there is one: `SequenceRecursion` and `GroupRecursion` build it, one
  position or level at a time, and the lemmas named `...Unfolds` apply them. The induction over
  groups says of a group `g` (`Compiles`) that it counts at least one clause and, if within the
  limit, compiles to as many with its meaning. That every group counts at least one is what
  keeps the partial products of "and" under the limit when the whole is (`TimesBounds`); a group
  without operands would count none, and is refused.
- **AuthoredFactsProofs**: `OverridesStayCounted` and `OneValueAtATime` for one request at a
  time, and the lemma `ResolutionGivesOneValue`, which holds for any rows: without a conflict,
  and with overrides counted right, the result gives one value per one-valued field. `FactsInv`
  says it of the committed rows and of the rows as each open request leaves them. `FactsTyped`
  holds for any number of requests; its `TypesInv` includes that an open request differs from
  the committed rows it has read in nothing but what it aims at (`Aimed`). Then, with one
  request at a time, `PromiseKept` (`EveryoneShowsThePromise`). The lemma
  `ResolutionKeepsThePromise` shows that matching, ranking and overriding give what the
  documented rule says, which is stated without them. `PromiseInv` adds to the types that while
  no boundary is unprocessed everyone shows the resolution of the committed rows, which is
  without conflict (`Current`), and that a request will leave it so by what it has resolved
  (`Ready`): the lemma `OutsideTheAim` says that whoever a request does not reconcile resolves
  alike before and after it, for every kind of request. `NoConflictStands` (`AFInv`),
  `ChangesWereAnnounced` (`ChangesAreAnnounced`, for every caller's employees and fields) and
  `ReportsAlwaysAgree` (`ReportsAgree`) come from it. The last of these counts, in
  `ReportsOfOneCaller`, what a summary and an impact add up over employees, and so assumes that
  the constants are finite sets.
- **TenureEventsProofs**: `TransitionsAreTurns`, that the scheduled anniversaries are exactly
  the days on which the comparison turns, and from it `OnlyScheduledDaysMatter`, that on
  every other day that is no version boundary matches stay as they were, for any increasing
  calendar, leap days included. With them `OneRequestKeepsEvents` (`TEInv`) and
  `OneRequestStaleOnlyWhileDue`, under the hypothesis that requests run one at a time, while
  the worker and midnight come at any point of a request. `TInv` adds what makes the late commit
  of an early decision harmless: the rows written are those of the decision, but for the ones
  that the worker has processed since (`Wrote`), and a decision that is no longer right has been
  overtaken, or has a boundary or an unprocessed event that will put it right (`CaughtUp`).
- **ReconciliationWorkerProofs**: `OneWorkerAtATime` (`RWInv`) and `EventsProcessedOnce`, for any
  number of workers, events, crashes and requests. `WInv` says what each lock carries: the
  advisory lock belongs to the one worker past it, and claimed events are pending, unprocessed
  and locked against requests until the batch ends. `DrainedRunsLeaveNothing`
  (`DrainedLeavesNothing`) adds `RunsInv`: a batch below its limit holds every row that was due
  and not locked when it was read. It does because nobody else holds claimed rows then
  (`ShortBatchIsEverything`): this is what the drained report owes to the advisory lock.
- **HumanAccountsProofs**: all that the run `accounts` checks, for any accounts, roles and
  durations: `AccountsAreManageable` (`HAInv`), `SessionsEndWithCredentials`, `IdleTimeCounts`,
  `Throttling` and `RefusedSessions`. `HumanInv` has three parts. `Accounts` says what
  administration leaves of users and roles. `SessionsInv` says that each session in use fits its
  account: of an active user, begun no earlier than its password was changed, verified only by a
  second factor that is still enabled, seen within `Coarse` of its last request. `ThrottleInv`
  relates the counter of an account to the instants at which its sign-ins failed (`misses`): it
  counts the last of them, all within one window, and the one `MaxFailures - 1` before that
  window's first lies at least a window further back.
- **OAuthGrantsProofs**: `OnePairInForce`, `TermsKept`, `EndedForGood` and `GrantsTyped`, for any
  number of grants, tokens and overlapping requests. `OGInv` adds that no two requests have
  written for the same row (`Alone`), and that the row a request has written for may still be
  exchanged when it commits (`Ready`); both come from the lock on the row presented.

Assumptions on constants are named `...Assumption` where the constants are declared, and TLC
evaluates them in the runs. They say that NULL and "nobody" are not ordinary values, that the
ranges versions may get lie in the calendar (`RangesAssumption`), that bounds are natural
numbers, that resolved assignments are consistent, that an employee whom no policy matches is
given nothing (`NoPolicyAssumption`), that the groups of a tree are of some level and its
conditions such as a request may author (`LevelsAssumption`, `ConditionsAssumption`), that a
later anniversary falls on a later day, and that employees, fields, values and policies are
finitely many where they are counted (`FiniteAssumption`).

Every safety and action property of the passing runs is stated by a theorem. Only
model-checked:

- The liveness properties `StaleIsRefreshed` and `DueIsProcessed`. Fairness is stated with
  ENABLED, which is beyond the proof backends.

## 6. Where overlapping requests break what the documents say

Two runs are expected to fail; PROJECT.json quotes for each the sentence it refutes.

- `overlap_race`: two transactions that reconcile one employee, each of which turns on another
  policy, resolve without the other's, find no open row, and insert two values of a one-valued
  field (`services/reconciliation.py:120`). The documents claim that
  ordering, row locks and the chronological check preserve the timeline.
- `org_cycle`: two moves each walk the committed chain, see no cycle, and close one.

With two sessions, which the serial runs exclude on purpose, the same models also reach states
that the remaining serial properties forbid, the first and the last item apart. They are listed so that
nobody reads the serial runs as more than they are:

- A request rewrites the events of its policy from objects loaded before its wait for the row
  lock (`services/scheduled_reconciliations.py:127`), in two ways. A new version does it for the
  status loaded (`slipped`): `SchedulesMatch` and `StaleOnlyWhileDue` fail of such a policy. Both
  a new version and a change of status do it for the ranges loaded (`outdated`): a version that another request has closed
  meanwhile still looks open, and its `expires` event is cancelled, although the policy is
  active and the boundary ahead. That "events match ranges" fails then, but no assignment goes
  stale: closing was part of adding a version from the next day, whose `becomes_effective` event is
  of the same instant. `policy_schedules` runs two overlapping requests and checks that the
  properties fail in no other way: of `outdated` policies, `SchedulesMatch` still says that no
  event is wrong and that each boundary's instant has one, and `StaleOnlyWhileDue` excepts none
  of them. The next request on the policy repairs both.
- `TEInv` fails: an employee request and a policy request that overlap schedule
  each from what the other has not committed (`services/tenure_scheduling.py:33`).
- `QuiescentFresh` fails: links and assignments were resolved before another request's
  facts were committed.
- A reconciliation may commit with an instant before one that is already committed, since
  the check of the order precedes the locks and compares starts only
  (`services/reconciliation.py:225-230`).
- Two requests may each create an override of the same one-valued field
  (`services/employee_overrides.py:211`).
- A tenure event may outlive its employee when a policy request listed the employee before
  the deletion committed; each later batch of the worker that includes it raises
  (`services/scheduled_reconciliations.py:220-224`).
- Requests on one account may overlap too. `SessionsFollowCredentials` fails when a sign-in has
  verified the old password while another request changes it, and commits its session after
  that one has revoked the account's sessions. `RefusedStaysRefused` fails when a sign-in that
  found the account active commits its session after a suspension has revoked the others, and the
  account is made active again; or when a request served just before idle expiry commits
  its `last_seen_at` after another has been refused (`services/human_auth.py:260-261`). These
  follow from the code as read; HumanAccounts, being serial, does not reach them.

Properties that are checked with overlapping requests and hold: those of
`policy_schedules`, `reconcile_concurrent`, `worker` and `oauth`, and the theorems of
PolicyVersionsProofs, ReconciliationWorkerProofs and OAuthGrantsProofs, `OnlyOpenRowsWritten`,
`ThePastStands`, `ManagersAlwaysExist` and `FactsTyped`.

## 7. What is not modelled

PROJECT.json lists every component with its status. Left out, with the reason:

- *Pure parsing and formatting*: normalisation of values, request and response schemas,
  labels of the catalogue, explanations and evidence of an assignment. A change that only
  alters an explanation is therefore no change to ChangePreviews.
- *Parts of previews and listings*: previews of policy versions and of employee changes
  (whose answer is restricted to the employee's own assignments), filters, pages and the
  shortening of samples. Not reached by any model, noted while reading:
  `_require_visible_override` in `routers/change_previews.py` raises `HTTPException`, which
  that module does not import.
- *Audit log*: one row in the transaction of each mutation, which no mutation reads back;
  with it the filters of its listing and the access review.
- *Authentication details*: recovery codes, the time step of a TOTP code, cookies, delivery of
  reset tokens; registration of OAuth clients, metadata documents and redirect addresses;
  API credentials, each of which is read once per request. Requests of HumanAccounts are
  serial, so two overlapping administrators who each remove the other are not considered.
- *Override events*: supported by table and worker, but no code schedules one.
- *No logic of their own*: configuration and routing, declarations of tables (their keys and
  checks are in the actions that depend on them), demo data, frontend, MCP adapter.

Abstractions inside the modelled parts are named in section 2. The unique key of events, on
which two inserting requests collide, is modelled as a wait in TenureEvents and not in
PolicySchedules, whose requests for one policy hold that policy's row.

## 8. Plan

Done, in this order of importance: PolicyVersions and its proofs; the timeline with its
refinements and proofs; PolicySchedules; ConcurrentReconciliation; OrgChart; the worker;
AuthoredFacts; TenureEvents; OAuthGrants with proofs; HumanAccounts; PolicyConditions;
ChangePreviews; Visibility and EmployeeScopes; AssignmentReports; proofs of every safety
property of the runs.

What would add most next:

1. Previews of policy versions and of employee changes, on PolicyVersions and OrgChart.
2. Overlapping administrators in HumanAccounts: the guards that keep somebody in charge
   count committed rows without a lock.
3. Administration by OAuth token in HumanAccounts, with the tokens of OAuthGrants.
