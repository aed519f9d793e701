---------------------------- MODULE HumanAccounts ----------------------------
(***************************************************************************)
(* User accounts: setup of the root user, sign-in and its throttle,        *)
(* browser sessions and their absolute and idle expiry, passwords, second  *)
(* factors and password resets (services/human_auth.py and its routes),    *)
(* and what an administrator does to accounts and roles                    *)
(* (services/access_control.py), each behind the checks of                 *)
(* dependencies.py.  A request is one transaction: it authenticates its    *)
(* session, runs its handler and commits.  A request that is refused       *)
(* changes nothing, since get_db rolls it back with the revoked_at it may  *)
(* have set on an expired session; only a failed sign-in commits.          *)
(*                                                                         *)
(* Passwords, codes and tokens are presented by whoever has them: a wrong  *)
(* one is a refused request, except at sign-in, where it is counted.  That *)
(* a recovery code is spent by its use is left out.                        *)
(***************************************************************************)
EXTENDS Integers, Sequences, FiniteSets

CONSTANTS
    Users, Roles,
    NoUser,        \* the user of a row with no session in it
    SessionTTL,    \* AUTH_SESSION_TTL_SECONDS
    IdleTTL,       \* AUTH_SESSION_IDLE_TTL_SECONDS
    Coarse,        \* 60 seconds: last_seen_at is not written more often
    ReauthTTL,     \* AUTH_REAUTH_TTL_SECONDS
    Window,        \* 15 minutes: failed sign-ins are counted, and then blocked, so long
    MaxFailures,   \* 5 failed sign-ins block an account and address
    ResetTTL,      \* 30 minutes
    MfaRequired,   \* AUTH_REQUIRE_PRIVILEGED_MFA
    Rows,          \* bound: rows for sessions in use; wrong sign-ins and those, one more
    MaxClock,      \* bound: instants are 0..MaxClock
    Bounded        \* bound: sign-ins fail and resets are requested early and few

ASSUME DurationsAssumption ==
    /\ {SessionTTL, IdleTTL, Coarse, ReauthTTL, Window, ResetTTL} \subseteq Nat \ {0}
    /\ Coarse <= IdleTTL        \* the idle TTL is at least 60 seconds
ASSUME CountsAssumption ==
    /\ MaxFailures \in Nat /\ MaxFailures > 1
    /\ MaxClock \in Nat
ASSUME SettingAssumption == {MfaRequired, Bounded} \subseteq BOOLEAN
ASSUME NoUserAssumption == NoUser \notin Users

Instants == 0 .. MaxClock

VARIABLES
    clock,         \* current_datetime()
    users,         \* users rows; "absent" before the account exists
    roles,         \* roles: whether they exist and grant access:manage
    sessions,      \* auth_sessions rows: a row that has ended makes room for the next
    throttle,      \* login_throttles row of each account from one address
    resets,        \* unused password_reset_tokens: account -> expiry
    misses         \* history: when each account's sign-ins failed since one succeeded

haVars == <<clock, users, roles, sessions, throttle, resets, misses>>

User == [status : {"absent", "active", "inactive"}, root : BOOLEAN,
         temporary : BOOLEAN, changed : Instants, mfa : BOOLEAN,
         roles : SUBSET Roles]

\* acted is history: when a request of the session was last served and committed.
Session == [user : Users \cup {NoUser}, made : Instants, seen : Instants, reauth : Instants,
            mfa : BOOLEAN, pending : BOOLEAN, acted : Instants]

NoAccount == [status |-> "absent", root |-> FALSE, temporary |-> FALSE, changed |-> 0,
              mfa |-> FALSE, roles |-> {}]
\* A session that has ended, or room for one: nobody reads the rest of its row.
Over == [user |-> NoUser, made |-> 0, seen |-> 0, reauth |-> 0,
         mfa |-> FALSE, pending |-> FALSE, acted |-> 0]

NoFailures == [count |-> 0, since |-> 0, locked |-> 0]
Never == -1                    \* no reset token

-----------------------------------------------------------------------------
Exists(u) == users[u].status # "absent"
Live(i) == sessions[i].user # NoUser

Expired(s) == clock >= s.made + SessionTTL
IdleTooLong(s) == clock - s.seen >= IdleTTL

\* authenticate_session
Accepted(i) ==
    LET s == sessions[i]
    IN  Live(i) /\ ~ Expired(s) /\ ~ IdleTooLong(s) /\ users[s.user].status = "active"

\* Faulty: an instant is skipped at the boundary.
TouchedTooRarely(s) == [s EXCEPT !.seen = IF clock - @ > Coarse THEN clock ELSE @,
                                 !.acted = clock]

\* authenticate_session's write, which a served request commits.
Touched(s) == [s EXCEPT !.seen = IF clock - @ >= Coarse THEN clock ELSE @,
                        !.acted = clock]

Served(i) == [sessions EXCEPT ![i] = Touched(@)]

\* create_session, for a sign-in or in exchange for session i.
Opened(u, verified) ==
    [user |-> u, made |-> clock, seen |-> clock, reauth |-> clock, mfa |-> verified,
     pending |-> FALSE, acted |-> clock]

\* A new session takes a row that is free.
HasRoom == \E j \in DOMAIN sessions : ~ Live(j)
With(ss, s) == [ss EXCEPT ![CHOOSE j \in DOMAIN ss : ss[j].user = NoUser] = s]

\* revoke_user_sessions of both services.
Ended(ss, u, keep) ==
    [j \in DOMAIN ss |-> IF ss[j].user = u /\ j \notin keep
                           THEN Over ELSE ss[j]]

\* effective_permissions and required_permissions for the routes under /users and /roles.
Manages(u) == users[u].root \/ \E r \in users[u].roles : roles[r] = "manages"

Recent(s) == clock - s.reauth < ReauthTTL

\* get_authenticated_principal and authorize_operation for a change of accounts or roles.
MayAdminister(i) ==
    LET s == sessions[i] u == users[sessions[i].user] IN
    /\ Accepted(i)
    /\ ~ u.temporary
    /\ Manages(s.user)
    /\ MfaRequired => u.mfa /\ s.mfa
    /\ Recent(s)

-----------------------------------------------------------------------------
HAInit ==
    /\ clock = 0
    /\ users = [u \in Users |-> NoAccount]
    /\ roles = [r \in Roles |-> "absent"]
    /\ sessions = [i \in Rows |-> Over]
    /\ throttle = [u \in Users |-> NoFailures]
    /\ resets = [u \in Users |-> Never]
    /\ misses = [u \in Users |-> <<>>]

\* create_root_user, under an advisory lock: only while there is no user.
SetupRoot(u) ==
    /\ \A v \in Users : ~ Exists(v)
    /\ users' = [users EXCEPT ![u] = [NoAccount EXCEPT !.status = "active", !.root = TRUE,
                                        !.changed = clock]]
    /\ HasRoom /\ sessions' = With(sessions, Opened(u, FALSE))
    /\ UNCHANGED <<clock, roles, throttle, resets, misses>>

\* Bound: where Bounded, sign-ins fail and resets are requested before the first role is
\* created, for the account there is, and not both at once, and after failures the account
\* signs in again first.  Of what an administrator changes they read the status alone.
EarlyOn == \A r \in Roles : roles[r] = "absent"
FewFailures(u) ==
    /\ EarlyOn /\ \A v \in Users : resets[v] = Never
    /\ Cardinality({i \in DOMAIN sessions : Live(i)}) + Len(misses[u]) <= Cardinality(Rows) + 1

Throttled(u) == clock < throttle[u].locked

\* Faulty: the block ends with the window.
FailureBlocksTheWindow(t) ==
    LET fresh == t.count = 0 \/ clock - t.since >= Window
        n == IF fresh THEN 1 ELSE t.count + 1
        since == IF fresh THEN clock ELSE t.since
    IN  [count |-> n, since |-> since, locked |-> IF n >= MaxFailures THEN since + Window ELSE 0]

\* _record_login_failure
Failure(t) ==
    LET fresh == t.count = 0 \/ clock - t.since >= Window
        n == IF fresh THEN 1 ELSE t.count + 1
    IN  [count  |-> n,
         since  |-> IF fresh THEN clock ELSE t.since,
         locked |-> IF n >= MaxFailures THEN clock + Window ELSE IF fresh THEN 0 ELSE t.locked]

\* A wrong password or code, or an account that is not active.  The route commits the
\* counter before it refuses the request.
LoginFails(u) ==
    /\ ~ Throttled(u)
    /\ Exists(u)
    /\ Bounded => FewFailures(u)
    /\ throttle' = [throttle EXCEPT ![u] = Failure(@)]
    /\ misses' = [misses EXCEPT ![u] = Append(@, clock)]
    /\ UNCHANGED <<clock, users, roles, sessions, resets>>

\* authenticate_human.  Without a code where one is needed nothing is counted or changed.
Login(u) ==
    /\ ~ Throttled(u)
    /\ users[u].status = "active"
    /\ throttle' = [throttle EXCEPT ![u] = NoFailures]
    /\ misses' = [misses EXCEPT ![u] = <<>>]
    /\ HasRoom /\ sessions' = With(sessions, Opened(u, users[u].mfa))
    /\ UNCHANGED <<clock, users, roles, resets>>

\* Any request that is served and changes nothing else.
Visit(i) ==
    /\ Accepted(i)
    /\ sessions' = Served(i)
    /\ UNCHANGED <<clock, users, roles, throttle, resets, misses>>

Logout(i) ==
    /\ Accepted(i)
    /\ sessions' = [sessions EXCEPT ![i] = Over]
    /\ UNCHANGED <<clock, users, roles, throttle, resets, misses>>

\* Faulty: the other sessions are left alone.
ChangePasswordHere(i) ==
    LET u == sessions[i].user IN
    /\ Accepted(i)
    /\ users' = [users EXCEPT ![u].temporary = FALSE, ![u].changed = clock]
    /\ sessions' = With([sessions EXCEPT ![i] = Over], Opened(u, users[u].mfa))
    /\ UNCHANGED <<clock, roles, throttle, resets, misses>>

ChangePassword(i) ==
    LET u == sessions[i].user IN
    /\ Accepted(i)
    /\ users' = [users EXCEPT ![u].temporary = FALSE, ![u].changed = clock]
    /\ sessions' = With(Ended(Served(i), u, {}), Opened(u, users[u].mfa))
    /\ UNCHANGED <<clock, roles, throttle, resets, misses>>

BeginMfaSetup(i) ==
    /\ Accepted(i)
    /\ ~ users[sessions[i].user].mfa
    /\ sessions' = [Served(i) EXCEPT ![i].pending = TRUE]
    /\ UNCHANGED <<clock, users, roles, throttle, resets, misses>>

\* The pending secret is the session's: two sessions may each have one.
ConfirmMfaSetup(i) ==
    LET u == sessions[i].user IN
    /\ Accepted(i) /\ sessions[i].pending
    /\ users' = [users EXCEPT ![u].mfa = TRUE]
    /\ sessions' = [Served(i) EXCEPT ![i].pending = FALSE, ![i].mfa = TRUE, ![i].reauth = clock]
    /\ UNCHANGED <<clock, roles, throttle, resets, misses>>

DisableMfa(i) ==
    LET u == sessions[i].user IN
    /\ Accepted(i)
    /\ users[u].mfa
    /\ users' = [users EXCEPT ![u].mfa = FALSE]
    /\ sessions' = With(Ended(Served(i), u, {}), Opened(u, FALSE))
    /\ UNCHANGED <<clock, roles, throttle, resets, misses>>

\* The session is exchanged for one that is reauthenticated now.
Reauthenticate(i) ==
    LET u == sessions[i].user IN
    /\ Accepted(i)
    /\ sessions' = With([sessions EXCEPT ![i] = Over], Opened(u, users[u].mfa))
    /\ UNCHANGED <<clock, users, roles, throttle, resets, misses>>

\* sign_out_other_devices and sign_out_all_devices
SignOut(i, keep) ==
    /\ Accepted(i) /\ Recent(sessions[i])
    /\ keep \in {{}, {i}}
    /\ sessions' = Ended(Served(i), sessions[i].user, keep)
    /\ UNCHANGED <<clock, users, roles, throttle, resets, misses>>

\* A new request replaces the unused token of the account.
RequestPasswordReset(u) ==
    /\ users[u].status = "active"
    /\ Bounded => EarlyOn /\ misses[u] = <<>>
    /\ resets' = [resets EXCEPT ![u] = clock + ResetTTL]
    /\ UNCHANGED <<clock, users, roles, sessions, throttle, misses>>

ConfirmPasswordReset(u) ==
    /\ clock < resets[u]
    /\ users[u].status = "active"
    /\ users' = [users EXCEPT ![u].temporary = FALSE, ![u].changed = clock]
    /\ resets' = [resets EXCEPT ![u] = Never]
    /\ sessions' = Ended(sessions, u, {})
    /\ UNCHANGED <<clock, roles, throttle, misses>>

-----------------------------------------------------------------------------
\* Administration: i is the session of whoever does it.

SaveRole(i, r, grant) ==
    /\ MayAdminister(i)
    /\ roles' = [roles EXCEPT ![r] = grant]
    /\ sessions' = Served(i)
    /\ UNCHANGED <<clock, users, throttle, resets, misses>>

CreateRole(i, r, grant) ==
    /\ roles[r] = "absent"
    /\ Bounded => \A u \in Users : misses[u] = <<>>
    /\ SaveRole(i, r, grant)
UpdateRole(i, r, grant) == roles[r] # "absent" /\ SaveRole(i, r, grant)

\* Faulty: only the roles of active users count as assigned.
DeleteRoleOfInactive(i, r) ==
    /\ roles[r] # "absent"
    /\ \A u \in Users : users[u].status = "active" => r \notin users[u].roles
    /\ SaveRole(i, r, "absent")

DeleteRole(i, r) ==
    /\ roles[r] # "absent"
    /\ \A u \in Users : r \notin users[u].roles
    /\ SaveRole(i, r, "absent")

\* roles_by_ids finds every role and the list is not empty.
Assignable(R) == R # {} /\ \A r \in R : roles[r] # "absent"

CreateUser(i, u, R) ==
    /\ MayAdminister(i)
    /\ ~ Exists(u) /\ Assignable(R)
    /\ users' = [users EXCEPT ![u] = [NoAccount EXCEPT !.status = "active",
                                        !.temporary = TRUE, !.roles = R]]
    /\ sessions' = Served(i)
    /\ UNCHANGED <<clock, roles, throttle, resets, misses>>

\* Faulty: suspending leaves the sessions to the status check.
ChangeStatusOnly(i, u, status) ==
    /\ MayAdminister(i)
    /\ Exists(u) /\ ~ users[u].root
    /\ sessions[i].user = u => status = "active"
    /\ users' = [users EXCEPT ![u].status = status]
    /\ sessions' = Served(i)
    /\ UNCHANGED <<clock, roles, throttle, resets, misses>>

\* update_user with a status, and disable_user.
ChangeStatus(i, u, status) ==
    /\ MayAdminister(i)
    /\ Exists(u) /\ ~ users[u].root
    /\ sessions[i].user = u => status = "active"
    /\ users' = [users EXCEPT ![u].status = status]
    /\ sessions' = IF status = "active" THEN Served(i) ELSE Ended(Served(i), u, {})
    /\ UNCHANGED <<clock, roles, throttle, resets, misses>>

\* update_user with role_ids
ChangeRoles(i, u, R) ==
    /\ MayAdminister(i)
    /\ Exists(u) /\ ~ users[u].root /\ sessions[i].user # u
    /\ Assignable(R)
    /\ users' = [users EXCEPT ![u].roles = R]
    /\ sessions' = Served(i)
    /\ UNCHANGED <<clock, roles, throttle, resets, misses>>

ResetUserPassword(i, u) ==
    /\ MayAdminister(i)
    /\ Exists(u) /\ ~ users[u].root
    /\ users' = [users EXCEPT ![u].temporary = TRUE, ![u].changed = clock]
    /\ sessions' = Ended(Served(i), u, {})
    /\ UNCHANGED <<clock, roles, throttle, resets, misses>>

\* An expired reset token is as good as none.
PassTime ==
    /\ clock < MaxClock
    /\ clock' = clock + 1
    /\ resets' = [u \in Users |-> IF resets[u] <= clock' THEN Never ELSE resets[u]]
    /\ UNCHANGED <<users, roles, sessions, throttle, misses>>

\* The routes, by whom they are for.
OwnRequest(i) == Visit(i) \/ Logout(i) \/ ChangePassword(i)

FactorRequest(i) ==
    BeginMfaSetup(i) \/ ConfirmMfaSetup(i) \/ DisableMfa(i) \/ Reauthenticate(i)

RoleRequest(i) ==
    \E r \in Roles :
        \/ \E g \in {"reads", "manages"} : CreateRole(i, r, g) \/ UpdateRole(i, r, g)
        \/ DeleteRole(i, r)

UserRequest(i) ==
    \E u \in Users :
        \/ \E R \in SUBSET Roles : CreateUser(i, u, R) \/ ChangeRoles(i, u, R)
        \/ \E st \in {"active", "inactive"} : ChangeStatus(i, u, st)
        \/ ResetUserPassword(i, u)

Anonymous(u) ==
    \/ SetupRoot(u) \/ LoginFails(u) \/ Login(u)
    \/ RequestPasswordReset(u) \/ ConfirmPasswordReset(u)

HANext ==
    \/ \E u \in Users : Anonymous(u)
    \/ \E i \in DOMAIN sessions :
          \/ OwnRequest(i) \/ FactorRequest(i) \/ SignOut(i, {}) \/ SignOut(i, {i})
          \/ RoleRequest(i) \/ UserRequest(i)
    \/ PassTime

HASpec == HAInit /\ [][HANext]_haVars

-----------------------------------------------------------------------------
HATypeOK ==
    /\ clock \in Instants
    /\ users \in [Users -> User]
    /\ roles \in [Roles -> {"absent", "reads", "manages"}]
    /\ sessions \in [Rows -> Session]
    /\ \A u \in Users : /\ throttle[u].count \in 0 .. MaxFailures
                        /\ throttle[u].since \in Instants
                        /\ throttle[u].locked \in 0 .. MaxClock + Window
                        /\ resets[u] \in {Never} \cup 0 .. MaxClock + ResetTTL

\* A session that has once been refused is refused ever after, although the mark that
\* an expired one gets is rolled back with the request and a suspended user may be
\* made active again (human_auth.py:240-259, access_control.py:613-618).
RefusedStaysRefused ==
    [][\A i \in DOMAIN sessions :
          Live(i) /\ ~ Accepted(i) => ~ Accepted(i)' \/ sessions[i].made' = clock]_haVars

\* Idle expiry counts from the last request that was served, short by less than the
\* minute in which last_seen_at is not rewritten: nobody active within IdleTTL - Coarse
\* is taken for idle, and nobody idle for IdleTTL is served (human_auth.py:249-261).
IdleCountsFromLastRequest ==
    \A i \in DOMAIN sessions :
        LET s == sessions[i] IN
        /\ Accepted(i) => clock - s.acted < IdleTTL
        /\ IdleTooLong(s) => clock - s.acted > IdleTTL - Coarse

\* No session begun with an earlier password, or verified by a second factor that has
\* since been disabled, is still in use (human_auth.py:341-345, 457-460, 601-605,
\* access_control.py:651-654).
SessionsFollowCredentials ==
    \A i \in DOMAIN sessions : Live(i) =>
        /\ sessions[i].made >= users[sessions[i].user].changed
        /\ sessions[i].mfa => users[sessions[i].user].mfa

\* Once set up there is one root, always active and with a password of its own, and
\* every other account has a role, all of which exist.
AccountsStayManageable ==
    (\E u \in Users : Exists(u)) =>
        /\ \E u \in Users : /\ users[u].root /\ users[u].status = "active" /\ ~ users[u].temporary
                            /\ \A v \in Users \ {u} : ~ users[v].root
        /\ \A u \in Users : Exists(u) /\ ~ users[u].root =>
               users[u].roles # {} /\ \A r \in users[u].roles : roles[r] # "absent"

\* Both: the types, and accounts that somebody can always manage.
HAInv == HATypeOK /\ AccountsStayManageable

\* In no stretch of Window instants are more than twice MaxFailures less two wrong
\* sign-ins let through between successes: windows begin anew, and a block outlasts
\* the one it ends (human_auth.py:817-857).
SignInsAreThrottled ==
    \A u \in Users :
        LET many == 2 * MaxFailures - 2
        IN  \A k \in DOMAIN misses[u] :
                k > many => misses[u][k] - misses[u][k - many] >= Window
=============================================================================
