------------------------- MODULE HumanAccountsProofs -------------------------
(***************************************************************************)
(* For any users, roles, sessions, durations and limits: sessions end with *)
(* the credentials they were begun with, idle time counts from the last    *)
(* request served, refused sessions stay refused, somebody can always      *)
(* manage the accounts, and sign-ins are throttled.                        *)
(***************************************************************************)
EXTENDS HumanAccounts, TLAPS

\* A row as of an instant, under the accounts us: seen lags behind acted by less than
\* the minute in which it is not rewritten, and a session in use belongs to an active
\* account, with the credentials of today.
Sound(s, us, now) ==
    /\ s.made <= now /\ s.seen <= s.acted /\ s.acted <= now /\ s.acted - s.seen < Coarse
    /\ s.user # NoUser => /\ us[s.user].status = "active"
                          /\ s.made >= us[s.user].changed
                          /\ s.mfa => us[s.user].mfa

Fits(ss, us) == ss \in [Rows -> Session] /\ \A j \in Rows : Sound(ss[j], us, clock)

\* A session that is refused is left as it is, or ended, or its row is used anew.
Follows(ss) ==
    \A j \in Rows : Live(j) /\ ~ Accepted(j) =>
        ss[j] = sessions[j] \/ ss[j].user = NoUser \/ ss[j].made = clock

Accounts ==
    /\ clock \in Instants
    /\ users \in [Users -> User]
    /\ roles \in [Roles -> {"absent", "reads", "manages"}]
    /\ resets \in [Users -> {Never} \cup 0 .. MaxClock + ResetTTL]
    /\ \A u \in Users : users[u].changed <= clock /\ (users[u].root => Exists(u))
    /\ AccountsStayManageable

SessionsInv == Fits(sessions, users)


-----------------------------------------------------------------------------
\* The rows of sessions.

LEMMA Times ==
    /\ Instants \subseteq Nat /\ 0 \in Instants
    /\ SessionTTL \in Nat \ {0} /\ IdleTTL \in Nat \ {0} /\ Coarse \in Nat \ {0}
    /\ Window \in Nat \ {0} /\ ResetTTL \in Nat \ {0} /\ MaxClock \in Nat
    /\ MaxFailures \in Nat /\ MaxFailures > 1
BY DurationsAssumption, CountsAssumption DEF Instants

LEMMA OverFits == ASSUME clock \in Instants, NEW us PROVE Over \in Session /\ Sound(Over, us, clock)
BY Times DEF Over, Session, Sound

LEMMA OpenedFits ==
    ASSUME clock \in Instants, NEW us, NEW u \in Users, NEW v \in BOOLEAN,
           us[u].status = "active", us[u].changed <= clock, v => us[u].mfa
    PROVE  Opened(u, v) \in Session /\ Sound(Opened(u, v), us, clock) /\ Opened(u, v).made = clock
BY Times DEF Opened, Session, Sound

LEMMA TouchedFits ==
    ASSUME clock \in Instants, NEW us, NEW s \in Session, Sound(s, us, clock)
    PROVE  /\ Touched(s) \in Session /\ Sound(Touched(s), us, clock)
           /\ Touched(s).user = s.user /\ Touched(s).mfa = s.mfa /\ Touched(s).made = s.made
<1>1. s.seen \in Nat /\ s.acted \in Nat /\ clock \in Nat /\ Coarse \in Nat \ {0}
  BY Times DEF Session
<1> DEFINE seen == IF clock - s.seen >= Coarse THEN clock ELSE s.seen
<1>2. /\ Touched(s) = [s EXCEPT !.seen = seen, !.acted = clock]
  BY DEF Touched
<1>3. seen \in Instants /\ seen <= clock /\ clock - seen < Coarse
  <2>1. s.seen \in Instants /\ s.seen <= clock
    BY <1>1 DEF Session, Sound
  <2> QED
    BY <1>1, <2>1
<1> HIDE DEF seen
<1>4. /\ Touched(s) \in Session
      /\ Touched(s).seen = seen /\ Touched(s).acted = clock /\ Touched(s).made = s.made
      /\ Touched(s).user = s.user /\ Touched(s).mfa = s.mfa
  BY <1>2, <1>3 DEF Session
<1> QED
  BY <1>1, <1>3, <1>4 DEF Sound

\* The request of an accepted session leaves its mark on that session alone.
LEMMA ServedFits ==
    ASSUME clock \in Instants, SessionsInv, NEW i \in Rows, Accepted(i)
    PROVE  /\ Fits(Served(i), users) /\ Follows(Served(i))
           /\ \A j \in Rows : Served(i)[j].user = sessions[j].user
<1>1. Served(i) = [sessions EXCEPT ![i] = Touched(sessions[i])]
  BY DEF Served
<1>2. /\ sessions \in [Rows -> Session]
      /\ \A j \in Rows : sessions[j] \in Session /\ Sound(sessions[j], users, clock)
  BY DEF SessionsInv, Fits
<1>3. /\ Touched(sessions[i]) \in Session /\ Sound(Touched(sessions[i]), users, clock)
      /\ Touched(sessions[i]).user = sessions[i].user
  BY <1>2, TouchedFits
<1>4. Served(i) \in [Rows -> Session]
  BY <1>1, <1>2, <1>3
<1>5. \A j \in Rows : Served(i)[j] = IF j = i THEN Touched(sessions[i]) ELSE sessions[j]
  BY <1>1, <1>2
<1> QED
  BY <1>2, <1>3, <1>4, <1>5 DEF Fits, Follows

\* Ending the sessions of u, whatever becomes of the account.
LEMMA EndedFits ==
    ASSUME clock \in Instants, NEW ss, NEW us, NEW u \in Users, Fits(ss, users), Follows(ss),
           \A v \in Users \ {u} : us[v] = users[v]
    PROVE  /\ Fits(Ended(ss, u, {}), us) /\ Follows(Ended(ss, u, {}))
           /\ \A j \in Rows : ss[j].user \in {u, NoUser} => Ended(ss, u, {})[j].user = NoUser
<1>1. /\ ss \in [Rows -> Session] /\ Over \in Session /\ Sound(Over, us, clock)
      /\ Over.user = NoUser /\ DOMAIN ss = Rows
  BY OverFits DEF Fits, Over
<1>2. \A j \in Rows : Ended(ss, u, {})[j] = IF ss[j].user = u THEN Over ELSE ss[j]
  BY <1>1 DEF Ended
<1>3. Ended(ss, u, {}) \in [Rows -> Session]
  BY <1>1 DEF Ended
<1>4. ASSUME NEW j \in Rows, ss[j].user # u
      PROVE  Sound(ss[j], us, clock)
  <2>1. ss[j] \in Session /\ Sound(ss[j], users, clock)
    BY <1>1 DEF Fits
  <2>2. ss[j].user # NoUser => us[ss[j].user] = users[ss[j].user]
    BY <1>4, <2>1 DEF Session
  <2> QED
    BY <2>1, <2>2 DEF Sound
<1> QED
  BY <1>1, <1>2, <1>3, <1>4 DEF Fits, Follows

\* Ending the sessions of u but for some of them, where the accounts stay.
LEMMA EndedButFits ==
    ASSUME clock \in Instants, NEW ss, NEW u, NEW keep, Fits(ss, users), Follows(ss)
    PROVE  Fits(Ended(ss, u, keep), users) /\ Follows(Ended(ss, u, keep))
<1>1. /\ ss \in [Rows -> Session] /\ Over \in Session /\ Sound(Over, users, clock)
      /\ Over.user = NoUser /\ DOMAIN ss = Rows
  BY OverFits DEF Fits, Over
<1>2. \A j \in Rows : Ended(ss, u, keep)[j] \in {Over, ss[j]}
  BY <1>1 DEF Ended
<1>3. Ended(ss, u, keep) \in [Rows -> Session]
  BY <1>1 DEF Ended
<1> QED
  BY <1>1, <1>2, <1>3 DEF Fits, Follows

\* A new session of an active account in a free row.
LEMMA WithFits ==
    ASSUME clock \in Instants, NEW ss, NEW us, Fits(ss, us), Follows(ss),
           \E k \in Rows : ss[k].user = NoUser,
           NEW u \in Users, NEW v \in BOOLEAN,
           us[u].status = "active", us[u].changed <= clock, v => us[u].mfa
    PROVE  Fits(With(ss, Opened(u, v)), us) /\ Follows(With(ss, Opened(u, v)))
<1> DEFINE s == Opened(u, v)
           k == CHOOSE j \in DOMAIN ss : ss[j].user = NoUser
<1>1. s \in Session /\ Sound(s, us, clock) /\ s.made = clock
  BY OpenedFits
<1>2. ss \in [Rows -> Session] /\ DOMAIN ss = Rows
  BY DEF Fits
<1>3. k \in Rows
  BY <1>2
<1>4. With(ss, s) = [ss EXCEPT ![k] = s]
  BY DEF With
<1> HIDE DEF s, k
<1>5. With(ss, s) \in [Rows -> Session] /\ \A j \in Rows : With(ss, s)[j] = IF j = k THEN s ELSE ss[j]
  BY <1>1, <1>2, <1>3, <1>4
<1>6. Fits(With(ss, s), us) /\ Follows(With(ss, s))
  BY <1>1, <1>5 DEF Fits, Follows
<1> QED
  BY <1>6 DEF s

-----------------------------------------------------------------------------
\* The accounts.

\* A request that takes no account or role of an account away keeps them manageable.
LEMMA ManageableKept ==
    ASSUME AccountsStayManageable, \E u \in Users : Exists(u),
           \A u \in Users : /\ users'[u].root = users[u].root
                            /\ users[u].root => /\ users'[u].status = users[u].status
                                                /\ users'[u].temporary => users[u].temporary
           ,
           \A u \in Users : users'[u].status # "absent" /\ ~ users'[u].root =>
               users'[u].roles # {} /\ \A r \in users'[u].roles : roles'[r] # "absent"
    PROVE  AccountsStayManageable'
<1>1. PICK u \in Users : /\ users[u].root /\ users[u].status = "active" /\ ~ users[u].temporary
                         /\ \A v \in Users \ {u} : ~ users[v].root
  BY DEF AccountsStayManageable
<1>2. /\ users'[u].root /\ users'[u].status = "active" /\ ~ users'[u].temporary
      /\ \A v \in Users \ {u} : ~ users'[v].root
  BY <1>1
<1> QED
  BY <1>2 DEF AccountsStayManageable, Exists

\* Whoever is served is signed in to an active account.
LEMMA ServedIsActive ==
    ASSUME Accounts, SessionsInv, NEW i \in Rows, Accepted(i)
    PROVE  /\ sessions[i] \in Session /\ sessions[i].user \in Users
           /\ users[sessions[i].user].status = "active"
           /\ Exists(sessions[i].user)
           /\ users[sessions[i].user] \in User
           /\ users[sessions[i].user].changed <= clock
BY DEF Accepted, Live, SessionsInv, Fits, Session, Exists, Accounts

\* A request that changes one account, and neither its root flag nor its roles, and
\* suspends no root.
LEMMA AccountChanged ==
    ASSUME Accounts, NEW u \in Users, Exists(u), NEW a \in User,
           users' = [users EXCEPT ![u] = a], roles' = roles, clock' = clock,
           resets' \in [Users -> {Never} \cup 0 .. MaxClock + ResetTTL],
           a.root = users[u].root, a.roles = users[u].roles, a.changed <= clock,
           a.root => a.status = users[u].status /\ (a.temporary => users[u].temporary)
    PROVE  Accounts'
<1>1. /\ users \in [Users -> User] /\ users' \in [Users -> User]
      /\ \A v \in Users : users'[v] = IF v = u THEN a ELSE users[v]
  BY DEF Accounts
<1>2. \A v \in Users : users'[v].changed <= clock' /\ (users'[v].root => Exists(v)')
  BY <1>1 DEF Accounts, Exists
<1>3. AccountsStayManageable
  BY DEF Accounts
<1>4. \A v \in Users : users'[v].status # "absent" /\ ~ users'[v].root =>
               users'[v].roles # {} /\ \A r \in users'[v].roles : roles'[r] # "absent"
  BY <1>1, <1>3 DEF AccountsStayManageable, Exists
<1>5. AccountsStayManageable'
  BY <1>1, <1>3, <1>4, ManageableKept
<1> QED
  BY <1>1, <1>2, <1>5 DEF Accounts

LEMMA AccountsSame ==
    ASSUME Accounts, users' = users, roles' = roles, clock' = clock,
           resets' \in [Users -> {Never} \cup 0 .. MaxClock + ResetTTL]
    PROVE  Accounts'
BY DEF Accounts, AccountsStayManageable, Exists

\* A change of the roles of one account, or of the roles that exist, by whoever is served.
LEMMA RolesChanged ==
    ASSUME Accounts, SessionsInv, NEW i \in Rows, Accepted(i), clock' = clock, resets' = resets,
           users' \in [Users -> User], roles' \in [Roles -> {"absent", "reads", "manages"}],
           \A u \in Users : /\ users'[u].root = users[u].root /\ users'[u].changed <= clock
                            /\ users[u].root => users'[u] = users[u],
           \A u \in Users : users'[u].status # "absent" /\ ~ users'[u].root =>
               users'[u].roles # {} /\ \A r \in users'[u].roles : roles'[r] # "absent"
    PROVE  Accounts'
<1>1. \E u \in Users : Exists(u)
  BY ServedIsActive
<1>2. AccountsStayManageable'
  <2>1. \A u \in Users : users[u].root => /\ users'[u].status = users[u].status
                                          /\ users'[u].temporary => users[u].temporary
    OBVIOUS
  <2> QED
    BY <1>1, <2>1, ManageableKept DEF Accounts
<1> QED
  BY <1>2 DEF Accounts, Exists

-----------------------------------------------------------------------------
\* One request at a time.

Kept == Accounts' /\ SessionsInv' /\ Follows(sessions')

LEMMA Settled ==
    ASSUME Fits(sessions', users'), Follows(sessions'), clock' = clock, Accounts'
    PROVE  Kept
BY DEF Kept, SessionsInv, Fits

LEMMA Standing ==
    ASSUME SessionsInv
    PROVE  /\ Fits(sessions, users) /\ Follows(sessions)
           /\ sessions \in [Rows -> Session] /\ DOMAIN sessions = Rows
BY DEF SessionsInv, Fits, Follows

\* In exchange for the session of a request comes a new one.
LEMMA Exchanged ==
    ASSUME clock \in Instants, NEW ss, NEW us, Fits(ss, us), Follows(ss),
           NEW i \in Rows, ss[i].user = NoUser, NEW u \in Users, us[u] \in User,
           us[u].status = "active", us[u].changed <= clock
    PROVE  /\ Fits(With(ss, Opened(u, us[u].mfa)), us) /\ Follows(With(ss, Opened(u, us[u].mfa)))
           /\ Fits(With(ss, Opened(u, FALSE)), us) /\ Follows(With(ss, Opened(u, FALSE)))
<1>1. us[u].mfa \in BOOLEAN
  BY DEF User
<1>2. \E k \in Rows : ss[k].user = NoUser
  OBVIOUS
<1>3. Fits(With(ss, Opened(u, us[u].mfa)), us) /\ Follows(With(ss, Opened(u, us[u].mfa)))
  BY <1>1, <1>2, WithFits
<1>4. Fits(With(ss, Opened(u, FALSE)), us) /\ Follows(With(ss, Opened(u, FALSE)))
  BY <1>2, WithFits
<1> QED
  BY <1>3, <1>4

LEMMA EndedHere ==
    ASSUME clock \in Instants, SessionsInv, NEW i \in Rows
    PROVE  /\ Fits([sessions EXCEPT ![i] = Over], users) /\ Follows([sessions EXCEPT ![i] = Over])
           /\ [sessions EXCEPT ![i] = Over][i].user = NoUser
<1>1. /\ Over \in Session /\ Sound(Over, users, clock) /\ Over.user = NoUser
  BY OverFits DEF Over
<1>2. /\ [sessions EXCEPT ![i] = Over] \in [Rows -> Session]
      /\ \A j \in Rows : [sessions EXCEPT ![i] = Over][j] = IF j = i THEN Over ELSE sessions[j]
  BY <1>1, Standing
<1> QED
  BY <1>1, <1>2 DEF SessionsInv, Fits, Follows

LEMMA SetupKeeps ==
    ASSUME Accounts, SessionsInv, NEW u \in Users, SetupRoot(u)
    PROVE  Kept
<1>1. PICK a : a = [NoAccount EXCEPT !.status = "active", !.root = TRUE, !.changed = clock]
  OBVIOUS
<1>2. /\ a \in User /\ a.status = "active" /\ a.root /\ a.changed = clock /\ ~ a.temporary
  BY <1>1 DEF NoAccount, User, Accounts
<1>3. /\ users' = [users EXCEPT ![u] = a] /\ roles' = roles /\ clock' = clock /\ resets' = resets
      /\ \A v \in Users : ~ Exists(v)
      /\ HasRoom /\ sessions' = With(sessions, Opened(u, FALSE))
  BY <1>1 DEF SetupRoot
<1>4. /\ users \in [Users -> User] /\ users' \in [Users -> User]
      /\ \A v \in Users : users'[v] = IF v = u THEN a ELSE users[v]
  BY <1>2, <1>3 DEF Accounts
<1>5. Accounts'
  <2>1. \A v \in Users : users'[v].changed <= clock' /\ (users'[v].root => Exists(v)')
    BY <1>2, <1>3, <1>4, Times DEF Accounts, Exists
  <2>2. AccountsStayManageable'
    BY <1>2, <1>3, <1>4 DEF AccountsStayManageable, Accounts, Exists
  <2> QED
    BY <1>3, <1>4, <2>1, <2>2 DEF Accounts
<1>6. Fits(sessions, users')
  <2>1. \A j \in Rows : sessions[j].user = NoUser
    BY <1>3, Standing DEF SessionsInv, Fits, Sound, Session, Exists
  <2> QED
    BY <2>1, Standing DEF Fits, Sound
<1>7. \E k \in Rows : sessions[k].user = NoUser
  BY <1>3, Standing DEF HasRoom, Live
<1>8. Fits(sessions', users') /\ Follows(sessions')
  <2>1. /\ users'[u].status = "active" /\ users'[u].changed <= clock /\ clock \in Instants
    BY <1>2, <1>4, Times DEF Accounts
  <2> QED
    BY <1>3, <1>6, <1>7, <2>1, Standing, WithFits
<1> QED
  BY <1>3, <1>5, <1>8, Settled

LEMMA LoginKeeps ==
    ASSUME Accounts, SessionsInv, NEW u \in Users, Login(u)
    PROVE  Kept
<1>1. /\ users' = users /\ roles' = roles /\ clock' = clock /\ resets' = resets
      /\ HasRoom /\ sessions' = With(sessions, Opened(u, users[u].mfa))
      /\ users[u].status = "active"
  BY DEF Login
<1>2. Accounts'
  BY <1>1, AccountsSame DEF Accounts
<1>3. \E k \in Rows : sessions[k].user = NoUser
  BY <1>1, Standing DEF HasRoom, Live
<1>4. users[u].changed <= clock /\ users[u].mfa \in BOOLEAN /\ clock \in Instants
  BY DEF Accounts, User
<1>5. Fits(sessions', users') /\ Follows(sessions')
  BY <1>1, <1>3, <1>4, Standing, WithFits
<1> QED
  BY <1>1, <1>2, <1>5, Settled

LEMMA VisitKeeps ==
    ASSUME Accounts, SessionsInv, NEW i \in Rows, Visit(i)
    PROVE  Kept
<1>1. /\ users' = users /\ roles' = roles /\ clock' = clock /\ resets' = resets
      /\ Accepted(i) /\ sessions' = Served(i)
  BY DEF Visit
<1>2. Accounts'
  BY <1>1, AccountsSame DEF Accounts
<1>3. Fits(sessions', users') /\ Follows(sessions')
  BY <1>1, ServedFits DEF Accounts
<1> QED
  BY <1>1, <1>2, <1>3, Settled

LEMMA LogoutKeeps ==
    ASSUME Accounts, SessionsInv, NEW i \in Rows, Logout(i)
    PROVE  Kept
<1>1. /\ users' = users /\ roles' = roles /\ clock' = clock /\ resets' = resets
      /\ sessions' = [sessions EXCEPT ![i] = Over]
  BY DEF Logout
<1>2. Accounts'
  BY <1>1, AccountsSame DEF Accounts
<1>3. Fits(sessions', users') /\ Follows(sessions')
  BY <1>1, EndedHere DEF Accounts
<1> QED
  BY <1>1, <1>2, <1>3, Settled

\* All the sessions of an account are ended and a new one is begun, under what the
\* account is now.
LEMMA Renewed ==
    ASSUME Accounts, SessionsInv, NEW i \in Rows, Accepted(i), NEW a \in User,
           a.status = "active", a.changed <= clock,
           users' = [users EXCEPT ![sessions[i].user] = a],
           NEW v \in BOOLEAN, v => a.mfa,
           sessions' = With(Ended(Served(i), sessions[i].user, {}), Opened(sessions[i].user, v))
    PROVE  Fits(sessions', users') /\ Follows(sessions')
<1> DEFINE u == sessions[i].user
           ss == Ended(Served(i), u, {})
<1>1. u \in Users /\ clock \in Instants /\ users \in [Users -> User]
  BY ServedIsActive DEF Accounts
<1>2. /\ users'[u] = a /\ \A w \in Users \ {u} : users'[w] = users[w]
  BY <1>1
<1>3. /\ Fits(Served(i), users) /\ Follows(Served(i)) /\ Served(i)[i].user = u
  BY <1>1, ServedFits
<1>4. sessions' = With(ss, Opened(u, v))
  OBVIOUS
<1> HIDE DEF u
<1>5. Fits(ss, users') /\ Follows(ss) /\ ss[i].user = NoUser
  BY <1>1, <1>2, <1>3, EndedFits
<1> HIDE DEF ss
<1>6. \E k \in Rows : ss[k].user = NoUser
  BY <1>5
<1>7. /\ users'[u].status = "active" /\ users'[u].changed <= clock
      /\ v => users'[u].mfa
  BY <1>2
<1>8. Fits(With(ss, Opened(u, v)), users') /\ Follows(With(ss, Opened(u, v)))
  BY <1>1, <1>5, <1>6, <1>7, WithFits
<1> QED
  BY <1>4, <1>8

LEMMA ChangePasswordKeeps ==
    ASSUME Accounts, SessionsInv, NEW i \in Rows, ChangePassword(i)
    PROVE  Kept
<1> DEFINE u == sessions[i].user
<1>1. /\ Accepted(i) /\ roles' = roles /\ clock' = clock /\ resets' = resets
      /\ users' = [users EXCEPT ![u].temporary = FALSE, ![u].changed = clock]
      /\ sessions' = With(Ended(Served(i), u, {}), Opened(u, users[u].mfa))
  BY DEF ChangePassword
<1>2. u \in Users /\ users[u].status = "active" /\ Exists(u) /\ users[u] \in User /\ clock \in Instants
      /\ users \in [Users -> User] /\ clock <= clock
  BY <1>1, ServedIsActive, Times DEF Accounts
<1>3. PICK a : a = [users[u] EXCEPT !.temporary = FALSE, !.changed = clock]
  OBVIOUS
<1> HIDE DEF u
<1>4. /\ a \in User /\ a.status = "active" /\ a.changed = clock /\ ~ a.temporary
      /\ a.root = users[u].root /\ a.roles = users[u].roles /\ a.mfa = users[u].mfa
      /\ users[u].mfa \in BOOLEAN
  BY <1>2, <1>3 DEF User
<1>5. users' = [users EXCEPT ![u] = a]
  BY <1>1, <1>2, <1>3
<1>6. Accounts'
  BY <1>1, <1>2, <1>4, <1>5, AccountChanged DEF Accounts
<1>7. Fits(sessions', users') /\ Follows(sessions')
  BY <1>1, <1>2, <1>4, <1>5, Renewed DEF u
<1> QED
  BY <1>1, <1>6, <1>7, Settled

LEMMA DisableMfaKeeps ==
    ASSUME Accounts, SessionsInv, NEW i \in Rows, DisableMfa(i)
    PROVE  Kept
<1> DEFINE u == sessions[i].user
<1>1. /\ Accepted(i) /\ roles' = roles /\ clock' = clock /\ resets' = resets
      /\ users' = [users EXCEPT ![u].mfa = FALSE]
      /\ sessions' = With(Ended(Served(i), u, {}), Opened(u, FALSE))
  BY DEF DisableMfa
<1>2. u \in Users /\ users[u].status = "active" /\ Exists(u) /\ users[u] \in User
      /\ users \in [Users -> User] /\ users[u].changed <= clock
  BY <1>1, ServedIsActive DEF Accounts
<1>3. PICK a : a = [users[u] EXCEPT !.mfa = FALSE]
  OBVIOUS
<1> HIDE DEF u
<1>4. /\ a \in User /\ a.status = users[u].status /\ a.changed = users[u].changed
      /\ a.temporary = users[u].temporary
      /\ a.root = users[u].root /\ a.roles = users[u].roles
  BY <1>2, <1>3 DEF User
<1>5. users' = [users EXCEPT ![u] = a]
  BY <1>1, <1>2, <1>3
<1>6. Accounts'
  BY <1>1, <1>2, <1>4, <1>5, AccountChanged DEF Accounts
<1>7. Fits(sessions', users') /\ Follows(sessions')
  BY <1>1, <1>2, <1>4, <1>5, Renewed DEF u
<1> QED
  BY <1>1, <1>6, <1>7, Settled

\* The session that is served is marked, and its account may gain a second factor.
LEMMA Marked ==
    ASSUME clock \in Instants, SessionsInv, NEW i \in Rows, Accepted(i),
           NEW w \in Session, w.user = sessions[i].user, w.made = sessions[i].made,
           w.seen = Touched(sessions[i]).seen, w.acted = Touched(sessions[i]).acted,
           NEW us, \A u \in Users : /\ us[u].status = users[u].status
                                    /\ us[u].changed = users[u].changed
                                    /\ users[u].mfa => us[u].mfa
           ,
           w.mfa => us[w.user].mfa,
           NEW ss, ss = [sessions EXCEPT ![i] = w]
    PROVE  Fits(ss, us) /\ Follows(ss)
<1>1. /\ sessions \in [Rows -> Session] /\ ss \in [Rows -> Session]
      /\ \A j \in Rows : ss[j] = IF j = i THEN w ELSE sessions[j]
      /\ \A j \in Rows : sessions[j] \in Session /\ Sound(sessions[j], users, clock)
  BY Standing DEF Fits
<1>2. Sound(Touched(sessions[i]), users, clock) /\ Touched(sessions[i]).user = sessions[i].user
      /\ Touched(sessions[i]).made = sessions[i].made
  BY <1>1, TouchedFits
<1>3. w.user \in Users
  BY <1>1 DEF Accepted, Live, Session
<1>4. Sound(w, us, clock)
  BY <1>2, <1>3 DEF Sound
<1>5. ASSUME NEW j \in Rows PROVE Sound(sessions[j], us, clock)
  <2>1. sessions[j].user # NoUser => sessions[j].user \in Users
    BY <1>1 DEF Session
  <2> QED
    BY <1>1, <2>1 DEF Sound
<1> QED
  BY <1>1, <1>4, <1>5 DEF Fits, Follows

LEMMA BeginMfaSetupKeeps ==
    ASSUME Accounts, SessionsInv, NEW i \in Rows, BeginMfaSetup(i)
    PROVE  Kept
<1>1. /\ users' = users /\ roles' = roles /\ clock' = clock /\ resets' = resets
      /\ Accepted(i) /\ sessions' = [Served(i) EXCEPT ![i].pending = TRUE]
      /\ clock \in Instants
  BY DEF BeginMfaSetup, Accounts
<1>2. Accounts'
  BY <1>1, AccountsSame DEF Accounts
<1>3. /\ Touched(sessions[i]) \in Session /\ Sound(Touched(sessions[i]), users, clock)
      /\ Touched(sessions[i]).user = sessions[i].user /\ Touched(sessions[i]).made = sessions[i].made
      /\ sessions[i].user \in Users
  BY <1>1, TouchedFits, ServedIsActive DEF SessionsInv, Fits
<1>4. PICK w : w = [Touched(sessions[i]) EXCEPT !.pending = TRUE]
  OBVIOUS
<1>5. sessions' = [sessions EXCEPT ![i] = w]
  BY <1>1, <1>4, Standing DEF Served
<1>6. /\ w \in Session /\ w.user = sessions[i].user /\ w.made = sessions[i].made
      /\ w.seen = Touched(sessions[i]).seen /\ w.acted = Touched(sessions[i]).acted
      /\ w.mfa = Touched(sessions[i]).mfa
  BY <1>3, <1>4 DEF Session
<1>7. w.mfa => users[w.user].mfa
  BY <1>3, <1>6, NoUserAssumption DEF Sound
<1>8. Fits(sessions', users') /\ Follows(sessions')
  BY <1>1, <1>5, <1>6, <1>7, Marked
<1> QED
  BY <1>1, <1>2, <1>8, Settled

LEMMA ConfirmMfaSetupKeeps ==
    ASSUME Accounts, SessionsInv, NEW i \in Rows, ConfirmMfaSetup(i)
    PROVE  Kept
<1> DEFINE u == sessions[i].user
<1>1. /\ Accepted(i) /\ roles' = roles /\ clock' = clock /\ resets' = resets
      /\ users' = [users EXCEPT ![u].mfa = TRUE]
      /\ sessions' = [Served(i) EXCEPT ![i].pending = FALSE, ![i].mfa = TRUE, ![i].reauth = clock]
      /\ clock \in Instants
  BY DEF ConfirmMfaSetup, Accounts
<1>2. u \in Users /\ users[u].status = "active" /\ Exists(u) /\ users[u] \in User
      /\ users \in [Users -> User] /\ users[u].changed <= clock
  BY <1>1, ServedIsActive DEF Accounts
<1>3. /\ Touched(sessions[i]) \in Session
      /\ Touched(sessions[i]).user = u /\ Touched(sessions[i]).made = sessions[i].made
  BY <1>1, TouchedFits DEF SessionsInv, Fits
<1> HIDE DEF u
<1>4. PICK a : a = [users[u] EXCEPT !.mfa = TRUE]
  OBVIOUS
<1>5. /\ a \in User /\ a.status = users[u].status /\ a.changed = users[u].changed
      /\ a.temporary = users[u].temporary /\ a.mfa
      /\ a.root = users[u].root /\ a.roles = users[u].roles
  BY <1>2, <1>4 DEF User
<1>6. users' = [users EXCEPT ![u] = a]
  BY <1>1, <1>2, <1>4
<1>7. Accounts'
  BY <1>1, <1>2, <1>5, <1>6, AccountChanged DEF Accounts
<1>8. PICK w : w = [Touched(sessions[i]) EXCEPT !.pending = FALSE, !.mfa = TRUE, !.reauth = clock]
  OBVIOUS
<1>9. sessions' = [sessions EXCEPT ![i] = w]
  BY <1>1, <1>8, Standing DEF Served
<1>10. /\ w \in Session /\ w.user = u /\ w.made = sessions[i].made
       /\ w.seen = Touched(sessions[i]).seen /\ w.acted = Touched(sessions[i]).acted
  BY <1>1, <1>3, <1>8 DEF Session
<1>11. /\ \A v \in Users : /\ users'[v].status = users[v].status
                           /\ users'[v].changed = users[v].changed
                           /\ users[v].mfa => users'[v].mfa
       /\ users'[u].mfa
  BY <1>2, <1>5, <1>6
<1>12. Fits(sessions', users') /\ Follows(sessions')
  <2>1. w.user = sessions[i].user /\ (w.mfa => users'[w.user].mfa)
    BY <1>10, <1>11 DEF u
  <2>2. clock \in Instants /\ Accepted(i)
    BY <1>1
  <2> QED
    BY <1>9, <1>10, <1>11, <2>1, <2>2, Marked
<1> QED
  BY <1>1, <1>7, <1>12, Settled

LEMMA ReauthenticateKeeps ==
    ASSUME Accounts, SessionsInv, NEW i \in Rows, Reauthenticate(i)
    PROVE  Kept
<1> DEFINE u == sessions[i].user
           ss == [sessions EXCEPT ![i] = Over]
<1>1. /\ Accepted(i) /\ users' = users /\ roles' = roles /\ clock' = clock /\ resets' = resets
      /\ sessions' = With(ss, Opened(u, users[u].mfa))
      /\ clock \in Instants
  BY DEF Reauthenticate, Accounts
<1>2. u \in Users /\ users[u].status = "active" /\ users[u] \in User /\ users[u].changed <= clock
  BY <1>1, ServedIsActive
<1>3. Fits(ss, users) /\ Follows(ss) /\ ss[i].user = NoUser
  BY <1>1, EndedHere
<1> HIDE DEF ss, u
<1>4. Accounts'
  BY <1>1, AccountsSame DEF Accounts
<1>5. Fits(sessions', users') /\ Follows(sessions')
  BY <1>1, <1>2, <1>3, Exchanged
<1> QED
  BY <1>1, <1>4, <1>5, Settled

LEMMA SignOutKeeps ==
    ASSUME Accounts, SessionsInv, NEW i \in Rows, NEW keep, SignOut(i, keep)
    PROVE  Kept
<1>1. /\ Accepted(i) /\ users' = users /\ roles' = roles /\ clock' = clock /\ resets' = resets
      /\ sessions' = Ended(Served(i), sessions[i].user, keep)
      /\ clock \in Instants
  BY DEF SignOut, Accounts
<1>2. Accounts'
  BY <1>1, AccountsSame DEF Accounts
<1>3. Fits(Served(i), users) /\ Follows(Served(i))
  BY <1>1, ServedFits
<1>4. Fits(sessions', users') /\ Follows(sessions')
  BY <1>1, <1>3, EndedButFits
<1> QED
  BY <1>1, <1>2, <1>4, Settled

LEMMA RequestResetKeeps ==
    ASSUME Accounts, SessionsInv, NEW u \in Users, RequestPasswordReset(u)
    PROVE  Kept
<1>1. /\ users' = users /\ roles' = roles /\ clock' = clock /\ sessions' = sessions
      /\ resets' = [resets EXCEPT ![u] = clock + ResetTTL]
  BY DEF RequestPasswordReset
<1>2. clock + ResetTTL \in 0 .. MaxClock + ResetTTL
  BY Times DEF Accounts, Instants
<1>3. resets' \in [Users -> {Never} \cup 0 .. MaxClock + ResetTTL]
  BY <1>1, <1>2 DEF Accounts
<1>4. Accounts'
  BY <1>1, <1>3, AccountsSame
<1>5. Fits(sessions', users') /\ Follows(sessions')
  BY <1>1, Standing
<1> QED
  BY <1>1, <1>4, <1>5, Settled

LEMMA ConfirmResetKeeps ==
    ASSUME Accounts, SessionsInv, NEW u \in Users, ConfirmPasswordReset(u)
    PROVE  Kept
<1>1. /\ users[u].status = "active" /\ roles' = roles /\ clock' = clock
      /\ users' = [users EXCEPT ![u].temporary = FALSE, ![u].changed = clock]
      /\ resets' = [resets EXCEPT ![u] = Never]
      /\ sessions' = Ended(sessions, u, {})
  BY DEF ConfirmPasswordReset
<1>2. /\ Exists(u) /\ users[u] \in User /\ users \in [Users -> User]
      /\ clock \in Instants /\ clock <= clock
  BY <1>1, Times DEF Accounts, Exists
<1>3. PICK a : a = [users[u] EXCEPT !.temporary = FALSE, !.changed = clock]
  OBVIOUS
<1>4. /\ a \in User /\ a.status = users[u].status /\ a.changed = clock /\ ~ a.temporary
      /\ a.root = users[u].root /\ a.roles = users[u].roles
  BY <1>2, <1>3 DEF User
<1>5. users' = [users EXCEPT ![u] = a]
  BY <1>1, <1>2, <1>3
<1>6. resets' \in [Users -> {Never} \cup 0 .. MaxClock + ResetTTL]
  BY <1>1 DEF Accounts
<1>7. Accounts'
  BY <1>1, <1>2, <1>4, <1>5, <1>6, AccountChanged
<1>8. \A v \in Users \ {u} : users'[v] = users[v]
  BY <1>2, <1>5
<1>9. Fits(sessions', users') /\ Follows(sessions')
  BY <1>1, <1>2, <1>8, Standing, EndedFits
<1> QED
  BY <1>1, <1>7, <1>9, Settled

-----------------------------------------------------------------------------
\* Administration.

LEMMA Administrator ==
    ASSUME Accounts, SessionsInv, NEW i \in Rows, MayAdminister(i)
    PROVE  /\ Accepted(i) /\ Fits(Served(i), users) /\ Follows(Served(i))
           /\ clock \in Instants /\ \E u \in Users : Exists(u)
BY ServedFits, ServedIsActive DEF MayAdminister, Accounts

LEMMA SaveRoleKeeps ==
    ASSUME Accounts, SessionsInv, NEW i \in Rows, NEW r \in Roles,
           NEW grant \in {"absent", "reads", "manages"}, SaveRole(i, r, grant),
           grant = "absent" => \A u \in Users : r \notin users[u].roles
    PROVE  Kept
<1>1. /\ MayAdminister(i) /\ roles' = [roles EXCEPT ![r] = grant] /\ users' = users
      /\ clock' = clock /\ resets' = resets /\ sessions' = Served(i)
  BY DEF SaveRole
<1>2. Accepted(i) /\ Fits(sessions', users') /\ Follows(sessions')
  BY <1>1, Administrator
<1>3. /\ roles' \in [Roles -> {"absent", "reads", "manages"}]
      /\ \A q \in Roles : roles'[q] = IF q = r THEN grant ELSE roles[q]
  BY <1>1 DEF Accounts
<1>4. \A u \in Users : users'[u].status # "absent" /\ ~ users'[u].root =>
          users'[u].roles # {} /\ \A q \in users'[u].roles : roles'[q] # "absent"
  <2>1. \A u \in Users : users[u].status # "absent" /\ ~ users[u].root =>
            users[u].roles # {} /\ \A q \in users[u].roles : roles[q] # "absent"
    BY DEF Accounts, AccountsStayManageable, Exists
  <2>2. \A u \in Users : users[u].roles \subseteq Roles
    BY DEF Accounts, User
  <2> QED
    BY <1>1, <1>3, <2>1, <2>2
<1>5. /\ users' \in [Users -> User]
      /\ \A u \in Users : /\ users'[u].root = users[u].root /\ users'[u].changed <= clock
                          /\ users[u].root => users'[u] = users[u]
  BY <1>1 DEF Accounts
<1>6. Accounts'
  BY <1>1, <1>2, <1>3, <1>4, <1>5, RolesChanged
<1> QED
  BY <1>1, <1>2, <1>6, Settled

LEMMA RoleRequestKeeps ==
    ASSUME Accounts, SessionsInv, NEW i \in Rows, RoleRequest(i)
    PROVE  Kept
<1>1. ASSUME NEW r \in Roles, NEW g \in {"reads", "manages"}, CreateRole(i, r, g) \/ UpdateRole(i, r, g)
      PROVE  Kept
  BY <1>1, SaveRoleKeeps DEF CreateRole, UpdateRole
<1>2. ASSUME NEW r \in Roles, DeleteRole(i, r)
      PROVE  Kept
  BY <1>2, SaveRoleKeeps DEF DeleteRole
<1> QED
  BY <1>1, <1>2 DEF RoleRequest

\* An administrator changes an account that is not the root's.
LEMMA AccountAdministered ==
    ASSUME Accounts, SessionsInv, NEW i \in Rows, MayAdminister(i), NEW u \in Users, NEW a \in User,
           ~ users[u].root, ~ a.root, a.changed <= clock,
           users' = [users EXCEPT ![u] = a], roles' = roles, clock' = clock, resets' = resets,
           a.status # "absent" => a.roles # {} /\ \A r \in a.roles : roles[r] # "absent"
    PROVE  Accounts'
<1>1. /\ users' \in [Users -> User]
      /\ \A v \in Users : users'[v] = IF v = u THEN a ELSE users[v]
  BY DEF Accounts
<1>2. \A v \in Users : /\ users'[v].root = users[v].root /\ users'[v].changed <= clock
                       /\ users[v].root => users'[v] = users[v]
  <2>1. users[u].root = FALSE /\ a.root = FALSE
    BY DEF Accounts, User
  <2> QED
    BY <1>1, <2>1 DEF Accounts
<1>3. \A v \in Users : users'[v].status # "absent" /\ ~ users'[v].root =>
          users'[v].roles # {} /\ \A q \in users'[v].roles : roles'[q] # "absent"
  <2>1. \A v \in Users : users[v].status # "absent" /\ ~ users[v].root =>
            users[v].roles # {} /\ \A q \in users[v].roles : roles[q] # "absent"
    BY DEF Accounts, AccountsStayManageable, Exists
  <2> QED
    BY <1>1, <2>1
<1>4. roles' \in [Roles -> {"absent", "reads", "manages"}] /\ Accepted(i)
  BY Administrator DEF Accounts
<1> QED
  BY <1>1, <1>2, <1>3, <1>4, RolesChanged

\* The sessions of an account that is not active, or stays as it is but for its roles,
\* fit what becomes of it.
LEMMA OthersFit ==
    ASSUME NEW ss, Fits(ss, users), NEW us, NEW u \in Users,
           \A v \in Users \ {u} : us[v] = users[v],
           users[u].status = "active" => /\ us[u].status = "active" /\ us[u].mfa = users[u].mfa
                                         /\ us[u].changed = users[u].changed
    PROVE  Fits(ss, us)
<1>1. ASSUME NEW j \in Rows PROVE Sound(ss[j], us, clock)
  <2>1. ss[j] \in Session /\ Sound(ss[j], users, clock)
    BY DEF Fits
  <2>2. ss[j].user # NoUser => ss[j].user \in Users /\ users[ss[j].user].status = "active"
    BY <2>1 DEF Session, Sound
  <2>3. ss[j].user # NoUser => /\ us[ss[j].user].status = "active"
                               /\ us[ss[j].user].changed = users[ss[j].user].changed
                               /\ us[ss[j].user].mfa = users[ss[j].user].mfa
    BY <2>2
  <2> QED
    BY <2>1, <2>3 DEF Sound
<1> QED
  BY <1>1 DEF Fits

LEMMA CreateUserKeeps ==
    ASSUME Accounts, SessionsInv, NEW i \in Rows, NEW u \in Users, NEW R \in SUBSET Roles,
           CreateUser(i, u, R)
    PROVE  Kept
<1>1. PICK a : a = [NoAccount EXCEPT !.status = "active", !.temporary = TRUE, !.roles = R]
  OBVIOUS
<1>2. /\ MayAdminister(i) /\ ~ Exists(u) /\ Assignable(R)
      /\ users' = [users EXCEPT ![u] = a] /\ sessions' = Served(i)
      /\ roles' = roles /\ clock' = clock /\ resets' = resets
  BY <1>1 DEF CreateUser
<1>3. a \in User /\ ~ a.root /\ a.changed = 0 /\ a.roles = R
  BY <1>1, Times DEF NoAccount, User
<1>4. 0 <= clock /\ ~ users[u].root
  BY <1>2, Times DEF Accounts
<1>5. Accounts'
  BY <1>2, <1>3, <1>4, AccountAdministered DEF Assignable
<1>6. \A v \in Users \ {u} : users'[v] = users[v]
  BY <1>2 DEF Accounts
<1>7. Fits(sessions', users') /\ Follows(sessions')
  <2>1. Fits(sessions', users) /\ Follows(sessions')
    BY <1>2, Administrator
  <2>2. users[u].status # "active"
    BY <1>2 DEF Exists
  <2> QED
    BY <1>6, <2>1, <2>2, OthersFit
<1> QED
  BY <1>2, <1>5, <1>7, Settled

LEMMA ChangeRolesKeeps ==
    ASSUME Accounts, SessionsInv, NEW i \in Rows, NEW u \in Users, NEW R \in SUBSET Roles,
           ChangeRoles(i, u, R)
    PROVE  Kept
<1>1. /\ MayAdminister(i) /\ ~ users[u].root /\ Assignable(R)
      /\ users' = [users EXCEPT ![u].roles = R] /\ sessions' = Served(i)
      /\ roles' = roles /\ clock' = clock /\ resets' = resets
  BY DEF ChangeRoles
<1>2. users \in [Users -> User] /\ users[u] \in User /\ users[u].changed <= clock
  BY DEF Accounts
<1>3. PICK a : a = [users[u] EXCEPT !.roles = R]
  OBVIOUS
<1>4. /\ a \in User /\ a.status = users[u].status /\ a.changed = users[u].changed
      /\ a.mfa = users[u].mfa /\ a.root = users[u].root /\ a.roles = R
  BY <1>2, <1>3 DEF User
<1>5. users' = [users EXCEPT ![u] = a]
  BY <1>1, <1>2, <1>3
<1>6. Accounts'
  BY <1>1, <1>2, <1>4, <1>5, AccountAdministered DEF Assignable
<1>7. \A v \in Users \ {u} : users'[v] = users[v]
  BY <1>2, <1>5
<1>8. Fits(sessions', users') /\ Follows(sessions')
  <2>1. Fits(sessions', users) /\ Follows(sessions')
    BY <1>1, Administrator
  <2>2. users'[u] = a
    BY <1>2, <1>5
  <2> QED
    BY <1>4, <1>7, <2>1, <2>2, OthersFit
<1> QED
  BY <1>1, <1>6, <1>8, Settled

\* Of an account that an administrator changes, the sessions are ended.
LEMMA SuspendedKeeps ==
    ASSUME Accounts, SessionsInv, NEW i \in Rows, MayAdminister(i), NEW u \in Users, Exists(u),
           ~ users[u].root, NEW a \in User, a.root = users[u].root, a.roles = users[u].roles,
           a.changed <= clock, users' = [users EXCEPT ![u] = a],
           roles' = roles, clock' = clock, resets' = resets,
           sessions' = Ended(Served(i), u, {})
    PROVE  Kept
<1>1. users[u].roles # {} /\ \A r \in users[u].roles : roles[r] # "absent"
  BY DEF Accounts, AccountsStayManageable
<1>2. Accounts'
  BY <1>1, AccountAdministered
<1>3. \A v \in Users \ {u} : users'[v] = users[v]
  BY DEF Accounts
<1>4. Fits(Served(i), users) /\ Follows(Served(i)) /\ clock \in Instants
  BY Administrator
<1>5. Fits(sessions', users') /\ Follows(sessions')
  BY <1>3, <1>4, EndedFits
<1> QED
  BY <1>2, <1>5, Settled

LEMMA ChangeStatusKeeps ==
    ASSUME Accounts, SessionsInv, NEW i \in Rows, NEW u \in Users,
           NEW status \in {"active", "inactive"}, ChangeStatus(i, u, status)
    PROVE  Kept
<1>1. /\ MayAdminister(i) /\ Exists(u) /\ ~ users[u].root
      /\ users' = [users EXCEPT ![u].status = status]
      /\ sessions' = IF status = "active" THEN Served(i) ELSE Ended(Served(i), u, {})
      /\ roles' = roles /\ clock' = clock /\ resets' = resets
  BY DEF ChangeStatus
<1>2. users \in [Users -> User] /\ users[u] \in User /\ users[u].changed <= clock
  BY DEF Accounts
<1>3. PICK a : a = [users[u] EXCEPT !.status = status]
  OBVIOUS
<1>4. /\ a \in User /\ a.status = status /\ a.changed = users[u].changed
      /\ a.mfa = users[u].mfa /\ a.root = users[u].root /\ a.roles = users[u].roles
  BY <1>2, <1>3 DEF User
<1>5. users' = [users EXCEPT ![u] = a]
  BY <1>1, <1>2, <1>3
<1>6. CASE status # "active"
  BY <1>1, <1>2, <1>4, <1>5, <1>6, SuspendedKeeps
<1>7. CASE status = "active"
  <2>1. users[u].roles # {} /\ \A r \in users[u].roles : roles[r] # "absent"
    BY <1>1 DEF Accounts, AccountsStayManageable
  <2>2. Accounts'
    BY <1>1, <1>2, <1>4, <1>5, <2>1, AccountAdministered
  <2>3. Fits(sessions', users) /\ Follows(sessions')
    BY <1>1, <1>7, Administrator
  <2>4. users'[u] = a /\ \A v \in Users \ {u} : users'[v] = users[v]
    BY <1>2, <1>5
  <2>5. Fits(sessions', users')
    BY <1>4, <1>7, <2>3, <2>4, OthersFit
  <2> QED
    BY <1>1, <2>2, <2>3, <2>5, Settled
<1> QED
  BY <1>6, <1>7

LEMMA ResetUserPasswordKeeps ==
    ASSUME Accounts, SessionsInv, NEW i \in Rows, NEW u \in Users, ResetUserPassword(i, u)
    PROVE  Kept
<1>1. /\ MayAdminister(i) /\ Exists(u) /\ ~ users[u].root
      /\ users' = [users EXCEPT ![u].temporary = TRUE, ![u].changed = clock]
      /\ sessions' = Ended(Served(i), u, {})
      /\ roles' = roles /\ clock' = clock /\ resets' = resets
  BY DEF ResetUserPassword
<1>2. users \in [Users -> User] /\ users[u] \in User /\ clock <= clock /\ clock \in Instants
  BY Times DEF Accounts
<1>3. PICK a : a = [users[u] EXCEPT !.temporary = TRUE, !.changed = clock]
  OBVIOUS
<1>4. a \in User /\ a.changed = clock /\ a.root = users[u].root /\ a.roles = users[u].roles
  BY <1>2, <1>3 DEF User
<1>5. users' = [users EXCEPT ![u] = a]
  BY <1>1, <1>2, <1>3
<1> QED
  BY <1>1, <1>2, <1>4, <1>5, SuspendedKeeps

LEMMA UserRequestKeeps ==
    ASSUME Accounts, SessionsInv, NEW i \in Rows, UserRequest(i)
    PROVE  Kept
BY CreateUserKeeps, ChangeRolesKeeps, ChangeStatusKeeps, ResetUserPasswordKeeps DEF UserRequest

LEMMA FailsKeeps ==
    ASSUME Accounts, SessionsInv, NEW u \in Users, LoginFails(u)
    PROVE  Kept
<1>1. users' = users /\ roles' = roles /\ clock' = clock /\ sessions' = sessions /\ resets' = resets
  BY DEF LoginFails
<1>2. Accounts'
  BY <1>1, AccountsSame DEF Accounts
<1>3. Fits(sessions', users') /\ Follows(sessions')
  BY <1>1, Standing
<1> QED
  BY <1>1, <1>2, <1>3, Settled

LEMMA PassTimeKeeps ==
    ASSUME Accounts, SessionsInv, PassTime
    PROVE  Kept
<1>1. /\ clock \in Instants /\ clock' = clock + 1 /\ clock' \in Instants
      /\ users' = users /\ roles' = roles /\ sessions' = sessions
      /\ resets' = [u \in Users |-> IF resets[u] <= clock' THEN Never ELSE resets[u]]
  BY Times DEF PassTime, Accounts, Instants
<1>2. resets' \in [Users -> {Never} \cup 0 .. MaxClock + ResetTTL]
  BY <1>1 DEF Accounts
<1>3. \A u \in Users : users[u].changed <= clock'
  <2>1. ASSUME NEW u \in Users PROVE users[u].changed <= clock'
    <3>1. users[u].changed \in Instants /\ users[u].changed <= clock
      BY DEF Accounts, User
    <3>2. users[u].changed \in Nat /\ clock \in Nat
      BY <1>1, <3>1, Times
    <3> QED
      BY <1>1, <3>1, <3>2
  <2> QED
    BY <2>1
<1>4. Accounts'
  BY <1>1, <1>2, <1>3 DEF Accounts, AccountsStayManageable, Exists
<1>5. ASSUME NEW j \in Rows PROVE Sound(sessions[j], users, clock')
  <2>1. sessions[j] \in Session /\ Sound(sessions[j], users, clock)
    BY Standing DEF Fits
  <2>2. /\ sessions[j].made \in Nat /\ sessions[j].acted \in Nat /\ clock \in Nat
    BY <1>1, <2>1, Times DEF Session
  <2>3. sessions[j].made <= clock' /\ sessions[j].acted <= clock'
    BY <1>1, <2>1, <2>2 DEF Sound
  <2> QED
    BY <2>1, <2>3 DEF Sound
<1>6. SessionsInv'
  BY <1>1, <1>5, Standing DEF SessionsInv, Fits
<1> QED
  BY <1>1, <1>4, <1>6, Standing DEF Kept, Follows

\* Whatever is requested, and however the time passes.
LEMMA StepKeeps ==
    ASSUME Accounts, SessionsInv, [HANext]_haVars
    PROVE  Kept
<1>1. DOMAIN sessions = Rows
  BY Standing
<1>2. CASE UNCHANGED haVars
  <2>1. users' = users /\ roles' = roles /\ clock' = clock /\ sessions' = sessions /\ resets' = resets
    BY <1>2 DEF haVars
  <2>2. Accounts'
    BY <2>1, AccountsSame DEF Accounts
  <2> QED
    BY <2>1, <2>2, Standing, Settled
<1>3. ASSUME NEW u \in Users, Anonymous(u) PROVE Kept
  BY <1>3, SetupKeeps, FailsKeeps, LoginKeeps, RequestResetKeeps, ConfirmResetKeeps DEF Anonymous
<1>4. ASSUME NEW i \in Rows,
             \/ OwnRequest(i) \/ FactorRequest(i) \/ SignOut(i, {}) \/ SignOut(i, {i})
             \/ RoleRequest(i) \/ UserRequest(i)
      PROVE  Kept
  <2>1. OwnRequest(i) => Kept
    BY VisitKeeps, LogoutKeeps, ChangePasswordKeeps DEF OwnRequest
  <2>2. FactorRequest(i) => Kept
    BY BeginMfaSetupKeeps, ConfirmMfaSetupKeeps, DisableMfaKeeps, ReauthenticateKeeps DEF FactorRequest
  <2> QED
    BY <1>4, <2>1, <2>2, SignOutKeeps, RoleRequestKeeps, UserRequestKeeps
<1> QED
  BY <1>1, <1>2, <1>3, <1>4, PassTimeKeeps DEF HANext

-----------------------------------------------------------------------------
\* The throttle.

\* The counter t of an account whose sign-ins failed at the instants m: since is the
\* first failure of its window, the MaxFailures - 1 before the window are Window older
\* than that, and only a full counter blocks, from its last failure on.
Spaced(m, k, d) == k > d => m[k] - m[k - d] >= Window

Counted(t, m, now) ==
    LET n == Len(m) first == Len(m) - t.count + 1 IN
    /\ t \in [count : Nat, since : Nat, locked : Nat] /\ m \in Seq(Nat)
    /\ \A k \in 1 .. n : m[k] <= now
    /\ \A j, k \in 1 .. n : j <= k => m[j] <= m[k]
    /\ t.count <= n /\ t.count <= MaxFailures /\ (t.count = 0 => n = 0) /\ t.since <= now
    /\ t.count > 0 => /\ m[first] = t.since /\ m[n] - t.since < Window
                      /\ Spaced(m, first, MaxFailures - 1)
    /\ t.locked = IF t.count = MaxFailures THEN m[n] + Window ELSE 0
    /\ \A k \in 1 .. n : Spaced(m, k, 2 * MaxFailures - 2)

ThrottleInv ==
    /\ throttle \in [Users -> [count : Nat, since : Nat, locked : Nat]]
    /\ misses \in [Users -> Seq(Nat)]
    /\ \A u \in Users : Counted(throttle[u], misses[u], clock)

LEMMA NothingCounted == ASSUME clock \in Nat PROVE Counted(NoFailures, <<>>, clock)
<1>1. Len(<<>>) = 0 /\ <<>> \in Seq(Nat)
  OBVIOUS
<1>2. /\ NoFailures \in [count : Nat, since : Nat, locked : Nat]
      /\ NoFailures.count = 0 /\ NoFailures.since = 0 /\ NoFailures.locked = 0
  BY DEF NoFailures
<1> QED
  BY <1>1, <1>2, Times DEF Counted

LEMMA CountsOn ==
    ASSUME NEW t, NEW m, NEW now \in Nat, NEW then \in Nat, Counted(t, m, now), now <= then
    PROVE  Counted(t, m, then)
<1>1. m \in Seq(Nat) /\ t \in [count : Nat, since : Nat, locked : Nat]
  BY DEF Counted
<1> DEFINE since == t.since
<1>3. since \in Nat /\ \A k \in 1 .. Len(m) : m[k] \in Nat
  BY <1>1
<1>4. since <= now /\ \A k \in 1 .. Len(m) : m[k] <= now
  BY DEF Counted
<1>2. /\ \A k \in 1 .. Len(m) : m[k] <= then
      /\ t.since <= then
  <2> HIDE DEF since
  <2>1. since <= then /\ \A k \in 1 .. Len(m) : m[k] <= then
    BY <1>3, <1>4
  <2> QED
    BY <2>1 DEF since
<1> QED
  BY <1>2 DEF Counted

\* One more failure, of an account that is not blocked.
LEMMA OneMore ==
    ASSUME clock \in Nat, NEW t, NEW m, Counted(t, m, clock), t.locked <= clock
    PROVE  Counted(Failure(t), Append(m, clock), clock)
<1> DEFINE n == Len(m)
           p == Append(m, clock)
           M == MaxFailures
           c == t.count
           since == t.since
           W == Window
           fresh == c = 0 \/ clock - since >= W
           f == Failure(t)
<1>t. t \in [count : Nat, since : Nat, locked : Nat] /\ m \in Seq(Nat)
  BY DEF Counted
<1>m. /\ \A k \in 1 .. n : m[k] <= clock
      /\ \A j, k \in 1 .. n : j <= k => m[j] <= m[k]
  BY DEF Counted
<1>0. /\ c <= n /\ c <= M /\ (c = 0 => n = 0)
      /\ c > 0 => m[n - c + 1] = since
      /\ t.locked = IF c = M THEN m[n] + W ELSE 0
  BY DEF Counted
<1>f. c > 0 => Spaced(m, n - c + 1, M - 1)
  BY DEF Counted
<1>w. \A k \in 1 .. n : Spaced(m, k, 2 * M - 2)
  BY DEF Counted
<1>1. /\ n \in Nat /\ c \in Nat /\ since \in Nat /\ M \in Nat /\ M > 1 /\ W \in Nat \ {0}
      /\ t.locked <= clock /\ t.locked \in Nat /\ \A k \in 1 .. n : m[k] \in Nat
  BY <1>t, Times
<1>2. /\ p \in Seq(Nat) /\ Len(p) = n + 1
      /\ p[n + 1] = clock /\ \A k \in 1 .. n : p[k] = m[k]
  BY <1>t
<1>3. /\ f.count = (IF fresh THEN 1 ELSE c + 1)
      /\ f.since = (IF fresh THEN clock ELSE since)
      /\ f.locked = IF f.count >= M THEN clock + W ELSE IF fresh THEN 0 ELSE t.locked
  BY DEF Failure
<1> HIDE DEF n, M, c, since, W, p
<1>4. fresh \/ c < M
  <2>1. CASE c = M
    <3>1. c > 0 /\ n - c + 1 \in 1 .. n /\ n \in 1 .. n
      BY <1>0, <1>1, <2>1
    <3>2. m[n - c + 1] <= m[n]
      BY <1>1, <1>m, <3>1
    <3> QED
      BY <1>0, <1>1, <2>1, <3>1, <3>2
  <2> QED
    BY <1>0, <1>1, <2>1
<1>5. f \in [count : Nat, since : Nat, locked : Nat]
  <2>1. f.count \in Nat /\ f.since \in Nat /\ f.locked \in Nat
    BY <1>1, <1>3
  <2>2. f = [count |-> f.count, since |-> f.since, locked |-> f.locked]
    BY DEF Failure
  <2> QED
    BY <2>1, <2>2
<1> HIDE DEF f
<1>6. /\ \A k \in 1 .. n + 1 : p[k] <= clock
      /\ \A j, k \in 1 .. n + 1 : j <= k => p[j] <= p[k]
  <2>1. ASSUME NEW k \in 1 .. n + 1 PROVE p[k] <= clock /\ p[k] \in Nat
    <3>1. k = n + 1 \/ k \in 1 .. n
      BY <1>1
    <3> QED
      BY <1>1, <1>2, <1>m, <3>1
  <2>2. ASSUME NEW j \in 1 .. n + 1, NEW k \in 1 .. n + 1, j <= k PROVE p[j] <= p[k]
    <3>1. k = n + 1 \/ (k \in 1 .. n /\ j \in 1 .. n)
      BY <1>1, <2>2
    <3> QED
      BY <1>2, <1>m, <2>1, <2>2, <3>1
  <2> QED
    BY <2>1, <2>2
\* Failures are spaced in p as they were in m.
<1>s. ASSUME NEW k \in 1 .. n, NEW d \in Nat, Spaced(m, k, d)
      PROVE  Spaced(p, k, d)
  <2>1. k > d => k - d \in 1 .. n
    BY <1>1
  <2> QED
    BY <1>2, <1>s, <2>1 DEF Spaced
<1>7. ASSUME Spaced(p, n + 1, 2 * M - 2)
      PROVE  \A k \in 1 .. n + 1 : Spaced(p, k, 2 * M - 2)
  <2>1. \A k \in 1 .. n : Spaced(p, k, 2 * M - 2)
    <3>1. 2 * M - 2 \in Nat
      BY <1>1
    <3> QED
      BY <1>w, <1>s, <3>1
  <2>2. \A k \in 1 .. n + 1 : k \in 1 .. n \/ k = n + 1
    BY <1>1
  <2> QED
    BY <1>7, <2>1, <2>2
<1>8. CASE fresh
  \* All that the failures before the new window need is in its predecessor.
  <2>1. ASSUME NEW j \in 1 .. n, j <= n - c + 1 \/ c = M
        PROVE  clock - m[j] >= W
    <3>1. c > 0 /\ n \in 1 .. n /\ n - c + 1 \in 1 .. n /\ m[j] \in Nat /\ m[n] \in Nat
      BY <1>0, <1>1
    <3>2. CASE c = M
      <4>1. m[j] <= m[n]
        BY <1>m, <3>1
      <4>2. m[n] + W <= clock
        BY <1>0, <1>1, <3>2
      <4> QED
        BY <1>1, <3>1, <4>1, <4>2
    <3>3. CASE j <= n - c + 1
      <4>1. m[j] <= since
        BY <1>m, <1>0, <3>1, <3>3
      <4>2. clock - since >= W
        BY <1>8, <3>1
      <4> QED
        BY <1>1, <3>1, <4>1, <4>2
    <3> QED
      BY <2>1, <3>2, <3>3
  <2>2. f.count = 1 /\ f.since = clock /\ f.locked = 0
    BY <1>1, <1>3, <1>8
  <2>3. ASSUME NEW d \in {M - 1, 2 * M - 2} PROVE Spaced(p, n + 1, d)
    <3>1. n + 1 > d => n + 1 - d \in 1 .. n /\ (n + 1 - d <= n - c + 1 \/ c = M)
      BY <1>0, <1>1
    <3>2. n + 1 > d => p[n + 1 - d] = m[n + 1 - d] /\ clock - m[n + 1 - d] >= W
      BY <1>2, <2>1, <3>1
    <3> QED
      BY <1>1, <1>2, <3>2 DEF Spaced, W
  <2>5. \A k \in 1 .. n + 1 : Spaced(p, k, 2 * M - 2)
    BY <1>7, <2>3
  <2>6. /\ (n + 1) - 1 + 1 = n + 1 /\ 1 <= n + 1 /\ 1 <= M /\ 1 # M
        /\ p[n + 1] - clock < W /\ clock <= clock
    BY <1>1, <1>2
  <2>7. /\ Len(p) - f.count + 1 = n + 1 /\ f.count # 0 /\ f.count # M
    BY <1>1, <1>2, <2>2
  <2>8. /\ \A k \in 1 .. Len(p) : p[k] <= clock
        /\ \A j, k \in 1 .. Len(p) : j <= k => p[j] <= p[k]
        /\ \A k \in 1 .. Len(p) : Spaced(p, k, 2 * M - 2)
    BY <1>2, <1>6, <2>5
  <2>9. /\ f.count <= Len(p) /\ f.count <= M /\ f.count # 0 /\ f.since <= clock
        /\ p[Len(p) - f.count + 1] = f.since /\ p[Len(p)] - f.since < W
        /\ f.locked = IF f.count = M THEN p[Len(p)] + W ELSE 0
    BY <1>2, <2>2, <2>6, <2>7
  <2>10. Spaced(p, Len(p) - f.count + 1, M - 1)
    BY <2>3, <2>7
  <2>11. Counted(f, p, clock)
    BY <1>2, <1>5, <2>8, <2>9, <2>10 DEF Counted, M, W
  <2> QED
    BY <2>11 DEF p, f
<1>9. CASE ~ fresh
  <2> DEFINE i == n - c + 1
  <2>1. c > 0 /\ c < M /\ i \in 1 .. n /\ clock - since < W /\ m[i] = since
    BY <1>0, <1>1, <1>4, <1>9
  <2>2. f.count = c + 1 /\ f.since = since
    BY <1>3, <1>9
  <2>3. f.locked = IF f.count = M THEN clock + W ELSE 0
    BY <1>0, <1>1, <1>3, <1>9, <2>1, <2>2
  <2>4. /\ Len(p) - f.count + 1 = i /\ f.count <= n + 1 /\ f.count <= M /\ f.count # 0
    BY <1>0, <1>1, <1>2, <2>1, <2>2
  <2>5. /\ p[i] = since /\ p[n + 1] - since < W /\ since <= clock
    BY <1>1, <1>2, <1>m, <2>1
  <2>6. Spaced(m, i, M - 1)
    BY <1>f, <2>1
  <2>7. Spaced(p, i, M - 1)
    <3>1. M - 1 \in Nat
      BY <1>1
    <3> HIDE DEF i
    <3> QED
      BY <1>s, <2>1, <2>6, <3>1
  <2>8. Spaced(p, n + 1, 2 * M - 2)
    <3>1. SUFFICES ASSUME n + 1 > 2 * M - 2
                   PROVE  p[n + 1] - p[n + 1 - (2 * M - 2)] >= W
      BY <1>1 DEF Spaced, W
    <3> DEFINE far == i - (M - 1) back == n + 1 - (2 * M - 2)
    <3>2. /\ i > M - 1 /\ far \in 1 .. n /\ back \in 1 .. n /\ back <= far
      BY <1>1, <2>1, <3>1
    <3>3. m[i] - m[far] >= W
      BY <2>6, <3>2 DEF Spaced, W
    <3> HIDE DEF far, back, i
    <3>4. m[back] <= m[far] /\ m[i] <= clock
      BY <1>m, <2>1, <3>2
    <3>5. /\ m[i] \in Nat /\ m[far] \in Nat /\ m[back] \in Nat
      BY <1>1, <2>1, <3>2
    <3>6. p[n + 1] - p[back] >= W
      BY <1>1, <1>2, <3>2, <3>3, <3>4, <3>5
    <3> QED
      BY <3>6 DEF back
  <2> HIDE DEF i
  <2>9. /\ \A k \in 1 .. Len(p) : p[k] <= clock
        /\ \A j, k \in 1 .. Len(p) : j <= k => p[j] <= p[k]
        /\ \A k \in 1 .. Len(p) : Spaced(p, k, 2 * M - 2)
    BY <1>2, <1>6, <1>7, <2>8
  <2>10. /\ f.count <= Len(p) /\ f.count <= M /\ f.count # 0 /\ f.since <= clock
         /\ p[Len(p) - f.count + 1] = f.since /\ p[Len(p)] - f.since < W
         /\ f.locked = IF f.count = M THEN p[Len(p)] + W ELSE 0
    BY <1>2, <2>2, <2>3, <2>4, <2>5
  <2>11. Spaced(p, Len(p) - f.count + 1, M - 1)
    BY <2>4, <2>7
  <2>12. Counted(f, p, clock)
    BY <1>2, <1>5, <2>9, <2>10, <2>11 DEF Counted, M, W
  <2> QED
    BY <2>12 DEF p, f
<1> QED
  BY <1>8, <1>9

LEMMA ThrottleKept ==
    ASSUME Accounts, ThrottleInv, [HANext]_haVars
    PROVE  ThrottleInv' /\ clock <= clock'
<1>1. clock \in Nat
  BY Times DEF Accounts
<1>2. CASE UNCHANGED <<clock, throttle, misses>>
  BY <1>1, <1>2 DEF ThrottleInv
<1>3. ASSUME NEW u \in Users, LoginFails(u) PROVE ThrottleInv' /\ clock <= clock'
  <2>1. /\ ~ (clock < throttle[u].locked) /\ clock' = clock
        /\ throttle' = [throttle EXCEPT ![u] = Failure(throttle[u])]
        /\ misses' = [misses EXCEPT ![u] = Append(misses[u], clock)]
    BY <1>3 DEF LoginFails, Throttled
  <2>2. /\ throttle \in [Users -> [count : Nat, since : Nat, locked : Nat]]
        /\ misses \in [Users -> Seq(Nat)]
        /\ \A v \in Users : Counted(throttle[v], misses[v], clock)
    BY DEF ThrottleInv
  <2>3. throttle[u].locked <= clock
    BY <1>1, <2>1, <2>2
  <2>4. Counted(Failure(throttle[u]), Append(misses[u], clock), clock)
    BY <1>1, <2>2, <2>3, OneMore
  <2>5. /\ Failure(throttle[u]) \in [count : Nat, since : Nat, locked : Nat]
        /\ Append(misses[u], clock) \in Seq(Nat)
    BY <2>4 DEF Counted
  <2> QED
    BY <1>1, <2>1, <2>2, <2>4, <2>5 DEF ThrottleInv
<1>4. ASSUME NEW u \in Users, Login(u) PROVE ThrottleInv' /\ clock <= clock'
  <2>1. /\ clock' = clock /\ throttle' = [throttle EXCEPT ![u] = NoFailures]
        /\ misses' = [misses EXCEPT ![u] = <<>>]
    BY <1>4 DEF Login
  <2>2. /\ NoFailures \in [count : Nat, since : Nat, locked : Nat] /\ <<>> \in Seq(Nat)
        /\ Counted(NoFailures, <<>>, clock)
    BY <1>1, NothingCounted DEF NoFailures
  <2> QED
    BY <1>1, <2>1, <2>2 DEF ThrottleInv
<1>5. CASE PassTime
  <2>1. clock' = clock + 1 /\ throttle' = throttle /\ misses' = misses
    BY <1>5 DEF PassTime
  <2>2. clock' \in Nat /\ clock <= clock'
    BY <1>1, <2>1
  <2>3. \A u \in Users : Counted(throttle[u], misses[u], clock')
    BY <1>1, <2>2, CountsOn DEF ThrottleInv
  <2> QED
    BY <2>1, <2>2, <2>3 DEF ThrottleInv
<1>6. ASSUME NEW u \in Users, Anonymous(u), ~ LoginFails(u), ~ Login(u)
      PROVE  UNCHANGED <<clock, throttle, misses>>
  BY <1>6 DEF Anonymous, SetupRoot, RequestPasswordReset, ConfirmPasswordReset
<1>7. ASSUME NEW i, OwnRequest(i) \/ FactorRequest(i) \/ SignOut(i, {}) \/ SignOut(i, {i})
      PROVE  UNCHANGED <<clock, throttle, misses>>
  BY <1>7 DEF OwnRequest, FactorRequest, Visit, Logout, ChangePassword, BeginMfaSetup,
              ConfirmMfaSetup, DisableMfa, Reauthenticate, SignOut
<1>8. ASSUME NEW i, RoleRequest(i) \/ UserRequest(i)
      PROVE  UNCHANGED <<clock, throttle, misses>>
  BY <1>8 DEF RoleRequest, CreateRole, UpdateRole, DeleteRole, SaveRole, UserRequest, CreateUser,
              ChangeRoles, ChangeStatus, ResetUserPassword
<1>9. CASE UNCHANGED haVars
  BY <1>2, <1>9 DEF haVars
<1> QED
  BY <1>2, <1>3, <1>4, <1>5, <1>6, <1>7, <1>8, <1>9 DEF HANext

-----------------------------------------------------------------------------
\* The theorems.

HumanInv == Accounts /\ SessionsInv /\ ThrottleInv

LEMMA HumanInit == ASSUME HAInit PROVE HumanInv
<1>1. /\ clock = 0 /\ users = [u \in Users |-> NoAccount] /\ roles = [r \in Roles |-> "absent"]
      /\ sessions = [i \in Rows |-> Over]
      /\ throttle = [u \in Users |-> NoFailures] /\ resets = [u \in Users |-> Never]
      /\ misses = [u \in Users |-> <<>>]
  BY DEF HAInit
<1>2. /\ NoAccount \in User /\ NoAccount.changed = 0 /\ ~ NoAccount.root
      /\ NoAccount.status = "absent"
  BY Times DEF NoAccount, User
<1>3. Accounts
  BY <1>1, <1>2, Times DEF Accounts, AccountsStayManageable, Exists
<1>4. SessionsInv
  BY <1>1, Times, OverFits DEF SessionsInv, Fits
<1>5. ThrottleInv
  <2>1. NoFailures \in [count : Nat, since : Nat, locked : Nat] /\ <<>> \in Seq(Nat)
    BY DEF NoFailures
  <2> QED
    BY <1>1, <2>1, Times, NothingCounted DEF ThrottleInv
<1> QED
  BY <1>3, <1>4, <1>5 DEF HumanInv

LEMMA HumanStep == ASSUME HumanInv, [HANext]_haVars PROVE HumanInv'
BY StepKeeps, ThrottleKept DEF HumanInv, Kept

\* The strengthening that the other theorems rest on.
THEOREM HumanInvariant == HASpec => []HumanInv
<1>1. HAInit => HumanInv
  BY HumanInit
<1>2. HumanInv /\ [HANext]_haVars => HumanInv'
  BY HumanStep
<1> QED
  BY <1>1, <1>2, PTL DEF HASpec

\* Types, and accounts that somebody can always manage: one active root with a password
\* of its own, and for every other account a role that exists.
THEOREM AccountsAreManageable == HASpec => []HAInv
<1>1. HumanInv => HAInv
  <2>1. SUFFICES ASSUME HumanInv PROVE HAInv
    OBVIOUS
  <2>2. /\ clock \in Instants /\ users \in [Users -> User]
        /\ roles \in [Roles -> {"absent", "reads", "manages"}]
        /\ sessions \in [Rows -> Session]
        /\ \A u \in Users : resets[u] \in {Never} \cup 0 .. MaxClock + ResetTTL
        /\ AccountsStayManageable
    BY <2>1 DEF HumanInv, Accounts, SessionsInv, Fits
  <2>3. ASSUME NEW u \in Users
        PROVE  /\ throttle[u].count \in 0 .. MaxFailures /\ throttle[u].since \in Instants
               /\ throttle[u].locked \in 0 .. MaxClock + Window
    <3> DEFINE t == throttle[u] m == misses[u]
    <3>1. /\ t \in [count : Nat, since : Nat, locked : Nat] /\ m \in Seq(Nat)
          /\ t.count <= MaxFailures /\ t.since <= clock /\ t.count <= Len(m)
          /\ t.locked = IF t.count = MaxFailures THEN m[Len(m)] + Window ELSE 0
          /\ \A k \in 1 .. Len(m) : m[k] <= clock
      BY <2>1 DEF HumanInv, ThrottleInv, Counted
    <3> HIDE DEF t, m
    <3>2. /\ clock \in Nat /\ clock <= MaxClock
          /\ Window \in Nat /\ MaxClock \in Nat /\ MaxFailures \in Nat /\ MaxFailures > 1
      BY <2>2, Times DEF Instants
    <3>3. t.count \in 0 .. MaxFailures /\ t.since \in Instants
      BY <3>1, <3>2 DEF Instants
    <3>4. t.locked \in 0 .. MaxClock + Window
      <4>1. CASE t.count = MaxFailures
        <5>1. Len(m) \in 1 .. Len(m) /\ m[Len(m)] \in Nat /\ m[Len(m)] <= clock
          BY <3>1, <3>2, <4>1
        <5> QED
          BY <3>1, <3>2, <4>1, <5>1
      <4> QED
        BY <3>1, <3>2, <4>1
    <3> QED
      BY <3>3, <3>4 DEF t
  <2> QED
    BY <2>2, <2>3 DEF HAInv, HATypeOK
<1> QED
  BY <1>1, HumanInvariant, PTL

\* No session begun with an earlier password, or verified by a second factor that has
\* since been disabled, is in use.
THEOREM SessionsEndWithCredentials == HASpec => []SessionsFollowCredentials
<1>1. HumanInv => SessionsFollowCredentials
  BY DEF HumanInv, SessionsInv, Fits, Sound, SessionsFollowCredentials, Live
<1> QED
  BY <1>1, HumanInvariant, PTL

\* Nobody idle for IdleTTL is served, and nobody is taken for idle who was served within
\* IdleTTL - Coarse.
THEOREM IdleTimeCounts == HASpec => []IdleCountsFromLastRequest
<1>1. ASSUME HumanInv PROVE IdleCountsFromLastRequest
  <2>1. /\ clock \in Nat /\ IdleTTL \in Nat /\ Coarse \in Nat /\ DOMAIN sessions = Rows
    BY <1>1, Times, Standing DEF HumanInv, Accounts
  <2>2. ASSUME NEW i \in Rows
        PROVE  /\ Accepted(i) => clock - sessions[i].acted < IdleTTL
               /\ IdleTooLong(sessions[i]) => clock - sessions[i].acted > IdleTTL - Coarse
    <3>1. sessions[i] \in Session /\ Sound(sessions[i], users, clock)
      BY <1>1, Standing DEF HumanInv, Fits
    <3>2. /\ sessions[i].seen \in Nat /\ sessions[i].acted \in Nat
          /\ sessions[i].seen <= sessions[i].acted
          /\ sessions[i].acted - sessions[i].seen < Coarse
      BY <3>1, Times DEF Session, Sound
    <3> QED
      BY <2>1, <3>2 DEF Accepted, IdleTooLong
  <2> QED
    BY <2>1, <2>2 DEF IdleCountsFromLastRequest
<1> QED
  BY <1>1, HumanInvariant, PTL

\* In no stretch of Window instants are more than twice MaxFailures less two wrong sign-ins
\* of an account let through between successes.
THEOREM Throttling == HASpec => []SignInsAreThrottled
<1>1. ASSUME HumanInv PROVE SignInsAreThrottled
  <2>1. \A u \in Users : /\ misses[u] \in Seq(Nat)
                         /\ \A k \in 1 .. Len(misses[u]) : Spaced(misses[u], k, 2 * MaxFailures - 2)
    BY <1>1 DEF HumanInv, ThrottleInv, Counted
  <2>2. \A u \in Users : DOMAIN misses[u] = 1 .. Len(misses[u])
    BY <2>1
  <2> QED
    BY <2>1, <2>2 DEF SignInsAreThrottled, Spaced
<1> QED
  BY <1>1, HumanInvariant, PTL

\* A session that has once been refused is refused until its row is used anew: what
\* refuses it, its age or its idleness, never shrinks, and an account that is suspended
\* has no session left to be accepted when it is made active again.
THEOREM RefusedSessions == HASpec => RefusedStaysRefused
<1>1. ASSUME HumanInv, [HANext]_haVars, NEW i \in Rows, Live(i), ~ Accepted(i)
      PROVE  ~ Accepted(i)' \/ sessions[i].made' = clock
  <2>1. Follows(sessions') /\ HumanInv' /\ clock <= clock'
    BY <1>1, StepKeeps, ThrottleKept DEF HumanInv, Kept
  <2>2. CASE sessions'[i] = sessions[i]
    <3>1. sessions[i] \in Session /\ Sound(sessions[i], users, clock)
      BY <1>1, Standing DEF HumanInv, Fits
    <3>2. Expired(sessions[i]) \/ IdleTooLong(sessions[i])
      BY <1>1, <3>1 DEF Accepted, Live, Sound
    <3>3. /\ clock \in Nat /\ clock' \in Nat /\ SessionTTL \in Nat /\ IdleTTL \in Nat
          /\ sessions[i].made \in Nat /\ sessions[i].seen \in Nat
      BY <1>1, <2>1, <3>1, Times DEF HumanInv, Accounts, Session
    <3>4. \/ clock' >= sessions[i].made + SessionTTL
          \/ clock' - sessions[i].seen >= IdleTTL
      BY <2>1, <3>2, <3>3 DEF Expired, IdleTooLong
    <3> QED
      BY <2>2, <3>4 DEF Accepted, Expired, IdleTooLong
  <2>3. CASE sessions'[i].user = NoUser
    BY <2>3 DEF Accepted, Live
  <2>4. CASE sessions'[i].made = clock
    BY <2>4
  <2> QED
    BY <1>1, <2>1, <2>2, <2>3, <2>4 DEF Follows
<1>2. ASSUME HumanInv, [HANext]_haVars
      PROVE  \A i \in DOMAIN sessions :
                 Live(i) /\ ~ Accepted(i) => ~ Accepted(i)' \/ sessions[i].made' = clock
  <2>1. DOMAIN sessions = Rows
    BY <1>2, Standing DEF HumanInv
  <2> QED
    BY <1>1, <1>2, <2>1
<1> QED
  BY <1>2, HumanInvariant, PTL DEF HASpec, RefusedStaysRefused
=============================================================================
