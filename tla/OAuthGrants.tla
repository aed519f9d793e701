----------------------------- MODULE OAuthGrants -----------------------------
(***************************************************************************)
(* What an agent is granted through OAuth (services/oauth.py): a user's    *)
(* consent gives a code, the code is exchanged once for a pair of tokens,  *)
(* the refresh token of a pair rotates it into the next pair, and either   *)
(* token revokes it.  Token requests overlap.  Each locks the one row it   *)
(* presents with SELECT FOR UPDATE, reads it as committed once it has the  *)
(* lock, writes, and commits; a revocation reads without a lock and waits  *)
(* for it only to write.                                                   *)
(*                                                                         *)
(* Codes and tokens are as good as their row: a request with an unknown    *)
(* one, another client, redirect URI or resource, or without the PKCE      *)
(* verifier is refused like one that is too late and changes nothing.      *)
(* Neither an exchange nor a rotation looks at the user's account; what is *)
(* left out is how an access token is checked, which writes nothing.       *)
(***************************************************************************)
EXTENDS Integers, FiniteSets

CONSTANTS
    Codes, Tokens,     \* rows that may come to be (oauth_authorization_codes, oauth_tokens)
    Requests,          \* token and revocation requests under way at once
    NoCode, NoToken,   \* a row that has not come to be
    Nothing,           \* the row of a request that is not under way
    CodeTTL, RefreshTTL,
    MaxClock           \* bound: instants are 0..MaxClock

ASSUME RowsAssumption ==
    /\ Codes \cap Tokens = {} /\ Nothing \notin Codes \cup Tokens
ASSUME DurationsAssumption ==
    /\ {CodeTTL, RefreshTTL} \subseteq Nat \ {0}
    /\ MaxClock \in Nat

Instants == 0 .. MaxClock

VARIABLES
    clock,      \* current_datetime()
    codes,      \* committed rows
    tokens,     \* committed rows
    pc,         \* idle, waiting for a row lock, written, or revoking
    wants,      \* the row a request presents
    issue       \* the pair a request has inserted and not committed

ogVars == <<clock, codes, tokens, pc, wants, issue>>

Code == [until : Nat, reauth : Instants, mfa : BOOLEAN, used : BOOLEAN]
Token == [code : Codes, refresh : Nat, reauth : Instants, mfa : BOOLEAN, revoked : BOOLEAN]

ASSUME AbsentAssumption == NoCode \notin Code /\ NoToken \notin Token

-----------------------------------------------------------------------------
OGInit ==
    /\ clock = 0
    /\ codes = [c \in Codes |-> NoCode]
    /\ tokens = [t \in Tokens |-> NoToken]
    /\ pc = [q \in Requests |-> "idle"]
    /\ wants = [q \in Requests |-> Nothing]
    /\ issue = [q \in Requests |-> NoToken]

Made(t) == tokens[t] # NoToken
Live(t) == Made(t) /\ ~ tokens[t].revoked

\* authorization_redirect with approval: a browser session passes on when it was last
\* reauthenticated and whether by a second factor.
Consent(c) ==
    /\ codes[c] = NoCode
    /\ \E r \in 0 .. clock, m \in BOOLEAN :
          codes' = [codes EXCEPT ![c] = [until |-> clock + CodeTTL, reauth |-> r,
                                          mfa |-> m, used |-> FALSE]]
    /\ UNCHANGED <<clock, tokens, pc, wants, issue>>

\* Bound: no more pairs are inserted than there are rows left for them.
HasRoom ==
    Cardinality({t \in Tokens : ~ Made(t)}) > Cardinality({q \in Requests : pc[q] = "written"})

\* POST /oauth/token with a code or a refresh token that someone was given.
BeginToken(q) ==
    /\ pc[q] = "idle"
    /\ \E x \in {c \in Codes : codes[c] # NoCode} \cup {t \in Tokens : Made(t)} :
          wants' = [wants EXCEPT ![q] = x]
    /\ pc' = [pc EXCEPT ![q] = "waiting"]
    /\ UNCHANGED <<clock, codes, tokens, issue>>

\* Faulty: SELECT without FOR UPDATE.
NeverHeld(x) == FALSE

\* A row is locked from the SELECT that finds it to the end of the transaction.
Held(x) == \E q \in Requests : pc[q] = "written" /\ wants[q] = x

\* Faulty: a new pair counts as reauthenticated now.
PairIssuedAfresh(c, old) ==
    [code |-> c, refresh |-> clock + RefreshTTL, reauth |-> clock, mfa |-> old.mfa, revoked |-> FALSE]

\* _issue_tokens, from a code or from the pair before.
Pair(c, old) ==
    [code |-> c, refresh |-> clock + RefreshTTL, reauth |-> old.reauth, mfa |-> old.mfa, revoked |-> FALSE]

Ended(q) ==
    /\ pc' = [pc EXCEPT ![q] = "idle"]
    /\ wants' = [wants EXCEPT ![q] = Nothing]
    /\ issue' = [issue EXCEPT ![q] = NoToken]

CodeGood(c) == ~ codes[c].used /\ clock < codes[c].until
TokenGood(t) == ~ tokens[t].revoked /\ clock < tokens[t].refresh

Write(q, pair) ==
    /\ HasRoom
    /\ issue' = [issue EXCEPT ![q] = pair]
    /\ pc' = [pc EXCEPT ![q] = "written"]
    /\ UNCHANGED <<clock, codes, tokens, wants>>

\* exchange_authorization_code
ExchangeCode(q) ==
    /\ pc[q] = "waiting" /\ wants[q] \in Codes /\ ~ Held(wants[q])
    /\ CodeGood(wants[q])
    /\ Write(q, Pair(wants[q], codes[wants[q]]))

\* Faulty: the new pair names the pair before, not the code.
RefreshOfPair(q) ==
    /\ pc[q] = "waiting" /\ wants[q] \in Tokens /\ ~ Held(wants[q])
    /\ TokenGood(wants[q])
    /\ Write(q, Pair(wants[q], tokens[wants[q]]))

\* exchange_refresh_token
RefreshPair(q) ==
    /\ pc[q] = "waiting" /\ wants[q] \in Tokens /\ ~ Held(wants[q])
    /\ TokenGood(wants[q])
    /\ Write(q, Pair(tokens[wants[q]].code, tokens[wants[q]]))

\* invalid_grant, invalid_scope or invalid_target: nothing has been written yet.
Refuse(q) ==
    /\ pc[q] = "waiting" /\ ~ Held(wants[q])
    /\ IF wants[q] \in Codes THEN ~ CodeGood(wants[q]) ELSE ~ TokenGood(wants[q])
    /\ Ended(q)
    /\ UNCHANGED <<clock, codes, tokens>>

\* What was presented is spent and the new pair exists, both at once.
Commit(q) ==
    /\ pc[q] = "written"
    /\ \E t \in Tokens :
          /\ ~ Made(t)
          /\ IF wants[q] \in Codes
               THEN /\ codes' = [codes EXCEPT ![wants[q]].used = TRUE]
                    /\ tokens' = [tokens EXCEPT ![t] = issue[q]]
               ELSE /\ tokens' = [tokens EXCEPT ![wants[q]].revoked = TRUE, ![t] = issue[q]]
                    /\ codes' = codes
    /\ Ended(q)
    /\ UNCHANGED <<clock>>

\* The connection is lost, or the commit fails.
Rollback(q) ==
    /\ pc[q] # "idle"
    /\ Ended(q)
    /\ UNCHANGED <<clock, codes, tokens>>

\* revoke_oauth_token: found by the hash of either token, and not revoked when read.
BeginRevoke(q) ==
    /\ pc[q] = "idle"
    /\ \E t \in Tokens : Live(t) /\ wants' = [wants EXCEPT ![q] = t]
    /\ pc' = [pc EXCEPT ![q] = "revoking"]
    /\ UNCHANGED <<clock, codes, tokens, issue>>

\* The UPDATE, which waits for whoever holds the row, and the commit.
Revoke(q) ==
    /\ pc[q] = "revoking" /\ ~ Held(wants[q])
    /\ tokens' = [tokens EXCEPT ![wants[q]].revoked = TRUE]
    /\ Ended(q)
    /\ UNCHANGED <<clock, codes>>

PassTime ==
    /\ clock < MaxClock
    /\ clock' = clock + 1
    /\ UNCHANGED <<codes, tokens, pc, wants, issue>>

Answer(q) == ExchangeCode(q) \/ RefreshPair(q) \/ Refuse(q) \/ Revoke(q)

OGNext ==
    \/ \E c \in Codes : Consent(c)
    \/ \E q \in Requests : \/ BeginToken(q) \/ BeginRevoke(q)
                           \/ Answer(q) \/ Commit(q) \/ Rollback(q)
    \/ PassTime

OGSpec == OGInit /\ [][OGNext]_ogVars

-----------------------------------------------------------------------------
OGTypeOK ==
    /\ clock \in Instants
    /\ codes \in [Codes -> Code \cup {NoCode}]
    /\ tokens \in [Tokens -> Token \cup {NoToken}]
    /\ pc \in [Requests -> {"idle", "waiting", "written", "revoking"}]
    /\ wants \in [Requests -> Codes \cup Tokens \cup {Nothing}]
    /\ issue \in [Requests -> Token \cup {NoToken}]

\* However often, and however simultaneously, a code or refresh token is presented, at
\* most one pair of a grant is in force (oauth.py:292-310, 330-348).
OneLivePair ==
    \A t, u \in Tokens : Live(t) /\ Live(u) /\ tokens[t].code = tokens[u].code => t = u

\* A pair exists only of a code that is spent, and carries the reauthentication and the
\* second factor of the consent it goes back to, however often it was rotated, so that
\* rotation never makes an agent's access more recent (oauth.py:310-319, 349-357).
GrantKeepsItsTerms ==
    \A t \in Tokens : Made(t) =>
        LET c == codes[tokens[t].code] IN
        c # NoCode /\ c.used /\ tokens[t].reauth = c.reauth /\ tokens[t].mfa = c.mfa

Offered(c) == codes[c] # NoCode /\ ~ codes[c].used
InForce(c) == \E t \in Tokens : Live(t) /\ tokens[t].code = c

\* A grant whose code is spent and whose last pair is revoked never comes back into force,
\* also when the revocation and a rotation overlap (oauth.py:348, 382-393).
EndedGrantStaysEnded ==
    [][\A c \in Codes : codes[c] # NoCode /\ ~ Offered(c) /\ ~ InForce(c) => ~ InForce(c)']_ogVars
=============================================================================
