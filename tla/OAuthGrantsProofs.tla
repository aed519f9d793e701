-------------------------- MODULE OAuthGrantsProofs --------------------------
(***************************************************************************)
(* For any number of codes, tokens and overlapping requests: a grant has   *)
(* at most one pair in force, keeps the terms of its consent, and stays    *)
(* ended once it has ended.                                                *)
(*                                                                         *)
(* The strengthening says what a request that has written and not yet      *)
(* committed may rely on: nobody else has written for the same row         *)
(* (Alone), and the row is still good to be exchanged (Ready).             *)
(***************************************************************************)
EXTENDS OAuthGrants, TLAPS

Presents(q) ==
    /\ pc[q] = "waiting" => \/ wants[q] \in Codes /\ codes[wants[q]] # NoCode
                            \/ wants[q] \in Tokens /\ Made(wants[q])
    /\ pc[q] = "revoking" => wants[q] \in Tokens /\ Made(wants[q])

Ready(q) ==
    pc[q] = "written" =>
        /\ issue[q] \in Token /\ ~ issue[q].revoked
        /\ codes[issue[q].code] # NoCode
        /\ issue[q].reauth = codes[issue[q].code].reauth
        /\ issue[q].mfa = codes[issue[q].code].mfa
        /\ \/ /\ wants[q] \in Codes /\ wants[q] = issue[q].code
              /\ ~ codes[wants[q]].used
           \/ /\ wants[q] \in Tokens /\ Live(wants[q])
              /\ tokens[wants[q]].code = issue[q].code

Alone == \A q, r \in Requests :
    pc[q] = "written" /\ pc[r] = "written" /\ wants[q] = wants[r] => q = r

OGInv ==
    /\ OGTypeOK
    /\ \A q \in Requests : Presents(q) /\ Ready(q)
    /\ Alone
    /\ GrantKeepsItsTerms
    /\ OneLivePair

-----------------------------------------------------------------------------
\* A pair issued from a code or a pair of code c has its type and its terms.
LEMMA PairTyped ==
    ASSUME NEW c \in Codes, NEW old, old.reauth \in Instants, old.mfa \in BOOLEAN,
           clock \in Instants
    PROVE  /\ Pair(c, old) \in Token
           /\ Pair(c, old).code = c /\ ~ Pair(c, old).revoked
           /\ Pair(c, old).reauth = old.reauth /\ Pair(c, old).mfa = old.mfa
BY DurationsAssumption DEF Pair, Token, Instants

\* A request that ends before it has committed changes no row.
LEMMA EndsQuietly ==
    ASSUME OGInv, NEW q \in Requests, Ended(q), UNCHANGED <<clock, codes, tokens>>
    PROVE  OGInv'
<1>1. \A r \in Requests : r # q => pc'[r] = pc[r] /\ wants'[r] = wants[r] /\ issue'[r] = issue[r]
  BY DEF OGInv, OGTypeOK, Ended
<1>2. pc'[q] = "idle"
  BY DEF OGInv, OGTypeOK, Ended
<1>3. OGTypeOK'
  BY DEF OGInv, OGTypeOK, Ended
<1>4. (\A r \in Requests : Presents(r) /\ Ready(r))'
  BY <1>1, <1>2 DEF OGInv, Presents, Ready, Made, Live
<1>5. Alone'
  BY <1>1, <1>2 DEF OGInv, Alone
<1>6. (GrantKeepsItsTerms /\ OneLivePair)'
  BY DEF OGInv, GrantKeepsItsTerms, OneLivePair, Made, Live
<1> QED
  BY <1>3, <1>4, <1>5, <1>6 DEF OGInv

\* Writing for a row that is good and not held.
LEMMA WritesAlone ==
    ASSUME OGInv, NEW q \in Requests, NEW pair, Write(q, pair), pc[q] = "waiting",
           ~ Held(wants[q]), pair \in Token, ~ pair.revoked,
           codes[pair.code] # NoCode,
           pair.reauth = codes[pair.code].reauth, pair.mfa = codes[pair.code].mfa,
           \/ wants[q] \in Codes /\ wants[q] = pair.code /\ ~ codes[wants[q]].used
           \/ wants[q] \in Tokens /\ Live(wants[q]) /\ tokens[wants[q]].code = pair.code
    PROVE  OGInv'
<1>1. \A r \in Requests : r # q => pc'[r] = pc[r] /\ issue'[r] = issue[r]
  BY DEF OGInv, OGTypeOK, Write
<1>2. pc'[q] = "written" /\ issue'[q] = pair /\ wants' = wants
  BY DEF OGInv, OGTypeOK, Write
<1>3. OGTypeOK'
  BY DEF OGInv, OGTypeOK, Write
<1>4. (\A r \in Requests : Presents(r) /\ Ready(r))'
  BY <1>1, <1>2 DEF OGInv, Presents, Ready, Made, Live, Write
<1>5. Alone'
  BY <1>1, <1>2 DEF OGInv, Alone, Held
<1>6. (GrantKeepsItsTerms /\ OneLivePair)'
  BY DEF OGInv, GrantKeepsItsTerms, OneLivePair, Made, Live, Write
<1> QED
  BY <1>3, <1>4, <1>5, <1>6 DEF OGInv

\* A commit spends exactly the row that it was ready to spend, and no other request that
\* is ready relies on that row or on the absence of the new one.
LEMMA CommitSafe ==
    ASSUME OGInv, NEW q \in Requests, Commit(q)
    PROVE  OGInv' /\ \A c \in Codes : ~ Offered(c) /\ ~ InForce(c) => ~ InForce(c)'
<1> DEFINE w == wants[q]
           c == issue[q].code
<1>1. PICK t \in Tokens :
         /\ ~ Made(t)
         /\ IF w \in Codes
              THEN /\ codes' = [codes EXCEPT ![w].used = TRUE]
                   /\ tokens' = [tokens EXCEPT ![t] = issue[q]]
              ELSE /\ tokens' = [tokens EXCEPT ![w].revoked = TRUE, ![t] = issue[q]]
                   /\ codes' = codes
  BY DEF Commit
<1>2. pc[q] = "written" /\ pc'[q] = "idle" /\ clock' = clock
  BY DEF Commit, Ended, OGInv, OGTypeOK
<1>3. \A r \in Requests : r # q => pc'[r] = pc[r] /\ wants'[r] = wants[r] /\ issue'[r] = issue[r]
  BY DEF OGInv, OGTypeOK, Commit, Ended
<1>4. /\ issue[q] \in Token /\ ~ issue[q].revoked /\ c \in Codes /\ codes[c] # NoCode
      /\ issue[q].reauth = codes[c].reauth /\ issue[q].mfa = codes[c].mfa
      /\ \/ w \in Codes /\ w = c /\ ~ codes[w].used
         \/ w \in Tokens /\ Live(w) /\ tokens[w].code = c
  BY <1>2 DEF OGInv, Ready, Token
<1>5. \A r \in Requests : r # q /\ pc[r] = "written" => wants[r] # w
  BY <1>2 DEF OGInv, Alone
<1>6. codes \in [Codes -> Code \cup {NoCode}] /\ tokens \in [Tokens -> Token \cup {NoToken}]
  BY DEF OGInv, OGTypeOK
<1>7. CASE w \in Codes
  <2>1. w = c /\ ~ codes[c].used /\ codes[c] \in Code
    BY <1>4, <1>6, <1>7, RowsAssumption
  <2>2. codes' = [codes EXCEPT ![c].used = TRUE] /\ tokens' = [tokens EXCEPT ![t] = issue[q]]
    BY <1>1, <1>7, <2>1
  <2>3. \A u \in Tokens : Made(u) => tokens[u].code # c
    BY <2>1 DEF OGInv, GrantKeepsItsTerms
  <2>4. codes' \in [Codes -> Code \cup {NoCode}]
    BY <1>6, <2>1, <2>2 DEF Code
  <2>5. /\ codes'[c] # NoCode /\ codes'[c].used
        /\ codes'[c].reauth = codes[c].reauth /\ codes'[c].mfa = codes[c].mfa
        /\ \A d \in Codes : d # c => codes'[d] = codes[d]
    BY <1>6, <2>1, <2>2, <1>4, AbsentAssumption DEF Code
  <2>6. \A u \in Tokens : tokens'[u] = IF u = t THEN issue[q] ELSE tokens[u]
    BY <1>6, <2>2
  <2>7. OGTypeOK'
    BY <1>2, <1>4, <1>6, <2>2, <2>4 DEF OGInv, OGTypeOK, Commit, Ended
  <2>8. \A r \in Requests : r # q /\ pc[r] = "written" => issue[r].code # c
    BY <1>5, <2>1, <2>3, RowsAssumption DEF OGInv, Ready, Live
  <2>9. ASSUME NEW r \in Requests PROVE Presents(r)' /\ Ready(r)'
    <3>1. CASE r = q
      BY <3>1, <1>2 DEF Presents, Ready
    <3>2. CASE r # q
      <4>1. Presents(r) /\ Ready(r)
        BY DEF OGInv
      <4>2. pc'[r] = pc[r] /\ wants'[r] = wants[r] /\ issue'[r] = issue[r]
        BY <1>3, <3>2
      <4>3. Presents(r)'
        BY <4>1, <4>2, <2>5, <2>6, <1>1, <1>4, AbsentAssumption DEF Presents, Made
      <4>4. Ready(r)'
        <5>1. CASE pc[r] # "written"
          BY <5>1, <4>2 DEF Ready
        <5>2. CASE pc[r] = "written"
          <6>1. issue[r] \in Token /\ issue[r].code \in Codes /\ issue[r].code # c
            BY <4>1, <5>2, <2>8, <3>2 DEF Ready, Token
          <6>2. codes'[issue[r].code] = codes[issue[r].code]
            BY <6>1, <2>5
          <6>3. ASSUME wants[r] \in Tokens, Live(wants[r])
                PROVE  tokens'[wants[r]] = tokens[wants[r]]
            BY <6>3, <2>6, <1>1 DEF Live
          <6> QED
            BY <4>1, <4>2, <5>2, <6>1, <6>2, <6>3, RowsAssumption DEF Ready, Live, Made
        <5> QED
          BY <5>1, <5>2
      <4> QED
        BY <4>3, <4>4
    <3> QED
      BY <3>1, <3>2
  <2>10. Alone'
    BY <1>2, <1>3 DEF OGInv, Alone
  <2>11. GrantKeepsItsTerms'
    BY <1>4, <2>3, <2>5, <2>6, <1>6 DEF OGInv, GrantKeepsItsTerms, Made, Token
  <2>12. OneLivePair'
    BY <2>3, <2>6, <1>4, <1>6 DEF OGInv, OneLivePair, Live, Made
  <2>13. \A d \in Codes : ~ Offered(d) /\ ~ InForce(d) => ~ InForce(d)'
    BY <2>1, <2>6, <1>4 DEF Offered, InForce, Live, Made
  <2> QED
    BY <2>7, <2>9, <2>10, <2>11, <2>12, <2>13 DEF OGInv
<1>8. CASE w \in Tokens
  <2>1. w \notin Codes /\ Live(w) /\ tokens[w].code = c /\ tokens[w] \in Token /\ w # t
    BY <1>1, <1>4, <1>6, <1>8, RowsAssumption DEF Live, Made
  <2>2. codes' = codes /\ tokens' = [tokens EXCEPT ![w].revoked = TRUE, ![t] = issue[q]]
    BY <1>1, <2>1
  <2>3. /\ tokens'[t] = issue[q]
        /\ tokens'[w] \in Token /\ tokens'[w].revoked /\ tokens'[w] # NoToken
        /\ tokens'[w].code = c
        /\ tokens'[w].reauth = tokens[w].reauth /\ tokens'[w].mfa = tokens[w].mfa
        /\ \A u \in Tokens \ {t, w} : tokens'[u] = tokens[u]
    BY <1>6, <1>8, <2>1, <2>2, AbsentAssumption DEF Token
  <2>4. OGTypeOK'
    <3>1. tokens' \in [Tokens -> Token \cup {NoToken}]
      <4>1. DOMAIN tokens' = Tokens /\ tokens' = [u \in Tokens |-> tokens'[u]]
        BY <1>6, <2>2
      <4>2. \A u \in Tokens : tokens'[u] \in Token \cup {NoToken}
        BY <1>4, <1>6, <2>3
      <4> QED
        BY <4>1, <4>2
    <3> QED
      BY <1>2, <2>2, <3>1 DEF OGInv, OGTypeOK, Commit, Ended
  <2>5. \A u \in Tokens : Live(u) /\ tokens[u].code = c => u = w
    BY <2>1, <1>8 DEF OGInv, OneLivePair
  <2>6. codes[c].used
    BY <2>1, <1>8 DEF OGInv, GrantKeepsItsTerms, Live
  <2>12. \A u \in Tokens : Made(u) => Made(u)'
    BY <2>3, <1>4, AbsentAssumption DEF Made
  <2>7. ASSUME NEW r \in Requests PROVE Presents(r)' /\ Ready(r)'
    <3>1. CASE r = q
      BY <3>1, <1>2 DEF Presents, Ready
    <3>2. CASE r # q
      <4>1. Presents(r) /\ Ready(r)
        BY DEF OGInv
      <4>2. pc'[r] = pc[r] /\ wants'[r] = wants[r] /\ issue'[r] = issue[r]
        BY <1>3, <3>2
      <4>3. Presents(r)'
        BY <4>1, <4>2, <2>2, <2>12 DEF Presents
      <4>4. Ready(r)'
        <5>1. CASE pc[r] # "written"
          BY <5>1, <4>2 DEF Ready
        <5>2. CASE pc[r] = "written"
          <6>1. wants[r] # w
            BY <5>2, <1>5, <3>2
          <6>2. ASSUME wants[r] \in Tokens, Live(wants[r])
                PROVE  tokens'[wants[r]] = tokens[wants[r]]
            BY <6>1, <6>2, <2>3, <1>1 DEF Live
          <6> QED
            BY <4>1, <4>2, <5>2, <6>2, <2>2 DEF Ready, Live, Made
        <5> QED
          BY <5>1, <5>2
      <4> QED
        BY <4>3, <4>4
    <3> QED
      BY <3>1, <3>2
  <2>8. Alone'
    BY <1>2, <1>3 DEF OGInv, Alone
  <2>9. GrantKeepsItsTerms'
    <3> SUFFICES ASSUME NEW u \in Tokens, Made(u)'
                 PROVE  LET d == codes'[tokens'[u].code] IN
                        /\ d # NoCode /\ d.used
                        /\ tokens'[u].reauth = d.reauth /\ tokens'[u].mfa = d.mfa
      BY DEF GrantKeepsItsTerms
    <3>1. CASE u = t
      BY <3>1, <2>2, <2>3, <2>6, <1>4
    <3>2. CASE u = w
      BY <3>2, <2>1, <2>2, <2>3, <1>8 DEF OGInv, GrantKeepsItsTerms, Live
    <3>3. CASE u \notin {t, w}
      BY <3>3, <2>2, <2>3 DEF OGInv, GrantKeepsItsTerms, Made
    <3> QED
      BY <3>1, <3>2, <3>3
  <2>10. OneLivePair'
    <3>1. \A u \in Tokens : Live(u)' => u # w
      BY <2>3, <1>8 DEF Live
    <3>2. \A u \in Tokens : Live(u)' /\ u # t => Live(u) /\ tokens'[u].code = tokens[u].code
      BY <3>1, <2>3 DEF Live, Made
    <3>3. \A u \in Tokens : Live(u)' /\ tokens'[u].code = c => u = t
      BY <3>1, <3>2, <2>5
    <3> QED
      BY <3>2, <3>3, <2>3 DEF OGInv, OneLivePair
  <2>11. \A d \in Codes : ~ Offered(d) /\ ~ InForce(d) => ~ InForce(d)'
    <3> SUFFICES ASSUME NEW d \in Codes, ~ InForce(d), InForce(d)' PROVE FALSE
      OBVIOUS
    <3>1. d # c
      BY <2>1, <1>8 DEF InForce
    <3>2. PICK u \in Tokens : Live(u)' /\ tokens'[u].code = d
      BY DEF InForce
    <3>3. u \notin {t, w}
      BY <3>1, <3>2, <2>3 DEF Live
    <3> QED
      BY <3>2, <3>3, <2>3 DEF InForce, Live, Made
  <2> QED
    BY <2>4, <2>7, <2>8, <2>9, <2>10, <2>11 DEF OGInv
<1> QED
  BY <1>4, <1>7, <1>8

\* A revocation spends a row that nobody who has written holds.
LEMMA RevokeSafe ==
    ASSUME OGInv, NEW q \in Requests, Revoke(q)
    PROVE  OGInv' /\ \A c \in Codes : ~ InForce(c) => ~ InForce(c)'
<1> DEFINE w == wants[q]
<1>1. w \in Tokens /\ Made(w) /\ tokens[w] \in Token
  BY DEF OGInv, OGTypeOK, Presents, Revoke, Made
<1>2. /\ tokens' = [tokens EXCEPT ![w].revoked = TRUE] /\ codes' = codes
      /\ clock' = clock /\ pc'[q] = "idle"
  BY DEF Revoke, Ended, OGInv, OGTypeOK
<1>3. \A r \in Requests : r # q => pc'[r] = pc[r] /\ wants'[r] = wants[r] /\ issue'[r] = issue[r]
  BY DEF OGInv, OGTypeOK, Revoke, Ended
<1>4. /\ tokens'[w] \in Token /\ tokens'[w] # NoToken /\ tokens'[w].revoked
      /\ tokens'[w].code = tokens[w].code
      /\ tokens'[w].reauth = tokens[w].reauth /\ tokens'[w].mfa = tokens[w].mfa
      /\ \A u \in Tokens \ {w} : tokens'[u] = tokens[u]
  BY <1>1, <1>2, AbsentAssumption DEF OGInv, OGTypeOK, Token
<1>5. OGTypeOK'
  <2>1. tokens' \in [Tokens -> Token \cup {NoToken}]
    BY <1>1, <1>2, <1>4 DEF OGInv, OGTypeOK
  <2> QED
    BY <1>2, <2>1 DEF OGInv, OGTypeOK, Revoke, Ended
<1>6. ASSUME NEW r \in Requests PROVE Presents(r)' /\ Ready(r)'
  <2>1. CASE r = q
    BY <2>1, <1>2 DEF Presents, Ready
  <2>2. CASE r # q
    <3>1. Presents(r) /\ Ready(r)
      BY DEF OGInv
    <3>2. pc'[r] = pc[r] /\ wants'[r] = wants[r] /\ issue'[r] = issue[r]
      BY <1>3, <2>2
    <3>3. pc[r] = "written" => wants[r] # w
      BY DEF Revoke, Held
    <3> QED
      BY <3>1, <3>2, <3>3, <1>2, <1>4 DEF Presents, Ready, Made, Live
  <2> QED
    BY <2>1, <2>2
<1>7. Alone'
  BY <1>2, <1>3 DEF OGInv, Alone
<1>8. GrantKeepsItsTerms'
  BY <1>1, <1>2, <1>4 DEF OGInv, GrantKeepsItsTerms, Made
<1>9. OneLivePair'
  BY <1>4 DEF OGInv, OneLivePair, Live, Made
<1>10. \A c \in Codes : ~ InForce(c) => ~ InForce(c)'
  BY <1>4 DEF InForce, Live, Made
<1> QED
  BY <1>5, <1>6, <1>7, <1>8, <1>9, <1>10 DEF OGInv

-----------------------------------------------------------------------------
\* The steps that touch neither rows nor requests keep the invariant.
LEMMA ElsewhereSafe ==
    ASSUME OGInv, UNCHANGED <<codes, tokens, pc, wants, issue>>,
           clock' \in Instants
    PROVE  OGInv'
BY DEF OGInv, OGTypeOK, Presents, Ready, Alone, GrantKeepsItsTerms, OneLivePair, Made, Live

LEMMA OGInit_Inv == OGInit => OGInv
BY DurationsAssumption, RowsAssumption
   DEF OGInit, OGInv, OGTypeOK, Instants, Presents, Ready, Alone,
       GrantKeepsItsTerms, OneLivePair, Made, Live

\* Every step keeps the invariant and revives no grant.
LEMMA OGNext_Inv ==
    ASSUME OGInv, [OGNext]_ogVars
    PROVE  /\ OGInv'
           /\ \A c \in Codes : codes[c] # NoCode /\ ~ Offered(c) /\ ~ InForce(c) => ~ InForce(c)'
<1>0. ASSUME tokens' = tokens PROVE \A c \in Codes : ~ InForce(c) => ~ InForce(c)'
  BY <1>0 DEF InForce, Live, Made
<1>1. ASSUME NEW c \in Codes, Consent(c) PROVE OGInv' /\ tokens' = tokens
  <2>1. /\ codes[c] = NoCode /\ UNCHANGED <<clock, tokens, pc, wants, issue>>
        /\ \A d \in Codes \ {c} : codes'[d] = codes[d]
    BY <1>1 DEF Consent, OGInv, OGTypeOK
  <2>2. codes' \in [Codes -> Code \cup {NoCode}] /\ codes'[c] \in Code
    <3>1. 0 .. clock \subseteq Instants /\ clock + CodeTTL \in Nat
      BY DurationsAssumption DEF OGInv, OGTypeOK, Instants
    <3>2. PICK r \in 0 .. clock, m \in BOOLEAN :
             codes' = [codes EXCEPT ![c] = [until |-> clock + CodeTTL, reauth |-> r,
                                             mfa |-> m, used |-> FALSE]]
      BY <1>1 DEF Consent
    <3>3. [until |-> clock + CodeTTL, reauth |-> r, mfa |-> m, used |-> FALSE] \in Code
      BY <3>1 DEF Code
    <3> QED
      BY <3>2, <3>3 DEF OGInv, OGTypeOK
  <2>3. OGTypeOK'
    BY <2>1, <2>2 DEF OGInv, OGTypeOK
  <2>4. (\A q \in Requests : Presents(q) /\ Ready(q))'
    BY <2>1, <2>2, AbsentAssumption DEF OGInv, Presents, Ready, Made, Live, Token
  <2>5. (Alone /\ OneLivePair)'
    BY <2>1 DEF OGInv, Alone, OneLivePair, Live, Made
  <2>6. GrantKeepsItsTerms'
    BY <2>1 DEF OGInv, OGTypeOK, GrantKeepsItsTerms, Made, Token
  <2> QED
    BY <2>1, <2>3, <2>4, <2>5, <2>6 DEF OGInv
<1>2. ASSUME NEW q \in Requests, BeginToken(q) \/ BeginRevoke(q)
      PROVE  OGInv' /\ tokens' = tokens
  <2>1. /\ pc'[q] \in {"waiting", "revoking"} /\ pc' \in [Requests -> {"idle", "waiting", "written", "revoking"}]
        /\ wants' \in [Requests -> Codes \cup Tokens \cup {Nothing}]
        /\ UNCHANGED <<clock, codes, tokens, issue>>
        /\ \A r \in Requests \ {q} : pc'[r] = pc[r] /\ wants'[r] = wants[r]
    BY <1>2 DEF BeginToken, BeginRevoke, OGInv, OGTypeOK
  <2>2. Presents(q)'
    BY <1>2, <2>1 DEF BeginToken, BeginRevoke, OGInv, OGTypeOK, Presents, Made, Live
  <2>3. (\A r \in Requests : Presents(r) /\ Ready(r))'
    BY <2>1, <2>2 DEF OGInv, Presents, Ready, Made, Live
  <2>4. Alone'
    BY <2>1 DEF OGInv, Alone
  <2>5. (OGTypeOK /\ GrantKeepsItsTerms /\ OneLivePair)'
    BY <2>1 DEF OGInv, OGTypeOK, GrantKeepsItsTerms, OneLivePair, Made, Live
  <2> QED
    BY <2>1, <2>3, <2>4, <2>5 DEF OGInv
<1>3. ASSUME NEW q \in Requests, ExchangeCode(q) PROVE OGInv' /\ tokens' = tokens
  <2> DEFINE c == wants[q]
  <2>1. c \in Codes /\ codes[c] # NoCode /\ codes[c] \in Code /\ ~ codes[c].used
    BY <1>3, RowsAssumption DEF ExchangeCode, CodeGood, OGInv, OGTypeOK, Presents
  <2>2. codes[c].reauth \in Instants /\ codes[c].mfa \in BOOLEAN /\ clock \in Instants
    BY <2>1 DEF Code, OGInv, OGTypeOK
  <2>3. pc[q] = "waiting" /\ ~ Held(c) /\ Write(q, Pair(c, codes[c]))
    BY <1>3 DEF ExchangeCode
  <2>4. /\ Pair(c, codes[c]) \in Token /\ Pair(c, codes[c]).code = c
        /\ ~ Pair(c, codes[c]).revoked
        /\ Pair(c, codes[c]).reauth = codes[c].reauth /\ Pair(c, codes[c]).mfa = codes[c].mfa
    BY <2>1, <2>2, PairTyped
  <2>5. tokens' = tokens
    BY <2>3 DEF Write
  <2> HIDE DEF c
  <2> QED
    BY <2>1, <2>3, <2>4, <2>5, WritesAlone DEF c
<1>4. ASSUME NEW q \in Requests, RefreshPair(q) PROVE OGInv' /\ tokens' = tokens
  <2> DEFINE t == wants[q]
             c == tokens[t].code
  <2>1. t \in Tokens /\ Live(t) /\ tokens[t] \in Token
    BY <1>4, RowsAssumption DEF RefreshPair, TokenGood, OGInv, OGTypeOK, Presents, Live, Made
  <2>2. /\ c \in Codes /\ codes[c] # NoCode
        /\ tokens[t].reauth = codes[c].reauth /\ tokens[t].mfa = codes[c].mfa
        /\ tokens[t].reauth \in Instants /\ tokens[t].mfa \in BOOLEAN /\ clock \in Instants
    BY <2>1 DEF Token, OGInv, OGTypeOK, GrantKeepsItsTerms, Live
  <2>3. pc[q] = "waiting" /\ ~ Held(t) /\ Write(q, Pair(c, tokens[t]))
    BY <1>4 DEF RefreshPair
  <2>4. /\ Pair(c, tokens[t]) \in Token /\ Pair(c, tokens[t]).code = c
        /\ ~ Pair(c, tokens[t]).revoked
        /\ Pair(c, tokens[t]).reauth = tokens[t].reauth /\ Pair(c, tokens[t]).mfa = tokens[t].mfa
    BY <2>2, PairTyped
  <2>5. tokens' = tokens
    BY <2>3 DEF Write
  <2> QED
    BY <2>1, <2>2, <2>3, <2>4, <2>5, WritesAlone
<1>5. ASSUME NEW q \in Requests, Refuse(q) \/ Rollback(q) PROVE OGInv' /\ tokens' = tokens
  BY <1>5, EndsQuietly DEF Refuse, Rollback
<1>6. ASSUME PassTime \/ UNCHANGED ogVars PROVE OGInv' /\ tokens' = tokens
  <2>1. clock' \in Instants
    BY <1>6, DurationsAssumption DEF PassTime, ogVars, OGInv, OGTypeOK, Instants
  <2>2. UNCHANGED <<codes, tokens, pc, wants, issue>>
    BY <1>6 DEF PassTime, ogVars
  <2> QED
    BY <2>1, <2>2, ElsewhereSafe
<1> QED
  BY <1>0, <1>1, <1>2, <1>3, <1>4, <1>5, <1>6, CommitSafe, RevokeSafe DEF OGNext, Answer

\* The inductive invariant (OGInv) holds in every reachable state.
THEOREM GrantsInvariant == OGSpec => []OGInv
<1>1. OGInv /\ [OGNext]_ogVars => OGInv'
  BY OGNext_Inv
<1> QED
  BY OGInit_Inv, <1>1, PTL DEF OGSpec

\* At most one pair of each grant is in force, for any number of overlapping requests:
\* the row locks of oauth.py:289-293 and 338-342 suffice.
THEOREM OnePairInForce == OGSpec => []OneLivePair
<1>1. OGInv => OneLivePair
  BY DEF OGInv
<1> QED
  BY GrantsInvariant, <1>1, PTL

\* Every pair carries the terms of the consent it goes back to (oauth.py:373-381).
THEOREM TermsKept == OGSpec => []GrantKeepsItsTerms
<1>1. OGInv => GrantKeepsItsTerms
  BY DEF OGInv
<1> QED
  BY GrantsInvariant, <1>1, PTL

\* Every variable keeps its type.
THEOREM GrantsTyped == OGSpec => []OGTypeOK
<1>1. OGInv => OGTypeOK
  BY DEF OGInv
<1> QED
  BY GrantsInvariant, <1>1, PTL

\* No rotation, also one that overlaps a revocation, revives a grant that has ended.
THEOREM EndedForGood == OGSpec => EndedGrantStaysEnded
<1>1. OGInv /\ [OGNext]_ogVars =>
        [\A c \in Codes : codes[c] # NoCode /\ ~ Offered(c) /\ ~ InForce(c) => ~ InForce(c)']_ogVars
  BY OGNext_Inv
<1> QED
  BY GrantsInvariant, <1>1, PTL DEF OGSpec, EndedGrantStaysEnded
=============================================================================
