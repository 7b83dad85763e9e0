-------------------------- MODULE DashboardProofs --------------------------
(***************************************************************************)
(* Theorems about sign-in and about the onboarding pages of a tab, for any *)
(* users and permissions, any number of handlers that run at once, of      *)
(* sessions, datasets and callbacks in flight, and any lives of tokens.    *)
(***************************************************************************)
EXTENDS Wizard, SequenceTheorems, TLAPS

USE DEF Never, Idle

(* Types of the accounts, sessions and tokens                              *)

\* The steps that touch what the API's auth and the tab's session stores hold
AuthStep ==
  \/ ApiAuthNext \/ SignOut
  \/ \E c \in Callers : LoginReturn(c) \/ \E u \in Users : LoginSelect(c, u)

LEMMA AuthAfter ==
  ASSUME [Next]_vars
  PROVE  AuthStep \/ UNCHANGED authVars
  BY DEF Next, vars, SignIn, AuthStep

LEMMA MintedType ==
  ASSUME AuthTypeOK, NEW u \in Users, NEW s \in Nat
  PROVE  MintedFor(u, s) \in Token
  BY LivesArePositive, ClockHasABound DEF AuthTypeOK, MintedFor, Token

\* A revoked row is stamped, and keeps the rest.
LEMMA RevokedRows ==
  ASSUME AuthTypeOK, NEW revoked, Revoke(revoked)
  PROVE  /\ sessions' \in Seq(SessionRow) /\ DOMAIN sessions' = DOMAIN sessions
         /\ \A s \in DOMAIN sessions :
              /\ sessions'[s].user = sessions[s].user /\ sessions'[s].exp = sessions[s].exp
              /\ sessions'[s].revokedAt = IF s \in revoked THEN clock ELSE sessions[s].revokedAt
<1>1. \A s \in DOMAIN sessions : sessions[s] \in SessionRow
  BY ElementOfSeq DEF AuthTypeOK
<1>2. clock \in Nat
  BY ClockHasABound DEF AuthTypeOK
<1>3. \A s \in DOMAIN sessions :
        /\ sessions'[s] \in SessionRow
        /\ sessions'[s].user = sessions[s].user /\ sessions'[s].exp = sessions[s].exp
        /\ sessions'[s].revokedAt = IF s \in revoked THEN clock ELSE sessions[s].revokedAt
  BY <1>1, <1>2 DEF Revoke, SessionRow
<1>4. Len(sessions) \in Nat /\ DOMAIN sessions = 1 .. Len(sessions)
  BY LenProperties DEF AuthTypeOK
<1>5. sessions' \in [1 .. Len(sessions) -> SessionRow]
  BY <1>3, <1>4 DEF Revoke
<1> QED BY <1>3, <1>4, <1>5, SeqDef

\* A session is issued as the last row.
LEMMA IssuedRow ==
  ASSUME AuthTypeOK, NEW c \in Callers, LoginIssue(c)
  PROVE  LET n == Len(sessions) + 1
             u == call[c].user
         IN  /\ u \in Users /\ n \in Nat /\ sessions' \in Seq(SessionRow)
             /\ DOMAIN sessions' = DOMAIN sessions \cup {n}
             /\ n \notin DOMAIN sessions
             /\ sessions'[n] = [user |-> u, exp |-> clock + RefreshLife, revokedAt |-> Never]
             /\ \A s \in DOMAIN sessions : sessions'[s] = sessions[s]
             /\ tokens' = tokens \cup {MintedFor(u, n)}
             /\ call' = [call EXCEPT ![c] = [op |-> "me", token |-> MintedFor(u, n)]]
             /\ UNCHANGED <<clock, account, lostAt, tab>>
<1> DEFINE row == [user |-> call[c].user, exp |-> clock + RefreshLife, revokedAt |-> Never]
<1>1. call[c] \in Call /\ call[c].op = "issue" /\ clock \in Nat
  BY ClockHasABound DEF LoginIssue, AuthTypeOK
<1>2. call[c].user \in Users
  BY <1>1 DEF Call
<1>3. row \in SessionRow
  BY <1>1, <1>2, LivesArePositive DEF SessionRow
<1>4. sessions' = Append(sessions, row)
  BY DEF LoginIssue
<1> HIDE DEF row
<1>5. /\ sessions' \in Seq(SessionRow) /\ Len(sessions) \in Nat
      /\ DOMAIN sessions = 1 .. Len(sessions) /\ DOMAIN sessions' = 1 .. Len(sessions) + 1
      /\ sessions'[Len(sessions) + 1] = row
      /\ \A s \in DOMAIN sessions : sessions'[s] = sessions[s]
  BY <1>3, <1>4, LenProperties, AppendProperties DEF AuthTypeOK
<1> QED BY <1>2, <1>5 DEF LoginIssue, row

LEMMA AuthTypeStep == AuthTypeOK /\ Grounds /\ [Next]_vars => AuthTypeOK'
<1> SUFFICES ASSUME AuthTypeOK, Grounds, AuthStep PROVE AuthTypeOK'
  <2>1. AuthTypeOK /\ UNCHANGED authVars => AuthTypeOK'
    BY DEF AuthTypeOK, authVars
  <2> QED BY <2>1, AuthAfter
<1>1. /\ clock \in Nat /\ clock <= MaxClock /\ sessions \in Seq(SessionRow)
      /\ \A s \in DOMAIN sessions : s \in Nat /\ sessions[s] \in SessionRow
      /\ account \in [Users -> [known : BOOLEAN, active : BOOLEAN, grants : SUBSET Perms]]
      /\ lostAt \in [Users -> [Perms -> Nat \cup {Never}]]
      /\ tokens \subseteq Token /\ call \in [Callers -> Call] /\ tab.token \in Token \cup {None}
  BY ElementOfSeq, LenProperties, ClockHasABound DEF AuthTypeOK
<1>2. ASSUME NEW c \in Callers, LoginIssue(c) PROVE AuthTypeOK'
  <2> DEFINE t == MintedFor(call[c].user, Len(sessions) + 1)
  <2>1. /\ t \in Token /\ sessions' \in Seq(SessionRow) /\ tokens' = tokens \cup {t}
        /\ call' = [call EXCEPT ![c] = [op |-> "me", token |-> t]]
        /\ UNCHANGED <<clock, account, lostAt, tab>>
    BY <1>2, IssuedRow, MintedType
  <2> HIDE DEF t
  <2>2. [op |-> "me", token |-> t] \in Call
    BY <2>1 DEF Call
  <2> QED BY <1>1, <2>1, <2>2 DEF AuthTypeOK
<1>3. ASSUME NEW c \in Callers, LoginLost(c) PROVE AuthTypeOK'
  BY <1>1, <1>3 DEF LoginLost, AuthTypeOK, Call
<1>4. ASSUME NEW c \in Callers, LoginProfile(c) PROVE AuthTypeOK'
  <2>1. call[c].token \in Token
    BY <1>1, <1>4 DEF LoginProfile, Call
  <2>2. [user |-> call[c].token.user, grants |-> call[c].token.grants] \in [user : Users, grants : SUBSET Perms]
    BY <2>1 DEF Token
  <2>3. call'[c] \in Call
    BY <1>1, <1>4, <2>1, <2>2 DEF LoginProfile, Call
  <2> QED BY <1>1, <1>4, <2>3 DEF LoginProfile, AuthTypeOK
<1>5. ASSUME NEW c \in Callers, RefreshMint(c) PROVE AuthTypeOK'
  <2>1. call[c].session \in DOMAIN sessions
    BY <1>5 DEF Grounds, CallHasGrounds, RefreshMint
  <2>2. MintedFor(sessions[call[c].session].user, call[c].session) \in Token
    BY <1>1, <2>1, MintedType DEF SessionRow
  <2> QED BY <1>1, <1>5, <2>2 DEF RefreshMint, AuthTypeOK, Call
<1>6. ASSUME NEW c \in Callers, NEW s \in DOMAIN sessions, RefreshSelect(c, s) PROVE AuthTypeOK'
  BY <1>1, <1>6 DEF RefreshSelect, AuthTypeOK, Call
<1>7. ASSUME NEW c \in Callers, NEW t \in tokens, NEW u \in Users, RegisterSelect(c, t, u) PROVE AuthTypeOK'
  BY <1>1, <1>7 DEF RegisterSelect, AuthTypeOK, Call
<1>8. ASSUME NEW c \in Callers, NEW granted \in SUBSET Perms, RegisterInsert(c, granted) PROVE AuthTypeOK'
  BY <1>1, <1>8 DEF RegisterInsert, AuthTypeOK, Call
<1>9. ASSUME NEW revoked, Revoke(revoked) PROVE AuthTypeOK'
  BY <1>1, <1>9, RevokedRows DEF AuthTypeOK, Revoke
<1>10. ASSUME NEW u \in Users, CreateAdmin(u) PROVE AuthTypeOK'
  BY <1>1, <1>10 DEF CreateAdmin, AuthTypeOK
<1>11. ASSUME NEW u \in Users, NEW a \in BOOLEAN, NEW g \in SUBSET Perms, EditAccount(u, a, g) PROVE AuthTypeOK'
  <2>1. account' \in [Users -> [known : BOOLEAN, active : BOOLEAN, grants : SUBSET Perms]]
    <3>1. account' = [account EXCEPT ![u] = [account[u] EXCEPT !.active = a, !.grants = g]]
      BY <1>11 DEF EditAccount
    <3>2. [account[u] EXCEPT !.active = a, !.grants = g]
            \in [known : BOOLEAN, active : BOOLEAN, grants : SUBSET Perms]
      BY <1>11, <1>1 DEF AuthTypeOK
    <3> QED BY <1>1, <3>1, <3>2 DEF AuthTypeOK
  <2>2. lostAt' \in [Users -> [Perms -> Nat \cup {Never}]]
    BY <1>1, <1>11 DEF EditAccount, AuthTypeOK
  <2>3. UNCHANGED <<clock, sessions, tokens, call, tab>>
    BY <1>11 DEF EditAccount
  <2> QED BY <1>1, <2>1, <2>2, <2>3 DEF AuthTypeOK
<1>12. CASE Tick
  BY <1>1, <1>12, ClockHasABound DEF Tick, AuthTypeOK
<1>13. CASE SignOut
  BY <1>1, <1>13 DEF SignOut, AuthTypeOK, SignedOut
<1>14. ASSUME NEW c \in Callers, LoginReturn(c) PROVE AuthTypeOK'
  <2>1. call[c].token \in Token
    BY <1>1, <1>14 DEF LoginReturn, Call
  <2> QED BY <1>1, <1>14, <2>1 DEF LoginReturn, AuthTypeOK, Call
<1>15. ASSUME NEW c \in Callers, NEW u \in Users, LoginSelect(c, u) PROVE AuthTypeOK'
  BY <1>1, <1>15 DEF LoginSelect, AuthTypeOK, Call
<1>16. ASSUME NEW t \in tokens, Logout(t) \/ LogoutAll(t) PROVE AuthTypeOK'
  BY <1>9, <1>16 DEF Logout, LogoutAll
<1> QED BY <1>2, <1>3, <1>4, <1>5, <1>6, <1>7, <1>8, <1>10, <1>11, <1>12, <1>13, <1>14, <1>15, <1>16
     DEF AuthStep, ApiAuthNext

-----------------------------------------------------------------------------
(* The grounds of a token                                                  *)

LEMMA GroundsStep == AuthTypeOK /\ Grounds /\ [Next]_vars => Grounds'
<1> SUFFICES ASSUME AuthTypeOK, Grounds, AuthStep PROVE Grounds'
  <2>1. Grounds /\ UNCHANGED authVars => Grounds'
    BY DEF Grounds, TokenHasGrounds, CallHasGrounds, Known, authVars
  <2> QED BY <2>1, AuthAfter
<1>0. /\ \A s \in DOMAIN sessions : s \in Nat /\ sessions[s] \in SessionRow
      /\ tokens \subseteq Token
  BY ElementOfSeq, LenProperties DEF AuthTypeOK
<1>1. /\ clock \in Nat /\ clock <= MaxClock /\ sessions \in Seq(SessionRow)
      /\ \A s \in DOMAIN sessions :
           /\ s \in Nat /\ sessions[s].user \in Users /\ sessions[s].exp \in Nat
           /\ sessions[s].revokedAt \in Nat \cup {Never}
      /\ account \in [Users -> [known : BOOLEAN, active : BOOLEAN, grants : SUBSET Perms]]
      /\ lostAt \in [Users -> [Perms -> Nat \cup {Never}]]
      /\ call \in [Callers -> Call]
      /\ \A t \in tokens : /\ t.user \in Users /\ t.grants \subseteq Perms /\ t.exp \in Nat
                           /\ t.session \in Nat
  BY <1>0, ClockHasABound DEF AuthTypeOK, SessionRow, Token
<1>2. AccessLife \in Nat /\ AccessLife > 0 /\ RefreshLife \in Nat /\ RefreshLife > 0
  BY LivesArePositive
\* A token minted now, for a row that has its user and may just have been revoked
<1>3. ASSUME NEW u \in Known', NEW s \in DOMAIN sessions', UNCHANGED <<clock, account, lostAt>>,
             NEW t, t = MintedFor(u, s), clock < sessions'[s].exp, sessions'[s].exp \in Nat,
             sessions'[s].revokedAt \in {Never, clock}
      PROVE  TokenHasGrounds(t)'
  BY <1>1, <1>2, <1>3 DEF TokenHasGrounds, MintedFor, Known
<1>4. ASSUME UNCHANGED <<clock, account, lostAt, sessions>>, NEW t, TokenHasGrounds(t)
      PROVE  TokenHasGrounds(t)'
  BY <1>4 DEF TokenHasGrounds, Known
<1>5. ASSUME UNCHANGED <<clock, account, lostAt, sessions, tokens>>,
             \A c \in Callers : CallHasGrounds(c) => CallHasGrounds(c)'
      PROVE  Grounds'
  BY <1>4, <1>5 DEF Grounds, Known
<1>6. ASSUME NEW c \in Callers, LoginIssue(c) PROVE Grounds'
  <2>1. PICK n, u, m : n = Len(sessions) + 1 /\ u = call[c].user /\ m = MintedFor(u, n)
    OBVIOUS
  <2>2. /\ u \in Users /\ n \in Nat /\ DOMAIN sessions' = DOMAIN sessions \cup {n}
        /\ sessions'[n] = [user |-> u, exp |-> clock + RefreshLife, revokedAt |-> Never]
        /\ \A s \in DOMAIN sessions : sessions'[s] = sessions[s]
        /\ tokens' = tokens \cup {m} /\ call' = [call EXCEPT ![c] = [op |-> "me", token |-> m]]
        /\ UNCHANGED <<clock, account, lostAt>>
    BY <1>6, <2>1, IssuedRow
  <2>3. u \in Known /\ Known' = Known
    BY <1>6, <2>1, <2>2 DEF LoginIssue, Grounds, CallHasGrounds, Known
  <2>4. TokenHasGrounds(m)'
    <3>1. /\ n \in DOMAIN sessions' /\ u \in Known' /\ sessions'[n].revokedAt = Never
          /\ clock < sessions'[n].exp /\ sessions'[n].exp \in Nat
      BY <1>1, <1>2, <2>2, <2>3
    <3> QED BY <1>3, <2>1, <2>2, <3>1
  <2>5. \A t \in tokens : TokenHasGrounds(t)'
    BY <2>2, <2>3 DEF Grounds, TokenHasGrounds
  <2>6. \A d \in Callers : CallHasGrounds(d)'
    BY <1>1, <2>2, <2>3 DEF Grounds, CallHasGrounds
  <2>7. \A s \in DOMAIN sessions' : sessions'[s].user \in Known'
    BY <2>2, <2>3 DEF Grounds
  <2> QED BY <2>2, <2>4, <2>5, <2>6, <2>7 DEF Grounds
<1>7. ASSUME NEW c \in Callers, LoginLost(c) \/ LoginProfile(c) \/ LoginReturn(c) PROVE Grounds'
  BY <1>1, <1>5, <1>7 DEF LoginLost, LoginProfile, LoginReturn, CallHasGrounds, Known
<1>8. ASSUME NEW c \in Callers, RefreshMint(c) PROVE Grounds'
  <2>1. PICK s, u, m : s = call[c].session /\ u = sessions[s].user /\ m = MintedFor(u, s)
    OBVIOUS
  <2>2. /\ s \in DOMAIN sessions /\ clock < sessions[s].exp /\ sessions[s].revokedAt \in {Never, clock}
        /\ u \in Known
    BY <1>8, <2>1 DEF RefreshMint, Grounds, CallHasGrounds
  <2>3. /\ UNCHANGED <<clock, account, lostAt, sessions>> /\ tokens' = tokens \cup {m}
        /\ call' = [call EXCEPT ![c] = [op |-> "idle"]] /\ Known' = Known
    BY <1>8, <2>1 DEF RefreshMint, Known
  <2>4. TokenHasGrounds(m)'
    BY <1>1, <1>3, <2>1, <2>2, <2>3
  <2>5. \A d \in Callers : CallHasGrounds(d)'
    BY <1>1, <2>3 DEF Grounds, CallHasGrounds
  <2> QED BY <1>1, <1>4, <2>3, <2>4, <2>5 DEF Grounds
<1>9. ASSUME NEW c \in Callers, NEW s \in DOMAIN sessions, RefreshSelect(c, s) PROVE Grounds'
  BY <1>1, <1>5, <1>9 DEF RefreshSelect, CallHasGrounds, Live, Known
<1>10. ASSUME NEW c \in Callers, NEW t \in tokens, NEW u \in Users, RegisterSelect(c, t, u) PROVE Grounds'
  BY <1>1, <1>5, <1>10 DEF RegisterSelect, CallHasGrounds, Known
\* An account is created or edited; who holds what is known of others is kept.
<1>18. ASSUME UNCHANGED <<clock, sessions, tokens>>, Known \subseteq Known',
              \A d \in Callers : call'[d] = call[d] \/ call'[d] = [op |-> "idle"],
              \A t \in tokens : TokenHasGrounds(t) =>
                \A p \in t.grants \ account'[t.user].grants : t.exp <= lostAt'[t.user][p] + AccessLife
       PROVE  Grounds'
  <2>1. \A t \in tokens : TokenHasGrounds(t)'
    BY <1>18 DEF Grounds, TokenHasGrounds
  <2>2. \A d \in Callers : CallHasGrounds(d)'
    BY <1>18 DEF Grounds, CallHasGrounds
  <2> QED BY <1>18, <2>1, <2>2 DEF Grounds
<1>11. ASSUME NEW c \in Callers, NEW granted \in SUBSET Perms, RegisterInsert(c, granted) PROVE Grounds'
  <2>1. PICK v : v = call[c].user
    OBVIOUS
  <2>2. /\ UNCHANGED <<clock, lostAt, sessions, tokens>> /\ call' = [call EXCEPT ![c] = [op |-> "idle"]]
        /\ account' = IF account[v].known THEN account
                      ELSE [account EXCEPT ![v] = [known |-> TRUE, active |-> TRUE, grants |-> granted]]
    BY <1>11, <2>1 DEF RegisterInsert
  <2>3. \A u \in Known : u \in Known' /\ account'[u] = account[u]
    BY <1>1, <2>2 DEF Known
  <2>4. \A t \in tokens : TokenHasGrounds(t) =>
          \A p \in t.grants \ account'[t.user].grants : t.exp <= lostAt'[t.user][p] + AccessLife
    BY <2>2, <2>3 DEF TokenHasGrounds
  <2> QED BY <1>1, <1>18, <2>2, <2>3, <2>4
<1>12. ASSUME NEW t \in tokens, Logout(t) \/ LogoutAll(t) PROVE Grounds'
  <2>1. PICK revoked : Revoke(revoked)
    BY <1>12 DEF Logout, LogoutAll
  <2>2. UNCHANGED <<clock, account, lostAt, tokens, call>> /\ Known' = Known
    BY <2>1 DEF Revoke, Known
  <2>3. /\ DOMAIN sessions' = DOMAIN sessions
        /\ \A s \in DOMAIN sessions :
             /\ sessions'[s].user = sessions[s].user /\ sessions'[s].exp = sessions[s].exp
             /\ sessions'[s].revokedAt \in {clock, sessions[s].revokedAt}
    BY <2>1, RevokedRows
  <2>4. \A u \in tokens : TokenHasGrounds(u)'
    BY <1>1, <1>2, <2>2, <2>3 DEF Grounds, TokenHasGrounds
  <2>5. \A c \in Callers : CallHasGrounds(c)'
    BY <2>2, <2>3 DEF Grounds, CallHasGrounds
  <2> QED BY <2>2, <2>3, <2>4, <2>5 DEF Grounds
<1>13. ASSUME NEW u \in Users, CreateAdmin(u) PROVE Grounds'
  <2>1. UNCHANGED <<clock, sessions, tokens, call>> /\ Known \subseteq Known'
    BY <1>1, <1>13 DEF CreateAdmin, Known
  <2>2. \A v \in Users : IF v = u THEN account'[v].grants = Perms
                         ELSE account'[v].grants = account[v].grants /\ lostAt'[v] = lostAt[v]
    BY <1>1, <1>13 DEF CreateAdmin
  <2>3. \A t \in tokens : TokenHasGrounds(t) =>
          \A p \in t.grants \ account'[t.user].grants : t.exp <= lostAt'[t.user][p] + AccessLife
    BY <1>1, <2>2 DEF TokenHasGrounds
  <2> QED BY <1>18, <2>1, <2>3
<1>14. ASSUME NEW u \in Users, NEW a \in BOOLEAN, NEW g \in SUBSET Perms, EditAccount(u, a, g) PROVE Grounds'
  <2>1. UNCHANGED <<clock, sessions, tokens, call>> /\ Known \subseteq Known'
    BY <1>1, <1>14 DEF EditAccount, Known
  <2>2. /\ \A v \in Users \ {u} : account'[v].grants = account[v].grants /\ lostAt'[v] = lostAt[v]
        /\ account'[u].grants = g
        /\ \A p \in Perms \ g : lostAt'[u][p] = IF p \in account[u].grants THEN clock ELSE lostAt[u][p]
    BY <1>1, <1>14 DEF EditAccount
  <2>3. ASSUME NEW t \in tokens, TokenHasGrounds(t), NEW p \in t.grants \ account'[t.user].grants
        PROVE  t.exp <= lostAt'[t.user][p] + AccessLife
    <3>1. /\ t.user \in Users /\ p \in Perms /\ t.exp <= clock + AccessLife
          /\ p \notin account[t.user].grants => t.exp <= lostAt[t.user][p] + AccessLife
      BY <1>1, <2>3 DEF TokenHasGrounds
    <3>2. CASE t.user = u
      BY <2>2, <2>3, <3>1, <3>2
    <3>3. CASE t.user # u
      BY <2>2, <2>3, <3>1, <3>3
    <3> QED BY <3>2, <3>3
  <2> QED BY <1>18, <2>1, <2>3
<1>15. CASE Tick
  <2>1. /\ clock' = clock + 1 /\ UNCHANGED <<account, sessions, call>> /\ Known' = Known
        /\ \A c \in Callers : call[c].op \notin {"issue", "mint", "insert"}
        /\ \A t \in tokens' : t \in tokens /\ t.exp > clock'
        /\ \A u \in Users, p \in Perms :
             lostAt'[u][p] = IF clock' < lostAt[u][p] + AccessLife THEN lostAt[u][p] ELSE Never
    BY <1>15 DEF Tick, Known
  <2>2. ASSUME NEW t \in tokens' PROVE TokenHasGrounds(t)'
    <3>1. t \in tokens /\ TokenHasGrounds(t) /\ t.exp > clock'
      BY <2>1 DEF Grounds
    <3>2. ASSUME NEW p \in t.grants \ account[t.user].grants PROVE t.exp <= lostAt'[t.user][p] + AccessLife
      <4>1. t.user \in Users /\ p \in Perms /\ lostAt[t.user][p] \in Nat \cup {Never}
        BY <1>1, <3>1
      <4>2. t.exp <= lostAt[t.user][p] + AccessLife
        BY <3>1 DEF TokenHasGrounds
      <4>3. clock' < lostAt[t.user][p] + AccessLife
        BY <1>1, <1>2, <2>1, <3>1, <4>1, <4>2
      <4> QED BY <2>1, <4>1, <4>2, <4>3
    <3> QED BY <1>1, <1>2, <2>1, <3>1, <3>2 DEF TokenHasGrounds
  <2>3. \A c \in Callers : CallHasGrounds(c)'
    BY <2>1 DEF CallHasGrounds
  <2> QED BY <2>1, <2>2, <2>3 DEF Grounds
<1>16. CASE SignOut
  BY <1>5, <1>16 DEF SignOut, CallHasGrounds, Known
<1>17. ASSUME NEW c \in Callers, NEW u \in Users, LoginSelect(c, u) PROVE Grounds'
  BY <1>1, <1>5, <1>17 DEF LoginSelect, CallHasGrounds, Known
<1> QED BY <1>6, <1>7, <1>8, <1>9, <1>10, <1>11, <1>12, <1>13, <1>14, <1>15, <1>16, <1>17
     DEF AuthStep, ApiAuthNext

Auth == AuthTypeOK /\ Grounds
LEMMA AuthKept == Spec => []Auth
<1>1. Init => Auth
  <2>1. AuthInit => AuthTypeOK
    BY EmptySeq, ClockHasABound DEF AuthInit, AuthTypeOK, SessionRow, Call, SignedOut
  <2>2. AuthInit => Grounds
    BY EmptySeq DEF AuthInit, Grounds, CallHasGrounds
  <2> QED BY <2>1, <2>2 DEF Init, Auth
<1> QED BY <1>1, AuthTypeStep, GroundsStep, PTL DEF Spec, Auth

\* Access ends with its grounds: a token that is accepted carries only permissions
\* held, and names only a session not revoked or expired, less than one access
\* lifetime ago (auth/deps.get_current_user, auth/routes.refresh).
THEOREM GroundsBoundAccess == Spec => []AccessEndsWithItsGrounds
<1>1. Auth => AccessEndsWithItsGrounds
  <2> SUFFICES ASSUME AuthTypeOK, Grounds, NEW t \in tokens
               PROVE  /\ \A p \in t.grants \ account[t.user].grants : clock < lostAt[t.user][p] + AccessLife
                      /\ sessions[t.session].revokedAt # Never
                           => clock < sessions[t.session].revokedAt + AccessLife
                      /\ clock < sessions[t.session].exp + AccessLife
    BY DEF Auth, AccessEndsWithItsGrounds
  <2>1. /\ TokenHasGrounds(t) /\ clock \in Nat /\ AccessLife \in Nat /\ t.exp \in Nat /\ t.user \in Users
        /\ t.grants \subseteq Perms
    BY LivesArePositive, ClockHasABound DEF Grounds, AuthTypeOK, Token
  <2>2. sessions[t.session] \in SessionRow
    BY <2>1, ElementOfSeq DEF TokenHasGrounds, AuthTypeOK
  <2>3. \A p \in t.grants : lostAt[t.user][p] \in Nat \cup {Never}
    BY <2>1 DEF AuthTypeOK
  <2> QED BY <2>1, <2>2, <2>3 DEF TokenHasGrounds, SessionRow
<1> QED BY <1>1, AuthKept, PTL

-----------------------------------------------------------------------------
(* The tab's stores                                                        *)

OneSignIn == StoresAreOneSignIn /\ AnswersAreOneSignIn

LEMMA OneSignInStep == AuthTypeOK /\ OneSignIn /\ [Next]_vars => OneSignIn'
<1> SUFFICES ASSUME AuthTypeOK, OneSignIn, AuthStep PROVE OneSignIn'
  <2>1. OneSignIn /\ UNCHANGED authVars => OneSignIn'
    BY DEF OneSignIn, StoresAreOneSignIn, AnswersAreOneSignIn, authVars
  <2> QED BY <2>1, AuthAfter
<1>1. call \in [Callers -> Call]
  BY DEF AuthTypeOK
<1>2. ASSUME NEW c \in Callers, LoginProfile(c) PROVE OneSignIn'
  BY <1>1, <1>2 DEF LoginProfile, Accepted, OneSignIn, StoresAreOneSignIn, AnswersAreOneSignIn
<1>3. ASSUME NEW c \in Callers, LoginReturn(c) PROVE OneSignIn'
  BY <1>1, <1>3 DEF LoginReturn, OneSignIn, StoresAreOneSignIn, AnswersAreOneSignIn
<1>4. CASE SignOut
  BY <1>4 DEF SignOut, OneSignIn, StoresAreOneSignIn, AnswersAreOneSignIn
<1>5. ASSUME UNCHANGED tab, \A c \in Callers : call'[c] = call[c] \/ call'[c].op # "answer" PROVE OneSignIn'
  BY <1>5 DEF OneSignIn, StoresAreOneSignIn, AnswersAreOneSignIn
<1>6. ASSUME NEW c \in Callers, LoginIssue(c) \/ LoginLost(c) \/ RefreshMint(c) PROVE OneSignIn'
  BY <1>1, <1>5, <1>6 DEF LoginIssue, LoginLost, RefreshMint
<1>7. ASSUME NEW c \in Callers, NEW s, RefreshSelect(c, s) PROVE OneSignIn'
  BY <1>1, <1>5, <1>7 DEF RefreshSelect
<1>8. ASSUME NEW c \in Callers, NEW t, NEW u, RegisterSelect(c, t, u) PROVE OneSignIn'
  BY <1>1, <1>5, <1>8 DEF RegisterSelect
<1>9. ASSUME NEW c \in Callers, NEW granted, RegisterInsert(c, granted) PROVE OneSignIn'
  BY <1>1, <1>5, <1>9 DEF RegisterInsert
<1>10. ASSUME NEW c \in Callers, NEW u, LoginSelect(c, u) PROVE OneSignIn'
  BY <1>1, <1>5, <1>10 DEF LoginSelect
<1>11. ASSUME UNCHANGED <<call, tab>> PROVE OneSignIn'
  BY <1>5, <1>11
<1>12. ASSUME NEW t, Logout(t) \/ LogoutAll(t) PROVE OneSignIn'
  BY <1>11, <1>12 DEF Logout, LogoutAll, Revoke
<1>13. ASSUME NEW u, CreateAdmin(u) \/ (\E a \in BOOLEAN, g \in SUBSET Perms : EditAccount(u, a, g)) PROVE OneSignIn'
  BY <1>11, <1>13 DEF CreateAdmin, EditAccount
<1>14. CASE Tick
  BY <1>11, <1>14 DEF Tick
<1> QED BY <1>2, <1>3, <1>4, <1>6, <1>7, <1>8, <1>9, <1>10, <1>12, <1>13, <1>14 DEF AuthStep, ApiAuthNext

\* The three stores of the tab are those of one sign-in, or all empty, however the
\* sign-ins and sign-outs in flight end (callbacks/auth.handle_login, handle_logout).
THEOREM StoresBelongTogether == Spec => []StoresAreOneSignIn
<1>1. Init => OneSignIn
  BY DEF Init, AuthInit, OneSignIn, StoresAreOneSignIn, AnswersAreOneSignIn
<1> QED BY <1>1, OneSignInStep, AuthKept, PTL DEF Spec, Auth, OneSignIn

-----------------------------------------------------------------------------
(* The store of the onboarding pages                                       *)

\* The steps of the tab's pages, of everything but the stores of the sign-in
LEMMA PagesAfter ==
  ASSUME [Next]_vars
  PROVE  (PageNext /\ UNCHANGED authVars) \/ UNCHANGED wizardVars
  BY DEF Next, vars, SignIn


\* The route is one of the pages, and the history stays a flag.
LEMMA RouteAfter ==
  ASSUME TypeOK, [Next]_vars
  PROVE  page' \in Pages /\ opened' \in BOOLEAN
<1>1. page \in Pages /\ opened \in BOOLEAN
  BY DEF TypeOK
<1>2. CASE UNCHANGED wizardVars
  BY <1>1, <1>2 DEF wizardVars
<1>3. CASE PageNext
  <2>1. page' \in Pages
    BY <1>1, <1>3 DEF PageNext, ReviewNext, StoreNext, Guard, AskReview, ShowReview, ReviewFails, EndReview, AddFeature,
       Go, Mount, SendUpload, SendConfirm, SendOpen, Send, ServeUpload, ServeConfirm, Fail, Return, Pages
  <2>2. opened' \in BOOLEAN
    <3>1. CASE UNCHANGED opened
      BY <1>1, <3>1
    <3>2. ASSUME NEW i \in Posts, Return(i) PROVE opened' \in BOOLEAN
      BY <1>1, <3>2, Zenon DEF Return
    <3> QED BY <1>3, <3>1, <3>2 DEF PageNext, ReviewNext, StoreNext, Guard, AskReview, ShowReview, ReviewFails,
          EndReview, AddFeature, Go, SendUpload, SendConfirm, SendOpen, Send, ServeUpload, ServeConfirm, Fail
  <2> QED BY <2>1, <2>2
<1> QED BY <1>2, <1>3, PagesAfter

LEMMA StoreAfter ==
  ASSUME TypeOK, AuthTypeOK, [Next]_vars
  PROVE  /\ store' \in Store /\ post' \in [Posts -> Post]
         /\ loaded' \in Seq(Datasets \cup {None}) /\ Len(loaded') <= MaxDatasets
<1>1. /\ store \in Store /\ post \in [Posts -> Post] /\ loaded \in Seq(Datasets \cup {None})
      /\ Len(loaded) \in Nat /\ Len(loaded) <= MaxDatasets /\ Registered = 1 .. Len(loaded)
      /\ MaxDatasets \in Nat
  BY LenProperties, BoundsOfTheTab DEF TypeOK, Registered
<1>2. CASE UNCHANGED <<store, post, loaded>>
  BY <1>1, <1>2
<1>3. ASSUME NEW i \in Posts, NEW p, NEW request \in Post, Send(i, p, request)
      PROVE  store' \in Store /\ post' \in [Posts -> Post] /\ loaded' = loaded
  BY <1>1, <1>3 DEF Send
<1>4. tab.token # None => tab.token \in Token
  BY DEF AuthTypeOK
<1>5. ASSUME NEW i \in Posts, SendUpload(i) \/ SendConfirm(i)
      PROVE  store' \in Store /\ post' \in [Posts -> Post] /\ loaded' = loaded
  <2>1. tab.token \in Token
    BY <1>4, <1>5 DEF SendUpload, SendConfirm, Send
  <2>2. /\ [op |-> "upload", token |-> tab.token] \in Post
        /\ [op |-> "confirm", snapshot |-> store, token |-> tab.token] \in Post
    BY <1>1, <2>1 DEF Post
  <2> QED BY <1>3, <1>5, <2>2 DEF SendUpload, SendConfirm
<1>6. ASSUME NEW i \in Posts, NEW d \in Registered, SendOpen(i, d)
      PROVE  store' \in Store /\ post' \in [Posts -> Post] /\ loaded' = loaded
  <2>1. tab.token \in Token
    BY <1>4, <1>6 DEF SendOpen, Send
  <2>2. d \in Datasets
    BY <1>1 DEF Datasets
  <2>3. [store EXCEPT !.dataset = d] \in Store
    BY <1>1, <2>2 DEF Store
  <2>4. [op |-> "opened", answer |-> [store EXCEPT !.dataset = d], token |-> tab.token] \in Post
    BY <2>1, <2>3 DEF Post
  <2> QED BY <1>3, <1>6, <2>4 DEF SendOpen
<1>7. ASSUME NEW i \in Posts, ServeUpload(i) PROVE store' \in Store /\ post' \in [Posts -> Post]
                /\ loaded' \in Seq(Datasets \cup {None}) /\ Len(loaded') <= MaxDatasets
  <2>1. Len(loaded) + 1 \in Datasets
    BY <1>1, <1>7 DEF ServeUpload, Datasets
  <2>2. [op |-> "uploaded", answer |-> [dataset |-> Len(loaded) + 1, file |-> Len(loaded) + 1]] \in Post
    BY <2>1 DEF Post, Store
  <2>3. loaded' \in Seq(Datasets \cup {None}) /\ Len(loaded') = Len(loaded) + 1
    BY <1>1, <1>7, AppendProperties DEF ServeUpload
  <2> QED BY <1>1, <1>7, <2>1, <2>2, <2>3 DEF ServeUpload, Datasets
<1>8. ASSUME NEW i \in Posts, ServeConfirm(i) PROVE store' \in Store /\ post' \in [Posts -> Post]
                /\ loaded' \in Seq(Datasets \cup {None}) /\ Len(loaded') <= MaxDatasets
  <2>1. post[i].snapshot \in Store
    BY <1>1, <1>8 DEF ServeConfirm, Post, NoPost
  <2>2. [op |-> "confirmed", answer |-> post[i].snapshot] \in Post
    BY <2>1 DEF Post
  <2>3. post[i].snapshot.file \in Datasets \cup {None}
    BY <2>1 DEF Store
  <2>4. loaded' \in Seq(Datasets \cup {None}) /\ Len(loaded') = Len(loaded)
    <3>1. loaded' = [loaded EXCEPT ![post[i].snapshot.dataset] = post[i].snapshot.file]
      BY <1>8 DEF ServeConfirm
    <3>2. loaded \in [1 .. Len(loaded) -> Datasets \cup {None}]
      BY <1>1
    <3>3. loaded' \in [1 .. Len(loaded) -> Datasets \cup {None}]
      BY <2>3, <3>1, <3>2
    <3> QED BY <1>1, <3>3, SeqDef
  <2> QED BY <1>1, <1>8, <2>2, <2>4 DEF ServeConfirm
<1>9. ASSUME NEW i \in Posts, Fail(i) PROVE UNCHANGED <<store, loaded>> /\ post' \in [Posts -> Post]
  BY <1>1, <1>9 DEF Fail, Post
<1>10. ASSUME NEW i \in Posts, Return(i) PROVE store' \in Store /\ post' \in [Posts -> Post] /\ loaded' = loaded
  <2>1. post[i].answer \in Store
    BY <1>1, <1>10 DEF Return, Post, NoPost
  <2> QED BY <1>1, <1>10, <2>1 DEF Return, Post
<1>11. CASE Guard
  BY <1>1, <1>11 DEF Guard, Post
<1>12. CASE AskReview \/ ShowReview \/ ReviewFails \/ AddFeature \/ \E p \in Pages : Go(p)
  BY <1>2, <1>12 DEF AskReview, ShowReview, ReviewFails, EndReview, AddFeature, Go
<1> QED BY <1>1, <1>2, <1>5, <1>6, <1>7, <1>8, <1>9, <1>10, <1>11, <1>12, PagesAfter DEF PageNext, ReviewNext, StoreNext, wizardVars

LEMMA WizardTyped == Spec => []TypeOK
<1>1. Init => TypeOK
  <2>1. AuthInit => AuthTypeOK
    BY EmptySeq, ClockHasABound DEF AuthInit, AuthTypeOK, SessionRow, Call, SignedOut
  <2>2. WizardInit => loaded \in Seq(Datasets \cup {None}) /\ Len(loaded) = 0
    BY EmptySeq DEF WizardInit
  <2>3. WizardInit => store \in Store /\ post \in [Posts -> Post] /\ page \in Pages
    BY DEF WizardInit, Store, Post, EmptyStore, Pages
  <2>4. WizardInit => opened \in BOOLEAN
    BY Zenon DEF WizardInit
  <2> QED BY <2>1, <2>2, <2>3, <2>4, BoundsOfTheTab DEF Init, TypeOK
<1>2. TypeOK /\ AuthTypeOK' /\ [Next]_vars => TypeOK'
  <2> SUFFICES ASSUME TypeOK, AuthTypeOK', [Next]_vars PROVE TypeOK'
    OBVIOUS
  <2>1. AuthTypeOK
    BY DEF TypeOK
  <2> QED BY <2>1, RouteAfter, StoreAfter DEF TypeOK
<1> QED BY <1>1, <1>2, AuthKept, PTL DEF Spec, Auth

\* A dataset is loaded from another's file only after a dataset has been opened over a
\* store that held a file: until then, the store and all in flight name a dataset with
\* its own file, or none.
LEMMA OwnFilesStep == TypeOK /\ OwnFiles /\ [Next]_vars => OwnFiles'
<1> SUFFICES ASSUME TypeOK, OwnFiles, [Next]_vars, ~ opened' PROVE OwnFiles'
  BY DEF OwnFiles
<1>1. /\ store \in Store /\ post \in [Posts -> Post] /\ Registered = 1 .. Len(loaded)
      /\ loaded \in Seq(Datasets \cup {None}) /\ Len(loaded) \in Nat
  BY LenProperties DEF TypeOK, Registered
<1>2. ~ opened
  BY DEF Next, PageNext, ReviewNext, StoreNext, Guard, AskReview, ShowReview, ReviewFails, EndReview, AddFeature, Go,
     SendUpload, SendConfirm, SendOpen, Send, ServeUpload, ServeConfirm, Fail, Return, SignIn, vars, wizardVars
<1>3. /\ Own(store)
      /\ \A i \in Posts : /\ post[i].op = "confirm" => Own(post[i].snapshot)
                          /\ post[i].op \in {"uploaded", "confirmed"} => Own(post[i].answer)
      /\ \A d \in Registered : loaded[d] \in {None, d}
  BY <1>2 DEF OwnFiles
\* What a callback leaves in its slot
<1>4. ASSUME UNCHANGED <<store, loaded>>, NEW i \in Posts, NEW r,
             post' = [post EXCEPT ![i] = r],
             r.op = "confirm" => Own(r.snapshot),
             r.op \in {"uploaded", "confirmed"} => Own(r.answer)
      PROVE  OwnFiles'
  BY <1>1, <1>3, <1>4 DEF OwnFiles, Own, Registered
<1>5. CASE UNCHANGED <<store, post, loaded>>
  BY <1>3, <1>5 DEF OwnFiles, Own, Registered
<1>6. ASSUME NEW i \in Posts, SendUpload(i) PROVE OwnFiles'
  <2>1. PICK r : r = [op |-> "upload", token |-> tab.token]
    OBVIOUS
  <2> QED BY <1>4, <1>6, <2>1 DEF SendUpload, Send
<1>7. ASSUME NEW i \in Posts, SendConfirm(i) PROVE OwnFiles'
  <2>1. PICK r : r = [op |-> "confirm", snapshot |-> store, token |-> tab.token]
    OBVIOUS
  <2>2. Own(r.snapshot)
    BY <1>3, <2>1
  <2> QED BY <1>4, <1>7, <2>1, <2>2 DEF SendConfirm, Send
<1>8. ASSUME NEW i \in Posts, NEW d, SendOpen(i, d) PROVE OwnFiles'
  <2>1. PICK r : r = [op |-> "opened", answer |-> [store EXCEPT !.dataset = d], token |-> tab.token]
    OBVIOUS
  <2> QED BY <1>4, <1>8, <2>1 DEF SendOpen, Send
<1>9. ASSUME NEW i \in Posts, ServeUpload(i) PROVE OwnFiles'
  <2>1. PICK n, r : n = Len(loaded) + 1 /\ r = [op |-> "uploaded", answer |-> [dataset |-> n, file |-> n]]
    OBVIOUS
  <2>2. post' = [post EXCEPT ![i] = r] /\ store' = store /\ loaded' = Append(loaded, None)
    BY <1>9, <2>1 DEF ServeUpload
  <2>3. Own(r.answer) /\ r.op = "uploaded"
    BY <2>1 DEF Own
  <2>4. Registered' = 1 .. n /\ \A d \in Registered' : loaded'[d] = IF d = n THEN None ELSE loaded[d]
    BY <1>1, <2>1, <2>2, AppendProperties DEF Registered
  <2>5. \A d \in Registered' : loaded'[d] \in {None, d}
    BY <1>1, <1>3, <2>1, <2>4
  <2>6. Own(store)' /\ \A j \in Posts : /\ (post[j].op = "confirm" => Own(post[j].snapshot))'
                                       /\ (post[j].op \in {"uploaded", "confirmed"} => Own(post[j].answer))'
    BY <1>1, <1>3, <2>2, <2>3 DEF Own
  <2> QED BY <2>5, <2>6 DEF OwnFiles
<1>10. ASSUME NEW i \in Posts, ServeConfirm(i) PROVE OwnFiles'
  <2>1. PICK s, r : s = post[i].snapshot /\ r = [op |-> "confirmed", answer |-> s]
    OBVIOUS
  <2>2. /\ post' = [post EXCEPT ![i] = r] /\ store' = store /\ Own(s)
        /\ loaded' = [loaded EXCEPT ![s.dataset] = s.file]
    BY <1>3, <1>10, <2>1 DEF ServeConfirm
  <2>3. Own(r.answer) /\ r.op = "confirmed"
    BY <2>1, <2>2
  <2>4. Registered' = Registered /\ \A d \in Registered : loaded'[d] = IF d = s.dataset THEN s.file ELSE loaded[d]
    BY <1>1, <2>2 DEF Registered
  <2>5. \A d \in Registered' : loaded'[d] \in {None, d}
    BY <1>3, <2>2, <2>4 DEF Own
  <2>6. Own(store)' /\ \A j \in Posts : /\ (post[j].op = "confirm" => Own(post[j].snapshot))'
                                       /\ (post[j].op \in {"uploaded", "confirmed"} => Own(post[j].answer))'
    BY <1>1, <1>3, <2>2, <2>3 DEF Own
  <2> QED BY <2>5, <2>6 DEF OwnFiles
<1>11. ASSUME NEW i \in Posts, Fail(i) PROVE OwnFiles'
  BY <1>4, <1>11 DEF Fail, NoPost
<1>12. ASSUME NEW i \in Posts, Return(i) PROVE OwnFiles'
  <2>1. Own(post[i].answer)
    <3>1. post[i].op = "opened" => post[i].answer.file = None
      BY <1>12 DEF Return
    <3> QED BY <1>3, <1>12, <3>1 DEF Return, Own
  <2>2. /\ store' = post[i].answer /\ loaded' = loaded
        /\ post' = [post EXCEPT ![i] = [op |-> "none"]]
    BY <1>12 DEF Return, NoPost
  <2> QED BY <1>1, <1>3, <2>1, <2>2 DEF OwnFiles, Own, Registered
<1>13. CASE Guard
  <2>1. UNCHANGED <<store, loaded>> /\ \A i \in Posts : post'[i] = [op |-> "none"]
    BY <1>13 DEF Guard, NoPost
  <2> QED BY <1>3, <2>1 DEF OwnFiles, Own, Registered
<1>14. CASE AskReview \/ ShowReview \/ ReviewFails \/ AddFeature \/ \E p \in Pages : Go(p)
  BY <1>5, <1>14 DEF AskReview, ShowReview, ReviewFails, EndReview, AddFeature, Go
<1> QED BY <1>5, <1>6, <1>7, <1>8, <1>9, <1>10, <1>11, <1>12, <1>13, <1>14, PagesAfter DEF PageNext, ReviewNext, StoreNext, wizardVars

\* A dataset is loaded from another dataset's file only after a dataset was opened over
\* a store that held a file (datasets.open_dataset, mapping_confirm.handle_confirm).
THEOREM OnlyAnOpenedDatasetIsMixed == Spec => []OnlyOpeningMixes
<1>1. Init => OwnFiles
  BY DEF Init, WizardInit, OwnFiles, Own, EmptyStore, NoPost, Registered
<1>2. OwnFiles => OnlyOpeningMixes
  BY DEF OwnFiles, OnlyOpeningMixes
<1> QED BY <1>1, <1>2, OwnFilesStep, WizardTyped, PTL DEF Spec
=============================================================================
