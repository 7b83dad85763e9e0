------------------------------ MODULE Sessions ------------------------------
(* Sign-in, refresh and sign-out: the API's accounts, refresh-token rows and  *)
(* access tokens, and the three session stores of one dashboard tab.          *)
(* Code: services/api-gateway/api_app/auth, dashboard callbacks/auth.py.      *)
(* Passwords, e-mail addresses and signatures are not modelled: a request     *)
(* here presents a good password, and a token is the claims it carries.       *)
EXTENDS Integers, Sequences, FiniteSets

CONSTANTS
  Users, Perms,        \* accounts and the permission codes roles grant
  Admin,               \* the account created before the API serves
  Manage,              \* the permission /auth/register asks for (user:manage)
  Callers,             \* handlers that may run at once
  AccessLife,          \* access_token_expire_minutes, in units of the clock
  RefreshLife,         \* refresh_token_expire_days, in units of the clock
  MaxClock,            \* bound: the clock stops here
  MaxSessions,         \* bound: refresh-token rows
  None

ASSUME LivesArePositive == AccessLife \in Nat \ {0} /\ RefreshLife \in Nat \ {0}
ASSUME ManageIsAPermission == Manage \in Perms
ASSUME AdminIsAUser == Admin \in Users
ASSUME ClockHasABound == MaxClock \in Nat /\ MaxSessions \in Nat

VARIABLES
  clock,
  account,    \* auth.users with the permissions of its roles
  lostAt,     \* history: when a user lost a permission, if within AccessLife
  sessions,   \* auth.refresh_tokens, in order of issue
  tokens,     \* the access tokens issued and not expired
  call,       \* the handler each caller is in, between two statements
  tab         \* the ACCESS_TOKEN, AUTH_REFRESH_TOKEN and AUTH_USER stores

authVars == <<clock, account, lostAt, sessions, tokens, call, tab>>

Never == -1
Idle == [op |-> "idle"]
SignedOut == [token |-> None, session |-> None, profile |-> None]

Token == [user : Users, grants : SUBSET Perms, exp : Nat, session : Nat]
SessionRow == [user : Users, exp : Nat, revokedAt : Nat \cup {Never}]
Call == {Idle} \cup [op : {"issue", "insert"}, user : Users]
        \cup [op : {"mint"}, session : Nat]
        \cup [op : {"me"}, token : Token]
        \cup [op : {"answer"}, token : Token, profile : [user : Users, grants : SUBSET Perms]]

(* get_current_user: not expired, and the account still active in the table. *)
Accepted(t) == t # None /\ t.exp > clock /\ account[t.user].active

(* require_permission: the permissions are the token's, not the table's. *)
Permitted(t, p) == Accepted(t) /\ p \in t.grants

Live(s) == sessions[s].revokedAt = Never /\ sessions[s].exp > clock

MintedFor(u, s) ==
  [user |-> u, grants |-> account[u].grants, exp |-> clock + AccessLife, session |-> s]

AuthInit ==
  /\ clock = 0
  /\ account = [u \in Users |-> [known |-> u = Admin, active |-> u = Admin,
                                 grants |-> IF u = Admin THEN Perms ELSE {}]]
  /\ lostAt = [u \in Users |-> [p \in Perms |-> Never]]
  /\ sessions = <<>>
  /\ tokens = {}
  /\ call = [c \in Callers |-> Idle]
  /\ tab = SignedOut

(* login reads the account, and refuses an inactive one. *)
LoginSelect(c, u) ==
  /\ call[c] = Idle /\ account[u].known /\ account[u].active
  /\ call' = [call EXCEPT ![c] = [op |-> "issue", user |-> u]]
  /\ UNCHANGED <<clock, account, lostAt, sessions, tokens, tab>>

(* _issue_tokens reads roles and permissions, mints, inserts the row, commits. *)
LoginIssue(c) ==
  /\ call[c].op = "issue" /\ Len(sessions) < MaxSessions
  /\ LET u == call[c].user
         t == MintedFor(u, Len(sessions) + 1)
     IN  /\ sessions' = Append(sessions,
              [user |-> u, exp |-> clock + RefreshLife, revokedAt |-> Never])
         /\ tokens' = tokens \cup {t}
         /\ call' = [call EXCEPT ![c] = [op |-> "me", token |-> t]]
  /\ UNCHANGED <<clock, account, lostAt, tab>>

(* handle_login's second call fails, or the sign-in answer never reaches the   *)
(* tab: the tab keeps what it had, and the API keeps the row it inserted.      *)
LoginLost(c) ==
  /\ call[c].op \in {"me", "answer"}
  /\ call' = [call EXCEPT ![c] = Idle]
  /\ UNCHANGED <<clock, account, lostAt, sessions, tokens, tab>>

(* /auth/me answers with the token's own permissions. *)
LoginProfile(c) ==
  /\ call[c].op = "me" /\ Accepted(call[c].token)
  /\ call' = [call EXCEPT ![c] =
       [op |-> "answer", token |-> call[c].token,
        profile |-> [user |-> call[c].token.user, grants |-> call[c].token.grants]]]
  /\ UNCHANGED <<clock, account, lostAt, sessions, tokens, tab>>

(* handle_login sets the three stores together. *)
LoginReturn(c) ==
  /\ call[c].op = "answer"
  /\ tab' = [token |-> call[c].token, session |-> call[c].token.session,
             profile |-> call[c].profile]
  /\ call' = [call EXCEPT ![c] = Idle]
  /\ UNCHANGED <<clock, account, lostAt, sessions, tokens>>

(* Mutant: the row is matched by its hash alone. *)
RefreshAnyRow(c, s) ==
  /\ call[c] = Idle /\ account[sessions[s].user].active
  /\ call' = [call EXCEPT ![c] = [op |-> "mint", session |-> s]]
  /\ UNCHANGED <<clock, account, lostAt, sessions, tokens, tab>>

(* refresh finds the row neither revoked nor expired, of an active user. *)
RefreshSelect(c, s) ==
  /\ call[c] = Idle /\ Live(s) /\ account[sessions[s].user].active
  /\ call' = [call EXCEPT ![c] = [op |-> "mint", session |-> s]]
  /\ UNCHANGED <<clock, account, lostAt, sessions, tokens, tab>>

(* ... re-reads the permissions and mints an access token. *)
RefreshMint(c) ==
  /\ call[c].op = "mint"
  /\ tokens' = tokens \cup {MintedFor(sessions[call[c].session].user, call[c].session)}
  /\ call' = [call EXCEPT ![c] = Idle]
  /\ UNCHANGED <<clock, account, lostAt, sessions, tab>>

(* logout revokes one row of the caller, logout_all every row. *)
Revoke(revoked) ==
  /\ sessions' = [s \in DOMAIN sessions |->
       IF s \in revoked THEN [sessions[s] EXCEPT !.revokedAt = clock] ELSE sessions[s]]
  /\ UNCHANGED <<clock, account, lostAt, tokens, call, tab>>

Unrevoked(u) == {s \in DOMAIN sessions : sessions[s].user = u /\ sessions[s].revokedAt = Never}
Logout(t) == Accepted(t) /\ \E s \in Unrevoked(t.user) : Revoke({s})
LogoutAll(t) == Accepted(t) /\ Unrevoked(t.user) # {} /\ Revoke(Unrevoked(t.user))

(* register: the address is looked up, and inserted by a later statement. *)
RegisterSelect(c, t, u) ==
  /\ call[c] = Idle /\ Permitted(t, Manage) /\ ~account[u].known
  /\ call' = [call EXCEPT ![c] = [op |-> "insert", user |-> u]]
  /\ UNCHANGED <<clock, account, lostAt, sessions, tokens, tab>>

(* The insert of an address another request has registered meanwhile breaks    *)
(* the UNIQUE constraint: that request fails and leaves the account as it is.  *)
RegisterInsert(c, granted) ==
  /\ call[c].op = "insert"
  /\ call' = [call EXCEPT ![c] = Idle]
  /\ account' = IF account[call[c].user].known THEN account
                ELSE [account EXCEPT ![call[c].user] =
                        [known |-> TRUE, active |-> TRUE, grants |-> granted]]
  /\ UNCHANGED <<clock, lostAt, sessions, tokens, tab>>

(* bootstrap.create_admin: creates the account, or activates and promotes it. *)
CreateAdmin(u) ==
  /\ account' = [account EXCEPT ![u] = [known |-> TRUE, active |-> TRUE, grants |-> Perms]]
  /\ lostAt' = [lostAt EXCEPT ![u] = [p \in Perms |-> Never]]
  /\ UNCHANGED <<clock, sessions, tokens, call, tab>>

(* External: an administrator edits the account's row or its roles by hand. *)
EditAccount(u, active, grants) ==
  /\ account[u].known
  /\ account' = [account EXCEPT ![u].active = active, ![u].grants = grants]
  /\ lostAt' = [lostAt EXCEPT ![u] =
       [p \in Perms |-> IF p \in grants THEN Never
                       ELSE IF p \in account[u].grants THEN clock ELSE lostAt[u][p]]]
  /\ UNCHANGED <<clock, sessions, tokens, call, tab>>

(* Mutant: sign-out clears the access token only. *)
SignOutToken ==
  /\ tab' = [tab EXCEPT !.token = None]
  /\ UNCHANGED <<clock, account, lostAt, sessions, tokens, call>>

(* handle_logout clears the three stores; it makes no call to the API. *)
SignOut ==
  /\ tab' = SignedOut
  /\ UNCHANGED <<clock, account, lostAt, sessions, tokens, call>>

(* The statements of one handler run within one unit of the clock. *)
Tick ==
  /\ clock < MaxClock /\ \A c \in Callers : call[c].op \notin {"issue", "mint", "insert"}
  /\ clock' = clock + 1
  /\ tokens' = {t \in tokens : t.exp > clock'}
  /\ lostAt' = [u \in Users |-> [p \in Perms |->
       IF clock' < lostAt[u][p] + AccessLife THEN lostAt[u][p] ELSE Never]]
  /\ UNCHANGED <<account, sessions, call, tab>>

ApiAuthNext ==
  \/ \E c \in Callers :
       \/ LoginIssue(c) \/ LoginLost(c) \/ LoginProfile(c) \/ RefreshMint(c)
       \/ \E s \in DOMAIN sessions : RefreshSelect(c, s)
       \/ \E t \in tokens, u \in Users : RegisterSelect(c, t, u)
       \/ \E granted \in SUBSET Perms : RegisterInsert(c, granted)
  \/ \E t \in tokens : Logout(t) \/ LogoutAll(t)
  \/ \E u \in Users : CreateAdmin(u) \/ \E a \in BOOLEAN, g \in SUBSET Perms : EditAccount(u, a, g)
  \/ Tick

AuthTypeOK ==
  /\ clock \in 0..MaxClock
  /\ account \in [Users -> [known : BOOLEAN, active : BOOLEAN, grants : SUBSET Perms]]
  /\ lostAt \in [Users -> [Perms -> Nat \cup {Never}]]
  /\ sessions \in Seq(SessionRow) /\ tokens \subseteq Token /\ call \in [Callers -> Call]
  /\ tab.token \in Token \cup {None}

(* Access ends with its grounds: while a token is accepted, each permission it *)
(* carries is held or was lost less than one access lifetime ago, and its      *)
(* session was revoked or expired less than one access lifetime ago. The token *)
(* is checked against none of these, so sign-out, expiry and the loss of a     *)
(* role take effect only through refresh (auth/routes.py refresh).             *)
AccessEndsWithItsGrounds ==
  \A t \in tokens : Accepted(t) =>
    /\ \A p \in t.grants \ account[t.user].grants : clock < lostAt[t.user][p] + AccessLife
    /\ sessions[t.session].revokedAt # Never => clock < sessions[t.session].revokedAt + AccessLife
    /\ clock < sessions[t.session].exp + AccessLife

(* The tab's three stores are those of one sign-in, or all empty, however      *)
(* sign-ins and sign-outs in flight end (callbacks/auth.py): the menu drawn    *)
(* from the profile is the menu of the token the calls are made with.          *)
StoresAreOneSignIn ==
  \/ tab = SignedOut
  \/ /\ tab.token # None /\ tab.session = tab.token.session
     /\ tab.profile = [user |-> tab.token.user, grants |-> tab.token.grants]

(* The invariants behind them. The grounds of a token: it was minted at most    *)
(* one access lifetime ago, for a known account and an issued row, while it     *)
(* held what it grants; a refresh that has found its row still holds it.        *)
Known == {u \in Users : account[u].known}
TokenHasGrounds(t) ==
  /\ clock < t.exp /\ t.exp <= clock + AccessLife
  /\ t.session \in DOMAIN sessions /\ t.user \in Known
  /\ \A p \in t.grants \ account[t.user].grants : t.exp <= lostAt[t.user][p] + AccessLife
  /\ sessions[t.session].revokedAt # Never => t.exp <= sessions[t.session].revokedAt + AccessLife
  /\ t.exp <= sessions[t.session].exp + AccessLife
CallHasGrounds(c) ==
  /\ call[c].op = "issue" => call[c].user \in Known
  /\ call[c].op = "mint" =>
       /\ call[c].session \in DOMAIN sessions
       /\ clock < sessions[call[c].session].exp
       /\ sessions[call[c].session].revokedAt \in {Never, clock}
Grounds ==
  /\ \A t \in tokens : TokenHasGrounds(t)
  /\ \A c \in Callers : CallHasGrounds(c)
  /\ \A s \in DOMAIN sessions : sessions[s].user \in Known

(* ... and an answer to the tab is the profile of its own token.                *)
AnswersAreOneSignIn ==
  \A c \in Callers : call[c].op = "answer" =>
    /\ call[c].token # None
    /\ call[c].profile = [user |-> call[c].token.user, grants |-> call[c].token.grants]
=============================================================================
