--------------------------- MODULE AccessControl ---------------------------
(***************************************************************************)
(* Who a request acts for: sign-ins through Google and the codes, bearer   *)
(* tokens, refresh tokens and dashboard sessions they lead to              *)
(* (auth-service.ts, token-store.ts), service accounts and their secrets   *)
(* (service-account-store.ts), and the roles of the people                 *)
(* (principal-admin.ts, role-store.ts, authz.ts).                          *)
(*                                                                         *)
(* A request that is repeated, by a browser that reloads or a client that  *)
(* got no answer, is one more request: nothing limits how often a code or  *)
(* a token is presented.  An expired row is as good as deleted, and one    *)
(* may expire at any time; a service account that expired can be extended. *)
(***************************************************************************)
EXTENDS Naturals, FiniteSets

CONSTANTS
    SignIns,       \* visits of /authorize or /dashboard/login
    Dashboard,     \* those of the dashboard
    Accounts,      \* names of service accounts
    Secrets,       \* client secrets that exist at one time, drawn at random
    MaxActiveSecrets, \* MAX_ACTIVE_SECRETS
    MaxBorn,       \* bound on accounts created under a name
    People, Roles, \* human principals
    Config,        \* the roles in rwe.config.json's principals: a part of People
    Default,       \* the role of '*' there, "none" when it has none
    MaxCrashes     \* bound on crashes of the engine

ASSUME AccessAssumption ==
    /\ Dashboard \subseteq SignIns /\ {"admin", "none", Default} \subseteq Roles
    /\ DOMAIN Config \subseteq People /\ \A p \in DOMAIN Config : Config[p] \in Roles
    /\ {MaxActiveSecrets, MaxBorn, MaxCrashes} \subseteq Nat

VARIABLES
    asked,     \* sign-ins with a row in oauth_state
    verifying, \* sign-in -> callbacks that wait for Google
    codes, refreshes, sessions, \* sign-in -> rows in auth_codes, refresh_tokens, dashboard_sessions
    account,   \* name -> NoAccount, or the row of the service account
    born,      \* name -> accounts created under it
    retired,   \* deleted_service_accounts
    secrets,   \* rows of service_account_secrets: secret, name, and the account it was drawn for
    tokens,    \* rows of bearer_tokens of service accounts: name, and the account it was issued to
    override,  \* principal_roles: person -> role, or Unset
    known,     \* principals_seen and the holders of tokens and sessions
    crashes

people == <<override, known>>
signing == <<asked, verifying, codes, refreshes, sessions>>
machines == <<account, born, retired, secrets, tokens>>
vars == <<signing, machines, people, crashes>>

NoAccount == [is |-> "none"]
Account == [is : {"account"}, disabled : BOOLEAN, expired : BOOLEAN]
Unset == "unset"
None == [s \in SignIns |-> 0]
Issued == [name : Accounts, to : 1..MaxBorn]
Secret == [secret : Secrets, name : Accounts, to : 1..MaxBorn, expired : BOOLEAN]

Init ==
    /\ asked = {} /\ verifying = None /\ codes = None /\ refreshes = None /\ sessions = None
    /\ account = [a \in Accounts |-> NoAccount] /\ born = [a \in Accounts |-> 0]
    /\ retired = {} /\ secrets = {} /\ tokens = {}
    /\ override = [p \in People |-> Unset] /\ known = {} /\ crashes = 0

TypeOK ==
    /\ asked \subseteq SignIns /\ {verifying, codes, refreshes, sessions} \subseteq [SignIns -> Nat]
    /\ account \in [Accounts -> Account \cup {NoAccount}] /\ born \in [Accounts -> 0..MaxBorn]
    /\ retired \subseteq Accounts /\ secrets \subseteq Secret /\ tokens \subseteq Issued
    /\ override \in [People -> Roles \cup {Unset}] /\ known \subseteq People
    /\ crashes \in 0..MaxCrashes

-----------------------------------------------------------------------------
(* Signing in *)

Add(rows, s) == [rows EXCEPT ![s] = @ + 1]
Drop(rows, s) == [rows EXCEPT ![s] = @ - 1]

\* authorize and dashboardLogin: a fresh state.
Ask(s) ==
    /\ s \notin asked /\ verifying[s] + codes[s] + refreshes[s] + sessions[s] = 0
    /\ asked' = asked \cup {s}
    /\ UNCHANGED <<verifying, codes, refreshes, sessions, machines, people, crashes>>

\* googleCallback up to its fetch: the state is used up.
ConsumeLate(s) ==
    /\ s \in asked /\ verifying[s] < 2 /\ verifying' = Add(verifying, s)
    /\ UNCHANGED <<asked, codes, refreshes, sessions, machines, people, crashes>>
Consume(s) ==
    /\ s \in asked /\ asked' = asked \ {s} /\ verifying' = Add(verifying, s)
    /\ UNCHANGED <<codes, refreshes, sessions, machines, people, crashes>>

\* Google vouches for p: a session, or a code for the client.
Verified(s, p) ==
    /\ verifying[s] > 0 /\ verifying' = Drop(verifying, s) /\ known' = known \cup {p}
    /\ IF s \in Dashboard THEN sessions' = Add(sessions, s) /\ UNCHANGED codes
                          ELSE codes' = Add(codes, s) /\ UNCHANGED sessions
    /\ UNCHANGED <<asked, refreshes, machines, override, crashes>>

\* Google refuses, cannot be reached, or the identity does not verify.
NotVerified(s) ==
    /\ verifying[s] > 0 /\ verifying' = Drop(verifying, s)
    /\ UNCHANGED <<asked, codes, refreshes, sessions, machines, people, crashes>>

\* tokenExchange of a code: used up whether or not the rest of the request agrees with it; then
\* a bearer token and, for a client that takes one, a refresh token.
Exchange(s) ==
    /\ codes[s] > 0 /\ codes' = Drop(codes, s)
    /\ refreshes' \in {refreshes, Add(refreshes, s)}
    /\ UNCHANGED <<asked, verifying, sessions, machines, people, crashes>>

\* tokenExchange of a refresh token: it is replaced, or lost to a client that is not its own.
Rotated(s) == {refreshes, Drop(refreshes, s)}
Refresh(s) ==
    /\ refreshes[s] > 0 /\ refreshes' \in Rotated(s)
    /\ UNCHANGED <<asked, verifying, codes, sessions, machines, people, crashes>>

\* The rows' lifetimes, gcExpired, and the logout of a dashboard session.
Expire(s) ==
    /\ \/ s \in asked /\ asked' = asked \ {s} /\ UNCHANGED <<codes, refreshes, sessions>>
       \/ codes[s] > 0 /\ codes' = Drop(codes, s) /\ UNCHANGED <<asked, refreshes, sessions>>
       \/ refreshes[s] > 0 /\ refreshes' = Drop(refreshes, s) /\ UNCHANGED <<asked, codes, sessions>>
       \/ sessions[s] > 0 /\ sessions' = Drop(sessions, s) /\ UNCHANGED <<asked, codes, refreshes>>
    /\ UNCHANGED <<verifying, machines, people, crashes>>

-----------------------------------------------------------------------------
(* Service accounts *)

Live(a) == account[a].is = "account" /\ ~account[a].disabled /\ ~account[a].expired
Active(a) == {x \in secrets : x.name = a /\ ~x.expired}
Fresh == Secrets \ {x.secret : x \in secrets}
Drawn(a, to) == {[secret |-> x, name |-> a, to |-> to, expired |-> FALSE] : x \in Fresh}

\* A deleted name is never given again.
CreatableAgain(a) == account[a] = NoAccount
Creatable(a) == account[a] = NoAccount /\ a \notin retired

Insert(a) ==
    /\ Creatable(a) /\ born[a] < MaxBorn /\ born' = [born EXCEPT ![a] = @ + 1]
    /\ account' = [account EXCEPT ![a] = [is |-> "account", disabled |-> FALSE, expired |-> FALSE]]

Create(a) ==
    /\ Insert(a) /\ \E x \in Drawn(a, born[a] + 1) : secrets' = secrets \cup {x}
    /\ UNCHANGED <<signing, retired, tokens, people, crashes>>

\* update: its switch and its expiry, which may be extended after the fact.
Update(a) ==
    /\ account[a] # NoAccount
    /\ \E off \in BOOLEAN, out \in {FALSE, account[a].expired} :
          account' = [account EXCEPT ![a] = [@ EXCEPT !.disabled = off, !.expired = out]]
    /\ UNCHANGED <<signing, born, retired, secrets, tokens, people, crashes>>

RotateSecret(a) ==
    /\ account[a] # NoAccount /\ Cardinality(Active(a)) < MaxActiveSecrets
    /\ \E x \in Drawn(a, born[a]) : secrets' = secrets \cup {x}
    /\ UNCHANGED <<signing, account, born, retired, tokens, people, crashes>>

RevokeSecret(a) ==
    /\ \E x \in secrets : x.name = a /\ secrets' = secrets \ {x}
    /\ UNCHANGED <<signing, account, born, retired, tokens, people, crashes>>

\* The transaction of delete; its caller then revokes the tokens of the name.
Remove(a) ==
    /\ account[a] # NoAccount /\ account' = [account EXCEPT ![a] = NoAccount]
    /\ secrets' = {x \in secrets : x.name # a} /\ retired' = retired \cup {a}

Delete(a) ==
    /\ Remove(a) /\ tokens' = {t \in tokens : t.name # a}
    /\ UNCHANGED <<signing, born, people, crashes>>

\* tokenExchange of a client's credentials, verifyCredentials.
Accepts(a, x) == x.name = a /\ Live(a) /\ ~x.expired
ClientCredentials(a) ==
    /\ \E x \in secrets : Accepts(a, x) /\ tokens' = tokens \cup {[name |-> a, to |-> x.to]}
    /\ UNCHANGED <<signing, account, born, retired, secrets, people, crashes>>

\* Accounts, secrets and tokens reach the end of their time.
RunsOut ==
    /\ \/ \E a \in Accounts : /\ account[a] # NoAccount /\ account' = [account EXCEPT ![a].expired = TRUE]
                             /\ UNCHANGED <<secrets, tokens>>
       \/ \E x \in secrets : /\ secrets' = (secrets \ {x}) \cup {[x EXCEPT !.expired = TRUE]}
                             /\ UNCHANGED <<account, tokens>>
       \/ \E t \in tokens : tokens' = tokens \ {t} /\ UNCHANGED <<account, secrets>>
    /\ UNCHANGED <<signing, born, retired, people, crashes>>

-----------------------------------------------------------------------------
(* Roles *)

resolveRole(p, over) ==
    LET own == IF p \in DOMAIN Config THEN Config[p] ELSE Unset IN
    CASE own = "admin"    -> own
      [] own # "admin" /\ over[p] # Unset -> over[p]
      [] OTHER -> IF own = Unset THEN Default ELSE own

Known(over, seen) == DOMAIN Config \cup seen \cup {p \in People : over[p] # Unset}
Admins(over, seen) == {p \in Known(over, seen) : resolveRole(p, over) = "admin"}

\* Service accounts are known too, and taken for holders of the default role.
CountedMachines == {a \in Accounts : account[a] # NoAccount /\ Default = "admin"}

\* checkRoleChange.
Locked(p) == p \in DOMAIN Config /\ Config[p] = "admin"
RemainingBefore(p, after) == CountedMachines # {} \/ Admins(override, known \cup {p}) # {}
Remaining(p, after) == CountedMachines # {} \/ Admins(after, known \cup {p}) # {}
Allowed(p, after) ==
    /\ ~Locked(p)
    /\ resolveRole(p, override) = "admin" /\ resolveRole(p, after) # "admin" => Remaining(p, after)

\* setRole, of any id, known or not; Unset takes the override away.
SetRole(p, role) ==
    /\ Allowed(p, [override EXCEPT ![p] = role]) /\ override' = [override EXCEPT ![p] = role]
    /\ UNCHANGED <<signing, machines, known, crashes>>

-----------------------------------------------------------------------------
(* Crashes: callbacks that wait are lost, and handlers are cut between two statements. *)

Down ==
    /\ crashes < MaxCrashes /\ crashes' = crashes + 1 /\ verifying' = None
    /\ UNCHANGED <<asked, sessions, people>>

Crash == Down /\ UNCHANGED <<codes, refreshes, machines>>
CrashInExchange(s) == Down /\ codes[s] > 0 /\ codes' = Drop(codes, s) /\ UNCHANGED <<refreshes, machines>>
CrashInRefresh(s) == Down /\ refreshes[s] > 0 /\ refreshes' = Drop(refreshes, s) /\ UNCHANGED <<codes, machines>>
CrashInCreate(a) == Down /\ Insert(a) /\ UNCHANGED <<codes, refreshes, retired, secrets, tokens>>
CrashInDelete(a) == Down /\ Remove(a) /\ UNCHANGED <<codes, refreshes, born, tokens>>

Next ==
    \/ \E s \in SignIns : \/ Ask(s) \/ Consume(s) \/ NotVerified(s) \/ Exchange(s) \/ Refresh(s) \/ Expire(s)
                         \/ CrashInExchange(s) \/ CrashInRefresh(s)
    \/ \E s \in SignIns, p \in People : Verified(s, p)
    \/ \E a \in Accounts : \/ Create(a) \/ Update(a) \/ RotateSecret(a) \/ RevokeSecret(a) \/ Delete(a)
                          \/ ClientCredentials(a) \/ CrashInCreate(a) \/ CrashInDelete(a)
    \/ \E p \in People, role \in Roles \cup {Unset} : SetRole(p, role)
    \/ RunsOut \/ Crash

Spec == Init /\ [][Next]_vars

-----------------------------------------------------------------------------
\* A sign-in is worth one thing at a time: its state, a callback that waits for Google, a code,
\* a refresh token or a session.  However often a callback, a code or a refresh token is
\* presented again, and wherever a crash falls, it does not become two.
SingleUse == \A s \in SignIns :
    (IF s \in asked THEN 1 ELSE 0) + verifying[s] + codes[s] + refreshes[s] + sessions[s] <= 1

\* A bearer token or a secret that is accepted belongs to the account it was given to, and not
\* to a later one of the same name, also when a crash keeps the tokens of a deleted account.
ActsAsIssued ==
    /\ \A t \in tokens : Live(t.name) => t.to = born[t.name]
    /\ \A x \in secrets : Accepts(x.name, x) => x.to = born[x.name]

\* What a visit of the sign-in page is worth.
Place(s) ==
    CASE s \in asked -> "asked"
      [] verifying[s] > 0 -> "waiting"
      [] codes[s] > 0 -> "code"
      [] refreshes[s] > 0 -> "refresh"
      [] sessions[s] > 0 -> "session"
      [] OTHER -> "none"
places == [s \in SignIns |-> Place(s)]
Visits == INSTANCE SignIn WITH place <- places

\* Sign-ins keep the contract of SignIn: a code is had only for a callback Google vouched for, a
\* refresh token only for a code, a session only by the dashboard, and what was given up, used up
\* or cut by a crash never comes back without a new visit.
SignInsFollow == Visits!SSpec

\* No change of a role takes the last admin away from an engine that has one.
AdminRemains == [][Admins(override, known) # {} => Admins(override', known') # {}]_vars
=============================================================================
