------------------------- MODULE AccessControlProofs -------------------------
(***************************************************************************)
(* Nothing that is good once is good twice, nothing given to a service     *)
(* account serves a later one of its name, and the last admin stays, for   *)
(* any sign-ins, accounts, people and roles.  The second rests on a name   *)
(* being given once: an account that was created is there or its name is   *)
(* retired (Once).                                                         *)
(***************************************************************************)
EXTENDS AccessControl, TLAPS

\* A name is born at most once, and what is given out carries that birth.
Once ==
    /\ \A a \in Accounts :
          /\ born[a] \in {0, 1}
          /\ born[a] = 1 <=> account[a] # NoAccount \/ a \in retired
    /\ \A x \in secrets : x.to = born[x.name]
    /\ \A t \in tokens : t.to = born[t.name]

-----------------------------------------------------------------------------
(* Signing in *)

SigningOK == {verifying, codes, refreshes, sessions} \subseteq [SignIns -> Nat]

\* The rows of one sign-in, added up.
Worth(s, a, v, c, f, d) == (IF s \in a THEN 1 ELSE 0) + v[s] + c[s] + f[s] + d[s]

LEMMA WorthOf ==
    SingleUse <=> \A s \in SignIns : Worth(s, asked, verifying, codes, refreshes, sessions) <= 1
BY DEF SingleUse, Worth

LEMMA AddDrop ==
    ASSUME NEW rows \in [SignIns -> Nat], NEW s \in SignIns
    PROVE  /\ Add(rows, s) \in [SignIns -> Nat]
           /\ Add(rows, s)[s] = rows[s] + 1
           /\ \A o \in SignIns : o # s => Add(rows, s)[o] = rows[o]
           /\ rows[s] > 0 => /\ Drop(rows, s) \in [SignIns -> Nat]
                             /\ Drop(rows, s)[s] = rows[s] - 1
           /\ \A o \in SignIns : o # s => Drop(rows, s)[o] = rows[o]
BY DEF Add, Drop

\* A step that changes the rows of one sign-in only, and their sum not upwards.
LEMMA OneSignIn ==
    ASSUME SigningOK, SigningOK', SingleUse, NEW s \in SignIns,
           \A o \in SignIns : o # s =>
              /\ o \in asked' <=> o \in asked
              /\ verifying'[o] = verifying[o] /\ codes'[o] = codes[o]
              /\ refreshes'[o] = refreshes[o] /\ sessions'[o] = sessions[o],
           Worth(s, asked', verifying', codes', refreshes', sessions') <= 1
    PROVE  SingleUse'
BY DEF SingleUse, Worth

LEMMA SigningKeeps ==
    ASSUME SigningOK, SingleUse, NEW s \in SignIns,
           \/ Ask(s) \/ Consume(s) \/ NotVerified(s) \/ Exchange(s) \/ Refresh(s) \/ Expire(s)
           \/ \E p \in People : Verified(s, p)
    PROVE  SigningOK' /\ SingleUse'
<1> USE DEF SigningOK
<1>1. /\ verifying[s] \in Nat /\ codes[s] \in Nat /\ refreshes[s] \in Nat /\ sessions[s] \in Nat
      /\ Worth(s, asked, verifying, codes, refreshes, sessions) <= 1
  BY DEF SingleUse, Worth
<1>2. CASE Ask(s)
  <2>1. SigningOK'
    BY <1>2 DEF Ask
  <2>2. /\ asked' = asked \cup {s} /\ UNCHANGED <<verifying, codes, refreshes, sessions>>
        /\ verifying[s] + codes[s] + refreshes[s] + sessions[s] = 0
    BY <1>2 DEF Ask
  <2>3. Worth(s, asked', verifying', codes', refreshes', sessions') <= 1
    BY <1>1, <2>2 DEF Worth
  <2> QED BY <2>1, <2>2, <2>3, OneSignIn
<1>3. CASE Consume(s)
  <2>1. SigningOK'
    BY <1>3, AddDrop DEF Consume
  <2>2. verifying'[s] = verifying[s] + 1 /\ \A o \in SignIns : o # s => verifying'[o] = verifying[o]
    BY <1>3, AddDrop DEF Consume
  <2>3. s \in asked /\ asked' = asked \ {s} /\ UNCHANGED <<codes, refreshes, sessions>>
    BY <1>3 DEF Consume
  <2> QED BY <1>1, <2>1, <2>2, <2>3, OneSignIn DEF Worth
<1>4. CASE NotVerified(s)
  <2>1. SigningOK'
    BY <1>4, AddDrop DEF NotVerified
  <2> QED BY <1>1, <1>4, <2>1, AddDrop, OneSignIn DEF NotVerified, Worth
<1>5. CASE Exchange(s)
  <2>1. SigningOK'
    BY <1>5, AddDrop DEF Exchange
  <2> QED BY <1>1, <1>5, <2>1, AddDrop, OneSignIn DEF Exchange, Worth
<1>6. CASE Refresh(s)
  <2>1. SigningOK'
    BY <1>6, AddDrop DEF Refresh, Rotated
  <2>2. /\ UNCHANGED <<asked, verifying, codes, sessions>> /\ refreshes'[s] <= refreshes[s]
        /\ \A o \in SignIns : o # s => refreshes'[o] = refreshes[o]
    BY <1>1, <1>6, AddDrop DEF Refresh, Rotated
  <2>3. Worth(s, asked', verifying', codes', refreshes', sessions') <= 1
    BY <1>1, <2>1, <2>2 DEF Worth
  <2> QED BY <2>1, <2>2, <2>3, OneSignIn
<1>7. CASE Expire(s)
  <2>1. SigningOK'
    BY <1>7, AddDrop DEF Expire
  <2>2. /\ verifying' = verifying /\ (s \in asked' => s \in asked)
        /\ codes'[s] <= codes[s] /\ refreshes'[s] <= refreshes[s] /\ sessions'[s] <= sessions[s]
    BY <1>1, <1>7, AddDrop DEF Expire
  <2>3. \A o \in SignIns : o # s =>
           /\ o \in asked' <=> o \in asked
           /\ codes'[o] = codes[o] /\ refreshes'[o] = refreshes[o] /\ sessions'[o] = sessions[o]
    BY <1>7, AddDrop DEF Expire
  <2>4. codes'[s] \in Nat /\ refreshes'[s] \in Nat /\ sessions'[s] \in Nat
    BY <2>1
  <2>5. verifying'[s] = verifying[s] /\ (s \in asked' => s \in asked)
    BY <2>2
  <2>6. (IF s \in asked' THEN 1 ELSE 0) <= (IF s \in asked THEN 1 ELSE 0)
    BY <2>5
  <2>7. Worth(s, asked', verifying', codes', refreshes', sessions') <= 1
    BY <1>1, <2>2, <2>4, <2>5, <2>6 DEF Worth
  <2> QED BY <2>1, <2>2, <2>3, <2>7, OneSignIn
<1>8. CASE \E p \in People : Verified(s, p)
  <2>1. SigningOK'
    BY <1>8, AddDrop DEF Verified
  <2>2. UNCHANGED <<asked, refreshes>>
    BY <1>8 DEF Verified
  <2>3. /\ verifying'[s] = verifying[s] - 1
        /\ \/ codes'[s] = codes[s] + 1 /\ sessions'[s] = sessions[s]
           \/ codes'[s] = codes[s] /\ sessions'[s] = sessions[s] + 1
    BY <1>1, <1>8, AddDrop DEF Verified
  <2>4. \A o \in SignIns : o # s =>
           verifying'[o] = verifying[o] /\ codes'[o] = codes[o] /\ sessions'[o] = sessions[o]
    BY <1>8, AddDrop DEF Verified
  <2>5. codes'[s] \in Nat /\ sessions'[s] \in Nat
    BY <2>1
  <2>6. Worth(s, asked', verifying', codes', refreshes', sessions') <= 1
    BY <1>1, <2>2, <2>3, <2>5 DEF Worth
  <2> QED BY <2>1, <2>2, <2>4, <2>6, OneSignIn
<1> QED BY <1>2, <1>3, <1>4, <1>5, <1>6, <1>7, <1>8

\* A crash forgets the callbacks that wait, and may come after a code or token was taken.
LEMMA DownKeepsSigning ==
    ASSUME SigningOK, SingleUse, Down,
           \/ UNCHANGED <<codes, refreshes>>
           \/ \E s \in SignIns : codes[s] > 0 /\ codes' = Drop(codes, s) /\ UNCHANGED refreshes
           \/ \E s \in SignIns : refreshes[s] > 0 /\ refreshes' = Drop(refreshes, s) /\ UNCHANGED codes
    PROVE  SigningOK' /\ SingleUse'
<1>1. verifying' = None /\ None \in [SignIns -> Nat] /\ \A s \in SignIns : None[s] = 0
  BY DEF Down, None
<1>2. /\ codes' \in [SignIns -> Nat] /\ refreshes' \in [SignIns -> Nat]
      /\ \A s \in SignIns : codes'[s] <= codes[s] /\ refreshes'[s] <= refreshes[s]
  <2>1. CASE UNCHANGED <<codes, refreshes>>
    BY <2>1 DEF SigningOK
  <2>2. CASE \E s \in SignIns : codes[s] > 0 /\ codes' = Drop(codes, s) /\ UNCHANGED refreshes
    <3>1. PICK s \in SignIns : codes[s] > 0 /\ codes' = Drop(codes, s) /\ UNCHANGED refreshes
      BY <2>2
    <3>2. codes \in [SignIns -> Nat] /\ refreshes \in [SignIns -> Nat]
      BY DEF SigningOK
    <3>3. /\ codes' \in [SignIns -> Nat] /\ codes'[s] = codes[s] - 1
          /\ \A o \in SignIns : o # s => codes'[o] = codes[o]
      BY <3>1, <3>2, AddDrop
    <3>4. \A o \in SignIns : codes'[o] <= codes[o]
      BY <3>2, <3>3
    <3> QED BY <3>1, <3>2, <3>3, <3>4
  <2>3. CASE \E s \in SignIns : refreshes[s] > 0 /\ refreshes' = Drop(refreshes, s) /\ UNCHANGED codes
    <3>1. PICK s \in SignIns : refreshes[s] > 0 /\ refreshes' = Drop(refreshes, s) /\ UNCHANGED codes
      BY <2>3
    <3>2. codes \in [SignIns -> Nat] /\ refreshes \in [SignIns -> Nat]
      BY DEF SigningOK
    <3>3. /\ refreshes' \in [SignIns -> Nat] /\ refreshes'[s] = refreshes[s] - 1
          /\ \A o \in SignIns : o # s => refreshes'[o] = refreshes[o]
      BY <3>1, <3>2, AddDrop
    <3>4. \A o \in SignIns : refreshes'[o] <= refreshes[o]
      BY <3>2, <3>3
    <3> QED BY <3>1, <3>2, <3>3, <3>4
  <2> QED BY <2>1, <2>2, <2>3
<1>3. SigningOK'
  <2>1. verifying' \in [SignIns -> Nat] /\ sessions' \in [SignIns -> Nat]
    BY <1>1 DEF SigningOK, Down
  <2> QED BY <1>2, <2>1 DEF SigningOK
<1>4. SingleUse'
  <2>1. SUFFICES ASSUME NEW s \in SignIns
                 PROVE  Worth(s, asked', verifying', codes', refreshes', sessions') <= 1
    BY DEF SingleUse, Worth
  <2>2. /\ verifying[s] \in Nat /\ codes[s] \in Nat /\ refreshes[s] \in Nat /\ sessions[s] \in Nat
        /\ codes'[s] \in Nat /\ refreshes'[s] \in Nat
    BY <1>2 DEF SigningOK
  <2> QED BY <1>1, <1>2, <2>2 DEF SingleUse, Worth, Down
<1> QED BY <1>3, <1>4
-----------------------------------------------------------------------------
(* Types *)

\* The parts of TypeOK besides the sign-ins.
MachinesOK ==
    /\ account \in [Accounts -> Account \cup {NoAccount}] /\ born \in [Accounts -> 0..MaxBorn]
    /\ retired \subseteq Accounts /\ secrets \subseteq Secret /\ tokens \subseteq Issued
PeopleOK == override \in [People -> Roles \cup {Unset}] /\ known \subseteq People

\* An account that is created was not there, and its name was never given.
LEMMA InsertedOnce ==
    ASSUME MachinesOK, Once, NEW a \in Accounts, Insert(a), UNCHANGED retired
    PROVE  /\ account' \in [Accounts -> Account \cup {NoAccount}] /\ born' \in [Accounts -> 0..MaxBorn]
           /\ born[a] = 0 /\ born'[a] = 1 /\ account'[a] # NoAccount /\ 1 \in 1..MaxBorn
           /\ \A b \in Accounts : b # a => born'[b] = born[b] /\ account'[b] = account[b]
<1>1. account[a] = NoAccount /\ a \notin retired /\ born[a] < MaxBorn /\ born[a] = 0
  BY DEF Insert, Creatable, Once, MachinesOK
<1>2. MaxBorn \in Nat
  BY AccessAssumption
<1>3. /\ born' = [born EXCEPT ![a] = @ + 1]
      /\ account' = [account EXCEPT ![a] = [is |-> "account", disabled |-> FALSE, expired |-> FALSE]]
  BY DEF Insert
<1>4. [is |-> "account", disabled |-> FALSE, expired |-> FALSE] \in Account
  BY DEF Account
<1>5. [is |-> "account", disabled |-> FALSE, expired |-> FALSE] # NoAccount
  BY DEF NoAccount
<1>6. born'[a] = 1 /\ born' \in [Accounts -> 0..MaxBorn]
  BY <1>1, <1>2, <1>3 DEF MachinesOK
<1>7. account'[a] # NoAccount /\ account' \in [Accounts -> Account \cup {NoAccount}]
  BY <1>3, <1>4, <1>5 DEF MachinesOK
<1> QED BY <1>1, <1>2, <1>3, <1>6, <1>7 DEF MachinesOK

\* What Create, RotateSecret and ClientCredentials give out carries its account's birth.
LEMMA GivenOut ==
    ASSUME MachinesOK, Once
    PROVE  /\ \A x \in secrets : x \in Secret /\ x.name \in Accounts /\ x.to \in 1..MaxBorn /\ x.to = born[x.name]
           /\ \A t \in tokens : t \in Issued /\ t.name \in Accounts /\ t.to \in 1..MaxBorn /\ t.to = born[t.name]
<1>1. \A x \in secrets : x \in Secret
  BY DEF MachinesOK
<1>2. \A t \in tokens : t \in Issued
  BY DEF MachinesOK
<1>3. \A x \in Secret : x.name \in Accounts /\ x.to \in 1..MaxBorn
  BY DEF Secret
<1>4. \A t \in Issued : t.name \in Accounts /\ t.to \in 1..MaxBorn
  BY DEF Issued
<1> QED BY <1>1, <1>2, <1>3, <1>4 DEF Once

LEMMA SecretDrawn ==
    ASSUME NEW a \in Accounts, NEW to \in 1..MaxBorn, NEW x \in Drawn(a, to)
    PROVE  x \in Secret /\ x.name = a /\ x.to = to
<1>1. PICK k \in Fresh : x = [secret |-> k, name |-> a, to |-> to, expired |-> FALSE]
  BY DEF Drawn
<1>2. k \in Secrets
  BY DEF Fresh
<1> QED BY <1>1, <1>2 DEF Secret

-----------------------------------------------------------------------------
(* Service accounts *)

\* A new account is the first of its name, so its first secret carries its birth.
LEMMA CreateKeeps ==
    ASSUME MachinesOK, Once, NEW a \in Accounts, Insert(a), UNCHANGED <<retired, tokens>>,
           \/ UNCHANGED secrets
           \/ \E x \in Drawn(a, born[a] + 1) : secrets' = secrets \cup {x}
    PROVE  MachinesOK' /\ Once'
<1>1. /\ account' \in [Accounts -> Account \cup {NoAccount}] /\ born' \in [Accounts -> 0..MaxBorn]
      /\ born[a] = 0 /\ born'[a] = 1 /\ account'[a] # NoAccount /\ 1 \in 1..MaxBorn
      /\ \A b \in Accounts : b # a => born'[b] = born[b] /\ account'[b] = account[b]
  BY InsertedOnce
<1>2. \A b \in Accounts :
         /\ born'[b] \in {0, 1}
         /\ born'[b] = 1 <=> account'[b] # NoAccount \/ b \in retired'
  BY <1>1 DEF Once
<1>3. \A x \in secrets : x \in Secret /\ x.name # a /\ x.to = born'[x.name]
  BY <1>1, GivenOut
<1>4. \A t \in tokens : t \in Issued /\ t.to = born'[t.name]
  BY <1>1, GivenOut
<1>5. \A x \in secrets' : x \in Secret /\ x.to = born'[x.name]
  <2>1. CASE UNCHANGED secrets
    BY <2>1, <1>3
  <2>2. CASE \E x \in Drawn(a, born[a] + 1) : secrets' = secrets \cup {x}
    <3>1. PICK x \in Drawn(a, born[a] + 1) : secrets' = secrets \cup {x}
      BY <2>2
    <3>2. born[a] + 1 = 1
      BY <1>1
    <3>3. x \in Secret /\ x.name = a /\ x.to = 1
      BY <1>1, <3>2, SecretDrawn
    <3> QED BY <1>1, <1>3, <3>1, <3>3
  <2> QED BY <2>1, <2>2
<1>6. MachinesOK'
  BY <1>1, <1>4, <1>5 DEF MachinesOK
<1> QED BY <1>2, <1>4, <1>5, <1>6 DEF Once

\* The steps that leave the births alone, and an account where one was or its name retired.
LEMMA RestKeeps ==
    ASSUME MachinesOK, Once, UNCHANGED born,
           account' \in [Accounts -> Account \cup {NoAccount}], retired' \subseteq Accounts,
           \A a \in Accounts : /\ (account'[a] # NoAccount \/ a \in retired')
                                   <=> (account[a] # NoAccount \/ a \in retired),
           \A x \in secrets' : x \in Secret /\ x.to = born[x.name],
           \A t \in tokens' : t \in Issued /\ t.to = born[t.name]
    PROVE  MachinesOK' /\ Once'
BY DEF MachinesOK, Once

LEMMA RemoveKeeps ==
    ASSUME MachinesOK, Once, NEW a \in Accounts, Remove(a), UNCHANGED born,
           tokens' \subseteq tokens
    PROVE  MachinesOK' /\ Once'
<1>1. /\ account[a] # NoAccount /\ account' = [account EXCEPT ![a] = NoAccount]
      /\ secrets' \subseteq secrets /\ retired' = retired \cup {a}
  BY DEF Remove
<1>2. account' \in [Accounts -> Account \cup {NoAccount}] /\ retired' \subseteq Accounts
  BY <1>1 DEF MachinesOK
<1>3. \A b \in Accounts : (account'[b] # NoAccount \/ b \in retired')
                           <=> (account[b] # NoAccount \/ b \in retired)
  BY <1>1 DEF MachinesOK
<1> QED BY <1>1, <1>2, <1>3, GivenOut, RestKeeps

\* The steps of the service accounts, those that crashes cut short included.
MachineStep ==
    \/ \E a \in Accounts : \/ Create(a) \/ Update(a) \/ RotateSecret(a) \/ RevokeSecret(a) \/ Delete(a)
                          \/ ClientCredentials(a) \/ CrashInCreate(a) \/ CrashInDelete(a)
    \/ RunsOut

LEMMA MachinesKeep ==
    ASSUME MachinesOK, Once, MachineStep
    PROVE  MachinesOK' /\ Once'
<1>1. CASE \E a \in Accounts : Create(a) \/ CrashInCreate(a)
  <2>1. PICK a \in Accounts : Create(a) \/ CrashInCreate(a)
    BY <1>1
  <2> QED BY <2>1, CreateKeeps DEF Create, CrashInCreate
<1>2. CASE \E a \in Accounts : Update(a)
  <2>1. PICK a \in Accounts : Update(a)
    BY <1>2
  <2>2. PICK off \in BOOLEAN, out \in {FALSE, account[a].expired} :
           /\ account[a] # NoAccount
           /\ account' = [account EXCEPT ![a] = [@ EXCEPT !.disabled = off, !.expired = out]]
    BY <2>1 DEF Update
  <2>3. account[a] \in Account
    BY <2>2 DEF MachinesOK
  <2>4. [account[a] EXCEPT !.disabled = off, !.expired = out] \in Account
    BY <2>3 DEF Account
  <2>5. \A r \in Account : r # NoAccount
    BY DEF Account, NoAccount
  <2>6. /\ account' \in [Accounts -> Account \cup {NoAccount}]
        /\ \A b \in Accounts : account'[b] # NoAccount <=> account[b] # NoAccount
    BY <2>2, <2>4, <2>5 DEF MachinesOK
  <2>7. UNCHANGED <<born, retired, secrets, tokens>>
    BY <2>1 DEF Update
  <2> QED BY <2>6, <2>7, GivenOut, RestKeeps DEF MachinesOK
<1>3. CASE \E a \in Accounts : RotateSecret(a)
  <2>1. PICK a \in Accounts : RotateSecret(a)
    BY <1>3
  <2>2. PICK x \in Drawn(a, born[a]) : secrets' = secrets \cup {x}
    BY <2>1 DEF RotateSecret
  <2>3. account[a] # NoAccount /\ UNCHANGED <<account, born, retired, tokens>>
    BY <2>1 DEF RotateSecret
  <2>4. born[a] = 1
    BY <2>3 DEF Once
  <2>5. born[a] \in 1..MaxBorn
    BY <2>4, AccessAssumption DEF MachinesOK
  <2>6. x \in Secret /\ x.name = a /\ x.to = born[a]
    BY <2>5, SecretDrawn
  <2>7. \A y \in secrets' : y \in Secret /\ y.to = born[y.name]
    BY <2>2, <2>6, GivenOut
  <2> QED BY <2>3, <2>7, GivenOut, RestKeeps DEF MachinesOK
<1>4. CASE \E a \in Accounts : RevokeSecret(a)
  <2>1. PICK a \in Accounts : RevokeSecret(a)
    BY <1>4
  <2>2. secrets' \subseteq secrets /\ UNCHANGED <<account, born, retired, tokens>>
    BY <2>1 DEF RevokeSecret
  <2> QED BY <2>2, GivenOut, RestKeeps DEF MachinesOK
<1>5. CASE \E a \in Accounts : Delete(a) \/ CrashInDelete(a)
  <2>1. PICK a \in Accounts : Delete(a) \/ CrashInDelete(a)
    BY <1>5
  <2> QED BY <2>1, RemoveKeeps DEF Delete, CrashInDelete
<1>6. CASE \E a \in Accounts : ClientCredentials(a)
  <2>1. PICK a \in Accounts : ClientCredentials(a)
    BY <1>6
  <2>2. PICK x \in secrets : Accepts(a, x) /\ tokens' = tokens \cup {[name |-> a, to |-> x.to]}
    BY <2>1 DEF ClientCredentials
  <2>3. x.name = a /\ x.to \in 1..MaxBorn /\ x.to = born[x.name]
    BY <2>2, GivenOut DEF Accepts
  <2>4. [name |-> a, to |-> x.to] \in Issued
    BY <2>3 DEF Issued
  <2>5. \A t \in tokens' : t \in Issued /\ t.to = born[t.name]
    BY <2>2, <2>3, <2>4, GivenOut
  <2>6. UNCHANGED <<account, born, retired, secrets>>
    BY <2>1 DEF ClientCredentials
  <2> QED BY <2>5, <2>6, GivenOut, RestKeeps DEF MachinesOK
<1>7. CASE RunsOut
  <2>1. UNCHANGED <<born, retired>>
    BY <1>7 DEF RunsOut
  <2>2. CASE \E a \in Accounts : /\ account[a] # NoAccount /\ account' = [account EXCEPT ![a].expired = TRUE]
                                /\ UNCHANGED <<secrets, tokens>>
    <3>1. PICK a \in Accounts : /\ account[a] # NoAccount /\ account' = [account EXCEPT ![a].expired = TRUE]
                                /\ UNCHANGED <<secrets, tokens>>
      BY <2>2
    <3>2. account[a] \in Account
      BY <3>1 DEF MachinesOK
    <3>3. [account[a] EXCEPT !.expired = TRUE] \in Account
      BY <3>2 DEF Account
    <3>4. \A r \in Account : r # NoAccount
      BY DEF Account, NoAccount
    <3>5. /\ account' \in [Accounts -> Account \cup {NoAccount}]
          /\ \A b \in Accounts : account'[b] # NoAccount <=> account[b] # NoAccount
      BY <3>1, <3>3, <3>4 DEF MachinesOK
    <3> QED BY <2>1, <3>1, <3>5, GivenOut, RestKeeps DEF MachinesOK
  <2>3. CASE \E x \in secrets : /\ secrets' = (secrets \ {x}) \cup {[x EXCEPT !.expired = TRUE]}
                                /\ UNCHANGED <<account, tokens>>
    <3>1. PICK x \in secrets : /\ secrets' = (secrets \ {x}) \cup {[x EXCEPT !.expired = TRUE]}
                               /\ UNCHANGED <<account, tokens>>
      BY <2>3
    <3>2. x \in Secret /\ x.to = born[x.name]
      BY GivenOut
    <3>3. /\ [x EXCEPT !.expired = TRUE] \in Secret
          /\ [x EXCEPT !.expired = TRUE].to = x.to /\ [x EXCEPT !.expired = TRUE].name = x.name
      BY <3>2 DEF Secret
    <3>4. \A y \in secrets' : y \in Secret /\ y.to = born[y.name]
      BY <3>1, <3>2, <3>3, GivenOut
    <3> QED BY <2>1, <3>1, <3>4, GivenOut, RestKeeps DEF MachinesOK
  <2>4. CASE \E t \in tokens : tokens' = tokens \ {t} /\ UNCHANGED <<account, secrets>>
    <3>1. tokens' \subseteq tokens /\ UNCHANGED <<account, secrets>>
      BY <2>4
    <3> QED BY <2>1, <3>1, GivenOut, RestKeeps DEF MachinesOK
  <2> QED BY <1>7, <2>2, <2>3, <2>4 DEF RunsOut
<1> QED BY <1>1, <1>2, <1>3, <1>4, <1>5, <1>6, <1>7 DEF MachineStep

-----------------------------------------------------------------------------
(* The theorems *)

IInv == TypeOK /\ SingleUse /\ Once

LEMMA Parts ==
    TypeOK <=> /\ SigningOK /\ MachinesOK /\ PeopleOK
               /\ asked \subseteq SignIns /\ crashes \in 0..MaxCrashes
BY DEF TypeOK, SigningOK, MachinesOK, PeopleOK

LEMMA InitHolds == Init => IInv
<1> SUFFICES ASSUME Init PROVE IInv
  OBVIOUS
<1>1. None \in [SignIns -> Nat] /\ \A s \in SignIns : None[s] = 0
  BY DEF None
<1>2. SigningOK /\ SingleUse
  BY <1>1 DEF Init, SigningOK, SingleUse
<1>3. MaxBorn \in Nat /\ MaxCrashes \in Nat
  BY AccessAssumption
<1>4. MachinesOK /\ Once
  BY <1>3 DEF Init, MachinesOK, Once
<1>5. PeopleOK /\ asked \subseteq SignIns /\ crashes \in 0..MaxCrashes
  BY <1>3 DEF Init, PeopleOK
<1> QED BY <1>2, <1>4, <1>5, Parts DEF IInv

LEMMA NextKeepsSigning ==
    ASSUME SigningOK, SingleUse, Next
    PROVE  SigningOK' /\ SingleUse'
<1>1. CASE \E s \in SignIns : \/ Ask(s) \/ Consume(s) \/ NotVerified(s) \/ Exchange(s) \/ Refresh(s) \/ Expire(s)
                             \/ \E p \in People : Verified(s, p)
  BY <1>1, SigningKeeps
<1>2. CASE \E s \in SignIns : CrashInExchange(s) \/ CrashInRefresh(s)
  <2>1. PICK s \in SignIns : CrashInExchange(s) \/ CrashInRefresh(s)
    BY <1>2
  <2> QED BY <2>1, DownKeepsSigning DEF CrashInExchange, CrashInRefresh
<1>3. CASE Crash \/ \E a \in Accounts : CrashInCreate(a) \/ CrashInDelete(a)
  <2>1. Down /\ UNCHANGED <<codes, refreshes>>
    BY <1>3 DEF Crash, CrashInCreate, CrashInDelete
  <2> QED BY <2>1, DownKeepsSigning
<1>4. CASE UNCHANGED signing
  BY <1>4 DEF signing, SigningOK, SingleUse
<1>5. CASE \E a \in Accounts : Create(a) \/ Update(a) \/ RotateSecret(a) \/ RevokeSecret(a) \/ Delete(a) \/ ClientCredentials(a)
  <2>1. UNCHANGED signing
    BY <1>5 DEF Create, Update, RotateSecret, RevokeSecret, Delete, ClientCredentials
  <2> QED BY <1>4, <2>1
<1>6. CASE RunsOut \/ \E p \in People, role \in Roles \cup {Unset} : SetRole(p, role)
  <2>1. UNCHANGED signing
    BY <1>6 DEF RunsOut, SetRole
  <2> QED BY <1>4, <2>1
<1> QED BY <1>1, <1>2, <1>3, <1>5, <1>6 DEF Next

LEMMA NextKeepsMachines ==
    ASSUME MachinesOK, Once, Next
    PROVE  MachinesOK' /\ Once'
<1>1. CASE MachineStep
  BY <1>1, MachinesKeep
<1>2. CASE UNCHANGED machines
  BY <1>2 DEF machines, MachinesOK, Once
<1>3. MachineStep \/ UNCHANGED machines
  BY DEF Next, MachineStep, Ask, Consume, NotVerified, Exchange, Refresh, Expire, Verified,
         CrashInExchange, CrashInRefresh, Crash, SetRole, machines
<1> QED BY <1>1, <1>2, <1>3

LEMMA NextKeepsRest ==
    ASSUME PeopleOK, asked \subseteq SignIns, crashes \in 0..MaxCrashes, Next
    PROVE  PeopleOK' /\ asked' \subseteq SignIns /\ crashes' \in 0..MaxCrashes
<1>1. PeopleOK'
  <2>1. CASE \E s \in SignIns, p \in People : Verified(s, p)
    BY <2>1 DEF Verified, PeopleOK
  <2>2. CASE \E p \in People, role \in Roles \cup {Unset} : SetRole(p, role)
    BY <2>2 DEF SetRole, PeopleOK
  <2>3. CASE UNCHANGED people
    BY <2>3 DEF people, PeopleOK
  <2>4. \/ \E s \in SignIns, p \in People : Verified(s, p)
        \/ \E p \in People, role \in Roles \cup {Unset} : SetRole(p, role)
        \/ UNCHANGED people
    BY DEF Next, Ask, Consume, NotVerified, Exchange, Refresh, Expire, CrashInExchange, CrashInRefresh,
           Create, Update, RotateSecret, RevokeSecret, Delete, ClientCredentials, CrashInCreate, CrashInDelete,
           RunsOut, Crash, Down, people
  <2> QED BY <2>1, <2>2, <2>3, <2>4
<1>2. asked' \subseteq SignIns
  <2>1. (\E s \in SignIns : Ask(s)) \/ asked' \subseteq asked
    BY DEF Next, Consume, NotVerified, Exchange, Refresh, Expire, Verified, CrashInExchange, CrashInRefresh,
           Create, Update, RotateSecret, RevokeSecret, Delete, ClientCredentials, CrashInCreate, CrashInDelete,
           RunsOut, Crash, Down, SetRole, signing
  <2>2. CASE \E s \in SignIns : Ask(s)
    BY <2>2 DEF Ask
  <2> QED BY <2>1, <2>2
<1>3. crashes' \in 0..MaxCrashes
  <2>1. Down \/ UNCHANGED crashes
    BY DEF Next, Ask, Consume, NotVerified, Exchange, Refresh, Expire, Verified, CrashInExchange, CrashInRefresh,
           Create, Update, RotateSecret, RevokeSecret, Delete, ClientCredentials, CrashInCreate, CrashInDelete,
           RunsOut, Crash, SetRole
  <2>2. CASE Down
    BY <2>2, AccessAssumption DEF Down
  <2> QED BY <2>1, <2>2
<1> QED BY <1>1, <1>2, <1>3

LEMMA IInvKept == IInv /\ [Next]_vars => IInv'
<1> SUFFICES ASSUME IInv, [Next]_vars PROVE IInv'
  OBVIOUS
<1>1. CASE Next
  <2>1. TypeOK'
    BY <1>1, Parts, NextKeepsSigning, NextKeepsMachines, NextKeepsRest
       DEF IInv, TypeOK, SigningOK, MachinesOK, PeopleOK
  <2> QED BY <1>1, <2>1, Parts, NextKeepsSigning, NextKeepsMachines DEF IInv
<1>2. CASE UNCHANGED vars
  BY <1>2 DEF vars, signing, machines, people, IInv, TypeOK, SingleUse, Once
<1> QED BY <1>1, <1>2

\* The state has its type: what people, clients and crashes do to the rows of the two stores.
THEOREM AccessTypeCorrect == Spec => []TypeOK
<1>1. IInv => TypeOK
  BY DEF IInv
<1> QED BY <1>1, InitHolds, IInvKept, PTL DEF Spec

\* A sign-in is worth one thing at a time, however often a callback, a code or a refresh token
\* is presented again and wherever crashes fall: one row becomes the next, never two.
THEOREM SignInsAreSingle == Spec => []SingleUse
<1>1. IInv => SingleUse
  BY DEF IInv
<1> QED BY <1>1, InitHolds, IInvKept, PTL DEF Spec

\* What a service account was given never serves a later account of its name, although a crash
\* in a deletion leaves its tokens behind: no second account of the name can be created.
THEOREM GrantsStayWithAccount == Spec => []ActsAsIssued
<1>1. IInv => ActsAsIssued
  BY DEF IInv, Once, ActsAsIssued
<1> QED BY <1>1, InitHolds, IInvKept, PTL DEF Spec

-----------------------------------------------------------------------------
(* Roles *)

LEMMA OthersKeepRole ==
    ASSUME PeopleOK, NEW p \in People, NEW q \in People, q # p, NEW role, NEW seen,
           q \in Admins(override, seen)
    PROVE  q \in Admins([override EXCEPT ![p] = role], seen)
<1>1. [override EXCEPT ![p] = role][q] = override[q]
  BY DEF PeopleOK
<1> QED BY <1>1 DEF Admins, Known, resolveRole

LEMMA RoleChangeKeepsAdmin ==
    ASSUME PeopleOK, Default # "admin", NEW p \in People, NEW role \in Roles \cup {Unset},
           Allowed(p, [override EXCEPT ![p] = role]), Admins(override, known) # {}
    PROVE  Admins([override EXCEPT ![p] = role], known) # {}
<1> DEFINE after == [override EXCEPT ![p] = role]
<1>1. PICK q \in Admins(override, known) : TRUE
  OBVIOUS
<1>2. DOMAIN Config \subseteq People /\ q \in People
  BY AccessAssumption, PeopleOK DEF Admins, Known, PeopleOK
<1>3. CASE q # p
  <2>1. q \in Admins(after, known)
    BY <1>2, <1>3, OthersKeepRole
  <2> QED BY <2>1
<1>4. CASE q = p /\ resolveRole(p, after) = "admin"
  <2>1. after[p] = role
    BY DEF PeopleOK
  <2>2. p \in DOMAIN Config \/ role # Unset
    <3> SUFFICES ASSUME p \notin DOMAIN Config, role = Unset PROVE FALSE
      OBVIOUS
    <3>1. resolveRole(p, after) = Default
      BY <2>1 DEF resolveRole, Unset
    <3> QED BY <3>1, <1>4
  <2>3. p \in Known(after, known)
    BY <2>1, <2>2 DEF Known
  <2>4. p \in Admins(after, known)
    BY <1>4, <2>3 DEF Admins
  <2> QED BY <2>4
<1>5. CASE q = p /\ resolveRole(p, after) # "admin"
  <2>1. resolveRole(p, override) = "admin"
    BY <1>5 DEF Admins
  <2>2. CountedMachines = {}
    BY DEF CountedMachines
  <2>3. Admins(after, known \cup {p}) # {}
    BY <1>5, <2>1, <2>2 DEF Allowed, Remaining
  <2>4. PICK r \in Admins(after, known \cup {p}) : TRUE
    BY <2>3
  <2>5. r # p
    BY <1>5, <2>4 DEF Admins
  <2>6. r \in Admins(after, known)
    BY <2>4, <2>5 DEF Admins, Known
  <2> QED BY <2>6
<1> QED BY <1>3, <1>4, <1>5

\* Unless '*' makes everybody an admin, no change of roles takes the last admin away: who was
\* one stays one, or checkRoleChange found another.
THEOREM LastAdminStays ==
    ASSUME Default # "admin"
    PROVE  Spec => AdminRemains
<1>1. ASSUME IInv, [Next]_vars, Admins(override, known) # {}
      PROVE  Admins(override', known') # {}
  <2>1. PeopleOK
    BY <1>1, Parts DEF IInv
  <2>2. CASE \E s \in SignIns, p \in People : Verified(s, p)
    <3>1. override' = override /\ known \subseteq known'
      BY <2>2 DEF Verified
    <3> QED BY <1>1, <3>1 DEF Admins, Known
  <2>3. CASE \E p \in People, role \in Roles \cup {Unset} : SetRole(p, role)
    BY <1>1, <2>1, <2>3, RoleChangeKeepsAdmin DEF SetRole
  <2>4. CASE UNCHANGED people
    BY <1>1, <2>4 DEF people
  <2>5. \/ \E s \in SignIns, p \in People : Verified(s, p)
        \/ \E p \in People, role \in Roles \cup {Unset} : SetRole(p, role)
        \/ UNCHANGED people
    BY <1>1 DEF Next, Ask, Consume, NotVerified, Exchange, Refresh, Expire, CrashInExchange, CrashInRefresh,
           Create, Update, RotateSecret, RevokeSecret, Delete, ClientCredentials, CrashInCreate, CrashInDelete,
           RunsOut, Crash, Down, people, vars
  <2> QED BY <2>2, <2>3, <2>4, <2>5
<1>2. ASSUME IInv, [Next]_vars
      PROVE  [Admins(override, known) # {} => Admins(override', known') # {}]_vars
  BY <1>1, <1>2
<1> QED BY <1>2, InitHolds, IInvKept, PTL DEF Spec, AdminRemains

-----------------------------------------------------------------------------
(* Sign-ins keep the contract of SignIn. *)

PlaceOf(s, a, v, c, f, d) ==
    CASE s \in a -> "asked"
      [] v[s] > 0 -> "waiting"
      [] c[s] > 0 -> "code"
      [] f[s] > 0 -> "refresh"
      [] d[s] > 0 -> "session"
      [] OTHER -> "none"

LEMMA PlaceByRows ==
    ASSUME NEW s, NEW a, NEW v, NEW c, NEW f, NEW d,
           v[s] \in Nat, c[s] \in Nat, f[s] \in Nat, d[s] \in Nat, Worth(s, a, v, c, f, d) <= 1
    PROVE  /\ s \in a => PlaceOf(s, a, v, c, f, d) = "asked" /\ v[s] = 0 /\ c[s] = 0 /\ f[s] = 0 /\ d[s] = 0
           /\ v[s] > 0 => PlaceOf(s, a, v, c, f, d) = "waiting" /\ v[s] = 1 /\ c[s] = 0 /\ f[s] = 0 /\ d[s] = 0
           /\ c[s] > 0 => PlaceOf(s, a, v, c, f, d) = "code" /\ c[s] = 1 /\ v[s] = 0 /\ f[s] = 0 /\ d[s] = 0
           /\ f[s] > 0 => PlaceOf(s, a, v, c, f, d) = "refresh" /\ f[s] = 1 /\ v[s] = 0 /\ c[s] = 0 /\ d[s] = 0
           /\ d[s] > 0 => PlaceOf(s, a, v, c, f, d) = "session" /\ d[s] = 1 /\ v[s] = 0 /\ c[s] = 0 /\ f[s] = 0
           /\ s \notin a /\ v[s] = 0 /\ c[s] = 0 /\ f[s] = 0 /\ d[s] = 0 => PlaceOf(s, a, v, c, f, d) = "none"
<1>1. CASE s \in a
  <2>1. v[s] = 0 /\ c[s] = 0 /\ f[s] = 0 /\ d[s] = 0
    BY <1>1 DEF Worth
  <2> QED BY <1>1, <2>1 DEF PlaceOf
<1>2. CASE s \notin a
  <2>1. \/ v[s] = 0 /\ c[s] = 0 /\ f[s] = 0 /\ d[s] = 0
        \/ v[s] = 1 /\ c[s] = 0 /\ f[s] = 0 /\ d[s] = 0
        \/ v[s] = 0 /\ c[s] = 1 /\ f[s] = 0 /\ d[s] = 0
        \/ v[s] = 0 /\ c[s] = 0 /\ f[s] = 1 /\ d[s] = 0
        \/ v[s] = 0 /\ c[s] = 0 /\ f[s] = 0 /\ d[s] = 1
    BY <1>2 DEF Worth
  <2> QED BY <1>2, <2>1 DEF PlaceOf
<1> QED BY <1>1, <1>2

LEMMA PlaceNow ==
    ASSUME NEW s \in SignIns
    PROVE  /\ places[s] = PlaceOf(s, asked, verifying, codes, refreshes, sessions)
           /\ places'[s] = PlaceOf(s, asked', verifying', codes', refreshes', sessions')
BY DEF places, Place, PlaceOf

\* A sign-in whose rows stay keeps its place, so a step on one sign-in moves that one only.
LEMMA OneMoves ==
    ASSUME NEW s \in SignIns, NEW to,
           \A o \in SignIns : o # s =>
              /\ o \in asked' <=> o \in asked
              /\ verifying'[o] = verifying[o] /\ codes'[o] = codes[o]
              /\ refreshes'[o] = refreshes[o] /\ sessions'[o] = sessions[o],
           places'[s] = to
    PROVE  places' = [places EXCEPT ![s] = to]
<1>1. \A o \in SignIns : o # s => places'[o] = places[o]
  BY PlaceNow DEF PlaceOf
<1>2. places' = [o \in SignIns |-> places'[o]] /\ places = [o \in SignIns |-> places[o]]
  BY DEF places
<1> QED BY <1>1, <1>2

\* Where a sign-in is, told by its rows, before and after a step.
LEMMA PlacesKnown ==
    ASSUME SigningOK, SingleUse, SigningOK', SingleUse', NEW s \in SignIns
    PROVE  /\ s \in asked => places[s] = "asked" /\ verifying[s] = 0 /\ codes[s] = 0 /\ refreshes[s] = 0 /\ sessions[s] = 0
           /\ verifying[s] > 0 =>
                 /\ places[s] = "waiting" /\ verifying[s] = 1
                 /\ codes[s] = 0 /\ refreshes[s] = 0 /\ sessions[s] = 0 /\ s \notin asked
           /\ codes[s] > 0 =>
                 /\ places[s] = "code" /\ codes[s] = 1
                 /\ verifying[s] = 0 /\ refreshes[s] = 0 /\ sessions[s] = 0 /\ s \notin asked
           /\ refreshes[s] > 0 =>
                 /\ places[s] = "refresh" /\ refreshes[s] = 1
                 /\ verifying[s] = 0 /\ codes[s] = 0 /\ sessions[s] = 0 /\ s \notin asked
           /\ sessions[s] > 0 =>
                 /\ places[s] = "session" /\ sessions[s] = 1
                 /\ verifying[s] = 0 /\ codes[s] = 0 /\ refreshes[s] = 0 /\ s \notin asked
           /\ s \notin asked /\ verifying[s] + codes[s] + refreshes[s] + sessions[s] = 0 => places[s] = "none"
           /\ s \in asked' => places'[s] = "asked"
           /\ verifying'[s] > 0 => places'[s] = "waiting"
           /\ codes'[s] > 0 => places'[s] = "code"
           /\ refreshes'[s] > 0 => places'[s] = "refresh"
           /\ sessions'[s] > 0 => places'[s] = "session"
           /\ s \notin asked' /\ verifying'[s] + codes'[s] + refreshes'[s] + sessions'[s] = 0 => places'[s] = "none"
<1>1. /\ verifying[s] \in Nat /\ codes[s] \in Nat /\ refreshes[s] \in Nat /\ sessions[s] \in Nat
      /\ Worth(s, asked, verifying, codes, refreshes, sessions) <= 1
  BY DEF SigningOK, SingleUse, Worth
<1>2. /\ verifying'[s] \in Nat /\ codes'[s] \in Nat /\ refreshes'[s] \in Nat /\ sessions'[s] \in Nat
      /\ Worth(s, asked', verifying', codes', refreshes', sessions') <= 1
  BY DEF SigningOK, SingleUse, Worth
<1>3. verifying[s] + codes[s] + refreshes[s] + sessions[s] = 0
      => verifying[s] = 0 /\ codes[s] = 0 /\ refreshes[s] = 0 /\ sessions[s] = 0
  BY <1>1
<1>4. verifying'[s] + codes'[s] + refreshes'[s] + sessions'[s] = 0
      => verifying'[s] = 0 /\ codes'[s] = 0 /\ refreshes'[s] = 0 /\ sessions'[s] = 0
  BY <1>2
<1>5. places[s] = PlaceOf(s, asked, verifying, codes, refreshes, sessions)
  BY PlaceNow
<1>6. places'[s] = PlaceOf(s, asked', verifying', codes', refreshes', sessions')
  BY PlaceNow
<1>7. /\ s \in asked => PlaceOf(s, asked, verifying, codes, refreshes, sessions) = "asked"
      /\ s \in asked => verifying[s] = 0 /\ codes[s] = 0 /\ refreshes[s] = 0 /\ sessions[s] = 0
      /\ verifying[s] > 0 => PlaceOf(s, asked, verifying, codes, refreshes, sessions) = "waiting"
      /\ verifying[s] > 0 => verifying[s] = 1 /\ codes[s] = 0 /\ refreshes[s] = 0 /\ sessions[s] = 0
      /\ codes[s] > 0 => PlaceOf(s, asked, verifying, codes, refreshes, sessions) = "code"
      /\ codes[s] > 0 => codes[s] = 1 /\ verifying[s] = 0 /\ refreshes[s] = 0 /\ sessions[s] = 0
      /\ refreshes[s] > 0 => PlaceOf(s, asked, verifying, codes, refreshes, sessions) = "refresh"
      /\ refreshes[s] > 0 => refreshes[s] = 1 /\ verifying[s] = 0 /\ codes[s] = 0 /\ sessions[s] = 0
      /\ sessions[s] > 0 => PlaceOf(s, asked, verifying, codes, refreshes, sessions) = "session"
      /\ sessions[s] > 0 => sessions[s] = 1 /\ verifying[s] = 0 /\ codes[s] = 0 /\ refreshes[s] = 0
      /\ s \notin asked /\ verifying[s] = 0 /\ codes[s] = 0 /\ refreshes[s] = 0 /\ sessions[s] = 0
         => PlaceOf(s, asked, verifying, codes, refreshes, sessions) = "none"
  BY <1>1, PlaceByRows
<1>8. /\ s \in asked' => PlaceOf(s, asked', verifying', codes', refreshes', sessions') = "asked"
      /\ verifying'[s] > 0 => PlaceOf(s, asked', verifying', codes', refreshes', sessions') = "waiting"
      /\ codes'[s] > 0 => PlaceOf(s, asked', verifying', codes', refreshes', sessions') = "code"
      /\ refreshes'[s] > 0 => PlaceOf(s, asked', verifying', codes', refreshes', sessions') = "refresh"
      /\ sessions'[s] > 0 => PlaceOf(s, asked', verifying', codes', refreshes', sessions') = "session"
      /\ s \notin asked' /\ verifying'[s] = 0 /\ codes'[s] = 0 /\ refreshes'[s] = 0 /\ sessions'[s] = 0
         => PlaceOf(s, asked', verifying', codes', refreshes', sessions') = "none"
  BY <1>2, PlaceByRows
<1>9. s \in asked => ~(verifying[s] > 0) /\ ~(codes[s] > 0) /\ ~(refreshes[s] > 0) /\ ~(sessions[s] > 0)
  BY <1>7
<1> QED BY <1>3, <1>4, <1>5, <1>6, <1>7, <1>8, <1>9

\* Every step of one sign-in is one of SignIn's, or changes nothing it tells apart.
LEMMA SignInMoves ==
    ASSUME SigningOK, SingleUse, SigningOK', SingleUse', NEW s \in SignIns,
           \/ Ask(s) \/ Consume(s) \/ NotVerified(s) \/ Exchange(s) \/ Refresh(s) \/ Expire(s)
           \/ \E p \in People : Verified(s, p)
    PROVE  Visits!SNext \/ places' = places
<1> DEFINE Others == \A o \in SignIns : o # s =>
                        /\ o \in asked' <=> o \in asked
                        /\ verifying'[o] = verifying[o] /\ codes'[o] = codes[o]
                        /\ refreshes'[o] = refreshes[o] /\ sessions'[o] = sessions[o]
           Moved(from, to) == places[s] = from /\ places'[s] = to
<1>1. /\ verifying \in [SignIns -> Nat] /\ codes \in [SignIns -> Nat]
      /\ refreshes \in [SignIns -> Nat] /\ sessions \in [SignIns -> Nat]
  BY DEF SigningOK
<1>2. /\ verifying[s] \in Nat /\ codes[s] \in Nat /\ refreshes[s] \in Nat /\ sessions[s] \in Nat
  BY <1>1
<1>3. ASSUME NEW from, NEW to, Others, Moved(from, to)
      PROVE  places[s] = from /\ places' = [places EXCEPT ![s] = to]
  BY <1>3, OneMoves
<1>4. ASSUME NEW from \in Visits!Places, Others, Moved(from, "none")
      PROVE  Visits!SNext
  BY <1>3, <1>4 DEF Visits!SNext, Visits!Lose, Visits!Move
<1>5. CASE Ask(s)
  <2>1. Others /\ Moved("none", "asked")
    BY <1>1, <1>2, <1>5, PlacesKnown DEF Ask
  <2> QED BY <1>3, <2>1 DEF Visits!SNext, Visits!Visit, Visits!Move
<1>6. CASE Consume(s)
  <2>1. Others /\ verifying'[s] = verifying[s] + 1 /\ s \in asked
    BY <1>1, <1>6, AddDrop DEF Consume
  <2>2. Moved("asked", "waiting")
    BY <1>2, <2>1, PlacesKnown
  <2> QED BY <1>3, <2>1, <2>2 DEF Visits!SNext, Visits!Return, Visits!Move
<1>7. CASE NotVerified(s)
  <2>1. Others /\ verifying'[s] = verifying[s] - 1 /\ verifying[s] > 0
        /\ UNCHANGED <<asked, codes, refreshes, sessions>>
    BY <1>1, <1>7, AddDrop DEF NotVerified
  <2>2. verifying[s] = 1 /\ codes[s] = 0 /\ refreshes[s] = 0 /\ sessions[s] = 0 /\ s \notin asked
    BY <2>1, PlacesKnown
  <2>3. Moved("waiting", "none")
    BY <2>1, <2>2, PlacesKnown
  <2> QED BY <1>4, <2>1, <2>3 DEF Visits!Places
<1>8. CASE Exchange(s)
  <2>1. /\ Others /\ codes'[s] = codes[s] - 1 /\ codes[s] > 0 /\ UNCHANGED <<asked, verifying, sessions>>
        /\ refreshes'[s] \in {refreshes[s], refreshes[s] + 1}
    BY <1>1, <1>8, AddDrop DEF Exchange
  <2>2. codes[s] = 1 /\ verifying[s] = 0 /\ refreshes[s] = 0 /\ sessions[s] = 0 /\ s \notin asked
    BY <2>1, PlacesKnown
  <2>3. CASE refreshes'[s] = refreshes[s]
    <3>1. Moved("code", "none")
      BY <2>1, <2>2, <2>3, PlacesKnown
    <3> QED BY <1>4, <2>1, <3>1 DEF Visits!Places
  <2>4. CASE refreshes'[s] = refreshes[s] + 1
    <3>1. Moved("code", "refresh")
      BY <2>1, <2>2, <2>4, PlacesKnown
    <3> QED BY <1>3, <2>1, <3>1 DEF Visits!SNext, Visits!Redeem, Visits!Move
  <2> QED BY <2>1, <2>3, <2>4
<1>9. CASE Refresh(s)
  <2>1. UNCHANGED <<asked, verifying, codes, sessions>> /\ refreshes[s] > 0
    BY <1>9 DEF Refresh
  <2>2. CASE refreshes' = refreshes
    BY <2>1, <2>2 DEF places, Place
  <2>3. CASE refreshes' = Drop(refreshes, s)
    <3>1. Others /\ refreshes'[s] = refreshes[s] - 1
      BY <1>1, <2>1, <2>3, AddDrop
    <3>2. refreshes[s] = 1 /\ verifying[s] = 0 /\ codes[s] = 0 /\ sessions[s] = 0 /\ s \notin asked
      BY <2>1, PlacesKnown
    <3>3. Moved("refresh", "none")
      BY <2>1, <3>1, <3>2, PlacesKnown
    <3> QED BY <1>4, <3>1, <3>3 DEF Visits!Places
  <2> QED BY <1>9, <2>2, <2>3 DEF Refresh, Rotated
<1>10. CASE Expire(s)
  <2>1. CASE s \in asked /\ asked' = asked \ {s} /\ UNCHANGED <<codes, refreshes, sessions, verifying>>
    <3>1. Others /\ Moved("asked", "none")
      BY <2>1, PlacesKnown
    <3> QED BY <1>4, <3>1 DEF Visits!Places
  <2>2. CASE codes[s] > 0 /\ codes' = Drop(codes, s) /\ UNCHANGED <<asked, refreshes, sessions, verifying>>
    <3>1. Others /\ codes'[s] = codes[s] - 1
      BY <1>1, <2>2, AddDrop
    <3>2. codes[s] = 1 /\ verifying[s] = 0 /\ refreshes[s] = 0 /\ sessions[s] = 0 /\ s \notin asked
      BY <2>2, PlacesKnown
    <3>3. Moved("code", "none")
      BY <2>2, <3>1, <3>2, PlacesKnown
    <3> QED BY <1>4, <3>1, <3>3 DEF Visits!Places
  <2>3. CASE refreshes[s] > 0 /\ refreshes' = Drop(refreshes, s) /\ UNCHANGED <<asked, codes, sessions, verifying>>
    <3>1. Others /\ refreshes'[s] = refreshes[s] - 1
      BY <1>1, <2>3, AddDrop
    <3>2. refreshes[s] = 1 /\ verifying[s] = 0 /\ codes[s] = 0 /\ sessions[s] = 0 /\ s \notin asked
      BY <2>3, PlacesKnown
    <3>3. Moved("refresh", "none")
      BY <2>3, <3>1, <3>2, PlacesKnown
    <3> QED BY <1>4, <3>1, <3>3 DEF Visits!Places
  <2>4. CASE sessions[s] > 0 /\ sessions' = Drop(sessions, s) /\ UNCHANGED <<asked, codes, refreshes, verifying>>
    <3>1. Others /\ sessions'[s] = sessions[s] - 1
      BY <1>1, <2>4, AddDrop
    <3>2. sessions[s] = 1 /\ verifying[s] = 0 /\ codes[s] = 0 /\ refreshes[s] = 0 /\ s \notin asked
      BY <2>4, PlacesKnown
    <3>3. Moved("session", "none")
      BY <2>4, <3>1, <3>2, PlacesKnown
    <3> QED BY <1>4, <3>1, <3>3 DEF Visits!Places
  <2> QED BY <1>10, <2>1, <2>2, <2>3, <2>4 DEF Expire
<1>11. CASE \E p \in People : Verified(s, p)
  <2>1. verifying[s] > 0 /\ verifying'[s] = verifying[s] - 1 /\ UNCHANGED <<asked, refreshes>>
    BY <1>1, <1>11, AddDrop DEF Verified
  <2>2. verifying[s] = 1 /\ codes[s] = 0 /\ refreshes[s] = 0 /\ sessions[s] = 0 /\ places[s] = "waiting"
    BY <2>1, PlacesKnown
  <2>3. Others
    BY <1>1, <1>11, AddDrop DEF Verified
  <2>4. IF s \in Dashboard THEN sessions'[s] = 1 ELSE codes'[s] = 1
    BY <1>1, <1>11, <2>2, AddDrop DEF Verified
  <2>5. Moved("waiting", IF s \in Dashboard THEN "session" ELSE "code")
    BY <2>2, <2>4, PlacesKnown
  <2> QED BY <1>3, <2>3, <2>5 DEF Visits!SNext, Visits!Vouched, Visits!Move
<1> QED BY <1>5, <1>6, <1>7, <1>8, <1>9, <1>10, <1>11

\* A crash takes the visits that wait, and a code or token taken by a request it cuts.
LEMMA CrashMoves ==
    ASSUME SigningOK, SingleUse, SigningOK', SingleUse', Down,
           \/ UNCHANGED <<codes, refreshes>>
           \/ \E s \in SignIns : codes[s] > 0 /\ codes' = Drop(codes, s) /\ UNCHANGED refreshes
           \/ \E s \in SignIns : refreshes[s] > 0 /\ refreshes' = Drop(refreshes, s) /\ UNCHANGED codes
    PROVE  Visits!SNext
<1>1. verifying' = None /\ UNCHANGED <<asked, sessions>> /\ \A s \in SignIns : None[s] = 0
  BY DEF Down, None
<1>2. /\ verifying \in [SignIns -> Nat] /\ codes \in [SignIns -> Nat]
      /\ refreshes \in [SignIns -> Nat] /\ sessions \in [SignIns -> Nat]
  BY DEF SigningOK
\* Those whose code and refresh token stay.
<1>3. ASSUME NEW s \in SignIns, codes'[s] = codes[s], refreshes'[s] = refreshes[s]
      PROVE  places'[s] = Visits!Left[s]
  <2>1. Visits!Left[s] = IF places[s] = "waiting" THEN "none" ELSE places[s]
    BY DEF Visits!Left
  <2>2. CASE verifying[s] > 0
    <3>1. places[s] = "waiting" /\ codes[s] = 0 /\ refreshes[s] = 0 /\ sessions[s] = 0 /\ s \notin asked
      BY <2>2, PlacesKnown
    <3>2. places'[s] = "none"
      BY <1>1, <1>3, <3>1, PlacesKnown
    <3> QED BY <2>1, <3>1, <3>2
  <2>3. CASE verifying[s] = 0
    <3>1. places'[s] = places[s]
      BY <1>1, <1>3, <2>3, PlaceNow DEF PlaceOf
    <3>2. places[s] # "waiting"
      BY <2>3, PlaceNow DEF PlaceOf
    <3> QED BY <2>1, <3>1, <3>2
  <2> QED BY <1>2, <2>2, <2>3
<1>4. places' = [s \in SignIns |-> places'[s]] /\ Visits!Left = [s \in SignIns |-> Visits!Left[s]]
  BY DEF places, Visits!Left
<1>5. ASSUME NEW s \in SignIns, places[s] \in {"code", "refresh"}, places'[s] = "none",
             \A o \in SignIns : o # s => codes'[o] = codes[o] /\ refreshes'[o] = refreshes[o]
      PROVE  Visits!SNext
  <2>1. \A o \in SignIns : o # s => places'[o] = Visits!Left[o]
    BY <1>3, <1>5
  <2>2. places' = [Visits!Left EXCEPT ![s] = "none"]
    BY <1>4, <1>5, <2>1
  <2> QED BY <1>5, <2>2 DEF Visits!SNext, Visits!Die
<1>6. CASE UNCHANGED <<codes, refreshes>>
  <2>1. \A s \in SignIns : places'[s] = Visits!Left[s]
    BY <1>3, <1>6
  <2>2. places' = Visits!Left
    BY <1>4, <2>1
  <2> QED BY <2>2 DEF Visits!SNext, Visits!Die
<1>7. CASE \E s \in SignIns : codes[s] > 0 /\ codes' = Drop(codes, s) /\ UNCHANGED refreshes
  <2>1. PICK s \in SignIns : codes[s] > 0 /\ codes' = Drop(codes, s) /\ UNCHANGED refreshes
    BY <1>7
  <2>2. codes'[s] = codes[s] - 1 /\ \A o \in SignIns : o # s => codes'[o] = codes[o]
    BY <1>2, <2>1, AddDrop
  <2>3. /\ places[s] = "code" /\ codes[s] = 1 /\ verifying[s] = 0
        /\ refreshes[s] = 0 /\ sessions[s] = 0 /\ s \notin asked
    BY <2>1, PlacesKnown
  <2>4. places'[s] = "none"
    BY <1>1, <2>1, <2>2, <2>3, PlacesKnown
  <2> QED BY <1>5, <2>1, <2>2, <2>3, <2>4
<1>8. CASE \E s \in SignIns : refreshes[s] > 0 /\ refreshes' = Drop(refreshes, s) /\ UNCHANGED codes
  <2>1. PICK s \in SignIns : refreshes[s] > 0 /\ refreshes' = Drop(refreshes, s) /\ UNCHANGED codes
    BY <1>8
  <2>2. refreshes'[s] = refreshes[s] - 1 /\ \A o \in SignIns : o # s => refreshes'[o] = refreshes[o]
    BY <1>2, <2>1, AddDrop
  <2>3. /\ places[s] = "refresh" /\ refreshes[s] = 1 /\ verifying[s] = 0
        /\ codes[s] = 0 /\ sessions[s] = 0 /\ s \notin asked
    BY <2>1, PlacesKnown
  <2>4. places'[s] = "none"
    BY <1>1, <2>1, <2>2, <2>3, PlacesKnown
  <2> QED BY <1>5, <2>1, <2>2, <2>3, <2>4
<1> QED BY <1>6, <1>7, <1>8

\* Sign-ins, with every request repeated and cut as often as there is, keep the contract of SignIn
\* (auth-service.ts, token-store.ts).
THEOREM SignInContractKept == Spec => SignInsFollow
<1>1. Init => Visits!SInit
  <2> SUFFICES ASSUME Init PROVE places = [s \in SignIns |-> "none"]
    BY DEF Visits!SInit
  <2>1. ASSUME NEW s \in SignIns PROVE Place(s) = "none"
    BY DEF Init, None, Place
  <2> QED BY <2>1 DEF places
<1>2. IInv /\ IInv' /\ [Next]_vars => [Visits!SNext]_places
  <2> SUFFICES ASSUME IInv, IInv', [Next]_vars PROVE Visits!SNext \/ places' = places
    OBVIOUS
  <2>1. SigningOK /\ SingleUse /\ SigningOK' /\ SingleUse'
    BY DEF IInv, TypeOK, SigningOK
  <2>2. CASE \E s \in SignIns : \/ Ask(s) \/ Consume(s) \/ NotVerified(s) \/ Exchange(s) \/ Refresh(s) \/ Expire(s)
                                \/ \E p \in People : Verified(s, p)
    BY <2>1, <2>2, SignInMoves
  <2>3. CASE Crash \/ \E s \in SignIns : CrashInExchange(s) \/ CrashInRefresh(s)
    BY <2>1, <2>3, CrashMoves DEF Crash, CrashInExchange, CrashInRefresh
  <2>4. CASE \E a \in Accounts : CrashInCreate(a) \/ CrashInDelete(a)
    BY <2>1, <2>4, CrashMoves DEF CrashInCreate, CrashInDelete
  <2>5. CASE UNCHANGED signing
    BY <2>5 DEF signing, places, Place
  <2>6. \/ \E s \in SignIns : \/ Ask(s) \/ Consume(s) \/ NotVerified(s) \/ Exchange(s) \/ Refresh(s) \/ Expire(s)
                              \/ \E p \in People : Verified(s, p)
        \/ Crash \/ \E s \in SignIns : CrashInExchange(s) \/ CrashInRefresh(s)
        \/ \E a \in Accounts : CrashInCreate(a) \/ CrashInDelete(a)
        \/ UNCHANGED signing
    BY DEF Next, Create, Update, RotateSecret, RevokeSecret, Delete, ClientCredentials, SetRole, RunsOut, vars
  <2> QED BY <2>2, <2>3, <2>4, <2>5, <2>6
<1> QED BY <1>1, <1>2, InitHolds, IInvKept, PTL DEF Spec, SignInsFollow, Visits!SSpec

=============================================================================
