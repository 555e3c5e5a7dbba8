--------------------------- MODULE ApiKeysProofs ---------------------------
(***************************************************************************)
(* Proofs about ApiKeys, for any number of requests that interleave and    *)
(* tables of any length.                                                   *)
(***************************************************************************)
EXTENDS ApiKeys, SequenceTheorems, TLAPS

(***************************************************************************)
(* The inductive invariant: the tables by themselves, and what each        *)
(* request under way knows of them.                                        *)
(***************************************************************************)
Rows == [app : Nat, prefix : KeyPrefixes, scopes : SUBSET ALL_SCOPES, active : BOOLEAN,
         revoked : BOOLEAN, expires : 0..Never, asked : 0..Never, from : Nat]
Apps == [tenant : Nat, name : Names, active : BOOLEAN]
Reqs == [pc : {"idle", "in", "mint", "insert", "revoke", "tenant", "app", "patch"}, op : Ops \cup {"none"},
         caller : Nat, obj : Nat, scopes : SUBSET ALL_SCOPES, expires : 0..Never,
         prefix : KeyPrefixes \cup {"none"}, tries : 0..1, name : Names \cup {"none"},
         active : SUBSET BOOLEAN, revokedBefore : SUBSET Nat]

Tables ==
  /\ key \in Seq(Rows) /\ app \in Seq(Apps) /\ tenant \in Seq(Names)
  /\ granted \in Seq(SUBSET ALL_SCOPES) /\ Len(granted) = Len(app)
  /\ now \in 0..MaxTime /\ served \in 0..MaxRequests

\* A row is active until it is revoked, and is of an application that was given its scopes.
KeyRow(k) ==
  /\ key[k].app \in 1..Len(app)
  /\ key[k].from \in 0..k - 1
  /\ key[k].active <=> ~key[k].revoked
  /\ key[k].scopes \subseteq granted[key[k].app]

\* Only a key with a successor expires before the time it was created with.
Expiry ==
  /\ \A x \in 1..Len(key) : key[x].from # 0 => key[key[x].from].expires <= now + Overlap
  /\ \A k \in 1..Len(key) : key[k].expires = key[k].asked \/ \E x \in 1..Len(key) : key[x].from = k

PrefixesUnique == \A k, x \in 1..Len(key) : key[k].prefix = key[x].prefix => k = x

NamesUnique ==
  /\ \A a \in 1..Len(app) : app[a].tenant \in 1..Len(tenant)
  /\ \A i, j \in 1..Len(tenant) : tenant[i] = tenant[j] => i = j
  /\ \A a, b \in 1..Len(app) : app[a].tenant = app[b].tenant /\ app[a].name = app[b].name => a = b

\* What the checks of a request q have established still holds when it commits: rows stay, their
\* application and scopes do not change, and a revocation is final.
CallerKnown(q) == q.pc # "idle" =>
  /\ q.caller \in 1..Len(key) /\ q.caller \notin q.revokedBefore
  /\ \A k \in q.revokedBefore : k \in 1..Len(key) /\ key[k].revoked

GrantChecked(q) == q.pc \in {"mint", "insert"} /\ q.op = "create" =>
  /\ q.obj \in 1..Len(app)
  /\ q.scopes \subseteq key[q.caller].scopes
  /\ "admin" \in key[q.caller].scopes \/ key[q.caller].app = q.obj

RotationChecked(q) == q.pc \in {"mint", "insert"} /\ q.op = "rotate" =>
  /\ q.obj \in 1..Len(key) /\ q.obj \notin q.revokedBefore
  /\ q.pc = "insert" => q.expires <= now + Overlap

ObjectKnown(q) ==
  /\ q.pc \in {"mint", "insert"} => q.op \in {"create", "rotate"}
  /\ q.pc = "insert" => q.prefix \in KeyPrefixes
  /\ q.pc = "revoke" => q.obj \in 1..Len(key)
  /\ q.pc = "tenant" => q.name \in Names
  /\ q.pc = "app" => q.obj \in 1..Len(tenant) /\ q.name \in Names
  /\ q.pc = "patch" => q.obj \in 1..Len(app)

Known(q) == CallerKnown(q) /\ GrantChecked(q) /\ RotationChecked(q) /\ ObjectKnown(q)

IInv ==
  /\ Tables /\ req \in [Requests -> Reqs]
  /\ (\A k \in 1..Len(key) : KeyRow(k)) /\ Expiry /\ PrefixesUnique /\ NamesUnique
  /\ \A r \in Requests : Known(req[r])

-----------------------------------------------------------------------------
(* Facts about the tables.                                                 *)

LEMMA Constants ==
  /\ MaxTime \in Nat /\ Overlap \in Nat /\ MaxRequests \in Nat /\ Never \in Nat
  /\ Never = MaxTime + Overlap + 1
  BY KeyAssumption DEF Never

\* What the session may rely on between its SELECT and its commit.
Grow ==
  /\ Len(key) <= Len(key') /\ Len(app) <= Len(app') /\ Len(tenant) <= Len(tenant') /\ now <= now'
  /\ \A k \in 1..Len(key) :
       /\ key'[k].app = key[k].app /\ key'[k].scopes = key[k].scopes
       /\ key[k].revoked => key'[k].revoked

LEMMA SameTables ==
  ASSUME Tables, UNCHANGED <<key, app, tenant>>, now' = now \/ now' = now + 1
  PROVE  Grow
  <1>1. /\ Len(key) \in Nat /\ Len(app) \in Nat /\ Len(tenant) \in Nat /\ now \in Nat
    BY Constants, LenProperties DEF Tables
  <1> QED BY <1>1 DEF Grow

LEMMA KnownKept ==
  ASSUME Tables, Tables', Grow, NEW q \in Reqs, Known(q)
  PROVE  Known(q)'
  <1>1. /\ Len(key) \in Nat /\ Len(app) \in Nat /\ Len(tenant) \in Nat /\ now \in Nat
        /\ Len(key') \in Nat /\ Len(app') \in Nat /\ Len(tenant') \in Nat /\ now' \in Nat
        /\ Overlap \in Nat
    BY Constants, LenProperties DEF Tables
  <1>2. q.expires \in Nat
    BY Constants DEF Reqs
  <1>3. /\ 1..Len(key) \subseteq 1..Len(key') /\ 1..Len(app) \subseteq 1..Len(app')
        /\ 1..Len(tenant) \subseteq 1..Len(tenant')
    BY <1>1 DEF Grow
  <1>4. CallerKnown(q)'
    BY <1>3 DEF Known, CallerKnown, Grow
  <1>5. GrantChecked(q)'
    BY <1>3 DEF Known, CallerKnown, GrantChecked, Grow
  <1>6. RotationChecked(q)'
    BY <1>1, <1>2, <1>3 DEF Known, RotationChecked, Grow
  <1>7. ObjectKnown(q)'
    BY <1>3 DEF Known, ObjectKnown
  <1> QED BY <1>4, <1>5, <1>6, <1>7 DEF Known

LEMMA KnownIdle == Known(Idle) /\ Known(Idle)'
  BY DEF Known, CallerKnown, GrantChecked, RotationChecked, ObjectKnown, Idle

LEMMA IdleTyped == Idle \in Reqs
  BY Constants DEF Idle, Reqs

-----------------------------------------------------------------------------
(* One request moves on, the others keep what they know.                   *)

LEMMA OneMoves ==
  ASSUME IInv, Tables', Grow, NEW r \in Requests, NEW q \in Reqs, Known(q)', req' = [req EXCEPT ![r] = q]
  PROVE  req' \in [Requests -> Reqs] /\ \A i \in Requests : Known(req[i])'
  <1>1. req \in [Requests -> Reqs] /\ req' \in [Requests -> Reqs]
    BY DEF IInv
  <1>2. ASSUME NEW i \in Requests PROVE Known(req[i])'
    <2>1. PICK p \in Reqs : p = req'[i]
      BY <1>1
    <2>2. CASE i = r
      <3>1. req'[i] = q
        BY <1>1, <2>2
      <3> QED BY <3>1 DEF Known, CallerKnown, GrantChecked, RotationChecked, ObjectKnown
    <2>3. CASE i # r
      <3>1. p = req[i]
        BY <1>1, <2>1, <2>3
      <3>2. Tables /\ Known(p)
        BY <3>1 DEF IInv
      <3>3. Known(p)'
        BY <3>2, KnownKept
      <3> QED BY <2>1, <3>3 DEF Known, CallerKnown, GrantChecked, RotationChecked, ObjectKnown
    <2> QED BY <2>2, <2>3
  <1> QED BY <1>1, <1>2

\* A step that writes no table.
LEMMA ReadOnly ==
  ASSUME IInv, UNCHANGED <<now, key, app, tenant, granted>>, served' \in 0..MaxRequests,
         NEW r \in Requests, NEW q \in Reqs, Known(q), req' = [req EXCEPT ![r] = q]
  PROVE  IInv' /\ Grow
  <1>1. Tables /\ Tables' /\ Grow
    BY SameTables DEF IInv, Tables
  <1>2. Known(q)'
    BY <1>1, KnownKept
  <1>3. /\ \A k \in 1..Len(key) : KeyRow(k)'
        /\ Expiry' /\ PrefixesUnique' /\ NamesUnique'
    BY DEF IInv, KeyRow, Expiry, PrefixesUnique, NamesUnique
  <1>4. Len(key') = Len(key)
    OBVIOUS
  <1> QED BY <1>1, <1>2, <1>3, <1>4, OneMoves DEF IInv

LEMMA EndsReadOnly ==
  ASSUME IInv, UNCHANGED <<now, key, app, tenant, granted, served>>, NEW r \in Requests, Reply(r)
  PROVE  IInv' /\ Grow
  <1>1. served' \in 0..MaxRequests
    BY DEF IInv, Tables
  <1> QED BY <1>1, ReadOnly, KnownIdle, IdleTyped DEF Reply

LEMMA InitIInv == Init => IInv
  <1> SUFFICES ASSUME Init PROVE IInv
    OBVIOUS
  <1>1. PICK name \in Names \X Names :
          /\ name[1] # name[2]
          /\ tenant = <<name[1]>>
          /\ app = << [tenant |-> 1, name |-> name[1], active |-> TRUE],
                      [tenant |-> 1, name |-> name[2], active |-> TRUE] >>
    <2> DEFINE name == CHOOSE s \in Names \X Names : s[1] # s[2]
    <2>1. name \in Names \X Names /\ name[1] # name[2]
      BY KeyAssumption
    <2> QED BY <2>1 DEF Init
  <1>2. PICK pre \in KeyPrefixes \X KeyPrefixes :
          /\ pre[1] # pre[2]
          /\ key = << RowOf(1, pre[1], ALL_SCOPES, Never, 0), RowOf(2, pre[2], {"fetch", "keys"}, Never, 0) >>
    <2> DEFINE pre == CHOOSE s \in KeyPrefixes \X KeyPrefixes : s[1] # s[2]
    <2>1. pre \in KeyPrefixes \X KeyPrefixes /\ pre[1] # pre[2]
      BY KeyAssumption
    <2> QED BY <2>1 DEF Init
  <1>3. now = 0 /\ served = 0 /\ granted = << ALL_SCOPES, {"fetch", "keys"} >> /\ req = [r \in Requests |-> Idle]
    BY DEF Init
  <1>4. /\ RowOf(1, pre[1], ALL_SCOPES, Never, 0) \in Rows
        /\ RowOf(2, pre[2], {"fetch", "keys"}, Never, 0) \in Rows
    BY <1>2, Constants DEF RowOf, Rows, ALL_SCOPES
  <1>5. Len(key) = 2 /\ Len(app) = 2 /\ Len(tenant) = 1 /\ Len(granted) = 2
    BY <1>1, <1>2, <1>3
  <1>6. Tables
    BY <1>1, <1>2, <1>3, <1>4, <1>5, Constants DEF Tables, Apps, ALL_SCOPES
  <1>7. \A k \in 1..Len(key) : KeyRow(k)
    BY <1>1, <1>2, <1>3, <1>5 DEF KeyRow, RowOf
  <1>8. Expiry /\ PrefixesUnique
    BY <1>2, <1>3, <1>5, Constants DEF Expiry, PrefixesUnique, RowOf
  <1>9. NamesUnique
    BY <1>1, <1>5 DEF NamesUnique
  <1> QED BY <1>3, <1>6, <1>7, <1>8, <1>9, KnownIdle, IdleTyped DEF IInv

-----------------------------------------------------------------------------
(* The steps before the commit.                                            *)

LEMMA Lengths ==
  ASSUME Tables
  PROVE  /\ Len(key) \in Nat /\ DOMAIN key = 1..Len(key) /\ \A k \in 1..Len(key) : key[k] \in Rows
         /\ Len(app) \in Nat /\ DOMAIN app = 1..Len(app) /\ \A a \in 1..Len(app) : app[a] \in Apps
         /\ Len(tenant) \in Nat /\ DOMAIN tenant = 1..Len(tenant)
         /\ \A t \in 1..Len(tenant) : tenant[t] \in Names
         /\ now \in Nat
  BY LenProperties, ElementOfSeq, Constants DEF Tables

LEMMA AuthenticateIInv ==
  ASSUME IInv, NEW r \in Requests, Authenticate(r)
  PROVE  IInv' /\ Grow
  <1>1. PICK k \in DOMAIN key, op \in Ops : \E x \in Matches(k) :
          /\ Accepts(k, x)
          /\ req' = [req EXCEPT ![r] = [Idle EXCEPT !.pc = "in", !.op = op, !.caller = x,
                               !.revokedBefore = IF op = "rotate" THEN Revoked ELSE {}]]
    BY DEF Authenticate
  <1>2. PICK x \in Matches(k) :
          /\ Accepts(k, x)
          /\ req' = [req EXCEPT ![r] = [Idle EXCEPT !.pc = "in", !.op = op, !.caller = x,
                               !.revokedBefore = IF op = "rotate" THEN Revoked ELSE {}]]
    BY <1>1
  <1>3. PICK B : B = IF op = "rotate" THEN Revoked ELSE {}
    OBVIOUS
  <1>4. PICK q : q = [Idle EXCEPT !.pc = "in", !.op = op, !.caller = x, !.revokedBefore = B]
    OBVIOUS
  <1>5. DOMAIN key = 1..Len(key) /\ Len(key) \in Nat
    BY Lengths DEF IInv
  <1>6. x \in 1..Len(key) /\ x \notin B /\ B \subseteq 1..Len(key) /\ \A i \in B : key[i].revoked
    BY <1>2, <1>3, <1>5 DEF Matches, Accepts, Revoked
  <1>7. q \in Reqs
    <2>1. x \in Nat /\ B \in SUBSET Nat
      BY <1>5, <1>6
    <2> QED BY <1>4, <2>1, IdleTyped DEF Reqs
  <1>8. q.pc = "in" /\ q.caller = x /\ q.revokedBefore = B
    BY <1>4 DEF Idle
  <1>9. Known(q)
    BY <1>6, <1>8 DEF Known, CallerKnown, GrantChecked, RotationChecked, ObjectKnown
  <1>10. served' \in 0..MaxRequests
    BY Constants DEF Authenticate, IInv, Tables
  <1>11. req' = [req EXCEPT ![r] = q]
    BY <1>2, <1>3, <1>4
  <1> QED BY <1>7, <1>9, <1>10, <1>11, ReadOnly DEF Authenticate

LEMMA DenyIInv ==
  ASSUME IInv, NEW r \in Requests, Deny(r)
  PROVE  IInv' /\ Grow
  <1>1. req \in [Requests -> Reqs] /\ Known(req[r])
    BY DEF IInv
  <1>2. PICK q \in Reqs : q = req[r]
    BY <1>1
  <1>3. req' = [req EXCEPT ![r] = q]
    BY <1>1, <1>2 DEF Deny
  <1>4. served' \in 0..MaxRequests
    BY Constants DEF Deny, IInv, Tables
  <1> QED BY <1>1, <1>2, <1>3, <1>4, ReadOnly DEF Deny

LEMMA CreateIInv ==
  ASSUME IInv, NEW r \in Requests, create_api_key(r)
  PROVE  IInv' /\ Grow
  <1> USE DEF create_api_key, At
  <1>1. CASE Reply(r)
    BY <1>1, EndsReadOnly
  <1>2. ASSUME NEW a \in 1..Len(app) + 1, NEW S \in ScopeLists, NEW e \in {now, Never},
               MayGrant(req[r].caller, a, S), a \in DOMAIN app,
               req' = [req EXCEPT ![r].pc = "mint", ![r].obj = a, ![r].scopes = S, ![r].expires = e]
        PROVE  IInv' /\ Grow
    <2>1. req \in [Requests -> Reqs] /\ Known(req[r]) /\ Tables
      BY DEF IInv
    <2>2. PICK p \in Reqs : p = req[r]
      BY <2>1
    <2>3. PICK d : d = e
      OBVIOUS
    <2>4. PICK q : q = [p EXCEPT !.pc = "mint", !.obj = a, !.scopes = S, !.expires = d]
      OBVIOUS
    <2>5. DOMAIN app = 1..Len(app) /\ Len(app) \in Nat /\ d \in 0..Never
      BY <2>1, <2>3, Lengths, Constants DEF Tables
    <2>6. q \in Reqs
      <3>1. a \in Nat /\ S \in SUBSET ALL_SCOPES
        BY <1>2, <2>5, KeyAssumption
      <3> HIDE DEF create_api_key
      <3> QED BY <2>2, <2>4, <2>5, <3>1 DEF Reqs
    <2>7. /\ q.pc = "mint" /\ q.op = "create" /\ q.obj = a /\ q.scopes = S
          /\ q.caller = p.caller /\ q.revokedBefore = p.revokedBefore
      BY <2>2, <2>4 DEF Reqs
    <2>8. CallerKnown(q)
      BY <2>1, <2>2, <2>7 DEF Known, CallerKnown
    <2>9. GrantChecked(q)
      BY <1>2, <2>2, <2>5, <2>7 DEF GrantChecked, MayGrant, MayTouch, IsAdmin
    <2>10. Known(q)
      BY <2>7, <2>8, <2>9 DEF Known, RotationChecked, ObjectKnown
    <2>11. req' = [req EXCEPT ![r] = q]
      BY <1>2, <2>1, <2>2, <2>3, <2>4
    <2>12. served' \in 0..MaxRequests
      BY <2>1 DEF Tables
    <2> QED BY <2>6, <2>10, <2>11, <2>12, ReadOnly
  <1> QED BY <1>1, <1>2

LEMMA RotateIInv ==
  ASSUME IInv, NEW r \in Requests, rotate_api_key(r)
  PROVE  IInv' /\ Grow
  <1> USE DEF rotate_api_key, At
  <1>1. CASE Reply(r)
    BY <1>1, EndsReadOnly
  <1>2. ASSUME NEW k \in 1..Len(key) + 1, k \in DOMAIN key, ~SeesRevoked(r, k),
               req' = [req EXCEPT ![r].pc = "mint", ![r].obj = k]
        PROVE  IInv' /\ Grow
    <2>1. req \in [Requests -> Reqs] /\ Known(req[r]) /\ Tables
      BY DEF IInv
    <2>2. PICK p \in Reqs : p = req[r]
      BY <2>1
    <2>3. PICK q : q = [p EXCEPT !.pc = "mint", !.obj = k]
      OBVIOUS
    <2>4. DOMAIN key = 1..Len(key) /\ Len(key) \in Nat
      BY <2>1, Lengths
    <2>5. q \in Reqs
      <3>1. k \in Nat
        BY <1>2, <2>4
      <3> HIDE DEF rotate_api_key
      <3> QED BY <2>2, <2>3, <3>1 DEF Reqs
    <2>6. /\ q.pc = "mint" /\ q.op = "rotate" /\ q.obj = k
          /\ q.caller = p.caller /\ q.revokedBefore = p.revokedBefore
      BY <2>2, <2>3 DEF Reqs
    <2>7. CallerKnown(q)
      BY <2>1, <2>2, <2>6 DEF Known, CallerKnown
    <2>8. k \notin q.revokedBefore
      BY <1>2, <2>2, <2>6, <2>7 DEF CallerKnown, SeesRevoked
    <2>9. Known(q)
      BY <1>2, <2>4, <2>6, <2>7, <2>8 DEF Known, GrantChecked, RotationChecked, ObjectKnown
    <2>10. req' = [req EXCEPT ![r] = q]
      BY <1>2, <2>1, <2>2, <2>3
    <2>11. served' \in 0..MaxRequests
      BY <2>1 DEF Tables
    <2> QED BY <2>5, <2>9, <2>10, <2>11, ReadOnly
  <1> QED BY <1>1, <1>2

LEMMA DrawIInv ==
  ASSUME IInv, NEW r \in Requests, DrawPrefix(r)
  PROVE  IInv' /\ Grow
  <1>1. req \in [Requests -> Reqs] /\ Known(req[r]) /\ Tables
    BY DEF IInv
  <1>2. PICK p \in Reqs : p = req[r]
    BY <1>1
  <1>3. p.pc = "mint" /\ UNCHANGED <<now, key, app, tenant, granted, served>> /\ served' \in 0..MaxRequests
    BY <1>1, <1>2 DEF DrawPrefix, At, Tables
  <1>4. now \in 0..MaxTime /\ MaxTime \in Nat /\ Overlap \in Nat /\ Never = MaxTime + Overlap + 1
    BY <1>1, Constants DEF Tables
  <1>5. CASE Reply(r)
    BY <1>3, <1>5, EndsReadOnly
  <1>6. CASE req' = [req EXCEPT ![r].tries = 1]
    <2>1. PICK q : q = [p EXCEPT !.tries = 1]
      OBVIOUS
    <2>2. q \in Reqs
      BY <1>2, <2>1 DEF Reqs
    <2>3. /\ q.pc = p.pc /\ q.op = p.op /\ q.caller = p.caller /\ q.obj = p.obj /\ q.scopes = p.scopes
          /\ q.revokedBefore = p.revokedBefore
      BY <1>2, <2>1 DEF Reqs
    <2>4. Known(q)
      BY <1>1, <1>2, <1>3, <2>3 DEF Known, CallerKnown, GrantChecked, RotationChecked, ObjectKnown
    <2>5. req' = [req EXCEPT ![r] = q]
      BY <1>1, <1>2, <1>6, <2>1
    <2> QED BY <1>3, <2>2, <2>4, <2>5, ReadOnly
  <1>7. ASSUME NEW pre \in KeyPrefixes,
               req' = [req EXCEPT ![r].pc = "insert", ![r].prefix = pre,
                                  ![r].expires = IF req[r].op = "rotate" THEN now + Overlap ELSE @]
        PROVE  IInv' /\ Grow
    <2>1. PICK e : e = IF p.op = "rotate" THEN now + Overlap ELSE p.expires
      OBVIOUS
    <2>2. e \in 0..Never /\ (p.op = "rotate" => e <= now + Overlap)
      <3>1. p.expires \in 0..Never
        BY <1>2 DEF Reqs
      <3>2. now + Overlap \in 0..Never /\ now + Overlap <= now + Overlap
        BY <1>4
      <3> QED BY <2>1, <3>1, <3>2
    <2>3. PICK q : q = [p EXCEPT !.pc = "insert", !.prefix = pre, !.expires = e]
      OBVIOUS
    <2>4. q \in Reqs
      BY <1>2, <1>7, <2>2, <2>3 DEF Reqs
    <2>5. /\ q.pc = "insert" /\ q.prefix = pre /\ q.expires = e
          /\ q.op = p.op /\ q.caller = p.caller /\ q.obj = p.obj /\ q.scopes = p.scopes
          /\ q.revokedBefore = p.revokedBefore
      BY <1>2, <2>3 DEF Reqs
    <2>6. Known(q)
      BY <1>1, <1>2, <1>3, <1>7, <2>2, <2>5 DEF Known, CallerKnown, GrantChecked, RotationChecked, ObjectKnown
    <2>7. req' = [req EXCEPT ![r] = q]
      BY <1>1, <1>2, <1>7, <2>1, <2>3
    <2> QED BY <1>3, <2>4, <2>6, <2>7, ReadOnly
  <1> QED BY <1>5, <1>6, <1>7 DEF DrawPrefix

LEMMA RevokeIInv ==
  ASSUME IInv, NEW r \in Requests, revoke_api_key(r)
  PROVE  IInv' /\ Grow
  <1> USE DEF revoke_api_key, At
  <1>1. CASE Reply(r)
    BY <1>1, EndsReadOnly
  <1>2. ASSUME NEW k \in DOMAIN key, req' = [req EXCEPT ![r].pc = "revoke", ![r].obj = k]
        PROVE  IInv' /\ Grow
    <2>1. req \in [Requests -> Reqs] /\ Known(req[r]) /\ Tables
      BY DEF IInv
    <2>2. PICK p \in Reqs : p = req[r]
      BY <2>1
    <2>3. PICK q : q = [p EXCEPT !.pc = "revoke", !.obj = k]
      OBVIOUS
    <2>4. k \in 1..Len(key) /\ k \in Nat
      BY <1>2, <2>1, Lengths
    <2>5. q \in Reqs
      BY <2>2, <2>3, <2>4 DEF Reqs
    <2>6. /\ q.pc = "revoke" /\ q.obj = k
          /\ q.caller = p.caller /\ q.revokedBefore = p.revokedBefore
      BY <2>2, <2>3 DEF Reqs
    <2>7. Known(q)
      BY <2>1, <2>2, <2>4, <2>6 DEF Known, CallerKnown, GrantChecked, RotationChecked, ObjectKnown
    <2>8. req' = [req EXCEPT ![r] = q]
      BY <1>2, <2>1, <2>2, <2>3
    <2>9. served' \in 0..MaxRequests
      BY <2>1 DEF Tables
    <2> QED BY <2>5, <2>7, <2>8, <2>9, ReadOnly
  <1> QED BY <1>1, <1>2

LEMMA NewTenantIInv ==
  ASSUME IInv, NEW r \in Requests, create_tenant(r)
  PROVE  IInv' /\ Grow
  <1> USE DEF create_tenant, At
  <1>1. CASE Reply(r)
    BY <1>1, EndsReadOnly
  <1>2. ASSUME NEW n \in Names, req' = [req EXCEPT ![r].pc = "tenant", ![r].name = n]
        PROVE  IInv' /\ Grow
    <2>1. req \in [Requests -> Reqs] /\ Known(req[r]) /\ Tables
      BY DEF IInv
    <2>2. PICK p \in Reqs : p = req[r]
      BY <2>1
    <2>3. PICK q : q = [p EXCEPT !.pc = "tenant", !.name = n]
      OBVIOUS
    <2>4. q \in Reqs
      BY <1>2, <2>2, <2>3 DEF Reqs
    <2>5. /\ q.pc = "tenant" /\ q.name = n
          /\ q.caller = p.caller /\ q.revokedBefore = p.revokedBefore
      BY <2>2, <2>3 DEF Reqs
    <2>6. Known(q)
      BY <1>2, <2>1, <2>2, <2>5 DEF Known, CallerKnown, GrantChecked, RotationChecked, ObjectKnown
    <2>7. req' = [req EXCEPT ![r] = q]
      BY <1>2, <2>1, <2>2, <2>3
    <2>8. served' \in 0..MaxRequests
      BY <2>1 DEF Tables
    <2> QED BY <2>4, <2>6, <2>7, <2>8, ReadOnly
  <1> QED BY <1>1, <1>2

LEMMA NewApplicationIInv ==
  ASSUME IInv, NEW r \in Requests, create_application(r)
  PROVE  IInv' /\ Grow
  <1> USE DEF create_application, At
  <1>1. CASE Reply(r)
    BY <1>1, EndsReadOnly
  <1>2. ASSUME NEW t \in DOMAIN tenant, NEW n \in Names,
               req' = [req EXCEPT ![r].pc = "app", ![r].obj = t, ![r].name = n]
        PROVE  IInv' /\ Grow
    <2>1. req \in [Requests -> Reqs] /\ Known(req[r]) /\ Tables
      BY DEF IInv
    <2>2. PICK p \in Reqs : p = req[r]
      BY <2>1
    <2>3. PICK q : q = [p EXCEPT !.pc = "app", !.obj = t, !.name = n]
      OBVIOUS
    <2>4. t \in 1..Len(tenant) /\ t \in Nat
      BY <1>2, <2>1, Lengths
    <2>5. q \in Reqs
      BY <1>2, <2>2, <2>3, <2>4 DEF Reqs
    <2>6. /\ q.pc = "app" /\ q.obj = t /\ q.name = n
          /\ q.caller = p.caller /\ q.revokedBefore = p.revokedBefore
      BY <2>2, <2>3 DEF Reqs
    <2>7. Known(q)
      BY <1>2, <2>1, <2>2, <2>4, <2>6 DEF Known, CallerKnown, GrantChecked, RotationChecked, ObjectKnown
    <2>8. req' = [req EXCEPT ![r] = q]
      BY <1>2, <2>1, <2>2, <2>3
    <2>9. served' \in 0..MaxRequests
      BY <2>1 DEF Tables
    <2> QED BY <2>5, <2>7, <2>8, <2>9, ReadOnly
  <1> QED BY <1>1, <1>2

LEMMA UpdateIInv ==
  ASSUME IInv, NEW r \in Requests, update_application(r)
  PROVE  IInv' /\ Grow
  <1> USE DEF update_application, At
  <1>1. CASE Reply(r)
    BY <1>1, EndsReadOnly
  <1>2. ASSUME NEW a \in DOMAIN app, NEW n \in Names \cup {"none"}, NEW B \in {{}, {TRUE}, {FALSE}},
               req' = [req EXCEPT ![r].pc = "patch", ![r].obj = a,
                                  ![r].name = IF n = app[a].name THEN "none" ELSE n,
                                  ![r].active = B \ {app[a].active}]
        PROVE  IInv' /\ Grow
    <2>1. req \in [Requests -> Reqs] /\ Known(req[r]) /\ Tables
      BY DEF IInv
    <2>2. PICK p \in Reqs : p = req[r]
      BY <2>1
    <2>3. PICK m : m = IF n = app[a].name THEN "none" ELSE n
      OBVIOUS
    <2>4. PICK A : A = B \ {app[a].active}
      OBVIOUS
    <2>5. PICK q : q = [p EXCEPT !.pc = "patch", !.obj = a, !.name = m, !.active = A]
      OBVIOUS
    <2>6. a \in 1..Len(app) /\ a \in Nat
      BY <1>2, <2>1, Lengths
    <2>7. m \in Names \cup {"none"}
      BY <1>2, <2>3
    <2>8. A \in SUBSET BOOLEAN
      BY <1>2, <2>4, Zenon
    <2>9. q \in Reqs
      BY <2>2, <2>5, <2>6, <2>7, <2>8 DEF Reqs
    <2>10. /\ q.pc = "patch" /\ q.obj = a
           /\ q.caller = p.caller /\ q.revokedBefore = p.revokedBefore
      BY <2>2, <2>5 DEF Reqs
    <2>11. Known(q)
      BY <2>1, <2>2, <2>6, <2>10 DEF Known, CallerKnown, GrantChecked, RotationChecked, ObjectKnown
    <2>12. req' = [req EXCEPT ![r] = q]
      BY <1>2, <2>1, <2>2, <2>3, <2>4, <2>5
    <2>13. served' \in 0..MaxRequests
      BY <2>1 DEF Tables
    <2> QED BY <2>9, <2>11, <2>12, <2>13, ReadOnly
  <1> QED BY <1>1, <1>2

-----------------------------------------------------------------------------
(* The clock and the commits.                                              *)

LEMMA RequestEnds ==
  ASSUME IInv, Tables', Grow, NEW r \in Requests, Reply(r)
  PROVE  req' \in [Requests -> Reqs] /\ \A i \in Requests : Known(req[i])'
  BY OneMoves, KnownIdle, IdleTyped DEF Reply

LEMMA TickIInv ==
  ASSUME IInv, Tick
  PROVE  IInv' /\ Grow
  <1> USE DEF Tick
  <1>1. Tables /\ Tables' /\ Grow
    <2>1. Tables /\ now' \in 0..MaxTime
      BY Constants DEF IInv, Tables
    <2> QED BY <2>1, SameTables DEF Tables
  <1>2. \A k \in 1..Len(key) : key[k] \in Rows /\ key[k].expires \in Nat /\ key[k].from \in Nat
    BY <1>1, Lengths, Constants DEF Rows
  <1>3. Expiry'
    <2>1. ASSUME NEW x \in 1..Len(key), key[x].from # 0
          PROVE  key[key[x].from].expires <= now' + Overlap
      <3>1. key[x].from \in 1..Len(key)
        BY <1>1, <2>1, Lengths DEF IInv, KeyRow
      <3>2. key[key[x].from].expires <= now + Overlap
        BY <2>1 DEF IInv, Expiry
      <3>3. now \in Nat /\ Overlap \in Nat
        BY <1>1, Lengths, Constants
      <3> QED BY <1>2, <3>1, <3>2, <3>3
    <2> QED BY <2>1 DEF IInv, Expiry
  <1>4. /\ \A k \in 1..Len(key') : KeyRow(k)'
        /\ PrefixesUnique' /\ NamesUnique'
    BY DEF IInv, KeyRow, PrefixesUnique, NamesUnique
  <1>5. req' \in [Requests -> Reqs] /\ \A i \in Requests : Known(req[i])'
    <2>1. ASSUME NEW i \in Requests PROVE Known(req[i])'
      <3>1. PICK p \in Reqs : p = req[i] /\ Known(p)
        BY DEF IInv
      <3>2. Known(p)' /\ req'[i] = p
        BY <1>1, <3>1, KnownKept
      <3> QED BY <3>2 DEF Known, CallerKnown, GrantChecked, RotationChecked, ObjectKnown
    <2> QED BY <2>1 DEF IInv
  <1> QED BY <1>1, <1>3, <1>4, <1>5 DEF IInv

\* A row is added, after a rotation has changed the expiry of another one.
LEMMA RowAdded ==
  ASSUME IInv, UNCHANGED <<now, app, tenant, served>>,
         NEW base \in Seq(Rows), Len(base) = Len(key),
         \A i \in 1..Len(key) :
           /\ base[i].app = key[i].app /\ base[i].prefix = key[i].prefix /\ base[i].scopes = key[i].scopes
           /\ base[i].active = key[i].active /\ base[i].revoked = key[i].revoked /\ base[i].from = key[i].from,
         NEW row \in Rows, row.app \in 1..Len(app), row.active = TRUE, row.revoked = FALSE,
         row.from \in 0..Len(key), row.prefix \notin Taken,
         key' = Append(base, row),
         granted' \in Seq(SUBSET ALL_SCOPES), Len(granted') = Len(granted),
         \A a \in 1..Len(app) : granted[a] \subseteq granted'[a],
         row.scopes \subseteq granted'[row.app]
  PROVE  /\ Tables' /\ Grow
         /\ \A k \in 1..Len(key') : KeyRow(k)'
         /\ PrefixesUnique' /\ NamesUnique'
         /\ Len(key') = Len(key) + 1 /\ key'[Len(key) + 1] = row
         /\ \A k \in 1..Len(key) : key'[k] = base[k]
  <1>1. /\ key' \in Seq(Rows) /\ Len(key') = Len(key) + 1 /\ key'[Len(key) + 1] = row
        /\ \A k \in 1..Len(key) : key'[k] = base[k]
    BY AppendProperties
  <1>2. /\ Len(key) \in Nat /\ DOMAIN key = 1..Len(key) /\ Len(app) \in Nat /\ Len(tenant) \in Nat /\ now \in Nat
    BY Lengths DEF IInv
  <1>3. \A k \in 1..Len(key') : k \in 1..Len(key) \/ k = Len(key) + 1
    BY <1>1, <1>2
  <1>4. Tables'
    BY <1>1 DEF IInv, Tables
  <1>5. Grow
    BY <1>1, <1>2 DEF Grow
  <1>6. ASSUME NEW k \in 1..Len(key') PROVE KeyRow(k)'
    <2>1. CASE k \in 1..Len(key)
      <3>1. KeyRow(k) /\ key'[k] = base[k]
        BY <1>1, <2>1 DEF IInv
      <3> QED BY <2>1, <3>1 DEF KeyRow
    <2>2. CASE k = Len(key) + 1
      <3>1. key'[k] = row /\ k - 1 = Len(key)
        BY <1>1, <1>2, <2>2
      <3> QED BY <3>1 DEF KeyRow
    <2> QED BY <1>3, <2>1, <2>2
  <1>7. PrefixesUnique'
    <2>1. \A k \in 1..Len(key) : key[k].prefix # row.prefix
      BY <1>2 DEF Taken
    <2>2. ASSUME NEW k \in 1..Len(key'), NEW x \in 1..Len(key'), key'[k].prefix = key'[x].prefix
          PROVE  k = x
      BY <1>1, <1>3, <2>1, <2>2 DEF IInv, PrefixesUnique
    <2> QED BY <2>2 DEF PrefixesUnique
  <1>8. NamesUnique'
    BY DEF IInv, NamesUnique
  <1> QED BY <1>1, <1>4, <1>5, <1>6, <1>7, <1>8

LEMMA InsertKeyIInv ==
  ASSUME IInv, NEW r \in Requests, InsertKey(r)
  PROVE  IInv' /\ Grow
  <1>1. CASE Clashes(r)
    BY <1>1, EndsReadOnly DEF InsertKey
  <1>2. CASE ~Clashes(r)
    <2>1. req \in [Requests -> Reqs] /\ Known(req[r]) /\ Tables
      BY DEF IInv
    <2>2. PICK p \in Reqs : p = req[r]
      BY <2>1
    <2>3. PICK row : row = RowOf(p.obj, p.prefix, p.scopes, p.expires, 0)
      OBVIOUS
    <2>4. /\ p.pc = "insert" /\ p.op = "create" /\ UNCHANGED <<now, app, tenant, served>> /\ Reply(r)
          /\ key' = Append(key, row) /\ p.prefix \notin Taken
          /\ granted' = IF IsAdmin(p.caller) THEN [granted EXCEPT ![p.obj] = @ \cup p.scopes] ELSE granted
      BY <1>2, <2>2, <2>3 DEF InsertKey, At, Clashes
    <2>5. /\ p.obj \in 1..Len(app) /\ p.scopes \subseteq key[p.caller].scopes /\ p.prefix \in KeyPrefixes
          /\ IsAdmin(p.caller) \/ key[p.caller].app = p.obj
          /\ p.caller \in 1..Len(key)
      BY <2>1, <2>2, <2>4 DEF Known, CallerKnown, GrantChecked, ObjectKnown, IsAdmin
    <2>6. Len(key) \in Nat /\ Len(app) \in Nat /\ p.obj \in Nat /\ \A k \in 1..Len(key) : key[k] \in Rows
      BY <2>1, <2>5, Lengths
    <2>7. row \in Rows
      BY <2>2, <2>3, <2>5, <2>6 DEF Reqs, RowOf, Rows
    <2>8. /\ row.app = p.obj /\ row.prefix = p.prefix /\ row.scopes = p.scopes /\ row.active = TRUE
          /\ row.revoked = FALSE /\ row.from = 0 /\ row.expires = row.asked
      BY <2>3 DEF RowOf
    <2>9. /\ granted' \in Seq(SUBSET ALL_SCOPES) /\ Len(granted') = Len(granted)
          /\ \A a \in 1..Len(app) : granted[a] \subseteq granted'[a]
          /\ p.scopes \subseteq granted'[p.obj]
      <3>1. /\ granted \in Seq(SUBSET ALL_SCOPES) /\ Len(granted) = Len(app)
            /\ granted[p.obj] \in SUBSET ALL_SCOPES /\ p.scopes \in SUBSET ALL_SCOPES
        BY <2>1, <2>2, <2>5, ElementOfSeq DEF Tables, Reqs
      <3>2. CASE IsAdmin(p.caller)
        <4>1. PICK G \in SUBSET ALL_SCOPES : G = granted[p.obj] \cup p.scopes
          BY <3>1
        <4>2. granted' = [granted EXCEPT ![p.obj] = G]
          BY <2>4, <3>2, <4>1
        <4>3. /\ granted' \in Seq(SUBSET ALL_SCOPES) /\ Len(granted') = Len(granted)
              /\ \A a \in 1..Len(granted) : granted'[a] = IF a = p.obj THEN G ELSE granted[a]
          BY <2>5, <3>1, <4>2, ExceptSeq
        <4> QED BY <2>5, <3>1, <4>1, <4>3
      <3>3. CASE ~IsAdmin(p.caller)
        <4>1. key[p.caller].scopes \subseteq granted[p.obj]
          BY <2>5, <3>3 DEF IInv, KeyRow
        <4> QED BY <2>4, <2>5, <3>1, <3>3, <4>1
      <3> QED BY <3>2, <3>3
    <2>10. row.from \in 0..Len(key)
      BY <2>6, <2>8
    <2>11. PICK base \in Seq(Rows) : base = key
      BY <2>1 DEF Tables
    <2>12. /\ Tables' /\ Grow
           /\ \A k \in 1..Len(key') : KeyRow(k)'
           /\ PrefixesUnique' /\ NamesUnique'
           /\ Len(key') = Len(key) + 1 /\ key'[Len(key) + 1] = row
           /\ \A k \in 1..Len(key) : key'[k] = base[k]
      BY <2>4, <2>5, <2>7, <2>8, <2>9, <2>10, <2>11, RowAdded
    <2>13. Expiry'
      <3>1. \A k \in 1..Len(key') : k \in 1..Len(key) \/ k = Len(key) + 1
        BY <2>6, <2>12
      <3>2. \A k \in 1..Len(key) : k \in 1..Len(key') /\ key'[k] = key[k]
        BY <2>6, <2>11, <2>12
      <3>3. \A k \in 1..Len(key) : key[k].from # 0 => key[k].from \in 1..Len(key)
        BY <2>6 DEF IInv, KeyRow
      <3> QED BY <2>4, <2>8, <2>12, <3>1, <3>2, <3>3 DEF IInv, Expiry
    <2> QED BY <2>4, <2>12, <2>13, RequestEnds DEF IInv
  <1> QED BY <1>1, <1>2

LEMMA InsertSuccessorIInv ==
  ASSUME IInv, NEW r \in Requests, InsertSuccessor(r)
  PROVE  IInv' /\ Grow
  <1>1. CASE Clashes(r)
    BY <1>1, EndsReadOnly DEF InsertSuccessor
  <1>2. CASE ~Clashes(r)
    <2>1. req \in [Requests -> Reqs] /\ Known(req[r]) /\ Tables
      BY DEF IInv
    <2>2. PICK p \in Reqs : p = req[r]
      BY <2>1
    <2>3. PICK k : k = p.obj
      OBVIOUS
    <2>4. PICK row : row = RowOf(key[k].app, p.prefix, key[k].scopes, Never, k)
      OBVIOUS
    <2>5. PICK base : base = [key EXCEPT ![k].expires = p.expires]
      OBVIOUS
    <2>6. /\ p.pc = "insert" /\ p.op = "rotate" /\ UNCHANGED <<now, app, tenant, served, granted>> /\ Reply(r)
          /\ key' = Append(base, row) /\ p.prefix \notin Taken
      BY <1>2, <2>2, <2>3, <2>4, <2>5 DEF InsertSuccessor, At, Clashes
    <2>7. k \in 1..Len(key) /\ p.expires <= now + Overlap /\ p.prefix \in KeyPrefixes /\ p.expires \in 0..Never
      <3>1. RotationChecked(p) /\ ObjectKnown(p)
        BY <2>1, <2>2 DEF Known
      <3>2. p.expires \in 0..Never
        BY <2>2 DEF Reqs
      <3> QED BY <2>3, <2>6, <3>1, <3>2 DEF RotationChecked, ObjectKnown
    <2>8. /\ Len(key) \in Nat /\ Len(app) \in Nat /\ k \in Nat /\ key \in Seq(Rows) /\ KeyRow(k)
          /\ \A i \in 1..Len(key) : key[i] \in Rows
      BY <2>1, <2>7, Lengths DEF Tables, IInv
    <2>9. row \in Rows
      <3>1. key[k].app \in Nat /\ key[k].scopes \in SUBSET ALL_SCOPES
        BY <2>7, <2>8 DEF Rows
      <3>2. Never \in 0..Never /\ p.prefix \in KeyPrefixes /\ k \in Nat
        BY <2>7, <2>8, Constants
      <3> QED BY <2>4, <3>1, <3>2 DEF RowOf, Rows
    <2>10. /\ row.app = key[k].app /\ row.prefix = p.prefix /\ row.scopes = key[k].scopes /\ row.active = TRUE
           /\ row.revoked = FALSE /\ row.from = k /\ row.expires = row.asked
      BY <2>4 DEF RowOf
    <2>11. PICK old : old = [key[k] EXCEPT !.expires = p.expires]
      OBVIOUS
    <2>12. /\ old \in Rows /\ old.expires = p.expires /\ old.app = key[k].app /\ old.prefix = key[k].prefix
           /\ old.scopes = key[k].scopes /\ old.active = key[k].active /\ old.revoked = key[k].revoked
           /\ old.from = key[k].from /\ old.asked = key[k].asked
      BY <2>7, <2>8, <2>11 DEF Rows
    <2>13. /\ base \in Seq(Rows) /\ Len(base) = Len(key)
           /\ \A i \in 1..Len(key) : base[i] = IF i = k THEN old ELSE key[i]
      <3>1. base = [key EXCEPT ![k] = old]
        BY <2>5, <2>11
      <3> QED BY <2>7, <2>8, <2>12, <3>1, ExceptSeq
    <2>14. \A i \in 1..Len(key) :
             /\ base[i].app = key[i].app /\ base[i].prefix = key[i].prefix /\ base[i].scopes = key[i].scopes
             /\ base[i].active = key[i].active /\ base[i].revoked = key[i].revoked
             /\ base[i].from = key[i].from /\ base[i].asked = key[i].asked
             /\ base[i].expires = IF i = k THEN p.expires ELSE key[i].expires
      BY <2>12, <2>13
    <2>15. row.app \in 1..Len(app) /\ row.scopes \subseteq granted[row.app] /\ row.from \in 0..Len(key)
      BY <2>7, <2>8, <2>10 DEF KeyRow
    <2>16. /\ granted' \in Seq(SUBSET ALL_SCOPES) /\ Len(granted') = Len(granted)
           /\ \A a \in 1..Len(app) : granted[a] \subseteq granted'[a]
           /\ row.scopes \subseteq granted'[row.app]
      BY <2>1, <2>6, <2>15 DEF Tables
    <2>17. /\ Tables' /\ Grow
           /\ \A i \in 1..Len(key') : KeyRow(i)'
           /\ PrefixesUnique' /\ NamesUnique'
           /\ Len(key') = Len(key) + 1 /\ key'[Len(key) + 1] = row
           /\ \A i \in 1..Len(key) : key'[i] = base[i]
      <3>1. \A i \in 1..Len(key) :
              /\ base[i].app = key[i].app /\ base[i].prefix = key[i].prefix /\ base[i].scopes = key[i].scopes
              /\ base[i].active = key[i].active /\ base[i].revoked = key[i].revoked /\ base[i].from = key[i].from
        BY <2>14
      <3>2. row.prefix \notin Taken
        BY <2>6, <2>10
      <3>3. base \in Seq(Rows) /\ Len(base) = Len(key)
        BY <2>13
      <3> QED BY <2>6, <2>9, <2>10, <2>15, <2>16, <3>1, <3>2, <3>3, RowAdded
    <2>18. Expiry'
      <3>1. \A i \in 1..Len(key') : i \in 1..Len(key) \/ i = Len(key) + 1
        BY <2>8, <2>17
      <3>2. \A i \in 1..Len(key) : i \in 1..Len(key')
        BY <2>8, <2>17
      <3>3. \A i \in 1..Len(key) : key[i].from # 0 => key[i].from \in 1..Len(key)
        BY <2>8 DEF IInv, KeyRow
      <3>4. ASSUME NEW x \in 1..Len(key'), key'[x].from # 0
            PROVE  key'[key'[x].from].expires <= now + Overlap
        <4>1. CASE x \in 1..Len(key)
          <5>1. key'[x].from = key[x].from /\ key[x].from \in 1..Len(key)
            BY <2>14, <2>17, <3>3, <3>4, <4>1
          <5>2. key[key[x].from].expires <= now + Overlap
            BY <3>4, <4>1, <5>1 DEF IInv, Expiry
          <5> QED BY <2>7, <2>14, <2>17, <5>1, <5>2
        <4>2. CASE x = Len(key) + 1
          BY <2>7, <2>10, <2>14, <2>17, <4>2
        <4> QED BY <3>1, <4>1, <4>2
      <3>5. ASSUME NEW i \in 1..Len(key')
            PROVE  key'[i].expires = key'[i].asked \/ \E x \in 1..Len(key') : key'[x].from = i
        <4>1. CASE i = k
          <5>1. Len(key) + 1 \in 1..Len(key') /\ key'[Len(key) + 1].from = i
            BY <2>8, <2>10, <2>17, <4>1
          <5> QED BY <5>1
        <4>2. CASE i \in 1..Len(key) /\ i # k
          <5>1. key'[i].expires = key[i].expires /\ key'[i].asked = key[i].asked
            BY <2>14, <2>17, <4>2
          <5>2. key[i].expires = key[i].asked \/ \E x \in 1..Len(key) : key[x].from = i
            BY <4>2 DEF IInv, Expiry
          <5>3. \A x \in 1..Len(key) : key'[x].from = key[x].from
            BY <2>14, <2>17
          <5> QED BY <3>2, <5>1, <5>2, <5>3
        <4>3. CASE i = Len(key) + 1
          BY <2>10, <2>17, <4>3
        <4> QED BY <3>1, <4>1, <4>2, <4>3
      <3> QED BY <2>6, <3>4, <3>5 DEF Expiry
    <2> QED BY <2>6, <2>17, <2>18, RequestEnds DEF IInv
  <1> QED BY <1>1, <1>2

LEMMA CommitRevokeIInv ==
  ASSUME IInv, NEW r \in Requests, CommitRevoke(r)
  PROVE  IInv' /\ Grow
  <1>1. req \in [Requests -> Reqs] /\ Known(req[r]) /\ Tables
    BY DEF IInv
  <1>2. PICK k : k = req[r].obj
    OBVIOUS
  <1>3. PICK row : row = [key[k] EXCEPT !.revoked = TRUE, !.active = FALSE]
    OBVIOUS
  <1>4. /\ key' = [key EXCEPT ![k].revoked = TRUE, ![k].active = FALSE]
        /\ Reply(r) /\ UNCHANGED <<now, app, tenant, served, granted>> /\ req[r].pc = "revoke"
    BY <1>2 DEF CommitRevoke, At
  <1>5. /\ k \in 1..Len(key) /\ Len(key) \in Nat /\ key \in Seq(Rows) /\ key[k] \in Rows
        /\ Len(app) \in Nat /\ Len(tenant) \in Nat /\ now \in Nat
    BY <1>1, <1>2, <1>4, Lengths DEF Known, ObjectKnown, Tables
  <1>6. /\ row \in Rows /\ row.revoked = TRUE /\ row.active = FALSE /\ row.app = key[k].app
        /\ row.prefix = key[k].prefix /\ row.scopes = key[k].scopes /\ row.expires = key[k].expires
        /\ row.asked = key[k].asked /\ row.from = key[k].from
    BY <1>3, <1>5 DEF Rows
  <1>7. /\ key' \in Seq(Rows) /\ Len(key') = Len(key)
        /\ \A i \in 1..Len(key) : key'[i] = IF i = k THEN row ELSE key[i]
    <2>1. key' = [key EXCEPT ![k] = row]
      BY <1>1, <1>3, <1>4, <1>5, LenProperties DEF Tables
    <2> QED BY <1>5, <1>6, <2>1, ExceptSeq
  <1>8. \A i \in 1..Len(key) :
          /\ key'[i].app = key[i].app /\ key'[i].prefix = key[i].prefix /\ key'[i].scopes = key[i].scopes
          /\ key'[i].expires = key[i].expires /\ key'[i].asked = key[i].asked /\ key'[i].from = key[i].from
          /\ key[i].revoked => key'[i].revoked
    BY <1>6, <1>7
  <1>9. Tables' /\ Grow
    BY <1>1, <1>4, <1>5, <1>7, <1>8 DEF Tables, Grow
  <1>10. ASSUME NEW i \in 1..Len(key) PROVE KeyRow(i)'
    BY <1>4, <1>6, <1>7, <1>8 DEF IInv, KeyRow
  <1>11. PrefixesUnique' /\ NamesUnique'
    BY <1>4, <1>7, <1>8 DEF IInv, PrefixesUnique, NamesUnique
  <1>12. Expiry'
    <2>1. \A i \in 1..Len(key) : key[i].from # 0 => key[i].from \in 1..Len(key)
      BY <1>5 DEF IInv, KeyRow
    <2> QED BY <1>4, <1>7, <1>8, <2>1 DEF IInv, Expiry
  <1> QED BY <1>4, <1>7, <1>9, <1>10, <1>11, <1>12, RequestEnds DEF IInv

\* A commit that leaves the keys and what was granted before alone.
LEMMA KeysKept ==
  ASSUME IInv, UNCHANGED <<now, key>>, Tables', Len(app) <= Len(app'),
         \A a \in 1..Len(app) : granted'[a] = granted[a]
  PROVE  (\A k \in 1..Len(key') : KeyRow(k)') /\ Expiry' /\ PrefixesUnique'
  <1>1. Len(app) \in Nat /\ Len(app') \in Nat
    BY LenProperties DEF IInv, Tables
  <1>2. 1..Len(app) \subseteq 1..Len(app')
    BY <1>1
  <1>3. \A k \in 1..Len(key') : KeyRow(k)'
    BY <1>2 DEF IInv, KeyRow
  <1> QED BY <1>3 DEF IInv, Expiry, PrefixesUnique

LEMMA CommitTenantIInv ==
  ASSUME IInv, NEW r \in Requests, CommitTenant(r)
  PROVE  IInv' /\ Grow
  <1>1. CASE req[r].name \in ToSet(tenant)
    BY <1>1, EndsReadOnly DEF CommitTenant
  <1>2. CASE req[r].name \notin ToSet(tenant)
    <2>1. req \in [Requests -> Reqs] /\ Known(req[r]) /\ Tables
      BY DEF IInv
    <2>2. PICK n : n = req[r].name
      OBVIOUS
    <2>3. /\ n \in Names /\ tenant' = Append(tenant, n) /\ n \notin ToSet(tenant)
          /\ UNCHANGED <<now, key, app, served, granted>> /\ Reply(r)
      BY <1>2, <2>1, <2>2 DEF CommitTenant, At, Known, ObjectKnown
    <2>4. /\ tenant \in Seq(Names) /\ Len(tenant) \in Nat /\ DOMAIN tenant = 1..Len(tenant)
          /\ Len(key) \in Nat /\ Len(app) \in Nat /\ now \in Nat
      BY <2>1, Lengths DEF Tables
    <2>5. /\ tenant' \in Seq(Names) /\ Len(tenant') = Len(tenant) + 1
          /\ tenant'[Len(tenant) + 1] = n /\ \A t \in 1..Len(tenant) : tenant'[t] = tenant[t]
      BY <2>3, <2>4, AppendProperties
    <2>6. Tables' /\ Grow
      BY <2>1, <2>3, <2>4, <2>5 DEF Tables, Grow
    <2>7. NamesUnique'
      <3>1. \A t \in 1..Len(tenant) : tenant[t] # n
        BY <2>3, <2>4 DEF ToSet
      <3>2. \A t \in 1..Len(tenant') : t \in 1..Len(tenant) \/ t = Len(tenant) + 1
        BY <2>4, <2>5
      <3>3. ASSUME NEW i \in 1..Len(tenant'), NEW j \in 1..Len(tenant'), tenant'[i] = tenant'[j]
            PROVE  i = j
        BY <2>5, <3>1, <3>2, <3>3 DEF IInv, NamesUnique
      <3>4. \A a \in 1..Len(app) : app[a].tenant \in 1..Len(tenant')
        BY <2>4, <2>5 DEF IInv, NamesUnique
      <3> QED BY <2>3, <3>3, <3>4 DEF IInv, NamesUnique
    <2>8. (\A k \in 1..Len(key') : KeyRow(k)') /\ Expiry' /\ PrefixesUnique'
      BY <2>3, <2>4, <2>6, KeysKept
    <2> QED BY <2>3, <2>6, <2>7, <2>8, RequestEnds DEF IInv
  <1> QED BY <1>1, <1>2

LEMMA CommitApplicationIInv ==
  ASSUME IInv, NEW r \in Requests, CommitApplication(r)
  PROVE  IInv' /\ Grow
  <1>1. CASE Named(req[r].obj, req[r].name) # {}
    BY <1>1, EndsReadOnly DEF CommitApplication
  <1>2. CASE Named(req[r].obj, req[r].name) = {}
    <2>1. req \in [Requests -> Reqs] /\ Known(req[r]) /\ Tables
      BY DEF IInv
    <2>2. PICK t, n : t = req[r].obj /\ n = req[r].name
      OBVIOUS
    <2>3. PICK row : row = [tenant |-> t, name |-> n, active |-> TRUE]
      OBVIOUS
    <2>4. /\ t \in 1..Len(tenant) /\ n \in Names /\ app' = Append(app, row) /\ granted' = Append(granted, {})
          /\ Named(t, n) = {}
          /\ UNCHANGED <<now, key, tenant, served>> /\ Reply(r)
      BY <1>2, <2>1, <2>2, <2>3 DEF CommitApplication, At, Known, ObjectKnown
    <2>5. /\ app \in Seq(Apps) /\ Len(app) \in Nat /\ DOMAIN app = 1..Len(app)
          /\ granted \in Seq(SUBSET ALL_SCOPES) /\ Len(granted) = Len(app)
          /\ Len(key) \in Nat /\ Len(tenant) \in Nat /\ now \in Nat /\ t \in Nat
      BY <2>1, <2>4, Lengths DEF Tables
    <2>6. row \in Apps /\ row.tenant = t /\ row.name = n /\ {} \in SUBSET ALL_SCOPES
      BY <2>3, <2>4, <2>5 DEF Apps
    <2>7. /\ app' \in Seq(Apps) /\ Len(app') = Len(app) + 1
          /\ app'[Len(app) + 1] = row /\ \A a \in 1..Len(app) : app'[a] = app[a]
      BY <2>4, <2>5, <2>6, AppendProperties
    <2>8. /\ granted' \in Seq(SUBSET ALL_SCOPES) /\ Len(granted') = Len(granted) + 1
          /\ \A a \in 1..Len(granted) : granted'[a] = granted[a]
      BY <2>4, <2>5, <2>6, AppendProperties
    <2>9. Tables' /\ Grow
      BY <2>1, <2>4, <2>5, <2>7, <2>8 DEF Tables, Grow
    <2>10. NamesUnique'
      <3>1. \A a \in 1..Len(app) : app[a].tenant # t \/ app[a].name # n
        BY <2>4, <2>5 DEF Named
      <3>2. \A a \in 1..Len(app') : a \in 1..Len(app) \/ a = Len(app) + 1
        BY <2>5, <2>7
      <3>3. ASSUME NEW a \in 1..Len(app'), NEW b \in 1..Len(app'),
                   app'[a].tenant = app'[b].tenant, app'[a].name = app'[b].name
            PROVE  a = b
        BY <2>6, <2>7, <3>1, <3>2, <3>3 DEF IInv, NamesUnique
      <3>4. \A a \in 1..Len(app') : app'[a].tenant \in 1..Len(tenant)
        BY <2>4, <2>6, <2>7, <3>2 DEF IInv, NamesUnique
      <3> QED BY <2>4, <3>3, <3>4 DEF IInv, NamesUnique
    <2>11. (\A k \in 1..Len(key') : KeyRow(k)') /\ Expiry' /\ PrefixesUnique'
      <3>1. Len(app) <= Len(app') /\ \A a \in 1..Len(app) : granted'[a] = granted[a]
        BY <2>5, <2>7, <2>8
      <3> QED BY <2>4, <2>9, <3>1, KeysKept
    <2> QED BY <2>4, <2>9, <2>10, <2>11, RequestEnds DEF IInv
  <1> QED BY <1>1, <1>2

LEMMA CommitPatchIInv ==
  ASSUME IInv, NEW r \in Requests, CommitPatch(r)
  PROVE  IInv' /\ Grow
  <1>1. PICK a, n, B : a = req[r].obj /\ n = req[r].name /\ B = req[r].active
    OBVIOUS
  <1>2. CASE Named(app[a].tenant, n) \ {a} # {}
    BY <1>1, <1>2, EndsReadOnly DEF CommitPatch
  <1>3. CASE Named(app[a].tenant, n) \ {a} = {}
    <2>1. req \in [Requests -> Reqs] /\ Known(req[r]) /\ Tables
      BY DEF IInv
    <2>2. PICK row : row = Patched(app[a], n, B)
      OBVIOUS
    <2>3. /\ a \in 1..Len(app) /\ n \in Names \cup {"none"} /\ B \in SUBSET BOOLEAN
          /\ UNCHANGED <<now, key, tenant, served, granted>> /\ Reply(r)
      BY <1>1, <2>1 DEF CommitPatch, At, Known, ObjectKnown, Reqs
    <2>4. app' = [app EXCEPT ![a] = row]
      BY <1>1, <1>3, <2>2 DEF CommitPatch
    <2>5. /\ app \in Seq(Apps) /\ Len(app) \in Nat /\ DOMAIN app = 1..Len(app) /\ app[a] \in Apps
          /\ Len(key) \in Nat /\ Len(tenant) \in Nat /\ now \in Nat
      BY <2>1, <2>3, Lengths DEF Tables
    <2>6. /\ row \in Apps /\ row.tenant = app[a].tenant
          /\ row.name = IF n = "none" THEN app[a].name ELSE n
      <3>1. PICK m, v : /\ m = IF n = "none" THEN app[a].name ELSE n
                        /\ v = IF B = {} THEN app[a].active ELSE TRUE \in B
        OBVIOUS
      <3>2. row = [app[a] EXCEPT !.name = m, !.active = v]
        BY <2>2, <3>1 DEF Patched
      <3>3. app[a].name \in Names /\ app[a].active \in BOOLEAN
        BY <2>5 DEF Apps
      <3>4. m \in Names
        BY <2>3, <3>1, <3>3
      <3>5. v \in BOOLEAN
        <4>1. CASE B = {}
          BY <3>1, <3>3, <4>1
        <4>2. CASE B # {}
          <5>1. v = (TRUE \in B)
            BY <3>1, <4>2
          <5>2. (TRUE \in B) \in BOOLEAN
            OBVIOUS
          <5> QED BY <5>1, <5>2, Zenon
        <4> QED BY <4>1, <4>2
      <3>6. row \in Apps /\ row.tenant = app[a].tenant /\ row.name = m
        BY <2>5, <3>2, <3>4, <3>5 DEF Apps
      <3> QED BY <3>1, <3>6
    <2>7. /\ app' \in Seq(Apps) /\ Len(app') = Len(app)
          /\ \A b \in 1..Len(app) : app'[b] = IF b = a THEN row ELSE app[b]
      BY <2>3, <2>4, <2>5, <2>6, ExceptSeq
    <2>8. Tables' /\ Grow
      BY <2>1, <2>3, <2>5, <2>7 DEF Tables, Grow
    <2>9. NamesUnique'
      <3>1. \A b \in 1..Len(app) : b # a => app[b].tenant # row.tenant \/ app[b].name # row.name
        <4>1. CASE n = "none"
          BY <2>3, <2>6, <4>1 DEF IInv, NamesUnique
        <4>2. CASE n # "none"
          BY <1>3, <2>5, <2>6, <4>2 DEF Named
        <4> QED BY <4>1, <4>2
      <3>2. ASSUME NEW i \in 1..Len(app), NEW j \in 1..Len(app),
                   app'[i].tenant = app'[j].tenant, app'[i].name = app'[j].name
            PROVE  i = j
        BY <2>7, <3>1, <3>2 DEF IInv, NamesUnique
      <3>3. \A b \in 1..Len(app) : app'[b].tenant \in 1..Len(tenant)
        BY <2>3, <2>6, <2>7 DEF IInv, NamesUnique
      <3> QED BY <2>3, <2>7, <3>2, <3>3 DEF IInv, NamesUnique
    <2>10. (\A k \in 1..Len(key') : KeyRow(k)') /\ Expiry' /\ PrefixesUnique'
      <3>1. Len(app) <= Len(app')
        BY <2>5, <2>7
      <3> QED BY <2>3, <2>8, <3>1, KeysKept
    <2> QED BY <2>3, <2>8, <2>9, <2>10, RequestEnds DEF IInv
  <1> QED BY <1>2, <1>3

LEMMA NextIInv == IInv /\ [Next]_vars => IInv' /\ Grow
  <1> SUFFICES ASSUME IInv, [Next]_vars PROVE IInv' /\ Grow
    OBVIOUS
  <1>1. CASE Tick
    BY <1>1, TickIInv
  <1>2. ASSUME NEW r \in Requests,
               \/ Authenticate(r) \/ Deny(r) \/ create_api_key(r) \/ rotate_api_key(r) \/ DrawPrefix(r)
               \/ revoke_api_key(r) \/ create_tenant(r) \/ create_application(r) \/ update_application(r)
        PROVE  IInv' /\ Grow
    BY <1>2, AuthenticateIInv, DenyIInv, CreateIInv, RotateIInv, DrawIInv, RevokeIInv, NewTenantIInv,
       NewApplicationIInv, UpdateIInv
  <1>3. ASSUME NEW r \in Requests,
               \/ InsertKey(r) \/ InsertSuccessor(r) \/ CommitRevoke(r)
               \/ CommitTenant(r) \/ CommitApplication(r) \/ CommitPatch(r)
        PROVE  IInv' /\ Grow
    BY <1>3, InsertKeyIInv, InsertSuccessorIInv, CommitRevokeIInv, CommitTenantIInv,
       CommitApplicationIInv, CommitPatchIInv
  <1>4. CASE UNCHANGED vars
    <2>1. IInv'
      BY <1>4 DEF vars, IInv, Tables, KeyRow, Expiry, PrefixesUnique, NamesUnique,
                  Known, CallerKnown, GrantChecked, RotationChecked, ObjectKnown
    <2>2. Grow
      BY <1>4, SameTables DEF vars, IInv
    <2> QED BY <2>1, <2>2
  <1> QED BY <1>1, <1>2, <1>3, <1>4 DEF Next

-----------------------------------------------------------------------------
LEMMA Invariance == Spec => []IInv
  <1>1. IInv /\ [Next]_vars => IInv'
    BY NextIInv
  <1> QED BY <1>1, InitIInv, PTL DEF Spec

\* The tables and the requests keep their types, and every reference between rows resolves.
THEOREM TypeCorrect == Spec => []TypeOK
  <1>1. ASSUME IInv PROVE TypeOK
    <2>1. /\ Len(key) \in Nat /\ DOMAIN key = 1..Len(key) /\ \A k \in 1..Len(key) : key[k] \in Rows
          /\ Len(app) \in Nat /\ DOMAIN app = 1..Len(app) /\ \A a \in 1..Len(app) : app[a] \in Apps
          /\ Len(tenant) \in Nat /\ DOMAIN tenant = 1..Len(tenant)
          /\ \A t \in 1..Len(tenant) : tenant[t] \in Names
      BY <1>1, Lengths DEF IInv
    <2>2. \A k \in DOMAIN key :
            /\ key[k].app \in DOMAIN app
            /\ key[k].prefix \in KeyPrefixes
            /\ key[k].scopes \in SUBSET ALL_SCOPES
            /\ key[k].active \in BOOLEAN /\ key[k].revoked \in BOOLEAN
            /\ key[k].expires \in 0..Never
            /\ key[k].from \in 0..k - 1
      BY <1>1, <2>1 DEF IInv, KeyRow, Rows
    <2>3. \A a \in DOMAIN app :
            app[a].tenant \in DOMAIN tenant /\ app[a].name \in Names /\ app[a].active \in BOOLEAN
      BY <1>1, <2>1 DEF IInv, NamesUnique, Apps
    <2>4. ToSet(tenant) \subseteq Names
      BY <2>1 DEF ToSet
    <2>5. \A r \in Requests :
            /\ req[r].tries \in 0..1
            /\ req[r].pc \in {"idle", "in", "mint", "insert", "revoke", "tenant", "app", "patch"}
      BY <1>1 DEF IInv, Reqs
    <2> QED BY <1>1, <2>2, <2>3, <2>4, <2>5 DEF IInv, Tables, TypeOK
  <1> QED BY <1>1, Invariance, PTL

\* However requests interleave between a SELECT and a commit, a raw key that was not revoked
\* finds its own row and no other, and no name is given twice (resolve_api_key, and the unique
\* constraints that the commits of auth_keys.py rely on).
THEOREM LookupsAreUnambiguous == Spec => []LookupsFindOneRow
  <1>1. ASSUME IInv PROVE LookupsFindOneRow
    <2>1. DOMAIN key = 1..Len(key) /\ DOMAIN app = 1..Len(app) /\ DOMAIN tenant = 1..Len(tenant)
      BY <1>1, Lengths DEF IInv
    <2>2. \A k \in DOMAIN key : ~key[k].revoked => Matches(k) = {k}
      BY <1>1, <2>1 DEF IInv, KeyRow, PrefixesUnique, Matches
    <2> QED BY <1>1, <2>1, <2>2 DEF IInv, NamesUnique, LookupsFindOneRow
  <1> QED BY <1>1, Invariance, PTL

\* Whoever creates or rotates keys, and whatever is committed between a check and its commit,
\* an application's keys hold only scopes that bootstrap or an admin gave it (create_api_key,
\* rotate_key).
THEOREM NoScopeIsInvented == Spec => []ScopesAreGranted
  <1>1. ASSUME IInv PROVE ScopesAreGranted
    <2>1. DOMAIN key = 1..Len(key)
      BY <1>1, Lengths DEF IInv
    <2> QED BY <1>1, <2>1 DEF IInv, KeyRow, ScopesAreGranted
  <1> QED BY <1>1, Invariance, PTL

\* A key's expiry changes only together with the insertion of a successor, and no rotation
\* that came in after the revocation of its key reaches the minting (rotate_api_key).
THEOREM RotationsKeepTheirPromise == Spec => []RotationsAreSound
  <1>1. ASSUME IInv PROVE RotationsAreSound
    <2>1. Len(key) \in Nat /\ DOMAIN key = 1..Len(key)
      BY <1>1, Lengths DEF IInv
    <2>2. ASSUME NEW k \in DOMAIN key
          PROVE  IF \E x \in DOMAIN key : key[x].from = k
                 THEN key[k].expires <= now + Overlap ELSE key[k].expires = key[k].asked
      <3>1. k # 0
        BY <2>1
      <3> QED BY <1>1, <2>1, <3>1 DEF IInv, Expiry
    <2>3. \A r \in Requests :
            req[r].op = "rotate" /\ req[r].pc \in {"mint", "insert"} => req[r].obj \notin req[r].revokedBefore
      BY <1>1 DEF IInv, Known, RotationChecked
    <2> QED BY <2>2, <2>3 DEF RotationsAreSound
  <1> QED BY <1>1, Invariance, PTL

\* No commit brings a revoked key back: a rotation that was under way when its key was revoked
\* writes the expiry of the row and nothing else (revoke_api_key, rotate_key).
THEOREM RevocationIsFinal == Spec => RevokedIsFinal
  <1>1. ASSUME IInv, [Next]_vars
        PROVE  [\A k \in DOMAIN key : key[k].revoked => key'[k].revoked /\ ~key'[k].active]_vars
    <2>1. IInv' /\ Grow
      BY <1>1, NextIInv
    <2>2. Len(key) \in Nat /\ DOMAIN key = 1..Len(key) /\ Len(key') \in Nat
      BY <1>1, <2>1, Lengths, LenProperties DEF IInv, Tables
    <2>3. \A k \in 1..Len(key) : k \in 1..Len(key') /\ (key[k].revoked => key'[k].revoked)
      BY <2>1, <2>2 DEF Grow
    <2>4. \A k \in 1..Len(key') : key'[k].active <=> ~key'[k].revoked
      BY <2>1 DEF IInv, KeyRow
    <2> QED BY <2>2, <2>3, <2>4
  <1> QED BY <1>1, Invariance, PTL DEF Spec, RevokedIsFinal

=============================================================================
