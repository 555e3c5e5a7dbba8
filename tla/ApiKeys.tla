------------------------------- MODULE ApiKeys -------------------------------
(***************************************************************************)
(* API keys, applications and tenants: authentication                      *)
(* (api/v1/dependencies.py), the key and tenancy endpoints                 *)
(* (api/v1/endpoints/auth_keys.py) and minting and rotation                *)
(* (services/key_service.py).                                              *)
(*                                                                         *)
(* A request authenticates, loads and checks what it is about, and writes  *)
(* it in one commit; other requests may commit between these steps.  One   *)
(* session serves the whole request, so a row that it has loaded is not    *)
(* read again (the identity map of the session), and an UPDATE sends only  *)
(* the columns that were assigned.  The database refuses a second row with *)
(* the same prefix or name: the request then fails and writes nothing.     *)
(*                                                                         *)
(* The raw key of a row is known to whoever asked for it, so any minted    *)
(* key may authenticate a request.  last_used_at, the mode and the labels  *)
(* decide nothing and are left out.                                        *)
(***************************************************************************)
EXTENDS Integers, Sequences, FiniteSets, SequencesExt

CONSTANTS
  Requests,    \* the requests the API serves at the same time
  KeyPrefixes, \* the key prefixes that generate_api_key may draw
  Names,       \* names of tenants and applications
  ScopeLists,  \* the lists of scopes a caller may ask for
  Overlap,     \* key_rotation_overlap_hours
  MaxTime,     \* bound on the clock
  MaxRequests, \* bound on the number of requests
  MaxRows      \* bound on the rows of the table api_keys

ALL_SCOPES == {"fetch", "archive", "admin", "keys"}

ASSUME KeyAssumption ==
  /\ ScopeLists \subseteq SUBSET ALL_SCOPES
  /\ Overlap \in Nat /\ MaxTime \in Nat /\ MaxRequests \in Nat /\ MaxRows \in Nat
  /\ \E pre \in KeyPrefixes \X KeyPrefixes : pre[1] # pre[2]
  /\ \E name \in Names \X Names : name[1] # name[2]

VARIABLES
  now,
  key,      \* the table api_keys, a row's index being its id
  app,      \* the table applications
  tenant,   \* the names in the table tenants
  req,      \* the requests being served
  served,   \* how many requests have come in
  granted   \* history: the scopes that bootstrap or an admin gave each application

vars == <<now, key, app, tenant, req, served, granted>>

Never == MaxTime + Overlap + 1   \* expires_at IS NULL: later than every expiry
Ops   == {"create", "revoke", "rotate", "new_tenant", "new_app", "patch_app"}

\* revokedBefore is a history field: the keys that were revoked when a rotation came in.
Idle == [pc |-> "idle", op |-> "none", caller |-> 0, obj |-> 0, scopes |-> {}, expires |-> Never,
         prefix |-> "none", tries |-> 0, name |-> "none", active |-> {}, revokedBefore |-> {}]

RowOf(a, p, S, e, from) ==
  [app |-> a, prefix |-> p, scopes |-> S, active |-> TRUE, revoked |-> FALSE,
   expires |-> e,
   asked   |-> e,      \* history: the expiry the row was created with
   from    |-> from]   \* history: the key it is the successor of

\* bootstrap_dev.py leaves a tenant, an application and an admin key.  The admin has
\* made a second application, with a key that manages that application's keys.
Init ==
  LET name == CHOOSE s \in Names \X Names : s[1] # s[2]
      pre  == CHOOSE s \in KeyPrefixes \X KeyPrefixes : s[1] # s[2]
  IN /\ now = 0
     /\ tenant = <<name[1]>>
     /\ app = << [tenant |-> 1, name |-> name[1], active |-> TRUE],
                 [tenant |-> 1, name |-> name[2], active |-> TRUE] >>
     /\ key = << RowOf(1, pre[1], ALL_SCOPES, Never, 0), RowOf(2, pre[2], {"fetch", "keys"}, Never, 0) >>
     /\ granted = << ALL_SCOPES, {"fetch", "keys"} >>
     /\ req = [r \in Requests |-> Idle]
     /\ served = 0

Tick ==
  /\ now < MaxTime
  /\ now' = now + 1
  /\ UNCHANGED <<key, app, tenant, req, served, granted>>

IsAdmin(k)  == "admin" \in key[k].scopes
Revoked     == {k \in DOMAIN key : key[k].revoked}
Taken       == {key[k].prefix : k \in DOMAIN key}
At(r, pc)   == req[r].pc = pc
Reply(r)    == req' = [req EXCEPT ![r] = Idle]   \* the request ends, with an answer or an error

-----------------------------------------------------------------------------
(* Authentication                                                          *)

\* The rows that a raw key's prefix may find: SELECT ... LIMIT 1 among the active ones.
Matches(k) == {x \in DOMAIN key : key[x].prefix = key[k].prefix /\ key[x].active}

\* resolve_api_key with the raw key of row k, when the SELECT returned row x.
Accepts(k, x) == ~key[x].revoked /\ ~(key[x].expires < now) /\ x = k

\* require_scope of each endpoint
ScopeFor(op) == IF op \in {"create", "revoke", "rotate"} THEN "keys" ELSE "admin"

Authenticate(r) ==
  /\ At(r, "idle") /\ served < MaxRequests
  /\ served' = served + 1
  /\ \E k \in DOMAIN key, op \in Ops : \E x \in Matches(k) :
       /\ Accepts(k, x)
       /\ ScopeFor(op) \in key[x].scopes
       /\ req' = [req EXCEPT ![r] = [Idle EXCEPT !.pc = "in", !.op = op, !.caller = x,
                            !.revokedBefore = IF op = "rotate" THEN Revoked ELSE {}]]
  /\ UNCHANGED <<now, key, app, tenant, granted>>

\* A raw key that finds no row or a dead one, or lacks the scope.
Deny(r) ==
  /\ At(r, "idle") /\ served < MaxRequests
  /\ served' = served + 1
  /\ \E k \in DOMAIN key, op \in Ops :
       \/ Matches(k) = {}
       \/ \E x \in Matches(k) : ~Accepts(k, x) \/ ScopeFor(op) \notin key[x].scopes
  /\ UNCHANGED <<now, key, app, tenant, req, granted>>

-----------------------------------------------------------------------------
(* Keys                                                                    *)

\* _admin_or_own_app
MayTouch(c, a) == IsAdmin(c) \/ key[c].app = a

\* Faulty variant: only the application is checked, not what the caller holds.
MayGrant_Any(c, a, S) == MayTouch(c, a)

\* The conditions of POST /v1/keys on the caller.
MayGrant(c, a, S) ==
  /\ S \subseteq key[c].scopes
  /\ "keys" \in S => IsAdmin(c)
  /\ MayTouch(c, a)

\* POST /v1/keys up to the minting: the application must exist and be active.
create_api_key(r) ==
  /\ At(r, "in") /\ req[r].op = "create"
  /\ \E a \in 1..Len(app) + 1, S \in ScopeLists, e \in {now, Never} :
       IF /\ MayGrant(req[r].caller, a, S)
          /\ a \in DOMAIN app
          /\ app[a].active
       THEN req' = [req EXCEPT ![r].pc = "mint", ![r].obj = a, ![r].scopes = S, ![r].expires = e]
       ELSE Reply(r)
  /\ UNCHANGED <<now, key, app, tenant, served, granted>>

\* What the session shows of revoked_at: the caller's own row was loaded when it was
\* still valid.
SeesRevoked(r, k) == k # req[r].caller /\ key[k].revoked

\* POST /v1/keys/{id}/rotate up to the minting of the successor.
rotate_api_key(r) ==
  /\ At(r, "in") /\ req[r].op = "rotate"
  /\ \E k \in 1..Len(key) + 1 :
       IF /\ k \in DOMAIN key
          /\ MayTouch(req[r].caller, key[k].app)
          /\ ~SeesRevoked(r, k)
       THEN req' = [req EXCEPT ![r].pc = "mint", ![r].obj = k]
       ELSE Reply(r)
  /\ UNCHANGED <<now, key, app, tenant, served, granted>>

\* One draw of generate_api_key and the SELECT for its prefix.  Two draws are tried.
\* A rotation computes the expiry of the old key as soon as it has a free prefix.
DrawPrefix(r) ==
  /\ At(r, "mint")
  /\ \E p \in KeyPrefixes :
       \/ /\ p \in Taken /\ req[r].tries = 0
          /\ req' = [req EXCEPT ![r].tries = 1]
       \/ /\ p \in Taken /\ req[r].tries = 1
          /\ Reply(r)
       \/ /\ p \notin Taken
          /\ req' = [req EXCEPT ![r].pc = "insert", ![r].prefix = p,
                                ![r].expires = IF req[r].op = "rotate" THEN now + Overlap ELSE @]
  /\ UNCHANGED <<now, key, app, tenant, served, granted>>

\* Faulty variant: the column prefix is not unique.
Clashes_Never(r) == FALSE

\* The unique constraint on prefix.
Clashes(r) == req[r].prefix \in Taken

InsertKey(r) ==
  /\ At(r, "insert") /\ req[r].op = "create" /\ Len(key) < MaxRows
  /\ IF Clashes(r)
     THEN UNCHANGED <<key, granted>>
     ELSE /\ key' = Append(key, RowOf(req[r].obj, req[r].prefix, req[r].scopes, req[r].expires, 0))
          /\ granted' = IF IsAdmin(req[r].caller)
                        THEN [granted EXCEPT ![req[r].obj] = @ \cup req[r].scopes] ELSE granted
  /\ Reply(r)
  /\ UNCHANGED <<now, app, tenant, served>>

\* Faulty variant: the expiry is committed before the successor is inserted.
InsertSuccessor_ExpiryFirst(r) ==
  LET old  == key[req[r].obj]
      aged == [key EXCEPT ![req[r].obj].expires = req[r].expires]
  IN /\ At(r, "insert") /\ req[r].op = "rotate" /\ Len(key) < MaxRows
     /\ key' = IF Clashes(r) THEN aged
               ELSE Append(aged, RowOf(old.app, req[r].prefix, old.scopes, Never, req[r].obj))
     /\ Reply(r)
     /\ UNCHANGED <<now, app, tenant, served, granted>>

\* Faulty variant: the old row is written back as it was loaded.
InsertSuccessor_WholeRow(r) ==
  LET k    == req[r].obj
      aged == [key EXCEPT ![k].expires = req[r].expires, ![k].active = TRUE, ![k].revoked = FALSE]
  IN /\ At(r, "insert") /\ req[r].op = "rotate" /\ Len(key) < MaxRows
     /\ key' = IF Clashes(r) THEN key
               ELSE Append(aged, RowOf(key[k].app, req[r].prefix, key[k].scopes, Never, k))
     /\ Reply(r)
     /\ UNCHANGED <<now, app, tenant, served, granted>>

\* The commit of a rotation: the successor and the old key's expiry, and no other column.
InsertSuccessor(r) ==
  LET k    == req[r].obj
      aged == [key EXCEPT ![k].expires = req[r].expires]
  IN /\ At(r, "insert") /\ req[r].op = "rotate" /\ Len(key) < MaxRows
     /\ key' = IF Clashes(r) THEN key
               ELSE Append(aged, RowOf(key[k].app, req[r].prefix, key[k].scopes, Never, k))
     /\ Reply(r)
     /\ UNCHANGED <<now, app, tenant, served, granted>>

\* DELETE /v1/keys/{id}: the row is loaded and the caller checked ...
revoke_api_key(r) ==
  /\ At(r, "in") /\ req[r].op = "revoke"
  /\ \E k \in 1..Len(key) + 1 :
       IF /\ k # req[r].caller
          /\ k \in DOMAIN key
          /\ MayTouch(req[r].caller, key[k].app)
       THEN req' = [req EXCEPT ![r].pc = "revoke", ![r].obj = k]
       ELSE Reply(r)
  /\ UNCHANGED <<now, key, app, tenant, served, granted>>

\* ... and the revocation committed.
CommitRevoke(r) ==
  /\ At(r, "revoke")
  /\ key' = [key EXCEPT ![req[r].obj].revoked = TRUE, ![req[r].obj].active = FALSE]
  /\ Reply(r)
  /\ UNCHANGED <<now, app, tenant, served, granted>>

-----------------------------------------------------------------------------
(* Tenants and applications                                                *)

\* The applications of tenant t called n.
Named(t, n) == {a \in DOMAIN app : app[a].tenant = t /\ app[a].name = n}

create_tenant(r) ==
  /\ At(r, "in") /\ req[r].op = "new_tenant"
  /\ \E n \in Names :
       IF n \in ToSet(tenant) THEN Reply(r)
       ELSE req' = [req EXCEPT ![r].pc = "tenant", ![r].name = n]
  /\ UNCHANGED <<now, key, app, tenant, served, granted>>

CommitTenant(r) ==
  /\ At(r, "tenant")
  /\ tenant' = IF req[r].name \in ToSet(tenant) THEN tenant ELSE Append(tenant, req[r].name)
  /\ Reply(r)
  /\ UNCHANGED <<now, key, app, served, granted>>

\* Tenants are always active, as no endpoint deactivates one, so its 403 is left out.
create_application(r) ==
  /\ At(r, "in") /\ req[r].op = "new_app"
  /\ \E t \in 1..Len(tenant) + 1, n \in Names :
       IF t \in DOMAIN tenant /\ Named(t, n) = {}
       THEN req' = [req EXCEPT ![r].pc = "app", ![r].obj = t, ![r].name = n]
       ELSE Reply(r)
  /\ UNCHANGED <<now, key, app, tenant, served, granted>>

CommitApplication(r) ==
  /\ At(r, "app")
  /\ IF Named(req[r].obj, req[r].name) = {}
     THEN /\ app' = Append(app, [tenant |-> req[r].obj, name |-> req[r].name, active |-> TRUE])
          /\ granted' = Append(granted, {})
     ELSE UNCHANGED <<app, granted>>
  /\ Reply(r)
  /\ UNCHANGED <<now, key, tenant, served>>

\* PATCH /v1/applications/{id} with a name, an is_active or both.  A value equal to the one
\* that was loaded is not written.
update_application(r) ==
  /\ At(r, "in") /\ req[r].op = "patch_app"
  /\ \E a \in 1..Len(app) + 1, n \in Names \cup {"none"}, B \in {{}, {TRUE}, {FALSE}} :
       IF a \in DOMAIN app /\ (n # "none" => Named(app[a].tenant, n) \ {a} = {})
       THEN req' = [req EXCEPT ![r].pc = "patch", ![r].obj = a,
                               ![r].name = IF n = app[a].name THEN "none" ELSE n,
                               ![r].active = B \ {app[a].active}]
       ELSE Reply(r)
  /\ UNCHANGED <<now, key, app, tenant, served, granted>>

Patched(row, name, active) ==
  [row EXCEPT !.name   = IF name = "none" THEN @ ELSE name,
              !.active = IF active = {} THEN @ ELSE TRUE \in active]

\* The commit fails as a whole when the name is taken by then.
CommitPatch(r) ==
  LET a == req[r].obj IN
  /\ At(r, "patch")
  /\ app' = IF Named(app[a].tenant, req[r].name) \ {a} = {}
            THEN [app EXCEPT ![a] = Patched(@, req[r].name, req[r].active)] ELSE app
  /\ Reply(r)
  /\ UNCHANGED <<now, key, tenant, served, granted>>

-----------------------------------------------------------------------------
Next ==
  \/ Tick
  \/ \E r \in Requests :
       \/ Authenticate(r) \/ Deny(r)
       \/ create_api_key(r) \/ rotate_api_key(r) \/ DrawPrefix(r)
       \/ InsertKey(r) \/ InsertSuccessor(r)
       \/ revoke_api_key(r) \/ CommitRevoke(r)
       \/ create_tenant(r) \/ CommitTenant(r)
       \/ create_application(r) \/ CommitApplication(r)
       \/ update_application(r) \/ CommitPatch(r)

Spec == Init /\ [][Next]_vars

-----------------------------------------------------------------------------
(* Properties                                                              *)

\* Type correctness of the tables and of the requests.
TypeOK ==
  /\ now \in 0..MaxTime
  /\ served \in 0..MaxRequests
  /\ \A k \in DOMAIN key :
       /\ key[k].app \in DOMAIN app
       /\ key[k].prefix \in KeyPrefixes
       /\ key[k].scopes \in SUBSET ALL_SCOPES
       /\ key[k].active \in BOOLEAN /\ key[k].revoked \in BOOLEAN
       /\ key[k].expires \in 0..Never
       /\ key[k].from \in 0..k - 1
  /\ \A a \in DOMAIN app :
       /\ app[a].tenant \in DOMAIN tenant
       /\ app[a].name \in Names
       /\ app[a].active \in BOOLEAN
  /\ ToSet(tenant) \subseteq Names
  /\ \A r \in Requests :
       /\ req[r].tries \in 0..1
       /\ req[r].pc \in {"idle", "in", "mint", "insert", "revoke", "tenant", "app", "patch"}

\* Every lookup of the API finds one row at most, however requests interleave between a
\* SELECT and a commit: a raw key that was handed out and not revoked finds its own row, so
\* that two requests that draw the same free prefix do not lock each other's holder out, and
\* names of tenants and of a tenant's applications are unique.
LookupsFindOneRow ==
  /\ \A k \in DOMAIN key : ~key[k].revoked => Matches(k) = {k}
  /\ \A i, j \in DOMAIN tenant : tenant[i] = tenant[j] => i = j
  /\ \A a, b \in DOMAIN app : app[a].tenant = app[b].tenant /\ app[a].name = app[b].name => a = b

\* Whoever issues or rotates keys, an application's keys hold only scopes that bootstrap
\* or an admin gave to that application (the conditions D2 and D3 of create_api_key, and
\* what a successor inherits).
ScopesAreGranted == \A k \in DOMAIN key : key[k].scopes \subseteq granted[key[k].app]

\* The expiry of a key is the one it was created with until a successor exists, and is at
\* most Overlap away once one does: a rotation that fails shortens no key's life
\* (rotate_api_key's single transaction).  A rotation that came in after the key's revocation
\* never mints a successor, although its check reads a row that the session loaded before.
RotationsAreSound ==
  /\ \A k \in DOMAIN key :
       IF \E x \in DOMAIN key : key[x].from = k
       THEN key[k].expires <= now + Overlap
       ELSE key[k].expires = key[k].asked
  /\ \A r \in Requests :
       req[r].op = "rotate" /\ req[r].pc \in {"mint", "insert"} => req[r].obj \notin req[r].revokedBefore

\* A revoked key never comes back, whatever requests about it were under way when it was
\* revoked (revoke_api_key against rotate_api_key's write of the same row).
RevokedIsFinal ==
  [][\A k \in DOMAIN key : key[k].revoked => key'[k].revoked /\ ~key'[k].active]_vars

=============================================================================
