------------------------------ MODULE ProxySync ------------------------------
(***************************************************************************)
(* Reconciliation of the proxies table with the provider: the cron task    *)
(* sync_proxies (worker/tasks/proxy_sync.py, run by every worker at start  *)
(* and twice an hour), the provider client (services/webshare_sync.py),    *)
(* ProxySyncService, and the admin's bulk import, new pools and new rows   *)
(* (api/v1/endpoints/proxy.py, admin.py).                                  *)
(*                                                                         *)
(* A sync fetches the plans one by one, each page by page, while the       *)
(* provider may change them, then reads the table and writes it in one     *)
(* transaction.  Several may overlap.  The rows a transaction writes stay  *)
(* locked until it commits, so its writes are one step; what it read       *)
(* before may be old by then.                                              *)
(***************************************************************************)
EXTENDS Integers, Sequences, FiniteSets, SequencesExt

CONSTANTS
  Syncs,      \* the sync tasks
  Urls,       \* the proxies
  Plans,      \* the provider's plans
  Subtype,    \* the proxy_subtype of each plan
  NoPlan,     \* no plan
  Listed,     \* the proxies that each plan lists at first
  PageSize,   \* page_size
  NoPool,     \* no pool
  SyncPool,   \* the pool webshare-pool that a sync creates
  ImportPool, \* the pool that an import creates
  AdminPool,  \* the pool that an admin creates
  AdminTypes, \* the types that an admin gives to proxies
  MaxMishaps  \* bound on changes at the provider, failed plans, failed syncs, admin's requests

\* What a plan may list.
Lists == UNION {Injection(1 .. n, Urls) : n \in 0 .. Cardinality(Urls)}

ASSUME SyncAssumption ==
  /\ Listed \in [Plans -> Lists]
  /\ Subtype \in [Plans -> {"default", "isp", "residential"}]
  /\ NoPlan \notin Plans /\ PageSize \in Nat \ {0}
  /\ SyncPool # ImportPool /\ AdminPool \notin {SyncPool, ImportPool}
  /\ NoPool \notin {SyncPool, ImportPool, AdminPool}
  /\ AdminTypes \subseteq {"residential", "datacenter", "isp"}
  /\ MaxMishaps \in Nat

VARIABLES
  on,       \* the list of each plan's proxies; an empty one stands for an inactive plan
  table,    \* the table proxies
  pools,    \* the provider's pools, oldest first
  event,    \* the type of the last event of each proxy
  at,       \* where each sync is
  left,     \* the plans it has to fetch
  paging,   \* the plan it is fetching, the next page and the proxies of the pages before
  fetched,  \* the types of the proxies it has fetched, "none" for the others
  read,     \* the states it has read
  pool,     \* the pool it has read
  stale,    \* history: whether the table changed since it was read
  steady,   \* history: the entries the plans have had since the sync began, see ProviderChanges
  skipped,  \* history: whether a plan failed in this sync
  request,  \* the request of an admin, and the pools that are older than it
  mishaps   \* so far, against their bound

tableVars    == <<table, pools, event>>
syncVars     == <<at, left, paging, fetched, read, pool, stale, steady, skipped>>
proxySyncVars == <<on, table, pools, event, at, left, paging, fetched, read, pool, stale, steady,
                   skipped, request, mishaps>>

-----------------------------------------------------------------------------
(* The provider                                                            *)

_SUBTYPE_TO_PROXY_TYPE(sub) == IF sub = "default" THEN "datacenter" ELSE "residential"

_DIRECT_CAPABLE_SUBTYPES == {"isp", "default"}

\* What the provider offers of plans that can be used directly, and the better type of a
\* proxy that is in several.
Direct  == {pl \in Plans : Subtype[pl] \in _DIRECT_CAPABLE_SUBTYPES}
Entries == {e \in Direct \X Urls : Contains(on[e[1]], e[2])}
Offered == {u \in Urls : \E pl \in Direct : Contains(on[pl], u)}
TypeOf(u) ==
  IF u \notin Offered THEN "none"
  ELSE IF \E pl \in Direct : Contains(on[pl], u) /\ Subtype[pl] = "isp" THEN "residential"
  ELSE "datacenter"

Absent == [state |-> "absent", type |-> "none", pool |-> NoPool]
Nothing == [u \in Urls |-> "none"]
NotPaging == [plan |-> NoPlan, page |-> 1, got |-> {}]

SyncInit ==
  /\ on = Listed
  /\ table = [u \in Urls |-> Absent]
  /\ pools = <<>>
  /\ event = [u \in Urls |-> "none"]
  /\ at = [s \in Syncs |-> "idle"]
  /\ left = [s \in Syncs |-> {}]
  /\ paging = [s \in Syncs |-> NotPaging]
  /\ fetched = [s \in Syncs |-> Nothing]
  /\ read = [s \in Syncs |-> [u \in Urls |-> "absent"]]
  /\ pool = [s \in Syncs |-> NoPool]
  /\ stale = [s \in Syncs |-> FALSE]
  /\ steady = [s \in Syncs |-> {}]
  /\ skipped = [s \in Syncs |-> FALSE]
  /\ request = [st |-> "none", older |-> {}]
  /\ mishaps = 0

Mishap == mishaps < MaxMishaps /\ mishaps' = mishaps + 1

\* The provider lists other proxies, or the same in another order; of the plans that cannot
\* be used directly nothing is fetched, so what they list does not matter.  A sync that is
\* between two pages of the plan cannot count on any of its entries any more.
ProviderChanges(pl, us) ==
  /\ Mishap /\ us # on[pl]
  /\ on' = [on EXCEPT ![pl] = us]
  /\ steady' = [s \in Syncs |-> {e \in steady[s] \cap Entries' : e[1] = pl => paging[s].plan # pl}]
  /\ UNCHANGED <<tableVars, at, left, paging, fetched, read, pool, stale, skipped, request>>

-----------------------------------------------------------------------------
(* fetch_all_webshare_proxies                                              *)

\* The active plans are listed.
ListPlans(s) ==
  /\ at[s] = "idle"
  /\ at' = [at EXCEPT ![s] = "fetching"]
  /\ left' = [left EXCEPT ![s] = {pl \in Plans : on[pl] # <<>>}]
  /\ steady' = [steady EXCEPT ![s] = Entries]
  /\ UNCHANGED <<on, tableVars, paging, fetched, read, pool, stale, skipped, request, mishaps>>

\* fetch_webshare_proxies_for_plan: other plans cannot be addressed directly.
Listing(pl) == IF Subtype[pl] \in _DIRECT_CAPABLE_SUBTYPES THEN on[pl] ELSE <<>>

\* The proxies of page n, and whether a page follows.
Page(pl, n) ==
  {u \in Urls : \E i \in DOMAIN Listing(pl) :
                  (n - 1) * PageSize < i /\ i <= n * PageSize /\ Listing(pl)[i] = u}
HasNext(pl, n) == n * PageSize < Len(Listing(pl))

\* Faulty variant: the proxies of a plan replace those fetched before.
Merged_Replaces(old, us, pl) ==
  [u \in Urls |-> IF u \in us THEN _SUBTYPE_TO_PROXY_TYPE(Subtype[pl]) ELSE "none"]

\* Faulty variant: the plan that is fetched last decides the type.
Merged_LastWins(old, us, pl) ==
  [u \in Urls |-> IF u \in us THEN _SUBTYPE_TO_PROXY_TYPE(Subtype[pl]) ELSE old[u]]

\* A proxy that is in two plans is residential if one of them is.
Merged(old, us, pl) ==
  LET type == _SUBTYPE_TO_PROXY_TYPE(Subtype[pl]) IN
  [u \in Urls |-> IF u \in us /\ (old[u] = "none" \/ type = "residential")
                  THEN type ELSE old[u]]

Fetching(s, pl) == at[s] = "fetching" /\ pl \in left[s] /\ paging[s].plan \in {NoPlan, pl}

PlanDone(s, pl) ==
  /\ left' = [left EXCEPT ![s] = @ \ {pl}]
  /\ paging' = [paging EXCEPT ![s] = NotPaging]

\* One request.  The proxies of a plan count when its last page is there.
FetchPage(s, pl) ==
  LET n   == paging[s].page
      got == paging[s].got \cup Page(pl, n)
  IN
  /\ Fetching(s, pl)
  /\ \/ /\ HasNext(pl, n)
        /\ paging' = [paging EXCEPT ![s] = [plan |-> pl, page |-> n + 1, got |-> got]]
        /\ UNCHANGED <<left, fetched>>
     \/ /\ ~HasNext(pl, n)
        /\ PlanDone(s, pl)
        /\ fetched' = [fetched EXCEPT ![s] = Merged(@, got, pl)]
  /\ UNCHANGED <<on, tableVars, at, read, pool, stale, steady, skipped, request, mishaps>>

\* The list became so short that the next page is behind its end, which may be an error.
PastTheEnd(s, pl) == (paging[s].page - 1) * PageSize >= Len(on[pl]) /\ paging[s].plan = pl

\* An HTTP error: the plan is skipped, the sync goes on.
PlanFails(s, pl) ==
  /\ Fetching(s, pl)
  /\ \/ Mishap
     \/ PastTheEnd(s, pl) /\ UNCHANGED mishaps
  /\ PlanDone(s, pl)
  /\ skipped' = [skipped EXCEPT ![s] = TRUE]
  /\ UNCHANGED <<on, tableVars, at, fetched, read, pool, stale, steady, request>>

-----------------------------------------------------------------------------
(* _sync_provider                                                          *)

\* _ensure_provider_pool looks for the oldest pool, then the rows are read.
ReadTable(s) ==
  /\ at[s] = "fetching" /\ left[s] = {}
  /\ at' = [at EXCEPT ![s] = "reconciling"]
  /\ pool' = [pool EXCEPT ![s] = IF pools = <<>> THEN NoPool ELSE Head(pools)]
  /\ read' = [read EXCEPT ![s] = [u \in Urls |-> table[u].state]]
  /\ UNCHANGED <<on, tableVars, left, paging, fetched, stale, steady, skipped, request,
                 mishaps>>

Fetched(s) == {u \in Urls : fetched[s][u] # "none"}

activated_urls(s)   == {u \in Urls : read[s][u] = "inactive" /\ u \in Fetched(s)}

deactivated_urls(s) == {u \in Urls : read[s][u] = "active" /\ u \notin Fetched(s)}

\* Faulty variant: the upsert sets is_active as well.
UpsertedState_Activates(u) == "active"

\* The upsert inserts active rows and leaves is_active of the others alone.
UpsertedState(u) == IF table[u].state = "absent" THEN "active" ELSE table[u].state

\* Upsert, move to the pool, activate, deactivate, events, commit.
Written(s, p) ==
  /\ table' = [u \in Urls |->
       IF u \in Fetched(s)
       THEN [state |-> IF u \in activated_urls(s) THEN "active" ELSE UpsertedState(u),
             type |-> fetched[s][u], pool |-> p]
       ELSE IF u \in deactivated_urls(s) THEN [table[u] EXCEPT !.state = "inactive"]
       ELSE table[u]]
  /\ event' = [u \in Urls |-> IF u \in activated_urls(s) THEN "activated"
                              ELSE IF u \in deactivated_urls(s) THEN "deactivated"
                              ELSE event[u]]

\* Back to idle, with the locals gone.
Ends(s) ==
  /\ at' = [at EXCEPT ![s] = "idle"]
  /\ left' = [left EXCEPT ![s] = {}]
  /\ paging' = [paging EXCEPT ![s] = NotPaging]
  /\ fetched' = [fetched EXCEPT ![s] = Nothing]
  /\ read' = [read EXCEPT ![s] = [u \in Urls |-> "absent"]]
  /\ pool' = [pool EXCEPT ![s] = NoPool]
  /\ steady' = [steady EXCEPT ![s] = {}]
  /\ skipped' = [skipped EXCEPT ![s] = FALSE]

\* The others that have read the table have read an old one.
Overtaken(s) == [t \in Syncs |-> IF t = s THEN FALSE ELSE at[t] = "reconciling" \/ stale[t]]

\* A new pool is dated by the start of its transaction: it is younger than the pools that
\* were there then, but may be older than one that was committed meanwhile.
WithPool(p, older) ==
  {InsertAt(pools, i, p) : i \in {i \in 1 .. Len(pools) + 1 :
                                   \A k \in DOMAIN pools : pools[k] \in older => k < i}}

\* The name of a new pool is unique.
Reconcile(s) ==
  /\ at[s] = "reconciling"
  /\ \/ /\ pool[s] # NoPool
        /\ Written(s, pool[s])
        /\ pools' = pools
     \/ /\ pool[s] = NoPool /\ ~Contains(pools, SyncPool)
        /\ Written(s, SyncPool)
        /\ pools' \in WithPool(SyncPool, {})
  /\ Ends(s)
  /\ stale' = Overtaken(s)
  /\ UNCHANGED <<on, request, mishaps>>

\* Another sync has created the pool: the name is taken and the sync fails.
PoolConflict(s) ==
  /\ at[s] = "reconciling" /\ pool[s] = NoPool /\ Contains(pools, SyncPool)
  /\ Ends(s)
  /\ stale' = [stale EXCEPT ![s] = FALSE]
  /\ UNCHANGED <<on, tableVars, request, mishaps>>

\* The plans cannot be listed, an answer cannot be read, or the database fails or ends a
\* deadlock: the task raises and the table stays as it was.
SyncFails(s) ==
  /\ at[s] # "idle" /\ Mishap
  /\ Ends(s)
  /\ stale' = [stale EXCEPT ![s] = FALSE]
  /\ UNCHANGED <<on, tableVars, request>>

-----------------------------------------------------------------------------

(* Requests of an admin                                                    *)

\* A request comes in and its transaction starts.
RequestComes ==
  /\ request.st = "none" /\ Mishap
  /\ request' = [st |-> "open", older |-> ToSet(pools)]
  /\ UNCHANGED <<on, tableVars, syncVars>>

RequestEnds == request.st = "open" /\ request' = [st |-> "over", older |-> {}]

\* Whoever has read the table has read an old one.
AllOvertaken == [s \in Syncs |-> at[s] = "reconciling" \/ stale[s]]

\* import_proxies: a new pool, new rows in it; of the rows that exist only the type changes
\* (and country, health and cooldown, which ProxyHealth has).
Import(us, type) ==
  /\ RequestEnds
  /\ pools' \in WithPool(ImportPool, request.older)
  /\ table' = [u \in Urls |->
       IF u \notin us THEN table[u]
       ELSE IF table[u].state = "absent"
            THEN [state |-> "active", type |-> type, pool |-> ImportPool]
       ELSE [table[u] EXCEPT !.type = type]]
  /\ stale' = AllOvertaken
  /\ UNCHANGED <<on, event, at, left, paging, fetched, read, pool, steady, skipped, mishaps>>

\* A pool of this provider with a name that is free, the sync's own included.
create_proxy_pool(p) ==
  /\ RequestEnds
  /\ ~Contains(pools, p)
  /\ pools' \in WithPool(p, request.older)
  /\ UNCHANGED <<on, table, event, syncVars, mishaps>>

\* A row that was not there, in a pool that is.
add_proxy_to_pool(u, type, p) ==
  /\ RequestEnds
  /\ Contains(pools, p) /\ table[u].state = "absent"
  /\ table' = [table EXCEPT ![u] = [state |-> "active", type |-> type, pool |-> p]]
  /\ stale' = AllOvertaken
  /\ UNCHANGED <<on, pools, event, at, left, paging, fetched, read, pool, steady, skipped,
                 mishaps>>

-----------------------------------------------------------------------------

Pools == {SyncPool, ImportPool, AdminPool}

SyncStep(s) ==
  \/ ListPlans(s) \/ (\E pl \in Plans : FetchPage(s, pl)) \/ ReadTable(s) \/ Reconcile(s)
  \/ PoolConflict(s)

SyncNext ==
  \/ \E s \in Syncs : SyncStep(s) \/ SyncFails(s) \/ \E pl \in Plans : PlanFails(s, pl)
  \/ \E pl \in Direct, us \in Lists : ProviderChanges(pl, us)
  \/ RequestComes
  \/ \E us \in SUBSET Urls, type \in AdminTypes : Import(us, type)
  \/ \E p \in {SyncPool, AdminPool} : create_proxy_pool(p)
  \/ \E u \in Urls, type \in AdminTypes, p \in Pools : add_proxy_to_pool(u, type, p)

\* The cron schedule starts syncs for ever and every await in one has a timeout.
SyncSpec ==
  SyncInit /\ [][SyncNext]_proxySyncVars /\ \A s \in Syncs : WF_proxySyncVars(SyncStep(s))

-----------------------------------------------------------------------------
(* Properties.                                                             *)

Types  == {"none", "residential", "datacenter", "isp"}
States == {"absent", "active", "inactive"}

\* Type correctness: every variable stays in the range that its declaration describes.
SyncTypeOK ==
  /\ on \in [Plans -> Seq(Urls)]
  /\ table \in [Urls -> [state : States, type : Types, pool : Pools \cup {NoPool}]]
  /\ pools \in Seq(Pools) /\ IsInjective(pools)
  /\ event \in [Urls -> {"none", "activated", "deactivated"}]
  /\ at \in [Syncs -> {"idle", "fetching", "reconciling"}]
  /\ left \in [Syncs -> SUBSET Plans]
  /\ paging \in [Syncs -> [plan : Plans \cup {NoPlan}, page : Nat \ {0}, got : SUBSET Urls]]
  /\ fetched \in [Syncs -> [Urls -> Types]]
  /\ read \in [Syncs -> [Urls -> States]] /\ pool \in [Syncs -> Pools \cup {NoPool}]
  /\ stale \in [Syncs -> BOOLEAN] /\ steady \in [Syncs -> SUBSET (Plans \X Urls)]
  /\ skipped \in [Syncs -> BOOLEAN]
  /\ request \in [st : {"none", "open", "over"}, older : SUBSET Pools]
  /\ mishaps \in 0 .. MaxMishaps

\* The last activated or deactivated event of a proxy tells its state, and one without
\* events is active, although overlapping syncs decide on events from what they read before.
EventTellsState ==
  \A u \in Urls : table[u].state # "absent" =>
    (table[u].state = "inactive") = (event[u] = "deactivated")

\* The write of s leaves exactly what it fetched active, with the types it fetched, in one pool.
WritesExactly(s) ==
  /\ {u \in Urls : table'[u].state = "active"} = Fetched(s)
  /\ \A u \in Fetched(s) : table'[u].type = fetched[s][u]
  /\ Cardinality({table'[u].pool : u \in Fetched(s)}) <= 1

\* A proxy that s switches off was in no plan all the time, not counting a plan that changed
\* between two of its pages, or a plan could not be read.
SwitchesOffWithCause(s) ==
  \A u \in Urls : table[u].state = "active" /\ table'[u].state = "inactive" =>
    skipped[s] \/ \A e \in steady[s] : e[2] # u

\* What a sync writes has a cause.  One that nobody overtook leaves exactly what it fetched
\* active, each with the better of its plans' types and all in one pool; overtaken or not, a
\* sync switches a proxy off only if no plan had it all the time, the plan that had it changed
\* between two of its pages, or a plan could not be read.
SyncsAreFaithful ==
  [][\A s \in Syncs : Reconcile(s) =>
       (~stale[s] => WritesExactly(s)) /\ SwitchesOffWithCause(s)]_proxySyncVars

\* When the provider and the faults come to rest, the table comes to hold what is offered:
\* the offered proxies active, typed and in the oldest pool, whoever created that, all others
\* switched off.
TableConverges ==
  <>[](\A u \in Urls :
        IF u \in Offered
        THEN pools # <<>> /\ table[u] = [state |-> "active", type |-> TypeOf(u), pool |-> Head(pools)]
        ELSE table[u].state # "active")
=============================================================================
