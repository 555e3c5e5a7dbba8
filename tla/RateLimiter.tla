---------------------------- MODULE RateLimiter ----------------------------
(***************************************************************************)
(* The sliding-window limiter of services/rate_limiter.py, as POST         *)
(* /v1/fetch (check_all) and POST /v1/batches (check_domain, once for each *)
(* domain) use it.                                                         *)
(*                                                                         *)
(* A request goes through stages; the checks of a stage run concurrently   *)
(* (asyncio.gather) and all of them must allow the request before the next *)
(* stage is sent.  A check takes the time of its API process, then runs    *)
(* the Lua script on one sorted set: Redis runs scripts one at a time, but *)
(* clocks differ and a script runs some time after its time was taken.     *)
(***************************************************************************)
EXTENDS Integers, Sequences, FiniteSetsExt

CONSTANTS
  Keys,         \* the sorted sets: rl:key:..., rl:app:..., rl:dom:...
  Window,       \* per set: the window, in ticks
  Limit,        \* per set: the requests allowed in a window
  Reqs,         \* the requests
  Plan,         \* per request: its stages, each the sets checked at once
  Rands,        \* what math.random may answer
  Skew,         \* how far a process's clock may be off, either way
  MaxDelay,     \* ticks between taking the time and running the script
  ExpirySlack,  \* the second added to the window for EXPIRE
  MaxTime,      \* bound on the length of a behaviour
  MaxOutages    \* bound on checks that meet a Redis error

ASSUME LimiterAssumption ==
  /\ Window \in [Keys -> Nat \ {0}]
  /\ Limit \in [Keys -> Nat \ {0}]
  /\ Plan \in [Reqs -> Seq(SUBSET Keys)]
  /\ Skew \in Nat /\ MaxDelay \in Nat /\ ExpirySlack \in Nat
  /\ MaxTime \in Nat /\ MaxOutages \in Nat

\* The stages of the callers: check_all gathers the key and the quota, then the domain
\* (no caller names a proxy); a batch charges its domains one after the other.
FetchPlan(key, app, dom) == <<{key, app}, {dom}>>
BatchPlan(domains)       == [i \in 1 .. Len(domains) |-> {domains[i]}]

VARIABLES
  now,       \* true time, which is also Redis's
  zset,      \* the members of each sorted set
  expireAt,  \* when each sorted set expires
  stage,     \* per request: the stages it has sent
  pending,   \* the checks whose script has still to run: the time they took, and the
             \* true time then
  denied,    \* the requests that some set denied
  charged,   \* history: every member that was added, and when
  outages

vars == <<now, zset, expireAt, stage, pending, denied, charged, outages>>

Init ==
  /\ now = 0
  /\ zset = [k \in Keys |-> {}]
  /\ expireAt = [k \in Keys |-> 0]
  /\ stage = [r \in Reqs |-> 0]
  /\ pending = {}
  /\ denied = {}
  /\ charged = {}
  /\ outages = 0

-----------------------------------------------------------------------------

\* check_all, or the batch endpoint's loop: the checks of the next stage are sent, with
\* the time as this process has it.
NextStage(r) ==
  /\ stage[r] < Len(Plan[r])
  /\ r \notin denied
  /\ \A p \in pending : p.req # r
  /\ stage' = [stage EXCEPT ![r] = @ + 1]
  /\ \E c \in now - Skew .. now + Skew :
       pending' = pending \cup
         {[req |-> r, key |-> k, stamp |-> c, at |-> now] : k \in Plan[r][stage[r] + 1]}
  /\ UNCHANGED <<now, zset, expireAt, denied, charged, outages>>

-----------------------------------------------------------------------------
(* LUA_SLIDING_WINDOW.                                                     *)

\* Faulty variant: the member at the cutoff is kept.
Live_KeepsCutoff(k, c) == {m \in zset[k] : m.score >= c - Window[k]}

\* ZREMRANGEBYSCORE -inf cutoff: what stays.
Live(k, c) == {m \in zset[k] : m.score > c - Window[k]}

HasRoom(k, c) == Cardinality(Live(k, c)) + 1 <= Limit[k]

\* Faulty variant: the set lives for the added second only.
Charge_ExpiresEarly(k, c) ==
  \E rand \in Rands :
    LET m == [score |-> c, rand |-> rand] IN
    /\ zset' = [zset EXCEPT ![k] = Live(k, c) \cup {m}]
    /\ expireAt' = [expireAt EXCEPT ![k] = now + ExpirySlack]
    /\ charged' = charged \cup {[key |-> k, at |-> now, member |-> m]}

\* ZADD (a member that is there already is not added again) and EXPIRE.
Charge(k, c) ==
  \E rand \in Rands :
    LET m == [score |-> c, rand |-> rand] IN
    /\ zset' = [zset EXCEPT ![k] = Live(k, c) \cup {m}]
    /\ expireAt' = [expireAt EXCEPT ![k] = now + Window[k] + ExpirySlack]
    /\ charged' = charged \cup {[key |-> k, at |-> now, member |-> m]}

\* reset_at of a denial: when the oldest member leaves the window.
ResetAt(k, c) ==
  IF Live(k, c) = {} THEN 0 ELSE Min({m.score : m \in Live(k, c)}) + Window[k]

Allow(p) ==
  /\ HasRoom(p.key, p.stamp)
  /\ Charge(p.key, p.stamp)
  /\ pending' = pending \ {p}
  /\ UNCHANGED <<now, stage, denied, outages>>

Deny(p) ==
  /\ ~HasRoom(p.key, p.stamp)
  /\ zset' = [zset EXCEPT ![p.key] = Live(p.key, p.stamp)]
  /\ pending' = pending \ {p}
  /\ denied' = denied \cup {p.req}
  /\ UNCHANGED <<now, expireAt, stage, charged, outages>>

\* A Redis error allows the request; the script may have run all the same.
FailOpen(p) ==
  /\ outages < MaxOutages
  /\ outages' = outages + 1
  /\ \/ HasRoom(p.key, p.stamp) /\ Charge(p.key, p.stamp)
     \/ /\ \/ zset' = zset
           \/ ~HasRoom(p.key, p.stamp) /\ zset' = [zset EXCEPT ![p.key] = Live(p.key, p.stamp)]
        /\ UNCHANGED <<expireAt, charged>>
  /\ pending' = pending \ {p}
  /\ UNCHANGED <<now, stage, denied>>

\* Time passes, though no script waits longer than MaxDelay; sets expire.
Tick ==
  /\ now < MaxTime
  /\ \A p \in pending : now - p.at < MaxDelay
  /\ now' = now + 1
  /\ zset' = [k \in Keys |-> IF expireAt[k] <= now' THEN {} ELSE zset[k]]
  /\ UNCHANGED <<expireAt, stage, pending, denied, charged, outages>>

Next ==
  \/ \E r \in Reqs : NextStage(r)
  \/ \E p \in pending : Allow(p) \/ Deny(p) \/ FailOpen(p)
  \/ Tick

Spec == Init /\ [][Next]_vars

-----------------------------------------------------------------------------
(* Properties.                                                             *)

Member == [score : Int, rand : Rands]

\* Type correctness: every variable stays in the range that its declaration describes.
TypeOK ==
  /\ now \in 0 .. MaxTime
  /\ zset \in [Keys -> SUBSET Member]
  /\ \A k \in Keys : Cardinality(zset[k]) <= Limit[k]
  /\ expireAt \in [Keys -> Nat]
  /\ stage \in [Reqs -> Nat] /\ \A r \in Reqs : stage[r] <= Len(Plan[r])
  /\ pending \subseteq [req : Reqs, key : Keys, stamp : Int, at : Nat]
  /\ denied \subseteq Reqs
  /\ charged \subseteq [key : Keys, at : Nat, member : Member]
  /\ outages \in 0 .. MaxOutages

\* What is left of the window when clocks differ and scripts run late.
Guaranteed(k) == Window[k] - 2 * Skew - MaxDelay

\* Whatever the clocks say and in whatever order the scripts run: no stretch of true
\* time as long as the guaranteed window sees more members charged than the limit.
WindowHolds ==
  \A k \in Keys : \A a \in charged :
    Cardinality({b.member : b \in {x \in charged : /\ x.key = k
                                                   /\ x.at <= a.at
                                                   /\ x.at > a.at - Guaranteed(k)}})
      <= Limit[k]

\* Retry-After is long enough: a denied client that comes back when its clock shows the
\* time it was told, after nobody else was charged, is let in by that set, although the
\* members that kept it out were stamped by other clocks and the set may expire first.
RetryAfterIsEnough ==
  [][\A p \in pending : Deny(p) => HasRoom(p.key, ResetAt(p.key, p.stamp))']_vars
=============================================================================
