--------------------------- MODULE PolicyLearner ---------------------------
(***************************************************************************)
(* The learned part of one domain_policies row: record_outcome of          *)
(* services/policy_learner.py, run by the fetch jobs of every worker, and  *)
(* the admin endpoints that pin, patch, replace and delete the row.        *)
(*                                                                         *)
(* A job reads the row when it starts (resolve_policy) and keeps that      *)
(* object in its session: the later SELECT ... FOR UPDATE SKIP LOCKED      *)
(* locks the row but does not refresh an object the session already holds. *)
(* The new values are computed from the kept object, and the UPDATE sends  *)
(* the columns that differ from it.                                        *)
(***************************************************************************)
EXTENDS Escalation, FiniteSets

CONSTANTS
  Workers,        \* coroutines that run fetch jobs for the domain
  Admins,         \* admin requests about the domain's row
  NoOne,
  PolicyEngine,   \* the row's engine column
  EnablePremium,  \* settings.enable_premium_proxy_tiers
  TierInputs,     \* the tiers that admins ask for
  Detected,       \* what detect_vendor may answer, and admins may enter as antibot_type
  MaxActive,      \* jobs and admin requests in progress at once
  MaxOps          \* bound on jobs and admin requests in a behaviour

ASSUME LearnerAssumption ==
  /\ Workers \cap Admins = {} /\ NoOne \notin Workers \cup Admins
  /\ PolicyEngine \in Engines
  /\ EnablePremium \in BOOLEAN
  /\ TierInputs \subseteq Tiers
  /\ Detected \subseteq Vendors \cup {None}
  /\ MaxActive \in Nat \ {0}
  /\ MaxOps \in Nat

VARIABLES
  row,      \* the committed row
  exists,   \* FALSE once an admin deleted it
  lock,     \* who holds the row lock
  at,       \* where each job and admin request is
  kept,     \* per process: the row as its session holds it
  new,      \* per process: the values its UPDATE is computed from
  blocked,  \* per job: whether its result is blocked
  peak,     \* the highest tier any job used or any admin set
  ops

learnerVars == <<row, exists, lock, at, kept, new, blocked, peak, ops>>

Row == [tier : Tiers, locked : BOOLEAN, antibot : Vendors \cup {None}, blocks : 0 .. MaxOps]

Fresh == [tier |-> 0, locked |-> FALSE, antibot |-> None, blocks |-> 0]

Procs == Workers \cup Admins

LearnerInit ==
  /\ row = Fresh
  /\ exists = TRUE
  /\ lock = NoOne
  /\ at = [p \in Procs |-> "idle"]
  /\ kept = [p \in Procs |-> Fresh]
  /\ new = [p \in Procs |-> Fresh]
  /\ blocked = [w \in Workers |-> FALSE]
  /\ peak = 0
  /\ ops = 0

Begins ==
  /\ Cardinality({p \in Procs : at[p] # "idle"}) < MaxActive
  /\ ops < MaxOps
  /\ ops' = ops + 1

Step(p, from, to) == at[p] = from /\ at' = [at EXCEPT ![p] = to]

\* The UPDATE of a session: a column is sent when its value changed in the session.
Sent(was, is, now) == IF is # was THEN is ELSE now
Updated(p) ==
  [tier    |-> Sent(kept[p].tier,    new[p].tier,    row.tier),
   locked  |-> Sent(kept[p].locked,  new[p].locked,  row.locked),
   antibot |-> Sent(kept[p].antibot, new[p].antibot, row.antibot),
   blocks  |-> Sent(kept[p].blocks,  new[p].blocks,  row.blocks)]

-----------------------------------------------------------------------------
(* A fetch job.                                                            *)

ResolvePolicy(w) ==
  /\ Begins
  /\ exists
  /\ Step(w, "idle", "fetching")
  /\ kept' = [kept EXCEPT ![w] = row]
  /\ UNCHANGED <<row, exists, lock, new, blocked, peak>>

\* The ladder starts at the engine the row asks for, or at the tier it has learned.
FirstTier(policy) ==
  IF PolicyEngine # "httpx" THEN EngineTier(PolicyEngine)
  ELSE MinOf(initial_tier([escalation_tier |-> policy.tier, antibot_type |-> policy.antibot]),
             effective_max_tier(EnablePremium))

UsableTiers(policy) ==
  FirstTier(policy) .. MaxOf(FirstTier(policy), effective_max_tier(EnablePremium))

\* Faulty variant: a lock set by the operator is not looked at.
Learned_IgnoresPin(policy, b, tier_used, vendor) ==
  [policy EXCEPT
     !.antibot = IF vendor # None THEN vendor ELSE @,
     !.tier = IF b THEN MaxOf(tier_used, @) ELSE MaxOf(tier_used, @ - 1),
     !.blocks = IF b THEN @ + 1 ELSE 0]

\* Faulty variant: a block is taken to ask for the tier above.
Learned_Overshoots(policy, b, tier_used, vendor) ==
  [policy EXCEPT
     !.antibot = IF vendor # None THEN vendor ELSE @,
     !.tier = IF policy.locked THEN @
              ELSE IF b THEN MaxOf(tier_used + 1, @) ELSE MaxOf(tier_used, @ - 1),
     !.blocks = IF b THEN @ + 1 ELSE 0]

\* What record_outcome makes of the row it holds.
Learned(policy, b, tier_used, vendor) ==
  [policy EXCEPT
     !.antibot = IF vendor # None THEN vendor ELSE @,
     !.tier = IF policy.locked THEN @
              ELSE IF b THEN MaxOf(tier_used, @) ELSE MaxOf(tier_used, @ - 1),
     !.blocks = IF b THEN @ + 1 ELSE 0]

\* fetch_with_retry returned a result: what it teaches depends on the kept object only.
Fetched(w) ==
  /\ Step(w, "fetching", "fetched")
  /\ \E b \in BOOLEAN, t \in UsableTiers(kept[w]), v \in Detected :
       /\ new' = [new EXCEPT ![w] = Learned(kept[w], b, t, v)]
       /\ blocked' = [blocked EXCEPT ![w] = b]
       /\ peak' = MaxOf(peak, t)
  /\ UNCHANGED <<row, exists, lock, kept, ops>>

SelectForUpdate(w) ==
  /\ exists
  /\ lock = NoOne
  /\ Step(w, "fetched", "writing")
  /\ lock' = w
  /\ UNCHANGED <<row, exists, kept, new, blocked, peak, ops>>

\* The row is locked by somebody else, or gone: the outcome is dropped.
SkipLocked(w) ==
  /\ ~exists \/ lock # NoOne
  /\ Step(w, "fetched", "idle")
  /\ UNCHANGED <<row, exists, lock, kept, new, blocked, peak, ops>>

Commit(w) ==
  /\ Step(w, "writing", "idle")
  /\ row' = Updated(w)
  /\ lock' = NoOne
  /\ UNCHANGED <<exists, kept, new, blocked, peak, ops>>

\* The fetch raised, the job was cancelled, or the database failed.  The connection
\* gives its lock back.
Rollback(p) ==
  /\ at[p] # "idle"
  /\ at' = [at EXCEPT ![p] = "idle"]
  /\ lock' = IF lock = p THEN NoOne ELSE lock
  /\ UNCHANGED <<row, exists, kept, new, blocked, peak, ops>>

-----------------------------------------------------------------------------
(* The admin endpoints.                                                    *)

\* pin_escalation_tier and update_domain_policy read the row without locking it and set
\* the columns asked for; the others stay, and antibot_type cannot be emptied.
AdminReads(a) ==
  /\ Begins
  /\ exists
  /\ Step(a, "idle", "read")
  /\ kept' = [kept EXCEPT ![a] = row]
  /\ \E t \in TierInputs \cup {row.tier}, locked \in BOOLEAN,
       v \in (Detected \ {None}) \cup {row.antibot} :
       /\ new' = [new EXCEPT ![a] = [row EXCEPT !.tier = t, !.locked = locked, !.antibot = v]]
       /\ peak' = MaxOf(peak, t)
  /\ UNCHANGED <<row, exists, lock, blocked>>

\* create_domain_policy replaces the configured columns of the row, or inserts it: tier,
\* lock and antibot_type are the ones of the request, the learned counter stays.
AdminUpserts(a) ==
  /\ Begins
  /\ lock = NoOne
  /\ at[a] = "idle"
  /\ \E t \in TierInputs, locked \in BOOLEAN, v \in Detected \cup {None} :
       /\ row' = [(IF exists THEN row ELSE Fresh)
                    EXCEPT !.tier = t, !.locked = locked, !.antibot = v]
       /\ peak' = MaxOf(peak, t)
  /\ exists' = TRUE
  /\ UNCHANGED <<lock, at, kept, new, blocked>>

\* The UPDATE waits for the row lock; of a row that is gone it fails.
AdminUpdates(a) ==
  /\ exists
  /\ lock = NoOne
  /\ Step(a, "read", "updated")
  /\ lock' = a
  /\ UNCHANGED <<row, exists, kept, new, blocked, peak, ops>>

AdminCommits(a) ==
  /\ Step(a, "updated", "idle")
  /\ row' = Updated(a)
  /\ lock' = NoOne
  /\ UNCHANGED <<exists, kept, new, blocked, peak, ops>>

AdminDeletes(a) ==
  /\ Begins
  /\ exists
  /\ lock = NoOne
  /\ at[a] = "idle"
  /\ exists' = FALSE
  /\ UNCHANGED <<row, lock, at, kept, new, blocked, peak>>

Job(w)   == Fetched(w) \/ SelectForUpdate(w) \/ SkipLocked(w) \/ Commit(w)
Admin(a) == AdminReads(a) \/ AdminUpserts(a) \/ AdminUpdates(a) \/ AdminCommits(a)
              \/ AdminDeletes(a)

LearnerNext ==
  \/ \E w \in Workers : ResolvePolicy(w) \/ Job(w)
  \/ \E a \in Admins : Admin(a)
  \/ \E p \in Procs : Rollback(p)

\* The event loop and the database answer; fetches have timeouts.
LearnerSpec ==
  /\ LearnerInit /\ [][LearnerNext]_learnerVars
  /\ \A w \in Workers : WF_learnerVars(Job(w))
  /\ \A a \in Admins : WF_learnerVars(AdminCommits(a) \/ Rollback(a))

-----------------------------------------------------------------------------
(* Properties.                                                             *)

\* Type correctness: every variable stays in the range that its declaration describes.
LearnerTypeOK ==
  /\ row \in Row
  /\ exists \in BOOLEAN
  /\ lock \in Procs \cup {NoOne}
  /\ at \in [Procs -> {"idle", "fetching", "fetched", "writing", "read", "updated"}]
  /\ kept \in [Procs -> Row]
  /\ new \in [Procs -> Row]
  /\ blocked \in [Workers -> BOOLEAN]
  /\ peak \in Tiers
  /\ ops \in 0 .. MaxOps

\* However stale the objects are that jobs learn from, the row never asks for a tier
\* above every tier that was really used or set, so it costs no more than was tried.
TierHasEvidence == row.tier <= peak

\* Commit of job w.
Writes(w) == at[w] = "writing" /\ at'[w] = "idle" /\ row' = Updated(w)

\* A job whose object is still what the row holds teaches it the right thing, with any
\* pins, skips, deletions and other jobs before: a pinned tier stays; a success steps
\* down by at most one tier and clears the blocks; a block never steps down.
FreshOutcomeIsLearned ==
  [][\A w \in Workers : Writes(w) /\ kept[w] = row =>
       /\ row.locked => row'.tier = row.tier
       /\ row'.tier >= (IF blocked[w] THEN row.tier ELSE row.tier - 1)
       /\ row'.blocks = (IF blocked[w] THEN row.blocks + 1 ELSE 0)]_learnerVars

=============================================================================
