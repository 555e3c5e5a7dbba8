----------------------------- MODULE FetchRetry -----------------------------
(***************************************************************************)
(* fetch_with_retry of app/services/fetchers/base.py: one call, from its   *)
(* resolved settings to the value it returns or the exception it raises.   *)
(*                                                                         *)
(* The loop is a coroutine whose locals nobody else touches, so one action *)
(* is one stretch of the loop: picking the proxy, or the answer of the     *)
(* fetcher with everything the code then does about it.  What the other    *)
(* jobs do to the proxy pool meanwhile (cooldowns, breaker, deactivation)  *)
(* is the choice of the proxy that get_proxy returns, None included.       *)
(***************************************************************************)
EXTENDS Escalation

CONSTANTS
  Proxies,          \* the rows of the proxies table
  ProxyTypeOf,      \* the proxy_type column
  NoProxy,          \* a direct connection, and "no sticky pin"
  Reasons,          \* the block reasons the detector may report
  Calls,            \* the settings a call may have, a subset of CallSettings
  MaxAttempts,      \* policy.max_escalation_attempts or 12
  AttemptsPerTier   \* policy.max_retries or MAX_ATTEMPTS_PER_TIER

\* Optional booleans: None, True, False.
Tristate == {"unset", "true", "false"}

Policy == [escalation_tier : Tiers, antibot_type : Vendors \cup {None},
           use_proxy : Tristate, proxy_type : ProxyTypes \cup {None}]

\* What every read of a missing policy yields.
NoPolicy == [escalation_tier |-> 0, antibot_type |-> None,
             use_proxy |-> "unset", proxy_type |-> None]

CallSettings ==
  [requested_engine : {None, "curl_cffi", "playwright", "camoufox"},
   use_proxy        : Tristate,
   proxy_type       : ProxyTypes \cup {None},
   policy           : Policy,
   sticky           : Proxies \cup {NoProxy},   \* the pin found for the sticky key
   enable_premium   : BOOLEAN]

ASSUME ProxyAssumption ==
  /\ NoProxy \notin Proxies
  /\ ProxyTypeOf \in [Proxies -> ProxyTypes]

ASSUME CallAssumption ==
  /\ Reasons \subseteq DetectedReasons
  /\ Calls \subseteq CallSettings
  /\ MaxAttempts \in Nat \ {0}
  /\ AttemptsPerTier \in Nat \ {0}

VARIABLES
  call,             \* the settings of this call
  pc,               \* "loop", "fetching", "done"
  tier,             \* esc.tier
  attempts_at_tier, \* esc.attempts_at_tier
  total_attempts,
  failed,           \* failed_proxy_ids
  proxy,            \* the proxy of the current attempt
  last_result,      \* the reason of the last blocked result, None if there is none
  last_error,       \* whether last_error is set
  outcome,          \* what the call returned or raised
  burned            \* history: per tier, the proxies that failed there

locals == <<tier, attempts_at_tier, total_attempts, failed, proxy>>
vars   == <<call, pc, tier, attempts_at_tier, total_attempts, failed, proxy,
            last_result, last_error, outcome, burned>>

Outcomes == {"pending", "success", "blocked", "fetch_error",
             "pool_exhausted", "pool_unavailable", "error"}

max_tier == effective_max_tier(call.enable_premium)

start_tier ==
  IF call.requested_engine # None
  THEN EngineTier(call.requested_engine)
  ELSE MinOf(initial_tier(call.policy), max_tier)

Init ==
  /\ call \in Calls
  /\ pc = "loop"
  /\ tier = start_tier
  /\ attempts_at_tier = 0
  /\ total_attempts = 0
  /\ failed = {}
  /\ proxy = NoProxy
  /\ last_result = None
  /\ last_error = FALSE
  /\ outcome = "pending"
  /\ burned = [t \in Tiers |-> {}]

-----------------------------------------------------------------------------
(* The settings of one attempt.                                            *)

EngineRequested == /\ call.requested_engine # None
                   /\ TierDef(tier).engine = call.requested_engine

\* An explicitly requested engine runs above the premium gate, without proxy.
BypassesGate == tier > max_tier /\ EngineRequested

\* Where the loop would give up because of the gate (never reached, see below).
GateHit == tier > max_tier /\ ~EngineRequested

tier_use_proxy ==
  \/ call.use_proxy = "true"
  \/ /\ call.use_proxy = "unset"
     /\ ~BypassesGate
     /\ TierDef(tier).use_proxy \/ call.policy.use_proxy = "true"

tier_proxy_type ==
  IF call.proxy_type # None THEN call.proxy_type
  ELSE IF BypassesGate THEN None
  ELSE IF TierDef(tier).proxy_type # None THEN TierDef(tier).proxy_type
  ELSE call.policy.proxy_type

\* What get_proxy may return: the sticky pin on the first attempt, whatever its
\* type, or any proxy of the wanted type that has not failed at this tier.
Selectable ==
  {p \in Proxies \ failed : tier_proxy_type = None \/ ProxyTypeOf[p] = tier_proxy_type}
    \cup (IF total_attempts = 0 THEN {call.sticky} \ {NoProxy} ELSE {})

-----------------------------------------------------------------------------
(* How an iteration ends.                                                  *)

Return(o) == pc' = "done" /\ outcome' = o
Continue  == pc' = "loop" /\ UNCHANGED outcome

\* Sleep and go round again, or give up with o once n attempts reach the ceiling.
RetryOr(n, o) == IF n < MaxAttempts THEN Continue ELSE Return(o)

\* The proxy of a proxied attempt.
Used == {proxy} \ {NoProxy}

\* The loop condition fails: FetchError(str(last_error)).
LoopExit ==
  /\ pc = "loop"
  /\ total_attempts >= MaxAttempts
  /\ Return("fetch_error")
  /\ UNCHANGED <<call, locals, last_result, last_error, burned>>

BeginAttempt_Uncounted ==
  pc = "loop" /\ total_attempts < MaxAttempts /\ total_attempts' = total_attempts

BeginAttempt == pc = "loop" /\ total_attempts < MaxAttempts /\ total_attempts' = total_attempts + 1

\* get_proxy returns a proxy, or the tier connects directly.
PickProxy ==
  /\ BeginAttempt
  /\ IF tier_use_proxy THEN proxy' \in Selectable ELSE proxy' = NoProxy
  /\ pc' = "fetching"
  /\ UNCHANGED <<call, tier, attempts_at_tier, failed, last_result, last_error, outcome, burned>>

\* get_proxy returns None: the pool error is raised to the caller at once.
NoProxyLeft ==
  /\ BeginAttempt
  /\ tier_use_proxy
  /\ proxy' = NoProxy
  /\ Return(IF failed # {} THEN "pool_exhausted" ELSE "pool_unavailable")
  /\ UNCHANGED <<call, tier, attempts_at_tier, failed, last_result, last_error, burned>>

\* get_proxy raises (the database is unreachable): the generic handler.
PickRaises ==
  /\ BeginAttempt
  /\ tier_use_proxy
  /\ proxy' = NoProxy
  /\ last_error' = TRUE
  /\ RetryOr(total_attempts + 1, "fetch_error")
  /\ UNCHANGED <<call, tier, attempts_at_tier, failed, last_result, burned>>

-----------------------------------------------------------------------------
(* The fetcher answers.                                                    *)

\* Faulty variant: the last rung below the gate is never tried.
CanClimb_OneShort == HasNextTier(tier) /\ next_tier(tier) < max_tier

CanClimb == HasNextTier(tier) /\ next_tier(tier) <= max_tier

\* Faulty variant: the attempts made at the old tier count at the new one.
Climb_KeepsCount ==
  tier' = next_tier(tier) /\ attempts_at_tier' = attempts_at_tier + 1 /\ Continue

\* The next tier with a fresh fetcher, at once and without a sleep.
Climb == tier' = next_tier(tier) /\ attempts_at_tier' = 0 /\ Continue

\* Faulty variant: a blocked proxy is not remembered.
Stay_ForgetsProxy ==
  UNCHANGED <<tier, failed>> /\ attempts_at_tier' = attempts_at_tier + 1

\* The same tier; the proxy of this attempt is not picked again.
Stay ==
  /\ UNCHANGED tier
  /\ attempts_at_tier' = attempts_at_tier + 1
  /\ failed' = failed \cup Used

\* Faulty variant: the bans of the old tier are kept.
BansAfterClimb_Kept(spent) == failed \cup Used

\* Bans of the tier that was left do not count at the next one.  (A direct
\* connection climbs without this: it has banned nobody.)
BansAfterClimb(spent) == IF spent THEN {} ELSE failed

\* A block climbs when escalatable blocks used up the tier (the exclusions are
\* then cleared), or when it hit a direct connection and no proxy was forced.
Blocked(reason) ==
  LET spent  == attempts_at_tier + 1 >= AttemptsPerTier /\ is_escalatable(reason)
      direct == proxy = NoProxy /\ call.use_proxy # "true"
  IN
  /\ pc = "fetching"
  /\ last_result' = reason
  /\ burned' = [burned EXCEPT ![tier] = @ \cup Used]
  /\ \/ (spent \/ direct) /\ CanClimb /\ Climb /\ failed' = BansAfterClimb(spent)
     \/ (spent \/ direct) /\ ~CanClimb /\ Stay /\ Return("blocked")
     \/ ~spent /\ ~direct /\ Stay /\ RetryOr(total_attempts, "blocked")
  /\ UNCHANGED <<call, total_attempts, proxy, last_error>>

\* report_result raises after a blocked answer: the generic handler retries.
BlockedReportFails(reason) ==
  /\ pc = "fetching"
  /\ proxy # NoProxy
  /\ last_result' = reason
  /\ Stay
  /\ burned' = [burned EXCEPT ![tier] = @ \cup Used]
  /\ last_error' = TRUE
  /\ RetryOr(total_attempts, "fetch_error")
  /\ UNCHANGED <<call, total_attempts, proxy>>

Success ==
  /\ pc = "fetching"
  /\ Return("success")
  /\ UNCHANGED <<call, locals, last_result, last_error, burned>>

\* The fetcher raises (FetchError is reported, anything else is not), or
\* report_result raises after a good answer: excluded proxy, next attempt.
AttemptRaises ==
  /\ pc = "fetching"
  /\ last_error' = TRUE
  /\ failed' = failed \cup Used
  /\ burned' = [burned EXCEPT ![tier] = @ \cup Used]
  /\ RetryOr(total_attempts, "fetch_error")
  /\ UNCHANGED <<call, tier, attempts_at_tier, total_attempts, proxy, last_result>>

\* A FetchError, and report_result raises inside its handler: that error escapes.
RaisesAndReportFails ==
  /\ pc = "fetching"
  /\ proxy # NoProxy
  /\ last_error' = TRUE
  /\ Return("error")
  /\ UNCHANGED <<call, locals, last_result, burned>>

Next ==
  \/ LoopExit
  \/ PickProxy
  \/ NoProxyLeft
  \/ PickRaises
  \/ \E reason \in Reasons : Blocked(reason) \/ BlockedReportFails(reason)
  \/ Success
  \/ AttemptRaises
  \/ RaisesAndReportFails

\* Every await of the loop is bounded by a timeout, so the call never stops by itself.
Spec == Init /\ [][Next]_vars /\ WF_vars(Next)
-----------------------------------------------------------------------------
(* Properties.                                                             *)

\* Type correctness: every variable stays in the range that its declaration describes.
TypeOK ==
  /\ call \in Calls
  /\ pc \in {"loop", "fetching", "done"}
  /\ tier \in Tiers
  /\ attempts_at_tier \in 0 .. total_attempts
  /\ total_attempts \in 0 .. MaxAttempts
  /\ failed \subseteq Proxies
  /\ proxy \in Proxies \cup {NoProxy}
  /\ last_result \in Reasons \cup {None}
  /\ last_error \in BOOLEAN
  /\ outcome \in Outcomes
  /\ pc = "done" <=> outcome # "pending"
  /\ burned \in [Tiers -> SUBSET Proxies]

\* failed_proxy_ids, which the code clears on only one of its two climbing paths, is
\* always exactly the set of proxies that failed at the current tier: none of an
\* earlier tier lingers in it, and none that failed at this tier is forgotten.
ExclusionsAreThisTiers == failed = burned[tier]

\* A proxy that was blocked or raised at a tier is not used again at that tier,
\* whatever mixture of blocks, errors and sticky pins led there.
BurnedProxyNotReused == pc = "fetching" => proxy \notin burned[tier]

\* The branch that gives up at the premium gate is dead code: the loop never
\* starts an iteration above max_tier except for the engine that was asked for.
GateBranchUnreachable == pc = "loop" => ~GateHit

\* With the premium gate off, a residential or mobile proxy is only ever used when
\* the caller or the sticky pin named it, when the policy row names it at tier 0, or
\* when the attempt filters on no type at all.
PremiumUseExplained ==
  (pc = "fetching" /\ proxy # NoProxy /\ ~call.enable_premium) =>
    \/ ProxyTypeOf[proxy] \notin Premium
    \/ call.proxy_type = ProxyTypeOf[proxy]
    \/ call.sticky = proxy /\ total_attempts = 1
    \/ tier = 0 /\ call.policy.proxy_type = ProxyTypeOf[proxy]
    \/ tier_proxy_type = None

\* max_retries is the price of a rung: when the caller forces a proxy, every rung
\* climbed cost AttemptsPerTier blocked attempts, besides those at the current one.
EveryRungIsPaidFor ==
  /\ tier >= start_tier
  /\ total_attempts >= tier - start_tier
  /\ call.use_proxy = "true" =>
       total_attempts >= AttemptsPerTier * (tier - start_tier) + attempts_at_tier

\* A blocked page is handed back only when nothing is left to try: the attempt
\* ceiling is reached or the reachable ladder has no further rung.
BlockedOnlyWhenSpent ==
  outcome = "blocked" => /\ last_result # None
                         /\ total_attempts = MaxAttempts \/ tier >= max_tier

\* PROXY_POOL_EXHAUSTED tells the client that proxies of this tier were tried and
\* failed, PROXY_POOL_EMPTY that none was.
PoolErrorIsAccurate ==
  /\ outcome = "pool_exhausted"   => burned[tier] # {}
  /\ outcome = "pool_unavailable" => burned[tier] = {}

\* The call returns or raises: no mixture of answers keeps the loop going for ever.
CallTerminates == <>(pc = "done")

=============================================================================
