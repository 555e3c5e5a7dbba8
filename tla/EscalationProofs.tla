-------------------------- MODULE EscalationProofs --------------------------
(***************************************************************************)
(* The climb of a fetch and what is learned of it: FetchRetry, for every   *)
(* pool of proxies, every attempt ceiling, every per-tier cap and every    *)
(* set of call settings, and PolicyLearner, for any number of workers,     *)
(* admins and operations.  The two share the ladder and nothing else.      *)
(***************************************************************************)
EXTENDS FetchRetry, PolicyLearner, TLAPS

\* The seven rungs, spelled out for the provers.
LEMMA LadderLength == Len(LADDER) = 7
  BY DEF LADDER

LEMMA Rungs ==
  /\ TierDef(0) = Rung("httpx", None)
  /\ TierDef(1) = Rung("httpx", "datacenter")
  /\ TierDef(2) = Rung("curl_cffi", "datacenter")
  /\ TierDef(3) = Rung("curl_cffi", "residential")
  /\ TierDef(4) = Rung("playwright", "residential")
  /\ TierDef(5) = Rung("camoufox", "residential")
  /\ TierDef(6) = Rung("camoufox", "mobile")
  BY DEF TierDef, LADDER

\* The first premium tier is tier 3, so the free ladder ends at tier 2.
LEMMA FirstPremium == FIRST_PREMIUM_TIER = 3
  <1> DEFINE P(t) == /\ TierDef(t).proxy_type \in Premium
                     /\ \A u \in 0 .. (t - 1) : TierDef(u).proxy_type \notin Premium
  <1>1. P(3)
    BY Rungs DEF Rung, Premium, None
  <1>2. \A t \in Tiers : P(t) => t = 3
    BY Rungs DEF Rung, Premium, None, Tiers
  <1>3. 3 \in Tiers
    BY DEF Tiers
  <1> QED
    BY <1>1, <1>2, <1>3 DEF FIRST_PREMIUM_TIER

LEMMA MaxTierValue ==
  /\ effective_max_tier(TRUE) = 6
  /\ effective_max_tier(FALSE) = 2
  BY FirstPremium, LadderLength DEF effective_max_tier

\* The engine tiers: the rung chosen for a requested engine runs that engine.
LEMMA EngineTierRuns ==
  ASSUME NEW e \in {"curl_cffi", "playwright", "camoufox"}
  PROVE  EngineTier(e) \in Tiers /\ TierDef(EngineTier(e)).engine = e
  <1> DEFINE P(t) == /\ TierDef(t).engine = e
                     /\ \A u \in 0 .. (t - 1) : TierDef(u).engine # e
  <1>1. \E t \in Tiers : P(t)
    <2>1. CASE e = "curl_cffi"
      <3>1. P(2) BY <2>1, Rungs DEF Rung
      <3> QED BY <3>1 DEF Tiers
    <2>2. CASE e = "playwright"
      <3>1. P(4) BY <2>2, Rungs DEF Rung
      <3> QED BY <3>1 DEF Tiers
    <2>3. CASE e = "camoufox"
      <3>1. P(5) BY <2>3, Rungs DEF Rung
      <3> QED BY <3>1 DEF Tiers
    <2> QED BY <2>1, <2>2, <2>3
  <1> QED
    BY <1>1 DEF EngineTier

\* What a call's settings give: its bounds on the ladder.
LEMMA SettingsBounds ==
  ASSUME call \in Calls
  PROVE  /\ max_tier \in Tiers
         /\ start_tier \in Tiers
         /\ start_tier > max_tier =>
              call.requested_engine # None /\ TierDef(start_tier).engine = call.requested_engine
  <1>1. call \in CallSettings
    BY CallAssumption
  <1>2. max_tier \in {2, 6}
    BY <1>1, MaxTierValue DEF CallSettings, max_tier
  <1>3. CASE call.requested_engine # None
    <2>1. call.requested_engine \in {"curl_cffi", "playwright", "camoufox"}
      BY <1>1, <1>3 DEF CallSettings
    <2> QED
      BY <1>2, <1>3, <2>1, EngineTierRuns DEF start_tier, Tiers
  <1>4. CASE call.requested_engine = None
    <2>1. call.policy \in Policy
      BY <1>1 DEF CallSettings
    <2>2. call.policy.escalation_tier \in Tiers
      BY <2>1 DEF Policy
    <2>3. \A v \in Vendors : ANTIBOT_FLOOR[v] \in Tiers
      BY DEF ANTIBOT_FLOOR, Vendors, Tiers
    <2>4. initial_tier(call.policy) \in Tiers
      BY <2>2, <2>3 DEF initial_tier, MaxOf, Tiers
    <2> QED
      BY <1>2, <1>4, <2>4 DEF start_tier, MinOf, Tiers
  <1> QED
    BY <1>2, <1>3, <1>4 DEF Tiers

-----------------------------------------------------------------------------
(***************************************************************************)
(* The inductive invariant.  TypeOK bounds attempts_at_tier by the attempts *)
(* made so far, which a blocked answer preserves only because the current   *)
(* attempt is already counted; the exclusions equal the burned proxies only *)
(* because nothing has burned above the current tier and because a direct   *)
(* tier, which climbs without clearing them, has none.                      *)
(***************************************************************************)
AttemptInFlight ==
  pc = "fetching" => /\ attempts_at_tier < total_attempts
                     /\ proxy \notin failed
                     /\ proxy # NoProxy <=> tier_use_proxy

BansAreLocal ==
  /\ failed = burned[tier]
  /\ \A t \in Tiers : t > tier => burned[t] = {}
  /\ ~tier_use_proxy => failed = {}
  /\ total_attempts = 0 => failed = {}

WithinReach ==
  /\ tier >= start_tier
  /\ tier > max_tier => tier = start_tier

IInv == TypeOK /\ AttemptInFlight /\ BansAreLocal /\ WithinReach

\* The derived settings only depend on the call and the tier.
LEMMA SettingsStable ==
  ASSUME call' = call
  PROVE  /\ max_tier' = max_tier
         /\ start_tier' = start_tier
         /\ tier' = tier => tier_use_proxy' = tier_use_proxy
  BY DEF max_tier, start_tier, tier_use_proxy, BypassesGate, EngineRequested

LEMMA InitIInv == Init => IInv
  <1> SUFFICES ASSUME Init PROVE IInv
    OBVIOUS
  <1>1. call \in Calls
    BY DEF Init
  <1>2. start_tier \in Tiers /\ max_tier \in Tiers
    BY <1>1, SettingsBounds
  <1>3. TypeOK
    <2>1. burned \in [Tiers -> SUBSET Proxies]
      BY DEF Init
    <2>2. total_attempts \in 0 .. MaxAttempts /\ attempts_at_tier \in 0 .. total_attempts
      BY CallAssumption DEF Init
    <2> QED
      BY <1>1, <1>2, <2>1, <2>2 DEF Init, TypeOK, Outcomes
  <1>4. AttemptInFlight
    BY DEF Init, AttemptInFlight
  <1>5. BansAreLocal
    BY <1>2 DEF Init, BansAreLocal
  <1>6. WithinReach
    BY <1>2 DEF Init, WithinReach, Tiers
  <1> QED
    BY <1>3, <1>4, <1>5, <1>6 DEF IInv

LEMMA NextIInv == IInv /\ [Next]_vars => IInv'
  <1> SUFFICES ASSUME IInv, [Next]_vars PROVE IInv'
    OBVIOUS
  <1> USE DEF IInv
  <1>a. call \in Calls /\ call \in CallSettings
    BY CallAssumption DEF TypeOK
  <1>b. max_tier \in Tiers /\ start_tier \in Tiers
    BY <1>a, SettingsBounds
  <1>c. MaxAttempts \in Nat /\ AttemptsPerTier \in Nat
    BY CallAssumption
  <1>1. CASE LoopExit
    <2>1. tier_use_proxy' = tier_use_proxy /\ max_tier' = max_tier /\ start_tier' = start_tier
      BY <1>1, SettingsStable DEF LoopExit, locals
    <2>2. TypeOK'
      BY <1>1 DEF TypeOK, LoopExit, Return, locals, Outcomes
    <2> QED
      BY <1>1, <2>1, <2>2 DEF LoopExit, Return, locals, AttemptInFlight, BansAreLocal, WithinReach
  <1>2. CASE PickProxy
    <2>1. tier_use_proxy' = tier_use_proxy /\ max_tier' = max_tier /\ start_tier' = start_tier
      BY <1>2, SettingsStable DEF PickProxy
    <2>2. proxy' \in Proxies \cup {NoProxy} /\ proxy' \notin failed /\ (proxy' # NoProxy <=> tier_use_proxy)
      <3>1. CASE tier_use_proxy
        <4>1. proxy' \in Selectable
          BY <1>2, <3>1 DEF PickProxy
        <4>2. call.sticky \in Proxies \cup {NoProxy}
          BY <1>a DEF CallSettings
        <4>3. proxy' \in Proxies /\ proxy' \notin failed
          BY <4>1, <4>2 DEF Selectable, BansAreLocal
        <4> QED
          BY <3>1, <4>3, ProxyAssumption
      <3>2. CASE ~tier_use_proxy
        BY <1>2, <3>2, ProxyAssumption DEF PickProxy, TypeOK
      <3> QED BY <3>1, <3>2
    <2>3. TypeOK'
      BY <1>2, <1>c, <2>2 DEF TypeOK, PickProxy, BeginAttempt, Outcomes
    <2>4. AttemptInFlight'
      BY <1>2, <2>1, <2>2 DEF TypeOK, PickProxy, BeginAttempt, AttemptInFlight
    <2> QED
      BY <1>2, <2>1, <2>3, <2>4 DEF TypeOK, PickProxy, BeginAttempt, BansAreLocal, WithinReach
  <1>3. CASE NoProxyLeft
    <2>1. tier_use_proxy' = tier_use_proxy /\ max_tier' = max_tier /\ start_tier' = start_tier
      BY <1>3, SettingsStable DEF NoProxyLeft
    <2>2. TypeOK'
      BY <1>3, <1>c DEF TypeOK, NoProxyLeft, BeginAttempt, Return, Outcomes
    <2> QED
      BY <1>3, <2>1, <2>2 DEF TypeOK, NoProxyLeft, BeginAttempt, Return, AttemptInFlight,
           BansAreLocal, WithinReach
  <1>4. CASE PickRaises
    <2>1. tier_use_proxy' = tier_use_proxy /\ max_tier' = max_tier /\ start_tier' = start_tier
      BY <1>4, SettingsStable DEF PickRaises
    <2>2. TypeOK'
      BY <1>4, <1>c DEF TypeOK, PickRaises, BeginAttempt, RetryOr, Continue, Return, Outcomes
    <2> QED
      BY <1>4, <2>1, <2>2 DEF TypeOK, PickRaises, BeginAttempt, RetryOr, Continue, Return,
           AttemptInFlight, BansAreLocal, WithinReach
  <1>5. ASSUME NEW reason \in Reasons, Blocked(reason)
        PROVE  IInv'
    <2> DEFINE spent  == attempts_at_tier + 1 >= AttemptsPerTier /\ is_escalatable(reason)
               direct == proxy = NoProxy /\ call.use_proxy # "true"
    <2>1. /\ pc = "fetching" /\ last_result' = reason
          /\ burned' = [burned EXCEPT ![tier] = @ \cup Used]
          /\ UNCHANGED <<call, total_attempts, proxy, last_error>>
      BY <1>5 DEF Blocked
    <2>2. max_tier' = max_tier /\ start_tier' = start_tier /\ (tier' = tier => tier_use_proxy' = tier_use_proxy)
      BY <2>1, SettingsStable
    <2>3. Used \subseteq Proxies /\ Used \in SUBSET Proxies
      BY DEF Used, TypeOK
    <2>4. tier \in Tiers /\ attempts_at_tier + 1 \in 0 .. total_attempts
      BY <2>1 DEF TypeOK, AttemptInFlight
    <2>5. CASE (spent \/ direct) /\ CanClimb /\ Climb /\ failed' = BansAfterClimb(spent)
      <3>1. tier' = tier + 1 /\ tier' \in Tiers /\ tier' <= max_tier
        BY <2>5, <2>4, LadderLength DEF CanClimb, Climb, HasNextTier, next_tier, Tiers
      <3>2. failed' = {}
        <4>1. CASE spent
          BY <2>5, <4>1 DEF BansAfterClimb
        <4>2. CASE ~spent
          <5>1. ~tier_use_proxy
            BY <2>1, <2>5, <4>2 DEF AttemptInFlight
          <5> QED
            BY <2>5, <4>2, <5>1 DEF BansAfterClimb, BansAreLocal
        <4> QED BY <4>1, <4>2
      <3>3. TypeOK'
        BY <2>1, <2>3, <2>4, <2>5, <3>1, <3>2 DEF TypeOK, Climb, Continue
      <3>4. BansAreLocal'
        BY <2>1, <2>4, <3>1, <3>2 DEF BansAreLocal, TypeOK, Tiers
      <3>5. WithinReach'
        BY <1>b, <2>2, <2>4, <3>1 DEF WithinReach, Tiers
      <3>6. AttemptInFlight'
        BY <2>5 DEF AttemptInFlight, Climb, Continue
      <3> QED BY <3>3, <3>4, <3>5, <3>6
    <2>6. CASE Stay /\ (Return("blocked") \/ RetryOr(total_attempts, "blocked"))
      <3>1. TypeOK'
        BY <2>1, <2>3, <2>4, <2>6 DEF TypeOK, Stay, RetryOr, Return, Continue, Outcomes
      <3>2. BansAreLocal'
        BY <2>1, <2>2, <2>4, <2>6 DEF BansAreLocal, TypeOK, Stay, Used, AttemptInFlight, Tiers
      <3>3. WithinReach'
        BY <2>2, <2>6 DEF WithinReach, Stay
      <3>4. AttemptInFlight'
        BY <2>6 DEF AttemptInFlight, RetryOr, Return, Continue
      <3> QED BY <3>1, <3>2, <3>3, <3>4
    <2> QED
      BY <1>5, <2>5, <2>6 DEF Blocked
  <1>6. ASSUME NEW reason \in Reasons, BlockedReportFails(reason)
        PROVE  IInv'
    <2>1. max_tier' = max_tier /\ start_tier' = start_tier /\ tier_use_proxy' = tier_use_proxy
      BY <1>6, SettingsStable DEF BlockedReportFails, Stay
    <2>2. tier \in Tiers /\ attempts_at_tier + 1 \in 0 .. total_attempts /\ Used \subseteq Proxies
      BY <1>6 DEF TypeOK, AttemptInFlight, BlockedReportFails, Used
    <2>3. TypeOK'
      BY <1>6, <2>2 DEF TypeOK, BlockedReportFails, Stay, RetryOr, Return, Continue, Outcomes
    <2>4. BansAreLocal'
      BY <1>6, <2>1, <2>2 DEF BansAreLocal, TypeOK, BlockedReportFails, Stay, Used, AttemptInFlight, Tiers
    <2>5. WithinReach' /\ AttemptInFlight'
      BY <1>6, <2>1 DEF WithinReach, AttemptInFlight, BlockedReportFails, Stay, RetryOr, Return, Continue
    <2> QED BY <2>3, <2>4, <2>5
  <1>7. CASE Success
    <2>1. tier_use_proxy' = tier_use_proxy /\ max_tier' = max_tier /\ start_tier' = start_tier
      BY <1>7, SettingsStable DEF Success, locals
    <2>2. TypeOK'
      BY <1>7 DEF TypeOK, Success, Return, locals, Outcomes
    <2> QED
      BY <1>7, <2>1, <2>2 DEF Success, Return, locals, AttemptInFlight, BansAreLocal, WithinReach
  <1>8. CASE AttemptRaises
    <2>1. max_tier' = max_tier /\ start_tier' = start_tier /\ tier_use_proxy' = tier_use_proxy
      BY <1>8, SettingsStable DEF AttemptRaises
    <2>2. tier \in Tiers /\ Used \subseteq Proxies
      BY DEF TypeOK, Used
    <2>3. TypeOK'
      BY <1>8, <2>2 DEF TypeOK, AttemptRaises, RetryOr, Return, Continue, Outcomes
    <2>4. BansAreLocal'
      BY <1>8, <2>1, <2>2 DEF BansAreLocal, TypeOK, AttemptRaises, Used, AttemptInFlight, Tiers
    <2>5. WithinReach' /\ AttemptInFlight'
      BY <1>8, <2>1 DEF WithinReach, AttemptInFlight, AttemptRaises, RetryOr, Return, Continue
    <2> QED BY <2>3, <2>4, <2>5
  <1>9. CASE RaisesAndReportFails
    <2>1. tier_use_proxy' = tier_use_proxy /\ max_tier' = max_tier /\ start_tier' = start_tier
      BY <1>9, SettingsStable DEF RaisesAndReportFails, locals
    <2>2. TypeOK'
      BY <1>9 DEF TypeOK, RaisesAndReportFails, Return, locals, Outcomes
    <2> QED
      BY <1>9, <2>1, <2>2 DEF RaisesAndReportFails, Return, locals, AttemptInFlight, BansAreLocal, WithinReach
  <1>10. CASE UNCHANGED vars
    <2>1. tier_use_proxy' = tier_use_proxy /\ max_tier' = max_tier /\ start_tier' = start_tier
      BY <1>10, SettingsStable DEF vars
    <2> QED
      BY <1>10, <2>1 DEF vars, TypeOK, AttemptInFlight, BansAreLocal, WithinReach
  <1> QED
    BY <1>1, <1>2, <1>3, <1>4, <1>5, <1>6, <1>7, <1>8, <1>9, <1>10 DEF Next

\* The inductive invariant holds throughout every call.
THEOREM Invariance == Spec => []IInv
  BY InitIInv, NextIInv, PTL DEF Spec

\* Type correctness of every call: the attempt ceiling is never exceeded, the tier
\* stays on the ladder, and the call has an outcome exactly when it has returned.
THEOREM TypeCorrect == Spec => []TypeOK
  <1>1. IInv => TypeOK
    BY DEF IInv
  <1> QED BY <1>1, Invariance, PTL

\* For any pool and any settings, failed_proxy_ids is exactly the set of proxies that
\* failed at the current tier.
THEOREM ExclusionsCorrect == Spec => []ExclusionsAreThisTiers
  <1>1. IInv => ExclusionsAreThisTiers
    BY DEF IInv, BansAreLocal, ExclusionsAreThisTiers
  <1> QED BY <1>1, Invariance, PTL

\* For any pool and any settings, no proxy is used twice at a tier where it failed.
THEOREM NoReuse == Spec => []BurnedProxyNotReused
  <1>1. IInv => BurnedProxyNotReused
    BY DEF IInv, BansAreLocal, AttemptInFlight, BurnedProxyNotReused
  <1> QED BY <1>1, Invariance, PTL

\* For any settings, the loop never reaches the branch that gives up at the gate.
THEOREM GateBranchDead == Spec => []GateBranchUnreachable
  <1>1. IInv => GateBranchUnreachable
    <2> SUFFICES ASSUME IInv, tier > max_tier PROVE EngineRequested
      BY DEF GateBranchUnreachable, GateHit
    <2>1. call \in Calls /\ tier = start_tier
      BY DEF IInv, TypeOK, WithinReach
    <2> QED
      BY <2>1, SettingsBounds DEF EngineRequested
  <1> QED BY <1>1, Invariance, PTL

\* PROXY_POOL_EXHAUSTED and PROXY_POOL_EMPTY are told apart correctly in every call.
THEOREM PoolErrorsAccurate == Spec => []PoolErrorIsAccurate
  <1> DEFINE J == PoolErrorIsAccurate /\ (pc # "done" => outcome = "pending")
  <1>1. Init => J
    BY DEF Init, PoolErrorIsAccurate
  <1>2. IInv /\ J /\ [Next]_vars => J'
    <2> SUFFICES ASSUME IInv, J, [Next]_vars PROVE J'
      OBVIOUS
    <2> USE DEF PoolErrorIsAccurate
    <2>1. CASE NoProxyLeft
      BY <2>1 DEF NoProxyLeft, Return, IInv, BansAreLocal
    <2>2. CASE LoopExit
      BY <2>2 DEF LoopExit, Return, locals
    <2>3. CASE PickProxy
      BY <2>3 DEF PickProxy, BeginAttempt
    <2>4. CASE PickRaises
      BY <2>4 DEF PickRaises, BeginAttempt, RetryOr, Return, Continue
    <2>5. ASSUME NEW reason \in Reasons, Blocked(reason) PROVE J'
      BY <2>5 DEF Blocked, Climb, Continue, Return, RetryOr
    <2>6. ASSUME NEW reason \in Reasons, BlockedReportFails(reason) PROVE J'
      BY <2>6 DEF BlockedReportFails, Continue, Return, RetryOr
    <2>7. CASE Success
      BY <2>7 DEF Success, Return
    <2>8. CASE AttemptRaises
      BY <2>8 DEF AttemptRaises, Continue, Return, RetryOr
    <2>9. CASE RaisesAndReportFails
      BY <2>9 DEF RaisesAndReportFails, Return
    <2>10. CASE UNCHANGED vars
      BY <2>10 DEF vars
    <2> QED
      BY <2>1, <2>2, <2>3, <2>4, <2>5, <2>6, <2>7, <2>8, <2>9, <2>10 DEF Next
  <1>3. J => PoolErrorIsAccurate
    OBVIOUS
  <1> QED BY <1>1, <1>2, <1>3, Invariance, PTL DEF Spec

-----------------------------------------------------------------------------
(***************************************************************************)
(* What a rung costs.  EveryRungIsPaidFor is not inductive: when a blocked  *)
(* answer climbs, the attempt that got it must already have been paid for, *)
(* so the invariant also counts the attempt in flight.                     *)
(***************************************************************************)
Climbed  == tier - start_tier
InFlight == IF pc = "fetching" THEN 1 ELSE 0

RungsPaid ==
  /\ total_attempts >= Climbed + InFlight
  /\ call.use_proxy = "true" =>
       total_attempts >= AttemptsPerTier * Climbed + attempts_at_tier + InFlight

LEMMA RungPrice ==
  ASSUME NEW k \in Nat
  PROVE  AttemptsPerTier * k \in Nat /\ AttemptsPerTier * (k + 1) = AttemptsPerTier * k + AttemptsPerTier
  BY CallAssumption

\* A step that stays on its rung and is not an attempt's beginning costs nothing more.
LEMMA SameRungPaid ==
  ASSUME IInv, RungsPaid, call' = call, tier' = tier, pc' # "fetching",
         total_attempts' \in Nat, attempts_at_tier' \in Nat,
         total_attempts' >= total_attempts, attempts_at_tier' <= attempts_at_tier + InFlight
  PROVE  RungsPaid'
  <1>1. start_tier' = start_tier /\ Climbed' = Climbed /\ InFlight' = 0
    BY SettingsStable DEF Climbed, InFlight
  <1>2. total_attempts \in Nat /\ attempts_at_tier \in Nat /\ InFlight \in Nat /\ Climbed \in Nat
    BY SettingsBounds DEF IInv, TypeOK, WithinReach, InFlight, Climbed, Tiers
  <1>3. AttemptsPerTier * Climbed \in Nat /\ (AttemptsPerTier * Climbed)' = AttemptsPerTier * Climbed
    BY <1>1, <1>2, RungPrice
  <1> HIDE DEF Climbed, InFlight
  <1> QED
    BY <1>1, <1>2, <1>3 DEF RungsPaid

LEMMA NextRungsPaid == IInv /\ RungsPaid /\ [Next]_vars => RungsPaid'
  <1> SUFFICES ASSUME IInv, RungsPaid, [Next]_vars PROVE RungsPaid'
    OBVIOUS
  <1>a. total_attempts \in Nat /\ attempts_at_tier \in Nat /\ InFlight \in Nat /\ Climbed \in Nat
    BY SettingsBounds DEF IInv, TypeOK, WithinReach, InFlight, Climbed, Tiers
  <1>b. AttemptsPerTier \in Nat \ {0} /\ AttemptsPerTier * Climbed \in Nat
    BY <1>a, RungPrice, CallAssumption
  <1>1. CASE LoopExit
    BY <1>1, <1>a, SameRungPaid DEF LoopExit, Return, locals
  <1>2. CASE PickProxy
    <2>1. call' = call /\ tier' = tier /\ attempts_at_tier' = attempts_at_tier
          /\ total_attempts' = total_attempts + 1
      BY <1>2 DEF PickProxy, BeginAttempt
    <2>2. InFlight = 0 /\ InFlight' = 1
      BY <1>2 DEF PickProxy, BeginAttempt, InFlight
    <2>3. Climbed' = Climbed
      BY <2>1, SettingsStable DEF Climbed
    <2> QED
      BY <1>a, <1>b, <2>1, <2>2, <2>3 DEF RungsPaid
  <1>3. CASE NoProxyLeft
    BY <1>3, <1>a, SameRungPaid DEF NoProxyLeft, BeginAttempt, Return
  <1>4. CASE PickRaises
    BY <1>4, <1>a, SameRungPaid DEF PickRaises, BeginAttempt, RetryOr, Continue, Return
  <1>5. ASSUME NEW reason \in Reasons, Blocked(reason)
        PROVE  RungsPaid'
    <2> DEFINE spent  == attempts_at_tier + 1 >= AttemptsPerTier /\ is_escalatable(reason)
               direct == proxy = NoProxy /\ call.use_proxy # "true"
    <2>1. pc = "fetching" /\ InFlight = 1 /\ call' = call /\ total_attempts' = total_attempts
      BY <1>5 DEF Blocked, InFlight
    <2>2. CASE (spent \/ direct) /\ CanClimb /\ Climb /\ failed' = BansAfterClimb(spent)
      <3>1. tier' = tier + 1 /\ attempts_at_tier' = 0 /\ InFlight' = 0
        BY <2>2 DEF Climb, Continue, next_tier, InFlight
      <3>2. Climbed' = Climbed + 1
        <4>1. start_tier' = start_tier /\ start_tier \in Tiers /\ tier \in Tiers
          BY <2>1, SettingsStable, SettingsBounds DEF IInv, TypeOK
        <4> QED
          BY <3>1, <4>1 DEF Climbed, Tiers
      <3>3. total_attempts' >= Climbed' + InFlight'
        BY <1>a, <2>1, <3>1, <3>2 DEF RungsPaid
      <3>4. ASSUME call'.use_proxy = "true"
            PROVE  total_attempts' >= AttemptsPerTier * Climbed' + attempts_at_tier' + InFlight'
        <4>1. attempts_at_tier + 1 >= AttemptsPerTier
          BY <2>1, <2>2, <3>4
        <4>2. total_attempts >= AttemptsPerTier * Climbed + attempts_at_tier + 1
          BY <2>1, <3>4 DEF RungsPaid
        <4>3. AttemptsPerTier * Climbed' = AttemptsPerTier * Climbed + AttemptsPerTier
          BY <1>a, <3>2, RungPrice
        <4> QED
          BY <1>a, <1>b, <2>1, <3>1, <4>1, <4>2, <4>3
      <3> QED
        BY <3>3, <3>4 DEF RungsPaid
    <2>3. CASE Stay /\ (Return("blocked") \/ RetryOr(total_attempts, "blocked"))
      BY <1>a, <2>1, <2>3, SameRungPaid DEF Stay, RetryOr, Return, Continue
    <2> QED
      BY <1>5, <2>2, <2>3 DEF Blocked
  <1>6. ASSUME NEW reason \in Reasons, BlockedReportFails(reason)
        PROVE  RungsPaid'
    <2>1. InFlight = 1
      BY <1>6 DEF BlockedReportFails, InFlight
    <2> QED
      BY <1>6, <1>a, <2>1, SameRungPaid DEF BlockedReportFails, Stay, RetryOr, Return, Continue
  <1>7. CASE Success
    BY <1>7, <1>a, SameRungPaid DEF Success, Return, locals
  <1>8. CASE AttemptRaises
    BY <1>8, <1>a, SameRungPaid DEF AttemptRaises, RetryOr, Return, Continue
  <1>9. CASE RaisesAndReportFails
    BY <1>9, <1>a, SameRungPaid DEF RaisesAndReportFails, Return, locals
  <1>10. CASE UNCHANGED vars
    <2>1. start_tier' = start_tier
      BY <1>10, SettingsStable DEF vars
    <2> QED
      BY <1>10, <2>1 DEF vars, RungsPaid, Climbed, InFlight
  <1> QED
    BY <1>1, <1>2, <1>3, <1>4, <1>5, <1>6, <1>7, <1>8, <1>9, <1>10 DEF Next

\* max_retries is the price of a rung in every call, whatever the ceiling, the cap
\* and the pool: the loop never climbs sooner than the blocked attempts allow.
THEOREM RungsArePaid == Spec => []EveryRungIsPaidFor
  <1>1. Init => RungsPaid
    <2> SUFFICES ASSUME Init PROVE RungsPaid
      OBVIOUS
    <2>1. Climbed = 0 /\ InFlight = 0
      BY SettingsBounds DEF Init, Climbed, InFlight, Tiers
    <2>2. AttemptsPerTier * Climbed = 0
      BY <2>1, CallAssumption
    <2> QED
      BY <2>1, <2>2 DEF Init, RungsPaid
  <1>2. IInv /\ RungsPaid => EveryRungIsPaidFor
    <2> SUFFICES ASSUME IInv, RungsPaid PROVE EveryRungIsPaidFor
      OBVIOUS
    <2>1. total_attempts \in Nat /\ attempts_at_tier \in Nat /\ InFlight \in Nat /\ Climbed \in Nat
      BY SettingsBounds DEF IInv, TypeOK, WithinReach, InFlight, Climbed, Tiers
    <2>2. AttemptsPerTier * Climbed \in Nat
      BY <2>1, RungPrice
    <2>3. total_attempts >= Climbed
      BY <2>1 DEF RungsPaid
    <2>4. call.use_proxy = "true" => total_attempts >= AttemptsPerTier * Climbed + attempts_at_tier
      BY <2>1, <2>2 DEF RungsPaid
    <2> QED
      BY <2>3, <2>4 DEF EveryRungIsPaidFor, Climbed, IInv, WithinReach
  <1> QED
    BY <1>1, <1>2, NextRungsPaid, Invariance, PTL DEF Spec

\* A blocked page is handed back only when nothing is left to try, for every ceiling,
\* cap, premium setting and pool: the climb test and the retry test leave no gap.
THEOREM BlockedIsTheLastResort == Spec => []BlockedOnlyWhenSpent
  <1> DEFINE J == BlockedOnlyWhenSpent /\ (pc # "done" => outcome = "pending")
  <1>1. Init => J
    BY DEF Init, BlockedOnlyWhenSpent
  <1>2. IInv /\ J /\ [Next]_vars => J'
    <2> SUFFICES ASSUME IInv, J, [Next]_vars PROVE J'
      OBVIOUS
    <2> USE DEF BlockedOnlyWhenSpent
    <2>1. CASE LoopExit
      BY <2>1 DEF LoopExit, Return
    <2>2. CASE PickProxy
      BY <2>2 DEF PickProxy, BeginAttempt
    <2>3. CASE NoProxyLeft
      BY <2>3 DEF NoProxyLeft, Return
    <2>4. CASE PickRaises
      BY <2>4 DEF PickRaises, BeginAttempt, RetryOr, Return, Continue
    <2>5. ASSUME NEW reason \in Reasons, Blocked(reason) PROVE J'
      <3>1. pc = "fetching" /\ last_result' = reason /\ call' = call /\ total_attempts' = total_attempts
        BY <2>5 DEF Blocked
      <3>2. reason # None /\ max_tier' = max_tier
        BY <3>1, CallAssumption, SettingsStable DEF DetectedReasons, None
      <3>3. CASE Climb
        BY <3>1, <3>3 DEF Climb, Continue
      <3>4. CASE ~CanClimb /\ Stay /\ Return("blocked")
        <4>1. tier \in Tiers /\ max_tier \in Tiers
          BY SettingsBounds DEF IInv, TypeOK
        <4>2. tier >= max_tier
          BY <3>4, <4>1, LadderLength DEF CanClimb, HasNextTier, next_tier, Tiers
        <4> QED
          BY <3>1, <3>2, <3>4, <4>2 DEF Stay, Return
      <3>5. CASE Stay /\ RetryOr(total_attempts, "blocked")
        <4>1. total_attempts \in 0 .. MaxAttempts /\ MaxAttempts \in Nat
          BY CallAssumption DEF IInv, TypeOK
        <4> QED
          BY <3>1, <3>2, <3>5, <4>1 DEF RetryOr, Return, Continue
      <3> QED
        BY <2>5, <3>3, <3>4, <3>5 DEF Blocked
    <2>6. ASSUME NEW reason \in Reasons, BlockedReportFails(reason) PROVE J'
      BY <2>6 DEF BlockedReportFails, Continue, Return, RetryOr
    <2>7. CASE Success
      BY <2>7 DEF Success, Return
    <2>8. CASE AttemptRaises
      BY <2>8 DEF AttemptRaises, Continue, Return, RetryOr
    <2>9. CASE RaisesAndReportFails
      BY <2>9 DEF RaisesAndReportFails, Return
    <2>10. CASE UNCHANGED vars
      BY <2>10 DEF vars, max_tier
    <2> QED
      BY <2>1, <2>2, <2>3, <2>4, <2>5, <2>6, <2>7, <2>8, <2>9, <2>10 DEF Next
  <1>3. J => BlockedOnlyWhenSpent
    OBVIOUS
  <1> QED BY <1>1, <1>2, <1>3, Invariance, PTL DEF Spec

-----------------------------------------------------------------------------
\* With the gate off, the type that an attempt asks the pool for is premium only when
\* the caller named it, or the policy row did at tier 0.
LEMMA FreeTypeExplained ==
  ASSUME IInv, ~call.enable_premium, tier_proxy_type \in Premium
  PROVE  call.proxy_type = tier_proxy_type \/ (tier = 0 /\ call.policy.proxy_type = tier_proxy_type)
  <1>1. call \in Calls /\ call \in CallSettings /\ tier \in Tiers
    BY CallAssumption DEF IInv, TypeOK
  <1>2. max_tier = 2
    BY <1>1, MaxTierValue DEF CallSettings, max_tier
  <1>3. CASE call.proxy_type # None
    BY <1>3 DEF tier_proxy_type
  <1>4. CASE call.proxy_type = None /\ tier > max_tier
    <2>1. tier = start_tier /\ start_tier > max_tier
      BY <1>4 DEF IInv, WithinReach
    <2>2. BypassesGate
      BY <1>1, <1>4, <2>1, SettingsBounds DEF BypassesGate, EngineRequested
    <2>3. tier_proxy_type = None
      BY <1>4, <2>2 DEF tier_proxy_type
    <2> QED
      BY <2>3 DEF Premium, None
  <1>5. CASE call.proxy_type = None /\ tier <= max_tier
    <2>1. tier \in {0, 1, 2} /\ ~BypassesGate
      BY <1>1, <1>2, <1>5 DEF BypassesGate, Tiers
    <2>2. CASE tier = 0
      BY <1>5, <2>1, <2>2, Rungs DEF tier_proxy_type, Rung
    <2>3. CASE tier \in {1, 2}
      <3>1. TierDef(tier).proxy_type = "datacenter"
        BY <2>3, Rungs DEF Rung
      <3>2. tier_proxy_type = "datacenter"
        BY <1>5, <2>1, <3>1 DEF tier_proxy_type, None
      <3> QED
        BY <3>2 DEF Premium
    <2> QED BY <2>1, <2>2, <2>3
  <1>6. max_tier \in Tiers
    BY <1>2 DEF Tiers
  <1> QED BY <1>1, <1>3, <1>4, <1>5, <1>6 DEF Tiers

\* For any pool and any settings, with the premium gate off no attempt uses a
\* residential or mobile proxy that the caller, the pin or the policy row did not ask
\* for, unless the attempt filters on no type at all.
THEOREM PremiumUseIsExplained == Spec => []PremiumUseExplained
  <1>1. Init => PremiumUseExplained
    BY DEF Init, PremiumUseExplained
  <1>2. IInv /\ PremiumUseExplained /\ [Next]_vars => PremiumUseExplained'
    <2> SUFFICES ASSUME IInv, PremiumUseExplained, [Next]_vars PROVE PremiumUseExplained'
      OBVIOUS
    <2>1. CASE PickProxy
      <3> SUFFICES ASSUME proxy' # NoProxy, ~call.enable_premium, ProxyTypeOf[proxy'] \in Premium,
                          tier_proxy_type # None
                   PROVE  \/ call.proxy_type = ProxyTypeOf[proxy']
                          \/ call.sticky = proxy' /\ total_attempts' = 1
                          \/ tier = 0 /\ call.policy.proxy_type = ProxyTypeOf[proxy']
        <4>1. call' = call /\ tier' = tier /\ tier_proxy_type' = tier_proxy_type
          BY <2>1 DEF PickProxy, tier_proxy_type, BypassesGate, EngineRequested, max_tier
        <4> QED
          BY <2>1, <4>1 DEF PremiumUseExplained
      <3>1. proxy' \in Selectable
        BY <2>1 DEF PickProxy
      <3>2. CASE proxy' \in {p \in Proxies \ failed : tier_proxy_type = None \/ ProxyTypeOf[p] = tier_proxy_type}
        <4>1. ProxyTypeOf[proxy'] = tier_proxy_type
          BY <3>2
        <4> QED
          BY <4>1, FreeTypeExplained
      <3>3. CASE total_attempts = 0 /\ proxy' = call.sticky
        BY <2>1, <3>3 DEF PickProxy, BeginAttempt
      <3> QED
        BY <3>1, <3>2, <3>3 DEF Selectable
    <2>2. CASE pc' # "fetching"
      BY <2>2 DEF PremiumUseExplained
    <2>3. CASE UNCHANGED vars
      BY <2>3 DEF vars, PremiumUseExplained, tier_proxy_type, BypassesGate, EngineRequested, max_tier
    <2>4. [Next]_vars => PickProxy \/ pc' # "fetching" \/ UNCHANGED vars
      BY DEF Next, LoopExit, NoProxyLeft, PickRaises, Blocked, BlockedReportFails, Success,
             AttemptRaises, RaisesAndReportFails, Climb, Return, Continue, RetryOr
    <2> QED BY <2>1, <2>2, <2>3, <2>4
  <1> QED BY <1>1, <1>2, Invariance, PTL DEF Spec

-----------------------------------------------------------------------------
(***************************************************************************)
(* The policy learner, which keeps the tier that the next call of the      *)
(* domain starts at.  It climbs the same ladder.                               *)
(***************************************************************************)
\* Whatever the row says, a fetch uses tiers of the ladder.
LEMMA UsableAreTiers ==
  ASSUME NEW policy \in Row
  PROVE  UsableTiers(policy) \subseteq 0 .. 6
  <1>1. effective_max_tier(EnablePremium) \in 0 .. 6
    <2>1. EnablePremium = TRUE \/ EnablePremium = FALSE
      BY LearnerAssumption, Zenon
    <2>2. effective_max_tier(EnablePremium) = 6 \/ effective_max_tier(EnablePremium) = 2
      BY <2>1, MaxTierValue, Zenon
    <2> QED
      BY <2>2
  <1>2. PolicyEngine # "httpx" => EngineTier(PolicyEngine) \in 0 .. 6
    BY EngineTierRuns, LearnerAssumption DEF Engines, Tiers
  <1>3. initial_tier([escalation_tier |-> policy.tier, antibot_type |-> policy.antibot]) \in 0 .. 6
    BY DEF initial_tier, MaxOf, ANTIBOT_FLOOR, Vendors, Row,
           Tiers
  <1>4. FirstTier(policy) \in 0 .. 6
    BY <1>1, <1>2, <1>3 DEF FirstTier, MinOf
  <1> QED
    BY <1>1, <1>4 DEF UsableTiers, MaxOf

-----------------------------------------------------------------------------
(***************************************************************************)
(* What every session holds of the row is as old as its SELECT; still, no  *)
(* copy has a tier that nobody tried or set, and a copy whose job has its  *)
(* result holds what that result teaches about the object it was read as.  *)
(***************************************************************************)
Backed(r) == r.tier <= peak /\ r.blocks <= ops

\* A job under way was counted when it read the row, so one more block is still in range.
Begun(w) == at[w] = "fetching" => kept[w].blocks < ops

\* What job w is about to write, against the object it computed it from.
Taught(w) ==
  at[w] \in {"fetched", "writing"} =>
    /\ kept[w].locked => new[w].tier = kept[w].tier
    /\ new[w].tier >= (IF blocked[w] THEN kept[w].tier ELSE kept[w].tier - 1)
    /\ new[w].blocks = (IF blocked[w] THEN kept[w].blocks + 1 ELSE 0)

LearnerInv ==
  /\ LearnerTypeOK
  /\ Backed(row)
  /\ \A p \in Procs : Backed(kept[p]) /\ Backed(new[p])
  /\ \A w \in Workers : Begun(w) /\ Taught(w)

LEMMA InitLearnerInv ==
  LearnerInit => LearnerInv
  BY LearnerAssumption DEF LearnerInit, LearnerInv, LearnerTypeOK, Fresh, Row,
         Procs, Tiers, Backed, Begun, Taught

\* The UPDATE mixes a session's values with the row's, so it is as sound as both.
LEMMA UpdatedIsBacked ==
  ASSUME LearnerInv, NEW p \in Procs
  PROVE  Updated(p) \in Row /\ Backed(Updated(p))
  <1>1. row \in Row /\ new[p] \in Row /\ kept[p] \in Row
    BY DEF LearnerInv, LearnerTypeOK
  <1>2. Backed(row) /\ Backed(new[p])
    BY DEF LearnerInv
  <1> QED
    BY <1>1, <1>2 DEF Updated, Sent, Row, Backed

\* What record_outcome makes of an object, column by column.
LEMMA LearnedColumns ==
  ASSUME NEW policy \in Row, NEW b \in BOOLEAN, NEW t \in 0 .. 6,
         NEW v \in Detected, NEW r, r = Learned(policy, b, t, v)
  PROVE  /\ policy.blocks < MaxOps => r \in Row
         /\ r.tier <= policy.tier \/ r.tier <= t
         /\ policy.locked => r.tier = policy.tier
         /\ r.tier >= (IF b THEN policy.tier ELSE policy.tier - 1)
         /\ r.blocks = (IF b THEN policy.blocks + 1 ELSE 0)
  <1>1. policy = [tier |-> policy.tier, locked |-> policy.locked, antibot |-> policy.antibot,
                  blocks |-> policy.blocks]
        /\ policy.tier \in 0 .. 6 /\ policy.locked \in BOOLEAN /\ policy.blocks \in 0 .. MaxOps
        /\ policy.antibot \in Vendors \cup {None} /\ MaxOps \in Nat
    BY LearnerAssumption DEF Row, Tiers
  <1>2. r.tier = (IF policy.locked THEN policy.tier
                  ELSE IF b THEN MaxOf(t, policy.tier) ELSE MaxOf(t, policy.tier - 1))
    BY <1>1 DEF Learned
  <1>3. r.blocks = (IF b THEN policy.blocks + 1 ELSE 0)
    BY <1>1 DEF Learned
  <1>4. r.tier \in 0 .. 6 /\ (r.tier <= policy.tier \/ r.tier <= t)
        /\ (policy.locked => r.tier = policy.tier)
        /\ r.tier >= (IF b THEN policy.tier ELSE policy.tier - 1)
    <2>1. CASE policy.locked
      <3>1. r.tier = policy.tier
        BY <1>2, <2>1
      <3> QED
        BY <3>1, <1>1
    <2>2. CASE ~policy.locked /\ b
      <3>1. r.tier = MaxOf(t, policy.tier)
        BY <1>2, <2>2
      <3> QED
        BY <3>1, <2>2, <1>1 DEF MaxOf
    <2>3. CASE ~policy.locked /\ ~b
      <3>1. r.tier = MaxOf(t, policy.tier - 1)
        BY <1>2, <2>3
      <3> QED
        BY <3>1, <2>3, <1>1 DEF MaxOf
    <2> QED
      BY <2>1, <2>2, <2>3
  <1>5. r = [tier |-> r.tier, locked |-> policy.locked, blocks |-> r.blocks,
             antibot |-> IF v # None THEN v ELSE policy.antibot]
    BY <1>1 DEF Learned
  <1>6. (IF v # None THEN v ELSE policy.antibot) \in Vendors \cup {None}
    BY <1>1, LearnerAssumption
  <1>7. policy.blocks < MaxOps => r.blocks \in 0 .. MaxOps
    BY <1>1, <1>3
  <1> QED
    BY <1>1, <1>3, <1>4, <1>5, <1>6, <1>7 DEF Row, Tiers

\* Every step of every job and admin request preserves the invariant.
LEMMA NextLearnerInv ==
  ASSUME LearnerInv, [LearnerNext]_learnerVars
  PROVE  LearnerInv'
  <1> USE LearnerAssumption DEF LearnerInv, LearnerTypeOK, Procs, Tiers
  <1>a. \A r \in Row : r.tier \in 0 .. 6 /\ r.blocks \in 0 .. MaxOps
    BY DEF Row
  <1>b. ASSUME NEW r \in Row, Backed(r), ops' \in Nat, ops' >= ops, peak' \in Nat, peak' >= peak
        PROVE  r.tier <= peak' /\ r.blocks <= ops'
    BY <1>a, <1>b DEF Backed
  <1>1. ASSUME NEW w \in Workers, ResolvePolicy(w) PROVE LearnerInv'
    <2>1. ops \in Nat /\ ops' = ops + 1 /\ ops' \in 0 .. MaxOps
      BY <1>1 DEF ResolvePolicy, Begins
    <2>2. peak' = peak /\ row' = row /\ new' = new
      BY <1>1 DEF ResolvePolicy
    <2>3. Backed(row)' /\ \A p \in Procs : Backed(new[p])' /\ Backed(kept[p])'
      BY <1>1, <1>b, <2>1, <2>2 DEF ResolvePolicy, Backed
    <2>4. \A v \in Workers : Begun(v)' /\ Taught(v)'
      BY <1>1, <1>a, <2>1 DEF ResolvePolicy, Step, Begun, Taught, Backed
    <2> QED
    BY <1>1, <2>1, <2>3, <2>4 DEF ResolvePolicy, Begins, Step, Backed, Begun, Taught
  <1>2. ASSUME NEW w \in Workers, Fetched(w) PROVE LearnerInv'
    <2>1. PICK b \in BOOLEAN, t \in UsableTiers(kept[w]), v \in Detected :
            /\ new' = [new EXCEPT ![w] = Learned(kept[w], b, t, v)]
            /\ blocked' = [blocked EXCEPT ![w] = b]
            /\ peak' = MaxOf(peak, t)
      BY <1>2 DEF Fetched
    <2>2. t \in 0 .. 6 /\ kept[w] \in Row /\ at[w] = "fetching" /\ w \in Procs
      BY <1>2, UsableAreTiers DEF Fetched, Step
    <2>3. peak' \in 0 .. 6 /\ peak' >= peak /\ peak' >= t
      BY <2>1, <2>2 DEF MaxOf
    <2>4. UNCHANGED <<row, exists, lock, kept, ops>> /\ at' = [at EXCEPT ![w] = "fetched"]
      BY <1>2 DEF Fetched, Step
    <2>a. kept[w].blocks < ops /\ kept[w].blocks < MaxOps
      BY <2>2, <1>a DEF Begun
    <2>b. /\ new'[w] \in Row
          /\ new'[w].tier <= kept[w].tier \/ new'[w].tier <= t
          /\ new'[w].blocks = (IF b THEN kept[w].blocks + 1 ELSE 0)
      <3>1. new'[w] = Learned(kept[w], b, t, v)
        BY <2>1, <2>2
      <3> HIDE LearnerAssumption DEF LearnerInv, LearnerTypeOK, Procs, Tiers
      <3> QED
        BY <3>1, <2>2, <2>a, LearnedColumns
    <2>5. new'[w] \in Row
      BY <2>b
    <2>6. Backed(new[w])'
      <3>1. kept[w].tier <= peak
        BY <2>2 DEF Backed
      <3>2. /\ kept[w].tier \in 0 .. 6 /\ kept[w].blocks \in 0 .. MaxOps /\ peak \in 0 .. 6
            /\ new'[w].tier \in 0 .. 6 /\ ops \in 0 .. MaxOps
        BY <1>a, <2>2, <2>b
      <3>3. new'[w].tier <= peak'
        BY <2>2, <2>3, <2>b, <3>1, <3>2
      <3>4. new'[w].blocks <= ops' /\ ops' = ops
        BY <2>2, <2>4, <2>a, <2>b, <3>2
      <3> QED
        BY <3>3, <3>4 DEF Backed
    <2>7. Backed(row)' /\ \A p \in Procs : Backed(new[p])' /\ Backed(kept[p])'
      BY <1>b, <2>1, <2>3, <2>4, <2>6 DEF Backed
    <2>8. Taught(w)'
      BY <2>1, <2>2, <2>4, LearnedColumns DEF Taught
    <2>9. \A x \in Workers : Begun(x)' /\ Taught(x)'
      BY <2>1, <2>4, <2>8 DEF Begun, Taught
    <2>10. LearnerTypeOK'
      BY <2>1, <2>3, <2>4, <2>5
    <2> QED
      BY <2>7, <2>9, <2>10
  <1>3. ASSUME NEW w \in Workers, SelectForUpdate(w) PROVE LearnerInv'
    BY <1>3 DEF SelectForUpdate, Step, Backed, Begun, Taught
  <1>4. ASSUME NEW w \in Workers, SkipLocked(w) PROVE LearnerInv'
    BY <1>4 DEF SkipLocked, Step, Backed, Begun, Taught
  <1>5. ASSUME NEW w \in Workers, Commit(w) PROVE LearnerInv'
    BY <1>5, UpdatedIsBacked DEF Commit, Step, Backed, Begun, Taught
  <1>6. ASSUME NEW p \in Procs, Rollback(p) PROVE LearnerInv'
    BY <1>6 DEF Rollback, Backed, Begun, Taught
  <1>7. ASSUME NEW a \in Admins, AdminReads(a) PROVE LearnerInv'
    <2>1. PICK t \in TierInputs \cup {row.tier}, locked \in BOOLEAN,
               v \in (Detected \ {None}) \cup {row.antibot} :
            /\ new' = [new EXCEPT ![a] =
                          [row EXCEPT !.tier = t, !.locked = locked, !.antibot = v]]
            /\ peak' = MaxOf(peak, t)
      BY <1>7 DEF AdminReads
    <2>2. t \in 0 .. 6 /\ a \in Procs /\ a \notin Workers
      BY <1>a
    <2>10. v \in Vendors \cup {None}
      BY <1>a, LearnerAssumption DEF Row
    <2>3. peak' \in 0 .. 6 /\ peak' >= peak /\ peak' >= t
      BY <2>1, <2>2 DEF MaxOf
    <2>4. ops' = ops + 1 /\ ops' \in 0 .. MaxOps /\ ops' >= ops /\ ops' \in Nat
      BY <1>7 DEF AdminReads, Begins
    <2>5. UNCHANGED <<row, exists, lock, blocked>> /\ at' = [at EXCEPT ![a] = "read"]
          /\ kept' = [kept EXCEPT ![a] = row]
      BY <1>7 DEF AdminReads, Step
    <2>6. new'[a] \in Row /\ Backed(new[a])'
      <3>1. new'[a] \in Row
        BY <1>a, <2>1, <2>2, <2>10 DEF Row
      <3>2. new'[a].tier = t /\ new'[a].blocks = row.blocks
        BY <1>a, <2>1, <2>2, <2>10 DEF Row
      <3> QED
        BY <3>1, <3>2, <2>3, <2>4, <1>a DEF Backed
    <2>7. Backed(row)' /\ \A p \in Procs : Backed(new[p])' /\ Backed(kept[p])'
      BY <1>b, <2>1, <2>3, <2>4, <2>5, <2>6 DEF Backed
    <2>8. \A x \in Workers : Begun(x)' /\ Taught(x)'
      BY <1>a, <2>1, <2>2, <2>4, <2>5 DEF Begun, Taught
    <2>9. LearnerTypeOK'
      BY <2>1, <2>3, <2>4, <2>5, <2>6
    <2> QED
      BY <2>7, <2>8, <2>9
  <1>8. ASSUME NEW a \in Admins, AdminUpserts(a) PROVE LearnerInv'
    <2>1. PICK t \in TierInputs, locked \in BOOLEAN, v \in Detected \cup {None} :
            /\ row' = [(IF exists THEN row ELSE Fresh)
                         EXCEPT !.tier = t, !.locked = locked, !.antibot = v]
            /\ peak' = MaxOf(peak, t)
      BY <1>8 DEF AdminUpserts
    <2>9. v \in Vendors \cup {None}
      BY <2>1, LearnerAssumption
    <2>2. peak' \in 0 .. 6 /\ peak' >= peak /\ peak' >= t /\ t \in 0 .. 6
      BY <2>1 DEF MaxOf
    <2>3. ops' = ops + 1 /\ ops' \in 0 .. MaxOps /\ ops' >= ops /\ ops' \in Nat
      BY <1>8 DEF AdminUpserts, Begins
    <2>4. UNCHANGED <<lock, at, kept, new, blocked>> /\ exists' = TRUE
      BY <1>8 DEF AdminUpserts
    <2>5. row' \in Row /\ Backed(row)'
      <3> DEFINE base == IF exists THEN row ELSE Fresh
      <3>1. base \in Row /\ base.blocks <= ops
        BY <1>a DEF Row, Fresh, Backed
      <3>2. row' = [base EXCEPT !.tier = t, !.locked = locked, !.antibot = v]
        BY <2>1
      <3> HIDE DEF base
      <3>3. row' \in Row /\ row'.tier = t /\ row'.blocks = base.blocks
        BY <3>1, <3>2, <2>2, <2>9 DEF Row
      <3> QED
        BY <3>1, <3>3, <2>2, <2>3, <1>a DEF Backed
    <2>6. \A p \in Procs : Backed(new[p])' /\ Backed(kept[p])'
      BY <1>b, <2>2, <2>3, <2>4 DEF Backed
    <2>7. \A x \in Workers : Begun(x)' /\ Taught(x)'
      BY <1>a, <2>3, <2>4 DEF Begun, Taught
    <2>8. LearnerTypeOK'
      BY <2>2, <2>3, <2>4, <2>5
    <2> QED
      BY <2>5, <2>6, <2>7, <2>8
  <1>9. ASSUME NEW a \in Admins, AdminUpdates(a) PROVE LearnerInv'
    BY <1>9 DEF AdminUpdates, Step, Backed, Begun, Taught
  <1>10. ASSUME NEW a \in Admins, AdminCommits(a) PROVE LearnerInv'
    BY <1>10, UpdatedIsBacked DEF AdminCommits, Step, Backed, Begun, Taught
  <1>11. ASSUME NEW a \in Admins, AdminDeletes(a) PROVE LearnerInv'
    <2>1. ops' = ops + 1 /\ ops' \in 0 .. MaxOps /\ ops' >= ops /\ ops' \in Nat
      BY <1>11 DEF AdminDeletes, Begins
    <2>2. UNCHANGED <<row, lock, at, kept, new, blocked, peak>> /\ exists' = FALSE
      BY <1>11 DEF AdminDeletes
    <2>3. Backed(row)' /\ \A p \in Procs : Backed(new[p])' /\ Backed(kept[p])'
      BY <1>b, <2>1, <2>2 DEF Backed
    <2>4. \A x \in Workers : Begun(x)' /\ Taught(x)'
      BY <1>a, <2>1, <2>2 DEF Begun, Taught
    <2> QED
      BY <2>1, <2>2, <2>3, <2>4
  <1>12. CASE UNCHANGED learnerVars
    BY <1>12 DEF learnerVars, Backed, Begun, Taught
  <1> QED
    BY <1>1, <1>2, <1>3, <1>4, <1>5, <1>6, <1>7, <1>8, <1>9, <1>10, <1>11, <1>12
       DEF LearnerNext, Job, Admin

\* The invariant holds in every reachable state.
THEOREM LearnerInvariance ==
  LearnerSpec => []LearnerInv
  <1>1. LearnerInit => LearnerInv
    BY InitLearnerInv
  <1>2. LearnerInv /\ [LearnerNext]_learnerVars => LearnerInv'
    BY NextLearnerInv
  <1> QED
    BY <1>1, <1>2, PTL DEF LearnerSpec

\* The row, the sessions' copies and the lock keep their types; the counter of blocks never
\* exceeds the jobs that were started, although it is incremented in stale copies.
THEOREM LearnerTypeCorrect ==
  LearnerSpec => []LearnerTypeOK
  <1>1. LearnerInv => LearnerTypeOK
    BY DEF LearnerInv
  <1> QED
    BY <1>1, LearnerInvariance, PTL

\* record_outcome: whatever jobs and admin requests overlap, the row never asks for a tier above
\* every tier that was really used or set.
THEOREM LearnedTiersHaveEvidence ==
  LearnerSpec => []TierHasEvidence
  <1>1. LearnerInv => TierHasEvidence
    BY DEF LearnerInv, Backed, TierHasEvidence
  <1> QED
    BY <1>1, LearnerInvariance, PTL

\* record_outcome: a job whose object is still what the row holds keeps a pinned tier, steps down
\* by at most one tier after a success and never after a block, and counts or clears the blocks.
THEOREM FreshOutcomesAreLearned ==
  LearnerSpec => FreshOutcomeIsLearned
  <1> DEFINE Teaches(w) ==
        /\ row.locked => row'.tier = row.tier
        /\ row'.tier >= (IF blocked[w] THEN row.tier ELSE row.tier - 1)
        /\ row'.blocks = (IF blocked[w] THEN row.blocks + 1 ELSE 0)
  <1>1. ASSUME LearnerInv, NEW w \in Workers, Writes(w), kept[w] = row
        PROVE  Teaches(w)
    <2>1. Taught(w) /\ at[w] = "writing" /\ row' = Updated(w)
      BY <1>1 DEF LearnerInv, Writes
    <2>2. row'.tier = new[w].tier /\ row'.blocks = new[w].blocks
      BY <1>1, <2>1 DEF Updated, Sent
    <2> QED
      BY <1>1, <2>1, <2>2 DEF Taught
  <1>2. LearnerInv => [\A w \in Workers : Writes(w) /\ kept[w] = row => Teaches(w)]_learnerVars
    BY <1>1
  <1> QED
    BY <1>2, LearnerInvariance, PTL DEF FreshOutcomeIsLearned
=============================================================================
