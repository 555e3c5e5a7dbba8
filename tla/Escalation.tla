----------------------------- MODULE Escalation -----------------------------
(***************************************************************************)
(* The escalation ladder of app/services/escalation.py: seven tiers, each  *)
(* an engine plus the kind of proxy it needs, ordered from the cheapest to *)
(* the most expensive, and the pure functions that walk it.                *)
(***************************************************************************)
EXTENDS Integers, Sequences

None == "none_value"                 \* Python's None

Engines    == {"httpx", "curl_cffi", "playwright", "camoufox"}
ProxyTypes == {"datacenter", "residential", "mobile", "isp"}
Premium    == {"residential", "mobile"}

Rung(engine, proxy_type) ==
  [engine |-> engine, proxy_type |-> proxy_type, use_proxy |-> proxy_type # None]

LADDER ==
  << Rung("httpx",      None),
     Rung("httpx",      "datacenter"),
     Rung("curl_cffi",  "datacenter"),
     Rung("curl_cffi",  "residential"),
     Rung("playwright", "residential"),
     Rung("camoufox",   "residential"),
     Rung("camoufox",   "mobile") >>

\* Tiers are numbered from 0, TLA+ sequences from 1.
Tiers      == 0 .. 6
TierDef(t) == LADDER[t + 1]

FIRST_PREMIUM_TIER ==
  CHOOSE t \in Tiers : /\ TierDef(t).proxy_type \in Premium
                       /\ \A u \in 0 .. (t - 1) : TierDef(u).proxy_type \notin Premium

\* The vendors policy_learner records in domain_policies.antibot_type.
Vendors == {"cloudflare", "akamai", "datadome", "kasada", "perimeterx", "incapsula",
            "aws_waf", "custom_sea", "custom_cn", "none"}

ANTIBOT_FLOOR ==
  [v \in Vendors |->
     CASE v \in {"cloudflare", "incapsula"}  -> 2
       [] v \in {"akamai", "datadome"}       -> 3
       [] v \in {"kasada", "perimeterx"}     -> 4
       [] v = "aws_waf"                      -> 1
       [] v = "custom_sea"                   -> 6
       [] v = "custom_cn"                    -> 5
       [] v = "none"                         -> 0]

\* The values of BlockReason; the detector only emits the first five.
DetectedReasons == {"rate_limited", "cloudflare", "captcha", "ip_ban", "waf"}
BlockReasons    == DetectedReasons \cup
  {"other", "akamai", "datadome", "kasada", "perimeterx", "incapsula", "aws_waf"}

ESCALATABLE == {"cloudflare", "waf", "captcha"}

\* A known reason escalates when it is listed; an unknown string always does.
is_escalatable(reason) ==
  /\ reason # None
  /\ reason \notin BlockReasons \ ESCALATABLE

MaxOf(a, b) == IF a >= b THEN a ELSE b
MinOf(a, b) == IF a <= b THEN a ELSE b

\* The higher of the learned tier and the floor of the known vendor.
initial_tier(policy) ==
  MaxOf(policy.escalation_tier,
        IF policy.antibot_type \in Vendors THEN ANTIBOT_FLOOR[policy.antibot_type] ELSE 0)

\* next_tier returns None at the top of the ladder.
HasNextTier(t) == t + 1 < Len(LADDER)
next_tier(t)   == t + 1

\* Faulty variant: the gate is one tier too high.
effective_max_tier_OffByOne(enable_premium) ==
  IF enable_premium THEN Len(LADDER) - 1 ELSE FIRST_PREMIUM_TIER

effective_max_tier(enable_premium) ==
  IF enable_premium THEN Len(LADDER) - 1 ELSE FIRST_PREMIUM_TIER - 1

\* The rung of an explicitly requested engine: the first one that uses it.
EngineTier(engine) ==
  CHOOSE t \in Tiers : /\ TierDef(t).engine = engine
                       /\ \A u \in 0 .. (t - 1) : TierDef(u).engine # engine
=============================================================================
