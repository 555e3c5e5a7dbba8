---------------------------- MODULE MCFetchRetry ----------------------------
(* Instances of FetchRetry for TLC.                                        *)
EXTENDS FetchRetry

CONSTANTS d1, d2, r1

MCProxyTypeOf == [p \in {d1, d2, r1} |-> IF p = r1 THEN "residential" ELSE "datacenter"]

Learned(t, vendor, up, pt) ==
  [escalation_tier |-> t, antibot_type |-> vendor, use_proxy |-> up, proxy_type |-> pt]

\* No policy row; a fresh row; a row behind a proxy; a row whose vendor floor is
\* above the premium gate; a row learned to the tier below the gate.
MCPolicies ==
  { NoPolicy,
    Learned(0, None, "false", None),
    Learned(0, None, "true", "residential"),
    Learned(1, "kasada", "false", None),
    Learned(2, "none", "false", "datacenter") }

MCCalls ==
  [requested_engine : {None, "curl_cffi", "playwright", "camoufox"},
   use_proxy        : Tristate,
   proxy_type       : {None, "residential"},
   policy           : MCPolicies,
   sticky           : {NoProxy, r1},
   enable_premium   : BOOLEAN]
=============================================================================
