--------------------------- MODULE MCRateLimiter ---------------------------
(* Instances of RateLimiter for TLC: a fetch, and batches that share its   *)
(* domain.                                                                 *)
EXTENDS RateLimiter

MCWindow == [k \in Keys |-> 5]
MCLimit  == [k \in Keys |-> 1]
MCPlan   == [r \in Reqs |-> IF r = "f1" THEN FetchPlan("key", "app", "dom")
                            ELSE BatchPlan(<<"dom">>)]
=============================================================================
