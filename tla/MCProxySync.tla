---------------------------- MODULE MCProxySync ----------------------------
(* Three plans, one of each kind of subtype. *)
EXTENDS ProxySync

MCPlans == {"dc", "isp", "rotating"}

MCSubtype == [pl \in MCPlans |->
  IF pl = "dc" THEN "default" ELSE IF pl = "isp" THEN "isp" ELSE "residential"]

MCListed == [pl \in MCPlans |-> IF pl = "isp" THEN <<>> ELSE SetToSeq(Urls)]
=============================================================================
