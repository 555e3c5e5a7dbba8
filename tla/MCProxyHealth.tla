---------------------------- MODULE MCProxyHealth ----------------------------
(* One job that has an attempt left after a deadlock, and one that has not. *)
EXTENDS ProxyHealth

MCMaxAttempts == [j \in Jobs |-> IF j = "j1" THEN 3 ELSE 2]
==============================================================================
