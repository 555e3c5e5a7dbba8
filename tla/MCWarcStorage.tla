--------------------------- MODULE MCWarcStorage ---------------------------
(* Instances of WarcStorage for TLC: two fetches of one page ("a1", "a2"), *)
(* one of the same content under another URL ("b"), and one of a different *)
(* page ("c").                                                             *)
EXTENDS WarcStorage

MCUrl == [j \in Jobs |-> IF j \in {"a1", "a2"} THEN "a" ELSE j]
MCSha == [j \in Jobs |-> IF j = "c" THEN "other" ELSE "same"]
=============================================================================
