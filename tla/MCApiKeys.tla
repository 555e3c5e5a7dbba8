------------------------------ MODULE MCApiKeys ------------------------------
(* The instance of ApiKeys for TLC: requests are interchangeable, and every *)
(* property is about all of them.                                           *)
EXTENDS ApiKeys, TLC

RequestSymmetry == Permutations(Requests)

=============================================================================
