-------------------------- MODULE MCPolicyLearner --------------------------
(* Instances of PolicyLearner for TLC.                                     *)
EXTENDS PolicyLearner, TLC

Symmetry == Permutations(Workers)
MCDetected == {None, "cloudflare"}
MCNothing == {None}
=============================================================================
