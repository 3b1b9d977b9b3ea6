---------------------------- MODULE MCProxyLanes ----------------------------
(* An instance of ProxyLanes for TLC; its runs check no liveness. *)
EXTENDS ProxyLanesHistory, TLC

Symmetry == Permutations(Lanes) \cup Permutations(Sites) \cup Permutations(Pages) \cup Permutations(Profiles)
=============================================================================
