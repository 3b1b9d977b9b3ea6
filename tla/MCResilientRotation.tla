------------------------ MODULE MCResilientRotation ------------------------
(* An instance of ResilientSearch for TLC: one engine behind two proxies. *)
EXTENDS ResilientSearchHistory, TLC

CONSTANTS google, p1, p2, us

MCEngineOrder == <<google>>
MCPolicyTag == google :> us
MCLayouts == {us :> <<p1, p2>>}

\* For runs that check no liveness.
Symmetry == Permutations(Requests)
=============================================================================
