------------------------ MODULE MCResilientFallback ------------------------
(* An instance of ResilientSearch for TLC: an engine behind two proxies and *)
(* an engine called directly.                                               *)
EXTENDS ResilientSearch, TLC

CONSTANTS google, bing, p1, p2, us

MCEngineOrder == <<google, bing>>
MCPolicyTag == (google :> us) @@ (bing :> NoTag)
MCLayouts == {us :> <<p1, p2>>}
=============================================================================
