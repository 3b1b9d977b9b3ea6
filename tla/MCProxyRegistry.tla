-------------------------- MODULE MCProxyRegistry --------------------------
(* An instance of ProxyRegistry for TLC: three proxies, two tags. *)
EXTENDS ProxyRegistryHistory, TLC

CONSTANTS p1, p2, p3, us, eu

\* Pools that overlap in p2, and one pool beside a tag that the configuration
\* does not know.
MCLayouts ==
  {(us :> <<p1, p2>>) @@ (eu :> <<p2, p3>>), (us :> <<p1, p2, p3>>) @@ (eu :> <<>>)}
=============================================================================
