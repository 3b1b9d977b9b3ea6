---------------------------- MODULE MCMegaSearch ----------------------------
(* An instance of MegaSearch for TLC: two engines, one asked twice by its alias. *)
EXTENDS MegaSearch

CONSTANTS google, duck

MCBreakers == {<<duck, "web">>}

Ask(mode, engines, merge) == [mode |-> mode, engines |-> engines, merge |-> merge, cached |-> TRUE]
MCRequests == {
  Ask("balanced", <<google, duck>>, TRUE),
  Ask("balanced", <<google>>, TRUE),
  Ask("balanced", <<duck, duck>>, FALSE),
  Ask("dedicated", <<duck>>, TRUE),
  Ask("fast", <<google, duck>>, TRUE),
  [Ask("any", <<duck, google>>, TRUE) EXCEPT !.cached = FALSE]}
\* The same engines in both orders, the first that has results to be kept.
MCOrderRequests ==
  {Ask("balanced", <<google, duck>>, FALSE), Ask("balanced", <<duck, google>>, FALSE)}
=============================================================================
