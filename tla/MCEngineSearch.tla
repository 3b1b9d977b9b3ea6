----------------------------- MODULE MCEngineSearch -----------------------------
(* Pages of two results, so that a limit of three needs two of them.        *)
EXTENDS EngineSearch

Call(e, k, l, s) == [engine |-> e, kind |-> k, limit |-> l, start |-> s]
MCQueries ==
  {Call(e, k, l, s) : e \in Engines, k \in {"web", "image"}, l \in {1, 3}, s \in {0, 3}}
    \cup {Call(e, "raw", 3, s) : e \in RawEngines, s \in {0, 3}}

MCLayouts ==
  {<<"broken">>, <<"organic">>, <<"organic", "organic">>, <<"ad", "ad", "organic", "organic">>,
   <<"again", "organic">>, <<"organic", "ad", "again">>, <<"answer", "organic">>}
=============================================================================
