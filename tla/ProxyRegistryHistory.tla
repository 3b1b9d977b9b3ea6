----------------------- MODULE ProxyRegistryHistory -----------------------
(***************************************************************************)
(* ProxyRegistry with a history variable, for what it promises about the   *)
(* order in which proxies are served.                                      *)
(***************************************************************************)
EXTENDS ProxyRegistry

\* NormalizeProxiesConfig merges the entries of a proxy into one.
ASSUME ListedOnce ==
  \A layout \in Layouts : \A t \in Tags : \A i, j \in DOMAIN layout[t] :
    layout[t][i] = layout[t][j] => i = j

VARIABLE lastServed  \* the proxy each tag was served last

hvars == <<vars, lastServed>>

HInit == Init /\ lastServed = [t \in Tags |-> NoProxy]

Remember ==
  lastServed' = [t \in Tags |-> IF Served(t) = {} THEN lastServed[t]
                                ELSE CHOOSE p \in Served(t) : TRUE]
HNext == Next /\ Remember

HSpec == HInit /\ [][HNext]_hvars
FairHSpec == HSpec /\ Fairness

\* Two requests served in a row for a tag never get the same proxy while the
\* pool has another one that is enabled and not challenged.
ConsecutiveServesDiffer ==
  [][\A t \in Tags : \A p \in Served(t) :
       p = lastServed[t] =>
         \A q \in Members(t) \ {p} : disabled[q] \/ challenged[q] > 0]_hvars
=============================================================================
