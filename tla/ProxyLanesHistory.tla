------------------------- MODULE ProxyLanesHistory -------------------------
(***************************************************************************)
(* ProxyLanes with a history variable, for what it promises about the lane *)
(* it forgets.                                                             *)
(***************************************************************************)
EXTENDS ProxyLanes

VARIABLE usedSince  \* the lanes used since each lane was used last

hvars == <<laneVars, usedSince>>

HInit == LanesInit /\ usedSince = [k \in Lanes |-> {}]

\* The store was asked for lane k, and kept or created it.
Remember(k) == usedSince' = [j \in Lanes |-> IF j = k THEN {}
                                             ELSE usedSince[j] \cup {k}]
RememberKept(k) == IF k \in lanes THEN Remember(k) ELSE UNCHANGED usedSince

HNext ==
  \E g \in Pages :
    \/ \E k \in Lanes : \/ Open(g, k) /\ Remember(k)
                        \/ OpenForced(g, k) /\ UNCHANGED usedSince
    \/ Restore(g) /\ RememberKept(page[g].lane)
    \/ Save(g) /\ Remember(page[g].lane)
    \/ Solve(g) /\ Remember(page[g].lane)
    \/ Drop(g) /\ RememberKept(page[g].lane)
    \/ SaveFails(g) /\ UNCHANGED usedSince
    \/ NavigateFails(g) /\ UNCHANGED usedSince
    \/ Finish(g) /\ UNCHANGED usedSince
    \/ Challenge(g) /\ UNCHANGED usedSince

HSpec == HInit /\ [][HNext]_hvars

\* A lane is forgotten only when as many others as the store holds were used
\* since: pages that go on using a lane, if only to read its cookies, keep it.
LeastRecentEvicted ==
  [][\A k \in lanes : k \notin lanes' => Cardinality(usedSince'[k]) >= MaxLanes]_hvars
=============================================================================
