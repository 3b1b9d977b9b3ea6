------------------------------ MODULE Recency ------------------------------
(***************************************************************************)
(* The least recently used entry of a bounded map, as core/proxy_lane.go   *)
(* and cmd/serve.go find it.  The time of last use kept with an entry only *)
(* serves to compare entries, hence it is an order R of the keys K of the  *)
(* map: <<j, k>> \in R says that j was used last before k was.  Two uses   *)
(* at the same instant are left out.                                       *)
(***************************************************************************)

\* The keys that were last used before all others: one, if K is not empty.
Oldest(K, R) == {k \in K : \A j \in K : <<j, k>> \notin R}
Newest(K, R) == {k \in K : \A j \in K : <<k, j>> \notin R}

\* R orders the keys K: of any of them, one was used before the others.
Orders(R, K) ==
  /\ R \subseteq K \X K
  /\ \A j, k \in K : j = k \/ <<j, k>> \in R \/ <<k, j>> \in R
  /\ \A j, k \in K : <<j, k>> \in R => <<k, j>> \notin R
  /\ \A i, j, k \in K : <<i, j>> \in R /\ <<j, k>> \in R => <<i, k>> \in R
  /\ \A G \in SUBSET K : G # {} => Oldest(G, R) # {}

\* k is used now: all others were used before.
Touched(R, K, k) ==
  {p \in R : p[1] # k /\ p[2] # k} \cup {<<j, k>> : j \in K \ {k}}

\* The keys G are deleted.
Without(R, G) == {p \in R : p[1] \notin G /\ p[2] \notin G}
=============================================================================
