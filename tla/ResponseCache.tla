---------------------------- MODULE ResponseCache ----------------------------
(***************************************************************************)
(* The response cache of core/cache.go: a bounded map whose entries live   *)
(* for TTL.  Every method runs under c.mu, hence is one step, and drops    *)
(* the expired entries first; storing a new key in a full map evicts the   *)
(* oldest entry.  CreatedAt is kept as an age in ticks: of two entries     *)
(* created within one tick either may be the older.  The counters that     *)
(* Stats reports are left out.                                             *)
(***************************************************************************)
EXTENDS Integers, FiniteSets

CONSTANTS
  MaxSize,  \* ResponseCache.maxSize
  TTL       \* ResponseCache.ttl, in ticks

\* NewServerWithOptions creates a cache only if both are positive.
ASSUME CacheAssumption == MaxSize \in Nat \ {0} /\ TTL \in Nat \ {0}

VARIABLE entries  \* ResponseCache.entries: key -> data and age

NoEntries == [k \in {} |-> 0]

\* pruneExpiredLocked: what is left of the map.
Live == {k \in DOMAIN entries : entries[k].age < TTL}
Pruned == [k \in Live |-> entries[k]]

\* Get and Stats: both leave the live entries; a key is found if it is one of them.
Prune == entries' = Pruned

Oldest(K) == {k \in K : \A j \in K : entries[j].age <= entries[k].age}

\* evictOldestLocked: the sets of keys of which one makes room for k.
Victims(k) ==
  IF k \notin Live /\ Cardinality(Live) >= MaxSize THEN {{g} : g \in Oldest(Live)} ELSE {{}}

Set(k, d) ==
  \E gone \in Victims(k) :
    entries' = [j \in (Live \ gone) \cup {k} |->
                  IF j = k THEN [data |-> d, age |-> 0] ELSE entries[j]]

\* Time passes.
Age ==
  entries' = [k \in DOMAIN entries |->
                [entries[k] EXCEPT !.age = IF @ < TTL THEN @ + 1 ELSE @]]
=============================================================================
