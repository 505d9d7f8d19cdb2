-------------------------------- MODULE StdMap --------------------------------
(***************************************************************************)
(* std::map as the signaling client uses it: a function whose domain is    *)
(* the set of the keys that are present.                                   *)
(***************************************************************************)
EXTENDS Functions

EmptyMap == [x \in {} |-> x]

\* The maps with keys in K and values in V.
Map(K, V) == UNION {[D -> V] : D \in SUBSET K}

\* map[k] = v
Put(map, k, v) == [x \in DOMAIN map \union {k} |-> IF x = k THEN v ELSE map[x]]

\* map.erase(k) for every k of keys
Erase(map, keys) == Restrict(map, DOMAIN map \ keys)
=============================================================================
