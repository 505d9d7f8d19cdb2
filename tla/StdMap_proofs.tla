---------------------------- MODULE StdMap_proofs ----------------------------
(***************************************************************************)
(* What the operations of StdMap do to a map: the type of the result, its  *)
(* keys and its values.                                                    *)
(***************************************************************************)
EXTENDS StdMap, TLAPS

\* What makes a map, and what follows of one.
LEMMA MapIntro ==
  ASSUME NEW K, NEW V, NEW D \in SUBSET K, NEW map \in [D -> V]
  PROVE  map \in Map(K, V)
BY DEF Map

LEMMA MapElim ==
  ASSUME NEW K, NEW V, NEW map \in Map(K, V)
  PROVE  /\ DOMAIN map \subseteq K /\ \A x \in DOMAIN map : map[x] \in V
         /\ map \in [DOMAIN map -> V]
BY DEF Map

LEMMA EmptyMapType ==
  ASSUME NEW K, NEW V
  PROVE  EmptyMap \in Map(K, V) /\ DOMAIN EmptyMap = {}
<1>1. EmptyMap \in [{} -> V]
  BY DEF EmptyMap
<1> QED
  BY <1>1, MapIntro

\* A map without keys is the empty one.
LEMMA NoKeysNoMap ==
  ASSUME NEW K, NEW V, NEW map \in Map(K, V), DOMAIN map = {}
  PROVE  map = EmptyMap
BY MapElim DEF EmptyMap

\* The type of what an expression over keys makes.
LEMMA EachType ==
  ASSUME NEW K, NEW V, NEW D \in SUBSET K, NEW f,
         f = [x \in D |-> f[x]], \A x \in D : f[x] \in V
  PROVE  f \in Map(K, V)
<1>1. f \in [D -> V]
  OBVIOUS
<1> QED
  BY <1>1, MapIntro

LEMMA EraseProperties ==
  ASSUME NEW map, NEW keys
  PROVE  /\ DOMAIN Erase(map, keys) = DOMAIN map \ keys
         /\ \A x \in DOMAIN map \ keys : Erase(map, keys)[x] = map[x]
BY DEF Erase, Restrict

LEMMA EraseType ==
  ASSUME NEW K, NEW V, NEW map \in Map(K, V), NEW keys
  PROVE  Erase(map, keys) \in Map(K, V)
<1> DEFINE D == DOMAIN map \ keys
<1>1. D \in SUBSET K /\ \A x \in D : map[x] \in V
  BY MapElim
<1>2. Erase(map, keys) = [x \in D |-> map[x]]
  BY DEF Erase, Restrict
<1>3. [x \in D |-> map[x]] \in [D -> V]
  BY <1>1
<1> QED
  BY <1>1, <1>2, <1>3, MapIntro

LEMMA PutProperties ==
  ASSUME NEW map, NEW key, NEW value
  PROVE  /\ DOMAIN Put(map, key, value) = DOMAIN map \union {key}
         /\ Put(map, key, value)[key] = value
         /\ \A x \in DOMAIN map : x # key => Put(map, key, value)[x] = map[x]
BY DEF Put

LEMMA PutType ==
  ASSUME NEW K, NEW V, NEW map \in Map(K, V), NEW key \in K, NEW value \in V
  PROVE  Put(map, key, value) \in Map(K, V)
<1> DEFINE D == DOMAIN map \union {key}
<1>1. D \in SUBSET K /\ \A x \in DOMAIN map : map[x] \in V
  BY MapElim
<1>2. Put(map, key, value) \in [D -> V]
  BY <1>1 DEF Put
<1> QED
  BY <1>1, <1>2, MapIntro
=============================================================================
