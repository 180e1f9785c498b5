---------------------------- MODULE InsertionMap ----------------------------
(***************************************************************************)
(* The JavaScript Map as the light client code uses it: a key is set, read *)
(* and, when the map grows past a maximum, the keys that were inserted     *)
(* first are deleted.  Setting a key that is already there keeps its place *)
(* in the iteration order.  A map is the sequence of its entries in that   *)
(* order.                                                                  *)
(***************************************************************************)
EXTENDS Naturals, Sequences

Entry(k, v) == [key |-> k, value |-> v]

EmptyMap == <<>>

MapKeys(m) == {m[i].key : i \in DOMAIN m}

MapGet(m, k) == m[CHOOSE i \in DOMAIN m : m[i].key = k].value

MapSet(m, k, v) ==
  IF k \in MapKeys(m)
  THEN [i \in DOMAIN m |-> IF m[i].key = k THEN Entry(k, v) ELSE m[i]]
  ELSE Append(m, Entry(k, v))

\* `maxItems` entries are left, the last ones inserted.
PruneSetToMax(m, maxItems) ==
  IF Len(m) > maxItems
  THEN SubSeq(m, Len(m) - maxItems + 1, Len(m))
  ELSE m

=============================================================================
