------------------------------ MODULE LruStore ------------------------------
(***************************************************************************)
(* The ordered dictionary of the memory cache level, as a sequence of      *)
(* slots [key |-> ...], the least recently used one first.                 *)
(* Source: cache/backend/memory_backend.py.                                *)
(***************************************************************************)
EXTENDS Naturals, Sequences

Slots(s) == {s[i] : i \in DOMAIN s}
HasKey(s, k) == \E x \in Slots(s) : x.key = k
Place(s, k) == CHOOSE i \in DOMAIN s : s[i].key = k
SlotOf(s, k) == s[Place(s, k)]

(* A key has one slot. *)
Drop(s, k) ==
  IF HasKey(s, k)
    THEN SubSeq(s, 1, Place(s, k) - 1) \o SubSeq(s, Place(s, k) + 1, Len(s))
    ELSE s

Touch(s, k) == Append(Drop(s, k), SlotOf(s, k))

\* Mutant. The store is cut back only once it has grown past the bound.
PutLate(s, x, max) ==
  LET t == Append(Drop(s, x.key), x)
  IN  IF Len(s) > max THEN Tail(t) ELSE t

(* set: overwrite or insert as the most recent slot, then evict the front. *)
Put(s, x, max) ==
  LET t == Append(Drop(s, x.key), x)
  IN  IF Len(t) > max THEN Tail(t) ELSE t
=============================================================================
