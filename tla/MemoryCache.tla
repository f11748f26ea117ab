---------------------------- MODULE MemoryCache ----------------------------
(***************************************************************************)
(* The memory cache level: bounded, least recently used first out, with a  *)
(* time to live per slot that is enforced when the slot is looked at.      *)
(* Source: cache/backend/memory_backend.py.                                *)
(***************************************************************************)
EXTENDS LruStore, FiniteSets

CONSTANTS
  L1Max,        \* max_size
  MemoryKeys,   \* cache keys
  MemoryTtls    \* times to live a caller may ask for, in ticks

ASSUME MemoryAssumption == L1Max \in Nat \ {0} /\ MemoryTtls \subseteq Nat

VARIABLE
  memory        \* _store, as a sequence of [key, left]

memoryVars == <<memory>>

MemoryInit == memory = <<>>

Live(x) == x.left > 0

(* get, of a missing, an expired and a live slot. *)
MemoryGet(k) ==
  /\ HasKey(memory, k)
  /\ IF Live(SlotOf(memory, k))
       THEN memory' = Touch(memory, k)
       ELSE memory' = Drop(memory, k)

(* set: a time to live that is not positive stores nothing. *)
MemorySet(k, ttl) ==
  /\ ttl > 0
  /\ memory' = Put(memory, [key |-> k, left |-> ttl], L1Max)

(* exists: drops an expired slot, but is not a use of a live one. *)
MemoryExists(k) ==
  /\ HasKey(memory, k) /\ ~Live(SlotOf(memory, k))
  /\ memory' = Drop(memory, k)

MemoryDelete(k) ==
  /\ HasKey(memory, k)
  /\ memory' = Drop(memory, k)

MemoryClear == memory # <<>> /\ memory' = <<>>

(* The live slots keep their order. *)
EvictExpired ==
  LET live == {i \in DOMAIN memory : Live(memory[i])}
      left == 1 .. Cardinality(live)
  IN  /\ live # DOMAIN memory
      /\ \E at \in [left -> live] :
           /\ \A i, j \in left : i < j => at[i] < at[j]
           /\ memory' = [i \in left |-> memory[at[i]]]

MemoryTick ==
  /\ \E x \in Slots(memory) : Live(x)
  /\ memory' = [i \in DOMAIN memory |->
                  [memory[i] EXCEPT !.left = IF @ > 0 THEN @ - 1 ELSE 0]]

MemoryNext ==
  \/ \E k \in MemoryKeys : \/ MemoryGet(k) \/ MemoryExists(k) \/ MemoryDelete(k)
                           \/ \E ttl \in MemoryTtls : MemorySet(k, ttl)
  \/ MemoryClear \/ EvictExpired \/ MemoryTick

MemorySpec == MemoryInit /\ [][MemoryNext]_memoryVars

(***************************************************************************)
(* Properties.                                                             *)
(***************************************************************************)
\* The store never exceeds max_size and never holds a key twice, through any
\* sequence of inserts, overwrites, expiries and evictions.
MemoryBounded ==
  /\ Len(memory) <= L1Max
  /\ \A i, j \in DOMAIN memory : memory[i].key = memory[j].key => i = j
=============================================================================
