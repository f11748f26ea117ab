---------------------------- MODULE CacheManager ----------------------------
(***************************************************************************)
(* The cache manager: lookups go through the memory level, the Redis level *)
(* and the semantic index, copy what they find upwards, and interleave     *)
(* with writes, invalidations, expiry and a restart of the process.        *)
(* Source: cache/cache_manager.py, cache/strategies/exact_strategy.py,     *)
(* cache/strategies/semantic_strategy.py, cache/models/cache_entry.py.     *)
(*                                                                         *)
(* An entry carries its age since generation and the time it has left, so  *)
(* that no clock is needed. A Redis call that fails answers as a miss.     *)
(***************************************************************************)
EXTENDS LruStore

CONSTANTS
  L1Max,        \* max_size of the memory level
  Lookers,      \* coroutines that use the manager
  CacheKeys,
  Topic,        \* [CacheKeys -> meaning]: keys of one topic are similar enough
  Prompted,     \* [CacheKeys -> BOOLEAN]: the key was made with a system prompt
  Ttl,          \* time to live the classifier gives
  DefaultTtl,   \* cache_ttl_seconds
  NoKey

ASSUME CacheAssumption ==
  /\ L1Max \in Nat \ {0}
  /\ Prompted \in [CacheKeys -> BOOLEAN]
  /\ Ttl \in Nat \ {0} /\ DefaultTtl \in Nat \ {0}
  /\ NoKey \notin CacheKeys

VARIABLES
  l1,         \* memory level: sequence of [key, age, left], least recent first
  l2,         \* Redis level: set of such entries, Redis drops the expired ones
  index,      \* semantic index: set of [key, prompted]
  call,       \* [Lookers -> [pc, asked, key, age]]
  overlap,    \* invalidations that another operation ran beside (history)
  gone,       \* keys invalidated and not written since (history)
  served      \* the last answer: [asked, key, age] (history)

cacheVars == <<l1, l2, index, call, overlap, gone, served>>

Rest == [pc |-> "idle", asked |-> NoKey, key |-> NoKey, age |-> 0]
Nothing == [asked |-> NoKey, key |-> NoKey, age |-> 0]
Alive(x) == x.left > 0
Entry(k, age, left) == [key |-> k, age |-> age, left |-> left]
InL2(k) == {x \in l2 : x.key = k}

CacheInit ==
  /\ l1 = <<>> /\ l2 = {} /\ index = {}
  /\ call = [c \in Lookers |-> Rest]
  /\ overlap = {} /\ gone = {} /\ served = Nothing

(* Any operation that runs beside an invalidation overlaps with it. *)
Goes(c, pc, asked, key, age) ==
  /\ call' = [call EXCEPT ![c] = [pc |-> pc, asked |-> asked, key |-> key, age |-> age]]
  /\ overlap' = {d \in Lookers : /\ call'[d].pc = "invalidate"
                                 /\ \/ d \in overlap
                                    \/ \E e \in Lookers \ {d} : call'[e].pc # "idle"}

Ends(c) == Goes(c, "idle", NoKey, NoKey, 0)

Serve(asked, x) == served' = [asked |-> asked, key |-> x.key, age |-> x.age]

(* --- get --------------------------------------------------------------- *)

(* The memory level: a hit becomes the most recent slot, an expired slot   *)
(* is removed.                                                             *)
LookUp(c, k) ==
  /\ call[c].pc = "idle"
  /\ IF HasKey(l1, k) /\ Alive(SlotOf(l1, k))
       THEN /\ l1' = Touch(l1, k)
            /\ Serve(k, SlotOf(l1, k))
            /\ Ends(c)
       ELSE /\ l1' = Drop(l1, k)
            /\ Goes(c, "l2", k, k, 0)
            /\ UNCHANGED served
  /\ UNCHANGED <<l2, index, gone>>

(* The Redis level, for the key asked for or for the one a point names.   *)
ReadL2(c) ==
  /\ call[c].pc \in {"l2", "l2_similar"}
  /\ \/ \E x \in InL2(call[c].key) : Goes(c, "promote", call[c].asked, x.key, x.age)
     \/ call[c].pc = "l2" /\ Goes(c, "semantic", call[c].asked, call[c].key, 0)
     \/ call[c].pc = "l2_similar" /\ Ends(c)
  /\ UNCHANGED <<l1, l2, index, gone, served>>

\* Mutant. A hit is written to both levels again.
PromoteBoth(c) ==
  LET x == Entry(call[c].key, call[c].age, DefaultTtl)
  IN  /\ call[c].pc = "promote"
      /\ l1' = Put(l1, x, L1Max)
      /\ l2' = (l2 \ InL2(x.key)) \cup {x}
      /\ Serve(call[c].asked, x)
      /\ Ends(c)
      /\ UNCHANGED <<index, gone>>

(* _promote_to_l1: the copy starts a time to live of its own. *)
Promote(c) ==
  LET x == Entry(call[c].key, call[c].age, DefaultTtl)
  IN  /\ call[c].pc = "promote"
      /\ l1' = Put(l1, x, L1Max)
      /\ Serve(call[c].asked, x)
      /\ Ends(c)
      /\ UNCHANGED <<l2, index, gone>>

\* Mutant. find_similar without the filter on the system prompt.
MatchesAnyPrompt(k, p) == Topic[p.key] = Topic[k]

(* find_similar: the filter on the system prompt applies only when the     *)
(* lookup has one.                                                         *)
Matches(k, p) == Topic[p.key] = Topic[k] /\ (Prompted[k] => p.prompted)

(* The nearest point wins: the very same query before a similar one.       *)
Nearest(k) ==
  LET near == {p \in index : Matches(k, p)}
      same == {p \in near : p.key = k}
  IN  IF same # {} THEN same ELSE near

(* The entry behind the point, from the memory level as it is, or from the *)
(* Redis level with promotion; a point never leaves the index.             *)
FindSimilar(c) ==
  LET k == call[c].asked
  IN  /\ call[c].pc = "semantic"
      /\ \/ /\ Nearest(k) = {}
            /\ Ends(c)
            /\ UNCHANGED <<l1, served>>
         \/ \E p \in Nearest(k) :
              IF HasKey(l1, p.key) /\ Alive(SlotOf(l1, p.key))
                THEN /\ l1' = Touch(l1, p.key)
                     /\ Serve(k, SlotOf(l1, p.key))
                     /\ Ends(c)
                ELSE /\ l1' = Drop(l1, p.key)
                     /\ Goes(c, "l2_similar", k, p.key, 0)
                     /\ UNCHANGED served
      /\ UNCHANGED <<l2, index, gone>>

(* --- set --------------------------------------------------------------- *)

Write(c, k) ==
  /\ call[c].pc = "idle"
  /\ l1' = Put(l1, Entry(k, 0, Ttl), L1Max)
  /\ gone' = gone \ {k}
  /\ Goes(c, "set_l2", k, k, 0)
  /\ UNCHANGED <<l2, index, served>>

(* The Redis copy keeps the times of the entry; a failed write is skipped. *)
WriteL2(c) ==
  LET k == call[c].key
  IN  /\ call[c].pc = "set_l2"
      /\ \/ l2' = (l2 \ InL2(k)) \cup {Entry(k, 0, Ttl)}
         \/ UNCHANGED l2
      /\ Goes(c, "index", k, k, 0)
      /\ UNCHANGED <<l1, index, gone, served>>

IndexEntry(c) ==
  LET k == call[c].key
  IN  /\ call[c].pc = "index"
      /\ \/ index' = index \cup {[key |-> k, prompted |-> Prompted[k]]}
         \/ UNCHANGED index
      /\ Ends(c)
      /\ UNCHANGED <<l1, l2, gone, served>>

(* --- invalidate and clear_all ------------------------------------------ *)

Invalidate(c, k) ==
  /\ call[c].pc = "idle"
  /\ l1' = Drop(l1, k)
  /\ Goes(c, "invalidate", k, k, 0)
  /\ UNCHANGED <<l2, index, gone, served>>

\* Mutant. Only the memory level is invalidated.
InvalidateNoL2(c) ==
  LET k == call[c].key
  IN  /\ call[c].pc = "invalidate"
      /\ gone' = IF c \in overlap THEN gone ELSE gone \cup {k}
      /\ Ends(c)
      /\ UNCHANGED <<l1, l2, index, served>>

(* A delete that Redis does not get is reported like any other.            *)
InvalidateL2(c) ==
  LET k == call[c].key
  IN  /\ call[c].pc = "invalidate"
      /\ \/ /\ l2' = l2 \ InL2(k)
            /\ gone' = IF c \in overlap THEN gone ELSE gone \cup {k}
         \/ UNCHANGED <<l2, gone>>
      /\ Ends(c)
      /\ UNCHANGED <<l1, index, served>>

ClearAll(c) ==
  /\ call[c].pc = "idle"
  /\ l1' = <<>>
  /\ Goes(c, "clear", NoKey, NoKey, 0)
  /\ UNCHANGED <<l2, index, gone, served>>

ClearL2(c) ==
  /\ call[c].pc = "clear"
  /\ \/ l2' = {} \/ UNCHANGED l2
  /\ Ends(c)
  /\ UNCHANGED <<l1, index, gone, served>>

(* --- environment -------------------------------------------------------- *)

Older(x) == IF Alive(x) THEN Entry(x.key, x.age + 1, x.left - 1) ELSE x

(* Time passes for the entries. A tick is longer than the hand-over of an  *)
(* entry from one level to the other.                                      *)
CacheTick ==
  /\ \A c \in Lookers : call[c].pc \notin {"promote", "set_l2"}
  /\ l1' = [i \in DOMAIN l1 |-> Older(l1[i])]
  /\ l2' = {x \in {Older(y) : y \in l2} : Alive(x)}
  /\ UNCHANGED <<index, call, overlap, gone, served>>

(* A restart loses all but the Redis level. initialize warms the memory    *)
(* level with those of the recent entries it can read, as they are, and    *)
(* seeds the index from them, without their prompts.                       *)
Restart ==
  /\ \E n \in 0 .. L1Max : \E warm \in [1 .. n -> l2] :
       /\ \A i, j \in 1 .. n : warm[i] = warm[j] => i = j
       /\ l1' = warm
  /\ \E seeded \in SUBSET l2 : index' = {[key |-> x.key, prompted |-> FALSE] : x \in seeded}
  /\ call' = [c \in Lookers |-> Rest]
  /\ overlap' = {}
  /\ UNCHANGED <<l2, gone, served>>

CacheNext ==
  \/ \E c \in Lookers :
       \/ \E k \in CacheKeys : LookUp(c, k) \/ Write(c, k) \/ Invalidate(c, k)
       \/ ReadL2(c) \/ Promote(c) \/ FindSimilar(c) \/ WriteL2(c) \/ IndexEntry(c)
       \/ InvalidateL2(c) \/ ClearAll(c) \/ ClearL2(c)
  \/ CacheTick \/ Restart

CacheSpec == CacheInit /\ [][CacheNext]_cacheVars

(***************************************************************************)
(* Properties.                                                             *)
(***************************************************************************)
\* No answer is served that is older than the time to live it was given plus
\* one default time to live: copies move upwards only, so that an entry can
\* start over once.
ServedAgeBounded == served.age < Ttl + DefaultTtl

\* A lookup made with a system prompt is answered from entries made with one,
\* whatever was indexed, expired, promoted or seeded in between.
PromptRespected ==
  served.asked # NoKey /\ Prompted[served.asked] => Prompted[served.key]

\* An invalidation that reached both levels and had them to itself lasts until
\* the next write: neither promotion nor a restart brings the entry back.
InvalidatedStaysGone ==
  \A k \in gone : ~HasKey(l1, k) /\ InL2(k) = {}
=============================================================================
