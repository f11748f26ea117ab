--------------------------- MODULE Contents_proofs ---------------------------
(***************************************************************************)
(* Proofs about what the program shows and keeps: the answers of the cache *)
(* manager, the conversations of the chat page and the schema of the       *)
(* migration runner, for any number of coroutines, keys, slots, questions, *)
(* conversations and commands.                                             *)
(***************************************************************************)
EXTENDS CacheManager, ChatConversations, SchemaMigrations, Data_proofs

(***************************************************************************)
(* The cache manager. CacheInv says of each level what its entries may     *)
(* still become (an age and a time left that cannot be outlived), of each  *)
(* call what it may still write, and of an invalidation that has met no    *)
(* other operation that it is alone and has emptied the memory level.      *)
(***************************************************************************)
CacheEntries == [key : CacheKeys, age : Nat, left : Nat]
Calls == [pc : {"idle", "l2", "l2_similar", "semantic", "promote", "set_l2", "index", "invalidate", "clear"},
          asked : CacheKeys \cup {NoKey}, key : CacheKeys \cup {NoKey}, age : Nat]

LevelsBounded ==
  /\ l1 \in Seq(CacheEntries) /\ Len(l1) <= L1Max /\ OneSlotEach(l1)
  /\ \A x \in Slots(l1) : x.age + x.left < Ttl + DefaultTtl /\ x.key \notin gone
  /\ l2 \subseteq CacheEntries
  /\ \A x \in l2 : x.left > 0 /\ x.age + x.left <= Ttl /\ x.key \notin gone
  /\ \A x, y \in l2 : x.key = y.key => x = y

IndexHonest ==
  /\ index \subseteq [key : CacheKeys, prompted : BOOLEAN]
  /\ \A p \in index : p.prompted => Prompted[p.key]

\* What a call in progress may still do, when the keys in g are gone.
Sound(r, g) ==
  /\ r.pc \notin {"idle", "clear"} => r.asked \in CacheKeys /\ r.key \in CacheKeys
  /\ r.pc = "promote" => r.age < Ttl
  /\ r.pc \in {"l2", "l2_similar", "promote"} => (Prompted[r.asked] => Prompted[r.key])
  /\ r.pc \in {"promote", "set_l2"} => r.key \notin g

CallsSound == call \in [Lookers -> Calls] /\ \A c \in Lookers : Sound(call[c], gone)

Undisturbed ==
  \A c \in Lookers :
    call[c].pc = "invalidate" /\ c \notin overlap =>
      /\ \A e \in Lookers \ {c} : call[e].pc = "idle"
      /\ \A x \in Slots(l1) : x.key # call[c].key

ServedSound ==
  /\ served.age \in Nat /\ served.age < Ttl + DefaultTtl
  /\ served.asked # NoKey =>
       served.asked \in CacheKeys /\ (Prompted[served.asked] => Prompted[served.key])

CacheInv == LevelsBounded /\ IndexHonest /\ CallsSound /\ Undisturbed /\ ServedSound

LEMMA CacheConstants ==
  /\ Prompted \in [CacheKeys -> BOOLEAN] /\ NoKey \notin CacheKeys
  /\ Ttl \in Nat /\ Ttl > 0 /\ DefaultTtl \in Nat /\ DefaultTtl > 0
  /\ L1Max \in Nat /\ L1Max > 0
BY CacheAssumption

LEMMA CacheInitially == CacheInit => CacheInv
<1> SUFFICES ASSUME CacheInit PROVE CacheInv
  OBVIOUS
<1>1. /\ l1 = <<>> /\ l2 = {} /\ index = {} /\ gone = {} /\ served = Nothing
      /\ call = [c \in Lookers |-> Rest]
  BY DEF CacheInit
<1>2. LevelsBounded
  <2>1. l1 \in Seq(CacheEntries) /\ Len(l1) = 0 /\ DOMAIN l1 = {} BY <1>1, EmptySeq
  <2>2. OneSlotEach(l1) /\ Slots(l1) = {} BY <2>1 DEF OneSlotEach, Slots
  <2> QED BY <1>1, <2>1, <2>2, CacheConstants DEF LevelsBounded
<1>3. IndexHonest BY <1>1 DEF IndexHonest
<1>4. CallsSound
  <2>1. Rest \in Calls /\ Rest.pc = "idle" BY DEF Rest, Calls
  <2> QED BY <1>1, <2>1 DEF CallsSound, Sound
<1>5. Undisturbed
  <2>1. Rest.pc = "idle" BY DEF Rest
  <2> QED BY <1>1, <2>1 DEF Undisturbed
<1>6. ServedSound BY <1>1, CacheConstants DEF ServedSound, Nothing
<1> QED BY <1>2, <1>3, <1>4, <1>5, <1>6 DEF CacheInv

LEMMA CacheFacts ==
  ASSUME CacheInv
  PROVE  /\ l1 \in Seq(CacheEntries) /\ Len(l1) \in Nat /\ DOMAIN l1 = 1 .. Len(l1)
         /\ Len(l1) <= L1Max /\ OneSlotEach(l1) /\ Slots(l1) \subseteq CacheEntries
         /\ \A x \in Slots(l1) : x.age + x.left < Ttl + DefaultTtl /\ x.key \notin gone
         /\ l2 \subseteq CacheEntries
         /\ \A x \in l2 : x.left > 0 /\ x.age + x.left <= Ttl /\ x.key \notin gone
         /\ \A x, y \in l2 : x.key = y.key => x = y
         /\ index \subseteq [key : CacheKeys, prompted : BOOLEAN]
         /\ \A p \in index : p.prompted => Prompted[p.key]
         /\ call \in [Lookers -> Calls] /\ \A c \in Lookers : Sound(call[c], gone)
<1>1. l1 \in Seq(CacheEntries) BY DEF CacheInv, LevelsBounded
<1>2. Len(l1) \in Nat /\ DOMAIN l1 = 1 .. Len(l1) /\ l1 \in [1 .. Len(l1) -> CacheEntries]
  BY <1>1, LenProperties
<1>3. Slots(l1) \subseteq CacheEntries BY <1>2 DEF Slots
<1> QED BY <1>1, <1>2, <1>3 DEF CacheInv, LevelsBounded, IndexHonest, CallsSound

\* One call moves on: what it may do next, and that it disturbs no invalidation.
LEMMA OneCall ==
  ASSUME CacheInv, NEW c \in Lookers, NEW pc, NEW k, NEW j, NEW n,
         Goes(c, pc, k, j, n),
         [pc |-> pc, asked |-> k, key |-> j, age |-> n] \in Calls,
         Sound([pc |-> pc, asked |-> k, key |-> j, age |-> n], gone'),
         \A e \in Lookers \ {c} : Sound(call[e], gone'),
         pc = "invalidate" => \A x \in Slots(l1') : x.key # j,
         pc = "idle" /\ call[c].pc = "idle" => Slots(l1') \subseteq Slots(l1)
  PROVE  CallsSound' /\ Undisturbed'
<1> DEFINE r == [pc |-> pc, asked |-> k, key |-> j, age |-> n]
<1>1. /\ call' = [call EXCEPT ![c] = r]
      /\ overlap' = {d \in Lookers : /\ call'[d].pc = "invalidate"
                                     /\ \/ d \in overlap
                                        \/ \E e \in Lookers \ {d} : call'[e].pc # "idle"}
  BY DEF Goes
<1>2. r \in Calls /\ r.pc = pc /\ r.key = j /\ Sound(r, gone') OBVIOUS
<1> HIDE DEF r
<1>3. /\ call' \in [Lookers -> Calls] /\ call'[c] = r
      /\ \A e \in Lookers \ {c} : call'[e] = call[e]
  BY <1>1, <1>2, CacheFacts
<1>4. \A e \in Lookers : Sound(call'[e], gone') BY <1>2, <1>3
<1>5. CallsSound' BY <1>3, <1>4 DEF CallsSound
<1>6. Undisturbed'
  <2> SUFFICES ASSUME NEW d \in Lookers, call'[d].pc = "invalidate", d \notin overlap'
               PROVE  /\ \A e \in Lookers \ {d} : call'[e].pc = "idle"
                      /\ \A x \in Slots(l1') : x.key # call'[d].key
    BY DEF Undisturbed
  <2>1. d \notin overlap /\ \A e \in Lookers \ {d} : call'[e].pc = "idle" BY <1>1
  <2>2. CASE d = c BY <1>2, <1>3, <2>1, <2>2
  <2>3. CASE d # c
    <3>1. pc = "idle" /\ call[d] = call'[d] BY <1>2, <1>3, <2>1, <2>3
    <3>2. call[c].pc = "idle" /\ \A x \in Slots(l1) : x.key # call[d].key
      BY <2>1, <2>3, <3>1 DEF CacheInv, Undisturbed
    <3> QED BY <2>1, <3>1, <3>2
  <2> QED BY <2>2, <2>3
<1> QED BY <1>5, <1>6

\* The idle record is sound whatever is gone.
LEMMA AtRest ==
  /\ [pc |-> "idle", asked |-> NoKey, key |-> NoKey, age |-> 0] \in Calls
  /\ \A g : Sound([pc |-> "idle", asked |-> NoKey, key |-> NoKey, age |-> 0], g)
  /\ Rest = [pc |-> "idle", asked |-> NoKey, key |-> NoKey, age |-> 0]
BY DEF Calls, Sound, Rest

LEMMA CallEnds ==
  ASSUME CacheInv, NEW c \in Lookers, Ends(c),
         \A e \in Lookers \ {c} : Sound(call[e], gone'),
         call[c].pc = "idle" => Slots(l1') \subseteq Slots(l1)
  PROVE  CallsSound' /\ Undisturbed'
<1>1. Goes(c, "idle", NoKey, NoKey, 0) BY DEF Ends
<1>2. "idle" # "invalidate" OBVIOUS
<1> QED BY <1>1, <1>2, AtRest, OneCall

LEMMA StillSound == ASSUME CacheInv, gone' = gone
                    PROVE  \A e \in Lookers : Sound(call[e], gone')
BY CacheFacts

\* The memory level after a use, a removal, a write.
LEMMA LevelsTouched ==
  ASSUME CacheInv, NEW k, HasKey(l1, k), l1' = Touch(l1, k), l2' = l2, gone' = gone
  PROVE  LevelsBounded' /\ Slots(l1') \subseteq Slots(l1)
<1>1. /\ l1' \in Seq(CacheEntries) /\ Len(l1') = Len(l1) /\ OneSlotEach(l1')
      /\ Slots(l1') \subseteq Slots(l1)
  BY CacheFacts, TouchSlots
<1> QED BY <1>1, CacheFacts DEF LevelsBounded

LEMMA LevelsDropped ==
  ASSUME CacheInv, NEW k, l1' = Drop(l1, k), l2' = l2, gone' = gone
  PROVE  /\ LevelsBounded' /\ Slots(l1') \subseteq Slots(l1)
         /\ \A x \in Slots(l1') : x.key # k
<1>1. /\ l1' \in Seq(CacheEntries) /\ Len(l1') <= Len(l1) /\ OneSlotEach(l1')
      /\ Slots(l1') \subseteq Slots(l1) /\ ~HasKey(l1', k)
  BY CacheFacts, DropSlots
<1>2. Len(l1') \in Nat /\ L1Max \in Nat BY <1>1, LenProperties, CacheConstants
<1>3. Len(l1') <= L1Max BY <1>1, <1>2, CacheFacts
<1> QED BY <1>1, <1>3, CacheFacts DEF LevelsBounded, HasKey

LEMMA LevelsPut ==
  ASSUME CacheInv, NEW x \in CacheEntries, l1' = Put(l1, x, L1Max), l2' = l2, gone' \subseteq gone,
         x.age + x.left < Ttl + DefaultTtl, x.key \notin gone'
  PROVE  LevelsBounded'
<1>1. /\ l1' \in Seq(CacheEntries) /\ Len(l1') <= L1Max /\ OneSlotEach(l1')
      /\ Slots(l1') \subseteq Slots(l1) \cup {x}
  BY CacheFacts, CacheConstants, PutSlots
<1>2. \A y \in Slots(l1') : y.age + y.left < Ttl + DefaultTtl /\ y.key \notin gone'
  BY <1>1, CacheFacts
<1>3. \A y \in l2 : y.left > 0 /\ y.age + y.left <= Ttl /\ y.key \notin gone' BY CacheFacts
<1> QED BY <1>1, <1>2, <1>3, CacheFacts DEF LevelsBounded

LEMMA IndexSame == ASSUME CacheInv, index' = index PROVE IndexHonest'
BY DEF CacheInv, IndexHonest

LEMMA ServedSame == ASSUME CacheInv, served' = served PROVE ServedSound'
BY DEF CacheInv, ServedSound

\* An answer from a slot of the memory level.
LEMMA ServedSlot ==
  ASSUME CacheInv, NEW k \in CacheKeys, NEW x \in CacheEntries, Serve(k, x),
         x.age < Ttl + DefaultTtl, Prompted[k] => Prompted[x.key]
  PROVE  ServedSound'
<1>1. served' = [asked |-> k, key |-> x.key, age |-> x.age] BY DEF Serve
<1>2. x.age \in Nat BY DEF CacheEntries
<1> QED BY <1>1, <1>2 DEF ServedSound

LEMMA SlotServed ==
  ASSUME CacheInv, NEW k, HasKey(l1, k)
  PROVE  /\ SlotOf(l1, k) \in CacheEntries /\ SlotOf(l1, k).key = k
         /\ SlotOf(l1, k).age < Ttl + DefaultTtl
<1>1. SlotOf(l1, k) \in Slots(l1) /\ SlotOf(l1, k).key = k BY SlotOfKey
<1>2. SlotOf(l1, k) \in CacheEntries BY <1>1, CacheFacts
<1>3. SlotOf(l1, k).age \in Nat /\ SlotOf(l1, k).left \in Nat BY <1>2 DEF CacheEntries
<1>4. SlotOf(l1, k).age + SlotOf(l1, k).left < Ttl + DefaultTtl BY <1>1, CacheFacts
<1>5. SlotOf(l1, k).age < Ttl + DefaultTtl
  <2>1. \A a, l, b \in Nat : a + l < b => a < b OBVIOUS
  <2>2. Ttl + DefaultTtl \in Nat BY CacheConstants
  <2> QED BY <1>3, <1>4, <2>1, <2>2
<1> QED BY <1>1, <1>2, <1>5

LEMMA LookUpKeeps ==
  ASSUME CacheInv, NEW c \in Lookers, NEW k \in CacheKeys, LookUp(c, k)
  PROVE  CacheInv'
<1>1. /\ call[c].pc = "idle" /\ l2' = l2 /\ index' = index /\ gone' = gone
  BY DEF LookUp
<1>2. IndexHonest' /\ \A e \in Lookers \ {c} : Sound(call[e], gone')
  BY <1>1, IndexSame, StillSound
<1>3. CASE HasKey(l1, k) /\ Alive(SlotOf(l1, k))
  <2>1. l1' = Touch(l1, k) /\ Serve(k, SlotOf(l1, k)) /\ Ends(c) BY <1>3 DEF LookUp
  <2>2. LevelsBounded' /\ Slots(l1') \subseteq Slots(l1) BY <1>1, <1>3, <2>1, LevelsTouched
  <2>3. CallsSound' /\ Undisturbed' BY <1>2, <2>1, <2>2, CallEnds
  <2>4. ServedSound' BY <1>3, <2>1, SlotServed, ServedSlot
  <2> QED BY <1>2, <2>2, <2>3, <2>4 DEF CacheInv
<1>4. CASE ~(HasKey(l1, k) /\ Alive(SlotOf(l1, k)))
  <2>1. l1' = Drop(l1, k) /\ Goes(c, "l2", k, k, 0) /\ served' = served BY <1>4 DEF LookUp
  <2>2. LevelsBounded' BY <1>1, <2>1, LevelsDropped
  <2>3. /\ [pc |-> "l2", asked |-> k, key |-> k, age |-> 0] \in Calls
        /\ Sound([pc |-> "l2", asked |-> k, key |-> k, age |-> 0], gone')
    BY DEF Calls, Sound
  <2>4. CallsSound' /\ Undisturbed' BY <1>2, <2>1, <2>3, OneCall
  <2> QED BY <1>2, <2>1, <2>2, <2>4, ServedSame DEF CacheInv
<1> QED BY <1>3, <1>4

LEMMA CallFields ==
  ASSUME CacheInv, NEW c \in Lookers
  PROVE  /\ call[c].asked \in CacheKeys \cup {NoKey} /\ call[c].key \in CacheKeys \cup {NoKey}
         /\ call[c].age \in Nat /\ Sound(call[c], gone)
<1>1. call[c] \in Calls /\ Sound(call[c], gone) BY CacheFacts
<1> QED BY <1>1 DEF Calls

\* What a step leaves alone when it only moves a call on.
LEMMA LevelsSame ==
  ASSUME CacheInv, l1' = l1, l2' = l2, gone' = gone
  PROVE  LevelsBounded'
BY DEF CacheInv, LevelsBounded

LEMMA ReadL2Keeps ==
  ASSUME CacheInv, NEW c \in Lookers, ReadL2(c)
  PROVE  CacheInv'
<1>1. /\ call[c].pc \in {"l2", "l2_similar"} /\ l1' = l1 /\ l2' = l2 /\ index' = index
      /\ gone' = gone /\ served' = served
  BY DEF ReadL2
<1>2. /\ LevelsBounded' /\ IndexHonest' /\ ServedSound'
      /\ \A e \in Lookers \ {c} : Sound(call[e], gone')
  BY <1>1, LevelsSame, IndexSame, ServedSame, StillSound
<1>3. /\ call[c].asked \in CacheKeys /\ call[c].key \in CacheKeys
      /\ Prompted[call[c].asked] => Prompted[call[c].key]
  BY <1>1, CallFields DEF Sound
<1>4. ASSUME NEW x \in InL2(call[c].key), Goes(c, "promote", call[c].asked, x.key, x.age)
      PROVE  CallsSound' /\ Undisturbed'
  <2>1. /\ x \in CacheEntries /\ x.left > 0 /\ x.age + x.left <= Ttl /\ x.key \notin gone
        /\ x.key = call[c].key
    BY CacheFacts DEF InL2
  <2>2. x.age \in Nat /\ x.left \in Nat BY <2>1 DEF CacheEntries
  <2>3. x.age < Ttl BY <2>1, <2>2, CacheConstants
  <2>4. /\ [pc |-> "promote", asked |-> call[c].asked, key |-> x.key, age |-> x.age] \in Calls
        /\ Sound([pc |-> "promote", asked |-> call[c].asked, key |-> x.key, age |-> x.age], gone')
    BY <1>1, <1>3, <2>1, <2>2, <2>3 DEF Calls, Sound
  <2> QED BY <1>2, <1>4, <2>4, OneCall
<1>5. ASSUME Goes(c, "semantic", call[c].asked, call[c].key, 0)
      PROVE  CallsSound' /\ Undisturbed'
  <2>1. /\ [pc |-> "semantic", asked |-> call[c].asked, key |-> call[c].key, age |-> 0] \in Calls
        /\ Sound([pc |-> "semantic", asked |-> call[c].asked, key |-> call[c].key, age |-> 0], gone')
    BY <1>3 DEF Calls, Sound
  <2> QED BY <1>2, <1>5, <2>1, OneCall
<1>6. ASSUME Ends(c) PROVE CallsSound' /\ Undisturbed'
  BY <1>1, <1>2, <1>6, CallEnds
<1>7. CallsSound' /\ Undisturbed' BY <1>4, <1>5, <1>6 DEF ReadL2
<1> QED BY <1>2, <1>7 DEF CacheInv

LEMMA PromoteKeeps ==
  ASSUME CacheInv, NEW c \in Lookers, Promote(c)
  PROVE  CacheInv'
<1> DEFINE x == Entry(call[c].key, call[c].age, DefaultTtl)
<1>1. /\ call[c].pc = "promote" /\ l1' = Put(l1, x, L1Max) /\ Serve(call[c].asked, x) /\ Ends(c)
      /\ l2' = l2 /\ index' = index /\ gone' = gone
  BY DEF Promote
<1>2. /\ call[c].asked \in CacheKeys /\ call[c].key \in CacheKeys /\ call[c].age \in Nat
      /\ call[c].age < Ttl /\ call[c].key \notin gone
      /\ Prompted[call[c].asked] => Prompted[call[c].key]
  BY <1>1, CallFields DEF Sound
<1>3. /\ x \in CacheEntries /\ x.key = call[c].key /\ x.age = call[c].age /\ x.left = DefaultTtl
  BY <1>2, CacheConstants DEF Entry, CacheEntries
<1> HIDE DEF x
<1>4. x.age + x.left < Ttl + DefaultTtl /\ x.age < Ttl + DefaultTtl
  BY <1>2, <1>3, CacheConstants
<1>5. LevelsBounded' BY <1>1, <1>2, <1>3, <1>4, LevelsPut
<1>6. ServedSound' BY <1>1, <1>2, <1>3, <1>4, ServedSlot
<1>7. CallsSound' /\ Undisturbed' BY <1>1, CallEnds, StillSound
<1> QED BY <1>1, <1>5, <1>6, <1>7, IndexSame DEF CacheInv

LEMMA FindSimilarKeeps ==
  ASSUME CacheInv, NEW c \in Lookers, FindSimilar(c)
  PROVE  CacheInv'
<1> DEFINE k == call[c].asked
<1>1. call[c].pc = "semantic" /\ l2' = l2 /\ index' = index /\ gone' = gone BY DEF FindSimilar
<1>2. IndexHonest' /\ \A e \in Lookers \ {c} : Sound(call[e], gone')
  BY <1>1, IndexSame, StillSound
<1>3. k \in CacheKeys BY <1>1, CallFields DEF Sound
<1>4. CASE Ends(c) /\ l1' = l1 /\ served' = served
  <2>1. LevelsBounded' /\ ServedSound' BY <1>1, <1>4, LevelsSame, ServedSame
  <2>2. CallsSound' /\ Undisturbed' BY <1>1, <1>2, <1>4, CallEnds
  <2> QED BY <1>2, <2>1, <2>2 DEF CacheInv
<1>5. ASSUME NEW p \in Nearest(k), HasKey(l1, p.key), l1' = Touch(l1, p.key),
             Serve(k, SlotOf(l1, p.key)), Ends(c)
      PROVE  CacheInv'
  <2>1. Prompted[k] => Prompted[p.key] BY CacheFacts DEF Nearest, Matches
  <2>2. LevelsBounded' /\ Slots(l1') \subseteq Slots(l1) BY <1>1, <1>5, LevelsTouched
  <2>3. CallsSound' /\ Undisturbed' BY <1>1, <1>2, <1>5, <2>2, CallEnds
  <2>4. /\ SlotOf(l1, p.key) \in CacheEntries /\ SlotOf(l1, p.key).key = p.key
        /\ SlotOf(l1, p.key).age < Ttl + DefaultTtl
    BY <1>5, SlotServed
  <2>5. Prompted[k] => Prompted[SlotOf(l1, p.key).key] BY <2>1, <2>4
  <2>6. ServedSound' BY <1>3, <1>5, <2>4, <2>5, ServedSlot
  <2> QED BY <1>2, <2>2, <2>3, <2>6 DEF CacheInv
<1>6. ASSUME NEW p \in Nearest(k), l1' = Drop(l1, p.key), Goes(c, "l2_similar", k, p.key, 0),
             served' = served
      PROVE  CacheInv'
  <2>1. p \in index /\ (Prompted[k] => Prompted[p.key]) BY CacheFacts DEF Nearest, Matches
  <2>2. p.key \in CacheKeys BY <2>1, CacheFacts
  <2>3. LevelsBounded' BY <1>1, <1>6, LevelsDropped
  <2>4. /\ [pc |-> "l2_similar", asked |-> k, key |-> p.key, age |-> 0] \in Calls
        /\ Sound([pc |-> "l2_similar", asked |-> k, key |-> p.key, age |-> 0], gone')
    BY <1>3, <2>1, <2>2 DEF Calls, Sound
  <2>5. CallsSound' /\ Undisturbed' BY <1>2, <1>6, <2>4, OneCall
  <2> QED BY <1>2, <1>6, <2>3, <2>5, ServedSame DEF CacheInv
<1> QED BY <1>4, <1>5, <1>6 DEF FindSimilar

LEMMA WriteKeeps ==
  ASSUME CacheInv, NEW c \in Lookers, NEW k \in CacheKeys, Write(c, k)
  PROVE  CacheInv'
<1> DEFINE x == Entry(k, 0, Ttl)
<1>1. /\ call[c].pc = "idle" /\ l1' = Put(l1, x, L1Max) /\ gone' = gone \ {k}
      /\ Goes(c, "set_l2", k, k, 0) /\ l2' = l2 /\ index' = index /\ served' = served
  BY DEF Write
<1>2. x \in CacheEntries /\ x.key = k /\ x.age + x.left < Ttl + DefaultTtl
  BY CacheConstants DEF Entry, CacheEntries
<1> HIDE DEF x
<1>3. LevelsBounded'
  <2>1. gone' \subseteq gone /\ x.key \notin gone' BY <1>1, <1>2
  <2> QED BY <1>1, <1>2, <2>1, LevelsPut
<1>4. /\ [pc |-> "set_l2", asked |-> k, key |-> k, age |-> 0] \in Calls
      /\ Sound([pc |-> "set_l2", asked |-> k, key |-> k, age |-> 0], gone')
  BY <1>1 DEF Calls, Sound
<1>5. \A e \in Lookers \ {c} : Sound(call[e], gone') BY <1>1, CacheFacts DEF Sound
<1>6. CallsSound' /\ Undisturbed' BY <1>1, <1>4, <1>5, OneCall
<1> QED BY <1>1, <1>3, <1>6, IndexSame, ServedSame DEF CacheInv

LEMMA WriteL2Keeps ==
  ASSUME CacheInv, NEW c \in Lookers, WriteL2(c)
  PROVE  CacheInv'
<1> DEFINE k == call[c].key
           x == Entry(k, 0, Ttl)
<1>1. /\ call[c].pc = "set_l2" /\ Goes(c, "index", k, k, 0) /\ l1' = l1 /\ index' = index
      /\ gone' = gone /\ served' = served
      /\ l2' = (l2 \ InL2(k)) \cup {x} \/ l2' = l2
  BY DEF WriteL2
<1>2. k \in CacheKeys /\ k \notin gone BY <1>1, CallFields DEF Sound
<1>3. x \in CacheEntries /\ x.key = k /\ x.left > 0 /\ x.age + x.left <= Ttl
  BY <1>2, CacheConstants DEF Entry, CacheEntries
<1>4. LevelsBounded'
  <2>1. CASE l2' = l2 BY <1>1, <2>1, LevelsSame
  <2>2. CASE l2' = (l2 \ InL2(k)) \cup {x}
    <3> HIDE DEF x
    <3>1. \A y \in l2' : (y \in l2 /\ y.key # k) \/ y = x BY <2>2 DEF InL2
    <3>2. /\ l2' \subseteq CacheEntries
          /\ \A y \in l2' : y.left > 0 /\ y.age + y.left <= Ttl /\ y.key \notin gone
      BY <1>2, <1>3, <3>1, CacheFacts
    <3>3. \A y, z \in l2' : y.key = z.key => y = z BY <1>3, <3>1, CacheFacts
    <3> QED BY <1>1, <3>2, <3>3, CacheFacts DEF LevelsBounded
  <2> QED BY <1>1, <2>1, <2>2
<1>5. /\ [pc |-> "index", asked |-> k, key |-> k, age |-> 0] \in Calls
      /\ Sound([pc |-> "index", asked |-> k, key |-> k, age |-> 0], gone')
  BY <1>2 DEF Calls, Sound
<1>6. CallsSound' /\ Undisturbed' BY <1>1, <1>5, OneCall, StillSound
<1> QED BY <1>1, <1>4, <1>6, IndexSame, ServedSame DEF CacheInv

LEMMA IndexEntryKeeps ==
  ASSUME CacheInv, NEW c \in Lookers, IndexEntry(c)
  PROVE  CacheInv'
<1> DEFINE k == call[c].key
<1>1. /\ call[c].pc = "index" /\ Ends(c) /\ l1' = l1 /\ l2' = l2 /\ gone' = gone /\ served' = served
      /\ index' = index \cup {[key |-> k, prompted |-> Prompted[k]]} \/ index' = index
  BY DEF IndexEntry
<1>2. k \in CacheKeys BY <1>1, CallFields DEF Sound
<1>3. IndexHonest'
  <2>1. Prompted[k] \in BOOLEAN BY <1>2, CacheConstants
  <2> QED BY <1>1, <1>2, <2>1, CacheFacts DEF IndexHonest
<1>4. CallsSound' /\ Undisturbed' BY <1>1, CallEnds, StillSound
<1> QED BY <1>1, <1>3, <1>4, LevelsSame, ServedSame DEF CacheInv

LEMMA InvalidateKeeps ==
  ASSUME CacheInv, NEW c \in Lookers, NEW k \in CacheKeys, Invalidate(c, k)
  PROVE  CacheInv'
<1>1. /\ l1' = Drop(l1, k) /\ Goes(c, "invalidate", k, k, 0)
      /\ l2' = l2 /\ index' = index /\ gone' = gone /\ served' = served
  BY DEF Invalidate
<1>2. LevelsBounded' /\ \A x \in Slots(l1') : x.key # k BY <1>1, LevelsDropped
<1>3. /\ [pc |-> "invalidate", asked |-> k, key |-> k, age |-> 0] \in Calls
      /\ Sound([pc |-> "invalidate", asked |-> k, key |-> k, age |-> 0], gone')
  BY DEF Calls, Sound
<1>4. CallsSound' /\ Undisturbed' BY <1>1, <1>2, <1>3, OneCall, StillSound
<1> QED BY <1>1, <1>2, <1>4, IndexSame, ServedSame DEF CacheInv

LEMMA InvalidateL2Keeps ==
  ASSUME CacheInv, NEW c \in Lookers, InvalidateL2(c)
  PROVE  CacheInv'
<1> DEFINE k == call[c].key
<1>1. /\ call[c].pc = "invalidate" /\ Ends(c) /\ l1' = l1 /\ index' = index /\ served' = served
      /\ \/ /\ l2' = l2 \ InL2(k)
            /\ gone' = IF c \in overlap THEN gone ELSE gone \cup {k}
         \/ l2' = l2 /\ gone' = gone
  BY DEF InvalidateL2
<1>2. CASE l2' = l2 /\ gone' = gone
  <2>1. LevelsBounded' BY <1>1, <1>2, LevelsSame
  <2>2. CallsSound' /\ Undisturbed' BY <1>1, <1>2, CallEnds, StillSound
  <2> QED BY <1>1, <2>1, <2>2, IndexSame, ServedSame DEF CacheInv
<1>3. CASE l2' = l2 \ InL2(k) /\ gone' = IF c \in overlap THEN gone ELSE gone \cup {k}
  <2>1. /\ \A x \in Slots(l1) : x.key \notin gone'
        /\ \A e \in Lookers \ {c} : Sound(call[e], gone')
    <3>1. CASE c \in overlap BY <1>3, <3>1, CacheFacts
    <3>2. CASE c \notin overlap
      <4>1. /\ gone' = gone \cup {k}
            /\ \A e \in Lookers \ {c} : call[e].pc = "idle"
            /\ \A x \in Slots(l1) : x.key # k
        BY <1>1, <1>3, <3>2 DEF CacheInv, Undisturbed
      <4>2. \A e \in Lookers \ {c} : Sound(call[e], gone') BY <4>1 DEF Sound
      <4> QED BY <4>1, <4>2, CacheFacts
    <3> QED BY <3>1, <3>2
  <2>2. \A x \in l2' : x \in l2 /\ x.key # k BY <1>3 DEF InL2
  <2>3. \A x \in l2' : x.key \notin gone' BY <1>3, <2>2, CacheFacts
  <2>4. LevelsBounded' BY <1>1, <2>1, <2>2, <2>3, CacheFacts DEF LevelsBounded
  <2>5. CallsSound' /\ Undisturbed' BY <1>1, <2>1, CallEnds
  <2> QED BY <1>1, <2>4, <2>5, IndexSame, ServedSame DEF CacheInv
<1> QED BY <1>1, <1>2, <1>3

LEMMA ClearKeeps ==
  ASSUME CacheInv, NEW c \in Lookers, ClearAll(c) \/ ClearL2(c)
  PROVE  CacheInv'
<1>1. CASE ClearAll(c)
  <2>1. /\ l1' = <<>> /\ Goes(c, "clear", NoKey, NoKey, 0) /\ l2' = l2 /\ index' = index
        /\ gone' = gone /\ served' = served
    BY <1>1 DEF ClearAll
  <2>2. l1' \in Seq(CacheEntries) /\ Len(l1') = 0 /\ DOMAIN l1' = {} BY <2>1, EmptySeq
  <2>3. OneSlotEach(l1') /\ Slots(l1') = {} BY <2>2 DEF OneSlotEach, Slots
  <2>4. LevelsBounded' BY <2>1, <2>2, <2>3, CacheFacts, CacheConstants DEF LevelsBounded
  <2>5. /\ [pc |-> "clear", asked |-> NoKey, key |-> NoKey, age |-> 0] \in Calls
        /\ Sound([pc |-> "clear", asked |-> NoKey, key |-> NoKey, age |-> 0], gone')
    BY DEF Calls, Sound
  <2>6. CallsSound' /\ Undisturbed' BY <2>1, <2>5, OneCall, StillSound
  <2> QED BY <2>1, <2>4, <2>6, IndexSame, ServedSame DEF CacheInv
<1>2. CASE ClearL2(c)
  <2>1. /\ call[c].pc = "clear" /\ Ends(c) /\ (l2' = {} \/ l2' = l2) /\ l1' = l1 /\ index' = index
        /\ gone' = gone /\ served' = served
    BY <1>2 DEF ClearL2
  <2>2. LevelsBounded' BY <2>1, CacheFacts DEF LevelsBounded
  <2>3. CallsSound' /\ Undisturbed' BY <2>1, CallEnds, StillSound
  <2> QED BY <2>1, <2>2, <2>3, IndexSame, ServedSame DEF CacheInv
<1> QED BY <1>1, <1>2

\* Time makes an entry older by what it takes off the time left.
LEMMA OlderEntry ==
  ASSUME NEW x \in CacheEntries
  PROVE  /\ Older(x) \in CacheEntries /\ Older(x).key = x.key
         /\ Older(x).age + Older(x).left = x.age + x.left
<1>1. x.key \in CacheKeys /\ x.age \in Nat /\ x.left \in Nat BY DEF CacheEntries
<1>2. CASE x.left > 0
  <2> DEFINE y == [key |-> x.key, age |-> x.age + 1, left |-> x.left - 1]
  <2>1. Older(x) = y BY <1>2 DEF Older, Alive, Entry
  <2>2. y \in CacheEntries /\ y.key = x.key BY <1>1, <1>2 DEF CacheEntries
  <2>3. y.age + y.left = x.age + x.left BY <1>1
  <2> QED BY <2>1, <2>2, <2>3
<1>3. CASE ~(x.left > 0) BY <1>3 DEF Older, Alive
<1> QED BY <1>2, <1>3

LEMMA CacheTickKeeps ==
  ASSUME CacheInv, CacheTick
  PROVE  CacheInv'
<1>1. /\ l1' = [i \in DOMAIN l1 |-> Older(l1[i])]
      /\ l2' = {x \in {Older(y) : y \in l2} : Alive(x)}
      /\ index' = index /\ call' = call /\ overlap' = overlap /\ gone' = gone /\ served' = served
  BY DEF CacheTick
<1>2. \A i \in DOMAIN l1 : l1[i] \in Slots(l1) /\ l1[i] \in CacheEntries BY CacheFacts DEF Slots
<1>3. l1' \in [1 .. Len(l1) -> CacheEntries] BY <1>1, <1>2, CacheFacts, OlderEntry
<1>4. l1' \in Seq(CacheEntries) /\ Len(l1') = Len(l1) /\ DOMAIN l1' = DOMAIN l1
  BY <1>1, <1>3, CacheFacts, FunctionIsSeq
<1>5. \A x \in Slots(l1') : \E y \in Slots(l1) : x.key = y.key /\ x.age + x.left = y.age + y.left
  <2> SUFFICES ASSUME NEW i \in DOMAIN l1
               PROVE  /\ l1'[i].key = l1[i].key
                      /\ l1'[i].age + l1'[i].left = l1[i].age + l1[i].left
    BY <1>2, <1>4 DEF Slots
  <2> QED BY <1>1, <1>2, OlderEntry
<1>6. OneSlotEach(l1')
  <2> SUFFICES ASSUME NEW i \in DOMAIN l1, NEW j \in DOMAIN l1, l1'[i].key = l1'[j].key PROVE i = j
    BY <1>4 DEF OneSlotEach
  <2>1. l1'[i].key = l1[i].key /\ l1'[j].key = l1[j].key BY <1>1, <1>2, OlderEntry
  <2> QED BY <2>1, CacheFacts DEF OneSlotEach
<1>7. \A x \in l2' : x.left > 0 /\ \E y \in l2 : x = Older(y) /\ y \in CacheEntries
  BY <1>1, CacheFacts DEF Alive
<1>8. /\ l2' \subseteq CacheEntries
      /\ \A x \in l2' : x.left > 0 /\ x.age + x.left <= Ttl /\ x.key \notin gone
  BY <1>7, CacheFacts, OlderEntry
<1>9. \A x, y \in l2' : x.key = y.key => x = y BY <1>7, CacheFacts, OlderEntry
<1>10. LevelsBounded' BY <1>1, <1>4, <1>5, <1>6, <1>8, <1>9, CacheFacts DEF LevelsBounded
<1>11. CallsSound' BY <1>1 DEF CacheInv, CallsSound
<1>12. Undisturbed' BY <1>1, <1>5 DEF CacheInv, Undisturbed
<1> QED BY <1>1, <1>10, <1>11, <1>12, IndexSame, ServedSame DEF CacheInv

LEMMA RestartKeeps ==
  ASSUME CacheInv, Restart
  PROVE  CacheInv'
<1>1. /\ call' = [c \in Lookers |-> Rest] /\ l2' = l2 /\ gone' = gone /\ served' = served
      /\ \E n \in 0 .. L1Max : \E warm \in [1 .. n -> l2] :
           /\ \A i, j \in 1 .. n : warm[i] = warm[j] => i = j
           /\ l1' = warm
      /\ \E seeded \in SUBSET l2 : index' = {[key |-> x.key, prompted |-> FALSE] : x \in seeded}
  BY DEF Restart
<1>2. PICK n \in 0 .. L1Max : /\ l1' \in [1 .. n -> l2]
                              /\ \A i, j \in 1 .. n : l1'[i] = l1'[j] => i = j
  BY <1>1
<1>3. n \in Nat /\ n <= L1Max BY CacheConstants
<1>4. l1' \in [1 .. n -> CacheEntries] BY <1>2, CacheFacts
<1>5. l1' \in Seq(CacheEntries) /\ Len(l1') = n /\ DOMAIN l1' = 1 .. n
  BY <1>3, <1>4, FunctionIsSeq
<1>6. Slots(l1') \subseteq l2 BY <1>2, <1>5 DEF Slots
<1>7. OneSlotEach(l1') BY <1>2, <1>5, CacheFacts DEF OneSlotEach
<1>8. \A x \in l2 : x.age + x.left < Ttl + DefaultTtl
  <2> SUFFICES ASSUME NEW x \in l2 PROVE x.age + x.left < Ttl + DefaultTtl
    OBVIOUS
  <2>1. x.age \in Nat /\ x.left \in Nat /\ x.age + x.left <= Ttl BY CacheFacts DEF CacheEntries
  <2> QED BY <2>1, CacheConstants
<1>9. LevelsBounded' BY <1>1, <1>3, <1>5, <1>6, <1>7, <1>8, CacheFacts DEF LevelsBounded
<1>10. IndexHonest'
  <2>1. \A x \in l2 : x.key \in CacheKeys BY CacheFacts DEF CacheEntries
  <2>2. PICK seeded \in SUBSET l2 : index' = {[key |-> x.key, prompted |-> FALSE] : x \in seeded}
    BY <1>1
  <2>3. \A p \in index' : p \in [key : CacheKeys, prompted : BOOLEAN] /\ ~p.prompted
    <3> SUFFICES ASSUME NEW x \in seeded
                 PROVE  /\ [key |-> x.key, prompted |-> FALSE] \in [key : CacheKeys, prompted : BOOLEAN]
                        /\ ~[key |-> x.key, prompted |-> FALSE].prompted
      BY <2>2
    <3>1. x.key \in CacheKeys BY <2>1
    <3> QED BY <3>1
  <2> QED BY <2>3 DEF IndexHonest
<1>11. CallsSound' BY <1>1, AtRest DEF CallsSound
<1>12. Undisturbed'
  <2>1. Rest.pc = "idle" BY DEF Rest
  <2> QED BY <1>1, <2>1 DEF Undisturbed
<1> QED BY <1>1, <1>9, <1>10, <1>11, <1>12, ServedSame DEF CacheInv

LEMMA CacheStep == CacheInv /\ [CacheNext]_cacheVars => CacheInv'
<1> SUFFICES ASSUME CacheInv, [CacheNext]_cacheVars PROVE CacheInv'
  OBVIOUS
<1>1. CASE UNCHANGED cacheVars
  BY <1>1 DEF cacheVars, CacheInv, LevelsBounded, IndexHonest, CallsSound, Undisturbed, ServedSound
<1>2. CASE CacheNext
  BY <1>2, LookUpKeeps, WriteKeeps, InvalidateKeeps, ReadL2Keeps, PromoteKeeps, FindSimilarKeeps,
     WriteL2Keeps, IndexEntryKeeps, InvalidateL2Keeps, ClearKeeps, CacheTickKeeps, RestartKeeps
  DEF CacheNext
<1> QED BY <1>1, <1>2

\* No answer outlives the time to live it was given plus one default time to
\* live, whatever copies were made of it on the way and whenever the process
\* restarted: only the Redis level hands entries on, and it holds no entry
\* longer than its own time to live.
THEOREM AnswersAreFresh == CacheSpec => []ServedAgeBounded
<1>1. CacheInv => ServedAgeBounded BY DEF CacheInv, ServedSound, ServedAgeBounded
<1> QED BY <1>1, CacheInitially, CacheStep, PTL DEF CacheSpec

\* A lookup made with a system prompt is answered from entries made with one.
THEOREM PromptsAreKept == CacheSpec => []PromptRespected
<1>1. CacheInv => PromptRespected BY DEF CacheInv, ServedSound, PromptRespected
<1> QED BY <1>1, CacheInitially, CacheStep, PTL DEF CacheSpec

\* What an undisturbed invalidation removed from both levels stays away until
\* it is written again: no call still carries it, and a restart warms the memory
\* level from the Redis level only.
THEOREM InvalidationsLast == CacheSpec => []InvalidatedStaysGone
<1>1. CacheInv => InvalidatedStaysGone
  BY CacheFacts DEF InvalidatedStaysGone, HasKey, InL2
<1> QED BY <1>1, CacheInitially, CacheStep, PTL DEF CacheSpec

(***************************************************************************)
(* The chat page. ChatInv says that every message and every query under    *)
(* way is where its question was asked, and of a conversation whose        *)
(* queries never overlapped that its answers follow their questions and    *)
(* that the query under way, if any, will answer the message before the    *)
(* place it was given (Awaits).                                            *)
(***************************************************************************)
Messages == {"user", "assistant"} \X Nat
Flights == [chat : Chats, question : Nat, at : Nat, mounted : BOOLEAN]

ChatTypes ==
  /\ chats \in Seq(Chats) /\ \A i, j \in DOMAIN chats : chats[i] = chats[j] => i = j
  /\ log \in [Chats -> Seq(Messages)]
  /\ active \in Chats \cup {Nobody}
  /\ flights \subseteq Flights
  /\ asked \in Seq(Chats)

AtHome ==
  /\ \A c \in Chats : \A i \in DOMAIN log[c] :
       log[c][i][2] \in DOMAIN asked /\ asked[log[c][i][2]] = c
  /\ \A f \in flights : f.question \in DOMAIN asked /\ asked[f.question] = f.chat

OneFlight == \A f, g \in flights : f.chat = g.chat /\ f.chat \notin overlapped => f = g

Paired(s) == \A i \in DOMAIN s : s[i][1] = "assistant" => i > 1 /\ s[i - 1] = User(s[i][2])

\* The message an answer to be placed at at will follow.
Before(s, at) == IF at = AtEnd \/ at > Len(s) THEN Len(s) ELSE at - 1
Awaits(s, f) == Before(s, f.at) \in DOMAIN s /\ s[Before(s, f.at)] = User(f.question)

Conversing ==
  \A c \in Members(chats) \ overlapped :
    /\ Paired(log[c])
    /\ \A f \in flights : f.chat = c => Awaits(log[c], f)

ChatInv == ChatTypes /\ AtHome /\ OneFlight /\ Conversing

LEMMA ChatFacts ==
  ASSUME ChatInv
  PROVE  /\ chats \in Seq(Chats) /\ DOMAIN chats = 1 .. Len(chats) /\ Len(chats) \in Nat
         /\ \A i, j \in DOMAIN chats : chats[i] = chats[j] => i = j
         /\ log \in [Chats -> Seq(Messages)] /\ active \in Chats \cup {Nobody}
         /\ flights \subseteq Flights /\ \A f \in flights : f.chat \in Chats /\ f.question \in Nat /\ f.at \in Nat
         /\ asked \in Seq(Chats) /\ Len(asked) \in Nat /\ DOMAIN asked = 1 .. Len(asked)
         /\ \A c \in Chats : \A i \in DOMAIN log[c] :
              log[c][i][2] \in DOMAIN asked /\ asked[log[c][i][2]] = c
         /\ \A f \in flights : f.question \in DOMAIN asked /\ asked[f.question] = f.chat
         /\ Members(chats) \subseteq Chats
<1>1. ChatTypes /\ AtHome BY DEF ChatInv
<1>2. Len(chats) \in Nat /\ DOMAIN chats = 1 .. Len(chats) /\ chats \in [1 .. Len(chats) -> Chats]
  BY <1>1, LenProperties DEF ChatTypes
<1>3. Len(asked) \in Nat /\ DOMAIN asked = 1 .. Len(asked) BY <1>1, LenProperties DEF ChatTypes
<1>4. Members(chats) \subseteq Chats BY <1>2 DEF Members
<1>5. \A f \in flights : f.chat \in Chats /\ f.question \in Nat /\ f.at \in Nat
  BY <1>1 DEF ChatTypes, Flights
<1> QED BY <1>1, <1>2, <1>3, <1>4, <1>5 DEF ChatTypes, AtHome

LEMMA MessageFacts ==
  /\ \A q \in Nat : User(q) \in Messages /\ User(q)[1] = "user" /\ User(q)[2] = q
  /\ \A q \in Nat : Assistant(q) \in Messages /\ Assistant(q)[1] = "assistant" /\ Assistant(q)[2] = q
  /\ \A m \in Messages : m[2] \in Nat /\ m[1] \in {"user", "assistant"}
                         /\ (m[1] = "user" => m = User(m[2]))
BY DEF Messages, User, Assistant

\* The messages once an answer a has been put in the place at.
AnswerAt(s, at, a) == Append(IF at = AtEnd \/ at > Len(s) THEN s ELSE SubSeq(s, 1, at - 1), a)

LEMMA AnswerPlaced ==
  ASSUME NEW S, NEW s \in Seq(S), NEW at \in Nat, NEW a \in S
  PROVE  /\ AnswerAt(s, at, a) \in Seq(S) /\ Before(s, at) \in Nat /\ Before(s, at) <= Len(s)
         /\ DOMAIN AnswerAt(s, at, a) = 1 .. Before(s, at) + 1
         /\ AnswerAt(s, at, a)[Before(s, at) + 1] = a
         /\ \A i \in 1 .. Before(s, at) : i \in DOMAIN s /\ AnswerAt(s, at, a)[i] = s[i]
<1> DEFINE kept == IF at = AtEnd \/ at > Len(s) THEN s ELSE SubSeq(s, 1, at - 1)
           n == Before(s, at)
           t == AnswerAt(s, at, a)
<1>1. Len(s) \in Nat /\ DOMAIN s = 1 .. Len(s) BY LenProperties
<1>2. n \in Nat /\ n <= Len(s) /\ kept \in Seq(S) /\ Len(kept) = n
      /\ \A i \in 1 .. n : kept[i] = s[i]
  <2>1. CASE at = AtEnd \/ at > Len(s) BY <1>1, <2>1 DEF Before
  <2>2. CASE ~(at = AtEnd \/ at > Len(s))
    <3>1. at - 1 \in 0 .. Len(s) BY <1>1, <2>2 DEF AtEnd
    <3> QED BY <1>1, <2>2, <3>1, Prefix DEF Before
  <2> QED BY <2>1, <2>2
<1>3. t = Append(kept, a) BY DEF AnswerAt
<1> HIDE DEF kept, n, t
<1>4. /\ t \in Seq(S) /\ Len(t) = n + 1 /\ \A i \in 1 .. n : t[i] = kept[i]
      /\ t[n + 1] = a
  <2>1. /\ Append(kept, a) \in Seq(S) /\ Len(Append(kept, a)) = Len(kept) + 1
        /\ \A i \in 1 .. Len(kept) : Append(kept, a)[i] = kept[i]
        /\ Append(kept, a)[Len(kept) + 1] = a
    BY <1>2, AppendProperties
  <2> QED BY <1>2, <1>3, <2>1
<1>5. DOMAIN t = 1 .. n + 1 BY <1>4, LenProperties
<1>6. \A i \in 1 .. n : i \in DOMAIN s
  <2>1. n \in Nat /\ n <= Len(s) BY <1>2
  <2> QED BY <1>1, <2>1
<1>7. t \in Seq(S) /\ t[n + 1] = a /\ \A i \in 1 .. n : t[i] = s[i] BY <1>2, <1>4
<1>8. n \in Nat /\ n <= Len(s) BY <1>2
<1> QED BY <1>5, <1>6, <1>7, <1>8 DEF n, t

LEMMA PairedAnswer ==
  ASSUME NEW s \in Seq(Messages), NEW at \in Nat, NEW q \in Nat, Paired(s),
         Before(s, at) \in DOMAIN s, s[Before(s, at)] = User(q)
  PROVE  Paired(AnswerAt(s, at, Assistant(q)))
<1> DEFINE n == Before(s, at)
           t == AnswerAt(s, at, Assistant(q))
<1>1. Assistant(q) \in Messages /\ Assistant(q)[2] = q BY MessageFacts
<1>2. /\ n \in Nat /\ DOMAIN t = 1 .. n + 1 /\ t[n + 1] = Assistant(q)
      /\ \A i \in 1 .. n : i \in DOMAIN s /\ t[i] = s[i]
  BY <1>1, AnswerPlaced
<1>3. n >= 1 /\ s[n] = User(q)
  <2>1. DOMAIN s = 1 .. Len(s) BY LenProperties
  <2> QED BY <2>1
<1> HIDE DEF n, t
<1>4. ASSUME NEW i \in DOMAIN t, t[i][1] = "assistant"
      PROVE  i > 1 /\ t[i - 1] = User(t[i][2])
  <2>1. n \in Int /\ i \in Int /\ i >= 1 /\ i <= n + 1 BY <1>2, <1>4
  <2>2. CASE i = n + 1
    <3>1. t[i][2] = q BY <1>1, <1>2, <2>2
    <3>2. i - 1 = n /\ n \in 1 .. n /\ i > 1 BY <1>3, <2>1, <2>2
    <3>3. t[i - 1] = s[n] BY <1>2, <3>2
    <3> QED BY <1>3, <3>1, <3>2, <3>3
  <2>3. CASE i # n + 1
    <3>1. i \in 1 .. n BY <2>1, <2>3
    <3>2. i \in DOMAIN s /\ s[i] = t[i] BY <1>2, <3>1
    <3>3. i > 1 /\ s[i - 1] = User(s[i][2]) BY <1>4, <3>2 DEF Paired
    <3>4. i - 1 \in 1 .. n BY <2>1, <3>1, <3>3
    <3>5. t[i - 1] = s[i - 1] BY <1>2, <3>4
    <3> QED BY <3>2, <3>3, <3>5
  <2> QED BY <2>2, <2>3
<1>5. Paired(t) BY <1>4 DEF Paired
<1> QED BY <1>5 DEF t

\* The messages once question i has been edited into m: the ones after it move
\* down by one place when the old answer is taken out (OldAnswer).
After(s, i) == SubSeq(s, i + 1, Len(s))
OldAnswer(s, i) == After(s, i) # <<>> /\ Head(After(s, i))[1] = "assistant"
KeptAfter(s, i) == IF OldAnswer(s, i) THEN Tail(After(s, i)) ELSE After(s, i)
EditAt(s, i, m) == SubSeq(s, 1, i - 1) \o <<m>> \o KeptAfter(s, i)
Gap(s, i) == IF OldAnswer(s, i) THEN 1 ELSE 0

LEMMA AfterKept ==
  ASSUME NEW S, NEW s \in Seq(S), NEW i \in DOMAIN s
  PROVE  /\ KeptAfter(s, i) \in Seq(S) /\ Len(KeptAfter(s, i)) \in Nat
         /\ Len(KeptAfter(s, i)) = Len(s) - i - Gap(s, i)
         /\ \A j \in 1 .. Len(KeptAfter(s, i)) : KeptAfter(s, i)[j] = s[i + Gap(s, i) + j]
         /\ OldAnswer(s, i) <=> (i + 1 \in DOMAIN s /\ s[i + 1][1] = "assistant")
<1> DEFINE r == After(s, i)
           k == KeptAfter(s, i)
<1>1. Len(s) \in Nat /\ DOMAIN s = 1 .. Len(s) /\ i \in Int /\ i >= 1 /\ i <= Len(s)
  BY LenProperties
<1>2. i \in 0 .. Len(s) BY <1>1
<1>3. r \in Seq(S) /\ Len(r) = Len(s) - i /\ \A j \in 1 .. Len(s) - i : r[j] = s[i + j]
  BY <1>2, Suffix DEF After
<1> HIDE DEF r
<1>4. r # <<>> <=> i + 1 \in DOMAIN s
  <2>1. r # <<>> <=> Len(r) # 0 BY <1>3, EmptySeq
  <2>2. Len(s) - i # 0 <=> i + 1 \in 1 .. Len(s) BY <1>1
  <2> QED BY <1>1, <1>3, <2>1, <2>2
<1>5. r # <<>> => Head(r) = s[i + 1]
  <2> SUFFICES ASSUME r # <<>> PROVE Head(r) = s[i + 1]
    OBVIOUS
  <2>1. 1 \in 1 .. Len(s) - i BY <1>1, <1>4
  <2>2. Head(r) = r[1] BY <1>3
  <2> QED BY <1>3, <2>1, <2>2
<1>6. OldAnswer(s, i) <=> (i + 1 \in DOMAIN s /\ s[i + 1][1] = "assistant")
  BY <1>4, <1>5 DEF OldAnswer, r
<1>7. CASE OldAnswer(s, i)
  <2>1. r # <<>> /\ k = Tail(r) BY <1>7 DEF OldAnswer, KeptAfter, r
  <2> HIDE DEF k
  <2>2. k \in Seq(S) /\ Len(k) = Len(r) - 1 /\ \A j \in 1 .. Len(k) : k[j] = r[j + 1]
    <3>1. r \in Seq(S) BY <1>3
    <3>2. /\ Tail(r) \in Seq(S) /\ Len(Tail(r)) = Len(r) - 1
          /\ \A j \in 1 .. Len(Tail(r)) : Tail(r)[j] = r[j + 1]
      BY <2>1, <3>1, HeadTailProperties
    <3> QED BY <2>1, <3>2
  <2>3. Len(k) \in Nat BY <2>2, LenProperties
  <2>4. Gap(s, i) = 1 BY <1>7 DEF Gap
  <2>5. Len(k) = Len(s) - i - 1 BY <1>3, <2>2
  <2>6. \A j \in 1 .. Len(k) : j + 1 \in 1 .. Len(s) - i /\ i + (j + 1) = i + 1 + j
    BY <1>1, <2>3, <2>5
  <2>7. \A j \in 1 .. Len(k) : k[j] = s[i + 1 + j] BY <1>3, <2>2, <2>6
  <2> QED BY <1>6, <2>2, <2>3, <2>4, <2>5, <2>7 DEF k
<1>8. CASE ~OldAnswer(s, i)
  <2>1. k = r /\ Gap(s, i) = 0 BY <1>8 DEF Gap, KeptAfter, r
  <2> HIDE DEF k
  <2>2. Len(k) \in Nat BY <1>3, <2>1, LenProperties
  <2>3. Len(s) - i = Len(s) - i - 0 /\ \A j \in 1 .. Len(s) - i : i + j = i + 0 + j BY <1>1
  <2>4. \A j \in 1 .. Len(k) : k[j] = s[i + 0 + j] BY <1>3, <2>1, <2>3
  <2> QED BY <1>3, <1>6, <2>1, <2>2, <2>3, <2>4 DEF k
<1> QED BY <1>7, <1>8

LEMMA Edited ==
  ASSUME NEW S, NEW s \in Seq(S), NEW i \in DOMAIN s, NEW m \in S
  PROVE  /\ EditAt(s, i, m) \in Seq(S) /\ EditAt(s, i, m)[i] = m
         /\ Len(EditAt(s, i, m)) = Len(s) - Gap(s, i) /\ i <= Len(EditAt(s, i, m))
         /\ \A j \in 1 .. i - 1 : EditAt(s, i, m)[j] = s[j]
         /\ \A j \in i + 1 .. Len(s) - Gap(s, i) : EditAt(s, i, m)[j] = s[j + Gap(s, i)]
<1> DEFINE k == KeptAfter(s, i)
           a == SubSeq(s, 1, i - 1)
           b == a \o <<m>>
           t == EditAt(s, i, m)
           d == Gap(s, i)
<1>1. Len(s) \in Nat /\ i \in Int /\ i >= 1 /\ i <= Len(s) BY LenProperties
<1>2. a \in Seq(S) /\ Len(a) = i - 1 /\ \A j \in 1 .. i - 1 : a[j] = s[j]
  <2>1. i - 1 \in 0 .. Len(s) BY <1>1
  <2> QED BY <2>1, Prefix
<1>3. k \in Seq(S) /\ Len(k) \in Nat /\ Len(k) = Len(s) - i - d /\ \A j \in 1 .. Len(k) : k[j] = s[i + d + j]
  BY AfterKept
<1>4. t = b \o k BY DEF EditAt
<1>5. d \in Int BY DEF Gap
<1> HIDE DEF a, k, t, d
<1>6. b \in Seq(S) /\ Len(b) = i /\ b[i] = m /\ \A j \in 1 .. i - 1 : b[j] = s[j]
  <2>1. b = Append(a, m) BY <1>2, AppendIsConcat
  <2>2. /\ Append(a, m) \in Seq(S) /\ Len(Append(a, m)) = Len(a) + 1
        /\ \A j \in 1 .. Len(a) : Append(a, m)[j] = a[j]
        /\ Append(a, m)[Len(a) + 1] = m
    BY <1>2, AppendProperties
  <2>3. Len(a) = i - 1 /\ Len(a) + 1 = i BY <1>1, <1>2
  <2> HIDE DEF b
  <2> QED BY <1>2, <2>1, <2>2, <2>3
<1> HIDE DEF b
<1>7. /\ t \in Seq(S) /\ Len(t) = i + Len(k)
      /\ \A j \in 1 .. i + Len(k) : t[j] = IF j <= i THEN b[j] ELSE k[j - i]
  <2>1. /\ b \o k \in Seq(S) /\ Len(b \o k) = Len(b) + Len(k)
        /\ \A j \in 1 .. Len(b) + Len(k) : (b \o k)[j] = IF j <= Len(b) THEN b[j] ELSE k[j - Len(b)]
    BY <1>3, <1>6, ConcatProperties
  <2>2. Len(b) = i BY <1>6
  <2> QED BY <1>4, <2>1, <2>2
<1>8. Len(k) \in Nat /\ Len(k) = Len(s) - i - d BY <1>3
<1>9. i + Len(k) = Len(s) - d BY <1>1, <1>5, <1>8
<1>10. \A j \in 1 .. i : j \in 1 .. i + Len(k) /\ j <= i BY <1>1, <1>8
<1>11. \A j \in 1 .. i : t[j] = b[j] BY <1>7, <1>10
<1>12. i \in 1 .. i /\ \A j \in 1 .. i - 1 : j \in 1 .. i BY <1>1
<1>13. t[i] = m /\ \A j \in 1 .. i - 1 : t[j] = s[j] BY <1>6, <1>11, <1>12
<1>14. \A j \in i + 1 .. Len(s) - d :
         /\ j \in 1 .. i + Len(k) /\ ~(j <= i) /\ j - i \in 1 .. Len(k) /\ i + d + (j - i) = j + d
  BY <1>1, <1>5, <1>8
<1>15. \A j \in i + 1 .. Len(s) - d : t[j] = k[j - i] BY <1>7, <1>14
<1>16. \A j \in i + 1 .. Len(s) - d : k[j - i] = s[j + d] BY <1>3, <1>14
<1>17. i <= i + Len(k) BY <1>1, <1>8
<1>18. t \in Seq(S) /\ Len(t) = Len(s) - d /\ i <= Len(t) BY <1>7, <1>9, <1>17
<1>19. \A j \in i + 1 .. Len(s) - d : t[j] = s[j + d] BY <1>15, <1>16
<1> QED BY <1>13, <1>18, <1>19 DEF t, d

LEMMA PairedEdit ==
  ASSUME NEW s \in Seq(Messages), NEW i \in DOMAIN s, NEW q \in Nat, Paired(s)
  PROVE  Paired(EditAt(s, i, User(q)))
<1> DEFINE t == EditAt(s, i, User(q))
           d == Gap(s, i)
<1>1. User(q) \in Messages /\ User(q)[1] = "user" /\ \A n \in Nat : User(n)[1] = "user"
  BY MessageFacts
<1>2. /\ t \in Seq(Messages) /\ t[i] = User(q) /\ Len(t) = Len(s) - d
      /\ \A j \in 1 .. i - 1 : t[j] = s[j]
      /\ \A j \in i + 1 .. Len(s) - d : t[j] = s[j + d]
  BY <1>1, Edited
<1>3. OldAnswer(s, i) <=> (i + 1 \in DOMAIN s /\ s[i + 1][1] = "assistant") BY AfterKept
<1>4. d \in {0, 1} /\ (d = 1 <=> OldAnswer(s, i)) BY DEF Gap
<1> HIDE DEF t, d
<1>5. DOMAIN s = 1 .. Len(s) /\ DOMAIN t = 1 .. Len(s) - d /\ Len(s) \in Nat /\ i \in Int /\ i >= 1
  <2>1. DOMAIN s = 1 .. Len(s) /\ Len(s) \in Nat BY LenProperties
  <2>2. DOMAIN t = 1 .. Len(t) BY <1>2, LenProperties
  <2> QED BY <1>2, <2>1, <2>2
<1>6. \A j \in DOMAIN s : s[j][2] \in Nat
  <2>1. \A j \in DOMAIN s : s[j] \in Messages BY LenProperties
  <2> QED BY <2>1, MessageFacts
<1>7. ASSUME NEW j \in DOMAIN t, t[j][1] = "assistant"
      PROVE  j > 1 /\ t[j - 1] = User(t[j][2])
  <2>0. j \in Int /\ j >= 1 /\ j <= Len(s) - d /\ d \in Int /\ Len(s) \in Int /\ i \in Int /\ i >= 1
        /\ d >= 0
    BY <1>4, <1>5
  <2>1. CASE j < i
    <3>1. j \in 1 .. i - 1 /\ j \in DOMAIN s BY <1>5, <2>0, <2>1
    <3>2. t[j] = s[j] BY <1>2, <3>1
    <3>3. j > 1 /\ s[j - 1] = User(s[j][2]) BY <1>7, <3>1, <3>2 DEF Paired
    <3>4. j - 1 \in 1 .. i - 1 BY <2>0, <2>1, <3>3
    <3>5. t[j - 1] = s[j - 1] BY <1>2, <3>4
    <3> QED BY <3>2, <3>3, <3>5
  <2>2. CASE j = i BY <1>1, <1>2, <1>7, <2>2
  <2>3. CASE j > i
    <3>1. j \in i + 1 .. Len(s) - d /\ j + d \in 1 .. Len(s) BY <2>0, <2>3
    <3>2. t[j] = s[j + d] /\ j + d \in DOMAIN s BY <1>2, <1>5, <3>1
    <3>3. s[(j + d) - 1] = User(s[j + d][2]) 
      <4> DEFINE e == j + d
      <4>1. e \in DOMAIN s /\ s[e][1] = "assistant" BY <1>7, <3>2
      <4> HIDE DEF e
      <4>2. s[e - 1] = User(s[e][2]) BY <4>1 DEF Paired
      <4> QED BY <4>2 DEF e
    <3>4. s[(j + d) - 1][1] = "user" BY <1>1, <1>6, <3>2, <3>3
    <3>5. j # i + 1
      <4>1. ASSUME j = i + 1, d = 0 PROVE FALSE
        <5>1. j + d = i + 1 BY <2>0, <4>1
        <5>2. OldAnswer(s, i) BY <1>3, <1>7, <3>2, <5>1
        <5> QED BY <1>4, <4>1, <5>2
      <4>2. ASSUME j = i + 1, d = 1 PROVE FALSE
        <5>1. (j + d) - 1 = i + 1 BY <2>0, <4>2
        <5>2. s[i + 1][1] = "assistant" BY <1>3, <1>4, <4>2
        <5> QED BY <3>4, <5>1, <5>2
      <4> QED BY <1>4, <4>1, <4>2
    <3>6. j - 1 \in i + 1 .. Len(s) - d /\ (j - 1) + d = (j + d) - 1 /\ j > 1 BY <2>0, <2>3, <3>5
    <3>7. t[j - 1] = s[(j + d) - 1] BY <1>2, <3>6
    <3> QED BY <3>2, <3>3, <3>6, <3>7
  <2> QED BY <2>0, <2>1, <2>2, <2>3
<1>8. Paired(t) BY <1>7 DEF Paired
<1> QED BY <1>8 DEF t

(* The steps of the page. *)
LEMMA CreateKeeps == ASSUME ChatInv, NEW c \in Chats, CreateConversation(c) PROVE ChatInv'
<1>1. /\ chats' = <<c>> \o chats /\ c \notin Members(chats) /\ log[c] = <<>>
      /\ \A f \in flights : f.chat # c
      /\ active' = c /\ UNCHANGED <<log, loading, flights, asked, overlapped>>
  BY DEF CreateConversation
<1>2. /\ chats \in Seq(Chats) /\ DOMAIN chats = 1 .. Len(chats) /\ Len(chats) \in Nat
      /\ \A i, j \in DOMAIN chats : chats[i] = chats[j] => i = j
  BY ChatFacts
<1>3. /\ <<c>> \in Seq(Chats) /\ Len(<<c>>) = 1 /\ <<c>>[1] = c
  OBVIOUS
<1>4. /\ chats' \in Seq(Chats) /\ Len(chats') = 1 + Len(chats)
      /\ \A i \in 1 .. 1 + Len(chats) : chats'[i] = IF i <= 1 THEN c ELSE chats[i - 1]
  <2> DEFINE s == <<c>>
  <2>1. s \in Seq(Chats) /\ Len(s) = 1 /\ s[1] = c BY <1>3
  <2>2. chats' = s \o chats /\ chats \in Seq(Chats) BY <1>1, <1>2
  <2> HIDE DEF s
  <2>3. /\ s \o chats \in Seq(Chats) /\ Len(s \o chats) = Len(s) + Len(chats)
        /\ \A i \in 1 .. Len(s) + Len(chats) :
             (s \o chats)[i] = IF i <= Len(s) THEN s[i] ELSE chats[i - Len(s)]
    BY <2>1, <2>2, ConcatProperties
  <2>4. \A i \in 1 .. 1 + Len(chats) : i <= 1 => i = 1 BY <1>2
  <2> QED BY <2>1, <2>2, <2>3, <2>4
<1>5. DOMAIN chats' = 1 .. 1 + Len(chats) BY <1>4, LenProperties
<1>6. \A i \in DOMAIN chats' :
        \/ i = 1 /\ chats'[i] = c
        \/ i # 1 /\ i - 1 \in DOMAIN chats /\ chats'[i] = chats[i - 1] /\ chats'[i] # c
  <2> SUFFICES ASSUME NEW i \in 1 .. 1 + Len(chats)
               PROVE  \/ i = 1 /\ chats'[i] = c
                      \/ i # 1 /\ i - 1 \in DOMAIN chats /\ chats'[i] = chats[i - 1] /\ chats'[i] # c
    BY <1>5
  <2>1. CASE i = 1
    <3>1. i <= 1 BY <2>1
    <3> QED BY <1>4, <2>1, <3>1
  <2>2. CASE i # 1
    <3>1. ~(i <= 1) /\ i - 1 \in 1 .. Len(chats) BY <1>2, <2>2
    <3>2. chats'[i] = chats[i - 1] /\ i - 1 \in DOMAIN chats BY <1>2, <1>4, <3>1
    <3> QED BY <1>1, <2>2, <3>2 DEF Members
  <2> QED BY <2>1, <2>2
<1>7. \A i, j \in DOMAIN chats' : chats'[i] = chats'[j] => i = j
  <2> SUFFICES ASSUME NEW i \in DOMAIN chats', NEW j \in DOMAIN chats', chats'[i] = chats'[j]
               PROVE  i = j
    OBVIOUS
  <2>1. i \in Int /\ j \in Int BY <1>5
  <2>2. CASE i = 1 BY <1>6, <2>2
  <2>3. CASE i # 1
    <3>1. i - 1 \in DOMAIN chats /\ j - 1 \in DOMAIN chats /\ chats[i - 1] = chats[j - 1] BY <1>6, <2>3
    <3>2. i - 1 = j - 1 BY <1>2, <3>1
    <3> QED BY <2>1, <3>2
  <2> QED BY <2>2, <2>3
<1>8. Members(chats') \subseteq Members(chats) \cup {c} BY <1>6 DEF Members
<1>9. ChatTypes' BY <1>1, <1>4, <1>7 DEF ChatInv, ChatTypes
<1>10. AtHome' /\ OneFlight' BY <1>1 DEF ChatInv, AtHome, OneFlight
<1>11. Conversing'
  <2> SUFFICES ASSUME NEW x \in Members(chats'), x \notin overlapped
               PROVE  /\ Paired(log[x])
                      /\ \A f \in flights : f.chat = x => Awaits(log[x], f)
    BY <1>1 DEF Conversing
  <2>1. CASE x = c BY <1>1, <2>1 DEF Paired
  <2>2. CASE x # c BY <1>8, <2>2 DEF ChatInv, Conversing
  <2> QED BY <2>1, <2>2
<1> QED BY <1>9, <1>10, <1>11 DEF ChatInv

LEMMA DeleteKeeps == ASSUME ChatInv, NEW c \in Chats, DeleteConversation(c) PROVE ChatInv'
<1>1. PICK i \in DOMAIN chats :
        /\ chats[i] = c
        /\ chats' = SubSeq(chats, 1, i - 1) \o SubSeq(chats, i + 1, Len(chats))
  BY DEF DeleteConversation
<1>2. /\ log' = [log EXCEPT ![c] = <<>>]
      /\ active' = IF active # c THEN active ELSE IF chats' = <<>> THEN Nobody ELSE Head(chats')
      /\ UNCHANGED <<loading, flights, asked, overlapped>>
  BY DEF DeleteConversation
<1>3. /\ chats \in Seq(Chats) /\ \A m, n \in DOMAIN chats : chats[m] = chats[n] => m = n
      /\ log \in [Chats -> Seq(Messages)] /\ active \in Chats \cup {Nobody}
  BY ChatFacts
<1> DEFINE At(m) == IF m < i THEN m ELSE m + 1
<1>4. /\ chats' \in Seq(Chats)
      /\ \A m \in DOMAIN chats' : At(m) \in DOMAIN chats /\ At(m) # i /\ chats'[m] = chats[At(m)]
      /\ \A m, n \in DOMAIN chats' : At(m) = At(n) => m = n
  <2>1. Len(chats) \in Nat /\ DOMAIN chats = 1 .. Len(chats) BY <1>3, LenProperties
  <2>2. /\ chats' \in Seq(Chats) /\ Len(chats') = Len(chats) - 1
        /\ \A m \in 1 .. Len(chats) - 1 : chats'[m] = IF m < i THEN chats[m] ELSE chats[m + 1]
    <3>1. i \in 1 .. Len(chats) /\ chats \in Seq(Chats) BY <1>3, <2>1
    <3> DEFINE s == SubSeq(chats, 1, i - 1) \o SubSeq(chats, i + 1, Len(chats))
    <3>2. /\ s \in Seq(Chats) /\ Len(s) = Len(chats) - 1
          /\ \A m \in 1 .. Len(chats) - 1 : s[m] = IF m < i THEN chats[m] ELSE chats[m + 1]
      BY <3>1, RemoveAtPlace
    <3>3. chats' = s BY <1>1
    <3> HIDE DEF s
    <3> QED BY <3>2, <3>3
  <2>3. DOMAIN chats' = 1 .. Len(chats) - 1 BY <2>2, LenProperties
  <2>4. i \in 1 .. Len(chats) BY <2>1
  <2>5. \A m \in 1 .. Len(chats) - 1 : At(m) \in 1 .. Len(chats) /\ At(m) # i BY <2>1, <2>4
  <2>6. \A m, n \in 1 .. Len(chats) - 1 : At(m) = At(n) => m = n BY <2>1, <2>4
  <2>7. \A m \in 1 .. Len(chats) - 1 : chats'[m] = chats[At(m)] BY <2>2
  <2> HIDE DEF At
  <2> QED BY <2>1, <2>2, <2>3, <2>5, <2>6, <2>7
<1> HIDE DEF At
<1>5. /\ Members(chats') \subseteq Members(chats) \ {c}
      /\ \A m, n \in DOMAIN chats' : chats'[m] = chats'[n] => m = n
  <2>1. \A m, n \in DOMAIN chats' : chats'[m] = chats'[n] => m = n BY <1>3, <1>4
  <2>2. \A m \in DOMAIN chats' : chats'[m] \in Members(chats) \ {c}
    <3> SUFFICES ASSUME NEW m \in DOMAIN chats' PROVE chats'[m] \in Members(chats) \ {c}
      OBVIOUS
    <3>1. At(m) \in DOMAIN chats /\ At(m) # i /\ chats'[m] = chats[At(m)] BY <1>4
    <3>2. chats[At(m)] # chats[i] BY <1>3, <3>1
    <3> QED BY <1>1, <3>1, <3>2 DEF Members
  <2> QED BY <2>1, <2>2 DEF Members
<1>6. log' \in [Chats -> Seq(Messages)] /\ log'[c] = <<>> /\ \A x \in Chats : x # c => log'[x] = log[x]
  <2>1. <<>> \in Seq(Messages) OBVIOUS
  <2> QED BY <1>2, <1>3, <2>1
<1>7. active' \in Chats \cup {Nobody}
  <2>1. chats' # <<>> => Head(chats') \in Chats BY <1>4
  <2> QED BY <1>2, <1>3, <2>1
<1>8. ChatTypes' BY <1>2, <1>4, <1>5, <1>6, <1>7 DEF ChatInv, ChatTypes
<1>9. AtHome'
  <2>1. \A x \in Chats : \A m \in DOMAIN log'[x] : x # c BY <1>6
  <2> QED BY <1>2, <1>6, <2>1 DEF ChatInv, AtHome
<1>10. OneFlight' BY <1>2 DEF ChatInv, OneFlight
<1>11. Conversing'
  <2> SUFFICES ASSUME NEW x \in Members(chats'), x \notin overlapped
               PROVE  /\ Paired(log'[x])
                      /\ \A f \in flights : f.chat = x => Awaits(log'[x], f)
    BY <1>2 DEF Conversing
  <2>1. x \in Members(chats) /\ x # c /\ x \in Chats BY <1>5, ChatFacts
  <2> QED BY <1>6, <2>1 DEF ChatInv, Conversing
<1> QED BY <1>8, <1>9, <1>10, <1>11 DEF ChatInv

\* A query that leaves from a conversation keeps ChatInv when its answer will
\* follow its question there.
LEMMA Flown ==
  ASSUME ChatInv, active \in Chats, NEW q \in Nat, NEW at \in Nat, Fly(q, at),
         UNCHANGED <<chats, active>>,
         log' \in [Chats -> Seq(Messages)], \A x \in Chats : x # active => log'[x] = log[x],
         asked' \in Seq(Chats), q \in DOMAIN asked', asked'[q] = active,
         \A n \in DOMAIN asked : n \in DOMAIN asked' /\ asked'[n] = asked[n],
         \A i \in DOMAIN log'[active] :
           log'[active][i][2] \in DOMAIN asked' /\ asked'[log'[active][i][2]] = active,
         Paired(log[active]) => Paired(log'[active]),
         Before(log'[active], at) \in DOMAIN log'[active],
         log'[active][Before(log'[active], at)] = User(q)
  PROVE  ChatInv'
<1> DEFINE new == [chat |-> active, question |-> q, at |-> at, mounted |-> TRUE]
<1>1. /\ flights' = flights \cup {new}
      /\ overlapped' = IF \E f \in flights : f.chat = active THEN overlapped \cup {active} ELSE overlapped
  BY DEF Fly
<1>2. new \in Flights /\ new.chat = active /\ new.question = q /\ new.at = at BY DEF Flights
<1> HIDE DEF new
<1>3. overlapped \subseteq overlapped' /\ (active \notin overlapped' => \A f \in flights : f.chat # active)
  BY <1>1
<1>4. ChatTypes'
  <2>1. flights' \subseteq Flights BY <1>1, <1>2 DEF ChatInv, ChatTypes
  <2> QED BY <2>1 DEF ChatInv, ChatTypes
<1>5. AtHome'
  <2>1. \A c \in Chats : \A i \in DOMAIN log'[c] :
          log'[c][i][2] \in DOMAIN asked' /\ asked'[log'[c][i][2]] = c
    <3> SUFFICES ASSUME NEW c \in Chats, NEW i \in DOMAIN log'[c]
                 PROVE  log'[c][i][2] \in DOMAIN asked' /\ asked'[log'[c][i][2]] = c
      OBVIOUS
    <3>1. CASE c = active BY <3>1
    <3>2. CASE c # active
      <4>1. log'[c] = log[c] BY <3>2
      <4>2. log[c][i][2] \in DOMAIN asked /\ asked[log[c][i][2]] = c BY <4>1 DEF ChatInv, AtHome
      <4> QED BY <4>1, <4>2
    <3> QED BY <3>1, <3>2
  <2>2. \A f \in flights' : f.question \in DOMAIN asked' /\ asked'[f.question] = f.chat
    <3>1. \A f \in flights : f.question \in DOMAIN asked /\ asked[f.question] = f.chat
      BY DEF ChatInv, AtHome
    <3> QED BY <1>1, <1>2, <3>1
  <2> QED BY <2>1, <2>2 DEF AtHome
<1>6. OneFlight' BY <1>1, <1>2, <1>3 DEF ChatInv, OneFlight
<1>7. Conversing'
  <2> SUFFICES ASSUME NEW x \in Members(chats), x \notin overlapped'
               PROVE  /\ Paired(log'[x])
                      /\ \A f \in flights' : f.chat = x => Awaits(log'[x], f)
    BY DEF Conversing
  <2>1. x \in Chats /\ x \notin overlapped /\ Paired(log[x])
        /\ \A f \in flights : f.chat = x => Awaits(log[x], f)
    BY <1>3, ChatFacts DEF ChatInv, Conversing
  <2>2. CASE x = active
    <3>1. \A f \in flights' : f.chat = x => f = new BY <1>1, <1>3, <2>2
    <3>2. Awaits(log'[x], new) BY <1>2, <2>2 DEF Awaits
    <3> QED BY <2>1, <2>2, <3>1, <3>2
  <2>3. CASE x # active
    <3>1. log'[x] = log[x] /\ \A f \in flights' : f.chat = x => f \in flights BY <1>1, <1>2, <2>1, <2>3
    <3> QED BY <2>1, <3>1
  <2> QED BY <2>2, <2>3
<1> QED BY <1>4, <1>5, <1>6, <1>7 DEF ChatInv

LEMMA Asking ==
  ASSUME ChatInv, active \in Chats, asked' = Append(asked, active)
  PROVE  /\ asked' \in Seq(Chats) /\ NewQuestion \in Nat
         /\ NewQuestion \in DOMAIN asked' /\ asked'[NewQuestion] = active
         /\ \A n \in DOMAIN asked : n \in DOMAIN asked' /\ asked'[n] = asked[n]
<1>1. asked \in Seq(Chats) /\ Len(asked) \in Nat /\ DOMAIN asked = 1 .. Len(asked) BY ChatFacts
<1>2. /\ asked' \in Seq(Chats) /\ Len(asked') = Len(asked) + 1
      /\ \A n \in 1 .. Len(asked) : asked'[n] = asked[n]
      /\ asked'[Len(asked) + 1] = active
  BY <1>1, AppendProperties
<1>3. DOMAIN asked' = 1 .. Len(asked) + 1 BY <1>2, LenProperties
<1>4. /\ Len(asked) + 1 \in 1 .. Len(asked) + 1 /\ Len(asked) + 1 \in Nat
      /\ \A n \in 1 .. Len(asked) : n \in 1 .. Len(asked) + 1
  BY <1>1
<1> QED BY <1>1, <1>2, <1>3, <1>4 DEF NewQuestion

LEMMA LogOfActive ==
  ASSUME ChatInv, active \in Chats
  PROVE  /\ log[active] \in Seq(Messages) /\ Len(log[active]) \in Nat
         /\ DOMAIN log[active] = 1 .. Len(log[active])
         /\ \A i \in DOMAIN log[active] :
              /\ log[active][i] \in Messages /\ log[active][i][2] \in Nat
              /\ log[active][i][2] \in DOMAIN asked /\ asked[log[active][i][2]] = active
<1>1. log[active] \in Seq(Messages) BY ChatFacts
<1>2. /\ Len(log[active]) \in Nat /\ DOMAIN log[active] = 1 .. Len(log[active])
      /\ log[active] \in [1 .. Len(log[active]) -> Messages]
  BY <1>1, LenProperties
<1>3. \A i \in DOMAIN log[active] : log[active][i] \in Messages BY <1>2
<1> QED BY <1>1, <1>2, <1>3, MessageFacts DEF ChatInv, AtHome

LEMMA SubmitKeeps == ASSUME ChatInv, Submit PROVE ChatInv'
<1> DEFINE s == log[active]
           q == NewQuestion
           t == Append(s, User(q))
<1>1. /\ asked' = Append(asked, active) /\ log' = [log EXCEPT ![active] = t]
      /\ Fly(q, AtEnd) /\ UNCHANGED <<chats, active>> /\ active # Nobody
  BY DEF Submit
<1>2. active \in Chats /\ log \in [Chats -> Seq(Messages)] BY <1>1, ChatFacts
<1>3. /\ asked' \in Seq(Chats) /\ q \in Nat /\ q \in DOMAIN asked' /\ asked'[q] = active
      /\ \A n \in DOMAIN asked : n \in DOMAIN asked' /\ asked'[n] = asked[n]
  BY <1>1, <1>2, Asking
<1>4. /\ s \in Seq(Messages) /\ Len(s) \in Nat /\ DOMAIN s = 1 .. Len(s)
      /\ \A i \in DOMAIN s : s[i][2] \in DOMAIN asked /\ asked[s[i][2]] = active
  BY <1>2, LogOfActive
<1>5. User(q) \in Messages /\ User(q)[1] = "user" /\ User(q)[2] = q BY <1>3, MessageFacts
<1> HIDE DEF q
<1>6. /\ t \in Seq(Messages) /\ Len(t) = Len(s) + 1 /\ t[Len(s) + 1] = User(q)
      /\ \A i \in 1 .. Len(s) : t[i] = s[i]
  BY <1>4, <1>5, AppendProperties
<1>7. DOMAIN t = 1 .. Len(s) + 1 BY <1>6, LenProperties
<1> HIDE DEF t
<1>8. log'[active] = t /\ log' \in [Chats -> Seq(Messages)] /\ \A x \in Chats : x # active => log'[x] = log[x]
  BY <1>1, <1>2, <1>6
<1>9. Before(t, AtEnd) \in DOMAIN t /\ t[Before(t, AtEnd)] = User(q)
  <2>1. Before(t, AtEnd) = Len(s) + 1 BY <1>6 DEF Before
  <2>2. Len(s) + 1 \in 1 .. Len(s) + 1 BY <1>4
  <2> QED BY <1>6, <1>7, <2>1, <2>2
<1>10. \A i \in DOMAIN t : (i \in DOMAIN s /\ t[i] = s[i]) \/ t[i] = User(q)
  <2> SUFFICES ASSUME NEW i \in 1 .. Len(s) + 1
               PROVE  (i \in DOMAIN s /\ t[i] = s[i]) \/ t[i] = User(q)
    BY <1>7
  <2>1. i = Len(s) + 1 \/ i \in 1 .. Len(s) BY <1>4
  <2> QED BY <1>4, <1>6, <2>1
<1>11. \A i \in DOMAIN t : t[i][2] \in DOMAIN asked' /\ asked'[t[i][2]] = active
  BY <1>3, <1>4, <1>5, <1>10
<1>12. Paired(s) => Paired(t)
  <2> SUFFICES ASSUME Paired(s), NEW i \in DOMAIN t, t[i][1] = "assistant"
               PROVE  i > 1 /\ t[i - 1] = User(t[i][2])
    BY DEF Paired
  <2>1. i \in DOMAIN s /\ t[i] = s[i] BY <1>5, <1>10
  <2>2. i > 1 /\ s[i - 1] = User(s[i][2]) BY <2>1 DEF Paired
  <2>3. i - 1 \in 1 .. Len(s) BY <1>4, <2>1, <2>2
  <2>4. t[i - 1] = s[i - 1] BY <1>6, <2>3
  <2> QED BY <2>1, <2>2, <2>4
<1>13. AtEnd \in Nat BY DEF AtEnd
<1> HIDE DEF s
<1>14. Paired(log[active]) => Paired(log'[active]) BY <1>8, <1>12 DEF s
<1> QED BY <1>1, <1>2, <1>3, <1>8, <1>9, <1>11, <1>13, <1>14, Flown

LEMMA RegenerateKeeps == ASSUME ChatInv, NEW i \in Nat, Regenerate(i) PROVE ChatInv'
<1> DEFINE s == log[active]
           q == s[i - 1][2]
<1>1. /\ active # Nobody /\ i \in 2 .. Len(s) /\ s[i - 1][1] = "user"
      /\ Fly(q, i) /\ UNCHANGED <<chats, log, active, asked>>
  BY DEF Regenerate
<1>2. active \in Chats /\ log \in [Chats -> Seq(Messages)] /\ asked \in Seq(Chats) BY <1>1, ChatFacts
<1>3. /\ s \in Seq(Messages) /\ Len(s) \in Nat /\ DOMAIN s = 1 .. Len(s)
      /\ \A j \in DOMAIN s : /\ s[j] \in Messages /\ s[j][2] \in Nat
                             /\ s[j][2] \in DOMAIN asked /\ asked[s[j][2]] = active
  BY <1>2, LogOfActive
<1>4. i - 1 \in DOMAIN s BY <1>1, <1>3
<1>5. q \in Nat /\ q \in DOMAIN asked /\ asked[q] = active /\ s[i - 1] = User(q)
  BY <1>1, <1>3, <1>4, MessageFacts
<1>6. Before(s, i) = i - 1
  <2>1. ~(i = AtEnd \/ i > Len(s)) BY <1>1, <1>3 DEF AtEnd
  <2> QED BY <2>1 DEF Before
<1>7. log'[active] = s BY <1>1
<1> HIDE DEF q
<1>8. Before(log'[active], i) \in DOMAIN log'[active] /\ log'[active][Before(log'[active], i)] = User(q)
  BY <1>4, <1>5, <1>6, <1>7
<1>9. \A j \in DOMAIN log'[active] :
        log'[active][j][2] \in DOMAIN asked' /\ asked'[log'[active][j][2]] = active
  BY <1>1, <1>3, <1>7
<1>10. /\ log' \in [Chats -> Seq(Messages)] /\ \A x \in Chats : x # active => log'[x] = log[x]
       /\ asked' \in Seq(Chats) /\ q \in DOMAIN asked' /\ asked'[q] = active
       /\ \A n \in DOMAIN asked : n \in DOMAIN asked' /\ asked'[n] = asked[n]
  BY <1>1, <1>2, <1>5
<1>11. Paired(log[active]) => Paired(log'[active]) BY <1>7
<1>12. Fly(q, i) /\ UNCHANGED <<chats, active>> BY <1>1 DEF q
<1> QED BY <1>2, <1>5, <1>8, <1>9, <1>10, <1>11, <1>12, Flown

LEMMA EditKeeps == ASSUME ChatInv, NEW i \in Nat, Edit(i) PROVE ChatInv'
<1> DEFINE s == log[active]
           q == NewQuestion
           t == EditAt(s, i, User(q))
           d == Gap(s, i)
<1>1. /\ active # Nobody /\ i \in DOMAIN s /\ asked' = Append(asked, active)
      /\ log' = [log EXCEPT ![active] = t] /\ Fly(q, i + 1) /\ UNCHANGED <<chats, active>>
  BY DEF Edit, EditAt, KeptAfter, OldAnswer, After
<1>2. active \in Chats /\ log \in [Chats -> Seq(Messages)] BY <1>1, ChatFacts
<1>3. /\ asked' \in Seq(Chats) /\ q \in Nat /\ q \in DOMAIN asked' /\ asked'[q] = active
      /\ \A n \in DOMAIN asked : n \in DOMAIN asked' /\ asked'[n] = asked[n]
  BY <1>1, <1>2, Asking
<1>4. /\ s \in Seq(Messages) /\ Len(s) \in Nat /\ DOMAIN s = 1 .. Len(s)
      /\ \A j \in DOMAIN s : s[j][2] \in DOMAIN asked /\ asked[s[j][2]] = active
  BY <1>2, LogOfActive
<1>5. User(q) \in Messages /\ User(q)[2] = q BY <1>3, MessageFacts
<1> HIDE DEF q
<1>6. /\ t \in Seq(Messages) /\ t[i] = User(q) /\ Len(t) = Len(s) - d /\ i <= Len(t)
      /\ \A j \in 1 .. i - 1 : t[j] = s[j]
      /\ \A j \in i + 1 .. Len(s) - d : t[j] = s[j + d]
  <2> DEFINE m == User(q)
  <2>1. s \in Seq(Messages) /\ i \in DOMAIN s /\ m \in Messages BY <1>1, <1>4, <1>5
  <2> HIDE DEF m, s
  <2>2. \A x \in Seq(Messages) : \A j \in DOMAIN x : \A n \in Messages :
        /\ EditAt(x, j, n) \in Seq(Messages) /\ EditAt(x, j, n)[j] = n
        /\ Len(EditAt(x, j, n)) = Len(x) - Gap(x, j) /\ j <= Len(EditAt(x, j, n))
        /\ \A k \in 1 .. j - 1 : EditAt(x, j, n)[k] = x[k]
        /\ \A k \in j + 1 .. Len(x) - Gap(x, j) : EditAt(x, j, n)[k] = x[k + Gap(x, j)]
    BY Edited
  <2>3. /\ EditAt(s, i, m) \in Seq(Messages) /\ EditAt(s, i, m)[i] = m
        /\ Len(EditAt(s, i, m)) = Len(s) - d /\ i <= Len(EditAt(s, i, m))
        /\ \A j \in 1 .. i - 1 : EditAt(s, i, m)[j] = s[j]
        /\ \A j \in i + 1 .. Len(s) - d : EditAt(s, i, m)[j] = s[j + d]
    BY <2>1, <2>2
  <2> QED BY <2>3 DEF m
<1>7. d \in {0, 1} BY DEF Gap
<1>8. DOMAIN t = 1 .. Len(s) - d /\ Len(t) \in Nat BY <1>6, LenProperties
<1>9. Paired(s) => Paired(t) BY <1>1, <1>3, <1>4, PairedEdit
<1> HIDE DEF t, d
<1>10. log'[active] = t /\ log' \in [Chats -> Seq(Messages)] /\ \A x \in Chats : x # active => log'[x] = log[x]
  BY <1>1, <1>2, <1>6
<1>11. Before(t, i + 1) \in DOMAIN t /\ t[Before(t, i + 1)] = User(q)
  <2>1. i \in Int /\ i >= 1 /\ i <= Len(t) /\ Len(t) \in Int BY <1>1, <1>4, <1>6, <1>8
  <2>2. Before(t, i + 1) = i
    <3>1. CASE i + 1 > Len(t) BY <2>1, <3>1 DEF Before
    <3>2. CASE ~(i + 1 > Len(t))
      <4>1. ~(i + 1 = AtEnd \/ i + 1 > Len(t)) BY <2>1, <3>2 DEF AtEnd
      <4> QED BY <2>1, <4>1 DEF Before
    <3> QED BY <3>1, <3>2
  <2>3. i \in 1 .. Len(t) BY <2>1
  <2> QED BY <1>6, <1>8, <2>2, <2>3
<1>12. \A j \in DOMAIN t : t[j] = User(q) \/ \E k \in DOMAIN s : t[j] = s[k]
  <2> SUFFICES ASSUME NEW j \in 1 .. Len(s) - d PROVE t[j] = User(q) \/ \E k \in DOMAIN s : t[j] = s[k]
    BY <1>8
  <2>1. j \in Int /\ i \in Int /\ i >= 1 /\ i <= Len(s) /\ d \in Int /\ d >= 0 BY <1>1, <1>4, <1>7
  <2>2. CASE j < i
    <3>1. j \in 1 .. i - 1 /\ j \in DOMAIN s BY <1>4, <2>1, <2>2
    <3> QED BY <1>6, <3>1
  <2>3. CASE j = i BY <1>6, <2>3
  <2>4. CASE j > i
    <3>1. j \in i + 1 .. Len(s) - d /\ j + d \in DOMAIN s BY <1>4, <2>1, <2>4
    <3> QED BY <1>6, <3>1
  <2> QED BY <2>1, <2>2, <2>3, <2>4
<1>13. \A j \in DOMAIN t : t[j][2] \in DOMAIN asked' /\ asked'[t[j][2]] = active
  BY <1>3, <1>4, <1>5, <1>12
<1> HIDE DEF s
<1>14. Paired(log[active]) => Paired(log'[active]) BY <1>9, <1>10 DEF s
<1>15. i + 1 \in Nat OBVIOUS
<1> QED BY <1>1, <1>2, <1>3, <1>10, <1>11, <1>13, <1>14, <1>15, Flown

LEMMA AnswerKeeps == ASSUME ChatInv, NEW f \in flights, Answer(f) PROVE ChatInv'
<1> DEFINE c == f.chat
           s == log[c]
           t == AnswerAt(s, f.at, Assistant(f.question))
<1>1. /\ log' = [log EXCEPT ![c] = t] /\ flights' = flights \ {f}
      /\ UNCHANGED <<chats, active, asked, overlapped>>
  BY DEF Answer, AnswerAt
<1>2. /\ c \in Chats /\ f.question \in Nat /\ f.at \in Nat /\ log \in [Chats -> Seq(Messages)]
      /\ f.question \in DOMAIN asked /\ asked[f.question] = c
  BY ChatFacts
<1>3. Assistant(f.question) \in Messages /\ Assistant(f.question)[2] = f.question BY <1>2, MessageFacts
<1>4. s \in Seq(Messages) BY <1>2
<1>5. \A i \in DOMAIN s : s[i][2] \in DOMAIN asked /\ asked[s[i][2]] = c BY <1>2 DEF ChatInv, AtHome
<1>6. /\ t \in Seq(Messages) /\ Before(s, f.at) \in Nat
      /\ DOMAIN t = 1 .. Before(s, f.at) + 1 /\ t[Before(s, f.at) + 1] = Assistant(f.question)
      /\ \A i \in 1 .. Before(s, f.at) : i \in DOMAIN s /\ t[i] = s[i]
  <2> DEFINE a == Assistant(f.question)
             at == f.at
  <2>1. s \in Seq(Messages) /\ at \in Nat /\ a \in Messages BY <1>2, <1>3, <1>4
  <2> HIDE DEF a, at, s
  <2>2. \A x \in Seq(Messages), n \in Nat, m \in Messages :
        /\ AnswerAt(x, n, m) \in Seq(Messages) /\ Before(x, n) \in Nat
        /\ DOMAIN AnswerAt(x, n, m) = 1 .. Before(x, n) + 1
        /\ AnswerAt(x, n, m)[Before(x, n) + 1] = m
        /\ \A i \in 1 .. Before(x, n) : i \in DOMAIN x /\ AnswerAt(x, n, m)[i] = x[i]
    <3> SUFFICES ASSUME NEW x \in Seq(Messages), NEW n \in Nat, NEW m \in Messages
                 PROVE  /\ AnswerAt(x, n, m) \in Seq(Messages) /\ Before(x, n) \in Nat
                        /\ DOMAIN AnswerAt(x, n, m) = 1 .. Before(x, n) + 1
                        /\ AnswerAt(x, n, m)[Before(x, n) + 1] = m
                        /\ \A i \in 1 .. Before(x, n) : i \in DOMAIN x /\ AnswerAt(x, n, m)[i] = x[i]
      OBVIOUS
    <3>1. AnswerAt(x, n, m) \in Seq(Messages) /\ Before(x, n) \in Nat BY AnswerPlaced
    <3>2. DOMAIN AnswerAt(x, n, m) = 1 .. Before(x, n) + 1 BY AnswerPlaced
    <3>3. AnswerAt(x, n, m)[Before(x, n) + 1] = m BY AnswerPlaced
    <3>4. \A i \in 1 .. Before(x, n) : i \in DOMAIN x /\ AnswerAt(x, n, m)[i] = x[i] BY AnswerPlaced
    <3> QED BY <3>1, <3>2, <3>3, <3>4
  <2>3. /\ AnswerAt(s, at, a) \in Seq(Messages) /\ Before(s, at) \in Nat
        /\ DOMAIN AnswerAt(s, at, a) = 1 .. Before(s, at) + 1
        /\ AnswerAt(s, at, a)[Before(s, at) + 1] = a
        /\ \A i \in 1 .. Before(s, at) : i \in DOMAIN s /\ AnswerAt(s, at, a)[i] = s[i]
    BY <2>1, <2>2
  <2> QED BY <2>3 DEF a, at
<1>7. Paired(s) /\ Awaits(s, f) => Paired(t) BY <1>2, <1>4, PairedAnswer DEF Awaits
<1>8. log' \in [Chats -> Seq(Messages)] /\ log'[c] = t /\ \A x \in Chats : x # c => log'[x] = log[x]
  BY <1>1, <1>2, <1>6
<1> HIDE DEF t
<1>9. \A i \in DOMAIN t : t[i][2] \in DOMAIN asked /\ asked[t[i][2]] = c
  <2> SUFFICES ASSUME NEW i \in DOMAIN t PROVE t[i] = Assistant(f.question) \/ (i \in DOMAIN s /\ t[i] = s[i])
    BY <1>2, <1>3, <1>5
  <2>1. i = Before(s, f.at) + 1 \/ i \in 1 .. Before(s, f.at) BY <1>6
  <2> QED BY <1>6, <2>1
<1> HIDE DEF c, s
<1>10. ChatTypes' BY <1>1, <1>8 DEF ChatInv, ChatTypes
<1>11. AtHome'
  <2>1. \A x \in Chats : \A i \in DOMAIN log'[x] :
          log'[x][i][2] \in DOMAIN asked /\ asked[log'[x][i][2]] = x
    BY <1>8, <1>9 DEF ChatInv, AtHome
  <2>2. \A g \in flights' : g.question \in DOMAIN asked /\ asked[g.question] = g.chat
    BY <1>1 DEF ChatInv, AtHome
  <2> QED BY <1>1, <2>1, <2>2 DEF AtHome
<1>12. OneFlight' BY <1>1 DEF ChatInv, OneFlight
<1>13. Conversing'
  <2> SUFFICES ASSUME NEW x \in Members(chats), x \notin overlapped
               PROVE  /\ Paired(log'[x])
                      /\ \A g \in flights' : g.chat = x => Awaits(log'[x], g)
    BY <1>1 DEF Conversing
  <2>1. x \in Chats /\ Paired(log[x]) /\ \A g \in flights : g.chat = x => Awaits(log[x], g)
    BY ChatFacts DEF ChatInv, Conversing
  <2>2. CASE x = c
    <3>1. \A g \in flights' : g.chat # x BY <1>1, <2>2 DEF ChatInv, OneFlight, c
    <3>2. Awaits(s, f) /\ Paired(s) BY <2>1, <2>2 DEF c, s
    <3> QED BY <1>7, <1>8, <2>2, <3>1, <3>2
  <2>3. CASE x # c BY <1>1, <1>8, <2>1, <2>3
  <2> QED BY <2>2, <2>3
<1> QED BY <1>10, <1>11, <1>12, <1>13 DEF ChatInv

LEMMA LeaveKeeps == ASSUME ChatInv, LeavePage PROVE ChatInv'
<1>1. /\ flights' = {[f EXCEPT !.mounted = FALSE] : f \in flights}
      /\ UNCHANGED <<chats, log, active, asked, overlapped>>
  BY DEF LeavePage
<1>2. \A f \in flights : f \in Flights BY DEF ChatInv, ChatTypes
<1>3. \A f \in Flights : LET g == [f EXCEPT !.mounted = FALSE]
                         IN  g \in Flights /\ g.chat = f.chat /\ g.question = f.question /\ g.at = f.at
  BY DEF Flights
<1>4. \A g \in flights' : \E f \in flights :
        /\ g = [f EXCEPT !.mounted = FALSE] /\ g \in Flights
        /\ g.chat = f.chat /\ g.question = f.question /\ g.at = f.at
  BY <1>1, <1>2, <1>3
<1>5. ChatTypes' BY <1>1, <1>4 DEF ChatInv, ChatTypes
<1>6. AtHome' BY <1>1, <1>4 DEF ChatInv, AtHome
<1>7. OneFlight'
  <2> SUFFICES ASSUME NEW g \in flights', NEW h \in flights', g.chat = h.chat, g.chat \notin overlapped
               PROVE  g = h
    BY <1>1 DEF OneFlight
  <2>1. PICK f \in flights : g = [f EXCEPT !.mounted = FALSE] /\ g.chat = f.chat BY <1>4
  <2>2. PICK e \in flights : h = [e EXCEPT !.mounted = FALSE] /\ h.chat = e.chat BY <1>4
  <2>3. f = e BY <2>1, <2>2 DEF ChatInv, OneFlight
  <2> QED BY <2>1, <2>2, <2>3
<1>8. Conversing' BY <1>1, <1>4 DEF ChatInv, Conversing, Awaits
<1> QED BY <1>5, <1>6, <1>7, <1>8 DEF ChatInv

LEMMA ChatStarts == ChatInit => ChatInv
<1> SUFFICES ASSUME ChatInit PROVE ChatInv
  OBVIOUS
<1>1. /\ chats = <<>> /\ log = [c \in Chats |-> <<>>] /\ active = Nobody /\ flights = {} /\ asked = <<>>
  BY DEF ChatInit
<1>2. ChatTypes BY <1>1 DEF ChatTypes
<1>3. AtHome /\ OneFlight BY <1>1 DEF AtHome, OneFlight
<1>4. Members(chats) = {} BY <1>1 DEF Members
<1> QED BY <1>2, <1>3, <1>4 DEF ChatInv, Conversing

LEMMA ChatSteps == ASSUME ChatInv, [ChatNext]_chatVars PROVE ChatInv'
<1>1. CASE UNCHANGED chatVars
  <2>1. UNCHANGED <<chats, log, active, flights, asked, overlapped>> BY <1>1 DEF chatVars
  <2> QED BY <2>1 DEF ChatInv, ChatTypes, AtHome, OneFlight, Conversing
<1>2. CASE ChatNext
  <2>1. ASSUME NEW c \in Chats, SetActive(c) PROVE ChatInv'
    <3>1. active' = c /\ UNCHANGED <<chats, log, loading, flights, asked, overlapped>>
      BY <2>1 DEF SetActive
    <3> QED BY <3>1 DEF ChatInv, ChatTypes, AtHome, OneFlight, Conversing
  <2>2. ASSUME NEW i \in 1 .. 2 * MaxQuestions, Regenerate(i) \/ Edit(i) PROVE ChatInv'
    <3>1. i \in Nat BY ChatAssumption
    <3> QED BY <2>2, <3>1, RegenerateKeeps, EditKeeps
  <2> QED BY <1>2, <2>1, <2>2, CreateKeeps, DeleteKeeps, SubmitKeeps, LeaveKeeps, AnswerKeeps
          DEF ChatNext
<1> QED BY <1>1, <1>2

LEMMA ChatHolds == ChatSpec => []ChatInv
BY ChatStarts, ChatSteps, PTL DEF ChatSpec

\* Whatever the user does while answers are computed, every message, an answer
\* as well as a question, is in the conversation its question was asked in.
THEOREM AnswersAtHome == ChatSpec => []AnswersStayHome
<1>1. ChatInv => AnswersStayHome BY DEF ChatInv, AtHome, AnswersStayHome
<1> QED BY <1>1, ChatHolds, PTL

\* In a conversation of which two queries never overlapped, each answer stands
\* right after its question, for every number of questions and conversations.
THEOREM TurnsStayPaired == ChatSpec => []TurnsPaired
<1>1. ChatInv => TurnsPaired BY DEF ChatInv, Conversing, Paired, TurnsPaired
<1> QED BY <1>1, ChatHolds, PTL

(***************************************************************************)
(* The migration runner. MigrationInv says what a command that is under    *)
(* way has read and that it is still true, unless a downgrade ran beside   *)
(* another command.                                                        *)
(***************************************************************************)
Commands == [command : {"none", "up", "down"}, todo : SUBSET Versions]

MigrationTypeOK ==
  /\ schema \in SUBSET {"table", "nullable hash", "lease column"}
  /\ applied \in SUBSET Versions
  /\ runner \in [Runners -> Commands]
  /\ raced \in BOOLEAN

\* A command that is under way has something to do.
HasWork == \A r \in Runners : runner[r].command # "none" => runner[r].todo # {}

\* What a runner read is still true: an upgrade has all that is not applied
\* before it, a downgrade the latest version and no company.
ReadsHold ==
  \A r \in Runners :
    /\ runner[r].command = "up" => Versions \ runner[r].todo \subseteq applied
    /\ runner[r].command = "down" =>
         /\ applied # {} /\ runner[r].todo = {LastOf(applied)}
         /\ \A s \in Runners : runner[s].command # "none" => s = r

\* The versions applied leave no gap and are what the table shows.
SchemaIsRecord ==
  /\ schema = {Feature[v] : v \in applied}
  /\ \A v \in applied, w \in Versions : w < v => w \in applied

MigrationInv ==
  /\ MigrationTypeOK
  /\ HasWork
  /\ ~raced => ReadsHold /\ SchemaIsRecord

LEMMA VersionsAre == Versions = {1, 2, 3}
BY DEF Versions

LEMMA FeaturesAre ==
  /\ Feature[1] = "table" /\ Feature[2] = "nullable hash" /\ Feature[3] = "lease column"
BY DEF Feature

LEMMA FirstOfIsFirst ==
  ASSUME NEW S \in SUBSET Versions, S # {}
  PROVE  FirstOf(S) \in S /\ \A w \in S : FirstOf(S) <= w
<1>1. \E v \in S : \A w \in S : v <= w
  <2>1. CASE 1 \in S BY <2>1, SMT DEF Versions
  <2>2. CASE 1 \notin S /\ 2 \in S BY <2>2, SMT DEF Versions
  <2>3. CASE 1 \notin S /\ 2 \notin S
    <3>1. S = {3} BY <2>3, VersionsAre
    <3> QED BY <3>1
  <2> QED BY <2>1, <2>2, <2>3
<1> QED BY <1>1, Zenon DEF FirstOf

LEMMA LastOfIsLast ==
  ASSUME NEW S \in SUBSET Versions, S # {}
  PROVE  LastOf(S) \in S /\ \A w \in S : LastOf(S) >= w
<1>1. \E v \in S : \A w \in S : v >= w
  <2>1. CASE 3 \in S BY <2>1, SMT DEF Versions
  <2>2. CASE 3 \notin S /\ 2 \in S BY <2>2, SMT DEF Versions
  <2>3. CASE 3 \notin S /\ 2 \notin S
    <3>1. S = {1} BY <2>3, VersionsAre
    <3> QED BY <3>1
  <2> QED BY <2>1, <2>2, <2>3
<1> QED BY <1>1, Zenon DEF LastOf

LEMMA MigrationInitially == MigrationInit => MigrationInv
<1> SUFFICES ASSUME MigrationInit PROVE MigrationInv
  OBVIOUS
<1>1. runner = [r \in Runners |-> Idle] /\ schema = {} /\ applied = {} /\ raced = FALSE
  BY DEF MigrationInit
<1>2. MigrationTypeOK BY <1>1 DEF MigrationTypeOK, Commands, Idle
<1>3. \A r \in Runners : runner[r].command = "none" BY <1>1 DEF Idle
<1>4. HasWork /\ ReadsHold BY <1>3 DEF HasWork, ReadsHold
<1>5. SchemaIsRecord BY <1>1 DEF SchemaIsRecord
<1> QED BY <1>2, <1>4, <1>5 DEF MigrationInv

\* Finishing a step of a command leaves its runner with less to do or idle.
LEMMA DoneRunner ==
  ASSUME NEW r \in Runners, NEW v \in runner[r].todo, MigrationTypeOK, HasWork,
         runner[r].command \in {"up", "down"}, Done(r, v)
  PROVE  /\ runner' \in [Runners -> Commands]
         /\ HasWork'
         /\ \A s \in Runners \ {r} : runner'[s] = runner[s]
         /\ runner'[r].command # "none" => /\ runner'[r].command = runner[r].command
                                           /\ runner'[r].todo = runner[r].todo \ {v}
<1> DEFINE rest == runner[r].todo \ {v}
           next == IF rest = {} THEN Idle ELSE [runner[r] EXCEPT !.todo = rest]
<1>1. runner' = [runner EXCEPT ![r] = next] BY DEF Done
<1>2. next \in Commands /\ (next.command # "none" => /\ next.command = runner[r].command
                                                    /\ next.todo = rest /\ rest # {})
  BY DEF MigrationTypeOK, Commands, Idle
<1> HIDE DEF next
<1>3. runner' \in [Runners -> Commands] BY <1>1, <1>2 DEF MigrationTypeOK
<1>4. \A s \in Runners \ {r} : runner'[s] = runner[s] BY <1>1 DEF MigrationTypeOK
<1>5. runner'[r] = next BY <1>1 DEF MigrationTypeOK
<1>6. HasWork' BY <1>2, <1>4, <1>5 DEF HasWork
<1> QED BY <1>2, <1>3, <1>4, <1>5, <1>6

LEMMA ReadKeepsInv ==
  ASSUME NEW r \in Runners, NEW command \in {"up", "down"}, MigrationInv, ReadApplied(r, command)
  PROVE  MigrationInv'
<1> DEFINE todo == IF command = "up" THEN Versions \ applied
                   ELSE IF applied = {} THEN {} ELSE {LastOf(applied)}
           next == IF todo = {} THEN Idle ELSE [command |-> command, todo |-> todo]
<1>1. /\ runner' = [runner EXCEPT ![r] = next]
      /\ UNCHANGED <<schema, applied, unhashed>>
      /\ raced' = (raced \/ \E s \in Running : "down" \in {command, runner[s].command})
  BY DEF ReadApplied
<1>2. todo \in SUBSET Versions
  BY LastOfIsLast DEF MigrationInv, MigrationTypeOK
<1>3. /\ next \in Commands
      /\ next.command # "none" => next.command = command /\ next.todo = todo /\ todo # {}
  BY <1>2 DEF Commands, Idle
<1> HIDE DEF next
<1>4. runner'[r] = next /\ \A s \in Runners \ {r} : runner'[s] = runner[s]
  BY <1>1 DEF MigrationInv, MigrationTypeOK
<1>5. MigrationTypeOK'
  BY <1>1, <1>3 DEF MigrationInv, MigrationTypeOK
<1>6. HasWork' BY <1>3, <1>4 DEF MigrationInv, HasWork
<1>7. SUFFICES ASSUME ~raced' PROVE ReadsHold' /\ SchemaIsRecord'
  BY <1>5, <1>6 DEF MigrationInv
<1>8. ~raced /\ \A s \in Running : command # "down" /\ runner[s].command # "down"
  BY <1>1, <1>7
<1>9. SchemaIsRecord' BY <1>1, <1>8 DEF MigrationInv, SchemaIsRecord
<1>10. runner[r].command = "none" BY DEF ReadApplied, Idle
<1>11. ASSUME NEW s \in Runners
       PROVE  runner'[s].command = "up" => Versions \ runner'[s].todo \subseteq applied'
  BY <1>1, <1>2, <1>3, <1>4, <1>8 DEF MigrationInv, MigrationTypeOK, ReadsHold
<1>12. ASSUME NEW s \in Runners, runner'[s].command = "down"
       PROVE  /\ applied' # {} /\ runner'[s].todo = {LastOf(applied')}
              /\ \A t \in Runners : runner'[t].command # "none" => t = s
  <2>1. s = r BY <1>4, <1>8, <1>12 DEF Running
  <2>2. command = "down" BY <2>1, <1>3, <1>4, <1>12
  <2>3. applied # {} /\ runner'[s].todo = {LastOf(applied)}
    BY <2>1, <2>2, <1>3, <1>4, <1>12
  <2>4. \A t \in Runners \ {r} : runner[t].command = "none" BY <2>2, <1>8 DEF Running
  <2> QED BY <2>1, <2>3, <2>4, <1>1, <1>4
<1> QED BY <1>9, <1>11, <1>12 DEF ReadsHold

\* The up files on a table without gaps: the first version missing is the next
\* one, and running it adds its feature.
LEMMA ApplyKeepsInv ==
  ASSUME NEW r \in Runners, MigrationInv, ApplyOne(r)
  PROVE  MigrationInv'
<1> DEFINE v == FirstOf(runner[r].todo)
<1>1. /\ runner[r].command = "up" /\ v \notin applied
      /\ schema' = AfterUp(v) /\ applied' = applied \cup {v} /\ Done(r, v)
      /\ raced' = raced
  BY DEF ApplyOne
<1>2. runner[r].todo \in SUBSET Versions /\ runner[r].todo # {}
  BY <1>1 DEF MigrationInv, MigrationTypeOK, HasWork, Commands
<1>3. v \in runner[r].todo /\ v \in Versions /\ \A w \in runner[r].todo : v <= w
  BY <1>2, FirstOfIsFirst
<1> HIDE DEF v
<1>4. /\ runner' \in [Runners -> Commands] /\ HasWork'
      /\ \A s \in Runners \ {r} : runner'[s] = runner[s]
      /\ runner'[r].command # "none" => /\ runner'[r].command = "up"
                                        /\ runner'[r].todo = runner[r].todo \ {v}
  BY <1>1, <1>3, DoneRunner DEF MigrationInv
<1>5. MigrationTypeOK'
  <2>1. Feature[v] \in {"table", "nullable hash", "lease column"}
    BY <1>3, VersionsAre, FeaturesAre
  <2> QED BY <2>1, <1>1, <1>3, <1>4 DEF MigrationInv, MigrationTypeOK, AfterUp
<1>6. SUFFICES ASSUME ~raced PROVE ReadsHold' /\ SchemaIsRecord'
  BY <1>1, <1>4, <1>5 DEF MigrationInv
<1>7. ReadsHold /\ SchemaIsRecord BY <1>6 DEF MigrationInv
<1>8. \A w \in Versions : w < v => w \in applied
  BY <1>1, <1>2, <1>3, <1>7 DEF ReadsHold, Versions
<1>9. SchemaIsRecord'
  <2>1. schema' = {Feature[w] : w \in applied'}
    BY <1>1, <1>7 DEF SchemaIsRecord, AfterUp
  <2>2. \A x \in applied', w \in Versions : w < x => w \in applied'
    BY <1>1, <1>7, <1>8 DEF SchemaIsRecord
  <2> QED BY <2>1, <2>2 DEF SchemaIsRecord
<1>10. \A s \in Runners : runner[s].command # "down"
  BY <1>1, <1>7 DEF ReadsHold
<1>11. \A s \in Runners : runner'[s].command # "down"
  BY <1>4, <1>10
<1>12. ASSUME NEW s \in Runners, runner'[s].command = "up"
       PROVE  Versions \ runner'[s].todo \subseteq applied'
  <2>1. CASE s = r BY <2>1, <1>1, <1>4, <1>7, <1>12 DEF ReadsHold
  <2>2. CASE s # r BY <2>2, <1>1, <1>4, <1>7, <1>12 DEF ReadsHold
  <2> QED BY <2>1, <2>2
<1> QED BY <1>9, <1>11, <1>12 DEF ReadsHold

\* The down file of the latest version takes away its feature and no other.
LEMMA RevertKeepsInv ==
  ASSUME NEW r \in Runners, MigrationInv, RevertOne(r)
  PROVE  MigrationInv'
<1> DEFINE v == FirstOf(runner[r].todo)
<1>1. /\ runner[r].command = "down"
      /\ schema' = AfterDown(v) /\ applied' = applied \ {v} /\ Done(r, v)
      /\ raced' = raced
  BY DEF RevertOne
<1>2. runner[r].todo \in SUBSET Versions /\ runner[r].todo # {}
  BY <1>1 DEF MigrationInv, MigrationTypeOK, HasWork, Commands
<1>3. v \in runner[r].todo /\ v \in Versions
  BY <1>2, FirstOfIsFirst
<1> HIDE DEF v
<1>4. /\ runner' \in [Runners -> Commands] /\ HasWork'
      /\ \A s \in Runners \ {r} : runner'[s] = runner[s]
      /\ runner'[r].command # "none" => /\ runner'[r].command = "down"
                                        /\ runner'[r].todo = runner[r].todo \ {v}
  BY <1>1, <1>3, DoneRunner DEF MigrationInv
<1>5. MigrationTypeOK'
  BY <1>1, <1>3, <1>4 DEF MigrationInv, MigrationTypeOK, AfterDown
<1>6. SUFFICES ASSUME ~raced PROVE ReadsHold' /\ SchemaIsRecord'
  BY <1>1, <1>4, <1>5 DEF MigrationInv
<1>7. ReadsHold /\ SchemaIsRecord BY <1>6 DEF MigrationInv
<1>8. applied \in SUBSET Versions /\ applied # {} /\ runner[r].todo = {LastOf(applied)}
  BY <1>1, <1>7 DEF ReadsHold, MigrationInv, MigrationTypeOK
<1>9. v = LastOf(applied) /\ v \in applied /\ \A w \in applied : v >= w
  BY <1>3, <1>8, LastOfIsLast
<1>10. \A s \in Runners : runner'[s].command = "none"
  <2>1. runner'[r].command = "none" BY <1>4, <1>8, <1>9 DEF HasWork
  <2>2. \A s \in Runners \ {r} : runner'[s].command = "none" BY <1>1, <1>4, <1>7 DEF ReadsHold
  <2> QED BY <2>1, <2>2
<1>11. ASSUME NEW x \in applied', NEW w \in Versions, w < x
       PROVE  w \in applied'
  <2>1. x \in applied /\ x \in Versions /\ v >= x BY <1>1, <1>8, <1>9
  <2>2. w \in applied BY <2>1, <1>7, <1>11 DEF SchemaIsRecord
  <2>3. w # v BY <2>1, <1>3, <1>11 DEF Versions
  <2> QED BY <2>2, <2>3, <1>1
<1>12. schema' = {Feature[w] : w \in applied'}
  <2>1. CASE v = 1
    <3>1. applied' = {} BY <2>1, <1>1, <1>8, <1>9 DEF Versions
    <3> QED BY <3>1, <2>1, <1>1 DEF AfterDown
  <2>2. CASE v # 1
    <3>1. \A w \in Versions : Feature[w] = Feature[v] => w = v
      BY <1>3, VersionsAre, FeaturesAre
    <3> QED BY <3>1, <2>2, <1>1, <1>7, <1>8 DEF AfterDown, SchemaIsRecord
  <2> QED BY <2>1, <2>2
<1> QED BY <1>10, <1>11, <1>12 DEF ReadsHold, SchemaIsRecord

LEMMA FailureKeepsInv ==
  ASSUME NEW r \in Runners, MigrationInv, CommandFails(r)
  PROVE  MigrationInv'
<1>1. /\ runner' \in [Runners -> Commands]
      /\ \A s \in Runners : runner'[s] = IF s = r THEN Idle ELSE runner[s]
      /\ UNCHANGED <<schema, applied, raced>>
  BY DEF CommandFails, MigrationInv, MigrationTypeOK, Commands, Idle
<1>2. MigrationTypeOK' /\ HasWork'
  <2>1. MigrationTypeOK' BY <1>1 DEF MigrationInv, MigrationTypeOK
  <2>2. HasWork' BY <1>1 DEF MigrationInv, HasWork, Idle
  <2> QED BY <2>1, <2>2
<1>3. ASSUME ~raced PROVE ReadsHold' /\ SchemaIsRecord'
  BY <1>1, <1>3 DEF MigrationInv, ReadsHold, SchemaIsRecord, Idle
<1> QED BY <1>1, <1>2, <1>3 DEF MigrationInv

LEMMA MigrationStep == MigrationInv /\ [MigrationNext]_migrationVars => MigrationInv'
<1> SUFFICES ASSUME MigrationInv, [MigrationNext]_migrationVars PROVE MigrationInv'
  OBVIOUS
<1>1. CASE RowsChange
  BY <1>1 DEF RowsChange, MigrationInv, MigrationTypeOK, HasWork, ReadsHold, SchemaIsRecord
<1>2. ASSUME NEW r \in Runners,
             ReadApplied(r, "up") \/ ReadApplied(r, "down") \/ ApplyOne(r) \/ RevertOne(r)
               \/ CommandFails(r)
      PROVE  MigrationInv'
  BY <1>2, ReadKeepsInv, ApplyKeepsInv, RevertKeepsInv, FailureKeepsInv
<1>3. CASE UNCHANGED migrationVars
  BY <1>3 DEF migrationVars, MigrationInv, MigrationTypeOK, HasWork, ReadsHold, SchemaIsRecord
<1> QED BY <1>1, <1>2, <1>3 DEF MigrationNext

\* The documents table is what the recorded versions say, without gaps, however
\* many commands are given, run beside one another and fail (Migrator.up and
\* .down), unless a downgrade ran beside another command.
THEOREM MigrationsKeepRecord == MigrationSpec => []SchemaMatchesRecord
<1>1. MigrationInv => SchemaMatchesRecord
  BY DEF MigrationInv, SchemaIsRecord, SchemaMatchesRecord
<1> QED BY <1>1, MigrationInitially, MigrationStep, PTL DEF MigrationSpec
==============================================================================
