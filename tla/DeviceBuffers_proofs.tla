------------------------ MODULE DeviceBuffers_proofs ------------------------
(***************************************************************************)
(* Proofs about DeviceBuffers, for any buffers, views, memory, peers and    *)
(* JITs: memory has one owner, mappings and views follow the buffers they   *)
(* belong to, graphs in the cache know where their buffers are, and the     *)
(* device is full when an allocation fails.                                *)
(***************************************************************************)
EXTENDS MCDeviceBuffers, FiniteSetTheorems, SequenceTheorems, WellFoundedInduction, TLAPS

-----------------------------------------------------------------------------
(* Memory and its owners.                                                  *)

ObjectTypes ==
  /\ Live \subseteq Base \cup View
  /\ DOMAIN key = Live \cap Base /\ DOMAIN base = Live \cap View
  /\ \A b \in DOMAIN key : key[b] \in Key
  /\ \A v \in DOMAIN base : base[v] \in DOMAIN key

CacheTypes == cache \in [Key -> Seq(Memory)] /\ DOMAIN held \subseteq Memory
SlotTypes  == \A o \in Live : DOMAIN bufs[o] \subseteq Peer \cup {Own}

\* A base buffer that is known to any device is allocated, and all know the same memory.
BasesAgree ==
  \A b \in DOMAIN key : \A d \in DOMAIN bufs[b] :
    Own \in DOMAIN bufs[b] /\ bufs[b][d] = bufs[b][Own] /\ bufs[b][d] \in Memory

\* Memory is in one place only: with one buffer or in one slot of the cache.
OwnersApart ==
  \A b \in DOMAIN key : \A c \in DOMAIN key :
    Own \in DOMAIN bufs[b] /\ Own \in DOMAIN bufs[c] /\ bufs[b][Own] = bufs[c][Own] => b = c

SlotsApart ==
  \A k \in Key : \A l \in Key : \A i \in DOMAIN cache[k] : \A j \in DOMAIN cache[l] :
    cache[k][i] = cache[l][j] => k = l /\ i = j

OwnedOrCached ==
  \A b \in DOMAIN key : Own \in DOMAIN bufs[b] =>
    /\ bufs[b][Own] \in DOMAIN held
    /\ \A k \in Key : \A i \in DOMAIN cache[k] : cache[k][i] # bufs[b][Own]

CachedIsHeld == \A k \in Key : \A i \in DOMAIN cache[k] : cache[k][i] \in DOMAIN held

\* Nothing the device has handed out is lost.
HeldIsKnown ==
  \A m \in DOMAIN held :
    \/ \E b \in DOMAIN key : Own \in DOMAIN bufs[b] /\ bufs[b][Own] = m
    \/ \E k \in Key : \E i \in DOMAIN cache[k] : cache[k][i] = m

\* OnlyOwnersAreMapped, mapping by mapping.
MapsRight ==
  \A x : x \in maps <=>
    \E b \in DOMAIN key : Own \in DOMAIN bufs[b] /\
      \E p \in DOMAIN bufs[b] \ {Own} : x = <<p, bufs[b][Own]>>

OwnerInv == BasesAgree /\ OwnersApart /\ SlotsApart /\ OwnedOrCached /\ CachedIsHeld /\ HeldIsKnown
MemoryInv == ObjectTypes /\ CacheTypes /\ SlotTypes /\ OwnerInv /\ MapsRight

LEMMA MemoryInit == Init => MemoryInv
<1> SUFFICES ASSUME Init PROVE MemoryInv
  OBVIOUS
<1>1. /\ DOMAIN key = {} /\ DOMAIN base = {} /\ DOMAIN bufs = {} /\ DOMAIN held = {} /\ maps = {}
      /\ cache = [k \in Key |-> <<>>]
  BY DEF Init, Empty, NoCache
<1>2. ObjectTypes
  BY <1>1 DEF ObjectTypes, Live
<1>3. CacheTypes /\ SlotTypes
  BY <1>1 DEF CacheTypes, SlotTypes, Live
<1>4. \A k \in Key : DOMAIN cache[k] = {}
  BY <1>1
<1>5. OwnerInv
  BY <1>1, <1>4
     DEF OwnerInv, BasesAgree, OwnersApart, SlotsApart, OwnedOrCached, CachedIsHeld, HeldIsKnown
<1>6. MapsRight
  BY <1>1 DEF MapsRight
<1> QED
  BY <1>2, <1>3, <1>5, <1>6 DEF MemoryInv

\* A base buffer is its own base.
LEMMA OwnBase ==
  ASSUME ObjectTypes
  PROVE  /\ \A b \in DOMAIN key : b \in Live /\ b \notin View /\ BaseOf(b) = b
         /\ \A v \in DOMAIN base : v \in Live /\ v \in View /\ v \notin DOMAIN key /\ BaseOf(v) = base[v]
         /\ \A o \in Live : BaseOf(o) \in DOMAIN key /\ (o \in View => o \in DOMAIN base)
                            /\ (o \notin View => o \in DOMAIN key)
BY BuffersAssumption DEF ObjectTypes, BaseOf

\* The same devices know the same memory.
Same(c, f, g) == DOMAIN f[c] = DOMAIN g[c] /\ \A d \in DOMAIN f[c] : f[c][d] = g[c][d]

\* A step that leaves memory where it is: base buffers come and go only without any.
LEMMA MemoryStays ==
  ASSUME MemoryInv, ObjectTypes', SlotTypes', UNCHANGED <<cache, held, maps>>,
         \A c \in DOMAIN key' : (c \in DOMAIN key /\ Same(c, bufs, bufs')) \/ DOMAIN bufs'[c] = {},
         \A c \in DOMAIN key : DOMAIN bufs[c] # {} => c \in DOMAIN key' /\ Same(c, bufs, bufs')
  PROVE  MemoryInv'
<1>1. ObjectTypes /\ CacheTypes /\ OwnerInv /\ MapsRight
  BY DEF MemoryInv
<1>2. CacheTypes'
  BY <1>1 DEF CacheTypes
<1>3. BasesAgree' /\ OwnersApart' /\ SlotsApart' /\ OwnedOrCached' /\ CachedIsHeld'
  <2>1. BasesAgree /\ OwnersApart /\ SlotsApart /\ OwnedOrCached /\ CachedIsHeld
    BY <1>1 DEF OwnerInv
  <2>2. \A c \in DOMAIN key' : \A d \in DOMAIN bufs'[c] :
          c \in DOMAIN key /\ d \in DOMAIN bufs[c] /\ bufs'[c][d] = bufs[c][d]
          /\ DOMAIN bufs'[c] = DOMAIN bufs[c]
    BY DEF Same
  <2>3. BasesAgree'
    BY <2>1, <2>2 DEF BasesAgree
  <2>4. OwnersApart'
    BY <2>1, <2>2 DEF OwnersApart
  <2>5. SlotsApart' /\ CachedIsHeld'
    BY <2>1 DEF SlotsApart, CachedIsHeld
  <2>6. OwnedOrCached'
    BY <2>1, <2>2 DEF OwnedOrCached
  <2> QED
    BY <2>3, <2>4, <2>5, <2>6
<1>4. HeldIsKnown'
  <2> SUFFICES ASSUME NEW m \in DOMAIN held
               PROVE  \/ \E b \in DOMAIN key' : Own \in DOMAIN bufs'[b] /\ bufs'[b][Own] = m
                      \/ \E k \in Key : \E i \in DOMAIN cache[k] : cache[k][i] = m
    BY DEF HeldIsKnown
  <2>1. \/ \E b \in DOMAIN key : Own \in DOMAIN bufs[b] /\ bufs[b][Own] = m
        \/ \E k \in Key : \E i \in DOMAIN cache[k] : cache[k][i] = m
    BY <1>1 DEF OwnerInv, HeldIsKnown
  <2> QED
    BY <2>1 DEF Same
<1>5. MapsRight'
  <2> SUFFICES ASSUME NEW x
               PROVE  x \in maps <=> \E b \in DOMAIN key' : Own \in DOMAIN bufs'[b] /\
                                       \E p \in DOMAIN bufs'[b] \ {Own} : x = <<p, bufs'[b][Own]>>
    BY DEF MapsRight
  <2>1. x \in maps <=> \E b \in DOMAIN key : Own \in DOMAIN bufs[b] /\
                         \E p \in DOMAIN bufs[b] \ {Own} : x = <<p, bufs[b][Own]>>
    BY <1>1 DEF MapsRight
  <2> QED
    BY <2>1 DEF Same
<1> QED
  BY <1>2, <1>3, <1>4, <1>5 DEF MemoryInv, OwnerInv

-----------------------------------------------------------------------------
(* Allocation.                                                             *)

\* What free_cache leaves: the memory that buffers have.
LEMMA CacheFreed ==
  ASSUME MemoryInv
  PROVE  /\ FreeCache.cache = [k \in Key |-> <<>>]
         /\ DOMAIN FreeCache.held \subseteq DOMAIN held
         /\ \A b \in DOMAIN key : Own \in DOMAIN bufs[b] => bufs[b][Own] \in DOMAIN FreeCache.held
         /\ \A m \in DOMAIN FreeCache.held :
              \E b \in DOMAIN key : Own \in DOMAIN bufs[b] /\ bufs[b][Own] = m
<1>1. CacheTypes /\ OwnedOrCached /\ HeldIsKnown
  BY DEF MemoryInv, OwnerInv
<1>2. FreeCache.cache = NoCache /\ FreeCache.held = Less(held, Cached)
  BY DEF FreeCache
<1>3. DOMAIN FreeCache.held = DOMAIN held \ Cached
  BY <1>2 DEF Less
<1>4. \A m : m \in Cached <=> m \in Memory /\ \E k \in Key : \E i \in DOMAIN cache[k] : cache[k][i] = m
  BY DEF Cached, Range
<1>5. \A b \in DOMAIN key : Own \in DOMAIN bufs[b] => bufs[b][Own] \in DOMAIN held \ Cached
  BY <1>1, <1>4 DEF OwnedOrCached
<1>6. \A m \in DOMAIN held \ Cached :
        \E b \in DOMAIN key : Own \in DOMAIN bufs[b] /\ bufs[b][Own] = m
  BY <1>1, <1>4 DEF HeldIsKnown, CacheTypes
<1> QED
  BY <1>2, <1>3, <1>5, <1>6 DEF NoCache

\* Memory that alloc returns is nobody's, and what it leaves belongs to somebody.
Obtained(got) ==
  /\ got.mem \in Memory /\ got.mem \in DOMAIN got.held
  /\ got.cache \in [Key -> Seq(Memory)] /\ DOMAIN got.held \subseteq Memory
  /\ \A b \in DOMAIN key : Own \in DOMAIN bufs[b] =>
       bufs[b][Own] # got.mem /\ bufs[b][Own] \in DOMAIN got.held
  /\ \A k \in Key : \A i \in DOMAIN got.cache[k] :
       /\ i \in DOMAIN cache[k] /\ got.cache[k][i] = cache[k][i]
       /\ got.cache[k][i] # got.mem /\ got.cache[k][i] \in DOMAIN got.held
  /\ \A m \in DOMAIN got.held :
       \/ m = got.mem
       \/ \E b \in DOMAIN key : Own \in DOMAIN bufs[b] /\ bufs[b][Own] = m
       \/ \E k \in Key : \E i \in DOMAIN got.cache[k] : got.cache[k][i] = m

LEMMA TakenFromCache ==
  ASSUME MemoryInv, NEW k \in Key, cache[k] # <<>>, NEW got, got.mem = Last(cache[k]),
         got.cache = [cache EXCEPT ![k] = Front(@)], got.held = held
  PROVE  Obtained(got)
<1> DEFINE s == cache[k]
           n == Len(s)
<1>1. /\ CacheTypes /\ SlotsApart /\ OwnedOrCached /\ CachedIsHeld /\ HeldIsKnown
  BY DEF MemoryInv, OwnerInv
<1>2. s \in Seq(Memory) /\ s # <<>>
  BY <1>1 DEF CacheTypes
<1>3. n \in Nat \ {0} /\ DOMAIN s = 1..n /\ s[n] \in Memory
  BY <1>2
<1>4. /\ Front(s) \in Seq(Memory) /\ DOMAIN Front(s) = 1..(n - 1)
      /\ \A i \in 1..(n - 1) : Front(s)[i] = s[i]
  BY <1>2, <1>3 DEF Front
<1>5. got.mem = s[n] /\ n \in DOMAIN s
  BY <1>3 DEF Last
<1>6. /\ got.cache[k] = Front(s) /\ \A l \in Key \ {k} : got.cache[l] = cache[l]
      /\ got.cache \in [Key -> Seq(Memory)]
  BY <1>1, <1>4 DEF CacheTypes
<1> HIDE DEF s, n
<1>7. \A l \in Key : \A i \in DOMAIN got.cache[l] :
        /\ i \in DOMAIN cache[l] /\ got.cache[l][i] = cache[l][i]
        /\ ~(l = k /\ i = n)
  <2> TAKE l \in Key
  <2>1. CASE l = k
    BY <2>1, <1>3, <1>4, <1>6 DEF s
  <2>2. CASE l # k
    BY <2>2, <1>6
  <2> QED
    BY <2>1, <2>2
<1>8. got.mem = cache[k][n] /\ n \in DOMAIN cache[k]
  BY <1>5 DEF s
<1>9. \A l \in Key : \A i \in DOMAIN got.cache[l] :
        got.cache[l][i] # got.mem /\ got.cache[l][i] \in DOMAIN got.held
  BY <1>1, <1>7, <1>8 DEF SlotsApart, CachedIsHeld
<1>10. got.mem \in DOMAIN got.held
  BY <1>1, <1>8 DEF CachedIsHeld
<1>11. \A b \in DOMAIN key : Own \in DOMAIN bufs[b] =>
         bufs[b][Own] # got.mem /\ bufs[b][Own] \in DOMAIN got.held
  BY <1>1, <1>8 DEF OwnedOrCached
<1>12. ASSUME NEW l \in Key, NEW i \in DOMAIN cache[l], cache[l][i] # got.mem
       PROVE  i \in DOMAIN got.cache[l] /\ got.cache[l][i] = cache[l][i]
  <2>1. CASE l = k
    <3>1. i \in 1..n /\ i # n
      BY <2>1, <1>3, <1>8, <1>12 DEF s
    <3>2. i \in 1..(n - 1)
      BY <3>1, <1>3
    <3> QED
      BY <2>1, <3>2, <1>4, <1>6 DEF s
  <2>2. CASE l # k
    BY <2>2, <1>6
  <2> QED
    BY <2>1, <2>2
<1>13. ASSUME NEW m \in DOMAIN got.held
       PROVE  \/ m = got.mem
              \/ \E b \in DOMAIN key : Own \in DOMAIN bufs[b] /\ bufs[b][Own] = m
              \/ \E l \in Key : \E i \in DOMAIN got.cache[l] : got.cache[l][i] = m
  <2>1. CASE \E b \in DOMAIN key : Own \in DOMAIN bufs[b] /\ bufs[b][Own] = m
    BY <2>1
  <2>2. ASSUME NEW l \in Key, NEW i \in DOMAIN cache[l], cache[l][i] = m, m # got.mem
        PROVE  i \in DOMAIN got.cache[l] /\ got.cache[l][i] = m
    BY <2>2, <1>12
  <2>3. \/ \E b \in DOMAIN key : Own \in DOMAIN bufs[b] /\ bufs[b][Own] = m
        \/ \E l \in Key : \E i \in DOMAIN cache[l] : cache[l][i] = m
    BY <1>1 DEF HeldIsKnown
  <2> QED
    BY <2>1, <2>2, <2>3
<1>14. DOMAIN got.held \subseteq Memory /\ got.mem \in Memory
  BY <1>1, <1>3, <1>5 DEF CacheTypes
<1> QED
  BY <1>6, <1>7, <1>9, <1>10, <1>11, <1>13, <1>14 DEF Obtained

LEMMA TakenFresh ==
  ASSUME MemoryInv, NEW k \in Key,
         NEW after, after = Untouched \/ after = FreeCache,
         NEW m \in Memory \ DOMAIN after.held,
         NEW got, got = [mem |-> m, cache |-> after.cache, held |-> With(after.held, m, k[1])]
  PROVE  Obtained(got)
<1>1. CacheTypes /\ OwnedOrCached /\ CachedIsHeld /\ HeldIsKnown
  BY DEF MemoryInv, OwnerInv
<1>2. got.mem = m /\ got.cache = after.cache /\ DOMAIN got.held = DOMAIN after.held \cup {m}
  BY DEF With
<1>3. /\ after.cache \in [Key -> Seq(Memory)] /\ DOMAIN after.held \subseteq Memory
      /\ \A b \in DOMAIN key : Own \in DOMAIN bufs[b] => bufs[b][Own] \in DOMAIN after.held
      /\ \A l \in Key : \A i \in DOMAIN after.cache[l] :
           /\ i \in DOMAIN cache[l] /\ after.cache[l][i] = cache[l][i]
           /\ after.cache[l][i] \in DOMAIN after.held
      /\ \A x \in DOMAIN after.held :
           \/ \E b \in DOMAIN key : Own \in DOMAIN bufs[b] /\ bufs[b][Own] = x
           \/ \E l \in Key : \E i \in DOMAIN after.cache[l] : after.cache[l][i] = x
  <2>1. CASE after = Untouched
    <3>1. after.cache = cache /\ after.held = held
      BY <2>1 DEF Untouched
    <3> QED
      BY <3>1, <1>1 DEF CacheTypes, OwnedOrCached, CachedIsHeld, HeldIsKnown
  <2>2. CASE after = FreeCache
    <3>1. \A l \in Key : after.cache[l] = <<>> /\ DOMAIN after.cache[l] = {}
      BY <2>2, CacheFreed
    <3>2. after.cache \in [Key -> Seq(Memory)]
      <4>1. after.cache = [l \in Key |-> <<>>]
        BY <2>2, CacheFreed
      <4>2. <<>> \in Seq(Memory)
        OBVIOUS
      <4> QED
        BY <4>1, <4>2
    <3> QED
      BY <2>2, <3>1, <3>2, <1>1, CacheFreed DEF CacheTypes
  <2> QED
    BY <2>1, <2>2
<1> HIDE DEF With
<1> QED
  BY <1>2, <1>3 DEF Obtained

LEMMA AllocObtains ==
  ASSUME MemoryInv, NEW k \in Key, NEW got \in Allocs(k)
  PROVE  Obtained(got)
<1>1. CASE cache[k] # <<>>
  <2>1. got = [mem |-> Last(cache[k]), cache |-> [cache EXCEPT ![k] = Front(@)], held |-> held]
    BY <1>1 DEF Allocs
  <2>2. /\ got.mem = Last(cache[k]) /\ got.cache = [cache EXCEPT ![k] = Front(@)]
        /\ got.held = held
    BY <2>1
  <2> QED
    BY <1>1, <2>2, TakenFromCache
<1>2. CASE cache[k] = <<>>
  <2>1. PICK after : after = Retry(k)
    OBVIOUS
  <2>2. after = Untouched \/ after = FreeCache
    BY <2>1 DEF Retry
  <2>3. \E m \in Memory \ DOMAIN after.held :
          got = [mem |-> m, cache |-> after.cache, held |-> With(after.held, m, k[1])]
    BY <1>2, <2>1 DEF Allocs
  <2> QED
    BY <2>2, <2>3, TakenFresh
<1> QED
  BY <1>1, <1>2

\* A base buffer that had no memory gets what alloc returned.
LEMMA MemoryGot ==
  ASSUME MemoryInv, ObjectTypes', SlotTypes', UNCHANGED <<key, maps>>,
         NEW b \in DOMAIN key, Own \notin DOMAIN bufs[b], NEW got, Obtained(got),
         cache' = got.cache, held' = got.held,
         bufs'[b] = With(bufs[b], Own, got.mem),
         \A c \in DOMAIN key \ {b} : bufs'[c] = bufs[c]
  PROVE  MemoryInv'
<1>1. /\ ObjectTypes /\ CacheTypes /\ BasesAgree /\ OwnersApart /\ SlotsApart /\ OwnedOrCached
      /\ CachedIsHeld /\ HeldIsKnown /\ MapsRight
  BY DEF MemoryInv, OwnerInv
<1>2. DOMAIN bufs[b] = {}
  BY <1>1 DEF BasesAgree
<1>3. DOMAIN bufs'[b] = {Own} /\ bufs'[b][Own] = got.mem
  BY <1>2 DEF With
<1>4. key' = key /\ maps' = maps
  OBVIOUS
<1>5. CacheTypes'
  BY DEF CacheTypes, Obtained
<1>6. BasesAgree'
  BY <1>1, <1>3, <1>4 DEF BasesAgree, Obtained
<1>7. OwnersApart'
  BY <1>1, <1>3, <1>4 DEF OwnersApart, Obtained
<1>8. SlotsApart'
  BY <1>1 DEF SlotsApart, Obtained
<1>9. OwnedOrCached'
  <2> SUFFICES ASSUME NEW c \in DOMAIN key, Own \in DOMAIN bufs'[c]
               PROVE  /\ bufs'[c][Own] \in DOMAIN held'
                      /\ \A k \in Key : \A i \in DOMAIN cache'[k] : cache'[k][i] # bufs'[c][Own]
    BY <1>4 DEF OwnedOrCached
  <2>1. CASE c = b
    BY <2>1, <1>3 DEF Obtained
  <2>2. CASE c # b
    BY <2>2, <1>1 DEF OwnedOrCached, Obtained
  <2> QED
    BY <2>1, <2>2
<1>10. CachedIsHeld'
  BY DEF CachedIsHeld, Obtained
<1>11. HeldIsKnown'
  <2> SUFFICES ASSUME NEW m \in DOMAIN got.held
               PROVE  \/ \E c \in DOMAIN key : Own \in DOMAIN bufs'[c] /\ bufs'[c][Own] = m
                      \/ \E k \in Key : \E i \in DOMAIN cache'[k] : cache'[k][i] = m
    BY <1>4 DEF HeldIsKnown
  <2>1. \/ m = got.mem
        \/ \E c \in DOMAIN key : Own \in DOMAIN bufs[c] /\ bufs[c][Own] = m
        \/ \E k \in Key : \E i \in DOMAIN got.cache[k] : got.cache[k][i] = m
    BY DEF Obtained
  <2>2. ASSUME NEW c \in DOMAIN key, Own \in DOMAIN bufs[c], bufs[c][Own] = m
        PROVE  Own \in DOMAIN bufs'[c] /\ bufs'[c][Own] = m
    BY <2>2
  <2>3. CASE m = got.mem
    BY <2>3, <1>3
  <2> QED
    BY <2>1, <2>2, <2>3
<1>12. MapsRight'
  <2> SUFFICES ASSUME NEW x
               PROVE  x \in maps <=> \E c \in DOMAIN key : Own \in DOMAIN bufs'[c] /\
                                       \E p \in DOMAIN bufs'[c] \ {Own} : x = <<p, bufs'[c][Own]>>
    BY <1>4 DEF MapsRight
  <2>1. x \in maps <=> \E c \in DOMAIN key : Own \in DOMAIN bufs[c] /\
                         \E p \in DOMAIN bufs[c] \ {Own} : x = <<p, bufs[c][Own]>>
    BY <1>1 DEF MapsRight
  <2> QED
    BY <2>1, <1>2, <1>3
<1> QED
  BY <1>5, <1>6, <1>7, <1>8, <1>9, <1>10, <1>11, <1>12 DEF MemoryInv, OwnerInv

\* What Ensure does to the buffers, once it is known where the memory comes from.
Placed(o, mem) ==
  /\ DOMAIN bufs' = Live
  /\ bufs'[o] = With(bufs[o], Own, mem)
  /\ BaseOf(o) # o => bufs'[BaseOf(o)] = With(bufs[BaseOf(o)], Own, mem)
  /\ \A x \in Live \ {o, BaseOf(o)} : bufs'[x] = bufs[x]

LEMMA EnsurePlaces ==
  ASSUME ObjectTypes, NEW o \in Live, Ensure(o)
  PROVE  /\ ~Initialized(o) /\ UNCHANGED <<objects, maps, jits>> /\ allocated_views' = Counted(o)
         /\ \/ /\ Allocated(o) /\ Placed(o, bufs[BaseOf(o)][Own]) /\ UNCHANGED <<cache, held>>
            \/ /\ ~Allocated(o)
               /\ \E got \in Allocs(key[BaseOf(o)]) :
                    Placed(o, got.mem) /\ cache' = got.cache /\ held' = got.held
<1>1. PICK b : b = BaseOf(o)
  OBVIOUS
<1>2. b \in Live
  BY <1>1, OwnBase
<1>3. PICK got \in IF Allocated(o) THEN {[mem |-> bufs[b][Own], cache |-> cache, held |-> held]}
                   ELSE Allocs(key[b]) :
        /\ bufs' = With(With(bufs, b, With(bufs[b], Own, got.mem)), o, With(bufs[o], Own, got.mem))
        /\ cache' = got.cache /\ held' = got.held
  BY <1>1 DEF Ensure
<1>4. Placed(o, got.mem)
  <2> DEFINE X == With(bufs[b], Own, got.mem)
             Y == With(bufs[o], Own, got.mem)
  <2>1. bufs' = With(With(bufs, b, X), o, Y)
    BY <1>3
  <2> HIDE DEF X, Y
  <2>2. /\ DOMAIN bufs' = Live /\ bufs'[o] = Y /\ (b # o => bufs'[b] = X)
        /\ \A x \in Live \ {o, b} : bufs'[x] = bufs[x]
    BY <2>1, <1>2 DEF With, Live
  <2> QED
    BY <2>2, <1>1 DEF Placed, X, Y
<1>5. ~Initialized(o) /\ UNCHANGED <<objects, maps, jits>> /\ allocated_views' = Counted(o)
  BY DEF Ensure
<1>6. CASE Allocated(o)
  <2>1. got = [mem |-> bufs[b][Own], cache |-> cache, held |-> held]
    BY <1>3, <1>6
  <2>2. got.mem = bufs[b][Own] /\ got.cache = cache /\ got.held = held
    BY <2>1
  <2> QED
    BY <2>2, <1>1, <1>3, <1>4, <1>5, <1>6
<1>7. CASE ~Allocated(o)
  BY <1>1, <1>3, <1>4, <1>5, <1>7
<1> QED
  BY <1>6, <1>7

LEMMA EnsureKeepsMemory ==
  ASSUME MemoryInv, NEW o \in Live, Ensure(o)
  PROVE  MemoryInv'
<1>1. ObjectTypes /\ SlotTypes /\ BasesAgree
  BY DEF MemoryInv, OwnerInv
<1>2. PICK b : b = BaseOf(o)
  OBVIOUS
<1>3. /\ b \in DOMAIN key /\ b \in Live /\ \A c \in DOMAIN key : c \in Live /\ c \notin View
      /\ o \notin View => o = b
      /\ o \in View => o \notin DOMAIN key
  BY <1>1, <1>2, OwnBase DEF BaseOf
<1>4. key' = key /\ base' = base /\ maps' = maps
  BY <1>1, EnsurePlaces DEF objects
<1>5. ASSUME NEW mem, Placed(o, mem)
      PROVE  ObjectTypes' /\ SlotTypes' /\ bufs'[b] = With(bufs[b], Own, mem)
             /\ \A c \in DOMAIN key \ {b} : bufs'[c] = bufs[c]
  <2>1. Live' = Live
    BY <1>5 DEF Placed, Live
  <2>2. ObjectTypes'
    BY <1>1, <1>4, <2>1 DEF ObjectTypes
  <2>3. bufs'[b] = With(bufs[b], Own, mem)
    BY <1>2, <1>5 DEF Placed
  <2>4. \A c \in DOMAIN key \ {b} : bufs'[c] = bufs[c]
    BY <1>2, <1>3, <1>5 DEF Placed
  <2>5. \A x \in Live : bufs'[x] = bufs[x] \/ bufs'[x] = With(bufs[x], Own, mem)
    BY <1>2, <1>5 DEF Placed
  <2>6. \A x \in Live : DOMAIN bufs'[x] \subseteq DOMAIN bufs[x] \cup {Own}
    BY <2>5 DEF With
  <2>7. SlotTypes'
    BY <1>1, <2>1, <2>6 DEF SlotTypes
  <2> QED
    BY <2>2, <2>3, <2>4, <2>7
<1>6. CASE Allocated(o)
  <2>1. Placed(o, bufs[b][Own]) /\ UNCHANGED <<cache, held>>
    BY <1>1, <1>2, <1>6, EnsurePlaces
  <2>2. Own \in DOMAIN bufs[b]
    BY <1>2, <1>6 DEF Allocated
  <2>3. o # b /\ o \in View
    BY <1>1, <1>2, <1>3, <1>6, <2>2, EnsurePlaces DEF Initialized
  <2>4. ObjectTypes' /\ SlotTypes' /\ bufs'[b] = With(bufs[b], Own, bufs[b][Own])
        /\ \A c \in DOMAIN key \ {b} : bufs'[c] = bufs[c]
    BY <1>5, <2>1
  <2>5. /\ DOMAIN bufs'[b] = DOMAIN bufs[b] /\ \A d \in DOMAIN bufs[b] : bufs'[b][d] = bufs[b][d]
    BY <2>2, <2>4 DEF With
  <2>6. Same(b, bufs, bufs') /\ \A c \in DOMAIN key \ {b} : Same(c, bufs, bufs')
    BY <2>4, <2>5 DEF Same
  <2> QED
    BY <1>4, <2>1, <2>4, <2>6, MemoryStays
<1>7. CASE ~Allocated(o)
  <2>1. PICK got \in Allocs(key[b]) :
          Placed(o, got.mem) /\ cache' = got.cache /\ held' = got.held
    BY <1>1, <1>2, <1>7, EnsurePlaces
  <2>2. Own \notin DOMAIN bufs[b]
    BY <1>2, <1>7 DEF Allocated
  <2>3. Obtained(got)
    BY <1>1, <1>3, <2>1, AllocObtains DEF ObjectTypes
  <2>4. /\ ObjectTypes' /\ SlotTypes' /\ bufs'[b] = With(bufs[b], Own, got.mem)
        /\ \A c \in DOMAIN key \ {b} : bufs'[c] = bufs[c]
    BY <1>5, <2>1
  <2> QED
    BY <1>3, <1>4, <2>1, <2>2, <2>3, <2>4, MemoryGot
<1> QED
  BY <1>6, <1>7

LEMMA EnsureFailsKeepsMemory ==
  ASSUME MemoryInv, NEW o \in Live, EnsureFails(o)
  PROVE  MemoryInv'
<1>1. /\ ObjectTypes /\ CacheTypes /\ SlotTypes /\ BasesAgree /\ OwnersApart /\ MapsRight
  BY DEF MemoryInv, OwnerInv
<1>2. /\ key' = key /\ base' = base /\ bufs' = bufs /\ maps' = maps
      /\ cache' = FreeCache.cache /\ held' = FreeCache.held
  BY DEF EnsureFails, objects
<1>3. /\ cache' = [k \in Key |-> <<>>] /\ DOMAIN held' \subseteq DOMAIN held
      /\ \A b \in DOMAIN key : Own \in DOMAIN bufs[b] => bufs[b][Own] \in DOMAIN held'
      /\ \A m \in DOMAIN held' : \E b \in DOMAIN key : Own \in DOMAIN bufs[b] /\ bufs[b][Own] = m
  BY <1>2, CacheFreed
<1>4. \A k \in Key : cache'[k] = <<>> /\ DOMAIN cache'[k] = {}
  BY <1>3
<1>5. cache' \in [Key -> Seq(Memory)]
  <2>1. <<>> \in Seq(Memory)
    OBVIOUS
  <2> QED
    BY <1>3, <2>1
<1>6. ObjectTypes' /\ CacheTypes' /\ SlotTypes'
  BY <1>1, <1>2, <1>3, <1>5 DEF ObjectTypes, CacheTypes, SlotTypes, Live
<1>7. BasesAgree' /\ OwnersApart' /\ MapsRight'
  BY <1>1, <1>2 DEF BasesAgree, OwnersApart, MapsRight
<1>8. SlotsApart' /\ CachedIsHeld'
  BY <1>4 DEF SlotsApart, CachedIsHeld
<1>9. OwnedOrCached'
  BY <1>2, <1>3, <1>4 DEF OwnedOrCached
<1>10. HeldIsKnown'
  BY <1>2, <1>3 DEF HeldIsKnown
<1> QED
  BY <1>6, <1>7, <1>8, <1>9, <1>10 DEF MemoryInv, OwnerInv

-----------------------------------------------------------------------------
(* Giving memory back.                                                     *)

\* Where the memory goes that deallocate takes from a base buffer.
LEMMA MemoryGoes ==
  ASSUME MemoryInv, NEW b \in DOMAIN key, Own \in DOMAIN bufs[b], GiveBack(b),
         NEW mem, mem = bufs[b][Own]
  PROVE  /\ CacheTypes' /\ SlotsApart' /\ CachedIsHeld'
         /\ \A m : m \in DOMAIN held => m = mem \/ m \in DOMAIN held'
         /\ mem \in DOMAIN held' => \E k \in Key : \E i \in DOMAIN cache'[k] : cache'[k][i] = mem
         /\ DOMAIN held' \subseteq DOMAIN held
         /\ \A k \in Key : \A i \in DOMAIN cache[k] : i \in DOMAIN cache'[k] /\ cache'[k][i] = cache[k][i]
         /\ \A k \in Key : \A i \in DOMAIN cache'[k] :
              cache'[k][i] = mem \/ (i \in DOMAIN cache[k] /\ cache'[k][i] = cache[k][i])
<1>1. /\ ObjectTypes /\ CacheTypes /\ BasesAgree /\ SlotsApart /\ OwnedOrCached /\ CachedIsHeld
  BY DEF MemoryInv, OwnerInv
<1>2. /\ key[b] \in Key /\ mem \in Memory /\ mem \in DOMAIN held
      /\ \A k \in Key : \A i \in DOMAIN cache[k] : cache[k][i] # mem
  BY <1>1 DEF ObjectTypes, BasesAgree, OwnedOrCached
<1>3. CASE held' = Less(held, {mem}) /\ cache' = cache
  <2>1. DOMAIN held' = DOMAIN held \ {mem}
    BY <1>3 DEF Less
  <2>2. CacheTypes' /\ SlotsApart'
    BY <1>1, <1>3, <2>1 DEF CacheTypes, SlotsApart
  <2>3. CachedIsHeld'
    BY <1>1, <1>2, <1>3, <2>1 DEF CachedIsHeld
  <2> QED
    BY <1>3, <2>1, <2>2, <2>3
<1>4. CASE cache' = [cache EXCEPT ![key[b]] = Append(@, mem)] /\ held' = held
  <2>1. PICK s, n : s = cache[key[b]] /\ n = Len(s)
    OBVIOUS
  <2>2. s \in Seq(Memory)
    BY <1>1, <1>2, <2>1 DEF CacheTypes
  <2>3. /\ n \in Nat /\ DOMAIN s = 1..n
        /\ Append(s, mem) \in Seq(Memory) /\ DOMAIN Append(s, mem) = 1..(n + 1)
        /\ Append(s, mem)[n + 1] = mem /\ \A i \in 1..n : Append(s, mem)[i] = s[i]
    BY <1>2, <2>1, <2>2
  <2>4. /\ cache' \in [Key -> Seq(Memory)] /\ cache'[key[b]] = Append(s, mem)
        /\ \A k \in Key : k # key[b] => cache'[k] = cache[k]
    BY <1>1, <1>2, <1>4, <2>1, <2>3 DEF CacheTypes
  <2>5. \A k \in Key : \A i \in DOMAIN cache[k] : i \in DOMAIN cache'[k] /\ cache'[k][i] = cache[k][i]
    <3> TAKE k \in Key
    <3>1. CASE k = key[b]
      BY <3>1, <2>1, <2>3, <2>4
    <3>2. CASE k # key[b]
      BY <3>2, <2>4
    <3> QED
      BY <3>1, <3>2
  <2>6. \A k \in Key : \A i \in DOMAIN cache'[k] :
          \/ k = key[b] /\ i = n + 1 /\ cache'[k][i] = mem
          \/ i \in DOMAIN cache[k] /\ cache'[k][i] = cache[k][i]
    <3> TAKE k \in Key
    <3>1. CASE k = key[b]
      BY <3>1, <2>1, <2>3, <2>4
    <3>2. CASE k # key[b]
      BY <3>2, <2>4
    <3> QED
      BY <3>1, <3>2
  <2>7. n + 1 \in DOMAIN cache'[key[b]] /\ cache'[key[b]][n + 1] = mem
    BY <2>3, <2>4
  <2>8. SlotsApart'
    BY <1>1, <1>2, <2>6 DEF SlotsApart
  <2>9. CachedIsHeld'
    BY <1>1, <1>2, <1>4, <2>6 DEF CachedIsHeld
  <2>10. CacheTypes'
    BY <1>1, <1>4, <2>4 DEF CacheTypes
  <2> QED
    BY <1>2, <1>4, <2>5, <2>6, <2>7, <2>8, <2>9, <2>10
<1> QED
  BY <1>3, <1>4 DEF GiveBack

\* A base buffer that gives its memory back has none afterwards, and the others keep theirs.
LEMMA MemoryReleased ==
  ASSUME MemoryInv, ObjectTypes', SlotTypes',
         NEW b \in DOMAIN key, Own \in DOMAIN bufs[b], GiveBack(b),
         DOMAIN key' \subseteq DOMAIN key,
         b \in DOMAIN key' => DOMAIN bufs'[b] = {},
         \A c \in DOMAIN key \ {b} : c \in DOMAIN key' /\ bufs'[c] = bufs[c]
  PROVE  MemoryInv'
<1>1. /\ ObjectTypes /\ BasesAgree /\ OwnersApart /\ OwnedOrCached /\ HeldIsKnown /\ MapsRight
  BY DEF MemoryInv, OwnerInv
<1>2. PICK mem : mem = bufs[b][Own]
  OBVIOUS
<1>3. /\ CacheTypes' /\ SlotsApart' /\ CachedIsHeld'
      /\ \A m : m \in DOMAIN held => m = mem \/ m \in DOMAIN held'
      /\ mem \in DOMAIN held' => \E k \in Key : \E i \in DOMAIN cache'[k] : cache'[k][i] = mem
      /\ DOMAIN held' \subseteq DOMAIN held
      /\ \A k \in Key : \A i \in DOMAIN cache[k] : i \in DOMAIN cache'[k] /\ cache'[k][i] = cache[k][i]
      /\ \A k \in Key : \A i \in DOMAIN cache'[k] :
           cache'[k][i] = mem \/ (i \in DOMAIN cache[k] /\ cache'[k][i] = cache[k][i])
  BY <1>2, MemoryGoes
<1>4. \A c \in DOMAIN key' : \A d \in DOMAIN bufs'[c] : c \in DOMAIN key \ {b} /\ bufs'[c] = bufs[c]
  OBVIOUS
<1>5. BasesAgree'
  BY <1>1, <1>4 DEF BasesAgree
<1>6. OwnersApart'
  BY <1>1, <1>4 DEF OwnersApart
<1>7. OwnedOrCached'
  <2> SUFFICES ASSUME NEW c \in DOMAIN key', Own \in DOMAIN bufs'[c]
               PROVE  /\ bufs'[c][Own] \in DOMAIN held'
                      /\ \A k \in Key : \A i \in DOMAIN cache'[k] : cache'[k][i] # bufs'[c][Own]
    BY DEF OwnedOrCached
  <2>1. c \in DOMAIN key /\ c # b /\ bufs'[c] = bufs[c]
    BY <1>4
  <2>2. bufs[c][Own] # mem
    BY <1>1, <1>2, <2>1 DEF OwnersApart
  <2>3. bufs[c][Own] \in DOMAIN held /\ \A k \in Key : \A i \in DOMAIN cache[k] : cache[k][i] # bufs[c][Own]
    BY <1>1, <2>1 DEF OwnedOrCached
  <2> QED
    BY <1>3, <2>1, <2>2, <2>3
<1>8. HeldIsKnown'
  <2> SUFFICES ASSUME NEW m \in DOMAIN held'
               PROVE  \/ \E c \in DOMAIN key' : Own \in DOMAIN bufs'[c] /\ bufs'[c][Own] = m
                      \/ \E k \in Key : \E i \in DOMAIN cache'[k] : cache'[k][i] = m
    BY DEF HeldIsKnown
  <2>1. CASE m = mem
    BY <1>3, <2>1
  <2>2. CASE m # mem
    <3>1. \/ \E c \in DOMAIN key : Own \in DOMAIN bufs[c] /\ bufs[c][Own] = m
          \/ \E k \in Key : \E i \in DOMAIN cache[k] : cache[k][i] = m
      BY <1>1, <1>3 DEF HeldIsKnown
    <3>2. ASSUME NEW c \in DOMAIN key, Own \in DOMAIN bufs[c], bufs[c][Own] = m
          PROVE  c \in DOMAIN key' /\ Own \in DOMAIN bufs'[c] /\ bufs'[c][Own] = m
      BY <1>2, <2>2, <3>2
    <3>3. ASSUME NEW k \in Key, NEW i \in DOMAIN cache[k], cache[k][i] = m
          PROVE  i \in DOMAIN cache'[k] /\ cache'[k][i] = m
      BY <1>3, <3>3
    <3> QED
      BY <3>1, <3>2, <3>3
  <2> QED
    BY <2>1, <2>2
<1>9. MapsRight'
  <2> SUFFICES ASSUME NEW x
               PROVE  x \in maps' <=> \E c \in DOMAIN key' : Own \in DOMAIN bufs'[c] /\
                                        \E p \in DOMAIN bufs'[c] \ {Own} : x = <<p, bufs'[c][Own]>>
    BY DEF MapsRight
  <2>1. x \in maps <=> \E c \in DOMAIN key : Own \in DOMAIN bufs[c] /\
                         \E p \in DOMAIN bufs[c] \ {Own} : x = <<p, bufs[c][Own]>>
    BY <1>1 DEF MapsRight
  <2>2. maps' = maps \ {<<p, bufs[b][p]>> : p \in DOMAIN bufs[b]}
    BY DEF GiveBack, Unmapped
  <2>3. \A p \in DOMAIN bufs[b] : bufs[b][p] = mem
    BY <1>1, <1>2 DEF BasesAgree
  <2>4. x \in maps' <=> x \in maps /\ ~\E p \in DOMAIN bufs[b] : x = <<p, mem>>
    BY <2>2, <2>3
  <2>5. ASSUME x \in maps'
        PROVE  \E c \in DOMAIN key' : Own \in DOMAIN bufs'[c] /\
                 \E p \in DOMAIN bufs'[c] \ {Own} : x = <<p, bufs'[c][Own]>>
    <3>1. PICK c \in DOMAIN key : Own \in DOMAIN bufs[c] /\
                 \E p \in DOMAIN bufs[c] \ {Own} : x = <<p, bufs[c][Own]>>
      BY <2>1, <2>4, <2>5
    <3>2. c # b
      BY <1>2, <2>4, <2>5, <3>1
    <3> QED
      BY <3>1, <3>2
  <2>6. ASSUME NEW c \in DOMAIN key', Own \in DOMAIN bufs'[c],
               NEW p \in DOMAIN bufs'[c] \ {Own}, x = <<p, bufs'[c][Own]>>
        PROVE  x \in maps'
    <3>1. c \in DOMAIN key /\ c # b /\ bufs'[c] = bufs[c]
      BY <1>4, <2>6
    <3>2. bufs[c][Own] # mem
      BY <1>1, <1>2, <2>6, <3>1 DEF OwnersApart
    <3>3. x \in maps
      BY <2>1, <2>6, <3>1
    <3>4. ~\E y \in DOMAIN bufs[b] : x = <<y, mem>>
      BY <2>6, <3>1, <3>2
    <3> QED
      BY <2>4, <3>3, <3>4
  <2> QED
    BY <2>5, <2>6
<1> QED
  BY <1>3, <1>5, <1>6, <1>7, <1>8, <1>9 DEF MemoryInv, OwnerInv

-----------------------------------------------------------------------------
(* The operations on objects.                                              *)

LEMMA NewBaseKeepsMemory ==
  ASSUME MemoryInv, NEW b \in Base, NEW k \in Key, NewBase(b, k)
  PROVE  MemoryInv'
<1>1. ObjectTypes /\ SlotTypes
  BY DEF MemoryInv
<1>2. /\ b \notin Live /\ key' = With(key, b, k) /\ bufs' = With(bufs, b, Empty) /\ base' = base
      /\ UNCHANGED <<cache, held, maps>>
  BY DEF NewBase
<1>3. b \notin DOMAIN key /\ b \notin View
  BY <1>1, <1>2, BuffersAssumption DEF ObjectTypes
<1>4. /\ DOMAIN key' = DOMAIN key \cup {b} /\ key'[b] = k
      /\ \A c \in DOMAIN key : key'[c] = key[c]
  BY <1>2, <1>3 DEF With
<1>5. /\ DOMAIN bufs' = Live \cup {b} /\ DOMAIN bufs'[b] = {}
      /\ \A o \in Live : bufs'[o] = bufs[o]
  BY <1>2 DEF With, Empty, Live
<1>6. Live' = Live \cup {b}
  BY <1>5 DEF Live
<1>7. ObjectTypes'
  BY <1>1, <1>2, <1>3, <1>4, <1>6 DEF ObjectTypes
<1>8. SlotTypes'
  BY <1>1, <1>5, <1>6 DEF SlotTypes
<1>9. \A c \in DOMAIN key : c \in DOMAIN key' /\ Same(c, bufs, bufs')
  BY <1>1, <1>4, <1>5 DEF Same, ObjectTypes
<1>10. \A c \in DOMAIN key' : c \in DOMAIN key \/ DOMAIN bufs'[c] = {}
  BY <1>4, <1>5
<1> QED
  BY <1>2, <1>7, <1>8, <1>9, <1>10, MemoryStays

LEMMA NewViewKeepsMemory ==
  ASSUME MemoryInv, NEW v \in View, NEW o \in Live, NewView(v, o)
  PROVE  MemoryInv'
<1>1. ObjectTypes /\ SlotTypes
  BY DEF MemoryInv
<1>2. /\ v \notin Live /\ base' = With(base, v, BaseOf(o)) /\ bufs' = With(bufs, v, Empty)
      /\ key' = key /\ UNCHANGED <<cache, held, maps>>
  BY DEF NewView
<1>3. v \notin DOMAIN base /\ v \notin Base /\ BaseOf(o) \in DOMAIN key
  BY <1>1, <1>2, OwnBase, BuffersAssumption DEF ObjectTypes
<1>4. /\ DOMAIN base' = DOMAIN base \cup {v} /\ base'[v] = BaseOf(o)
      /\ \A w \in DOMAIN base : base'[w] = base[w]
  BY <1>2, <1>3 DEF With
<1>5. /\ DOMAIN bufs' = Live \cup {v} /\ DOMAIN bufs'[v] = {}
      /\ \A x \in Live : bufs'[x] = bufs[x]
  BY <1>2 DEF With, Empty, Live
<1>6. Live' = Live \cup {v}
  BY <1>5 DEF Live
<1>7. ObjectTypes'
  BY <1>1, <1>2, <1>3, <1>4, <1>6 DEF ObjectTypes
<1>8. SlotTypes'
  BY <1>1, <1>5, <1>6 DEF SlotTypes
<1>9. \A c \in DOMAIN key : c \in DOMAIN key' /\ Same(c, bufs, bufs')
  BY <1>1, <1>2, <1>5 DEF Same, ObjectTypes
<1> QED
  BY <1>2, <1>7, <1>8, <1>9, MemoryStays

\* What GetBuf does to the buffers: the object and its base know the peer, at what the
\* base knew for it or, the first time, at the base's own memory.
LEMMA GetBufPlaces ==
  ASSUME MemoryInv, NEW o \in Live, NEW p \in Peer, GetBuf(o, p),
         NEW b, b = BaseOf(o)
  PROVE  \E at :
         /\ p # Own /\ Own \in DOMAIN bufs[o] /\ Own \in DOMAIN bufs[b] /\ p \notin DOMAIN bufs[o]
         /\ DOMAIN bufs' = Live /\ at = bufs[b][Own]
         /\ bufs'[b] = With(bufs[b], p, at) /\ bufs'[o] = With(bufs[o], p, at)
         /\ \A x \in Live \ {o, b} : bufs'[x] = bufs[x]
         /\ p \in DOMAIN bufs[b] => bufs[b][p] = at /\ maps' = maps
         /\ p \notin DOMAIN bufs[b] => maps' = maps \cup {<<p, at>>}
<1>1. ObjectTypes /\ BasesAgree
  BY DEF MemoryInv, OwnerInv
<1>2. b \in DOMAIN key /\ b \in Live
  BY <1>1, OwnBase
<1>3. Own \in DOMAIN bufs[o] /\ Own \in DOMAIN bufs[b] /\ p \notin DOMAIN bufs[o] /\ p # Own
  BY BuffersAssumption DEF GetBuf, Initialized, Allocated
<1>4. PICK at : at = bufs[b][Own]
  OBVIOUS
<1>5. p \in DOMAIN bufs[b] => bufs[b][p] = at
  BY <1>1, <1>2, <1>4 DEF BasesAgree
<1>6. /\ maps' = (IF p \in DOMAIN bufs[b] THEN maps ELSE maps \cup {<<p, at>>})
      /\ bufs' = With(With(bufs, b, With(bufs[b], p, at)), o, With(bufs[o], p, at))
  <2>1. PICK known : known = (p \in DOMAIN bufs[b])
    OBVIOUS
  <2>2. (IF known THEN bufs[b][p] ELSE bufs[b][Own]) = at
    BY <1>4, <1>5, <2>1
  <2> QED
    BY <2>1, <2>2 DEF GetBuf
<1>7. PICK X, Y : X = With(bufs[b], p, at) /\ Y = With(bufs[o], p, at)
  OBVIOUS
<1>8. bufs' = With(With(bufs, b, X), o, Y) /\ (b = o => X = Y)
  BY <1>6, <1>7
<1>9. /\ DOMAIN bufs' = Live /\ bufs'[o] = Y /\ bufs'[b] = X
      /\ \A x \in Live \ {o, b} : bufs'[x] = bufs[x]
  BY <1>2, <1>8 DEF With, Live
<1> QED
  BY <1>3, <1>4, <1>5, <1>6, <1>7, <1>9

LEMMA GetBufKeepsMemory ==
  ASSUME MemoryInv, NEW o \in Live, NEW p \in Peer, GetBuf(o, p)
  PROVE  MemoryInv'
<1>1. /\ ObjectTypes /\ CacheTypes /\ SlotTypes /\ BasesAgree /\ OwnersApart /\ SlotsApart
      /\ OwnedOrCached /\ CachedIsHeld /\ HeldIsKnown /\ MapsRight
  BY DEF MemoryInv, OwnerInv
<1>2. PICK b : b = BaseOf(o)
  OBVIOUS
<1>3. PICK at :
         /\ p # Own /\ Own \in DOMAIN bufs[o] /\ Own \in DOMAIN bufs[b] /\ p \notin DOMAIN bufs[o]
         /\ DOMAIN bufs' = Live /\ at = bufs[b][Own]
         /\ bufs'[b] = With(bufs[b], p, at) /\ bufs'[o] = With(bufs[o], p, at)
         /\ \A x \in Live \ {o, b} : bufs'[x] = bufs[x]
         /\ p \in DOMAIN bufs[b] => bufs[b][p] = at /\ maps' = maps
         /\ p \notin DOMAIN bufs[b] => maps' = maps \cup {<<p, at>>}
  BY <1>2, GetBufPlaces
<1>4. /\ b \in DOMAIN key /\ b \in Live /\ \A c \in DOMAIN key : c \in Live /\ c \notin View
      /\ o \notin View => o = b
      /\ o \in View => o \notin DOMAIN key
  BY <1>1, <1>2, OwnBase DEF BaseOf
<1>5. key' = key /\ base' = base /\ cache' = cache /\ held' = held
  BY DEF GetBuf, objects
<1>6. \A c \in DOMAIN key \ {b} : bufs'[c] = bufs[c]
  BY <1>3, <1>4
<1>7. Live' = Live
  BY <1>3 DEF Live
<1>8. ObjectTypes'
  BY <1>1, <1>5, <1>7 DEF ObjectTypes
<1>9. SlotTypes'
  <2>1. \A x \in Live : bufs'[x] = bufs[x] \/ bufs'[x] = With(bufs[x], p, at)
    BY <1>3
  <2>2. \A x \in Live : DOMAIN bufs'[x] \subseteq DOMAIN bufs[x] \cup {p}
    BY <2>1 DEF With
  <2> QED
    BY <1>1, <1>7, <2>2 DEF SlotTypes
<1>10. /\ DOMAIN bufs'[b] = DOMAIN bufs[b] \cup {p} /\ bufs'[b][p] = at
       /\ \A d \in DOMAIN bufs[b] \ {p} : bufs'[b][d] = bufs[b][d]
  BY <1>3 DEF With
<1>11. CASE p \in DOMAIN bufs[b]
  <2>1. \A c \in DOMAIN key : c \in DOMAIN key' /\ Same(c, bufs, bufs')
    BY <1>3, <1>5, <1>6, <1>10, <1>11 DEF Same
  <2> QED
    BY <1>3, <1>5, <1>8, <1>9, <1>11, <2>1, MemoryStays
<1>12. CASE p \notin DOMAIN bufs[b]
  <2>1. maps' = maps \cup {<<p, at>>}
    BY <1>3, <1>12
  <2>2. /\ at \in Memory /\ \A d \in DOMAIN bufs[b] : bufs'[b][d] = at /\ bufs[b][d] = at
    BY <1>1, <1>3, <1>4, <1>10, <1>12 DEF BasesAgree
  <2>3. \A c \in DOMAIN key : (Own \in DOMAIN bufs'[c] <=> Own \in DOMAIN bufs[c])
                              /\ (Own \in DOMAIN bufs[c] => bufs'[c][Own] = bufs[c][Own])
    BY <1>3, <1>6, <1>10
  <2>4. CacheTypes' /\ SlotsApart' /\ CachedIsHeld'
    BY <1>1, <1>5 DEF CacheTypes, SlotsApart, CachedIsHeld
  <2>5. BasesAgree'
    <3> SUFFICES ASSUME NEW c \in DOMAIN key, NEW d \in DOMAIN bufs'[c]
                 PROVE  Own \in DOMAIN bufs'[c] /\ bufs'[c][d] = bufs'[c][Own] /\ bufs'[c][d] \in Memory
      BY <1>5 DEF BasesAgree
    <3>1. CASE c = b
      BY <3>1, <1>3, <1>10, <2>2
    <3>2. CASE c # b
      BY <3>2, <1>1, <1>6 DEF BasesAgree
    <3> QED
      BY <3>1, <3>2
  <2>6. OwnersApart'
    BY <1>1, <1>5, <2>3 DEF OwnersApart
  <2>7. OwnedOrCached'
    BY <1>1, <1>5, <2>3 DEF OwnedOrCached
  <2>8. HeldIsKnown'
    BY <1>1, <1>5, <2>3 DEF HeldIsKnown
  <2>9. MapsRight'
    <3> SUFFICES ASSUME NEW x
                 PROVE  x \in maps' <=> \E c \in DOMAIN key : Own \in DOMAIN bufs'[c] /\
                                          \E q \in DOMAIN bufs'[c] \ {Own} : x = <<q, bufs'[c][Own]>>
      BY <1>5 DEF MapsRight
    <3>1. x \in maps <=> \E c \in DOMAIN key : Own \in DOMAIN bufs[c] /\
                           \E q \in DOMAIN bufs[c] \ {Own} : x = <<q, bufs[c][Own]>>
      BY <1>1 DEF MapsRight
    <3>2. ASSUME x \in maps
          PROVE  \E c \in DOMAIN key : Own \in DOMAIN bufs'[c] /\
                   \E q \in DOMAIN bufs'[c] \ {Own} : x = <<q, bufs'[c][Own]>>
      <4>1. PICK c \in DOMAIN key : Own \in DOMAIN bufs[c] /\
                   \E q \in DOMAIN bufs[c] \ {Own} : x = <<q, bufs[c][Own]>>
        BY <3>1, <3>2
      <4>2. DOMAIN bufs[c] \subseteq DOMAIN bufs'[c]
        BY <1>6, <1>10
      <4> QED
        BY <2>3, <4>1, <4>2
    <3>3. ASSUME x = <<p, at>>
          PROVE  \E c \in DOMAIN key : Own \in DOMAIN bufs'[c] /\
                   \E q \in DOMAIN bufs'[c] \ {Own} : x = <<q, bufs'[c][Own]>>
      BY <3>3, <1>3, <1>4, <1>10, <2>3
    <3>4. ASSUME NEW c \in DOMAIN key, Own \in DOMAIN bufs'[c],
                 NEW q \in DOMAIN bufs'[c] \ {Own}, x = <<q, bufs'[c][Own]>>
          PROVE  x \in maps'
      <4>1. CASE c # b
        BY <3>1, <3>4, <4>1, <1>6, <2>1
      <4>2. CASE c = b /\ q # p
        <5>1. q \in DOMAIN bufs[b] \ {Own} /\ x = <<q, bufs[b][Own]>>
          BY <1>3, <1>10, <2>3, <3>4, <4>2
        <5> QED
          BY <1>3, <1>4, <2>1, <3>1, <5>1
      <4>3. CASE c = b /\ q = p
        BY <1>3, <2>1, <2>3, <3>4, <4>3
      <4> QED
        BY <4>1, <4>2, <4>3
    <3> QED
      BY <2>1, <3>2, <3>3, <3>4
  <2> QED
    BY <1>8, <1>9, <2>4, <2>5, <2>6, <2>7, <2>8, <2>9 DEF MemoryInv, OwnerInv
<1> QED
  BY <1>11, <1>12

LEMMA CollectKeepsMemory ==
  ASSUME MemoryInv, NEW o \in Live, Collect(o)
  PROVE  MemoryInv'
<1>1. ObjectTypes /\ SlotTypes /\ BasesAgree
  BY DEF MemoryInv, OwnerInv
<1>2. /\ key' = Less(key, {o}) /\ base' = Less(base, {o}) /\ bufs' = Less(bufs, {o})
      /\ o \in Base => \A v \in DOMAIN base : base[v] # o
      /\ \/ o \in Base /\ Own \in DOMAIN bufs[o] /\ GiveBack(o)
         \/ ~(o \in Base /\ Own \in DOMAIN bufs[o]) /\ KeepMemory
  BY DEF Collect
<1>3. /\ Live' = Live \ {o} /\ \A x \in Live \ {o} : bufs'[x] = bufs[x]
      /\ DOMAIN key' = DOMAIN key \ {o} /\ \A c \in DOMAIN key \ {o} : key'[c] = key[c]
      /\ DOMAIN base' = DOMAIN base \ {o} /\ \A v \in DOMAIN base \ {o} : base'[v] = base[v]
  BY <1>2 DEF Less, Live
<1>4. ObjectTypes'
  <2>1. /\ Live' \subseteq Base \cup View /\ DOMAIN key' = Live' \cap Base /\ DOMAIN base' = Live' \cap View
        /\ \A c \in DOMAIN key' : key'[c] \in Key
    BY <1>1, <1>3 DEF ObjectTypes
  <2>2. \A v \in DOMAIN base' : base'[v] \in DOMAIN key'
    BY <1>1, <1>2, <1>3 DEF ObjectTypes
  <2> QED
    BY <2>1, <2>2 DEF ObjectTypes
<1>5. SlotTypes'
  BY <1>1, <1>3 DEF SlotTypes
<1>6. \A c \in DOMAIN key \ {o} : c \in DOMAIN key' /\ bufs'[c] = bufs[c]
  BY <1>1, <1>3 DEF ObjectTypes
<1>7. CASE o \in Base /\ Own \in DOMAIN bufs[o] /\ GiveBack(o)
  <2>1. o \in DOMAIN key /\ o \notin DOMAIN key' /\ DOMAIN key' \subseteq DOMAIN key
    BY <1>1, <1>3, <1>7 DEF ObjectTypes
  <2> QED
    BY <1>4, <1>5, <1>6, <1>7, <2>1, MemoryReleased
<1>8. CASE ~(o \in Base /\ Own \in DOMAIN bufs[o]) /\ KeepMemory
  <2>1. UNCHANGED <<cache, held, maps>>
    BY <1>8 DEF KeepMemory
  <2>2. o \in DOMAIN key => DOMAIN bufs[o] = {}
    BY <1>1, <1>8 DEF BasesAgree, ObjectTypes
  <2>3. \A c \in DOMAIN key' : c \in DOMAIN key /\ Same(c, bufs, bufs')
    BY <1>3, <1>6 DEF Same
  <2>4. \A c \in DOMAIN key : DOMAIN bufs[c] # {} => c \in DOMAIN key' /\ Same(c, bufs, bufs')
    BY <1>6, <2>2 DEF Same
  <2> QED
    BY <1>4, <1>5, <2>1, <2>3, <2>4, MemoryStays
<1> QED
  BY <1>2, <1>7, <1>8

\* What FreeNext does to the buffers: the objects in gone are known to no device.
LEMMA FreeReleases ==
  ASSUME MemoryInv, NEW o \in Live, FreeNext(o),
         NEW b, b = BaseOf(o),
         NEW left, left = allocated_views[b] - (IF o \in View /\ Initialized(o) THEN 1 ELSE 0),
         NEW gone, gone = {x \in {o} : Initialized(x)} \cup {x \in {b} : Releases(o, left)}
  PROVE  /\ gone \subseteq {o, b} /\ (b \in gone => Own \in DOMAIN bufs[b])
         /\ o \in gone <=> Initialized(o) \/ (o = b /\ Allocated(o))
         /\ o # b => (b \in gone <=> Allocated(o) /\ left = 0)
         /\ DOMAIN bufs' = Live /\ \A x \in gone : DOMAIN bufs'[x] = {}
         /\ \A x \in Live \ gone : bufs'[x] = bufs[x]
         /\ key' = key /\ base' = base /\ written' = written /\ graph' = graph
         /\ allocated_views' = [allocated_views EXCEPT ![b] = left]
         /\ b \in gone => GiveBack(b)
         /\ b \notin gone => KeepMemory
<1>1. ObjectTypes
  BY DEF MemoryInv
<1>2. /\ bufs' = [x \in Live |-> IF x \in gone THEN Empty ELSE bufs[x]]
      /\ allocated_views' = [allocated_views EXCEPT ![b] = left]
      /\ IF b \in gone THEN GiveBack(b) ELSE KeepMemory
  BY DEF FreeNext
<1>3. key' = key /\ base' = base /\ written' = written /\ graph' = graph
  BY DEF FreeNext, objects, jits
<1>4. /\ DOMAIN bufs' = Live /\ \A x \in Live \ gone : bufs'[x] = bufs[x]
      /\ \A x \in Live \cap gone : DOMAIN bufs'[x] = {}
  BY <1>2 DEF Empty
<1>5. b \in Live /\ (o # b => o \in View /\ b \notin View)
  BY <1>1, OwnBase
<1>6. gone \subseteq {o, b}
  OBVIOUS
<1>7. Initialized(o) => Allocated(o)
  BY DEF Initialized
<1>8. Allocated(o) <=> Own \in DOMAIN bufs[b]
  BY DEF Allocated
<1>9. b \in gone => Own \in DOMAIN bufs[b]
  BY <1>7, <1>8 DEF Releases
<1>10. o \in gone <=> Initialized(o) \/ (o = b /\ Allocated(o))
  BY <1>1, <1>5, OwnBase DEF Releases
<1>11. o # b => (b \in gone <=> Allocated(o) /\ left = 0)
  BY <1>5 DEF Releases
<1> QED
  BY <1>2, <1>3, <1>4, <1>5, <1>6, <1>9, <1>10, <1>11

LEMMA FreeNextKeepsMemory ==
  ASSUME MemoryInv, NEW o \in Live, FreeNext(o)
  PROVE  MemoryInv'
<1>1. ObjectTypes /\ SlotTypes
  BY DEF MemoryInv
<1>2. PICK b : b = BaseOf(o)
  OBVIOUS
<1>3. PICK left : left = allocated_views[b] - (IF o \in View /\ Initialized(o) THEN 1 ELSE 0)
  OBVIOUS
<1>4. PICK gone : gone = {x \in {o} : Initialized(x)} \cup {x \in {b} : Releases(o, left)}
  OBVIOUS
<1>5. /\ gone \subseteq {o, b} /\ (b \in gone => Own \in DOMAIN bufs[b])
      /\ DOMAIN bufs' = Live /\ \A x \in gone : DOMAIN bufs'[x] = {}
      /\ \A x \in Live \ gone : bufs'[x] = bufs[x]
      /\ key' = key /\ base' = base
      /\ b \in gone => GiveBack(b)
      /\ b \notin gone => KeepMemory
  BY <1>2, <1>3, <1>4, FreeReleases
<1>6. /\ b \in DOMAIN key /\ b \in Live /\ \A c \in DOMAIN key : c \in Live /\ (c # b => c # o)
  BY <1>1, <1>2, OwnBase DEF BaseOf
<1>7. Live' = Live
  BY <1>5 DEF Live
<1>8. ObjectTypes'
  BY <1>1, <1>5, <1>7 DEF ObjectTypes
<1>9. SlotTypes'
  <2>1. \A x \in Live : DOMAIN bufs'[x] \subseteq DOMAIN bufs[x]
    BY <1>5
  <2> QED
    BY <1>1, <1>7, <2>1 DEF SlotTypes
<1>10. \A c \in DOMAIN key \ {b} : c \in DOMAIN key' /\ bufs'[c] = bufs[c]
  BY <1>5, <1>6
<1>11. CASE b \in gone
  BY <1>5, <1>6, <1>8, <1>9, <1>10, <1>11, MemoryReleased
<1>12. CASE b \notin gone
  <2>1. bufs'[b] = bufs[b] /\ UNCHANGED <<cache, held, maps>>
    BY <1>5, <1>6, <1>12 DEF KeepMemory
  <2>2. \A c \in DOMAIN key : c \in DOMAIN key' /\ Same(c, bufs, bufs')
    BY <1>5, <1>10, <2>1 DEF Same
  <2> QED
    BY <1>5, <1>8, <1>9, <2>1, <2>2, MemoryStays
<1> QED
  BY <1>11, <1>12

\* A step that is not about buffers.
LEMMA MemoryUntouched ==
  ASSUME MemoryInv, UNCHANGED <<objects, bufs, cache, held, maps>>
  PROVE  MemoryInv'
<1>1. key' = key /\ base' = base /\ bufs' = bufs /\ UNCHANGED <<cache, held, maps>>
  BY DEF objects
<1>2. ObjectTypes /\ SlotTypes
  BY DEF MemoryInv
<1>3. ObjectTypes' /\ SlotTypes'
  BY <1>1, <1>2 DEF ObjectTypes, SlotTypes, Live
<1>4. \A c \in DOMAIN key : Same(c, bufs, bufs')
  BY <1>1 DEF Same
<1> QED
  BY <1>1, <1>3, <1>4, MemoryStays

-----------------------------------------------------------------------------
(* The JITs and the call the host is in refer to objects that exist.       *)

JitTypes ==
  /\ \A j \in DOMAIN written : written[j] \subseteq Live
  /\ DOMAIN graph \subseteq DOMAIN written
  /\ \A j \in DOMAIN graph : DOMAIN graph[j] = written[j]

HostTypes ==
  \/ host = Idle
  \/ /\ host.op \in {"build", "free"} /\ host.jit \in DOMAIN written \ DOMAIN graph
     /\ host.todo \subseteq written[host.jit]
     /\ host = [op |-> host.op, jit |-> host.jit, todo |-> host.todo]

JitInv == JitTypes /\ HostTypes

LEMMA TodoLives ==
  ASSUME JitInv
  PROVE  host.todo \subseteq Live /\ (host # Idle => host.jit \in DOMAIN written \ DOMAIN graph
                                        /\ host.todo \subseteq written[host.jit])
<1>1. Idle.todo = {}
  BY DEF Idle
<1> QED
  BY <1>1 DEF JitInv, JitTypes, HostTypes

\* A step that leaves the JITs alone and the host, at most, with less to do.
LEMMA JitsStay ==
  ASSUME JitInv, written' = written, graph' = graph,
         \A j \in DOMAIN written : written[j] \subseteq Live',
         \/ host' = host
         \/ host' = Idle
         \/ /\ host.op \in {"build", "free"} /\ host.jit \in DOMAIN written \ DOMAIN graph
            /\ host.todo \subseteq written[host.jit]
            /\ \E o : host' = [op |-> host.op, jit |-> host.jit, todo |-> host.todo \ {o}]
  PROVE  JitInv'
<1>1. JitTypes'
  BY DEF JitInv, JitTypes
<1>2. CASE host' = host
  BY <1>1, <1>2 DEF JitInv, HostTypes
<1>3. CASE host' = Idle
  BY <1>1, <1>3 DEF JitInv, HostTypes, Idle
<1>4. CASE /\ host.op \in {"build", "free"} /\ host.jit \in DOMAIN written \ DOMAIN graph
           /\ host.todo \subseteq written[host.jit]
           /\ \E o : host' = [op |-> host.op, jit |-> host.jit, todo |-> host.todo \ {o}]
  <2>1. /\ host'.op = host.op /\ host'.jit = host.jit /\ host'.todo \subseteq host.todo
        /\ host' = [op |-> host'.op, jit |-> host'.jit, todo |-> host'.todo]
    BY <1>4
  <2>2. HostTypes'
    BY <1>4, <2>1 DEF HostTypes
  <2> QED
    BY <1>1, <2>2 DEF JitInv
<1> QED
  BY <1>2, <1>3, <1>4

LEMMA JitInvInit == Init => JitInv
<1> SUFFICES ASSUME Init PROVE JitInv
  OBVIOUS
<1>1. DOMAIN written = {} /\ DOMAIN graph = {} /\ host = Idle
  BY DEF Init, Empty
<1> QED
  BY <1>1 DEF JitInv, JitTypes, HostTypes

\* What each step of a call leaves to do.
LEMMA TodoShrinks ==
  ASSUME JitInv, NEW o \in host.todo, BuildNext(o) \/ FreeNext(o)
  PROVE  /\ host.op \in {"build", "free"} /\ host.jit \in DOMAIN written \ DOMAIN graph
         /\ host.todo \subseteq written[host.jit] /\ host # Idle
         /\ host' = Idle \/ host' = [op |-> host.op, jit |-> host.jit, todo |-> host.todo \ {o}]
<1>1. host # Idle
  BY DEF Idle
<1>2. /\ host.op \in {"build", "free"} /\ host.jit \in DOMAIN written \ DOMAIN graph
      /\ host.todo \subseteq written[host.jit]
      /\ host = [op |-> host.op, jit |-> host.jit, todo |-> host.todo]
  BY <1>1 DEF JitInv, HostTypes
<1>3. host' = Idle \/ host' = [host EXCEPT !.todo = @ \ {o}]
  BY DEF BuildNext, FreeNext
<1>4. PICK op, j, t : op = host.op /\ j = host.jit /\ t = host.todo
  OBVIOUS
<1>5. host = [op |-> op, jit |-> j, todo |-> t]
  BY <1>2, <1>4
<1>6. [host EXCEPT !.todo = @ \ {o}] = [op |-> op, jit |-> j, todo |-> t \ {o}]
  BY <1>5
<1> QED
  BY <1>1, <1>2, <1>3, <1>4, <1>6

LEMMA JitInvStep == MemoryInv /\ JitInv /\ [Next]_vars => JitInv'
<1> SUFFICES ASSUME MemoryInv, JitInv, [Next]_vars PROVE JitInv'
  OBVIOUS
<1>0. ObjectTypes /\ \A j \in DOMAIN written : written[j] \subseteq Live
  BY DEF MemoryInv, JitInv, JitTypes
<1>1. ASSUME NEW b \in Base, NEW k \in Key, NewBase(b, k) PROVE JitInv'
  <2>1. Live \subseteq Live' /\ written' = written /\ graph' = graph /\ host' = host
    BY <1>1 DEF NewBase, With, jits, Live
  <2> QED
    BY <1>0, <2>1, JitsStay
<1>2. ASSUME NEW v \in View, NEW o \in Live, NewView(v, o) PROVE JitInv'
  <2>1. Live \subseteq Live' /\ written' = written /\ graph' = graph /\ host' = host
    BY <1>2 DEF NewView, With, jits, Live
  <2> QED
    BY <1>0, <2>1, JitsStay
<1>3. ASSUME NEW o \in Live, Ensure(o) \/ EnsureFails(o)
      PROVE  Live' = Live /\ written' = written /\ graph' = graph
  BY <1>0, <1>3, EnsurePlaces DEF Placed, EnsureFails, jits, Live
<1>4. ASSUME NEW o \in Live, Allocate(o) PROVE JitInv'
  BY <1>0, <1>3, <1>4, JitsStay DEF Allocate
<1>5. ASSUME NEW o \in Live, Collect(o) PROVE JitInv'
  <2>1. /\ Live' = Live \ {o} /\ written' = written /\ graph' = graph /\ host' = host
        /\ \A j \in DOMAIN written : o \notin written[j]
    BY <1>5 DEF Collect, Less, jits, Live
  <2> QED
    BY <1>0, <2>1, JitsStay
<1>6. ASSUME NEW o \in Live, NEW p \in Peer, GetBuf(o, p) PROVE JitInv'
  <2>1. Live' = Live
    BY <1>6, GetBufPlaces DEF Live
  <2>2. written' = written /\ graph' = graph /\ host' = host
    BY <1>6 DEF GetBuf, jits
  <2> QED
    BY <1>0, <2>1, <2>2, JitsStay
<1>7. ASSUME NEW j \in Jit, NEW writes \in (SUBSET Live) \ {{}}, Capture(j, writes) PROVE JitInv'
  <2>1. /\ written' = With(written, j, writes) /\ graph' = graph /\ host' = host /\ host = Idle
        /\ Live' = Live /\ j \notin DOMAIN written
    BY <1>7 DEF Capture, Live
  <2>2. /\ DOMAIN written' = DOMAIN written \cup {j} /\ written'[j] = writes
        /\ \A k \in DOMAIN written : written'[k] = written[k]
    BY <2>1 DEF With
  <2>3. JitTypes'
    BY <1>0, <2>1, <2>2 DEF JitInv, JitTypes
  <2> QED
    BY <2>1, <2>3 DEF JitInv, HostTypes, Idle
<1>8. ASSUME NEW j \in DOMAIN written, Discard(j) PROVE JitInv'
  <2>1. /\ written' = Less(written, {j}) /\ graph' = Less(graph, {j}) /\ host' = Idle
        /\ Live' = Live
    BY <1>8 DEF Discard, Live
  <2>2. JitTypes'
    BY <2>1 DEF JitInv, JitTypes, Less
  <2> QED
    BY <2>1, <2>2 DEF JitInv, HostTypes, Idle
<1>9. ASSUME NEW j \in DOMAIN written, Replay(j) PROVE JitInv'
  <2>1. /\ written' = written /\ graph' = graph /\ Live' = Live /\ j \notin DOMAIN graph
        /\ host' = [op |-> "build", jit |-> j, todo |-> written[j]]
    BY <1>9 DEF Replay, Live, jits
  <2>2. JitTypes'
    BY <2>1 DEF JitInv, JitTypes
  <2>3. HostTypes'
    BY <2>1 DEF HostTypes
  <2> QED
    BY <2>2, <2>3 DEF JitInv
<1>10. ASSUME NEW j \in DOMAIN written, FreeIntermediates(j) PROVE JitInv'
  <2>1. /\ written' = written /\ graph' = Less(graph, {j}) /\ Live' = Live
        /\ host' = [op |-> "free", jit |-> j, todo |-> written[j]]
    BY <1>10 DEF FreeIntermediates, GraphDropped, Live
  <2>2. DOMAIN graph' = DOMAIN graph \ {j} /\ \A k \in DOMAIN graph' : graph'[k] = graph[k]
    BY <2>1 DEF Less
  <2>3. JitTypes'
    BY <2>1, <2>2 DEF JitInv, JitTypes
  <2>4. HostTypes'
    BY <2>1, <2>2 DEF HostTypes
  <2> QED
    BY <2>3, <2>4 DEF JitInv
<1>11. ASSUME NEW o \in host.todo, BuildNext(o) PROVE JitInv'
  <2>1. Live' = Live /\ written' = written /\ graph' = graph
    <3>1. o \in Live
      BY TodoLives
    <3> QED
      BY <1>3, <1>11, <3>1 DEF BuildNext, jits, Live
  <2> QED
    BY <1>0, <1>11, <2>1, TodoShrinks, JitsStay
<1>12. ASSUME NEW o \in host.todo, FreeNext(o) PROVE JitInv'
  <2>1. Live' = Live /\ written' = written /\ graph' = graph
    BY <1>12 DEF FreeNext, jits, Live
  <2> QED
    BY <1>0, <1>12, <2>1, TodoShrinks, JitsStay
<1>13. ASSUME BuildEnd PROVE JitInv'
  <2>1. /\ host # Idle /\ written' = written /\ host' = Idle /\ Live' = Live
        /\ graph' = With(graph, host.jit, [o \in written[host.jit] |-> bufs[o][Own]])
    BY <1>13 DEF BuildEnd, Idle, Live
  <2>2. PICK f : f = [o \in written[host.jit] |-> bufs[o][Own]]
    OBVIOUS
  <2>3. graph' = With(graph, host.jit, f) /\ DOMAIN f = written[host.jit]
    BY <2>1, <2>2
  <2>4. /\ DOMAIN graph' = DOMAIN graph \cup {host.jit} /\ graph'[host.jit] = f
        /\ \A j \in DOMAIN graph \ {host.jit} : graph'[j] = graph[j]
    BY <2>3 DEF With
  <2>5. host.jit \in DOMAIN written
    BY <2>1, TodoLives
  <2>6. JitTypes'
    BY <2>1, <2>3, <2>4, <2>5 DEF JitInv, JitTypes
  <2> QED
    BY <2>1, <2>6 DEF JitInv, HostTypes, Idle
<1>14. CASE UNCHANGED vars
  <2>1. written' = written /\ graph' = graph /\ host' = host /\ Live' = Live
    BY <1>14 DEF vars, Live
  <2> QED
    BY <1>0, <2>1, JitsStay
<1> QED
  BY <1>1, <1>2, <1>4, <1>5, <1>6, <1>7, <1>8, <1>9, <1>10, <1>11, <1>12, <1>13, <1>14 DEF Next

LEMMA MemoryStep == MemoryInv /\ JitInv /\ [Next]_vars => MemoryInv'
<1> SUFFICES ASSUME MemoryInv, JitInv, [Next]_vars PROVE MemoryInv'
  OBVIOUS
<1>1. host.todo \subseteq Live
  BY TodoLives
<1>2. ASSUME NEW o \in Live, Allocate(o) \/ Collect(o) PROVE MemoryInv'
  BY <1>2, EnsureKeepsMemory, EnsureFailsKeepsMemory, CollectKeepsMemory DEF Allocate
<1>3. ASSUME NEW o \in host.todo, BuildNext(o) PROVE MemoryInv'
  BY <1>1, <1>3, EnsureKeepsMemory, EnsureFailsKeepsMemory, MemoryUntouched DEF BuildNext
<1>4. ASSUME NEW o \in host.todo, FreeNext(o) PROVE MemoryInv'
  BY <1>1, <1>4, FreeNextKeepsMemory
<1>5. ASSUME NEW j \in Jit, NEW writes \in (SUBSET Live) \ {{}}, Capture(j, writes) PROVE MemoryInv'
  BY <1>5, MemoryUntouched DEF Capture
<1>6. ASSUME NEW j \in DOMAIN written, Discard(j) \/ Replay(j) \/ FreeIntermediates(j)
      PROVE  MemoryInv'
  BY <1>6, MemoryUntouched DEF Discard, Replay, FreeIntermediates
<1>7. ASSUME BuildEnd PROVE MemoryInv'
  BY <1>7, MemoryUntouched DEF BuildEnd
<1>8. CASE UNCHANGED vars
  BY <1>8, MemoryUntouched DEF vars, objects
<1> QED
  BY <1>2, <1>3, <1>4, <1>5, <1>6, <1>7, <1>8,
     NewBaseKeepsMemory, NewViewKeepsMemory, GetBufKeepsMemory DEF Next

-----------------------------------------------------------------------------
(* One owner.                                                              *)

LEMMA InvInit == Init => MemoryInv /\ JitInv
BY MemoryInit, JitInvInit

LEMMA InvStep == MemoryInv /\ JitInv /\ [Next]_vars => MemoryInv' /\ JitInv'
BY MemoryStep, JitInvStep

LEMMA InSlots ==
  ASSUME NEW m, NEW x
  PROVE  x \in Slots(m) <=> \E k \in Key : \E i \in DOMAIN cache[k] : cache[k][i] = m /\ x = <<k, i>>
BY DEF Slots

LEMMA MemoryInvHasOneOwner == MemoryInv => MemoryHasOneOwner
<1> SUFFICES ASSUME MemoryInv, NEW m \in Memory
             PROVE  Cardinality(Owners(m)) + Cardinality(Slots(m)) = IF m \in DOMAIN held THEN 1 ELSE 0
  BY DEF MemoryHasOneOwner
<1>1. OwnersApart /\ SlotsApart /\ OwnedOrCached /\ CachedIsHeld /\ HeldIsKnown
  BY DEF MemoryInv, OwnerInv
<1>2. \A b : b \in Owners(m) <=> b \in DOMAIN key /\ Own \in DOMAIN bufs[b] /\ bufs[b][Own] = m
  BY DEF Owners
<1>3. PICK owners, slots : owners = Owners(m) /\ slots = Slots(m)
  OBVIOUS
<1>4. CASE m \notin DOMAIN held
  <2>1. owners = {}
    BY <1>1, <1>2, <1>3, <1>4 DEF OwnedOrCached
  <2>2. slots = {}
    BY <1>1, <1>3, <1>4, InSlots DEF CachedIsHeld
  <2> QED
    BY <1>3, <1>4, <2>1, <2>2, FS_EmptySet
<1>5. ASSUME m \in DOMAIN held, NEW b \in DOMAIN key, Own \in DOMAIN bufs[b], bufs[b][Own] = m
      PROVE  Cardinality(owners) = 1 /\ Cardinality(slots) = 0
  <2>1. owners = {b}
    BY <1>1, <1>2, <1>3, <1>5 DEF OwnersApart
  <2>2. slots = {}
    BY <1>1, <1>3, <1>5, InSlots DEF OwnedOrCached
  <2> QED
    BY <2>1, <2>2, FS_EmptySet, FS_Singleton
<1>6. ASSUME m \in DOMAIN held, NEW k \in Key, NEW i \in DOMAIN cache[k], cache[k][i] = m
      PROVE  Cardinality(owners) = 0 /\ Cardinality(slots) = 1
  <2>1. owners = {}
    BY <1>1, <1>2, <1>3, <1>6 DEF OwnedOrCached
  <2>2. slots = {<<k, i>>}
    <3>1. <<k, i>> \in slots
      BY <1>3, <1>6, InSlots
    <3>2. ASSUME NEW x \in slots PROVE x = <<k, i>>
      <4>1. PICK l \in Key : \E j \in DOMAIN cache[l] : cache[l][j] = m /\ x = <<l, j>>
        BY <1>3, InSlots
      <4>2. PICK j \in DOMAIN cache[l] : cache[l][j] = m /\ x = <<l, j>>
        BY <4>1
      <4>3. l = k /\ j = i
        BY <1>1, <1>6, <4>2 DEF SlotsApart
      <4> QED
        BY <4>2, <4>3
    <3> QED
      BY <3>1, <3>2
  <2> QED
    BY <2>1, <2>2, FS_EmptySet, FS_Singleton
<1>7. CASE m \in DOMAIN held
  <2>1. (Cardinality(owners) = 1 /\ Cardinality(slots) = 0)
        \/ (Cardinality(owners) = 0 /\ Cardinality(slots) = 1)
    BY <1>1, <1>5, <1>6, <1>7 DEF HeldIsKnown
  <2> QED
    BY <1>3, <1>7, <2>1
<1> QED
  BY <1>4, <1>7

LEMMA MemoryInvMapsOwners == MemoryInv => OnlyOwnersAreMapped
<1> SUFFICES ASSUME MemoryInv PROVE OnlyOwnersAreMapped
  OBVIOUS
<1>1. ObjectTypes /\ MapsRight
  BY DEF MemoryInv
<1>2. \A b \in DOMAIN key : Allocated(b) <=> Own \in DOMAIN bufs[b]
  BY <1>1, OwnBase DEF Allocated
<1>3. PICK mapped : mapped = UNION {{<<p, bufs[b][Own]>> : p \in DOMAIN bufs[b] \ {Own}} :
                                     b \in {x \in DOMAIN key : Allocated(x)}}
  OBVIOUS
<1>4. ASSUME NEW x
      PROVE  x \in mapped <=> \E b \in DOMAIN key : Own \in DOMAIN bufs[b] /\
                                \E p \in DOMAIN bufs[b] \ {Own} : x = <<p, bufs[b][Own]>>
  <2>1. x \in mapped <=> \E b \in {y \in DOMAIN key : Allocated(y)} :
                           x \in {<<p, bufs[b][Own]>> : p \in DOMAIN bufs[b] \ {Own}}
    BY <1>3
  <2> QED
    BY <1>2, <2>1
<1>5. \A x : x \in maps <=> x \in mapped
  BY <1>1, <1>4 DEF MapsRight
<1>6. maps = mapped
  BY <1>5
<1> QED
  BY <1>3, <1>6 DEF OnlyOwnersAreMapped

\* Memory that the device has handed out belongs to one buffer or lies in one slot of the
\* cache, what it has taken back belongs to nobody, and the mappings for peers are those
\* of buffers that have their memory (device.py:175-178, 537-550).
THEOREM MemoryKeepsOneOwner == Spec => []EachHasOneOwner
<1>1. MemoryInv => EachHasOneOwner
  BY MemoryInvHasOneOwner, MemoryInvMapsOwners DEF EachHasOneOwner
<1> QED
  BY InvInit, InvStep, <1>1, PTL DEF Spec

-----------------------------------------------------------------------------
(* Views, their bases and the count of them.  From here on, intermediates  *)
(* are freed only when nothing else refers to them (Shared = FALSE).       *)

Using(b) == {v \in DOMAIN base : base[v] = b /\ Own \in DOMAIN bufs[v]}

\* A view that is known to any device is known to its own, and lies where its base does.
ViewsKnown ==
  \A v \in DOMAIN base : \A d \in DOMAIN bufs[v] :
    Own \in DOMAIN bufs[v] /\ d \in DOMAIN bufs[base[v]] /\ bufs[v][d] = bufs[base[v]][d]

CountTypes == IsFiniteSet(Live) /\ DOMAIN allocated_views = DOMAIN key
Counts == \A b \in DOMAIN key : allocated_views[b] = Cardinality(Using(b))

ViewInv == CountTypes /\ ViewsKnown /\ Counts

\* What is initialized stays where it is.
Kept(x) == Initialized(x) => Initialized(x)' /\ bufs'[x][Own] = bufs[x][Own]

LEMMA ViewInvInit == Init => ViewInv
<1> SUFFICES ASSUME Init PROVE ViewInv
  OBVIOUS
<1>1. DOMAIN key = {} /\ DOMAIN base = {} /\ DOMAIN bufs = {} /\ DOMAIN allocated_views = {}
  BY DEF Init, Empty
<1>2. CountTypes
  BY <1>1, FS_EmptySet DEF CountTypes, Live
<1> QED
  BY <1>1, <1>2 DEF ViewInv, ViewsKnown, Counts

LEMMA ViewInvSuffices == ObjectTypes /\ ViewInv => ViewsFollowBases
<1> SUFFICES ASSUME ObjectTypes, ViewInv PROVE ViewsAreFresh /\ ViewsAreCounted
  BY DEF ViewsFollowBases
<1>1. ViewsAreFresh
  BY DEF ViewInv, ViewsKnown, ViewsAreFresh
<1>2. ViewsAreCounted
  BY DEF ViewInv, Counts, Using, ViewsAreCounted
<1> QED
  BY <1>1, <1>2

\* The objects that exist are finitely many.
LEMMA StillFinite ==
  ASSUME IsFiniteSet(Live), NEW x, Live' \subseteq Live \cup {x}
  PROVE  IsFiniteSet(Live')
<1>1. IsFiniteSet(Live \cup {x})
  BY FS_AddElement
<1> QED
  BY <1>1, FS_Subset

LEMMA UsingFinite ==
  ASSUME ObjectTypes, CountTypes, NEW b
  PROVE  IsFiniteSet(Using(b)) /\ Cardinality(Using(b)) \in Nat
<1>1. Using(b) \subseteq Live
  BY DEF Using, ObjectTypes
<1>2. IsFiniteSet(Using(b))
  BY <1>1, FS_Subset DEF CountTypes
<1> QED
  BY <1>2, FS_CardinalityType

\* A step after which the same views use a base.
LEMMA CountsStay ==
  ASSUME Counts, DOMAIN key' = DOMAIN key,
         \A b \in DOMAIN key : allocated_views'[b] = allocated_views[b],
         \A b \in DOMAIN key : \A v : v \in Using(b)' <=> v \in Using(b)
  PROVE  Counts'
<1>1. \A b \in DOMAIN key : Using(b)' = Using(b)
  OBVIOUS
<1> QED
  BY <1>1 DEF Counts

\* A step that one view more, or one less, uses base b.
LEMMA CountsAdd ==
  ASSUME ObjectTypes, CountTypes, Counts, NEW b \in DOMAIN key, NEW o, DOMAIN key' = DOMAIN key,
         allocated_views' = [allocated_views EXCEPT ![b] = @ + 1],
         o \notin Using(b), o \in Using(b)',
         \A v : v # o => (v \in Using(b)' <=> v \in Using(b)),
         \A c \in DOMAIN key \ {b} : \A v : v \in Using(c)' <=> v \in Using(c)
  PROVE  Counts'
<1>1. PICK S : S = Using(b)
  OBVIOUS
<1>2. Using(b)' = S \cup {o}
  BY <1>1
<1>3. Cardinality(S \cup {o}) = Cardinality(S) + 1
  BY <1>1, UsingFinite, FS_AddElement
<1>4. \A c \in DOMAIN key \ {b} : Using(c)' = Using(c)
  OBVIOUS
<1>5. allocated_views'[b] = allocated_views[b] + 1
      /\ \A c \in DOMAIN key \ {b} : allocated_views'[c] = allocated_views[c]
  BY DEF CountTypes
<1> QED
  BY <1>1, <1>2, <1>3, <1>4, <1>5 DEF Counts

LEMMA CountsRemove ==
  ASSUME ObjectTypes, CountTypes, Counts, NEW b \in DOMAIN key, NEW o, DOMAIN key' = DOMAIN key,
         allocated_views'[b] = allocated_views[b] - 1,
         \A c \in DOMAIN key \ {b} : allocated_views'[c] = allocated_views[c],
         o \in Using(b), o \notin Using(b)',
         \A v : v # o => (v \in Using(b)' <=> v \in Using(b)),
         \A c \in DOMAIN key \ {b} : \A v : v \in Using(c)' <=> v \in Using(c)
  PROVE  Counts'
<1>1. PICK S : S = Using(b)
  OBVIOUS
<1>2. Using(b)' = S \ {o}
  BY <1>1
<1>3. Cardinality(S \ {o}) = Cardinality(S) - 1
  BY <1>1, UsingFinite, FS_RemoveElement
<1>4. \A c \in DOMAIN key \ {b} : Using(c)' = Using(c)
  OBVIOUS
<1> QED
  BY <1>1, <1>2, <1>3, <1>4 DEF Counts

LEMMA NewBaseKeepsViews ==
  ASSUME MemoryInv, ViewInv, NEW b \in Base, NEW k \in Key, NewBase(b, k)
  PROVE  ViewInv' /\ \A x \in Live : Kept(x)
<1>1. ObjectTypes /\ CountTypes /\ ViewsKnown /\ Counts
  BY DEF MemoryInv, ViewInv
<1>2. /\ b \notin Live /\ key' = With(key, b, k) /\ bufs' = With(bufs, b, Empty) /\ base' = base
      /\ allocated_views' = With(allocated_views, b, 0)
  BY DEF NewBase
<1>3. b \notin DOMAIN key /\ b \notin DOMAIN base
  BY <1>1, <1>2 DEF ObjectTypes
<1>4. /\ DOMAIN key' = DOMAIN key \cup {b} /\ DOMAIN allocated_views' = DOMAIN key \cup {b}
      /\ allocated_views'[b] = 0
      /\ \A c \in DOMAIN key : allocated_views'[c] = allocated_views[c]
  BY <1>1, <1>2, <1>3 DEF With, CountTypes
<1>5. Live' = Live \cup {b} /\ \A o \in Live : bufs'[o] = bufs[o]
  BY <1>2 DEF With, Live
<1>6. \A v \in DOMAIN base : bufs'[v] = bufs[v] /\ base[v] # b /\ bufs'[base[v]] = bufs[base[v]]
  BY <1>1, <1>3, <1>5 DEF ObjectTypes
<1>7. CountTypes'
  BY <1>1, <1>4, <1>5, StillFinite DEF CountTypes
<1>8. ViewsKnown'
  BY <1>1, <1>2, <1>6 DEF ViewsKnown
<1>9. Counts'
  <2>1. Using(b)' = {}
    BY <1>2, <1>6 DEF Using
  <2>2. \A c \in DOMAIN key : Using(c)' = Using(c)
    BY <1>2, <1>6 DEF Using
  <2>3. Cardinality(Using(b)') = 0
    BY <2>1, FS_EmptySet
  <2> QED
    BY <1>1, <1>4, <2>2, <2>3 DEF Counts
<1>10. \A x \in Live : Kept(x)
  <2>1. \A x \in Live : BaseOf(x)' = BaseOf(x) /\ bufs'[BaseOf(x)] = bufs[BaseOf(x)]
    BY <1>1, <1>2, <1>5, OwnBase DEF BaseOf
  <2> QED
    BY <1>5, <2>1 DEF Kept, Initialized, Allocated
<1> QED
  BY <1>7, <1>8, <1>9, <1>10 DEF ViewInv

LEMMA NewViewKeepsViews ==
  ASSUME MemoryInv, ViewInv, NEW v \in View, NEW o \in Live, NewView(v, o)
  PROVE  ViewInv' /\ \A x \in Live : Kept(x)
<1>1. ObjectTypes /\ CountTypes /\ ViewsKnown /\ Counts
  BY DEF MemoryInv, ViewInv
<1>2. /\ v \notin Live /\ base' = With(base, v, BaseOf(o)) /\ bufs' = With(bufs, v, Empty)
      /\ key' = key /\ allocated_views' = allocated_views
  BY DEF NewView
<1>3. v \notin DOMAIN base
  BY <1>1, <1>2 DEF ObjectTypes
<1>4. DOMAIN base' = DOMAIN base \cup {v} /\ \A w \in DOMAIN base : base'[w] = base[w]
  BY <1>2, <1>3 DEF With
<1>5. Live' = Live \cup {v} /\ DOMAIN bufs'[v] = {} /\ \A x \in Live : bufs'[x] = bufs[x]
  BY <1>2 DEF With, Live, Empty
<1>6. \A w \in DOMAIN base : bufs'[w] = bufs[w] /\ bufs'[base[w]] = bufs[base[w]]
  BY <1>1, <1>5 DEF ObjectTypes
<1>7. CountTypes'
  BY <1>1, <1>2, <1>5, StillFinite DEF CountTypes
<1>8. ViewsKnown'
  BY <1>1, <1>4, <1>5, <1>6 DEF ViewsKnown
<1>9. Counts'
  <2>1. \A c \in DOMAIN key : \A w : w \in Using(c)' <=> w \in Using(c)
    BY <1>3, <1>4, <1>5, <1>6 DEF Using
  <2> QED
    BY <1>1, <1>2, <2>1, CountsStay
<1>10. \A x \in Live : Kept(x)
  <2>1. \A x \in Live : BaseOf(x)' = BaseOf(x) /\ bufs'[BaseOf(x)] = bufs[BaseOf(x)]
    BY <1>1, <1>2, <1>4, <1>5, OwnBase DEF BaseOf
  <2> QED
    BY <1>5, <2>1 DEF Kept, Initialized, Allocated
<1> QED
  BY <1>7, <1>8, <1>9, <1>10 DEF ViewInv

LEMMA EnsureKeepsViews ==
  ASSUME MemoryInv, ViewInv, NEW o \in Live, Ensure(o)
  PROVE  ViewInv' /\ Initialized(o)' /\ (\A x \in Live : Kept(x)) /\ Live' = Live
<1>1. ObjectTypes /\ BasesAgree /\ CountTypes /\ ViewsKnown /\ Counts
  BY DEF MemoryInv, OwnerInv, ViewInv
<1>2. PICK b : b = BaseOf(o)
  OBVIOUS
<1>3. /\ b \in DOMAIN key /\ b \in Live /\ b \notin View /\ b \notin DOMAIN base
      /\ o \notin View => o = b
      /\ o \in View => o # b /\ o \in DOMAIN base /\ base[o] = b
      /\ o \notin View => o \notin DOMAIN base
  BY <1>1, <1>2, OwnBase DEF BaseOf
<1>4. PICK mem : Placed(o, mem) /\ (Allocated(o) => mem = bufs[b][Own])
  BY <1>1, <1>2, EnsurePlaces
<1>5. /\ ~Initialized(o) /\ key' = key /\ base' = base /\ allocated_views' = Counted(o)
  BY <1>1, EnsurePlaces DEF objects
<1>6. Allocated(o) <=> Own \in DOMAIN bufs[b]
  BY <1>2 DEF Allocated
<1>7. /\ DOMAIN bufs' = Live
      /\ bufs'[o] = With(bufs[o], Own, mem) /\ bufs'[b] = With(bufs[b], Own, mem)
      /\ \A x \in Live \ {o, b} : bufs'[x] = bufs[x]
  BY <1>2, <1>4 DEF Placed
<1>8. /\ DOMAIN bufs'[o] = DOMAIN bufs[o] \cup {Own} /\ bufs'[o][Own] = mem
      /\ DOMAIN bufs'[b] = DOMAIN bufs[b] \cup {Own} /\ bufs'[b][Own] = mem
      /\ \A d \in DOMAIN bufs[b] : bufs'[b][d] = bufs[b][d]
  <2>1. /\ DOMAIN bufs'[o] = DOMAIN bufs[o] \cup {Own} /\ bufs'[o][Own] = mem
        /\ DOMAIN bufs'[b] = DOMAIN bufs[b] \cup {Own} /\ bufs'[b][Own] = mem
        /\ \A d \in DOMAIN bufs[b] \ {Own} : bufs'[b][d] = bufs[b][d]
    BY <1>7 DEF With
  <2> QED
    BY <1>4, <1>6, <2>1
<1>9. o \in View => DOMAIN bufs[o] = {}
  <2> SUFFICES ASSUME o \in View, NEW d \in DOMAIN bufs[o] PROVE FALSE
    OBVIOUS
  <2>1. Own \in DOMAIN bufs[o] /\ bufs[b] = bufs[base[o]]
    BY <1>1, <1>3 DEF ViewsKnown
  <2>2. Own \in DOMAIN bufs[b]
    BY <1>1, <1>3, <2>1 DEF ViewsKnown
  <2> QED
    BY <1>5, <1>6, <2>1, <2>2 DEF Initialized
<1>10. Live' = Live
  BY <1>7 DEF Live
<1>11. \A v \in DOMAIN base : v # o => bufs'[v] = bufs[v]
  BY <1>1, <1>3, <1>7 DEF ObjectTypes
<1>12. CountTypes'
  <2>1. DOMAIN allocated_views' = DOMAIN key
    BY <1>1, <1>5 DEF Counted, CountTypes
  <2> QED
    BY <1>1, <1>5, <1>10, <2>1 DEF CountTypes
<1>13. ViewsKnown'
  <2> SUFFICES ASSUME NEW v \in DOMAIN base, NEW d \in DOMAIN bufs'[v]
               PROVE  Own \in DOMAIN bufs'[v] /\ d \in DOMAIN bufs'[base[v]] /\ bufs'[v][d] = bufs'[base[v]][d]
    BY <1>5 DEF ViewsKnown
  <2>1. CASE v = o
    <3>1. o \in View /\ base[v] = b
      BY <1>3, <2>1
    <3>2. d = Own
      BY <1>8, <1>9, <2>1, <3>1
    <3> QED
      BY <1>8, <2>1, <3>1, <3>2
  <2>2. CASE v # o
    <3>1. bufs'[v] = bufs[v]
      BY <1>11, <2>2
    <3>2. Own \in DOMAIN bufs[v] /\ d \in DOMAIN bufs[base[v]] /\ bufs[v][d] = bufs[base[v]][d]
      BY <1>1, <3>1 DEF ViewsKnown
    <3>3. CASE base[v] = b
      BY <1>8, <3>1, <3>2, <3>3
    <3>4. CASE base[v] # b
      <4>1. base[v] \in DOMAIN key /\ base[v] \in Live
        BY <1>1 DEF ObjectTypes
      <4>2. base[v] # o
        BY <1>1, <1>3, <3>4, <4>1, OwnBase
      <4> QED
        BY <1>7, <3>1, <3>2, <3>4, <4>1, <4>2
    <3> QED
      BY <3>3, <3>4
  <2> QED
    BY <2>1, <2>2
<1>14. \A c \in DOMAIN key : \A v : v # o => (v \in Using(c)' <=> v \in Using(c))
  BY <1>5, <1>11 DEF Using
<1>15. Counts'
  <2>1. CASE o \in View
    <3>1. allocated_views' = [allocated_views EXCEPT ![b] = @ + 1]
      BY <1>3, <1>5, <2>1 DEF Counted
    <3>2. o \notin Using(b) /\ o \in Using(b)'
      BY <1>3, <1>5, <1>8, <1>9, <2>1 DEF Using
    <3>3. \A c \in DOMAIN key \ {b} : o \notin Using(c) /\ o \notin Using(c)'
      BY <1>3, <1>5, <2>1 DEF Using
    <3>4. \A c \in DOMAIN key \ {b} : \A v : v \in Using(c)' <=> v \in Using(c)
      BY <1>14, <3>3
    <3> QED
      BY <1>1, <1>3, <1>5, <1>14, <3>1, <3>2, <3>4, CountsAdd
  <2>2. CASE o \notin View
    <3>1. allocated_views' = allocated_views
      BY <1>5, <2>2 DEF Counted
    <3>2. \A c \in DOMAIN key : o \notin Using(c) /\ o \notin Using(c)'
      BY <1>3, <1>5, <2>2 DEF Using
    <3>3. \A c \in DOMAIN key : \A v : v \in Using(c)' <=> v \in Using(c)
      BY <1>14, <3>2
    <3> QED
      BY <1>1, <1>5, <3>1, <3>3, CountsStay
  <2> QED
    BY <2>1, <2>2
<1>16. \A x \in Live : BaseOf(x)' = BaseOf(x)
  BY <1>5 DEF BaseOf
<1>17. \A x \in Live : DOMAIN bufs[x] \subseteq DOMAIN bufs'[x]
  BY <1>7, <1>8
<1>18. \A x \in Live : Kept(x)
  <2> SUFFICES ASSUME NEW x \in Live, Initialized(x)
               PROVE  Initialized(x)' /\ bufs'[x][Own] = bufs[x][Own]
    BY DEF Kept
  <2>1. BaseOf(x) \in Live
    BY <1>1, OwnBase
  <2>2. Initialized(x)'
    BY <1>16, <1>17, <2>1 DEF Initialized, Allocated
  <2>3. x # o
    BY <1>5
  <2>4. bufs'[x][Own] = bufs[x][Own]
    BY <1>7, <1>8, <2>3 DEF Initialized
  <2> QED
    BY <2>2, <2>4
<1>19. Initialized(o)'
  BY <1>2, <1>8, <1>16 DEF Initialized, Allocated
<1> QED
  BY <1>10, <1>12, <1>13, <1>15, <1>18, <1>19 DEF ViewInv

LEMMA ViewsUntouched ==
  ASSUME MemoryInv, ViewInv, UNCHANGED <<key, base, bufs, allocated_views>>
  PROVE  ViewInv' /\ Live' = Live /\ \A x \in Live : Kept(x)
<1>1. Live' = Live /\ \A b \in DOMAIN key : Using(b)' = Using(b)
  BY DEF Live, Using
<1>2. ViewInv'
  BY <1>1 DEF ViewInv, CountTypes, ViewsKnown, Counts
<1>3. \A x \in Live : Kept(x)
  BY DEF Kept, Initialized, Allocated, BaseOf
<1> QED
  BY <1>1, <1>2, <1>3

LEMMA GetBufKeepsViews ==
  ASSUME MemoryInv, ViewInv, NEW o \in Live, NEW p \in Peer, GetBuf(o, p)
  PROVE  ViewInv' /\ \A x \in Live : Kept(x)
<1>1. ObjectTypes /\ BasesAgree /\ CountTypes /\ ViewsKnown /\ Counts
  BY DEF MemoryInv, OwnerInv, ViewInv
<1>2. PICK b : b = BaseOf(o)
  OBVIOUS
<1>3. /\ b \in DOMAIN key /\ b \in Live /\ b \notin View /\ b \notin DOMAIN base
      /\ o \notin View => o = b
      /\ o \in View => o # b /\ o \in DOMAIN base /\ base[o] = b
      /\ o \notin View => o \notin DOMAIN base
  BY <1>1, <1>2, OwnBase DEF BaseOf
<1>4. PICK at :
         /\ p # Own /\ Own \in DOMAIN bufs[o] /\ Own \in DOMAIN bufs[b]
         /\ DOMAIN bufs' = Live
         /\ bufs'[b] = With(bufs[b], p, at) /\ bufs'[o] = With(bufs[o], p, at)
         /\ \A x \in Live \ {o, b} : bufs'[x] = bufs[x]
         /\ p \in DOMAIN bufs[b] => bufs[b][p] = at
  BY <1>2, GetBufPlaces
<1>5. key' = key /\ base' = base /\ allocated_views' = allocated_views
  BY DEF GetBuf, objects
<1>6. /\ DOMAIN bufs'[o] = DOMAIN bufs[o] \cup {p} /\ bufs'[o][p] = at
      /\ \A d \in DOMAIN bufs[o] \ {p} : bufs'[o][d] = bufs[o][d]
      /\ DOMAIN bufs'[b] = DOMAIN bufs[b] \cup {p} /\ bufs'[b][p] = at
      /\ \A d \in DOMAIN bufs[b] : bufs'[b][d] = bufs[b][d]
  <2>1. /\ DOMAIN bufs'[o] = DOMAIN bufs[o] \cup {p} /\ bufs'[o][p] = at
        /\ \A d \in DOMAIN bufs[o] \ {p} : bufs'[o][d] = bufs[o][d]
    BY <1>4 DEF With
  <2>2. /\ DOMAIN bufs'[b] = DOMAIN bufs[b] \cup {p} /\ bufs'[b][p] = at
        /\ \A d \in DOMAIN bufs[b] \ {p} : bufs'[b][d] = bufs[b][d]
    BY <1>4 DEF With
  <2> QED
    BY <1>4, <2>1, <2>2
<1>7. Live' = Live
  BY <1>4 DEF Live
<1>8. \A v \in DOMAIN base : v # o => bufs'[v] = bufs[v]
  BY <1>1, <1>3, <1>4 DEF ObjectTypes
<1>9. CountTypes'
  BY <1>1, <1>5, <1>7 DEF CountTypes
<1>10. ViewsKnown'
  <2> SUFFICES ASSUME NEW v \in DOMAIN base, NEW d \in DOMAIN bufs'[v]
               PROVE  Own \in DOMAIN bufs'[v] /\ d \in DOMAIN bufs'[base[v]] /\ bufs'[v][d] = bufs'[base[v]][d]
    BY <1>5 DEF ViewsKnown
  <2>1. CASE v = o
    <3>1. base[v] = b /\ Own \in DOMAIN bufs'[v]
      BY <1>3, <1>4, <1>6, <2>1
    <3>2. CASE d = p
      BY <1>6, <2>1, <3>1, <3>2
    <3>3. CASE d # p
      <4>1. d \in DOMAIN bufs[o] /\ bufs'[v][d] = bufs[o][d]
        BY <1>6, <2>1, <3>3
      <4>2. d \in DOMAIN bufs[b] /\ bufs[o][d] = bufs[b][d]
        BY <1>1, <2>1, <3>1, <4>1 DEF ViewsKnown
      <4> QED
        BY <1>6, <3>1, <4>1, <4>2
    <3> QED
      BY <3>2, <3>3
  <2>2. CASE v # o
    <3>1. bufs'[v] = bufs[v]
      BY <1>8, <2>2
    <3>2. Own \in DOMAIN bufs[v] /\ d \in DOMAIN bufs[base[v]] /\ bufs[v][d] = bufs[base[v]][d]
      BY <1>1, <3>1 DEF ViewsKnown
    <3>3. CASE base[v] = b
      BY <1>6, <3>1, <3>2, <3>3
    <3>4. CASE base[v] # b
      <4>1. base[v] \in DOMAIN key /\ base[v] \in Live
        BY <1>1 DEF ObjectTypes
      <4>2. base[v] # o
        BY <1>1, <1>3, <3>4, <4>1, OwnBase
      <4> QED
        BY <1>4, <3>1, <3>2, <3>4, <4>1, <4>2
    <3> QED
      BY <3>3, <3>4
  <2> QED
    BY <2>1, <2>2
<1>11. \A x \in Live : (Own \in DOMAIN bufs'[x] <=> Own \in DOMAIN bufs[x])
                       /\ (Own \in DOMAIN bufs[x] => bufs'[x][Own] = bufs[x][Own])
  BY <1>4, <1>6
<1>12. Counts'
  <2>1. \A c \in DOMAIN key : \A v : v \in Using(c)' <=> v \in Using(c)
    BY <1>1, <1>5, <1>11 DEF Using, ObjectTypes
  <2> QED
    BY <1>1, <1>5, <2>1, CountsStay
<1>13. \A x \in Live : Kept(x)
  <2>1. \A x \in Live : BaseOf(x)' = BaseOf(x) /\ BaseOf(x) \in Live
    BY <1>1, <1>5, OwnBase DEF BaseOf
  <2> QED
    BY <1>11, <2>1 DEF Kept, Initialized, Allocated
<1> QED
  BY <1>9, <1>10, <1>12, <1>13 DEF ViewInv

LEMMA CollectKeepsViews ==
  ASSUME MemoryInv, ViewInv, NEW o \in Live, Collect(o)
  PROVE  ViewInv' /\ \A x \in Live \ {o} : Kept(x)
<1>1. ObjectTypes /\ CountTypes /\ ViewsKnown /\ Counts
  BY DEF MemoryInv, ViewInv
<1>2. /\ key' = Less(key, {o}) /\ base' = Less(base, {o}) /\ bufs' = Less(bufs, {o})
      /\ o \in Base => \A v \in DOMAIN base : base[v] # o
      /\ o \in Base => allocated_views' = Less(allocated_views, {o})
      /\ o \notin Base => allocated_views' =
               IF Own \in DOMAIN bufs[o] THEN [allocated_views EXCEPT ![base[o]] = @ - 1]
               ELSE allocated_views
  BY DEF Collect
<1>3. /\ Live' = Live \ {o} /\ \A x \in Live \ {o} : bufs'[x] = bufs[x]
      /\ DOMAIN key' = DOMAIN key \ {o} /\ \A c \in DOMAIN key \ {o} : key'[c] = key[c]
      /\ DOMAIN base' = DOMAIN base \ {o} /\ \A v \in DOMAIN base \ {o} : base'[v] = base[v]
  BY <1>2 DEF Less, Live
<1>4. /\ o \in Base => o \in DOMAIN key /\ o \notin DOMAIN base
      /\ o \notin Base => o \in DOMAIN base /\ o \notin DOMAIN key /\ base[o] \in DOMAIN key
  BY <1>1, BuffersAssumption DEF ObjectTypes
<1>5. \A v \in DOMAIN base : base[v] # o /\ base[v] \in Live /\ v \in Live
  BY <1>1, <1>2, <1>4 DEF ObjectTypes
<1>6. CountTypes'
  <2>1. DOMAIN allocated_views' = DOMAIN key'
    BY <1>1, <1>2, <1>3, <1>4 DEF CountTypes, Less
  <2> QED
    BY <1>1, <1>3, <2>1, StillFinite DEF CountTypes
<1>7. ViewsKnown'
  BY <1>1, <1>3, <1>5 DEF ViewsKnown
<1>8. \A c : \A v : v # o => (v \in Using(c)' <=> v \in Using(c))
  BY <1>3, <1>5 DEF Using
<1>9. Counts'
  <2>1. \A c : o \notin Using(c)'
    BY <1>3 DEF Using
  <2>2. CASE o \in Base
    <3>1. \A c \in DOMAIN key \ {o} : allocated_views'[c] = allocated_views[c]
      BY <1>1, <1>2, <2>2 DEF Less, CountTypes
    <3>2. \A c : o \notin Using(c)
      BY <1>4, <2>2 DEF Using
    <3>3. \A c \in DOMAIN key \ {o} : Using(c)' = Using(c)
      BY <1>8, <2>1, <3>2
    <3> QED
      BY <1>1, <1>3, <3>1, <3>3 DEF Counts
  <2>3. CASE o \notin Base /\ Own \in DOMAIN bufs[o]
    <3>1. PICK b : b = base[o]
      OBVIOUS
    <3>2. b \in DOMAIN key /\ o \in Using(b) /\ \A c \in DOMAIN key \ {b} : o \notin Using(c)
      BY <1>4, <2>3, <3>1 DEF Using
    <3>3. /\ allocated_views'[b] = allocated_views[b] - 1
          /\ \A c \in DOMAIN key \ {b} : allocated_views'[c] = allocated_views[c]
      BY <1>1, <1>2, <2>3, <3>1, <3>2 DEF CountTypes
    <3>4. DOMAIN key' = DOMAIN key
      BY <1>3, <1>4, <2>3
    <3>5. \A c \in DOMAIN key \ {b} : \A v : v \in Using(c)' <=> v \in Using(c)
      BY <1>8, <2>1, <3>2
    <3> QED
      BY <1>1, <1>8, <2>1, <3>2, <3>3, <3>4, <3>5, CountsRemove
  <2>4. CASE o \notin Base /\ Own \notin DOMAIN bufs[o]
    <3>1. \A c \in DOMAIN key : allocated_views'[c] = allocated_views[c]
      BY <1>2, <2>4
    <3>2. DOMAIN key' = DOMAIN key
      BY <1>3, <1>4, <2>4
    <3>3. \A c \in DOMAIN key : \A v : v \in Using(c)' <=> v \in Using(c)
      BY <1>8, <2>1, <2>4 DEF Using
    <3> QED
      BY <1>1, <3>1, <3>2, <3>3, CountsStay
  <2> QED
    BY <2>2, <2>3, <2>4
<1>10. \A x \in Live \ {o} : Kept(x)
  <2>1. \A x \in Live \ {o} : BaseOf(x)' = BaseOf(x) /\ bufs'[BaseOf(x)] = bufs[BaseOf(x)]
    <3> SUFFICES ASSUME NEW x \in Live \ {o}
                 PROVE  BaseOf(x)' = BaseOf(x) /\ bufs'[BaseOf(x)] = bufs[BaseOf(x)]
      OBVIOUS
    <3>1. CASE x \in View
      BY <1>1, <1>3, <1>5, <3>1 DEF BaseOf, ObjectTypes
    <3>2. CASE x \notin View
      BY <1>3, <3>2 DEF BaseOf
    <3> QED
      BY <3>1, <3>2
  <2> QED
    BY <1>3, <2>1 DEF Kept, Initialized, Allocated
<1> QED
  BY <1>6, <1>7, <1>9, <1>10 DEF ViewInv

\* An iteration of free_intermediates, when the buffers it is told to free have no views
\* in use: a base buffer is given back when its last view goes, and no other view is in it.
LEMMA FreeNextKeepsViews ==
  ASSUME MemoryInv, ViewInv, NEW o \in Live, FreeNext(o),
         o \notin View => allocated_views[o] = 0
  PROVE  /\ ViewInv' /\ Live' = Live /\ key' = key /\ base' = base
         /\ \A x \in Live : x # o /\ x # BaseOf(o) => Kept(x)
         /\ \A c \in DOMAIN key : allocated_views[c] = 0 => allocated_views'[c] = 0
<1>1. ObjectTypes /\ BasesAgree /\ CountTypes /\ ViewsKnown /\ Counts
  BY DEF MemoryInv, OwnerInv, ViewInv
<1>2. PICK b : b = BaseOf(o)
  OBVIOUS
<1>3. PICK left : left = allocated_views[b] - (IF o \in View /\ Initialized(o) THEN 1 ELSE 0)
  OBVIOUS
<1>4. PICK gone : gone = {x \in {o} : Initialized(x)} \cup {x \in {b} : Releases(o, left)}
  OBVIOUS
<1>5. /\ gone \subseteq {o, b}
      /\ o \in gone <=> Initialized(o) \/ (o = b /\ Allocated(o))
      /\ o # b => (b \in gone <=> Allocated(o) /\ left = 0)
      /\ DOMAIN bufs' = Live /\ \A x \in gone : DOMAIN bufs'[x] = {}
      /\ \A x \in Live \ gone : bufs'[x] = bufs[x]
      /\ key' = key /\ base' = base
      /\ allocated_views' = [allocated_views EXCEPT ![b] = left]
  BY <1>2, <1>3, <1>4, FreeReleases
<1>6. /\ b \in DOMAIN key /\ b \in Live /\ b \notin View /\ b \notin DOMAIN base
      /\ o \notin View => o = b /\ o \notin DOMAIN base
      /\ o \in View => o # b /\ o \in DOMAIN base /\ base[o] = b /\ o \notin DOMAIN key
      /\ \A v \in DOMAIN base : v \in Live /\ base[v] \in DOMAIN key /\ base[v] \in Live
  BY <1>1, <1>2, OwnBase DEF BaseOf, ObjectTypes
<1>7. PICK S, n : S = Using(b) /\ n = Cardinality(S)
  OBVIOUS
<1>8. IsFiniteSet(S) /\ n \in Nat /\ allocated_views[b] = n /\ (n = 0 <=> S = {})
  BY <1>1, <1>6, <1>7, UsingFinite, FS_EmptySet DEF Counts
<1>9. o \in View => (Initialized(o) <=> Own \in DOMAIN bufs[o]) /\ (Initialized(o) <=> o \in S)
                    /\ (~Initialized(o) => DOMAIN bufs[o] = {})
  <2> SUFFICES ASSUME o \in View
               PROVE  (Initialized(o) <=> Own \in DOMAIN bufs[o]) /\ (Initialized(o) <=> o \in S)
                      /\ (~Initialized(o) => DOMAIN bufs[o] = {})
    OBVIOUS
  <2>1. o \in DOMAIN base /\ base[o] = b
    BY <1>6
  <2>2. \A d \in DOMAIN bufs[o] : Own \in DOMAIN bufs[o] /\ d \in DOMAIN bufs[b]
    BY <1>1, <2>1 DEF ViewsKnown
  <2>3. Initialized(o) <=> Own \in DOMAIN bufs[o]
    BY <1>2, <2>2 DEF Initialized, Allocated
  <2>4. o \in S <=> Own \in DOMAIN bufs[o]
    BY <1>7, <2>1 DEF Using
  <2> QED
    BY <2>2, <2>3, <2>4
<1>10. o \notin View => S = {} /\ left = 0
  BY <1>3, <1>6, <1>8
<1>11. o \in View /\ ~Initialized(o) => left = n
  BY <1>3, <1>8
<1>12. o \in View /\ Initialized(o) => left = n - 1
  BY <1>3, <1>8
\* The base is given back only when no other view uses it.
<1>13. b \in gone => \A v \in S : v = o
  <2>1. CASE o \in View /\ Initialized(o) /\ left = 0
    <3>1. n = 1 /\ o \in S
      BY <1>8, <1>9, <1>12, <2>1
    <3>2. IsFiniteSet(S \ {o}) /\ Cardinality(S \ {o}) = 0
      <4>1. IsFiniteSet(S) /\ Cardinality(S) = 1
        BY <1>7, <1>8, <3>1
      <4>2. IsFiniteSet(S \ {o}) /\ Cardinality(S \ {o}) = Cardinality(S) - 1
        BY <3>1, <4>1, FS_RemoveElement
      <4> QED
        BY <4>1, <4>2
    <3>3. S \ {o} = {}
      BY <3>2, FS_EmptySet
    <3> QED
      BY <3>3
  <2>2. CASE o \in View /\ ~Initialized(o) /\ left = 0
    BY <1>8, <1>11, <2>2
  <2> QED
    BY <1>5, <1>6, <1>10, <2>1, <2>2
<1>14. Live' = Live
  BY <1>5 DEF Live
<1>15. CountTypes'
  BY <1>1, <1>5, <1>14 DEF CountTypes
<1>16. \A v \in DOMAIN base : v # o => bufs'[v] = bufs[v]
  BY <1>5, <1>6
<1>17. \A v \in DOMAIN base : v # o /\ Own \in DOMAIN bufs[v] => bufs'[base[v]] = bufs[base[v]]
  <2> SUFFICES ASSUME NEW v \in DOMAIN base, v # o, Own \in DOMAIN bufs[v]
               PROVE  base[v] \notin gone
    BY <1>5, <1>6
  <2>1. CASE base[v] = b
    <3>1. v \in S
      BY <1>7, <2>1 DEF Using
    <3> QED
      BY <1>13, <2>1, <3>1
  <2>2. CASE base[v] # b
    BY <1>5, <1>6, <2>2
  <2> QED
    BY <2>1, <2>2
<1>18. o \in View => DOMAIN bufs'[o] = {}
  <2>1. ASSUME o \in View, Initialized(o) PROVE DOMAIN bufs'[o] = {}
    BY <1>5, <2>1
  <2>2. ASSUME o \in View, ~Initialized(o) PROVE DOMAIN bufs'[o] = {}
    <3>1. o \notin gone
      BY <1>5, <1>6, <2>2
    <3> QED
      BY <1>5, <1>9, <2>2, <3>1
  <2> QED
    BY <2>1, <2>2
<1>19. ViewsKnown'
  <2> SUFFICES ASSUME NEW v \in DOMAIN base, NEW d \in DOMAIN bufs'[v]
               PROVE  Own \in DOMAIN bufs'[v] /\ d \in DOMAIN bufs'[base[v]] /\ bufs'[v][d] = bufs'[base[v]][d]
    BY <1>5 DEF ViewsKnown
  <2>1. v # o
    BY <1>6, <1>18
  <2>2. bufs'[v] = bufs[v]
    BY <1>16, <2>1
  <2>3. Own \in DOMAIN bufs[v] /\ d \in DOMAIN bufs[base[v]] /\ bufs[v][d] = bufs[base[v]][d]
    BY <1>1, <2>2 DEF ViewsKnown
  <2> QED
    BY <1>17, <2>1, <2>2, <2>3
<1>20. \A c : \A v : v # o => (v \in Using(c)' <=> v \in Using(c))
  BY <1>5, <1>16 DEF Using
<1>21. \A c : o \notin Using(c)'
  BY <1>5, <1>6, <1>18 DEF Using
<1>22. allocated_views'[b] = left /\ \A c \in DOMAIN key \ {b} : allocated_views'[c] = allocated_views[c]
  BY <1>1, <1>5, <1>6 DEF CountTypes
<1>23. Counts'
  <2>1. CASE o \in View /\ Initialized(o)
    <3>1. allocated_views'[b] = allocated_views[b] - 1 /\ o \in Using(b)
      BY <1>7, <1>8, <1>9, <1>12, <1>22, <2>1
    <3>2. \A c \in DOMAIN key \ {b} : \A v : v \in Using(c)' <=> v \in Using(c)
      BY <1>6, <1>20, <1>21, <2>1 DEF Using
    <3> QED
      BY <1>1, <1>5, <1>6, <1>20, <1>21, <1>22, <3>1, <3>2, CountsRemove
  <2>2. CASE ~(o \in View /\ Initialized(o))
    <3>1. left = allocated_views[b]
      BY <1>3, <1>8, <2>2
    <3>2. \A c : o \notin Using(c)
      BY <1>6, <1>9, <2>2 DEF Using
    <3>3. \A c \in DOMAIN key : \A v : v \in Using(c)' <=> v \in Using(c)
      BY <1>20, <1>21, <3>2
    <3>4. \A c \in DOMAIN key : allocated_views'[c] = allocated_views[c]
      BY <1>22, <3>1
    <3> QED
      BY <1>1, <1>5, <3>3, <3>4, CountsStay
  <2> QED
    BY <2>1, <2>2
<1>24. \A x \in Live : x # o /\ x # b => Kept(x)
  <2> SUFFICES ASSUME NEW x \in Live, x # o, x # b, Initialized(x)
               PROVE  Initialized(x)' /\ bufs'[x][Own] = bufs[x][Own]
    BY DEF Kept
  <2>1. bufs'[x] = bufs[x] /\ BaseOf(x)' = BaseOf(x)
    BY <1>5 DEF BaseOf
  <2>2. Own \in DOMAIN bufs[x] /\ Own \in DOMAIN bufs[BaseOf(x)]
    BY DEF Initialized, Allocated
  <2>3. bufs'[BaseOf(x)] = bufs[BaseOf(x)]
    <3>1. CASE x \in View
      <4>1. x \in DOMAIN base /\ BaseOf(x) = base[x]
        BY <1>1, <3>1, OwnBase
      <4> QED
        BY <1>17, <2>2, <4>1
    <3>2. CASE x \notin View
      BY <2>1, <3>2 DEF BaseOf
    <3> QED
      BY <3>1, <3>2
  <2> QED
    BY <2>1, <2>2, <2>3 DEF Initialized, Allocated
<1>25. \A c \in DOMAIN key : allocated_views[c] = 0 => allocated_views'[c] = 0
  <2>1. allocated_views[b] = 0 => left = 0
    <3> SUFFICES ASSUME allocated_views[b] = 0 PROVE left = 0
      OBVIOUS
    <3>1. n = 0 /\ S = {}
      BY <1>8
    <3> QED
      BY <1>9, <1>10, <1>11, <3>1
  <2> QED
    BY <1>22, <2>1
<1> QED
  BY <1>2, <1>5, <1>14, <1>15, <1>19, <1>23, <1>24, <1>25 DEF ViewInv

-----------------------------------------------------------------------------
(* Graphs that know where their buffers are.                               *)

\* The buffers a replay has dealt with are allocated.
Built == host.op = "build" => \A o \in written[host.jit] \ host.todo : Initialized(o)

\* Nothing else refers to what free_intermediates has yet to free.
Freed ==
  host.op = "free" =>
    /\ \A b \in host.todo : b \notin View => allocated_views[b] = 0
    /\ \A k \in DOMAIN written \ {host.jit} : \A x \in host.todo :
         x \notin written[k] /\ BaseOf(x) \notin written[k]

CallInv == GraphsAreFresh /\ Built /\ Freed

LEMMA CallInvInit == Init => CallInv
<1> SUFFICES ASSUME Init PROVE CallInv
  OBVIOUS
<1>1. DOMAIN graph = {} /\ host.op = "idle"
  BY DEF Init, Empty, Idle
<1> QED
  BY <1>1 DEF CallInv, GraphsAreFresh, Built, Freed

\* Graphs stay right while their buffers stay where they are.
LEMMA GraphsStay ==
  ASSUME GraphsAreFresh, DOMAIN graph' \subseteq DOMAIN graph,
         \A j \in DOMAIN graph' : graph'[j] = graph[j] /\ \A x \in DOMAIN graph[j] : Kept(x)
  PROVE  GraphsAreFresh'
BY DEF GraphsAreFresh, Kept

\* A step outside a call.
LEMMA CallsStay ==
  ASSUME JitInv, CallInv, graph' = graph, host'.op = "idle",
         \A j \in DOMAIN written : \A x \in written[j] : Kept(x)
  PROVE  CallInv'
<1>1. \A j \in DOMAIN graph : \A x \in DOMAIN graph[j] : Kept(x)
  BY DEF JitInv, JitTypes
<1>2. GraphsAreFresh'
  BY <1>1, GraphsStay DEF CallInv
<1> QED
  BY <1>2 DEF CallInv, Built, Freed

LEMMA BuildNextKeepsCalls ==
  ASSUME MemoryInv, JitInv, ViewInv, CallInv, NEW o \in host.todo, BuildNext(o)
  PROVE  ViewInv' /\ CallInv'
<1>1. /\ host.op = "build" /\ o \in Live /\ host.jit \in DOMAIN written
      /\ \A j \in DOMAIN written : written[j] \subseteq Live
      /\ host' = Idle \/ host' = [op |-> host.op, jit |-> host.jit, todo |-> host.todo \ {o}]
  BY TodoLives, TodoShrinks DEF BuildNext, JitInv, JitTypes
<1>2. CASE Ensure(o)
  <2>1. ViewInv' /\ Initialized(o)' /\ \A x \in Live : Kept(x)
    BY <1>1, <1>2, EnsureKeepsViews
  <2>2. written' = written /\ graph' = graph
    BY <1>2 DEF Ensure, jits
  <2>3. GraphsAreFresh'
    BY <1>1, <2>1, <2>2, GraphsStay DEF CallInv, JitInv, JitTypes
  <2>4. Built' /\ Freed'
    BY <1>1, <2>1, <2>2 DEF CallInv, Built, Freed, Kept, Idle
  <2> QED
    BY <2>1, <2>3, <2>4 DEF CallInv
<1>3. CASE /\ Initialized(o)
           /\ UNCHANGED <<objects, bufs, allocated_views, cache, held, maps, jits>>
  <2>1. UNCHANGED <<key, base, bufs, allocated_views>> /\ written' = written /\ graph' = graph
    BY <1>3 DEF objects, jits
  <2>2. ViewInv' /\ \A x \in Live : Kept(x)
    BY <2>1, ViewsUntouched
  <2>3. GraphsAreFresh'
    BY <1>1, <2>1, <2>2, GraphsStay DEF CallInv, JitInv, JitTypes
  <2>4. Built' /\ Freed'
    BY <1>1, <1>3, <2>1, <2>2 DEF CallInv, Built, Freed, Kept, Idle
  <2> QED
    BY <2>2, <2>3, <2>4 DEF CallInv
<1>4. CASE EnsureFails(o) /\ host' = Idle
  <2>1. UNCHANGED <<key, base, bufs, allocated_views>> /\ written' = written /\ graph' = graph
    BY <1>4 DEF EnsureFails, objects, jits
  <2>2. ViewInv' /\ \A x \in Live : Kept(x)
    BY <2>1, ViewsUntouched
  <2>3. host'.op = "idle"
    BY <1>4 DEF Idle
  <2>4. CallInv'
    BY <1>1, <2>1, <2>2, <2>3, CallsStay
  <2> QED
    BY <2>2, <2>4
<1> QED
  BY <1>2, <1>3, <1>4 DEF BuildNext

LEMMA FreeNextKeepsCalls ==
  ASSUME MemoryInv, JitInv, ViewInv, CallInv, NEW o \in host.todo, FreeNext(o)
  PROVE  ViewInv' /\ CallInv'
<1>1. /\ host.op = "free" /\ o \in Live /\ host.todo \subseteq Live
      /\ host.jit \in DOMAIN written \ DOMAIN graph
      /\ host' = Idle \/ host' = [op |-> host.op, jit |-> host.jit, todo |-> host.todo \ {o}]
  BY TodoLives, TodoShrinks DEF FreeNext
<1>2. /\ \A b \in host.todo : b \notin View => allocated_views[b] = 0
      /\ \A k \in DOMAIN written \ {host.jit} : \A x \in host.todo :
           x \notin written[k] /\ BaseOf(x) \notin written[k]
  BY <1>1 DEF CallInv, Freed
<1>3. /\ ViewInv' /\ key' = key /\ base' = base
      /\ \A x \in Live : x # o /\ x # BaseOf(o) => Kept(x)
      /\ \A c \in DOMAIN key : allocated_views[c] = 0 => allocated_views'[c] = 0
  BY <1>1, <1>2, FreeNextKeepsViews
<1>4. written' = written /\ graph' = graph
  BY DEF FreeNext, jits
<1>5. GraphsAreFresh'
  <2>1. ASSUME NEW j \in DOMAIN graph, NEW x \in DOMAIN graph[j] PROVE Kept(x)
    <3>1. /\ j \in DOMAIN written \ {host.jit} /\ x \in written[j] /\ x \in Live
      BY <1>1 DEF JitInv, JitTypes
    <3>2. x # o /\ x # BaseOf(o)
      BY <1>2, <3>1
    <3> QED
      BY <1>3, <3>1, <3>2
  <2> QED
    BY <1>4, <2>1, GraphsStay DEF CallInv
<1>6. Built'
  BY <1>1 DEF Built, Idle
<1>7. Freed'
  <2>1. CASE host' = Idle
    BY <2>1 DEF Freed, Idle
  <2>2. CASE host' = [op |-> host.op, jit |-> host.jit, todo |-> host.todo \ {o}]
    <3>1. host'.jit = host.jit /\ host'.todo \subseteq host.todo
      BY <2>2
    <3>2. \A b \in host'.todo : b \notin View => allocated_views'[b] = 0
      <4> SUFFICES ASSUME NEW b \in host'.todo, b \notin View PROVE allocated_views'[b] = 0
        OBVIOUS
      <4>1. b \in host.todo /\ b \in Live
        BY <1>1, <3>1
      <4>2. b \in DOMAIN key
        BY <4>1, OwnBase DEF MemoryInv
      <4> QED
        BY <1>2, <1>3, <4>1, <4>2
    <3>3. \A x : BaseOf(x)' = BaseOf(x)
      BY <1>3 DEF BaseOf
    <3> QED
      BY <1>2, <1>4, <3>1, <3>2, <3>3 DEF Freed
  <2> QED
    BY <1>1, <2>1, <2>2
<1> QED
  BY <1>3, <1>5, <1>6, <1>7 DEF CallInv

LEMMA BuildEndKeepsCalls ==
  ASSUME MemoryInv, JitInv, ViewInv, CallInv, BuildEnd
  PROVE  ViewInv' /\ CallInv'
<1>1. /\ host.op = "build" /\ host.todo = {} /\ host' = Idle /\ host # Idle
      /\ UNCHANGED <<key, base, bufs, allocated_views>> /\ written' = written
      /\ graph' = With(graph, host.jit, [o \in written[host.jit] |-> bufs[o][Own]])
  BY DEF BuildEnd, objects, Idle
<1>2. ViewInv' /\ \A x \in Live : Kept(x)
  BY <1>1, ViewsUntouched
<1>3. PICK f : f = [o \in written[host.jit] |-> bufs[o][Own]]
  OBVIOUS
<1>4. /\ DOMAIN graph' = DOMAIN graph \cup {host.jit} /\ graph'[host.jit] = f
      /\ \A j \in DOMAIN graph \ {host.jit} : graph'[j] = graph[j]
  BY <1>1, <1>3 DEF With
<1>5. host.jit \in DOMAIN written /\ \A j \in DOMAIN written : written[j] \subseteq Live
  BY <1>1, TodoLives DEF JitInv, JitTypes
<1>6. \A o \in DOMAIN f : Initialized(o) /\ f[o] = bufs[o][Own] /\ o \in Live
  BY <1>1, <1>3, <1>5 DEF CallInv, Built
<1>7. GraphsAreFresh'
  <2> SUFFICES ASSUME NEW j \in DOMAIN graph', NEW o \in DOMAIN graph'[j]
               PROVE  Initialized(o)' /\ graph'[j][o] = bufs'[o][Own]
    BY DEF GraphsAreFresh
  <2>1. CASE j = host.jit
    BY <1>2, <1>4, <1>6, <2>1 DEF Kept
  <2>2. CASE j # host.jit
    <3>1. j \in DOMAIN graph /\ graph'[j] = graph[j] /\ o \in Live
      BY <1>4, <1>5, <2>2 DEF JitInv, JitTypes
    <3> QED
      BY <1>2, <3>1 DEF CallInv, GraphsAreFresh, Kept
  <2> QED
    BY <2>1, <2>2
<1>8. Built' /\ Freed'
  BY <1>1 DEF Built, Freed, Idle
<1> QED
  BY <1>2, <1>7, <1>8 DEF CallInv

LEMMA CallStep ==
  ASSUME Shared = FALSE, MemoryInv, JitInv, ViewInv, CallInv, [Next]_vars
  PROVE  ViewInv' /\ CallInv'
<1>1. ObjectTypes /\ \A j \in DOMAIN written : written[j] \subseteq Live
  BY DEF MemoryInv, JitInv, JitTypes
<1>2. ASSUME graph' = graph, host' = host, host = Idle, \A x \in Live : Kept(x) PROVE CallInv'
  BY <1>1, <1>2, CallsStay DEF Idle
<1>3. ASSUME NEW b \in Base, NEW k \in Key, NewBase(b, k) PROVE ViewInv' /\ CallInv'
  BY <1>2, <1>3, NewBaseKeepsViews DEF NewBase, jits
<1>4. ASSUME NEW v \in View, NEW o \in Live, NewView(v, o) PROVE ViewInv' /\ CallInv'
  BY <1>2, <1>4, NewViewKeepsViews DEF NewView, jits
<1>5. ASSUME NEW o \in Live, NEW p \in Peer, GetBuf(o, p) PROVE ViewInv' /\ CallInv'
  BY <1>2, <1>5, GetBufKeepsViews DEF GetBuf, jits
<1>6. ASSUME NEW o \in Live, Allocate(o) PROVE ViewInv' /\ CallInv'
  <2>1. host = Idle /\ host' = host
    BY <1>6 DEF Allocate
  <2>2. CASE Ensure(o)
    <3>1. graph' = graph
      BY <2>2 DEF Ensure, jits
    <3> QED
      BY <1>2, <2>1, <2>2, <3>1, EnsureKeepsViews
  <2>3. CASE EnsureFails(o)
    <3>1. graph' = graph /\ UNCHANGED <<key, base, bufs, allocated_views>>
      BY <2>3 DEF EnsureFails, jits, objects
    <3> QED
      BY <1>2, <2>1, <3>1, ViewsUntouched
  <2> QED
    BY <1>6, <2>2, <2>3 DEF Allocate
<1>7. ASSUME NEW o \in Live, Collect(o) PROVE ViewInv' /\ CallInv'
  <2>1. /\ graph' = graph /\ host' = host /\ host = Idle
        /\ \A j \in DOMAIN written : o \notin written[j]
    BY <1>7 DEF Collect, jits
  <2>2. ViewInv' /\ \A x \in Live \ {o} : Kept(x)
    BY <1>7, CollectKeepsViews
  <2>3. \A j \in DOMAIN written : \A x \in written[j] : Kept(x)
    BY <1>1, <2>1, <2>2
  <2> QED
    BY <2>1, <2>2, <2>3, CallsStay DEF Idle
<1>8. ASSUME UNCHANGED <<key, base, bufs, allocated_views>>
      PROVE  ViewInv' /\ \A x \in Live : Kept(x)
  BY <1>8, ViewsUntouched
<1>9. ASSUME NEW j \in Jit, NEW writes \in (SUBSET Live) \ {{}}, Capture(j, writes)
      PROVE  ViewInv' /\ CallInv'
  BY <1>2, <1>8, <1>9 DEF Capture, objects
<1>10. ASSUME UNCHANGED <<key, base, bufs, allocated_views>>, NEW j, graph' = Less(graph, {j})
       PROVE  GraphsAreFresh'
  <2>1. DOMAIN graph' \subseteq DOMAIN graph /\ \A k \in DOMAIN graph' : graph'[k] = graph[k]
    BY <1>10 DEF Less
  <2> QED
    BY <1>1, <1>8, <1>10, <2>1, GraphsStay DEF CallInv, JitInv, JitTypes
<1>11. ASSUME NEW j \in DOMAIN written, Discard(j) PROVE ViewInv' /\ CallInv'
  <2>1. /\ UNCHANGED <<key, base, bufs, allocated_views>> /\ graph' = Less(graph, {j})
        /\ host' = Idle
    BY <1>11 DEF Discard, objects
  <2>2. Built' /\ Freed'
    BY <2>1 DEF Built, Freed, Idle
  <2> QED
    BY <1>8, <1>10, <2>1, <2>2 DEF CallInv
<1>12. ASSUME NEW j \in DOMAIN written, Replay(j) PROVE ViewInv' /\ CallInv'
  <2>1. /\ UNCHANGED <<key, base, bufs, allocated_views>> /\ graph' = graph /\ written' = written
        /\ host' = [op |-> "build", jit |-> j, todo |-> written[j]]
    BY <1>12 DEF Replay, objects, jits
  <2>2. GraphsAreFresh'
    BY <1>1, <1>8, <2>1, GraphsStay DEF CallInv, JitInv, JitTypes
  <2>3. Built' /\ Freed'
    BY <2>1 DEF Built, Freed
  <2> QED
    BY <1>8, <2>1, <2>2, <2>3 DEF CallInv
<1>13. ASSUME NEW j \in DOMAIN written, FreeIntermediates(j) PROVE ViewInv' /\ CallInv'
  <2>1. /\ UNCHANGED <<key, base, bufs, allocated_views>> /\ written' = written
        /\ graph' = Less(graph, {j}) /\ Private(j)
        /\ host' = [op |-> "free", jit |-> j, todo |-> written[j]]
    BY <1>13 DEF FreeIntermediates, GraphDropped, objects
  <2>2. Built'
    BY <2>1 DEF Built
  <2>3. \A b \in written[j] : b \notin View => allocated_views[b] = 0
    BY <1>1, <2>1 DEF Private, ObjectTypes
  <2>4. \A k \in DOMAIN written \ {j} : \A x \in written[j] :
          x \notin written[k] /\ BaseOf(x) \notin written[k]
    BY <2>1 DEF Private
  <2>5. \A x : BaseOf(x)' = BaseOf(x)
    BY <2>1 DEF BaseOf
  <2>6. Freed'
    BY <2>1, <2>3, <2>4, <2>5 DEF Freed
  <2> QED
    BY <1>8, <1>10, <2>1, <2>2, <2>6 DEF CallInv
<1>14. CASE UNCHANGED vars
  <2>1. /\ UNCHANGED <<key, base, bufs, allocated_views>> /\ written' = written /\ graph' = graph
        /\ host' = host
    BY <1>14 DEF vars
  <2>2. GraphsAreFresh'
    BY <1>1, <1>8, <2>1, GraphsStay DEF CallInv, JitInv, JitTypes
  <2>3. Built' /\ Freed'
    BY <2>1 DEF CallInv, Built, Freed, Initialized, Allocated, BaseOf
  <2> QED
    BY <1>8, <2>1, <2>2, <2>3 DEF CallInv
<1> QED
  BY <1>3, <1>4, <1>5, <1>6, <1>7, <1>9, <1>11, <1>12, <1>13, <1>14,
     BuildNextKeepsCalls, FreeNextKeepsCalls, BuildEndKeepsCalls DEF Next

LEMMA CallInvariant == Shared = FALSE /\ Spec => [](MemoryInv /\ JitInv /\ ViewInv /\ CallInv)
<1> DEFINE Inv == MemoryInv /\ JitInv /\ ViewInv /\ CallInv
<1>1. Init => Inv
  BY InvInit, ViewInvInit, CallInvInit
<1>2. Shared = FALSE /\ Inv /\ [Next]_vars => Inv'
  BY InvStep, CallStep
<1>3. Shared = FALSE => (Shared = FALSE)'
  OBVIOUS
<1> HIDE DEF Inv
<1>4. Shared = FALSE /\ Spec => []Inv
  BY <1>1, <1>2, <1>3, PTL DEF Spec
<1> QED
  BY <1>4 DEF Inv

\* While intermediates are freed only when nothing else refers to them, a view that is
\* known to any device lies where its base does, and a base's count of views is right, also
\* after an allocation that failed between the base and the view (device.py:129, 151-153).
THEOREM ViewsStayWithBases == Shared = FALSE /\ Spec => []ViewsFollowBases
<1>1. MemoryInv /\ ViewInv => ViewsFollowBases
  BY ViewInvSuffices DEF MemoryInv
<1> QED
  BY CallInvariant, <1>1, PTL

\* A graph in the cache knows where each of its buffers is: whatever gave one of them back
\* dropped the graph (jit.py:238-241).
THEOREM GraphsStayFresh == Shared = FALSE /\ Spec => []GraphsAreFresh
<1>1. CallInv => GraphsAreFresh
  BY DEF CallInv
<1> QED
  BY CallInvariant, <1>1, PTL

-----------------------------------------------------------------------------
(* Induction over the subsets of a finite set, from the well-foundedness   *)
(* of inclusion, and sums over finite sets.                                *)

LEMMA SmallestSet ==
  ASSUME NEW S, IsFiniteSet(S), NEW T \in SUBSET SUBSET S, T # {}
  PROVE  \E s \in T : \A t \in T : t \subseteq s => t = s
<1>1. T \subseteq FiniteSubsetsOf(S)
  BY FS_Subset DEF FiniteSubsetsOf
<1>2. IsWellFoundedOn(StrictSubsetOrdering(S), FiniteSubsetsOf(S))
  BY FS_StrictSubsetOrderingWellFounded
<1>3. PICK s \in T : \A t \in T : <<t, s>> \notin StrictSubsetOrdering(S)
  BY <1>1, <1>2, WFMin
<1>4. ASSUME NEW t \in T, t \subseteq s, t # s PROVE FALSE
  <2>1. <<t, s>> \in (SUBSET S) \X (SUBSET S) /\ <<t, s>>[1] = t /\ <<t, s>>[2] = s
    OBVIOUS
  <2>2. <<t, s>> \in StrictSubsetOrdering(S)
    BY <1>4, <2>1 DEF StrictSubsetOrdering
  <2> QED
    BY <1>3, <2>2
<1> QED
  BY <1>4

LEMMA SetInduction ==
  ASSUME NEW S, IsFiniteSet(S), NEW P, {} \in P,
         \A s \in SUBSET S : \A x \in s : s \ {x} \in P => s \in P
  PROVE  \A s \in SUBSET S : s \in P
<1> SUFFICES ASSUME NEW r \in SUBSET S, r \notin P PROVE FALSE
  OBVIOUS
<1>1. PICK T : T = {s \in SUBSET S : s \notin P}
  OBVIOUS
<1>2. T # {} /\ T \in SUBSET SUBSET S
  BY <1>1
<1>3. PICK s \in T : \A t \in T : t \subseteq s => t = s
  BY <1>2, SmallestSet
<1>4. PICK x : x \in s
  <2>1. s # {}
    BY <1>1
  <2> QED
    BY <2>1
<1>5. s \ {x} \in P /\ s \in SUBSET S /\ s \notin P
  BY <1>1, <1>3, <1>4
<1> QED
  BY <1>4, <1>5

First(s) == CHOOSE x \in s : TRUE

\* f adds up w over subsets of S as MapThenSumSet does.
Adds(f, w, S) == f = [s \in SUBSET S |-> IF s = {} THEN 0 ELSE w[First(s)] + f[s \ {First(s)}]]

\* What that says of the empty set and of the others.
AddsUp(f, w, S) ==
  /\ DOMAIN f = SUBSET S /\ f[{}] = 0
  /\ \A s \in SUBSET S : s # {} => First(s) \in s /\ f[s] = w[First(s)] + f[s \ {First(s)}]

LEMMA AddsFacts ==
  ASSUME NEW f, NEW w, NEW S, Adds(f, w, S)
  PROVE  AddsUp(f, w, S)
<1>1. DOMAIN f = SUBSET S
  BY DEF Adds
<1>2. \A s \in SUBSET S : f[s] = IF s = {} THEN 0 ELSE w[First(s)] + f[s \ {First(s)}]
  BY DEF Adds
<1>3. \A s : s # {} => First(s) \in s
  BY DEF First
<1> QED
  BY <1>1, <1>2, <1>3 DEF AddsUp

LEMMA AddsTop ==
  ASSUME NEW f, NEW w, NEW S, Adds(f, w, S), S # {}
  PROVE  f[S] = w[First(S)] + f[S \ {First(S)}]
<1>1. S \in SUBSET S
  OBVIOUS
<1>2. f[S] = IF S = {} THEN 0 ELSE w[First(S)] + f[S \ {First(S)}]
  BY <1>1 DEF Adds
<1> QED
  BY <1>2

LEMMA AddsUnique ==
  ASSUME NEW w, NEW S, IsFiniteSet(S), NEW T \in SUBSET S, NEW f, NEW g, Adds(f, w, S), Adds(g, w, T)
  PROVE  \A s \in SUBSET T : f[s] = g[s]
<1>1. PICK P : P = {s \in SUBSET T : f[s] = g[s]}
  OBVIOUS
<1>0. /\ f[{}] = 0 /\ \A s \in SUBSET T : s # {} => First(s) \in s /\ f[s] = w[First(s)] + f[s \ {First(s)}]
      /\ g[{}] = 0 /\ \A s \in SUBSET T : s # {} => g[s] = w[First(s)] + g[s \ {First(s)}]
  <2>1. /\ f[{}] = 0
        /\ \A s \in SUBSET S : s # {} => First(s) \in s /\ f[s] = w[First(s)] + f[s \ {First(s)}]
    <3>1. AddsUp(f, w, S)
      BY AddsFacts
    <3> QED
      BY <3>1 DEF AddsUp
  <2>2. /\ g[{}] = 0
        /\ \A s \in SUBSET T : s # {} => First(s) \in s /\ g[s] = w[First(s)] + g[s \ {First(s)}]
    <3>1. AddsUp(g, w, T)
      BY AddsFacts
    <3> QED
      BY <3>1 DEF AddsUp
  <2>3. SUBSET T \subseteq SUBSET S
    OBVIOUS
  <2> QED
    BY <2>1, <2>2, <2>3
<1>2. {} \in P
  BY <1>0, <1>1
<1>3. IsFiniteSet(T)
  BY FS_Subset
<1>4. \A s \in SUBSET T : s # {} => (s \ {First(s)} \in P => s \in P)
  BY <1>0, <1>1
<1>5. ASSUME NEW r \in SUBSET T, r \notin P PROVE FALSE
  <2>1. PICK Q : Q = {s \in SUBSET T : s \notin P}
    OBVIOUS
  <2>2. Q # {} /\ Q \in SUBSET SUBSET T
    BY <2>1, <1>5
  <2>3. PICK s \in Q : \A t \in Q : t \subseteq s => t = s
    BY <1>3, <2>2, SmallestSet
  <2>4. s # {} /\ First(s) \in s /\ s \in SUBSET T /\ s \notin P
    BY <1>2, <2>1, <2>3 DEF First
  <2>5. s \ {First(s)} \in P
    BY <2>1, <2>3, <2>4
  <2> QED
    BY <1>4, <2>4, <2>5
<1> QED
  BY <1>1, <1>5

LEMMA AddsExists ==
  ASSUME NEW w, NEW S, IsFiniteSet(S)
  PROVE  \E f : Adds(f, w, S)
<1> SUFFICES ASSUME ~\E f : Adds(f, w, S) PROVE FALSE
  OBVIOUS
<1>1. PICK Q : Q = {s \in SUBSET S : ~\E f : Adds(f, w, s)}
  OBVIOUS
<1>2. Q # {} /\ Q \in SUBSET SUBSET S
  BY <1>1
<1>3. PICK t \in Q : \A s \in Q : s \subseteq t => s = t
  BY <1>2, SmallestSet
<1>4. /\ t \in SUBSET S /\ ~\E f : Adds(f, w, t)
      /\ \A s \in SUBSET t : s # t => \E f : Adds(f, w, s)
  BY <1>1, <1>3
<1>5. PICK F : F = [s \in SUBSET t |-> CHOOSE f : Adds(f, w, s)]
  OBVIOUS
<1>6. \A s \in SUBSET t : s # t => Adds(F[s], w, s)
  BY <1>4, <1>5
<1>7. PICK g : g = [s \in SUBSET t |-> IF s = {} THEN 0 ELSE w[First(s)] + F[s \ {First(s)}][s \ {First(s)}]]
  OBVIOUS
\* Below t, g is what the functions for the smaller sets say.
<1>8. ASSUME NEW s \in SUBSET t, s # t PROVE g[s] = F[s][s]
  <2>1. CASE s = {}
    <3>1. Adds(F[s], w, s)
      BY <1>6, <1>8
    <3>2. AddsUp(F[s], w, s)
      BY <3>1, AddsFacts
    <3>3. F[s][{}] = 0
      BY <3>2 DEF AddsUp
    <3> QED
      BY <1>7, <2>1, <3>3
  <2>2. CASE s # {}
    <3>1. PICK u : u = s \ {First(s)}
      OBVIOUS
    <3>2. First(s) \in s /\ u \in SUBSET s /\ u \in SUBSET t /\ u # t
      BY <1>8, <2>2, <3>1 DEF First
    <3>3. F[s][s] = w[First(s)] + F[s][u]
      <4>1. PICK f : f = F[s] /\ Adds(f, w, s)
        BY <1>6, <1>8
      <4>2. f[s] = w[First(s)] + f[s \ {First(s)}]
        BY <2>2, <4>1, AddsTop
      <4> QED
        BY <3>1, <4>1, <4>2
    <3>4. IsFiniteSet(s)
      BY <1>4, FS_Subset
    <3>5. F[s][u] = F[u][u]
      <4>1. PICK f, h : f = F[s] /\ h = F[u] /\ Adds(f, w, s) /\ Adds(h, w, u)
        BY <1>6, <1>8, <3>2
      <4>2. IsFiniteSet(s) /\ u \in SUBSET s /\ Adds(f, w, s) /\ Adds(h, w, u)
        BY <3>2, <3>4, <4>1
      <4>3. u \in SUBSET u
        OBVIOUS
      <4>4. f[u] = h[u]
        BY <4>2, <4>3, AddsUnique
      <4> QED
        BY <4>1, <4>4
    <3>6. g[s] = w[First(s)] + F[u][u]
      BY <1>7, <2>2, <3>1
    <3> QED
      BY <3>3, <3>5, <3>6
  <2> QED
    BY <2>1, <2>2
<1>9. \A s \in SUBSET t : g[s] = IF s = {} THEN 0 ELSE w[First(s)] + g[s \ {First(s)}]
  <2> TAKE s \in SUBSET t
  <2>1. CASE s = {}
    BY <1>7, <2>1
  <2>2. CASE s # {}
    <3>1. s \ {First(s)} \in SUBSET t /\ s \ {First(s)} # t
      BY <2>2 DEF First
    <3>2. g[s \ {First(s)}] = F[s \ {First(s)}][s \ {First(s)}]
      BY <1>8, <3>1
    <3> QED
      BY <1>7, <2>2, <3>2
  <2> QED
    BY <2>1, <2>2
<1>10. g = [s \in SUBSET t |-> IF s = {} THEN 0 ELSE w[First(s)] + g[s \ {First(s)}]]
  <2>1. PICK h : h = [s \in SUBSET t |-> IF s = {} THEN 0 ELSE w[First(s)] + g[s \ {First(s)}]]
    OBVIOUS
  <2>2. DOMAIN h = SUBSET t /\ \A s \in SUBSET t : h[s] = g[s]
    BY <1>9, <2>1
  <2>3. h = [s \in SUBSET t |-> h[s]] /\ g = [s \in SUBSET t |-> g[s]]
    BY <1>7, <2>1
  <2>4. g = h
    BY <2>2, <2>3
  <2> QED
    BY <2>1, <2>4
<1> QED
  BY <1>4, <1>10 DEF Adds

\* What MapThenSumSet is, for numbers that are given by a function.
LEMMA SumIs ==
  ASSUME NEW w, NEW S, IsFiniteSet(S), NEW f, Adds(f, w, S)
  PROVE  MapThenSumSet(LAMBDA x : w[x], S) = f[S]
<1>1. PICK g : g = CHOOSE h : h = [s \in SUBSET S |-> IF s = {} THEN 0
                                     ELSE w[CHOOSE x \in s : TRUE] + h[s \ {CHOOSE x \in s : TRUE}]]
  OBVIOUS
<1>2. MapThenSumSet(LAMBDA x : w[x], S) = g[S]
  BY <1>1 DEF MapThenSumSet, MapThenFoldSet
<1>3. Adds(g, w, S)
  <2>1. \E h : h = [s \in SUBSET S |-> IF s = {} THEN 0
                                     ELSE w[CHOOSE x \in s : TRUE] + h[s \ {CHOOSE x \in s : TRUE}]]
    BY DEF Adds, First
  <2>2. g = [s \in SUBSET S |-> IF s = {} THEN 0
                                     ELSE w[CHOOSE x \in s : TRUE] + g[s \ {CHOOSE x \in s : TRUE}]]
    BY <1>1, <2>1, Zenon
  <2> QED
    BY <2>2 DEF Adds, First
<1> QED
  BY <1>2, <1>3, AddsUnique

\* The order does not matter.
AnyOrder(f, w, S) == \A s \in SUBSET S : f[s] \in Nat /\ \A x \in s : f[s] = w[x] + f[s \ {x}]

LEMMA AddsAny ==
  ASSUME NEW S, IsFiniteSet(S), NEW w, \A x \in S : w[x] \in Nat, NEW f, Adds(f, w, S)
  PROVE  AnyOrder(f, w, S)
<1>1. PICK P : P = {s \in SUBSET S : f[s] \in Nat /\ \A x \in s : f[s] = w[x] + f[s \ {x}]}
  OBVIOUS
<1> SUFFICES ASSUME NEW r \in SUBSET S, r \notin P PROVE FALSE
  BY <1>1 DEF AnyOrder
<1>2. PICK Q : Q = {s \in SUBSET S : s \notin P}
  OBVIOUS
<1>3. Q # {} /\ Q \in SUBSET SUBSET S
  BY <1>2
<1>4. PICK s \in Q : \A t \in Q : t \subseteq s => t = s
  BY <1>3, SmallestSet
<1>5. s \in SUBSET S /\ s \notin P /\ \A t \in SUBSET s : t # s => t \in P
  BY <1>2, <1>4
<1>0. /\ f[{}] = 0
      /\ \A t \in SUBSET S : t # {} => First(t) \in t /\ f[t] = w[First(t)] + f[t \ {First(t)}]
  <2>1. AddsUp(f, w, S)
    BY AddsFacts
  <2> QED
    BY <2>1 DEF AddsUp
<1>6. {} \in P
  BY <1>0, <1>1
<1>7. PICK p : p = First(s)
  OBVIOUS
<1>8. p \in s /\ f[s] = w[p] + f[s \ {p}]
  BY <1>0, <1>5, <1>6, <1>7
<1>9. s \ {p} \in P
  BY <1>5, <1>8
<1>10. f[s \ {p}] \in Nat /\ w[p] \in Nat
  BY <1>1, <1>5, <1>8, <1>9
<1>11. f[s] \in Nat
  BY <1>8, <1>10
<1>12. ASSUME NEW x \in s PROVE f[s] = w[x] + f[s \ {x}]
  <2>1. CASE x = p
    BY <1>8, <2>1
  <2>2. CASE x # p
    <3>1. s \ {x} \in P /\ p \in s \ {x} /\ x \in s \ {p}
      BY <1>5, <1>8, <2>2
    <3>2. PICK u : u = (s \ {p}) \ {x}
      OBVIOUS
    <3>3. u = (s \ {x}) \ {p} /\ u \in P
      BY <1>5, <1>8, <3>2
    <3>4. f[s \ {p}] = w[x] + f[u] /\ f[s \ {x}] = w[p] + f[u]
      BY <1>1, <1>9, <3>1, <3>2, <3>3
    <3>5. f[u] \in Nat /\ w[x] \in Nat
      BY <1>1, <1>5, <3>3
    <3> QED
      BY <1>8, <1>10, <3>4, <3>5
  <2> QED
    BY <2>1, <2>2
<1> QED
  BY <1>1, <1>5, <1>11, <1>12

\* What w adds up to over S.
Total(w, S) == MapThenSumSet(LAMBDA x : w[x], S)

LEMMA TotalIs ==
  ASSUME NEW w, NEW S, IsFiniteSet(S), NEW f, Adds(f, w, S)
  PROVE  Total(w, S) = f[S]
BY SumIs DEF Total

LEMMA TotalStep ==
  ASSUME NEW S, IsFiniteSet(S), NEW w, \A x \in S : w[x] \in Nat
  PROVE  /\ Total(w, S) \in Nat /\ (S = {} => Total(w, S) = 0)
         /\ \A x \in S : Total(w, S) = w[x] + Total(w, S \ {x})
<1>1. PICK f : Adds(f, w, S)
  BY AddsExists
<1>2. Total(w, S) = f[S]
  BY <1>1, TotalIs
<1>3. S \in SUBSET S
  OBVIOUS
<1>4. f[S] \in Nat /\ \A x \in S : f[S] = w[x] + f[S \ {x}]
  <2>1. \A s \in SUBSET S : f[s] \in Nat /\ \A x \in s : f[s] = w[x] + f[s \ {x}]
    <3>1. Adds(f, w, S)
      BY <1>1
    <3>2. AnyOrder(f, w, S)
      BY <3>1, AddsAny
    <3> QED
      BY <3>2 DEF AnyOrder
  <2> QED
    BY <1>3, <2>1
<1>5. f[{}] = 0
  <2>1. AddsUp(f, w, S)
    BY <1>1, AddsFacts
  <2> QED
    BY <2>1 DEF AddsUp
<1>6. ASSUME NEW x \in S PROVE Total(w, S \ {x}) = f[S \ {x}]
  <2>1. PICK T : T = S \ {x}
    OBVIOUS
  <2>2. IsFiniteSet(T) /\ T \in SUBSET S /\ T \in SUBSET T
    BY <2>1, FS_Subset
  <2>3. PICK g : Adds(g, w, T)
    BY <2>2, AddsExists
  <2>4. f[T] = g[T]
    BY <1>1, <2>2, <2>3, AddsUnique
  <2>5. Total(w, T) = g[T]
    BY <2>2, <2>3, TotalIs
  <2> QED
    BY <2>1, <2>4, <2>5
<1> QED
  BY <1>2, <1>4, <1>5, <1>6

\* Sums that are the same term by term.
LEMMA TotalMapped ==
  ASSUME NEW S, IsFiniteSet(S), NEW w, \A x \in S : w[x] \in Nat,
         NEW T, IsFiniteSet(T), NEW v, \A y \in T : v[y] \in Nat,
         NEW h, \A x \in S : h[x] \in T /\ v[h[x]] = w[x],
         \A x \in S : \A y \in S : h[x] = h[y] => x = y,
         \A y \in T : \E x \in S : h[x] = y
  PROVE  Total(w, S) = Total(v, T)
<1> DEFINE Image(s) == {h[x] : x \in s}
<1>1. PICK P : P = {s \in SUBSET S : Total(w, s) = Total(v, Image(s))}
  OBVIOUS
<1>2. \A s \in SUBSET S : /\ IsFiniteSet(s) /\ \A x \in s : w[x] \in Nat
                          /\ Image(s) \in SUBSET T
                          /\ \A x \in s : h[x] \in Image(s) /\ Image(s) \ {h[x]} = Image(s \ {x})
  <2> TAKE s \in SUBSET S
  <2>1. IsFiniteSet(s)
    BY FS_Subset
  <2>2. ASSUME NEW x \in s PROVE Image(s) \ {h[x]} = Image(s \ {x})
    OBVIOUS
  <2> QED
    BY <2>1, <2>2
<1>3. \A s \in SUBSET S : IsFiniteSet(Image(s)) /\ \A y \in Image(s) : v[y] \in Nat
  BY <1>2, FS_Subset
<1>4. Image({}) = {} /\ Image(S) = T
  OBVIOUS
<1>5. {} \in P
  <2>1. Total(w, {}) = 0 /\ Total(v, {}) = 0
    BY TotalStep, FS_EmptySet
  <2> QED
    BY <1>1, <1>4, <2>1
<1>6. ASSUME NEW s \in SUBSET S, NEW x \in s, s \ {x} \in P PROVE s \in P
  <2>1. PICK t, u : t = Image(s) /\ u = s \ {x}
    OBVIOUS
  <2>2. h[x] \in t /\ t \ {h[x]} = Image(u) /\ v[h[x]] = w[x]
    BY <1>2, <2>1
  <2>3. Total(w, s) = w[x] + Total(w, u)
    <3>1. IsFiniteSet(s) /\ \A y \in s : w[y] \in Nat
      BY <1>2
    <3>2. \A y \in s : Total(w, s) = w[y] + Total(w, s \ {y})
      BY <3>1, TotalStep
    <3> QED
      BY <2>1, <3>2
  <2>4. Total(v, t) = v[h[x]] + Total(v, t \ {h[x]})
    <3>1. IsFiniteSet(t) /\ \A y \in t : v[y] \in Nat
      BY <1>3, <2>1
    <3>2. \A y \in t : Total(v, t) = v[y] + Total(v, t \ {y})
      BY <3>1, TotalStep
    <3> QED
      BY <2>2, <3>2
  <2>5. Total(w, u) = Total(v, Image(u))
    BY <1>1, <1>6, <2>1
  <2> QED
    BY <1>1, <2>1, <2>2, <2>3, <2>4, <2>5
<1>7. S \in P
  <2> HIDE DEF Image
  <2>1. \A s \in SUBSET S : s \in P
    BY <1>5, <1>6, SetInduction
  <2> QED
    BY <2>1
<1> QED
  BY <1>1, <1>4, <1>7

LEMMA TotalAtLeast ==
  ASSUME NEW S, IsFiniteSet(S), NEW w, \A x \in S : w[x] \in Nat \ {0}
  PROVE  Cardinality(S) <= Total(w, S)
<1>1. PICK P : P = {s \in SUBSET S : Cardinality(s) <= Total(w, s)}
  OBVIOUS
<1>2. {} \in P
  <2>1. Total(w, {}) = 0 /\ Cardinality({}) = 0
    BY TotalStep, FS_EmptySet
  <2> QED
    BY <1>1, <2>1
<1>3. ASSUME NEW s \in SUBSET S, NEW x \in s, s \ {x} \in P PROVE s \in P
  <2>1. IsFiniteSet(s) /\ \A y \in s : w[y] \in Nat
    BY FS_Subset
  <2>2. PICK u : u = s \ {x}
    OBVIOUS
  <2>3. /\ Total(w, s) = w[x] + Total(w, u) /\ Cardinality(s) \in Nat
        /\ Cardinality(u) = Cardinality(s) - 1
    BY <2>1, <2>2, TotalStep, FS_RemoveElement, FS_CardinalityType
  <2>4. Total(w, u) \in Nat
    BY <2>1, <2>2, TotalStep, FS_Subset
  <2>5. Cardinality(u) <= Total(w, u) /\ w[x] >= 1 /\ w[x] \in Nat
    BY <1>1, <1>3, <2>2
  <2> QED
    BY <1>1, <2>3, <2>4, <2>5
<1>4. \A s \in SUBSET S : s \in P
  BY <1>2, <1>3, SetInduction
<1> QED
  BY <1>1, <1>4

\* A sum that is not given by a function.
LEMMA SumsAgree ==
  ASSUME NEW S, IsFiniteSet(S), NEW w, w = [b \in S |-> key[b][1]]
  PROVE  MapThenSumSet(LAMBDA b : key[b][1], S) = Total(w, S)
<1>1. PICK f : Adds(f, w, S)
  BY AddsExists
<1>2. PICK g : g = CHOOSE h : h = [s \in SUBSET S |-> IF s = {} THEN 0
                       ELSE key[CHOOSE x \in s : TRUE][1] + h[s \ {CHOOSE x \in s : TRUE}]]
  OBVIOUS
<1>3. MapThenSumSet(LAMBDA b : key[b][1], S) = g[S]
  BY <1>2 DEF MapThenSumSet, MapThenFoldSet
<1>4. ASSUME NEW h PROVE
        h = [s \in SUBSET S |-> IF s = {} THEN 0
                 ELSE key[CHOOSE x \in s : TRUE][1] + h[s \ {CHOOSE x \in s : TRUE}]]
        <=> Adds(h, w, S)
  <2>1. PICK h1 : h1 = [s \in SUBSET S |-> IF s = {} THEN 0
                 ELSE key[First(s)][1] + h[s \ {First(s)}]]
    OBVIOUS
  <2>2. PICK h2 : h2 = [s \in SUBSET S |-> IF s = {} THEN 0
                 ELSE w[First(s)] + h[s \ {First(s)}]]
    OBVIOUS
  <2>3. \A s \in SUBSET S : s # {} => First(s) \in S
    BY DEF First
  <2>4. DOMAIN h1 = SUBSET S /\ DOMAIN h2 = SUBSET S
    BY <2>1, <2>2
  <2>5. \A s \in SUBSET S : h1[s] = h2[s]
    BY <2>1, <2>2, <2>3
  <2>6. h1 = [s \in SUBSET S |-> h1[s]] /\ h2 = [s \in SUBSET S |-> h2[s]]
    BY <2>1, <2>2
  <2>7. h1 = h2
    BY <2>5, <2>6
  <2> QED
    BY <2>1, <2>2, <2>7 DEF Adds, First
<1>5. Adds(g, w, S)
  <2>1. \E h : h = [s \in SUBSET S |-> IF s = {} THEN 0
                 ELSE key[CHOOSE x \in s : TRUE][1] + h[s \ {CHOOSE x \in s : TRUE}]]
    <3>1. f = [s \in SUBSET S |-> IF s = {} THEN 0
                 ELSE key[CHOOSE x \in s : TRUE][1] + f[s \ {CHOOSE x \in s : TRUE}]]
      BY <1>1, <1>4, Zenon
    <3> QED
      BY <3>1, Zenon
  <2>2. g = [s \in SUBSET S |-> IF s = {} THEN 0
                 ELSE key[CHOOSE x \in s : TRUE][1] + g[s \ {CHOOSE x \in s : TRUE}]]
    BY <1>2, <2>1, Zenon
  <2> QED
    BY <1>4, <2>2
<1>6. S \in SUBSET S /\ g[S] = f[S]
  BY <1>1, <1>5, AddsUnique
<1>7. Total(w, S) = f[S]
  BY <1>1, TotalIs
<1> QED
  BY <1>3, <1>6, <1>7

-----------------------------------------------------------------------------
(* How much memory the device has handed out.                              *)

Finite == IsFiniteSet(Live) /\ IsFiniteSet(DOMAIN held)

\* The device has handed out what buffers of their size, and slots of theirs, need.
OwnersSized == \A b \in DOMAIN key : Own \in DOMAIN bufs[b] => held[bufs[b][Own]] = key[b][1]
SlotsSized  == \A k \in Key : \A i \in DOMAIN cache[k] : held[cache[k][i]] = k[1]

SizeInv == Finite /\ OwnersSized /\ SlotsSized

LEMMA SizeInvInit == Init => SizeInv
<1> SUFFICES ASSUME Init PROVE SizeInv
  OBVIOUS
<1>1. DOMAIN key = {} /\ DOMAIN bufs = {} /\ DOMAIN held = {} /\ cache = [k \in Key |-> <<>>]
  BY DEF Init, Empty, NoCache
<1>2. \A k \in Key : DOMAIN cache[k] = {}
  BY <1>1
<1> QED
  BY <1>1, <1>2, FS_EmptySet DEF SizeInv, Finite, OwnersSized, SlotsSized, Live

\* A buffer with memory had the same memory before.
Stays(c) ==
  Own \in DOMAIN bufs'[c] =>
    c \in DOMAIN key /\ key'[c] = key[c] /\ Own \in DOMAIN bufs[c] /\ bufs'[c][Own] = bufs[c][Own]

LEMMA SizesStay ==
  ASSUME SizeInv, UNCHANGED <<cache, held>>, NEW x, Live' \subseteq Live \cup {x},
         \A c \in DOMAIN key' : Stays(c)
  PROVE  SizeInv'
<1>1. Finite'
  BY StillFinite DEF SizeInv, Finite
<1>2. OwnersSized'
  BY DEF SizeInv, OwnersSized, Stays
<1>3. SlotsSized'
  BY DEF SizeInv, SlotsSized
<1> QED
  BY <1>1, <1>2, <1>3 DEF SizeInv

\* What alloc returns has the size asked for.
Sized(got, n) ==
  /\ IsFiniteSet(DOMAIN got.held) /\ got.held[got.mem] = n
  /\ \A m \in DOMAIN got.held \ {got.mem} : m \in DOMAIN held /\ got.held[m] = held[m]

LEMMA AllocIsSized ==
  ASSUME MemoryInv, SizeInv, NEW k \in Key, NEW got \in Allocs(k)
  PROVE  Sized(got, k[1])
<1>1. CacheTypes /\ Finite /\ SlotsSized
  BY DEF MemoryInv, SizeInv
<1>2. CASE cache[k] # <<>>
  <2>1. got = [mem |-> Last(cache[k]), cache |-> [cache EXCEPT ![k] = Front(@)], held |-> held]
    BY <1>2 DEF Allocs
  <2>2. got.mem = Last(cache[k]) /\ got.held = held
    BY <2>1
  <2>3. PICK s : s = cache[k] /\ s \in Seq(Memory) /\ s # <<>>
    BY <1>1, <1>2 DEF CacheTypes
  <2>4. Len(s) \in DOMAIN s /\ got.mem = s[Len(s)]
    BY <2>2, <2>3 DEF Last
  <2>5. held[got.mem] = k[1]
    BY <1>1, <2>3, <2>4 DEF SlotsSized
  <2> QED
    BY <1>1, <2>2, <2>5 DEF Sized, Finite
<1>3. CASE cache[k] = <<>>
  <2>1. PICK after : after = Retry(k)
    OBVIOUS
  <2>2. /\ DOMAIN after.held \subseteq DOMAIN held
        /\ \A m \in DOMAIN after.held : after.held[m] = held[m]
    BY <2>1 DEF Retry, Untouched, FreeCache, Less
  <2>3. PICK m \in Memory \ DOMAIN after.held :
          got = [mem |-> m, cache |-> after.cache, held |-> With(after.held, m, k[1])]
    BY <1>3, <2>1 DEF Allocs
  <2>4. got.mem = m /\ got.held = With(after.held, m, k[1])
    BY <2>3
  <2>5. /\ DOMAIN got.held = DOMAIN after.held \cup {m} /\ got.held[m] = k[1]
        /\ \A x \in DOMAIN after.held : got.held[x] = after.held[x]
    BY <2>3, <2>4 DEF With
  <2>6. IsFiniteSet(DOMAIN got.held)
    <3>1. IsFiniteSet(DOMAIN after.held)
      BY <1>1, <2>2, FS_Subset DEF Finite
    <3> QED
      BY <2>5, <3>1, FS_AddElement
  <2> QED
    BY <2>2, <2>4, <2>5, <2>6 DEF Sized
<1> QED
  BY <1>2, <1>3

LEMMA EnsureKeepsSizes ==
  ASSUME MemoryInv, SizeInv, NEW o \in Live, Ensure(o)
  PROVE  SizeInv'
<1>1. ObjectTypes /\ OwnedOrCached /\ OwnersSized /\ SlotsSized /\ Finite
  BY DEF MemoryInv, OwnerInv, SizeInv
<1>2. PICK b : b = BaseOf(o)
  OBVIOUS
<1>3. /\ b \in DOMAIN key /\ b \in Live /\ \A c \in DOMAIN key : c \in Live /\ c \notin View
      /\ o \notin View => o = b
      /\ o \in View => o \notin DOMAIN key
  BY <1>1, <1>2, OwnBase DEF BaseOf
<1>4. key' = key
  BY <1>1, EnsurePlaces DEF objects
<1>5. ASSUME NEW mem, Placed(o, mem)
      PROVE  /\ Live' = Live /\ bufs'[b] = With(bufs[b], Own, mem)
             /\ \A c \in DOMAIN key \ {b} : bufs'[c] = bufs[c]
  BY <1>2, <1>3, <1>5 DEF Placed, Live
<1>6. CASE Allocated(o)
  <2>1. Placed(o, bufs[b][Own]) /\ UNCHANGED <<cache, held>>
    BY <1>1, <1>2, <1>6, EnsurePlaces
  <2>2. Own \in DOMAIN bufs[b]
    BY <1>2, <1>6 DEF Allocated
  <2>3. bufs'[b][Own] = bufs[b][Own]
    BY <1>5, <2>1 DEF With
  <2>4. \A c \in DOMAIN key' : Stays(c)
    BY <1>4, <1>5, <2>1, <2>2, <2>3 DEF Stays
  <2> QED
    BY <1>5, <2>1, <2>4, SizesStay
<1>7. CASE ~Allocated(o)
  <2>1. PICK got \in Allocs(key[b]) :
          Placed(o, got.mem) /\ cache' = got.cache /\ held' = got.held
    BY <1>1, <1>2, <1>7, EnsurePlaces
  <2>2. key[b] \in Key
    BY <1>1, <1>3 DEF ObjectTypes
  <2>3. Obtained(got) /\ Sized(got, key[b][1])
    BY <2>1, <2>2, AllocObtains, AllocIsSized
  <2>4. bufs'[b][Own] = got.mem
    BY <1>5, <2>1 DEF With
  <2>5. Finite'
    BY <1>1, <1>5, <2>1, <2>3 DEF Finite, Sized
  <2>6. OwnersSized'
    <3> SUFFICES ASSUME NEW c \in DOMAIN key, Own \in DOMAIN bufs'[c]
                 PROVE  held'[bufs'[c][Own]] = key[c][1]
      BY <1>4 DEF OwnersSized
    <3>1. CASE c = b
      BY <2>1, <2>3, <2>4, <3>1 DEF Sized
    <3>2. CASE c # b
      <4>1. bufs'[c] = bufs[c] /\ Own \in DOMAIN bufs[c]
        BY <1>5, <2>1, <3>2
      <4>2. bufs[c][Own] # got.mem /\ bufs[c][Own] \in DOMAIN got.held
        BY <2>3, <4>1 DEF Obtained
      <4> QED
        BY <1>1, <2>1, <2>3, <4>1, <4>2 DEF OwnersSized, Sized
    <3> QED
      BY <3>1, <3>2
  <2>7. SlotsSized'
    <3> SUFFICES ASSUME NEW k \in Key, NEW i \in DOMAIN got.cache[k]
                 PROVE  got.held[got.cache[k][i]] = k[1]
      BY <2>1 DEF SlotsSized
    <3>1. /\ i \in DOMAIN cache[k] /\ got.cache[k][i] = cache[k][i]
          /\ got.cache[k][i] # got.mem /\ got.cache[k][i] \in DOMAIN got.held
      BY <2>3 DEF Obtained
    <3> QED
      BY <1>1, <2>3, <3>1 DEF SlotsSized, Sized
  <2> QED
    BY <2>5, <2>6, <2>7 DEF SizeInv
<1> QED
  BY <1>6, <1>7

LEMMA EnsureFailsKeepsSizes ==
  ASSUME MemoryInv, SizeInv, NEW o \in Live, EnsureFails(o)
  PROVE  SizeInv'
<1>1. Finite /\ OwnersSized
  BY DEF SizeInv
<1>2. /\ key' = key /\ bufs' = bufs /\ cache' = FreeCache.cache /\ held' = FreeCache.held
  BY DEF EnsureFails, objects
<1>3. /\ cache' = [k \in Key |-> <<>>] /\ DOMAIN held' \subseteq DOMAIN held
      /\ \A b \in DOMAIN key : Own \in DOMAIN bufs[b] => bufs[b][Own] \in DOMAIN held'
  BY <1>2, CacheFreed
<1>4. \A m \in DOMAIN held' : held'[m] = held[m]
  BY <1>2 DEF FreeCache, Less
<1>5. Finite'
  BY <1>1, <1>2, <1>3, FS_Subset DEF Finite, Live
<1>6. OwnersSized'
  BY <1>1, <1>2, <1>3, <1>4 DEF OwnersSized
<1>7. \A k \in Key : DOMAIN cache'[k] = {}
  BY <1>3
<1> QED
  BY <1>5, <1>6, <1>7 DEF SizeInv, SlotsSized

\* A base buffer gives its memory back.
LEMMA SizesReleased ==
  ASSUME MemoryInv, SizeInv, NEW b \in DOMAIN key, Own \in DOMAIN bufs[b], GiveBack(b),
         NEW x, Live' \subseteq Live \cup {x},
         \A c \in DOMAIN key' : Stays(c), b \in DOMAIN key' => Own \notin DOMAIN bufs'[b]
  PROVE  SizeInv'
<1>1. /\ ObjectTypes /\ CacheTypes /\ OwnersApart /\ OwnedOrCached
      /\ Finite /\ OwnersSized /\ SlotsSized
  BY DEF MemoryInv, OwnerInv, SizeInv
<1>2. PICK mem : mem = bufs[b][Own]
  OBVIOUS
<1>3. /\ DOMAIN held' \subseteq DOMAIN held
      /\ \A k \in Key : \A i \in DOMAIN cache'[k] : cache'[k][i] \in DOMAIN held'
      /\ \A m : m \in DOMAIN held => m = mem \/ m \in DOMAIN held'
      /\ \A k \in Key : \A i \in DOMAIN cache'[k] :
           cache'[k][i] = mem \/ (i \in DOMAIN cache[k] /\ cache'[k][i] = cache[k][i])
  BY <1>2, MemoryGoes DEF CachedIsHeld
<1>4. \A m \in DOMAIN held' : held'[m] = held[m]
  BY DEF GiveBack, Less
<1>5. Finite'
  BY <1>1, <1>3, StillFinite, FS_Subset DEF Finite
<1>6. OwnersSized'
  <2> SUFFICES ASSUME NEW c \in DOMAIN key', Own \in DOMAIN bufs'[c]
               PROVE  held'[bufs'[c][Own]] = key'[c][1]
    BY DEF OwnersSized
  <2>1. /\ c \in DOMAIN key /\ key'[c] = key[c] /\ Own \in DOMAIN bufs[c]
        /\ bufs'[c][Own] = bufs[c][Own] /\ c # b
    BY DEF Stays
  <2>2. bufs[c][Own] # mem /\ bufs[c][Own] \in DOMAIN held
    BY <1>1, <1>2, <2>1 DEF OwnersApart, OwnedOrCached
  <2>3. held'[bufs[c][Own]] = held[bufs[c][Own]]
    BY <1>3, <1>4, <2>2
  <2> QED
    BY <1>1, <2>1, <2>3 DEF OwnersSized
<1>7. SlotsSized'
  <2>1. CASE key[b][2] \in NoLRU
    <3>1. cache' = cache
      BY <2>1 DEF GiveBack
    <3> QED
      BY <1>1, <1>3, <1>4, <3>1 DEF SlotsSized
  <2>2. CASE key[b][2] \notin NoLRU
    <3>1. cache' = [cache EXCEPT ![key[b]] = Append(@, mem)] /\ held' = held /\ key[b] \in Key
      BY <1>1, <1>2, <2>2 DEF GiveBack, ObjectTypes
    <3>2. held[mem] = key[b][1]
      BY <1>1, <1>2 DEF OwnersSized
    <3> SUFFICES ASSUME NEW k \in Key, NEW i \in DOMAIN cache'[k]
                 PROVE  held[cache'[k][i]] = k[1]
      BY <3>1 DEF SlotsSized
    <3>3. CASE k = key[b]
      <4>1. PICK s : s = cache[k] /\ s \in Seq(Memory)
        BY <1>1 DEF CacheTypes
      <4>2. cache'[k] = Append(s, mem)
        BY <1>1, <3>1, <3>3, <4>1 DEF CacheTypes
      <4>3. cache'[k][i] = mem \/ (i \in DOMAIN s /\ cache'[k][i] = s[i])
        BY <4>1, <4>2
      <4> QED
        BY <1>1, <3>2, <3>3, <4>1, <4>3 DEF SlotsSized
    <3>4. CASE k # key[b]
      BY <1>1, <3>1, <3>4 DEF SlotsSized, CacheTypes
    <3> QED
      BY <3>3, <3>4
  <2> QED
    BY <2>1, <2>2
<1> QED
  BY <1>5, <1>6, <1>7 DEF SizeInv

LEMMA ObjectsKeepSizes ==
  ASSUME MemoryInv, SizeInv, NEW o,
         \/ \E k \in Key : NewBase(o, k)
         \/ \E x \in Live : NewView(o, x)
         \/ o \in Live /\ \E p \in Peer : GetBuf(o, p)
  PROVE  SizeInv'
<1>1. ObjectTypes
  BY DEF MemoryInv
<1>2. ASSUME NEW k \in Key, NewBase(o, k) PROVE SizeInv'
  <2>1. /\ o \notin Live /\ key' = With(key, o, k) /\ bufs' = With(bufs, o, Empty)
        /\ UNCHANGED <<cache, held>>
    BY <1>2 DEF NewBase
  <2>2. Live' \subseteq Live \cup {o} /\ \A c \in DOMAIN key' : Stays(c)
    BY <1>1, <2>1 DEF With, Empty, Live, Stays, ObjectTypes
  <2> QED
    BY <2>1, <2>2, SizesStay
<1>3. ASSUME NEW x \in Live, NewView(o, x) PROVE SizeInv'
  <2>1. /\ o \notin Live /\ key' = key /\ bufs' = With(bufs, o, Empty) /\ UNCHANGED <<cache, held>>
    BY <1>3 DEF NewView
  <2>2. Live' \subseteq Live \cup {o} /\ \A c \in DOMAIN key' : Stays(c)
    BY <1>1, <2>1 DEF With, Empty, Live, Stays, ObjectTypes
  <2> QED
    BY <2>1, <2>2, SizesStay
<1>4. ASSUME o \in Live, NEW p \in Peer, GetBuf(o, p) PROVE SizeInv'
  <2>1. PICK b : b = BaseOf(o)
    OBVIOUS
  <2>2. PICK at : /\ p # Own /\ Own \in DOMAIN bufs[b] /\ DOMAIN bufs' = Live /\ at = bufs[b][Own]
                  /\ bufs'[b] = With(bufs[b], p, at) /\ bufs'[o] = With(bufs[o], p, at)
                  /\ \A x \in Live \ {o, b} : bufs'[x] = bufs[x]
    BY <1>4, <2>1, GetBufPlaces
  <2>3. key' = key /\ UNCHANGED <<cache, held>>
    BY <1>4 DEF GetBuf, objects
  <2>4. \A x \in Live : bufs'[x] = bufs[x] \/ bufs'[x] = With(bufs[x], p, at)
    BY <2>2
  <2>5. \A x \in Live : Own \in DOMAIN bufs'[x] =>
          Own \in DOMAIN bufs[x] /\ bufs'[x][Own] = bufs[x][Own]
    BY <2>2, <2>4 DEF With
  <2>6. Live' = Live /\ \A c \in DOMAIN key' : Stays(c)
    BY <1>1, <2>2, <2>3, <2>5 DEF Live, Stays, ObjectTypes
  <2> QED
    BY <2>3, <2>6, SizesStay
<1> QED
  BY <1>2, <1>3, <1>4

LEMMA CollectKeepsSizes ==
  ASSUME MemoryInv, SizeInv, NEW o \in Live, Collect(o)
  PROVE  SizeInv'
<1>1. ObjectTypes
  BY DEF MemoryInv
<1>2. /\ key' = Less(key, {o}) /\ bufs' = Less(bufs, {o})
      /\ \/ o \in Base /\ Own \in DOMAIN bufs[o] /\ GiveBack(o)
         \/ ~(o \in Base /\ Own \in DOMAIN bufs[o]) /\ KeepMemory
  BY DEF Collect
<1>3. /\ Live' = Live \ {o} /\ o \notin DOMAIN key' /\ \A c \in DOMAIN key' : Stays(c)
  BY <1>1, <1>2 DEF Less, Live, Stays, ObjectTypes
<1>4. CASE o \in Base /\ Own \in DOMAIN bufs[o] /\ GiveBack(o)
  BY <1>1, <1>3, <1>4, SizesReleased DEF ObjectTypes
<1>5. CASE KeepMemory
  BY <1>3, <1>5, SizesStay DEF KeepMemory
<1> QED
  BY <1>2, <1>4, <1>5

LEMMA FreeNextKeepsSizes ==
  ASSUME MemoryInv, SizeInv, NEW o \in Live, FreeNext(o)
  PROVE  SizeInv'
<1>1. ObjectTypes
  BY DEF MemoryInv
<1>2. PICK b : b = BaseOf(o)
  OBVIOUS
<1>3. PICK left : left = allocated_views[b] - (IF o \in View /\ Initialized(o) THEN 1 ELSE 0)
  OBVIOUS
<1>4. PICK gone : gone = {x \in {o} : Initialized(x)} \cup {x \in {b} : Releases(o, left)}
  OBVIOUS
<1>5. /\ b \in gone => Own \in DOMAIN bufs[b]
      /\ DOMAIN bufs' = Live /\ \A x \in gone : DOMAIN bufs'[x] = {}
      /\ \A x \in Live \ gone : bufs'[x] = bufs[x]
      /\ key' = key
      /\ b \in gone => GiveBack(b)
      /\ b \notin gone => KeepMemory
  BY <1>2, <1>3, <1>4, FreeReleases
<1>6. /\ b \in DOMAIN key /\ Live' = Live /\ \A c \in DOMAIN key' : Stays(c)
  BY <1>1, <1>2, <1>5, OwnBase DEF Live, Stays
<1>7. CASE b \in gone
  BY <1>5, <1>6, <1>7, SizesReleased
<1>8. CASE b \notin gone
  BY <1>5, <1>6, <1>8, SizesStay DEF KeepMemory
<1> QED
  BY <1>7, <1>8

\* A step that is not about buffers.
LEMMA SizesUntouched ==
  ASSUME SizeInv, UNCHANGED <<objects, bufs, cache, held>>
  PROVE  SizeInv'
BY DEF SizeInv, Finite, OwnersSized, SlotsSized, Live, objects

LEMMA SizeStep == MemoryInv /\ JitInv /\ SizeInv /\ [Next]_vars => SizeInv'
<1> SUFFICES ASSUME MemoryInv, JitInv, SizeInv, [Next]_vars PROVE SizeInv'
  OBVIOUS
<1>1. host.todo \subseteq Live
  BY TodoLives
<1>2. ASSUME NEW o \in Live, Allocate(o) \/ Collect(o) PROVE SizeInv'
  BY <1>2, EnsureKeepsSizes, EnsureFailsKeepsSizes, CollectKeepsSizes DEF Allocate
<1>3. ASSUME NEW o \in host.todo, BuildNext(o) PROVE SizeInv'
  BY <1>1, <1>3, EnsureKeepsSizes, EnsureFailsKeepsSizes, SizesUntouched DEF BuildNext
<1>4. ASSUME NEW o \in host.todo, FreeNext(o) PROVE SizeInv'
  BY <1>1, <1>4, FreeNextKeepsSizes
<1>5. ASSUME NEW j \in Jit, NEW writes \in (SUBSET Live) \ {{}}, Capture(j, writes) PROVE SizeInv'
  BY <1>5, SizesUntouched DEF Capture
<1>6. ASSUME NEW j \in DOMAIN written, Discard(j) \/ Replay(j) \/ FreeIntermediates(j)
      PROVE  SizeInv'
  BY <1>6, SizesUntouched DEF Discard, Replay, FreeIntermediates
<1>7. ASSUME BuildEnd PROVE SizeInv'
  BY <1>7, SizesUntouched DEF BuildEnd
<1>8. CASE UNCHANGED vars
  BY <1>8, SizesUntouched DEF vars, objects
<1> QED
  BY <1>2, <1>3, <1>4, <1>5, <1>6, <1>7, <1>8, ObjectsKeepSizes DEF Next

\* The bytes of finitely many pieces of memory.
LEMMA BytesOf ==
  ASSUME NEW h, IsFiniteSet(DOMAIN h), \A m \in DOMAIN h : h[m] \in Nat \ {0}
  PROVE  Bytes(h) = Total(h, DOMAIN h) /\ Bytes(h) \in Nat /\ Cardinality(DOMAIN h) <= Bytes(h)
<1>1. Bytes(h) = Total(h, DOMAIN h)
  BY DEF Bytes, Total
<1>2. \A m \in DOMAIN h : h[m] \in Nat
  OBVIOUS
<1> QED
  BY <1>1, <1>2, TotalStep, TotalAtLeast

\* When memory fits, there is an address for it.
LEMMA AddressLeft ==
  ASSUME NEW h, IsFiniteSet(DOMAIN h), \A m \in DOMAIN h : h[m] \in Nat \ {0},
         DOMAIN h \subseteq Memory, NEW k \in Key, Fits(h, k)
  PROVE  \E m \in Memory \ DOMAIN h : TRUE
<1>1. Bytes(h) \in Nat /\ Cardinality(DOMAIN h) <= Bytes(h) /\ Cardinality(DOMAIN h) \in Nat
  BY BytesOf, FS_CardinalityType
<1>2. k[1] \in Nat \ {0} /\ Capacity \in Nat
  BY BuffersAssumption DEF Key
<1>3. Cardinality(DOMAIN h) < Capacity
  BY <1>1, <1>2 DEF Fits
<1>4. ASSUME DOMAIN h = Memory PROVE FALSE
  BY <1>1, <1>2, <1>3, <1>4, BuffersAssumption
<1> QED
  BY <1>4

\* The memory of the buffers in use adds up to their sizes.
LEMMA BytesInUse ==
  ASSUME MemoryInv, SizeInv, NEW h, h = FreeCache.held,
         NEW inUse, inUse = {b \in DOMAIN key : Allocated(b)}
  PROVE  Bytes(h) = MapThenSumSet(LAMBDA b : key[b][1], inUse)
<1>1. ObjectTypes /\ OwnersApart /\ Finite /\ OwnersSized
  BY DEF MemoryInv, OwnerInv, SizeInv
<1>2. inUse = {b \in DOMAIN key : Own \in DOMAIN bufs[b]} /\ inUse \subseteq Live
  BY <1>1, OwnBase DEF Allocated
<1>3. /\ DOMAIN h \subseteq DOMAIN held
      /\ \A b \in inUse : bufs[b][Own] \in DOMAIN h
      /\ \A m \in DOMAIN h : \E b \in inUse : bufs[b][Own] = m
      /\ \A m \in DOMAIN h : h[m] = held[m]
  BY <1>2, CacheFreed DEF FreeCache, Less
<1>4. IsFiniteSet(inUse) /\ IsFiniteSet(DOMAIN h)
  BY <1>1, <1>2, <1>3, FS_Subset DEF Finite
<1>5. PICK w, at : w = [b \in inUse |-> key[b][1]] /\ at = [b \in inUse |-> bufs[b][Own]]
  OBVIOUS
<1>6. \A b \in inUse : w[b] \in Nat \ {0} /\ at[b] \in DOMAIN h /\ h[at[b]] = w[b]
  BY <1>1, <1>2, <1>3, <1>5, BuffersAssumption DEF OwnersSized, ObjectTypes, Key
<1>7. \A m \in DOMAIN h : \E b \in inUse : at[b] = m
  BY <1>3, <1>5
<1>8. \A m \in DOMAIN h : h[m] \in Nat \ {0}
  BY <1>6, <1>7
<1>9. \A b \in inUse : \A c \in inUse : at[b] = at[c] => b = c
  BY <1>1, <1>2, <1>5 DEF OwnersApart
<1>10. Total(w, inUse) = Total(h, DOMAIN h)
  <2>1. /\ \A b \in inUse : w[b] \in Nat
        /\ \A m \in DOMAIN h : h[m] \in Nat
        /\ \A b \in inUse : at[b] \in DOMAIN h /\ h[at[b]] = w[b]
    BY <1>6, <1>8
  <2> QED
    BY <1>4, <1>7, <1>9, <2>1, TotalMapped
<1>11. MapThenSumSet(LAMBDA b : key[b][1], inUse) = Total(w, inUse)
  BY <1>4, <1>5, SumsAgree
<1> QED
  BY <1>4, <1>8, <1>10, <1>11, BytesOf

LEMMA FullWhenFailing == MemoryInv /\ SizeInv => FailsOnlyWhenFull
<1> SUFFICES ASSUME MemoryInv, SizeInv,
                    NEW inUse, inUse = {b \in DOMAIN key : Allocated(b)},
                    NEW k \in Key, Allocs(k) = {}
             PROVE  MapThenSumSet(LAMBDA b : key[b][1], inUse) + k[1] > Capacity
  BY DEF FailsOnlyWhenFull
<1>1. /\ ObjectTypes /\ CacheTypes /\ HeldIsKnown /\ Finite /\ OwnersSized /\ SlotsSized
  BY DEF MemoryInv, OwnerInv, SizeInv
<1>2. \A m \in DOMAIN held : held[m] \in Nat \ {0}
  <2>1. \A l \in Key : l[1] \in Nat \ {0}
    BY BuffersAssumption DEF Key
  <2> QED
    BY <1>1, <2>1 DEF HeldIsKnown, OwnersSized, SlotsSized, ObjectTypes
<1>3. PICK after : after = Retry(k)
  OBVIOUS
<1>4. /\ DOMAIN after.held \subseteq DOMAIN held
      /\ \A m \in DOMAIN after.held : after.held[m] = held[m]
  BY <1>3 DEF Retry, Untouched, FreeCache, Less
<1>5. IsFiniteSet(DOMAIN after.held) /\ DOMAIN after.held \subseteq Memory
      /\ \A m \in DOMAIN after.held : after.held[m] \in Nat \ {0}
  BY <1>1, <1>2, <1>4, FS_Subset DEF Finite, CacheTypes
<1>6. ~Fits(after.held, k)
  <2> SUFFICES ASSUME Fits(after.held, k) PROVE FALSE
    OBVIOUS
  <2>1. PICK m \in Memory \ DOMAIN after.held : TRUE
    BY <1>5, AddressLeft
  <2>2. cache[k] = <<>>
    BY DEF Allocs
  <2>3. [mem |-> m, cache |-> after.cache, held |-> With(after.held, m, k[1])] \in Allocs(k)
    BY <1>3, <2>1, <2>2 DEF Allocs
  <2> QED
    BY <2>3
<1>7. after.held = FreeCache.held
  BY <1>3, <1>6 DEF Retry, Untouched
<1>8. Bytes(after.held) = MapThenSumSet(LAMBDA b : key[b][1], inUse)
  BY <1>7, BytesInUse
<1>9. Bytes(after.held) \in Nat /\ k[1] \in Nat /\ Capacity \in Nat
  BY <1>5, BytesOf, BuffersAssumption DEF Key
<1>10. ~(Bytes(after.held) + k[1] <= Capacity)
  BY <1>6 DEF Fits
<1>11. Bytes(after.held) + k[1] > Capacity
  BY <1>9, <1>10
<1> QED
  BY <1>8, <1>11

\* MemoryError is raised only when the buffers in use leave no room: no memory is lost, and
\* neither the cache nor a lack of addresses stands in the way (device.py:537-543).
THEOREM FailsWhenFullOnly == Spec => []FailsOnlyWhenFull
<1>1. Init => MemoryInv /\ JitInv /\ SizeInv
  BY InvInit, SizeInvInit
<1>2. MemoryInv /\ JitInv /\ SizeInv /\ [Next]_vars => (MemoryInv /\ JitInv /\ SizeInv)'
  BY InvStep, SizeStep
<1> QED
  BY <1>1, <1>2, FullWhenFailing, PTL DEF Spec
=============================================================================
