--------------------------- MODULE DeviceBuffers ---------------------------
(***************************************************************************)
(* Buffer and LRUAllocator of tinygrad/device.py for one device: base        *)
(* buffers own memory, views share that of their base, memory given back is  *)
(* cached by its size and options, and peers map a buffer they are passed.   *)
(* A captured JIT keeps the buffers it writes, its graph remembers where     *)
(* they are, and free_intermediates (tinygrad/engine/jit.py) gives them      *)
(* back.                                                                     *)
(*                                                                         *)
(* The host is one thread.  A replay and free_intermediates take several     *)
(* steps, one for each buffer, in the order of a set or of the calls.        *)
(***************************************************************************)
EXTENDS Integers, FiniteSetsExt, SequencesExt

CONSTANTS
  Base, View,     \* the Buffer objects: those without and with a _base
  Memory,         \* what _alloc returns
  Peer,           \* the other devices
  Jit,            \* the captured JITs
  Size, Options,  \* the sizes and options of buffers
  NoLRU,          \* the options that are not cached
  Capacity,       \* bytes of the device
  Shared          \* whether intermediates are freed that something else refers to

Own == "own"      \* self.device

ASSUME BuffersAssumption ==
  /\ Size \subseteq Nat \ {0} /\ Capacity \in Nat /\ NoLRU \subseteq Options
  /\ IsFiniteSet(Memory) => Cardinality(Memory) >= Capacity  \* there is an address for every byte
  /\ Base \cap View = {} /\ Own \notin Peer /\ Shared \in BOOLEAN

VARIABLES
  key,              \* the size and options of each base buffer that exists
  base,             \* _base of each view that exists
  bufs,             \* _bufs of each of them, from devices to memory
  allocated_views,  \* of each base buffer
  cache,            \* the allocator's cache
  held,             \* the memory the device has handed out, and its size
  maps,             \* the mappings for peers that exist
  written,          \* _written_uops of each captured JIT, as Buffer objects
  graph,            \* graph_cache: where a graph was told its buffers are
  host              \* the call the host is in, and the buffers it has yet to visit

objects == <<key, base>>
jits == <<written, graph>>
vars == <<key, base, bufs, allocated_views, cache, held, maps, written, graph, host>>

Key == Size \X Options
Live == DOMAIN bufs
BaseOf(o) == IF o \in View THEN base[o] ELSE o

Empty == [x \in {} |-> 0]
NoCache == [k \in Key |-> <<>>]
NoJit == "none"
Idle == [op |-> "idle", jit |-> NoJit, todo |-> {}]
With(f, x, val) == [y \in DOMAIN f \cup {x} |-> IF y = x THEN val ELSE f[y]]
Less(f, S) == [y \in DOMAIN f \ S |-> f[y]]

Init ==
  /\ key = Empty /\ base = Empty /\ bufs = Empty /\ allocated_views = Empty
  /\ cache = NoCache /\ held = Empty /\ maps = {}
  /\ written = Empty /\ graph = Empty /\ host = Idle

-----------------------------------------------------------------------------
\* is_allocated and is_initialized
Allocated(o) == Own \in DOMAIN bufs[BaseOf(o)]
Initialized(o) == Allocated(o) /\ Own \in DOMAIN bufs[o]

Cached == {m \in Memory : \E k \in Key : m \in Range(cache[k])}
Bytes(h) == MapThenSumSet(LAMBDA m : h[m], DOMAIN h)
Fits(h, k) == Bytes(h) + k[1] <= Capacity

FreeCacheMutant == [cache |-> cache, held |-> Less(held, Cached)]
\* The cache and the device's memory after free_cache.
FreeCache == [cache |-> NoCache, held |-> Less(held, Cached)]
Untouched == [cache |-> cache, held |-> held]

RetryMutant(k) == Untouched
\* What alloc asks the device with: as things are or, when that fails, without the cache.
Retry(k) == IF Fits(held, k) THEN Untouched ELSE FreeCache

\* alloc of LRUAllocator: the memory it may return, and what that leaves.  With no
\* outcome it raises MemoryError.
Allocs(k) ==
  IF cache[k] # <<>>
  THEN {[mem |-> Last(cache[k]), cache |-> [cache EXCEPT ![k] = Front(@)], held |-> held]}
  ELSE LET after == Retry(k)
       IN  {[mem |-> m, cache |-> after.cache, held |-> With(after.held, m, k[1])] :
              m \in {x \in Memory \ DOMAIN after.held : Fits(after.held, k)}}

\* What allocate and deallocate do to the counts of views.
Counted(o) ==
  IF o \in View THEN [allocated_views EXCEPT ![base[o]] = @ + 1] ELSE allocated_views

\* ensure_allocated: a view allocates its base first.
Ensure(o) ==
  /\ ~Initialized(o)
  /\ LET b == BaseOf(o)
     IN  \E got \in IF Allocated(o) THEN {[mem |-> bufs[b][Own], cache |-> cache, held |-> held]}
                    ELSE Allocs(key[b]) :
           /\ bufs' = With(With(bufs, b, With(bufs[b], Own, got.mem)),
                           o, With(bufs[o], Own, got.mem))
           /\ cache' = got.cache /\ held' = got.held
  /\ allocated_views' = Counted(o)
  /\ UNCHANGED <<objects, maps, jits>>

\* ensure_allocated raises MemoryError.
EnsureFails(o) ==
  /\ ~Allocated(o) /\ Allocs(key[BaseOf(o)]) = {}
  /\ cache' = FreeCache.cache /\ held' = FreeCache.held
  /\ UNCHANGED <<objects, bufs, allocated_views, maps, jits>>

\* The mappings that are left when deallocate has called _unmap.
Unmapped(b) == maps \ {<<p, bufs[b][p]>> : p \in DOMAIN bufs[b]}

\* deallocate of a base buffer, but for its _bufs: unmapped by the peers, then its memory
\* goes to the cache or, with options that are not cached, back to the device.
GiveBack(b) ==
  LET mem == bufs[b][Own]
  IN  /\ maps' = Unmapped(b)
      /\ IF key[b][2] \in NoLRU THEN held' = Less(held, {mem}) /\ UNCHANGED cache
         ELSE cache' = [cache EXCEPT ![key[b]] = Append(@, mem)] /\ UNCHANGED held
KeepMemory == UNCHANGED <<maps, cache, held>>

-----------------------------------------------------------------------------
NewBase(b, k) ==
  /\ host = Idle /\ b \notin Live
  /\ key' = With(key, b, k)
  /\ bufs' = With(bufs, b, Empty) /\ allocated_views' = With(allocated_views, b, 0)
  /\ UNCHANGED <<base, cache, held, maps, jits, host>>

\* view: the base of a view's view is the same.
NewView(v, o) ==
  /\ host = Idle /\ v \notin Live /\ o \in Live
  /\ base' = With(base, v, BaseOf(o))
  /\ bufs' = With(bufs, v, Empty)
  /\ UNCHANGED <<key, allocated_views, cache, held, maps, jits, host>>

\* A kernel or a copy uses a buffer.
Allocate(o) == host = Idle /\ (Ensure(o) \/ EnsureFails(o)) /\ UNCHANGED host

\* get_buf for another device than the buffer's own; a view asks its base first.
GetBuf(o, p) ==
  /\ host = Idle /\ Initialized(o) /\ p \notin DOMAIN bufs[o]
  /\ LET b == BaseOf(o)
         known == p \in DOMAIN bufs[b]
         at == IF known THEN bufs[b][p] ELSE bufs[b][Own]
     IN  /\ maps' = IF known THEN maps ELSE maps \cup {<<p, at>>}
         /\ bufs' = With(With(bufs, b, With(bufs[b], p, at)), o, With(bufs[o], p, at))
  /\ UNCHANGED <<objects, allocated_views, cache, held, jits, host>>

\* __del__, once nothing refers to the object.
Collect(o) ==
  /\ host = Idle
  /\ \A j \in DOMAIN written : o \notin written[j]
  /\ o \in Base => \A v \in DOMAIN base : base[v] # o
  /\ bufs' = Less(bufs, {o})
  /\ key' = Less(key, {o}) /\ base' = Less(base, {o})
  /\ IF o \in Base
     THEN /\ allocated_views' = Less(allocated_views, {o})
          /\ IF Own \in DOMAIN bufs[o] THEN GiveBack(o) ELSE KeepMemory
     ELSE /\ allocated_views' =
               IF Own \in DOMAIN bufs[o] THEN [allocated_views EXCEPT ![base[o]] = @ - 1]
               ELSE allocated_views
          /\ KeepMemory
  /\ UNCHANGED <<jits, host>>

-----------------------------------------------------------------------------
\* A JIT is captured that writes these buffers.
Capture(j, writes) ==
  /\ host = Idle /\ j \notin DOMAIN written
  /\ written' = With(written, j, writes)
  /\ UNCHANGED <<objects, bufs, allocated_views, cache, held, maps, graph, host>>

Discard(j) ==
  /\ host = Idle
  /\ written' = Less(written, {j}) /\ graph' = Less(graph, {j})
  /\ UNCHANGED <<objects, bufs, allocated_views, cache, held, maps, host>>

\* A replay that finds no graph makes one; first every buffer is allocated.
Replay(j) ==
  /\ host = Idle /\ j \notin DOMAIN graph
  /\ host' = [op |-> "build", jit |-> j, todo |-> written[j]]
  /\ UNCHANGED <<objects, bufs, allocated_views, cache, held, maps, jits>>

BuildNext(o) ==
  /\ host.op = "build" /\ o \in host.todo
  /\ \/ /\ Ensure(o)
        /\ host' = [host EXCEPT !.todo = @ \ {o}]
     \/ /\ Initialized(o)
        /\ host' = [host EXCEPT !.todo = @ \ {o}]
        /\ UNCHANGED <<objects, bufs, allocated_views, cache, held, maps, jits>>
     \/ EnsureFails(o) /\ host' = Idle

\* The graph keeps the addresses of its buffers.
BuildEnd ==
  /\ host.op = "build" /\ host.todo = {}
  /\ graph' = With(graph, host.jit, [o \in written[host.jit] |-> bufs[o][Own]])
  /\ host' = Idle
  /\ UNCHANGED <<objects, bufs, allocated_views, cache, held, maps, written>>

\* Nothing but this JIT refers to what it writes: no view of a buffer it writes is in
\* use, and no other JIT writes the buffer or has written its base.
Private(j) ==
  /\ \A b \in written[j] \cap Base : allocated_views[b] = 0
  /\ \A k \in DOMAIN written \ {j} : written[k] \cap (written[j] \cup {BaseOf(o) : o \in written[j]}) = {}

GraphDroppedMutant(j) == graph
GraphDropped(j) == Less(graph, {j})

\* free_intermediates drops the graph first.
FreeIntermediates(j) ==
  /\ host = Idle /\ (Shared \/ Private(j))
  /\ graph' = GraphDropped(j)
  /\ host' = [op |-> "free", jit |-> j, todo |-> written[j]]
  /\ UNCHANGED <<objects, bufs, allocated_views, cache, held, maps, written>>

ReleasesMutant(o, left) == Allocated(o)
\* Whether an iteration deallocates the base buffer, where left views of it are in use.
Releases(o, left) == Allocated(o) /\ (o \in View => left = 0)

\* An iteration of its loop: the buffer and, when it was the last view, its base.
FreeNext(o) ==
  /\ host.op = "free" /\ o \in host.todo
  /\ LET b    == BaseOf(o)
         left == allocated_views[b] - (IF o \in View /\ Initialized(o) THEN 1 ELSE 0)
         gone == {x \in {o} : Initialized(x)} \cup {x \in {b} : Releases(o, left)}
     IN  /\ bufs' = [x \in Live |-> IF x \in gone THEN Empty ELSE bufs[x]]
         /\ allocated_views' = [allocated_views EXCEPT ![b] = left]
         /\ IF b \in gone THEN GiveBack(b) ELSE KeepMemory
  /\ host' = IF host.todo = {o} THEN Idle ELSE [host EXCEPT !.todo = @ \ {o}]
  /\ UNCHANGED <<objects, jits>>

Next ==
  \/ \E b \in Base, k \in Key : NewBase(b, k)
  \/ \E v \in View, o \in Live : NewView(v, o)
  \/ \E o \in Live : Allocate(o) \/ Collect(o)
  \/ \E o \in Live, p \in Peer : GetBuf(o, p)
  \/ \E j \in Jit, writes \in (SUBSET Live) \ {{}} : Capture(j, writes)
  \/ \E j \in DOMAIN written : Discard(j) \/ Replay(j) \/ FreeIntermediates(j)
  \/ \E o \in host.todo : BuildNext(o) \/ FreeNext(o)
  \/ BuildEnd

Spec == Init /\ [][Next]_vars

-----------------------------------------------------------------------------
Owners(m) == {b \in DOMAIN key : Own \in DOMAIN bufs[b] /\ bufs[b][Own] = m}
Slots(m) == UNION {{k} \X {i \in DOMAIN cache[k] : cache[k][i] = m} : k \in Key}

\* Memory the device has handed out belongs to one buffer or is cached once, and memory
\* it has taken back to nobody: no buffer is given another's (device.py:537-550).
MemoryHasOneOwner ==
  \A m \in Memory :
    Cardinality(Owners(m)) + Cardinality(Slots(m)) = IF m \in DOMAIN held THEN 1 ELSE 0

\* A view that passes is_initialized lies in the memory its base has now, on every
\* device that knows it, not in what the base had before it was given back (device.py:129).
ViewsAreFresh ==
  \A v \in DOMAIN base : Initialized(v) =>
    \A d \in DOMAIN bufs[v] : d \in DOMAIN bufs[base[v]] /\ bufs[v][d] = bufs[base[v]][d]

\* allocated_views says how many views use a base, also after an allocation has failed
\* between the base and the view (device.py:151-153): free_intermediates decides by it.
ViewsAreCounted ==
  \A b \in DOMAIN key :
    allocated_views[b] = Cardinality({v \in DOMAIN base : base[v] = b /\ Own \in DOMAIN bufs[v]})

\* MemoryError is raised only when the buffers in use leave no room: the cache never
\* stands in the way and no memory is lost (device.py:537-543).
FailsOnlyWhenFull ==
  LET inUse == {b \in DOMAIN key : Allocated(b)}
  IN  \A k \in Key :
        Allocs(k) = {} => MapThenSumSet(LAMBDA b : key[b][1], inUse) + k[1] > Capacity

\* A graph in the cache finds its buffers where they were when it was made: whatever
\* moved or gave back one of them has dropped the graph (jit.py:238-241).
GraphsAreFresh ==
  \A j \in DOMAIN graph : \A o \in DOMAIN graph[j] :
    Initialized(o) /\ graph[j][o] = bufs[o][Own]

\* Peers map only memory that its owner still has: nothing is cached or handed to
\* somebody else while another device can reach it (device.py:175-178).
OnlyOwnersAreMapped ==
  maps = UNION {{<<p, bufs[b][Own]>> : p \in DOMAIN bufs[b] \ {Own}} :
                 b \in {x \in DOMAIN key : Allocated(x)}}
=============================================================================
