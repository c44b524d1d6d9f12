-------------------------- MODULE MemoryPlan_proofs --------------------------
(***************************************************************************)
(* Proofs about MemoryPlan, on what TLSF_proofs says of its heaps, for      *)
(* schedules of any length over any buffers, sizes and lanes: lifetimes     *)
(* stay apart, heaps consistent, and no allocation fails.                   *)
(***************************************************************************)
EXTENDS MemoryPlan, TLSF_proofs

\* What a buffer is rounded up to
LEMMA RoundedIs ==
  ASSUME NEW n \in Nat \ {0}
  PROVE  NBytes(n) \in Nat \ {0} /\ n <= NBytes(n) /\ BlockSize <= NBytes(n)
<1>1. BlockSize \in Nat \ {0}
  BY TLSFAssumption
<1>2. NBytes(n) \in Nat /\ n <= NBytes(n) /\ \E k \in Nat : NBytes(n) = BlockSize * k
  BY <1>1, AlignUpIs DEF NBytes
<1>3. PICK k \in Nat, x \in Nat : x = NBytes(n) /\ x = BlockSize * k
  BY <1>2
<1>4. x # 0 /\ BlockSize * 0 = 0 /\ BlockSize * 1 = BlockSize
  BY <1>1, <1>2, <1>3
<1>5. 1 <= k
  BY <1>3, <1>4
<1>6. BlockSize * 1 <= BlockSize * k
  BY <1>1, <1>5, Multiply
<1> QED
  BY <1>2, <1>3, <1>4, <1>6

-----------------------------------------------------------------------------
(* Induction over the subsets of a finite set, from the well-foundedness   *)
(* of inclusion, and sums over finite sets.                                *)

LEMMA SmallestSet ==
  ASSUME NEW S, IsFiniteSet(S), NEW T \in SUBSET SUBSET S, T # {}
  PROVE  \E s \in T : \A t \in T : t \subseteq s => t = s
<1>1. T \subseteq FiniteSubsetsOf(S)
  BY FS_Subset DEF FiniteSubsetsOf
<1>2. IsWellFoundedOn(StrictSubsetOrdering(S), FiniteSubsetsOf(S))
  BY FS_StrictSubsetOrderingWellFounded
<1>3. PICK s \in T : \A t \in T : <<t, s>> \notin StrictSubsetOrdering(S)
  BY <1>1, <1>2, WFMin
<1>4. ASSUME NEW t \in T, t \subseteq s, t # s PROVE FALSE
  <2>1. <<t, s>> \in (SUBSET S) \X (SUBSET S) /\ <<t, s>>[1] = t /\ <<t, s>>[2] = s
    OBVIOUS
  <2>2. <<t, s>> \in StrictSubsetOrdering(S)
    BY <1>4, <2>1 DEF StrictSubsetOrdering
  <2> QED
    BY <1>3, <2>2
<1> QED
  BY <1>4

LEMMA SetInduction ==
  ASSUME NEW S, IsFiniteSet(S), NEW P, {} \in P,
         \A s \in SUBSET S : \A x \in s : s \ {x} \in P => s \in P
  PROVE  \A s \in SUBSET S : s \in P
<1> SUFFICES ASSUME NEW r \in SUBSET S, r \notin P PROVE FALSE
  OBVIOUS
<1>1. PICK T : T = {s \in SUBSET S : s \notin P}
  OBVIOUS
<1>2. T # {} /\ T \in SUBSET SUBSET S
  BY <1>1
<1>3. PICK s \in T : \A t \in T : t \subseteq s => t = s
  BY <1>2, SmallestSet
<1>4. PICK x : x \in s
  <2>1. s # {}
    BY <1>1
  <2> QED
    BY <2>1
<1>5. s \ {x} \in P /\ s \in SUBSET S /\ s \notin P
  BY <1>1, <1>3, <1>4
<1> QED
  BY <1>4, <1>5

First(s) == CHOOSE x \in s : TRUE

\* f adds up w over subsets of S as MapThenSumSet does.
Adds(f, w, S) == f = [s \in SUBSET S |-> IF s = {} THEN 0 ELSE NBytes(w[First(s)]) + f[s \ {First(s)}]]

\* What that says of the empty set and of the others.
AddsUp(f, w, S) ==
  /\ DOMAIN f = SUBSET S /\ f[{}] = 0
  /\ \A s \in SUBSET S : s # {} => First(s) \in s /\ f[s] = NBytes(w[First(s)]) + f[s \ {First(s)}]

LEMMA AddsFacts ==
  ASSUME NEW f, NEW w, NEW S, Adds(f, w, S)
  PROVE  AddsUp(f, w, S)
<1>1. DOMAIN f = SUBSET S
  BY DEF Adds
<1>2. \A s \in SUBSET S : f[s] = IF s = {} THEN 0 ELSE NBytes(w[First(s)]) + f[s \ {First(s)}]
  BY DEF Adds
<1>3. \A s : s # {} => First(s) \in s
  BY DEF First
<1> QED
  BY <1>1, <1>2, <1>3 DEF AddsUp

LEMMA AddsTop ==
  ASSUME NEW f, NEW w, NEW S, Adds(f, w, S), S # {}
  PROVE  f[S] = NBytes(w[First(S)]) + f[S \ {First(S)}]
<1>1. S \in SUBSET S
  OBVIOUS
<1>2. f[S] = IF S = {} THEN 0 ELSE NBytes(w[First(S)]) + f[S \ {First(S)}]
  BY <1>1 DEF Adds
<1> QED
  BY <1>2

LEMMA AddsUnique ==
  ASSUME NEW w, NEW S, IsFiniteSet(S), NEW T \in SUBSET S, NEW f, NEW g, Adds(f, w, S), Adds(g, w, T)
  PROVE  \A s \in SUBSET T : f[s] = g[s]
<1>1. PICK P : P = {s \in SUBSET T : f[s] = g[s]}
  OBVIOUS
<1>0. /\ f[{}] = 0 /\ \A s \in SUBSET T : s # {} => First(s) \in s /\ f[s] = NBytes(w[First(s)]) + f[s \ {First(s)}]
      /\ g[{}] = 0 /\ \A s \in SUBSET T : s # {} => g[s] = NBytes(w[First(s)]) + g[s \ {First(s)}]
  <2>1. /\ f[{}] = 0
        /\ \A s \in SUBSET S : s # {} => First(s) \in s /\ f[s] = NBytes(w[First(s)]) + f[s \ {First(s)}]
    <3>1. AddsUp(f, w, S)
      BY AddsFacts
    <3> QED
      BY <3>1 DEF AddsUp
  <2>2. /\ g[{}] = 0
        /\ \A s \in SUBSET T : s # {} => First(s) \in s /\ g[s] = NBytes(w[First(s)]) + g[s \ {First(s)}]
    <3>1. AddsUp(g, w, T)
      BY AddsFacts
    <3> QED
      BY <3>1 DEF AddsUp
  <2>3. SUBSET T \subseteq SUBSET S
    OBVIOUS
  <2> QED
    BY <2>1, <2>2, <2>3
<1>2. {} \in P
  BY <1>0, <1>1
<1>3. IsFiniteSet(T)
  BY FS_Subset
<1>4. \A s \in SUBSET T : s # {} => (s \ {First(s)} \in P => s \in P)
  BY <1>0, <1>1
<1>5. ASSUME NEW r \in SUBSET T, r \notin P PROVE FALSE
  <2>1. PICK Q : Q = {s \in SUBSET T : s \notin P}
    OBVIOUS
  <2>2. Q # {} /\ Q \in SUBSET SUBSET T
    BY <2>1, <1>5
  <2>3. PICK s \in Q : \A t \in Q : t \subseteq s => t = s
    BY <1>3, <2>2, SmallestSet
  <2>4. s # {} /\ First(s) \in s /\ s \in SUBSET T /\ s \notin P
    BY <1>2, <2>1, <2>3 DEF First
  <2>5. s \ {First(s)} \in P
    BY <2>1, <2>3, <2>4
  <2> QED
    BY <1>4, <2>4, <2>5
<1> QED
  BY <1>1, <1>5

LEMMA AddsExists ==
  ASSUME NEW w, NEW S, IsFiniteSet(S)
  PROVE  \E f : Adds(f, w, S)
<1> SUFFICES ASSUME ~\E f : Adds(f, w, S) PROVE FALSE
  OBVIOUS
<1>1. PICK Q : Q = {s \in SUBSET S : ~\E f : Adds(f, w, s)}
  OBVIOUS
<1>2. Q # {} /\ Q \in SUBSET SUBSET S
  BY <1>1
<1>3. PICK t \in Q : \A s \in Q : s \subseteq t => s = t
  BY <1>2, SmallestSet
<1>4. /\ t \in SUBSET S /\ ~\E f : Adds(f, w, t)
      /\ \A s \in SUBSET t : s # t => \E f : Adds(f, w, s)
  BY <1>1, <1>3
<1>5. PICK F : F = [s \in SUBSET t |-> CHOOSE f : Adds(f, w, s)]
  OBVIOUS
<1>6. \A s \in SUBSET t : s # t => Adds(F[s], w, s)
  BY <1>4, <1>5
<1>7. PICK g : g = [s \in SUBSET t |-> IF s = {} THEN 0 ELSE NBytes(w[First(s)]) + F[s \ {First(s)}][s \ {First(s)}]]
  OBVIOUS
\* Below t, g is what the functions for the smaller sets say.
<1>8. ASSUME NEW s \in SUBSET t, s # t PROVE g[s] = F[s][s]
  <2>1. CASE s = {}
    <3>1. Adds(F[s], w, s)
      BY <1>6, <1>8
    <3>2. AddsUp(F[s], w, s)
      BY <3>1, AddsFacts
    <3>3. F[s][{}] = 0
      BY <3>2 DEF AddsUp
    <3> QED
      BY <1>7, <2>1, <3>3
  <2>2. CASE s # {}
    <3>1. PICK u : u = s \ {First(s)}
      OBVIOUS
    <3>2. First(s) \in s /\ u \in SUBSET s /\ u \in SUBSET t /\ u # t
      BY <1>8, <2>2, <3>1 DEF First
    <3>3. F[s][s] = NBytes(w[First(s)]) + F[s][u]
      <4>1. PICK f : f = F[s] /\ Adds(f, w, s)
        BY <1>6, <1>8
      <4>2. f[s] = NBytes(w[First(s)]) + f[s \ {First(s)}]
        BY <2>2, <4>1, AddsTop
      <4> QED
        BY <3>1, <4>1, <4>2
    <3>4. IsFiniteSet(s)
      BY <1>4, FS_Subset
    <3>5. F[s][u] = F[u][u]
      <4>1. PICK f, h : f = F[s] /\ h = F[u] /\ Adds(f, w, s) /\ Adds(h, w, u)
        BY <1>6, <1>8, <3>2
      <4>2. IsFiniteSet(s) /\ u \in SUBSET s /\ Adds(f, w, s) /\ Adds(h, w, u)
        BY <3>2, <3>4, <4>1
      <4>3. u \in SUBSET u
        OBVIOUS
      <4>4. f[u] = h[u]
        BY <4>2, <4>3, AddsUnique
      <4> QED
        BY <4>1, <4>4
    <3>6. g[s] = NBytes(w[First(s)]) + F[u][u]
      BY <1>7, <2>2, <3>1
    <3> QED
      BY <3>3, <3>5, <3>6
  <2> QED
    BY <2>1, <2>2
<1>9. \A s \in SUBSET t : g[s] = IF s = {} THEN 0 ELSE NBytes(w[First(s)]) + g[s \ {First(s)}]
  <2> TAKE s \in SUBSET t
  <2>1. CASE s = {}
    BY <1>7, <2>1
  <2>2. CASE s # {}
    <3>1. s \ {First(s)} \in SUBSET t /\ s \ {First(s)} # t
      BY <2>2 DEF First
    <3>2. g[s \ {First(s)}] = F[s \ {First(s)}][s \ {First(s)}]
      BY <1>8, <3>1
    <3> QED
      BY <1>7, <2>2, <3>2
  <2> QED
    BY <2>1, <2>2
<1>10. g = [s \in SUBSET t |-> IF s = {} THEN 0 ELSE NBytes(w[First(s)]) + g[s \ {First(s)}]]
  <2>1. PICK h : h = [s \in SUBSET t |-> IF s = {} THEN 0 ELSE NBytes(w[First(s)]) + g[s \ {First(s)}]]
    OBVIOUS
  <2>2. DOMAIN h = SUBSET t /\ \A s \in SUBSET t : h[s] = g[s]
    BY <1>9, <2>1
  <2>3. h = [s \in SUBSET t |-> h[s]] /\ g = [s \in SUBSET t |-> g[s]]
    BY <1>7, <2>1
  <2>4. g = h
    BY <2>2, <2>3
  <2> QED
    BY <2>1, <2>4
<1> QED
  BY <1>4, <1>10 DEF Adds

\* What MapThenSumSet is.
LEMMA SumIs ==
  ASSUME NEW w, NEW S, IsFiniteSet(S), NEW f, Adds(f, w, S)
  PROVE  SumBytes(S, w) = f[S]
<1>1. PICK g : g = CHOOSE h : h = [s \in SUBSET S |-> IF s = {} THEN 0
                                     ELSE NBytes(w[CHOOSE x \in s : TRUE]) + h[s \ {CHOOSE x \in s : TRUE}]]
  OBVIOUS
<1>2. SumBytes(S, w) = g[S]
  BY <1>1 DEF SumBytes, MapThenSumSet, MapThenFoldSet
<1>3. Adds(g, w, S)
  <2>1. \E h : h = [s \in SUBSET S |-> IF s = {} THEN 0
                                     ELSE NBytes(w[CHOOSE x \in s : TRUE]) + h[s \ {CHOOSE x \in s : TRUE}]]
    BY DEF Adds, First
  <2>2. g = [s \in SUBSET S |-> IF s = {} THEN 0
                                     ELSE NBytes(w[CHOOSE x \in s : TRUE]) + g[s \ {CHOOSE x \in s : TRUE}]]
    BY <1>1, <2>1, Zenon
  <2> QED
    BY <2>2 DEF Adds, First
<1> QED
  BY <1>2, <1>3, AddsUnique

\* The order does not matter.
AnyOrder(f, w, S) == \A s \in SUBSET S : f[s] \in Nat /\ \A x \in s : f[s] = NBytes(w[x]) + f[s \ {x}]

LEMMA AddsAny ==
  ASSUME NEW S, IsFiniteSet(S), NEW w, \A x \in S : NBytes(w[x]) \in Nat, NEW f, Adds(f, w, S)
  PROVE  AnyOrder(f, w, S)
<1>1. PICK P : P = {s \in SUBSET S : f[s] \in Nat /\ \A x \in s : f[s] = NBytes(w[x]) + f[s \ {x}]}
  OBVIOUS
<1> SUFFICES ASSUME NEW r \in SUBSET S, r \notin P PROVE FALSE
  BY <1>1 DEF AnyOrder
<1>2. PICK Q : Q = {s \in SUBSET S : s \notin P}
  OBVIOUS
<1>3. Q # {} /\ Q \in SUBSET SUBSET S
  BY <1>2
<1>4. PICK s \in Q : \A t \in Q : t \subseteq s => t = s
  BY <1>3, SmallestSet
<1>5. s \in SUBSET S /\ s \notin P /\ \A t \in SUBSET s : t # s => t \in P
  BY <1>2, <1>4
<1>0. /\ f[{}] = 0
      /\ \A t \in SUBSET S : t # {} => First(t) \in t /\ f[t] = NBytes(w[First(t)]) + f[t \ {First(t)}]
  <2>1. AddsUp(f, w, S)
    BY AddsFacts
  <2> QED
    BY <2>1 DEF AddsUp
<1>6. {} \in P
  BY <1>0, <1>1
<1>7. PICK p : p = First(s)
  OBVIOUS
<1>8. p \in s /\ f[s] = NBytes(w[p]) + f[s \ {p}]
  BY <1>0, <1>5, <1>6, <1>7
<1>9. s \ {p} \in P
  BY <1>5, <1>8
<1>10. f[s \ {p}] \in Nat /\ NBytes(w[p]) \in Nat
  BY <1>1, <1>5, <1>8, <1>9
<1>11. f[s] \in Nat
  BY <1>8, <1>10
<1>12. ASSUME NEW x \in s PROVE f[s] = NBytes(w[x]) + f[s \ {x}]
  <2>1. CASE x = p
    BY <1>8, <2>1
  <2>2. CASE x # p
    <3>1. s \ {x} \in P /\ p \in s \ {x} /\ x \in s \ {p}
      BY <1>5, <1>8, <2>2
    <3>2. PICK u : u = (s \ {p}) \ {x}
      OBVIOUS
    <3>3. u = (s \ {x}) \ {p} /\ u \in P
      BY <1>5, <1>8, <3>2
    <3>4. f[s \ {p}] = NBytes(w[x]) + f[u] /\ f[s \ {x}] = NBytes(w[p]) + f[u]
      BY <1>1, <1>9, <3>1, <3>2, <3>3
    <3>5. f[u] \in Nat /\ NBytes(w[x]) \in Nat
      BY <1>1, <1>5, <3>3
    <3> QED
      BY <1>8, <1>10, <3>4, <3>5
  <2> QED
    BY <2>1, <2>2
<1> QED
  BY <1>1, <1>5, <1>11, <1>12

LEMMA SumStep ==
  ASSUME NEW S, IsFiniteSet(S), NEW w, \A x \in S : NBytes(w[x]) \in Nat
  PROVE  /\ SumBytes(S, w) \in Nat /\ (S = {} => SumBytes(S, w) = 0)
         /\ \A x \in S : SumBytes(S, w) = NBytes(w[x]) + SumBytes(S \ {x}, w)
<1>1. PICK f : Adds(f, w, S)
  BY AddsExists
<1>2. SumBytes(S, w) = f[S]
  BY <1>1, SumIs
<1>3. S \in SUBSET S
  OBVIOUS
<1>4. f[S] \in Nat /\ \A x \in S : f[S] = NBytes(w[x]) + f[S \ {x}]
  <2>1. \A s \in SUBSET S : f[s] \in Nat /\ \A x \in s : f[s] = NBytes(w[x]) + f[s \ {x}]
    <3>1. Adds(f, w, S)
      BY <1>1
    <3>2. AnyOrder(f, w, S)
      BY <3>1, AddsAny
    <3> QED
      BY <3>2 DEF AnyOrder
  <2> QED
    BY <1>3, <2>1
<1>5. f[{}] = 0
  <2>1. AddsUp(f, w, S)
    BY <1>1, AddsFacts
  <2> QED
    BY <2>1 DEF AddsUp
<1>6. ASSUME NEW x \in S PROVE SumBytes(S \ {x}, w) = f[S \ {x}]
  <2>1. PICK T : T = S \ {x}
    OBVIOUS
  <2>2. IsFiniteSet(T) /\ T \in SUBSET S /\ T \in SUBSET T
    BY <2>1, FS_Subset
  <2>3. PICK g : Adds(g, w, T)
    BY <2>2, AddsExists
  <2>4. f[T] = g[T]
    BY <1>1, <2>2, <2>3, AddsUnique
  <2>5. SumBytes(T, w) = g[T]
    BY <2>2, <2>3, SumIs
  <2> QED
    BY <2>1, <2>4, <2>5
<1> QED
  BY <1>2, <1>4, <1>5, <1>6

\* More buffers need no less memory.
LEMMA SumGrows ==
  ASSUME NEW S, IsFiniteSet(S), NEW w, \A x \in S : NBytes(w[x]) \in Nat
  PROVE  \A t \in SUBSET S : SumBytes(t, w) <= SumBytes(S, w)
<1>1. PICK P : P = {s \in SUBSET S : \A t \in SUBSET s : SumBytes(t, w) <= SumBytes(s, w)}
  OBVIOUS
<1>2. {} \in P
  <2>1. IsFiniteSet({}) /\ SumBytes({}, w) \in Nat
    BY FS_EmptySet, SumStep
  <2>2. \A t \in SUBSET {} : t = {}
    OBVIOUS
  <2>3. \A n \in Nat : n <= n
    OBVIOUS
  <2>4. SumBytes({}, w) <= SumBytes({}, w)
    BY <2>1, <2>3
  <2>5. \A t \in SUBSET {} : SumBytes(t, w) <= SumBytes({}, w)
    BY <2>2, <2>4
  <2> QED
    BY <1>1, <2>5
<1>3. ASSUME NEW s \in SUBSET S, NEW x \in s, s \ {x} \in P PROVE s \in P
  <2>0. s \in P <=> \A t \in SUBSET s : SumBytes(t, w) <= SumBytes(s, w)
    BY <1>1
  <2> SUFFICES ASSUME NEW t \in SUBSET s PROVE SumBytes(t, w) <= SumBytes(s, w)
    BY <2>0
  <2>1. PICK u, v : u = s \ {x} /\ v = t \ {x}
    OBVIOUS
  <2>2. /\ IsFiniteSet(s) /\ IsFiniteSet(t) /\ IsFiniteSet(u) /\ IsFiniteSet(v)
        /\ \A y \in s : NBytes(w[y]) \in Nat
    BY <2>1, FS_Subset
  <2>3. PICK a, b, c, d \in Nat : /\ a = SumBytes(s, w) /\ b = SumBytes(t, w)
                                  /\ c = SumBytes(u, w) /\ d = SumBytes(v, w)
    <3>1. SumBytes(s, w) \in Nat /\ SumBytes(t, w) \in Nat
      BY <2>2, SumStep
    <3>2. SumBytes(u, w) \in Nat /\ SumBytes(v, w) \in Nat
      BY <2>1, <2>2, SumStep
    <3> QED
      BY <3>1, <3>2
  <2>4. PICK n \in Nat : n = NBytes(w[x])
    BY <2>2
  <2>5. a = n + c
    BY <2>1, <2>2, <2>3, <2>4, SumStep
  <2>6. v \in SUBSET u /\ d <= c
    BY <1>1, <1>3, <2>1, <2>3
  <2>7. CASE x \in t
    <3>1. b = n + d
      BY <2>1, <2>2, <2>3, <2>4, <2>7, SumStep
    <3> QED
      BY <2>3, <2>5, <2>6, <3>1
  <2>8. CASE x \notin t
    <3>1. v = t /\ b = d
      BY <2>1, <2>3, <2>8
    <3> QED
      BY <2>3, <2>5, <2>6, <3>1
  <2> QED
    BY <2>7, <2>8
<1>4. \A s \in SUBSET S : s \in P
  BY <1>2, <1>3, SetInduction
<1>5. S \in P
  BY <1>4
<1> QED
  BY <1>1, <1>5

-----------------------------------------------------------------------------
(* The planner.                                                            *)

AllEvents == {OpenEvent(b) : b \in Planned} \cup {CloseEvent(b) : b \in Planned}

BufferTypes ==
  /\ scanned \in 0..(NumCalls + 1)
  /\ Planned \subseteq Buffer /\ copied \subseteq Planned
  /\ first \in [Planned -> 1..NumCalls] /\ last \in [Planned -> 1..NumCalls]
  /\ bytes \in [Planned -> Bytes] /\ device \in [Planned -> Device]

\* A lifetime does not end before it begins, nor after the calls read so far.
Ordered == \A b \in Planned : first[b] <= last[b] /\ last[b] <= scanned

PlanTypes ==
  /\ events \subseteq AllEvents
  /\ DOMAIN offsets \subseteq Planned /\ \A b \in DOMAIN offsets : offsets[b] \in Nat
  /\ offsets = [b \in DOMAIN offsets |-> offsets[b]]
  /\ DOMAIN heaps = (IF scanned > NumCalls THEN Lanes ELSE {})
  /\ heaps = [l \in DOMAIN heaps |-> heaps[l]]
  /\ DOMAIN peaks = DOMAIN heaps /\ \A l \in DOMAIN peaks : peaks[l] \in Nat
  /\ scanned <= NumCalls => events = {} /\ DOMAIN offsets = {}

\* Events are handled in order, and the opening of a buffer gives it its offset.
Sorted == scanned > NumCalls => \A e \in AllEvents \ events : \A f \in events : Before(e, f)
Opened == scanned > NumCalls =>
            \A b \in Planned : /\ b \in DOMAIN offsets <=> OpenEvent(b) \notin events
                               /\ OpenEvent(b) \in events => CloseEvent(b) \in events

Live(b) == b \in DOMAIN offsets /\ CloseEvent(b) \in events

\* Each live buffer has a block of its own that is large enough.
LiveTaken ==
  \A b \in DOMAIN offsets : Live(b) =>
    /\ IsTaken(heaps[Lane(b)], offsets[b])
    /\ heaps[Lane(b)].blocks[offsets[b]].size >= NBytes(bytes[b])
LiveDistinct ==
  \A b, c \in DOMAIN offsets :
    Live(b) /\ Live(c) /\ b # c /\ Lane(b) = Lane(c) => offsets[b] # offsets[c]

HeapsInv == \A l \in DOMAIN heaps : HeapInv(heaps[l])

IInv ==
  /\ BufferTypes /\ Ordered /\ PlanTypes /\ Sorted /\ Opened
  /\ HeapsInv /\ LiveTaken /\ LiveDistinct /\ LifetimesDisjoint

-----------------------------------------------------------------------------
LEMMA SizesOfBuffers ==
  ASSUME BufferTypes, NEW b \in Planned
  PROVE  LET n == NBytes(bytes[b])
         IN  /\ n \in Nat /\ SearchSize(n, 1) \in Nat /\ SearchSize(n, 1) >= Request(n)
             /\ Request(n) \in Nat \ {0} /\ Request(n) >= n
             /\ n # 0 /\ n >= BlockSize /\ Request(n) = n /\ SearchSize(n, 1) < 2 * n
             /\ bytes[b] \in Nat /\ bytes[b] <= n
<1>1. bytes[b] \in Nat \ {0}
  BY MemoryPlanAssumption DEF BufferTypes
<1>2. PICK n : n = NBytes(bytes[b])
  OBVIOUS
<1>3. n \in Nat \ {0} /\ bytes[b] <= n /\ BlockSize <= n /\ BlockSize \in Nat
  BY <1>1, <1>2, RoundedIs, TLSFAssumption
<1>4. PICK r : r = SearchSize(n, 1)
  OBVIOUS
<1>5. r \in Nat \ {0} /\ n <= r /\ r < 2 * n /\ Request(n) = n
  BY <1>3, <1>4, SearchIs
<1> QED
  BY <1>1, <1>2, <1>3, <1>4, <1>5

LEMMA FinitelyMany ==
  ASSUME BufferTypes, NEW S \in SUBSET Planned
  PROVE  IsFiniteSet(S) /\ \A b \in S : NBytes(bytes[b]) \in Nat
<1>1. S \subseteq Buffer /\ IsFiniteSet(Buffer)
  BY MemoryPlanAssumption DEF BufferTypes
<1>2. \A b \in S : NBytes(bytes[b]) \in Nat
  BY SizesOfBuffers
<1> QED
  BY <1>1, <1>2, FS_Subset

LEMMA SumsPositive ==
  ASSUME BufferTypes
  PROVE  TotalMemory \in Nat /\ (Planned # {} => TotalMemory # 0)
<1>1. /\ IsFiniteSet(Planned) /\ Planned \in SUBSET Planned
      /\ \A b \in Planned : NBytes(bytes[b]) \in Nat
  BY FinitelyMany
<1>2. PICK n \in Nat : n = SumBytes(Planned, bytes)
  BY <1>1, SumStep
<1>3. ASSUME NEW b \in Planned PROVE n # 0
  <2>1. PICK k, m \in Nat : /\ k = NBytes(bytes[b]) /\ m = SumBytes(Planned \ {b}, bytes)
    <3>1. IsFiniteSet(Planned \ {b}) /\ \A c \in Planned \ {b} : NBytes(bytes[c]) \in Nat
      BY <1>1, FS_Subset
    <3>2. SumBytes(Planned \ {b}, bytes) \in Nat
      BY <3>1, SumStep
    <3> QED
      BY <1>1, <3>2
  <2>2. n = k + m
    BY <1>1, <1>2, <2>1, SumStep
  <2>3. k # 0
    BY <2>1, SizesOfBuffers
  <2> QED
    BY <2>1, <2>2, <2>3
<1>4. TotalMemory = n * 2
  BY <1>2 DEF TotalMemory
<1> QED
  BY <1>2, <1>3, <1>4

\* The times of a buffer are numbers in their order.
LEMMA Times ==
  ASSUME BufferTypes, Ordered, NEW b \in Planned
  PROVE  /\ first[b] \in Nat /\ last[b] \in Nat /\ Hold(b) \in Nat /\ CloseTime(b) \in Nat
         /\ first[b] < CloseTime(b) /\ CloseTime(b) = last[b] + 1 + Hold(b)
<1>1. first[b] \in 1..NumCalls /\ last[b] \in 1..NumCalls /\ first[b] <= last[b]
  BY DEF BufferTypes, Ordered
<1>2. Hold(b) \in Nat
  BY <1>1, MemoryPlanAssumption DEF Hold
<1> QED
  BY <1>1, <1>2, MemoryPlanAssumption DEF CloseTime

LEMMA SameBuffers ==
  ASSUME UNCHANGED buffers
  PROVE  /\ Planned' = Planned /\ Lanes' = Lanes /\ AllEvents' = AllEvents
         /\ \A b : /\ Lane(b)' = Lane(b) /\ NBytes(bytes[b])' = NBytes(bytes[b])
                   /\ OpenEvent(b)' = OpenEvent(b) /\ CloseEvent(b)' = CloseEvent(b)
                   /\ InUse(b)' = InUse(b)
  BY DEF buffers, Planned, Lanes, AllEvents, Lane, OpenEvent, CloseEvent, CloseTime, Hold, InUse

LEMMA LaneOfPlanned ==
  ASSUME PlanTypes, scanned > NumCalls, NEW b \in Planned
  PROVE  Lane(b) \in DOMAIN heaps
  BY DEF PlanTypes, Lanes

\* Buffers of different calls have different events, and the events of a buffer differ.
LEMMA EventsDiffer ==
  ASSUME NEW b, NEW c
  PROVE  /\ OpenEvent(b) # CloseEvent(c)
         /\ OpenEvent(b) = OpenEvent(c) => b = c
         /\ CloseEvent(b) = CloseEvent(c) => b = c
  BY DEF OpenEvent, CloseEvent

-----------------------------------------------------------------------------
LEMMA InitHolds == Init => IInv
<1> SUFFICES ASSUME Init PROVE IInv
  OBVIOUS
<1>1. /\ scanned = 0 /\ Planned = {} /\ DOMAIN last = {} /\ DOMAIN bytes = {} /\ DOMAIN device = {}
      /\ copied = {} /\ events = {} /\ DOMAIN offsets = {} /\ DOMAIN heaps = {} /\ DOMAIN peaks = {}
  BY DEF Init, Empty, Planned
<1>2. BufferTypes
  BY <1>1, MemoryPlanAssumption DEF Init, Empty, BufferTypes
<1>3. PlanTypes
  BY <1>1, MemoryPlanAssumption DEF Init, Empty, PlanTypes
<1> QED
  BY <1>1, <1>2, <1>3, MemoryPlanAssumption
     DEF IInv, Ordered, Sorted, Opened, HeapsInv, LiveTaken, LiveDistinct, LifetimesDisjoint

LEMMA ReadCallKeeps ==
  ASSUME IInv, NEW bufs \in SUBSET Buffer, NEW copy \in BOOLEAN, ReadCall(bufs, copy)
  PROVE  IInv'
<1>1. /\ scanned < NumCalls /\ scanned' = scanned + 1 /\ scanned \in Nat /\ NumCalls \in Nat
      /\ events = {} /\ DOMAIN offsets = {} /\ DOMAIN heaps = {} /\ DOMAIN peaks = {}
      /\ UNCHANGED <<events, offsets, heaps, peaks>>
  BY MemoryPlanAssumption DEF ReadCall, IInv, BufferTypes, PlanTypes
<1>2. /\ Planned' = Planned \cup bufs /\ DOMAIN last' = Planned \cup bufs
      /\ first' = [b \in Planned \cup bufs |-> IF b \in Planned THEN first[b] ELSE scanned + 1]
      /\ last' = [b \in Planned \cup bufs |-> IF b \in bufs THEN scanned + 1 ELSE last[b]]
  BY DEF ReadCall, SetDefault, LastAfter, Assign, Planned, IInv, BufferTypes
<1>3. /\ bytes' \in [Planned \cup bufs -> Bytes] /\ device' \in [Planned \cup bufs -> Device]
  <2>1. PICK sizes \in [bufs \ Planned -> Bytes], places \in [bufs \ Planned -> Device] :
          /\ bytes' = [b \in Planned \cup bufs |-> IF b \in Planned THEN bytes[b] ELSE sizes[b]]
          /\ device' = [b \in Planned \cup bufs |-> IF b \in Planned THEN device[b] ELSE places[b]]
    BY DEF ReadCall
  <2> QED
    BY <2>1 DEF IInv, BufferTypes
<1>4. BufferTypes'
  <2>1. \A b \in Planned : first[b] \in 1..NumCalls /\ last[b] \in 1..NumCalls
    BY DEF IInv, BufferTypes
  <2>2. first' \in [Planned' -> 1..NumCalls] /\ last' \in [Planned' -> 1..NumCalls]
    BY <1>1, <1>2, <2>1
  <2>3. Planned' \subseteq Buffer /\ copied' \subseteq Planned' /\ scanned' \in 0..(NumCalls + 1)
    BY <1>1, <1>2 DEF ReadCall, IInv, BufferTypes
  <2> QED
    BY <1>2, <1>3, <2>2, <2>3 DEF BufferTypes
<1>5. Ordered'
  <2>1. \A b \in Planned : first[b] \in Nat /\ last[b] \in Nat /\ first[b] <= last[b] /\ last[b] <= scanned
    BY DEF IInv, BufferTypes, Ordered
  <2> QED
    BY <1>1, <1>2, <2>1 DEF Ordered
<1>6. PlanTypes'
  BY <1>1, <1>2 DEF IInv, PlanTypes
<1> QED
  BY <1>1, <1>4, <1>5, <1>6
     DEF IInv, Sorted, Opened, HeapsInv, LiveTaken, LiveDistinct, LifetimesDisjoint

LEMMA SortEventsKeeps == ASSUME IInv, SortEvents PROVE IInv'
<1>1. /\ scanned = NumCalls /\ scanned' = NumCalls + 1 /\ NumCalls \in Nat
      /\ UNCHANGED <<first, last, copied, bytes, device, offsets>> /\ DOMAIN offsets = {}
      /\ events' = AllEvents
      /\ heaps' = [l \in Lanes |-> NewHeap(TotalMemory)] /\ peaks' = [l \in Lanes |-> 0]
  BY MemoryPlanAssumption DEF SortEvents, AllEvents, IInv, PlanTypes
<1>2. AllEvents' = AllEvents /\ Lanes' = Lanes /\ Planned' = Planned
  BY <1>1 DEF AllEvents, OpenEvent, CloseEvent, CloseTime, Hold, Lanes, Lane, Planned
<1>3. BufferTypes' /\ Ordered'
  BY <1>1, <1>2 DEF IInv, BufferTypes, Ordered
<1>4. PlanTypes'
  <2>1. scanned' > NumCalls
    BY <1>1
  <2>2. DOMAIN heaps' = Lanes /\ DOMAIN peaks' = Lanes /\ \A l \in Lanes : peaks'[l] \in Nat
    BY <1>1
  <2>3. heaps' = [l \in DOMAIN heaps' |-> heaps'[l]] /\ offsets' = [b \in DOMAIN offsets' |-> offsets'[b]]
    BY <1>1 DEF IInv, PlanTypes
  <2> QED
    BY <1>1, <1>2, <2>1, <2>2, <2>3 DEF PlanTypes
<1>5. HeapsInv'
  <2> SUFFICES ASSUME NEW l \in Lanes PROVE HeapInv(heaps'[l])
    BY <1>1 DEF HeapsInv
  <2>1. Planned # {}
    BY DEF Lanes
  <2>2. TotalMemory \in Nat \ {0}
    BY <2>1, SumsPositive DEF IInv
  <2> HIDE DEF TotalMemory
  <2> QED
    BY <1>1, <2>2, NewHeapInv
<1>6. Sorted' /\ Opened'
  <2>1. \A b \in Planned : OpenEvent(b)' = OpenEvent(b) /\ CloseEvent(b)' = CloseEvent(b)
    BY <1>1 DEF OpenEvent, CloseEvent, CloseTime, Hold
  <2>2. \A b \in Planned : OpenEvent(b) \in AllEvents /\ CloseEvent(b) \in AllEvents
    BY DEF AllEvents
  <2> QED
    BY <1>1, <1>2, <2>1, <2>2 DEF Sorted, Opened
<1> QED
  BY <1>1, <1>3, <1>4, <1>5, <1>6 DEF IInv, LiveTaken, LiveDistinct, LifetimesDisjoint

-----------------------------------------------------------------------------
(* Steps of the second loop leave the buffers alone.                       *)

LEMMA BuffersKept ==
  ASSUME BufferTypes, Ordered, UNCHANGED buffers
  PROVE  BufferTypes' /\ Ordered' /\ scanned' = scanned
  BY DEF BufferTypes, Ordered, buffers, Planned

\* The next event is taken out of the list.
LEMMA NextEvent ==
  ASSUME IInv, NEW e \in AllEvents, IsNext(e), events' = events \ {e}, UNCHANGED buffers
  PROVE  Sorted' /\ events' \subseteq AllEvents' /\ scanned > NumCalls
<1>1. scanned > NumCalls
  <2>1. events # {}
    BY DEF IsNext
  <2> QED
    BY <2>1, MemoryPlanAssumption DEF IInv, PlanTypes, BufferTypes
<1>2. AllEvents' = AllEvents
  BY SameBuffers
<1>3. \A d \in AllEvents \ events' : \A f \in events' : Before(d, f)
  BY <1>1 DEF IInv, Sorted, IsNext
<1> QED
  BY <1>1, <1>2, <1>3 DEF Sorted, Before, IInv, PlanTypes

\* A buffer that is no longer live when another is opened was in use before it only.
LEMMA ClosedBefore ==
  ASSUME IInv, scanned > NumCalls, NEW b \in Planned, NEW c \in Planned,
         CloseEvent(b) \notin events, OpenEvent(c) \in events
  PROVE  InUse(b) \cap InUse(c) = {}
<1>1. Before(CloseEvent(b), OpenEvent(c))
  BY DEF IInv, Sorted, AllEvents
<1>2. CloseTime(b) <= first[c]
  BY <1>1, Times DEF IInv, Before, CloseEvent, OpenEvent
<1>3. /\ first[b] \in Nat /\ last[b] \in Nat /\ Hold(b) \in Nat /\ CloseTime(b) = last[b] + 1 + Hold(b)
      /\ first[c] \in Nat /\ last[c] \in Nat /\ Hold(c) \in Nat
  BY Times DEF IInv
<1> QED
  BY <1>2, <1>3 DEF InUse

LEMMA OpenKeeps == ASSUME IInv, NEW b \in Planned, Open(b) PROVE IInv'
<1> DEFINE l == Lane(b)
           h == heaps[l]
           n == NBytes(bytes[b])
<1>0. /\ IsNext(OpenEvent(b)) /\ events' = events \ {OpenEvent(b)} /\ UNCHANGED buffers
      /\ OpenEvent(b) \in events /\ OpenEvent(b) \in AllEvents
  BY DEF Open, IsNext, AllEvents
<1>1. PICK at \in Chosen(h, n, 1) :
        /\ BlockFits(h, at, n, 1)
        /\ heaps' = [heaps EXCEPT ![l] = Alloc(h, at, at, Request(n))]
        /\ offsets' = [c \in DOMAIN offsets \cup {b} |-> IF c = b THEN at ELSE offsets[c]]
        /\ peaks' = [peaks EXCEPT ![l] = IF at + bytes[b] > @ THEN at + bytes[b] ELSE @]
  BY DEF Open
<1>2. scanned > NumCalls /\ Sorted' /\ events' \subseteq AllEvents'
  BY <1>0, NextEvent
<1>3. l \in DOMAIN heaps /\ HeapInv(h) /\ ~Busy(h)
  BY <1>0, <1>2, LaneOfPlanned DEF IInv, HeapsInv, IsNext
<1>4. /\ n \in Nat /\ Request(n) \in Nat \ {0} /\ Request(n) >= n
      /\ h.blocks[at].size >= Request(n) /\ bytes[b] \in Nat
  <2>1. /\ n \in Nat /\ SearchSize(n, 1) \in Nat /\ SearchSize(n, 1) >= Request(n)
        /\ Request(n) \in Nat \ {0} /\ Request(n) >= n
    BY SizesOfBuffers DEF IInv
  <2>2. h.blocks[at].size >= SearchSize(n, 1)
    BY <1>1 DEF BlockFits
  <2>3. h.blocks[at].size \in Nat
    BY <1>3, ChosenFree DEF HeapInv, HeapType, BlockType
  <2>4. bytes[b] \in Nat
    BY MemoryPlanAssumption DEF IInv, BufferTypes
  <2> QED
    BY <2>1, <2>2, <2>3, <2>4
<1> DEFINE g == Alloc(h, at, at, Request(n))
<1>5. /\ HeapInv(g) /\ ~Busy(g) /\ at \in Nat /\ ~IsTaken(h, at)
      /\ \A s : IsTaken(g, s) <=> IsTaken(h, s) \/ s = at
      /\ g.blocks[at].size = Request(n)
      /\ \A s : IsTaken(h, s) => g.blocks[s].size = h.blocks[s].size
  <2>1. at \in DOMAIN h.blocks /\ h.blocks[at].free
    BY <1>3, ChosenFree
  <2>2. at \in Nat /\ at <= at /\ at + Request(n) <= EndOf(h, at)
    BY <1>3, <1>4, <2>1 DEF HeapInv, HeapType, BlockType, EndOf
  <2> QED
    BY <1>3, <1>4, <2>1, <2>2, AllocKeeps
<1> HIDE DEF g, h, l, n
<1>6. BufferTypes' /\ Ordered' /\ scanned' = scanned
  BY <1>0, BuffersKept DEF IInv
<1>7. /\ DOMAIN heaps' = DOMAIN heaps /\ heaps'[l] = g
      /\ \A k \in DOMAIN heaps \ {l} : heaps'[k] = heaps[k]
      /\ heaps' = [k \in DOMAIN heaps' |-> heaps'[k]]
  BY <1>1, <1>3 DEF IInv, PlanTypes, g
<1>8. /\ DOMAIN offsets' = DOMAIN offsets \cup {b} /\ offsets'[b] = at
      /\ \A c \in DOMAIN offsets \ {b} : offsets'[c] = offsets[c]
      /\ offsets' = [c \in DOMAIN offsets' |-> offsets'[c]]
  BY <1>1
<1>9. b \notin DOMAIN offsets /\ CloseEvent(b) \in events
  BY <1>0, <1>2 DEF IInv, Opened
<1>10. PlanTypes'
  <2>1. DOMAIN peaks' = DOMAIN peaks /\ \A k \in DOMAIN peaks : peaks'[k] \in Nat
    <3>1. DOMAIN peaks = DOMAIN heaps /\ \A k \in DOMAIN peaks : peaks[k] \in Nat
      BY DEF IInv, PlanTypes
    <3>2. at + bytes[b] \in Nat
      BY <1>4, <1>5
    <3> QED
      BY <1>1, <3>1, <3>2
  <2>2. DOMAIN heaps' = Lanes' /\ Planned' = Planned
    BY <1>0, <1>2, <1>7, SameBuffers DEF IInv, PlanTypes
  <2>3. DOMAIN offsets' \subseteq Planned /\ \A c \in DOMAIN offsets' : offsets'[c] \in Nat
    BY <1>5, <1>8 DEF IInv, PlanTypes
  <2>4. scanned' > NumCalls /\ ~(scanned' <= NumCalls)
    BY <1>2, <1>6, MemoryPlanAssumption DEF BufferTypes
  <2>5. DOMAIN peaks' = DOMAIN heaps' /\ \A k \in DOMAIN peaks' : peaks'[k] \in Nat
    BY <2>1, <1>7 DEF IInv, PlanTypes
  <2> QED
    BY <1>2, <1>7, <1>8, <2>2, <2>3, <2>4, <2>5 DEF PlanTypes
<1>11. Opened'
  <2> SUFFICES ASSUME NEW c \in Planned
               PROVE  /\ c \in DOMAIN offsets' <=> OpenEvent(c) \notin events'
                      /\ OpenEvent(c) \in events' => CloseEvent(c) \in events'
    BY <1>0, SameBuffers DEF Opened
  <2>1. /\ c \in DOMAIN offsets <=> OpenEvent(c) \notin events
        /\ OpenEvent(c) \in events => CloseEvent(c) \in events
    BY <1>2 DEF IInv, Opened
  <2>2. CloseEvent(c) # OpenEvent(b) /\ (OpenEvent(c) = OpenEvent(b) => c = b)
    BY EventsDiffer
  <2> QED
    BY <1>0, <1>8, <2>1, <2>2
<1>12. HeapsInv'
  BY <1>5, <1>7 DEF IInv, HeapsInv
<1>13. /\ \A c \in DOMAIN offsets : Live(c)' <=> Live(c)
       /\ \A c : Lane(c)' = Lane(c) /\ NBytes(bytes[c])' = NBytes(bytes[c]) /\ InUse(c)' = InUse(c)
  <2>1. \A c : CloseEvent(c)' = CloseEvent(c) /\ Lane(c)' = Lane(c) /\ InUse(c)' = InUse(c)
               /\ NBytes(bytes[c])' = NBytes(bytes[c])
    BY <1>0, SameBuffers
  <2>2. \A c : CloseEvent(c) # OpenEvent(b)
    BY EventsDiffer
  <2> QED
    BY <1>0, <1>8, <2>1, <2>2 DEF Live
<1>14. \A c \in DOMAIN offsets' :
         Live(c)' => /\ IsTaken(heaps'[Lane(c)], offsets'[c])
                     /\ heaps'[Lane(c)].blocks[offsets'[c]].size >= NBytes(bytes[c])
  <2> SUFFICES ASSUME NEW c \in DOMAIN offsets', Live(c)'
               PROVE  /\ IsTaken(heaps'[Lane(c)], offsets'[c])
                      /\ heaps'[Lane(c)].blocks[offsets'[c]].size >= NBytes(bytes[c])
    OBVIOUS
  <2>1. CASE c = b
    BY <2>1, <1>4, <1>5, <1>7, <1>8 DEF l, n
  <2>2. CASE c # b
    <3>1. /\ c \in DOMAIN offsets /\ offsets'[c] = offsets[c] /\ c \in Planned
          /\ IsTaken(heaps[Lane(c)], offsets[c])
          /\ heaps[Lane(c)].blocks[offsets[c]].size >= NBytes(bytes[c])
      BY <2>2, <1>8, <1>13 DEF IInv, LiveTaken, PlanTypes
    <3>2. Lane(c) \in DOMAIN heaps
      BY <3>1, <1>2, LaneOfPlanned DEF IInv
    <3>3. CASE Lane(c) = l
      BY <3>1, <3>3, <1>5, <1>7 DEF h
    <3>4. CASE Lane(c) # l
      BY <3>1, <3>2, <3>4, <1>7
    <3> QED
      BY <3>3, <3>4
  <2> QED
    BY <2>1, <2>2
<1>15. LiveTaken'
  BY <1>13, <1>14 DEF LiveTaken
<1>16. LiveDistinct'
  <2> SUFFICES ASSUME NEW c \in DOMAIN offsets', NEW d \in DOMAIN offsets', Live(c)', Live(d)',
                      c # d, Lane(c) = Lane(d), offsets'[c] = offsets'[d]
               PROVE  FALSE
    BY <1>13 DEF LiveDistinct
  <2>1. CASE c # b /\ d # b
    BY <2>1, <1>8, <1>13 DEF IInv, LiveDistinct
  <2>2. ASSUME NEW e \in DOMAIN offsets, Live(e), Lane(e) = l PROVE offsets[e] # at
    BY <2>2, <1>5 DEF IInv, LiveTaken, h
  <2>3. CASE c = b
    BY <2>2, <2>3, <1>8, <1>13 DEF l
  <2>4. CASE d = b
    BY <2>2, <2>4, <1>8, <1>13 DEF l
  <2> QED
    BY <2>1, <2>3, <2>4
<1>17. ASSUME NEW c \in DOMAIN offsets, Lane(c) = l, InUse(c) \cap InUse(b) # {}
       PROVE  /\ offsets[c] \in Nat /\ NBytes(bytes[c]) \in Nat
              /\ offsets[c] + NBytes(bytes[c]) <= at \/ at + n <= offsets[c]
  <2>1. c \in Planned
    BY DEF IInv, PlanTypes
  <2>2. Live(c)
    BY <1>0, <1>2, <1>17, <2>1, ClosedBefore DEF Live
  <2>3. /\ IsTaken(h, offsets[c]) /\ h.blocks[offsets[c]].size >= NBytes(bytes[c])
        /\ NBytes(bytes[c]) \in Nat
    BY <1>17, <2>1, <2>2, SizesOfBuffers DEF IInv, LiveTaken, h
  <2>4. IsTaken(g, offsets[c]) /\ IsTaken(g, at) /\ offsets[c] # at
    BY <2>3, <1>5
  <2>5. /\ g.blocks[offsets[c]].size >= NBytes(bytes[c]) /\ g.blocks[at].size >= n
        /\ offsets[c] \in Nat /\ g.blocks[offsets[c]].size \in Nat /\ g.blocks[at].size \in Nat
        /\ \/ offsets[c] + g.blocks[offsets[c]].size <= at
           \/ at + g.blocks[at].size <= offsets[c]
    BY <2>3, <2>4, <1>4, <1>5, TakenApart
  <2> QED
    BY <2>3, <2>5, <1>4, <1>5
<1>18. LifetimesDisjoint'
  <2> SUFFICES ASSUME NEW c \in DOMAIN offsets', NEW d \in DOMAIN offsets', c # d, Lane(c) = Lane(d),
                      InUse(c) \cap InUse(d) # {}
               PROVE  ArenaRange(c)' \cap ArenaRange(d)' = {}
    BY <1>13 DEF LifetimesDisjoint
  <2>0. \A e \in DOMAIN offsets' : ArenaRange(e)' = offsets'[e]..(offsets'[e] + NBytes(bytes[e]) - 1)
    BY <1>13 DEF ArenaRange
  <2>1. CASE c # b /\ d # b
    <3>1. c \in DOMAIN offsets /\ d \in DOMAIN offsets
      BY <2>1, <1>8
    <3>2. ArenaRange(c) \cap ArenaRange(d) = {}
      BY <3>1 DEF IInv, LifetimesDisjoint
    <3> QED
      BY <2>0, <2>1, <3>1, <3>2, <1>8 DEF ArenaRange
  <2>2. CASE c = b
    <3>1. d \in DOMAIN offsets /\ InUse(d) \cap InUse(b) # {} /\ Lane(d) = l
      BY <2>2, <1>8 DEF l
    <3>2. ArenaRange(c)' = at..(at + n - 1) /\ ArenaRange(d)' = offsets[d]..(offsets[d] + NBytes(bytes[d]) - 1)
      BY <2>0, <2>2, <3>1, <1>8 DEF n
    <3> QED
      BY <3>1, <3>2, <1>4, <1>5, <1>17
  <2>3. CASE d = b
    <3>1. c \in DOMAIN offsets /\ InUse(c) \cap InUse(b) # {} /\ Lane(c) = l
      BY <2>3, <1>8 DEF l
    <3>2. ArenaRange(d)' = at..(at + n - 1) /\ ArenaRange(c)' = offsets[c]..(offsets[c] + NBytes(bytes[c]) - 1)
      BY <2>0, <2>3, <3>1, <1>8 DEF n
    <3> QED
      BY <3>1, <3>2, <1>4, <1>5, <1>17
  <2> QED
    BY <2>1, <2>2, <2>3
<1> QED
  BY <1>2, <1>6, <1>10, <1>11, <1>12, <1>15, <1>16, <1>18 DEF IInv

LEMMA CloseKeeps == ASSUME IInv, NEW b \in Planned, Close(b) PROVE IInv'
<1> DEFINE l == Lane(b)
           h == heaps[l]
           g == FreeBlock(h, offsets[b])
<1>0. /\ IsNext(CloseEvent(b)) /\ events' = events \ {CloseEvent(b)} /\ UNCHANGED buffers
      /\ CloseEvent(b) \in events /\ CloseEvent(b) \in AllEvents
      /\ UNCHANGED <<offsets, peaks>> /\ heaps' = [heaps EXCEPT ![l] = g]
  BY DEF Close, IsNext, AllEvents
<1>1. scanned > NumCalls /\ Sorted' /\ events' \subseteq AllEvents'
  BY <1>0, NextEvent
<1>2. l \in DOMAIN heaps /\ HeapInv(h) /\ ~Busy(h)
  BY <1>0, <1>1, LaneOfPlanned DEF IInv, HeapsInv, IsNext
<1>3. OpenEvent(b) \notin events
  <2>1. ~Before(CloseEvent(b), OpenEvent(b))
    BY Times DEF IInv, Before, CloseEvent, OpenEvent
  <2> QED
    BY <1>0, <2>1 DEF IsNext
<1>4. b \in DOMAIN offsets /\ Live(b)
  BY <1>0, <1>1, <1>3 DEF IInv, Opened, Live
<1>5. /\ HeapInv(g)
      /\ \A s \in DOMAIN h.blocks : g.blocks[s].size = h.blocks[s].size
      /\ \A s : IsTaken(g, s) <=> IsTaken(h, s) /\ s # offsets[b]
  <2>1. IsTaken(h, offsets[b])
    BY <1>4 DEF IInv, LiveTaken
  <2> QED
    BY <1>2, <2>1, FreeKeeps
<1> HIDE DEF g, h, l
<1>6. BufferTypes' /\ Ordered' /\ scanned' = scanned
  BY <1>0, BuffersKept DEF IInv
<1>7. /\ DOMAIN heaps' = DOMAIN heaps /\ heaps'[l] = g
      /\ \A k \in DOMAIN heaps \ {l} : heaps'[k] = heaps[k]
      /\ heaps' = [k \in DOMAIN heaps' |-> heaps'[k]]
  BY <1>0, <1>2 DEF IInv, PlanTypes
<1>8. PlanTypes'
  <2>1. scanned' > NumCalls /\ ~(scanned' <= NumCalls)
    BY <1>1, <1>6, MemoryPlanAssumption DEF BufferTypes
  <2>2. DOMAIN heaps' = Lanes' /\ Planned' = Planned
    BY <1>0, <1>1, <1>7, SameBuffers DEF IInv, PlanTypes
  <2> QED
    BY <1>0, <1>1, <1>7, <2>1, <2>2 DEF IInv, PlanTypes
<1>9. Opened'
  <2> SUFFICES ASSUME NEW c \in Planned
               PROVE  /\ c \in DOMAIN offsets <=> OpenEvent(c) \notin events'
                      /\ OpenEvent(c) \in events' => CloseEvent(c) \in events'
    BY <1>0, SameBuffers DEF Opened
  <2>1. /\ c \in DOMAIN offsets <=> OpenEvent(c) \notin events
        /\ OpenEvent(c) \in events => CloseEvent(c) \in events
    BY <1>1 DEF IInv, Opened
  <2>2. CloseEvent(b) # OpenEvent(c) /\ (CloseEvent(c) = CloseEvent(b) => c = b)
    BY EventsDiffer
  <2> QED
    BY <1>0, <1>4, <2>1, <2>2
<1>10. HeapsInv'
  BY <1>5, <1>7 DEF IInv, HeapsInv
<1>11. /\ \A c \in DOMAIN offsets : Live(c)' <=> Live(c) /\ c # b
       /\ \A c : Lane(c)' = Lane(c) /\ NBytes(bytes[c])' = NBytes(bytes[c]) /\ InUse(c)' = InUse(c)
  <2>1. \A c : CloseEvent(c)' = CloseEvent(c) /\ Lane(c)' = Lane(c) /\ InUse(c)' = InUse(c)
               /\ NBytes(bytes[c])' = NBytes(bytes[c])
    BY <1>0, SameBuffers
  <2>2. \A c : CloseEvent(c) = CloseEvent(b) => c = b
    BY EventsDiffer
  <2> QED
    BY <1>0, <2>1, <2>2 DEF Live
<1>12. ASSUME NEW c \in DOMAIN offsets, Live(c)'
       PROVE  /\ IsTaken(heaps'[Lane(c)], offsets[c])
              /\ heaps'[Lane(c)].blocks[offsets[c]].size >= NBytes(bytes[c])
  <2>1. /\ c \in Planned /\ c # b /\ Live(c)
        /\ IsTaken(heaps[Lane(c)], offsets[c])
        /\ heaps[Lane(c)].blocks[offsets[c]].size >= NBytes(bytes[c])
    BY <1>11, <1>12 DEF IInv, LiveTaken, PlanTypes
  <2>2. Lane(c) \in DOMAIN heaps
    BY <2>1, <1>1, LaneOfPlanned DEF IInv
  <2>3. CASE Lane(c) = l
    <3>1. offsets[c] # offsets[b]
      BY <2>1, <2>3, <1>4 DEF IInv, LiveDistinct, l
    <3>2. offsets[c] \in DOMAIN h.blocks
      BY <2>1, <2>3 DEF IsTaken, h
    <3> QED
      BY <2>1, <2>3, <3>1, <3>2, <1>5, <1>7 DEF h
  <2>4. CASE Lane(c) # l
    BY <2>1, <2>2, <2>4, <1>7
  <2> QED
    BY <2>3, <2>4
<1>13. LiveTaken' /\ LiveDistinct'
  BY <1>0, <1>11, <1>12 DEF IInv, LiveTaken, LiveDistinct
<1>14. LifetimesDisjoint'
  BY <1>0, <1>11 DEF IInv, LifetimesDisjoint, ArenaRange
<1> QED
  BY <1>1, <1>6, <1>8, <1>9, <1>10, <1>13, <1>14 DEF IInv

LEMMA MergesKeep == ASSUME IInv, NEW l \in DOMAIN heaps, Merge(l) PROVE IInv'
<1> DEFINE h == heaps[l]
           g == MergeStep(h)
<1>0. /\ Busy(h) /\ heaps' = [heaps EXCEPT ![l] = g]
      /\ UNCHANGED buffers /\ UNCHANGED <<events, offsets, peaks>>
  BY DEF Merge
<1>1. /\ HeapInv(g)
      /\ \A s : IsTaken(g, s) <=> IsTaken(h, s)
      /\ \A s : IsTaken(h, s) => g.blocks[s].size = h.blocks[s].size
  BY <1>0, MergeKeeps DEF IInv, HeapsInv
<1> HIDE DEF g, h
<1>2. BufferTypes' /\ Ordered' /\ scanned' = scanned
  BY <1>0, BuffersKept DEF IInv
<1>3. /\ DOMAIN heaps' = DOMAIN heaps /\ heaps'[l] = g
      /\ \A k \in DOMAIN heaps \ {l} : heaps'[k] = heaps[k]
      /\ heaps' = [k \in DOMAIN heaps' |-> heaps'[k]]
  BY <1>0 DEF IInv, PlanTypes
<1>4. /\ Planned' = Planned /\ Lanes' = Lanes /\ AllEvents' = AllEvents
      /\ \A b : /\ Lane(b)' = Lane(b) /\ NBytes(bytes[b])' = NBytes(bytes[b])
                /\ OpenEvent(b)' = OpenEvent(b) /\ CloseEvent(b)' = CloseEvent(b)
                /\ InUse(b)' = InUse(b)
  BY <1>0, SameBuffers
<1>5. PlanTypes'
  BY <1>0, <1>2, <1>3, <1>4 DEF IInv, PlanTypes
<1>6. Sorted' /\ Opened'
  BY <1>0, <1>2, <1>4 DEF IInv, Sorted, Opened, Before
<1>7. HeapsInv'
  BY <1>1, <1>3 DEF IInv, HeapsInv
<1>8. \A b \in DOMAIN offsets : Live(b)' <=> Live(b)
  BY <1>0, <1>4 DEF Live
<1>9. \A b \in DOMAIN offsets : Live(b) =>
        /\ IsTaken(heaps'[Lane(b)], offsets[b])
        /\ heaps'[Lane(b)].blocks[offsets[b]].size >= NBytes(bytes[b])
  <2> SUFFICES ASSUME NEW b \in DOMAIN offsets, Live(b)
               PROVE  /\ IsTaken(heaps'[Lane(b)], offsets[b])
                      /\ heaps'[Lane(b)].blocks[offsets[b]].size >= NBytes(bytes[b])
    OBVIOUS
  <2>1. /\ IsTaken(heaps[Lane(b)], offsets[b])
        /\ heaps[Lane(b)].blocks[offsets[b]].size >= NBytes(bytes[b])
    BY DEF IInv, LiveTaken
  <2>2. Lane(b) \in DOMAIN heaps
    <3>1. scanned > NumCalls /\ b \in Planned
      BY MemoryPlanAssumption DEF IInv, PlanTypes, BufferTypes
    <3> QED
      BY <3>1, LaneOfPlanned DEF IInv
  <2>3. CASE Lane(b) = l
    BY <2>1, <2>3, <1>1, <1>3 DEF h
  <2>4. CASE Lane(b) # l
    BY <2>1, <2>2, <2>4, <1>3
  <2> QED
    BY <2>3, <2>4
<1>10. LiveTaken' /\ LiveDistinct'
  BY <1>0, <1>4, <1>8, <1>9 DEF IInv, LiveTaken, LiveDistinct
<1>11. LifetimesDisjoint'
  BY <1>0, <1>4 DEF IInv, LifetimesDisjoint, ArenaRange
<1> QED
  BY <1>2, <1>5, <1>6, <1>7, <1>10, <1>11 DEF IInv

LEMMA StutterKeeps == ASSUME IInv, UNCHANGED vars PROVE IInv'
<1>1. UNCHANGED buffers /\ UNCHANGED <<events, offsets, heaps, peaks>>
  BY DEF vars, buffers
<1>2. /\ Planned' = Planned /\ Lanes' = Lanes /\ AllEvents' = AllEvents
      /\ \A b : /\ Lane(b)' = Lane(b) /\ NBytes(bytes[b])' = NBytes(bytes[b])
                /\ OpenEvent(b)' = OpenEvent(b) /\ CloseEvent(b)' = CloseEvent(b)
                /\ InUse(b)' = InUse(b)
  BY <1>1, SameBuffers
<1>3. BufferTypes' /\ Ordered' /\ scanned' = scanned
  BY <1>1, BuffersKept DEF IInv
<1>4. PlanTypes' /\ Sorted' /\ Opened' /\ HeapsInv'
  BY <1>1, <1>2, <1>3 DEF IInv, PlanTypes, Sorted, Opened, HeapsInv, Before
<1>5. LiveTaken' /\ LiveDistinct' /\ LifetimesDisjoint'
  BY <1>1, <1>2 DEF IInv, LiveTaken, LiveDistinct, LifetimesDisjoint, Live, ArenaRange
<1> QED
  BY <1>3, <1>4, <1>5 DEF IInv

LEMMA StepHolds == IInv /\ [Next]_vars => IInv'
<1> SUFFICES ASSUME IInv, [Next]_vars PROVE IInv'
  OBVIOUS
<1>1. ASSUME NEW bufs \in SUBSET Buffer, NEW copy \in BOOLEAN, ReadCall(bufs, copy) PROVE IInv'
  BY <1>1, ReadCallKeeps
<1>2. CASE SortEvents
  BY <1>2, SortEventsKeeps
<1>3. ASSUME NEW b \in Planned, Open(b) PROVE IInv'
  BY <1>3, OpenKeeps
<1>4. ASSUME NEW b \in Planned, Close(b) PROVE IInv'
  BY <1>4, CloseKeeps
<1>5. ASSUME NEW l \in DOMAIN heaps, Merge(l) PROVE IInv'
  BY <1>5, MergesKeep
<1>6. CASE Return \/ UNCHANGED vars
  BY <1>6, StutterKeeps DEF Return
<1> QED
  BY <1>1, <1>2, <1>3, <1>4, <1>5, <1>6 DEF Next

LEMMA Invariant == Spec => []IInv
  BY InitHolds, StepHolds, PTL DEF Spec

-----------------------------------------------------------------------------
\* The planner's tables keep their shape: every planned buffer has its times, size and
\* device, and an offset only of its own lane (the dictionaries of memory_plan_rewrite).
THEOREM TypeCorrect == Spec => []TypeOK
<1>1. IInv => TypeOK
  BY DEF IInv, BufferTypes, PlanTypes, AllEvents, TypeOK
<1> QED
  BY <1>1, Invariant, PTL

\* For every schedule, however long, and whatever was split and merged before: buffers
\* of a lane that are in use at the same call are given disjoint parts of the arena.
THEOREM LifetimesStayDisjoint == Spec => []LifetimesDisjoint
<1>1. IInv => LifetimesDisjoint
  BY DEF IInv
<1> QED
  BY <1>1, Invariant, PTL

-----------------------------------------------------------------------------
(* The shape of the heaps is preserved too; IInv is the context it needs.  *)

BinsOf(total) == (0..BitLength(total)) \X (0..(2^L2Cnt - 1))

\* A heap that manages the whole arena, with a bin for every bucket.
Sized(h, total) == h.total = total /\ DOMAIN h.bins = BinsOf(total)

ShapeInv ==
  scanned > NumCalls =>
    \A l \in DOMAIN heaps : HeapShape(heaps[l]) /\ Sized(heaps[l], TotalMemory)

LEMMA NewHeapSized ==
  ASSUME NEW total \in Nat \ {0}
  PROVE  Sized(NewHeap(total), total)
  BY DEF NewHeap, InsertBlock, Sized, BinsOf

\* No step after the sort changes the arena.
LEMMA SameTotal ==
  ASSUME UNCHANGED buffers
  PROVE  TotalMemory' = TotalMemory /\ scanned' = scanned
  BY DEF buffers, TotalMemory, Planned

LEMMA ShapeOfSort == ASSUME IInv, SortEvents PROVE ShapeInv'
<1>1. /\ heaps' = [l \in Lanes |-> NewHeap(TotalMemory)] /\ UNCHANGED <<first, bytes>>
  BY DEF SortEvents
<1>2. TotalMemory' = TotalMemory
  BY <1>1 DEF TotalMemory, Planned
<1>3. ASSUME NEW l \in Lanes PROVE TotalMemory \in Nat \ {0}
  <2>1. Planned # {}
    BY <1>3 DEF Lanes
  <2> QED
    BY <2>1, SumsPositive DEF IInv
<1> HIDE DEF TotalMemory
<1>4. ASSUME NEW l \in Lanes
      PROVE  HeapShape(NewHeap(TotalMemory)) /\ Sized(NewHeap(TotalMemory), TotalMemory)
  BY <1>3, <1>4, NewHeapShape, NewHeapSized
<1> QED
  BY <1>1, <1>2, <1>4 DEF ShapeInv

\* A step that changes the heap of one lane
LEMMA ShapeOfStep ==
  ASSUME ShapeInv, UNCHANGED buffers, scanned > NumCalls, NEW l \in DOMAIN heaps, NEW g,
         heaps' = [heaps EXCEPT ![l] = g],
         HeapShape(g), Sized(g, heaps[l].total)
  PROVE  ShapeInv'
<1>1. TotalMemory' = TotalMemory /\ scanned' = scanned
  BY SameTotal
<1> HIDE DEF TotalMemory
<1>2. Sized(g, TotalMemory)
  BY DEF ShapeInv, Sized
<1>3. /\ DOMAIN heaps' = DOMAIN heaps /\ heaps'[l] = g
      /\ \A k \in DOMAIN heaps \ {l} : heaps'[k] = heaps[k]
  OBVIOUS
<1> QED
  BY <1>1, <1>2, <1>3 DEF ShapeInv

LEMMA ShapeOfOpen == ASSUME IInv, ShapeInv, NEW b \in Planned, Open(b) PROVE ShapeInv'
<1> DEFINE l == Lane(b)
           h == heaps[l]
           n == NBytes(bytes[b])
<1>0. /\ IsNext(OpenEvent(b)) /\ events' = events \ {OpenEvent(b)} /\ UNCHANGED buffers
      /\ OpenEvent(b) \in AllEvents
  BY DEF Open, AllEvents
<1>1. PICK at \in Chosen(h, n, 1) :
        /\ BlockFits(h, at, n, 1)
        /\ heaps' = [heaps EXCEPT ![l] = Alloc(h, at, at, Request(n))]
  BY DEF Open
<1> DEFINE g == Alloc(h, at, at, Request(n))
<1>2. scanned > NumCalls
  BY <1>0, NextEvent
<1>3. l \in DOMAIN heaps /\ HeapInv(h) /\ ~Busy(h)
  BY <1>0, <1>2, LaneOfPlanned DEF IInv, HeapsInv, IsNext
<1>4. /\ SearchSize(n, 1) \in Nat /\ SearchSize(n, 1) >= Request(n)
      /\ Request(n) \in Nat \ {0}
  BY SizesOfBuffers DEF IInv
<1>5. at \in DOMAIN h.blocks /\ h.blocks[at].free
  BY <1>1, <1>3, ChosenFree
<1>6. at \in Nat /\ at <= at /\ at + Request(n) <= EndOf(h, at)
  <2>1. /\ at \in Nat /\ EndOf(h, at) = at + h.blocks[at].size /\ h.blocks[at].size \in Nat
    BY <1>3, <1>5, BlockFacts
  <2>2. h.blocks[at].size >= SearchSize(n, 1)
    BY <1>1 DEF BlockFits
  <2> QED
    BY <1>4, <2>1, <2>2
<1>7. HeapShape(h) /\ Sized(h, h.total)
  BY <1>2, <1>3 DEF ShapeInv, Sized
<1>8. HeapShape(g) /\ DOMAIN g.bins = DOMAIN h.bins
  BY <1>3, <1>4, <1>5, <1>6, <1>7, AllocShape
<1>9. g.total = h.total
  BY <1>3, <1>4, <1>5, <1>6, AllocKeeps
<1>10. Sized(g, h.total)
  BY <1>7, <1>8, <1>9 DEF Sized
<1> HIDE DEF g, l
<1> QED
  BY <1>0, <1>1, <1>2, <1>3, <1>8, <1>10, ShapeOfStep DEF g

LEMMA ShapeOfClose == ASSUME IInv, ShapeInv, NEW b \in Planned, Close(b) PROVE ShapeInv'
<1> DEFINE l == Lane(b)
           h == heaps[l]
           g == FreeBlock(h, offsets[b])
<1>0. /\ IsNext(CloseEvent(b)) /\ events' = events \ {CloseEvent(b)} /\ UNCHANGED buffers
      /\ CloseEvent(b) \in events /\ CloseEvent(b) \in AllEvents
      /\ heaps' = [heaps EXCEPT ![l] = g]
  BY DEF Close, IsNext, AllEvents
<1>1. scanned > NumCalls
  BY <1>0, NextEvent
<1>2. l \in DOMAIN heaps /\ HeapInv(h) /\ ~Busy(h)
  BY <1>0, <1>1, LaneOfPlanned DEF IInv, HeapsInv, IsNext
<1>3. IsTaken(h, offsets[b])
  <2>1. ~Before(CloseEvent(b), OpenEvent(b))
    BY Times DEF IInv, Before, CloseEvent, OpenEvent
  <2>2. OpenEvent(b) \notin events
    BY <1>0, <2>1 DEF IsNext
  <2>3. b \in DOMAIN offsets /\ Live(b)
    BY <1>0, <1>1, <2>2 DEF IInv, Opened, Live
  <2> QED
    BY <2>3 DEF IInv, LiveTaken
<1>4. HeapShape(h) /\ Sized(h, h.total)
  BY <1>1, <1>2 DEF ShapeInv, Sized
<1>5. HeapShape(g) /\ DOMAIN g.bins = DOMAIN h.bins
  BY <1>2, <1>3, <1>4, FreeShape
<1>6. g.total = h.total
  BY <1>2, <1>3, FreeKeeps
<1>7. Sized(g, h.total)
  BY <1>4, <1>5, <1>6 DEF Sized
<1> HIDE DEF g, l
<1> QED
  BY <1>0, <1>1, <1>2, <1>5, <1>7, ShapeOfStep DEF g

LEMMA ShapeOfMerge ==
  ASSUME IInv, ShapeInv, NEW l \in DOMAIN heaps, Merge(l)
  PROVE  ShapeInv'
<1> DEFINE h == heaps[l]
           g == MergeStep(h)
<1>0. Busy(h) /\ heaps' = [heaps EXCEPT ![l] = g] /\ UNCHANGED buffers
  BY DEF Merge
<1>1. scanned > NumCalls /\ HeapInv(h)
  BY DEF IInv, PlanTypes, HeapsInv
<1>2. HeapShape(h) /\ Sized(h, h.total)
  BY <1>1 DEF ShapeInv, Sized
<1>3. HeapShape(g) /\ DOMAIN g.bins = DOMAIN h.bins
  BY <1>0, <1>1, <1>2, MergeShape
<1>4. g.total = h.total
  BY <1>0, <1>1, MergeKeeps
<1>5. Sized(g, h.total)
  BY <1>2, <1>3, <1>4 DEF Sized
<1> HIDE DEF g
<1> QED
  BY <1>0, <1>1, <1>3, <1>5, ShapeOfStep DEF g

LEMMA ShapeStep == IInv /\ ShapeInv /\ [Next]_vars => ShapeInv'
<1> SUFFICES ASSUME IInv, ShapeInv, [Next]_vars PROVE ShapeInv'
  OBVIOUS
<1>1. ASSUME NEW bufs \in SUBSET Buffer, NEW copy \in BOOLEAN, ReadCall(bufs, copy)
      PROVE  ShapeInv'
  <2>1. ~(scanned' > NumCalls)
    BY <1>1, MemoryPlanAssumption DEF ReadCall, IInv, BufferTypes
  <2> QED
    BY <2>1 DEF ShapeInv
<1>2. CASE SortEvents
  BY <1>2, ShapeOfSort
<1>3. ASSUME NEW b \in Planned, Open(b) PROVE ShapeInv'
  BY <1>3, ShapeOfOpen
<1>4. ASSUME NEW b \in Planned, Close(b) PROVE ShapeInv'
  BY <1>4, ShapeOfClose
<1>5. ASSUME NEW l \in DOMAIN heaps, Merge(l) PROVE ShapeInv'
  BY <1>5, ShapeOfMerge
<1>6. CASE Return \/ UNCHANGED vars
  <2>1. UNCHANGED buffers /\ heaps' = heaps
    BY <1>6 DEF Return, vars, buffers
  <2>2. TotalMemory' = TotalMemory /\ scanned' = scanned
    BY <2>1, SameTotal
  <2> HIDE DEF TotalMemory
  <2> QED
    BY <2>1, <2>2 DEF ShapeInv
<1> QED
  BY <1>1, <1>2, <1>3, <1>4, <1>5, <1>6 DEF Next

LEMMA ShapeInvariant == Spec => []ShapeInv
<1>1. Init => ShapeInv
  BY MemoryPlanAssumption DEF Init, ShapeInv
<1> QED
  BY <1>1, Invariant, ShapeStep, PTL DEF Spec

\* A bin exists for every block of a heap.
LEMMA BinsSuffice ==
  ASSUME NEW h, HeapInv(h), Sized(h, TotalMemory)
  PROVE  \A s \in DOMAIN h.blocks : Bucket(h.blocks[s].size) \in DOMAIN h.bins
<1> SUFFICES ASSUME NEW s \in DOMAIN h.blocks
             PROVE  Bucket(h.blocks[s].size) \in DOMAIN h.bins
  OBVIOUS
<1>1. DOMAIN h.bins = BinsOf(h.total)
  BY DEF Sized
<1>2. PICK size \in Nat \ {0} : size = h.blocks[s].size /\ h.total \in Nat \ {0} /\ size <= h.total
  <2>1. PICK n : n = h.blocks[s].size
    OBVIOUS
  <2>2. /\ s \in Nat /\ n \in Nat \ {0} /\ EndOf(h, s) = s + n
        /\ EndOf(h, s) <= h.total /\ h.total \in Nat
    BY <2>1, BlockFacts
  <2>3. n \in Nat \ {0} /\ n <= h.total /\ h.total \in Nat \ {0}
    BY <2>2
  <2> QED
    BY <2>1, <2>3
<1>3. Lv1(size) \in Nat \ {0} /\ Lv2(size) \in 0..(2^L2Cnt - 1)
  BY LevelsAre
<1>4. BitLength(size) <= BitLength(h.total) /\ BitLength(h.total) \in Nat
  BY <1>2, BitLengthsGrow, BitLengthIs
<1>5. Lv1(size) \in 0..BitLength(h.total)
  BY <1>3, <1>4 DEF Lv1
<1> QED
  BY <1>1, <1>2, <1>3, <1>5 DEF Bucket, BinsOf

\* Between and during the calls of the planner its allocators are consistent, for any
\* schedule: blocks tile the space, each is linked to the one before it, no two free
\* neighbours outlive a merge, and bins and counts list exactly the free blocks.
THEOREM HeapsStayConsistent == Spec => []HeapsConsistent
<1>1. IInv /\ ShapeInv => HeapsConsistent
  <2> SUFFICES ASSUME IInv, ShapeInv, NEW l \in DOMAIN heaps PROVE HeapOK(heaps[l])
    BY DEF HeapsConsistent
  <2>1. scanned > NumCalls
    BY DEF IInv, PlanTypes
  <2>2. HeapInv(heaps[l]) /\ HeapShape(heaps[l]) /\ Sized(heaps[l], TotalMemory) /\ BufferTypes
    BY <2>1 DEF IInv, HeapsInv, ShapeInv
  <2>3. \A s \in DOMAIN heaps[l].blocks : Bucket(heaps[l].blocks[s].size) \in DOMAIN heaps[l].bins
    BY <2>2, BinsSuffice
  <2> QED
    BY <2>2, <2>3, ShapeIsOK
<1> QED
  BY <1>1, Invariant, ShapeInvariant, PTL

-----------------------------------------------------------------------------
(***************************************************************************)
(* Why alloc never fails in the planner.  Blocks are taken from the first  *)
(* bytes of the arena on: no block starts behind the bytes of the buffers  *)
(* that were opened in the lane so far, so what is left behind the last of *)
(* them is more than the bytes of all buffers together.                    *)
(***************************************************************************)

\* No block starts behind n, and none that is handed out ends there.
Below(h, n) == \A s \in DOMAIN h.blocks : s <= n /\ (~h.blocks[s].free => EndOf(h, s) <= n)

\* A heap counts the free blocks of every first level up to its own.
Levels(h) == DOMAIN h.entries = 0..BitLength(h.total)

LEMMA NewBelow ==
  ASSUME NEW total \in Nat \ {0}
  PROVE  Below(NewHeap(total), 0) /\ Levels(NewHeap(total))
<1>1. /\ DOMAIN NewHeap(total).blocks = {0} /\ NewHeap(total).blocks[0].free
      /\ NewHeap(total).total = total /\ DOMAIN NewHeap(total).entries = 0..BitLength(total)
  BY DEF NewHeap, InsertBlock, Block
<1> QED
  BY <1>1 DEF Below, Levels

LEMMA FreeBelow ==
  ASSUME NEW h, HeapInv(h), ~Busy(h), NEW start, IsTaken(h, start), NEW n, Below(h, n), Levels(h)
  PROVE  Below(FreeBlock(h, start), n) /\ Levels(FreeBlock(h, start))
<1> DEFINE g == FreeBlock(h, start)
<1>1. /\ g.total = h.total /\ DOMAIN g.blocks = DOMAIN h.blocks
      /\ \A s \in DOMAIN h.blocks : g.blocks[s].size = h.blocks[s].size
      /\ \A s : IsTaken(g, s) <=> IsTaken(h, s) /\ s # start
  BY FreeKeeps
<1>2. DOMAIN g.entries = DOMAIN h.entries
  BY DEF FreeBlock, InsertBlock, HeapInv, HeapType
<1> HIDE DEF g
<1>3. Below(g, n)
  BY <1>1 DEF Below, IsTaken, EndOf
<1> QED
  BY <1>1, <1>2, <1>3 DEF Levels, g

LEMMA MergeBelow ==
  ASSUME NEW h, HeapInv(h), Busy(h), NEW n, Below(h, n), Levels(h)
  PROVE  Below(MergeStep(h), n) /\ Levels(MergeStep(h))
<1> DEFINE g == MergeStep(h)
           start == h.merging
<1>0. HeapType(h) /\ start \in DOMAIN h.blocks
  BY DEF HeapInv, MergingFree
<1>1. /\ g.total = h.total /\ \A s : IsTaken(g, s) <=> IsTaken(h, s)
      /\ \A s : IsTaken(h, s) => g.blocks[s].size = h.blocks[s].size
  BY MergeKeeps
<1>2. DOMAIN g.blocks \subseteq DOMAIN h.blocks /\ DOMAIN g.entries = DOMAIN h.entries
  <2>1. CASE PrevFree(h, start)
    BY <1>0, <2>1 DEF MergeStep, HeapType
  <2>2. CASE ~PrevFree(h, start) /\ NextFree(h, start)
    BY <1>0, <2>2 DEF MergeStep, MergeNext, HeapType
  <2>3. CASE ~PrevFree(h, start) /\ ~NextFree(h, start)
    BY <1>0, <2>3 DEF MergeStep, MergeDone, HeapType
  <2> QED
    BY <2>1, <2>2, <2>3
<1> HIDE DEF g
<1>3. Below(g, n)
  BY <1>1, <1>2 DEF Below, IsTaken, EndOf
<1> QED
  BY <1>1, <1>2, <1>3 DEF Levels, g

LEMMA AllocBelow ==
  ASSUME NEW h, HeapInv(h), ~Busy(h), NEW at \in DOMAIN h.blocks, h.blocks[at].free,
         NEW size \in Nat \ {0}, at + size <= EndOf(h, at),
         NEW n \in Nat, Below(h, n), Levels(h)
  PROVE  Below(Alloc(h, at, at, size), n + size) /\ Levels(Alloc(h, at, at, size))
<1> DEFINE g == Alloc(h, at, at, size)
<1>0. HeapType(h) /\ at \in Nat /\ at <= at /\ DOMAIN h.blocks \subseteq Nat
  BY BlockFacts DEF HeapInv, HeapType
<1>1. PICK rest, tail : SplitOff(h, g, at, at, size, rest, tail)
  BY <1>0, AllocSplits
<1>2. DOMAIN g.entries = DOMAIN h.entries /\ g.total = h.total
  BY <1>0 DEF Alloc, HeapType
<1> HIDE DEF g
<1>3. /\ DOMAIN g.blocks = (DOMAIN h.blocks \ {at}) \cup {at, tail}
      /\ \A s \in DOMAIN h.blocks \ {at} :
           s # tail /\ g.blocks[s].free = h.blocks[s].free /\ EndOf(g, s) = EndOf(h, s)
      /\ EndOf(g, at) = at + size
      /\ tail = at \/ (tail = at + size /\ g.blocks[tail].free)
  BY <1>1 DEF SplitOff
<1>4. ASSUME NEW s \in DOMAIN g.blocks
      PROVE  s <= n + size /\ (~g.blocks[s].free => EndOf(g, s) <= n + size)
  <2>0. at <= n
    BY DEF Below
  <2>1. CASE s \in DOMAIN h.blocks \ {at}
    <3>1. /\ s \in Nat /\ s <= n /\ (~h.blocks[s].free => EndOf(h, s) <= n)
          /\ EndOf(h, s) \in Nat
      BY <1>0, <2>1, BlockFacts DEF Below
    <3> QED
      BY <1>3, <2>1, <3>1
  <2>2. CASE s = at
    BY <1>0, <1>3, <2>0, <2>2
  <2>3. CASE s = tail /\ tail # at
    BY <1>0, <1>3, <2>0, <2>3
  <2> QED
    BY <1>3, <2>1, <2>2, <2>3
<1> QED
  BY <1>2, <1>4 DEF Below, Levels, g

-----------------------------------------------------------------------------
(* The same for the lanes of the planner.                                  *)

OpenedIn(l) == {b \in DOMAIN offsets : Lane(b) = l}
LaneBytes(l) == SumBytes(OpenedIn(l), bytes)

SumInv ==
  \A l \in DOMAIN heaps :
    Below(heaps[l], LaneBytes(l)) /\ Levels(heaps[l]) /\ peaks[l] <= LaneBytes(l)

LEMMA LaneBytesNat ==
  ASSUME IInv, NEW l
  PROVE  /\ IsFiniteSet(OpenedIn(l)) /\ LaneBytes(l) \in Nat /\ OpenedIn(l) \in SUBSET Planned
         /\ \A b \in OpenedIn(l) : NBytes(bytes[b]) \in Nat
<1>1. OpenedIn(l) \in SUBSET Planned /\ BufferTypes
  BY DEF OpenedIn, IInv, PlanTypes
<1>2. IsFiniteSet(OpenedIn(l)) /\ \A b \in OpenedIn(l) : NBytes(bytes[b]) \in Nat
  BY <1>1, FinitelyMany
<1> QED
  BY <1>1, <1>2, SumStep DEF LaneBytes

\* A buffer that is opened adds its bytes to those of its lane.
LEMMA LaneBytesGrow ==
  ASSUME IInv, NEW b \in Planned, b \notin DOMAIN offsets,
         NEW S, S = OpenedIn(Lane(b)) \cup {b}
  PROVE  SumBytes(S, bytes) = NBytes(bytes[b]) + LaneBytes(Lane(b))
         /\ SumBytes(S, bytes) <= SumBytes(Planned, bytes) /\ SumBytes(S, bytes) \in Nat
         /\ SumBytes(Planned, bytes) \in Nat
<1>1. S \in SUBSET Planned /\ b \in S /\ S \ {b} = OpenedIn(Lane(b)) /\ BufferTypes
  BY LaneBytesNat DEF OpenedIn, IInv
<1>2. IsFiniteSet(S) /\ \A c \in S : NBytes(bytes[c]) \in Nat
  BY <1>1, FinitelyMany
<1>3. IsFiniteSet(Planned) /\ \A c \in Planned : NBytes(bytes[c]) \in Nat
  BY <1>1, FinitelyMany
<1>4. SumBytes(S, bytes) = NBytes(bytes[b]) + SumBytes(S \ {b}, bytes) /\ SumBytes(S, bytes) \in Nat
  BY <1>1, <1>2, SumStep
<1>5. SumBytes(S, bytes) <= SumBytes(Planned, bytes) /\ SumBytes(Planned, bytes) \in Nat
  BY <1>1, <1>3, SumGrows, SumStep
<1> QED
  BY <1>1, <1>4, <1>5 DEF LaneBytes

LEMMA SumOfSort == ASSUME IInv, SortEvents PROVE SumInv'
<1>1. /\ heaps' = [l \in Lanes |-> NewHeap(TotalMemory)] /\ peaks' = [l \in Lanes |-> 0]
      /\ UNCHANGED <<first, last, copied, bytes, device, offsets>> /\ DOMAIN offsets = {}
  BY MemoryPlanAssumption DEF SortEvents, IInv, PlanTypes
<1>2. \A l : LaneBytes(l)' = 0
  <2>1. IsFiniteSet({}) /\ SumBytes({}, bytes) = 0
    BY FS_EmptySet, SumStep
  <2>2. \A l : OpenedIn(l)' = {}
    BY <1>1 DEF OpenedIn
  <2> QED
    BY <1>1, <2>1, <2>2 DEF LaneBytes
<1>3. ASSUME NEW l \in Lanes PROVE Below(NewHeap(TotalMemory), 0) /\ Levels(NewHeap(TotalMemory))
  <2>1. Planned # {}
    BY DEF Lanes
  <2>2. TotalMemory \in Nat \ {0}
    BY <2>1, SumsPositive DEF IInv
  <2> HIDE DEF TotalMemory
  <2> QED
    BY <2>2, NewBelow
<1> HIDE DEF TotalMemory
<1> QED
  BY <1>1, <1>2, <1>3 DEF SumInv

LEMMA SumOfOpen == ASSUME IInv, SumInv, NEW b \in Planned, Open(b) PROVE SumInv'
<1> DEFINE l == Lane(b)
           h == heaps[l]
           n == NBytes(bytes[b])
<1>0. /\ IsNext(OpenEvent(b)) /\ events' = events \ {OpenEvent(b)} /\ UNCHANGED buffers
      /\ OpenEvent(b) \in events /\ OpenEvent(b) \in AllEvents
  BY DEF Open, IsNext, AllEvents
<1>1. PICK at \in Chosen(h, n, 1) :
        /\ BlockFits(h, at, n, 1)
        /\ heaps' = [heaps EXCEPT ![l] = Alloc(h, at, at, Request(n))]
        /\ offsets' = [c \in DOMAIN offsets \cup {b} |-> IF c = b THEN at ELSE offsets[c]]
        /\ peaks' = [peaks EXCEPT ![l] = IF at + bytes[b] > @ THEN at + bytes[b] ELSE @]
  BY DEF Open
<1>2. scanned > NumCalls
  BY <1>0, NextEvent
<1>3. l \in DOMAIN heaps /\ HeapInv(h) /\ ~Busy(h)
  BY <1>0, <1>2, LaneOfPlanned DEF IInv, HeapsInv, IsNext
<1>4. /\ n \in Nat \ {0} /\ Request(n) = n /\ SearchSize(n, 1) \in Nat /\ SearchSize(n, 1) >= n
      /\ bytes[b] \in Nat /\ bytes[b] <= n
  BY SizesOfBuffers DEF IInv
<1>5. at \in DOMAIN h.blocks /\ h.blocks[at].free /\ at \in Nat /\ at + n <= EndOf(h, at)
  <2>1. at \in DOMAIN h.blocks /\ h.blocks[at].free
    BY <1>1, <1>3, ChosenFree
  <2>2. at \in Nat /\ EndOf(h, at) = at + h.blocks[at].size /\ h.blocks[at].size \in Nat
    BY <1>3, <2>1, BlockFacts
  <2>3. h.blocks[at].size >= SearchSize(n, 1)
    BY <1>1 DEF BlockFits
  <2> QED
    BY <1>4, <2>1, <2>2, <2>3
<1> DEFINE g == Alloc(h, at, at, n)
           m == LaneBytes(l)
<1>6. m \in Nat /\ Below(h, m) /\ Levels(h) /\ peaks[l] <= m
  BY <1>3, LaneBytesNat DEF SumInv
<1>7. Below(g, m + n) /\ Levels(g)
  <2> HIDE DEF m, n
  <2> QED
    BY <1>3, <1>4, <1>5, <1>6, AllocBelow
<1>8. b \notin DOMAIN offsets
  BY <1>0, <1>2 DEF IInv, Opened
<1>9. ASSUME NEW k, k = l PROVE LaneBytes(k)' = m + n
  <2>1. \A c : Lane(c)' = Lane(c)
    BY <1>0, SameBuffers
  <2>2. OpenedIn(k)' = OpenedIn(l) \cup {b} /\ bytes' = bytes
    BY <1>0, <1>1, <1>9, <2>1 DEF OpenedIn, buffers
  <2>3. SumBytes(OpenedIn(l) \cup {b}, bytes) = n + m
    BY <1>8, LaneBytesGrow
  <2>4. n \in Nat /\ m \in Nat
    BY <1>4, <1>6
  <2> HIDE DEF n, m
  <2>5. n + m = m + n
    BY <2>4
  <2> QED
    BY <2>2, <2>3, <2>5 DEF LaneBytes
<1>10. ASSUME NEW k, k # l PROVE LaneBytes(k)' = LaneBytes(k)
  <2>1. \A c : Lane(c)' = Lane(c)
    BY <1>0, SameBuffers
  <2>2. OpenedIn(k)' = OpenedIn(k) /\ bytes' = bytes
    BY <1>0, <1>1, <1>10, <2>1 DEF OpenedIn, buffers
  <2> QED
    BY <2>2 DEF LaneBytes
<1>11. DOMAIN peaks = DOMAIN heaps /\ \A k \in DOMAIN peaks : peaks[k] \in Nat
  BY DEF IInv, PlanTypes
<1>12. at <= m
  BY <1>5, <1>6 DEF Below
<1>13. heaps' = [heaps EXCEPT ![l] = g]
  BY <1>1, <1>4
<1>14. peaks'[l] <= m + n
  <2>1. peaks'[l] = (IF at + bytes[b] > peaks[l] THEN at + bytes[b] ELSE peaks[l]) /\ peaks[l] \in Nat
    BY <1>1, <1>3, <1>11
  <2> HIDE DEF m, n, l
  <2> QED
    BY <1>4, <1>5, <1>6, <1>12, <2>1
<1> HIDE DEF g, m, n, l, h
<1>15. ASSUME NEW k \in DOMAIN heaps'
       PROVE  Below(heaps'[k], LaneBytes(k)') /\ Levels(heaps'[k]) /\ peaks'[k] <= LaneBytes(k)'
  <2>1. CASE k = l
    BY <1>3, <1>7, <1>9, <1>13, <1>14, <2>1
  <2>2. CASE k # l
    <3>1. k \in DOMAIN heaps /\ heaps'[k] = heaps[k] /\ peaks'[k] = peaks[k]
      BY <1>1, <1>11, <1>13, <1>15, <2>2
    <3> QED
      BY <1>10, <2>2, <3>1 DEF SumInv
  <2> QED
    BY <2>1, <2>2
<1> QED
  BY <1>15 DEF SumInv

\* A step that leaves the offsets alone and changes the heap of one lane
LEMMA SumOfStep ==
  ASSUME IInv, SumInv, UNCHANGED buffers, UNCHANGED <<offsets, peaks>>, NEW l \in DOMAIN heaps, NEW g,
         heaps' = [heaps EXCEPT ![l] = g], Below(g, LaneBytes(l)), Levels(g)
  PROVE  SumInv'
<1>1. \A k : LaneBytes(k)' = LaneBytes(k)
  <2>1. \A c : Lane(c)' = Lane(c)
    BY SameBuffers
  <2>2. bytes' = bytes /\ \A k : OpenedIn(k)' = OpenedIn(k)
    BY <2>1 DEF OpenedIn, buffers
  <2> QED
    BY <2>2 DEF LaneBytes
<1>2. /\ DOMAIN heaps' = DOMAIN heaps /\ heaps'[l] = g
      /\ \A k \in DOMAIN heaps \ {l} : heaps'[k] = heaps[k]
  OBVIOUS
<1> QED
  BY <1>1, <1>2 DEF SumInv

LEMMA SumStepHolds == IInv /\ ShapeInv /\ SumInv /\ [Next]_vars => SumInv'
<1> SUFFICES ASSUME IInv, ShapeInv, SumInv, [Next]_vars PROVE SumInv'
  OBVIOUS
<1>1. ASSUME NEW bufs \in SUBSET Buffer, NEW copy \in BOOLEAN, ReadCall(bufs, copy)
      PROVE  SumInv'
  <2>1. DOMAIN heaps' = {}
    BY <1>1, MemoryPlanAssumption DEF ReadCall, IInv, BufferTypes, PlanTypes
  <2> QED
    BY <2>1 DEF SumInv
<1>2. CASE SortEvents
  BY <1>2, SumOfSort
<1>3. ASSUME NEW b \in Planned, Open(b) PROVE SumInv'
  BY <1>3, SumOfOpen
<1>4. ASSUME NEW b \in Planned, Close(b) PROVE SumInv'
  <2> DEFINE l == Lane(b)
             h == heaps[l]
             g == FreeBlock(h, offsets[b])
  <2>0. /\ IsNext(CloseEvent(b)) /\ events' = events \ {CloseEvent(b)} /\ UNCHANGED buffers
        /\ UNCHANGED <<offsets, peaks>>
        /\ CloseEvent(b) \in events /\ CloseEvent(b) \in AllEvents
        /\ heaps' = [heaps EXCEPT ![l] = g]
    BY <1>4 DEF Close, IsNext, AllEvents
  <2>1. scanned > NumCalls
    BY <2>0, NextEvent
  <2>2. l \in DOMAIN heaps /\ HeapInv(h) /\ ~Busy(h)
    BY <2>0, <2>1, LaneOfPlanned DEF IInv, HeapsInv, IsNext
  <2>3. IsTaken(h, offsets[b])
    <3>1. ~Before(CloseEvent(b), OpenEvent(b))
      BY Times DEF IInv, Before, CloseEvent, OpenEvent
    <3>2. OpenEvent(b) \notin events
      BY <2>0, <3>1 DEF IsNext
    <3>3. b \in DOMAIN offsets /\ Live(b)
      BY <2>0, <2>1, <3>2 DEF IInv, Opened, Live
    <3> QED
      BY <3>3 DEF IInv, LiveTaken
  <2>4. Below(h, LaneBytes(l)) /\ Levels(h)
    BY <2>2 DEF SumInv
  <2>5. Below(g, LaneBytes(l)) /\ Levels(g)
    BY <2>2, <2>3, <2>4, FreeBelow
  <2> HIDE DEF g, l
  <2> QED
    BY <2>0, <2>2, <2>5, SumOfStep
<1>5. ASSUME NEW l \in DOMAIN heaps, Merge(l) PROVE SumInv'
  <2> DEFINE h == heaps[l]
             g == MergeStep(h)
  <2>0. Busy(h) /\ heaps' = [heaps EXCEPT ![l] = g] /\ UNCHANGED buffers /\ UNCHANGED <<offsets, peaks>>
    BY <1>5 DEF Merge
  <2>1. HeapInv(h) /\ Below(h, LaneBytes(l)) /\ Levels(h)
    BY DEF IInv, HeapsInv, SumInv
  <2>2. Below(g, LaneBytes(l)) /\ Levels(g)
    BY <2>0, <2>1, MergeBelow
  <2> HIDE DEF g
  <2> QED
    BY <2>0, <2>2, SumOfStep
<1>6. CASE Return \/ UNCHANGED vars
  <2>1. UNCHANGED buffers /\ heaps' = heaps /\ offsets' = offsets /\ peaks' = peaks
    BY <1>6 DEF Return, vars, buffers
  <2>2. \A c : Lane(c)' = Lane(c)
    BY <2>1, SameBuffers
  <2>3. bytes' = bytes /\ \A k : OpenedIn(k)' = OpenedIn(k)
    BY <2>1, <2>2 DEF OpenedIn, buffers
  <2>4. \A k : LaneBytes(k)' = LaneBytes(k)
    BY <2>3 DEF LaneBytes
  <2> QED
    BY <2>1, <2>4 DEF SumInv
<1> QED
  BY <1>1, <1>2, <1>3, <1>4, <1>5, <1>6 DEF Next

LEMMA SumInvariant == Spec => []SumInv
<1>1. Init => SumInv
  BY DEF Init, SumInv, Empty
<1> QED
  BY <1>1, Invariant, ShapeInvariant, SumStepHolds, PTL DEF Spec

-----------------------------------------------------------------------------
(* A heap with a free block that is large enough has one for alloc.        *)

LEMMA FirstPair ==
  ASSUME NEW S \in SUBSET (Nat \X Nat), S # {}
  PROVE  \E b \in S : \A c \in S : b[1] < c[1] \/ (b[1] = c[1] /\ b[2] <= c[2])
<1>1. PICK T : T = {b[1] : b \in S}
  OBVIOUS
<1>2. T \in SUBSET Nat /\ T # {}
  BY <1>1
<1>3. PICK l \in T : \A k \in T : l <= k
  BY <1>2, LeastNat
<1>4. PICK U : U = {b[2] : b \in {c \in S : c[1] = l}}
  OBVIOUS
<1>5. U \in SUBSET Nat /\ U # {}
  BY <1>1, <1>4
<1>6. PICK m \in U : \A k \in U : m <= k
  BY <1>5, LeastNat
<1>7. PICK b \in S : b[1] = l /\ b[2] = m
  BY <1>4
<1>8. ASSUME NEW c \in S PROVE b[1] < c[1] \/ (b[1] = c[1] /\ b[2] <= c[2])
  <2>1. c[1] \in T /\ (c[1] = l => c[2] \in U) /\ c[1] \in Nat /\ l \in Nat
    BY <1>1, <1>2, <1>4
  <2> QED
    BY <1>3, <1>6, <1>7, <2>1
<1> QED
  BY <1>8

\* The block that ends where the space ends
LEMMA LastBlock ==
  ASSUME NEW h, HeapInv(h), Contiguous(h)
  PROVE  \E s \in DOMAIN h.blocks : EndOf(h, s) = h.total
<1>1. PICK T : T = {h.total - s : s \in DOMAIN h.blocks}
  OBVIOUS
<1>2. T \in SUBSET Nat /\ T # {}
  <2>1. ASSUME NEW s \in DOMAIN h.blocks PROVE h.total - s \in Nat
    <3>1. s \in Nat /\ EndOf(h, s) > s /\ EndOf(h, s) <= h.total /\ h.total \in Nat /\ EndOf(h, s) \in Nat
      BY BlockFacts
    <3> QED
      BY <3>1
  <2>2. 0 \in DOMAIN h.blocks
    BY DEF Contiguous
  <2> QED
    BY <1>1, <2>1, <2>2
<1>3. PICK x \in T : \A y \in T : x <= y
  BY <1>2, LeastNat
<1>4. PICK s \in DOMAIN h.blocks : x = h.total - s
  BY <1>1
<1>5. EndOf(h, s) \notin DOMAIN h.blocks
  <2> SUFFICES ASSUME EndOf(h, s) \in DOMAIN h.blocks PROVE FALSE
    OBVIOUS
  <2>1. x <= h.total - EndOf(h, s)
    BY <1>1, <1>3
  <2>2. s \in Nat /\ EndOf(h, s) \in Nat /\ EndOf(h, s) > s /\ h.total \in Nat
    BY BlockFacts
  <2> QED
    BY <1>4, <2>1, <2>2
<1> QED
  BY <1>5 DEF Contiguous

LEMMA SomeBlockFits ==
  ASSUME NEW h, HeapInv(h), HeapShape(h), Sized(h, TotalMemory), Levels(h),
         NEW n \in Nat, n >= BlockSize,
         NEW s \in DOMAIN h.blocks, h.blocks[s].free, h.blocks[s].size >= SearchSize(n, 1)
  PROVE  \E at \in Chosen(h, n, 1) : BlockFits(h, at, n, 1)
<1>1. PICK r : r = SearchSize(n, 1)
  OBVIOUS
<1>2. PICK size \in Nat \ {0} : size = h.blocks[s].size /\ size >= r
  BY <1>1, BlockFacts
<1>3. PICK l, m : l = Lv1(r) /\ m = Lv2(r) /\ l \in Nat /\ m \in Nat
  <2>1. r \in Nat \ {0}
    BY <1>1, SearchIs
  <2>2. Lv1(r) \in Nat \ {0} /\ Lv2(r) \in 0..(2^L2Cnt - 1) /\ 2^L2Cnt \in Nat
    BY <2>1, LevelsAre, TLSFAssumption, Powers
  <2> QED
    BY <2>2
<1>4. PICK b : b = Bucket(size) /\ b \in DOMAIN h.bins /\ b[1] = Lv1(size) /\ b[2] = Lv2(size)
               /\ b \in Nat \X Nat
  <2>1. Bucket(size) \in DOMAIN h.bins
    BY <1>2, BinsSuffice
  <2>2. Lv1(size) \in Nat \ {0} /\ Lv2(size) \in 0..(2^L2Cnt - 1) /\ 2^L2Cnt \in Nat
    BY LevelsAre, TLSFAssumption, Powers
  <2> QED
    BY <2>1, <2>2 DEF Bucket
<1>5. \A z \in Nat \ {0} : AtLeast(Bucket(z), Bucket(r)) <=> z >= r
  BY <1>1, BucketsFit
<1>6. Bucket(r)[1] = l /\ Bucket(r)[2] = m
  BY <1>3 DEF Bucket
<1>7. b \in Candidates(h, r)
  <2>1. AtLeast(b, Bucket(r))
    BY <1>2, <1>4, <1>5
  <2>2. b[1] >= l /\ (b[1] = l => b[2] >= m)
    BY <1>3, <1>4, <1>6, <2>1 DEF AtLeast
  <2>3. s \in Listed(h.bins[b])
    BY <1>2, <1>4, ListsBlock
  <2>4. h.bins[b] # <<>>
    BY <2>3 DEF Listed
  <2>5. s \in FreeAt(h, b[1])
    BY <1>2, <1>4 DEF FreeAt
  <2>6. Cardinality(FreeAt(h, b[1])) # 0
    BY <2>5, FreeFinite, FS_EmptySet
  <2>7. b[1] \in DOMAIN h.entries
    BY <1>4 DEF Sized, BinsOf, Levels
  <2>8. h.entries[b[1]] # 0
    BY <2>6, <2>7 DEF HeapShape, Counted
  <2> QED
    BY <1>3, <1>4, <2>2, <2>4, <2>8 DEF Candidates
<1>8. PICK found : found = Candidates(h, r)
  OBVIOUS
<1>9. found \in SUBSET (Nat \X Nat) /\ found # {}
  <2>1. BitLength(h.total) \in Nat /\ 2^L2Cnt \in Nat
    <3>1. h.total \in Nat \ {0}
      <4>1. PICK e : e = EndOf(h, s) /\ s \in Nat /\ e > s /\ e <= h.total /\ h.total \in Nat /\ e \in Nat
        BY BlockFacts
      <4> QED
        BY <4>1
    <3> QED
      BY <3>1, BitLengthIs, TLSFAssumption, Powers
  <2>2. DOMAIN h.bins = (0..BitLength(h.total)) \X (0..(2^L2Cnt - 1))
    BY DEF Sized, BinsOf
  <2>3. 0..BitLength(h.total) \subseteq Nat /\ 0..(2^L2Cnt - 1) \subseteq Nat
    BY <2>1
  <2>4. \A c \in DOMAIN h.bins : c \in Nat \X Nat
    BY <2>2, <2>3
  <2>5. \A c \in found : c \in DOMAIN h.bins
    BY <1>8 DEF Candidates
  <2> QED
    BY <1>7, <1>8, <2>4, <2>5
<1>10. PICK c \in found : \A d \in found : c[1] < d[1] \/ (c[1] = d[1] /\ c[2] <= d[2])
  BY <1>9, FirstPair
<1>11. PICK at : at = Head(h.bins[c])
  OBVIOUS
<1>12. at \in Chosen(h, n, 1)
  BY <1>1, <1>8, <1>10, <1>11 DEF Chosen
<1>13. c \in DOMAIN h.bins /\ h.bins[c] # <<>> /\ c[1] >= l /\ (c[1] = l => c[2] >= m) /\ c \in Nat \X Nat
  BY <1>3, <1>8, <1>9 DEF Candidates
<1>14. at \in DOMAIN h.blocks /\ Bucket(h.blocks[at].size) = c
  <2>1. h.bins[c] \in Seq(Nat) /\ Listed(h.bins[c]) = FreeOf(h, c)
    BY <1>13 DEF HeapInv, BinsOK, BinOK
  <2>2. Head(h.bins[c]) = h.bins[c][1] /\ 1 \in DOMAIN h.bins[c]
    BY <1>13, <2>1, HeadTailProperties, EmptySeq, LenProperties
  <2>3. at \in Listed(h.bins[c])
    BY <1>11, <2>2 DEF Listed
  <2> QED
    BY <2>1, <2>3 DEF FreeOf
<1>15. PICK z \in Nat \ {0} : z = h.blocks[at].size
  BY <1>14, BlockFacts
<1>16. AtLeast(c, Bucket(r))
  BY <1>3, <1>6, <1>13 DEF AtLeast
<1>17. z >= r
  BY <1>5, <1>14, <1>15, <1>16
<1> QED
  BY <1>1, <1>12, <1>15, <1>17 DEF BlockFits

-----------------------------------------------------------------------------
(* The planner's allocations and its arenas.                               *)

\* What is behind the last buffer is more than all of them need, so alloc finds a block.
LEMMA AllocSucceeds ==
  ASSUME IInv, ShapeInv, SumInv, NEW b \in Planned, IsNext(OpenEvent(b))
  PROVE  \E at \in Chosen(heaps[Lane(b)], NBytes(bytes[b]), 1) :
           BlockFits(heaps[Lane(b)], at, NBytes(bytes[b]), 1)
<1>1. PICK l, h, n : l = Lane(b) /\ h = heaps[l] /\ n = NBytes(bytes[b])
  OBVIOUS
<1>2. OpenEvent(b) \in events
  BY DEF IsNext
<1>3. scanned > NumCalls
  BY <1>2, MemoryPlanAssumption DEF IInv, PlanTypes, BufferTypes
<1>4. l \in DOMAIN heaps /\ HeapInv(h)
  BY <1>1, <1>3, LaneOfPlanned DEF IInv, HeapsInv
<1>5. HeapShape(h) /\ Sized(h, TotalMemory) /\ Levels(h) /\ Below(h, LaneBytes(l))
  BY <1>1, <1>3, <1>4 DEF ShapeInv, SumInv
<1>6. b \notin DOMAIN offsets
  BY <1>2, <1>3 DEF IInv, Opened
<1>7. /\ n \in Nat \ {0} /\ n >= BlockSize /\ SearchSize(n, 1) \in Nat /\ SearchSize(n, 1) < 2 * n
  BY <1>1, SizesOfBuffers DEF IInv
<1>8. PICK mine, all \in Nat : mine = LaneBytes(l) /\ all = SumBytes(Planned, bytes) /\ n + mine <= all
  <2>1. PICK S : S = OpenedIn(Lane(b)) \cup {b}
    OBVIOUS
  <2>2. /\ SumBytes(S, bytes) = n + LaneBytes(l) /\ SumBytes(S, bytes) <= SumBytes(Planned, bytes)
        /\ SumBytes(Planned, bytes) \in Nat
    BY <1>1, <1>6, <2>1, LaneBytesGrow
  <2>3. LaneBytes(l) \in Nat
    BY LaneBytesNat
  <2> QED
    BY <2>2, <2>3
<1>9. h.total = all * 2
  BY <1>5, <1>8 DEF Sized, TotalMemory
<1>10. PICK s \in DOMAIN h.blocks : EndOf(h, s) = h.total
  BY <1>4, <1>5, LastBlock DEF HeapShape
<1>11. s \in Nat /\ EndOf(h, s) = s + h.blocks[s].size /\ h.blocks[s].size \in Nat
  BY <1>4, BlockFacts
<1>12. s <= mine /\ (~h.blocks[s].free => EndOf(h, s) <= mine)
  BY <1>5, <1>8 DEF Below
<1>13. h.blocks[s].free
  BY <1>7, <1>8, <1>9, <1>10, <1>12
<1>14. h.blocks[s].size >= SearchSize(n, 1)
  <2>1. PICK x, r \in Nat : x = h.blocks[s].size /\ r = SearchSize(n, 1) /\ r < 2 * n
    BY <1>7, <1>11
  <2>2. s + x = all * 2 /\ s <= mine
    BY <1>9, <1>10, <1>11, <1>12, <2>1
  <2> QED
    BY <1>7, <1>8, <1>11, <2>1, <2>2
<1>15. \E at \in Chosen(h, n, 1) : BlockFits(h, at, n, 1)
  BY <1>4, <1>5, <1>7, <1>13, <1>14, SomeBlockFits
<1> QED
  BY <1>1, <1>15

\* No allocation of the planner fails, for any schedule, any sizes of its buffers and any
\* history of the heap, and the arena of a lane is never larger than its buffers are
\* together (memory.py:33-60).
THEOREM PlanningPaysOff == Spec => []PlanPaysOff
<1>1. IInv /\ ShapeInv /\ SumInv => PlanPaysOff
  <2> SUFFICES ASSUME IInv, ShapeInv, SumInv PROVE PlanPaysOff
    OBVIOUS
  <2>1. PlanSucceeds
    BY AllocSucceeds DEF PlanSucceeds
  <2>2. ArenaNeverGrows
    <3>1. DOMAIN peaks = DOMAIN heaps
      BY DEF IInv, PlanTypes
    <3> QED
      BY <3>1 DEF ArenaNeverGrows, SumInv, LaneBytes, OpenedIn
  <2> QED
    BY <2>1, <2>2 DEF PlanPaysOff
<1> QED
  BY <1>1, Invariant, ShapeInvariant, SumInvariant, PTL
=============================================================================
