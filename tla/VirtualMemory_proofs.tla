------------------------ MODULE VirtualMemory_proofs ------------------------
(***************************************************************************)
(* Proofs about VirtualMemory, for every size of the memories, shape of the *)
(* page tables, set of ranges and number of mappings: what the heaps have   *)
(* handed out has one owner, and the device finds in the tables what was    *)
(* mapped and nothing else.                                                 *)
(***************************************************************************)
EXTENDS PageTables

-----------------------------------------------------------------------------
(* Pages and what the entries of a level cover.                            *)

LEMMA PageIs == Page \in Nat \ {0}
<1>1. Levels \in Nat /\ LvlMsb[Levels + 1] \in Nat
  <2>1. LvlMsb \in Seq(Nat) /\ Len(LvlMsb) - 1 > 0
    BY VirtualMemoryAssumption DEF Levels
  <2>2. PICK n \in Nat : n = Len(LvlMsb)
    BY <2>1, LenProperties
  <2>3. Levels = n - 1 /\ n \in 1..Len(LvlMsb) /\ n - 1 + 1 = n
    BY <2>1, <2>2 DEF Levels
  <2>4. LvlMsb[n] \in Nat
    BY <2>1, <2>3, ElementOfSeq
  <2> QED
    BY <2>2, <2>3, <2>4
<1>2. PICK k \in Nat : k = LvlMsb[Levels + 1]
  BY <1>1
<1>3. Page = 2^k
  BY <1>2, VirtualMemoryAssumption
<1> QED
  BY <1>3, Powers

LEMMA PagedIs == ASSUME NEW n \in Nat PROVE Paged(n) <=> n % Page = 0
<1>0. Page \in Nat \ {0}
  BY PageIs
<1>1. ASSUME n % Page = 0 PROVE Paged(n)
  <2>1. n \div Page \in Nat /\ n = Page * (n \div Page) + (n % Page)
    BY <1>0, Modulo
  <2>2. n = Page * (n \div Page)
    BY <1>0, <1>1, <2>1
  <2> QED
    BY <2>1, <2>2 DEF Paged
<1>2. ASSUME NEW k \in Nat, n = Page * k PROVE n % Page = 0
  <2>1. PICK q \in Nat, r \in 0..(Page - 1) : q = n \div Page /\ r = n % Page /\ n = Page * q + r
    BY <1>0, Modulo
  <2>2. CASE k <= q
    <3>1. Page * k <= Page * q
      BY <1>0, <2>2, Multiply
    <3> QED
      BY <1>0, <1>2, <2>1, <3>1
  <2>3. CASE q + 1 <= k
    <3>1. Page * (q + 1) <= Page * k /\ Page * (q + 1) = Page * q + Page
      BY <1>0, <2>3, Multiply
    <3> QED
      BY <1>0, <1>2, <2>1, <3>1
  <2> QED
    BY <2>1, <2>2, <2>3
<1> QED
  BY <1>1, <1>2 DEF Paged

LEMMA PagedZero == Paged(0)
  BY PageIs DEF Paged

LEMMA PagedSum == ASSUME NEW m \in Nat, NEW n \in Nat, Paged(m), Paged(n) PROVE Paged(m + n)
<1>1. PICK k \in Nat, j \in Nat : m = Page * k /\ n = Page * j
  BY DEF Paged
<1>2. Page * (k + j) = Page * k + Page * j
  BY PageIs
<1> QED
  BY <1>1, <1>2 DEF Paged

LEMMA PagedDifference ==
  ASSUME NEW m \in Nat, NEW n \in Nat, Paged(m), Paged(n), n <= m PROVE Paged(m - n)
<1>1. PICK k \in Nat, j \in Nat : m = Page * k /\ n = Page * j
  BY DEF Paged
<1>2. j <= k
  <2>1. SUFFICES ASSUME k + 1 <= j PROVE FALSE
    OBVIOUS
  <2>2. Page * (k + 1) <= Page * j /\ Page * (k + 1) = Page * k + Page
    BY <2>1, PageIs, Multiply
  <2> QED
    BY <1>1, <2>2, PageIs
<1>3. k - j \in Nat /\ Page * (k - j) = Page * k - Page * j
  BY <1>2, PageIs
<1> QED
  BY <1>1, <1>3 DEF Paged

LEMMA PagedTimes == ASSUME NEW m \in Nat, NEW n \in Nat, Paged(n) PROVE Paged(m * n)
<1>1. PICK k \in Nat : n = Page * k
  BY DEF Paged
<1>2. m * (Page * k) = Page * (m * k) /\ m * k \in Nat
  BY PageIs
<1> QED
  BY <1>1, <1>2 DEF Paged

LEMMA PagedLeast == ASSUME NEW n \in Nat \ {0}, Paged(n) PROVE Page <= n
<1>1. PICK k \in Nat : n = Page * k
  BY DEF Paged
<1>2. 1 <= k /\ Page * 1 <= Page * k
  BY <1>1, PageIs, Multiply
<1> QED
  BY <1>1, <1>2, PageIs

LEMMA MsbIs ==
  /\ Levels \in Nat \ {0}
  /\ \A i \in 1..(Levels + 1) : LvlMsb[i] \in Nat
  /\ \A lv \in 1..Levels : LvlMsb[lv + 1] < LvlMsb[lv]
<1>1. LvlMsb \in Seq(Nat) /\ Levels > 0
  BY VirtualMemoryAssumption
<1>2. PICK n \in Nat : n = Len(LvlMsb)
  BY <1>1, LenProperties
<1>3. Levels = n - 1
  BY <1>2 DEF Levels
<1>4. Levels \in Nat \ {0} /\ Levels + 1 = n
  BY <1>1, <1>2, <1>3
<1>5. \A i \in 1..n : LvlMsb[i] \in Nat
  BY <1>1, <1>2, ElementOfSeq
<1> QED
  BY <1>4, <1>5, VirtualMemoryAssumption

\* A level is below the ones before it.
LEMMA LevelsFall ==
  ASSUME NEW n \in 1..(Levels + 1)
  PROVE  \A i \in 1..n : LvlMsb[n] <= LvlMsb[i]
<1>0. /\ Levels \in Nat \ {0} /\ n \in Nat \ {0} /\ n <= Levels + 1
      /\ \A i \in 1..n : LvlMsb[i] \in Nat
      /\ \A i \in 1..n : i + 1 \in 1..n => LvlMsb[i + 1] < LvlMsb[i]
  BY MsbIs
<1> DEFINE T == {k \in Nat : k < n /\ LvlMsb[n] > LvlMsb[n - k]}
<1>1. SUFFICES ASSUME T # {} PROVE FALSE
  <2>1. ASSUME NEW i \in 1..n, T = {} PROVE LvlMsb[n] <= LvlMsb[i]
    <3>1. PICK k \in Nat : k = n - i /\ k < n /\ n - k = i
      BY <1>0
    <3>2. k \notin T
      BY <2>1
    <3> QED
      BY <1>0, <3>1, <3>2
  <2> QED
    BY <1>0, <2>1
<1>2. PICK k \in T : \A j \in T : k <= j
  BY <1>1, LeastNat
<1>3. k \in Nat \ {0} /\ k < n
  BY <1>0, <1>2
<1>4. k - 1 \in Nat /\ k - 1 < n /\ ~(k <= k - 1)
  BY <1>0, <1>3
<1>5. PICK i \in 1..n : i = n - k /\ i + 1 = n - (k - 1) /\ i + 1 \in 1..n
  BY <1>0, <1>3
<1>6. LvlMsb[n] <= LvlMsb[i + 1]
  <2>1. k - 1 \notin T
    BY <1>2, <1>4
  <2> QED
    BY <1>0, <1>4, <1>5, <2>1
<1> QED
  BY <1>0, <1>2, <1>5, <1>6

LEMMA CoversAre ==
  /\ Levels \in Nat \ {0} /\ PteCovers[Levels] = Page
  /\ \A lv \in 1..Levels :
       /\ PteCnt[lv] \in Nat \ {0} /\ PteCovers[lv] \in Nat \ {0} /\ Paged(PteCovers[lv])
       /\ PteCovers[lv] <= PteCovers[1]
  /\ \A lv \in 1..Levels : lv + 1 \in 1..Levels =>
       PteCovers[lv] = PteCnt[lv + 1] * PteCovers[lv + 1]
<1>0. /\ Levels \in Nat \ {0} /\ Page = 2^LvlMsb[Levels + 1]
      /\ \A i \in 1..(Levels + 1) : LvlMsb[i] \in Nat
      /\ \A lv \in 1..Levels : LvlMsb[lv + 1] < LvlMsb[lv]
  BY VirtualMemoryAssumption, MsbIs
<1>1. ASSUME NEW lv \in 1..Levels
      PROVE  /\ PteCnt[lv] \in Nat \ {0} /\ PteCovers[lv] \in Nat \ {0} /\ Paged(PteCovers[lv])
             /\ PteCovers[lv] <= PteCovers[1]
  <2>1. PICK a \in Nat, b \in Nat, c \in Nat :
          /\ a = LvlMsb[lv + 1] /\ b = LvlMsb[lv] - LvlMsb[lv + 1] /\ c = LvlMsb[Levels + 1] /\ c <= a
    BY <1>0, LevelsFall
  <2>2. 2^a \in Nat \ {0} /\ 2^b \in Nat \ {0}
    BY Powers
  <2>3. PICK d \in Nat : d = a - c /\ a = d + c
    BY <2>1
  <2>4. 2^a = 2^d * 2^c /\ 2^d \in Nat /\ 2^c \in Nat
    BY <2>3, PowersDivide, Powers
  <2>5. 2^a = Page * 2^d
    BY <1>0, <2>1, <2>4
  <2>6. PteCovers[lv] <= PteCovers[1]
    <3>1. PICK e \in Nat : e = LvlMsb[2] /\ a <= e
      BY <1>0, <2>1, LevelsFall
    <3>2. 2^a <= 2^e
      BY <3>1, PowersGrow
    <3> QED
      BY <1>0, <2>1, <3>1, <3>2 DEF PteCovers
  <2> QED
    BY <2>1, <2>2, <2>4, <2>5, <2>6 DEF PteCnt, PteCovers, Paged
<1>2. ASSUME NEW lv \in 1..Levels, lv + 1 \in 1..Levels
      PROVE  PteCovers[lv] = PteCnt[lv + 1] * PteCovers[lv + 1]
  <2>1. PICK a \in Nat, b \in Nat, d \in Nat :
          a = LvlMsb[lv + 1] /\ b = LvlMsb[lv + 1 + 1] /\ d = a - b /\ a = d + b
    BY <1>0, <1>2
  <2>2. 2^a = 2^d * 2^b
    BY <2>1, PowersDivide, ZenonT(60)
  <2> QED
    BY <1>2, <2>1, <2>2 DEF PteCnt, PteCovers
<1>3. PteCovers[Levels] = Page
  BY <1>0 DEF PteCovers
<1> QED
  BY <1>0, <1>1, <1>2, <1>3

-----------------------------------------------------------------------------
(* Tables and stacks.                                                      *)

LEMMA TableIs ==
  ASSUME NEW T, TablesOK(T), NEW t \in DOMAIN T
  PROVE  /\ T[t].lv \in 1..Levels /\ T[t].pte \in [0..(PteCnt[T[t].lv] - 1) -> EntryType]
         /\ T[t] = [lv |-> T[t].lv, pte |-> T[t].pte]
         /\ t \in Int
<1>1. T[t] \in TableType /\ t \in Int
  BY DEF TablesOK, Root
<1>2. PICK l \in 1..Levels : T[t] \in [lv : {l}, pte : [0..(PteCnt[l] - 1) -> EntryType]]
  BY <1>1 DEF TableType
<1> QED
  BY <1>1, <1>2

LEMMA TableTyped ==
  ASSUME NEW l \in 1..Levels, NEW pte \in [0..(PteCnt[l] - 1) -> EntryType]
  PROVE  [lv |-> l, pte |-> pte] \in TableType
<1>1. [lv |-> l, pte |-> pte] \in [lv : {l}, pte : [0..(PteCnt[l] - 1) -> EntryType]]
  OBVIOUS
<1> QED
  BY <1>1 DEF TableType

\* Entries that lead to tables go away, and tables that none leads to.
LEMMA FewerEntries ==
  ASSUME NEW T, TablesOK(T), NEW U, U \in [DOMAIN U -> TableType],
         DOMAIN U \subseteq DOMAIN T, Root \in DOMAIN U,
         \A t \in DOMAIN U : U[t].lv = T[t].lv,
         \A t, i, a : Points(U, t, i, a) => Points(T, t, i, a) /\ a \in DOMAIN U
  PROVE  TablesOK(U)
<1>1. U \in [DOMAIN U -> TableType] /\ DOMAIN U \ {Root} \subseteq Nat /\ U[Root].lv = 1
  BY DEF TablesOK
<1>2. ASSUME NEW t, NEW i, NEW a, Points(U, t, i, a)
      PROVE  a \in DOMAIN U \ {Root} /\ U[a].lv = U[t].lv + 1
  <2>0. Points(T, t, i, a) /\ a \in DOMAIN U
    BY <1>2, Zenon
  <2>1. Points(T, t, i, a) /\ a \in DOMAIN U /\ t \in DOMAIN U
    BY <1>2, <2>0 DEF Points
  <2>2. a \in DOMAIN T \ {Root} /\ T[a].lv = T[t].lv + 1
    BY <2>1 DEF TablesOK
  <2>3. U[a].lv = T[a].lv /\ U[t].lv = T[t].lv
    BY <2>1
  <2> QED
    BY <2>1, <2>2, <2>3
<1>3. ASSUME NEW t, NEW i, NEW u, NEW j, NEW a, Points(U, t, i, a), Points(U, u, j, a)
      PROVE  t = u /\ i = j
  <2>1. Points(T, t, i, a) /\ Points(T, u, j, a)
    BY <1>3
  <2> QED
    BY <2>1, Zenon DEF TablesOK
<1> QED
  BY <1>1, <1>2, <1>3, Zenon DEF TablesOK

\* The frame and the stack keep what they need of the tables.
LEMMA StackKept ==
  ASSUME NEW T, NEW U, NEW stack, NEW up, StackOK(T, stack, up),
         \A i \in 1..Len(stack) : stack[i].pt \in DOMAIN U /\ U[stack[i].pt].lv = T[stack[i].pt].lv,
         \A i \in 1..Len(stack) : i < Len(stack) =>
           U[stack[i].pt].pte[stack[i].idx] = T[stack[i].pt].pte[stack[i].idx]
  PROVE  StackOK(U, stack, up)
  BY DEF StackOK, FrameOK

\* Different frames have different tables.
LEMMA FramesDiffer ==
  ASSUME NEW T, NEW stack, NEW up, StackOK(T, stack, up),
         NEW i \in 1..Len(stack), NEW j \in 1..Len(stack), stack[i].pt = stack[j].pt
  PROVE  i = j
  BY DEF StackOK, FrameOK

LEMMA FrameIs ==
  ASSUME NEW T, TablesOK(T), NEW stack, NEW up, StackOK(T, stack, up), NEW i \in 1..Len(stack)
  PROVE  /\ Len(stack) \in Nat \ {0} /\ i \in 1..Levels
         /\ stack[i] \in Frame0 /\ stack[i] = [pt |-> stack[i].pt, idx |-> stack[i].idx]
         /\ stack[i].pt \in DOMAIN T /\ T[stack[i].pt].lv = i /\ stack[i].idx \in Nat
         /\ stack[i].idx <= PteCnt[i] /\ PteCnt[i] \in Nat \ {0}
<1>1. Len(stack) \in Nat \ {0} /\ stack[i] \in Frame0
  BY LenProperties, ElementOfSeq DEF StackOK
<1>2. stack[i].pt \in DOMAIN T /\ T[stack[i].pt].lv = i /\ stack[i].idx <= PteCnt[i]
  BY DEF StackOK, FrameOK
<1>3. i \in 1..Levels
  BY <1>2, TableIs
<1> QED
  BY <1>1, <1>2, <1>3, CoversAre DEF Frame0

\* Going down to the table an entry leads to.
LEMMA StackPushed ==
  ASSUME NEW T, TablesOK(T), NEW stack, StackOK(T, stack, FALSE), NEW n, n = Len(stack),
         NEW a, Points(T, stack[n].pt, stack[n].idx, a),
         NEW j \in Nat, NEW l, l = n + 1, j < PteCnt[l]
  PROVE  StackOK(T, Append(stack, [pt |-> a, idx |-> j]), FALSE) /\ l \in 1..Levels
<1> DEFINE new == Append(stack, [pt |-> a, idx |-> j])
<1>1. /\ n \in Nat \ {0} /\ n \in 1..n /\ stack \in Seq(Frame0)
      /\ T[stack[n].pt].lv = n
  BY LenProperties DEF StackOK, FrameOK
<1>2. a \in DOMAIN T \ {Root} /\ T[a].lv = T[stack[n].pt].lv + 1
  BY DEF TablesOK
<1>3. a \in Int /\ T[a].lv = l /\ l \in 1..Levels
  BY <1>1, <1>2, TableIs
<1>4. /\ new \in Seq(Frame0) /\ Len(new) = l
      /\ \A i \in 1..n : new[i] = stack[i]
      /\ new[l] = [pt |-> a, idx |-> j]
  BY <1>1, <1>3, AppendProperties DEF Frame0
<1> HIDE DEF new
<1>5. ASSUME NEW i \in 1..l PROVE FrameOK(T, new, FALSE, i)
  <2>1. CASE i = l
    BY <1>1, <1>2, <1>3, <1>4, <2>1, CoversAre DEF FrameOK
  <2>2. CASE i < n
    <3>1. i \in 1..n /\ i + 1 \in 1..n
      BY <1>1, <2>2
    <3>2. FrameOK(T, stack, FALSE, i)
      BY <3>1 DEF StackOK
    <3> QED
      BY <1>1, <1>4, <2>2, <3>1, <3>2 DEF FrameOK
  <2>3. CASE i = n
    <3>1. FrameOK(T, stack, FALSE, n) /\ T[stack[n].pt].pte[stack[n].idx] = TableAt(a)
      BY <1>1 DEF StackOK, Points
    <3> QED
      BY <1>1, <1>4, <2>3, <3>1 DEF FrameOK
  <2>4. i = l \/ i < n \/ i = n
    BY <1>1
  <2> QED
    BY <2>1, <2>2, <2>3, <2>4
<1>6. Len(new) > 0 /\ new[1].pt = Root
  BY <1>1, <1>4 DEF StackOK
<1> QED
  BY <1>3, <1>4, <1>5, <1>6 DEF StackOK, new

\* The stack without its last frame, in the one before at the same entry or at the next
Left(stack, n) == SubSeq(stack, 1, n - 1)
Moved(stack, n) == [SubSeq(stack, 1, n - 1) EXCEPT ![n - 1].idx = @ + 1]
Climbed(stack, n) == {Left(stack, n), Moved(stack, n)}

\* The frames up to one are at the same tables, and those before it at the same entries.
SameFrames(new, stack, m) ==
  \A i \in 1..m : new[i].pt = stack[i].pt /\ (i < m => new[i] = stack[i])

\* A frame is at the same entry as before, or at the next.
Lands(new, stack, m) == new[m].idx = stack[m].idx
LandsBehind(new, stack, m) == new[m].idx = stack[m].idx + 1

\* Leaving a table for its parent, at its next entry when the table was at its end.
LEMMA StackClimbs ==
  ASSUME NEW T, TablesOK(T), NEW stack, StackOK(T, stack, TRUE), NEW n \in Nat, n = Len(stack), n > 1,
         NEW new \in Climbed(stack, n)
  PROVE  /\ StackOK(T, new, TRUE) /\ Len(new) = n - 1
         /\ SameFrames(new, stack, n - 1)
         /\ new = Left(stack, n) => Lands(new, stack, n - 1)
         /\ new = Moved(stack, n) => LandsBehind(new, stack, n - 1)
<1>f. stack \in Seq(Frame0) /\ Len(stack) \in Nat
  BY LenProperties DEF StackOK
<1>0. PICK m \in Nat \ {0} : m = n - 1 /\ n = m + 1 /\ n \in Nat /\ m \in 1..n
  <2>1. n \in Nat
    BY <1>f
  <2>2. n - 1 \in Nat \ {0} /\ n = (n - 1) + 1 /\ n - 1 \in 1..n
    BY <2>1
  <2> QED
    BY <2>1, <2>2, Zenon
<1>1. /\ stack \in Seq(Frame0)
      /\ \A i \in 1..n : /\ stack[i] \in Frame0 /\ FrameOK(T, stack, TRUE, i)
                         /\ PteCnt[i] \in Nat /\ stack[i].idx \in Nat
  <2>1. \A i \in 1..n : FrameOK(T, stack, TRUE, i)
    BY DEF StackOK
  <2>2. \A i \in 1..n : stack[i] \in Frame0 /\ PteCnt[i] \in Nat /\ stack[i].idx \in Nat
    BY FrameIs
  <2> QED
    BY <1>f, <2>1, <2>2
<1> DEFINE low == SubSeq(stack, 1, m)
<1>2. low \in Seq(Frame0) /\ Len(low) = m /\ \A i \in 1..m : low[i] = stack[i]
  <2>1. \A i \in 1..m : stack[i] \in Frame0
    BY <1>0, <1>1
  <2> QED
    BY <1>0, <2>1, SubSeqProperties, LenProperties
<1>3. stack[m] \in Frame0 /\ stack[m].idx + 1 \in Nat /\ stack[m].pt \in Int
  <2>1. stack[m] \in Frame0
    BY <1>0, <1>1
  <2> QED
    BY <2>1 DEF Frame0
<1> DEFINE moved == [low EXCEPT ![m].idx = @ + 1]
<1>4. /\ new = low \/ new = moved
      /\ low = Left(stack, n) /\ moved = Moved(stack, n)
  BY <1>0 DEF Climbed, Left, Moved
<1> HIDE DEF low
<1>5. low = [i \in 1..m |-> stack[i]] /\ low[m] = stack[m] /\ m \in 1..m
  <2>1. DOMAIN low = 1..m
    BY <1>2, LenProperties
  <2>2. low = [i \in 1..m |-> low[i]]
    BY <1>2, <2>1, LenProperties
  <2> QED
    BY <1>0, <1>2, <2>2
<1>a. [stack[m] EXCEPT !.idx = @ + 1] = [pt |-> stack[m].pt, idx |-> stack[m].idx + 1]
  BY <1>3 DEF Frame0
<1>b. PICK f \in Frame0 : f = [pt |-> stack[m].pt, idx |-> stack[m].idx + 1]
  BY <1>3 DEF Frame0
<1>c. moved = [i \in 1..m |-> IF i = m THEN f ELSE stack[i]]
  BY <1>0, <1>5, <1>a, <1>b
<1> HIDE DEF moved
<1>d. moved \in Seq(Frame0) /\ Len(moved) = m
  <2>1. moved \in [1..m -> Frame0]
    BY <1>0, <1>1, <1>b, <1>c
  <2> QED
    BY <1>0, <2>1, SeqDef, LenProperties
<1>e. /\ \A i \in 1..m : moved[i].pt = stack[i].pt /\ (i < m => moved[i] = stack[i])
      /\ moved[m].idx = stack[m].idx + 1
  BY <1>0, <1>b, <1>c
<1>6. /\ new \in Seq(Frame0) /\ Len(new) = m
      /\ \A i \in 1..m : new[i].pt = stack[i].pt /\ (i < m => new[i] = stack[i])
      /\ new[m].idx = stack[m].idx \/ new[m].idx = stack[m].idx + 1
      /\ new = low => new[m].idx = stack[m].idx
      /\ new = moved => new[m].idx = stack[m].idx + 1
  <2>1. CASE new = low
    <3>1. low # moved
      <4>1. stack[m].idx # stack[m].idx + 1
        BY <1>3 DEF Frame0
      <4> QED
        BY <1>5, <1>e, <4>1
    <3> QED
      BY <1>2, <1>5, <2>1, <3>1
  <2>2. CASE new = moved
    <3>1. low # moved
      <4>1. stack[m].idx # stack[m].idx + 1
        BY <1>3 DEF Frame0
      <4> QED
        BY <1>5, <1>e, <4>1
    <3> QED
      BY <1>d, <1>e, <2>2, <3>1
  <2> QED
    BY <1>4, <2>1, <2>2
<1>7. ASSUME NEW i \in 1..m PROVE FrameOK(T, new, TRUE, i)
  <2>0. i \in 1..n /\ i < n /\ i + 1 \in 1..n
    BY <1>0
  <2>1. /\ i \in 1..n /\ i < n /\ i + 1 \in 1..n /\ FrameOK(T, stack, TRUE, i)
        /\ PteCnt[i] \in Nat /\ stack[i].idx \in Nat
    BY <1>1, <2>0
  <2>2. CASE i = m
    BY <1>0, <1>6, <2>1, <2>2, SMTT(60) DEF FrameOK
  <2>3. CASE i < m
    <3>1. i + 1 \in 1..m
      BY <1>0, <2>3
    <3>2. new[i] = stack[i] /\ new[i + 1].pt = stack[i + 1].pt /\ Len(new) = m
      BY <1>6, <2>3, <3>1
    <3> QED
      BY <2>1, <2>3, <3>2 DEF FrameOK
  <2>4. i = m \/ i < m
    BY <1>0
  <2> QED
    BY <2>2, <2>3, <2>4
<1>8. 1 \in 1..m /\ new[1].pt = Root /\ Len(new) > 0
  BY <1>0, <1>6 DEF StackOK
<1>9. StackOK(T, new, TRUE)
  BY <1>6, <1>7, <1>8 DEF StackOK
<1>10. SameFrames(new, stack, m)
  BY <1>6 DEF SameFrames
<1> QED
  BY <1>0, <1>4, <1>6, <1>9, <1>10 DEF Lands, LandsBehind

\* Going on behind entries of the last frame.
LEMMA StackVisited ==
  ASSUME NEW T, TablesOK(T), NEW stack, StackOK(T, stack, FALSE), NEW n, n = Len(stack),
         NEW m \in Nat, stack[n].idx + m <= PteCnt[n],
         NEW new, new = [stack EXCEPT ![n].idx = @ + m]
  PROVE  /\ StackOK(T, new, TRUE) /\ Len(new) = n /\ n \in Nat \ {0}
         /\ SameFrames(new, stack, n) /\ new[n].idx = stack[n].idx + m
<1>f. stack \in Seq(Frame0) /\ Len(stack) \in Nat /\ Len(stack) > 0
  BY LenProperties DEF StackOK
<1>1. /\ n \in Nat \ {0} /\ n \in 1..n /\ stack \in Seq(Frame0) /\ stack \in [1..n -> Frame0]
      /\ \A i \in 1..n : stack[i] \in Frame0 /\ FrameOK(T, stack, FALSE, i)
  <2>1. n \in Nat \ {0} /\ n \in 1..n /\ stack \in [1..n -> Frame0]
    BY <1>f, LenProperties
  <2>2. \A i \in 1..n : FrameOK(T, stack, FALSE, i)
    BY DEF StackOK
  <2> QED
    BY <1>f, <2>1, <2>2
<1>2. /\ stack[n].idx + m \in Nat /\ stack[n].pt \in Int
      /\ [stack[n] EXCEPT !.idx = @ + m] = [pt |-> stack[n].pt, idx |-> stack[n].idx + m]
  BY <1>1 DEF Frame0
<1>3. PICK top \in Frame0 : top = [pt |-> stack[n].pt, idx |-> stack[n].idx + m]
  BY <1>2 DEF Frame0
<1>4. new = [i \in 1..n |-> IF i = n THEN top ELSE stack[i]]
  BY <1>1, <1>2, <1>3
<1>5. new \in [1..n -> Frame0]
  BY <1>1, <1>3, <1>4
<1>6. new \in Seq(Frame0) /\ Len(new) = n
  BY <1>1, <1>5, SeqDef, LenProperties
<1>7. /\ \A i \in 1..n : new[i].pt = stack[i].pt /\ (i < n => new[i] = stack[i])
      /\ new[n].idx = stack[n].idx + m
  BY <1>1, <1>3, <1>4
<1>8. ASSUME NEW i \in 1..n PROVE FrameOK(T, new, TRUE, i)
  <2>1. FrameOK(T, stack, FALSE, i)
    BY <1>1
  <2>2. CASE i = n
    BY <1>1, <1>6, <1>7, <2>1, <2>2 DEF FrameOK
  <2>3. CASE i < n
    <3>1. i + 1 \in 1..n
      BY <1>1, <2>3
    <3>2. new[i] = stack[i] /\ new[i + 1].pt = stack[i + 1].pt
      BY <1>7, <2>3, <3>1
    <3> QED
      BY <1>6, <2>1, <2>3, <3>2 DEF FrameOK
  <2>4. i = n \/ i < n
    BY <1>1
  <2> QED
    BY <2>2, <2>3, <2>4
<1>9. 1 \in 1..n /\ new[1].pt = Root /\ Len(new) > 0
  BY <1>1, <1>6, <1>7 DEF StackOK
<1>10. SameFrames(new, stack, n)
  BY <1>7 DEF SameFrames
<1> QED
  BY <1>1, <1>6, <1>7, <1>8, <1>9, <1>10 DEF StackOK

\* The end of a way up
LEMMA StackTurns ==
  ASSUME NEW T, TablesOK(T), NEW stack, StackOK(T, stack, TRUE),
         stack[Len(stack)].idx # PteCnt[Len(stack)]
  PROVE  StackOK(T, stack, FALSE)
<1>1. PICK n \in Nat \ {0} : n = Len(stack) /\ n \in 1..n
  BY FrameIs, LenProperties DEF StackOK
<1>2. stack[n].idx \in Nat /\ PteCnt[n] \in Nat /\ stack[n].idx <= PteCnt[n]
  BY <1>1, FrameIs
<1>3. stack[n].idx < PteCnt[n]
  BY <1>1, <1>2
<1>4. ASSUME NEW i \in 1..n PROVE FrameOK(T, stack, FALSE, i)
  <2>1. FrameOK(T, stack, TRUE, i)
    BY <1>1 DEF StackOK
  <2>2. i = n \/ i < n
    BY <1>1
  <2> QED
    BY <1>1, <1>3, <2>1, <2>2 DEF FrameOK
<1> QED
  BY <1>1, <1>4 DEF StackOK

LEMMA StackStarts ==
  ASSUME NEW T, TablesOK(T), NEW j \in Nat, j < PteCnt[1]
  PROVE  StackOK(T, <<[pt |-> Root, idx |-> j]>>, FALSE)
<1> DEFINE new == <<[pt |-> Root, idx |-> j]>>
<1>1. new \in Seq(Frame0) /\ Len(new) = 1 /\ new[1] = [pt |-> Root, idx |-> j]
  BY DEF Frame0, Root
<1>2. Root \in DOMAIN T /\ T[Root].lv = 1 /\ PteCnt[1] \in Nat
  BY CoversAre DEF TablesOK
<1> HIDE DEF new
<1>3. \A i \in 1..Len(new) : FrameOK(T, new, FALSE, i)
  BY <1>1, <1>2 DEF FrameOK
<1>4. Len(new) > 0 /\ new[1].pt = Root
  BY <1>1
<1>5. StackOK(T, new, FALSE)
  BY <1>1, <1>3, <1>4 DEF StackOK
<1> QED
  BY <1>5 DEF new

-----------------------------------------------------------------------------
(* Where a traversal is.                                                   *)

LEMMA PositionStarts ==
  ASSUME NEW v \in Nat, NEW j, j = (v \div PteCovers[1]) % PteCnt[1]
  PROVE  Position(<<[pt |-> Root, idx |-> j]>>, v) /\ j \in Nat /\ j < PteCnt[1]
<1>1. PICK m \in Nat \ {0}, c \in Nat \ {0} : m = PteCnt[1] /\ c = PteCovers[1]
  BY CoversAre
<1>2. 0 * (m * c) <= v
  BY <1>1
<1>3. j \in Nat /\ j < m /\ (0 * m + j) * c <= v
  BY <1>1, <1>2, Digit
<1> DEFINE new == <<[pt |-> Root, idx |-> j]>>
           q == [i \in 0..1 |-> IF i = 0 THEN 0 ELSE j]
<1>4. Len(new) = 1 /\ new[1].idx = j
  OBVIOUS
<1>5. q \in [0..1 -> Nat] /\ q[0] = 0 /\ q[1] = j
  BY <1>3
<1> HIDE DEF new, q
<1>6. \A i \in 1..1 : q[i] = q[i - 1] * PteCnt[i] + new[i].idx /\ q[i] * PteCovers[i] <= v
  <2>1. 0 * m + j = j
    BY <1>1, <1>3
  <2> QED
    BY <1>1, <1>3, <1>4, <1>5, <2>1
<1>7. Counts(q, new, v)
  BY <1>4, <1>5, <1>6 DEF Counts
<1> QED
  BY <1>1, <1>3, <1>7 DEF Position, new

LEMMA PositionPushed ==
  ASSUME NEW stack \in Seq(Frame0), NEW v \in Nat, Position(stack, v),
         NEW n, n = Len(stack), n \in Nat \ {0}, NEW l, l = n + 1, l \in 1..Levels,
         NEW j, j = (v \div PteCovers[l]) % PteCnt[l], NEW a \in Int
  PROVE  Position(Append(stack, [pt |-> a, idx |-> j]), v) /\ j \in Nat /\ j < PteCnt[l]
<1>0. PICK q : Counts(q, stack, v)
  BY DEF Position
<1>1. /\ q \in [0..n -> Nat] /\ q[0] = 0
      /\ \A i \in 1..n : q[i] = q[i - 1] * PteCnt[i] + stack[i].idx /\ q[i] * PteCovers[i] <= v
  BY <1>0 DEF Counts
<1>2. n \in 1..Levels /\ n \in 1..n /\ n \in 0..n
  BY CoversAre
<1>3. PICK m \in Nat \ {0}, c \in Nat \ {0} : m = PteCnt[l] /\ c = PteCovers[l] /\ PteCovers[n] = m * c
  BY <1>2, CoversAre, ZenonT(60)
<1>4. PICK x \in Nat : x = q[n] /\ x * (m * c) <= v
  BY <1>1, <1>2, <1>3
<1>5. j \in Nat /\ j < m /\ (x * m + j) * c <= v
  <2>1. j = (v \div c) % m
    BY <1>3
  <2>2. x * (m * c) <= v
    BY <1>4
  <2> QED
    BY <2>1, <2>2, Digit
<1>6. PICK z \in Nat : z = x * m + j /\ z * c <= v
  BY <1>5
<1> DEFINE new == Append(stack, [pt |-> a, idx |-> j])
           p == [i \in 0..l |-> IF i = l THEN z ELSE q[i]]
<1>7. Len(new) = l /\ new[l].idx = j /\ \A i \in 1..n : new[i] = stack[i]
  <2>1. [pt |-> a, idx |-> j] \in Frame0
    BY <1>5 DEF Frame0
  <2> QED
    BY <2>1, AppendProperties
<1>8. p \in [0..l -> Nat] /\ p[l] = z /\ \A i \in 0..n : p[i] = q[i]
  BY <1>1, <1>6, SMTT(60)
<1> HIDE DEF new, p
<1>9. ASSUME NEW i \in 1..l
      PROVE  p[i] = p[i - 1] * PteCnt[i] + new[i].idx /\ p[i] * PteCovers[i] <= v
  <2>1. CASE i = l
    <3>1. p[i - 1] = x
      BY <1>2, <1>4, <1>8, <2>1
    <3> QED
      BY <1>3, <1>6, <1>7, <1>8, <2>1, <3>1
  <2>2. CASE i # l
    <3>1. i \in 1..n /\ i \in 0..n /\ i - 1 \in 0..n
      BY <2>2
    <3> QED
      BY <1>1, <1>7, <1>8, <3>1
  <2> QED
    BY <2>1, <2>2
<1>10. p[0] = 0
  BY <1>1, <1>8
<1>11. Counts(p, new, v)
  BY <1>7, <1>8, <1>9, <1>10 DEF Counts
<1> QED
  BY <1>3, <1>5, <1>11 DEF Position, new

\* Behind the entries of a visit
LEMMA PositionVisited ==
  ASSUME NEW stack, NEW n \in 1..Levels, n = Len(stack), NEW v \in Nat, Position(stack, v),
         NEW m \in Nat, NEW new, Len(new) = n, new[n].idx = stack[n].idx + m,
         \A i \in 1..n : i < n => new[i] = stack[i], stack[n].idx \in Nat,
         NEW c, c = PteCovers[n]
  PROVE  Position(new, v + m * c)
<1>0. PICK q : Counts(q, stack, v)
  BY DEF Position
<1>1. /\ q \in [0..n -> Nat] /\ q[0] = 0
      /\ \A i \in 1..n : q[i] = q[i - 1] * PteCnt[i] + stack[i].idx /\ q[i] * PteCovers[i] <= v
  BY <1>0 DEF Counts
<1>2. /\ n \in Nat \ {0} /\ c \in Nat /\ n \in 1..n /\ n - 1 \in 0..n /\ n \in 0..n
      /\ \A i \in 1..n : PteCnt[i] \in Nat /\ PteCovers[i] \in Nat
  BY CoversAre, SMTT(60)
<1>3. PICK x \in Nat, y \in Nat, k \in Nat, a \in Nat :
        /\ x = q[n] /\ y = q[n - 1] /\ k = PteCnt[n] /\ a = stack[n].idx
        /\ x = y * k + a /\ x * c <= v
  <2>1. q[n] \in Nat /\ q[n - 1] \in Nat /\ PteCnt[n] \in Nat
    BY <1>1, <1>2
  <2>2. q[n] = q[n - 1] * PteCnt[n] + stack[n].idx /\ q[n] * c <= v
    BY <1>1, <1>2
  <2> QED
    BY <2>1, <2>2
<1>4. PICK z \in Nat : z = x + m /\ z * c = x * c + m * c /\ x * c \in Nat /\ m * c \in Nat
  <2>1. c \in Nat
    BY <1>2
  <2>2. x + m \in Nat /\ x * c \in Nat /\ m * c \in Nat
    BY <2>1, SMTT(60)
  <2>3. (x + m) * c = x * c + m * c
    BY <2>1
  <2> QED
    BY <2>2, <2>3
<1>5. z = y * k + (a + m) /\ z * c <= v + m * c
  <2>1. PICK d \in Nat : d = y * k /\ x = d + a
    BY <1>3, SMTT(60)
  <2>2. PICK e \in Nat, f \in Nat : e = x * c /\ f = m * c /\ z * c = e + f
    <3>1. x * c \in Nat /\ m * c \in Nat /\ z * c = x * c + m * c
      BY <1>4
    <3> QED
      BY <3>1, Zenon
  <2>3. z = y * k + (a + m)
    BY <1>3, <1>4, <2>1, SMTT(20)
  <2>4. e <= v
    BY <1>3, <2>2, Zenon
  <2>5. e + f <= v + f
    BY <2>4
  <2>6. z * c <= v + m * c
    BY <2>2, <2>5, Zenon
  <2> QED
    BY <2>3, <2>6
<1> DEFINE p == [i \in 0..n |-> IF i = n THEN z ELSE q[i]]
<1>6. p \in [0..n -> Nat] /\ p[n] = z /\ (\A i \in 0..n : i # n => p[i] = q[i]) /\ p[0] = 0
  BY <1>1, <1>2
<1>7. PICK w \in Nat : w = v + m * c /\ v <= w
  <2>1. PICK f \in Nat : f = m * c
    BY <1>4
  <2>2. v + f \in Nat /\ v <= v + f
    OBVIOUS
  <2> QED
    BY <2>1, <2>2, Zenon
<1> HIDE DEF p
<1>8. ASSUME NEW i \in 1..n
      PROVE  p[i] = p[i - 1] * PteCnt[i] + new[i].idx /\ p[i] * PteCovers[i] <= w
  <2>1. CASE i = n
    <3>1. p[i - 1] = y
      BY <1>2, <1>3, <1>6, <2>1, SMTT(60)
    <3>2. new[i].idx = a + m
      BY <1>3, <2>1
    <3>3. p[i] = z /\ PteCnt[i] = k /\ PteCovers[i] = c
      BY <1>3, <1>6, <2>1
    <3>4. z = y * k + (a + m) /\ z * c <= w
      BY <1>5, <1>7
    <3>5. y * k + (a + m) = p[i - 1] * PteCnt[i] + new[i].idx
      <4>1. a + m = new[i].idx
        BY <3>2
      <4> QED
        BY <3>1, <3>3, <4>1, Zenon
    <3> QED
      BY <3>3, <3>4, <3>5, Zenon
  <2>2. CASE i < n
    <3>1. i \in 0..n /\ i - 1 \in 0..n /\ i # n /\ i - 1 # n
      BY <1>2, <2>2
    <3>2. p[i] = q[i] /\ p[i - 1] = q[i - 1] /\ new[i] = stack[i]
      BY <1>6, <2>2, <3>1
    <3>3. PICK e \in Nat : e = q[i] * PteCovers[i] /\ e <= v
      <4>1. q[i] \in Nat /\ PteCovers[i] \in Nat /\ q[i] * PteCovers[i] <= v
        BY <1>1, <1>2, <3>1
      <4> QED
        BY <4>1
    <3> QED
      BY <1>1, <1>7, <3>2, <3>3
  <2>3. i = n \/ i < n
    BY <1>2
  <2> QED
    BY <2>1, <2>2, <2>3
<1>9. Counts(p, new, w)
  BY <1>6, <1>8 DEF Counts
<1> QED
  BY <1>7, <1>9 DEF Position

\* Back in the parent table, at the next entry when the table was at its end
LEMMA PositionClimbs ==
  ASSUME NEW stack, NEW n \in 2..Levels, n = Len(stack), NEW v \in Nat, Position(stack, v),
         NEW new, Len(new) = n - 1, \A i \in 1..(n - 1) : i < n - 1 => new[i] = stack[i],
         \A i \in 1..n : stack[i].idx \in Nat,
         Lands(new, stack, n - 1) \/ (LandsBehind(new, stack, n - 1) /\ stack[n].idx = PteCnt[n])
  PROVE  Position(new, v)
<1>0. PICK q : Counts(q, stack, v)
  BY DEF Position
<1>1. /\ q \in [0..n -> Nat] /\ q[0] = 0
      /\ \A i \in 1..n : q[i] = q[i - 1] * PteCnt[i] + stack[i].idx /\ q[i] * PteCovers[i] <= v
  BY <1>0 DEF Counts
<1>2. PICK m \in 1..Levels :
        /\ m = n - 1 /\ m + 1 = n /\ m \in Nat \ {0} /\ n - 1 \in 0..n
        /\ PteCovers[m] = PteCnt[n] * PteCovers[n]
        /\ \A i \in 1..n : PteCnt[i] \in Nat /\ PteCovers[i] \in Nat
  <2>1. Levels \in Nat
    BY CoversAre
  <2>2. PICK m \in 1..Levels : m = n - 1 /\ m + 1 = n /\ m \in Nat \ {0} /\ n - 1 \in 0..n
    BY <2>1, SMTT(60)
  <2>3. \A i \in 1..n : i \in 1..Levels
    BY <2>1
  <2>4. \A i \in 1..n : PteCnt[i] \in Nat /\ PteCovers[i] \in Nat
    BY <2>3, CoversAre
  <2>5. PteCovers[m] = PteCnt[m + 1] * PteCovers[m + 1]
    BY <2>2, CoversAre
  <2> QED
    BY <2>2, <2>4, <2>5
<1>3. ASSUME NEW i \in 1..m, i < m
      PROVE  i \in 0..n /\ i \in 1..n /\ i - 1 \in 0..n /\ i - 1 < m /\ new[i] = stack[i]
  <2>1. m \in Nat \ {0} /\ n = m + 1
    BY <1>2
  <2>2. i \in 0..n /\ i \in 1..n /\ i - 1 \in 0..n /\ i - 1 < m
    BY <1>3, <2>1
  <2>3. i \in 1..(n - 1) /\ i < n - 1
    BY <1>3, <2>1
  <2> QED
    BY <2>2, <2>3
<1>4. m \in 1..n /\ m \in 0..n /\ m - 1 \in 0..n /\ m - 1 < m /\ 0 < m /\ n \in 1..n
  BY <1>2
<1>5. CASE new[m].idx = stack[m].idx
  <2> DEFINE p == [i \in 0..m |-> q[i]]
  <2>1. p \in [0..m -> Nat] /\ p[0] = 0 /\ \A i \in 0..m : p[i] = q[i]
    BY <1>1, <1>2
  <2> HIDE DEF p
  <2>2. ASSUME NEW i \in 1..m
        PROVE  p[i] = p[i - 1] * PteCnt[i] + new[i].idx /\ p[i] * PteCovers[i] <= v
    <3>1. i \in 0..m /\ i - 1 \in 0..m /\ i \in 1..n
      BY <1>2
    <3>2. p[i] = q[i] /\ p[i - 1] = q[i - 1]
      BY <2>1, <3>1
    <3>3. new[i].idx = stack[i].idx
      <4>1. i = m \/ i < m
        BY <1>2
      <4> QED
        BY <1>3, <1>5, <4>1
    <3> QED
      BY <1>1, <3>1, <3>2, <3>3
  <2>3. Counts(p, new, v)
    BY <1>2, <2>1, <2>2 DEF Counts
  <2> QED
    BY <2>3 DEF Position
<1>6. CASE new[m].idx = stack[m].idx + 1 /\ stack[n].idx = PteCnt[n]
  <2>1. PICK x \in Nat, y \in Nat, k \in Nat, c \in Nat, a \in Nat, b \in Nat, e \in Nat :
          /\ x = q[n] /\ y = q[m] /\ k = PteCnt[n] /\ c = PteCovers[n] /\ a = q[m - 1]
          /\ b = stack[m].idx /\ e = PteCnt[m]
    <3>1. q[n] \in Nat /\ q[m] \in Nat /\ q[m - 1] \in Nat
      <4>1. n \in 0..n
        BY <1>2
      <4> QED
        BY <1>1, <1>4, <4>1
    <3>2. PteCnt[n] \in Nat /\ PteCovers[n] \in Nat /\ stack[m].idx \in Nat /\ PteCnt[m] \in Nat
      BY <1>2, <1>4
    <3> QED
      BY <3>1, <3>2
  <2>2. x = y * k + k /\ x * c <= v /\ y = a * e + b
    BY <1>1, <1>2, <1>4, <1>6, <2>1
  <2>3. PICK z \in Nat : z = y + 1
    OBVIOUS
  <2>4. z * k = y * k + k /\ z * (k * c) = (z * k) * c
    BY <2>3
  <2>5. z * PteCovers[m] <= v /\ z = a * e + (b + 1)
    <3>1. PICK g \in Nat : g = a * e
      OBVIOUS
    <3>2. z = a * e + (b + 1)
      BY <2>2, <2>3, <3>1
    <3>3. z * k = x
      BY <2>2, <2>4
    <3> QED
      BY <1>2, <2>1, <2>2, <2>4, <3>2, <3>3
  <2> DEFINE p == [i \in 0..m |-> IF i = m THEN z ELSE q[i]]
  <2>6. p \in [0..m -> Nat] /\ p[0] = 0 /\ p[m] = z /\ \A i \in 0..m : i # m => p[i] = q[i]
    BY <1>1, <1>2, SMTT(60)
  <2> HIDE DEF p
  <2>7. ASSUME NEW i \in 1..m
        PROVE  p[i] = p[i - 1] * PteCnt[i] + new[i].idx /\ p[i] * PteCovers[i] <= v
    <3>1. CASE i = m
      <4>1. p[i - 1] = a
        <5>1. m - 1 \in 0..m /\ m - 1 # m
          BY <1>2
        <5> QED
          BY <2>1, <2>6, <3>1, <5>1
      <4> QED
        BY <1>6, <2>1, <2>5, <2>6, <3>1, <4>1
    <3>2. CASE i < m
      <4>1. i \in 0..m /\ i - 1 \in 0..m /\ i # m /\ i - 1 # m
        BY <1>2, <3>2
      <4>2. p[i] = q[i] /\ p[i - 1] = q[i - 1] /\ new[i] = stack[i] /\ i \in 1..n
        BY <1>3, <2>6, <3>2, <4>1
      <4> QED
        BY <1>1, <4>2
    <3>3. i = m \/ i < m
      BY <1>2
    <3> QED
      BY <3>1, <3>2, <3>3
  <2>8. Counts(p, new, v)
    BY <1>2, <2>6, <2>7 DEF Counts
  <2> QED
    BY <2>8 DEF Position
<1>7. new[m].idx = stack[m].idx \/ (new[m].idx = stack[m].idx + 1 /\ stack[n].idx = PteCnt[n])
  BY <1>2 DEF Lands, LandsBehind
<1> QED
  BY <1>5, <1>6, <1>7

\* A traversal that has not passed the last entry of the root stays within it.
LEMMA RootNotAtEnd ==
  ASSUME NEW stack, Len(stack) \in Nat \ {0}, NEW v \in Nat, Position(stack, v),
         v < Virtual + PteCovers[1], stack[1].idx \in Nat
  PROVE  stack[1].idx < PteCnt[1]
<1>0. PICK q : Counts(q, stack, v)
  BY DEF Position
<1>1. q[1] = q[0] * PteCnt[1] + stack[1].idx /\ q[1] * PteCovers[1] <= v /\ q[0] = 0
  <2>1. 1 \in 1..Len(stack) /\ 1 - 1 = 0
    OBVIOUS
  <2> QED
    BY <1>0, <2>1 DEF Counts
<1>2. PICK c \in Nat \ {0}, m \in Nat \ {0} : c = PteCovers[1] /\ m = PteCnt[1]
  BY CoversAre
<1>3. PICK j \in Nat : j = stack[1].idx /\ j * c <= v /\ j * c = c * j
  BY <1>1, <1>2
<1>4. Virtual <= c * (m - 1) /\ c * (m - 1) = c * m - c /\ Virtual \in Nat
  <2>1. Virtual <= c * (m - 1) /\ Virtual \in Nat
    BY <1>2, VirtualMemoryAssumption
  <2>2. PICK k \in Nat : k = m - 1 /\ m = k + 1
    BY <1>2
  <2>3. c * m = c * k + c /\ c * k \in Nat
    BY <2>2
  <2>4. c * (m - 1) = c * m - c
    BY <2>2, <2>3
  <2> QED
    BY <2>1, <2>4
<1>5. SUFFICES ASSUME m <= j PROVE FALSE
  BY <1>2, <1>3
<1>6. c * m <= c * j
  BY <1>5, Multiply, SMTT(60)
<1>7. PICK a \in Nat, b \in Nat : a = c * m /\ b = c * j
  BY <1>2, SMTT(60)
<1> QED
  BY <1>2, <1>3, <1>4, <1>6, <1>7, SMTT(60)

-----------------------------------------------------------------------------
(* Who owns what is handed out.                                            *)

LEMMA PieceIs ==
  ASSUME NEW pieces, PiecesOK(pieces), NEW i \in DOMAIN pieces
  PROVE  /\ pieces[i][1] \in Nat /\ pieces[i][2] \in Nat \ {0}
         /\ pieces[i] = <<pieces[i][1], pieces[i][2]>> /\ pieces[i] \in PieceType
         /\ Paged(pieces[i][1]) /\ Paged(pieces[i][2])
<1>1. pieces[i] \in PieceType
  BY ElementOfSeq, LenProperties DEF PiecesOK
<1> QED
  BY <1>1 DEF PiecesOK, PieceType

\* What is owned is handed out.
LEMMA OwnedTaken ==
  ASSUME NEW own, NEW mine, NEW T, NEW h, PiecesOwned(own, mine, T, h), HeapInv(h)
  PROVE  /\ \A r \in own : \A a \in Starts(r.pieces) : IsTaken(h, a)
         /\ \A a \in Starts(mine) : IsTaken(h, a)
         /\ \A t \in DOMAIN T \ {Root} : IsTaken(h, t) /\ h.blocks[t].size = Page
         /\ \A i \in DOMAIN mine : h.blocks[mine[i][1]].size = mine[i][2]
<1>1. ASSUME NEW pieces, PiecesOK(pieces), PieceSet(pieces) \subseteq Taken(h), NEW i \in DOMAIN pieces
      PROVE  IsTaken(h, pieces[i][1]) /\ h.blocks[pieces[i][1]].size = pieces[i][2]
  <2>1. <<pieces[i][1], pieces[i][2]>> \in Taken(h)
    BY <1>1, PieceIs DEF PieceSet
  <2> QED
    BY <2>1, TakenFacts
<1>2. ASSUME NEW r \in own, NEW a \in Starts(r.pieces) PROVE IsTaken(h, a)
  <2>1. PICK i \in DOMAIN r.pieces : a = r.pieces[i][1]
    BY DEF Starts, PieceSet
  <2>2. PiecesOK(r.pieces) /\ PieceSet(r.pieces) \subseteq Taken(h)
    BY DEF PiecesOwned, PiecesApart, OwnedPieces
  <2> QED
    BY <1>1, <2>1, <2>2
<1>3. PiecesOK(mine) /\ PieceSet(mine) \subseteq Taken(h)
  BY DEF PiecesOwned, PiecesApart
<1>4. ASSUME NEW a \in Starts(mine) PROVE IsTaken(h, a)
  <2>1. PICK i \in DOMAIN mine : a = mine[i][1]
    BY DEF Starts, PieceSet
  <2> QED
    BY <1>1, <1>3, <2>1
<1>5. ASSUME NEW t \in DOMAIN T \ {Root} PROVE IsTaken(h, t) /\ h.blocks[t].size = Page
  <2>1. <<t, Page>> \in Taken(h)
    BY DEF PiecesOwned, TablePieces
  <2> QED
    BY <2>1, TakenFacts
<1>6. \A i \in DOMAIN mine : h.blocks[mine[i][1]].size = mine[i][2]
  BY <1>1, <1>3
<1> QED
  BY <1>2, <1>4, <1>5, <1>6

\* A new piece
LEMMA PieceTaken ==
  ASSUME NEW own, NEW mine, NEW T, NEW h, PiecesOwned(own, mine, T, h), HeapInv(h),
         NEW a \in Nat, NEW n \in Nat \ {0}, Paged(a), Paged(n), ~IsTaken(h, a),
         NEW g, Taken(g) = Taken(h) \cup {<<a, n>>},
         Root \in DOMAIN T
  PROVE  PiecesOwned(own, Append(mine, <<a, n>>), T, g)
<1> DEFINE new == Append(mine, <<a, n>>)
<1>1. PICK k \in Nat : k = Len(mine)
  BY LenProperties DEF PiecesOwned, PiecesApart, PiecesOK
<1>2. /\ mine \in Seq(PieceType) /\ PiecesOK(mine) /\ DOMAIN mine = 1..k
  BY <1>1, LenProperties DEF PiecesOwned, PiecesApart, PiecesOK
<1>3. /\ new \in Seq(PieceType) /\ DOMAIN new = 1..(k + 1)
      /\ \A i \in 1..k : new[i] = mine[i]
      /\ new[k + 1] = <<a, n>>
  <2>1. <<a, n>> \in PieceType
    BY DEF PieceType
  <2>2. Len(new) = k + 1 /\ new \in Seq(PieceType)
    BY <1>1, <1>2, <2>1, AppendProperties
  <2> QED
    BY <1>1, <1>2, <2>1, <2>2, AppendProperties, LenProperties
<1> HIDE DEF new
<1>4. PieceSet(new) = PieceSet(mine) \cup {<<a, n>>}
  <2>1. \A i \in 1..(k + 1) : i \in 1..k \/ i = k + 1
    BY <1>1
  <2>2. \A i \in 1..k : i \in 1..(k + 1)
    BY <1>1
  <2>3. k + 1 \in 1..(k + 1)
    BY <1>1
  <2> QED
    BY <1>2, <1>3, <2>1, <2>2, <2>3 DEF PieceSet
<1>5. Starts(new) = Starts(mine) \cup {a}
  <2>1. <<a, n>>[1] = a
    OBVIOUS
  <2>2. \A x : x \in Starts(new) <=> x \in Starts(mine) \/ x = a
    BY <1>4, <2>1, Zenon DEF Starts
  <2> QED
    BY <2>2
<1>6. /\ \A r \in own : a \notin Starts(r.pieces)
      /\ a \notin Starts(mine) /\ a \notin DOMAIN T
  <2>1. a # Root
    BY DEF Root
  <2> QED
    BY <2>1, OwnedTaken
<1>7. PiecesOK(new)
  <2>1. ASSUME NEW i \in 1..(k + 1) PROVE Paged(new[i][1]) /\ Paged(new[i][2])
    <3>1. CASE i = k + 1
      BY <1>3, <3>1
    <3>2. CASE i \in 1..k
      BY <1>2, <1>3, <3>2 DEF PiecesOK
    <3> QED
      BY <1>1, <3>1, <3>2
  <2>2. ASSUME NEW i \in 1..(k + 1), NEW j \in 1..(k + 1), new[i][1] = new[j][1] PROVE i = j
    <3>0. ASSUME NEW m \in 1..k PROVE mine[m][1] # a
      <4>1. mine[m] \in PieceSet(mine)
        BY <1>2 DEF PieceSet
      <4>2. mine[m][1] \in Starts(mine)
        BY <4>1 DEF Starts
      <4> QED
        BY <4>2, <1>6
    <3>1. \A m \in 1..k : new[m] = mine[m] /\ new[m][1] # a
      BY <1>3, <3>0
    <3>2. new[k + 1][1] = a
      BY <1>3
    <3>3. (i \in 1..k \/ i = k + 1) /\ (j \in 1..k \/ j = k + 1)
      BY <1>1
    <3>4. CASE i \in 1..k /\ j \in 1..k
      BY <1>2, <2>2, <3>1, <3>4 DEF PiecesOK
    <3> QED
      BY <2>2, <3>1, <3>2, <3>3, <3>4
  <2> QED
    BY <1>3, <2>1, <2>2 DEF PiecesOK
<1>8. PiecesApart(own, new, T)
  BY <1>5, <1>6, <1>7 DEF PiecesApart, PiecesOwned
<1>9. Taken(g) = OwnedPieces(own) \cup PieceSet(new) \cup TablePieces(T)
  BY <1>4 DEF PiecesOwned
<1> QED
  BY <1>8, <1>9 DEF PiecesOwned, new

LEMMA PieceStarts == ASSUME NEW pieces, NEW p \in PieceSet(pieces) PROVE p[1] \in Starts(pieces)
  BY DEF Starts

LEMMA NoPieces == PiecesOK(<<>>) /\ Starts(<<>>) = {} /\ PieceSet(<<>>) = {}
<1>1. DOMAIN <<>> = {} /\ <<>> \in Seq(PieceType)
  OBVIOUS
<1> QED
  BY <1>1 DEF PiecesOK, Starts, PieceSet

\* A page table comes
LEMMA TableTaken ==
  ASSUME NEW own, NEW mine, NEW T, NEW h, PiecesOwned(own, mine, T, h), HeapInv(h),
         NEW a \in Nat, ~IsTaken(h, a), NEW g, Taken(g) = Taken(h) \cup {<<a, Page>>},
         NEW U, DOMAIN U = DOMAIN T \cup {a}
  PROVE  PiecesOwned(own, mine, U, g)
<1>1. (\A r \in own : a \notin Starts(r.pieces)) /\ a \notin Starts(mine)
  BY OwnedTaken
<1>2. PiecesApart(own, mine, U)
  BY <1>1 DEF PiecesApart, PiecesOwned
<1>3. a # Root
  BY DEF Root
<1>4. TablePieces(U) = TablePieces(T) \cup {<<a, Page>>}
  BY <1>3 DEF TablePieces
<1> QED
  BY <1>2, <1>4 DEF PiecesOwned

\* and goes.
LEMMA TableFreed ==
  ASSUME NEW own, NEW mine, NEW T, NEW h, PiecesOwned(own, mine, T, h), HeapInv(h),
         NEW t \in DOMAIN T \ {Root}, NEW g, Taken(g) = Taken(h) \ {<<t, h.blocks[t].size>>},
         NEW U, DOMAIN U = DOMAIN T \ {t}
  PROVE  PiecesOwned(own, mine, U, g)
<1>1. h.blocks[t].size = Page
  BY OwnedTaken
<1>2. PiecesApart(own, mine, U)
  BY DEF PiecesApart, PiecesOwned
<1>3. TablePieces(U) = TablePieces(T) \ {<<t, Page>>}
  BY DEF TablePieces
<1>4. <<t, Page>>[1] = t
  OBVIOUS
<1>5. <<t, Page>> \notin PieceSet(mine)
  BY <1>4, PieceStarts DEF PiecesApart, PiecesOwned
<1>6. <<t, Page>> \notin OwnedPieces(own)
  <2>1. SUFFICES ASSUME NEW r \in own, <<t, Page>> \in PieceSet(r.pieces) PROVE FALSE
    BY DEF OwnedPieces
  <2>2. t \in Starts(r.pieces)
    BY <1>4, <2>1, PieceStarts
  <2> QED
    BY <2>2 DEF PiecesApart, PiecesOwned
<1>7. Taken(g) = OwnedPieces(own) \cup PieceSet(mine) \cup TablePieces(U)
  BY <1>1, <1>3, <1>5, <1>6 DEF PiecesOwned
<1> QED
  BY <1>2, <1>7 DEF PiecesOwned

\* The first piece goes back.
LEMMA PieceFreed ==
  ASSUME NEW own, NEW mine, NEW T, NEW h, PiecesOwned(own, mine, T, h), HeapInv(h), mine # <<>>,
         NEW a, a = Head(mine)[1], NEW g, Taken(g) = Taken(h) \ {<<a, h.blocks[a].size>>}
  PROVE  PiecesOwned(own, Tail(mine), T, g)
<1> DEFINE new == Tail(mine)
<1>1. mine \in Seq(PieceType) /\ PiecesOK(mine)
  BY DEF PiecesOwned, PiecesApart, PiecesOK
<1>2. PICK k \in Nat : Len(mine) = k + 1 /\ Len(mine) = k + 1
  <2>1. Len(mine) \in Nat /\ Len(mine) # 0
    BY <1>1, EmptySeq, LenProperties
  <2>2. Len(mine) - 1 \in Nat
    BY <2>1
  <2> QED
    BY <2>1, <2>2
<1>3. /\ new \in Seq(PieceType) /\ DOMAIN new = 1..k /\ DOMAIN mine = 1..(k + 1)
      /\ \A i \in 1..k : new[i] = mine[i + 1] /\ i + 1 \in 1..(k + 1)
      /\ Head(mine) = mine[1] /\ 1 \in 1..(k + 1)
  <2>1. new \in Seq(PieceType) /\ Len(new) = k /\ \A i \in 1..Len(new) : new[i] = mine[i + 1]
    BY <1>1, <1>2, HeadTailProperties, EmptySeq
  <2>2. Head(mine) = mine[1]
    BY <1>1, HeadTailProperties
  <2>3. DOMAIN new = 1..k /\ DOMAIN mine = 1..(k + 1)
    BY <1>1, <1>2, <2>1, LenProperties
  <2>4. \A i \in 1..k : i + 1 \in 1..(k + 1)
    OBVIOUS
  <2> QED
    BY <2>1, <2>2, <2>3, <2>4
<1> HIDE DEF new
<1>4. PICK p : p = mine[1] /\ p = <<a, h.blocks[a].size>> /\ p[1] = a /\ p \in PieceSet(mine)
  <2>1. h.blocks[a].size = mine[1][2] /\ mine[1] = <<mine[1][1], mine[1][2]>>
    BY <1>1, <1>3, OwnedTaken, PieceIs
  <2>2. mine[1] \in PieceSet(mine)
    BY <1>3 DEF PieceSet
  <2> QED
    BY <1>3, <2>1, <2>2
<1>5. \A i \in 1..k : new[i] # p /\ new[i][1] # a
  <2>1. ASSUME NEW i \in 1..k, new[i][1] = a PROVE FALSE
    <3>1. i + 1 \in DOMAIN mine /\ 1 \in DOMAIN mine /\ mine[i + 1][1] = mine[1][1]
      BY <1>3, <1>4, <2>1
    <3>2. i + 1 = 1
      BY <1>1, <3>1 DEF PiecesOK
    <3> QED
      BY <3>2
  <2> QED
    BY <1>4, <2>1
<1>6. PieceSet(new) = PieceSet(mine) \ {p}
  <2>1. ASSUME NEW x \in PieceSet(mine), x # p PROVE x \in PieceSet(new)
    <3>1. PICK j \in 1..(k + 1) : x = mine[j]
      BY <1>3 DEF PieceSet
    <3>2. j # 1
      BY <1>4, <2>1, <3>1
    <3>3. j - 1 \in 1..k /\ (j - 1) + 1 = j
      BY <3>2
    <3>4. new[j - 1] = mine[j]
      BY <1>3, <3>3
    <3> QED
      BY <1>3, <3>1, <3>3, <3>4 DEF PieceSet
  <2>2. ASSUME NEW x \in PieceSet(new) PROVE x \in PieceSet(mine) /\ x # p
    BY <1>3, <1>5, SMTT(60) DEF PieceSet
  <2> QED
    BY <2>1, <2>2
<1>7. Starts(new) \subseteq Starts(mine)
  BY <1>6 DEF Starts
<1>8. PiecesOK(new)
  <2>1. ASSUME NEW i \in 1..k PROVE Paged(new[i][1]) /\ Paged(new[i][2])
    BY <1>1, <1>3, ZenonT(60) DEF PiecesOK
  <2>2. ASSUME NEW i \in 1..k, NEW j \in 1..k, new[i][1] = new[j][1] PROVE i = j
    <3>1. i + 1 = j + 1
      <4>1. i + 1 \in DOMAIN mine /\ j + 1 \in DOMAIN mine /\ mine[i + 1][1] = mine[j + 1][1]
        BY <1>3, <2>2
      <4> QED
        BY <1>1, <4>1 DEF PiecesOK
    <3> QED
      BY <3>1
  <2> QED
    BY <1>3, <2>1, <2>2 DEF PiecesOK
<1>9. PiecesApart(own, new, T)
  BY <1>7, <1>8 DEF PiecesApart, PiecesOwned
<1>10. a \in Starts(mine)
  BY <1>4, PieceStarts
<1>11. p \notin OwnedPieces(own)
  <2>1. SUFFICES ASSUME NEW r \in own, p \in PieceSet(r.pieces) PROVE FALSE
    BY DEF OwnedPieces
  <2>2. a \in Starts(r.pieces)
    BY <1>4, <2>1, PieceStarts
  <2> QED
    BY <1>10, <2>2 DEF PiecesApart, PiecesOwned
<1>12. p \notin TablePieces(T)
  <2>1. SUFFICES ASSUME NEW t \in DOMAIN T, p = <<t, Page>> PROVE FALSE
    BY DEF TablePieces
  <2>2. t = a
    BY <1>4, <2>1, SMTT(60)
  <2> QED
    BY <1>10, <2>2 DEF PiecesApart, PiecesOwned
<1>13. Taken(g) = OwnedPieces(own) \cup PieceSet(new) \cup TablePieces(T)
  BY <1>4, <1>6, <1>11, <1>12 DEF PiecesOwned
<1> QED
  BY <1>9, <1>13 DEF PiecesOwned, new

\* What a call held becomes a mapping's or is lost.
LEMMA HandedOver ==
  ASSUME NEW own, NEW mine, NEW T, NEW h, PiecesOwned(own, mine, T, h), NEW r, r.pieces = mine
  PROVE  PiecesOwned(own \cup {r}, <<>>, T, h)
<1>1. PiecesApart(own \cup {r}, <<>>, T)
  BY NoPieces DEF PiecesApart, PiecesOwned
<1>2. OwnedPieces(own \cup {r}) = OwnedPieces(own) \cup PieceSet(mine)
  BY DEF OwnedPieces
<1> QED
  BY <1>1, <1>2, NoPieces DEF PiecesOwned

\* A range without pieces
LEMMA EmptyOwner ==
  ASSUME NEW own, NEW mine, NEW T, NEW h, PiecesOwned(own, mine, T, h), NEW r, r.pieces = <<>>
  PROVE  PiecesOwned(own \cup {r}, mine, T, h)
<1>1. PiecesApart(own \cup {r}, mine, T)
  BY NoPieces DEF PiecesApart, PiecesOwned
<1>2. OwnedPieces(own \cup {r}) = OwnedPieces(own)
  BY NoPieces DEF OwnedPieces
<1> QED
  BY <1>1, <1>2 DEF PiecesOwned

\* vfree takes a mapping over.
LEMMA TakenOver ==
  ASSUME NEW own, NEW T, NEW h, PiecesOwned(own, <<>>, T, h), NEW m \in own
  PROVE  PiecesOwned(own \ {m}, m.pieces, T, h)
<1>1. PiecesApart(own \ {m}, m.pieces, T)
  BY DEF PiecesApart, PiecesOwned
<1>2. OwnedPieces(own) = OwnedPieces(own \ {m}) \cup PieceSet(m.pieces)
  BY DEF OwnedPieces
<1> QED
  BY <1>1, <1>2, NoPieces DEF PiecesOwned

-----------------------------------------------------------------------------
(* Ranges and pieces are handed out and given back.                        *)

\* A range is handed out to a call,
LEMMA RangeTaken ==
  ASSUME NEW own, NEW q, NEW h, RangesOwned(own, FALSE, q, h), HeapInv(h),
         NEW r, ~IsTaken(h, r.va), NEW g, Taken(g) = Taken(h) \cup {<<r.va, r.size>>}
  PROVE  RangesOwned(own, TRUE, r, g)
<1>1. ASSUME NEW s \in own PROVE s.va # r.va
  <2>1. <<s.va, s.size>> \in Taken(h)
    BY DEF RangesOwned, Extents
  <2> QED
    BY <2>1, TakenFacts
<1> QED
  BY <1>1 DEF RangesOwned, Claimed

\* it becomes a mapping's or is lost,
LEMMA RangeHandedOver ==
  ASSUME NEW own, NEW r, NEW h, RangesOwned(own, TRUE, r, h),
         NEW s \in RangeType, s.va = r.va, s.size = r.size, NEW q
  PROVE  RangesOwned(own \cup {s}, FALSE, q, h) /\ s \notin own
<1>1. s \notin own
  BY DEF RangesOwned
<1>2. Extents(own \cup {s}) = Extents(own) \cup {<<r.va, r.size>>}
  BY DEF Extents
<1>3. \A t, u \in own \cup {s} : t.va = u.va => t = u
  BY DEF RangesOwned
<1> QED
  BY <1>1, <1>2, <1>3 DEF RangesOwned, Claimed

\* vfree takes it over
LEMMA RangeTakenOver ==
  ASSUME NEW own, NEW q, NEW h, RangesOwned(own, FALSE, q, h), NEW m \in own,
         NEW r, r.va = m.va, r.size = m.size
  PROVE  RangesOwned(own \ {m}, TRUE, r, h)
<1>1. Extents(own) = Extents(own \ {m}) \cup {<<r.va, r.size>>}
  BY DEF Extents
<1>2. \A s \in own \ {m} : s.va # r.va
  BY DEF RangesOwned
<1> QED
  BY <1>1, <1>2 DEF RangesOwned, Claimed

\* and gives it back.
LEMMA RangeFreed ==
  ASSUME NEW own, NEW r, NEW h, RangesOwned(own, TRUE, r, h), HeapInv(h),
         NEW g, Taken(g) = Taken(h) \ {<<r.va, h.blocks[r.va].size>>}, NEW q
  PROVE  RangesOwned(own, FALSE, q, g) /\ IsTaken(h, r.va)
<1>1. <<r.va, r.size>> \in Taken(h)
  BY DEF RangesOwned, Claimed
<1>2. IsTaken(h, r.va) /\ h.blocks[r.va].size = r.size
  BY <1>1, TakenFacts
<1>3. <<r.va, r.size>> \notin Extents(own)
  BY DEF RangesOwned, Extents
<1> QED
  BY <1>2, <1>3 DEF RangesOwned, Claimed

-----------------------------------------------------------------------------
(* Whole pages.                                                            *)

\* palloc and alloc_vaddr of whole pages hand out exactly what is asked for.
LEMMA WholePages == ASSUME NEW n \in Nat \ {0}, Paged(n) PROVE Request(n) = n
<1>1. BlockSize <= Page /\ Page <= n /\ BlockSize \in Nat /\ Page \in Nat
  BY VirtualMemoryAssumption, TLSFAssumption, PagedLeast, PageIs
<1> QED
  BY <1>1 DEF Request

LEMMA PagesTaken ==
  ASSUME NEW h, HeapInv(h), ~Busy(h), NEW n \in Nat \ {0}, NEW a \in Nat \ {0}, Paged(n), Paged(a),
         NEW at \in Chosen(h, n, a), NEW start, start = AlignUp(at, a),
         NEW g, g = Alloc(h, at, start, Request(n))
  PROVE  /\ HeapInv(g) /\ g.total = h.total
         /\ start \in Nat /\ start + n <= h.total /\ Paged(start)
         /\ ~IsTaken(h, start)
         /\ Taken(g) = Taken(h) \cup {<<start, n>>}
<1>1. Request(n) = n
  BY WholePages
<1>2. /\ HeapInv(g) /\ g.total = h.total
      /\ start \in Nat /\ start + Request(n) <= h.total /\ \E k \in Nat : start = a * k
      /\ ~IsTaken(h, start)
      /\ Taken(g) = Taken(h) \cup {<<start, Request(n)>>}
  <2>1. HeapInv(g) /\ g.total = h.total
    BY AllocTaken
  <2>2. start \in Nat /\ start + Request(n) <= h.total
    BY AllocTaken
  <2>3. \E k \in Nat : start = a * k
    BY ChosenFits
  <2>4. ~IsTaken(h, start)
    BY AllocTaken
  <2>5. Taken(g) = Taken(h) \cup {<<start, Request(n)>>}
    BY AllocTaken
  <2> QED
    BY <2>1, <2>2, <2>3, <2>4, <2>5
<1>3. Paged(start)
  <2>1. PICK k \in Nat : start = k * a
    BY <1>2
  <2> QED
    BY <2>1, PagedTimes
<1> QED
  BY <1>1, <1>2, <1>3

LEMMA AlignmentIs ==
  ASSUME NEW n \in Nat \ {0}
  PROVE  VaAlign(n) \in Nat \ {0} /\ Paged(VaAlign(n))
<1>1. PICK b \in Nat : b = BitLength(n) - 1
  BY BitLengthIs
<1>2. PICK c \in Nat : c = LvlMsb[Levels + 1] /\ Page = 2^c
  BY MsbIs, VirtualMemoryAssumption, SMTT(60)
<1>3. PICK p \in Nat \ {0} : p = 2^b
  BY Powers
<1>4. Page \in Nat \ {0}
  BY PageIs
<1>5. VaAlign(n) = IF p > Page THEN p ELSE Page
  BY <1>1, <1>3 DEF VaAlign
<1>6. Paged(Page)
  <2>1. Page = Page * 1
    BY <1>4
  <2> QED
    BY <2>1 DEF Paged
<1>7. ASSUME p > Page PROVE Paged(p)
  <2>1. c <= b
    <3>1. SUFFICES ASSUME b <= c PROVE b = c
      OBVIOUS
    <3>2. 2^b <= 2^c
      BY <3>1, PowersGrow
    <3> QED
      BY <1>2, <1>3, <1>4, <1>7, <3>2
  <2>2. PICK d \in Nat : b = d + c /\ d = b - c
    BY <2>1
  <2>3. 2^b = 2^d * 2^c /\ 2^d \in Nat
    BY <2>1, <2>2, PowersDivide, Powers
  <2>4. p = Page * 2^d
    BY <1>2, <1>3, <1>4, <2>3
  <2> QED
    BY <2>3, <2>4 DEF Paged
<1> QED
  BY <1>3, <1>4, <1>5, <1>6, <1>7

-----------------------------------------------------------------------------
(* What the loops of the traversals do to the tables.                      *)

LEMMA EntryTypes ==
  /\ None \in EntryType /\ None.kind = "none"
  /\ \A a \in Int : /\ PageAt(a) \in EntryType /\ PageAt(a).kind = "page"
                    /\ TableAt(a) \in EntryType
  /\ \A a : TableAt(a).kind = "table"
  /\ \A a, b : TableAt(a) = TableAt(b) => a = b
<1>1. None \in EntryType /\ None.kind = "none"
  BY DEF None, EntryType
<1>2. ASSUME NEW a \in Int
      PROVE PageAt(a) \in EntryType /\ PageAt(a).kind = "page" /\ TableAt(a) \in EntryType
  BY DEF PageAt, TableAt, EntryType
<1>3. \A a : TableAt(a).kind = "table" /\ TableAt(a).addr = a
  BY DEF TableAt
<1>4. \A a, b : TableAt(a) = TableAt(b) => a = b
  BY <1>3
<1> QED
  BY <1>1, <1>2, <1>3, <1>4

\* Tables keep their level, and all but one their entries.
SameBut(U, T, u) ==
  \A x \in DOMAIN U \cap DOMAIN T : U[x].lv = T[x].lv /\ (x # u => U[x] = T[x])

\* The tables with other entries in one; with a table added below an entry, and with one removed
Rewritten(T, t, pte) == [T EXCEPT ![t].pte = pte]
Added(T, t, idx, a, l) ==
  [x \in DOMAIN T \cup {a} |->
     IF x = a THEN NewTable(l) ELSE [T EXCEPT ![t].pte[idx] = TableAt(a)][x]]
Removed(T, u, idx, t) == [x \in DOMAIN T \ {t} |-> [T EXCEPT ![u].pte[idx] = None][x]]

\* A table with other entries, the new ones none that lead to tables
LEMMA EntriesSet ==
  ASSUME NEW T, TablesOK(T), NEW t \in DOMAIN T,
         NEW pte \in [0..(PteCnt[T[t].lv] - 1) -> EntryType],
         \A i \in DOMAIN pte : pte[i] = T[t].pte[i] \/ pte[i].kind # "table",
         NEW U, U = Rewritten(T, t, pte)
  PROVE  TablesOK(U) /\ DOMAIN U = DOMAIN T /\ U[t].pte = pte /\ SameBut(U, T, t)
<1>1. T[t] = [lv |-> T[t].lv, pte |-> T[t].pte] /\ T[t].lv \in 1..Levels
  BY TableIs
<1>2. T \in [DOMAIN T -> TableType] /\ Root \in DOMAIN T
  BY DEF TablesOK
<1>3. [T[t] EXCEPT !.pte = pte] = [lv |-> T[t].lv, pte |-> pte]
  BY <1>1
<1>4. PICK new : new = [lv |-> T[t].lv, pte |-> pte] /\ new.lv = T[t].lv /\ new.pte = pte
  <2>1. PICK r : r = [lv |-> T[t].lv, pte |-> pte]
    OBVIOUS
  <2>2. r.lv = T[t].lv /\ r.pte = pte
    BY <2>1
  <2> QED
    BY <2>1, <2>2
<1>5. new \in TableType
  BY <1>1, <1>4, TableTyped
<1>6. U = [x \in DOMAIN T |-> IF x = t THEN new ELSE T[x]]
  BY <1>2, <1>3, <1>4 DEF Rewritten
<1>7. DOMAIN U = DOMAIN T /\ U[t] = new /\ \A x \in DOMAIN T : x # t => U[x] = T[x]
  BY <1>6
<1>8. U \in [DOMAIN U -> TableType]
  BY <1>2, <1>5, <1>6, <1>7
<1>9. \A x \in DOMAIN T : U[x].lv = T[x].lv
  BY <1>4, <1>7
<1>10. ASSUME NEW x, NEW i, NEW a, Points(U, x, i, a) PROVE Points(T, x, i, a) /\ a \in DOMAIN U
  <2>1. x \in DOMAIN T /\ i \in DOMAIN U[x].pte /\ U[x].pte[i] = TableAt(a)
    BY <1>7, <1>10 DEF Points
  <2>2. ASSUME x = t PROVE Points(T, x, i, a)
    <3>1. i \in DOMAIN pte /\ pte[i] = TableAt(a)
      BY <1>4, <1>7, <2>1, <2>2
    <3>2. pte[i].kind = "table"
      BY <3>1, EntryTypes
    <3>3. T[t].pte[i] = TableAt(a)
      BY <3>1, <3>2
    <3>4. i \in DOMAIN T[t].pte
      BY <3>1, TableIs
    <3> QED
      BY <2>2, <3>3, <3>4, Zenon DEF Points
  <2>3. ASSUME x # t PROVE Points(T, x, i, a)
    <3>1. U[x] = T[x]
      BY <1>7, <2>1, <2>3
    <3> QED
      BY <2>1, <3>1, Zenon DEF Points
  <2>4. Points(T, x, i, a)
    BY <2>2, <2>3
  <2> QED
    BY <1>7, <2>4 DEF TablesOK
<1>11. DOMAIN U \subseteq DOMAIN T /\ Root \in DOMAIN U
  BY <1>2, <1>7
<1>12. \A x \in DOMAIN U : U[x].lv = T[x].lv
  BY <1>7, <1>9
<1>13. TablesOK(U)
  BY <1>8, <1>10, <1>11, <1>12, FewerEntries, Zenon
<1> QED
  BY <1>4, <1>7, <1>9, <1>13 DEF SameBut

\* The visit of entries of the last frame
LEMMA StackSet ==
  ASSUME NEW T, TablesOK(T), NEW stack, StackOK(T, stack, FALSE), NEW n, n = Len(stack),
         NEW U, DOMAIN T \subseteq DOMAIN U, SameBut(U, T, stack[n].pt)
  PROVE  StackOK(U, stack, FALSE)
<1>1. n \in Nat \ {0} /\ n \in 1..n
  BY LenProperties DEF StackOK
<1>a. \A x \in DOMAIN T : x \in DOMAIN U /\ U[x].lv = T[x].lv /\ (x # stack[n].pt => U[x] = T[x])
  BY DEF SameBut
<1>2. ASSUME NEW i \in 1..n
      PROVE stack[i].pt \in DOMAIN U /\ U[stack[i].pt].lv = T[stack[i].pt].lv
  <2>1. stack[i].pt \in DOMAIN T
    BY FrameIs
  <2> QED
    BY <1>a, <2>1
<1>3. ASSUME NEW i \in 1..n, i < n
      PROVE  U[stack[i].pt].pte[stack[i].idx] = T[stack[i].pt].pte[stack[i].idx]
  <2>1. ASSUME stack[i].pt = stack[n].pt PROVE FALSE
    <3>1. i \in 1..Len(stack) /\ n \in 1..Len(stack)
      BY <1>1
    <3>2. i = n
      BY <2>1, <3>1, FramesDiffer
    <3> QED
      BY <1>1, <1>3, <3>2
  <2>2. stack[i].pt \in DOMAIN T
    BY FrameIs
  <2> QED
    BY <1>a, <2>1, <2>2
<1> QED
  BY <1>2, <1>3, StackKept

LEMMA NewTableTyped ==
  ASSUME NEW l \in 1..Levels
  PROVE  /\ NewTable(l) \in TableType /\ NewTable(l).lv = l
         /\ \A i, a : i \in DOMAIN NewTable(l).pte => NewTable(l).pte[i] # TableAt(a)
<1> DEFINE pte == [i \in 0..(PteCnt[l] - 1) |-> None]
<1>1. pte \in [0..(PteCnt[l] - 1) -> EntryType]
  BY EntryTypes
<1>2. NewTable(l) = [lv |-> l, pte |-> pte]
  BY DEF NewTable
<1>3. NewTable(l) \in TableType
  BY <1>1, <1>2, TableTyped
<1>4. \A a : None # TableAt(a)
  BY EntryTypes
<1> QED
  BY <1>2, <1>3, <1>4

\* A new table for an entry, which did not lead to one
LEMMA TableAdded ==
  ASSUME NEW T, TablesOK(T), NEW t \in DOMAIN T, NEW idx \in DOMAIN T[t].pte,
         T[t].pte[idx].kind = "none",
         NEW l \in 1..Levels, l = T[t].lv + 1, NEW a \in Nat, a \notin DOMAIN T,
         NEW U, U = Added(T, t, idx, a, l)
  PROVE  /\ TablesOK(U) /\ DOMAIN U = DOMAIN T \cup {a} /\ Points(U, t, idx, a)
         /\ SameBut(U, T, t)
<1>s. PICK S : S = [T EXCEPT ![t].pte[idx] = TableAt(a)]
  OBVIOUS
<1>u. U = [x \in DOMAIN T \cup {a} |-> IF x = a THEN NewTable(l) ELSE S[x]]
  BY <1>s DEF Added
<1>1. /\ T[t] = [lv |-> T[t].lv, pte |-> T[t].pte] /\ T[t].lv \in 1..Levels
      /\ T[t].pte \in [0..(PteCnt[T[t].lv] - 1) -> EntryType]
  BY TableIs
<1>2. T \in [DOMAIN T -> TableType] /\ Root \in DOMAIN T /\ T[Root].lv = 1 /\ DOMAIN T \ {Root} \subseteq Nat
  BY DEF TablesOK
<1>3. PICK pte : pte = [T[t].pte EXCEPT ![idx] = TableAt(a)]
  OBVIOUS
<1>4. /\ pte \in [0..(PteCnt[T[t].lv] - 1) -> EntryType] /\ DOMAIN pte = DOMAIN T[t].pte
      /\ pte[idx] = TableAt(a) /\ \A i \in DOMAIN T[t].pte : i # idx => pte[i] = T[t].pte[i]
  <2>1. TableAt(a) \in EntryType
    BY EntryTypes
  <2> QED
    BY <1>1, <1>3, <2>1
<1>5. PICK new : new = [lv |-> T[t].lv, pte |-> pte] /\ new.lv = T[t].lv /\ new.pte = pte
  <2>1. PICK r : r = [lv |-> T[t].lv, pte |-> pte]
    OBVIOUS
  <2>2. r.lv = T[t].lv /\ r.pte = pte
    BY <2>1
  <2> QED
    BY <2>1, <2>2
<1>6. new \in TableType
  BY <1>1, <1>4, <1>5, TableTyped
<1>7. S = [x \in DOMAIN T |-> IF x = t THEN new ELSE T[x]]
  <2>1. [T[t] EXCEPT !.pte = pte] = new
    BY <1>1, <1>5
  <2>2. S = [T EXCEPT ![t] = new]
    BY <1>s, <1>1, <1>3, <1>5, <2>1
  <2> QED
    BY <1>2, <2>2
<1>8. a # t /\ a # Root /\ t \in DOMAIN U
  BY <1>u, <1>2
<1>9. /\ DOMAIN U = DOMAIN T \cup {a} /\ U[a] = NewTable(l) /\ U[t] = new
      /\ \A x \in DOMAIN T : x # t => U[x] = T[x]
  BY <1>u, <1>7, <1>8
<1>10. ASSUME NEW x \in DOMAIN U PROVE U[x] \in TableType
  <2>1. x = a \/ x = t \/ (x \in DOMAIN T /\ x # t)
    BY <1>9
  <2>2. NewTable(l) \in TableType
    BY NewTableTyped
  <2>3. \A y \in DOMAIN T : T[y] \in TableType
    BY <1>2
  <2> QED
    BY <1>6, <1>9, <2>1, <2>2, <2>3
<1>11. U \in [DOMAIN U -> TableType]
  BY <1>u, <1>10
<1>12. \A x \in DOMAIN T : U[x].lv = T[x].lv
  BY <1>5, <1>9
<1>13. U[a].lv = T[t].lv + 1
  BY <1>9, NewTableTyped
<1>14. ASSUME NEW x, NEW i, NEW b, Points(U, x, i, b)
       PROVE  (x = t /\ i = idx /\ b = a) \/ (Points(T, x, i, b) /\ b # a)
  <2>1. x \in DOMAIN U /\ i \in DOMAIN U[x].pte /\ U[x].pte[i] = TableAt(b)
    BY <1>14 DEF Points
  <2>2. x # a
    BY <1>9, <2>1, NewTableTyped
  <2>3. ASSUME Points(T, x, i, b) PROVE b # a
    BY <2>3 DEF TablesOK
  <2>4. CASE x = t
    <3>1. i \in DOMAIN T[t].pte /\ pte[i] = TableAt(b)
      BY <1>4, <1>5, <1>9, <2>1, <2>4
    <3>2. CASE i = idx
      BY <1>4, <2>4, <3>1, <3>2, EntryTypes
    <3>3. CASE i # idx
      <4>1. Points(T, x, i, b)
        BY <1>4, <2>4, <3>1, <3>3 DEF Points
      <4> QED
        BY <2>3, <4>1
    <3> QED
      BY <3>2, <3>3
  <2>5. CASE x # t
    <3>1. Points(T, x, i, b)
      BY <1>9, <2>1, <2>2, <2>5 DEF Points
    <3> QED
      BY <2>3, <3>1
  <2> QED
    BY <2>4, <2>5
<1>15. Points(U, t, idx, a)
  BY <1>4, <1>5, <1>8, <1>9 DEF Points
<1>16. ASSUME NEW x, NEW i, NEW b, Points(U, x, i, b)
       PROVE  b \in DOMAIN U \ {Root} /\ U[b].lv = U[x].lv + 1
  <2>1. CASE x = t /\ i = idx /\ b = a
    BY <1>8, <1>9, <1>12, <1>13, <2>1
  <2>2. CASE Points(T, x, i, b) /\ b # a
    <3>1. b \in DOMAIN T \ {Root} /\ T[b].lv = T[x].lv + 1
      BY <2>2 DEF TablesOK
    <3>2. x \in DOMAIN T
      BY <2>2 DEF Points
    <3> QED
      BY <1>9, <1>12, <3>1, <3>2
  <2> QED
    BY <1>14, <1>16, <2>1, <2>2
<1>17. ASSUME NEW x, NEW i, NEW y, NEW j, NEW b, Points(U, x, i, b), Points(U, y, j, b)
       PROVE  x = y /\ i = j
  <2>1. (x = t /\ i = idx /\ b = a) \/ (Points(T, x, i, b) /\ b # a)
    BY <1>14, <1>17
  <2>2. (y = t /\ j = idx /\ b = a) \/ (Points(T, y, j, b) /\ b # a)
    BY <1>14, <1>17
  <2>3. CASE Points(T, x, i, b) /\ Points(T, y, j, b)
    BY <2>3, Zenon DEF TablesOK
  <2> QED
    BY <2>1, <2>2, <2>3
<1>18. DOMAIN U \ {Root} \subseteq Nat /\ Root \in DOMAIN U /\ U[Root].lv = 1
  BY <1>2, <1>9, <1>12
<1>19. TablesOK(U)
  BY <1>11, <1>16, <1>17, <1>18, Zenon DEF TablesOK
<1> QED
  BY <1>9, <1>12, <1>15, <1>19 DEF SameBut

\* The frame before the last one leads to the table of the last.
ParentOK(T, stack, n) ==
  /\ n - 1 \in Nat \ {0} /\ n - 1 \in 1..n /\ n \in 1..n /\ n \in Nat
  /\ Points(T, stack[n - 1].pt, stack[n - 1].idx, stack[n].pt)
  /\ stack[n - 1].pt # stack[n].pt

LEMMA ParentIs ==
  ASSUME NEW T, TablesOK(T), NEW stack, StackOK(T, stack, TRUE), NEW n \in Nat, n = Len(stack), n > 1
  PROVE  ParentOK(T, stack, n)
<1>1. PICK m \in Nat \ {0} : m = n - 1 /\ m + 1 = n /\ m \in 1..n /\ n \in 1..n /\ n \in Nat
  <2>1. Len(stack) \in Nat
    BY LenProperties DEF StackOK
  <2>2. n \in Nat
    BY <2>1
  <2>3. n - 1 \in Nat \ {0} /\ (n - 1) + 1 = n /\ n - 1 \in 1..n /\ n \in 1..n
    BY <2>2
  <2> QED
    BY <2>2, <2>3, Zenon
<1>2. PICK f : f = stack[m]
  OBVIOUS
<1>3. /\ f.pt \in DOMAIN T /\ T[f.pt].lv = m /\ f.idx \in Nat /\ f.idx < PteCnt[m]
      /\ T[f.pt].pte[f.idx] = TableAt(stack[n].pt)
  <2>1. m \in 1..Len(stack) /\ m < Len(stack)
    BY <1>1
  <2>2. FrameOK(T, stack, TRUE, m)
    BY <2>1 DEF StackOK
  <2>3. stack[m].idx \in Nat /\ stack[m].pt \in DOMAIN T /\ T[stack[m].pt].lv = m
    BY <2>1, <2>2, FrameIs DEF FrameOK
  <2>4. f.idx \in Nat /\ f.pt \in DOMAIN T /\ T[f.pt].lv = m
    BY <1>2, <2>3
  <2> QED
    BY <1>1, <1>2, <2>1, <2>2, <2>4 DEF FrameOK
<1>4. f.idx \in DOMAIN T[f.pt].pte
  <2>1. T[f.pt].pte \in [0..(PteCnt[T[f.pt].lv] - 1) -> EntryType] /\ T[f.pt].lv \in 1..Levels
    BY <1>3, TableIs
  <2>2. PteCnt[m] \in Nat
    BY <1>3, <2>1, CoversAre
  <2> QED
    BY <1>3, <2>1, <2>2
<1>5. Points(T, f.pt, f.idx, stack[n].pt)
  BY <1>3, <1>4 DEF Points
<1>6. f.pt # stack[n].pt
  <2>1. SUFFICES ASSUME stack[m].pt = stack[n].pt PROVE FALSE
    BY <1>2
  <2>2. m = n
    BY <1>1, <2>1, FramesDiffer
  <2> QED
    BY <1>1, <2>2
<1> QED
  BY <1>1, <1>2, <1>5, <1>6 DEF ParentOK

\* The rest of a stack does not use the table of its last frame, nor any entry of the table
\* of the frame before.
LEMMA StackFreed ==
  ASSUME NEW T, TablesOK(T), NEW stack, StackOK(T, stack, TRUE), NEW n \in Nat, n = Len(stack), n > 1,
         NEW new, StackOK(T, new, TRUE), Len(new) = n - 1, SameFrames(new, stack, n - 1),
         NEW U, DOMAIN U = DOMAIN T \ {stack[n].pt}, SameBut(U, T, stack[n - 1].pt)
  PROVE  StackOK(U, new, TRUE)
<1>1. PICK m \in Nat : /\ m = n - 1 /\ StackOK(T, new, TRUE) /\ Len(new) = m
                        /\ \A i \in 1..m : new[i].pt = stack[i].pt /\ (i < m => new[i] = stack[i])
                        /\ \A x \in DOMAIN U : U[x].lv = T[x].lv
                        /\ \A y \in DOMAIN U : y # stack[m].pt => U[y] = T[y]
  <2>1. n - 1 \in Nat
    OBVIOUS
  <2>2. \A x \in DOMAIN U : U[x].lv = T[x].lv /\ (x # stack[n - 1].pt => U[x] = T[x])
    BY DEF SameBut
  <2> QED
    BY <2>1, <2>2 DEF SameFrames
<1>2. m \in Nat \ {0} /\ m \in 1..n /\ n \in 1..n
  BY <1>1
<1>3. ASSUME NEW i \in 1..m
      PROVE  /\ new[i].pt \in DOMAIN U /\ U[new[i].pt].lv = T[new[i].pt].lv
             /\ i < m => U[new[i].pt].pte[new[i].idx] = T[new[i].pt].pte[new[i].idx]
  <2>1. i \in 1..n /\ i # n
    BY <1>1, <1>2
  <2>2. stack[i].pt \in DOMAIN T /\ new[i].pt = stack[i].pt
    BY <1>1, <2>1, FrameIs
  <2>3. stack[i].pt # stack[n].pt
    <3>1. SUFFICES ASSUME stack[i].pt = stack[n].pt PROVE FALSE
      OBVIOUS
    <3> QED
      BY <1>2, <2>1, <3>1, FramesDiffer
  <2>4. new[i].pt \in DOMAIN U
    BY <2>2, <2>3
  <2>5. ASSUME i < m PROVE U[new[i].pt] = T[new[i].pt]
    <3>1. stack[i].pt # stack[m].pt
      <4>1. SUFFICES ASSUME stack[i].pt = stack[m].pt PROVE FALSE
        OBVIOUS
      <4>2. i = m
        BY <1>2, <2>1, <4>1, FramesDiffer
      <4> QED
        BY <1>2, <2>5, <4>2
    <3> QED
      BY <1>1, <2>2, <2>4, <3>1
  <2> QED
    BY <1>1, <2>4, <2>5
<1>4. \A i \in 1..Len(new) : new[i].pt \in DOMAIN U /\ U[new[i].pt].lv = T[new[i].pt].lv
  BY <1>1, <1>3, SMTT(60)
<1>5. \A i \in 1..Len(new) : i < Len(new) =>
        U[new[i].pt].pte[new[i].idx] = T[new[i].pt].pte[new[i].idx]
  BY <1>1, <1>3
<1> QED
  BY <1>1, <1>4, <1>5, StackKept, Zenon

\* A table goes, and the entry that leads to it.
LEMMA TableRemoved ==
  ASSUME NEW T, TablesOK(T), NEW u, NEW idx, NEW t, Points(T, u, idx, t), u # t,
         NEW U, U = Removed(T, u, idx, t)
  PROVE  /\ TablesOK(U) /\ DOMAIN U = DOMAIN T \ {t} /\ t \in DOMAIN T \ {Root}
         /\ SameBut(U, T, u)
<1>s. PICK S : S = [T EXCEPT ![u].pte[idx] = None]
  OBVIOUS
<1>v. U = [x \in DOMAIN T \ {t} |-> S[x]]
  BY <1>s DEF Removed
<1>1. u \in DOMAIN T /\ idx \in DOMAIN T[u].pte
  BY DEF Points
<1>2. /\ T[u] = [lv |-> T[u].lv, pte |-> T[u].pte] /\ T[u].lv \in 1..Levels
      /\ T[u].pte \in [0..(PteCnt[T[u].lv] - 1) -> EntryType]
  BY <1>1, TableIs
<1>3. t \in DOMAIN T \ {Root}
  BY Zenon DEF TablesOK
<1>4. PICK pte : pte = [T[u].pte EXCEPT ![idx] = None]
  OBVIOUS
<1>5. /\ pte \in [0..(PteCnt[T[u].lv] - 1) -> EntryType] /\ DOMAIN pte = DOMAIN T[u].pte
      /\ pte[idx] = None /\ \A i \in DOMAIN T[u].pte : i # idx => pte[i] = T[u].pte[i]
  <2>1. None \in EntryType
    BY EntryTypes
  <2> QED
    BY <1>1, <1>2, <1>4, <2>1
<1>6. PICK put : put = [lv |-> T[u].lv, pte |-> pte]
  OBVIOUS
<1>7. put.lv = T[u].lv /\ put.pte = pte
  BY <1>6
<1>8. put \in TableType
  BY <1>2, <1>5, <1>6, TableTyped
<1>9. T \in [DOMAIN T -> TableType] /\ Root \in DOMAIN T
  BY DEF TablesOK
<1>10. S = [x \in DOMAIN T |-> IF x = u THEN put ELSE T[x]]
  <2>1. [T[u] EXCEPT !.pte = pte] = put
    BY <1>2, <1>6
  <2>2. S = [T EXCEPT ![u] = put]
    BY <1>s, <1>2, <1>4, <1>6, <2>1
  <2> QED
    BY <1>9, <2>2
<1>11. /\ DOMAIN U = DOMAIN T \ {t} /\ U[u] = put
       /\ \A x \in DOMAIN U : x # u => U[x] = T[x]
  BY <1>v, <1>1, <1>10
<1>12. U \in [DOMAIN U -> TableType]
  <2>1. ASSUME NEW x \in DOMAIN U PROVE U[x] \in TableType
    BY <1>8, <1>9, <1>11
  <2> QED
    BY <1>v, <2>1
<1>13. \A x \in DOMAIN U : U[x].lv = T[x].lv
  BY <1>7, <1>11
<1>14. ASSUME NEW x, NEW i, NEW a, Points(U, x, i, a) PROVE Points(T, x, i, a) /\ a \in DOMAIN U
  <2>1. x \in DOMAIN U /\ i \in DOMAIN U[x].pte /\ U[x].pte[i] = TableAt(a)
    BY <1>14 DEF Points
  <2>2. ASSUME x = u PROVE Points(T, x, i, a) /\ i # idx
    <3>1. i \in DOMAIN T[u].pte /\ pte[i] = TableAt(a)
      BY <1>5, <1>7, <1>11, <2>1, <2>2
    <3>2. i # idx
      BY <1>5, <3>1, EntryTypes
    <3>3. T[u].pte[i] = TableAt(a)
      BY <1>5, <3>1, <3>2
    <3> QED
      BY <1>1, <2>2, <3>1, <3>2, <3>3, Zenon DEF Points
  <2>3. ASSUME x # u PROVE Points(T, x, i, a)
    <3>1. U[x] = T[x] /\ x \in DOMAIN T
      BY <1>11, <2>1, <2>3
    <3> QED
      BY <2>1, <3>1, Zenon DEF Points
  <2>4. Points(T, x, i, a) /\ (x = u => i # idx)
    BY <2>2, <2>3
  <2>5. ASSUME a = t PROVE FALSE
    <3>1. Points(T, x, i, t)
      BY <2>4, <2>5
    <3>2. x = u /\ i = idx
      BY <3>1, Zenon DEF TablesOK
    <3> QED
      BY <2>4, <3>2
  <2>6. a \in DOMAIN T
    BY <2>4, Zenon DEF TablesOK
  <2> QED
    BY <1>11, <2>4, <2>5, <2>6
<1>15. DOMAIN U \subseteq DOMAIN T /\ Root \in DOMAIN U
  BY <1>3, <1>9, <1>11
<1>16. TablesOK(U)
  BY <1>12, <1>13, <1>14, <1>15, FewerEntries, Zenon
<1> QED
  BY <1>3, <1>11, <1>13, <1>16 DEF SameBut

-----------------------------------------------------------------------------
(***************************************************************************)
(* Every step keeps the invariant, and what it does to the physical heap is *)
(* a step of IntervalAllocator or nothing.                                  *)
(***************************************************************************)

LEMMA AllocIsAllocate ==
  ASSUME HeapInv(pa), HeapInv(pa'), pa'.total = Physical,
         NEW a \in Nat, NEW n \in Nat \ {0}, ~IsTaken(pa, a),
         Taken(pa') = Taken(pa) \cup {<<a, n>>}
  PROVE  Frame!Next
<1> DEFINE i == <<a, n>>
<1>1. i \in Taken(pa') /\ i[1] = a /\ i[2] = n
  OBVIOUS
<1>2. IsTaken(pa', a) /\ pa'.blocks[a].size = n /\ a + n <= Physical
  BY <1>1, TakenFacts
<1>3. ASSUME NEW j \in Taken(pa) PROVE Frame!Apart(i, j)
  <2>1. PICK s, m : j = <<s, m>> /\ <<s, m>> \in Taken(pa)
    BY DEF Taken
  <2>2. IsTaken(pa, s) /\ <<s, m>> \in Taken(pa')
    BY <2>1, TakenFacts
  <2>3. IsTaken(pa', s) /\ pa'.blocks[s].size = m /\ s # a
    BY <2>2, TakenFacts
  <2>4. a + n <= s \/ s + m <= a
    BY <1>2, <2>3, TakenApart
  <2> QED
    BY <2>1, <2>4 DEF Frame!Apart
<1> HIDE DEF i
<1>4. Taken(pa') = Taken(pa) \cup {i}
  BY DEF i
<1>5. Frame!Allocate(i)
  BY <1>1, <1>2, <1>3, <1>4 DEF Frame!Allocate
<1> QED
  BY <1>1, <1>5, Zenon DEF Frame!Next

LEMMA FreeIsFree ==
  ASSUME NEW i \in Taken(pa), Taken(pa') = Taken(pa) \ {i}
  PROVE  Frame!Next
<1>1. Frame!Free(i)
  BY DEF Frame!Free
<1> QED
  BY <1>1, Zenon DEF Frame!Next

LEMMA MergePhysicalKeeps ==
  ASSUME IInv, MergePhysical
  PROVE  IInv' /\ UNCHANGED Taken(pa)
<1>1. HeapInv(pa') /\ pa'.total = pa.total /\ Taken(pa') = Taken(pa)
  BY MergeTaken DEF IInv, HeapsOK, MergePhysical
<1>2. UNCHANGED <<pc, req, walk, tables, va, maps, lost>>
  BY DEF MergePhysical
<1>3. TypeOK' /\ HeapsOK'
  BY <1>1, <1>2 DEF IInv, TypeOK, HeapsOK
<1>4. PiecesOwned(maps \cup lost, req.pieces, tables, pa)'
  BY <1>1, <1>2 DEF IInv, PiecesOwned
<1> QED
  BY <1>1, <1>2, <1>3, <1>4 DEF IInv

LEMMA MergeVirtualKeeps ==
  ASSUME IInv, MergeVirtual
  PROVE  IInv' /\ UNCHANGED pa
<1>1. HeapInv(va') /\ va'.total = va.total /\ Taken(va') = Taken(va)
  BY MergeTaken DEF IInv, HeapsOK, MergeVirtual
<1>2. UNCHANGED <<pc, req, walk, tables, pa, maps, lost>>
  BY DEF MergeVirtual
<1>3. TypeOK' /\ HeapsOK'
  BY <1>1, <1>2 DEF IInv, TypeOK, HeapsOK
<1>4. RangesOwned(maps \cup lost, pc \in Claiming, req, va)'
  BY <1>1, <1>2 DEF IInv, RangesOwned
<1> QED
  BY <1>1, <1>2, <1>3, <1>4 DEF IInv

\* The records of a state
LEMMA ReqIs ==
  ASSUME NEW r \in ReqType
  PROVE  /\ r.va \in Nat /\ r.size \in Nat /\ r.pieces \in Seq(PieceType) /\ r.rem \in Nat /\ r.range \in Nat
         /\ r = [va |-> r.va, size |-> r.size, pieces |-> r.pieces, rem |-> r.rem, range |-> r.range]
  BY DEF ReqType

LEMMA WalkIs ==
  ASSUME NEW w \in WalkType
  PROVE  /\ w.vaddr \in Nat /\ w.size \in Int /\ w.off \in Nat /\ w.piece \in Nat
         /\ w.stack \in Seq(Frame0) /\ w.up \in BOOLEAN
  BY DEF WalkType

LEMMA NoReqIs == NoReq \in ReqType /\ NoReq.pieces = <<>> /\ NoReq.va = 0 /\ NoReq.size = 0
<1>1. <<>> \in Seq(PieceType)
  OBVIOUS
<1> QED
  BY <1>1 DEF NoReq, ReqType

LEMMA NoWalkIs == NoWalk \in WalkType /\ NoWalk.up = FALSE
<1>1. <<>> \in Seq(Frame0)
  OBVIOUS
<1> QED
  BY <1>1 DEF NoWalk, WalkType

\* What a call that raises leaves, and what valloc returns
LEMMA RangeIs ==
  ASSUME NEW r \in ReqType, r.size # 0, NEW pieces \in Seq(PieceType)
  PROVE  [va |-> r.va, size |-> r.size, pieces |-> pieces] \in RangeType
  BY DEF ReqType, RangeType

\* A traversal starts.
LEMMA TraversalIs ==
  ASSUME NEW T, TablesOK(T), NEW start \in Nat
  PROVE  /\ Traversal(start) \in WalkType
         /\ Traversal(start).vaddr = start /\ Traversal(start).up = FALSE
         /\ Traversal(start).size = 0 /\ Traversal(start).off = 0 /\ Traversal(start).piece = 0
         /\ StackOK(T, Traversal(start).stack, FALSE)
         /\ Position(Traversal(start).stack, start)
<1>1. PICK j : j = (start \div PteCovers[1]) % PteCnt[1]
  OBVIOUS
<1>2. PICK stack : stack = <<[pt |-> Root, idx |-> j]>>
  OBVIOUS
<1>3. Position(stack, start) /\ j \in Nat /\ j < PteCnt[1]
  BY <1>1, <1>2, PositionStarts
<1>4. StackOK(T, stack, FALSE)
  BY <1>2, <1>3, StackStarts
<1>5. stack \in Seq(Frame0)
  BY <1>4 DEF StackOK
<1>6. Traversal(start) = [vaddr |-> start, size |-> 0, off |-> 0, piece |-> 0,
                          stack |-> stack, up |-> FALSE]
  BY <1>1, <1>2 DEF Traversal
<1>7. Traversal(start) \in WalkType
  BY <1>5, <1>6 DEF WalkType
<1>8. PICK w : w = Traversal(start)
  OBVIOUS
<1>9. /\ w.vaddr = start /\ w.up = FALSE /\ w.size = 0 /\ w.off = 0 /\ w.piece = 0
      /\ w.stack = stack
  BY <1>6, <1>8
<1>10. StackOK(T, w.stack, FALSE) /\ Position(w.stack, start)
  BY <1>3, <1>4, <1>9
<1> QED
  BY <1>7, <1>8, <1>9, <1>10

\* A call that has its range ends: what it held becomes a mapping or is lost.
LEMMA CallEnds ==
  ASSUME IInv, pc \in Claiming, pc' = "idle", req' = NoReq, UNCHANGED <<tables, pa, va>>,
         walk' \in WalkType, ~walk'.up,
         NEW s, s = [va |-> req.va, size |-> req.size, pieces |-> req.pieces],
         \/ maps' = maps \cup {s} /\ lost' = lost
         \/ lost' = lost \cup {s} /\ maps' = maps
  PROVE  IInv'
<1>1. req \in ReqType /\ req.size # 0 /\ maps \cap lost = {}
  BY DEF IInv, TypeOK, ReqOK
<1>2. s \in RangeType /\ s.va = req.va /\ s.size = req.size /\ s.pieces = req.pieces
  BY <1>1, ReqIs, RangeIs
<1>a. PICK own : own = maps \cup lost
  OBVIOUS
<1>3. own = maps \cup lost /\ maps' \cup lost' = own \cup {s}
  BY <1>a
<1>4. RangesOwned(own, TRUE, req, va) /\ PiecesOwned(own, req.pieces, tables, pa)
  BY <1>3 DEF IInv
<1>5. RangesOwned(own \cup {s}, FALSE, NoReq, va) /\ s \notin own
  BY <1>2, <1>4, RangeHandedOver
<1>6. PiecesOwned(own \cup {s}, <<>>, tables, pa)
  BY <1>2, <1>4, HandedOver
<1>7. TypeOK'
  BY <1>1, <1>3, <1>5, NoReqIs DEF TypeOK, Loops
<1>8. HeapsOK'
  BY DEF IInv, HeapsOK
<1>9. RangesOwned(maps \cup lost, pc \in Claiming, req, va)'
  <2>1. (pc' \in Claiming) = FALSE
    BY DEF Claiming
  <2> QED
    BY <1>3, <1>5, <2>1
<1>10. PiecesOwned(maps \cup lost, req.pieces, tables, pa)'
  BY <1>3, <1>6, NoReqIs
<1>11. ReqOK(pc, req)'
  BY DEF ReqOK, Claiming, Providing
<1>12. WalkOK(pc, walk, tables, req)'
  BY DEF WalkOK, Traversing
<1>13. TablesOK(tables)'
  BY DEF IInv
<1> QED
  BY <1>7, <1>8, <1>9, <1>10, <1>11, <1>12, <1>13 DEF IInv

LEMMA ContiguousRaisesKeeps == ASSUME IInv, ContiguousRaises PROVE IInv' /\ UNCHANGED pa
<1>1. /\ pc = "contiguous" /\ pc' = "idle" /\ req' = NoReq /\ UNCHANGED <<walk, tables, pa, va, maps>>
      /\ lost' = lost \cup {[va |-> req.va, size |-> req.size, pieces |-> req.pieces]}
  BY DEF ContiguousRaises, Ready, Lose
<1>2. walk \in WalkType /\ ~walk.up
  BY <1>1 DEF IInv, TypeOK, WalkOK, Traversing
<1>3. pc \in Claiming
  BY <1>1 DEF Claiming
<1> QED
  BY <1>1, <1>2, <1>3, CallEnds

LEMMA CreateTableRaisesKeeps == ASSUME IInv, CreateTableRaises PROVE IInv' /\ UNCHANGED pa
<1>1. /\ pc = "map" /\ pc' = "idle" /\ req' = NoReq /\ walk' = NoWalk /\ UNCHANGED <<tables, pa, va, maps>>
      /\ lost' = lost \cup {[va |-> req.va, size |-> req.size, pieces |-> req.pieces]}
  BY DEF CreateTableRaises, Lose
<1>2. walk' \in WalkType /\ ~walk'.up
  BY <1>1, NoWalkIs
<1>3. pc \in Claiming
  BY <1>1 DEF Claiming
<1> QED
  BY <1>1, <1>2, <1>3, CallEnds

LEMMA VallocReturnsKeeps == ASSUME IInv, VallocReturns PROVE IInv' /\ UNCHANGED pa
<1>1. /\ pc = "map" /\ pc' = "idle" /\ req' = NoReq /\ walk' = NoWalk /\ UNCHANGED <<tables, pa, va, lost>>
      /\ maps' = maps \cup {[va |-> req.va, size |-> req.size, pieces |-> req.pieces]}
  BY DEF VallocReturns, Passed, Ready
<1>2. walk' \in WalkType /\ ~walk'.up
  BY <1>1, NoWalkIs
<1>3. pc \in Claiming
  BY <1>1 DEF Claiming
<1> QED
  BY <1>1, <1>2, <1>3, CallEnds

LEMMA GiveUpKeeps == ASSUME IInv, GiveUp PROVE IInv' /\ UNCHANGED pa
<1>1. /\ pc = "palloc" /\ pc' = "release" /\ UNCHANGED <<req, walk, tables, pa, va, maps>>
      /\ lost' = lost \cup {[va |-> req.va, size |-> req.size, pieces |-> <<>>]}
  <2>1. pc = "palloc" /\ pc' = "release" /\ UNCHANGED <<req, walk, tables, pa, va, maps>>
        /\ Lose([req EXCEPT !.pieces = <<>>])
    BY DEF GiveUp, Ready
  <2>2. PICK r : r = [req EXCEPT !.pieces = <<>>]
    OBVIOUS
  <2>3. r.va = req.va /\ r.size = req.size /\ r.pieces = <<>>
    BY <2>2, ReqIs DEF IInv, TypeOK
  <2> QED
    BY <2>1, <2>2, <2>3 DEF Lose
<1>2. req \in ReqType /\ req.size # 0 /\ maps \cap lost = {} /\ walk \in WalkType /\ ~walk.up
  BY <1>1 DEF IInv, TypeOK, ReqOK, WalkOK, Claiming, Traversing
<1>3. PICK s : s = [va |-> req.va, size |-> req.size, pieces |-> <<>>]
  OBVIOUS
<1>4. s \in RangeType /\ s.va = req.va /\ s.size = req.size /\ s.pieces = <<>>
  <2>1. <<>> \in Seq(PieceType)
    OBVIOUS
  <2> QED
    BY <1>2, <1>3, <2>1, RangeIs
<1>a. PICK own : own = maps \cup lost
  OBVIOUS
<1>5. own = maps \cup lost /\ maps' \cup lost' = own \cup {s}
  BY <1>1, <1>3, <1>a
<1>6. RangesOwned(own, TRUE, req, va) /\ PiecesOwned(own, req.pieces, tables, pa)
  BY <1>1, <1>5 DEF IInv, Claiming
<1>7. RangesOwned(own \cup {s}, FALSE, req, va) /\ s \notin own
  BY <1>4, <1>6, RangeHandedOver
<1>8. PiecesOwned(own \cup {s}, req.pieces, tables, pa)
  BY <1>4, <1>6, EmptyOwner
<1>9. TypeOK'
  BY <1>1, <1>2, <1>3, <1>5, <1>7 DEF TypeOK, Loops
<1>10. HeapsOK' /\ TablesOK(tables)'
  BY <1>1 DEF IInv, HeapsOK
<1>11. RangesOwned(maps \cup lost, pc \in Claiming, req, va)'
  <2>1. (pc' \in Claiming) = FALSE
    BY <1>1 DEF Claiming
  <2> QED
    BY <1>1, <1>5, <1>7, <2>1
<1>12. PiecesOwned(maps \cup lost, req.pieces, tables, pa)'
  BY <1>1, <1>5, <1>8
<1>13. ReqOK(pc, req)'
  BY <1>1 DEF ReqOK, Claiming, Providing
<1>14. WalkOK(pc, walk, tables, req)'
  BY <1>1, <1>2 DEF WalkOK, Traversing
<1> QED
  BY <1>1, <1>9, <1>10, <1>11, <1>12, <1>13, <1>14 DEF IInv

\* A traversal of a range that is handed out
LEMMA InspectionIs ==
  ASSUME NEW T, TablesOK(T), NEW r, r.va \in Nat, r.size \in Nat \ {0}, r.va + r.size <= Virtual,
         NEW w, w = Inspection(r), NEW q, q.va = r.va, q.size = r.size
  PROVE  w \in WalkType /\ Traverses(w, T, q) /\ ~w.up
<1>1. PICK t : t = Traversal(r.va)
  OBVIOUS
<1>2. /\ t \in WalkType /\ t.vaddr = r.va /\ t.up = FALSE
      /\ StackOK(T, t.stack, FALSE) /\ Position(t.stack, r.va)
  BY <1>1, TraversalIs
<1>3. /\ w \in WalkType /\ w.vaddr = r.va /\ w.size = r.size /\ w.stack = t.stack /\ w.up = FALSE
  BY <1>1, <1>2 DEF Inspection, WalkType
<1>4. StackOK(T, w.stack, w.up) /\ Position(w.stack, w.vaddr)
  BY <1>2, <1>3
<1>5. w.vaddr < Virtual + PteCovers[1] /\ w.vaddr + w.size <= q.va + q.size
  <2>1. Virtual \in Nat /\ PteCovers[1] \in Nat
    BY VirtualMemoryAssumption, CoversAre
  <2> QED
    BY <1>3, <2>1
<1> QED
  BY <1>3, <1>4, <1>5 DEF Traverses

LEMMA VfreeKeeps ==
  ASSUME IInv, NEW m \in maps, Vfree(m)
  PROVE  IInv' /\ UNCHANGED pa
<1>1. /\ pc = "idle" /\ pc' = "unmap" /\ maps' = maps \ {m} /\ walk' = Inspection(m)
      /\ req' = [NoReq EXCEPT !.va = m.va, !.size = m.size, !.pieces = m.pieces]
      /\ UNCHANGED <<tables, pa, va, lost>>
  BY DEF Vfree, Ready
<1>2. PICK own : own = maps \cup lost
  OBVIOUS
<1>3. /\ own = maps \cup lost /\ m \in own /\ maps' \cup lost' = own \ {m}
      /\ maps \cap lost = {} /\ maps' \cap lost' = {}
  BY <1>1, <1>2 DEF IInv, TypeOK
<1>4. RangesOwned(own, FALSE, req, va) /\ PiecesOwned(own, <<>>, tables, pa)
  <2>1. (pc \in Claiming) = FALSE
    BY <1>1 DEF Claiming
  <2>2. req.pieces = <<>>
    BY <1>1, NoReqIs DEF IInv, ReqOK
  <2> QED
    BY <1>3, <2>1, <2>2 DEF IInv
<1>5. m \in RangeType
  BY <1>3, <1>4 DEF RangesOwned
<1>6. m.va \in Nat /\ m.size \in Nat \ {0} /\ m.pieces \in Seq(PieceType) /\ m.va + m.size <= Virtual
  <2>1. <<m.va, m.size>> \in Taken(va)
    BY <1>3, <1>4, ZenonT(60) DEF RangesOwned, Extents
  <2>2. m.va + m.size <= Virtual
    BY <2>1, TakenFacts DEF IInv, HeapsOK
  <2> QED
    BY <1>5, <2>2 DEF RangeType
<1>7. /\ req' \in ReqType /\ req'.va = m.va /\ req'.size = m.size /\ req'.pieces = m.pieces
  BY <1>1, <1>6, NoReqIs DEF ReqType
<1>8. walk' \in WalkType /\ Traverses(walk', tables, req')
  BY <1>1, <1>6, <1>7, InspectionIs DEF IInv
<1>9. TypeOK'
  BY <1>1, <1>3, <1>7, <1>8 DEF TypeOK, Loops
<1>10. HeapsOK' /\ TablesOK(tables)'
  BY <1>1 DEF IInv, HeapsOK
<1>11. RangesOwned(maps \cup lost, pc \in Claiming, req, va)'
  <2>1. RangesOwned(own \ {m}, TRUE, req', va)
    BY <1>3, <1>4, <1>7, RangeTakenOver
  <2>2. (pc' \in Claiming) = TRUE
    BY <1>1 DEF Claiming
  <2> QED
    BY <1>1, <1>3, <2>1, <2>2
<1>12. PiecesOwned(maps \cup lost, req.pieces, tables, pa)'
  BY <1>1, <1>3, <1>4, <1>7, TakenOver, SMTT(20)
<1>13. ReqOK(pc, req)'
  BY <1>1, <1>6, <1>7 DEF ReqOK, Claiming, Providing
<1>14. WalkOK(pc, walk, tables, req)'
  BY <1>1, <1>8 DEF WalkOK, Traversing
<1> QED
  BY <1>1, <1>9, <1>10, <1>11, <1>12, <1>13, <1>14 DEF IInv

LEMMA UnmappedKeeps == ASSUME IInv, Unmapped PROVE IInv' /\ UNCHANGED pa
<1>1. /\ pc = "unmap" /\ ~Busy(va) /\ va' = FreeBlock(va, req.va) /\ pc' = "release" /\ walk' = NoWalk
      /\ UNCHANGED <<req, tables, pa, maps, lost>>
  BY DEF Unmapped, Passed, Ready
<1>2. PICK own : own = maps \cup lost
  OBVIOUS
<1>3. RangesOwned(own, TRUE, req, va) /\ HeapInv(va) /\ va.total = Virtual
  BY <1>1, <1>2 DEF IInv, HeapsOK, Claiming
<1>4. <<req.va, req.size>> \in Taken(va)
  BY <1>3 DEF RangesOwned, Claimed
<1>5. IsTaken(va, req.va)
  BY <1>3, <1>4, TakenFacts
<1>6. /\ HeapInv(va') /\ va'.total = Virtual
      /\ Taken(va') = Taken(va) \ {<<req.va, va.blocks[req.va].size>>}
  BY <1>1, <1>3, <1>5, FreeTaken
<1>7. RangesOwned(own, FALSE, req, va')
  BY <1>3, <1>6, RangeFreed
<1>8. TypeOK' /\ HeapsOK' /\ TablesOK(tables)'
  BY <1>1, <1>6, NoWalkIs DEF IInv, TypeOK, HeapsOK, Loops
<1>9. RangesOwned(maps \cup lost, pc \in Claiming, req, va)'
  <2>1. (pc' \in Claiming) = FALSE
    BY <1>1 DEF Claiming
  <2> QED
    BY <1>1, <1>2, <1>7, <2>1
<1>10. PiecesOwned(maps \cup lost, req.pieces, tables, pa)'
  BY <1>1 DEF IInv
<1>11. ReqOK(pc, req)'
  BY <1>1 DEF ReqOK, Claiming, Providing
<1>12. WalkOK(pc, walk, tables, req)'
  BY <1>1, NoWalkIs DEF WalkOK, Traversing
<1> QED
  BY <1>1, <1>8, <1>9, <1>10, <1>11, <1>12 DEF IInv

LEMMA ReleaseKeeps == ASSUME IInv, Release PROVE IInv' /\ Frame!Next
<1>1. /\ pc = "release" /\ ~Busy(pa) /\ req.pieces # <<>>
      /\ pa' = FreeBlock(pa, Head(req.pieces)[1])
      /\ req' = [req EXCEPT !.pieces = Tail(@)]
      /\ UNCHANGED <<pc, walk, tables, va, maps, lost>>
  BY DEF Release, Ready
<1>2. /\ req \in ReqType /\ req.pieces \in Seq(PieceType) /\ HeapInv(pa) /\ pa.total = Physical
      /\ PiecesOwned(maps \cup lost, req.pieces, tables, pa)
  BY ReqIs DEF IInv, TypeOK, HeapsOK
<1>3. PICK p : p = Head(req.pieces)
  OBVIOUS
<1>4. p \in PieceSet(req.pieces) /\ p = <<p[1], p[2]>>
  <2>1. 1 \in DOMAIN req.pieces /\ p = req.pieces[1]
    BY <1>1, <1>2, <1>3, HeadTailProperties, EmptySeq, LenProperties
  <2>2. PiecesOK(req.pieces)
    BY <1>2 DEF PiecesOwned, PiecesApart
  <2> QED
    BY <2>1, <2>2, PieceIs DEF PieceSet
<1>5. <<p[1], p[2]>> \in Taken(pa)
  BY <1>2, <1>4 DEF PiecesOwned
<1>6. IsTaken(pa, p[1]) /\ pa.blocks[p[1]].size = p[2]
  BY <1>2, <1>5, TakenFacts
<1>7. /\ HeapInv(pa') /\ pa'.total = Physical
      /\ Taken(pa') = Taken(pa) \ {<<p[1], pa.blocks[p[1]].size>>}
  BY <1>1, <1>2, <1>3, <1>6, FreeTaken
<1>8. Frame!Next
  BY <1>5, <1>6, <1>7, FreeIsFree
<1>9. PiecesOwned(maps \cup lost, Tail(req.pieces), tables, pa')
  BY <1>1, <1>2, <1>3, <1>7, PieceFreed
<1>10. /\ req' \in ReqType /\ req'.pieces = Tail(req.pieces)
  <2>1. Tail(req.pieces) \in Seq(PieceType)
    BY <1>1, <1>2, HeadTailProperties, EmptySeq
  <2> QED
    BY <1>1, <1>2, <2>1 DEF ReqType
<1>11. TypeOK' /\ HeapsOK' /\ TablesOK(tables)'
  BY <1>1, <1>7, <1>10 DEF IInv, TypeOK, HeapsOK
<1>12. RangesOwned(maps \cup lost, pc \in Claiming, req, va)'
  <2>1. (pc \in Claiming) = FALSE
    BY <1>1 DEF Claiming
  <2>2. RangesOwned(maps \cup lost, FALSE, req, va)
    BY <2>1 DEF IInv
  <2>3. RangesOwned(maps \cup lost, FALSE, req', va)
    BY <2>2 DEF RangesOwned, Claimed
  <2> QED
    BY <1>1, <2>1, <2>3
<1>13. PiecesOwned(maps \cup lost, req.pieces, tables, pa)'
  BY <1>1, <1>9, <1>10
<1>14. ReqOK(pc, req)'
  BY <1>1 DEF ReqOK, Claiming, Providing
<1>15. WalkOK(pc, walk, tables, req)'
  BY <1>1 DEF IInv, WalkOK, Traversing
<1> QED
  BY <1>8, <1>11, <1>12, <1>13, <1>14, <1>15 DEF IInv

LEMMA ReleasedKeeps == ASSUME IInv, Released PROVE IInv' /\ UNCHANGED pa
<1>1. /\ pc = "release" /\ req.pieces = <<>> /\ pc' = "idle" /\ req' = NoReq
      /\ UNCHANGED <<walk, tables, pa, va, maps, lost>>
  BY DEF Released, Ready
<1>2. TypeOK' /\ HeapsOK' /\ TablesOK(tables)'
  BY <1>1, NoReqIs DEF IInv, TypeOK, HeapsOK, Loops
<1>3. RangesOwned(maps \cup lost, pc \in Claiming, req, va)'
  <2>1. (pc \in Claiming) = FALSE /\ (pc' \in Claiming) = FALSE
    BY <1>1 DEF Claiming
  <2>2. RangesOwned(maps \cup lost, FALSE, req, va)
    BY <2>1 DEF IInv
  <2>3. RangesOwned(maps \cup lost, FALSE, req', va)
    BY <2>2 DEF RangesOwned, Claimed
  <2> QED
    BY <1>1, <2>1, <2>3
<1>4. PiecesOwned(maps \cup lost, req.pieces, tables, pa)'
  BY <1>1, NoReqIs DEF IInv
<1>5. ReqOK(pc, req)'
  BY <1>1 DEF ReqOK, Claiming, Providing
<1>6. WalkOK(pc, walk, tables, req)'
  BY <1>1 DEF IInv, WalkOK, Traversing
<1> QED
  BY <1>1, <1>2, <1>3, <1>4, <1>5, <1>6 DEF IInv

\* alloc_vaddr and then valloc
LEMMA VallocKeeps ==
  ASSUME IInv, NEW size \in Sizes, NEW contiguous \in BOOLEAN, Valloc(size, contiguous)
  PROVE  IInv' /\ UNCHANGED pa
<1>1. size \in Nat \ {0} /\ Paged(size) /\ Request(size) = size
  BY VirtualMemoryAssumption, PagedIs, WholePages
<1>2. PICK al \in Nat \ {0} : al = VaAlign(size) /\ Paged(al)
  BY <1>1, AlignmentIs
<1>3. PICK at \in Chosen(va, size, al) :
        /\ va' = Alloc(va, at, AlignUp(at, al), Request(size))
        /\ req' = [va |-> AlignUp(at, al), size |-> size, pieces |-> <<>>, rem |-> size, range |-> 1]
  BY <1>2 DEF Valloc
<1>4. /\ pc = "idle" /\ ~Busy(va) /\ pc' \in {"contiguous", "palloc"}
      /\ UNCHANGED <<walk, tables, pa, maps, lost>>
  BY DEF Valloc, Ready
<1>5. PICK start : start = AlignUp(at, al)
  OBVIOUS
<1>6. HeapInv(va) /\ va.total = Virtual
  BY DEF IInv, HeapsOK
<1>7. /\ HeapInv(va') /\ va'.total = Virtual
      /\ start \in Nat /\ start + size <= Virtual /\ Paged(start)
      /\ ~IsTaken(va, start) /\ Taken(va') = Taken(va) \cup {<<start, size>>}
  <2>1. va' = Alloc(va, at, start, Request(size))
    BY <1>3, <1>5
  <2>2. /\ HeapInv(va') /\ va'.total = va.total
        /\ start \in Nat /\ start + size <= va.total /\ Paged(start)
        /\ ~IsTaken(va, start) /\ Taken(va') = Taken(va) \cup {<<start, size>>}
    BY <1>1, <1>2, <1>4, <1>5, <1>6, <2>1, PagesTaken
  <2> QED
    BY <1>6, <2>2
<1>8. /\ req' = [va |-> start, size |-> size, pieces |-> <<>>, rem |-> size, range |-> 1]
      /\ req'.va = start /\ req'.size = size /\ req'.pieces = <<>> /\ req'.rem = size /\ req'.range = 1
      /\ req' \in ReqType
  <2>1. <<>> \in Seq(PieceType)
    OBVIOUS
  <2>2. req' = [va |-> start, size |-> size, pieces |-> <<>>, rem |-> size, range |-> 1]
    BY <1>3, <1>5
  <2> QED
    BY <1>1, <1>7, <2>1, <2>2 DEF ReqType
<1>9. TypeOK' /\ HeapsOK' /\ TablesOK(tables)'
  BY <1>4, <1>7, <1>8 DEF IInv, TypeOK, HeapsOK, Loops
<1>10. RangesOwned(maps \cup lost, pc \in Claiming, req, va)'
  <2>1. (pc \in Claiming) = FALSE /\ (pc' \in Claiming) = TRUE
    BY <1>4 DEF Claiming
  <2>2. RangesOwned(maps \cup lost, FALSE, req, va)
    BY <2>1 DEF IInv
  <2>3. ~IsTaken(va, req'.va) /\ Taken(va') = Taken(va) \cup {<<req'.va, req'.size>>}
    BY <1>7, <1>8
  <2>4. RangesOwned(maps \cup lost, TRUE, req', va')
    BY <1>6, <2>2, <2>3, RangeTaken
  <2> QED
    BY <1>4, <2>1, <2>4
<1>11. PiecesOwned(maps \cup lost, req.pieces, tables, pa)'
  <2>1. req.pieces = <<>>
    BY <1>4, NoReqIs DEF IInv, ReqOK
  <2> QED
    BY <1>4, <1>8, <2>1 DEF IInv
<1>12. Taking(req')
  <2>1. 1 \in 1..Len(PallocRanges)
    BY VirtualMemoryAssumption, EmptySeq, LenProperties
  <2>2. size = size + 0 /\ SumsTo(<<>>, 0)
    BY <1>1, NoSums
  <2> QED
    BY <1>1, <1>8, <2>1, <2>2 DEF Taking
<1>13. ReqOK(pc, req)'
  BY <1>1, <1>4, <1>7, <1>8, <1>12 DEF ReqOK
<1>14. WalkOK(pc, walk, tables, req)'
  BY <1>4 DEF IInv, WalkOK, Traversing
<1> QED
  BY <1>4, <1>9, <1>10, <1>11, <1>13, <1>14 DEF IInv

\* palloc of whole pages
LEMMA PallocIs ==
  ASSUME HeapsOK, ~Busy(pa), NEW n \in Nat \ {0}, NEW a \in Nat \ {0}, Paged(n), Paged(a),
         NEW address, Palloc(n, a, address)
  PROVE  /\ HeapInv(pa') /\ pa'.total = Physical
         /\ address \in Nat /\ Paged(address) /\ ~IsTaken(pa, address)
         /\ Taken(pa') = Taken(pa) \cup {<<address, n>>} /\ Frame!Next
<1>1. PICK at \in Chosen(pa, n, a) : address = AlignUp(at, a) /\ pa' = Alloc(pa, at, address, Request(n))
  BY DEF Palloc
<1>2. HeapInv(pa) /\ pa.total = Physical
  BY DEF HeapsOK
<1>3. /\ HeapInv(pa') /\ pa'.total = Physical
      /\ address \in Nat /\ Paged(address) /\ ~IsTaken(pa, address)
      /\ Taken(pa') = Taken(pa) \cup {<<address, n>>}
  <2>1. /\ HeapInv(pa') /\ pa'.total = pa.total
        /\ address \in Nat /\ Paged(address) /\ ~IsTaken(pa, address)
        /\ Taken(pa') = Taken(pa) \cup {<<address, n>>}
    BY <1>1, <1>2, PagesTaken
  <2> QED
    BY <1>2, <2>1
<1>4. Frame!Next
  BY <1>2, <1>3, AllocIsAllocate
<1> QED
  BY <1>3, <1>4

LEMMA PagePaged == Paged(Page) /\ Page \in Nat \ {0} /\ Request(Page) = Page
<1>1. Page \in Nat \ {0} /\ Page = Page * 1
  BY PageIs
<1>2. Paged(Page)
  BY <1>1 DEF Paged
<1> QED
  BY <1>1, <1>2, WholePages

LEMMA AllocContiguousKeeps == ASSUME IInv, AllocContiguous PROVE IInv' /\ Frame!Next
<1>1. /\ pc = "contiguous" /\ ~Busy(pa) /\ pc' = "inspect" /\ walk' = Inspection(req)
      /\ UNCHANGED <<tables, va, maps, lost>>
  BY DEF AllocContiguous, Ready
<1>2. PICK address : /\ Palloc(req.size, Page, address)
                     /\ req' = [req EXCEPT !.pieces = <<<<address, req.size>>>>]
  BY DEF AllocContiguous
<1>3. /\ req \in ReqType /\ req.size \in Nat \ {0} /\ req.va \in Nat /\ req.pieces = <<>>
      /\ Paged(req.size) /\ Paged(req.va) /\ req.va + req.size <= Virtual
  <2>1. req \in ReqType /\ ReqOK("contiguous", req)
    BY <1>1 DEF IInv, TypeOK
  <2>2. req.size \in Nat /\ req.va \in Nat
    BY <2>1, ReqIs
  <2> QED
    BY <2>1, <2>2 DEF ReqOK, Claiming, Providing
<1>4. PICK n \in Nat \ {0} : n = req.size
  BY <1>3
<1>5. /\ HeapInv(pa') /\ pa'.total = Physical
      /\ address \in Nat /\ Paged(address) /\ ~IsTaken(pa, address)
      /\ Taken(pa') = Taken(pa) \cup {<<address, n>>} /\ Frame!Next
  <2>1. HeapsOK /\ Paged(n) /\ Palloc(n, Page, address)
    BY <1>2, <1>3, <1>4 DEF IInv
  <2> QED
    BY <1>1, <2>1, PagePaged, PallocIs
<1>a. PICK p : p = <<address, n>>
  OBVIOUS
<1>6. p = <<address, n>> /\ p[2] = n /\ p \in PieceType
  BY <1>5, <1>a DEF PieceType
<1>7. Append(<<>>, p) = <<p>> /\ <<>> \in Seq(PieceType) /\ <<p>> \in Seq(PieceType)
  BY <1>6
<1>8. /\ req' \in ReqType /\ req'.va = req.va /\ req'.size = n /\ req'.pieces = <<p>>
  BY <1>2, <1>3, <1>4, <1>6, <1>7 DEF ReqType
<1>9. walk' \in WalkType /\ Traverses(walk', tables, req')
  <2>1. req'.size = req.size
    BY <1>4, <1>8
  <2> QED
    BY <1>1, <1>3, <1>8, <2>1, InspectionIs DEF IInv
<1>10. SumsTo(<<p>>, n)
  <2>1. n = 0 + p[2]
    BY <1>6
  <2>2. SumsTo(Append(<<>>, p), n)
    BY <1>6, <1>7, <2>1, NoSums, MoreSums
  <2> QED
    BY <1>7, <2>2
<1>11. PiecesOwned(maps \cup lost, req.pieces, tables, pa)'
  <2>1. PiecesOwned(maps \cup lost, <<>>, tables, pa) /\ HeapInv(pa) /\ Root \in DOMAIN tables
    BY <1>3 DEF IInv, HeapsOK, TablesOK
  <2>2. PiecesOwned(maps \cup lost, Append(<<>>, <<address, n>>), tables, pa')
    BY <1>3, <1>4, <1>5, <2>1, PieceTaken
  <2> QED
    BY <1>1, <1>6, <1>7, <1>8, <2>2
<1>12. TypeOK' /\ HeapsOK' /\ TablesOK(tables)'
  BY <1>1, <1>5, <1>8, <1>9 DEF IInv, TypeOK, HeapsOK, Loops
<1>13. RangesOwned(maps \cup lost, pc \in Claiming, req, va)'
  <2>1. (pc \in Claiming) = TRUE /\ (pc' \in Claiming) = TRUE
    BY <1>1 DEF Claiming
  <2>2. RangesOwned(maps \cup lost, TRUE, req, va)
    BY <2>1 DEF IInv
  <2>3. RangesOwned(maps \cup lost, TRUE, req', va)
    BY <1>4, <1>8, <2>2 DEF RangesOwned, Claimed
  <2> QED
    BY <1>1, <2>1, <2>3
<1>14. ReqOK(pc, req)'
  BY <1>1, <1>3, <1>4, <1>8, <1>10 DEF ReqOK
<1>15. WalkOK(pc, walk, tables, req)'
  BY <1>1, <1>9 DEF WalkOK, Traversing
<1> QED
  BY <1>5, <1>11, <1>12, <1>13, <1>14, <1>15 DEF IInv

\* There is a range that fits what remains: the last is a page.
LEMMA FittingIs ==
  ASSUME NEW r \in ReqType, r.rem # 0, Taking(r)
  PROVE  /\ Fitting(r) \in 1..Len(PallocRanges)
         /\ PallocRanges[Fitting(r)][1] \in Nat \ {0} /\ PallocRanges[Fitting(r)][2] \in Nat \ {0}
         /\ PallocRanges[Fitting(r)][1] <= r.rem
         /\ Paged(PallocRanges[Fitting(r)][1]) /\ Paged(PallocRanges[Fitting(r)][2])
<1>1. PICK n \in Nat \ {0}, a \in Nat, m \in Nat \ {0} :
        n = Len(PallocRanges) /\ a = r.range /\ m = r.rem /\ a \in 1..n
  <2>1. Len(PallocRanges) \in Nat \ {0}
    BY VirtualMemoryAssumption, EmptySeq, LenProperties
  <2> QED
    BY <2>1, ReqIs DEF Taking
<1>2. PICK R : R = PallocRanges
  OBVIOUS
<1>3. \A i \in 1..n : R[i] \in (Nat \ {0}) \X (Nat \ {0})
  BY <1>1, <1>2, VirtualMemoryAssumption, ElementOfSeq
<1>4. \A i \in 1..n : /\ R[i][1] \in Nat \ {0} /\ R[i][2] \in Nat \ {0}
                      /\ Paged(R[i][1]) /\ Paged(R[i][2])
  <2> TAKE i \in 1..n
  <2>1. R[i][1] \in Nat \ {0} /\ R[i][2] \in Nat \ {0}
    BY <1>3
  <2>2. i \in DOMAIN PallocRanges
    BY <1>1, VirtualMemoryAssumption, LenProperties
  <2>3. R[i][1] % Page = 0 /\ R[i][2] % Page = 0
    BY <1>2, <2>2, VirtualMemoryAssumption
  <2> QED
    BY <2>1, <2>3, PagedIs
<1> DEFINE S == {i \in a..n : R[i][1] <= m}
<1>5. n \in S
  <2>1. R[n] = <<Page, Page>> /\ R[n][1] = Page
    BY <1>1, <1>2, VirtualMemoryAssumption
  <2>2. Page <= m /\ Page \in Nat
    BY <1>1, PagedLeast, PageIs DEF Taking
  <2> QED
    BY <1>1, <2>1, <2>2
<1>6. PICK k \in S : \A j \in S : k <= j
  <2>1. S \in SUBSET Nat /\ S # {}
    BY <1>5
  <2> HIDE DEF S
  <2> QED
    BY <2>1, LeastNat
<1>7. k \in a..n /\ R[k][1] <= m /\ \A j \in a..(k - 1) : R[j][1] > m
  <2>1. ASSUME NEW j \in a..(k - 1) PROVE R[j][1] > m
    <3>1. j \in a..n /\ j \in 1..n /\ ~(k <= j)
      BY <1>1, <1>6
    <3>2. ~(R[j][1] <= m)
      BY <1>6, <3>1
    <3> QED
      BY <1>1, <1>4, <3>1, <3>2
  <2> QED
    BY <1>6, <2>1
<1> HIDE DEF S
<1>8. PICK f : f = Fitting(r)
  OBVIOUS
<1>9. f = CHOOSE i \in a..n : R[i][1] <= m /\ \A j \in a..(i - 1) : R[j][1] > m
  BY <1>1, <1>2, <1>8 DEF Fitting
<1>10. f \in a..n /\ R[f][1] <= m
  BY <1>7, <1>9
<1>11. f \in 1..n
  BY <1>1, <1>10
<1> QED
  BY <1>1, <1>2, <1>4, <1>8, <1>10, <1>11

LEMMA TakePieceKeeps == ASSUME IInv, TakePiece PROVE IInv' /\ Frame!Next
<1>1. /\ pc = "palloc" /\ ~Busy(pa) /\ req.rem > 0
      /\ UNCHANGED <<pc, walk, tables, va, maps, lost>>
  BY DEF TakePiece, Ready
<1>2. /\ req \in ReqType /\ req.size \in Nat \ {0} /\ req.va \in Nat /\ Taking(req)
      /\ req.rem \in Nat \ {0} /\ req.pieces \in Seq(PieceType)
      /\ Paged(req.size) /\ Paged(req.va) /\ req.va + req.size <= Virtual
  <2>1. req \in ReqType /\ ReqOK("palloc", req)
    BY <1>1 DEF IInv, TypeOK
  <2>2. req.size \in Nat /\ req.va \in Nat /\ req.rem \in Nat /\ req.pieces \in Seq(PieceType)
    BY <2>1, ReqIs
  <2> QED
    BY <1>1, <2>1, <2>2 DEF ReqOK, Claiming, Providing
<1>3. PICK i : i = Fitting(req)
  OBVIOUS
<1>4. PICK n \in Nat \ {0}, a \in Nat \ {0} :
        /\ n = PallocRanges[i][1] /\ a = PallocRanges[i][2] /\ n <= req.rem
        /\ Paged(n) /\ Paged(a) /\ i \in 1..Len(PallocRanges) /\ i \in Nat
  <2>1. Len(PallocRanges) \in Nat
    BY VirtualMemoryAssumption, LenProperties
  <2> QED
    BY <1>2, <1>3, <2>1, FittingIs, SMTT(60)
<1>5. PICK address :
        /\ Palloc(n, a, address)
        /\ req' = [req EXCEPT !.range = i, !.rem = @ - n, !.pieces = Append(@, <<address, n>>)]
  BY <1>3, <1>4 DEF TakePiece
<1>6. /\ HeapInv(pa') /\ pa'.total = Physical
      /\ address \in Nat /\ Paged(address) /\ ~IsTaken(pa, address)
      /\ Taken(pa') = Taken(pa) \cup {<<address, n>>} /\ Frame!Next
  BY <1>1, <1>4, <1>5, PallocIs DEF IInv
<1>7. PICK p : p = <<address, n>>
  OBVIOUS
<1>8. p \in PieceType /\ p[2] = n
  BY <1>6, <1>7 DEF PieceType
<1>9. PICK rem \in Nat : rem = req.rem - n
  BY <1>2, <1>4
<1>10. /\ req' \in ReqType /\ req'.va = req.va /\ req'.size = req.size
       /\ req'.pieces = Append(req.pieces, p) /\ req'.rem = rem /\ req'.range = i
  <2>1. Append(req.pieces, p) \in Seq(PieceType)
    BY <1>2, <1>8, AppendProperties
  <2> QED
    BY <1>2, <1>4, <1>5, <1>7, <1>9, <2>1 DEF ReqType
<1>11. Taking(req')
  <2>1. PICK d \in Nat : req.size = req.rem + d /\ SumsTo(req.pieces, d)
    BY <1>2 DEF Taking
  <2>2. PICK e \in Nat : e = d + p[2]
    BY <1>8
  <2>3. SumsTo(Append(req.pieces, p), e)
    BY <1>2, <1>8, <2>1, <2>2, MoreSums
  <2>4. req.size = rem + e
    BY <1>2, <1>8, <1>9, <2>1, <2>2
  <2>5. Paged(rem)
    <3>1. Paged(req.rem)
      BY <1>2 DEF Taking
    <3> QED
      BY <1>2, <1>4, <1>9, <3>1, PagedDifference
  <2> QED
    BY <1>4, <1>10, <2>3, <2>4, <2>5 DEF Taking
<1>12. PiecesOwned(maps \cup lost, req.pieces, tables, pa)'
  <2>1. PiecesOwned(maps \cup lost, req.pieces, tables, pa) /\ HeapInv(pa) /\ Root \in DOMAIN tables
    BY DEF IInv, HeapsOK, TablesOK
  <2>2. PiecesOwned(maps \cup lost, Append(req.pieces, <<address, n>>), tables, pa')
    BY <1>4, <1>6, <2>1, PieceTaken
  <2> QED
    BY <1>1, <1>7, <1>10, <2>2
<1>13. TypeOK' /\ HeapsOK' /\ TablesOK(tables)'
  BY <1>1, <1>6, <1>10 DEF IInv, TypeOK, HeapsOK
<1>14. RangesOwned(maps \cup lost, pc \in Claiming, req, va)'
  BY <1>1, <1>10 DEF IInv, RangesOwned, Claimed
<1>15. ReqOK(pc, req)'
  BY <1>1, <1>2, <1>10, <1>11 DEF ReqOK
<1>16. WalkOK(pc, walk, tables, req)'
  BY <1>1 DEF IInv, WalkOK, Traversing
<1> QED
  BY <1>6, <1>12, <1>13, <1>14, <1>15, <1>16 DEF IInv

LEMMA SmallerRangeKeeps == ASSUME IInv, SmallerRange PROVE IInv' /\ UNCHANGED pa
<1>1. /\ pc = "palloc" /\ req.rem > 0 /\ UNCHANGED <<pc, walk, tables, pa, va, maps, lost>>
  BY DEF SmallerRange, Ready
<1>2. req \in ReqType /\ req.rem \in Nat \ {0} /\ Taking(req) /\ ReqOK("palloc", req)
  <2>1. req \in ReqType /\ ReqOK("palloc", req)
    BY <1>1 DEF IInv, TypeOK
  <2> QED
    BY <1>1, <2>1, ReqIs DEF ReqOK
<1>3. PICK i : i = Fitting(req)
  OBVIOUS
<1>4. i < Len(PallocRanges) /\ req' = [req EXCEPT !.range = i + 1]
  BY <1>3 DEF SmallerRange
<1>5. i + 1 \in 1..Len(PallocRanges) /\ i + 1 \in Nat
  <2>1. i \in 1..Len(PallocRanges)
    BY <1>2, <1>3, FittingIs
  <2>2. Len(PallocRanges) \in Nat
    BY VirtualMemoryAssumption, LenProperties
  <2> QED
    BY <1>4, <2>1, <2>2
<1>6. /\ req' \in ReqType /\ req'.va = req.va /\ req'.size = req.size
      /\ req'.pieces = req.pieces /\ req'.rem = req.rem /\ req'.range = i + 1
  BY <1>2, <1>4, <1>5 DEF ReqType
<1>7. Taking(req')
  BY <1>2, <1>5, <1>6 DEF Taking
<1>8. TypeOK' /\ HeapsOK' /\ TablesOK(tables)'
  BY <1>1, <1>6 DEF IInv, TypeOK, HeapsOK
<1>9. RangesOwned(maps \cup lost, pc \in Claiming, req, va)'
  BY <1>1, <1>6 DEF IInv, RangesOwned, Claimed
<1>10. PiecesOwned(maps \cup lost, req.pieces, tables, pa)'
  BY <1>1, <1>6 DEF IInv
<1>11. ReqOK(pc, req)'
  BY <1>1, <1>2, <1>6, <1>7 DEF ReqOK
<1>12. WalkOK(pc, walk, tables, req)'
  BY <1>1 DEF IInv, WalkOK, Traversing
<1> QED
  BY <1>1, <1>8, <1>9, <1>10, <1>11, <1>12 DEF IInv

LEMMA MapPiecesKeeps == ASSUME IInv, MapPieces PROVE IInv' /\ UNCHANGED pa
<1>1. /\ pc = "palloc" /\ req.rem = 0 /\ pc' = "inspect" /\ walk' = Inspection(req)
      /\ UNCHANGED <<req, tables, pa, va, maps, lost>>
  BY DEF MapPieces, Ready
<1>2. /\ req \in ReqType /\ req.size \in Nat \ {0} /\ req.va \in Nat /\ Taking(req)
      /\ ReqOK("palloc", req) /\ req.va + req.size <= Virtual
  <2>1. req \in ReqType /\ ReqOK("palloc", req)
    BY <1>1 DEF IInv, TypeOK
  <2> QED
    BY <1>1, <2>1, ReqIs DEF ReqOK, Claiming
<1>3. walk' \in WalkType /\ Traverses(walk', tables, req)
  BY <1>1, <1>2, InspectionIs DEF IInv
<1>4. SumsTo(req.pieces, req.size)
  <2>1. PICK d \in Nat : req.size = req.rem + d /\ SumsTo(req.pieces, d)
    BY <1>2 DEF Taking
  <2>2. req.size = d
    BY <1>1, <2>1
  <2> QED
    BY <2>1, <2>2
<1>5. TypeOK' /\ HeapsOK' /\ TablesOK(tables)'
  BY <1>1, <1>3 DEF IInv, TypeOK, HeapsOK, Loops
<1>6. RangesOwned(maps \cup lost, pc \in Claiming, req, va)'
  <2>1. (pc \in Claiming) = TRUE /\ (pc' \in Claiming) = TRUE
    BY <1>1 DEF Claiming
  <2>2. RangesOwned(maps \cup lost, TRUE, req, va)
    BY <2>1 DEF IInv
  <2> QED
    BY <1>1, <2>1, <2>2
<1>7. PiecesOwned(maps \cup lost, req.pieces, tables, pa)'
  BY <1>1 DEF IInv
<1>8. ReqOK(pc, req)'
  BY <1>1, <1>2, <1>4 DEF ReqOK, Claiming, Providing
<1>9. WalkOK(pc, walk, tables, req)'
  BY <1>1, <1>3 DEF WalkOK, Traversing
<1> QED
  BY <1>1, <1>5, <1>6, <1>7, <1>8, <1>9 DEF IInv

-----------------------------------------------------------------------------
(* The loops of a traversal and the steps of a call keep the invariant.    *)

\* A traversal that is under way
LEMMA WalkFacts ==
  ASSUME IInv, pc \in Traversing
  PROVE  /\ walk \in WalkType /\ req \in ReqType /\ TablesOK(tables)
         /\ walk.vaddr \in Nat /\ walk.size \in Int /\ walk.off \in Nat /\ walk.piece \in Nat
         /\ walk.stack \in Seq(Frame0) /\ walk.up \in BOOLEAN
         /\ StackOK(tables, walk.stack, walk.up) /\ Position(walk.stack, walk.vaddr)
         /\ walk.vaddr < Virtual + PteCovers[1] /\ walk.vaddr + walk.size <= req.va + req.size
         /\ req.va \in Nat /\ req.size \in Nat /\ req.va + req.size <= Virtual
         /\ Virtual \in Nat /\ PteCovers[1] \in Nat \ {0}
         /\ pc = "map" => Mapping(walk, req)
<1>1. walk \in WalkType /\ req \in ReqType /\ TablesOK(tables)
  BY DEF IInv, TypeOK
<1>2. Traverses(walk, tables, req) /\ (pc = "map" => Mapping(walk, req))
  BY DEF IInv, WalkOK
<1>3. req.va + req.size <= Virtual
  BY DEF IInv, ReqOK, Claiming, Traversing
<1>4. Virtual \in Nat /\ PteCovers[1] \in Nat \ {0}
  BY VirtualMemoryAssumption, CoversAre
<1> QED
  BY <1>1, <1>2, <1>3, <1>4, WalkIs, ReqIs DEF Traverses

\* The table and the entry it is at
LEMMA TopIs ==
  ASSUME TablesOK(tables), StackOK(tables, walk.stack, walk.up), NEW n, n = Len(walk.stack)
  PROVE  /\ Top = walk.stack[n] /\ Level = n /\ Covers = PteCovers[n] /\ n \in 1..Levels
         /\ n \in Nat \ {0} /\ n \in 1..n
         /\ walk.stack[n].pt \in DOMAIN tables /\ tables[walk.stack[n].pt].lv = n
         /\ walk.stack[n].idx \in Nat /\ walk.stack[n].idx <= PteCnt[n] /\ PteCnt[n] \in Nat \ {0}
         /\ PteCovers[n] \in Nat \ {0} /\ Paged(PteCovers[n])
         /\ ~walk.up => walk.stack[n].idx < PteCnt[n]
         /\ DOMAIN tables[walk.stack[n].pt].pte = 0..(PteCnt[n] - 1)
<1>1. n \in Nat \ {0} /\ n \in 1..n
  BY LenProperties DEF StackOK
<1>2. /\ n \in 1..Levels /\ walk.stack[n].pt \in DOMAIN tables /\ tables[walk.stack[n].pt].lv = n
      /\ walk.stack[n].idx \in Nat /\ walk.stack[n].idx <= PteCnt[n] /\ PteCnt[n] \in Nat \ {0}
  <2>1. PICK T, stack, up : T = tables /\ stack = walk.stack /\ up = walk.up
    OBVIOUS
  <2>2. TablesOK(T) /\ StackOK(T, stack, up) /\ n \in 1..Len(stack)
    BY <1>1, <2>1
  <2>3. n \in 1..Levels
    BY <2>2, FrameIs
  <2>4. stack[n].pt \in DOMAIN T
    BY <2>2, FrameIs
  <2>5. T[stack[n].pt].lv = n
    BY <2>2 DEF StackOK, FrameOK
  <2>6. stack[n].idx \in Nat /\ stack[n].idx <= PteCnt[n]
    BY <2>2, FrameIs
  <2>7. PteCnt[n] \in Nat \ {0}
    BY <2>3, CoversAre
  <2> QED
    BY <2>1, <2>3, <2>4, <2>5, <2>6, <2>7
<1>3. ~walk.up => walk.stack[n].idx < PteCnt[n]
  BY <1>1 DEF StackOK, FrameOK
<1>4. Top = walk.stack[n] /\ Level = n /\ Covers = PteCovers[n]
  BY <1>2 DEF Top, Level, Covers
<1>5. DOMAIN tables[walk.stack[n].pt].pte = 0..(PteCnt[n] - 1)
  BY <1>2, TableIs
<1> QED
  BY <1>1, <1>2, <1>3, <1>4, <1>5, CoversAre

\* A step of a traversal
LEMMA WalkMoves ==
  ASSUME IInv, pc \in Traversing, UNCHANGED <<pc, req, va, maps, lost>>,
         walk' \in WalkType, WalkOK(pc, walk', tables', req), TablesOK(tables'),
         HeapInv(pa'), pa'.total = Physical,
         PiecesOwned(maps \cup lost, req.pieces, tables', pa')
  PROVE  IInv'
<1>1. TypeOK' /\ HeapsOK' /\ TablesOK(tables)'
  BY DEF IInv, TypeOK, HeapsOK
<1>2. RangesOwned(maps \cup lost, pc \in Claiming, req, va)' /\ ReqOK(pc, req)'
  BY DEF IInv
<1>3. PiecesOwned(maps \cup lost, req.pieces, tables, pa)' /\ WalkOK(pc, walk, tables, req)'
  OBVIOUS
<1> QED
  BY <1>1, <1>2, <1>3 DEF IInv

LEMMA WalkTurns ==
  ASSUME IInv, pc \in Traversing, UNCHANGED <<pc, req, tables, pa, va, maps, lost>>,
         walk' \in WalkType, WalkOK(pc, walk', tables, req)
  PROVE  IInv' /\ UNCHANGED pa
<1>1. /\ TablesOK(tables') /\ HeapInv(pa') /\ pa'.total = Physical
      /\ PiecesOwned(maps \cup lost, req.pieces, tables', pa') /\ WalkOK(pc, walk', tables', req)
  BY DEF IInv, HeapsOK
<1> QED
  BY <1>1, WalkMoves

\* The pieces of a mapping hold on to their place when the walk only changes its stack.
LEMMA SameMapping ==
  ASSUME NEW w, NEW v, NEW r, Mapping(w, r), v.size = w.size, v.vaddr = w.vaddr, v.off = w.off,
         v.piece = w.piece
  PROVE  Mapping(v, r)
  BY DEF Mapping, Reached

LEMMA InspectedKeeps == ASSUME IInv, Inspected PROVE IInv' /\ UNCHANGED pa
<1>1. /\ pc = "inspect" /\ pc' = "map" /\ walk' = Traversal(req.va)
      /\ UNCHANGED <<req, tables, pa, va, maps, lost>>
  BY DEF Inspected, Passed, Ready
<1>2. pc \in Traversing
  BY <1>1 DEF Traversing
<1>3. /\ req \in ReqType /\ TablesOK(tables) /\ req.va \in Nat /\ req.size \in Nat \ {0}
      /\ req.va + req.size <= Virtual /\ Virtual \in Nat /\ PteCovers[1] \in Nat \ {0}
      /\ SumsTo(req.pieces, req.size) /\ Paged(req.va) /\ Paged(req.size)
  <2>1. ReqOK("inspect", req)
    BY <1>1 DEF IInv
  <2> QED
    BY <1>2, <2>1, WalkFacts DEF ReqOK, Claiming, Providing
<1>4. PICK w : w = Traversal(req.va)
  OBVIOUS
<1>5. /\ w \in WalkType /\ w.vaddr = req.va /\ w.up = FALSE
      /\ w.size = 0 /\ w.off = 0 /\ w.piece = 0
      /\ StackOK(tables, w.stack, FALSE) /\ Position(w.stack, req.va)
  BY <1>3, <1>4, TraversalIs
<1>6. Traverses(w, tables, req)
  <2>1. w.vaddr < Virtual + PteCovers[1] /\ w.vaddr + w.size <= req.va + req.size
    BY <1>3, <1>5
  <2> QED
    BY <1>5, <2>1 DEF Traverses
<1>7. Mapping(w, req)
  <2>1. PICK s : Sums(s, req.pieces, req.size)
    BY <1>3 DEF SumsTo
  <2>2. w.vaddr + w.size = req.va + s[w.piece]
    BY <1>3, <1>5, <2>1 DEF Sums
  <2>3. w.piece \in 0..Len(req.pieces)
    BY <1>3, <1>5, ReqIs, LenProperties
  <2> QED
    BY <1>3, <1>5, <2>1, <2>2, <2>3, PagedZero DEF Mapping, Reached
<1>8. TypeOK' /\ HeapsOK' /\ TablesOK(tables)'
  BY <1>1, <1>4, <1>5 DEF IInv, TypeOK, HeapsOK, Loops
<1>9. RangesOwned(maps \cup lost, pc \in Claiming, req, va)'
  <2>1. (pc \in Claiming) = TRUE /\ (pc' \in Claiming) = TRUE
    BY <1>1 DEF Claiming
  <2>2. RangesOwned(maps \cup lost, TRUE, req, va)
    BY <2>1 DEF IInv
  <2> QED
    BY <1>1, <2>1, <2>2
<1>10. PiecesOwned(maps \cup lost, req.pieces, tables, pa)'
  BY <1>1 DEF IInv
<1>11. ReqOK(pc, req)'
  BY <1>1, <1>3 DEF ReqOK
<1>12. WalkOK(pc, walk, tables, req)'
  BY <1>1, <1>4, <1>6, <1>7 DEF WalkOK, Traversing
<1> QED
  BY <1>1, <1>8, <1>9, <1>10, <1>11, <1>12 DEF IInv

LEMMA NextPieceKeeps == ASSUME IInv, NextPiece PROVE IInv' /\ UNCHANGED pa
<1>1. /\ pc = "map" /\ ~walk.up /\ walk.size <= 0 /\ walk.piece < Len(req.pieces)
      /\ walk' = [walk EXCEPT !.piece = @ + 1, !.size = req.pieces[walk.piece + 1][2], !.off = 0]
      /\ UNCHANGED <<pc, req, tables, pa, va, maps, lost>>
  BY DEF NextPiece, Passed, Ready
<1>2. pc \in Traversing
  BY <1>1 DEF Traversing
<1>3. /\ walk \in WalkType /\ req \in ReqType /\ walk.vaddr \in Nat /\ walk.piece \in Nat
      /\ StackOK(tables, walk.stack, walk.up) /\ Position(walk.stack, walk.vaddr)
      /\ walk.vaddr < Virtual + PteCovers[1] /\ Mapping(walk, req)
      /\ req.va \in Nat /\ req.size \in Nat
  BY <1>1, <1>2, WalkFacts
<1>4. PICK k \in 1..Len(req.pieces) : k = walk.piece + 1 /\ k - 1 = walk.piece /\ k \in Nat
  BY <1>1, <1>3, ReqIs, LenProperties
<1>5. PICK z \in Nat \ {0} : z = req.pieces[k][2] /\ Paged(z)
  <2>1. PiecesOK(req.pieces)
    BY DEF IInv, PiecesOwned, PiecesApart
  <2>2. k \in DOMAIN req.pieces
    BY <1>3, <1>4, ReqIs, LenProperties
  <2> QED
    BY <2>1, <2>2, PieceIs
<1>6. PICK s : Sums(s, req.pieces, req.size) /\ walk.vaddr + walk.size = req.va + s[walk.piece]
  BY <1>3 DEF Mapping, Reached
<1>7. s[k] = s[k - 1] + z /\ s[k] <= req.size /\ s[k] \in Nat /\ s[k - 1] \in Nat
  <2>1. k \in 0..Len(req.pieces) /\ k - 1 \in 0..Len(req.pieces) /\ Len(req.pieces) \in Nat
    BY <1>3, <1>4, ReqIs, LenProperties
  <2>2. s[k] \in Nat /\ s[k - 1] \in Nat /\ s[k] <= req.size
    BY <1>6, <2>1 DEF Sums
  <2>3. s[k] = s[k - 1] + req.pieces[k][2]
    BY <1>4, <1>6 DEF Sums
  <2> QED
    BY <1>5, <2>2, <2>3
<1>8. walk.size = 0 /\ Paged(walk.vaddr)
  BY <1>1, <1>3 DEF Mapping
<1>9. PICK w : w = walk'
  OBVIOUS
<1>10. /\ w \in WalkType /\ w.vaddr = walk.vaddr /\ w.size = z /\ w.off = 0 /\ w.piece = k
       /\ w.stack = walk.stack /\ w.up = FALSE /\ walk.up = FALSE
  <2>1. w = [walk EXCEPT !.piece = k, !.size = z, !.off = 0]
    BY <1>1, <1>4, <1>5, <1>9
  <2>2. walk.up = FALSE
    BY <1>1, <1>3, WalkIs
  <2>3. /\ w.vaddr = walk.vaddr /\ w.size = z /\ w.off = 0 /\ w.piece = k
        /\ w.stack = walk.stack /\ w.up = walk.up
    BY <1>3, <2>1 DEF WalkType
  <2>4. w \in WalkType
    <3>1. w = [vaddr |-> walk.vaddr, size |-> z, off |-> 0, piece |-> k, stack |-> walk.stack, up |-> walk.up]
      BY <1>3, <2>1 DEF WalkType
    <3>2. walk.stack \in Seq(Frame0) /\ walk.up \in BOOLEAN /\ walk.vaddr \in Nat
      BY <1>3, WalkIs
    <3> QED
      BY <1>4, <1>5, <3>1, <3>2 DEF WalkType
  <2> QED
    BY <2>2, <2>3, <2>4
<1>11. w.vaddr + w.size = req.va + s[w.piece] /\ w.vaddr + w.size <= req.va + req.size
  <2>1. walk.vaddr = req.va + s[k - 1]
    BY <1>3, <1>4, <1>6, <1>8
  <2>2. w.vaddr + w.size = req.va + s[k]
    BY <1>3, <1>7, <1>10, <2>1
  <2> QED
    BY <1>3, <1>7, <1>10, <2>2, SMTT(60)
<1>12. Traverses(w, tables, req)
  BY <1>3, <1>10, <1>11 DEF Traverses
<1>13. Mapping(w, req)
  BY <1>4, <1>5, <1>6, <1>8, <1>10, <1>11, PagedZero DEF Mapping, Reached
<1>14. WalkOK(pc, w, tables, req)
  BY <1>2, <1>12, <1>13 DEF WalkOK
<1> QED
  BY <1>1, <1>2, <1>9, <1>10, <1>14, WalkTurns

LEMMA LevelUpEndsKeeps == ASSUME IInv, LevelUpEnds PROVE IInv' /\ UNCHANGED pa
<1>1. /\ walk.up /\ ~AtEnd /\ walk' = [walk EXCEPT !.up = FALSE]
      /\ UNCHANGED <<pc, req, tables, pa, va, maps, lost>>
  BY DEF LevelUpEnds
<1>2. pc \in Traversing
  BY <1>1 DEF IInv, WalkOK
<1>3. /\ walk \in WalkType /\ TablesOK(tables)
      /\ StackOK(tables, walk.stack, walk.up) /\ Position(walk.stack, walk.vaddr)
      /\ walk.vaddr < Virtual + PteCovers[1] /\ walk.vaddr + walk.size <= req.va + req.size
      /\ (pc = "map" => Mapping(walk, req))
  BY <1>2, WalkFacts
<1>4. PICK n : n = Len(walk.stack)
  OBVIOUS
<1>5. walk.stack[n].idx # PteCnt[n]
  <2>1. Top = walk.stack[n] /\ Level = n
    BY <1>3, <1>4, TopIs
  <2> QED
    BY <1>1, <2>1 DEF AtEnd
<1>6. StackOK(tables, walk.stack, TRUE)
  <2>1. walk.up = TRUE
    BY <1>1, <1>3, WalkIs
  <2> QED
    BY <1>3, <2>1
<1>7. StackOK(tables, walk.stack, FALSE)
  BY <1>3, <1>4, <1>5, <1>6, StackTurns
<1>8. PICK w : w = walk'
  OBVIOUS
<1>9. /\ w \in WalkType /\ w.vaddr = walk.vaddr /\ w.size = walk.size /\ w.off = walk.off
      /\ w.piece = walk.piece /\ w.stack = walk.stack /\ w.up = FALSE
  BY <1>1, <1>3, <1>8 DEF WalkType
<1>10. Traverses(w, tables, req)
  BY <1>3, <1>7, <1>9 DEF Traverses
<1>11. pc = "map" => Mapping(w, req)
  BY <1>3, <1>9, SameMapping
<1>12. WalkOK(pc, w, tables, req)
  BY <1>2, <1>10, <1>11 DEF WalkOK
<1> QED
  BY <1>1, <1>2, <1>8, <1>9, <1>12, WalkTurns

\* The traversal goes down to a table.
\* What going down to a table leaves of a traversal
PushedWell(T, w) ==
  /\ w \in WalkType /\ w.vaddr = walk.vaddr /\ w.size = walk.size
  /\ w.off = walk.off /\ w.piece = walk.piece /\ w.up = walk.up
  /\ StackOK(T, w.stack, FALSE) /\ Position(w.stack, walk.vaddr)

LEMMA PushIs ==
  ASSUME NEW T, TablesOK(T), walk \in WalkType, StackOK(T, walk.stack, FALSE),
         Position(walk.stack, walk.vaddr), NEW n \in Nat, n = Len(walk.stack),
         NEW a, Points(T, walk.stack[n].pt, walk.stack[n].idx, a), NEW l \in 1..Levels, l = n + 1
  PROVE  PushedWell(T, Push(a, l))
<1>1. PICK j : j = (walk.vaddr \div PteCovers[l]) % PteCnt[l]
  OBVIOUS
<1>2. PICK stack : stack = walk.stack
  OBVIOUS
<1>3. PICK new : new = Append(stack, [pt |-> a, idx |-> j])
  OBVIOUS
<1>4. stack \in Seq(Frame0) /\ n = Len(stack) /\ n \in Nat \ {0} /\ walk.vaddr \in Nat
  BY <1>2, WalkIs, LenProperties DEF StackOK
<1>5. a \in Int
  BY TableIs DEF TablesOK
<1>6. Position(new, walk.vaddr) /\ j \in Nat /\ j < PteCnt[l]
  BY <1>1, <1>2, <1>3, <1>4, <1>5, PositionPushed
<1>7. StackOK(T, new, FALSE)
  BY <1>2, <1>3, <1>4, <1>6, StackPushed
<1>8. new \in Seq(Frame0)
  BY <1>7 DEF StackOK
<1>9. PICK w : w = Push(a, l)
  OBVIOUS
<1>10. w = [walk EXCEPT !.stack = new]
  BY <1>1, <1>2, <1>3, <1>9 DEF Push, WalkType
<1>11. /\ w \in WalkType /\ w.vaddr = walk.vaddr /\ w.size = walk.size
       /\ w.off = walk.off /\ w.piece = walk.piece /\ w.up = walk.up /\ w.stack = new
  BY <1>8, <1>10 DEF WalkType
<1>12. PushedWell(T, w)
  <2>1. StackOK(T, w.stack, FALSE) /\ Position(w.stack, walk.vaddr)
    BY <1>6, <1>7, <1>11
  <2> QED
    BY <1>11, <2>1, Zenon DEF PushedWell
<1> QED
  BY <1>9, <1>12

\* The stack of a traversal changes, and nothing else of it but its direction.
LEMMA WalkTurned ==
  ASSUME NEW T, NEW w, pc \in Traversing, w.vaddr = walk.vaddr, w.size = walk.size,
         w.off = walk.off, w.piece = walk.piece,
         StackOK(T, w.stack, w.up), Position(w.stack, walk.vaddr),
         walk.vaddr < Virtual + PteCovers[1], walk.vaddr + walk.size <= req.va + req.size,
         pc = "map" => Mapping(walk, req)
  PROVE  WalkOK(pc, w, T, req)
<1>1. Traverses(w, T, req)
  BY DEF Traverses
<1>2. pc = "map" => Mapping(w, req)
  BY SameMapping
<1> QED
  BY <1>1, <1>2 DEF WalkOK

LEMMA LevelDownKeeps == ASSUME IInv, LevelDown PROVE IInv' /\ UNCHANGED pa
<1>1. /\ Valid(Entry) /\ ~IsPage(Level, Entry) /\ walk' = Push(Entry.addr, Level + 1)
      /\ UNCHANGED <<pc, req, tables, pa, va, maps, lost>> /\ Walking
  BY DEF LevelDown
<1>2. pc \in Traversing /\ ~walk.up
  BY <1>1 DEF Walking, Ready, Traversing
<1>3. /\ walk \in WalkType /\ TablesOK(tables) /\ walk.up \in BOOLEAN
      /\ StackOK(tables, walk.stack, walk.up) /\ Position(walk.stack, walk.vaddr)
      /\ walk.vaddr < Virtual + PteCovers[1] /\ walk.vaddr + walk.size <= req.va + req.size
      /\ (pc = "map" => Mapping(walk, req))
  BY <1>2, WalkFacts
<1>4. walk.up = FALSE /\ StackOK(tables, walk.stack, FALSE)
  BY <1>2, <1>3
<1>5. PICK n : n = Len(walk.stack)
  OBVIOUS
<1>6. /\ Top = walk.stack[n] /\ Level = n /\ n \in 1..Levels /\ n \in Nat \ {0}
      /\ walk.stack[n].pt \in DOMAIN tables /\ tables[walk.stack[n].pt].lv = n
      /\ walk.stack[n].idx \in Nat /\ walk.stack[n].idx < PteCnt[n] /\ PteCnt[n] \in Nat
      /\ DOMAIN tables[walk.stack[n].pt].pte = 0..(PteCnt[n] - 1)
  BY <1>2, <1>3, <1>5, TopIs
<1>7. PICK e : e = Entry
  BY SMTT(60)
<1>8. e \in EntryType /\ e.kind = "table" /\ e = tables[walk.stack[n].pt].pte[walk.stack[n].idx]
  <2>1. e = tables[walk.stack[n].pt].pte[walk.stack[n].idx]
    BY <1>6, <1>7 DEF Entry
  <2>2. walk.stack[n].idx \in 0..(PteCnt[n] - 1)
    BY <1>6
  <2>3. e \in EntryType
    BY <1>3, <1>6, <2>1, <2>2, TableIs, SMTT(60)
  <2> QED
    BY <1>1, <1>7, <2>1, <2>3 DEF EntryType, Valid, IsPage
<1>9. e = TableAt(e.addr)
  BY <1>8, SMTT(60) DEF EntryType, TableAt
<1>10. Points(tables, walk.stack[n].pt, walk.stack[n].idx, e.addr)
  <2>1. walk.stack[n].idx \in 0..(PteCnt[n] - 1)
    BY <1>6
  <2> QED
    BY <1>6, <1>8, <1>9, <2>1 DEF Points
<1>11. PICK l : l = n + 1
  OBVIOUS
<1>12. l \in 1..Levels
  <2>1. n # Levels
    BY <1>1, <1>6 DEF IsPage
  <2>2. Levels \in Nat
    BY CoversAre
  <2> QED
    BY <1>6, <1>11, <2>1, <2>2
<1>13. PICK w : w = Push(e.addr, l)
  OBVIOUS
<1>14. /\ w \in WalkType /\ w.vaddr = walk.vaddr /\ w.size = walk.size
       /\ w.off = walk.off /\ w.piece = walk.piece /\ w.up = FALSE
       /\ StackOK(tables, w.stack, FALSE) /\ Position(w.stack, walk.vaddr)
  <2>1. PICK a : a = e.addr
    OBVIOUS
  <2>2. /\ TablesOK(tables) /\ walk \in WalkType /\ StackOK(tables, walk.stack, FALSE)
        /\ Position(walk.stack, walk.vaddr) /\ n = Len(walk.stack)
        /\ Points(tables, walk.stack[n].pt, walk.stack[n].idx, a) /\ l = n + 1 /\ l \in 1..Levels
        /\ w = Push(a, l) /\ n \in Nat
    BY <1>3, <1>4, <1>5, <1>6, <1>10, <1>11, <1>12, <1>13, <2>1
  <2>3. PushedWell(tables, Push(a, l))
    BY <2>2, PushIs
  <2>4. PushedWell(tables, w)
    BY <2>2, <2>3
  <2> QED
    BY <1>4, <2>4, Zenon DEF PushedWell
<1>15. WalkOK(pc, w, tables, req)
  BY <1>2, <1>3, <1>14, WalkTurned
<1>16. w = walk'
  BY <1>1, <1>6, <1>7, <1>11, <1>13
<1> QED
  BY <1>1, <1>2, <1>14, <1>15, <1>16, WalkTurns

\* The traversal leaves a table: not the root, which it does not get to the end of.
\* What leaving a table leaves: a stack that is still the way from the root.
LeftWell(T, stack, n, new, v) ==
  /\ n > 1 /\ StackOK(T, new, TRUE) /\ Position(new, v)
  /\ Len(new) = n - 1 /\ SameFrames(new, stack, n - 1)

LEMMA StackLeft ==
  ASSUME NEW T, TablesOK(T), NEW stack, StackOK(T, stack, TRUE),
         NEW v \in Nat, Position(stack, v), v < Virtual + PteCovers[1],
         NEW n \in Nat, n = Len(stack), stack[n].idx = PteCnt[n] \/ stack[n].pt # Root,
         NEW new, new = Left(stack, n) \/ (new = Moved(stack, n) /\ stack[n].idx = PteCnt[n])
  PROVE  LeftWell(T, stack, n, new, v)
<1>1. n \in Nat \ {0} /\ n \in 1..n /\ stack[1].pt = Root
  BY DEF StackOK
<1>2. \A i \in 1..n : i \in 1..Levels /\ stack[i].idx \in Nat
  BY FrameIs
<1>3. n > 1
  <2>1. ASSUME n = 1 PROVE FALSE
    <3>1. stack[1].idx \in Nat /\ stack[1].idx = PteCnt[1] /\ Len(stack) \in Nat \ {0}
      BY <1>1, <1>2, <2>1
    <3>2. stack[1].idx < PteCnt[1]
      BY <3>1, RootNotAtEnd
    <3>3. PteCnt[1] \in Nat
      BY CoversAre
    <3> QED
      BY <3>1, <3>2, <3>3
  <2> QED
    BY <1>1, <2>1
<1>4. new \in Climbed(stack, n)
  BY DEF Climbed
<1>5. StackOK(T, new, TRUE)
  BY <1>3, <1>4, StackClimbs
<1>6. Len(new) = n - 1
  BY <1>3, <1>4, StackClimbs, ZenonT(60)
<1>7. SameFrames(new, stack, n - 1)
  BY <1>3, <1>4, StackClimbs
<1>8. Lands(new, stack, n - 1) \/ (LandsBehind(new, stack, n - 1) /\ stack[n].idx = PteCnt[n])
  <2>1. new = Moved(stack, n) => LandsBehind(new, stack, n - 1)
    BY <1>3, <1>4, StackClimbs
  <2>2. new = Left(stack, n) => Lands(new, stack, n - 1)
    BY <1>3, <1>4, StackClimbs
  <2> QED
    BY <2>1, <2>2, Zenon
<1>9. Position(new, v)
  <2>1. n \in 2..Levels
    BY <1>1, <1>2, <1>3, CoversAre
  <2>2. \A i \in 1..(n - 1) : i < n - 1 => new[i] = stack[i]
    BY <1>7 DEF SameFrames
  <2>3. \A i \in 1..n : stack[i].idx \in Nat
    BY <1>2
  <2> QED
    BY <1>6, <1>8, <2>1, <2>2, <2>3, PositionClimbs
<1> QED
  BY <1>3, <1>5, <1>6, <1>7, <1>9 DEF LeftWell

\* The way up
LEMMA ClimbIs ==
  ASSUME IInv, pc \in Traversing, walk.up, AtEnd \/ Top.pt # Root
  PROVE  \E stack, new :
           \E n \in Nat :
             /\ stack = walk.stack /\ n = Len(stack) /\ n > 1 /\ StackOK(tables, stack, TRUE)
             /\ Top = stack[n]
             /\ Climb \in WalkType /\ Climb.vaddr = walk.vaddr /\ Climb.size = walk.size
             /\ Climb.off = walk.off /\ Climb.piece = walk.piece /\ Climb.up = TRUE
             /\ Climb.stack = new
             /\ StackOK(tables, new, TRUE) /\ Position(new, walk.vaddr)
             /\ Len(new) = n - 1 /\ SameFrames(new, stack, n - 1)
<1>1. /\ walk \in WalkType /\ TablesOK(tables) /\ walk.up = TRUE /\ walk.vaddr \in Nat
      /\ StackOK(tables, walk.stack, walk.up) /\ Position(walk.stack, walk.vaddr)
      /\ walk.vaddr < Virtual + PteCovers[1]
  BY WalkFacts
<1>2. PICK stack : stack = walk.stack
  OBVIOUS
<1>3. PICK n \in Nat : n = Len(stack)
  BY <1>1, <1>2, LenProperties DEF StackOK
<1>4. Top = stack[n] /\ Level = n
  BY <1>1, <1>2, <1>3, TopIs
<1>5. PICK new : new = IF stack[n].idx = PteCnt[n] THEN Moved(stack, n) ELSE Left(stack, n)
  OBVIOUS
<1>6. /\ n > 1 /\ StackOK(tables, new, TRUE) /\ Position(new, walk.vaddr)
      /\ Len(new) = n - 1 /\ SameFrames(new, stack, n - 1) /\ StackOK(tables, stack, TRUE)
  <2>1. stack[n].idx = PteCnt[n] \/ stack[n].pt # Root
    BY <1>4 DEF AtEnd
  <2>a. PICK v \in Nat : v = walk.vaddr
    BY <1>1
  <2>2. /\ TablesOK(tables) /\ StackOK(tables, stack, TRUE)
        /\ Position(stack, v) /\ v < Virtual + PteCovers[1]
    BY <1>1, <1>2, <2>a
  <2>3. new = Left(stack, n) \/ (new = Moved(stack, n) /\ stack[n].idx = PteCnt[n])
    BY <1>5
  <2>4. LeftWell(tables, stack, n, new, v)
    BY <1>3, <2>1, <2>2, <2>3, StackLeft
  <2>5. n > 1 /\ StackOK(tables, new, TRUE) /\ Position(new, v)
    BY <2>4 DEF LeftWell
  <2>6. Len(new) = n - 1 /\ SameFrames(new, stack, n - 1)
    BY <2>4 DEF LeftWell
  <2> QED
    BY <2>a, <2>2, <2>5, <2>6
<1>7. PICK w : w = Climb
  OBVIOUS
<1>8. w = [walk EXCEPT !.stack = new]
  <2>1. Below(stack) = Left(stack, n)
    BY <1>3 DEF Below, Left
  <2>2. Len(Below(stack)) = n - 1
    <3>1. n - 1 \in Nat /\ 1 \in Nat /\ n - 1 <= Len(stack)
      BY <1>3, <1>6
    <3>2. stack \in Seq(Frame0)
      BY <1>6 DEF StackOK
    <3> QED
      BY <1>3, <1>6, <3>1, <3>2 DEF Below
  <2>3. AtEnd <=> stack[n].idx = PteCnt[n]
    BY <1>4 DEF AtEnd
  <2>4. [Below(stack) EXCEPT ![Len(Below(stack))].idx = @ + 1] = Moved(stack, n)
    BY <2>1, <2>2 DEF Moved, Left
  <2>5. new = IF AtEnd THEN [Below(stack) EXCEPT ![Len(Below(stack))].idx = @ + 1] ELSE Below(stack)
    BY <1>5, <2>1, <2>3, <2>4
  <2> QED
    BY <1>2, <1>7, <2>5 DEF Climb
<1>9. new \in Seq(Frame0)
  BY <1>6 DEF StackOK
<1>10. /\ w \in WalkType /\ w.vaddr = walk.vaddr /\ w.size = walk.size
       /\ w.off = walk.off /\ w.piece = walk.piece /\ w.up = TRUE /\ w.stack = new
  BY <1>1, <1>8, <1>9 DEF WalkType
<1> QED
  BY <1>2, <1>3, <1>4, <1>6, <1>7, <1>10

LEMMA LevelUpKeeps == ASSUME IInv, LevelUp PROVE IInv' /\ UNCHANGED pa
<1>1. walk.up /\ AtEnd /\ walk' = Climb /\ UNCHANGED <<pc, req, tables, pa, va, maps, lost>>
  BY DEF LevelUp
<1>2. pc \in Traversing
  BY <1>1 DEF IInv, WalkOK
<1>3. PICK w : w = Climb
  OBVIOUS
<1>4. /\ w \in WalkType /\ w.vaddr = walk.vaddr /\ w.size = walk.size
      /\ w.off = walk.off /\ w.piece = walk.piece /\ w.up = TRUE
      /\ StackOK(tables, w.stack, TRUE) /\ Position(w.stack, walk.vaddr)
  BY <1>1, <1>2, <1>3, ClimbIs
<1>5. WalkOK(pc, w, tables, req)
  <2>1. /\ walk.vaddr < Virtual + PteCovers[1] /\ walk.vaddr + walk.size <= req.va + req.size
        /\ (pc = "map" => Mapping(walk, req))
    BY <1>2, WalkFacts
  <2> QED
    BY <1>2, <1>4, <2>1, WalkTurned
<1> QED
  BY <1>1, <1>2, <1>3, <1>4, <1>5, WalkTurns

LEMMA FreeTableKeeps == ASSUME IInv, FreeTable PROVE IInv' /\ Frame!Next
<1>1. /\ pc = "unmap" /\ walk.up /\ Emptied /\ ~Busy(pa) /\ pa' = FreeBlock(pa, Top.pt)
      /\ walk' = Climb /\ UNCHANGED <<pc, req, va, maps, lost>>
  BY DEF FreeTable, Ready
<1>2. pc \in Traversing /\ Top.pt # Root
  BY <1>1 DEF Traversing, Emptied
<1>3. PICK stack, new :
        \E n \in Nat :
          /\ stack = walk.stack /\ n = Len(stack) /\ n > 1 /\ StackOK(tables, stack, TRUE)
          /\ Top = stack[n]
          /\ Climb \in WalkType /\ Climb.vaddr = walk.vaddr /\ Climb.size = walk.size
          /\ Climb.off = walk.off /\ Climb.piece = walk.piece /\ Climb.up = TRUE
          /\ Climb.stack = new
          /\ StackOK(tables, new, TRUE) /\ Position(new, walk.vaddr)
          /\ Len(new) = n - 1 /\ SameFrames(new, stack, n - 1)
  BY <1>1, <1>2, ClimbIs
<1>4. PICK n \in Nat :
        /\ stack = walk.stack /\ n = Len(stack) /\ n > 1 /\ StackOK(tables, stack, TRUE)
        /\ Top = stack[n]
        /\ Climb \in WalkType /\ Climb.vaddr = walk.vaddr /\ Climb.size = walk.size
        /\ Climb.off = walk.off /\ Climb.piece = walk.piece /\ Climb.up = TRUE
        /\ Climb.stack = new
        /\ StackOK(tables, new, TRUE) /\ Position(new, walk.vaddr)
        /\ Len(new) = n - 1 /\ SameFrames(new, stack, n - 1)
  BY <1>3
<1>5. TablesOK(tables)
  BY DEF IInv
<1>7. PICK u, idx, t : u = stack[n - 1].pt /\ idx = stack[n - 1].idx /\ t = stack[n].pt
  OBVIOUS
<1>6. Points(tables, u, idx, t) /\ u # t
  <2>1. ParentOK(tables, stack, n)
    BY <1>4, <1>5, ParentIs
  <2>2. Points(tables, stack[n - 1].pt, stack[n - 1].idx, stack[n].pt)
    BY <2>1, Zenon DEF ParentOK
  <2>3. stack[n - 1].pt # stack[n].pt
    BY <2>1, Zenon DEF ParentOK
  <2> QED
    BY <1>7, <2>2, <2>3
<1>9. tables' = Removed(tables, u, idx, t)
  <2>1. tables' = [x \in DOMAIN tables \ {Top.pt} |->
                     SetEntry(walk.stack[Len(walk.stack) - 1].pt, walk.stack[Len(walk.stack) - 1].idx, None)[x]]
    BY DEF FreeTable
  <2>2. SetEntry(walk.stack[Len(walk.stack) - 1].pt, walk.stack[Len(walk.stack) - 1].idx, None)
          = [tables EXCEPT ![u].pte[idx] = None]
    BY <1>4, <1>7 DEF SetEntry
  <2>3. t = Top.pt
    BY <1>4, <1>7
  <2> QED
    BY <2>1, <2>2, <2>3 DEF Removed
<1>10. PICK U : U = Removed(tables, u, idx, t)
  OBVIOUS
<1>11. /\ TablesOK(U) /\ DOMAIN U = DOMAIN tables \ {t} /\ t \in DOMAIN tables \ {Root}
       /\ SameBut(U, tables, u)
  <2>1. TablesOK(U) /\ DOMAIN U = DOMAIN tables \ {t}
    BY <1>5, <1>6, <1>10, TableRemoved, SMTT(60)
  <2>2. t \in DOMAIN tables \ {Root} /\ SameBut(U, tables, u)
    BY <1>5, <1>6, <1>10, TableRemoved
  <2> QED
    BY <2>1, <2>2
<1>12. StackOK(U, new, TRUE)
  <2>1. DOMAIN U = DOMAIN tables \ {stack[n].pt} /\ SameBut(U, tables, stack[n - 1].pt)
    BY <1>7, <1>11
  <2>2. StackOK(tables, stack, TRUE) /\ StackOK(tables, new, TRUE) /\ n = Len(stack) /\ n > 1
    BY <1>4
  <2>3. Len(new) = n - 1 /\ SameFrames(new, stack, n - 1)
    BY <1>4
  <2> QED
    BY <1>5, <2>1, <2>2, <2>3, StackFreed
<1>13. HeapInv(pa) /\ pa.total = Physical /\ PiecesOwned(maps \cup lost, req.pieces, tables, pa)
  BY DEF IInv, HeapsOK
<1>14. IsTaken(pa, t) /\ pa.blocks[t].size = Page /\ t = Top.pt
  BY <1>4, <1>7, <1>11, <1>13, OwnedTaken
<1>15. /\ HeapInv(pa') /\ pa'.total = Physical
       /\ Taken(pa') = Taken(pa) \ {<<t, pa.blocks[t].size>>}
  <2>1. pa' = FreeBlock(pa, t)
    BY <1>1, <1>14
  <2> QED
    BY <1>1, <1>13, <1>14, <2>1, FreeTaken
<1>16. Frame!Next
  <2>1. <<t, Page>> \in Taken(pa)
    BY <1>11, <1>13 DEF PiecesOwned, TablePieces
  <2> QED
    BY <1>14, <1>15, <2>1, FreeIsFree
<1>17. PiecesOwned(maps \cup lost, req.pieces, U, pa')
  BY <1>11, <1>13, <1>15, TableFreed
<1>18. PICK w : w = Climb
  OBVIOUS
<1>19. WalkOK(pc, w, U, req) /\ w \in WalkType
  <2>1. /\ walk.vaddr < Virtual + PteCovers[1] /\ walk.vaddr + walk.size <= req.va + req.size
        /\ (pc = "map" => Mapping(walk, req))
    BY <1>2, WalkFacts
  <2>2. /\ w.vaddr = walk.vaddr /\ w.size = walk.size /\ w.off = walk.off /\ w.piece = walk.piece
        /\ w.up = TRUE /\ w.stack = new /\ w \in WalkType
    BY <1>4, <1>18
  <2>3. StackOK(U, w.stack, w.up) /\ Position(w.stack, walk.vaddr)
    BY <1>4, <1>12, <2>2
  <2> QED
    BY <1>2, <2>1, <2>2, <2>3, WalkTurned
<1>20. tables' = U /\ walk' = w
  BY <1>1, <1>9, <1>10, <1>18
<1>21. IInv'
  BY <1>1, <1>2, <1>11, <1>15, <1>17, <1>19, <1>20, WalkMoves
<1> QED
  BY <1>16, <1>21

LEMMA TargetIs ==
  ASSUME IInv, pc = "map", walk.size > 0
  PROVE  Target \in Nat /\ Paged(Target)
<1>1. pc \in Traversing
  BY DEF Traversing
<1>2. /\ walk.piece \in Nat /\ walk.off \in Nat /\ Paged(walk.off) /\ walk.piece > 0
      /\ walk.piece \in 0..Len(req.pieces)
  BY <1>1, WalkFacts DEF Mapping
<1>3. PiecesOK(req.pieces)
  BY DEF IInv, PiecesOwned, PiecesApart
<1>4. walk.piece \in DOMAIN req.pieces
  BY <1>2, <1>3, LenProperties DEF PiecesOK
<1>5. PICK a \in Nat : a = req.pieces[walk.piece][1] /\ Paged(a)
  BY <1>3, <1>4, PieceIs
<1>6. Paged(a + walk.off)
  BY <1>2, <1>5, PagedSum
<1> QED
  BY <1>2, <1>5, <1>6 DEF Target

\* The entries of the last level map pages: there a mapping does not go down.
LEMMA LastLevelMaps ==
  ASSUME IInv, Walking, pc = "map", GoesDown
  PROVE  Level # Levels
<1>1. SUFFICES ASSUME Level = Levels PROVE FALSE
  OBVIOUS
<1>2. pc \in Traversing /\ walk.size > 0
  BY DEF Traversing, Walking
<1>3. /\ walk.size \in Nat \ {0} /\ Paged(walk.size) /\ Paged(walk.vaddr) /\ walk.vaddr \in Nat
  BY <1>2, WalkFacts DEF Mapping
<1>4. Covers = Page /\ Levels \in Nat
  BY <1>1, CoversAre DEF Covers
<1>5. ~(Covers > walk.size)
  <2>1. Page <= walk.size
    BY <1>3, PagedLeast
  <2> QED
    BY <1>3, <1>4, <2>1, PageIs
<1>6. walk.vaddr % Covers = 0
  BY <1>3, <1>4, PagedIs
<1>7. SupportsHugePage(Level, Target)
  <2>1. Target % Page = 0
    BY <1>2, TargetIs, PagedIs
  <2>2. Levels >= HugeFrom
    BY <1>4, VirtualMemoryAssumption
  <2>3. PteCovers[Level] = Page
    BY <1>1, CoversAre
  <2> QED
    BY <1>1, <2>1, <2>2, <2>3 DEF SupportsHugePage
<1> QED
  BY <1>5, <1>6, <1>7 DEF GoesDown

LEMMA CreateTableKeeps == ASSUME IInv, CreateTable PROVE IInv' /\ Frame!Next
<1>1. /\ Walking /\ GoesDown /\ pc = "map" /\ ~Valid(Entry) /\ UNCHANGED <<pc, req, va, maps, lost>>
  BY DEF CreateTable
<1>2. pc \in Traversing /\ ~walk.up /\ ~Busy(pa)
  BY <1>1 DEF Walking, Ready, Traversing
<1>3. /\ walk \in WalkType /\ TablesOK(tables) /\ walk.up \in BOOLEAN
      /\ StackOK(tables, walk.stack, walk.up) /\ Position(walk.stack, walk.vaddr)
      /\ walk.vaddr < Virtual + PteCovers[1] /\ walk.vaddr + walk.size <= req.va + req.size
      /\ (pc = "map" => Mapping(walk, req))
  BY <1>2, WalkFacts
<1>4. walk.up = FALSE /\ StackOK(tables, walk.stack, FALSE)
  BY <1>2, <1>3
<1>5. PICK n \in Nat : n = Len(walk.stack)
  BY <1>3, LenProperties DEF StackOK
<1>6. /\ Top = walk.stack[n] /\ Level = n /\ n \in 1..Levels
      /\ walk.stack[n].pt \in DOMAIN tables /\ tables[walk.stack[n].pt].lv = n
      /\ walk.stack[n].idx \in Nat /\ walk.stack[n].idx < PteCnt[n] /\ PteCnt[n] \in Nat
      /\ DOMAIN tables[walk.stack[n].pt].pte = 0..(PteCnt[n] - 1)
  BY <1>2, <1>3, <1>5, TopIs
<1>7. PICK t, idx, l : t = walk.stack[n].pt /\ idx = walk.stack[n].idx /\ l = n + 1
  OBVIOUS
<1>8. l \in 1..Levels
  <2>1. n # Levels
    BY <1>1, <1>6, LastLevelMaps
  <2>2. Levels \in Nat
    BY CoversAre
  <2> QED
    BY <1>6, <1>7, <2>1, <2>2
<1>9. t \in DOMAIN tables /\ idx \in DOMAIN tables[t].pte /\ l = tables[t].lv + 1
  BY <1>6, <1>7
<1>10. tables[t].pte[idx].kind = "none"
  <2>1. Entry = tables[t].pte[idx]
    BY <1>6, <1>7 DEF Entry
  <2> QED
    BY <1>1, <2>1 DEF Valid
<1>11. PICK a : /\ Palloc(Page, Page, a)
                /\ tables' = [x \in DOMAIN tables \cup {a} |->
                                IF x = a THEN NewTable(Level + 1)
                                ELSE SetEntry(Top.pt, Top.idx, TableAt(a))[x]]
                /\ walk' = Push(a, Level + 1)
  BY DEF CreateTable
<1>12. HeapsOK /\ HeapInv(pa) /\ PiecesOwned(maps \cup lost, req.pieces, tables, pa)
  BY DEF IInv, HeapsOK
<1>13. /\ HeapInv(pa') /\ pa'.total = Physical
       /\ a \in Nat /\ ~IsTaken(pa, a)
       /\ Taken(pa') = Taken(pa) \cup {<<a, Page>>} /\ Frame!Next
  BY <1>2, <1>11, <1>12, PagePaged, PallocIs
<1>14. a \notin DOMAIN tables
  <2>1. a # Root
    BY <1>13 DEF Root
  <2>2. \A x \in DOMAIN tables \ {Root} : IsTaken(pa, x)
    BY <1>12, OwnedTaken
  <2> QED
    BY <1>13, <2>1, <2>2
<1>15. PICK U : U = Added(tables, t, idx, a, l)
  OBVIOUS
<1>16. /\ TablesOK(U) /\ DOMAIN U = DOMAIN tables \cup {a} /\ Points(U, t, idx, a)
       /\ SameBut(U, tables, t)
  <2>1. TablesOK(U)
    BY <1>3, <1>8, <1>9, <1>10, <1>13, <1>14, <1>15, TableAdded
  <2>4. DOMAIN U = DOMAIN tables \cup {a}
    BY <1>15 DEF Added
  <2>2. Points(U, t, idx, a)
    BY <1>3, <1>8, <1>9, <1>10, <1>13, <1>14, <1>15, TableAdded
  <2>3. SameBut(U, tables, t)
    BY <1>3, <1>8, <1>9, <1>10, <1>13, <1>14, <1>15, TableAdded
  <2> QED
    BY <2>1, <2>2, <2>3, <2>4
<1>17. tables' = U /\ walk' = Push(a, l)
  <2>1. SetEntry(Top.pt, Top.idx, TableAt(a)) = [tables EXCEPT ![t].pte[idx] = TableAt(a)]
    BY <1>6, <1>7 DEF SetEntry
  <2>2. Level + 1 = l
    BY <1>6, <1>7
  <2> QED
    BY <1>11, <1>15, <2>1, <2>2 DEF Added
<1>18. StackOK(U, walk.stack, FALSE)
  <2>1. PICK stack : stack = walk.stack
    OBVIOUS
  <2>2. StackOK(tables, stack, FALSE) /\ n = Len(stack) /\ SameBut(U, tables, stack[n].pt)
        /\ DOMAIN tables \subseteq DOMAIN U
    BY <1>4, <1>5, <1>7, <1>16, <2>1
  <2> QED
    BY <1>3, <2>1, <2>2, StackSet
<1>19. PICK w : w = Push(a, l)
  OBVIOUS
<1>20. /\ w \in WalkType /\ w.vaddr = walk.vaddr /\ w.size = walk.size
       /\ w.off = walk.off /\ w.piece = walk.piece /\ w.up = FALSE
       /\ StackOK(U, w.stack, FALSE) /\ Position(w.stack, walk.vaddr)
  <2>2. /\ TablesOK(U) /\ walk \in WalkType /\ StackOK(U, walk.stack, FALSE)
        /\ Position(walk.stack, walk.vaddr) /\ n = Len(walk.stack)
        /\ Points(U, walk.stack[n].pt, walk.stack[n].idx, a) /\ l = n + 1 /\ l \in 1..Levels
        /\ w = Push(a, l) /\ n \in Nat
    BY <1>3, <1>5, <1>7, <1>8, <1>16, <1>18, <1>19
  <2>3. PushedWell(U, Push(a, l))
    BY <2>2, PushIs
  <2>4. PushedWell(U, w)
    BY <2>2, <2>3
  <2> QED
    BY <1>4, <2>4, Zenon DEF PushedWell
<1>21. WalkOK(pc, w, U, req)
  BY <1>2, <1>3, <1>20, WalkTurned
<1>22. PiecesOwned(maps \cup lost, req.pieces, U, pa')
  BY <1>12, <1>13, <1>16, TableTaken
<1>23. IInv'
  <2>1. tables' = U /\ walk' = w
    BY <1>17, <1>19
  <2> QED
    BY <1>1, <1>2, <1>13, <1>16, <1>20, <1>21, <1>22, <2>1, WalkMoves
<1> QED
  BY <1>13, <1>23

\* The entries of a visit, of as many as are whole and as there is room for
Takes(k, room, loop) ==
  LET count == IF k < room THEN k ELSE room IN IF loop = "inspect" /\ count < 1 THEN 1 ELSE count

\* What a visit covers lies in what is left of the traversal, but for an inspection that looks
\* at an entry for more than that.
LEMMA CountIs ==
  ASSUME NEW z \in Nat \ {0}, NEW c \in Nat \ {0}, NEW room \in Nat \ {0}, NEW loop,
         NEW m, m = Takes(z \div c, room, loop), m > 0
  PROVE  /\ m \in Nat \ {0} /\ m <= room /\ m * c \in Nat
         /\ m * c <= z \/ (loop = "inspect" /\ m * c = c /\ z < c)
<1>k. PICK k : k = z \div c
  OBVIOUS
<1>c. PICK count : count = IF k < room THEN k ELSE room
  OBVIOUS
<1>m. m = IF loop = "inspect" /\ count < 1 THEN 1 ELSE count
  BY <1>k, <1>c DEF Takes
<1>1. k \in Nat /\ k * c <= z /\ (k < 1 => z < c)
  BY <1>k, WholeEntries
<1>2. count \in Nat /\ count <= room /\ count <= k
  BY <1>c, <1>1
<1>3. CASE loop = "inspect" /\ count < 1
  <2>1. m = 1 /\ k < 1
    BY <1>c, <1>m, <1>1, <1>2, <1>3
  <2> QED
    BY <1>1, <1>3, <2>1
<1>4. CASE ~(loop = "inspect" /\ count < 1)
  <2>1. m = count /\ m \in Nat \ {0}
    BY <1>m, <1>2, <1>4
  <2>2. m * c <= k * c /\ m * c \in Nat /\ k * c \in Nat
    <3>1. PICK d \in Nat : k = m + d
      <4>1. k - m \in Nat /\ k = m + (k - m)
        BY <1>1, <1>2, <2>1
      <4> QED
        BY <4>1
    <3>2. (m + d) * c = m * c + d * c /\ d * c \in Nat /\ m * c \in Nat
      BY <2>1
    <3> QED
      BY <3>1, <3>2
  <2>3. m * c <= z
    BY <1>1, <2>2
  <2> QED
    BY <1>2, <2>1, <2>2, <2>3
<1> QED
  BY <1>3, <1>4

\* The entries of a visit
LEMMA VisitIs ==
  ASSUME IInv, Walking, EntryCount > 0
  PROVE  \E n \in 1..Levels, m \in Nat \ {0}, c \in Nat \ {0}, b \in Nat :
           /\ n = Len(walk.stack) /\ Top = walk.stack[n] /\ Level = n
           /\ m = EntryCount /\ c = Covers /\ c = PteCovers[n] /\ b = m * c
           /\ walk.stack[n].idx \in Nat /\ walk.stack[n].idx + m <= PteCnt[n]
           /\ b <= walk.size \/ (pc = "inspect" /\ b = c /\ walk.size < c)
<1>1. pc \in Traversing /\ walk.size > 0 /\ ~walk.up
  BY DEF Walking, Ready, Traversing
<1>2. /\ TablesOK(tables) /\ StackOK(tables, walk.stack, walk.up) /\ walk.size \in Nat \ {0}
  BY <1>1, WalkFacts, SMTT(60)
<1>3. PICK n : n = Len(walk.stack)
  OBVIOUS
<1>4. /\ Top = walk.stack[n] /\ Level = n /\ Covers = PteCovers[n] /\ n \in 1..Levels
      /\ walk.stack[n].idx \in Nat /\ PteCnt[n] \in Nat
      /\ PteCovers[n] \in Nat \ {0} /\ walk.stack[n].idx < PteCnt[n]
  BY <1>1, <1>2, <1>3, TopIs
<1>a. PICK loop : loop = pc
  OBVIOUS
<1>b. PICK room \in Nat \ {0} : room = PteCnt[n] - walk.stack[n].idx
  BY <1>4
<1>c. PICK z \in Nat \ {0}, c \in Nat \ {0} : z = walk.size /\ c = PteCovers[n]
  BY <1>2, <1>4
<1>5. /\ z = walk.size /\ c = PteCovers[n] /\ room = PteCnt[n] - walk.stack[n].idx
      /\ loop = pc
  BY <1>a, <1>b, <1>c
<1>8. PICK m : m = Takes(z \div c, room, loop)
  OBVIOUS
<1>9. m = EntryCount
  <2>1. z \div c = walk.size \div Covers
    BY <1>4, <1>5
  <2>2. room = PteCnt[Level] - Top.idx
    BY <1>4, <1>5
  <2>3. EntryCount = Takes(walk.size \div Covers, PteCnt[Level] - Top.idx, pc)
    BY DEF EntryCount, Takes
  <2> QED
    BY <1>5, <1>8, <2>1, <2>2, <2>3
<1>10. m > 0
  BY <1>9
<1>11. m \in Nat \ {0} /\ m <= room /\ m * c \in Nat
  BY <1>8, <1>10, CountIs, ZenonT(60)
<1>12. m * c <= z \/ (loop = "inspect" /\ m * c = c /\ z < c)
  BY <1>8, <1>10, CountIs, Zenon
<1>13. PICK b \in Nat : b = m * c
  BY <1>11
<1>14. walk.stack[n].idx + m <= PteCnt[n]
  BY <1>4, <1>5, <1>11
<1>15. b <= walk.size \/ (pc = "inspect" /\ b = c /\ walk.size < c)
  BY <1>5, <1>12, <1>13
<1> QED
  BY <1>3, <1>4, <1>5, <1>9, <1>11, <1>13, <1>14, <1>15

\* The entries a visit writes lead to no table.
LEMMA VisitedIs ==
  ASSUME IInv, Walking, NEW n, n \in 1..Levels, Top = walk.stack[n], n = Len(walk.stack), Level = n,
         EntryCount \in Nat, Covers \in Nat
  PROVE  TablesOK(Visited) /\ DOMAIN Visited = DOMAIN tables /\ SameBut(Visited, tables, Top.pt)
<1>1. pc \in Traversing /\ walk.size > 0 /\ pc \in {"inspect", "map", "unmap"}
  BY DEF Walking, Ready, Traversing
<1>2. TablesOK(tables) /\ StackOK(tables, walk.stack, walk.up)
  BY <1>1, WalkFacts
<1>3. PICK t : t = Top.pt
  OBVIOUS
<1>4. t \in DOMAIN tables /\ Top.idx \in Nat
  BY <1>2, <1>3, TopIs
<1>5. /\ tables[t].pte \in [0..(PteCnt[tables[t].lv] - 1) -> EntryType]
      /\ tables[t] = [lv |-> tables[t].lv, pte |-> tables[t].pte]
  BY <1>2, <1>4, TableIs
<1>6. CASE pc = "inspect"
  <2>1. Visited = tables
    BY <1>6 DEF Visited
  <2> QED
    BY <1>2, <2>1 DEF SameBut
<1>7. CASE pc = "unmap"
  <2>1. PICK pte : pte = [i \in DOMAIN tables[t].pte |-> IF i \in Span THEN None ELSE tables[t].pte[i]]
    OBVIOUS
  <2>2. pte \in [0..(PteCnt[tables[t].lv] - 1) -> EntryType]
    BY <1>5, <2>1, EntryTypes
  <2>3. \A i \in DOMAIN pte : pte[i] = tables[t].pte[i] \/ pte[i].kind # "table"
    BY <2>1, EntryTypes
  <2>4. Visited = Rewritten(tables, t, pte)
    BY <1>3, <1>7, <2>1 DEF Visited, Rewritten
  <2>5. PICK U : U = Rewritten(tables, t, pte)
    OBVIOUS
  <2>6. TablesOK(U)
    BY <1>2, <1>4, <2>2, <2>3, <2>5, EntriesSet
  <2>7. SameBut(U, tables, t)
    BY <1>2, <1>4, <2>2, <2>3, <2>5, EntriesSet
  <2>8. DOMAIN U = DOMAIN tables
    BY <2>5 DEF Rewritten
  <2> QED
    BY <1>3, <2>4, <2>5, <2>6, <2>7, <2>8
<1>8. CASE pc = "map"
  <2>0. Target \in Nat
    BY <1>1, <1>8, TargetIs
  <2>1. PICK pte : pte = [i \in DOMAIN tables[t].pte |->
                            IF i \in Span THEN PageAt(Target + (i - Top.idx) * Covers)
                            ELSE tables[t].pte[i]]
    OBVIOUS
  <2>a. ASSUME NEW i \in Span
        PROVE  /\ PageAt(Target + (i - Top.idx) * Covers) \in EntryType
               /\ PageAt(Target + (i - Top.idx) * Covers).kind # "table"
    <3>1. i \in Int
      BY <1>4, <2>a DEF Span
    <3>2. PICK o \in Int : o = i - Top.idx
      BY <1>4, <3>1
    <3>3. o * Covers \in Int
      OBVIOUS
    <3>4. Target + (i - Top.idx) * Covers \in Int
      BY <2>0, <3>2, <3>3
    <3> QED
      BY <3>4, EntryTypes
  <2>2. pte \in [0..(PteCnt[tables[t].lv] - 1) -> EntryType]
    BY <1>5, <2>1, <2>a
  <2>3. \A i \in DOMAIN pte : pte[i] = tables[t].pte[i] \/ pte[i].kind # "table"
    BY <2>1, <2>a
  <2>4. Visited = Rewritten(tables, t, pte)
    BY <1>3, <1>8, <2>1 DEF Visited, Rewritten
  <2>5. PICK U : U = Rewritten(tables, t, pte)
    OBVIOUS
  <2>6. TablesOK(U)
    BY <1>2, <1>4, <2>2, <2>3, <2>5, EntriesSet
  <2>7. SameBut(U, tables, t)
    BY <1>2, <1>4, <2>2, <2>3, <2>5, EntriesSet
  <2>8. DOMAIN U = DOMAIN tables
    BY <2>5 DEF Rewritten
  <2> QED
    BY <1>3, <2>4, <2>5, <2>6, <2>7, <2>8
<1> QED
  BY <1>1, <1>6, <1>7, <1>8

LEMMA VisitKeeps == ASSUME IInv, Visit PROVE IInv' /\ UNCHANGED pa
<1>1. /\ Walking /\ EntryCount > 0 /\ tables' = Visited /\ UNCHANGED <<pc, req, pa, va, maps, lost>>
      /\ walk' = [walk EXCEPT !.size = @ - EntryCount * Covers, !.off = @ + EntryCount * Covers,
                              !.vaddr = @ + EntryCount * Covers,
                              !.stack[Len(walk.stack)].idx = @ + EntryCount, !.up = TRUE]
  BY DEF Visit, EntriesAsExpected
<1>2. pc \in Traversing /\ ~walk.up /\ walk.size > 0
  BY <1>1 DEF Walking, Ready, Traversing
<1>3. /\ walk \in WalkType /\ TablesOK(tables) /\ walk.up \in BOOLEAN
      /\ walk.vaddr \in Nat /\ walk.size \in Nat \ {0} /\ walk.off \in Nat /\ walk.piece \in Nat
      /\ StackOK(tables, walk.stack, walk.up) /\ Position(walk.stack, walk.vaddr)
      /\ walk.vaddr + walk.size <= req.va + req.size
      /\ req.va \in Nat /\ req.size \in Nat /\ req.va + req.size <= Virtual
      /\ Virtual \in Nat /\ PteCovers[1] \in Nat \ {0}
      /\ (pc = "map" => Mapping(walk, req))
  BY <1>2, WalkFacts, SMTT(60)
<1>4. walk.up = FALSE /\ StackOK(tables, walk.stack, FALSE)
  BY <1>2, <1>3
<1>5. PICK n \in 1..Levels, m \in Nat \ {0}, c \in Nat \ {0}, b \in Nat :
        /\ n = Len(walk.stack) /\ Top = walk.stack[n] /\ Level = n
        /\ m = EntryCount /\ c = Covers /\ c = PteCovers[n] /\ b = m * c
        /\ walk.stack[n].idx \in Nat /\ walk.stack[n].idx + m <= PteCnt[n]
        /\ b <= walk.size \/ (pc = "inspect" /\ b = c /\ walk.size < c)
  BY <1>1, VisitIs
<1>6. PICK U : U = tables'
  OBVIOUS
<1>7. TablesOK(U) /\ DOMAIN U = DOMAIN tables /\ SameBut(U, tables, walk.stack[n].pt)
  <2>1. EntryCount \in Nat /\ Covers \in Nat
    BY <1>5
  <2>2. /\ TablesOK(Visited) /\ DOMAIN Visited = DOMAIN tables
        /\ SameBut(Visited, tables, Top.pt)
    BY <1>1, <1>5, <2>1, VisitedIs
  <2> QED
    BY <1>1, <1>5, <1>6, <2>2
<1>8. PICK stack : stack = walk.stack
  OBVIOUS
<1>9. PICK new : new = [stack EXCEPT ![n].idx = @ + m]
  OBVIOUS
<1>10. stack \in Seq(Frame0) /\ n = Len(stack) /\ StackOK(U, stack, FALSE)
  <2>1. StackOK(tables, stack, FALSE) /\ n = Len(stack) /\ SameBut(U, tables, stack[n].pt)
        /\ DOMAIN tables \subseteq DOMAIN U
    BY <1>4, <1>5, <1>7, <1>8
  <2>2. StackOK(U, stack, FALSE)
    BY <1>3, <2>1, StackSet
  <2> QED
    BY <2>1, <2>2 DEF StackOK
<1>11. StackOK(U, new, TRUE) /\ Len(new) = n /\ SameFrames(new, stack, n) /\ new[n].idx = stack[n].idx + m
  <2>1. TablesOK(U) /\ StackOK(U, stack, FALSE) /\ n = Len(stack) /\ m \in Nat /\ stack[n].idx + m <= PteCnt[n]
    BY <1>5, <1>7, <1>8, <1>10
  <2>2. StackOK(U, new, TRUE)
    BY <1>9, <2>1, StackVisited
  <2>3. Len(new) = n
    BY <1>9, <2>1, StackVisited
  <2>4. SameFrames(new, stack, n)
    BY <1>9, <2>1, StackVisited, ZenonT(60)
  <2>5. new[n].idx = stack[n].idx + m
    BY <1>9, <2>1, StackVisited
  <2> QED
    BY <2>2, <2>3, <2>4, <2>5
<1>12. PICK v \in Nat : v = walk.vaddr
  BY <1>3
<1>13. Position(new, v + b)
  <2>1. /\ n = Len(stack) /\ Position(stack, v) /\ m \in Nat /\ Len(new) = n
        /\ new[n].idx = stack[n].idx + m /\ stack[n].idx \in Nat /\ c = PteCovers[n]
    BY <1>3, <1>5, <1>8, <1>10, <1>11, <1>12
  <2>2. \A i \in 1..n : i < n => new[i] = stack[i]
    BY <1>11 DEF SameFrames
  <2>3. Position(new, v + m * c)
    BY <2>1, <2>2, PositionVisited
  <2> QED
    BY <1>5, <2>3
<1>14. new \in Seq(Frame0)
  BY <1>11 DEF StackOK
<1>15. PICK w : w = walk'
  OBVIOUS
<1>16. PICK z \in Int : z = walk.size - b
  BY <1>3
<1>17. PICK x \in Nat, o \in Nat : x = v + b /\ o = walk.off + b
  BY <1>3
<1>18. w = [vaddr |-> x, size |-> z, off |-> o, piece |-> walk.piece, stack |-> new, up |-> TRUE]
  <2>1. EntryCount * Covers = b /\ EntryCount = m /\ Len(walk.stack) = n
    BY <1>5
  <2>2. w = [walk EXCEPT !.size = @ - b, !.off = @ + b, !.vaddr = @ + b,
                         !.stack[n].idx = @ + m, !.up = TRUE]
    BY <1>1, <1>15, <2>1
  <2>3. [walk.stack EXCEPT ![n].idx = @ + m] = new
    BY <1>8, <1>9
  <2>4. w = [walk EXCEPT !.size = z, !.off = o, !.vaddr = x, !.stack = new, !.up = TRUE]
    BY <1>12, <1>16, <1>17, <2>2, <2>3
  <2> QED
    BY <1>3, <2>4 DEF WalkType
<1>19. /\ w \in WalkType /\ w.vaddr = x /\ w.size = z /\ w.off = o /\ w.piece = walk.piece
       /\ w.stack = new /\ w.up = TRUE
  BY <1>3, <1>14, <1>18 DEF WalkType
<1>20. x + z = walk.vaddr + walk.size
  BY <1>3, <1>12, <1>16, <1>17
<1>21. Traverses(w, U, req)
  <2>1. x < Virtual + PteCovers[1]
    <3>1. CASE b <= walk.size
      BY <1>3, <1>12, <1>17, <3>1
    <3>2. CASE b = c /\ walk.size < c
      <4>1. c <= PteCovers[1]
        BY <1>5, CoversAre
      <4> QED
        BY <1>3, <1>12, <1>17, <3>2, <4>1
    <3> QED
      BY <1>5, <3>1, <3>2
  <2>2. w.vaddr < Virtual + PteCovers[1] /\ w.vaddr + w.size <= req.va + req.size
    BY <1>3, <1>19, <1>20, <2>1
  <2>3. StackOK(U, w.stack, w.up) /\ Position(w.stack, w.vaddr)
    BY <1>11, <1>13, <1>17, <1>19
  <2> QED
    BY <2>2, <2>3 DEF Traverses
<1>22. ASSUME pc = "map" PROVE Mapping(w, req)
  <2>1. /\ Mapping(walk, req) /\ b <= walk.size
    BY <1>3, <1>5, <1>22
  <2>2. /\ Paged(walk.size) /\ Paged(v) /\ Paged(walk.off) /\ walk.piece > 0
        /\ walk.piece \in 0..Len(req.pieces) /\ Reached(walk, req)
    BY <1>2, <1>12, <2>1 DEF Mapping
  <2>3. Paged(b)
    BY <1>5, CoversAre, PagedTimes
  <2>4. Paged(x) /\ Paged(o)
    BY <1>3, <1>17, <2>2, <2>3, PagedSum
  <2>5. z \in Nat /\ Paged(z)
    <3>1. z \in Nat
      BY <1>3, <1>16, <2>1
    <3>2. Paged(z)
      BY <1>3, <1>16, <2>1, <2>2, <2>3, PagedDifference
    <3> QED
      BY <3>1, <3>2
  <2>6. Reached(w, req)
    <3>1. PICK s : Sums(s, req.pieces, req.size) /\ walk.vaddr + walk.size = req.va + s[walk.piece]
      BY <2>2 DEF Reached
    <3>2. w.vaddr + w.size = req.va + s[w.piece]
      BY <1>19, <1>20, <3>1
    <3> QED
      BY <3>1, <3>2 DEF Reached
  <2> QED
    BY <1>19, <2>2, <2>4, <2>5, <2>6 DEF Mapping
<1>23. WalkOK(pc, w, U, req)
  BY <1>2, <1>21, <1>22 DEF WalkOK
<1>24. HeapInv(pa') /\ pa'.total = Physical /\ PiecesOwned(maps \cup lost, req.pieces, tables, pa')
  BY <1>1 DEF IInv, HeapsOK
<1>25. PiecesOwned(maps \cup lost, req.pieces, U, pa')
  BY <1>7, <1>24 DEF PiecesOwned, PiecesApart, TablePieces
<1>26. IInv'
  BY <1>1, <1>2, <1>6, <1>7, <1>15, <1>19, <1>23, <1>24, <1>25, WalkMoves
<1> QED
  BY <1>1, <1>26

-----------------------------------------------------------------------------
(* The entry of an address at each level.                                  *)

LEMMA AtIs ==
  ASSUME NEW l \in 1..Levels, NEW v \in Nat
  PROVE  /\ At(l, v) \in Nat /\ Above(l, v) \in Nat /\ Place(l, v) \in 0..(PteCnt[l] - 1)
         /\ At(l, v) * PteCovers[l] \in Nat
         /\ At(l, v) * PteCovers[l] <= v /\ v < At(l, v) * PteCovers[l] + PteCovers[l]
         /\ v % PteCovers[l] = v - At(l, v) * PteCovers[l]
         /\ At(l, v) = Above(l, v) * PteCnt[l] + Place(l, v)
<1>1. PICK c \in Nat \ {0}, m \in Nat \ {0} : c = PteCovers[l] /\ m = PteCnt[l]
  BY CoversAre
<1>2. PICK e \in Nat : e = v \div c /\ c * e <= v /\ v < c * e + c
  BY Divide
<1>3. v % c = v - c * e
  BY <1>2, OneQuotient
<1>4. e * c = c * e /\ e * c \in Nat
  OBVIOUS
<1>5. PICK x \in Nat : x = e \div m /\ e % m \in 0..(m - 1) /\ e = m * x + (e % m)
  BY Modulo
<1>6. x * m = m * x
  OBVIOUS
<1>7. At(l, v) = e /\ Above(l, v) = x /\ Place(l, v) = e % m
  BY <1>1, <1>2, <1>5 DEF At, Above, Place
<1> QED
  BY <1>1, <1>2, <1>3, <1>4, <1>5, <1>6, <1>7

\* An address is under an entry when it lies in what the entry covers.
LEMMA AtOf ==
  ASSUME NEW l \in 1..Levels, NEW v \in Nat, NEW e \in Nat
  PROVE  At(l, v) = e <=> (e * PteCovers[l] <= v /\ v < e * PteCovers[l] + PteCovers[l])
<1>1. PICK c \in Nat \ {0} : c = PteCovers[l]
  BY CoversAre
<1>2. At(l, v) = v \div c /\ e * c = c * e
  BY <1>1 DEF At
<1>3. ASSUME c * e <= v, v < c * e + c PROVE At(l, v) = e
  BY <1>2, <1>3, OneQuotient
<1>4. ASSUME At(l, v) = e PROVE c * e <= v /\ v < c * e + c
  BY <1>2, <1>4, Divide
<1> QED
  BY <1>1, <1>2, <1>3, <1>4

\* The number and the place of an entry
LEMMA Digits ==
  ASSUME NEW l \in 1..Levels, NEW v \in Nat, NEW x \in Nat, NEW i \in 0..(PteCnt[l] - 1)
  PROVE  At(l, v) = x * PteCnt[l] + i <=> (Above(l, v) = x /\ Place(l, v) = i)
<1>1. PICK m \in Nat \ {0} : m = PteCnt[l]
  BY CoversAre
<1>2. ASSUME At(l, v) = x * m + i PROVE Above(l, v) = x /\ Place(l, v) = i
  <2>1. PICK e \in Nat, y \in Nat : e = At(l, v) /\ y = m * x /\ x * m = y /\ e = y + i /\ i \in Nat /\ i < m
    BY <1>1, <1>2, AtIs, SMTT(30)
  <2>2. m * x <= e /\ e < m * x + m
    BY <2>1
  <2>3. e \div m = x /\ e % m = e - m * x
    BY <2>2, OneQuotient
  <2>4. e - m * x = i
    BY <2>1
  <2> QED
    BY <1>1, <2>1, <2>3, <2>4 DEF Above, Place
<1>3. At(l, v) = Above(l, v) * m + Place(l, v)
  BY <1>1, AtIs
<1> QED
  BY <1>1, <1>2, <1>3

\* The entry above is the one of the level above.
LEMMA AboveIs ==
  ASSUME NEW k \in 1..Levels, NEW l \in 1..Levels, l = k + 1, NEW v \in Nat
  PROVE  Above(l, v) = At(k, v)
<1>1. PICK c \in Nat \ {0}, m \in Nat \ {0} : c = PteCovers[l] /\ m = PteCnt[l]
  BY CoversAre
<1>2. PteCovers[k] = m * c
  BY <1>1, CoversAre
<1>3. PICK e \in Nat, x \in Nat, i \in Nat : e = At(l, v) /\ x = Above(l, v) /\ i = Place(l, v) /\ i < m /\ e = x * m + i
  <2>1. /\ At(l, v) \in Nat /\ Above(l, v) \in Nat /\ Place(l, v) \in 0..(m - 1)
        /\ At(l, v) = Above(l, v) * m + Place(l, v)
    BY <1>1, AtIs
  <2>2. Place(l, v) \in Nat /\ Place(l, v) < m
    BY <2>1
  <2> QED
    BY <2>1, <2>2
<1>4. e * c <= v /\ v < e * c + c
  BY <1>1, <1>3, AtIs
<1>5. e * c = x * (m * c) + i * c
  <2>1. (x * m + i) * c = (x * m) * c + i * c
    OBVIOUS
  <2>2. (x * m) * c = x * (m * c)
    OBVIOUS
  <2> QED
    BY <1>3, <2>1, <2>2
<1>6. i * c + c <= m * c /\ i * c \in Nat /\ m * c \in Nat
  <2>1. c * (i + 1) <= c * m
    BY <1>3, Multiply
  <2>2. c * (i + 1) = i * c + c /\ c * m = m * c
    OBVIOUS
  <2> QED
    BY <2>1, <2>2
<1>7. PICK a \in Nat, b \in Nat, f \in Nat, g \in Nat : a = x * (m * c) /\ b = i * c /\ f = m * c /\ g = e * c
  BY <1>6
<1>8. a <= v /\ v < a + f
  BY <1>4, <1>5, <1>6, <1>7
<1>9. At(k, v) = x
  BY <1>2, <1>7, <1>8, AtOf
<1> QED
  BY <1>3, <1>9

\* Addresses under one entry are under one entry of each level above.
LEMMA Coarse ==
  ASSUME NEW l \in 1..Levels, NEW k \in 1..l, NEW v \in Nat, NEW w \in Nat, At(l, v) = At(l, w)
  PROVE  At(k, v) = At(k, w)
<1> DEFINE T == {d \in 0..(l - 1) : At(l - d, v) # At(l - d, w)}
<1>0. Levels \in Nat \ {0} /\ l \in Nat /\ k \in Nat
  BY CoversAre
<1>1. SUFFICES ASSUME T # {} PROVE FALSE
  <2>1. l - k \in 0..(l - 1) /\ l - (l - k) = k
    BY <1>0
  <2> QED
    BY <2>1
<1>2. T \in SUBSET Nat
  BY <1>0
<1>3. PICK d \in T : \A e \in T : d <= e
  BY <1>1, <1>2, LeastNat
<1>4. d \in 0..(l - 1) /\ At(l - d, v) # At(l - d, w)
  OBVIOUS
<1>5. d # 0
  BY <1>0, <1>4
<1>6. PICK e \in 0..(l - 1) : e = d - 1 /\ e \notin T
  BY <1>0, <1>3, <1>4, <1>5
<1>7. At(l - e, v) = At(l - e, w)
  BY <1>6
<1>8. PICK a \in 1..Levels, b \in 1..Levels : a = l - d /\ b = l - e /\ b = a + 1
  BY <1>0, <1>4, <1>6
<1>9. Above(b, v) = Above(b, w)
  BY <1>7, <1>8 DEF Above
<1>10. At(a, v) = At(a, w)
  BY <1>8, <1>9, AboveIs
<1> QED
  BY <1>4, <1>8, <1>10

-----------------------------------------------------------------------------
(* The tree of the tables that are reached from the root.                  *)

LEMMA TreeTable ==
  ASSUME NEW T, TablesOK(T), NEW L, NEW n, Tree(L, n, T), NEW t \in L
  PROVE  /\ t \in DOMAIN T /\ T[t].lv \in 1..Levels /\ n[t] \in Nat
         /\ DOMAIN T[t].pte = 0..(PteCnt[T[t].lv] - 1)
         /\ \A i \in DOMAIN T[t].pte : T[t].pte[i] \in EntryType
<1>1. t \in DOMAIN T /\ n[t] \in Nat
  BY DEF Tree
<1>2. PICK l, pte : l = T[t].lv /\ pte = T[t].pte
  OBVIOUS
<1>3. l \in 1..Levels /\ pte \in [0..(PteCnt[l] - 1) -> EntryType]
  BY <1>1, <1>2, TableIs
<1>4. DOMAIN pte = 0..(PteCnt[l] - 1) /\ \A i \in DOMAIN pte : pte[i] \in EntryType
  BY <1>3
<1> QED
  BY <1>1, <1>2, <1>3, <1>4

LEMMA UnderIs ==
  ASSUME NEW T, TablesOK(T), NEW L, NEW n, Tree(L, n, T), NEW t \in L, NEW v \in Nat
  PROVE  /\ \A i \in DOMAIN T[t].pte : Under(n, T, t, i, v) <=> (On(n, T, t, v) /\ Place(T[t].lv, v) = i)
         /\ Place(T[t].lv, v) \in DOMAIN T[t].pte
<1>1. PICK l \in 1..Levels, x \in Nat : l = T[t].lv /\ x = n[t] /\ DOMAIN T[t].pte = 0..(PteCnt[l] - 1)
  BY TreeTable
<1>2. ASSUME NEW i \in 0..(PteCnt[l] - 1)
      PROVE At(l, v) = x * PteCnt[l] + i <=> (Above(l, v) = x /\ Place(l, v) = i)
  BY Digits
<1>3. Place(l, v) \in 0..(PteCnt[l] - 1)
  BY AtIs
<1> QED
  BY <1>1, <1>2, <1>3 DEF Under, On, Number

\* An entry covers addresses, the first of them where it starts.
LEMMA EntryAddress ==
  ASSUME NEW T, TablesOK(T), NEW L, NEW n, Tree(L, n, T), NEW t \in L, NEW i \in DOMAIN T[t].pte
  PROVE  \E v \in Nat : v = Number(n, T, t, i) * PteCovers[T[t].lv] /\ Under(n, T, t, i, v)
<1>1. PICK l \in 1..Levels, x \in Nat : l = T[t].lv /\ x = n[t] /\ DOMAIN T[t].pte = 0..(PteCnt[l] - 1)
  BY TreeTable
<1>2. PICK m \in Nat \ {0}, c \in Nat \ {0}, j \in Nat : m = PteCnt[l] /\ c = PteCovers[l] /\ j = i
  <2>1. PICK m \in Nat \ {0}, c \in Nat \ {0} : m = PteCnt[l] /\ c = PteCovers[l]
    BY CoversAre
  <2>2. i \in 0..(m - 1)
    BY <1>1, <2>1
  <2> QED
    BY <2>1, <2>2
<1>3. PICK e \in Nat : e = x * m + j
  BY <1>2
<1>4. PICK v \in Nat : v = e * c
  OBVIOUS
<1>5. At(l, v) = e
  BY <1>2, <1>4, AtOf
<1> QED
  BY <1>1, <1>2, <1>3, <1>4, <1>5 DEF Under, Number

\* The table above a table on the way to an address
LEMMA ParentOn ==
  ASSUME NEW T, TablesOK(T), NEW L, NEW n, Tree(L, n, T), NEW t \in L \ {Root}, NEW v \in Nat, On(n, T, t, v)
  PROVE  \E s \in L : /\ T[s].lv + 1 = T[t].lv /\ On(n, T, s, v)
                      /\ Points(T, s, Place(T[s].lv, v), t)
<1>1. PICK s \in L : \E i : Points(T, s, i, t)
  BY DEF Tree
<1>2. PICK i : Points(T, s, i, t)
  BY <1>1
<1>3. n[t] = Number(n, T, s, i) /\ T[t].lv = T[s].lv + 1 /\ i \in DOMAIN T[s].pte
  <2>1. n[t] = Number(n, T, s, i)
    BY <1>2, Zenon DEF Tree
  <2>2. T[t].lv = T[s].lv + 1
    BY <1>2, Zenon DEF TablesOK
  <2>3. i \in DOMAIN T[s].pte
    BY <1>2 DEF Points
  <2> QED
    BY <2>1, <2>2, <2>3
<1>4. T[s].lv \in 1..Levels /\ T[t].lv \in 1..Levels
  BY TreeTable
<1>5. Above(T[t].lv, v) = At(T[s].lv, v)
  BY <1>3, <1>4, AboveIs
<1>6. Under(n, T, s, i, v)
  BY <1>3, <1>5 DEF On, Under
<1>7. On(n, T, s, v) /\ Place(T[s].lv, v) = i
  BY <1>3, <1>6, UnderIs
<1> QED
  BY <1>2, <1>3, <1>7

\* A table on the way of an address to a table, whose entry leads on
Passes(L, n, T, k, v, s) ==
  /\ s \in L /\ T[s].lv = k /\ On(n, T, s, v)

Leads(T, s, v) == T[s].pte[Place(T[s].lv, v)].kind = "table"

LEMMA Ancestors ==
  ASSUME NEW T, TablesOK(T), NEW L, NEW n, Tree(L, n, T), NEW t \in L, NEW v \in Nat, On(n, T, t, v),
         NEW k \in 1..T[t].lv
  PROVE  \E s : Passes(L, n, T, k, v, s) /\ (k < T[t].lv => Leads(T, s, v))
<1>1. PICK l \in 1..Levels : l = T[t].lv
  BY TreeTable
<1>0. Levels \in Nat /\ l \in Nat /\ k \in Nat /\ k \in 1..l
  BY <1>1, CoversAre
<1> DEFINE D == {d \in 0..(l - 1) : ~\E s : Passes(L, n, T, l - d, v, s) /\ (d # 0 => Leads(T, s, v))}
<1>2. SUFFICES ASSUME D # {} PROVE FALSE
  <2>1. PICK d \in 0..(l - 1) : d = l - k /\ l - d = k
    BY <1>0
  <2>2. d \notin D
    BY <1>2
  <2>3. \E s : Passes(L, n, T, l - d, v, s) /\ (d # 0 => Leads(T, s, v))
    BY <2>2
  <2>4. d # 0 <=> k < l
    BY <1>0, <2>1
  <2> QED
    BY <1>1, <2>1, <2>3, <2>4
<1>3. D \in SUBSET Nat
  BY <1>0
<1>4. PICK d \in D : \A e \in D : d <= e
  BY <1>2, <1>3, LeastNat
<1>5. d \in 0..(l - 1) /\ ~\E s : Passes(L, n, T, l - d, v, s) /\ (d # 0 => Leads(T, s, v))
  OBVIOUS
<1>6. d # 0
  <2>1. Passes(L, n, T, l - 0, v, t)
    BY <1>0, <1>1 DEF Passes
  <2> QED
    BY <1>5, <2>1
<1>7. PICK e \in 0..(l - 1) : e = d - 1 /\ e \notin D
  <2>1. d - 1 \in 0..(l - 1) /\ ~(d <= d - 1)
    BY <1>0, <1>5, <1>6
  <2> QED
    BY <1>4, <2>1
<1>8. PICK s : Passes(L, n, T, l - e, v, s)
  BY <1>7
<1>9. s \in L /\ T[s].lv = l - e /\ On(n, T, s, v)
  BY <1>8 DEF Passes
<1>10. s # Root
  <2>1. T[Root].lv = 1
    BY DEF TablesOK
  <2>2. l - e # 1
    BY <1>0, <1>5, <1>7
  <2> QED
    BY <1>9, <2>1, <2>2
<1>11. PICK u \in L : T[u].lv + 1 = T[s].lv /\ On(n, T, u, v) /\ Points(T, u, Place(T[u].lv, v), s)
  BY <1>9, <1>10, ParentOn
<1>12. T[u].lv \in 1..Levels
  BY TreeTable
<1>13. T[u].lv = l - d
  BY <1>0, <1>5, <1>7, <1>9, <1>11, <1>12
<1>14. Passes(L, n, T, l - d, v, u)
  BY <1>11, <1>13 DEF Passes
<1>15. Leads(T, u, v)
  BY <1>11, EntryTypes DEF Leads, Points
<1> QED
  BY <1>5, <1>14, <1>15

\* On the way of an address there is one table of a level.
LEMMA OneTable ==
  ASSUME NEW T, NEW L, NEW n, Tree(L, n, T), NEW t \in L, NEW u \in L, NEW v, On(n, T, t, v), On(n, T, u, v),
         T[t].lv = T[u].lv
  PROVE  t = u
<1>1. n[t] = n[u]
  BY DEF On
<1> QED
  BY <1>1 DEF Tree

\* The way of an address ends at a page: a table on it leads on or has the page.
LEMMA Leaf ==
  ASSUME NEW T, TablesOK(T), NEW L, NEW n, Tree(L, n, T), NEW v \in Nat,
         NEW t \in L, On(n, T, t, v), NEW u \in L, NEW i, PageEntry(T, u, i), Under(n, T, u, i, v)
  PROVE  \/ t = u /\ i = Place(T[t].lv, v)
         \/ T[t].lv < T[u].lv /\ Leads(T, t, v)
<1>1. i \in DOMAIN T[u].pte /\ T[u].pte[i].kind = "page"
  BY DEF PageEntry
<1>2. On(n, T, u, v) /\ i = Place(T[u].lv, v)
  BY <1>1, UnderIs
<1>3. PICK k \in 1..Levels, l \in 1..Levels : k = T[t].lv /\ l = T[u].lv
  BY TreeTable
<1>4. CASE k = l
  <2>1. t = u
    BY <1>2, <1>3, <1>4, OneTable
  <2> QED
    BY <1>2, <2>1
<1>5. CASE k < l
  <2>1. k \in 1..l
    BY <1>3, <1>5
  <2>2. PICK s : Passes(L, n, T, k, v, s) /\ Leads(T, s, v)
    BY <1>2, <1>3, <1>5, <2>1, Ancestors
  <2>3. s = t
    BY <1>3, <2>2, OneTable DEF Passes
  <2> QED
    BY <1>3, <1>5, <2>2, <2>3
<1>6. CASE l < k
  <2>1. l \in 1..k
    BY <1>3, <1>6
  <2>2. PICK s : Passes(L, n, T, l, v, s) /\ Leads(T, s, v)
    BY <1>3, <1>6, <2>1, Ancestors
  <2>3. s = u
    BY <1>2, <1>3, <2>2, OneTable DEF Passes
  <2>4. T[u].pte[i].kind = "table"
    BY <1>2, <2>2, <2>3 DEF Leads
  <2> QED
    BY <1>1, <2>4
<1>7. k = l \/ k < l \/ l < k
  BY <1>3
<1> QED
  BY <1>4, <1>5, <1>6, <1>7

-----------------------------------------------------------------------------
(* What a device finds.                                                    *)

\* A level of the search of a device: the entry it finds at a level and its level
Start(T, v) == [entry |-> T[Root].pte[Place(1, v)], lv |-> 1]
Descends(T, up) == up.entry.kind = "table" /\ up.entry.addr \in DOMAIN T
Step(T, v, up, lv) ==
  IF Descends(T, up) THEN [entry |-> T[up.entry.addr].pte[Place(lv, v)], lv |-> lv] ELSE up

\* The search down to a level
Search(f, T, v, k) ==
  f = [lv \in 1..k |-> IF lv = 1 THEN Start(T, v) ELSE Step(T, v, f[lv - 1], lv)]

LEMMA SearchExists ==
  ASSUME NEW T, NEW v, NEW k \in 1..Levels
  PROVE  \E f : Search(f, T, v, k)
<1>0. Levels \in Nat \ {0}
  BY CoversAre
<1> DEFINE D == {j \in 1..Levels : ~\E f : Search(f, T, v, j)}
<1>1. SUFFICES ASSUME D # {} PROVE FALSE
  OBVIOUS
<1>2. D \in SUBSET Nat
  BY <1>0
<1>3. PICK j \in D : \A i \in D : j <= i
  BY <1>1, <1>2, LeastNat
<1>4. j \in 1..Levels /\ ~\E f : Search(f, T, v, j)
  OBVIOUS
<1>5. j # 1
  <2>1. SUFFICES ASSUME j = 1 PROVE FALSE
    OBVIOUS
  <2>2. PICK f : f = [lv \in 1..1 |-> Start(T, v)]
    OBVIOUS
  <2>3. f = [lv \in 1..1 |-> IF lv = 1 THEN Start(T, v) ELSE Step(T, v, f[lv - 1], lv)]
    <3>1. \A lv \in 1..1 : lv = 1
      OBVIOUS
    <3> QED
      BY <2>2, <3>1
  <2> QED
    BY <1>4, <2>1, <2>3 DEF Search
<1>6. PICK i \in 1..Levels : j = i + 1 /\ i \notin D
  <2>1. j - 1 \in 1..Levels /\ j = (j - 1) + 1 /\ ~(j <= j - 1)
    BY <1>0, <1>4, <1>5
  <2> QED
    BY <1>3, <2>1
<1>7. PICK g : Search(g, T, v, i)
  BY <1>6
<1>8. PICK z : z = Step(T, v, g[i], j)
  OBVIOUS
<1>9. PICK f : f = [lv \in 1..j |-> IF lv = j THEN z ELSE g[lv]]
  OBVIOUS
<1>10. ASSUME NEW lv \in 1..j
       PROVE f[lv] = IF lv = 1 THEN Start(T, v) ELSE Step(T, v, f[lv - 1], lv)
  <2>1. CASE lv = j
    <3>1. i \in 1..j /\ i # j /\ lv - 1 = i /\ lv # 1
      BY <1>0, <1>5, <1>6, <2>1
    <3>2. f[lv - 1] = g[i]
      BY <1>9, <3>1
    <3>3. f[lv] = z
      BY <1>9, <2>1
    <3> QED
      BY <1>8, <2>1, <3>1, <3>2, <3>3
  <2>2. CASE lv # j
    <3>1. lv \in 1..i
      BY <1>0, <1>6, <2>2
    <3>2. g[lv] = IF lv = 1 THEN Start(T, v) ELSE Step(T, v, g[lv - 1], lv)
      BY <1>7, <3>1 DEF Search
    <3>3. f[lv] = g[lv]
      BY <1>9, <2>2
    <3>4. lv # 1 => f[lv - 1] = g[lv - 1]
      <4>1. SUFFICES ASSUME lv # 1 PROVE f[lv - 1] = g[lv - 1]
        OBVIOUS
      <4>2. lv - 1 \in 1..j /\ lv - 1 # j
        BY <1>0, <1>6, <3>1, <4>1
      <4> QED
        BY <1>9, <4>2
    <3> QED
      BY <3>2, <3>3, <3>4
  <2> QED
    BY <2>1, <2>2
<1>11. PICK h : h = [lv \in 1..j |-> IF lv = 1 THEN Start(T, v) ELSE Step(T, v, f[lv - 1], lv)]
  OBVIOUS
<1>12. f = h
  BY <1>9, <1>10, <1>11
<1>13. Search(f, T, v, j)
  BY <1>11, <1>12 DEF Search
<1> QED
  BY <1>4, <1>13

LEMMA FoundIs == ASSUME NEW v PROVE Search(Found(v), tables, v, Levels)
<1>1. Found(v) = CHOOSE f : Search(f, tables, v, Levels)
  BY DEF Found, Search, Start, Step, Descends, Place, At
<1>2. Levels \in 1..Levels
  BY CoversAre
<1>3. \E f : Search(f, tables, v, Levels)
  BY <1>2, SearchExists, SMTT(60)
<1> QED
  BY <1>1, <1>3

\* An address is translated to another: it is under a page entry of a table of the tree.
Reaches(L, n, T, v, y) ==
  \E t \in L : \E i :
    /\ PageEntry(T, t, i) /\ Under(n, T, t, i, v)
    /\ y = T[t].pte[i].addr + (v % PteCovers[T[t].lv])

\* A search has come to the entry of a table, and goes on only from one that leads on.
ComesTo(L, n, T, v, e, lv, s) ==
  /\ s \in L /\ On(n, T, s, v) /\ T[s].lv <= lv
  /\ e = [entry |-> T[s].pte[Place(T[s].lv, v)], lv |-> T[s].lv]
  /\ T[s].lv < lv => ~Leads(T, s, v)

\* The table an entry on the way of an address leads to is on it.
LEMMA LeadsDown ==
  ASSUME NEW T, TablesOK(T), NEW L, NEW n, Tree(L, n, T), NEW v \in Nat, NEW s \in L, On(n, T, s, v),
         Leads(T, s, v), NEW a, a = T[s].pte[Place(T[s].lv, v)].addr
  PROVE  a \in L /\ a \in DOMAIN T /\ T[a].lv = T[s].lv + 1 /\ On(n, T, a, v)
         /\ Points(T, s, Place(T[s].lv, v), a)
<1>1. PICK l \in 1..Levels : l = T[s].lv
  BY TreeTable
<1>2. PICK i : i = Place(l, v)
  OBVIOUS
<1>3. s \in DOMAIN T /\ i \in DOMAIN T[s].pte /\ Under(n, T, s, i, v)
  BY <1>1, <1>2, TreeTable, UnderIs
<1>4. T[s].pte[i] \in EntryType /\ T[s].pte[i].kind = "table"
  BY <1>1, <1>2, <1>3, TreeTable DEF Leads
<1>5. T[s].pte[i] = TableAt(a)
  BY <1>1, <1>2, <1>4 DEF EntryType, TableAt
<1>6. Points(T, s, i, a)
  BY <1>3, <1>5 DEF Points
<1>7. a \in L /\ n[a] = Number(n, T, s, i)
  BY <1>6, ZenonT(60) DEF Tree
<1>8. a \in DOMAIN T /\ T[a].lv = l + 1
  <2>1. a \in DOMAIN T \ {Root} /\ T[a].lv = T[s].lv + 1
    BY <1>6, Zenon DEF TablesOK
  <2> QED
    BY <1>1, <2>1
<1>9. l + 1 \in 1..Levels
  BY <1>7, <1>8, TreeTable
<1>10. Above(l + 1, v) = At(l, v)
  BY <1>9, AboveIs
<1>11. On(n, T, a, v)
  BY <1>1, <1>3, <1>7, <1>8, <1>10 DEF On, Under
<1> QED
  BY <1>1, <1>2, <1>6, <1>7, <1>8, <1>11

LEMMA SearchComesTo ==
  ASSUME NEW T, TablesOK(T), NEW L, NEW n, Tree(L, n, T), NEW v \in Nat, On(n, T, Root, v),
         NEW f, Search(f, T, v, Levels), NEW lv \in 1..Levels
  PROVE  \E s : ComesTo(L, n, T, v, f[lv], lv, s)
<1>0. Levels \in Nat \ {0}
  BY CoversAre
<1>f. \A k \in 1..Levels : f[k] = IF k = 1 THEN Start(T, v) ELSE Step(T, v, f[k - 1], k)
  BY DEF Search
<1> DEFINE D == {k \in 1..Levels : ~\E s : ComesTo(L, n, T, v, f[k], k, s)}
<1>1. SUFFICES ASSUME D # {} PROVE FALSE
  OBVIOUS
<1>2. D \in SUBSET Nat
  BY <1>0
<1>3. PICK k \in D : \A j \in D : k <= j
  BY <1>1, <1>2, LeastNat
<1>4. k \in 1..Levels /\ ~\E s : ComesTo(L, n, T, v, f[k], k, s)
  OBVIOUS
<1>5. k # 1
  <2>1. SUFFICES ASSUME k = 1 PROVE FALSE
    OBVIOUS
  <2>2. Root \in L /\ T[Root].lv = 1
    BY DEF Tree, TablesOK
  <2>3. f[k] = Start(T, v)
    BY <1>4, <1>f, <2>1
  <2>4. ComesTo(L, n, T, v, f[k], k, Root)
    BY <2>1, <2>2, <2>3 DEF ComesTo, Start
  <2> QED
    BY <1>4, <2>4
<1>6. PICK j \in 1..Levels : k = j + 1 /\ j \notin D
  <2>1. k - 1 \in 1..Levels /\ k = (k - 1) + 1 /\ ~(k <= k - 1)
    BY <1>0, <1>4, <1>5
  <2> QED
    BY <1>3, <2>1
<1>7. PICK s : ComesTo(L, n, T, v, f[j], j, s)
  BY <1>6
<1>8. /\ s \in L /\ On(n, T, s, v) /\ T[s].lv <= j
      /\ f[j] = [entry |-> T[s].pte[Place(T[s].lv, v)], lv |-> T[s].lv]
      /\ T[s].lv < j => ~Leads(T, s, v)
  BY <1>7 DEF ComesTo
<1>9. f[k] = Step(T, v, f[j], k)
  <2>1. k - 1 = j
    BY <1>6
  <2> QED
    BY <1>4, <1>5, <1>f, <2>1
<1>10. T[s].lv \in 1..Levels /\ k \in Nat /\ j \in Nat
  BY <1>0, <1>8, TreeTable
<1>11. PICK e : e = T[s].pte[Place(T[s].lv, v)] /\ f[j].entry = e
  BY <1>8, SMTT(60)
<1>12. CASE Leads(T, s, v)
  <2>1. T[s].lv = j
    BY <1>8, <1>10, <1>12
  <2>2. /\ e.addr \in L /\ e.addr \in DOMAIN T /\ T[e.addr].lv = T[s].lv + 1
        /\ On(n, T, e.addr, v)
    BY <1>8, <1>11, <1>12, LeadsDown
  <2>3. Descends(T, f[j])
    BY <1>11, <1>12, <2>2, SMTT(60) DEF Descends, Leads
  <2>4. f[k] = [entry |-> T[e.addr].pte[Place(k, v)], lv |-> k]
    BY <1>9, <1>11, <2>3 DEF Step
  <2>5. T[e.addr].lv = k
    BY <1>6, <2>1, <2>2
  <2>6. ComesTo(L, n, T, v, f[k], k, e.addr)
    BY <1>10, <2>2, <2>4, <2>5 DEF ComesTo
  <2> QED
    BY <1>4, <2>6
<1>13. CASE ~Leads(T, s, v)
  <2>1. ~Descends(T, f[j])
    BY <1>11, <1>13 DEF Descends, Leads
  <2>2. f[k] = f[j]
    BY <1>9, <2>1 DEF Step
  <2>3. T[s].lv <= k
    BY <1>6, <1>8, <1>10
  <2>4. ComesTo(L, n, T, v, f[k], k, s)
    BY <1>8, <1>13, <2>2, <2>3 DEF ComesTo
  <2> QED
    BY <1>4, <2>4
<1> QED
  BY <1>12, <1>13

\* A device finds what the tree of the tables has for an address.
LEMMA TranslationIs ==
  ASSUME TablesOK(tables), NEW L, NEW n, Tree(L, n, tables), NEW v \in Nat, On(n, tables, Root, v)
  PROVE  /\ \A y : Reaches(L, n, tables, v, y) => Translation(v) = y
         /\ Translation(v) # -1 => Reaches(L, n, tables, v, Translation(v))
<1>1. PICK f : f = Found(v) /\ Search(f, tables, v, Levels)
  BY FoundIs
<1>2. Levels \in 1..Levels
  BY CoversAre
<1>3. PICK s : ComesTo(L, n, tables, v, f[Levels], Levels, s)
  BY <1>1, <1>2, SearchComesTo
<1>4. PICK l \in 1..Levels : l = tables[s].lv /\ s \in L /\ On(n, tables, s, v)
  BY <1>3, TreeTable DEF ComesTo
<1>5. PICK i : i = Place(l, v)
  OBVIOUS
<1>6. PICK e : e = tables[s].pte[i]
  OBVIOUS
<1>7. i \in DOMAIN tables[s].pte /\ Under(n, tables, s, i, v)
  BY <1>4, <1>5, UnderIs
<1>8. f[Levels] = [entry |-> e, lv |-> l]
  BY <1>3, <1>4, <1>5, <1>6 DEF ComesTo
<1>9. Translation(v) = IF e.kind = "page" THEN e.addr + (v % PteCovers[l]) ELSE -1
  BY <1>1, <1>8 DEF Translation
<1>10. l < Levels => e.kind # "table"
  BY <1>3, <1>4, <1>5, <1>6 DEF ComesTo, Leads
<1>11. ASSUME Translation(v) # -1 PROVE Reaches(L, n, tables, v, Translation(v))
  <2>1. e.kind = "page" /\ Translation(v) = e.addr + (v % PteCovers[l])
    BY <1>9, <1>11
  <2>2. PageEntry(tables, s, i)
    BY <1>6, <1>7, <2>1 DEF PageEntry
  <2> QED
    BY <1>4, <1>6, <1>7, <2>1, <2>2 DEF Reaches
<1>12. ASSUME NEW y, Reaches(L, n, tables, v, y) PROVE Translation(v) = y
  <2>1a. PICK t \in L : \E j : /\ PageEntry(tables, t, j) /\ Under(n, tables, t, j, v)
                               /\ y = tables[t].pte[j].addr + (v % PteCovers[tables[t].lv])
    BY <1>12, Zenon DEF Reaches
  <2>1. PICK j : /\ PageEntry(tables, t, j) /\ Under(n, tables, t, j, v)
                 /\ y = tables[t].pte[j].addr + (v % PteCovers[tables[t].lv])
    BY <2>1a
  <2>2. (s = t /\ j = i) \/ (l < tables[t].lv /\ e.kind = "table")
    <3>1. (s = t /\ j = Place(tables[s].lv, v)) \/ (tables[s].lv < tables[t].lv /\ Leads(tables, s, v))
      BY <1>4, <2>1, Leaf
    <3> QED
      BY <1>4, <1>5, <1>6, <3>1 DEF Leads
  <2>3. ~(l < tables[t].lv /\ e.kind = "table")
    <3>1. tables[t].lv \in 1..Levels /\ Levels \in Nat
      BY TreeTable, CoversAre
    <3> QED
      BY <1>10, <3>1
  <2>4. s = t /\ j = i
    BY <2>2, <2>3
  <2>5. e.kind = "page"
    BY <1>6, <2>1, <2>4 DEF PageEntry
  <2> QED
    BY <1>4, <1>6, <1>9, <2>1, <2>4, <2>5
<1> QED
  BY <1>11, <1>12

-----------------------------------------------------------------------------
(* Parts of ranges.                                                        *)

LEMMA PartIs ==
  ASSUME NEW r, NEW from, NEW to
  PROVE  /\ Part(r, from, to).va = r.va /\ Part(r, from, to).size = r.size
         /\ Part(r, from, to).pieces = r.pieces
         /\ Part(r, from, to).from = from /\ Part(r, from, to).to = to
  BY DEF Part

\* Two ranges
Disjoint(r, s) == r.va + r.size <= s.va \/ s.va + s.size <= r.va

LEMMA RangesApart ==
  ASSUME IInv
  PROVE  /\ \A r \in maps \cup lost : /\ r \in RangeType /\ r.va \in Nat /\ r.size \in Nat \ {0}
                                      /\ r.va + r.size <= Virtual
         /\ \A r, s \in maps \cup lost : r # s => Disjoint(r, s)
         /\ pc \in Claiming => \A r \in maps \cup lost : Disjoint(r, req)
<1>1. PICK own : own = maps \cup lost
  OBVIOUS
<1>2. /\ RangesOwned(own, pc \in Claiming, req, va) /\ HeapInv(va) /\ va.total = Virtual
  BY <1>1 DEF IInv, HeapsOK
<1>3. ASSUME NEW r \in own
      PROVE  /\ r \in RangeType /\ r.va \in Nat /\ r.size \in Nat \ {0} /\ r.va + r.size <= Virtual
             /\ IsTaken(va, r.va) /\ va.blocks[r.va].size = r.size
  <2>1. r \in RangeType /\ <<r.va, r.size>> \in Taken(va)
    BY <1>2 DEF RangesOwned, Extents
  <2> QED
    BY <1>2, <2>1, TakenFacts DEF RangeType
<1>4. ASSUME NEW r \in own, NEW s \in own, r # s PROVE Disjoint(r, s)
  <2>1. r.va # s.va
    BY <1>2, <1>4 DEF RangesOwned
  <2>2. IsTaken(va, r.va) /\ va.blocks[r.va].size = r.size /\ IsTaken(va, s.va) /\ va.blocks[s.va].size = s.size
    BY <1>3
  <2>3. r.va + va.blocks[r.va].size <= s.va \/ s.va + va.blocks[s.va].size <= r.va
    BY <1>2, <2>1, <2>2, TakenApart
  <2> QED
    BY <2>2, <2>3 DEF Disjoint
<1>5. ASSUME pc \in Claiming, NEW r \in own PROVE Disjoint(r, req)
  <2>0. (pc \in Claiming) = TRUE
    BY <1>5
  <2>1. RangesOwned(own, TRUE, req, va)
    BY <1>2, <2>0
  <2>2. r.va # req.va /\ <<req.va, req.size>> \in Taken(va)
    BY <2>1 DEF RangesOwned, Claimed
  <2>3. IsTaken(va, req.va) /\ va.blocks[req.va].size = req.size
    BY <1>2, <2>2, TakenFacts
  <2>4. IsTaken(va, r.va) /\ va.blocks[r.va].size = r.size
    BY <1>3
  <2>5. r.va + va.blocks[r.va].size <= req.va \/ req.va + va.blocks[req.va].size <= r.va
    BY <1>2, <2>2, <2>3, <2>4, TakenApart
  <2> QED
    BY <2>3, <2>4, <2>5 DEF Disjoint
<1> QED
  BY <1>1, <1>3, <1>4, <1>5

\* A part lies in its range.
LEMMA PartWithin ==
  ASSUME IInv, Straight(pc, walk, req), NEW p \in PartsOf(maps \cup lost, pc, walk, req)
  PROVE  /\ p.va \in Nat /\ p.size \in Nat /\ p.from \in Nat /\ p.to \in Nat
         /\ p.va <= p.from /\ p.to <= p.va + p.size
         /\ \/ \E r \in maps \cup lost : p = Whole(r) /\ p.va = r.va /\ p.size = r.size /\ p.pieces = r.pieces
            \/ /\ pc \in {"map", "unmap"} /\ p = Current(pc, walk, req)
               /\ p.va = req.va /\ p.size = req.size /\ p.pieces = req.pieces
<1>1. CASE \E r \in maps \cup lost : p = Whole(r)
  <2>1. PICK r \in maps \cup lost : p = Whole(r)
    BY <1>1
  <2>2. r.va \in Nat /\ r.size \in Nat
    BY RangesApart
  <2>3. p.va = r.va /\ p.size = r.size /\ p.from = r.va /\ p.to = r.va + r.size /\ p.pieces = r.pieces
    BY <2>1, PartIs DEF Whole
  <2> QED
    BY <2>1, <2>2, <2>3
<1>2. CASE pc \in {"map", "unmap"} /\ p = Current(pc, walk, req)
  <2>1. pc \in Traversing
    BY <1>2 DEF Traversing
  <2>2. walk.vaddr \in Nat /\ walk.size \in Int /\ req.va \in Nat /\ req.size \in Nat
    BY <2>1, WalkFacts
  <2>3. req.va <= walk.vaddr
    BY <2>1 DEF Straight
  <2>4. pc = "map" => walk.vaddr <= req.va + req.size
    <3>1. SUFFICES ASSUME pc = "map" PROVE walk.vaddr <= req.va + req.size
      OBVIOUS
    <3>2. walk.size \in Nat /\ walk.vaddr + walk.size <= req.va + req.size
      BY <2>1, <3>1, WalkFacts DEF Mapping
    <3> QED
      BY <2>2, <3>2
  <2>5. p.va = req.va /\ p.size = req.size /\ p.pieces = req.pieces
    BY <1>2, PartIs DEF Current
  <2>6. CASE pc = "map"
    <3>1. p.from = req.va /\ p.to = walk.vaddr
      BY <1>2, <2>6, PartIs DEF Current
    <3> QED
      BY <1>2, <2>2, <2>3, <2>4, <2>5, <2>6, <3>1
  <2>7. CASE pc # "map"
    <3>1. p.from = walk.vaddr /\ p.to = req.va + req.size
      BY <1>2, <2>7, PartIs DEF Current
    <3> QED
      BY <1>2, <2>2, <2>3, <2>5, <3>1
  <2> QED
    BY <2>6, <2>7
<1> QED
  BY <1>1, <1>2 DEF PartsOf

\* An address is in one part.
LEMMA OnePart ==
  ASSUME IInv, Straight(pc, walk, req), NEW p \in PartsOf(maps \cup lost, pc, walk, req),
         NEW q \in PartsOf(maps \cup lost, pc, walk, req), NEW v \in Nat, InPart(p, v), InPart(q, v)
  PROVE  p = q
<1>1. p.va <= v /\ v < p.va + p.size /\ q.va <= v /\ v < q.va + q.size
      /\ p.va \in Nat /\ p.size \in Nat /\ q.va \in Nat /\ q.size \in Nat
  <2>1. ASSUME NEW x \in PartsOf(maps \cup lost, pc, walk, req), InPart(x, v)
        PROVE x.va <= v /\ v < x.va + x.size /\ x.va \in Nat /\ x.size \in Nat
    <3>1. x.va \in Nat /\ x.size \in Nat /\ x.from \in Nat /\ x.to \in Nat /\ x.va <= x.from /\ x.to <= x.va + x.size
      BY <2>1, PartWithin
    <3>2. x.from <= v /\ v < x.to
      BY <2>1 DEF InPart
    <3> QED
      BY <3>1, <3>2
  <2>2. p.va <= v /\ v < p.va + p.size /\ p.va \in Nat /\ p.size \in Nat
    BY <2>1
  <2>3. q.va <= v /\ v < q.va + q.size /\ q.va \in Nat /\ q.size \in Nat
    BY <2>1
  <2> QED
    BY <2>2, <2>3
<1>a. ~Disjoint(p, q)
  BY <1>1 DEF Disjoint
<1>2. pc \in {"map", "unmap"} => pc \in Claiming
  BY DEF Claiming
<1>3. CASE \E r \in maps \cup lost : p = Whole(r) /\ p.va = r.va /\ p.size = r.size
  <2>1. PICK r \in maps \cup lost : p = Whole(r) /\ p.va = r.va /\ p.size = r.size
    BY <1>3
  <2>2. CASE \E s \in maps \cup lost : q = Whole(s) /\ q.va = s.va /\ q.size = s.size
    <3>1. PICK s \in maps \cup lost : q = Whole(s) /\ q.va = s.va /\ q.size = s.size
      BY <2>2
    <3>2. ~Disjoint(r, s)
      BY <1>a, <2>1, <3>1 DEF Disjoint
    <3> QED
      BY <2>1, <3>1, <3>2, RangesApart
  <2>3. CASE pc \in {"map", "unmap"} /\ q.va = req.va /\ q.size = req.size
    <3>1. ~Disjoint(r, req)
      BY <1>a, <2>1, <2>3 DEF Disjoint
    <3> QED
      BY <1>2, <2>1, <2>3, <3>1, RangesApart
  <2> QED
    BY <2>2, <2>3, PartWithin
<1>4. CASE pc \in {"map", "unmap"} /\ p = Current(pc, walk, req) /\ p.va = req.va /\ p.size = req.size
  <2>2. CASE \E s \in maps \cup lost : q = Whole(s) /\ q.va = s.va /\ q.size = s.size
    <3>1. PICK s \in maps \cup lost : q = Whole(s) /\ q.va = s.va /\ q.size = s.size
      BY <2>2
    <3>2. ~Disjoint(s, req)
      BY <1>a, <1>4, <3>1 DEF Disjoint
    <3> QED
      BY <1>2, <1>4, <3>1, <3>2, RangesApart
  <2>3. CASE q = Current(pc, walk, req)
    BY <1>4, <2>3
  <2> QED
    BY <2>2, <2>3, PartWithin
<1> QED
  BY <1>3, <1>4, PartWithin

\* What a valloc has not mapped yet is in no part.
LEMMA NotMappedYet ==
  ASSUME IInv, Straight(pc, walk, req), pc \in {"inspect", "map"}, NEW v \in Nat,
         walk.vaddr <= v, v < req.va + req.size
  PROVE  v \notin Used(PartsOf(maps \cup lost, pc, walk, req))
<1>0. pc \in Traversing /\ pc \in Claiming
  BY DEF Traversing, Claiming
<1>1. req.va <= v /\ req.va \in Nat /\ req.size \in Nat /\ walk.vaddr \in Nat
  <2>1. req.va <= walk.vaddr
    BY <1>0 DEF Straight
  <2>2. req.va \in Nat /\ req.size \in Nat /\ walk.vaddr \in Nat
    BY <1>0, WalkFacts
  <2> QED
    BY <2>1, <2>2
<1>2. SUFFICES ASSUME NEW p \in PartsOf(maps \cup lost, pc, walk, req), InPart(p, v) PROVE FALSE
  BY DEF Used
<1>3. p.va <= v /\ v < p.va + p.size /\ p.va \in Nat /\ p.size \in Nat
  BY <1>2, PartWithin DEF InPart
<1>4. CASE \E r \in maps \cup lost : p = Whole(r) /\ p.va = r.va /\ p.size = r.size
  <2>1. PICK r \in maps \cup lost : p.va = r.va /\ p.size = r.size
    BY <1>4
  <2>2. Disjoint(r, req)
    BY <1>0, RangesApart
  <2> QED
    BY <1>1, <1>2, <1>3, <2>1, <2>2 DEF Disjoint
<1>5. CASE pc \in {"map", "unmap"} /\ p = Current(pc, walk, req)
  <2>1. p.to = walk.vaddr
    BY <1>5, PartIs DEF Current
  <2> QED
    BY <1>1, <1>2, <2>1 DEF InPart
<1> QED
  BY <1>4, <1>5, PartWithin

-----------------------------------------------------------------------------
(* What is mapped when calls come and go.                                  *)

\* Every part that is not empty is in a part of the same range.
SameRange(p, q) == q.va = p.va /\ q.size = p.size /\ q.pieces = p.pieces
Within(p, q) == SameRange(p, q) /\ \A v \in Nat : InPart(p, v) => InPart(q, v)
Grows(P, Q) == \A p \in P : \A v \in Nat : InPart(p, v) => \E q \in Q : Within(p, q)

LEMMA SubsetGrows == ASSUME NEW P, NEW Q, P \subseteq Q PROVE Grows(P, Q)
  BY DEF Grows, Within, SameRange

LEMMA UsedGrows == ASSUME NEW P, NEW Q, Grows(P, Q) PROVE Used(P) \subseteq Used(Q)
<1>1. SUFFICES ASSUME NEW v \in Used(P) PROVE v \in Used(Q)
  OBVIOUS
<1>2. PICK p \in P : v \in Nat /\ InPart(p, v)
  BY DEF Used
<1>3. PICK q \in Q : Within(p, q)
  BY <1>2 DEF Grows
<1> QED
  BY <1>2, <1>3 DEF Used, Within

LEMMA PhysKept == ASSUME NEW p, NEW q, SameRange(p, q), NEW v, NEW y, Phys(p, v, y) PROVE Phys(q, v, y)
  BY DEF Phys, SameRange

LEMMA BackedKept ==
  ASSUME NEW n, NEW T, NEW t, NEW i, NEW p, NEW q, Within(p, q), Backed(n, T, t, i, p)
  PROVE  Backed(n, T, t, i, q)
<1>1. SUFFICES ASSUME NEW v \in Nat, Under(n, T, t, i, v)
               PROVE  InPart(q, v) /\ Phys(q, v, T[t].pte[i].addr + (v % PteCovers[T[t].lv]))
  BY DEF Backed
<1>2. InPart(p, v) /\ Phys(p, v, T[t].pte[i].addr + (v % PteCovers[T[t].lv]))
  BY <1>1 DEF Backed
<1> QED
  BY <1>2, PhysKept DEF Within

LEMMA RightKept ==
  ASSUME NEW T, TablesOK(T), NEW L, NEW n, Tree(L, n, T), NEW P, NEW Q, Right(L, n, T, P), Grows(P, Q)
  PROVE  Right(L, n, T, Q)
<1>1. SUFFICES ASSUME NEW t \in L, NEW i, PageEntry(T, t, i) PROVE \E q \in Q : Backed(n, T, t, i, q)
  BY DEF Right
<1>2. PICK p \in P : Backed(n, T, t, i, p)
  BY <1>1 DEF Right
<1>3. i \in DOMAIN T[t].pte
  BY <1>1 DEF PageEntry
<1>4. PICK v \in Nat : Under(n, T, t, i, v)
  BY <1>3, EntryAddress
<1>5. InPart(p, v)
  BY <1>2, <1>4 DEF Backed
<1>6. PICK q \in Q : Within(p, q)
  BY <1>5 DEF Grows
<1> QED
  BY <1>2, <1>6, BackedKept

LEMMA MetKept ==
  ASSUME NEW L, NEW n, NEW T, NEW X, NEW V, Met(L, n, T, X, V), NEW Y, NEW W, X \subseteq Y, V \subseteq W
  PROVE  Met(L, n, T, Y, W)
  BY DEF Met

LEMMA CoveredKept ==
  ASSUME NEW L, NEW n, NEW T, NEW V, Covered(L, n, T, V), NEW W, W \subseteq V
  PROVE  Covered(L, n, T, W)
  BY DEF Covered

\* A step that leaves the tables alone
LEMMA MapsMove ==
  ASSUME NEW T, TablesOK(T), NEW L, NEW n, NEW p, NEW w, NEW r, NEW ms, NEW ls,
         Maps(L, n, T, p, w, r, ms, ls),
         NEW p2, NEW w2, NEW r2, NEW ms2, NEW ls2,
         Grows(PartsOf(ms \cup ls, p, w, r), PartsOf(ms2 \cup ls2, p2, w2, r2)),
         Used(PartsOf(ms2, p2, w2, r2)) \subseteq Used(PartsOf(ms, p, w, r)),
         Met(L, n, T, Excused(p2, w2), Used(PartsOf(ms2 \cup ls2, p2, w2, r2))),
         p2 \in Traversing => Follows(L, n, T, w2.stack, w2.vaddr)
  PROVE  Maps(L, n, T, p2, w2, r2, ms2, ls2)
<1>1. Tree(L, n, T)
  BY DEF Maps
<1>2. Right(L, n, T, PartsOf(ms2 \cup ls2, p2, w2, r2))
  <2>1. Right(L, n, T, PartsOf(ms \cup ls, p, w, r))
    BY DEF Maps
  <2> QED
    BY <1>1, <2>1, RightKept
<1>3. Covered(L, n, T, Used(PartsOf(ms2, p2, w2, r2)))
  <2>1. Covered(L, n, T, Used(PartsOf(ms, p, w, r)))
    BY DEF Maps
  <2> QED
    BY <2>1, CoveredKept
<1> QED
  BY <1>1, <1>2, <1>3, Zenon DEF Maps

LEMMA MapsWider ==
  ASSUME NEW T, TablesOK(T), NEW L, NEW n, NEW p, NEW w, NEW r, NEW ms, NEW ls,
         Maps(L, n, T, p, w, r, ms, ls),
         NEW p2, NEW w2, NEW r2, NEW ms2, NEW ls2,
         Grows(PartsOf(ms \cup ls, p, w, r), PartsOf(ms2 \cup ls2, p2, w2, r2)),
         Used(PartsOf(ms2, p2, w2, r2)) \subseteq Used(PartsOf(ms, p, w, r)),
         Excused(p, w) \subseteq Excused(p2, w2),
         p2 \in Traversing => Follows(L, n, T, w2.stack, w2.vaddr)
  PROVE  Maps(L, n, T, p2, w2, r2, ms2, ls2)
<1>1. Met(L, n, T, Excused(p, w), Used(PartsOf(ms \cup ls, p, w, r)))
  BY DEF Maps
<1>2. Used(PartsOf(ms \cup ls, p, w, r)) \subseteq Used(PartsOf(ms2 \cup ls2, p2, w2, r2))
  BY UsedGrows
<1>3. Met(L, n, T, Excused(p2, w2), Used(PartsOf(ms2 \cup ls2, p2, w2, r2)))
  BY <1>1, <1>2, MetKept
<1> QED
  BY <1>3, MapsMove

\* Outside of the loops that map and unmap the parts are the ranges.
LEMMA PartsOutside ==
  ASSUME NEW own, NEW p, p \notin {"map", "unmap"}, NEW w, NEW r
  PROVE  PartsOf(own, p, w, r) = {Whole(o) : o \in own} /\ Excused(p, w) = {}
  BY DEF PartsOf, Excused

\* Calls that leave the tables and the ranges alone
LEMMA MapsSame ==
  ASSUME NEW T, TablesOK(T), NEW L, NEW n, NEW p, NEW w, NEW r, NEW ms, NEW ls,
         Maps(L, n, T, p, w, r, ms, ls), p \notin {"map", "unmap"},
         NEW p2, NEW w2, NEW r2, p2 \notin {"map", "unmap"},
         p2 \in Traversing => Follows(L, n, T, w2.stack, w2.vaddr)
  PROVE  Maps(L, n, T, p2, w2, r2, ms, ls)
<1>1. PartsOf(ms \cup ls, p, w, r) = PartsOf(ms \cup ls, p2, w2, r2)
  BY DEF PartsOf
<1>2. PartsOf(ms, p, w, r) = PartsOf(ms, p2, w2, r2)
  BY DEF PartsOf
<1>3. Excused(p, w) = {} /\ Excused(p2, w2) = {}
  BY PartsOutside
<1>4. Grows(PartsOf(ms \cup ls, p, w, r), PartsOf(ms \cup ls, p2, w2, r2))
  BY <1>1, SubsetGrows
<1> QED
  BY <1>2, <1>3, <1>4, MapsWider

\* A range is lost: its addresses are not missed.
LEMMA MapsLose ==
  ASSUME NEW T, TablesOK(T), NEW L, NEW n, NEW p, NEW w, NEW r, NEW ms, NEW ls,
         Maps(L, n, T, p, w, r, ms, ls), p \notin {"map", "unmap"},
         NEW p2, NEW w2, NEW r2, p2 \notin {"map", "unmap"}, p2 \notin Traversing, NEW ls2, ls \subseteq ls2
  PROVE  Maps(L, n, T, p2, w2, r2, ms, ls2)
<1>1. PartsOf(ms \cup ls, p, w, r) \subseteq PartsOf(ms \cup ls2, p2, w2, r2)
  <2>1. ms \cup ls \subseteq ms \cup ls2
    OBVIOUS
  <2>2. PartsOf(ms \cup ls, p, w, r) = {Whole(o) : o \in ms \cup ls}
    BY PartsOutside, Zenon
  <2>3. PartsOf(ms \cup ls2, p2, w2, r2) = {Whole(o) : o \in ms \cup ls2}
    BY PartsOutside, Zenon
  <2> QED
    BY <2>1, <2>2, <2>3
<1>2. PartsOf(ms, p, w, r) = PartsOf(ms, p2, w2, r2)
  BY DEF PartsOf
<1>3. Excused(p, w) = {} /\ Excused(p2, w2) = {}
  BY PartsOutside
<1>4. Grows(PartsOf(ms \cup ls, p, w, r), PartsOf(ms \cup ls2, p2, w2, r2))
  BY <1>1, SubsetGrows
<1> QED
  BY <1>2, <1>3, <1>4, MapsWider

-----------------------------------------------------------------------------
(* The steps of a call around the traversals.                              *)

\* The addresses of a traversal are under the root.
LEMMA RootOn ==
  ASSUME NEW T, TablesOK(T), NEW L, NEW n, Tree(L, n, T), NEW v \in Nat, v < Virtual + PteCovers[1]
  PROVE  On(n, T, Root, v)
<1>1. 1 \in 1..Levels /\ T[Root].lv = 1 /\ n[Root] = 0
  BY CoversAre DEF TablesOK, Tree
<1>2. PICK c \in Nat \ {0}, m \in Nat \ {0} : c = PteCovers[1] /\ m = PteCnt[1]
  BY <1>1, CoversAre
<1>3. PICK e \in Nat : e = At(1, v) /\ e * c <= v /\ e * c = c * e
  BY <1>1, <1>2, AtIs
<1>4. v < c * m
  <2>1. Virtual <= c * (m - 1) /\ Virtual \in Nat
    BY <1>2, VirtualMemoryAssumption
  <2>2. c * (m - 1) + c = c * m /\ c * (m - 1) \in Nat
    <3>1. PICK k \in Nat : k = m - 1 /\ m = k + 1
      BY <1>2
    <3>2. c * (k + 1) = c * k + c /\ c * k \in Nat
      OBVIOUS
    <3> QED
      BY <3>1, <3>2
  <2>3. v < Virtual + c
    BY <1>2
  <2> QED
    BY <2>1, <2>2, <2>3
<1>5. e < m
  <2>1. SUFFICES ASSUME m <= e PROVE FALSE
    BY <1>2, <1>3
  <2>2. c * m <= c * e
    BY <2>1, Multiply
  <2>3. PICK a \in Nat, b \in Nat : a = c * m /\ b = c * e
    BY <1>2
  <2> QED
    BY <1>3, <1>4, <2>2, <2>3
<1>6. e \in 0..(PteCnt[1] - 1) /\ At(1, v) = 0 * PteCnt[1] + e
  <2>1. 0 * m = 0
    OBVIOUS
  <2> QED
    BY <1>2, <1>3, <1>5, <2>1
<1>7. Above(1, v) = 0
  BY <1>1, <1>6, Digits
<1> QED
  BY <1>1, <1>7 DEF On

LEMMA FollowsStart ==
  ASSUME NEW T, TablesOK(T), NEW L, NEW n, Tree(L, n, T), NEW v \in Nat, v < Virtual + PteCovers[1],
         NEW w, w.stack = Traversal(v).stack
  PROVE  Follows(L, n, T, w.stack, v)
<1>1. PICK j : j = Place(1, v)
  OBVIOUS
<1>2. w.stack = <<[pt |-> Root, idx |-> j]>>
  BY <1>1 DEF Traversal, Place, At
<1>3. Len(w.stack) = 1 /\ w.stack[1].pt = Root /\ w.stack[1].idx = j
  BY <1>2
<1>4. On(n, T, Root, v) /\ Root \in L /\ T[Root].lv = 1
  BY RootOn DEF Tree, TablesOK
<1>5. j \in DOMAIN T[Root].pte
  BY <1>1, <1>4, UnderIs
<1>6. Under(n, T, Root, j, v)
  BY <1>1, <1>4, <1>5, UnderIs
<1>7. At(1, v) = Number(n, T, Root, j)
  BY <1>4, <1>6 DEF Under
<1> QED
  BY <1>3, <1>4, <1>7 DEF Follows

\* What a call has claimed
LEMMA ClaimIs ==
  ASSUME IInv, pc \in Claiming
  PROVE  /\ req \in ReqType /\ req.va \in Nat /\ req.size \in Nat \ {0} /\ req.va + req.size <= Virtual
         /\ req.va < Virtual + PteCovers[1]
         /\ pc \in Providing => Paged(req.va) /\ Paged(req.size)
<1>1. req \in ReqType /\ req.va \in Nat /\ req.size \in Nat
  BY ReqIs DEF IInv, TypeOK
<1>2. req.size # 0 /\ req.va + req.size <= Virtual
  BY DEF IInv, ReqOK
<1>3. pc \in Providing => Paged(req.va) /\ Paged(req.size)
  BY DEF IInv, ReqOK
<1>4. Virtual \in Nat /\ PteCovers[1] \in Nat \ {0}
  BY VirtualMemoryAssumption, CoversAre
<1>5. req.va < Virtual + PteCovers[1]
  BY <1>1, <1>2, <1>4
<1> QED
  BY <1>1, <1>2, <1>3, <1>5

LEMMA LoopsApart ==
  /\ \A p : p \notin Traversing => p \notin {"map", "unmap"} /\ p # "map" /\ p # "unmap"
  /\ "inspect" \in Traversing /\ "map" \in Traversing /\ "unmap" \in Traversing
  /\ "idle" \notin Traversing /\ "contiguous" \notin Traversing /\ "palloc" \notin Traversing
  /\ "release" \notin Traversing
  /\ Providing \subseteq Claiming
  BY DEF Traversing, Providing, Claiming

LEMMA SteadySame == ASSUME TInv, UNCHANGED <<pc, req, walk, tables, maps, lost>> PROVE Steady'
  BY DEF TInv, Steady

\* A step before or after the traversals
LEMMA SteadyCall ==
  ASSUME TInv, pc \notin Traversing, pc' \notin Traversing, UNCHANGED <<walk, tables, maps>>,
         lost \subseteq lost', PagedRanges(maps \cup lost')
  PROVE  Steady'
<1>1. TablesOK(tables)
  BY DEF TInv, IInv
<1>2. PICK L, n : Maps(L, n, tables, pc, walk, req, maps, lost)
  BY DEF TInv, Steady
<1>3. Maps(L, n, tables, pc', walk', req', maps, lost')
  BY <1>1, <1>2, LoopsApart, MapsLose
<1>4. Straight(pc', walk', req')
  <2>1. walk = NoWalk
    BY DEF TInv, Steady, Straight
  <2>2. pc' # "map" /\ pc' # "unmap"
    BY LoopsApart
  <2> QED
    BY <2>1, <2>2 DEF Straight
<1>5. \E L2, n2 : Maps(L2, n2, tables', pc', walk', req', maps', lost')
  BY <1>3
<1> QED
  BY <1>4, <1>5 DEF Steady

\* The ranges are of whole pages, and one that a call loses is.
LEMMA LostPaged ==
  ASSUME TInv, pc \in Providing, NEW r, r.va = req.va, r.size = req.size,
         lost' = lost \cup {[va |-> r.va, size |-> r.size, pieces |-> r.pieces]}
  PROVE  PagedRanges(maps \cup lost') /\ lost \subseteq lost'
<1>1. Paged(req.va) /\ Paged(req.size)
  BY ClaimIs, LoopsApart DEF TInv
<1>2. PagedRanges(maps \cup lost)
  BY DEF TInv, Steady
<1> QED
  BY <1>1, <1>2 DEF PagedRanges

LEMMA SteadyVallocs ==
  ASSUME TInv,
         \/ \E size \in Sizes, contiguous \in BOOLEAN : Valloc(size, contiguous)
         \/ TakePiece \/ SmallerRange \/ Release \/ Released
  PROVE  Steady'
<1>1. pc \in {"idle", "palloc", "release"} /\ pc' \in {"idle", "contiguous", "palloc", "release"}
      /\ UNCHANGED <<walk, tables, maps, lost>>
  BY DEF Valloc, TakePiece, SmallerRange, Release, Released, Ready
<1>2. pc \notin Traversing /\ pc' \notin Traversing
  BY <1>1, LoopsApart
<1>3. lost \subseteq lost' /\ PagedRanges(maps \cup lost')
  BY <1>1 DEF TInv, Steady
<1> QED
  BY <1>1, <1>2, <1>3, SteadyCall, SMTT(60)

LEMMA SteadyContiguousRaises == ASSUME TInv, ContiguousRaises PROVE Steady'
<1>1. pc = "contiguous" /\ pc' = "idle" /\ UNCHANGED <<walk, tables, maps>>
      /\ lost' = lost \cup {[va |-> req.va, size |-> req.size, pieces |-> req.pieces]}
  BY DEF ContiguousRaises, Ready, Lose
<1>2. pc \notin Traversing /\ pc' \notin Traversing /\ pc \in Providing
  BY <1>1 DEF Traversing, Providing
<1>3. lost \subseteq lost' /\ PagedRanges(maps \cup lost')
  BY <1>1, <1>2, LostPaged
<1> QED
  BY <1>1, <1>2, <1>3, SteadyCall

LEMMA SteadyGiveUp == ASSUME TInv, GiveUp PROVE Steady'
<1>1. PICK r : r = [req EXCEPT !.pieces = <<>>]
  OBVIOUS
<1>2. pc = "palloc" /\ pc' = "release" /\ UNCHANGED <<walk, tables, maps>>
      /\ lost' = lost \cup {[va |-> r.va, size |-> r.size, pieces |-> r.pieces]}
  BY <1>1 DEF GiveUp, Ready, Lose
<1>3. pc \notin Traversing /\ pc' \notin Traversing /\ pc \in Providing
  BY <1>2 DEF Traversing, Providing
<1>4. r.va = req.va /\ r.size = req.size
  <2>1. req \in ReqType
    BY DEF TInv, IInv, TypeOK
  <2> QED
    BY <1>1, <2>1 DEF ReqType
<1>5. lost \subseteq lost' /\ PagedRanges(maps \cup lost')
  BY <1>2, <1>3, <1>4, LostPaged
<1> QED
  BY <1>2, <1>3, <1>5, SteadyCall

\* A traversal of a range starts
LEMMA InspectionStarts ==
  ASSUME NEW T, TablesOK(T), NEW r, r.va \in Nat, NEW w, w = Inspection(r)
  PROVE  /\ w.vaddr = r.va /\ w.size = r.size /\ w.up = FALSE /\ w.stack = Traversal(r.va).stack
<1>1. Traversal(r.va) \in WalkType /\ Traversal(r.va).vaddr = r.va /\ Traversal(r.va).up = FALSE
  BY TraversalIs
<1> QED
  BY <1>1 DEF Inspection, WalkType

LEMMA SteadyInspects == ASSUME TInv, AllocContiguous \/ MapPieces PROVE Steady'
<1>1. /\ pc \in {"contiguous", "palloc"} /\ pc' = "inspect" /\ walk' = Inspection(req)
      /\ UNCHANGED <<tables, maps, lost>>
  BY DEF AllocContiguous, MapPieces, Ready
<1>0. IInv
  BY DEF TInv
<1>2. pc \in Claiming /\ pc \notin Traversing /\ pc' \in Traversing /\ pc' \notin {"map", "unmap"}
  BY <1>1 DEF Claiming, Traversing
<1>3. req \in ReqType /\ req.va \in Nat /\ req.va < Virtual + PteCovers[1]
  BY <1>0, <1>2, ClaimIs
<1>4. req'.va = req.va
  <2>1. CASE AllocContiguous
    BY <1>3, <2>1 DEF AllocContiguous, ReqType
  <2>2. CASE MapPieces
    BY <2>2 DEF MapPieces
  <2> QED
    BY <2>1, <2>2
<1>5. TablesOK(tables)
  BY <1>0 DEF IInv
<1>6. walk'.vaddr = req.va /\ walk'.stack = Traversal(req.va).stack
  BY <1>1, <1>3, <1>5, InspectionStarts
<1>7. PICK L, n : Maps(L, n, tables, pc, walk, req, maps, lost)
  BY DEF TInv, Steady
<1>8. Follows(L, n, tables, walk'.stack, walk'.vaddr)
  <2>1. Tree(L, n, tables)
    BY <1>7 DEF Maps
  <2> QED
    BY <1>3, <1>5, <1>6, <2>1, FollowsStart
<1>9. Maps(L, n, tables, pc', walk', req', maps, lost)
  BY <1>2, <1>5, <1>7, <1>8, LoopsApart, MapsSame
<1>10. Straight(pc', walk', req')
  BY <1>1, <1>2, <1>3, <1>4, <1>6 DEF Straight
<1>11. PagedRanges(maps \cup lost)
  BY DEF TInv, Steady
<1>12. \E L2, n2 : Maps(L2, n2, tables', pc', walk', req', maps', lost')
  BY <1>1, <1>9
<1> QED
  BY <1>1, <1>10, <1>11, <1>12 DEF Steady

\* The range of a valloc is its part when all is mapped, and that of a vfree before any is unmapped.
LEMMA WholePart ==
  ASSUME NEW r, NEW s, s.va = r.va, s.size = r.size, s.pieces = r.pieces
  PROVE  Part(r, r.va, r.va + r.size) = Whole(s)
  BY DEF Part, Whole

\* The parts but for that of the call
LEMMA PartsInside ==
  ASSUME NEW own, NEW p, p \in {"map", "unmap"}, NEW w, NEW r
  PROVE  PartsOf(own, p, w, r) = {Whole(o) : o \in own} \cup {Current(p, w, r)}
  BY DEF PartsOf

LEMMA SteadyInspected == ASSUME TInv, Inspected PROVE Steady'
<1>1. /\ pc = "inspect" /\ pc' = "map" /\ walk' = Traversal(req.va)
      /\ UNCHANGED <<req, tables, maps, lost>>
  BY DEF Inspected, Passed, Ready
<1>0. IInv /\ TablesOK(tables)
  BY DEF TInv, IInv
<1>2. pc \in Claiming /\ pc \notin {"map", "unmap"}
  BY <1>1 DEF Claiming
<1>3. req.va \in Nat /\ req.va < Virtual + PteCovers[1]
  BY <1>0, <1>2, ClaimIs
<1>4. PICK w : w = Traversal(req.va)
  OBVIOUS
<1>5. w.vaddr = req.va /\ w.up = FALSE /\ w.size = 0 /\ w.piece = 0 /\ w.stack = Traversal(req.va).stack
  BY <1>0, <1>3, <1>4, TraversalIs
<1>6. PICK L, n : Maps(L, n, tables, pc, walk, req, maps, lost)
  BY DEF TInv, Steady
<1>7. Follows(L, n, tables, w.stack, w.vaddr)
  <2>1. Tree(L, n, tables)
    BY <1>6 DEF Maps
  <2> QED
    BY <1>0, <1>3, <1>5, <2>1, FollowsStart
<1>8. ASSUME NEW v \in Nat PROVE ~InPart(Current("map", w, req), v)
  <2>1. Current("map", w, req).from = req.va /\ Current("map", w, req).to = req.va
    BY <1>5, PartIs DEF Current
  <2> QED
    BY <1>3, <2>1 DEF InPart
<1>9. ASSUME NEW own
      PROVE  /\ PartsOf(own, pc, walk, req) = {Whole(o) : o \in own}
             /\ PartsOf(own, "map", w, req) = {Whole(o) : o \in own} \cup {Current("map", w, req)}
  <2>1. PartsOf(own, pc, walk, req) = {Whole(o) : o \in own}
    BY <1>2, PartsOutside
  <2>2. PartsOf(own, "map", w, req) = {Whole(o) : o \in own} \cup {Current("map", w, req)}
    BY PartsInside
  <2> QED
    BY <2>1, <2>2
<1>10. Grows(PartsOf(maps \cup lost, pc, walk, req), PartsOf(maps \cup lost, "map", w, req))
  BY <1>9, SubsetGrows
<1>11. Used(PartsOf(maps, "map", w, req)) \subseteq Used(PartsOf(maps, pc, walk, req))
  BY <1>8, <1>9 DEF Used
<1>12. Excused(pc, walk) = {}
  BY <1>2, PartsOutside
<1>13. Maps(L, n, tables, "map", w, req, maps, lost)
  BY <1>0, <1>6, <1>7, <1>10, <1>11, <1>12, MapsWider
<1>14. Straight("map", w, req)
  BY <1>3, <1>5, LoopsApart DEF Straight
<1>15. PagedRanges(maps \cup lost)
  BY DEF TInv, Steady
<1>16. \E L2, n2 : Maps(L2, n2, tables', pc', walk', req', maps', lost')
  BY <1>1, <1>4, <1>13
<1> QED
  BY <1>1, <1>4, <1>14, <1>15, <1>16 DEF Steady

LEMMA SteadyNextPiece == ASSUME TInv, NextPiece PROVE Steady'
<1>1. /\ pc = "map" /\ pc' = "map" /\ ~walk.up /\ walk.size <= 0
      /\ walk' = [walk EXCEPT !.piece = @ + 1, !.size = req.pieces[walk.piece + 1][2], !.off = 0]
      /\ UNCHANGED <<req, tables, maps, lost>>
  BY DEF NextPiece, Passed, Ready
<1>0. IInv /\ TablesOK(tables) /\ pc \in Traversing
  BY <1>1, LoopsApart DEF TInv, IInv
<1>2. /\ walk \in WalkType /\ walk.size = 0 /\ walk.vaddr \in Nat /\ req.va <= walk.vaddr
      /\ walk.piece \in Nat
  <2>1. walk \in WalkType /\ walk.vaddr \in Nat /\ walk.piece \in Nat /\ walk.size \in Nat
    BY <1>0, <1>1, WalkFacts DEF Mapping
  <2> QED
    BY <1>0, <1>1, <2>1 DEF TInv, Steady, Straight
<1>3. PICK z : z = req.pieces[walk.piece + 1][2]
  OBVIOUS
<1>z. z \in Nat
  <2>1. walk.piece + 1 \in DOMAIN req.pieces
    <3>1. walk.piece < Len(req.pieces) /\ req.pieces \in Seq(PieceType)
      BY <1>0, WalkFacts, ReqIs DEF NextPiece
    <3>2. Len(req.pieces) \in Nat /\ DOMAIN req.pieces = 1..Len(req.pieces)
      BY <3>1, LenProperties
    <3> QED
      BY <1>2, <3>1, <3>2
  <2>2. PiecesOK(req.pieces)
    BY <1>0 DEF IInv, PiecesOwned, PiecesApart
  <2> QED
    BY <1>3, <2>1, <2>2, PieceIs
<1>4. PICK w : w = walk'
  OBVIOUS
<1>5. w.vaddr = walk.vaddr /\ w.size = z /\ w.off = 0 /\ w.piece = walk.piece + 1 /\ w.stack = walk.stack
  BY <1>1, <1>2, <1>3, <1>4 DEF WalkType
<1>6. PICK L, n : Maps(L, n, tables, "map", walk, req, maps, lost)
  BY <1>1 DEF TInv, Steady
<1>7. Follows(L, n, tables, w.stack, w.vaddr)
  BY <1>5, <1>6, LoopsApart DEF Maps
<1>8. Current("map", w, req) = Current("map", walk, req)
  BY <1>5 DEF Current
<1>9. ASSUME NEW own PROVE PartsOf(own, "map", walk, req) = PartsOf(own, "map", w, req)
  BY <1>8 DEF PartsOf
<1>10. Grows(PartsOf(maps \cup lost, "map", walk, req), PartsOf(maps \cup lost, "map", w, req))
  BY <1>9, SubsetGrows
<1>11. Used(PartsOf(maps, "map", w, req)) \subseteq Used(PartsOf(maps, "map", walk, req))
  BY <1>9
<1>12. Excused("map", walk) = {}
  BY <1>2 DEF Excused
<1>13. Maps(L, n, tables, "map", w, req, maps, lost)
  BY <1>0, <1>6, <1>7, <1>10, <1>11, <1>12, MapsWider
<1>14. Straight("map", w, req)
  <2>1. w.off + w.size = req.pieces[w.piece][2]
    BY <1>3, <1>5, <1>z
  <2> QED
    BY <1>2, <1>5, <2>1, LoopsApart DEF Straight
<1>15. PagedRanges(maps \cup lost)
  BY DEF TInv, Steady
<1>16. \E L2, n2 : Maps(L2, n2, tables', pc', walk', req', maps', lost')
  BY <1>1, <1>4, <1>13
<1> QED
  BY <1>1, <1>4, <1>14, <1>15, <1>16 DEF Steady

LEMMA SteadyReturns == ASSUME TInv, VallocReturns PROVE Steady'
<1>1. /\ pc = "map" /\ pc' = "idle" /\ walk.size <= 0 /\ walk.piece = Len(req.pieces) /\ walk' = NoWalk
      /\ maps' = maps \cup {[va |-> req.va, size |-> req.size, pieces |-> req.pieces]}
      /\ UNCHANGED <<tables, lost>>
  BY DEF VallocReturns, Passed, Ready
<1>0. IInv /\ TablesOK(tables) /\ pc \in Traversing /\ pc \in Claiming /\ pc \in Providing
  BY <1>1 DEF TInv, IInv, Traversing, Claiming, Providing
<1>2. walk.size = 0 /\ walk.vaddr = req.va + req.size
  <2>1. Mapping(walk, req) /\ walk.vaddr \in Nat
    BY <1>0, <1>1, WalkFacts
  <2>2. walk.size \in Nat
    BY <2>1 DEF Mapping
  <2>3. PICK s : Sums(s, req.pieces, req.size) /\ walk.vaddr + walk.size = req.va + s[walk.piece]
    BY <2>1 DEF Mapping, Reached
  <2>4. s[walk.piece] = req.size
    BY <1>1, <2>3 DEF Sums
  <2> QED
    BY <1>1, <2>1, <2>2, <2>3, <2>4
<1>3. PICK s : s = [va |-> req.va, size |-> req.size, pieces |-> req.pieces]
               /\ s.va = req.va /\ s.size = req.size /\ s.pieces = req.pieces
  <2>1. PICK s : s = [va |-> req.va, size |-> req.size, pieces |-> req.pieces]
    OBVIOUS
  <2>2. s.va = req.va /\ s.size = req.size /\ s.pieces = req.pieces
    BY <2>1
  <2> QED
    BY <2>1, <2>2
<1>4. Current("map", walk, req) = Whole(s)
  <2>1. Current("map", walk, req) = Part(req, req.va, req.va + req.size)
    BY <1>2 DEF Current
  <2> QED
    BY <1>3, <2>1, WholePart
<1>5. ASSUME NEW own PROVE PartsOf(own, "map", walk, req) = PartsOf(own \cup {s}, "idle", NoWalk, NoReq)
  <2>1. PartsOf(own, "map", walk, req) = {Whole(o) : o \in own} \cup {Whole(s)}
    BY <1>4, PartsInside
  <2>2. PartsOf(own \cup {s}, "idle", NoWalk, NoReq) = {Whole(o) : o \in own \cup {s}}
    BY PartsOutside
  <2> QED
    BY <2>1, <2>2
<1>6. PICK ms : ms = maps \cup {s}
  OBVIOUS
<1>7. PartsOf(maps, "map", walk, req) = PartsOf(ms, "idle", NoWalk, NoReq)
  BY <1>5, <1>6
<1>8. PartsOf(maps \cup lost, "map", walk, req) = PartsOf(ms \cup lost, "idle", NoWalk, NoReq)
  <2>1. ms \cup lost = (maps \cup lost) \cup {s}
    BY <1>6
  <2> QED
    BY <1>5, <2>1
<1>9. PICK L, n : Maps(L, n, tables, "map", walk, req, maps, lost)
  BY <1>1 DEF TInv, Steady
<1>10. Grows(PartsOf(maps \cup lost, "map", walk, req), PartsOf(ms \cup lost, "idle", NoWalk, NoReq))
  BY <1>8, SubsetGrows
<1>11. Excused("map", walk) = {}
  BY <1>2 DEF Excused
<1>12. Maps(L, n, tables, "idle", NoWalk, NoReq, ms, lost)
  BY <1>0, <1>7, <1>9, <1>10, <1>11, LoopsApart, MapsWider
<1>13. Straight("idle", NoWalk, NoReq)
  BY LoopsApart DEF Straight
<1>14. PagedRanges(ms \cup lost)
  <2>1. Paged(req.va) /\ Paged(req.size)
    BY <1>0, ClaimIs
  <2> QED
    BY <1>3, <1>6, <2>1 DEF TInv, Steady, PagedRanges
<1>15. maps' = ms /\ req' = NoReq
  BY <1>1, <1>3, <1>6 DEF VallocReturns
<1>16. \E L2, n2 : Maps(L2, n2, tables', pc', walk', req', maps', lost')
  BY <1>1, <1>12, <1>15
<1> QED
  BY <1>1, <1>13, <1>14, <1>15, <1>16 DEF Steady

LEMMA SteadyVfree == ASSUME TInv, NEW m \in maps, Vfree(m) PROVE Steady'
<1>1. /\ pc = "idle" /\ pc' = "unmap" /\ maps' = maps \ {m} /\ walk' = Inspection(m)
      /\ req' = [NoReq EXCEPT !.va = m.va, !.size = m.size, !.pieces = m.pieces]
      /\ UNCHANGED <<tables, lost>>
  BY DEF Vfree, Ready
<1>0. IInv /\ TablesOK(tables) /\ maps \cap lost = {}
  BY DEF TInv, IInv, TypeOK
<1>2. m.va \in Nat /\ m.size \in Nat \ {0} /\ m.va + m.size <= Virtual /\ m.va < Virtual + PteCovers[1]
  <2>1. m.va \in Nat /\ m.size \in Nat \ {0} /\ m.va + m.size <= Virtual
    BY <1>0, RangesApart
  <2>2. Virtual \in Nat /\ PteCovers[1] \in Nat
    BY VirtualMemoryAssumption, CoversAre
  <2> QED
    BY <2>1, <2>2
<1>3. PICK w, r : w = walk' /\ r = req'
  OBVIOUS
<1>4. r.va = m.va /\ r.size = m.size /\ r.pieces = m.pieces
  BY <1>1, <1>3 DEF NoReq
<1>5. w.vaddr = m.va /\ w.size = m.size /\ w.up = FALSE /\ w.stack = Traversal(m.va).stack
  BY <1>0, <1>1, <1>2, <1>3, InspectionStarts
<1>6. Current("unmap", w, r) = Whole(m)
  <2>1. Current("unmap", w, r) = Part(r, r.va, r.va + r.size)
    BY <1>4, <1>5 DEF Current
  <2> QED
    BY <1>4, <2>1, WholePart
<1>7. ASSUME NEW own, m \in own PROVE PartsOf(own, "idle", walk, req) = PartsOf(own \ {m}, "unmap", w, r)
  <2>1. PartsOf(own \ {m}, "unmap", w, r) = {Whole(o) : o \in own \ {m}} \cup {Whole(m)}
    BY <1>6, PartsInside
  <2>2. PartsOf(own, "idle", walk, req) = {Whole(o) : o \in own}
    BY PartsOutside
  <2> QED
    BY <1>7, <2>1, <2>2
<1>8. PICK ms : ms = maps \ {m}
  OBVIOUS
<1>9. PartsOf(maps, "idle", walk, req) = PartsOf(ms, "unmap", w, r)
  BY <1>7, <1>8
<1>10. PartsOf(maps \cup lost, "idle", walk, req) = PartsOf(ms \cup lost, "unmap", w, r)
  <2>1. ms \cup lost = (maps \cup lost) \ {m}
    BY <1>0, <1>8
  <2> QED
    BY <1>7, <2>1
<1>11. PICK L, n : Maps(L, n, tables, "idle", walk, req, maps, lost)
  BY <1>1 DEF TInv, Steady
<1>12. Follows(L, n, tables, w.stack, w.vaddr)
  <2>1. Tree(L, n, tables)
    BY <1>11 DEF Maps
  <2> QED
    BY <1>0, <1>2, <1>5, <2>1, FollowsStart
<1>13. Grows(PartsOf(maps \cup lost, "idle", walk, req), PartsOf(ms \cup lost, "unmap", w, r))
  BY <1>10, SubsetGrows
<1>14. Excused("idle", walk) = {}
  BY PartsOutside
<1>15. Maps(L, n, tables, "unmap", w, r, ms, lost)
  BY <1>0, <1>9, <1>11, <1>12, <1>13, <1>14, MapsWider
<1>16. Straight("unmap", w, r)
  BY <1>2, <1>4, <1>5, LoopsApart DEF Straight
<1>17. PagedRanges(ms \cup lost)
  BY <1>8 DEF TInv, Steady, PagedRanges
<1>18. \E L2, n2 : Maps(L2, n2, tables', pc', walk', req', maps', lost')
  BY <1>1, <1>3, <1>8, <1>15
<1> QED
  BY <1>1, <1>3, <1>8, <1>16, <1>17, <1>18 DEF Steady

LEMMA SteadyUnmapped == ASSUME TInv, Unmapped PROVE Steady'
<1>1. /\ pc = "unmap" /\ pc' = "release" /\ walk.size <= 0 /\ ~walk.up /\ walk' = NoWalk
      /\ UNCHANGED <<req, tables, maps, lost>>
  BY DEF Unmapped, Passed, Ready
<1>0. IInv /\ TablesOK(tables) /\ pc \in Traversing
  BY <1>1 DEF TInv, IInv, Traversing
<1>2. walk.vaddr = req.va + req.size /\ req.va \in Nat /\ req.size \in Nat
  <2>1. walk.vaddr + walk.size = req.va + req.size /\ walk.size >= 0
    BY <1>1 DEF TInv, Steady, Straight
  <2>2. walk.vaddr \in Nat /\ walk.size \in Int /\ req.va \in Nat /\ req.size \in Nat
    BY <1>0, WalkFacts
  <2> QED
    BY <1>1, <2>1, <2>2
<1>3. ASSUME NEW v \in Nat PROVE ~InPart(Current("unmap", walk, req), v)
  <2>1. Current("unmap", walk, req).from = walk.vaddr
        /\ Current("unmap", walk, req).to = req.va + req.size
    BY PartIs DEF Current
  <2> QED
    BY <1>2, <2>1 DEF InPart
<1>4. ASSUME NEW own
      PROVE  /\ PartsOf(own, "unmap", walk, req) = {Whole(o) : o \in own} \cup {Current("unmap", walk, req)}
             /\ PartsOf(own, "release", NoWalk, req) = {Whole(o) : o \in own}
  BY PartsInside, PartsOutside
<1>5. PICK L, n : Maps(L, n, tables, "unmap", walk, req, maps, lost)
  BY <1>1 DEF TInv, Steady
<1>6. Grows(PartsOf(maps \cup lost, "unmap", walk, req), PartsOf(maps \cup lost, "release", NoWalk, req))
  <2>1. SUFFICES ASSUME NEW p \in PartsOf(maps \cup lost, "unmap", walk, req), NEW v \in Nat, InPart(p, v)
                 PROVE  \E q \in PartsOf(maps \cup lost, "release", NoWalk, req) : Within(p, q)
    BY DEF Grows
  <2>2. p \in PartsOf(maps \cup lost, "release", NoWalk, req)
    BY <1>3, <1>4, <2>1
  <2>3. Within(p, p)
    BY DEF Within, SameRange
  <2> QED
    BY <2>2, <2>3
<1>7. Used(PartsOf(maps, "release", NoWalk, req)) \subseteq Used(PartsOf(maps, "unmap", walk, req))
  BY <1>4 DEF Used
<1>8. Excused("unmap", walk) = {}
  BY <1>1 DEF Excused
<1>9. Maps(L, n, tables, "release", NoWalk, req, maps, lost)
  BY <1>0, <1>5, <1>6, <1>7, <1>8, LoopsApart, MapsWider
<1>10. Straight("release", NoWalk, req)
  BY LoopsApart DEF Straight
<1>11. PagedRanges(maps \cup lost)
  BY DEF TInv, Steady
<1>12. \E L2, n2 : Maps(L2, n2, tables', pc', walk', req', maps', lost')
  BY <1>1, <1>9
<1> QED
  BY <1>1, <1>10, <1>11, <1>12 DEF Steady

-----------------------------------------------------------------------------
(* The stack of a traversal.                                               *)

LEMMA TreeEntry ==
  ASSUME NEW T, NEW L, NEW n, Tree(L, n, T), NEW t \in L, NEW i, NEW a, Points(T, t, i, a)
  PROVE  a \in L /\ n[a] = Number(n, T, t, i)
  BY Zenon DEF Tree

\* A frame of a stack
FrameWell(T, stack, i) ==
  /\ i \in 1..Levels /\ stack[i].pt \in DOMAIN T /\ T[stack[i].pt].lv = i
  /\ stack[i].idx \in Nat /\ stack[i].idx <= PteCnt[i] /\ PteCnt[i] \in Nat \ {0}

LEMMA FrameWellIs ==
  ASSUME NEW T, TablesOK(T), NEW stack, NEW up, StackOK(T, stack, up), NEW i \in 1..Len(stack)
  PROVE  FrameWell(T, stack, i) /\ Len(stack) \in Nat \ {0}
<1>1. i \in 1..Levels
  BY FrameIs
<1>2. stack[i].pt \in DOMAIN T /\ T[stack[i].pt].lv = i
  BY DEF StackOK, FrameOK
<1>3. stack[i].idx \in Nat /\ stack[i].idx <= PteCnt[i]
  BY FrameIs
<1>4. PteCnt[i] \in Nat \ {0}
  BY <1>1, CoversAre
<1>5. Len(stack) \in Nat \ {0}
  BY FrameIs
<1> QED
  BY <1>1, <1>2, <1>3, <1>4, <1>5 DEF FrameWell

LEMMA FrameLeads ==
  ASSUME NEW T, TablesOK(T), NEW stack, NEW up, StackOK(T, stack, up),
         NEW j \in 1..Len(stack), j < Len(stack), NEW k, k = j + 1
  PROVE  /\ Points(T, stack[j].pt, stack[j].idx, stack[k].pt) /\ k \in 1..Len(stack)
         /\ stack[k].pt # Root
<1>1. /\ Len(stack) \in Nat \ {0} /\ j \in 1..Levels
      /\ stack[j].pt \in DOMAIN T /\ T[stack[j].pt].lv = j /\ stack[j].idx \in Nat
      /\ PteCnt[j] \in Nat \ {0}
  <2>1. FrameWell(T, stack, j) /\ Len(stack) \in Nat \ {0}
    BY FrameWellIs
  <2> QED
    BY <2>1 DEF FrameWell
<1>2. stack[j].idx < PteCnt[j] /\ T[stack[j].pt].pte[stack[j].idx] = TableAt(stack[k].pt)
  BY DEF StackOK, FrameOK
<1>3. DOMAIN T[stack[j].pt].pte = 0..(PteCnt[j] - 1)
  BY <1>1, TableIs
<1>4. stack[j].idx \in DOMAIN T[stack[j].pt].pte
  BY <1>1, <1>2, <1>3
<1>5. Points(T, stack[j].pt, stack[j].idx, stack[k].pt)
  BY <1>1, <1>2, <1>4 DEF Points
<1>6. stack[k].pt \in DOMAIN T \ {Root}
  BY <1>5, Zenon DEF TablesOK
<1> QED
  BY <1>1, <1>5, <1>6

\* The tables a stack went through are on the way to what its last table is on.
LEMMA StackOn ==
  ASSUME NEW T, TablesOK(T), NEW L, NEW n, Tree(L, n, T), NEW stack, NEW up, StackOK(T, stack, up),
         \A i \in 1..Len(stack) : stack[i].pt \in L,
         NEW v \in Nat, On(n, T, stack[Len(stack)].pt, v), NEW i \in 1..Len(stack)
  PROVE  On(n, T, stack[i].pt, v)
<1>0. PICK m \in Nat \ {0} : m = Len(stack) /\ m \in 1..m /\ i \in 1..m
  BY FrameIs
<1> DEFINE D == {d \in 0..(m - 1) : ~On(n, T, stack[m - d].pt, v)}
<1>1. SUFFICES ASSUME D # {} PROVE FALSE
  <2>0. m - i \in 0..(m - 1) /\ m - (m - i) = i
    BY <1>0
  <2>1. PICK d \in 0..(m - 1) : d = m - i /\ m - d = i
    BY <2>0
  <2> QED
    BY <2>1
<1>2. D \in SUBSET Nat
  OBVIOUS
<1>3. PICK d \in D : \A e \in D : d <= e
  BY <1>1, <1>2, LeastNat
<1>4. d \in 0..(m - 1) /\ ~On(n, T, stack[m - d].pt, v)
  OBVIOUS
<1>5. d # 0
  BY <1>0, <1>4
<1>6. PICK e \in 0..(m - 1) : e = d - 1 /\ e \notin D
  <2>1. d - 1 \in 0..(m - 1) /\ ~(d <= d - 1)
    BY <1>0, <1>4, <1>5
  <2> QED
    BY <1>3, <2>1
<1>7. On(n, T, stack[m - e].pt, v)
  BY <1>6
<1>8. PICK j \in 1..m, k \in 1..m : j = m - d /\ k = m - e /\ k = j + 1 /\ j < m
  BY <1>0, <1>4, <1>6
<1>9. Points(T, stack[j].pt, stack[j].idx, stack[k].pt) /\ stack[k].pt # Root /\ stack[k].pt \in L
  BY <1>0, <1>8, FrameLeads
<1>10. PICK s \in L : On(n, T, s, v) /\ Points(T, s, Place(T[s].lv, v), stack[k].pt)
  BY <1>7, <1>8, <1>9, ParentOn
<1>11. s = stack[j].pt
  BY <1>9, <1>10, Zenon DEF TablesOK
<1> QED
  BY <1>4, <1>8, <1>10, <1>11

\* The entry a traversal is at is that of its address.
LEMMA TopOn ==
  ASSUME NEW T, TablesOK(T), NEW L, NEW n, Tree(L, n, T), NEW stack, NEW up, StackOK(T, stack, up),
         NEW v \in Nat, Follows(L, n, T, stack, v), NEW m, m = Len(stack), stack[m].idx < PteCnt[m]
  PROVE  /\ m \in 1..Levels /\ stack[m].pt \in L /\ T[stack[m].pt].lv = m
         /\ stack[m].idx \in DOMAIN T[stack[m].pt].pte
         /\ Under(n, T, stack[m].pt, stack[m].idx, v) /\ On(n, T, stack[m].pt, v)
         /\ Place(m, v) = stack[m].idx
         /\ \A i \in 1..m : On(n, T, stack[i].pt, v)
<1>1. m \in Nat \ {0} /\ m \in 1..m
  BY FrameIs, LenProperties DEF StackOK
<1>2. m \in 1..Levels /\ T[stack[m].pt].lv = m /\ stack[m].pt \in DOMAIN T /\ stack[m].idx \in Nat
      /\ PteCnt[m] \in Nat \ {0}
  <2>1. FrameWell(T, stack, m)
    BY <1>1, FrameWellIs
  <2> QED
    BY <2>1 DEF FrameWell
<1>3. stack[m].pt \in L /\ At(m, v) = Number(n, T, stack[m].pt, stack[m].idx)
      /\ \A i \in 1..Len(stack) : stack[i].pt \in L
  BY <1>1 DEF Follows
<1>4. stack[m].idx \in DOMAIN T[stack[m].pt].pte
  <2>1. DOMAIN T[stack[m].pt].pte = 0..(PteCnt[m] - 1)
    BY <1>2, TableIs
  <2> QED
    BY <1>2, <2>1
<1>5. Under(n, T, stack[m].pt, stack[m].idx, v)
  BY <1>2, <1>3 DEF Under
<1>6. On(n, T, stack[m].pt, v) /\ Place(m, v) = stack[m].idx
  BY <1>2, <1>3, <1>4, <1>5, UnderIs
<1>7. \A i \in 1..m : On(n, T, stack[i].pt, v)
  BY <1>3, <1>6, StackOn
<1> QED
  BY <1>2, <1>3, <1>4, <1>5, <1>6, <1>7

\* A traversal that goes down is in the table an entry leads to.
Deeper(stack, a, l, v) == Append(stack, [pt |-> a, idx |-> Place(l, v)])
GoneDown(L, n, T, stack, new, v) == Follows(L, n, T, new, v) /\ StackTables(stack) \subseteq StackTables(new)
LEMMA FollowsDown ==
  ASSUME NEW T, TablesOK(T), NEW L, NEW n, Tree(L, n, T), NEW stack, StackOK(T, stack, FALSE),
         NEW v \in Nat, Follows(L, n, T, stack, v), NEW m, m = Len(stack),
         NEW a, Points(T, stack[m].pt, stack[m].idx, a), NEW l, l = m + 1, l \in 1..Levels
  PROVE  GoneDown(L, n, T, stack, Deeper(stack, a, l, v), v)
<1>n. PICK new : new = Append(stack, [pt |-> a, idx |-> Place(l, v)])
  OBVIOUS
<1>1. stack \in Seq(Frame0) /\ m \in Nat \ {0} /\ m \in 1..m /\ stack[m].idx < PteCnt[m]
  BY FrameIs, LenProperties DEF StackOK, FrameOK
<1>f. PICK f : f = [pt |-> a, idx |-> Place(l, v)]
  OBVIOUS
<1>2. f.pt = a /\ f.idx = Place(l, v)
  BY <1>f
<1>3. Len(new) = l /\ l \in 1..l /\ new[l] = f /\ \A i \in 1..m : new[i] = stack[i]
  BY <1>1, <1>f, <1>n, AppendProperties
<1>4. /\ m \in 1..Levels /\ stack[m].pt \in L /\ T[stack[m].pt].lv = m
      /\ Under(n, T, stack[m].pt, stack[m].idx, v)
  <2>1. m \in 1..Levels /\ stack[m].pt \in L
    BY <1>1, TopOn
  <2>2. T[stack[m].pt].lv = m
    BY <1>1 DEF StackOK, FrameOK
  <2>3. Under(n, T, stack[m].pt, stack[m].idx, v)
    BY <1>1, TopOn
  <2> QED
    BY <2>1, <2>2, <2>3
<1>5. a \in L /\ n[a] = Number(n, T, stack[m].pt, stack[m].idx)
  <2>1. Points(T, stack[m].pt, stack[m].idx, a) /\ stack[m].pt \in L /\ Tree(L, n, T)
    BY <1>4
  <2> QED
    BY <2>1, Zenon DEF Tree
<1>6. T[a].lv = l
  <2>1. T[a].lv = T[stack[m].pt].lv + 1
    BY Zenon DEF TablesOK
  <2> QED
    BY <1>4, <2>1
<1>7. Above(l, v) = n[a]
  <2>1. Above(l, v) = At(m, v)
    BY <1>4, AboveIs
  <2> QED
    BY <1>4, <1>5, <2>1 DEF Under
<1>8. At(l, v) = Number(n, T, a, Place(l, v))
  <2>1. At(l, v) = Above(l, v) * PteCnt[l] + Place(l, v)
    BY AtIs
  <2> QED
    BY <1>6, <1>7, <2>1 DEF Number
<1>9. \A i \in 1..l : new[i].pt \in L
  <2>1. ASSUME NEW i \in 1..l PROVE new[i].pt \in L
    <3>1. CASE i = l
      BY <1>2, <1>3, <1>5, <3>1
    <3>2. CASE i # l
      <4>1. i \in 1..m
        BY <1>1, <3>2
      <4> QED
        BY <1>3, <4>1 DEF Follows
    <3> QED
      BY <3>1, <3>2
  <2> QED
    BY <2>1
<1>10. Follows(L, n, T, new, v)
  BY <1>2, <1>3, <1>8, <1>9 DEF Follows
<1>11. StackTables(stack) \subseteq StackTables(new)
  <2>1. ASSUME NEW i \in 1..m PROVE i \in 1..l /\ new[i].pt = stack[i].pt
    BY <1>1, <1>3, <2>1
  <2> QED
    BY <1>3, <2>1 DEF StackTables
<1> QED
  BY <1>10, <1>11, <1>n DEF GoneDown, Deeper

\* A traversal that leaves a table is at the entry that led to it, or behind it.
GoneUp(L, n, T, stack, new, m, v) ==
  Follows(L, n, T, new, v) /\ StackTables(stack) = StackTables(new) \cup {stack[m].pt}
LEMMA FollowsUp ==
  ASSUME NEW T, TablesOK(T), NEW L, NEW n, Tree(L, n, T), NEW stack, StackOK(T, stack, TRUE),
         NEW v \in Nat, Follows(L, n, T, stack, v), NEW m \in Nat, m = Len(stack), m > 1,
         NEW new, StackOK(T, new, TRUE), Len(new) = m - 1, SameFrames(new, stack, m - 1),
         \/ Lands(new, stack, m - 1) /\ stack[m].idx # PteCnt[m]
         \/ LandsBehind(new, stack, m - 1) /\ stack[m].idx = PteCnt[m]
  PROVE  GoneUp(L, n, T, stack, new, m, v)
<1>1. PICK k \in Nat \ {0} : k = m - 1 /\ m = k + 1 /\ k \in 1..m /\ m \in 1..m
  OBVIOUS
<1>2. /\ m \in 1..Levels /\ k \in 1..Levels /\ T[stack[m].pt].lv = m /\ T[stack[k].pt].lv = k
      /\ stack[m].idx \in Nat /\ stack[k].idx \in Nat /\ stack[m].idx <= PteCnt[m] /\ PteCnt[m] \in Nat \ {0}
  <2>1. FrameWell(T, stack, m)
    BY <1>1, FrameWellIs
  <2>2. FrameWell(T, stack, k)
    BY <1>1, FrameWellIs
  <2> QED
    BY <2>1, <2>2 DEF FrameWell
<1>3. \A i \in 1..m : stack[i].pt \in L
  BY DEF Follows
<1>4. Points(T, stack[k].pt, stack[k].idx, stack[m].pt)
  <2>1. k \in 1..Len(stack) /\ k < Len(stack) /\ m = k + 1
    BY <1>1
  <2> QED
    BY <2>1, FrameLeads, Zenon
<1>5. n[stack[m].pt] = Number(n, T, stack[k].pt, stack[k].idx)
  <2>1. stack[k].pt \in L
    BY <1>1, <1>3
  <2> QED
    BY <1>4, <2>1, TreeEntry
<1>6. PICK x \in Nat, c \in Nat \ {0}, j \in Nat : x = n[stack[m].pt] /\ c = PteCnt[m] /\ j = stack[m].idx /\ j <= c
  <2>1. n[stack[m].pt] \in Nat
    BY <1>1, <1>3, TreeTable
  <2> QED
    BY <1>2, <2>1
<1>7. At(m, v) = x * c + j /\ At(k, v) = Above(m, v)
  <2>1. At(m, v) = Number(n, T, stack[m].pt, stack[m].idx)
    BY DEF Follows
  <2>2. Above(m, v) = At(k, v)
    BY <1>1, <1>2, AboveIs
  <2> QED
    BY <1>2, <1>6, <2>1, <2>2 DEF Number
<1>8. PICK y \in Nat, z \in Nat : y = n[stack[k].pt] * PteCnt[k] /\ z = stack[k].idx /\ x = y + z
  <2>1. n[stack[k].pt] \in Nat /\ PteCnt[k] \in Nat
    BY <1>1, <1>2, <1>3, TreeTable, CoversAre, ZenonT(60)
  <2>2. n[stack[k].pt] * PteCnt[k] \in Nat
    BY <2>1
  <2> QED
    BY <1>2, <1>5, <1>6, <2>2 DEF Number
<1>9. At(k, v) = y + new[k].idx
  <2>1. CASE Lands(new, stack, m - 1) /\ stack[m].idx # PteCnt[m]
    <3>1. j \in 0..(PteCnt[m] - 1)
      BY <1>6, <2>1
    <3>0. At(m, v) = x * PteCnt[m] + j
      BY <1>6, <1>7
    <3>2. Above(m, v) = x
      BY <1>2, <3>0, <3>1, Digits
    <3>3. new[k].idx = z
      BY <1>1, <1>8, <2>1 DEF Lands
    <3> QED
      BY <1>7, <1>8, <3>2, <3>3
  <2>2. CASE LandsBehind(new, stack, m - 1) /\ stack[m].idx = PteCnt[m]
    <3>1. 0 \in 0..(PteCnt[m] - 1)
      BY <1>2
    <3>2. At(m, v) = (x + 1) * PteCnt[m] + 0
      <4>1. (x + 1) * c = x * c + c /\ x * c \in Nat
        OBVIOUS
      <4>2. j = c
        BY <1>6, <2>2
      <4> QED
        BY <1>6, <1>7, <4>1, <4>2
    <3>3. Above(m, v) = x + 1
      BY <1>2, <3>1, <3>2, Digits
    <3>4. new[k].idx = z + 1
      BY <1>1, <1>8, <2>2 DEF LandsBehind
    <3> QED
      BY <1>7, <1>8, <3>3, <3>4, SMTT(60)
  <2> QED
    BY <2>1, <2>2
<1>10. \A i \in 1..k : new[i].pt = stack[i].pt
  BY <1>1 DEF SameFrames
<1>11. Follows(L, n, T, new, v)
  <2>1. new[k].pt = stack[k].pt /\ k \in 1..k
    BY <1>1, <1>10
  <2>2. At(k, v) = Number(n, T, new[k].pt, new[k].idx)
    BY <1>2, <1>8, <1>9, <2>1 DEF Number
  <2>3. \A i \in 1..k : new[i].pt \in L
    BY <1>1, <1>3, <1>10
  <2> QED
    BY <1>1, <2>2, <2>3 DEF Follows
<1>12. StackTables(stack) = StackTables(new) \cup {stack[m].pt}
  <2>1. 1..m = (1..k) \cup {m}
    BY <1>1
  <2>2. {stack[i].pt : i \in 1..m} = {stack[i].pt : i \in 1..k} \cup {stack[m].pt}
    BY <2>1
  <2>3. {stack[i].pt : i \in 1..k} = {new[i].pt : i \in 1..k}
    BY <1>10
  <2> QED
    BY <1>1, <2>2, <2>3 DEF StackTables
<1> QED
  BY <1>11, <1>12 DEF GoneUp

-----------------------------------------------------------------------------
(* The steps of a traversal that write nothing.                            *)

LEMMA SamePlace ==
  ASSUME NEW own, NEW p, NEW w, NEW v, NEW r, v.vaddr = w.vaddr
  PROVE  PartsOf(own, p, v, r) = PartsOf(own, p, w, r)
  BY DEF PartsOf, Current

\* Where a traversal is changes, and the tables do not.
LEMMA SteadyTurns ==
  ASSUME TInv, pc \in Traversing, UNCHANGED <<pc, req, tables, maps, lost>>,
         walk'.vaddr = walk.vaddr, walk'.size = walk.size, walk'.off = walk.off, walk'.piece = walk.piece,
         NEW L, NEW n, Maps(L, n, tables, pc, walk, req, maps, lost),
         Follows(L, n, tables, walk'.stack, walk.vaddr),
         Met(L, n, tables, Excused(pc, walk'), Used(PartsOf(maps \cup lost, pc, walk, req)))
  PROVE  Steady'
<1>1. PICK w : w = walk'
  OBVIOUS
<1>2. w.vaddr = walk.vaddr /\ w.size = walk.size /\ w.off = walk.off /\ w.piece = walk.piece
  BY <1>1
<1>3. \A own : PartsOf(own, pc, w, req) = PartsOf(own, pc, walk, req)
  BY <1>2, SamePlace
<1>4. TablesOK(tables)
  BY DEF TInv, IInv
<1>5. Maps(L, n, tables, pc, w, req, maps, lost)
  BY <1>1, <1>2, <1>3, Zenon DEF Maps
<1>6. Straight(pc, w, req)
  BY <1>2 DEF TInv, Steady, Straight
<1>7. PagedRanges(maps \cup lost)
  BY DEF TInv, Steady
<1>8. \E L2, n2 : Maps(L2, n2, tables', pc', walk', req', maps', lost')
  BY <1>1, <1>5
<1> QED
  BY <1>1, <1>6, <1>7, <1>8 DEF Steady

LEMMA SteadyLevelDown == ASSUME TInv, LevelDown PROVE Steady'
<1>1. /\ Valid(Entry) /\ ~IsPage(Level, Entry) /\ walk' = Push(Entry.addr, Level + 1)
      /\ UNCHANGED <<pc, req, tables, pa, va, maps, lost>> /\ Walking
  BY DEF LevelDown
<1>2. pc \in Traversing /\ ~walk.up /\ walk.size > 0
  BY <1>1 DEF Walking, Ready, Traversing
<1>0. IInv
  BY DEF TInv
<1>3. /\ walk \in WalkType /\ TablesOK(tables) /\ walk.vaddr \in Nat
      /\ StackOK(tables, walk.stack, walk.up) /\ walk.up = FALSE
  BY <1>0, <1>2, WalkFacts
<1>5. PICK m : m = Len(walk.stack)
  OBVIOUS
<1>6. /\ Top = walk.stack[m] /\ Level = m /\ m \in 1..Levels
  BY <1>3, <1>5, TopIs
<1>7. PICK L, n : Maps(L, n, tables, pc, walk, req, maps, lost)
  BY DEF TInv, Steady
<1>8. Tree(L, n, tables) /\ Follows(L, n, tables, walk.stack, walk.vaddr)
  BY <1>2, <1>7, Zenon DEF Maps
<1>9. PICK stack : stack = walk.stack /\ StackOK(tables, stack, FALSE) /\ Follows(L, n, tables, stack, walk.vaddr)
                   /\ m = Len(stack)
  BY <1>3, <1>5, <1>8
<1>10. stack[m].idx < PteCnt[m] /\ stack[m].pt \in DOMAIN tables
  BY <1>3, <1>5, <1>9, TopIs
<1>11. stack[m].pt \in L /\ tables[stack[m].pt].lv = m /\ On(n, tables, stack[m].pt, walk.vaddr)
       /\ Place(m, walk.vaddr) = stack[m].idx
  <2>1. tables[stack[m].pt].lv = m
    BY <1>3, <1>5, <1>9, TopIs
  <2>2. stack[m].pt \in L /\ On(n, tables, stack[m].pt, walk.vaddr)
    BY <1>3, <1>8, <1>9, <1>10, TopOn
  <2>3. Place(m, walk.vaddr) = stack[m].idx
    BY <1>3, <1>8, <1>9, <1>10, TopOn
  <2> QED
    BY <2>1, <2>2, <2>3
<1>12. PICK a : a = Entry.addr
  OBVIOUS
<1>13. Entry = tables[stack[m].pt].pte[stack[m].idx]
  BY <1>6, <1>9 DEF Entry
<1>14. Entry.kind = "table"
  <2>1. stack[m].idx \in DOMAIN tables[stack[m].pt].pte
    BY <1>3, <1>8, <1>9, <1>10, TopOn
  <2>2. Entry \in EntryType
    BY <1>3, <1>8, <1>11, <1>13, <2>1, TreeTable
  <2> QED
    BY <1>1, <2>2 DEF EntryType, Valid, IsPage
<1>15. Leads(tables, stack[m].pt, walk.vaddr) /\ a = tables[stack[m].pt].pte[Place(m, walk.vaddr)].addr
  BY <1>11, <1>12, <1>13, <1>14 DEF Leads
<1>16. Points(tables, stack[m].pt, stack[m].idx, a)
  BY <1>3, <1>8, <1>11, <1>15, LeadsDown
<1>17. PICK l : l = m + 1
  OBVIOUS
<1>18. l \in 1..Levels
  <2>1. m # Levels
    BY <1>1, <1>6 DEF IsPage
  <2>2. Levels \in Nat
    BY CoversAre
  <2> QED
    BY <1>6, <1>17, <2>1, <2>2
<1>19. PICK new : new = Deeper(stack, a, l, walk.vaddr)
  OBVIOUS
<1>20. Follows(L, n, tables, new, walk.vaddr) /\ StackTables(stack) \subseteq StackTables(new)
  <2>1. GoneDown(L, n, tables, stack, Deeper(stack, a, l, walk.vaddr), walk.vaddr)
    BY <1>3, <1>8, <1>9, <1>16, <1>17, <1>18, FollowsDown
  <2> QED
    BY <1>19, <2>1 DEF GoneDown
<1>21. walk' = [walk EXCEPT !.stack = new]
  BY <1>1, <1>6, <1>9, <1>12, <1>17, <1>19 DEF Push, Place, At, WalkType, Deeper
<1>22. /\ walk'.vaddr = walk.vaddr /\ walk'.size = walk.size /\ walk'.off = walk.off
       /\ walk'.piece = walk.piece /\ walk'.up = walk.up /\ walk'.stack = new
  BY <1>3, <1>21 DEF WalkType
<1>23. Excused(pc, walk) \subseteq Excused(pc, walk')
  BY <1>2, <1>9, <1>20, <1>22 DEF Excused
<1>24. Met(L, n, tables, Excused(pc, walk'), Used(PartsOf(maps \cup lost, pc, walk, req)))
  <2>1. Met(L, n, tables, Excused(pc, walk), Used(PartsOf(maps \cup lost, pc, walk, req)))
    BY <1>7, Zenon DEF Maps
  <2> QED
    BY <1>23, <2>1, MetKept
<1> QED
  BY <1>1, <1>2, <1>7, <1>20, <1>22, <1>24, SteadyTurns

\* A table with an entry that says something is on the way of an address.
LEMMA EntryMet ==
  ASSUME NEW T, TablesOK(T), NEW L, NEW n, Tree(L, n, T), NEW P, Right(L, n, T, P), NEW X,
         Met(L, n, T, X, Used(P)), NEW t \in L, NEW i \in DOMAIN T[t].pte, Valid(T[t].pte[i]),
         \A a : Points(T, t, i, a) => a \notin X
  PROVE  \E v \in Used(P) : On(n, T, t, v) /\ Under(n, T, t, i, v)
<1>1. T[t].pte[i] \in EntryType /\ t \in DOMAIN T
  BY TreeTable
<1>2. CASE T[t].pte[i].kind = "page"
  <2>1. PICK p \in P : Backed(n, T, t, i, p)
    BY <1>2 DEF Right, PageEntry
  <2>2. PICK v \in Nat : Under(n, T, t, i, v)
    BY EntryAddress
  <2>3. InPart(p, v) /\ On(n, T, t, v)
    BY <2>1, <2>2, UnderIs DEF Backed
  <2> QED
    BY <2>2, <2>3 DEF Used
<1>3. CASE T[t].pte[i].kind = "table"
  <2>1. PICK a : a = T[t].pte[i].addr
    OBVIOUS
  <2>2. T[t].pte[i] = TableAt(a)
    BY <1>1, <1>3, <2>1 DEF EntryType, TableAt
  <2>3. Points(T, t, i, a)
    BY <1>1, <2>2 DEF Points
  <2>4. a \in L
    BY <2>3, TreeEntry
  <2>5. a # Root
    BY <2>3, Zenon DEF TablesOK
  <2>6. PICK v \in Used(P) : On(n, T, a, v)
    BY <2>3, <2>4, <2>5 DEF Met
  <2>7. PICK s \in L : On(n, T, s, v) /\ Points(T, s, Place(T[s].lv, v), a)
    <3>1. v \in Nat
      BY DEF Used
    <3> QED
      BY <2>4, <2>5, <2>6, <3>1, ParentOn
  <2>8. s = t /\ Place(T[s].lv, v) = i
    BY <2>3, <2>7, Zenon DEF TablesOK
  <2>9. On(n, T, t, v) /\ Place(T[t].lv, v) = i
    BY <2>7, <2>8
  <2>10. Under(n, T, t, i, v)
    <3>1. v \in Nat
      BY DEF Used
    <3> QED
      BY <2>9, <3>1, UnderIs
  <2> QED
    BY <2>9, <2>10
<1> QED
  BY <1>1, <1>2, <1>3 DEF EntryType, Valid

\* A table on the way up that is not empty
LEMMA TopMet ==
  ASSUME IInv, pc = "unmap", walk.up, ~Emptied, Top.pt # Root,
         NEW L, NEW n, Maps(L, n, tables, pc, walk, req, maps, lost)
  PROVE  \E v \in Used(PartsOf(maps \cup lost, pc, walk, req)) : On(n, tables, Top.pt, v)
<1>1. TablesOK(tables) /\ StackOK(tables, walk.stack, walk.up)
  BY WalkFacts, LoopsApart
<1>2. PICK m : m = Len(walk.stack)
  OBVIOUS
<1>3. PICK t : t = Top.pt /\ t = walk.stack[m].pt /\ tables[t].lv = m /\ m \in Nat \ {0} /\ m \in 1..m
  BY <1>1, <1>2, TopIs
<1>4. PICK i \in DOMAIN tables[t].pte : Valid(tables[t].pte[i])
  BY <1>3 DEF Emptied
<1>5. Tree(L, n, tables)
  BY Zenon DEF Maps
<1>6. Right(L, n, tables, PartsOf(maps \cup lost, pc, walk, req))
  BY Zenon DEF Maps
<1>7. Met(L, n, tables, Excused(pc, walk), Used(PartsOf(maps \cup lost, pc, walk, req)))
  BY Zenon DEF Maps
<1>8. t \in L
  <2>1. Follows(L, n, tables, walk.stack, walk.vaddr)
    BY LoopsApart, Zenon DEF Maps
  <2> QED
    BY <1>2, <1>3, <2>1 DEF Follows
<1>9. ASSUME NEW a, Points(tables, t, i, a) PROVE a \notin Excused(pc, walk)
  <2>1. SUFFICES ASSUME NEW j \in 1..m, a = walk.stack[j].pt PROVE FALSE
    BY <1>2 DEF Excused, StackTables
  <2>2. tables[a].lv = tables[t].lv + 1
    BY <1>1, <1>9, Zenon DEF TablesOK
  <2>3. tables[a].lv = j
    BY <1>1, <1>2, <2>1 DEF StackOK, FrameOK
  <2> QED
    BY <1>3, <2>2, <2>3
<1>10. \E v \in Used(PartsOf(maps \cup lost, pc, walk, req)) : On(n, tables, t, v)
  BY <1>1, <1>4, <1>5, <1>6, <1>7, <1>8, <1>9, EntryMet
<1> QED
  BY <1>3, <1>10

\* The way up follows the address.
ClimbsOn(L, n) ==
  /\ Follows(L, n, tables, Climb.stack, walk.vaddr)
  /\ StackTables(walk.stack) = StackTables(Climb.stack) \cup {Top.pt}

LEMMA ClimbFollows ==
  ASSUME IInv, pc \in Traversing, walk.up, AtEnd \/ Top.pt # Root,
         NEW L, NEW n, Tree(L, n, tables), Follows(L, n, tables, walk.stack, walk.vaddr)
  PROVE  ClimbsOn(L, n)
<1>1. /\ TablesOK(tables) /\ walk.up = TRUE /\ walk.vaddr \in Nat
      /\ StackOK(tables, walk.stack, walk.up)
  BY WalkFacts
<1>2. PICK stack, new : \E m \in Nat :
        /\ stack = walk.stack /\ m = Len(stack) /\ m > 1 /\ StackOK(tables, stack, TRUE)
        /\ Top = stack[m] /\ Climb.stack = new
        /\ StackOK(tables, new, TRUE) /\ Len(new) = m - 1 /\ SameFrames(new, stack, m - 1)
  BY ClimbIs
<1>8. PICK m \in Nat :
        /\ stack = walk.stack /\ m = Len(stack) /\ m > 1 /\ StackOK(tables, stack, TRUE)
        /\ Top = stack[m] /\ Climb.stack = new
        /\ StackOK(tables, new, TRUE) /\ Len(new) = m - 1 /\ SameFrames(new, stack, m - 1)
  BY <1>2
<1>3. Level = m
  BY <1>1, <1>8, TopIs
<1>4. new = IF stack[m].idx = PteCnt[m] THEN Moved(stack, m) ELSE Left(stack, m)
  <2>1. Below(stack) = Left(stack, m)
    BY <1>8 DEF Below, Left
  <2>2. Len(Below(stack)) = m - 1
    <3>1. m - 1 \in Nat /\ 1 \in Nat /\ m - 1 <= Len(stack)
      BY <1>8
    <3>2. stack \in Seq(Frame0)
      BY <1>8 DEF StackOK
    <3> QED
      BY <1>8, <3>1, <3>2 DEF Below
  <2>3. AtEnd <=> stack[m].idx = PteCnt[m]
    BY <1>8, <1>3 DEF AtEnd
  <2>4. [Below(stack) EXCEPT ![Len(Below(stack))].idx = @ + 1] = Moved(stack, m)
    BY <2>1, <2>2 DEF Moved, Left
  <2>5. Climb.stack = IF AtEnd THEN [Below(stack) EXCEPT ![Len(Below(stack))].idx = @ + 1] ELSE Below(stack)
    <3>1. walk \in WalkType
      BY WalkFacts
    <3> QED
      BY <1>8, <3>1 DEF Climb, WalkType
  <2> QED
    BY <1>8, <2>1, <2>3, <2>4, <2>5
<1>5. new \in Climbed(stack, m)
  BY <1>4 DEF Climbed
<1>6. \/ Lands(new, stack, m - 1) /\ stack[m].idx # PteCnt[m]
      \/ LandsBehind(new, stack, m - 1) /\ stack[m].idx = PteCnt[m]
  BY <1>1, <1>8, <1>4, <1>5, StackClimbs
<1>7. Follows(L, n, tables, new, walk.vaddr) /\ StackTables(stack) = StackTables(new) \cup {stack[m].pt}
  <2>1. PICK v \in Nat : v = walk.vaddr
    BY <1>1
  <2>2. Follows(L, n, tables, stack, v)
    BY <1>8, <2>1
  <2>3. /\ TablesOK(tables) /\ StackOK(tables, stack, TRUE) /\ m = Len(stack) /\ m > 1
        /\ StackOK(tables, new, TRUE) /\ Len(new) = m - 1 /\ SameFrames(new, stack, m - 1)
    BY <1>1, <1>8
  <2>4. Follows(L, n, tables, new, v) /\ StackTables(stack) = StackTables(new) \cup {stack[m].pt}
    <3>1. GoneUp(L, n, tables, stack, new, m, v)
      BY <1>6, <2>2, <2>3, FollowsUp
    <3> QED
      BY <3>1 DEF GoneUp
  <2> QED
    BY <2>1, <2>4
<1> QED
  BY <1>8, <1>7 DEF ClimbsOn

LEMMA SteadyLevelUp == ASSUME TInv, LevelUp PROVE Steady'
<1>1. walk.up /\ ~Emptied /\ AtEnd /\ walk' = Climb /\ UNCHANGED <<pc, req, tables, pa, va, maps, lost>>
  BY DEF LevelUp
<1>0. IInv
  BY DEF TInv
<1>2. pc \in Traversing
  BY <1>0, <1>1 DEF IInv, WalkOK
<1>3. PICK L, n : Maps(L, n, tables, pc, walk, req, maps, lost)
  BY DEF TInv, Steady
<1>4. Tree(L, n, tables) /\ Follows(L, n, tables, walk.stack, walk.vaddr)
  BY <1>2, <1>3, Zenon DEF Maps
<1>5. ClimbsOn(L, n)
  BY <1>0, <1>1, <1>2, <1>4, ClimbFollows
<1>6. PICK w : w = Climb
  OBVIOUS
<1>7. /\ w.vaddr = walk.vaddr /\ w.size = walk.size /\ w.off = walk.off /\ w.piece = walk.piece
      /\ w.up = TRUE
  BY <1>0, <1>1, <1>2, <1>6, ClimbIs
<1>8. Met(L, n, tables, Excused(pc, walk), Used(PartsOf(maps \cup lost, pc, walk, req)))
  BY <1>3, Zenon DEF Maps
<1>9. Met(L, n, tables, Excused(pc, w), Used(PartsOf(maps \cup lost, pc, walk, req)))
  <2>1. CASE pc = "unmap"
    <3>1. Excused(pc, walk) = StackTables(w.stack) \cup {Top.pt} /\ Excused(pc, w) = StackTables(w.stack)
      BY <1>1, <1>5, <1>6, <1>7, <2>1 DEF Excused, ClimbsOn
    <3>2. Top.pt # Root => \E v \in Used(PartsOf(maps \cup lost, pc, walk, req)) : On(n, tables, Top.pt, v)
      BY <1>0, <1>1, <1>3, <2>1, TopMet
    <3> QED
      BY <1>8, <3>1, <3>2 DEF Met
  <2>2. CASE pc # "unmap"
    <3>1. Excused(pc, walk) = {} /\ Excused(pc, w) = {}
      BY <1>1, <1>7, <2>2 DEF Excused
    <3> QED
      BY <1>8, <3>1
  <2> QED
    BY <2>1, <2>2
<1>10. Follows(L, n, tables, w.stack, walk.vaddr)
  BY <1>5, <1>6 DEF ClimbsOn
<1> QED
  BY <1>1, <1>2, <1>3, <1>6, <1>7, <1>9, <1>10, SteadyTurns

LEMMA SteadyLevelUpEnds == ASSUME TInv, LevelUpEnds PROVE Steady'
<1>1. walk.up /\ ~Emptied /\ walk' = [walk EXCEPT !.up = FALSE] /\ UNCHANGED <<pc, req, tables, pa, va, maps, lost>>
  BY DEF LevelUpEnds
<1>0. IInv
  BY DEF TInv
<1>2. pc \in Traversing
  BY <1>0, <1>1 DEF IInv, WalkOK
<1>3. PICK L, n : Maps(L, n, tables, pc, walk, req, maps, lost)
  BY DEF TInv, Steady
<1>4. Tree(L, n, tables) /\ Follows(L, n, tables, walk.stack, walk.vaddr)
  BY <1>2, <1>3, Zenon DEF Maps
<1>5. walk \in WalkType /\ TablesOK(tables) /\ StackOK(tables, walk.stack, walk.up)
  BY <1>0, <1>2, WalkFacts
<1>6. PICK w : w = walk'
  OBVIOUS
<1>7. /\ w.vaddr = walk.vaddr /\ w.size = walk.size /\ w.off = walk.off /\ w.piece = walk.piece
      /\ w.up = FALSE /\ w.stack = walk.stack
  BY <1>1, <1>5, <1>6 DEF WalkType
<1>8. Met(L, n, tables, Excused(pc, walk), Used(PartsOf(maps \cup lost, pc, walk, req)))
  BY <1>3, Zenon DEF Maps
<1>9. Met(L, n, tables, Excused(pc, w), Used(PartsOf(maps \cup lost, pc, walk, req)))
  <2>1. CASE pc = "unmap"
    <3>1. Excused(pc, walk) = StackTables(walk.stack)
      BY <1>1, <2>1 DEF Excused
    <3>2. PICK m : m = Len(walk.stack)
      OBVIOUS
    <3>3. Top = walk.stack[m] /\ m \in Nat \ {0} /\ m \in 1..m
      BY <1>5, <3>2, TopIs
    <3>4. ASSUME NEW t \in StackTables(walk.stack), t # Root
          PROVE  \E v \in Used(PartsOf(maps \cup lost, pc, walk, req)) : On(n, tables, t, v)
      <4>1. PICK i \in 1..m : t = walk.stack[i].pt
        BY <3>2, <3>4 DEF StackTables
      <4>2. Top.pt # Root
        <5>1. SUFFICES ASSUME Top.pt = Root PROVE FALSE
          OBVIOUS
        <5>2. walk.stack[1].pt = Root /\ tables[Root].lv = 1
          BY <1>5 DEF StackOK, TablesOK
        <5>3. tables[walk.stack[m].pt].lv = m
          BY <1>5, <3>2, TopIs
        <5>4. m = 1
          BY <3>3, <5>1, <5>2, <5>3
        <5>5. i = 1
          BY <5>4
        <5> QED
          BY <3>4, <4>1, <5>2, <5>5
      <4>3. PICK v \in Used(PartsOf(maps \cup lost, pc, walk, req)) : On(n, tables, Top.pt, v)
        BY <1>0, <1>1, <1>3, <2>1, <4>2, TopMet
      <4>4. v \in Nat
        BY DEF Used
      <4>5. \A j \in 1..Len(walk.stack) : walk.stack[j].pt \in L
        BY <1>4 DEF Follows
      <4>6. On(n, tables, walk.stack[Len(walk.stack)].pt, v) /\ i \in 1..Len(walk.stack)
        BY <3>2, <3>3, <4>3
      <4>7. On(n, tables, walk.stack[i].pt, v)
        BY <1>4, <1>5, <4>4, <4>5, <4>6, StackOn
      <4> QED
        BY <4>1, <4>7
    <3> QED
      BY <1>8, <3>1, <3>4 DEF Met
  <2>2. CASE pc # "unmap"
    <3>1. Excused(pc, walk) = {}
      BY <1>1, <2>2 DEF Excused
    <3> QED
      BY <1>8, <3>1, MetKept
  <2> QED
    BY <2>1, <2>2
<1>10. Follows(L, n, tables, w.stack, walk.vaddr)
  BY <1>4, <1>7
<1> QED
  BY <1>1, <1>2, <1>3, <1>6, <1>7, <1>9, <1>10, SteadyTurns

\* The entry a traversal is at when it is not on the way up
EntryAt(L, n, T, stack, m, v) ==
  /\ m \in 1..Levels /\ m \in Nat \ {0} /\ m \in 1..m
  /\ stack[m].pt \in L /\ stack[m].pt \in DOMAIN T /\ T[stack[m].pt].lv = m
  /\ stack[m].idx \in DOMAIN T[stack[m].pt].pte /\ stack[m].idx \in Nat
  /\ Under(n, T, stack[m].pt, stack[m].idx, v) /\ On(n, T, stack[m].pt, v)
  /\ Place(m, v) = stack[m].idx
  /\ Top = stack[m] /\ Level = m /\ Covers = PteCovers[m] /\ Entry = T[stack[m].pt].pte[stack[m].idx]
  /\ \A t \in StackTables(stack) : t \in L /\ On(n, T, t, v)

LEMMA EntryIs ==
  ASSUME IInv, pc \in Traversing, ~walk.up, NEW L, NEW n, Tree(L, n, tables),
         Follows(L, n, tables, walk.stack, walk.vaddr), NEW m, m = Len(walk.stack)
  PROVE  EntryAt(L, n, tables, walk.stack, m, walk.vaddr)
<1>1. TablesOK(tables) /\ StackOK(tables, walk.stack, walk.up) /\ walk.vaddr \in Nat /\ walk.up = FALSE
  BY WalkFacts
<1>2. /\ Top = walk.stack[m] /\ Level = m /\ Covers = PteCovers[m] /\ m \in 1..Levels
      /\ m \in Nat \ {0} /\ m \in 1..m /\ walk.stack[m].idx \in Nat
      /\ walk.stack[m].pt \in DOMAIN tables /\ tables[walk.stack[m].pt].lv = m /\ walk.stack[m].idx < PteCnt[m]
  BY <1>1, TopIs
<1>3. PICK v \in Nat : v = walk.vaddr
  BY <1>1
<1>4. PICK stack : stack = walk.stack
  OBVIOUS
<1>5. TablesOK(tables) /\ StackOK(tables, stack, FALSE) /\ Follows(L, n, tables, stack, v)
      /\ m = Len(stack) /\ stack[m].idx < PteCnt[m]
  BY <1>1, <1>2, <1>3, <1>4
<1>6. /\ stack[m].pt \in L /\ stack[m].idx \in DOMAIN tables[stack[m].pt].pte
      /\ Under(n, tables, stack[m].pt, stack[m].idx, v) /\ On(n, tables, stack[m].pt, v)
      /\ Place(m, v) = stack[m].idx
  <2>1. stack[m].pt \in L /\ stack[m].idx \in DOMAIN tables[stack[m].pt].pte
    BY <1>5, TopOn
  <2>2. Under(n, tables, stack[m].pt, stack[m].idx, v) /\ On(n, tables, stack[m].pt, v)
    BY <1>5, TopOn
  <2>3. Place(tables[stack[m].pt].lv, v) = stack[m].idx
    BY <1>5, <2>1, <2>2, UnderIs
  <2>4. Place(m, v) = stack[m].idx
    BY <1>2, <1>4, <2>3
  <2> QED
    BY <2>1, <2>2, <2>4
<1>7. \A i \in 1..m : On(n, tables, stack[i].pt, v)
  BY <1>5, TopOn
<1>8. \A i \in 1..m : stack[i].pt \in L
  BY <1>5 DEF Follows
<1>9. \A t \in StackTables(stack) : t \in L /\ On(n, tables, t, v)
  BY <1>5, <1>7, <1>8 DEF StackTables
<1>10. Entry = tables[stack[m].pt].pte[stack[m].idx]
  BY <1>2, <1>4 DEF Entry
<1> QED
  BY <1>2, <1>3, <1>4, <1>6, <1>9, <1>10 DEF EntryAt

LEMMA SteadyCreateTableRaises == ASSUME TInv, CreateTableRaises PROVE Steady'
<1>1. /\ Walking /\ pc = "map" /\ Lose(req) /\ pc' = "idle" /\ req' = NoReq /\ walk' = NoWalk
      /\ UNCHANGED <<tables, pa, va, maps>>
  BY DEF CreateTableRaises
<1>2. pc \in Traversing /\ pc \in Providing /\ ~walk.up /\ walk.size > 0
  BY <1>1 DEF Walking, Traversing, Providing
<1>0. IInv /\ TablesOK(tables)
  BY DEF TInv, IInv
<1>3. PICK L, n : Maps(L, n, tables, "map", walk, req, maps, lost)
  BY <1>1 DEF TInv, Steady
<1>4. PICK r : r = [va |-> req.va, size |-> req.size, pieces |-> req.pieces]
  OBVIOUS
<1>5. lost' = lost \cup {r} /\ r.va = req.va /\ r.size = req.size /\ r.pieces = req.pieces
  BY <1>1, <1>4 DEF Lose
<1>6. PagedRanges(maps \cup lost') /\ lost \subseteq lost'
  BY <1>2, <1>4, <1>5, LostPaged
<1>7. /\ req.va \in Nat /\ req.size \in Nat /\ walk.vaddr \in Nat /\ req.va <= walk.vaddr
      /\ walk.size \in Int /\ walk.vaddr + walk.size <= req.va + req.size
  <2>1. req.va <= walk.vaddr
    BY <1>2 DEF TInv, Steady, Straight
  <2> QED
    BY <1>0, <1>2, <2>1, WalkFacts
<1>8. PICK v \in Nat : v = walk.vaddr /\ InPart(Whole(r), v)
  <2>1. Whole(r).from = req.va /\ Whole(r).to = req.va + req.size
    BY <1>5, PartIs DEF Whole
  <2> QED
    BY <1>2, <1>7, <2>1 DEF InPart
<1>9. Within(Current("map", walk, req), Whole(r))
  <2>1. PICK p, q : p = Current("map", walk, req) /\ q = Whole(r)
    OBVIOUS
  <2>2. /\ p.va = req.va /\ p.size = req.size /\ p.pieces = req.pieces
        /\ p.from = req.va /\ p.to = walk.vaddr
    BY <2>1, PartIs DEF Current
  <2>3. /\ q.va = req.va /\ q.size = req.size /\ q.pieces = req.pieces
        /\ q.from = req.va /\ q.to = req.va + req.size
    BY <1>5, <2>1, PartIs DEF Whole
  <2>4. \A u \in Nat : InPart(p, u) => InPart(q, u)
    BY <1>2, <1>7, <2>2, <2>3 DEF InPart
  <2> QED
    BY <2>1, <2>2, <2>3, <2>4 DEF Within, SameRange
<1>10. ASSUME NEW own PROVE PartsOf(own, "idle", NoWalk, NoReq) = {Whole(o) : o \in own}
  BY PartsOutside
<1>11. ASSUME NEW own PROVE PartsOf(own, "map", walk, req) = {Whole(o) : o \in own} \cup {Current("map", walk, req)}
  BY PartsInside
<1>12. Grows(PartsOf(maps \cup lost, "map", walk, req), PartsOf(maps \cup lost', "idle", NoWalk, NoReq))
  <2>1. PICK P, Q : P = PartsOf(maps \cup lost, "map", walk, req) /\ Q = PartsOf(maps \cup lost', "idle", NoWalk, NoReq)
    OBVIOUS
  <2>2. P = {Whole(o) : o \in maps \cup lost} \cup {Current("map", walk, req)}
    BY <1>11, <2>1
  <2>3. Q = {Whole(o) : o \in maps \cup lost'}
    BY <1>10, <2>1
  <2>4. Whole(r) \in Q
    BY <1>5, <2>3
  <2>5. {Whole(o) : o \in maps \cup lost} \subseteq Q
    BY <1>6, <2>3
  <2>6. \A p \in Q : Within(p, p)
    BY DEF Within, SameRange
  <2> QED
    BY <1>9, <2>1, <2>2, <2>4, <2>5, <2>6 DEF Grows
<1>13. Used(PartsOf(maps, "idle", NoWalk, NoReq)) \subseteq Used(PartsOf(maps, "map", walk, req))
  BY <1>10, <1>11 DEF Used
<1>14. Met(L, n, tables, Excused("idle", NoWalk), Used(PartsOf(maps \cup lost', "idle", NoWalk, NoReq)))
  <2>1. PICK W : W = Used(PartsOf(maps \cup lost', "idle", NoWalk, NoReq))
    OBVIOUS
  <2>2. v \in W
    <3>1. Whole(r) \in PartsOf(maps \cup lost', "idle", NoWalk, NoReq)
      BY <1>5, <1>10
    <3> QED
      BY <1>8, <2>1, <3>1 DEF Used
  <2>3. Used(PartsOf(maps \cup lost, "map", walk, req)) \subseteq W
    BY <1>12, <2>1, UsedGrows
  <2>4. Met(L, n, tables, Excused("map", walk), Used(PartsOf(maps \cup lost, "map", walk, req)))
    BY <1>3, Zenon DEF Maps
  <2>5. \A t \in Excused("map", walk) : On(n, tables, t, v)
    <3>1. Tree(L, n, tables) /\ Follows(L, n, tables, walk.stack, walk.vaddr)
      BY <1>3, LoopsApart, Zenon DEF Maps
    <3>2. PICK m : m = Len(walk.stack)
      OBVIOUS
    <3>3. EntryAt(L, n, tables, walk.stack, m, walk.vaddr)
      BY <1>0, <1>2, <3>1, <3>2, EntryIs
    <3>4. Excused("map", walk) \subseteq StackTables(walk.stack)
      BY DEF Excused
    <3> QED
      BY <1>8, <3>3, <3>4 DEF EntryAt
  <2> QED
    BY <2>1, <2>2, <2>3, <2>4, <2>5 DEF Met
<1>15. Maps(L, n, tables, "idle", NoWalk, NoReq, maps, lost')
  BY <1>0, <1>3, <1>12, <1>13, <1>14, LoopsApart, MapsMove
<1>16. Straight("idle", NoWalk, NoReq)
  BY LoopsApart DEF Straight
<1>17. \E L2, n2 : Maps(L2, n2, tables', pc', walk', req', maps', lost')
  BY <1>1, <1>15
<1> QED
  BY <1>1, <1>6, <1>16, <1>17 DEF Steady

-----------------------------------------------------------------------------
(* A table is added to the tree.                                           *)

\* What is said of a table and of an entry depends on nothing else.
LEMMA OnSame ==
  ASSUME NEW n, NEW T, NEW n2, NEW U, NEW t, U[t].lv = T[t].lv, n2[t] = n[t]
  PROVE  /\ \A v : On(n2, U, t, v) <=> On(n, T, t, v)
         /\ \A i, v : Under(n2, U, t, i, v) <=> Under(n, T, t, i, v)
         /\ \A i : Number(n2, U, t, i) = Number(n, T, t, i)
  BY DEF On, Under, Number

LEMMA BackedSame ==
  ASSUME NEW n, NEW T, NEW n2, NEW U, NEW t, U[t].lv = T[t].lv, n2[t] = n[t],
         NEW i, U[t].pte[i] = T[t].pte[i], NEW p, Backed(n, T, t, i, p)
  PROVE  Backed(n2, U, t, i, p)
<1>1. \A v : Under(n2, U, t, i, v) <=> Under(n, T, t, i, v)
  BY OnSame
<1> QED
  BY <1>1 DEF Backed

\* The entries of a tree with a table more
Extended(U, T, t, idx, a, l) ==
  /\ \A x \in DOMAIN T : /\ U[x].lv = T[x].lv /\ DOMAIN U[x].pte = DOMAIN T[x].pte
                         /\ \A i \in DOMAIN T[x].pte : (x # t \/ i # idx) => U[x].pte[i] = T[x].pte[i]
  /\ U[t].pte[idx] = TableAt(a)
  /\ U[a].lv = l /\ \A i \in DOMAIN U[a].pte : U[a].pte[i].kind = "none"

LEMMA AddedIs ==
  ASSUME NEW T, TablesOK(T), NEW t \in DOMAIN T, NEW idx \in DOMAIN T[t].pte,
         NEW l \in 1..Levels, NEW a, a \notin DOMAIN T, NEW U, U = Added(T, t, idx, a, l)
  PROVE  Extended(U, T, t, idx, a, l)
<1>1. PICK S : S = [T EXCEPT ![t].pte[idx] = TableAt(a)]
  OBVIOUS
<1>2. U = [x \in DOMAIN T \cup {a} |-> IF x = a THEN NewTable(l) ELSE S[x]]
  BY <1>1 DEF Added
<1>3. U[a] = NewTable(l)
  BY <1>2
<1>4. ASSUME NEW x \in DOMAIN T
      PROVE  /\ U[x].lv = T[x].lv /\ DOMAIN U[x].pte = DOMAIN T[x].pte
             /\ \A i \in DOMAIN T[x].pte : (x # t \/ i # idx) => U[x].pte[i] = T[x].pte[i]
             /\ x = t => U[t].pte[idx] = TableAt(a)
  <2>1. U[x] = S[x]
    BY <1>2, <1>4
  <2>2. CASE x # t
    <3>1. S[x] = T[x]
      BY <1>1, <2>2
    <3> QED
      BY <2>1, <2>2, <3>1
  <2>3. CASE x = t
    <3>1. T[t] = [lv |-> T[t].lv, pte |-> T[t].pte]
      BY TableIs
    <3>2. PICK pte : pte = [T[t].pte EXCEPT ![idx] = TableAt(a)]
      OBVIOUS
    <3>3. S[t] = [lv |-> T[t].lv, pte |-> pte]
      <4>1. S[t] = [T[t] EXCEPT !.pte[idx] = TableAt(a)]
        BY <1>1
      <4>2. [T[t] EXCEPT !.pte[idx] = TableAt(a)] = [T[t] EXCEPT !.pte = pte]
        BY <3>2
      <4> QED
        BY <3>1, <4>1, <4>2
    <3>4. S[t].lv = T[t].lv /\ S[t].pte = pte
      BY <3>3
    <3>5. DOMAIN pte = DOMAIN T[t].pte /\ pte[idx] = TableAt(a) /\ \A i \in DOMAIN T[t].pte : i # idx => pte[i] = T[t].pte[i]
      BY <3>2
    <3> QED
      BY <2>1, <2>3, <3>4, <3>5
  <2> QED
    BY <2>2, <2>3
<1>5. U[a].lv = l /\ \A i \in DOMAIN U[a].pte : U[a].pte[i].kind = "none"
  BY <1>3 DEF NewTable, None
<1> QED
  BY <1>4, <1>5 DEF Extended

\* No other table is at its place.
LEMMA PlaceFree ==
  ASSUME NEW T, TablesOK(T), NEW L, NEW n, Tree(L, n, T), NEW t \in L, NEW idx \in DOMAIN T[t].pte,
         T[t].pte[idx].kind # "table", NEW u \in L, T[u].lv = T[t].lv + 1
  PROVE  n[u] # Number(n, T, t, idx)
<1>1. SUFFICES ASSUME n[u] = Number(n, T, t, idx) PROVE FALSE
  OBVIOUS
<1>2. T[t].lv \in 1..Levels /\ T[u].lv \in 1..Levels
  BY TreeTable
<1>3. PICK v \in Nat : Under(n, T, t, idx, v)
  BY EntryAddress
<1>4. On(n, T, t, v) /\ Place(T[t].lv, v) = idx
  BY <1>3, UnderIs
<1>5. On(n, T, u, v)
  <2>1. Above(T[u].lv, v) = At(T[t].lv, v)
    BY <1>2, AboveIs
  <2> QED
    BY <1>1, <1>3, <2>1 DEF On, Under
<1>6. u # Root
  BY <1>2 DEF TablesOK
<1>7. PICK s \in L : T[s].lv + 1 = T[u].lv /\ On(n, T, s, v) /\ Points(T, s, Place(T[s].lv, v), u)
  BY <1>5, <1>6, ParentOn
<1>8. T[s].lv = T[t].lv
  <2>1. T[s].lv \in 1..Levels
    BY TreeTable
  <2> QED
    BY <1>2, <1>7, <2>1
<1>9. s = t
  BY <1>4, <1>7, <1>8, OneTable
<1>10. T[t].pte[idx] = TableAt(u)
  BY <1>4, <1>7, <1>9 DEF Points
<1> QED
  BY <1>10 DEF TableAt

NewNumbers(n, T, t, idx, a, M) == [x \in M |-> IF x = a THEN Number(n, T, t, idx) ELSE n[x]]
LEMMA TreeGrows ==
  ASSUME NEW T, TablesOK(T), NEW L, NEW n, Tree(L, n, T), NEW t \in L, NEW idx \in DOMAIN T[t].pte,
         T[t].pte[idx].kind = "none", NEW l \in 1..Levels, l = T[t].lv + 1, NEW a, a \notin DOMAIN T,
         NEW U, TablesOK(U), DOMAIN U = DOMAIN T \cup {a}, Extended(U, T, t, idx, a, l), Points(U, t, idx, a),
         NEW M, M = L \cup {a}, NEW n2, n2 = NewNumbers(n, T, t, idx, a, M)
  PROVE  Tree(M, n2, U)
<1>1. L \subseteq DOMAIN T /\ Root \in L /\ n \in [L -> Nat] /\ n[Root] = 0 /\ a \notin L
  BY DEF Tree
<1>2. n2[a] = Number(n, T, t, idx) /\ \A x \in L : n2[x] = n[x]
  BY <1>1 DEF NewNumbers
<1>3. \A x \in L : U[x].lv = T[x].lv /\ \A i : Number(n2, U, x, i) = Number(n, T, x, i)
  <2>1. \A x \in L : U[x].lv = T[x].lv
    BY <1>1 DEF Extended
  <2>2. ASSUME NEW x \in L PROVE \A i : Number(n2, U, x, i) = Number(n, T, x, i)
    <3>1. n2[x] = n[x] /\ U[x].lv = T[x].lv
      BY <1>2, <2>1
    <3> QED
      BY <3>1, OnSame
  <2> QED
    BY <2>1, <2>2
<1>4. U[a].lv = l
  BY DEF Extended
<1>5. ASSUME NEW x \in M, NEW i, NEW b, Points(U, x, i, b)
      PROVE  (x = t /\ i = idx /\ b = a) \/ (x \in L /\ Points(T, x, i, b))
  <2>1. i \in DOMAIN U[x].pte /\ U[x].pte[i] = TableAt(b)
    BY <1>5 DEF Points
  <2>2. U[x].pte[i].kind = "table"
    BY <2>1 DEF TableAt
  <2>3. x \in L
    BY <2>1, <2>2 DEF Extended
  <2>4. i \in DOMAIN T[x].pte
    BY <1>1, <2>1, <2>3 DEF Extended
  <2>5. CASE x = t /\ i = idx
    <3>1. Points(U, t, idx, b) /\ Points(U, t, idx, a)
      BY <1>5, <2>5
    <3>2. TableAt(a) = TableAt(b)
      BY <3>1 DEF Points
    <3>3. a = b
      BY <3>2, EntryTypes
    <3> QED
      BY <2>5, <3>3
  <2>6. CASE x # t \/ i # idx
    <3>1. T[x].pte[i] = TableAt(b)
      BY <1>1, <2>1, <2>3, <2>4, <2>6 DEF Extended
    <3> QED
      BY <1>1, <2>3, <2>4, <3>1 DEF Points
  <2> QED
    BY <2>5, <2>6
<1>6. ASSUME NEW x, NEW i, NEW b, x \in M /\ Points(U, x, i, b) PROVE b \in M /\ n2[b] = Number(n2, U, x, i)
  <2>1. CASE x = t /\ i = idx /\ b = a
    BY <1>2, <1>3, <2>1
  <2>2. CASE x \in L /\ Points(T, x, i, b)
    <3>1. b \in L /\ n[b] = Number(n, T, x, i)
      BY <2>2, TreeEntry
    <3> QED
      BY <1>2, <1>3, <2>2, <3>1
  <2> QED
    BY <1>5, <1>6, <2>1, <2>2
<1>7. ASSUME NEW b \in M \ {Root} PROVE \E x \in M : \E i : Points(U, x, i, b)
  <2>1. CASE b = a
    BY <2>1
  <2>2. CASE b # a
    <3>1a. PICK x \in L : \E i : Points(T, x, i, b)
      BY <2>2 DEF Tree
    <3>1. PICK i : Points(T, x, i, b)
      BY <3>1a
    <3>2. x \in DOMAIN T /\ i \in DOMAIN T[x].pte /\ T[x].pte[i] = TableAt(b)
      BY <3>1 DEF Points
    <3>3. x # t \/ i # idx
      BY <3>2 DEF TableAt
    <3>4. U[x].pte[i] = TableAt(b) /\ i \in DOMAIN U[x].pte /\ x \in DOMAIN U
      BY <3>2, <3>3 DEF Extended
    <3>5. Points(U, x, i, b)
      BY <3>4 DEF Points
    <3> QED
      BY <3>5
  <2> QED
    BY <2>1, <2>2
<1>8. ASSUME NEW x \in M, NEW y \in M, U[x].lv = U[y].lv, n2[x] = n2[y] PROVE x = y
  <2>1. ASSUME NEW u \in L, U[u].lv = l, n2[u] = n2[a] PROVE FALSE
    <3>1. T[u].lv = T[t].lv + 1 /\ n[u] = Number(n, T, t, idx)
      BY <1>2, <1>3, <2>1
    <3> QED
      BY <3>1, PlaceFree
  <2>2. CASE x = a \/ y = a
    BY <1>4, <1>8, <2>1, <2>2
  <2>3. CASE x # a /\ y # a
    <3>1. x \in L /\ y \in L /\ T[x].lv = T[y].lv /\ n[x] = n[y]
      BY <1>2, <1>3, <1>8, <2>3
    <3> QED
      BY <3>1 DEF Tree
  <2> QED
    BY <2>2, <2>3
<1>9. n2 \in [M -> Nat]
  <2>1. Number(n, T, t, idx) \in Nat
    <3>1. n[t] \in Nat /\ PteCnt[T[t].lv] \in Nat /\ idx \in Nat
      <4>1. n[t] \in Nat /\ T[t].lv \in 1..Levels /\ DOMAIN T[t].pte = 0..(PteCnt[T[t].lv] - 1)
        BY TreeTable
      <4>2. PteCnt[T[t].lv] \in Nat
        BY <4>1, CoversAre
      <4> QED
        BY <4>1, <4>2
    <3>2. n[t] * PteCnt[T[t].lv] \in Nat
      BY <3>1
    <3> QED
      BY <3>1, <3>2 DEF Number
  <2> QED
    BY <1>1, <2>1 DEF NewNumbers
<1>10. Root \in M /\ M \subseteq DOMAIN U /\ n2[Root] = 0
  BY <1>1, <1>2
<1>11. \A x, i, b : x \in M /\ Points(U, x, i, b) => b \in M /\ n2[b] = Number(n2, U, x, i)
  BY <1>6, Zenon
<1> QED
  BY <1>7, <1>8, <1>9, <1>10, <1>11 DEF Tree

\* What is mapped stays mapped when a table is added.
Agrees(n2, n, L) == \A x \in L : n2[x] = n[x]
Says(L, n, T, P, V, X, W) == Right(L, n, T, P) /\ Covered(L, n, T, V) /\ Met(L, n, T, X, W)
LEMMA MapsAdded ==
  ASSUME NEW T, TablesOK(T), NEW L, NEW n, Tree(L, n, T), NEW t \in L, NEW idx \in DOMAIN T[t].pte,
         T[t].pte[idx].kind = "none", NEW l, NEW a, a \notin DOMAIN T,
         NEW U, Extended(U, T, t, idx, a, l),
         NEW M, M = L \cup {a}, NEW n2, Agrees(n2, n, L),
         NEW P, NEW V, NEW X, NEW W, Says(L, n, T, P, V, X, W), NEW Y, X \subseteq Y, a \in Y
  PROVE  Says(M, n2, U, P, V, Y, W)
<1>0. Right(L, n, T, P) /\ Covered(L, n, T, V) /\ Met(L, n, T, X, W)
  BY DEF Says
<1>1. L \subseteq DOMAIN T
  BY DEF Tree
<1>2. \A x \in L : U[x].lv = T[x].lv /\ n2[x] = n[x] /\ DOMAIN U[x].pte = DOMAIN T[x].pte
  BY <1>1 DEF Extended, Agrees
<1>3. ASSUME NEW x \in M, NEW i, PageEntry(U, x, i)
      PROVE  x \in L /\ PageEntry(T, x, i) /\ U[x].pte[i] = T[x].pte[i]
  <2>1. i \in DOMAIN U[x].pte /\ U[x].pte[i].kind = "page"
    BY <1>3 DEF PageEntry
  <2>2. x # a
    BY <2>1 DEF Extended
  <2>3. x \in L /\ i \in DOMAIN T[x].pte
    BY <1>2, <2>1, <2>2
  <2>4. x # t \/ i # idx
    BY <2>1 DEF Extended, TableAt
  <2>5. U[x].pte[i] = T[x].pte[i]
    BY <1>1, <2>3, <2>4 DEF Extended
  <2> QED
    BY <2>1, <2>3, <2>5 DEF PageEntry
<1>4. ASSUME NEW x \in L, NEW i, PageEntry(T, x, i) PROVE PageEntry(U, x, i)
  <2>1. i \in DOMAIN T[x].pte /\ T[x].pte[i].kind = "page"
    BY <1>4 DEF PageEntry
  <2>2. x # t \/ i # idx
    BY <2>1
  <2>3. U[x].pte[i] = T[x].pte[i]
    BY <1>1, <2>1, <2>2 DEF Extended
  <2> QED
    BY <1>2, <2>1, <2>3 DEF PageEntry
<1>5. Right(M, n2, U, P)
  <2>1. SUFFICES ASSUME NEW x \in M, NEW i, PageEntry(U, x, i) PROVE \E p \in P : Backed(n2, U, x, i, p)
    BY DEF Right
  <2>2. x \in L /\ PageEntry(T, x, i) /\ U[x].pte[i] = T[x].pte[i]
    BY <1>3, <2>1
  <2>3. PICK p \in P : Backed(n, T, x, i, p)
    BY <1>0, <2>2 DEF Right
  <2>4. Backed(n2, U, x, i, p)
    BY <1>2, <2>2, <2>3, BackedSame
  <2> QED
    BY <2>4
<1>6. Covered(M, n2, U, V)
  <2>1. SUFFICES ASSUME NEW v \in V PROVE \E x \in M : \E i : PageEntry(U, x, i) /\ Under(n2, U, x, i, v)
    BY DEF Covered
  <2>2a. PICK x \in L : \E i : PageEntry(T, x, i) /\ Under(n, T, x, i, v)
    BY <1>0 DEF Covered
  <2>2. PICK i : PageEntry(T, x, i) /\ Under(n, T, x, i, v)
    BY <2>2a
  <2>3. Under(n2, U, x, i, v)
    BY <1>2, <2>2, OnSame
  <2> QED
    BY <1>4, <2>2, <2>3
<1>7. Met(M, n2, U, Y, W)
  <2>1. SUFFICES ASSUME NEW x \in M \ {Root}, x \notin Y PROVE \E v \in W : On(n2, U, x, v)
    BY DEF Met
  <2>2. x \in L \ {Root} /\ x \notin X
    BY <2>1
  <2>3. PICK v \in W : On(n, T, x, v)
    BY <1>0, <2>2 DEF Met
  <2>4. On(n2, U, x, v)
    BY <1>2, <2>2, <2>3, OnSame
  <2> QED
    BY <2>4
<1> QED
  BY <1>5, <1>6, <1>7 DEF Says

LEMMA SteadyCreateTable == ASSUME TInv, CreateTable PROVE Steady'
<1>1. /\ Walking /\ GoesDown /\ pc = "map" /\ ~Valid(Entry) /\ UNCHANGED <<pc, req, va, maps, lost>>
  BY DEF CreateTable
<1>2. pc \in Traversing /\ ~walk.up /\ walk.size > 0 /\ ~Busy(pa)
  BY <1>1 DEF Walking, Ready, Traversing
<1>0. IInv /\ TablesOK(tables)
  BY DEF TInv, IInv
<1>3. walk \in WalkType /\ walk.vaddr \in Nat /\ StackOK(tables, walk.stack, FALSE)
  BY <1>0, <1>2, WalkFacts
<1>4. PICK L, n : Maps(L, n, tables, "map", walk, req, maps, lost)
  BY <1>1 DEF TInv, Steady
<1>5. Tree(L, n, tables) /\ Follows(L, n, tables, walk.stack, walk.vaddr)
  BY <1>4, LoopsApart, Zenon DEF Maps
<1>6. PICK m, stack : m = Len(stack) /\ stack = walk.stack
  OBVIOUS
<1>7. EntryAt(L, n, tables, stack, m, walk.vaddr)
  BY <1>0, <1>2, <1>5, <1>6, EntryIs
<1>8. PICK t, idx, l : t = stack[m].pt /\ idx = stack[m].idx /\ l = m + 1
  OBVIOUS
<1>9. /\ m \in 1..Levels /\ m \in Nat /\ Level = m /\ Top.pt = t /\ Top.idx = idx
      /\ t \in L /\ t \in DOMAIN tables /\ idx \in DOMAIN tables[t].pte /\ tables[t].lv = m
      /\ Place(m, walk.vaddr) = idx /\ Entry = tables[t].pte[idx]
  BY <1>7, <1>8 DEF EntryAt
<1>10. l \in 1..Levels /\ l = tables[t].lv + 1
  <2>1. m # Levels
    BY <1>0, <1>1, <1>9, LastLevelMaps
  <2>2. Levels \in Nat
    BY CoversAre
  <2> QED
    BY <1>8, <1>9, <2>1, <2>2
<1>11. tables[t].pte[idx].kind = "none"
  BY <1>1, <1>9 DEF Valid
<1>12. PICK a : /\ Palloc(Page, Page, a)
                /\ tables' = [x \in DOMAIN tables \cup {a} |->
                                IF x = a THEN NewTable(Level + 1)
                                ELSE SetEntry(Top.pt, Top.idx, TableAt(a))[x]]
                /\ walk' = Push(a, Level + 1)
  BY DEF CreateTable
<1>13. a \in Nat /\ a \notin DOMAIN tables
  <2>1. HeapsOK /\ HeapInv(pa) /\ PiecesOwned(maps \cup lost, req.pieces, tables, pa)
    BY <1>0 DEF IInv, HeapsOK
  <2>2. a \in Nat /\ ~IsTaken(pa, a)
    BY <1>2, <1>12, <2>1, PagePaged, PallocIs
  <2>3. a # Root
    BY <2>2 DEF Root
  <2>4. \A x \in DOMAIN tables \ {Root} : IsTaken(pa, x)
    BY <2>1, OwnedTaken
  <2> QED
    BY <2>2, <2>3, <2>4
<1>14. PICK U : U = Added(tables, t, idx, a, l)
  OBVIOUS
<1>15. tables' = U
  BY <1>8, <1>9, <1>12, <1>14 DEF Added, SetEntry
<1>16. /\ TablesOK(U) /\ DOMAIN U = DOMAIN tables \cup {a} /\ Points(U, t, idx, a)
       /\ SameBut(U, tables, t)
  <2>1. TablesOK(U)
    BY <1>0, <1>9, <1>10, <1>11, <1>13, <1>14, TableAdded, ZenonT(60)
  <2>2. DOMAIN U = DOMAIN tables \cup {a}
    BY <1>0, <1>9, <1>10, <1>11, <1>13, <1>14, TableAdded
  <2>3. Points(U, t, idx, a)
    BY <1>0, <1>9, <1>10, <1>11, <1>13, <1>14, TableAdded, ZenonT(60)
  <2>4. SameBut(U, tables, t)
    BY <1>0, <1>9, <1>10, <1>11, <1>13, <1>14, TableAdded, ZenonT(60)
  <2> QED
    BY <2>1, <2>2, <2>3, <2>4
<1>17. Extended(U, tables, t, idx, a, l)
  BY <1>0, <1>9, <1>10, <1>13, <1>14, AddedIs
<1>18. PICK M, n2 : M = L \cup {a} /\ n2 = NewNumbers(n, tables, t, idx, a, M)
  OBVIOUS
<1>19. Tree(M, n2, U)
  BY <1>0, <1>5, <1>9, <1>10, <1>11, <1>13, <1>16, <1>17, <1>18, TreeGrows
<1>20. \A x \in L : n2[x] = n[x]
  <2>1. a \notin L
    BY <1>5, <1>13 DEF Tree
  <2> QED
    BY <1>18, <2>1 DEF NewNumbers
<1>21. PICK v \in Nat : v = walk.vaddr
  BY <1>3
<1>22. StackOK(U, stack, FALSE)
  <2>1. DOMAIN tables \subseteq DOMAIN U
    BY <1>16
  <2>2. StackOK(tables, stack, FALSE)
    BY <1>3, <1>6
  <2>3. SameBut(U, tables, stack[m].pt)
    BY <1>8, <1>16
  <2> QED
    BY <1>0, <1>6, <2>1, <2>2, <2>3, StackSet
<1>23. Follows(M, n2, U, stack, v)
  <2>1. \A i \in 1..Len(stack) : stack[i].pt \in M
    BY <1>5, <1>6, <1>18 DEF Follows
  <2>2. At(m, v) = Number(n, tables, t, idx)
    BY <1>5, <1>6, <1>8, <1>21 DEF Follows
  <2>3. U[t].lv = tables[t].lv /\ n2[t] = n[t]
    BY <1>9, <1>17, <1>20 DEF Extended
  <2>4. Number(n2, U, t, idx) = Number(n, tables, t, idx)
    BY <2>3, OnSame
  <2> QED
    BY <1>6, <1>8, <2>1, <2>2, <2>4 DEF Follows
<1>24. PICK new : new = Deeper(stack, a, l, v)
  OBVIOUS
<1>25. Follows(M, n2, U, new, v) /\ StackTables(stack) \subseteq StackTables(new)
  <2>1. Points(U, stack[m].pt, stack[m].idx, a)
    BY <1>8, <1>16
  <2>2. GoneDown(M, n2, U, stack, Deeper(stack, a, l, v), v)
    BY <1>6, <1>8, <1>10, <1>16, <1>19, <1>22, <1>23, <2>1, FollowsDown
  <2> QED
    BY <1>24, <2>2 DEF GoneDown
<1>26. a \in StackTables(new)
  <2>1. stack \in Seq(Frame0) /\ Len(stack) \in Nat
    BY <1>22, LenProperties DEF StackOK
  <2>2. PICK f : f = [pt |-> a, idx |-> Place(l, v)]
    OBVIOUS
  <2>3. new = Append(stack, f) /\ f.pt = a
    BY <1>24, <2>2 DEF Deeper
  <2>4. Len(new) = l /\ new[l] = f /\ l \in 1..l
    BY <1>6, <1>8, <1>9, <2>1, <2>3, AppendProperties
  <2> QED
    BY <2>3, <2>4 DEF StackTables
<1>27. PICK w : w = walk'
  OBVIOUS
<1>28. /\ w.vaddr = walk.vaddr /\ w.size = walk.size /\ w.off = walk.off /\ w.piece = walk.piece
       /\ w.up = walk.up /\ w.stack = new
  <2>1. w = [walk EXCEPT !.stack = new]
    BY <1>6, <1>8, <1>9, <1>12, <1>21, <1>24, <1>27 DEF Push, Place, At, Deeper
  <2> QED
    BY <1>3, <2>1 DEF WalkType
<1>29. \A own : PartsOf(own, "map", w, req) = PartsOf(own, "map", walk, req)
  BY <1>28, SamePlace
<1>30. Excused("map", walk) \subseteq Excused("map", w) /\ a \in Excused("map", w)
  BY <1>2, <1>6, <1>25, <1>26, <1>28 DEF Excused
<1>31. /\ Right(M, n2, U, PartsOf(maps \cup lost, "map", w, req))
       /\ Covered(M, n2, U, Used(PartsOf(maps, "map", w, req)))
       /\ Met(M, n2, U, Excused("map", w), Used(PartsOf(maps \cup lost, "map", w, req)))
  <2>1. PICK P, V, W : /\ P = PartsOf(maps \cup lost, "map", w, req)
                       /\ V = Used(PartsOf(maps, "map", w, req))
                       /\ W = Used(PartsOf(maps \cup lost, "map", w, req))
    OBVIOUS
  <2>2. Right(L, n, tables, P) /\ Covered(L, n, tables, V) /\ Met(L, n, tables, Excused("map", walk), W)
    BY <1>4, <1>29, <2>1, Zenon DEF Maps
  <2>3. PICK X, Y : X = Excused("map", walk) /\ Y = Excused("map", w)
    OBVIOUS
  <2>4. Says(L, n, tables, P, V, X, W)
    BY <2>2, <2>3 DEF Says
  <2>5. Agrees(n2, n, L)
    BY <1>20 DEF Agrees
  <2>6. Says(M, n2, U, P, V, Y, W)
    BY <1>0, <1>5, <1>9, <1>11, <1>13, <1>17, <1>18, <1>30, <2>3, <2>4, <2>5, MapsAdded
  <2> QED
    BY <2>1, <2>3, <2>6 DEF Says
<1>32. Maps(M, n2, U, "map", w, req, maps, lost)
  BY <1>19, <1>21, <1>25, <1>28, <1>31, Zenon DEF Maps
<1>33. Straight("map", w, req)
  <2>1. Straight("map", walk, req)
    BY <1>1 DEF TInv, Steady
  <2> QED
    BY <1>28, <2>1, LoopsApart DEF Straight
<1>34. PagedRanges(maps \cup lost)
  BY DEF TInv, Steady
<1>35. \E L2, m2 : Maps(L2, m2, tables', pc', walk', req', maps', lost')
  BY <1>1, <1>15, <1>27, <1>32
<1> QED
  BY <1>1, <1>27, <1>33, <1>34, <1>35 DEF Steady

-----------------------------------------------------------------------------
(* A table goes from the tree.                                             *)

Shrunk(U, T, u, idx, t) ==
  /\ \A x \in DOMAIN T \ {t} :
       /\ U[x].lv = T[x].lv /\ DOMAIN U[x].pte = DOMAIN T[x].pte
       /\ \A i \in DOMAIN T[x].pte : (x # u \/ i # idx) => U[x].pte[i] = T[x].pte[i]
  /\ U[u].pte[idx].kind = "none"

LEMMA RemovedIs ==
  ASSUME NEW T, TablesOK(T), NEW u \in DOMAIN T, NEW idx \in DOMAIN T[u].pte,
         NEW t, t # u, NEW U, U = Removed(T, u, idx, t)
  PROVE  Shrunk(U, T, u, idx, t)
<1>1. PICK S : S = [T EXCEPT ![u].pte[idx] = None]
  OBVIOUS
<1>2. U = [x \in DOMAIN T \ {t} |-> S[x]]
  BY <1>1 DEF Removed
<1>3. ASSUME NEW x \in DOMAIN T \ {t}
      PROVE  /\ U[x].lv = T[x].lv /\ DOMAIN U[x].pte = DOMAIN T[x].pte
             /\ \A i \in DOMAIN T[x].pte : (x # u \/ i # idx) => U[x].pte[i] = T[x].pte[i]
             /\ x = u => U[u].pte[idx] = None
  <2>1. U[x] = S[x]
    BY <1>2, <1>3
  <2>2. CASE x # u
    <3>1. S[x] = T[x]
      BY <1>1, <2>2
    <3> QED
      BY <2>1, <2>2, <3>1
  <2>3. CASE x = u
    <3>1. T[u] = [lv |-> T[u].lv, pte |-> T[u].pte]
      BY TableIs
    <3>2. PICK pte : pte = [T[u].pte EXCEPT ![idx] = None]
      OBVIOUS
    <3>3. S[u] = [lv |-> T[u].lv, pte |-> pte]
      <4>1. S[u] = [T[u] EXCEPT !.pte[idx] = None]
        BY <1>1
      <4>2. [T[u] EXCEPT !.pte[idx] = None] = [T[u] EXCEPT !.pte = pte]
        BY <3>2
      <4> QED
        BY <3>1, <4>1, <4>2
    <3>4. S[u].lv = T[u].lv /\ S[u].pte = pte
      BY <3>3
    <3>5. DOMAIN pte = DOMAIN T[u].pte /\ pte[idx] = None /\ \A i \in DOMAIN T[u].pte : i # idx => pte[i] = T[u].pte[i]
      BY <3>2
    <3> QED
      BY <2>1, <2>3, <3>4, <3>5
  <2> QED
    BY <2>2, <2>3
<1>4. U[u].pte[idx].kind = "none"
  <2>1. U[u].pte[idx] = None
    BY <1>3
  <2> QED
    BY <2>1 DEF None
<1> QED
  BY <1>3, <1>4 DEF Shrunk

\* An empty table
Empty(T, t) == \A i \in DOMAIN T[t].pte : T[t].pte[i].kind = "none"

LEMMA TreeShrinks ==
  ASSUME NEW T, TablesOK(T), NEW L, NEW n, Tree(L, n, T), NEW u \in L, NEW idx, NEW t, Points(T, u, idx, t),
         u # t, Empty(T, t), NEW U, TablesOK(U), DOMAIN U = DOMAIN T \ {t}, Shrunk(U, T, u, idx, t),
         NEW M, M = L \ {t}, NEW n2, n2 \in [M -> Nat], Agrees(n2, n, M)
  PROVE  Tree(M, n2, U)
<1>1. L \subseteq DOMAIN T /\ Root \in L /\ n \in [L -> Nat] /\ n[Root] = 0 /\ M \subseteq L
  BY DEF Tree
<1>2. t # Root
  BY Zenon DEF TablesOK
<1>3. ASSUME NEW x \in M
      PROVE  /\ U[x].lv = T[x].lv /\ DOMAIN U[x].pte = DOMAIN T[x].pte /\ n2[x] = n[x]
             /\ \A i : Number(n2, U, x, i) = Number(n, T, x, i)
  <2>1. U[x].lv = T[x].lv /\ DOMAIN U[x].pte = DOMAIN T[x].pte
    BY <1>1 DEF Shrunk
  <2>2. n2[x] = n[x]
    BY DEF Agrees
  <2> QED
    BY <2>1, <2>2, OnSame, SMTT(60)
<1>4. ASSUME NEW x, NEW i, NEW b, x \in M /\ Points(U, x, i, b) PROVE b \in M /\ n2[b] = Number(n2, U, x, i)
  <2>1. i \in DOMAIN T[x].pte /\ U[x].pte[i] = TableAt(b)
    BY <1>3, <1>4 DEF Points
  <2>2. x # u \/ i # idx
    BY <2>1 DEF Shrunk, TableAt
  <2>3. T[x].pte[i] = TableAt(b)
    BY <1>1, <1>4, <2>1, <2>2 DEF Shrunk
  <2>4. Points(T, x, i, b) /\ x \in L
    BY <1>1, <1>4, <2>1, <2>3 DEF Points
  <2>5. b \in L /\ n[b] = Number(n, T, x, i)
    BY <2>4, TreeEntry
  <2>6. b # t
    <3>1. SUFFICES ASSUME Points(T, x, i, t) PROVE FALSE
      BY <2>4
    <3>2. x = u /\ i = idx
      BY <3>1, Zenon DEF TablesOK
    <3> QED
      BY <2>2, <3>2
  <2> QED
    BY <1>3, <1>4, <2>5, <2>6
<1>5. ASSUME NEW b \in M \ {Root} PROVE \E x \in M : \E i : Points(U, x, i, b)
  <2>1a. PICK x \in L : \E i : Points(T, x, i, b)
    BY <1>1 DEF Tree
  <2>1. PICK i : Points(T, x, i, b)
    BY <2>1a
  <2>2. x \in DOMAIN T /\ i \in DOMAIN T[x].pte /\ T[x].pte[i] = TableAt(b)
    BY <2>1 DEF Points
  <2>3. x # t
    <3>1. T[x].pte[i].kind # "none"
      BY <2>2 DEF TableAt
    <3> QED
      BY <2>2, <3>1 DEF Empty
  <2>4. x # u \/ i # idx
    <3>1. SUFFICES ASSUME Points(T, u, idx, b) PROVE FALSE
      BY <2>1
    <3>2. TableAt(b) = TableAt(t)
      BY <3>1 DEF Points
    <3>3. b = t
      BY <3>2, EntryTypes
    <3> QED
      BY <3>3
  <2>5. U[x].pte[i] = TableAt(b) /\ i \in DOMAIN U[x].pte /\ x \in DOMAIN U
    BY <2>2, <2>3, <2>4 DEF Shrunk
  <2>6. Points(U, x, i, b)
    BY <2>5 DEF Points
  <2> QED
    BY <2>3, <2>6
<1>6. ASSUME NEW x \in M, NEW y \in M, U[x].lv = U[y].lv, n2[x] = n2[y] PROVE x = y
  <2>1. x \in L /\ y \in L /\ T[x].lv = T[y].lv /\ n[x] = n[y]
    BY <1>1, <1>3, <1>6
  <2> QED
    BY <2>1 DEF Tree
<1>7. Root \in M /\ M \subseteq DOMAIN U /\ n2[Root] = 0
  BY <1>1, <1>2, <1>3
<1> QED
  BY <1>4, <1>5, <1>6, <1>7 DEF Tree

LEMMA MapsRemoved ==
  ASSUME NEW T, TablesOK(T), NEW L, NEW n, Tree(L, n, T), NEW u \in L, NEW idx, NEW t, Points(T, u, idx, t),
         Empty(T, t), NEW U, Shrunk(U, T, u, idx, t),
         NEW M, M = L \ {t}, NEW n2, Agrees(n2, n, M),
         NEW P, NEW V, NEW X, NEW W, Says(L, n, T, P, V, X, W), NEW Y, X \subseteq Y \cup {t}
  PROVE  Says(M, n2, U, P, V, Y, W)
<1>0. Right(L, n, T, P) /\ Covered(L, n, T, V) /\ Met(L, n, T, X, W)
  BY DEF Says
<1>1. L \subseteq DOMAIN T
  BY DEF Tree
<1>2. \A x \in M : x \in L /\ U[x].lv = T[x].lv /\ n2[x] = n[x] /\ DOMAIN U[x].pte = DOMAIN T[x].pte
  BY <1>1 DEF Shrunk, Agrees
<1>3. ASSUME NEW x \in M, NEW i, PageEntry(U, x, i)
      PROVE  PageEntry(T, x, i) /\ U[x].pte[i] = T[x].pte[i]
  <2>1. i \in DOMAIN T[x].pte /\ U[x].pte[i].kind = "page"
    BY <1>2, <1>3 DEF PageEntry
  <2>2. x # u \/ i # idx
    BY <2>1 DEF Shrunk
  <2>3. U[x].pte[i] = T[x].pte[i]
    BY <1>1, <1>2, <2>1, <2>2 DEF Shrunk
  <2> QED
    BY <2>1, <2>3 DEF PageEntry
<1>4. ASSUME NEW x \in L, NEW i, PageEntry(T, x, i) PROVE x \in M /\ PageEntry(U, x, i)
  <2>1. i \in DOMAIN T[x].pte /\ T[x].pte[i].kind = "page"
    BY <1>4 DEF PageEntry
  <2>2. x # t
    BY <2>1 DEF Empty
  <2>3. x # u \/ i # idx
    BY <2>1 DEF Points, TableAt
  <2>4. U[x].pte[i] = T[x].pte[i]
    BY <1>1, <2>1, <2>2, <2>3 DEF Shrunk
  <2> QED
    BY <1>2, <2>1, <2>2, <2>4 DEF PageEntry
<1>5. Right(M, n2, U, P)
  <2>1. SUFFICES ASSUME NEW x \in M, NEW i, PageEntry(U, x, i) PROVE \E p \in P : Backed(n2, U, x, i, p)
    BY DEF Right
  <2>2. x \in L /\ PageEntry(T, x, i) /\ U[x].pte[i] = T[x].pte[i]
    BY <1>2, <1>3, <2>1
  <2>3. PICK p \in P : Backed(n, T, x, i, p)
    BY <1>0, <2>2 DEF Right
  <2>4. Backed(n2, U, x, i, p)
    BY <1>2, <2>2, <2>3, BackedSame
  <2> QED
    BY <2>4
<1>6. Covered(M, n2, U, V)
  <2>1. SUFFICES ASSUME NEW v \in V PROVE \E x \in M : \E i : PageEntry(U, x, i) /\ Under(n2, U, x, i, v)
    BY DEF Covered
  <2>2a. PICK x \in L : \E i : PageEntry(T, x, i) /\ Under(n, T, x, i, v)
    BY <1>0 DEF Covered
  <2>2. PICK i : PageEntry(T, x, i) /\ Under(n, T, x, i, v)
    BY <2>2a
  <2>3. x \in M /\ PageEntry(U, x, i)
    BY <1>4, <2>2
  <2>4. Under(n2, U, x, i, v)
    BY <1>2, <2>2, <2>3, OnSame
  <2> QED
    BY <2>3, <2>4
<1>7. Met(M, n2, U, Y, W)
  <2>1. SUFFICES ASSUME NEW x \in M \ {Root}, x \notin Y PROVE \E v \in W : On(n2, U, x, v)
    BY DEF Met
  <2>2. x \in L \ {Root} /\ x \notin X
    BY <1>2, <2>1
  <2>3. PICK v \in W : On(n, T, x, v)
    BY <1>0, <2>2 DEF Met
  <2>4. On(n2, U, x, v)
    BY <1>2, <2>2, <2>3, OnSame
  <2> QED
    BY <2>4
<1> QED
  BY <1>5, <1>6, <1>7 DEF Says

LEMMA SteadyFreeTable == ASSUME TInv, FreeTable PROVE Steady'
<1>1. /\ pc = "unmap" /\ walk.up /\ Emptied /\ walk' = Climb /\ UNCHANGED <<pc, req, va, maps, lost>>
  BY DEF FreeTable, Ready
<1>2. pc \in Traversing /\ Top.pt # Root
  BY <1>1, LoopsApart DEF Emptied
<1>0. IInv /\ TablesOK(tables)
  BY DEF TInv, IInv
<1>3. walk.vaddr \in Nat
  BY <1>0, <1>2, WalkFacts
<1>4. PICK L, n : Maps(L, n, tables, "unmap", walk, req, maps, lost)
  BY <1>1 DEF TInv, Steady
<1>5. Tree(L, n, tables) /\ Follows(L, n, tables, walk.stack, walk.vaddr)
  BY <1>4, LoopsApart, Zenon DEF Maps
<1>6. PICK stack, new : \E m \in Nat :
        /\ stack = walk.stack /\ m = Len(stack) /\ m > 1 /\ StackOK(tables, stack, TRUE)
        /\ Top = stack[m] /\ Climb.stack = new
        /\ StackOK(tables, new, TRUE) /\ Len(new) = m - 1
  BY <1>0, <1>1, <1>2, ClimbIs
<1>7. PICK m \in Nat :
        /\ stack = walk.stack /\ m = Len(stack) /\ m > 1 /\ StackOK(tables, stack, TRUE)
        /\ Top = stack[m] /\ Climb.stack = new
        /\ StackOK(tables, new, TRUE) /\ Len(new) = m - 1
  BY <1>6
<1>8. PICK w : w = Climb
  OBVIOUS
<1>9. /\ w.vaddr = walk.vaddr /\ w.size = walk.size /\ w.off = walk.off /\ w.piece = walk.piece
      /\ w.up = TRUE /\ w.stack = new
  BY <1>0, <1>1, <1>2, <1>7, <1>8, ClimbIs
<1>10. ClimbsOn(L, n)
  BY <1>0, <1>1, <1>2, <1>5, ClimbFollows
<1>11. Follows(L, n, tables, new, walk.vaddr) /\ StackTables(stack) = StackTables(new) \cup {stack[m].pt}
  BY <1>7, <1>10 DEF ClimbsOn
<1>12. PICK t, u, idx : t = stack[m].pt /\ u = stack[m - 1].pt /\ idx = stack[m - 1].idx
  OBVIOUS
<1>13. Points(tables, u, idx, t) /\ u # t
  <2>1. ParentOK(tables, stack, m)
    BY <1>0, <1>7, ParentIs
  <2> QED
    BY <1>12, <2>1 DEF ParentOK
<1>14. u \in DOMAIN tables /\ idx \in DOMAIN tables[u].pte
  BY <1>13 DEF Points
<1>15. u \in L
  <2>1. m - 1 \in 1..Len(stack)
    BY <1>7
  <2> QED
    BY <1>5, <1>7, <1>12, <2>1 DEF Follows
<1>16. PICK U : U = Removed(tables, u, idx, t)
  BY SMTT(60)
<1>17. tables' = U
  BY <1>7, <1>12, <1>16 DEF FreeTable, Removed, SetEntry
<1>18. TablesOK(U) /\ DOMAIN U = DOMAIN tables \ {t}
  <2>1. TablesOK(U)
    BY <1>0, <1>13, <1>16, TableRemoved
  <2>2. DOMAIN U = DOMAIN tables \ {t}
    BY <1>16 DEF Removed
  <2> QED
    BY <2>1, <2>2
<1>19. Shrunk(U, tables, u, idx, t)
  BY <1>0, <1>13, <1>14, <1>16, RemovedIs
<1>20. Empty(tables, t)
  BY <1>1, <1>7, <1>12 DEF Emptied, Empty, Valid
<1>21. PICK M, n2 : M = L \ {t} /\ n2 = [x \in M |-> n[x]]
  OBVIOUS
<1>22. n2 \in [M -> Nat] /\ Agrees(n2, n, M)
  <2>1. n \in [L -> Nat]
    BY <1>5 DEF Tree
  <2> QED
    BY <1>21, <2>1 DEF Agrees
<1>23. Tree(M, n2, U)
  BY <1>0, <1>5, <1>13, <1>15, <1>18, <1>19, <1>20, <1>21, <1>22, TreeShrinks
<1>24. \A own : PartsOf(own, "unmap", w, req) = PartsOf(own, "unmap", walk, req)
  BY <1>9, SamePlace
<1>25. Excused("unmap", walk) \subseteq Excused("unmap", w) \cup {t}
  BY <1>1, <1>7, <1>9, <1>11, <1>12 DEF Excused
<1>26. /\ Right(M, n2, U, PartsOf(maps \cup lost, "unmap", w, req))
       /\ Covered(M, n2, U, Used(PartsOf(maps, "unmap", w, req)))
       /\ Met(M, n2, U, Excused("unmap", w), Used(PartsOf(maps \cup lost, "unmap", w, req)))
  <2>1. PICK P, V, W : /\ P = PartsOf(maps \cup lost, "unmap", w, req)
                       /\ V = Used(PartsOf(maps, "unmap", w, req))
                       /\ W = Used(PartsOf(maps \cup lost, "unmap", w, req))
    OBVIOUS
  <2>2. Right(L, n, tables, P) /\ Covered(L, n, tables, V) /\ Met(L, n, tables, Excused("unmap", walk), W)
    BY <1>4, <1>24, <2>1, Zenon DEF Maps
  <2>3. PICK X, Y : X = Excused("unmap", walk) /\ Y = Excused("unmap", w)
    OBVIOUS
  <2>4. Says(L, n, tables, P, V, X, W)
    BY <2>2, <2>3 DEF Says
  <2>5. Says(M, n2, U, P, V, Y, W)
    BY <1>0, <1>5, <1>13, <1>15, <1>19, <1>20, <1>21, <1>22, <1>25, <2>3, <2>4, MapsRemoved
  <2> QED
    BY <2>1, <2>3, <2>5 DEF Says
<1>27. Follows(M, n2, U, new, walk.vaddr)
  <2>1. PICK k \in Nat \ {0} : k = m - 1 /\ k = Len(new) /\ k \in 1..k
    BY <1>7
  <2>2. ASSUME NEW i \in 1..k PROVE new[i].pt \in M
    <3>1. new[i].pt \in L
      BY <1>11, <2>1 DEF Follows
    <3>2. tables[new[i].pt].lv = i
      BY <1>7, <2>1 DEF StackOK, FrameOK
    <3>3. tables[t].lv = m
      <4>1. m \in 1..Len(stack)
        BY <1>7
      <4> QED
        BY <1>7, <1>12, <4>1 DEF StackOK, FrameOK
    <3>4. new[i].pt # t
      BY <2>1, <3>2, <3>3
    <3> QED
      BY <1>21, <3>1, <3>4
  <2>3. PICK f : f = new[k]
    OBVIOUS
  <2>4. f.pt \in M /\ f.pt \in L /\ f.pt \in DOMAIN tables \ {t}
    <3>1. f.pt \in M
      BY <2>1, <2>2, <2>3
    <3> QED
      BY <1>5, <1>21, <3>1 DEF Tree
  <2>5. Number(n2, U, f.pt, f.idx) = Number(n, tables, f.pt, f.idx)
    <3>1. U[f.pt].lv = tables[f.pt].lv /\ n2[f.pt] = n[f.pt]
      BY <1>19, <1>22, <2>4 DEF Shrunk, Agrees
    <3> QED
      BY <3>1, OnSame
  <2>6. At(k, walk.vaddr) = Number(n, tables, f.pt, f.idx)
    BY <1>11, <2>1, <2>3 DEF Follows
  <2> QED
    BY <2>1, <2>2, <2>3, <2>5, <2>6 DEF Follows
<1>32. Maps(M, n2, U, "unmap", w, req, maps, lost)
  BY <1>23, <1>9, <1>26, <1>27, Zenon DEF Maps
<1>33. Straight("unmap", w, req)
  <2>1. Straight("unmap", walk, req)
    BY <1>1 DEF TInv, Steady
  <2> QED
    BY <1>9, <2>1, LoopsApart DEF Straight
<1>34. PagedRanges(maps \cup lost)
  BY DEF TInv, Steady
<1>35. \E L2, m2 : Maps(L2, m2, tables', pc', walk', req', maps', lost')
  BY <1>1, <1>8, <1>17, <1>32
<1> QED
  BY <1>1, <1>8, <1>33, <1>34, <1>35 DEF Steady

-----------------------------------------------------------------------------
(* The entries of a visit.                                                 *)

\* Some entries further on
LEMMA AtMoves ==
  ASSUME NEW l \in 1..Levels, NEW v \in Nat, NEW k \in Nat
  PROVE  At(l, v + k * PteCovers[l]) = At(l, v) + k /\ v + k * PteCovers[l] \in Nat
<1>1. PICK c \in Nat \ {0} : c = PteCovers[l]
  BY CoversAre
<1>2. PICK e \in Nat : e = At(l, v) /\ e * c <= v /\ v < e * c + c /\ e * c \in Nat
  BY <1>1, AtIs
<1>3. k * c \in Nat /\ (e + k) * c = e * c + k * c
  OBVIOUS
<1>x. PICK x \in Nat, y \in Nat : x = e * c /\ y = k * c
  BY <1>2, <1>3
<1>u. PICK u \in Nat : u = v + y
  OBVIOUS
<1>4. u = v + k * c /\ x = e * c /\ y = k * c /\ u = v + y /\ (e + k) * c = x + y
  BY <1>3, <1>x, <1>u
<1>5. (e + k) * c <= u /\ u < (e + k) * c + c
  BY <1>2, <1>4
<1>6. At(l, u) = e + k
  <2>1. e + k \in Nat
    OBVIOUS
  <2> QED
    BY <1>1, <1>5, <2>1, AtOf
<1> QED
  BY <1>1, <1>2, <1>4, <1>6

\* The addresses that some entries cover
Between(l, v, k, u) == At(l, v) <= At(l, u) /\ At(l, u) < At(l, v) + k

LEMMA BetweenIs ==
  ASSUME NEW l \in 1..Levels, NEW v \in Nat, v % PteCovers[l] = 0, NEW k \in Nat, NEW u \in Nat
  PROVE  Between(l, v, k, u) <=> (v <= u /\ u < v + k * PteCovers[l])
<1>1. PICK c \in Nat \ {0} : c = PteCovers[l]
  BY CoversAre
<1>2. PICK e \in Nat, d \in Nat : e = At(l, v) /\ d = At(l, u)
  BY AtIs
<1>3. v = e * c
  <2>1. v % c = v - e * c /\ v % c = 0
    BY <1>1, <1>2, AtIs
  <2>2. PICK x \in Nat : x = e * c
    OBVIOUS
  <2> QED
    BY <2>1, <2>2
<1>4. d * c <= u /\ u < d * c + c /\ d * c \in Nat
  BY <1>1, <1>2, AtIs
<1>5. e <= d => v <= u
  <2>1. SUFFICES ASSUME e <= d PROVE v <= u
    OBVIOUS
  <2>2. c * e <= c * d
    BY <2>1, Multiply
  <2>3. c * e = e * c /\ c * d = d * c
    OBVIOUS
  <2> QED
    BY <1>3, <1>4, <2>2, <2>3
<1>6. d < e => u < v
  <2>1. SUFFICES ASSUME d < e PROVE u < v
    OBVIOUS
  <2>2. c * (d + 1) <= c * e
    BY <2>1, Multiply
  <2>3. c * e = e * c /\ c * (d + 1) = d * c + c
    OBVIOUS
  <2> QED
    BY <1>3, <1>4, <2>2, <2>3
<1>7. k * c \in Nat /\ (e + k) * c = e * c + k * c
  OBVIOUS
<1>8. d < e + k => u < v + k * c
  <2>1. SUFFICES ASSUME d < e + k PROVE u < v + k * c
    OBVIOUS
  <2>2. c * (d + 1) <= c * (e + k)
    BY <2>1, Multiply
  <2>3. c * (e + k) = (e + k) * c /\ c * (d + 1) = d * c + c
    OBVIOUS
  <2> QED
    BY <1>3, <1>4, <1>7, <2>2, <2>3
<1>9. e + k <= d => v + k * c <= u
  <2>1. SUFFICES ASSUME e + k <= d PROVE v + k * c <= u
    OBVIOUS
  <2>2. c * (e + k) <= c * d
    BY <2>1, Multiply
  <2>3. c * (e + k) = (e + k) * c /\ c * d = d * c
    OBVIOUS
  <2> QED
    BY <1>3, <1>4, <1>7, <2>2, <2>3
<1>10. (v <= u /\ u < v + k * c) <=> (e <= d /\ d < e + k)
  <2>1. v <= u => e <= d
    <3>1. SUFFICES ASSUME d < e PROVE u < v
      BY <1>3, <1>4
    <3> QED
      BY <1>6, <3>1
  <2>2. u < v + k * c => d < e + k
    <3>1. SUFFICES ASSUME e + k <= d PROVE v + k * c <= u
      BY <1>3, <1>4, <1>7
    <3> QED
      BY <1>9, <3>1
  <2> QED
    BY <1>5, <1>8, <2>1, <2>2
<1> QED
  BY <1>1, <1>2, <1>10 DEF Between

\* They are under the entries of a table.
LEMMA BetweenUnder ==
  ASSUME NEW T, TablesOK(T), NEW L, NEW n, Tree(L, n, T), NEW t \in L, NEW l, l = T[t].lv,
         NEW i \in Nat, NEW v \in Nat, Under(n, T, t, i, v), NEW k \in Nat, i + k <= PteCnt[l], NEW u \in Nat
  PROVE  Between(l, v, k, u) <=> (On(n, T, t, u) /\ Place(l, u) \in i..(i + k - 1))
<1>1. l \in 1..Levels /\ n[t] \in Nat
  BY TreeTable
<1>2. PICK c \in Nat \ {0}, x \in Nat, y \in Nat : c = PteCnt[l] /\ x = n[t] /\ y = x * c /\ i + k <= c
  BY <1>1, CoversAre
<1>3. At(l, v) = y + i
  BY <1>2 DEF Under, Number
<1>4. At(l, u) \in Nat /\ Place(l, u) \in 0..(c - 1) /\ At(l, u) = Above(l, u) * c + Place(l, u)
  BY <1>1, <1>2, AtIs
<1>5. ASSUME Between(l, v, k, u) PROVE On(n, T, t, u) /\ Place(l, u) \in i..(i + k - 1)
  <2>1. PICK j \in Nat : j = At(l, u) - y /\ At(l, u) = y + j /\ i <= j /\ j < i + k
    BY <1>3, <1>4, <1>5 DEF Between
  <2>2. j \in 0..(PteCnt[l] - 1) /\ At(l, u) = x * PteCnt[l] + j
    BY <1>2, <2>1
  <2>3. Above(l, u) = x /\ Place(l, u) = j
    BY <1>1, <2>2, Digits
  <2>4. j \in i..(i + k - 1)
    BY <2>1
  <2>5. On(n, T, t, u)
    BY <1>2, <2>3 DEF On
  <2> QED
    BY <2>3, <2>4, <2>5
<1>6. ASSUME On(n, T, t, u), Place(l, u) \in i..(i + k - 1) PROVE Between(l, v, k, u)
  <2>1. At(l, u) = y + Place(l, u)
    BY <1>2, <1>4, <1>6 DEF On
  <2> QED
    BY <1>3, <1>4, <1>6, <2>1 DEF Between
<1> QED
  BY <1>5, <1>6

\* A traversal behind a visit
LEMMA FollowsVisited ==
  ASSUME NEW T, TablesOK(T), NEW L, NEW n, Tree(L, n, T), NEW stack, NEW m, m = Len(stack), m \in 1..Levels,
         NEW v \in Nat, Follows(L, n, T, stack, v), T[stack[m].pt].lv = m, stack[m].idx \in Nat, NEW k \in Nat,
         NEW new, Len(new) = m, SameFrames(new, stack, m), new[m].idx = stack[m].idx + k
  PROVE  /\ Follows(L, n, T, new, v + k * PteCovers[m])
         /\ StackTables(new) = StackTables(stack)
<1>1. \A i \in 1..m : new[i].pt = stack[i].pt
  BY DEF SameFrames
<1>2. m \in 1..m
  OBVIOUS
<1>3. PICK i, t : i \in Nat /\ t = stack[m].pt /\ i = stack[m].idx
  OBVIOUS
<1>4. t \in L /\ At(m, v) = Number(n, T, t, i)
  BY <1>2, <1>3 DEF Follows
<1>5. At(m, v + k * PteCovers[m]) = Number(n, T, t, i) + k
  BY <1>4, AtMoves
<1>6. Number(n, T, t, i) + k = Number(n, T, t, i + k)
  <2>1. n[t] \in Nat /\ PteCnt[m] \in Nat
    BY <1>4, TreeTable, CoversAre
  <2>2. n[t] * PteCnt[m] \in Nat
    BY <2>1
  <2> QED
    BY <1>3, <2>2, SMTT(60) DEF Number
<1>7. At(m, v + k * PteCovers[m]) = Number(n, T, new[m].pt, new[m].idx)
  BY <1>1, <1>2, <1>3, <1>5, <1>6
<1>8. \A j \in 1..m : new[j].pt \in L
  BY <1>1 DEF Follows
<1>9. StackTables(new) = StackTables(stack)
  BY <1>1 DEF StackTables
<1> QED
  BY <1>7, <1>8, <1>9 DEF Follows

\* The entries of a visit: k of table t from entry i on, at level m, from address v on.
Spans(L, n, stack, m, t, i, k, v) ==
  /\ EntryAt(L, n, tables, stack, m, v) /\ stack = walk.stack /\ v = walk.vaddr /\ m = Len(stack)
  /\ t = stack[m].pt /\ i = stack[m].idx /\ v \in Nat /\ k \in Nat \ {0} /\ k = EntryCount
  /\ Covers = PteCovers[m] /\ i + k <= PteCnt[m] /\ Span = i..(i + k - 1)
  /\ \/ k * PteCovers[m] <= walk.size
     \/ pc = "inspect" /\ k * PteCovers[m] = PteCovers[m] /\ walk.size < PteCovers[m]

LEMMA SpansOver ==
  ASSUME IInv, Walking, EntryCount > 0, NEW L, NEW n, Tree(L, n, tables), Follows(L, n, tables, walk.stack, walk.vaddr)
  PROVE  \E stack, m, t, i, k, v : Spans(L, n, stack, m, t, i, k, v)
<1>1. pc \in Traversing /\ ~walk.up
  BY DEF Walking, Ready, Traversing
<1>2. walk.vaddr \in Nat
  BY <1>1, WalkFacts
<1>3. PICK m \in 1..Levels, k \in Nat \ {0}, c \in Nat \ {0}, b \in Nat :
        /\ m = Len(walk.stack) /\ Top = walk.stack[m] /\ Level = m
        /\ k = EntryCount /\ c = Covers /\ c = PteCovers[m] /\ b = k * c
        /\ walk.stack[m].idx \in Nat /\ walk.stack[m].idx + k <= PteCnt[m]
        /\ b <= walk.size \/ (pc = "inspect" /\ b = c /\ walk.size < c)
  BY VisitIs
<1>4. PICK stack, v : stack = walk.stack /\ v = walk.vaddr
  OBVIOUS
<1>5. EntryAt(L, n, tables, stack, m, v)
  BY <1>1, <1>3, <1>4, EntryIs
<1>6. PICK t, i : t = stack[m].pt /\ i = stack[m].idx
  OBVIOUS
<1>7. Span = i..(i + k - 1)
  BY <1>3, <1>4, <1>6 DEF Span
<1>8. \/ k * PteCovers[m] <= walk.size
      \/ pc = "inspect" /\ k * PteCovers[m] = PteCovers[m] /\ walk.size < PteCovers[m]
  BY <1>3
<1>9. Spans(L, n, stack, m, t, i, k, v)
  BY <1>2, <1>3, <1>4, <1>5, <1>6, <1>7, <1>8 DEF Spans
<1> QED
  BY <1>9

\* Where the visit leaves the traversal
Leaves(L, n, stack, m, k, v, w) ==
  /\ w.vaddr = v + k * PteCovers[m] /\ w.size = walk.size - k * PteCovers[m]
  /\ w.off = walk.off + k * PteCovers[m] /\ w.piece = walk.piece /\ w.up = TRUE
  /\ Follows(L, n, tables, w.stack, v + k * PteCovers[m]) /\ StackTables(w.stack) = StackTables(stack)
  /\ Len(w.stack) = m

LEMMA VisitLeaves ==
  ASSUME IInv, Visit, NEW L, NEW n, Tree(L, n, tables), Follows(L, n, tables, walk.stack, walk.vaddr),
         NEW stack, NEW m, NEW t, NEW i, NEW k, NEW v, Spans(L, n, stack, m, t, i, k, v)
  PROVE  Leaves(L, n, stack, m, k, v, walk')
<1>1. /\ Walking
      /\ walk' = [walk EXCEPT !.size = @ - EntryCount * Covers, !.off = @ + EntryCount * Covers,
                              !.vaddr = @ + EntryCount * Covers,
                              !.stack[Len(walk.stack)].idx = @ + EntryCount, !.up = TRUE]
  BY DEF Visit
<1>2. pc \in Traversing /\ ~walk.up
  BY <1>1 DEF Walking, Ready, Traversing
<1>3. walk \in WalkType /\ TablesOK(tables) /\ StackOK(tables, walk.stack, FALSE)
  BY <1>2, WalkFacts
<1>4. /\ EntryAt(L, n, tables, stack, m, v) /\ stack = walk.stack /\ v = walk.vaddr /\ m = Len(stack)
      /\ v \in Nat /\ k \in Nat \ {0} /\ k = EntryCount /\ Covers = PteCovers[m] /\ i = stack[m].idx
      /\ i + k <= PteCnt[m]
  BY DEF Spans
<1>5. m \in 1..Levels /\ tables[stack[m].pt].lv = m /\ stack[m].idx \in Nat
  BY <1>4 DEF EntryAt
<1>6. PICK new : new = [stack EXCEPT ![m].idx = @ + k]
  OBVIOUS
<1>7. Len(new) = m /\ SameFrames(new, stack, m) /\ new[m].idx = stack[m].idx + k
  <2>1. TablesOK(tables) /\ StackOK(tables, stack, FALSE) /\ m = Len(stack) /\ k \in Nat /\ stack[m].idx + k <= PteCnt[m]
    BY <1>3, <1>4
  <2>2. Len(new) = m
    BY <1>6, <2>1, StackVisited
  <2>3. SameFrames(new, stack, m)
    BY <1>6, <2>1, StackVisited
  <2>4. new[m].idx = stack[m].idx + k
    <3>1. stack \in [1..m -> Frame0] /\ m \in 1..m
      BY <1>5, <2>1, LenProperties DEF StackOK
    <3>2. new[m] = [stack[m] EXCEPT !.idx = @ + k] /\ stack[m] \in Frame0
      BY <1>6, <3>1
    <3> QED
      BY <3>2 DEF Frame0
  <2> QED
    BY <2>2, <2>3, <2>4
<1>8. Follows(L, n, tables, stack, v)
  BY <1>4
<1>9. Follows(L, n, tables, new, v + k * PteCovers[m]) /\ StackTables(new) = StackTables(stack)
  <2>1. k \in Nat
    BY <1>4
  <2>2. Follows(L, n, tables, new, v + k * PteCovers[m])
    BY <1>3, <1>4, <1>5, <1>7, <1>8, <2>1, FollowsVisited
  <2>3. StackTables(new) = StackTables(stack)
    BY <1>3, <1>4, <1>5, <1>7, <1>8, <2>1, FollowsVisited, SMTT(60)
  <2> QED
    BY <2>2, <2>3
<1>10. PICK b : b = k * PteCovers[m]
  OBVIOUS
<1>11. PICK w : w = walk'
  OBVIOUS
<1>12. w.vaddr = v + b /\ w.size = walk.size - b /\ w.off = walk.off + b /\ w.piece = walk.piece
       /\ w.up = TRUE /\ w.stack = new
  <2>1. EntryCount * Covers = b /\ EntryCount = k /\ Len(walk.stack) = m
    BY <1>4, <1>10
  <2>2. w = [walk EXCEPT !.size = @ - b, !.off = @ + b, !.vaddr = @ + b,
                         !.stack[m].idx = @ + k, !.up = TRUE]
    BY <1>1, <1>11, <2>1
  <2>3. [walk.stack EXCEPT ![m].idx = @ + k] = new
    BY <1>4, <1>6
  <2>4. PICK x, z, o : x = v + b /\ z = walk.size - b /\ o = walk.off + b
    OBVIOUS
  <2>5. w = [walk EXCEPT !.size = z, !.off = o, !.vaddr = x, !.stack = new, !.up = TRUE]
    BY <1>4, <2>2, <2>3, <2>4
  <2> QED
    BY <1>3, <2>4, <2>5 DEF WalkType
<1> QED
  BY <1>7, <1>9, <1>10, <1>11, <1>12 DEF Leaves

LEMMA SteadyInspectionVisits == ASSUME TInv, Visit, pc = "inspect" PROVE Steady'
<1>0. IInv /\ TablesOK(tables) /\ pc \in Traversing
  BY LoopsApart DEF TInv, IInv
<1>1. /\ Walking /\ EntryCount > 0 /\ tables' = tables /\ UNCHANGED <<pc, req, pa, va, maps, lost>>
  BY DEF Visit, Visited, EntriesAsExpected
<1>2. PICK L, n : Maps(L, n, tables, pc, walk, req, maps, lost)
  BY DEF TInv, Steady
<1>3. Tree(L, n, tables) /\ Follows(L, n, tables, walk.stack, walk.vaddr)
  BY <1>0, <1>2, Zenon DEF Maps
<1>4. PICK stack, m, t, i, k, v : Spans(L, n, stack, m, t, i, k, v)
  BY <1>0, <1>1, <1>3, SpansOver
<1>5. Leaves(L, n, stack, m, k, v, walk')
  BY <1>0, <1>3, <1>4, VisitLeaves
<1>6. PICK w : w = walk'
  OBVIOUS
<1>7. Follows(L, n, tables, w.stack, w.vaddr)
  BY <1>5, <1>6 DEF Leaves
<1>8. Maps(L, n, tables, pc, w, req, maps, lost)
  <2>1. pc \notin {"map", "unmap"}
    OBVIOUS
  <2> QED
    BY <1>0, <1>2, <1>7, <2>1, MapsSame
<1>9. Straight(pc, w, req)
  <2>1. v = walk.vaddr /\ v \in Nat /\ m \in 1..Levels /\ k \in Nat
    BY <1>4 DEF Spans, EntryAt
  <2>2. v + k * PteCovers[m] \in Nat /\ v <= v + k * PteCovers[m]
    <3>1. PteCovers[m] \in Nat
      BY <2>1, CoversAre
    <3>2. k * PteCovers[m] \in Nat
      BY <2>1, <3>1
    <3> QED
      BY <2>1, <3>2
  <2>3. req.va <= walk.vaddr /\ req.va \in Nat
    BY <1>0, WalkFacts DEF TInv, Steady, Straight
  <2>4. w.vaddr = v + k * PteCovers[m]
    BY <1>5, <1>6 DEF Leaves
  <2>5. req.va <= w.vaddr
    BY <2>1, <2>2, <2>3, <2>4
  <2> QED
    BY <1>0, <2>5 DEF Straight
<1>10. PagedRanges(maps \cup lost)
  BY DEF TInv, Steady
<1>11. \E L2, n2 : Maps(L2, n2, tables', pc', walk', req', maps', lost')
  BY <1>1, <1>6, <1>8
<1> QED
  BY <1>1, <1>6, <1>9, <1>10, <1>11 DEF Steady

\* The entries of one table of some places have changed.
Rewrote(U, T, t, i, k) ==
  /\ DOMAIN U = DOMAIN T /\ TablesOK(U)
  /\ \A x \in DOMAIN T :
       /\ U[x].lv = T[x].lv /\ DOMAIN U[x].pte = DOMAIN T[x].pte
       /\ \A j \in DOMAIN T[x].pte : (x # t \/ j \notin i..(i + k - 1)) => U[x].pte[j] = T[x].pte[j]
Written(U, t, i, k, c) ==
  \A j \in i..(i + k - 1) :
    U[t].pte[j] = IF pc = "unmap" THEN None ELSE PageAt(Target + (j - i) * c)

LEMMA VisitedEntries ==
  ASSUME IInv, Walking, pc \in {"map", "unmap"}, NEW L, NEW n,
         NEW stack, NEW m, NEW t, NEW i, NEW k, NEW v, Spans(L, n, stack, m, t, i, k, v)
  PROVE  Rewrote(Visited, tables, t, i, k) /\ Written(Visited, t, i, k, PteCovers[m])
<1>1. /\ EntryAt(L, n, tables, stack, m, v) /\ stack = walk.stack /\ m = Len(stack)
      /\ t = stack[m].pt /\ i = stack[m].idx /\ k \in Nat \ {0} /\ k = EntryCount
      /\ Covers = PteCovers[m] /\ i + k <= PteCnt[m] /\ Span = i..(i + k - 1)
  BY DEF Spans
<1>2. /\ m \in 1..Levels /\ t \in DOMAIN tables /\ tables[t].lv = m /\ Top = stack[m] /\ Level = m
      /\ Top.pt = t /\ Top.idx = i /\ i \in Nat
  BY <1>1 DEF EntryAt
<1>3. pc \in Traversing
  BY LoopsApart
<1>4. TablesOK(tables)
  BY DEF IInv
<1>5. TablesOK(Visited) /\ DOMAIN Visited = DOMAIN tables
  <2>1. EntryCount \in Nat /\ Covers \in Nat
    BY <1>1, <1>2, CoversAre
  <2>2. Top = walk.stack[m] /\ m = Len(walk.stack)
    BY <1>1, <1>2
  <2> QED
    BY <1>2, <2>1, <2>2, VisitedIs
<1>6. PICK pte : pte = [j \in DOMAIN tables[t].pte |->
                          IF j \in i..(i + k - 1)
                          THEN (IF pc = "unmap" THEN None ELSE PageAt(Target + (j - i) * PteCovers[m]))
                          ELSE tables[t].pte[j]]
  OBVIOUS
<1>7. PICK U : U = Visited
  OBVIOUS
<1>8. U = [tables EXCEPT ![t].pte = pte]
  <2>1. CASE pc = "unmap"
    <3>1. Visited = [tables EXCEPT ![t].pte = [j \in DOMAIN @ |-> IF j \in Span THEN None ELSE @[j]]]
      BY <1>2, <2>1, SMTT(60) DEF Visited
    <3>2. pte = [j \in DOMAIN tables[t].pte |-> IF j \in Span THEN None ELSE tables[t].pte[j]]
      BY <1>1, <1>6, <2>1
    <3> QED
      BY <1>7, <3>1, <3>2
  <2>2. CASE pc = "map"
    <3>1. Visited = [tables EXCEPT ![t].pte =
            [j \in DOMAIN @ |-> IF j \in Span THEN PageAt(Target + (j - Top.idx) * Covers) ELSE @[j]]]
      BY <1>2, <2>2, SMTT(60) DEF Visited
    <3>2. pte = [j \in DOMAIN tables[t].pte |->
                   IF j \in Span THEN PageAt(Target + (j - Top.idx) * Covers) ELSE tables[t].pte[j]]
      BY <1>1, <1>2, <1>6, <2>2
    <3> QED
      BY <1>7, <3>1, <3>2
  <2> QED
    BY <2>1, <2>2
<1>9. tables[t] = [lv |-> tables[t].lv, pte |-> tables[t].pte] /\ DOMAIN tables[t].pte = 0..(PteCnt[m] - 1)
  BY <1>2, <1>4, TableIs
<1>10. U[t] = [lv |-> tables[t].lv, pte |-> pte]
  <2>1. U[t] = [tables[t] EXCEPT !.pte = pte]
    BY <1>2, <1>8
  <2> QED
    BY <1>9, <2>1
<1>11. U[t].lv = tables[t].lv /\ U[t].pte = pte
  BY <1>10
<1>12. ASSUME NEW x \in DOMAIN tables
       PROVE  /\ U[x].lv = tables[x].lv /\ DOMAIN U[x].pte = DOMAIN tables[x].pte
              /\ \A j \in DOMAIN tables[x].pte : (x # t \/ j \notin i..(i + k - 1)) => U[x].pte[j] = tables[x].pte[j]
  <2>1. CASE x = t
    <3>1. DOMAIN pte = DOMAIN tables[t].pte
      BY <1>6
    <3>2. \A j \in DOMAIN tables[t].pte : j \notin i..(i + k - 1) => pte[j] = tables[t].pte[j]
      BY <1>6
    <3> QED
      BY <1>11, <2>1, <3>1, <3>2
  <2>2. CASE x # t
    <3>1. U[x] = tables[x]
      BY <1>8, <2>2
    <3> QED
      BY <2>2, <3>1
  <2> QED
    BY <2>1, <2>2
<1>13. Rewrote(U, tables, t, i, k)
  BY <1>5, <1>7, <1>12 DEF Rewrote
<1>14. Written(U, t, i, k, PteCovers[m])
  <2>1. SUFFICES ASSUME NEW j \in i..(i + k - 1)
                 PROVE  U[t].pte[j] = IF pc = "unmap" THEN None ELSE PageAt(Target + (j - i) * PteCovers[m])
    BY DEF Written
  <2>2. j \in DOMAIN tables[t].pte
    <3>1. PteCnt[m] \in Nat
      BY <1>2, CoversAre
    <3> QED
      BY <1>1, <1>2, <1>9, <3>1, SMTT(60)
  <2> QED
    BY <1>6, <1>11, <2>2
<1> QED
  BY <1>7, <1>13, <1>14

\* What a traversal that maps has not come to has no entry of its own.
LEMMA FreeEntry ==
  ASSUME IInv, Straight(pc, walk, req), pc \in {"inspect", "map"}, NEW L, NEW n,
         Maps(L, n, tables, pc, walk, req, maps, lost), NEW m, m = Len(walk.stack),
         NEW t \in L, tables[t].lv = m, NEW i \in DOMAIN tables[t].pte,
         \A u \in Nat : Under(n, tables, t, i, u) => walk.vaddr <= u /\ u < req.va + req.size
  PROVE  tables[t].pte[i].kind = "none"
<1>1. pc \in Traversing
  BY LoopsApart
<1>2. TablesOK(tables) /\ StackOK(tables, walk.stack, walk.up)
  BY <1>1, WalkFacts
<1>3. SUFFICES ASSUME Valid(tables[t].pte[i]) PROVE FALSE
  BY DEF Valid
<1>4. Tree(L, n, tables) /\ Right(L, n, tables, PartsOf(maps \cup lost, pc, walk, req))
  BY Zenon DEF Maps
<1>5. Met(L, n, tables, Excused(pc, walk), Used(PartsOf(maps \cup lost, pc, walk, req)))
  BY Zenon DEF Maps
<1>6. ASSUME NEW a, Points(tables, t, i, a) PROVE a \notin Excused(pc, walk)
  <2>1. SUFFICES ASSUME NEW j \in 1..m, a = walk.stack[j].pt PROVE FALSE
    BY DEF Excused, StackTables
  <2>2. tables[a].lv = tables[t].lv + 1
    BY <1>2, <1>6, Zenon DEF TablesOK
  <2>3. tables[a].lv = j
    BY <1>2, <2>1 DEF StackOK, FrameOK
  <2>4. m \in Nat
    BY <1>2, LenProperties DEF StackOK
  <2> QED
    BY <2>2, <2>3, <2>4
<1>7. PICK u \in Used(PartsOf(maps \cup lost, pc, walk, req)) : Under(n, tables, t, i, u)
  BY <1>2, <1>3, <1>4, <1>5, <1>6, EntryMet
<1>8. u \in Nat
  BY DEF Used
<1> QED
  BY <1>7, <1>8, NotMappedYet

-----------------------------------------------------------------------------
(* A visit that maps pages.                                                *)

\* What a table of places that were empty gets
Filled(U, T, t, i, k) ==
  \A j \in i..(i + k - 1) : T[t].pte[j].kind = "none" /\ U[t].pte[j].kind = "page"

LEMMA TreeFilled ==
  ASSUME NEW T, TablesOK(T), NEW L, NEW n, Tree(L, n, T), NEW t \in L, NEW i, NEW k, NEW U,
         Rewrote(U, T, t, i, k), Filled(U, T, t, i, k)
  PROVE  Tree(L, n, U)
<1>1. L \subseteq DOMAIN T /\ Root \in L /\ n \in [L -> Nat] /\ n[Root] = 0
  BY DEF Tree
<1>2. ASSUME NEW x \in L, NEW j, NEW a PROVE Points(U, x, j, a) <=> Points(T, x, j, a)
  <2>1. CASE x = t /\ j \in i..(i + k - 1)
    <3>1. T[t].pte[j].kind # "table" /\ U[t].pte[j].kind # "table"
      BY <2>1 DEF Filled
    <3> QED
      BY <2>1, <3>1, EntryTypes DEF Points
  <2>2. CASE x # t \/ j \notin i..(i + k - 1)
    <3>1. DOMAIN U[x].pte = DOMAIN T[x].pte /\ x \in DOMAIN U /\ x \in DOMAIN T
      BY <1>1 DEF Rewrote
    <3>2. j \in DOMAIN T[x].pte => U[x].pte[j] = T[x].pte[j]
      BY <1>1, <2>2 DEF Rewrote
    <3> QED
      BY <3>1, <3>2 DEF Points
  <2> QED
    BY <2>1, <2>2
<1>3. ASSUME NEW x \in L
      PROVE  U[x].lv = T[x].lv /\ \A j : Number(n, U, x, j) = Number(n, T, x, j)
  <2>1. U[x].lv = T[x].lv
    BY <1>1 DEF Rewrote
  <2> QED
    BY <2>1 DEF Number
<1>4. ASSUME NEW x, NEW j, NEW a, x \in L /\ Points(U, x, j, a) PROVE a \in L /\ n[a] = Number(n, U, x, j)
  BY <1>2, <1>3, <1>4, TreeEntry
<1>5. ASSUME NEW a \in L \ {Root} PROVE \E x \in L : \E j : Points(U, x, j, a)
  <2>1. PICK x \in L : \E j : Points(T, x, j, a)
    BY DEF Tree
  <2> QED
    BY <1>2, <2>1
<1>6. ASSUME NEW x \in L, NEW y \in L, U[x].lv = U[y].lv, n[x] = n[y] PROVE x = y
  BY <1>3, <1>6 DEF Tree
<1>7. DOMAIN U = DOMAIN T
  BY DEF Rewrote
<1> QED
  BY <1>1, <1>4, <1>5, <1>6, <1>7 DEF Tree

\* What is mapped when a table gets entries of one part: V what was, Z what is.
LEMMA MapsFilled ==
  ASSUME NEW T, TablesOK(T), NEW L, NEW n, Tree(L, n, T), NEW t \in L, NEW i, NEW k, NEW U,
         Rewrote(U, T, t, i, k), Filled(U, T, t, i, k), i..(i + k - 1) \subseteq DOMAIN T[t].pte,
         NEW P, NEW V, NEW X, NEW W, Says(L, n, T, P, V, X, W), NEW p \in P,
         \A j \in i..(i + k - 1) : Backed(n, U, t, j, p),
         NEW Z, \A v \in Z : v \in V \/ \E j \in i..(i + k - 1) : Under(n, T, t, j, v),
         NEW Y, \A x \in X : x \in Y \/ \E v \in W : On(n, T, x, v)
  PROVE  Says(L, n, U, P, Z, Y, W)
<1>0. Right(L, n, T, P) /\ Covered(L, n, T, V) /\ Met(L, n, T, X, W)
  BY DEF Says
<1>1. L \subseteq DOMAIN T
  BY DEF Tree
<1>2. \A x \in L : U[x].lv = T[x].lv /\ n[x] = n[x] /\ DOMAIN U[x].pte = DOMAIN T[x].pte
  BY <1>1 DEF Rewrote
<1>3. ASSUME NEW x \in L, NEW j, x # t \/ j \notin i..(i + k - 1), j \in DOMAIN T[x].pte
      PROVE  U[x].pte[j] = T[x].pte[j]
  BY <1>1, <1>3 DEF Rewrote
<1>4. ASSUME NEW x \in L, NEW j, PageEntry(T, x, j) PROVE PageEntry(U, x, j)
  <2>1. j \in DOMAIN T[x].pte /\ T[x].pte[j].kind = "page"
    BY <1>4 DEF PageEntry
  <2>2. x # t \/ j \notin i..(i + k - 1)
    BY <2>1 DEF Filled
  <2>3. U[x].pte[j] = T[x].pte[j]
    BY <1>3, <2>1, <2>2
  <2> QED
    BY <1>2, <2>1, <2>3 DEF PageEntry
<1>5. Right(L, n, U, P)
  <2>1. SUFFICES ASSUME NEW x \in L, NEW j, PageEntry(U, x, j) PROVE \E q \in P : Backed(n, U, x, j, q)
    BY DEF Right
  <2>2. CASE x = t /\ j \in i..(i + k - 1)
    BY <2>2
  <2>3. CASE x # t \/ j \notin i..(i + k - 1)
    <3>1. j \in DOMAIN T[x].pte /\ U[x].pte[j] = T[x].pte[j]
      BY <1>2, <1>3, <2>1, <2>3 DEF PageEntry
    <3>2. PageEntry(T, x, j)
      BY <2>1, <3>1 DEF PageEntry
    <3>3. PICK q \in P : Backed(n, T, x, j, q)
      BY <1>0, <3>2 DEF Right
    <3>4. Backed(n, U, x, j, q)
      BY <1>2, <3>1, <3>3, BackedSame
    <3> QED
      BY <3>4
  <2> QED
    BY <2>2, <2>3
<1>6. Covered(L, n, U, Z)
  <2>1. SUFFICES ASSUME NEW v \in Z PROVE \E x \in L : \E j : PageEntry(U, x, j) /\ Under(n, U, x, j, v)
    BY DEF Covered
  <2>2. CASE v \in V
    <3>1a. PICK x \in L : \E j : PageEntry(T, x, j) /\ Under(n, T, x, j, v)
      BY <1>0, <2>2 DEF Covered
    <3>1. PICK j : PageEntry(T, x, j) /\ Under(n, T, x, j, v)
      BY <3>1a
    <3>2. Under(n, U, x, j, v)
      BY <1>2, <3>1, OnSame
    <3> QED
      BY <1>4, <3>1, <3>2
  <2>3. CASE \E j \in i..(i + k - 1) : Under(n, T, t, j, v)
    <3>1. PICK j \in i..(i + k - 1) : Under(n, T, t, j, v)
      BY <2>3
    <3>2. Under(n, U, t, j, v)
      BY <1>2, <3>1, OnSame
    <3>3. PageEntry(U, t, j)
      BY <1>2 DEF PageEntry, Filled
    <3> QED
      BY <3>2, <3>3
  <2> QED
    BY <2>2, <2>3
<1>7. Met(L, n, U, Y, W)
  <2>1. SUFFICES ASSUME NEW x \in L \ {Root}, x \notin Y PROVE \E v \in W : On(n, U, x, v)
    BY DEF Met
  <2>3. PICK v \in W : On(n, T, x, v)
    BY <1>0, <2>1 DEF Met
  <2>4. On(n, U, x, v)
    BY <1>2, <2>3, OnSame
  <2> QED
    BY <2>4
<1> QED
  BY <1>5, <1>6, <1>7 DEF Says

\* The address of a place of a range a mapping has not come to yet, in the piece it is at
LEMMA MapTarget ==
  ASSUME IInv, Straight(pc, walk, req), pc = "map", walk.size > 0, NEW u \in Nat, walk.vaddr <= u,
         u < walk.vaddr + walk.size, NEW q, q.va = req.va, q.size = req.size, q.pieces = req.pieces
  PROVE  Phys(q, u, Target + (u - walk.vaddr))
<1>1. pc \in Traversing
  BY LoopsApart
<1>2. /\ walk.vaddr \in Nat /\ walk.size \in Nat /\ walk.off \in Nat /\ walk.piece \in Nat \ {0}
      /\ req.va \in Nat /\ req.size \in Nat /\ walk.piece \in 0..Len(req.pieces) /\ Reached(walk, req)
  BY <1>1, WalkFacts DEF Mapping
<1>3. PICK s : Sums(s, req.pieces, req.size) /\ walk.vaddr + walk.size = req.va + s[walk.piece]
  BY <1>2 DEF Reached
<1>4. PICK k \in Nat \ {0} : k = walk.piece
  BY <1>2
<1>5. walk.off + walk.size = req.pieces[k][2]
  BY <1>2, <1>4 DEF Straight
<1>6. PiecesOK(req.pieces)
  BY DEF IInv, PiecesOwned, PiecesApart
<1>7. Len(req.pieces) \in Nat /\ k \in 1..Len(req.pieces) /\ k - 1 \in 0..Len(req.pieces)
  <2>1. Len(req.pieces) \in Nat
    BY <1>6, LenProperties DEF PiecesOK
  <2> QED
    BY <1>2, <1>4, <2>1, SMTT(60)
<1>8. PICK a \in Nat : a = req.pieces[k][1]
  <2>1. k \in DOMAIN req.pieces
    BY <1>6, <1>7, LenProperties DEF PiecesOK
  <2> QED
    BY <1>6, <2>1, PieceIs
<1>9. s[k - 1] \in Nat /\ s[k] = s[k - 1] + req.pieces[k][2]
  BY <1>3, <1>7 DEF Sums
<1>10. PICK x \in Nat : x = s[k - 1] /\ walk.vaddr + walk.size = req.va + (x + (walk.off + walk.size))
  BY <1>3, <1>4, <1>5, <1>9
<1>11. walk.vaddr = req.va + x + walk.off
  BY <1>2, <1>10, SMTT(30)
<1>12. PICK d \in Nat : d = walk.off + (u - walk.vaddr)
  BY <1>2
<1>13. d < req.pieces[k][2]
  BY <1>2, <1>5, <1>12, SMTT(60)
<1>14. u = q.va + x + d
  BY <1>2, <1>11, <1>12, SMTT(30)
<1>15. Target + (u - walk.vaddr) = req.pieces[k][1] + d
  <2>1. Target = a + walk.off
    BY <1>4, <1>8 DEF Target
  <2>2. PICK e \in Nat : e = u - walk.vaddr
    BY <1>2
  <2>3. PICK o \in Nat : o = walk.off /\ d = o + e /\ Target = a + o
    BY <1>2, <1>12, <2>1, <2>2
  <2>4. Target + e = a + d
    BY <2>3
  <2> QED
    BY <1>8, <2>2, <2>4
<1>16. PICK y : y = Target + (u - walk.vaddr)
  OBVIOUS
<1>17. d < q.pieces[k][2] /\ u = q.va + s[k - 1] + d /\ y = q.pieces[k][1] + d
  BY <1>10, <1>13, <1>14, <1>15, <1>16
<1>18. Sums(s, q.pieces, q.size) /\ k \in 1..Len(q.pieces)
  BY <1>3, <1>7
<1>19. \E f : /\ Sums(f, q.pieces, q.size)
              /\ \E j \in 1..Len(q.pieces), e \in Nat :
                   e < q.pieces[j][2] /\ u = q.va + f[j - 1] + e /\ y = q.pieces[j][1] + e
  BY <1>17, <1>18
<1> QED
  BY <1>16, <1>19 DEF Phys

\* An address in an entry some entries further on
LEMMA FurtherOn ==
  ASSUME NEW l \in 1..Levels, NEW v \in Nat, v % PteCovers[l] = 0, NEW e \in Nat, NEW u \in Nat,
         At(l, u) = At(l, v) + e
  PROVE  /\ e * PteCovers[l] \in Nat
         /\ v + e * PteCovers[l] <= u /\ u % PteCovers[l] = u - v - e * PteCovers[l]
<1>1. PICK c \in Nat \ {0} : c = PteCovers[l]
  BY CoversAre
<1>2. PICK a \in Nat : a = At(l, v)
  BY AtIs
<1>3. v = a * c
  <2>1. v % c = v - a * c /\ v % c = 0
    BY <1>1, <1>2, AtIs
  <2>2. PICK x \in Nat : x = a * c
    OBVIOUS
  <2> QED
    BY <2>1, <2>2
<1>4. (a + e) * c = a * c + e * c /\ e * c \in Nat /\ a * c \in Nat
  OBVIOUS
<1>5. (a + e) * c <= u /\ u % c = u - (a + e) * c
  BY <1>1, <1>2, AtIs
<1>6. PICK x \in Nat, y \in Nat : x = a * c /\ y = e * c
  BY <1>4
<1> QED
  BY <1>1, <1>3, <1>4, <1>5, <1>6

\* The entries of a visit that starts where its first entry does cover the addresses it passes.
LEMMA SpanCovers ==
  ASSUME IInv, NEW L, NEW n, Tree(L, n, tables),
         NEW stack, NEW m, NEW t, NEW i, NEW k, NEW v, Spans(L, n, stack, m, t, i, k, v),
         v % PteCovers[m] = 0, NEW u \in Nat
  PROVE  (v <= u /\ u < v + k * PteCovers[m])
           <=> \E j \in i..(i + k - 1) : Under(n, tables, t, j, u)
<1>1. /\ EntryAt(L, n, tables, stack, m, v) /\ t = stack[m].pt /\ i = stack[m].idx /\ v \in Nat
      /\ k \in Nat \ {0} /\ i + k <= PteCnt[m]
  BY DEF Spans
<1>2. /\ m \in 1..Levels /\ t \in L /\ tables[t].lv = m /\ i \in Nat /\ Under(n, tables, t, i, v)
  BY <1>1 DEF EntryAt
<1>3. TablesOK(tables)
  BY DEF IInv
<1>4. Between(m, v, k, u) <=> (v <= u /\ u < v + k * PteCovers[m])
  BY <1>1, <1>2, BetweenIs
<1>5. Between(m, v, k, u) <=> (On(n, tables, t, u) /\ Place(m, u) \in i..(i + k - 1))
  BY <1>1, <1>2, <1>3, BetweenUnder
<1>6. DOMAIN tables[t].pte = 0..(PteCnt[m] - 1) /\ PteCnt[m] \in Nat
  BY <1>2, <1>3, TreeTable, CoversAre
<1>7. i..(i + k - 1) \subseteq DOMAIN tables[t].pte
  BY <1>1, <1>2, <1>6, SMTT(60)
<1>8. \A j \in DOMAIN tables[t].pte : Under(n, tables, t, j, u) <=> (On(n, tables, t, u) /\ Place(m, u) = j)
  BY <1>2, <1>3, UnderIs
<1> QED
  BY <1>4, <1>5, <1>7, <1>8

LEMMA SpanFree ==
  ASSUME IInv, Straight(pc, walk, req), pc = "map", walk.size > 0, ~walk.up, NEW L, NEW n,
         Maps(L, n, tables, pc, walk, req, maps, lost),
         NEW stack, NEW m, NEW t, NEW i, NEW k, NEW v, Spans(L, n, stack, m, t, i, k, v),
         v % PteCovers[m] = 0
  PROVE  /\ i..(i + k - 1) \subseteq DOMAIN tables[t].pte
         /\ \A j \in i..(i + k - 1) : tables[t].pte[j].kind = "none"
<1>1. /\ EntryAt(L, n, tables, stack, m, v) /\ t = stack[m].pt /\ i = stack[m].idx /\ v \in Nat
      /\ k \in Nat \ {0} /\ i + k <= PteCnt[m] /\ v = walk.vaddr /\ m = Len(walk.stack)
      /\ k * PteCovers[m] <= walk.size
  BY DEF Spans
<1>2. /\ m \in 1..Levels /\ t \in L /\ tables[t].lv = m /\ i \in Nat
  BY <1>1 DEF EntryAt
<1>3. TablesOK(tables) /\ pc \in Traversing
  BY LoopsApart DEF IInv
<1>4. Tree(L, n, tables)
  BY Zenon DEF Maps
<1>5. DOMAIN tables[t].pte = 0..(PteCnt[m] - 1) /\ PteCnt[m] \in Nat
  BY <1>2, <1>3, <1>4, TreeTable, CoversAre
<1>6. i..(i + k - 1) \subseteq DOMAIN tables[t].pte
  <2>1. PICK a \in Nat, d \in Nat, e \in Nat : a = i /\ d = k /\ e = PteCnt[m] /\ a + d <= e
    BY <1>1, <1>2, <1>5
  <2>2. a..(a + d - 1) \subseteq 0..(e - 1)
    BY <2>1
  <2> QED
    BY <1>5, <2>1, <2>2
<1>7. k * PteCovers[m] \in Nat
  <2>1. PteCovers[m] \in Nat
    BY <1>2, CoversAre
  <2> QED
    BY <1>1, <2>1
<1>8. walk.vaddr + walk.size <= req.va + req.size /\ walk.size \in Int /\ req.va \in Nat /\ req.size \in Nat
  BY <1>3, WalkFacts
<1>9. ASSUME NEW j \in i..(i + k - 1) PROVE tables[t].pte[j].kind = "none"
  <2>1. ASSUME NEW u \in Nat, Under(n, tables, t, j, u)
        PROVE  walk.vaddr <= u /\ u < req.va + req.size
    <3>1. v <= u /\ u < v + k * PteCovers[m]
      BY <1>4, <2>1, SpanCovers
    <3>2. PICK b \in Nat : b = k * PteCovers[m]
      BY <1>7
    <3> QED
      BY <1>1, <1>8, <3>1, <3>2, SMTT(60)
  <2>2. j \in DOMAIN tables[t].pte /\ pc \in {"inspect", "map"} /\ m = Len(walk.stack)
    BY <1>1, <1>6
  <2>3. t \in L /\ tables[t].lv = m
    BY <1>1, <1>2
  <2> QED
    BY <2>1, <2>2, <2>3, FreeEntry, SMTT(30)
<1> QED
  BY <1>6, <1>9

\* The pages of a visit map the addresses it passes, each to the one it has in the pieces.
LEMMA SpanBacked ==
  ASSUME IInv, Straight(pc, walk, req), pc = "map", walk.size > 0, NEW L, NEW n, Tree(L, n, tables),
         NEW stack, NEW m, NEW t, NEW i, NEW k, NEW v, Spans(L, n, stack, m, t, i, k, v),
         v % PteCovers[m] = 0, NEW U, Rewrote(U, tables, t, i, k), Written(U, t, i, k, PteCovers[m]),
         NEW p, p.va = req.va, p.size = req.size, p.pieces = req.pieces, p.from = req.va,
         p.to = v + k * PteCovers[m], NEW j \in i..(i + k - 1)
  PROVE  Backed(n, U, t, j, p)
<1>1. /\ EntryAt(L, n, tables, stack, m, v) /\ t = stack[m].pt /\ i = stack[m].idx /\ v \in Nat
      /\ k \in Nat \ {0} /\ v = walk.vaddr /\ k * PteCovers[m] <= walk.size
  BY DEF Spans
<1>2. /\ m \in 1..Levels /\ t \in L /\ t \in DOMAIN tables /\ tables[t].lv = m /\ i \in Nat
      /\ Under(n, tables, t, i, v)
  BY <1>1 DEF EntryAt
<1>3. pc \in Traversing
  BY LoopsApart
<1>4. walk.size \in Nat /\ req.va \in Nat /\ req.va <= walk.vaddr
  BY <1>3, WalkFacts DEF Mapping, Straight
<1>5. PICK c \in Nat \ {0} : c = PteCovers[m]
  BY <1>2, CoversAre
<1>6. PICK b \in Nat : b = k * c
  BY <1>1
<1>7. U[t].lv = m
  BY <1>2 DEF Rewrote
<1>8. SUFFICES ASSUME NEW u \in Nat, Under(n, U, t, j, u)
               PROVE  InPart(p, u) /\ Phys(p, u, U[t].pte[j].addr + (u % PteCovers[U[t].lv]))
  BY DEF Backed
<1>9. Under(n, tables, t, j, u)
  BY <1>2, <1>7, <1>8 DEF Under, Number
<1>10. v <= u /\ u < v + b
  BY <1>5, <1>6, <1>9, SpanCovers
<1>11. InPart(p, u)
  BY <1>1, <1>4, <1>5, <1>6, <1>10 DEF InPart
<1>12. PICK e \in Nat : e = j - i /\ j = i + e
  BY <1>2
<1>13. At(m, u) = At(m, v) + e
  <2>1. PICK x \in Nat : x = n[t] * PteCnt[m]
    <3>1. n[t] \in Nat /\ PteCnt[m] \in Nat
      BY <1>2, TreeTable, CoversAre DEF IInv
    <3> QED
      BY <3>1
  <2>2. At(m, v) = x + i
    BY <1>2, <2>1 DEF Under, Number
  <2>3. At(m, u) = x + j
    BY <1>2, <1>9, <2>1 DEF Under, Number
  <2> QED
    BY <1>2, <1>12, <2>2, <2>3
<1>14. PICK y \in Nat : y = e * c /\ v + y <= u /\ u % c = u - v - y
  <2>1. e * PteCovers[m] \in Nat /\ v + e * PteCovers[m] <= u /\ u % PteCovers[m] = u - v - e * PteCovers[m]
    BY <1>1, <1>2, <1>13, FurtherOn
  <2> QED
    BY <1>5, <2>1
<1>15. PICK a \in Nat : a = Target
  BY TargetIs
<1>16. U[t].pte[j].addr = a + y
  <2>1. U[t].pte[j] = PageAt(Target + (j - i) * PteCovers[m])
    BY DEF Written
  <2>2. (j - i) * PteCovers[m] = y
    BY <1>5, <1>12, <1>14
  <2>3. U[t].pte[j] = PageAt(a + y)
    BY <1>15, <2>1, <2>2
  <2> QED
    BY <2>3 DEF PageAt
<1>17. U[t].pte[j].addr + (u % PteCovers[U[t].lv]) = Target + (u - walk.vaddr)
  <2>1. PteCovers[U[t].lv] = c
    BY <1>5, <1>7
  <2>2. PICK d \in Nat : d = u - v
    BY <1>1, <1>10
  <2>3. u % c = d - y
    BY <1>1, <1>14, <2>2
  <2>4. (a + y) + (d - y) = a + d
    BY <1>14, <1>15, <2>2
  <2> QED
    BY <1>1, <1>15, <1>16, <2>1, <2>2, <2>3, <2>4
<1>18. Phys(p, u, Target + (u - walk.vaddr))
  <2>1. u < walk.vaddr + walk.size
    BY <1>1, <1>4, <1>5, <1>6, <1>10
  <2> QED
    BY <1>1, <1>10, <2>1, MapTarget
<1> QED
  BY <1>11, <1>17, <1>18

LEMMA SteadyMapVisits == ASSUME TInv, Visit, pc = "map" PROVE Steady'
<1>0. IInv /\ TablesOK(tables) /\ pc \in Traversing /\ Straight(pc, walk, req) /\ PagedRanges(maps \cup lost)
  BY LoopsApart DEF TInv, IInv, Steady
<1>1. /\ Walking /\ ~GoesDown /\ EntryCount > 0 /\ tables' = Visited
      /\ UNCHANGED <<pc, req, pa, va, maps, lost>> /\ ~walk.up /\ walk.size > 0
  BY DEF Visit, EntriesAsExpected, Walking
<1>2. PICK L, n : Maps(L, n, tables, pc, walk, req, maps, lost)
  BY DEF TInv, Steady
<1>3. Tree(L, n, tables) /\ Follows(L, n, tables, walk.stack, walk.vaddr)
  BY <1>0, <1>2, Zenon DEF Maps
<1>4. PICK stack, m, t, i, k, v : Spans(L, n, stack, m, t, i, k, v)
  BY <1>0, <1>1, <1>3, SpansOver
<1>5. Leaves(L, n, stack, m, k, v, walk')
  BY <1>0, <1>3, <1>4, VisitLeaves
<1>6. PICK w, U : w = walk' /\ U = Visited
  OBVIOUS
<1>7. /\ EntryAt(L, n, tables, stack, m, v) /\ stack = walk.stack /\ t = stack[m].pt /\ i = stack[m].idx
      /\ v \in Nat /\ k \in Nat \ {0} /\ v = walk.vaddr /\ Covers = PteCovers[m] /\ k * PteCovers[m] <= walk.size
  BY <1>4 DEF Spans
<1>8. /\ m \in 1..Levels /\ t \in L /\ tables[t].lv = m /\ i \in Nat
      /\ \A x \in StackTables(stack) : x \in L /\ On(n, tables, x, v)
  BY <1>7 DEF EntryAt
<1>9. v % PteCovers[m] = 0
  <2>1. ~(walk.vaddr % Covers # 0)
    BY <1>1 DEF GoesDown
  <2> QED
    BY <1>7, <2>1
<1>10. Rewrote(U, tables, t, i, k) /\ Written(U, t, i, k, PteCovers[m])
  BY <1>0, <1>1, <1>4, <1>6, VisitedEntries
<1>11. /\ i..(i + k - 1) \subseteq DOMAIN tables[t].pte
       /\ \A j \in i..(i + k - 1) : tables[t].pte[j].kind = "none"
  BY <1>0, <1>1, <1>2, <1>4, <1>9, SpanFree
<1>12. Filled(U, tables, t, i, k)
  <2>1. ASSUME NEW j \in i..(i + k - 1) PROVE U[t].pte[j].kind = "page"
    <3>1. U[t].pte[j] = PageAt(Target + (j - i) * PteCovers[m])
      BY <1>10 DEF Written
    <3> QED
      BY <3>1 DEF PageAt
  <2> QED
    BY <1>11, <2>1 DEF Filled
<1>13. PICK b \in Nat \ {0} : b = k * PteCovers[m]
  <2>1. PICK c \in Nat \ {0} : c = PteCovers[m]
    BY <1>8, CoversAre
  <2>2. PICK d \in Nat \ {0} : d = k
    BY <1>7
  <2>3. d * c \in Nat \ {0}
    OBVIOUS
  <2> QED
    BY <2>1, <2>2, <2>3
<1>14. /\ w.vaddr = v + b /\ w.size = walk.size - b /\ w.off = walk.off + b /\ w.piece = walk.piece /\ w.up = TRUE
       /\ Follows(L, n, tables, w.stack, v + b) /\ Len(w.stack) = m
  BY <1>5, <1>6, <1>13 DEF Leaves
<1>15. /\ walk.size \in Nat /\ walk.off \in Nat /\ req.va \in Nat /\ req.va <= v
       /\ w.piece > 0 => w.off + w.size = req.pieces[w.piece][2]
  <2>1. walk.size \in Nat
    BY <1>0, WalkFacts DEF Mapping
  <2>2. walk.off \in Nat /\ req.va \in Nat /\ walk.piece \in Nat
    BY <1>0, WalkFacts
  <2>3. req.va <= v
    BY <1>0, <1>7 DEF Straight
  <2>4. walk.piece > 0 => walk.off + walk.size = req.pieces[walk.piece][2]
    BY <1>0 DEF Straight
  <2>5. w.off + w.size = walk.off + walk.size
    <3>1. PICK o \in Nat, s \in Nat : o = walk.off /\ s = walk.size
      BY <2>1, <2>2
    <3>2. w.off = o + b /\ w.size = s - b
      BY <1>14, <3>1
    <3> QED
      BY <3>1, <3>2
  <2> QED
    BY <1>14, <2>1, <2>2, <2>3, <2>4, <2>5
<1>16. PICK q, p : q = Current("map", walk, req) /\ p = Current("map", w, req)
  OBVIOUS
<1>17. /\ q.va = req.va /\ q.size = req.size /\ q.pieces = req.pieces /\ q.from = req.va /\ q.to = v
  BY <1>7, <1>16, PartIs DEF Current
<1>18. /\ p.va = req.va /\ p.size = req.size /\ p.pieces = req.pieces /\ p.from = req.va /\ p.to = v + b
  BY <1>14, <1>16, PartIs DEF Current
<1>19. \A own : /\ PartsOf(own, "map", walk, req) = {Whole(o) : o \in own} \cup {q}
                /\ PartsOf(own, "map", w, req) = {Whole(o) : o \in own} \cup {p}
  BY <1>16, PartsInside
<1>20. Within(q, p)
  <2>1. SameRange(q, p)
    BY <1>17, <1>18 DEF SameRange
  <2>2. ASSUME NEW u \in Nat, InPart(q, u) PROVE InPart(p, u)
    BY <1>7, <1>13, <1>17, <1>18, <2>2 DEF InPart
  <2> QED
    BY <2>1, <2>2 DEF Within
<1>21. PICK P, Q, V, Z, W : /\ Q = PartsOf(maps \cup lost, "map", walk, req) /\ P = PartsOf(maps \cup lost, "map", w, req)
                            /\ V = Used(PartsOf(maps, "map", walk, req)) /\ Z = Used(PartsOf(maps, "map", w, req))
                            /\ W = Used(P)
  OBVIOUS
<1>22. Grows(Q, P)
  <2>1. \A o : Within(o, o)
    BY DEF Within, SameRange
  <2>2. Q = {Whole(o) : o \in maps \cup lost} \cup {q} /\ P = {Whole(o) : o \in maps \cup lost} \cup {p}
    BY <1>19, <1>21
  <2> QED
    BY <1>20, <2>1, <2>2 DEF Grows
<1>23. Says(L, n, tables, P, V, Excused(pc, walk), W)
  <2>1. Right(L, n, tables, Q) /\ Covered(L, n, tables, V) /\ Met(L, n, tables, Excused(pc, walk), Used(Q))
    BY <1>2, <1>21, Zenon DEF Maps
  <2>2. Right(L, n, tables, P)
    BY <1>0, <1>3, <1>22, <2>1, RightKept
  <2>3. Used(Q) \subseteq W
    BY <1>21, <1>22, UsedGrows
  <2>4. Met(L, n, tables, Excused(pc, walk), W)
    BY <2>1, <2>3, MetKept
  <2> QED
    BY <2>1, <2>2, <2>4 DEF Says
<1>24. p \in P
  BY <1>19, <1>21
<1>25. \A j \in i..(i + k - 1) : Backed(n, U, t, j, p)
  <2>1. p.to = v + k * PteCovers[m]
    BY <1>13, <1>18
  <2>2. ASSUME NEW j \in i..(i + k - 1) PROVE Backed(n, U, t, j, p)
    BY <1>0, <1>1, <1>3, <1>4, <1>9, <1>10, <1>18, <2>1, SpanBacked
  <2> QED
    BY <2>2
<1>26. \A u \in Z : u \in V \/ \E j \in i..(i + k - 1) : Under(n, tables, t, j, u)
  <2>1. SUFFICES ASSUME NEW u \in Z, u \notin V PROVE \E j \in i..(i + k - 1) : Under(n, tables, t, j, u)
    OBVIOUS
  <2>2. u \in Nat /\ InPart(p, u)
    <3>1. PICK x \in {Whole(o) : o \in maps} \cup {p} : u \in Nat /\ InPart(x, u)
      BY <1>19, <1>21 DEF Used
    <3>2. V = {y \in Nat : \E z \in {Whole(o) : o \in maps} \cup {q} : InPart(z, y)}
      BY <1>19, <1>21 DEF Used
    <3> QED
      BY <2>1, <3>1, <3>2
  <2>3. ~InPart(q, u)
    BY <1>19, <1>21, <2>1, <2>2 DEF Used
  <2>4. v <= u /\ u < v + b
    BY <1>7, <1>13, <1>17, <1>18, <2>2, <2>3 DEF InPart
  <2> QED
    BY <1>0, <1>3, <1>4, <1>9, <1>13, <2>2, <2>4, SpanCovers
<1>27. \A x \in Excused(pc, walk) : x \in {} \/ \E u \in W : On(n, tables, x, u)
  <2>1. v \in W
    <3>1. InPart(p, v)
      <4>1. req.va <= v /\ v < v + b
        BY <1>7, <1>13, <1>15
      <4> QED
        BY <1>18, <4>1 DEF InPart
    <3> QED
      BY <1>7, <1>21, <1>24, <3>1 DEF Used
  <2>2. Excused(pc, walk) \subseteq StackTables(stack)
    BY <1>7 DEF Excused
  <2> QED
    BY <1>8, <2>1, <2>2
<1>28. Says(L, n, U, P, Z, {}, W)
  BY <1>0, <1>3, <1>8, <1>10, <1>11, <1>12, <1>23, <1>24, <1>25, <1>26, <1>27, MapsFilled
<1>29. Excused("map", w) = {}
  BY <1>14, LoopsApart DEF Excused
<1>30. Tree(L, n, U)
  BY <1>0, <1>3, <1>8, <1>10, <1>12, TreeFilled
<1>31. Follows(L, n, U, w.stack, v + b)
  <2>1. ASSUME NEW x \in L, NEW j PROVE Number(n, U, x, j) = Number(n, tables, x, j)
    <3>1. U[x].lv = tables[x].lv
      BY <1>3, <1>10 DEF Tree, Rewrote
    <3> QED
      BY <3>1 DEF Number
  <2>2. PICK new, l : new = w.stack /\ l = Len(new)
    OBVIOUS
  <2>3. Follows(L, n, tables, new, v + b)
    BY <1>14, <2>2
  <2>4. new[l].pt \in L
    <3>1. l \in 1..l
      BY <1>8, <1>14, <2>2
    <3> QED
      BY <2>2, <2>3, <3>1 DEF Follows
  <2>5. Follows(L, n, U, new, v + b)
    BY <2>1, <2>2, <2>3, <2>4 DEF Follows
  <2> QED
    BY <2>2, <2>5
<1>32. Maps(L, n, U, "map", w, req, maps, lost)
  <2>1. Right(L, n, U, P) /\ Covered(L, n, U, Z) /\ Met(L, n, U, {}, W)
    BY <1>28 DEF Says
  <2> QED
    BY <1>14, <1>21, <1>29, <1>30, <1>31, <2>1, Zenon DEF Maps
<1>33. Straight("map", w, req)
  <2>1. req.va <= w.vaddr
    BY <1>7, <1>13, <1>14, <1>15, SMTT(60)
  <2> QED
    BY <1>15, <2>1, LoopsApart DEF Straight
<1>34. \E L2, m2 : Maps(L2, m2, tables', pc', walk', req', maps', lost')
  BY <1>1, <1>6, <1>32
<1> QED
  BY <1>0, <1>1, <1>6, <1>33, <1>34 DEF Steady

-----------------------------------------------------------------------------
(* A visit that unmaps.                                                    *)

\* Two addresses of a table are on the way of the same tables above it.
LEMMA SameAbove ==
  ASSUME NEW T, TablesOK(T), NEW L, NEW n, Tree(L, n, T), NEW t \in L, NEW u \in Nat, NEW v \in Nat,
         On(n, T, t, u), On(n, T, t, v), NEW l \in 1..T[t].lv
  PROVE  Above(l, u) = Above(l, v) /\ (l < T[t].lv => At(l, u) = At(l, v))
<1>1. PICK m \in 1..Levels : m = T[t].lv
  BY TreeTable
<1>2. Above(m, u) = Above(m, v)
  BY <1>1 DEF On
<1>3. CASE l = m
  BY <1>1, <1>2, <1>3
<1>4. CASE l < m
  <2>0. Levels \in Nat
    BY CoversAre
  <2>1. PICK k \in 1..Levels : k = m - 1 /\ m = k + 1 /\ l \in 1..k
    BY <1>1, <1>4, <2>0
  <2>2. At(k, u) = At(k, v)
    BY <1>2, <2>1, AboveIs
  <2>3. At(l, u) = At(l, v)
    BY <2>1, <2>2, Coarse
  <2> QED
    BY <2>3 DEF Above
<1>5. l = m \/ l < m
  BY <1>1
<1> QED
  BY <1>1, <1>3, <1>4, <1>5

\* A table under an entry is on the way of the addresses of the entry.
LEMMA BelowEntry ==
  ASSUME NEW T, TablesOK(T), NEW L, NEW n, Tree(L, n, T), NEW t \in L, NEW i, NEW a, Points(T, t, i, a),
         NEW u \in Nat, Under(n, T, t, i, u)
  PROVE  a \in L /\ T[a].lv = T[t].lv + 1 /\ On(n, T, a, u)
<1>1. a \in L /\ n[a] = Number(n, T, t, i)
  BY TreeEntry
<1>2. T[a].lv = T[t].lv + 1
  BY Zenon DEF TablesOK
<1>3. T[t].lv \in 1..Levels /\ T[a].lv \in 1..Levels
  BY <1>1, TreeTable
<1>4. Above(T[a].lv, u) = At(T[t].lv, u)
  BY <1>2, <1>3, AboveIs
<1> QED
  BY <1>1, <1>2, <1>4 DEF On, Under

\* The places of a table are emptied: k from i on, from address v on.
Cleared(L, n, T, U, t, m, i, k, v) ==
  /\ t \in L /\ T[t].lv = m /\ m \in 1..Levels /\ i \in Nat /\ k \in Nat /\ i + k <= PteCnt[m] /\ v \in Nat
  /\ Under(n, T, t, i, v) /\ Rewrote(U, T, t, i, k)
  /\ \A j \in i..(i + k - 1) : U[t].pte[j].kind = "none"

\* The tables below them are not reached any more.
Gone(L, n, T, m, v, k) ==
  {x \in L : T[x].lv > m /\ \E u \in Nat : On(n, T, x, u) /\ Between(m, v, k, u)}

LEMMA GoneWhole ==
  ASSUME NEW T, TablesOK(T), NEW L, NEW n, Tree(L, n, T), NEW m \in 1..Levels, NEW v, NEW k,
         NEW x \in L, T[x].lv > m, NEW u \in Nat, On(n, T, x, u)
  PROVE  x \in Gone(L, n, T, m, v, k) <=> Between(m, v, k, u)
<1>1. ASSUME NEW w \in Nat, On(n, T, x, w) PROVE Between(m, v, k, w) <=> Between(m, v, k, u)
  <2>1. T[x].lv \in 1..Levels /\ m < T[x].lv /\ Levels \in Nat
    BY TreeTable, CoversAre
  <2>2. m \in 1..T[x].lv
    BY <2>1
  <2>3. At(m, w) = At(m, u)
    BY <1>1, <2>1, <2>2, SameAbove
  <2> QED
    BY <2>3 DEF Between
<1> QED
  BY <1>1 DEF Gone

LEMMA ClearedSpan ==
  ASSUME NEW T, TablesOK(T), NEW L, NEW n, Tree(L, n, T), NEW U, NEW t, NEW m, NEW i, NEW k, NEW v,
         Cleared(L, n, T, U, t, m, i, k, v), NEW u \in Nat
  PROVE  /\ Between(m, v, k, u) => On(n, T, t, u) /\ Place(m, u) \in i..(i + k - 1)
         /\ \A j \in i..(i + k - 1) : Under(n, T, t, j, u) => Between(m, v, k, u)
<1>1. /\ t \in L /\ T[t].lv = m /\ m \in 1..Levels /\ i \in Nat /\ k \in Nat /\ i + k <= PteCnt[m]
      /\ v \in Nat /\ Under(n, T, t, i, v)
  BY DEF Cleared
<1>2. Between(m, v, k, u) <=> (On(n, T, t, u) /\ Place(m, u) \in i..(i + k - 1))
  BY <1>1, BetweenUnder
<1>3. DOMAIN T[t].pte = 0..(PteCnt[m] - 1) /\ PteCnt[m] \in Nat
  BY <1>1, TreeTable, CoversAre
<1>4. i..(i + k - 1) \subseteq DOMAIN T[t].pte
  <2>1. PICK a \in Nat, d \in Nat, e \in Nat : a = i /\ d = k /\ e = PteCnt[m] /\ a + d <= e
    BY <1>1, <1>3
  <2>2. a..(a + d - 1) \subseteq 0..(e - 1)
    BY <2>1
  <2> QED
    BY <1>3, <2>1, <2>2
<1>5. \A j \in DOMAIN T[t].pte : Under(n, T, t, j, u) <=> (On(n, T, t, u) /\ Place(m, u) = j)
  BY <1>1, UnderIs
<1> QED
  BY <1>2, <1>4, <1>5

\* The entries of the tables that are still reached are those before, the cleared ones not.
LEMMA ClearedEntry ==
  ASSUME NEW T, TablesOK(T), NEW L, NEW n, Tree(L, n, T), NEW U, NEW t, NEW m, NEW i, NEW k, NEW v,
         Cleared(L, n, T, U, t, m, i, k, v), NEW x \in L
  PROVE  /\ x \in DOMAIN U /\ U[x].lv = T[x].lv /\ DOMAIN U[x].pte = DOMAIN T[x].pte
         /\ \A j \in DOMAIN T[x].pte :
              \/ U[x].pte[j] = T[x].pte[j] /\ (x # t \/ j \notin i..(i + k - 1))
              \/ U[x].pte[j].kind = "none" /\ x = t /\ j \in i..(i + k - 1)
<1>1. L \subseteq DOMAIN T
  BY DEF Tree
<1> QED
  BY <1>1 DEF Cleared, Rewrote

LEMMA TreeCleared ==
  ASSUME NEW T, TablesOK(T), NEW L, NEW n, Tree(L, n, T), NEW U, TablesOK(U), NEW t, NEW m, NEW i, NEW k, NEW v,
         Cleared(L, n, T, U, t, m, i, k, v), NEW M, M = L \ Gone(L, n, T, m, v, k),
         NEW n2, n2 \in [M -> Nat], Agrees(n2, n, M)
  PROVE  Tree(M, n2, U)
<1>1. L \subseteq DOMAIN T /\ Root \in L /\ n \in [L -> Nat] /\ n[Root] = 0 /\ M \subseteq L
  BY DEF Tree
<1>2. t \in L /\ T[t].lv = m /\ m \in 1..Levels /\ Levels \in Nat
  BY CoversAre DEF Cleared
<1>3. ASSUME NEW x \in M
      PROVE  /\ x \in L /\ U[x].lv = T[x].lv /\ x \in DOMAIN U /\ DOMAIN U[x].pte = DOMAIN T[x].pte
             /\ n2[x] = n[x] /\ \A j : Number(n2, U, x, j) = Number(n, T, x, j)
  <2>1. U[x].lv = T[x].lv /\ x \in DOMAIN U /\ DOMAIN U[x].pte = DOMAIN T[x].pte
    BY <1>1, ClearedEntry
  <2>2. n2[x] = n[x]
    BY DEF Agrees
  <2> QED
    BY <1>1, <2>1, <2>2 DEF Number
<1>4. Root \in M
  <2>1. T[Root].lv = 1
    BY Zenon DEF TablesOK
  <2> QED
    BY <1>1, <1>2, <2>1 DEF Gone
<1>5. ASSUME NEW x, NEW j, NEW a, x \in M /\ Points(U, x, j, a) PROVE a \in M /\ n2[a] = Number(n2, U, x, j)
  <2>1. j \in DOMAIN T[x].pte /\ U[x].pte[j] = TableAt(a) /\ x \in DOMAIN T
    BY <1>1, <1>3, <1>5 DEF Points
  <2>2. U[x].pte[j].kind # "none"
    BY <2>1 DEF TableAt
  <2>3. U[x].pte[j] = T[x].pte[j] /\ (x # t \/ j \notin i..(i + k - 1))
    BY <1>3, <1>5, <2>1, <2>2, ClearedEntry
  <2>4. Points(T, x, j, a) /\ x \in L
    BY <1>3, <1>5, <2>1, <2>3 DEF Points
  <2>5. a \in L /\ n[a] = Number(n, T, x, j) /\ T[a].lv = T[x].lv + 1 /\ a # Root
    <3>1. a \in L /\ n[a] = Number(n, T, x, j)
      BY <2>4, TreeEntry
    <3>2. T[a].lv = T[x].lv + 1 /\ a # Root
      BY <2>4, Zenon DEF TablesOK
    <3> QED
      BY <3>1, <3>2
  <2>6. a \notin Gone(L, n, T, m, v, k)
    <3>1. SUFFICES ASSUME T[a].lv > m, NEW u \in Nat, On(n, T, a, u), Between(m, v, k, u) PROVE FALSE
      BY DEF Gone
    <3>2. PICK s \in L : T[s].lv + 1 = T[a].lv /\ On(n, T, s, u) /\ Points(T, s, Place(T[s].lv, u), a)
      BY <2>5, <3>1, ParentOn
    <3>3. s = x /\ j = Place(T[x].lv, u)
      BY <2>4, <3>2, ZenonT(60) DEF TablesOK
    <3>4. On(n, T, x, u)
      BY <3>2, <3>3
    <3>5. T[x].lv \in 1..Levels
      BY <2>4, TreeTable
    <3>6. CASE T[x].lv = m
      <4>1. On(n, T, t, u) /\ Place(m, u) \in i..(i + k - 1)
        BY <3>1, ClearedSpan
      <4>2. x = t
        BY <1>2, <2>4, <3>4, <3>6, <4>1, OneTable
      <4> QED
        BY <2>3, <3>3, <3>6, <4>1, <4>2
    <3>7. CASE T[x].lv # m
      <4>1. T[x].lv > m
        BY <1>2, <2>5, <3>1, <3>5, <3>7
      <4>2. x \in Gone(L, n, T, m, v, k)
        BY <1>2, <2>4, <3>1, <3>4, <4>1, GoneWhole
      <4> QED
        BY <1>5, <4>2
    <3> QED
      BY <3>6, <3>7
  <2>7. a \in M
    BY <2>5, <2>6
  <2> QED
    BY <1>3, <1>5, <2>5, <2>7
<1>6. ASSUME NEW b \in M \ {Root} PROVE \E x \in M : \E j : Points(U, x, j, b)
  <2>1a. PICK x \in L : \E j : Points(T, x, j, b)
    BY <1>1 DEF Tree
  <2>1. PICK j : Points(T, x, j, b)
    BY <2>1a
  <2>2. x \in DOMAIN T /\ j \in DOMAIN T[x].pte /\ T[x].pte[j] = TableAt(b)
    BY <2>1 DEF Points
  <2>3. PICK u \in Nat : Under(n, T, x, j, u)
    BY <2>2, EntryAddress
  <2>4. b \in L /\ T[b].lv = T[x].lv + 1 /\ On(n, T, b, u)
    BY <2>1, <2>3, BelowEntry
  <2>5. T[x].lv \in 1..Levels /\ On(n, T, x, u)
    BY <2>2, <2>3, TreeTable, UnderIs
  <2>6. T[b].lv > m => ~Between(m, v, k, u)
    BY <1>2, <1>6, <2>4, GoneWhole
  <2>7. x \in M
    <3>1. SUFFICES ASSUME x \in Gone(L, n, T, m, v, k) PROVE FALSE
      OBVIOUS
    <3>2. T[x].lv > m
      BY <3>1 DEF Gone
    <3>3. Between(m, v, k, u)
      BY <1>2, <2>5, <3>1, <3>2, GoneWhole
    <3> QED
      BY <1>2, <2>4, <2>5, <2>6, <3>2, <3>3
  <2>8. x # t \/ j \notin i..(i + k - 1)
    <3>1. SUFFICES ASSUME x = t, j \in i..(i + k - 1) PROVE FALSE
      OBVIOUS
    <3>2. Between(m, v, k, u)
      BY <2>3, <3>1, ClearedSpan
    <3> QED
      BY <1>2, <2>4, <2>6, <3>1, <3>2
  <2>9. U[x].pte[j] = TableAt(b)
    BY <2>2, <2>8, ClearedEntry
  <2>10. Points(U, x, j, b)
    BY <1>3, <2>2, <2>7, <2>9 DEF Points
  <2> QED
    BY <2>7, <2>10
<1>7. ASSUME NEW x \in M, NEW y \in M, U[x].lv = U[y].lv, n2[x] = n2[y] PROVE x = y
  <2>1. x \in L /\ y \in L /\ T[x].lv = T[y].lv /\ n[x] = n[y]
    BY <1>3, <1>7
  <2> QED
    BY <2>1 DEF Tree
<1>8. M \subseteq DOMAIN U /\ n2[Root] = 0
  BY <1>1, <1>3, <1>4
<1> QED
  BY <1>4, <1>5, <1>6, <1>7, <1>8 DEF Tree

\* What is mapped after a visit that unmaps: P and Q are the parts before and after, q and p the
\* one the visit takes from, V and Z the addresses of mappings, X and W those of all ranges.
LEMMA RightCleared ==
  ASSUME NEW T, TablesOK(T), NEW L, NEW n, Tree(L, n, T), NEW U, NEW t, NEW m, NEW i, NEW k, NEW v,
         Cleared(L, n, T, U, t, m, i, k, v), NEW M, M = L \ Gone(L, n, T, m, v, k), NEW n2, Agrees(n2, n, M),
         NEW P, NEW Q, NEW q, NEW p \in Q, Right(L, n, T, P), \A o \in P : o \in Q \/ o = q, SameRange(q, p),
         \A u \in Nat : InPart(q, u) /\ ~Between(m, v, k, u) => InPart(p, u)
  PROVE  Right(M, n2, U, Q)
<1>1. SUFFICES ASSUME NEW x \in M, NEW j, PageEntry(U, x, j) PROVE \E o \in Q : Backed(n2, U, x, j, o)
  BY DEF Right
<1>2. t \in L /\ T[t].lv = m /\ m \in 1..Levels /\ Levels \in Nat
  BY CoversAre DEF Cleared
<1>3. x \in L /\ U[x].lv = T[x].lv /\ n2[x] = n[x] /\ DOMAIN U[x].pte = DOMAIN T[x].pte
  BY ClearedEntry DEF Agrees
<1>4. j \in DOMAIN T[x].pte /\ U[x].pte[j].kind = "page"
  BY <1>1, <1>3 DEF PageEntry
<1>5. U[x].pte[j] = T[x].pte[j] /\ (x # t \/ j \notin i..(i + k - 1))
  BY <1>3, <1>4, ClearedEntry
<1>6. PageEntry(T, x, j)
  BY <1>4, <1>5 DEF PageEntry
<1>7. PICK o \in P : Backed(n, T, x, j, o)
  BY <1>3, <1>6 DEF Right
<1>8. CASE o \in Q
  <2>1. Backed(n2, U, x, j, o)
    BY <1>3, <1>5, <1>7, BackedSame
  <2> QED
    BY <1>8, <2>1
<1>9. CASE o = q
  <2>1. ASSUME NEW u \in Nat, Under(n, T, x, j, u) PROVE ~Between(m, v, k, u)
    <3>1. SUFFICES ASSUME Between(m, v, k, u) PROVE FALSE
      OBVIOUS
    <3>2. On(n, T, t, u) /\ Place(m, u) \in i..(i + k - 1)
      BY <3>1, ClearedSpan
    <3>3. On(n, T, x, u)
      BY <1>3, <1>4, <2>1, UnderIs
    <3>4. \/ t = x /\ j = Place(T[t].lv, u)
          \/ T[t].lv < T[x].lv
      BY <1>2, <1>3, <1>6, <2>1, <3>2, Leaf
    <3>5. CASE t = x /\ j = Place(m, u)
      BY <1>5, <3>2, <3>5
    <3>6. CASE m < T[x].lv
      <4>1. T[x].lv > m
        BY <3>6, <1>2, <1>3, TreeTable
      <4>2. x \in Gone(L, n, T, m, v, k)
        BY <1>2, <1>3, <3>1, <3>3, <4>1, GoneWhole
      <4> QED
        BY <4>2
    <3> QED
      BY <1>2, <3>4, <3>5, <3>6
  <2>2. Backed(n, T, x, j, q)
    BY <1>7, <1>9
  <2>3. Backed(n, T, x, j, p)
    <3>1. SUFFICES ASSUME NEW u \in Nat, Under(n, T, x, j, u)
                   PROVE  InPart(p, u) /\ Phys(p, u, T[x].pte[j].addr + (u % PteCovers[T[x].lv]))
      BY DEF Backed
    <3>2. InPart(q, u) /\ Phys(q, u, T[x].pte[j].addr + (u % PteCovers[T[x].lv]))
      BY <2>2, <3>1 DEF Backed
    <3> QED
      BY <2>1, <3>1, <3>2, PhysKept
  <2>4. Backed(n2, U, x, j, p)
    BY <1>3, <1>5, <2>3, BackedSame
  <2> QED
    BY <2>4
<1> QED
  BY <1>7, <1>8, <1>9

LEMMA CoveredCleared ==
  ASSUME NEW T, TablesOK(T), NEW L, NEW n, Tree(L, n, T), NEW U, NEW t, NEW m, NEW i, NEW k, NEW v,
         Cleared(L, n, T, U, t, m, i, k, v), NEW M, M = L \ Gone(L, n, T, m, v, k), NEW n2, Agrees(n2, n, M),
         NEW V, Covered(L, n, T, V), NEW Z, Z \subseteq V, \A u \in Z : u \in Nat /\ ~Between(m, v, k, u)
  PROVE  Covered(M, n2, U, Z)
<1>1. SUFFICES ASSUME NEW u \in Z PROVE \E x \in M : \E j : PageEntry(U, x, j) /\ Under(n2, U, x, j, u)
  BY DEF Covered
<1>2. t \in L /\ T[t].lv = m /\ m \in 1..Levels
  BY DEF Cleared
<1>3a. PICK x \in L : \E j : PageEntry(T, x, j) /\ Under(n, T, x, j, u)
  BY DEF Covered
<1>3. PICK j : PageEntry(T, x, j) /\ Under(n, T, x, j, u)
  BY <1>3a
<1>4. j \in DOMAIN T[x].pte /\ T[x].pte[j].kind = "page" /\ u \in Nat /\ ~Between(m, v, k, u)
  BY <1>3 DEF PageEntry
<1>5. On(n, T, x, u)
  BY <1>3, <1>4, UnderIs
<1>6. x \in M
  <2>1. SUFFICES ASSUME x \in Gone(L, n, T, m, v, k) PROVE FALSE
    OBVIOUS
  <2>2. T[x].lv > m
    BY <2>1 DEF Gone
  <2>3. Between(m, v, k, u)
    BY <1>2, <1>4, <1>5, <2>1, <2>2, GoneWhole
  <2> QED
    BY <1>4, <2>3
<1>7. x # t \/ j \notin i..(i + k - 1)
  <2>1. SUFFICES ASSUME x = t, j \in i..(i + k - 1) PROVE FALSE
    OBVIOUS
  <2>2. Between(m, v, k, u)
    BY <1>3, <1>4, <2>1, ClearedSpan
  <2> QED
    BY <1>4, <2>2
<1>8. U[x].pte[j] = T[x].pte[j] /\ U[x].lv = T[x].lv /\ n2[x] = n[x] /\ DOMAIN U[x].pte = DOMAIN T[x].pte
  <2>1. U[x].pte[j] = T[x].pte[j]
    BY <1>4, <1>7, ClearedEntry
  <2>2. U[x].lv = T[x].lv /\ DOMAIN U[x].pte = DOMAIN T[x].pte
    BY ClearedEntry
  <2> QED
    BY <1>6, <2>1, <2>2 DEF Agrees
<1>9. PageEntry(U, x, j)
  BY <1>4, <1>8 DEF PageEntry
<1>10. Under(n2, U, x, j, u)
  BY <1>3, <1>8, OnSame
<1> QED
  BY <1>6, <1>9, <1>10

\* On the way of the address of the visit there are tables of a set at each level.
WayIn(Y, L, n, T, m, v) == \A l \in 1..m : \E s \in Y : s \in L /\ T[s].lv = l /\ On(n, T, s, v)

LEMMA MetCleared ==
  ASSUME NEW T, TablesOK(T), NEW L, NEW n, Tree(L, n, T), NEW U, NEW t, NEW m, NEW i, NEW k, NEW v,
         Cleared(L, n, T, U, t, m, i, k, v), NEW M, M = L \ Gone(L, n, T, m, v, k), NEW n2, Agrees(n2, n, M),
         NEW X \in SUBSET Nat, Met(L, n, T, {}, X), NEW W, \A u \in X : u \in W \/ Between(m, v, k, u),
         On(n, T, t, v), NEW Y, WayIn(Y, L, n, T, m, v)
  PROVE  Met(M, n2, U, Y, W)
<1>1. SUFFICES ASSUME NEW x \in M \ {Root}, x \notin Y PROVE \E u \in W : On(n2, U, x, u)
  BY DEF Met
<1>2. t \in L /\ T[t].lv = m /\ m \in 1..Levels /\ v \in Nat /\ Levels \in Nat
  BY CoversAre DEF Cleared
<1>3. x \in L \ {Root} /\ U[x].lv = T[x].lv /\ n2[x] = n[x]
  BY ClearedEntry DEF Agrees
<1>4. PICK u \in X : On(n, T, x, u)
  BY <1>3 DEF Met
<1>5. CASE u \in W
  <2>1. On(n2, U, x, u)
    BY <1>3, <1>4, OnSame
  <2> QED
    BY <1>5, <2>1
<1>6. CASE Between(m, v, k, u)
  <2>1. On(n, T, t, u)
    BY <1>6, ClearedSpan
  <2>2. PICK l \in 1..Levels : l = T[x].lv
    BY <1>3, TreeTable
  <2>3. ~(l > m)
    BY <1>1, <1>2, <1>3, <1>4, <1>6, <2>2, GoneWhole
  <2>4. l \in 1..m
    BY <1>2, <2>2, <2>3
  <2>5. PICK s \in Y : s \in L /\ T[s].lv = l /\ On(n, T, s, v)
    BY <2>4 DEF WayIn
  <2>6. Above(l, u) = Above(l, v)
    BY <1>2, <2>1, <2>4, SameAbove
  <2>7. On(n, T, s, u)
    BY <2>5, <2>6 DEF On
  <2>8. s = x
    BY <1>3, <1>4, <2>2, <2>5, <2>7, OneTable
  <2> QED
    BY <1>1, <2>5, <2>8
<1> QED
  BY <1>5, <1>6

\* The entries of addresses that are still to be unmapped
LEMMA CoveredEntry ==
  ASSUME IInv, Straight(pc, walk, req), pc = "unmap", NEW L, NEW n,
         Maps(L, n, tables, pc, walk, req, maps, lost), NEW u \in Nat, walk.vaddr <= u, u < walk.vaddr + walk.size,
         NEW t \in L, On(n, tables, t, u), NEW j, j = Place(tables[t].lv, u)
  PROVE  /\ j \in DOMAIN tables[t].pte /\ InPart(Current(pc, walk, req), u)
         /\ \/ PageEntry(tables, t, j)
            \/ tables[t].pte[j].kind = "table" /\ tables[t].lv # Levels
<1>1. TablesOK(tables) /\ Tree(L, n, tables)
  BY Zenon DEF IInv, Maps
<1>2. PICK q : q = Current(pc, walk, req)
  OBVIOUS
<1>3. q.from = walk.vaddr /\ q.to = req.va + req.size /\ walk.vaddr + walk.size = req.va + req.size
  <2>1. q.from = walk.vaddr /\ q.to = req.va + req.size
    BY <1>2, PartIs, LoopsApart DEF Current
  <2> QED
    BY <2>1 DEF Straight
<1>4. InPart(q, u)
  BY <1>3 DEF InPart
<1>5. u \in Used(PartsOf(maps, pc, walk, req))
  <2>1. q \in PartsOf(maps, pc, walk, req)
    BY <1>2 DEF PartsOf
  <2> QED
    BY <1>4, <2>1 DEF Used
<1>6a. PICK x \in L : \E i : PageEntry(tables, x, i) /\ Under(n, tables, x, i, u)
  <2>1. Covered(L, n, tables, Used(PartsOf(maps, pc, walk, req)))
    BY Zenon DEF Maps
  <2> QED
    BY <1>5, <2>1 DEF Covered
<1>6. PICK i : PageEntry(tables, x, i) /\ Under(n, tables, x, i, u)
  BY <1>6a
<1>7. \/ t = x /\ i = j
      \/ tables[t].lv < tables[x].lv /\ tables[t].pte[j].kind = "table"
  BY <1>1, <1>6, Leaf DEF Leads
<1>8. tables[t].lv \in 1..Levels /\ tables[x].lv \in 1..Levels /\ Levels \in Nat /\ j \in DOMAIN tables[t].pte
  BY <1>1, TreeTable, UnderIs, CoversAre
<1> QED
  BY <1>2, <1>4, <1>6, <1>7, <1>8

\* A visit that unmaps starts where its entry does, and has room for it.
LEMMA UnmapAt ==
  ASSUME IInv, Straight(pc, walk, req), pc = "unmap", walk.size > 0, ~GoesDown, NEW L, NEW n,
         Maps(L, n, tables, pc, walk, req, maps, lost),
         NEW m, NEW v, v = walk.vaddr, EntryAt(L, n, tables, walk.stack, m, v)
  PROVE  v % PteCovers[m] = 0 /\ PteCovers[m] <= walk.size
<1>1. TablesOK(tables) /\ Tree(L, n, tables) /\ pc \in Traversing
  BY LoopsApart, Zenon DEF IInv, Maps
<1>2. PICK t, i : t = walk.stack[m].pt /\ i = walk.stack[m].idx
  OBVIOUS
<1>3. /\ m \in 1..Levels /\ t \in L /\ tables[t].lv = m /\ i = Place(m, v) /\ On(n, tables, t, v)
      /\ Under(n, tables, t, i, v) /\ Level = m /\ Entry = tables[t].pte[i]
  BY <1>2 DEF EntryAt
<1>4. v \in Nat /\ walk.size \in Nat /\ walk.vaddr + walk.size = req.va + req.size /\ req.va \in Nat /\ req.size \in Nat
  BY <1>1, WalkFacts DEF Straight
<1>5. PageEntry(tables, t, i) /\ InPart(Current(pc, walk, req), v)
  <2>1. \/ PageEntry(tables, t, i)
        \/ tables[t].pte[i].kind = "table" /\ tables[t].lv # Levels
    BY <1>3, <1>4, CoveredEntry
  <2>2. InPart(Current(pc, walk, req), v)
    BY <1>3, <1>4, CoveredEntry
  <2>3. IsPage(Level, Entry)
    BY LoopsApart DEF GoesDown
  <2> QED
    BY <1>3, <2>1, <2>2, <2>3 DEF IsPage
<1>6. PICK q : q = Current(pc, walk, req)
  OBVIOUS
<1>7. q \in PartsOf(maps \cup lost, pc, walk, req)
  BY <1>6 DEF PartsOf
<1>8. PICK p \in PartsOf(maps \cup lost, pc, walk, req) : Backed(n, tables, t, i, p)
  <2>1. Right(L, n, tables, PartsOf(maps \cup lost, pc, walk, req))
    BY Zenon DEF Maps
  <2> QED
    BY <1>3, <1>5, <2>1 DEF Right
<1>9. p = q
  <2>1. InPart(p, v)
    BY <1>3, <1>4, <1>8 DEF Backed
  <2> QED
    BY <1>4, <1>5, <1>6, <1>7, <2>1, OnePart
<1>10. q.from = walk.vaddr /\ q.to = req.va + req.size
  BY <1>6, PartIs, LoopsApart DEF Current
<1>11. ASSUME NEW u \in Nat, At(m, u) = At(m, v) PROVE v <= u /\ u < v + walk.size
  <2>1. Under(n, tables, t, i, u)
    BY <1>3, <1>11 DEF Under
  <2>2. InPart(q, u)
    BY <1>8, <1>9, <2>1 DEF Backed
  <2> QED
    BY <1>4, <1>10, <2>2 DEF InPart
<1>12. PICK c \in Nat \ {0} : c = PteCovers[m]
  BY <1>3, CoversAre
<1>13. PICK e \in Nat : e = At(m, v)
  BY <1>3, <1>4, AtIs
<1>14. PICK x \in Nat : x = e * c /\ x <= v /\ v < x + c /\ v % c = v - x
  <2>1. /\ At(m, v) * PteCovers[m] \in Nat /\ At(m, v) * PteCovers[m] <= v
        /\ v < At(m, v) * PteCovers[m] + PteCovers[m] /\ v % PteCovers[m] = v - At(m, v) * PteCovers[m]
    BY <1>3, <1>4, AtIs
  <2>2. At(m, v) * PteCovers[m] = e * c
    BY <1>12, <1>13
  <2> QED
    BY <1>12, <2>1, <2>2
<1>15. At(m, x) = e
  <2>1. e * PteCovers[m] <= x /\ x < e * PteCovers[m] + PteCovers[m]
    BY <1>12, <1>14
  <2> QED
    BY <1>3, <2>1, AtOf
<1>16. v = x
  <2>1. v <= x
    BY <1>11, <1>13, <1>15
  <2> QED
    BY <1>4, <1>14, <2>1
<1>17. PICK y \in Nat : y = x + c - 1
  BY <1>14
<1>18. At(m, y) = e
  <2>1. e * PteCovers[m] <= y /\ y < e * PteCovers[m] + PteCovers[m]
    BY <1>12, <1>14, <1>17
  <2> QED
    BY <1>3, <2>1, AtOf
<1>19. y < v + walk.size
  BY <1>11, <1>13, <1>18
<1> QED
  BY <1>4, <1>12, <1>14, <1>16, <1>17, <1>19

LEMMA SteadyUnmapVisits == ASSUME TInv, Visit, pc = "unmap" PROVE Steady'
<1>0. IInv /\ TablesOK(tables) /\ pc \in Traversing /\ Straight(pc, walk, req) /\ PagedRanges(maps \cup lost)
  BY LoopsApart DEF TInv, IInv, Steady
<1>1. /\ Walking /\ ~GoesDown /\ EntryCount > 0 /\ tables' = Visited
      /\ UNCHANGED <<pc, req, pa, va, maps, lost>> /\ ~walk.up /\ walk.size > 0
  BY DEF Visit, EntriesAsExpected, Walking
<1>2. PICK L, n : Maps(L, n, tables, pc, walk, req, maps, lost)
  BY DEF TInv, Steady
<1>3. Tree(L, n, tables) /\ Follows(L, n, tables, walk.stack, walk.vaddr)
  BY <1>0, <1>2, Zenon DEF Maps
<1>4. PICK stack, m, t, i, k, v : Spans(L, n, stack, m, t, i, k, v)
  BY <1>0, <1>1, <1>3, SpansOver
<1>5. Leaves(L, n, stack, m, k, v, walk')
  BY <1>0, <1>3, <1>4, VisitLeaves
<1>6. PICK w, U : w = walk' /\ U = Visited
  OBVIOUS
<1>7. /\ EntryAt(L, n, tables, stack, m, v) /\ stack = walk.stack /\ t = stack[m].pt /\ i = stack[m].idx
      /\ v \in Nat /\ k \in Nat \ {0} /\ v = walk.vaddr /\ k * PteCovers[m] <= walk.size
      /\ m = Len(stack) /\ i + k <= PteCnt[m]
  BY <1>4 DEF Spans
<1>8. /\ m \in 1..Levels /\ t \in L /\ tables[t].lv = m /\ i \in Nat
      /\ Under(n, tables, t, i, v) /\ On(n, tables, t, v)
      /\ \A x \in StackTables(stack) : x \in L /\ On(n, tables, x, v)
  BY <1>7 DEF EntryAt
<1>9. v % PteCovers[m] = 0
  BY <1>0, <1>1, <1>2, <1>7, UnmapAt
<1>10. Rewrote(U, tables, t, i, k) /\ Written(U, t, i, k, PteCovers[m])
  BY <1>0, <1>1, <1>4, <1>6, VisitedEntries, SMTT(60)
<1>11. Cleared(L, n, tables, U, t, m, i, k, v)
  <2>1. \A j \in i..(i + k - 1) : U[t].pte[j].kind = "none"
    BY <1>10 DEF Written, None
  <2> QED
    BY <1>7, <1>8, <1>10, <2>1 DEF Cleared
<1>12. TablesOK(U)
  BY <1>10 DEF Rewrote
<1>13. PICK M, n2 : M = L \ Gone(L, n, tables, m, v, k) /\ n2 = [x \in M |-> n[x]]
  OBVIOUS
<1>14. n2 \in [M -> Nat] /\ Agrees(n2, n, M)
  <2>1. n \in [L -> Nat]
    BY <1>3 DEF Tree
  <2> QED
    BY <1>13, <2>1 DEF Agrees
<1>15. Tree(M, n2, U)
  BY <1>0, <1>3, <1>11, <1>12, <1>13, <1>14, TreeCleared
<1>16. PICK b \in Nat \ {0} : b = k * PteCovers[m]
  <2>1. PICK c \in Nat \ {0} : c = PteCovers[m]
    BY <1>8, CoversAre
  <2>2. PICK d \in Nat \ {0} : d = k
    BY <1>7
  <2>3. d * c \in Nat \ {0}
    OBVIOUS
  <2> QED
    BY <2>1, <2>2, <2>3
<1>17. ASSUME NEW u \in Nat PROVE Between(m, v, k, u) <=> (v <= u /\ u < v + b)
  BY <1>7, <1>8, <1>9, <1>16, BetweenIs
<1>18. /\ w.vaddr = v + b /\ w.size = walk.size - b /\ w.up = TRUE /\ Len(w.stack) = m
       /\ Follows(L, n, tables, w.stack, v + b) /\ StackTables(w.stack) = StackTables(stack)
  BY <1>5, <1>6, <1>16 DEF Leaves
<1>19. /\ walk.size \in Nat /\ req.va \in Nat /\ req.size \in Nat /\ req.va <= v
       /\ v + walk.size = req.va + req.size /\ b <= walk.size
  <2>1. req.va \in Nat /\ req.size \in Nat /\ walk.size \in Int
    BY <1>0, WalkFacts
  <2>2. req.va <= v /\ v + walk.size = req.va + req.size /\ walk.size >= 0
    BY <1>0, <1>7 DEF Straight
  <2> QED
    BY <1>7, <1>16, <2>1, <2>2
<1>20. PICK q, p : q = Current("unmap", walk, req) /\ p = Current("unmap", w, req)
  OBVIOUS
<1>21. /\ q.va = req.va /\ q.size = req.size /\ q.pieces = req.pieces /\ q.from = v /\ q.to = req.va + req.size
  BY <1>7, <1>20, PartIs, LoopsApart DEF Current
<1>22. /\ p.va = req.va /\ p.size = req.size /\ p.pieces = req.pieces /\ p.from = v + b /\ p.to = req.va + req.size
  BY <1>18, <1>20, PartIs, LoopsApart DEF Current
<1>23. \A own : /\ PartsOf(own, "unmap", walk, req) = {Whole(o) : o \in own} \cup {q}
                /\ PartsOf(own, "unmap", w, req) = {Whole(o) : o \in own} \cup {p}
  BY <1>20, PartsInside
<1>24. PICK P, Q, V, Z, X, W :
         /\ P = PartsOf(maps \cup lost, "unmap", walk, req) /\ Q = PartsOf(maps \cup lost, "unmap", w, req)
         /\ V = Used(PartsOf(maps, "unmap", walk, req)) /\ Z = Used(PartsOf(maps, "unmap", w, req))
         /\ X = Used(P) /\ W = Used(Q)
  OBVIOUS
<1>25. Right(L, n, tables, P) /\ Covered(L, n, tables, V) /\ Met(L, n, tables, {}, X)
  <2>1. Excused(pc, walk) = {}
    BY <1>1, LoopsApart DEF Excused
  <2> QED
    BY <1>2, <1>24, <2>1, Zenon DEF Maps
<1>26. \A u \in Nat : InPart(q, u) /\ ~InPart(p, u) => Between(m, v, k, u)
  BY <1>7, <1>17, <1>21, <1>22 DEF InPart
<1>27. Right(M, n2, U, Q)
  <2>1. p \in Q /\ \A o \in P : o \in Q \/ o = q
    BY <1>23, <1>24
  <2>2. SameRange(q, p)
    BY <1>21, <1>22 DEF SameRange
  <2>3. \A u \in Nat : InPart(q, u) /\ ~Between(m, v, k, u) => InPart(p, u)
    BY <1>26
  <2> QED
    BY <1>0, <1>3, <1>11, <1>13, <1>14, <1>25, <2>1, <2>2, <2>3, RightCleared
<1>28. Covered(M, n2, U, Z)
  <2>1. ASSUME NEW u \in Z PROVE u \in V /\ u \in Nat /\ ~Between(m, v, k, u)
    <3>1. PICK x \in {Whole(o) : o \in maps} \cup {p} : u \in Nat /\ InPart(x, u)
      BY <1>23, <1>24 DEF Used
    <3>2. CASE x = p
      <4>1. v + b <= u /\ u < req.va + req.size
        BY <1>22, <3>1, <3>2 DEF InPart
      <4>2. InPart(q, u) /\ ~Between(m, v, k, u)
        BY <1>7, <1>16, <1>17, <1>21, <3>1, <4>1 DEF InPart
      <4>3. u \in V
        BY <1>23, <1>24, <3>1, <4>2 DEF Used
      <4> QED
        BY <3>1, <4>2, <4>3
    <3>3. CASE x # p
      <4>1. PICK o \in maps : x = Whole(o)
        BY <3>1, <3>3
      <4>2. u \in V
        BY <1>23, <1>24, <3>1, <4>1 DEF Used
      <4>3. x.from = o.va /\ x.to = o.va + o.size
        BY <4>1, PartIs DEF Whole
      <4>4. o.va <= u /\ u < o.va + o.size
        BY <3>1, <4>3 DEF InPart
      <4>5. Disjoint(o, req) /\ o.va \in Nat /\ o.size \in Nat
        <5>1. pc \in Claiming
          BY DEF Claiming
        <5> QED
          BY <1>0, <5>1, RangesApart
      <4>6. ~(v <= u /\ u < v + b)
        <5>1. PICK z \in Nat, d \in Nat, r \in Nat, a \in Nat, s \in Nat :
                z = walk.size /\ d = req.size /\ r = req.va /\ a = o.va /\ s = o.size
          BY <1>19, <4>5
        <5>2. a + s <= r \/ r + d <= a
          BY <4>5, <5>1 DEF Disjoint
        <5>3. r <= v /\ v + z = r + d /\ b <= z /\ a <= u /\ u < a + s
          BY <1>19, <4>4, <5>1
        <5>4. v \in Nat /\ u \in Nat
          BY <1>7, <3>1
        <5> QED
          BY <5>1, <5>2, <5>3, <5>4
      <4> QED
        BY <1>17, <3>1, <4>2, <4>6
    <3> QED
      BY <3>2, <3>3
  <2>2. Z \subseteq V /\ \A u \in Z : u \in Nat /\ ~Between(m, v, k, u)
    BY <2>1
  <2> QED
    BY <1>0, <1>3, <1>11, <1>13, <1>14, <1>25, <2>2, CoveredCleared
<1>29. WayIn(StackTables(stack), L, n, tables, m, v)
  <2>1. StackOK(tables, stack, walk.up)
    BY <1>0, <1>7, WalkFacts
  <2>2. ASSUME NEW l \in 1..m PROVE stack[l].pt \in StackTables(stack) /\ tables[stack[l].pt].lv = l
    BY <1>7, <2>1 DEF StackOK, FrameOK, StackTables
  <2> QED
    BY <1>8, <2>2 DEF WayIn
<1>30. Met(M, n2, U, StackTables(stack), W)
  <2>1. X \in SUBSET Nat
    BY <1>24 DEF Used
  <2>2. ASSUME NEW u \in X PROVE u \in W \/ Between(m, v, k, u)
    <3>1. PICK x \in P : u \in Nat /\ InPart(x, u)
      BY <1>24 DEF Used
    <3>2. x \in Q \/ x = q
      BY <1>23, <1>24
    <3>3. p \in Q
      BY <1>23, <1>24
    <3> QED
      BY <1>24, <1>26, <3>1, <3>2, <3>3 DEF Used
  <2> QED
    BY <1>0, <1>3, <1>8, <1>11, <1>13, <1>14, <1>25, <1>29, <2>1, <2>2, MetCleared
<1>31. Excused("unmap", w) = StackTables(stack)
  BY <1>18, LoopsApart DEF Excused
<1>32. Follows(M, n2, U, w.stack, v + b)
  <2>1. PICK new : new = w.stack /\ Len(new) = m
    BY <1>18
  <2>2. \A j \in 1..m : new[j].pt \in L
    BY <1>18, <2>1 DEF Follows
  <2>3. \A j \in 1..m : tables[new[j].pt].lv <= m
    <3>1. ASSUME NEW j \in 1..m PROVE tables[new[j].pt].lv <= m
      <4>1. new[j].pt \in StackTables(stack)
        BY <1>18, <2>1 DEF StackTables
      <4>2. PICK l \in 1..m : new[j].pt = stack[l].pt
        BY <1>7, <4>1, SMTT(60) DEF StackTables
      <4>3. tables[stack[l].pt].lv = l
        BY <1>0, <1>7, WalkFacts DEF StackOK, FrameOK
      <4> QED
        BY <1>8, <4>2, <4>3
    <3> QED
      BY <3>1
  <2>4. ASSUME NEW j \in 1..m PROVE new[j].pt \in M
    <3>1. new[j].pt \in L /\ tables[new[j].pt].lv \in 1..Levels /\ tables[new[j].pt].lv <= m
      BY <1>0, <1>3, <2>2, <2>3, TreeTable
    <3> QED
      BY <1>8, <1>13, <3>1 DEF Gone
  <2>5. PICK x, j : x = new[m].pt /\ j = new[m].idx
    OBVIOUS
  <2>6. x \in M /\ x \in L
    <3>1. m \in 1..m
      BY <1>8
    <3> QED
      BY <1>13, <2>4, <2>5, <3>1
  <2>7. Number(n2, U, x, j) = Number(n, tables, x, j)
    <3>1. U[x].lv = tables[x].lv
      BY <1>0, <1>3, <1>11, <2>6, ClearedEntry
    <3>2. n2[x] = n[x]
      BY <1>14, <2>6 DEF Agrees
    <3> QED
      BY <3>1, <3>2 DEF Number
  <2>8. At(m, v + b) = Number(n, tables, x, j)
    BY <1>18, <2>1, <2>5 DEF Follows
  <2> QED
    BY <2>1, <2>4, <2>5, <2>7, <2>8 DEF Follows
<1>33. Maps(M, n2, U, "unmap", w, req, maps, lost)
  BY <1>15, <1>18, <1>24, <1>27, <1>28, <1>30, <1>31, <1>32, Zenon DEF Maps
<1>34. Straight("unmap", w, req)
  <2>1. req.va <= w.vaddr /\ w.vaddr + w.size = req.va + req.size /\ w.size >= 0
    <3>1. PICK z \in Nat, d \in Nat, r \in Nat : z = walk.size /\ d = req.size /\ r = req.va
      BY <1>19
    <3>2. w.vaddr = v + b /\ w.size = z - b /\ r <= v /\ v + z = r + d /\ b <= z
      BY <1>18, <1>19, <3>1
    <3>3. r <= v + b /\ (v + b) + (z - b) = r + d /\ z - b >= 0
      <4>1. PICK x \in Nat : x = v
        BY <1>7
      <4>2. r <= x /\ x + z = r + d /\ b <= z
        BY <3>2, <4>1
      <4>3. r <= x + b /\ (x + b) + (z - b) = r + d /\ z - b >= 0
        BY <4>2
      <4> QED
        BY <4>1, <4>3
    <3> QED
      BY <3>1, <3>2, <3>3
  <2> QED
    BY <2>1, LoopsApart DEF Straight
<1>35. \E L2, m2 : Maps(L2, m2, tables', pc', walk', req', maps', lost')
  BY <1>1, <1>6, <1>33
<1> QED
  BY <1>0, <1>1, <1>6, <1>34, <1>35 DEF Steady

-----------------------------------------------------------------------------
(* The tables say what they should.                                        *)

LEMMA SteadyVisit == ASSUME TInv, Visit PROVE Steady'
<1>1. pc \in {"inspect", "map", "unmap"}
  BY DEF Visit, Walking, Ready
<1> QED
  BY <1>1, SteadyInspectionVisits, SteadyMapVisits, SteadyUnmapVisits

LEMMA SteadyStarts == Init => Steady
<1> SUFFICES ASSUME Init PROVE Steady
  OBVIOUS
<1>1. /\ pc = "idle" /\ walk = NoWalk /\ maps = {} /\ lost = {} /\ tables = [t \in {Root} |-> NewTable(1)]
  BY DEF Init
<1>2. PICK L, n : L = {Root} /\ n = [x \in {Root} |-> 0]
  OBVIOUS
<1>3. DOMAIN tables = {Root} /\ tables[Root] = NewTable(1)
  BY <1>1
<1>4. \A i \in DOMAIN tables[Root].pte : tables[Root].pte[i].kind = "none"
  BY <1>3, EntryTypes DEF NewTable
<1>5. \A t, i, a : t \in L => ~Points(tables, t, i, a)
  BY <1>2, <1>4, EntryTypes DEF Points
<1>6. Tree(L, n, tables)
  <2>1. Root \in L /\ L \subseteq DOMAIN tables /\ n \in [L -> Nat] /\ n[Root] = 0
    BY <1>2, <1>3
  <2>2. L \ {Root} = {} /\ \A t, u \in L : t = u
    BY <1>2
  <2> QED
    BY <1>5, <2>1, <2>2 DEF Tree
<1>7. Right(L, n, tables, PartsOf(maps \cup lost, pc, walk, req))
  BY <1>2, <1>4 DEF Right, PageEntry
<1>8. Covered(L, n, tables, Used(PartsOf(maps, pc, walk, req)))
  <2>1. PartsOf(maps, pc, walk, req) = {}
    BY <1>1 DEF PartsOf
  <2> QED
    BY <2>1 DEF Covered, Used
<1>9. Met(L, n, tables, Excused(pc, walk), Used(PartsOf(maps \cup lost, pc, walk, req)))
  BY <1>2 DEF Met
<1>10. Maps(L, n, tables, pc, walk, req, maps, lost)
  BY <1>1, <1>6, <1>7, <1>8, <1>9, LoopsApart DEF Maps
<1>11. Straight(pc, walk, req)
  BY <1>1, LoopsApart DEF Straight
<1>12. PagedRanges(maps \cup lost)
  BY <1>1 DEF PagedRanges
<1> QED
  BY <1>10, <1>11, <1>12 DEF Steady

LEMMA SteadyStep == ASSUME TInv, [Next]_vars PROVE Steady'
<1>1. CASE UNCHANGED vars
  <2>1. UNCHANGED <<pc, req, walk, tables, maps, lost>>
    BY <1>1 DEF vars
  <2> QED
    BY <2>1, SteadySame
<1>2. CASE \E size \in Sizes, contiguous \in BOOLEAN : Valloc(size, contiguous)
  BY <1>2, SteadyVallocs
<1>3. CASE \E m \in maps : Vfree(m)
  BY <1>3, SteadyVfree
<1>4. CASE NoCall
  <2>1. UNCHANGED <<pc, req, walk, tables, maps, lost>>
    BY <1>4 DEF NoCall, vars
  <2> QED
    BY <2>1, SteadySame
<1>5. CASE Proceed
  <2>1. CASE MergePhysical \/ MergeVirtual
    <3>1. UNCHANGED <<pc, req, walk, tables, maps, lost>>
      BY <2>1 DEF MergePhysical, MergeVirtual
    <3> QED
      BY <3>1, SteadySame
  <2>3. CASE AllocContiguous \/ MapPieces
    BY <2>3, SteadyInspects
  <2>4. CASE ContiguousRaises
    BY <2>4, SteadyContiguousRaises
  <2>5. CASE TakePiece \/ SmallerRange \/ Release \/ Released
    BY <2>5, SteadyVallocs
  <2>7. CASE GiveUp
    BY <2>7, SteadyGiveUp
  <2>9. CASE LevelDown
    BY <2>9, SteadyLevelDown
  <2>10. CASE CreateTable
    BY <2>10, SteadyCreateTable
  <2>11. CASE CreateTableRaises
    BY <2>11, SteadyCreateTableRaises
  <2>12. CASE Visit
    BY <2>12, SteadyVisit
  <2>13. CASE FreeTable
    BY <2>13, SteadyFreeTable
  <2>14. CASE LevelUp
    BY <2>14, SteadyLevelUp
  <2>15. CASE LevelUpEnds
    BY <2>15, SteadyLevelUpEnds
  <2>16. CASE Inspected
    BY <2>16, SteadyInspected
  <2>17. CASE NextPiece
    BY <2>17, SteadyNextPiece
  <2>18. CASE VallocReturns
    BY <2>18, SteadyReturns
  <2>19. CASE Unmapped
    BY <2>19, SteadyUnmapped
  <2> QED
    BY <1>5, <2>1, <2>3, <2>4, <2>5, <2>7, <2>9, <2>10, <2>11, <2>12, <2>13,
       <2>14, <2>15, <2>16, <2>17, <2>18, <2>19 DEF Proceed
<1> QED
  BY <1>1, <1>2, <1>3, <1>4, <1>5 DEF Next

-----------------------------------------------------------------------------
(* No assertion fails.                                                     *)

LEMMA BlocksFit ==
  ASSUME IInv, NEW size \in Sizes \cup {Page}
  PROVE  /\ \A at \in Chosen(va, size, VaAlign(size)) : BlockFits(va, at, size, VaAlign(size))
         /\ \A at \in Chosen(pa, size, Page) : BlockFits(pa, at, size, Page)
<1>1. size \in Nat \ {0} /\ Page \in Nat \ {0}
  BY VirtualMemoryAssumption, PagePaged
<1>2. VaAlign(size) \in Nat \ {0}
  BY <1>1, AlignmentIs
<1>3. HeapInv(pa) /\ HeapInv(va)
  BY DEF IInv, HeapsOK
<1> QED
  BY <1>1, <1>2, <1>3, ChosenFits

LEMMA FramesStand ==
  ASSUME TInv, NEW i \in DOMAIN walk.stack
  PROVE  walk.stack[i].pt \in DOMAIN tables /\ tables[walk.stack[i].pt].lv = i /\ walk.stack[i].idx \in 0..PteCnt[i]
<1>1. CASE pc \in Traversing
  <2>1. TablesOK(tables) /\ StackOK(tables, walk.stack, walk.up)
    BY <1>1, WalkFacts DEF TInv
  <2>2. i \in 1..Len(walk.stack)
    BY <2>1 DEF StackOK
  <2>3. FrameWell(tables, walk.stack, i)
    BY <2>1, <2>2, FrameWellIs
  <2> QED
    BY <2>3 DEF FrameWell
<1>2. CASE pc \notin Traversing
  <2>1. walk.stack = <<>>
    BY <1>2 DEF TInv, Steady, Straight, NoWalk
  <2> QED
    BY <2>1
<1> QED
  BY <1>1, <1>2

\* The traversal is at an entry of a tree of tables.
Standing(L, n, m, v) ==
  /\ Maps(L, n, tables, pc, walk, req, maps, lost) /\ Tree(L, n, tables)
  /\ Follows(L, n, tables, walk.stack, walk.vaddr)
  /\ EntryAt(L, n, tables, walk.stack, m, v) /\ v = walk.vaddr /\ v \in Nat /\ m = Len(walk.stack)

LEMMA Stands ==
  ASSUME TInv, Walking
  PROVE  /\ IInv /\ Straight(pc, walk, req) /\ TablesOK(tables) /\ pc \in {"map", "unmap", "inspect"}
         /\ pc \in Traversing /\ ~walk.up /\ walk.size \in Nat \ {0}
         /\ \E L, n, m, v : Standing(L, n, m, v)
<1>1. /\ IInv /\ Straight(pc, walk, req) /\ pc \in {"map", "unmap", "inspect"} /\ pc \in Traversing
      /\ ~walk.up /\ walk.size > 0
  BY DEF TInv, Steady, Walking, Ready, Traversing
<1>2. TablesOK(tables) /\ walk.size \in Nat \ {0} /\ walk.vaddr \in Nat
  BY <1>1, WalkFacts
<1>3. PICK L, n : Maps(L, n, tables, pc, walk, req, maps, lost)
  BY Zenon DEF TInv, Steady
<1>4. Tree(L, n, tables) /\ Follows(L, n, tables, walk.stack, walk.vaddr)
  BY <1>1, <1>3, Zenon DEF Maps
<1>5. PICK m, v : m = Len(walk.stack) /\ v = walk.vaddr
  OBVIOUS
<1>6. EntryAt(L, n, tables, walk.stack, m, v)
  BY <1>1, <1>4, <1>5, EntryIs
<1>7. Standing(L, n, m, v)
  BY <1>2, <1>3, <1>4, <1>5, <1>6, Zenon DEF Standing
<1> QED
  BY <1>1, <1>2, <1>7

LEMMA DownIsTable ==
  ASSUME TInv, Walking, GoesDown
  PROVE  IF Valid(Entry) THEN ~IsPage(Level, Entry) ELSE pc = "map"
<1>1. /\ IInv /\ Straight(pc, walk, req) /\ TablesOK(tables) /\ pc \in {"map", "unmap", "inspect"}
      /\ pc \in Traversing /\ ~walk.up /\ walk.size \in Nat \ {0}
  BY Stands
<1>2. PICK L, n, m, v : Standing(L, n, m, v)
  BY Stands
<1>3. PICK t, i : t = walk.stack[m].pt /\ i = walk.stack[m].idx
  OBVIOUS
<1>4. /\ m \in 1..Levels /\ t \in L /\ tables[t].lv = m /\ i = Place(m, v) /\ On(n, tables, t, v)
      /\ i \in DOMAIN tables[t].pte /\ Under(n, tables, t, i, v) /\ Level = m /\ Entry = tables[t].pte[i]
  BY <1>2, <1>3 DEF EntryAt, Standing
<1>5. v = walk.vaddr /\ v \in Nat /\ Maps(L, n, tables, pc, walk, req, maps, lost)
  BY <1>2 DEF Standing
<1>6. CASE pc = "inspect"
  BY <1>6, LoopsApart DEF GoesDown
<1>7. CASE pc = "unmap"
  <2>1. ~IsPage(Level, Entry)
    BY <1>7, LoopsApart DEF GoesDown
  <2>2. v < walk.vaddr + walk.size
    BY <1>1, <1>5
  <2>3. \/ PageEntry(tables, t, i)
        \/ tables[t].pte[i].kind = "table" /\ tables[t].lv # Levels
    BY <1>1, <1>4, <1>5, <1>7, <2>2, CoveredEntry
  <2> QED
    BY <1>4, <2>1, <2>3 DEF Valid, PageEntry
<1>8. CASE pc = "map"
  <2>1. Level # Levels
    BY <1>1, <1>8, LastLevelMaps
  <2>2. Entry.kind # "page"
    <3>1. SUFFICES ASSUME Entry.kind = "page" PROVE FALSE
      OBVIOUS
    <3>2. PageEntry(tables, t, i)
      BY <1>4, <3>1 DEF PageEntry
    <3>3. PICK p \in PartsOf(maps \cup lost, pc, walk, req) : Backed(n, tables, t, i, p)
      <4>1. Right(L, n, tables, PartsOf(maps \cup lost, pc, walk, req))
        BY <1>5, Zenon DEF Maps
      <4> QED
        BY <1>4, <3>2, <4>1 DEF Right
    <3>4. InPart(p, v)
      BY <1>4, <1>5, <3>3 DEF Backed
    <3>5. v < req.va + req.size
      <4>1. walk.vaddr + walk.size <= req.va + req.size /\ req.va \in Nat /\ req.size \in Nat
        BY <1>1, WalkFacts
      <4> QED
        BY <1>1, <1>5, <4>1
    <3>6. v \notin Used(PartsOf(maps \cup lost, pc, walk, req))
      <4>1. pc \in {"inspect", "map"} /\ walk.vaddr <= v
        BY <1>5, <1>8
      <4> QED
        BY <1>1, <1>5, <3>5, <4>1, NotMappedYet
    <3> QED
      BY <1>5, <3>3, <3>4, <3>6 DEF Used
  <2> QED
    BY <1>8, <2>1, <2>2 DEF IsPage
<1> QED
  BY <1>1, <1>6, <1>7, <1>8

\* Of entries that are whole there is one.
LEMMA TakesSome ==
  ASSUME NEW z \in Nat \ {0}, NEW c \in Nat \ {0}, NEW room \in Nat \ {0}, NEW loop,
         NEW m, m = Takes(z \div c, room, loop), loop = "inspect" \/ c <= z
  PROVE  m \in Nat \ {0}
<1>k. PICK k : k = z \div c
  OBVIOUS
<1>c. PICK count : count = IF k < room THEN k ELSE room
  OBVIOUS
<1>m. m = IF loop = "inspect" /\ count < 1 THEN 1 ELSE count
  BY <1>k, <1>c DEF Takes
<1>1. k \in Nat /\ (k < 1 => z < c)
  BY <1>k, WholeEntries
<1>2. count \in Nat /\ (count < 1 => k < 1)
  BY <1>c, <1>1
<1> QED
  BY <1>m, <1>1, <1>2

LEMMA SomeEntries ==
  ASSUME IInv, Walking, pc = "inspect" \/ Covers <= walk.size
  PROVE  EntryCount > 0
<1>1. pc \in Traversing /\ ~walk.up /\ walk.size > 0
  BY DEF Walking, Ready, Traversing
<1>2. TablesOK(tables) /\ StackOK(tables, walk.stack, walk.up) /\ walk.size \in Nat \ {0}
  BY <1>1, WalkFacts
<1>3. PICK n : n = Len(walk.stack)
  OBVIOUS
<1>4. /\ Top = walk.stack[n] /\ Level = n /\ Covers = PteCovers[n]
      /\ walk.stack[n].idx \in Nat /\ PteCnt[n] \in Nat
      /\ PteCovers[n] \in Nat \ {0} /\ walk.stack[n].idx < PteCnt[n]
  BY <1>1, <1>2, <1>3, TopIs
<1>5. PICK room \in Nat \ {0} : room = PteCnt[Level] - Top.idx
  BY <1>4
<1>6. PICK z \in Nat \ {0}, c \in Nat \ {0} : z = walk.size /\ c = Covers
  BY <1>2, <1>4
<1>7. PICK loop : loop = pc
  OBVIOUS
<1>8. PICK m : m = Takes(z \div c, room, loop)
  OBVIOUS
<1>9. m \in Nat \ {0}
  <2>1. loop = "inspect" \/ c <= z
    BY <1>6, <1>7
  <2> QED
    BY <1>8, <2>1, TakesSome
<1>10. m = EntryCount
  BY <1>5, <1>6, <1>7, <1>8 DEF EntryCount, Takes
<1> QED
  BY <1>9, <1>10

\* An address in an entry that is further on
LEMMA Onward ==
  ASSUME NEW l \in 1..Levels, NEW v \in Nat, NEW e \in Nat, NEW u \in Nat, At(l, u) = At(l, v) + e
  PROVE  e > 0 => v < u /\ u < v + (e + 1) * PteCovers[l]
<1>1. PICK c \in Nat \ {0} : c = PteCovers[l]
  BY CoversAre
<1>2. PICK a \in Nat : a = At(l, v)
  BY AtIs
<1>3. a * c <= v /\ v < a * c + c
  BY <1>1, <1>2, AtIs
<1>4. (a + e) * c <= u /\ u < (a + e) * c + c
  <2>1. At(l, u) * PteCovers[l] <= u /\ u < At(l, u) * PteCovers[l] + PteCovers[l]
    BY AtIs
  <2>2. At(l, u) = a + e
    BY <1>2
  <2> QED
    BY <1>1, <2>1, <2>2
<1>5. (a + e) * c = a * c + e * c /\ (e + 1) * c = e * c + c /\ a * c \in Nat /\ e * c \in Nat
  BY <1>1
<1>6. e > 0 => c <= e * c
  <2>1. SUFFICES ASSUME e > 0 PROVE c <= e * c
    OBVIOUS
  <2>2. PICK d \in Nat : e = d + 1
    <3>1. e - 1 \in Nat /\ e = (e - 1) + 1
      BY <2>1
    <3> QED
      BY <3>1
  <2>3. (d + 1) * c = d * c + c /\ d * c \in Nat
    BY <1>1
  <2> QED
    BY <1>1, <2>2, <2>3
<1>7. PICK x \in Nat, y \in Nat : x = a * c /\ y = e * c
  BY <1>5
<1>8. x <= v /\ v < x + c /\ x + y <= u /\ u < x + y + c /\ (e > 0 => c <= y)
  BY <1>3, <1>4, <1>5, <1>6, <1>7
<1>9. e > 0 => v < u /\ u < v + (y + c)
  BY <1>1, <1>7, <1>8
<1> QED
  BY <1>1, <1>5, <1>7, <1>9

LEMMA UnmapExpects ==
  ASSUME TInv, Walking, ~GoesDown, pc = "unmap"
  PROVE  EntriesAsExpected
<1>1. /\ IInv /\ Straight(pc, walk, req) /\ TablesOK(tables) /\ pc \in Traversing /\ walk.size \in Nat \ {0}
  BY Stands
<1>2. PICK L, n, m0, v0 : Standing(L, n, m0, v0)
  BY Stands
<1>3. /\ Maps(L, n, tables, pc, walk, req, maps, lost) /\ Tree(L, n, tables)
      /\ Follows(L, n, tables, walk.stack, walk.vaddr)
      /\ EntryAt(L, n, tables, walk.stack, m0, v0) /\ v0 = walk.vaddr
  BY <1>2 DEF Standing
<1>4. v0 % PteCovers[m0] = 0 /\ PteCovers[m0] <= walk.size
  BY <1>1, <1>3, UnmapAt
<1>5. EntryCount > 0
  <2>1. Covers <= walk.size
    BY <1>3, <1>4 DEF EntryAt
  <2> QED
    BY <1>1, <2>1, SomeEntries
<1>6. PICK stack, m, t, i, k, v : Spans(L, n, stack, m, t, i, k, v)
  BY <1>1, <1>3, <1>5, SpansOver
<1>7. /\ EntryAt(L, n, tables, stack, m, v) /\ stack = walk.stack /\ t = stack[m].pt /\ i = stack[m].idx
      /\ v \in Nat /\ v = walk.vaddr /\ k * PteCovers[m] <= walk.size /\ Span = i..(i + k - 1)
      /\ k \in Nat /\ i + k <= PteCnt[m]
  BY <1>6 DEF Spans
<1>8. m \in 1..Levels /\ t \in L /\ tables[t].lv = m /\ Top.pt = t /\ i \in Nat
  BY <1>7 DEF EntryAt
<1>9. v % PteCovers[m] = 0
  BY <1>1, <1>3, <1>7, UnmapAt
<1>10. PICK d \in Nat : d = k * PteCovers[m]
  <2>1. PteCovers[m] \in Nat
    BY <1>8, CoversAre
  <2> QED
    BY <1>7, <2>1
<1>11. ASSUME NEW j \in i..(i + k - 1) PROVE Valid(tables[t].pte[j])
  <2>1. j \in DOMAIN tables[t].pte
    <3>1. DOMAIN tables[t].pte = 0..(PteCnt[m] - 1) /\ PteCnt[m] \in Nat
      BY <1>1, <1>3, <1>8, TreeTable, CoversAre
    <3>2. PICK a \in Nat, b \in Nat, e \in Nat : a = i /\ b = k /\ e = PteCnt[m] /\ a + b <= e
      BY <1>7, <1>8, <3>1
    <3>3. a..(a + b - 1) \subseteq 0..(e - 1)
      BY <3>2
    <3> QED
      BY <3>1, <3>2, <3>3
  <2>2. PICK u \in Nat : Under(n, tables, t, j, u)
    BY <1>1, <1>3, <1>8, <2>1, EntryAddress
  <2>3. v <= u /\ u < v + k * PteCovers[m]
    BY <1>1, <1>3, <1>6, <1>9, <2>2, SpanCovers
  <2>4. u < walk.vaddr + walk.size /\ walk.vaddr <= u
    BY <1>1, <1>7, <1>10, <2>3
  <2>5. On(n, tables, t, u) /\ Place(m, u) = j
    BY <1>1, <1>3, <1>8, <2>1, <2>2, UnderIs
  <2>6. \/ PageEntry(tables, t, j)
        \/ tables[t].pte[j].kind = "table" /\ tables[t].lv # Levels
    BY <1>1, <1>3, <1>8, <2>4, <2>5, CoveredEntry
  <2> QED
    BY <2>6 DEF Valid, PageEntry
<1> QED
  BY <1>5, <1>7, <1>8, <1>11 DEF EntriesAsExpected

LEMMA MapExpects ==
  ASSUME TInv, Walking, ~GoesDown, pc = "map"
  PROVE  EntriesAsExpected
<1>1. IInv /\ walk.size \in Nat \ {0} /\ pc \in Traversing /\ TablesOK(tables) /\ ~walk.up
  BY Stands
<1>2. ~(Covers > walk.size)
  BY DEF GoesDown
<1>3. Covers \in Nat
  <2>1. StackOK(tables, walk.stack, walk.up)
    BY <1>1, WalkFacts
  <2> QED
    BY <1>1, <2>1, TopIs
<1>4. EntryCount > 0
  <2>1. Covers <= walk.size
    BY <1>1, <1>2, <1>3
  <2> QED
    BY <1>1, <2>1, SomeEntries
<1> QED
  BY <1>4 DEF EntriesAsExpected

LEMMA InspectExpects ==
  ASSUME TInv, Walking, ~GoesDown, pc = "inspect"
  PROVE  EntriesAsExpected
<1>1. /\ IInv /\ Straight(pc, walk, req) /\ TablesOK(tables) /\ pc \in Traversing /\ walk.size \in Nat \ {0}
  BY Stands
<1>2. PICK L, n, m0, v0 : Standing(L, n, m0, v0)
  BY Stands
<1>3. /\ Maps(L, n, tables, pc, walk, req, maps, lost) /\ Tree(L, n, tables)
      /\ Follows(L, n, tables, walk.stack, walk.vaddr)
  BY <1>2 DEF Standing
<1>4. EntryCount > 0
  BY <1>1, SomeEntries
<1>5. PICK stack, m, t, i, k, v : Spans(L, n, stack, m, t, i, k, v)
  BY <1>1, <1>3, <1>4, SpansOver
<1>6. /\ EntryAt(L, n, tables, stack, m, v) /\ stack = walk.stack /\ t = stack[m].pt /\ i = stack[m].idx
      /\ v \in Nat /\ v = walk.vaddr /\ Span = i..(i + k - 1) /\ m = Len(walk.stack)
      /\ k \in Nat \ {0} /\ i + k <= PteCnt[m]
  BY <1>5 DEF Spans
<1>7. \/ k * PteCovers[m] <= walk.size
      \/ k * PteCovers[m] = PteCovers[m]
  BY <1>5 DEF Spans
<1>8. /\ m \in 1..Levels /\ t \in L /\ tables[t].lv = m /\ Top.pt = t /\ i \in Nat /\ Level = m
      /\ Entry = tables[t].pte[i] /\ Under(n, tables, t, i, v) /\ t \in DOMAIN tables
      /\ i \in DOMAIN tables[t].pte
  BY <1>6 DEF EntryAt
<1>8a. i..(i + k - 1) \subseteq DOMAIN tables[t].pte
  <2>1. DOMAIN tables[t].pte = 0..(PteCnt[m] - 1) /\ PteCnt[m] \in Nat
    BY <1>1, <1>3, <1>8, TreeTable, CoversAre, SMTT(60)
  <2>2. PICK a \in Nat, d \in Nat, e \in Nat : a = i /\ d = k /\ e = PteCnt[m] /\ a + d <= e
    BY <1>6, <1>8, <2>1
  <2>3. a..(a + d - 1) \subseteq 0..(e - 1)
    BY <2>2
  <2> QED
    BY <2>1, <2>2, <2>3
<1>9. PICK c \in Nat \ {0} : c = PteCovers[m]
  BY <1>8, CoversAre
<1>10. walk.vaddr + walk.size <= req.va + req.size /\ req.va \in Nat /\ req.size \in Nat
  BY <1>1, WalkFacts
<1>11. PteCnt[m] \in Nat
  BY <1>8, CoversAre
<1>12. ~Valid(tables[t].pte[i])
  <2>1. SUFFICES ASSUME Valid(Entry) PROVE FALSE
    BY <1>8
  <2>2. IsPage(Level, Entry)
    BY <2>1, LoopsApart DEF GoesDown
  <2>3. PICK entry \in EntryType : entry = tables[t].pte[i]
    BY <1>1, <1>3, <1>8, TreeTable
  <2>4. Entry.kind # "table"
    <3>1. SUFFICES ASSUME Entry.kind = "table" PROVE FALSE
      OBVIOUS
    <3>2. m = Levels
      BY <1>8, <2>2, <3>1 DEF IsPage
    <3>3. Points(tables, t, i, Entry.addr)
      <4>1. entry = TableAt(entry.addr)
        <5>1. entry.kind = "table"
          BY <1>8, <2>3, <3>1
        <5> QED
          BY <5>1 DEF EntryType, TableAt
      <4> QED
        BY <1>8, <2>3, <4>1 DEF Points
    <3>4. Entry.addr \in DOMAIN tables /\ tables[Entry.addr].lv = tables[t].lv + 1
      BY <1>1, <3>3, Zenon DEF TablesOK
    <3>5. tables[Entry.addr].lv \in 1..Levels /\ Levels \in Nat
      BY <1>1, <3>4, TableIs, CoversAre
    <3> QED
      BY <1>8, <3>2, <3>4, <3>5
  <2>5. PageEntry(tables, t, i)
    <3>1. entry.kind = "page"
      <4>1. entry.kind # "none" /\ entry.kind # "table"
        BY <1>8, <2>1, <2>3, <2>4 DEF Valid
      <4> QED
        BY <4>1 DEF EntryType
    <3> QED
      BY <1>8, <2>3, <3>1 DEF PageEntry
  <2>6. PICK p \in PartsOf(maps \cup lost, pc, walk, req) : Backed(n, tables, t, i, p)
    <3>1. Right(L, n, tables, PartsOf(maps \cup lost, pc, walk, req))
      BY <1>3, Zenon DEF Maps
    <3> QED
      BY <1>8, <2>5, <3>1, SMTT(60) DEF Right
  <2>7. InPart(p, v)
    BY <1>6, <1>8, <2>6 DEF Backed
  <2>8. v < req.va + req.size /\ walk.vaddr <= v /\ pc \in {"inspect", "map"}
    BY <1>1, <1>6, <1>10, SMTT(60)
  <2>9. v \notin Used(PartsOf(maps \cup lost, pc, walk, req))
    BY <1>1, <1>6, <2>8, NotMappedYet
  <2> QED
    BY <1>6, <2>6, <2>7, <2>9 DEF Used
<1>13. ASSUME NEW j \in i..(i + k - 1), j # i PROVE ~Valid(tables[t].pte[j])
  <2>1. j \in DOMAIN tables[t].pte
    BY <1>8a
  <2>2. PICK e \in Nat : e = j - i /\ e > 0 /\ e + 1 <= k
    BY <1>6, <1>8, <1>13, SMTT(30)
  <2>2a. k \in Nat
    BY <1>6
  <2>3. k * c <= walk.size
    <3>1. SUFFICES ASSUME k * c = c PROVE FALSE
      BY <1>7, <1>9
    <3>2. PICK d \in Nat : k = d + 2
      <4>1. k - 2 \in Nat /\ k = (k - 2) + 2
        BY <2>2, <2>2a
      <4> QED
        BY <4>1
    <3>3. PICK x \in Nat : x = d * c /\ (d + 2) * c = x + 2 * c
      BY <1>9
    <3>4. k * c = (d + 2) * c
      BY <3>2
    <3>5. x + 2 * c = c
      BY <3>1, <3>3, <3>4
    <3> QED
      BY <3>3, <3>5
  <2>4. (e + 1) * c <= k * c /\ (e + 1) * c \in Nat
    <3>1. PICK d \in Nat : k = (e + 1) + d
      <4>1. k - (e + 1) \in Nat /\ k = (e + 1) + (k - (e + 1))
        BY <2>2, <2>2a
      <4> QED
        BY <4>1
    <3>2. ((e + 1) + d) * c = (e + 1) * c + d * c /\ d * c \in Nat /\ (e + 1) * c \in Nat
      BY <1>9
    <3> QED
      BY <3>1, <3>2
  <2>5. ASSUME NEW u \in Nat, Under(n, tables, t, j, u) PROVE walk.vaddr <= u /\ u < req.va + req.size
    <3>1. At(m, u) = At(m, v) + e
      <4>1. At(m, u) = Number(n, tables, t, j) /\ At(m, v) = Number(n, tables, t, i)
        BY <1>8, <2>5 DEF Under
      <4>2. PICK x \in Nat : x = n[t] * PteCnt[m]
        <5>1. n[t] \in Nat
          BY <1>1, <1>3, <1>8, TreeTable
        <5> QED
          BY <1>11, <5>1
      <4>3. Number(n, tables, t, j) = x + j /\ Number(n, tables, t, i) = x + i
        BY <1>8, <4>2 DEF Number
      <4> QED
        BY <1>8, <2>2, <4>1, <4>2, <4>3
    <3>2. v < u /\ u < v + (e + 1) * c
      BY <1>6, <1>8, <1>9, <2>2, <3>1, Onward
    <3>3. PICK y \in Nat : y = (e + 1) * c
      BY <2>4
    <3>4. y <= walk.size
      <4>1. k * c \in Nat
        BY <1>6, <1>9
      <4> QED
        BY <1>1, <2>3, <2>4, <3>3, <4>1
    <3> QED
      BY <1>1, <1>6, <1>10, <3>2, <3>3, <3>4, SMTT(30)
  <2>6. tables[t].pte[j].kind = "none"
    <3>1. IInv /\ Straight(pc, walk, req) /\ pc \in {"inspect", "map"}
      BY <1>1, <1>3
    <3>2. Maps(L, n, tables, pc, walk, req, maps, lost)
      BY <1>1, <1>3, Zenon
    <3>3. m = Len(walk.stack) /\ t \in L /\ tables[t].lv = m /\ j \in DOMAIN tables[t].pte
      BY <1>6, <1>8, <2>1
    <3>4. \A u \in Nat : Under(n, tables, t, j, u) => walk.vaddr <= u /\ u < req.va + req.size
      BY <2>5, Zenon
    <3> QED
      BY <3>1, <3>2, <3>3, <3>4, FreeEntry, ZenonT(60)
  <2> QED
    BY <2>6 DEF Valid
<1> QED
  BY <1>4, <1>6, <1>8, <1>12, <1>13 DEF EntriesAsExpected

\* The assertions of the traversals and of the allocators hold.
LEMMA AssertionsStand == TInv => AssertionsHold
<1> SUFFICES ASSUME TInv PROVE AssertionsHold
  OBVIOUS
<1>1. \A i \in DOMAIN walk.stack :
        LET frame == walk.stack[i]
        IN  frame.pt \in DOMAIN tables /\ tables[frame.pt].lv = i /\ frame.idx \in 0..PteCnt[i]
  BY FramesStand
<1>2. Walking /\ GoesDown => IF Valid(Entry) THEN ~IsPage(Level, Entry) ELSE pc = "map"
  BY DownIsTable
<1>3. Walking /\ ~GoesDown => EntriesAsExpected
  BY UnmapExpects, MapExpects, InspectExpects, Stands
<1>4. \A size \in Sizes \cup {Page} :
        /\ \A at \in Chosen(va, size, VaAlign(size)) : BlockFits(va, at, size, VaAlign(size))
        /\ \A at \in Chosen(pa, size, Page) : BlockFits(pa, at, size, Page)
  BY BlocksFit DEF TInv
<1> QED
  BY <1>1, <1>2, <1>3, <1>4 DEF AssertionsHold

-----------------------------------------------------------------------------
(* The sizes of the first pieces.                                          *)

LEMMA SumIs ==
  ASSUME NEW pieces, PiecesOK(pieces), NEW s, NEW total \in Nat, Sums(s, pieces, total),
         NEW k \in 1..Len(pieces), NEW j, j = k - 1
  PROVE  /\ s[j] \in Nat /\ s[k] \in Nat /\ s[k] = s[j] + pieces[k][2] /\ pieces[k][2] \in Nat \ {0}
         /\ pieces[k][1] \in Nat /\ Paged(pieces[k][1]) /\ Paged(pieces[k][2])
         /\ j \in 0..Len(pieces) /\ k \in 0..Len(pieces) /\ k \in DOMAIN pieces /\ s[k] <= total
<1>1. Len(pieces) \in Nat /\ DOMAIN pieces = 1..Len(pieces)
  BY LenProperties DEF PiecesOK
<1>2. j \in 0..Len(pieces) /\ k \in 0..Len(pieces) /\ k \in DOMAIN pieces
  BY <1>1
<1>3. /\ pieces[k][1] \in Nat /\ pieces[k][2] \in Nat \ {0} /\ Paged(pieces[k][1]) /\ Paged(pieces[k][2])
  BY <1>2, PieceIs
<1>4. s[j] \in Nat /\ s[k] \in Nat /\ s[k] <= total
  BY <1>2 DEF Sums
<1>5. s[k] = s[j] + pieces[k][2]
  BY DEF Sums
<1> QED
  BY <1>2, <1>3, <1>4, <1>5

LEMMA SumsPaged ==
  ASSUME NEW pieces, PiecesOK(pieces), NEW s, NEW total \in Nat, Sums(s, pieces, total)
  PROVE  \A k \in 0..Len(pieces) : Paged(s[k])
<1>1. Len(pieces) \in Nat
  BY LenProperties DEF PiecesOK
<1> DEFINE D == {k \in 0..Len(pieces) : ~Paged(s[k])}
<1>2. SUFFICES ASSUME D # {} PROVE FALSE
  OBVIOUS
<1>3. D \in SUBSET Nat
  OBVIOUS
<1>4. PICK k \in D : \A j \in D : k <= j
  BY <1>2, <1>3, LeastNat
<1>5. k # 0
  BY PagedZero DEF Sums
<1>6. PICK j \in Nat : j = k - 1 /\ k \in 1..Len(pieces) /\ j \in 0..Len(pieces)
  BY <1>1, <1>5
<1>7. Paged(s[j])
  BY <1>4, <1>6
<1>8. s[j] \in Nat /\ s[k] = s[j] + pieces[k][2] /\ pieces[k][2] \in Nat /\ Paged(pieces[k][2])
  BY <1>6, SumIs
<1> QED
  BY <1>7, <1>8, PagedSum

LEMMA SumsOne ==
  ASSUME NEW pieces, PiecesOK(pieces), NEW total \in Nat, NEW s, Sums(s, pieces, total), NEW q, Sums(q, pieces, total)
  PROVE  \A k \in 0..Len(pieces) : s[k] = q[k]
<1>1. Len(pieces) \in Nat
  BY LenProperties DEF PiecesOK
<1> DEFINE D == {k \in 0..Len(pieces) : s[k] # q[k]}
<1>2. SUFFICES ASSUME D # {} PROVE FALSE
  OBVIOUS
<1>3. D \in SUBSET Nat
  OBVIOUS
<1>4. PICK k \in D : \A j \in D : k <= j
  BY <1>2, <1>3, LeastNat
<1>5. k # 0
  BY DEF Sums
<1>6. PICK j \in Nat : j = k - 1 /\ k \in 1..Len(pieces) /\ j \in 0..Len(pieces)
  BY <1>1, <1>5
<1>7. s[j] = q[j]
  BY <1>4, <1>6
<1>8. s[k] = s[j] + pieces[k][2] /\ q[k] = q[j] + pieces[k][2]
  BY <1>6, SumIs
<1> QED
  BY <1>7, <1>8

-----------------------------------------------------------------------------
(* The range of a call that unmaps starts at a page, too.                  *)

LEMMA AlignedStep == ASSUME TInv, Aligned, [Next]_vars PROVE Aligned'
<1>0. SUFFICES ASSUME pc' = "unmap" PROVE Paged(req.va')
  BY DEF Aligned
<1>1. CASE \E m \in maps : Vfree(m)
  <2>1. PICK m \in maps : Vfree(m)
    BY <1>1
  <2>2. req'.va = m.va
    BY <2>1 DEF Vfree, NoReq
  <2>3. Paged(m.va)
    BY DEF TInv, Steady, PagedRanges
  <2> QED
    BY <2>2, <2>3
<1>2. CASE UNCHANGED <<pc, req>>
  BY <1>0, <1>2 DEF Aligned
<1>3. CASE UNCHANGED vars \/ NoCall
  BY <1>2, <1>3 DEF vars, NoCall
<1>4. CASE \E size \in Sizes, contiguous \in BOOLEAN : Valloc(size, contiguous)
  BY <1>0, <1>4 DEF Valloc
<1>5. CASE Proceed
  <2>1. CASE MergePhysical \/ MergeVirtual
    BY <1>2, <2>1 DEF MergePhysical, MergeVirtual
  <2>2. CASE AllocContiguous \/ ContiguousRaises
    BY <1>0, <2>2, SMTT(60) DEF AllocContiguous, ContiguousRaises
  <2>3. CASE TakePiece \/ SmallerRange
    BY <1>0, <2>3 DEF TakePiece, SmallerRange, Ready
  <2>4. CASE GiveUp \/ MapPieces
    BY <1>0, <2>4 DEF GiveUp, MapPieces
  <2>5. CASE LevelDown \/ LevelUp \/ LevelUpEnds
    BY <1>2, <2>5 DEF LevelDown, LevelUp, LevelUpEnds
  <2>6. CASE CreateTable \/ CreateTableRaises
    BY <1>0, <2>6 DEF CreateTable, CreateTableRaises
  <2>7. CASE Visit \/ FreeTable
    BY <1>2, <2>7 DEF Visit, FreeTable
  <2>8. CASE Inspected \/ VallocReturns \/ Unmapped \/ Released
    BY <1>0, <2>8 DEF Inspected, VallocReturns, Unmapped, Released
  <2>9. CASE NextPiece
    BY <1>2, <2>9 DEF NextPiece
  <2>10. CASE Release
    BY <1>0, <2>10 DEF Release, Ready
  <2> QED
    BY <1>5, <2>1, <2>2, <2>3, <2>4, <2>5, <2>6, <2>7, <2>8, <2>9, <2>10 DEF Proceed
<1> QED
  BY <1>1, <1>3, <1>4, <1>5 DEF Next

-----------------------------------------------------------------------------
(* What an address is translated to.                                       *)

\* The pieces of a part are handed out and are no tables.
PartHeld(p) ==
  /\ PiecesOK(p.pieces) /\ PieceSet(p.pieces) \subseteq Taken(pa) /\ Starts(p.pieces) \cap DOMAIN tables = {}
  /\ Paged(p.va) /\ p.va \in Nat /\ p.size \in Nat

LEMMA PartIsHeld ==
  ASSUME TInv, Aligned, NEW p \in PartsOf(maps \cup lost, pc, walk, req)
  PROVE  PartHeld(p)
<1>1. IInv /\ Straight(pc, walk, req) /\ PagedRanges(maps \cup lost)
  BY DEF TInv, Steady
<1>2. PiecesApart(maps \cup lost, req.pieces, tables)
  BY <1>1 DEF IInv, PiecesOwned
<1>3. Taken(pa) = OwnedPieces(maps \cup lost) \cup PieceSet(req.pieces) \cup TablePieces(tables)
  BY <1>1 DEF IInv, PiecesOwned
<1>4. p.va \in Nat /\ p.size \in Nat
  BY <1>1, PartWithin
<1>5. CASE \E r \in maps \cup lost : p = Whole(r) /\ p.va = r.va /\ p.size = r.size /\ p.pieces = r.pieces
  <2>1. PICK r \in maps \cup lost : p.va = r.va /\ p.size = r.size /\ p.pieces = r.pieces
    BY <1>5
  <2>2. PiecesOK(p.pieces) /\ Starts(p.pieces) \cap DOMAIN tables = {}
    BY <1>2, <2>1 DEF PiecesApart
  <2>3. PieceSet(p.pieces) \subseteq Taken(pa)
    BY <1>3, <2>1 DEF OwnedPieces
  <2>4. Paged(p.va)
    BY <1>1, <2>1 DEF PagedRanges
  <2> QED
    BY <1>4, <2>2, <2>3, <2>4 DEF PartHeld
<1>6. CASE pc \in {"map", "unmap"} /\ p.va = req.va /\ p.size = req.size /\ p.pieces = req.pieces
  <2>1. PiecesOK(p.pieces) /\ Starts(p.pieces) \cap DOMAIN tables = {}
    BY <1>2, <1>6 DEF PiecesApart
  <2>2. PieceSet(p.pieces) \subseteq Taken(pa)
    BY <1>3, <1>6
  <2>3. Paged(p.va)
    <3>1. pc = "map" => Paged(req.va)
      BY <1>1 DEF IInv, ReqOK, Providing
    <3> QED
      BY <1>6, <3>1 DEF Aligned
  <2> QED
    BY <1>4, <2>1, <2>2, <2>3 DEF PartHeld
<1> QED
  BY <1>1, <1>5, <1>6, PartWithin

\* A piece is of one part.
LEMMA OnePiece ==
  ASSUME TInv, NEW p \in PartsOf(maps \cup lost, pc, walk, req), NEW q \in PartsOf(maps \cup lost, pc, walk, req),
         NEW i \in DOMAIN p.pieces, NEW j \in DOMAIN q.pieces, p.pieces[i][1] = q.pieces[j][1]
  PROVE  p = q /\ i = j
<1>1. IInv /\ Straight(pc, walk, req)
  BY DEF TInv, Steady
<1>2. PiecesApart(maps \cup lost, req.pieces, tables)
  BY <1>1 DEF IInv, PiecesOwned
<1>3. PICK a : a = p.pieces[i][1] /\ a \in Starts(p.pieces) /\ a \in Starts(q.pieces)
  BY DEF Starts, PieceSet
<1>4. \/ \E r \in maps \cup lost : p = Whole(r) /\ p.pieces = r.pieces
      \/ p = Current(pc, walk, req) /\ p.pieces = req.pieces
  BY <1>1, PartWithin
<1>5. \/ \E r \in maps \cup lost : q = Whole(r) /\ q.pieces = r.pieces
      \/ q = Current(pc, walk, req) /\ q.pieces = req.pieces
  BY <1>1, PartWithin
<1>6. p = q
  <2>1. ASSUME NEW r \in maps \cup lost, a \in Starts(r.pieces) PROVE a \notin Starts(req.pieces)
    BY <1>2, <2>1 DEF PiecesApart
  <2>2. ASSUME NEW r \in maps \cup lost, NEW s \in maps \cup lost, a \in Starts(r.pieces), a \in Starts(s.pieces)
        PROVE  r = s
    BY <1>2, <2>2 DEF PiecesApart
  <2> QED
    BY <1>3, <1>4, <1>5, <2>1, <2>2
<1>7. PiecesOK(p.pieces)
  BY <1>2, <1>4 DEF PiecesApart
<1> QED
  BY <1>6, <1>7 DEF PiecesOK

\* An address of a part and its place in the pieces
Lies(p, s, k, d, v, y) ==
  /\ Sums(s, p.pieces, p.size) /\ k \in 1..Len(p.pieces) /\ d \in Nat /\ d < p.pieces[k][2]
  /\ v = p.va + s[k - 1] + d /\ y = p.pieces[k][1] + d

\* What a device finds for an address lies in a part.
LEMMA FoundLies ==
  ASSUME TInv, NEW v \in Nat, v < Virtual, Translation(v) # -1
  PROVE  \E p \in PartsOf(maps \cup lost, pc, walk, req) : \E s, k, d : InPart(p, v) /\ Lies(p, s, k, d, v, Translation(v))
<1>1. IInv /\ TablesOK(tables)
  BY DEF TInv, IInv
<1>2. PICK L, n : Maps(L, n, tables, pc, walk, req, maps, lost)
  BY Zenon DEF TInv, Steady
<1>3. Tree(L, n, tables) /\ Right(L, n, tables, PartsOf(maps \cup lost, pc, walk, req))
  BY <1>2, Zenon DEF Maps
<1>4. On(n, tables, Root, v)
  <2>1. Virtual \in Nat /\ PteCovers[1] \in Nat
    BY VirtualMemoryAssumption, CoversAre, SMTT(60)
  <2>2. v < Virtual + PteCovers[1]
    BY <2>1
  <2> QED
    BY <1>1, <1>3, <2>2, RootOn
<1>5. PICK y : y = Translation(v)
  OBVIOUS
<1>6. Reaches(L, n, tables, v, y)
  BY <1>1, <1>3, <1>4, <1>5, TranslationIs
<1>7a. PICK t \in L : \E i : /\ PageEntry(tables, t, i) /\ Under(n, tables, t, i, v)
                             /\ y = tables[t].pte[i].addr + (v % PteCovers[tables[t].lv])
  BY <1>6 DEF Reaches
<1>7. PICK i : /\ PageEntry(tables, t, i) /\ Under(n, tables, t, i, v)
               /\ y = tables[t].pte[i].addr + (v % PteCovers[tables[t].lv])
  BY <1>7a
<1>8. PICK p \in PartsOf(maps \cup lost, pc, walk, req) : Backed(n, tables, t, i, p)
  BY <1>3, <1>7 DEF Right
<1>9. InPart(p, v) /\ Phys(p, v, y)
  BY <1>7, <1>8 DEF Backed
<1>10. PICK s : /\ Sums(s, p.pieces, p.size)
                /\ \E k \in 1..Len(p.pieces), d \in Nat :
                     d < p.pieces[k][2] /\ v = p.va + s[k - 1] + d /\ y = p.pieces[k][1] + d
  BY <1>9 DEF Phys
<1>11. PICK k \in 1..Len(p.pieces), d \in Nat :
         d < p.pieces[k][2] /\ v = p.va + s[k - 1] + d /\ y = p.pieces[k][1] + d
  BY <1>10
<1>12. Lies(p, s, k, d, v, y)
  BY <1>10, <1>11 DEF Lies
<1> QED
  BY <1>5, <1>9, <1>12

\* A page of a part is a page of a piece that is handed out.
LiesIn(p, k, d, y, a, z) ==
  /\ k \in DOMAIN p.pieces /\ a = p.pieces[k][1] /\ a \in Nat /\ z = p.pieces[k][2] /\ z \in Nat \ {0} /\ Paged(z)
  /\ IsTaken(pa, a) /\ pa.blocks[a].size = z /\ <<a, z>> \in Taken(pa) /\ a \notin DOMAIN tables
  /\ d \in Nat /\ Paged(d) /\ d < z /\ y = a + d

LEMMA LiesInPiece ==
  ASSUME TInv, Aligned, NEW p \in PartsOf(maps \cup lost, pc, walk, req), NEW v \in Nat, Paged(v),
         NEW s, NEW k, NEW d, NEW y, Lies(p, s, k, d, v, y)
  PROVE  \E a, z : LiesIn(p, k, d, y, a, z)
<1>1. PartHeld(p)
  BY PartIsHeld
<1>2. PICK pieces : pieces = p.pieces
  OBVIOUS
<1>3. /\ PiecesOK(pieces) /\ PieceSet(pieces) \subseteq Taken(pa) /\ Starts(pieces) \cap DOMAIN tables = {}
      /\ Paged(p.va) /\ p.va \in Nat /\ p.size \in Nat
  BY <1>1, <1>2 DEF PartHeld
<1>4. /\ Sums(s, pieces, p.size) /\ k \in 1..Len(pieces) /\ d \in Nat /\ d < pieces[k][2]
      /\ v = p.va + s[k - 1] + d /\ y = pieces[k][1] + d
  BY <1>2 DEF Lies
<1>5. PICK j : j = k - 1
  OBVIOUS
<1>6. /\ s[j] \in Nat /\ j \in 0..Len(pieces) /\ k \in DOMAIN pieces
      /\ pieces[k][1] \in Nat /\ pieces[k][2] \in Nat \ {0} /\ Paged(pieces[k][2])
  BY <1>3, <1>4, <1>5, SumIs
<1>7. Paged(s[j])
  BY <1>3, <1>4, <1>6, SumsPaged
<1>8. Paged(d)
  <2>1. p.va + s[j] \in Nat /\ Paged(p.va + s[j])
    <3>1. PICK b \in Nat, c \in Nat : b = p.va /\ c = s[j] /\ Paged(b) /\ Paged(c)
      BY <1>3, <1>6, <1>7
    <3>2. b + c \in Nat /\ Paged(b + c)
      BY <3>1, PagedSum, SMTT(30)
    <3> QED
      BY <3>1, <3>2
  <2>2. PICK e \in Nat : e = p.va + s[j]
    BY <2>1
  <2>3. v = e + d
    BY <1>4, <1>5, <2>2
  <2>4. d = v - e /\ e <= v
    BY <1>4, <2>3, SMTT(60)
  <2> QED
    BY <2>1, <2>2, <2>4, PagedDifference
<1>9. PICK a, z : a = pieces[k][1] /\ z = pieces[k][2]
  OBVIOUS
<1>10. pieces[k] \in PieceSet(pieces) /\ a \in Starts(pieces) /\ pieces[k] = <<a, z>>
  BY <1>3, <1>6, <1>9, PieceIs DEF PieceSet, Starts
<1>11. <<a, z>> \in Taken(pa) /\ a \notin DOMAIN tables
  BY <1>3, <1>10
<1>12. IsTaken(pa, a) /\ pa.blocks[a].size = z
  <2>1. HeapInv(pa)
    BY DEF TInv, IInv, HeapsOK
  <2> QED
    BY <1>11, <2>1, TakenFacts, SMTT(60)
<1> QED
  BY <1>2, <1>4, <1>6, <1>8, <1>9, <1>11, <1>12 DEF LiesIn

\* A page of a block that is handed out
LEMMA PageTaken ==
  ASSUME NEW a \in Nat, NEW z \in Nat \ {0}, NEW d \in Nat, Paged(z), Paged(d), d < z,
         <<a, z>> \in Taken(pa)
  PROVE  a + d \in TakenPages(pa)
<1>0. Page \in Nat \ {0}
  BY PageIs
<1>1. PICK m \in Nat, j \in Nat : z = Page * m /\ d = Page * j
  BY DEF Paged
<1>2. z \div Page = m
  <2>1. Page * m + 0 = z /\ m * Page = Page * m
    BY <1>0, <1>1
  <2> QED
    BY <1>0, <1>1, <2>1
<1>3. j < m
  <2>1. SUFFICES ASSUME m <= j PROVE FALSE
    BY <1>1
  <2>2. Page * m <= Page * j
    BY <1>0, <1>1, <2>1, Multiply
  <2> QED
    BY <1>1, <2>2
<1>4. j \in 0..((z \div Page) - 1)
  BY <1>1, <1>2, <1>3
<1>5. a + d = a + j * Page
  BY <1>0, <1>1
<1>6. PICK i : i = <<a, z>>
  OBVIOUS
<1>7. i \in Taken(pa) /\ i[1] = a /\ i[2] = z
  BY <1>6
<1> QED
  BY <1>4, <1>5, <1>7 DEF TakenPages

LEMMA TablesTaken == ASSUME TInv PROVE DOMAIN tables \ {Root} \subseteq TakenPages(pa)
<1> SUFFICES ASSUME NEW t \in DOMAIN tables \ {Root} PROVE t \in TakenPages(pa)
  OBVIOUS
<1>1. <<t, Page>> \in Taken(pa) /\ t \in Nat
  BY DEF TInv, IInv, PiecesOwned, TablePieces, TablesOK
<1>2. t + 0 \in TakenPages(pa)
  <2>1. 0 < Page
    BY PageIs
  <2> QED
    BY <1>1, <2>1, PagePaged, PagedZero, PageTaken
<1> QED
  BY <1>1, <1>2

\* What is translated is a page of a piece,
LEMMA FoundIn ==
  ASSUME TInv, Aligned, NEW v \in Nat, v < Virtual, Paged(v), NEW y, y = Translation(v), y # -1
  PROVE  \E p \in PartsOf(maps \cup lost, pc, walk, req) : \E s, k, d, a, z :
           InPart(p, v) /\ Lies(p, s, k, d, v, y) /\ LiesIn(p, k, d, y, a, z)
<1>1. PICK p \in PartsOf(maps \cup lost, pc, walk, req) : \E s, k, d : InPart(p, v) /\ Lies(p, s, k, d, v, y)
  BY FoundLies
<1>2. PICK s, k, d : InPart(p, v) /\ Lies(p, s, k, d, v, y)
  BY <1>1
<1>3. PICK a, z : LiesIn(p, k, d, y, a, z)
  BY <1>2, LiesInPiece
<1> QED
  BY <1>2, <1>3

\* and no table,
LEMMA NoTable ==
  ASSUME TInv, NEW p, NEW k, NEW d, NEW y, NEW a, NEW z, LiesIn(p, k, d, y, a, z)
  PROVE  y \in TakenPages(pa) \ DOMAIN tables
<1>1. /\ a \in Nat /\ z \in Nat \ {0} /\ Paged(z) /\ IsTaken(pa, a) /\ pa.blocks[a].size = z
      /\ <<a, z>> \in Taken(pa) /\ a \notin DOMAIN tables /\ d \in Nat /\ Paged(d) /\ d < z /\ y = a + d
  BY DEF LiesIn
<1>2. y \in TakenPages(pa)
  BY <1>1, PageTaken
<1>3. ASSUME y \in DOMAIN tables PROVE FALSE
  <2>1. y # Root
    BY <1>1 DEF Root
  <2>2. <<y, Page>> \in Taken(pa) /\ HeapInv(pa)
    BY <1>3, <2>1 DEF TInv, IInv, PiecesOwned, TablePieces, HeapsOK
  <2>3. IsTaken(pa, y) /\ pa.blocks[y].size = Page
    BY <2>2, TakenFacts
  <2>4. a + z <= y \/ y + Page <= a
    BY <1>1, <1>3, <2>2, <2>3, TakenApart
  <2> QED
    BY <1>1, <2>4, PageIs
<1> QED
  BY <1>2, <1>3

\* of one address.
LEMMA OneAddress ==
  ASSUME TInv, Aligned, NEW y, NEW v \in Nat, NEW u \in Nat,
         NEW p \in PartsOf(maps \cup lost, pc, walk, req), NEW s, NEW k, NEW d, NEW a, NEW z,
         Lies(p, s, k, d, v, y), LiesIn(p, k, d, y, a, z),
         NEW q \in PartsOf(maps \cup lost, pc, walk, req), NEW r, NEW l, NEW e, NEW b, NEW x,
         Lies(q, r, l, e, u, y), LiesIn(q, l, e, y, b, x)
  PROVE  u = v
<1>1. /\ k \in DOMAIN p.pieces /\ a = p.pieces[k][1] /\ a \in Nat /\ z \in Nat \ {0} /\ IsTaken(pa, a)
      /\ pa.blocks[a].size = z /\ d \in Nat /\ d < z /\ y = a + d
  BY DEF LiesIn
<1>2. /\ l \in DOMAIN q.pieces /\ b = q.pieces[l][1] /\ b \in Nat /\ x \in Nat \ {0} /\ IsTaken(pa, b)
      /\ pa.blocks[b].size = x /\ e \in Nat /\ e < x /\ y = b + e
  BY DEF LiesIn
<1>3. a = b
  <2>1. SUFFICES ASSUME a # b PROVE FALSE
    OBVIOUS
  <2>2. a + z <= b \/ b + x <= a
    <3>1. HeapInv(pa)
      BY DEF TInv, IInv, HeapsOK
    <3> QED
      BY <1>1, <1>2, <2>1, <3>1, TakenApart
  <2> QED
    BY <1>1, <1>2, <2>2
<1>4. p = q /\ k = l
  BY <1>1, <1>2, <1>3, OnePiece, ZenonT(60)
<1>5. d = e
  BY <1>1, <1>2, <1>3
<1>6. PartHeld(p)
  BY PartIsHeld
<1>7. PICK pieces : pieces = p.pieces
  OBVIOUS
<1>8. PiecesOK(pieces) /\ p.size \in Nat
  BY <1>6, <1>7 DEF PartHeld
<1>9. /\ Sums(s, pieces, p.size) /\ Sums(r, pieces, p.size) /\ k \in 1..Len(pieces)
      /\ v = p.va + s[k - 1] + d /\ u = p.va + r[k - 1] + d
  BY <1>4, <1>5, <1>7 DEF Lies
<1>10. PICK j : j = k - 1
  OBVIOUS
<1>11. j \in 0..Len(pieces)
  BY <1>8, <1>9, <1>10, SumIs
<1>12. s[j] = r[j]
  BY <1>8, <1>9, <1>11, SumsOne
<1> QED
  BY <1>9, <1>10, <1>12, SMTT(60)

LEMMA NothingFreedStands == ASSUME TInv, Aligned PROVE NothingReachesFreedMemory
<1>1. PICK found : found = [v \in AllPages |-> Translation(v)]
  OBVIOUS
<1>2. ASSUME NEW v \in AllPages PROVE v \in Nat /\ v < Virtual /\ Paged(v) /\ found[v] = Translation(v)
  <2>1. v \in Nat /\ v < Virtual /\ v % Page = 0
    BY VirtualMemoryAssumption DEF AllPages
  <2> QED
    BY <1>1, <2>1, PagedIs
<1>3. ASSUME NEW v \in AllPages, found[v] # -1
      PROVE  /\ found[v] \in TakenPages(pa) \ DOMAIN tables
             /\ \A u \in AllPages \ {v} : found[u] # found[v]
  <2>1. PICK y : y = found[v]
    OBVIOUS
  <2>2. v \in Nat /\ v < Virtual /\ Paged(v) /\ y = Translation(v)
    BY <1>2, <2>1
  <2>3. PICK p \in PartsOf(maps \cup lost, pc, walk, req) : \E s, k, d, a, z :
          InPart(p, v) /\ Lies(p, s, k, d, v, y) /\ LiesIn(p, k, d, y, a, z)
    BY <1>3, <2>1, <2>2, FoundIn
  <2>4. PICK s, k, d, a, z : Lies(p, s, k, d, v, y) /\ LiesIn(p, k, d, y, a, z)
    BY <2>3
  <2>5. y \in TakenPages(pa) \ DOMAIN tables
    BY <2>4, NoTable
  <2>6. ASSUME NEW u \in AllPages \ {v}, found[u] = y PROVE FALSE
    <3>1. u \in Nat /\ u < Virtual /\ Paged(u) /\ y = Translation(u)
      BY <1>2, <2>6
    <3>2. PICK q \in PartsOf(maps \cup lost, pc, walk, req) : \E r, l, e, b, x :
            InPart(q, u) /\ Lies(q, r, l, e, u, y) /\ LiesIn(q, l, e, y, b, x)
      BY <1>3, <2>1, <3>1, FoundIn
    <3>3. PICK r, l, e, b, x : Lies(q, r, l, e, u, y) /\ LiesIn(q, l, e, y, b, x)
      BY <3>2
    <3>4. u = v
      BY <2>2, <2>4, <3>1, <3>3, OneAddress
    <3> QED
      BY <3>4
  <2> QED
    BY <2>1, <2>5, <2>6
<1> QED
  BY <1>1, <1>3, TablesTaken DEF NothingReachesFreedMemory

-----------------------------------------------------------------------------
(* The pages of a list of pieces, one after the other.                     *)

LEMMA FlattenSpreads ==
  ASSUME NEW S, NEW n \in Nat \ {0}, NEW seqs \in Seq(Seq(S)), Len(seqs) = n,
         NEW t, t \in [0..n -> Nat], t[0] = 0, \A i \in 1..n : t[i] = t[i - 1] + Len(seqs[i])
  PROVE  Spread(S, FlattenSeq(seqs), seqs, t, n)
<1>1. PICK f : Flat(f, seqs, n) /\ FlattenSeq(seqs) = f[n]
  <2>1. FlattenSeq(seqs) = (CHOOSE f : Flat(f, seqs, n))[n]
    BY DEF FlattenSeq, Flat
  <2>2. \E f : Flat(f, seqs, n)
    BY FlatExists
  <2> QED
    BY <2>1, <2>2
<1>2. ASSUME NEW i \in 1..n PROVE f[i] = IF i = 1 THEN seqs[i] ELSE f[i - 1] \o seqs[i]
  BY <1>1 DEF Flat
<1>3. \A i \in 1..n : seqs[i] \in Seq(S)
  BY ElementOfSeq
<1> DEFINE D == {i \in 1..n : ~Spread(S, f[i], seqs, t, i)}
<1>4. SUFFICES ASSUME D # {} PROVE FALSE
  <2>1. n \in 1..n
    OBVIOUS
  <2>2. ASSUME D = {} PROVE Spread(S, f[n], seqs, t, n)
    BY <2>1, <2>2
  <2> QED
    BY <1>1, <2>2
<1>5. D \in SUBSET Nat
  OBVIOUS
<1>6. PICK i \in D : \A j \in D : i <= j
  BY <1>4, <1>5, LeastNat
<1>7. i \in 1..n /\ ~Spread(S, f[i], seqs, t, i)
  OBVIOUS
<1>8. PICK b \in Seq(S) : b = seqs[i]
  BY <1>3, <1>7
<1>9. CASE i = 1
  <2>1. f[i] = b /\ t[i] = Len(b) /\ Len(b) \in Nat
    BY <1>2, <1>8, <1>9, LenProperties
  <2>2. ASSUME NEW j \in 1..i, NEW x \in 1..Len(seqs[j])
        PROVE  t[j - 1] + x \in 1..t[i] /\ f[i][t[j - 1] + x] = seqs[j][x]
    <3>1. j = i /\ t[j - 1] = 0
      BY <1>9, <2>2
    <3> QED
      BY <1>8, <2>1, <2>2, <3>1
  <2> QED
    BY <1>7, <2>1, <2>2 DEF Spread
<1>10. CASE i # 1
  <2>1. PICK m \in Nat : m = i - 1 /\ m \in 1..n /\ i = m + 1 /\ ~(i <= m)
    BY <1>7, <1>10
  <2>2. Spread(S, f[m], seqs, t, m)
    BY <1>6, <2>1
  <2>3. f[i] = f[m] \o b
    BY <1>2, <1>7, <1>8, <1>10, <2>1
  <2>4. t[i] = t[m] + Len(b) /\ t[m] \in Nat
    BY <1>7, <1>8, <2>1
  <2>5. Spread(S, f[m] \o b, seqs, t, i)
    BY <1>8, <2>1, <2>2, <2>4, Spreads
  <2> QED
    BY <1>7, <2>3, <2>5
<1> QED
  BY <1>9, <1>10

LEMMA WholeIs ==
  ASSUME NEW n \in Nat, Paged(n)
  PROVE  \E k \in Nat : k = n \div Page /\ n = Page * k
<1>0. Page \in Nat \ {0}
  BY PageIs
<1>1. PICK k \in Nat, r \in Nat : k = n \div Page /\ r = n % Page /\ n = Page * k + r
  <2>1. n \div Page \in Nat /\ n % Page \in 0..(Page - 1) /\ n = Page * (n \div Page) + (n % Page)
    BY <1>0, Modulo
  <2>2. n % Page \in Nat
    BY <1>0, <2>1
  <2> QED
    BY <2>1, <2>2
<1>2. r = 0
  BY <1>1, PagedIs
<1>3. Page * k \in Nat
  BY <1>0
<1> QED
  BY <1>1, <1>2, <1>3

LEMMA WholeSum ==
  ASSUME NEW m \in Nat, NEW n \in Nat, Paged(m), Paged(n)
  PROVE  /\ (m + n) \div Page = (m \div Page) + (n \div Page)
         /\ m \div Page \in Nat /\ n \div Page \in Nat
<1>0. Page \in Nat \ {0}
  BY PageIs
<1>1. PICK k \in Nat : k = m \div Page /\ m = Page * k
  BY WholeIs
<1>2. PICK j \in Nat : j = n \div Page /\ n = Page * j
  BY WholeIs
<1>3. Paged(m + n) /\ m + n \in Nat
  BY PagedSum
<1>4. PICK i \in Nat : i = (m + n) \div Page /\ m + n = Page * i
  BY <1>3, WholeIs
<1>5. Page * (k + j) = Page * k + Page * j
  BY <1>0
<1>6. Page * i = Page * (k + j)
  BY <1>1, <1>2, <1>4, <1>5
<1>7. i = k + j
  <2>1. PICK x \in Nat, y \in Nat, c \in Nat \ {0} : x = i /\ y = k + j /\ c = Page
    BY <1>0
  <2>2. c * x = c * y
    BY <1>6, <2>1
  <2>3. ASSUME x < y PROVE FALSE
    <3>1. c * (x + 1) <= c * y /\ c * (x + 1) = c * x + c
      BY <2>1, <2>3, Multiply
    <3>2. c * x \in Nat
      BY <2>1
    <3> QED
      BY <2>1, <2>2, <3>1, <3>2
  <2>4. ASSUME y < x PROVE FALSE
    <3>1. c * (y + 1) <= c * x /\ c * (y + 1) = c * y + c
      BY <2>1, <2>4, Multiply
    <3>2. c * y \in Nat
      BY <2>1
    <3> QED
      BY <2>1, <2>2, <3>1, <3>2
  <2>5. x = y
    BY <2>1, <2>3, <2>4
  <2> QED
    BY <2>1, <2>5
<1> QED
  BY <1>1, <1>2, <1>4, <1>7

\* The page of an address in the pieces
LEMMA FramesAre ==
  ASSUME NEW pieces, PiecesOK(pieces), NEW s, NEW total \in Nat, Sums(s, pieces, total),
         NEW k \in 1..Len(pieces), NEW d \in Nat, Paged(d), d < pieces[k][2], NEW j, j = k - 1
  PROVE  Frames(pieces)[((s[j] + d) \div Page) + 1] = pieces[k][1] + d
<1>0. Page \in Nat \ {0}
  BY PageIs
<1>1. PICK n \in Nat \ {0} : n = Len(pieces)
  BY LenProperties DEF PiecesOK
<1>2. ASSUME NEW i \in 1..n, NEW h, h = i - 1
      PROVE  /\ s[h] \in Nat /\ Paged(s[h]) /\ s[i] = s[h] + pieces[i][2] /\ h \in 0..n
             /\ pieces[i][1] \in Nat /\ pieces[i][2] \in Nat /\ Paged(pieces[i][2])
  <2>1. i \in 1..Len(pieces)
    BY <1>1
  <2>2. /\ s[h] \in Nat /\ s[i] = s[h] + pieces[i][2] /\ h \in 0..Len(pieces)
        /\ pieces[i][1] \in Nat /\ pieces[i][2] \in Nat /\ Paged(pieces[i][2])
    BY <1>2, <2>1, SumIs, SMTT(60)
  <2> QED
    BY <1>1, <2>2, SumsPaged
<1>3. \A i \in 0..n : s[i] \in Nat /\ Paged(s[i])
  BY <1>1, SumsPaged DEF Sums
<1>4. PICK seqs : seqs = [i \in 1..Len(pieces) |->
                            [x \in 1..(pieces[i][2] \div Page) |-> pieces[i][1] + (x - 1) * Page]]
  OBVIOUS
<1>5. Frames(pieces) = FlattenSeq(seqs)
  BY <1>4 DEF Frames
<1>6. ASSUME NEW i \in 1..n
      PROVE  /\ seqs[i] \in Seq(Nat) /\ Len(seqs[i]) = pieces[i][2] \div Page
             /\ \A x \in 1..(pieces[i][2] \div Page) : seqs[i][x] = pieces[i][1] + (x - 1) * Page
  <2>1. PICK c \in Nat : c = pieces[i][2] \div Page
    <3>1. i - 1 = i - 1
      OBVIOUS
    <3>2. pieces[i][2] \in Nat /\ Paged(pieces[i][2])
      BY <1>2, <3>1
    <3> QED
      BY <3>2, WholeIs
  <2>2. seqs[i] = [x \in 1..c |-> pieces[i][1] + (x - 1) * Page]
    BY <1>1, <1>4, <2>1
  <2>3. \A x \in 1..c : pieces[i][1] + (x - 1) * Page \in Nat
    <3> TAKE x \in 1..c
    <3>1. pieces[i][1] \in Nat
      BY <1>2
    <3>2. PICK y \in Nat : y = x - 1
      OBVIOUS
    <3>3. y * Page \in Nat
      BY <1>0
    <3> QED
      BY <3>1, <3>2, <3>3, SMTT(60)
  <2>4. seqs[i] \in [1..c -> Nat]
    BY <2>2, <2>3
  <2>5. seqs[i] \in Seq(Nat) /\ Len(seqs[i]) = c
    BY <2>4, LenProperties, SMTT(60)
  <2> QED
    BY <2>1, <2>2, <2>5
<1>7. seqs \in Seq(Seq(Nat)) /\ Len(seqs) = n
  <2>1. seqs \in [1..n -> Seq(Nat)]
    BY <1>1, <1>4, <1>6
  <2> QED
    BY <2>1
<1>8. PICK t : t = [i \in 0..n |-> s[i] \div Page]
  OBVIOUS
<1>9. t \in [0..n -> Nat]
  BY <1>3, <1>8, WholeIs
<1>10. t[0] = 0
  <2>1. s[0] = 0 /\ 0 \in 0..n
    BY <1>1 DEF Sums
  <2>2. PICK x \in Nat : x = 0 \div Page /\ 0 = Page * x
    BY PagedZero, WholeIs
  <2>3. x = 0
    BY <1>0, <2>2
  <2> QED
    BY <1>8, <2>1, <2>2, <2>3
<1>11. \A i \in 1..n : t[i] = t[i - 1] + Len(seqs[i])
  <2> TAKE i \in 1..n
  <2>1. PICK h : h = i - 1
    OBVIOUS
  <2>2. /\ s[h] \in Nat /\ Paged(s[h]) /\ s[i] = s[h] + pieces[i][2] /\ h \in 0..n
        /\ pieces[i][2] \in Nat /\ Paged(pieces[i][2])
    BY <1>2, <2>1
  <2>3. s[i] \div Page = (s[h] \div Page) + (pieces[i][2] \div Page)
    BY <2>2, WholeSum, ZenonT(60)
  <2>4. i \in 0..n
    OBVIOUS
  <2> QED
    BY <1>6, <1>8, <2>1, <2>2, <2>3, <2>4
<1>12. Spread(Nat, FlattenSeq(seqs), seqs, t, n)
  BY <1>7, <1>9, <1>10, <1>11, FlattenSpreads
<1>13. PICK e \in Nat, c \in Nat : /\ e = d \div Page /\ d = Page * e
                                  /\ c = pieces[k][2] \div Page /\ pieces[k][2] = Page * c
  <2>1. pieces[k][2] \in Nat /\ Paged(pieces[k][2])
    BY <1>1, <1>2
  <2> QED
    BY <2>1, WholeIs
<1>14. e < c
  <2>1. SUFFICES ASSUME c <= e PROVE FALSE
    BY <1>13
  <2>2. Page * c <= Page * e
    BY <1>0, <1>13, <2>1, Multiply
  <2>3. Page * c \in Nat /\ Page * e \in Nat
    BY <1>0, <1>13
  <2> QED
    BY <1>13, <2>2, <2>3
<1>15. PICK x \in 1..c : x = e + 1 /\ x - 1 = e
  BY <1>13, <1>14
<1>16. seqs[k][x] = pieces[k][1] + d
  <2>1. seqs[k][x] = pieces[k][1] + (x - 1) * Page
    BY <1>1, <1>6, <1>13, <1>15
  <2>2. (x - 1) * Page = d
    BY <1>0, <1>13, <1>15
  <2> QED
    BY <2>1, <2>2
<1>17. FlattenSeq(seqs)[t[k - 1] + x] = seqs[k][x]
  <2>1. k \in 1..n /\ x \in 1..Len(seqs[k])
    BY <1>1, <1>6, <1>13, <1>15
  <2> QED
    BY <1>12, <2>1 DEF Spread
<1>18. t[k - 1] + x = ((s[j] + d) \div Page) + 1
  <2>1. s[j] \in Nat /\ Paged(s[j]) /\ j \in 0..n
    BY <1>1, <1>2
  <2>2. (s[j] + d) \div Page = (s[j] \div Page) + e /\ s[j] \div Page \in Nat
    BY <1>13, <2>1, WholeSum
  <2>3. t[k - 1] = s[j] \div Page
    BY <1>8, <2>1
  <2> QED
    BY <1>15, <2>2, <2>3
<1> QED
  BY <1>5, <1>16, <1>17, <1>18

\* The pages of a range are the pages between its ends.
LEMMA PagesAre ==
  ASSUME NEW r, r.va \in Nat, r.size \in Nat, Paged(r.va), Paged(r.size), NEW v \in Nat, Paged(v)
  PROVE  v \in Pages(r) <=> (r.va <= v /\ v < r.va + r.size)
<1>0. Page \in Nat \ {0}
  BY PageIs
<1>1. PICK a \in Nat, z \in Nat : a = r.va /\ z = r.size /\ Paged(a) /\ Paged(z)
  OBVIOUS
<1>2. PICK c \in Nat : c = z \div Page /\ z = Page * c
  BY <1>1, WholeIs
<1>3. v \in Pages(r) <=> \E i \in 0..(c - 1) : v = a + i * Page
  BY <1>1, <1>2 DEF Pages
<1>4. ASSUME NEW i \in 0..(c - 1), v = a + i * Page PROVE a <= v /\ v < a + z
  <2>1. PICK e \in Nat : e = i /\ e < c
    BY <1>2
  <2>2. Page * (e + 1) <= Page * c /\ Page * (e + 1) = Page * e + Page
    BY <1>0, <1>2, <2>1, Multiply
  <2>3. i * Page = Page * e /\ Page * e \in Nat
    BY <1>0, <2>1
  <2> QED
    BY <1>0, <1>1, <1>2, <1>4, <2>2, <2>3
<1>5. ASSUME a <= v, v < a + z PROVE \E i \in 0..(c - 1) : v = a + i * Page
  <2>1. PICK d \in Nat : d = v - a /\ v = a + d /\ d < z
    BY <1>1, <1>5
  <2>2. Paged(d)
    BY <1>1, <1>5, <2>1, PagedDifference
  <2>3. PICK e \in Nat : d = Page * e
    BY <2>2 DEF Paged
  <2>4. e < c
    <3>1. SUFFICES ASSUME c <= e PROVE FALSE
      BY <1>2
    <3>2. Page * c <= Page * e /\ Page * c \in Nat /\ Page * e \in Nat
      BY <1>0, <1>2, <3>1, Multiply
    <3> QED
      BY <1>2, <2>1, <2>3, <3>2
  <2>5. e \in 0..(c - 1) /\ v = a + e * Page
    BY <1>0, <1>2, <2>1, <2>3, <2>4
  <2> QED
    BY <2>5
<1> QED
  BY <1>1, <1>3, <1>4, <1>5

LEMMA WholeOf ==
  ASSUME NEW r, NEW v
  PROVE  /\ Whole(r).va = r.va /\ Whole(r).size = r.size /\ Whole(r).pieces = r.pieces
         /\ InPart(Whole(r), v) <=> (r.va <= v /\ v < r.va + r.size)
  BY PartIs DEF Whole, InPart

\* A device finds a page that is mapped in its place in the pieces.
LEMMA FindsPage ==
  ASSUME TInv, Aligned, NEW v \in Nat, v < Virtual, Paged(v), NEW m \in maps, m.va <= v, v < m.va + m.size
  PROVE  Translation(v) = Frames(m.pieces)[((v - m.va) \div Page) + 1]
<1>1. IInv /\ TablesOK(tables) /\ Straight(pc, walk, req)
  BY DEF TInv, IInv, Steady
<1>2. PICK L, n : Maps(L, n, tables, pc, walk, req, maps, lost)
  BY Zenon DEF TInv, Steady
<1>3. /\ Tree(L, n, tables) /\ Right(L, n, tables, PartsOf(maps \cup lost, pc, walk, req))
      /\ Covered(L, n, tables, Used(PartsOf(maps, pc, walk, req)))
  BY <1>2, Zenon DEF Maps
<1>4. On(n, tables, Root, v)
  <2>1. Virtual \in Nat /\ PteCovers[1] \in Nat
    BY VirtualMemoryAssumption, CoversAre
  <2>2. v < Virtual + PteCovers[1]
    BY <2>1
  <2> QED
    BY <1>1, <1>3, <2>2, RootOn
<1>5. PICK q : q = Whole(m)
  OBVIOUS
<1>6. InPart(q, v) /\ q \in PartsOf(maps, pc, walk, req) /\ q \in PartsOf(maps \cup lost, pc, walk, req)
  BY <1>5, WholeOf DEF PartsOf
<1>7. v \in Used(PartsOf(maps, pc, walk, req))
  BY <1>6 DEF Used
<1>8a. PICK t \in L : \E i : PageEntry(tables, t, i) /\ Under(n, tables, t, i, v)
  BY <1>3, <1>7 DEF Covered
<1>8. PICK i : PageEntry(tables, t, i) /\ Under(n, tables, t, i, v)
  BY <1>8a
<1>9. PICK y : y = tables[t].pte[i].addr + (v % PteCovers[tables[t].lv])
  OBVIOUS
<1>10. Translation(v) = y
  <2>1. Reaches(L, n, tables, v, y)
    BY <1>8, <1>9 DEF Reaches
  <2> QED
    BY <1>1, <1>3, <1>4, <2>1, TranslationIs
<1>11. PICK p \in PartsOf(maps \cup lost, pc, walk, req) : Backed(n, tables, t, i, p)
  BY <1>3, <1>8 DEF Right
<1>12. InPart(p, v) /\ Phys(p, v, y)
  BY <1>8, <1>9, <1>11 DEF Backed
<1>13. p = q
  BY <1>1, <1>6, <1>12, OnePart
<1>14. PICK s : /\ Sums(s, q.pieces, q.size)
                /\ \E k \in 1..Len(q.pieces), d \in Nat :
                     d < q.pieces[k][2] /\ v = q.va + s[k - 1] + d /\ y = q.pieces[k][1] + d
  BY <1>12, <1>13 DEF Phys
<1>15. PICK k \in 1..Len(q.pieces), d \in Nat :
         d < q.pieces[k][2] /\ v = q.va + s[k - 1] + d /\ y = q.pieces[k][1] + d
  BY <1>14
<1>16. Lies(q, s, k, d, v, y)
  BY <1>14, <1>15 DEF Lies
<1>17. Paged(d)
  <2>1. PICK a, z : LiesIn(q, k, d, y, a, z)
    BY <1>6, <1>16, LiesInPiece
  <2> QED
    BY <2>1 DEF LiesIn
<1>18. PiecesOK(q.pieces) /\ q.size \in Nat /\ q.va \in Nat
  <2>1. PartHeld(q)
    BY <1>6, PartIsHeld
  <2> QED
    BY <2>1 DEF PartHeld
<1>19. PICK pieces : pieces = q.pieces
  OBVIOUS
<1>20. /\ PiecesOK(pieces) /\ Sums(s, pieces, q.size) /\ k \in 1..Len(pieces) /\ d < pieces[k][2]
       /\ v = q.va + s[k - 1] + d /\ y = pieces[k][1] + d
  BY <1>14, <1>15, <1>18, <1>19
<1>21. PICK j : j = k - 1
  OBVIOUS
<1>22. Frames(pieces)[((s[j] + d) \div Page) + 1] = y
  BY <1>17, <1>18, <1>20, <1>21, FramesAre
<1>23. v - m.va = s[j] + d
  <2>1. s[j] \in Nat
    BY <1>18, <1>20, <1>21, SumIs
  <2>2. q.va = m.va
    BY <1>5, WholeOf
  <2> QED
    BY <1>18, <1>20, <1>21, <2>1, <2>2, SMTT(60)
<1>24. pieces = m.pieces
  BY <1>5, <1>19, WholeOf
<1> QED
  BY <1>10, <1>22, <1>23, <1>24

LEMMA TranslatesStand == ASSUME TInv, Aligned PROVE TranslatesRight
<1>1. SUFFICES ASSUME pc = "idle", NEW v \in AllPages
      PROVE  IF \E m \in maps : v \in Pages(m)
             THEN \A m \in maps : v \in Pages(m) =>
                    Translation(v) = Frames(m.pieces)[((v - m.va) \div Page) + 1]
             ELSE (\A r \in lost : v \notin Pages(r)) => Translation(v) = -1
  BY DEF TranslatesRight
<1>2. v \in Nat /\ v < Virtual /\ Paged(v)
  <2>1. v \in Nat /\ v < Virtual /\ v % Page = 0
    BY VirtualMemoryAssumption DEF AllPages
  <2> QED
    BY <2>1, PagedIs
<1>3. IInv /\ PagedRanges(maps \cup lost)
  BY DEF TInv, Steady
<1>4. ASSUME NEW r \in maps \cup lost
      PROVE  /\ v \in Pages(r) <=> (r.va <= v /\ v < r.va + r.size)
             /\ r.va \in Nat /\ r.size \in Nat
  <2>1. r.va \in Nat /\ r.size \in Nat
    BY <1>3, RangesApart
  <2>2. Paged(r.va) /\ Paged(r.size)
    BY <1>3 DEF PagedRanges
  <2> QED
    BY <1>2, <2>1, <2>2, PagesAre
<1>5. ASSUME NEW m \in maps, v \in Pages(m)
      PROVE  Translation(v) = Frames(m.pieces)[((v - m.va) \div Page) + 1]
  <2>1. m.va <= v /\ v < m.va + m.size
    BY <1>4, <1>5
  <2> QED
    BY <1>2, <2>1, FindsPage
<1>6. ASSUME \A r \in maps \cup lost : v \notin Pages(r), Translation(v) # -1
      PROVE  FALSE
  <2>1. PICK p \in PartsOf(maps \cup lost, pc, walk, req) : InPart(p, v)
    BY <1>2, <1>6, FoundLies
  <2>2. PICK r \in maps \cup lost : p = Whole(r)
    BY <1>1, <2>1 DEF PartsOf
  <2>3. r.va <= v /\ v < r.va + r.size
    BY <2>1, <2>2, WholeOf
  <2> QED
    BY <1>4, <1>6, <2>3
<1> QED
  BY <1>5, <1>6

-----------------------------------------------------------------------------
(* Every step keeps the invariants.                                        *)

LEMMA InitIs == Init => IInv /\ Taken(pa) = {}
<1> SUFFICES ASSUME Init PROVE IInv /\ Taken(pa) = {}
  OBVIOUS
<1>1. /\ pc = "idle" /\ req = NoReq /\ walk = NoWalk /\ maps \cup lost = {} /\ maps \cap lost = {}
      /\ tables = [t \in {Root} |-> NewTable(1)]
      /\ pa = NewHeap(Physical) /\ va = NewHeap(Virtual)
  BY DEF Init
<1>2. Physical \in Nat \ {0} /\ Virtual \in Nat \ {0}
  BY VirtualMemoryAssumption
<1>3. HeapsOK
  BY <1>1, <1>2, NewHeapInv DEF HeapsOK
<1>4. Taken(pa) = {} /\ Taken(va) = {}
  BY <1>1, <1>2, NothingTaken
<1>5. TypeOK
  BY <1>1, NoReqIs, NoWalkIs DEF TypeOK, Loops
<1>6. RangesOwned(maps \cup lost, pc \in Claiming, req, va)
  <2>1. (pc \in Claiming) = FALSE
    BY <1>1 DEF Claiming
  <2> QED
    BY <1>1, <1>4, <2>1 DEF RangesOwned, Extents, Claimed
<1>7. PiecesOwned(maps \cup lost, req.pieces, tables, pa)
  <2>1. DOMAIN tables = {Root} /\ req.pieces = <<>>
    BY <1>1, NoReqIs
  <2>2. PiecesApart({}, <<>>, tables)
    BY NoPieces DEF PiecesApart
  <2>3. OwnedPieces({}) \cup PieceSet(<<>>) \cup TablePieces(tables) = {}
    BY <2>1, NoPieces DEF OwnedPieces, TablePieces
  <2> QED
    BY <1>1, <1>4, <2>1, <2>2, <2>3 DEF PiecesOwned
<1>8. TablesOK(tables)
  <2>1. 1 \in 1..Levels
    BY CoversAre
  <2>2. /\ NewTable(1) \in TableType /\ NewTable(1).lv = 1
        /\ \A i, a : i \in DOMAIN NewTable(1).pte => NewTable(1).pte[i] # TableAt(a)
    BY <2>1, NewTableTyped
  <2>3. DOMAIN tables = {Root} /\ tables[Root] = NewTable(1)
    BY <1>1
  <2>4. \A t, i, a : ~Points(tables, t, i, a)
    BY <2>2, <2>3 DEF Points
  <2>5. tables \in [DOMAIN tables -> TableType]
    BY <1>1, <2>2, <2>3
  <2> QED
    BY <2>2, <2>3, <2>4, <2>5 DEF TablesOK
<1>9. ReqOK(pc, req)
  BY <1>1 DEF ReqOK, Claiming, Providing
<1>10. WalkOK(pc, walk, tables, req)
  BY <1>1, NoWalkIs DEF WalkOK, Traversing
<1> QED
  BY <1>3, <1>4, <1>5, <1>6, <1>7, <1>8, <1>9, <1>10 DEF IInv

LEMMA SameState == ASSUME IInv, UNCHANGED vars PROVE IInv' /\ UNCHANGED pa
<1>1. UNCHANGED <<pc, req, walk, tables, pa, va, maps, lost>>
  BY DEF vars
<1>2. TypeOK' /\ HeapsOK' /\ TablesOK(tables)'
  BY <1>1 DEF IInv, TypeOK, HeapsOK
<1>3. RangesOwned(maps \cup lost, pc \in Claiming, req, va)' /\ PiecesOwned(maps \cup lost, req.pieces, tables, pa)'
  BY <1>1 DEF IInv
<1>4. ReqOK(pc, req)' /\ WalkOK(pc, walk, tables, req)'
  BY <1>1 DEF IInv
<1> QED
  BY <1>1, <1>2, <1>3, <1>4 DEF IInv

\* Each step keeps the invariant, and takes or gives back a block of the physical heap or
\* leaves alone what it has handed out.
LEMMA StepIs ==
  ASSUME IInv, [Next]_vars
  PROVE  IInv' /\ (Frame!Next \/ UNCHANGED Taken(pa))
<1>s. ASSUME UNCHANGED pa PROVE UNCHANGED Taken(pa)
  BY <1>s DEF Taken
<1>1. CASE UNCHANGED vars
  BY <1>1, <1>s, SameState
<1>2. CASE \E size \in Sizes, contiguous \in BOOLEAN : Valloc(size, contiguous)
  BY <1>2, <1>s, VallocKeeps
<1>3. CASE \E m \in maps : Vfree(m)
  BY <1>3, <1>s, VfreeKeeps
<1>4. CASE NoCall
  BY <1>4, <1>s, SameState DEF NoCall
<1>5. CASE Proceed
  <2>1. CASE MergePhysical
    BY <2>1, MergePhysicalKeeps
  <2>2. CASE MergeVirtual
    BY <2>2, <1>s, MergeVirtualKeeps
  <2>3. CASE AllocContiguous
    BY <2>3, AllocContiguousKeeps
  <2>4. CASE ContiguousRaises
    BY <2>4, <1>s, ContiguousRaisesKeeps
  <2>5. CASE TakePiece
    BY <2>5, TakePieceKeeps
  <2>6. CASE SmallerRange
    BY <2>6, <1>s, SmallerRangeKeeps
  <2>7. CASE GiveUp
    BY <2>7, <1>s, GiveUpKeeps
  <2>8. CASE MapPieces
    BY <2>8, <1>s, MapPiecesKeeps
  <2>9. CASE LevelDown
    BY <2>9, <1>s, LevelDownKeeps
  <2>10. CASE CreateTable
    BY <2>10, CreateTableKeeps
  <2>11. CASE CreateTableRaises
    BY <2>11, <1>s, CreateTableRaisesKeeps
  <2>12. CASE Visit
    BY <2>12, <1>s, VisitKeeps
  <2>13. CASE FreeTable
    BY <2>13, FreeTableKeeps
  <2>14. CASE LevelUp
    BY <2>14, <1>s, LevelUpKeeps
  <2>15. CASE LevelUpEnds
    BY <2>15, <1>s, LevelUpEndsKeeps
  <2>16. CASE Inspected
    BY <2>16, <1>s, InspectedKeeps
  <2>17. CASE NextPiece
    BY <2>17, <1>s, NextPieceKeeps
  <2>18. CASE VallocReturns
    BY <2>18, <1>s, VallocReturnsKeeps
  <2>19. CASE Unmapped
    BY <2>19, <1>s, UnmappedKeeps
  <2>20. CASE Release
    BY <2>20, ReleaseKeeps
  <2>21. CASE Released
    BY <2>21, <1>s, ReleasedKeeps
  <2> QED
    BY <1>5, <2>1, <2>2, <2>3, <2>4, <2>5, <2>6, <2>7, <2>8, <2>9, <2>10, <2>11, <2>12, <2>13,
       <2>14, <2>15, <2>16, <2>17, <2>18, <2>19, <2>20, <2>21 DEF Proceed
<1> QED
  BY <1>1, <1>2, <1>3, <1>4, <1>5 DEF Next

-----------------------------------------------------------------------------
(* The theorems.                                                           *)

\* The invariant: the heaps are consistent, what they have handed out is owned by a mapping, a
\* call or as a page table, every table is led to by one entry of the level above, and the
\* stack of a traversal is the way from the root to where it is.
THEOREM VirtualMemoryInvariant == Spec => []IInv
<1>1. Init => IInv
  BY InitIs
<1>2. IInv /\ [Next]_vars => IInv'
  BY StepIs
<1> QED
  BY <1>1, <1>2, PTL DEF Spec

\* EverythingAccountedFor: between calls the virtual ranges handed out are those of the mappings
\* and of the calls that raised, the physical blocks their pieces and the page tables: valloc
\* and vfree lose nothing and give nothing back twice, for memories of any size, tables of any
\* shape and palloc_ranges of any kind (memory.py:232-275).
THEOREM VirtualMemoryAccounted == Spec => []EverythingAccountedFor
<1>1. IInv => EverythingAccountedFor
  <2> SUFFICES ASSUME IInv, Ready("idle")
               PROVE  /\ Taken(va) = {<<r.va, r.size>> : r \in maps \cup lost}
                      /\ Taken(pa) = (UNION {PieceSet(r.pieces) : r \in maps \cup lost})
                                       \cup {<<t, Page>> : t \in DOMAIN tables \ {Root}}
    BY DEF EverythingAccountedFor
  <2>1. pc = "idle" /\ (pc \in Claiming) = FALSE
    BY DEF Ready, Claiming
  <2>2. RangesOwned(maps \cup lost, FALSE, req, va)
    BY <2>1 DEF IInv
  <2>3. req.pieces = <<>> /\ PiecesOwned(maps \cup lost, req.pieces, tables, pa)
    BY <2>1, NoReqIs DEF IInv, ReqOK
  <2>4. Taken(va) = {<<r.va, r.size>> : r \in maps \cup lost}
    BY <2>2 DEF RangesOwned, Extents, Claimed
  <2>5. Taken(pa) = OwnedPieces(maps \cup lost) \cup PieceSet(<<>>) \cup TablePieces(tables)
    BY <2>3 DEF PiecesOwned
  <2>6. Taken(pa) = OwnedPieces(maps \cup lost) \cup TablePieces(tables)
    BY <2>5, NoPieces
  <2> QED
    BY <2>4, <2>6 DEF OwnedPieces, TablePieces
<1> QED
  BY <1>1, VirtualMemoryInvariant, PTL

\* The refinement: palloc and pfree, also those of page tables in the middle of a traversal,
\* are steps of an allocator of disjoint intervals, whose free names a block it has handed out
\* (memory.py:24-86, 130-140, 150-156).
THEOREM PhysicalImplementsIntervals == Spec => PhysicalIsIntervals
<1>1. Init => Frame!Init
  BY InitIs DEF Frame!Init
<1>2. IInv /\ [Next]_vars => [Frame!Next]_(Taken(pa))
  BY StepIs
<1> QED
  BY <1>1, <1>2, VirtualMemoryInvariant, PTL DEF Spec, PhysicalIsIntervals, Frame!Spec

\* The tables lead each address that is mapped to its place in the pieces and no other address
\* anywhere, also in the middle of a call.
THEOREM VirtualMemoryTables == Spec => []TInv
<1>1. Init => TInv
  BY InitIs, SteadyStarts DEF TInv
<1>2. TInv /\ [Next]_vars => TInv'
  <2>1. SUFFICES ASSUME TInv, [Next]_vars PROVE TInv'
    OBVIOUS
  <2>2. IInv'
    BY <2>1, StepIs DEF TInv
  <2>3. Steady'
    BY <2>1, SteadyStep
  <2> QED
    BY <2>2, <2>3 DEF TInv
<1> QED
  BY <1>1, <1>2, PTL DEF Spec

\* Between calls a device finds the page of each address that is mapped and nothing else, at no
\* step does it reach memory that was given back, a page table or the page of another address,
\* and no assertion of map_range, unmap_range and alloc fails.
THEOREM DeviceReachesOnlyItsOwn == Spec => []ReachesOnlyItsOwn
<1>1. Init => Aligned
  BY DEF Init, Aligned
<1>2. TInv /\ Aligned /\ [Next]_vars => Aligned'
  BY AlignedStep
<1>3. TInv /\ Aligned => ReachesOnlyItsOwn
  BY AssertionsStand, NothingFreedStands, TranslatesStand DEF ReachesOnlyItsOwn
<1> QED
  BY <1>1, <1>2, <1>3, VirtualMemoryTables, PTL DEF Spec
=============================================================================
