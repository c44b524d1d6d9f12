--------------------------- MODULE Device_proofs ---------------------------
(***************************************************************************)
(* Proofs about the queues of a device, for every value of the constants:  *)
(* the GPFIFOs and the command memory of an NV device (NVQueues), and the   *)
(* compute ring, its command memory and the SDMA ring of an AMD device      *)
(* (CommandRings), the latter until its compute ring has lapped the device    *)
(* or an invalidation of caches has overtaken a copy.                        *)
(***************************************************************************)
EXTENDS MCDevice, FiniteSetTheorems, WellFoundedInduction, TLAPS, SequenceTheorems

-----------------------------------------------------------------------------
(* Arithmetic. *)

\* Two numbers less than w apart do not have the same remainder modulo w.
LEMMA ModDistinct ==
  ASSUME NEW w \in Nat \ {0}, NEW a \in Nat, NEW b \in Nat, a < b, b - a < w
  PROVE  a % w # b % w
<1> DEFINE x == a \div w
           y == b \div w
<1>1. /\ x \in Int /\ y \in Int
      /\ a = w * x + (a % w) /\ b = w * y + (b % w)
  OBVIOUS
<1> HIDE DEF x, y
<1> SUFFICES ASSUME a % w = b % w PROVE FALSE
  OBVIOUS
<1>2. b - a = w * (y - x)
  BY <1>1
<1> DEFINE z == y - x
<1>3. z \in Int /\ b - a = w * z
  BY <1>1, <1>2
<1> HIDE DEF z
<1>4. CASE z <= 0
  <2>1. w * z <= 0
    BY <1>3, <1>4
  <2> QED
    BY <1>3, <2>1
<1>5. CASE z >= 1
  <2>1. w * z >= w
    BY <1>3, <1>5
  <2> QED
    BY <1>3, <2>1
<1> QED
  BY <1>3, <1>4, <1>5

LEMMA Multiply == \A d \in Nat, x \in Int, y \in Int : x <= y => d * x <= d * y
<1> TAKE d \in Nat, x \in Int, y \in Int
<1> HAVE x <= y
<1> DEFINE z == y - x
<1>1. z \in Nat /\ y = x + z
  OBVIOUS
<1> HIDE DEF z
<1>2. d * y = d * x + d * z /\ d * z \in Nat /\ d * x \in Int
  BY <1>1
<1> QED
  BY <1>2

\* Quotients by d of numbers d apart differ; those of numbers below d * m are below m.
LEMMA Divide ==
  ASSUME NEW d \in Nat \ {0}, NEW x \in Nat
  PROVE  /\ x \div d \in Nat /\ d * (x \div d) <= x /\ x < d * (x \div d) + d
         /\ \A y \in Nat : x + d <= y => x \div d < y \div d
         /\ \A m \in Nat : x < d * m => x \div d < m
<1>1. \A y \in Nat : y \div d \in Nat /\ d * (y \div d) <= y /\ y < d * (y \div d) + d
  <2> TAKE y \in Nat
  <2>1. y = d * (y \div d) + (y % d) /\ y % d \in 0..(d - 1) /\ y \div d \in Nat
    OBVIOUS
  <2> QED
    BY <2>1
<1>2. \A y \in Nat : x + d <= y => x \div d < y \div d
  <2> TAKE y \in Nat
  <2> DEFINE X == x \div d
             Y == y \div d
  <2>1. X \in Nat /\ Y \in Nat /\ d * X <= x /\ x < d * X + d /\ y < d * Y + d
    BY <1>1
  <2> HIDE DEF X, Y
  <2>2. Y <= X => d * Y <= d * X
    BY <2>1, Multiply
  <2>3. d * Y \in Nat /\ d * X \in Nat
    BY <2>1
  <2>4. x + d <= y => X < Y
    BY <2>1, <2>2, <2>3
  <2> QED
    BY <2>4 DEF X, Y
<1>3. \A m \in Nat : x < d * m => x \div d < m
  <2> TAKE m \in Nat
  <2> DEFINE X == x \div d
  <2>1. X \in Nat /\ d * X <= x
    BY <1>1
  <2> HIDE DEF X
  <2>2. m <= X => d * m <= d * X
    BY <2>1, Multiply
  <2>3. d * m \in Nat /\ d * X \in Nat
    BY <2>1
  <2>4. x < d * m => X < m
    BY <2>1, <2>2, <2>3
  <2> QED
    BY <2>4 DEF X
<1> QED
  BY <1>1, <1>2, <1>3

\* round_up: the least multiple of a that is not below n.
LEMMA RoundedUp ==
  ASSUME NEW a \in Nat \ {0}, NEW n \in Nat
  PROVE  /\ RoundUp(n, a) \in Nat /\ n <= RoundUp(n, a) /\ \E k \in Nat : RoundUp(n, a) = k * a
         /\ \A j \in Nat : n <= j * a => RoundUp(n, a) <= j * a
         /\ NV!RoundUp(n, a) = RoundUp(n, a)
<1> DEFINE k == (n + a - 1) \div a
           x == n + a - 1
<1>1. x \in Nat
  OBVIOUS
<1>2. k \in Nat /\ a * k <= x /\ x < a * k + a
  BY <1>1, Divide
<1>3. RoundUp(n, a) = k * a /\ NV!RoundUp(n, a) = k * a
  BY DEF RoundUp, NV!RoundUp
<1>4. x = n + a - 1
  OBVIOUS
<1> HIDE DEF k, x
<1>5. a * k = k * a /\ a * k \in Nat
  BY <1>2
<1>6. \A j \in Nat : n <= j * a => k * a <= j * a
  <2> TAKE j \in Nat
  <2>1. a * j = j * a /\ a * j \in Nat /\ a * (j + 1) = a * j + a
    OBVIOUS
  <2>2. j + 1 <= k => a * (j + 1) <= a * k
    BY <1>2, Multiply
  <2>3. k <= j => a * k <= a * j
    BY <1>2, Multiply
  <2> QED
    BY <1>1, <1>2, <1>4, <1>5, <2>1, <2>2, <2>3
<1> QED
  BY <1>2, <1>3, <1>4, <1>5, <1>6

\* Where a block at a multiple of the alignment ends after rounding.
LEMMA NextMultiple ==
  ASSUME NEW a \in Nat \ {0}, NEW n \in Nat, NEW off \in Nat, NEW k \in Nat, off = k * a
  PROVE  \A j \in Nat : off + n <= j * a => off + RoundUp(n, a) <= j * a
<1> TAKE j \in Nat
<1> HAVE off + n <= j * a
<1>1. k <= j
  <2>1. j + 1 <= k => a * (j + 1) <= a * k
    BY Multiply
  <2>2. a * (j + 1) = j * a + a /\ a * k = k * a /\ j * a \in Nat
    OBVIOUS
  <2> QED
    BY <2>1, <2>2
<1> DEFINE i == j - k
<1>2. i \in Nat /\ j = i + k
  BY <1>1
<1> HIDE DEF i
<1>3. j * a = i * a + k * a /\ i * a \in Nat
  BY <1>2
<1>4. n <= i * a
  BY <1>3
<1>5. RoundUp(n, a) <= i * a /\ RoundUp(n, a) \in Nat
  BY <1>2, <1>4, RoundedUp
<1> QED
  BY <1>3, <1>5

\* A finite set that is mapped one to one into another is not the larger one.
LEMMA AtMost ==
  ASSUME NEW S, IsFiniteSet(S), NEW T, IsFiniteSet(T), NEW f \in [S -> T],
         \A x \in S : \A y \in S : x # y => f[x] # f[y]
  PROVE  Cardinality(S) <= Cardinality(T)
<1>1. Cardinality(S) \in Nat /\ Cardinality(T) \in Nat
  BY FS_CardinalityType
<1>2. ~(Cardinality(T) < Cardinality(S))
  BY FS_PigeonHole
<1> QED
  BY <1>1, <1>2

-----------------------------------------------------------------------------
(* The GPFIFOs of an NV device. *)

\* The entries the device has yet to take, and the last value that was submitted.
Pending(f) == taken[f]..(nv_put[f] - 1)
EntryAt(f, n) == ring[f][n % Entries[f]]
LastValue == IF host = "drain" THEN timeline_value - 2 ELSE timeline_value - 1

EntryType == [at : Int, value : Nat, bound : BOOLEAN, offset : Nat, size : Nat]

NVTypes ==
  /\ timeline_value \in Nat \ {0} /\ nv_signal \in Nat /\ ptr \in Nat /\ host \in {"idle", "drain", "sync"}
  /\ host = "drain" => timeline_value > 1
  /\ DOMAIN cmdq = 0..(CmdqSize - 1)
  /\ DOMAIN ring = Fifo /\ \A f \in Fifo : DOMAIN ring[f] = 0..(Entries[f] - 1)
  /\ gpput \in [Fifo -> Nat] /\ nv_put \in [Fifo -> Nat] /\ taken \in [Fifo -> Nat]
  /\ nv_replayed \in [Bound -> Nat] /\ \A q \in Bound : nv_replayed[q] < timeline_value

CountInv == \A f \in Fifo : /\ taken[f] <= nv_put[f] /\ nv_put[f] - taken[f] <= Entries[f]
                            /\ gpput[f] = nv_put[f] % Entries[f]

\* Every value that was submitted and not signalled is that of one entry.
ValueInv ==
  /\ nv_signal <= LastValue
  /\ \A f \in Fifo : \A n \in Pending(f) :
       /\ EntryAt(f, n) \in EntryType /\ EntryAt(f, n).at = n
       /\ nv_signal < EntryAt(f, n).value /\ EntryAt(f, n).value <= LastValue
       /\ \A m \in Pending(f) : n < m => EntryAt(f, n).value < EntryAt(f, m).value
       /\ \A g \in Fifo : g # f => \A m \in Pending(g) : EntryAt(f, n).value # EntryAt(g, m).value
  /\ \A v \in (nv_signal + 1)..LastValue : \E f \in Fifo : \E n \in Pending(f) : EntryAt(f, n).value = v

\* A list is one of the submissions', and lies at a multiple of the alignment.
IsList(f, list) ==
  /\ \E q \in Lists : q.fifo = f /\ q.size = list.size
  /\ \E k \in Nat : list.offset = k * CmdqAlign
IsReplay(f, val) == \E q \in Bound : q.fifo = f /\ nv_replayed[q] = val

\* The submission the host is in.
JobInv ==
  host = "drain" =>
    /\ nv_job.bound \in BOOLEAN /\ nv_job.fifo \in Fifo /\ nv_job.offset \in Nat /\ nv_job.size \in Nat
    /\ IF nv_job.bound
       THEN IsReplay(nv_job.fifo, timeline_value - 1) /\ ~nv_job.wrapped
       ELSE /\ IsList(nv_job.fifo, nv_job) /\ ptr = nv_job.offset + nv_job.size
            /\ nv_job.offset + nv_job.size <= CmdqSize

\* The end of the command memory that lists on their way may lie in.
Top == IF host = "drain" /\ ~nv_job.bound
       THEN IF nv_job.wrapped THEN CmdqSize ELSE nv_job.offset
       ELSE ptr

\* Lists on their way lie one after the other, in the order of their values.
BlockInv ==
  /\ ptr <= CmdqSize
  /\ \A f \in Fifo : \A n \in Pending(f) :
       /\ EntryAt(f, n).bound => IsReplay(f, EntryAt(f, n).value)
       /\ ~EntryAt(f, n).bound =>
            /\ IsList(f, EntryAt(f, n)) /\ EntryAt(f, n).offset + EntryAt(f, n).size <= Top
            /\ EntryAt(f, n).offset + EntryAt(f, n).size <= CmdqSize
            /\ \A g \in Fifo : \A m \in Pending(g) :
                 ~EntryAt(g, m).bound /\ EntryAt(f, n).value < EntryAt(g, m).value =>
                   EntryAt(f, n).offset + EntryAt(f, n).size <= EntryAt(g, m).offset

NVInv == NVTypes /\ CountInv /\ ValueInv /\ JobInv /\ BlockInv /\ NV!CommandsIntact

RoomInv == \A f \in Fifo : nv_put[f] - taken[f] < Entries[f]

BoundOf(f) == {q \in Bound : q.fifo = f}

LEMMA NVConstants ==
  /\ Entries \in [Fifo -> Nat \ {0}] /\ CmdqAlign \in Nat \ {0} /\ CmdqSize \in Nat \ {0}
  /\ \A q \in Lists \cup Bound : q.fifo \in Fifo /\ q.size \in 1..CmdqSize
  /\ \A f \in Fifo : /\ IsFiniteSet(BoundOf(f)) /\ Cardinality(BoundOf(f)) \in Nat
                     /\ Cardinality(BoundOf(f)) < Entries[f]
  /\ \A q \in Lists : RoundUp(CmdqSize, CmdqAlign)
                        < RoundUp(q.size, CmdqAlign) * (Entries[q.fifo] - Cardinality(BoundOf(q.fifo)))
<1>1. /\ Entries \in [Fifo -> Nat \ {0}] /\ CmdqAlign \in Nat \ {0} /\ CmdqSize \in Nat \ {0}
      /\ \A q \in Lists \cup Bound : q.fifo \in Fifo /\ q.size \in 1..CmdqSize
      /\ NV!IsFiniteSet(Bound) /\ NV!FifoGuarded
  BY MCAssumption DEF MCAssumption, NV!NVAssumption
<1>2. \A S : NV!IsFiniteSet(S) <=> IsFiniteSet(S)
  BY DEF NV!IsFiniteSet, IsFiniteSet
<1>3. \A S : NV!Cardinality(S) = Cardinality(S)
  BY DEF NV!Cardinality, Cardinality
<1>4. \A f : NV!EntriesOf(f, Bound) = Cardinality(BoundOf(f))
  BY <1>3 DEF NV!EntriesOf, BoundOf
<1>5. \A f : IsFiniteSet(BoundOf(f)) /\ Cardinality(BoundOf(f)) \in Nat
  BY <1>1, <1>2, FS_Subset, FS_CardinalityType DEF BoundOf
<1>6. \A f \in Fifo : Cardinality(BoundOf(f)) < Entries[f]
  BY <1>1, <1>4 DEF NV!FifoGuarded
<1>7. \A q \in Lists : RoundUp(CmdqSize, CmdqAlign)
                         < RoundUp(q.size, CmdqAlign) * (Entries[q.fifo] - Cardinality(BoundOf(q.fifo)))
  <2> TAKE q \in Lists
  <2>1. NV!RoundUp(CmdqSize, CmdqAlign) = RoundUp(CmdqSize, CmdqAlign)
    BY <1>1, RoundedUp
  <2>2. NV!RoundUp(q.size, CmdqAlign) = RoundUp(q.size, CmdqAlign)
    <3>1. q.size \in Nat
      BY <1>1
    <3> QED
      BY <1>1, <3>1, RoundedUp
  <2> QED
    BY <1>1, <1>4, <2>1, <2>2 DEF NV!FifoGuarded
<1> QED
  BY <1>1, <1>5, <1>6, <1>7

\* The list an entry names, with the room it takes: enough of them fill the command memory.
LEMMA ListRoom ==
  ASSUME NEW f \in Fifo, NEW list, list.offset \in Nat, list.size \in Nat, IsList(f, list),
         list.offset + list.size <= CmdqSize
  PROVE  /\ list.size > 0
         /\ LET s == RoundUp(list.size, CmdqAlign)
                r == RoundUp(CmdqSize, CmdqAlign)
            IN  /\ s \in Nat /\ r \in Nat /\ list.offset + s <= r
                /\ r < s * (Entries[f] - Cardinality(BoundOf(f)))
<1>1. PICK q \in Lists : q.fifo = f /\ q.size = list.size
  BY DEF IsList
<1>2. PICK k \in Nat : list.offset = k * CmdqAlign
  BY DEF IsList
<1>3. PICK j \in Nat : RoundUp(CmdqSize, CmdqAlign) = j * CmdqAlign
  BY NVConstants, RoundedUp
<1>4. /\ RoundUp(CmdqSize, CmdqAlign) \in Nat /\ CmdqSize <= RoundUp(CmdqSize, CmdqAlign)
      /\ RoundUp(list.size, CmdqAlign) \in Nat
  BY NVConstants, RoundedUp
<1>5. list.offset + list.size <= j * CmdqAlign
  BY <1>3, <1>4, NVConstants
<1>6. list.offset + RoundUp(list.size, CmdqAlign) <= j * CmdqAlign
  BY <1>2, <1>5, NVConstants, NextMultiple
<1> QED
  BY <1>1, <1>3, <1>4, <1>6, NVConstants

\* Lists for one engine that lie one after the other are fewer than its entries.
LEMMA ListsFit ==
  ASSUME NEW f \in Fifo, NEW S, IsFiniteSet(S), NEW list,
         \A n \in S : /\ list[n].offset \in Nat /\ list[n].size \in Nat /\ IsList(f, list[n])
                      /\ list[n].offset + list[n].size <= CmdqSize,
         \A n \in S : \A m \in S : n # m =>
           \/ list[n].offset + list[n].size <= list[m].offset
           \/ list[m].offset + list[m].size <= list[n].offset
  PROVE  Cardinality(S) <= Entries[f] - Cardinality(BoundOf(f)) - 1
<1> DEFINE D == Entries[f] - Cardinality(BoundOf(f))
           r == RoundUp(CmdqSize, CmdqAlign)
           s(n) == RoundUp(list[n].size, CmdqAlign)
           o(n) == list[n].offset
           F == [n \in S |-> (o(n) * D) \div (r + 1)]
<1>1. D \in Nat \ {0} /\ CmdqAlign \in Nat \ {0} /\ r \in Nat
  <2>1. Entries[f] \in Nat /\ Cardinality(BoundOf(f)) \in Nat /\ Cardinality(BoundOf(f)) < Entries[f]
    BY NVConstants
  <2>2. CmdqAlign \in Nat \ {0} /\ CmdqSize \in Nat
    BY NVConstants
  <2>3. r \in Nat
    BY <2>2, RoundedUp
  <2> QED
    BY <2>1, <2>2, <2>3
<1>2. \A n \in S : o(n) \in Nat /\ s(n) \in Nat /\ o(n) + s(n) <= r /\ r < s(n) * D
  BY ListRoom
<1>3. \A n \in S : \A m \in S : o(n) + list[n].size <= o(m) => o(n) + s(n) <= o(m)
  <2> TAKE n \in S
  <2> TAKE m \in S
  <2> HAVE o(n) + list[n].size <= o(m)
  <2>1. PICK k \in Nat : o(n) = k * CmdqAlign
    BY DEF IsList
  <2>2. PICK j \in Nat : o(m) = j * CmdqAlign
    BY DEF IsList
  <2> QED
    BY <1>1, <2>1, <2>2, NextMultiple
<1>4. \A n \in S : \A m \in S : o(n) + s(n) <= o(m) => F[n] < F[m]
  <2> TAKE n \in S
  <2> TAKE m \in S
  <2> HAVE o(n) + s(n) <= o(m)
  <2> DEFINE a == o(n)
             b == o(m)
             c == s(n)
  <2>1. a \in Nat /\ b \in Nat /\ c \in Nat /\ r < c * D /\ a + c <= b
    BY <1>2
  <2>2. F[n] = (a * D) \div (r + 1) /\ F[m] = (b * D) \div (r + 1)
    OBVIOUS
  <2> HIDE DEF a, b, c, D, r, F
  <2>3. (a + c) * D <= b * D
    <3>1. D * (a + c) <= D * b
      BY <1>1, <2>1, Multiply
    <3> QED
      BY <1>1, <2>1, <3>1
  <2>4. a * D \in Nat /\ b * D \in Nat /\ c * D \in Nat /\ (a + c) * D = a * D + c * D
    BY <1>1, <2>1
  <2>5. a * D + (r + 1) <= b * D
    BY <1>1, <2>1, <2>3, <2>4
  <2>6. (a * D) \div (r + 1) < (b * D) \div (r + 1)
    BY <1>1, <2>4, <2>5, Divide
  <2> QED
    BY <2>2, <2>6
<1>5. \A n \in S : F[n] \in 0..(D - 2)
  <2> TAKE n \in S
  <2> DEFINE a == o(n)
             c == s(n)
  <2>1. a \in Nat /\ c \in Nat /\ a + c <= r /\ r < c * D
    BY <1>2
  <2>2. F[n] = (a * D) \div (r + 1)
    OBVIOUS
  <2> HIDE DEF a, c, D, r, F
  <2>3. D * (a + c) <= D * r
    BY <1>1, <2>1, Multiply
  <2>4. a * D \in Nat /\ c * D \in Nat /\ D * r \in Nat /\ D * (a + c) = a * D + c * D
        /\ (r + 1) * (D - 1) = D * r + D - r - 1
    BY <1>1, <2>1
  <2>5. a * D < (r + 1) * (D - 1)
    BY <1>1, <2>1, <2>3, <2>4
  <2>6. (a * D) \div (r + 1) < D - 1 /\ (a * D) \div (r + 1) \in Nat
    BY <1>1, <2>4, <2>5, Divide
  <2> QED
    BY <1>1, <2>2, <2>6
<1> HIDE DEF F, D, r, s, o
<1>6. \A n \in S : \A m \in S : n # m => F[n] # F[m]
  <2> TAKE n \in S
  <2> TAKE m \in S
  <2> HAVE n # m
  <2>1. F[n] < F[m] \/ F[m] < F[n]
    BY <1>3, <1>4 DEF o
  <2> QED
    BY <1>1, <1>5, <2>1
<1>7. IsFiniteSet(0..(D - 2)) /\ Cardinality(0..(D - 2)) = D - 1
  BY <1>1, FS_Interval
<1>8. F \in [S -> 0..(D - 2)]
  BY <1>5 DEF F
<1>9. Cardinality(S) <= D - 1
  BY <1>6, <1>7, <1>8, AtMost
<1> QED
  BY <1>9 DEF D

\* The engines' entries never use up a GPFIFO, so that the next one lands on none that is
\* still to be taken.
LEMMA RoomIsLeft == NVTypes /\ CountInv /\ ValueInv /\ BlockInv => RoomInv
<1> SUFFICES ASSUME NVTypes, CountInv, ValueInv, BlockInv, NEW f \in Fifo
             PROVE  nv_put[f] - taken[f] < Entries[f]
  BY DEF RoomInv
<1> DEFINE P == Pending(f)
           U == {n \in P : ~EntryAt(f, n).bound}
           B == {n \in P : EntryAt(f, n).bound}
<1>1. /\ taken[f] \in Nat /\ nv_put[f] \in Nat /\ taken[f] <= nv_put[f]
      /\ Entries[f] \in Nat /\ Cardinality(BoundOf(f)) \in Nat
  BY NVConstants DEF NVTypes, CountInv
<1>2. IsFiniteSet(P) /\ Cardinality(P) = nv_put[f] - taken[f]
  <2>1. PICK a \in Int, b \in Int : a = taken[f] /\ b = nv_put[f] - 1
    BY <1>1
  <2>2. P = a..b
    BY <2>1 DEF Pending
  <2>3. IsFiniteSet(a..b) /\ Cardinality(a..b) = IF a > b THEN 0 ELSE b - a + 1
    BY FS_Interval
  <2>4. (IF a > b THEN 0 ELSE b - a + 1) = nv_put[f] - taken[f]
    BY <1>1, <2>1
  <2> QED
    BY <2>2, <2>3, <2>4
<1>3. \A n \in P : n \in Int
  BY <1>1 DEF Pending
<1>4. IsFiniteSet(U) /\ IsFiniteSet(B) /\ P = U \cup B /\ U \cap B = {}
  BY <1>2, FS_Subset
<1>5. Cardinality(U) \in Nat /\ Cardinality(B) \in Nat /\ Cardinality(P) = Cardinality(U) + Cardinality(B)
  <2> HIDE DEF U, B, P
  <2>1. Cardinality(U) \in Nat /\ Cardinality(B) \in Nat
    BY <1>4, FS_CardinalityType
  <2>2. Cardinality(U \cup B) = Cardinality(U) + Cardinality(B) - Cardinality(U \cap B)
    BY <1>4, FS_Union
  <2>3. Cardinality(U \cap B) = 0
    BY <1>4, FS_EmptySet
  <2> QED
    BY <1>4, <2>1, <2>2, <2>3
<1>6. \A n \in P : \A m \in P : n # m => EntryAt(f, n).value # EntryAt(f, m).value
  <2> TAKE n \in P
  <2> TAKE m \in P
  <2> HAVE n # m
  <2>1. n < m \/ m < n
    BY <1>3
  <2>2. EntryAt(f, n).value \in Nat /\ EntryAt(f, m).value \in Nat
    BY DEF ValueInv, EntryType
  <2> QED
    BY <2>1, <2>2 DEF ValueInv
<1>7. Cardinality(U) <= Entries[f] - Cardinality(BoundOf(f)) - 1
  <2> DEFINE list == [n \in U |-> EntryAt(f, n)]
  <2>1. \A n \in U : /\ list[n].offset \in Nat /\ list[n].size \in Nat /\ IsList(f, list[n])
                     /\ list[n].offset + list[n].size <= CmdqSize
    BY DEF ValueInv, EntryType, BlockInv
  <2>2. ASSUME NEW n \in U, NEW m \in U, n # m
        PROVE  \/ list[n].offset + list[n].size <= list[m].offset
               \/ list[m].offset + list[m].size <= list[n].offset
    <3>1. EntryAt(f, n).value < EntryAt(f, m).value \/ EntryAt(f, m).value < EntryAt(f, n).value
      <4>1. EntryAt(f, n).value \in Nat /\ EntryAt(f, m).value \in Nat
        BY DEF ValueInv, EntryType
      <4> QED
        BY <1>6, <2>2, <4>1
    <3> QED
      BY <3>1 DEF BlockInv
  <2> HIDE DEF list
  <2> QED
    BY <1>4, <2>1, <2>2, ListsFit
<1>8. Cardinality(B) <= Cardinality(BoundOf(f))
  <2> DEFINE h == [n \in B |-> CHOOSE q \in BoundOf(f) : nv_replayed[q] = EntryAt(f, n).value]
  <2>1. \A n \in B : \E q \in BoundOf(f) : nv_replayed[q] = EntryAt(f, n).value
    BY DEF BlockInv, IsReplay, BoundOf
  <2>2. \A n \in B : h[n] \in BoundOf(f) /\ nv_replayed[h[n]] = EntryAt(f, n).value
    BY <2>1
  <2>3. h \in [B -> BoundOf(f)]
    BY <2>2
  <2> HIDE DEF h
  <2>4. \A n \in B : \A m \in B : n # m => h[n] # h[m]
    BY <1>6, <2>2
  <2> QED
    BY <1>4, <2>3, <2>4, NVConstants, AtMost
<1> QED
  BY <1>1, <1>2, <1>5, <1>7, <1>8

LEMMA NVStart == NV!Init => NVInv
<1> SUFFICES ASSUME NV!Init PROVE NVInv
  OBVIOUS
<1>1. NVTypes
  BY NVConstants DEF NV!Init, NVTypes
<1>2. \A f \in Fifo : Pending(f) = {} /\ 0 % Entries[f] = 0
  BY NVConstants DEF NV!Init, Pending
<1>3. CountInv
  BY <1>2, NVConstants DEF NV!Init, CountInv
<1>4. ValueInv /\ JobInv /\ BlockInv
  BY <1>2, NVConstants DEF NV!Init, ValueInv, JobInv, BlockInv, LastValue
<1>5. NV!CommandsIntact
  BY <1>2 DEF NV!CommandsIntact, Pending
<1> QED
  BY <1>1, <1>3, <1>4, <1>5 DEF NVInv

\* What the device has of a GPFIFO is what was put there and not taken.
LEMMA SeesEntries ==
  ASSUME CountInv, RoomInv, NVTypes, NEW f \in Fifo
  PROVE  NV!Sees(f) <=> taken[f] < nv_put[f]
<1> DEFINE e == Entries[f]
           p == nv_put[f]
           t == taken[f]
<1>1. e \in Nat \ {0} /\ p \in Nat /\ t \in Nat /\ t <= p /\ p - t < e /\ gpput[f] = p % e
  BY NVConstants DEF CountInv, RoomInv, NVTypes
<1>2. NV!Sees(f) <=> p % e # t % e
  BY <1>1 DEF NV!Sees
<1> HIDE DEF e, p, t
<1>3. t < p => t % e # p % e
  BY <1>1, ModDistinct
<1> QED
  BY <1>1, <1>2, <1>3 DEF p, t

\* When a value was submitted that is not signalled yet, some engine can run.
LEMMA EngineRuns ==
  ASSUME NVTypes, CountInv, RoomInv, ValueInv, nv_signal < LastValue
  PROVE  \E f \in Fifo : NV!Runnable(f)
<1>1. nv_signal \in Nat /\ LastValue \in Int
  BY DEF NVTypes, LastValue
<1>2. nv_signal + 1 \in (nv_signal + 1)..LastValue
  BY <1>1
<1>a. PICK f \in Fifo : \E n \in Pending(f) : EntryAt(f, n).value = nv_signal + 1
  BY <1>2 DEF ValueInv
<1>3. PICK n \in Pending(f) : EntryAt(f, n).value = nv_signal + 1
  BY <1>a
<1>4. taken[f] \in Nat /\ nv_put[f] \in Nat /\ taken[f] <= n /\ n < nv_put[f] /\ n \in Int
  BY DEF Pending, NVTypes
<1>5. taken[f] \in Pending(f)
  BY <1>4 DEF Pending
<1>6. n = taken[f]
  <2>1. /\ nv_signal < EntryAt(f, taken[f]).value /\ EntryAt(f, taken[f]).value \in Nat
        /\ taken[f] < n => EntryAt(f, taken[f]).value < EntryAt(f, n).value
    BY <1>5 DEF ValueInv, EntryType
  <2> QED
    BY <1>1, <1>3, <1>4, <2>1
<1>7. NV!Sees(f)
  BY <1>4, <1>6, SeesEntries
<1> QED
  BY <1>1, <1>3, <1>6, <1>7 DEF NV!Runnable, NV!Entry, EntryAt

\* Steps of the host that leave the GPFIFOs alone.
LEMMA HostKeeps ==
  ASSUME NVInv, LastValue' = LastValue,
         UNCHANGED <<nv_signal, cmdq, ring, gpput, nv_put, taken>>
  PROVE  CountInv' /\ ValueInv' /\ NV!CommandsIntact'
<1>1. /\ nv_signal' = nv_signal /\ cmdq' = cmdq /\ ring' = ring /\ gpput' = gpput
      /\ nv_put' = nv_put /\ taken' = taken /\ LastValue' = LastValue
  OBVIOUS
<1>2. CountInv'
  BY <1>1 DEF NVInv, CountInv
<1>3. ValueInv'
  BY <1>1 DEF NVInv, ValueInv, Pending, EntryAt
<1>4. NV!CommandsIntact'
  BY <1>1 DEF NVInv, NV!CommandsIntact, NV!Written
<1> QED
  BY <1>2, <1>3, <1>4

\* While the rings stand still the lists keep their place, if the memory they may lie in
\* still reaches over them and the bound queues still stand for theirs.
LEMMA BlockKeeps ==
  ASSUME NVInv, ring' = ring, nv_put' = nv_put, taken' = taken, ptr' <= CmdqSize,
         \A f \in Fifo : \A n \in Pending(f) :
           EntryAt(f, n).bound => \E b \in Bound : b.fifo = f /\ nv_replayed'[b] = EntryAt(f, n).value,
         \A f \in Fifo : \A n \in Pending(f) :
           ~EntryAt(f, n).bound => EntryAt(f, n).offset + EntryAt(f, n).size <= Top'
  PROVE  BlockInv'
<1>1. \A f \in Fifo : Pending(f)' = Pending(f)
  BY DEF Pending
<1>2. \A f \in Fifo : \A n \in Pending(f) : EntryAt(f, n)' = EntryAt(f, n)
  BY DEF EntryAt
<1>3. ASSUME NEW f \in Fifo, NEW n \in Pending(f), EntryAt(f, n).bound
      PROVE  \E b \in Bound : b.fifo = f /\ nv_replayed'[b] = EntryAt(f, n)'.value
  BY <1>2, <1>3
<1>4. ASSUME NEW f \in Fifo, NEW n \in Pending(f), ~EntryAt(f, n).bound
      PROVE  /\ \E q \in Lists : q.fifo = f /\ q.size = EntryAt(f, n)'.size
             /\ \E k \in Nat : EntryAt(f, n)'.offset = k * CmdqAlign
             /\ EntryAt(f, n)'.offset + EntryAt(f, n)'.size <= Top'
             /\ EntryAt(f, n)'.offset + EntryAt(f, n)'.size <= CmdqSize
  BY <1>2, <1>4 DEF NVInv, BlockInv, IsList
<1>5. ASSUME NEW f \in Fifo, NEW n \in Pending(f), ~EntryAt(f, n).bound,
             NEW g \in Fifo, NEW m \in Pending(g), ~EntryAt(g, m)'.bound,
             EntryAt(f, n)'.value < EntryAt(g, m)'.value
      PROVE  EntryAt(f, n)'.offset + EntryAt(f, n)'.size <= EntryAt(g, m)'.offset
  BY <1>2, <1>5 DEF NVInv, BlockInv
<1> QED
  BY <1>1, <1>2, <1>3, <1>4, <1>5 DEF BlockInv, IsReplay, IsList

\* Allocations of the command memory.
LEMMA Allocated ==
  ASSUME NEW p \in Nat, p <= CmdqSize, NEW size \in 1..CmdqSize
  PROVE  LET o == NV!BumpOffset(p, size, CmdqAlign, CmdqSize)
             w == NV!BumpWraps(p, size, CmdqAlign, CmdqSize)
         IN  /\ o \in Nat /\ o + size <= CmdqSize /\ w \in BOOLEAN /\ (~w => p <= o)
             /\ NV!BumpPtr(p, size, CmdqAlign, CmdqSize) = o + size
             /\ \E k \in Nat : o = k * CmdqAlign
<1>1. CmdqAlign \in Nat \ {0} /\ CmdqSize \in Nat
  BY NVConstants
<1>2. /\ NV!RoundUp(p, CmdqAlign) \in Nat /\ p <= NV!RoundUp(p, CmdqAlign)
      /\ \E k \in Nat : NV!RoundUp(p, CmdqAlign) = k * CmdqAlign
  BY <1>1, RoundedUp
<1>3. NV!RoundUp(0, CmdqAlign) = 0
  <2>1. /\ RoundUp(0, CmdqAlign) \in Nat /\ NV!RoundUp(0, CmdqAlign) = RoundUp(0, CmdqAlign)
        /\ \A j \in Nat : 0 <= j * CmdqAlign => RoundUp(0, CmdqAlign) <= j * CmdqAlign
    BY <1>1, RoundedUp
  <2>2. 0 * CmdqAlign = 0
    BY <1>1
  <2> QED
    BY <2>1, <2>2
<1>4. 0 = 0 * CmdqAlign
  BY <1>1
<1> QED
  BY <1>1, <1>2, <1>3, <1>4 DEF NV!BumpOffset, NV!BumpWraps, NV!BumpPtr

LEMMA NVExecKeeps ==
  ASSUME NVInv, NEW q \in Lists, NV!Exec(q)
  PROVE  NVInv'
<1>1. PICK o : o = NV!BumpOffset(ptr, q.size, CmdqAlign, CmdqSize)
  OBVIOUS
<1>2. PICK w : w = NV!BumpWraps(ptr, q.size, CmdqAlign, CmdqSize)
  OBVIOUS
<1>3. /\ host = "idle" /\ host' = "drain" /\ timeline_value' = timeline_value + 1
      /\ nv_job' = [fifo |-> q.fifo, size |-> q.size, bound |-> FALSE, offset |-> o, wrapped |-> w]
      /\ ptr' = NV!BumpPtr(ptr, q.size, CmdqAlign, CmdqSize)
      /\ nv_signal' = nv_signal /\ cmdq' = cmdq /\ ring' = ring /\ gpput' = gpput /\ nv_put' = nv_put
      /\ taken' = taken /\ nv_replayed' = nv_replayed
  BY <1>1, <1>2 DEF NV!Exec, NV!Wrapped, NV!ring_vars
<1>4. /\ NVTypes /\ ptr \in Nat /\ ptr <= CmdqSize /\ q.size \in 1..CmdqSize /\ q.size \in Nat /\ q.fifo \in Fifo
      /\ CmdqSize \in Nat
  BY NVConstants DEF NVInv, NVTypes, BlockInv
<1>5. /\ o \in Nat /\ o + q.size <= CmdqSize /\ w \in BOOLEAN /\ (~w => ptr <= o)
      /\ ptr' = o + q.size /\ \E k \in Nat : o = k * CmdqAlign
  BY <1>1, <1>2, <1>3, <1>4, Allocated
<1>6. NVTypes'
  BY <1>3, <1>4, <1>5, SMTT(20) DEF NVTypes
<1>7. LastValue' = LastValue
  BY <1>3, <1>4 DEF LastValue, NVTypes
<1>8. CountInv' /\ ValueInv' /\ NV!CommandsIntact'
  BY <1>3, <1>7, HostKeeps
<1>9. JobInv'
  BY <1>3, <1>4, <1>5 DEF JobInv, IsList
<1>10. Top' = (IF w THEN CmdqSize ELSE o) /\ Top = ptr
  BY <1>3, <1>5 DEF Top
<1>11. BlockInv'
  <2>1. ASSUME NEW x \in Nat, x <= Top, x <= CmdqSize PROVE x <= Top'
    BY <1>4, <1>5, <1>10, <2>1
  <2>2. \A f \in Fifo : \A n \in Pending(f) : EntryAt(f, n).offset \in Nat /\ EntryAt(f, n).size \in Nat
    BY DEF NVInv, ValueInv, EntryType
  <2>3. \A f \in Fifo : \A n \in Pending(f) :
          ~EntryAt(f, n).bound => EntryAt(f, n).offset + EntryAt(f, n).size <= Top'
    BY <2>1, <2>2 DEF NVInv, BlockInv
  <2>4. ptr' <= CmdqSize
    BY <1>5
  <2>5. \A f \in Fifo : \A n \in Pending(f) :
          EntryAt(f, n).bound => \E b \in Bound : b.fifo = f /\ nv_replayed'[b] = EntryAt(f, n).value
    BY <1>3 DEF NVInv, BlockInv, IsReplay
  <2> QED
    BY <1>3, <2>3, <2>4, <2>5, BlockKeeps
<1> QED
  BY <1>6, <1>8, <1>9, <1>11 DEF NVInv

LEMMA NVReplayKeeps ==
  ASSUME NVInv, NEW q \in Bound, NV!Replay(q)
  PROVE  NVInv'
<1>1. /\ host = "idle" /\ host' = "drain" /\ timeline_value' = timeline_value + 1
      /\ nv_signal >= nv_replayed[q] /\ nv_replayed' = [nv_replayed EXCEPT ![q] = timeline_value]
      /\ nv_job' = [NV!NoJob EXCEPT !.fifo = q.fifo, !.size = q.size]
      /\ nv_signal' = nv_signal /\ cmdq' = cmdq /\ ring' = ring /\ gpput' = gpput /\ nv_put' = nv_put
      /\ taken' = taken /\ ptr' = ptr
  BY DEF NV!Replay, NV!ring_vars
<1>2. /\ nv_job'.fifo = q.fifo /\ nv_job'.size = q.size /\ nv_job'.bound /\ nv_job'.bound \in BOOLEAN
      /\ nv_job'.offset = 0 /\ ~nv_job'.wrapped
  BY <1>1 DEF NV!NoJob
<1>3. NVTypes /\ q.size \in Nat /\ q.fifo \in Fifo
  BY NVConstants DEF NVInv
<1>4. NVTypes'
  BY <1>1, <1>3 DEF NVTypes
<1>5. LastValue' = LastValue
  BY <1>1, <1>3 DEF LastValue, NVTypes
<1>6. CountInv' /\ ValueInv' /\ NV!CommandsIntact'
  BY <1>1, <1>5, HostKeeps
<1>7. JobInv'
  BY <1>1, <1>2, <1>3 DEF JobInv, IsReplay, NVTypes
<1>8. Top' = ptr /\ Top = ptr
  BY <1>1, <1>2 DEF Top
<1>9. BlockInv'
  <2>1. ASSUME NEW f \in Fifo, NEW n \in Pending(f), EntryAt(f, n).bound
        PROVE  \E b \in Bound : b.fifo = f /\ nv_replayed'[b] = EntryAt(f, n).value
    <3>1. PICK b \in Bound : b.fifo = f /\ nv_replayed[b] = EntryAt(f, n).value
      BY <2>1 DEF NVInv, BlockInv, IsReplay
    <3>2. b # q
      BY <1>1, <1>3, <3>1 DEF NVInv, ValueInv, EntryType, NVTypes
    <3> QED
      BY <1>1, <3>1, <3>2
  <2>2. /\ ptr' <= CmdqSize
        /\ \A f \in Fifo : \A n \in Pending(f) :
             ~EntryAt(f, n).bound => EntryAt(f, n).offset + EntryAt(f, n).size <= Top'
    BY <1>1, <1>8 DEF NVInv, BlockInv
  <2> QED
    BY <1>1, <2>1, <2>2, BlockKeeps
<1> QED
  BY <1>4, <1>6, <1>7, <1>9 DEF NVInv

LEMMA NVSyncKeeps ==
  ASSUME NVInv, NV!Synchronize \/ NV!SyncReturn
  PROVE  NVInv'
<1>1. /\ host \in {"idle", "sync"} /\ host' \in {"idle", "sync"} /\ timeline_value' = timeline_value
      /\ nv_signal' = nv_signal /\ cmdq' = cmdq /\ ring' = ring /\ gpput' = gpput /\ nv_put' = nv_put
      /\ taken' = taken /\ ptr' = ptr /\ nv_job' = nv_job /\ nv_replayed' = nv_replayed
  BY DEF NV!Synchronize, NV!SyncReturn, NV!ring_vars
<1>2. LastValue' = LastValue /\ Top' = Top
  BY <1>1 DEF LastValue, Top
<1>3. CountInv' /\ ValueInv' /\ NV!CommandsIntact'
  BY <1>1, <1>2, HostKeeps
<1>4. NVTypes' /\ JobInv'
  BY <1>1 DEF NVInv, NVTypes, JobInv
<1>5. BlockInv'
  <2>1. /\ ptr' <= CmdqSize
        /\ \A f \in Fifo : \A n \in Pending(f) :
             ~EntryAt(f, n).bound => EntryAt(f, n).offset + EntryAt(f, n).size <= Top'
    BY <1>1, <1>2 DEF NVInv, BlockInv
  <2>2. \A f \in Fifo : \A n \in Pending(f) :
          EntryAt(f, n).bound => \E b \in Bound : b.fifo = f /\ nv_replayed'[b] = EntryAt(f, n).value
    BY <1>1 DEF NVInv, BlockInv, IsReplay
  <2> QED
    BY <1>1, <2>1, <2>2, BlockKeeps
<1> QED
  BY <1>3, <1>4, <1>5 DEF NVInv

LEMMA UpTo == \A a, b \in Nat : a <= b => a..b = (a..(b - 1)) \cup {b}
  OBVIOUS

LEMMA NVSubmitKeeps ==
  ASSUME NVInv, RoomInv, NV!Submit
  PROVE  NVInv'
<1>1. PICK F : F = nv_job.fifo
  OBVIOUS
<1>2. PICK N : N = nv_put[F]
  OBVIOUS
<1>3. PICK V : V = timeline_value - 1
  OBVIOUS
<1>4. PICK e : e = [at |-> N, value |-> V, bound |-> nv_job.bound, offset |-> nv_job.offset, size |-> nv_job.size]
  OBVIOUS
<1>5. /\ host = "drain" /\ NV!Drained /\ host' = "idle"
      /\ cmdq' = [i \in DOMAIN cmdq |-> IF i \in NV!Written(nv_job) THEN V ELSE cmdq[i]]
      /\ ring' = [ring EXCEPT ![F][N % Entries[F]] = e]
      /\ gpput' = [gpput EXCEPT ![F] = (N + 1) % Entries[F]] /\ nv_put' = [nv_put EXCEPT ![F] = N + 1]
      /\ timeline_value' = timeline_value /\ nv_signal' = nv_signal /\ ptr' = ptr /\ taken' = taken
      /\ nv_replayed' = nv_replayed
  BY <1>1, <1>2, <1>3, <1>4 DEF NV!Submit, NV!NextPut
<1>6. /\ NVTypes /\ CountInv /\ ValueInv /\ JobInv /\ BlockInv /\ NV!CommandsIntact
      /\ F \in Fifo /\ nv_job.bound \in BOOLEAN /\ nv_job.offset \in Nat /\ nv_job.size \in Nat
  BY <1>1, <1>5 DEF NVInv, JobInv
<1>7. /\ N \in Nat /\ V \in Nat \ {0} /\ timeline_value = V + 1 /\ nv_signal \in Nat
      /\ \A f \in Fifo : taken[f] \in Nat /\ nv_put[f] \in Nat /\ Entries[f] \in Nat \ {0}
      /\ \A f \in Fifo : taken[f] <= nv_put[f] /\ nv_put[f] - taken[f] < Entries[f]
  <2>1. timeline_value \in Nat /\ timeline_value > 1 /\ nv_signal \in Nat
    BY <1>5, <1>6 DEF NVTypes
  <2>2. \A f \in Fifo : taken[f] \in Nat /\ nv_put[f] \in Nat /\ Entries[f] \in Nat \ {0}
    BY <1>6, NVConstants DEF NVTypes
  <2>3. \A f \in Fifo : taken[f] <= nv_put[f] /\ nv_put[f] - taken[f] < Entries[f]
    BY <1>6 DEF CountInv, RoomInv
  <2> QED
    BY <1>2, <1>3, <1>6, <2>1, <2>2, <2>3
<1>8. e \in EntryType /\ e.at = N /\ e.value = V /\ e.bound = nv_job.bound /\ e.offset = nv_job.offset /\ e.size = nv_job.size
  BY <1>4, <1>6, <1>7 DEF EntryType
<1>9. LastValue = V - 1 /\ LastValue' = V
  BY <1>3, <1>5, <1>7 DEF LastValue
<1>10. /\ \A f \in Fifo : f # F => Pending(f)' = Pending(f)
       /\ Pending(F)' = Pending(F) \cup {N} /\ N \notin Pending(F)
       /\ \A f \in Fifo : Pending(f) \subseteq Nat
       /\ \A n \in Pending(F) : n < N /\ N - n < Entries[F]
  <2>1. \A f \in Fifo : Pending(f) = taken[f]..(nv_put[f] - 1) /\ Pending(f)' = taken[f]..(nv_put'[f] - 1)
    BY <1>5 DEF Pending
  <2>2. nv_put'[F] = N + 1 /\ \A f \in Fifo : f # F => nv_put'[f] = nv_put[f]
    BY <1>5, <1>6 DEF NVTypes
  <2>3. N = nv_put[F] /\ taken[F] \in Nat /\ taken[F] <= N /\ N - taken[F] < Entries[F] /\ Entries[F] \in Nat
    BY <1>2, <1>6, <1>7
  <2>4. taken[F]..N = (taken[F]..(N - 1)) \cup {N}
    <3>1. N \in Nat /\ taken[F] \in Nat /\ taken[F] <= N
      BY <1>7, <2>3
    <3>2. PICK T : T = taken[F]
      OBVIOUS
    <3>3. T..N = (T..(N - 1)) \cup {N}
      BY <3>1, <3>2, UpTo
    <3> QED
      BY <3>2, <3>3
  <2>5. Pending(F)' = Pending(F) \cup {N} /\ N \notin Pending(F)
    <3>1. Pending(F) = taken[F]..(nv_put[F] - 1) /\ Pending(F)' = taken[F]..(nv_put'[F] - 1)
      BY <1>6, <2>1
    <3>2. (N + 1) - 1 = N
      BY <1>7
    <3>3. Pending(F) = taken[F]..(N - 1) /\ Pending(F)' = taken[F]..N
      BY <2>2, <2>3, <3>1, <3>2
    <3>4. N \notin taken[F]..(N - 1)
      BY <1>7, <2>3
    <3> QED
      BY <2>4, <3>3, <3>4
  <2>6. \A n \in Pending(F) : n < N /\ N - n < Entries[F]
    BY <1>6, <1>7, <2>1, <2>3
  <2>7. \A f \in Fifo : Pending(f) \subseteq Nat
    BY <1>7, <2>1
  <2> QED
    BY <2>1, <2>2, <2>5, <2>6, <2>7
<1>11. \A f \in Fifo : \A n \in Pending(f) : n % Entries[f] \in 0..(Entries[f] - 1) /\ (f = F => n % Entries[f] # N % Entries[f])
  <2> TAKE f \in Fifo
  <2> TAKE n \in Pending(f)
  <2>1. n \in Nat /\ Entries[f] \in Nat \ {0}
    BY <1>7, <1>10
  <2>2. n % Entries[f] \in 0..(Entries[f] - 1)
    BY <2>1
  <2>3. ASSUME f = F PROVE n % Entries[f] # N % Entries[f]
    BY <1>7, <1>10, <2>1, <2>3, ModDistinct
  <2> QED
    BY <2>2, <2>3
<1>12. N % Entries[F] \in 0..(Entries[F] - 1)
  BY <1>6, <1>7
<1>13. \A f \in Fifo : \A n \in Pending(f) : EntryAt(f, n)' = EntryAt(f, n)
  BY <1>5, <1>6, <1>11, <1>12 DEF NVTypes, EntryAt
<1>14. EntryAt(F, N)' = e
  BY <1>5, <1>6, <1>12 DEF NVTypes, EntryAt
<1>15. \A f \in Fifo : \A n \in Pending(f) :
         /\ EntryAt(f, n) \in EntryType /\ EntryAt(f, n).at = n
         /\ nv_signal < EntryAt(f, n).value /\ EntryAt(f, n).value <= V - 1 /\ EntryAt(f, n).value \in Nat
         /\ EntryAt(f, n).offset \in Nat /\ EntryAt(f, n).size \in Nat
  BY <1>6, <1>9 DEF ValueInv, EntryType
<1>16. \A f \in Fifo : \A n \in Pending(f)' : n \in Pending(f) \/ (f = F /\ n = N)
  BY <1>10
<1>17. NVTypes'
  <2>1. DOMAIN ring' = Fifo /\ \A f \in Fifo : DOMAIN ring'[f] = 0..(Entries[f] - 1)
    BY <1>5, <1>6 DEF NVTypes
  <2>2. gpput' \in [Fifo -> Nat] /\ nv_put' \in [Fifo -> Nat]
    <3>1. PICK x : x = (N + 1) % Entries[F]
      OBVIOUS
    <3>2. x \in Nat /\ N + 1 \in Nat
      BY <1>6, <1>7, <3>1
    <3>3. gpput \in [Fifo -> Nat] /\ nv_put \in [Fifo -> Nat]
      BY <1>6 DEF NVTypes
    <3>4. gpput' = [gpput EXCEPT ![F] = x] /\ nv_put' = [nv_put EXCEPT ![F] = N + 1]
      BY <1>5, <3>1
    <3> QED
      BY <1>6, <3>2, <3>3, <3>4
  <2> QED
    BY <1>5, <1>6, <2>1, <2>2 DEF NVTypes
<1>18. CountInv'
  <2>1. /\ nv_put'[F] = N + 1 /\ gpput'[F] = (N + 1) % Entries[F]
        /\ \A f \in Fifo : f # F => nv_put'[f] = nv_put[f] /\ gpput'[f] = gpput[f]
    BY <1>5, <1>6 DEF NVTypes
  <2>2. taken[F] <= N + 1 /\ (N + 1) - taken[F] <= Entries[F]
    BY <1>2, <1>6, <1>7
  <2>3. \A f \in Fifo : /\ taken[f] <= nv_put[f] /\ nv_put[f] - taken[f] <= Entries[f]
                        /\ gpput[f] = nv_put[f] % Entries[f]
    BY <1>6 DEF CountInv
  <2>4. taken' = taken
    BY <1>5
  <2> QED
    BY <2>1, <2>2, <2>3, <2>4 DEF CountInv
<1>19. ValueInv'
  <2>1. nv_signal <= V
    BY <1>6, <1>7, <1>9 DEF ValueInv
  <2>2. ASSUME NEW f \in Fifo, NEW n \in Pending(f)'
        PROVE  /\ EntryAt(f, n)' \in EntryType /\ EntryAt(f, n)'.at = n
               /\ nv_signal < EntryAt(f, n)'.value /\ EntryAt(f, n)'.value <= V
               /\ \A m \in Pending(f)' : n < m => EntryAt(f, n)'.value < EntryAt(f, m)'.value
               /\ \A g \in Fifo : g # f => \A m \in Pending(g)' :
                    EntryAt(f, n)'.value # EntryAt(g, m)'.value
    <3>1. CASE n \in Pending(f)
      <4>1. /\ \A m \in Pending(f) : n < m => EntryAt(f, n).value < EntryAt(f, m).value
            /\ \A g \in Fifo : g # f => \A m \in Pending(g) : EntryAt(f, n).value # EntryAt(g, m).value
        BY <1>6, <3>1 DEF ValueInv
      <4>2. /\ EntryAt(f, n).value < V /\ EntryAt(f, n).value # V
        BY <1>7, <1>15, <3>1
      <4>3. EntryAt(f, n)' = EntryAt(f, n)
        BY <1>13, <3>1
      <4>4. ASSUME NEW m \in Pending(f)', n < m
            PROVE  EntryAt(f, n).value < EntryAt(f, m)'.value
        BY <1>8, <1>13, <1>14, <1>16, <4>1, <4>2, <4>4
      <4>5. ASSUME NEW g \in Fifo, g # f, NEW m \in Pending(g)'
            PROVE  EntryAt(f, n).value # EntryAt(g, m)'.value
        BY <1>8, <1>13, <1>14, <1>16, <4>1, <4>2, <4>5
      <4> QED
        BY <1>7, <1>15, <3>1, <4>2, <4>3, <4>4, <4>5
    <3>2. CASE f = F /\ n = N
      <4>1. EntryAt(f, n)' = e
        BY <1>14, <3>2
      <4>2. \A m \in Pending(f)' : ~(n < m)
        BY <1>7, <1>10, <3>2
      <4>3. ASSUME NEW g \in Fifo, g # f, NEW m \in Pending(g)' PROVE V # EntryAt(g, m)'.value
        <5>1. m \in Pending(g)
          BY <1>16, <3>2, <4>3
        <5> QED
          BY <1>7, <1>13, <1>15, <5>1
      <4>4. nv_signal < V
        BY <1>6, <1>7, <1>9 DEF ValueInv
      <4> QED
        BY <1>7, <1>8, <3>2, <4>1, <4>2, <4>3, <4>4
    <3> QED
      BY <1>16, <3>1, <3>2
  <2>3. ASSUME NEW v \in (nv_signal + 1)..V
        PROVE  \E f \in Fifo : \E n \in Pending(f)' : EntryAt(f, n)'.value = v
    <3>1. CASE v = V
      BY <1>6, <1>8, <1>10, <1>14, <3>1
    <3>2. CASE v # V
      <4>1. v \in (nv_signal + 1)..(V - 1)
        BY <1>7, <3>2
      <4>2. PICK f \in Fifo : \E n \in Pending(f) : EntryAt(f, n).value = v
        BY <1>6, <1>9, <4>1 DEF ValueInv
      <4> QED
        BY <1>10, <1>13, <4>2
    <3> QED
      BY <3>1, <3>2
  <2> QED
    BY <1>5, <1>9, <2>1, <2>2, <2>3 DEF ValueInv
<1>20. ~nv_job.bound => (nv_job.wrapped => \A f \in Fifo : Pending(f) = {})
  <2> SUFFICES ASSUME nv_job.wrapped, NEW f \in Fifo, NEW n \in Pending(f) PROVE FALSE
    OBVIOUS
  <2>1. nv_signal >= V - 1
    BY <1>5, <1>7 DEF NV!Drained
  <2> QED
    BY <1>7, <1>15, <2>1
<1>21. \A f \in Fifo : \A n \in Pending(f) : ~EntryAt(f, n).bound =>
         /\ EntryAt(f, n).offset + EntryAt(f, n).size <= ptr
         /\ ~nv_job.bound => EntryAt(f, n).offset + EntryAt(f, n).size <= nv_job.offset
  <2> TAKE f \in Fifo
  <2> TAKE n \in Pending(f)
  <2> HAVE ~EntryAt(f, n).bound
  <2>1. EntryAt(f, n).offset + EntryAt(f, n).size <= Top
    BY <1>6 DEF BlockInv
  <2>2. CASE nv_job.bound
    BY <1>5, <2>1, <2>2 DEF Top
  <2>3. CASE ~nv_job.bound
    <3>1. ~nv_job.wrapped
      BY <1>20, <2>3
    <3>2. Top = nv_job.offset /\ ptr = nv_job.offset + nv_job.size
      BY <1>5, <1>6, <2>3, <3>1 DEF Top, JobInv
    <3> QED
      BY <1>6, <1>15, <2>1, <3>2
  <2> QED
    BY <2>2, <2>3
<1>22. /\ e.bound => IsReplay(F, V)
       /\ ~e.bound => /\ IsList(F, e) /\ e.offset + e.size = ptr /\ e.offset + e.size <= CmdqSize
  BY <1>1, <1>3, <1>5, <1>6, <1>8 DEF JobInv, IsList
<1>23. JobInv'
  BY <1>5 DEF JobInv
<1>24. BlockInv'
  <2>1. ptr <= CmdqSize /\ ptr \in Nat
    BY <1>6 DEF BlockInv, NVTypes
  <2>2. Top' = ptr
    BY <1>5 DEF Top
  <2>3. ASSUME NEW f \in Fifo, NEW n \in Pending(f)', NEW x, x = EntryAt(f, n)'
        PROVE  /\ x.bound => IsReplay(f, x.value)
               /\ ~x.bound =>
                    /\ IsList(f, x) /\ x.offset + x.size <= ptr /\ x.offset + x.size <= CmdqSize
                    /\ \A g \in Fifo : \A m \in Pending(g)' :
                         LET y == EntryAt(g, m)' IN
                         ~y.bound /\ x.value < y.value => x.offset + x.size <= y.offset
    <3>1. CASE n \in Pending(f)
      <4>1. x = EntryAt(f, n)
        BY <1>13, <2>3, <3>1
      <4>2. /\ x.bound => IsReplay(f, x.value)
            /\ ~x.bound => IsList(f, x) /\ x.offset + x.size <= ptr /\ x.offset + x.size <= CmdqSize
        BY <1>6, <1>21, <3>1, <4>1 DEF BlockInv
      <4>3. ASSUME ~x.bound, NEW g \in Fifo, NEW m \in Pending(g)', NEW y, y = EntryAt(g, m)',
                   ~y.bound, x.value < y.value
            PROVE  x.offset + x.size <= y.offset
        <5>1. CASE m \in Pending(g)
          <6>1. y = EntryAt(g, m)
            BY <1>13, <4>3, <5>1
          <6> QED
            BY <1>6, <3>1, <4>1, <4>3, <5>1, <6>1 DEF BlockInv
        <5>2. CASE g = F /\ m = N
          <6>1. y = e
            BY <1>14, <4>3, <5>2
          <6> QED
            BY <1>8, <1>21, <3>1, <4>1, <4>3, <6>1
        <5> QED
          BY <1>16, <5>1, <5>2
      <4> QED
        BY <4>2, <4>3
    <3>2. CASE f = F /\ n = N
      <4>1. x = e
        BY <1>14, <2>3, <3>2
      <4>2. \A g \in Fifo : \A m \in Pending(g)' : ~(V < EntryAt(g, m)'.value)
        <5> TAKE g \in Fifo
        <5> TAKE m \in Pending(g)'
        <5> QED
          BY <1>7, <1>8, <1>13, <1>14, <1>15, <1>16
      <4> QED
        BY <1>8, <1>22, <2>1, <3>2, <4>1, <4>2
    <3> QED
      BY <1>16, <3>1, <3>2
  <2> QED
    BY <1>5, <2>1, <2>2, <2>3 DEF BlockInv, IsReplay, IsList
<1>25. NV!CommandsIntact'
  <2>1. ASSUME NEW f \in Fifo, NEW n \in Pending(f)', NEW x, x = EntryAt(f, n)', ~x.bound,
               NEW i \in x.offset..(x.offset + x.size - 1)
        PROVE  cmdq'[i] = x.value
    <3>1. CASE n \in Pending(f)
      <4>1. x = EntryAt(f, n) /\ x.offset \in Nat /\ x.size \in Nat /\ x.offset + x.size <= CmdqSize
        BY <1>6, <1>13, <1>15, <2>1, <3>1 DEF BlockInv
      <4>2. cmdq[i] = x.value
        BY <1>6, <2>1, <3>1, <4>1 DEF NV!CommandsIntact, NV!Written, EntryAt, Pending
      <4>3. i \in DOMAIN cmdq
        <5>1. i \in 0..(CmdqSize - 1)
          BY <2>1, <4>1, NVConstants
        <5> QED
          BY <1>6, <5>1 DEF NVTypes
      <4>4. i \notin NV!Written(nv_job)
        <5>1. CASE nv_job.bound
          BY <5>1 DEF NV!Written
        <5>2. CASE ~nv_job.bound
          <6>1. x.offset + x.size <= nv_job.offset
            BY <1>21, <2>1, <3>1, <4>1, <5>2
          <6>2. i < nv_job.offset
            BY <1>6, <4>1, <6>1
          <6> QED
            BY <1>6, <5>2, <6>2 DEF NV!Written
        <5> QED
          BY <5>1, <5>2
      <4> QED
        BY <1>5, <4>2, <4>3, <4>4
    <3>2. CASE f = F /\ n = N
      <4>1. x = e
        BY <1>14, <2>1, <3>2
      <4>2. e.offset + e.size <= CmdqSize /\ ~nv_job.bound /\ e.offset \in Nat /\ e.size \in Nat
        BY <1>6, <1>8, <1>22, <2>1, <4>1
      <4>3. i \in NV!Written(nv_job)
        BY <1>8, <4>1, <4>2 DEF NV!Written
      <4>4. i \in DOMAIN cmdq
        <5>1. i \in 0..(CmdqSize - 1)
          BY <2>1, <4>1, <4>2, NVConstants
        <5> QED
          BY <1>6, <5>1 DEF NVTypes
      <4> QED
        BY <1>5, <1>8, <4>1, <4>3, <4>4
    <3> QED
      BY <1>16, <2>1, <3>1, <3>2
  <2>2. \A f \in Fifo : \A n \in Pending(f)' : \A i \in NV!Written(EntryAt(f, n)') : cmdq'[i] = EntryAt(f, n)'.value
    BY <2>1 DEF NV!Written
  <2> QED
    BY <2>2 DEF NV!CommandsIntact, EntryAt, Pending
<1> QED
  BY <1>17, <1>18, <1>19, <1>23, <1>24, <1>25 DEF NVInv

LEMMA NVRunKeeps ==
  ASSUME NVInv, RoomInv, NEW f \in Fifo, NV!Run(f)
  PROVE  NVInv'
<1>1. PICK v : v = EntryAt(f, taken[f]).value
  OBVIOUS
<1>2. PICK t : t = taken[f]
  OBVIOUS
<1>3. /\ NVTypes /\ CountInv /\ ValueInv /\ JobInv /\ BlockInv /\ NV!CommandsIntact
  BY DEF NVInv
<1>4. /\ nv_signal' = v /\ taken' = [taken EXCEPT ![f] = t + 1] /\ nv_signal >= v - 1 /\ NV!Sees(f)
      /\ timeline_value' = timeline_value /\ host' = host /\ nv_job' = nv_job /\ ptr' = ptr /\ cmdq' = cmdq
      /\ ring' = ring /\ gpput' = gpput /\ nv_put' = nv_put /\ nv_replayed' = nv_replayed
  BY <1>1, <1>2 DEF NV!Run, NV!Runnable, NV!Entry, NV!ring_vars, EntryAt
<1>5. /\ t \in Nat /\ nv_put[f] \in Nat /\ t < nv_put[f]
      /\ \A g \in Fifo : taken[g] \in Nat /\ nv_put[g] \in Nat
  BY <1>2, <1>3, <1>4, SeesEntries DEF NVTypes
<1>6. t \in Pending(f)
  BY <1>2, <1>5 DEF Pending
<1>7. v \in Nat /\ nv_signal \in Nat /\ v = nv_signal + 1 /\ v <= LastValue
  <2>1. EntryAt(f, t) \in EntryType /\ nv_signal < EntryAt(f, t).value /\ EntryAt(f, t).value <= LastValue
    BY <1>3, <1>6 DEF ValueInv
  <2>2. v = EntryAt(f, t).value /\ v \in Nat /\ nv_signal \in Nat
    BY <1>1, <1>2, <1>3, <2>1 DEF EntryType, NVTypes
  <2> QED
    BY <1>4, <2>1, <2>2
<1>8. /\ \A g \in Fifo : Pending(g)' \subseteq Pending(g)
      /\ \A g \in Fifo : g # f => Pending(g)' = Pending(g)
      /\ \A n \in Pending(f) : n # t => n \in Pending(f)'
      /\ \A n \in Pending(f)' : n # t /\ t < n
  BY <1>2, <1>3, <1>4, <1>5 DEF Pending, NVTypes
<1>9. LastValue' = LastValue /\ Top' = Top /\ \A g \in Fifo, n \in Int : EntryAt(g, n)' = EntryAt(g, n)
  BY <1>4 DEF LastValue, Top, EntryAt
<1>10. NVTypes'
  BY <1>3, <1>4, <1>5, <1>7 DEF NVTypes
<1>11. CountInv'
  <2>1. ASSUME NEW g \in Fifo
        PROVE  /\ taken'[g] <= nv_put[g] /\ nv_put[g] - taken'[g] <= Entries[g] /\ gpput[g] = nv_put[g] % Entries[g]
    <3>1. Entries[g] \in Nat /\ taken[g] \in Nat /\ nv_put[g] \in Nat
      BY <1>5, NVConstants
    <3>2. taken'[g] = IF g = f THEN t + 1 ELSE taken[g]
      BY <1>3, <1>4 DEF NVTypes
    <3> QED
      BY <1>2, <1>3, <1>5, <3>1, <3>2 DEF CountInv
  <2> QED
    BY <1>4, <2>1 DEF CountInv
<1>12. ASSUME NEW g \in Fifo, NEW n \in Pending(g)' PROVE v < EntryAt(g, n).value
  <2>1. EntryAt(g, n).value \in Nat /\ nv_signal < EntryAt(g, n).value
    BY <1>3, <1>8 DEF ValueInv, EntryType
  <2>2. EntryAt(g, n).value # v
    <3>1. CASE g = f
      <4>1. t < n /\ n \in Pending(f)
        BY <1>8, <3>1
      <4>2. EntryAt(f, t).value < EntryAt(f, n).value
        BY <1>3, <1>6, <4>1 DEF ValueInv
      <4> QED
        BY <1>1, <1>2, <1>7, <2>1, <3>1, <4>2
    <3>2. CASE g # f
      BY <1>1, <1>2, <1>3, <1>6, <1>8, <3>2 DEF ValueInv
    <3> QED
      BY <3>1, <3>2
  <2> QED
    BY <1>7, <2>1, <2>2
<1>13. ValueInv'
  <2>1. ASSUME NEW x \in (v + 1)..LastValue
        PROVE  \E g \in Fifo : \E n \in Pending(g)' : EntryAt(g, n).value = x
    <3>1. x \in (nv_signal + 1)..LastValue /\ x # v
      BY <1>7
    <3>2. PICK g \in Fifo : \E n \in Pending(g) : EntryAt(g, n).value = x
      BY <1>3, <3>1 DEF ValueInv
    <3>3. PICK n \in Pending(g) : EntryAt(g, n).value = x
      BY <3>2
    <3>4. ~(g = f /\ n = t)
      BY <1>1, <1>2, <3>1, <3>3
    <3> QED
      BY <1>8, <3>3, <3>4
  <2>2. v <= LastValue
    BY <1>7
  <2>3. ASSUME NEW g \in Fifo, NEW n \in Pending(g)'
        PROVE  /\ EntryAt(g, n) \in EntryType /\ EntryAt(g, n).at = n
               /\ EntryAt(g, n).value <= LastValue
               /\ \A m \in Pending(g)' : n < m => EntryAt(g, n).value < EntryAt(g, m).value
               /\ \A h \in Fifo : h # g => \A m \in Pending(h)' : EntryAt(g, n).value # EntryAt(h, m).value
    BY <1>3, <1>8 DEF ValueInv
  <2> QED
    BY <1>4, <1>9, <1>12, <2>1, <2>2, <2>3 DEF ValueInv, EntryAt
<1>14. JobInv' /\ BlockInv'
  <2>1. JobInv'
    BY <1>3, <1>4 DEF JobInv, IsReplay, IsList
  <2>2. ptr' <= CmdqSize /\ \A g \in Fifo : \A n \in Pending(g)' : n \in Pending(g) /\ EntryAt(g, n)' = EntryAt(g, n)
    BY <1>3, <1>4, <1>8 DEF BlockInv, EntryAt
  <2>3. ASSUME NEW g \in Fifo, NEW n \in Pending(g)', EntryAt(g, n)'.bound
        PROVE  \E b \in Bound : b.fifo = g /\ nv_replayed'[b] = EntryAt(g, n)'.value
    BY <1>3, <1>4, <2>2, <2>3 DEF BlockInv, IsReplay
  <2>4. ASSUME NEW g \in Fifo, NEW n \in Pending(g)', ~EntryAt(g, n)'.bound
        PROVE  /\ \E q \in Lists : q.fifo = g /\ q.size = EntryAt(g, n)'.size
               /\ \E k \in Nat : EntryAt(g, n)'.offset = k * CmdqAlign
               /\ EntryAt(g, n)'.offset + EntryAt(g, n)'.size <= Top'
               /\ EntryAt(g, n)'.offset + EntryAt(g, n)'.size <= CmdqSize
    BY <1>3, <1>9, <2>2, <2>4 DEF BlockInv, IsList
  <2>5. ASSUME NEW g \in Fifo, NEW n \in Pending(g)', ~EntryAt(g, n)'.bound,
               NEW h \in Fifo, NEW m \in Pending(h)', ~EntryAt(h, m)'.bound,
               EntryAt(g, n)'.value < EntryAt(h, m)'.value
        PROVE  EntryAt(g, n)'.offset + EntryAt(g, n)'.size <= EntryAt(h, m)'.offset
    BY <1>3, <2>2, <2>5 DEF BlockInv
  <2>6. BlockInv'
    BY <2>2, <2>3, <2>4, <2>5 DEF BlockInv, IsReplay, IsList
  <2> QED
    BY <2>1, <2>6
<1>15. NV!CommandsIntact'
  BY <1>3, <1>4, <1>8 DEF NV!CommandsIntact, NV!Written, Pending
<1> QED
  BY <1>10, <1>11, <1>13, <1>14, <1>15 DEF NVInv

LEMMA NVSpec == MCSpec => NV!Init /\ [][NV!Next]_nv_vars
<1>1. MCInit => NV!Init
  BY DEF MCInit
<1>2. [MCNext]_<<part, vars, nv_vars, graph_vars>> => [NV!Next]_nv_vars
  BY DEF MCNext
<1> QED
  BY <1>1, <1>2, PTL DEF MCSpec

LEMMA NVInvariant == MCSpec => [](NVInv /\ RoomInv)
<1>1. NVInv => RoomInv
  BY RoomIsLeft DEF NVInv
<1>2. NVInv /\ RoomInv /\ [NV!Next]_nv_vars => NVInv'
  <2>1. ASSUME NVInv, UNCHANGED nv_vars PROVE NVInv'
    <3>1. /\ timeline_value' = timeline_value /\ host' = host /\ nv_signal' = nv_signal /\ ring' = ring
          /\ cmdq' = cmdq /\ gpput' = gpput /\ nv_put' = nv_put /\ taken' = taken /\ ptr' = ptr
          /\ nv_job' = nv_job /\ nv_replayed' = nv_replayed
      BY <2>1 DEF nv_vars
    <3>2. LastValue' = LastValue /\ Top' = Top
      BY <3>1 DEF LastValue, Top
    <3>3. CountInv' /\ ValueInv' /\ NV!CommandsIntact'
      BY <2>1, <3>1, <3>2, HostKeeps
    <3>4. NVTypes' /\ JobInv'
      BY <2>1, <3>1 DEF NVInv, NVTypes, JobInv, IsReplay, IsList
    <3>5. /\ ptr' <= CmdqSize
          /\ \A f \in Fifo : \A n \in Pending(f) :
               ~EntryAt(f, n).bound => EntryAt(f, n).offset + EntryAt(f, n).size <= Top'
      BY <2>1, <3>1, <3>2 DEF NVInv, BlockInv
    <3>6. \A f \in Fifo : \A n \in Pending(f) :
            EntryAt(f, n).bound => \E b \in Bound : b.fifo = f /\ nv_replayed'[b] = EntryAt(f, n).value
      BY <2>1, <3>1 DEF NVInv, BlockInv, IsReplay
    <3>7. BlockInv'
      BY <2>1, <3>1, <3>5, <3>6, BlockKeeps
    <3> QED
      BY <3>3, <3>4, <3>7 DEF NVInv
  <2>2. ASSUME NVInv, RoomInv, NV!Next PROVE NVInv'
    BY <2>2, NVExecKeeps, NVReplayKeeps, NVSyncKeeps, NVSubmitKeeps, NVRunKeeps DEF NV!Next
  <2> QED
    BY <2>1, <2>2
<1> QED
  BY <1>1, <1>2, NVStart, NVSpec, PTL

\* NVQueues' EntriesIntact: an entry that is yet to be taken is never written over, and the
\* engine sees one exactly when there is one, although the code checks neither.
THEOREM NVEntriesStay == MCSpec => []NV!EntriesIntact
<1>1. NVInv /\ RoomInv => NV!EntriesIntact
  <2> SUFFICES ASSUME NVInv, RoomInv, NEW f \in Fifo
               PROVE  /\ \A n \in Pending(f) : EntryAt(f, n).at = n
                      /\ NV!Sees(f) <=> taken[f] < nv_put[f]
    BY DEF NV!EntriesIntact, Pending, EntryAt
  <2> QED
    BY SeesEntries DEF NVInv, ValueInv
<1> QED
  BY <1>1, NVInvariant, PTL

\* NVQueues' CommandsIntact: the commands of an entry stay in the command memory until they
\* have run, whichever engine they are for.
THEOREM NVCommandsStay == MCSpec => []NV!CommandsIntact
<1>1. NVInv => NV!CommandsIntact
  BY DEF NVInv
<1> QED
  BY <1>1, NVInvariant, PTL

\* NVQueues' NeverStuck: whenever the host waits or an entry is left, an engine can run.
THEOREM NVGoesOn == MCSpec => []NV!NeverStuck
<1>1. NVInv /\ RoomInv => NV!NeverStuck
  <2> SUFFICES ASSUME NVInv, RoomInv,
                      \/ host = "sync" /\ nv_signal < timeline_value - 1
                      \/ host = "drain" /\ ~NV!Drained
                      \/ nv_put # taken
               PROVE  \E f \in Fifo : NV!Runnable(f)
    BY DEF NV!NeverStuck
  <2>1. NVTypes /\ CountInv /\ ValueInv
    BY DEF NVInv
  <2>2. nv_signal < LastValue
    <3>1. CASE host = "sync" /\ nv_signal < timeline_value - 1
      BY <3>1 DEF LastValue
    <3>2. CASE host = "drain" /\ ~NV!Drained
      BY <2>1, <3>2 DEF LastValue, NV!Drained, NVTypes
    <3>3. CASE nv_put # taken
      <4>1. PICK f \in Fifo : nv_put[f] # taken[f]
        BY <2>1, <3>3 DEF NVTypes
      <4>2. taken[f] \in Pending(f)
        BY <2>1, <4>1 DEF NVTypes, CountInv, Pending
      <4>3. /\ nv_signal < EntryAt(f, taken[f]).value /\ EntryAt(f, taken[f]).value <= LastValue
            /\ EntryAt(f, taken[f]).value \in Nat
        BY <2>1, <4>2 DEF ValueInv, EntryType
      <4> QED
        BY <2>1, <4>3 DEF NVTypes, LastValue
    <3> QED
      BY <3>1, <3>2, <3>3
  <2> QED
    BY <2>1, <2>2, EngineRuns
<1> QED
  BY <1>1, NVInvariant, PTL
-----------------------------------------------------------------------------
(* Least and greatest numbers, and where a member of a set stands in it. *)

LEMMA LeastNat ==
  ASSUME NEW T \in SUBSET Nat, T # {}
  PROVE  \E x \in T : \A y \in T : x <= y
<1>1. PICK R : R = {ss \in Nat \X Nat : ss[1] < ss[2]}
  OBVIOUS
<1>2. IsWellFoundedOn(R, Nat)
  BY <1>1, NatLessThanWellFounded, Zenon DEF OpToRel
<1>3. PICK x \in T : \A y \in T : <<y, x>> \notin R
  BY <1>2, WFMin
<1>4. ASSUME NEW y \in T PROVE x <= y
  <2>1. <<y, x>> \notin R /\ <<y, x>> \in Nat \X Nat /\ <<y, x>>[1] = y /\ <<y, x>>[2] = x
    BY <1>3
  <2>2. ~(y < x)
    BY <1>1, <2>1
  <2>3. x \in Nat /\ y \in Nat
    OBVIOUS
  <2> QED
    BY <2>2, <2>3
<1> QED
  BY <1>4

LEMMA MinOf ==
  ASSUME NEW T \in SUBSET Nat, T # {}
  PROVE  Min(T) \in T /\ \A y \in T : Min(T) <= y
<1>1. \E x \in T : \A y \in T : x =< y
  BY LeastNat
<1> QED
  BY <1>1, Zenon DEF Min

LEMMA MaxOf ==
  ASSUME NEW n \in Nat, NEW T \in SUBSET 0..n, T # {}
  PROVE  Max(T) \in T /\ \A y \in T : Max(T) >= y
<1>1. PICK U : U = {i \in 0..n : n - i \in T}
  OBVIOUS
<1>2. \A t \in T : n - t \in U
  BY <1>1
<1>3. U \in SUBSET Nat /\ U # {}
  <2>1. PICK t \in T : TRUE
    OBVIOUS
  <2>2. n - t \in U
    BY <1>2, <2>1
  <2> QED
    BY <1>1, <2>2
<1>4. PICK x \in U : \A y \in U : x <= y
  BY <1>3, LeastNat
<1>5. n - x \in T /\ \A y \in T : n - x >= y
  BY <1>1, <1>2, <1>4
<1>6. \E z \in T : \A y \in T : z >= y
  BY <1>5
<1> QED
  BY <1>6, Zenon DEF Max

\* How many members of a set come before a number: those before its members count up from 0.
LEMMA Ranks ==
  ASSUME NEW n \in Nat, NEW S \in SUBSET 1..n
  PROVE  LET rank(i) == Cardinality({j \in S : j < i})
         IN  /\ IsFiniteSet(S) /\ Cardinality(S) \in Nat
             /\ \A i \in S : rank(i) \in 0..(Cardinality(S) - 1)
             /\ \A i \in S : \A j \in S : i < j => rank(i) < rank(j)
             /\ \A r \in 0..(Cardinality(S) - 1) : \E i \in S : rank(i) = r
<1> DEFINE B(i) == {j \in S : j < i}
           k == Cardinality(S)
           f == [i \in S |-> Cardinality(B(i))]
           T == 0..(k - 1)
<1>1. IsFiniteSet(1..n)
  BY FS_Interval
<1>2. IsFiniteSet(S) /\ k \in Nat
  BY <1>1, FS_Subset, FS_CardinalityType
<1>3. \A i \in S : IsFiniteSet(B(i)) /\ Cardinality(B(i)) \in Nat
  BY <1>2, FS_Subset, FS_CardinalityType
<1> HIDE DEF k
<1>4. ASSUME NEW i \in S, NEW j \in S, i < j PROVE Cardinality(B(i)) < Cardinality(B(j))
  <2>1. B(i) \subseteq B(j) /\ i \in B(j) /\ i \notin B(i)
    <3>1. \A x \in S : x \in Int
      OBVIOUS
    <3>2. B(i) \subseteq B(j)
      <4>1. ASSUME NEW x \in S, x < i PROVE x < j
        BY <1>4, <3>1, <4>1
      <4> QED
        BY <4>1
    <3>3. i \in B(j)
      BY <1>4
    <3>4. i \notin B(i)
      BY <3>1
    <3> QED
      BY <3>2, <3>3, <3>4
  <2> HIDE DEF B
  <2>2. /\ Cardinality(B(i)) <= Cardinality(B(j))
        /\ Cardinality(B(j)) = Cardinality(B(i)) => B(j) = B(i)
    BY <1>3, <2>1, FS_Subset
  <2> QED
    BY <1>3, <2>1, <2>2
<1>5. ASSUME NEW i \in S PROVE Cardinality(B(i)) \in T
  <2>1. B(i) \subseteq S /\ i \notin B(i)
    OBVIOUS
  <2> HIDE DEF B
  <2>2. /\ Cardinality(B(i)) <= k /\ (k = Cardinality(B(i)) => S = B(i))
    BY <1>2, <2>1, FS_Subset DEF k
  <2> QED
    BY <1>2, <1>3, <2>1, <2>2
<1>6. \A r \in T : \E i \in S : Cardinality(B(i)) = r
  <2>1. f \in [S -> T]
    BY <1>5
  <2>2. \A i \in S : \A j \in S : i # j => f[i] # f[j]
    <3> TAKE i \in S
    <3> TAKE j \in S
    <3> HAVE i # j
    <3>1. f[i] = Cardinality(B(i)) /\ f[j] = Cardinality(B(j))
      OBVIOUS
    <3>2. i < j \/ j < i
      OBVIOUS
    <3>3. Cardinality(B(i)) < Cardinality(B(j)) \/ Cardinality(B(j)) < Cardinality(B(i))
      BY <1>4, <3>2
    <3> QED
      BY <1>3, <3>1, <3>3
  <2>3. IsFiniteSet(T) /\ Cardinality(T) = k
    BY <1>2, FS_Interval
  <2> HIDE DEF f, T
  <2>4. f \in Injection(S, T)
    BY <2>1, <2>2 DEF Injection, IsInjective
  <2>5. f \in Surjection(S, T)
    BY <1>2, <2>3, <2>4, FS_Injection DEF k
  <2>6. \A r \in T : \E i \in S : f[i] = r
    BY <2>5 DEF Surjection
  <2> QED
    BY <2>6 DEF f
<1> QED
  BY <1>2, <1>4, <1>5, <1>6 DEF k

-----------------------------------------------------------------------------
(* The packets and commands of an AMD device. *)

\* The queues that are made packets of.
IsQueue(q) == q \in Seq({"pm4", "dispatch"}) /\ Len(q) \in Nat \ {0}

LEMMA AMDConstants ==
  /\ IBCap \in Nat \ {0} /\ IBAlign \in Nat \ {0} /\ AqlSlots \in Nat \ {0} /\ SdmaSize \in Nat \ {0}
  /\ \A q \in Programs \cup Graphs \cup {Flush} : IsQueue(q) /\ Cardinality(Starts(q)) < AqlSlots
  /\ \A q \in Programs \cup {Flush} : Len(q) <= IBCap
  /\ \A q \in Copies : q \in Seq(Nat \ {0}) /\ Len(q) >= 2 /\ 2 * Sum(q)[Len(q)] <= SdmaSize
<1>1. \A q \in Programs \cup Graphs : IsQueue(q)
  BY SizeAssumption DEF SizeAssumption, IsQueue
<1>2. IsQueue(Flush)
  BY DEF Flush, IsQueue
<1> QED
  BY <1>1, <1>2, SizeAssumption, CopyAssumption DEF SizeAssumption, CopyAssumption

LEMMA StartsOf ==
  ASSUME NEW q, IsQueue(q)
  PROVE  Starts(q) \in SUBSET 1..Len(q) /\ 1 \in Starts(q) /\ Len(q) \in Nat
BY DEF Starts, IsQueue

\* A packet ends before the next begins, and the last with the queue.
LEMMA Ends ==
  ASSUME NEW q, IsQueue(q), NEW i \in Starts(q)
  PROVE  /\ EndOf(q, i) \in i..Len(q)
         /\ \A j \in Starts(q) : i < j => EndOf(q, i) < j
         /\ (\A j \in Starts(q) : j <= i) => EndOf(q, i) = Len(q)
<1> DEFINE M == {e \in DOMAIN q : e >= i /\ (e = Len(q) \/ e + 1 \in Starts(q))}
<1>1. Len(q) \in Nat /\ DOMAIN q = 1..Len(q) /\ Starts(q) \in SUBSET 1..Len(q) /\ i \in 1..Len(q)
  BY StartsOf DEF IsQueue
<1>2. M \in SUBSET Nat /\ Len(q) \in M
  BY <1>1
<1>3. Min(M) \in M /\ \A y \in M : Min(M) <= y
  BY <1>2, MinOf
<1>4. EndOf(q, i) = Min(M)
  BY DEF EndOf
<1>5. ASSUME NEW j \in Starts(q), i < j PROVE EndOf(q, i) < j
  <2>1. j - 1 \in M
    BY <1>1, <1>5
  <2> QED
    <3>1. PICK m \in Nat : m = Min(M)
      BY <1>2, <1>3
    <3>2. m <= j - 1 /\ EndOf(q, i) = m /\ j \in Int
      BY <1>1, <1>3, <1>4, <2>1, <3>1
    <3> QED
      BY <3>2
<1>6. ASSUME \A j \in Starts(q) : j <= i PROVE EndOf(q, i) = Len(q)
  <2>1. Min(M) + 1 \notin Starts(q)
    BY <1>1, <1>3, <1>6
  <2> QED
    BY <1>3, <1>4, <2>1
<1> QED
  BY <1>1, <1>3, <1>4, <1>5, <1>6

PacketType == [at : Int, value : Nat, fetches : SUBSET Int, waits : BOOLEAN, signals : BOOLEAN]

\* The command memory of a submission.
Fetched(j) == IF j.bound THEN {} ELSE j.offset..(j.offset + Len(j.queue) - 1)

\* Commands of one submission, written from one count to another: the first waits if any
\* has to, the last signals.
Submission(N, v, waits, from, to) ==
  /\ \A c \in N : /\ c.value = v /\ c.at \in from..to
                  /\ c.signals => \A d \in N : d.at <= c.at
                  /\ c.waits \/ ~waits \/ \E d \in N : d.at < c.at
  /\ \A c \in N : \A d \in N : c.at = d.at => c = d
  /\ \E c \in N : c.signals

\* The packets of a submission: as many as the queue has, one after the other; the first
\* waits and the last signals.
LEMMA Prepared ==
  ASSUME NEW j, IsQueue(j.queue), j.value \in Nat, j.bound \in BOOLEAN, j.waits \in BOOLEAN, j.offset \in Nat,
         NEW P, P = put["aql"], P \in Nat, NEW k, k = Cardinality(Starts(j.queue))
  PROVE  /\ k \in Nat \ {0} /\ Cardinality(PrepAql(j)) = k
         /\ Submission(PrepAql(j), j.value, j.waits, P, P + k - 1)
         /\ \A p \in PrepAql(j) : p \in PacketType /\ p.fetches \subseteq Fetched(j)
         /\ \A n \in P..(P + k - 1) : \E p \in PrepAql(j) : p.at = n
<1>1. PICK q : q = j.queue
  OBVIOUS
<1>2. PICK S : S = Starts(q)
  OBVIOUS
<1>3. IsQueue(q) /\ S \in SUBSET 1..Len(q) /\ 1 \in S /\ Len(q) \in Nat /\ k = Cardinality(S)
  BY <1>1, <1>2, StartsOf
<1> DEFINE rank(i) == Cardinality({x \in S : x < i})
<1>4. /\ IsFiniteSet(S) /\ k \in Nat
      /\ \A i \in S : rank(i) \in 0..(k - 1)
      /\ \A i \in S : \A x \in S : i < x => rank(i) < rank(x)
      /\ \A r \in 0..(k - 1) : \E i \in S : rank(i) = r
  <2>1. S \in SUBSET 1..Len(q) /\ Len(q) \in Nat
    BY <1>3
  <2>2. /\ IsFiniteSet(S) /\ Cardinality(S) \in Nat
        /\ \A i \in S : rank(i) \in 0..(Cardinality(S) - 1)
        /\ \A i \in S : \A x \in S : i < x => rank(i) < rank(x)
        /\ \A r \in 0..(Cardinality(S) - 1) : \E i \in S : rank(i) = r
    BY <2>1, Ranks
  <2> HIDE DEF rank
  <2> QED
    BY <1>3, <2>2
<1>5. \A i \in S : /\ EndOf(q, i) \in i..Len(q)
                   /\ \A x \in S : i < x => EndOf(q, i) < x
                   /\ (\A x \in S : x <= i) => EndOf(q, i) = Len(q)
  BY <1>2, <1>3, Ends
<1>6. \A i \in S :
        /\ Packet(j, i).at = P + rank(i) /\ Packet(j, i).value = j.value
        /\ Packet(j, i).fetches = (IF j.bound \/ q[i] = "dispatch" THEN {}
                                   ELSE j.offset + i - 1 .. j.offset + EndOf(q, i) - 1)
        /\ Packet(j, i).waits = (j.waits /\ i = 1) /\ Packet(j, i).signals = (EndOf(q, i) = Len(q))
        /\ Packet(j, i) = [at |-> Packet(j, i).at, value |-> Packet(j, i).value, fetches |-> Packet(j, i).fetches,
                           waits |-> Packet(j, i).waits, signals |-> Packet(j, i).signals]
  BY <1>1, <1>2 DEF Packet
<1>7. PrepAql(j) = {Packet(j, i) : i \in S}
  BY <1>1, <1>2 DEF PrepAql
<1> HIDE DEF rank
<1>9. \A i \in S : i \in Int /\ 1 <= i /\ i <= Len(q)
  BY <1>3
<1>8. \A i \in S : \A x \in S : i # x => rank(i) # rank(x)
  <2> TAKE i \in S
  <2> TAKE x \in S
  <2> HAVE i # x
  <2>1. i < x \/ x < i
    BY <1>9
  <2>2. rank(i) < rank(x) \/ rank(x) < rank(i)
    BY <1>4, <2>1
  <2>3. rank(i) \in Int /\ rank(x) \in Int
    BY <1>4
  <2> QED
    BY <2>2, <2>3
<1>10. ASSUME NEW i \in S
       PROVE  /\ Packet(j, i) \in PacketType /\ Packet(j, i).at \in P..(P + k - 1)
              /\ Packet(j, i).fetches \subseteq Fetched(j)
              /\ Packet(j, i).signals => \A x \in S : Packet(j, x).at <= Packet(j, i).at
              /\ Packet(j, i).waits \/ ~j.waits \/ \E x \in S : Packet(j, x).at < Packet(j, i).at
  <2>1. Packet(j, i).at \in P..(P + k - 1)
    BY <1>4, <1>6
  <2>2. /\ Packet(j, i).fetches \subseteq Fetched(j)
        /\ Packet(j, i).fetches \subseteq Int
    <3>1. PICK a \in Int : a = j.offset
      OBVIOUS
    <3>2. PICK e \in Int : e = EndOf(q, i) /\ e <= Len(q)
      BY <1>3, <1>5, <1>9
    <3>3. PICK F : F = Packet(j, i).fetches
      OBVIOUS
    <3>4. (a + i - 1)..(a + e - 1) \subseteq a..(a + Len(q) - 1) /\ (a + i - 1)..(a + e - 1) \subseteq Int
      BY <1>3, <1>9, <3>1, <3>2, SMTT(20)
    <3>5. F = {} \/ (~j.bound /\ F = (a + i - 1)..(a + e - 1))
      BY <1>6, <3>1, <3>2, <3>3
    <3> QED
      BY <1>1, <3>1, <3>3, <3>4, <3>5 DEF Fetched
  <2>3. Packet(j, i) \in PacketType
    <3>1. Packet(j, i).at \in Int
      BY <2>1
    <3>2. Packet(j, i).waits \in BOOLEAN /\ Packet(j, i).signals \in BOOLEAN /\ Packet(j, i).value \in Nat
      BY <1>6
    <3> QED
      BY <1>6, <2>2, <3>1, <3>2 DEF PacketType
  <2>4. ASSUME Packet(j, i).signals, NEW x \in S PROVE Packet(j, x).at <= Packet(j, i).at
    <3>1. ~(i < x)
      <4>1. EndOf(q, i) = Len(q)
        BY <1>6, <2>4
      <4>2. i < x => EndOf(q, i) < x
        BY <1>5
      <4> QED
        BY <1>3, <1>9, <4>1, <4>2
    <3>2. x = i \/ x < i
      BY <1>9, <3>1
    <3> QED
      BY <1>4, <1>6, <3>2
  <2>5. Packet(j, i).waits \/ ~j.waits \/ \E x \in S : Packet(j, x).at < Packet(j, i).at
    <3>1. CASE i = 1
      BY <1>6, <3>1
    <3>2. CASE i # 1
      <4>1. 1 < i
        BY <1>9, <3>2
      <4>2. Packet(j, 1).at < Packet(j, i).at
        BY <1>3, <1>4, <1>6, <4>1
      <4> QED
        BY <1>3, <4>2
    <3> QED
      BY <3>1, <3>2
  <2> QED
    BY <2>1, <2>2, <2>3, <2>4, <2>5
<1>11. \A i \in S : \A x \in S : Packet(j, i).at = Packet(j, x).at => i = x
  BY <1>4, <1>6, <1>8
<1>12. \A n \in P..(P + k - 1) : \E i \in S : Packet(j, i).at = n
  <2> TAKE n \in P..(P + k - 1)
  <2>1. n - P \in 0..(k - 1)
    BY <1>4
  <2>2. PICK i \in S : rank(i) = n - P
    BY <1>4, <2>1
  <2> QED
    BY <1>6, <2>2
<1>13. \E i \in S : Packet(j, i).signals
  <2>1. PICK i \in S : i = Max(S) /\ \A x \in S : i >= x
    <3>1. S \in SUBSET 0..Len(q) /\ S # {} /\ Len(q) \in Nat
      BY <1>3
    <3> QED
      BY <3>1, MaxOf
  <2>2. \A x \in S : x <= i
    BY <1>9, <2>1
  <2> QED
    BY <1>5, <1>6, <2>2
<1>14. k # 0
  BY <1>3, <1>4
<1>15. Cardinality(PrepAql(j)) = k
  <2> DEFINE f == [i \in S |-> Packet(j, i)]
  <2>1. f \in Bijection(S, PrepAql(j))
    <3>1. f \in [S -> PrepAql(j)] /\ \A p \in PrepAql(j) : \E i \in S : f[i] = p
      BY <1>7
    <3>2. \A i \in S : \A x \in S : f[i] = f[x] => i = x
      BY <1>11
    <3> HIDE DEF f
    <3> QED
      BY <3>1, <3>2 DEF Bijection, Injection, Surjection, IsInjective
  <2>2. ExistsBijection(S, PrepAql(j))
    BY <2>1 DEF ExistsBijection
  <2> QED
    BY <1>3, <1>4, <2>2, FS_Bijection
<1>16. \A p \in PrepAql(j) : /\ p \in PacketType /\ p.value = j.value /\ p.at \in P..(P + k - 1)
                             /\ p.fetches \subseteq Fetched(j)
                             /\ p.signals => \A r \in PrepAql(j) : r.at <= p.at
                             /\ p.waits \/ ~j.waits \/ \E r \in PrepAql(j) : r.at < p.at
  <2> TAKE p \in PrepAql(j)
  <2>0. PICK i \in S : p = Packet(j, i)
    BY <1>7
  <2>1. Packet(j, i).value = j.value
    BY <1>6
  <2>2. Packet(j, i).signals => \A r \in PrepAql(j) : r.at <= Packet(j, i).at
    BY <1>7, <1>10
  <2>3. Packet(j, i).waits \/ ~j.waits \/ \E r \in PrepAql(j) : r.at < Packet(j, i).at
    BY <1>7, <1>10
  <2> QED
    BY <1>10, <2>0, <2>1, <2>2, <2>3
<1>17. \A p \in PrepAql(j) : \A r \in PrepAql(j) : p.at = r.at => p = r
  BY <1>7, <1>11
<1>18. \A n \in P..(P + k - 1) : \E p \in PrepAql(j) : p.at = n
  BY <1>7, <1>12
<1>19. \E p \in PrepAql(j) : p.signals
  BY <1>7, <1>13
<1>20. k \in Nat \ {0}
  BY <1>4, <1>14
<1>21. Submission(PrepAql(j), j.value, j.waits, P, P + k - 1)
  BY <1>16, <1>17, <1>19 DEF Submission
<1>22. \A p \in PrepAql(j) : p \in PacketType /\ p.fetches \subseteq Fetched(j)
  BY <1>16
<1> QED
  BY <1>15, <1>18, <1>20, <1>21, <1>22

-----------------------------------------------------------------------------
(* The timeline: what two queues have pending of the values that are not    *)
(* signalled yet, whatever their commands are.                              *)

IsCommand(c) == c.at \in Int /\ c.value \in Nat

\* The pending commands of one queue.  One that does not wait is next, or behind another that
\* has its value or the one before.
Ordered(S, sig, last) ==
  /\ \A c \in S : /\ IsCommand(c) /\ sig < c.value /\ c.value <= last
                  /\ c.waits \/ c.value = sig + 1 \/ \E d \in S : d.at < c.at /\ d.value >= c.value - 1
  /\ \A c \in S : \A d \in S : /\ c.at = d.at => c = d
                               /\ c.at < d.at => c.value <= d.value /\ (c.signals => c.value < d.value)

\* A value belongs to one of the queues, and a command that is pending will signal it.
Timeline(S, T, sig, last) ==
  /\ sig \in Nat /\ last \in Nat /\ sig <= last
  /\ Ordered(S, sig, last) /\ Ordered(T, sig, last)
  /\ \A c \in S : \A d \in T : c.value # d.value
  /\ \A v \in (sig + 1)..last : \E c \in S \cup T : c.value = v /\ c.signals

LEMMA Swap ==
  ASSUME NEW S, NEW T, NEW sig, NEW last, Timeline(S, T, sig, last)
  PROVE  Timeline(T, S, sig, last)
BY DEF Timeline

\* The first pending command of a queue that may run is the timeline's next.
LEMMA Ran ==
  ASSUME NEW S, NEW T, NEW sig, NEW last, Timeline(S, T, sig, last),
         NEW r \in S, \A c \in S : c # r => r.at < c.at, r.waits => sig >= r.value - 1,
         NEW now, now = IF r.signals THEN r.value ELSE sig
  PROVE  /\ r.value = sig + 1
         /\ Timeline(S \ {r}, T, now, last)
<1>1. /\ sig \in Nat /\ last \in Nat /\ sig <= last
      /\ \A c \in S : /\ IsCommand(c) /\ sig < c.value /\ c.value <= last
                      /\ c.waits \/ c.value = sig + 1 \/ \E d \in S : d.at < c.at /\ d.value >= c.value - 1
      /\ \A c \in S : \A d \in S : /\ c.at = d.at => c = d
                                   /\ c.at < d.at => c.value <= d.value /\ (c.signals => c.value < d.value)
      /\ \A c \in T : /\ IsCommand(c) /\ sig < c.value /\ c.value <= last
                      /\ c.waits \/ c.value = sig + 1 \/ \E d \in T : d.at < c.at /\ d.value >= c.value - 1
      /\ \A c \in T : \A d \in T : /\ c.at = d.at => c = d
                                   /\ c.at < d.at => c.value <= d.value /\ (c.signals => c.value < d.value)
      /\ \A c \in S : \A d \in T : c.value # d.value
      /\ \A v \in (sig + 1)..last : \E c \in S \cup T : c.value = v /\ c.signals
  BY DEF Timeline, Ordered
<1>2. \A c \in S \cup T : c.at \in Int /\ c.value \in Nat
  BY <1>1 DEF IsCommand
<1>3. r.value = sig + 1
  <2>1. \A d \in S : ~(d.at < r.at)
    BY <1>2
  <2> QED
    BY <1>1, <1>2, <2>1
<1>4. now \in Nat /\ sig <= now /\ now <= last /\ (r.signals => now = sig + 1) /\ (~r.signals => now = sig)
  BY <1>1, <1>3
<1>5. \A c \in S \ {r} : now < c.value /\ (r.signals => c.value # sig + 1)
  BY <1>1, <1>2, <1>3, <1>4
<1>6. \A c \in T : now < c.value /\ c.value # sig + 1
  BY <1>1, <1>2, <1>3, <1>4
<1>7. ASSUME NEW c \in S \ {r}
      PROVE  c.waits \/ c.value = now + 1 \/ \E d \in S \ {r} : d.at < c.at /\ d.value >= c.value - 1
  <2>1. c.waits \/ c.value = sig + 1 \/ \E d \in S : d.at < c.at /\ d.value >= c.value - 1
    BY <1>1
  <2>2. CASE c.value = sig + 1
    BY <1>4, <1>5, <2>2
  <2>3. CASE r.value >= c.value - 1 /\ r.signals
    BY <1>2, <1>3, <1>4, <1>5, <2>3
  <2>4. CASE r.value >= c.value - 1 /\ ~r.signals /\ c.value # sig + 1
    <3>1. c.value = sig + 2
      BY <1>1, <1>2, <1>3, <2>4
    <3>2. sig + 1 \in (sig + 1)..last
      BY <1>1, <1>3
    <3>3. PICK x \in S \cup T : x.value = sig + 1 /\ x.signals
      BY <1>1, <3>2
    <3>4. x \in S \ {r}
      BY <1>1, <1>3, <2>4, <3>3
    <3>5. x.at < c.at
      BY <1>1, <1>2, <3>1, <3>3, <3>4
    <3> QED
      BY <1>1, <3>1, <3>3, <3>4, <3>5
  <2> QED
    BY <2>1, <2>2, <2>3, <2>4
<1>8. Ordered(S \ {r}, now, last)
  BY <1>1, <1>5, <1>7 DEF Ordered
<1>9. Ordered(T, now, last)
  BY <1>1, <1>6 DEF Ordered
<1>10. ASSUME NEW v \in (now + 1)..last PROVE \E c \in (S \ {r}) \cup T : c.value = v /\ c.signals
  <2>1. v \in (sig + 1)..last
    BY <1>1, <1>4
  <2>2. PICK c \in S \cup T : c.value = v /\ c.signals
    BY <1>1, <2>1
  <2>3. c # r
    BY <1>1, <1>3, <1>4, <2>2
  <2> QED
    BY <2>2, <2>3
<1> QED
  BY <1>1, <1>3, <1>4, <1>8, <1>9, <1>10 DEF Timeline

\* A submission takes the next value, which the commands before it do not have.  It does not
\* have to wait when nothing is pending in the other queue.
LEMMA Joined ==
  ASSUME NEW S, NEW T, NEW sig, NEW last, Timeline(S, T, sig, last),
         NEW N, NEW waits, NEW from \in Int, NEW to \in Int, Submission(N, last + 1, waits, from, to),
         \A c \in S : c.at < from, waits \/ T = {}
  PROVE  Timeline(S \cup N, T, sig, last + 1)
<1>1. /\ sig \in Nat /\ last \in Nat /\ sig <= last
      /\ \A c \in S : /\ IsCommand(c) /\ sig < c.value /\ c.value <= last
                      /\ c.waits \/ c.value = sig + 1 \/ \E d \in S : d.at < c.at /\ d.value >= c.value - 1
      /\ \A c \in S : \A d \in S : /\ c.at = d.at => c = d
                                   /\ c.at < d.at => c.value <= d.value /\ (c.signals => c.value < d.value)
      /\ \A c \in T : /\ IsCommand(c) /\ sig < c.value /\ c.value <= last
                      /\ c.waits \/ c.value = sig + 1 \/ \E d \in T : d.at < c.at /\ d.value >= c.value - 1
      /\ \A c \in T : \A d \in T : /\ c.at = d.at => c = d
                                   /\ c.at < d.at => c.value <= d.value /\ (c.signals => c.value < d.value)
      /\ \A c \in S : \A d \in T : c.value # d.value
      /\ \A v \in (sig + 1)..last : \E c \in S \cup T : c.value = v /\ c.signals
  BY DEF Timeline, Ordered
<1>2. /\ \A c \in N : /\ c.value = last + 1 /\ c.at \in from..to
                      /\ c.signals => \A d \in N : d.at <= c.at
                      /\ c.waits \/ ~waits \/ \E d \in N : d.at < c.at
      /\ \A c \in N : \A d \in N : c.at = d.at => c = d
      /\ \E c \in N : c.signals
  BY DEF Submission
<1>3. \A c \in N : c.at \in Int /\ from <= c.at /\ c.value \in Nat /\ c.value = last + 1 /\ IsCommand(c)
  BY <1>1, <1>2 DEF IsCommand
<1>4. \A c \in S \cup T : c.at \in Int /\ c.value \in Nat /\ c.value <= last
  BY <1>1 DEF IsCommand
<1>5. ASSUME NEW c \in S \cup N
      PROVE  /\ IsCommand(c) /\ sig < c.value /\ c.value <= last + 1
             /\ c.waits \/ c.value = sig + 1 \/ \E d \in S \cup N : d.at < c.at /\ d.value >= c.value - 1
  <2>1. CASE c \in S
    BY <1>1, <1>4, <2>1
  <2>2. CASE c \in N
    <3>1. c.waits \/ T = {} \/ \E d \in N : d.at < c.at
      BY <1>2, <2>2
    <3>2. ASSUME NEW d \in N, d.at < c.at PROVE d.value >= c.value - 1
      BY <1>1, <1>3, <2>2, <3>2
    <3>3. CASE T = {} /\ sig = last
      BY <1>1, <1>3, <2>2, <3>3
    <3>4. CASE T = {} /\ sig # last
      <4>1. last \in (sig + 1)..last
        BY <1>1, <3>4
      <4>2. PICK x \in S : x.value = last
        BY <1>1, <3>4, <4>1
      <4>3. x.at < c.at /\ x.value >= c.value - 1
        BY <1>1, <1>3, <1>4, <2>2, <4>2
      <4> QED
        BY <1>1, <1>3, <2>2, <4>3
    <3> QED
      BY <1>1, <1>3, <2>2, <3>1, <3>2, <3>3, <3>4
  <2> QED
    BY <2>1, <2>2
<1>6. ASSUME NEW c \in S \cup N, NEW d \in S \cup N
      PROVE  /\ c.at = d.at => c = d
             /\ c.at < d.at => c.value <= d.value /\ (c.signals => c.value < d.value)
  <2>1. CASE c \in S /\ d \in S
    BY <1>1, <2>1
  <2>2. CASE c \in S /\ d \in N
    BY <1>1, <1>3, <1>4, <2>2
  <2>3. CASE c \in N /\ d \in S
    BY <1>3, <1>4, <2>3
  <2>4. CASE c \in N /\ d \in N
    BY <1>1, <1>2, <1>3, <2>4
  <2> QED
    BY <2>1, <2>2, <2>3, <2>4
<1>7. Ordered(S \cup N, sig, last + 1)
  BY <1>5, <1>6 DEF Ordered
<1>8. Ordered(T, sig, last + 1)
  BY <1>1, <1>4 DEF Ordered
<1>9. \A c \in S \cup N : \A d \in T : c.value # d.value
  BY <1>1, <1>3, <1>4
<1>10. ASSUME NEW v \in (sig + 1)..(last + 1) PROVE \E c \in (S \cup N) \cup T : c.value = v /\ c.signals
  <2>1. v \in (sig + 1)..last \/ v = last + 1
    BY <1>1
  <2> QED
    BY <1>1, <1>2, <2>1
<1> QED
  BY <1>1, <1>7, <1>8, <1>9, <1>10 DEF Timeline

\* When a value that was submitted is not signalled, the first command of some queue has the next.
LEMMA HeadIsNext ==
  ASSUME NEW S, NEW T, NEW sig, NEW last, Timeline(S, T, sig, last), sig < last
  PROVE  \/ S # {} /\ \A r \in S : (\A c \in S : c # r => r.at < c.at) => r.value = sig + 1
         \/ T # {} /\ \A r \in T : (\A c \in T : c # r => r.at < c.at) => r.value = sig + 1
<1>1. sig \in Nat /\ last \in Nat /\ sig + 1 \in (sig + 1)..last
  BY DEF Timeline
<1>2. PICK x \in S \cup T : x.value = sig + 1
  BY <1>1 DEF Timeline
<1>3. ASSUME NEW Q, Ordered(Q, sig, last), x \in Q, NEW r \in Q, \A c \in Q : c # r => r.at < c.at
      PROVE  r.value = sig + 1
  <2>1. r.value \in Nat /\ sig < r.value
    BY <1>3 DEF Ordered, IsCommand
  <2>2. r = x \/ r.value <= x.value
    BY <1>3 DEF Ordered
  <2> QED
    BY <1>1, <1>2, <2>1, <2>2
<1> QED
  BY <1>2, <1>3 DEF Timeline

\* Nothing is pending once the last value is signalled.
LEMMA NothingLeft ==
  ASSUME NEW S, NEW T, NEW sig, NEW last, Timeline(S, T, sig, last), sig >= last
  PROVE  S = {} /\ T = {}
BY DEF Timeline, Ordered, IsCommand

-----------------------------------------------------------------------------
(* The commands of a copy queue, and where a submission puts them.          *)

LEMMA SumIs ==
  ASSUME NEW q, q \in Seq(Nat \ {0})
  PROVE  Sum(q) = [k \in 0..Len(q) |-> IF k = 0 THEN 0 ELSE Sum(q)[k - 1] + q[k]]
<1> DEFINE Is(f, n) == f = [k \in 0..n |-> IF k = 0 THEN 0 ELSE f[k - 1] + q[k]]
           T == {n \in 0..Len(q) : ~\E f : Is(f, n)}
<1>1. Len(q) \in Nat
  OBVIOUS
<1>2. ASSUME T # {} PROVE FALSE
  <2>1. T \in SUBSET Nat
    BY <1>1
  <2>2. PICK x \in T : \A y \in T : x <= y
    <3> HIDE DEF T
    <3> QED
      BY <1>2, <2>1, LeastNat
  <2>3. x \in Nat /\ x <= Len(q) /\ ~\E f : Is(f, x)
    BY <1>1, <2>2
  <2>4. CASE x = 0
    <3>1. PICK f : f = [k \in 0..0 |-> 0]
      OBVIOUS
    <3>2. f = [k \in 0..0 |-> IF k = 0 THEN 0 ELSE f[k - 1] + q[k]]
      BY <3>1
    <3>3. Is(f, x)
      BY <2>4, <3>2
    <3> QED
      BY <2>3, <3>3
  <2>5. CASE x # 0
    <3>1. x - 1 \in 0..Len(q) /\ x - 1 \notin T
      <4>1. x - 1 \in 0..Len(q)
        BY <1>1, <2>3, <2>5
      <4>2. ASSUME x - 1 \in T PROVE FALSE
        <5>1. x <= x - 1
          BY <2>2, <4>2
        <5> QED
          BY <2>3, <5>1
      <4> QED
        BY <4>1, <4>2
    <3>2. PICK f : Is(f, x - 1)
      BY <3>1
    <3>3. PICK g : g = [k \in 0..x |-> IF k = 0 THEN 0 ELSE f[k - 1] + q[k]]
      OBVIOUS
    <3>4. \A k \in 0..(x - 1) : f[k] = g[k]
      BY <2>3, <2>5, <3>2, <3>3
    <3>5. \A k \in 0..x : k # 0 => k - 1 \in 0..(x - 1)
      BY <2>3
    <3>6. \A k \in 0..x : (IF k = 0 THEN 0 ELSE f[k - 1] + q[k]) = (IF k = 0 THEN 0 ELSE g[k - 1] + q[k])
      BY <3>4, <3>5
    <3>7. g = [k \in 0..x |-> IF k = 0 THEN 0 ELSE g[k - 1] + q[k]]
      BY <3>3, <3>6
    <3>8. Is(g, x)
      BY <3>7
    <3> QED
      BY <2>3, <3>8
  <2> QED
    BY <2>4, <2>5
<1>3. \E f : Is(f, Len(q))
  BY <1>1, <1>2
<1>4. Sum(q) = CHOOSE f : f = [k \in 0..Len(q) |-> IF k = 0 THEN 0 ELSE f[k - 1] + q[k]]
  BY DEF Sum
<1>5. \E f : f = [k \in 0..Len(q) |-> IF k = 0 THEN 0 ELSE f[k - 1] + q[k]]
  BY <1>3
<1> QED
  BY <1>4, <1>5, Zenon

\* The dwords of the first commands grow with every command.
LEMMA SumOf ==
  ASSUME NEW q, q \in Seq(Nat \ {0})
  PROVE  /\ Sum(q) \in [0..Len(q) -> Nat] /\ Sum(q)[0] = 0
         /\ \A k \in 1..Len(q) : Sum(q)[k] = Sum(q)[k - 1] + q[k] /\ q[k] \in Nat \ {0}
         /\ \A a \in 0..Len(q) : \A b \in 0..Len(q) : a < b => Sum(q)[a] < Sum(q)[b]
<1>1. PICK s : s = Sum(q)
  OBVIOUS
<1>2. PICK n \in Nat : n = Len(q)
  OBVIOUS
<1>3. s = [k \in 0..n |-> IF k = 0 THEN 0 ELSE s[k - 1] + q[k]]
  BY <1>1, <1>2, SumIs
<1>4. DOMAIN s = 0..n /\ s[0] = 0 /\ \A k \in 1..n : s[k] = s[k - 1] + q[k]
  <2>1. DOMAIN s = 0..n
    BY <1>3
  <2>2. \A k \in 0..n : s[k] = IF k = 0 THEN 0 ELSE s[k - 1] + q[k]
    BY <1>3
  <2> QED
    BY <1>2, <2>1, <2>2
<1>5. \A k \in 1..n : q[k] \in Nat \ {0}
  BY <1>2
<1>6. \A k \in 0..n : s[k] \in Nat
  <2>1. PICK T : T = {k \in 0..n : s[k] \notin Nat}
    OBVIOUS
  <2>2. ASSUME T # {} PROVE FALSE
    <3>1. PICK x \in T : \A y \in T : x <= y
      <4>1. T \in SUBSET Nat
        BY <2>1
      <4> QED
        BY <2>2, <4>1, LeastNat
    <3>2. x \in 1..n
      BY <1>2, <1>4, <2>1, <3>1
    <3>3. x - 1 \in 0..n /\ x - 1 \notin T
      BY <1>2, <2>1, <3>1, <3>2
    <3> QED
      <4>1. s[x] = s[x - 1] + q[x] /\ q[x] \in Nat /\ s[x - 1] \in Nat
        BY <1>4, <1>5, <2>1, <3>2, <3>3
      <4>2. s[x] \in Nat
        BY <4>1
      <4> QED
        BY <2>1, <3>1, <4>2
  <2> QED
    BY <2>1, <2>2
<1>7. ASSUME NEW a \in 0..n, NEW b \in 0..n, a < b, ~(s[a] < s[b]) PROVE FALSE
  <2>1. PICK T : T = {k \in 0..n : a < k /\ ~(s[a] < s[k])}
    OBVIOUS
  <2>2. T \in SUBSET Nat /\ T # {}
    BY <1>7, <2>1
  <2>3. PICK x \in T : \A y \in T : x <= y
    BY <2>2, LeastNat
  <2>4. x \in 1..n /\ a < x /\ ~(s[a] < s[x]) /\ x - 1 \in 0..n
    BY <1>2, <2>1, <2>3
  <2>5. s[x] = s[x - 1] + q[x] /\ q[x] \in Nat \ {0} /\ s[x] \in Nat /\ s[x - 1] \in Nat /\ s[a] \in Nat
    BY <1>4, <1>5, <1>6, <2>4
  <2>6. CASE x - 1 = a
    BY <2>4, <2>5, <2>6
  <2>7. CASE x - 1 # a
    <3>1. a < x - 1 /\ x - 1 \notin T
      BY <2>3, <2>4, <2>7
    <3>2. s[a] < s[x - 1]
      BY <2>1, <2>4, <3>1
    <3> QED
      BY <2>4, <2>5, <3>2
  <2> QED
    BY <2>6, <2>7
<1>8. s \in [0..n -> Nat]
  BY <1>3, <1>4, <1>6
<1> QED
  BY <1>1, <1>2, <1>4, <1>5, <1>7, <1>8

LEMMA ModIs ==
  ASSUME NEW w \in Nat \ {0}, NEW a \in Nat, NEW d \in Int, NEW r \in 0..(w - 1), a = w * d + r
  PROVE  a % w = r
<1> DEFINE x == a \div w
           m == a % w
<1>1. x \in Int /\ m \in 0..(w - 1) /\ a = w * x + m
  OBVIOUS
<1> HIDE DEF x, m
<1> DEFINE z == d - x
<1>2. z \in Int /\ w * z = m - r
  BY <1>1
<1> HIDE DEF z
<1>3. CASE z <= -1
  <2>1. w * z <= w * (-1)
    BY <1>2, <1>3, Multiply
  <2> QED
    BY <1>1, <1>2, <2>1
<1>4. CASE z >= 1
  <2>1. w * 1 <= w * z
    BY <1>2, <1>4, Multiply
  <2> QED
    BY <1>1, <1>2, <2>1
<1>5. CASE z = 0
  BY <1>1, <1>2, <1>5 DEF m
<1> QED
  BY <1>2, <1>3, <1>4, <1>5

\* Counts in a ring of w places, before its end and from there on.
LEMMA InRing ==
  ASSUME NEW w \in Nat \ {0}, NEW a \in Nat, NEW e \in Nat, e = w - (a % w)
  PROVE  /\ e \in 1..w
         /\ \A x \in Nat : x < e => ((a + x) % w) + e = w + x
         /\ \A y \in Nat : y < w => (a + e + y) % w = y
<1> DEFINE x == a \div w
           m == a % w
<1>1. x \in Nat /\ m \in 0..(w - 1) /\ a = w * x + m /\ e = w - m
  OBVIOUS
<1> HIDE DEF x, m
<1>2. ASSUME NEW i \in Nat, i < e PROVE ((a + i) % w) + e = w + i
  <2>1. m + i \in 0..(w - 1) /\ a + i \in Nat /\ a + i = w * x + (m + i)
    BY <1>1, <1>2
  <2>2. (a + i) % w = m + i
    <3>1. PICK b \in Nat, r \in 0..(w - 1) : b = a + i /\ r = m + i
      BY <2>1
    <3>2. b = w * x + r
      BY <2>1, <3>1
    <3>3. b % w = r
      BY <1>1, <3>2, ModIs
    <3> QED
      BY <3>1, <3>3
  <2> QED
    BY <1>1, <2>2
<1>3. ASSUME NEW y \in Nat, y < w PROVE (a + e + y) % w = y
  <2>1. y \in 0..(w - 1) /\ a + e + y \in Nat /\ a + e + y = w * (x + 1) + y /\ x + 1 \in Int
    BY <1>1, <1>3
  <2> QED
    BY <2>1, ModIs
<1> QED
  BY <1>1, <1>2, <1>3

CopyType == [at : Int, size : Nat \ {0}, value : Nat, waits : BOOLEAN, signals : BOOLEAN]

\* Whole commands before the end of the ring, and the others from its beginning: less than
\* the ring in all, since a list is at most half of it and has two commands.
LEMMA Tails ==
  ASSUME NEW q \in Copies, NEW P, P = put["sdma"], P \in Nat
  PROVE  LET n == Len(q)
             s == Sum(q)
             tail == TailBlit(q)
             t == TotalDwords(q)
             R == SdmaSize
         IN  /\ n \in Nat /\ n >= 2 /\ tail \in 0..n /\ ToEnd = R - (P % R) /\ ToEnd \in 1..R
             /\ s[tail] < ToEnd /\ s[n] <= R
             /\ t \in Nat \ {0} /\ t < R
             /\ IF tail = n THEN t = s[n] ELSE t = ToEnd + s[n] - s[tail]
<1>1. PICK n \in Nat : n = Len(q)
  BY AMDConstants
<1>2. PICK s : s = Sum(q)
  OBVIOUS
<1>3. PICK R \in Nat \ {0} : R = SdmaSize
  BY AMDConstants
<1>4. PICK e : e = ToEnd
  OBVIOUS
<1>5. e = R - (P % R) /\ e \in 1..R
  <2>1. e = R - (P % R)
    BY <1>3, <1>4 DEF ToEnd
  <2>2. e \in 1..R
    BY <1>3, <2>1
  <2> QED
    BY <2>1, <2>2
<1>6. /\ n >= 2 /\ 2 * s[n] <= R /\ s \in [0..n -> Nat] /\ s[0] = 0
      /\ \A k \in 1..n : s[k] = s[k - 1] + q[k]
      /\ \A a \in 0..n : \A b \in 0..n : a < b => s[a] < s[b]
  BY <1>1, <1>2, <1>3, SumOf, AMDConstants
<1>7. PICK tail : tail = TailBlit(q)
  OBVIOUS
<1>8. tail \in 0..n /\ s[tail] < e /\ \A k \in 0..n : s[k] < e => tail >= k
  <2> DEFINE T == {k \in 0..n : s[k] < e}
  <2>1. tail = Max(T)
    BY <1>1, <1>2, <1>4, <1>7 DEF TailBlit
  <2>2. T \in SUBSET 0..n /\ T # {}
    <3>1. 0 \in T
      BY <1>5, <1>6
    <3> QED
      BY <3>1
  <2>3. Max(T) \in T /\ \A y \in T : Max(T) >= y
    <3> HIDE DEF T
    <3> QED
      BY <2>2, MaxOf
  <2> QED
    BY <2>1, <2>3
<1>9. s[n] \in Nat /\ s[1] \in Nat /\ s[0] < s[1] /\ s[1] < s[n] /\ s[tail] \in Nat
  BY <1>6, <1>8
<1>10. PICK t : t = TotalDwords(q)
  OBVIOUS
<1>11. t = IF s[n] - s[tail] = 0 THEN s[n] ELSE (e % R) + (s[n] - s[tail])
  BY <1>1, <1>2, <1>3, <1>4, <1>7, <1>10 DEF TotalDwords, Rest
<1>12. CASE tail = n
  <2>1. t = s[n]
    BY <1>9, <1>11, <1>12
  <2>2. t \in Nat \ {0}
    BY <1>9, <2>1
  <2>3. s[n] < e /\ e <= R /\ e \in Nat
    BY <1>5, <1>8, <1>12
  <2>4. t < R
    BY <1>9, <2>1, <2>3
  <2> QED
    BY <1>1, <1>2, <1>3, <1>4, <1>5, <1>6, <1>7, <1>8, <1>9, <1>10, <1>12, <2>1, <2>2, <2>4
<1>13. CASE tail # n
  <2>1. tail + 1 \in 0..n /\ tail < tail + 1 /\ tail < n /\ n \in 0..n
    BY <1>8, <1>13
  <2>2. s[tail + 1] \in Nat /\ ~(s[tail + 1] < e) /\ s[tail] < s[n] /\ s[tail + 1] <= s[n]
    <3>1. s[tail + 1] \in Nat /\ s[tail] < s[n]
      BY <1>6, <1>8, <2>1
    <3>2. ~(s[tail + 1] < e)
      BY <1>8, <2>1
    <3>3. tail + 1 = n \/ tail + 1 < n
      BY <1>8, <2>1
    <3>4. tail + 1 < n => s[tail + 1] < s[n]
      BY <1>6, <2>1
    <3> QED
      BY <1>9, <3>1, <3>2, <3>3, <3>4
  <2>3. e < R
    BY <1>5, <1>6, <1>9, <2>2
  <2>4. e % R = e
    BY <1>5, <2>3
  <2>5. t = e + s[n] - s[tail]
    BY <1>5, <1>9, <1>11, <2>2, <2>4
  <2>6. s[tail + 1] - s[tail] < s[n]
    <3>1. CASE tail = 0
      BY <1>6, <1>9, <3>1
    <3>2. CASE tail # 0
      <4>1. 0 < tail /\ 0 \in 0..n
        BY <1>8, <3>2
      <4>2. s[0] < s[tail]
        BY <1>6, <1>8, <4>1
      <4>3. s[0] = 0 /\ s[tail] \in Nat /\ s[n] \in Nat /\ s[tail + 1] \in Nat /\ s[tail + 1] <= s[n]
        BY <1>6, <1>9, <2>2
      <4> QED
        BY <4>2, <4>3
    <3> QED
      BY <3>1, <3>2
  <2>7. t \in Nat \ {0} /\ t < R
    <3>1. PICK a \in Nat, b \in Nat, c \in Nat : a = s[tail] /\ b = s[tail + 1] /\ c = s[n]
      BY <1>9, <2>2
    <3>2. e \in Int /\ e >= 1 /\ e <= R /\ 2 * c <= R /\ b >= e /\ a < c /\ t = e + c - a /\ b - a < c
      BY <1>5, <1>6, <2>2, <2>5, <2>6, <3>1
    <3> QED
      BY <3>1, <3>2
  <2> QED
    BY <1>1, <1>2, <1>3, <1>4, <1>5, <1>6, <1>7, <1>8, <1>9, <1>10, <1>13, <2>5, <2>7
<1> QED
  BY <1>12, <1>13

\* The commands of a copy submission lie one after the other, each in one piece.
LEMMA LaidOut ==
  ASSUME NEW j, j.queue \in Copies, j.value \in Nat, j.waits \in BOOLEAN,
         NEW P, P = put["sdma"], P \in Nat, NEW t, t = TotalDwords(j.queue)
  PROVE  /\ t \in Nat \ {0} /\ t < SdmaSize
         /\ Submission(Laid(j), j.value, j.waits, P, P + t - 1)
         /\ \A c \in Laid(j) : /\ c \in CopyType /\ P <= c.at /\ c.at + c.size <= P + t
                               /\ (c.at % SdmaSize) + c.size <= SdmaSize
         /\ \A c \in Laid(j) : \A d \in Laid(j) : c.at < d.at => c.at + c.size <= d.at
         /\ \E d \in Laid(j) : d.at + d.size = P + t
<1>1. PICK q : q = j.queue /\ q \in Copies
  OBVIOUS
<1>2. PICK n \in Nat : n = Len(q)
  BY <1>1, AMDConstants
<1>3. PICK s : s = Sum(q)
  OBVIOUS
<1>4. PICK R \in Nat \ {0} : R = SdmaSize
  BY AMDConstants
<1>5. PICK e : e = ToEnd
  OBVIOUS
<1>6. PICK tail : tail = TailBlit(q)
  OBVIOUS
<1>7. /\ n >= 2 /\ s \in [0..n -> Nat] /\ s[0] = 0
      /\ \A k \in 1..n : s[k] = s[k - 1] + q[k] /\ q[k] \in Nat \ {0}
      /\ \A a \in 0..n : \A b \in 0..n : a < b => s[a] < s[b]
      /\ DOMAIN q = 1..n
  <2>1. n >= 2 /\ q \in Seq(Nat \ {0})
    BY <1>1, <1>2, AMDConstants
  <2>2. s \in [0..n -> Nat] /\ s[0] = 0
    BY <1>2, <1>3, <2>1, SumOf
  <2>3. \A k \in 1..n : s[k] = s[k - 1] + q[k] /\ q[k] \in Nat \ {0}
    BY <1>2, <1>3, <2>1, SumOf
  <2>4. \A a \in 0..n : \A b \in 0..n : a < b => s[a] < s[b]
    BY <1>2, <1>3, <2>1, SumOf
  <2>5. DOMAIN q = 1..n
    BY <1>2, <2>1
  <2> QED
    BY <2>1, <2>2, <2>3, <2>4, <2>5
<1>8. /\ tail \in 0..n /\ e = R - (P % R) /\ e \in 1..R /\ s[tail] < e /\ s[n] <= R /\ t \in Nat \ {0} /\ t < R
      /\ IF tail = n THEN t = s[n] ELSE t = e + s[n] - s[tail]
  BY <1>1, <1>2, <1>3, <1>4, <1>5, <1>6, Tails
<1>9. s[tail] \in Nat /\ s[n] \in Nat /\ \A k \in 0..n : s[k] \in Nat
  <2>1. \A k \in 0..n : s[k] \in Nat
    BY <1>7
  <2>2. tail \in 0..n /\ n \in 0..n
    BY <1>8
  <2> QED
    BY <2>1, <2>2
<1>10. \A a \in 0..n : \A b \in 0..n : a <= b => s[a] <= s[b]
  <2> TAKE a \in 0..n
  <2> TAKE b \in 0..n
  <2> HAVE a <= b
  <2>1. a = b \/ a < b
    OBVIOUS
  <2> QED
    BY <1>7, <1>9, <2>1
<1> DEFINE at(k) == P + (IF k <= tail THEN s[k - 1] ELSE e + s[k - 1] - s[tail])
           c(k) == [at |-> at(k), size |-> q[k], value |-> j.value, waits |-> j.waits /\ k = 1, signals |-> k = n]
<1>11. Laid(j) = {c(k) : k \in 1..n}
  BY <1>1, <1>2, <1>3, <1>5, <1>6, <1>7 DEF Laid
<1>20. /\ \A x \in Nat : x < e => ((P + x) % R) + e = R + x
       /\ \A y \in Nat : y < R => (P + e + y) % R = y
  <2>1. e \in Nat /\ e = R - (P % R)
    BY <1>8
  <2>2. \A x \in Nat : x < e => ((P + x) % R) + e = R + x
    BY <2>1, InRing, SMTT(20)
  <2>3. \A y \in Nat : y < R => (P + e + y) % R = y
    BY <2>1, InRing
  <2> QED
    BY <2>2, <2>3
<1>12. \A k \in 1..n : /\ k \in 0..n /\ k - 1 \in 0..n /\ s[k] \in Nat /\ s[k - 1] \in Nat /\ s[k] = s[k - 1] + q[k]
                       /\ q[k] \in Nat \ {0} /\ k \in Int /\ k <= n /\ 1 <= k
  BY <1>7, <1>9, SMTT(20)
<1>13. ASSUME NEW k \in 1..n PROVE at(k) \in Nat /\ P <= at(k) /\ at(k) + q[k] <= P + t /\ (at(k) % R) + q[k] <= R
  <2>1. PICK a \in Nat, b \in Nat, z \in Nat \ {0}, x \in Nat, y \in Nat :
          a = s[k - 1] /\ b = s[k] /\ z = q[k] /\ x = s[tail] /\ y = s[n]
    BY <1>9, <1>12
  <2>2. b = a + z /\ b <= y /\ y <= R
    BY <1>8, <1>10, <1>12, <2>1
  <2>3. CASE k <= tail
    <3>1. b <= x /\ x < e /\ at(k) = P + a
      BY <1>8, <1>10, <1>12, <2>1, <2>3
    <3>2. b <= t
      BY <1>8, <2>1, <2>2, <3>1
    <3>3. ((P + a) % R) + e = R + a
      <4>1. a < e
        BY <1>8, <2>2, <3>1
      <4> QED
        BY <1>20, <4>1
    <3>4. (P + a) % R \in Int
      BY <1>4
    <3>5. ((P + a) % R) + z <= R
      BY <1>8, <2>2, <3>1, <3>3, <3>4
    <3>6. at(k) % R = (P + a) % R /\ q[k] = z
      BY <2>1, <3>1
    <3>7. at(k) \in Nat /\ P <= at(k) /\ at(k) + q[k] <= P + t
      BY <1>8, <2>1, <2>2, <3>1, <3>2
    <3> HIDE DEF at
    <3> QED
      BY <3>5, <3>6, <3>7
  <2>4. CASE ~(k <= tail)
    <3>1. x <= a /\ tail # n
      BY <1>8, <1>10, <1>12, <2>1, <2>4
    <3>2. at(k) = P + (e + a - x) /\ t = e + y - x
      BY <1>8, <2>1, <2>4, <3>1
    <3>3. PICK u \in Nat : u = a - x /\ u + z = b - x /\ u < R
      BY <2>1, <2>2, <3>1
    <3>4. at(k) = P + e + u
      BY <1>8, <3>2, <3>3
    <3>5. (P + e + u) % R = u
      BY <1>20, <3>3
    <3>6. u + z <= R
      BY <2>1, <2>2, <3>3
    <3>7. at(k) % R = u /\ q[k] = z
      BY <2>1, <3>4, <3>5
    <3>8. at(k) \in Nat /\ P <= at(k) /\ at(k) + q[k] <= P + t
      BY <1>8, <2>1, <2>2, <3>2, <3>3, <3>4
    <3> HIDE DEF at
    <3> QED
      BY <3>6, <3>7, <3>8
  <2> QED
    BY <2>3, <2>4
<1>14. ASSUME NEW i \in 1..n, NEW k \in 1..n, i < k PROVE at(i) + q[i] <= at(k) /\ at(i) < at(k)
  <2>1. PICK a \in Nat, b \in Nat, z \in Nat \ {0}, x \in Nat, y \in Nat :
          a = s[i - 1] /\ b = s[i] /\ z = q[i] /\ x = s[tail] /\ y = s[k - 1]
    BY <1>9, <1>12
  <2>2. b = a + z /\ b <= y
    BY <1>10, <1>12, <1>14, <2>1
  <2>3. CASE k <= tail
    BY <1>8, <1>12, <1>14, <2>1, <2>2, <2>3
  <2>4. CASE i <= tail /\ ~(k <= tail)
    <3>1. b <= x /\ x <= y
      BY <1>8, <1>10, <1>12, <2>1, <2>4
    <3> QED
      BY <1>8, <2>1, <2>2, <2>4, <3>1
  <2>5. CASE ~(i <= tail)
    BY <1>8, <1>12, <1>14, <2>1, <2>2, <2>5
  <2> QED
    BY <1>8, <1>12, <1>14, <2>3, <2>4, <2>5
<1>21. n \in 1..n /\ at(n) + q[n] = P + t
  <2>1. n \in 1..n
    BY <1>7
  <2>2. s[n] = s[n - 1] + q[n] /\ s[n - 1] \in Nat /\ q[n] \in Nat
    BY <1>12, <2>1
  <2>3. CASE tail = n
    <3>1. at(n) = P + s[n - 1] /\ t = s[n]
      BY <1>8, <2>3
    <3> QED
      BY <1>8, <1>9, <2>1, <2>2, <3>1
  <2>4. CASE tail # n
    <3>1. at(n) = P + (e + s[n - 1] - s[tail]) /\ t = e + s[n] - s[tail]
      BY <1>8, <2>4
    <3> QED
      BY <1>8, <1>9, <2>1, <2>2, <3>1
  <2> QED
    BY <2>3, <2>4
<1> HIDE DEF at
<1>15. \A k \in 1..n : /\ c(k).at = at(k) /\ c(k).size = q[k] /\ c(k).value = j.value
                       /\ c(k).waits = (j.waits /\ k = 1) /\ c(k).signals = (k = n) /\ c(k) \in CopyType
  BY <1>12, <1>13 DEF CopyType
<1> HIDE DEF c
<1>16. \A i \in 1..n : \A k \in 1..n : c(i).at <= c(k).at <=> i <= k
  <2> TAKE i \in 1..n
  <2> TAKE k \in 1..n
  <2>1. c(i).at = at(i) /\ c(k).at = at(k)
    BY <1>15
  <2>2. i = k \/ i < k \/ k < i
    OBVIOUS
  <2>3. at(i) <= at(k) <=> i <= k
    BY <1>12, <1>13, <1>14, <2>2
  <2> QED
    BY <2>1, <2>3
<1>17. \A i \in 1..n : \A k \in 1..n : c(i).at < c(k).at => c(i).at + c(i).size <= c(k).at
  BY <1>12, <1>13, <1>14, <1>15, <1>16
<1>18. Submission(Laid(j), j.value, j.waits, P, P + t - 1)
  <2>1. \A k \in 1..n : c(k).at \in P..(P + t - 1)
    BY <1>8, <1>12, <1>13, <1>15
  <2>2. \A k \in 1..n : c(k).signals => \A i \in 1..n : c(i).at <= c(k).at
    <3> TAKE k \in 1..n
    <3> HAVE c(k).signals
    <3> TAKE i \in 1..n
    <3>1. k = n
      BY <1>15
    <3> QED
      BY <1>12, <1>16, <3>1
  <2>3. ASSUME NEW k \in 1..n PROVE c(k).waits \/ ~j.waits \/ \E i \in 1..n : c(i).at < c(k).at
    <3>1. CASE k = 1
      BY <1>15, <3>1
    <3>2. CASE k # 1
      <4>1. 1 \in 1..n /\ 1 < k
        BY <1>12, <3>2
      <4>2. at(1) < at(k)
        BY <1>14, <4>1
      <4> QED
        BY <1>15, <4>1, <4>2
    <3> QED
      BY <3>1, <3>2
  <2>4. \A i \in 1..n : \A k \in 1..n : c(i).at = c(k).at => i = k
    <3> TAKE i \in 1..n
    <3> TAKE k \in 1..n
    <3>1. c(i).at \in Nat /\ c(k).at \in Nat
      BY <1>13, <1>15
    <3> QED
      BY <1>16, <3>1
  <2>5. n \in 1..n /\ c(n).signals
    <3>1. n \in 1..n
      BY <1>7
    <3>2. c(n).signals = (n = n)
      BY <1>15, <3>1
    <3> QED
      BY <3>1, <3>2
  <2>6. \A k \in 1..n : c(k).value = j.value
    BY <1>15
  <2> QED
    BY <1>11, <2>1, <2>2, <2>3, <2>4, <2>5, <2>6 DEF Submission
<1>19. \A k \in 1..n : /\ P <= c(k).at /\ c(k).at + c(k).size <= P + t
                       /\ (c(k).at % SdmaSize) + c(k).size <= SdmaSize
  BY <1>4, <1>13, <1>15
<1>22. \E d \in Laid(j) : d.at + d.size = P + t
  <2>1. c(n) \in Laid(j) /\ c(n).at + c(n).size = P + t
    BY <1>11, <1>15, <1>21
  <2> QED
    BY <2>1
<1> QED
  BY <1>4, <1>8, <1>11, <1>15, <1>17, <1>18, <1>19, <1>22

-----------------------------------------------------------------------------
(* The invariant of an AMD device.                                          *)

\* The packets and the SDMA commands the device has yet to take.
Waiting == get["aql"]..(put["aql"] - 1)
PacketAt(n) == aql[n % AqlSlots]
Packets == {PacketAt(n) : n \in Waiting}

Copied == get["sdma"]..(put["sdma"] - 1)
CommandAt(n) == sdma[n % SdmaSize].cmd
Commands == {c \in {CommandAt(n) : n \in Copied} : c.value # 0}

\* The last value that was submitted.
LastTaken == IF pc = "submit" THEN value - 2 ELSE value - 1

AMDTypes ==
  /\ value \in Nat \ {0} /\ pc \in {"idle", "submit", "sync"} /\ (pc = "submit" => value > 1)
  /\ ib \in Nat /\ ib <= IBCap
  /\ DOMAIN ibs = IBDword /\ DOMAIN aql = AqlSlot /\ DOMAIN sdma = SdmaDword
  /\ put \in [Ring -> Nat] /\ get \in [Ring -> Nat]

\* The submission the host is in.
AMDJob ==
  pc = "submit" =>
    /\ job.value = value - 1 /\ job.next \in {"idle", "sync"} /\ job.ring \in Ring
    /\ job.bound \in BOOLEAN /\ job.waits \in BOOLEAN /\ job.wrapped \in BOOLEAN /\ job.offset \in Nat
    /\ job.ring = "sdma" => job.queue \in Copies /\ job.bound /\ job.waits
    /\ job.ring = "aql" /\ job.bound => job.queue \in Graphs /\ ~job.wrapped
    /\ ~job.bound => job.queue \in Programs \cup {Flush} /\ ib = job.offset + Len(job.queue)

\* SDMA commands are whole, and before them there are zero fills.
AMDCopies ==
  /\ get["sdma"] <= put["sdma"] /\ put["sdma"] - get["sdma"] <= SdmaSize
  /\ \A n \in Copied :
       /\ sdma[n % SdmaSize].at = n /\ CommandAt(n) \in CopyType
       /\ get["sdma"] <= CommandAt(n).at /\ CommandAt(n).at <= n /\ n < CommandAt(n).at + CommandAt(n).size
       /\ CommandAt(n).at + CommandAt(n).size <= put["sdma"]
       /\ (CommandAt(n).at % SdmaSize) + CommandAt(n).size <= SdmaSize
       /\ \A m \in Copied : CommandAt(n).at <= m /\ m < CommandAt(n).at + CommandAt(n).size => CommandAt(m) = CommandAt(n)
       /\ CommandAt(n).value = 0 => ~CommandAt(n).waits /\ ~CommandAt(n).signals
  /\ \A n \in Copied : CommandAt(n).value = 0 => \E m \in Copied : n < m /\ CommandAt(m).value # 0

\* Packets that are waiting are in the slots of their counts, and no slot claims another.
AMDPackets ==
  /\ get["aql"] <= put["aql"]
  /\ \A n \in Waiting : PacketAt(n) \in PacketType /\ PacketAt(n).at = n
  /\ \A s \in AqlSlot : /\ aql[s].at \in Int
                        /\ aql[s].at >= get["aql"] => aql[s].at < put["aql"] /\ aql[s].at % AqlSlots = s

\* The command memory in whole blocks, and its end in which commands on their way may lie.
IBRoom == RoundUp(IBCap, IBAlign)
Low == IF pc = "submit" /\ ~job.bound
       THEN IF job.wrapped THEN IBRoom ELSE job.offset
       ELSE RoundUp(ib, IBAlign)

AMDMemory ==
  \A n \in Waiting : \A i \in PacketAt(n).fetches : i \in IBDword /\ i < Low /\ ibs[i] = PacketAt(n).value

AMDTime == Timeline(Packets, Commands, signal, LastTaken)

\* A submission that does not wait finds no copy on its way.
AMDWaits == pc = "submit" => job.waits \/ Commands = {}

\* What holds of the device whatever happened, and what holds until the compute ring has lapped
\* it or an invalidation has overtaken a copy.
AMDBase == AMDTypes /\ AMDJob /\ AMDCopies
AMDOrder == AMDPackets /\ AMDMemory /\ AMDTime /\ AMDWaits
AMDInv == AMDBase /\ (Orderly => AMDOrder)

LEMMA RoundedBelow ==
  /\ RoundUp(0, IBAlign) = 0 /\ IBRoom \in Nat
  /\ \A n \in Nat : n <= IBCap => RoundUp(n, IBAlign) \in Nat /\ n <= RoundUp(n, IBAlign) /\ RoundUp(n, IBAlign) <= IBRoom
<1>1. IBAlign \in Nat \ {0} /\ IBCap \in Nat
  BY AMDConstants
<1>2. RoundUp(0, IBAlign) = 0
  <2>1. RoundUp(0, IBAlign) \in Nat /\ \A j \in Nat : 0 <= j * IBAlign => RoundUp(0, IBAlign) <= j * IBAlign
    BY <1>1, RoundedUp
  <2>2. 0 * IBAlign = 0
    BY <1>1
  <2> QED
    BY <2>1, <2>2
<1>4. /\ IBRoom \in Nat /\ IBCap <= IBRoom /\ \E k \in Nat : IBRoom = k * IBAlign
  BY <1>1, RoundedUp DEF IBRoom
<1>3. ASSUME NEW n \in Nat, n <= IBCap
      PROVE  RoundUp(n, IBAlign) \in Nat /\ n <= RoundUp(n, IBAlign) /\ RoundUp(n, IBAlign) <= IBRoom
  <2>1. PICK k \in Nat : IBRoom = k * IBAlign
    BY <1>4
  <2>2. n <= k * IBAlign
    BY <1>1, <1>3, <1>4, <2>1
  <2> QED
    BY <1>1, <2>1, <2>2, RoundedUp
<1> QED
  BY <1>2, <1>3, <1>4

LEMMA AMDStart == Init => AMDInv
<1> SUFFICES ASSUME Init PROVE AMDInv
  OBVIOUS
<1>1. /\ value = 1 /\ signal = 0 /\ pc = "idle" /\ ib = 0 /\ ibs = [i \in IBDword |-> 0]
      /\ aql = [i \in AqlSlot |-> NoPacket] /\ sdma = [i \in SdmaDword |-> [at |-> -1, cmd |-> Nop(-1)]]
      /\ put = [r \in Ring |-> 0] /\ get = [r \in Ring |-> 0]
  BY DEF Init
<1>2. put["aql"] = 0 /\ get["aql"] = 0 /\ put["sdma"] = 0 /\ get["sdma"] = 0
  BY <1>1 DEF Ring
<1>3. Waiting = {} /\ Copied = {} /\ Packets = {} /\ Commands = {}
  BY <1>2 DEF Waiting, Copied, Packets, Commands
<1>4. AMDTypes
  BY <1>1, AMDConstants DEF AMDTypes, Ring
<1>5. AMDJob
  BY <1>1 DEF AMDJob
<1>6. AMDPackets
  <2>1. NoPacket.at = -1
    BY DEF NoPacket
  <2>2. \A s \in AqlSlot : aql[s].at = -1
    BY <1>1, <2>1
  <2>3. \A s \in AqlSlot : aql[s].at \in Int /\ ~(aql[s].at >= 0)
    BY <2>2
  <2> QED
    BY <1>2, <1>3, <2>3 DEF AMDPackets
<1>9. AMDMemory
  BY <1>3 DEF AMDMemory
<1>10. AMDCopies
  BY <1>2, <1>3, AMDConstants DEF AMDCopies
<1>11. AMDTime
  BY <1>1, <1>3 DEF AMDTime, Timeline, Ordered, LastTaken
<1>12. AMDWaits
  BY <1>1 DEF AMDWaits
<1> QED
  BY <1>4, <1>5, <1>6, <1>9, <1>10, <1>11, <1>12 DEF AMDInv, AMDBase, AMDOrder

\* Steps of the host that leave the rings alone.
LEMMA AMDHostCopies ==
  ASSUME AMDCopies, UNCHANGED <<sdma, put, get>>
  PROVE  AMDCopies' /\ Commands' = Commands
BY DEF AMDCopies, Commands, Copied, CommandAt

LEMMA AMDHostKeeps ==
  ASSUME AMDOrder, LastTaken' = LastTaken, UNCHANGED <<signal, ibs, aql, sdma, put, get>>
  PROVE  /\ AMDPackets' /\ AMDTime'
         /\ (\A n \in Waiting : \A i \in PacketAt(n).fetches : i < Low') => AMDMemory'
<1>1. /\ signal' = signal /\ ibs' = ibs /\ aql' = aql /\ sdma' = sdma /\ put' = put /\ get' = get
      /\ LastTaken' = LastTaken
  OBVIOUS
<1>3. Packets' = Packets /\ Commands' = Commands
  BY <1>1 DEF Waiting, Copied, PacketAt, CommandAt, Packets, Commands
<1>4. AMDPackets'
  BY <1>1 DEF AMDOrder, AMDPackets, Waiting, PacketAt
<1>6. AMDTime'
  BY <1>1, <1>3 DEF AMDOrder, AMDTime
<1>8. ASSUME \A n \in Waiting : \A i \in PacketAt(n).fetches : i < Low' PROVE AMDMemory'
  BY <1>1, <1>8 DEF AMDOrder, AMDMemory, Waiting, PacketAt
<1> QED
  BY <1>4, <1>6, <1>8

LEMMA AMDTakeComputeKeeps ==
  ASSUME AMDInv, NEW q \in Programs \cup {Flush}, NEW waits \in BOOLEAN, NEW next \in {"idle", "sync"},
         pc = "idle", TakeCompute(q, waits, next), UNCHANGED <<signal, memory, get, replayed>>,
         Orderly' => Orderly /\ (waits \/ Commands = {})
  PROVE  AMDInv'
<1>1. PICK l \in Nat \ {0} : l = Len(q) /\ l <= IBCap
  BY AMDConstants DEF IsQueue
<1>2. PICK r : r = RoundUp(ib, IBAlign)
  OBVIOUS
<1>3. PICK w : w = BumpWraps(ib, l, IBAlign, IBCap)
  OBVIOUS
<1>4. PICK o : o = BumpOffset(ib, l, IBAlign, IBCap)
  OBVIOUS
<1>5. /\ AMDTypes /\ AMDJob /\ AMDCopies
      /\ ib \in Nat /\ ib <= IBCap /\ IBCap \in Nat /\ IBAlign \in Nat \ {0} /\ value \in Nat \ {0}
  BY AMDConstants DEF AMDInv, AMDBase, AMDTypes
<1>6. r \in Nat /\ ib <= r /\ r <= IBRoom /\ IBRoom \in Nat
  BY <1>2, <1>5, RoundedBelow
<1>7. /\ o = (IF w THEN 0 ELSE r) /\ w \in BOOLEAN /\ (~w => r + l <= IBCap) /\ o \in Nat /\ o + l <= IBCap
      /\ BumpPtr(ib, l, IBAlign, IBCap) = o + l
  <2>1. w = (r + l > IBCap)
    BY <1>2, <1>3 DEF BumpWraps
  <2>2. o = IF w THEN 0 ELSE r
    <3>1. RoundUp(0, IBAlign) = 0
      BY RoundedBelow
    <3> QED
      BY <1>2, <1>3, <1>4, <3>1 DEF BumpOffset
  <2>3. BumpPtr(ib, l, IBAlign, IBCap) = o + l
    BY <1>4 DEF BumpPtr
  <2>4. ~w => r + l <= IBCap
    <3>1. ~w => ~(r + l > IBCap)
      BY <1>2, <1>3 DEF BumpWraps
    <3> QED
      BY <1>1, <1>5, <1>6, <3>1
  <2>5. o \in Nat /\ o + l <= IBCap
    BY <1>1, <1>5, <1>6, <2>2, <2>4
  <2>6. w \in BOOLEAN
    BY <2>1
  <2> QED
    BY <2>2, <2>3, <2>4, <2>5, <2>6
<1>9. /\ pc' = "submit" /\ value' = value + 1 /\ ib' = o + l
      /\ signal' = signal /\ ibs' = ibs /\ aql' = aql /\ sdma' = sdma /\ put' = put /\ get' = get
  BY <1>1, <1>7 DEF TakeCompute, Take, memory
<1>10. /\ job'.ring = "aql" /\ job'.queue = q /\ job'.value = value /\ job'.waits = waits /\ job'.bound = FALSE
       /\ job'.offset = o /\ job'.wrapped = w /\ job'.next = next
  BY <1>1, <1>3, <1>4 DEF TakeCompute, Take, NoJob
<1>11. LastTaken = value - 1 /\ LastTaken' = value - 1
  BY <1>5, <1>9 DEF LastTaken
<1>12. AMDTypes'
  BY <1>5, <1>7, <1>9 DEF AMDTypes
<1>13. AMDJob'
  <2>2. value' - 1 = value
    BY <1>5, <1>9
  <2> QED
    BY <1>1, <1>7, <1>9, <1>10, <2>2 DEF AMDJob, Ring
<1>14. Low = r /\ Low' = IF w THEN IBRoom ELSE r
  BY <1>2, <1>5, <1>7, <1>9, <1>10 DEF Low
<1>15. AMDCopies' /\ Commands' = Commands
  BY <1>5, <1>9, AMDHostCopies
<1>16. ASSUME Orderly' PROVE AMDOrder'
  <2>1. AMDOrder /\ (waits \/ Commands = {})
    BY <1>16 DEF AMDInv
  <2>2. /\ AMDPackets' /\ AMDTime'
        /\ (\A n \in Waiting : \A i \in PacketAt(n).fetches : i < Low') => AMDMemory'
    BY <1>9, <1>11, <2>1, AMDHostKeeps
  <2>3. \A n \in Waiting : \A i \in PacketAt(n).fetches : i < Low'
    <3>1. \A n \in Waiting : \A i \in PacketAt(n).fetches : i < r /\ i \in Int
      BY <1>14, <2>1 DEF AMDOrder, AMDMemory, IBDword
    <3>2. Low' \in Nat /\ r <= Low'
      BY <1>6, <1>14
    <3> QED
      BY <1>6, <3>1, <3>2
  <2>4. AMDWaits'
    BY <1>10, <1>15, <2>1 DEF AMDWaits
  <2> QED
    BY <2>2, <2>3, <2>4 DEF AMDOrder
<1> QED
  BY <1>12, <1>13, <1>15, <1>16 DEF AMDInv, AMDBase

LEMMA AMDCopyKeeps ==
  ASSUME AMDInv, NEW q \in Copies, Copy(q)
  PROVE  AMDInv'
<1>1. AMDTypes /\ AMDJob /\ AMDCopies /\ value \in Nat \ {0}
  BY DEF AMDInv, AMDBase, AMDTypes
<1>2. /\ pc = "idle" /\ pc' = "submit" /\ value' = value + 1 /\ ib' = ib
      /\ signal' = signal /\ ibs' = ibs /\ aql' = aql /\ sdma' = sdma /\ put' = put /\ get' = get
      /\ lapped' = lapped /\ overtaken' = overtaken
  BY DEF Copy, Take, memory, history
<1>3. /\ job'.ring = "sdma" /\ job'.queue = q /\ job'.value = value /\ job'.waits = TRUE /\ job'.bound = TRUE
      /\ job'.offset = 0 /\ job'.wrapped = FALSE /\ job'.next = "idle"
  BY DEF Copy, Take, NoJob
<1>4. LastTaken' = LastTaken /\ Low' = Low
  BY <1>1, <1>2, <1>3 DEF LastTaken, Low
<1>5. AMDTypes'
  BY <1>1, <1>2 DEF AMDTypes
<1>6. AMDJob'
  <2>1. value' - 1 = value /\ job'.ring # "aql"
    BY <1>1, <1>2, <1>3
  <2>2. /\ job'.next \in {"idle", "sync"} /\ job'.ring \in Ring
        /\ job'.bound \in BOOLEAN /\ job'.waits \in BOOLEAN /\ job'.wrapped \in BOOLEAN /\ job'.offset \in Nat
        /\ job'.waits /\ job'.bound /\ job'.queue \in Copies
    <3>1. job'.next \in {"idle", "sync"} /\ job'.ring \in Ring /\ job'.offset \in Nat /\ job'.queue \in Copies
      BY <1>3 DEF Ring
    <3>2. job'.bound \in BOOLEAN /\ job'.waits \in BOOLEAN /\ job'.wrapped \in BOOLEAN /\ job'.waits /\ job'.bound
      BY <1>3, Zenon
    <3> QED
      BY <3>1, <3>2
  <2> QED
    BY <1>3, <2>1, <2>2 DEF AMDJob
<1>7. AMDCopies'
  BY <1>1, <1>2, AMDHostCopies
<1>8. ASSUME Orderly' PROVE AMDOrder'
  <2>1. AMDOrder
    BY <1>2, <1>8 DEF AMDInv, Orderly
  <2>2. /\ AMDPackets' /\ AMDTime'
        /\ (\A n \in Waiting : \A i \in PacketAt(n).fetches : i < Low') => AMDMemory'
    BY <1>2, <1>4, <2>1, AMDHostKeeps
  <2>3. AMDMemory'
    BY <1>4, <2>1, <2>2 DEF AMDOrder, AMDMemory
  <2>4. AMDWaits'
    BY <1>3, Zenon DEF AMDWaits
  <2> QED
    BY <2>2, <2>3, <2>4 DEF AMDOrder
<1> QED
  BY <1>5, <1>6, <1>7, <1>8 DEF AMDInv, AMDBase

LEMMA AMDReplayKeeps ==
  ASSUME AMDInv, NEW q \in Graphs, Replay(q)
  PROVE  AMDInv'
<1>1. AMDTypes /\ AMDJob /\ AMDCopies /\ value \in Nat \ {0}
  BY DEF AMDInv, AMDBase, AMDTypes
<1>2. /\ pc = "idle" /\ pc' = "submit" /\ value' = value + 1 /\ ib' = ib
      /\ signal' = signal /\ ibs' = ibs /\ aql' = aql /\ sdma' = sdma /\ put' = put /\ get' = get
      /\ lapped' = lapped /\ overtaken' = overtaken
  BY DEF Replay, Take, memory, history
<1>3. /\ job'.ring = "aql" /\ job'.queue = q /\ job'.value = value /\ job'.waits = TRUE /\ job'.bound = TRUE
      /\ job'.offset = 0 /\ job'.wrapped = FALSE /\ job'.next = "idle"
  BY DEF Replay, Take, NoJob
<1>4. LastTaken' = LastTaken /\ Low' = Low
  BY <1>1, <1>2, <1>3 DEF LastTaken, Low
<1>5. AMDTypes'
  BY <1>1, <1>2 DEF AMDTypes
<1>6. AMDJob'
  <2>1. value' - 1 = value
    BY <1>1, <1>2
  <2>2. /\ job'.next \in {"idle", "sync"} /\ job'.ring \in Ring /\ job'.ring # "sdma"
        /\ job'.bound \in BOOLEAN /\ job'.waits \in BOOLEAN /\ job'.wrapped \in BOOLEAN /\ job'.offset \in Nat
        /\ job'.bound /\ ~job'.wrapped /\ job'.queue \in Graphs
    <3>1. job'.next \in {"idle", "sync"} /\ job'.ring \in Ring /\ job'.offset \in Nat /\ job'.queue \in Graphs
          /\ job'.ring # "sdma"
      BY <1>3 DEF Ring
    <3>2. job'.bound \in BOOLEAN /\ job'.waits \in BOOLEAN /\ job'.wrapped \in BOOLEAN /\ job'.bound /\ ~job'.wrapped
      BY <1>3, Zenon
    <3> QED
      BY <3>1, <3>2
  <2> QED
    BY <1>3, <2>1, <2>2 DEF AMDJob
<1>7. AMDCopies'
  BY <1>1, <1>2, AMDHostCopies
<1>8. ASSUME Orderly' PROVE AMDOrder'
  <2>1. AMDOrder
    BY <1>2, <1>8 DEF AMDInv, Orderly
  <2>2. /\ AMDPackets' /\ AMDTime'
        /\ (\A n \in Waiting : \A i \in PacketAt(n).fetches : i < Low') => AMDMemory'
    BY <1>2, <1>4, <2>1, AMDHostKeeps
  <2>3. AMDMemory'
    BY <1>4, <2>1, <2>2 DEF AMDOrder, AMDMemory
  <2>4. AMDWaits'
    BY <1>3, Zenon DEF AMDWaits
  <2> QED
    BY <2>2, <2>3, <2>4 DEF AMDOrder
<1> QED
  BY <1>5, <1>6, <1>7, <1>8 DEF AMDInv, AMDBase

LEMMA AMDSyncKeeps ==
  ASSUME AMDInv, Synchronize \/ SynchronizeReturns \/ UNCHANGED vars
  PROVE  AMDInv'
<1>1. AMDTypes /\ AMDJob /\ AMDCopies
  BY DEF AMDInv, AMDBase
<1>2. /\ pc' = pc \/ (pc \in {"idle", "sync"} /\ pc' \in {"idle", "sync"})
      /\ value' = value /\ ib' = ib /\ job' = job
      /\ signal' = signal /\ ibs' = ibs /\ aql' = aql /\ sdma' = sdma /\ put' = put /\ get' = get
      /\ lapped' = lapped /\ overtaken' = overtaken
  BY DEF Synchronize, SynchronizeReturns, memory, history, vars
<1>3. LastTaken' = LastTaken /\ Low' = Low
  BY <1>2 DEF LastTaken, Low
<1>4. AMDTypes' /\ AMDJob'
  BY <1>1, <1>2 DEF AMDTypes, AMDJob
<1>5. AMDCopies' /\ Commands' = Commands
  BY <1>1, <1>2, AMDHostCopies
<1>6. ASSUME Orderly' PROVE AMDOrder'
  <2>1. AMDOrder
    BY <1>2, <1>6 DEF AMDInv, Orderly
  <2>2. /\ AMDPackets' /\ AMDTime'
        /\ (\A n \in Waiting : \A i \in PacketAt(n).fetches : i < Low') => AMDMemory'
    BY <1>2, <1>3, <2>1, AMDHostKeeps
  <2>3. AMDMemory' /\ AMDWaits'
    BY <1>2, <1>3, <1>5, <2>1, <2>2 DEF AMDOrder, AMDMemory, AMDWaits
  <2> QED
    BY <2>2, <2>3 DEF AMDOrder
<1> QED
  BY <1>4, <1>5, <1>6 DEF AMDInv, AMDBase

\* The steps of the host that take a value or none.
LEMMA AMDHost ==
  ASSUME AMDInv, Host \/ SynchronizeReturns
  PROVE  AMDInv'
<1>1. ASSUME NEW q \in Programs, Exec(q) PROVE AMDInv'
  <2>1. TakeCompute(q, TRUE, "idle") /\ pc = "idle" /\ UNCHANGED <<signal, memory, get, replayed>>
    BY <1>1 DEF Exec
  <2>2. Orderly' => Orderly
    BY <1>1 DEF Exec, Orderly, history
  <2> QED
    BY <2>1, <2>2, AMDTakeComputeKeeps
<1>2. ASSUME InvalidateCaches PROVE AMDInv'
  <2>1. TakeCompute(Flush, FALSE, "sync") /\ pc = "idle" /\ UNCHANGED <<signal, memory, get, replayed>>
    BY <1>2 DEF InvalidateCaches
  <2>2. Orderly' => Orderly /\ Commands = {}
    <3>1. Orderly' => Orderly /\ get["sdma"] = put["sdma"]
      BY <1>2 DEF InvalidateCaches, Orderly
    <3>2. get["sdma"] = put["sdma"] => Copied = {}
      BY DEF AMDInv, AMDBase, AMDTypes, Copied, Ring
    <3> QED
      BY <3>1, <3>2 DEF Commands
  <2> QED
    BY <2>1, <2>2, AMDTakeComputeKeeps
<1> QED
  BY <1>1, <1>2, AMDCopyKeeps, AMDReplayKeeps, AMDSyncKeeps DEF Host

-----------------------------------------------------------------------------
(* A compute submission. *)

\* What the host knows when it writes one.
LEMMA AMDSubmits ==
  ASSUME AMDTypes, AMDJob, SubmitCompute, NEW P \in Nat, P = put["aql"], NEW k, k = Cardinality(Starts(job.queue))
  PROVE  /\ value \in Nat /\ value > 1 /\ job.value = value - 1 /\ job.value \in Nat
         /\ LastTaken = value - 2 /\ LastTaken' = value - 1 /\ job.value = LastTaken + 1 /\ LastTaken \in Nat
         /\ k \in Nat \ {0} /\ k < AqlSlots /\ Cardinality(PrepAql(job)) = k
         /\ Submission(PrepAql(job), job.value, job.waits, P, P + k - 1)
         /\ \A p \in PrepAql(job) : p \in PacketType /\ p.fetches \subseteq Fetched(job)
         /\ \A n \in P..(P + k - 1) : \E p \in PrepAql(job) : p.at = n
<1>1. /\ pc = "submit" /\ job.ring = "aql" /\ pc' = job.next /\ value' = value
  BY DEF SubmitCompute
<1>2. value \in Nat \ {0} /\ value > 1
  BY <1>1 DEF AMDTypes
<1>3. /\ job.value = value - 1 /\ job.next \in {"idle", "sync"} /\ job.bound \in BOOLEAN /\ job.waits \in BOOLEAN
      /\ job.offset \in Nat
      /\ job.queue \in Programs \cup Graphs \cup {Flush}
  BY <1>1 DEF AMDJob
<1>4. LastTaken = value - 2 /\ LastTaken' = value - 1 /\ job.value = LastTaken + 1 /\ job.value \in Nat
  BY <1>1, <1>2, <1>3 DEF LastTaken
<1>5. IsQueue(job.queue) /\ k < AqlSlots
  BY <1>3, AMDConstants
<1>6. PICK j : j = job
  OBVIOUS
<1>7. /\ k \in Nat \ {0} /\ Cardinality(PrepAql(j)) = k
      /\ Submission(PrepAql(j), j.value, j.waits, P, P + k - 1)
      /\ \A p \in PrepAql(j) : p \in PacketType /\ p.fetches \subseteq Fetched(j)
      /\ \A n \in P..(P + k - 1) : \E p \in PrepAql(j) : p.at = n
  BY <1>3, <1>4, <1>5, <1>6, Prepared
<1> QED
  BY <1>2, <1>3, <1>4, <1>5, <1>6, <1>7

\* Places of the ring less than its slots apart are different slots.
LEMMA Slots ==
  ASSUME NEW a \in Nat, NEW b \in Nat, NEW w \in Nat \ {0}, a - b < w, b - a < w, a % w = b % w
  PROVE  a = b
<1>1. CASE a < b
  BY <1>1, ModDistinct
<1>2. CASE b < a
  BY <1>2, ModDistinct
<1> QED
  BY <1>1, <1>2

\* What a compute submission leaves in the ring while it does not lap the device.
LEMMA AMDWrites ==
  ASSUME AMDTypes, AMDJob, AMDPackets, SubmitCompute, NEW P \in Nat, P = put["aql"], NEW G \in Nat, G = get["aql"],
         NEW k \in Nat, k = Cardinality(Starts(job.queue)), P + k - G <= AqlSlots
  PROVE  /\ put'["aql"] = P + k /\ Waiting' = Waiting \cup P..(P + k - 1)
         /\ \A n \in Waiting : PacketAt(n)' = PacketAt(n)
         /\ \A n \in P..(P + k - 1) : PacketAt(n)' \in PrepAql(job) /\ PacketAt(n)'.at = n
         /\ Packets' = Packets \cup PrepAql(job)
         /\ AMDPackets'
<1>1. PICK A \in Nat \ {0} : A = AqlSlots
  BY AMDConstants
<1>2. PICK N : N = PrepAql(job)
  OBVIOUS
<1>3. /\ G <= P /\ k \in Nat \ {0} /\ k < A /\ Cardinality(N) = k /\ P + k - G <= A
      /\ \A p \in N : p \in PacketType /\ p.at \in P..(P + k - 1)
      /\ \A p \in N : \A d \in N : p.at = d.at => p = d
      /\ \A n \in P..(P + k - 1) : \E p \in N : p.at = n
  <2>1. G <= P
    BY DEF AMDPackets
  <2>2. /\ k \in Nat \ {0} /\ k < AqlSlots /\ Cardinality(N) = k
        /\ Submission(N, job.value, job.waits, P, P + k - 1)
        /\ \A p \in N : p \in PacketType
        /\ \A n \in P..(P + k - 1) : \E p \in N : p.at = n
    BY <1>2, AMDSubmits
  <2> QED
    BY <1>1, <2>1, <2>2 DEF Submission
<1> DEFINE C(s) == CHOOSE p \in N : p.at % A = s
<1>4. /\ get' = get /\ put' = [put EXCEPT !["aql"] = @ + Cardinality(N)]
      /\ aql' = [s \in AqlSlot |-> IF \E p \in N : p.at % A = s THEN C(s) ELSE aql[s]]
  BY <1>1, <1>2 DEF SubmitCompute, WritePackets
<1>5. /\ AMDTypes /\ AMDPackets /\ AqlSlot = 0..(A - 1)
  BY <1>1 DEF AqlSlot
<1>6. put'["aql"] = P + k /\ get'["aql"] = G
  BY <1>3, <1>4, <1>5 DEF AMDTypes, Ring
<1>7. \A s \in AqlSlot : /\ (\E p \in N : p.at % A = s) => aql'[s] \in N /\ aql'[s].at % A = s
                         /\ ~(\E p \in N : p.at % A = s) => aql'[s] = aql[s]
  <2> TAKE s \in AqlSlot
  <2>1. aql'[s] = IF \E p \in N : p.at % A = s THEN C(s) ELSE aql[s]
    BY <1>4
  <2>2. (\E p \in N : p.at % A = s) => C(s) \in N /\ C(s).at % A = s
    BY Zenon
  <2> HIDE DEF C
  <2> QED
    BY <2>1, <2>2
<1> HIDE DEF C
<1>8. Waiting = G..(P - 1) /\ Waiting' = Waiting \cup P..(P + k - 1)
  <2>1. Waiting = G..(P - 1)
    BY DEF Waiting
  <2>2. Waiting' = G..(P + k - 1)
    <3>1. Waiting' = get'["aql"]..(put'["aql"] - 1)
      BY DEF Waiting
    <3> QED
      BY <1>6, <3>1, SMTT(20)
  <2> QED
    BY <1>3, <2>1, <2>2
<1>9. ASSUME NEW n \in G..(P - 1) PROVE PacketAt(n)' = PacketAt(n)
  <2>1. n \in Nat /\ n < P /\ G <= n
    BY <1>3
  <2>2. n % A \in AqlSlot
    BY <1>1, <1>5, <2>1
  <2>3. ASSUME NEW p \in N, p.at % A = n % A PROVE FALSE
    <3>1. PICK m \in Nat : m = p.at /\ m < P + k /\ P <= m
      BY <1>3
    <3>2. m - n < A /\ n - m < A
      BY <1>1, <1>3, <2>1, <3>1
    <3>3. m = n
      BY <2>1, <2>3, <3>1, <3>2, Slots
    <3> QED
      BY <2>1, <3>1, <3>3
  <2>4. aql'[n % A] = aql[n % A]
    BY <1>7, <2>2, <2>3
  <2> QED
    BY <1>1, <2>4 DEF PacketAt
<1>10. ASSUME NEW n \in P..(P + k - 1) PROVE PacketAt(n)' \in N /\ PacketAt(n)'.at = n
  <2>1. n \in Nat /\ P <= n /\ n < P + k
    BY <1>3
  <2>2. n % A \in AqlSlot
    BY <1>1, <1>5, <2>1
  <2>3. PICK c : c = aql'[n % A]
    OBVIOUS
  <2>4. \E p \in N : p.at % A = n % A
    BY <1>3
  <2>5. c \in N /\ c.at % A = n % A
    BY <1>7, <2>2, <2>3, <2>4
  <2>6. PICK m \in Nat : m = c.at /\ m < P + k /\ P <= m
    BY <1>3, <2>5
  <2>7. m - n < A /\ n - m < A
    BY <1>1, <1>3, <2>1, <2>6
  <2>8. m = n
    BY <2>1, <2>5, <2>6, <2>7, Slots
  <2> QED
    BY <1>1, <2>3, <2>5, <2>6, <2>8 DEF PacketAt
<1>11. Packets' = Packets \cup N
  <2>1. \A p \in N : \E n \in P..(P + k - 1) : p = PacketAt(n)'
    <3> TAKE p \in N
    <3>1. PICK n \in P..(P + k - 1) : n = p.at
      BY <1>3
    <3> QED
      BY <1>3, <1>10, <3>1
  <2>2. Packets' = {PacketAt(n)' : n \in Waiting'}
    BY DEF Packets
  <2>3. {PacketAt(n)' : n \in Waiting'} = {PacketAt(n) : n \in Waiting} \cup {PacketAt(n)' : n \in P..(P + k - 1)}
    BY <1>8, <1>9
  <2>4. {PacketAt(n)' : n \in P..(P + k - 1)} = N
    BY <1>10, <2>1
  <2> QED
    BY <2>2, <2>3, <2>4 DEF Packets
<1>12. AMDPackets'
  <2>1. \A n \in Waiting' : PacketAt(n)' \in PacketType /\ PacketAt(n)'.at = n
    BY <1>3, <1>5, <1>8, <1>9, <1>10, SMTT(20) DEF AMDPackets
  <2>2. ASSUME NEW s \in AqlSlot
        PROVE  aql'[s].at \in Int /\ (aql'[s].at >= G => aql'[s].at < P + k /\ aql'[s].at % A = s)
    <3>1. CASE \E p \in N : p.at % A = s
      <4>1. PICK c : c = aql'[s]
        OBVIOUS
      <4>2. c \in N /\ c.at % A = s
        BY <1>7, <3>1, <4>1
      <4>3. c.at \in P..(P + k - 1)
        BY <1>3, <4>2
      <4> QED
        BY <1>3, <4>1, <4>2, <4>3
    <3>2. CASE ~(\E p \in N : p.at % A = s)
      <4>1. aql'[s] = aql[s]
        BY <1>7, <3>2
      <4>2. aql[s].at \in Int /\ (aql[s].at >= G => aql[s].at < P /\ aql[s].at % A = s)
        BY <1>1, <1>5 DEF AMDPackets
      <4> QED
        BY <1>3, <4>1, <4>2
    <3> QED
      BY <3>1, <3>2
  <2>3. G <= P + k
    BY <1>3
  <2> QED
    BY <1>1, <1>6, <2>1, <2>2, <2>3 DEF AMDPackets
<1> QED
  BY <1>2, <1>6, <1>8, <1>9, <1>10, <1>11, <1>12

LEMMA AMDSubmitComputeKeeps ==
  ASSUME AMDInv, SubmitCompute
  PROVE  AMDInv'
<1>1. AMDTypes /\ AMDJob /\ AMDCopies
  BY DEF AMDInv, AMDBase
<1>2. PICK P \in Nat : P = put["aql"]
  BY <1>1 DEF AMDTypes, Ring
<1>3. PICK G \in Nat : G = get["aql"]
  BY <1>1 DEF AMDTypes, Ring
<1>4. PICK k : k = Cardinality(Starts(job.queue))
  OBVIOUS
<1>5. /\ value \in Nat /\ value > 1 /\ job.value = value - 1
      /\ LastTaken = value - 2 /\ LastTaken' = value - 1 /\ job.value = LastTaken + 1 /\ LastTaken \in Nat
      /\ k \in Nat \ {0} /\ Cardinality(PrepAql(job)) = k
      /\ Submission(PrepAql(job), job.value, job.waits, P, P + k - 1)
      /\ \A p \in PrepAql(job) : p \in PacketType /\ p.fetches \subseteq Fetched(job)
  BY <1>1, <1>2, <1>4, AMDSubmits
<1>6. /\ pc = "submit" /\ job.ring = "aql" /\ pc' \in {"idle", "sync"} /\ value' = value /\ signal' = signal /\ ib' = ib
      /\ sdma' = sdma /\ get' = get
      /\ ibs' = (IF job.bound THEN ibs
                 ELSE [i \in IBDword |-> IF i \in job.offset .. job.offset + Len(job.queue) - 1
                                         THEN job.value ELSE ibs[i]])
      /\ put' = [put EXCEPT !["aql"] = @ + Cardinality(PrepAql(job))]
      /\ overtaken' = overtaken /\ lapped' = (lapped \/ put'["aql"] > get["aql"] + AqlSlots)
  BY <1>1 DEF SubmitCompute, WritePackets, AMDJob
<1>7. put' = [put EXCEPT !["aql"] = P + k] /\ put'["aql"] = P + k /\ put'["sdma"] = put["sdma"] /\ P + k \in Nat
  BY <1>1, <1>2, <1>5, <1>6 DEF AMDTypes, Ring
<1>8. AMDTypes'
  <2>1. put' \in [Ring -> Nat]
    BY <1>1, <1>7 DEF AMDTypes
  <2>2. DOMAIN ibs' = IBDword
    BY <1>1, <1>6 DEF AMDTypes
  <2>3. DOMAIN aql' = AqlSlot
    BY DEF SubmitCompute, WritePackets
  <2> QED
    BY <1>1, <1>6, <2>1, <2>2, <2>3 DEF AMDTypes
<1>9. AMDJob'
  BY <1>6 DEF AMDJob
<1>10. AMDCopies' /\ Commands' = Commands
  BY <1>1, <1>6, <1>7 DEF AMDCopies, Copied, CommandAt, Commands
<1>11. ASSUME Orderly' PROVE AMDOrder'
  <2>1. AMDPackets /\ AMDMemory /\ AMDTime /\ AMDWaits
    BY <1>6, <1>11 DEF AMDInv, AMDOrder, Orderly
  <2>2. P + k - G <= AqlSlots
    <3>1. ~(P + k > G + AqlSlots)
      BY <1>3, <1>6, <1>7, <1>11 DEF Orderly
    <3> QED
      BY <1>5, <1>7, <3>1, AMDConstants
  <2>3. /\ Waiting' = Waiting \cup P..(P + k - 1)
        /\ \A n \in Waiting : PacketAt(n)' = PacketAt(n)
        /\ \A n \in P..(P + k - 1) : PacketAt(n)' \in PrepAql(job) /\ PacketAt(n)'.at = n
        /\ Packets' = Packets \cup PrepAql(job)
        /\ AMDPackets'
    <3>1. k \in Nat
      BY <1>5
    <3> QED
      BY <1>1, <1>2, <1>3, <1>4, <2>1, <2>2, <3>1, AMDWrites
  <2>4. AMDTime'
    <3>1. PICK S : S = Packets
      OBVIOUS
    <3>2. PICK T : T = Commands
      OBVIOUS
    <3>3. PICK N : N = PrepAql(job)
      OBVIOUS
    <3>4. PICK last \in Nat : last = LastTaken /\ LastTaken' = last + 1
      BY <1>5
    <3>5. PICK w : w = job.waits
      OBVIOUS
    <3>6. PICK b \in Int : b = P + k - 1
      BY <1>5
    <3>7. Submission(N, last + 1, w, P, b)
      BY <1>5, <3>3, <3>4, <3>5, <3>6
    <3>8. w \/ T = {}
      BY <1>6, <2>1, <3>2, <3>5 DEF AMDWaits
    <3>9. \A c \in S : c.at < P
      BY <1>2, <1>3, <2>1, <3>1 DEF Packets, Waiting, AMDPackets
    <3>10. Timeline(S, T, signal, last)
      BY <2>1, <3>1, <3>2, <3>4 DEF AMDTime
    <3>11. Timeline(S \cup N, T, signal, last + 1)
      BY <3>6, <3>7, <3>8, <3>9, <3>10, Joined
    <3> QED
      BY <1>6, <1>10, <2>3, <3>1, <3>2, <3>3, <3>4, <3>11 DEF AMDTime
  <2>5. Low' \in Nat /\ ib <= Low' /\ ib <= IBCap /\ IBCap \in Nat
    BY <1>1, <1>6, RoundedBelow, AMDConstants DEF Low, AMDTypes
  <2>6. ASSUME NEW n \in Waiting, NEW i \in PacketAt(n).fetches
        PROVE  i \in IBDword /\ i < Low' /\ ibs'[i] = PacketAt(n).value
    <3>1. i \in IBDword /\ i < Low /\ ibs[i] = PacketAt(n).value /\ i \in Int
      BY <2>1, <2>6 DEF AMDMemory, IBDword
    <3>2. CASE job.bound
      <4>1. Low' = Low
        BY <1>6, <3>2 DEF Low
      <4> QED
        BY <1>6, <3>1, <3>2, <4>1
    <3>3. CASE ~job.bound
      <4>1. ~job.wrapped
        <5>1. ~(signal >= LastTaken)
          <6>1. Timeline(Packets, Commands, signal, LastTaken) /\ Packets # {}
            BY <2>1, <2>6 DEF AMDTime, Packets
          <6> QED
            BY <6>1, NothingLeft
        <5> QED
          BY <1>5, <5>1 DEF SubmitCompute, Drained
      <4>2. Low = job.offset /\ job.offset \in Nat /\ ib = job.offset + Len(job.queue) /\ Len(job.queue) \in Nat
        BY <1>1, <1>6, <3>3, <4>1, AMDConstants DEF Low, AMDJob, IsQueue
      <4>3. i \notin job.offset .. job.offset + Len(job.queue) - 1
        BY <3>1, <4>2
      <4>4. ibs'[i] = ibs[i]
        BY <1>6, <3>1, <3>3, <4>3
      <4> QED
        BY <2>5, <3>1, <4>2, <4>4
    <3> QED
      BY <3>2, <3>3
  <2>7. ASSUME NEW p \in PrepAql(job), NEW i \in p.fetches
        PROVE  i \in IBDword /\ i < Low' /\ ibs'[i] = p.value
    <3>1. i \in Fetched(job) /\ p.value = job.value
      BY <1>5, <2>7 DEF Submission
    <3>2. ~job.bound /\ i \in job.offset .. (job.offset + Len(job.queue) - 1)
      BY <3>1 DEF Fetched
    <3>3. ib = job.offset + Len(job.queue) /\ Len(job.queue) \in Nat /\ job.offset \in Nat
      BY <1>1, <1>6, <3>2, AMDConstants DEF AMDJob, IsQueue
    <3>4. i \in IBDword
      BY <2>5, <3>2, <3>3 DEF IBDword
    <3>5. ibs'[i] = job.value
      BY <1>6, <3>2, <3>4
    <3> QED
      BY <2>5, <3>1, <3>2, <3>3, <3>4, <3>5
  <2>8. AMDMemory'
    <3>1. ASSUME NEW n \in Waiting', NEW i \in PacketAt(n)'.fetches
          PROVE  i \in IBDword /\ i < Low' /\ ibs'[i] = PacketAt(n)'.value
      <4>1. CASE n \in Waiting
        BY <2>3, <2>6, <3>1, <4>1
      <4>2. CASE n \in P..(P + k - 1)
        BY <2>3, <2>7, <3>1, <4>2
      <4> QED
        BY <2>3, <4>1, <4>2
    <3> QED
      BY <3>1 DEF AMDMemory
  <2>9. AMDWaits'
    BY <1>6 DEF AMDWaits
  <2> QED
    BY <2>3, <2>4, <2>8, <2>9 DEF AMDOrder
<1> QED
  BY <1>8, <1>9, <1>10, <1>11 DEF AMDInv, AMDBase

-----------------------------------------------------------------------------
(* The device. *)

LEMMA AMDRunPacketKeeps ==
  ASSUME AMDInv, RunPacket
  PROVE  AMDInv' /\ (Orderly /\ signal' # signal => signal' = signal + 1)
<1>1. AMDTypes /\ AMDJob /\ AMDCopies
  BY DEF AMDInv, AMDBase
<1>2. PICK P \in Nat : P = put["aql"]
  BY <1>1 DEF AMDTypes, Ring
<1>3. PICK G \in Nat : G = get["aql"]
  BY <1>1 DEF AMDTypes, Ring
<1>4. /\ G < P /\ Execute(PacketAt(G)) /\ get' = [get EXCEPT !["aql"] = @ + 1]
      /\ value' = value /\ pc' = pc /\ job' = job /\ ib' = ib /\ ibs' = ibs /\ aql' = aql /\ sdma' = sdma /\ put' = put
      /\ lapped' = lapped /\ overtaken' = overtaken
  BY <1>2, <1>3 DEF RunPacket, NextPacket, PacketAt, memory, history
<1>5. get'["aql"] = G + 1 /\ get'["sdma"] = get["sdma"] /\ get' \in [Ring -> Nat]
  BY <1>1, <1>3, <1>4 DEF AMDTypes, Ring
<1>6. AMDTypes' /\ AMDJob'
  BY <1>1, <1>4, <1>5 DEF AMDTypes, AMDJob
<1>7. AMDCopies' /\ Commands' = Commands
  BY <1>1, <1>4, <1>5 DEF AMDCopies, Commands, Copied, CommandAt
<1>8. ASSUME Orderly PROVE AMDOrder' /\ (signal' # signal => signal' = signal + 1)
  <2>1. AMDPackets /\ AMDMemory /\ AMDTime /\ AMDWaits
    BY <1>8 DEF AMDInv, AMDOrder
  <2>2. Waiting = G..(P - 1) /\ Waiting' = (G + 1)..(P - 1) /\ G \in Waiting /\ Waiting' = Waiting \ {G}
    <3>1. Waiting = G..(P - 1) /\ Waiting' = (G + 1)..(P - 1)
      BY <1>2, <1>3, <1>4, <1>5 DEF Waiting
    <3> QED
      BY <1>4, <3>1
  <2>3. /\ \A n : PacketAt(n)' = PacketAt(n)
        /\ \A n \in Waiting : PacketAt(n) \in PacketType /\ PacketAt(n).at = n
    BY <1>4, <2>1 DEF PacketAt, AMDPackets
  <2>4. PICK r : r = PacketAt(G)
    OBVIOUS
  <2>5. r \in Packets /\ (\A c \in Packets : c # r => r.at < c.at) /\ Packets' = Packets \ {r}
    <3>1. r.at = G /\ r \in Packets
      BY <2>2, <2>3, <2>4 DEF Packets
    <3>2. \A n \in Waiting : n = G \/ G < n
      BY <2>2
    <3>3. \A n \in Waiting : PacketAt(n) # r => r.at < PacketAt(n).at
      BY <2>3, <2>4, <3>1, <3>2
    <3>4. \A n \in Waiting : PacketAt(n) = r <=> n = G
      BY <2>3, <2>4, <3>1
    <3>5. Packets' = {PacketAt(n) : n \in Waiting \ {G}}
      BY <2>2, <2>3 DEF Packets
    <3> QED
      BY <3>1, <3>3, <3>4, <3>5 DEF Packets
  <2>6. PICK now : now = signal' /\ now = (IF r.signals THEN r.value ELSE signal)
    BY <1>4, <2>4 DEF Execute
  <2>7. r.waits => signal >= r.value - 1
    BY <1>4, <2>4 DEF Execute, Runnable
  <2>8. r.value = signal + 1 /\ Timeline(Packets \ {r}, Commands, now, LastTaken)
    <3>1. PICK S : S = Packets
      OBVIOUS
    <3>2. PICK T : T = Commands
      OBVIOUS
    <3>3. PICK sig : sig = signal
      OBVIOUS
    <3>4. PICK last : last = LastTaken
      OBVIOUS
    <3>5. Timeline(S, T, sig, last)
      BY <2>1, <3>1, <3>2, <3>3, <3>4 DEF AMDTime
    <3>6. /\ r \in S /\ (\A c \in S : c # r => r.at < c.at) /\ (r.waits => sig >= r.value - 1)
          /\ now = IF r.signals THEN r.value ELSE sig
      BY <2>5, <2>6, <2>7, <3>1, <3>3
    <3>7. r.value = sig + 1 /\ Timeline(S \ {r}, T, now, last)
      BY <3>5, <3>6, Ran
    <3> QED
      BY <3>1, <3>2, <3>3, <3>4, <3>7
  <2>9. AMDTime'
    <3>1. LastTaken' = LastTaken
      BY <1>4 DEF LastTaken
    <3> QED
      BY <1>7, <2>5, <2>6, <2>8, <3>1 DEF AMDTime
  <2>10. AMDPackets'
    <3>1. ASSUME NEW s \in AqlSlot
          PROVE  aql'[s].at \in Int /\ (aql'[s].at >= G + 1 => aql'[s].at < P /\ aql'[s].at % AqlSlots = s)
      BY <1>2, <1>3, <1>4, <2>1 DEF AMDPackets
    <3> QED
      BY <1>2, <1>4, <1>5, <2>2, <2>3, <3>1 DEF AMDPackets
  <2>11. AMDMemory'
    <3>1. Low' = Low
      BY <1>4 DEF Low
    <3> QED
      BY <1>4, <2>1, <2>2, <2>3, <3>1 DEF AMDMemory
  <2>12. AMDWaits'
    BY <1>4, <1>7, <2>1 DEF AMDWaits
  <2> QED
    BY <2>6, <2>8, <2>9, <2>10, <2>11, <2>12 DEF AMDOrder
<1>9. Orderly' => Orderly
  BY <1>4 DEF Orderly
<1> QED
  BY <1>6, <1>7, <1>8, <1>9 DEF AMDInv, AMDBase

\* The first SDMA command and what is left after it.
LEMMA AMDFirstCommand ==
  ASSUME AMDCopies, NEW g \in Nat, g = get["sdma"], NEW Q \in Nat, Q = put["sdma"], g < Q, NEW c, c = CommandAt(g)
  PROVE  /\ c \in CopyType /\ c.at = g /\ g + c.size <= Q /\ (g % SdmaSize) + c.size <= SdmaSize
         /\ c.value = 0 => ~c.waits /\ ~c.signals
         /\ \A n \in Copied : IF n < g + c.size THEN CommandAt(n) = c
                              ELSE CommandAt(n).at >= g + c.size /\ CommandAt(n) # c
<1>1. Copied = g..(Q - 1) /\ g \in Copied
  BY DEF Copied
<1>2. \A n \in Copied :
        /\ CommandAt(n) \in CopyType
        /\ g <= CommandAt(n).at /\ CommandAt(n).at <= n /\ n < CommandAt(n).at + CommandAt(n).size
        /\ CommandAt(n).at + CommandAt(n).size <= Q
        /\ (CommandAt(n).at % SdmaSize) + CommandAt(n).size <= SdmaSize
        /\ \A m \in Copied : CommandAt(n).at <= m /\ m < CommandAt(n).at + CommandAt(n).size => CommandAt(m) = CommandAt(n)
        /\ CommandAt(n).value = 0 => ~CommandAt(n).waits /\ ~CommandAt(n).signals
  BY DEF AMDCopies
<1>3. c \in CopyType /\ c.at \in Int /\ c.size \in Nat /\ c.at = g /\ c.size > 0
  BY <1>1, <1>2 DEF CopyType
<1>4. g + c.size <= Q /\ (g % SdmaSize) + c.size <= SdmaSize /\ (c.value = 0 => ~c.waits /\ ~c.signals)
  BY <1>1, <1>2, <1>3
<1>5. \A m \in Copied : m < g + c.size => CommandAt(m) = c
  BY <1>1, <1>2, <1>3
<1>6. ASSUME NEW n \in Copied, ~(n < g + c.size) PROVE CommandAt(n).at >= g + c.size /\ CommandAt(n) # c
  <2>1. PICK a \in Int : a = CommandAt(n).at /\ g <= a /\ a <= n
    BY <1>2 DEF CopyType
  <2>2. CommandAt(n) # c
    BY <1>2, <1>3, <1>6
  <2>3. CASE a < g + c.size
    <3>1. a \in Copied
      BY <1>1, <1>6, <2>1
    <3>2. CommandAt(a) = c
      BY <1>5, <2>3, <3>1
    <3>3. a < a + CommandAt(n).size
      BY <1>2, <2>1 DEF CopyType
    <3>4. CommandAt(a) = CommandAt(n)
      BY <1>2, <2>1, <3>1, <3>3
    <3> QED
      BY <2>2, <3>2, <3>4
  <2> QED
    BY <1>3, <2>1, <2>2, <2>3
<1> QED
  BY <1>3, <1>4, <1>5, <1>6

LEMMA AMDRunCommandKeeps ==
  ASSUME AMDInv, RunCommand
  PROVE  AMDInv' /\ (Orderly /\ signal' # signal => signal' = signal + 1)
<1>1. AMDTypes /\ AMDJob /\ AMDCopies
  BY DEF AMDInv, AMDBase
<1>2. PICK Q \in Nat : Q = put["sdma"]
  BY <1>1 DEF AMDTypes, Ring
<1>3. PICK g \in Nat : g = get["sdma"]
  BY <1>1 DEF AMDTypes, Ring
<1>4. PICK c : c = CommandAt(g)
  OBVIOUS
<1>5. /\ g < Q /\ Execute(c) /\ get' = [get EXCEPT !["sdma"] = @ + c.size]
      /\ value' = value /\ pc' = pc /\ job' = job /\ ib' = ib /\ ibs' = ibs /\ aql' = aql /\ sdma' = sdma /\ put' = put
      /\ lapped' = lapped /\ overtaken' = overtaken
  BY <1>2, <1>3, <1>4 DEF RunCommand, NextCommand, CommandAt, memory, history
<1>6. /\ c \in CopyType /\ c.at = g /\ g + c.size <= Q
      /\ (c.value = 0 => ~c.waits /\ ~c.signals)
      /\ \A n \in Copied : IF n < g + c.size THEN CommandAt(n) = c
                           ELSE CommandAt(n).at >= g + c.size /\ CommandAt(n) # c
  BY <1>1, <1>2, <1>3, <1>4, <1>5, AMDFirstCommand
<1>7. PICK e \in Nat : e = g + c.size /\ g < e /\ e <= Q
  BY <1>6 DEF CopyType
<1>8. get'["sdma"] = e /\ get'["aql"] = get["aql"] /\ get' \in [Ring -> Nat]
  BY <1>1, <1>3, <1>5, <1>7 DEF AMDTypes, Ring
<1>9. /\ Copied = g..(Q - 1) /\ Copied' = e..(Q - 1) /\ g \in Copied
      /\ \A n \in Copied' : n \in Copied /\ ~(n < g + c.size)
      /\ \A n \in Copied : n \in Copied' \/ n < g + c.size
  <2>1. Copied = g..(Q - 1) /\ Copied' = e..(Q - 1)
    BY <1>2, <1>3, <1>5, <1>8 DEF Copied
  <2> QED
    BY <1>5, <1>7, <2>1
<1>10. \A n : CommandAt(n)' = CommandAt(n)
  BY <1>5 DEF CommandAt
<1>11. Commands' = Commands \ {c}
  <2>1. Commands' = {x \in {CommandAt(n) : n \in Copied'} : x.value # 0}
    BY <1>10 DEF Commands
  <2>2. \A n \in Copied : CommandAt(n) # c => n \in Copied'
    BY <1>6, <1>9
  <2>3. \A n \in Copied' : n \in Copied /\ CommandAt(n) # c
    BY <1>6, <1>9
  <2> QED
    BY <2>1, <2>2, <2>3 DEF Commands
<1>12. \A x \in Commands : x # c => c.at < x.at
  <2>1. ASSUME NEW n \in Copied, CommandAt(n) # c PROVE c.at < CommandAt(n).at
    <3>1. CommandAt(n).at >= g + c.size
      BY <1>6, <2>1
    <3>2. CommandAt(n).at \in Int
      BY <1>1, <2>1 DEF AMDCopies, CopyType
    <3> QED
      BY <1>6, <1>7, <3>1, <3>2
  <2> QED
    BY <2>1 DEF Commands
<1>13. AMDTypes' /\ AMDJob'
  BY <1>1, <1>5, <1>8 DEF AMDTypes, AMDJob
<1>14. AMDCopies'
  <2>1. Q - e <= SdmaSize
    BY <1>1, <1>2, <1>3, <1>7, AMDConstants DEF AMDCopies
  <2>2. ASSUME NEW n \in Copied'
        PROVE  /\ sdma[n % SdmaSize].at = n /\ CommandAt(n) \in CopyType
               /\ e <= CommandAt(n).at /\ CommandAt(n).at <= n /\ n < CommandAt(n).at + CommandAt(n).size
               /\ CommandAt(n).at + CommandAt(n).size <= Q
               /\ (CommandAt(n).at % SdmaSize) + CommandAt(n).size <= SdmaSize
               /\ \A m \in Copied' : CommandAt(n).at <= m /\ m < CommandAt(n).at + CommandAt(n).size => CommandAt(m) = CommandAt(n)
               /\ CommandAt(n).value = 0 => ~CommandAt(n).waits /\ ~CommandAt(n).signals
    <3>1. n \in Copied /\ \A m \in Copied' : m \in Copied
      BY <1>9, <2>2
    <3>2. e <= CommandAt(n).at
      <4>1. CommandAt(n).at >= g + c.size /\ CommandAt(n).at \in Int
        BY <1>1, <1>6, <1>9, <2>2 DEF AMDCopies, CopyType
      <4> QED
        BY <1>7, <4>1
    <3> QED
      BY <1>1, <1>2, <3>1, <3>2 DEF AMDCopies
  <2>3. ASSUME NEW n \in Copied', CommandAt(n).value = 0
        PROVE  \E m \in Copied' : n < m /\ CommandAt(m).value # 0
    <3>1. PICK m \in Copied : n < m /\ CommandAt(m).value # 0
      BY <1>1, <1>9, <2>3 DEF AMDCopies
    <3>2. m \in Copied'
      BY <1>7, <1>9, <2>3, <3>1
    <3> QED
      BY <3>1, <3>2
  <2>4. get'["sdma"] <= put'["sdma"] /\ put'["sdma"] - get'["sdma"] <= SdmaSize
    BY <1>2, <1>5, <1>7, <1>8, <2>1
  <2> QED
    BY <1>2, <1>5, <1>8, <1>10, <2>2, <2>3, <2>4 DEF AMDCopies
<1>15. ASSUME Orderly PROVE AMDOrder' /\ (signal' # signal => signal' = signal + 1)
  <2>1. AMDPackets /\ AMDMemory /\ AMDTime /\ AMDWaits
    BY <1>15 DEF AMDInv, AMDOrder
  <2>2. Packets' = Packets
    BY <1>5, <1>8 DEF Packets, Waiting, PacketAt
  <2>3. PICK now : now = signal' /\ now = (IF c.signals THEN c.value ELSE signal)
    BY <1>5 DEF Execute
  <2>4. Timeline(Packets, Commands \ {c}, now, LastTaken) /\ (now # signal => now = signal + 1)
    <3>1. PICK S : S = Commands
      OBVIOUS
    <3>2. PICK T : T = Packets
      OBVIOUS
    <3>3. PICK sig : sig = signal
      OBVIOUS
    <3>4. PICK last : last = LastTaken
      OBVIOUS
    <3>5. Timeline(T, S, sig, last)
      BY <2>1, <3>1, <3>2, <3>3, <3>4 DEF AMDTime
    <3>6. CASE c.value = 0
      <4>1. now = sig /\ S \ {c} = S
        BY <1>6, <2>3, <3>1, <3>3, <3>6 DEF Commands
      <4> QED
        BY <3>1, <3>2, <3>3, <3>4, <3>5, <4>1
    <3>7. CASE c.value # 0
      <4>1. c \in S
        BY <1>4, <1>9, <3>1, <3>7 DEF Commands
      <4>2. /\ (\A x \in S : x # c => c.at < x.at) /\ (c.waits => sig >= c.value - 1)
            /\ now = IF c.signals THEN c.value ELSE sig
        BY <1>5, <1>12, <2>3, <3>1, <3>3 DEF Execute, Runnable
      <4>3. Timeline(S, T, sig, last)
        BY <3>5, Swap
      <4>4. c.value = sig + 1 /\ Timeline(S \ {c}, T, now, last)
        BY <4>1, <4>2, <4>3, Ran
      <4>5. PICK R : R = S \ {c}
        OBVIOUS
      <4>6. Timeline(T, R, now, last)
        BY <4>4, <4>5, Swap
      <4>7. now # sig => now = sig + 1
        BY <2>3, <3>3, <4>4
      <4> QED
        BY <3>1, <3>2, <3>3, <3>4, <4>5, <4>6, <4>7
    <3> QED
      BY <3>6, <3>7
  <2>5. AMDTime'
    <3>1. LastTaken' = LastTaken
      BY <1>5 DEF LastTaken
    <3> QED
      BY <1>11, <2>2, <2>3, <2>4, <3>1 DEF AMDTime
  <2>6. AMDPackets'
    BY <1>5, <1>8, <2>1 DEF AMDPackets, Waiting, PacketAt
  <2>7. AMDMemory'
    <3>1. Low' = Low
      BY <1>5 DEF Low
    <3> QED
      BY <1>5, <1>8, <2>1, <3>1 DEF AMDMemory, Waiting, PacketAt
  <2>8. AMDWaits'
    BY <1>5, <1>11, <2>1 DEF AMDWaits
  <2> QED
    BY <2>3, <2>4, <2>5, <2>6, <2>7, <2>8 DEF AMDOrder
<1>16. Orderly' => Orderly
  BY <1>5 DEF Orderly
<1> QED
  BY <1>13, <1>14, <1>15, <1>16 DEF AMDInv, AMDBase

-----------------------------------------------------------------------------
(* A copy submission. *)

LEMMA Dwords ==
  ASSUME NEW a \in Int, NEW b \in Int, NEW w \in Nat \ {0}, a - b < w, b - a < w, a % w = b % w
  PROVE  a = b
<1> DEFINE x == a \div w
           y == b \div w
<1>1. /\ x \in Int /\ y \in Int
      /\ a = w * x + (a % w) /\ b = w * y + (b % w)
  OBVIOUS
<1> HIDE DEF x, y
<1> DEFINE z == y - x
<1>2. a % w \in Int
  OBVIOUS
<1>3. z \in Int /\ b - a = w * z
  BY <1>1, <1>2
<1> HIDE DEF z
<1>4. CASE z <= -1
  <2>1. w * z <= w * (-1)
    BY <1>3, <1>4, Multiply
  <2> QED
    BY <1>3, <2>1
<1>5. CASE z >= 1
  <2>1. w * 1 <= w * z
    BY <1>3, <1>5, Multiply
  <2> QED
    BY <1>3, <2>1
<1>6. CASE z = 0
  BY <1>3, <1>6
<1> QED
  BY <1>3, <1>4, <1>5, <1>6

\* What a copy submission leaves in the ring.
LEMMA AMDCopyWrites ==
  ASSUME AMDTypes, AMDJob, AMDCopies, SubmitCopy, NEW Q \in Nat, Q = put["sdma"], NEW g \in Nat, g = get["sdma"],
         NEW t, t = TotalDwords(job.queue)
  PROVE  /\ t \in Nat \ {0} /\ Q + t - g <= SdmaSize /\ g <= Q
         /\ put'["sdma"] = Q + t /\ Copied' = Copied \cup Q..(Q + t - 1)
         /\ \A n \in Copied : sdma'[n % SdmaSize] = sdma[n % SdmaSize]
         /\ \A n \in Q..(Q + t - 1) : sdma'[n % SdmaSize] = DwordAt(Laid(job), n)
<1>1. PICK S \in Nat \ {0} : S = SdmaSize
  BY AMDConstants
<1>2. /\ AMDTypes /\ AMDJob /\ AMDCopies /\ pc = "submit" /\ job.ring = "sdma"
  BY DEF SubmitCopy
<1>3. job.queue \in Copies
  BY <1>2 DEF AMDJob
<1>4. t \in Nat \ {0}
  <2>1. PICK q \in Copies : q = job.queue
    BY <1>3
  <2>2. TotalDwords(q) \in Nat \ {0}
    BY <2>1, Tails
  <2> QED
    BY <2>1, <2>2
<1>5. PICK E \in Nat : E = Q + t
  BY <1>4
<1>6. g <= Q /\ Q - g <= S /\ E - g <= S
  <2>1. Q + t - g <= SdmaSize
    BY DEF SubmitCopy, Room
  <2> QED
    BY <1>1, <1>2, <1>4, <1>5, <2>1 DEF AMDCopies
<1> DEFINE C(i) == CHOOSE c \in E - S .. E - 1 : c % S = i
<1>7. /\ get' = get /\ put' = [put EXCEPT !["sdma"] = E]
      /\ sdma' = [i \in SdmaDword |-> IF C(i) >= Q THEN DwordAt(Laid(job), C(i)) ELSE sdma[i]]
  BY <1>1, <1>5 DEF SubmitCopy, WriteDwords
<1>8. put'["sdma"] = E /\ get'["sdma"] = g
  BY <1>2, <1>7 DEF AMDTypes, Ring
<1>9. Copied' = Copied \cup Q..(Q + t - 1)
  <2>1. Copied = g..(Q - 1) /\ Copied' = g..(E - 1) /\ E - 1 = Q + t - 1
    BY <1>4, <1>5, <1>8 DEF Copied
  <2>2. Q <= E
    BY <1>4, <1>5
  <2>3. g..(E - 1) = g..(Q - 1) \cup Q..(E - 1)
    BY <1>6, <2>2
  <2> QED
    BY <2>1, <2>3
<1>10. ASSUME NEW n \in g..(E - 1)
       PROVE  sdma'[n % S] = IF n >= Q THEN DwordAt(Laid(job), n) ELSE sdma[n % S]
  <2>1. n \in Int /\ n \in (E - S)..(E - 1)
    BY <1>1, <1>6
  <2>2. PICK i : i = n % S
    OBVIOUS
  <2>3. \E c \in (E - S)..(E - 1) : c % S = i
    BY <2>1, <2>2
  <2>4. C(i) \in (E - S)..(E - 1) /\ C(i) % S = i
    BY <2>3, Zenon
  <2>5. PICK c \in Int : c = C(i)
    BY <2>4
  <2>6. c % S = n % S /\ c - n < S /\ n - c < S
    BY <2>1, <2>2, <2>4, <2>5
  <2>7. c = n
    BY <1>1, <2>1, <2>6, Dwords
  <2>8. i \in SdmaDword
    BY <1>1, <2>1, <2>2 DEF SdmaDword
  <2>9. sdma'[i] = IF C(i) >= Q THEN DwordAt(Laid(job), C(i)) ELSE sdma[i]
    BY <1>7, <2>8
  <2> HIDE DEF C
  <2> QED
    BY <2>2, <2>5, <2>7, <2>9
<1> HIDE DEF C
<1>11. \A n \in Copied : n \in g..(E - 1) /\ ~(n >= Q)
  BY <1>4, <1>5 DEF Copied
<1>12. \A n \in Q..(Q + t - 1) : n \in g..(E - 1) /\ n >= Q
  BY <1>4, <1>5, <1>6
<1>13. \A n \in Copied : sdma'[n % S] = sdma[n % S]
  BY <1>10, <1>11
<1>14. \A n \in Q..(Q + t - 1) : sdma'[n % S] = DwordAt(Laid(job), n)
  BY <1>10, <1>12
<1>15. Q + t - g <= S
  BY <1>4, <1>5, <1>6
<1> QED
  BY <1>1, <1>4, <1>5, <1>6, <1>8, <1>9, <1>13, <1>14, <1>15

\* Each dword belongs to the command it lies in, and to a fill where there is none.
LEMMA DwordOf ==
  ASSUME NEW laid, NEW n \in Int,
         \A c \in laid : c.at \in Int /\ c.size \in Nat,
         \A c \in laid : \A d \in laid : /\ c.at = d.at => c = d
                                         /\ c.at < d.at => c.at + c.size <= d.at
  PROVE  /\ DwordAt(laid, n).at = n
         /\ \A c \in laid : c.at <= n /\ n < c.at + c.size => DwordAt(laid, n).cmd = c
         /\ (\A c \in laid : ~(c.at <= n /\ n < c.at + c.size)) => DwordAt(laid, n).cmd = Nop(n)
<1> DEFINE C == CHOOSE c \in laid : n \in c.at .. c.at + c.size - 1
<1>1. /\ DwordAt(laid, n).at = n
      /\ DwordAt(laid, n).cmd = IF \E c \in laid : n \in c.at .. c.at + c.size - 1 THEN C ELSE Nop(n)
  BY DEF DwordAt
<1>2. (\E c \in laid : n \in c.at .. c.at + c.size - 1) => C \in laid /\ n \in C.at .. C.at + C.size - 1
  BY Zenon
<1> HIDE DEF C
<1>3. \A c \in laid : n \in c.at .. c.at + c.size - 1 <=> c.at <= n /\ n < c.at + c.size
  OBVIOUS
<1>4. \A c \in laid : n \in c.at .. c.at + c.size - 1 => c = C
  BY <1>2, <1>3
<1> QED
  BY <1>1, <1>2, <1>3, <1>4

LEMMA AMDSubmitCopyKeeps ==
  ASSUME AMDInv, SubmitCopy
  PROVE  AMDInv'
<1>1. AMDTypes /\ AMDJob /\ AMDCopies
  BY DEF AMDInv, AMDBase
<1>2. PICK Q \in Nat : Q = put["sdma"]
  BY <1>1 DEF AMDTypes, Ring
<1>3. PICK g \in Nat : g = get["sdma"]
  BY <1>1 DEF AMDTypes, Ring
<1>4. PICK t : t = TotalDwords(job.queue)
  OBVIOUS
<1>5. PICK S \in Nat \ {0} : S = SdmaSize
  BY AMDConstants
<1>6. PICK laid : laid = Laid(job)
  OBVIOUS
<1>7. /\ t \in Nat \ {0} /\ Q + t - g <= S /\ g <= Q
      /\ put'["sdma"] = Q + t /\ Copied' = Copied \cup Q..(Q + t - 1)
      /\ \A n \in Copied : sdma'[n % S] = sdma[n % S]
      /\ \A n \in Q..(Q + t - 1) : sdma'[n % S] = DwordAt(laid, n)
  BY <1>1, <1>2, <1>3, <1>4, <1>5, <1>6, AMDCopyWrites
<1>8. /\ pc = "submit" /\ job.ring = "sdma" /\ pc' \in {"idle", "sync"} /\ value' = value /\ signal' = signal /\ ib' = ib
      /\ ibs' = ibs /\ aql' = aql /\ get' = get /\ lapped' = lapped /\ overtaken' = overtaken /\ put'["aql"] = put["aql"]
      /\ DOMAIN put' = DOMAIN put /\ DOMAIN sdma' = SdmaDword
  BY <1>1 DEF SubmitCopy, WriteDwords, AMDTypes, AMDJob, Ring, history
<1>9. /\ value \in Nat /\ value > 1 /\ job.value = value - 1 /\ job.value \in Nat /\ job.value # 0
      /\ job.queue \in Copies /\ job.bound /\ job.waits /\ job.waits \in BOOLEAN
  BY <1>1, <1>8 DEF AMDTypes, AMDJob
<1>10. /\ Submission(laid, job.value, job.waits, Q, Q + t - 1)
       /\ \A c \in laid : /\ c \in CopyType /\ Q <= c.at /\ c.at + c.size <= Q + t
                          /\ (c.at % S) + c.size <= S
       /\ \A c \in laid : \A d \in laid : c.at < d.at => c.at + c.size <= d.at
       /\ \E c \in laid : c.at + c.size = Q + t
  <2>1. PICK j : j = job
    OBVIOUS
  <2>2. j.queue \in Copies /\ j.value \in Nat /\ j.waits \in BOOLEAN /\ t = TotalDwords(j.queue) /\ laid = Laid(j)
    BY <1>4, <1>6, <1>9, <2>1
  <2>3. /\ Submission(Laid(j), j.value, j.waits, Q, Q + t - 1)
        /\ \A c \in Laid(j) : /\ c \in CopyType /\ Q <= c.at /\ c.at + c.size <= Q + t
                              /\ (c.at % SdmaSize) + c.size <= SdmaSize
        /\ \A c \in Laid(j) : \A d \in Laid(j) : c.at < d.at => c.at + c.size <= d.at
        /\ \E c \in Laid(j) : c.at + c.size = Q + t
    BY <1>2, <2>2, LaidOut
  <2> QED
    BY <1>5, <2>1, <2>2, <2>3
<1>11. \A c \in laid : c.at \in Int /\ c.size \in Nat /\ c.size > 0 /\ c.value = job.value /\ c.at < c.at + c.size
  BY <1>10 DEF CopyType, Submission
<1>12. \A c \in laid : \A d \in laid : c.at = d.at => c = d
  BY <1>10 DEF Submission
<1>13. /\ \A n \in Copied : CommandAt(n)' = CommandAt(n) /\ sdma'[n % S].at = n
       /\ \A n \in Q..(Q + t - 1) :
            /\ sdma'[n % S].at = n
            /\ \A c \in laid : c.at <= n /\ n < c.at + c.size => CommandAt(n)' = c
            /\ (\A c \in laid : ~(c.at <= n /\ n < c.at + c.size)) => CommandAt(n)' = Nop(n)
  <2>1. \A n \in Copied : CommandAt(n)' = CommandAt(n) /\ sdma'[n % S].at = n
    BY <1>1, <1>5, <1>7 DEF CommandAt, AMDCopies
  <2>2. ASSUME NEW n \in Q..(Q + t - 1)
        PROVE  /\ sdma'[n % S].at = n
               /\ \A c \in laid : c.at <= n /\ n < c.at + c.size => CommandAt(n)' = c
               /\ (\A c \in laid : ~(c.at <= n /\ n < c.at + c.size)) => CommandAt(n)' = Nop(n)
    <3>1. sdma'[n % S] = DwordAt(laid, n) /\ CommandAt(n)' = sdma'[n % S].cmd
      BY <1>5, <1>7 DEF CommandAt
    <3>2. n \in Int
      OBVIOUS
    <3>3. /\ DwordAt(laid, n).at = n
          /\ \A c \in laid : c.at <= n /\ n < c.at + c.size => DwordAt(laid, n).cmd = c
          /\ (\A c \in laid : ~(c.at <= n /\ n < c.at + c.size)) => DwordAt(laid, n).cmd = Nop(n)
      BY <1>10, <1>11, <1>12, <3>2, DwordOf
    <3> QED
      BY <3>1, <3>3
  <2> QED
    BY <2>1, <2>2
<1>14. Commands' = Commands \cup laid
  <2>1. Commands' = {c \in {CommandAt(n)' : n \in Copied'} : c.value # 0}
    BY DEF Commands
  <2>2. \A n \in Q..(Q + t - 1) : CommandAt(n)' \in laid \/ CommandAt(n)'.value = 0
    BY <1>13 DEF Nop
  <2>3. ASSUME NEW c \in laid PROVE c.value # 0 /\ \E n \in Q..(Q + t - 1) : CommandAt(n)' = c
    <3>1. c.at \in Q..(Q + t - 1)
      BY <1>7, <1>10, <1>11
    <3>2. c.at <= c.at /\ c.at < c.at + c.size
      BY <1>11
    <3>3. CommandAt(c.at)' = c
      <4>1. PICK n \in Q..(Q + t - 1) : n = c.at
        BY <3>1
      <4>2. CommandAt(n)' = c
        BY <1>13, <3>2, <4>1
      <4> QED
        BY <4>1, <4>2
    <3>4. c.value # 0
      BY <1>9, <1>11
    <3> QED
      BY <3>1, <3>3, <3>4
  <2>4. ASSUME NEW x \in Commands' PROVE x \in Commands \cup laid
    <3>1. PICK n \in Copied' : x = CommandAt(n)' /\ x.value # 0
      BY <2>1
    <3>2. CASE n \in Copied
      BY <1>13, <3>1, <3>2 DEF Commands
    <3>3. CASE n \in Q..(Q + t - 1)
      BY <2>2, <3>1, <3>3
    <3> QED
      BY <1>7, <3>2, <3>3
  <2>5. ASSUME NEW x \in Commands PROVE x \in Commands'
    <3>1. PICK n \in Copied : x = CommandAt(n) /\ x.value # 0
      BY DEF Commands
    <3> QED
      BY <1>7, <1>13, <2>1, <3>1
  <2>6. \A x \in laid : x \in Commands'
    BY <1>7, <2>1, <2>3
  <2> QED
    BY <2>4, <2>5, <2>6
<1>17. AMDTypes'
  <2>1. put' \in [Ring -> Nat]
    <3>1. Q + t \in Nat
      BY <1>7
    <3>2. put' = [put EXCEPT !["sdma"] = Q + t]
      BY <1>2, <1>4 DEF SubmitCopy, WriteDwords
    <3> QED
      BY <1>1, <3>1, <3>2 DEF AMDTypes
  <2> QED
    BY <1>1, <1>8, <2>1 DEF AMDTypes
<1>18. AMDJob'
  BY <1>8 DEF AMDJob
<1>21. AMDCopies'
  <2>1. ASSUME NEW n \in Copied
        PROVE  /\ CommandAt(n)' \in CopyType
               /\ g <= CommandAt(n)'.at /\ CommandAt(n)'.at <= n /\ n < CommandAt(n)'.at + CommandAt(n)'.size
               /\ CommandAt(n)'.at + CommandAt(n)'.size <= Q + t
               /\ (CommandAt(n)'.at % S) + CommandAt(n)'.size <= S
               /\ \A m \in Copied' : CommandAt(n)'.at <= m /\ m < CommandAt(n)'.at + CommandAt(n)'.size
                                     => CommandAt(m)' = CommandAt(n)'
               /\ CommandAt(n)'.value = 0 => ~CommandAt(n)'.waits /\ ~CommandAt(n)'.signals
    <3>1. PICK c : c = CommandAt(n)
      OBVIOUS
    <3>2. /\ CommandAt(n)' = c /\ c \in CopyType
          /\ g <= c.at /\ c.at <= n /\ n < c.at + c.size /\ c.at + c.size <= Q
          /\ (c.at % S) + c.size <= S
          /\ \A m \in Copied : c.at <= m /\ m < c.at + c.size => CommandAt(m) = c
          /\ (c.value = 0 => ~c.waits /\ ~c.signals)
      BY <1>1, <1>2, <1>3, <1>5, <1>13, <2>1, <3>1 DEF AMDCopies
    <3>3. c.at \in Int /\ c.size \in Nat
      BY <3>2 DEF CopyType
    <3>4. \A m \in Copied' : c.at <= m /\ m < c.at + c.size => CommandAt(m)' = c
      <4> TAKE m \in Copied'
      <4> HAVE c.at <= m /\ m < c.at + c.size
      <4>1. m \in Copied
        BY <1>7, <3>2, <3>3
      <4> QED
        BY <1>13, <3>2, <4>1
    <3> QED
      BY <1>7, <3>2, <3>3, <3>4
  <2>2. ASSUME NEW n \in Q..(Q + t - 1)
        PROVE  /\ CommandAt(n)' \in CopyType
               /\ g <= CommandAt(n)'.at /\ CommandAt(n)'.at <= n /\ n < CommandAt(n)'.at + CommandAt(n)'.size
               /\ CommandAt(n)'.at + CommandAt(n)'.size <= Q + t
               /\ (CommandAt(n)'.at % S) + CommandAt(n)'.size <= S
               /\ \A m \in Copied' : CommandAt(n)'.at <= m /\ m < CommandAt(n)'.at + CommandAt(n)'.size
                                     => CommandAt(m)' = CommandAt(n)'
               /\ CommandAt(n)'.value = 0 => ~CommandAt(n)'.waits /\ ~CommandAt(n)'.signals
    <3>1. n \in Nat /\ Q <= n /\ n < Q + t
      BY <1>7
    <3>2. \A m \in Copied' : Q <= m => m \in Q..(Q + t - 1)
      BY <1>2, <1>7 DEF Copied
    <3>3. CASE \E c \in laid : c.at <= n /\ n < c.at + c.size
      <4>1. PICK c \in laid : c.at <= n /\ n < c.at + c.size
        BY <3>3
      <4>2. CommandAt(n)' = c
        BY <1>13, <4>1
      <4>3. /\ c \in CopyType /\ Q <= c.at /\ c.at + c.size <= Q + t /\ (c.at % S) + c.size <= S
            /\ c.at \in Int /\ c.value # 0
        BY <1>9, <1>10, <1>11
      <4>4. \A m \in Copied' : c.at <= m /\ m < c.at + c.size => CommandAt(m)' = c
        <5> TAKE m \in Copied'
        <5> HAVE c.at <= m /\ m < c.at + c.size
        <5>1. m \in Int
          BY <1>7 DEF Copied
        <5>2. m \in Q..(Q + t - 1)
          BY <3>2, <4>3, <5>1
        <5> QED
          BY <1>13, <5>2
      <4> QED
        BY <1>7, <4>1, <4>2, <4>3, <4>4
    <3>4. CASE ~(\E c \in laid : c.at <= n /\ n < c.at + c.size)
      <4>1. CommandAt(n)' = Nop(n)
        BY <1>13, <3>4
      <4>2. PICK c : c = Nop(n)
        OBVIOUS
      <4>3. /\ c \in CopyType /\ c.at = n /\ c.size = 1 /\ c.waits = FALSE /\ c.signals = FALSE
        BY <3>1, <4>2 DEF Nop, CopyType
      <4>4. (n % S) + 1 <= S
        BY <3>1
      <4>5. \A m \in Copied' : n <= m /\ m < n + 1 => m = n
        BY <3>1 DEF Copied
      <4>6. n + 1 <= Q + t /\ g <= n /\ n <= n /\ n < n + 1
        BY <1>7, <3>1
      <4> QED
        BY <4>1, <4>2, <4>3, <4>4, <4>5, <4>6
    <3> QED
      BY <3>3, <3>4
  <2>3. get'["sdma"] = g /\ put'["sdma"] = Q + t
    BY <1>3, <1>7, <1>8
  <2>4. g <= Q + t /\ Q + t - g <= S
    BY <1>7
  <2>5. \A n \in Copied' : n \in Copied \/ n \in Q..(Q + t - 1)
    BY <1>7
  <2>6. \A n \in Copied' : sdma'[n % S].at = n
    BY <1>13, <2>5
  <2>7. ASSUME NEW n \in Copied'
        PROVE  /\ sdma'[n % SdmaSize].at = n /\ CommandAt(n)' \in CopyType
               /\ get'["sdma"] <= CommandAt(n)'.at /\ CommandAt(n)'.at <= n
               /\ n < CommandAt(n)'.at + CommandAt(n)'.size
               /\ CommandAt(n)'.at + CommandAt(n)'.size <= put'["sdma"]
               /\ (CommandAt(n)'.at % SdmaSize) + CommandAt(n)'.size <= SdmaSize
               /\ \A m \in Copied' : CommandAt(n)'.at <= m /\ m < CommandAt(n)'.at + CommandAt(n)'.size
                                     => CommandAt(m)' = CommandAt(n)'
               /\ CommandAt(n)'.value = 0 => ~CommandAt(n)'.waits /\ ~CommandAt(n)'.signals
    <3>1. CASE n \in Copied
      BY <1>5, <2>1, <2>3, <2>6, <3>1
    <3>2. CASE n \in Q..(Q + t - 1)
      BY <1>5, <2>2, <2>3, <2>6, <3>2
    <3> QED
      BY <2>5, <3>1, <3>2
  <2>8. get'["sdma"] <= put'["sdma"] /\ put'["sdma"] - get'["sdma"] <= SdmaSize
    BY <1>5, <1>7, <2>3, <2>4
  <2>9. ASSUME NEW n \in Copied', CommandAt(n)'.value = 0
        PROVE  \E m \in Copied' : n < m /\ CommandAt(m)'.value # 0
    <3>1. CASE n \in Copied
      <4>1. PICK m \in Copied : n < m /\ CommandAt(m).value # 0
        BY <1>1, <1>13, <2>9, <3>1 DEF AMDCopies
      <4> QED
        BY <1>7, <1>13, <4>1
    <3>2. CASE n \in Q..(Q + t - 1)
      <4>1. PICK c \in laid : c.at + c.size = Q + t
        BY <1>10
      <4>2. PICK m \in Q..(Q + t - 1) : m = c.at
        BY <1>7, <1>10, <1>11
      <4>3. CommandAt(m)' = c /\ c.value # 0
        BY <1>9, <1>11, <1>13, <4>2
      <4>4. ~(c.at <= n)
        BY <1>7, <1>13, <2>9, <3>2, <4>1, <4>3
      <4>5. n < m /\ m \in Copied'
        <5>1. m \in Copied'
          BY <1>7, <4>2
        <5>2. n \in Int /\ c.at \in Int /\ n < c.at
          BY <1>11, <3>2, <4>1, <4>4
        <5> QED
          BY <4>2, <5>1, <5>2
      <4> QED
        BY <4>3, <4>5
    <3> QED
      BY <2>5, <3>1, <3>2
  <2> QED
    BY <2>7, <2>8, <2>9 DEF AMDCopies
<1>22. ASSUME Orderly' PROVE AMDOrder'
  <2>1. AMDOrder
    BY <1>8, <1>22 DEF AMDInv, Orderly
  <2>2. Packets' = Packets
    BY <1>8 DEF Packets, Waiting, PacketAt
  <2>3. AMDTime'
    <3>1. PICK C : C = Commands
      OBVIOUS
    <3>2. PICK T : T = Packets
      OBVIOUS
    <3>3. PICK sig : sig = signal
      OBVIOUS
    <3>4. PICK last : last = LastTaken
      OBVIOUS
    <3>5. last \in Nat /\ LastTaken' = last + 1 /\ job.value = last + 1
      BY <1>8, <1>9, <3>4 DEF LastTaken
    <3>6. PICK b \in Int : b = Q + t - 1
      BY <1>7
    <3>7. PICK w : w = job.waits
      OBVIOUS
    <3>8. Submission(laid, last + 1, w, Q, b) /\ w
      BY <1>9, <1>10, <3>5, <3>6, <3>7
    <3>9. \A c \in C : c.at < Q
      <4>1. \A n \in Copied : CommandAt(n).at < Q
        BY <1>1, <1>2 DEF AMDCopies, CopyType
      <4> QED
        BY <3>1, <4>1 DEF Commands
    <3>10. Timeline(T, C, sig, last)
      BY <2>1, <3>1, <3>2, <3>3, <3>4 DEF AMDOrder, AMDTime
    <3>11. Timeline(C, T, sig, last)
      BY <3>10, Swap
    <3>12. Timeline(C \cup laid, T, sig, last + 1)
      <4>1. Submission(laid, last + 1, w, Q, b) /\ (w \/ T = {})
        BY <3>8
      <4> QED
        BY <3>5, <3>6, <3>9, <3>11, <4>1, Joined
    <3>13. PICK R : R = C \cup laid
      OBVIOUS
    <3>14. PICK next : next = last + 1
      OBVIOUS
    <3>15. Timeline(T, R, sig, next)
      BY <3>12, <3>13, <3>14, Swap
    <3> QED
      BY <1>8, <1>14, <2>2, <3>1, <3>2, <3>3, <3>5, <3>13, <3>14, <3>15 DEF AMDTime
  <2>4. AMDPackets'
    BY <1>8, <2>1 DEF AMDOrder, AMDPackets, Waiting, PacketAt
  <2>5. AMDMemory'
    <3>1. Low' = Low
      BY <1>8, <1>9 DEF Low
    <3> QED
      BY <1>8, <2>1, <3>1 DEF AMDOrder, AMDMemory, Waiting, PacketAt
  <2>6. AMDWaits'
    BY <1>8 DEF AMDWaits
  <2> QED
    BY <2>3, <2>4, <2>5, <2>6 DEF AMDOrder
<1> QED
  BY <1>17, <1>18, <1>21, <1>22 DEF AMDInv, AMDBase

-----------------------------------------------------------------------------
(* Every step, and the properties.                                          *)

LEMMA AMDStep ==
  ASSUME AMDInv, [Next]_vars
  PROVE  AMDInv' /\ (Orderly /\ signal' # signal => signal' = signal + 1)
<1>1. ASSUME UNCHANGED vars PROVE AMDInv' /\ signal' = signal
  BY <1>1, AMDSyncKeeps DEF vars
<1>2. ASSUME Host \/ SynchronizeReturns PROVE AMDInv' /\ signal' = signal
  <2>1. signal' = signal
    BY <1>2 DEF Host, Exec, Copy, Replay, InvalidateCaches, Synchronize, SynchronizeReturns
  <2> QED
    BY <1>2, <2>1, AMDHost
<1>3. ASSUME SubmitCompute \/ SubmitCopy PROVE AMDInv' /\ signal' = signal
  <2>1. signal' = signal
    BY <1>3 DEF SubmitCompute, SubmitCopy
  <2> QED
    BY <1>3, <2>1, AMDSubmitComputeKeeps, AMDSubmitCopyKeeps
<1>4. CASE Next
  BY <1>2, <1>3, <1>4, AMDRunPacketKeeps, AMDRunCommandKeeps DEF Next, Proceed
<1> QED
  BY <1>1, <1>4

LEMMA AMDFetches == AMDInv => CommandMemoryIntact
<1> SUFFICES ASSUME AMDInv, Orderly, NEW s \in AqlSlot, aql[s].at >= get["aql"], NEW i \in aql[s].fetches
             PROVE  i \in IBDword /\ ibs[i] = aql[s].value
  BY DEF CommandMemoryIntact
<1>1. AMDTypes /\ AMDPackets /\ AMDMemory
  BY DEF AMDInv, AMDBase, AMDOrder
<1>2. PICK n \in Int : n = aql[s].at /\ n < put["aql"] /\ n % AqlSlots = s
  BY <1>1 DEF AMDPackets
<1>3. n \in Waiting /\ PacketAt(n) = aql[s]
  BY <1>1, <1>2 DEF AMDTypes, Ring, Waiting, PacketAt
<1> QED
  BY <1>1, <1>3 DEF AMDMemory

LEMMA AMDReads == AMDInv => CopyCommandsIntact
<1> SUFFICES ASSUME AMDInv PROVE CopyCommandsIntact
  OBVIOUS
<1>1. AMDTypes /\ AMDJob /\ AMDCopies
  BY DEF AMDInv, AMDBase
<1>2. PICK Q \in Nat : Q = put["sdma"]
  BY <1>1 DEF AMDTypes, Ring
<1>3. PICK g \in Nat : g = get["sdma"]
  BY <1>1 DEF AMDTypes, Ring
<1>4. g <= Q /\ \A n \in g..(Q - 1) : sdma[n % SdmaSize].at = n
  BY <1>1, <1>2, <1>3 DEF AMDCopies, Copied
<1>5. ASSUME pc = "submit", job.ring = "sdma" PROVE TotalDwords(job.queue) < SdmaSize
  <2>1. PICK q \in Copies : q = job.queue
    BY <1>1, <1>5 DEF AMDJob
  <2>2. TotalDwords(q) < SdmaSize
    BY <1>2, <2>1, Tails
  <2> QED
    BY <2>1, <2>2
<1>6. ASSUME g < Q PROVE NextCommand.at = g /\ (g % SdmaSize) + NextCommand.size <= SdmaSize
  <2>1. PICK c : c = CommandAt(g)
    OBVIOUS
  <2>2. NextCommand = c
    BY <1>3, <2>1 DEF NextCommand, CommandAt
  <2>3. c.at = g /\ (g % SdmaSize) + c.size <= SdmaSize
    BY <1>1, <1>2, <1>3, <1>6, <2>1, AMDFirstCommand
  <2> QED
    BY <2>2, <2>3
<1> QED
  BY <1>2, <1>3, <1>4, <1>5, <1>6 DEF CopyCommandsIntact

LEMMA AMDGoesOn == AMDInv => NeverStuck
<1> SUFFICES ASSUME AMDInv, Orderly, HostWaits \/ get # put PROVE DeviceRuns
  BY DEF NeverStuck
<1>1. AMDTypes /\ AMDJob /\ AMDPackets /\ AMDCopies /\ AMDTime
  BY DEF AMDInv, AMDBase, AMDOrder
<1>2. PICK P \in Nat : P = put["aql"]
  BY <1>1 DEF AMDTypes, Ring
<1>3. PICK G \in Nat : G = get["aql"] /\ G <= P
  BY <1>1, <1>2 DEF AMDTypes, AMDPackets, Ring
<1>4. PICK Q \in Nat : Q = put["sdma"]
  BY <1>1 DEF AMDTypes, Ring
<1>5. PICK g \in Nat : g = get["sdma"] /\ g <= Q
  BY <1>1, <1>4 DEF AMDTypes, AMDCopies, Ring
<1>6. PICK c : c = CommandAt(g) /\ c = NextCommand
  BY <1>5 DEF NextCommand, CommandAt
<1>7. PICK r : r = PacketAt(G) /\ r = NextPacket
  BY <1>3 DEF NextPacket, PacketAt
<1>8. g < Q => /\ c \in CopyType /\ c.at = g /\ (c.value = 0 => ~c.waits)
               /\ \A n \in Copied : CommandAt(n) = c \/ CommandAt(n).at >= g + c.size
  BY <1>1, <1>4, <1>5, <1>6, AMDFirstCommand
<1>9. CASE g < Q /\ c.value = 0
  BY <1>4, <1>5, <1>6, <1>8, <1>9 DEF DeviceRuns, Runnable
<1>10. CASE ~(g < Q /\ c.value = 0)
  <2>1. g < Q => c \in Commands
    <3>1. g < Q => g \in Copied
      BY <1>4, <1>5 DEF Copied
    <3> QED
      BY <1>6, <1>10, <3>1 DEF Commands
  <2>2. G < P => r \in Packets
    <3>1. G < P => G \in Waiting
      BY <1>2, <1>3 DEF Waiting
    <3> QED
      BY <1>7, <3>1 DEF Packets
  <2>3. Timeline(Packets, Commands, signal, LastTaken) /\ signal \in Nat /\ LastTaken \in Nat
    BY <1>1 DEF AMDTime, Timeline
  <2>4. g < Q \/ G < P => signal < LastTaken
    BY <2>1, <2>2, <2>3, NothingLeft
  <2>5. signal < LastTaken
    <3>1. CASE pc = "sync" /\ signal < value - 1
      BY <3>1 DEF LastTaken
    <3>2. CASE pc = "submit" /\ job.ring = "aql" /\ ~Drained
      BY <1>1, <2>3, <3>2 DEF LastTaken, Drained, AMDTypes
    <3>3. CASE pc = "submit" /\ job.ring # "aql" /\ ~Room(job.queue)
      <4>1. PICK q \in Copies : q = job.queue
        BY <1>1, <3>3 DEF AMDJob, Ring
      <4>2. PICK t \in Nat : t = TotalDwords(q) /\ t < SdmaSize
        BY <1>4, <4>1, Tails
      <4>3. ~(Q + t - g <= SdmaSize)
        BY <1>4, <1>5, <3>3, <4>1, <4>2 DEF Room
      <4>4. g < Q
        BY <1>5, <4>2, <4>3, AMDConstants
      <4> QED
        BY <2>4, <4>4
    <3>4. CASE get # put
      <4>1. g < Q \/ G < P
        BY <1>1, <1>2, <1>3, <1>4, <1>5, <3>4 DEF AMDTypes, Ring
      <4> QED
        BY <2>4, <4>1
    <3> QED
      BY <3>1, <3>2, <3>3, <3>4 DEF HostWaits
  <2>6. \/ Packets # {} /\ \A x \in Packets : (\A y \in Packets : y # x => x.at < y.at) => x.value = signal + 1
        \/ Commands # {} /\ \A x \in Commands : (\A y \in Commands : y # x => x.at < y.at) => x.value = signal + 1
    BY <2>3, <2>5, HeadIsNext
  <2>7. ASSUME Packets # {}, \A x \in Packets : (\A y \in Packets : y # x => x.at < y.at) => x.value = signal + 1
        PROVE  DeviceRuns
    <3>1. G < P
      BY <1>2, <1>3, <2>7 DEF Packets, Waiting
    <3>2. \A n \in Waiting : PacketAt(n).at = n /\ (n = G \/ G < n)
      BY <1>1, <1>2, <1>3 DEF Waiting, AMDPackets
    <3>3. G \in Waiting
      BY <1>2, <1>3, <3>1 DEF Waiting
    <3>4. \A y \in Packets : y # r => r.at < y.at
      BY <1>7, <3>2, <3>3 DEF Packets
    <3>5. r.value = signal + 1
      BY <2>2, <2>7, <3>1, <3>4
    <3> QED
      BY <1>2, <1>3, <1>7, <2>3, <3>1, <3>5 DEF DeviceRuns, Runnable
  <2>8. ASSUME Commands # {}, \A x \in Commands : (\A y \in Commands : y # x => x.at < y.at) => x.value = signal + 1
        PROVE  DeviceRuns
    <3>1. g < Q
      BY <1>4, <1>5, <2>8 DEF Commands, Copied
    <3>2. \A n \in Copied : CommandAt(n).at \in Int
      BY <1>1 DEF AMDCopies, CopyType
    <3>3. c.at = g /\ c.size \in Nat /\ c.size > 0
      BY <1>8, <3>1 DEF CopyType
    <3>4. \A n \in Copied : CommandAt(n) = c \/ c.at < CommandAt(n).at
      BY <1>8, <3>1, <3>2, <3>3
    <3>5. \A y \in Commands : y # c => c.at < y.at
      BY <3>4 DEF Commands
    <3>6. c.value = signal + 1
      BY <2>1, <2>8, <3>1, <3>5
    <3> QED
      BY <1>4, <1>5, <1>6, <2>3, <3>1, <3>6 DEF DeviceRuns, Runnable
  <2> QED
    BY <2>6, <2>7, <2>8
<1> QED
  BY <1>9, <1>10

LEMMA AMDSpec == MCSpec => Init /\ [][Next]_vars
<1>1. MCInit => Init
  BY DEF MCInit
<1>2. [MCNext]_<<part, vars, nv_vars, graph_vars>> => [Next]_vars
  BY DEF MCNext
<1> QED
  BY <1>1, <1>2, PTL DEF MCSpec

LEMMA AMDInvariant == MCSpec => []AMDInv
<1>1. AMDInv /\ [Next]_vars => AMDInv'
  BY AMDStep
<1> QED
  BY <1>1, AMDStart, AMDSpec, PTL

-----------------------------------------------------------------------------
(* What the runs check of both devices. *)

\* EntriesIntact: an entry of a GPFIFO of an NV device that is yet to be taken is never written
\* over, although no code looks at how far the device has come (ops_nv.py:134-135).
THEOREM EntriesStay == MCSpec => []EntriesIntact
BY NVEntriesStay DEF EntriesIntact

\* CommandsIntact: the commands that a packet or an entry names stay in the command memory
\* until they have run, on an AMD device until its compute ring has lapped it or an invalidation
\* has overtaken a copy (ops_amd.py:503-511).
THEOREM CommandsStay == MCSpec => []CommandsIntact
<1>1. AMDInv => CommandMemoryIntact
  BY AMDFetches
<1> QED
  BY <1>1, AMDInvariant, NVCommandsStay, PTL DEF CommandsIntact

\* CopyCommandsIntact: the SDMA engine finds whole commands wherever a submission begins, also
\* after the compute ring has lapped the device.
THEOREM CopyCommandsStay == MCSpec => []CopyCommandsIntact
<1>1. AMDInv => CopyCommandsIntact
  BY AMDReads
<1> QED
  BY <1>1, AMDInvariant, PTL

\* QueuesGoOn: no drain of the command memory waits for itself, and neither device has commands
\* none of which can start, on an AMD device under the same condition.
THEOREM QueuesRunOn == MCSpec => []QueuesGoOn
<1>1. AMDInv => NeverStuck
  BY AMDGoesOn
<1> QED
  BY <1>1, AMDInvariant, NVGoesOn, PTL DEF QueuesGoOn

\* TimelineInOrder: two rings run at their own pace, and their one timeline takes every value
\* in turn, also when caches are invalidated while programs are in flight.
THEOREM TimelineStaysInOrder == MCSpec => TimelineInOrder
<1>1. AMDInv /\ [Next]_vars => [Orderly /\ signal' # signal => signal' = signal + 1]_vars
  BY AMDStep
<1> QED
  BY <1>1, AMDInvariant, AMDSpec, PTL DEF TimelineInOrder

\* What is left of SyncIsBarrier: when synchronize returns both rings are empty, unless the
\* compute ring has lapped the device or an invalidation has overtaken a copy
\* (tinygrad/device.py:611-613 promises it of every return).
THEOREM SyncStaysBarrier == MCSpec => [][Orderly /\ pc = "sync" /\ pc' = "idle" => get = put]_vars
<1>1. ASSUME AMDInv, Orderly, Next, pc = "sync", pc' = "idle" PROVE get = put
  <2>1. signal >= value - 1
    BY <1>1 DEF Next, Host, Proceed, Exec, Copy, Replay, InvalidateCaches, Synchronize, SubmitCompute, SubmitCopy,
                TakeCompute, Take, SynchronizeReturns, RunPacket, RunCommand
  <2>2. AMDTypes /\ AMDPackets /\ AMDCopies /\ AMDTime
    BY <1>1 DEF AMDInv, AMDBase, AMDOrder
  <2>3. Packets = {} /\ Commands = {}
    BY <1>1, <2>1, <2>2, NothingLeft DEF AMDTime, LastTaken
  <2>4. get["aql"] = put["aql"]
    <3>1. get["aql"] \notin Waiting
      BY <2>3 DEF Packets
    <3> QED
      BY <2>2, <3>1 DEF Waiting, AMDTypes, AMDPackets, Ring
  <2>5. get["sdma"] = put["sdma"]
    <3>1. \A n \in Copied : CommandAt(n).value = 0
      BY <2>3 DEF Commands
    <3>2. get["sdma"] \notin Copied
      BY <2>2, <3>1 DEF AMDCopies
    <3> QED
      BY <2>2, <3>2 DEF Copied, AMDTypes, AMDCopies, Ring
  <2> QED
    BY <2>2, <2>4, <2>5 DEF AMDTypes, Ring
<1>2. AMDInv /\ [Next]_vars => [Orderly /\ pc = "sync" /\ pc' = "idle" => get = put]_vars
  BY <1>1
<1> QED
  BY <1>2, AMDInvariant, AMDSpec, PTL

-----------------------------------------------------------------------------
(* Device graphs of every length, on any devices and buffers, and any number of replays.   *)

LEMMA GraphAssumed ==
  /\ Lane \in [Device -> Nat]
  /\ Cpu \subseteq Device /\ Shared \subseteq Device
  /\ MaxCalls \in Nat /\ MaxReplays \in Nat
  /\ \A b \in Buffer : /\ b \in [dev : Device, base : {b.base}, from : Nat, to : Nat]
                       /\ b.from < b.to
  BY MCAssumption DEF MCAssumption, Graph!GraphAssumption

View   == [dev : Device, base : {b.base : b \in Buffer}, from : Nat, to : Nat]
Wait   == [queue : Graph!Queue, no : Nat]
Record == [view : View, queue : Graph!Queue, no : Nat]
Call   == [out : Buffer, ins : SUBSET Buffer, queue : Graph!Queue, sync : SUBSET Device,
           chained : BOOLEAN, waits : SUBSET Wait, signal : BOOLEAN]

BuildTypes ==
  /\ calls \in Seq(Call)
  /\ Len(calls) <= MaxCalls
  /\ written \in SUBSET Record
  /\ read \in SUBSET Record
  /\ last_j \in [Graph!Queue -> Nat]
  /\ queue_access \in [Graph!Queue -> [Graph!Queue -> Nat]]
  /\ copy_to_devs \in [Device -> SUBSET Device]

ReplayTypes ==
  /\ replays \in 0..MaxReplays
  /\ ready \subseteq Device /\ ended \subseteq Device /\ busy \subseteq Shared
  /\ running \subseteq DOMAIN calls /\ done \subseteq DOMAIN calls /\ running \cap done = {}
  /\ graph_signals \in [Graph!Queue -> Nat]

-----------------------------------------------------------------------------
(* What the graph under construction knows about the calls it has.         *)

Bytes(v)   == v.from..(v.to - 1)
Same(v, w) == v.dev = w.dev /\ v.base = w.base

\* The calls a call waits for are earlier ones, on the queue whose signal it looks at, and
\* they signal.
WaitsTrue ==
  \A j \in DOMAIN calls : \A d \in calls[j].waits :
    /\ d.no \in 1..(j - 1)
    /\ calls[d.no].queue = d.queue
    /\ calls[d.no].signal

CopiesSignal == \A j \in DOMAIN calls : calls[j].queue[2] # 0 => calls[j].signal

\* A record names a call and its queue; what is recorded as written it did write.
RecordsTrue ==
  /\ \A x \in written \cup read : x.no \in DOMAIN calls /\ x.queue = calls[x.no].queue
  /\ \A x \in written : /\ Same(x.view, calls[x.no].out)
                        /\ calls[x.no].out.from <= x.view.from
                        /\ x.view.to <= calls[x.no].out.to

\* For every byte a call wrote, it or a later writer of the byte is on record.
WritersKnown ==
  \A i \in DOMAIN calls : \A k \in Bytes(calls[i].out) :
    \E x \in written : Same(x.view, calls[i].out) /\ k \in Bytes(x.view) /\ i <= x.no

\* For every byte a call read, it or a later writer of the byte is on record.
ReadersKnown ==
  \A i \in DOMAIN calls : \A b \in calls[i].ins : \A k \in Bytes(b) :
    \/ \E x \in read : Same(x.view, b) /\ k \in Bytes(x.view) /\ x.no = i
    \/ \E x \in written : Same(x.view, b) /\ k \in Bytes(x.view) /\ i < x.no

LastTrue ==
  \A q \in Graph!Queue :
    /\ last_j[q] = 0 => Graph!OnQueue(q) = {}
    /\ last_j[q] # 0 => last_j[q] \in Graph!OnQueue(q) /\ \A i \in Graph!OnQueue(q) : i <= last_j[q]

\* What a queue is known to have waited for, some call on it does wait for.
AccessTrue ==
  \A q \in Graph!Queue :
    /\ queue_access[q][q] < last_j[q] \/ (queue_access[q][q] = 0 /\ last_j[q] = 0)
    /\ \A p \in Graph!Queue \ {q} : queue_access[q][p] # 0 =>
         \E j \in Graph!OnQueue(q) : [queue |-> p, no |-> queue_access[q][p]] \in calls[j].waits

\* A call that is not left to the hardware waits for the one before it on its queue.
QueueKept ==
  \A j \in DOMAIN calls : calls[j].chained \/
    \A i \in Graph!OnQueue(calls[j].queue) : i < j =>
      \E d \in calls[j].waits : d.queue = calls[j].queue /\ i <= d.no

\* The call p is done when j starts: it is on the same queue, or j or an earlier call of
\* that queue waits for p or for a later call on the queue of p.
Implied(p, j) ==
  \/ calls[p].queue = calls[j].queue
  \/ \E k \in Graph!OnQueue(calls[j].queue) : k <= j /\
       \E d \in calls[k].waits : d.queue = calls[p].queue /\ p <= d.no

\* Between two calls in conflict there is a chain whose last link is a wait.
ConflictsWaited ==
  \A j \in DOMAIN calls : \A i \in 1..(j - 1) : Graph!Conflict(calls[i], calls[j]) =>
    \E p \in i..(j - 1) : (p = i \/ Graph!Conflict(calls[i], calls[p])) /\ Implied(p, j)

\* Sets of calls have a first and a last one.
Bounded ==
  \A S \in SUBSET DOMAIN calls : S # {} =>
    /\ \E m \in S : \A k \in S : k <= m
    /\ \E m \in S : \A k \in S : m <= k

GraphInv ==
  /\ WaitsTrue /\ CopiesSignal /\ RecordsTrue /\ WritersKnown /\ ReadersKnown
  /\ LastTrue /\ AccessTrue /\ QueueKept /\ ConflictsWaited /\ Bounded

-----------------------------------------------------------------------------
(* What holds while the graph is replayed.                                 *)

NotReplayed == replays = 0 => running = {} /\ done = {} /\ ended = Device

Started == running \cup done

InQueueOrder == \A j \in Started : \A i \in Graph!OnQueue(calls[j].queue) : i < j => i \in done

WaitsOver == \A j \in Started : \A d \in calls[j].waits : d.no \in done

\* The signal of a queue holds the last call on it that is done and graph_signals.
SignalsTrue ==
  \A q \in Graph!Queue :
    /\ graph_signals[q] # 0 => graph_signals[q] \in done /\ calls[graph_signals[q]].queue = q
    /\ \A j \in Graph!OnQueue(q) \cap done : calls[j].signal => j <= graph_signals[q]

\* A device whose timeline has its value has nothing left on its queues.
EndedDone == replays # 0 => \A d \in ended : \A j \in DOMAIN calls : calls[j].queue[1] = d => j \in done

ReplayInv ==
  /\ NotReplayed /\ InQueueOrder /\ WaitsOver /\ SignalsTrue /\ EndedDone
  /\ Graph!ConflictsInOrder

GraphFollowed == BuildTypes /\ ReplayTypes /\ GraphInv /\ ReplayInv

-----------------------------------------------------------------------------
(* Initially.                                                              *)

LEMMA QueueShape ==
  ASSUME NEW q \in Graph!Queue
  PROVE  q = <<q[1], q[2]>> /\ q[1] \in Device /\ q[2] \in Nat
  BY GraphAssumed DEF Graph!Queue

LEMMA GraphStart == Graph!Init => GraphFollowed
<1> SUFFICES ASSUME Graph!Init PROVE GraphFollowed
  OBVIOUS
<1>1. Len(calls) = 0 /\ DOMAIN calls = {} /\ calls \in Seq(Call)
  BY DEF Graph!Init
<1>2. BuildTypes /\ ReplayTypes
  BY <1>1, GraphAssumed DEF Graph!Init, BuildTypes, ReplayTypes
<1>3. GraphInv
  BY <1>1 DEF Graph!Init, GraphInv, WaitsTrue, CopiesSignal, RecordsTrue, WritersKnown,
              ReadersKnown,
     LastTrue, AccessTrue, QueueKept, ConflictsWaited, Bounded, Graph!OnQueue
<1>4. ReplayInv
  BY <1>1 DEF Graph!Init, ReplayInv, NotReplayed, InQueueOrder, WaitsOver, SignalsTrue, EndedDone,
     Graph!ConflictsInOrder, Started, Graph!OnQueue
<1> QED
  BY <1>2, <1>3, <1>4 DEF GraphFollowed

-----------------------------------------------------------------------------
(* The records of the dependency tracker.                                  *)

LEMMA BufferView ==
  ASSUME NEW b \in Buffer
  PROVE  b \in View /\ b.from < b.to /\ b.from \in Nat /\ b.to \in Nat
  BY GraphAssumed DEF View

\* Two views overlap where they have a byte in common.
LEMMA CommonByte ==
  ASSUME NEW v \in View, NEW w \in View, NEW k \in Bytes(v), k \in Bytes(w), Same(v, w)
  PROVE  Graph!Overlap(v, w)
  BY DEF View, Bytes, Same, Graph!Overlap

LEMMA OverlapByte ==
  ASSUME NEW v \in Buffer, NEW w \in Buffer, Graph!Overlap(v, w)
  PROVE  Same(v, w) /\ \E k \in Bytes(v) : k \in Bytes(w)
<1>1. Same(v, w)
  BY DEF Graph!Overlap, Same
<1>2. CASE v.from < w.from
  BY <1>2, BufferView, w.from \in Bytes(v), w.from \in Bytes(w), <1>1 DEF Graph!Overlap, Bytes
<1>3. CASE ~(v.from < w.from)
  BY <1>3, BufferView, v.from \in Bytes(v), v.from \in Bytes(w), <1>1 DEF Graph!Overlap, Bytes
<1> QED
  BY <1>2, <1>3

\* What a write leaves of a record: parts of it, and all the bytes that are not written.
LEMMA KeptParts ==
  ASSUME NEW x \in Record, NEW b \in Buffer, NEW y \in Graph!Kept(x, b)
  PROVE  /\ y \in Record /\ y.queue = x.queue /\ y.no = x.no
         /\ Same(y.view, x.view) /\ x.view.from <= y.view.from /\ y.view.to <= x.view.to
<1>1. CASE ~Graph!Overlap(x.view, b)
  BY <1>1 DEF Graph!Kept, Record, View, Same
<1>2. CASE y = [x EXCEPT !.view.to = b.from] /\ Graph!Overlap(x.view, b)
  BY <1>2, BufferView DEF Graph!Overlap, Record, View, Same
<1>3. CASE y = [x EXCEPT !.view.from = b.to] /\ Graph!Overlap(x.view, b)
  BY <1>3, BufferView DEF Graph!Overlap, Record, View, Same
<1> QED
  BY <1>1, <1>2, <1>3 DEF Graph!Kept

LEMMA KeptBytes ==
  ASSUME NEW x \in Record, NEW b \in Buffer, NEW k \in Bytes(x.view),
         ~(Same(x.view, b) /\ k \in Bytes(b))
  PROVE  \E y \in Graph!Kept(x, b) : k \in Bytes(y.view)
<1>0. b.from \in Nat /\ b.to \in Nat /\ x.view \in View /\ k \in Int
  BY BufferView DEF Record, View, Bytes
<1>1. CASE ~Graph!Overlap(x.view, b)
  BY <1>1 DEF Graph!Kept
<1>2. CASE Graph!Overlap(x.view, b) /\ k < b.from
  <2> DEFINE y == [x EXCEPT !.view.to = b.from]
  <2>1. y.view.from = x.view.from /\ y.view.to = b.from
    BY <1>0 DEF Record, View
  <2>2. k \in Bytes(y.view) /\ y.view.from < y.view.to
    BY <1>0, <1>2, <2>1 DEF Bytes, View
  <2> QED
    BY <1>2, <2>2 DEF Graph!Kept
<1>3. CASE Graph!Overlap(x.view, b) /\ ~(k < b.from)
  <2> DEFINE y == [x EXCEPT !.view.from = b.to]
  <2>1. y.view.from = b.to /\ y.view.to = x.view.to
    BY <1>0 DEF Record, View
  <2>2. b.to <= k
    BY <1>0, <1>3 DEF Graph!Overlap, Same, Bytes
  <2>3. k \in Bytes(y.view) /\ y.view.from < y.view.to
    BY <1>0, <2>1, <2>2 DEF Bytes, View
  <2> QED
    BY <1>3, <2>3 DEF Graph!Kept
<1> QED
  BY <1>1, <1>2, <1>3

-----------------------------------------------------------------------------
(* A call is added.                                                        *)

\* The same call, which may have been made to signal.
SameCall(c, e) ==
  /\ c.out = e.out /\ c.ins = e.ins /\ c.queue = e.queue /\ c.sync = e.sync
  /\ c.chained = e.chained /\ c.waits = e.waits /\ (e.signal => c.signal)

NextNo == Len(calls) + 1

\* What AddCall does to the list of calls.
Grown(out, ins, q, news) ==
  /\ calls' \in Seq(Call) /\ Len(calls') = NextNo
  /\ \A j \in DOMAIN calls : SameCall(calls'[j], calls[j])
  /\ calls'[NextNo].out = out /\ calls'[NextNo].ins = ins /\ calls'[NextNo].queue = q
  /\ calls'[NextNo].waits = {d \in news : ~(calls'[NextNo].chained /\ d.queue = q)}
  /\ q[2] # 0 => calls'[NextNo].signal
  /\ \A d \in calls'[NextNo].waits : d.no \in DOMAIN calls => calls'[d.no].signal

AllNews(out, ins, q) == Graph!News(Graph!Dependencies(out, ins, q), q)

LEMMA Domain ==
  ASSUME BuildTypes
  PROVE  /\ Len(calls) \in Nat /\ DOMAIN calls = 1..Len(calls) /\ NextNo \in Nat
         /\ \A j \in DOMAIN calls : calls[j] \in Call
  BY DEF BuildTypes, NextNo

LEMMA NewsTypes ==
  ASSUME BuildTypes, NEW out, NEW ins, NEW q \in Graph!Queue
  PROVE  /\ Graph!WaitNodes(out, ins) \subseteq Graph!Dependencies(out, ins, q)
         /\ Graph!Dependencies(out, ins, q) \in SUBSET Wait
         /\ AllNews(out, ins, q) \in SUBSET Wait
<1>1. Graph!Dependencies(out, ins, q) \in SUBSET Wait
  BY DEF Graph!Dependencies, Graph!WaitNodes, BuildTypes, Record, Wait
<1> QED
  BY <1>1 DEF AllNews, Graph!News, Graph!Dependencies

LEMMA AddGrows ==
  ASSUME BuildTypes, NEW out \in Buffer, NEW ins \in SUBSET Buffer, NEW q \in Graph!Queue,
         NEW copy \in BOOLEAN, Graph!AddCall(out, ins, q, copy)
  PROVE  Grown(out, ins, q, AllNews(out, ins, q))
<1> DEFINE news == AllNews(out, ins, q)
           devs == {b.dev : b \in {out} \cup ins}
           new  == Graph!NewCall(out, ins, q, copy, news, devs \ Graph!Known(news, q))
           old  == [j \in DOMAIN calls |-> IF \E d \in new.waits : d.no = j
                                         THEN [calls[j] EXCEPT !.signal = TRUE] ELSE calls[j]]
<1>1. calls' = Append(old, new)
  BY DEF Graph!AddCall, Graph!Enqueue, AllNews
<1>2. new \in Call
  <2>1. devs \in SUBSET Device
    BY BufferView DEF View
  <2>2. news \in SUBSET Wait
    BY NewsTypes
  <2>3. ASSUME NEW s PROVE Graph!LeftToHardware(q, copy, s, news) \in BOOLEAN
    BY DEF Graph!LeftToHardware
  <2>4. (q[2] # 0) \in BOOLEAN
    OBVIOUS
  <2> QED
    BY <2>1, <2>2, <2>3, <2>4 DEF Graph!NewCall, Call
<1>3. \A j \in DOMAIN calls : old[j] \in Call /\ SameCall(old[j], calls[j])
  BY Domain DEF Call, SameCall
<1>4. old \in Seq(Call) /\ Len(old) = Len(calls) /\ DOMAIN old = DOMAIN calls
  <2>1. old \in [1..Len(calls) -> Call]
    BY <1>3, Domain
  <2>2. old \in Seq(Call)
    <3>0. Len(calls) \in Nat
      BY Domain
    <3>1. PICK n \in Nat : n = Len(calls)
      BY <3>0
    <3> HIDE DEF old
    <3>2. old \in [1..n -> Call]
      BY <2>1, <3>1
    <3> QED
      BY <3>2, SeqDef
  <2> HIDE DEF old
  <2>3. DOMAIN old = 1..Len(calls)
    BY <2>1
  <2>4. DOMAIN old = 1..Len(old) /\ Len(old) \in Nat
    BY <2>2, LenProperties
  <2>5. Len(old) = Len(calls)
    BY <2>3, <2>4, Domain
  <2> QED
    BY <2>2, <2>3, <2>5, Domain
<1> HIDE DEF old, new
<1>5. /\ calls' \in Seq(Call) /\ Len(calls') = NextNo /\ calls'[NextNo] = new
      /\ \A j \in DOMAIN calls : calls'[j] = old[j]
  BY <1>1, <1>2, <1>4, Domain DEF NextNo
<1>6. /\ new.out = out /\ new.ins = ins /\ new.queue = q /\ (q[2] # 0 => new.signal)
      /\ new.waits = {d \in news : ~(new.chained /\ d.queue = q)}
  BY DEF new, Graph!NewCall
<1>7. ASSUME NEW d \in new.waits, d.no \in DOMAIN calls
      PROVE  old[d.no].signal
  BY <1>7, Domain DEF old, Call
<1> QED
  BY <1>3, <1>5, <1>6, <1>7 DEF Grown

\* What AddCall does, with the rest of the bookkeeping.
Added(out, ins, q) ==
  /\ Grown(out, ins, q, AllNews(out, ins, q))
  /\ Graph!Access(out, ins, q, NextNo)
  /\ last_j' = [last_j EXCEPT ![q] = NextNo]
  /\ queue_access' = [queue_access EXCEPT ![q] =
       [p \in Graph!Queue |-> IF \E d \in AllNews(out, ins, q) : d.queue = p
                        THEN (CHOOSE d \in AllNews(out, ins, q) : d.queue = p).no ELSE @[p]]]

LEMMA AddCallAdds ==
  ASSUME BuildTypes, NEW out \in Buffer, NEW ins \in SUBSET Buffer, NEW q \in Graph!Queue,
         NEW copy \in BOOLEAN, Graph!AddCall(out, ins, q, copy)
  PROVE  Added(out, ins, q) /\ replays = 0 /\ Len(calls) < MaxCalls
<1>1. Grown(out, ins, q, AllNews(out, ins, q))
  BY AddGrows
<1> QED
  BY <1>1 DEF Graph!AddCall, Graph!Enqueue, Added, AllNews, NextNo

LEMMA GrownDomain ==
  ASSUME BuildTypes, NEW out, NEW ins, NEW q, NEW news, Grown(out, ins, q, news)
  PROVE  /\ DOMAIN calls' = 1..NextNo /\ DOMAIN calls = 1..(NextNo - 1)
         /\ DOMAIN calls' = DOMAIN calls \cup {NextNo} /\ NextNo \notin DOMAIN calls
         /\ NextNo \in Nat \ {0}
  BY Domain, LenProperties DEF Grown, NextNo

LEMMA AddedCalls ==
  ASSUME BuildTypes, NEW out, NEW ins, NEW q, Added(out, ins, q)
  PROVE  /\ DOMAIN calls' = 1..NextNo /\ DOMAIN calls = 1..(NextNo - 1)
         /\ DOMAIN calls' = DOMAIN calls \cup {NextNo} /\ NextNo \notin DOMAIN calls
         /\ NextNo \in Nat \ {0}
         /\ \A j \in DOMAIN calls : SameCall(calls'[j], calls[j])
         /\ calls'[NextNo].out = out /\ calls'[NextNo].ins = ins /\ calls'[NextNo].queue = q
<1>1. Grown(out, ins, q, AllNews(out, ins, q))
  BY DEF Added
<1> QED
  BY <1>1, GrownDomain, <1>1 DEF Grown

LEMMA AddRecords ==
  ASSUME BuildTypes, RecordsTrue, NEW out \in Buffer, NEW ins \in SUBSET Buffer, NEW q \in Graph!Queue,
         Added(out, ins, q)
  PROVE  /\ RecordsTrue'
         /\ written' \in SUBSET Record /\ read' \in SUBSET Record
<1> DEFINE w == [view |-> out, queue |-> q, no |-> NextNo]
<1>1. w \in Record /\ \A b \in ins : [w EXCEPT !.view = b] \in Record
  BY BufferView, Domain DEF Record
<1>2. /\ calls'[NextNo].queue = q /\ calls'[NextNo].out = out /\ NextNo \in DOMAIN calls'
      /\ \A i \in DOMAIN calls : i \in DOMAIN calls' /\ calls'[i].queue = calls[i].queue
                                                    /\ calls'[i].out = calls[i].out
  BY AddedCalls DEF SameCall
<1>3. ASSUME NEW y \in written', y # w
      PROVE  \E x \in written : y \in Graph!Kept(x, out)
  BY <1>3 DEF Added, Graph!Access, Graph!Hide
<1>4. ASSUME NEW y \in read'
      PROVE  \/ \E x \in read : y \in Graph!Kept(x, out)
             \/ \E b \in ins : y = [view |-> b, queue |-> q, no |-> NextNo]
  BY DEF Added, Graph!Access, Graph!Hide
<1>5. ASSUME NEW x \in written \cup read, NEW y \in Graph!Kept(x, out)
      PROVE  y \in Record /\ y.no \in DOMAIN calls' /\ y.queue = calls'[y.no].queue
  <2>1. x \in Record /\ x.no \in DOMAIN calls /\ x.queue = calls[x.no].queue
    BY DEF BuildTypes, RecordsTrue
  <2> QED
    BY <1>2, <2>1, KeptParts
<1>6. ASSUME NEW x \in written, NEW y \in Graph!Kept(x, out)
      PROVE  /\ Same(y.view, calls'[y.no].out)
             /\ calls'[y.no].out.from <= y.view.from
             /\ y.view.to <= calls'[y.no].out.to
  <2>1. x \in Record /\ x.no \in DOMAIN calls /\ calls[x.no].out \in Buffer /\ y \in Record
    BY Domain, KeptParts DEF BuildTypes, RecordsTrue, Call
  <2>2. calls[x.no].out.from \in Nat /\ calls[x.no].out.to \in Nat
    BY <2>1, BufferView
  <2> QED
    BY <1>2, <2>1, <2>2, KeptParts DEF RecordsTrue, Same, Record, View
<1>7. Same(w.view, calls'[w.no].out) /\ calls'[w.no].out.from <= w.view.from /\ w.view.to <= calls'[w.no].out.to
  BY <1>2, BufferView DEF Same
<1> QED
  BY <1>1, <1>2, <1>3, <1>4, <1>5, <1>6, <1>7 DEF RecordsTrue

\* A byte stays on record, or is on record as written by the new call.
LEMMA ByteStays ==
  ASSUME BuildTypes, NEW out \in Buffer, NEW ins \in SUBSET Buffer, NEW q \in Graph!Queue,
         Added(out, ins, q), NEW x \in written \cup read, NEW k \in Bytes(x.view)
  PROVE  \/ \E y \in written' : Same(y.view, x.view) /\ k \in Bytes(y.view) /\ y.no = NextNo
         \/ \E y : /\ x \in written => y \in written'
                   /\ x \in read => y \in read'
                   /\ Same(y.view, x.view) /\ k \in Bytes(y.view) /\ y.no = x.no
<1> DEFINE w == [view |-> out, queue |-> q, no |-> NextNo]
<1>1. CASE Same(x.view, out) /\ k \in Bytes(out)
  <2>1. w \in written' /\ Same(w.view, x.view) /\ k \in Bytes(w.view)
    BY <1>1 DEF Added, Graph!Access, Same
  <2> QED
    BY <2>1
<1>2. CASE ~(Same(x.view, out) /\ k \in Bytes(out))
  <2>1. x \in Record
    BY DEF BuildTypes
  <2>2. PICK y \in Graph!Kept(x, out) : k \in Bytes(y.view)
    BY <1>2, <2>1, KeptBytes
  <2>3. Same(y.view, x.view) /\ y.no = x.no
    BY <2>1, KeptParts
  <2>4. (x \in written => y \in written') /\ (x \in read => y \in read')
    BY DEF Added, Graph!Access, Graph!Hide
  <2> QED
    BY <2>2, <2>3, <2>4
<1> QED
  BY <1>1, <1>2

LEMMA AddWriters ==
  ASSUME BuildTypes, WritersKnown, RecordsTrue,
         NEW out \in Buffer, NEW ins \in SUBSET Buffer, NEW q \in Graph!Queue, Added(out, ins, q)
  PROVE  WritersKnown'
<1> SUFFICES ASSUME NEW i \in DOMAIN calls', NEW k \in Bytes(calls'[i].out)
             PROVE  \E y \in written' : /\ Same(y.view, calls'[i].out) /\ k \in Bytes(y.view)
                                        /\ i <= y.no
  BY DEF WritersKnown, Bytes
<1>1. CASE i = NextNo
  <2> DEFINE w == [view |-> out, queue |-> q, no |-> NextNo]
  <2>1. w \in written'
    BY DEF Added, Graph!Access
  <2>2. calls'[i].out = out /\ NextNo <= NextNo
    BY <1>1, AddedCalls
  <2> QED
    BY <1>1, <2>1, <2>2 DEF Same
<1>2. CASE i \in DOMAIN calls
  <2>1. calls'[i].out = calls[i].out
    BY <1>2, AddedCalls DEF SameCall
  <2>2. PICK x \in written : Same(x.view, calls[i].out) /\ k \in Bytes(x.view) /\ i <= x.no
    BY <1>2, <2>1 DEF WritersKnown
  <2>3. x.no \in DOMAIN calls /\ i <= NextNo
    BY <1>2, AddedCalls DEF RecordsTrue
  <2> QED
    BY <2>1, <2>2, <2>3, ByteStays, SMTT(20) DEF Same
<1> QED
  BY <1>1, <1>2, AddedCalls

LEMMA AddReaders ==
  ASSUME BuildTypes, ReadersKnown, RecordsTrue,
         NEW out \in Buffer, NEW ins \in SUBSET Buffer, NEW q \in Graph!Queue, Added(out, ins, q)
  PROVE  ReadersKnown'
<1> DEFINE Known1(i, b, k) ==
             \/ \E y \in read' : Same(y.view, b) /\ k \in Bytes(y.view) /\ y.no = i
             \/ \E y \in written' : Same(y.view, b) /\ k \in Bytes(y.view) /\ i < y.no
<1> SUFFICES ASSUME NEW i \in DOMAIN calls', NEW b \in calls'[i].ins, NEW k \in Bytes(b)
             PROVE  Known1(i, b, k)
  BY DEF ReadersKnown, Bytes
<1>1. CASE i = NextNo
  <2> DEFINE r == [view |-> b, queue |-> q, no |-> NextNo]
  <2>1. b \in ins
    BY <1>1, AddedCalls
  <2>2. r \in read'
    BY <2>1 DEF Added, Graph!Access
  <2> QED
    BY <1>1, <2>2 DEF Same
<1>2. CASE i \in DOMAIN calls
  <2>1. b \in calls[i].ins /\ i < NextNo
    BY <1>2, AddedCalls DEF SameCall
  <2>2. CASE \E x \in read : Same(x.view, b) /\ k \in Bytes(x.view) /\ x.no = i
    <3>1. PICK x \in read : Same(x.view, b) /\ k \in Bytes(x.view) /\ x.no = i
      BY <2>2
    <3>2. CASE \E y \in written' : Same(y.view, x.view) /\ k \in Bytes(y.view) /\ y.no = NextNo
      BY <2>1, <3>1, <3>2 DEF Same
    <3>3. CASE \E y \in read' : Same(y.view, x.view) /\ k \in Bytes(y.view) /\ y.no = x.no
      BY <3>1, <3>3 DEF Same
    <3> QED
      BY <3>1, <3>2, <3>3, ByteStays
  <2>3. CASE \E x \in written : Same(x.view, b) /\ k \in Bytes(x.view) /\ i < x.no
    <3>1. PICK x \in written : Same(x.view, b) /\ k \in Bytes(x.view) /\ i < x.no
      BY <2>3
    <3>2. PICK y \in written' : /\ Same(y.view, x.view) /\ k \in Bytes(y.view)
                                /\ y.no = NextNo \/ y.no = x.no
      BY <3>1, ByteStays
    <3>3. Same(y.view, b) /\ i < y.no
      BY <2>1, <3>1, <3>2 DEF Same
    <3> QED
      BY <3>2, <3>3
  <2> QED
    BY <1>2, <2>1, <2>2, <2>3 DEF ReadersKnown
<1> QED
  BY <1>1, <1>2, AddedCalls

LEMMA AddLast ==
  ASSUME BuildTypes, LastTrue, NEW out, NEW ins, NEW q \in Graph!Queue, Added(out, ins, q)
  PROVE  /\ LastTrue' /\ last_j' \in [Graph!Queue -> Nat]
         /\ \A p \in Graph!Queue : Graph!OnQueue(p)' = Graph!OnQueue(p) \cup (IF p = q THEN {NextNo} ELSE {})
<1>1. \A p \in Graph!Queue : Graph!OnQueue(p)' = Graph!OnQueue(p) \cup (IF p = q THEN {NextNo} ELSE {})
  BY AddedCalls DEF Graph!OnQueue, SameCall
<1>2. last_j' \in [Graph!Queue -> Nat]
  BY AddedCalls DEF Added, BuildTypes
<1>3. \A p \in Graph!Queue : last_j'[p] = IF p = q THEN NextNo ELSE last_j[p]
  BY DEF Added, BuildTypes
<1>4. \A p \in Graph!Queue : \A i \in Graph!OnQueue(p) : i < NextNo
  BY AddedCalls DEF Graph!OnQueue
<1>5. NextNo # 0 /\ NextNo <= NextNo
  BY AddedCalls
<1>6. ASSUME NEW p \in Graph!Queue
      PROVE  /\ last_j'[p] = 0 => Graph!OnQueue(p)' = {}
             /\ last_j'[p] # 0 => last_j'[p] \in Graph!OnQueue(p)' /\ \A i \in Graph!OnQueue(p)' : i <= last_j'[p]
  <2>1. CASE p = q
    <3>1. Graph!OnQueue(p)' = Graph!OnQueue(p) \cup {NextNo} /\ last_j'[p] = NextNo
      BY <1>1, <1>3, <2>1
    <3>2. \A i \in Graph!OnQueue(p) : i <= NextNo
      BY AddedCalls DEF Graph!OnQueue
    <3> QED
      BY <3>1, <3>2, <1>5
  <2>2. CASE p # q
    BY <1>1, <1>3, <2>2 DEF LastTrue
  <2> QED
    BY <2>1, <2>2
<1> QED
  BY <1>1, <1>2, <1>6 DEF LastTrue

-----------------------------------------------------------------------------
(* The waits of a new call.                                                *)

\* Every dependency is covered: by a news, or by what the queue has waited for before.
LEMMA DependencyCovered ==
  ASSUME BuildTypes, RecordsTrue, LastTrue, Bounded, NEW out, NEW ins, NEW q \in Graph!Queue,
         NEW d \in Graph!Dependencies(out, ins, q)
  PROVE  /\ d.no \in DOMAIN calls /\ calls[d.no].queue = d.queue /\ d.queue \in Graph!Queue
         /\ \/ d.no <= queue_access[q][d.queue]
            \/ \E e \in AllNews(out, ins, q) : e.queue = d.queue /\ d.no <= e.no
<1> DEFINE deps == Graph!Dependencies(out, ins, q)
           T == {i \in DOMAIN calls : [queue |-> d.queue, no |-> i] \in deps}
<1>1. ASSUME NEW e \in deps
      PROVE  /\ e.no \in DOMAIN calls /\ calls[e.no].queue = e.queue /\ e.queue \in Graph!Queue
             /\ e = [queue |-> e.queue, no |-> e.no]
  <2>1. CASE e \in Graph!WaitNodes(out, ins)
    BY <2>1 DEF Graph!WaitNodes, RecordsTrue, BuildTypes, Record
  <2>2. CASE e = [queue |-> q, no |-> last_j[q]] /\ last_j[q] # 0
    BY <2>2 DEF LastTrue, Graph!OnQueue
  <2> QED
    BY <2>1, <2>2 DEF Graph!Dependencies
<1>2. d.no \in T
  BY <1>1
<1>3. PICK m \in T : \A i \in T : i <= m
  BY <1>2 DEF Bounded
<1>4. m \in Nat /\ queue_access[q][d.queue] \in Nat /\ d.no \in Nat /\ d.no <= m
  BY <1>1, <1>2, <1>3, Domain DEF BuildTypes
<1>5. CASE m <= queue_access[q][d.queue]
  BY <1>1, <1>4, <1>5
<1>6. CASE queue_access[q][d.queue] < m
  <2> DEFINE e == [queue |-> d.queue, no |-> m]
  <2>1. e \in deps
    BY <1>3
  <2>2. \A f \in deps : f.queue = e.queue => f.no <= e.no
    BY <1>1, <1>3
  <2>3. e \in AllNews(out, ins, q)
    BY <1>6, <2>1, <2>2 DEF AllNews, Graph!News
  <2> QED
    BY <1>1, <1>4, <2>3
<1> QED
  BY <1>4, <1>5, <1>6

LEMMA NewsTrue ==
  ASSUME BuildTypes, RecordsTrue, LastTrue, Bounded, NEW out, NEW ins, NEW q \in Graph!Queue,
         NEW d \in AllNews(out, ins, q)
  PROVE  /\ d \in Wait /\ d.no \in DOMAIN calls /\ calls[d.no].queue = d.queue
         /\ queue_access[q][d.queue] < d.no
         /\ \A e \in AllNews(out, ins, q) : e.queue = d.queue => e = d
<1>1. d \in Graph!Dependencies(out, ins, q) /\ queue_access[q][d.queue] < d.no
  BY DEF AllNews, Graph!News
<1>2. ASSUME NEW e \in AllNews(out, ins, q), e.queue = d.queue
      PROVE  e = d
  <2>1. e \in Wait /\ d \in Wait
    BY NewsTypes
  <2>2. e.no <= d.no /\ d.no <= e.no
    BY <1>2 DEF AllNews, Graph!News
  <2> QED
    BY <1>2, <2>1, <2>2 DEF Wait
<1> QED
  BY <1>1, <1>2, NewsTypes, DependencyCovered

LEMMA AddWaits ==
  ASSUME BuildTypes, GraphInv, NEW out \in Buffer, NEW ins \in SUBSET Buffer, NEW q \in Graph!Queue,
         Added(out, ins, q)
  PROVE  WaitsTrue' /\ CopiesSignal'
<1> USE DEF GraphInv
<1>1. ASSUME NEW j \in DOMAIN calls, NEW d \in calls'[j].waits
      PROVE  d.no \in 1..(j - 1) /\ calls'[d.no].queue = d.queue /\ calls'[d.no].signal
  <2>1. d \in calls[j].waits
    BY AddedCalls DEF SameCall
  <2>2. d.no \in 1..(j - 1) /\ calls[d.no].queue = d.queue /\ calls[d.no].signal
    BY <2>1 DEF WaitsTrue
  <2>3. d.no \in DOMAIN calls
    BY <2>2, AddedCalls
  <2> QED
    BY <2>2, <2>3, AddedCalls DEF SameCall
<1>2. ASSUME NEW d \in calls'[NextNo].waits
      PROVE  d.no \in 1..(NextNo - 1) /\ calls'[d.no].queue = d.queue /\ calls'[d.no].signal
  <2>1. d \in AllNews(out, ins, q)
    BY DEF Added, Grown
  <2>2. d.no \in DOMAIN calls /\ calls[d.no].queue = d.queue
    BY <2>1, NewsTrue
  <2>3. calls'[d.no].signal
    BY <2>2 DEF Added, Grown
  <2> QED
    BY <2>2, <2>3, AddedCalls DEF SameCall
<1>3. \A j \in DOMAIN calls' : calls'[j].queue[2] # 0 => calls'[j].signal
  <2>1. q[2] # 0 => calls'[NextNo].signal
    BY DEF Added, Grown
  <2>2. calls'[NextNo].queue = q
    BY AddedCalls
  <2>3. \A j \in DOMAIN calls : calls'[j].queue[2] # 0 => calls'[j].signal
    BY AddedCalls DEF CopiesSignal, SameCall
  <2> QED
    BY <2>1, <2>2, <2>3, AddedCalls
<1> QED
  BY <1>1, <1>2, <1>3, AddedCalls DEF WaitsTrue, CopiesSignal

\* The wait of the new call for a dependency on another queue, or the earlier wait for it.
LEMMA AddAccess ==
  ASSUME BuildTypes, GraphInv, NEW out \in Buffer, NEW ins \in SUBSET Buffer, NEW q \in Graph!Queue,
         Added(out, ins, q)
  PROVE  AccessTrue' /\ queue_access' \in [Graph!Queue -> [Graph!Queue -> Nat]]
<1> USE DEF GraphInv
<1> DEFINE news == AllNews(out, ins, q)
           the(p) == CHOOSE d \in news : d.queue = p
<1>1. \A p \in Graph!Queue : queue_access'[q][p] =
        IF \E d \in news : d.queue = p THEN the(p).no ELSE queue_access[q][p]
  BY DEF Added, BuildTypes
<1>2. \A r \in Graph!Queue \ {q} : queue_access'[r] = queue_access[r]
  BY DEF Added, BuildTypes
<1>3. ASSUME NEW p \in Graph!Queue, NEW d \in news, d.queue = p
      PROVE  the(p) \in news /\ the(p).queue = p
  BY <1>3
<1> HIDE DEF the
<1>4. \A d \in news : d \in Wait /\ d.no \in DOMAIN calls
  BY NewsTrue
<1>5. queue_access' \in [Graph!Queue -> [Graph!Queue -> Nat]]
  <2>1. \A p \in Graph!Queue : queue_access'[q][p] \in Nat
    <3> TAKE p \in Graph!Queue
    <3>1. CASE \E d \in news : d.queue = p
      <4>1. queue_access'[q][p] = the(p).no
        BY <1>1, <3>1
      <4>2. the(p) \in news
        BY <1>3, <3>1
      <4> QED
        BY <1>4, <4>1, <4>2 DEF Wait
    <3>2. CASE ~\E d \in news : d.queue = p
      <4>1. queue_access'[q][p] = queue_access[q][p]
        BY <1>1, <3>2
      <4> QED
        BY <4>1 DEF BuildTypes
    <3> QED
      BY <3>1, <3>2
  <2>2. queue_access' \in [Graph!Queue -> [Graph!Queue -> Nat]]
    BY <2>1, <1>1 DEF Added, BuildTypes
  <2> QED
    BY <2>2
<1>6. queue_access'[q][q] < last_j'[q]
  <2>1. last_j'[q] = NextNo
    BY DEF Added, BuildTypes
  <2>2. queue_access[q][q] < NextNo
    <3>1. last_j[q] \in Nat /\ queue_access[q][q] \in Nat
      BY DEF BuildTypes
    <3>2. last_j[q] = 0 \/ last_j[q] \in DOMAIN calls
      BY DEF LastTrue, Graph!OnQueue
    <3>3. last_j[q] < NextNo
      BY <3>1, <3>2, AddedCalls
    <3> QED
      BY <3>1, <3>3, AddedCalls DEF AccessTrue
  <2>3. \A d \in news : d.no < NextNo
    BY <1>4, AddedCalls
  <2> QED
    BY <1>1, <1>3, <2>1, <2>2, <2>3
<1>7. ASSUME NEW r \in Graph!Queue, NEW p \in Graph!Queue \ {r}, queue_access'[r][p] # 0
      PROVE  \E j \in Graph!OnQueue(r)' : [queue |-> p, no |-> queue_access'[r][p]] \in calls'[j].waits
  <2>1. \A j \in Graph!OnQueue(r) : j \in Graph!OnQueue(r)' /\ calls'[j].waits = calls[j].waits
    BY AddedCalls DEF Graph!OnQueue, SameCall
  <2>2. CASE queue_access'[r][p] = queue_access[r][p]
    BY <1>7, <2>1, <2>2 DEF AccessTrue
  <2>3. CASE r = q /\ \E d \in news : d.queue = p
    <3>1. the(p) \in news /\ the(p).queue = p /\ queue_access'[r][p] = the(p).no
      BY <1>1, <1>3, <2>3
    <3>2. the(p) = [queue |-> p, no |-> queue_access'[r][p]]
      BY <1>4, <3>1 DEF Wait
    <3>3. the(p) \in calls'[NextNo].waits
      BY <2>3, <3>1 DEF Added, Grown
    <3>4. NextNo \in Graph!OnQueue(r)'
      BY <2>3, AddedCalls DEF Graph!OnQueue
    <3> QED
      BY <3>2, <3>3, <3>4
  <2>4. CASE r = q /\ ~\E d \in news : d.queue = p
    <3>1. queue_access'[r][p] = queue_access[r][p]
      BY <1>1, <2>4
    <3> QED
      BY <2>2, <3>1
  <2>5. CASE r # q
    BY <1>2, <2>2, <2>5
  <2> QED
    BY <2>3, <2>4, <2>5
<1>8. ASSUME NEW r \in Graph!Queue
      PROVE  queue_access'[r][r] < last_j'[r] \/ (queue_access'[r][r] = 0 /\ last_j'[r] = 0)
  <2>1. CASE r = q
    BY <1>6, <2>1
  <2>2. CASE r # q
    <3>1. last_j'[r] = last_j[r]
      BY <2>2 DEF Added, BuildTypes
    <3> QED
      BY <1>2, <2>2, <3>1 DEF AccessTrue
  <2> QED
    BY <2>1, <2>2
<1> QED
  BY <1>5, <1>7, <1>8 DEF AccessTrue

LEMMA AddQueueKept ==
  ASSUME BuildTypes, GraphInv, NEW out \in Buffer, NEW ins \in SUBSET Buffer, NEW q \in Graph!Queue,
         Added(out, ins, q)
  PROVE  QueueKept'
<1> USE DEF GraphInv
<1>1. ASSUME NEW i \in Graph!OnQueue(q), ~calls'[NextNo].chained
      PROVE  \E d \in calls'[NextNo].waits : d.queue = q /\ i <= d.no
  <2> DEFINE prev == [queue |-> q, no |-> last_j[q]]
  <2>1. last_j[q] # 0 /\ i <= last_j[q] /\ i \in Nat /\ last_j[q] \in Nat
    BY Domain DEF LastTrue, Graph!OnQueue, BuildTypes
  <2>2. prev \in Graph!Dependencies(out, ins, q)
    BY <2>1 DEF Graph!Dependencies
  <2>3. queue_access[q][q] < last_j[q] /\ queue_access[q][q] \in Nat
    BY <2>1 DEF AccessTrue, BuildTypes
  <2>4. PICK e \in AllNews(out, ins, q) : e.queue = q /\ last_j[q] <= e.no
    BY <2>1, <2>2, <2>3, DependencyCovered
  <2>5. e \in calls'[NextNo].waits /\ e.no \in Nat
    BY <1>1, <2>4, NewsTypes DEF Added, Grown, Wait
  <2> QED
    BY <2>1, <2>4, <2>5
<1>2. ASSUME NEW j \in DOMAIN calls, ~calls'[j].chained, NEW i \in Graph!OnQueue(calls[j].queue)', i < j
      PROVE  \E d \in calls'[j].waits : d.queue = calls'[j].queue /\ i <= d.no
  <2>1. i \in DOMAIN calls
    BY <1>2, AddedCalls DEF Graph!OnQueue
  <2>2. i \in Graph!OnQueue(calls[j].queue)
    BY <1>2, <2>1, AddedCalls DEF Graph!OnQueue, SameCall
  <2> QED
    BY <1>2, <2>2, AddedCalls DEF QueueKept, SameCall
<1>3. ASSUME NEW i \in Graph!OnQueue(q)', i < NextNo
      PROVE  i \in Graph!OnQueue(q)
  BY <1>3, AddedCalls DEF Graph!OnQueue, SameCall
<1>4. ASSUME NEW j \in DOMAIN calls'
      PROVE  calls'[j].chained \/
               \A i \in Graph!OnQueue(calls[j].queue)' : i < j =>
                 \E d \in calls'[j].waits : d.queue = calls'[j].queue /\ i <= d.no
  <2>1. CASE j \in DOMAIN calls
    BY <1>2, <2>1
  <2>2. CASE j = NextNo
    BY <1>1, <1>3, <2>2, AddedCalls
  <2> QED
    BY <2>1, <2>2, AddedCalls
<1> QED
  BY <1>4 DEF QueueKept

LEMMA AddBounded ==
  ASSUME BuildTypes, Bounded, NEW out, NEW ins, NEW q, Added(out, ins, q)
  PROVE  Bounded'
<1> SUFFICES ASSUME NEW S \in SUBSET DOMAIN calls', S # {}
             PROVE  /\ \E m \in S : \A k \in S : k <= m
                    /\ \E m \in S : \A k \in S : m <= k
  BY DEF Bounded
<1> DEFINE T == S \ {NextNo}
<1>1. T \in SUBSET DOMAIN calls /\ NextNo <= NextNo
      /\ \A k \in DOMAIN calls : k <= NextNo
  BY AddedCalls
<1>2. CASE T = {}
  BY <1>1, <1>2
<1>3. CASE T # {}
  <2>1. (\E m \in T : \A k \in T : k <= m) /\ (\E m \in T : \A k \in T : m <= k)
    BY <1>1, <1>3 DEF Bounded
  <2> QED
    BY <1>1, <2>1
<1> QED
  BY <1>2, <1>3

\* A call in conflict with the new one, or a later writer of what it accessed, is among
\* the dependencies of the new one.
LEMMA ConflictSeen ==
  ASSUME BuildTypes, RecordsTrue, WritersKnown, ReadersKnown,
         NEW out \in Buffer, NEW ins \in SUBSET Buffer, NEW e, e.out = out, e.ins = ins,
         NEW i \in DOMAIN calls, Graph!Conflict(calls[i], e)
  PROVE  \E p \in DOMAIN calls :
           /\ i <= p /\ (p = i \/ Graph!Conflict(calls[i], calls[p]))
           /\ [queue |-> calls[p].queue, no |-> p] \in Graph!WaitNodes(out, ins)
<1>1. /\ calls[i].out \in Buffer /\ calls[i].ins \in SUBSET Buffer /\ i \in Nat
      /\ \A x \in written \cup read : x.view \in View
  <2>1. calls[i] \in Call /\ i \in Nat
    BY Domain
  <2>2. \A x \in written \cup read : x \in Record
    BY DEF BuildTypes
  <2> QED
    BY <2>1, <2>2 DEF Call, Record
\* a writer on record
<1>2. ASSUME NEW x \in written, NEW b \in {out} \cup ins, NEW a \in {calls[i].out} \cup calls[i].ins,
             NEW k \in Bytes(b), k \in Bytes(a), k \in Bytes(x.view),
             Same(x.view, a), Same(a, b), i <= x.no
      PROVE  /\ x.no \in DOMAIN calls
             /\ x.no = i \/ Graph!Conflict(calls[i], calls[x.no])
             /\ [queue |-> calls[x.no].queue, no |-> x.no] \in Graph!WaitNodes(out, ins)
  <2>1. /\ x.no \in DOMAIN calls /\ x.queue = calls[x.no].queue
        /\ calls[x.no].out \in Buffer
        /\ Same(x.view, calls[x.no].out)
        /\ calls[x.no].out.from <= x.view.from /\ x.view.to <= calls[x.no].out.to
    BY Domain DEF RecordsTrue, Call
  <2>2. b \in View /\ a \in View /\ calls[x.no].out \in View
    BY <1>1, <2>1, BufferView
  <2>3. Graph!Overlap(x.view, b)
    BY <1>1, <1>2, <2>2, CommonByte DEF Same
  <2>4. k \in Bytes(calls[x.no].out) /\ Same(a, calls[x.no].out)
    BY <1>1, <1>2, <2>1, <2>2 DEF Bytes, View, Same
  <2>5. Graph!Overlap(a, calls[x.no].out)
    BY <1>2, <2>2, <2>4, CommonByte
  <2>6. Graph!Conflict(calls[i], calls[x.no])
    BY <2>5 DEF Graph!Conflict
  <2> QED
    BY <2>1, <2>3, <2>6 DEF Graph!WaitNodes
<1>3. CASE \E b \in {out} \cup ins : Graph!Overlap(calls[i].out, b)
  <2>1. PICK b \in {out} \cup ins : Graph!Overlap(calls[i].out, b)
    BY <1>3
  <2>2. Same(calls[i].out, b) /\ \E k \in Bytes(calls[i].out) : k \in Bytes(b)
    BY <1>1, <2>1, OverlapByte
  <2>3. PICK k \in Bytes(b) : k \in Bytes(calls[i].out)
    BY <2>2
  <2>4. PICK x \in written : Same(x.view, calls[i].out) /\ k \in Bytes(x.view) /\ i <= x.no
    BY <2>3 DEF WritersKnown
  <2> QED
    BY <1>2, <2>2, <2>3, <2>4
<1>4. CASE \E a \in calls[i].ins : Graph!Overlap(a, out)
  <2>1. PICK a \in calls[i].ins : Graph!Overlap(a, out)
    BY <1>4
  <2>2. Same(a, out) /\ \E k \in Bytes(a) : k \in Bytes(out)
    BY <1>1, <2>1, OverlapByte
  <2>3. PICK k \in Bytes(a) : k \in Bytes(out)
    BY <2>2
  <2>4. CASE \E x \in read : Same(x.view, a) /\ k \in Bytes(x.view) /\ x.no = i
    <3>1. PICK x \in read : Same(x.view, a) /\ k \in Bytes(x.view) /\ x.no = i
      BY <2>4
    <3>2. Graph!Overlap(x.view, out)
      BY <1>1, <2>2, <2>3, <3>1, BufferView, CommonByte DEF Same
    <3>3. [queue |-> x.queue, no |-> x.no] \in Graph!WaitNodes(out, ins)
      BY <3>2 DEF Graph!WaitNodes
    <3>4. x.queue = calls[i].queue
      BY <3>1 DEF RecordsTrue
    <3> QED
      BY <1>1, <3>1, <3>3, <3>4
  <2>5. CASE \E x \in written : Same(x.view, a) /\ k \in Bytes(x.view) /\ i < x.no
    <3>1. PICK x \in written : Same(x.view, a) /\ k \in Bytes(x.view) /\ i < x.no
      BY <2>5
    <3>2. i <= x.no
      BY <1>1, <3>1, Domain DEF RecordsTrue
    <3> QED
      BY <1>2, <2>2, <2>3, <3>1, <3>2
  <2> QED
    BY <2>3, <2>4, <2>5 DEF ReadersKnown
<1> QED
  BY <1>3, <1>4 DEF Graph!Conflict

LEMMA AddConflicts ==
  ASSUME BuildTypes, GraphInv, NEW out \in Buffer, NEW ins \in SUBSET Buffer, NEW q \in Graph!Queue,
         Added(out, ins, q)
  PROVE  ConflictsWaited'
<1> USE DEF GraphInv
<1>0. PICK n \in Nat : n = NextNo
  BY AddedCalls
<1>1. ASSUME NEW j \in DOMAIN calls, NEW p \in DOMAIN calls, Implied(p, j)
      PROVE  Implied(p, j)'
  <2>1. \A k \in Graph!OnQueue(calls[j].queue) : k \in Graph!OnQueue(calls[j].queue)'
    BY <1>0, AddedCalls DEF Graph!OnQueue, SameCall
  <2>2. \A k \in Graph!OnQueue(calls[j].queue) : calls'[k].waits = calls[k].waits
    BY <1>0, AddedCalls DEF Graph!OnQueue, SameCall
  <2>3. calls'[j].queue = calls[j].queue /\ calls'[p].queue = calls[p].queue
    BY <1>0, AddedCalls DEF SameCall
  <2> QED
    BY <1>1, <2>1, <2>2, <2>3 DEF Implied
<1>2. ASSUME NEW p \in DOMAIN calls, [queue |-> calls[p].queue, no |-> p] \in Graph!WaitNodes(out, ins)
      PROVE  Implied(p, n)'
  <2> DEFINE d == [queue |-> calls[p].queue, no |-> p]
             qp == calls[p].queue
  <2>1. d \in Graph!Dependencies(out, ins, q) /\ qp \in Graph!Queue
    BY <1>2, NewsTypes, DependencyCovered
  <2>2. calls'[p].queue = qp /\ calls'[n].queue = q /\ n \in Graph!OnQueue(q)'
    BY <1>0, AddedCalls DEF SameCall, Graph!OnQueue
  <2>3. CASE qp = q
    BY <2>2, <2>3 DEF Implied
  <2>4. CASE qp # q /\ p <= queue_access[q][qp]
    <3>1. queue_access[q][qp] # 0
      BY <2>1, <2>4, <1>0, AddedCalls DEF BuildTypes
    <3>2. PICK k \in Graph!OnQueue(q) : [queue |-> qp, no |-> queue_access[q][qp]] \in calls[k].waits
      BY <2>1, <2>4, <3>1 DEF AccessTrue
    <3>3. k \in Graph!OnQueue(q)' /\ k <= n /\ calls'[k].waits = calls[k].waits
      BY <1>0, AddedCalls DEF Graph!OnQueue, SameCall
    <3>4. \E w \in calls'[k].waits : w.queue = calls'[p].queue /\ p <= w.no
      BY <2>2, <2>4, <3>2, <3>3
    <3>5. k \in Graph!OnQueue(calls[n].queue)'
      BY <2>2, <3>3
    <3> QED
      BY <3>3, <3>4, <3>5 DEF Implied
  <2>5. CASE qp # q /\ \E e \in AllNews(out, ins, q) : e.queue = qp /\ p <= e.no
    <3>1. PICK e \in AllNews(out, ins, q) : e.queue = qp /\ p <= e.no
      BY <2>5
    <3>2. e \in calls'[n].waits
      BY <1>0, <2>5, <3>1 DEF Added, Grown
    <3> QED
      BY <2>2, <3>1, <3>2 DEF Implied
  <2> QED
    BY <2>1, <2>3, <2>4, <2>5, DependencyCovered
<1>3. ASSUME NEW i \in DOMAIN calls, NEW j \in DOMAIN calls
      PROVE  Graph!Conflict(calls[i], calls[j])' <=> Graph!Conflict(calls[i], calls[j])
  BY <1>0, AddedCalls DEF Graph!Conflict, SameCall
<1>4. ASSUME NEW j \in DOMAIN calls, NEW i \in 1..(j - 1), Graph!Conflict(calls[i], calls[j])'
      PROVE  \E p \in i..(j - 1) : (p = i \/ Graph!Conflict(calls[i], calls[p])') /\ Implied(p, j)'
  <2>1. i \in DOMAIN calls /\ \A p \in i..(j - 1) : p \in DOMAIN calls
    BY <1>0, AddedCalls
  <2>2. PICK p \in i..(j - 1) : (p = i \/ Graph!Conflict(calls[i], calls[p])) /\ Implied(p, j)
    BY <1>3, <1>4, <2>1 DEF ConflictsWaited
  <2> QED
    BY <1>1, <1>3, <2>1, <2>2
<1>5. ASSUME NEW i \in 1..(n - 1), Graph!Conflict(calls[i], calls[n])'
      PROVE  \E p \in i..(n - 1) : (p = i \/ Graph!Conflict(calls[i], calls[p])') /\ Implied(p, n)'
  <2>1. i \in DOMAIN calls /\ calls'[n].out = out /\ calls'[n].ins = ins
    BY <1>0, AddedCalls
  <2>2. Graph!Conflict(calls[i], calls'[n])
    BY <1>5, <2>1, <1>0, AddedCalls DEF Graph!Conflict, SameCall
  <2>3. PICK p \in DOMAIN calls :
           /\ i <= p /\ (p = i \/ Graph!Conflict(calls[i], calls[p]))
           /\ [queue |-> calls[p].queue, no |-> p] \in Graph!WaitNodes(out, ins)
    BY <2>1, <2>2, ConflictSeen
  <2>4. p \in i..(n - 1)
    BY <2>3, <1>0, AddedCalls
  <2> QED
    BY <1>2, <1>3, <2>1, <2>3, <2>4
<1>6. ASSUME NEW j \in DOMAIN calls', NEW i \in 1..(j - 1), Graph!Conflict(calls[i], calls[j])'
      PROVE  \E p \in i..(j - 1) : (p = i \/ Graph!Conflict(calls[i], calls[p])') /\ Implied(p, j)'
  <2>1. j \in DOMAIN calls \/ j = n
    BY <1>0, AddedCalls
  <2>2. CASE j \in DOMAIN calls
    BY <2>2, <1>4, <1>6
  <2>3. CASE j = n
    BY <2>3, <1>5, <1>6
  <2> QED
    BY <2>1, <2>2, <2>3
<1> QED
  BY <1>6 DEF ConflictsWaited

LEMMA AddCallKeeps ==
  ASSUME BuildTypes, GraphInv, NEW out \in Buffer, NEW ins \in SUBSET Buffer, NEW q \in Graph!Queue,
         NEW copy \in BOOLEAN, Graph!AddCall(out, ins, q, copy), copy_to_devs' \in [Device -> SUBSET Device]
  PROVE  BuildTypes' /\ GraphInv' /\ replays = 0
<1>1. Added(out, ins, q) /\ replays = 0 /\ Len(calls) < MaxCalls
  BY AddCallAdds
<1>2. calls' \in Seq(Call) /\ Len(calls') <= MaxCalls
  BY <1>1, Domain, GraphAssumed DEF Added, Grown, NextNo
<1> USE DEF GraphInv
<1>3. BuildTypes'
  BY <1>1, <1>2, AddRecords, AddLast, AddAccess DEF BuildTypes
<1> QED
  BY <1>1, <1>3, AddRecords, AddWriters, AddReaders, AddLast, AddWaits, AddAccess, AddQueueKept,
     AddConflicts, AddBounded

-----------------------------------------------------------------------------
(* The steps.                                                              *)

\* Calls are only added before the first replay, when none is running or done.
LEMMA BuildingKeeps ==
  ASSUME GraphFollowed, BuildTypes', GraphInv', replays = 0,
         UNCHANGED <<replays, ready, running, done, graph_signals, ended, busy>>
  PROVE  GraphFollowed'
<1>1. running = {} /\ done = {} /\ ended = Device
  BY DEF GraphFollowed, ReplayInv, NotReplayed
<1>2. \A q \in Graph!Queue : graph_signals[q] = 0
  BY <1>1 DEF GraphFollowed, ReplayInv, SignalsTrue
<1>3. ReplayTypes'
  BY <1>1 DEF GraphFollowed, ReplayTypes
<1>4. ReplayInv'
  BY <1>1, <1>2 DEF ReplayInv, NotReplayed, InQueueOrder, WaitsOver, SignalsTrue, EndedDone,
     Graph!ConflictsInOrder, Started
<1> QED
  BY <1>3, <1>4 DEF GraphFollowed

LEMMA KernelKeeps ==
  ASSUME GraphFollowed, NEW out \in Buffer, NEW ins \in SUBSET Buffer, Graph!Kernel(out, ins)
  PROVE  GraphFollowed'
<1>1. <<out.dev, 0>> \in Graph!Queue
  BY BufferView DEF View, Graph!Queue
<1>2. copy_to_devs' \in [Device -> SUBSET Device]
  BY DEF Graph!Kernel, GraphFollowed, BuildTypes
<1>3. BuildTypes' /\ GraphInv' /\ replays = 0
  BY <1>1, <1>2, AddCallKeeps DEF Graph!Kernel, GraphFollowed
<1> QED
  BY <1>3, BuildingKeeps DEF Graph!Kernel

LEMMA CopyKeeps ==
  ASSUME GraphFollowed, NEW out \in Buffer, NEW in \in Buffer, Graph!Copy(out, in)
  PROVE  GraphFollowed'
<1>1. out.dev \in Device \ Cpu /\ in.dev \in Device
  BY BufferView DEF View, Graph!Copy
<1>2. Graph!CopyQueue(out, in) \in Graph!Queue
  BY <1>1 DEF Graph!CopyQueue, Graph!Queue
<1>3. copy_to_devs' \in [Device -> SUBSET Device]
  BY <1>1 DEF Graph!Copy, GraphFollowed, BuildTypes
<1>4. BuildTypes' /\ GraphInv' /\ replays = 0
  BY <1>2, <1>3, AddCallKeeps, {in} \in SUBSET Buffer,
     (in.dev \notin Cpu) \in BOOLEAN DEF Graph!Copy, GraphFollowed
<1> QED
  BY <1>4, BuildingKeeps DEF Graph!Copy

\* In a replay the graph stays as it is.
LEMMA GraphStays ==
  ASSUME BuildTypes, GraphInv, UNCHANGED Graph!build
  PROVE  BuildTypes' /\ GraphInv'
  BY DEF Graph!build, BuildTypes, GraphInv, WaitsTrue, CopiesSignal, RecordsTrue, WritersKnown,
     ReadersKnown, LastTrue, AccessTrue, QueueKept, ConflictsWaited, Bounded, Graph!OnQueue, Implied

LEMMA LaunchKeeps == GraphFollowed /\ Graph!Launch => GraphFollowed'
<1> SUFFICES ASSUME GraphFollowed, Graph!Launch PROVE GraphFollowed'
  OBVIOUS
<1>1. BuildTypes' /\ GraphInv'
  BY GraphStays DEF Graph!Launch, GraphFollowed
<1>2. replays' # 0 /\ ReplayTypes'
  BY GraphAssumed DEF Graph!Launch, GraphFollowed, ReplayTypes, Graph!ResetSignals, Graph!build
<1>3. ReplayInv'
  BY <1>2 DEF Graph!Launch, Graph!ResetSignals, ReplayInv, NotReplayed, InQueueOrder, WaitsOver,
              SignalsTrue,
     EndedDone, Graph!ConflictsInOrder, Started, Graph!OnQueue
<1> QED
  BY <1>1, <1>2, <1>3 DEF GraphFollowed

\* Steps that touch neither the calls nor the graph_signals nor what has ended.
LEMMA OthersKeep ==
  ASSUME GraphFollowed, UNCHANGED <<Graph!build, replays, running, done, graph_signals, ended>>,
         ready' \subseteq Device, busy' \subseteq Shared
  PROVE  GraphFollowed'
<1>1. BuildTypes' /\ GraphInv'
  BY GraphStays DEF GraphFollowed
<1>2. calls' = calls
  BY DEF Graph!build
<1>3. ReplayTypes'
  BY <1>2 DEF GraphFollowed, ReplayTypes
<1>4. ReplayInv'
  BY <1>2 DEF GraphFollowed, ReplayInv, NotReplayed, InQueueOrder, WaitsOver, SignalsTrue,
              EndedDone,
     Graph!ConflictsInOrder, Started, Graph!OnQueue
<1> QED
  BY <1>1, <1>3, <1>4 DEF GraphFollowed

LEMMA ReadyKeeps == ASSUME GraphFollowed, NEW d \in Device, Graph!DeviceReady(d) PROVE GraphFollowed'
<1>1. ready' \subseteq Device /\ busy' \subseteq Shared
  BY DEF Graph!DeviceReady, GraphFollowed, ReplayTypes
<1> QED
  BY <1>1, OthersKeep DEF Graph!DeviceReady

LEMMA OtherWorkKeeps ==
  ASSUME GraphFollowed, NEW d \in Device, Graph!OtherWork(d) \/ Graph!OtherWorkDone(d) PROVE GraphFollowed'
<1>1. ready' \subseteq Device /\ busy' \subseteq Shared
  BY DEF Graph!OtherWork, Graph!OtherWorkDone, GraphFollowed, ReplayTypes
<1> QED
  BY <1>1, OthersKeep DEF Graph!OtherWork, Graph!OtherWorkDone

\* A signal that has reached the number of a call shows that the call is done.
LEMMA SignalShows ==
  ASSUME GraphFollowed, NEW q \in Graph!Queue, NEW n \in Nat \ {0}, n <= graph_signals[q],
         NEW p \in Graph!OnQueue(q), p <= n
  PROVE  p \in done
<1>1. graph_signals[q] \in done /\ calls[graph_signals[q]].queue = q /\ graph_signals[q] \in Nat /\ p \in Nat
  BY Domain DEF GraphFollowed, ReplayInv, SignalsTrue, ReplayTypes, Graph!OnQueue
<1>2. CASE p = graph_signals[q]
  BY <1>1, <1>2
<1>3. CASE p < graph_signals[q]
  BY <1>1, <1>3 DEF GraphFollowed, ReplayInv, InQueueOrder, Started
<1> QED
  BY <1>1, <1>2, <1>3

\* When a call starts, what is implied by the waits of its queue is done.
LEMMA StartAfter ==
  ASSUME GraphFollowed, NEW j \in DOMAIN calls, Graph!CanStart(j)
  PROVE  /\ \A i \in Graph!OnQueue(calls[j].queue) : i < j => i \in done
         /\ \A d \in calls[j].waits : d.no \in done
         /\ \A p \in 1..(j - 1) : Implied(p, j) => p \in done
<1> DEFINE q == calls[j].queue
<1>1. /\ \A i \in Graph!OnQueue(q) : i < j => i \in Started
      /\ calls[j].chained => \A i \in Graph!OnQueue(q) : i < j => i \in done
      /\ \A d \in calls[j].waits : d.no <= graph_signals[d.queue]
  <2>1. \A d \in calls[j].waits : d.no \in Nat /\ graph_signals[d.queue] \in Nat
    BY Domain DEF GraphFollowed, Call, Wait, ReplayTypes
  <2> QED
    BY <2>1 DEF Graph!CanStart, Started
<1>2. ASSUME NEW d \in calls[j].waits
      PROVE  d.no \in Nat \ {0} /\ d.queue \in Graph!Queue /\ d.no \in Graph!OnQueue(d.queue)
  BY Domain DEF GraphFollowed, Call, Wait, GraphInv, WaitsTrue, Graph!OnQueue
<1>3. ASSUME NEW i \in Graph!OnQueue(q), i < j
      PROVE  i \in done
  <2>1. CASE calls[j].chained
    BY <1>1, <1>3, <2>1
  <2>2. CASE ~calls[j].chained
    <3>1. PICK d \in calls[j].waits : d.queue = q /\ i <= d.no
      BY <1>3, <2>2 DEF GraphFollowed, GraphInv, QueueKept
    <3> QED
      BY <1>1, <1>2, <3>1, SignalShows
  <2> QED
    BY <2>1, <2>2
<1>4. ASSUME NEW d \in calls[j].waits
      PROVE  d.no \in done
  BY <1>1, <1>2, SignalShows
<1>5. ASSUME NEW p \in 1..(j - 1), Implied(p, j)
      PROVE  p \in done
  <2>1. p \in DOMAIN calls /\ p \in Graph!OnQueue(calls[p].queue) /\ p < j
    BY Domain DEF GraphFollowed, Graph!OnQueue
  <2>2. CASE calls[p].queue = q
    BY <1>3, <2>1, <2>2
  <2>3. CASE \E k \in Graph!OnQueue(q) : k <= j /\ \E d \in calls[k].waits : d.queue = calls[p].queue /\ p <= d.no
    <3>1. PICK k \in Graph!OnQueue(q) : k <= j /\ \E d \in calls[k].waits : d.queue = calls[p].queue /\ p <= d.no
      BY <2>3
    <3>2. PICK d \in calls[k].waits : d.queue = calls[p].queue /\ p <= d.no
      BY <3>1
    <3>3. CASE k = j
      BY <1>1, <1>2, <2>1, <3>2, <3>3, SignalShows
    <3>4. CASE k < j
      <4>1. k \in done /\ k \in DOMAIN calls
        BY <1>3, <3>4 DEF Graph!OnQueue
      <4>2. d.no \in done /\ d.no \in DOMAIN calls /\ calls[d.no].queue = d.queue
        BY <3>2, <4>1 DEF GraphFollowed, ReplayInv, WaitsOver, Started, GraphInv, WaitsTrue,
                          ReplayTypes
      <4>3. CASE p = d.no
        BY <4>2, <4>3
      <4>4. CASE p < d.no
        BY <2>1, <3>2, <4>2, <4>4 DEF GraphFollowed, ReplayInv, InQueueOrder, Started
      <4> QED
        BY <2>1, <3>2, <4>2, <4>3, <4>4, Domain DEF GraphFollowed
    <3> QED
      BY <3>1, <3>3, <3>4, Domain DEF GraphFollowed, Graph!OnQueue
  <2> QED
    BY <1>5, <2>2, <2>3 DEF Implied
<1> QED
  BY <1>3, <1>4, <1>5

LEMMA StartKeeps == ASSUME GraphFollowed, NEW j \in DOMAIN calls, Graph!Start(j) PROVE GraphFollowed'
<1>1. BuildTypes' /\ GraphInv' /\ calls' = calls
  BY GraphStays DEF GraphFollowed, Graph!Start, Graph!build
<1>2. Graph!CanStart(j) /\ j \notin running \cup done /\ Started' = Started \cup {j} /\ done' = done
  BY DEF Graph!Start, Graph!CanStart, Started
<1>3. ReplayTypes'
  BY <1>1, <1>2 DEF Graph!Start, GraphFollowed, ReplayTypes
<1>4. InQueueOrder' /\ WaitsOver'
  BY <1>1, <1>2, StartAfter DEF GraphFollowed, ReplayInv, InQueueOrder, WaitsOver, Graph!OnQueue
<1>5. Graph!ConflictsInOrder'
  <2>1. ASSUME NEW i \in DOMAIN calls, i < j, Graph!Conflict(calls[i], calls[j])
        PROVE  i \in done
    <3>1. i \in 1..(j - 1)
      BY <2>1, Domain DEF GraphFollowed
    <3>2. PICK p \in i..(j - 1) : (p = i \/ Graph!Conflict(calls[i], calls[p])) /\ Implied(p, j)
      BY <2>1, <3>1 DEF GraphFollowed, GraphInv, ConflictsWaited
    <3>3. p \in done
      BY <1>2, <3>1, <3>2, StartAfter
    <3>4. CASE i < p
      BY <3>2, <3>3, <3>4 DEF GraphFollowed, ReplayInv, Graph!ConflictsInOrder
    <3> QED
      BY <3>1, <3>2, <3>3, <3>4
  <2> QED
    BY <1>1, <1>2, <2>1 DEF GraphFollowed, ReplayInv, Graph!ConflictsInOrder, Started
<1>6. NotReplayed' /\ SignalsTrue' /\ EndedDone'
  BY <1>1, <1>2 DEF Graph!Start, GraphFollowed, ReplayInv, NotReplayed, SignalsTrue, EndedDone,
                    Graph!OnQueue, ReplayTypes
<1> QED
  BY <1>1, <1>3, <1>4, <1>5, <1>6 DEF GraphFollowed, ReplayInv

LEMMA FinishKeeps == ASSUME GraphFollowed, NEW j \in DOMAIN calls, Graph!Finish(j) PROVE GraphFollowed'
<1> DEFINE q == calls[j].queue
<1>1. BuildTypes' /\ GraphInv' /\ calls' = calls
  BY GraphStays DEF GraphFollowed, Graph!Finish, Graph!build
<1>2. j \in Nat \ {0} /\ q \in Graph!Queue /\ j \in running /\ j \in Started
  BY Domain DEF GraphFollowed, Graph!Finish, Call, Started
<1>3. done' = done \cup {j} /\ Started' = Started /\ done \subseteq done'
  BY <1>2 DEF Graph!Finish, Started
<1>4. ReplayTypes'
  BY <1>1, <1>2, <1>3 DEF Graph!Finish, GraphFollowed, ReplayTypes
<1>5. InQueueOrder' /\ WaitsOver' /\ Graph!ConflictsInOrder' /\ EndedDone' /\ NotReplayed'
  BY <1>1, <1>2, <1>3 DEF Graph!Finish, GraphFollowed, ReplayInv, InQueueOrder, WaitsOver,
                          Graph!ConflictsInOrder,
     EndedDone, NotReplayed, Graph!OnQueue, Started
<1>6. \A r \in Graph!Queue : graph_signals'[r] = IF calls[j].signal /\ r = q THEN j ELSE graph_signals[r]
  BY <1>2 DEF Graph!Finish, GraphFollowed, ReplayTypes
<1>7. ASSUME NEW i \in Graph!OnQueue(q), i \in done
      PROVE  i <= j
  <2>1. i \in Nat /\ i \in DOMAIN calls /\ calls[i].queue = q /\ j \in Graph!OnQueue(q)
    BY Domain DEF GraphFollowed, Graph!OnQueue
  <2>2. ~(j < i)
    BY <1>2, <1>7, <2>1 DEF GraphFollowed, ReplayInv, InQueueOrder, Started, ReplayTypes
  <2> QED
    BY <1>2, <2>1, <2>2
<1>8. ASSUME NEW r \in Graph!Queue
      PROVE  /\ graph_signals'[r] # 0 => graph_signals'[r] \in done' /\ calls[graph_signals'[r]].queue = r
             /\ \A i \in Graph!OnQueue(r) \cap done' : calls[i].signal => i <= graph_signals'[r]
  <2>1. CASE calls[j].signal /\ r = q
    BY <1>2, <1>3, <1>6, <1>7, <2>1
  <2>2. CASE ~(calls[j].signal /\ r = q)
    <3>1. graph_signals'[r] = graph_signals[r]
      BY <1>6, <2>2
    <3>2. j \in Graph!OnQueue(r) => ~calls[j].signal
      BY <2>2 DEF Graph!OnQueue
    <3> QED
      BY <1>3, <3>1, <3>2 DEF GraphFollowed, ReplayInv, SignalsTrue
  <2> QED
    BY <2>1, <2>2
<1>9. SignalsTrue'
  BY <1>1, <1>8 DEF SignalsTrue, Graph!OnQueue
<1> QED
  BY <1>1, <1>4, <1>5, <1>9 DEF GraphFollowed, ReplayInv

LEMMA EndKeeps == ASSUME GraphFollowed, NEW d \in Device, Graph!End(d) PROVE GraphFollowed'
<1>1. BuildTypes' /\ GraphInv' /\ calls' = calls
  BY GraphStays DEF GraphFollowed, Graph!End, Graph!build
<1>2. ReplayTypes'
  BY <1>1 DEF Graph!End, Graph!CanEnd, GraphFollowed, ReplayTypes
<1>3. ASSUME NEW j \in DOMAIN calls, calls[j].queue[1] = d
      PROVE  j \in done
  <2> DEFINE q == calls[j].queue
  <2>1. q \in Graph!Queue /\ j \in Nat \ {0} /\ j \in Graph!OnQueue(q) /\ q = <<d, q[2]>> /\ q[2] \in Nat
    BY <1>3, Domain, QueueShape DEF GraphFollowed, Call, Graph!OnQueue
  <2>2. CASE q[2] = 0
    BY <2>1, <2>2 DEF Graph!End, Graph!CanEnd
  <2>3. CASE q[2] # 0
    <3>1. last_j[q] # 0 /\ j <= last_j[q] /\ last_j[q] \in Nat
      BY <2>1 DEF GraphFollowed, GraphInv, LastTrue, BuildTypes
    <3>2. q \in Graph!FinalQueues(d)
      BY <1>3, <2>1, <2>3, <3>1 DEF Graph!FinalQueues
    <3>3. last_j[q] <= graph_signals[q]
      BY <2>1, <3>2 DEF Graph!End, Graph!CanEnd, GraphFollowed, ReplayTypes
    <3> QED
      BY <2>1, <3>1, <3>3, SignalShows
  <2> QED
    BY <2>2, <2>3
<1>4. EndedDone'
  BY <1>1, <1>3 DEF Graph!End, GraphFollowed, ReplayInv, EndedDone
<1>5. NotReplayed' /\ InQueueOrder' /\ WaitsOver' /\ SignalsTrue' /\ Graph!ConflictsInOrder'
  BY <1>1 DEF Graph!End, Graph!CanEnd, GraphFollowed, ReplayInv, NotReplayed, InQueueOrder,
              WaitsOver, SignalsTrue,
     Graph!ConflictsInOrder, Graph!OnQueue, Started, ReplayTypes
<1> QED
  BY <1>1, <1>2, <1>4, <1>5 DEF GraphFollowed, ReplayInv

LEMMA GraphNext == GraphFollowed /\ [Graph!Next]_graph_vars => GraphFollowed'
<1> SUFFICES ASSUME GraphFollowed, [Graph!Next]_graph_vars PROVE GraphFollowed'
  OBVIOUS
<1>1. ASSUME Graph!Build PROVE GraphFollowed'
  BY <1>1, KernelKeeps, CopyKeeps DEF Graph!Build
<1>2. ASSUME Graph!Launch PROVE GraphFollowed'
  BY <1>2, LaunchKeeps
<1>3. ASSUME NEW d \in Device, Graph!DeviceReady(d) \/ Graph!End(d) \/ Graph!OtherWork(d) \/ Graph!OtherWorkDone(d)
      PROVE  GraphFollowed'
  BY <1>3, ReadyKeeps, EndKeeps, OtherWorkKeeps
<1>4. ASSUME NEW j \in DOMAIN calls, Graph!Start(j) \/ Graph!Finish(j) PROVE GraphFollowed'
  BY <1>4, StartKeeps, FinishKeeps
<1>5. CASE UNCHANGED graph_vars
  BY <1>5, OthersKeep DEF graph_vars, Graph!build, GraphFollowed, ReplayTypes
<1> QED
  BY <1>1, <1>2, <1>3, <1>4, <1>5 DEF Graph!Next

\* The invariant: what the tracker and the queues know is true of the calls, and the
\* queues respect it.
LEMMA GraphSpec == MCSpec => Graph!Init /\ [][Graph!Next]_graph_vars
<1>1. MCInit => Graph!Init
  BY DEF MCInit
<1>2. [MCNext]_<<part, vars, nv_vars, graph_vars>> => [Graph!Next]_graph_vars
  BY DEF MCNext, graph_vars
<1> QED
  BY <1>1, <1>2, PTL DEF MCSpec

LEMMA GraphInvariant == MCSpec => []GraphFollowed
<1> QED
  BY GraphStart, GraphNext, GraphSpec, PTL

-----------------------------------------------------------------------------
(* The properties the runs check.                                          *)

\* TypeOK: waits and graph_signals name calls of the right queue.
THEOREM GraphKeepsShape == MCSpec => []Graph!TypeOK
<1>1. GraphFollowed => Graph!TypeOK
  <2> SUFFICES ASSUME GraphFollowed PROVE Graph!TypeOK
    OBVIOUS
  <2>1. \A j \in DOMAIN calls : \A d \in calls[j].waits : d.no < j /\ calls[d.no].queue = d.queue
    BY Domain DEF GraphFollowed, GraphInv, WaitsTrue
  <2>2. \A q \in Graph!Queue : graph_signals[q] \in {0} \cup Graph!OnQueue(q)
    BY DEF GraphFollowed, ReplayInv, SignalsTrue, ReplayTypes, Graph!OnQueue
  <2> QED
    BY <2>1, <2>2 DEF Graph!TypeOK, GraphFollowed, BuildTypes, ReplayTypes
<1> QED
  BY <1>1, GraphInvariant, PTL

\* ConflictsInOrder: of two calls in conflict the later one starts after the earlier one
\* is done, for every graph, whatever waits _resolve_deps left out.
THEOREM ConflictsOrdered == MCSpec => []ConflictsInOrder
<1>1. GraphFollowed => ConflictsInOrder
  BY DEF ConflictsInOrder, GraphFollowed, ReplayInv
<1> QED
  BY <1>1, GraphInvariant, PTL

\* ReplayWhole: when every device has set its timeline, every call of the graph is done.
THEOREM WholeAtTheEnd == MCSpec => []Graph!ReplayWhole
<1>1. GraphFollowed => Graph!ReplayWhole
  <2> SUFFICES ASSUME GraphFollowed, ended = Device, replays > 0 PROVE done = DOMAIN calls
    BY DEF Graph!ReplayWhole
  <2>1. \A j \in DOMAIN calls : calls[j].queue[1] \in Device
    BY Domain, QueueShape DEF GraphFollowed, Call
  <2>2. \A j \in DOMAIN calls : j \in done
    BY <2>1 DEF GraphFollowed, ReplayInv, EndedDone
  <2> QED
    BY <2>2 DEF GraphFollowed, ReplayTypes
<1> QED
  BY <1>1, GraphInvariant, PTL

\* NeverStuck: the first call that is not done can start, and when all are done the
\* devices can set their timelines: no graph deadlocks.
THEOREM NoDeadlock == MCSpec => []Graph!NeverStuck
<1>1. GraphFollowed => Graph!NeverStuck
  <2> SUFFICES ASSUME GraphFollowed, ended # Device, running = {}, busy = {}, ready = Device
               PROVE  \/ \E j \in DOMAIN calls : Graph!CanStart(j)
                      \/ \E d \in Device : Graph!CanEnd(d)
    BY DEF Graph!NeverStuck
  <2> DEFINE todo == DOMAIN calls \ done
  <2>1. ASSUME NEW q \in Graph!Queue, NEW n \in Graph!OnQueue(q), n \in done, calls[n].signal
        PROVE  n <= graph_signals[q]
    BY <2>1 DEF GraphFollowed, ReplayInv, SignalsTrue
  <2>2. CASE todo # {}
    <3>1. PICK j \in todo : \A k \in todo : j <= k
      BY <2>2 DEF GraphFollowed, GraphInv, Bounded
    <3>2. \A i \in DOMAIN calls : i < j => i \in done
      BY <3>1, Domain DEF GraphFollowed
    <3>3. calls[j] \in Call /\ j \in Nat
      BY <3>1, Domain DEF GraphFollowed
    <3>4. calls[j].sync \cup (IF calls[j].queue[2] = 0 THEN {calls[j].queue[1]} ELSE {}) \subseteq ready
      BY <3>3, QueueShape DEF Call
    <3>5. ASSUME NEW d \in calls[j].waits
          PROVE  graph_signals[d.queue] >= d.no
      <4>1. d.no \in 1..(j - 1) /\ calls[d.no].queue = d.queue /\ calls[d.no].signal
        BY <3>1 DEF GraphFollowed, GraphInv, WaitsTrue
      <4>2. d.no \in DOMAIN calls /\ d.no < j /\ d.queue \in Graph!Queue
        BY <3>1, <3>3, <4>1, Domain DEF GraphFollowed, Call, Wait
      <4>3. d.no <= graph_signals[d.queue]
        BY <2>1, <3>2, <4>1, <4>2 DEF Graph!OnQueue
      <4> QED
        BY <4>1, <4>2, <4>3 DEF GraphFollowed, ReplayTypes
    <3>6. Graph!CanStart(j)
      BY <3>1, <3>2, <3>4, <3>5 DEF Graph!CanStart, Graph!OnQueue
    <3> QED
      BY <3>6
  <2>3. CASE todo = {}
    <3>1. PICK d \in Device : d \notin ended
      BY DEF GraphFollowed, ReplayTypes
    <3>2. ASSUME NEW q \in Graph!FinalQueues(d)
          PROVE  graph_signals[q] >= last_j[q]
      <4>1. q \in Graph!Queue /\ q[2] # 0 /\ last_j[q] \in Graph!OnQueue(q)
        BY DEF Graph!FinalQueues, GraphFollowed, GraphInv, LastTrue
      <4>2. calls[last_j[q]].signal /\ last_j[q] \in done
        BY <2>3, <4>1 DEF Graph!OnQueue, GraphFollowed, GraphInv, CopiesSignal
      <4>3. last_j[q] <= graph_signals[q]
        BY <2>1, <4>1, <4>2
      <4> QED
        BY <4>1, <4>3 DEF GraphFollowed, BuildTypes, ReplayTypes
    <3>3. Graph!CanEnd(d)
      BY <2>3, <3>1, <3>2 DEF Graph!CanEnd, Graph!OnQueue
    <3> QED
      BY <3>3
  <2> QED
    BY <2>2, <2>3
<1> QED
  BY <1>1, GraphInvariant, PTL

\* ReplaysEnd: a replay always gets to its end, and finds every call done there.
THEOREM ReplaysGoOn == MCSpec => []ReplaysEnd
<1>1. Graph!ReplayWhole /\ Graph!NeverStuck => ReplaysEnd
  BY DEF ReplaysEnd, Graph!ReplaysEnd
<1> QED
  BY <1>1, WholeAtTheEnd, NoDeadlock, PTL
=============================================================================
