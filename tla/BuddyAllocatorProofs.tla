----------------------- MODULE BuddyAllocatorProofs -----------------------
(***************************************************************************)
(* Proofs about BuddyAllocator for every number of threads, every number   *)
(* of orders, every minimum block size and every base that is a multiple   *)
(* of the arena's size.                                                    *)
(***************************************************************************)
EXTENDS BuddyAllocator, ListLemmas, TLAPS

-----------------------------------------------------------------------------
(* Arithmetic on multiples of a block size s. *)

(* The quotient of a multiple of s is its factor. *)
LEMMA Quotient == ASSUME NEW s \in Nat \ {0}, NEW i \in Nat PROVE (i * s) \div s = i
  OBVIOUS

(* A multiple of s leaves no remainder. *)
LEMMA Remainder == ASSUME NEW s \in Nat \ {0}, NEW i \in Nat PROVE (i * s) % s = 0
  OBVIOUS

(* A number without remainder is a multiple. *)
LEMMA Factor ==
  ASSUME NEW s \in Nat \ {0}, NEW a \in Nat, a % s = 0
  PROVE  \E i \in Nat : a = i * s
  OBVIOUS

(* The multiple after a given one. *)
LEMMA NextMultiple == ASSUME NEW s \in Nat, NEW i \in Nat PROVE (i + 1) * s = i * s + s
  OBVIOUS

(* The bit of weight s of a multiple of s is the parity of its factor. *)
LEMMA BitOfMultiple ==
  ASSUME NEW s \in Nat \ {0}, NEW i \in Nat
  PROVE  Bit(i * s, s) = i % 2
  BY Quotient DEF Bit

(* A multiple of 2s is a multiple of s. *)
LEMMA HalfRemainder ==
  ASSUME NEW s \in Nat \ {0}, NEW a \in Nat, a % (2 * s) = 0
  PROVE  /\ a % s = 0
         /\ (a + s) % s = 0
<1>1. PICK i \in Nat : a = i * (2 * s)
  BY Factor, 2 * s \in Nat \ {0}
<1>2. a = (2 * i) * s /\ a + s = (2 * i + 1) * s
  BY <1>1
<1>3. 2 * i \in Nat /\ 2 * i + 1 \in Nat
  OBVIOUS
<1> QED
  BY <1>2, <1>3, Remainder

(* A block with an even factor starts at a multiple of 2s. *)
LEMMA EvenFactor ==
  ASSUME NEW s \in Nat \ {0}, NEW i \in Nat, i % 2 = 0
  PROVE  (i * s) % (2 * s) = 0
<1>1. PICK j \in Nat : i = 2 * j
  OBVIOUS
<1>2. i * s = j * (2 * s)
  BY <1>1
<1> QED
  BY <1>2, Remainder, 2 * s \in Nat \ {0}

(* The block below one with an odd factor starts at a multiple of 2s. *)
LEMMA OddFactor ==
  ASSUME NEW s \in Nat \ {0}, NEW i \in Nat, i % 2 # 0
  PROVE  /\ i * s - s \in Nat
         /\ (i * s - s) % (2 * s) = 0
<1>1. PICK j \in Nat : i = 2 * j + 1
  OBVIOUS
<1>2. i * s - s = j * (2 * s)
  BY <1>1
<1>3. j * (2 * s) \in Nat
  OBVIOUS
<1> QED
  BY <1>2, <1>3, Remainder, 2 * s \in Nat \ {0}, Zenon

-----------------------------------------------------------------------------
(* Block sizes. *)

(* The orders and the block sizes, spelled out: minBlockSize_ << order is   *)
(* positive and doubles from each order to the next.                        *)
LEMMA SizeType ==
  /\ MaxOrder \in Orders
  /\ 0 \in Orders
  /\ \A k \in Orders : k \in Nat /\ BlockSize[k] \in Nat /\ BlockSize[k] > 0
  /\ \A k \in Orders : k < MaxOrder => k + 1 \in Orders /\ BlockSize[k + 1] = 2 * BlockSize[k]
  /\ \A k \in Orders : k > 0 => k - 1 \in Orders /\ BlockSize[k] = 2 * BlockSize[k - 1]
<1>1. \A k \in Orders : k \in Nat /\ k <= MaxOrder
  BY MaxOrderAssumption DEF Orders
<1>2. \A k \in Orders : BlockSize[k] \in Nat \ {0}
  BY BlockSizeAssumption
<1>3. \A k \in Orders : k < MaxOrder => k + 1 \in Orders /\ BlockSize[k + 1] = 2 * BlockSize[k]
  BY <1>1, MaxOrderAssumption, BlockSizeAssumption DEF Orders
<1>4. \A k \in Orders : k > 0 => k - 1 \in Orders /\ BlockSize[k] = 2 * BlockSize[k - 1]
  <2>1. SUFFICES ASSUME NEW k \in Orders, k > 0
                 PROVE  k - 1 \in Orders /\ BlockSize[k] = 2 * BlockSize[k - 1]
    OBVIOUS
  <2>2. k - 1 \in Orders /\ k - 1 < MaxOrder
    BY <1>1, <2>1, MaxOrderAssumption DEF Orders
  <2>3. BlockSize[(k - 1) + 1] = 2 * BlockSize[k - 1]
    BY <2>2, BlockSizeAssumption
  <2> QED
    BY <2>2, <2>3, <1>1
<1>5. MaxOrder \in Orders /\ 0 \in Orders
  BY MaxOrderAssumption DEF Orders
<1> QED
  BY <1>1, <1>2, <1>3, <1>4, <1>5

(* The block size grows with the order: a larger order's block is at least  *)
(* twice as large.                                                          *)
LEMMA SizeMonotone ==
  ASSUME NEW j \in Orders
  PROVE  \A k \in Orders : j < k => 2 * BlockSize[j] <= BlockSize[k]
<1> DEFINE T == {k \in Orders : j < k /\ ~ (2 * BlockSize[j] <= BlockSize[k])}
<1>1. ASSUME T # {} PROVE FALSE
  <2>1. T \subseteq Nat
    BY SizeType
  <2>2. PICK k \in T : \A y \in T : k <= y
    BY <1>1, <2>1, Least, Zenon
  <2>3. /\ k \in Orders /\ k \in Nat /\ j \in Nat /\ j < k
        /\ k - 1 \in Orders /\ BlockSize[k] = 2 * BlockSize[k - 1]
    BY <2>2, SizeType
  <2>4. k - 1 \notin T
    BY <2>2, <2>3
  <2>5. BlockSize[j] <= BlockSize[k - 1]
    BY <2>3, <2>4, SizeType
  <2> QED
    BY <2>2, <2>3, <2>5, SizeType
<1> QED
  BY <1>1

(* The size of every order divides the size of every larger one. *)
LEMMA SizeDivides ==
  ASSUME NEW j \in Orders
  PROVE  \A k \in Orders : j <= k => \E m \in Nat \ {0} : BlockSize[k] = m * BlockSize[j]
<1> DEFINE T == {k \in Orders : j <= k /\ ~ (\E m \in Nat \ {0} : BlockSize[k] = m * BlockSize[j])}
<1>1. ASSUME T # {} PROVE FALSE
  <2>1. T \subseteq Nat
    BY SizeType
  <2>2. PICK k \in T : \A y \in T : k <= y
    BY <1>1, <2>1, Least, Zenon
  <2>3. k # j
    <3>1. BlockSize[j] = 1 * BlockSize[j]
      BY SizeType
    <3> QED
      BY <2>2, <3>1
  <2>4. /\ k \in Nat /\ j \in Nat /\ j < k /\ k - 1 \in Orders
        /\ BlockSize[k] = 2 * BlockSize[k - 1]
    BY <2>2, <2>3, SizeType
  <2>5. k - 1 \notin T
    BY <2>2, <2>4
  <2>6. PICK m \in Nat \ {0} : BlockSize[k - 1] = m * BlockSize[j]
    BY <2>4, <2>5
  <2>7. BlockSize[k] = (2 * m) * BlockSize[j] /\ 2 * m \in Nat \ {0}
    BY <2>4, <2>6, SizeType
  <2> QED
    BY <2>2, <2>7
<1> QED
  BY <1>1

(* GetOrder answers every size up to the arena's with the first order whose *)
(* block is large enough, and answers the size of a block with its order:   *)
(* Scheduler.hpp frees with BlockSizeForRequest of what it asked for.       *)
THEOREM GetOrderCorrect ==
  ASSUME NEW size \in Nat, size <= BlockSize[MaxOrder]
  PROVE  /\ GetOrder(size) \in Orders
         /\ size <= BlockSizeForRequest(size)
         /\ \A k \in Orders : k < GetOrder(size) => BlockSize[k] < size
         /\ GetOrder(BlockSizeForRequest(size)) = GetOrder(size)
<1> DEFINE Fits(n, k) == n <= BlockSize[k] /\ (k = 0 \/ BlockSize[k - 1] < n)
<1>1. ASSUME NEW n \in Nat, n <= BlockSize[MaxOrder]
      PROVE  \E k \in Orders : Fits(n, k)
  <2> DEFINE T == {k \in Orders : n <= BlockSize[k]}
  <2>1. T \subseteq Nat /\ MaxOrder \in T
    BY <1>1, SizeType
  <2>2. PICK k \in T : \A y \in T : k <= y
    BY <2>1, Least, Zenon
  <2>3. k > 0 => k - 1 \in Orders /\ k - 1 \notin T
    BY <2>2, SizeType
  <2>4. Fits(n, k)
    BY <2>2, <2>3, SizeType
  <2> QED
    BY <2>2, <2>4
<1>2. ASSUME NEW n \in Nat, NEW k \in Orders, NEW j \in Orders, Fits(n, k), Fits(n, j)
      PROVE  k = j
  <2>1. ASSUME NEW a \in Orders, NEW b \in Orders, a < b, Fits(n, a), Fits(n, b) PROVE FALSE
    <3>1. b - 1 \in Orders /\ BlockSize[b - 1] < n /\ a <= b - 1
      BY <2>1, SizeType
    <3>2. BlockSize[a] <= BlockSize[b - 1]
      <4>1. CASE a = b - 1
        BY <4>1, SizeType
      <4>2. CASE a < b - 1
        BY <4>2, <3>1, SizeMonotone, SizeType
      <4> QED
        BY <4>1, <4>2, <3>1, SizeType
    <3> QED
      BY <2>1, <3>1, <3>2, SizeType
  <2> QED
    BY <1>2, <2>1, SizeType
<1>3. ASSUME NEW n \in Nat, n <= BlockSize[MaxOrder]
      PROVE  GetOrder(n) \in Orders /\ Fits(n, GetOrder(n))
  <2>1. GetOrder(n) = CHOOSE k \in Orders : Fits(n, k)
    BY <1>3, SizeType DEF GetOrder
  <2> QED
    BY <1>1, <1>3, <2>1
<1>4. GetOrder(size) \in Orders /\ Fits(size, GetOrder(size))
  BY <1>3
<1>5. \A k \in Orders : k < GetOrder(size) => BlockSize[k] < size
  <2>1. SUFFICES ASSUME NEW k \in Orders, k < GetOrder(size) PROVE BlockSize[k] < size
    OBVIOUS
  <2>2. GetOrder(size) - 1 \in Orders /\ BlockSize[GetOrder(size) - 1] < size
    BY <1>4, <2>1, SizeType
  <2>3. CASE k = GetOrder(size) - 1
    BY <2>2, <2>3
  <2>4. CASE k < GetOrder(size) - 1
    BY <2>2, <2>4, SizeMonotone, SizeType
  <2> QED
    BY <2>1, <2>3, <2>4, <1>4, SizeType
<1>6. GetOrder(BlockSizeForRequest(size)) = GetOrder(size)
  <2> DEFINE g == GetOrder(size)
             n == BlockSize[g]
  <2>1. n \in Nat /\ n <= BlockSize[MaxOrder]
    <3>1. g = MaxOrder \/ g < MaxOrder
      BY <1>4, SizeType DEF Orders
    <3>2. BlockSize[g] \in Nat /\ BlockSize[MaxOrder] \in Nat /\ MaxOrder \in Orders
      BY <1>4, SizeType
    <3>3. g < MaxOrder => 2 * BlockSize[g] <= BlockSize[MaxOrder]
      BY <1>4, <3>2, SizeMonotone
    <3> HIDE DEF g
    <3> QED
      BY <3>1, <3>2, <3>3
  <2>2. Fits(n, g)
    BY <1>4, SizeType
  <2>3. GetOrder(n) \in Orders /\ Fits(n, GetOrder(n))
    BY <2>1, <1>3
  <2> QED
    BY <1>4, <2>1, <2>2, <2>3, <1>2 DEF BlockSizeForRequest
<1> QED
  BY <1>4, <1>5, <1>6 DEF BlockSizeForRequest

-----------------------------------------------------------------------------
(* Addresses. *)

(* A block address is the base plus a multiple of the block size. *)
LEMMA SlotFactor ==
  ASSUME NEW k \in Orders, NEW a \in Slots(k)
  PROVE  /\ a \in Int /\ a - Base \in Nat
         /\ \E i \in Nat : a - Base = i * BlockSize[k]
<1>1. a \in Int /\ a - Base \in Nat /\ (a - Base) % BlockSize[k] = 0
  BY BaseAssumption, SizeType DEF Slots, Arena
<1>2. BlockSize[k] \in Nat \ {0}
  BY SizeType
<1>3. \E i \in Nat : a - Base = i * BlockSize[k]
  BY <1>1, <1>2, Factor, Zenon
<1> QED
  BY <1>1, <1>3

(* Over an aligned base, ptr & ~blockSize is the lower of the block and its *)
(* buddy, that lower block starts at a multiple of the next size, the two   *)
(* lie side by side, and each is the other's buddy.                         *)
LEMMA BuddyPair ==
  ASSUME BaseAligned, NEW k \in Orders, k < MaxOrder, NEW a \in Slots(k)
  PROVE  LET s == BlockSize[k]
             b == BuddyOf(a, k)
             m == Merged(a, k)
         IN  /\ b \in Int /\ m \in Int
             /\ (m = a /\ b = a + s) \/ (m = b /\ b = a - s)
             /\ m - Base \in Nat /\ (m - Base) % (2 * s) = 0
             /\ BuddyOf(b, k) = a
<1> DEFINE s == BlockSize[k]
<1>1. s \in Nat \ {0}
  BY SizeType
<1>2. PICK i \in Nat : a - Base = i * s
  BY SlotFactor
<1>3. a \in Int /\ Base \in Nat
  BY SlotFactor, BaseAssumption
<1>4. PICK c \in Nat : Base = (2 * c) * s
  <2>1. k + 1 \in Orders /\ k + 1 <= MaxOrder /\ BlockSize[k + 1] = 2 * s
    BY SizeType DEF Orders
  <2>2. PICK m \in Nat \ {0} : BlockSize[MaxOrder] = m * (2 * s)
    BY <2>1, SizeDivides, SizeType
  <2>3. PICK d \in Nat : Base = d * BlockSize[MaxOrder]
    <3>1. BlockSize[MaxOrder] \in Nat \ {0}
      BY SizeType
    <3>2. Base % BlockSize[MaxOrder] = 0
      BY DEF BaseAligned
    <3> QED
      BY <1>3, <3>1, <3>2, Factor, Zenon
  <2>4. Base = (2 * (d * m)) * s /\ d * m \in Nat
    BY <1>1, <2>2, <2>3
  <2> QED
    BY <2>4
<1>5. a = (2 * c + i) * s /\ 2 * c + i \in Nat
  BY <1>1, <1>2, <1>3, <1>4
<1>6. Bit(a, s) = (2 * c + i) % 2 /\ Bit(a - Base, s) = i % 2
  BY <1>1, <1>2, <1>5, BitOfMultiple, Zenon
<1>7. (2 * c + i) % 2 = i % 2
  OBVIOUS
<1>8. CASE i % 2 = 0
  <2>1. BuddyOf(a, k) = a + s /\ Merged(a, k) = a
    BY <1>6, <1>7, <1>8 DEF BuddyOf, Merged
  <2>2. (a - Base) % (2 * s) = 0
    BY <1>1, <1>2, <1>8, EvenFactor, Zenon
  <2>3. (a + s) - Base = (i + 1) * s /\ i + 1 \in Nat /\ (i + 1) % 2 # 0
    <3>1. (a + s) - Base = (a - Base) + s
      BY <1>1, <1>3
    <3>2. (i + 1) * s = i * s + s
      BY <1>1, NextMultiple, Zenon
    <3>3. i + 1 \in Nat /\ (i + 1) % 2 # 0
      BY <1>8
    <3> QED
      BY <1>2, <3>1, <3>2, <3>3
  <2>4. Bit((a + s) - Base, s) # 0
    BY <1>1, <2>3, BitOfMultiple
  <2>5. BuddyOf(a + s, k) = a
    BY <1>1, <1>3, <2>4 DEF BuddyOf
  <2> QED
    BY <1>1, <1>2, <1>3, <2>1, <2>2, <2>5
<1>9. CASE i % 2 # 0
  <2>1. BuddyOf(a, k) = a - s /\ Merged(a, k) = a - s
    BY <1>6, <1>7, <1>9 DEF BuddyOf, Merged
  <2>2. (i * s - s) \in Nat /\ (i * s - s) % (2 * s) = 0
    BY <1>1, <1>9, OddFactor, Zenon
  <2>3. (a - s) - Base = i * s - s
    BY <1>1, <1>2, <1>3
  <2>4. i - 1 \in Nat /\ (i - 1) % 2 = 0 /\ (a - s) - Base = (i - 1) * s
    BY <1>1, <1>3, <1>9, <2>3
  <2>5. Bit((a - s) - Base, s) = 0
    BY <1>1, <2>4, BitOfMultiple
  <2>6. BuddyOf(a - s, k) = a
    BY <1>1, <1>3, <2>5 DEF BuddyOf
  <2> QED
    BY <1>1, <1>3, <2>1, <2>2, <2>3, <2>6
<1> QED
  BY <1>8, <1>9

-----------------------------------------------------------------------------
(* Sets of blocks that tile the arena. *)

Apart(P) == \A x, y \in P : x # y => BytesOf(x) \cap BytesOf(y) = {}
Tiles(P) == Apart(P) /\ UNION {BytesOf(x) : x \in P} = Arena

(* A block that changes hands leaves the tiling as it is. *)
LEMMA MoveTiles ==
  ASSUME NEW P, NEW x \in P, NEW y, BytesOf(y) = BytesOf(x), Tiles(P)
  PROVE  Tiles((P \ {x}) \cup {y})
<1> DEFINE Q == (P \ {x}) \cup {y}
<1>1. Apart(Q)
  BY DEF Tiles, Apart
<1>2. UNION {BytesOf(z) : z \in Q} = UNION {BytesOf(z) : z \in P}
  OBVIOUS
<1> QED
  BY <1>1, <1>2 DEF Tiles

(* So does replacing a block by its two halves. *)
LEMMA SplitTiles ==
  ASSUME NEW P, NEW x \in P, NEW y, NEW z, Tiles(P),
         BytesOf(x) = BytesOf(y) \cup BytesOf(z), BytesOf(y) \cap BytesOf(z) = {}
  PROVE  Tiles((P \ {x}) \cup {y, z})
<1> DEFINE Q == (P \ {x}) \cup {y, z}
<1>1. Apart(Q)
  BY DEF Tiles, Apart
<1>2. UNION {BytesOf(w) : w \in Q} = UNION {BytesOf(w) : w \in P}
  OBVIOUS
<1> QED
  BY <1>1, <1>2 DEF Tiles

(* And so does joining two of them. *)
LEMMA MergeTiles ==
  ASSUME NEW P, NEW x \in P, NEW y \in P, NEW z, Tiles(P),
         BytesOf(z) = BytesOf(x) \cup BytesOf(y)
  PROVE  Tiles((P \ {x, y}) \cup {z})
<1> DEFINE Q == (P \ {x, y}) \cup {z}
<1>1. Apart(Q)
  BY DEF Tiles, Apart
<1>2. UNION {BytesOf(w) : w \in Q} = UNION {BytesOf(w) : w \in P}
  OBVIOUS
<1> QED
  BY <1>1, <1>2 DEF Tiles

(* The bytes of a block of order k + 1 are those of its two halves. *)
LEMMA Halves ==
  ASSUME NEW k \in Orders, k < MaxOrder, NEW a \in Int, NEW x, NEW y, NEW z,
         x.ptr = a, x.order = k + 1, y.ptr = a, y.order = k,
         z.ptr = a + BlockSize[k], z.order = k
  PROVE  /\ BytesOf(x) = BytesOf(y) \cup BytesOf(z)
         /\ BytesOf(y) \cap BytesOf(z) = {}
<1>1. BlockSize[k] \in Nat /\ BlockSize[k + 1] = 2 * BlockSize[k]
  BY SizeType
<1> QED
  BY <1>1 DEF BytesOf

-----------------------------------------------------------------------------
(* How the pieces change when one variable does. *)

(* A list that gains or loses an address. *)
LEMMA ListPiecesGain ==
  ASSUME freeLists \in [Orders -> Seq(Int)], NEW k \in Orders, NEW a, NEW m,
         freeLists' = [freeLists EXCEPT ![k] = m], Range(m) = {a} \cup Range(freeLists[k])
  PROVE  ListPieces' = ListPieces \cup {[holder |-> "list", ptr |-> a, order |-> k]}
<1>1. \A j \in Orders : Range(freeLists'[j]) = IF j = k THEN {a} \cup Range(freeLists[j]) ELSE Range(freeLists[j])
  BY Zenon
<1>2. \A x : x \in ListPieces <=>
        \E j \in Orders : \E c \in Range(freeLists[j]) : x = [holder |-> "list", ptr |-> c, order |-> j]
  BY DEF ListPieces
<1>3. \A x : x \in ListPieces' <=>
        \E j \in Orders : \E c \in Range(freeLists'[j]) : x = [holder |-> "list", ptr |-> c, order |-> j]
  BY DEF ListPieces
<1> QED
  BY <1>1, <1>2, <1>3

(* The other way round, for a pop or an unlinking. *)
LEMMA ListPiecesLose ==
  ASSUME freeLists \in [Orders -> Seq(Int)], NEW k \in Orders, NEW a, NEW m,
         freeLists' = [freeLists EXCEPT ![k] = m], Range(m) = Range(freeLists[k]) \ {a}
  PROVE  ListPieces' = ListPieces \ {[holder |-> "list", ptr |-> a, order |-> k]}
<1>1. \A j \in Orders : Range(freeLists'[j]) = IF j = k THEN Range(freeLists[j]) \ {a} ELSE Range(freeLists[j])
  BY Zenon
<1>2. \A x : x \in ListPieces <=>
        \E j \in Orders : \E c \in Range(freeLists[j]) : x = [holder |-> "list", ptr |-> c, order |-> j]
  BY DEF ListPieces
<1>3. \A x : x \in ListPieces' <=>
        \E j \in Orders : \E c \in Range(freeLists'[j]) : x = [holder |-> "list", ptr |-> c, order |-> j]
  BY DEF ListPieces
<1>4. ASSUME NEW x \in ListPieces' PROVE x \in ListPieces /\ x # [holder |-> "list", ptr |-> a, order |-> k]
  BY <1>1, <1>2, <1>3
<1>5. ASSUME NEW x \in ListPieces, x # [holder |-> "list", ptr |-> a, order |-> k] PROVE x \in ListPieces'
  BY <1>1, <1>2, <1>3, <1>5
<1> QED
  BY <1>4, <1>5

(* An address on a list is a piece. *)
LEMMA ListPieceIn ==
  ASSUME NEW k \in Orders, NEW a \in Range(freeLists[k])
  PROVE  [holder |-> "list", ptr |-> a, order |-> k] \in ListPieces
<1> DEFINE x == [holder |-> "list", ptr |-> a, order |-> k]
<1>1. x \in {[holder |-> "list", ptr |-> c, order |-> k] : c \in Range(freeLists[k])}
  OBVIOUS
<1> QED
  BY <1>1 DEF ListPieces

(* So is the block in a thread's hands. *)
LEMMA ThreadPieceIn ==
  ASSUME NEW t \in Threads, Flying(t)
  PROVE  [holder |-> t, ptr |-> ptr[t], order |-> level[t]] \in ThreadPieces
  BY DEF ThreadPieces

(* A step of thread t leaves the other threads' pieces alone. *)
LEMMA ThreadPiecesStep ==
  ASSUME NEW t \in Threads,
         \A u \in Threads : u # t => pc'[u] = pc[u] /\ ptr'[u] = ptr[u] /\ level'[u] = level[u]
  PROVE  LET others == {x \in ThreadPieces : x.holder # t}
         IN  /\ ~ Flying(t) => ThreadPieces = others
             /\ Flying(t) => ThreadPieces = others \cup {[holder |-> t, ptr |-> ptr[t], order |-> level[t]]}
             /\ ~ Flying(t)' => ThreadPieces' = others
             /\ Flying(t)' => ThreadPieces' = others \cup {[holder |-> t, ptr |-> ptr'[t], order |-> level'[t]]}
<1> DEFINE others == {x \in ThreadPieces : x.holder # t}
<1>1. \A x : x \in ThreadPieces <=>
        \E u \in Threads : Flying(u) /\ x = [holder |-> u, ptr |-> ptr[u], order |-> level[u]]
  BY DEF ThreadPieces
<1>2. \A x : x \in ThreadPieces' <=>
        \E u \in Threads : Flying(u)' /\ x = [holder |-> u, ptr |-> ptr'[u], order |-> level'[u]]
  BY DEF ThreadPieces
<1>3. \A u \in Threads : u # t => (Flying(u)' <=> Flying(u))
  BY DEF Flying
<1>4. \A x : x \in others <=>
        \E u \in Threads : u # t /\ Flying(u) /\ x = [holder |-> u, ptr |-> ptr[u], order |-> level[u]]
  BY <1>1
<1> HIDE DEF others
<1>5. (~ Flying(t) => ThreadPieces = others)
  BY <1>1, <1>4
<1>6. Flying(t) => ThreadPieces = others \cup {[holder |-> t, ptr |-> ptr[t], order |-> level[t]]}
  BY <1>1, <1>4
<1>7. ~ Flying(t)' => ThreadPieces' = others
  BY <1>2, <1>3, <1>4
<1>8. Flying(t)' => ThreadPieces' = others \cup {[holder |-> t, ptr |-> ptr'[t], order |-> level'[t]]}
  BY <1>2, <1>3, <1>4
<1> QED
  BY <1>5, <1>6, <1>7, <1>8 DEF others

(* Who holds a piece shows in its holder field. *)
LEMMA Holders ==
  /\ \A x \in ListPieces : x.holder = "list"
  /\ \A x \in CallerPieces : x.holder = "caller"
  /\ \A x \in ThreadPieces : x.holder \in Threads
  /\ "list" \notin Threads /\ "caller" \notin Threads /\ NoThread \notin Threads
  BY ThreadsAssumption DEF ListPieces, CallerPieces, ThreadPieces

-----------------------------------------------------------------------------
(* The threads: types, the mutex, the levels, the lists passed on the way. *)

(* The free lists keep their type when a node is pushed, popped or unlinked. *)
LEMMA ListTypes ==
  ASSUME TypeOK, NoOverlap, NEW k \in Orders
  PROVE  /\ \A a \in Int : PushNode(k, a) \in [Orders -> Seq(Int)]
         /\ freeLists[k] # <<>> => PopNode(k) \in [Orders -> Seq(Int)] /\ Head(freeLists[k]) \in Int
         /\ \A i \in 1 .. Len(freeLists[k]) : RemoveNode(k, i) \in [Orders -> Seq(Int)]
<1>1. freeLists \in [Orders -> Seq(Int)] /\ freeLists[k] \in Seq(Int) /\ IsInjective(freeLists[k])
  BY DEF TypeOK, NoOverlap
<1>2. \A a \in Int : PushNode(k, a) \in [Orders -> Seq(Int)]
  BY <1>1, PushRange DEF PushNode
<1>3. freeLists[k] # <<>> => PopNode(k) \in [Orders -> Seq(Int)] /\ Head(freeLists[k]) \in Int
  BY <1>1, PopRange DEF PopNode
<1>4. \A i \in 1 .. Len(freeLists[k]) : RemoveNode(k, i) \in [Orders -> Seq(Int)]
  BY <1>1, RemoveRange DEF RemoveNode
<1> QED
  BY <1>2, <1>3, <1>4

(* A step that ends a call keeps the threads' facts: the thread that held    *)
(* the mutex is idle again and the lists are only its own business.          *)
LEMMA ReturnControl ==
  ASSUME TypeOK, CallInv, NEW t \in Threads, mutex = t, Return(t)
  PROVE  /\ CallInv'
         /\ mutex' \in Threads \cup {NoThread}
         /\ pc' \in [Threads -> {"idle", "allocLock", "allocInternal", "split", "freeLock", "freeInternal"}]
         /\ order' \in [Threads -> Orders]
         /\ level' \in [Threads -> 0 .. MaxOrder + 1]
         /\ ptr' \in [Threads -> Int]
<1>1. 0 \in Orders /\ 0 \in 0 .. MaxOrder + 1
  BY MaxOrderAssumption DEF Orders
<1>2. /\ mutex' \in Threads \cup {NoThread}
      /\ pc' \in [Threads -> {"idle", "allocLock", "allocInternal", "split", "freeLock", "freeInternal"}]
      /\ order' \in [Threads -> Orders]
      /\ level' \in [Threads -> 0 .. MaxOrder + 1]
      /\ ptr' \in [Threads -> Int]
  BY <1>1 DEF TypeOK, Return
<1>3. \A u \in Threads : u # t => pc[u] \notin {"allocInternal", "split", "freeInternal"}
  BY DEF CallInv
<1>4. CallInv'
  <2>1. SUFFICES ASSUME NEW u \in Threads
                 PROVE  /\ pc'[u] \in {"allocInternal", "split", "freeInternal"} <=> mutex' = u
                        /\ pc'[u] \notin {"allocInternal", "split", "freeInternal"}
                        /\ Flying(u)' => level'[u] \in Orders
    BY DEF CallInv
  <2>2. pc'[u] \notin {"allocInternal", "split", "freeInternal"} /\ mutex' # u
    BY <1>3, Holders DEF Return, TypeOK
  <2>3. Flying(u)' => level'[u] \in Orders
    BY <1>1 DEF CallInv, TypeOK, Return, Flying
  <2> QED
    BY <2>2, <2>3
<1> QED
  BY <1>2, <1>4

(* Every step keeps the types and the threads' facts. *)
LEMMA ControlStep ==
  ASSUME IInv, [Next]_vars
  PROVE  TypeOK' /\ CallInv'
<1> TypeOK /\ CallInv /\ NoOverlap
  BY DEF IInv
<1>0. 0 \in Orders /\ MaxOrder \in Nat /\ Orders = 0 .. MaxOrder
  BY SizeType, MaxOrderAssumption DEF Orders
<1>1. ASSUME NEW t \in Threads, NEW size \in Sizes, AllocateCall(t, size) PROVE TypeOK' /\ CallInv'
  BY <1>1 DEF TypeOK, CallInv, AllocateCall, Flying
<1>2. ASSUME NEW t \in Threads, AllocateLock(t) PROVE TypeOK' /\ CallInv'
  <2>1. order[t] \in 0 .. MaxOrder + 1
    BY <1>0 DEF TypeOK
  <2>2. TypeOK'
    <3>1. /\ mutex' \in Threads /\ level' \in [Threads -> 0 .. MaxOrder + 1]
          /\ pc' \in [Threads -> {"idle", "allocLock", "allocInternal", "split", "freeLock", "freeInternal"}]
      BY <1>2, <2>1 DEF TypeOK, AllocateLock
    <3>2. freeLists' = freeLists /\ live' = live /\ order' = order /\ ptr' = ptr
      BY <1>2 DEF AllocateLock
    <3> QED
      BY <3>1, <3>2, Zenon DEF TypeOK
  <2>3. CallInv'
    BY <1>0, <1>2, Holders DEF TypeOK, CallInv, AllocateLock, Flying
  <2> QED
    BY <2>2, <2>3
<1>3. ASSUME NEW t \in Threads, AllocateNull(t) PROVE TypeOK' /\ CallInv'
  <2>1. mutex = t /\ Return(t) /\ freeLists' = freeLists /\ live' = live
    BY <1>3 DEF CallInv, AllocateNull
  <2> QED
    BY <2>1, ReturnControl, Zenon DEF TypeOK
<1>4. ASSUME NEW t \in Threads, AllocatePop(t) PROVE TypeOK' /\ CallInv'
  <2>1. level[t] \in Orders /\ mutex = t
    BY <1>0, <1>4 DEF TypeOK, CallInv, AllocatePop
  <2>2. freeLists' \in [Orders -> Seq(Int)] /\ Head(freeLists[level[t]]) \in Int
    BY <1>4, <2>1, ListTypes DEF AllocatePop
  <2>3. TypeOK'
    <3>1. ptr' \in [Threads -> Int] /\ pc' \in [Threads -> {"idle", "allocLock", "allocInternal", "split", "freeLock", "freeInternal"}]
      BY <1>4, <2>2 DEF TypeOK, AllocatePop
    <3>2. live' = live /\ mutex' = mutex /\ order' = order /\ level' = level
      BY <1>4 DEF AllocatePop
    <3> QED
      BY <2>2, <3>1, <3>2, Zenon DEF TypeOK
  <2>4. \A j \in Orders : j < level[t] => freeLists'[j] = freeLists[j]
    BY <1>4, <2>1 DEF TypeOK, AllocatePop, PopNode
  <2>5. CallInv'
    BY <1>4, <2>1, <2>4 DEF TypeOK, CallInv, AllocatePop, Flying
  <2> QED
    BY <2>3, <2>5
<1>5. ASSUME NEW t \in Threads, AllocateDeeper(t) PROVE TypeOK' /\ CallInv'
  <2>1. level[t] \in 0 .. MaxOrder + 1 /\ level[t] <= MaxOrder /\ order[t] \in Orders
    BY <1>5 DEF TypeOK, AllocateDeeper
  <2>2. level[t] + 1 \in 0 .. MaxOrder + 1 /\ level[t] \in Orders
    BY <1>0, <2>1
  <2>3. level' \in [Threads -> 0 .. MaxOrder + 1] /\ level'[t] = level[t] + 1
    BY <1>5, <2>2 DEF TypeOK, AllocateDeeper
  <2>4. /\ freeLists' = freeLists /\ live' = live /\ mutex' = mutex
        /\ pc' = pc /\ order' = order /\ ptr' = ptr
    BY <1>5 DEF AllocateDeeper
  <2>5. TypeOK'
    BY <2>3, <2>4, Zenon DEF TypeOK
  <2>6. CallInv'
    <3>1. SUFFICES ASSUME NEW u \in Threads
                   PROVE  /\ pc[u] \in {"allocInternal", "split", "freeInternal"} <=> mutex = u
                          /\ pc[u] \in {"allocInternal", "split"} =>
                               /\ order[u] <= level'[u]
                               /\ \A k \in Orders : order[u] <= k /\ k < level'[u] => freeLists[k] = <<>>
                          /\ Flying(u) => level'[u] \in Orders
      BY <2>4 DEF CallInv, Flying
    <3>2. CASE u # t
      <4>1. level'[u] = level[u]
        BY <1>5, <3>2 DEF TypeOK, AllocateDeeper
      <4> QED
        BY <4>1, Zenon DEF CallInv
    <3>3. CASE u = t
      <4>1. ~ Flying(t) /\ pc[t] = "allocInternal" /\ freeLists[level[t]] = <<>>
        BY <1>5 DEF AllocateDeeper, Flying
      <4>2. order[t] <= level[t] /\ \A k \in Orders : order[t] <= k /\ k < level[t] => freeLists[k] = <<>>
        BY <4>1 DEF CallInv
      <4>3. order[t] <= level[t] + 1 /\ \A k \in Orders : k < level[t] + 1 => k < level[t] \/ k = level[t]
        BY <1>0, <2>1, <4>2
      <4>4. \A k \in Orders : order[t] <= k /\ k < level[t] + 1 => freeLists[k] = <<>>
        BY <4>1, <4>2, <4>3, Zenon
      <4>5. pc[t] \in {"allocInternal", "split", "freeInternal"} <=> mutex = t
        BY DEF CallInv
      <4> QED
        BY <2>3, <3>3, <4>1, <4>3, <4>4, <4>5, Zenon
    <3> QED
      BY <3>2, <3>3
  <2> QED
    BY <2>5, <2>6
<1>6. ASSUME NEW t \in Threads, AllocateSplit(t) PROVE TypeOK' /\ CallInv'
  <2>1. /\ level[t] \in Orders /\ level[t] - 1 \in Orders /\ mutex = t
        /\ ptr[t] + BlockSize[level[t] - 1] \in Int
    <3>1. level[t] \in Orders /\ mutex = t /\ order[t] \in Orders /\ level[t] > order[t] /\ ptr[t] \in Int
      BY <1>6 DEF TypeOK, CallInv, AllocateSplit, Flying
    <3>2. level[t] - 1 \in Orders
      BY <1>0, <3>1
    <3> QED
      BY <3>1, <3>2, SizeType
  <2>2. freeLists' \in [Orders -> Seq(Int)]
    BY <1>6, <2>1, ListTypes DEF AllocateSplit
  <2>3. TypeOK'
    <3>1. level[t] - 1 \in 0 .. MaxOrder + 1
      BY <1>0, <2>1
    <3>2. level' \in [Threads -> 0 .. MaxOrder + 1]
      BY <1>6, <3>1 DEF TypeOK, AllocateSplit
    <3>3. live' = live /\ mutex' = mutex /\ pc' = pc /\ order' = order /\ ptr' = ptr
      BY <1>6 DEF AllocateSplit
    <3> QED
      BY <2>2, <3>2, <3>3, Zenon DEF TypeOK
  <2>4. \A j \in Orders : j < level[t] - 1 => freeLists'[j] = freeLists[j]
    BY <1>6, <2>1 DEF TypeOK, AllocateSplit, PushNode
  <2>5. CallInv'
    <3>1. SUFFICES ASSUME NEW u \in Threads
                   PROVE  /\ pc[u] \in {"allocInternal", "split", "freeInternal"} <=> mutex = u
                          /\ pc[u] \in {"allocInternal", "split"} =>
                               /\ order[u] <= level'[u]
                               /\ \A k \in Orders : order[u] <= k /\ k < level'[u] => freeLists'[k] = <<>>
                          /\ Flying(u) => level'[u] \in Orders
      BY <1>6 DEF CallInv, AllocateSplit, Flying
    <3>2. CASE u # t
      BY <1>6, <2>1, <3>2 DEF TypeOK, CallInv, AllocateSplit
    <3>3. CASE u = t
      <4>1. level'[t] = level[t] - 1 /\ order[t] < level[t] /\ order[t] \in Nat /\ level[t] \in Nat
        BY <1>0, <1>6, <2>1 DEF TypeOK, AllocateSplit
      <4>2. \A k \in Orders : order[t] <= k /\ k < level[t] - 1 => freeLists'[k] = <<>>
        BY <1>0, <1>6, <2>1, <2>4 DEF CallInv, AllocateSplit
      <4> QED
        BY <1>6, <2>1, <3>3, <4>1, <4>2 DEF CallInv, AllocateSplit
    <3> QED
      BY <3>2, <3>3
  <2> QED
    BY <2>3, <2>5
<1>7. ASSUME NEW t \in Threads, AllocateReturn(t) PROVE TypeOK' /\ CallInv'
  <2>1. mutex = t /\ Return(t) /\ freeLists' = freeLists
    BY <1>7 DEF CallInv, AllocateReturn
  <2>2. live' \subseteq [ptr : Int, order : Orders]
    BY <1>7 DEF TypeOK, AllocateReturn
  <2> QED
    BY <2>1, <2>2, ReturnControl, Zenon DEF TypeOK
<1>8. ASSUME NEW t \in Threads, NEW b \in live, FreeCall(t, b) PROVE TypeOK' /\ CallInv'
  <2>1. b.ptr \in Int /\ b.order \in Orders
    BY DEF TypeOK
  <2>2. TypeOK'
    <3>1. b.order \in 0 .. MaxOrder + 1
      BY <1>0, <2>1
    <3> QED
      BY <1>8, <2>1, <3>1 DEF TypeOK, FreeCall
  <2>3. /\ freeLists' = freeLists /\ mutex' = mutex /\ order' = order
        /\ pc[t] = "idle" /\ pc'[t] = "freeLock" /\ level'[t] = b.order
        /\ \A u \in Threads : u # t => pc'[u] = pc[u] /\ level'[u] = level[u]
    BY <1>8 DEF TypeOK, FreeCall
  <2>4. CallInv'
    <3>1. SUFFICES ASSUME NEW u \in Threads
                   PROVE  /\ pc'[u] \in {"allocInternal", "split", "freeInternal"} <=> mutex = u
                          /\ pc'[u] \in {"allocInternal", "split"} =>
                               /\ order[u] <= level'[u]
                               /\ \A k \in Orders : order[u] <= k /\ k < level'[u] => freeLists[k] = <<>>
                          /\ Flying(u)' => level'[u] \in Orders
      BY <2>3 DEF CallInv, Flying
    <3>2. CASE u # t
      <4>1. Flying(u)' => Flying(u)
        BY <2>3, <3>2 DEF Flying
      <4> QED
        BY <2>3, <3>2, <4>1, Zenon DEF CallInv
    <3>3. CASE u = t
      <4>1. mutex # t
        BY <2>3 DEF CallInv
      <4> QED
        BY <2>1, <2>3, <3>3, <4>1
    <3> QED
      BY <3>2, <3>3
  <2> QED
    BY <2>2, <2>4
<1>9. ASSUME NEW t \in Threads, FreeLock(t) PROVE TypeOK' /\ CallInv'
  <2>1. TypeOK'
    BY <1>9 DEF TypeOK, FreeLock
  <2>2. CallInv'
    BY <1>9, Holders DEF TypeOK, CallInv, FreeLock, Flying
  <2> QED
    BY <2>1, <2>2
<1>10. ASSUME NEW t \in Threads, FreeMerge(t) PROVE TypeOK' /\ CallInv'
  <2>1. level[t] \in Orders /\ level[t] + 1 \in Orders /\ mutex = t
    <3>1. level[t] \in Orders /\ level[t] < MaxOrder /\ mutex = t
      BY <1>10 DEF CallInv, FreeMerge, Flying
    <3> QED
      BY <1>0, <3>1
  <2>2. freeLists' \in [Orders -> Seq(Int)]
    <3>1. PICK i \in 1 .. Len(freeLists[level[t]]) : freeLists' = RemoveNode(level[t], i)
      BY <1>10 DEF FreeMerge
    <3> QED
      BY <2>1, <3>1, ListTypes, Zenon
  <2>3. Merged(ptr[t], level[t]) \in Int
    BY <2>1, SizeType DEF TypeOK, Merged
  <2>4. TypeOK'
    <3>1. level[t] + 1 \in 0 .. MaxOrder + 1
      BY <1>0, <2>1
    <3>2. level' \in [Threads -> 0 .. MaxOrder + 1]
      BY <1>10, <3>1 DEF TypeOK, FreeMerge
    <3>3. ptr' \in [Threads -> Int]
      BY <1>10, <2>3 DEF TypeOK, FreeMerge
    <3>4. live' = live /\ mutex' = mutex /\ pc' = pc /\ order' = order
      BY <1>10 DEF FreeMerge
    <3> QED
      BY <2>2, <3>2, <3>3, <3>4, Zenon DEF TypeOK
  <2>5. CallInv'
    BY <1>0, <1>10, <2>1, Zenon DEF TypeOK, CallInv, FreeMerge, Flying
  <2> QED
    BY <2>4, <2>5
<1>11. ASSUME NEW t \in Threads, FreePush(t) PROVE TypeOK' /\ CallInv'
  <2>1. level[t] \in Orders /\ mutex = t /\ ptr[t] \in Int
    BY <1>11 DEF TypeOK, CallInv, FreePush, Flying
  <2>2. freeLists' \in [Orders -> Seq(Int)]
    BY <1>11, <2>1, ListTypes DEF FreePush
  <2> QED
    BY <1>11, <2>1, <2>2, ReturnControl, Zenon DEF TypeOK, FreePush
<1>12. ASSUME UNCHANGED vars PROVE TypeOK' /\ CallInv'
  BY <1>12 DEF TypeOK, CallInv, Flying, vars
<1> QED
  BY <1>1, <1>2, <1>3, <1>4, <1>5, <1>6, <1>7, <1>8, <1>9, <1>10, <1>11, <1>12 DEF Next, Inside

-----------------------------------------------------------------------------
(* The blocks: they stay aligned, they go on tiling the arena, the lists    *)
(* stay free of repetitions and of buddy pairs.                             *)

ListsOK == Coalesced /\ \A k \in Orders : IsInjective(freeLists[k])

(* The invariants about blocks, in the form the lemmas above use. *)
LEMMA BlocksInv ==
  /\ NoOverlap /\ NoLeak /\ Coalesced <=> Tiles(Pieces) /\ ListsOK
  /\ (NoOverlap /\ NoLeak /\ Coalesced)' <=> Tiles(Pieces') /\ ListsOK'
  BY DEF NoOverlap, NoLeak, Tiles, Apart, ListsOK

(* Every piece has an order and an address and at least one byte. *)
LEMMA PieceType ==
  ASSUME TypeOK, CallInv, NEW x \in Pieces
  PROVE  x.order \in Orders /\ x.ptr \in Int /\ x.ptr \in BytesOf(x)
<1>1. x \in ListPieces => x.order \in Orders /\ x.ptr \in Int
  BY DEF ListPieces, TypeOK, Range
<1>2. x \in CallerPieces => x.order \in Orders /\ x.ptr \in Int
  BY DEF CallerPieces, TypeOK
<1>3. x \in ThreadPieces => x.order \in Orders /\ x.ptr \in Int
  BY DEF ThreadPieces, TypeOK, CallInv
<1>4. x.order \in Orders /\ x.ptr \in Int
  BY <1>1, <1>2, <1>3 DEF Pieces
<1> QED
  BY <1>4, SizeType DEF BytesOf

(* A block that changes hands. *)
LEMMA MoveStep ==
  ASSUME AlignedPieces, Tiles(Pieces), NEW x \in Pieces, NEW y,
         y.ptr = x.ptr, y.order = x.order, Pieces' = (Pieces \ {x}) \cup {y}
  PROVE  AlignedPieces' /\ Tiles(Pieces')
<1>1. BytesOf(y) = BytesOf(x)
  BY DEF BytesOf
<1>2. Tiles(Pieces')
  BY <1>1, MoveTiles
<1>3. AlignedPieces'
  BY DEF AlignedPieces
<1> QED
  BY <1>2, <1>3

(* A list that loses a node keeps its properties. *)
LEMMA LoseStep ==
  ASSUME TypeOK, ListsOK, NEW k \in Orders, NEW m, IsInjective(m), NEW a,
         Range(m) = Range(freeLists[k]) \ {a}, freeLists' = [freeLists EXCEPT ![k] = m]
  PROVE  ListsOK'
<1>1. \A j \in Orders : Range(freeLists'[j]) \subseteq Range(freeLists[j]) /\ IsInjective(freeLists'[j])
  BY DEF TypeOK, ListsOK
<1>2. Coalesced'
  BY <1>1 DEF Coalesced, ListsOK
<1> QED
  BY <1>1, <1>2 DEF ListsOK

(* So does one that gains a new address whose buddy is not on it. *)
LEMMA GainStep ==
  ASSUME BaseAligned, TypeOK, ListsOK, AlignedPieces, NEW k \in Orders, NEW a \in Slots(k),
         a \notin Range(freeLists[k]), k < MaxOrder => BuddyOf(a, k) \notin Range(freeLists[k]),
         freeLists' = PushNode(k, a)
  PROVE  ListsOK'
<1>1. freeLists[k] \in Seq(Int) /\ IsInjective(freeLists[k]) /\ a \in Int
  BY SlotFactor DEF TypeOK, ListsOK
<1>2. /\ Range(<<a>> \o freeLists[k]) = {a} \cup Range(freeLists[k])
      /\ IsInjective(<<a>> \o freeLists[k])
  BY <1>1, PushRange
<1>3. freeLists'[k] = <<a>> \o freeLists[k] /\ \A j \in Orders : j # k => freeLists'[j] = freeLists[j]
  BY DEF TypeOK, PushNode
<1>4. \A j \in Orders : IsInjective(freeLists'[j])
  BY <1>2, <1>3, Zenon DEF ListsOK
<1>5. ASSUME k < MaxOrder, NEW c \in Range(freeLists[k]) PROVE BuddyOf(c, k) # a
  <2>1. c \in Slots(k)
    <3>1. [holder |-> "list", ptr |-> c, order |-> k] \in Pieces
      BY <1>5 DEF Pieces, ListPieces
    <3> QED
      BY <3>1 DEF AlignedPieces
  <2>2. BuddyOf(BuddyOf(c, k), k) = c
    BY <1>5, <2>1, BuddyPair
  <2> QED
    BY <1>5, <2>2
<1>6. k < MaxOrder => BuddyOf(a, k) # a
  <2>1. BlockSize[k] \in Nat /\ BlockSize[k] > 0
    BY SizeType
  <2>2. k < MaxOrder => BuddyOf(a, k) = a + BlockSize[k] \/ BuddyOf(a, k) = a - BlockSize[k]
    BY BuddyPair
  <2> QED
    BY <1>1, <2>1, <2>2
<1>7. Coalesced'
  <2>1. SUFFICES ASSUME NEW j \in Orders, j < MaxOrder, NEW c \in Range(freeLists'[j])
                 PROVE  BuddyOf(c, j) \notin Range(freeLists'[j])
    BY DEF Coalesced
  <2>2. CASE j # k
    BY <1>3, <2>1, <2>2 DEF ListsOK, Coalesced
  <2>3. CASE j = k /\ c = a
    BY <1>2, <1>3, <1>6, <2>1, <2>3, Zenon
  <2>4. CASE j = k /\ c # a
    <3>1. c \in Range(freeLists[k])
      BY <1>2, <1>3, <2>1, <2>4, Zenon
    <3> QED
      BY <1>2, <1>3, <1>5, <2>1, <2>4, <3>1, Zenon DEF ListsOK, Coalesced
  <2> QED
    BY <2>2, <2>3, <2>4
<1> QED
  BY <1>4, <1>7 DEF ListsOK

(* A free block that a thread takes or gives back cannot be on a list       *)
(* already: the two pieces would share their bytes.                         *)
LEMMA FlyingNotListed ==
  ASSUME TypeOK, CallInv, Tiles(Pieces), NEW t \in Threads, Flying(t)
  PROVE  ptr[t] \notin Range(freeLists[level[t]])
<1> DEFINE x == [holder |-> t, ptr |-> ptr[t], order |-> level[t]]
           y == [holder |-> "list", ptr |-> ptr[t], order |-> level[t]]
<1>1. SUFFICES ASSUME ptr[t] \in Range(freeLists[level[t]]) PROVE FALSE
  OBVIOUS
<1>2. level[t] \in Orders
  BY DEF CallInv
<1>3. x \in Pieces /\ y \in Pieces
  BY <1>1, <1>2, ListPieceIn, ThreadPieceIn DEF Pieces
<1>4. x # y /\ BytesOf(x) = BytesOf(y)
  BY Holders DEF BytesOf
<1>5. BytesOf(x) # {}
  BY <1>3, PieceType
<1> QED
  BY <1>3, <1>4, <1>5 DEF Tiles, Apart

(* Every step keeps the blocks in order. *)
LEMMA BlocksStep ==
  ASSUME BaseAligned, IInv, [Next]_vars
  PROVE  AlignedPieces' /\ Tiles(Pieces') /\ ListsOK'
<1>0. TypeOK /\ CallInv /\ AlignedPieces /\ Tiles(Pieces) /\ ListsOK
  BY BlocksInv DEF IInv
<1> USE <1>0
<1>1. ASSUME Pieces' = Pieces, freeLists' = freeLists
      PROVE  AlignedPieces' /\ Tiles(Pieces') /\ ListsOK'
  BY <1>1 DEF AlignedPieces, ListsOK, Coalesced
<1>2. ASSUME NEW t \in Threads, NEW size \in Sizes, AllocateCall(t, size)
      PROVE  Pieces' = Pieces /\ freeLists' = freeLists
  <2>1. \A u \in Threads : u # t => pc'[u] = pc[u] /\ ptr'[u] = ptr[u] /\ level'[u] = level[u]
    BY <1>2 DEF AllocateCall, TypeOK
  <2>2. ~ Flying(t) /\ ~ Flying(t)'
    BY <1>2 DEF AllocateCall, TypeOK, Flying
  <2> QED
    BY <1>2, <2>1, <2>2, ThreadPiecesStep, SMTT(30) DEF AllocateCall, Pieces, ListPieces, CallerPieces
<1>3. ASSUME NEW t \in Threads, AllocateLock(t)
      PROVE  Pieces' = Pieces /\ freeLists' = freeLists
  <2>1. \A u \in Threads : u # t => pc'[u] = pc[u] /\ ptr'[u] = ptr[u] /\ level'[u] = level[u]
    BY <1>3 DEF AllocateLock, TypeOK
  <2>2. ~ Flying(t) /\ ~ Flying(t)'
    BY <1>3 DEF AllocateLock, TypeOK, Flying
  <2> QED
    BY <1>3, <2>1, <2>2, ThreadPiecesStep DEF AllocateLock, Pieces, ListPieces, CallerPieces
<1>4. ASSUME NEW t \in Threads, AllocateNull(t)
      PROVE  Pieces' = Pieces /\ freeLists' = freeLists
  <2>1. \A u \in Threads : u # t => pc'[u] = pc[u] /\ ptr'[u] = ptr[u] /\ level'[u] = level[u]
    BY <1>4 DEF AllocateNull, Return, TypeOK
  <2>2. ~ Flying(t) /\ ~ Flying(t)'
    BY <1>4 DEF AllocateNull, Return, TypeOK, Flying
  <2> QED
    BY <1>4, <2>1, <2>2, ThreadPiecesStep DEF AllocateNull, Pieces, ListPieces, CallerPieces
<1>5. ASSUME NEW t \in Threads, AllocateDeeper(t)
      PROVE  Pieces' = Pieces /\ freeLists' = freeLists
  <2>1. \A u \in Threads : u # t => pc'[u] = pc[u] /\ ptr'[u] = ptr[u] /\ level'[u] = level[u]
    BY <1>5 DEF AllocateDeeper, TypeOK
  <2>2. ~ Flying(t) /\ ~ Flying(t)'
    BY <1>5 DEF AllocateDeeper, TypeOK, Flying
  <2> QED
    BY <1>5, <2>1, <2>2, ThreadPiecesStep DEF AllocateDeeper, Pieces, ListPieces, CallerPieces
<1>6. ASSUME NEW t \in Threads, FreeLock(t)
      PROVE  Pieces' = Pieces /\ freeLists' = freeLists
  <2>1. \A u \in Threads : u # t => pc'[u] = pc[u] /\ ptr'[u] = ptr[u] /\ level'[u] = level[u]
    BY <1>6 DEF FreeLock, TypeOK
  <2>2. Flying(t) /\ Flying(t)' /\ ptr'[t] = ptr[t] /\ level'[t] = level[t]
    BY <1>6 DEF FreeLock, TypeOK, Flying
  <2> QED
    BY <1>6, <2>1, <2>2, ThreadPiecesStep DEF FreeLock, Pieces, ListPieces, CallerPieces
<1>7. ASSUME NEW t \in Threads, AllocatePop(t)
      PROVE  AlignedPieces' /\ Tiles(Pieces') /\ ListsOK'
  <2> DEFINE k == level[t]
             a == Head(freeLists[k])
             x == [holder |-> "list", ptr |-> a, order |-> k]
             y == [holder |-> t, ptr |-> a, order |-> k]
  <2>1. k \in Orders
    BY <1>7, MaxOrderAssumption DEF AllocatePop, TypeOK, Orders
  <2>2. freeLists[k] \in Seq(Int) /\ freeLists[k] # <<>> /\ IsInjective(freeLists[k])
    BY <1>7, <2>1 DEF AllocatePop, TypeOK, ListsOK
  <2>3. /\ a \in Range(freeLists[k]) /\ Range(Tail(freeLists[k])) = Range(freeLists[k]) \ {a}
        /\ IsInjective(Tail(freeLists[k]))
    BY <2>2, PopRange
  <2>4. freeLists' = [freeLists EXCEPT ![k] = Tail(freeLists[k])]
    BY <1>7, <2>1 DEF AllocatePop, PopNode, TypeOK
  <2>5. ListPieces' = ListPieces \ {x}
    BY <2>1, <2>3, <2>4, ListPiecesLose, Zenon DEF TypeOK
  <2>6. \A u \in Threads : u # t => pc'[u] = pc[u] /\ ptr'[u] = ptr[u] /\ level'[u] = level[u]
    BY <1>7 DEF AllocatePop, TypeOK
  <2>7. ~ Flying(t) /\ Flying(t)' /\ ptr'[t] = a /\ level'[t] = k
    BY <1>7 DEF AllocatePop, TypeOK, Flying
  <2>8. ThreadPieces' = ThreadPieces \cup {y}
    BY <2>6, <2>7, ThreadPiecesStep
  <2>9. CallerPieces' = CallerPieces
    BY <1>7 DEF AllocatePop, CallerPieces
  <2>10. x \in ListPieces
    BY <2>1, <2>3, ListPieceIn
  <2>11. Pieces' = (Pieces \ {x}) \cup {y}
    BY <2>5, <2>8, <2>9, Holders DEF Pieces
  <2>12. AlignedPieces' /\ Tiles(Pieces')
    <3>1. x \in Pieces /\ y.ptr = x.ptr /\ y.order = x.order
      BY <2>10 DEF Pieces
    <3> HIDE DEF x, y
    <3> QED
      BY <2>11, <3>1, MoveStep
  <2>13. ListsOK'
    BY <2>1, <2>3, <2>4, LoseStep, Zenon
  <2> QED
    BY <2>12, <2>13
<1>8. ASSUME NEW t \in Threads, AllocateReturn(t)
      PROVE  AlignedPieces' /\ Tiles(Pieces') /\ ListsOK'
  <2> DEFINE x == [holder |-> t, ptr |-> ptr[t], order |-> level[t]]
             y == [holder |-> "caller", ptr |-> ptr[t], order |-> level[t]]
  <2>1. \A u \in Threads : u # t => pc'[u] = pc[u] /\ ptr'[u] = ptr[u] /\ level'[u] = level[u]
    BY <1>8 DEF AllocateReturn, Return, TypeOK
  <2>2. Flying(t) /\ ~ Flying(t)'
    BY <1>8 DEF AllocateReturn, Return, TypeOK, Flying
  <2>3. ThreadPieces' = ThreadPieces \ {x} /\ x \in ThreadPieces
    BY <2>1, <2>2, ThreadPiecesStep
  <2>4. CallerPieces' = CallerPieces \cup {y}
    <3>1. live' = live \cup {[ptr |-> ptr[t], order |-> level[t]]}
      BY <1>8 DEF AllocateReturn
    <3>2. \A w : w \in CallerPieces <=>
             \E b \in live : w = [holder |-> "caller", ptr |-> b.ptr, order |-> b.order]
      BY DEF CallerPieces
    <3>3. \A w : w \in CallerPieces' <=>
             \E b \in live' : w = [holder |-> "caller", ptr |-> b.ptr, order |-> b.order]
      BY DEF CallerPieces
    <3> DEFINE e == [ptr |-> ptr[t], order |-> level[t]]
    <3>4. e \in live' /\ y = [holder |-> "caller", ptr |-> e.ptr, order |-> e.order]
      BY <3>1
    <3>5. y \in CallerPieces'
      BY <3>3, <3>4
    <3>6. ASSUME NEW w \in CallerPieces PROVE w \in CallerPieces'
      BY <3>1, <3>2, <3>3
    <3>7. ASSUME NEW w \in CallerPieces', w # y PROVE w \in CallerPieces
      <4>1. PICK b \in live' : w = [holder |-> "caller", ptr |-> b.ptr, order |-> b.order]
        BY <3>3
      <4>2. b # e
        BY <3>4, <3>7, <4>1
      <4> QED
        BY <3>1, <3>2, <4>1, <4>2
    <3> QED
      BY <3>5, <3>6, <3>7
  <2>5. ListPieces' = ListPieces
    BY <1>8 DEF AllocateReturn, ListPieces
  <2>6. Pieces' = (Pieces \ {x}) \cup {y} /\ x \in Pieces
    BY <2>3, <2>4, <2>5, Holders DEF Pieces
  <2>7. AlignedPieces' /\ Tiles(Pieces')
    BY <2>6, MoveStep, Zenon
  <2>8. ListsOK'
    BY <1>8 DEF AllocateReturn, ListsOK, Coalesced
  <2> QED
    BY <2>7, <2>8
<1>9. ASSUME NEW t \in Threads, NEW b \in live, FreeCall(t, b)
      PROVE  AlignedPieces' /\ Tiles(Pieces') /\ ListsOK'
  <2> DEFINE x == [holder |-> "caller", ptr |-> b.ptr, order |-> b.order]
             y == [holder |-> t, ptr |-> b.ptr, order |-> b.order]
  <2>1. \A u \in Threads : u # t => pc'[u] = pc[u] /\ ptr'[u] = ptr[u] /\ level'[u] = level[u]
    BY <1>9 DEF FreeCall, TypeOK
  <2>2. ~ Flying(t) /\ Flying(t)' /\ ptr'[t] = b.ptr /\ level'[t] = b.order
    BY <1>9 DEF FreeCall, TypeOK, Flying
  <2>3. ThreadPieces' = ThreadPieces \cup {y}
    BY <2>1, <2>2, ThreadPiecesStep
  <2>4. CallerPieces' = CallerPieces \ {x} /\ x \in CallerPieces
    <3>1. \A c \in live : c = [ptr |-> c.ptr, order |-> c.order]
      BY DEF TypeOK
    <3> QED
      BY <1>9, <3>1 DEF FreeCall, CallerPieces
  <2>5. ListPieces' = ListPieces
    BY <1>9 DEF FreeCall, ListPieces
  <2>6. Pieces' = (Pieces \ {x}) \cup {y} /\ x \in Pieces
    BY <2>3, <2>4, <2>5, Holders DEF Pieces
  <2>7. AlignedPieces' /\ Tiles(Pieces')
    BY <2>6, MoveStep, Zenon
  <2>8. ListsOK'
    BY <1>9 DEF FreeCall, ListsOK, Coalesced
  <2> QED
    BY <2>7, <2>8
<1>10. ASSUME NEW t \in Threads, AllocateSplit(t)
       PROVE  AlignedPieces' /\ Tiles(Pieces') /\ ListsOK'
  <2> DEFINE k == level[t] - 1
             a == ptr[t]
             b == a + BlockSize[k]
             x == [holder |-> t, ptr |-> a, order |-> k + 1]
             y == [holder |-> t, ptr |-> a, order |-> k]
             z == [holder |-> "list", ptr |-> b, order |-> k]
  <2>1. Flying(t) /\ level[t] \in Orders /\ order[t] \in Orders /\ order[t] < level[t] /\ a \in Int
    BY <1>10 DEF AllocateSplit, TypeOK, CallInv, Flying
  <2>2. k \in Orders /\ k < MaxOrder /\ k + 1 = level[t] /\ order[t] <= k /\ k < level[t]
    BY <2>1, MaxOrderAssumption DEF Orders
  <2>3. BlockSize[k] \in Nat \ {0} /\ BlockSize[k + 1] = 2 * BlockSize[k] /\ b \in Int
    BY <2>1, <2>2, SizeType
  <2>4. freeLists[k] = <<>>
    BY <1>10, <2>2 DEF AllocateSplit, CallInv
  <2>5. freeLists' = PushNode(k, b)
    BY <1>10 DEF AllocateSplit
  <2>6. freeLists' = [freeLists EXCEPT ![k] = <<b>> \o freeLists[k]]
    BY <2>2, <2>5 DEF PushNode, TypeOK
  <2>7. Range(<<b>> \o freeLists[k]) = {b} \cup Range(freeLists[k])
    <3>1. freeLists[k] \in Seq(Int)
      BY <2>2 DEF TypeOK
    <3> HIDE DEF b, k
    <3> QED
      BY <2>3, <3>1, PushRange
  <2>8. ListPieces' = ListPieces \cup {z}
    <3> HIDE DEF b, k
    <3> QED
      BY <2>2, <2>6, <2>7, ListPiecesGain, Zenon DEF TypeOK
  <2>9. \A u \in Threads : u # t => pc'[u] = pc[u] /\ ptr'[u] = ptr[u] /\ level'[u] = level[u]
    BY <1>10 DEF AllocateSplit, TypeOK
  <2>10. Flying(t)' /\ ptr'[t] = a /\ level'[t] = k
    BY <1>10 DEF AllocateSplit, TypeOK, Flying
  <2>11. x \in ThreadPieces /\ ThreadPieces' = (ThreadPieces \ {x}) \cup {y}
    BY <2>1, <2>2, <2>9, <2>10, ThreadPiecesStep, SMTT(30)
  <2>12. CallerPieces' = CallerPieces
    BY <1>10 DEF AllocateSplit, CallerPieces
  <2>13. x \in Pieces /\ Pieces' = (Pieces \ {x}) \cup {y, z}
    BY <2>8, <2>11, <2>12, Holders, SMTT(30) DEF Pieces
  <2>14. BytesOf(x) = BytesOf(y) \cup BytesOf(z) /\ BytesOf(y) \cap BytesOf(z) = {}
    BY <2>1, <2>2, Halves, SMTT(30)
  <2>15. Tiles(Pieces')
    <3> HIDE DEF x, y, z
    <3> QED
      BY <2>13, <2>14, SplitTiles
  <2>16. a \in Slots(k) /\ b \in Slots(k)
    <3>1. a \in Slots(k + 1)
      BY <2>13 DEF AlignedPieces
    <3>2. a \in Arena /\ a - Base \in Nat /\ (a - Base) % (2 * BlockSize[k]) = 0
      <4>1. k + 1 \in Orders
        BY <2>1, <2>2
      <4>2. a - Base \in Nat
        BY <3>1, <4>1, SlotFactor
      <4>3. a \in Arena /\ (a - Base) % BlockSize[k + 1] = 0
        BY <3>1 DEF Slots
      <4> QED
        BY <2>3, <4>2, <4>3
    <3>3. /\ (a - Base) % BlockSize[k] = 0
          /\ ((a - Base) + BlockSize[k]) % BlockSize[k] = 0
      BY <2>3, <3>2, HalfRemainder, Zenon
    <3>4. b - Base = (a - Base) + BlockSize[k]
      BY <2>1, <2>3, BaseAssumption
    <3>5. b \in Arena
      <4>1. b \in BytesOf(z)
        BY <2>3 DEF BytesOf
      <4>2. BytesOf(x) \subseteq Arena
        BY <2>13 DEF Tiles
      <4> QED
        BY <2>14, <4>1, <4>2
    <3> QED
      BY <3>2, <3>3, <3>4, <3>5 DEF Slots
  <2>17. AlignedPieces'
    BY <2>13, <2>16, SMTT(30) DEF AlignedPieces
  <2>18. ListsOK'
    <3>1. Range(freeLists[k]) = {}
      BY <2>4 DEF Range
    <3> HIDE DEF b, k
    <3> QED
      BY <2>2, <2>5, <2>16, <3>1, GainStep
  <2> QED
    BY <2>15, <2>17, <2>18
<1>11. ASSUME NEW t \in Threads, FreePush(t)
       PROVE  AlignedPieces' /\ Tiles(Pieces') /\ ListsOK'
  <2> DEFINE k == level[t]
             a == ptr[t]
             x == [holder |-> t, ptr |-> a, order |-> k]
             y == [holder |-> "list", ptr |-> a, order |-> k]
  <2>1. Flying(t) /\ k \in Orders /\ a \in Int
    BY <1>11 DEF FreePush, TypeOK, CallInv, Flying
  <2>2. freeLists' = PushNode(k, a)
    BY <1>11 DEF FreePush
  <2>3. freeLists' = [freeLists EXCEPT ![k] = <<a>> \o freeLists[k]]
    BY <2>1, <2>2 DEF PushNode, TypeOK
  <2>4. Range(<<a>> \o freeLists[k]) = {a} \cup Range(freeLists[k])
    BY <2>1, PushRange DEF TypeOK
  <2>5. ListPieces' = ListPieces \cup {y}
    <3> HIDE DEF a, k
    <3> QED
      BY <2>1, <2>3, <2>4, ListPiecesGain, Zenon DEF TypeOK
  <2>6. \A u \in Threads : u # t => pc'[u] = pc[u] /\ ptr'[u] = ptr[u] /\ level'[u] = level[u]
    BY <1>11 DEF FreePush, Return, TypeOK
  <2>7. ~ Flying(t)'
    BY <1>11 DEF FreePush, Return, TypeOK, Flying
  <2>8. x \in ThreadPieces /\ ThreadPieces' = ThreadPieces \ {x}
    BY <2>1, <2>6, <2>7, ThreadPiecesStep, SMTT(30)
  <2>9. CallerPieces' = CallerPieces
    BY <1>11 DEF FreePush, CallerPieces
  <2>10. x \in Pieces /\ Pieces' = (Pieces \ {x}) \cup {y}
    BY <2>5, <2>8, <2>9, Holders DEF Pieces
  <2>11. AlignedPieces' /\ Tiles(Pieces')
    BY <2>10, MoveStep, Zenon
  <2>12. ListsOK'
    <3>1. a \in Slots(k)
      BY <2>10 DEF AlignedPieces
    <3>2. a \notin Range(freeLists[k])
      BY <2>1, FlyingNotListed
    <3>3. k < MaxOrder => BuddyOf(a, k) \notin Range(freeLists[k])
      BY <1>11, <2>1, SizeType DEF FreePush
    <3> HIDE DEF a, k
    <3> QED
      BY <2>1, <2>2, <3>1, <3>2, <3>3, GainStep
  <2> QED
    BY <2>11, <2>12
<1>12. ASSUME NEW t \in Threads, FreeMerge(t)
       PROVE  AlignedPieces' /\ Tiles(Pieces') /\ ListsOK'
  <2> DEFINE k == level[t]
             a == ptr[t]
             s == BlockSize[k]
             b == BuddyOf(a, k)
             m == Merged(a, k)
             x == [holder |-> t, ptr |-> a, order |-> k]
             y == [holder |-> "list", ptr |-> b, order |-> k]
             z == [holder |-> t, ptr |-> m, order |-> k + 1]
  <2>1. Flying(t) /\ k \in Orders /\ k < MaxOrder /\ a \in Int
    BY <1>12 DEF FreeMerge, TypeOK, CallInv, Flying
  <2>2. PICK i \in 1 .. Len(freeLists[k]) : freeLists[k][i] = b /\ freeLists' = RemoveNode(k, i)
    BY <1>12 DEF FreeMerge
  <2> DEFINE l == SubSeq(freeLists[k], 1, i - 1) \o SubSeq(freeLists[k], i + 1, Len(freeLists[k]))
  <2>3. freeLists[k] \in Seq(Int) /\ IsInjective(freeLists[k])
    BY <2>1 DEF TypeOK, ListsOK
  <2>4. b \in Range(freeLists[k]) /\ Range(l) = Range(freeLists[k]) \ {b} /\ IsInjective(l)
    <3> DEFINE q == freeLists[k]
    <3>1. q \in Seq(Int) /\ IsInjective(q) /\ i \in 1 .. Len(q) /\ q[i] = b
      BY <2>2, <2>3
    <3> HIDE DEF q, b
    <3>2. /\ b \in Range(q) /\ Range(SubSeq(q, 1, i - 1) \o SubSeq(q, i + 1, Len(q))) = Range(q) \ {b}
          /\ IsInjective(SubSeq(q, 1, i - 1) \o SubSeq(q, i + 1, Len(q)))
      BY <3>1, RemoveRange
    <3> QED
      BY <3>2 DEF q
  <2>5. freeLists' = [freeLists EXCEPT ![k] = l]
    BY <2>1, <2>2 DEF RemoveNode, TypeOK
  <2>6. ListPieces' = ListPieces \ {y} /\ y \in ListPieces
    <3> HIDE DEF l, k, b
    <3> QED
      BY <2>1, <2>4, <2>5, ListPiecesLose, ListPieceIn, Zenon DEF TypeOK
  <2>7. \A u \in Threads : u # t => pc'[u] = pc[u] /\ ptr'[u] = ptr[u] /\ level'[u] = level[u]
    BY <1>12 DEF FreeMerge, TypeOK
  <2>8. Flying(t)' /\ ptr'[t] = m /\ level'[t] = k + 1
    BY <1>12 DEF FreeMerge, TypeOK, Flying
  <2>9. x \in ThreadPieces /\ ThreadPieces' = (ThreadPieces \ {x}) \cup {z}
    <3> HIDE DEF m
    <3> QED
      BY <2>1, <2>7, <2>8, ThreadPiecesStep, SMTT(30)
  <2>10. CallerPieces' = CallerPieces
    BY <1>12 DEF FreeMerge, CallerPieces
  <2>11. x \in Pieces /\ y \in Pieces /\ Pieces' = (Pieces \ {x, y}) \cup {z}
    <3>1. x.holder = t /\ y.holder = "list" /\ z.holder = t
      BY SMTT(30)
    <3> HIDE DEF x, y, z
    <3> QED
      BY <2>6, <2>9, <2>10, <3>1, Holders DEF Pieces
  <2>12. a \in Slots(k)
    <3>1. x.ptr = a /\ x.order = k
      OBVIOUS
    <3> HIDE DEF x, a, k
    <3> QED
      BY <2>11, <3>1, Zenon DEF AlignedPieces
  <2>13. /\ b \in Int /\ m \in Int
         /\ (m = a /\ b = a + s) \/ (m = b /\ b = a - s)
         /\ m - Base \in Nat /\ (m - Base) % (2 * s) = 0
    BY <2>1, <2>12, BuddyPair, SMTT(30)
  <2>14. BytesOf(z) = BytesOf(x) \cup BytesOf(y)
    <3>1. /\ x.ptr = a /\ x.order = k /\ y.ptr = b /\ y.order = k
          /\ z.ptr = m /\ z.order = k + 1 /\ s = BlockSize[k]
      OBVIOUS
    <3>2. s \in Int
      BY <2>1, SizeType
    <3> HIDE DEF m, b, a, k, s, x, y, z
    <3>3. CASE m = a /\ b = a + s
      BY <2>1, <3>1, <3>3, Halves
    <3>4. CASE m = b /\ b = a - s
      <4>1. a = b + s
        BY <2>1, <2>13, <3>2, <3>4
      <4> QED
        BY <2>1, <2>13, <3>1, <3>4, <4>1, Halves
    <3> QED
      BY <2>13, <3>3, <3>4
  <2>15. Tiles(Pieces')
    <3> HIDE DEF x, y, z
    <3> QED
      BY <2>11, <2>14, MergeTiles
  <2>16. m \in Slots(k + 1)
    <3>1. m \in Arena
      <4>1. m \in BytesOf(x) \cup BytesOf(y)
        <5>1. BlockSize[k + 1] \in Nat /\ BlockSize[k + 1] > 0
          BY <2>1, SizeType
        <5>2. z.ptr = m /\ z.order = k + 1
          OBVIOUS
        <5>3. m \in BytesOf(z)
          <6> HIDE DEF m, z, k
          <6> QED
            BY <2>13, <5>1, <5>2 DEF BytesOf
        <5> QED
          BY <2>14, <5>3
      <4>2. BytesOf(x) \subseteq Arena /\ BytesOf(y) \subseteq Arena
        BY <2>11 DEF Tiles
      <4> QED
        BY <4>1, <4>2
    <3>2. BlockSize[k + 1] = 2 * s
      BY <2>1, SizeType
    <3> QED
      BY <2>13, <3>1, <3>2 DEF Slots
  <2>17. AlignedPieces'
    BY <2>11, <2>16, SMTT(30) DEF AlignedPieces
  <2>18. ListsOK'
    <3> HIDE DEF l, k, b
    <3> QED
      BY <2>1, <2>4, <2>5, LoseStep, Zenon
  <2> QED
    BY <2>15, <2>17, <2>18
<1>13. ASSUME UNCHANGED vars PROVE Pieces' = Pieces /\ freeLists' = freeLists
  BY <1>13 DEF vars, Pieces, ListPieces, CallerPieces, ThreadPieces, Flying
<1>14. CASE UNCHANGED vars
  BY <1>1, <1>13, <1>14
<1>15. CASE Next
  <2>1. PICK t \in Threads :
           \/ \E size \in Sizes : AllocateCall(t, size)
           \/ AllocateLock(t)
           \/ \E b \in live : FreeCall(t, b)
           \/ FreeLock(t)
           \/ Inside(t)
    BY <1>15 DEF Next
  <2>2. CASE \/ \E size \in Sizes : AllocateCall(t, size)
             \/ AllocateLock(t) \/ AllocateNull(t) \/ AllocateDeeper(t) \/ FreeLock(t)
    BY <2>2, <1>1, <1>2, <1>3, <1>4, <1>5, <1>6
  <2>3. CASE AllocatePop(t) \/ AllocateReturn(t) \/ (\E b \in live : FreeCall(t, b))
    BY <2>3, <1>7, <1>8, <1>9
  <2>4. CASE AllocateSplit(t) \/ FreePush(t) \/ FreeMerge(t)
    BY <2>4, <1>10, <1>11, <1>12
  <2> QED
    BY <2>1, <2>2, <2>3, <2>4 DEF Inside
<1> QED
  BY <1>14, <1>15

-----------------------------------------------------------------------------
(* The theorems. *)

(* The constructor's one block of the largest order is a valid heap. *)
LEMMA InitOK ==
  ASSUME Init
  PROVE  IInv
<1> DEFINE x == [holder |-> "list", ptr |-> Base, order |-> MaxOrder]
<1>1. MaxOrder \in Orders /\ 0 \in Orders /\ 0 \in 0 .. MaxOrder + 1 /\ Base \in Int
  BY SizeType, MaxOrderAssumption, BaseAssumption
<1>2. TypeOK
  <2>1. <<Base>> \in Seq(Int) /\ <<>> \in Seq(Int)
    BY <1>1
  <2>2. freeLists \in [Orders -> Seq(Int)]
    BY <2>1 DEF Init
  <2> QED
    BY <1>1, <2>2 DEF Init, TypeOK
<1>3. CallInv
  BY Holders DEF Init, CallInv, Flying
<1>4. \A k \in Orders : Range(freeLists[k]) = IF k = MaxOrder THEN {Base} ELSE {}
  BY DEF Init, Range
<1>5. \A k \in Orders : IsInjective(freeLists[k])
  BY DEF Init, IsInjective
<1>6. Pieces = {x}
  <2>1. CallerPieces = {} /\ ThreadPieces = {}
    BY DEF Init, CallerPieces, ThreadPieces, Flying
  <2>2. \A y : y \in ListPieces <=>
          \E k \in Orders : \E a \in Range(freeLists[k]) : y = [holder |-> "list", ptr |-> a, order |-> k]
    BY DEF ListPieces
  <2>3. ListPieces = {x}
    BY <1>1, <1>4, <2>2
  <2> QED
    BY <2>1, <2>3 DEF Pieces
<1>7. AlignedPieces
  <2>1. Base \in Slots(MaxOrder)
    BY <1>1, SizeType DEF Slots, Arena
  <2> QED
    BY <1>6, <2>1 DEF AlignedPieces
<1>8. Tiles(Pieces)
  BY <1>6 DEF Tiles, Apart, BytesOf, Arena
<1>9. Coalesced
  <2>1. \A k \in Orders : k < MaxOrder => k # MaxOrder
    BY SizeType
  <2> QED
    BY <1>4, <2>1 DEF Coalesced
<1> QED
  BY <1>2, <1>3, <1>5, <1>7, <1>8, <1>9, BlocksInv DEF IInv, ListsOK

(* One step of the allocator keeps its inductive invariant. *)
LEMMA StepOK ==
  ASSUME BaseAligned, IInv, [Next]_vars
  PROVE  IInv'
  BY ControlStep, BlocksStep, BlocksInv DEF IInv

(* Over an aligned base every behaviour of the allocator keeps the          *)
(* inductive invariant of Allocate and Free, for any number of threads,     *)
(* orders and request sizes.                                                *)
THEOREM Correct ==
  ASSUME BaseAligned
  PROVE  Spec => []IInv
<1>1. Init => IInv
  BY InitOK
<1>2. IInv /\ [Next]_vars => IInv'
  BY StepOK
<1> QED
  BY <1>1, <1>2, PTL DEF Spec

(* The variables of BuddyAllocator keep their types. *)
THEOREM TypeCorrect ==
  ASSUME BaseAligned
  PROVE  Spec => []TypeOK
<1>1. IInv => TypeOK
  BY DEF IInv
<1> QED
  BY <1>1, Correct, PTL

(* Allocate never hands out a byte twice. *)
THEOREM BlocksDisjoint ==
  ASSUME BaseAligned
  PROVE  Spec => []NoOverlap
<1>1. IInv => NoOverlap
  BY DEF IInv
<1> QED
  BY <1>1, Correct, PTL

(* Allocate and Free never lose a byte. *)
THEOREM NothingLost ==
  ASSUME BaseAligned
  PROVE  Spec => []NoLeak
<1>1. IInv => NoLeak
  BY DEF IInv
<1> QED
  BY <1>1, Correct, PTL

(* FreeInternal never leaves two free buddies unmerged. *)
THEOREM FullyCoalesced ==
  ASSUME BaseAligned
  PROVE  Spec => []Coalesced
<1>1. IInv => Coalesced
  BY DEF IInv
<1> QED
  BY <1>1, Correct, PTL

(* FreeInternal's merge does what its comment says, "find the lower address *)
(* of the pair", when the base is a multiple of the arena's size.           *)
THEOREM MergeCorrect ==
  ASSUME BaseAligned
  PROVE  Spec => MergesToLowerAddress
<1> DEFINE Lower(t) == IF BuddyOf(ptr[t], level[t]) < ptr[t] THEN BuddyOf(ptr[t], level[t]) ELSE ptr[t]
<1>1. ASSUME IInv, NEW t \in Threads, FreeMerge(t) PROVE ptr'[t] = Lower(t)
  <2>1. TypeOK /\ CallInv /\ AlignedPieces
    BY <1>1 DEF IInv
  <2>2. Flying(t) /\ level[t] \in Orders /\ level[t] < MaxOrder /\ ptr[t] \in Int
    BY <1>1, <2>1 DEF FreeMerge, TypeOK, CallInv, Flying
  <2>3. ptr[t] \in Slots(level[t])
    <3>1. [holder |-> t, ptr |-> ptr[t], order |-> level[t]] \in Pieces
      BY <2>2, ThreadPieceIn DEF Pieces
    <3>2. \A x \in Pieces : x.ptr \in Slots(x.order)
      BY <2>1 DEF AlignedPieces
    <3> QED
      BY <3>1, <3>2, SMTT(30)
  <2>4. BlockSize[level[t]] \in Nat /\ BlockSize[level[t]] > 0
    BY <2>2, SizeType
  <2>5. ptr'[t] = Merged(ptr[t], level[t])
    BY <1>1, <2>1 DEF FreeMerge, TypeOK
  <2> QED
    BY <2>2, <2>3, <2>4, <2>5, BuddyPair, SMTT(30)
<1>2. IInv /\ [Next]_vars => [\A t \in Threads : FreeMerge(t) => ptr'[t] = Lower(t)]_vars
  BY <1>1
<1> QED
  BY <1>2, Correct, PTL DEF MergesToLowerAddress, Spec

-----------------------------------------------------------------------------
(* The allocator implements the heap. *)

(* The blocks in callers' hands lie in the arena and apart from each other  *)
(* and from the block a thread is about to return.                          *)
LEMMA CallersApart ==
  ASSUME IInv
  PROVE  /\ \A b \in live : /\ b.ptr \in Int /\ b.order \in Orders /\ b = [ptr |-> b.ptr, order |-> b.order]
                            /\ BytesOf(b) \subseteq Arena
         /\ \A b, c \in live : b # c => BytesOf(b) \cap BytesOf(c) = {}
         /\ \A t \in Threads : Flying(t) =>
              LET e == [ptr |-> ptr[t], order |-> level[t]]
              IN  /\ BytesOf(e) \subseteq Arena
                  /\ \A b \in live : BytesOf(e) \cap BytesOf(b) = {}
<1>1. TypeOK /\ CallInv /\ Tiles(Pieces)
  BY BlocksInv DEF IInv
<1> DEFINE P(b) == [holder |-> "caller", ptr |-> b.ptr, order |-> b.order]
           Q(t) == [holder |-> t, ptr |-> ptr[t], order |-> level[t]]
<1>2. \A b \in live : b.ptr \in Int /\ b.order \in Orders /\ b = [ptr |-> b.ptr, order |-> b.order]
  BY <1>1 DEF TypeOK
<1>3. \A b \in live : P(b) \in Pieces /\ BytesOf(P(b)) = BytesOf(b)
  BY Zenon DEF Pieces, CallerPieces, BytesOf
<1>4. \A b, c \in live : b # c => P(b) # P(c)
  BY <1>2
<1>5. \A x, y \in Pieces : x # y => BytesOf(x) \cap BytesOf(y) = {}
  BY <1>1 DEF Tiles, Apart
<1>6. \A x \in Pieces : BytesOf(x) \subseteq Arena
  BY <1>1 DEF Tiles
<1>7. ASSUME NEW t \in Threads, Flying(t)
      PROVE  /\ Q(t) \in Pieces /\ BytesOf(Q(t)) = BytesOf([ptr |-> ptr[t], order |-> level[t]])
             /\ \A b \in live : Q(t) # P(b)
  <2>1. Q(t) \in Pieces
    BY <1>7, ThreadPieceIn DEF Pieces
  <2>2. \A b \in live : Q(t) # P(b)
    BY Holders, SMTT(30)
  <2> QED
    BY <2>1, <2>2 DEF BytesOf
<1> HIDE DEF P, Q
<1>8. \A b, c \in live : b # c => BytesOf(b) \cap BytesOf(c) = {}
  BY <1>3, <1>4, <1>5
<1>9. ASSUME NEW t \in Threads, Flying(t)
      PROVE  LET e == [ptr |-> ptr[t], order |-> level[t]]
             IN  /\ BytesOf(e) \subseteq Arena
                 /\ \A b \in live : BytesOf(e) \cap BytesOf(b) = {}
  <2>1. PICK x \in Pieces : /\ BytesOf(x) = BytesOf([ptr |-> ptr[t], order |-> level[t]])
                            /\ \A b \in live : x # P(b)
    BY <1>7, <1>9, Zenon
  <2>2. \A b \in live : BytesOf(x) \cap BytesOf(P(b)) = {}
    BY <1>3, <1>5, <2>1, Zenon
  <2>3. BytesOf(x) \subseteq Arena /\ \A b \in live : BytesOf(x) \cap BytesOf(b) = {}
    BY <1>3, <1>6, <2>2, Zenon
  <2> QED
    BY <2>1, <2>3, Zenon
<1> QED
  BY <1>2, <1>3, <1>6, <1>8, <1>9

(* The heap's view of a block. *)
Seen(b) == [ptr |-> b.ptr, size |-> BlockSize[b.order]]

(* A block inside the arena is a block of the heap, with the same bytes. *)
LEMMA SeenBlock ==
  ASSUME NEW b, b.ptr \in Int, b.order \in Orders, BytesOf(b) \subseteq Arena
  PROVE  Seen(b) \in H!Block /\ H!BytesOf(Seen(b)) = BytesOf(b) /\ BytesOf(b) # {}
<1> DEFINE p == b.ptr
           n == BlockSize[b.order]
           w == BlockSize[MaxOrder]
<1>1. p \in Int /\ n \in Nat /\ n > 0 /\ w \in Nat /\ w > 0 /\ Base \in Nat
  BY SizeType, BaseAssumption
<1>2. p .. p + n - 1 \subseteq Base .. Base + w - 1
  BY DEF BytesOf, Arena
<1>3. H!BytesOf(Seen(b)) = BytesOf(b)
  BY DEF H!BytesOf, BytesOf, Seen
<1> HIDE DEF p, n, w
<1>4. p \in p .. p + n - 1 /\ p + n - 1 \in p .. p + n - 1
  BY <1>1
<1>5. p \in Base .. Base + w - 1 /\ p + n - 1 \in Base .. Base + w - 1
  BY <1>2, <1>4
<1>6. n \in 1 .. w /\ p + n <= Base + w
  BY <1>1, <1>5
<1>7. Seen(b) \in H!Block
  BY <1>5, <1>6 DEF H!Block, Seen, p, n, w
<1>8. BytesOf(b) # {}
  BY <1>4 DEF BytesOf, p, n
<1> QED
  BY <1>3, <1>7, <1>8

(* AllocateReturn obtains a block of the heap, FreeCall releases one, and   *)
(* no other step of the allocator shows.                                    *)
LEMMA HeapStep ==
  ASSUME IInv, [Next]_vars
  PROVE  [H!Next]_({Seen(b) : b \in live})
<1> DEFINE L == {Seen(b) : b \in live}
<1>1. ASSUME live' = live PROVE L' = L
  BY <1>1
<1>2. ASSUME NEW t \in Threads, AllocateReturn(t) PROVE H!Next
  <2>0. PICK e : e = [ptr |-> ptr[t], order |-> level[t]]
    BY Zenon
  <2>1. Flying(t) /\ e.ptr \in Int /\ e.order \in Orders /\ live' = live \cup {e}
    BY <1>2, <2>0 DEF AllocateReturn, Flying, IInv, TypeOK
  <2>2. BytesOf(e) \subseteq Arena /\ \A b \in live : BytesOf(e) \cap BytesOf(b) = {}
    BY <2>0, <2>1, CallersApart
  <2>3. Seen(e) \in H!Block /\ H!BytesOf(Seen(e)) = BytesOf(e)
    BY <2>1, <2>2, SeenBlock
  <2>4. \A b \in live : H!BytesOf(Seen(b)) = BytesOf(b)
    BY CallersApart, SeenBlock
  <2>5. L' = L \cup {Seen(e)}
    BY <2>1 DEF Seen
  <2>6. \A c \in L : H!BytesOf(Seen(e)) \cap H!BytesOf(c) = {}
    BY <2>2, <2>3, <2>4
  <2>7. H!Obtain(Seen(e))
    BY <2>5, <2>6 DEF H!Obtain, Seen
  <2> QED
    BY <2>3, <2>7 DEF H!Next
<1>3. ASSUME NEW t \in Threads, NEW b \in live, FreeCall(t, b) PROVE H!Next
  <2>1. live' = live \ {b}
    BY <1>3 DEF FreeCall
  <2>2. \A c \in live : Seen(c) \in H!Block /\ H!BytesOf(Seen(c)) = BytesOf(c) /\ BytesOf(c) # {}
    BY CallersApart, SeenBlock
  <2>3. \A c \in live : c # b => Seen(c) # Seen(b)
    BY <2>2, CallersApart
  <2>4. L' = L \ {Seen(b)}
    BY <2>1, <2>3 DEF Seen
  <2>5. H!Release(Seen(b))
    BY <2>4 DEF H!Release, Seen
  <2> QED
    BY <2>2, <2>5 DEF H!Next
<1>4. ASSUME NEW t \in Threads,
             \/ \E size \in Sizes : AllocateCall(t, size)
             \/ AllocateLock(t) \/ AllocateNull(t) \/ AllocatePop(t) \/ AllocateDeeper(t)
             \/ AllocateSplit(t) \/ FreeLock(t) \/ FreeMerge(t) \/ FreePush(t)
      PROVE  live' = live
  BY <1>4, Zenon DEF AllocateCall, AllocateLock, AllocateNull, AllocatePop, AllocateDeeper, AllocateSplit,
              FreeLock, FreeMerge, FreePush
<1>5. UNCHANGED vars => live' = live
  BY DEF vars
<1> QED
  BY <1>1, <1>2, <1>3, <1>4, <1>5 DEF Next, Inside

(* Every behaviour of the allocator over an aligned base is a behaviour of  *)
(* the heap: what Allocate returns is a block of the arena disjoint from    *)
(* every block the callers hold at that moment.                             *)
THEOREM Refinement ==
  ASSUME BaseAligned
  PROVE  Spec => HeapSpec
<1>1. Init => H!Init
  BY DEF Init, H!Init
<1>2. IInv /\ [Next]_vars => [H!Next]_({Seen(b) : b \in live})
  BY HeapStep
<1> QED
  BY <1>1, <1>2, Correct, PTL DEF Spec, HeapSpec, H!Spec, Seen
=============================================================================
