------------------------- MODULE BenchHarnessProofs --------------------------
(***************************************************************************)
(* Proofs about the benchmarks that start threads together (BenchHarness), *)
(* for every sweep of thread counts, number of items and operations, cache *)
(* size and set of blocks.                                                 *)
(***************************************************************************)
EXTENDS BenchHarness, ListLemmas, FiniteSetTheorems, TLAPS

Most == Max(Range(Sweep))

(* The largest thread count of the sweep is one of its counts, and no      *)
(* other is larger.                                                        *)
LEMMA MostOK == Most \in Nat \ {0} /\ Sweep \in Seq(1 .. Most)
<1> DEFINE n == Len(Sweep)
<1>1. n \in Nat \ {0} /\ Sweep \in Seq(Nat) /\ Sweep # <<>> /\ \A j \in 1 .. n : Sweep[j] \in Nat \ {0}
  BY SweepAssumption
<1>2. Range(Sweep) = {Sweep[j] : j \in 1 .. n}
  BY SweepAssumption DEF Range
<1>3. PICK j \in 1 .. n : \A m \in 1 .. n : Sweep[m] <= Sweep[j]
  BY <1>1, Greatest, Zenon
<1> HIDE DEF n
<1>4. Sweep[j] \in Range(Sweep) /\ \A y \in Range(Sweep) : Sweep[j] >= y
  BY <1>1, <1>2, <1>3
<1>5. Most \in Range(Sweep) /\ \A y \in Range(Sweep) : Most >= y
  BY <1>4, Zenon DEF Most, Max
<1>6. Most \in Nat \ {0} /\ \A m \in 1 .. n : Sweep[m] \in Nat \ {0} /\ Most >= Sweep[m]
  BY <1>1, <1>2, <1>5
<1>7. \A m \in 1 .. n : Sweep[m] \in 1 .. Most
  BY <1>6
<1>8. Len(Sweep) = n /\ Sweep \in Seq(Nat)
  BY <1>1 DEF n
<1>9. Sweep \in Seq(1 .. Most)
  BY <1>7, <1>8, ElementsIn, Zenon
<1> QED
  BY <1>6, <1>9

(* The sums of the beginnings of a sequence. *)
Partial(f, s) ==
    /\ f \in [0 .. Len(s) -> Nat]
    /\ f[0] = 0
    /\ \A n \in 1 .. Len(s) : f[n] = f[n - 1] + s[n]

(* They exist, and the last of them is the sum. *)
LEMMA SumPartial ==
  ASSUME NEW s \in Seq(Nat)
  PROVE  \E f : Partial(f, s) /\ Sum(s) = f[Len(s)]
<1> DEFINE Upto(f, m) == /\ f \in [0 .. m -> Nat]
                         /\ f[0] = 0
                         /\ \A n \in 1 .. m : f[n] = f[n - 1] + s[n]
           Bad == {m \in 0 .. Len(s) : \A f : ~Upto(f, m)}
           Rec(f) == [n \in 0 .. Len(s) |-> IF n = 0 THEN 0 ELSE f[n - 1] + s[n]]
<1>1. Len(s) \in Nat /\ \A n \in 1 .. Len(s) : s[n] \in Nat
  OBVIOUS
<1>2. Bad \subseteq Nat /\ \A m \in 0 .. Len(s) : m \notin Bad => \E f : Upto(f, m)
  <2> HIDE DEF Upto
  <2> QED
    BY <1>1
<1>3. \A m \in Bad : m \in 0 .. Len(s) /\ \A f : ~Upto(f, m)
  OBVIOUS
<1>4. \A f, m : Upto(f, m) <=> /\ f \in [0 .. m -> Nat]
                               /\ f[0] = 0
                               /\ \A n \in 1 .. m : f[n] = f[n - 1] + s[n]
  OBVIOUS
<1> HIDE DEF Upto, Bad
<1>5. Bad = {}
  <2> SUFFICES ASSUME Bad # {} PROVE FALSE
    OBVIOUS
  <2>1. PICK m : m \in Bad /\ \A y \in Bad : m <= y
    BY <1>2, Least, Zenon
  <2>2. m \in 0 .. Len(s) /\ m \in Nat /\ \A f : ~Upto(f, m)
    BY <1>1, <1>3, <2>1
  <2>3. m # 0
    <3> DEFINE z == [n \in 0 .. 0 |-> 0]
    <3>1. z \in [0 .. 0 -> Nat] /\ z[0] = 0 /\ \A n \in 1 .. 0 : z[n] = z[n - 1] + s[n]
      OBVIOUS
    <3> QED
      BY <1>4, <2>2, <3>1
  <2>4. m - 1 \in 0 .. Len(s) /\ m \in 1 .. Len(s) /\ ~(m <= m - 1)
    BY <1>1, <2>2, <2>3
  <2>5. PICK f : Upto(f, m - 1)
    BY <1>2, <2>1, <2>4, Zenon
  <2>6. /\ f \in [0 .. m - 1 -> Nat] /\ f[0] = 0
        /\ \A n \in 1 .. m - 1 : f[n] = f[n - 1] + s[n]
    BY <1>4, <2>5, Zenon
  <2> DEFINE g == [n \in 0 .. m |-> IF n = m THEN f[m - 1] + s[m] ELSE f[n]]
  <2>7. f[m - 1] \in Nat /\ s[m] \in Nat /\ f[m - 1] + s[m] \in Nat
    BY <1>1, <2>2, <2>3, <2>4, <2>6
  <2>8. \A n \in 0 .. m : n = m \/ n \in 0 .. m - 1
    BY <2>2
  <2>9. g \in [0 .. m -> Nat]
    BY <2>6, <2>7, <2>8
  <2>10. g[m] = f[m - 1] + s[m] /\ \A n \in 0 .. m - 1 : g[n] = f[n]
    BY <2>2, <2>3
  <2> HIDE DEF g
  <2>11. ASSUME NEW n \in 1 .. m PROVE g[n] = g[n - 1] + s[n]
    <3>1. n - 1 \in 0 .. m - 1 /\ (n = m \/ (n \in 1 .. m - 1 /\ n \in 0 .. m - 1))
      BY <2>2
    <3> QED
      BY <2>6, <2>10, <3>1
  <2>12. g[0] = 0
    <3>1. 0 \in 0 .. m - 1
      BY <2>2, <2>3
    <3> QED
      BY <2>6, <2>10, <3>1
  <2> QED
    BY <1>4, <2>2, <2>9, <2>11, <2>12, Zenon
<1>6. PICK f : Upto(f, Len(s))
  <2>1. Len(s) \in 0 .. Len(s)
    BY <1>1
  <2> QED
    BY <1>2, <1>5, <2>1, Zenon
<1>7. Partial(f, s) /\ f = Rec(f)
  <2>1. /\ f \in [0 .. Len(s) -> Nat] /\ f[0] = 0
        /\ \A n \in 1 .. Len(s) : f[n] = f[n - 1] + s[n]
    BY <1>4, <1>6, Zenon
  <2>2. \A n \in 0 .. Len(s) : n # 0 => n \in 1 .. Len(s)
    BY <1>1
  <2> QED
    BY <2>1, <2>2 DEF Partial
<1> DEFINE total == CHOOSE h : h = Rec(h)
<1>8. total = Rec(total)
  BY <1>7, Zenon
<1>9. Sum(s) = total[Len(s)]
  BY Zenon DEF Sum
<1> HIDE DEF total
<1>10. Partial(total, s)
  <2>1. /\ DOMAIN total = 0 .. Len(s) /\ total[0] = 0
        /\ \A n \in 1 .. Len(s) : total[n] = total[n - 1] + s[n]
        /\ total = [n \in 0 .. Len(s) |-> total[n]]
    BY <1>1, <1>8
  <2>2. /\ f \in [0 .. Len(s) -> Nat] /\ f[0] = 0
        /\ \A n \in 1 .. Len(s) : f[n] = f[n - 1] + s[n]
    BY <1>7 DEF Partial
  <2> DEFINE Off == {n \in 0 .. Len(s) : total[n] # f[n]}
  <2>3. Off \subseteq Nat /\ \A n \in 0 .. Len(s) : n \in Off <=> total[n] # f[n]
    BY <1>1
  <2>4. \A n \in Off : n \in 0 .. Len(s)
    OBVIOUS
  <2> HIDE DEF Off
  <2>5. Off = {}
    <3> SUFFICES ASSUME Off # {} PROVE FALSE
      OBVIOUS
    <3>1. PICK n : n \in Off /\ \A y \in Off : n <= y
      BY <2>3, Least, Zenon
    <3>2. n \in 0 .. Len(s) /\ n \in Nat /\ total[n] # f[n]
      BY <1>1, <2>3, <2>4, <3>1
    <3>3. n # 0
      BY <2>1, <2>2, <3>2
    <3>4. n - 1 \in 0 .. Len(s) /\ n \in 1 .. Len(s) /\ ~(n <= n - 1)
      BY <1>1, <3>2, <3>3
    <3>5. total[n - 1] = f[n - 1]
      BY <2>3, <3>1, <3>4, Zenon
    <3> QED
      BY <2>1, <2>2, <3>2, <3>4, <3>5, Zenon
  <2>6. \A n \in 0 .. Len(s) : total[n] = f[n]
    BY <2>3, <2>5, Zenon
  <2>7. total \in [0 .. Len(s) -> Nat]
    BY <2>1, <2>2, <2>6
  <2> QED
    BY <2>1, <2>7 DEF Partial
<1> QED
  BY <1>9, <1>10

(* The head and the sum of the rest make the sum. *)
LEMMA SumTail ==
  ASSUME NEW s \in Seq(Nat), s # <<>>
  PROVE  /\ Sum(s) \in Nat /\ Sum(Tail(s)) \in Nat
         /\ Sum(s) = Head(s) + Sum(Tail(s))
<1>1. /\ Tail(s) \in Seq(Nat) /\ Len(s) \in Nat \ {0} /\ Len(Tail(s)) = Len(s) - 1 /\ Head(s) = s[1]
      /\ \A n \in 1 .. Len(s) - 1 : Tail(s)[n] = s[n + 1]
      /\ \A n \in 1 .. Len(s) : s[n] \in Nat
  BY PopAt
<1>2. PICK f : Partial(f, s) /\ Sum(s) = f[Len(s)]
  BY SumPartial
<1>3. PICK g : Partial(g, Tail(s)) /\ Sum(Tail(s)) = g[Len(Tail(s))]
  BY <1>1, SumPartial
<1>4. /\ f \in [0 .. Len(s) -> Nat] /\ f[0] = 0
      /\ \A n \in 1 .. Len(s) : f[n] = f[n - 1] + s[n]
  BY <1>2 DEF Partial
<1>5. /\ g \in [0 .. Len(s) - 1 -> Nat] /\ g[0] = 0
      /\ \A n \in 1 .. Len(s) - 1 : g[n] = g[n - 1] + s[n + 1]
  BY <1>1, <1>3 DEF Partial
<1> DEFINE Off == {n \in 0 .. Len(s) - 1 : f[n + 1] # s[1] + g[n]}
<1>6. Off \subseteq Nat /\ \A n \in 0 .. Len(s) - 1 : n \in Off <=> f[n + 1] # s[1] + g[n]
  BY <1>1
<1>7. \A n \in Off : n \in 0 .. Len(s) - 1
  OBVIOUS
<1> HIDE DEF Off
<1>8. Off = {}
  <2> SUFFICES ASSUME Off # {} PROVE FALSE
    OBVIOUS
  <2>1. PICK n : n \in Off /\ \A y \in Off : n <= y
    BY <1>6, Least, Zenon
  <2>2. n \in 0 .. Len(s) - 1 /\ n \in Nat /\ f[n + 1] # s[1] + g[n]
    BY <1>1, <1>6, <1>7, <2>1
  <2>3. n # 0
    <3>1. 1 \in 1 .. Len(s) /\ s[1] \in Nat
      BY <1>1
    <3>2. f[1] = 0 + s[1] /\ g[0] = 0
      BY <1>4, <1>5, <3>1
    <3> QED
      BY <2>2, <3>1, <3>2
  <2>4. n - 1 \in 0 .. Len(s) - 1 /\ n \in 1 .. Len(s) - 1 /\ n + 1 \in 1 .. Len(s) /\ ~(n <= n - 1)
    BY <1>1, <2>2, <2>3
  <2>5. f[n] = s[1] + g[n - 1]
    <3>1. f[(n - 1) + 1] = s[1] + g[n - 1]
      BY <1>6, <2>1, <2>4, Zenon
    <3> QED
      BY <2>2, <3>1
  <2>6. f[n + 1] = f[n] + s[n + 1] /\ g[n] = g[n - 1] + s[n + 1]
    BY <1>4, <1>5, <2>2, <2>4
  <2>7. g[n - 1] \in Nat /\ s[n + 1] \in Nat /\ s[1] \in Nat
    <3>1. 1 \in 1 .. Len(s)
      BY <1>1
    <3>2. g[n - 1] \in Nat
      BY <1>5, <2>4
    <3> QED
      BY <1>1, <2>4, <3>1, <3>2, Zenon
  <2> QED
    BY <2>2, <2>5, <2>6, <2>7
<1>9. Len(s) - 1 \in 0 .. Len(s) - 1 /\ Len(s) \in 0 .. Len(s) /\ (Len(s) - 1) + 1 = Len(s)
  BY <1>1
<1>10. f[Len(s)] = s[1] + g[Len(s) - 1]
  BY <1>6, <1>8, <1>9
<1>11. Sum(s) = f[Len(s)] /\ Sum(Tail(s)) = g[Len(s) - 1]
  BY <1>1, <1>2, <1>3
<1>12. f[Len(s)] \in Nat /\ g[Len(s) - 1] \in Nat
  BY <1>4, <1>5, <1>9
<1> QED
  BY <1>1, <1>10, <1>11, <1>12

(* The sum of no numbers. *)
LEMMA SumEmpty == Sum(<<>>) = 0
<1>1. <<>> \in Seq(Nat) /\ Len(<<>>) = 0
  OBVIOUS
<1>2. PICK f : Partial(f, <<>>) /\ Sum(<<>>) = f[Len(<<>>)]
  BY <1>1, SumPartial
<1> QED
  BY <1>1, <1>2 DEF Partial

(* The barrier opens exactly when main and all n workers have arrived. *)
LEMMA AllArrived ==
  ASSUME NEW n \in Nat, NEW X, X \subseteq (0 .. n - 1) \cup {-1}
  PROVE  /\ Cardinality(X) = n + 1 <=> X = (0 .. n - 1) \cup {-1}
         /\ IsFiniteSet(0 .. n - 1) /\ Cardinality(0 .. n - 1) = n
<1> DEFINE U == (0 .. n - 1) \cup {-1}
<1>1. IsFiniteSet(0 .. n - 1) /\ Cardinality(0 .. n - 1) = n /\ -1 \notin 0 .. n - 1
  <2>1. 0 \in Int /\ n - 1 \in Int
    OBVIOUS
  <2>2. IsFiniteSet(0 .. n - 1) /\ Cardinality(0 .. n - 1) = IF 0 > n - 1 THEN 0 ELSE n - 1 - 0 + 1
    BY <2>1, FS_Interval, Zenon
  <2> QED
    BY <2>2
<1>2. IsFiniteSet(U) /\ Cardinality(U) = n + 1
  BY <1>1, FS_AddElement
<1> HIDE DEF U
<1>3. X \in SUBSET U
  BY DEF U
<1>4. Cardinality(U) = Cardinality(X) => U = X
  BY <1>2, <1>3, FS_Subset
<1> QED
  BY <1>1, <1>2, <1>4 DEF U

(* Multiplication by a number keeps the order, and multiples of q are at    *)
(* least q apart.                                                           *)
LEMMA Multiples ==
  ASSUME NEW q \in Nat, NEW a \in Nat, NEW b \in Nat, a < b
  PROVE  a * q \in Nat /\ b * q \in Nat /\ a * q + q <= b * q
<1> DEFINE d == b - a - 1
<1>1. d \in Nat /\ b = a + d + 1
  OBVIOUS
<1>2. a * q \in Nat /\ d * q \in Nat
  OBVIOUS
<1> HIDE DEF d
<1>3. b * q = a * q + d * q + q
  BY <1>1
<1> QED
  BY <1>2, <1>3

(* The slices of run_scaling, for every number of items and of threads:    *)
(* each lies within the items and behind the ones before it, and each item *)
(* is in one.                                                              *)
LEMMA Slices ==
  ASSUME T \in Nat \ {0}
  PROVE  /\ \A w \in 0 .. T - 1 : /\ SliceStart(w) \in Nat /\ SliceCount(w) \in Nat
                                  /\ SliceStart(w) + SliceCount(w) <= Items
         /\ \A v, w \in 0 .. T - 1 : v < w => SliceStart(v) + SliceCount(v) <= SliceStart(w)
         /\ \A x \in 0 .. Items - 1 : \E w \in 0 .. T - 1 :
              x \in SliceStart(w) .. SliceStart(w) + SliceCount(w) - 1
<1>n. PICK n : n = T
  OBVIOUS
<1>q. PICK q : q = Items \div n
  OBVIOUS
<1>1. n \in Nat \ {0} /\ Items \in Nat /\ q \in Nat /\ n * q <= Items
  <2>1. n \in Nat \ {0} /\ Items \in Nat
    BY <1>n, LoopsAssumption
  <2>2. q \in Nat /\ Items % n \in Nat /\ Items = n * q + (Items % n)
    BY <2>1, <1>q
  <2>3. n * q \in Nat
    BY <2>1, <2>2
  <2> QED
    BY <2>1, <2>2, <2>3
<1>2. /\ \A w : SliceStart(w) = w * q
      /\ \A w : SliceCount(w) = IF w = n - 1 THEN Items - w * q ELSE q
  BY <1>n, <1>q DEF SliceStart, SliceCount, PerThread
<1>3. ASSUME NEW w \in 0 .. n - 1
      PROVE  /\ w \in Nat /\ w * q \in Nat /\ w * q + q <= Items
             /\ SliceStart(w) \in Nat /\ SliceCount(w) \in Nat
             /\ SliceStart(w) + SliceCount(w) <= Items
  <2>1. w \in Nat /\ w < n /\ n \in Nat
    BY <1>1
  <2>2. w * q \in Nat /\ n * q \in Nat /\ w * q + q <= n * q
    BY <1>1, <2>1, Multiples
  <2> QED
    BY <1>1, <1>2, <2>1, <2>2
<1>4. ASSUME NEW v \in 0 .. n - 1, NEW w \in 0 .. n - 1, v < w
      PROVE  SliceStart(v) + SliceCount(v) <= SliceStart(w)
  <2>1. v \in Nat /\ w \in Nat /\ v # n - 1
    BY <1>1, <1>4
  <2>2. v * q + q <= w * q
    BY <1>1, <1>4, <2>1, Multiples
  <2> QED
    BY <1>2, <2>1, <2>2
<1>5. ASSUME NEW x \in 0 .. Items - 1
      PROVE  \E w \in 0 .. n - 1 : x \in SliceStart(w) .. SliceStart(w) + SliceCount(w) - 1
  <2>1. x \in Nat /\ x < Items /\ n - 1 \in 0 .. n - 1
    BY <1>1
  <2>2. CASE (n - 1) * q <= x
    <3>1. (n - 1) * q \in Nat
      BY <1>3, <2>1
    <3>2. SliceStart(n - 1) = (n - 1) * q /\ SliceCount(n - 1) = Items - (n - 1) * q
      BY <1>2
    <3> QED
      BY <1>1, <2>1, <2>2, <3>1, <3>2
  <2>3. CASE ~((n - 1) * q <= x)
    <3>1. q # 0
      BY <1>1, <2>1, <2>3
    <3> DEFINE d == x \div q
    <3>2. d \in Nat /\ x % q \in 0 .. q - 1 /\ x = q * d + (x % q)
      BY <1>1, <2>1, <3>1
    <3> HIDE DEF d
    <3>3. d * q = q * d
      BY <1>1, <3>2
    <3>4. d * q \in Nat /\ d * q <= x /\ x < d * q + q
      <4>1. d * q \in Nat
        BY <1>1, <3>2
      <4> QED
        BY <1>1, <2>1, <3>2, <3>3, <4>1
    <3>5. d < n - 1
      <4> SUFFICES ASSUME ~(d < n - 1) PROVE FALSE
        OBVIOUS
      <4>1. n - 1 = d \/ n - 1 < d
        BY <1>1, <3>2
      <4>2. n - 1 < d => (n - 1) * q + q <= d * q /\ (n - 1) * q \in Nat
        <5>1. n - 1 \in Nat
          BY <1>1
        <5> QED
          BY <1>1, <3>2, <5>1, Multiples
      <4> QED
        BY <1>1, <2>1, <2>3, <3>4, <4>1, <4>2
    <3>6. d \in 0 .. n - 1 /\ d # n - 1
      BY <1>1, <3>2, <3>5
    <3>7. SliceStart(d) = d * q /\ SliceCount(d) = q
      BY <1>2, <3>6
    <3>8. x \in d * q .. d * q + q - 1
      BY <1>1, <2>1, <3>4
    <3> QED
      BY <3>6, <3>7, <3>8
  <2> QED
    BY <2>2, <2>3
<1> QED
  BY <1>n, <1>3, <1>4, <1>5

-----------------------------------------------------------------------------
(* The threads and the barrier. *)

MainAt == pc[Main]
MainWaits == Main \in waiting

(* Before the barrier has opened, between its two openings, and after. *)
Gathering == MainAt \in {"create", "release"} \/ (MainAt = "finish" /\ MainWaits)
Working == (MainAt = "finish" /\ ~MainWaits) \/ (MainAt = "read" /\ MainWaits)
Leaving == (MainAt = "read" /\ ~MainWaits) \/ MainAt = "join"

Places == {"none", "create", "release", "finish", "read", "join", "start", "work", "leave", "exit"}

(* The threads of a run are the first c ones, all of them once main has    *)
(* started the timer.                                                      *)
CreatedOK ==
    /\ sweep \in Seq(1 .. Most)
    /\ pc \in [Threads -> Places]
    /\ MainAt \in {"create", "release", "finish", "read", "join", "exit"}
    /\ MainAt = "exit" <=> sweep = <<>>
    /\ timing = (MainAt \in {"release", "finish", "read"})
    /\ \E c \in 0 .. T : Created = 0 .. c - 1 /\ (MainAt # "create" => c = T)

(* The workers pass the barrier together with main, twice; who has arrived *)
(* waits until all have.                                                   *)
BarrierOK ==
    /\ waiting \subseteq Created \cup {Main}
    /\ MainAt \notin {"finish", "read"} => ~MainWaits
    /\ Gathering => \A w \in Created : pc[w] \in {"start", "work"} /\ (pc[w] = "work" <=> w \in waiting)
    /\ Working => \A w \in Created : pc[w] \in {"work", "leave"} /\ (pc[w] = "leave" <=> w \in waiting)
    /\ Leaving => \A w \in Created : pc[w] \in {"leave", "exit"} /\ w \notin waiting

ThreadsOK == CreatedOK /\ BarrierOK

(* Main is no worker, and T is within the sweep. *)
LEMMA ThreadNames ==
  ASSUME CreatedOK
  PROVE  /\ Workers = 0 .. Most - 1 /\ Main = -1 /\ Main \notin Workers
         /\ Threads = Workers \cup {Main}
         /\ T \in 0 .. Most /\ T \in Nat /\ (T = 0 <=> sweep = <<>>)
         /\ Created = {w \in Workers : pc[w] # "none"}
<1>1. Workers = 0 .. Most - 1 /\ Main = -1 /\ Threads = Workers \cup {Main}
  BY DEF Workers, Most, Main, Threads
<1>2. Main \notin Workers
  BY <1>1, MostOK
<1>3. T \in 0 .. Most /\ T \in Nat /\ (T = 0 <=> sweep = <<>>)
  <2>1. sweep # <<>> => Head(sweep) \in 1 .. Most
    <3>1. sweep \in Seq(1 .. Most)
      BY DEF CreatedOK
    <3> QED
      BY <3>1, PopAt, Zenon
  <2> QED
    BY <2>1, MostOK DEF T
<1> QED
  BY <1>1, <1>2, <1>3 DEF Created

(* The number of threads that main counts. *)
LEMMA CreatedCount ==
  ASSUME CreatedOK
  PROVE  \E c \in 0 .. T : /\ Created = 0 .. c - 1
                           /\ MainAt # "create" => c = T
                           /\ Cardinality(Created) = c
<1>1. PICK c \in 0 .. T : Created = 0 .. c - 1 /\ (MainAt # "create" => c = T)
  BY DEF CreatedOK
<1>2. c \in Nat /\ {} \subseteq (0 .. c - 1) \cup {-1}
  BY <1>1, ThreadNames
<1>3. Cardinality(0 .. c - 1) = c
  BY <1>2, AllArrived
<1> QED
  BY <1>1, <1>3

(* When the barrier opens, main and all workers are there. *)
LEMMA Opens ==
  ASSUME ThreadsOK, NEW t \in Created \cup {Main}, Cardinality(waiting \cup {t}) = T + 1
  PROVE  /\ waiting \cup {t} = Created \cup {Main}
         /\ Created = 0 .. T - 1
<1>1. PICK c \in 0 .. T : Created = 0 .. c - 1
  BY CreatedCount DEF ThreadsOK
<1>2. T \in Nat /\ Main = -1 /\ c \in Nat /\ c <= T
  BY <1>1, ThreadNames DEF ThreadsOK
<1>3. 0 .. c - 1 \subseteq 0 .. T - 1
  BY <1>2
<1>4. waiting \cup {t} \subseteq (0 .. T - 1) \cup {-1}
  BY <1>1, <1>2, <1>3 DEF ThreadsOK, BarrierOK
<1>5. waiting \cup {t} = (0 .. T - 1) \cup {-1}
  BY <1>2, <1>4, AllArrived
<1>6. waiting \cup {t} \subseteq Created \cup {Main}
  BY DEF ThreadsOK, BarrierOK
<1>7. -1 \notin 0 .. T - 1 /\ Created \subseteq 0 .. T - 1
  BY <1>1, <1>2, <1>3
<1> QED
  BY <1>2, <1>5, <1>6, <1>7

(* What one thread's step to another place changes. *)
LEMMA Moved ==
  ASSUME CreatedOK, NEW t \in Threads, NEW p \in Places,
         pc' = [pc EXCEPT ![t] = p], sweep' = sweep
  PROVE  /\ (T)' = T
         /\ pc' \in [Threads -> Places]
         /\ pc'[t] = p /\ \A u \in Threads : u # t => pc'[u] = pc[u]
         /\ MainAt' = IF t = Main THEN p ELSE MainAt
         /\ t \in Created \cup {Main} /\ p # "none" => Created' = Created
         /\ t \in Workers /\ p # "none" => Created' = Created \cup {t}
<1>1. pc' \in [Threads -> Places] /\ pc'[t] = p /\ \A u \in Threads : u # t => pc'[u] = pc[u]
  BY DEF CreatedOK
<1>2. Main \in Threads /\ Main \notin Workers /\ Workers \subseteq Threads
  BY ThreadNames
<1>3. (T)' = T
  BY DEF T
<1>4. MainAt' = pc'[Main]
  BY DEF MainAt, Main
<1>5. Created' = {w \in Workers : pc'[w] # "none"}
  BY DEF Created, Workers
<1>6. Created = {w \in Workers : pc[w] # "none"}
  BY DEF Created
<1>7. MainAt' = IF t = Main THEN p ELSE MainAt
  BY <1>1, <1>2, <1>4 DEF MainAt
<1>8. ASSUME t \in Created \cup {Main}, p # "none" PROVE Created' = Created
  BY <1>1, <1>2, <1>5, <1>6, <1>8
<1>9. ASSUME t \in Workers, p # "none" PROVE Created' = Created \cup {t}
  BY <1>1, <1>2, <1>5, <1>6, <1>9
<1> QED
  BY <1>1, <1>3, <1>7, <1>8, <1>9

(* Main creates the next thread. *)
LEMMA ThreadsCreate == ASSUME ThreadsOK, CreateThread PROVE ThreadsOK'
<1>1. PICK c \in 0 .. T : Created = 0 .. c - 1 /\ Cardinality(Created) = c
  BY CreatedCount DEF ThreadsOK
<1>2. /\ MainAt = "create" /\ Main \notin waiting /\ c < T
      /\ pc' = [pc EXCEPT ![c] = "start"]
      /\ sweep' = sweep /\ waiting' = waiting /\ timing' = timing
  BY <1>1 DEF CreateThread, At, MainAt
<1>3. c \in Workers /\ c \in Threads /\ c # Main /\ c \notin Created /\ c + 1 \in 0 .. T
  BY <1>1, <1>2, ThreadNames, MostOK DEF ThreadsOK
<1>4. /\ (T)' = T /\ pc' \in [Threads -> Places]
      /\ pc'[c] = "start" /\ \A u \in Threads : u # c => pc'[u] = pc[u]
      /\ MainAt' = MainAt /\ Created' = Created \cup {c}
  BY <1>2, <1>3, Moved DEF ThreadsOK, Places
<1>5. Created' = 0 .. (c + 1) - 1
  BY <1>1, <1>4, ThreadNames DEF ThreadsOK
<1>6. CreatedOK'
  <2>1. /\ sweep' \in Seq(1 .. Most) /\ pc' \in [Threads -> Places] /\ MainAt' \in {"create", "release", "finish", "read", "join", "exit"}
        /\ MainAt' = "exit" <=> sweep' = <<>>
    BY <1>2, <1>4 DEF ThreadsOK, CreatedOK
  <2>2. timing' = (MainAt' \in {"release", "finish", "read"})
    BY <1>2, <1>4, Zenon DEF ThreadsOK, CreatedOK
  <2>3. \E d \in 0 .. (T)' : Created' = 0 .. d - 1 /\ (MainAt' # "create" => d = (T)')
    BY <1>2, <1>3, <1>4, <1>5
  <2> QED
    BY <2>1, <2>2, <2>3 DEF CreatedOK, Most, Threads, Workers, Main
<1>7. MainWaits' = MainWaits /\ Main' = Main
  BY <1>2 DEF MainWaits, Main
<1>8. \A w \in Created : w \in Threads /\ w # c
  BY <1>3, ThreadNames DEF ThreadsOK
<1>9. c \notin waiting
  BY <1>3 DEF ThreadsOK, BarrierOK
<1>10. BarrierOK'
  BY <1>2, <1>4, <1>7, <1>8, <1>9 DEF ThreadsOK, BarrierOK, Gathering, Working, Leaving
<1> QED
  BY <1>6, <1>10 DEF ThreadsOK

(* A step of main or of a worker that creates and ends nothing. *)
LEMMA CreatedKept ==
  ASSUME CreatedOK, NEW t \in Created \cup {Main}, NEW p \in Places \ {"none", "exit"},
         pc' = [pc EXCEPT ![t] = p], sweep' = sweep,
         t = Main => p \in {"release", "finish", "read", "join"} /\ MainAt # "exit" /\ (MainAt = "create" => Cardinality(Created) = T),
         timing' = (MainAt' \in {"release", "finish", "read"})
  PROVE  CreatedOK'
<1>1. t \in Threads /\ p \in Places
  BY ThreadNames
<1>2. /\ (T)' = T /\ pc' \in [Threads -> Places]
      /\ MainAt' = IF t = Main THEN p ELSE MainAt
      /\ Created' = Created
  BY <1>1, Moved
<1>3. PICK c \in 0 .. T : Created = 0 .. c - 1 /\ (MainAt # "create" => c = T) /\ Cardinality(Created) = c
  BY CreatedCount
<1>4. MainAt' # "create" => c = T
  BY <1>2, <1>3
<1>5. \E d \in 0 .. (T)' : Created' = 0 .. d - 1 /\ (MainAt' # "create" => d = (T)')
  BY <1>2, <1>3, <1>4, Zenon
<1>6. /\ sweep' \in Seq(1 .. Most)
      /\ MainAt' \in {"create", "release", "finish", "read", "join", "exit"}
      /\ MainAt' = "exit" <=> sweep' = <<>>
  BY <1>2 DEF CreatedOK
<1> QED
  BY <1>2, <1>5, <1>6 DEF CreatedOK, Most, Threads, Workers, Main

(* Who arrives waits, or lets everybody go. *)
LEMMA Arrives ==
  ASSUME ThreadsOK, NEW t \in Created \cup {Main}, NEW from, NEW to \in Places \ {"none", "exit"},
         ArriveAndWait(t, from, to)
  PROVE  /\ pc[t] = from /\ t \notin waiting
         /\ pc' = [pc EXCEPT ![t] = to] /\ sweep' = sweep /\ timing' = timing
         /\ pc'[t] = to /\ \A u \in Created \cup {Main} : u # t => pc'[u] = pc[u]
         /\ MainAt' = IF t = Main THEN to ELSE MainAt
         /\ Created' = Created
         /\ \/ waiting' = waiting \cup {t} /\ (t # Main => MainWaits' = MainWaits)
            \/ waiting \cup {t} = Created \cup {Main} /\ waiting' = {} /\ ~MainWaits'
<1>1. /\ pc[t] = from /\ t \notin waiting
      /\ pc' = [pc EXCEPT ![t] = to] /\ sweep' = sweep /\ timing' = timing
      /\ waiting' = IF Cardinality(waiting \cup {t}) = T + 1 THEN {} ELSE waiting \cup {t}
  BY DEF ArriveAndWait, At
<1>2. t \in Threads /\ to \in Places /\ Created \cup {Main} \subseteq Threads
  BY ThreadNames DEF ThreadsOK
<1>3. /\ pc'[t] = to /\ \A u \in Threads : u # t => pc'[u] = pc[u]
      /\ MainAt' = IF t = Main THEN to ELSE MainAt
      /\ Created' = Created
  BY <1>1, <1>2, Moved DEF ThreadsOK
<1>4. CASE Cardinality(waiting \cup {t}) = T + 1
  <2>1. waiting \cup {t} = Created \cup {Main}
    BY <1>4, Opens
  <2> QED
    BY <1>1, <1>2, <1>3, <1>4, <2>1 DEF MainWaits
<1>5. CASE Cardinality(waiting \cup {t}) # T + 1
  BY <1>1, <1>2, <1>3, <1>5 DEF MainWaits, Main
<1> QED
  BY <1>4, <1>5

(* The steps of main. *)
LEMMA ThreadsStart == ASSUME ThreadsOK, StartTimer PROVE ThreadsOK'
<1>1. /\ MainAt = "create" /\ Main \notin waiting /\ Cardinality(Created) = T
      /\ pc' = [pc EXCEPT ![Main] = "release"] /\ sweep' = sweep /\ waiting' = waiting /\ timing' = TRUE
  BY DEF StartTimer, At, MainAt
<1>2. /\ MainAt' = "release" /\ Created' = Created
      /\ \A w \in Created : pc'[w] = pc[w]
  BY <1>1, Moved, ThreadNames DEF ThreadsOK, Places
<1>3. CreatedOK'
  <2>1. timing' = (MainAt' \in {"release", "finish", "read"})
    BY <1>1, <1>2, Zenon
  <2> QED
    BY <1>1, <2>1, CreatedKept DEF ThreadsOK, Places
<1>4. ~MainWaits' /\ ~MainWaits
  BY <1>1 DEF MainWaits, Main
<1>5. BarrierOK'
  BY <1>1, <1>2, <1>4 DEF ThreadsOK, BarrierOK, Gathering, Working, Leaving, Main
<1> QED
  BY <1>3, <1>5 DEF ThreadsOK

(* Main reads the clock after the second barrier. *)
LEMMA ThreadsRead == ASSUME ThreadsOK, ReadTimer PROVE ThreadsOK'
<1>1. /\ MainAt = "read" /\ Main \notin waiting
      /\ pc' = [pc EXCEPT ![Main] = "join"] /\ sweep' = sweep /\ waiting' = waiting /\ timing' = FALSE
  BY DEF ReadTimer, At, MainAt
<1>2. /\ MainAt' = "join" /\ Created' = Created
      /\ \A w \in Created : pc'[w] = pc[w]
  BY <1>1, Moved, ThreadNames DEF ThreadsOK, Places
<1>3. CreatedOK'
  <2>1. timing' = (MainAt' \in {"release", "finish", "read"})
    <3>1. (MainAt' \in {"release", "finish", "read"}) = FALSE
      BY <1>2
    <3>2. timing' = FALSE
      BY <1>1
    <3> QED
      BY <3>1, <3>2, Zenon
  <2> QED
    BY <1>1, <2>1, CreatedKept DEF ThreadsOK, Places
<1>4. ~MainWaits' /\ ~MainWaits
  BY <1>1 DEF MainWaits, Main
<1>5. BarrierOK'
  BY <1>1, <1>2, <1>4 DEF ThreadsOK, BarrierOK, Gathering, Working, Leaving, Main
<1> QED
  BY <1>3, <1>5 DEF ThreadsOK

(* While there is a thread, the run is in one of its three phases. *)
LEMMA Phases ==
  ASSUME ThreadsOK, NEW w \in Created
  PROVE  /\ Gathering \/ Working \/ Leaving
         /\ pc[w] = "start" => Gathering
         /\ pc[w] = "work" /\ w \notin waiting => Working
         /\ pc[w] = "leave" /\ w \notin waiting => Leaving
         /\ pc[w] \in {"start", "work", "leave", "exit"}
<1>1. MainAt # "exit"
  <2> SUFFICES ASSUME MainAt = "exit" PROVE FALSE
    OBVIOUS
  <2>1. T = 0
    BY ThreadNames DEF ThreadsOK, CreatedOK
  <2>2. \E c \in 0 .. T : Created = 0 .. c - 1
    BY DEF ThreadsOK, CreatedOK
  <2> QED
    BY <2>1, <2>2
<1>2. Gathering \/ Working \/ Leaving
  BY <1>1 DEF ThreadsOK, CreatedOK, Gathering, Working, Leaving
<1> QED
  BY <1>2 DEF ThreadsOK, BarrierOK

(* Main arrives at the barrier, and arrives again. *)
LEMMA ThreadsRelease == ASSUME ThreadsOK, ArriveAndWait(Main, "release", "finish") PROVE ThreadsOK'
<1>1. Main \in Created \cup {Main} /\ "finish" \in Places \ {"none", "exit"}
  BY DEF Places
<1>2. /\ MainAt = "release" /\ ~MainWaits
      /\ pc' = [pc EXCEPT ![Main] = "finish"] /\ sweep' = sweep /\ timing' = timing
      /\ \A u \in Created \cup {Main} : u # Main => pc'[u] = pc[u]
      /\ MainAt' = "finish"
      /\ Created' = Created
      /\ \/ waiting' = waiting \cup {Main}
         \/ waiting \cup {Main} = Created \cup {Main} /\ waiting' = {} /\ ~MainWaits'
  BY <1>1, Arrives DEF MainAt, MainWaits
<1>3. CreatedOK'
  <2>1. timing' = (MainAt' \in {"release", "finish", "read"})
    <3>1. MainAt' \in {"release", "finish", "read"} /\ MainAt \in {"release", "finish", "read"}
      BY <1>2
    <3> QED
      BY <1>2, <3>1, Zenon DEF ThreadsOK, CreatedOK
  <2> QED
    BY <1>1, <1>2, <2>1, CreatedKept DEF ThreadsOK
<1> SUFFICES BarrierOK'
  BY <1>3 DEF ThreadsOK
<1>4. Main \notin Created /\ Main' = Main
  BY ThreadNames DEF ThreadsOK, Main
<1>5. \A w \in Created : pc'[w] = pc[w] /\ pc[w] \in {"start", "work"} /\ (pc[w] = "work" <=> w \in waiting)
  BY <1>2, <1>4 DEF ThreadsOK, BarrierOK, Gathering
<1>6. waiting \subseteq Created \cup {Main}
  BY DEF ThreadsOK, BarrierOK
<1>7. CASE waiting' = waiting \cup {Main}
  BY <1>2, <1>4, <1>5, <1>6, <1>7 DEF BarrierOK, Gathering, Working, Leaving, MainWaits
<1>8. CASE waiting \cup {Main} = Created \cup {Main} /\ waiting' = {} /\ ~MainWaits'
  <2>1. \A w \in Created : pc'[w] = "work"
    BY <1>4, <1>5, <1>8
  <2> QED
    BY <1>2, <1>4, <1>8, <2>1 DEF BarrierOK, Gathering, Working, Leaving
<1> QED
  BY <1>2, <1>7, <1>8

(* Main arrives at the barrier for the second time. *)
LEMMA ThreadsFinish == ASSUME ThreadsOK, ArriveAndWait(Main, "finish", "read") PROVE ThreadsOK'
<1>1. Main \in Created \cup {Main} /\ "read" \in Places \ {"none", "exit"}
  BY DEF Places
<1>2. /\ MainAt = "finish" /\ ~MainWaits
      /\ pc' = [pc EXCEPT ![Main] = "read"] /\ sweep' = sweep /\ timing' = timing
      /\ \A u \in Created \cup {Main} : u # Main => pc'[u] = pc[u]
      /\ MainAt' = "read"
      /\ Created' = Created
      /\ \/ waiting' = waiting \cup {Main}
         \/ waiting \cup {Main} = Created \cup {Main} /\ waiting' = {} /\ ~MainWaits'
  BY <1>1, Arrives DEF MainAt, MainWaits
<1>3. CreatedOK'
  <2>1. timing' = (MainAt' \in {"release", "finish", "read"})
    <3>1. MainAt' \in {"release", "finish", "read"} /\ MainAt \in {"release", "finish", "read"}
      BY <1>2
    <3> QED
      BY <1>2, <3>1, Zenon DEF ThreadsOK, CreatedOK
  <2> QED
    BY <1>1, <1>2, <2>1, CreatedKept DEF ThreadsOK
<1> SUFFICES BarrierOK'
  BY <1>3 DEF ThreadsOK
<1>4. Main \notin Created /\ Main' = Main
  BY ThreadNames DEF ThreadsOK, Main
<1>5. \A w \in Created : pc'[w] = pc[w] /\ pc[w] \in {"work", "leave"} /\ (pc[w] = "leave" <=> w \in waiting)
  BY <1>2, <1>4 DEF ThreadsOK, BarrierOK, Working
<1>6. waiting \subseteq Created \cup {Main}
  BY DEF ThreadsOK, BarrierOK
<1>7. CASE waiting' = waiting \cup {Main}
  BY <1>2, <1>4, <1>5, <1>6, <1>7 DEF BarrierOK, Gathering, Working, Leaving, MainWaits
<1>8. CASE waiting \cup {Main} = Created \cup {Main} /\ waiting' = {} /\ ~MainWaits'
  <2>1. \A w \in Created : pc'[w] = "leave"
    BY <1>4, <1>5, <1>8
  <2> QED
    BY <1>2, <1>4, <1>8, <2>1 DEF BarrierOK, Gathering, Working, Leaving
<1> QED
  BY <1>2, <1>7, <1>8

(* A worker arrives before its loop, and after it. *)
LEMMA ThreadsBegin == ASSUME ThreadsOK, NEW w \in Created, ArriveAndWait(w, "start", "work") PROVE ThreadsOK'
<1>1. w \in Created \cup {Main} /\ "work" \in Places \ {"none", "exit"} /\ w # Main
  BY ThreadNames DEF ThreadsOK, Places
<1>2. /\ pc[w] = "start"
      /\ pc' = [pc EXCEPT ![w] = "work"] /\ sweep' = sweep /\ timing' = timing
      /\ pc'[w] = "work" /\ \A u \in Created : u # w => pc'[u] = pc[u]
      /\ MainAt' = MainAt
      /\ Created' = Created
      /\ \/ waiting' = waiting \cup {w} /\ MainWaits' = MainWaits
         \/ waiting \cup {w} = Created \cup {Main} /\ waiting' = {} /\ ~MainWaits'
  BY <1>1, Arrives
<1>3. CreatedOK'
  <2>1. timing' = (MainAt' \in {"release", "finish", "read"})
    BY <1>2, Zenon DEF ThreadsOK, CreatedOK
  <2> QED
    BY <1>1, <1>2, <2>1, CreatedKept DEF ThreadsOK
<1> SUFFICES BarrierOK'
  BY <1>3 DEF ThreadsOK
<1>4. Gathering
  BY <1>2, Phases
<1>5. /\ \A u \in Created : pc[u] \in {"start", "work"} /\ (pc[u] = "work" <=> u \in waiting)
      /\ waiting \subseteq Created \cup {Main} /\ (MainWaits => MainAt = "finish")
  BY <1>4 DEF ThreadsOK, BarrierOK, Gathering
<1>6. CASE waiting' = waiting \cup {w} /\ MainWaits' = MainWaits
  BY <1>2, <1>4, <1>5, <1>6 DEF BarrierOK, Gathering, Working, Leaving, Main
<1>7. CASE waiting \cup {w} = Created \cup {Main} /\ waiting' = {} /\ ~MainWaits'
  <2>1. \A u \in Created : pc'[u] = "work"
    BY <1>2, <1>5, <1>7
  <2>2. MainWaits
    BY <1>1, <1>7 DEF MainWaits
  <2> QED
    BY <1>2, <1>5, <1>7, <2>1, <2>2 DEF BarrierOK, Gathering, Working, Leaving
<1> QED
  BY <1>2, <1>6, <1>7

(* A worker arrives at the barrier after its loop. *)
LEMMA ThreadsEnd == ASSUME ThreadsOK, NEW w \in Created, ArriveAndWait(w, "work", "leave") PROVE ThreadsOK'
<1>1. w \in Created \cup {Main} /\ "leave" \in Places \ {"none", "exit"} /\ w # Main
  BY ThreadNames DEF ThreadsOK, Places
<1>2. /\ pc[w] = "work" /\ w \notin waiting
      /\ pc' = [pc EXCEPT ![w] = "leave"] /\ sweep' = sweep /\ timing' = timing
      /\ pc'[w] = "leave" /\ \A u \in Created : u # w => pc'[u] = pc[u]
      /\ MainAt' = MainAt
      /\ Created' = Created
      /\ \/ waiting' = waiting \cup {w} /\ MainWaits' = MainWaits
         \/ waiting \cup {w} = Created \cup {Main} /\ waiting' = {} /\ ~MainWaits'
  BY <1>1, Arrives
<1>3. CreatedOK'
  <2>1. timing' = (MainAt' \in {"release", "finish", "read"})
    BY <1>2, Zenon DEF ThreadsOK, CreatedOK
  <2> QED
    BY <1>1, <1>2, <2>1, CreatedKept DEF ThreadsOK
<1> SUFFICES BarrierOK'
  BY <1>3 DEF ThreadsOK
<1>4. Working
  BY <1>2, Phases
<1>5. /\ \A u \in Created : pc[u] \in {"work", "leave"} /\ (pc[u] = "leave" <=> u \in waiting)
      /\ waiting \subseteq Created \cup {Main} /\ (MainWaits => MainAt = "read")
  BY <1>4 DEF ThreadsOK, BarrierOK, Working
<1>6. CASE waiting' = waiting \cup {w} /\ MainWaits' = MainWaits
  BY <1>2, <1>4, <1>5, <1>6 DEF BarrierOK, Gathering, Working, Leaving, Main
<1>7. CASE waiting \cup {w} = Created \cup {Main} /\ waiting' = {} /\ ~MainWaits'
  <2>1. \A u \in Created : pc'[u] = "leave"
    BY <1>2, <1>5, <1>7
  <2>2. MainWaits
    BY <1>1, <1>7 DEF MainWaits
  <2> QED
    BY <1>2, <1>5, <1>7, <2>1, <2>2 DEF BarrierOK, Gathering, Working, Leaving
<1> QED
  BY <1>2, <1>6, <1>7

(* A thread ends. *)
LEMMA ThreadsExit == ASSUME ThreadsOK, NEW w \in Created, Exit(w) PROVE ThreadsOK'
<1>1. /\ pc[w] = "leave" /\ w \notin waiting /\ pc' = [pc EXCEPT ![w] = "exit"]
      /\ sweep' = sweep /\ waiting' = waiting /\ timing' = timing
  BY DEF Exit, At
<1>2. w \in Workers /\ w \in Threads /\ w # Main /\ "exit" \in Places /\ Created \subseteq Threads
  BY ThreadNames DEF ThreadsOK, Places
<1>3. /\ (T)' = T /\ pc' \in [Threads -> Places]
      /\ pc'[w] = "exit" /\ \A u \in Created : u # w => pc'[u] = pc[u]
      /\ MainAt' = MainAt /\ Created' = Created
  BY <1>1, <1>2, Moved DEF ThreadsOK
<1>4. CreatedOK'
  <2>1. /\ sweep' \in Seq(1 .. Most) /\ MainAt' \in {"create", "release", "finish", "read", "join", "exit"}
        /\ MainAt' = "exit" <=> sweep' = <<>>
    BY <1>1, <1>3 DEF ThreadsOK, CreatedOK
  <2>2. timing' = (MainAt' \in {"release", "finish", "read"})
    BY <1>1, <1>3, Zenon DEF ThreadsOK, CreatedOK
  <2>3. \E d \in 0 .. (T)' : Created' = 0 .. d - 1 /\ (MainAt' # "create" => d = (T)')
    BY <1>3, Zenon DEF ThreadsOK, CreatedOK
  <2> QED
    BY <1>3, <2>1, <2>2, <2>3 DEF CreatedOK, Most, Threads, Workers, Main
<1>5. Leaving
  BY <1>1, Phases
<1>6. MainWaits' = MainWaits /\ Main' = Main
  BY <1>1 DEF MainWaits, Main
<1>7. BarrierOK'
  BY <1>1, <1>3, <1>5, <1>6 DEF ThreadsOK, BarrierOK, Gathering, Working, Leaving
<1> QED
  BY <1>4, <1>7 DEF ThreadsOK

(* Main joins all threads and goes on to the next thread count. *)
LEMMA ThreadsJoin == ASSUME ThreadsOK, JoinAll PROVE ThreadsOK' /\ waiting' = {} /\ sweep # <<>>
<1>1. /\ MainAt = "join" /\ Main \notin waiting /\ \A w \in Created : pc[w] = "exit"
      /\ sweep' = Tail(sweep) /\ waiting' = waiting /\ timing' = timing
      /\ pc' = [t \in Threads |-> IF t # Main THEN "none" ELSE IF Len(sweep) > 1 THEN "create" ELSE "exit"]
  BY DEF JoinAll, At, MainAt
<1>2. waiting = {}
  BY <1>1 DEF ThreadsOK, BarrierOK, Leaving
<1>3. sweep \in Seq(1 .. Most) /\ sweep # <<>>
  BY <1>1 DEF ThreadsOK, CreatedOK
<1>4. sweep' \in Seq(1 .. Most) /\ (Len(sweep) > 1 <=> sweep' # <<>>)
  <2>1. Tail(sweep) \in Seq(1 .. Most) /\ Len(sweep) \in Nat \ {0} /\ Len(Tail(sweep)) = Len(sweep) - 1
    BY <1>3, PopAt, Zenon
  <2>2. \A s \in Seq(1 .. Most) : s = <<>> <=> Len(s) = 0
    OBVIOUS
  <2>3. Tail(sweep) = <<>> <=> Len(Tail(sweep)) = 0
    BY <2>1, <2>2, Zenon
  <2> QED
    BY <1>1, <2>1, <2>3
<1>5. Main \in Threads /\ Workers \subseteq Threads /\ Main \notin Workers
  BY ThreadNames DEF ThreadsOK
<1>6. /\ pc' \in [Threads -> Places]
      /\ MainAt' = IF sweep' # <<>> THEN "create" ELSE "exit"
  BY <1>1, <1>4, <1>5 DEF MainAt, Main, Places
<1>7. Created' = {}
  BY <1>1, <1>5 DEF Created, Workers
<1>8. CreatedOK'
  <2>1. timing' = (MainAt' \in {"release", "finish", "read"})
    <3>1. (MainAt' \in {"release", "finish", "read"}) = FALSE
      BY <1>6
    <3>2. (MainAt \in {"release", "finish", "read"}) = FALSE
      BY <1>1
    <3> QED
      BY <1>1, <3>1, <3>2, Zenon DEF ThreadsOK, CreatedOK
  <2>2. (T)' \in Nat /\ (MainAt' = "exit" => (T)' = 0)
    <3>1. sweep' # <<>> => Head(sweep') \in 1 .. Most
      BY <1>4, PopAt, Zenon
    <3> QED
      BY <1>6, <3>1, MostOK DEF T
  <2>3. \E d \in 0 .. (T)' : Created' = 0 .. d - 1 /\ (MainAt' # "create" => d = (T)')
    BY <1>6, <1>7, <2>2
  <2> QED
    BY <1>4, <1>6, <2>1, <2>3 DEF CreatedOK, Most, Threads, Workers, Main
<1>9. BarrierOK'
  <2>1. ~MainWaits'
    BY <1>1, <1>2 DEF MainWaits
  <2> QED
    BY <1>1, <1>2, <1>6, <1>7, <2>1 DEF BarrierOK, Gathering, Working, Leaving
<1> QED
  BY <1>1, <1>2, <1>3, <1>8, <1>9 DEF ThreadsOK

(* The steps that move nobody. *)
LEMMA ThreadsSame == ASSUME ThreadsOK, UNCHANGED <<pc, waiting, sweep, timing>> PROVE ThreadsOK'
<1>1. MainAt' = MainAt /\ Created' = Created /\ (T)' = T /\ MainWaits' = MainWaits
  BY DEF MainAt, Main, Created, Workers, T, MainWaits
<1>2. CreatedOK'
  BY <1>1, Zenon DEF ThreadsOK, CreatedOK, Most, Threads, Workers, Main
<1>3. BarrierOK'
  BY <1>1 DEF ThreadsOK, BarrierOK, Gathering, Working, Leaving, Main
<1> QED
  BY <1>2, <1>3 DEF ThreadsOK
-----------------------------------------------------------------------------
(* The loops of the workers. *)

Hashed(w) == SliceStart(w) .. SliceStart(w) + k[w] - 1

(* A thread's counter runs from the opening of the barrier to the length   *)
(* of its loop, and the items hashed are those of the slices up to it.     *)
LoopsOK ==
    /\ k \in [Workers -> Nat] /\ counters \in [Workers -> Nat]
    /\ \A w \in Workers : Gathering \/ pc[w] = "none" => k[w] = 0
    /\ \A w \in Created : k[w] <= LoopLength(w) /\ (pc[w] \in {"leave", "exit"} => k[w] = LoopLength(w))
    /\ hashed = [x \in 0 .. Items - 1 |-> IF prog = "scaling" /\ \E w \in Created : x \in Hashed(w) THEN 1 ELSE 0]
    /\ prog = "counters" => \A w \in Workers : counters[w] = k[w]

(* The loop of a thread is its slice, or a number of operations. *)
LEMMA LoopLengths ==
  ASSUME T \in Nat, NEW w \in 0 .. T - 1
  PROVE  /\ T \in Nat \ {0} /\ LoopLength(w) \in Nat /\ SliceStart(w) \in Nat
         /\ prog = "scaling" => LoopLength(w) = SliceCount(w)
<1>1. T \in Nat \ {0}
  OBVIOUS
<1>2. SliceCount(w) \in Nat /\ SliceStart(w) \in Nat
  BY <1>1, Slices
<1> QED
  BY <1>1, <1>2, LoopsAssumption DEF LoopLength

(* Neither a slice nor a loop changes during a run. *)
LEMMA LoopsFixed ==
  ASSUME UNCHANGED <<prog, sweep>>
  PROVE  \A w : /\ (LoopLength(w))' = LoopLength(w)
                /\ (SliceStart(w))' = SliceStart(w)
<1> QED
  BY DEF LoopLength, SliceCount, SliceStart, PerThread, T

(* Steps outside the loops. *)
LEMMA LoopsKept ==
  ASSUME ThreadsOK, LoopsOK, CreatedOK', UNCHANGED <<prog, sweep, k, hashed, counters>>,
         Gathering' => Gathering, Created \subseteq Created',
         \A w \in Created' : pc'[w] \in {"leave", "exit"} => pc[w] \in {"leave", "exit"} \/ k[w] = LoopLength(w)
  PROVE  LoopsOK'
<1>1. /\ Workers' = Workers
      /\ Created = {w \in Workers : pc[w] # "none"} /\ Created' = {w \in Workers : pc'[w] # "none"}
  BY DEF Workers, Created
<1>t. /\ T \in Nat /\ \A w \in Created : w \in 0 .. T - 1
      /\ \A w \in Created' : w \in 0 .. T - 1
  <2>1. T \in Nat /\ (T)' = T
    BY ThreadNames DEF ThreadsOK, T
  <2> QED
    BY <2>1 DEF ThreadsOK, CreatedOK
<1>2. \A w \in Created' : w \notin Created => k[w] = 0
  BY <1>1 DEF LoopsOK
<1>3. \A w \in Workers : Gathering' \/ pc'[w] = "none" => k[w] = 0
  BY <1>1 DEF LoopsOK
<1>4. ASSUME NEW w \in Created'
      PROVE  k[w] <= LoopLength(w) /\ (pc'[w] \in {"leave", "exit"} => k[w] = LoopLength(w))
  <2>1. LoopLength(w) \in Nat
    BY <1>t, LoopLengths
  <2> QED
    BY <1>1, <1>2, <2>1 DEF LoopsOK
<1>5. \A w : Hashed(w)' = Hashed(w)
  BY LoopsFixed DEF Hashed
<1>6. \A w \in Created' : w \notin Created => Hashed(w) = {}
  <2> SUFFICES ASSUME NEW w \in Created', w \notin Created PROVE Hashed(w) = {}
    OBVIOUS
  <2>1. k[w] = 0
    BY <1>2
  <2>2. SliceStart(w) \in Nat
    BY <1>t, LoopLengths
  <2> QED
    BY <2>1, <2>2 DEF Hashed
<1>7. \A x : (\E w \in Created' : x \in Hashed(w)') <=> (\E w \in Created : x \in Hashed(w))
  BY <1>5, <1>6
<1>8. hashed' = [x \in 0 .. Items - 1 |-> IF prog' = "scaling" /\ \E w \in Created' : x \in Hashed(w)' THEN 1 ELSE 0]
  BY <1>7 DEF LoopsOK
<1>9. /\ k' \in [Workers -> Nat] /\ counters' \in [Workers -> Nat]
      /\ prog = "counters" => \A w \in Workers : counters[w] = k[w]
  BY DEF LoopsOK
<1>10. \A w \in Created' : /\ k'[w] <= LoopLength(w)'
                           /\ pc'[w] \in {"leave", "exit"} => k'[w] = LoopLength(w)'
  BY <1>4, LoopsFixed
<1> QED
  BY <1>1, <1>3, <1>8, <1>9, <1>10 DEF LoopsOK

(* A thread in its loop: the barrier has opened, and not yet again. *)
LEMMA LoopRuns ==
  ASSUME ThreadsOK, LoopsOK, NEW w \in Workers, InLoop(w)
  PROVE  /\ w \in Created /\ pc[w] = "work" /\ w \notin waiting /\ Working /\ ~Gathering /\ timing
         /\ T \in Nat /\ (\A v \in Created : v \in 0 .. T - 1)
         /\ k[w] \in Nat /\ LoopLength(w) \in Nat /\ k[w] < LoopLength(w)
<1>1. pc[w] = "work" /\ w \notin waiting /\ k[w] < LoopLength(w)
  BY DEF InLoop, At
<1>2. w \in Created
  BY <1>1 DEF Created
<1>3. Working /\ ~Gathering
  BY <1>1, <1>2, Phases DEF Gathering, Working
<1>4. MainAt \in {"release", "finish", "read"}
  BY <1>3 DEF Working
<1>5. timing
  BY <1>4, Zenon DEF ThreadsOK, CreatedOK
<1>6. T \in Nat /\ \A v \in Created : v \in 0 .. T - 1
  <2>1. T \in Nat
    BY ThreadNames DEF ThreadsOK
  <2> QED
    BY <2>1 DEF ThreadsOK, CreatedOK
<1>7. LoopLength(w) \in Nat
  BY <1>2, <1>6, LoopLengths
<1> QED
  BY <1>1, <1>2, <1>3, <1>5, <1>6, <1>7 DEF LoopsOK

(* One pass of a loop; what it hashes or counts is shown by the callers. *)
LEMMA LoopPass ==
  ASSUME ThreadsOK, LoopsOK, NEW w \in Workers, InLoop(w),
         UNCHANGED <<prog, sweep, pc, waiting>>, k' = [k EXCEPT ![w] = @ + 1],
         counters' \in [Workers -> Nat],
         prog = "counters" => counters' = [counters EXCEPT ![w] = @ + 1],
         hashed' = [x \in 0 .. Items - 1 |-> IF prog = "scaling" /\ \E v \in Created : x \in Hashed(v)' THEN 1 ELSE 0]
  PROVE  LoopsOK'
<1>1. /\ Workers' = Workers /\ Created' = Created /\ Gathering' = Gathering
  BY DEF Workers, Created, Gathering, MainAt, MainWaits, Main
<1>2. /\ w \in Created /\ pc[w] = "work" /\ ~Gathering
      /\ k[w] \in Nat /\ LoopLength(w) \in Nat /\ k[w] < LoopLength(w)
  BY LoopRuns
<1>3. k' \in [Workers -> Nat] /\ k'[w] = k[w] + 1 /\ \A v \in Workers : v # w => k'[v] = k[v]
  BY <1>2 DEF LoopsOK
<1>4. \A v \in Workers : Gathering' \/ pc'[v] = "none" => k'[v] = 0
  BY <1>1, <1>2, <1>3 DEF LoopsOK
<1>5. \A v \in Created : /\ k'[v] <= LoopLength(v)'
                         /\ pc'[v] \in {"leave", "exit"} => k'[v] = LoopLength(v)'
  <2>1. \A v \in Created : v \in Workers
    BY DEF Created
  <2>2. \A v \in Created : k[v] <= LoopLength(v) /\ (pc[v] \in {"leave", "exit"} => k[v] = LoopLength(v))
    BY DEF LoopsOK
  <2>3. k'[w] <= LoopLength(w)
    BY <1>2, <1>3
  <2> QED
    BY <1>2, <1>3, <2>1, <2>2, <2>3, LoopsFixed
<1>6. prog' = "counters" => \A v \in Workers : counters'[v] = k'[v]
  BY <1>3 DEF LoopsOK
<1> QED
  BY <1>1, <1>3, <1>4, <1>5, <1>6 DEF LoopsOK

(* The passes that hash nothing. *)
LEMMA LoopsPassed ==
  ASSUME ThreadsOK, LoopsOK, NEW w \in Workers, InLoop(w), prog # "scaling",
         UNCHANGED <<prog, sweep, pc, waiting, hashed>>, k' = [k EXCEPT ![w] = @ + 1],
         counters' \in [Workers -> Nat],
         prog = "counters" => counters' = [counters EXCEPT ![w] = @ + 1]
  PROVE  LoopsOK'
<1>1. hashed' = [x \in 0 .. Items - 1 |-> IF prog = "scaling" /\ \E v \in Created : x \in Hashed(v)' THEN 1 ELSE 0]
  <2>1. hashed = [x \in 0 .. Items - 1 |-> 0]
    BY DEF LoopsOK
  <2>2. [x \in 0 .. Items - 1 |-> IF prog = "scaling" /\ \E v \in Created : x \in Hashed(v)' THEN 1 ELSE 0]
          = [x \in 0 .. Items - 1 |-> 0]
    OBVIOUS
  <2> QED
    BY <2>1, <2>2
<1> QED
  BY <1>1, LoopPass

(* The item that a thread of run_scaling comes to is nobody else's. *)
LEMMA LoopsHash == ASSUME ThreadsOK, LoopsOK, NEW w \in Workers, HashItem(w) PROVE LoopsOK'
<1> DEFINE item == SliceStart(w) + k[w]
<1>1. /\ prog = "scaling" /\ InLoop(w) /\ UNCHANGED <<prog, sweep, pc, waiting, counters>>
      /\ hashed' = [hashed EXCEPT ![item] = @ + 1] /\ k' = [k EXCEPT ![w] = @ + 1]
  BY DEF HashItem
<1>2. /\ w \in Created /\ T \in Nat /\ (\A v \in Created : v \in 0 .. T - 1)
      /\ k[w] \in Nat /\ LoopLength(w) \in Nat /\ k[w] < LoopLength(w)
  BY <1>1, LoopRuns
<1>3. T \in Nat \ {0} /\ \A v \in Created : /\ SliceStart(v) \in Nat /\ LoopLength(v) \in Nat
                                            /\ LoopLength(v) = SliceCount(v)
  BY <1>1, <1>2, LoopLengths
<1>4. /\ \A v \in Created : SliceStart(v) + LoopLength(v) <= Items
      /\ \A u, v \in Created : u < v => SliceStart(u) + LoopLength(u) <= SliceStart(v)
  BY <1>2, <1>3, Slices
<1>5. \A v \in Created : k[v] \in Nat /\ k[v] <= LoopLength(v) /\ v \in Int
  <2>1. \A v \in Created : v \in Workers
    BY DEF Created
  <2> QED
    BY <1>2, <2>1 DEF LoopsOK
<1>6. item \in 0 .. Items - 1 /\ item \in Nat
  BY <1>2, <1>3, <1>4, LoopsAssumption
<1> HIDE DEF item
<1>7. ASSUME NEW v \in Created PROVE item \notin Hashed(v)
  <2>1. CASE v = w
    BY <1>2, <1>3, <2>1 DEF Hashed, item
  <2>2. CASE v < w
    <3>1. SliceStart(v) + LoopLength(v) <= SliceStart(w)
      BY <1>2, <1>4, <2>2
    <3> QED
      BY <1>2, <1>3, <1>5, <3>1 DEF Hashed, item
  <2>3. CASE w < v
    <3>1. SliceStart(w) + LoopLength(w) <= SliceStart(v)
      BY <1>2, <1>4, <2>3
    <3> QED
      BY <1>2, <1>3, <1>5, <3>1 DEF Hashed, item
  <2> QED
    BY <1>2, <1>5, <2>1, <2>2, <2>3
<1>8. /\ Hashed(w)' = Hashed(w) \cup {item}
      /\ \A v \in Created : v # w => Hashed(v)' = Hashed(v)
  <2>1. k'[w] = k[w] + 1 /\ \A v \in Created : v # w => k'[v] = k[v]
    BY <1>1, <1>2 DEF LoopsOK, Created
  <2>2. SliceStart(w)' = SliceStart(w) /\ \A v \in Created : SliceStart(v)' = SliceStart(v)
    BY <1>1, LoopsFixed
  <2>3. Hashed(w)' = SliceStart(w) .. SliceStart(w) + (k[w] + 1) - 1
    BY <2>1, <2>2 DEF Hashed
  <2>4. \A v \in Created : v # w => Hashed(v)' = Hashed(v)
    BY <2>1, <2>2 DEF Hashed
  <2>5. Hashed(w)' = Hashed(w) \cup {item}
    <3>1. \A a, b \in Nat : a .. a + (b + 1) - 1 = (a .. a + b - 1) \cup {a + b}
      OBVIOUS
    <3>2. SliceStart(w) \in Nat /\ k[w] \in Nat
      BY <1>2, <1>3
    <3>3. Hashed(w) = SliceStart(w) .. SliceStart(w) + k[w] - 1 /\ item = SliceStart(w) + k[w]
      BY DEF Hashed, item
    <3> QED
      BY <2>3, <3>1, <3>2, <3>3, Zenon
  <2> QED
    BY <2>4, <2>5
<1>9. hashed' = [x \in 0 .. Items - 1 |-> IF prog = "scaling" /\ \E v \in Created : x \in Hashed(v)' THEN 1 ELSE 0]
  <2>1. hashed = [x \in 0 .. Items - 1 |-> IF \E v \in Created : x \in Hashed(v) THEN 1 ELSE 0]
    BY <1>1 DEF LoopsOK
  <2>2. hashed[item] = 0
    BY <1>6, <1>7, <2>1
  <2>3. \A x : (\E v \in Created : x \in Hashed(v)') <=> x = item \/ \E v \in Created : x \in Hashed(v)
    BY <1>2, <1>8
  <2>4. hashed' = [x \in 0 .. Items - 1 |-> IF x = item \/ \E v \in Created : x \in Hashed(v) THEN 1 ELSE 0]
    <3> DEFINE Was(x) == \E v \in Created : x \in Hashed(v)
    <3>1. hashed = [x \in 0 .. Items - 1 |-> IF Was(x) THEN 1 ELSE 0]
      BY <2>1
    <3> SUFFICES hashed' = [x \in 0 .. Items - 1 |-> IF x = item \/ Was(x) THEN 1 ELSE 0]
      OBVIOUS
    <3> HIDE DEF Was
    <3>2. DOMAIN hashed = 0 .. Items - 1 /\ \A x \in 0 .. Items - 1 : hashed[x] = IF Was(x) THEN 1 ELSE 0
      BY <3>1
    <3>3. hashed' = [x \in 0 .. Items - 1 |-> IF x = item THEN hashed[item] + 1 ELSE hashed[x]]
      BY <1>1, <3>2
    <3>4. \A x \in 0 .. Items - 1 : (IF x = item THEN hashed[item] + 1 ELSE hashed[x]) = IF x = item \/ Was(x) THEN 1 ELSE 0
      BY <2>2, <3>2
    <3> QED
      BY <3>3, <3>4
  <2> QED
    BY <1>1, <2>3, <2>4
<1>10. counters' \in [Workers -> Nat]
  BY <1>1 DEF LoopsOK
<1> QED
  BY <1>1, <1>9, <1>10, LoopPass

(* The next run begins with all loops at their start. *)
LEMMA LoopsJoin == ASSUME LoopsOK, JoinAll, Created' = {} PROVE LoopsOK'
<1>1. /\ k' = [w \in Workers |-> 0] /\ counters' = [w \in Workers |-> 0] /\ hashed' = [x \in 0 .. Items - 1 |-> 0]
      /\ Workers' = Workers
  BY DEF JoinAll, Workers
<1>2. [x \in 0 .. Items - 1 |-> IF prog' = "scaling" /\ \E w \in Created' : x \in Hashed(w)' THEN 1 ELSE 0]
        = [x \in 0 .. Items - 1 |-> 0]
  OBVIOUS
<1>3. k' \in [Workers -> Nat] /\ counters' \in [Workers -> Nat] /\ \A w \in Workers : k'[w] = 0 /\ counters'[w] = 0
  BY <1>1
<1>4. hashed' = [x \in 0 .. Items - 1 |-> IF prog' = "scaling" /\ \E w \in Created' : x \in Hashed(w)' THEN 1 ELSE 0]
  BY <1>1, <1>2
<1> QED
  BY <1>1, <1>3, <1>4 DEF LoopsOK

-----------------------------------------------------------------------------
(* The three allocators. *)

(* The blocks that a worker answers for. *)
Own(w) == (IF held[w] = NoBlock THEN {} ELSE {held[w]}) \cup Range(cache[w])
Owned == [w \in Workers |-> Own(w)]

(* What is allocated is left behind or some worker's, and no two workers'. *)
Apart(blocks, own, left) ==
    /\ left \subseteq blocks
    /\ \A w \in Workers : own[w] \subseteq blocks \ left
    /\ \A v, w \in Workers : v # w => own[v] \cap own[w] = {}
    /\ \A b \in blocks \ left : \E w \in Workers : b \in own[w]

(* A worker holds a block within its loop only, and has one cached between *)
(* its passes only.                                                        *)
HandsOK ==
    /\ held \in [Workers -> Blocks \cup {NoBlock}]
    /\ cache \in [Workers -> Seq(Blocks)] /\ mtx \in Workers \cup {Nobody}
    /\ \A w \in Workers : held[w] # NoBlock => InLoop(w) /\ prog \in Allocators
    /\ \A w \in Workers : cache[w] # <<>> =>
         Len(cache[w]) = 1 /\ prog = "tls" /\ held[w] = NoBlock /\ pc[w] \in {"work", "leave"}

Exited == {w \in Workers : pc[w] = "exit"}

(* Each thread that has ended left one block at most. *)
LostOK ==
    /\ prog # "tls" => lost = {}
    /\ IsFiniteSet(lost)
    /\ Cardinality(lost) <= Sum(Sweep) - Sum(sweep) + Cardinality(Exited)

MemoryOK == heap \subseteq Blocks /\ HandsOK /\ Apart(heap, Owned, lost) /\ LostOK

(* A worker that owned nothing gets a block that was free, one that owned  *)
(* a block frees it, and one that ends leaves what it owned.               *)
LEMMA ApartGains ==
  ASSUME NEW B, NEW own, NEW L, Apart(B, own, L), NEW w \in Workers, own[w] = {}, NEW b, b \notin B,
         NEW next, next[w] = {b}, \A v \in Workers : v # w => next[v] = own[v]
  PROVE  Apart(B \cup {b}, next, L)
  BY DEF Apart

(* A worker that owned one block frees it. *)
LEMMA ApartGives ==
  ASSUME NEW B, NEW own, NEW L, Apart(B, own, L), NEW w \in Workers, NEW b, own[w] = {b},
         NEW next, next[w] = {}, \A v \in Workers : v # w => next[v] = own[v]
  PROVE  Apart(B \ {b}, next, L)
  BY DEF Apart

(* A worker that ends leaves what it owned. *)
LEMMA ApartLeaves ==
  ASSUME NEW B, NEW own, NEW L, Apart(B, own, L), NEW w \in Workers,
         NEW next, next[w] = {}, \A v \in Workers : v # w => next[v] = own[v]
  PROVE  Apart(B, next, L \cup own[w])
  BY DEF Apart

(* The same for the values of the next state. *)
LEMMA ApartNext ==
  ASSUME NEW B, NEW own, NEW L, Apart(B, own, L), heap' = B, Owned' = own, lost' = L
  PROVE  Apart(heap, Owned, lost)'
  BY DEF Apart, Workers

(* A list of one element, and of none. *)
LEMMA OneListed ==
  ASSUME NEW c \in Seq(Blocks), Len(c) = 1
  PROVE  /\ Range(c) = {c[1]} /\ c[1] \in Blocks /\ Back(c) = c[1] /\ PopBack(c) = <<>>
         /\ c # <<>> /\ Cardinality(Range(c)) = 1 /\ IsFiniteSet(Range(c))
<1>1. Range(c) = {c[1]} /\ c[1] \in Blocks
  BY DEF Range
<1>2. Back(c) = c[1] /\ PopBack(c) = <<>> /\ c # <<>>
  BY DEF Back, PopBack
<1>3. Cardinality(Range(c)) = 1 /\ IsFiniteSet(Range(c))
  BY <1>1, FS_Singleton
<1> QED
  BY <1>1, <1>2, <1>3

(* The empty list, and one element appended to it. *)
LEMMA NoneListed ==
  /\ Range(<<>>) = {} /\ <<>> \in Seq(Blocks) /\ Len(<<>>) = 0
  /\ \A b \in Blocks : /\ Append(<<>>, b) \in Seq(Blocks) /\ Len(Append(<<>>, b)) = 1 /\ Append(<<>>, b)[1] = b
                       /\ Append(<<>>, b) # <<>>
  BY DEF Range

(* What a worker owns, by what it has. *)
LEMMA OwnIs ==
  ASSUME HandsOK, NEW w \in Workers
  PROVE  /\ Owned[w] = Own(w) /\ held[w] \in Blocks \cup {NoBlock} /\ cache[w] \in Seq(Blocks)
         /\ held[w] = NoBlock => Own(w) = Range(cache[w])
         /\ held[w] # NoBlock => cache[w] = <<>> /\ Own(w) = {held[w]} /\ held[w] \in Blocks
         /\ held[w] = NoBlock /\ cache[w] = <<>> => Own(w) = {}
<1>1. Owned[w] = Own(w) /\ held[w] \in Blocks \cup {NoBlock} /\ cache[w] \in Seq(Blocks)
  BY DEF Owned, HandsOK
<1>2. held[w] = NoBlock => Own(w) = Range(cache[w])
  BY DEF Own
<1>3. held[w] # NoBlock => cache[w] = <<>> /\ held[w] \in Blocks
  BY <1>1 DEF HandsOK
<1>4. held[w] # NoBlock => Own(w) = {held[w]}
  BY <1>3, NoneListed DEF Own
<1>5. held[w] = NoBlock /\ cache[w] = <<>> => Own(w) = {}
  BY <1>2, NoneListed
<1> QED
  BY <1>1, <1>2, <1>3, <1>4, <1>5

(* Steps that allocate, free and end nothing. *)
LEMMA MemoryKept ==
  ASSUME MemoryOK, UNCHANGED <<prog, sweep, heap, held, cache, lost>>, mtx' \in Workers \cup {Nobody},
         \A w \in Workers : held[w] # NoBlock => InLoop(w)',
         \A w \in Workers : cache[w] # <<>> => pc'[w] \in {"work", "leave"},
         Exited' = Exited
  PROVE  MemoryOK'
<1>1. HandsOK'
  BY DEF MemoryOK, HandsOK, Workers, Nobody, Allocators
<1>2. Apart(heap, Owned, lost)'
  <2>1. Owned' = Owned
    BY DEF Owned, Own, Workers, Range
  <2> QED
    BY <2>1, ApartNext DEF MemoryOK
<1>3. LostOK'
  BY DEF MemoryOK, LostOK
<1> QED
  BY <1>1, <1>2, <1>3 DEF MemoryOK

(* A worker's alloc or free leaves b in its hand and c in its cache. *)
HandsMove(w, b, c) ==
    /\ InLoop(w) /\ prog \in Allocators
    /\ UNCHANGED <<prog, sweep, pc, waiting>> /\ mtx' = Nobody
    /\ b \in Blocks \cup {NoBlock} /\ held' = [held EXCEPT ![w] = b]
    /\ c \in Seq(Blocks) /\ cache' = [cache EXCEPT ![w] = c]
    /\ c # <<>> => Len(c) = 1 /\ prog = "tls" /\ b = NoBlock
    /\ \A v \in Workers : v # w \/ b # NoBlock => k'[v] = k[v]

(* What HandsMove says of hands and caches in the next state. *)
LEMMA HandsStep ==
  ASSUME MemoryOK, NEW w \in Workers, NEW b, NEW c, HandsMove(w, b, c)
  PROVE  /\ HandsOK'
         /\ Owned' = [Owned EXCEPT ![w] = (IF b = NoBlock THEN {} ELSE {b}) \cup Range(c)]
<1>1. /\ held' \in [Workers -> Blocks \cup {NoBlock}] /\ cache' \in [Workers -> Seq(Blocks)]
      /\ held'[w] = b /\ cache'[w] = c
      /\ \A v \in Workers : v # w => held'[v] = held[v] /\ cache'[v] = cache[v]
  BY DEF MemoryOK, HandsOK, HandsMove
<1>2. Workers' = Workers /\ Nobody' = Nobody /\ Allocators' = Allocators
  BY DEF Workers, Nobody, Allocators
<1>3. \A v \in Workers : k'[v] = k[v] => InLoop(v)' = InLoop(v)
  BY LoopsFixed DEF HandsMove, InLoop, At
<1>4. \A v \in Workers : held'[v] # NoBlock => InLoop(v)' /\ prog' \in Allocators'
  BY <1>1, <1>2, <1>3 DEF MemoryOK, HandsOK, HandsMove
<1>5. \A v \in Workers : cache'[v] # <<>> =>
         Len(cache'[v]) = 1 /\ prog' = "tls" /\ held'[v] = NoBlock /\ pc'[v] \in {"work", "leave"}
  BY <1>1 DEF MemoryOK, HandsOK, HandsMove, InLoop, At
<1>6. HandsOK'
  BY <1>1, <1>2, <1>4, <1>5 DEF HandsOK, HandsMove
<1>7. Owned' = [Owned EXCEPT ![w] = (IF b = NoBlock THEN {} ELSE {b}) \cup Range(c)]
  <2>1. Own(w)' = (IF b = NoBlock THEN {} ELSE {b}) \cup Range(c)
    BY <1>1 DEF Own, Range
  <2>2. \A v \in Workers : v # w => Own(v)' = Own(v)
    BY <1>1 DEF Own, Range
  <2>3. Owned' = [v \in Workers |-> Own(v)']
    BY <1>2 DEF Owned
  <2> QED
    BY <2>1, <2>2, <2>3 DEF Owned
<1> QED
  BY <1>6, <1>7

(* The steps of malloc and free, and of the thread-local cache. *)
LEMMA MemoryAllocates == ASSUME MemoryOK, NEW w \in Workers, AllocMalloc(w) PROVE MemoryOK'
<1>1. /\ InLoop(w) /\ prog \in Allocators /\ held[w] = NoBlock /\ cache[w] = <<>> /\ mtx' = Nobody
      /\ UNCHANGED <<prog, sweep, pc, waiting, k, lost, cache>>
  BY DEF AllocMalloc, Allocating, work, NoBlock
<1>2. PICK b \in Blocks \ heap : heap' = heap \cup {b} /\ held' = [held EXCEPT ![w] = b]
  BY DEF AllocMalloc
<1>3. b \in Blocks /\ b # NoBlock
  BY <1>2, BlocksAssumption
<1>4. PICK c \in Seq(Blocks) : c = <<>> /\ cache' = [cache EXCEPT ![w] = c]
  BY <1>1, NoneListed DEF MemoryOK, HandsOK
<1>5. HandsOK' /\ Owned' = [Owned EXCEPT ![w] = (IF b = NoBlock THEN {} ELSE {b}) \cup Range(c)]
  <2>1. b \in Blocks \cup {NoBlock} /\ \A v \in Workers : k'[v] = k[v]
    BY <1>1, <1>3
  <2>2. HandsMove(w, b, c)
    BY <1>1, <1>2, <1>4, <2>1 DEF HandsMove
  <2> QED
    BY <2>2, HandsStep
<1>6. PICK next : Owned' = next
  OBVIOUS
<1>7. next[w] = {b} /\ \A v \in Workers : v # w => next[v] = Owned[v]
  BY <1>3, <1>4, <1>5, <1>6, NoneListed DEF Owned
<1>8. Owned[w] = {}
  BY <1>1, OwnIs DEF MemoryOK
<1>9. Apart(heap, Owned, lost)'
  <2>1. Apart(heap \cup {b}, next, lost)
    BY <1>2, <1>7, <1>8, ApartGains DEF MemoryOK
  <2> QED
    BY <1>1, <1>2, <1>6, <2>1, ApartNext
<1>10. LostOK' /\ heap' \subseteq Blocks
  BY <1>1, <1>2 DEF MemoryOK, LostOK, Exited, Workers
<1> QED
  BY <1>5, <1>9, <1>10 DEF MemoryOK

(* free gives the block in the hand back to the heap. *)
LEMMA MemoryFrees == ASSUME MemoryOK, NEW w \in Workers, FreeMalloc(w) PROVE MemoryOK'
<1>1. /\ InLoop(w) /\ prog \in Allocators /\ held[w] # NoBlock /\ mtx' = Nobody
      /\ held' = [held EXCEPT ![w] = NoBlock] /\ heap' = heap \ {held[w]} /\ k' = [k EXCEPT ![w] = @ + 1]
      /\ UNCHANGED <<prog, sweep, pc, waiting, lost, cache>>
  BY DEF FreeMalloc, Freeing, NoBlock
<1>2. PICK b : b = held[w]
  OBVIOUS
<1>3. cache[w] = <<>> /\ Owned[w] = {b}
  BY <1>1, <1>2, OwnIs DEF MemoryOK
<1>4. cache' = [cache EXCEPT ![w] = <<>>] /\ \A v \in Workers : v # w => k'[v] = k[v]
  <2>1. cache \in [Workers -> Seq(Blocks)]
    BY DEF MemoryOK, HandsOK
  <2> QED
    BY <1>1, <1>3, <2>1
<1>5. HandsOK' /\ Owned' = [Owned EXCEPT ![w] = (IF NoBlock = NoBlock THEN {} ELSE {NoBlock}) \cup Range(<<>>)]
  <2>1. HandsMove(w, NoBlock, <<>>)
    BY <1>1, <1>4, NoneListed DEF HandsMove
  <2> QED
    BY <2>1, HandsStep
<1>6. PICK next : Owned' = next
  OBVIOUS
<1>7. next[w] = {} /\ \A v \in Workers : v # w => next[v] = Owned[v]
  BY <1>5, <1>6, NoneListed DEF Owned
<1>8. Apart(heap, Owned, lost)'
  <2>1. Apart(heap \ {b}, next, lost)
    BY <1>3, <1>7, ApartGives DEF MemoryOK
  <2> QED
    BY <1>1, <1>2, <1>6, <2>1, ApartNext
<1>9. LostOK' /\ heap' \subseteq Blocks
  BY <1>1 DEF MemoryOK, LostOK, Exited, Workers
<1> QED
  BY <1>5, <1>8, <1>9 DEF MemoryOK

(* A hit of the thread-local cache moves a block from the cache to the     *)
(* hand.                                                                   *)
LEMMA MemoryReuses == ASSUME MemoryOK, NEW w \in Workers, AllocCached(w) PROVE MemoryOK'
<1>1. /\ InLoop(w) /\ prog \in Allocators /\ held[w] = NoBlock /\ cache[w] # <<>> /\ mtx' = Nobody
      /\ held' = [held EXCEPT ![w] = Back(cache[w])] /\ cache' = [cache EXCEPT ![w] = PopBack(@)]
      /\ UNCHANGED <<prog, sweep, pc, waiting, k, lost, heap>>
  BY DEF AllocCached, Allocating, work, NoBlock
<1>2. PICK c \in Seq(Blocks) : c = cache[w] /\ Len(c) = 1
  BY <1>1, OwnIs DEF MemoryOK, HandsOK
<1>3. /\ Range(c) = {c[1]} /\ c[1] \in Blocks /\ Back(cache[w]) = c[1] /\ PopBack(cache[w]) = <<>>
      /\ c[1] # NoBlock
  BY <1>2, OneListed, BlocksAssumption
<1>4. PICK b, d : b = c[1] /\ d = <<>> /\ held' = [held EXCEPT ![w] = b] /\ cache' = [cache EXCEPT ![w] = d]
  BY <1>1, <1>3
<1>5. HandsOK' /\ Owned' = [Owned EXCEPT ![w] = (IF b = NoBlock THEN {} ELSE {b}) \cup Range(d)]
  <2>1. b \in Blocks \cup {NoBlock} /\ d \in Seq(Blocks) /\ \A v \in Workers : k'[v] = k[v]
    BY <1>1, <1>3, <1>4, NoneListed
  <2>2. HandsMove(w, b, d)
    BY <1>1, <1>4, <2>1 DEF HandsMove
  <2> QED
    BY <2>2, HandsStep
<1>6. Owned[w] = {c[1]}
  BY <1>1, <1>2, <1>3, OwnIs DEF MemoryOK
<1>7. Owned' = Owned
  <2>1. (IF b = NoBlock THEN {} ELSE {b}) \cup Range(d) = Owned[w]
    BY <1>3, <1>4, <1>6, NoneListed
  <2> QED
    BY <1>5, <2>1 DEF Owned
<1>8. Apart(heap, Owned, lost)'
  BY <1>1, <1>7, ApartNext DEF MemoryOK
<1>9. LostOK' /\ heap' \subseteq Blocks
  BY <1>1 DEF MemoryOK, LostOK, Exited, Workers
<1> QED
  BY <1>5, <1>8, <1>9 DEF MemoryOK

(* A freed block goes into the thread-local cache. *)
LEMMA MemoryCaches == ASSUME MemoryOK, NEW w \in Workers, FreeCached(w) PROVE MemoryOK'
<1>1. /\ InLoop(w) /\ prog \in Allocators /\ prog = "tls" /\ held[w] # NoBlock /\ mtx' = Nobody
      /\ held' = [held EXCEPT ![w] = NoBlock] /\ cache' = [cache EXCEPT ![w] = Append(@, held[w])]
      /\ k' = [k EXCEPT ![w] = @ + 1]
      /\ UNCHANGED <<prog, sweep, pc, waiting, lost, heap>>
  BY DEF FreeCached, Freeing, NoBlock
<1>2. cache[w] = <<>> /\ Owned[w] = {held[w]} /\ held[w] \in Blocks
  BY <1>1, OwnIs DEF MemoryOK
<1>3. PICK c \in Seq(Blocks) : c = Append(<<>>, held[w]) /\ Len(c) = 1 /\ c[1] = held[w] /\ c # <<>>
  BY <1>2, NoneListed
<1>4. cache' = [cache EXCEPT ![w] = c] /\ \A v \in Workers : v # w => k'[v] = k[v]
  <2>1. cache' = [cache EXCEPT ![w] = Append(cache[w], held[w])] /\ Append(cache[w], held[w]) = c
    BY <1>1, <1>2, <1>3
  <2> QED
    BY <1>1, <2>1
<1>5. HandsOK' /\ Owned' = [Owned EXCEPT ![w] = (IF NoBlock = NoBlock THEN {} ELSE {NoBlock}) \cup Range(c)]
  <2>1. HandsMove(w, NoBlock, c)
    BY <1>1, <1>3, <1>4 DEF HandsMove
  <2> QED
    BY <2>1, HandsStep
<1>6. Owned' = Owned
  <2>1. Range(c) = Owned[w]
    BY <1>2, <1>3, OneListed
  <2> QED
    BY <1>5, <2>1 DEF Owned
<1>7. Apart(heap, Owned, lost)'
  BY <1>1, <1>6, ApartNext DEF MemoryOK
<1>8. LostOK' /\ heap' \subseteq Blocks
  BY <1>1 DEF MemoryOK, LostOK, Exited, Workers
<1> QED
  BY <1>5, <1>7, <1>8 DEF MemoryOK

(* The sums of the sweep are numbers. *)
LEMMA SweepSums ==
  ASSUME CreatedOK
  PROVE  /\ sweep \in Seq(Nat) /\ Sum(sweep) \in Nat /\ Sum(Sweep) \in Nat
         /\ T \in Nat
<1>1. sweep \in Seq(Nat)
  BY MostOK DEF CreatedOK
<1>2. \A s \in Seq(Nat) : Sum(s) \in Nat
  <2> SUFFICES ASSUME NEW s \in Seq(Nat) PROVE Sum(s) \in Nat
    OBVIOUS
  <2>1. PICK f : Partial(f, s) /\ Sum(s) = f[Len(s)]
    BY SumPartial
  <2>2. Len(s) \in 0 .. Len(s)
    OBVIOUS
  <2> QED
    BY <2>1, <2>2 DEF Partial
<1>3. Sweep \in Seq(Nat)
  BY SweepAssumption
<1> QED
  BY <1>1, <1>2, <1>3, ThreadNames

(* The threads that have ended are counted. *)
LEMMA ExitedCount ==
  ASSUME CreatedOK
  PROVE  /\ IsFiniteSet(Exited) /\ Cardinality(Exited) \in Nat /\ Cardinality(Exited) <= T
         /\ Exited \subseteq Created
<1>1. PICK c \in 0 .. T : Created = 0 .. c - 1 /\ Cardinality(Created) = c
  BY CreatedCount
<1>2. T \in Nat
  BY ThreadNames
<1>3. c \in Nat /\ c <= T /\ {} \subseteq (0 .. c - 1) \cup {-1}
  BY <1>1, <1>2
<1>4. IsFiniteSet(0 .. c - 1)
  BY <1>3, AllArrived
<1>5. Exited \in SUBSET Created
  BY DEF Exited, Created
<1>6. IsFiniteSet(Exited) /\ Cardinality(Exited) <= Cardinality(Created)
  BY <1>1, <1>4, <1>5, FS_Subset
<1>7. Cardinality(Exited) \in Nat
  BY <1>6, FS_CardinalityType
<1> QED
  BY <1>1, <1>2, <1>3, <1>5, <1>6, <1>7

(* A thread that ends leaves one block at most. *)
LEMMA MemoryExit == ASSUME ThreadsOK, MemoryOK, NEW w \in Workers, Exit(w) PROVE MemoryOK'
<1>1. /\ pc[w] = "leave" /\ pc' = [pc EXCEPT ![w] = "exit"] /\ cache' = [cache EXCEPT ![w] = <<>>]
      /\ lost' = lost \cup Range(cache[w]) /\ UNCHANGED <<prog, sweep, waiting, k, heap, held, mtx>>
  BY DEF Exit, At, work
<1>2. held[w] = NoBlock
  BY <1>1 DEF MemoryOK, HandsOK, InLoop, At
<1>3. w \in Threads /\ Workers \subseteq Threads /\ Workers' = Workers
  BY ThreadNames DEF ThreadsOK, Workers
<1>4. pc'[w] = "exit" /\ \A v \in Workers : v # w => pc'[v] = pc[v]
  BY <1>1, <1>3 DEF ThreadsOK, CreatedOK
<1>5. /\ cache' \in [Workers -> Seq(Blocks)] /\ cache'[w] = <<>>
      /\ \A v \in Workers : v # w => cache'[v] = cache[v]
  BY <1>1 DEF MemoryOK, HandsOK
<1>6. HandsOK'
  <2>1. \A v \in Workers : v # w => InLoop(v)' = InLoop(v)
    BY <1>1, <1>4, LoopsFixed DEF InLoop, At
  <2>2. \A v \in Workers : held'[v] # NoBlock => InLoop(v)' /\ prog' \in Allocators'
    BY <1>1, <1>2, <2>1 DEF MemoryOK, HandsOK, Allocators
  <2>3. \A v \in Workers : cache'[v] # <<>> =>
           Len(cache'[v]) = 1 /\ prog' = "tls" /\ held'[v] = NoBlock /\ pc'[v] \in {"work", "leave"}
    BY <1>1, <1>4, <1>5 DEF MemoryOK, HandsOK
  <2>4. held' \in [Workers -> Blocks \cup {NoBlock}] /\ mtx' \in Workers \cup {Nobody} /\ Nobody' = Nobody
    BY <1>1 DEF MemoryOK, HandsOK, Nobody
  <2> QED
    BY <1>3, <1>5, <2>2, <2>3, <2>4 DEF HandsOK
<1>7. PICK next, left : Owned' = next /\ left = Owned[w]
  OBVIOUS
<1>8. left = Range(cache[w])
  BY <1>2, <1>7, OwnIs DEF MemoryOK
<1>9. next[w] = {} /\ \A v \in Workers : v # w => next[v] = Owned[v]
  <2>1. Own(w)' = {}
    BY <1>1, <1>2, <1>5, NoneListed DEF Own, Range
  <2>2. \A v \in Workers : v # w => Own(v)' = Own(v)
    BY <1>1, <1>5 DEF Own, Range
  <2>3. Owned' = [v \in Workers |-> Own(v)']
    BY <1>3 DEF Owned
  <2> QED
    BY <1>7, <2>1, <2>2, <2>3 DEF Owned
<1>10. Apart(heap, Owned, lost)'
  <2>1. Apart(heap, next, lost \cup left)
    BY <1>7, <1>9, ApartLeaves DEF MemoryOK
  <2> QED
    BY <1>1, <1>7, <1>8, <2>1, ApartNext
<1>11. /\ IsFiniteSet(left) /\ Cardinality(left) \in Nat /\ Cardinality(left) <= 1
       /\ prog # "tls" => left = {}
  <2>1. cache[w] \in Seq(Blocks)
    BY DEF MemoryOK, HandsOK
  <2>2. CASE cache[w] = <<>>
    <3>1. left = {}
      BY <1>8, <2>2, NoneListed
    <3> QED
      BY <3>1, FS_EmptySet
  <2>3. CASE cache[w] # <<>>
    <3>1. Len(cache[w]) = 1 /\ prog = "tls"
      BY <2>3 DEF MemoryOK, HandsOK
    <3>2. Cardinality(left) = 1 /\ IsFiniteSet(left)
      BY <1>8, <2>1, <3>1, OneListed
    <3> QED
      BY <3>1, <3>2
  <2> QED
    BY <2>2, <2>3
<1>12. LostOK'
  <2>1. IsFiniteSet(lost) /\ Cardinality(lost) \in Nat
    BY FS_CardinalityType DEF MemoryOK, LostOK
  <2>2. /\ IsFiniteSet(lost \cup left)
        /\ Cardinality(lost \cup left) \in Nat /\ Cardinality(lost \cup left) <= Cardinality(lost) + Cardinality(left)
    <3>1. /\ IsFiniteSet(lost \cup left) /\ IsFiniteSet(lost \cap left)
          /\ Cardinality(lost \cup left) = Cardinality(lost) + Cardinality(left) - Cardinality(lost \cap left)
      BY <1>11, <2>1, FS_Union, FS_Intersection
    <3>2. Cardinality(lost \cup left) \in Nat /\ Cardinality(lost \cap left) \in Nat
      BY <3>1, FS_CardinalityType
    <3> QED
      BY <1>11, <2>1, <3>1, <3>2
  <2>3. Exited' = Exited \cup {w} /\ w \notin Exited
    BY <1>1, <1>3, <1>4 DEF Exited
  <2>4. /\ IsFiniteSet(Exited) /\ Cardinality(Exited) \in Nat /\ Sum(sweep) \in Nat /\ Sum(Sweep) \in Nat
    BY ExitedCount, SweepSums DEF ThreadsOK
  <2>5. Cardinality(Exited') = Cardinality(Exited) + 1
    BY <2>3, <2>4, FS_AddElement
  <2>6. PICK a, b, c, d, e : /\ a = Cardinality(lost) /\ b = Cardinality(lost \cup left) /\ c = Cardinality(Exited)
                             /\ d = Sum(Sweep) /\ e = Sum(sweep)
    OBVIOUS
  <2>7. a <= d - e + c /\ b <= a + 1
    BY <1>11, <2>1, <2>2, <2>6 DEF MemoryOK, LostOK
  <2>8. b <= d - e + (c + 1)
    BY <2>1, <2>2, <2>4, <2>6, <2>7
  <2>9. Cardinality(lost') = b /\ Sum(sweep)' = e /\ Sum(Sweep)' = d
    BY <1>1, <1>8, <2>6 DEF Sum
  <2>10. prog' # "tls" => lost' = {}
    BY <1>1, <1>8, <1>11 DEF MemoryOK, LostOK
  <2> QED
    BY <1>1, <1>8, <2>2, <2>5, <2>6, <2>8, <2>9, <2>10 DEF LostOK
<1> QED
  BY <1>1, <1>6, <1>10, <1>12 DEF MemoryOK

(* When main has joined a run's threads, all of them have ended. *)
LEMMA MemoryJoin == ASSUME ThreadsOK, MemoryOK, JoinAll PROVE MemoryOK'
<1>1. /\ MainAt = "join" /\ \A w \in Created : pc[w] = "exit"
      /\ sweep' = Tail(sweep) /\ UNCHANGED <<prog, heap, held, cache, mtx, lost>>
      /\ pc' = [t \in Threads |-> IF t # Main THEN "none" ELSE IF Len(sweep) > 1 THEN "create" ELSE "exit"]
  BY DEF JoinAll, At, MainAt, memory
<1>2. /\ Workers' = Workers /\ Nobody' = Nobody
      /\ Main \notin Workers /\ Workers \subseteq Threads
  BY ThreadNames DEF ThreadsOK, Workers, Nobody
<1>3. \A w \in Workers : held[w] = NoBlock /\ cache[w] = <<>>
  BY <1>1 DEF MemoryOK, HandsOK, InLoop, At, Created
<1>4. HandsOK'
  BY <1>1, <1>2, <1>3 DEF MemoryOK, HandsOK
<1>5. Apart(heap, Owned, lost)'
  <2>1. Owned' = Owned
    BY <1>1 DEF Owned, Own, Workers, Range
  <2> QED
    BY <1>1, <2>1, ApartNext DEF MemoryOK
<1>6. LostOK'
  <2>1. Exited = Created /\ Exited' = {}
    BY <1>1, <1>2 DEF Exited, Created
  <2>2. Cardinality(Exited) = T /\ Cardinality(Exited') = 0
    BY <1>1, <2>1, CreatedCount, FS_EmptySet DEF ThreadsOK
  <2>3. sweep # <<>> /\ T = Head(sweep)
    BY <1>1 DEF ThreadsOK, CreatedOK, T
  <2>4. /\ sweep \in Seq(Nat) /\ Sum(sweep) \in Nat /\ Sum(Sweep) \in Nat /\ T \in Nat
    BY SweepSums DEF ThreadsOK
  <2>5. Sum(Tail(sweep)) \in Nat /\ Sum(sweep) = T + Sum(Tail(sweep))
    BY <2>3, <2>4, SumTail
  <2>6. IsFiniteSet(lost) /\ Cardinality(lost) \in Nat /\ Cardinality(lost) <= Sum(Sweep) - Sum(sweep) + Cardinality(Exited)
    BY FS_CardinalityType DEF MemoryOK, LostOK
  <2>7. Cardinality(lost) <= Sum(Sweep) - Sum(Tail(sweep)) + 0
    BY <2>2, <2>4, <2>5, <2>6
  <2>8. Sum(sweep)' = Sum(Tail(sweep)) /\ Sum(Sweep)' = Sum(Sweep)
    BY <1>1 DEF Sum
  <2> QED
    BY <1>1, <2>2, <2>6, <2>7, <2>8 DEF MemoryOK, LostOK
<1> QED
  BY <1>1, <1>4, <1>5, <1>6 DEF MemoryOK

-----------------------------------------------------------------------------
(* The inductive invariant of the three benchmarks. *)
HarnessInv == ThreadsOK /\ LoopsOK /\ MemoryOK

(* A step of thread t to p that is outside the loops and ends no thread. *)
Passes(t, p) ==
    /\ t \in Threads /\ p \in Places \ {"none", "exit"}
    /\ pc' = [pc EXCEPT ![t] = p] /\ waiting' \subseteq waiting \cup {t}
    /\ UNCHANGED <<prog, sweep, k, hashed, counters, heap, held, cache, mtx, lost>>
    /\ Gathering' => Gathering
    /\ t # Main => \/ pc[t] \in {"none", "start"} /\ p \in {"start", "work"}
                   \/ pc[t] = "work" /\ p = "leave" /\ k[t] = LoopLength(t)

(* A thread that passes from place to place without work keeps the         *)
(* invariant.                                                              *)
LEMMA HarnessPasses ==
  ASSUME HarnessInv, ThreadsOK', NEW t, NEW p, Passes(t, p)
  PROVE  HarnessInv'
<1>1. /\ pc'[t] = p /\ p \notin {"none", "exit"} /\ \A u \in Workers : u # t => pc'[u] = pc[u]
      /\ Workers' = Workers /\ Main \notin Workers
  BY ThreadNames DEF Passes, HarnessInv, ThreadsOK, CreatedOK, Workers
<1>2. Created \subseteq Created'
  BY <1>1 DEF Created
<1>3. \A w \in Created' : pc'[w] \in {"leave", "exit"} => pc[w] \in {"leave", "exit"} \/ k[w] = LoopLength(w)
  BY <1>1 DEF Created, Passes
<1>4. LoopsOK'
  BY <1>2, <1>3, LoopsKept DEF HarnessInv, ThreadsOK, Passes
<1>5. \A w \in Workers : held[w] # NoBlock => InLoop(w)'
  <2> SUFFICES ASSUME NEW w \in Workers, held[w] # NoBlock PROVE InLoop(w)'
    OBVIOUS
  <2>1. pc[w] = "work" /\ w \notin waiting /\ k[w] < LoopLength(w) /\ k[w] \in Nat
    BY DEF HarnessInv, MemoryOK, HandsOK, InLoop, At, LoopsOK
  <2>2. w # t
    BY <1>1, <2>1 DEF Passes
  <2>3. pc'[w] = "work" /\ w \notin waiting' /\ k'[w] < LoopLength(w)'
    BY <1>1, <2>1, <2>2, LoopsFixed DEF Passes
  <2> QED
    BY <2>3 DEF InLoop, At
<1>6. \A w \in Workers : cache[w] # <<>> => pc'[w] \in {"work", "leave"}
  BY <1>1 DEF HarnessInv, MemoryOK, HandsOK, Passes
<1>7. Exited' = Exited
  BY <1>1 DEF Exited, Passes
<1>8. MemoryOK'
  <2>1. mtx' \in Workers \cup {Nobody}
    BY DEF HarnessInv, MemoryOK, HandsOK, Passes
  <2> QED
    BY <1>5, <1>6, <1>7, <2>1, MemoryKept DEF HarnessInv, Passes
<1> QED
  BY <1>4, <1>8 DEF HarnessInv

(* The steps of main. *)
LEMMA HarnessMain == ASSUME HarnessInv, MainStep PROVE HarnessInv'
<1> USE DEF HarnessInv
<1>m. Main \in Threads /\ Main \in Created \cup {Main}
  BY ThreadNames DEF ThreadsOK
<1>1. CASE CreateThread
  <2>1. PICK c \in 0 .. T : Created = 0 .. c - 1 /\ Cardinality(Created) = c
    BY CreatedCount DEF ThreadsOK
  <2>2. /\ MainAt = "create" /\ c < T /\ pc' = [pc EXCEPT ![c] = "start"]
        /\ UNCHANGED <<prog, sweep, waiting, k, hashed, counters, heap, held, cache, mtx, lost>>
    BY <1>1, <2>1 DEF CreateThread, At, MainAt, work, memory
  <2>3. c \in Workers /\ c \in Threads /\ c \notin Created
    BY <2>1, <2>2, ThreadNames, MostOK DEF ThreadsOK
  <2>4. Gathering /\ pc[c] = "none"
    BY <2>2, <2>3 DEF Gathering, Created
  <2>5. Passes(c, "start")
    BY <2>2, <2>3, <2>4 DEF Passes, Places
  <2> QED
    BY <1>1, <2>5, ThreadsCreate, HarnessPasses
<1>2. CASE StartTimer
  <2>1. Passes(Main, "release")
    BY <1>m, <1>2 DEF StartTimer, At, Passes, Places, Gathering, MainAt, work, memory
  <2> QED
    BY <1>2, <2>1, ThreadsStart, HarnessPasses
<1>3. CASE ReadTimer
  <2>1. MainAt' = "join" /\ "join" \in Places \ {"none", "exit"}
    BY <1>m, <1>3, Moved DEF ThreadsOK, ReadTimer, Places
  <2>2. Passes(Main, "join")
    BY <1>m, <1>3, <2>1 DEF ReadTimer, At, Passes, Gathering, work, memory
  <2> QED
    BY <1>3, <2>2, ThreadsRead, HarnessPasses
<1>4. CASE ArriveAndWait(Main, "release", "finish")
  <2>1. Passes(Main, "finish")
    BY <1>m, <1>4 DEF ArriveAndWait, At, Passes, Places, Gathering, MainAt, work, memory
  <2> QED
    BY <1>4, <2>1, ThreadsRelease, HarnessPasses
<1>5. CASE ArriveAndWait(Main, "finish", "read")
  <2>1. MainAt' = "read" /\ "read" \in Places \ {"none", "exit"}
    BY <1>m, <1>5, Moved DEF ThreadsOK, ArriveAndWait, Places
  <2>2. Passes(Main, "read")
    BY <1>m, <1>5, <2>1 DEF ArriveAndWait, Passes, Gathering, work, memory
  <2> QED
    BY <1>5, <2>2, ThreadsFinish, HarnessPasses
<1>6. CASE JoinAll
  <2>1. Created' = {}
    BY <1>6, ThreadNames DEF ThreadsOK, JoinAll, Created, Workers
  <2> QED
    BY <1>6, <2>1, ThreadsJoin, LoopsJoin, MemoryJoin
<1> QED
  BY <1>1, <1>2, <1>3, <1>4, <1>5, <1>6 DEF MainStep

(* The steps of a worker. *)
LEMMA HarnessArrives ==
  ASSUME HarnessInv, NEW w \in Workers,
         ArriveAndWait(w, "start", "work") \/ (ArriveAndWait(w, "work", "leave") /\ k[w] = LoopLength(w))
  PROVE  HarnessInv'
<1> USE DEF HarnessInv
<1>1. w \in Threads /\ w # Main
  BY ThreadNames DEF ThreadsOK
<1>2. CASE ArriveAndWait(w, "start", "work")
  <2>1. pc[w] = "start" /\ w \in Created
    BY <1>2 DEF ArriveAndWait, At, Created
  <2>2. Gathering
    BY <2>1, Phases
  <2>3. Passes(w, "work")
    BY <1>1, <1>2, <2>1, <2>2 DEF ArriveAndWait, Passes, Places, work, memory
  <2> QED
    BY <1>2, <2>1, <2>3, ThreadsBegin, HarnessPasses
<1>3. CASE ArriveAndWait(w, "work", "leave") /\ k[w] = LoopLength(w)
  <2>1. pc[w] = "work" /\ w \in Created
    BY <1>3 DEF ArriveAndWait, At, Created
  <2>2. "leave" \in Places \ {"none", "exit"} /\ w \in Created \cup {Main}
    BY <2>1 DEF Places
  <2>3. /\ MainAt' = MainAt /\ w \notin waiting
        /\ \/ waiting' = waiting \cup {w} /\ MainWaits' = MainWaits
           \/ waiting \cup {w} = Created \cup {Main} /\ waiting' = {} /\ ~MainWaits'
    BY <1>1, <1>3, <2>2, Arrives
  <2>4. Working
    BY <2>1, <2>3, Phases
  <2>5. ~Gathering'
    BY <2>3, <2>4 DEF Gathering, Working
  <2>6. Passes(w, "leave")
    BY <1>1, <1>3, <2>1, <2>2, <2>5 DEF ArriveAndWait, Passes, work, memory
  <2> QED
    BY <1>3, <2>1, <2>6, ThreadsEnd, HarnessPasses
<1> QED
  BY <1>2, <1>3

(* The steps of a benchmark's loop body. *)
LEMMA HarnessKernel == ASSUME HarnessInv, NEW w \in Workers, Kernel(w) PROVE HarnessInv'
<1> USE DEF HarnessInv
<1>1. UNCHANGED <<prog, pc, waiting, sweep, timing>> /\ InLoop(w)
  BY DEF Kernel, HashItem, Increment, Lock, AllocMalloc, AllocCached, Allocating, FreeMalloc, FreeCached, Freeing
<1>2. ThreadsOK'
  BY <1>1, ThreadsSame
<1>3. Gathering' = Gathering /\ Created' = Created /\ Exited' = Exited
  BY <1>1 DEF Gathering, MainAt, MainWaits, Main, Created, Workers, Exited
<1>4. CASE HashItem(w) \/ Increment(w)
  <2>1. UNCHANGED <<prog, sweep, heap, held, cache, mtx, lost>> /\ prog \in {"scaling", "counters"}
    BY <1>4 DEF HashItem, Increment, memory
  <2>2. MemoryOK'
    <3>1. \A v \in Workers : held[v] = NoBlock
      BY <2>1 DEF MemoryOK, HandsOK, Allocators
    <3>2. mtx' \in Workers \cup {Nobody} /\ \A v \in Workers : cache[v] # <<>> => pc'[v] \in {"work", "leave"}
      BY <1>1, <2>1 DEF MemoryOK, HandsOK
    <3> QED
      BY <1>3, <2>1, <3>1, <3>2, MemoryKept
  <2>3. HashItem(w) => LoopsOK'
    BY LoopsHash
  <2>4. Increment(w) => LoopsOK'
    <3> SUFFICES ASSUME Increment(w) PROVE LoopsOK'
      OBVIOUS
    <3>1. /\ prog = "counters" /\ UNCHANGED hashed /\ k' = [k EXCEPT ![w] = @ + 1]
          /\ counters' = [counters EXCEPT ![w] = @ + 1]
      BY DEF Increment
    <3>2. counters' \in [Workers -> Nat] /\ prog # "scaling"
      BY <3>1 DEF LoopsOK
    <3> QED
      BY <1>1, <3>1, <3>2, LoopsPassed
  <2> QED
    BY <1>2, <1>4, <2>2, <2>3, <2>4
<1>5. CASE Lock(w) \/ AllocMalloc(w) \/ AllocCached(w)
  <2>1. UNCHANGED <<prog, sweep, k, hashed, counters>>
    BY <1>5 DEF Lock, AllocMalloc, AllocCached, Allocating, work
  <2>2. LoopsOK'
    <3>1. /\ CreatedOK' /\ (Gathering' => Gathering) /\ Created \subseteq Created'
          /\ \A v \in Created' : pc'[v] \in {"leave", "exit"} => pc[v] \in {"leave", "exit"} \/ k[v] = LoopLength(v)
      BY <1>1, <1>2, <1>3 DEF ThreadsOK
    <3> QED
      BY <2>1, <3>1, LoopsKept
  <2>3. Lock(w) => MemoryOK'
    <3> SUFFICES ASSUME Lock(w) PROVE MemoryOK'
      OBVIOUS
    <3>1. UNCHANGED <<heap, held, cache, lost>> /\ mtx' \in Workers \cup {Nobody}
      BY DEF Lock
    <3>2. \A v \in Workers : InLoop(v)' = InLoop(v)
      BY <1>1, <2>1, LoopsFixed DEF InLoop, At
    <3>3. /\ \A v \in Workers : held[v] # NoBlock => InLoop(v)'
          /\ \A v \in Workers : cache[v] # <<>> => pc'[v] \in {"work", "leave"}
      BY <1>1, <3>2 DEF MemoryOK, HandsOK
    <3> QED
      BY <1>3, <2>1, <3>1, <3>3, MemoryKept
  <2> QED
    BY <1>2, <1>5, <2>2, <2>3, MemoryAllocates, MemoryReuses
<1>6. CASE FreeMalloc(w) \/ FreeCached(w)
  <2>1. /\ prog \in Allocators /\ UNCHANGED <<hashed, counters>> /\ k' = [k EXCEPT ![w] = @ + 1]
    BY <1>6 DEF FreeMalloc, FreeCached, Freeing
  <2>2. prog # "scaling" /\ prog # "counters" /\ counters' \in [Workers -> Nat]
    BY <2>1 DEF Allocators, LoopsOK
  <2>3. LoopsOK'
    BY <1>1, <2>1, <2>2, LoopsPassed
  <2> QED
    BY <1>2, <1>6, <2>3, MemoryFrees, MemoryCaches
<1> QED
  BY <1>4, <1>5, <1>6 DEF Kernel

(* A worker ends, and its thread-local cache with it. *)
LEMMA HarnessExit == ASSUME HarnessInv, NEW w \in Workers, Exit(w) PROVE HarnessInv'
<1> USE DEF HarnessInv
<1>1. /\ pc[w] = "leave" /\ w \notin waiting /\ pc' = [pc EXCEPT ![w] = "exit"]
      /\ UNCHANGED <<prog, sweep, waiting, k, hashed, counters>>
  BY DEF Exit, At, work
<1>2. w \in Created /\ w \in Threads /\ w # Main /\ "exit" \in Places
  BY <1>1, ThreadNames DEF ThreadsOK, Created, Places
<1>3. ThreadsOK' /\ MemoryOK'
  BY <1>2, ThreadsExit, MemoryExit
<1>4. Created' = Created /\ MainAt' = MainAt /\ \A u \in Threads : u # w => pc'[u] = pc[u]
  BY <1>1, <1>2, Moved DEF ThreadsOK
<1>5. Gathering' = Gathering
  BY <1>1, <1>4 DEF Gathering, MainWaits, Main
<1>6. \A v \in Created : v \in Threads
  BY ThreadNames DEF ThreadsOK
<1>7. LoopsOK'
  <2>1. \A v \in Created' : pc'[v] \in {"leave", "exit"} => pc[v] \in {"leave", "exit"} \/ k[v] = LoopLength(v)
    BY <1>1, <1>4, <1>6
  <2> QED
    BY <1>1, <1>3, <1>4, <1>5, <2>1, LoopsKept DEF ThreadsOK
<1> QED
  BY <1>3, <1>7
(* A step of the harness preserves the invariant. *)
LEMMA HarnessNext == ASSUME HarnessInv, Next PROVE HarnessInv'
<1>1. CASE MainStep
  BY <1>1, HarnessMain
<1>2. CASE \E w \in Workers : WorkerStep(w)
  <2>1. PICK w \in Workers : WorkerStep(w)
    BY <1>2
  <2> QED
    BY <2>1, HarnessArrives, HarnessKernel, HarnessExit DEF WorkerStep
<1> QED
  BY <1>1, <1>2 DEF Next

(* So does a step of another program. *)
LEMMA HarnessSame == ASSUME HarnessInv, UNCHANGED vars PROVE HarnessInv'
<1>1. UNCHANGED <<prog, sweep, pc, waiting, timing, k, hashed, counters, heap, held, cache, mtx, lost>>
  BY DEF vars, work, memory
<1>2. ThreadsOK'
  BY <1>1, ThreadsSame DEF HarnessInv
<1>3. Gathering' = Gathering /\ Created' = Created /\ Exited' = Exited
  BY <1>1 DEF Gathering, MainAt, MainWaits, Main, Created, Workers, Exited
<1>4. LoopsOK'
  <2>1. /\ CreatedOK' /\ (Gathering' => Gathering) /\ Created \subseteq Created'
        /\ \A v \in Created' : pc'[v] \in {"leave", "exit"} => pc[v] \in {"leave", "exit"} \/ k[v] = LoopLength(v)
    BY <1>1, <1>2, <1>3 DEF ThreadsOK
  <2> QED
    BY <1>1, <2>1, LoopsKept DEF HarnessInv
<1>5. MemoryOK'
  <2>1. \A v \in Workers : LoopLength(v)' = LoopLength(v)
    BY <1>1, LoopsFixed
  <2>2. \A v \in Workers : InLoop(v)' = InLoop(v)
    BY <1>1, <2>1, Zenon DEF InLoop, At
  <2>3. /\ \A v \in Workers : held[v] # NoBlock => InLoop(v)'
        /\ \A v \in Workers : cache[v] # <<>> => pc'[v] \in {"work", "leave"}
        /\ mtx' \in Workers \cup {Nobody}
    BY <1>1, <2>2 DEF HarnessInv, MemoryOK, HandsOK
  <2> QED
    BY <1>1, <1>3, <2>3, MemoryKept DEF HarnessInv
<1> QED
  BY <1>2, <1>4, <1>5 DEF HarnessInv

(* A benchmark begins with no thread; the other programs have an empty     *)
(* sweep.                                                                  *)
LEMMA HarnessInit ==
  ASSUME NEW counts, counts = Sweep \/ counts = <<>>, Begin(counts)
  PROVE  HarnessInv
<1>1. counts = Sweep \/ counts = <<>>
  OBVIOUS
<1>2. /\ sweep = counts
      /\ pc = [t \in Threads |-> IF t # Main THEN "none" ELSE IF counts = <<>> THEN "exit" ELSE "create"]
      /\ waiting = {} /\ timing = FALSE
      /\ k = [w \in Workers |-> 0] /\ hashed = [x \in 0 .. Items - 1 |-> 0] /\ counters = [w \in Workers |-> 0]
      /\ heap = {} /\ held = [w \in Workers |-> NoBlock] /\ cache = [w \in Workers |-> <<>>]
      /\ mtx = Nobody /\ lost = {}
  BY DEF Begin
<1>3. /\ Threads = Workers \cup {Main} /\ Main \notin Workers
  BY MostOK DEF Threads, Workers, Main, Most
<1>4. /\ pc \in [Threads -> Places] /\ MainAt = (IF counts = <<>> THEN "exit" ELSE "create")
      /\ \A w \in Workers : pc[w] = "none"
  BY <1>2, <1>3 DEF MainAt, Places
<1>5. Created = {} /\ Exited = {}
  BY <1>4 DEF Created, Exited
<1>6. counts \in Seq(1 .. Most) /\ (counts # <<>> => Head(counts) \in 1 .. Most)
  <2>1. counts \in Seq(1 .. Most)
    <3>1. <<>> \in Seq(1 .. Most)
      OBVIOUS
    <3> QED
      BY <1>1, <3>1, MostOK, Zenon
  <2> QED
    BY <2>1, PopAt, Zenon
<1>7. T \in Nat /\ (counts = <<>> => T = 0)
  BY <1>2, <1>6, MostOK DEF T
<1>8. CreatedOK
  <2>1. timing = (MainAt \in {"release", "finish", "read"})
    <3>1. (MainAt \in {"release", "finish", "read"}) = FALSE
      BY <1>4
    <3>2. timing = FALSE
      BY <1>2
    <3> QED
      BY <3>1, <3>2, Zenon
  <2>2. \E c \in 0 .. T : Created = 0 .. c - 1 /\ (MainAt # "create" => c = T)
    BY <1>4, <1>5, <1>7
  <2> QED
    BY <1>2, <1>4, <1>6, <2>1, <2>2 DEF CreatedOK
<1>9. BarrierOK
  BY <1>2, <1>4, <1>5 DEF BarrierOK, MainWaits, Gathering, Working, Leaving
<1>10. LoopsOK
  <2>1. hashed = [x \in 0 .. Items - 1 |-> IF prog = "scaling" /\ \E w \in Created : x \in Hashed(w) THEN 1 ELSE 0]
    BY <1>2, <1>5
  <2> QED
    BY <1>2, <1>5, <2>1 DEF LoopsOK
<1>11. HandsOK
  BY <1>2 DEF HandsOK
<1>12. Apart(heap, Owned, lost)
  <2>1. \A w \in Workers : Owned[w] = {}
    BY <1>2, <1>11, OwnIs
  <2> QED
    BY <1>2, <2>1 DEF Apart
<1>13. LostOK
  <2>1. Sum(sweep) \in Nat /\ Sum(Sweep) \in Nat
    BY <1>8, SweepSums
  <2>2. sweep = Sweep \/ Sum(sweep) = 0
    BY <1>1, <1>2, SumEmpty
  <2>3. IsFiniteSet(lost) /\ Cardinality(lost) = 0 /\ Cardinality(Exited) = 0
    BY <1>2, <1>5, FS_EmptySet
  <2> QED
    BY <1>2, <2>1, <2>2, <2>3 DEF LostOK
<1> QED
  BY <1>2, <1>8, <1>9, <1>10, <1>11, <1>12, <1>13 DEF HarnessInv, ThreadsOK, MemoryOK

(* What the invariant says of the types. *)
LEMMA HarnessTypes == ASSUME HarnessInv PROVE TypeOK
<1>1. sweep \in Seq(Nat \ {0})
  BY MostOK DEF HarnessInv, ThreadsOK, CreatedOK
<1>2. waiting \subseteq Threads
  BY ThreadNames DEF HarnessInv, ThreadsOK, BarrierOK
<1>3. timing \in BOOLEAN
  <2>1. timing = (MainAt \in {"release", "finish", "read"})
    BY DEF HarnessInv, ThreadsOK, CreatedOK
  <2>2. (MainAt \in {"release", "finish", "read"}) \in BOOLEAN
    OBVIOUS
  <2> QED
    BY <2>1, <2>2, Zenon
<1>4. pc \in [Threads -> {"none", "create", "release", "finish", "read", "join", "start", "work", "leave", "exit"}]
  BY DEF HarnessInv, ThreadsOK, CreatedOK, Places
<1>5. k \in [Workers -> Nat] /\ hashed \in [0 .. Items - 1 -> Nat] /\ counters \in [Workers -> Nat]
  BY DEF HarnessInv, LoopsOK
<1>6. /\ heap \subseteq Blocks /\ lost \subseteq heap /\ held \in [Workers -> Blocks \cup {NoBlock}]
      /\ cache \in [Workers -> Seq(Blocks)] /\ mtx \in Workers \cup {Nobody}
  BY DEF HarnessInv, MemoryOK, HandsOK, Apart, NoBlock
<1> QED
  BY <1>1, <1>2, <1>3, <1>4, <1>5, <1>6 DEF TypeOK

(* The invariant implies WorkTimed. *)
LEMMA HarnessTimed == ASSUME HarnessInv PROVE WorkTimed
<1> USE DEF HarnessInv
<1>1. \A w \in Workers : At(w, "work") => timing
  <2> SUFFICES ASSUME NEW w \in Workers, At(w, "work") PROVE timing
    OBVIOUS
  <2>1. w \in Created /\ pc[w] = "work" /\ w \notin waiting
    BY DEF At, Created
  <2>2. Working
    BY <2>1, Phases
  <2>3. MainAt \in {"release", "finish", "read"}
    BY <2>2 DEF Working
  <2> QED
    BY <2>3, Zenon DEF ThreadsOK, CreatedOK
<1>2. ASSUME Leaving PROVE \A w \in Created : k[w] = LoopLength(w)
  BY <1>2 DEF ThreadsOK, BarrierOK, LoopsOK
<1>3. At(Main, "read") \/ At(Main, "join") => \A w \in Created : k[w] = LoopLength(w)
  BY <1>2 DEF At, Leaving, MainAt, MainWaits
<1>4. DOMAIN hashed = 0 .. Items - 1 /\ \A x \in 0 .. Items - 1 : hashed[x] <= 1
  BY DEF LoopsOK
<1>5. ASSUME pc[Main] = "join"
      PROVE  /\ prog = "scaling" => \A x \in 0 .. Items - 1 : hashed[x] = 1
             /\ prog = "counters" => \A w \in Created : counters[w] = Ops
  <2>1. MainAt = "join" /\ \A w \in Created : k[w] = LoopLength(w)
    BY <1>2, <1>5 DEF Leaving, MainAt
  <2>2. Created = 0 .. T - 1 /\ T \in Nat \ {0} /\ \A w \in Created : w \in Workers
    <3>1. T \in Nat \ {0} /\ \A w \in Created : w \in Workers
      BY <2>1, ThreadNames DEF ThreadsOK, CreatedOK
    <3> QED
      BY <2>1, <3>1 DEF ThreadsOK, CreatedOK
  <2>3. ASSUME prog = "scaling", NEW x \in 0 .. Items - 1 PROVE hashed[x] = 1
    <3>1. PICK w \in 0 .. T - 1 : x \in SliceStart(w) .. SliceStart(w) + SliceCount(w) - 1
      BY <2>2, Slices
    <3>2. w \in Created /\ k[w] = SliceCount(w)
      BY <2>1, <2>2, <2>3 DEF LoopLength
    <3>3. x \in Hashed(w)
      BY <3>1, <3>2 DEF Hashed
    <3> QED
      BY <2>3, <3>2, <3>3 DEF LoopsOK
  <2>4. ASSUME prog = "counters", NEW w \in Created PROVE counters[w] = Ops
    BY <2>1, <2>2, <2>4 DEF LoopsOK, LoopLength
  <2> QED
    BY <2>3, <2>4
<1> QED
  BY <1>1, <1>3, <1>4, <1>5, HarnessTypes DEF WorkTimed

(* The invariant implies BlocksAccounted. *)
LEMMA HarnessAccounted == ASSUME HarnessInv PROVE BlocksAccounted
<1> DEFINE hands == {w \in Workers : held[w] # NoBlock}
           Cached(w) == Range(cache[w])
<1>1. \A w \in Workers : /\ Owned[w] = Own(w)
                         /\ held[w] = NoBlock => Own(w) = Cached(w)
                         /\ held[w] # NoBlock => Cached(w) = {} /\ Own(w) = {held[w]}
                         /\ Cached(w) \subseteq Own(w)
  BY OwnIs, NoneListed DEF HarnessInv, MemoryOK
<1> HIDE DEF Cached
<1>2. /\ lost \subseteq heap
      /\ \A w \in Workers : Own(w) \subseteq heap \ lost
      /\ \A v, w \in Workers : v # w => Own(v) \cap Own(w) = {}
      /\ \A b \in heap \ lost : \E w \in Workers : b \in Own(w)
  <2>1. Apart(heap, Owned, lost)
    BY DEF HarnessInv, MemoryOK
  <2>2. \A w \in Workers : Owned[w] = Own(w)
    BY <1>1
  <2>3. lost \subseteq heap /\ \A w \in Workers : Own(w) \subseteq heap \ lost
    BY <2>1, <2>2 DEF Apart
  <2>4. \A v, w \in Workers : v # w => Own(v) \cap Own(w) = {}
    BY <2>1, <2>2, Zenon DEF Apart
  <2>5. \A b \in heap \ lost : \E w \in Workers : b \in Own(w)
    BY <2>1, <2>2 DEF Apart
  <2> QED
    BY <2>3, <2>4, <2>5
<1>3. NoBlock \notin heap
  BY BlocksAssumption DEF HarnessInv, MemoryOK
<1>4. \A v, w \in Workers : v # w => Cached(v) \cap Cached(w) = {} /\ (v \in hands => held[v] # held[w])
  BY <1>1, <1>2
<1>5. \A v, w \in Workers : held[v] \notin Cached(w) \cup lost /\ Cached(w) \cap lost = {}
  BY <1>1, <1>2, <1>3
<1>6. heap = {held[w] : w \in hands} \cup (UNION {Cached(w) : w \in Workers}) \cup lost
  <2>1. ASSUME NEW b \in heap PROVE b \in {held[w] : w \in hands} \cup (UNION {Cached(w) : w \in Workers}) \cup lost
    <3> SUFFICES ASSUME b \notin lost PROVE b \in {held[w] : w \in hands} \/ \E w \in Workers : b \in Cached(w)
      OBVIOUS
    <3>1. PICK w \in Workers : b \in Own(w)
      BY <1>2
    <3> QED
      BY <1>1, <3>1
  <2>2. \A w \in hands : held[w] \in heap
    BY <1>1, <1>2
  <2>3. \A w \in Workers : Cached(w) \subseteq heap
    BY <1>1, <1>2
  <2> QED
    BY <1>2, <2>1, <2>2, <2>3
<1>7. Cardinality(lost) <= Sum(Sweep) - Sum(sweep) + T
  <2>1. IsFiniteSet(lost) /\ Cardinality(lost) \in Nat /\ Cardinality(lost) <= Sum(Sweep) - Sum(sweep) + Cardinality(Exited)
    BY FS_CardinalityType DEF HarnessInv, MemoryOK, LostOK
  <2>2. /\ Cardinality(Exited) \in Nat /\ Cardinality(Exited) <= T
        /\ Sum(sweep) \in Nat /\ Sum(Sweep) \in Nat /\ T \in Nat
    BY ExitedCount, SweepSums DEF HarnessInv, ThreadsOK
  <2> QED
    BY <2>1, <2>2
<1>8. prog # "tls" => lost = {}
  BY DEF HarnessInv, MemoryOK, LostOK
<1> QED
  BY <1>4, <1>5, <1>6, <1>7, <1>8, Zenon DEF BlocksAccounted, Cached, NoBlock
=============================================================================
