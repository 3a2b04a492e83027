--------------------------- MODULE SlabCacheProofs ---------------------------
(***************************************************************************)
(* Proofs about SlabCache for every number of threads and caches, every    *)
(* slab and magazine size and every number of slabs, for object types      *)
(* whose constructor leaves the first word alone.                          *)
(***************************************************************************)
EXTENDS SlabCache, ListLemmas, FiniteSetTheorems, TLAPS

-----------------------------------------------------------------------------
(* Free lists. *)

(* The links nx lead from the pointer p along the slots of q to nullptr.    *)
Linked(q, p, nx) ==
    /\ q \in Seq(Slots)
    /\ p = IF q = <<>> THEN Null ELSE q[1]
    /\ \A i \in 1 .. Len(q) : nx[q[i]] = IF i = Len(q) THEN Null ELSE q[i + 1]

(* Walking such a list meets exactly its slots and ends at nullptr.         *)
LEMMA WalkLinked ==
  ASSUME NEW q, NEW p, NEW nx, Linked(q, p, nx), Len(q) <= PerSlab
  PROVE  Walk(p, nx) = Append(q, Null)
<1> DEFINE n == Len(q)
           z == Append(q, Null)
           S == Slots \cup NotSlots
           End(k) == IF k <= n THEN k + 1 ELSE n + 1
           g == [k \in 0 .. PerSlab |-> [i \in 1 .. End(k) |-> z[i]]]
           Step(f, k) == IF k = 0 THEN <<p>>
                         ELSE IF Back(f[k - 1]) \in Slots THEN Append(f[k - 1], nx[Back(f[k - 1])])
                         ELSE f[k - 1]
           w == CHOOSE f : f = [k \in 0 .. PerSlab |-> Step(f, k)]
<1>1. q \in Seq(Slots) /\ q \in Seq(S) /\ n \in Nat /\ n <= PerSlab /\ PerSlab \in Nat /\ Null \in S
  BY SlabCacheAssumption DEF Linked, NotSlots
<1>2. /\ z \in Seq(S) /\ Len(z) = n + 1 /\ z[n + 1] = Null
      /\ \A i \in 1 .. n : z[i] = q[i] /\ z[i] \in Slots
      /\ Null \notin Slots
  BY <1>1, SlabCacheAssumption, AppendAt DEF NotSlots
<1>3. z[1] = p /\ \A i \in 1 .. n : nx[z[i]] = z[i + 1]
  BY <1>1, <1>2 DEF Linked
<1> HIDE DEF z, S, n
<1>4. ASSUME NEW k \in 0 .. PerSlab
      PROVE  /\ End(k) \in 1 .. n + 1 /\ g[k] \in Seq(S) /\ Len(g[k]) = End(k)
             /\ \A i \in 1 .. End(k) : g[k][i] = z[i]
             /\ Back(g[k]) = z[End(k)]
  <2>1. End(k) \in 1 .. n + 1
    BY <1>1
  <2>2. g[k] = [i \in 1 .. End(k) |-> z[i]]
    OBVIOUS
  <2> HIDE DEF g, End
  <2>3. \A i \in 1 .. End(k) : z[i] \in S
    BY <1>1, <1>2, <2>1
  <2>4. g[k] \in Seq(S) /\ Len(g[k]) = End(k)
    BY <2>1, <2>2, <2>3
  <2> QED
    BY <2>1, <2>2, <2>4 DEF Back
<1>5. ASSUME NEW k \in 0 .. PerSlab PROVE g[k] = Step(g, k)
  <2> HIDE DEF g
  <2>1. CASE k = 0
    <3>1. End(0) = 1 /\ 0 \in 0 .. PerSlab
      BY <1>1
    <3> HIDE DEF End
    <3>2. g[0] \in Seq(S) /\ Len(g[0]) = 1 /\ \A i \in 1 .. 1 : g[0][i] = z[i]
      BY <1>4, <3>1
    <3>3. g[0][1] = p
      BY <1>3, <3>2
    <3> QED
      BY <2>1, <3>2, <3>3
  <2>2. CASE k # 0 /\ k <= n
    <3>1. k - 1 \in 0 .. PerSlab /\ End(k - 1) = k /\ End(k) = k + 1 /\ k \in 1 .. n /\ k + 1 \in 1 .. n + 1
      BY <1>1, <2>2
    <3> HIDE DEF End
    <3>2. Back(g[k - 1]) \in Slots /\ nx[Back(g[k - 1])] = z[k + 1] /\ z[k + 1] \in S
      BY <1>2, <1>3, <1>4, <3>1
    <3>3. /\ g[k - 1] \in Seq(S) /\ Len(g[k - 1]) = k /\ \A i \in 1 .. k : g[k - 1][i] = z[i]
          /\ g[k] \in Seq(S) /\ Len(g[k]) = k + 1 /\ \A i \in 1 .. k + 1 : g[k][i] = z[i]
      BY <1>4, <3>1
    <3> DEFINE a == Append(g[k - 1], z[k + 1])
    <3>4. a \in Seq(S) /\ Len(a) = k + 1 /\ a[k + 1] = z[k + 1] /\ \A i \in 1 .. k : a[i] = z[i]
      BY <3>2, <3>3, AppendAt
    <3> HIDE DEF a
    <3>5. ASSUME NEW i \in 1 .. k + 1 PROVE a[i] = g[k][i]
      <4>1. i \in 1 .. k \/ i = k + 1
        BY <1>1
      <4> QED
        BY <3>3, <3>4, <4>1, Zenon
    <3>6. a = g[k]
      BY <3>3, <3>4, <3>5, SameList
    <3> QED
      BY <2>2, <3>2, <3>6 DEF a
  <2>3. CASE k > n
    <3>1. k - 1 \in 0 .. PerSlab /\ End(k - 1) = n + 1 /\ End(k) = n + 1
      BY <1>1, <2>3
    <3> HIDE DEF End
    <3>2. /\ Back(g[k - 1]) = Null
          /\ g[k - 1] \in Seq(S) /\ Len(g[k - 1]) = n + 1 /\ \A i \in 1 .. n + 1 : g[k - 1][i] = z[i]
          /\ g[k] \in Seq(S) /\ Len(g[k]) = n + 1 /\ \A i \in 1 .. n + 1 : g[k][i] = z[i]
      BY <1>2, <1>4, <3>1
    <3>3. g[k] = g[k - 1]
      BY <3>2, SameList
    <3> QED
      BY <1>1, <1>2, <2>3, <3>2, <3>3
  <2> QED
    BY <1>1, <2>1, <2>2, <2>3
<1>6. g = [k \in 0 .. PerSlab |-> Step(g, k)]
  <2>1. g = [k \in 0 .. PerSlab |-> g[k]]
    OBVIOUS
  <2> HIDE DEF g, Step
  <2> QED
    BY <1>5, <2>1, Zenon
<1>7. w = [k \in 0 .. PerSlab |-> Step(w, k)]
  <2> HIDE DEF g
  <2> QED
    BY <1>6, Zenon
<1>8. Walk(p, nx) = w[PerSlab]
  BY Zenon DEF Walk
<1> HIDE DEF w
<1>9. \A k \in 0 .. PerSlab : w[k] = Step(w, k)
  <2> HIDE DEF Step
  <2> QED
    BY <1>7, Zenon
<1>10. \A k \in 0 .. PerSlab : w[k] = g[k]
  <2> DEFINE T == {k \in 0 .. PerSlab : w[k] # g[k]}
  <2> HIDE DEF g
  <2>1. ASSUME T # {} PROVE FALSE
    <3>1. T \subseteq Nat
      BY <1>1
    <3>2. PICK k \in T : \A j \in T : k <= j
      BY <2>1, <3>1, Least, Zenon
    <3>3. k \in 0 .. PerSlab /\ w[k] # g[k]
      OBVIOUS
    <3>4. k # 0 => k - 1 \in 0 .. PerSlab /\ w[k - 1] = g[k - 1]
      <4>1. k # 0 => k - 1 \in 0 .. PerSlab /\ ~ (k <= k - 1)
        BY <1>1, <3>3
      <4> QED
        BY <3>2, <4>1, Zenon
    <3>5. Step(w, k) = Step(g, k)
      BY <3>4, Zenon
    <3> HIDE DEF Step
    <3> QED
      BY <1>5, <1>9, <3>3, <3>5, Zenon
  <2> QED
    BY <2>1
<1>11. g[PerSlab] = z
  <2>1. PerSlab \in 0 .. PerSlab /\ End(PerSlab) = n + 1
    BY <1>1
  <2> HIDE DEF g, End
  <2>2. g[PerSlab] \in Seq(S) /\ Len(g[PerSlab]) = n + 1 /\ \A i \in 1 .. n + 1 : g[PerSlab][i] = z[i]
    BY <1>4, <2>1
  <2> QED
    BY <1>2, <2>2, SameList
<1>12. PerSlab \in 0 .. PerSlab
  BY <1>1
<1> HIDE DEF g
<1> QED
  BY <1>8, <1>10, <1>11, <1>12, Zenon DEF z

(* The slots met are those of the list. *)
LEMMA ChainLinked ==
  ASSUME NEW q, NEW p, NEW nx, Linked(q, p, nx), Len(q) <= PerSlab
  PROVE  Range(Walk(p, nx)) \cap Slots = Range(q)
<1>1. q \in Seq(Slots) /\ q \in Seq(Slots \cup NotSlots) /\ Null \in Slots \cup NotSlots /\ Null \notin Slots
  BY SlabCacheAssumption DEF Linked, NotSlots
<1>2. Range(Append(q, Null)) = Range(q) \cup {Null}
  BY <1>1, AppendRange
<1>3. Range(q) \subseteq Slots
  BY <1>1 DEF Range
<1>4. Walk(p, nx) = Append(q, Null)
  BY WalkLinked
<1> QED
  BY <1>1, <1>2, <1>3, <1>4

(* The free list of the slab with the number x, and with it the counter.    *)
SlabPath(q, x, slab, nx) ==
    /\ Linked(q, slab.freeList, nx)
    /\ IsInjective(q)
    /\ Len(q) = slab.freeSlots
    /\ \A i \in 1 .. Len(q) : q[i][1] = x[1] /\ q[i][2] = x[2]

(* A slot is its cache, its slab and its position. *)
LEMMA SlotEqual ==
  ASSUME NEW a \in Slots, NEW b \in Slots, a[1] = b[1], a[2] = b[2], a[3] = b[3]
  PROVE  a = b
<1>1. a = <<a[1], a[2], a[3]>> /\ b = <<b[1], b[2], b[3]>>
  BY DEF Slots
<1> QED
  BY <1>1

(* The numbers from 1 to n are n. *)
LEMMA UpTo ==
  ASSUME NEW n \in Nat
  PROVE  IsFiniteSet(1 .. n) /\ Cardinality(1 .. n) = n
<1>1. IsFiniteSet(1 .. n) /\ Cardinality(1 .. n) = IF 1 > n THEN 0 ELSE n - 1 + 1
  BY FS_Interval, 1 \in Int, n \in Int, Zenon
<1> QED
  BY <1>1

(* A list of different slots of one slab is no longer than the slab.        *)
LEMMA SlabLength ==
  ASSUME NEW q \in Seq(Slots), IsInjective(q), NEW x,
         \A i \in 1 .. Len(q) : q[i][1] = x[1] /\ q[i][2] = x[2]
  PROVE  Len(q) <= PerSlab
<1> DEFINE f == [i \in 1 .. Len(q) |-> q[i][3]]
<1>1. Len(q) \in Nat /\ DOMAIN q = 1 .. Len(q) /\ PerSlab \in Nat /\ \A i \in 1 .. Len(q) : q[i] \in Slots
  BY SlabCacheAssumption
<1>2. f \in [1 .. Len(q) -> 1 .. PerSlab]
  BY <1>1 DEF Slots
<1>3. ASSUME NEW i \in 1 .. Len(q), NEW j \in 1 .. Len(q), f[i] = f[j] PROVE i = j
  <2>1. q[i][3] = q[j][3] /\ q[i][1] = q[j][1] /\ q[i][2] = q[j][2]
    BY <1>3
  <2>2. q[i] = q[j]
    BY <1>1, <2>1, SlotEqual, Zenon
  <2> QED
    BY <1>1, <2>2 DEF IsInjective
<1>4. f \in Injection(1 .. Len(q), 1 .. PerSlab)
  <2> HIDE DEF f
  <2>1. IsInjective(f)
    BY <1>2, <1>3 DEF IsInjective
  <2> QED
    BY <1>2, <2>1 DEF Injection
<1>5. /\ IsFiniteSet(1 .. PerSlab) /\ Cardinality(1 .. PerSlab) = PerSlab
      /\ Cardinality(1 .. Len(q)) = Len(q)
  BY <1>1, UpTo
<1> HIDE DEF f
<1>6. Cardinality(1 .. Len(q)) <= Cardinality(1 .. PerSlab)
  BY <1>4, <1>5, FS_Injection
<1> QED
  BY <1>5, <1>6

(* What following a slab's free list finds. *)
LEMMA PathChain ==
  ASSUME NEW q, NEW x, NEW slab, NEW nx, SlabPath(q, x, slab, nx)
  PROVE  /\ q \in Seq(Slots) /\ Len(q) <= PerSlab
         /\ Walk(slab.freeList, nx) = Append(q, Null)
         /\ Range(Walk(slab.freeList, nx)) \cap Slots = Range(q)
<1>1. /\ Linked(q, slab.freeList, nx) /\ IsInjective(q) /\ q \in Seq(Slots)
      /\ \A i \in 1 .. Len(q) : q[i][1] = x[1] /\ q[i][2] = x[2]
  BY DEF SlabPath, Linked
<1>2. Len(q) <= PerSlab
  BY <1>1, SlabLength
<1> QED
  BY <1>1, <1>2, WalkLinked, ChainLinked

-----------------------------------------------------------------------------
(* The inductive invariant: no call has gone wrong, a call on the slow path *)
(* knows its cache and its object, every slab's links lead through as many  *)
(* of its slots as its counter says, and a slot is in exactly one place     *)
(* when its slab has been built and nowhere before.                         *)

(* One of the sets of places has one member, the others none. *)
One(a, b, c, d, e) ==
    \/ (\E x : a = {x}) /\ b = {} /\ c = {} /\ d = {} /\ ~ e
    \/ a = {} /\ (\E x : b = {x}) /\ c = {} /\ d = {} /\ ~ e
    \/ a = {} /\ b = {} /\ (\E x : c = {x}) /\ d = {} /\ ~ e
    \/ a = {} /\ b = {} /\ c = {} /\ (\E x : d = {x}) /\ ~ e
    \/ a = {} /\ b = {} /\ c = {} /\ d = {} /\ e

None(a, b, c, d, e) == a = {} /\ b = {} /\ c = {} /\ d = {} /\ ~ e

InOne(o) == One(OnLists(o), InMagazines(o), InHands(o), InCalls(o), o \in lost)
InNone(o) == None(OnLists(o), InMagazines(o), InHands(o), InCalls(o), o \in lost)

CallsOK ==
    /\ ~ crashed
    /\ \A t \in Threads : /\ pc[t] # "idle" => cache[t] \in Caches
                          /\ pc[t] = "freeSlow" => ptr[t] \in Slots

PathsOK == \A x \in SlabIds : \E q : SlabPath(q, x, slabs[x[1]][x[2]], next)

OnePlace == \A o \in Slots : IF o \in BuiltSlots THEN InOne(o) ELSE InNone(o)

IInv == TypeOK /\ CallsOK /\ PathsOK /\ OnePlace

(* Sets of places of which one has a member count one. *)
LEMMA OneCount ==
  ASSUME NEW a, NEW b, NEW c, NEW d, NEW e \in {0, 1}
  PROVE  LET n == Cardinality(a) + Cardinality(b) + Cardinality(c) + Cardinality(d) + e
         IN  /\ One(a, b, c, d, e = 1) => n = 1
             /\ None(a, b, c, d, e = 1) => n = 0
<1> DEFINE k == Cardinality(a)
           l == Cardinality(b)
           m == Cardinality(c)
           n == Cardinality(d)
<1>1. Cardinality({}) = 0 /\ \A x : Cardinality({x}) = 1
  BY FS_EmptySet, FS_Singleton, Zenon
<1>2. /\ (a = {} => k = 0) /\ \A x : a = {x} => k = 1
      /\ (b = {} => l = 0) /\ \A x : b = {x} => l = 1
      /\ (c = {} => m = 0) /\ \A x : c = {x} => m = 1
      /\ (d = {} => n = 0) /\ \A x : d = {x} => n = 1
  BY <1>1, Zenon
<1>3. None(a, b, c, d, e = 1) => k = 0 /\ l = 0 /\ m = 0 /\ n = 0 /\ e = 0
  BY <1>2, Zenon DEF None
<1>4. One(a, b, c, d, e = 1) => \/ k = 1 /\ l = 0 /\ m = 0 /\ n = 0 /\ e = 0
                                \/ k = 0 /\ l = 1 /\ m = 0 /\ n = 0 /\ e = 0
                                \/ k = 0 /\ l = 0 /\ m = 1 /\ n = 0 /\ e = 0
                                \/ k = 0 /\ l = 0 /\ m = 0 /\ n = 1 /\ e = 0
                                \/ k = 0 /\ l = 0 /\ m = 0 /\ n = 0 /\ e = 1
  BY <1>2, Zenon DEF One
<1> HIDE DEF k, l, m, n
<1>5. /\ One(a, b, c, d, e = 1) => k + l + m + n + e = 1
      /\ None(a, b, c, d, e = 1) => k + l + m + n + e = 0
  BY <1>3, <1>4
<1> QED
  BY <1>5, Zenon DEF k, l, m, n

(* The invariant holds before the first call. *)
LEMMA InitIInv == Init => IInv
<1> SUFFICES ASSUME Init PROVE IInv
  OBVIOUS
<1>1. SlabIds = {} /\ BuiltSlots = {}
  BY DEF Init, SlabIds, BuiltSlots
<1>2. TypeOK
  <2>1. MaxSlabs \in Nat /\ MagazineSize \in Nat
    BY SlabCacheAssumption
  <2>2. slabs \in [Caches -> Seq(Slab)] /\ \A c \in Caches : Len(slabs[c]) <= MaxSlabs
    BY <2>1 DEF Init
  <2>3. mag \in [Threads -> Seq(Slots)] /\ \A t \in Threads : Len(mag[t]) <= MagazineSize
    BY <2>1 DEF Init
  <2>4. next \in [Slots -> Slots \cup NotSlots]
    BY DEF Init, NotSlots
  <2> QED
    BY <2>2, <2>3, <2>4 DEF Init, TypeOK
<1>3. CallsOK /\ PathsOK
  BY <1>1 DEF Init, CallsOK, PathsOK
<1>4. ASSUME NEW o \in Slots PROVE InNone(o)
  <2>1. OnLists(o) = {}
    BY <1>1 DEF OnLists
  <2>2. InMagazines(o) = {}
    BY DEF Init, InMagazines
  <2>3. InHands(o) = {} /\ InCalls(o) = {} /\ o \notin lost
    BY DEF Init, InHands, InCalls
  <2> QED
    BY <2>1, <2>2, <2>3 DEF InNone, None
<1> QED
  BY <1>1, <1>2, <1>3, <1>4 DEF IInv, OnePlace

(* It is enough for what the cache promises. *)
LEMMA IInvPlaces == IInv => SlotsAccounted
<1> SUFFICES ASSUME IInv PROVE SlotsAccounted
  OBVIOUS
<1>1. ASSUME NEW o \in Slots PROVE Places(o) = IF o \in BuiltSlots THEN 1 ELSE 0
  <2>1. IF o \in BuiltSlots THEN InOne(o) ELSE InNone(o)
    BY DEF IInv, OnePlace
  <2> DEFINE e == IF o \in lost THEN 1 ELSE 0
  <2>2. e \in {0, 1} /\ (o \in lost <=> e = 1)
    OBVIOUS
  <2> HIDE DEF e
  <2>3. IF o \in BuiltSlots THEN One(OnLists(o), InMagazines(o), InHands(o), InCalls(o), e = 1)
        ELSE None(OnLists(o), InMagazines(o), InHands(o), InCalls(o), e = 1)
    BY <2>1, <2>2, Zenon DEF InOne, InNone, One, None
  <2>4. Cardinality(OnLists(o)) + Cardinality(InMagazines(o)) + Cardinality(InHands(o))
        + Cardinality(InCalls(o)) + e = IF o \in BuiltSlots THEN 1 ELSE 0
    BY <2>2, <2>3, OneCount, Zenon
  <2> QED
    BY <2>4, Zenon DEF Places, e
<1> QED
  BY <1>1 DEF IInv, SlotsAccounted

(* The invariant implies FreeSlotsExact. *)
LEMMA IInvLists == IInv => FreeSlotsExact
<1> SUFFICES ASSUME IInv, NEW x \in SlabIds
             PROVE  LET slab == slabs[x[1]][x[2]]
                        w == Walk(slab.freeList, next)
                    IN  Len(w) = slab.freeSlots + 1 /\ Back(w) = Null
  BY DEF FreeSlotsExact
<1>1. PICK q : SlabPath(q, x, slabs[x[1]][x[2]], next)
  BY DEF IInv, PathsOK
<1>2. /\ q \in Seq(Slots) /\ Walk(slabs[x[1]][x[2]].freeList, next) = Append(q, Null)
      /\ Len(q) = slabs[x[1]][x[2]].freeSlots
  BY <1>1, PathChain DEF SlabPath
<1>3. q \in Seq(Slots \cup {Null}) /\ Null \in Slots \cup {Null}
  BY <1>2
<1>4. Len(Append(q, Null)) = Len(q) + 1 /\ Append(q, Null)[Len(q) + 1] = Null
  BY <1>3, AppendAt
<1> QED
  BY <1>2, <1>4 DEF Back

-----------------------------------------------------------------------------
(* What the calls do to a free list. *)

(* AllocateFromSlab takes the first slot off. *)
LEMMA PathPop ==
  ASSUME NEW q, NEW x, NEW slab, NEW nx, SlabPath(q, x, slab, nx), q # <<>>
  PROVE  /\ slab.freeList = Head(q) /\ Head(q) \in Slots
         /\ Head(q)[1] = x[1] /\ Head(q)[2] = x[2]
         /\ Head(q) \in Range(q) /\ Range(Tail(q)) = Range(q) \ {Head(q)}
         /\ SlabPath(Tail(q), x, AllocateFromSlab(slab, nx), nx)
<1> DEFINE r == Tail(q)
           n == Len(q)
<1>1. /\ q \in Seq(Slots) /\ IsInjective(q) /\ n = slab.freeSlots
      /\ slab.freeList = q[1]
      /\ \A i \in 1 .. n : nx[q[i]] = IF i = n THEN Null ELSE q[i + 1]
      /\ \A i \in 1 .. n : q[i][1] = x[1] /\ q[i][2] = x[2]
  BY DEF SlabPath, Linked
<1>2. /\ Head(q) \in Slots /\ r \in Seq(Slots) /\ IsInjective(r)
      /\ Head(q) \in Range(q) /\ Range(r) = Range(q) \ {Head(q)}
  BY <1>1, PopRange
<1>3. /\ n \in Nat \ {0} /\ Head(q) = q[1] /\ Len(r) = n - 1
      /\ \A i \in 1 .. n - 1 : r[i] = q[i + 1]
  BY <1>1, PopAt
<1> HIDE DEF r, n
<1>4. 1 \in 1 .. n
  BY <1>3
<1>5. nx[Head(q)] = IF r = <<>> THEN Null ELSE r[1]
  BY <1>1, <1>2, <1>3, <1>4
<1>6. ASSUME NEW i \in 1 .. n - 1
      PROVE  /\ nx[r[i]] = IF i = n - 1 THEN Null ELSE r[i + 1]
             /\ r[i][1] = x[1] /\ r[i][2] = x[2]
  <2>1. i + 1 \in 1 .. n /\ (i = n - 1 <=> i + 1 = n) /\ (i # n - 1 => i + 1 \in 1 .. n - 1)
    BY <1>3
  <2>2. r[i] = q[i + 1] /\ (i # n - 1 => r[i + 1] = q[i + 1 + 1])
    BY <1>3, <2>1, Zenon
  <2> QED
    BY <1>1, <2>1, <2>2, Zenon
<1>7. /\ AllocateFromSlab(slab, nx).freeList = nx[Head(q)]
      /\ AllocateFromSlab(slab, nx).freeSlots = n - 1
  BY <1>1, <1>3 DEF AllocateFromSlab
<1>8. SlabPath(r, x, AllocateFromSlab(slab, nx), nx)
  BY <1>2, <1>3, <1>5, <1>6, <1>7 DEF SlabPath, Linked
<1> QED
  BY <1>1, <1>2, <1>3, <1>4, <1>8 DEF r

(* Free puts a slot of the slab in front. *)
LEMMA PathPush ==
  ASSUME NEW q, NEW x, NEW slab, NEW nx \in [Slots -> Slots \cup NotSlots], SlabPath(q, x, slab, nx),
         NEW o \in Slots, o[1] = x[1], o[2] = x[2], o \notin Range(q)
  PROVE  /\ SlabPath(<<o>> \o q, x, [freeList |-> o, freeSlots |-> slab.freeSlots + 1],
                     [nx EXCEPT ![o] = slab.freeList])
         /\ Range(<<o>> \o q) = Range(q) \cup {o}
<1> DEFINE r == <<o>> \o q
           n == Len(q)
           ny == [nx EXCEPT ![o] = slab.freeList]
<1>1. /\ q \in Seq(Slots) /\ IsInjective(q) /\ n = slab.freeSlots
      /\ slab.freeList = IF q = <<>> THEN Null ELSE q[1]
      /\ \A i \in 1 .. n : nx[q[i]] = IF i = n THEN Null ELSE q[i + 1]
      /\ \A i \in 1 .. n : q[i][1] = x[1] /\ q[i][2] = x[2]
  BY DEF SlabPath, Linked
<1>2. r \in Seq(Slots) /\ IsInjective(r) /\ Range(r) = {o} \cup Range(q)
  BY <1>1, PushRange
<1>3. r # <<>> /\ Len(r) = n + 1 /\ r[1] = o /\ n \in Nat /\ \A i \in 1 .. n : r[i + 1] = q[i]
  BY <1>1, PushAt
<1>4. ny[o] = slab.freeList /\ \A i \in 1 .. n : ny[q[i]] = nx[q[i]]
  BY <1>1 DEF Range
<1> HIDE DEF r, n, ny
<1>5. ny[r[1]] = IF n = 0 THEN Null ELSE r[2]
  <2>1. n = 0 <=> q = <<>>
    BY <1>1 DEF n
  <2>2. n # 0 => 1 \in 1 .. n /\ 1 + 1 = 2
    BY <1>3
  <2> QED
    BY <1>1, <1>3, <1>4, <2>1, <2>2
<1>6. ASSUME NEW i \in 1 .. n + 1
      PROVE  /\ ny[r[i]] = IF i = n + 1 THEN Null ELSE r[i + 1]
             /\ r[i][1] = x[1] /\ r[i][2] = x[2]
  <2>1. CASE i = 1
    BY <1>3, <1>5, <2>1
  <2>2. CASE i # 1
    <3> DEFINE j == i - 1
    <3>1. j \in 1 .. n /\ i = j + 1 /\ (i = n + 1 <=> j = n) /\ (j # n => j + 1 \in 1 .. n)
      BY <1>3, <2>2
    <3> HIDE DEF j
    <3>2. r[i] = q[j] /\ (j # n => r[i + 1] = q[j + 1])
      BY <1>3, <3>1
    <3> QED
      BY <1>1, <1>4, <3>1, <3>2
  <2> QED
    BY <2>1, <2>2
<1>7. SlabPath(r, x, [freeList |-> o, freeSlots |-> slab.freeSlots + 1], ny)
  BY <1>1, <1>2, <1>3, <1>6 DEF SlabPath, Linked
<1> QED
  BY <1>2, <1>7 DEF r, ny

(* A store into a slot that is not on the list does not touch it. *)
LEMMA PathKept ==
  ASSUME NEW q, NEW x, NEW slab, NEW nx, NEW ny, SlabPath(q, x, slab, nx),
         \A o \in Range(q) : ny[o] = nx[o]
  PROVE  SlabPath(q, x, slab, ny)
<1>1. q \in Seq(Slots)
  BY DEF SlabPath, Linked
<1>2. \A i \in 1 .. Len(q) : ny[q[i]] = nx[q[i]]
  BY <1>1 DEF Range
<1> QED
  BY <1>2 DEF SlabPath, Linked

-----------------------------------------------------------------------------
(* Slabs and their free lists from one step to the next. *)

(* The slabs have their types. *)
LEMMA SlabOf ==
  ASSUME TypeOK
  PROVE  /\ \A x \in SlabIds : /\ x[1] \in Caches /\ x[2] \in DOMAIN slabs[x[1]] /\ x = <<x[1], x[2]>>
                               /\ slabs[x[1]][x[2]] \in Slab
         /\ \A c \in Caches : \A s \in DOMAIN slabs[c] : <<c, s>> \in SlabIds /\ slabs[c][s] \in Slab
<1>1. MaxSlabs \in Nat
  BY SlabCacheAssumption
<1>2. ASSUME NEW c \in Caches
      PROVE  slabs[c] \in Seq(Slab) /\ Len(slabs[c]) \in Nat /\ Len(slabs[c]) <= MaxSlabs
             /\ DOMAIN slabs[c] = 1 .. Len(slabs[c])
  BY DEF TypeOK
<1>3. ASSUME NEW x \in SlabIds
      PROVE  /\ x[1] \in Caches /\ x[2] \in DOMAIN slabs[x[1]] /\ x = <<x[1], x[2]>>
             /\ slabs[x[1]][x[2]] \in Slab
  <2>1. x[1] \in Caches /\ x[2] \in 1 .. MaxSlabs /\ x = <<x[1], x[2]>> /\ x[2] <= Len(slabs[x[1]])
    BY DEF SlabIds
  <2>2. x[2] \in DOMAIN slabs[x[1]]
    BY <1>1, <1>2, <2>1
  <2> QED
    BY <1>2, <2>1, <2>2
<1>4. ASSUME NEW c \in Caches, NEW s \in DOMAIN slabs[c]
      PROVE  <<c, s>> \in SlabIds /\ slabs[c][s] \in Slab
  <2>1. s \in 1 .. MaxSlabs /\ s <= Len(slabs[c])
    BY <1>1, <1>2
  <2> QED
    BY <1>2, <2>1 DEF SlabIds
<1> QED
  BY <1>3, <1>4

(* The free chain of a slab is the list that SlabPath names. *)
LEMMA ChainOf ==
  ASSUME NEW x, NEW q, SlabPath(q, x, slabs[x[1]][x[2]], next)
  PROVE  FreeChain(x) = Range(q)
  BY PathChain DEF FreeChain

(* Steps that neither touch the slabs nor the slots. *)
LEMMA SameLists ==
  ASSUME UNCHANGED <<slabs, next>>
  PROVE  /\ SlabIds' = SlabIds /\ BuiltSlots' = BuiltSlots
         /\ \A o : OnLists(o)' = OnLists(o)
         /\ PathsOK => PathsOK'
<1>1. SlabIds' = SlabIds
  BY DEF SlabIds
<1>2. \A x : FreeChain(x)' = FreeChain(x)
  BY DEF FreeChain
<1> QED
  BY <1>1, <1>2 DEF BuiltSlots, OnLists, PathsOK

(* A slab keeps its free list when neither its record nor the links of the  *)
(* slots on the list change.                                                *)
LEMMA SameChain ==
  ASSUME NEW x, NEW q, SlabPath(q, x, slabs[x[1]][x[2]], next),
         slabs'[x[1]][x[2]] = slabs[x[1]][x[2]],
         \A o \in FreeChain(x) : next'[o] = next[o]
  PROVE  SlabPath(q, x, slabs'[x[1]][x[2]], next') /\ FreeChain(x)' = FreeChain(x)
<1>1. FreeChain(x) = Range(q)
  BY ChainOf
<1>2. SlabPath(q, x, slabs'[x[1]][x[2]], next')
  BY <1>1, PathKept
<1>3. FreeChain(x)' = Range(q)
  BY <1>2, PathChain DEF FreeChain
<1> QED
  BY <1>1, <1>2, <1>3

(* The slab that Allocate takes is one of the cache, its list is not empty. *)
LEMMA FirstSlab ==
  ASSUME IInv, NEW c \in Caches, WithFree(c) # {}
  PROVE  LET s == Min(WithFree(c))
         IN  /\ s \in DOMAIN slabs[c] /\ <<c, s>> \in SlabIds
             /\ slabs[c][s] \in Slab
             /\ \E q : SlabPath(q, <<c, s>>, slabs[c][s], next) /\ q # <<>>
<1> DEFINE T == WithFree(c)
           s == Min(T)
<1>1. T \subseteq Nat /\ T # {}
  BY DEF IInv, TypeOK, WithFree
<1>2. s \in T
  <2>1. \E a \in T : \A b \in T : a =< b
    BY <1>1, Least
  <2> QED
    BY <2>1, Zenon DEF Min
<1> HIDE DEF s
<1>3. s \in DOMAIN slabs[c] /\ slabs[c][s].freeSlots > 0
  BY <1>2 DEF WithFree
<1>4. <<c, s>> \in SlabIds /\ slabs[c][s] \in Slab
  BY <1>3, SlabOf DEF IInv
<1>5. PICK q : SlabPath(q, <<c, s>>, slabs[c][s], next)
  BY <1>4 DEF IInv, PathsOK
<1>6. q # <<>>
  BY <1>3, <1>5 DEF SlabPath
<1> QED
  BY <1>3, <1>4, <1>5, <1>6 DEF s

(* A call replaces the record of one slab by r, whose list is q, and stores *)
(* into no slot on the free list of another ...                             *)
Replaces(c, s, r, q) ==
    /\ c \in Caches /\ s \in DOMAIN slabs[c] /\ r \in Slab
    /\ slabs' = [slabs EXCEPT ![c] = [slabs[c] EXCEPT ![s] = r]]
    /\ \A y \in SlabIds : y # <<c, s>> => \A o \in FreeChain(y) : next'[o] = next[o]
    /\ SlabPath(q, <<c, s>>, r, next')

(* ... so that the slab x has the free slots f and the others keep theirs.  *)
Replaced(x, f) ==
    /\ slabs' \in [Caches -> Seq(Slab)] /\ \A d \in Caches : Len(slabs'[d]) = Len(slabs[d])
    /\ SlabIds' = SlabIds
    /\ FreeChain(x)' = f
    /\ \A y \in SlabIds : y # x => FreeChain(y)' = FreeChain(y)
    /\ PathsOK'

(* A step that changes one slab and its free list. *)
LEMMA OneSlab ==
  ASSUME IInv, NEW c, NEW s, NEW r, NEW q, Replaces(c, s, r, q)
  PROVE  Replaced(<<c, s>>, Range(q))
<1> USE DEF Replaces
<1> DEFINE x == <<c, s>>
<1>1. slabs \in [Caches -> Seq(Slab)]
  BY DEF IInv, TypeOK
<1>2. slabs[c] \in Seq(Slab) /\ [slabs[c] EXCEPT ![s] = r] \in Seq(Slab)
      /\ Len([slabs[c] EXCEPT ![s] = r]) = Len(slabs[c])
  BY <1>1
<1>3. slabs' \in [Caches -> Seq(Slab)] /\ \A d \in Caches : Len(slabs'[d]) = Len(slabs[d])
  BY <1>1, <1>2
<1>4. SlabIds' = SlabIds
  BY <1>3 DEF SlabIds
<1>5. slabs'[c][s] = r /\ x[1] = c /\ x[2] = s
  BY <1>1, <1>2
<1>6. FreeChain(x)' = Range(q)
  BY <1>5, PathChain DEF FreeChain
<1>7. ASSUME NEW y \in SlabIds, y # x
      PROVE  FreeChain(y)' = FreeChain(y) /\ \E p : SlabPath(p, y, slabs'[y[1]][y[2]], next')
  <2>1. y[1] \in Caches /\ y[2] \in DOMAIN slabs[y[1]] /\ y = <<y[1], y[2]>>
    BY SlabOf DEF IInv
  <2>2. slabs'[y[1]][y[2]] = slabs[y[1]][y[2]]
    <3>1. CASE y[1] = c
      <4>1. y[2] # s
        BY <1>7, <2>1, <3>1, Zenon
      <4> QED
        BY <1>1, <1>2, <2>1, <3>1, <4>1
    <3>2. CASE y[1] # c
      BY <1>1, <2>1, <3>2
    <3> QED
      BY <3>1, <3>2
  <2>3. PICK p : SlabPath(p, y, slabs[y[1]][y[2]], next)
    BY DEF IInv, PathsOK
  <2> QED
    BY <1>7, <2>2, <2>3, SameChain
<1>8. PathsOK'
  BY <1>4, <1>5, <1>7 DEF PathsOK
<1> QED
  BY <1>3, <1>4, <1>6, <1>7, <1>8 DEF Replaced

(* Allocate takes a slot off the list of one slab. *)
LEMMA TakeLists ==
  ASSUME IInv, NEW t \in Threads, AllocateFromExisting(t)
  PROVE  /\ cache[t] \in Caches /\ UNCHANGED crashed
         /\ \E x \in SlabIds, o \in Slots :
              /\ o \in FreeChain(x) /\ Replaced(x, FreeChain(x) \ {o})
              /\ live' = live \cup {[obj |-> o, cache |-> cache[t]]}
<1>c. PICK c : c = cache[t]
  OBVIOUS
<1>s. PICK s : s = Min(WithFree(c))
  OBVIOUS
<1>o. PICK o : o = slabs[c][s].freeList
  OBVIOUS
<1> DEFINE r == AllocateFromSlab(slabs[c][s], next)
<1>1. pc[t] = "allocSlow" /\ c \in Caches /\ WithFree(c) # {}
  BY <1>c DEF AllocateFromExisting, IInv, CallsOK
<1>2. /\ s \in DOMAIN slabs[c] /\ <<c, s>> \in SlabIds /\ slabs[c][s] \in Slab
      /\ \E q : SlabPath(q, <<c, s>>, slabs[c][s], next) /\ q # <<>>
  BY <1>s, <1>1, FirstSlab
<1>3. /\ o \in Slots => /\ live' = live \cup {[obj |-> o, cache |-> c]} /\ UNCHANGED crashed
                        /\ slabs' = [slabs EXCEPT ![c] = [slabs[c] EXCEPT ![s] = r]]
      /\ next' = next
  BY <1>c, <1>s, <1>o DEF AllocateFromExisting
<1>4. PICK q : SlabPath(q, <<c, s>>, slabs[c][s], next) /\ q # <<>>
  BY <1>2
<1>5. /\ o = Head(q) /\ o \in Slots /\ Range(Tail(q)) = Range(q) \ {o} /\ o \in Range(q)
      /\ SlabPath(Tail(q), <<c, s>>, r, next)
  <2> DEFINE x == <<c, s>>
             slab == slabs[c][s]
  <2> HIDE DEF x, slab
  <2>1. SlabPath(q, x, slab, next) /\ q # <<>>
    BY <1>4 DEF x, slab
  <2>2. /\ slab.freeList = Head(q) /\ Head(q) \in Slots
        /\ Head(q) \in Range(q) /\ Range(Tail(q)) = Range(q) \ {Head(q)}
        /\ SlabPath(Tail(q), x, AllocateFromSlab(slab, next), next)
    BY <2>1, PathPop, Zenon
  <2> QED
    BY <1>o, <2>2, Zenon DEF x, slab
<1>6. FreeChain(<<c, s>>) = Range(q)
  BY <1>4, ChainOf
<1>7. r \in Slab
  <2>1. next \in [Slots -> Slots \cup NotSlots] /\ slabs[c][s].freeSlots \in 0 .. PerSlab
    BY <1>2 DEF IInv, TypeOK, Slab
  <2>2. slabs[c][s].freeSlots # 0 /\ PerSlab \in Nat
    BY <1>4, SlabCacheAssumption DEF SlabPath, Linked
  <2> QED
    BY <1>o, <1>5, <2>1, <2>2 DEF Slab, AllocateFromSlab
<1>8. slabs' = [slabs EXCEPT ![c] = [slabs[c] EXCEPT ![s] = r]] /\ next' = next
  BY <1>3, <1>5
<1> HIDE DEF r
<1>9. Replaced(<<c, s>>, Range(Tail(q)))
  <2>1. \A y \in SlabIds : y # <<c, s>> => \A p \in FreeChain(y) : next'[p] = next[p]
    BY <1>8
  <2>2. SlabPath(Tail(q), <<c, s>>, r, next')
    BY <1>5, <1>8
  <2>3. Replaces(c, s, r, Tail(q))
    BY <1>1, <1>2, <1>7, <1>8, <2>1, <2>2, Zenon DEF Replaces
  <2> QED
    BY <2>3, OneSlab, Zenon
<1>10. /\ c \in Caches /\ <<c, s>> \in SlabIds /\ o \in Slots /\ o \in FreeChain(<<c, s>>)
       /\ live' = live \cup {[obj |-> o, cache |-> c]} /\ UNCHANGED crashed
       /\ Replaced(<<c, s>>, FreeChain(<<c, s>>) \ {o})
  BY <1>1, <1>2, <1>3, <1>5, <1>6, <1>9, Zenon
<1> QED
  BY <1>c, <1>10, Zenon

(* A slot that is somewhere is nowhere else, and its slab has been built.   *)
LEMMA Placed ==
  ASSUME OnePlace, NEW o \in Slots
  PROVE  /\ \A x \in OnLists(o) : /\ OnLists(o) = {x} /\ InMagazines(o) = {} /\ InHands(o) = {}
                                  /\ InCalls(o) = {} /\ o \notin lost /\ o \in BuiltSlots
         /\ \A x \in InMagazines(o) : /\ OnLists(o) = {} /\ InMagazines(o) = {x} /\ InHands(o) = {}
                                      /\ InCalls(o) = {} /\ o \notin lost /\ o \in BuiltSlots
         /\ \A x \in InHands(o) : /\ OnLists(o) = {} /\ InMagazines(o) = {} /\ InHands(o) = {x}
                                  /\ InCalls(o) = {} /\ o \notin lost /\ o \in BuiltSlots
         /\ \A x \in InCalls(o) : /\ OnLists(o) = {} /\ InMagazines(o) = {} /\ InHands(o) = {}
                                  /\ InCalls(o) = {x} /\ o \notin lost /\ o \in BuiltSlots
<1> DEFINE a == OnLists(o)
           b == InMagazines(o)
           c == InHands(o)
           d == InCalls(o)
<1>1. IF o \in BuiltSlots THEN One(a, b, c, d, o \in lost) ELSE None(a, b, c, d, o \in lost)
  BY DEF OnePlace, InOne, InNone
<1> HIDE DEF a, b, c, d
<1>2. \A x \in a : a = {x} /\ b = {} /\ c = {} /\ d = {} /\ o \notin lost /\ o \in BuiltSlots
  BY <1>1 DEF One, None
<1>3. \A x \in b : a = {} /\ b = {x} /\ c = {} /\ d = {} /\ o \notin lost /\ o \in BuiltSlots
  BY <1>1 DEF One, None
<1>4. \A x \in c : a = {} /\ b = {} /\ c = {x} /\ d = {} /\ o \notin lost /\ o \in BuiltSlots
  BY <1>1 DEF One, None
<1>5. \A x \in d : a = {} /\ b = {} /\ c = {} /\ d = {x} /\ o \notin lost /\ o \in BuiltSlots
  BY <1>1 DEF One, None
<1> QED
  BY <1>2, <1>3, <1>4, <1>5, Zenon DEF a, b, c, d

(* A slot on no free list. *)
LEMMA OffLists ==
  ASSUME NEW o, OnLists(o) = {}
  PROVE  \A y \in SlabIds : o \notin FreeChain(y)
  BY DEF OnLists

(* Free on the slow path puts the slot on the list of its slab, or finds no *)
(* slab for it in this cache.                                               *)
LEMMA PutLists ==
  ASSUME IInv, NEW t \in Threads, FreeSlow(t)
  PROVE  /\ cache[t] \in Caches /\ ptr[t] \in Slots /\ t \in InCalls(ptr[t])
         /\ \/ /\ \E x \in SlabIds : Replaced(x, FreeChain(x) \cup {ptr[t]})
               /\ next' \in [Slots -> Slots \cup NotSlots]
               /\ UNCHANGED lost
            \/ /\ ptr[t][1] # cache[t]
               /\ UNCHANGED <<slabs, next>>
               /\ lost' = lost \cup {ptr[t]}
<1>c. PICK c : c = cache[t]
  OBVIOUS
<1>o. PICK o : o = ptr[t]
  OBVIOUS
<1>1. c \in Caches /\ o \in Slots /\ t \in InCalls(o)
  BY <1>c, <1>o DEF IInv, CallsOK, FreeSlow, InCalls
<1>2. OnLists(o) = {} /\ o \in BuiltSlots
  BY <1>1, Placed DEF IInv
<1>3. CASE \E s \in DOMAIN slabs[c] : SlabContains(c, s, o)
  <2>1. PICK s \in DOMAIN slabs[c] :
               /\ SlabContains(c, s, o)
               /\ next' = [next EXCEPT ![o] = slabs[c][s].freeList]
               /\ slabs' = [slabs EXCEPT ![c][s] = [freeList |-> o, freeSlots |-> @.freeSlots + 1]]
    BY <1>c, <1>o, <1>3 DEF FreeSlow
  <2> DEFINE slab == slabs[c][s]
             x == <<c, s>>
             r == [freeList |-> o, freeSlots |-> slab.freeSlots + 1]
  <2>2. x \in SlabIds /\ slab \in Slab /\ o[1] = x[1] /\ o[2] = x[2]
    BY <1>1, <2>1, SlabOf DEF IInv, SlabContains
  <2>3. slabs' = [slabs EXCEPT ![c] = [slabs[c] EXCEPT ![s] = r]]
    BY <2>1
  <2>4. next \in [Slots -> Slots \cup NotSlots] /\ slab.freeList \in Slots \cup NotSlots
        /\ next' = [next EXCEPT ![o] = slab.freeList]
    BY <2>1, <2>2 DEF IInv, TypeOK, Slab
  <2>5. PICK q : SlabPath(q, x, slab, next)
    BY <2>2 DEF IInv, PathsOK
  <2>6. FreeChain(x) = Range(q)
    BY <2>5, ChainOf
  <2>7. \A y \in SlabIds : o \notin FreeChain(y)
    BY <1>2, OffLists
  <2>8. s \in DOMAIN slabs[c]
    BY <2>1
  <2> HIDE DEF slab, x
  <2>9. SlabPath(<<o>> \o q, x, r, next') /\ Range(<<o>> \o q) = FreeChain(x) \cup {o}
    BY <1>1, <2>2, <2>4, <2>5, <2>6, <2>7, PathPush
  <2>10. r \in Slab
    <3>1. Len(<<o>> \o q) <= PerSlab /\ Len(<<o>> \o q) = slab.freeSlots + 1
      BY <2>9, PathChain DEF SlabPath
    <3> QED
      BY <1>1, <2>2, <3>1 DEF Slab
  <2>11. next' \in [Slots -> Slots \cup NotSlots] /\ \A p \in Slots : p # o => next'[p] = next[p]
    BY <1>1, <2>4
  <2>12. \A y \in SlabIds : \A p \in FreeChain(y) : next'[p] = next[p]
    BY <2>7, <2>11 DEF FreeChain
  <2> HIDE DEF r
  <2>13. Replaces(c, s, r, <<o>> \o q)
    BY <1>1, <2>3, <2>8, <2>9, <2>10, <2>12, Zenon DEF Replaces, x
  <2>14. Replaced(x, FreeChain(x) \cup {o})
    BY <2>9, <2>13, OneSlab, Zenon DEF x
  <2>15. UNCHANGED lost
    BY <1>c, <1>o, <1>3 DEF FreeSlow
  <2> QED
    BY <1>1, <2>2, <2>11, <2>14, <2>15, <1>c, <1>o, Zenon
<1>4. CASE ~ \E s \in DOMAIN slabs[c] : SlabContains(c, s, o)
  <2>1. UNCHANGED <<slabs, next>> /\ lost' = lost \cup {o}
    BY <1>c, <1>o, <1>4 DEF FreeSlow
  <2>2. o[1] # c
    <3>1. <<o[1], o[2]>> \in SlabIds
      BY <1>2 DEF BuiltSlots
    <3>2. o[2] \in DOMAIN slabs[o[1]]
      BY <3>1, SlabOf DEF IInv
    <3> QED
      BY <1>4, <3>2 DEF SlabContains
  <2> QED
    BY <1>c, <1>o, <1>1, <2>1, <2>2
<1> QED
  BY <1>3, <1>4

(* The constructor of a slab links its slots in order. *)
LEMMA BuiltPath ==
  ASSUME ~ Clobbers, NEW c \in Caches, NEW s \in 1 .. MaxSlabs
  PROVE  LET q == [i \in 1 .. PerSlab |-> <<c, s, i>>]
         IN  /\ SlabPath(q, <<c, s>>, [freeList |-> <<c, s, 1>>, freeSlots |-> PerSlab], Built(c, s))
             /\ q # <<>> /\ Head(q) = <<c, s, 1>>
             /\ Range(q) = {o \in Slots : <<o[1], o[2]>> = <<c, s>>}
<1> DEFINE q == [i \in 1 .. PerSlab |-> <<c, s, i>>]
           nx == Built(c, s)
<1>1. PerSlab \in Nat \ {0} /\ 1 \in 1 .. PerSlab
  BY SlabCacheAssumption
<1>2. \A i \in 1 .. PerSlab : q[i] = <<c, s, i>> /\ q[i] \in Slots
  BY DEF Slots
<1>3. q \in Seq(Slots) /\ Len(q) = PerSlab /\ q # <<>> /\ Head(q) = <<c, s, 1>> /\ DOMAIN q = 1 .. PerSlab
  BY <1>1, <1>2
<1>4. ASSUME NEW i \in 1 .. PerSlab
      PROVE  nx[<<c, s, i>>] = IF i = PerSlab THEN Null ELSE <<c, s, i + 1>>
  <2>1. <<c, s, i>> \in Slots
    BY <1>2
  <2> QED
    BY <2>1 DEF Built
<1> HIDE DEF q, nx
<1>5. IsInjective(q)
  BY <1>2, <1>3 DEF IsInjective
<1>6. \A i \in 1 .. PerSlab : i # PerSlab => i + 1 \in 1 .. PerSlab
  BY <1>1
<1>7. Linked(q, <<c, s, 1>>, nx)
  BY <1>1, <1>2, <1>3, <1>4, <1>6 DEF Linked
<1>8. SlabPath(q, <<c, s>>, [freeList |-> <<c, s, 1>>, freeSlots |-> PerSlab], nx)
  BY <1>2, <1>3, <1>5, <1>7 DEF SlabPath
<1>9. Range(q) = {o \in Slots : <<o[1], o[2]>> = <<c, s>>}
  <2>1. ASSUME NEW o \in Slots, <<o[1], o[2]>> = <<c, s>> PROVE o \in Range(q)
    <3>1. o[3] \in 1 .. PerSlab /\ o = <<c, s, o[3]>>
      BY <2>1 DEF Slots
    <3> QED
      BY <1>2, <1>3, <3>1 DEF Range
  <2>2. \A i \in 1 .. PerSlab : q[i] \in Slots /\ <<q[i][1], q[i][2]>> = <<c, s>>
    BY <1>2
  <2> QED
    BY <1>3, <2>1, <2>2 DEF Range
<1> QED
  BY <1>3, <1>8, <1>9 DEF q, nx

(* The bound on all slabs leaves room in every cache. *)
LEMMA SlabRoom ==
  ASSUME TypeOK, NEW c \in Caches, Cardinality(SlabIds) < MaxSlabs
  PROVE  Len(slabs[c]) + 1 \in 1 .. MaxSlabs /\ <<c, Len(slabs[c]) + 1>> \notin SlabIds
<1> DEFINE n == Len(slabs[c])
           f == [i \in 1 .. n |-> <<c, i>>]
<1>1. n \in Nat /\ MaxSlabs \in Nat /\ n <= MaxSlabs
  BY SlabCacheAssumption DEF TypeOK
<1>2. IsFiniteSet(SlabIds) /\ Cardinality(SlabIds) \in Nat
  <2>1. IsFiniteSet(1 .. MaxSlabs)
    BY <1>1, UpTo
  <2>2. IsFiniteSet(Caches \X (1 .. MaxSlabs))
    BY <2>1, SlabCacheAssumption, FS_Product, Zenon
  <2>3. IsFiniteSet(SlabIds)
    BY <2>2, FS_Subset, SlabIds \subseteq Caches \X (1 .. MaxSlabs), Zenon DEF SlabIds
  <2> QED
    BY <2>3, FS_CardinalityType, Zenon
<1> HIDE DEF n
<1>3. f \in Injection(1 .. n, SlabIds)
  BY <1>1 DEF SlabIds, Injection, IsInjective, n
<1>4. n <= Cardinality(SlabIds)
  <2>1. IsFiniteSet(1 .. n) /\ Cardinality(1 .. n) = n
    BY <1>1, UpTo
  <2> HIDE DEF f
  <2>2. Cardinality(1 .. n) <= Cardinality(SlabIds)
    BY <1>2, <1>3, FS_Injection, Zenon
  <2> QED
    BY <2>1, <2>2, Zenon
<1> QED
  BY <1>1, <1>2, <1>4 DEF SlabIds, n

(* Allocate adds a slab and hands out its first slot; the others are on its *)
(* free list.                                                               *)
Added(x) ==
    /\ slabs' \in [Caches -> Seq(Slab)] /\ \A d \in Caches : Len(slabs'[d]) <= MaxSlabs
    /\ next' \in [Slots -> Slots \cup NotSlots]
    /\ x \notin SlabIds /\ SlabIds' = SlabIds \cup {x}
    /\ FreeChain(x)' = {o \in Slots : <<o[1], o[2]>> = x} \ {<<x[1], x[2], 1>>}
    /\ \A y \in SlabIds : FreeChain(y)' = FreeChain(y)
    /\ PathsOK'

(* AllocateNewSlab adds a slab, all of whose slots but the first are free. *)
LEMMA NewLists ==
  ASSUME IInv, ~ Clobbers, NEW t \in Threads, AllocateNewSlab(t)
  PROVE  /\ cache[t] \in Caches
         /\ \E x : /\ Added(x) /\ <<x[1], x[2], 1>> \in Slots
                  /\ live' = live \cup {[obj |-> <<x[1], x[2], 1>>, cache |-> cache[t]]}
<1>c. PICK c : c = cache[t]
  OBVIOUS
<1>s. PICK s : s = Len(slabs[c]) + 1
  OBVIOUS
<1> DEFINE x == <<c, s>>
           new == [freeList |-> <<c, s, 1>>, freeSlots |-> PerSlab]
           r == AllocateFromSlab(new, next')
           q == [i \in 1 .. PerSlab |-> <<c, s, i>>]
<1>1. /\ c \in Caches /\ Cardinality(SlabIds) < MaxSlabs
      /\ next' = Built(c, s) /\ slabs' = [slabs EXCEPT ![c] = Append(slabs[c], r)]
      /\ live' = live \cup {[obj |-> <<c, s, 1>>, cache |-> c]}
  BY <1>c, <1>s DEF AllocateNewSlab, IInv, CallsOK
<1>2. s \in 1 .. MaxSlabs /\ x \notin SlabIds
  BY <1>s, <1>1, SlabRoom DEF IInv
<1>3. TypeOK /\ PerSlab \in Nat \ {0} /\ MaxSlabs \in Nat /\ 1 \in 1 .. PerSlab
  BY SlabCacheAssumption DEF IInv
<1>4. <<c, s, 1>> \in Slots
  BY <1>1, <1>2, <1>3 DEF Slots
<1>5. next' \in [Slots -> Slots \cup NotSlots] /\ \A o \in Slots : <<o[1], o[2]>> # x => next'[o] = next[o]
  <2>1. next \in [Slots -> Slots \cup NotSlots] /\ Null \in NotSlots
    BY <1>3 DEF TypeOK, NotSlots
  <2>2. \A o \in Slots : o[3] \in 1 .. PerSlab /\ (o[3] # PerSlab => <<c, s, o[3] + 1>> \in Slots)
    BY <1>1, <1>2, <1>3 DEF Slots
  <2>3. next' = [o \in Slots |-> IF <<o[1], o[2]>> # <<c, s>> THEN next[o]
                                 ELSE IF o[3] = PerSlab THEN Null
                                 ELSE <<c, s, o[3] + 1>>]
    BY <1>1 DEF Built
  <2> QED
    BY <2>1, <2>2, <2>3
<1>6. /\ SlabPath(q, x, new, next') /\ q # <<>> /\ Head(q) = <<c, s, 1>>
      /\ Range(q) = {o \in Slots : <<o[1], o[2]>> = x}
  BY <1>1, <1>2, BuiltPath, Zenon
<1> HIDE DEF q
<1>7. SlabPath(Tail(q), x, r, next') /\ Range(Tail(q)) = Range(q) \ {<<c, s, 1>>}
  <2> DEFINE y == x
             n == new
  <2> HIDE DEF y, n
  <2>1. SlabPath(q, y, n, next') /\ q # <<>>
    BY <1>6 DEF y, n
  <2>2. Range(Tail(q)) = Range(q) \ {Head(q)} /\ SlabPath(Tail(q), y, AllocateFromSlab(n, next'), next')
    BY <2>1, PathPop, Zenon
  <2> QED
    BY <1>6, <2>2, Zenon DEF y, n
<1>8. r \in Slab
  BY <1>3, <1>4, <1>5 DEF Slab, AllocateFromSlab
<1>9. slabs \in [Caches -> Seq(Slab)] /\ slabs[c] \in Seq(Slab) /\ s = Len(slabs[c]) + 1 /\ s \in Nat
  BY <1>s, <1>1, <1>3 DEF TypeOK
<1> HIDE DEF r, x
<1>10. /\ Append(slabs[c], r) \in Seq(Slab) /\ Len(Append(slabs[c], r)) = s
       /\ Append(slabs[c], r)[s] = r
       /\ \A i \in 1 .. Len(slabs[c]) : Append(slabs[c], r)[i] = slabs[c][i]
  BY <1>8, <1>9, AppendRange
<1>11. /\ slabs' \in [Caches -> Seq(Slab)] /\ slabs'[c] = Append(slabs[c], r)
       /\ \A d \in Caches : d # c => slabs'[d] = slabs[d]
  BY <1>1, <1>9, <1>10
<1>12. \A d \in Caches : Len(slabs'[d]) <= MaxSlabs
  <2>1. s <= MaxSlabs /\ \A d \in Caches : Len(slabs[d]) <= MaxSlabs
    BY <1>2, <1>3 DEF TypeOK
  <2> QED
    BY <1>10, <1>11, <2>1, Zenon
<1>13. SlabIds' = SlabIds \cup {x}
  <2>1. ASSUME NEW y \in Caches \X (1 .. MaxSlabs)
        PROVE  y[2] <= Len(slabs'[y[1]]) <=> y[2] <= Len(slabs[y[1]]) \/ y = x
    <3>1. y[1] \in Caches /\ y[2] \in 1 .. MaxSlabs /\ y = <<y[1], y[2]>>
      OBVIOUS
    <3>2. CASE y[1] = c
      <4>1. y = x <=> y[2] = s
        BY <3>1, <3>2 DEF x
      <4>2. Len(slabs'[y[1]]) = s /\ Len(slabs[y[1]]) = s - 1 /\ s \in Nat /\ y[2] \in Nat
        BY <1>9, <1>10, <1>11, <3>1, <3>2
      <4> QED
        BY <4>1, <4>2
    <3>3. CASE y[1] # c
      <4>1. y # x
        BY <3>3 DEF x
      <4> QED
        BY <1>11, <3>1, <3>3, <4>1
    <3> QED
      BY <3>2, <3>3
  <2>2. x \in Caches \X (1 .. MaxSlabs)
    BY <1>1, <1>2 DEF x
  <2> QED
    BY <2>1, <2>2 DEF SlabIds
<1>14. slabs'[x[1]][x[2]] = r /\ x[1] = c /\ x[2] = s
  BY <1>10, <1>11 DEF x
<1>15. FreeChain(x)' = Range(Tail(q))
  <2>1. FreeChain(x)' = Range(Walk(slabs'[x[1]][x[2]].freeList, next')) \cap Slots
    BY DEF FreeChain
  <2> QED
    BY <1>7, <1>14, <2>1, PathChain
<1>16. ASSUME NEW y \in SlabIds
       PROVE  FreeChain(y)' = FreeChain(y) /\ \E p : SlabPath(p, y, slabs'[y[1]][y[2]], next')
  <2>1. y[1] \in Caches /\ y[2] \in DOMAIN slabs[y[1]] /\ slabs[y[1]] \in Seq(Slab) /\ y # x
    BY <1>2, <1>3, SlabOf DEF TypeOK
  <2>2. slabs'[y[1]][y[2]] = slabs[y[1]][y[2]]
    <3>1. CASE y[1] = c
      BY <1>10, <1>11, <2>1, <3>1
    <3>2. CASE y[1] # c
      BY <1>11, <2>1, <3>2, Zenon
    <3> QED
      BY <3>1, <3>2
  <2>3. PICK p : SlabPath(p, y, slabs[y[1]][y[2]], next)
    BY DEF IInv, PathsOK
  <2>4. \A o \in FreeChain(y) : next'[o] = next[o]
    <3>1. FreeChain(y) = Range(p) /\ p \in Seq(Slots) /\ y = <<y[1], y[2]>>
      BY <1>3, <2>3, ChainOf, SlabOf DEF SlabPath, Linked
    <3>2. \A i \in 1 .. Len(p) : p[i] \in Slots /\ <<p[i][1], p[i][2]>> = y
      BY <2>3, <3>1 DEF SlabPath
    <3> QED
      BY <1>5, <2>1, <3>1, <3>2 DEF Range
  <2> QED
    BY <2>2, <2>3, <2>4, SameChain
<1>17. PathsOK'
  BY <1>7, <1>13, <1>14, <1>16 DEF PathsOK
<1>18. Added(x)
  BY <1>2, <1>5, <1>6, <1>7, <1>11, <1>12, <1>13, <1>14, <1>15, <1>16, <1>17 DEF Added
<1> QED
  BY <1>c, <1>1, <1>4, <1>14, <1>18, Zenon

-----------------------------------------------------------------------------
(* The places of the slots from one step to the next. *)

(* A slot none of whose places changes. *)
LEMMA SamePlace ==
  ASSUME OnePlace, NEW p \in Slots, OnLists(p)' = OnLists(p), InMagazines(p)' = InMagazines(p),
         InHands(p)' = InHands(p), InCalls(p)' = InCalls(p),
         p \in lost' <=> p \in lost, p \in BuiltSlots' <=> p \in BuiltSlots
  PROVE  (IF p \in BuiltSlots THEN InOne(p) ELSE InNone(p))'
<1>1. IF p \in BuiltSlots THEN InOne(p) ELSE InNone(p)
  BY DEF OnePlace
<1> QED
  BY <1>1, Zenon DEF InOne, InNone, One, None

(* The magazine of t grows by o, loses its last slot or is destroyed. *)
LEMMA MagazinePush ==
  ASSUME TypeOK, NEW t \in Threads, NEW o \in Slots, Len(mag[t]) < MagazineSize,
         mag' = [mag EXCEPT ![t] = Append(@, o)]
  PROVE  /\ mag' \in [Threads -> Seq(Slots)] /\ \A u \in Threads : Len(mag'[u]) <= MagazineSize
         /\ InMagazines(o)' = InMagazines(o) \cup {<<t, Len(mag[t]) + 1>>}
         /\ \A p : p # o => InMagazines(p)' = InMagazines(p)
<1> DEFINE l == mag[t]
<1>1. /\ mag \in [Threads -> Seq(Slots)] /\ l \in Seq(Slots) /\ Len(l) \in Nat
      /\ MagazineSize \in Nat /\ Len(l) + 1 \in 1 .. MagazineSize
  BY SlabCacheAssumption DEF TypeOK
<1>2. /\ Append(l, o) \in Seq(Slots) /\ Len(Append(l, o)) = Len(l) + 1
      /\ Append(l, o)[Len(l) + 1] = o /\ \A i \in 1 .. Len(l) : Append(l, o)[i] = l[i]
  BY <1>1, AppendRange
<1>3. mag'[t] = Append(l, o) /\ \A u \in Threads : u # t => mag'[u] = mag[u]
  BY <1>1
<1>4. mag' \in [Threads -> Seq(Slots)]
  BY <1>1, <1>2
<1>5. \A u \in Threads : Len(mag'[u]) <= MagazineSize
  <2>1. Len(l) + 1 <= MagazineSize /\ \A u \in Threads : Len(mag[u]) <= MagazineSize
    BY <1>1 DEF TypeOK
  <2> QED
    BY <1>2, <1>3, <2>1, Zenon
<1> HIDE DEF l
<1>6. ASSUME NEW x \in Threads \X (1 .. MagazineSize), NEW p
      PROVE  x[2] <= Len(mag'[x[1]]) /\ mag'[x[1]][x[2]] = p
             <=> \/ x[2] <= Len(mag[x[1]]) /\ mag[x[1]][x[2]] = p
                 \/ x = <<t, Len(l) + 1>> /\ p = o
  <2>1. x[1] \in Threads /\ x[2] \in 1 .. MagazineSize /\ x = <<x[1], x[2]>>
    OBVIOUS
  <2>2. CASE x[1] # t
    BY <1>3, <2>1, <2>2
  <2>3. CASE x[1] = t
    <3>1. x = <<t, Len(l) + 1>> <=> x[2] = Len(l) + 1
      BY <2>1, <2>3
    <3>2. mag'[x[1]] = Append(l, o) /\ mag[x[1]] = l
      BY <1>3, <2>3 DEF l
    <3>3. x[2] <= Len(l) => Append(l, o)[x[2]] = l[x[2]]
      BY <1>1, <1>2, <2>1
    <3>4. x[2] <= Len(l) + 1 <=> x[2] <= Len(l) \/ x[2] = Len(l) + 1
      BY <1>1, <2>1
    <3>5. ~ (x[2] = Len(l) + 1 /\ x[2] <= Len(l))
      BY <1>1, <2>1
    <3> QED
      BY <1>2, <3>1, <3>2, <3>3, <3>4, <3>5, Zenon
  <2> QED
    BY <2>2, <2>3
<1>7. <<t, Len(l) + 1>> \in Threads \X (1 .. MagazineSize)
  BY <1>1
<1>8. InMagazines(o)' = InMagazines(o) \cup {<<t, Len(l) + 1>>}
  BY <1>6, <1>7 DEF InMagazines
<1>9. ASSUME NEW p, p # o PROVE InMagazines(p)' = InMagazines(p)
  BY <1>6, <1>9 DEF InMagazines
<1> QED
  BY <1>4, <1>5, <1>8, <1>9 DEF l

(* A fast Allocate takes the last slot off the magazine. *)
LEMMA MagazinePop ==
  ASSUME TypeOK, NEW t \in Threads, mag[t] # <<>>, mag' = [mag EXCEPT ![t] = PopBack(@)]
  PROVE  /\ mag' \in [Threads -> Seq(Slots)] /\ \A u \in Threads : Len(mag'[u]) <= MagazineSize
         /\ Back(mag[t]) \in Slots /\ <<t, Len(mag[t])>> \in InMagazines(Back(mag[t]))
         /\ \A p : InMagazines(p)' = InMagazines(p) \ {<<t, Len(mag[t])>>}
         /\ \A p : p # Back(mag[t]) => InMagazines(p)' = InMagazines(p)
<1> DEFINE l == mag[t]
           n == Len(l)
           f == SubSeq(l, 1, n - 1)
<1>1. /\ mag \in [Threads -> Seq(Slots)] /\ l \in Seq(Slots) /\ n \in Nat \ {0}
      /\ MagazineSize \in Nat /\ n \in 1 .. MagazineSize /\ n \in 1 .. n
  BY SlabCacheAssumption DEF TypeOK
<1>2. f \in Seq(Slots) /\ Len(f) = n - 1 /\ \A i \in 1 .. n - 1 : f[i] = l[i]
  BY <1>1, FrontAt
<1>3. Back(l) = l[n] /\ Back(l) \in Slots
  BY <1>1 DEF Back
<1>4. /\ mag' \in [Threads -> Seq(Slots)]
      /\ mag'[t] = f /\ \A u \in Threads : u # t => mag'[u] = mag[u]
  BY <1>1, <1>2 DEF PopBack
<1>5. \A u \in Threads : Len(mag'[u]) <= MagazineSize
  <2>1. n - 1 <= MagazineSize /\ \A u \in Threads : Len(mag[u]) <= MagazineSize
    BY <1>1 DEF TypeOK
  <2> QED
    BY <1>2, <1>4, <2>1, Zenon
<1> HIDE DEF l, n, f
<1>6. ASSUME NEW x \in Threads \X (1 .. MagazineSize), NEW p
      PROVE  x[2] <= Len(mag'[x[1]]) /\ mag'[x[1]][x[2]] = p
             <=> x[2] <= Len(mag[x[1]]) /\ mag[x[1]][x[2]] = p /\ x # <<t, n>>
  <2>1. x[1] \in Threads /\ x[2] \in 1 .. MagazineSize /\ x = <<x[1], x[2]>>
    OBVIOUS
  <2>2. CASE x[1] # t
    <3>1. x # <<t, n>>
      BY <2>2
    <3> QED
      BY <1>4, <2>1, <2>2, <3>1, Zenon
  <2>3. CASE x[1] = t
    <3>1. x = <<t, n>> <=> x[2] = n
      BY <2>1, <2>3
    <3>2. mag'[x[1]] = f /\ mag[x[1]] = l /\ Len(l) = n
      BY <1>4, <2>3 DEF l, n
    <3>3. x[2] <= n - 1 => f[x[2]] = l[x[2]]
      BY <1>1, <1>2, <2>1
    <3>4. x[2] <= n - 1 <=> x[2] <= n /\ x[2] # n
      BY <1>1, <2>1
    <3> QED
      BY <1>2, <3>1, <3>2, <3>3, <3>4, Zenon
  <2> QED
    BY <2>2, <2>3
<1>7. ASSUME NEW p PROVE InMagazines(p)' = InMagazines(p) \ {<<t, n>>}
  <2>1. \A x : x \in InMagazines(p)' <=> x \in InMagazines(p) /\ x # <<t, n>>
    BY <1>6, Zenon DEF InMagazines
  <2> QED
    BY <2>1
<1>8. <<t, n>> \in Threads \X (1 .. MagazineSize) /\ n <= n
  BY <1>1
<1>9. \A p : <<t, n>> \in InMagazines(p) <=> p = Back(l)
  <2>1. Back(l) = mag[t][n] /\ n <= Len(mag[t])
    BY <1>3, <1>8 DEF l, n
  <2> QED
    BY <1>8, <2>1 DEF InMagazines
<1>10. ASSUME NEW p, p # Back(l) PROVE InMagazines(p)' = InMagazines(p)
  <2>1. <<t, n>> \notin InMagazines(p) /\ InMagazines(p)' = InMagazines(p) \ {<<t, n>>}
    BY <1>7, <1>9, <1>10, Zenon
  <2> QED
    BY <2>1
<1> QED
  BY <1>3, <1>4, <1>5, <1>7, <1>9, <1>10, Zenon DEF l, n

(* An object is handed out or given back. *)
LEMMA HandsAdd ==
  ASSUME NEW o, NEW c, live' = live \cup {[obj |-> o, cache |-> c]}
  PROVE  /\ InHands(o)' = InHands(o) \cup {[obj |-> o, cache |-> c]}
         /\ \A p : p # o => InHands(p)' = InHands(p)
<1> DEFINE h == [obj |-> o, cache |-> c]
<1>1. h.obj = o /\ live' = live \cup {h}
  OBVIOUS
<1> HIDE DEF h
<1>2. InHands(o)' = InHands(o) \cup {h}
  BY <1>1 DEF InHands
<1>3. ASSUME NEW p, p # o PROVE InHands(p)' = InHands(p)
  BY <1>1, <1>3 DEF InHands
<1> QED
  BY <1>2, <1>3 DEF h

(* Free takes the object from the caller. *)
LEMMA HandsTake ==
  ASSUME NEW h \in live, live' = live \ {h}
  PROVE  /\ h \in InHands(h.obj)
         /\ InHands(h.obj)' = InHands(h.obj) \ {h}
         /\ \A p : p # h.obj => InHands(p)' = InHands(p)
<1>1. h \in InHands(h.obj)
  BY DEF InHands
<1>2. InHands(h.obj)' = InHands(h.obj) \ {h}
  BY DEF InHands
<1>3. ASSUME NEW p, p # h.obj PROVE InHands(p)' = InHands(p)
  BY <1>3 DEF InHands
<1> QED
  BY <1>1, <1>2, <1>3

(* A call on the slow path returns. *)
LEMMA ReturnCalls ==
  ASSUME TypeOK, CallsOK, NEW t \in Threads, Return(t), crashed' = crashed
  PROVE  /\ pc' \in [Threads -> {"idle", "allocSlow", "freeSlow"}]
         /\ cache' \in [Threads -> Caches \cup {Null}] /\ ptr' \in [Threads -> Slots \cup {Null}]
         /\ CallsOK'
         /\ \A p : InCalls(p)' = InCalls(p) \ {t}
<1>1. /\ pc \in [Threads -> {"idle", "allocSlow", "freeSlow"}]
      /\ cache \in [Threads -> Caches \cup {Null}] /\ ptr \in [Threads -> Slots \cup {Null}]
  BY DEF TypeOK
<1>2. pc'[t] = "idle" /\ \A u \in Threads : u # t => pc'[u] = pc[u] /\ cache'[u] = cache[u] /\ ptr'[u] = ptr[u]
  BY <1>1 DEF Return
<1>3. /\ pc' \in [Threads -> {"idle", "allocSlow", "freeSlow"}]
      /\ cache' \in [Threads -> Caches \cup {Null}] /\ ptr' \in [Threads -> Slots \cup {Null}]
  BY <1>1 DEF Return
<1>4. CallsOK'
  BY <1>2 DEF CallsOK
<1>5. ASSUME NEW p PROVE InCalls(p)' = InCalls(p) \ {t}
  BY <1>2 DEF InCalls
<1> QED
  BY <1>3, <1>4, <1>5

-----------------------------------------------------------------------------
(* Every step preserves the invariant. *)

(* Allocate from the magazine: the slot moves to the caller's hands.        *)
LEMMA StepAllocateFast ==
  ASSUME IInv, NEW t \in Threads, NEW c \in Caches, AllocateFast(t, c)
  PROVE  IInv'
<1>o. PICK o : o = Back(mag[t])
  OBVIOUS
<1>1. /\ mag[t] # <<>> /\ live' = live \cup {[obj |-> o, cache |-> c]}
      /\ mag' = [mag EXCEPT ![t] = PopBack(@)]
      /\ UNCHANGED <<slabs, next>> /\ UNCHANGED <<pc, cache, ptr, lost, crashed>>
  BY <1>o DEF AllocateFast
<1>2. TypeOK /\ CallsOK /\ PathsOK /\ OnePlace
  BY DEF IInv
<1>3. /\ mag' \in [Threads -> Seq(Slots)] /\ \A u \in Threads : Len(mag'[u]) <= MagazineSize
      /\ o \in Slots /\ <<t, Len(mag[t])>> \in InMagazines(o)
      /\ InMagazines(o)' = InMagazines(o) \ {<<t, Len(mag[t])>>}
      /\ \A p : p # o => InMagazines(p)' = InMagazines(p)
  BY <1>o, <1>1, <1>2, MagazinePop
<1>4. BuiltSlots' = BuiltSlots /\ PathsOK' /\ \A p : OnLists(p)' = OnLists(p)
  BY <1>1, <1>2, SameLists
<1>5. /\ InHands(o)' = InHands(o) \cup {[obj |-> o, cache |-> c]}
      /\ \A p : p # o => InHands(p)' = InHands(p)
  BY <1>1, HandsAdd
<1>6. CallsOK' /\ \A p : InCalls(p)' = InCalls(p)
  BY <1>1, <1>2 DEF CallsOK, InCalls
<1>7. TypeOK'
  <2>1. live' \subseteq [obj : Slots, cache : Caches]
    BY <1>1, <1>2, <1>3 DEF TypeOK
  <2> QED
    BY <1>1, <1>2, <1>3, <2>1 DEF TypeOK
<1>8. InOne(o)' /\ o \in BuiltSlots'
  <2>1. /\ OnLists(o) = {} /\ InMagazines(o) = {<<t, Len(mag[t])>>} /\ InHands(o) = {}
        /\ InCalls(o) = {} /\ o \notin lost /\ o \in BuiltSlots
    BY <1>2, <1>3, Placed
  <2>2. /\ OnLists(o)' = {} /\ InMagazines(o)' = {} /\ InHands(o)' = {[obj |-> o, cache |-> c]}
        /\ InCalls(o)' = {} /\ o \notin lost' /\ o \in BuiltSlots'
    BY <1>1, <1>3, <1>4, <1>5, <1>6, <2>1
  <2> QED
    BY <2>2, Zenon DEF InOne, One
<1>9. ASSUME NEW p \in Slots, p # o
      PROVE  (IF p \in BuiltSlots THEN InOne(p) ELSE InNone(p))'
  BY <1>1, <1>2, <1>3, <1>4, <1>5, <1>6, <1>9, SamePlace, Zenon
<1>10. OnePlace'
  BY <1>8, <1>9, Zenon DEF OnePlace
<1> QED
  BY <1>4, <1>6, <1>7, <1>10 DEF IInv

(* Allocate finds the magazine empty: no slot moves. *)
LEMMA StepAllocateMiss ==
  ASSUME IInv, NEW t \in Threads, NEW c \in Caches, AllocateMiss(t, c)
  PROVE  IInv'
<1>1. /\ pc[t] = "idle"
      /\ pc' = [pc EXCEPT ![t] = "allocSlow"] /\ cache' = [cache EXCEPT ![t] = c]
      /\ UNCHANGED <<slabs, next>> /\ UNCHANGED <<mag, live, ptr, lost, crashed>>
  BY DEF AllocateMiss
<1>2. TypeOK /\ CallsOK /\ PathsOK /\ OnePlace
  BY DEF IInv
<1>3. BuiltSlots' = BuiltSlots /\ PathsOK' /\ \A p : OnLists(p)' = OnLists(p)
  BY <1>1, <1>2, SameLists
<1>4. /\ pc'[t] = "allocSlow" /\ cache'[t] = c
      /\ \A u \in Threads : u # t => pc'[u] = pc[u] /\ cache'[u] = cache[u]
      /\ pc' \in [Threads -> {"idle", "allocSlow", "freeSlow"}]
      /\ cache' \in [Threads -> Caches \cup {Null}]
  BY <1>1, <1>2 DEF TypeOK
<1>5. TypeOK'
  BY <1>1, <1>2, <1>4 DEF TypeOK
<1>6. CallsOK'
  BY <1>1, <1>2, <1>4 DEF CallsOK
<1>7. \A p : InCalls(p)' = InCalls(p)
  BY <1>1, <1>4 DEF InCalls
<1>8. \A p : InMagazines(p)' = InMagazines(p) /\ InHands(p)' = InHands(p)
  BY <1>1 DEF InMagazines, InHands
<1>9. ASSUME NEW p \in Slots PROVE (IF p \in BuiltSlots THEN InOne(p) ELSE InNone(p))'
  BY <1>1, <1>2, <1>3, <1>7, <1>8, SamePlace, Zenon
<1>10. OnePlace'
  BY <1>9 DEF OnePlace
<1> QED
  BY <1>3, <1>5, <1>6, <1>10 DEF IInv

(* Free into the magazine: the slot moves there from the caller's hands.    *)
LEMMA StepFreeFast ==
  ASSUME IInv, NEW t \in Threads, NEW h \in live, FreeFast(t, h)
  PROVE  IInv'
<1>o. PICK o : o = h.obj
  OBVIOUS
<1>1. /\ Len(mag[t]) < MagazineSize /\ live' = live \ {h}
      /\ mag' = [mag EXCEPT ![t] = Append(@, o)]
      /\ UNCHANGED <<slabs, next>> /\ UNCHANGED <<pc, cache, ptr, lost, crashed>>
  BY <1>o DEF FreeFast
<1>2. TypeOK /\ CallsOK /\ PathsOK /\ OnePlace
  BY DEF IInv
<1>3. o \in Slots
  BY <1>o, <1>2 DEF TypeOK
<1>4. /\ mag' \in [Threads -> Seq(Slots)] /\ \A u \in Threads : Len(mag'[u]) <= MagazineSize
      /\ InMagazines(o)' = InMagazines(o) \cup {<<t, Len(mag[t]) + 1>>}
      /\ \A p : p # o => InMagazines(p)' = InMagazines(p)
  BY <1>1, <1>2, <1>3, MagazinePush
<1>5. BuiltSlots' = BuiltSlots /\ PathsOK' /\ \A p : OnLists(p)' = OnLists(p)
  BY <1>1, <1>2, SameLists
<1>6. h \in InHands(o) /\ InHands(o)' = InHands(o) \ {h} /\ \A p : p # o => InHands(p)' = InHands(p)
  BY <1>o, <1>1, HandsTake
<1>7. CallsOK' /\ \A p : InCalls(p)' = InCalls(p)
  BY <1>1, <1>2 DEF CallsOK, InCalls
<1>8. TypeOK'
  BY <1>1, <1>2, <1>4 DEF TypeOK
<1>9. InOne(o)' /\ o \in BuiltSlots'
  <2>1. /\ OnLists(o) = {} /\ InMagazines(o) = {} /\ InHands(o) = {h}
        /\ InCalls(o) = {} /\ o \notin lost /\ o \in BuiltSlots
    BY <1>2, <1>3, <1>6, Placed
  <2>2. /\ OnLists(o)' = {} /\ InMagazines(o)' = {<<t, Len(mag[t]) + 1>>} /\ InHands(o)' = {}
        /\ InCalls(o)' = {} /\ o \notin lost' /\ o \in BuiltSlots'
    BY <1>1, <1>4, <1>5, <1>6, <1>7, <2>1
  <2> QED
    BY <2>2, Zenon DEF InOne, One
<1>10. ASSUME NEW p \in Slots, p # o
       PROVE  (IF p \in BuiltSlots THEN InOne(p) ELSE InNone(p))'
  BY <1>1, <1>2, <1>4, <1>5, <1>6, <1>7, <1>10, SamePlace, Zenon
<1>11. OnePlace'
  BY <1>9, <1>10, Zenon DEF OnePlace
<1> QED
  BY <1>5, <1>7, <1>8, <1>11 DEF IInv

(* Free finds the magazine full: the slot moves into the call.              *)
LEMMA StepFreeMiss ==
  ASSUME IInv, NEW t \in Threads, NEW h \in live, FreeMiss(t, h)
  PROVE  IInv'
<1>o. PICK o : o = h.obj
  OBVIOUS
<1>1. /\ pc[t] = "idle" /\ live' = live \ {h}
      /\ pc' = [pc EXCEPT ![t] = "freeSlow"] /\ cache' = [cache EXCEPT ![t] = h.cache]
      /\ ptr' = [ptr EXCEPT ![t] = o]
      /\ UNCHANGED <<slabs, next>> /\ UNCHANGED <<mag, lost, crashed>>
  BY <1>o DEF FreeMiss
<1>2. TypeOK /\ CallsOK /\ PathsOK /\ OnePlace
  BY DEF IInv
<1>3. o \in Slots /\ h.cache \in Caches
  BY <1>o, <1>2 DEF TypeOK
<1>4. BuiltSlots' = BuiltSlots /\ PathsOK' /\ \A p : OnLists(p)' = OnLists(p)
  BY <1>1, <1>2, SameLists
<1>5. h \in InHands(o) /\ InHands(o)' = InHands(o) \ {h} /\ \A p : p # o => InHands(p)' = InHands(p)
  BY <1>o, <1>1, HandsTake
<1>6. /\ pc'[t] = "freeSlow" /\ cache'[t] = h.cache /\ ptr'[t] = o
      /\ \A u \in Threads : u # t => pc'[u] = pc[u] /\ cache'[u] = cache[u] /\ ptr'[u] = ptr[u]
  BY <1>1, <1>2 DEF TypeOK
<1>7. /\ pc' \in [Threads -> {"idle", "allocSlow", "freeSlow"}]
      /\ cache' \in [Threads -> Caches \cup {Null}] /\ ptr' \in [Threads -> Slots \cup {Null}]
  BY <1>1, <1>2, <1>3 DEF TypeOK
<1>8. TypeOK'
  BY <1>1, <1>2, <1>7 DEF TypeOK
<1>9. CallsOK'
  BY <1>1, <1>2, <1>3, <1>6 DEF CallsOK
<1>10. InCalls(o)' = InCalls(o) \cup {t}
  BY <1>1, <1>6 DEF InCalls
<1>11. ASSUME NEW p, p # o PROVE InCalls(p)' = InCalls(p)
  BY <1>1, <1>6, <1>11 DEF InCalls
<1>12. \A p : InMagazines(p)' = InMagazines(p)
  BY <1>1 DEF InMagazines
<1>13. InOne(o)' /\ o \in BuiltSlots'
  <2>1. /\ OnLists(o) = {} /\ InMagazines(o) = {} /\ InHands(o) = {h}
        /\ InCalls(o) = {} /\ o \notin lost /\ o \in BuiltSlots
    BY <1>2, <1>3, <1>5, Placed
  <2>2. /\ OnLists(o)' = {} /\ InMagazines(o)' = {} /\ InHands(o)' = {}
        /\ InCalls(o)' = {t} /\ o \notin lost' /\ o \in BuiltSlots'
    BY <1>1, <1>4, <1>5, <1>10, <1>12, <2>1
  <2> QED
    BY <2>2, Zenon DEF InOne, One
<1>14. ASSUME NEW p \in Slots, p # o
       PROVE  (IF p \in BuiltSlots THEN InOne(p) ELSE InNone(p))'
  BY <1>1, <1>2, <1>4, <1>5, <1>11, <1>12, <1>14, SamePlace, Zenon
<1>15. OnePlace'
  BY <1>13, <1>14, Zenon DEF OnePlace
<1> QED
  BY <1>4, <1>8, <1>9, <1>15 DEF IInv

(* One slab's free slots change: what that means for the slots. *)
LEMMA ReplacedPlaces ==
  ASSUME NEW x \in SlabIds, NEW f, Replaced(x, f)
  PROVE  /\ BuiltSlots' = BuiltSlots
         /\ \A p : (p \in f <=> p \in FreeChain(x)) => OnLists(p)' = OnLists(p)
         /\ \A p : p \in f => OnLists(p)' = OnLists(p) \cup {x}
         /\ \A p : p \notin f => OnLists(p)' = OnLists(p) \ {x}
<1>1. SlabIds' = SlabIds
  BY DEF Replaced
<1>2. ASSUME NEW p, NEW y
      PROVE  y \in OnLists(p)' <=> y \in SlabIds /\ IF y = x THEN p \in f ELSE p \in FreeChain(y)
  <2>1. y \in OnLists(p)' <=> y \in SlabIds /\ p \in FreeChain(y)'
    BY <1>1, Zenon DEF OnLists
  <2> QED
    BY <2>1 DEF Replaced
<1>3. \A p, y : y \in OnLists(p) <=> y \in SlabIds /\ p \in FreeChain(y)
  BY DEF OnLists
<1>4. BuiltSlots' = BuiltSlots
  BY <1>1 DEF BuiltSlots
<1>5. ASSUME NEW p, p \in f <=> p \in FreeChain(x) PROVE OnLists(p)' = OnLists(p)
  <2>1. \A y : y \in OnLists(p)' <=> y \in OnLists(p)
    BY <1>2, <1>3, <1>5, Zenon
  <2> QED
    BY <2>1
<1>6. ASSUME NEW p, p \in f PROVE OnLists(p)' = OnLists(p) \cup {x}
  <2>1. \A y : y \in OnLists(p)' <=> y \in OnLists(p) \/ y = x
    BY <1>2, <1>3, <1>6, Zenon
  <2> QED
    BY <2>1
<1>7. ASSUME NEW p, p \notin f PROVE OnLists(p)' = OnLists(p) \ {x}
  <2>1. \A y : y \in OnLists(p)' <=> y \in OnLists(p) /\ y # x
    BY <1>2, <1>3, <1>7, Zenon
  <2> QED
    BY <2>1
<1> QED
  BY <1>4, <1>5, <1>6, <1>7, Zenon

(* Allocate from a slab: the first slot of its list goes to the caller.     *)
LEMMA StepAllocateFromExisting ==
  ASSUME IInv, NEW t \in Threads, AllocateFromExisting(t)
  PROVE  IInv'
<1>1. /\ pc[t] = "allocSlow" /\ Return(t) /\ UNCHANGED <<next, mag, lost>>
  BY DEF AllocateFromExisting
<1>2. TypeOK /\ CallsOK /\ PathsOK /\ OnePlace
  BY DEF IInv
<1>c. PICK c : c = cache[t]
  OBVIOUS
<1>3. c \in Caches /\ UNCHANGED crashed
  BY <1>c, TakeLists
<1>4. PICK x \in SlabIds, o \in Slots :
        /\ o \in FreeChain(x) /\ Replaced(x, FreeChain(x) \ {o})
        /\ live' = live \cup {[obj |-> o, cache |-> c]}
  BY <1>c, TakeLists
<1>5. /\ BuiltSlots' = BuiltSlots
      /\ OnLists(o)' = OnLists(o) \ {x} /\ \A p : p # o => OnLists(p)' = OnLists(p)
  <2> DEFINE f == FreeChain(x) \ {o}
  <2>1. o \notin f /\ \A p : p # o => (p \in f <=> p \in FreeChain(x))
    BY <1>4
  <2> HIDE DEF f
  <2>2. Replaced(x, f)
    BY <1>4 DEF f
  <2> QED
    BY <2>1, <2>2, ReplacedPlaces, Zenon
<1>6. /\ InHands(o)' = InHands(o) \cup {[obj |-> o, cache |-> c]}
      /\ \A p : p # o => InHands(p)' = InHands(p)
  BY <1>4, HandsAdd
<1>7. /\ pc' \in [Threads -> {"idle", "allocSlow", "freeSlow"}]
      /\ cache' \in [Threads -> Caches \cup {Null}] /\ ptr' \in [Threads -> Slots \cup {Null}]
      /\ CallsOK' /\ \A p : InCalls(p)' = InCalls(p) \ {t}
  BY <1>1, <1>2, <1>3, ReturnCalls
<1>8. ASSUME NEW p PROVE InCalls(p)' = InCalls(p)
  <2>1. t \notin InCalls(p)
    BY <1>1 DEF InCalls
  <2> QED
    BY <1>7, <2>1
<1>9. \A p : InMagazines(p)' = InMagazines(p)
  BY <1>1 DEF InMagazines
<1>10. TypeOK'
  <2>1. live' \subseteq [obj : Slots, cache : Caches]
    BY <1>2, <1>3, <1>4 DEF TypeOK
  <2>2. slabs' \in [Caches -> Seq(Slab)] /\ \A d \in Caches : Len(slabs'[d]) <= MaxSlabs
    <3>1. slabs' \in [Caches -> Seq(Slab)] /\ \A d \in Caches : Len(slabs'[d]) = Len(slabs[d])
      BY <1>4 DEF Replaced
    <3>2. \A d \in Caches : Len(slabs[d]) <= MaxSlabs
      BY <1>2 DEF TypeOK
    <3> QED
      BY <3>1, <3>2, Zenon
  <2> QED
    BY <1>1, <1>2, <1>3, <1>7, <2>1, <2>2 DEF TypeOK
<1>11. InOne(o)' /\ o \in BuiltSlots'
  <2>1. x \in OnLists(o)
    BY <1>4 DEF OnLists
  <2>2. /\ OnLists(o) = {x} /\ InMagazines(o) = {} /\ InHands(o) = {}
        /\ InCalls(o) = {} /\ o \notin lost /\ o \in BuiltSlots
    BY <1>2, <2>1, Placed
  <2>3. /\ OnLists(o)' = {} /\ InMagazines(o)' = {} /\ InHands(o)' = {[obj |-> o, cache |-> c]}
        /\ InCalls(o)' = {} /\ o \notin lost' /\ o \in BuiltSlots'
    BY <1>1, <1>5, <1>6, <1>8, <1>9, <2>2
  <2> QED
    BY <2>3, Zenon DEF InOne, One
<1>12. ASSUME NEW p \in Slots, p # o
       PROVE  (IF p \in BuiltSlots THEN InOne(p) ELSE InNone(p))'
  BY <1>1, <1>2, <1>5, <1>6, <1>8, <1>9, <1>12, SamePlace, Zenon
<1>13. OnePlace'
  BY <1>11, <1>12, Zenon DEF OnePlace
<1>14. PathsOK'
  BY <1>4 DEF Replaced
<1> QED
  BY <1>7, <1>10, <1>13, <1>14 DEF IInv

(* Allocate with a new slab: its slots come into being, the first in the    *)
(* caller's hands and the others on its list.                               *)
LEMMA StepAllocateNewSlab ==
  ASSUME IInv, ~ Clobbers, NEW t \in Threads, AllocateNewSlab(t)
  PROVE  IInv'
<1>1. pc[t] = "allocSlow" /\ Return(t) /\ UNCHANGED <<mag, lost, crashed>>
  BY DEF AllocateNewSlab
<1>2. TypeOK /\ CallsOK /\ PathsOK /\ OnePlace
  BY DEF IInv
<1>c. PICK c : c = cache[t]
  OBVIOUS
<1>3. PICK x : /\ Added(x) /\ <<x[1], x[2], 1>> \in Slots
               /\ live' = live \cup {[obj |-> <<x[1], x[2], 1>>, cache |-> c]}
  BY <1>c, NewLists
<1>4. c \in Caches
  BY <1>c, NewLists
<1> DEFINE o == <<x[1], x[2], 1>>
           h == [obj |-> o, cache |-> c]
           of == {p \in Slots : <<p[1], p[2]>> = x}
<1>5. x \notin SlabIds /\ SlabIds' = SlabIds \cup {x} /\ FreeChain(x)' = of \ {o}
      /\ \A y \in SlabIds : FreeChain(y)' = FreeChain(y)
  BY <1>3 DEF Added
<1>6. x = <<x[1], x[2]>>
  <2>1. x \in SlabIds'
    BY <1>5
  <2> QED
    BY <2>1 DEF SlabIds
<1>7. o \in of /\ o \in Slots
  BY <1>3, <1>6
<1>8. /\ InHands(o)' = InHands(o) \cup {h} /\ \A p : p # o => InHands(p)' = InHands(p)
  BY <1>3, HandsAdd
<1>9. /\ pc' \in [Threads -> {"idle", "allocSlow", "freeSlow"}]
      /\ cache' \in [Threads -> Caches \cup {Null}] /\ ptr' \in [Threads -> Slots \cup {Null}]
      /\ CallsOK' /\ \A p : InCalls(p)' = InCalls(p) \ {t}
  BY <1>1, <1>2, ReturnCalls
<1>10. ASSUME NEW p PROVE InCalls(p)' = InCalls(p)
  <2>1. t \notin InCalls(p)
    BY <1>1 DEF InCalls
  <2> QED
    BY <1>9, <2>1
<1>11. \A p : InMagazines(p)' = InMagazines(p)
  BY <1>1 DEF InMagazines
<1>12. \A p \in Slots : /\ p \in BuiltSlots' <=> p \in BuiltSlots \/ p \in of
                        /\ p \in of => p \notin BuiltSlots
  BY <1>5 DEF BuiltSlots
<1> HIDE DEF o, h, of
<1>13. ASSUME NEW p \in Slots PROVE OnLists(p)' = IF p \in of \ {o} THEN OnLists(p) \cup {x} ELSE OnLists(p)
  <2>1. \A y : y \in OnLists(p)' <=> (y \in SlabIds \/ y = x) /\ p \in FreeChain(y)'
    BY <1>5 DEF OnLists
  <2>2. \A y : y \in OnLists(p) <=> y \in SlabIds /\ p \in FreeChain(y)
    BY DEF OnLists
  <2>3. \A y : y \in OnLists(p)' <=> y \in OnLists(p) \/ (y = x /\ p \in of \ {o})
    BY <1>5, <2>1, <2>2, Zenon
  <2> QED
    BY <2>3
<1>14. TypeOK'
  <2>1. live' \subseteq [obj : Slots, cache : Caches]
    <3>1. o \in Slots /\ live \subseteq [obj : Slots, cache : Caches] /\ live' = live \cup {[obj |-> o, cache |-> c]}
      BY <1>2, <1>3 DEF TypeOK, o
    <3> QED
      BY <1>4, <3>1
  <2>2. /\ slabs' \in [Caches -> Seq(Slab)] /\ \A d \in Caches : Len(slabs'[d]) <= MaxSlabs
        /\ next' \in [Slots -> Slots \cup NotSlots]
    BY <1>3 DEF Added
  <2> QED
    BY <1>1, <1>2, <1>9, <2>1, <2>2 DEF TypeOK
<1>15. ASSUME NEW p \in Slots
       PROVE  (IF p \in BuiltSlots THEN InOne(p) ELSE InNone(p))'
  <2>1. CASE p \notin of
    <3>1. p # o
      BY <1>7, <2>1
    <3> QED
      BY <1>1, <1>2, <1>8, <1>10, <1>11, <1>12, <1>13, <2>1, <3>1, SamePlace
  <2>2. CASE p \in of
    <3>1. p \notin BuiltSlots /\ p \in BuiltSlots'
      BY <1>12, <2>2
    <3>2. OnLists(p) = {} /\ InMagazines(p) = {} /\ InHands(p) = {} /\ InCalls(p) = {} /\ p \notin lost
      BY <1>2, <3>1, Zenon DEF OnePlace, InNone, None
    <3>3. InMagazines(p)' = {} /\ InCalls(p)' = {} /\ p \notin lost'
      BY <1>1, <1>10, <1>11, <3>2
    <3>4. CASE p = o
      <4>1. OnLists(p)' = {} /\ InHands(p)' = {h}
        BY <1>8, <1>13, <3>2, <3>4
      <4> QED
        BY <3>1, <3>3, <4>1, Zenon DEF InOne, One
    <3>5. CASE p # o
      <4>1. OnLists(p)' = {x} /\ InHands(p)' = {}
        BY <1>8, <1>13, <2>2, <3>2, <3>5
      <4> QED
        BY <3>1, <3>3, <4>1, Zenon DEF InOne, One
    <3> QED
      BY <3>4, <3>5
  <2> QED
    BY <2>1, <2>2
<1>16. OnePlace'
  BY <1>15, Zenon DEF OnePlace
<1>17. PathsOK'
  BY <1>3 DEF Added
<1> QED
  BY <1>9, <1>14, <1>16, <1>17 DEF IInv

(* Free on the slow path: the slot moves from the call to its slab's list,  *)
(* or out of reach.                                                         *)
LEMMA StepFreeSlow ==
  ASSUME IInv, NEW t \in Threads, FreeSlow(t)
  PROVE  IInv'
<1>o. PICK o : o = ptr[t]
  OBVIOUS
<1>1. Return(t) /\ UNCHANGED <<mag, live, crashed>>
  BY DEF FreeSlow
<1>2. TypeOK /\ CallsOK /\ PathsOK /\ OnePlace
  BY DEF IInv
<1>3. o \in Slots /\ t \in InCalls(o)
  BY <1>o, PutLists
<1>4. \A p : InMagazines(p)' = InMagazines(p) /\ InHands(p)' = InHands(p)
  BY <1>1 DEF InMagazines, InHands
<1>5. /\ pc' \in [Threads -> {"idle", "allocSlow", "freeSlow"}]
      /\ cache' \in [Threads -> Caches \cup {Null}] /\ ptr' \in [Threads -> Slots \cup {Null}]
      /\ CallsOK' /\ \A p : InCalls(p)' = InCalls(p) \ {t}
  BY <1>1, <1>2, ReturnCalls
<1>6. ASSUME NEW p, p # o PROVE InCalls(p)' = InCalls(p)
  <2>1. t \notin InCalls(p)
    BY <1>o, <1>6 DEF InCalls
  <2> QED
    BY <1>5, <2>1
<1>7. /\ OnLists(o) = {} /\ InMagazines(o) = {} /\ InHands(o) = {}
      /\ InCalls(o) = {t} /\ o \notin lost /\ o \in BuiltSlots
  BY <1>2, <1>3, Placed
<1>8. InMagazines(o)' = {} /\ InHands(o)' = {} /\ InCalls(o)' = {}
  BY <1>4, <1>5, <1>7
<1>9. CASE /\ \E x \in SlabIds : Replaced(x, FreeChain(x) \cup {o})
           /\ next' \in [Slots -> Slots \cup NotSlots]
           /\ UNCHANGED lost
  <2>1. PICK x \in SlabIds : Replaced(x, FreeChain(x) \cup {o})
    BY <1>9
  <2>2. /\ BuiltSlots' = BuiltSlots
        /\ OnLists(o)' = OnLists(o) \cup {x} /\ \A p : p # o => OnLists(p)' = OnLists(p)
    <3> DEFINE f == FreeChain(x) \cup {o}
    <3>1. o \in f /\ \A p : p # o => (p \in f <=> p \in FreeChain(x))
      OBVIOUS
    <3> HIDE DEF f
    <3>2. Replaced(x, f)
      BY <2>1 DEF f
    <3> QED
      BY <3>1, <3>2, ReplacedPlaces, Zenon
  <2>3. TypeOK'
    <3>1. slabs' \in [Caches -> Seq(Slab)] /\ \A d \in Caches : Len(slabs'[d]) = Len(slabs[d])
      BY <2>1 DEF Replaced
    <3>2. \A d \in Caches : Len(slabs[d]) <= MaxSlabs
      BY <1>2 DEF TypeOK
    <3>3. \A d \in Caches : Len(slabs'[d]) <= MaxSlabs
      BY <3>1, <3>2, Zenon
    <3> QED
      BY <1>1, <1>2, <1>5, <1>9, <3>1, <3>3 DEF TypeOK
  <2>4. InOne(o)' /\ o \in BuiltSlots'
    <3>1. OnLists(o)' = {x} /\ o \notin lost' /\ o \in BuiltSlots'
      BY <1>7, <1>9, <2>2
    <3> QED
      BY <1>8, <3>1, Zenon DEF InOne, One
  <2>5. ASSUME NEW p \in Slots, p # o
        PROVE  (IF p \in BuiltSlots THEN InOne(p) ELSE InNone(p))'
    BY <1>2, <1>4, <1>6, <1>9, <2>2, <2>5, SamePlace, Zenon
  <2>6. OnePlace'
    BY <2>4, <2>5, Zenon DEF OnePlace
  <2>7. PathsOK'
    BY <2>1 DEF Replaced
  <2> QED
    BY <1>5, <2>3, <2>6, <2>7 DEF IInv
<1>10. CASE UNCHANGED <<slabs, next>> /\ lost' = lost \cup {o}
  <2>1. BuiltSlots' = BuiltSlots /\ PathsOK' /\ \A p : OnLists(p)' = OnLists(p)
    BY <1>2, <1>10, SameLists
  <2>2. TypeOK'
    BY <1>1, <1>2, <1>3, <1>5, <1>10 DEF TypeOK
  <2>3. InOne(o)' /\ o \in BuiltSlots'
    <3>1. OnLists(o)' = {} /\ o \in lost' /\ o \in BuiltSlots'
      BY <1>7, <1>10, <2>1
    <3> QED
      BY <1>8, <3>1, Zenon DEF InOne, One
  <2>4. ASSUME NEW p \in Slots, p # o
        PROVE  (IF p \in BuiltSlots THEN InOne(p) ELSE InNone(p))'
    <3>1. p \in lost' <=> p \in lost
      BY <1>10, <2>4
    <3> QED
      BY <1>2, <1>4, <1>6, <2>1, <2>4, <3>1, SamePlace, Zenon
  <2>5. OnePlace'
    BY <2>3, <2>4, Zenon DEF OnePlace
  <2> QED
    BY <1>5, <2>1, <2>2, <2>5 DEF IInv
<1> QED
  BY <1>o, <1>9, <1>10, PutLists

(* A caller stores into its object: it is on no free list. *)
LEMMA StepUse ==
  ASSUME IInv, NEW h \in live, Use(h)
  PROVE  IInv'
<1>o. PICK o : o = h.obj
  OBVIOUS
<1>1. next' = [next EXCEPT ![o] = Wild] /\ UNCHANGED <<slabs, mag, live, pc, cache, ptr, lost, crashed>>
  BY <1>o DEF Use
<1>2. TypeOK /\ CallsOK /\ PathsOK /\ OnePlace
  BY DEF IInv
<1>3. o \in Slots /\ h \in InHands(o)
  BY <1>o, <1>2 DEF TypeOK, InHands
<1>4. \A y \in SlabIds : o \notin FreeChain(y)
  BY <1>2, <1>3, Placed, OffLists
<1>5. next' \in [Slots -> Slots \cup NotSlots] /\ \A p \in Slots : p # o => next'[p] = next[p]
  BY <1>1, <1>2, <1>3 DEF TypeOK, NotSlots
<1>6. SlabIds' = SlabIds /\ BuiltSlots' = BuiltSlots
  BY <1>1 DEF SlabIds, BuiltSlots
<1>7. ASSUME NEW y \in SlabIds
      PROVE  FreeChain(y)' = FreeChain(y) /\ \E q : SlabPath(q, y, slabs'[y[1]][y[2]], next')
  <2>1. PICK q : SlabPath(q, y, slabs[y[1]][y[2]], next)
    BY <1>2 DEF PathsOK
  <2>2. \A p \in FreeChain(y) : next'[p] = next[p]
    BY <1>4, <1>5 DEF FreeChain
  <2> QED
    BY <1>1, <2>1, <2>2, SameChain
<1>8. PathsOK' /\ \A p : OnLists(p)' = OnLists(p)
  BY <1>6, <1>7 DEF PathsOK, OnLists
<1>9. TypeOK' /\ CallsOK'
  BY <1>1, <1>2, <1>5 DEF TypeOK, CallsOK
<1>10. \A p : InMagazines(p)' = InMagazines(p) /\ InHands(p)' = InHands(p) /\ InCalls(p)' = InCalls(p)
  BY <1>1 DEF InMagazines, InHands, InCalls
<1>11. ASSUME NEW p \in Slots PROVE (IF p \in BuiltSlots THEN InOne(p) ELSE InNone(p))'
  BY <1>1, <1>2, <1>6, <1>8, <1>10, SamePlace, Zenon
<1>12. OnePlace'
  BY <1>11 DEF OnePlace
<1> QED
  BY <1>8, <1>9, <1>12 DEF IInv

(* A thread exits: the slots in its magazine are out of reach. *)
LEMMA StepThreadExit ==
  ASSUME IInv, NEW t \in Threads, ThreadExit(t)
  PROVE  IInv'
<1>1. /\ lost' = lost \cup Range(mag[t]) /\ mag' = [mag EXCEPT ![t] = <<>>]
      /\ UNCHANGED <<slabs, next>> /\ UNCHANGED <<live, pc, cache, ptr, crashed>>
  BY DEF ThreadExit
<1>2. TypeOK /\ CallsOK /\ PathsOK /\ OnePlace /\ MagazineSize \in Nat
  BY SlabCacheAssumption DEF IInv
<1>3. BuiltSlots' = BuiltSlots /\ PathsOK' /\ \A p : OnLists(p)' = OnLists(p)
  BY <1>1, <1>2, SameLists
<1>4. CallsOK' /\ \A p : InCalls(p)' = InCalls(p) /\ InHands(p)' = InHands(p)
  BY <1>1, <1>2 DEF CallsOK, InCalls, InHands
<1>5. /\ mag[t] \in Seq(Slots) /\ Len(mag[t]) \in Nat /\ Len(mag[t]) <= MagazineSize
      /\ Range(mag[t]) \subseteq Slots
  BY <1>2 DEF TypeOK, Range
<1>6. /\ mag' \in [Threads -> Seq(Slots)] /\ mag'[t] = <<>>
      /\ \A u \in Threads : u # t => mag'[u] = mag[u]
  BY <1>1, <1>2 DEF TypeOK
<1>7. TypeOK'
  <2>1. \A u \in Threads : Len(mag'[u]) <= MagazineSize
    <3>1. Len(mag'[t]) <= MagazineSize
      BY <1>2, <1>6
    <3>2. \A u \in Threads : Len(mag[u]) <= MagazineSize
      BY <1>2 DEF TypeOK
    <3> QED
      BY <1>6, <3>1, <3>2, Zenon
  <2>2. lost' \subseteq Slots
    BY <1>1, <1>2, <1>5 DEF TypeOK
  <2> QED
    BY <1>1, <1>2, <1>6, <2>1, <2>2 DEF TypeOK
<1>8. ASSUME NEW p PROVE InMagazines(p)' = {x \in InMagazines(p) : x[1] # t}
  <2>1. ASSUME NEW x \in Threads \X (1 .. MagazineSize)
        PROVE  x[2] <= Len(mag'[x[1]]) /\ mag'[x[1]][x[2]] = p
               <=> x[2] <= Len(mag[x[1]]) /\ mag[x[1]][x[2]] = p /\ x[1] # t
    <3>1. x[1] \in Threads /\ x[2] \in 1 .. MagazineSize
      OBVIOUS
    <3>2. CASE x[1] = t
      BY <1>6, <3>1, <3>2
    <3>3. CASE x[1] # t
      BY <1>6, <3>1, <3>3, Zenon
    <3> QED
      BY <3>2, <3>3
  <2>2. \A x : x \in InMagazines(p)' <=> x \in InMagazines(p) /\ x[1] # t
    BY <2>1, Zenon DEF InMagazines
  <2> QED
    BY <2>2
<1>9. ASSUME NEW p \in Slots PROVE (IF p \in BuiltSlots THEN InOne(p) ELSE InNone(p))'
  <2>1. CASE p \in Range(mag[t])
    <3>1. PICK i \in 1 .. Len(mag[t]) : mag[t][i] = p
      BY <1>5, <2>1 DEF Range
    <3>2. i \in 1 .. MagazineSize /\ i <= Len(mag[t])
      BY <1>2, <1>5
    <3>3. <<t, i>> \in InMagazines(p)
      BY <3>1, <3>2 DEF InMagazines
    <3>4. /\ OnLists(p) = {} /\ InMagazines(p) = {<<t, i>>} /\ InHands(p) = {}
          /\ InCalls(p) = {} /\ p \in BuiltSlots
      BY <1>2, <3>3, Placed
    <3>5. InMagazines(p)' = {}
      BY <1>8, <3>4
    <3>6. p \in lost'
      BY <1>1, <2>1
    <3>7. OnLists(p)' = {} /\ InHands(p)' = {} /\ InCalls(p)' = {} /\ p \in BuiltSlots'
      BY <1>3, <1>4, <3>4
    <3> QED
      BY <3>5, <3>6, <3>7, Zenon DEF InOne, One
  <2>2. CASE p \notin Range(mag[t])
    <3>1. p \in lost' <=> p \in lost
      BY <1>1, <2>2
    <3>2. ASSUME NEW x \in InMagazines(p) PROVE x[1] # t
      <4>1. x[2] \in 1 .. MagazineSize /\ x[2] <= Len(mag[x[1]]) /\ mag[x[1]][x[2]] = p
        BY DEF InMagazines
      <4> QED
        BY <1>5, <2>2, <4>1 DEF Range
    <3>3. InMagazines(p)' = InMagazines(p)
      BY <1>8, <3>2
    <3> QED
      BY <1>2, <1>3, <1>4, <3>1, <3>3, SamePlace, Zenon
  <2> QED
    BY <2>1, <2>2
<1>10. OnePlace'
  BY <1>9, Zenon DEF OnePlace
<1> QED
  BY <1>3, <1>4, <1>7, <1>10 DEF IInv

(* Every step keeps the invariant. *)
LEMMA NextIInv ==
  ASSUME ~ Clobbers, IInv, [Next]_vars
  PROVE  IInv'
<1>1. CASE UNCHANGED vars
  <2>1. UNCHANGED <<slabs, next>> /\ UNCHANGED <<mag, live, pc, cache, ptr, lost, crashed>>
    BY <1>1 DEF vars
  <2>2. TypeOK /\ CallsOK /\ PathsOK /\ OnePlace
    BY DEF IInv
  <2>3. BuiltSlots' = BuiltSlots /\ PathsOK' /\ \A p : OnLists(p)' = OnLists(p)
    BY <2>1, <2>2, SameLists
  <2>4. TypeOK' /\ CallsOK'
    BY <2>1, <2>2 DEF TypeOK, CallsOK
  <2>5. \A p : InMagazines(p)' = InMagazines(p) /\ InHands(p)' = InHands(p) /\ InCalls(p)' = InCalls(p)
    BY <2>1 DEF InMagazines, InHands, InCalls
  <2>6. ASSUME NEW p \in Slots PROVE (IF p \in BuiltSlots THEN InOne(p) ELSE InNone(p))'
    BY <2>1, <2>2, <2>3, <2>5, SamePlace, Zenon
  <2> QED
    BY <2>3, <2>4, <2>6 DEF IInv, OnePlace
<1>2. CASE Next
  <2>1. CASE \E h \in live : Use(h)
    BY <2>1, StepUse
  <2>2. CASE \E t \in Threads :
               \/ \E c \in Caches : AllocateFast(t, c) \/ AllocateMiss(t, c)
               \/ AllocateFromExisting(t) \/ AllocateNewSlab(t)
               \/ \E h \in live : FreeFast(t, h) \/ FreeMiss(t, h)
               \/ FreeSlow(t)
               \/ ThreadExit(t)
    BY <2>2, StepAllocateFast, StepAllocateMiss, StepAllocateFromExisting, StepAllocateNewSlab,
       StepFreeFast, StepFreeMiss, StepFreeSlow, StepThreadExit, Zenon
  <2> QED
    BY <1>2, <2>1, <2>2, Zenon DEF Next
<1> QED
  BY <1>1, <1>2

-----------------------------------------------------------------------------
(* What the cache promises, for objects whose constructor leaves the first  *)
(* word alone; SlabCache<int> is not one of them.                           *)

(* The invariant holds in every reachable state. *)
LEMMA Invariant ==
  ASSUME ~ Clobbers
  PROVE  Spec => []IInv
<1>1. IInv /\ [Next]_vars => IInv'
  BY NextIInv
<1> QED
  BY <1>1, InitIInv, PTL DEF Spec

(* SlotsAccounted: through Allocate and Free, fast and slow and in any      *)
(* interleaving, every slot of a slab is in exactly one place.              *)
THEOREM SlabSlotsAccounted ==
  ASSUME ~ Clobbers
  PROVE  Spec => []SlotsAccounted
  BY Invariant, IInvPlaces, PTL

(* FreeSlotsExact: freeSlots is the length of the slab's free list, and the *)
(* list ends at nullptr.                                                    *)
THEOREM SlabFreeSlotsExact ==
  ASSUME ~ Clobbers
  PROVE  Spec => []FreeSlotsExact
  BY Invariant, IInvLists, PTL

(* AllocateSucceeds: Allocate never follows a pointer to nowhere.           *)
THEOREM SlabAllocateSucceeds ==
  ASSUME ~ Clobbers
  PROVE  Spec => []AllocateSucceeds
<1>1. IInv => AllocateSucceeds
  BY DEF IInv, CallsOK, AllocateSucceeds
<1> QED
  BY <1>1, Invariant, PTL

(* FreeReturnsToSlab: a slow Free of an object that lies in a slab of this  *)
(* cache leaves it on a free list.                                          *)
THEOREM SlabFreeReturns ==
  ASSUME ~ Clobbers
  PROVE  Spec => FreeReturnsToSlab
<1> DEFINE Returned == \A t \in Threads : pc[t] = "freeSlow" /\ pc'[t] = "idle" /\ ptr[t][1] = cache[t] =>
                      ptr[t] \in UNION {FreeChain(x)' : x \in SlabIds}
<1>1. ASSUME IInv, IInv', [Next]_vars PROVE [Returned]_vars
  <2> SUFFICES ASSUME NEW t \in Threads, pc[t] = "freeSlow", pc'[t] = "idle", ptr[t][1] = cache[t]
               PROVE  ptr[t] \in UNION {FreeChain(x)' : x \in SlabIds}
    OBVIOUS
  <2>1. FreeSlow(t)
    <3>1. Next
      BY <1>1 DEF vars
    <3>2. pc \in [Threads -> {"idle", "allocSlow", "freeSlow"}]
      BY <1>1 DEF IInv, TypeOK
    <3>3. ASSUME NEW u \in Threads, NEW c \in Caches
          PROVE  ~ AllocateFast(u, c) /\ ~ AllocateMiss(u, c)
      BY <3>2 DEF AllocateFast, AllocateMiss
    <3>4. ASSUME NEW u \in Threads
          PROVE  ~ AllocateFromExisting(u) /\ ~ AllocateNewSlab(u)
      BY <3>2 DEF AllocateFromExisting, AllocateNewSlab, Return
    <3>5. ASSUME NEW u \in Threads, NEW h \in live
          PROVE  ~ FreeFast(u, h) /\ ~ FreeMiss(u, h)
      BY <3>2 DEF FreeFast, FreeMiss
    <3>6. ASSUME NEW u \in Threads, FreeSlow(u) PROVE u = t
      BY <3>2, <3>6 DEF FreeSlow, Return
    <3>7. ASSUME NEW u \in Threads PROVE ~ ThreadExit(u)
      BY DEF ThreadExit
    <3>8. ASSUME NEW h \in live PROVE ~ Use(h)
      BY DEF Use
    <3> QED
      BY <3>1, <3>3, <3>4, <3>5, <3>6, <3>7, <3>8, Zenon DEF Next
  <2>2. PICK x \in SlabIds : Replaced(x, FreeChain(x) \cup {ptr[t]})
    BY <1>1, <2>1, PutLists
  <2>3. ptr[t] \in FreeChain(x)'
    BY <2>2 DEF Replaced
  <2> QED
    BY <2>3
<1> QED
  BY <1>1, Invariant, PTL DEF Spec, FreeReturnsToSlab
=============================================================================
