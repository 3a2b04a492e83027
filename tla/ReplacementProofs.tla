------------------------- MODULE ReplacementProofs --------------------------
(***************************************************************************)
(* The lists that VMSystem and the policies of module Replacement keep,    *)
(* and the policies themselves, for any number of frames: what on_load,    *)
(* on_access, on_evict and victim do to each policy's record.  No lemma    *)
(* here is about a step of VMSystem: VMSystemProofs applies them to those. *)
(***************************************************************************)
EXTENDS VMSystem, ListLemmas

-----------------------------------------------------------------------------
(* Lists without repetitions, and the filter of a list. *)

(* e is l without its place i. *)
Erased(e, l, i) ==
    /\ Len(e) = Len(l) - 1
    /\ \A j \in 1 .. Len(l) - 1 : j < i => e[j] = l[j]
    /\ \A j \in 1 .. Len(l) - 1 : j >= i => e[j] = l[j + 1]

(* Erase takes away the one place where x stands. *)
LEMMA EraseAt ==
  ASSUME NEW S, NEW l \in Seq(S), IsInjective(l), NEW i \in 1 .. Len(l)
  PROVE  /\ Erase(l, l[i]) \in Seq(S) /\ IsInjective(Erase(l, l[i]))
         /\ Range(Erase(l, l[i])) = Range(l) \ {l[i]}
         /\ Erased(Erase(l, l[i]), l, i)
<1>1. Len(l) \in Nat /\ DOMAIN l = 1 .. Len(l) /\ i \in Nat
  OBVIOUS
<1>2. {j \in DOMAIN l : l[j] = l[i]} = {i}
  BY <1>1 DEF IsInjective
<1>3. Min({i}) = i
  BY <1>1 DEF Min
<1>4. Erase(l, l[i]) = SubSeq(l, 1, i - 1) \o SubSeq(l, i + 1, Len(l))
  BY <1>2, <1>3, Zenon DEF Erase
<1> DEFINE m == SubSeq(l, 1, i - 1) \o SubSeq(l, i + 1, Len(l))
<1>5. /\ m \in Seq(S) /\ Len(m) = Len(l) - 1
      /\ \A j \in 1 .. Len(l) - 1 : j < i => m[j] = l[j]
      /\ \A j \in 1 .. Len(l) - 1 : j >= i => m[j] = l[j + 1]
  BY RemoveAt, Zenon
<1>6. Range(m) = Range(l) \ {l[i]} /\ IsInjective(m)
  BY RemoveRange, Zenon
<1> HIDE DEF m
<1> QED
  BY <1>4, <1>5, <1>6, Zenon DEF m, Erased

(* Erasing by value. *)
LEMMA EraseRange ==
  ASSUME NEW S, NEW l \in Seq(S), IsInjective(l), NEW x \in Range(l)
  PROVE  /\ Erase(l, x) \in Seq(S) /\ IsInjective(Erase(l, x))
         /\ Range(Erase(l, x)) = Range(l) \ {x}
<1>1. PICK i \in 1 .. Len(l) : l[i] = x
  BY DEF Range
<1>2. /\ Erase(l, l[i]) \in Seq(S) /\ IsInjective(Erase(l, l[i]))
      /\ Range(Erase(l, l[i])) = Range(l) \ {l[i]}
  BY EraseAt
<1> QED
  BY <1>1, <1>2, Zenon

(* What the recursion of Keep computes on the first m elements. *)
KeptUpto(f, s, S, R, m) ==
    /\ f \in [0 .. m -> Seq(R)]
    /\ f[0] = <<>>
    /\ \A n \in 1 .. m : f[n] = IF s[n] \in S THEN Append(f[n - 1], s[n]) ELSE f[n - 1]

(* The recursive function of Keep exists and is the only one. *)
LEMMA KeepKept ==
  ASSUME NEW R, NEW S, NEW s \in Seq(R)
  PROVE  \E f : KeptUpto(f, s, S, R, Len(s)) /\ Keep(s, S) = f[Len(s)]
<1> DEFINE Upto(f, m) == KeptUpto(f, s, S, R, m)
           Bad == {m \in 0 .. Len(s) : \A f : ~Upto(f, m)}
           Rec(f) == [n \in 0 .. Len(s) |->
                        IF n = 0 THEN <<>> ELSE IF s[n] \in S THEN Append(f[n - 1], s[n]) ELSE f[n - 1]]
<1>1. Len(s) \in Nat /\ \A n \in 1 .. Len(s) : s[n] \in R
  OBVIOUS
<1> HIDE DEF Upto
<1>2. Bad \subseteq Nat /\ \A m \in 0 .. Len(s) : m \notin Bad => \E f : Upto(f, m)
  BY <1>1
<1>3. \A m \in Bad : m \in 0 .. Len(s) /\ \A f : ~Upto(f, m)
  OBVIOUS
<1>4. \A f, m : Upto(f, m) <=>
         /\ f \in [0 .. m -> Seq(R)]
         /\ f[0] = <<>>
         /\ \A n \in 1 .. m : f[n] = IF s[n] \in S THEN Append(f[n - 1], s[n]) ELSE f[n - 1]
  BY Zenon DEF Upto, KeptUpto
<1> HIDE DEF Bad
<1>5. Bad = {}
  <2> SUFFICES ASSUME Bad # {} PROVE FALSE
    OBVIOUS
  <2>1. PICK m : m \in Bad /\ \A y \in Bad : m <= y
    BY <1>2, Least, Zenon
  <2>2. m \in 0 .. Len(s) /\ m \in Nat /\ \A f : ~Upto(f, m)
    BY <1>1, <1>3, <2>1
  <2>3. m # 0
    <3> DEFINE z == [n \in 0 .. 0 |-> <<>>]
    <3>1. <<>> \in Seq(R)
      OBVIOUS
    <3>2. z \in [0 .. 0 -> Seq(R)] /\ z[0] = <<>> /\ 1 .. 0 = {}
      BY <3>1
    <3> HIDE DEF z
    <3> QED
      BY <1>4, <2>2, <3>2, Zenon
  <2>4. m - 1 \in 0 .. Len(s) /\ m \in 1 .. Len(s) /\ ~(m <= m - 1)
    BY <1>1, <2>2, <2>3
  <2>5. PICK f : Upto(f, m - 1)
    BY <1>2, <2>1, <2>4, Zenon
  <2>6. /\ f \in [0 .. m - 1 -> Seq(R)] /\ f[0] = <<>>
        /\ \A n \in 1 .. m - 1 : f[n] = IF s[n] \in S THEN Append(f[n - 1], s[n]) ELSE f[n - 1]
    BY <1>4, <2>5, Zenon
  <2> DEFINE last == IF s[m] \in S THEN Append(f[m - 1], s[m]) ELSE f[m - 1]
             g == [n \in 0 .. m |-> IF n = m THEN last ELSE f[n]]
  <2>7. last \in Seq(R)
    <3>1. f[m - 1] \in Seq(R) /\ s[m] \in R
      BY <1>1, <2>2, <2>3, <2>4, <2>6
    <3> QED
      BY <3>1, AppendAt
  <2>8. \A n \in 0 .. m : n = m \/ n \in 0 .. m - 1
    BY <2>2
  <2>9. g[m] = last /\ \A n \in 0 .. m - 1 : g[n] = f[n]
    BY <2>2, <2>3
  <2>10. g \in [0 .. m -> Seq(R)]
    <3> HIDE DEF last
    <3> QED
      BY <2>6, <2>7, <2>8
  <2>11. last = IF s[m] \in S THEN Append(f[m - 1], s[m]) ELSE f[m - 1]
    OBVIOUS
  <2> HIDE DEF g, last
  <2>12. ASSUME NEW n \in 1 .. m
         PROVE  g[n] = IF s[n] \in S THEN Append(g[n - 1], s[n]) ELSE g[n - 1]
    <3>1. n - 1 \in 0 .. m - 1 /\ (n = m \/ (n \in 1 .. m - 1 /\ n \in 0 .. m - 1))
      BY <2>2
    <3>2. g[n - 1] = f[n - 1]
      BY <2>9, <3>1, Zenon
    <3>3. CASE n = m
      BY <2>9, <2>11, <3>2, <3>3, Zenon
    <3>4. CASE n \in 1 .. m - 1 /\ n \in 0 .. m - 1
      BY <2>6, <2>9, <3>2, <3>4, Zenon
    <3> QED
      BY <3>1, <3>3, <3>4
  <2>13. g[0] = <<>>
    <3>1. 0 \in 0 .. m - 1
      BY <2>2, <2>3
    <3> QED
      BY <2>6, <2>9, <3>1, Zenon
  <2> QED
    BY <1>4, <2>2, <2>10, <2>12, <2>13, Zenon
<1>6. PICK f : Upto(f, Len(s))
  <2>1. Len(s) \in 0 .. Len(s)
    BY <1>1
  <2> QED
    BY <1>2, <1>5, <2>1, Zenon
<1>7. /\ f \in [0 .. Len(s) -> Seq(R)] /\ f[0] = <<>>
      /\ \A n \in 1 .. Len(s) : f[n] = IF s[n] \in S THEN Append(f[n - 1], s[n]) ELSE f[n - 1]
  BY <1>4, <1>6, Zenon
<1>8. f = Rec(f)
  <2>1. \A n \in 0 .. Len(s) : n # 0 => n \in 1 .. Len(s)
    BY <1>1
  <2>2. \A n \in 0 .. Len(s) : f[n] = Rec(f)[n]
    BY <1>7, <2>1, Zenon
  <2> QED
    BY <1>7, <2>2
<1> DEFINE kept == CHOOSE h : h = Rec(h)
<1>9. kept = Rec(kept)
  BY <1>8, Zenon
<1>10. Keep(s, S) = kept[Len(s)]
  BY Zenon DEF Keep
<1> HIDE DEF kept
<1>11. /\ DOMAIN kept = 0 .. Len(s) /\ kept[0] = <<>>
       /\ \A n \in 1 .. Len(s) :
            kept[n] = IF s[n] \in S THEN Append(kept[n - 1], s[n]) ELSE kept[n - 1]
  <2>1. DOMAIN kept = 0 .. Len(s) /\ 0 \in 0 .. Len(s) /\ \A n \in 1 .. Len(s) : n \in 0 .. Len(s) /\ n # 0
    BY <1>1, <1>9
  <2>2. \A n \in 0 .. Len(s) : kept[n] = Rec(kept)[n]
    BY <1>9, Zenon
  <2> QED
    BY <2>1, <2>2, Zenon
<1> DEFINE Off == {n \in 0 .. Len(s) : kept[n] # f[n]}
<1>12. Off \subseteq Nat /\ \A n \in 0 .. Len(s) : n \in Off <=> kept[n] # f[n]
  BY <1>1
<1>13. \A n \in Off : n \in 0 .. Len(s)
  OBVIOUS
<1> HIDE DEF Off
<1>14. Off = {}
  <2> SUFFICES ASSUME Off # {} PROVE FALSE
    OBVIOUS
  <2>1. PICK n : n \in Off /\ \A y \in Off : n <= y
    BY <1>12, Least, Zenon
  <2>2. n \in 0 .. Len(s) /\ n \in Nat /\ kept[n] # f[n]
    BY <1>1, <1>12, <1>13, <2>1
  <2>3. n # 0
    BY <1>7, <1>11, <2>2, Zenon
  <2>4. n - 1 \in 0 .. Len(s) /\ n \in 1 .. Len(s) /\ ~(n <= n - 1)
    BY <1>1, <2>2, <2>3
  <2>5. kept[n - 1] = f[n - 1]
    BY <1>12, <2>1, <2>4, Zenon
  <2> QED
    BY <1>7, <1>11, <2>2, <2>4, <2>5, Zenon
<1>15. kept[Len(s)] = f[Len(s)]
  <2>1. Len(s) \in 0 .. Len(s)
    BY <1>1
  <2> QED
    BY <1>12, <1>14, <2>1, Zenon
<1> QED
  BY <1>6, <1>10, <1>15, Zenon DEF Upto

(* Keep keeps the elements of S, and no element twice. *)
LEMMA KeepRange ==
  ASSUME NEW R, NEW S, NEW s \in Seq(R), IsInjective(s)
  PROVE  /\ Keep(s, S) \in Seq(R) /\ IsInjective(Keep(s, S))
         /\ Range(Keep(s, S)) = Range(s) \cap S
<1>1. Len(s) \in Nat /\ DOMAIN s = 1 .. Len(s) /\ \A n \in 1 .. Len(s) : s[n] \in R
  OBVIOUS
<1>2. PICK f : KeptUpto(f, s, S, R, Len(s)) /\ Keep(s, S) = f[Len(s)]
  BY KeepKept, Zenon
<1>3. /\ f \in [0 .. Len(s) -> Seq(R)] /\ f[0] = <<>>
      /\ \A n \in 1 .. Len(s) : f[n] = IF s[n] \in S THEN Append(f[n - 1], s[n]) ELSE f[n - 1]
  BY <1>2, Zenon DEF KeptUpto
<1> DEFINE First(m) == {s[i] : i \in 1 .. m}
           Good(m) == IsInjective(f[m]) /\ Range(f[m]) = First(m) \cap S
           Bad == {m \in 0 .. Len(s) : ~Good(m)}
<1>4. /\ First(0) = {}
      /\ \A m \in 1 .. Len(s) : First(m) = First(m - 1) \cup {s[m]} /\ s[m] \notin First(m - 1)
  <2>1. 1 .. 0 = {}
    OBVIOUS
  <2>2. ASSUME NEW m \in 1 .. Len(s)
        PROVE  First(m) = First(m - 1) \cup {s[m]} /\ s[m] \notin First(m - 1)
    <3>1. 1 .. m = (1 .. m - 1) \cup {m} /\ \A i \in 1 .. m - 1 : i \in 1 .. Len(s) /\ i # m
      BY <1>1
    <3>2. \A i \in 1 .. m - 1 : s[i] # s[m]
      BY <1>1, <3>1, Zenon DEF IsInjective
    <3> QED
      BY <3>1, <3>2
  <2> QED
    BY <2>1, <2>2
<1>5. First(Len(s)) = Range(s)
  BY <1>1, Zenon DEF Range
<1> HIDE DEF First
<1>6. Bad \subseteq Nat /\ \A m \in 0 .. Len(s) : m \in Bad <=> ~Good(m)
  <2> HIDE DEF Good
  <2> QED
    BY <1>1
<1>7. \A m \in Bad : m \in 0 .. Len(s)
  OBVIOUS
<1> HIDE DEF Bad
<1>8. Bad = {}
  <2> SUFFICES ASSUME Bad # {} PROVE FALSE
    OBVIOUS
  <2>1. PICK m : m \in Bad /\ \A y \in Bad : m <= y
    BY <1>6, Least, Zenon
  <2>2. m \in 0 .. Len(s) /\ m \in Nat /\ ~Good(m)
    <3> HIDE DEF Good
    <3> QED
      BY <1>1, <1>6, <1>7, <2>1
  <2>3. m # 0
    <3>1. Range(<<>>) = {} /\ IsInjective(<<>>)
      BY DEF Range, IsInjective
    <3> QED
      BY <1>3, <1>4, <2>2, <3>1, Zenon
  <2>4. m - 1 \in 0 .. Len(s) /\ m \in 1 .. Len(s) /\ ~(m <= m - 1)
    BY <1>1, <2>2, <2>3
  <2>5. IsInjective(f[m - 1]) /\ Range(f[m - 1]) = First(m - 1) \cap S
    BY <1>6, <2>1, <2>4, Zenon
  <2>6. f[m - 1] \in Seq(R) /\ s[m] \in R
    BY <1>1, <1>3, <2>4, Zenon
  <2>7. CASE s[m] \in S
    <3>1. f[m] = Append(f[m - 1], s[m])
      BY <1>3, <2>4, <2>7, Zenon
    <3>2. s[m] \notin Range(f[m - 1])
      BY <1>4, <2>4, <2>5, Zenon
    <3>3. IsInjective(f[m]) /\ Range(f[m]) = Range(f[m - 1]) \cup {s[m]}
      BY <2>5, <2>6, <3>1, <3>2, AppendRange
    <3>4. Range(f[m]) = First(m) \cap S
      BY <1>4, <2>4, <2>5, <2>7, <3>3
    <3> QED
      BY <2>2, <3>3, <3>4
  <2>8. CASE s[m] \notin S
    <3>1. f[m] = f[m - 1]
      BY <1>3, <2>4, <2>8, Zenon
    <3>2. First(m) \cap S = First(m - 1) \cap S
      BY <1>4, <2>4, <2>8
    <3> QED
      BY <2>2, <2>5, <3>1, <3>2
  <2> QED
    BY <2>7, <2>8
<1>9. Len(s) \in 0 .. Len(s)
  BY <1>1
<1>10. Good(Len(s)) /\ f[Len(s)] \in Seq(R)
  BY <1>3, <1>6, <1>8, <1>9, Zenon
<1> QED
  BY <1>2, <1>5, <1>10, Zenon

-----------------------------------------------------------------------------
(* The replacement policies, when the frames in use are U. *)

(* FIFO: its queue has every frame in use, and may have others too. *)
FifoOK(s, U) ==
    /\ s \in [kind : {"FIFO"}, order : Seq(FrameSet), inUse : SUBSET FrameSet]
    /\ s.inUse = U
    /\ U \subseteq Range(s.order)

(* LRU: its list has the frames in use, each once. *)
LruOK(s, U) ==
    /\ s \in [kind : {"LRU"}, list : Seq(FrameSet)]
    /\ Range(s.list) = U
    /\ IsInjective(s.list)

ClockSlot == [frame : FrameSet, ref : BOOLEAN]

(* Clock: ring and index are inverse to each other, and the hand is inside *)
(* the ring.                                                               *)
ClockOK(s, U) ==
    /\ s \in [kind : {"Clock"}, ring : Seq(ClockSlot), index : [U -> Nat], hand : Nat \ {0}]
    /\ \A f \in U : s.index[f] \in 1 .. Len(s.ring) /\ s.ring[s.index[f]].frame = f
    /\ \A i \in 1 .. Len(s.ring) : s.ring[i].frame \in U /\ s.index[s.ring[i].frame] = i
    /\ s.hand <= Len(s.ring) \/ (Len(s.ring) = 0 /\ s.hand = 1)

OptimalOK(s, U) ==
    /\ s \in [kind : {"Optimal"}, loaded : SUBSET FrameSet, pos : Nat]
    /\ s.loaded = U

PolicyOK(s, U) == FifoOK(s, U) \/ LruOK(s, U) \/ ClockOK(s, U) \/ OptimalOK(s, U)

(* The least element of a set of numbers. *)
LEMMA MinIs ==
  ASSUME NEW T, T \subseteq Nat, T # {}
  PROVE  Min(T) \in T /\ \A y \in T : Min(T) <= y
  BY Least, Zenon DEF Min

(* FIFO's victim is in use, and only frames not in use have been dropped.  *)
LEMMA FifoVictim ==
  ASSUME NEW U, U # {}, NEW s, FifoOK(s, U), NEW v \in FifoVictims(s)
  PROVE  v.frame \in U /\ FifoOK(v.next, U)
<1> DEFINE n == Len(s.order)
           T == {i \in DOMAIN s.order : s.order[i] \in s.inUse}
           first == Min(T)
           rest == SubSeq(s.order, first, n)
<1>1. /\ s.order \in Seq(FrameSet) /\ s.inUse = U /\ U \subseteq Range(s.order) /\ U \in SUBSET FrameSet
      /\ s \in [kind : {"FIFO"}, order : Seq(FrameSet), inUse : SUBSET FrameSet]
  BY DEF FifoOK
<1>2. n \in Nat /\ DOMAIN s.order = 1 .. n /\ \A i \in 1 .. n : s.order[i] \in FrameSet
  BY <1>1
<1>3. T \subseteq Nat /\ T # {}
  <2>1. PICK f \in U : f \in Range(s.order)
    BY <1>1
  <2>2. PICK i \in 1 .. n : s.order[i] = f
    BY <1>2, <2>1 DEF Range
  <2> QED
    BY <1>1, <1>2, <2>2
<1>4. first \in T /\ \A i \in T : first <= i
  BY <1>3, MinIs, Zenon
<1>5. /\ v.frame = s.order[first]
      /\ v.next = [s EXCEPT !.order = SubSeq(s.order, first, Len(s.order))]
  <2>1. v = [frame |-> s.order[first], next |-> [s EXCEPT !.order = SubSeq(s.order, first, Len(s.order))]]
    BY DEF FifoVictims
  <2> HIDE DEF first
  <2> QED
    BY <2>1
<1>6. first \in 1 .. n /\ s.order[first] \in U /\ \A i \in 1 .. n : s.order[i] \in U => first <= i
  BY <1>1, <1>2, <1>4, Zenon
<1> HIDE DEF T, first, n
<1>7. /\ rest \in Seq(FrameSet) /\ Len(rest) = n - first + 1
      /\ \A i \in 1 .. n - first + 1 : rest[i] = s.order[first + i - 1]
  <2>1. \A i \in first .. n : s.order[i] \in FrameSet
    BY <1>2, <1>6
  <2> QED
    BY <1>1, <1>2, <1>6, <2>1, PartAt DEF n
<1> HIDE DEF rest
<1>8. U \subseteq Range(rest)
  <2>1. SUFFICES ASSUME NEW f \in U PROVE f \in Range(rest)
    OBVIOUS
  <2>2. PICK i \in 1 .. n : s.order[i] = f
    BY <1>1, <1>2, <2>1, Zenon DEF Range
  <2>3. i >= first
    BY <1>2, <1>6, <2>2
  <2>4. /\ i - first + 1 \in 1 .. n - first + 1 /\ first + (i - first + 1) - 1 = i
        /\ DOMAIN rest = 1 .. n - first + 1
    BY <1>2, <1>6, <1>7, <2>3
  <2>5. rest[i - first + 1] = f /\ i - first + 1 \in DOMAIN rest
    BY <1>7, <2>2, <2>4
  <2> QED
    BY <2>5, Zenon DEF Range
<1>9. v.next = [s EXCEPT !.order = rest]
  BY <1>5, Zenon DEF rest, n
<1>10. FifoOK(v.next, U)
  BY <1>1, <1>7, <1>8, <1>9 DEF FifoOK
<1> QED
  BY <1>5, <1>6, <1>10

(* The other calls of FIFO. *)
LEMMA FifoCalls ==
  ASSUME NEW U, NEW s, FifoOK(s, U), NEW f \in FrameSet
  PROVE  FifoOK(FifoOnLoad(s, f), U \cup {f}) /\ FifoOK(FifoOnEvict(s, f), U \ {f})
<1>1. /\ s.order \in Seq(FrameSet) /\ s.inUse = U /\ U \subseteq Range(s.order) /\ U \in SUBSET FrameSet
      /\ s \in [kind : {"FIFO"}, order : Seq(FrameSet), inUse : SUBSET FrameSet]
  BY DEF FifoOK
<1> DEFINE m == Append(s.order, f)
<1>2. m \in Seq(FrameSet) /\ Range(m) = Range(s.order) \cup {f}
  BY <1>1, AppendRange
<1>3. FifoOnLoad(s, f) = [kind |-> "FIFO", order |-> m, inUse |-> U \cup {f}]
  <2>1. FifoOnLoad(s, f) = [[s EXCEPT !.order = m] EXCEPT !.inUse = @ \cup {f}]
    BY Zenon DEF FifoOnLoad
  <2> HIDE DEF m
  <2>2. [s EXCEPT !.order = m] = [kind |-> "FIFO", order |-> m, inUse |-> U]
    BY <1>1
  <2> QED
    BY <2>1, <2>2
<1> HIDE DEF m
<1>4. FifoOK(FifoOnLoad(s, f), U \cup {f})
  <2>1. U \cup {f} \in SUBSET FrameSet /\ U \cup {f} \subseteq Range(m)
    BY <1>1, <1>2
  <2> QED
    BY <1>2, <1>3, <2>1 DEF FifoOK
<1>5. FifoOK(FifoOnEvict(s, f), U \ {f})
  BY <1>1 DEF FifoOK, FifoOnEvict
<1> QED
  BY <1>4, <1>5

(* The calls of LRU: its victim is the last of the list. *)
LEMMA LruCalls ==
  ASSUME NEW U, NEW s, LruOK(s, U), NEW f \in FrameSet
  PROVE  /\ f \notin U => LruOK(LruOnLoad(s, f), U \cup {f})
         /\ f \in U => LruOK(LruOnAccess(s, f), U) /\ LruOK(LruOnEvict(s, f), U \ {f})
<1>1. /\ s.list \in Seq(FrameSet) /\ Range(s.list) = U /\ IsInjective(s.list)
      /\ s \in [kind : {"LRU"}, list : Seq(FrameSet)]
  BY DEF LruOK
<1>2. ASSUME f \notin U PROVE LruOK(LruOnLoad(s, f), U \cup {f})
  <2> DEFINE m == <<f>> \o s.list
  <2>1. m \in Seq(FrameSet) /\ Range(m) = {f} \cup U /\ IsInjective(m)
    BY <1>1, <1>2, PushRange
  <2>2. LruOnLoad(s, f) = [s EXCEPT !.list = m]
    BY DEF LruOnLoad
  <2> HIDE DEF m
  <2> QED
    BY <1>1, <2>1, <2>2 DEF LruOK
<1>3. ASSUME f \in U PROVE LruOK(LruOnAccess(s, f), U) /\ LruOK(LruOnEvict(s, f), U \ {f})
  <2> DEFINE e == Erase(s.list, f)
             m == <<f>> \o e
  <2>1. e \in Seq(FrameSet) /\ IsInjective(e) /\ Range(e) = U \ {f}
    BY <1>1, <1>3, EraseRange
  <2>2. LruOnAccess(s, f) = [s EXCEPT !.list = m] /\ LruOnEvict(s, f) = [s EXCEPT !.list = e]
    BY <1>1, <1>3 DEF LruOnAccess, LruOnEvict
  <2> HIDE DEF e
  <2>3. m \in Seq(FrameSet) /\ Range(m) = {f} \cup (U \ {f}) /\ IsInjective(m)
    BY <2>1, PushRange
  <2> HIDE DEF m
  <2>4. Range(m) = U
    BY <1>3, <2>3
  <2> QED
    BY <1>1, <2>1, <2>2, <2>3, <2>4 DEF LruOK
<1> QED
  BY <1>2, <1>3

(* victim of LRUReplacement is the back of its list, which is in use. *)
LEMMA LruVictim ==
  ASSUME NEW U, U # {}, NEW s, LruOK(s, U), NEW v \in LruVictims(s)
  PROVE  v.frame \in U /\ v.next = s /\ v.frame = s.list[Len(s.list)] /\ Len(s.list) \in Nat \ {0}
<1>1. s.list \in Seq(FrameSet) /\ Range(s.list) = U
  BY DEF LruOK
<1>2. v.frame = s.list[Len(s.list)] /\ v.next = s
  BY DEF LruVictims
<1>3. Len(s.list) \in Nat \ {0}
  BY <1>1 DEF Range
<1>4. Len(s.list) \in DOMAIN s.list
  BY <1>1, <1>3
<1> QED
  BY <1>1, <1>2, <1>3, <1>4, Zenon DEF Range

(* The calls of Optimal. *)
LEMMA OptimalCalls ==
  ASSUME NEW U, NEW s, OptimalOK(s, U), NEW f \in FrameSet
  PROVE  /\ OptimalOK(OptimalOnLoad(s, f), U \cup {f}) /\ OptimalOK(OptimalOnEvict(s, f), U \ {f})
         /\ \A v \in OptimalVictims(s) : v.frame \in U /\ v.next = s
<1>1. s \in [kind : {"Optimal"}, loaded : SUBSET FrameSet, pos : Nat] /\ s.loaded = U
  BY DEF OptimalOK
<1>2. OptimalOK(OptimalOnLoad(s, f), U \cup {f}) /\ OptimalOK(OptimalOnEvict(s, f), U \ {f})
  BY <1>1 DEF OptimalOK, OptimalOnLoad, OptimalOnEvict
<1>3. ASSUME NEW v \in OptimalVictims(s) PROVE v.frame \in U /\ v.next = s
  BY <1>1 DEF OptimalVictims
<1> QED
  BY <1>2, <1>3

(* The remainders that turn the hand round. *)
LEMMA Around ==
  ASSUME NEW n \in Nat \ {0}
  PROVE  /\ \A x \in 0 .. n - 1 : x % n = x /\ (x + n) % n = x
         /\ \A x \in Nat : x % n \in 0 .. n - 1
  OBVIOUS

(* on_load of Clock adds a slot with its reference bit set. *)
LEMMA ClockLoad ==
  ASSUME NEW U, NEW s, ClockOK(s, U), NEW f \in FrameSet, f \notin U, NEW t, t = ClockOnLoad(s, f)
  PROVE  /\ ClockOK(t, U \cup {f})
         /\ t.ring[t.index[f]].ref
         /\ \A g \in U : t.ring[t.index[g]] = s.ring[s.index[g]]
<1> DEFINE n == Len(s.ring)
           slot == [frame |-> f, ref |-> TRUE]
           ring == Append(s.ring, slot)
           index == [g \in U \cup {f} |-> IF g = f THEN n + 1 ELSE s.index[g]]
<1>1. /\ s \in [kind : {"Clock"}, ring : Seq(ClockSlot), index : [U -> Nat], hand : Nat \ {0}]
      /\ \A g \in U : s.index[g] \in 1 .. n /\ s.ring[s.index[g]].frame = g
      /\ \A i \in 1 .. n : s.ring[i].frame \in U /\ s.index[s.ring[i].frame] = i
      /\ s.hand <= n \/ (n = 0 /\ s.hand = 1)
  BY DEF ClockOK
<1>2. s.ring \in Seq(ClockSlot) /\ n \in Nat /\ s.index \in [U -> Nat] /\ s.hand \in Nat \ {0} /\ s.kind = "Clock"
  BY <1>1
<1>3. slot \in ClockSlot /\ slot.frame = f /\ slot.ref = TRUE
  BY DEF ClockSlot
<1>4. t = [kind |-> "Clock", ring |-> ring, index |-> index, hand |-> s.hand]
  BY <1>1, <1>2 DEF ClockOnLoad
<1> HIDE DEF slot, n
<1>5. /\ ring \in Seq(ClockSlot) /\ Len(ring) = n + 1 /\ ring[n + 1] = slot
      /\ \A i \in 1 .. n : ring[i] = s.ring[i]
  BY <1>2, <1>3, AppendAt DEF n
<1>6. /\ index \in [U \cup {f} -> Nat] /\ index[f] = n + 1
      /\ \A g \in U : index[g] = s.index[g]
  BY <1>2
<1> HIDE DEF ring, index
<1>7. t.ring = ring /\ t.index = index /\ t.hand = s.hand
  BY <1>4
<1>8. t \in [kind : {"Clock"}, ring : Seq(ClockSlot), index : [U \cup {f} -> Nat], hand : Nat \ {0}]
  BY <1>2, <1>4, <1>5, <1>6
<1>9. ASSUME NEW g \in U PROVE ring[index[g]] = s.ring[s.index[g]] /\ index[g] \in 1 .. n
  <2>1. index[g] = s.index[g] /\ s.index[g] \in 1 .. n
    BY <1>1, <1>6
  <2> QED
    BY <1>5, <2>1
<1>10. ASSUME NEW g \in U \cup {f} PROVE index[g] \in 1 .. n + 1 /\ ring[index[g]].frame = g
  <2>1. CASE g = f
    BY <1>2, <1>3, <1>5, <1>6, <2>1
  <2>2. CASE g \in U
    BY <1>1, <1>2, <1>9, <2>2
  <2> QED
    BY <2>1, <2>2
<1>11. ASSUME NEW i \in 1 .. n + 1 PROVE ring[i].frame \in U \cup {f} /\ index[ring[i].frame] = i
  <2>1. i = n + 1 \/ i \in 1 .. n
    BY <1>2
  <2>2. CASE i = n + 1
    BY <1>3, <1>5, <1>6, <2>2, Zenon
  <2>3. CASE i \in 1 .. n
    BY <1>1, <1>5, <1>6, <2>3, Zenon
  <2> QED
    BY <2>1, <2>2, <2>3
<1>12. s.hand <= n + 1
  BY <1>1, <1>2
<1>13. ClockOK(t, U \cup {f})
  BY <1>5, <1>7, <1>8, <1>10, <1>11, <1>12, Zenon DEF ClockOK
<1>14. t.ring[t.index[f]] = slot
  BY <1>5, <1>6, <1>7, Zenon
<1>15. t.ring[t.index[f]].ref
  BY <1>3, <1>14
<1> QED
  BY <1>7, <1>9, <1>13, <1>15, Zenon

(* on_access of Clock sets the frame's reference bit and clears none. *)
LEMMA ClockAccess ==
  ASSUME NEW U, NEW s, ClockOK(s, U), NEW f \in U, NEW t, t = ClockOnAccess(s, f)
  PROVE  /\ ClockOK(t, U)
         /\ t.ring[t.index[f]].ref
         /\ \A g \in U : s.ring[s.index[g]].ref => t.ring[t.index[g]].ref
<1> DEFINE n == Len(s.ring)
           at == s.index[f]
           ring == [s.ring EXCEPT ![at].ref = TRUE]
<1>1. /\ s \in [kind : {"Clock"}, ring : Seq(ClockSlot), index : [U -> Nat], hand : Nat \ {0}]
      /\ \A g \in U : s.index[g] \in 1 .. n /\ s.ring[s.index[g]].frame = g
      /\ \A i \in 1 .. n : s.ring[i].frame \in U /\ s.index[s.ring[i].frame] = i
      /\ s.hand <= n \/ (n = 0 /\ s.hand = 1)
  BY DEF ClockOK
<1>2. s.ring \in Seq(ClockSlot) /\ n \in Nat /\ s.index \in [U -> Nat] /\ s.hand \in Nat \ {0} /\ s.kind = "Clock"
  BY <1>1
<1>3. t = [kind |-> "Clock", ring |-> ring, index |-> s.index, hand |-> s.hand]
  <2>1. f \in DOMAIN s.index
    BY <1>2
  <2> QED
    BY <1>1, <2>1 DEF ClockOnAccess
<1>4. at \in 1 .. n /\ DOMAIN s.ring = 1 .. n /\ \A i \in 1 .. n : s.ring[i] \in ClockSlot
  BY <1>1, <1>2
<1> HIDE DEF n, at
<1>5. /\ ring \in Seq(ClockSlot) /\ Len(ring) = n
      /\ \A i \in 1 .. n : ring[i].frame = s.ring[i].frame
      /\ ring[at].ref
      /\ \A i \in 1 .. n : s.ring[i].ref => ring[i].ref
  <2>1. ring = [i \in 1 .. n |-> IF i = at THEN [s.ring[i] EXCEPT !.ref = TRUE] ELSE s.ring[i]]
    BY <1>4
  <2>2. \A i \in 1 .. n : /\ [s.ring[i] EXCEPT !.ref = TRUE] \in ClockSlot
                          /\ [s.ring[i] EXCEPT !.ref = TRUE].frame = s.ring[i].frame
                          /\ [s.ring[i] EXCEPT !.ref = TRUE].ref
    BY <1>4 DEF ClockSlot
  <2> HIDE DEF ring
  <2>3. ring \in [1 .. n -> ClockSlot]
    BY <1>4, <2>1, <2>2
  <2>4. ring \in Seq(ClockSlot) /\ Len(ring) = n
    BY <1>2, <2>3
  <2> QED
    BY <1>4, <2>1, <2>2, <2>4
<1> HIDE DEF ring
<1>6. t.ring = ring /\ t.index = s.index /\ t.hand = s.hand
  BY <1>3
<1>7. t \in [kind : {"Clock"}, ring : Seq(ClockSlot), index : [U -> Nat], hand : Nat \ {0}]
  BY <1>2, <1>3, <1>5
<1>8. ClockOK(t, U)
  <2>1. \A g \in U : t.index[g] \in 1 .. n /\ t.ring[t.index[g]].frame = g
    BY <1>1, <1>5, <1>6
  <2>2. \A i \in 1 .. n : t.ring[i].frame \in U /\ t.index[t.ring[i].frame] = i
    <3>1. \A i \in 1 .. n : ring[i].frame \in U /\ s.index[ring[i].frame] = i
      BY <1>1, <1>5, Zenon
    <3> QED
      BY <1>6, <3>1, Zenon
  <2>3. t.hand <= n \/ (n = 0 /\ t.hand = 1)
    BY <1>1, <1>6
  <2>4. Len(t.ring) = n
    BY <1>5, <1>6
  <2> QED
    BY <1>7, <2>1, <2>2, <2>3, <2>4, Zenon DEF ClockOK
<1>9. \A g \in U : s.ring[s.index[g]].ref => t.ring[t.index[g]].ref
  BY <1>1, <1>5, <1>6, Zenon
<1> QED
  BY <1>5, <1>6, <1>8, <1>9, Zenon DEF at

(* on_evict of Clock: the last slot fills the gap, and its index follows. *)
LEMMA ClockEvict ==
  ASSUME NEW U, NEW s, ClockOK(s, U), NEW f \in U, NEW t, t = ClockOnEvict(s, f)
  PROVE  ClockOK(t, U \ {f})
<1> DEFINE n == Len(s.ring)
           at == s.index[f]
           last == s.ring[n].frame
           ring == SubSeq([s.ring EXCEPT ![at] = s.ring[n]], 1, n - 1)
           index == [g \in U \ {f} |-> IF g = last THEN at ELSE s.index[g]]
           hand == IF s.hand > n - 1 /\ n > 1 THEN 1 ELSE s.hand
<1>1. /\ s \in [kind : {"Clock"}, ring : Seq(ClockSlot), index : [U -> Nat], hand : Nat \ {0}]
      /\ \A g \in U : s.index[g] \in 1 .. n /\ s.ring[s.index[g]].frame = g
      /\ \A i \in 1 .. n : s.ring[i].frame \in U /\ s.index[s.ring[i].frame] = i
      /\ s.hand <= n \/ (n = 0 /\ s.hand = 1)
  BY DEF ClockOK
<1>2. s.ring \in Seq(ClockSlot) /\ n \in Nat /\ s.index \in [U -> Nat] /\ s.hand \in Nat \ {0} /\ s.kind = "Clock"
  BY <1>1
<1>3. at \in 1 .. n /\ DOMAIN s.ring = 1 .. n /\ (\A i \in 1 .. n : s.ring[i] \in ClockSlot) /\ n \in 1 .. n
  BY <1>1, <1>2
<1>4. t = [kind |-> "Clock", ring |-> ring, index |-> index, hand |-> hand]
  <2>1. f \in DOMAIN s.index /\ DOMAIN s.index = U
    BY <1>2
  <2>2. t = [[[s EXCEPT !.ring = ring] EXCEPT !.index = index] EXCEPT !.hand = hand]
    <3>1. [[s EXCEPT !.ring = ring] EXCEPT !.index = index].hand = s.hand
      <4> HIDE DEF ring, index
      <4> QED
        BY <1>1
    <3> QED
      BY <2>1, <3>1 DEF ClockOnEvict
  <2> HIDE DEF ring, index, hand
  <2> QED
    BY <1>1, <2>2
<1> HIDE DEF n, at
<1>5. /\ ring \in Seq(ClockSlot) /\ Len(ring) = n - 1
      /\ \A i \in 1 .. n - 1 : ring[i] = IF i = at THEN s.ring[n] ELSE s.ring[i]
  <2> DEFINE filled == [s.ring EXCEPT ![at] = s.ring[n]]
  <2>1. filled \in [1 .. n -> ClockSlot] /\ \A i \in 1 .. n : filled[i] = IF i = at THEN s.ring[n] ELSE s.ring[i]
    BY <1>3, Zenon
  <2>2. ring = SubSeq(filled, 1, n - 1)
    BY Zenon
  <2> HIDE DEF filled, ring
  <2>3. filled \in Seq(ClockSlot) /\ Len(filled) = n /\ filled # <<>>
    BY <1>2, <1>3, <2>1
  <2>4. /\ ring \in Seq(ClockSlot) /\ Len(ring) = n - 1
        /\ \A i \in 1 .. n - 1 : ring[i] = filled[i]
    BY <2>2, <2>3, FrontAt
  <2>5. \A i \in 1 .. n - 1 : i \in 1 .. n
    BY <1>2
  <2> QED
    BY <2>1, <2>4, <2>5, Zenon
<1>6. last \in U /\ s.index[last] = n
  BY <1>1, <1>3 DEF n
<1>7. /\ index \in [U \ {f} -> Nat]
      /\ \A g \in U \ {f} : index[g] = IF g = last THEN at ELSE s.index[g]
  BY <1>2, <1>3
<1>8. /\ hand \in Nat \ {0}
      /\ hand <= n - 1 \/ (n - 1 = 0 /\ hand = 1)
  BY <1>1, <1>2, <1>3
<1> HIDE DEF ring, index, hand, last
<1>9. t.ring = ring /\ t.index = index /\ t.hand = hand
  BY <1>4
<1>10. t \in [kind : {"Clock"}, ring : Seq(ClockSlot), index : [U \ {f} -> Nat], hand : Nat \ {0}]
  BY <1>4, <1>5, <1>7, <1>8
<1>11. ASSUME NEW g \in U \ {f} PROVE index[g] \in 1 .. n - 1 /\ ring[index[g]].frame = g
  <2>1. s.index[g] \in 1 .. n /\ s.ring[s.index[g]].frame = g /\ s.ring[at].frame = f /\ g # f
    BY <1>1 DEF n, at
  <2>2. s.index[g] # at
    BY <2>1
  <2>3. CASE g = last
    <3>1. at \in 1 .. n - 1 /\ index[g] = at
      BY <1>2, <1>3, <1>6, <1>7, <2>2, <2>3
    <3>2. ring[at] = s.ring[n] /\ s.ring[n].frame = g
      BY <1>5, <2>3, <3>1 DEF last
    <3> QED
      BY <3>1, <3>2
  <2>4. CASE g # last
    <3>1. s.index[g] # n
      BY <2>1, <2>4 DEF last
    <3>2. s.index[g] \in 1 .. n - 1 /\ index[g] = s.index[g]
      BY <1>2, <1>7, <2>1, <2>4, <3>1
    <3> QED
      BY <1>5, <2>1, <2>2, <3>2
  <2> QED
    BY <2>3, <2>4
<1>12. ASSUME NEW i \in 1 .. n - 1 PROVE ring[i].frame \in U \ {f} /\ index[ring[i].frame] = i
  <2>1. /\ i \in 1 .. n /\ i # n /\ s.ring[i].frame \in U /\ s.index[s.ring[i].frame] = i
    BY <1>1, <1>2 DEF n
  <2>2. s.index[f] = at
    BY DEF at
  <2>3. CASE i = at
    <3>1. ring[i].frame = last /\ last # f
      BY <1>5, <1>6, <2>1, <2>2, <2>3 DEF last
    <3> QED
      BY <1>6, <1>7, <2>3, <3>1
  <2>4. CASE i # at
    <3>1. ring[i] = s.ring[i] /\ s.ring[i].frame # f /\ s.ring[i].frame # last
      BY <1>5, <1>6, <2>1, <2>2, <2>4
    <3> QED
      BY <1>7, <2>1, <3>1
  <2> QED
    BY <2>3, <2>4
<1>13. Len(t.ring) = n - 1
  BY <1>5, <1>9
<1> QED
  BY <1>8, <1>9, <1>10, <1>11, <1>12, <1>13, Zenon DEF ClockOK

(* victim() of Clock: the frame is in use; if its bit was set when the      *)
(* search began, so was every other.                                       *)
LEMMA ClockVictim ==
  ASSUME NEW U, U # {}, NEW s, ClockOK(s, U), NEW v \in ClockVictims(s)
  PROVE  /\ v.frame \in U /\ ClockOK(v.next, U)
         /\ s.ring[s.index[v.frame]].ref => \A i \in 1 .. Len(s.ring) : s.ring[i].ref
<1> DEFINE n == Len(s.ring)
           At(k) == ((s.hand - 1 + k) % n) + 1
           T == {k \in 0 .. n - 1 : ~s.ring[At(k)].ref} \cup {n}
           passed == Min(T)
           cleared == {At(k) : k \in 0 .. passed - 1}
           ring == [i \in 1 .. n |-> IF i \in cleared THEN [s.ring[i] EXCEPT !.ref = FALSE] ELSE s.ring[i]]
<1>1. /\ s \in [kind : {"Clock"}, ring : Seq(ClockSlot), index : [U -> Nat], hand : Nat \ {0}]
      /\ \A g \in U : s.index[g] \in 1 .. n /\ s.ring[s.index[g]].frame = g
      /\ \A i \in 1 .. n : s.ring[i].frame \in U /\ s.index[s.ring[i].frame] = i
      /\ s.hand <= n \/ (n = 0 /\ s.hand = 1)
  BY DEF ClockOK
<1>2. s.ring \in Seq(ClockSlot) /\ n \in Nat /\ s.index \in [U -> Nat] /\ s.hand \in Nat \ {0} /\ s.kind = "Clock"
  BY <1>1
<1>3. n \in Nat \ {0} /\ s.hand \in 1 .. n /\ \A i \in 1 .. n : s.ring[i] \in ClockSlot
  <2>1. PICK g : g \in U
    OBVIOUS
  <2>2. s.index[g] \in 1 .. n
    BY <1>1, <2>1, Zenon
  <2> HIDE DEF n
  <2>3. n # 0
    BY <1>2, <2>2
  <2>4. \A i \in 1 .. n : s.ring[i] \in ClockSlot
    BY <1>2 DEF n
  <2> QED
    BY <1>1, <1>2, <2>3, <2>4
<1>4. /\ v.frame = s.ring[At(passed)].frame
      /\ v.next = [[s EXCEPT !.ring = ring] EXCEPT !.hand = At(passed)]
  <2>1. v = [frame |-> s.ring[At(passed)].frame, next |-> [[s EXCEPT !.ring = ring] EXCEPT !.hand = At(passed)]]
    BY Zenon DEF ClockVictims
  <2> HIDE DEF At, ring, passed
  <2> QED
    BY <2>1
<1>5. \A k \in Nat : At(k) \in 1 .. n
  <2> HIDE DEF n
  <2>1. SUFFICES ASSUME NEW k \in Nat PROVE At(k) \in 1 .. n
    BY Zenon
  <2>2. s.hand - 1 + k \in Nat
    BY <1>3
  <2>3. PICK r \in 0 .. n - 1 : r = (s.hand - 1 + k) % n
    BY <1>3, <2>2, Around
  <2>4. r + 1 \in 1 .. n
    BY <1>3
  <2> QED
    BY <2>3, <2>4, Zenon
<1>6. \A i \in 1 .. n : \E k \in 0 .. n - 1 : At(k) = i
  <2> HIDE DEF n
  <2>1. SUFFICES ASSUME NEW i \in 1 .. n PROVE \E k \in 0 .. n - 1 : At(k) = i
    BY Zenon
  <2>2. i - 1 \in 0 .. n - 1
    BY <1>3
  <2>3. (i - 1) % n = i - 1 /\ ((i - 1) + n) % n = i - 1
    BY <1>3, <2>2, Around
  <2>4. CASE i >= s.hand
    <3>1. i - s.hand \in 0 .. n - 1 /\ s.hand - 1 + (i - s.hand) = i - 1 /\ (i - 1) + 1 = i
      BY <1>3, <2>4
    <3> QED
      BY <2>3, <3>1, Zenon
  <2>5. CASE ~(i >= s.hand)
    <3>1. i - s.hand + n \in 0 .. n - 1 /\ s.hand - 1 + (i - s.hand + n) = (i - 1) + n /\ (i - 1) + 1 = i
      BY <1>3, <2>5
    <3> QED
      BY <2>3, <3>1, Zenon
  <2> QED
    BY <2>4, <2>5
<1> HIDE DEF At, n
<1>7. T \subseteq Nat /\ T # {} /\ n \in T
  BY <1>3
<1>8. passed \in T /\ \A k \in T : passed <= k
  BY <1>7, MinIs, Zenon
<1>9. /\ passed \in 0 .. n
      /\ passed # n => ~s.ring[At(passed)].ref
      /\ passed = n => \A k \in 0 .. n - 1 : s.ring[At(k)].ref
  <2> HIDE DEF passed
  <2>1. \A k \in T : k = n \/ (k \in 0 .. n - 1 /\ ~s.ring[At(k)].ref)
    OBVIOUS
  <2>2. \A k \in 0 .. n - 1 : k \in T \/ s.ring[At(k)].ref
    OBVIOUS
  <2>3. \A k \in 0 .. n - 1 : ~(n <= k)
    BY <1>3
  <2>4. n \in 0 .. n /\ \A k \in 0 .. n - 1 : k \in 0 .. n
    BY <1>3
  <2> HIDE DEF T
  <2>5. passed \in 0 .. n
    BY <1>8, <2>1, <2>4, Zenon
  <2>6. passed # n => ~s.ring[At(passed)].ref
    BY <1>8, <2>1, Zenon
  <2>7. passed = n => \A k \in 0 .. n - 1 : s.ring[At(k)].ref
    BY <1>8, <2>2, <2>3, Zenon
  <2> QED
    BY <2>5, <2>6, <2>7
<1>10. At(passed) \in 1 .. n
  BY <1>3, <1>5, <1>9
<1> HIDE DEF passed, T
<1>11. v.frame \in U /\ s.index[v.frame] = At(passed)
  BY <1>1, <1>4, <1>10, Zenon DEF n
<1>12. /\ ring \in Seq(ClockSlot) /\ Len(ring) = n
       /\ \A i \in 1 .. n : ring[i].frame = s.ring[i].frame
  <2> HIDE DEF cleared
  <2>1. \A i \in 1 .. n : /\ [s.ring[i] EXCEPT !.ref = FALSE] \in ClockSlot
                          /\ [s.ring[i] EXCEPT !.ref = FALSE].frame = s.ring[i].frame
    BY <1>3 DEF ClockSlot
  <2>2. ring \in [1 .. n -> ClockSlot] /\ \A i \in 1 .. n : ring[i].frame = s.ring[i].frame
    BY <1>3, <2>1
  <2> HIDE DEF ring
  <2> QED
    BY <1>2, <2>2
<1> HIDE DEF ring
<1>13. v.next = [kind |-> "Clock", ring |-> ring, index |-> s.index, hand |-> At(passed)]
  BY <1>1, <1>4
<1>14. /\ v.next.ring = ring /\ v.next.index = s.index /\ v.next.hand = At(passed)
       /\ v.next \in [kind : {"Clock"}, ring : Seq(ClockSlot), index : [U -> Nat], hand : Nat \ {0}]
  BY <1>2, <1>10, <1>12, <1>13
<1>15. ClockOK(v.next, U)
  <2>1. \A g \in U : s.index[g] \in 1 .. n /\ ring[s.index[g]].frame = g
    BY <1>1, <1>12, Zenon DEF n
  <2>2. \A i \in 1 .. n : ring[i].frame \in U /\ s.index[ring[i].frame] = i
    BY <1>1, <1>12, Zenon DEF n
  <2>3. At(passed) <= n
    BY <1>3, <1>10
  <2> QED
    BY <1>12, <1>14, <2>1, <2>2, <2>3, Zenon DEF ClockOK
<1>16. ASSUME s.ring[s.index[v.frame]].ref, NEW i \in 1 .. n PROVE s.ring[i].ref
  <2>1. passed = n
    BY <1>9, <1>11, <1>16, Zenon
  <2>2. PICK k \in 0 .. n - 1 : At(k) = i
    BY <1>6, Zenon
  <2> QED
    BY <1>9, <2>1, <2>2, Zenon
<1> QED
  BY <1>11, <1>15, <1>16, Zenon DEF n

(* The class of the policy object decides which of the four it is. *)
LEMMA Kinds ==
  ASSUME NEW U, NEW s, PolicyOK(s, U)
  PROVE  /\ \/ FifoOK(s, U) /\ s.kind = "FIFO"
            \/ LruOK(s, U) /\ s.kind = "LRU"
            \/ ClockOK(s, U) /\ s.kind = "Clock"
            \/ OptimalOK(s, U) /\ s.kind = "Optimal"
         /\ s.kind = "LRU" => LruOK(s, U)
         /\ s.kind = "Clock" => ClockOK(s, U)
         /\ Tracked(s) = U
<1>1. CASE FifoOK(s, U)
  <2>1. s.kind = "FIFO" /\ s.inUse = U
    BY <1>1 DEF FifoOK
  <2> QED
    BY <1>1, <2>1 DEF Tracked
<1>2. CASE LruOK(s, U)
  <2>1. s.kind = "LRU" /\ Range(s.list) = U
    BY <1>2 DEF LruOK
  <2> QED
    BY <1>2, <2>1 DEF Tracked
<1>3. CASE ClockOK(s, U)
  <2>1. s.kind = "Clock" /\ DOMAIN s.index = U
    BY <1>3 DEF ClockOK
  <2> QED
    BY <1>3, <2>1 DEF Tracked
<1>4. CASE OptimalOK(s, U)
  <2>1. s.kind = "Optimal" /\ s.loaded = U
    BY <1>4 DEF OptimalOK
  <2> QED
    BY <1>4, <2>1 DEF Tracked
<1> QED
  BY <1>1, <1>2, <1>3, <1>4 DEF PolicyOK

(* What t is to s once f is loaded. *)
LoadedInto(s, U, f, t) ==
    /\ PolicyOK(t, U \cup {f}) /\ t.kind = s.kind
    /\ s.kind = "LRU" => t.list = <<f>> \o s.list
    /\ s.kind = "Clock" => /\ t.ring[t.index[f]].ref
                           /\ \A g \in U : t.ring[t.index[g]] = s.ring[s.index[g]]

(* on_load, of whichever policy. *)
LEMMA PolicyLoad ==
  ASSUME NEW U, NEW s, PolicyOK(s, U), NEW f \in FrameSet, f \notin U, NEW t, t = OnLoad(s, f)
  PROVE  LoadedInto(s, U, f, t)
<1>1. CASE FifoOK(s, U) /\ s.kind = "FIFO"
  <2>1. t = FifoOnLoad(s, f)
    BY <1>1 DEF OnLoad
  <2>2. FifoOK(t, U \cup {f})
    BY <1>1, <2>1, FifoCalls
  <2>3. t.kind = "FIFO"
    BY <2>2 DEF FifoOK
  <2> QED
    BY <1>1, <2>2, <2>3 DEF PolicyOK, LoadedInto
<1>2. CASE LruOK(s, U) /\ s.kind = "LRU"
  <2>1. t = LruOnLoad(s, f)
    BY <1>2 DEF OnLoad
  <2>2. LruOK(t, U \cup {f})
    BY <1>2, <2>1, LruCalls
  <2>3. t.kind = "LRU"
    BY <2>2 DEF LruOK
  <2>4. t.list = <<f>> \o s.list
    BY <1>2, <2>1 DEF LruOnLoad, LruOK
  <2> QED
    BY <1>2, <2>2, <2>3, <2>4 DEF PolicyOK, LoadedInto
<1>3. CASE ClockOK(s, U) /\ s.kind = "Clock"
  <2>1. t = ClockOnLoad(s, f)
    BY <1>3 DEF OnLoad
  <2>2. /\ ClockOK(t, U \cup {f}) /\ t.ring[t.index[f]].ref
        /\ \A g \in U : t.ring[t.index[g]] = s.ring[s.index[g]]
    BY <1>3, <2>1, ClockLoad
  <2>3. t.kind = "Clock"
    BY <2>2 DEF ClockOK
  <2> QED
    BY <1>3, <2>2, <2>3 DEF PolicyOK, LoadedInto
<1>4. CASE OptimalOK(s, U) /\ s.kind = "Optimal"
  <2>1. t = OptimalOnLoad(s, f)
    BY <1>4 DEF OnLoad
  <2>2. OptimalOK(t, U \cup {f})
    BY <1>4, <2>1, OptimalCalls
  <2>3. t.kind = "Optimal"
    BY <2>2 DEF OptimalOK
  <2> QED
    BY <1>4, <2>2, <2>3 DEF PolicyOK, LoadedInto
<1> QED
  BY <1>1, <1>2, <1>3, <1>4, Kinds

(* on_access of a frame in use. *)
LEMMA PolicyAccess ==
  ASSUME NEW U, NEW s, PolicyOK(s, U), NEW f \in FrameSet, f \in U, NEW t, t = OnAccess(s, f)
  PROVE  /\ PolicyOK(t, U) /\ t.kind = s.kind
         /\ s.kind = "LRU" => t.list = <<f>> \o Erase(s.list, f)
         /\ s.kind = "Clock" => /\ t.ring[t.index[f]].ref
                                /\ \A g \in U : s.ring[s.index[g]].ref => t.ring[t.index[g]].ref
<1>1. CASE s.kind \notin {"LRU", "Clock"}
  BY <1>1 DEF OnAccess
<1>2. CASE LruOK(s, U) /\ s.kind = "LRU"
  <2>1. t = LruOnAccess(s, f)
    BY <1>2 DEF OnAccess
  <2>2. LruOK(t, U)
    BY <1>2, <2>1, LruCalls
  <2>3. t.kind = "LRU"
    BY <2>2 DEF LruOK
  <2>4. t.list = <<f>> \o Erase(s.list, f)
    BY <1>2, <2>1 DEF LruOnAccess, LruOK
  <2> QED
    BY <1>2, <2>2, <2>3, <2>4 DEF PolicyOK
<1>3. CASE ClockOK(s, U) /\ s.kind = "Clock"
  <2>1. t = ClockOnAccess(s, f)
    BY <1>3 DEF OnAccess
  <2>2. /\ ClockOK(t, U) /\ t.ring[t.index[f]].ref
        /\ \A g \in U : s.ring[s.index[g]].ref => t.ring[t.index[g]].ref
    BY <1>3, <2>1, ClockAccess
  <2>3. t.kind = "Clock"
    BY <2>2 DEF ClockOK
  <2> QED
    BY <1>3, <2>2, <2>3 DEF PolicyOK
<1> QED
  BY <1>1, <1>2, <1>3, Kinds

(* The policy s gave up frame f and became t. *)
Evicted(s, f, t) ==
    /\ t.kind = s.kind
    /\ s.kind = "LRU" => f = s.list[Len(s.list)] /\ t.list = Erase(s.list, f)
    /\ s.kind = "Clock" => (s.ring[s.index[f]].ref => \A i \in 1 .. Len(s.ring) : s.ring[i].ref)

(* victim and on_evict, one after the other as access calls them. *)
LEMMA PolicyEvict ==
  ASSUME NEW U, U # {}, U \subseteq FrameSet, NEW s, PolicyOK(s, U),
         NEW v \in Victims(s), NEW t, t = OnEvict(v.next, v.frame)
  PROVE  v.frame \in U /\ PolicyOK(t, U \ {v.frame}) /\ Evicted(s, v.frame, t)
<1>1. CASE FifoOK(s, U) /\ s.kind = "FIFO"
  <2>1. v \in FifoVictims(s)
    BY <1>1 DEF Victims
  <2>2. v.frame \in U /\ FifoOK(v.next, U)
    BY <1>1, <2>1, FifoVictim
  <2>3. v.next.kind = "FIFO"
    BY <2>2 DEF FifoOK
  <2>4. t = FifoOnEvict(v.next, v.frame)
    BY <2>3 DEF OnEvict
  <2>5. FifoOK(t, U \ {v.frame})
    BY <2>2, <2>4, FifoCalls
  <2>6. t.kind = "FIFO"
    BY <2>5 DEF FifoOK
  <2> QED
    BY <1>1, <2>2, <2>5, <2>6 DEF PolicyOK, Evicted
<1>2. CASE LruOK(s, U) /\ s.kind = "LRU"
  <2>1. v \in LruVictims(s)
    BY <1>2 DEF Victims
  <2>2. v.frame \in U /\ v.next = s /\ v.frame = s.list[Len(s.list)]
    BY <1>2, <2>1, LruVictim
  <2>3. t = LruOnEvict(s, v.frame)
    BY <1>2, <2>2 DEF OnEvict
  <2>4. LruOK(t, U \ {v.frame})
    <3>1. PICK f \in FrameSet : f = v.frame
      BY <2>2
    <3>2. f \in U /\ t = LruOnEvict(s, f)
      BY <2>2, <2>3, <3>1
    <3>3. LruOK(LruOnEvict(s, f), U \ {f})
      BY <1>2, <3>2, LruCalls
    <3> QED
      BY <3>1, <3>2, <3>3
  <2>5. t.kind = "LRU"
    BY <2>4 DEF LruOK
  <2>6. t.list = Erase(s.list, v.frame)
    BY <1>2, <2>2, <2>3 DEF LruOnEvict, LruOK
  <2> QED
    BY <1>2, <2>2, <2>4, <2>5, <2>6 DEF PolicyOK, Evicted
<1>3. CASE ClockOK(s, U) /\ s.kind = "Clock"
  <2>1. v \in ClockVictims(s)
    BY <1>3 DEF Victims
  <2>2. /\ v.frame \in U /\ ClockOK(v.next, U)
        /\ s.ring[s.index[v.frame]].ref => \A i \in 1 .. Len(s.ring) : s.ring[i].ref
    BY <1>3, <2>1, ClockVictim
  <2>3. v.next.kind = "Clock"
    BY <2>2 DEF ClockOK
  <2>4. t = ClockOnEvict(v.next, v.frame)
    BY <2>3 DEF OnEvict
  <2>5. ClockOK(t, U \ {v.frame})
    BY <2>2, <2>4, ClockEvict
  <2>6. t.kind = "Clock"
    BY <2>5 DEF ClockOK
  <2> QED
    BY <1>3, <2>2, <2>5, <2>6 DEF PolicyOK, Evicted
<1>4. CASE OptimalOK(s, U) /\ s.kind = "Optimal"
  <2>1. v \in OptimalVictims(s)
    BY <1>4 DEF Victims
  <2>2. v.frame \in U /\ v.next = s
    <3>1. PICK f \in FrameSet : f \in U
      OBVIOUS
    <3> QED
      BY <1>4, <2>1, <3>1, OptimalCalls
  <2>3. t = OptimalOnEvict(s, v.frame)
    BY <1>4, <2>2 DEF OnEvict
  <2>4. OptimalOK(t, U \ {v.frame})
    <3>1. PICK f \in FrameSet : f = v.frame
      BY <2>2
    <3>2. OptimalOK(OptimalOnEvict(s, f), U \ {f})
      BY <1>4, OptimalCalls
    <3> QED
      BY <2>3, <3>1, <3>2
  <2>5. t.kind = "Optimal"
    BY <2>4 DEF OptimalOK
  <2> QED
    BY <1>4, <2>2, <2>4, <2>5 DEF PolicyOK, Evicted
<1> QED
  BY <1>1, <1>2, <1>3, <1>4, Kinds

-----------------------------------------------------------------------------
(* The order of use. *)

(* The pages accessed last are in the frames of l, the last one in the     *)
(* first of them; home gives the frames of the resident pages.             *)
Stacked(l, r, home) ==
    /\ Len(l) <= Len(r)
    /\ \A i \in 1 .. Len(l) : /\ r[Len(r) + 1 - i] \in DOMAIN home
                              /\ home[r[Len(r) + 1 - i]] = l[i]

MadeLast(u, r, page) ==
    /\ u[Len(u)] = page
    /\ page \notin Range(r) => /\ Len(u) = Len(r) + 1
                               /\ \A i \in 1 .. Len(r) : u[i] = r[i]
    /\ \A k \in 1 .. Len(r) :
         r[k] = page => /\ Len(u) = Len(r)
                        /\ \A i \in 1 .. Len(r) - 1 : u[i] = IF i < k THEN r[i] ELSE r[i + 1]

(* An access makes the page the last of the order of use. *)
LEMMA Recent ==
  ASSUME NEW P, NEW r \in Seq(P), IsInjective(r), NEW page \in P,
         NEW u, u = Append(Without(r, page), page)
  PROVE  u \in Seq(P) /\ IsInjective(u) /\ MadeLast(u, r, page)
<1> DEFINE w == Without(r, page)
<1>1. Len(r) \in Nat /\ DOMAIN r = 1 .. Len(r)
  OBVIOUS
<1>2. CASE page \notin Range(r)
  <2>1. u = Append(r, page)
    BY <1>2 DEF Without
  <2>2. /\ u \in Seq(P) /\ Len(u) = Len(r) + 1 /\ u[Len(r) + 1] = page
        /\ (\A i \in 1 .. Len(r) : u[i] = r[i]) /\ IsInjective(u)
    BY <1>2, <2>1, AppendRange
  <2>3. \A k \in 1 .. Len(r) : r[k] # page
    BY <1>1, <1>2, Zenon DEF Range
  <2> QED
    BY <1>2, <2>2, <2>3 DEF MadeLast
<1>3. ASSUME NEW k \in 1 .. Len(r), r[k] = page
      PROVE  /\ u \in Seq(P) /\ IsInjective(u) /\ u[Len(u)] = page /\ Len(u) = Len(r)
             /\ \A i \in 1 .. Len(r) - 1 : u[i] = IF i < k THEN r[i] ELSE r[i + 1]
  <2>1. page \in Range(r)
    BY <1>1, <1>3, Zenon DEF Range
  <2>2. w = Erase(r, r[k])
    BY <1>3, <2>1 DEF Without
  <2> HIDE DEF w
  <2>3. /\ w \in Seq(P) /\ Len(w) = Len(r) - 1
        /\ \A j \in 1 .. Len(r) - 1 : j < k => w[j] = r[j]
        /\ \A j \in 1 .. Len(r) - 1 : j >= k => w[j] = r[j + 1]
        /\ Range(w) = Range(r) \ {r[k]} /\ IsInjective(w)
    <3>1. w \in Seq(P) /\ IsInjective(w) /\ Range(w) = Range(r) \ {r[k]} /\ Erased(w, r, k)
      BY <2>2, EraseAt
    <3> QED
      BY <3>1, Zenon DEF Erased
  <2>4. page \notin Range(w)
    BY <1>3, <2>3
  <2>5. /\ u \in Seq(P) /\ Len(u) = Len(w) + 1 /\ u[Len(w) + 1] = page
        /\ (\A i \in 1 .. Len(w) : u[i] = w[i]) /\ IsInjective(u)
    BY <2>3, <2>4, AppendRange DEF w
  <2>6. Len(u) = Len(r) /\ Len(w) + 1 = Len(u) /\ Len(w) = Len(r) - 1
    BY <1>1, <2>3, <2>5
  <2>7. u[Len(u)] = page
    BY <2>5, <2>6
  <2>8. ASSUME NEW i \in 1 .. Len(r) - 1 PROVE u[i] = IF i < k THEN r[i] ELSE r[i + 1]
    <3>1. u[i] = w[i] /\ (i < k \/ i >= k)
      BY <2>5, <2>6
    <3> QED
      BY <2>3, <3>1
  <2> QED
    BY <2>5, <2>6, <2>7, <2>8
<1>4. CASE page \in Range(r)
  <2>1. PICK k \in 1 .. Len(r) : r[k] = page
    BY <1>1, <1>4, Zenon DEF Range
  <2>2. u \in Seq(P) /\ IsInjective(u) /\ u[Len(u)] = page
    BY <1>3, <2>1, Zenon
  <2> QED
    BY <1>3, <1>4, <2>2, Zenon DEF MadeLast
<1> QED
  BY <1>2, <1>4

(* The page and its frame are moved to the front. *)
MovesUp(l, r, home, page, m, u) ==
    /\ \A q, o \in DOMAIN home : home[q] = home[o] => q = o
    /\ page \in DOMAIN home /\ home[page] \in Range(l)
    /\ m = <<home[page]>> \o Erase(l, home[page])
    /\ u = Append(Without(r, page), page)

(* A hit moves the page and its frame to the front together. *)
LEMMA StackedHit ==
  ASSUME NEW F, NEW P, NEW l \in Seq(F), IsInjective(l), NEW r \in Seq(P), IsInjective(r),
         NEW page \in P, NEW home, NEW m, NEW u, Stacked(l, r, home), MovesUp(l, r, home, page, m, u)
  PROVE  Stacked(m, u, home) /\ Len(m) = Len(l) /\ Len(u) = Len(r)
<1>0. PICK k \in 1 .. Len(l) : l[k] = home[page]
  BY DEF MovesUp, Range
<1> DEFINE e == Erase(l, l[k])
           n == Len(l)
           x == Len(r)
<1>1. n \in Nat /\ x \in Nat /\ n <= x /\ (\A i \in 1 .. n : l[i] \in F) /\ k \in 1 .. n
  BY DEF Stacked
<1>2. /\ e \in Seq(F) /\ Len(e) = n - 1
      /\ \A j \in 1 .. n - 1 : j < k => e[j] = l[j]
      /\ \A j \in 1 .. n - 1 : j >= k => e[j] = l[j + 1]
  <2>1. e \in Seq(F) /\ Erased(e, l, k)
    BY EraseAt
  <2> QED
    BY <2>1, Zenon DEF Erased
<1>3. /\ Len(m) = n /\ m[1] = l[k]
      /\ \A i \in 1 .. n - 1 : m[i + 1] = e[i]
  <2>1. PICK a \in F : a = l[k] /\ m = <<a>> \o e
    BY <1>0, <1>1 DEF MovesUp
  <2> HIDE DEF e
  <2>2. /\ Len(m) = Len(e) + 1 /\ m[1] = l[k]
        /\ \A i \in 1 .. Len(e) : m[i + 1] = e[i]
    BY <1>2, <2>1, PushAt
  <2> QED
    BY <1>1, <1>2, <2>2
<1>4. \A i \in 1 .. n : x + 1 - i \in 1 .. x /\ r[x + 1 - i] \in DOMAIN home /\ home[r[x + 1 - i]] = l[i]
  BY <1>1 DEF Stacked
<1> HIDE DEF e
<1>5. r[x + 1 - k] = page /\ x + 1 - k \in 1 .. x
  BY <1>0, <1>1, <1>4, Zenon DEF MovesUp
<1>6. /\ Len(u) = x /\ u[x] = page
      /\ \A i \in 1 .. x - 1 : u[i] = IF i < x + 1 - k THEN r[i] ELSE r[i + 1]
  <2>1. u = Append(Without(r, page), page)
    BY DEF MovesUp
  <2>2. MadeLast(u, r, page)
    BY <2>1, Recent
  <2> QED
    BY <1>5, <2>2, Zenon DEF MadeLast
<1> HIDE DEF n, x
<1>7. ASSUME NEW i \in 1 .. n PROVE u[x + 1 - i] \in DOMAIN home /\ home[u[x + 1 - i]] = m[i]
  <2>1. CASE i = 1
    <3>1. x + 1 - i = x
      BY <1>1, <2>1
    <3> QED
      BY <1>0, <1>3, <1>6, <2>1, <3>1 DEF MovesUp
  <2>2. CASE i # 1 /\ i - 1 < k
    <3>1. /\ i - 1 \in 1 .. n - 1 /\ (i - 1) + 1 = i /\ i - 1 \in 1 .. n
          /\ x + 1 - i \in 1 .. x - 1 /\ ~(x + 1 - i < x + 1 - k) /\ (x + 1 - i) + 1 = x + 1 - (i - 1)
      BY <1>1, <2>2 DEF n
    <3>2. m[i] = l[i - 1]
      <4>1. m[(i - 1) + 1] = e[i - 1] /\ e[i - 1] = l[i - 1]
        BY <1>2, <1>3, <2>2, <3>1, Zenon DEF n
      <4> QED
        BY <3>1, <4>1
    <3>3. u[x + 1 - i] = r[(x + 1 - i) + 1]
      BY <1>6, <3>1, Zenon
    <3>4. r[x + 1 - (i - 1)] \in DOMAIN home /\ home[r[x + 1 - (i - 1)]] = l[i - 1]
      BY <1>4, <3>1
    <3> QED
      BY <3>1, <3>2, <3>3, <3>4, Zenon
  <2>3. CASE i # 1 /\ ~(i - 1 < k)
    <3>1. /\ i - 1 \in 1 .. n - 1 /\ (i - 1) + 1 = i /\ i - 1 >= k
          /\ x + 1 - i \in 1 .. x - 1 /\ x + 1 - i < x + 1 - k
      BY <1>1, <2>3 DEF n
    <3>2. m[i] = l[i]
      <4>1. m[(i - 1) + 1] = e[i - 1] /\ e[i - 1] = l[(i - 1) + 1]
        BY <1>2, <1>3, <3>1, Zenon DEF n
      <4> QED
        BY <3>1, <4>1
    <3>3. u[x + 1 - i] = r[x + 1 - i]
      BY <1>6, <3>1
    <3> QED
      BY <1>4, <3>2, <3>3
  <2> QED
    BY <2>1, <2>2, <2>3
<1>8. Len(m) = n /\ Len(u) = x /\ n <= x
  BY <1>1, <1>3, <1>6
<1>9. Stacked(m, u, home)
  BY <1>7, <1>8, Zenon DEF Stacked
<1> QED
  BY <1>8, <1>9 DEF n, x

(* The frames k at the front of l keep their pages. *)
Stays(l, home, k, after) ==
    /\ Len(k) <= Len(l)
    /\ \A i \in 1 .. Len(k) : k[i] = l[i]
    /\ \A q \in DOMAIN home : home[q] \in Range(k) => q \in DOMAIN after /\ after[q] = home[q]

StacksOn(l, r, k, m, u, after) ==
    /\ Stacked(m, u, after) /\ Len(m) = Len(k) + 1
    /\ Len(l) = Len(r) => Len(u) = Len(r) + 1

(* A load puts the new page before those that stay. *)
LEMMA StackedLoad ==
  ASSUME NEW F, NEW P, NEW l \in Seq(F), NEW r \in Seq(P), IsInjective(r),
         NEW home, NEW after, Stacked(l, r, home),
         NEW k \in Seq(F), Stays(l, home, k, after),
         NEW page \in P, page \notin DOMAIN home, NEW f \in F, page \in DOMAIN after, after[page] = f,
         NEW m, m = <<f>> \o k,
         NEW u, u = Append(Without(r, page), page)
  PROVE  StacksOn(l, r, k, m, u, after)
<1> DEFINE n == Len(l)
           c == Len(k)
           x == Len(r)
           y == Len(u)
<1>1. n \in Nat /\ c \in Nat /\ x \in Nat /\ c <= n /\ n <= x
  BY DEF Stacked, Stays
<1>2. Len(m) = c + 1 /\ m[1] = f /\ \A i \in 1 .. c : m[i + 1] = k[i]
  BY PushAt
<1>3. \A i \in 1 .. n : x + 1 - i \in 1 .. x /\ r[x + 1 - i] \in DOMAIN home /\ home[r[x + 1 - i]] = l[i]
  BY <1>1 DEF Stacked
<1>4. \A i \in 1 .. c : k[i] \in Range(k) /\ i \in 1 .. n
  BY <1>1 DEF Range
<1>5. \A i \in 1 .. c : r[x + 1 - i] \in DOMAIN after /\ after[r[x + 1 - i]] = k[i]
  BY <1>3, <1>4 DEF Stays
<1>6. u \in Seq(P) /\ u[y] = page /\ MadeLast(u, r, page)
  <2>1. u \in Seq(P) /\ MadeLast(u, r, page)
    BY Recent
  <2> QED
    BY <2>1, Zenon DEF MadeLast
<1>7. \A j \in 1 .. x : r[j] = page => j < x + 1 - n
  <2>1. SUFFICES ASSUME NEW j \in 1 .. x, r[j] = page, ~(j < x + 1 - n) PROVE FALSE
    OBVIOUS
  <2> HIDE DEF n, x
  <2>2. x + 1 - j \in 1 .. n /\ x + 1 - (x + 1 - j) = j
    BY <1>1, <2>1
  <2> QED
    BY <1>3, <2>1, <2>2
<1>8. /\ c + 1 <= y /\ y \in Nat
      /\ \A i \in 1 .. c : u[y - i] = r[x + 1 - i]
      /\ n = x => y = x + 1
  <2>1. CASE page \notin Range(r)
    <3>1. y = x + 1 /\ \A i \in 1 .. x : u[i] = r[i]
      BY <1>6, <2>1, Zenon DEF MadeLast
    <3> HIDE DEF n, c, x, y
    <3>2. \A i \in 1 .. c : y - i = x + 1 - i /\ x + 1 - i \in 1 .. x
      BY <1>1, <3>1
    <3>3. c + 1 <= y /\ y \in Nat
      BY <1>1, <3>1
    <3> QED
      BY <3>1, <3>2, <3>3
  <2>2. CASE page \in Range(r)
    <3>1. PICK j \in 1 .. x : r[j] = page
      BY <2>2 DEF Range
    <3>2. y = x /\ \A i \in 1 .. x - 1 : u[i] = IF i < j THEN r[i] ELSE r[i + 1]
      BY <1>6, <3>1, Zenon DEF MadeLast
    <3>3. j < x + 1 - n
      BY <1>7, <3>1
    <3> HIDE DEF n, c, x, y
    <3>4. c + 1 <= y /\ y \in Nat /\ n # x
      BY <1>1, <3>1, <3>2, <3>3
    <3>5. ASSUME NEW i \in 1 .. c PROVE u[y - i] = r[x + 1 - i]
      <4>1. y - i \in 1 .. x - 1 /\ ~(y - i < j) /\ (y - i) + 1 = x + 1 - i
        BY <1>1, <3>1, <3>2, <3>3
      <4> QED
        BY <3>2, <4>1
    <3> QED
      BY <3>4, <3>5
  <2> QED
    BY <2>1, <2>2
<1> HIDE DEF n, c, x, y
<1>9. ASSUME NEW i \in 1 .. c + 1 PROVE u[y + 1 - i] \in DOMAIN after /\ after[u[y + 1 - i]] = m[i]
  <2>1. CASE i = 1
    <3>1. y + 1 - i = y
      BY <1>8, <2>1
    <3> QED
      BY <1>2, <1>6, <2>1, <3>1
  <2>2. CASE i # 1
    <3>1. i - 1 \in 1 .. c /\ (i - 1) + 1 = i /\ y - (i - 1) = y + 1 - i
      BY <1>1, <1>8, <2>2
    <3>2. u[y - (i - 1)] = r[x + 1 - (i - 1)] /\ m[(i - 1) + 1] = k[i - 1]
      BY <1>2, <1>8, <3>1, Zenon
    <3>3. r[x + 1 - (i - 1)] \in DOMAIN after /\ after[r[x + 1 - (i - 1)]] = k[i - 1]
      BY <1>5, <3>1, Zenon
    <3> QED
      BY <3>1, <3>2, <3>3, Zenon
  <2> QED
    BY <2>1, <2>2
<1> QED
  BY <1>2, <1>8, <1>9 DEF Stacked, StacksOn, n, c, x, y

=============================================================================
