----------------------------- MODULE ListLemmas -----------------------------
(***************************************************************************)
(* Induction by a least counterexample, and what pushing, popping and      *)
(* unlinking do to a list without repetitions: the facts the free lists of *)
(* the allocators rest on.                                                 *)
(***************************************************************************)
EXTENDS Integers, Sequences, Functions, WellFoundedInduction, TLAPS

(* A nonempty set of naturals has a least element: induction is done by a   *)
(* least counterexample.                                                    *)
LEMMA Least ==
  ASSUME NEW T, T \subseteq Nat, T # {}
  PROVE  \E x \in T : \A y \in T : x <= y
<1>1. IsWellFoundedOn(OpToRel(<, Nat), Nat)
  BY NatLessThanWellFounded, Zenon
<1>2. PICK x \in T : \A y \in T : ~ (<<y, x>> \in OpToRel(<, Nat))
  BY <1>1, WFMin, Zenon
<1>3. \A y \in T : ~ (y < x)
  BY <1>2, Zenon DEF OpToRel
<1> QED
  BY <1>3

(* Two lists with the same elements at the same places are the same. *)
LEMMA SameList ==
  ASSUME NEW S, NEW k \in Seq(S), NEW l \in Seq(S), Len(k) = Len(l),
         \A i \in 1 .. Len(k) : k[i] = l[i]
  PROVE  k = l
  OBVIOUS

(* The elements of two lists put one after the other. *)
LEMMA ConcatAt ==
  ASSUME NEW S, NEW k \in Seq(S), NEW l \in Seq(S)
  PROVE  /\ k \o l \in Seq(S) /\ Len(k \o l) = Len(k) + Len(l)
         /\ \A i \in 1 .. Len(k) + Len(l) :
               (k \o l)[i] = IF i <= Len(k) THEN k[i] ELSE l[i - Len(k)]
  OBVIOUS

(* The elements of a part of a list. *)
LEMMA PartAt ==
  ASSUME NEW S, NEW l, NEW m \in Int, NEW n \in Int,
         \A i \in m .. n : l[i] \in S
  PROVE  /\ SubSeq(l, m, n) \in Seq(S)
         /\ Len(SubSeq(l, m, n)) = IF m <= n THEN n - m + 1 ELSE 0
         /\ \A i \in 1 .. n - m + 1 : SubSeq(l, m, n)[i] = l[m + i - 1]
  OBVIOUS

(* The elements of a list with one more at the end. *)
LEMMA AppendAt ==
  ASSUME NEW S, NEW l \in Seq(S), NEW a \in S
  PROVE  /\ Append(l, a) \in Seq(S) /\ Append(l, a) # <<>>
         /\ Len(Append(l, a)) = Len(l) + 1 /\ Append(l, a)[Len(l) + 1] = a
         /\ \A i \in 1 .. Len(l) : Append(l, a)[i] = l[i]
  OBVIOUS

(* The elements of a popped list, one by one. *)
LEMMA PopAt ==
  ASSUME NEW S, NEW l \in Seq(S), l # <<>>
  PROVE  /\ Tail(l) \in Seq(S) /\ Len(l) \in Nat \ {0} /\ Len(Tail(l)) = Len(l) - 1
         /\ Head(l) = l[1] /\ l[1] \in S
         /\ \A i \in 1 .. Len(l) - 1 : Tail(l)[i] = l[i + 1]
  OBVIOUS

(* The elements of a pushed list, one by one. *)
LEMMA PushAt ==
  ASSUME NEW S, NEW l \in Seq(S), NEW a \in S
  PROVE  /\ <<a>> \o l \in Seq(S) /\ <<a>> \o l # <<>>
         /\ Len(<<a>> \o l) = Len(l) + 1
         /\ (<<a>> \o l)[1] = a
         /\ \A i \in 1 .. Len(l) : (<<a>> \o l)[i + 1] = l[i]
<1> DEFINE m == <<a>> \o l
<1>1. <<a>> \in Seq(S) /\ Len(<<a>>) = 1 /\ <<a>>[1] = a /\ Len(l) \in Nat
  OBVIOUS
<1>2. /\ m \in Seq(S) /\ Len(m) = 1 + Len(l)
      /\ \A i \in 1 .. 1 + Len(l) : m[i] = IF i <= 1 THEN <<a>>[i] ELSE l[i - 1]
  BY <1>1, ConcatAt
<1> HIDE DEF m
<1>3. ASSUME NEW i \in 1 .. Len(l) PROVE m[i + 1] = l[i]
  <2>1. i + 1 \in 1 .. 1 + Len(l) /\ ~ (i + 1 <= 1) /\ (i + 1) - 1 = i
    BY <1>1
  <2> QED
    BY <1>2, <2>1
<1>4. m[1] = a /\ m # <<>>
  BY <1>1, <1>2
<1> QED
  BY <1>1, <1>2, <1>3, <1>4 DEF m

(* Pushing adds an address; a list without repetitions stays one when the   *)
(* address is new.                                                          *)
LEMMA PushRange ==
  ASSUME NEW S, NEW l \in Seq(S), NEW a \in S
  PROVE  /\ <<a>> \o l \in Seq(S)
         /\ Range(<<a>> \o l) = {a} \cup Range(l)
         /\ IsInjective(l) /\ a \notin Range(l) => IsInjective(<<a>> \o l)
<1> DEFINE m == <<a>> \o l
           n == Len(l)
<1>1. n \in Nat /\ DOMAIN l = 1 .. n
  OBVIOUS
<1>2. m \in Seq(S) /\ DOMAIN m = 1 .. n + 1 /\ m[1] = a /\ \A i \in 1 .. n : m[i + 1] = l[i]
  BY <1>1, PushAt
<1> HIDE DEF m, n
<1>3. \A i \in 1 .. n + 1 : i = 1 \/ (i - 1 \in 1 .. n /\ m[i] = l[i - 1])
  <2>1. SUFFICES ASSUME NEW i \in 1 .. n + 1, i # 1 PROVE i - 1 \in 1 .. n /\ m[i] = l[i - 1]
    OBVIOUS
  <2>2. i - 1 \in 1 .. n /\ (i - 1) + 1 = i
    BY <1>1, <2>1
  <2> QED
    BY <1>2, <2>2
<1>4. Range(m) = {a} \cup Range(l)
  <2>1. ASSUME NEW x \in Range(m) PROVE x \in {a} \cup Range(l)
    <3>1. PICK i \in 1 .. n + 1 : x = m[i]
      BY <1>2 DEF Range
    <3>2. CASE i = 1
      BY <1>2, <3>1, <3>2
    <3>3. CASE i # 1
      <4>1. i - 1 \in DOMAIN l /\ x = l[i - 1]
        BY <1>1, <1>3, <3>1, <3>3
      <4> QED
        BY <4>1 DEF Range
    <3> QED
      BY <3>2, <3>3
  <2>2. a \in Range(m)
    BY <1>1, <1>2 DEF Range
  <2>3. ASSUME NEW x \in Range(l) PROVE x \in Range(m)
    <3>1. PICK i \in 1 .. n : x = l[i]
      BY <1>1 DEF Range
    <3>2. i + 1 \in 1 .. n + 1 /\ m[i + 1] = x
      BY <1>1, <1>2, <3>1
    <3> QED
      BY <1>2, <3>2 DEF Range
  <2> QED
    BY <2>1, <2>2, <2>3
<1>5. ASSUME IsInjective(l), a \notin Range(l) PROVE IsInjective(m)
  <2>1. /\ \A i, j \in 1 .. n : l[i] = l[j] => i = j
        /\ \A i \in 1 .. n : l[i] # a
    BY <1>1, <1>5 DEF IsInjective, Range
  <2>2. SUFFICES ASSUME NEW i \in 1 .. n + 1, NEW j \in 1 .. n + 1, m[i] = m[j] PROVE i = j
    BY <1>2 DEF IsInjective
  <2>3. CASE i = 1 \/ j = 1
    <3>1. i # 1 => m[i] # a
      BY <1>3, <2>1
    <3>2. j # 1 => m[j] # a
      BY <1>3, <2>1
    <3>3. m[1] = a
      BY <1>2
    <3> QED
      BY <2>2, <2>3, <3>1, <3>2, <3>3
  <2>4. CASE i # 1 /\ j # 1
    <3>1. i - 1 = j - 1
      BY <1>3, <2>1, <2>2, <2>4
    <3> QED
      BY <3>1, <1>1
  <2> QED
    BY <2>3, <2>4
<1> QED
  BY <1>2, <1>4, <1>5 DEF m

(* Popping takes exactly the head away. *)
LEMMA PopRange ==
  ASSUME NEW S, NEW l \in Seq(S), l # <<>>, IsInjective(l)
  PROVE  /\ Head(l) \in S /\ Tail(l) \in Seq(S)
         /\ Head(l) \in Range(l)
         /\ Range(Tail(l)) = Range(l) \ {Head(l)}
         /\ IsInjective(Tail(l))
<1>1. /\ Len(l) \in Nat \ {0} /\ DOMAIN l = 1 .. Len(l) /\ Head(l) = l[1]
      /\ Tail(l) \in Seq(S) /\ Len(Tail(l)) = Len(l) - 1
      /\ DOMAIN Tail(l) = 1 .. Len(l) - 1
      /\ \A i \in 1 .. Len(l) - 1 : Tail(l)[i] = l[i + 1]
  BY PopAt
<1>2. Head(l) \in S /\ Head(l) \in Range(l)
  BY <1>1 DEF Range
<1>3. \A i, j \in 1 .. Len(l) : l[i] = l[j] => i = j
  BY <1>1 DEF IsInjective
<1>4. ASSUME NEW x \in Range(Tail(l)) PROVE x \in Range(l) /\ x # Head(l)
  BY <1>1, <1>3, <1>4 DEF Range
<1>5. ASSUME NEW x \in Range(l), x # Head(l) PROVE x \in Range(Tail(l))
  <2>1. PICK i \in 1 .. Len(l) : x = l[i] /\ i # 1
    BY <1>1, <1>5 DEF Range
  <2>2. i - 1 \in 1 .. Len(l) - 1 /\ Tail(l)[i - 1] = x
    BY <1>1, <2>1
  <2> QED
    BY <1>1, <2>2, Zenon DEF Range
<1>6. IsInjective(Tail(l))
  BY <1>1, <1>3 DEF IsInjective
<1> QED
  BY <1>1, <1>2, <1>4, <1>5, <1>6

(* The elements that stay when the one at position i is unlinked. *)
LEMMA RemoveAt ==
  ASSUME NEW S, NEW l \in Seq(S), NEW i \in 1 .. Len(l)
  PROVE  LET m == SubSeq(l, 1, i - 1) \o SubSeq(l, i + 1, Len(l))
         IN  /\ m \in Seq(S) /\ Len(m) = Len(l) - 1
             /\ \A j \in 1 .. Len(l) - 1 : j < i => m[j] = l[j]
             /\ \A j \in 1 .. Len(l) - 1 : j >= i => m[j] = l[j + 1]
<1> DEFINE n == Len(l)
           f == SubSeq(l, 1, i - 1)
           g == SubSeq(l, i + 1, n)
           m == f \o g
<1>1. n \in Nat /\ i \in 1 .. n /\ DOMAIN l = 1 .. n /\ \A j \in 1 .. n : l[j] \in S
  OBVIOUS
<1>2. /\ f \in Seq(S) /\ Len(f) = i - 1
      /\ \A j \in 1 .. i - 1 : f[j] = l[j]
  <2>1. \A j \in 1 .. i - 1 : l[j] \in S
    BY <1>1
  <2> QED
    BY <1>1, <2>1, PartAt
<1>3. /\ g \in Seq(S) /\ Len(g) = n - i
      /\ \A j \in 1 .. n - i : g[j] = l[i + j]
  <2>1. \A j \in i + 1 .. n : l[j] \in S
    BY <1>1
  <2>2. /\ Len(g) = IF i + 1 <= n THEN n - (i + 1) + 1 ELSE 0
        /\ g \in Seq(S)
        /\ \A j \in 1 .. n - (i + 1) + 1 : g[j] = l[(i + 1) + j - 1]
    BY <1>1, <2>1, PartAt
  <2> HIDE DEF g, n
  <2>3. n - (i + 1) + 1 = n - i /\ Len(g) = n - i
    BY <1>1, <2>2
  <2>4. ASSUME NEW j \in 1 .. n - i PROVE g[j] = l[i + j]
    <3>1. (i + 1) + j - 1 = i + j
      BY <1>1
    <3> QED
      BY <2>2, <2>3, <3>1
  <2> QED
    BY <2>2, <2>3, <2>4
<1> HIDE DEF f, g, n
<1>4. /\ m \in Seq(S) /\ Len(m) = n - 1
      /\ \A j \in 1 .. n - 1 : j < i => m[j] = l[j]
      /\ \A j \in 1 .. n - 1 : j >= i => m[j] = l[j + 1]
  <2>1. /\ m \in Seq(S) /\ Len(m) = Len(f) + Len(g)
        /\ \A j \in 1 .. Len(f) + Len(g) : m[j] = IF j <= Len(f) THEN f[j] ELSE g[j - Len(f)]
    BY <1>2, <1>3, ConcatAt, Zenon
  <2> HIDE DEF m
  <2>2. Len(f) + Len(g) = n - 1
    BY <1>1, <1>2, <1>3
  <2>3. Len(m) = n - 1
    BY <2>1, <2>2
  <2>4. ASSUME NEW j \in 1 .. n - 1, j < i PROVE m[j] = l[j]
    <3>1. j \in 1 .. Len(f) + Len(g) /\ j <= Len(f) /\ j \in 1 .. i - 1
      BY <1>1, <1>2, <2>2, <2>4
    <3> QED
      BY <1>2, <2>1, <3>1
  <2>5. ASSUME NEW j \in 1 .. n - 1, j >= i PROVE m[j] = l[j + 1]
    <3>1. j \in 1 .. Len(f) + Len(g) /\ ~ (j <= Len(f)) /\ j - Len(f) \in 1 .. n - i
      BY <1>1, <1>2, <2>2, <2>5
    <3>2. m[j] = g[j - Len(f)]
      BY <2>1, <3>1
    <3>3. i + (j - Len(f)) = j + 1
      BY <1>1, <1>2
    <3> QED
      BY <1>3, <3>1, <3>2, <3>3
  <2> QED
    BY <2>1, <2>3, <2>4, <2>5
<1> HIDE DEF m
<1> QED
  BY <1>4 DEF m, f, g, n

(* Unlinking the node at position i takes exactly its address away. *)
LEMMA RemoveRange ==
  ASSUME NEW S, NEW l \in Seq(S), IsInjective(l), NEW i \in 1 .. Len(l)
  PROVE  LET m == SubSeq(l, 1, i - 1) \o SubSeq(l, i + 1, Len(l))
         IN  /\ m \in Seq(S)
             /\ l[i] \in Range(l)
             /\ Range(m) = Range(l) \ {l[i]}
             /\ IsInjective(m)
<1> DEFINE n == Len(l)
           m == SubSeq(l, 1, i - 1) \o SubSeq(l, i + 1, Len(l))
<1>1. n \in Nat /\ i \in 1 .. n /\ DOMAIN l = 1 .. n
  OBVIOUS
<1>3. /\ m \in Seq(S) /\ Len(m) = n - 1
      /\ \A j \in 1 .. n - 1 : j < i => m[j] = l[j]
      /\ \A j \in 1 .. n - 1 : j >= i => m[j] = l[j + 1]
  BY RemoveAt
<1> HIDE DEF m, n
<1>4. DOMAIN m = 1 .. n - 1
  BY <1>3
<1>5. \A j, k \in 1 .. n : l[j] = l[k] => j = k
  BY <1>1 DEF IsInjective
<1>6. \A j \in 1 .. n - 1 : \E k \in 1 .. n : /\ k # i /\ m[j] = l[k]
                                             /\ k = IF j < i THEN j ELSE j + 1
  BY <1>1, <1>3
<1>7. \A k \in 1 .. n : k # i => \E j \in 1 .. n - 1 : m[j] = l[k]
  <2>1. SUFFICES ASSUME NEW k \in 1 .. n, k # i PROVE \E j \in 1 .. n - 1 : m[j] = l[k]
    OBVIOUS
  <2>2. CASE k < i
    BY <1>1, <1>3, <2>1, <2>2
  <2>3. CASE k > i
    <3>1. k - 1 \in 1 .. n - 1 /\ k - 1 >= i /\ (k - 1) + 1 = k
      BY <1>1, <2>1, <2>3
    <3> QED
      BY <1>3, <3>1
  <2> QED
    BY <1>1, <2>1, <2>2, <2>3
<1>8. Range(m) = Range(l) \ {l[i]} /\ l[i] \in Range(l)
  <2>1. ASSUME NEW x \in Range(m) PROVE x \in Range(l) \ {l[i]}
    <3>1. PICK j \in 1 .. n - 1 : x = m[j]
      BY <1>4 DEF Range
    <3>2. PICK k \in 1 .. n : k # i /\ x = l[k]
      BY <1>6, <3>1
    <3> QED
      BY <1>1, <1>5, <3>2 DEF Range
  <2>2. ASSUME NEW x \in Range(l), x # l[i] PROVE x \in Range(m)
    <3>1. PICK k \in 1 .. n : x = l[k] /\ k # i
      BY <1>1, <2>2 DEF Range
    <3> QED
      BY <1>4, <1>7, <3>1 DEF Range
  <2>3. l[i] \in Range(l)
    BY <1>1 DEF Range
  <2> QED
    BY <2>1, <2>2, <2>3
<1>9. IsInjective(m)
  <2>1. SUFFICES ASSUME NEW j \in 1 .. n - 1, NEW k \in 1 .. n - 1, m[j] = m[k] PROVE j = k
    BY <1>4 DEF IsInjective
  <2>2. (IF j < i THEN j ELSE j + 1) = (IF k < i THEN k ELSE k + 1)
    BY <1>5, <1>6, <2>1
  <2> QED
    BY <1>1, <2>2
<1> QED
  BY <1>3, <1>8, <1>9 DEF m, n

(* Appending adds an element at the end. *)
LEMMA AppendRange ==
  ASSUME NEW S, NEW l \in Seq(S), NEW a \in S
  PROVE  /\ Append(l, a) \in Seq(S) /\ Len(Append(l, a)) = Len(l) + 1
         /\ Append(l, a)[Len(l) + 1] = a
         /\ \A i \in 1 .. Len(l) : Append(l, a)[i] = l[i]
         /\ Range(Append(l, a)) = Range(l) \cup {a}
         /\ IsInjective(l) /\ a \notin Range(l) => IsInjective(Append(l, a))
<1> DEFINE m == Append(l, a)
           n == Len(l)
<1>1. /\ m \in Seq(S) /\ Len(m) = n + 1 /\ n \in Nat
      /\ \A i \in 1 .. n : m[i] = l[i]
      /\ m[n + 1] = a
  BY AppendAt
<1>2. DOMAIN m = 1 .. n + 1 /\ DOMAIN l = 1 .. n /\ \A i \in 1 .. n + 1 : i \in 1 .. n \/ i = n + 1
  BY <1>1
<1> HIDE DEF m, n
<1>3. Range(m) = Range(l) \cup {a}
  <2>1. \A x : x \in Range(m) <=> \E i \in 1 .. n + 1 : m[i] = x
    BY <1>2, Zenon DEF Range
  <2>2. \A x : x \in Range(l) <=> \E i \in 1 .. n : l[i] = x
    BY <1>2, Zenon DEF Range
  <2>3. n + 1 \in 1 .. n + 1 /\ \A i \in 1 .. n : i \in 1 .. n + 1
    BY <1>1
  <2> QED
    BY <1>1, <1>2, <2>1, <2>2, <2>3, Zenon
<1>4. ASSUME IsInjective(l), a \notin Range(l) PROVE IsInjective(m)
  <2>1. \A i, j \in 1 .. n : l[i] = l[j] => i = j
    BY <1>2, <1>4, Zenon DEF IsInjective
  <2>2. \A i \in 1 .. n : l[i] # a
    BY <1>2, <1>4, Zenon DEF Range
  <2>3. \A i, j \in 1 .. n + 1 : m[i] = m[j] => i = j
    BY <1>1, <1>2, <2>1, <2>2, Zenon
  <2> QED
    BY <1>2, <2>3, Zenon DEF IsInjective
<1> QED
  BY <1>1, <1>3, <1>4 DEF m, n

(* All but the last element of a list. *)
LEMMA FrontAt ==
  ASSUME NEW S, NEW l \in Seq(S), l # <<>>
  PROVE  LET f == SubSeq(l, 1, Len(l) - 1)
         IN  f \in Seq(S) /\ Len(f) = Len(l) - 1 /\ \A i \in 1 .. Len(l) - 1 : f[i] = l[i]
<1> DEFINE n == Len(l) - 1
<1>1. n \in Nat /\ \A i \in 1 .. n : l[i] \in S
  OBVIOUS
<1> HIDE DEF n
<1>2. SubSeq(l, 1, n) = [i \in 1 .. n |-> l[i]]
  BY <1>1
<1>3. [i \in 1 .. n |-> l[i]] \in Seq(S) /\ Len([i \in 1 .. n |-> l[i]]) = n
  BY <1>1
<1>4. /\ SubSeq(l, 1, n) \in Seq(S) /\ Len(SubSeq(l, 1, n)) = n
      /\ \A i \in 1 .. n : SubSeq(l, 1, n)[i] = l[i]
  BY <1>2, <1>3
<1> QED
  BY <1>4, Zenon DEF n

(* One of finitely many numbers is the greatest.                            *)
LEMMA Greatest ==
  ASSUME NEW l \in Seq(Nat), l # <<>>
  PROVE  \E j \in 1 .. Len(l) : \A i \in 1 .. Len(l) : l[i] <= l[j]
<1> DEFINE Top(m, j) == j \in 1 .. m /\ \A i \in 1 .. m : l[i] <= l[j]
           Bad == {m \in 1 .. Len(l) : \A j : ~Top(m, j)}
<1>1. Len(l) \in Nat \ {0} /\ \A i \in 1 .. Len(l) : l[i] \in Nat
  OBVIOUS
<1>2. Bad \subseteq Nat /\ \A m \in 1 .. Len(l) : m \notin Bad => \E j : Top(m, j)
  BY <1>1
<1>3. \A m \in Bad : m \in 1 .. Len(l) /\ \A j : ~Top(m, j)
  OBVIOUS
<1>4. \A m, j : Top(m, j) <=> j \in 1 .. m /\ \A i \in 1 .. m : l[i] <= l[j]
  OBVIOUS
<1> HIDE DEF Top, Bad
<1>5. Bad = {}
  <2> SUFFICES ASSUME Bad # {} PROVE FALSE
    OBVIOUS
  <2>1. PICK m : m \in Bad /\ \A y \in Bad : m <= y
    BY <1>2, Least, Zenon
  <2>2. m \in 1 .. Len(l) /\ m \in Nat /\ \A j : ~Top(m, j)
    BY <1>1, <1>3, <2>1
  <2>3. m # 1
    <3>1. \A i \in 1 .. 1 : i = 1 /\ l[1] \in Nat
      BY <1>1
    <3>2. 1 \in 1 .. 1 /\ \A i \in 1 .. 1 : l[i] <= l[1]
      BY <3>1
    <3> QED
      BY <1>4, <2>2, <3>2, Zenon
  <2>4. m - 1 \in 1 .. Len(l) /\ ~(m <= m - 1)
    BY <1>1, <2>2, <2>3
  <2>5. PICK j : Top(m - 1, j)
    BY <1>2, <2>1, <2>4, Zenon
  <2>6. j \in 1 .. m - 1 /\ \A i \in 1 .. m - 1 : l[i] <= l[j]
    BY <1>4, <2>5, Zenon
  <2>7. j \in 1 .. m /\ m \in 1 .. m /\ l[j] \in Nat /\ l[m] \in Nat
    BY <1>1, <2>2, <2>6
  <2>8. \A i \in 1 .. m : l[i] \in Nat /\ (i \in 1 .. m - 1 \/ i = m)
    BY <1>1, <2>2
  <2>9. \A i \in 1 .. m : l[i] \in Nat /\ (l[i] <= l[j] \/ i = m)
    BY <2>6, <2>8, Zenon
  <2>10. Top(m, j) \/ Top(m, m)
    <3>1. CASE l[m] <= l[j]
      BY <1>4, <2>7, <2>9, <3>1, Zenon
    <3>2. CASE ~(l[m] <= l[j])
      <4>1. l[m] <= l[m] /\ \A x \in Nat : x <= l[j] => x <= l[m]
        BY <2>7, <3>2
      <4> QED
        BY <1>4, <2>7, <2>9, <4>1, Zenon
    <3> QED
      BY <3>1, <3>2
  <2> QED
    BY <2>2, <2>10, Zenon
<1>6. Len(l) \in 1 .. Len(l)
  BY <1>1
<1>7. PICK j : Top(Len(l), j)
  BY <1>2, <1>5, <1>6, Zenon
<1> QED
  BY <1>4, <1>7, Zenon

(* A sequence whose elements are in a set is a sequence over that set.      *)
LEMMA ElementsIn ==
  ASSUME NEW S, NEW R, NEW l \in Seq(R), \A i \in 1 .. Len(l) : l[i] \in S
  PROVE  l \in Seq(S)
<1>1. Len(l) \in Nat /\ l \in [1 .. Len(l) -> S]
  OBVIOUS
<1> QED
  BY <1>1
=============================================================================
