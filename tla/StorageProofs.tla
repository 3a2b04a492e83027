--------------------------- MODULE StorageProofs -----------------------------
(***************************************************************************)
(* Proofs about the storage classes of include/: the list many threads     *)
(* share (module LockFreeFreelist), and the three classes one thread uses  *)
(* alone: the arenas (Arena), the pool (PoolAllocator) and the owner of    *)
(* mapped pages (VirtualMemory).  They share no state.                     *)
(***************************************************************************)
EXTENDS LockFreeFreelist, ListLemmas, TLAPS

-----------------------------------------------------------------------------
(* The lock-free list, for any number of threads and nodes. *)

(* A thread's step leaves the registers of the others alone. *)
Others(t) ==
    \A u \in Threads : u # t => /\ pc'[u] = pc[u] /\ node'[u] = node[u]
                                /\ old'[u] = old[u] /\ nxt'[u] = nxt[u]

(* The head of the list that head_ points to is the top of the stack. *)
LEMMA HeadOfStack ==
  ASSUME TypeOK, Linked
  PROVE  /\ head.ptr \in Nodes <=> stack # <<>>
         /\ stack # <<>> => head.ptr = stack[1] /\ head.ptr = Head(stack) /\ head.ptr \in Range(stack)
<1>1. stack # <<>> => Head(stack) = stack[1] /\ stack[1] \in Nodes /\ stack[1] \in Range(stack)
  BY PopAt DEF TypeOK, Range
<1> QED
  BY <1>1, NodesAssumption DEF Linked

(* The node below the top is where the top's next field points. *)
LEMMA BelowTop ==
  ASSUME TypeOK, Linked, stack # <<>>
  PROVE  /\ Len(stack) = 1 => next[stack[1]] = Null
         /\ Len(stack) # 1 => next[stack[1]] = stack[2] /\ stack[2] \in Nodes
<1> DEFINE n == Len(stack)
<1>1. n \in Nat \ {0} /\ \A i \in 1 .. n : stack[i] \in Nodes
  BY PopAt DEF TypeOK
<1>2. \A i \in 1 .. n : next[stack[i]] = IF i = n THEN Null ELSE stack[i + 1]
  BY DEF Linked
<1> HIDE DEF n
<1>3. n # 1 => 2 \in 1 .. n
  BY <1>1
<1>4. 1 \in 1 .. n /\ 1 + 1 = 2
  BY <1>1
<1>5. next[stack[1]] = IF 1 = n THEN Null ELSE stack[1 + 1]
  BY <1>2, <1>4
<1> QED
  BY <1>1, <1>3, <1>4, <1>5 DEF n

(* The constructor makes an empty list and every node is a caller's. *)
LEMMA InitOK ==
  ASSUME Init
  PROVE  IInv
<1>1. TypeOK
  BY DEF Init, TypeOK, Pointers
<1>2. Range(stack) = {} /\ IsInjective(stack)
  BY DEF Init, Range, IsInjective
<1>3. OneOwner
  BY <1>2 DEF Init, OneOwner, Pushing
<1>4. Linked
  BY DEF Init, Linked
<1>5. TagFresh
  BY DEF Init, TagFresh
<1> QED
  BY <1>1, <1>3, <1>4, <1>5 DEF IInv

(* Every step keeps the types. *)
LEMMA TypeStep ==
  ASSUME IInv, [Next]_vars
  PROVE  TypeOK'
<1> TypeOK /\ OneOwner /\ Linked /\ TagFresh
  BY DEF IInv
<1>1. Null \in Pointers /\ [ptr |-> Null, tag |-> 0] \in [ptr : Pointers, tag : Nat]
  BY DEF Pointers
<1>2. ASSUME NEW t \in Threads, NEW n \in Nodes, PushCall(t, n) PROVE TypeOK'
  BY <1>2 DEF PushCall, TypeOK, Pointers
<1>3. ASSUME NEW t \in Threads, PushStore(t) PROVE TypeOK'
  <2>1. old[t].ptr \in Nodes \cup {Null, Junk}
    BY DEF TypeOK, Pointers
  <2> QED
    BY <1>3, <2>1, Zenon DEF PushStore, TypeOK
<1>4. ASSUME NEW t \in Threads, PushCAS(t) PROVE TypeOK'
  <2>1. node[t] \in Nodes
    BY <1>4 DEF PushCAS, OneOwner, Pushing
  <2>2. head' \in [ptr : Pointers, tag : Nat]
    <3>1. node[t] \in Pointers /\ old[t].tag + 1 \in Nat
      BY <2>1 DEF Pointers, TypeOK
    <3> QED
      BY <1>4, <3>1 DEF PushCAS
  <2>3. stack' \in Seq(Nodes)
    BY <1>4, <2>1, PushAt DEF PushCAS, TypeOK
  <2> QED
    BY <1>1, <1>4, <2>2, <2>3 DEF PushCAS, Return, TypeOK
<1>5. ASSUME NEW t \in Threads, PushRetry(t) \/ PopCall(t) \/ PopRetry(t) PROVE TypeOK'
  BY <1>5, Zenon DEF PushRetry, PopCall, PopRetry, TypeOK
<1>6. ASSUME NEW t \in Threads, PopEmpty(t) PROVE TypeOK'
  BY <1>1, <1>6 DEF PopEmpty, Return, TypeOK
<1>7. ASSUME NEW t \in Threads, PopRead(t) PROVE TypeOK'
  <2>1. old[t].ptr \in Nodes
    BY <1>7 DEF PopRead, TypeOK, Pointers
  <2>2. next[old[t].ptr] \in Nodes \cup {Null, Junk}
    BY <2>1 DEF TypeOK
  <2> QED
    BY <1>7, <2>2 DEF PopRead, TypeOK
<1>8. ASSUME NEW t \in Threads, PopCAS(t) PROVE TypeOK'
  <2>1. old[t].ptr \in Nodes /\ nxt[t] = next[head.ptr] /\ head = old[t]
    BY <1>8 DEF PopCAS, TagFresh
  <2>2. stack # <<>> /\ head.ptr = stack[1]
    BY <2>1, HeadOfStack
  <2>4. nxt[t] \in Pointers
    BY <2>1, <2>2, BelowTop DEF Pointers
  <2>5. head' \in [ptr : Pointers, tag : Nat]
    <3>1. old[t].tag + 1 \in Nat
      BY DEF TypeOK
    <3> QED
      BY <1>8, <2>4, <3>1 DEF PopCAS
  <2>6. stack' \in Seq(Nodes) /\ held' \subseteq Nodes
    BY <1>8, <2>1, <2>2, PopAt DEF PopCAS, TypeOK
  <2> QED
    BY <1>1, <1>8, <2>5, <2>6 DEF PopCAS, Return, TypeOK
<1>9. ASSUME NEW n \in Nodes, NEW v \in Nodes \cup {Null, Junk}, Use(n, v) PROVE TypeOK'
  BY <1>9 DEF Use, TypeOK
<1>10. ASSUME UNCHANGED vars PROVE TypeOK'
  BY <1>10 DEF vars, TypeOK
<1> QED
  BY <1>2, <1>3, <1>4, <1>5, <1>6, <1>7, <1>8, <1>9, <1>10 DEF Next, Running

(* Every step keeps the ownership of the nodes. *)
LEMMA OwnerStep ==
  ASSUME IInv, [Next]_vars
  PROVE  OneOwner'
<1> TypeOK /\ OneOwner /\ Linked /\ TagFresh
  BY DEF IInv
<1>1. ASSUME NEW t \in Threads, NEW n \in Nodes, PushCall(t, n) PROVE OneOwner'
  <2>1. /\ stack' = stack /\ held' = held \ {n} /\ n \in held
        /\ Pushing(t)' /\ ~ Pushing(t) /\ node'[t] = n
        /\ \A u \in Threads : u # t => (Pushing(u)' <=> Pushing(u)) /\ node'[u] = node[u]
    BY <1>1 DEF PushCall, TypeOK, Pushing
  <2> QED
    BY <2>1 DEF OneOwner
<1>2. ASSUME NEW t \in Threads, PushStore(t) \/ PushRetry(t) \/ PopCall(t) \/ PopEmpty(t) \/ PopRead(t) \/ PopRetry(t)
      PROVE  OneOwner'
  <2>1. /\ stack' = stack /\ held' = held
        /\ \A u \in Threads : (Pushing(u)' <=> Pushing(u)) /\ (Pushing(u) => node'[u] = node[u])
    BY <1>2 DEF PushStore, PushRetry, PopCall, PopEmpty, PopRead, PopRetry, Return, TypeOK, Pushing
  <2> QED
    BY <2>1 DEF OneOwner
<1>3. ASSUME NEW t \in Threads, PushCAS(t) PROVE OneOwner'
  <2>1. /\ stack' = <<node[t]>> \o stack /\ held' = held
        /\ Pushing(t) /\ ~ Pushing(t)'
        /\ \A u \in Threads : u # t => (Pushing(u)' <=> Pushing(u)) /\ node'[u] = node[u]
    BY <1>3 DEF PushCAS, Return, TypeOK, Pushing
  <2>2. node[t] \in Nodes /\ node[t] \notin held /\ node[t] \notin Range(stack)
    BY <2>1 DEF OneOwner
  <2>3. Range(stack') = {node[t]} \cup Range(stack) /\ IsInjective(stack')
    BY <2>1, <2>2, PushRange DEF TypeOK, OneOwner
  <2>4. held \cap Range(stack') = {}
    BY <2>2, <2>3 DEF OneOwner
  <2>5. \A u \in Threads : Pushing(u)' => node'[u] \in Nodes \ (held \cup Range(stack'))
    BY <2>1, <2>2, <2>3 DEF OneOwner
  <2>6. \A u, w \in Threads : Pushing(u)' /\ Pushing(w)' /\ u # w => node'[u] # node'[w]
    BY <2>1 DEF OneOwner
  <2>7. \A n \in Nodes : n \in held \cup Range(stack') \/ \E u \in Threads : Pushing(u)' /\ node'[u] = n
    BY <2>1, <2>3, Zenon DEF OneOwner
  <2> QED
    BY <2>1, <2>3, <2>4, <2>5, <2>6, <2>7 DEF OneOwner
<1>4. ASSUME NEW t \in Threads, PopCAS(t) PROVE OneOwner'
  <2>1. /\ stack' = Tail(stack) /\ held' = held \cup {head.ptr} /\ head.ptr \in Nodes
        /\ \A u \in Threads : (Pushing(u)' <=> Pushing(u)) /\ (Pushing(u) => node'[u] = node[u])
    BY <1>4, Zenon DEF PopCAS, Return, TypeOK, Pushing, TagFresh
  <2>2. stack # <<>> /\ head.ptr = Head(stack) /\ head.ptr \in Range(stack)
    BY <2>1, HeadOfStack
  <2>3. Range(stack') = Range(stack) \ {head.ptr} /\ IsInjective(stack')
    BY <2>1, <2>2, PopRange DEF TypeOK, OneOwner
  <2> QED
    BY <2>1, <2>2, <2>3 DEF OneOwner
<1>5. ASSUME NEW n \in Nodes, NEW v \in Nodes \cup {Null, Junk}, Use(n, v) PROVE OneOwner'
  BY <1>5 DEF Use, OneOwner, Pushing
<1>6. ASSUME UNCHANGED vars PROVE OneOwner'
  BY <1>6 DEF vars, OneOwner, Pushing
<1> QED
  BY <1>1, <1>2, <1>3, <1>4, <1>5, <1>6 DEF Next, Running

(* Writing the next field of a node that is not on the list leaves the list *)
(* as it is.                                                                *)
LEMMA WriteOutside ==
  ASSUME TypeOK, Linked, NEW n \in Nodes, NEW v, n \notin Range(stack),
         next' = [next EXCEPT ![n] = v], stack' = stack, head' = head
  PROVE  Linked'
<1>1. \A i \in 1 .. Len(stack) : stack[i] \in Nodes /\ stack[i] # n
  BY DEF TypeOK, Range
<1>2. \A i \in 1 .. Len(stack) : next'[stack[i]] = next[stack[i]]
  BY <1>1 DEF TypeOK
<1> QED
  BY <1>2 DEF Linked

(* Every step keeps the list linked. *)
LEMMA LinkStep ==
  ASSUME IInv, [Next]_vars
  PROVE  Linked'
<1> TypeOK /\ OneOwner /\ Linked /\ TagFresh
  BY DEF IInv
<1>1. ASSUME head' = head, next' = next, stack' = stack PROVE Linked'
  BY <1>1 DEF Linked
<1>2. ASSUME NEW t \in Threads, PushStore(t) PROVE Linked'
  <2>1. node[t] \in Nodes /\ node[t] \notin Range(stack)
    BY <1>2 DEF PushStore, OneOwner, Pushing
  <2> QED
    BY <1>2, <2>1, WriteOutside, Zenon DEF PushStore
<1>3. ASSUME NEW n \in Nodes, NEW v \in Nodes \cup {Null, Junk}, Use(n, v) PROVE Linked'
  <2>1. n \notin Range(stack)
    BY <1>3 DEF Use, OneOwner
  <2> QED
    BY <1>3, <2>1, WriteOutside, Zenon DEF Use
<1>4. ASSUME NEW t \in Threads, PushCAS(t) PROVE Linked'
  <2> DEFINE a == node[t]
             m == <<a>> \o stack
             n == Len(stack)
  <2>1. a \in Nodes /\ next[a] = head.ptr /\ head'.ptr = a /\ next' = next /\ stack' = m
    BY <1>4 DEF PushCAS, OneOwner, Pushing, TagFresh
  <2>2. /\ n \in Nat /\ m # <<>> /\ Len(m) = n + 1 /\ m[1] = a
        /\ \A i \in 1 .. n : m[i + 1] = stack[i]
    BY <2>1, PushAt DEF TypeOK
  <2>3. next[a] = IF n = 0 THEN Null ELSE stack[1]
    <3>1. n = 0 <=> stack = <<>>
      BY DEF TypeOK
    <3> QED
      BY <2>1, <3>1 DEF Linked
  <2>4. \A i \in 1 .. n : next[stack[i]] = IF i = n THEN Null ELSE stack[i + 1]
    BY DEF Linked
  <2> HIDE DEF a, m, n
  <2>5. ASSUME NEW i \in 1 .. n + 1 PROVE next[m[i]] = IF i = n + 1 THEN Null ELSE m[i + 1]
    <3>1. CASE i = 1
      <4>1. n # 0 => 1 \in 1 .. n
        BY <2>2
      <4> QED
        BY <2>2, <2>3, <3>1, <4>1
    <3>2. CASE i # 1
      <4>1. i - 1 \in 1 .. n /\ (i - 1) + 1 = i /\ (i - 1 = n <=> i = n + 1)
        BY <2>2, <3>2
      <4>2. m[i] = stack[i - 1]
        BY <2>2, <4>1
      <4>3. next[m[i]] = IF i = n + 1 THEN Null ELSE stack[i]
        BY <2>4, <4>1, <4>2
      <4>4. i # n + 1 => i \in 1 .. n
        BY <2>2
      <4> QED
        BY <2>2, <4>3, <4>4
    <3> QED
      BY <3>1, <3>2
  <2> QED
    BY <2>1, <2>2, <2>5 DEF Linked
<1>5. ASSUME NEW t \in Threads, PopCAS(t) PROVE Linked'
  <2> DEFINE m == Tail(stack)
             n == Len(stack)
  <2>1. head.ptr \in Nodes /\ head'.ptr = next[head.ptr] /\ next' = next /\ stack' = m
    BY <1>5 DEF PopCAS, TagFresh
  <2>2. stack # <<>> /\ head.ptr = stack[1]
    BY <2>1, HeadOfStack
  <2>3. n \in Nat \ {0} /\ m \in Seq(Nodes) /\ Len(m) = n - 1 /\ \A i \in 1 .. n - 1 : m[i] = stack[i + 1]
    BY <2>2, PopAt DEF TypeOK
  <2>4. m = <<>> <=> n = 1
    <3> HIDE DEF m, n
    <3>1. m = <<>> <=> Len(m) = 0
      BY <2>3
    <3> QED
      BY <2>3, <3>1
  <2>5. \A i \in 1 .. n : next[stack[i]] = IF i = n THEN Null ELSE stack[i + 1]
    BY DEF Linked
  <2>6. (n = 1 => head'.ptr = Null) /\ (n # 1 => head'.ptr = stack[2])
    BY <2>1, <2>2, BelowTop
  <2> HIDE DEF m, n
  <2>7. n # 1 => m[1] = stack[2]
    <3>1. n # 1 => 1 \in 1 .. n - 1 /\ 1 + 1 = 2
      BY <2>3
    <3> QED
      BY <2>3, <3>1
  <2>8. ASSUME NEW i \in 1 .. n - 1 PROVE next[m[i]] = IF i = n - 1 THEN Null ELSE m[i + 1]
    <3>1. i + 1 \in 1 .. n /\ (i + 1 = n <=> i = n - 1) /\ (i # n - 1 => i + 1 \in 1 .. n - 1)
      BY <2>3
    <3>2. m[i] = stack[i + 1] /\ next[stack[i + 1]] = IF i = n - 1 THEN Null ELSE stack[(i + 1) + 1]
      BY <2>3, <2>5, <3>1
    <3> QED
      BY <2>3, <3>1, <3>2
  <2> QED
    BY <2>1, <2>3, <2>4, <2>6, <2>7, <2>8 DEF Linked
<1>6. ASSUME NEW t \in Threads,
             \/ \E n \in Nodes : PushCall(t, n)
             \/ PushRetry(t) \/ PopCall(t) \/ PopEmpty(t) \/ PopRead(t) \/ PopRetry(t)
      PROVE  head' = head /\ next' = next /\ stack' = stack
  BY <1>6 DEF PushCall, PushRetry, PopCall, PopEmpty, PopRead, PopRetry
<1>7. UNCHANGED vars => head' = head /\ next' = next /\ stack' = stack
  BY DEF vars
<1> QED
  BY <1>1, <1>2, <1>3, <1>4, <1>5, <1>6, <1>7 DEF Next, Running

(* What one thread's registers must satisfy. *)
Fresh(t) ==
    /\ old[t].tag <= head.tag
    /\ old[t].tag = head.tag => old[t].ptr = head.ptr
    /\ pc[t] = "pushCAS" => next[node[t]] = old[t].ptr
    /\ pc[t] = "popCAS" => old[t].ptr \in Nodes
    /\ pc[t] = "popCAS" /\ old[t].tag = head.tag => nxt[t] = next[head.ptr]

(* A write to a node off the list, by its owner, disturbs no other thread. *)
LEMMA WriteFresh ==
  ASSUME TypeOK, OneOwner, Linked, NEW n \in Nodes, NEW v, n \notin Range(stack),
         next' = [next EXCEPT ![n] = v], head' = head,
         NEW u \in Threads, pc'[u] = pc[u], node'[u] = node[u], old'[u] = old[u], nxt'[u] = nxt[u],
         Pushing(u) => node[u] # n, pc[u] # "idle", Fresh(u)
  PROVE  Fresh(u)'
<1>1. Pushing(u) => next'[node[u]] = next[node[u]]
  BY DEF OneOwner, TypeOK
<1>2. pc[u] = "popCAS" /\ old[u].tag = head.tag => next'[head.ptr] = next[head.ptr]
  <2>1. SUFFICES ASSUME pc[u] = "popCAS", old[u].tag = head.tag PROVE next'[head.ptr] = next[head.ptr]
    OBVIOUS
  <2>2. head.ptr \in Nodes
    BY <2>1 DEF Fresh
  <2>3. head.ptr # n
    BY <2>2, HeadOfStack
  <2> QED
    BY <2>2, <2>3 DEF TypeOK
<1> QED
  BY <1>1, <1>2 DEF Fresh, Pushing

(* A successful compare-and-swap leaves every other thread with an old tag. *)
LEMMA CASFresh ==
  ASSUME TypeOK, TypeOK', head'.tag = head.tag + 1, next' = next,
         NEW u \in Threads, pc'[u] = pc[u], node'[u] = node[u], old'[u] = old[u],
         pc[u] # "idle", Fresh(u)
  PROVE  Fresh(u)'
<1>1. old[u].tag \in Nat /\ head.tag \in Nat
  BY DEF TypeOK
<1>2. old'[u].tag <= head'.tag /\ old'[u].tag # head'.tag
  BY <1>1 DEF Fresh
<1> QED
  BY <1>2 DEF Fresh

(* Every step keeps the tags telling. *)
LEMMA TagStep ==
  ASSUME IInv, [Next]_vars
  PROVE  TagFresh'
<1> TypeOK /\ OneOwner /\ Linked /\ TagFresh /\ TypeOK'
  BY TypeStep DEF IInv
<1>1. \A u \in Threads : pc[u] # "idle" => Fresh(u)
  BY DEF TagFresh, Fresh
<1>2. SUFFICES ASSUME NEW u \in Threads, pc'[u] # "idle" PROVE Fresh(u)'
  BY DEF TagFresh, Fresh
<1>3. head.tag \in Nat /\ head.tag <= head.tag
  BY DEF TypeOK
<1>4. ASSUME NEW t \in Threads,
             (\E n \in Nodes : PushCall(t, n)) \/ PopCall(t) \/ PushRetry(t) \/ PopRetry(t)
      PROVE  Fresh(u)'
  <2>1. /\ head' = head /\ next' = next /\ old'[t] = head /\ pc'[t] \in {"pushStore", "popRead"}
        /\ \A w \in Threads : w # t => pc'[w] = pc[w] /\ node'[w] = node[w] /\ old'[w] = old[w] /\ nxt'[w] = nxt[w]
    BY <1>4 DEF PushCall, PopCall, PushRetry, PopRetry, TypeOK
  <2>2. CASE u = t
    BY <1>3, <2>1, <2>2 DEF Fresh
  <2>3. CASE u # t
    BY <1>1, <1>2, <2>1, <2>3 DEF Fresh
  <2> QED
    BY <2>2, <2>3
<1>5. ASSUME NEW t \in Threads, PushStore(t) PROVE Fresh(u)'
  <2>1. Pushing(t) /\ node[t] \in Nodes /\ node[t] \notin Range(stack)
    BY <1>5 DEF PushStore, OneOwner, Pushing
  <2>2. /\ next' = [next EXCEPT ![node[t]] = old[t].ptr] /\ head' = head
        /\ \A w \in Threads : node'[w] = node[w] /\ old'[w] = old[w] /\ nxt'[w] = nxt[w]
        /\ \A w \in Threads : w # t => pc'[w] = pc[w]
        /\ pc[t] = "pushStore" /\ pc'[t] = "pushCAS"
    BY <1>5 DEF PushStore, TypeOK
  <2>3. CASE u = t
    <3>1. next'[node[t]] = old[t].ptr
      BY <2>1, <2>2 DEF TypeOK
    <3> QED
      BY <1>1, <2>2, <2>3, <3>1 DEF Fresh
  <2>4. CASE u # t
    <3>1. Pushing(u) => node[u] # node[t]
      BY <2>1, <2>4 DEF OneOwner
    <3> QED
      BY <1>1, <1>2, <2>1, <2>2, <2>4, <3>1, WriteFresh, Zenon
  <2> QED
    BY <2>3, <2>4
<1>6. ASSUME NEW t \in Threads, PushCAS(t) \/ PopCAS(t) PROVE Fresh(u)'
  <2>1. /\ head'.tag = head.tag + 1 /\ next' = next /\ pc'[t] = "idle"
        /\ \A w \in Threads : w # t => pc'[w] = pc[w] /\ node'[w] = node[w] /\ old'[w] = old[w]
    BY <1>6 DEF PushCAS, PopCAS, Return, TypeOK
  <2> QED
    BY <1>1, <1>2, <2>1, CASFresh
<1>7. ASSUME NEW t \in Threads, PopEmpty(t) PROVE Fresh(u)'
  <2>1. /\ head' = head /\ next' = next /\ pc'[t] = "idle"
        /\ \A w \in Threads : w # t => pc'[w] = pc[w] /\ node'[w] = node[w] /\ old'[w] = old[w] /\ nxt'[w] = nxt[w]
    BY <1>7 DEF PopEmpty, Return, TypeOK
  <2> QED
    BY <1>1, <1>2, <2>1 DEF Fresh
<1>8. ASSUME NEW t \in Threads, PopRead(t) PROVE Fresh(u)'
  <2>1. /\ head' = head /\ next' = next /\ node' = node /\ old' = old
        /\ pc[t] = "popRead" /\ pc'[t] = "popCAS" /\ old[t].ptr \in Nodes /\ nxt'[t] = next[old[t].ptr]
        /\ \A w \in Threads : w # t => pc'[w] = pc[w] /\ nxt'[w] = nxt[w]
    BY <1>8 DEF PopRead, TypeOK, Pointers
  <2>2. CASE u = t
    BY <1>1, <2>1, <2>2 DEF Fresh
  <2>3. CASE u # t
    BY <1>1, <1>2, <2>1, <2>3 DEF Fresh
  <2> QED
    BY <2>2, <2>3
<1>9. ASSUME NEW n \in Nodes, NEW v \in Nodes \cup {Null, Junk}, Use(n, v) PROVE Fresh(u)'
  <2>1. n \notin Range(stack) /\ (Pushing(u) => node[u] # n)
    BY <1>9 DEF Use, OneOwner
  <2> QED
    BY <1>1, <1>2, <1>9, <2>1, WriteFresh, Zenon DEF Use
<1>10. ASSUME UNCHANGED vars PROVE Fresh(u)'
  BY <1>1, <1>2, <1>10 DEF vars, Fresh
<1> QED
  BY <1>4, <1>5, <1>6, <1>7, <1>8, <1>9, <1>10 DEF Next, Running

(* Push and Pop keep the inductive invariant, for any number of threads and *)
(* nodes and whatever callers write into the nodes they hold.               *)
THEOREM FreelistInvariant == Spec => []IInv
<1>1. Init => IInv
  BY InitOK
<1>2. IInv /\ [Next]_vars => IInv'
  BY TypeStep, OwnerStep, LinkStep, TagStep DEF IInv
<1> QED
  BY <1>1, <1>2, PTL DEF Spec

(* No interleaving of Push and Pop loses a node or gives one to two owners. *)
THEOREM OneOwnerAlways == Spec => []OneOwner
<1>1. IInv => OneOwner
  BY DEF IInv
<1> QED
  BY <1>1, FreelistInvariant, PTL

(* The list is never corrupted: the tag defeats the ABA problem.            *)
THEOREM LinkedAlways == Spec => []Linked
<1>1. IInv => Linked
  BY DEF IInv
<1> QED
  BY <1>1, FreelistInvariant, PTL

(* A successful compare-and-swap is a push or a pop of the abstract stack,  *)
(* starting a Push gives a node up, and nothing else shows.                 *)
LEMMA StackStep ==
  ASSUME IInv, [Next]_vars
  PROVE  [S!Next]_<<stack, held>>
<1> TypeOK /\ OneOwner /\ Linked /\ TagFresh
  BY DEF IInv
<1>1. ASSUME NEW t \in Threads, NEW n \in Nodes, PushCall(t, n) PROVE S!Next
  BY <1>1 DEF PushCall, S!Next, S!Give
<1>2. ASSUME NEW t \in Threads, PushCAS(t) PROVE S!Next
  <2>1. PICK n : n = node[t]
    OBVIOUS
  <2>2. n \in Nodes /\ n \notin held
    BY <1>2, <2>1 DEF PushCAS, OneOwner, Pushing
  <2>3. S!Push(n)
    BY <1>2, <2>1, <2>2 DEF PushCAS, S!Push
  <2> QED
    BY <2>2, <2>3 DEF S!Next
<1>3. ASSUME NEW t \in Threads, PopCAS(t) PROVE S!Next
  <2>1. head.ptr \in Nodes /\ held' = held \cup {head.ptr} /\ stack' = Tail(stack)
    BY <1>3 DEF PopCAS, TagFresh
  <2>2. stack # <<>> /\ head.ptr = Head(stack) /\ head.ptr \notin held
    BY <2>1, HeadOfStack DEF OneOwner
  <2> QED
    BY <2>1, <2>2 DEF S!Next, S!Pop
<1>4. ASSUME NEW t \in Threads,
             \/ PushStore(t) \/ PushRetry(t) \/ PopCall(t) \/ PopEmpty(t) \/ PopRead(t) \/ PopRetry(t)
      PROVE  UNCHANGED <<stack, held>>
  BY <1>4 DEF PushStore, PushRetry, PopCall, PopEmpty, PopRead, PopRetry
<1>5. ASSUME NEW n \in Nodes, NEW v \in Nodes \cup {Null, Junk}, Use(n, v) PROVE UNCHANGED <<stack, held>>
  BY <1>5 DEF Use
<1>6. UNCHANGED vars => UNCHANGED <<stack, held>>
  BY DEF vars
<1> QED
  BY <1>1, <1>2, <1>3, <1>4, <1>5, <1>6 DEF Next, Running

(* The lock-free list implements the stack: Push and Pop are linearizable,  *)
(* at their successful compare-and-swap.                                    *)
THEOREM FreelistRefinement == Spec => StackSpec
<1>1. Init => S!Init
  BY DEF Init, S!Init
<1>2. IInv /\ [Next]_vars => [S!Next]_<<stack, held>>
  BY StackStep
<1> QED
  BY <1>1, <1>2, FreelistInvariant, PTL DEF Spec, StackSpec, S!Spec

-----------------------------------------------------------------------------
CONSTANTS Word, Base, Capacity, Sizes, Alignments

VARIABLES offset, live

A == INSTANCE Arena

(* The arenas: as long as no sum wraps around, the blocks between two      *)
(* resets are aligned, disjoint and inside the buffer, for every base,     *)
(* capacity, size and alignment.                                           *)

(* Taking the remainder away leaves a multiple. *)
LEMMA RoundDown ==
  ASSUME NEW n \in Nat, NEW d \in Nat \ {0}
  PROVE  /\ n % d \in 0 .. d - 1
         /\ n - (n % d) \in Nat
         /\ (n - (n % d)) % d = 0
<1>1. n % d \in 0 .. d - 1 /\ n \div d \in Nat /\ n = d * (n \div d) + (n % d)
  OBVIOUS
<1>2. n - (n % d) = (n \div d) * d
  BY <1>1
<1>3. \A q \in Nat : (q * d) % d = 0 /\ q * d \in Nat
  OBVIOUS
<1> QED
  BY <1>1, <1>2, <1>3, Zenon

(* A number below the modulus is its own remainder. *)
LEMMA NoReduction == ASSUME NEW n \in Nat, NEW m \in Nat, n < m PROVE n % m = n
  OBVIOUS

(* AlignUp, where it does not wrap: the address is a multiple of the        *)
(* alignment, at or above the argument, by less than the alignment.         *)
LEMMA AlignUpOK ==
  ASSUME NEW n \in Nat, NEW d \in Nat \ {0}, Word \in Nat, n + d <= Word
  PROVE  /\ A!AlignUp(n, d) \in Nat
         /\ A!AlignUp(n, d) % d = 0
         /\ n <= A!AlignUp(n, d) /\ A!AlignUp(n, d) < n + d
<1> DEFINE sum == n + d - 1
<1>1. sum \in Nat /\ sum < Word
  OBVIOUS
<1>2. sum % Word = sum
  BY <1>1, NoReduction
<1>3. A!AlignUp(n, d) = sum - (sum % d)
  BY <1>2 DEF A!AlignUp
<1>4. sum % d \in 0 .. d - 1 /\ sum - (sum % d) \in Nat /\ (sum - (sum % d)) % d = 0
  BY <1>1, RoundDown, Zenon
<1> HIDE DEF sum
<1>5. sum = n + d - 1
  BY DEF sum
<1> QED
  BY <1>3, <1>4, <1>5

(* What Allocate computes, where nothing wraps: the block starts behind the *)
(* used part of the buffer and newOffset is its end.                        *)
LEMMA NewBlock ==
  ASSUME A!NoWrap, A!IInv, NEW size \in Sizes, NEW alignment \in Alignments
  PROVE  /\ A!Aligned(alignment) \in Nat
         /\ A!Aligned(alignment) % alignment = 0
         /\ Base + offset <= A!Aligned(alignment)
         /\ A!NewOffset(size, alignment) = A!Aligned(alignment) + size - Base
<1>1. /\ Base \in Nat /\ offset \in Nat /\ Word \in Nat /\ size \in Nat /\ Capacity \in Nat
      /\ alignment \in Nat \ {0} /\ offset <= Capacity
      /\ Base + Capacity + alignment + size <= Word
  BY DEF A!NoWrap, A!IInv, A!TypeOK, A!BlocksDisjoint
<1>2. (Base + offset) % Word = Base + offset
  BY <1>1, NoReduction
<1>3. /\ A!Aligned(alignment) \in Nat
      /\ A!Aligned(alignment) % alignment = 0
      /\ Base + offset <= A!Aligned(alignment)
      /\ A!Aligned(alignment) < Base + offset + alignment
  <2>1. Base + offset \in Nat /\ Base + offset + alignment <= Word
    BY <1>1
  <2>2. A!Aligned(alignment) = A!AlignUp(Base + offset, alignment)
    BY <1>2 DEF A!Aligned
  <2> QED
    BY <1>1, <2>1, <2>2, AlignUpOK, Zenon
<1>4. /\ A!Aligned(alignment) - Base + size \in Nat
      /\ A!Aligned(alignment) - Base + size < Word
  BY <1>1, <1>3
<1>5. A!NewOffset(size, alignment) = A!Aligned(alignment) - Base + size
  BY <1>1, <1>4, NoReduction DEF A!NewOffset
<1> QED
  BY <1>1, <1>3, <1>5

(* Allocate and Reset keep the blocks apart. *)
LEMMA ArenaStep ==
  ASSUME A!NoWrap, A!IInv, [A!Next]_(A!vars)
  PROVE  A!IInv'
<1>1. ASSUME NEW size \in Sizes, NEW alignment \in Alignments, A!Allocate(size, alignment)
      PROVE  A!IInv'
  <2> DEFINE new == [ptr |-> A!Aligned(alignment), size |-> size, alignment |-> alignment]
  <2>1. /\ new.ptr \in Nat /\ new.ptr % alignment = 0
        /\ Base + offset <= new.ptr
        /\ offset' = new.ptr + size - Base
    BY <1>1, NewBlock DEF A!Allocate
  <2>2. live' = live \cup {new} /\ offset' <= Capacity
    BY <1>1 DEF A!Allocate
  <2>3. Base \in Nat /\ offset \in Nat /\ size \in Nat
    BY DEF A!NoWrap, A!IInv, A!TypeOK
  <2>4. offset' \in Nat /\ offset <= offset' /\ new.ptr + size = Base + offset'
    BY <2>1, <2>3
  <2>5. A!TypeOK'
    BY <2>1, <2>2, <2>4 DEF A!IInv, A!TypeOK
  <2>6. \A b \in live : /\ b.ptr \in Nat /\ b.size \in Nat
                        /\ b.ptr >= Base /\ b.ptr + b.size <= Base + offset
    BY Zenon DEF A!NoWrap, A!IInv, A!TypeOK, A!BlocksDisjoint
  <2>7. \A b \in live : A!BytesOf(b) \cap A!BytesOf(new) = {}
    BY <2>1, <2>3, <2>6 DEF A!BytesOf
  <2>8. \A b \in live' : b.ptr % b.alignment = 0
    BY <2>1, <2>2 DEF A!IInv, A!BlocksDisjoint
  <2>9. \A b \in live' : b.ptr >= Base /\ b.ptr + b.size <= Base + offset'
    BY <2>1, <2>2, <2>3, <2>4, <2>6
  <2>10. \A b, c \in live' : b # c => A!BytesOf(b) \cap A!BytesOf(c) = {}
    BY <2>2, <2>7 DEF A!IInv, A!BlocksDisjoint
  <2> QED
    BY <2>2, <2>5, <2>8, <2>9, <2>10 DEF A!IInv, A!BlocksDisjoint, A!BytesOf
<1>2. ASSUME UNCHANGED A!vars PROVE A!IInv'
  BY <1>2 DEF A!vars, A!IInv, A!TypeOK, A!BlocksDisjoint, A!BytesOf
<1>3. ASSUME A!Reset PROVE A!IInv'
  BY <1>3 DEF A!Reset, A!NoWrap, A!IInv, A!TypeOK, A!BlocksDisjoint, A!BytesOf
<1> QED
  BY <1>1, <1>2, <1>3 DEF A!Next, A!AllocateNull

(* LinearArena and StackArena, from the last Reset on: every block that     *)
(* Allocate has returned is aligned as asked, inside the buffer and         *)
(* disjoint from the others, provided no sum wraps around.                  *)
THEOREM ArenaBlocksDisjoint ==
  ASSUME A!NoWrap
  PROVE  A!Spec => []A!BlocksDisjoint
<1>1. A!Init => A!IInv
  BY DEF A!Init, A!NoWrap, A!IInv, A!TypeOK, A!BlocksDisjoint
<1>2. A!IInv /\ [A!Next]_(A!vars) => A!IInv'
  BY ArenaStep
<1>3. A!IInv => A!BlocksDisjoint
  BY DEF A!IInv
<1> QED
  BY <1>1, <1>2, <1>3, PTL DEF A!Spec

-----------------------------------------------------------------------------
CONSTANT NumSlots

VARIABLES freeList, slotNext, slotHeld, slotStack

P == INSTANCE PoolAllocator WITH next <- slotNext, held <- slotHeld, stack <- slotStack

(* The pool, for every number of slots but zero (with zero slots the       *)
(* constructor's loop bound numSlots_ - 1 wraps around).                   *)

(* The operators on lists mean the same in the instance. *)
LEMMA PoolLists ==
  \A l : P!Range(l) = Range(l) /\ (P!IsInjective(l) <=> IsInjective(l))
  BY Zenon DEF P!Range, Range, P!IsInjective, IsInjective

(* Null and Junk are no slots. *)
LEMMA PoolConstants ==
  ASSUME NumSlots \in Nat \ {0}
  PROVE  P!Null \notin P!Slots /\ P!Junk \notin P!Slots /\ P!Null # P!Junk /\ 1 \in P!Slots
  BY DEF P!Slots, P!Null, P!Junk

(* The constructor's list. *)
LEMMA PoolInit ==
  ASSUME NumSlots \in Nat \ {0}, P!Init
  PROVE  P!IInv
<1>1. slotStack \in Seq(P!Slots) /\ Len(slotStack) = NumSlots /\ \A i \in 1 .. NumSlots : slotStack[i] = i
  BY DEF P!Init, P!Slots
<1>2. P!TypeOK
  BY <1>1, PoolConstants DEF P!Init, P!TypeOK, P!Slots, P!Null
<1>3. DOMAIN slotStack = P!Slots /\ slotStack # <<>>
  BY <1>1 DEF P!Slots
<1>4. P!Linked
  <2>1. freeList = slotStack[1]
    BY <1>1 DEF P!Init
  <2>2. ASSUME NEW i \in 1 .. Len(slotStack)
        PROVE  slotNext[slotStack[i]] = IF i = Len(slotStack) THEN P!Null ELSE slotStack[i + 1]
    BY <1>1, <2>2 DEF P!Init, P!Slots
  <2> QED
    BY <1>3, <2>1, <2>2 DEF P!Linked
<1>5. Range(slotStack) = P!Slots /\ IsInjective(slotStack)
  BY <1>1, <1>3 DEF Range, IsInjective, P!Slots
<1>6. P!OneHolder
  BY <1>5, PoolLists DEF P!Init, P!OneHolder
<1> QED
  BY <1>2, <1>4, <1>6 DEF P!IInv

(* Allocate takes the first slot off the list. *)
LEMMA PoolAllocate ==
  ASSUME NumSlots \in Nat \ {0}, P!IInv, P!Allocate
  PROVE  P!IInv'
<1> USE DEF P!IInv
<1>1. slotStack # <<>> /\ freeList = slotStack[1] /\ freeList = Head(slotStack)
  BY DEF P!Allocate, P!Linked
<1> DEFINE m == Tail(slotStack)
           n == Len(slotStack)
<1>2. /\ m \in Seq(P!Slots) /\ n \in Nat \ {0} /\ Len(m) = n - 1
      /\ slotStack[1] \in P!Slots
      /\ \A i \in 1 .. n - 1 : m[i] = slotStack[i + 1]
      /\ \A i \in 1 .. n : slotStack[i] \in P!Slots
  BY <1>1, PopAt DEF P!TypeOK
<1>3. m = <<>> <=> n = 1
  <2>1. \A l \in Seq(P!Slots) : l = <<>> <=> Len(l) = 0
    OBVIOUS
  <2> HIDE DEF m, n
  <2>2. m = <<>> <=> Len(m) = 0
    BY <1>2, <2>1
  <2> QED
    BY <1>2, <2>2
<1>4. \A i \in 1 .. n : slotNext[slotStack[i]] = IF i = n THEN P!Null ELSE slotStack[i + 1]
  BY DEF P!Linked
<1>5. slotStack' = m /\ slotNext' = slotNext /\ freeList' = slotNext[slotStack[1]]
  BY <1>1 DEF P!Allocate
<1>6. m \in Seq(P!Slots) /\ Len(m) = n - 1
  BY <1>2
<1> HIDE DEF m, n
<1>7. freeList' = IF n = 1 THEN P!Null ELSE slotStack[2]
  BY <1>2, <1>4, <1>5
<1>8. P!Linked'
  <2>1. n # 1 => m[1] = slotStack[2]
    BY <1>2
  <2>2. ASSUME NEW i \in 1 .. Len(m)
        PROVE  slotNext[m[i]] = IF i = Len(m) THEN P!Null ELSE m[i + 1]
    <3>1. i \in 1 .. n - 1 /\ i + 1 \in 1 .. n /\ (i = Len(m) <=> i + 1 = n)
      BY <1>2, <2>2
    <3>2. slotNext[m[i]] = IF i + 1 = n THEN P!Null ELSE slotStack[(i + 1) + 1]
      BY <1>2, <1>4, <3>1, SMTT(30)
    <3>3. i + 1 # n => i + 1 \in 1 .. n - 1
      BY <1>2, <3>1
    <3> QED
      BY <1>2, <3>1, <3>2, <3>3
  <2>3. freeList' = IF m = <<>> THEN P!Null ELSE m[1]
    BY <1>3, <1>7, <2>1
  <2> QED
    BY <1>5, <2>2, <2>3 DEF P!Linked
<1>9. P!TypeOK'
  <2>1. freeList' \in P!Slots \cup {P!Null}
    <3>1. n # 1 => 2 \in 1 .. n
      BY <1>2
    <3> QED
      BY <1>2, <1>7, <3>1
  <2>2. slotHeld' \subseteq P!Slots
    BY <1>1, <1>2 DEF P!Allocate, P!TypeOK
  <2> QED
    BY <1>5, <1>6, <2>1, <2>2 DEF P!TypeOK
<1>10. /\ Range(m) = Range(slotStack) \ {freeList} /\ IsInjective(m)
       /\ freeList \in Range(slotStack)
  BY <1>1, PopRange, PoolLists DEF P!TypeOK, P!OneHolder, m
<1>11. P!OneHolder'
  BY <1>5, <1>10, PoolLists, Zenon DEF P!Allocate, P!OneHolder, P!TypeOK
<1> QED
  BY <1>8, <1>9, <1>11

(* Free puts a slot in front of the list. *)
LEMMA PoolFree ==
  ASSUME NumSlots \in Nat \ {0}, P!IInv, NEW s \in P!Slots, P!Free(s)
  PROVE  P!IInv'
<1> USE DEF P!IInv
<1>1. s \in slotHeld /\ s \notin Range(slotStack)
  BY PoolLists DEF P!Free, P!OneHolder
<1>2. /\ <<s>> \o slotStack \in Seq(P!Slots) /\ <<s>> \o slotStack # <<>>
      /\ Len(<<s>> \o slotStack) = Len(slotStack) + 1 /\ Len(slotStack) \in Nat
      /\ (<<s>> \o slotStack)[1] = s
      /\ \A i \in 1 .. Len(slotStack) : (<<s>> \o slotStack)[i + 1] = slotStack[i]
  BY PushAt DEF P!TypeOK
<1>3. P!TypeOK'
  BY <1>2 DEF P!Free, P!TypeOK
<1>4. P!Linked'
  <2> DEFINE m == <<s>> \o slotStack
  <2>1. slotStack' = m /\ freeList' = s /\ slotNext' = [slotNext EXCEPT ![s] = freeList]
    BY DEF P!Free
  <2>2. /\ m # <<>> /\ Len(m) = Len(slotStack) + 1 /\ m[1] = s
        /\ \A i \in 1 .. Len(slotStack) : m[i + 1] = slotStack[i]
    BY <1>2
  <2> HIDE DEF m
  <2>3. \A i \in 1 .. Len(slotStack) : slotStack[i] \in P!Slots /\ slotStack[i] # s
    BY <1>1 DEF P!TypeOK, Range
  <2>4. slotNext'[s] = freeList /\ \A x \in P!Slots : x # s => slotNext'[x] = slotNext[x]
    BY <2>1 DEF P!TypeOK
  <2>5. ASSUME NEW i \in 1 .. Len(m)
        PROVE  slotNext'[m[i]] = IF i = Len(m) THEN P!Null ELSE m[i + 1]
    <3>1. CASE i = 1
      <4>1. freeList = IF slotStack = <<>> THEN P!Null ELSE slotStack[1]
        BY DEF P!Linked
      <4>2. slotStack = <<>> <=> Len(slotStack) = 0
        BY DEF P!TypeOK
      <4> QED
        BY <1>2, <2>2, <2>4, <3>1, <4>1, <4>2
    <3>2. CASE i # 1
      <4> DEFINE j == i - 1
      <4>1. j \in 1 .. Len(slotStack) /\ i = j + 1 /\ (i = Len(m) <=> j = Len(slotStack))
        BY <1>2, <2>2, <2>5, <3>2
      <4> HIDE DEF j
      <4>2. m[i] = slotStack[j] /\ slotNext'[m[i]] = slotNext[slotStack[j]]
        BY <2>2, <2>3, <2>4, <4>1
      <4>3. slotNext[slotStack[j]] = IF j = Len(slotStack) THEN P!Null ELSE slotStack[j + 1]
        BY <4>1 DEF P!Linked
      <4>4. j # Len(slotStack) => j + 1 \in 1 .. Len(slotStack)
        BY <1>2, <4>1
      <4>5. j # Len(slotStack) => m[i + 1] = slotStack[j + 1]
        BY <2>2, <4>1, <4>4
      <4> QED
        BY <4>1, <4>2, <4>3, <4>5
    <3> QED
      BY <3>1, <3>2
  <2> QED
    BY <2>1, <2>2, <2>5 DEF P!Linked
<1>5. Range(slotStack') = {s} \cup Range(slotStack) /\ IsInjective(slotStack')
  BY <1>1, PushRange, PoolLists DEF P!TypeOK, P!OneHolder, P!Free
<1>6. P!OneHolder'
  BY <1>1, <1>5, PoolLists DEF P!Free, P!OneHolder
<1> QED
  BY <1>3, <1>4, <1>6

(* What the caller writes into its slots is not on the list. *)
LEMMA PoolUse ==
  ASSUME P!IInv, NEW s \in P!Slots, P!Use(s)
  PROVE  P!IInv'
<1> USE DEF P!IInv
<1>1. \A i \in 1 .. Len(slotStack) : slotStack[i] \in P!Slots /\ slotStack[i] # s
  BY PoolLists DEF P!TypeOK, P!OneHolder, P!Use, Range
<1>2. \A i \in 1 .. Len(slotStack) : slotNext'[slotStack[i]] = slotNext[slotStack[i]]
  BY <1>1 DEF P!Use, P!TypeOK
<1> QED
  BY <1>2 DEF P!Use, P!TypeOK, P!OneHolder, P!Linked

(* Allocate and Free keep the inductive invariant of the pool, whatever the *)
(* caller stores in its slots.                                              *)
THEOREM PoolInvariant ==
  ASSUME NumSlots \in Nat \ {0}
  PROVE  P!Spec => []P!IInv
<1>1. P!Init => P!IInv
  BY PoolInit
<1>2. P!IInv /\ [P!Next]_(P!vars) => P!IInv'
  <2>1. ASSUME P!IInv, UNCHANGED P!vars PROVE P!IInv'
    BY <2>1 DEF P!vars, P!IInv, P!TypeOK, P!OneHolder, P!Linked
  <2> QED
    BY <2>1, PoolAllocate, PoolFree, PoolUse DEF P!Next, P!AllocateNull
<1> QED
  BY <1>1, <1>2, PTL DEF P!Spec

(* No slot is handed out twice and none is lost. *)
THEOREM PoolOneHolder ==
  ASSUME NumSlots \in Nat \ {0}
  PROVE  P!Spec => []P!OneHolder
<1>1. P!IInv => P!OneHolder
  BY DEF P!IInv
<1> QED
  BY <1>1, PoolInvariant, PTL

(* Allocate returns nullptr exactly when the caller holds every slot: no    *)
(* sequence of calls strands a free slot behind a broken link.              *)
THEOREM PoolNullExactlyWhenFull ==
  ASSUME NumSlots \in Nat \ {0}
  PROVE  P!Spec => []P!NullWhenFull
<1>1. ASSUME P!IInv PROVE P!NullWhenFull
  <2> USE <1>1 DEF P!IInv
  <2>1. CASE slotStack = <<>>
    <3>1. Range(slotStack) = {}
      BY <2>1 DEF Range
    <3> QED
      BY <2>1, <3>1, PoolLists DEF P!Linked, P!OneHolder, P!NullWhenFull
  <2>2. CASE slotStack # <<>>
    <3>1. slotStack[1] \in Range(slotStack) /\ slotStack[1] \in P!Slots
      BY <2>2, PopAt DEF P!TypeOK, Range
    <3> QED
      BY <2>2, <3>1, PoolConstants, PoolLists DEF P!Linked, P!OneHolder, P!NullWhenFull
  <2> QED
    BY <2>1, <2>2
<1>2. P!IInv => P!NullWhenFull
  BY <1>1
<1> QED
  BY <1>2, PoolInvariant, PTL

-----------------------------------------------------------------------------
CONSTANTS Objects, Blocks, MaxPages, NullPtr, MapFailed

VARIABLES obj, mapped

V == INSTANCE VirtualMemory WITH Null <- NullPtr

(* The owner of mapped pages: whatever is constructed, moved, freed and    *)
(* destroyed, a block has one owner and is unmapped once, for any number   *)
(* of objects and blocks.                                                  *)

(* A block belongs to at most one object, whose size is what is mapped; a   *)
(* block without an owner is not mapped.  OneOwner in the form the proofs   *)
(* use, one fact per pair of objects.                                       *)
Owned ==
    /\ \A o \in Objects : obj[o].ptr \in Blocks => mapped[obj[o].ptr] = obj[o].size
    /\ \A o, u \in Objects : obj[o].ptr \in Blocks /\ obj[o].ptr = obj[u].ptr => o = u
    /\ \A b \in Blocks : (\A o \in Objects : obj[o].ptr # b) => mapped[b] = 0

(* The two forms agree, since an object that holds a block is alive. *)
LEMMA OwnedIsOneOwner ==
  ASSUME V!Distinct, V!TypeOK
  PROVE  V!OneOwner <=> Owned
<1>1. ASSUME V!OneOwner PROVE Owned
  <2>1. ASSUME NEW o \in Objects, obj[o].ptr \in Blocks
        PROVE  /\ mapped[obj[o].ptr] = obj[o].size
               /\ \A u \in Objects : obj[o].ptr = obj[u].ptr => o = u
    <3> DEFINE owners == {u \in Objects : obj[u].ptr = obj[o].ptr}
    <3>1. o \in owners
      OBVIOUS
    <3>2. PICK u \in Objects : owners = {u} /\ mapped[obj[o].ptr] = obj[u].size
      BY <1>1, <2>1, <3>1 DEF V!OneOwner
    <3> QED
      BY <3>1, <3>2
  <2>2. ASSUME NEW b \in Blocks, \A o \in Objects : obj[o].ptr # b PROVE mapped[b] = 0
    <3>1. \A o \in Objects : {u \in Objects : obj[u].ptr = b} # {o}
      BY <2>2, Zenon
    <3> QED
      BY <1>1, <3>1 DEF V!OneOwner
  <2> QED
    BY <2>1, <2>2 DEF Owned
<1>2. ASSUME Owned PROVE V!OneOwner
  <2> SUFFICES ASSUME NEW b \in Blocks
               PROVE  LET owners == {o \in Objects : obj[o].ptr = b} IN
                      \/ owners = {} /\ mapped[b] = 0
                      \/ \E o \in Objects : owners = {o} /\ V!Alive(o) /\ mapped[b] = obj[o].size
    BY DEF V!OneOwner
  <2>1. CASE \A o \in Objects : obj[o].ptr # b
    <3>1. {o \in Objects : obj[o].ptr = b} = {}
      BY <2>1
    <3> QED
      BY <1>2, <2>1, <3>1 DEF Owned
  <2>2. ASSUME NEW o \in Objects, obj[o].ptr = b
        PROVE  {u \in Objects : obj[u].ptr = b} = {o} /\ V!Alive(o) /\ mapped[b] = obj[o].size
    <3>1. \A u \in Objects : obj[u].ptr = b => u = o
      BY <1>2, <2>2 DEF Owned
    <3>2. V!Alive(o)
      BY <2>2 DEF V!TypeOK, V!Distinct
    <3>3. mapped[b] = obj[o].size
      BY <1>2, <2>2 DEF Owned
    <3> QED
      BY <2>2, <3>1, <3>2, <3>3
  <2> QED
    BY <2>1, <2>2
<1> QED
  BY <1>1, <1>2

(* What both moves do: o gets what other has, other is left empty, and      *)
(* nothing is mapped any more where o had its block.                        *)
LEMMA MovedOwned ==
  ASSUME V!Distinct, V!TypeOK, Owned, NEW o \in Objects, NEW other \in Objects, o # other,
         obj' = [obj EXCEPT ![o] = obj[other], ![other] = V!Empty],
         mapped' \in [Blocks -> Nat],
         \A b \in Blocks : mapped'[b] = IF b = obj[o].ptr THEN 0 ELSE mapped[b]
  PROVE  V!TypeOK' /\ Owned'
<1>1. /\ obj \in [Objects -> [alive : BOOLEAN, ptr : Blocks \cup {NullPtr, MapFailed}, size : Nat]]
      /\ \A u \in Objects : ~obj[u].alive => obj[u].ptr = NullPtr
      /\ \A u \in Objects : obj[u].ptr \in Blocks => obj[u].size > 0
  BY DEF V!TypeOK, V!Alive
<1>2. V!Empty \in [alive : BOOLEAN, ptr : Blocks \cup {NullPtr, MapFailed}, size : Nat]
  BY DEF V!Empty, V!Holding
<1>3. V!Empty.alive /\ V!Empty.ptr = NullPtr /\ NullPtr \notin Blocks
  BY DEF V!Empty, V!Holding, V!Distinct
<1>4. /\ obj' \in [Objects -> [alive : BOOLEAN, ptr : Blocks \cup {NullPtr, MapFailed}, size : Nat]]
      /\ obj'[o] = obj[other] /\ obj'[other] = V!Empty
      /\ \A u \in Objects : u # o /\ u # other => obj'[u] = obj[u]
  BY <1>1, <1>2
<1> HIDE DEF V!Empty
<1>5. V!TypeOK'
  <2>1. \A u \in Objects : /\ ~obj'[u].alive => obj'[u].ptr = NullPtr
                           /\ obj'[u].ptr \in Blocks => obj'[u].size > 0
    BY <1>1, <1>3, <1>4, Zenon
  <2> QED
    BY <1>4, <2>1, Zenon DEF V!TypeOK, V!Alive
<1>6. \A u \in Objects : obj'[u].ptr \in Blocks => mapped'[obj'[u].ptr] = obj'[u].size
  BY <1>3, <1>4 DEF Owned
<1>7. \A u, v \in Objects : obj'[u].ptr \in Blocks /\ obj'[u].ptr = obj'[v].ptr => u = v
  BY <1>3, <1>4 DEF Owned
<1>8. ASSUME NEW b \in Blocks, \A u \in Objects : obj'[u].ptr # b PROVE mapped'[b] = 0
  BY <1>4, <1>8 DEF Owned
<1> QED
  BY <1>5, <1>6, <1>7, <1>8, Zenon DEF Owned

(* The values of an object. *)
ObjectValue == [alive : BOOLEAN, ptr : Blocks \cup {NullPtr, MapFailed}, size : Nat]

(* What munmap of an object's block leaves mapped. *)
LEMMA UnmappedOwned ==
  ASSUME V!TypeOK, Owned, NEW o \in Objects, mapped' = V!Unmapped(obj[o].ptr, obj[o].size)
  PROVE  /\ mapped' \in [Blocks -> Nat]
         /\ \A b \in Blocks : mapped'[b] = IF b = obj[o].ptr THEN 0 ELSE mapped[b]
<1>1. mapped \in [Blocks -> Nat] /\ obj[o].size \in Nat
  BY DEF V!TypeOK
<1>2. CASE obj[o].ptr \in Blocks
  <2>1. mapped[obj[o].ptr] - obj[o].size = 0
    BY <1>1, <1>2 DEF Owned
  <2>2. mapped' = [mapped EXCEPT ![obj[o].ptr] = 0]
    BY <1>2, <2>1 DEF V!Unmapped
  <2>3. \A p \in Blocks : /\ [mapped EXCEPT ![p] = 0] \in [Blocks -> Nat]
                          /\ \A b \in Blocks : [mapped EXCEPT ![p] = 0][b] = IF b = p THEN 0 ELSE mapped[b]
    BY <1>1
  <2> QED
    BY <1>2, <2>2, <2>3, Zenon
<1>3. CASE obj[o].ptr \notin Blocks
  BY <1>1, <1>3 DEF V!Unmapped
<1> QED
  BY <1>2, <1>3

(* An object that gives up its block and gets none. *)
LEMMA EmptiedOwned ==
  ASSUME V!TypeOK, Owned, NEW o \in Objects, NEW e \in ObjectValue,
         e.ptr \notin Blocks, ~e.alive => e.ptr = NullPtr,
         obj' = [obj EXCEPT ![o] = e],
         mapped' \in [Blocks -> Nat],
         \A b \in Blocks : mapped'[b] = IF b = obj[o].ptr THEN 0 ELSE mapped[b]
  PROVE  V!TypeOK' /\ Owned'
<1>1. /\ obj \in [Objects -> ObjectValue]
      /\ \A u \in Objects : ~obj[u].alive => obj[u].ptr = NullPtr
      /\ \A u \in Objects : obj[u].ptr \in Blocks => obj[u].size > 0
  BY DEF V!TypeOK, V!Alive, ObjectValue
<1>2. /\ obj' \in [Objects -> ObjectValue] /\ obj'[o] = e
      /\ \A u \in Objects : u # o => obj'[u] = obj[u]
  BY <1>1
<1>3. V!TypeOK'
  <2>1. \A u \in Objects : /\ ~obj'[u].alive => obj'[u].ptr = NullPtr
                           /\ obj'[u].ptr \in Blocks => obj'[u].size > 0
    BY <1>1, <1>2, Zenon
  <2> QED
    BY <1>2, <2>1, Zenon DEF V!TypeOK, V!Alive, ObjectValue
<1>4. ASSUME NEW u \in Objects, obj'[u].ptr \in Blocks
      PROVE  u # o /\ obj'[u] = obj[u] /\ obj[u].ptr # obj[o].ptr
  BY <1>2, <1>4 DEF Owned
<1>5. ASSUME NEW u \in Objects, obj'[u].ptr \in Blocks PROVE mapped'[obj'[u].ptr] = obj'[u].size
  BY <1>4, <1>5 DEF Owned
<1>6. ASSUME NEW u \in Objects, NEW v \in Objects, obj'[u].ptr \in Blocks, obj'[u].ptr = obj'[v].ptr
      PROVE  u = v
  BY <1>4, <1>6 DEF Owned
<1>7. ASSUME NEW b \in Blocks, \A u \in Objects : obj'[u].ptr # b PROVE mapped'[b] = 0
  <2>1. b # obj[o].ptr => \A u \in Objects : obj[u].ptr # b
    BY <1>2, <1>7
  <2> QED
    BY <2>1 DEF Owned
<1> QED
  BY <1>3, <1>5, <1>6, <1>7, Zenon DEF Owned

(* No constructor, move, Free or destructor breaks the ownership. *)
LEMMA MappingStep ==
  ASSUME V!Distinct, V!TypeOK, Owned, [V!Next]_(V!vars)
  PROVE  V!TypeOK' /\ Owned'
<1>e. /\ V!Empty \in ObjectValue /\ V!Empty.ptr = NullPtr /\ V!Empty.alive
      /\ V!Dead \in ObjectValue /\ V!Dead.ptr = NullPtr
      /\ NullPtr \notin Blocks /\ MapFailed \notin Blocks
  BY DEF V!Empty, V!Holding, V!Dead, V!Distinct, ObjectValue
<1>d. ASSUME NEW o \in Objects, ~V!Alive(o)
      PROVE  \A b \in Blocks : mapped[b] = IF b = obj[o].ptr THEN 0 ELSE mapped[b]
  BY <1>d, <1>e DEF V!TypeOK
<1>m. mapped \in [Blocks -> Nat]
  BY DEF V!TypeOK
<1> HIDE DEF V!Empty, V!Dead
<1>1. ASSUME NEW o \in Objects, V!ConstructDefault(o) PROVE V!TypeOK' /\ Owned'
  <2>1. ~V!Alive(o) /\ obj' = [obj EXCEPT ![o] = V!Empty] /\ mapped' = mapped
    BY <1>1 DEF V!ConstructDefault
  <2> QED
    BY <1>d, <1>e, <1>m, <2>1, EmptiedOwned
<1>2. ASSUME NEW o \in Objects, V!Construct(o) PROVE V!TypeOK' /\ Owned'
  <2>1. PICK b \in Blocks, size \in 1 .. MaxPages :
           /\ mapped[b] = 0
           /\ obj' = [obj EXCEPT ![o] = V!Holding(b, size)]
           /\ mapped' = [mapped EXCEPT ![b] = size]
    BY <1>2, Zenon DEF V!Construct
  <2>2. size \in Nat /\ size > 0
    BY <2>1
  <2>3. \A u \in Objects : obj[u].ptr # b
    BY <2>1 DEF V!TypeOK, Owned
  <2> QED
    BY <1>2, <2>1, <2>2, <2>3 DEF V!Construct, V!TypeOK, V!Alive, V!Holding, V!Distinct, Owned
<1>3. ASSUME NEW o \in Objects, V!ConstructFails(o) PROVE V!TypeOK' /\ Owned'
  <2>1. PICK e : /\ \E size \in 0 .. MaxPages : e = V!Holding(MapFailed, size)
                 /\ ~V!Alive(o) /\ obj' = [obj EXCEPT ![o] = e] /\ mapped' = mapped
    BY <1>3, Zenon DEF V!ConstructFails
  <2>2. e \in ObjectValue /\ e.ptr = MapFailed /\ e.alive
    BY <2>1 DEF V!Holding, ObjectValue
  <2> QED
    BY <1>d, <1>e, <1>m, <2>1, <2>2, EmptiedOwned
<1>4. ASSUME NEW o \in Objects, NEW other \in Objects, V!MoveConstruct(o, other) PROVE V!TypeOK' /\ Owned'
  <2>1. /\ o # other /\ ~V!Alive(o) /\ mapped' = mapped
        /\ obj' = [obj EXCEPT ![o] = obj[other], ![other] = V!Empty]
    BY <1>4 DEF V!MoveConstruct
  <2> QED
    BY <1>d, <1>m, <2>1, MovedOwned
<1>5. ASSUME NEW o \in Objects, NEW other \in Objects, V!MoveAssign(o, other) PROVE V!TypeOK' /\ Owned'
  <2>1. /\ o # other /\ obj' = [obj EXCEPT ![o] = obj[other], ![other] = V!Empty]
        /\ mapped' = V!Unmapped(obj[o].ptr, obj[o].size)
    BY <1>5 DEF V!MoveAssign
  <2> QED
    BY <2>1, UnmappedOwned, MovedOwned
<1>6. ASSUME NEW o \in Objects, V!Free(o) PROVE V!TypeOK' /\ Owned'
  <2>1. PICK e : /\ e = IF obj[o].ptr = NullPtr THEN obj[o] ELSE V!Empty
                 /\ obj' = [obj EXCEPT ![o] = e] /\ mapped' = V!Unmapped(obj[o].ptr, obj[o].size)
    BY <1>6 DEF V!Free
  <2>2. e \in ObjectValue /\ e.ptr = NullPtr
    BY <1>e, <2>1 DEF V!TypeOK, ObjectValue
  <2> QED
    BY <1>e, <2>1, <2>2, UnmappedOwned, EmptiedOwned
<1>7. ASSUME NEW o \in Objects, V!Destroy(o) PROVE V!TypeOK' /\ Owned'
  <2>1. obj' = [obj EXCEPT ![o] = V!Dead] /\ mapped' = V!Unmapped(obj[o].ptr, obj[o].size)
    BY <1>7 DEF V!Destroy
  <2> QED
    BY <1>e, <2>1, UnmappedOwned, EmptiedOwned
<1>8. CASE UNCHANGED V!vars
  BY <1>8 DEF V!vars, V!TypeOK, V!Alive, Owned
<1> QED
  BY <1>1, <1>2, <1>3, <1>4, <1>5, <1>6, <1>7, <1>8 DEF V!Next

(* VirtualMemory's constructors, moves, Free and destructor keep the        *)
(* inductive invariant, also when mmap fails.                               *)
THEOREM MappingInvariant ==
  ASSUME V!Distinct
  PROVE  V!Spec => []V!IInv
<1>1. V!Init => V!IInv
  <2> SUFFICES ASSUME V!Init PROVE V!IInv
    OBVIOUS
  <2>1. V!TypeOK /\ Owned
    BY DEF V!Init, V!Distinct, V!TypeOK, Owned, V!Alive, V!Dead
  <2> QED
    BY <2>1, OwnedIsOneOwner DEF V!IInv
<1>2. V!IInv /\ [V!Next]_(V!vars) => V!IInv'
  <2> SUFFICES ASSUME V!IInv, [V!Next]_(V!vars) PROVE V!IInv'
    OBVIOUS
  <2>1. V!TypeOK' /\ Owned'
    BY MappingStep, OwnedIsOneOwner DEF V!IInv
  <2>2. V!Distinct /\ V!TypeOK' => (V!OneOwner' <=> Owned')
    BY OwnedIsOneOwner, PTL
  <2> QED
    BY <2>1, <2>2 DEF V!IInv
<1> QED
  BY <1>1, <1>2, PTL DEF V!Spec

(* The pages mapped at an address are exactly those of the one object that  *)
(* holds it: a block is neither leaked by a move nor unmapped twice.        *)
THEOREM MappingOneOwner ==
  ASSUME V!Distinct
  PROVE  V!Spec => []V!OneOwner
<1>1. V!IInv => V!OneOwner
  BY DEF V!IInv
<1> QED
  BY <1>1, MappingInvariant, PTL

=============================================================================
