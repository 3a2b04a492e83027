--------------------------- MODULE VMSystemProofs ---------------------------
(***************************************************************************)
(* Proofs about VMSystem, for any numbers of processes, pages and frames,  *)
(* any TLB capacity and any trace of OptimalReplacement.                   *)
(***************************************************************************)
EXTENDS ReplacementProofs, FiniteSetTheorems

-----------------------------------------------------------------------------
(* Lists without repetitions. *)

(* Such a list is as long as its elements are many. *)
LEMMA DistinctCount ==
  ASSUME NEW S, NEW l \in Seq(S), IsInjective(l)
  PROVE  IsFiniteSet(Range(l)) /\ Cardinality(Range(l)) = Len(l)
<1>1. Len(l) \in Nat /\ DOMAIN l = 1 .. Len(l)
  OBVIOUS
<1>2. l \in [1 .. Len(l) -> Range(l)]
  BY <1>1 DEF Range
<1>3. l \in Injection(1 .. Len(l), Range(l))
  BY <1>1, <1>2 DEF Injection, IsInjective
<1>4. l \in Surjection(1 .. Len(l), Range(l))
  BY <1>1, <1>2, Zenon DEF Surjection, Range
<1>5. ExistsBijection(1 .. Len(l), Range(l))
  BY <1>3, <1>4 DEF ExistsBijection, Bijection
<1>6. IsFiniteSet(1 .. Len(l)) /\ Cardinality(1 .. Len(l)) = Len(l)
  BY <1>1, FS_Interval
<1> QED
  BY <1>5, <1>6, FS_Bijection

(* A list without repetitions whose elements are among those of another    *)
(* is not longer, and shorter when one is missing.                         *)
LEMMA DistinctShorter ==
  ASSUME NEW S, NEW l \in Seq(S), NEW m \in Seq(S), IsInjective(l), IsInjective(m),
         Range(l) \subseteq Range(m)
  PROVE  Len(l) <= Len(m) /\ (Range(l) # Range(m) => Len(l) < Len(m))
<1>1. /\ IsFiniteSet(Range(m)) /\ Cardinality(Range(m)) = Len(m)
      /\ Cardinality(Range(l)) = Len(l)
  BY DistinctCount, Zenon
<1>2. /\ Cardinality(Range(l)) <= Cardinality(Range(m))
      /\ Cardinality(Range(m)) = Cardinality(Range(l)) => Range(m) = Range(l)
  BY <1>1, FS_Subset
<1>3. Len(l) \in Nat /\ Len(m) \in Nat
  OBVIOUS
<1> QED
  BY <1>1, <1>2, <1>3

-----------------------------------------------------------------------------
(* The TLB. *)

TlbEntry == [page : Pages, frame : FrameSet]

(* TLB::insert puts the entry in place of the page's own one, or of the    *)
(* oldest when the TLB is full, and throws out nothing else.               *)
LEMMA TlbInsertOK ==
  ASSUME NEW t \in Seq(TlbEntry), IsInjective(t), Len(t) <= TlbCap,
         NEW page \in Pages, NEW frame \in FrameSet,
         NEW u, u = TlbInsert(t, page, frame)
  PROVE  /\ u \in Seq(TlbEntry) /\ IsInjective(u) /\ Len(u) <= TlbCap
         /\ \A e \in Range(u) :
              \/ e = [page |-> page, frame |-> frame]
              \/ e \in Range(t) /\ e.page # page
<1> DEFINE new == [page |-> page, frame |-> frame]
           old == Entries(t, {page})
           room == IF old = {} /\ Len(t) >= TlbCap THEN Tail(t) ELSE Keep(t, Range(t) \ old)
<1>1. new \in TlbEntry /\ new.page = page /\ Len(t) \in Nat /\ TlbCap \in Nat \ {0}
  BY TlbAssumption DEF TlbEntry
<1>2. old = {e \in Range(t) : e.page = page}
  BY DEF Entries
<1>3. u = Append(room, new)
  BY Zenon DEF TlbInsert
<1> HIDE DEF new, old
<1>4. /\ room \in Seq(TlbEntry) /\ IsInjective(room) /\ Len(room) < TlbCap
      /\ \A e \in Range(room) : e \in Range(t) /\ e.page # page
  <2>1. CASE old = {} /\ Len(t) >= TlbCap
    <3>1. t # <<>> /\ room = Tail(t)
      BY <1>1, <2>1
    <3>2. /\ Tail(t) \in Seq(TlbEntry) /\ IsInjective(Tail(t))
          /\ Range(Tail(t)) = Range(t) \ {Head(t)}
      BY <3>1, PopRange, Zenon
    <3>3. Len(Tail(t)) = Len(t) - 1
      BY <3>1, PopAt, Zenon
    <3>4. \A e \in Range(Tail(t)) : e \in Range(t) /\ e.page # page
      BY <1>2, <2>1, <3>2
    <3> HIDE DEF room
    <3> QED
      BY <1>1, <3>1, <3>2, <3>3, <3>4
  <2>2. CASE ~(old = {} /\ Len(t) >= TlbCap)
    <3>1. room = Keep(t, Range(t) \ old)
      BY <2>2, Zenon
    <3> HIDE DEF room
    <3>2. /\ room \in Seq(TlbEntry) /\ IsInjective(room)
          /\ Range(room) = Range(t) \cap (Range(t) \ old)
      BY <3>1, KeepRange
    <3>3. Range(room) = Range(t) \ old /\ old \subseteq Range(t)
      BY <1>2, <3>2
    <3>4. Len(room) <= Len(t) /\ (Range(room) # Range(t) => Len(room) < Len(t))
      BY <3>2, <3>3, DistinctShorter
    <3>5. old # {} => Range(room) # Range(t)
      BY <3>3
    <3>6. Len(room) < TlbCap
      BY <1>1, <2>2, <3>2, <3>4, <3>5
    <3> QED
      BY <1>2, <3>2, <3>3, <3>6
  <2> QED
    BY <2>1, <2>2
<1> HIDE DEF room
<1>5. new \notin Range(room)
  BY <1>1, <1>4
<1>6. /\ u \in Seq(TlbEntry) /\ IsInjective(u) /\ Len(u) = Len(room) + 1
      /\ Range(u) = Range(room) \cup {new}
  BY <1>1, <1>3, <1>4, <1>5, AppendRange
<1>7. Len(u) <= TlbCap
  BY <1>1, <1>4, <1>6
<1>8. \A e \in Range(u) : e = new \/ (e \in Range(t) /\ e.page # page)
  BY <1>4, <1>6
<1> QED
  BY <1>6, <1>7, <1>8 DEF new

(* TLB::invalidate leaves the entries of the other pages. *)
LEMMA TlbInvalidateOK ==
  ASSUME NEW t \in Seq(TlbEntry), IsInjective(t), Len(t) <= TlbCap, NEW pages,
         NEW u, u = TlbInvalidate(t, pages)
  PROVE  /\ u \in Seq(TlbEntry) /\ IsInjective(u) /\ Len(u) <= TlbCap
         /\ Range(u) = {e \in Range(t) : e.page \notin pages}
<1>1. /\ u \in Seq(TlbEntry) /\ IsInjective(u)
      /\ Range(u) = Range(t) \cap (Range(t) \ Entries(t, pages))
  BY KeepRange, Zenon DEF TlbInvalidate
<1>2. Range(u) = {e \in Range(t) : e.page \notin pages}
  BY <1>1 DEF Entries
<1>3. Len(u) <= Len(t)
  BY <1>1, DistinctShorter
<1>4. Len(u) \in Nat /\ Len(t) \in Nat /\ TlbCap \in Nat
  BY <1>1, TlbAssumption
<1> QED
  BY <1>1, <1>2, <1>3, <1>4

-----------------------------------------------------------------------------
(* The inductive invariant. *)

Home == [page \in Resident |-> pageTable[page].frame]
Used == {pageTable[page].frame : page \in Resident}

(* Each frame is free or holds one page, and _loaded_vpns lists the pages. *)
TablesOK ==
    /\ freeFrames \in Seq(FrameSet) /\ IsInjective(freeFrames)
    /\ pageTable \in [Pages -> PTE]
    /\ \A q, o \in Resident : pageTable[q].frame = pageTable[o].frame => q = o
    /\ \A q \in Resident : pageTable[q].frame \notin Range(freeFrames)
    /\ \A f \in FrameSet : f \in Range(freeFrames) \/ f \in Used
    /\ loaded \in [Pids -> Seq(Vpns)]
    /\ \A p \in Pids : /\ IsInjective(loaded[p])
                       /\ Range(loaded[p]) = {v \in Vpns : <<p, v>> \in Resident}
    /\ faults \in 0 .. MaxFaults
    /\ result \in [hit : BOOLEAN, dirtyEvict : BOOLEAN]

(* The TLB's entries are distinct mappings of the page tables. *)
TlbOK ==
    /\ tlb \in Seq(TlbEntry) /\ IsInjective(tlb) /\ Len(tlb) <= TlbCap
    /\ \A e \in Range(tlb) : e.page \in Resident /\ pageTable[e.page].frame = e.frame

(* Written pages are dirty, and accessed frames have Clock's bit set. *)
HistoryOK ==
    /\ written \subseteq Resident /\ \A page \in written : pageTable[page].dirty
    /\ recency \in Seq(Pages) /\ IsInjective(recency)
    /\ touched \subseteq Used
    /\ policy.kind = "Clock" => \A f \in touched : policy.ring[policy.index[f]].ref

(* LRU's list is the order of use. *)
OrderOK ==
    policy.kind = "LRU" =>
      /\ Stacked(policy.list, recency, Home)
      /\ freeFrames # <<>> => Len(policy.list) = Len(recency)

VMInv == TablesOK /\ TlbOK /\ HistoryOK /\ OrderOK /\ PolicyOK(policy, Used)

(* An access to a resident page, which is in frame f. *)
Hit(page, isWrite, f) ==
    /\ page \in Resident /\ pageTable[page].frame = f
    /\ tlb' = TlbInsert(tlb, page, f)
    /\ pageTable' \in [Pages -> PTE]
    /\ \A q \in Pages : /\ pageTable'[q].present = pageTable[q].present
                        /\ pageTable'[q].frame = pageTable[q].frame
                        /\ pageTable[q].dirty => pageTable'[q].dirty
    /\ isWrite => pageTable'[page].dirty
    /\ policy' = OnAccess(policy, f)
    /\ result' \in [hit : BOOLEAN, dirtyEvict : BOOLEAN]
    /\ Accessed(page, f, isWrite)
    /\ UNCHANGED <<freeFrames, loaded, faults>>

(* Both hits are such accesses: what the TLB says is what the table says.  *)
LEMMA TlbHits ==
  ASSUME TablesOK, TlbOK, NEW page \in Pages, NEW isWrite \in BOOLEAN, AccessTlb(page, isWrite)
  PROVE  \E f \in FrameSet : Hit(page, isWrite, f)
<1>1. pageTable \in [Pages -> PTE]
  BY DEF TablesOK
<1>2. PICK e \in TlbFind(page) :
         /\ tlb' = TlbInsert(tlb, page, e.frame)
         /\ pageTable' = IF isWrite THEN [pageTable EXCEPT ![page].dirty = TRUE] ELSE pageTable
         /\ policy' = OnAccess(policy, e.frame)
         /\ result' = [hit |-> TRUE, dirtyEvict |-> FALSE]
         /\ Accessed(page, e.frame, isWrite)
         /\ UNCHANGED <<freeFrames, loaded, faults>>
  BY Zenon DEF AccessTlb
<1>3. e \in Range(tlb) /\ e.page = page
  BY DEF TlbFind, Entries
<1>4. page \in Resident /\ pageTable[page].frame = e.frame
  BY <1>3, Zenon DEF TlbOK
<1>5. pageTable[page] \in PTE /\ e.frame \in FrameSet
  BY <1>1, <1>4 DEF PTE
<1>6. pageTable' \in [Pages -> PTE]
  <2>1. [pageTable[page] EXCEPT !.dirty = TRUE] \in PTE
    BY <1>5 DEF PTE
  <2> QED
    BY <1>1, <1>2, <2>1
<1>7. ASSUME NEW q \in Pages
      PROVE  /\ pageTable'[q].present = pageTable[q].present
             /\ pageTable'[q].frame = pageTable[q].frame
             /\ pageTable[q].dirty => pageTable'[q].dirty
  <2>1. pageTable[q] \in PTE
    BY <1>1
  <2>2. pageTable'[q] = pageTable[q] \/ (q = page /\ pageTable'[q] = [pageTable[q] EXCEPT !.dirty = TRUE])
    BY <1>1, <1>2
  <2> QED
    BY <2>1, <2>2 DEF PTE
<1>8. isWrite => pageTable'[page].dirty
  <2>1. isWrite => pageTable'[page] = [pageTable[page] EXCEPT !.dirty = TRUE]
    BY <1>1, <1>2
  <2> QED
    BY <1>5, <2>1 DEF PTE
<1>9. result' \in [hit : BOOLEAN, dirtyEvict : BOOLEAN]
  BY <1>2
<1> QED
  BY <1>2, <1>4, <1>5, <1>6, <1>7, <1>8, <1>9, Zenon DEF Hit

(* A page that the walk finds in its table is such an access too. *)
LEMMA WalkHits ==
  ASSUME TablesOK, NEW page \in Pages, NEW isWrite \in BOOLEAN, AccessWalk(page, isWrite)
  PROVE  \E f \in FrameSet : Hit(page, isWrite, f)
<1> DEFINE f == pageTable[page].frame
<1>1. pageTable \in [Pages -> PTE]
  BY DEF TablesOK
<1>2. /\ pageTable[page].present
      /\ tlb' = TlbInsert(tlb, page, f)
      /\ pageTable' = [pageTable EXCEPT ![page].dirty = @ \/ isWrite]
      /\ policy' = OnAccess(policy, f)
      /\ result' = [hit |-> TRUE, dirtyEvict |-> FALSE]
      /\ Accessed(page, f, isWrite)
      /\ UNCHANGED <<freeFrames, loaded, faults>>
  BY Zenon DEF AccessWalk
<1>3. pageTable[page] \in PTE /\ f \in FrameSet /\ page \in Resident
  BY <1>1, <1>2 DEF PTE, Resident
<1> DEFINE d == pageTable[page].dirty \/ isWrite
<1>4. /\ d \in BOOLEAN /\ (pageTable[page].dirty => d) /\ (isWrite => d)
      /\ pageTable' = [pageTable EXCEPT ![page] = [pageTable[page] EXCEPT !.dirty = d]]
  BY <1>1, <1>2, <1>3, Zenon DEF PTE
<1> HIDE DEF d
<1>5. pageTable' \in [Pages -> PTE]
  <2>1. [pageTable[page] EXCEPT !.dirty = d] \in PTE
    BY <1>3, <1>4 DEF PTE
  <2> QED
    BY <1>1, <1>4, <2>1
<1>6. ASSUME NEW q \in Pages
      PROVE  /\ pageTable'[q].present = pageTable[q].present
             /\ pageTable'[q].frame = pageTable[q].frame
             /\ pageTable[q].dirty => pageTable'[q].dirty
  <2>1. pageTable[q] \in PTE
    BY <1>1
  <2>2. (q # page /\ pageTable'[q] = pageTable[q]) \/ (q = page /\ pageTable'[q] = [pageTable[q] EXCEPT !.dirty = d])
    BY <1>1, <1>4
  <2> QED
    BY <1>4, <2>1, <2>2 DEF PTE
<1>7. isWrite => pageTable'[page].dirty
  <2>1. pageTable'[page] = [pageTable[page] EXCEPT !.dirty = d]
    BY <1>1, <1>4
  <2> QED
    BY <1>3, <1>4, <2>1 DEF PTE
<1>8. result' \in [hit : BOOLEAN, dirtyEvict : BOOLEAN]
  BY <1>2
<1> QED
  BY <1>2, <1>3, <1>5, <1>6, <1>7, <1>8, Zenon DEF Hit

(* A hit moves no page. *)
LEMMA HitMapping ==
  ASSUME NEW page \in Pages, NEW isWrite, NEW f, Hit(page, isWrite, f)
  PROVE  /\ Resident' = Resident /\ Used' = Used /\ Home' = Home
         /\ \A q \in Resident : pageTable'[q].frame = pageTable[q].frame
<1>1. \A q \in Pages : /\ pageTable'[q].present = pageTable[q].present
                       /\ pageTable'[q].frame = pageTable[q].frame
  BY Zenon DEF Hit
<1>2. Resident' = Resident /\ Resident \subseteq Pages
  BY <1>1 DEF Resident
<1>3. \A q \in Resident : pageTable'[q].frame = pageTable[q].frame
  BY <1>1, <1>2
<1>4. Used' = Used
  BY <1>2, <1>3 DEF Used
<1>5. Home' = Home
  BY <1>2, <1>3 DEF Home
<1> QED
  BY <1>2, <1>3, <1>4, <1>5

(* A hit preserves the invariant. *)
LEMMA HitInv ==
  ASSUME VMInv, NEW page \in Pages, NEW isWrite \in BOOLEAN, NEW f \in FrameSet, Hit(page, isWrite, f)
  PROVE  VMInv'
<1> USE DEF VMInv
<1>1. /\ Resident' = Resident /\ Used' = Used /\ Home' = Home
      /\ \A q \in Resident : pageTable'[q].frame = pageTable[q].frame
  BY HitMapping
<1>2. /\ page \in Resident /\ pageTable[page].frame = f /\ f \in Used
      /\ pageTable' \in [Pages -> PTE]
      /\ \A q \in Pages : pageTable[q].dirty => pageTable'[q].dirty
      /\ isWrite => pageTable'[page].dirty
      /\ result' \in [hit : BOOLEAN, dirtyEvict : BOOLEAN]
      /\ freeFrames' = freeFrames /\ loaded' = loaded /\ faults' = faults
      /\ Resident \subseteq Pages
  BY DEF Hit, Used, Resident
<1>3. TablesOK'
  BY <1>1, <1>2 DEF TablesOK
<1>4. TlbOK'
  <2>1. /\ tlb \in Seq(TlbEntry) /\ IsInjective(tlb) /\ Len(tlb) <= TlbCap
        /\ \A e \in Range(tlb) : e.page \in Resident /\ pageTable[e.page].frame = e.frame
    BY DEF TlbOK
  <2>2. PICK u : u = TlbInsert(tlb, page, f) /\ tlb' = u
    BY Zenon DEF Hit
  <2>3. /\ u \in Seq(TlbEntry) /\ IsInjective(u) /\ Len(u) <= TlbCap
        /\ \A e \in Range(u) : \/ e = [page |-> page, frame |-> f]
                               \/ e \in Range(tlb) /\ e.page # page
    BY <2>1, <2>2, TlbInsertOK
  <2>4. \A e \in Range(u) : e.page \in Resident /\ pageTable'[e.page].frame = e.frame
    BY <1>1, <1>2, <2>1, <2>3
  <2> QED
    BY <1>1, <2>2, <2>3, <2>4 DEF TlbOK
<1>5. PICK t : t = OnAccess(policy, f) /\ policy' = t
  BY Zenon DEF Hit
<1>6. /\ PolicyOK(t, Used) /\ t.kind = policy.kind
      /\ policy.kind = "LRU" => t.list = <<f>> \o Erase(policy.list, f)
      /\ policy.kind = "Clock" =>
           /\ t.ring[t.index[f]].ref
           /\ \A g \in Used : policy.ring[policy.index[g]].ref => t.ring[t.index[g]].ref
  BY <1>2, <1>5, PolicyAccess
<1>7. PICK u : u = Append(Without(recency, page), page) /\ recency' = u
  BY Zenon DEF Hit, Accessed
<1>8. recency \in Seq(Pages) /\ IsInjective(recency)
  BY DEF HistoryOK
<1>9. HistoryOK'
  <2>1. u \in Seq(Pages) /\ IsInjective(u)
    BY <1>7, <1>8, Recent
  <2>2. /\ written' = (IF isWrite THEN written \cup {page} ELSE written)
        /\ touched' = touched \cup {f}
    BY DEF Hit, Accessed
  <2>3. /\ written \subseteq Resident /\ (\A q \in written : pageTable[q].dirty)
        /\ touched \subseteq Used
        /\ policy.kind = "Clock" => \A g \in touched : policy.ring[policy.index[g]].ref
    BY DEF HistoryOK
  <2>4. written' \subseteq Resident /\ \A q \in written' : pageTable'[q].dirty
    BY <1>2, <2>2, <2>3
  <2>5. touched' \subseteq Used
    BY <1>2, <2>2, <2>3
  <2>6. policy'.kind = "Clock" => \A g \in touched' : policy'.ring[policy'.index[g]].ref
    BY <1>5, <1>6, <2>2, <2>3
  <2> QED
    BY <1>1, <1>7, <2>1, <2>4, <2>5, <2>6 DEF HistoryOK
<1>10. OrderOK'
  <2>1. SUFFICES ASSUME policy'.kind = "LRU"
                 PROVE  /\ Stacked(policy'.list, recency', Home')
                        /\ freeFrames' # <<>> => Len(policy'.list) = Len(recency')
    BY DEF OrderOK
  <2>2. policy.kind = "LRU" /\ t.list = <<f>> \o Erase(policy.list, f)
    BY <1>5, <1>6, <2>1
  <2>3. /\ policy.list \in Seq(FrameSet) /\ IsInjective(policy.list) /\ Range(policy.list) = Used
    BY <2>2, Kinds DEF LruOK
  <2>4. /\ Stacked(policy.list, recency, Home)
        /\ freeFrames # <<>> => Len(policy.list) = Len(recency)
    BY <2>2 DEF OrderOK
  <2>5. page \in DOMAIN Home /\ Home[page] = f /\ \A q, o \in DOMAIN Home : Home[q] = Home[o] => q = o
    BY <1>2 DEF Home, TablesOK
  <2>6. PICK m : policy'.list = m /\ MovesUp(policy.list, recency, Home, page, m, u)
    BY <1>2, <1>5, <1>7, <2>2, <2>3, <2>5, Zenon DEF MovesUp
  <2>7. Stacked(m, u, Home) /\ Len(m) = Len(policy.list) /\ Len(u) = Len(recency)
    BY <1>8, <2>3, <2>4, <2>6, StackedHit
  <2> QED
    BY <1>1, <1>2, <1>7, <2>4, <2>6, <2>7
<1>11. PolicyOK(policy', Used')
  BY <1>1, <1>5, <1>6
<1> QED
  BY <1>3, <1>4, <1>9, <1>10, <1>11

(* The pages in frame f. *)
Holders(f) == {q \in Resident : pageTable[q].frame = f}

(* A fault that loads page into frame f, which is the next free one, or    *)
(* the one the policy gave up to become pol.                               *)
Loads(page, isWrite, f, pol) ==
    /\ page \notin Resident
    /\ faults < MaxFaults
    /\ freeFrames' \in Seq(FrameSet) /\ IsInjective(freeFrames')
    /\ Range(freeFrames') = Range(freeFrames) \ {f}
    /\ LoadPage(page, isWrite, f, Holders(f), pol)
    /\ PolicyOK(pol, Used \ {f}) /\ pol.kind = policy.kind
    /\ \/ pol = policy /\ freeFrames # <<>> /\ Holders(f) = {}
       \/ /\ freeFrames' = <<>> /\ Holders(f) # {}
          /\ policy.kind = "LRU" => /\ f = policy.list[Len(policy.list)]
                                    /\ pol.list = Erase(policy.list, f)

(* No page is in a free frame. *)
LEMMA FreeLoads ==
  ASSUME VMInv, NEW page \in Pages, NEW isWrite \in BOOLEAN, AccessFree(page, isWrite)
  PROVE  \E f \in FrameSet : Loads(page, isWrite, f, policy) /\ Holders(f) = {}
<1> DEFINE f == Head(freeFrames)
<1>1. /\ page \notin Resident /\ faults < MaxFaults /\ freeFrames # <<>>
      /\ freeFrames' = Tail(freeFrames) /\ LoadPage(page, isWrite, f, {}, policy)
  BY DEF AccessFree, Fault, Resident
<1>2. /\ freeFrames \in Seq(FrameSet) /\ IsInjective(freeFrames)
      /\ \A q \in Resident : pageTable[q].frame \notin Range(freeFrames)
      /\ PolicyOK(policy, Used)
  BY DEF VMInv, TablesOK
<1>3. /\ f \in FrameSet /\ Tail(freeFrames) \in Seq(FrameSet) /\ f \in Range(freeFrames)
      /\ Range(Tail(freeFrames)) = Range(freeFrames) \ {f} /\ IsInjective(Tail(freeFrames))
  BY <1>1, <1>2, PopRange, Zenon
<1> HIDE DEF f
<1>4. Holders(f) = {} /\ Used \ {f} = Used
  BY <1>2, <1>3 DEF Holders, Used
<1> QED
  BY <1>1, <1>2, <1>3, <1>4, Zenon DEF Loads

(* The scan of access finds the page in the frame. *)
LEMMA ScanFinds ==
  ASSUME TablesOK, NEW f
  PROVE  PagesIn(f) = Holders(f)
<1>1. /\ \A q, o \in Resident : pageTable[q].frame = pageTable[o].frame => q = o
      /\ loaded \in [Pids -> Seq(Vpns)]
      /\ \A p \in Pids : /\ IsInjective(loaded[p])
                         /\ Range(loaded[p]) = {v \in Vpns : <<p, v>> \in Resident}
  BY DEF TablesOK
<1>2. \A q \in Pages : q[1] \in Pids /\ q[2] \in Vpns /\ q = <<q[1], q[2]>>
  BY DEF Pages
<1>3. \A p \in Pids, v \in Vpns :
        pageTable[<<p, v>>].present /\ pageTable[<<p, v>>].frame = f <=> <<p, v>> \in Holders(f)
  BY DEF Holders, Resident, Pages
<1>4. PagesIn(f) = {q \in Pages : \E i \in DOMAIN loaded[q[1]] :
                       /\ loaded[q[1]][i] = q[2]
                       /\ pageTable[<<q[1], q[2]>>].present /\ pageTable[<<q[1], q[2]>>].frame = f
                       /\ \A j \in 1 .. i - 1 : ~(/\ pageTable[<<q[1], loaded[q[1]][j]>>].present
                                                  /\ pageTable[<<q[1], loaded[q[1]][j]>>].frame = f)}
  BY DEF PagesIn
<1>5. ASSUME NEW q \in PagesIn(f) PROVE q \in Holders(f)
  <2>1. /\ q \in Pages
        /\ pageTable[<<q[1], q[2]>>].present /\ pageTable[<<q[1], q[2]>>].frame = f
    BY <1>4, <1>5, Zenon
  <2> QED
    BY <1>2, <1>3, <2>1, Zenon
<1>6. ASSUME NEW q \in Holders(f) PROVE q \in PagesIn(f)
  <2>1. q \in Pages /\ q \in Resident /\ pageTable[q].frame = f
    BY <1>6 DEF Holders, Resident
  <2> DEFINE p == q[1]
             v == q[2]
  <2>2. p \in Pids /\ v \in Vpns /\ q = <<p, v>> /\ v \in Range(loaded[p])
    <3>1. p \in Pids /\ v \in Vpns /\ q = <<p, v>>
      BY <1>2, <2>1, Zenon
    <3> HIDE DEF p, v
    <3> QED
      BY <1>1, <2>1, <3>1
  <2>3. PICK i \in DOMAIN loaded[p] : loaded[p][i] = v
    BY <2>2, Zenon DEF Range
  <2>4. loaded[p] \in Seq(Vpns) /\ IsInjective(loaded[p]) /\ DOMAIN loaded[p] = 1 .. Len(loaded[p])
    BY <1>1, <2>2
  <2>5. ASSUME NEW j \in 1 .. i - 1
        PROVE  ~(pageTable[<<p, loaded[p][j]>>].present /\ pageTable[<<p, loaded[p][j]>>].frame = f)
    <3>1. j \in DOMAIN loaded[p] /\ j # i /\ loaded[p][j] \in Vpns
      BY <2>3, <2>4
    <3>2. loaded[p][j] # v
      BY <2>3, <2>4, <3>1, Zenon DEF IsInjective
    <3>3. SUFFICES ASSUME <<p, loaded[p][j]>> \in Holders(f) PROVE FALSE
      BY <1>3, <2>2, <3>1, Zenon
    <3>4. <<p, loaded[p][j]>> = q
      BY <1>1, <2>1, <3>3 DEF Holders
    <3> QED
      BY <2>2, <3>2, <3>4
  <2>6. pageTable[<<p, v>>].present /\ pageTable[<<p, v>>].frame = f
    BY <1>3, <1>6, <2>2, Zenon
  <2> QED
    BY <1>4, <2>1, <2>3, <2>5, <2>6, Zenon
<1> QED
  BY <1>5, <1>6

(* With no frame free, the victim's frame holds a page. *)
LEMMA EvictLoads ==
  ASSUME VMInv, NEW page \in Pages, NEW isWrite \in BOOLEAN, AccessEvict(page, isWrite)
  PROVE  \E f \in FrameSet : \E pol :
            Loads(page, isWrite, f, pol) /\ Holders(f) # {} /\ Evicted(policy, f, pol)
<1>1. /\ page \notin Resident /\ faults < MaxFaults /\ freeFrames = <<>> /\ freeFrames' = freeFrames
  BY DEF AccessEvict, Fault, Resident
<1>2. PICK v \in Victims(policy) :
         LoadPage(page, isWrite, v.frame, PagesIn(v.frame), OnEvict(v.next, v.frame))
  BY Zenon DEF AccessEvict
<1>3. /\ freeFrames \in Seq(FrameSet) /\ IsInjective(freeFrames) /\ PolicyOK(policy, Used)
      /\ \A g \in FrameSet : g \in Range(freeFrames) \/ g \in Used
      /\ pageTable \in [Pages -> PTE]
  BY DEF VMInv, TablesOK
<1>4. Range(freeFrames) = {} /\ 0 \in FrameSet
  BY <1>1, FramesAssumption DEF Range, FrameSet
<1>5. Used # {} /\ Used \subseteq FrameSet
  BY <1>3, <1>4 DEF Used, Resident, PTE
<1>6. PICK pol : pol = OnEvict(v.next, v.frame)
  OBVIOUS
<1>7. v.frame \in Used /\ PolicyOK(pol, Used \ {v.frame}) /\ Evicted(policy, v.frame, pol)
  BY <1>3, <1>5, <1>6, PolicyEvict
<1>8. PICK f \in FrameSet : f = v.frame
  BY <1>5, <1>7
<1>9. Holders(f) # {}
  BY <1>7, <1>8 DEF Holders, Used
<1>10. LoadPage(page, isWrite, f, Holders(f), pol)
  <2>1. PagesIn(f) = Holders(f)
    BY ScanFinds DEF VMInv
  <2> QED
    BY <1>2, <1>6, <1>8, <2>1, Zenon
<1>11. Range(freeFrames') = Range(freeFrames) \ {f}
  BY <1>1, <1>4
<1>12. Loads(page, isWrite, f, pol)
  BY <1>1, <1>3, <1>7, <1>8, <1>9, <1>10, <1>11, Zenon DEF Loads, Evicted
<1> QED
  BY <1>7, <1>8, <1>9, <1>12, Zenon

(* What a load does to the page tables. *)
LEMMA LoadMapping ==
  ASSUME TablesOK, NEW page \in Pages, NEW isWrite \in BOOLEAN, NEW f \in FrameSet, NEW pol,
         LoadPage(page, isWrite, f, Holders(f), pol)
  PROVE  /\ pageTable' \in [Pages -> PTE]
         /\ Resident' = (Resident \ Holders(f)) \cup {page}
         /\ pageTable'[page].frame = f /\ pageTable'[page].dirty = isWrite
         /\ \A q \in Resident \ Holders(f) : q # page => pageTable'[q] = pageTable[q]
<1> DEFINE new == [frame |-> f, present |-> TRUE, dirty |-> isWrite]
           left == [q \in Pages |-> IF q \in Holders(f) THEN [pageTable[q] EXCEPT !.present = FALSE] ELSE pageTable[q]]
<1>1. pageTable \in [Pages -> PTE]
  BY DEF TablesOK
<1>2. pageTable' = [left EXCEPT ![page] = new]
  BY Zenon DEF LoadPage
<1>3. new \in PTE /\ new.present /\ new.frame = f /\ new.dirty = isWrite
  BY DEF PTE
<1>4. ASSUME NEW q \in Pages
      PROVE  /\ left[q] \in PTE
             /\ q \notin Holders(f) => left[q] = pageTable[q]
             /\ q \in Holders(f) => ~left[q].present
  <2>1. pageTable[q] \in PTE
    BY <1>1
  <2>2. [pageTable[q] EXCEPT !.present = FALSE] \in PTE /\ ~[pageTable[q] EXCEPT !.present = FALSE].present
    BY <2>1 DEF PTE
  <2> QED
    BY <2>1, <2>2
<1>5. left \in [Pages -> PTE]
  <2>1. left = [q \in Pages |-> left[q]]
    OBVIOUS
  <2> HIDE DEF left
  <2> QED
    BY <1>4, <2>1
<1> HIDE DEF left, new
<1>6. /\ pageTable' \in [Pages -> PTE] /\ pageTable'[page] = new
      /\ \A q \in Pages : q # page => pageTable'[q] = left[q]
  BY <1>2, <1>3, <1>5
<1>7. Resident' = (Resident \ Holders(f)) \cup {page}
  <2>1. \A q \in Pages : q \in Resident' <=> pageTable'[q].present
    BY DEF Resident
  <2>2. \A q \in Pages : q \in Resident <=> pageTable[q].present
    BY DEF Resident
  <2>3. Resident' \subseteq Pages /\ Resident \subseteq Pages
    BY DEF Resident
  <2>4. page \in Resident'
    BY <1>3, <1>6, <2>1
  <2>5. ASSUME NEW q \in Pages, q # page PROVE q \in Resident' <=> q \in Resident \ Holders(f)
    <3>1. pageTable'[q] = left[q]
      BY <1>6, <2>5, Zenon
    <3> QED
      BY <1>4, <2>1, <2>2, <2>5, <3>1, Zenon
  <2> QED
    BY <2>3, <2>4, <2>5
<1>8. ASSUME NEW q \in Resident \ Holders(f), q # page PROVE pageTable'[q] = pageTable[q]
  BY <1>4, <1>6, <1>8 DEF Resident
<1> QED
  BY <1>3, <1>6, <1>7, <1>8

(* The pages and frames after a load. *)
LEMMA LoadHome ==
  ASSUME VMInv, NEW page \in Pages, NEW isWrite \in BOOLEAN, NEW f \in FrameSet, NEW pol,
         Loads(page, isWrite, f, pol)
  PROVE  /\ pageTable' \in [Pages -> PTE]
         /\ page \notin Resident /\ Resident \subseteq Pages
         /\ Resident' = (Resident \ Holders(f)) \cup {page}
         /\ pageTable'[page].frame = f /\ pageTable'[page].dirty = isWrite
         /\ \A q \in Resident \ Holders(f) : q # page /\ pageTable'[q] = pageTable[q] /\ pageTable[q].frame # f
         /\ Used' = (Used \ {f}) \cup {f}
<1>1. page \notin Resident /\ Resident \subseteq Pages
  BY DEF Loads, Resident
<1>2. /\ pageTable' \in [Pages -> PTE]
      /\ Resident' = (Resident \ Holders(f)) \cup {page}
      /\ pageTable'[page].frame = f /\ pageTable'[page].dirty = isWrite
      /\ \A q \in Resident \ Holders(f) : q # page => pageTable'[q] = pageTable[q]
  BY LoadMapping DEF VMInv, Loads
<1>3. \A q \in Resident \ Holders(f) : q # page /\ pageTable'[q] = pageTable[q] /\ pageTable[q].frame # f
  BY <1>1, <1>2 DEF Holders
<1>4. Used' = (Used \ {f}) \cup {f}
  <2>1. \A g : g \in Used' <=> \E q \in Resident' : pageTable'[q].frame = g
    BY DEF Used
  <2>2. \A g : g \in Used <=> \E q \in Resident : pageTable[q].frame = g
    BY DEF Used
  <2>3. f \in Used'
    BY <1>2, <2>1
  <2>4. ASSUME NEW g \in Used', g # f PROVE g \in Used
    BY <1>2, <1>3, <2>1, <2>2, <2>4
  <2>5. ASSUME NEW g \in Used, g # f PROVE g \in Used'
    <3>1. PICK q \in Resident : pageTable[q].frame = g
      BY <2>2, <2>5
    <3>2. q \in Resident \ Holders(f)
      BY <2>5, <3>1 DEF Holders
    <3> QED
      BY <1>2, <1>3, <2>1, <3>1, <3>2
  <2> QED
    BY <2>3, <2>4, <2>5
<1> QED
  BY <1>1, <1>2, <1>3, <1>4, Zenon

(* A load keeps the tables exact. *)
LEMMA LoadTables ==
  ASSUME VMInv, NEW page \in Pages, NEW isWrite \in BOOLEAN, NEW f \in FrameSet, NEW pol,
         Loads(page, isWrite, f, pol)
  PROVE  TablesOK'
<1>1. /\ pageTable' \in [Pages -> PTE]
      /\ page \notin Resident /\ Resident \subseteq Pages
      /\ Resident' = (Resident \ Holders(f)) \cup {page}
      /\ pageTable'[page].frame = f
      /\ \A q \in Resident \ Holders(f) : q # page /\ pageTable'[q] = pageTable[q] /\ pageTable[q].frame # f
      /\ Used' = (Used \ {f}) \cup {f}
  BY LoadHome
<1>2. /\ faults < MaxFaults
      /\ freeFrames' \in Seq(FrameSet) /\ IsInjective(freeFrames')
      /\ Range(freeFrames') = Range(freeFrames) \ {f}
      /\ LoadPage(page, isWrite, f, Holders(f), pol)
  BY DEF Loads
<1>3. TablesOK
  BY DEF VMInv
<1>4. \A q, o \in Resident' : pageTable'[q].frame = pageTable'[o].frame => q = o
  <2>1. \A q, o \in Resident \ Holders(f) : pageTable[q].frame = pageTable[o].frame => q = o
    BY <1>3 DEF TablesOK
  <2> QED
    BY <1>1, <2>1
<1>5. \A q \in Resident' : pageTable'[q].frame \notin Range(freeFrames')
  BY <1>1, <1>2, <1>3 DEF TablesOK
<1>6. \A g \in FrameSet : g \in Range(freeFrames') \/ g \in Used'
  BY <1>1, <1>2, <1>3 DEF TablesOK
<1>7. faults' \in 0 .. MaxFaults /\ result' \in [hit : BOOLEAN, dirtyEvict : BOOLEAN]
  <2>1. faults' = faults + 1 /\ faults \in 0 .. MaxFaults
    BY <1>2, <1>3 DEF LoadPage, TablesOK
  <2>2. result' = [hit |-> FALSE, dirtyEvict |-> \E q \in Holders(f) : pageTable[q].dirty]
    BY <1>2, Zenon DEF LoadPage
  <2>3. (\E q \in Holders(f) : pageTable[q].dirty) \in BOOLEAN
    OBVIOUS
  <2> QED
    BY <1>2, <2>1, <2>2, <2>3, FaultsAssumption
<1> DEFINE Stay(p) == {v \in Vpns : <<p, v>> \notin Holders(f)}
           stay == [p \in Pids |-> Keep(loaded[p], Stay(p))]
<1>8. loaded' = [stay EXCEPT ![page[1]] = Append(@, page[2])]
  BY <1>2, Zenon DEF LoadPage
<1>9. page[1] \in Pids /\ page[2] \in Vpns /\ page = <<page[1], page[2]>>
  BY DEF Pages
<1>10. ASSUME NEW p \in Pids
       PROVE  /\ stay[p] \in Seq(Vpns) /\ IsInjective(stay[p])
              /\ Range(stay[p]) = {v \in Vpns : <<p, v>> \in Resident \ Holders(f)}
  <2>1. /\ loaded[p] \in Seq(Vpns) /\ IsInjective(loaded[p])
        /\ Range(loaded[p]) = {v \in Vpns : <<p, v>> \in Resident}
    BY <1>3 DEF TablesOK
  <2>2. /\ Keep(loaded[p], Stay(p)) \in Seq(Vpns) /\ IsInjective(Keep(loaded[p], Stay(p)))
        /\ Range(Keep(loaded[p], Stay(p))) = Range(loaded[p]) \cap Stay(p)
    BY <2>1, KeepRange, Zenon
  <2>3. stay[p] = Keep(loaded[p], Stay(p))
    BY Zenon
  <2> HIDE DEF stay
  <2>4. Range(stay[p]) = Range(loaded[p]) \cap Stay(p)
    BY <2>2, <2>3, Zenon
  <2> QED
    BY <2>1, <2>2, <2>3, <2>4
<1>11. DOMAIN stay = Pids
  BY Zenon
<1> HIDE DEF stay
<1>12. ASSUME NEW p \in Pids
       PROVE  /\ loaded'[p] \in Seq(Vpns) /\ IsInjective(loaded'[p])
              /\ Range(loaded'[p]) = {v \in Vpns : <<p, v>> \in Resident'}
  <2>1. CASE p = page[1]
    <3>1. loaded'[p] = Append(stay[p], page[2])
      BY <1>8, <1>9, <1>11, <2>1
    <3>2. page[2] \notin Range(stay[p])
      BY <1>1, <1>9, <1>10, <2>1
    <3>3. /\ loaded'[p] \in Seq(Vpns) /\ IsInjective(loaded'[p])
          /\ Range(loaded'[p]) = Range(stay[p]) \cup {page[2]}
      BY <1>9, <1>10, <3>1, <3>2, AppendRange
    <3>4. \A v \in Vpns : <<p, v>> \in Resident' <=> (<<p, v>> \in Resident \ Holders(f) \/ v = page[2])
      BY <1>1, <1>9, <2>1
    <3> QED
      BY <1>9, <1>10, <3>3, <3>4
  <2>2. CASE p # page[1]
    <3>1. loaded'[p] = stay[p]
      BY <1>8, <1>9, <1>11, <2>2
    <3>2. \A v \in Vpns : <<p, v>> \in Resident' <=> <<p, v>> \in Resident \ Holders(f)
      BY <1>1, <1>9, <2>2
    <3> QED
      BY <1>10, <3>1, <3>2
  <2> QED
    BY <2>1, <2>2
<1>13. loaded' \in [Pids -> Seq(Vpns)]
  <2>1. DOMAIN loaded' = Pids /\ loaded' = [p \in Pids |-> loaded'[p]]
    BY <1>8, <1>11
  <2> QED
    BY <1>12, <2>1
<1> QED
  BY <1>1, <1>2, <1>4, <1>5, <1>6, <1>7, <1>12, <1>13 DEF TablesOK

(* A load leaves no entry of the page that went. *)
LEMMA LoadTlb ==
  ASSUME VMInv, NEW page \in Pages, NEW isWrite \in BOOLEAN, NEW f \in FrameSet, NEW pol,
         Loads(page, isWrite, f, pol)
  PROVE  TlbOK'
<1>1. /\ Resident' = (Resident \ Holders(f)) \cup {page}
      /\ pageTable'[page].frame = f
      /\ \A q \in Resident \ Holders(f) : pageTable'[q] = pageTable[q]
  BY LoadHome
<1>2. /\ tlb \in Seq(TlbEntry) /\ IsInjective(tlb) /\ Len(tlb) <= TlbCap
      /\ \A e \in Range(tlb) : e.page \in Resident /\ pageTable[e.page].frame = e.frame
  BY DEF VMInv, TlbOK
<1>3. PICK t : t = TlbInvalidate(tlb, Holders(f))
  OBVIOUS
<1>4. PICK u : u = TlbInsert(t, page, f) /\ tlb' = u
  BY <1>3, Zenon DEF Loads, LoadPage
<1>5. /\ t \in Seq(TlbEntry) /\ IsInjective(t) /\ Len(t) <= TlbCap
      /\ Range(t) = {e \in Range(tlb) : e.page \notin Holders(f)}
  BY <1>2, <1>3, TlbInvalidateOK
<1>6. /\ u \in Seq(TlbEntry) /\ IsInjective(u) /\ Len(u) <= TlbCap
      /\ \A e \in Range(u) : \/ e = [page |-> page, frame |-> f]
                             \/ e \in Range(t) /\ e.page # page
  BY <1>4, <1>5, TlbInsertOK
<1>7. \A e \in Range(u) : e.page \in Resident' /\ pageTable'[e.page].frame = e.frame
  BY <1>1, <1>2, <1>5, <1>6
<1> QED
  BY <1>4, <1>6, <1>7 DEF TlbOK

(* The policy and the histories after a load. *)
LEMMA LoadPolicy ==
  ASSUME VMInv, NEW page \in Pages, NEW isWrite \in BOOLEAN, NEW f \in FrameSet, NEW pol,
         Loads(page, isWrite, f, pol)
  PROVE  /\ PolicyOK(policy', Used') /\ policy'.kind = policy.kind
         /\ policy.kind = "LRU" => policy'.list = <<f>> \o pol.list
         /\ policy.kind = "Clock" =>
              /\ policy'.ring[policy'.index[f]].ref
              /\ \A g \in Used \ {f} : policy'.ring[policy'.index[g]] = pol.ring[pol.index[g]]
<1>1. Used' = (Used \ {f}) \cup {f}
  BY LoadHome
<1>2. PolicyOK(pol, Used \ {f}) /\ pol.kind = policy.kind
  BY DEF Loads
<1>3. PICK t : t = OnLoad(pol, f) /\ policy' = t
  BY Zenon DEF Loads, LoadPage
<1>4. PICK U : U = Used \ {f}
  OBVIOUS
<1>5. f \notin U /\ PolicyOK(pol, U)
  BY <1>2, <1>4
<1>6. LoadedInto(pol, U, f, t)
  BY <1>3, <1>5, PolicyLoad, Zenon
<1> QED
  BY <1>1, <1>2, <1>3, <1>4, <1>6, Zenon DEF LoadedInto

(* What a load does to the history of writes and of accesses. *)
LEMMA LoadHistory ==
  ASSUME VMInv, NEW page \in Pages, NEW isWrite \in BOOLEAN, NEW f \in FrameSet, NEW pol,
         Loads(page, isWrite, f, pol)
  PROVE  HistoryOK'
<1>1. /\ Resident' = (Resident \ Holders(f)) \cup {page}
      /\ pageTable'[page].dirty = isWrite
      /\ \A q \in Resident \ Holders(f) : pageTable'[q] = pageTable[q]
      /\ Used' = (Used \ {f}) \cup {f}
  BY LoadHome
<1>2. /\ written \subseteq Resident /\ (\A q \in written : pageTable[q].dirty)
      /\ recency \in Seq(Pages) /\ IsInjective(recency) /\ touched \subseteq Used
      /\ policy.kind = "Clock" => \A g \in touched : policy.ring[policy.index[g]].ref
  BY DEF VMInv, HistoryOK
<1>3. /\ written' = (written \ Holders(f)) \cup (IF isWrite THEN {page} ELSE {})
      /\ touched' = IF Holders(f) = {} THEN touched \cup {f} ELSE {f}
  BY Zenon DEF Loads, LoadPage
<1>4. PICK u : u = Append(Without(recency, page), page) /\ recency' = u
  BY Zenon DEF Loads, LoadPage
<1>5. u \in Seq(Pages) /\ IsInjective(u)
  BY <1>2, <1>4, Recent
<1>6. written' \subseteq Resident' /\ \A q \in written' : pageTable'[q].dirty
  BY <1>1, <1>2, <1>3
<1>7. touched' \subseteq Used'
  BY <1>1, <1>2, <1>3
<1>8. ASSUME policy'.kind = "Clock", NEW g \in touched' PROVE policy'.ring[policy'.index[g]].ref
  <2>1. policy.kind = "Clock"
    BY <1>8, LoadPolicy
  <2>2. /\ policy'.ring[policy'.index[f]].ref
        /\ \A h \in Used \ {f} : policy'.ring[policy'.index[h]] = pol.ring[pol.index[h]]
    BY <2>1, LoadPolicy
  <2>3. CASE g = f
    BY <2>2, <2>3
  <2>4. CASE g # f
    <3>1. Holders(f) = {} /\ g \in touched
      BY <1>3, <1>8, <2>4
    <3>2. pol = policy
      BY <3>1 DEF Loads
    <3> QED
      BY <1>2, <2>1, <2>2, <2>4, <3>1, <3>2
  <2> QED
    BY <2>3, <2>4
<1> QED
  BY <1>4, <1>5, <1>6, <1>7, <1>8, Zenon DEF HistoryOK

(* LRU's list after a load is the order of use. *)
LEMMA LoadOrder ==
  ASSUME VMInv, NEW page \in Pages, NEW isWrite \in BOOLEAN, NEW f \in FrameSet, NEW pol,
         Loads(page, isWrite, f, pol)
  PROVE  OrderOK'
<1>1. SUFFICES ASSUME policy'.kind = "LRU"
               PROVE  /\ Stacked(policy'.list, recency', Home')
                      /\ freeFrames' # <<>> => Len(policy'.list) = Len(recency')
  BY DEF OrderOK
<1>2. policy.kind = "LRU"
  BY <1>1, LoadPolicy
<1>3. PICK m : policy'.list = m /\ m = <<f>> \o pol.list
  BY <1>2, LoadPolicy
<1>4. /\ policy.list \in Seq(FrameSet) /\ IsInjective(policy.list) /\ Range(policy.list) = Used
  BY <1>2, Kinds DEF LruOK, VMInv
<1>5. pol.list \in Seq(FrameSet) /\ Range(pol.list) = Used \ {f}
  <2>1. PolicyOK(pol, Used \ {f}) /\ pol.kind = "LRU"
    BY <1>2 DEF Loads
  <2> QED
    BY <2>1, Kinds DEF LruOK
<1>6. /\ Stacked(policy.list, recency, Home)
      /\ freeFrames # <<>> => Len(policy.list) = Len(recency)
      /\ recency \in Seq(Pages) /\ IsInjective(recency)
  BY <1>2 DEF VMInv, OrderOK, HistoryOK
<1>7. PICK u : u = Append(Without(recency, page), page) /\ recency' = u
  BY Zenon DEF Loads, LoadPage
<1>8. /\ page \notin Resident
      /\ Resident' = (Resident \ Holders(f)) \cup {page}
      /\ pageTable'[page].frame = f
      /\ \A q \in Resident \ Holders(f) : pageTable'[q] = pageTable[q]
  BY LoadHome
<1>9. PICK after : after = Home'
  OBVIOUS
<1>10. /\ DOMAIN after = Resident' /\ \A q \in Resident' : after[q] = pageTable'[q].frame
  BY <1>9 DEF Home
<1>11. DOMAIN Home = Resident /\ \A q \in Resident : Home[q] = pageTable[q].frame
  BY DEF Home
<1>12. /\ Len(pol.list) <= Len(policy.list)
       /\ \A i \in 1 .. Len(pol.list) : pol.list[i] = policy.list[i]
  <2>1. CASE pol = policy
    BY <1>4, <2>1
  <2>2. CASE f = policy.list[Len(policy.list)] /\ pol.list = Erase(policy.list, f) /\ Holders(f) # {}
    <3> DEFINE n == Len(policy.list)
    <3>1. f \in Used
      BY <2>2 DEF Holders, Used
    <3>2. n \in 1 .. n
      BY <1>4, <3>1 DEF Range
    <3>3. Erased(pol.list, policy.list, n)
      BY <1>4, <2>2, <3>2, EraseAt
    <3>4. Len(pol.list) = n - 1 /\ \A j \in 1 .. n - 1 : j < n => pol.list[j] = policy.list[j]
      BY <3>3, Zenon DEF Erased
    <3>5. n \in Nat
      BY <1>4
    <3> HIDE DEF n
    <3>6. Len(pol.list) <= n /\ \A j \in 1 .. n - 1 : pol.list[j] = policy.list[j]
      BY <3>4, <3>5
    <3> QED
      BY <3>4, <3>6 DEF n
  <2> QED
    BY <1>2, <2>1, <2>2 DEF Loads
<1>13. \A q \in DOMAIN Home : Home[q] \in Range(pol.list) => q \in DOMAIN after /\ after[q] = Home[q]
  <2>1. SUFFICES ASSUME NEW q \in Resident, Home[q] \in Range(pol.list)
                 PROVE  q \in Resident' /\ pageTable'[q].frame = pageTable[q].frame
    BY <1>8, <1>10, <1>11, Zenon
  <2>2. pageTable[q].frame # f
    BY <1>5, <1>11, <2>1
  <2>3. q \in Resident \ Holders(f)
    BY <2>2 DEF Holders
  <2> QED
    BY <1>8, <2>3
<1>14. Stays(policy.list, Home, pol.list, after)
  BY <1>12, <1>13, Zenon DEF Stays
<1>15. page \notin DOMAIN Home /\ page \in DOMAIN after /\ after[page] = f
  BY <1>8, <1>10, <1>11
<1>16. /\ Stacked(m, u, after) /\ Len(m) = Len(pol.list) + 1
       /\ Len(policy.list) = Len(recency) => Len(u) = Len(recency) + 1
  <2>1. PICK l, k, home : l = policy.list /\ k = pol.list /\ home = Home
    OBVIOUS
  <2>2. l \in Seq(FrameSet) /\ k \in Seq(FrameSet) /\ Stacked(l, recency, home) /\ Stays(l, home, k, after)
    BY <1>4, <1>5, <1>6, <1>14, <2>1, Zenon
  <2>3. page \notin DOMAIN home /\ page \in DOMAIN after /\ after[page] = f /\ m = <<f>> \o k
    BY <1>3, <1>15, <2>1
  <2>4. StacksOn(l, recency, k, m, u, after)
    BY <1>6, <1>7, <2>2, <2>3, StackedLoad, Zenon
  <2> QED
    BY <2>1, <2>4, Zenon DEF StacksOn
<1>17. freeFrames' # <<>> => Len(m) = Len(u)
  <2>1. freeFrames' # <<>> => pol = policy /\ freeFrames # <<>>
    BY DEF Loads
  <2> QED
    BY <1>6, <1>16, <2>1
<1> QED
  BY <1>3, <1>7, <1>9, <1>16, <1>17, Zenon

(* A load preserves the invariant. *)
LEMMA LoadInv ==
  ASSUME VMInv, NEW page \in Pages, NEW isWrite \in BOOLEAN, NEW f \in FrameSet, NEW pol,
         Loads(page, isWrite, f, pol)
  PROVE  VMInv'
  BY LoadTables, LoadTlb, LoadHistory, LoadOrder, LoadPolicy, Zenon DEF VMInv

-----------------------------------------------------------------------------
(* Every step. *)

(* A fresh VMSystem, with any of the four policies. *)
LEMMA InitInv == Init => VMInv
<1>1. SUFFICES ASSUME Init PROVE VMInv
  OBVIOUS
<1> USE DEF Init
<1>2. Resident = {} /\ Used = {} /\ NoPTE \in PTE
  <2>1. NoPTE \in PTE /\ ~NoPTE.present
    BY FramesAssumption DEF NoPTE, PTE, FrameSet
  <2>2. \A q \in Pages : pageTable[q] = NoPTE
    BY <1>1
  <2>3. Resident = {}
    BY <2>1, <2>2 DEF Resident
  <2> QED
    BY <2>1, <2>3 DEF Used
<1>3. freeFrames \in Seq(FrameSet) /\ IsInjective(freeFrames) /\ Range(freeFrames) = FrameSet
  <2>1. /\ freeFrames = [i \in 1 .. Frames |-> i - 1] /\ Frames \in Nat
        /\ \A i \in 1 .. Frames : i - 1 \in FrameSet
    BY <1>1, FramesAssumption DEF FrameSet
  <2>2. freeFrames \in [1 .. Frames -> FrameSet] /\ \A i \in 1 .. Frames : freeFrames[i] = i - 1
    BY <2>1
  <2>3. freeFrames \in Seq(FrameSet) /\ DOMAIN freeFrames = 1 .. Frames
    BY <2>1, <2>2
  <2>4. IsInjective(freeFrames)
    BY <2>1, <2>2, <2>3 DEF IsInjective
  <2>5. \A g \in FrameSet : g + 1 \in 1 .. Frames /\ freeFrames[g + 1] = g
    BY <2>1, <2>2 DEF FrameSet
  <2>6. Range(freeFrames) = FrameSet
    BY <2>2, <2>3, <2>5 DEF Range
  <2> QED
    BY <2>3, <2>4, <2>6
<1>4. TablesOK
  <2>1. pageTable \in [Pages -> PTE] /\ result \in [hit : BOOLEAN, dirtyEvict : BOOLEAN]
    BY <1>1, <1>2
  <2>2. faults \in 0 .. MaxFaults
    BY <1>1, FaultsAssumption
  <2>3. loaded \in [Pids -> Seq(Vpns)] /\ \A p \in Pids : loaded[p] = <<>>
    BY <1>1
  <2>4. IsInjective(<<>>) /\ Range(<<>>) = {}
    BY DEF IsInjective, Range
  <2> QED
    BY <1>2, <1>3, <2>1, <2>2, <2>3, <2>4 DEF TablesOK
<1>5. TlbOK
  <2>1. tlb = <<>> /\ <<>> \in Seq(TlbEntry) /\ Len(<<>>) = 0 /\ IsInjective(<<>>) /\ Range(<<>>) = {}
    BY <1>1 DEF IsInjective, Range
  <2> QED
    BY <2>1, TlbAssumption DEF TlbOK
<1>6. HistoryOK
  <2>1. recency = <<>> /\ <<>> \in Seq(Pages) /\ IsInjective(<<>>)
    BY <1>1 DEF IsInjective
  <2> QED
    BY <1>1, <2>1 DEF HistoryOK
<1>7. OrderOK /\ PolicyOK(policy, Used)
  <2>1. CASE policy = FifoNew
    BY <1>2, <2>1 DEF FifoNew, OrderOK, PolicyOK, FifoOK, Range
  <2>2. CASE policy = LruNew
    <3>1. /\ policy \in [kind : {"LRU"}, list : Seq(FrameSet)] /\ policy.list = <<>>
      BY <2>2 DEF LruNew
    <3>2. LruOK(policy, Used)
      BY <1>2, <3>1 DEF LruOK, Range, IsInjective
    <3>3. Stacked(<<>>, <<>>, Home)
      BY DEF Stacked
    <3> QED
      BY <1>1, <3>1, <3>2, <3>3 DEF OrderOK, PolicyOK
  <2>3. CASE policy = ClockNew
    <3>1. /\ policy \in [kind : {"Clock"}, ring : Seq(ClockSlot), index : [{} -> Nat], hand : Nat \ {0}]
          /\ policy.ring = <<>> /\ policy.hand = 1 /\ policy.kind = "Clock"
      BY <2>3 DEF ClockNew
    <3>2. ClockOK(policy, Used)
      BY <1>2, <3>1 DEF ClockOK
    <3> QED
      BY <3>1, <3>2 DEF OrderOK, PolicyOK
  <2>4. CASE policy = OptimalNew
    BY <1>2, <2>4 DEF OptimalNew, OrderOK, PolicyOK, OptimalOK
  <2> QED
    BY <1>1, <2>1, <2>2, <2>3, <2>4
<1> QED
  BY <1>4, <1>5, <1>6, <1>7 DEF VMInv

(* The load of page into frame f, from which an eviction threw a page out. *)
Faults(page, isWrite, f) ==
    \E pol : Loads(page, isWrite, f, pol) /\ (Holders(f) # {} => Evicted(policy, f, pol))

(* A step is a hit, which moves no page, or such a load. *)
LEMMA VMStep ==
  ASSUME VMInv, Next
  PROVE  /\ VMInv'
         /\ \/ Resident' = Resident
            \/ \E page \in Pages, isWrite \in BOOLEAN, f \in FrameSet : Faults(page, isWrite, f)
<1>1. PICK page \in Pages, isWrite \in BOOLEAN : Access(page, isWrite)
  BY Zenon DEF Next
<1>2. CASE AccessTlb(page, isWrite)
  <2>1. PICK f \in FrameSet : Hit(page, isWrite, f)
    BY <1>2, TlbHits DEF VMInv
  <2> QED
    BY <2>1, HitInv, HitMapping
<1>3. CASE AccessWalk(page, isWrite)
  <2>1. PICK f \in FrameSet : Hit(page, isWrite, f)
    BY <1>3, WalkHits DEF VMInv
  <2> QED
    BY <2>1, HitInv, HitMapping
<1>4. CASE AccessFree(page, isWrite)
  <2>1. PICK f \in FrameSet : Loads(page, isWrite, f, policy) /\ Holders(f) = {}
    BY <1>4, FreeLoads
  <2>2. VMInv'
    BY <2>1, LoadInv
  <2> QED
    BY <2>1, <2>2, Zenon DEF Faults
<1>5. CASE AccessEvict(page, isWrite)
  <2>1. PICK f \in FrameSet : \E pol : Loads(page, isWrite, f, pol) /\ Holders(f) # {} /\ Evicted(policy, f, pol)
    BY <1>5, EvictLoads
  <2>2. PICK pol : Loads(page, isWrite, f, pol) /\ Holders(f) # {} /\ Evicted(policy, f, pol)
    BY <2>1
  <2>3. VMInv'
    BY <2>2, LoadInv
  <2> QED
    BY <2>2, <2>3, Zenon DEF Faults
<1> QED
  BY <1>1, <1>2, <1>3, <1>4, <1>5, Zenon DEF Access

(* VMInv in every reachable state. *)
THEOREM VMInvariant == Spec => []VMInv
<1>1. VMInv /\ UNCHANGED vars => VMInv'
  <2>1. SUFFICES ASSUME VMInv, UNCHANGED vars PROVE VMInv'
    OBVIOUS
  <2>2. /\ freeFrames' = freeFrames /\ pageTable' = pageTable /\ loaded' = loaded /\ tlb' = tlb
        /\ policy' = policy /\ faults' = faults /\ result' = result
        /\ written' = written /\ recency' = recency /\ touched' = touched
    BY <2>1, Zenon DEF vars, history
  <2>3. Resident' = Resident
    BY <2>2, Zenon DEF Resident
  <2>4. Used' = Used /\ Home' = Home
    BY <2>2, <2>3, Zenon DEF Used, Home
  <2> QED
    BY <2>1, <2>2, <2>3, <2>4, Zenon DEF VMInv, TablesOK, TlbOK, HistoryOK, OrderOK
<1>2. VMInv /\ [Next]_vars => VMInv'
  BY <1>1, VMStep, Zenon
<1> QED
  BY InitInv, <1>2, PTL DEF Spec

(* An action property follows from what the loads do. *)
LEMMA StepMoves ==
  ASSUME VMInv, [Next]_vars, Resident' # Resident
  PROVE  \E page \in Pages, isWrite \in BOOLEAN, f \in FrameSet : Faults(page, isWrite, f)
<1>1. CASE UNCHANGED vars
  <2>1. pageTable' = pageTable
    BY <1>1 DEF vars
  <2> QED
    BY <2>1, Zenon DEF Resident
<1>2. CASE Next
  BY <1>2, VMStep, Zenon
<1> QED
  BY <1>1, <1>2, Zenon

-----------------------------------------------------------------------------
(* The frames. *)

(* The ring of Clock has a slot for each frame of the index. *)
LEMMA RingCount ==
  ASSUME NEW U, NEW s, ClockOK(s, U)
  PROVE  Len(s.ring) = Cardinality(DOMAIN s.index)
<1>1. /\ s.ring \in Seq(ClockSlot) /\ DOMAIN s.index = U
      /\ \A f \in U : s.index[f] \in 1 .. Len(s.ring) /\ s.ring[s.index[f]].frame = f
      /\ \A i \in 1 .. Len(s.ring) : s.ring[i].frame \in U /\ s.index[s.ring[i].frame] = i
  BY DEF ClockOK
<1> DEFINE l == [i \in 1 .. Len(s.ring) |-> s.ring[i].frame]
<1>2. l \in Seq(U) /\ Len(l) = Len(s.ring) /\ DOMAIN l = 1 .. Len(s.ring)
  BY <1>1
<1>3. IsInjective(l)
  BY <1>1, <1>2 DEF IsInjective
<1>4. Range(l) = U
  <2>1. \A i \in 1 .. Len(s.ring) : l[i] \in U
    BY <1>1
  <2>2. \A f \in U : s.index[f] \in DOMAIN l /\ l[s.index[f]] = f
    BY <1>1
  <2> HIDE DEF l
  <2> QED
    BY <1>2, <2>1, <2>2 DEF Range
<1> HIDE DEF l
<1> QED
  BY <1>1, <1>2, <1>3, <1>4, DistinctCount

(* access, FrameAllocator, the policies and _loaded_vpns agree on which    *)
(* frame holds which page, for every number of frames and every policy.    *)
THEOREM FramesExactAlways == Spec => []FramesExact
<1>1. VMInv => FramesExact
  <2> SUFFICES ASSUME VMInv PROVE FramesExact
    OBVIOUS
  <2> USE DEF VMInv
  <2>2. Resident \subseteq Pages /\ Used \subseteq FrameSet
    BY DEF TablesOK, Resident, Used, PTE
  <2>3. TypeOK
    BY <2>2 DEF TypeOK, TablesOK, TlbOK, TlbEntry, HistoryOK
  <2>4. /\ \A q, r \in Resident : pageTable[q].frame = pageTable[r].frame => q = r
        /\ \A p \in Pids : /\ IsInjective(loaded[p])
                           /\ Range(loaded[p]) = {v \in Vpns : <<p, v>> \in Resident}
    BY Zenon DEF TablesOK
  <2>5. Used \cap Range(freeFrames) = {} /\ Used \cup Range(freeFrames) = FrameSet
    <3>1. Range(freeFrames) \subseteq FrameSet
      BY DEF TablesOK, Range
    <3> QED
      BY <2>2, <3>1 DEF TablesOK, Used
  <2>6. Tracked(policy) = Used
    BY Kinds
  <2>7. ASSUME policy.kind = "Clock"
        PROVE  /\ Len(policy.ring) = Cardinality(DOMAIN policy.index)
               /\ \A f \in DOMAIN policy.index :
                     policy.index[f] \in DOMAIN policy.ring /\ policy.ring[policy.index[f]].frame = f
               /\ policy.ring # <<>> => policy.hand \in DOMAIN policy.ring
    <3>1. ClockOK(policy, Used)
      BY <2>7, Kinds
    <3>2. Len(policy.ring) = Cardinality(DOMAIN policy.index)
      BY <3>1, RingCount
    <3>3. policy.ring \in Seq(ClockSlot) /\ DOMAIN policy.index = Used /\ policy.hand \in Nat \ {0}
      BY <3>1 DEF ClockOK
    <3>4. DOMAIN policy.ring = 1 .. Len(policy.ring) /\ (policy.ring # <<>> => Len(policy.ring) # 0)
      BY <3>3
    <3>5. policy.hand <= Len(policy.ring) \/ Len(policy.ring) = 0
      BY <3>1 DEF ClockOK
    <3>6. \A f \in Used : policy.index[f] \in 1 .. Len(policy.ring) /\ policy.ring[policy.index[f]].frame = f
      BY <3>1 DEF ClockOK
    <3> QED
      BY <3>2, <3>3, <3>4, <3>5, <3>6
  <2> QED
    BY <2>3, <2>4, <2>5, <2>6, <2>7, Zenon DEF FramesExact, Used
<1> QED
  BY <1>1, VMInvariant, PTL

(* No TLB entry outlives the mapping it caches, whatever the capacity. *)
THEOREM TlbCoherentAlways == Spec => []TlbCoherent
<1>1. VMInv => TlbCoherent
  <2> SUFFICES ASSUME VMInv PROVE TlbCoherent
    OBVIOUS
  <2>2. /\ tlb \in Seq(TlbEntry) /\ IsInjective(tlb)
        /\ \A e \in Range(tlb) : e.page \in Resident /\ pageTable[e.page].frame = e.frame
    BY DEF VMInv, TlbOK
  <2>3. \A e \in Range(tlb) : pageTable[e.page].present
    BY <2>2 DEF Resident
  <2>4. \A i \in DOMAIN tlb : tlb[i] \in TlbEntry /\ tlb[i] \in Range(tlb)
    BY <2>2 DEF Range
  <2>5. ASSUME NEW i \in DOMAIN tlb, NEW j \in DOMAIN tlb, tlb[i].page = tlb[j].page PROVE i = j
    <3>1. tlb[i].frame = tlb[j].frame
      BY <2>2, <2>4, <2>5
    <3>2. tlb[i] = tlb[j]
      BY <2>4, <2>5, <3>1 DEF TlbEntry
    <3> QED
      BY <2>2, <3>2 DEF IsInjective
  <2>6. IsInjective([i \in DOMAIN tlb |-> tlb[i].page])
    BY <2>5, Zenon DEF IsInjective
  <2> QED
    BY <2>2, <2>3, <2>6, Zenon DEF TlbCoherent
<1> QED
  BY <1>1, VMInvariant, PTL

(* A page written since it was loaded goes only with a write-back: the     *)
(* dirty bit that access reads on eviction has followed every write.       *)
THEOREM WritesBackAlways == Spec => WritesBack
<1>1. VMInv /\ [Next]_vars =>
        [\A page \in written : page \in Resident /\ page \notin Resident' => result'.dirtyEvict]_vars
  <2>1. SUFFICES ASSUME VMInv, [Next]_vars, NEW q \in written, q \in Resident, q \notin Resident'
                 PROVE  result'.dirtyEvict
    BY Zenon
  <2>2. PICK page \in Pages, isWrite \in BOOLEAN, f \in FrameSet : Faults(page, isWrite, f)
    BY <2>1, StepMoves
  <2>3. PICK pol : Loads(page, isWrite, f, pol)
    BY <2>2, Zenon DEF Faults
  <2>4. q \in Holders(f)
    BY <2>1, <2>3, LoadHome
  <2>5. pageTable[q].dirty
    BY <2>1 DEF VMInv, HistoryOK
  <2>6. result' = [hit |-> FALSE, dirtyEvict |-> \E o \in Holders(f) : pageTable[o].dirty]
    BY <2>3, Zenon DEF Loads, LoadPage
  <2>7. \E o \in Holders(f) : pageTable[o].dirty
    BY <2>4, <2>5
  <2> QED
    BY <2>6, <2>7
<1> QED
  BY <1>1, VMInvariant, PTL DEF Spec, WritesBack

(* ClockReplacement::victim takes a frame that was accessed since the last *)
(* eviction only when all reference bits are set.                          *)
THEOREM SecondChanceAlways == Spec => SecondChance
<1>1. VMInv /\ [Next]_vars =>
        [policy.kind = "Clock" =>
           \A f \in FrameSet : Evicts(f) /\ f \in touched => \A i \in DOMAIN policy.ring : policy.ring[i].ref]_vars
  <2>1. SUFFICES ASSUME VMInv, [Next]_vars, policy.kind = "Clock",
                        NEW g \in FrameSet, Evicts(g), g \in touched
                 PROVE  \A i \in DOMAIN policy.ring : policy.ring[i].ref
    BY Zenon
  <2>2. PICK q \in Resident : pageTable[q].frame = g /\ q \notin Resident'
    BY <2>1 DEF Evicts
  <2>3. PICK page \in Pages, isWrite \in BOOLEAN, f \in FrameSet : Faults(page, isWrite, f)
    BY <2>1, <2>2, StepMoves
  <2>4. PICK pol : Loads(page, isWrite, f, pol) /\ (Holders(f) # {} => Evicted(policy, f, pol))
    BY <2>3, Zenon DEF Faults
  <2>5. q \in Holders(f)
    BY <2>1, <2>2, <2>4, LoadHome
  <2>6. f = g /\ Evicted(policy, f, pol)
    BY <2>2, <2>4, <2>5 DEF Holders
  <2>7. policy.ring[policy.index[f]].ref
    BY <2>1, <2>6 DEF VMInv, HistoryOK
  <2>8. \A i \in 1 .. Len(policy.ring) : policy.ring[i].ref
    BY <2>1, <2>6, <2>7, Zenon DEF Evicted
  <2>9. ClockOK(policy, Used)
    BY <2>1, Kinds DEF VMInv
  <2>10. DOMAIN policy.ring = 1 .. Len(policy.ring)
    BY <2>9 DEF ClockOK
  <2> QED
    BY <2>8, <2>10
<1> QED
  BY <1>1, VMInvariant, PTL DEF Spec, SecondChance

-----------------------------------------------------------------------------
(* How many pages are in memory. *)

(* As many pages are resident as frames are in use, all of them exactly    *)
(* when none is free.                                                      *)
LEMMA UsedCount ==
  ASSUME VMInv
  PROVE  /\ IsFiniteSet(Used) /\ Cardinality(Used) \in Nat
         /\ IsFiniteSet(Resident) /\ Cardinality(Resident) = Cardinality(Used)
         /\ freeFrames = <<>> => Cardinality(Used) = Frames
         /\ freeFrames # <<>> => Cardinality(Used) < Frames
<1>1. /\ freeFrames \in Seq(FrameSet)
      /\ \A q, o \in Resident : pageTable[q].frame = pageTable[o].frame => q = o
      /\ \A q \in Resident : pageTable[q].frame \notin Range(freeFrames)
      /\ \A f \in FrameSet : f \in Range(freeFrames) \/ f \in Used
  BY DEF VMInv, TablesOK
<1>2. Used \subseteq FrameSet
  BY DEF VMInv, TablesOK, Resident, Used, PTE
<1>3. IsFiniteSet(FrameSet) /\ Cardinality(FrameSet) = Frames /\ Frames \in Nat
  <2>1. 0 \in Int /\ Frames - 1 \in Int /\ ~(0 > Frames - 1) /\ (Frames - 1) - 0 + 1 = Frames
    BY FramesAssumption
  <2>2. IsFiniteSet(0 .. Frames - 1) /\ Cardinality(0 .. Frames - 1) = Frames
    BY <2>1, FS_Interval
  <2> QED
    BY <2>2, FramesAssumption DEF FrameSet
<1>4. /\ IsFiniteSet(Used) /\ Cardinality(Used) <= Cardinality(FrameSet)
      /\ Cardinality(FrameSet) = Cardinality(Used) => FrameSet = Used
  BY <1>2, <1>3, FS_Subset
<1>5. Cardinality(Used) \in Nat
  BY <1>4, FS_CardinalityType
<1>6. freeFrames = <<>> => Used = FrameSet
  <2>1. Range(<<>>) = {}
    BY DEF Range
  <2> QED
    BY <1>1, <1>2, <2>1
<1>7. freeFrames # <<>> => Used # FrameSet
  <2>1. freeFrames # <<>> => freeFrames[1] \in FrameSet /\ freeFrames[1] \in Range(freeFrames)
    BY <1>1 DEF Range
  <2> QED
    BY <1>1, <2>1 DEF Used
<1>8. Home \in [Resident -> Used] /\ \A q \in Resident : Home[q] = pageTable[q].frame
  BY DEF Home, Used
<1>9. Home \in Injection(Resident, Used)
  BY <1>1, <1>8 DEF Injection, IsInjective
<1>10. Home \in Surjection(Resident, Used)
  <2>1. \A g \in Used : \E q \in Resident : Home[q] = g
    BY <1>8 DEF Used
  <2> QED
    BY <1>8, <2>1, Zenon DEF Surjection
<1>11. IsFiniteSet(Resident) /\ Cardinality(Resident) = Cardinality(Used)
  BY <1>4, <1>9, <1>10, FS_Injection
<1> QED
  BY <1>3, <1>4, <1>5, <1>6, <1>7, <1>11

(* The greater of two numbers. *)
LEMMA MaxOf ==
  ASSUME NEW a \in Int, NEW b \in Int
  PROVE  Max({a, b}) = IF a >= b THEN a ELSE b
<1> DEFINE m == IF a >= b THEN a ELSE b
<1>1. m \in {a, b} /\ \A y \in {a, b} : m >= y
  OBVIOUS
<1>2. \A x \in {a, b} : (\A y \in {a, b} : x >= y) => x = m
  OBVIOUS
<1> HIDE DEF m
<1> QED
  BY <1>1, <1>2 DEF Max, m

(* The last n of a list. *)
LEMMA LastOnes ==
  ASSUME NEW S, NEW r \in Seq(S), NEW n \in 0 .. Len(r)
  PROVE  Range(SubSeq(r, Len(r) - n + 1, Len(r))) = {r[Len(r) + 1 - i] : i \in 1 .. n}
<1> DEFINE x == Len(r)
           m == SubSeq(r, x - n + 1, x)
<1>1. x \in Nat /\ n \in Nat /\ n <= x
  OBVIOUS
<1>2. DOMAIN m = 1 .. n /\ \A j \in 1 .. n : m[j] = r[x - n + j]
  OBVIOUS
<1> HIDE DEF x, m
<1>3. \A j \in 1 .. n : n + 1 - j \in 1 .. n /\ x + 1 - (n + 1 - j) = x - n + j
  BY <1>1
<1>4. \A i \in 1 .. n : n + 1 - i \in 1 .. n /\ x - n + (n + 1 - i) = x + 1 - i
  BY <1>1
<1>5. \A j \in 1 .. n : m[j] \in {r[x + 1 - i] : i \in 1 .. n}
  <2>1. SUFFICES ASSUME NEW j \in 1 .. n PROVE \E i \in 1 .. n : m[j] = r[x + 1 - i]
    BY Zenon
  <2>2. n + 1 - j \in 1 .. n /\ m[j] = r[x + 1 - (n + 1 - j)]
    BY <1>2, <1>3
  <2> QED
    BY <2>2, Zenon
<1>6. \A i \in 1 .. n : r[x + 1 - i] \in Range(m)
  <2>1. SUFFICES ASSUME NEW i \in 1 .. n PROVE r[x + 1 - i] \in Range(m)
    OBVIOUS
  <2>2. n + 1 - i \in DOMAIN m /\ m[n + 1 - i] = r[x + 1 - i]
    BY <1>2, <1>4
  <2> QED
    BY <2>2, Zenon DEF Range
<1>7. Range(m) = {r[x + 1 - i] : i \in 1 .. n}
  <2>1. \A y \in Range(m) : \E j \in 1 .. n : m[j] = y
    BY <1>2 DEF Range
  <2>2. \A y \in Range(m) : y \in {r[x + 1 - i] : i \in 1 .. n}
    BY <1>5, <2>1, Zenon
  <2>3. \A y \in {r[x + 1 - i] : i \in 1 .. n} : y \in Range(m)
    BY <1>6, Zenon
  <2> QED
    BY <2>2, <2>3, Zenon
<1> QED
  BY <1>7 DEF m, x

(* With LRUReplacement memory holds exactly the most recently used pages,  *)
(* for every number of frames: the stack property of LRU.                  *)
THEOREM HoldsMostRecentAlways == Spec => []HoldsMostRecent
<1>1. VMInv => HoldsMostRecent
  <2> SUFFICES ASSUME VMInv, policy.kind = "LRU"
               PROVE  Resident = Range(SubSeq(recency, Max({1, Len(recency) - Frames + 1}), Len(recency)))
    BY DEF HoldsMostRecent
  <2> DEFINE n == Len(policy.list)
             x == Len(recency)
             start == Max({1, x - Frames + 1})
  <2>1. policy.list \in Seq(FrameSet) /\ IsInjective(policy.list) /\ Range(policy.list) = Used
    BY Kinds DEF LruOK, VMInv
  <2>2. recency \in Seq(Pages) /\ Stacked(policy.list, recency, Home) /\ (freeFrames # <<>> => n = x)
    BY DEF VMInv, HistoryOK, OrderOK
  <2>3. n = Cardinality(Used)
    BY <2>1, DistinctCount
  <2>4. (freeFrames = <<>> => n = Frames) /\ (freeFrames # <<>> => n < Frames)
    BY <2>3, UsedCount
  <2>5. n \in Nat /\ x \in Nat /\ n <= x /\ n \in 0 .. Len(recency)
    BY <2>1, <2>2 DEF Stacked
  <2>6. DOMAIN Home = Resident /\ \A q \in Resident : Home[q] = pageTable[q].frame
    BY DEF Home
  <2>7. \A i \in 1 .. n : recency[x + 1 - i] \in Resident /\ pageTable[recency[x + 1 - i]].frame = policy.list[i]
    BY <2>2, <2>6 DEF Stacked
  <2>8. ASSUME NEW q \in Resident PROVE \E i \in 1 .. n : q = recency[x + 1 - i]
    <3>1. pageTable[q].frame \in Range(policy.list)
      BY <2>1 DEF Used
    <3>2. PICK i \in 1 .. n : policy.list[i] = pageTable[q].frame
      BY <2>1, <3>1 DEF Range
    <3>3. \A o \in Resident : pageTable[o].frame = pageTable[q].frame => o = q
      BY DEF VMInv, TablesOK
    <3> QED
      BY <2>7, <3>2, <3>3
  <2>9. Range(SubSeq(recency, x - n + 1, x)) = {recency[x + 1 - i] : i \in 1 .. n}
    BY <2>2, <2>5, LastOnes
  <2>10. start = x - n + 1
    <3> HIDE DEF n, x
    <3>1. Max({1, x - Frames + 1}) = IF 1 >= x - Frames + 1 THEN 1 ELSE x - Frames + 1
      BY <2>5, MaxOf, FramesAssumption
    <3> QED
      BY <2>2, <2>4, <2>5, <3>1, FramesAssumption
  <2>11. Resident = {recency[x + 1 - i] : i \in 1 .. n}
    <3> HIDE DEF n, x
    <3> QED
      BY <2>7, <2>8
  <2> QED
    BY <2>9, <2>10, <2>11, Zenon
<1> QED
  BY <1>1, VMInvariant, PTL

-----------------------------------------------------------------------------
(* Demand paging. *)

(* Cardinality means the same in the instance of Paging. *)
LEMMA SameCardinality == \A S : Abstract!Cardinality(S) = Cardinality(S)
  BY Zenon DEF Abstract!Cardinality, Cardinality

(* VMSystem::access with any of the policies implements demand paging of   *)
(* module Paging: one page at a time comes in, and one goes exactly when   *)
(* all frames are in use.                                                  *)
THEOREM PagingImplemented == Spec => PagingSpec
<1>1. Init => Abstract!Init
  <2> SUFFICES ASSUME Init PROVE Resident = {}
    BY DEF Abstract!Init
  <2>1. \A q \in Pages : ~pageTable[q].present
    BY DEF Init, NoPTE
  <2> QED
    BY <2>1 DEF Resident
<1>2. VMInv /\ [Next]_vars => [Abstract!Next]_Resident
  <2> SUFFICES ASSUME VMInv, [Next]_vars, Resident' # Resident PROVE Abstract!Next
    BY Zenon
  <2>1. PICK page \in Pages, isWrite \in BOOLEAN, f \in FrameSet : Faults(page, isWrite, f)
    BY StepMoves
  <2>2. PICK pol : Loads(page, isWrite, f, pol)
    BY <2>1, Zenon DEF Faults
  <2>3. /\ page \notin Resident /\ Resident \subseteq Pages
        /\ Resident' = (Resident \ Holders(f)) \cup {page}
    BY <2>2, LoadHome
  <2>4. /\ freeFrames = <<>> => Cardinality(Resident) = Frames
        /\ freeFrames # <<>> => Cardinality(Resident) < Frames
    BY UsedCount
  <2>5. CASE Holders(f) = {}
    <3>1. freeFrames # <<>> /\ Resident' = Resident \cup {page}
      BY <2>2, <2>3, <2>5 DEF Loads
    <3>2. Abstract!Load(page)
      BY <2>3, <2>4, <3>1, SameCardinality DEF Abstract!Load
    <3> QED
      BY <3>2 DEF Abstract!Next
  <2>6. CASE Holders(f) # {}
    <3>1. PICK q \in Resident : q \in Holders(f) /\ pageTable[q].frame = f
      BY <2>6 DEF Holders
    <3>2. Holders(f) = {q}
      BY <3>1 DEF Holders, VMInv, TablesOK
    <3>3. freeFrames = <<>>
      <4>1. freeFrames' = <<>> /\ Range(freeFrames') = Range(freeFrames) \ {f}
        BY <2>2, <2>6 DEF Loads
      <4>2. freeFrames \in Seq(FrameSet) /\ f \notin Range(freeFrames)
        BY <3>1 DEF VMInv, TablesOK
      <4>3. Range(freeFrames) = {}
        BY <4>1, <4>2 DEF Range
      <4> QED
        BY <4>2, <4>3 DEF Range
    <3>4. Abstract!Replace(page, q)
      BY <2>3, <2>4, <3>1, <3>2, <3>3, SameCardinality DEF Abstract!Replace
    <3> QED
      BY <2>3, <3>1, <3>4 DEF Abstract!Next
  <2> QED
    BY <2>5, <2>6
<1> QED
  BY <1>1, <1>2, VMInvariant, PTL DEF Spec, PagingSpec, Abstract!Spec
=============================================================================
