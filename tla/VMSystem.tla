------------------------------ MODULE VMSystem -------------------------------
(***************************************************************************)
(* memlab/sim/vm_sim_main.cpp, class VMSystem, with the FrameAllocator,    *)
(* PageTable and TLB of memlab/vm and a policy of module Replacement.      *)
(* Costs and hit counts are left out; an access is one step.               *)
(***************************************************************************)
EXTENDS Replacement

CONSTANTS Pids, Vpns,
          Frames,        \* the number of frames
          TlbCap,        \* the TLB's capacity
          MaxFaults      \* bound on the number of faults

VARIABLES freeFrames,    \* FrameAllocator::_free
          pageTable,     \* _page_tables: the PTE of a page, NoPTE before its first fault
          loaded,        \* _loaded_vpns
          tlb,           \* TLB::_map, least recently stamped first
          policy,        \* the state of _policy
          faults,
          result,        \* the AccessResult of the last access
          written,       \* history: the pages written since they were loaded
          recency,       \* history: the pages ever accessed, longest unused first
          touched        \* history: the frames accessed since the last eviction

history == <<written, recency, touched>>
vars == <<freeFrames, pageTable, loaded, tlb, policy, faults, result, history>>

Pages == Pids \X Vpns
FrameSet == 0 .. Frames - 1
PTE == [frame : FrameSet, present : BOOLEAN, dirty : BOOLEAN]
NoPTE == [frame |-> 0, present |-> FALSE, dirty |-> FALSE]

ASSUME FramesAssumption == Frames \in Nat \ {0}
ASSUME TlbAssumption == TlbCap \in Nat \ {0}
ASSUME FaultsAssumption == MaxFaults \in Nat

Without(s, x) == IF x \in Range(s) THEN Erase(s, x) ELSE s

(* The elements of s that are in S, in their order. *)
Keep(s, S) ==
    LET kept[n \in 0 .. Len(s)] ==
          IF n = 0 THEN <<>> ELSE IF s[n] \in S THEN Append(kept[n - 1], s[n]) ELSE kept[n - 1]
    IN  kept[Len(s)]

Entries(t, pages) == {e \in Range(t) : e.page \in pages}
TlbFind(page) == Entries(tlb, {page})

(* Mutation: nothing is invalidated. *)
TlbInvalidateNothing(t, pages) == t

TlbInvalidate(t, pages) == Keep(t, Range(t) \ Entries(t, pages))

(* TLB::insert, and the new stamp of lookup: the entry becomes the newest. *)
TlbInsert(t, page, frame) ==
    LET old == Entries(t, {page})
        room == IF old = {} /\ Len(t) >= TlbCap THEN Tail(t) ELSE Keep(t, Range(t) \ old)
    IN  Append(room, [page |-> page, frame |-> frame])

Init ==
    /\ freeFrames = [i \in 1 .. Frames |-> i - 1]
    /\ pageTable = [page \in Pages |-> NoPTE]
    /\ loaded = [p \in Pids |-> <<>>]
    /\ tlb = <<>>
    /\ policy \in {FifoNew, LruNew, ClockNew, OptimalNew}
    /\ faults = 0
    /\ result = [hit |-> FALSE, dirtyEvict |-> FALSE]
    /\ written = {}
    /\ recency = <<>>
    /\ touched = {}

Accessed(page, frame, isWrite) ==
    /\ written' = IF isWrite THEN written \cup {page} ELSE written
    /\ recency' = Append(Without(recency, page), page)
    /\ touched' = touched \cup {frame}

(* Mutation: a write that hits in the TLB does not reach the page table. *)
AccessTlbClean(page, isWrite) ==
    \E e \in TlbFind(page) :
       /\ tlb' = TlbInsert(tlb, page, e.frame)
       /\ policy' = OnAccess(policy, e.frame)
       /\ result' = [hit |-> TRUE, dirtyEvict |-> FALSE]
       /\ Accessed(page, e.frame, isWrite)
       /\ UNCHANGED <<freeFrames, pageTable, loaded, faults>>

(* The TLB has the page. *)
AccessTlb(page, isWrite) ==
    \E e \in TlbFind(page) :
       /\ tlb' = TlbInsert(tlb, page, e.frame)
       /\ pageTable' = IF isWrite THEN [pageTable EXCEPT ![page].dirty = TRUE] ELSE pageTable
       /\ policy' = OnAccess(policy, e.frame)
       /\ result' = [hit |-> TRUE, dirtyEvict |-> FALSE]
       /\ Accessed(page, e.frame, isWrite)
       /\ UNCHANGED <<freeFrames, loaded, faults>>

(* It does not, and the page table does. *)
AccessWalk(page, isWrite) ==
    LET pte == pageTable[page]
    IN  /\ TlbFind(page) = {}
        /\ pte.present
        /\ tlb' = TlbInsert(tlb, page, pte.frame)
        /\ pageTable' = [pageTable EXCEPT ![page].dirty = @ \/ isWrite]
        /\ policy' = OnAccess(policy, pte.frame)
        /\ result' = [hit |-> TRUE, dirtyEvict |-> FALSE]
        /\ Accessed(page, pte.frame, isWrite)
        /\ UNCHANGED <<freeFrames, loaded, faults>>

(* "Load new page" of access: into frame, after the pages of gone have     *)
(* been thrown out.                                                        *)
LoadPage(page, isWrite, frame, gone, pol) ==
    LET left == [q \in Pages |-> IF q \in gone THEN [pageTable[q] EXCEPT !.present = FALSE] ELSE pageTable[q]]
        stay == [p \in Pids |-> Keep(loaded[p], {v \in Vpns : <<p, v>> \notin gone})]
    IN  /\ pageTable' = [left EXCEPT ![page] = [frame |-> frame, present |-> TRUE, dirty |-> isWrite]]
        /\ tlb' = TlbInsert(TlbInvalidate(tlb, gone), page, frame)
        /\ policy' = OnLoad(pol, frame)
        /\ loaded' = [stay EXCEPT ![page[1]] = Append(@, page[2])]
        /\ faults' = faults + 1
        /\ result' = [hit |-> FALSE, dirtyEvict |-> \E q \in gone : pageTable[q].dirty]
        /\ written' = (written \ gone) \cup (IF isWrite THEN {page} ELSE {})
        /\ recency' = Append(Without(recency, page), page)
        /\ touched' = IF gone = {} THEN touched \cup {frame} ELSE {frame}

Fault(page) ==
    /\ TlbFind(page) = {}
    /\ ~pageTable[page].present
    /\ faults < MaxFaults

AccessFree(page, isWrite) ==
    /\ Fault(page)
    /\ freeFrames # <<>>
    /\ freeFrames' = Tail(freeFrames)
    /\ LoadPage(page, isWrite, Head(freeFrames), {}, policy)

(* Mutation: only one process's page table is scanned. *)
PagesInOneTable(frame) ==
    {page \in Pages : page[1] = Min(Pids) /\ pageTable[page].present /\ pageTable[page].frame = frame}

(* The scan for the evicted page: of each process the first loaded page    *)
(* that the frame holds.                                                   *)
PagesIn(frame) ==
    LET Holds(p, v) == pageTable[<<p, v>>].present /\ pageTable[<<p, v>>].frame = frame
    IN  {page \in Pages : LET p == page[1]
                          IN  \E i \in DOMAIN loaded[p] :
                                 /\ loaded[p][i] = page[2] /\ Holds(p, page[2])
                                 /\ \A j \in 1 .. i - 1 : ~Holds(p, loaded[p][j])}

(* Mutation: the last free frame is never used. *)
AccessEvictEarly(page, isWrite) ==
    /\ Fault(page)
    /\ Len(freeFrames) <= 1
    /\ \E v \in Victims(policy) :
          LoadPage(page, isWrite, v.frame, PagesIn(v.frame), OnEvict(v.next, v.frame))
    /\ UNCHANGED freeFrames

AccessEvict(page, isWrite) ==
    /\ Fault(page)
    /\ freeFrames = <<>>
    /\ \E v \in Victims(policy) :
          LoadPage(page, isWrite, v.frame, PagesIn(v.frame), OnEvict(v.next, v.frame))
    /\ UNCHANGED freeFrames

Access(page, isWrite) ==
    \/ AccessTlb(page, isWrite)
    \/ AccessWalk(page, isWrite)
    \/ AccessFree(page, isWrite)
    \/ AccessEvict(page, isWrite)

Next == \E page \in Pages, isWrite \in BOOLEAN : Access(page, isWrite)

Spec == Init /\ [][Next]_vars

-----------------------------------------------------------------------------
(* The variables have their types; the TLB never outgrows its capacity.    *)
TypeOK ==
    /\ freeFrames \in Seq(FrameSet)
    /\ pageTable \in [Pages -> PTE]
    /\ loaded \in [Pids -> Seq(Vpns)]
    /\ tlb \in Seq([page : Pages, frame : FrameSet]) /\ Len(tlb) <= TlbCap
    /\ faults \in 0 .. MaxFaults
    /\ result \in [hit : BOOLEAN, dirtyEvict : BOOLEAN]
    /\ written \subseteq Pages
    /\ recency \in Seq(Pages) /\ touched \subseteq FrameSet

Resident == {page \in Pages : pageTable[page].present}

(* Every TLB entry is the present mapping of its page: the eviction's scan *)
(* and its invalidate leave no entry of an evicted page, of any process.   *)
TlbCoherent ==
    /\ IsInjective([i \in DOMAIN tlb |-> tlb[i].page])
    /\ \A e \in Range(tlb) : pageTable[e.page].present /\ pageTable[e.page].frame = e.frame

(* A frame holds one page or is free, never both, and none is lost; the    *)
(* policy and _loaded_vpns know exactly the frames and pages in use.  The  *)
(* index of Clock gives each frame's own slot of the ring after any number *)
(* of swaps by on_evict, and the hand stays inside the ring.               *)
FramesExact ==
    LET used == {pageTable[page].frame : page \in Resident}
    IN  /\ TypeOK
        /\ \A q, r \in Resident : pageTable[q].frame = pageTable[r].frame => q = r
        /\ used \cap Range(freeFrames) = {}
        /\ used \cup Range(freeFrames) = FrameSet
        /\ Tracked(policy) = used
        /\ \A p \in Pids : /\ IsInjective(loaded[p])
                           /\ Range(loaded[p]) = {v \in Vpns : <<p, v>> \in Resident}
        /\ policy.kind = "Clock" =>
             /\ Len(policy.ring) = Cardinality(DOMAIN policy.index)
             /\ \A f \in DOMAIN policy.index :
                   policy.index[f] \in DOMAIN policy.ring /\ policy.ring[policy.index[f]].frame = f
             /\ policy.ring # <<>> => policy.hand \in DOMAIN policy.ring

(* A page written since it was loaded does not leave memory without the    *)
(* write-back that dirty_evict reports.                                    *)
WritesBack ==
    [][\A page \in written : page \in Resident /\ page \notin Resident' => result'.dirtyEvict]_vars

(* The frame an eviction gives to another page. *)
Evicts(f) == \E page \in Resident : pageTable[page].frame = f /\ page \notin Resident'

(* LRU: memory holds the most recently used pages, as many as there are    *)
(* frames, hits in the TLB counted as uses.  The larger memory then always *)
(* holds what the smaller one does: LRU is free of Belady's anomaly.       *)
HoldsMostRecent ==
    policy.kind = "LRU" =>
      Resident = Range(SubSeq(recency, Max({1, Len(recency) - Frames + 1}), Len(recency)))

(* Clock: a frame accessed since the last eviction gets its second chance: *)
(* it goes only when every frame has its reference bit set.                *)
SecondChance ==
    [][policy.kind = "Clock" =>
         \A f \in FrameSet : Evicts(f) /\ f \in touched => \A i \in DOMAIN policy.ring : policy.ring[i].ref]_vars

Abstract == INSTANCE Paging WITH Capacity <- Frames, resident <- Resident, Owned <- {}

(* Whatever the policy, access is demand paging: pages come in one at a    *)
(* time when accessed, and one goes exactly when no frame is free.         *)
PagingSpec == Abstract!Spec
=============================================================================
