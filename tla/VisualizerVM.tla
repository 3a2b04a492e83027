----------------------------- MODULE VisualizerVM ----------------------------
(***************************************************************************)
(* memlab/sim/visualizer_demo.cpp: class VirtualMemorySystem, and the two  *)
(* things main does with it: the memory access of a tick and the release   *)
(* of a process's frames.  The trace is left out.                          *)
(***************************************************************************)
EXTENDS Integers, Sequences, Functions, FiniteSetsExt, SequencesExt

CONSTANTS N,             \* the processes are 1 .. N
          Vpns,
          Frames,        \* NUM_PHYSICAL_FRAMES
          TlbSize        \* TLB_SIZE

VARIABLES frameOwner,    \* pfn -> pid, Free for -1
          frameVpn,
          fifoFrames,    \* fifo_frames
          pageTable,     \* (pid, vpn) -> [pfn, valid]; not valid when there is no entry
          tlb, tlbIdx

vars == <<frameOwner, frameVpn, fifoFrames, pageTable, tlb, tlbIdx>>

Free == 0
Pids == 1 .. N
Pfns == 0 .. Frames - 1
Pages == Pids \X Vpns
Entry == [page : (Pids \cup {Free}) \X Vpns, pfn : Pfns, valid : BOOLEAN]

Init ==
    /\ frameOwner = [f \in Pfns |-> Free]
    /\ frameVpn \in [Pfns -> {Min(Vpns)}]
    /\ fifoFrames = <<>>
    /\ pageTable = [page \in Pages |-> [pfn |-> 0, valid |-> FALSE]]
    /\ tlb = [i \in 1 .. TlbSize |-> [page |-> <<Free, Min(Vpns)>>, pfn |-> 0, valid |-> FALSE]]
    /\ tlbIdx = 1

LookupTlb(page) == \E i \in DOMAIN tlb : tlb[i].valid /\ tlb[i].page = page

(* update_tlb, on the TLB t. *)
UpdateTlb(t, page, pfn) ==
    /\ tlb' = [t EXCEPT ![tlbIdx] = [page |-> page, pfn |-> pfn, valid |-> TRUE]]
    /\ tlbIdx' = IF tlbIdx = TlbSize THEN 1 ELSE tlbIdx + 1

InvalidateTlb(gone) == [i \in DOMAIN tlb |-> IF gone[i] THEN [tlb[i] EXCEPT !.valid = FALSE] ELSE tlb[i]]
InvalidateTlbForPid(p) == InvalidateTlb([i \in DOMAIN tlb |-> tlb[i].page[1] = p])

(* Mutation: nothing is invalidated. *)
InvalidateTlbForPfnNothing(f) == tlb

InvalidateTlbForPfn(f) == InvalidateTlb([i \in DOMAIN tlb |-> tlb[i].pfn = f])

TlbHit(page) ==
    /\ LookupTlb(page)
    /\ UNCHANGED vars

PageTableHit(page) ==
    /\ ~LookupTlb(page)
    /\ pageTable[page].valid
    /\ UpdateTlb(tlb, page, pageTable[page].pfn)
    /\ UNCHANGED <<frameOwner, frameVpn, fifoFrames, pageTable>>

PageFault(page) ==
    /\ ~LookupTlb(page)
    /\ ~pageTable[page].valid

(* Mutation: the frame is not queued for replacement. *)
LoadPageUnqueued(page, f, fifo, table, t) ==
    /\ frameOwner' = [frameOwner EXCEPT ![f] = page[1]]
    /\ frameVpn' = [frameVpn EXCEPT ![f] = page[2]]
    /\ fifoFrames' = fifo
    /\ pageTable' = [table EXCEPT ![page] = [pfn |-> f, valid |-> TRUE]]
    /\ UpdateTlb(t, page, f)

(* The end of a fault: the page goes to frame f, with the queue, the page  *)
(* table and the TLB that the choice of f left.                            *)
LoadPage(page, f, fifo, table, t) ==
    /\ frameOwner' = [frameOwner EXCEPT ![f] = page[1]]
    /\ frameVpn' = [frameVpn EXCEPT ![f] = page[2]]
    /\ fifoFrames' = Append(fifo, f)
    /\ pageTable' = [table EXCEPT ![page] = [pfn |-> f, valid |-> TRUE]]
    /\ UpdateTlb(t, page, f)

(* Mutation: the loop stops one frame early. *)
FreePfnsShort == {f \in Pfns : f < Frames - 1 /\ frameOwner[f] = Free}

(* What find_free_frame looks for. *)
FreePfns == {f \in Pfns : frameOwner[f] = Free}

FaultFree(page) ==
    /\ PageFault(page)
    /\ FreePfns # {}
    /\ LoadPage(page, Min(FreePfns), fifoFrames, pageTable, tlb)

(* Page replacement takes the front of the queue. *)
FaultEvict(page) ==
    LET f == Head(fifoFrames)
    IN  /\ PageFault(page)
        /\ FreePfns = {}
        /\ LoadPage(page, f, Tail(fifoFrames),
                    [pageTable EXCEPT ![<<frameOwner[f], frameVpn[f]>>].valid = FALSE], InvalidateTlbForPfn(f))

(* "Free frames on process termination": the queue and the page table keep *)
(* what they have of the process.                                          *)
Release(p) ==
    /\ frameOwner' = [f \in Pfns |-> IF frameOwner[f] = p THEN Free ELSE frameOwner[f]]
    /\ tlb' = InvalidateTlbForPid(p)
    /\ UNCHANGED <<frameVpn, fifoFrames, pageTable, tlbIdx>>

-----------------------------------------------------------------------------
(* The variables have their types; tlb_idx stays inside the TLB.           *)
TypeOK ==
    /\ frameOwner \in [Pfns -> Pids \cup {Free}]
    /\ frameVpn \in [Pfns -> Vpns]
    /\ fifoFrames \in Seq(Pfns)
    /\ pageTable \in [Pages -> [pfn : Pfns, valid : BOOLEAN]]
    /\ tlb \in [1 .. TlbSize -> Entry] /\ tlbIdx \in 1 .. TlbSize

(* The three records of a mapping agree for the processes alive: a valid   *)
(* TLB entry is the page table's, a valid page table entry is the frame's  *)
(* own, and a frame is owned by such a process only.  Every frame in use   *)
(* is in the replacement queue, although those of terminated processes     *)
(* stay in it: fifo_frames.front() is defined whenever memory is full.     *)
MappingsAgree(alive) ==
    /\ TypeOK
    /\ \A i \in DOMAIN tlb : tlb[i].valid =>
         /\ tlb[i].page[1] \in alive
         /\ pageTable[tlb[i].page] = [pfn |-> tlb[i].pfn, valid |-> TRUE]
    /\ \A page \in alive \X Vpns : pageTable[page].valid =>
         frameOwner[pageTable[page].pfn] = page[1] /\ frameVpn[pageTable[page].pfn] = page[2]
    /\ \A f \in Pfns : frameOwner[f] # Free =>
         /\ frameOwner[f] \in alive
         /\ pageTable[<<frameOwner[f], frameVpn[f]>>] = [pfn |-> f, valid |-> TRUE]
         /\ f \in Range(fifoFrames)

(* The pages in memory. *)
Resident == {<<frameOwner[f], frameVpn[f]>> : f \in {g \in Pfns : frameOwner[g] # Free}}
=============================================================================
