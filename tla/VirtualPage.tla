----------------------------- MODULE VirtualPage -----------------------------
(***************************************************************************)
(* frontend/virtual.html: the page that replays the trace of the           *)
(* visualizer demo.  A page is the record of the script's variables, and   *)
(* applyEvent an operator on it.  The four counters, the log and what the  *)
(* render functions draw are left out.                                     *)
(***************************************************************************)
EXTENDS Integers, Sequences

CONSTANTS N,             \* the pids are 1 .. N
          Frames,        \* NUM_FRAMES
          TlbSize        \* TLB_SIZE

Null == <<>>

(* The variables after reset().  A pid that is not in the map of processes *)
(* has no state.                                                           *)
Reset ==
    [frames |-> [f \in 0 .. Frames - 1 |-> Null],
     tlb |-> [i \in 1 .. TlbSize |-> Null],
     tlbPtr |-> 1,
     state |-> [p \in 1 .. N |-> "none"],
     segments |-> [p \in 1 .. N |-> <<>>]]

ProcessCreated(page, e) == [page EXCEPT !.state[e.pid] = "NEW", !.segments[e.pid] = <<>>]

(* This and the next one: "if (p) ...". *)
SegmentCreated(page, e) ==
    [page EXCEPT !.segments[e.pid] = IF page.state[e.pid] = "none" THEN @ ELSE Append(@, e.segment)]

SetState(page, pid, state) == [page EXCEPT !.state[pid] = IF @ = "none" THEN @ ELSE state]

(* "Add to TLB (FIFO)". *)
PageAllocated(page, e) ==
    [page EXCEPT !.frames[e.pfn] = <<e.pid, e.vpn>>,
                 !.tlb[page.tlbPtr] = <<e.pid, e.vpn, e.pfn>>,
                 !.tlbPtr = IF @ = TlbSize THEN 1 ELSE @ + 1]

(* Mutation: the TLB keeps the page that is evicted. *)
PageEvictedKeepsTlb(page, e) == [page EXCEPT !.frames[e.pfn] = Null]

PageEvicted(page, e) ==
    [page EXCEPT !.frames[e.pfn] = Null,
                 !.tlb = [i \in DOMAIN @ |-> IF @[i] # Null /\ @[i][3] = e.pfn THEN Null ELSE @[i]]]

PageFreed(page, e) == [page EXCEPT !.frames[e.pfn] = Null]

ProcessTerminated(page, e) ==
    [SetState(page, e.pid, "TERMINATED") EXCEPT
       !.tlb = [i \in DOMAIN @ |-> IF @[i] # Null /\ @[i][1] = e.pid THEN Null ELSE @[i]]]

(* Events without a case, and those that only count, change nothing. *)
ApplyEvent(page, e) ==
    CASE e.type = "process_created" -> ProcessCreated(page, e)
      [] e.type = "segment_created" -> SegmentCreated(page, e)
      [] e.type = "process_ready" -> SetState(page, e.pid, "READY")
      [] e.type \in {"process_scheduled", "cpu_run"} -> SetState(page, e.pid, "RUNNING")
      [] e.type \in {"io_requested", "page_fault"} -> SetState(page, e.pid, "WAITING")
      [] e.type = "page_allocated" -> PageAllocated(page, e)
      [] e.type = "page_evicted" -> PageEvicted(page, e)
      [] e.type = "page_freed" -> PageFreed(page, e)
      [] e.type = "process_terminated" -> ProcessTerminated(page, e)
      [] OTHER -> page
=============================================================================
