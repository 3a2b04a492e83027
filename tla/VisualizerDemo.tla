---------------------------- MODULE VisualizerDemo ---------------------------
(***************************************************************************)
(* memlab/sim/visualizer_demo.cpp, main: the loop of module SchedSim with  *)
(* round robin and no switch cost, in which a running process accesses one *)
(* page of module VisualizerVM before each of its ticks.  The demo does    *)
(* not set a running process's state; SchedSim's actions do.               *)
(*                                                                         *)
(* The trace goes to frontend/events.json, which the page of module        *)
(* VirtualPage replays: shown is that page when it has applied the trace   *)
(* so far.                                                                 *)
(***************************************************************************)
EXTENDS SchedSim

CONSTANTS Segments,      \* proc_segments, the same for every process: sets of vpns
          Frames, TlbSize

(* The demo's processes begin and end with a CPU burst: the branch that    *)
(* ends a process after its I/O, and frees its frames there, is not taken. *)
ASSUME DemoJobsAssumption == \A j \in Jobs : Len(j.bursts) % 2 = 1

VARIABLES frameOwner, frameVpn, fifoFrames, pageTable, tlb, tlbIdx,
          accessed,      \* the memory access of this tick is done
          shown

memory == <<frameOwner, frameVpn, fifoFrames, pageTable, tlb, tlbIdx>>
demoVars == <<vars, memory, accessed, shown>>

Vpns == UNION Range(Segments)

V == INSTANCE VisualizerVM
W == INSTANCE VirtualPage

(* Calls of trace.log. *)
Log(events) == shown' = FoldLeft(W!ApplyEvent, shown, events)
Event(type, p) == [type |-> type, pid |-> p]

DemoInit == Init /\ V!Init /\ accessed = FALSE /\ shown = W!Reset

Quietly(A) == A /\ UNCHANGED <<memory, accessed, shown>>
Logging(A, events) == A /\ UNCHANGED <<memory, accessed>> /\ Log(events)

(* do_enqueue is called for these of the processes ps, in this order. *)
Enqueued(ps) == SelectSeq(ps, LAMBDA p : state[p] # "Ready" /\ state'[p] = "Ready")

LogCreated(p) ==
    <<Event("process_created", p)>>
      \o [s \in DOMAIN Segments |-> [type |-> "segment_created", pid |-> p, segment |-> s]]
      \o <<Event("process_ready", p)>>

ProcessArrivals ==
    LET Created(log, p) == log \o LogCreated(p)
    IN  Logging(Arrivals, FoldLeft(Created, <<>>, Enqueued([p \in Procs |-> p])))

IoAcknowledged ==
    LET Ready(log, p) == log \o <<Event("io_ack", p), Event("process_ready", p)>>
    IN  Logging(IoCompletions, FoldLeft(Ready, <<>>, Enqueued([i \in DOMAIN waiting |-> waiting[i].proc])))

Preemption == Logging(Preempt, <<Event("process_ready", running)>>)

Schedule == Logging(Dispatch, <<Event("process_scheduled", running')>>)

(* The segment follows the clock, the page within it is rng()'s. *)
TargetVpns == Segments[1 + ((tick + running) % Len(Segments))]

Hit(vpn) == V!TlbHit(<<running, vpn>>) /\ Log(<<Event("tlb_hit", running)>>)

Walk(vpn) ==
    /\ V!PageTableHit(<<running, vpn>>)
    /\ Log(<<Event("tlb_miss", running), Event("page_table_hit", running)>>)

LogFault(vpn, f, evicted) ==
    Log(<<Event("tlb_miss", running), Event("page_fault", running)>> \o evicted
          \o <<[type |-> "page_allocated", pid |-> running, vpn |-> vpn, pfn |-> f]>>)

Fault(vpn) ==
    /\ V!FaultFree(<<running, vpn>>)
    /\ LogFault(vpn, Min(V!FreePfns), <<>>)

Replace(vpn) ==
    LET f == Head(fifoFrames)
    IN  /\ V!FaultEvict(<<running, vpn>>)
        /\ LogFault(vpn, f, <<[type |-> "page_evicted", pid |-> running, pfn |-> f]>>)

MemoryAccess ==
    /\ phase = "run"
    /\ running # 0
    /\ ~accessed
    /\ \E vpn \in TargetVpns : Hit(vpn) \/ Walk(vpn) \/ Fault(vpn) \/ Replace(vpn)
    /\ accessed' = TRUE
    /\ UNCHANGED vars

Execute ==
    /\ accessed
    /\ \/ RunOn /\ Log(<<Event("cpu_run", running)>>)
       \/ Block /\ Log(<<Event("cpu_run", running), Event("io_requested", running)>>)
    /\ accessed' = FALSE
    /\ UNCHANGED memory

(* The frames of the process in the order of the loop that frees them. *)
LogFreed ==
    LET owned == SetToSortSeq({f \in V!Pfns : frameOwner[f] = running}, <)
    IN  [i \in DOMAIN owned |-> [type |-> "page_freed", pid |-> running, pfn |-> owned[i]]]

TerminateRelease ==
    /\ accessed
    /\ Terminate
    /\ V!Release(running)
    /\ Log(<<Event("cpu_run", running)>> \o LogFreed \o <<Event("process_terminated", running)>>)
    /\ accessed' = FALSE

DemoBody == \/ ProcessArrivals \/ IoAcknowledged \/ Preemption \/ Quietly(KeepRunning)
            \/ Schedule \/ Quietly(NoDispatch) \/ Quietly(Idle)
            \/ MemoryAccess \/ Execute \/ TerminateRelease

DemoNext == DemoBody \/ Quietly(Done)

DemoSpec == DemoInit /\ [][DemoNext]_demoVars

-----------------------------------------------------------------------------
(* Through preemptions, evictions of other processes' pages and processes  *)
(* that end, the TLB, the page table, the frames and the replacement queue *)
(* of the demo agree (VisualizerVM), and only processes that have run and  *)
(* not ended own frames.                                                   *)
MappingsAgree == V!MappingsAgree({p \in Procs : firstRun[p] # Never /\ state[p] # "Terminated"})

P == INSTANCE Paging WITH Pages <- V!Pages, Capacity <- Frames, resident <- V!Resident,
                          Owned <- {{p} \X Vpns : p \in Procs}

(* What the page shows when it has applied the trace is what the demo      *)
(* did: its frames are the demo's, each process is in the lane of its      *)
(* state with its segments, and a TLB slot it shows is a mapping that the  *)
(* page table has, once.  Only between a fault and the cpu_run of the same *)
(* tick is the running process shown as waiting.  (The page does not hear  *)
(* of the TLB's refills from the page table: it may show less than the     *)
(* demo's TLB holds.)                                                      *)
PageFollows ==
    LET used == {i \in 1 .. TlbSize : shown.tlb[i] # W!Null}
        Entry(i) == [page |-> SubSeq(shown.tlb[i], 1, 2), pfn |-> shown.tlb[i][3]]
        Lane(p) == CASE state[p] = "New" -> "none" [] state[p] = "Ready" -> "READY"
                     [] state[p] = "Running" -> "RUNNING" [] state[p] = "Waiting" -> "WAITING"
                     [] state[p] = "Terminated" -> "TERMINATED"
    IN  /\ shown.frames = [f \in V!Pfns |-> IF frameOwner[f] = V!Free THEN W!Null ELSE <<frameOwner[f], frameVpn[f]>>]
        /\ \A i \in used : pageTable[Entry(i).page] = [pfn |-> Entry(i).pfn, valid |-> TRUE]
        /\ \A i, j \in used : i # j => Entry(i).page # Entry(j).page
        /\ \A p \in Procs : shown.state[p] = Lane(p) \/ (accessed /\ p = running /\ shown.state[p] = "WAITING")
        /\ \A p \in Procs : shown.segments[p] = IF state[p] = "New" THEN <<>> ELSE [s \in DOMAIN Segments |-> s]

(* The demo's memory is demand paging: a page comes in when it is          *)
(* accessed, one goes exactly when no frame is free, and all pages of a    *)
(* process go at once when it ends.                                        *)
PagingSpec == P!Spec
=============================================================================
