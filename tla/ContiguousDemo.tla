---------------------------- MODULE ContiguousDemo ---------------------------
(***************************************************************************)
(* memlab/sim/contiguous_demo.cpp, main: the loop of module SchedSim with  *)
(* round robin and no switch cost, where a process is admitted when module *)
(* FirstFit grants its memory, and waits in mem_wait until it does.  The   *)
(* demo does not set a running process's state; SchedSim's actions do.     *)
(*                                                                         *)
(* The trace goes to frontend/contiguous_events.json, which the page of    *)
(* module ContiguousPage replays: shown is that page when it has applied   *)
(* the trace so far.                                                       *)
(***************************************************************************)
EXTENDS SchedSim

CONSTANT Total

(* The demo's processes begin and end with a CPU burst: none terminates in *)
(* the loop over io_wait.                                                  *)
ASSUME DemoJobsAssumption == \A j \in Jobs : Len(j.bursts) % 2 = 1

VARIABLES blocks, live, \* the allocator
          allocs,       \* the block of each admitted process
          memWait,      \* mem_wait
          scan,         \* the loops over procs and mem_wait: what comes next
          shown

demoVars == <<vars, blocks, live, allocs, memWait, scan, shown>>
alloc == <<blocks, live, allocs>>
simulation == <<job, procs, waiting, running, ranTicks, tick>>

F == INSTANCE FirstFit WITH Sizes <- {j.mem : j \in Jobs}
W == INSTANCE ContiguousPage

(* Calls of trace.log. *)
Log(events) == shown' = FoldLeft(W!ApplyEvent, shown, events)
Event(type, p) == [type |-> type, pid |-> p]
Memory(type, p, b) == [type |-> type, pid |-> p, offset |-> b.ptr, size |-> b.size]

NoMem == [ptr |-> 0, size |-> 0]

DemoInit ==
    /\ Init
    /\ F!Init
    /\ allocs = [p \in Procs |-> NoMem]
    /\ memWait = <<>>
    /\ scan = 1
    /\ shown = W!Reset

(* try_admit, when Allocate has a block; created is what was logged before. *)
TryAdmit(p, created) ==
    /\ F!Allocate(job[p].mem)
    /\ allocs' = [allocs EXCEPT ![p] = CHOOSE b \in live' : b \notin live]
    /\ state' = [state EXCEPT ![p] = "Ready"]
    /\ sched' = Add(sched, p)
    /\ Log(created \o <<Memory("memory_allocated", p, allocs'[p]), Event("process_ready", p)>>)

Refused(p) == F!AllocateNull(job[p].mem) /\ UNCHANGED <<allocs, state, sched>>

Others == UNCHANGED <<job, curBurst, remaining, firstRun, finish, cpu, waiting, running, ranTicks, tick>>

Scanning(n) ==
    /\ phase = "arrivals"
    /\ n \in Procs
    /\ ~AllDone
    /\ tick < MaxTicks

Arriving(p) == state[p] = "New" /\ job[p].arrival = tick

ArriveSkip ==
    /\ Scanning(scan)
    /\ ~Arriving(scan)
    /\ scan' = scan + 1
    /\ UNCHANGED <<simulation, sched, phase, alloc, memWait, shown>>

ArriveAdmit ==
    /\ Scanning(scan)
    /\ Arriving(scan)
    /\ TryAdmit(scan, <<Event("process_created", scan)>>)
    /\ scan' = scan + 1
    /\ Others
    /\ UNCHANGED <<phase, memWait>>

ArriveWait ==
    /\ Scanning(scan)
    /\ Arriving(scan)
    /\ Refused(scan)
    /\ Log(<<Event("process_created", scan)>>)
    /\ memWait' = Append(memWait, scan)
    /\ scan' = scan + 1
    /\ Others
    /\ UNCHANGED phase

ArriveEnd ==
    /\ phase = "arrivals"
    /\ scan > N
    /\ phase' = "io"
    /\ scan' = 1
    /\ UNCHANGED <<simulation, sched, alloc, memWait, shown>>

(* The loop over mem_wait, between the I/O and the preemption. *)
MemWaitLoop == phase = "preempt" /\ scan <= Len(memWait)

MemWaitAdmit ==
    /\ MemWaitLoop
    /\ TryAdmit(memWait[scan], <<>>)
    /\ memWait' = RemoveAt(memWait, scan)
    /\ Others
    /\ UNCHANGED <<phase, scan>>

MemWaitKeep ==
    /\ MemWaitLoop
    /\ Refused(memWait[scan])
    /\ scan' = scan + 1
    /\ Others
    /\ UNCHANGED <<phase, memWait, shown>>

Logging(A, events) == A /\ UNCHANGED <<alloc, memWait, scan>> /\ Log(events)

IoAcknowledged ==
    LET back == SelectSeq(waiting, LAMBDA w : state[w.proc] # state'[w.proc])
        Ready(log, w) == log \o <<Event("io_ack", w.proc), Event("process_ready", w.proc)>>
    IN  Logging(IoCompletions, FoldLeft(Ready, <<>>, back))

Preemption ==
    /\ ~MemWaitLoop
    /\ Logging(Preempt, <<Event("process_ready", running)>>) \/ Logging(KeepRunning, <<>>)

Schedule == Logging(Dispatch, <<Event("process_scheduled", running')>>) \/ Logging(NoDispatch, <<>>)

(* The end of the loop body resets the scan. *)
RunLogging ==
    /\ \/ Idle /\ Log(<<>>)
       \/ RunOn /\ Log(<<Event("cpu_run", running)>>)
       \/ Block /\ Log(<<Event("cpu_run", running), Event("io_requested", running)>>)
    /\ scan' = 1
    /\ UNCHANGED <<alloc, memWait>>

(* Mutation: the memory is not freed. *)
TerminateLeaks == Terminate /\ scan' = 1 /\ UNCHANGED <<alloc, memWait, shown>>

(* The demo's allocs keeps the freed pointer, which nothing reads again;   *)
(* here it is dropped.                                                     *)
TerminateFree ==
    /\ Terminate
    /\ F!Free(allocs[running])
    /\ Log(<<Event("cpu_run", running), Memory("memory_freed", running, allocs[running]), Event("process_terminated", running)>>)
    /\ allocs' = [allocs EXCEPT ![running] = NoMem]
    /\ scan' = 1
    /\ UNCHANGED memWait

DemoBody == \/ ArriveSkip \/ ArriveAdmit \/ ArriveWait \/ ArriveEnd
            \/ IoAcknowledged \/ MemWaitAdmit \/ MemWaitKeep
            \/ Preemption \/ Schedule \/ RunLogging \/ TerminateFree

DemoDone == Done /\ UNCHANGED demoVars

DemoNext == DemoBody \/ DemoDone

(* One thread that goes on while it can. *)
DemoSpec == DemoInit /\ [][DemoNext]_demoVars /\ WF_demoVars(DemoBody)

-----------------------------------------------------------------------------
(* A process holds memory exactly while it is admitted and not terminated, *)
(* and the allocator counts the same blocks as in use: no block leaks and  *)
(* none is freed under a process.  The blocks, used and free, tile the     *)
(* arena.  A process that has arrived and got no memory is in mem_wait,    *)
(* once, and nothing else is: none is forgotten between the two loops.     *)
MemoryMatchesState ==
    /\ F!Tiling
    /\ \A p \in Procs : (allocs[p] # NoMem) <=> state[p] \in {"Ready", "Running", "Waiting"}
    /\ live = {allocs[p] : p \in Procs} \ {NoMem}
    /\ \A p, q \in Procs : p # q /\ allocs[p] # NoMem => allocs[p] # allocs[q]
    /\ IsInjective(memWait)
    /\ \A p \in Procs : p \in Range(memWait) <=>
          /\ state[p] = "New"
          /\ \/ job[p].arrival < tick
             \/ job[p].arrival = tick /\ (phase # "arrivals" \/ scan > p)

(* What the page shows when it has applied the trace is what the demo      *)
(* did: its blocks, chips and totals are those of the processes that hold  *)
(* memory, its free fragments are as many as the allocator's free blocks,  *)
(* and each process is in the lane of its state, in none while it waits    *)
(* for memory.                                                             *)
PageFollows ==
    LET holders == {p \in Procs : allocs[p] # NoMem}
        Lane(p) == CASE state[p] = "Ready" -> "READY" [] state[p] = "Running" -> "RUNNING"
                     [] state[p] = "Waiting" -> "WAITING" [] state[p] = "Terminated" -> "TERMINATED"
                     [] state[p] = "New" -> IF p \in Range(memWait) THEN "NEW" ELSE "none"
    IN  /\ Len(shown.occupied) = Cardinality(holders)
        /\ Range(shown.occupied) = {[offset |-> allocs[p].ptr, pid |-> p, size |-> allocs[p].size] : p \in holders}
        /\ \A p \in Procs : shown.block[p] = [offset |-> allocs[p].ptr, size |-> allocs[p].size]
        /\ W!CountFreeFragments(shown) = Cardinality({i \in DOMAIN blocks : blocks[i].free})
        /\ shown.statBytes = FoldFunctionOnSet(+, 0, [p \in Procs |-> allocs[p].size], holders)
        /\ shown.statAlloc - shown.statFree = Cardinality(holders)
        /\ \A p \in Procs : shown.state[p] = Lane(p)

(* An admission fails only when no run of free bytes is long enough: the   *)
(* frees of terminated processes, in whatever order, leave no free         *)
(* neighbours apart.                                                       *)
NullOnlyWhenNoRun == F!NullOnlyWhenNoRun

(* The demo never hands a byte to two processes: its allocator is a heap.  *)
HeapSpec == F!HeapSpec

(* Every process gets its memory and terminates, although smaller requests *)
(* may overtake a waiting one.                                             *)
EveryoneAdmitted == <>AllDone
=============================================================================
