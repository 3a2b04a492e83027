---------------------------- MODULE OSScheduler -----------------------------
(***************************************************************************)
(* include/Scheduler.hpp and include/Process.hpp over                      *)
(* include/BuddyAllocator.hpp: a round-robin scheduler that admits a       *)
(* process once the buddy allocator grants its memory.                     *)
(*                                                                         *)
(* The simulation is one thread, Sim.  It calls the allocator of module    *)
(* BuddyAllocator as it is, with its own steps; the scheduler goes on when *)
(* the call returns.  Event logging is left out.                           *)
(***************************************************************************)
EXTENDS Integers, Sequences, Functions, FiniteSetsExt, SequencesExt

CONSTANTS N,             \* the number of processes, added in the order 1 .. N
          Jobs,          \* [arrivalTick, memoryRequest, bursts] of a process
          Quantum,       \* quantum_
          MaxTicks,      \* Run's maxTicks
          Sim, NoThread, MaxOrder, BlockSize, Base

Procs == 1 .. N

(* OSSimDemo: "Last burst never has an I/O tail, so the process can         *)
(* terminate".                                                              *)
ASSUME JobsAssumption ==
         \A j \in Jobs : j.bursts # <<>> /\ Last(j.bursts).io = 0 /\ \A i \in DOMAIN j.bursts : j.bursts[i].cpu > 0
ASSUME QuantumAssumption == N \in Nat /\ Quantum \in Nat \ {0} /\ MaxTicks \in Nat \ {0}

VARIABLES freeLists, live, mutex, pc, order, level, ptr   \* the allocator

VARIABLES job,           \* what each process was created with
          state,         \* Process::state
          mem,           \* memPtr and memBlockSize, as [ptr, size]
          currentBurst, remainingCpu, remainingIo,
          readyQueue, waitingList,
          tick,
          phase,         \* the part of Run's loop body that is next
          cur            \* the process that part is about

alloc == <<freeLists, live, mutex, pc, order, level, ptr>>
procs == <<state, mem, currentBurst, remainingCpu, remainingIo>>
vars == <<alloc, job, procs, readyQueue, waitingList, tick, phase, cur>>

B == INSTANCE BuddyAllocator WITH
       Threads <- {Sim}, Sizes <- {j.memoryRequest : j \in Jobs}

NoMem == [ptr |-> 0, size |-> 0]

Init ==
    /\ B!Init
    /\ job \in [Procs -> Jobs]
    /\ state = [p \in Procs |-> "NEW"]
    /\ mem = [p \in Procs |-> NoMem]
    /\ currentBurst = [p \in Procs |-> 1]
    /\ remainingCpu = [p \in Procs |-> 0]
    /\ remainingIo = [p \in Procs |-> 0]
    /\ readyQueue = <<>>
    /\ waitingList = <<>>
    /\ tick = 0
    /\ phase = "admit"
    /\ cur = 1

(* AdmitPendingProcesses: not NEW, not arrived yet, or a request that       *)
(* Allocate turns down at once; the next process.                           *)
AdmitSkip ==
    /\ phase = "admit"
    /\ cur \in Procs
    /\ \/ state[cur] # "NEW"
       \/ job[cur].arrivalTick > tick
       \/ B!GetOrder(job[cur].memoryRequest) \notin B!Orders
    /\ cur' = cur + 1
    /\ UNCHANGED <<alloc, job, procs, readyQueue, waitingList, tick, phase>>

AdmitCall ==
    /\ phase = "admit"
    /\ cur \in Procs
    /\ state[cur] = "NEW"
    /\ job[cur].arrivalTick <= tick
    /\ B!AllocateCall(Sim, job[cur].memoryRequest)
    /\ phase' = "alloc"
    /\ UNCHANGED <<job, procs, readyQueue, waitingList, tick, cur>>

(* Inside the allocator. *)
AllocatorRuns ==
    /\ phase \in {"alloc", "free"}
    /\ \/ B!AllocateLock(Sim) \/ B!AllocatePop(Sim) \/ B!AllocateDeeper(Sim) \/ B!AllocateSplit(Sim)
       \/ B!FreeLock(Sim) \/ B!FreeMerge(Sim)
    /\ UNCHANGED <<job, procs, readyQueue, waitingList, tick, phase, cur>>

(* Allocate returned nullptr: the process stays NEW. *)
AdmitLater ==
    /\ phase = "alloc"
    /\ B!AllocateNull(Sim)
    /\ phase' = "admit"
    /\ cur' = cur + 1
    /\ UNCHANGED <<job, procs, readyQueue, waitingList, tick>>

(* Allocate returned a block: READY, at the back of the queue. *)
Admit ==
    /\ phase = "alloc"
    /\ B!AllocateReturn(Sim)
    /\ mem' = [mem EXCEPT ![cur] = [ptr |-> ptr[Sim], size |-> B!BlockSizeForRequest(job[cur].memoryRequest)]]
    /\ state' = [state EXCEPT ![cur] = "READY"]
    /\ readyQueue' = Append(readyQueue, cur)
    /\ phase' = "admit"
    /\ cur' = cur + 1
    /\ UNCHANGED <<job, currentBurst, remainingCpu, remainingIo, waitingList, tick>>

(* Mutation: a process whose I/O is over is not taken off the waiting list. *)
ServiceIoQueueKeeps ==
    LET Left(p) == remainingIo[p] - 1
        Over(p) == Left(p) <= 0
    IN  /\ phase = "admit" /\ cur > N
        /\ remainingIo' = [p \in Procs |-> IF p \in Range(waitingList) THEN Left(p) ELSE remainingIo[p]]
        /\ state' = [p \in Procs |-> IF p \in Range(waitingList) /\ Over(p) THEN "READY" ELSE state[p]]
        /\ readyQueue' = readyQueue \o SelectSeq(waitingList, Over)
        /\ phase' = "cpu"
        /\ UNCHANGED <<alloc, job, mem, currentBurst, remainingCpu, waitingList, tick, cur>>

(* ServiceIoQueue: one tick of every I/O; finished processes are READY, in  *)
(* the order of the waiting list.                                           *)
ServiceIoQueue ==
    LET Left(p) == remainingIo[p] - 1
        Over(p) == Left(p) <= 0
        Waits(p) == ~ Over(p)
    IN  /\ phase = "admit" /\ cur > N
        /\ remainingIo' = [p \in Procs |-> IF p \in Range(waitingList) THEN Left(p) ELSE remainingIo[p]]
        /\ state' = [p \in Procs |-> IF p \in Range(waitingList) /\ Over(p) THEN "READY" ELSE state[p]]
        /\ readyQueue' = readyQueue \o SelectSeq(waitingList, Over)
        /\ waitingList' = SelectSeq(waitingList, Waits)
        /\ phase' = "cpu"
        /\ UNCHANGED <<alloc, job, mem, currentBurst, remainingCpu, tick, cur>>

CpuIdle ==
    /\ phase = "cpu"
    /\ readyQueue = <<>>
    /\ phase' = "check"
    /\ UNCHANGED <<alloc, job, procs, readyQueue, waitingList, tick, cur>>

(* RunOneCpuSlice up to the end of the slice: the head of the queue, its    *)
(* burst, and what is left of the burst afterwards.                         *)
BurstOf(p) == job[p].bursts[currentBurst[p]]
LeftAfterSlice(p) ==
    LET r == IF remainingCpu[p] <= 0 THEN BurstOf(p).cpu ELSE remainingCpu[p]
    IN  r - Min({Quantum, r})

(* The quantum expires: back of the queue. *)
Preempt ==
    LET p == Head(readyQueue)
    IN  /\ phase = "cpu" /\ readyQueue # <<>>
        /\ LeftAfterSlice(p) > 0
        /\ remainingCpu' = [remainingCpu EXCEPT ![p] = LeftAfterSlice(p)]
        /\ readyQueue' = Append(Tail(readyQueue), p)
        /\ state' = [state EXCEPT ![p] = "READY"]
        /\ phase' = "check"
        /\ UNCHANGED <<alloc, job, mem, currentBurst, remainingIo, waitingList, tick, cur>>

(* The burst is over and I/O follows it. *)
RequestIo ==
    LET p == Head(readyQueue)
    IN  /\ phase = "cpu" /\ readyQueue # <<>>
        /\ LeftAfterSlice(p) = 0 /\ BurstOf(p).io > 0
        /\ remainingCpu' = [remainingCpu EXCEPT ![p] = 0]
        /\ remainingIo' = [remainingIo EXCEPT ![p] = BurstOf(p).io]
        /\ currentBurst' = [currentBurst EXCEPT ![p] = @ + 1]
        /\ state' = [state EXCEPT ![p] = "WAITING"]
        /\ readyQueue' = Tail(readyQueue)
        /\ waitingList' = Append(waitingList, p)
        /\ phase' = "check"
        /\ UNCHANGED <<alloc, job, mem, tick, cur>>

(* The burst is over, no I/O, another burst follows. *)
NextBurst ==
    LET p == Head(readyQueue)
    IN  /\ phase = "cpu" /\ readyQueue # <<>>
        /\ LeftAfterSlice(p) = 0 /\ BurstOf(p).io = 0
        /\ currentBurst[p] < Len(job[p].bursts)
        /\ remainingCpu' = [remainingCpu EXCEPT ![p] = 0]
        /\ currentBurst' = [currentBurst EXCEPT ![p] = @ + 1]
        /\ state' = [state EXCEPT ![p] = "READY"]
        /\ readyQueue' = Append(Tail(readyQueue), p)
        /\ phase' = "check"
        /\ UNCHANGED <<alloc, job, mem, remainingIo, waitingList, tick, cur>>

(* Mutation: a finished process keeps its memory. *)
ExitLeaks ==
    LET p == Head(readyQueue)
    IN  /\ phase = "cpu" /\ readyQueue # <<>>
        /\ LeftAfterSlice(p) = 0 /\ BurstOf(p).io = 0
        /\ currentBurst[p] = Len(job[p].bursts)
        /\ remainingCpu' = [remainingCpu EXCEPT ![p] = 0]
        /\ currentBurst' = [currentBurst EXCEPT ![p] = @ + 1]
        /\ state' = [state EXCEPT ![p] = "TERMINATED"]
        /\ readyQueue' = Tail(readyQueue)
        /\ phase' = "check"
        /\ UNCHANGED <<alloc, job, mem, remainingIo, waitingList, tick, cur>>

(* The last burst is over: RUNNING while Free(memPtr, memBlockSize) runs.   *)
Exit ==
    LET p == Head(readyQueue)
    IN  /\ phase = "cpu" /\ readyQueue # <<>>
        /\ LeftAfterSlice(p) = 0 /\ BurstOf(p).io = 0
        /\ currentBurst[p] = Len(job[p].bursts)
        /\ \E b \in live : /\ b.ptr = mem[p].ptr
                           /\ b.order = B!GetOrder(mem[p].size)
                           /\ B!FreeCall(Sim, b)
        /\ remainingCpu' = [remainingCpu EXCEPT ![p] = 0]
        /\ currentBurst' = [currentBurst EXCEPT ![p] = @ + 1]
        /\ state' = [state EXCEPT ![p] = "RUNNING"]
        /\ readyQueue' = Tail(readyQueue)
        /\ phase' = "free"
        /\ cur' = p
        /\ UNCHANGED <<job, mem, remainingIo, waitingList, tick>>

(* Free returned: TERMINATED. *)
Terminate ==
    /\ phase = "free"
    /\ B!FreePush(Sim)
    /\ state' = [state EXCEPT ![cur] = "TERMINATED"]
    /\ phase' = "check"
    /\ UNCHANGED <<job, mem, currentBurst, remainingCpu, remainingIo, readyQueue, waitingList, tick, cur>>

AllTerminated == \A p \in Procs : state[p] = "TERMINATED"

(* The end of Run's loop body. *)
EndTick ==
    /\ phase = "check"
    /\ tick' = IF AllTerminated THEN tick ELSE tick + 1
    /\ phase' = IF AllTerminated \/ tick + 1 = MaxTicks THEN "done" ELSE "admit"
    /\ cur' = 1
    /\ UNCHANGED <<alloc, job, procs, readyQueue, waitingList>>

(* Run has returned. *)
Done == phase = "done" /\ UNCHANGED vars

Next ==
    \/ AdmitSkip \/ AdmitCall \/ AllocatorRuns \/ AdmitLater \/ Admit
    \/ ServiceIoQueue
    \/ CpuIdle \/ Preempt \/ RequestIo \/ NextBurst \/ Exit \/ Terminate
    \/ EndTick \/ Done

Spec == Init /\ [][Next]_vars

(* The simulation is one running thread. *)
FairSpec == Spec /\ WF_vars(Next)

-----------------------------------------------------------------------------
Admitted == {p \in Procs : state[p] \in {"READY", "RUNNING", "WAITING"}}

(* The variables have their types, and no burst beyond the last is run.     *)
TypeOK ==
    /\ B!TypeOK
    /\ state \in [Procs -> {"NEW", "READY", "RUNNING", "WAITING", "TERMINATED"}]
    /\ mem \in [Procs -> [ptr : Nat, size : Nat]]
    /\ \A p \in Procs : state[p] \in {"READY", "WAITING"} => currentBurst[p] \in DOMAIN job[p].bursts
    /\ \A p \in Procs : remainingCpu[p] >= 0
    /\ tick \in 0 .. MaxTicks
    /\ phase \in {"admit", "alloc", "cpu", "free", "check", "done"}
    /\ cur \in 1 .. N + 1

QueuesExact ==
    /\ TypeOK
    /\ IsInjective(readyQueue) /\ IsInjective(waitingList)
    /\ Range(readyQueue) = {p \in Procs : state[p] = "READY"}
    /\ Range(waitingList) = {p \in Procs : state[p] = "WAITING"}

(* A process has memory exactly from its admission to the Free that ends    *)
(* it: the allocator's live blocks are those of the admitted processes, one *)
(* each, at least as large as the request.  The ready queue and the waiting *)
(* list hold exactly the READY and the WAITING processes, each once.  When  *)
(* the last process has terminated the arena is one free block again.  This *)
(* is on a base that is aligned to the arena: on a page-aligned one merging *)
(* may go wrong (MergesToLowerAddress of module BuddyAllocator).            *)
MemoryMatchesState ==
    LET holders == {p \in Admitted : phase # "free" \/ p # cur}
    IN  /\ QueuesExact
        /\ live = {[ptr |-> mem[p].ptr, order |-> B!GetOrder(mem[p].size)] : p \in holders}
        /\ \A p, q \in holders : p # q => mem[p].ptr # mem[q].ptr
        /\ \A p \in holders : mem[p].size >= job[p].memoryRequest
        /\ AllTerminated => freeLists = [k \in B!Orders |-> IF k = MaxOrder THEN <<Base>> ELSE <<>>]

(* Run returns, and by then every process whose request fits in the arena   *)
(* has been admitted and has terminated, although memory is short on the    *)
(* way and some process may ask for more than there is: that one stays NEW, *)
(* holds nobody up, and maxTicks, the "safety valve against infinite loops" *)
(* of Run's comment, ends the loop.                                         *)
EveryoneFinishes ==
    <>(phase = "done" /\ \A p \in Procs :
          state[p] = IF B!GetOrder(job[p].memoryRequest) \in B!Orders THEN "TERMINATED" ELSE "NEW")
=============================================================================
