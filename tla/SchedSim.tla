------------------------------ MODULE SchedSim -------------------------------
(***************************************************************************)
(* memlab/sim/sched_sim_main.cpp, simulate: one CPU, one scheduler of      *)
(* module ReadyQueue, a list of processes.  One action per part of the     *)
(* body of its loop.  The CSV output and the averages are left out.        *)
(***************************************************************************)
EXTENDS ReadyQueue

CONSTANTS Jobs,          \* [arrival, priority, bursts] of a process
          Policies,      \* the schedulers to run
          CsCost,        \* cs.cost_ticks
          MaxTicks       \* max_ticks, "safety cap"

(* make_workload: CPU and I/O bursts alternate, of at least one tick, and  *)
(* the first is for the CPU.                                               *)
ASSUME JobsAssumption ==
         \A j \in Jobs : /\ j.bursts # <<>>
                         /\ \A i \in DOMAIN j.bursts :
                              /\ j.bursts[i].ticks > 0
                              /\ j.bursts[i].type = IF i % 2 = 1 THEN "CPU" ELSE "IO"

VARIABLES job, sched,
          state, curBurst, remaining, firstRun, finish,
          waiting,       \* the I/O queue of [proc, left]
          running,       \* 0 is nullptr
          ranTicks, tick,
          phase,         \* the part of the loop body that is next
          cpu            \* history: the ticks each process ran

procs == <<state, curBurst, remaining, firstRun, finish, cpu>>
vars == <<job, sched, procs, waiting, running, ranTicks, tick, phase>>

Never == -1     \* first_run's UINT32_MAX
BurstOf(p, i) == job[p].bursts[i]
LastBurst(p) == Len(job[p].bursts)

Init ==
    /\ job \in [Procs -> Jobs]
    /\ \E pol \in Policies : sched = New(pol)
    /\ state = [p \in Procs |-> "New"]
    /\ curBurst = [p \in Procs |-> 1]
    /\ remaining = [p \in Procs |-> BurstOf(p, 1).ticks]
    /\ firstRun = [p \in Procs |-> Never]
    /\ finish = [p \in Procs |-> 0]
    /\ cpu = [p \in Procs |-> 0]
    /\ waiting = <<>>
    /\ running = 0
    /\ ranTicks = 0
    /\ tick = 0
    /\ phase = "arrivals"

AllDone == \A p \in Procs : state[p] = "Terminated"

(* enqueue of each process of a sequence in turn. *)
EnqueueAll(s, ps) == FoldLeft(Add, s, ps)

Arrivals ==
    /\ phase = "arrivals"
    /\ ~AllDone
    /\ tick < MaxTicks
    /\ LET new == SelectSeq([i \in Procs |-> i], LAMBDA p : state[p] = "New" /\ job[p].arrival = tick)
       IN  /\ state' = [p \in Procs |-> IF p \in Range(new) THEN "Ready" ELSE state[p]]
           /\ sched' = EnqueueAll(sched, new)
    /\ phase' = "io"
    /\ UNCHANGED <<job, curBurst, remaining, firstRun, finish, cpu, waiting, running, ranTicks, tick>>

StillWaiting(aged) == SelectSeq(aged, LAMBDA w : w.left # 0)

(* The I/O that ends now: the process goes on with its next burst, or      *)
(* terminates if there is none.                                            *)
IoCompletions ==
    LET aged == [i \in DOMAIN waiting |-> [waiting[i] EXCEPT !.left = @ - 1]]
        ended == SelectSeq(aged, LAMBDA w : w.left = 0)
        back == [i \in DOMAIN ended |-> ended[i].proc]
        More(p) == curBurst[p] < LastBurst(p)
    IN  /\ phase = "io"
        /\ waiting' = StillWaiting(aged)
        /\ curBurst' = [p \in Procs |-> IF p \in Range(back) THEN curBurst[p] + 1 ELSE curBurst[p]]
        /\ remaining' = [p \in Procs |-> IF p \in Range(back) /\ More(p)
                                         THEN BurstOf(p, curBurst[p] + 1).ticks ELSE remaining[p]]
        /\ state' = [p \in Procs |-> IF p \notin Range(back) THEN state[p]
                                     ELSE IF More(p) THEN "Ready" ELSE "Terminated"]
        /\ finish' = [p \in Procs |-> IF p \in Range(back) /\ ~More(p) THEN tick ELSE finish[p]]
        /\ sched' = EnqueueAll(sched, SelectSeq(back, More))
        /\ phase' = "preempt"
        /\ UNCHANGED <<job, firstRun, cpu, running, ranTicks, tick>>

Expired == running # 0 /\ ShouldPreempt(sched, running, ranTicks, remaining)

Preempting(s, left, next) ==
    /\ phase = "preempt"
    /\ Expired
    /\ state' = [state EXCEPT ![running] = "Ready"]
    /\ sched' = s
    /\ remaining' = left
    /\ running' = next
    /\ ranTicks' = 0
    /\ phase' = "dispatch"
    /\ UNCHANGED <<job, curBurst, firstRun, finish, cpu, waiting, tick>>

(* Mutations: the process is not queued, is not taken off the CPU, starts  *)
(* its burst again.                                                        *)
PreemptLoses == Preempting(sched, remaining, 0)
PreemptKeeps == Preempting(Add(sched, running), remaining, running)
PreemptRestarts ==
    Preempting(Add(sched, running), [remaining EXCEPT ![running] = BurstOf(running, curBurst[running]).ticks], 0)

Preempt == Preempting(Add(sched, running), remaining, 0)

KeepRunning ==
    /\ phase = "preempt"
    /\ ~Expired
    /\ phase' = "dispatch"
    /\ UNCHANGED <<job, sched, procs, waiting, running, ranTicks, tick>>

(* pick_next and the switch.  Its cost makes the clock jump.               *)
Dispatch ==
    /\ phase = "dispatch"
    /\ running = 0
    /\ \E pick \in Picks(sched, remaining, [p \in Procs |-> job[p].priority]) :
         /\ sched' = pick.next
         /\ running' = pick.proc
         /\ state' = [state EXCEPT ![pick.proc] = "Running"]
         /\ tick' = tick + CsCost
         /\ firstRun' = [firstRun EXCEPT ![pick.proc] = IF @ = Never THEN tick' ELSE @]
    /\ ranTicks' = 0
    /\ phase' = "run"
    /\ UNCHANGED <<job, curBurst, remaining, finish, cpu, waiting>>

NoDispatch ==
    /\ phase = "dispatch"
    /\ running # 0 \/ Queued(sched) = {}
    /\ phase' = "run"
    /\ UNCHANGED <<job, sched, procs, waiting, running, ranTicks, tick>>

Idle ==
    /\ phase = "run"
    /\ running = 0
    /\ tick' = tick + 1
    /\ phase' = "arrivals"
    /\ UNCHANGED <<job, sched, procs, waiting, running, ranTicks>>

(* What the three outcomes of "Run one tick" share. *)
RunTick ==
    /\ phase = "run"
    /\ running # 0
    /\ cpu' = [cpu EXCEPT ![running] = @ + 1]
    /\ tick' = tick + 1
    /\ phase' = "arrivals"
    /\ UNCHANGED <<job, sched, firstRun>>

RunOn ==
    /\ RunTick
    /\ remaining[running] > 1
    /\ remaining' = [remaining EXCEPT ![running] = @ - 1]
    /\ ranTicks' = ranTicks + 1
    /\ UNCHANGED <<state, curBurst, finish, waiting, running>>

(* Mutation: finish is the tick instead of the one after it. *)
TerminateEarly ==
    /\ RunTick
    /\ remaining[running] = 1
    /\ curBurst[running] = LastBurst(running)
    /\ remaining' = [remaining EXCEPT ![running] = 0]
    /\ curBurst' = [curBurst EXCEPT ![running] = @ + 1]
    /\ state' = [state EXCEPT ![running] = "Terminated"]
    /\ finish' = [finish EXCEPT ![running] = tick]
    /\ running' = 0
    /\ ranTicks' = 0
    /\ UNCHANGED waiting

(* The burst is complete and the next one is I/O. *)
Block ==
    /\ RunTick
    /\ remaining[running] = 1
    /\ curBurst[running] < LastBurst(running)
    /\ LET next == BurstOf(running, curBurst[running] + 1).ticks
       IN  /\ remaining' = [remaining EXCEPT ![running] = next]
           /\ waiting' = Append(waiting, [proc |-> running, left |-> next])
    /\ curBurst' = [curBurst EXCEPT ![running] = @ + 1]
    /\ state' = [state EXCEPT ![running] = "Waiting"]
    /\ running' = 0
    /\ ranTicks' = 0
    /\ UNCHANGED finish

Terminate ==
    /\ RunTick
    /\ remaining[running] = 1
    /\ curBurst[running] = LastBurst(running)
    /\ remaining' = [remaining EXCEPT ![running] = 0]
    /\ curBurst' = [curBurst EXCEPT ![running] = @ + 1]
    /\ state' = [state EXCEPT ![running] = "Terminated"]
    /\ finish' = [finish EXCEPT ![running] = tick + 1]
    /\ running' = 0
    /\ ranTicks' = 0
    /\ UNCHANGED waiting

(* The loop has ended. *)
Done ==
    /\ phase = "arrivals"
    /\ AllDone \/ tick >= MaxTicks
    /\ UNCHANGED vars

Body == \/ Arrivals \/ IoCompletions \/ Preempt \/ KeepRunning \/ Dispatch \/ NoDispatch
        \/ Idle \/ RunOn \/ Block \/ Terminate

Next == Body \/ Done

Spec == Init /\ [][Next]_vars

(* simulate is a loop on one thread: it goes on while it can. *)
FairSpec == Spec /\ WF_vars(Body)

-----------------------------------------------------------------------------
(* The variables have their types; no I/O of zero ticks is ever waited for. *)
TypeOK ==
    /\ sched.q \in [1 .. 3 -> Seq(Procs)] /\ sched.level \in [Procs -> 0 .. 2]
    /\ state \in [Procs -> {"New", "Ready", "Running", "Waiting", "Terminated"}]
    /\ \A p \in Procs : curBurst[p] \in 1 .. LastBurst(p) + 1 /\ remaining[p] \in Nat
    /\ firstRun \in [Procs -> Nat \cup {Never}] /\ finish \in [Procs -> Nat] /\ cpu \in [Procs -> Nat]
    /\ waiting \in Seq([proc : Procs, left : Nat \ {0}])
    /\ running \in Procs \cup {0} /\ ranTicks \in Nat /\ tick \in Nat
    /\ phase \in {"arrivals", "io", "preempt", "dispatch", "run"}

QueuesExact ==
    LET ready == sched.q[1] \o sched.q[2] \o sched.q[3]
        blocked == [i \in DOMAIN waiting |-> waiting[i].proc]
    IN  /\ TypeOK
        /\ IsInjective(ready) /\ IsInjective(blocked)
        /\ \A p \in Procs : /\ state[p] = "Ready" <=> p \in Range(ready)
                            /\ state[p] = "Waiting" <=> p \in Range(blocked)
                            /\ state[p] = "Running" <=> p = running

TicksOf(p, type, bursts) ==
    FoldFunctionOnSet(+, 0, [i \in bursts |-> IF BurstOf(p, i).type = type THEN BurstOf(p, i).ticks ELSE 0], bursts)

(* A process is where its state says and nowhere else: in the ready        *)
(* structure, in the I/O queue or on the CPU, and there once.  No CPU time *)
(* is lost or granted twice across preemptions and I/O: what a process ran *)
(* and what is left of its CPU bursts make up the total.  The              *)
(* turnaround it reports covers its CPU bursts and its I/O; an I/O burst   *)
(* of k ticks keeps it off the CPU for k - 1 ticks only (it is counted     *)
(* down before the first tick after it began).                             *)
WorkConserved ==
    /\ QueuesExact
    /\ \A p \in Procs :
         LET ahead == {i \in DOMAIN job[p].bursts : i > curBurst[p]}
             here == IF state[p] \in {"Waiting", "Terminated"} THEN 0 ELSE remaining[p]
         IN  cpu[p] + here + TicksOf(p, "CPU", ahead) = TicksOf(p, "CPU", DOMAIN job[p].bursts)
    /\ \A p \in Procs : state[p] = "Terminated" =>
         LET io == {i \in DOMAIN job[p].bursts : BurstOf(p, i).type = "IO"}
         IN  /\ finish[p] - job[p].arrival >= TicksOf(p, "CPU", DOMAIN job[p].bursts) + TicksOf(p, "IO", io) - Cardinality(io)
             /\ job[p].arrival <= firstRun[p] /\ firstRun[p] < finish[p]

(* "A new arrival with shorter burst preempts the running process"         *)
(* (srtf.hpp): whenever a tick is run, no ready process is closer to the   *)
(* end of its burst than the running one.                                  *)
RunsShortest ==
    sched.policy = "SRTF" /\ phase = "run" /\ running # 0
      => \A p \in Queued(sched) : remaining[running] <= remaining[p]

(* simulate ends because all processes have terminated; MaxTicks is only a *)
(* "safety cap".                                                           *)
EveryoneFinishes == <>AllDone
=============================================================================
