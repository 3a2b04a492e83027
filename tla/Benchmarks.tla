----------------------------- MODULE Benchmarks ------------------------------
(***************************************************************************)
(* The programs of memlab/bench, one at a time: the three that start       *)
(* threads together (BenchHarness), the ping-pong (PingPong), the prefault *)
(* benchmark (PrefaultBench), and any other user of a VmemRegion.          *)
(***************************************************************************)
EXTENDS BenchConstants, FiniteSets

Harness == {"scaling", "counters", "malloc", "mutex", "tls"}
Programs == Harness \cup {"ctx_switch", "prefault", "region"}

VARIABLES prog, sweep, pc, waiting, timing, k, hashed, counters, heap, held, cache, mtx, lost
VARIABLES mutex, turn, done, asleep, at, i
VARIABLES policy, base, size, locked, prefaulted, hwm, stop, build, alive, mapped, pinned, touched,
          owner, call, worker, off, target, failed
VARIABLES plan, pg, latencies, faults, result

harness == <<prog, sweep, pc, waiting, timing, k, hashed, counters, heap, held, cache, mtx, lost>>
pingPong == <<mutex, turn, done, asleep, at, i>>
region == <<policy, base, size, locked, prefaulted, hwm, stop, build, alive, mapped, pinned, touched,
            owner, call, worker, off, target, failed>>
prefault == <<plan, pg, latencies, faults, result>>
vars == <<harness, pingPong, region, prefault>>

H == INSTANCE BenchHarness WITH Programs <- Harness
P == INSTANCE PingPong
R == INSTANCE PrefaultBench

(* What is not started has nothing to do; the benchmarks start no worker,  *)
(* so that its build is the same to them.                                  *)
Init ==
    /\ prog \in Programs
    /\ H!Begin(IF prog \in Harness THEN Sweep ELSE <<>>)
    /\ P!Begin(IF prog = "ctx_switch" THEN "top" ELSE "exit")
    /\ prog = "region" \/ build = "loop"
    /\ R!Init /\ R!BenchInit(IF prog = "prefault" THEN R!Plan ELSE <<>>)

HarnessStep == H!Next /\ UNCHANGED <<pingPong, region, prefault>>
PingPongStep == P!Next /\ UNCHANGED <<harness, region, prefault>>
PrefaultStep == R!RunStep /\ UNCHANGED <<harness, pingPong>>
RegionStep == prog = "region" /\ R!Next /\ UNCHANGED <<harness, pingPong, prefault>>

Next == HarnessStep \/ PingPongStep \/ PrefaultStep \/ RegionStep

Spec == Init /\ [][Next]_vars

FairSpec == Spec /\ H!Fairness /\ P!Fairness /\ R!Fairness /\ WF_vars(PrefaultStep)

-----------------------------------------------------------------------------
(* The threads of a benchmark work while the timer runs, and do all of the *)
(* work once (BenchHarness).                                               *)
WorkTimed == H!WorkTimed

(* The three allocators share no block, and lose none but the ones that    *)
(* threads leave in their cache when they end, one each (BenchHarness).    *)
BlocksAccounted == H!BlocksAccounted

(* The condition variable of ctx_switch_bench wakes who may go on, and a   *)
(* turn is taken once (PingPong).                                          *)
TurnsTaken == P!TurnsTaken

(* A region is mapped while its owner lives, and its worker touches mapped *)
(* pages only, but for the time in which a move has cleared its base       *)
(* (VmemRegion).                                                           *)
TouchesMapped == R!TouchesMapped

(* What is reported as prefaulted is, but for a part of a page, as long as *)
(* no madvise has failed (VmemRegion).                                     *)
PrefaultedTouched == R!PrefaultedTouched

(* The worker gets ahead of the mark or a madvise fails (VmemRegion). *)
StaysAhead == R!StaysAhead

(* The prefault benchmark tells the policies apart (PrefaultBench). *)
LatencyTells == R!LatencyTells

(* Every benchmark's main returns: the barrier lets everyone go twice, the *)
(* mutex comes back, no thread is left waiting for its turn, and every     *)
(* thread is joined.  So do the destructor and the move constructor of a   *)
(* region, unless the worker crashes in the move (VmemRegion).             *)
CallsReturn == <>(pc[H!Main] = "exit" /\ at.ping = "exit" /\ plan = <<>>) /\ R!CallsReturn
=============================================================================
