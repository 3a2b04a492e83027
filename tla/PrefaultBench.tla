---------------------------- MODULE PrefaultBench ----------------------------
(***************************************************************************)
(* memlab/bench/prefault_bench.cpp, run_policy and the loop of main, with  *)
(* the percentiles of memlab/common/stats.hpp.  A latency is one of three: *)
(* 0 (never measured), Hit or Fault.                                       *)
(***************************************************************************)
EXTENDS VmemRegion, TLC

VARIABLES plan,          \* the policies left to run
          pg,            \* the next page
          latencies,
          faults,        \* minor_faults since before_faults
          result         \* the Percentiles of the last run

bench == <<plan, pg, latencies, faults, result>>

Hit == 1
Fault == 2
NoResult == [p50 |-> 0, p99 |-> 0, p999 |-> 0]

(* kRuns times each policy; a run depends on nothing that an earlier one   *)
(* left behind, so one of each will do.                                    *)
Plan == <<"Lazy", "EagerTouch", "MapPopulate">>

BenchInit(p) == plan = p /\ pg = 0 /\ latencies = <<>> /\ faults = 0 /\ result = NoResult

-----------------------------------------------------------------------------
(* Mutation: the rank is cut off, not rounded up. *)
PercentileFloor(sorted, permille) ==
    LET n == Len(sorted)
        rank == (permille * n) \div 1000
        idx == IF rank > 0 THEN rank - 1 ELSE 0
    IN  sorted[Least(idx, n - 1) + 1]

(* percentile_sorted, nearest rank; idx + 1 for sequences from 1. *)
Percentile(sorted, permille) ==
    LET n == Len(sorted)
        rank == (permille * n + 999) \div 1000
        idx == IF rank > 0 THEN rank - 1 ELSE 0
    IN  sorted[Least(idx, n - 1) + 1]

ComputePercentiles(samples) ==
    LET sorted == SortSeq(samples, <)
    IN  [p50 |-> Percentile(sorted, 500), p99 |-> Percentile(sorted, 990), p999 |-> Percentile(sorted, 999)]

-----------------------------------------------------------------------------
BeginRun ==
    /\ plan # <<>> /\ pg = 0
    /\ Construct(Head(plan), FALSE)
    /\ pg' = 1
    /\ latencies' = [x \in 1 .. Pages |-> 0]
    /\ faults' = Cardinality(touched')
    /\ UNCHANGED <<plan, result>>

(* Warm-up, then the timed loop: page pg - 1. *)
TouchPage ==
    /\ pg \in 1 .. Pages
    /\ Touch(pg - 1)
    /\ latencies' = IF pg <= WarmupPages THEN latencies
                    ELSE [latencies EXCEPT ![pg] = IF pg - 1 \in touched THEN Hit ELSE Fault]
    /\ faults' = faults + Cardinality(touched' \ touched)
    /\ pg' = pg + 1
    /\ UNCHANGED <<plan, result>>

(* The region goes out of scope, then the faults and latencies are read. *)
LeaveScope == pg > Pages /\ DestroyStop /\ UNCHANGED bench

EndRun ==
    /\ pg > Pages
    /\ Destroy
    /\ result' = ComputePercentiles(latencies)
    /\ plan' = Tail(plan)
    /\ pg' = 0
    /\ UNCHANGED <<latencies, faults>>

RunStep == BeginRun \/ TouchPage \/ LeaveScope \/ EndRun

-----------------------------------------------------------------------------
(* "Lazy: each touch here IS the first touch -> we see the fault cost.     *)
(* Eager/Populate: pages already faulted": the percentiles tell the two    *)
(* apart although the pages of the warm-up count in them as zeros, and     *)
(* every policy pays for each page once, at one time or another.           *)
LatencyTells ==
    call = "gone" /\ result # NoResult =>
      /\ faults = Pages
      /\ {result.p50, result.p99, result.p999} = {IF policy = "Lazy" THEN Fault ELSE Hit}
=============================================================================
