--------------------------- MODULE BenchConstants ----------------------------
(***************************************************************************)
(* The compile-time constants of the programs of memlab/bench and of the   *)
(* region they measure.                                                    *)
(***************************************************************************)
EXTENDS Integers, Sequences

CONSTANTS Sweep,         \* the thread counts that a benchmark's main goes through
          Items,         \* kTotalItems
          Ops,           \* kOpsPerThread, kAllocsPerThread
          Blocks,        \* what malloc can return; it does not fail
          CacheSize,     \* kTLSCacheSize
          RoundTrips,    \* kRoundTrips
          Policies,      \* the PrefaultPolicy values
          Pages,         \* kRegionBytes in pages, the size of a region
          PageSize,      \* page_size()
          Watermark,     \* kWatermarkPages
          Marks,         \* the bytes that callers of advance_hwm report
          WarmupPages    \* kWarmupPages

NoBlock == 0

ASSUME SweepAssumption == Sweep \in Seq(Nat \ {0}) /\ Sweep # <<>>
ASSUME LoopsAssumption == Items \in Nat /\ Ops \in Nat /\ CacheSize \in Nat /\ RoundTrips \in Nat
ASSUME BlocksAssumption == NoBlock \notin Blocks
ASSUME PagesAssumption == Pages \in Nat \ {0} /\ PageSize \in Nat \ {0} /\ Watermark \in Nat /\ WarmupPages \in 0 .. Pages
ASSUME MarksAssumption == Marks \subseteq Nat
ASSUME PoliciesAssumption == {"Lazy", "EagerTouch", "MapPopulate"} \subseteq Policies
=============================================================================
