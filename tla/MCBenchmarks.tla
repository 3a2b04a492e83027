---------------------------- MODULE MCBenchmarks -----------------------------
EXTENDS Benchmarks

(* One thread, then three: 4 items do not divide by 3, and the barrier and *)
(* the caches are used a second time.                                      *)
SweepOf == <<1, 3>>
=============================================================================
