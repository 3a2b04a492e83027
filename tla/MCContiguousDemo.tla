--------------------------- MODULE MCContiguousDemo --------------------------
(* ContiguousDemo for TLC: three processes that never all fit.             *)
EXTENDS ContiguousDemo

Cpu(n) == [type |-> "CPU", ticks |-> n]
Io(n) == [type |-> "IO", ticks |-> n]

MCJobs == [arrival : {0, 1}, priority : {0}, mem : {2, 3, 5}, bursts : {<<Cpu(3)>>, <<Cpu(1), Io(2), Cpu(1)>>}]

MCPolicies == {"RR"}
=============================================================================
