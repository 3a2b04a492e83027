--------------------------- MODULE MCVisualizerDemo --------------------------
(* VisualizerDemo for TLC: three processes of three pages in two segments,  *)
(* and fewer frames than two processes need.                               *)
EXTENDS VisualizerDemo

Cpu(n) == [type |-> "CPU", ticks |-> n]
Io(n) == [type |-> "IO", ticks |-> n]

MCJobs == [arrival : {0, 5}, priority : {0}, bursts : {<<Cpu(4)>>, <<Cpu(2), Io(2), Cpu(2)>>}]
MCPolicies == {"RR"}
MCSegments == <<{0}, {1, 2}>>
=============================================================================
