------------------------------ MODULE MCSchedSim -----------------------------
(* Instances of SchedSim for TLC: workloads of make_workload scaled down.  *)
EXTENDS SchedSim

Cpu(n) == [type |-> "CPU", ticks |-> n]
Io(n) == [type |-> "IO", ticks |-> n]

MCJobs == [arrival : {0, 2}, priority : {1, 2}, bursts : {<<Cpu(3)>>, <<Cpu(1), Io(2), Cpu(2)>>, <<Cpu(2), Io(1)>>}]

(* The two of them arrive one tick apart. *)
MCJobsLate == [arrival : {0, 1}, priority : {1}, bursts : {<<Cpu(2)>>}]

MCPolicies == {"FCFS", "RR", "SJF", "SRTF", "Priority", "MLFQ"}
=============================================================================
