---------------------------- MODULE MCOSScheduler ---------------------------
(* Instances of OSScheduler for TLC: an arena of four minimal blocks.      *)
EXTENDS OSScheduler

MCBlockSize == [k \in 0 .. MaxOrder |-> 2 * 2^k]

Bursts1 == <<[cpu |-> 3, io |-> 0]>>
Bursts2 == <<[cpu |-> 1, io |-> 2], [cpu |-> 2, io |-> 0]>>
Bursts3 == <<[cpu |-> 1, io |-> 0], [cpu |-> 1, io |-> 1], [cpu |-> 1, io |-> 0]>>

(* The last one asks for more than the arena has. *)
MCJobs ==
    [arrivalTick : {0, 2}, memoryRequest : {1, 3, 7}, bursts : {Bursts1, Bursts2, Bursts3}]
      \cup {[arrivalTick |-> 1, memoryRequest |-> 9, bursts |-> Bursts1]}
=============================================================================
