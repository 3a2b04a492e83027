----------------------------- MODULE ReadyQueue ------------------------------
(***************************************************************************)
(* memlab/sched/policies: the six schedulers behind IScheduler, as         *)
(* operators on the scheduler object's state                               *)
(*   [policy, q, level, aged]                                              *)
(* where q holds three queues, of which only MLFQ uses the last two.  A    *)
(* heap is the sequence of its elements: its top is any smallest one.      *)
(***************************************************************************)
EXTENDS Integers, Sequences, Functions, FiniteSetsExt, SequencesExt

CONSTANTS N,             \* the processes are 1 .. N
          Quantum        \* the quantum of RR, MLFQ's quantum_base

Procs == 1 .. N

New(pol) == [policy |-> pol, q |-> <<<<>>, <<>>, <<>>>>,
             level |-> [p \in Procs |-> 0], aged |-> [p \in Procs |-> 0]]

Queued(s) == Range(s.q[1]) \cup Range(s.q[2]) \cup Range(s.q[3])

Add(s, p) == [s EXCEPT !.q[1] = Append(@, p), !.level[p] = 0]

(* What pick_next takes the least of. *)
Key(s, p, remaining, priority) ==
    CASE s.policy \in {"SJF", "SRTF"} -> remaining[p]
      [] s.policy = "Priority" -> priority[p] - s.aged[p]
      [] OTHER -> 0

(* The front of a queue; the top of a heap, which may be any least element. *)
Fronts(s, i) == {Head(s.q[i])}

Tops(s, i, remaining, priority) ==
    LET key == [p \in Range(s.q[i]) |-> Key(s, p, remaining, priority)]
    IN  {p \in Range(s.q[i]) : key[p] = Min(Range(key))}

(* pick_next, from the first queue that is not empty. *)
Picks(s, remaining, priority) ==
    IF Queued(s) = {} THEN {}
    ELSE LET i == Min({j \in 1 .. 3 : s.q[j] # <<>>})
             picked == IF s.policy \in {"SJF", "SRTF", "Priority"}
                       THEN Tops(s, i, remaining, priority) ELSE Fronts(s, i)
         IN  {[proc |-> p, next |-> [s EXCEPT !.q[i] = SelectSeq(@, LAMBDA r : r # p)]] : p \in picked}

QuantumFor(s, p) == Quantum * 2^s.level[p]

RRExpired(ranTicks) == ranTicks >= Quantum

(* Mutation: SRTF does not look at the queue. *)
ShouldPreemptQuantum(s, p, ranTicks, remaining) ==
    CASE s.policy = "RR" -> RRExpired(ranTicks)
      [] s.policy = "MLFQ" -> ranTicks >= QuantumFor(s, p)
      [] OTHER -> FALSE

ShouldPreempt(s, p, ranTicks, remaining) ==
    CASE s.policy = "RR" -> RRExpired(ranTicks)
      [] s.policy = "MLFQ" -> ranTicks >= QuantumFor(s, p)
      [] s.policy = "SRTF" -> \E r \in Queued(s) : remaining[r] < remaining[p]
      [] OTHER -> FALSE
=============================================================================
