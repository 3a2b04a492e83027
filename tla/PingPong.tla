------------------------------ MODULE PingPong -------------------------------
(***************************************************************************)
(* memlab/bench/ctx_switch_bench.cpp, ping_pong_ns: two threads hand a     *)
(* turn back and forth through a mutex and a condition variable.  The      *)
(* wait with a predicate is the loop it stands for: test, sleep, take the  *)
(* mutex again, test.  A sleeper may also wake up for no reason.           *)
(***************************************************************************)
EXTENDS BenchConstants

VARIABLES mutex, turn, done,
          asleep,        \* the threads that wait on cv
          at,            \* where each thread is
          i              \* the loop counter of each thread

shared == <<mutex, turn, done, asleep>>
vars == <<shared, at, i>>

Players == {"ping", "pong"}
Free == "free"
Other(t) == IF t = "ping" THEN "pong" ELSE "ping"

Begin(step) ==
    /\ mutex = Free /\ turn = 0 /\ done = FALSE
    /\ asleep = {}
    /\ at = [t \in Players |-> step]
    /\ i = [t \in Players |-> 0]

Init == Begin("top")

Go(t, from, to) == at[t] = from /\ at' = [at EXCEPT ![t] = to]

Lock(t, from, to) ==
    /\ Go(t, from, to)
    /\ mutex = Free
    /\ mutex' = t
    /\ UNCHANGED <<turn, done, asleep, i>>

(* The predicates of the two waits. *)
Ready(t) == IF t = "pong" THEN turn = 1 \/ done ELSE turn = 0

Sleep(t) ==
    /\ Go(t, "test", "asleep")
    /\ ~Ready(t)
    /\ mutex' = Free
    /\ asleep' = asleep \cup {t}
    /\ UNCHANGED <<turn, done, i>>

Spurious(t) ==
    /\ t \in asleep
    /\ asleep' = asleep \ {t}
    /\ UNCHANGED <<mutex, turn, done, at, i>>

Wake(t) == t \notin asleep /\ Lock(t, "asleep", "test")

(* Mutation: the notification is missing. *)
NotifySkipped(t, from, to) == Go(t, from, to) /\ UNCHANGED <<shared, i>>

(* notify_one or notify_all: only the other thread can be asleep. *)
Notify(t, from, to) ==
    /\ Go(t, from, to)
    /\ asleep' = asleep \ {Other(t)}
    /\ UNCHANGED <<mutex, turn, done, i>>

-----------------------------------------------------------------------------
PongLock == i.pong < RoundTrips /\ Lock("pong", "top", "test")

(* The wait is over; "if (pp.done) break", which never comes true because  *)
(* pong makes as many turns as ping.                                       *)
PongTurn ==
    /\ Ready("pong")
    /\ Go("pong", "test", IF done THEN "exit" ELSE "notify")
    /\ turn' = IF done THEN turn ELSE 0
    /\ i' = [i EXCEPT !.pong = @ + 1]
    /\ mutex' = Free
    /\ UNCHANGED <<done, asleep>>

PongExit == i.pong = RoundTrips /\ Go("pong", "top", "exit") /\ UNCHANGED <<shared, i>>

Pong == PongLock \/ Sleep("pong") \/ Wake("pong") \/ PongTurn \/ Notify("pong", "notify", "top") \/ PongExit

PingLock == i.ping < RoundTrips /\ Lock("ping", "top", "give")

PingGive ==
    /\ Go("ping", "give", "notify")
    /\ turn' = 1
    /\ mutex' = Free
    /\ UNCHANGED <<done, asleep, i>>

(* Mutation: the wait is left at the first wake-up. *)
PingTakeUntested ==
    /\ Go("ping", "test", "top")
    /\ mutex' = Free
    /\ i' = [i EXCEPT !.ping = @ + 1]
    /\ UNCHANGED <<turn, done, asleep>>

PingTake ==
    /\ Ready("ping")
    /\ Go("ping", "test", "top")
    /\ mutex' = Free
    /\ i' = [i EXCEPT !.ping = @ + 1]
    /\ UNCHANGED <<turn, done, asleep>>

PingStop == i.ping = RoundTrips /\ Lock("ping", "top", "stop")

PingDone ==
    /\ Go("ping", "stop", "notifyAll")
    /\ done' = TRUE
    /\ mutex' = Free
    /\ UNCHANGED <<turn, asleep, i>>

PingJoin == at.pong = "exit" /\ Go("ping", "join", "exit") /\ UNCHANGED <<shared, i>>

Ping == \/ PingLock \/ PingGive \/ Notify("ping", "notify", "want") \/ Lock("ping", "want", "test")
        \/ Sleep("ping") \/ Wake("ping") \/ PingTake
        \/ PingStop \/ PingDone \/ Notify("ping", "notifyAll", "join") \/ PingJoin

Next == Ping \/ Pong \/ \E t \in Players : Spurious(t)

(* Both threads run and the mutex starves neither of them (a thread that   *)
(* keeps waking up for no reason competes for it); nobody has to wake up   *)
(* without being notified.                                                 *)
Fairness == SF_vars(Ping) /\ SF_vars(Pong)

Spec == Init /\ [][Next]_vars

-----------------------------------------------------------------------------
TypeOK ==
    /\ mutex \in Players \cup {Free} /\ turn \in {0, 1} /\ done \in BOOLEAN /\ asleep \subseteq Players
    /\ at \in [Players -> {"top", "give", "want", "test", "asleep", "notify", "stop", "notifyAll", "join", "exit"}]
    /\ i \in [Players -> 0 .. RoundTrips]

(* No wake-up is lost, although both threads notify after they have given  *)
(* up the mutex: one that sleeps while its predicate holds is about to be  *)
(* notified.  And "each round trip = 2 context switches": a turn given is  *)
(* taken once and answered once, whatever wake-ups there are.              *)
TurnsTaken ==
    /\ TypeOK
    /\ \A t \in asleep : Ready(t) => at[Other(t)] \in {"notify", "notifyAll"}
    /\ turn = 1 => i.pong = i.ping
    /\ turn = 0 => i.pong = i.ping + (IF at.ping \in {"notify", "want", "test", "asleep"} THEN 1 ELSE 0)
=============================================================================
