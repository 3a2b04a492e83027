---------------------------- MODULE BenchHarness -----------------------------
(***************************************************************************)
(* memlab/bench: the three benchmarks that start threads together.         *)
(* run_scaling (thread_scaling_bench.cpp), run_bench                       *)
(* (false_sharing_bench.cpp) and bench_allocator                           *)
(* (alloc_contention_bench.cpp) have one shape: main creates T threads     *)
(* around a std::barrier of T + 1, starts a timer, arrives twice, reads    *)
(* the timer and joins.  prog says which kernel the threads run, and for   *)
(* the last benchmark with which of its three allocators.                  *)
(***************************************************************************)
EXTENDS BenchConstants, Functions, FiniteSetsExt

CONSTANT Programs        \* of {"scaling", "counters", "malloc", "mutex", "tls"}

Main == -1
Workers == 0 .. Max(Range(Sweep)) - 1
Threads == Workers \cup {Main}
Nobody == -2

VARIABLES prog,
          sweep,         \* what is left of the sweep; its head is T
          pc,
          waiting,       \* the threads asleep in the barrier's current phase
          timing,        \* the timer runs
          k,             \* the loop counter of each worker
          hashed,        \* history: how often each item was hashed in this run
          counters,
          heap,          \* the blocks malloc has handed out
          held,          \* the block p of each worker
          cache,         \* the thread_local cache of each worker
          mtx,           \* MutexAlloc::mtx
          lost           \* history: the blocks left in the cache of a thread that ended

memory == <<heap, held, cache, mtx, lost>>
work == <<k, hashed, counters>>
vars == <<prog, sweep, pc, waiting, timing, work, memory>>

T == IF sweep = <<>> THEN 0 ELSE Head(sweep)

Begin(counts) ==
    /\ sweep = counts
    /\ pc = [t \in Threads |-> IF t # Main THEN "none" ELSE IF counts = <<>> THEN "exit" ELSE "create"]
    /\ waiting = {}
    /\ timing = FALSE
    /\ k = [w \in Workers |-> 0]
    /\ hashed = [x \in 0 .. Items - 1 |-> 0]
    /\ counters = [w \in Workers |-> 0]
    /\ heap = {} /\ held = [w \in Workers |-> NoBlock] /\ cache = [w \in Workers |-> <<>>]
    /\ mtx = Nobody /\ lost = {}

Init == prog \in Programs /\ Begin(Sweep)

-----------------------------------------------------------------------------
At(t, step) == pc[t] = step /\ t \notin waiting

(* Mutation: std::barrier bar(T), without the timing thread. *)
ArriveAndWaitShort(t, from, to) ==
    /\ At(t, from)
    /\ pc' = [pc EXCEPT ![t] = to]
    /\ waiting' = IF Cardinality(waiting \cup {t}) = T THEN {} ELSE waiting \cup {t}
    /\ UNCHANGED <<prog, sweep, timing, work, memory>>

(* arrive_and_wait on std::barrier bar(T + 1): the last one to arrive lets *)
(* all go on.                                                              *)
ArriveAndWait(t, from, to) ==
    /\ At(t, from)
    /\ pc' = [pc EXCEPT ![t] = to]
    /\ waiting' = IF Cardinality(waiting \cup {t}) = T + 1 THEN {} ELSE waiting \cup {t}
    /\ UNCHANGED <<prog, sweep, timing, work, memory>>

-----------------------------------------------------------------------------
(* main. *)
Created == {w \in Workers : pc[w] # "none"}

CreateThread ==
    /\ At(Main, "create")
    /\ Cardinality(Created) < T
    /\ pc' = [pc EXCEPT ![Cardinality(Created)] = "start"]
    /\ UNCHANGED <<prog, sweep, waiting, timing, work, memory>>

StartTimer ==
    /\ At(Main, "create")
    /\ Cardinality(Created) = T /\ T > 0
    /\ pc' = [pc EXCEPT ![Main] = "release"]
    /\ timing' = TRUE
    /\ UNCHANGED <<prog, sweep, waiting, work, memory>>

ReadTimer ==
    /\ At(Main, "read")
    /\ pc' = [pc EXCEPT ![Main] = "join"]
    /\ timing' = FALSE
    /\ UNCHANGED <<prog, sweep, waiting, work, memory>>

(* All threads are joined and the next run begins, with counters reset. *)
JoinAll ==
    /\ At(Main, "join")
    /\ \A w \in Created : pc[w] = "exit"
    /\ sweep' = Tail(sweep)
    /\ pc' = [t \in Threads |-> IF t # Main THEN "none" ELSE IF Len(sweep) > 1 THEN "create" ELSE "exit"]
    /\ k' = [w \in Workers |-> 0]
    /\ hashed' = [x \in 0 .. Items - 1 |-> 0]
    /\ counters' = [w \in Workers |-> 0]
    /\ UNCHANGED <<prog, waiting, timing, memory>>

MainStep == \/ CreateThread \/ StartTimer \/ ReadTimer \/ JoinAll
            \/ ArriveAndWait(Main, "release", "finish") \/ ArriveAndWait(Main, "finish", "read")

-----------------------------------------------------------------------------
(* A worker.  Thread i of run_scaling has the items from i * per_thread,   *)
(* "last thread takes remainder".                                          *)
PerThread == Items \div T
SliceStart(w) == w * PerThread

(* Mutation: the last thread takes no remainder. *)
SliceCountEven(w) == PerThread

SliceCount(w) == IF w = T - 1 THEN Items - SliceStart(w) ELSE PerThread

LoopLength(w) == IF prog = "scaling" THEN SliceCount(w) ELSE Ops

InLoop(w) == At(w, "work") /\ k[w] < LoopLength(w)

HashItem(w) ==
    /\ prog = "scaling"
    /\ InLoop(w)
    /\ hashed' = [hashed EXCEPT ![SliceStart(w) + k[w]] = @ + 1]
    /\ k' = [k EXCEPT ![w] = @ + 1]
    /\ UNCHANGED <<prog, sweep, pc, waiting, timing, counters, memory>>

(* ++counters[i], of either layout: no other thread has this counter. *)
Increment(w) ==
    /\ prog = "counters"
    /\ InLoop(w)
    /\ counters' = [counters EXCEPT ![w] = @ + 1]
    /\ k' = [k EXCEPT ![w] = @ + 1]
    /\ UNCHANGED <<prog, sweep, pc, waiting, timing, hashed, memory>>

Allocators == {"malloc", "mutex", "tls"}

(* MutexAlloc's lock_guard. *)
Lock(w) ==
    /\ prog = "mutex"
    /\ InLoop(w)
    /\ mtx = Nobody
    /\ mtx' = w
    /\ UNCHANGED <<prog, sweep, pc, waiting, timing, work, heap, held, cache, lost>>

HasLock(w) == prog = "mutex" => mtx = w

(* The body of alloc or free, and the end of its lock_guard. *)
Allocating(w) ==
    /\ prog \in Allocators
    /\ InLoop(w) /\ HasLock(w)
    /\ held[w] = NoBlock
    /\ mtx' = Nobody
    /\ UNCHANGED <<prog, sweep, pc, waiting, timing, work, lost>>

AllocMalloc(w) ==
    /\ Allocating(w)
    /\ cache[w] = <<>>
    /\ \E b \in Blocks \ heap : heap' = heap \cup {b} /\ held' = [held EXCEPT ![w] = b]
    /\ UNCHANGED cache

(* back() and pop_back() of a vector. *)
Back(v) == v[Len(v)]
PopBack(v) == SubSeq(v, 1, Len(v) - 1)

(* Mutation: back() without pop_back(). *)
AllocCachedKeeps(w) ==
    /\ Allocating(w)
    /\ cache[w] # <<>>
    /\ held' = [held EXCEPT ![w] = Back(cache[w])]
    /\ UNCHANGED <<heap, cache>>

AllocCached(w) ==
    /\ Allocating(w)
    /\ cache[w] # <<>>
    /\ held' = [held EXCEPT ![w] = Back(cache[w])]
    /\ cache' = [cache EXCEPT ![w] = PopBack(@)]
    /\ UNCHANGED heap

Freeing(w) ==
    /\ prog \in Allocators
    /\ InLoop(w) /\ HasLock(w)
    /\ held[w] # NoBlock
    /\ held' = [held EXCEPT ![w] = NoBlock]
    /\ mtx' = Nobody
    /\ k' = [k EXCEPT ![w] = @ + 1]
    /\ UNCHANGED <<prog, sweep, pc, waiting, timing, hashed, counters, lost>>

FreeMalloc(w) ==
    /\ Freeing(w)
    /\ prog = "tls" => Len(cache[w]) >= CacheSize
    /\ heap' = heap \ {held[w]}
    /\ UNCHANGED cache

FreeCached(w) ==
    /\ Freeing(w)
    /\ prog = "tls" /\ Len(cache[w]) < CacheSize
    /\ cache' = [cache EXCEPT ![w] = Append(@, held[w])]
    /\ UNCHANGED heap

(* The thread ends: its cache is destroyed, the blocks in it are not freed. *)
Exit(w) ==
    /\ At(w, "leave")
    /\ pc' = [pc EXCEPT ![w] = "exit"]
    /\ cache' = [cache EXCEPT ![w] = <<>>]
    /\ lost' = lost \cup Range(cache[w])
    /\ UNCHANGED <<prog, sweep, waiting, timing, work, heap, held, mtx>>

Kernel(w) == HashItem(w) \/ Increment(w) \/ Lock(w) \/ AllocMalloc(w) \/ AllocCached(w) \/ FreeMalloc(w) \/ FreeCached(w)

WorkerStep(w) ==
    \/ ArriveAndWait(w, "start", "work")
    \/ Kernel(w)
    \/ ArriveAndWait(w, "work", "leave") /\ k[w] = LoopLength(w)
    \/ Exit(w)

Next == MainStep \/ \E w \in Workers : WorkerStep(w)

(* Every thread that can go on does. *)
Fairness == WF_vars(MainStep) /\ \A w \in Workers : WF_vars(WorkerStep(w))

Spec == Init /\ [][Next]_vars

-----------------------------------------------------------------------------
TypeOK ==
    /\ sweep \in Seq(Nat \ {0}) /\ waiting \subseteq Threads /\ timing \in BOOLEAN
    /\ pc \in [Threads -> {"none", "create", "release", "finish", "read", "join", "start", "work", "leave", "exit"}]
    /\ k \in [Workers -> Nat] /\ hashed \in [0 .. Items - 1 -> Nat] /\ counters \in [Workers -> Nat]
    /\ heap \subseteq Blocks /\ lost \subseteq heap /\ held \in [Workers -> Blocks \cup {NoBlock}]
    /\ cache \in [Workers -> Seq(Blocks)] /\ mtx \in Workers \cup {Nobody}

(* "Timing: from first thread start to last thread finish": a thread works *)
(* only while the timer runs, and has done its whole loop when the timer   *)
(* is read.  It is the work that the throughput is computed from: the      *)
(* slices cover each item once, although T need not divide kTotalItems,    *)
(* and no increment is lost.                                               *)
WorkTimed ==
    /\ TypeOK
    /\ \A w \in Workers : At(w, "work") => timing
    /\ At(Main, "read") \/ At(Main, "join") => \A w \in Created : k[w] = LoopLength(w)
    /\ \A x \in DOMAIN hashed : hashed[x] <= 1
    /\ pc[Main] = "join" =>
         /\ prog = "scaling" => \A x \in DOMAIN hashed : hashed[x] = 1
         /\ prog = "counters" => \A w \in Created : counters[w] = Ops

(* The sum of a sequence of numbers. *)
Sum(s) ==
    LET total[n \in 0 .. Len(s)] == IF n = 0 THEN 0 ELSE total[n - 1] + s[n]
    IN  total[Len(s)]

(* A block is in one thread's hands or in one cache, and malloc knows it.  *)
(* Between calls nothing else is allocated, except the blocks that threads *)
(* left in their caches: at most one for each thread that ever ran.        *)
BlocksAccounted ==
    LET hands == {w \in Workers : held[w] # NoBlock}
        Cached(w) == Range(cache[w])
    IN  /\ \A v, w \in Workers : v # w => Cached(v) \cap Cached(w) = {} /\ (v \in hands => held[v] # held[w])
        /\ \A v, w \in Workers : held[v] \notin Cached(w) \cup lost /\ Cached(w) \cap lost = {}
        /\ heap = {held[w] : w \in hands} \cup (UNION {Cached(w) : w \in Workers}) \cup lost
        /\ prog # "tls" => lost = {}
        /\ Cardinality(lost) <= Sum(Sweep) - Sum(sweep) + T
=============================================================================
