# A TLA+ verification of Memory_Allocator

TLA+ models of the allocators, schedulers and memory simulators of this
repository, of its multi-threaded benchmarks and of the pages that replay its
traces. The larger ones are checked with TLC on small instances. All allocators,
the paging simulator with its four replacement policies and the multi-threaded
benchmarks are also proved safe with TLAPS for every instance; the three smallest
allocators are proved without a run. Paths are relative to `src/`; `memlab/…` headers are under
`memlab/include/memlab/`.

## 1. The system

| Part | State | Operations | What is hard about it |
|---|---|---|---|
| `include/BuddyAllocator.hpp` | free list per order, mutex | `Allocate`, `Free` (recursive) | threads meet in the middle of splits and merges; address arithmetic |
| `include/LockFreeFreelist.hpp`, `TaggedPointer.hpp` | tagged `head_`, `next` in the nodes | `Push`, `Pop` | ABA; reading a node another thread owns; failed CAS |
| `include/SlabCache.hpp` | slabs with free lists behind a mutex, a `thread_local` magazine | `Allocate`, `Free`, slab construction, thread exit | magazine checked outside the lock; one magazine for all caches of a type |
| `include/PoolAllocator.hpp` | intrusive free list | `Allocate`, `Free` | no synchronisation |
| `include/LinearArena.hpp`, `StackArena.hpp` | an offset | `Allocate`, `Reset`, `ArenaScope` | alignment, `size_t` wrap |
| `include/VirtualMemory.hpp`, `MemoryUtils.hpp` | pointer and size of a mapping | constructors, moves, `Free`, destructor | double unmap, leak, failure of `mmap` |
| `include/Scheduler.hpp`, `Process.hpp` | process table, ready queue, I/O list, over a `BuddyAllocator` | `Run`: admission, I/O, CPU slice | admission waits for memory that others must free and merge |
| `memlab/sim/vm_sim_main.cpp`, `memlab/vm/*` | page tables, TLB, frames, policy object | `VMSystem::access`, `run_sim` | four records of one mapping; stale TLB entries, lost dirty bits |
| `memlab/vm/replacement/*` | queue, list, ring or trace position | `on_load`, `on_access`, `victim`, `on_evict` | bookkeeping across evictions |
| `memlab/sim/sched_sim_main.cpp`, `memlab/sched/*` | ready structure of six policies, I/O queue, CPU, clock | `simulate`; `add`, `pick_next`, `should_preempt` | several events in one tick; a clock that jumps |
| `memlab/sim/contiguous_demo.cpp` | block list, `mem_wait`, round robin | first-fit `Allocate`/`Free`, `main` | admission and scheduling in one loop |
| `memlab/sim/visualizer_demo.cpp` | frames, page table, TLB, FIFO queue, round robin | access, termination, `main` | frames of ended processes stay queued |
| `frontend/virtual.html`, `contiguous.html` | the picture drawn from a trace | `applyEvent`, `reset` | knows only what was logged, in that order |
| `memlab/vm/vmem_region.hpp` | mapping, lock, high-water mark, worker thread | `advance_hwm`, worker, move, destructor | worker races with move and destruction |
| `memlab/bench/*` | barrier, timer, thread-local caches; mutex and condition variable; a region | `main` and thread bodies | who is timed, lost wake-ups, blocks left in caches |

The parts interact, and the modules are composed, in these places:

* `Scheduler` calls `BuddyAllocator`: `OSScheduler` instantiates `BuddyAllocator`
  and runs its very actions.
* The two demos run the scheduler's loop over a memory of their own and write a
  trace that a page replays: `ContiguousDemo` and `VisualizerDemo` extend `SchedSim`
  and instantiate `FirstFit` and `ContiguousPage`, `VisualizerVM` and `VirtualPage`.
* `VMSystem` drives a replacement policy (it extends `Replacement`).
* The prefault benchmark uses a region (`PrefaultBench` extends `VmemRegion`).

`PROJECT.json` lists every component, also those not modelled.

## 2. The modules

Three modules are abstract specifications and contain no code of the repository:
`Heap` (a block handed out shares no byte with a block in use), `Stack` (atomic
push and pop with ownership of nodes) and `Paging` (pages come in on access, one
leaves exactly when memory is full).

| Module | Models | State and actions |
|---|---|---|
| `BuddyAllocator` | `BuddyAllocator.hpp` | `freeLists`, `live` (callers' blocks), `mutex`, and per thread `pc`, `order`, `level`, `ptr`. One action per recursion level: `AllocateDeeper`, `AllocatePop`, `AllocateSplit`, `FreeMerge`, `FreePush`; lock and return are steps of their own. |
| `LockFreeFreelist` | `LockFreeFreelist.hpp`, `TaggedPointer.hpp` | One action per atomic access: `PushStore`, `PushCAS`, `PushRetry`, `PopRead`, `PopCAS`, `PopRetry`. `Use` lets the owner of a popped node overwrite its `next`. `stack` is a history variable. |
| `SlabCache` | `SlabCache.hpp` | The magazine steps and the steps under the mutex are separate actions. `Clobbers` says whether `T()` writes the object's first word. |
| `PoolAllocator` | `PoolAllocator.hpp` | `freeList`, and `next`, the first word of every slot, which the holder of a slot overwrites (`Use`). The class has no synchronisation: one thread, a call is a step. |
| `Arena` | `LinearArena.hpp`, `StackArena.hpp` | `offset`; arithmetic modulo `Word` stands for `size_t`. |
| `VirtualMemory` | `VirtualMemory.hpp`, POSIX branch of `MemoryUtils.hpp` | `obj` (the objects), `mapped` (the system's view). |
| `OSScheduler` | `Scheduler.hpp`, `Process.hpp` | `phase` and `cur` say where `Run` is; calls of the allocator take the allocator's own steps. |
| `Replacement` | the four policies | Operators on a policy object's state; `Victims` is the set of possible answers. |
| `VMSystem` | `vm_sim_main.cpp`, `tlb.hpp`, `page_table.hpp`, `frame_allocator.hpp` | An access is one step, in four cases: `AccessTlb`, `AccessWalk`, `AccessFree`, `AccessEvict`. The TLB is kept in stamp order. |
| `ReadyQueue` | the six schedulers | Operators on a scheduler object's state; a heap's top is any least element. |
| `SchedSim` | `simulate` | One action per part of the loop body, in its order (`phase`). |
| `FirstFit`, `ContiguousDemo` | `contiguous_demo.cpp`, `trace_writer.hpp` | The block vector; the two admission loops step by step. `shown` is the page that has applied the trace so far. |
| `VisualizerVM`, `VisualizerDemo` | `visualizer_demo.cpp`, `trace_writer.hpp` | The three records of a mapping and `fifo_frames`; the loop, with the memory access as a step of its own before each tick of the CPU (`accessed`). `shown` as above. |
| `VirtualPage`, `ContiguousPage` | `virtual.html`, `contiguous.html` | A page is a record; `ApplyEvent` is an operator on it, with an operator per event that changes more than a lane. |
| `VmemRegion` | `vmem_region.hpp` | Object `a` and the object `b` it is moved to, and the worker of `a`, a step per read of a shared member. Sizes, marks and offsets are bytes, `touched` is a set of pages. `build` says how the worker touches: by `madvise` (`WorkerMadvise`), which fails on an address that is null or no multiple of the page size and may fail otherwise (`failed`), or by the fallback loop (`WorkerLoop`), which crashes on a null base (`WorkerCrash`). |
| `BenchConstants` | constants of `memlab/bench` | What the benchmark modules share. |
| `BenchHarness` | `thread_scaling_bench.cpp`, `false_sharing_bench.cpp`, `alloc_contention_bench.cpp` | `prog` is the kernel of the threads. `waiting` are the threads asleep in the barrier; `hashed` and `lost` are history. |
| `PingPong` | `ping_pong_ns` of `ctx_switch_bench.cpp` | Two threads, the mutex, the condition variable (`asleep`), spurious wake-ups. |
| `PrefaultBench` | `prefault_bench.cpp`, percentiles of `stats.hpp` | `run_policy` over `VmemRegion`; a touch costs one if it faults and nothing if not. |
| `Benchmarks` | | The programs, one at a time; `region` is any other user of a `VmemRegion`. |

`MC…` modules give constants their values. Definitions whose comment begins with
"Mutation" are deliberate small bugs; `PROJECT.json` pairs each with the property
that has to notice it. They are not part of any specification.

## 3. The runs

Passing runs:

| Run | Shows | Bounds |
|---|---|---|
| `buddy` | no overlap, no loss, full merging; implements `Heap`; nullptr only when nothing fits; the mutex comes back | 2 threads, 8 minimum blocks, requests of one block, of half the arena and of more than the arena; 190,233 states |
| `freelist` | one owner per node, list intact; implements `Stack`; calls return | 2 threads, 2 nodes (what ABA needs), tags to 8, spurious failures; 44,698 states |
| `slab` | one place per slot, counters exact, also with a magazine shared by two caches; a slow free returns the slot to the slab it lies in | 2 threads, 2 caches, 2 slabs of 2 slots, magazine of 1, so that both limits are met; symmetry of threads and caches; 227,346 states |
| `os_scheduler` | queues and memory match states, arena whole at the end; `Run` returns with everyone finished whose request fits. On an aligned base: see `buddy_page_aligned` | 3 processes, all mixes of 3 burst lists, 3 sizes, 2 arrivals, and one oversized; 4 blocks; 609,328 states |
| `vm` | frames exact, TLB coherent, LRU holds the most recent pages, Clock's index exact and second chance granted, dirty pages written back, implements `Paging` | all 4 policies, 2 processes, 4 pages, 3 frames, TLB of 2, 7 faults; 300,932 states |
| `sched_sim` | one place per process, work conserved, turnaround covers work, SRTF runs the shortest, everyone finishes | 3 processes, 6 policies, no switch cost; 678,414 states |
| `contiguous` | the page shows the demo's blocks, fragments, totals and lanes; memory matches states, `mem_wait` exact, blocks tile the arena and are merged, nullptr only when no run fits, first fit implements `Heap`, everyone is admitted and finishes | 3 processes that do not all fit, 6 units; 128,376 states |
| `visualizer` | TLB, page table, frames and queue agree through preemption, eviction and termination; implements `Paging`; the page shows the demo's frames, lanes and valid mappings | 3 processes of 3 pages, 4 frames, TLB of 3, late arrivals, so that queue entries of ended processes meet new ones; 64,784 states |
| `bench` | `WorkTimed`, `BlocksAccounted`: the barrier times all the work and only the work, slices cover every item once, no block is lost beyond the caches of ended threads. `TurnsTaken`: no lost wake-up. `TouchesMapped`, `PrefaultedTouched`, `StaysAhead`: the region. `LatencyTells`: the prefault benchmark's percentiles separate prefaulted from lazy. `CallsReturn`: every program ends and every call on a region returns | sweep of 1 and 3 threads over 4 items (a remainder), 2 operations each, 4 blocks; 3 round trips; 3 pages of 2 bytes, watermark of 1 page, marks of 0, 1, 3 and 9 bytes (no whole pages, and beyond the end), both builds, all policies, move and destruction at any time; 85,500 states |

At these bounds every action fires and every limit (full arena, full magazine,
full TLB, no free frame, empty list) is reached and left again. `MaxTag`,
`MaxFaults`, `MaxTicks` and `MaxSlabs` only cut unbounded counters. Deadlock
checking is off where a bound may end all activity (`freelist`, `slab`) and where
the programs end (`bench`).

Each module's type invariant is a conjunct of one of its properties (of the
theorems `Correct` for the buddy allocator and `FreelistInvariant` for the lock-free
list).

Some properties state an exception. `TouchesMapped` excepts the time between a
move's clearing of `_base` and its join, when the worker may use a null base; a
fallback build may crash then, and only then. `CallsReturn` excepts that crash.
`PrefaultedTouched` speaks of whole pages: the page in which the report ends may be
missing, because the fallback loop counts its pages from an offset that need not be
the start of one. It and `StaysAhead` speak of a region on which no `madvise` has
failed; in a `madvise` build the first mark that is not whole pages makes every later
one fail, while the worker goes on counting. `StaysAhead` also leaves out a region
that was moved, because it has no worker. `FreeReturnsToSlab` speaks of an object freed to the cache it lies in:
`SlabCache::Free` drops any other, which `SlotsAccounted` counts as lost.
`BlocksAccounted` allows the blocks that threads leave in their `thread_local` cache,
at most one each. `PageFollows` of the visualizer does not compare the whole TLB:
the page has no case for `page_table_hit`, so it shows a part of it.

Runs in which TLC refutes what a document, comment or test says (quotations under
`findings` in `PROJECT.json`):

| Run | What the code does instead |
|---|---|
| `buddy_page_aligned` | `FreeInternal` clears a bit of the absolute address. In the arena [4, 12) the block at 4 is freed while its buddy at 8 is free, and the merged block is 4 & ~4 = 0, below the arena |
| `slab_int` | `new (objPtr) T()` overwrites the free-list links |
| `sched_switch_cost` | an arrival during a context switch is never seen |

The first concerns the scheduler as well: `MemoryMatchesState` of `os_scheduler`, the
whole arena at the end above all, is shown on a base that is aligned to the arena,
and `examples/OSSimDemo.cpp` has an arena of 8192 bytes, twice a usual page.

Other places where the source and its comments differ, seen while modelling.
The models follow the source; no run is about them:

* `include/PoolAllocator.hpp`: the free list is a plain pointer, not the lock-free
  list of the repository's README.
* `include/LinearArena.hpp:36`: the sum may wrap for a size near 2^64.
* `include/VirtualMemory.hpp:24`: `mmap` reports failure by `MAP_FAILED`, not null.
* `memlab/vm/replacement/fifo.hpp:27`: `victim` leaves its answer in the queue, so
  a frame that is loaded again is queued twice.
* `memlab/vm/replacement/optimal.hpp:55`: frame numbers are looked up in a trace of
  page numbers, from a position that nothing advances.
* `memlab/sched/policies/mlfq.hpp`: nothing calls its hooks; the simulator adds a
  preempted process anew, at the top level.
* `memlab/sim/visualizer_demo.cpp:346`: frames of ended processes stay in
  `fifo_frames`, so that the frame replaced may not be the oldest.
* `frontend/virtual.html:413`: "Flash the matching TLB slot"; after a refill from
  the page table there is none.
* `memlab/vm/vmem_region.hpp:202`: the result of `madvise` is not looked at. It fails
  on an address that is no multiple of the page size, so after a mark that is not
  whole pages nothing more is touched and `prefaulted_bytes` goes on rising, where
  `memlab/docs/BLUEPRINT.md:31` says "keeps watermark of N pre-touched pages ahead"
  and line 229 "prefaulted_bytes() matches getrusage fault deltas". Line 116 of the
  source calls the number "approximate for Adaptive policy".
* `memlab/vm/vmem_region.hpp:100`: the move constructor clears `_base` and `_size`
  before it stops the worker that reads them.
* `memlab/vm/vmem_region.hpp:65`: `MapPopulate` reports the whole region on every
  platform; only Linux has the flag (line 147).
* `memlab/bench/prefault_bench.cpp:79`: the startup timer runs on over the touches
  and the destruction of the region.
* `memlab/bench/ctx_switch_bench.cpp:124`: the median is taken from samples that are
  not sorted. The `break` on `done` in `pong` is dead (theorem `BreakNeverTaken`).
* `memlab/bench/alloc_contention_bench.cpp:91`: the vector of cached pointers frees
  nothing when its thread ends; the branch for a full cache is never taken.
* `memlab/sim/vm_sim_main.cpp`, third experiment: the comment says that all processes
  share the frame pool, and each has a `VMSystem` of its own.

## 4. Fairness

* Single-threaded loops (`OSScheduler`, `SchedSim`, `ContiguousDemo`): weak
  fairness of the loop body. A thread that can go on does.
* `BuddyAllocator`: weak fairness of each thread's steps while it is inside a call.
  Nothing is assumed about who gets the mutex or about new calls; `MutexReleased`
  only speaks of a thread that has it.
* `LockFreeFreelist`: weak fairness of each thread inside a call, and strong
  fairness of the two compare-and-swap steps: a weak compare-and-swap that could
  succeed again and again does not fail spuriously for ever. `MaxTag` bounds the
  successful operations, so `CallsReturn` says that a call is delayed only by
  calls that succeed: lock-freedom. It does not say that a call ends against
  endless competition, and the code does not promise it.
* `VmemRegion`: the worker and a call that has begun keep running. Nobody has to
  call anything.
* `BenchHarness`: weak fairness of every thread.
* `PingPong`: strong fairness of each thread. A thread that wakes up spuriously again
  and again frees and takes the mutex in turn, and weak fairness would let it starve
  the other; mutexes of the supported systems do not. Spurious wake-ups are not
  required: a notification has to arrive.
* `Benchmarks` adds weak fairness of the prefault benchmark's one thread. The parts
  that are not the chosen program begin in their last state, so that their fairness
  asks for nothing.

## 5. The proofs

All theorems are for arbitrary constants that satisfy the `ASSUME`s of the module
and the hypotheses of the theorem.

**Buddy allocator** (`BuddyAllocatorProofs`, with `ListLemmas` on the list
operators). Assumptions: block sizes double from order to order, the thread
identifiers are not the markers used in the model, and, stated in each theorem,
`BaseAligned`: the arena starts at a multiple of its size. The run
`buddy_page_aligned` shows that the last one is needed; `mmap` does not give it.
`NoOverlap`, `NoLeak` and `Coalesced` are not inductive alone. `IInv` adds

* `CallInv`: exactly the thread in a recursion holds the mutex, its level is in
  range, and on the way up `AllocateInternal` has passed empty lists only. The
  last part keeps `Coalesced` when a split pushes the upper half: its list is
  empty, so its buddy is not on it;
* `AlignedPieces`: every block lies at a multiple of its size from the base. This
  makes a buddy disjoint from its block, and their union one block of the next
  order (lemma `BuddyPair`, from elementary facts on quotients and remainders).

The step proof separates control (`ControlStep`) from blocks (`BlocksStep`): every
action moves a piece, splits one or merges two (`MoveTiles`, `SplitTiles`,
`MergeTiles`). Theorems: `Correct` (`IInv`), `TypeCorrect`, `BlocksDisjoint`,
`NothingLost`, `FullyCoalesced`, `MergeCorrect`, `GetOrderCorrect`, and
`Refinement`: the allocator implements `Heap`.

**Lock-free list** (`StorageProofs`). `IInv` adds `TagFresh` to `OneOwner` and
`Linked`: a thread whose `oldHead` carries the current tag has the current pointer
and, in `Pop`, the current successor. That is why comparing pointer and tag is
enough although `next` may be read from a node someone else owns. Theorems:
`FreelistInvariant`, `OneOwnerAlways`, `LinkedAlways`, and `FreelistRefinement`:
`Push` and `Pop` implement the atomic `Stack`, taking effect at the successful CAS
or at the load that finds the list empty.

**Arenas, pool and virtual memory** (the other parts of `StorageProofs`, about
instances of their modules).

* Arenas, assuming `NoWrap`: no sum in `Allocate` reaches 2^64, which the code does
  not check. `ArenaBlocksDisjoint`: live blocks are aligned, inside the used part of
  the buffer, and disjoint; a new block lies behind all older ones.
* Pool, assuming at least one slot. The invariant relates `freeList` and `next` to
  the history variable `stack` (`Linked`): the links of free slots are intact because
  only holders write into slots. `PoolOneHolder` and `PoolNullExactlyWhenFull` follow.
* Virtual memory, assuming `Distinct`: nullptr and `MAP_FAILED` are the address of no
  block. To `OneOwner` the invariant adds that a destroyed object holds nothing and
  a held block is not empty. `MappingOneOwner`: the pages mapped at an address are
  those of the one object that holds it, so nothing is unmapped twice or lost.

**Slab cache** (`SlabCacheProofs`), for any number of threads, caches and slabs and
any slab and magazine size. Every theorem assumes `~ Clobbers`: the constructor of
the objects leaves their first word alone. The run `slab_int` shows what happens
without it. `IInv` is

* `CallsOK`: no call has followed a broken link, and a call under way names a cache
  and, in `Free`, a slot;
* `PathsOK`: from `freeList` the links of every slab lead along different slots of
  that slab, as many as `freeSlots` says, to nullptr. The properties speak of the
  walk along the links; the invariant says that a sequence exists which the walk
  spells out (lemma `WalkLinked`), because that is what a push and a pop change in
  one place;
* `OnePlace`: a slot of a slab that has been built is on a free list, in a
  magazine, in a caller's hands, in a call or lost, and in one of them only; other
  slots are nowhere. The new slab of `Allocate` may then take any slots of its own.

One lemma per action and conjunct. Theorems `SlabSlotsAccounted`,
`SlabFreeSlotsExact`, `SlabFreeReturns`, `SlabAllocateSucceeds`.

**Paging simulator** (`ReplacementProofs`, `VMSystemProofs`), for any processes,
pages, frames, TLB capacity and trace. `ReplacementProofs` has what the operators on
lists return (`Erase`, `Keep`) and, for each policy, an invariant of its object given
the set of frames in use: `FifoOK`, `LruOK`, `ClockOK` (ring and index are inverse to
each other, the hand is inside), `OptimalOK`. `PolicyLoad`, `PolicyAccess` and
`PolicyEvict` say that the hooks keep it, and that `victim` answers with a frame in
use. `VMInv` has this and

* `TablesOK`: every frame is free or has one present page, and `_loaded_vpns` lists
  the present pages. `access` searches these lists for the page to evict, so the
  eviction is only complete because they are;
* `TlbOK`: entries are mappings of the page tables, and distinct;
* `HistoryOK`: written pages are dirty, and frames touched since the last eviction
  have Clock's reference bit;
* `OrderOK`: LRU's list is the end of the order of use, page by page (`Stacked`), and
  all of it while frames are free. `HoldsMostRecent` compares sets, which a later
  access could not preserve.

Theorems: `VMInvariant`, `FramesExactAlways`, `TlbCoherentAlways`,
`HoldsMostRecentAlways`, the action properties `WritesBackAlways` and
`SecondChanceAlways`, and `PagingImplemented`: under each policy the simulator
implements `Paging`.

**Benchmarks** (`BenchHarnessProofs`, `BenchmarksProofs`). The theorems are about
`Benchmarks!Spec`, the specification that the run `bench` checks; the parts that are
not the chosen program stay in their last state. Three invariants:

* `HarnessInv` of the programs that start threads together, for any sweep of thread
  counts, items, operations, cache size and blocks. `ThreadsOK`: workers and main
  pass the barrier together, twice. `LoopsOK`: a thread's counter runs within its
  slice, and the hashed items are those of the slices so far; that slices are
  disjoint and cover all items for every `T` is arithmetic on quotients and
  remainders (lemma `Slices` and what follows it). `MemoryOK`: an allocated block
  is left behind or belongs to one worker, and each thread that ended left one at
  most, so that the blocks left behind are bounded by the sum of the thread
  counts. These lemmas are about `BenchHarness`; `BenchmarksProofs` takes them over
  through the instance `HP`.
* `RegionInv` of the mapped region, for every number of pages, page size, watermark
  and set of marks, whole pages or not, and for both builds.
  `Holders`: which object has the base, the size and the lock at each step of the
  life of `a`, of the move and of the life of `b`; so the destructor of an object
  that was moved from finds nothing to unmap or unlock. `WorkerWithin`: a worker
  exists only while the region is mapped and `a` owns it, its target is clamped
  before it touches, and it has crashed only in a fallback build whose base a move
  has cleared. `CountsTouched`, as long as no `madvise` on the region has failed: the
  whole pages are touched up to what an object that has the base reports, and up to
  the worker's `prefaulted_off` while `a` has the base. After the move has cleared it
  the worker may count pages it did not touch, but only `a` hears of them. That the
  next touch joins the last one without a gap is arithmetic on quotients: lemma
  `LoopPages` for the fallback loop, which may start in the middle of a page, and
  `MadvisePages`.
* `PingPongInv`, for every number of round trips: who holds the mutex where, that
  only a thread in its wait is asleep, and how the counters relate to `turn` and
  `done`.

Theorems `WorkTimedAlways`, `BlocksAccountedAlways`, `TouchesMappedAlways`,
`PrefaultedTouchedAlways`, `TurnsTakenAlways`, `BreakNeverTaken`. They have the
exceptions of their properties (section 3): blocks in the caches of ended threads, the
window of a move, the page a report ends in, and a `madvise` that failed.

**Induction.** What a recursive function computes (`Walk`, `Keep`, `Sum`) is proved
with the smallest counterexample, from lemma `Least` of `ListLemmas`. `VMSystem` has
`Keep` and `Erase` instead of the library's operators for the same reason: a
recursive function with a set as argument can be reasoned about in this way, an
operator that takes a predicate cannot.

**Model-checked only.** All liveness properties (`MutexReleased`, `CallsReturn`,
`EveryoneFinishes`, `EveryoneAdmitted`, `StaysAhead`), which are out of the
prover's reach; `NullOnlyWhenFull` of the buddy allocator; `LatencyTells`, which
rests on the library's sorting; and every property of `OSScheduler`, `SchedSim`,
`ContiguousDemo` and `VisualizerDemo`, which have no proof module. **Proved only**:
virtual memory, arenas and pool, whose modules have no run.

## 6. What is not modelled

* Weak memory: atomic accesses are taken as sequentially consistent.
* The wrap of the 64-bit tag; pools and slabs of no slots; a pool shared by threads,
  which is a data race.
* `run_sim` and its random workloads: `vm` takes any sequence of accesses instead.
* Windows and macOS branches (on macOS `MapPopulate` populates nothing), huge pages,
  a `madvise` or `MAP_POPULATE` that gives up half-way, a mark so large that
  adding the watermark wraps `size_t`, costs, clocks and the statistics other than the
  percentiles. The percentile's rank is computed in integers; floating-point rounding
  is left out.
* The pages' player (step, play, speed), their counters of hits and misses, their log
  and everything they draw.
* Functions that nothing calls: `TLB::flush_pid`, `FrameAllocator::free`,
  `PageTable`'s `invalidate` and `clear`, `OptimalReplacement::advance`,
  `PriorityScheduler::age_ready_queue`, and MLFQ's `on_quantum_expired`,
  `on_unblock` and `tick`.
* `MemoryAllocator.hpp` (forwards to a buddy allocator), `EventLogger.hpp` (formats
  JSON), timers, affinity and padding of `common/`, `tests/BenchMain.cpp`, the examples,
  plots and the start page: drivers or output without state of their own.

## 7. What could follow

1. Priority scheduling with a stream of arrivals, for what the aging comment of
   `priority.hpp` promises.
2. `SlabCache` against an abstract object cache.
3. Proofs, in the order of their use: `MappingsAgree` of the visualizer, with the
   lemmas of `ReplacementProofs`; `NullOnlyWhenFull` of the buddy allocator; `FirstFit`
   (`Tiling`, `HeapSpec`); `WorkConserved` of the scheduler simulator.
