--------------------------- MODULE BuddyAllocator ---------------------------
(***************************************************************************)
(* include/BuddyAllocator.hpp: one arena of BlockSize[MaxOrder] bytes at   *)
(* address Base, one intrusive LIFO free list per order, one mutex.        *)
(*                                                                         *)
(* Allocate and Free compute the order before they take the mutex; under   *)
(* it they run the recursions AllocateInternal and FreeInternal.  Every    *)
(* level of a recursion is one step here, so that the states between two   *)
(* levels, with a block in the hands of the running thread, can be spoken  *)
(* about.  Allocate's early return of nullptr (order > maxOrder_) changes  *)
(* nothing and is a stuttering step, and so is Free(nullptr, size).        *)
(***************************************************************************)
EXTENDS Integers, Sequences, Functions

CONSTANTS Threads,     \* the threads that share the allocator
          NoThread,    \* the value of mutex when nobody holds it
          MaxOrder,    \* maxOrder_
          BlockSize,   \* BlockSize[k] = minBlockSize_ << k
          Base,        \* storage_.GetPtr()
          Sizes        \* the request sizes callers use

Orders == 0 .. MaxOrder

ASSUME MaxOrderAssumption == MaxOrder \in Nat
ASSUME BlockSizeAssumption ==
         /\ BlockSize \in [Orders -> Nat \ {0}]
         /\ \A k \in Orders : k < MaxOrder => BlockSize[k + 1] = 2 * BlockSize[k]
ASSUME BaseAssumption == Base \in Nat
ASSUME SizesAssumption == Sizes \subseteq Nat
ASSUME ThreadsAssumption == Threads \cap {NoThread, "list", "caller"} = {}

(* The base address is a multiple of the arena's size.  mmap only promises *)
(* a multiple of the page size.                                            *)
BaseAligned == Base % BlockSize[MaxOrder] = 0

VARIABLES freeLists,   \* freeLists_: per order, the block addresses, head first
          live,        \* the blocks callers hold, as [ptr, order]
          mutex,       \* mutex_: the thread inside the critical section
          pc,          \* where each thread is in Allocate or Free
          order,       \* the order Allocate was asked for
          level,       \* the order argument of the current recursion level
          ptr          \* the block of the current recursion level

vars == <<freeLists, live, mutex, pc, order, level, ptr>>

-----------------------------------------------------------------------------
(* Sizes and addresses. *)

(* ceil(log2(size / minBlockSize_)): the first order whose block holds size *)
(* bytes, some order beyond MaxOrder when there is none.                    *)
GetOrder(size) ==
    IF size > BlockSize[MaxOrder] THEN MaxOrder + 1
    ELSE CHOOSE k \in Orders : size <= BlockSize[k] /\ (k = 0 \/ BlockSize[k - 1] < size)

BlockSizeForRequest(size) == BlockSize[GetOrder(size)]

(* The bit of weight w (a power of two) of the address a. *)
Bit(a, w) == (a \div w) % 2

(* base + (offset ^ blockSize) *)
BuddyOf(a, k) ==
    IF Bit(a - Base, BlockSize[k]) = 0 THEN a + BlockSize[k] ELSE a - BlockSize[k]

(* ptr & ~blockSize, on the absolute address *)
Merged(a, k) == IF Bit(a, BlockSize[k]) = 0 THEN a ELSE a - BlockSize[k]

(* Mutation: the head is returned but stays on the list. *)
PopNodeKeepsHead(k) == freeLists

(* PushNode, PopNode and RemoveNodeIfPresent on the list of one order. *)
PushNode(k, a) == [freeLists EXCEPT ![k] = <<a>> \o @]
PopNode(k) == [freeLists EXCEPT ![k] = Tail(@)]
RemoveNode(k, i) == [freeLists EXCEPT ![k] = SubSeq(@, 1, i - 1) \o SubSeq(@, i + 1, Len(@))]

-----------------------------------------------------------------------------
Init ==
    /\ freeLists = [k \in Orders |-> IF k = MaxOrder THEN <<Base>> ELSE <<>>]
    /\ live = {}
    /\ mutex = NoThread
    /\ pc = [t \in Threads |-> "idle"]
    /\ order = [t \in Threads |-> 0]
    /\ level = [t \in Threads |-> 0]
    /\ ptr = [t \in Threads |-> 0]

(* Leave the critical section and the call; the dead registers are cleared. *)
Return(t) ==
    /\ mutex' = NoThread
    /\ pc' = [pc EXCEPT ![t] = "idle"]
    /\ order' = [order EXCEPT ![t] = 0]
    /\ level' = [level EXCEPT ![t] = 0]
    /\ ptr' = [ptr EXCEPT ![t] = 0]

AllocateCall(t, size) ==
    /\ pc[t] = "idle"
    /\ GetOrder(size) \in Orders
    /\ order' = [order EXCEPT ![t] = GetOrder(size)]
    /\ pc' = [pc EXCEPT ![t] = "allocLock"]
    /\ UNCHANGED <<freeLists, live, mutex, level, ptr>>

AllocateLock(t) ==
    /\ pc[t] = "allocLock"
    /\ mutex = NoThread
    /\ mutex' = t
    /\ level' = [level EXCEPT ![t] = order[t]]
    /\ pc' = [pc EXCEPT ![t] = "allocInternal"]
    /\ UNCHANGED <<freeLists, live, order, ptr>>

(* Mutation: the recursion stops one order too early. *)
AllocateNullEarly(t) ==
    /\ pc[t] = "allocInternal"
    /\ level[t] >= MaxOrder
    /\ Return(t)
    /\ UNCHANGED <<freeLists, live>>

(* AllocateInternal: no list down to maxOrder_ has a block, nullptr travels *)
(* back through every level.                                                *)
AllocateNull(t) ==
    /\ pc[t] = "allocInternal"
    /\ level[t] > MaxOrder
    /\ Return(t)
    /\ UNCHANGED <<freeLists, live>>

(* AllocateInternal: take the head of this order's list. *)
AllocatePop(t) ==
    /\ pc[t] = "allocInternal"
    /\ level[t] <= MaxOrder
    /\ freeLists[level[t]] # <<>>
    /\ ptr' = [ptr EXCEPT ![t] = Head(freeLists[level[t]])]
    /\ freeLists' = PopNode(level[t])
    /\ pc' = [pc EXCEPT ![t] = "split"]
    /\ UNCHANGED <<live, mutex, order, level>>

(* Mutation: the recursive call passes the same order. *)
AllocateDeeperSame(t) ==
    /\ pc[t] = "allocInternal"
    /\ level[t] <= MaxOrder
    /\ freeLists[level[t]] = <<>>
    /\ UNCHANGED vars

(* AllocateInternal: the list is empty, recurse into the next order. *)
AllocateDeeper(t) ==
    /\ pc[t] = "allocInternal"
    /\ level[t] <= MaxOrder
    /\ freeLists[level[t]] = <<>>
    /\ level' = [level EXCEPT ![t] = @ + 1]
    /\ UNCHANGED <<freeLists, live, mutex, pc, order, ptr>>

(* Mutation: the upper half is not put on a list. *)
AllocateSplitDrops(t) ==
    /\ pc[t] = "split"
    /\ level[t] > order[t]
    /\ level' = [level EXCEPT ![t] = @ - 1]
    /\ UNCHANGED <<freeLists, live, mutex, pc, order, ptr>>

(* Mutation: the half that is kept is also put on the list. *)
AllocateSplitShares(t) ==
    /\ pc[t] = "split"
    /\ level[t] > order[t]
    /\ freeLists' = PushNode(level[t] - 1, ptr[t])
    /\ level' = [level EXCEPT ![t] = @ - 1]
    /\ UNCHANGED <<live, mutex, pc, order, ptr>>

(* AllocateInternal, after the recursive call returned a block one order    *)
(* larger: keep the lower half, put the upper half on this order's list.    *)
AllocateSplit(t) ==
    /\ pc[t] = "split"
    /\ level[t] > order[t]
    /\ freeLists' = PushNode(level[t] - 1, ptr[t] + BlockSize[level[t] - 1])
    /\ level' = [level EXCEPT ![t] = @ - 1]
    /\ UNCHANGED <<live, mutex, pc, order, ptr>>

AllocateReturn(t) ==
    /\ pc[t] = "split"
    /\ level[t] = order[t]
    /\ live' = live \cup {[ptr |-> ptr[t], order |-> order[t]]}
    /\ Return(t)
    /\ UNCHANGED freeLists

(* Free(ptr, size) of a live block, by whichever thread holds it now.  The  *)
(* caller passes a size of the block's order: the one it asked for, or the  *)
(* BlockSizeForRequest of it.                                               *)
FreeCall(t, b) ==
    /\ pc[t] = "idle"
    /\ live' = live \ {b}
    /\ ptr' = [ptr EXCEPT ![t] = b.ptr]
    /\ level' = [level EXCEPT ![t] = b.order]
    /\ pc' = [pc EXCEPT ![t] = "freeLock"]
    /\ UNCHANGED <<freeLists, mutex, order>>

FreeLock(t) ==
    /\ pc[t] = "freeLock"
    /\ mutex = NoThread
    /\ mutex' = t
    /\ pc' = [pc EXCEPT ![t] = "freeInternal"]
    /\ UNCHANGED <<freeLists, live, order, level, ptr>>

(* FreeInternal: the buddy is on the list of this order; take it off and    *)
(* recurse with the merged block.                                           *)
FreeMerge(t) ==
    /\ pc[t] = "freeInternal"
    /\ level[t] < MaxOrder
    /\ \E i \in 1 .. Len(freeLists[level[t]]) :
         /\ freeLists[level[t]][i] = BuddyOf(ptr[t], level[t])
         /\ \A j \in 1 .. i - 1 : freeLists[level[t]][j] # BuddyOf(ptr[t], level[t])
         /\ freeLists' = RemoveNode(level[t], i)
    /\ ptr' = [ptr EXCEPT ![t] = Merged(@, level[t])]
    /\ level' = [level EXCEPT ![t] = @ + 1]
    /\ UNCHANGED <<live, mutex, pc, order>>

(* Mutation: the recursion stops one order below the whole arena. *)
FreePushEarly(t) ==
    /\ pc[t] = "freeInternal"
    /\ \/ level[t] >= MaxOrder - 1
       \/ BuddyOf(ptr[t], level[t]) \notin Range(freeLists[level[t]])
    /\ freeLists' = PushNode(level[t], ptr[t])
    /\ Return(t)
    /\ UNCHANGED live

(* FreeInternal: the whole arena, or no free buddy; the recursion ends.     *)
FreePush(t) ==
    /\ pc[t] = "freeInternal"
    /\ \/ level[t] = MaxOrder
       \/ BuddyOf(ptr[t], level[t]) \notin Range(freeLists[level[t]])
    /\ freeLists' = PushNode(level[t], ptr[t])
    /\ Return(t)
    /\ UNCHANGED live

(* The steps a thread takes on its own once it holds the mutex. *)
Inside(t) ==
    \/ AllocateNull(t) \/ AllocatePop(t) \/ AllocateDeeper(t)
    \/ AllocateSplit(t) \/ AllocateReturn(t)
    \/ FreeMerge(t) \/ FreePush(t)

Next ==
    \E t \in Threads :
        \/ \E size \in Sizes : AllocateCall(t, size)
        \/ AllocateLock(t)
        \/ \E b \in live : FreeCall(t, b)
        \/ FreeLock(t)
        \/ Inside(t)

Spec == Init /\ [][Next]_vars

(* A thread inside the critical section is running code: it goes on.  No    *)
(* fairness is assumed of std::mutex or of the callers.                     *)
FairSpec == Spec /\ \A t \in Threads : WF_vars(Inside(t))

-----------------------------------------------------------------------------
(* Who holds which part of the arena: the free lists, the callers, and the  *)
(* threads between two recursion levels.                                    *)
Flying(t) == pc[t] \in {"split", "freeLock", "freeInternal"}

ListPieces == UNION {{[holder |-> "list", ptr |-> a, order |-> k] : a \in Range(freeLists[k])} : k \in Orders}
CallerPieces == {[holder |-> "caller", ptr |-> b.ptr, order |-> b.order] : b \in live}
ThreadPieces == {[holder |-> t, ptr |-> ptr[t], order |-> level[t]] : t \in {u \in Threads : Flying(u)}}

Pieces == ListPieces \cup CallerPieces \cup ThreadPieces

BytesOf(b) == b.ptr .. b.ptr + BlockSize[b.order] - 1

Arena == Base .. Base + BlockSize[MaxOrder] - 1

(* The addresses where a block of order k may start. *)
Slots(k) == {a \in Arena : (a - Base) % BlockSize[k] = 0}

(* The variables have their types. *)
TypeOK ==
    /\ freeLists \in [Orders -> Seq(Int)]
    /\ live \subseteq [ptr : Int, order : Orders]
    /\ mutex \in Threads \cup {NoThread}
    /\ pc \in [Threads -> {"idle", "allocLock", "allocInternal", "split", "freeLock", "freeInternal"}]
    /\ order \in [Threads -> Orders]
    /\ level \in [Threads -> 0 .. MaxOrder + 1]
    /\ ptr \in [Threads -> Int]

(* Whatever Allocate and Free do in whatever order, no two of the free      *)
(* blocks, the callers' blocks and the blocks being split or merged share a *)
(* byte, and no free list names a block twice.                              *)
NoOverlap ==
    /\ \A x, y \in Pieces : x # y => BytesOf(x) \cap BytesOf(y) = {}
    /\ \A k \in Orders : IsInjective(freeLists[k])

(* Splitting and merging never lose memory: every byte of the arena is in a *)
(* free block, a caller's block or a block being split or merged, and none  *)
(* of them reaches outside the arena.                                       *)
NoLeak == UNION {BytesOf(x) : x \in Pieces} = Arena

(* FreeInternal leaves no work behind, not even while a thread is between   *)
(* two recursion levels: no block on a list has its buddy on the same list. *)
Coalesced ==
    \A k \in Orders : k < MaxOrder =>
        \A a \in Range(freeLists[k]) : BuddyOf(a, k) \notin Range(freeLists[k])

(* The facts about the threads that the invariants above rest on.  Exactly  *)
(* the threads in the recursions hold the mutex, their levels are in range, *)
(* and the lists AllocateInternal has passed on its way up are empty.       *)
CallInv ==
    \A t \in Threads :
        /\ pc[t] \in {"allocInternal", "split", "freeInternal"} <=> mutex = t
        /\ pc[t] \in {"allocInternal", "split"} =>
             /\ order[t] <= level[t]
             /\ \A k \in Orders : order[t] <= k /\ k < level[t] => freeLists[k] = <<>>
        /\ Flying(t) => level[t] \in Orders

(* Every block sits at a multiple of its size from the base. *)
AlignedPieces == \A x \in Pieces : x.ptr \in Slots(x.order)

(* The inductive invariant of the allocator over an aligned base. *)
IInv == TypeOK /\ CallInv /\ AlignedPieces /\ NoOverlap /\ NoLeak /\ Coalesced

(* AllocateInternal gives up only when it must: at the moment it returns    *)
(* nullptr, every place where a block of the requested order could lie      *)
(* holds a byte of a block a caller has, or has handed to a Free that is    *)
(* still waiting for the mutex.                                             *)
NullOnlyWhenFull ==
    [][\A t \in Threads : AllocateNull(t) =>
          \A a \in Slots(order[t]) :
              \E x \in Pieces : /\ x.holder # "list"
                                /\ BytesOf(x) \cap BytesOf([ptr |-> a, order |-> order[t]]) # {}]_vars

(* FreeInternal's comment on the merge: "find the lower address of the      *)
(* pair".                                                                   *)
MergesToLowerAddress ==
    [][\A t \in Threads : FreeMerge(t) =>
          ptr'[t] = IF BuddyOf(ptr[t], level[t]) < ptr[t] THEN BuddyOf(ptr[t], level[t]) ELSE ptr[t]]_vars

(* No recursion runs away: the mutex is always given back.                  *)
MutexReleased == \A t \in Threads : mutex = t ~> mutex = NoThread

H == INSTANCE Heap WITH
       ArenaBase <- Base,
       ArenaSize <- BlockSize[MaxOrder],
       live <- {[ptr |-> b.ptr, size |-> BlockSize[b.order]] : b \in live}

(* Seen through the callers' blocks, Allocate and Free make up a heap.      *)
HeapSpec == H!Spec
=============================================================================
