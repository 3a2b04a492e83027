------------------------------- MODULE FirstFit ------------------------------
(***************************************************************************)
(* memlab/sim/contiguous_demo.cpp, class FirstFitAllocator: the arena as a *)
(* vector of blocks in address order.  Pointers are offset + 1 in the      *)
(* code, so that offset 0 is not nullptr; here they are offsets.           *)
(***************************************************************************)
EXTENDS Integers, Sequences, Functions, FiniteSetsExt, SequencesExt

CONSTANTS Total,         \* the arena's size
          Sizes          \* the sizes asked for

VARIABLES blocks,        \* the vector of [offset, size, free]
          live           \* history: the blocks callers hold, as [ptr, size]

vars == <<blocks, live>>

Init ==
    /\ blocks = <<[offset |-> 0, size |-> Total, free |-> TRUE]>>
    /\ live = {}

Fits(size) == {i \in DOMAIN blocks : blocks[i].free /\ blocks[i].size >= size}

(* Mutation: the remainder begins inside the block that is given out. *)
CarveOverlaps(i, size) ==
    LET b == blocks[i]
        taken == [offset |-> b.offset, size |-> size, free |-> FALSE]
        rem == [offset |-> b.offset + size - 1, size |-> b.size - size + 1, free |-> TRUE]
    IN  SubSeq(blocks, 1, i - 1) \o <<taken, rem>> \o SubSeq(blocks, i + 1, Len(blocks))

(* The block of index i is given out; what exceeds size becomes a free     *)
(* block behind it.                                                        *)
Carve(i, size) ==
    LET b == blocks[i]
        taken == [offset |-> b.offset, size |-> size, free |-> FALSE]
        rem == [offset |-> b.offset + size, size |-> b.size - size, free |-> TRUE]
    IN  SubSeq(blocks, 1, i - 1) \o (IF b.size > size THEN <<taken, rem>> ELSE <<taken>>)
          \o SubSeq(blocks, i + 1, Len(blocks))

Allocate(size) ==
    LET i == Min(Fits(size))
    IN  /\ Fits(size) # {}
        /\ blocks' = Carve(i, size)
        /\ live' = live \cup {[ptr |-> blocks[i].offset, size |-> size]}

AllocateNull(size) == Fits(size) = {} /\ UNCHANGED vars

(* Mutation: free neighbours stay apart. *)
CoalesceNone(bs) == bs

(* The pass of Free over the vector: a free block swallows the free blocks *)
(* that follow it.                                                         *)
Coalesce(bs) ==
    LET Step(acc, b) ==
          IF acc # <<>> /\ Last(acc).free /\ b.free
          THEN [acc EXCEPT ![Len(acc)].size = @ + b.size] ELSE Append(acc, b)
    IN  FoldLeft(Step, <<>>, bs)

Free(b) ==
    LET i == Min({j \in DOMAIN blocks : blocks[j].offset = b.ptr})
    IN  /\ b \in live
        /\ blocks' = Coalesce([blocks EXCEPT ![i].free = TRUE])
        /\ live' = live \ {b}

Next == \/ \E size \in Sizes : Allocate(size) \/ AllocateNull(size)
        \/ \E b \in live : Free(b)

Spec == Init /\ [][Next]_vars

-----------------------------------------------------------------------------
(* The blocks tile the arena in address order and those in use are the     *)
(* callers' blocks with the sizes they asked for: nothing is lost.         *)
Tiling ==
    /\ blocks[1].offset = 0 /\ Last(blocks).offset + Last(blocks).size = Total
    /\ \A i \in 1 .. Len(blocks) - 1 : blocks[i + 1].offset = blocks[i].offset + blocks[i].size
    /\ \A i \in DOMAIN blocks : blocks[i].size > 0
    /\ live = {[ptr |-> blocks[i].offset, size |-> blocks[i].size] : i \in {j \in DOMAIN blocks : ~blocks[j].free}}

(* nullptr only when no run of free bytes is long enough: free neighbours  *)
(* are always joined, whatever the order of the frees.                     *)
NullOnlyWhenNoRun ==
    \A size \in Sizes : Fits(size) = {} =>
      \A a \in 0 .. Total - size : \E b \in live : b.ptr < a + size /\ a < b.ptr + b.size

Abstract == INSTANCE Heap WITH ArenaBase <- 0, ArenaSize <- Total

(* Allocate and Free make up a heap: bytes in use are never handed out.    *)
HeapSpec == Abstract!Spec
=============================================================================
