-------------------------------- MODULE Arena --------------------------------
(***************************************************************************)
(* include/LinearArena.hpp and include/StackArena.hpp: bump allocation     *)
(* with alignment, and Reset.  The two classes share the arithmetic; they  *)
(* differ in where the buffer comes from.  Addresses and offsets are       *)
(* size_t, that is, numbers modulo Word (2^64 in the code).                *)
(***************************************************************************)
EXTENDS Integers

CONSTANTS Word,          \* 2 to the number of bits of size_t
          Base,          \* address of the buffer
          Capacity,      \* its size
          Sizes, Alignments    \* the requests

VARIABLES offset,        \* offset_
          live           \* history: the blocks handed out since the last Reset

vars == <<offset, live>>

(* MemoryUtils::AlignUp, for an alignment that is a power of two. *)
AlignUp(n, alignment) ==
    LET sum == (n + alignment - 1) % Word IN sum - (sum % alignment)

Init ==
    /\ offset = 0
    /\ live = {}

Aligned(alignment) == AlignUp((Base + offset) % Word, alignment)

(* newOffset of Allocate. *)
NewOffset(size, alignment) == (Aligned(alignment) - Base + size) % Word

Allocate(size, alignment) ==
    /\ NewOffset(size, alignment) <= Capacity
    /\ offset' = NewOffset(size, alignment)
    /\ live' = live \cup {[ptr |-> Aligned(alignment), size |-> size, alignment |-> alignment]}

AllocateNull(size, alignment) ==
    /\ NewOffset(size, alignment) > Capacity
    /\ UNCHANGED vars

(* Reset, also by ~ArenaScope: the caller gives up every block. *)
Reset ==
    /\ offset' = 0
    /\ live' = {}

Next == \/ \E size \in Sizes, alignment \in Alignments :
             Allocate(size, alignment) \/ AllocateNull(size, alignment)
        \/ Reset

Spec == Init /\ [][Next]_vars

-----------------------------------------------------------------------------
BytesOf(b) == b.ptr .. b.ptr + b.size - 1

(* Whatever sizes and alignments Allocate is called with, its blocks are   *)
(* aligned as asked, lie in the used part of the buffer and do not overlap.*)
BlocksDisjoint ==
    /\ \A b \in live : b.ptr % b.alignment = 0
    /\ \A b \in live : b.ptr >= Base /\ b.ptr + b.size <= Base + offset
    /\ \A b, c \in live : b # c => BytesOf(b) \cap BytesOf(c) = {}
    /\ offset <= Capacity

(* No sum in Allocate wraps around.  The code does not check this: with a  *)
(* size near 2^64 newOffset is small again and the block is granted.       *)
NoWrap ==
    /\ Word \in Nat /\ Base \in Nat /\ Capacity \in Nat
    /\ Sizes \subseteq Nat /\ Alignments \subseteq Nat \ {0}
    /\ \A size \in Sizes, alignment \in Alignments : Base + Capacity + alignment + size <= Word

(* The variables have their types. *)
TypeOK ==
    /\ offset \in Nat
    /\ live \subseteq [ptr : Nat, size : Sizes, alignment : Alignments]

(* The inductive invariant of Allocate and Reset. *)
IInv == TypeOK /\ BlocksDisjoint
=============================================================================
