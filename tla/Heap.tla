-------------------------------- MODULE Heap --------------------------------
(***************************************************************************)
(* What every general allocator of the library promises its callers.  A    *)
(* call hands out a block of the arena that no live block overlaps, and a  *)
(* block stays live until its holder gives it back.  Returning nullptr is  *)
(* always allowed here and changes nothing; when a particular allocator    *)
(* may do so is stated in that allocator's own module.                     *)
(***************************************************************************)
EXTENDS Integers

CONSTANTS ArenaBase,   \* address of the first byte of the managed arena
          ArenaSize    \* its length in bytes

VARIABLE live          \* the blocks callers hold

BytesOf(b) == b.ptr .. b.ptr + b.size - 1

(* The blocks that lie inside the arena. *)
Block == {b \in [ptr : ArenaBase .. ArenaBase + ArenaSize - 1, size : 1 .. ArenaSize] :
            b.ptr + b.size <= ArenaBase + ArenaSize}

Init == live = {}

Obtain(b) ==
    /\ \A c \in live : BytesOf(b) \cap BytesOf(c) = {}
    /\ live' = live \cup {b}

Release(b) ==
    /\ b \in live
    /\ live' = live \ {b}

Next == \E b \in Block : Obtain(b) \/ Release(b)

Spec == Init /\ [][Next]_live
=============================================================================
