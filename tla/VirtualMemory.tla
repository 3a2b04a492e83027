---------------------------- MODULE VirtualMemory ----------------------------
(***************************************************************************)
(* include/VirtualMemory.hpp: the RAII owner of a block of pages, over     *)
(* mmap and munmap (include/MemoryUtils.hpp, the POSIX branch).  A block   *)
(* is known by its address; sizes count pages.                             *)
(***************************************************************************)
EXTENDS Integers

CONSTANTS Objects,       \* the variables of type VirtualMemory
          Blocks,        \* the addresses mmap can return
          MaxPages,      \* the largest size of a block
          Null, MapFailed

VARIABLES obj,           \* object -> its ptr_ and size_, or Dead
          mapped         \* the system's view: block -> pages mapped there

vars == <<obj, mapped>>

Dead == [alive |-> FALSE, ptr |-> Null, size |-> 0]
Holding(ptr, size) == [alive |-> TRUE, ptr |-> ptr, size |-> size]
Empty == Holding(Null, 0)

Alive(o) == obj[o].alive

(* FreeVirtualMemory: munmap of MAP_FAILED is an error and has no effect. *)
Unmapped(ptr, size) ==
    IF ptr \in Blocks THEN [mapped EXCEPT ![ptr] = @ - size] ELSE mapped

Init ==
    /\ obj = [o \in Objects |-> Dead]
    /\ mapped = [b \in Blocks |-> 0]

ConstructDefault(o) ==
    /\ ~Alive(o)
    /\ obj' = [obj EXCEPT ![o] = Empty]
    /\ UNCHANGED mapped

Construct(o) ==
    /\ ~Alive(o)
    /\ \E b \in Blocks, size \in 1..MaxPages :
         /\ mapped[b] = 0
         /\ obj' = [obj EXCEPT ![o] = Holding(b, size)]
         /\ mapped' = [mapped EXCEPT ![b] = size]

(* mmap refuses, as it always does for no pages: what it returns is not    *)
(* null, so the constructor does not throw.                                *)
ConstructFails(o) ==
    /\ ~Alive(o)
    /\ \E size \in 0..MaxPages : obj' = [obj EXCEPT ![o] = Holding(MapFailed, size)]
    /\ UNCHANGED mapped

MoveConstruct(o, other) ==
    /\ ~Alive(o) /\ Alive(other)
    /\ obj' = [obj EXCEPT ![o] = obj[other], ![other] = Empty]
    /\ UNCHANGED mapped

MoveAssign(o, other) ==
    /\ Alive(o) /\ Alive(other)
    /\ o # other
    /\ mapped' = Unmapped(obj[o].ptr, obj[o].size)
    /\ obj' = [obj EXCEPT ![o] = obj[other], ![other] = Empty]

Free(o) ==
    /\ Alive(o)
    /\ mapped' = Unmapped(obj[o].ptr, obj[o].size)
    /\ obj' = [obj EXCEPT ![o] = IF obj[o].ptr = Null THEN @ ELSE Empty]

Destroy(o) ==
    /\ Alive(o)
    /\ mapped' = Unmapped(obj[o].ptr, obj[o].size)
    /\ obj' = [obj EXCEPT ![o] = Dead]

Next == \E o \in Objects :
          \/ ConstructDefault(o)
          \/ Construct(o)
          \/ ConstructFails(o)
          \/ \E other \in Objects : MoveConstruct(o, other) \/ MoveAssign(o, other)
          \/ Free(o)
          \/ Destroy(o)

Spec == Init /\ [][Next]_vars

-----------------------------------------------------------------------------
(* "prevent double-free errors", and no leak either: through any sequence  *)
(* of moves, frees and destructions, the pages mapped at an address are    *)
(* exactly those of the one object that holds it.                          *)
OneOwner ==
    \A b \in Blocks :
      LET owners == {o \in Objects : obj[o].ptr = b} IN
      \/ owners = {} /\ mapped[b] = 0
      \/ \E o \in Objects : owners = {o} /\ Alive(o) /\ mapped[b] = obj[o].size

(* The variables have their types: a destroyed object holds nothing, and a *)
(* block that is held has at least one page.                               *)
TypeOK ==
    /\ obj \in [Objects -> [alive : BOOLEAN, ptr : Blocks \cup {Null, MapFailed}, size : Nat]]
    /\ mapped \in [Blocks -> Nat]
    /\ \A o \in Objects : ~Alive(o) => obj[o].ptr = Null
    /\ \A o \in Objects : obj[o].ptr \in Blocks => obj[o].size > 0

(* nullptr and MAP_FAILED are the addresses of no block. *)
Distinct == Null \notin Blocks /\ MapFailed \notin Blocks /\ Null # MapFailed

(* The inductive invariant of the moves, Free and the destructor. *)
IInv == TypeOK /\ OneOwner
=============================================================================
