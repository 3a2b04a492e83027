---------------------------- MODULE PoolAllocator ----------------------------
(***************************************************************************)
(* include/PoolAllocator.hpp: a fixed number of slots on a free list whose *)
(* links are kept inside the free slots.  The class takes no lock and has  *)
(* no atomics, so a pool is one thread's; a call is one step.  A slot is   *)
(* known by its position in the storage.                                   *)
(***************************************************************************)
EXTENDS Integers, Sequences, Functions

CONSTANT NumSlots        \* numSlots_

Slots == 1 .. NumSlots
Null == 0
Junk == NumSlots + 1     \* what the holder of a slot wrote over its link

VARIABLES freeList,      \* freeList_
          next,          \* the first word of every slot, read as Node::next
          held,          \* the slots in the caller's hands
          stack          \* history: the free slots, first one first; never read

vars == <<freeList, next, held, stack>>

(* The constructor links the slots in address order. *)
Init ==
    /\ freeList = 1
    /\ next = [s \in Slots |-> IF s = NumSlots THEN Null ELSE s + 1]
    /\ held = {}
    /\ stack = [i \in Slots |-> i]

Allocate ==
    /\ freeList # Null
    /\ freeList' = next[freeList]
    /\ held' = held \cup {freeList}
    /\ stack' = Tail(stack)
    /\ UNCHANGED next

(* The pool is full: nullptr. *)
AllocateNull == freeList = Null /\ UNCHANGED vars

Free(s) ==
    /\ s \in held
    /\ next' = [next EXCEPT ![s] = freeList]
    /\ freeList' = s
    /\ held' = held \ {s}
    /\ stack' = <<s>> \o stack

(* The caller stores into its object, over the link. *)
Use(s) ==
    /\ s \in held
    /\ next' = [next EXCEPT ![s] = Junk]
    /\ UNCHANGED <<freeList, held, stack>>

Next == Allocate \/ AllocateNull \/ \E s \in Slots : Free(s) \/ Use(s)

Spec == Init /\ [][Next]_vars

-----------------------------------------------------------------------------
(* The variables have their types: freeList_ never holds caller's data. *)
TypeOK ==
    /\ freeList \in Slots \cup {Null}
    /\ next \in [Slots -> Slots \cup {Null, Junk}]
    /\ held \subseteq Slots
    /\ stack \in Seq(Slots)

(* A slot is either free, once, or in the caller's hands: Allocate never    *)
(* returns a slot in use, and no slot is lost.                              *)
OneHolder ==
    /\ IsInjective(stack)
    /\ held \cap Range(stack) = {}
    /\ held \cup Range(stack) = Slots

(* Following the links from freeList_ visits the free slots and ends with   *)
(* nullptr, whatever the caller writes into its slots.                      *)
Linked ==
    /\ freeList = IF stack = <<>> THEN Null ELSE stack[1]
    /\ \A i \in 1 .. Len(stack) :
         next[stack[i]] = IF i = Len(stack) THEN Null ELSE stack[i + 1]

(* "or nullptr if the pool is full": exactly when the caller holds every    *)
(* slot.                                                                    *)
NullWhenFull == freeList = Null <=> held = Slots

(* The inductive invariant of Allocate and Free. *)
IInv == TypeOK /\ OneHolder /\ Linked
=============================================================================
