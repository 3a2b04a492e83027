-------------------------- MODULE MCBuddyAllocator --------------------------
(* Small instances of BuddyAllocator for TLC: a minimum block of two bytes. *)
EXTENDS BuddyAllocator

MCBlockSize == [k \in 0 .. MaxOrder |-> 2 * 2 ^ k]
=============================================================================
