------------------------------ MODULE MCVMSystem -----------------------------
(* An instance of VMSystem for TLC: any access at any time, under each     *)
(* policy.  Optimal's trace names pages, and is read as frame numbers.     *)
EXTENDS VMSystem

MCTrace == <<0, 1, 0, 2>>
=============================================================================
