------------------------------- MODULE Stack --------------------------------
(***************************************************************************)
(* What a free list promises: a last-in first-out stack of nodes, each of  *)
(* them on the stack, in a caller's hands, or on its way onto the stack.   *)
(***************************************************************************)
EXTENDS Sequences

CONSTANT Nodes

VARIABLES stack,   \* the nodes on the list, top first
          held     \* the nodes callers have

Init == stack = <<>> /\ held = Nodes

(* A caller hands a node over; it reaches the stack later. *)
Give(n) == n \in held /\ held' = held \ {n} /\ UNCHANGED stack

Push(n) == n \notin held /\ stack' = <<n>> \o stack /\ UNCHANGED held

Pop == /\ stack # <<>>
       /\ Head(stack) \notin held
       /\ held' = held \cup {Head(stack)}
       /\ stack' = Tail(stack)

Next == Pop \/ \E n \in Nodes : Give(n) \/ Push(n)

Spec == Init /\ [][Next]_<<stack, held>>
=============================================================================
