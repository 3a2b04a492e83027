-------------------------------- MODULE Paging -------------------------------
(***************************************************************************)
(* What demand paging promises, whatever the replacement policy: a page    *)
(* enters memory only when it is accessed, and leaves only when another    *)
(* one needs its frame, one at a time, or with its owner.                  *)
(***************************************************************************)
EXTENDS FiniteSets, Integers

CONSTANTS Pages, Capacity,
          Owned          \* the sets of pages that may go together

VARIABLE resident

Init == resident = {}

Load(p) ==
    /\ p \notin resident
    /\ Cardinality(resident) < Capacity
    /\ resident' = resident \cup {p}

Replace(p, q) ==
    /\ p \notin resident
    /\ q \in resident
    /\ Cardinality(resident) = Capacity
    /\ resident' = (resident \ {q}) \cup {p}

Release(pages) == resident' = resident \ pages

Next ==
    \/ \E p, q \in Pages : Load(p) \/ Replace(p, q)
    \/ \E pages \in Owned : Release(pages)

Spec == Init /\ [][Next]_resident
=============================================================================
