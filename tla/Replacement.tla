----------------------------- MODULE Replacement -----------------------------
(***************************************************************************)
(* memlab/vm/replacement: the four page replacement policies behind        *)
(* IReplacement, as operators on the policy object's state, whose field    *)
(* kind is the object's class.  victim() may change that state and, for an *)
(* unordered container, may choose: each ...Victims(s) is the set of its   *)
(* outcomes [frame, next].                                                 *)
(***************************************************************************)
EXTENDS Integers, Sequences, FiniteSets, Functions, FiniteSetsExt

CONSTANT Trace      \* what OptimalReplacement is constructed with

(* erase of the first x of a container that has one. *)
Erase(s, x) ==
    LET i == Min({j \in DOMAIN s : s[j] = x})
    IN  SubSeq(s, 1, i - 1) \o SubSeq(s, i + 1, Len(s))

(* FIFOReplacement: victim() drops the entries at the front of _order that *)
(* are not in use; it leaves the one it returns.                           *)
FifoNew == [kind |-> "FIFO", order |-> <<>>, inUse |-> {}]

FifoOnLoad(s, f) == [s EXCEPT !.order = Append(@, f), !.inUse = @ \cup {f}]

FifoVictims(s) ==
    LET first == Min({i \in DOMAIN s.order : s.order[i] \in s.inUse})
    IN  {[frame |-> s.order[first], next |-> [s EXCEPT !.order = SubSeq(@, first, Len(@))]]}

FifoOnEvict(s, f) == [s EXCEPT !.inUse = @ \ {f}]

(* LRUReplacement: the list, most recently used first.  Its map holds an   *)
(* iterator for exactly the frames of the list.                            *)
LruNew == [kind |-> "LRU", list |-> <<>>]

LruOnLoad(s, f) == [s EXCEPT !.list = <<f>> \o @]

(* Mutation: accesses do not count. *)
LruOnAccessIgnored(s, f) == s

LruOnAccess(s, f) ==
    IF f \in Range(s.list) THEN [s EXCEPT !.list = <<f>> \o Erase(@, f)] ELSE s

LruVictims(s) == {[frame |-> s.list[Len(s.list)], next |-> s]}

LruOnEvict(s, f) == IF f \in Range(s.list) THEN [s EXCEPT !.list = Erase(@, f)] ELSE s

(* ClockReplacement: the ring and the hand count from 0 in the code and    *)
(* from 1 here.                                                            *)
ClockNew == [kind |-> "Clock", ring |-> <<>>, index |-> [f \in {} |-> 0], hand |-> 1]

ClockOnLoad(s, f) ==
    [s EXCEPT !.ring = Append(@, [frame |-> f, ref |-> TRUE]),
              !.index = [g \in DOMAIN @ \cup {f} |-> IF g = f THEN Len(s.ring) + 1 ELSE @[g]]]

(* Mutation: the reference bit is not set. *)
ClockOnAccessIgnored(s, f) == s

ClockOnAccess(s, f) ==
    IF f \in DOMAIN s.index THEN [s EXCEPT !.ring[s.index[f]].ref = TRUE] ELSE s

(* The hand passes the referenced slots and clears them: as many as stand   *)
(* before the first unreferenced one, or the whole ring.                   *)
ClockVictims(s) ==
    LET n == Len(s.ring)
        At(k) == ((s.hand - 1 + k) % n) + 1
        passed == Min({k \in 0 .. n - 1 : ~s.ring[At(k)].ref} \cup {n})
        cleared == {At(k) : k \in 0 .. passed - 1}
        ring == [i \in 1 .. n |-> IF i \in cleared THEN [s.ring[i] EXCEPT !.ref = FALSE] ELSE s.ring[i]]
    IN  {[frame |-> s.ring[At(passed)].frame, next |-> [s EXCEPT !.ring = ring, !.hand = At(passed)]]}

(* Mutation: the index of the moved slot is not updated. *)
ClockOnEvictStale(s, f) ==
    IF f \notin DOMAIN s.index THEN s
    ELSE LET n == Len(s.ring)
         IN  [s EXCEPT !.ring = SubSeq([@ EXCEPT ![s.index[f]] = s.ring[n]], 1, n - 1),
                       !.index = Restrict(@, DOMAIN @ \ {f}),
                       !.hand = IF @ > n - 1 /\ n > 1 THEN 1 ELSE @]

(* The last slot takes the place of the evicted one. *)
ClockOnEvict(s, f) ==
    IF f \notin DOMAIN s.index THEN s
    ELSE LET at == s.index[f]
             n == Len(s.ring)
         IN  [s EXCEPT !.ring = SubSeq([@ EXCEPT ![at] = s.ring[n]], 1, n - 1),
                       !.index = [g \in DOMAIN @ \ {f} |-> IF g = s.ring[n].frame THEN at ELSE @[g]],
                       !.hand = IF @ > n - 1 /\ n > 1 THEN 1 ELSE @]

(* OptimalReplacement: _pos only moves in advance(), which nothing calls,  *)
(* and the scan compares the pages of the trace with frame numbers.        *)
OptimalNew == [kind |-> "Optimal", loaded |-> {}, pos |-> 1]

OptimalOnLoad(s, f) == [s EXCEPT !.loaded = @ \cup {f}]

NextUse(x, pos) == Min({j \in pos .. Len(Trace) : Trace[j] = x} \cup {Len(Trace) + 1})

OptimalVictims(s) ==
    {[frame |-> f, next |-> s] :
       f \in {g \in s.loaded : \A h \in s.loaded : NextUse(g, s.pos) >= NextUse(h, s.pos)}}

OptimalOnEvict(s, f) == [s EXCEPT !.loaded = @ \ {f}]

(* The virtual calls of IReplacement. *)
OnLoad(s, f) == CASE s.kind = "FIFO" -> FifoOnLoad(s, f) [] s.kind = "LRU" -> LruOnLoad(s, f)
                  [] s.kind = "Clock" -> ClockOnLoad(s, f) [] s.kind = "Optimal" -> OptimalOnLoad(s, f)

OnAccess(s, f) == CASE s.kind = "LRU" -> LruOnAccess(s, f) [] s.kind = "Clock" -> ClockOnAccess(s, f)
                    [] OTHER -> s

Victims(s) == CASE s.kind = "FIFO" -> FifoVictims(s) [] s.kind = "LRU" -> LruVictims(s)
                [] s.kind = "Clock" -> ClockVictims(s) [] s.kind = "Optimal" -> OptimalVictims(s)

OnEvict(s, f) == CASE s.kind = "FIFO" -> FifoOnEvict(s, f) [] s.kind = "LRU" -> LruOnEvict(s, f)
                   [] s.kind = "Clock" -> ClockOnEvict(s, f) [] s.kind = "Optimal" -> OptimalOnEvict(s, f)

(* The frames the policy believes are in memory. *)
Tracked(s) == CASE s.kind = "FIFO" -> s.inUse [] s.kind = "LRU" -> Range(s.list)
                [] s.kind = "Clock" -> DOMAIN s.index [] s.kind = "Optimal" -> s.loaded
=============================================================================
