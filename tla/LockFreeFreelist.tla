-------------------------- MODULE LockFreeFreelist --------------------------
(***************************************************************************)
(* include/LockFreeFreelist.hpp and include/TaggedPointer.hpp: a Treiber   *)
(* stack whose head is a pointer and a version tag, replaced by one        *)
(* 16-byte compare-and-swap.                                               *)
(*                                                                         *)
(* Every access to shared memory is a step of its own: the load of head_,  *)
(* the access to a node's next field, the compare-and-swap.  A node that   *)
(* has been popped belongs to a caller, who stores data over its next      *)
(* field while a slower popper may still be about to read that field.      *)
(* Steps are sequentially consistent, which is what the x86-64 build the   *)
(* header names (CMPXCHG16B) gives these accesses.                         *)
(***************************************************************************)
EXTENDS Integers, Sequences, Functions

CONSTANTS Threads,
          Nodes,      \* the blocks the list is used for
          Null,       \* nullptr
          Junk,       \* data in a next field that is no node's address
          MaxTag      \* the tag does not wrap around: 2^64 - 1 in the code

ASSUME NodesAssumption == Null \notin Nodes /\ Junk \notin Nodes /\ Null # Junk
ASSUME MaxTagAssumption == MaxTag \in Nat

VARIABLES head,    \* head_: [ptr, tag]
          next,    \* the next field of every node
          held,    \* the nodes in callers' hands
          pc,      \* where each thread is in Push or Pop
          node,    \* Push: the node to be pushed
          old,     \* oldHead
          nxt,     \* Pop: nextNode
          stack    \* history: the nodes on the list, top first; never read

vars == <<head, next, held, pc, node, old, nxt, stack>>

Init ==
    /\ head = [ptr |-> Null, tag |-> 0]
    /\ next = [n \in Nodes |-> Junk]
    /\ held = Nodes
    /\ pc = [t \in Threads |-> "idle"]
    /\ node = [t \in Threads |-> Null]
    /\ old = [t \in Threads |-> [ptr |-> Null, tag |-> 0]]
    /\ nxt = [t \in Threads |-> Null]
    /\ stack = <<>>

(* The call is over; the dead registers are cleared. *)
Return(t) ==
    /\ pc' = [pc EXCEPT ![t] = "idle"]
    /\ node' = [node EXCEPT ![t] = Null]
    /\ old' = [old EXCEPT ![t] = [ptr |-> Null, tag |-> 0]]
    /\ nxt' = [nxt EXCEPT ![t] = Null]

(* Push(ptr): load head_. *)
PushCall(t, n) ==
    /\ pc[t] = "idle"
    /\ n \in held
    /\ head.tag < MaxTag
    /\ held' = held \ {n}
    /\ node' = [node EXCEPT ![t] = n]
    /\ old' = [old EXCEPT ![t] = head]
    /\ pc' = [pc EXCEPT ![t] = "pushStore"]
    /\ UNCHANGED <<head, next, nxt, stack>>

(* node->next.store(oldHead.ptr) *)
PushStore(t) ==
    /\ pc[t] = "pushStore"
    /\ next' = [next EXCEPT ![node[t]] = old[t].ptr]
    /\ pc' = [pc EXCEPT ![t] = "pushCAS"]
    /\ UNCHANGED <<head, held, node, old, nxt, stack>>

PushCAS(t) ==
    /\ pc[t] = "pushCAS"
    /\ head = old[t]
    /\ head' = [ptr |-> node[t], tag |-> old[t].tag + 1]
    /\ stack' = <<node[t]>> \o stack
    /\ Return(t)
    /\ UNCHANGED <<next, held>>

(* A failed compare-and-swap refreshes oldHead and the loop goes round.     *)
(* compare_exchange_weak may fail although head_ equals oldHead.            *)
PushRetry(t) ==
    /\ pc[t] = "pushCAS"
    /\ old' = [old EXCEPT ![t] = head]
    /\ pc' = [pc EXCEPT ![t] = "pushStore"]
    /\ UNCHANGED <<head, next, held, node, nxt, stack>>

(* Pop(): load head_. *)
PopCall(t) ==
    /\ pc[t] = "idle"
    /\ head.tag < MaxTag
    /\ old' = [old EXCEPT ![t] = head]
    /\ pc' = [pc EXCEPT ![t] = "popRead"]
    /\ UNCHANGED <<head, next, held, node, nxt, stack>>

(* The loop's test fails: return nullptr. *)
PopEmpty(t) ==
    /\ pc[t] = "popRead"
    /\ old[t].ptr = Null
    /\ Return(t)
    /\ UNCHANGED <<head, next, held, stack>>

(* oldHead.ptr->next.load() *)
PopRead(t) ==
    /\ pc[t] = "popRead"
    /\ old[t].ptr # Null
    /\ nxt' = [nxt EXCEPT ![t] = next[old[t].ptr]]
    /\ pc' = [pc EXCEPT ![t] = "popCAS"]
    /\ UNCHANGED <<head, next, held, node, old, stack>>

(* Mutation: the pointer alone is compared, as without a tag. *)
PopCASUntagged(t) ==
    /\ pc[t] = "popCAS"
    /\ head.ptr = old[t].ptr
    /\ head' = [ptr |-> nxt[t], tag |-> head.tag + 1]
    /\ held' = held \cup {old[t].ptr}
    /\ stack' = Tail(stack)
    /\ Return(t)
    /\ UNCHANGED next

PopCAS(t) ==
    /\ pc[t] = "popCAS"
    /\ head = old[t]
    /\ head' = [ptr |-> nxt[t], tag |-> old[t].tag + 1]
    /\ held' = held \cup {old[t].ptr}
    /\ stack' = Tail(stack)
    /\ Return(t)
    /\ UNCHANGED next

(* Mutation: the result of the compare-and-swap is ignored, so that Pop     *)
(* returns the refreshed oldHead.ptr.                                       *)
PopRetryReturns(t) ==
    /\ pc[t] = "popCAS"
    /\ head # old[t]
    /\ head.ptr # Null
    /\ held' = held \cup {head.ptr}
    /\ Return(t)
    /\ UNCHANGED <<head, next, stack>>

(* Mutation: oldHead is not refreshed. *)
PopRetryStale(t) ==
    /\ pc[t] = "popCAS"
    /\ pc' = [pc EXCEPT ![t] = "popRead"]
    /\ UNCHANGED <<head, next, held, node, old, nxt, stack>>

PopRetry(t) ==
    /\ pc[t] = "popCAS"
    /\ old' = [old EXCEPT ![t] = head]
    /\ pc' = [pc EXCEPT ![t] = "popRead"]
    /\ UNCHANGED <<head, next, held, node, nxt, stack>>

(* The holder of a popped node uses its memory. *)
Use(n, v) ==
    /\ n \in held
    /\ next' = [next EXCEPT ![n] = v]
    /\ UNCHANGED <<head, held, pc, node, old, nxt, stack>>

Running(t) ==
    \/ PushStore(t) \/ PushCAS(t) \/ PushRetry(t)
    \/ PopEmpty(t) \/ PopRead(t) \/ PopCAS(t) \/ PopRetry(t)

Next ==
    \/ \E t \in Threads : Running(t) \/ PopCall(t) \/ \E n \in Nodes : PushCall(t, n)
    \/ \E n \in Nodes, v \in Nodes \cup {Null, Junk} : Use(n, v)

Spec == Init /\ [][Next]_vars

(* A thread inside Push or Pop keeps running, and its compare-and-swap does *)
(* not fail for ever while it could succeed.  As MaxTag bounds the number   *)
(* of successes, head_ is constant from some time on, and the second part   *)
(* only excludes endless spurious failures.                                 *)
FairSpec ==
    /\ Spec
    /\ \A t \in Threads : WF_vars(Running(t)) /\ SF_vars(PushCAS(t)) /\ SF_vars(PopCAS(t))

-----------------------------------------------------------------------------
Pointers == Nodes \cup {Null}
Pushing(t) == pc[t] \in {"pushStore", "pushCAS"}

(* The variables have their types; in particular head_ never holds data     *)
(* that a caller stored in a node it had popped.                            *)
TypeOK ==
    /\ head \in [ptr : Pointers, tag : Nat]
    /\ next \in [Nodes -> Nodes \cup {Null, Junk}]
    /\ held \subseteq Nodes
    /\ pc \in [Threads -> {"idle", "pushStore", "pushCAS", "popRead", "popCAS"}]
    /\ node \in [Threads -> Pointers]
    /\ old \in [Threads -> [ptr : Pointers, tag : Nat]]
    /\ nxt \in [Threads -> Nodes \cup {Null, Junk}]
    /\ stack \in Seq(Nodes)

(* Push and Pop neither lose nor duplicate a node: every node is in exactly *)
(* one of a caller's hands, the list (once), one Push in progress.          *)
OneOwner ==
    /\ IsInjective(stack)
    /\ held \cap Range(stack) = {}
    /\ \A t \in Threads : Pushing(t) => node[t] \in Nodes \ (held \cup Range(stack))
    /\ \A t, u \in Threads : Pushing(t) /\ Pushing(u) /\ t # u => node[t] # node[u]
    /\ \A n \in Nodes : n \in held \cup Range(stack) \/ \E t \in Threads : Pushing(t) /\ node[t] = n

(* Following the next fields from head_ visits exactly the nodes on the     *)
(* list and ends with nullptr, whatever callers write into popped nodes.    *)
Linked ==
    /\ head.ptr = IF stack = <<>> THEN Null ELSE stack[1]
    /\ \A i \in 1 .. Len(stack) :
         next[stack[i]] = IF i = Len(stack) THEN Null ELSE stack[i + 1]

(* What makes the tag sufficient: a thread whose oldHead still carries the  *)
(* tag of head_ has the right pointer and, in Pop, the right next node.     *)
TagFresh ==
    \A t \in Threads : pc[t] # "idle" =>
        /\ old[t].tag <= head.tag
        /\ old[t].tag = head.tag => old[t].ptr = head.ptr
        /\ pc[t] = "pushCAS" => next[node[t]] = old[t].ptr
        /\ pc[t] = "popCAS" => old[t].ptr \in Nodes
        /\ pc[t] = "popCAS" /\ old[t].tag = head.tag => nxt[t] = next[head.ptr]

(* The inductive invariant of Push and Pop. *)
IInv == TypeOK /\ OneOwner /\ Linked /\ TagFresh

S == INSTANCE Stack

(* Seen from outside, Push and Pop take effect at once, on a stack.         *)
StackSpec == S!Spec

(* Lock-freedom: a Push or Pop is held up only by other calls that succeed. *)
(* As only finitely many do here, every call ends.                          *)
CallsReturn == \A t \in Threads : pc[t] # "idle" ~> pc[t] = "idle"
=============================================================================
