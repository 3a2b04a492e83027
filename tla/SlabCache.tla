----------------------------- MODULE SlabCache ------------------------------
(***************************************************************************)
(* include/SlabCache.hpp: caches of objects of one type T.  Every thread   *)
(* has one magazine (thread_local, so shared by all SlabCache<T> objects); *)
(* a cache has slabs, each an array of slots with an intrusive free list,  *)
(* behind a mutex.                                                         *)
(*                                                                         *)
(* The magazine is looked at before the mutex is taken, so the fast and    *)
(* the slow path of a call are separate steps; what happens under the      *)
(* mutex is one step, since nothing else touches the slabs.                *)
(***************************************************************************)
EXTENDS Integers, Sequences, Functions, FiniteSetsExt

CONSTANTS Threads,
          Caches,        \* the SlabCache<T> objects
          PerSlab,       \* objectsPerSlab_
          MagazineSize,  \* magazineSize_
          MaxSlabs,      \* bound on the slabs of all caches together
          Clobbers,      \* whether T() writes the first word of an object
          Null,          \* nullptr
          Wild           \* a pointer that T() has partly overwritten

(* A slot: the cache, the slab and the position in it. *)
Slots == Caches \X (1 .. MaxSlabs) \X (1 .. PerSlab)
NotSlots == {Null, Wild}
Slab == [freeList : Slots \cup NotSlots, freeSlots : 0 .. PerSlab]

ASSUME SlabCacheAssumption ==
         /\ PerSlab \in Nat \ {0} /\ MagazineSize \in Nat /\ MaxSlabs \in Nat
         /\ Clobbers \in BOOLEAN
         /\ IsFiniteSet(Caches)
         /\ NotSlots \cap Slots = {}

VARIABLES slabs,      \* slabs_ of each cache: [freeList, freeSlots] each
          next,       \* the first word of every slot, read as Node::next
          mag,        \* the magazine of every thread
          live,       \* callers' objects: [obj, cache that returned it]
          pc, cache, ptr,   \* the call in progress of each thread
          lost,       \* history: slots that no call can return any more
          crashed     \* AllocateFromSlab followed a pointer to nowhere

vars == <<slabs, next, mag, live, pc, cache, ptr, lost, crashed>>

Init ==
    /\ slabs = [c \in Caches |-> <<>>]
    /\ next = [o \in Slots |-> Null]
    /\ mag = [t \in Threads |-> <<>>]
    /\ live = {}
    /\ pc = [t \in Threads |-> "idle"]
    /\ cache = [t \in Threads |-> Null]
    /\ ptr = [t \in Threads |-> Null]
    /\ lost = {}
    /\ crashed = FALSE

Return(t) ==
    /\ pc' = [pc EXCEPT ![t] = "idle"]
    /\ cache' = [cache EXCEPT ![t] = Null]
    /\ ptr' = [ptr EXCEPT ![t] = Null]

(* back() and pop_back() of a vector. *)
Back(v) == v[Len(v)]
PopBack(v) == SubSeq(v, 1, Len(v) - 1)

(* Mutation: the object returned stays in the magazine. *)
AllocateFastKeeps(t, c) ==
    /\ pc[t] = "idle" /\ ~ crashed
    /\ mag[t] # <<>>
    /\ live' = live \cup {[obj |-> Back(mag[t]), cache |-> c]}
    /\ UNCHANGED <<slabs, next, mag, pc, cache, ptr, lost, crashed>>

(* Allocate: the magazine has an object. *)
AllocateFast(t, c) ==
    /\ pc[t] = "idle" /\ ~ crashed
    /\ mag[t] # <<>>
    /\ live' = live \cup {[obj |-> Back(mag[t]), cache |-> c]}
    /\ mag' = [mag EXCEPT ![t] = PopBack(@)]
    /\ UNCHANGED <<slabs, next, pc, cache, ptr, lost, crashed>>

(* Allocate: it has none; go for the mutex. *)
AllocateMiss(t, c) ==
    /\ pc[t] = "idle" /\ ~ crashed
    /\ mag[t] = <<>>
    /\ pc' = [pc EXCEPT ![t] = "allocSlow"]
    /\ cache' = [cache EXCEPT ![t] = c]
    /\ UNCHANGED <<slabs, next, mag, live, ptr, lost, crashed>>

SlabIds == {x \in Caches \X (1 .. MaxSlabs) : x[2] <= Len(slabs[x[1]])}

WithFree(c) == {s \in DOMAIN slabs[c] : slabs[c][s].freeSlots > 0}

(* Mutation: freeSlots is not counted down. *)
AllocateFromSlabUncounted(slab, nx) == [slab EXCEPT !.freeList = nx[slab.freeList]]

(* AllocateFromSlab on a slab record, with the next fields nx. *)
AllocateFromSlab(slab, nx) ==
    [freeList |-> nx[slab.freeList], freeSlots |-> slab.freeSlots - 1]

(* Allocate, under the mutex: the first slab with a free slot. *)
AllocateFromExisting(t) ==
    LET c == cache[t]
        s == Min(WithFree(c))
    IN  /\ pc[t] = "allocSlow" /\ ~ crashed
        /\ WithFree(c) # {}
        /\ IF slabs[c][s].freeList \in Slots
           THEN /\ live' = live \cup {[obj |-> slabs[c][s].freeList, cache |-> c]}
                /\ slabs' = [slabs EXCEPT ![c][s] = AllocateFromSlab(@, next)]
                /\ UNCHANGED crashed
           ELSE crashed' = TRUE /\ UNCHANGED <<live, slabs>>
        /\ Return(t)
        /\ UNCHANGED <<next, mag, lost>>

(* The Slab constructor links the slots in order and then constructs an     *)
(* object in each of them, on top of the links.                             *)
Built(c, s) ==
    [o \in Slots |->
        IF <<o[1], o[2]>> # <<c, s>> THEN next[o]
        ELSE IF o[3] = PerSlab THEN Null
        ELSE IF Clobbers THEN Wild
        ELSE <<c, s, o[3] + 1>>]

(* Allocate, under the mutex: no free slot anywhere, add a slab.            *)
AllocateNewSlab(t) ==
    LET c == cache[t]
        s == Len(slabs[c]) + 1
        new == [freeList |-> <<c, s, 1>>, freeSlots |-> PerSlab]
    IN  /\ pc[t] = "allocSlow" /\ ~ crashed
        /\ WithFree(c) = {}
        /\ Cardinality(SlabIds) < MaxSlabs
        /\ next' = Built(c, s)
        /\ slabs' = [slabs EXCEPT ![c] = Append(@, AllocateFromSlab(new, Built(c, s)))]
        /\ live' = live \cup {[obj |-> new.freeList, cache |-> c]}
        /\ Return(t)
        /\ UNCHANGED <<mag, lost, crashed>>

(* Free: room in the magazine. *)
FreeFast(t, h) ==
    /\ pc[t] = "idle" /\ ~ crashed
    /\ Len(mag[t]) < MagazineSize
    /\ live' = live \ {h}
    /\ mag' = [mag EXCEPT ![t] = Append(@, h.obj)]
    /\ UNCHANGED <<slabs, next, pc, cache, ptr, lost, crashed>>

(* Free: the magazine is full; go for the mutex. *)
FreeMiss(t, h) ==
    /\ pc[t] = "idle" /\ ~ crashed
    /\ Len(mag[t]) >= MagazineSize
    /\ live' = live \ {h}
    /\ pc' = [pc EXCEPT ![t] = "freeSlow"]
    /\ cache' = [cache EXCEPT ![t] = h.cache]
    /\ ptr' = [ptr EXCEPT ![t] = h.obj]
    /\ UNCHANGED <<slabs, next, mag, lost, crashed>>

SlabContains(c, s, o) == <<o[1], o[2]>> = <<c, s>>

(* Mutation: the free list's head stays. *)
FreeSlowForgets(t) ==
    /\ pc[t] = "freeSlow" /\ ~ crashed
    /\ next' = [next EXCEPT ![ptr[t]] = slabs[ptr[t][1]][ptr[t][2]].freeList]
    /\ Return(t)
    /\ UNCHANGED <<slabs, mag, live, lost, crashed>>

(* Free, under the mutex: back to the slab of this cache it lies in.  When  *)
(* there is none the loop ends and nothing happens.                         *)
FreeSlow(t) ==
    LET c == cache[t]
        o == ptr[t]
    IN  /\ pc[t] = "freeSlow" /\ ~ crashed
        /\ IF \E s \in DOMAIN slabs[c] : SlabContains(c, s, o)
           THEN /\ \E s \in DOMAIN slabs[c] :
                     /\ SlabContains(c, s, o)
                     /\ next' = [next EXCEPT ![o] = slabs[c][s].freeList]
                     /\ slabs' = [slabs EXCEPT ![c][s] = [freeList |-> o, freeSlots |-> @.freeSlots + 1]]
                /\ UNCHANGED lost
           ELSE lost' = lost \cup {o} /\ UNCHANGED <<next, slabs>>
        /\ Return(t)
        /\ UNCHANGED <<mag, live, crashed>>

(* A caller stores into its object. *)
Use(h) ==
    /\ ~ crashed
    /\ next' = [next EXCEPT ![h.obj] = Wild]
    /\ UNCHANGED <<slabs, mag, live, pc, cache, ptr, lost, crashed>>

(* A thread ends: its magazine, a vector of pointers, is destroyed.  A new  *)
(* thread takes its place.                                                  *)
ThreadExit(t) ==
    /\ pc[t] = "idle" /\ ~ crashed
    /\ lost' = lost \cup Range(mag[t])
    /\ mag' = [mag EXCEPT ![t] = <<>>]
    /\ UNCHANGED <<slabs, next, live, pc, cache, ptr, crashed>>

Next ==
    \/ \E t \in Threads :
         \/ \E c \in Caches : AllocateFast(t, c) \/ AllocateMiss(t, c)
         \/ AllocateFromExisting(t) \/ AllocateNewSlab(t)
         \/ \E h \in live : FreeFast(t, h) \/ FreeMiss(t, h)
         \/ FreeSlow(t)
         \/ ThreadExit(t)
    \/ \E h \in live : Use(h)

Spec == Init /\ [][Next]_vars

-----------------------------------------------------------------------------
BuiltSlots == {o \in Slots : <<o[1], o[2]>> \in SlabIds}

(* The pointers met from the pointer p along the links nx, at most PerSlab   *)
(* of them after p; it stops at a pointer that is no slot.                  *)
Walk(p, nx) ==
    LET w[k \in 0 .. PerSlab] ==
          IF k = 0 THEN <<p>>
          ELSE IF Back(w[k - 1]) \in Slots THEN Append(w[k - 1], nx[Back(w[k - 1])])
          ELSE w[k - 1]
    IN  w[PerSlab]

FreeChain(x) == Range(Walk(slabs[x[1]][x[2]].freeList, next)) \cap Slots

(* Where a slot is: on free lists, in magazines, in callers' hands, in Free *)
(* calls on the slow path.                                                  *)
OnLists(o) == {x \in SlabIds : o \in FreeChain(x)}
InMagazines(o) == {x \in Threads \X (1 .. MagazineSize) : x[2] <= Len(mag[x[1]]) /\ mag[x[1]][x[2]] = o}
InHands(o) == {h \in live : h.obj = o}
InCalls(o) == {t \in Threads : pc[t] = "freeSlow" /\ ptr[t] = o}

(* How many places a slot is in; every occurrence in a magazine counts, and *)
(* out of reach is a place.                                                 *)
Places(o) ==
    Cardinality(OnLists(o)) + Cardinality(InMagazines(o)) + Cardinality(InHands(o))
    + Cardinality(InCalls(o)) + (IF o \in lost THEN 1 ELSE 0)

(* The variables have their types; no magazine outgrows magazineSize_.      *)
TypeOK ==
    /\ slabs \in [Caches -> Seq(Slab)]
    /\ \A c \in Caches : Len(slabs[c]) <= MaxSlabs
    /\ next \in [Slots -> Slots \cup NotSlots]
    /\ mag \in [Threads -> Seq(Slots)]
    /\ \A t \in Threads : Len(mag[t]) <= MagazineSize
    /\ live \subseteq [obj : Slots, cache : Caches]
    /\ pc \in [Threads -> {"idle", "allocSlow", "freeSlow"}]
    /\ cache \in [Threads -> Caches \cup {Null}]
    /\ ptr \in [Threads -> Slots \cup {Null}]
    /\ lost \subseteq Slots
    /\ crashed \in BOOLEAN

(* Through all the paths of Allocate and Free, fast and slow and in any     *)
(* interleaving, a slot of a slab is in one place: Allocate never returns   *)
(* an object that is in use, in a magazine or on a free list, and Free      *)
(* loses none.  Out of reach are only the slots in the magazine of a thread *)
(* that exits and those freed to a cache that has no slab for them.         *)
SlotsAccounted ==
    /\ TypeOK
    /\ \A o \in Slots : Places(o) = IF o \in BuiltSlots THEN 1 ELSE 0

(* freeSlots, which Allocate trusts before it follows freeList, is the      *)
(* length of the free list, and the list is intact.                         *)
FreeSlotsExact ==
    \A x \in SlabIds :
        LET slab == slabs[x[1]][x[2]]
            w == Walk(slab.freeList, next)
        IN  Len(w) = slab.freeSlots + 1 /\ Back(w) = Null

(* Free's comment on its slow path, "Return to global Slab", for an object  *)
(* that comes back to the cache it lies in: the slot is on a free list when *)
(* Free returns.  Only an object that went through a shared magazine to     *)
(* another cache finds no slab there.                                       *)
FreeReturnsToSlab ==
    [][\A t \in Threads : pc[t] = "freeSlow" /\ pc'[t] = "idle" /\ ptr[t][1] = cache[t] =>
          ptr[t] \in UNION {FreeChain(x)' : x \in SlabIds}]_vars

(* The test MultiThreadedAllocation expects every Allocate of a             *)
(* SlabCache<int> to succeed: no call follows a pointer to nowhere.         *)
AllocateSucceeds == ~ crashed
=============================================================================
