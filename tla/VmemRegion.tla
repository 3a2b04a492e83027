----------------------------- MODULE VmemRegion ------------------------------
(***************************************************************************)
(* memlab/vm/vmem_region.hpp: a mapped region, the background thread that  *)
(* touches its pages ahead of the high-water mark, the move constructor    *)
(* and the destructor.                                                     *)
(*                                                                         *)
(* Object "a" is constructed; "b" is what it may be moved to.  Sizes and   *)
(* offsets are bytes, what is touched are pages.  _base and _size are      *)
(* plain members that the worker reads while the move constructor clears   *)
(* them: every read takes the value of its own moment.                     *)
(***************************************************************************)
EXTENDS BenchConstants, FiniteSets

Objects == {"a", "b"}
Null == "null"
Mem == "mem"

VARIABLES policy, base, size, locked, prefaulted, hwm, stop,
          build,         \* of the worker's touch: by madvise or by the fallback loop
          alive,         \* the objects that are not destroyed
          mapped, pinned,\* the region is mapped; the kernel has locked it in memory
          touched,       \* the pages that have been faulted in
          owner,         \* the object in use
          call,          \* what the owner's thread is doing
          worker,        \* the step of the worker, "none" when there is no worker
          off, target,   \* prefaulted_off and target of the worker
          failed         \* history: a madvise on the region has failed

flags == <<policy, build, locked, alive, mapped, pinned, owner>>
adaptive == <<worker, off, target, failed>>
vars == <<flags, base, size, prefaulted, hwm, stop, touched, call, adaptive>>

(* _size: round_up_to_page makes it whole pages. *)
Bytes == Pages * PageSize

AllPages == 0 .. Pages - 1
PageOf(byte) == byte \div PageSize
WholePages(bytes) == 0 .. PageOf(bytes) - 1
Least(m, n) == IF m < n THEN m ELSE n

(* No region. *)
Init ==
    /\ policy = "Lazy" /\ build \in {"madvise", "loop"}
    /\ base = [o \in Objects |-> Null] /\ size = [o \in Objects |-> 0]
    /\ locked = [o \in Objects |-> FALSE]
    /\ prefaulted = [o \in Objects |-> 0] /\ hwm = [o \in Objects |-> 0]
    /\ stop = [o \in Objects |-> FALSE]
    /\ alive = {} /\ mapped = FALSE /\ pinned = FALSE /\ touched = {}
    /\ owner = "a" /\ call = "gone"
    /\ worker = "none" /\ off = 0 /\ target = 0 /\ failed = FALSE

(* A segmentation fault of the worker ends the program. *)
Running == worker # "crashed"

(* The pages that are there when mmap returns, on Linux. *)
MapRegion(p) == IF p = "MapPopulate" THEN AllPages ELSE {}

(* The constructor, when mmap succeeds (if not, it throws): eager_touch    *)
(* writes to every page, Adaptive starts the worker.                       *)
Construct(p, lock) ==
    /\ alive = {}
    /\ policy' = p
    /\ base' = [a |-> Mem, b |-> Null] /\ size' = [a |-> Bytes, b |-> 0]
    /\ prefaulted' = [a |-> IF p \in {"MapPopulate", "EagerTouch"} THEN Bytes ELSE 0, b |-> 0]
    /\ hwm' = [o \in Objects |-> 0]
    /\ stop' = [o \in Objects |-> FALSE]
    /\ alive' = {"a"} /\ mapped' = TRUE
    /\ touched' = IF p = "EagerTouch" THEN AllPages ELSE MapRegion(p)
    /\ owner' = "a"
    /\ call' = IF lock THEN "lock" ELSE "none"
    /\ worker' = IF p = "Adaptive" THEN "check" ELSE "none"
    /\ off' = 0 /\ target' = 0 /\ failed' = FALSE
    /\ UNCHANGED <<build, locked, pinned>>

(* do_mlock: mlock faults the pages in; a failure is silently ignored. *)
Mlock(ok) ==
    /\ call = "lock"
    /\ pinned' = ok
    /\ locked' = [locked EXCEPT !.a = ok]
    /\ touched' = IF ok THEN AllPages ELSE touched
    /\ call' = "none"
    /\ UNCHANGED <<policy, build, base, size, prefaulted, hwm, stop, alive, mapped, owner, adaptive>>

Joinable == owner = "a" /\ worker # "none"

(* Any number of bytes. *)
AdvanceHwm(consumed) ==
    /\ call = "none"
    /\ hwm' = [hwm EXCEPT ![owner] = consumed]
    /\ UNCHANGED <<flags, base, size, prefaulted, stop, touched, call, adaptive>>

(* The owner's user writes to a page. *)
Touch(page) ==
    /\ call = "none"
    /\ touched' = touched \cup {page}
    /\ UNCHANGED <<flags, base, size, prefaulted, hwm, stop, call, adaptive>>

-----------------------------------------------------------------------------
(* Mutation: the worker is joined but not told to stop. *)
DestroyStopForgets ==
    /\ call = "none"
    /\ call' = "join"
    /\ UNCHANGED <<flags, base, size, prefaulted, hwm, stop, touched, adaptive>>

(* The destructor of the object in use. *)
DestroyStop ==
    /\ call = "none"
    /\ stop' = IF Joinable THEN [stop EXCEPT ![owner] = TRUE] ELSE stop
    /\ call' = "join"
    /\ UNCHANGED <<flags, base, size, prefaulted, hwm, touched, adaptive>>

(* "if (_locked) do_munlock()". *)
Munlock(o) ==
    /\ pinned' = (pinned /\ ~locked[o])
    /\ locked' = [locked EXCEPT ![o] = FALSE]

(* Mutation: the arguments are not tested. *)
UnmapRegionAlways(o) == mapped' = FALSE /\ touched' = {}

UnmapRegion(o) ==
    LET nothing == base[o] = Null \/ size[o] = 0
    IN  /\ mapped' = (mapped /\ nothing)
        /\ touched' = IF nothing THEN touched ELSE {}

(* Mutation: no join before unmap_region. *)
DestroyEager ==
    /\ call = "join"
    /\ Munlock(owner) /\ UnmapRegion(owner)
    /\ alive' = alive \ {owner}
    /\ call' = "gone"
    /\ UNCHANGED <<policy, build, base, size, prefaulted, hwm, stop, owner, adaptive>>

(* join returns when the worker has. *)
Destroy ==
    /\ call = "join"
    /\ Joinable => worker = "exit"
    /\ Munlock(owner) /\ UnmapRegion(owner)
    /\ alive' = alive \ {owner}
    /\ call' = "gone"
    /\ worker' = "none"
    /\ UNCHANGED <<policy, build, base, size, prefaulted, hwm, stop, owner, off, target, failed>>

(* The destructor of the object that was moved from: no worker to join. *)
DestroyMoved ==
    /\ owner = "b" /\ "a" \in alive
    /\ call \in {"none", "gone"}
    /\ Munlock("a") /\ UnmapRegion("a")
    /\ alive' = alive \ {"a"}
    /\ UNCHANGED <<policy, build, base, size, prefaulted, hwm, stop, owner, call, adaptive>>

(* VmemRegion(VmemRegion&&): b takes the members, a's are cleared, then    *)
(* a's worker is stopped and joined.  b gets no worker.                    *)
MoveTake ==
    /\ call = "none" /\ owner = "a"
    /\ base' = [base EXCEPT !.b = base.a]
    /\ size' = [size EXCEPT !.b = size.a]
    /\ prefaulted' = [prefaulted EXCEPT !.b = prefaulted.a]
    /\ hwm' = [hwm EXCEPT !.b = hwm.a]
    /\ locked' = [locked EXCEPT !.b = locked.a]
    /\ alive' = {"a", "b"}
    /\ call' = "clear"
    /\ UNCHANGED <<policy, build, stop, mapped, pinned, touched, owner, adaptive>>

MoveClearBase ==
    /\ call = "clear"
    /\ base' = [base EXCEPT !.a = Null]
    /\ call' = "clearSize"
    /\ UNCHANGED <<flags, size, prefaulted, hwm, stop, touched, adaptive>>

MoveClearSize ==
    /\ call = "clearSize"
    /\ size' = [size EXCEPT !.a = 0]
    /\ locked' = [locked EXCEPT !.a = FALSE]
    /\ call' = "stop"
    /\ UNCHANGED <<policy, build, base, prefaulted, hwm, stop, alive, mapped, pinned, touched, owner, adaptive>>

MoveStop ==
    /\ call = "stop"
    /\ stop' = IF Joinable THEN [stop EXCEPT !.a = TRUE] ELSE stop
    /\ call' = "moveJoin"
    /\ UNCHANGED <<flags, base, size, prefaulted, hwm, touched, adaptive>>

MoveJoin ==
    /\ call = "moveJoin"
    /\ Joinable => worker = "exit"
    /\ worker' = "none"
    /\ owner' = "b"
    /\ call' = "none"
    /\ UNCHANGED <<policy, build, locked, alive, mapped, pinned, base, size, prefaulted, hwm, stop, touched, off, target, failed>>

-----------------------------------------------------------------------------
(* adaptive_worker of object a.  target is local to the loop's body, off   *)
(* to the function: they are 0 when they are not in scope.                 *)
WorkerIs(from, to) ==
    /\ worker = from
    /\ worker' = to
    /\ UNCHANGED <<flags, base, size, hwm, stop, call>>

WorkerCheck ==
    /\ WorkerIs("check", IF stop.a THEN "exit" ELSE "load")
    /\ off' = IF stop.a THEN 0 ELSE off
    /\ UNCHANGED <<prefaulted, touched, target, failed>>

(* Mutation: no pages ahead of the mark. *)
WorkerLoadNoMark ==
    /\ WorkerIs("load", "compare")
    /\ target' = hwm.a
    /\ UNCHANGED <<prefaulted, touched, off, failed>>

WorkerLoad ==
    /\ WorkerIs("load", "compare")
    /\ target' = hwm.a + Watermark * PageSize
    /\ UNCHANGED <<prefaulted, touched, off, failed>>

WorkerCompare ==
    /\ WorkerIs("compare", IF target > size.a THEN "clamp" ELSE "touch")
    /\ UNCHANGED <<prefaulted, touched, off, target, failed>>

WorkerClamp ==
    /\ WorkerIs("clamp", "touch")
    /\ target' = size.a
    /\ UNCHANGED <<prefaulted, touched, off, failed>>

(* madvise(MADV_POPULATE_WRITE), whose result nobody looks at.  The        *)
(* address must be mapped and a multiple of the page size; the length is   *)
(* rounded up to whole pages.  The kernel may refuse for reasons of its    *)
(* own: one before 5.14 does not know the advice.                          *)
WorkerMadvise(ok) ==
    /\ build = "madvise" /\ off < target
    /\ WorkerIs("touch", "publish")
    /\ ok => base.a = Mem /\ off % PageSize = 0
    /\ touched' = IF ok THEN touched \cup (PageOf(off) .. PageOf(target - 1)) ELSE touched
    /\ failed' = (failed \/ (~ok /\ base.a = Mem))
    /\ off' = target
    /\ UNCHANGED <<prefaulted, target>>

(* Mutation: the loop ends a page early. *)
WorkerLoopShort ==
    /\ build = "loop" /\ base.a = Mem /\ off < target
    /\ WorkerIs("touch", "publish")
    /\ touched' = touched \cup (PageOf(off) .. PageOf(off) + PageOf(target - off - 1) - 1)
    /\ off' = target
    /\ UNCHANGED <<prefaulted, target, failed>>

(* The fallback writes one byte in every PageSize, the first one at        *)
(* prefaulted_off: one page each, up to (target - off - 1) / PageSize      *)
(* pages after the first.                                                  *)
WorkerLoop ==
    /\ build = "loop" /\ base.a = Mem /\ off < target
    /\ WorkerIs("touch", "publish")
    /\ touched' = touched \cup (PageOf(off) .. PageOf(off) + PageOf(target - off - 1))
    /\ off' = target
    /\ UNCHANGED <<prefaulted, target, failed>>

(* The fallback's first write goes to null + prefaulted_off. *)
WorkerCrash ==
    /\ build = "loop" /\ base.a = Null /\ off < target
    /\ WorkerIs("touch", "crashed")
    /\ UNCHANGED <<prefaulted, touched, off, target, failed>>

WorkerSkip ==
    /\ off >= target
    /\ WorkerIs("touch", "check")
    /\ target' = 0
    /\ UNCHANGED <<prefaulted, touched, off, failed>>

WorkerPublish ==
    /\ WorkerIs("publish", "check")
    /\ prefaulted' = [prefaulted EXCEPT !.a = off]
    /\ target' = 0
    /\ UNCHANGED <<touched, off, failed>>

Worker == \/ WorkerCheck \/ WorkerLoad \/ WorkerCompare \/ WorkerClamp
          \/ \E ok \in BOOLEAN : WorkerMadvise(ok)
          \/ WorkerLoop \/ WorkerCrash \/ WorkerSkip \/ WorkerPublish

CallGoesOn == Running /\ (Destroy \/ MoveClearBase \/ MoveClearSize \/ MoveStop \/ MoveJoin)

Call == Running /\ (DestroyStop \/ DestroyMoved \/ MoveTake \/ CallGoesOn)

(* Any user of the class. *)
Next ==
    \/ Worker \/ Call
    \/ \E p \in Policies, lock \in BOOLEAN : Construct(p, lock)
    \/ \E ok \in BOOLEAN : Mlock(ok)
    \/ \E consumed \in Marks : AdvanceHwm(consumed)
    \/ \E page \in AllPages : Touch(page)

(* The OS runs both threads; nobody has to call anything. *)
Fairness == WF_vars(Worker) /\ WF_vars(CallGoesOn)

Spec == Init /\ [][Next]_vars

-----------------------------------------------------------------------------
(* The move has cleared _base and has not yet joined the worker. *)
NullBase == {"clearSize", "stop", "moveJoin"}

(* The variables have their types; nothing is reported or touched beyond   *)
(* the end of the region.                                                  *)
TypeOK ==
    /\ policy \in Policies /\ build \in {"madvise", "loop"}
    /\ base \in [Objects -> {Null, Mem}] /\ size \in [Objects -> {0, Bytes}]
    /\ locked \in [Objects -> BOOLEAN] /\ stop \in [Objects -> BOOLEAN]
    /\ prefaulted \in [Objects -> 0 .. Bytes] /\ hwm \in [Objects -> Nat]
    /\ alive \subseteq Objects /\ mapped \in BOOLEAN /\ pinned \in BOOLEAN /\ touched \subseteq AllPages
    /\ owner \in Objects
    /\ call \in {"none", "lock", "join", "gone", "clear"} \cup NullBase
    /\ worker \in {"none", "check", "load", "compare", "clamp", "touch", "publish", "exit", "crashed"}
    /\ off \in 0 .. Bytes /\ target \in Nat /\ failed \in BOOLEAN

(* What the worker is about to touch is mapped and inside the region,      *)
(* whatever the destructor ("Stop adaptive worker first") and the owner    *)
(* are doing, with one exception: between a move's clearing of _base and   *)
(* its join the worker may add its offset to a null _base.  Then madvise   *)
(* fails, and the fallback build crashes; it crashes nowhere else.         *)
(* "RAII wrapper": the region is mapped exactly as long as the object that *)
(* owns it lives, and locked in memory exactly as long as that object says *)
(* so; destroying what it was moved from changes nothing.                  *)
TouchesMapped ==
    /\ TypeOK
    /\ worker = "touch" /\ off < target =>
         /\ mapped
         /\ target <= Bytes
         /\ base.a = Mem \/ call \in NullBase
    /\ ~Running => build = "loop" /\ call \in NullBase
    /\ mapped <=> owner \in alive
    /\ call \in {"none", "lock", "gone"} => pinned = locked[owner]
    /\ pinned => mapped

(* "Bytes confirmed pre-faulted (approximate for Adaptive policy)": what   *)
(* prefaulted_bytes reports to the owner is too much by a part of one page *)
(* at most, also after a move, and marks of any number of bytes.  The page *)
(* in which the report ends may be missing: the fallback loop may not      *)
(* reach it.  Nothing is said once a madvise has failed, as it does from   *)
(* the first target on that is not whole pages: the worker reports on.     *)
PrefaultedTouched == call = "none" /\ ~failed => WholePages(prefaulted[owner]) \subseteq touched

(* "The worker tries to stay kWatermarkPages pages ahead": while the mark  *)
(* stays where it is, the pages ahead of it get touched, unless a madvise  *)
(* has failed.  A region that was moved to has no worker, and is left out. *)
StaysAhead ==
    \A h \in Marks :
      policy = "Adaptive" /\ owner = "a" /\ call = "none" /\ hwm.a = h
        ~> \/ call # "none" \/ hwm.a # h \/ failed
           \/ WholePages(Least(h + Watermark * PageSize, Bytes)) \subseteq touched

(* The destructor and the move constructor return: the worker sees the     *)
(* flag, and join does not wait for ever.  The exception is the crash in a *)
(* move that TouchesMapped names.                                          *)
CallsReturn == call \in {"join", "clear"} \cup NullBase ~> call \in {"none", "gone"} \/ ~Running
=============================================================================
