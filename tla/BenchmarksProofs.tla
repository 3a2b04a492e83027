-------------------------- MODULE BenchmarksProofs ---------------------------
(***************************************************************************)
(* Proofs about the programs of memlab/bench (module Benchmarks): the      *)
(* ping-pong for every number of round trips, the region and the benchmark *)
(* that measures it for every number of pages and every watermark, and the *)
(* benchmarks that start threads together, from BenchHarnessProofs.        *)
(***************************************************************************)
EXTENDS Benchmarks, TLAPS

-----------------------------------------------------------------------------
(* ctx_switch_bench.cpp (module PingPong). *)

InTurn == {"notify", "want", "test", "asleep"}
Closing == {"notifyAll", "join", "exit"}

(* The mutex is held exactly in the critical sections; only who is in its  *)
(* wait can be asleep; ping is in the middle of a round trip while it is   *)
(* pong's turn; done is set after the last round trip of both.             *)
PingPongInv ==
    /\ P!TurnsTaken
    /\ mutex = "ping" <=> at.ping \in {"give", "test", "stop"}
    /\ mutex = "pong" <=> at.pong = "test"
    /\ at.pong \in {"top", "test", "asleep", "notify", "exit"}
    /\ \A t \in asleep : at[t] = "asleep"
    /\ turn = 1 => at.ping \in InTurn
    /\ at.ping \in InTurn \cup {"give"} => i.ping < RoundTrips
    /\ at.ping \in Closing \cup {"stop"} => i.ping = RoundTrips
    /\ done <=> at.ping \in Closing
    /\ at.pong \in {"test", "asleep"} => i.pong < RoundTrips

(* The state in which both threads are at the top of their loops. *)
LEMMA PingPongInit == P!Init => PingPongInv
<1> SUFFICES ASSUME P!Init PROVE PingPongInv
  OBVIOUS
<1>1. at.ping = "top" /\ at.pong = "top" /\ i.ping = 0 /\ i.pong = 0 /\ turn = 0 /\ asleep = {} /\ ~done
  BY DEF P!Init, P!Begin, P!Players
<1>2. P!TypeOK
  <2>1. done \in BOOLEAN
    BY Zenon DEF P!Init, P!Begin
  <2>2. i \in [P!Players -> 0 .. RoundTrips]
    BY LoopsAssumption DEF P!Init, P!Begin, P!Players
  <2>3. QED
    BY <2>1, <2>2 DEF P!Init, P!Begin, P!TypeOK, P!Players, P!Free
<1>3. P!TurnsTaken
  BY <1>1, <1>2 DEF P!TurnsTaken
<1>4. QED
  BY <1>1, <1>3 DEF P!Init, P!Begin, PingPongInv, P!Free, InTurn, Closing

(* Every step of either thread, and every spurious wake-up, keeps it. *)
LEMMA PingPongNext == PingPongInv /\ [P!Next]_(P!vars) => PingPongInv'
<1> SUFFICES ASSUME PingPongInv, [P!Next]_(P!vars) PROVE PingPongInv'
  OBVIOUS
<1> USE LoopsAssumption DEF PingPongInv, P!TurnsTaken, P!TypeOK, P!Players, P!Free, P!Ready, P!Other, InTurn, Closing, P!Go, P!Lock, P!shared
<1>1. CASE P!PongLock
  BY <1>1 DEF P!PongLock
<1>2. CASE P!Sleep("pong")
  BY <1>2 DEF P!Sleep
<1>3. CASE P!Wake("pong")
  BY <1>3 DEF P!Wake
<1>4. CASE P!PongTurn
  BY <1>4 DEF P!PongTurn
<1>5. CASE P!Notify("pong", "notify", "top")
  BY <1>5 DEF P!Notify
<1>6. CASE P!PongExit
  BY <1>6 DEF P!PongExit
<1>7. CASE P!PingLock
  BY <1>7 DEF P!PingLock
<1>8. CASE P!PingGive
  BY <1>8 DEF P!PingGive
<1>9. CASE P!Notify("ping", "notify", "want")
  BY <1>9 DEF P!Notify
<1>10. CASE P!Lock("ping", "want", "test")
  BY <1>10
<1>11. CASE P!Sleep("ping")
  BY <1>11 DEF P!Sleep
<1>12. CASE P!Wake("ping")
  BY <1>12 DEF P!Wake
<1>13. CASE P!PingTake
  BY <1>13 DEF P!PingTake
<1>14. CASE P!PingStop
  BY <1>14 DEF P!PingStop
<1>15. CASE P!PingDone
  BY <1>15 DEF P!PingDone
<1>16. CASE P!Notify("ping", "notifyAll", "join")
  BY <1>16 DEF P!Notify
<1>17. CASE P!PingJoin
  BY <1>17 DEF P!PingJoin
<1>18. ASSUME NEW t \in P!Players, P!Spurious(t) PROVE PingPongInv'
  BY <1>18 DEF P!Spurious
<1>19. CASE UNCHANGED P!vars
  BY <1>19 DEF P!vars
<1> HIDE DEF PingPongInv, P!Players, P!Lock
<1>20. QED
  BY <1>1, <1>2, <1>3, <1>4, <1>5, <1>6, <1>7, <1>8, <1>9, <1>10, <1>11, <1>12, <1>13, <1>14, <1>15, <1>16, <1>17, <1>18, <1>19, Zenon DEF P!Next, P!Ping, P!Pong

-----------------------------------------------------------------------------
(* vmem_region.hpp (module VmemRegion). *)

Moving == {"clear", "clearSize", "stop", "moveJoin"}

(* Which object has the region, its size and its lock, at each step of the *)
(* life of a, of the move and of the life of b.                            *)
Holders ==
    /\ owner = "a" /\ call \in {"none", "lock", "join"} =>
         /\ alive = {"a"}
         /\ base.a = R!Mem /\ base.b = R!Null /\ size.a = R!Bytes
         /\ pinned = locked.a /\ ~locked.b
    /\ call = "gone" => owner \notin alive /\ ~pinned /\ ~locked.a /\ ~locked.b
    /\ owner = "a" /\ call = "gone" => alive = {}
    /\ call = "lock" => owner = "a" /\ ~pinned
    /\ call \in Moving =>
         /\ owner = "a" /\ alive = {"a", "b"}
         /\ base.b = R!Mem /\ size.b = R!Bytes /\ pinned = locked.b
         /\ base.a = IF call = "clear" THEN R!Mem ELSE R!Null
         /\ call \in {"stop", "moveJoin"} => size.a = 0 /\ ~locked.a
    /\ owner = "b" =>
         /\ worker = "none"
         /\ base.a = R!Null /\ size.a = 0 /\ ~locked.a
         /\ base.b = R!Mem /\ size.b = R!Bytes /\ pinned = locked.b
         /\ call # "gone" => "b" \in alive

(* The region is mapped until its owner is gone, and a worker runs on a    *)
(* mapped region only, within its pages; it crashes in a move only.        *)
WorkerWithin ==
    /\ mapped <=> call # "gone"
    /\ worker # "none" => mapped /\ owner = "a"
    /\ worker = "touch" => target <= R!Bytes
    /\ ~R!Running => build = "loop" /\ call \in R!NullBase

(* As long as no madvise on the region fails, the whole pages that the     *)
(* owner, the object that is moved from and the worker count are touched.  *)
CountsTouched ==
    ~failed =>
      /\ \A o \in R!Objects : mapped /\ base[o] = R!Mem => R!WholePages(prefaulted[o]) \subseteq touched
      /\ mapped /\ base.a = R!Mem /\ worker # "none" => R!WholePages(off) \subseteq touched

RegionInv == R!TypeOK /\ Holders /\ WorkerWithin /\ CountsTouched

-----------------------------------------------------------------------------
(* A number whose multiple lies below the end of another's is not larger. *)
LEMMA NotLarger ==
  ASSUME NEW d \in Nat \ {0}, NEW m \in Nat, NEW n \in Nat, m * d < n * d + d
  PROVE  m <= n
<1> SUFFICES ASSUME m > n PROVE FALSE
  OBVIOUS
<1>1. PICK e \in Nat : m = e + n + 1
  <2>1. m - n - 1 \in Nat /\ m = (m - n - 1) + n + 1
    OBVIOUS
  <2> QED
    BY <2>1
<1>2. e * d \in Nat /\ n * d \in Nat
  BY <1>1
<1>3. (e + n + 1) * d = e * d + n * d + d
  BY <1>1
<1> QED
  BY <1>1, <1>2, <1>3

(* The page that a byte lies in. *)
LEMMA PageOfByte ==
  ASSUME NEW byte \in Nat
  PROVE  /\ R!PageOf(byte) \in Nat
         /\ R!PageOf(byte) * PageSize \in Nat
         /\ R!PageOf(byte) * PageSize <= byte
         /\ byte < R!PageOf(byte) * PageSize + PageSize
<1>1. PageSize \in Nat \ {0}
  BY PagesAssumption
<1>2. byte \div PageSize \in Nat /\ byte % PageSize \in 0 .. PageSize - 1
  BY <1>1
<1>3. byte = PageSize * (byte \div PageSize) + (byte % PageSize)
  BY <1>1
<1>4. (byte \div PageSize) * PageSize = PageSize * (byte \div PageSize) /\ (byte \div PageSize) * PageSize \in Nat
  BY <1>1, <1>2
<1> QED
  BY <1>1, <1>2, <1>3, <1>4 DEF R!PageOf

(* The sizes are numbers. *)
LEMMA BytesOK ==
  /\ R!Bytes \in Nat \ {0} /\ Pages \in Nat \ {0} /\ PageSize \in Nat \ {0}
  /\ Watermark * PageSize \in Nat /\ 0 \in R!AllPages
<1>1. Pages \in Nat \ {0} /\ PageSize \in Nat \ {0} /\ Watermark \in Nat
  BY PagesAssumption
<1>2. Pages * PageSize \in Nat \ {0} /\ Watermark * PageSize \in Nat
  BY <1>1
<1> QED
  BY <1>1, <1>2 DEF R!Bytes, R!AllPages

(* The pages of a region hold its bytes, and no more. *)
LEMMA PagesOfRegion ==
  /\ \A byte \in 0 .. R!Bytes - 1 : R!PageOf(byte) \in R!AllPages
  /\ R!WholePages(R!Bytes) \subseteq R!AllPages
  /\ R!WholePages(0) = {}
<1> USE BytesOK
<1>0. R!Bytes = (Pages - 1) * PageSize + PageSize /\ R!Bytes = Pages * PageSize
  BY DEF R!Bytes
<1>1. ASSUME NEW byte \in 0 .. R!Bytes - 1 PROVE R!PageOf(byte) \in R!AllPages
  <2>0. byte \in Nat /\ byte < (Pages - 1) * PageSize + PageSize
    BY <1>0
  <2>1. R!PageOf(byte) \in Nat /\ R!PageOf(byte) * PageSize < (Pages - 1) * PageSize + PageSize
    <3>1. R!PageOf(byte) \in Nat /\ R!PageOf(byte) * PageSize \in Nat /\ R!PageOf(byte) * PageSize <= byte
      BY <2>0, PageOfByte, Zenon
    <3>2. (Pages - 1) * PageSize \in Nat
      OBVIOUS
    <3>3. \A l, m, n \in Nat : l <= m /\ m < n + PageSize => l < n + PageSize
      OBVIOUS
    <3> QED
      BY <2>0, <3>1, <3>2, <3>3, Zenon
  <2>2. R!PageOf(byte) <= Pages - 1
    BY <2>1, NotLarger
  <2> QED
    BY <2>1, <2>2 DEF R!AllPages
<1>2. R!PageOf(R!Bytes) \in Nat /\ R!PageOf(R!Bytes) <= Pages
  <2>0. R!Bytes \in Nat /\ R!Bytes < Pages * PageSize + PageSize
    BY <1>0
  <2>1. R!PageOf(R!Bytes) \in Nat /\ R!PageOf(R!Bytes) * PageSize < Pages * PageSize + PageSize
    <3>1. R!PageOf(R!Bytes) \in Nat /\ R!PageOf(R!Bytes) * PageSize \in Nat /\ R!PageOf(R!Bytes) * PageSize <= R!Bytes
      BY <2>0, PageOfByte, Zenon
    <3>2. Pages * PageSize \in Nat
      OBVIOUS
    <3>3. \A l, m, n \in Nat : l <= m /\ m < n + PageSize => l < n + PageSize
      OBVIOUS
    <3> QED
      BY <2>0, <3>1, <3>2, <3>3, Zenon
  <2> QED
    BY <2>1, NotLarger
<1>3. R!PageOf(0) \in Nat /\ R!PageOf(0) <= 0
  <2>1. R!PageOf(0) \in Nat /\ R!PageOf(0) * PageSize < 0 * PageSize + PageSize
    BY PageOfByte
  <2> QED
    BY <2>1, NotLarger
<1> QED
  BY <1>1, <1>2, <1>3 DEF R!WholePages, R!AllPages

(* The fallback loop reaches every whole page below its target, and no     *)
(* page outside of the region, wherever it begins.                         *)
LEMMA LoopPages ==
  ASSUME NEW x \in Nat, NEW y \in Nat, x < y, y <= R!Bytes
  PROVE  /\ R!PageOf(x) .. R!PageOf(x) + R!PageOf(y - x - 1) \subseteq R!AllPages
         /\ R!WholePages(y) \subseteq R!WholePages(x) \cup (R!PageOf(x) .. R!PageOf(x) + R!PageOf(y - x - 1))
<1> DEFINE first == R!PageOf(x)
           more == R!PageOf(y - x - 1)
           all == R!PageOf(y)
<1> USE BytesOK
<1>1. y - x - 1 \in Nat
  OBVIOUS
<1>2. first \in Nat /\ first * PageSize \in Nat /\ first * PageSize <= x /\ x < first * PageSize + PageSize
  BY PageOfByte
<1>3. more \in Nat /\ more * PageSize \in Nat /\ more * PageSize <= y - x - 1 /\ y - x - 1 < more * PageSize + PageSize
  BY <1>1, PageOfByte
<1>4. all \in Nat /\ all * PageSize \in Nat /\ all * PageSize <= y
  BY PageOfByte
<1> HIDE DEF first, more, all
<1>5. (first + more) * PageSize = first * PageSize + more * PageSize
  BY <1>2, <1>3
<1>6. (first + more + 1) * PageSize = first * PageSize + more * PageSize + PageSize
  BY <1>2, <1>3
<1>7. R!Bytes = (Pages - 1) * PageSize + PageSize
  BY DEF R!Bytes
<1>8. first + more <= Pages - 1
  <2>1. (first + more) * PageSize < (Pages - 1) * PageSize + PageSize
    BY <1>2, <1>3, <1>5, <1>7
  <2> QED
    BY <2>1, <1>2, <1>3, NotLarger
<1>9. all <= first + more + 1
  <2>1. all * PageSize < (first + more + 1) * PageSize + PageSize
    BY <1>2, <1>3, <1>4, <1>6
  <2> QED
    BY <2>1, <1>2, <1>3, <1>4, NotLarger
<1>10. first .. first + more \subseteq R!AllPages
  BY <1>2, <1>3, <1>8 DEF R!AllPages
<1>11. 0 .. all - 1 \subseteq (0 .. first - 1) \cup (first .. first + more)
  BY <1>2, <1>3, <1>4, <1>9
<1> QED
  BY <1>10, <1>11 DEF first, more, all, R!WholePages

(* So does a madvise that succeeds. *)
LEMMA MadvisePages ==
  ASSUME NEW x \in Nat, NEW y \in Nat, x < y, y <= R!Bytes
  PROVE  /\ R!PageOf(x) .. R!PageOf(y - 1) \subseteq R!AllPages
         /\ R!WholePages(y) \subseteq R!WholePages(x) \cup (R!PageOf(x) .. R!PageOf(y - 1))
<1> DEFINE last == R!PageOf(y - 1)
           all == R!PageOf(y)
<1> USE BytesOK
<1>1. R!PageOf(x) \in Nat
  BY PageOfByte
<1>2. last \in R!AllPages
  BY PagesOfRegion
<1>3. last \in Nat /\ last * PageSize \in Nat /\ y - 1 < last * PageSize + PageSize
  <2>1. y - 1 \in Nat
    OBVIOUS
  <2> QED
    BY <2>1, PageOfByte, Zenon
<1>4. all \in Nat /\ all * PageSize \in Nat /\ all * PageSize <= y
  BY PageOfByte
<1> HIDE DEF last, all
<1>5. (last + 1) * PageSize = last * PageSize + PageSize
  BY <1>3
<1>6. all <= last + 1
  <2>1. all * PageSize < (last + 1) * PageSize + PageSize
    BY <1>3, <1>4, <1>5
  <2> QED
    BY <2>1, <1>3, <1>4, NotLarger
<1>7. R!PageOf(x) .. last \subseteq R!AllPages
  BY <1>1, <1>2 DEF R!AllPages
<1>8. 0 .. all - 1 \subseteq (0 .. R!PageOf(x) - 1) \cup (R!PageOf(x) .. last)
  BY <1>1, <1>3, <1>4, <1>6
<1> QED
  BY <1>7, <1>8 DEF last, all, R!WholePages

(* The state without a region. *)
LEMMA RegionInit == R!Init => RegionInv
<1> SUFFICES ASSUME R!Init PROVE RegionInv
  OBVIOUS
<1> USE BytesOK, PoliciesAssumption DEF R!Init, R!Objects, R!Null, R!Mem, R!Running
<1>1. R!TypeOK
  <2>1. 0 \in 0 .. R!Bytes
    OBVIOUS
  <2>2. /\ locked \in [R!Objects -> BOOLEAN] /\ stop \in [R!Objects -> BOOLEAN]
        /\ mapped \in BOOLEAN /\ pinned \in BOOLEAN /\ failed \in BOOLEAN
    BY Zenon
  <2>3. prefaulted \in [R!Objects -> 0 .. R!Bytes] /\ hwm \in [R!Objects -> Nat]
    BY <2>1
  <2>4. QED
    BY <2>1, <2>2, <2>3 DEF R!TypeOK
<1>2. Holders
  BY DEF Holders, Moving
<1>3. WorkerWithin /\ CountsTouched
  BY DEF WorkerWithin, CountsTouched
<1>4. QED
  BY <1>1, <1>2, <1>3 DEF RegionInv

(* WorkerCheck keeps the invariant. *)
LEMMA RegionWorkerCheck == ASSUME RegionInv, R!WorkerCheck PROVE RegionInv'
<1> USE BytesOK DEF RegionInv, R!Objects, R!Null, R!Mem, R!WorkerCheck, R!WorkerIs, R!flags, R!NullBase, R!Running
<1>1. R!TypeOK'
  BY DEF R!TypeOK, R!AllPages
<1>2. Holders'
  BY DEF R!TypeOK, Holders, Moving, WorkerWithin
<1>3. WorkerWithin'
  BY DEF R!TypeOK, Holders, Moving, WorkerWithin
<1>4. CountsTouched'
  BY PagesOfRegion DEF R!TypeOK, Holders, Moving, WorkerWithin, CountsTouched
<1>5. QED
  BY <1>1, <1>2, <1>3, <1>4

(* WorkerLoad keeps the invariant. *)
LEMMA RegionWorkerLoad == ASSUME RegionInv, R!WorkerLoad PROVE RegionInv'
<1> USE BytesOK DEF RegionInv, R!Objects, R!Null, R!Mem, R!WorkerLoad, R!WorkerIs, R!flags, R!NullBase, R!Running
<1>1. R!TypeOK'
  BY DEF R!TypeOK, R!AllPages
<1>2. Holders'
  BY DEF R!TypeOK, Holders, Moving, WorkerWithin
<1>3. WorkerWithin'
  BY DEF R!TypeOK, Holders, Moving, WorkerWithin
<1>4. CountsTouched'
  BY DEF R!TypeOK, Holders, Moving, WorkerWithin, CountsTouched, R!AllPages
<1>5. QED
  BY <1>1, <1>2, <1>3, <1>4

(* WorkerCompare keeps the invariant. *)
LEMMA RegionWorkerCompare == ASSUME RegionInv, R!WorkerCompare PROVE RegionInv'
<1> USE BytesOK DEF RegionInv, R!Objects, R!Null, R!Mem, R!WorkerCompare, R!WorkerIs, R!flags, R!NullBase, R!Running
<1>1. R!TypeOK'
  BY DEF R!TypeOK, R!AllPages
<1>2. Holders'
  BY DEF R!TypeOK, Holders, Moving, WorkerWithin
<1>3. WorkerWithin'
  BY DEF R!TypeOK, Holders, Moving, WorkerWithin
<1>4. CountsTouched'
  BY DEF R!TypeOK, Holders, Moving, WorkerWithin, CountsTouched, R!AllPages
<1>5. QED
  BY <1>1, <1>2, <1>3, <1>4

(* WorkerClamp keeps the invariant. *)
LEMMA RegionWorkerClamp == ASSUME RegionInv, R!WorkerClamp PROVE RegionInv'
<1> USE BytesOK DEF RegionInv, R!Objects, R!Null, R!Mem, R!WorkerClamp, R!WorkerIs, R!flags, R!NullBase, R!Running
<1>1. R!TypeOK'
  BY DEF R!TypeOK, R!AllPages
<1>2. Holders'
  BY DEF R!TypeOK, Holders, Moving, WorkerWithin
<1>3. WorkerWithin'
  BY DEF R!TypeOK, Holders, Moving, WorkerWithin
<1>4. CountsTouched'
  BY DEF R!TypeOK, Holders, Moving, WorkerWithin, CountsTouched, R!AllPages
<1>5. QED
  BY <1>1, <1>2, <1>3, <1>4

(* WorkerMadvise keeps the invariant. *)
LEMMA RegionWorkerMadvise == ASSUME RegionInv, NEW ok \in BOOLEAN, R!WorkerMadvise(ok) PROVE RegionInv'
<1> USE BytesOK DEF RegionInv, R!Objects, R!Null, R!Mem, R!WorkerMadvise, R!WorkerIs, R!flags, R!NullBase, R!Running
<1>0. target \in 0 .. R!Bytes /\ off \in 0 .. R!Bytes /\ off < target
  BY DEF R!TypeOK, WorkerWithin
<1>1. off \in Nat /\ target \in Nat /\ target <= R!Bytes
  BY <1>0
<1> DEFINE new == R!PageOf(off) .. R!PageOf(target - 1)
<1>2. new \subseteq R!AllPages /\ R!WholePages(target) \subseteq R!WholePages(off) \cup new
  BY <1>0, <1>1, MadvisePages, Zenon
<1>3. off' = target /\ touched' = IF ok THEN touched \cup new ELSE touched
  OBVIOUS
<1>4. failed' \in BOOLEAN /\ (~failed' => ~failed /\ (ok \/ base.a # R!Mem))
  BY Zenon
<1> HIDE DEF new
<1>5. R!TypeOK'
  BY <1>0, <1>2, <1>3, <1>4 DEF R!TypeOK
<1>6. Holders'
  BY DEF R!TypeOK, Holders, Moving, WorkerWithin
<1>7. WorkerWithin'
  BY DEF R!TypeOK, Holders, Moving, WorkerWithin
<1>8. CountsTouched'
  <2> SUFFICES ASSUME ~failed' PROVE CountsTouched'
    BY DEF CountsTouched
  <2>1. touched \subseteq touched' /\ (ok => touched' = touched \cup new) /\ ~failed /\ (ok \/ base.a # R!Mem)
    BY <1>3, <1>4
  <2>2. UNCHANGED <<mapped, base, prefaulted>> /\ off' = target
    OBVIOUS
  <2>3. \A o \in R!Objects : mapped /\ base[o] = R!Mem => R!WholePages(prefaulted[o]) \subseteq touched'
    BY <2>1 DEF CountsTouched
  <2>4. mapped /\ base.a = R!Mem => R!WholePages(target) \subseteq touched'
    BY <2>1, <1>2 DEF CountsTouched
  <2> QED
    BY <2>2, <2>3, <2>4 DEF CountsTouched
<1>9. QED
  BY <1>5, <1>6, <1>7, <1>8

(* WorkerLoop keeps the invariant. *)
LEMMA RegionWorkerLoop == ASSUME RegionInv, R!WorkerLoop PROVE RegionInv'
<1> USE BytesOK DEF RegionInv, R!Objects, R!Null, R!Mem, R!WorkerLoop, R!WorkerIs, R!flags, R!NullBase, R!Running
<1>0. target \in 0 .. R!Bytes /\ off \in 0 .. R!Bytes /\ off < target
  BY DEF R!TypeOK, WorkerWithin
<1>1. off \in Nat /\ target \in Nat /\ target <= R!Bytes
  BY <1>0
<1> DEFINE new == R!PageOf(off) .. R!PageOf(off) + R!PageOf(target - off - 1)
<1>2. new \subseteq R!AllPages /\ R!WholePages(target) \subseteq R!WholePages(off) \cup new
  BY <1>0, <1>1, LoopPages, Zenon
<1>3. off' = target /\ touched' = touched \cup new
  OBVIOUS
<1> HIDE DEF new
<1>5. R!TypeOK'
  BY <1>0, <1>2, <1>3 DEF R!TypeOK
<1>6. Holders'
  BY DEF R!TypeOK, Holders, Moving, WorkerWithin
<1>7. WorkerWithin'
  BY DEF R!TypeOK, Holders, Moving, WorkerWithin
<1>8. CountsTouched'
  BY <1>2, <1>3 DEF CountsTouched
<1>9. QED
  BY <1>5, <1>6, <1>7, <1>8

(* WorkerCrash keeps the invariant. *)
LEMMA RegionWorkerCrash == ASSUME RegionInv, R!WorkerCrash PROVE RegionInv'
<1> USE BytesOK DEF RegionInv, R!Objects, R!Null, R!Mem, R!WorkerCrash, R!WorkerIs, R!flags, R!NullBase, R!Running
<1>1. R!TypeOK'
  BY DEF R!TypeOK, R!AllPages
<1>2. Holders'
  BY DEF R!TypeOK, Holders, Moving, WorkerWithin
<1>3. WorkerWithin'
  BY DEF R!TypeOK, Holders, Moving, WorkerWithin
<1>4. CountsTouched'
  BY DEF R!TypeOK, Holders, Moving, WorkerWithin, CountsTouched, R!AllPages
<1>5. QED
  BY <1>1, <1>2, <1>3, <1>4

(* WorkerSkip keeps the invariant. *)
LEMMA RegionWorkerSkip == ASSUME RegionInv, R!WorkerSkip PROVE RegionInv'
<1> USE BytesOK DEF RegionInv, R!Objects, R!Null, R!Mem, R!WorkerSkip, R!WorkerIs, R!flags, R!NullBase, R!Running
<1>1. R!TypeOK'
  BY DEF R!TypeOK, R!AllPages
<1>2. Holders'
  BY DEF R!TypeOK, Holders, Moving, WorkerWithin
<1>3. WorkerWithin'
  BY DEF R!TypeOK, Holders, Moving, WorkerWithin
<1>4. CountsTouched'
  BY DEF R!TypeOK, Holders, Moving, WorkerWithin, CountsTouched, R!AllPages
<1>5. QED
  BY <1>1, <1>2, <1>3, <1>4

(* WorkerPublish keeps the invariant. *)
LEMMA RegionWorkerPublish == ASSUME RegionInv, R!WorkerPublish PROVE RegionInv'
<1> USE BytesOK DEF RegionInv, R!Objects, R!Null, R!Mem, R!WorkerPublish, R!WorkerIs, R!flags, R!NullBase, R!Running
<1>1. R!TypeOK'
  BY DEF R!TypeOK, R!AllPages
<1>2. Holders'
  BY DEF R!TypeOK, Holders, Moving, WorkerWithin
<1>3. WorkerWithin'
  BY DEF R!TypeOK, Holders, Moving, WorkerWithin
<1>4. CountsTouched'
  BY DEF R!TypeOK, Holders, Moving, WorkerWithin, CountsTouched, R!AllPages
<1>5. QED
  BY <1>1, <1>2, <1>3, <1>4

(* DestroyStop keeps the invariant. *)
LEMMA RegionDestroyStop == ASSUME RegionInv, R!DestroyStop PROVE RegionInv'
<1> USE BytesOK DEF RegionInv, R!Objects, R!Null, R!Mem, R!DestroyStop, R!flags, R!adaptive, R!Joinable, R!NullBase, R!Running
<1>1. R!TypeOK'
  BY DEF R!TypeOK, R!AllPages
<1>2. Holders'
  BY DEF R!TypeOK, Holders, Moving, WorkerWithin
<1>3. WorkerWithin'
  BY DEF R!TypeOK, Holders, Moving, WorkerWithin
<1>4. CountsTouched'
  BY DEF R!TypeOK, Holders, Moving, WorkerWithin, CountsTouched, R!AllPages
<1>5. QED
  BY <1>1, <1>2, <1>3, <1>4

(* Destroy keeps the invariant. *)
LEMMA RegionDestroy == ASSUME RegionInv, R!Destroy PROVE RegionInv'
<1> USE BytesOK DEF RegionInv, R!Objects, R!Null, R!Mem, R!Destroy, R!flags, R!adaptive, R!Joinable, R!Munlock, R!UnmapRegion, R!NullBase, R!Running
<1>1. R!TypeOK'
  BY DEF R!TypeOK, R!AllPages
<1>2. Holders'
  BY Zenon DEF R!TypeOK, Holders, Moving, WorkerWithin
<1>3. WorkerWithin'
  BY DEF R!TypeOK, Holders, Moving, WorkerWithin
<1>4. CountsTouched'
  BY DEF R!TypeOK, Holders, Moving, WorkerWithin, CountsTouched, R!AllPages
<1>5. QED
  BY <1>1, <1>2, <1>3, <1>4

(* DestroyMoved keeps the invariant. *)
LEMMA RegionDestroyMoved == ASSUME RegionInv, R!DestroyMoved PROVE RegionInv'
<1> USE BytesOK DEF RegionInv, R!Objects, R!Null, R!Mem, R!DestroyMoved, R!flags, R!adaptive, R!Munlock, R!UnmapRegion, R!NullBase, R!Running
<1>1. R!TypeOK'
  BY DEF R!TypeOK, R!AllPages
<1>2. Holders'
  BY DEF R!TypeOK, Holders, Moving, WorkerWithin
<1>3. WorkerWithin'
  BY DEF R!TypeOK, Holders, Moving, WorkerWithin
<1>4. CountsTouched'
  BY DEF R!TypeOK, Holders, Moving, WorkerWithin, CountsTouched, R!AllPages
<1>5. QED
  BY <1>1, <1>2, <1>3, <1>4

(* MoveTake keeps the invariant. *)
LEMMA RegionMoveTake == ASSUME RegionInv, R!MoveTake PROVE RegionInv'
<1> USE BytesOK DEF RegionInv, R!Objects, R!Null, R!Mem, R!MoveTake, R!flags, R!adaptive, R!NullBase, R!Running
<1>1. R!TypeOK'
  BY DEF R!TypeOK, R!AllPages
<1>2. Holders'
  BY DEF R!TypeOK, Holders, Moving, WorkerWithin
<1>3. WorkerWithin'
  BY DEF R!TypeOK, Holders, Moving, WorkerWithin
<1>4. CountsTouched'
  BY DEF R!TypeOK, Holders, Moving, WorkerWithin, CountsTouched, R!AllPages
<1>5. QED
  BY <1>1, <1>2, <1>3, <1>4

(* MoveClearBase keeps the invariant. *)
LEMMA RegionMoveClearBase == ASSUME RegionInv, R!MoveClearBase PROVE RegionInv'
<1> USE BytesOK DEF RegionInv, R!Objects, R!Null, R!Mem, R!MoveClearBase, R!flags, R!adaptive, R!NullBase, R!Running
<1>1. R!TypeOK'
  BY DEF R!TypeOK, R!AllPages
<1>2. Holders'
  BY DEF R!TypeOK, Holders, Moving, WorkerWithin
<1>3. WorkerWithin'
  BY DEF R!TypeOK, Holders, Moving, WorkerWithin
<1>4. CountsTouched'
  BY DEF R!TypeOK, Holders, Moving, WorkerWithin, CountsTouched, R!AllPages
<1>5. QED
  BY <1>1, <1>2, <1>3, <1>4

(* MoveClearSize keeps the invariant. *)
LEMMA RegionMoveClearSize == ASSUME RegionInv, R!MoveClearSize PROVE RegionInv'
<1> USE BytesOK DEF RegionInv, R!Objects, R!Null, R!Mem, R!MoveClearSize, R!flags, R!adaptive, R!NullBase, R!Running
<1>1. R!TypeOK'
  BY Zenon DEF R!TypeOK, R!AllPages
<1>2. Holders'
  BY DEF R!TypeOK, Holders, Moving, WorkerWithin
<1>3. WorkerWithin'
  BY DEF R!TypeOK, Holders, Moving, WorkerWithin
<1>4. CountsTouched'
  BY DEF R!TypeOK, Holders, Moving, WorkerWithin, CountsTouched, R!AllPages
<1>5. QED
  BY <1>1, <1>2, <1>3, <1>4

(* MoveStop keeps the invariant. *)
LEMMA RegionMoveStop == ASSUME RegionInv, R!MoveStop PROVE RegionInv'
<1> USE BytesOK DEF RegionInv, R!Objects, R!Null, R!Mem, R!MoveStop, R!flags, R!adaptive, R!Joinable, R!NullBase, R!Running
<1>1. R!TypeOK'
  BY Zenon DEF R!TypeOK, R!AllPages
<1>2. Holders'
  BY DEF R!TypeOK, Holders, Moving, WorkerWithin
<1>3. WorkerWithin'
  BY DEF R!TypeOK, Holders, Moving, WorkerWithin
<1>4. CountsTouched'
  BY DEF R!TypeOK, Holders, Moving, WorkerWithin, CountsTouched, R!AllPages
<1>5. QED
  BY <1>1, <1>2, <1>3, <1>4

(* MoveJoin keeps the invariant. *)
LEMMA RegionMoveJoin == ASSUME RegionInv, R!MoveJoin PROVE RegionInv'
<1> USE BytesOK DEF RegionInv, R!Objects, R!Null, R!Mem, R!MoveJoin, R!flags, R!adaptive, R!Joinable, R!NullBase, R!Running
<1>1. R!TypeOK'
  BY DEF R!TypeOK, R!AllPages
<1>2. Holders'
  BY DEF R!TypeOK, Holders, Moving, WorkerWithin
<1>3. WorkerWithin'
  BY DEF R!TypeOK, Holders, Moving, WorkerWithin
<1>4. CountsTouched'
  BY DEF R!TypeOK, Holders, Moving, WorkerWithin, CountsTouched, R!AllPages
<1>5. QED
  BY <1>1, <1>2, <1>3, <1>4

(* Construct keeps the invariant. *)
LEMMA RegionConstruct == ASSUME RegionInv, NEW p \in Policies, NEW lock \in BOOLEAN, R!Construct(p, lock) PROVE RegionInv'
<1> USE BytesOK DEF RegionInv, R!Objects, R!Null, R!Mem, R!Construct, R!MapRegion, R!flags, R!adaptive, R!NullBase, R!Running
<1>1. R!TypeOK'
  <2>1. base' \in [R!Objects -> {R!Null, R!Mem}] /\ size' \in [R!Objects -> {0, R!Bytes}]
    OBVIOUS
  <2>2. prefaulted' \in [R!Objects -> 0 .. R!Bytes] /\ hwm' \in [R!Objects -> Nat]
    OBVIOUS
  <2>3. /\ locked' \in [R!Objects -> BOOLEAN] /\ stop' \in [R!Objects -> BOOLEAN]
        /\ mapped' \in BOOLEAN /\ pinned' \in BOOLEAN /\ failed' \in BOOLEAN
    BY Zenon DEF R!TypeOK
  <2>4. touched' \subseteq R!AllPages
    OBVIOUS
  <2> QED
    BY <2>1, <2>2, <2>3, <2>4 DEF R!TypeOK
<1>2. Holders'
  BY DEF R!TypeOK, Holders, Moving, WorkerWithin
<1>3. WorkerWithin'
  BY DEF R!TypeOK, Holders, Moving, WorkerWithin
<1>4. CountsTouched'
  BY PagesOfRegion DEF R!TypeOK, Holders, Moving, WorkerWithin, CountsTouched
<1>5. QED
  BY <1>1, <1>2, <1>3, <1>4

(* Mlock keeps the invariant. *)
LEMMA RegionMlock == ASSUME RegionInv, NEW ok \in BOOLEAN, R!Mlock(ok) PROVE RegionInv'
<1> USE BytesOK DEF RegionInv, R!Objects, R!Null, R!Mem, R!Mlock, R!flags, R!adaptive, R!NullBase, R!Running
<1>1. R!TypeOK'
  BY DEF R!TypeOK, R!AllPages
<1>2. Holders'
  BY DEF R!TypeOK, Holders, Moving, WorkerWithin
<1>3. WorkerWithin'
  BY DEF R!TypeOK, Holders, Moving, WorkerWithin
<1>4. CountsTouched'
  BY DEF R!TypeOK, Holders, Moving, WorkerWithin, CountsTouched, R!AllPages
<1>5. QED
  BY <1>1, <1>2, <1>3, <1>4

(* AdvanceHwm keeps the invariant. *)
LEMMA RegionAdvanceHwm == ASSUME RegionInv, NEW consumed \in Marks, R!AdvanceHwm(consumed) PROVE RegionInv'
<1> USE BytesOK, MarksAssumption DEF RegionInv, R!Objects, R!Null, R!Mem, R!AdvanceHwm, R!flags, R!adaptive, R!NullBase, R!Running
<1>1. R!TypeOK'
  BY DEF R!TypeOK, R!AllPages
<1>2. Holders'
  BY DEF R!TypeOK, Holders, Moving, WorkerWithin
<1>3. WorkerWithin'
  BY DEF R!TypeOK, Holders, Moving, WorkerWithin
<1>4. CountsTouched'
  BY DEF R!TypeOK, Holders, Moving, WorkerWithin, CountsTouched, R!AllPages
<1>5. QED
  BY <1>1, <1>2, <1>3, <1>4

(* Touch keeps the invariant. *)
LEMMA RegionTouch == ASSUME RegionInv, NEW page \in R!AllPages, R!Touch(page) PROVE RegionInv'
<1> USE BytesOK DEF RegionInv, R!Objects, R!Null, R!Mem, R!Touch, R!flags, R!adaptive, R!NullBase, R!Running
<1>1. R!TypeOK'
  BY DEF R!TypeOK, R!AllPages
<1>2. Holders'
  BY DEF R!TypeOK, Holders, Moving, WorkerWithin
<1>3. WorkerWithin'
  BY DEF R!TypeOK, Holders, Moving, WorkerWithin
<1>4. CountsTouched'
  BY DEF R!TypeOK, Holders, Moving, WorkerWithin, CountsTouched, R!AllPages
<1>5. QED
  BY <1>1, <1>2, <1>3, <1>4

(* Every step keeps the invariant. *)
LEMMA RegionNext == RegionInv /\ [R!Next]_(R!vars) => RegionInv'
<1> SUFFICES ASSUME RegionInv, [R!Next]_(R!vars) PROVE RegionInv'
  OBVIOUS
<1>1. CASE UNCHANGED R!vars
  BY <1>1 DEF R!vars, R!flags, R!adaptive, R!Running, RegionInv, R!TypeOK, Holders, WorkerWithin, CountsTouched
<1>2. CASE R!Worker
  BY <1>2, RegionWorkerCheck, RegionWorkerLoad, RegionWorkerCompare, RegionWorkerClamp, RegionWorkerMadvise, RegionWorkerLoop, RegionWorkerCrash, RegionWorkerSkip, RegionWorkerPublish DEF R!Worker
<1>3. CASE R!Call
  BY <1>3, RegionDestroyStop, RegionDestroy, RegionDestroyMoved, RegionMoveTake, RegionMoveClearBase, RegionMoveClearSize, RegionMoveStop, RegionMoveJoin DEF R!Call, R!CallGoesOn
<1>4. QED
  BY <1>1, <1>2, <1>3, RegionConstruct, RegionMlock, RegionAdvanceHwm, RegionTouch DEF R!Next


-----------------------------------------------------------------------------
(* The programs together. *)

(* ctx_switch_bench is at work, or another program is. *)
PingPongOK == PingPongInv \/ P!Begin("exit")

(* Who is at "exit" from the start does not move. *)
LEMMA PingPongOKNext == PingPongOK /\ [P!Next]_(P!vars) => PingPongOK'
<1>1. ASSUME P!Begin("exit"), [P!Next]_(P!vars) PROVE P!Begin("exit")'
  <2>1. /\ at.ping = "exit" /\ at.pong = "exit" /\ asleep = {}
        /\ P!Players = {"ping", "pong"}
    BY <1>1 DEF P!Begin, P!Players
  <2>2. ~P!Ping /\ ~P!Pong
    BY <2>1 DEF P!Ping, P!Pong, P!PingLock, P!PingGive, P!Notify, P!Lock, P!Sleep, P!Wake, P!PingTake, P!PingStop,
                P!PingDone, P!PingJoin, P!PongLock, P!PongTurn, P!PongExit, P!Go
  <2>3. UNCHANGED P!vars
    BY <1>1, <2>1, <2>2 DEF P!Next, P!Spurious
  <2> QED
    BY <1>1, <2>3 DEF P!vars, P!shared, P!Begin
<1> QED
  BY <1>1, PingPongNext DEF PingPongOK

(* prefault_bench constructs regions of its three policies. *)
PlanOK == plan \in Seq({"Lazy", "EagerTouch", "MapPopulate"}) /\ pg \in Nat /\ (pg > 0 => plan # <<>>)

(* run_policy uses the region as any other user does. *)
LEMMA PrefaultNext ==
  ASSUME RegionInv, PlanOK, PrefaultStep
  PROVE  RegionInv' /\ PlanOK'
<1>1. CASE R!BeginRun
  <2>1. Head(plan) \in Policies
    BY <1>1, PoliciesAssumption DEF R!BeginRun, PlanOK
  <2>2. R!Construct(Head(plan), FALSE)
    BY <1>1 DEF R!BeginRun
  <2>3. PlanOK'
    BY <1>1 DEF R!BeginRun, PlanOK
  <2> QED
    BY <2>1, <2>2, <2>3, RegionConstruct, Zenon
<1>2. CASE R!TouchPage
  <2>1. pg - 1 \in R!AllPages
    BY <1>2, PagesAssumption DEF R!TouchPage, R!AllPages
  <2>2. R!Touch(pg - 1)
    BY <1>2 DEF R!TouchPage
  <2>3. PlanOK'
    BY <1>2 DEF R!TouchPage, PlanOK
  <2> QED
    BY <2>1, <2>2, <2>3, RegionTouch, Zenon
<1>3. CASE R!LeaveScope
  BY <1>3, RegionDestroyStop, Zenon DEF R!LeaveScope, R!bench, PlanOK
<1>4. CASE R!EndRun
  <2>1. R!Destroy
    BY <1>4 DEF R!EndRun
  <2>2. PlanOK'
    BY <1>4, PagesAssumption DEF R!EndRun, PlanOK
  <2> QED
    BY <2>1, <2>2, RegionDestroy
<1> QED
  BY <1>1, <1>2, <1>3, <1>4 DEF PrefaultStep, R!RunStep

(* What holds of every program but the ones of module BenchHarness. *)
OthersInv == PingPongOK /\ RegionInv /\ PlanOK

(* The programs begin in it. *)
LEMMA OthersInit == Init => OthersInv
<1> SUFFICES ASSUME Init PROVE OthersInv
  OBVIOUS
<1>1. PingPongOK
  BY PingPongInit, Zenon DEF Init, P!Init, PingPongOK
<1>2. RegionInv
  BY RegionInit DEF Init
<1>3. PlanOK
  <2>1. plan \in {R!Plan, <<>>} /\ pg = 0
    BY Zenon DEF Init, R!BenchInit
  <2>2. R!Plan \in Seq({"Lazy", "EagerTouch", "MapPopulate"})
    BY DEF R!Plan
  <2>3. plan \in Seq({"Lazy", "EagerTouch", "MapPopulate"})
    <3>1. CASE plan = R!Plan
      BY <3>1, <2>2, Zenon
    <3>2. CASE plan = <<>>
      BY <3>2
    <3> QED
      BY <2>1, <3>1, <3>2, Zenon
  <2>4. pg \in Nat /\ ~(pg > 0)
    BY <2>1
  <2> QED
    BY <2>3, <2>4, Zenon DEF PlanOK
<1> QED
  BY <1>1, <1>2, <1>3 DEF OthersInv

(* Every step of every program keeps it. *)
LEMMA OthersNext == OthersInv /\ [Next]_vars => OthersInv'
<1> SUFFICES ASSUME OthersInv, [Next]_vars PROVE OthersInv'
  OBVIOUS
<1> USE DEF OthersInv
<1>1. UNCHANGED pingPong => PingPongOK'
  BY PingPongOKNext, Zenon DEF pingPong, P!vars, P!shared
<1>2. UNCHANGED region => RegionInv'
  BY RegionNext, Zenon DEF region, R!vars, R!flags, R!adaptive
<1>3. UNCHANGED prefault => PlanOK'
  BY Zenon DEF prefault, PlanOK
<1>4. CASE HarnessStep
  BY <1>1, <1>2, <1>3, <1>4 DEF HarnessStep
<1>5. CASE PingPongStep
  BY <1>2, <1>3, <1>5, PingPongOKNext DEF PingPongStep
<1>6. CASE PrefaultStep
  BY <1>1, <1>6, PrefaultNext DEF PrefaultStep
<1>7. CASE RegionStep
  BY <1>1, <1>3, <1>7, RegionNext DEF RegionStep
<1>8. CASE UNCHANGED vars
  BY <1>1, <1>2, <1>3, <1>8 DEF vars
<1> QED
  BY <1>4, <1>5, <1>6, <1>7, <1>8 DEF Next

(* For every number of round trips no wake-up is lost and each turn is     *)
(* taken once (ping_pong_ns).                                              *)
THEOREM TurnsTakenAlways == Spec => []TurnsTaken
<1>1. ASSUME OthersInv PROVE TurnsTaken
  <2>1. CASE PingPongInv
    BY <2>1 DEF PingPongInv, TurnsTaken
  <2>2. CASE P!Begin("exit")
    <3>1. at.ping = "exit" /\ at.pong = "exit" /\ i.ping = 0 /\ i.pong = 0 /\ turn = 0 /\ asleep = {}
      BY <2>2 DEF P!Begin, P!Players
    <3>2. P!TypeOK
      <4>1. done \in BOOLEAN
        BY <2>2, Zenon DEF P!Begin
      <4>2. i \in [P!Players -> 0 .. RoundTrips]
        BY <2>2, LoopsAssumption DEF P!Begin, P!Players
      <4> QED
        BY <2>2, <4>1, <4>2 DEF P!Begin, P!TypeOK, P!Players, P!Free
    <3> QED
      BY <3>1, <3>2 DEF P!TurnsTaken, TurnsTaken
  <2> QED
    BY <1>1, <2>1, <2>2 DEF OthersInv, PingPongOK
<1>2. OthersInv => TurnsTaken
  BY <1>1
<1> QED
  BY OthersInit, OthersNext, <1>2, PTL DEF Spec

(* pong never takes the break that its loop has for "done": it makes as    *)
(* many turns as ping, so it has left the loop when done is set.           *)
BreakIsDead == at.pong = "test" => ~done

(* For every number of round trips the break of pong's loop is dead code   *)
(* (ping_pong_ns).                                                         *)
THEOREM BreakNeverTaken == Spec => []BreakIsDead
<1>1. PingPongInv => BreakIsDead
  BY LoopsAssumption DEF PingPongInv, P!TurnsTaken, P!TypeOK, P!Players, BreakIsDead, Closing, InTurn
<1>2. P!Begin("exit") => BreakIsDead
  BY DEF P!Begin, P!Players, BreakIsDead
<1>3. OthersInv => BreakIsDead
  BY <1>1, <1>2 DEF OthersInv, PingPongOK
<1> QED
  BY OthersInit, OthersNext, <1>3, PTL DEF Spec

(* For every number and size of pages, watermark and marks, in any         *)
(* program, the region is mapped and locked as long as its owner lives and *)
(* says so, and what the worker is about to touch is mapped and inside the *)
(* region, except between a move's clearing of _base and its join: there,  *)
(* and nowhere else, the fallback build may crash (~VmemRegion,            *)
(* VmemRegion(VmemRegion&&), adaptive_worker).                             *)
THEOREM TouchesMappedAlways == Spec => []TouchesMapped
<1>1. RegionInv => TouchesMapped
  BY DEF RegionInv, R!TypeOK, Holders, WorkerWithin, R!TouchesMapped, Moving, R!Objects, R!NullBase, TouchesMapped
<1>2. OthersInv => TouchesMapped
  BY <1>1 DEF OthersInv
<1> QED
  BY OthersInit, OthersNext, <1>2, PTL DEF Spec

(* For every number and size of pages, watermark and marks, in any         *)
(* program, before and after a move, every whole page below what           *)
(* prefaulted_bytes reports is touched, as long as no madvise on the       *)
(* region has failed (adaptive_worker).                                    *)
THEOREM PrefaultedTouchedAlways == Spec => []PrefaultedTouched
<1>1. RegionInv => PrefaultedTouched
  BY DEF RegionInv, R!TypeOK, Holders, WorkerWithin, CountsTouched, R!PrefaultedTouched, Moving, R!Objects, PrefaultedTouched
<1>2. OthersInv => PrefaultedTouched
  BY <1>1 DEF OthersInv
<1> QED
  BY OthersInit, OthersNext, <1>2, PTL DEF Spec

-----------------------------------------------------------------------------
(* The benchmarks that start threads together: module BenchHarnessProofs   *)
(* is about the same harness.                                              *)

HP == INSTANCE BenchHarnessProofs WITH Programs <- Harness

(* The two instances of the harness begin alike, *)
LEMMA SameBegin == \A counts : H!Begin(counts) <=> HP!Begin(counts)
  BY Zenon DEF H!Begin, HP!Begin, H!Threads, HP!Threads, H!Workers, HP!Workers, H!Main, HP!Main,
               H!Nobody, HP!Nobody, H!NoBlock, HP!NoBlock, H!Range, HP!Range, H!Max, HP!Max

(* take the same steps, *)
LEMMA SameNext == H!Next <=> HP!Next
  BY Zenon DEF H!Next, HP!Next, H!MainStep, HP!MainStep, H!CreateThread, HP!CreateThread,
               H!StartTimer, HP!StartTimer, H!ReadTimer, HP!ReadTimer, H!JoinAll, HP!JoinAll,
               H!ArriveAndWait, HP!ArriveAndWait, H!WorkerStep, HP!WorkerStep, H!Kernel, HP!Kernel,
               H!HashItem, HP!HashItem, H!Increment, HP!Increment, H!Lock, HP!Lock, H!AllocMalloc,
               HP!AllocMalloc, H!AllocCached, HP!AllocCached, H!FreeMalloc, HP!FreeMalloc,
               H!FreeCached, HP!FreeCached, H!Exit, HP!Exit, H!Allocating, HP!Allocating,
               H!Freeing, HP!Freeing, H!InLoop, HP!InLoop, H!HasLock, HP!HasLock, H!Allocators,
               HP!Allocators, H!LoopLength, HP!LoopLength, H!SliceCount, HP!SliceCount,
               H!SliceStart, HP!SliceStart, H!PerThread, HP!PerThread, H!Back, HP!Back, H!PopBack,
               HP!PopBack, H!Created, HP!Created, H!At, HP!At, H!T, HP!T, H!Main, HP!Main,
               H!Workers, HP!Workers, H!Threads, HP!Threads, H!Nobody, HP!Nobody, H!NoBlock,
               HP!NoBlock, H!memory, HP!memory, H!work, HP!work, H!Range, HP!Range, H!Max, HP!Max,
               H!Cardinality, HP!Cardinality

(* and mean the same by WorkTimed *)
LEMMA SameTimed == H!WorkTimed <=> HP!WorkTimed
  BY Zenon DEF H!WorkTimed, HP!WorkTimed, H!TypeOK, HP!TypeOK, H!At, HP!At, H!Created, HP!Created,
               H!LoopLength, HP!LoopLength, H!SliceCount, HP!SliceCount, H!SliceStart,
               HP!SliceStart, H!PerThread, HP!PerThread, H!T, HP!T, H!Threads, HP!Threads,
               H!Workers, HP!Workers, H!Main, HP!Main, H!Nobody, HP!Nobody, H!NoBlock, HP!NoBlock,
               H!Range, HP!Range, H!Max, HP!Max

(* and by BlocksAccounted. *)
LEMMA SameAccounted == H!BlocksAccounted <=> HP!BlocksAccounted
  BY Zenon DEF H!BlocksAccounted, HP!BlocksAccounted, H!Workers, HP!Workers, H!NoBlock, HP!NoBlock,
               H!Range, HP!Range, H!Max, HP!Max, H!Cardinality, HP!Cardinality, H!Sum, HP!Sum, H!T,
               HP!T

(* A benchmark begins with its sweep; the other programs have none. *)
LEMMA HarnessBegins == Init => HP!HarnessInv
<1> SUFFICES ASSUME Init PROVE HP!HarnessInv
  OBVIOUS
<1>1. PICK counts : (counts = Sweep \/ counts = <<>>) /\ H!Begin(counts)
  BY DEF Init
<1>2. HP!Begin(counts)
  BY <1>1, SameBegin
<1> QED
  BY <1>1, <1>2, HP!HarnessInit, SweepAssumption, LoopsAssumption, BlocksAssumption, PagesAssumption, MarksAssumption, PoliciesAssumption
     DEF HP!NoBlock, NoBlock

(* The steps of the other programs leave the harness alone. *)
LEMMA HarnessKept == HP!HarnessInv /\ [Next]_vars => HP!HarnessInv'
<1>1. ASSUME HP!HarnessInv, H!Next PROVE HP!HarnessInv'
  <2>1. HP!Next
    BY <1>1, SameNext, Zenon
  <2> QED
    BY <1>1, <2>1, HP!HarnessNext, SweepAssumption, LoopsAssumption, BlocksAssumption, PagesAssumption, MarksAssumption, PoliciesAssumption
       DEF HP!NoBlock, NoBlock
<1>2. ASSUME HP!HarnessInv, UNCHANGED harness PROVE HP!HarnessInv'
  <2>1. UNCHANGED HP!vars
    BY <1>2 DEF harness, HP!vars, HP!work, HP!memory
  <2> QED
    BY <1>2, <2>1, HP!HarnessSame, SweepAssumption, LoopsAssumption, BlocksAssumption, PagesAssumption, MarksAssumption, PoliciesAssumption
       DEF HP!NoBlock, NoBlock
<1> QED
  BY <1>1, <1>2 DEF Next, vars, HarnessStep, PingPongStep, PrefaultStep, RegionStep

(* For every sweep of thread counts, number of items and number of         *)
(* operations: the barrier of T + 1 lets main and the workers pass         *)
(* together, the timer runs while any of them works, every item is hashed  *)
(* once although T need not divide kTotalItems, and no increment is lost.  *)
THEOREM WorkTimedAlways == Spec => []WorkTimed
<1>1. HP!HarnessInv => WorkTimed
  BY HP!HarnessTimed, SameTimed, SweepAssumption, LoopsAssumption, BlocksAssumption, PagesAssumption, MarksAssumption, PoliciesAssumption
     DEF WorkTimed, HP!NoBlock, NoBlock
<1> QED
  BY <1>1, HarnessBegins, HarnessKept, PTL DEF Spec

(* For every sweep, cache size and set of blocks: no block is in two       *)
(* threads' hands or caches, and what the thread-local caches leave behind *)
(* is at most one block for each thread that ever ran.                     *)
THEOREM BlocksAccountedAlways == Spec => []BlocksAccounted
<1>1. HP!HarnessInv => BlocksAccounted
  BY HP!HarnessAccounted, SameAccounted, SweepAssumption, LoopsAssumption, BlocksAssumption, PagesAssumption, MarksAssumption, PoliciesAssumption
     DEF BlocksAccounted, HP!NoBlock, NoBlock
<1> QED
  BY <1>1, HarnessBegins, HarnessKept, PTL DEF Spec
=============================================================================
