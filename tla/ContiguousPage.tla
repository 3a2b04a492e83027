---------------------------- MODULE ContiguousPage ---------------------------
(***************************************************************************)
(* frontend/contiguous.html: the page that replays the trace of the        *)
(* contiguous-memory demo.  A page is the record of the script's           *)
(* variables, and applyEvent an operator on it.  The log and what the      *)
(* render functions draw are left out, except the count of free fragments. *)
(***************************************************************************)
EXTENDS Integers, SequencesExt

CONSTANTS N,             \* the pids are 1 .. N
          Total          \* TOTAL

NoBlock == [offset |-> 0, size |-> 0]

(* The variables after reset().  occupied, a Map with the offset as key,   *)
(* is the sequence of its entries in the order of their insertion.  A pid  *)
(* that is not in the map of processes has no state.                       *)
Reset ==
    [state |-> [p \in 1 .. N |-> "none"],
     block |-> [p \in 1 .. N |-> NoBlock],
     occupied |-> <<>>,
     statAlloc |-> 0, statFree |-> 0, statBytes |-> 0]

Known(page, pid) == page.state[pid] # "none"

ProcessCreated(page, e) == [page EXCEPT !.state[e.pid] = "NEW", !.block[e.pid] = NoBlock]

SetState(page, pid, state) == [page EXCEPT !.state[pid] = IF @ = "none" THEN @ ELSE state]

(* occupied.set: an entry with this key is replaced. *)
MemoryAllocated(page, e) ==
    LET entry == [offset |-> e.offset, pid |-> e.pid, size |-> e.size]
        same == {i \in DOMAIN page.occupied : page.occupied[i].offset = e.offset}
    IN  [page EXCEPT
           !.block[e.pid] = IF Known(page, e.pid) THEN [offset |-> e.offset, size |-> e.size] ELSE @,
           !.occupied = IF same = {} THEN Append(@, entry)
                        ELSE [i \in DOMAIN @ |-> IF i \in same THEN entry ELSE @[i]],
           !.statAlloc = @ + 1, !.statBytes = @ + e.size]

(* Mutation: the last entry is deleted, whoever it belongs to. *)
MemoryFreedLast(page, e) ==
    [page EXCEPT !.occupied = Front(@), !.statBytes = @ - page.block[e.pid].size,
                 !.block[e.pid] = NoBlock, !.statFree = @ + 1]

(* The first entry of the process is deleted. *)
MemoryFreed(page, e) ==
    LET entries == {i \in DOMAIN page.occupied : page.occupied[i].pid = e.pid}
    IN  [page EXCEPT
           !.occupied = IF entries = {} THEN @ ELSE RemoveAt(@, Min(entries)),
           !.statBytes = IF Known(page, e.pid) THEN Max({0, @ - page.block[e.pid].size}) ELSE @,
           !.block[e.pid] = NoBlock,
           !.statFree = @ + 1]

(* Events without a case change nothing. *)
ApplyEvent(page, e) ==
    CASE e.type = "process_created" -> ProcessCreated(page, e)
      [] e.type = "memory_allocated" -> MemoryAllocated(page, e)
      [] e.type = "memory_freed" -> MemoryFreed(page, e)
      [] e.type = "process_ready" -> SetState(page, e.pid, "READY")
      [] e.type \in {"process_scheduled", "cpu_run"} -> SetState(page, e.pid, "RUNNING")
      [] e.type = "io_requested" -> SetState(page, e.pid, "WAITING")
      [] e.type = "process_terminated" -> SetState(page, e.pid, "TERMINATED")
      [] OTHER -> page

(* The gaps before, between and behind the blocks in address order. *)
CountFreeFragments(page) ==
    LET Behind(at, b) == [cursor |-> b.offset + b.size,
                          frags |-> IF b.offset > at.cursor THEN at.frags + 1 ELSE at.frags]
        sorted == SortSeq(page.occupied, LAMBDA b, c : b.offset < c.offset)
        end == FoldLeft(Behind, [cursor |-> 0, frags |-> 0], sorted)
    IN  IF end.cursor < Total THEN end.frags + 1 ELSE end.frags
=============================================================================
