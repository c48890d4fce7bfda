----------------------------- MODULE CommandDedup -----------------------------
(***************************************************************************)
(* The ring of recent remote requests that gateway_workers.c keeps so that *)
(* a request delivered again by QoS 1 is answered and not executed again.  *)
(* A slot holds the request id, the command and the response that was      *)
(* produced for them; slots are reused in insertion order.                 *)
(***************************************************************************)
EXTENDS Integers, FiniteSets

CONSTANT DedupCap   \* GATEWAY_COMMAND_DEDUP_CAPACITY, 16 in the code

ASSUME DedupCapAssumption == DedupCap \in Nat \ {0}

Slots == 0 .. DedupCap - 1

\* A slot whose "occupied" flag is still false.
Unoccupied == [occupied |-> FALSE]

\* The slots whose request id is rid.
SlotsOf(entries, rid) ==
    {s \in Slots : entries[s].occupied /\ entries[s].request_id = rid}

\* gateway_find_cached_command_response scans the slots in order and decides
\* at the first one that holds the request id.
FindCached(entries, rid, command) ==
    IF SlotsOf(entries, rid) = {}
    THEN "MISS"
    ELSE LET first == CHOOSE s \in SlotsOf(entries, rid) :
                          \A other \in SlotsOf(entries, rid) : s <= other
         IN  IF entries[first].command = command THEN "MATCH" ELSE "CONFLICT"

\* gateway_cache_command_response: fill the next slot, then move on.
CacheResponse(entries, next, rid, command, response) ==
    [entries EXCEPT ![next] = [occupied |-> TRUE, request_id |-> rid,
                               command |-> command, response |-> response]]

\* Mutant of NextSlot: the slot is never moved on.
SameSlot(next) == next

NextSlot(next) == (next + 1) % DedupCap
=============================================================================
