----------------------------- MODULE BackendPool -----------------------------
(***************************************************************************)
(* router/router.py, class BackendPool: the list of backends the router    *)
(* believes healthy, in the order of the candidate ports, and the cursor   *)
(* of the round robin.  Every operation below runs under the pool's lock,  *)
(* so it is atomic; what is not, the probing that precedes Published, is   *)
(* in module Router.                                                       *)
(*                                                                         *)
(* A pool is a record; the cursor counts from 0, as in the code.           *)
(***************************************************************************)
EXTENDS Integers, Sequences, SequencesExt

EmptyPool == [healthy |-> <<>>, cursor |-> 0]

(* The end of refresh(): the new list, and the cursor kept inside it.      *)
Published(pool, found) ==
    [healthy |-> found,
     cursor |-> IF found = <<>> THEN 0 ELSE pool.cursor % Len(found)]

(* next_backend(): the port, and the pool after it.                        *)
Upcoming(pool) == pool.healthy[pool.cursor + 1]
Advanced(pool) == [pool EXCEPT !.cursor = (@ + 1) % Len(pool.healthy)]

Listed(pool) == ToSet(pool.healthy)

(* self._healthy.index(port), from 0.                                      *)
IndexOf(pool, port) ==
    (CHOOSE i \in 1..Len(pool.healthy) : pool.healthy[i] = port) - 1

(* Variant: the cursor is not moved with the ports behind the removed one. *)
MarkedUnhealthyCursorKept(pool, port) ==
    IF port \notin Listed(pool) THEN pool
    ELSE LET rest == RemoveAt(pool.healthy, IndexOf(pool, port) + 1)
         IN  [healthy |-> rest, cursor |-> IF pool.cursor >= Len(rest) THEN 0 ELSE pool.cursor]

(* Variant: the cursor is not brought back when the last port goes.        *)
MarkedUnhealthyNoReset(pool, port) ==
    IF port \notin Listed(pool) THEN pool
    ELSE LET idx == IndexOf(pool, port)
         IN  [healthy |-> RemoveAt(pool.healthy, idx + 1),
              cursor |-> IF pool.cursor > idx THEN pool.cursor - 1 ELSE pool.cursor]

(* Variant: the cursor is moved back also when it is on the removed port.  *)
MarkedUnhealthyOffByOne(pool, port) ==
    IF port \notin Listed(pool) THEN pool
    ELSE LET idx == IndexOf(pool, port)
             rest == RemoveAt(pool.healthy, idx + 1)
             moved == IF pool.cursor >= idx THEN pool.cursor - 1 ELSE pool.cursor
         IN  [healthy |-> rest, cursor |-> IF moved >= Len(rest) THEN 0 ELSE moved]

(* mark_unhealthy(port): remove the port; the cursor follows the port it   *)
(* points to, and goes back to 0 when it pointed past the last one left.   *)
MarkedUnhealthy(pool, port) ==
    IF port \notin Listed(pool) THEN pool
    ELSE LET idx == IndexOf(pool, port)
             rest == RemoveAt(pool.healthy, idx + 1)
             moved == IF pool.cursor > idx THEN pool.cursor - 1 ELSE pool.cursor
         IN  [healthy |-> rest, cursor |-> IF moved >= Len(rest) THEN 0 ELSE moved]

-----------------------------------------------------------------------------
(* The cursor is on a listed port, or at 0 when none is listed: the index  *)
(* of next_backend never fails.                                            *)
CursorInRange(pool) ==
    pool.cursor \in Nat /\ (pool.cursor < Len(pool.healthy) \/ pool.cursor = 0)

(* No port is listed twice: list.index finds the only one.                 *)
NoPortTwice(pool) == IsInjective(pool.healthy)
=============================================================================
