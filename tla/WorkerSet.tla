----------------------------- MODULE WorkerSet -----------------------------
(***************************************************************************)
(* The set of ready workers an ingress dispatches to: type workerSet of    *)
(* internal/overlay/workers.go.  Every method of it runs under one mutex,  *)
(* so each is an operator from a worker set to a worker set.               *)
(*                                                                         *)
(* A worker set is a record: workers is the sequence of routes, next the   *)
(* zero-based round-robin cursor.  A route is the worker's index with its  *)
(* outbound channel; the channel is made by the worker's generation, so    *)
(* the generation number stands for it.                                    *)
(***************************************************************************)
EXTENDS Integers, Sequences

EmptyWorkerSet == [workers |-> <<>>, next |-> 0]

Route(index, generation) == [index |-> index, generation |-> generation]

RouteIndexes(ws) == {ws.workers[k].index : k \in DOMAIN ws.workers}

\* The sequence s without its element at position k.
DropAt(s, k) == [j \in 1 .. Len(s) - 1 |-> IF j < k THEN s[j] ELSE s[j + 1]]

\* The position of a worker's route; SetReady never leaves it two.
PositionOf(ws, index) == CHOOSE k \in DOMAIN ws.workers : ws.workers[k].index = index

\* The cursor goes back to zero when it has run off the sequence.
ClampNext(workers, next) == IF next >= Len(workers) THEN 0 ELSE next

RemoveLocked(ws, index) ==
    IF index \notin RouteIndexes(ws) THEN ws
    ELSE LET rest == DropAt(ws.workers, PositionOf(ws, index))
         IN  [workers |-> rest, next |-> ClampNext(rest, ws.next)]

SetReady(ws, index, generation) ==
    LET kept == RemoveLocked(ws, index)
        all  == Append(kept.workers, Route(index, generation))
    IN  [workers |-> all, next |-> ClampNext(all, kept.next)]

Remove(ws, index) == RemoveLocked(ws, index)

\* Next returns the route under the cursor and moves the cursor on.  It is
\* called only where the set is not empty: on an empty set the code returns
\* false and changes nothing.
NextRoute(ws) == ws.workers[(ws.next % Len(ws.workers)) + 1]

AdvanceNext(ws) == [ws EXCEPT !.next = (ws.next + 1) % Len(ws.workers)]
=============================================================================
