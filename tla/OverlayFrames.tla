--------------------------- MODULE OverlayFrames ----------------------------
(***************************************************************************)
(* The frames of the TCP overlay: Frame of internal/overlay/types.go, as   *)
(* far as streams use it.  A payload is the number of the chunk it carries *)
(* among the chunks of its stream.                                         *)
(***************************************************************************)
EXTENDS Naturals

CONSTANT MaxStreams     \* bound: how many streams there are

ASSUME StreamsAssumption == MaxStreams \in Nat \ {0}

StreamIDs == 1 .. MaxStreams

Frame(kind, id, sequence, chunk) ==
    [kind |-> kind, id |-> id, sequence |-> sequence, chunk |-> chunk]

OpenFrame(id)  == Frame("open", id, 0, 0)
CloseFrame(id) == Frame("close", id, 0, 0)

\* The first n chunks of a stream, in order.
Prefix(n) == [k \in 1 .. n |-> k]
=============================================================================
