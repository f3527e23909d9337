----------------------------- MODULE TcpOverlay -----------------------------
(***************************************************************************)
(* A TCP overlay session end to end: TcpIngress and TcpEgress, joined by   *)
(* the overlay connection of one worker.  The connection is DTLS over a    *)
(* TURN relay over UDP: frames are lost and reordered and, since DTLS      *)
(* rejects replays, not duplicated.  A frame that never arrives is lost.   *)
(*                                                                         *)
(* The relay may fail and either side may close a stream at any time.  The *)
(* stop of the whole client or server is left to the modules of the sides. *)
(***************************************************************************)
EXTENDS TcpIngress, TcpEgress

ASSUME OneWorker == Workers = {0} /\ MaxGeneration = 1

CONSTANT MaxTraffic     \* bound: chunks read on both sides, over all streams

VARIABLE wire       \* the client's frames on their way to the server

vars == <<clientVars, serverVars, wire>>

Init == ClientInit /\ ServerInit /\ wire = {}

Client(step) == step /\ UNCHANGED <<serverVars, wire>>

Server(step) == step /\ UNCHANGED <<clientVars, wire>>

\* Mutant: the frame stays first in the channel and is written again.
TransmitAgain ==
    /\ link[0] = "up"
    /\ outbound[Route(0, generation[0])] /= <<>>
    /\ wire' = wire \cup {Head(outbound[Route(0, generation[0])])}
    /\ UNCHANGED <<clientVars, serverVars>>

\* frameChannelToEndpoint: the worker writes the next outbound frame.
Transmit ==
    /\ TransmitFrame(0)
    /\ wire' = wire \cup {Head(outbound[Route(0, generation[0])])}
    /\ UNCHANGED serverVars

\* runClientFrames: the server reads a frame and handles it.
FrameArrives(frame) ==
    /\ wire' = wire \ {frame}
    /\ CASE frame.kind = "open"  -> OpenUpstream(frame.id)
         [] frame.kind = "data"  -> DataForUpstream(frame)
         [] frame.kind = "close" -> CloseForUpstream(frame.id)
    /\ UNCHANGED clientVars

\* endpointToFrameHandler: the worker reads a frame and delivers it.
ReplyArrives(frame) ==
    /\ replies' = replies \ {frame}
    /\ IF frame.kind = "data" THEN DeliverData(0, frame) ELSE DeliverClose(0, frame.id)
    /\ UNCHANGED <<session, reading, upstreams, upstream, overflowed, wire>>

ReaderStep(id) == ReadChunk(id) \/ SendChunk(id) \/ ReadEnds(id) \/ ReaderCloses(id)
WriterStep(id) == WriteChunk(id) \/ WriterCloses(id) \/ WriterStops(id)
WorkerStep == WorkerReady(0) \/ WorkerFails(0) \/ RemoveRoute(0) \/ CloseWorkerStreams(0)
                \/ DelivererCloses(0)
AcceptStep == AcceptConn \/ StoreStream \/ OpenQueued \/ OpenRefused

RunStep(id) == DialSucceeds(id) \/ DialFails(id) \/ SetConn(id) \/ FinishStream(id)
UpReaderStep(id) == LoadConn(id, "reader") \/ ReplyChunk(id) \/ UpstreamEnds(id)
UpWriterStep(id) == LoadConn(id, "writer") \/ ForwardChunk(id) \/ UpstreamWriterStops(id)
SessionStep == ReadFails \/ SessionSweeps \/ SessionCloses

Traffic == SumFunction([s \in StreamIDs |-> local[s].read + upstream[s].read])

Next ==
    /\ \/ Transmit
       \/ \E frame \in wire : FrameArrives(frame)
       \/ \E frame \in replies : ReplyArrives(frame)
       \/ Client(AcceptStep) \/ Client(WorkerStep) \/ Server(SessionStep)
       \/ \E id \in StreamIDs :
             \/ Client(ReaderStep(id)) \/ Client(WriterStep(id))
             \/ Server(OverflowCloses(id)) \/ Server(RunStep(id))
             \/ Server(UpReaderStep(id)) \/ Server(UpWriterStep(id))
    /\ Traffic' <= MaxTraffic

\* As for the two sides on their own.  The network, the application and the
\* upstream owe nothing: an upstream that goes on sending renews the deadline of
\* the reader with each chunk.  Only a reader that is to stop does so, at the
\* next chunk, the end of the upstream or the deadline.
Fairness ==
    /\ WF_vars(Client(StoreStream \/ OpenQueued \/ OpenRefused))
    /\ WF_vars(Client(DelivererCloses(0) \/ CloseWorkerStreams(0)))
    /\ WF_vars(Client(RemoveRoute(0)))
    /\ WF_vars(Server(SessionSweeps \/ SessionCloses))
    /\ WF_vars(Server(link[0] /= "up" /\ generation[0] > 0 /\ ReadFails))
    /\ \A id \in StreamIDs :
          /\ WF_vars(Client(SendChunk(id) \/ ReaderCloses(id) \/ (id \notin streams /\ ReadEnds(id))))
          /\ WF_vars(Client(WriterStep(id)))
          /\ WF_vars(Server(OverflowCloses(id)))
          /\ WF_vars(Server(RunStep(id)))
          /\ WF_vars(Server(LoadConn(id, "reader")
                               \/ (LoopDone(id) /\ (UpstreamEnds(id) \/ ReplyChunk(id)))))
          /\ WF_vars(Server(UpWriterStep(id)))

Spec == Init /\ [][Next]_vars /\ Fairness

----------------------------------------------------------------------------
(* Properties *)

\* Each direction of a stream is a byte stream: what the far socket was given
\* is, at any moment, a prefix of what the near one sent, whatever the network
\* lost or reordered and wherever a queue overflowed.
StreamsArePrefixes ==
    \A id \in StreamIDs :
        /\ upstream[id].written = Prefix(Len(upstream[id].written))
        /\ Len(upstream[id].written) <= local[id].read
        /\ local[id].written = Prefix(Len(local[id].written))
        /\ Len(local[id].written) <= upstream[id].read

\* A stream is opened once: the server never dials again for a stream that it
\* has dialled for, whether that one is still open or already over.
StreamsOpenOnce ==
    [][\A id \in StreamIDs :
          upstream'[id].run = "dialing" => upstream[id].run \in {"none", "dialing"}]_vars

\* The upstream ends, or falls silent for the idle timeout, sooner or later.
UpstreamGoesQuiet(id) == WF_vars(Server(UpstreamEnds(id)))

\* When the local connection is closed, the upstream stream ends too, even if
\* the close frame was lost or overtook the open frame, as long as the upstream
\* does not talk on for ever: nothing else ends the stream then.
LocalCloseReachesUpstream ==
    \A id \in StreamIDs :
        UpstreamGoesQuiet(id) =>
            ((id <= nextStreamID /\ id \notin streams) ~> id \notin upstreams)

=============================================================================
