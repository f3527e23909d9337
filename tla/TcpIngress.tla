----------------------------- MODULE TcpIngress -----------------------------
(***************************************************************************)
(* The client's TCP ingress: type TCPIngress of                            *)
(* internal/overlay/tcp_ingress.go.  Each accepted local connection becomes*)
(* an overlay stream on the worker that workerSet.Next picks; a reader     *)
(* turns what the application sends into frames on that worker's outbound  *)
(* channel, a writer gives the application what Deliver queued.            *)
(*                                                                         *)
(* closeStream is one step: whoever deletes the map entry closes done and  *)
(* the connection right after it, so the connection of a stored stream is  *)
(* open exactly as long as the stream is in the map.  So is a loop over    *)
(* closeStream: it closes the streams that were in the map when it took    *)
(* its snapshot, and closing one of them a second time does nothing.       *)
(***************************************************************************)
EXTENDS Integers, Sequences, FiniteSets, Functions, WorkerSet, OverlayFrames

CONSTANTS
    Workers,        \* the indexes of the transport workers
    MaxGeneration,  \* bound: how often one worker becomes ready
    MaxChunks,      \* bound: how many chunks the applications send, over all streams
    InboundCap,     \* capacity of a stream's inbound queue (8 in the code)
    OutboundCap     \* capacity of a worker's outbound channel (64)

ASSUME IngressAssumption ==
    /\ {MaxGeneration, InboundCap, OutboundCap} \subseteq Nat \ {0}
    /\ MaxChunks \in Nat

VARIABLES
    ctxDone,        \* the session's context is cancelled
    ws,             \* the worker set
    link,           \* each worker: down, up, failed (its transport has ended
                    \* and the supervisor has not removed it) or removing
    generation,     \* the generation of each worker
    deliverer,      \* each worker's inbound forwarder: 0 when it is free,
                    \* else the stream whose close it is announcing
    accept,         \* the accept loop
    nextStreamID,
    streams,        \* the keys of the stream map
    local,          \* the tcpLocalStreams
    outbound,       \* the outbound channel of each route
    afterFunc,      \* the context.AfterFunc of Run: armed, stopped or fired
    closed          \* Close has been called

clientVars == <<ctxDone, ws, link, generation, deliverer, accept, nextStreamID, streams,
                local, outbound, afterFunc, closed>>
workerVars == <<ws, link, generation>>
stopVars   == <<ctxDone, afterFunc, closed>>
\* What the goroutines of a stream leave alone.
ingressVars == <<workerVars, deliverer, accept, nextStreamID, stopVars>>

Routes == [index : Workers, generation : 0 .. MaxGeneration]

\* A stream that just got its goroutines, or none yet.  read counts the chunks
\* taken from the application and written lists the ones given to it.
LocalStream(route, pc) ==
    [route |-> route, reader |-> pc, writer |-> pc, inbound |-> <<>>,
     sendSequence |-> 0, recvSequence |-> 0, notified |-> FALSE,
     read |-> 0, written |-> <<>>]

NoRoute == CHOOSE r \in Routes : r.generation = 0

ClientInit ==
    /\ ctxDone = FALSE
    /\ ws = EmptyWorkerSet
    /\ link = [w \in Workers |-> "down"]
    /\ generation = [w \in Workers |-> 0]
    /\ deliverer = [w \in Workers |-> 0]
    /\ accept = [pc |-> "accept", route |-> NoRoute]
    /\ nextStreamID = 0
    /\ streams = {}
    /\ local = [s \in StreamIDs |-> LocalStream(NoRoute, "none")]
    /\ outbound = [r \in Routes |-> <<>>]
    /\ afterFunc = "armed"
    /\ closed = FALSE

----------------------------------------------------------------------------
(* Helpers shared by the goroutines *)

closeStream(id) == streams' = streams \ {id}

HasRoom(route) == Len(outbound[route]) < OutboundCap

Enqueue(route, frame) == outbound' = [outbound EXCEPT ![route] = Append(@, frame)]

\* notifyRemoteClose: the first caller queues the close frame, unless the
\* stream is already done or the channel stays full until the timer fires.
NotifyRemoteClose(id) ==
    LET route == local[id].route
    IN  IF local[id].notified THEN UNCHANGED outbound
        ELSE \/ HasRoom(route) /\ Enqueue(route, CloseFrame(id))
             \/ (id \notin streams \/ ~HasRoom(route)) /\ UNCHANGED outbound

----------------------------------------------------------------------------
(* The accept loop of Run *)

\* Accept returns a connection and Next the worker for it; without a ready
\* worker the connection is closed at once and nothing changes.
AcceptConn ==
    /\ accept.pc = "accept"
    /\ afterFunc /= "fired"
    /\ nextStreamID < MaxStreams
    /\ ws.workers /= <<>>
    /\ accept' = [pc |-> "routed", route |-> NextRoute(ws)]
    /\ ws' = AdvanceNext(ws)
    /\ UNCHANGED <<link, generation, deliverer, nextStreamID, streams, local, outbound, stopVars>>

\* The stream gets its id and is stored.
StoreStream ==
    /\ accept.pc = "routed"
    /\ nextStreamID' = nextStreamID + 1
    /\ streams' = streams \cup {nextStreamID'}
    /\ local' = [local EXCEPT ![nextStreamID'] = LocalStream(accept.route, "none")]
    /\ accept' = [accept EXCEPT !.pc = "opening"]
    /\ UNCHANGED <<workerVars, deliverer, outbound, stopVars>>

\* The open frame is queued and the stream's goroutines start.
OpenQueued ==
    /\ accept.pc = "opening"
    /\ HasRoom(accept.route)
    /\ Enqueue(accept.route, OpenFrame(nextStreamID))
    /\ local' = [local EXCEPT ![nextStreamID] = LocalStream(accept.route, "running")]
    /\ accept' = [accept EXCEPT !.pc = "accept"]
    /\ UNCHANGED <<workerVars, deliverer, nextStreamID, streams, stopVars>>

\* The channel stays full until the timer fires, or the session is over.
OpenRefused ==
    /\ accept.pc = "opening"
    /\ ~HasRoom(accept.route) \/ ctxDone
    /\ closeStream(nextStreamID)
    /\ accept' = [accept EXCEPT !.pc = "accept"]
    /\ UNCHANGED <<workerVars, deliverer, nextStreamID, local, outbound, stopVars>>

\* Accept returns an error: of its own, or since the listener was closed.
\* Run returns, and an AfterFunc that has not started is stopped.
AcceptFails ==
    /\ accept.pc = "accept"
    /\ accept' = [accept EXCEPT !.pc = "returned"]
    /\ afterFunc' = IF afterFunc = "armed" /\ ~ctxDone THEN "stopped" ELSE afterFunc
    /\ UNCHANGED <<workerVars, deliverer, nextStreamID, streams, local, outbound,
                   ctxDone, closed>>

----------------------------------------------------------------------------
(* runStreamReader *)

Reader(id, pc) == local' = [local EXCEPT ![id].reader = pc]

\* The reader holds one more chunk, under the next sequence number.
TakeChunk(id) ==
    local' = [local EXCEPT ![id].reader = "sending", ![id].read = @ + 1,
                           ![id].sendSequence = @ + 1]

ReadChunk(id) ==
    /\ local[id].reader = "running"
    /\ id \in streams
    /\ SumFunction([s \in StreamIDs |-> local[s].read]) < MaxChunks
    /\ TakeChunk(id)
    /\ UNCHANGED <<ingressVars, streams, outbound>>

\* sendStreamFrame for a data frame: it queues the frame, gives up on a
\* cancelled session, or gives up on a channel that stays full.
SendChunk(id) ==
    LET st == local[id]
    IN  /\ st.reader = "sending"
        /\ \/ /\ HasRoom(st.route)
              /\ Enqueue(st.route, Frame("data", id, st.sendSequence - 1, st.read))
              /\ Reader(id, "running")
              /\ UNCHANGED streams
           \/ /\ ~HasRoom(st.route)
              /\ ~ctxDone
              /\ Reader(id, "notifying")
              /\ UNCHANGED <<outbound, streams>>
           \/ /\ ctxDone
              /\ Reader(id, "ended")
              /\ closeStream(id)
              /\ UNCHANGED outbound
        /\ UNCHANGED ingressVars

\* Read fails: the application closed the connection, or closeStream did.
ReadEnds(id) ==
    /\ local[id].reader = "running"
    /\ Reader(id, IF id \in streams THEN "notifying" ELSE "ended")
    /\ UNCHANGED <<ingressVars, streams, outbound>>

\* notifyRemoteClose, which may wait, and the deferred closeStream.
ReaderCloses(id) ==
    /\ local[id].reader = "notifying"
    /\ NotifyRemoteClose(id)
    /\ closeStream(id)
    /\ local' = [local EXCEPT ![id].reader = "ended", ![id].notified = TRUE]
    /\ UNCHANGED ingressVars

----------------------------------------------------------------------------
(* runStreamWriter *)

Writer(id, pc) == local' = [local EXCEPT ![id].writer = pc]

\* Mutant: frames are written in the order they arrive.
ExpectedAnyway(st, frame) == TRUE

Expected(st, frame) == frame.sequence = st.recvSequence

\* The next inbound frame: out of order, or written to the connection, which
\* fails on a closed connection and may fail on an open one.
WriteChunk(id) ==
    LET st    == local[id]
        frame == Head(st.inbound)
    IN  /\ st.writer = "running"
        /\ st.inbound /= <<>>
        /\ \/ /\ Expected(st, frame)
              /\ id \in streams
              /\ local' = [local EXCEPT ![id].inbound = Tail(@),
                                        ![id].recvSequence = @ + 1,
                                        ![id].written = Append(@, frame.chunk)]
           \/ local' = [local EXCEPT ![id].inbound = Tail(@), ![id].writer = "notifying",
                                     ![id].recvSequence = IF Expected(st, frame) THEN @ + 1 ELSE @]
        /\ UNCHANGED <<ingressVars, streams, outbound>>

WriterCloses(id) ==
    /\ local[id].writer = "notifying"
    /\ NotifyRemoteClose(id)
    /\ closeStream(id)
    /\ local' = [local EXCEPT ![id].writer = "ended", ![id].notified = TRUE]
    /\ UNCHANGED ingressVars

\* Mutant: the writer waits for frames until the session ends.
WriterStopsWithSession(id) ==
    /\ local[id].writer = "running"
    /\ ctxDone
    /\ Writer(id, "ended")
    /\ UNCHANGED <<ingressVars, streams, outbound>>

\* The session or the stream is done.
WriterStops(id) ==
    /\ local[id].writer = "running"
    /\ ctxDone \/ id \notin streams
    /\ Writer(id, "ended")
    /\ UNCHANGED <<ingressVars, streams, outbound>>

----------------------------------------------------------------------------
(* Deliver, called by the inbound forwarder of worker w *)

DeliverData(w, frame) ==
    LET id == frame.id
    IN  /\ link[w] = "up"
        /\ deliverer[w] = 0
        /\ IF id \notin streams THEN UNCHANGED <<local, deliverer>>
           ELSE IF Len(local[id].inbound) < InboundCap
           THEN /\ local' = [local EXCEPT ![id].inbound = Append(@, frame)]
                /\ UNCHANGED deliverer
           ELSE /\ deliverer' = [deliverer EXCEPT ![w] = id]
                /\ UNCHANGED local
        /\ UNCHANGED <<workerVars, accept, nextStreamID, streams, outbound, stopVars>>

\* queueInboundFrame on a full queue: announce the close, then close.
DelivererCloses(w) ==
    /\ deliverer[w] /= 0
    /\ NotifyRemoteClose(deliverer[w])
    /\ local' = [local EXCEPT ![deliverer[w]].notified = TRUE]
    /\ closeStream(deliverer[w])
    /\ deliverer' = [deliverer EXCEPT ![w] = 0]
    /\ UNCHANGED <<workerVars, accept, nextStreamID, stopVars>>

DeliverClose(w, id) ==
    /\ link[w] = "up"
    /\ deliverer[w] = 0
    /\ closeStream(id)
    /\ UNCHANGED <<ingressVars, local, outbound>>

----------------------------------------------------------------------------
(* The calls of the supervisor *)

\* The supervisor's loop is alive and not in the middle of a Remove.
SupervisorFree ==
    /\ ~closed
    /\ \A w \in Workers : link[w] /= "removing"

\* The worker connected, with a fresh outbound channel: SetReady.
WorkerReady(w) ==
    /\ SupervisorFree
    /\ link[w] = "down"
    /\ ~ctxDone
    /\ generation[w] < MaxGeneration
    /\ generation' = [generation EXCEPT ![w] = @ + 1]
    /\ link' = [link EXCEPT ![w] = "up"]
    /\ ws' = SetReady(ws, w, generation'[w])
    /\ UNCHANGED <<deliverer, accept, nextStreamID, streams, local, outbound, stopVars>>

\* The transport of the worker ends; its forwarders wait for one another.
WorkerFails(w) ==
    /\ link[w] = "up"
    /\ deliverer[w] = 0
    /\ link' = [link EXCEPT ![w] = "failed"]
    /\ UNCHANGED <<ws, generation, deliverer, accept, nextStreamID, streams, local,
                   outbound, stopVars>>

\* Remove: the route goes first ...
RemoveRoute(w) ==
    /\ SupervisorFree
    /\ link[w] = "failed"
    /\ link' = [link EXCEPT ![w] = "removing"]
    /\ ws' = Remove(ws, w)
    /\ UNCHANGED <<generation, deliverer, accept, nextStreamID, streams, local, outbound, stopVars>>

\* Mutant: the streams of a removed worker are left to themselves.
NoStreamsOf(w) == {}

\* Mutant: the worker of a stream is not looked at.
StreamsOfAnyone(w) == streams

StreamsOf(w) == {id \in streams : local[id].route.index = w}

\* ... then closeWorkerStreams closes the worker's streams.
CloseWorkerStreams(w) ==
    /\ link[w] = "removing"
    /\ link' = [link EXCEPT ![w] = "down"]
    /\ streams' = streams \ StreamsOf(w)
    /\ UNCHANGED <<ws, generation, deliverer, accept, nextStreamID, local, outbound, stopVars>>

Cancel ==
    /\ ~ctxDone
    /\ ctxDone' = TRUE
    /\ UNCHANGED <<workerVars, deliverer, accept, nextStreamID, streams, local, outbound, afterFunc, closed>>

\* The AfterFunc of Run closes the listener and every stream it finds.
AfterFuncFires ==
    /\ ctxDone
    /\ afterFunc = "armed"
    /\ afterFunc' = "fired"
    /\ streams' = {}
    /\ UNCHANGED <<workerVars, deliverer, accept, nextStreamID, local, outbound,
                   ctxDone, closed>>

CloseAllStreams == streams' = {}

\* Close, deferred by session.Run: every goroutine of the supervisor that
\* talks to the ingress has ended.
CloseIngress ==
    /\ SupervisorFree
    /\ ctxDone
    /\ accept.pc = "returned"
    /\ \A w \in Workers : link[w] \in {"down", "failed"}
    /\ closed' = TRUE
    /\ CloseAllStreams
    /\ UNCHANGED <<workerVars, deliverer, accept, nextStreamID, local, outbound,
                   ctxDone, afterFunc>>

----------------------------------------------------------------------------
\* The outbound forwarder of worker w takes a frame and writes it.
TransmitFrame(w) ==
    LET route == Route(w, generation[w])
    IN  /\ link[w] = "up"
        /\ outbound[route] /= <<>>
        /\ outbound' = [outbound EXCEPT ![route] = Tail(@)]
        /\ UNCHANGED <<ingressVars, streams, local>>

----------------------------------------------------------------------------
(* Properties *)

Opening == IF accept.pc = "opening" THEN {nextStreamID} ELSE {}

RouteIsSet(route) == \E k \in DOMAIN ws.workers : ws.workers[k] = route

\* The streams that are left on a route their worker no longer has, when the
\* supervisor is through with Remove.
Strays(route) == {id \in streams : local[id].route = route}

\* Remove leaves at most one stream behind on the route it removed: the one
\* that the accept loop was opening in between.
AtMostOneStray ==
    SupervisorFree =>
        \A r \in Routes : ~RouteIsSet(r) => Cardinality(Strays(r)) <= 1

\* A stream is closed by nobody but its own goroutines, its own worker's
\* frames, the loss of its route, or the end of the session.  What happens
\* to another stream or another worker leaves it alone.
UnrelatedStreamsSurvive ==
    [][\A id \in streams \ streams' :
          \/ ctxDone
          \/ ~RouteIsSet(local[id].route)
          \/ "notifying" \in {local[id].reader, local[id].writer}
          \/ id \in Opening
          \/ deliverer[local[id].route.index] = id
          \/ DeliverClose(local[id].route.index, id)]_clientVars

Stopped(pc) == pc \in {"none", "ended"}

\* A stream that left the map takes its goroutines with it.
ClosedStreamsStop ==
    \A id \in StreamIDs :
        (id <= nextStreamID /\ id \notin streams)
            ~> Stopped(local[id].reader) /\ Stopped(local[id].writer)

=============================================================================
