----------------------------- MODULE MCIngress ------------------------------
(***************************************************************************)
(* An ingress alone, TcpIngress or UdpIngress as NewIngress chooses.  The  *)
(* server side is any peer that answers an opened stream with the frames   *)
(* of a few chunks and a close, each at most once, and datagrams with      *)
(* datagrams; the network may lose and reorder them.                       *)
(***************************************************************************)
EXTENDS UdpIngress

CONSTANTS
    MaxTraffic,         \* bound: chunks read from the applications and frames
                        \* delivered from the server, over all streams
    MaxTcpGeneration    \* bound: how often a worker with TCP ingress becomes ready

VARIABLES
    adapter,            \* the ingress adapter, tcp or udp
    received            \* the server's frames that have been delivered

vars == <<clientVars, udpVars, adapter, received>>

\* NewIngress
Init ==
    /\ adapter \in {"tcp", "udp"}
    /\ ClientInit
    /\ UdpInit
    /\ received = {}

Replies(id) ==
    {Frame("data", id, k - 1, k) : k \in 1 .. MaxTraffic} \cup {CloseFrame(id)}

Traffic == Cardinality(received) + SumFunction([s \in StreamIDs |-> local[s].read])

\* A frame of the server arrives through the worker that carries the stream.
Receive(w) ==
    \E id \in streams :
        /\ local[id].route = Route(w, generation[w])
        /\ local[id].reader /= "none"
        /\ \E frame \in Replies(id) \ received :
              /\ received' = received \cup {frame}
              /\ IF frame.kind = "data" THEN DeliverData(w, frame) ELSE DeliverClose(w, id)

\* Calls that are the same for both.
SharedStep ==
    \/ Cancel \/ AfterFuncFires
    \/ \E w \in Workers : WorkerFails(w) \/ RemoveRoute(w)

TcpStep ==
    \/ AcceptConn \/ StoreStream \/ OpenQueued \/ OpenRefused \/ AcceptFails \/ CloseIngress
    \/ \E id \in StreamIDs :
          \/ ReadChunk(id) \/ SendChunk(id) \/ ReadEnds(id) \/ ReaderCloses(id)
          \/ WriteChunk(id) \/ WriterCloses(id) \/ WriterStops(id)
    \/ \E w \in Workers :
          \/ WorkerReady(w) /\ generation[w] < MaxTcpGeneration
          \/ CloseWorkerStreams(w) \/ DelivererCloses(w) \/ TransmitFrame(w)

UdpStep ==
    \/ ReadLocal \/ storeRoute \/ QueueDatagram \/ UdpRunReturns \/ CloseSocket
    \/ \E w \in Workers : UdpWorkerReady(w) \/ deleteRoute(w) \/ TransmitDatagram(w)

Next ==
    \/ SharedStep /\ UNCHANGED <<udpVars, adapter, received>>
    \/ /\ adapter = "tcp"
       /\ (TcpStep /\ UNCHANGED received) \/ \E w \in Workers : Receive(w)
       /\ Traffic' <= MaxTraffic
       /\ UNCHANGED <<udpVars, adapter>>
    \/ /\ adapter = "udp"
       /\ UdpStep
       /\ UNCHANGED <<adapter, received>>

Spec == Init /\ [][Next]_vars

=============================================================================
