----------------------------- MODULE UdpIngress -----------------------------
(***************************************************************************)
(* The client's UDP ingress: type UDPIngress of                            *)
(* internal/overlay/udp_ingress.go.  One loop reads the datagrams of all   *)
(* local applications and gives each to the worker that workerSet.Next     *)
(* picks, remembering its sender under the route id of the worker's index; *)
(* a reply that comes back through a worker goes to the sender remembered  *)
(* there.  The other end of the worker's transport remembers only that     *)
(* there is a route: lastRouteID of internal/transport/forwarders.go with  *)
(* a plain peer, the route of udpEgressAdapter with a DTLS peer.           *)
(*                                                                         *)
(* A route id outlives the worker that used it: the next incarnation of    *)
(* the worker has the same index.  So the map keeps here, in place of the  *)
(* sender's address, the generation of the worker its datagram was for.    *)
(* The worker set and the calls of the supervisor are those of TcpIngress. *)
(***************************************************************************)
EXTENDS TcpIngress

VARIABLES
    datagram,       \* the loop of Run, with the route of the datagram it has
    senders,        \* the routes: for each worker index the generation of the
                    \* last datagram, 0 for no entry
    target          \* the far end of the worker's transport knows the route

udpVars == <<datagram, senders, target>>
streamVars == <<deliverer, accept, nextStreamID, streams, local>>

UdpInit ==
    /\ datagram = [pc |-> "reading", route |-> NoRoute]
    /\ senders = [w \in Workers |-> 0]
    /\ target = [w \in Workers |-> FALSE]

----------------------------------------------------------------------------
(* Run *)

\* A datagram is read and Next picks its worker; without a ready worker it is
\* dropped and nothing changes.
ReadLocal ==
    /\ datagram.pc = "reading"
    /\ ~closed
    /\ ws.workers /= <<>>
    /\ datagram' = [pc |-> "routed", route |-> NextRoute(ws)]
    /\ ws' = AdvanceNext(ws)
    /\ UNCHANGED <<link, generation, outbound, stopVars, streamVars, senders, target>>

storeRoute ==
    /\ datagram.pc = "routed"
    /\ senders' = [senders EXCEPT ![datagram.route.index] = datagram.route.generation]
    /\ datagram' = [datagram EXCEPT !.pc = "queueing"]
    /\ UNCHANGED <<workerVars, outbound, stopVars, streamVars, target>>

\* The frame is queued for the worker, or dropped when the channel is full.
QueueDatagram ==
    /\ datagram.pc = "queueing"
    /\ IF HasRoom(datagram.route)
       THEN Enqueue(datagram.route, Frame("datagram", datagram.route.index, 0, 0))
       ELSE UNCHANGED outbound
    /\ datagram' = [pc |-> "reading", route |-> NoRoute]
    /\ UNCHANGED <<workerVars, stopVars, streamVars, senders, target>>

\* The deadline of the AfterFunc, or an error of the socket.
UdpRunReturns ==
    /\ datagram.pc = "reading"
    /\ datagram' = [datagram EXCEPT !.pc = "returned"]
    /\ UNCHANGED <<workerVars, outbound, stopVars, streamVars, senders, target>>

----------------------------------------------------------------------------
(* The worker's forwarders *)

\* The outbound forwarder writes a datagram.  A plain peer's forwarder stores
\* the route itself; a DTLS peer stores it if the datagram arrives.
TransmitDatagram(w) ==
    /\ TransmitFrame(w)
    /\ \/ target' = [target EXCEPT ![w] = TRUE]
       \/ UNCHANGED target
    /\ UNCHANGED <<datagram, senders>>

\* A reply comes in through worker w and has a route: Deliver looks it up.
DeliverDatagram(w) == link[w] = "up" /\ target[w]

----------------------------------------------------------------------------
(* The calls of the supervisor *)

\* Mutant: the far end's route is kept from one incarnation to the next.
KeptTarget(w) == target

\* lastRouteID, like the session of the server, is made with the transport.
NewTarget(w) == [target EXCEPT ![w] = FALSE]

UdpWorkerReady(w) ==
    /\ WorkerReady(w)
    /\ target' = NewTarget(w)
    /\ UNCHANGED <<datagram, senders>>

\* Remove: the route has gone from the worker set, now its entry goes.
deleteRoute(w) ==
    /\ link[w] = "removing"
    /\ link' = [link EXCEPT ![w] = "down"]
    /\ senders' = [senders EXCEPT ![w] = 0]
    /\ UNCHANGED <<ws, generation, outbound, stopVars, streamVars, datagram, target>>

CloseSocket ==
    /\ SupervisorFree
    /\ ctxDone
    /\ datagram.pc = "returned"
    /\ \A w \in Workers : link[w] \in {"down", "failed"}
    /\ closed' = TRUE
    /\ UNCHANGED <<workerVars, outbound, streamVars, ctxDone, afterFunc, udpVars>>

----------------------------------------------------------------------------
(* Properties *)

\* A reply always finds a sender, and one that sent through the incarnation
\* of the worker the reply came through.  A worker that fails, is removed
\* and comes back while the loop holds a datagram for it leaves the sender
\* of that datagram in the map, though the datagram is lost in the old
\* channel: nothing is delivered to it by the new incarnation.
RepliesReachTheirSenders ==
    \A w \in Workers : DeliverDatagram(w) => senders[w] = generation[w]

=============================================================================
