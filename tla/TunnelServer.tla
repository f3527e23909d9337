---------------------------- MODULE TunnelServer ----------------------------
(***************************************************************************)
(* The server process: Server.Run of internal/tunnelserver/server.go.  By  *)
(* its configuration it serves plain datagrams (PlainServer) or accepts    *)
(* DTLS connections, whose overlay sessions have a UDP or a TCP egress.    *)
(* This module adds the accept loop, handleConnection, the overlay hello   *)
(* of newServerOverlaySession and the sessions with UDP egress; a session  *)
(* with TCP egress is TcpEgress, which models one: with TCP egress the     *)
(* server takes one connection here.                                       *)
(*                                                                         *)
(* Forwarding a datagram and a read that times out leave no trace; the     *)
(* route of the replies is in UdpIngress.                                  *)
(***************************************************************************)
EXTENDS TcpEgress, PlainServer

CONSTANT Conns      \* the connections of clients, numbered from 1

ASSUME ConnsAssumption == 1 \in Conns

VARIABLES
    egress,         \* the configuration: plain, udp or tcp
    serve,          \* the accept loop: accepting, draining or returned
    conn            \* the connections with their goroutines

runVars == <<stopped, listener, egress, serve>>
tunnelVars == <<runVars, conn, plainVars, serverVars>>

Adapters == {"udp", "tcp"}

\* pc is handleConnection; frames and upstreamLoop are the goroutines of Run,
\* runClientFrames and egress.Run, and socket the upstream of UDP egress.
Connection(pc) ==
    [pc |-> pc, open |-> TRUE, cancelled |-> FALSE, socket |-> "none",
     frames |-> "none", upstreamLoop |-> "none"]

ServedConns == IF egress = "tcp" THEN {1} ELSE Conns

TunnelInit ==
    /\ stopped = FALSE
    /\ listener = "open"
    /\ egress \in Adapters \cup {"plain"}
    /\ serve = IF egress = "plain" THEN "returned" ELSE "accepting"
    /\ conn = [c \in Conns |-> Connection("none")]
    /\ PlainInit
    /\ ServerInit

----------------------------------------------------------------------------
(* Run and Serve *)

Stop ==
    /\ ~stopped
    /\ stopped' = TRUE
    /\ IF egress = "tcp" /\ session = "serving" THEN ServerStops ELSE UNCHANGED serverVars
    /\ UNCHANGED <<listener, egress, serve, conn, plainVars>>

\* The AfterFunc of Serve and of ServePlain.
CloseListener ==
    /\ stopped
    /\ listener = "open"
    /\ listener' = "closed"
    /\ UNCHANGED <<stopped, egress, serve, conn, plainVars, serverVars>>

\* A connection that waits when the listener is closed may still be accepted.
Accept(c) ==
    /\ serve = "accepting"
    /\ c \in ServedConns
    /\ conn[c].pc = "none"
    /\ conn' = [conn EXCEPT ![c] = Connection("handshake")]
    /\ UNCHANGED <<runVars, plainVars, serverVars>>

\* Accept fails on a closed listener or after the stop; any other error is
\* logged and Accept called again.
AcceptEnds ==
    /\ serve = "accepting"
    /\ stopped
    /\ serve' = "draining"
    /\ listener' = "closed"
    /\ UNCHANGED <<stopped, egress, conn, plainVars, serverVars>>

\* Over: handleConnection has returned, or was never called.
Over(c) == conn[c].pc \in {"none", "refused", "ended"}

\* The deferred wg.Wait returns.
ServeReturns ==
    /\ serve = "draining"
    /\ \A c \in Conns : Over(c)
    /\ serve' = "returned"
    /\ UNCHANGED <<stopped, listener, egress, conn, plainVars, serverVars>>

----------------------------------------------------------------------------
(* handleConnection *)

Conn(c, record) ==
    /\ conn' = [conn EXCEPT ![c] = record]
    /\ UNCHANGED <<runVars, plainVars, serverVars>>

\* handleConnection returns before there is a session; it closes the
\* connection.
Refused(c) == Conn(c, [conn[c] EXCEPT !.pc = "refused", !.open = FALSE])

\* HandshakeContext returns, at the latest after the handshake timeout; its
\* context is the server's.
Handshake(c) ==
    /\ conn[c].pc = "handshake"
    /\ \/ ~stopped /\ Conn(c, [conn[c] EXCEPT !.pc = "hello"])
       \/ Refused(c)

SupportedPair(ingress) == ingress = egress

\* newServerOverlaySession reads the hello, which has the handshake timeout
\* and does not look at the context, and makes the egress.  Without a hello,
\* with an unsupported ingress or when the dial fails it gives up.
Hello(c) ==
    /\ conn[c].pc = "hello"
    /\ \/ \E ingress \in Adapters :
             /\ SupportedPair(ingress)
             /\ Conn(c, [conn[c] EXCEPT !.pc = "ack",
                                        !.socket = IF egress = "udp" THEN "open" ELSE "none"])
       \/ Refused(c)

\* adapter.Close, and handleConnection returns.
AbandonEgress(c) ==
    Conn(c, [conn[c] EXCEPT !.pc = "refused", !.open = FALSE,
                            !.socket = IF @ = "open" THEN "closed" ELSE @])

\* The hello is acknowledged, and Run starts both goroutines.
HelloAck(c) ==
    /\ conn[c].pc = "ack"
    /\ \/ Conn(c, [conn[c] EXCEPT !.pc = "serving", !.frames = "running",
                                  !.upstreamLoop = "running"])
       \/ AbandonEgress(c)

----------------------------------------------------------------------------
(* serverOverlaySession.Run with UDP egress *)

\* Mutant: loopCtx is not derived from the server's context.
SessionFailed(c) == conn[c].cancelled

SessionDone(c) == conn[c].cancelled \/ stopped

UdpSession(c) == egress = "udp" /\ conn[c].pc = "serving"

\* A goroutine of Run that ends with an error cancels the other; once the
\* context is done it ends without one.
Ends(c, goroutine) ==
    Conn(c, [conn[c] EXCEPT ![goroutine] = "ended", !.cancelled = @ \/ ~SessionDone(c)])

\* runClientFrames returns: the client is gone or silent for the idle timeout,
\* the connection was closed here, HandleFrame cannot write the datagram to
\* the upstream, or it gets a frame that is none.
FramesEnd(c) ==
    /\ UdpSession(c)
    /\ conn[c].frames = "running"
    /\ Ends(c, "frames")

\* udpEgressAdapter.Run returns: the context is done, or reading the upstream
\* or writing a reply to the connection fails.
UpstreamLoopEnds(c) ==
    /\ UdpSession(c)
    /\ conn[c].upstreamLoop = "running"
    /\ Ends(c, "upstreamLoop")

\* The AfterFunc of Run: egress.Close ...
CloseEgress(c) ==
    /\ SessionDone(c)
    /\ conn[c].pc \in {"serving", "ended"}
    /\ conn[c].socket = "open"
    /\ Conn(c, [conn[c] EXCEPT !.socket = "closed"])

\* ... then the connection.
CloseConn(c) ==
    /\ SessionDone(c)
    /\ conn[c].socket = "closed"
    /\ conn[c].open
    /\ Conn(c, [conn[c] EXCEPT !.open = FALSE])

\* Run returns when both goroutines have ended; handleConnection closes the
\* connection and returns.
RunReturns(c) ==
    /\ conn[c].pc = "serving"
    /\ IF egress = "udp"
       THEN conn[c].frames = "ended" /\ conn[c].upstreamLoop = "ended"
       ELSE session /= "serving" /\ ~reading
    /\ Conn(c, [conn[c] EXCEPT !.pc = "ended", !.open = FALSE])

----------------------------------------------------------------------------
\* The session with TCP egress has begun.
TcpSession == egress = "tcp" /\ conn[1].pc \in {"serving", "ended"}

ConnStep(c) ==
    \/ Handshake(c) \/ Hello(c) \/ HelloAck(c) \/ RunReturns(c)
    \/ FramesEnd(c) \/ UpstreamLoopEnds(c)
    \/ CloseEgress(c) \/ CloseConn(c)

StreamsReleased == \A id \in StreamIDs : upstream[id].run \in {"none", "ended"}

Released ==
    /\ listener = "closed"
    /\ IF egress = "plain" THEN PlainReleased
       ELSE /\ serve = "returned"
            /\ \A c \in Conns : conn[c].socket /= "open"
            /\ StreamsReleased

\* A server that is told to stop does: Run returns, whatever its connections
\* are at, every upstream socket of a plain session or of UDP egress is
\* closed, and no goroutine of a session or stream is left.
StopReleasesEverything == stopped ~> Released

=============================================================================
