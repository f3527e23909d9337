--------------------------- MODULE MCTunnelServer ---------------------------
(***************************************************************************)
(* The server alone, in each of its configurations.  Clients connect, send *)
(* datagrams and go away at any time; with TCP egress the frames a client  *)
(* sends for its streams arrive in any order, and any of them may be lost. *)
(***************************************************************************)
EXTENDS TunnelServer

CONSTANT MaxChunks      \* bound: chunks the client sends per stream

VARIABLE sent           \* the client's frames that have not arrived

vars == <<tunnelVars, sent>>

ClientFrames(id) ==
    {OpenFrame(id), CloseFrame(id)}
        \cup {Frame("data", id, k - 1, k) : k \in 1 .. MaxChunks}

Init == TunnelInit /\ sent = UNION {ClientFrames(id) : id \in StreamIDs}

Tcp(step) == TcpSession /\ step /\ UNCHANGED <<runVars, conn, plainVars, sent>>

Receive(frame) ==
    /\ TcpSession
    /\ sent' = sent \ {frame}
    /\ \/ frame.kind = "open" /\ OpenUpstream(frame.id)
       \/ frame.kind = "data" /\ DataForUpstream(frame)
       \/ frame.kind = "close" /\ CloseForUpstream(frame.id)
    /\ UNCHANGED <<runVars, conn, plainVars>>

StreamStep(id) ==
    \/ OverflowCloses(id) \/ DialSucceeds(id) \/ DialFails(id) \/ SetConn(id)
    \/ FinishStream(id) \/ LoadConn(id, "reader") \/ LoadConn(id, "writer")
    \/ ReplyChunk(id) \/ UpstreamEnds(id) \/ ForwardChunk(id) \/ UpstreamWriterStops(id)

Plain(step) == egress = "plain" /\ step /\ UNCHANGED <<egress, serve, conn, serverVars, sent>>

ServerStep == Stop \/ CloseListener \/ AcceptEnds \/ ServeReturns

Next ==
    \/ ServerStep /\ UNCHANGED sent
    \/ \E c \in Conns : (Accept(c) \/ ConnStep(c)) /\ UNCHANGED sent
    \/ Tcp(ReadFails \/ SessionSweeps \/ SessionCloses)
    \/ \E id \in StreamIDs : Tcp(StreamStep(id))
    \/ \E frame \in sent : Receive(frame)
    \/ Plain(PlainLoopStep)
    \/ \E k \in PlainSessions : Plain(PlainSessionStep(k))

\* A goroutine that can go on does.  Handshake, hello and dials have timeouts;
\* a closed connection, socket or listener ends the call that is blocked on
\* it; the reads of an upstream have a deadline of 100 ms (of the idle
\* timeout with TCP egress), after which the reader looks at its context.
\* Clients and upstreams owe nothing, and nobody has to stop the server.
Fairness ==
    /\ WF_vars(CloseListener /\ UNCHANGED sent)
    /\ WF_vars((AcceptEnds \/ ServeReturns) /\ UNCHANGED sent)
    /\ \A c \in Conns :
          /\ WF_vars((Handshake(c) \/ Hello(c) \/ HelloAck(c) \/ RunReturns(c)) /\ UNCHANGED sent)
          /\ WF_vars(~conn[c].open /\ FramesEnd(c) /\ UNCHANGED sent)
          /\ WF_vars(SessionDone(c) /\ UpstreamLoopEnds(c) /\ UNCHANGED sent)
          /\ WF_vars((CloseEgress(c) \/ CloseConn(c)) /\ UNCHANGED sent)
    /\ WF_vars(Plain(LoopBusy /\ PlainLoopStep))
    /\ WF_vars(Plain(listener = "closed" /\ PlainReturns))
    /\ \A k \in PlainSessions :
          /\ WF_vars(Plain(MustEnd(k) /\ SessionEnds(k)))
          /\ WF_vars(Plain(SessionUnmaps(k) \/ SessionShuts(k)))
    /\ WF_vars(Tcp(SessionSweeps \/ SessionCloses))
    /\ WF_vars(Tcp(session = "closed" /\ ReadFails))
    /\ \A id \in StreamIDs :
          /\ WF_vars(Tcp(OverflowCloses(id)))
          /\ WF_vars(Tcp(DialSucceeds(id) \/ DialFails(id) \/ SetConn(id) \/ FinishStream(id)))
          /\ WF_vars(Tcp(LoadConn(id, "reader")
                            \/ (LoopDone(id) /\ (UpstreamEnds(id) \/ ReplyChunk(id)))))
          /\ WF_vars(Tcp(LoadConn(id, "writer") \/ ForwardChunk(id) \/ UpstreamWriterStops(id)))

Spec == Init /\ [][Next]_vars /\ Fairness

=============================================================================
