----------------------------- MODULE TcpEgress ------------------------------
(***************************************************************************)
(* The server side of one overlay connection with TCP egress:              *)
(* serverOverlaySession.Run and tcpEgressAdapter of                        *)
(* internal/tunnelserver/overlay_session.go.  A stream is opened by a      *)
(* frame of the client, dialled and served by a goroutine of its own       *)
(* (runStream) with a reader and a writer below it.                        *)
(*                                                                         *)
(* closeStream is one step here too: the delete from the map picks the one *)
(* caller that cancels, closes and announces.                              *)
(***************************************************************************)
EXTENDS Integers, Sequences, FiniteSets, Functions, OverlayFrames

CONSTANTS
    MaxReplies,         \* bound: chunks all upstreams send together
    EgressInboundCap    \* capacity of a stream's inbound queue (8 in the code)

ASSUME EgressAssumption ==
    /\ EgressInboundCap \in Nat \ {0}
    /\ MaxReplies \in Nat

VARIABLES
    session,        \* serving; ending, its context cancelled; swept, its
                    \* streams closed; closed, its connection closed as well
    reading,        \* the goroutine that reads frames has not returned
    upstreams,      \* the keys of the stream map
    upstream,       \* the tcpUpstreamStreams with their goroutines
    overflowed,     \* streams that a goroutine of queueInboundFrame will close
    replies         \* the frames written to the overlay connection

serverVars == <<session, reading, upstreams, upstream, overflowed, replies>>

\* run is the goroutine of runStream.  attached says that conn is set, and
\* socket is the state of the dialled connection, set or not.
NewUpstream(run) ==
    [run |-> run, reader |-> "none", writer |-> "none", cancelled |-> FALSE,
     attached |-> FALSE, socket |-> "none", inbound |-> <<>>,
     sendSequence |-> 0, recvSequence |-> 0, read |-> 0, written |-> <<>>]

ServerInit ==
    /\ session = "serving"
    /\ reading = TRUE
    /\ upstreams = {}
    /\ upstream = [id \in StreamIDs |-> NewUpstream("none")]
    /\ overflowed = {}
    /\ replies = {}

\* The overlay connection takes frames until the session has closed it.
WriteFrame(frame) == replies' = IF session = "closed" THEN replies ELSE replies \cup {frame}

\* What closeStream does to the stream it deleted.
Shut(st) ==
    [st EXCEPT !.cancelled = TRUE, !.attached = FALSE,
               !.socket = IF st.attached THEN "closed" ELSE @]

\* closeStream, for a caller that leaves the stream's record as st.
closeUpstream(id, notify, st) ==
    /\ upstreams' = upstreams \ {id}
    /\ upstream' = [upstream EXCEPT ![id] = IF id \in upstreams THEN Shut(st) ELSE st]
    /\ IF notify /\ id \in upstreams
       THEN WriteFrame(CloseFrame(id))
       ELSE UNCHANGED replies

----------------------------------------------------------------------------
(* HandleFrame, on the goroutine that reads the client's frames *)

\* A cancelled session may still be at a frame it has read.
HandlingFrames == reading /\ session /= "closed"

\* A second open of a stream that is open fails the session.
OpenUpstream(id) ==
    /\ HandlingFrames
    /\ IF id \in upstreams
       THEN /\ reading' = FALSE
            /\ session' = IF session = "serving" THEN "ending" ELSE session
            /\ UNCHANGED <<upstreams, upstream>>
       ELSE /\ upstreams' = upstreams \cup {id}
            /\ upstream' = [upstream EXCEPT ![id] = NewUpstream("dialing")]
            /\ UNCHANGED <<session, reading>>
    /\ UNCHANGED <<overflowed, replies>>

QueueHasRoom(id) == Len(upstream[id].inbound) < EgressInboundCap

\* writeStream: unknown streams are ignored, and a full queue gives the
\* stream up without waiting for it to close.
DataForUpstream(frame) ==
    LET id == frame.id
    IN  /\ HandlingFrames
        /\ IF id \notin upstreams THEN UNCHANGED <<upstream, overflowed>>
           ELSE IF QueueHasRoom(id)
           THEN /\ upstream' = [upstream EXCEPT ![id].inbound = Append(@, frame)]
                /\ UNCHANGED overflowed
           ELSE /\ overflowed' = overflowed \cup {id}
                /\ UNCHANGED upstream
        /\ UNCHANGED <<session, reading, upstreams, replies>>

CloseForUpstream(id) ==
    /\ HandlingFrames
    /\ closeUpstream(id, FALSE, upstream[id])
    /\ UNCHANGED <<session, reading, overflowed>>

OverflowCloses(id) ==
    /\ id \in overflowed
    /\ closeUpstream(id, TRUE, upstream[id])
    /\ overflowed' = overflowed \ {id}
    /\ UNCHANGED <<session, reading>>

----------------------------------------------------------------------------
(* runStream *)

\* Mutant: the stream's context is not derived from the session's.
OwnContextCancelled(id) == upstream[id].cancelled

StreamCancelled(id) == upstream[id].cancelled \/ session /= "serving"

\* The dial returns a connection, which is not yet the stream's.
DialSucceeds(id) ==
    /\ upstream[id].run = "dialing"
    /\ ~StreamCancelled(id)
    /\ upstream' = [upstream EXCEPT ![id].run = "dialed", ![id].socket = "open"]
    /\ UNCHANGED <<session, reading, upstreams, overflowed, replies>>

\* The dial fails, times out or is cancelled: the deferred closeStream.
DialFails(id) ==
    /\ upstream[id].run = "dialing"
    /\ closeUpstream(id, TRUE, [upstream[id] EXCEPT !.run = "ended"])
    /\ UNCHANGED <<session, reading, overflowed>>

\* setConn, and the reader and the writer start.
SetConn(id) ==
    /\ upstream[id].run = "dialed"
    /\ upstream' = [upstream EXCEPT ![id].run = "looping", ![id].attached = TRUE,
                                    ![id].reader = "starting", ![id].writer = "starting"]
    /\ UNCHANGED <<session, reading, upstreams, overflowed, replies>>

\* Mutant: the stream's goroutine ends without its deferred closeStream.
FinishWithoutClose(id) ==
    /\ upstream[id].run = "looping"
    /\ upstream[id].reader = "ended"
    /\ upstream[id].writer = "ended"
    /\ upstream' = [upstream EXCEPT ![id].run = "ended"]
    /\ UNCHANGED <<session, reading, upstreams, overflowed, replies>>

\* wg.Wait returns: the deferred closeStream.
FinishStream(id) ==
    /\ upstream[id].run = "looping"
    /\ upstream[id].reader = "ended"
    /\ upstream[id].writer = "ended"
    /\ closeUpstream(id, TRUE, [upstream[id] EXCEPT !.run = "ended"])
    /\ UNCHANGED <<session, reading, overflowed>>

\* loopCtx: done when the stream is, or when its reader or writer ended.
LoopDone(id) == StreamCancelled(id) \/ "ended" \in {upstream[id].reader, upstream[id].writer}

\* loadConn in the reader or the writer.
LoadConn(id, who) ==
    /\ upstream[id][who] = "starting"
    /\ upstream' = [upstream EXCEPT ![id][who] = IF upstream[id].attached THEN "running" ELSE "ended"]
    /\ UNCHANGED <<session, reading, upstreams, overflowed, replies>>

\* The reader gets a chunk from the upstream, writes its frame, and goes on
\* unless the write failed or the loop is done.
ReplyChunk(id) ==
    LET st == upstream[id]
    IN  /\ st.reader = "running"
        /\ st.socket = "open"
        /\ SumFunction([u \in StreamIDs |-> upstream[u].read]) < MaxReplies
        /\ WriteFrame(Frame("data", id, st.sendSequence, st.read + 1))
        /\ upstream' = [upstream EXCEPT
              ![id].read = @ + 1, ![id].sendSequence = @ + 1,
              ![id].reader = IF session = "closed" \/ LoopDone(id) THEN "ended" ELSE @]
        /\ UNCHANGED <<session, reading, upstreams, overflowed>>

\* Read fails: the upstream closed or was silent for the idle timeout, or the
\* socket was closed here.
UpstreamEnds(id) ==
    /\ upstream[id].reader = "running"
    /\ upstream' = [upstream EXCEPT ![id].reader = "ended"]
    /\ UNCHANGED <<session, reading, upstreams, overflowed, replies>>

InSequence(st, frame) == frame.sequence = st.recvSequence

\* The writer's next frame: out of order, or written to the upstream, which
\* fails on a closed socket and may fail on an open one.
ForwardChunk(id) ==
    LET st    == upstream[id]
        frame == Head(st.inbound)
    IN  /\ st.writer = "running"
        /\ st.inbound /= <<>>
        /\ \/ /\ InSequence(st, frame)
              /\ st.socket = "open"
              /\ upstream' = [upstream EXCEPT ![id].inbound = Tail(@),
                                              ![id].recvSequence = @ + 1,
                                              ![id].written = Append(@, frame.chunk)]
           \/ upstream' = [upstream EXCEPT ![id].inbound = Tail(@), ![id].writer = "ended",
                               ![id].recvSequence = IF InSequence(st, frame) THEN @ + 1 ELSE @]
        /\ UNCHANGED <<session, reading, upstreams, overflowed, replies>>

UpstreamWriterStops(id) ==
    /\ upstream[id].writer = "running"
    /\ LoopDone(id)
    /\ upstream' = [upstream EXCEPT ![id].writer = "ended"]
    /\ UNCHANGED <<session, reading, upstreams, overflowed, replies>>

----------------------------------------------------------------------------
(* serverOverlaySession.Run *)

\* Reading the next frame fails: the client is gone, silent for the idle
\* timeout, or the connection was closed here.  The session is cancelled.
ReadFails ==
    /\ reading
    /\ reading' = FALSE
    /\ session' = IF session = "serving" THEN "ending" ELSE session
    /\ UNCHANGED <<upstreams, upstream, overflowed, replies>>

\* The server stops: the context above the session is cancelled.
ServerStops ==
    /\ session = "serving"
    /\ session' = "ending"
    /\ UNCHANGED <<reading, upstreams, upstream, overflowed, replies>>

\* egress.Close closes every stream that is in the map.
EgressClose ==
    /\ upstream' = [id \in StreamIDs |->
                        IF id \in upstreams THEN Shut(upstream[id]) ELSE upstream[id]]
    /\ upstreams' = {}

\* The AfterFunc of Run: egress.Close ...
SessionSweeps ==
    /\ session = "ending"
    /\ session' = "swept"
    /\ EgressClose
    /\ UNCHANGED <<reading, overflowed, replies>>

\* ... then the overlay connection is closed.
SessionCloses ==
    /\ session = "swept"
    /\ session' = "closed"
    /\ UNCHANGED <<reading, upstreams, upstream, overflowed, replies>>

----------------------------------------------------------------------------
(* Properties *)

\* A session that ended leaves no stream behind, not even one that was opened
\* while its streams were being closed.
SessionEndStopsStreams ==
    session /= "serving" ~>
        [](upstreams = {} /\ \A id \in StreamIDs : upstream[id].run \in {"none", "ended"})

=============================================================================
