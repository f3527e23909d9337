---------------------------- MODULE PlainServer -----------------------------
(***************************************************************************)
(* The server without DTLS: ServePlain and runPlainSession of              *)
(* internal/tunnelserver/plain_server.go.  One loop reads the datagrams of *)
(* all clients; each remote address has a session, with an upstream socket *)
(* and a goroutine that carries the replies back.  The loop and the        *)
(* goroutine may both close a session, and closeSession takes two steps:   *)
(* it deletes the map entry under the mutex, then closes the socket.       *)
(*                                                                         *)
(* A datagram that is forwarded, a read that times out and a reply that is *)
(* written back change nothing here.                                       *)
(***************************************************************************)
EXTENDS Integers

CONSTANTS
    Remotes,            \* the addresses of the clients
    MaxPlainSessions    \* bound: sessions that are ever dialled

ASSUME PlainAssumption == Remotes \subseteq Nat \ {0} /\ MaxPlainSessions \in Nat

PlainSessions == 1 .. MaxPlainSessions

VARIABLES
    stopped,        \* the context of Run is cancelled
    listener,       \* the listening socket: open or closed
    loop,           \* the reading loop, with the remote and session it is at
    sessions,       \* the session of each remote address, 0 for none
    plain           \* the plainSessions with their goroutines

plainVars == <<loop, sessions, plain>>

\* idle says that lastSeen is longer ago than the idle timeout.
PlainSession(remote, upstream, pc) ==
    [remote |-> remote, upstream |-> upstream, idle |-> FALSE, pc |-> pc]

NoRemote == 0

Reading == [pc |-> "reading", remote |-> NoRemote, session |-> 0]

PlainInit ==
    /\ loop = Reading
    /\ sessions = [r \in Remotes |-> 0]
    /\ plain = [k \in PlainSessions |-> PlainSession(NoRemote, "none", "none")]

----------------------------------------------------------------------------
(* closeSession and touch *)

\* Mutant: the entry is deleted whichever session it holds.
UnmapAny(r, k) == [sessions EXCEPT ![r] = 0]

Unmap(r, k) == [sessions EXCEPT ![r] = IF @ = k THEN 0 ELSE @]

Shutdown(k) == plain' = [plain EXCEPT ![k].upstream = "closed"]

touch(k) == plain' = [plain EXCEPT ![k].idle = FALSE]

----------------------------------------------------------------------------
(* The loop of ServePlain *)

\* A datagram is read, and getOrCreateSession looks its remote up.
ReadDatagram(r) ==
    /\ loop.pc = "reading"
    /\ listener = "open"
    /\ IF sessions[r] /= 0
       THEN /\ loop' = [pc |-> "writing", remote |-> r, session |-> sessions[r]]
            /\ touch(sessions[r])
       ELSE /\ loop' = [pc |-> "dialing", remote |-> r, session |-> 0]
            /\ UNCHANGED plain
    /\ UNCHANGED <<stopped, listener, sessions>>

\* The upstream is dialled, and the session stored and started, unless one
\* was stored in between: then that one is used and the new socket closed.
DialUpstream(k) ==
    LET r == loop.remote
    IN  /\ loop.pc = "dialing"
        /\ plain[k].pc = "none"
        /\ \A j \in PlainSessions : j < k => plain[j].pc /= "none"
        /\ IF sessions[r] /= 0
           THEN /\ loop' = [loop EXCEPT !.pc = "writing", !.session = sessions[r]]
                /\ touch(sessions[r])
                /\ UNCHANGED sessions
           ELSE /\ loop' = [loop EXCEPT !.pc = "writing", !.session = k]
                /\ plain' = [plain EXCEPT ![k] = PlainSession(r, "open", "running")]
                /\ sessions' = [sessions EXCEPT ![r] = k]
        /\ UNCHANGED <<stopped, listener>>

PlainDialFails ==
    /\ loop.pc = "dialing"
    /\ loop' = Reading
    /\ UNCHANGED <<stopped, listener, sessions, plain>>

\* The write to the upstream fails on a closed socket and may fail on an open
\* one: the loop closes the session.
ForwardDatagram ==
    /\ loop.pc = "writing"
    /\ touch(loop.session)
    /\ \/ plain[loop.session].upstream = "open" /\ loop' = Reading
       \/ loop' = [loop EXCEPT !.pc = "unmapping"]
    /\ UNCHANGED <<stopped, listener, sessions>>

LoopUnmaps ==
    /\ loop.pc = "unmapping"
    /\ sessions' = Unmap(loop.remote, loop.session)
    /\ loop' = [loop EXCEPT !.pc = "shutting"]
    /\ UNCHANGED <<stopped, listener, plain>>

LoopShuts ==
    /\ loop.pc = "shutting"
    /\ Shutdown(loop.session)
    /\ loop' = Reading
    /\ UNCHANGED <<stopped, listener, sessions>>

\* The listener is closed, or reading fails on its own: ServePlain returns,
\* and its deferred function closes the listener.
PlainReturns ==
    /\ loop.pc = "reading"
    /\ loop' = [Reading EXCEPT !.pc = "returned"]
    /\ listener' = "closed"
    /\ UNCHANGED <<stopped, sessions, plain>>

----------------------------------------------------------------------------
(* runPlainSession *)

\* Time passes without a datagram of the remote.
IdleElapses(k) ==
    /\ plain[k].pc = "running"
    /\ plain' = [plain EXCEPT ![k].idle = TRUE]
    /\ UNCHANGED <<stopped, listener, loop, sessions>>

\* What the goroutine finds at the top of its loop, or in its next read.
MustEnd(k) == stopped \/ plain[k].idle \/ plain[k].upstream = "closed"

\* The goroutine leaves its loop: MustEnd, or reading the upstream or writing
\* to the client fails.
SessionEnds(k) ==
    /\ plain[k].pc = "running"
    /\ plain' = [plain EXCEPT ![k].pc = "unmapping"]
    /\ UNCHANGED <<stopped, listener, loop, sessions>>

SessionUnmaps(k) ==
    /\ plain[k].pc = "unmapping"
    /\ sessions' = Unmap(plain[k].remote, k)
    /\ plain' = [plain EXCEPT ![k].pc = "shutting"]
    /\ UNCHANGED <<stopped, listener, loop>>

SessionShuts(k) ==
    /\ plain[k].pc = "shutting"
    /\ plain' = [plain EXCEPT ![k].pc = "ended", ![k].upstream = "closed"]
    /\ UNCHANGED <<stopped, listener, loop, sessions>>

----------------------------------------------------------------------------
PlainLoopStep ==
    \/ \E r \in Remotes : ReadDatagram(r)
    \/ \E k \in PlainSessions : DialUpstream(k)
    \/ PlainDialFails \/ ForwardDatagram \/ LoopUnmaps \/ LoopShuts \/ PlainReturns

PlainSessionStep(k) == IdleElapses(k) \/ SessionEnds(k) \/ SessionUnmaps(k) \/ SessionShuts(k)

\* The loop is at a datagram: everything it does with one ends.
LoopBusy == loop.pc \notin {"reading", "returned"}

PlainReleased ==
    /\ loop.pc = "returned"
    /\ \A k \in PlainSessions : plain[k].pc \in {"none", "ended"} /\ plain[k].upstream /= "open"

\* Somebody has taken the session out of the map and not yet closed it.
BeingShut(k) ==
    \/ plain[k].pc = "shutting"
    \/ loop.pc = "shutting" /\ loop.session = k

\* The map holds exactly the sessions whose upstream is open, but for those
\* that are just being closed: the late close of a session that the idle
\* timeout or a failed write ended never takes out the session the same
\* client has got since, whose replies and idle timeout would go on while
\* its datagrams open yet another one.
SessionsMapIsExact ==
    /\ \A k \in PlainSessions :
          plain[k].upstream = "open" => sessions[plain[k].remote] = k \/ BeingShut(k)
    /\ \A r \in Remotes : sessions[r] /= 0 => plain[sessions[r]].upstream = "open"

=============================================================================
