------------------------- MODULE TunnelServerProofs -------------------------
(***************************************************************************)
(* The session map of plain mode, for every set of clients and every       *)
(* number of sessions: SessionsMapIsExact of PlainServer, as an invariant  *)
(* of the whole server.                                                    *)
(***************************************************************************)
EXTENDS MCTunnelServer, TLAPS

\* The records of the sessions.
PlainRecords ==
    [remote : Remotes \cup {NoRemote},
     upstream : {"none", "open", "closed"},
     idle : BOOLEAN,
     pc : {"none", "running", "unmapping", "shutting", "ended"}]

\* The shape of the loop, the map and the sessions.
PlainTypeOK ==
    /\ loop \in [pc : {"reading", "dialing", "writing", "unmapping", "shutting", "returned"},
                 remote : Remotes \cup {NoRemote},
                 session : PlainSessions \cup {0}]
    /\ sessions \in [Remotes -> PlainSessions \cup {0}]
    /\ plain \in [PlainSessions -> PlainRecords]

\* The loop is at a session of the remote whose datagram it has read, and what
\* it has unmapped is not in the map.
LoopIsAtSession ==
    /\ loop.pc = "dialing" => loop.remote \in Remotes
    /\ loop.pc \in {"writing", "unmapping", "shutting"} =>
          /\ loop.session \in PlainSessions
          /\ plain[loop.session].pc /= "none"
          /\ plain[loop.session].remote = loop.remote
    /\ loop.pc = "shutting" => sessions[loop.remote] /= loop.session

\* A session that was dialled belongs to a client, one that has unmapped
\* itself is not in the map, and one that has ended is closed.
SessionsProgress ==
    \A k \in PlainSessions :
       /\ plain[k].pc = "none" <=> plain[k].upstream = "none"
       /\ plain[k].pc /= "none" => plain[k].remote \in Remotes
       /\ plain[k].pc \in {"shutting", "ended"} => sessions[plain[k].remote] /= k
       /\ plain[k].pc = "ended" => plain[k].upstream = "closed"

\* Each client is mapped to a session of its own.
MapIsByRemote ==
    \A r \in Remotes : sessions[r] /= 0 => plain[sessions[r]].remote = r

PlainInv ==
    /\ PlainTypeOK
    /\ LoopIsAtSession
    /\ SessionsProgress
    /\ MapIsByRemote
    /\ SessionsMapIsExact

----------------------------------------------------------------------------
\* No session number is the 0 that stands for none, and no remote NoRemote.
LEMMA Numbers == PlainSessions \subseteq Nat \ {0} /\ 0 \notin PlainSessions
BY PlainAssumption DEF PlainSessions

\* lastSeen says nothing about the map: a step that only changes idle leaves
\* of every session what the other parts of the invariant look at.
LEMMA OnlyIdleChanges ==
    ASSUME PlainTypeOK, NEW k \in PlainSessions, NEW b \in BOOLEAN,
           plain' = [plain EXCEPT ![k].idle = b]
    PROVE  /\ plain' \in [PlainSessions -> PlainRecords]
           /\ \A j \in PlainSessions :
                 /\ plain'[j].pc = plain[j].pc
                 /\ plain'[j].upstream = plain[j].upstream
                 /\ plain'[j].remote = plain[j].remote
<1>1. plain \in [PlainSessions -> PlainRecords]
  BY DEF PlainTypeOK
<1>2. plain'[k] = [plain[k] EXCEPT !.idle = b] /\ plain[k] \in PlainRecords
  BY <1>1
<1>3. plain'[k] \in PlainRecords
  BY <1>2 DEF PlainRecords
<1>4. \A j \in PlainSessions : j # k => plain'[j] = plain[j]
  BY <1>1
<1>5. plain' \in [PlainSessions -> PlainRecords]
  BY <1>1, <1>3, <1>4
<1>6. plain'[k].pc = plain[k].pc /\ plain'[k].upstream = plain[k].upstream
      /\ plain'[k].remote = plain[k].remote
  BY <1>2 DEF PlainRecords
<1> QED
  BY <1>4, <1>5, <1>6

\* Then it preserves the invariant, if the loop goes on to a session that is
\* in the map or that it is at already.
LEMMA OnlyIdleAndLoopChange ==
    ASSUME PlainInv, NEW k \in PlainSessions, NEW b \in BOOLEAN,
           plain' = [plain EXCEPT ![k].idle = b],
           UNCHANGED sessions,
           loop.pc /= "shutting",
           loop'.pc \in {"reading", "writing", "unmapping"},
           loop' \in [pc : {"reading", "writing", "unmapping"},
                       remote : Remotes \cup {NoRemote},
                       session : PlainSessions \cup {0}],
           loop'.pc /= "reading" =>
              /\ loop'.session \in PlainSessions
              /\ plain[loop'.session].pc /= "none"
              /\ plain[loop'.session].remote = loop'.remote
    PROVE  PlainInv'
<1>1. /\ plain' \in [PlainSessions -> PlainRecords]
      /\ \A j \in PlainSessions :
            /\ plain'[j].pc = plain[j].pc
            /\ plain'[j].upstream = plain[j].upstream
            /\ plain'[j].remote = plain[j].remote
  <2>1. PlainTypeOK
    BY DEF PlainInv
  <2> QED
    BY <2>1, OnlyIdleChanges
<1>2. PlainTypeOK'
  BY <1>1 DEF PlainInv, PlainTypeOK
<1>3. LoopIsAtSession'
  BY <1>1 DEF LoopIsAtSession
<1>4. SessionsProgress'
  BY <1>1 DEF PlainInv, SessionsProgress
<1>5. \A r \in Remotes : sessions[r] /= 0 => sessions[r] \in PlainSessions
  BY DEF PlainInv, PlainTypeOK
<1>6. MapIsByRemote'
  BY <1>1, <1>5 DEF PlainInv, MapIsByRemote
<1>7. SessionsMapIsExact'
  BY <1>1, <1>5 DEF PlainInv, SessionsMapIsExact, BeingShut
<1> QED
  BY <1>2, <1>3, <1>4, <1>6, <1>7 DEF PlainInv

\* The server starts with an empty map.
LEMMA PlainInitial == PlainInit => PlainInv
BY Numbers, PlainAssumption
DEF PlainInit, PlainInv, PlainTypeOK, LoopIsAtSession, SessionsProgress, MapIsByRemote,
    SessionsMapIsExact, BeingShut, Reading, NoRemote, PlainSession, PlainRecords

\* Every step of the loop and of a session's goroutine preserves PlainInv.
LEMMA PlainPreserved ==
    PlainInv /\ (PlainLoopStep \/ \E k \in PlainSessions : PlainSessionStep(k)) => PlainInv'
<1> SUFFICES ASSUME PlainInv, PlainLoopStep \/ \E k \in PlainSessions : PlainSessionStep(k)
             PROVE  PlainInv'
  OBVIOUS
<1> USE Numbers
<1>1. ASSUME NEW r \in Remotes, ReadDatagram(r) PROVE PlainInv'
  <2>1. CASE sessions[r] /= 0
    <3> DEFINE s == sessions[r]
    <3>1. s \in PlainSessions /\ plain[s].upstream = "open" /\ plain[s].remote = r
      BY <2>1 DEF PlainInv, PlainTypeOK, MapIsByRemote, SessionsMapIsExact
    <3>2. /\ loop' = [pc |-> "writing", remote |-> r, session |-> s]
          /\ plain' = [plain EXCEPT ![s].idle = FALSE]
          /\ sessions' = sessions /\ loop.pc = "reading"
      BY <1>1, <2>1 DEF ReadDatagram, touch
    <3>3. plain[s].pc /= "none"
      BY <3>1 DEF PlainInv, SessionsProgress
    <3> HIDE DEF s
    <3>4. /\ loop' \in [pc : {"reading", "writing", "unmapping"},
                         remote : Remotes \cup {NoRemote},
                         session : PlainSessions \cup {0}]
          /\ loop'.pc = "writing" /\ loop'.session = s /\ loop'.remote = r
      BY <3>1, <3>2
    <3> QED
      BY <3>1, <3>2, <3>3, <3>4, OnlyIdleAndLoopChange
  <2>2. CASE sessions[r] = 0
    BY <1>1, <2>2
    DEF PlainInv, PlainTypeOK, LoopIsAtSession, SessionsProgress, MapIsByRemote,
        SessionsMapIsExact, BeingShut, ReadDatagram
  <2> QED
    BY <2>1, <2>2 DEF PlainInv, PlainTypeOK
<1>2. ASSUME NEW k \in PlainSessions, DialUpstream(k) PROVE PlainInv'
  <2> DEFINE r == loop.remote
  <2>0. r \in Remotes /\ loop.pc = "dialing" /\ plain[k].pc = "none" /\ plain[k].upstream = "none"
    BY <1>2 DEF PlainInv, LoopIsAtSession, SessionsProgress, DialUpstream
  <2>1. CASE sessions[r] /= 0
    <3> DEFINE s == sessions[r]
    <3>1. s \in PlainSessions /\ plain[s].upstream = "open" /\ plain[s].remote = r
      BY <2>0, <2>1 DEF PlainInv, PlainTypeOK, MapIsByRemote, SessionsMapIsExact
    <3>2. /\ loop' = [loop EXCEPT !.pc = "writing", !.session = s]
          /\ plain' = [plain EXCEPT ![s].idle = FALSE]
          /\ sessions' = sessions
      BY <1>2, <2>1 DEF DialUpstream, touch
    <3>3. plain[s].pc /= "none"
      BY <3>1 DEF PlainInv, SessionsProgress
    <3>4. /\ loop' \in [pc : {"reading", "writing", "unmapping"},
                         remote : Remotes \cup {NoRemote},
                         session : PlainSessions \cup {0}]
          /\ loop'.pc = "writing" /\ loop'.session = s /\ loop'.remote = r
      BY <2>0, <3>1, <3>2 DEF PlainInv, PlainTypeOK
    <3> HIDE DEF s, r
    <3> QED
      BY <2>0, <3>1, <3>2, <3>3, <3>4, OnlyIdleAndLoopChange
  <2>2. CASE sessions[r] = 0
    <3>1. /\ loop' = [loop EXCEPT !.pc = "writing", !.session = k]
          /\ plain' = [plain EXCEPT ![k] = PlainSession(r, "open", "running")]
          /\ sessions' = [sessions EXCEPT ![r] = k]
      BY <1>2, <2>2 DEF DialUpstream
    <3>2. /\ loop' \in [pc : {"writing"}, remote : Remotes, session : PlainSessions]
          /\ loop'.remote = r /\ loop'.session = k /\ loop'.pc = "writing"
      BY <2>0, <3>1 DEF PlainInv, PlainTypeOK
    <3>3. /\ PlainSession(r, "open", "running") \in PlainRecords
          /\ plain'[k].pc = "running" /\ plain'[k].upstream = "open" /\ plain'[k].remote = r
      BY <2>0, <3>1 DEF PlainInv, PlainTypeOK, PlainRecords, PlainSession
    <3>4. /\ plain' \in [PlainSessions -> PlainRecords]
          /\ \A j \in PlainSessions : j # k => plain'[j] = plain[j]
      BY <3>1, <3>3 DEF PlainInv, PlainTypeOK
    <3>5. /\ sessions' \in [Remotes -> PlainSessions \cup {0}]
          /\ sessions'[r] = k
          /\ \A q \in Remotes : q # r => sessions'[q] = sessions[q]
      BY <2>0, <3>1 DEF PlainInv, PlainTypeOK
    <3>6. \A q \in Remotes : sessions[q] # k
      BY <2>0 DEF PlainInv, PlainTypeOK, SessionsMapIsExact
    <3> HIDE DEF r
    <3>7. PlainTypeOK' /\ LoopIsAtSession'
      BY <3>2, <3>3, <3>4, <3>5 DEF PlainInv, PlainTypeOK, LoopIsAtSession
    <3>8. \A q \in Remotes : q # r /\ sessions[q] # 0 =>
             sessions[q] \in PlainSessions /\ plain'[sessions[q]] = plain[sessions[q]]
      BY <3>4, <3>6 DEF PlainInv, PlainTypeOK
    <3>9. SessionsProgress'
      <4> SUFFICES ASSUME NEW j \in PlainSessions
                   PROVE  /\ plain'[j].pc = "none" <=> plain'[j].upstream = "none"
                          /\ plain'[j].pc /= "none" => plain'[j].remote \in Remotes
                          /\ plain'[j].pc \in {"shutting", "ended"} =>
                                sessions'[plain'[j].remote] /= j
                          /\ plain'[j].pc = "ended" => plain'[j].upstream = "closed"
        BY DEF SessionsProgress
      <4>1. CASE j = k
        BY <4>1, <2>0, <3>3
      <4>2. CASE j # k
        BY <4>2, <3>4, <3>5 DEF PlainInv, SessionsProgress
      <4> QED
        BY <4>1, <4>2
    <3>10. MapIsByRemote'
      BY <2>0, <3>3, <3>5, <3>8 DEF PlainInv, MapIsByRemote
    <3>11. \A j \in PlainSessions : plain'[j].upstream = "open" =>
              sessions'[plain'[j].remote] = j \/ BeingShut(j)'
      <4> TAKE j \in PlainSessions
      <4>1. CASE j = k
        BY <4>1, <3>3, <3>5
      <4>2. CASE j # k
        <5>1. plain'[j] = plain[j] /\ (plain[j].upstream = "open" => plain[j].remote \in Remotes)
          BY <4>2, <3>4 DEF PlainInv, SessionsProgress
        <5>2. plain[j].upstream = "open" =>
                 sessions[plain[j].remote] = j \/ plain[j].pc = "shutting"
          BY <2>0 DEF PlainInv, SessionsMapIsExact, BeingShut
        <5> QED
          BY <5>1, <5>2, <2>2, <3>5 DEF BeingShut
      <4> QED
        BY <4>1, <4>2
    <3>12. SessionsMapIsExact'
      BY <2>0, <3>3, <3>5, <3>8, <3>11 DEF PlainInv, SessionsMapIsExact
    <3> QED
      BY <3>7, <3>9, <3>10, <3>12 DEF PlainInv
  <2> QED
    BY <2>1, <2>2
<1>3. CASE PlainDialFails
  BY <1>3
  DEF PlainInv, PlainTypeOK, LoopIsAtSession, SessionsProgress, MapIsByRemote,
      SessionsMapIsExact, BeingShut, PlainRecords, NoRemote, PlainDialFails, Reading
<1>4. CASE ForwardDatagram
  <2> DEFINE s == loop.session
  <2>1. s \in PlainSessions /\ plain[s].pc /= "none" /\ plain[s].remote = loop.remote
    BY <1>4 DEF PlainInv, LoopIsAtSession, ForwardDatagram
  <2>2. /\ loop.pc = "writing"
        /\ loop' = Reading \/ loop' = [loop EXCEPT !.pc = "unmapping"]
        /\ plain' = [plain EXCEPT ![s].idle = FALSE]
        /\ sessions' = sessions
    BY <1>4 DEF ForwardDatagram, touch
  <2>3. /\ loop' \in [pc : {"reading", "writing", "unmapping"},
                       remote : Remotes \cup {NoRemote},
                       session : PlainSessions \cup {0}]
        /\ \/ loop'.pc = "reading"
           \/ loop'.pc = "unmapping" /\ loop'.session = s /\ loop'.remote = loop.remote
    BY <2>2 DEF PlainInv, PlainTypeOK, Reading
  <2> HIDE DEF s
  <2> QED
    BY <2>1, <2>2, <2>3, OnlyIdleAndLoopChange
<1>5. CASE LoopUnmaps
  BY <1>5
  DEF PlainInv, PlainTypeOK, LoopIsAtSession, SessionsProgress, MapIsByRemote,
      SessionsMapIsExact, BeingShut, PlainRecords, NoRemote, LoopUnmaps, Unmap
<1>6. CASE LoopShuts
  BY <1>6
  DEF PlainInv, PlainTypeOK, LoopIsAtSession, SessionsProgress, MapIsByRemote,
      SessionsMapIsExact, BeingShut, PlainRecords, NoRemote, LoopShuts, Shutdown, Reading
<1>7. CASE PlainReturns
  BY <1>7
  DEF PlainInv, PlainTypeOK, LoopIsAtSession, SessionsProgress, MapIsByRemote,
      SessionsMapIsExact, BeingShut, PlainRecords, NoRemote, PlainReturns, Reading
<1>8. ASSUME NEW k \in PlainSessions, IdleElapses(k) PROVE PlainInv'
  <2>1. plain' = [plain EXCEPT ![k].idle = TRUE] /\ UNCHANGED <<sessions, loop>>
    BY <1>8 DEF IdleElapses
  <2>2. /\ plain' \in [PlainSessions -> PlainRecords]
        /\ \A j \in PlainSessions :
              /\ plain'[j].pc = plain[j].pc
              /\ plain'[j].upstream = plain[j].upstream
              /\ plain'[j].remote = plain[j].remote
    <3>1. PlainTypeOK
      BY DEF PlainInv
    <3> QED
      BY <2>1, <3>1, OnlyIdleChanges
  <2>3. PlainTypeOK' /\ LoopIsAtSession' /\ SessionsProgress'
    BY <2>1, <2>2 DEF PlainInv, PlainTypeOK, LoopIsAtSession, SessionsProgress
  <2>4. MapIsByRemote' /\ SessionsMapIsExact'
    BY <2>1, <2>2 DEF PlainInv, PlainTypeOK, MapIsByRemote, SessionsMapIsExact, BeingShut
  <2> QED
    BY <2>3, <2>4 DEF PlainInv
<1>9. CASE \E k \in PlainSessions : SessionEnds(k)
  BY <1>9
  DEF PlainInv, PlainTypeOK, LoopIsAtSession, SessionsProgress, MapIsByRemote,
      SessionsMapIsExact, BeingShut, PlainRecords, NoRemote, SessionEnds
<1>10. CASE \E k \in PlainSessions : SessionUnmaps(k)
  BY <1>10
  DEF PlainInv, PlainTypeOK, LoopIsAtSession, SessionsProgress, MapIsByRemote,
      SessionsMapIsExact, BeingShut, PlainRecords, NoRemote, SessionUnmaps, Unmap
<1>11. ASSUME NEW k \in PlainSessions, SessionShuts(k) PROVE PlainInv'
  <2>1. /\ plain[k].pc = "shutting"
        /\ plain' = [plain EXCEPT ![k].pc = "ended", ![k].upstream = "closed"]
        /\ UNCHANGED <<sessions, loop>>
    BY <1>11 DEF SessionShuts
  <2>2. /\ plain' \in [PlainSessions -> PlainRecords]
        /\ \A j \in PlainSessions : j # k => plain'[j] = plain[j]
        /\ plain'[k].pc = "ended" /\ plain'[k].upstream = "closed"
        /\ plain'[k].remote = plain[k].remote
    BY <2>1 DEF PlainInv, PlainTypeOK, PlainRecords
  <2>3. \A r \in Remotes : sessions[r] # k
    BY <2>1 DEF PlainInv, PlainTypeOK, SessionsProgress, MapIsByRemote
  <2>4. PlainTypeOK' /\ LoopIsAtSession'
    BY <2>1, <2>2 DEF PlainInv, PlainTypeOK, LoopIsAtSession
  <2>5. SessionsProgress' /\ MapIsByRemote'
    BY <2>1, <2>2, <2>3 DEF PlainInv, PlainTypeOK, SessionsProgress, MapIsByRemote
  <2>6. SessionsMapIsExact'
    BY <2>1, <2>2, <2>3 DEF PlainInv, PlainTypeOK, SessionsMapIsExact, BeingShut
  <2> QED
    BY <2>4, <2>5, <2>6 DEF PlainInv
<1> QED
  BY <1>1, <1>2, <1>3, <1>4, <1>5, <1>6, <1>7, <1>8, <1>9, <1>10, <1>11
  DEF PlainLoopStep, PlainSessionStep

\* The rest of the server, in this configuration or another, does not touch the
\* variables of the plain server.
LEMMA ServerStepPreserved == PlainInv /\ [Next]_vars => PlainInv'
<1> SUFFICES ASSUME PlainInv, [Next]_vars PROVE PlainInv'
  OBVIOUS
<1>1. CASE UNCHANGED plainVars
  BY <1>1
  DEF plainVars, PlainInv, PlainTypeOK, LoopIsAtSession, SessionsProgress, MapIsByRemote,
      SessionsMapIsExact, BeingShut
<1>2. CASE \/ Plain(PlainLoopStep)
           \/ \E k \in PlainSessions : Plain(PlainSessionStep(k))
  BY <1>2, PlainPreserved DEF Plain
<1>3. ASSUME ServerStep PROVE UNCHANGED plainVars
  BY <1>3 DEF ServerStep, Stop, CloseListener, AcceptEnds, ServeReturns
<1>4. ASSUME NEW c \in Conns, Accept(c) \/ ConnStep(c) PROVE UNCHANGED plainVars
  BY <1>4
  DEF Accept, ConnStep, Handshake, Hello, HelloAck, RunReturns, FramesEnd, UpstreamLoopEnds,
      CloseEgress, CloseConn, Ends, AbandonEgress, Refused, Conn
<1>5. CASE UNCHANGED vars
  BY <1>1, <1>5 DEF vars, tunnelVars
<1> QED
  BY <1>1, <1>2, <1>3, <1>4, <1>5 DEF Next, Tcp, Receive

\* In plain mode the map of sessions is exact for any number of clients and
\* sessions: whoever closes a session, the loop of ServePlain or the session's
\* own goroutine, and however late, closeSession takes no other session out
\* of the map, and none stays open outside it.
THEOREM SessionsMapIsExactHolds == Spec => []SessionsMapIsExact
<1>1. Init => PlainInv
  BY PlainInitial DEF Init, TunnelInit
<1>2. PlainInv /\ [Next]_vars => PlainInv'
  BY ServerStepPreserved
<1>3. PlainInv => SessionsMapIsExact
  BY DEF PlainInv
<1> QED
  BY <1>1, <1>2, <1>3, PTL DEF Spec

=============================================================================
