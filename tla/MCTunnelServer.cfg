\* Every configuration of the server.  Two connections for UDP egress; two
\* clients and three plain sessions, so that one client has a session closing
\* while it gets the next.  One stream for TCP egress: the streams of a session
\* share nothing but its end.  Two chunks and a queue of one: out of order, and
\* overflow.
CONSTANTS
    Conns = {1, 2}
    Remotes = {1, 2}
    MaxPlainSessions = 3
    MaxStreams = 1
    MaxChunks = 2
    MaxReplies = 1
    EgressInboundCap = 1
SPECIFICATION Spec
INVARIANTS
    SessionsMapIsExact
PROPERTIES
    SessionEndStopsStreams
    StopReleasesEverything
CHECK_DEADLOCK FALSE
