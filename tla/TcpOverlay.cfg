\* One stream with two chunks in all, in either direction, so that frames
\* overtake each other, and queues of one, so that every queue overflows.
\* Several streams and workers are checked by MCIngress, the end of a session by
\* MCTunnelServer.
CONSTANTS
    Workers = {0}
    MaxGeneration = 1
    MaxStreams = 1
    MaxChunks = 2
    InboundCap = 1
    OutboundCap = 1
    MaxReplies = 2
    EgressInboundCap = 1
    MaxTraffic = 2
SPECIFICATION Spec
INVARIANTS
    StreamsArePrefixes
PROPERTIES
    StreamsOpenOnce
    ClosedStreamsStop
    LocalCloseReachesUpstream
CHECK_DEADLOCK FALSE
