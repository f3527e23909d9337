\* Two workers and two streams: what happens to one must not reach the other.
\* One chunk or one frame is enough for a full channel to fail the reader and
\* for the writer to fail or be closed; the data path in both directions is
\* checked end to end by TcpOverlay.  With UDP ingress a worker comes back
\* once, under the same route id.
CONSTANTS
    Workers = {0, 1}
    MaxGeneration = 2
    MaxTcpGeneration = 1
    MaxStreams = 2
    MaxChunks = 1
    InboundCap = 1
    OutboundCap = 1
    MaxTraffic = 1
SPECIFICATION Spec
INVARIANTS
    AtMostOneStray
    RepliesReachTheirSenders
PROPERTIES
    UnrelatedStreamsSurvive
CHECK_DEADLOCK FALSE
