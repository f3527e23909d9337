-------------------------- MODULE TcpOverlayProofs --------------------------
(***************************************************************************)
(* StreamsArePrefixes of TcpOverlay for every number of streams and chunks *)
(* and every capacity of the queues.                                       *)
(***************************************************************************)
EXTENDS TcpOverlay, TLAPS

----------------------------------------------------------------------------
(* Frames *)

AllFrames ==
    [kind : {"open", "data", "close"}, id : StreamIDs, sequence : Nat, chunk : Nat]

\* The data frames of stream id, of which the sender has read n chunks: the
\* k-th chunk travels under the sequence number k - 1.
Data(id, n) ==
    {f \in AllFrames : /\ f.kind = "data"
                       /\ f.id = id
                       /\ f.chunk = f.sequence + 1
                       /\ f.chunk <= n}

\* What a side may have sent that has read count[id] chunks of each stream.
Sendable(count) ==
    {f \in AllFrames : /\ f.kind = "data" => f \in Data(f.id, count[f.id])
                       /\ f.kind = "open" => f = OpenFrame(f.id)}

\* Reading on takes no frame back.
LEMMA DataGrows ==
    ASSUME NEW id, NEW n \in Nat, NEW m \in Nat, n <= m
    PROVE  Data(id, n) \subseteq Data(id, m)
BY DEF Data, AllFrames

LEMMA SendableGrows ==
    ASSUME NEW c, NEW d,
           \A id \in StreamIDs : c[id] \in Nat /\ d[id] \in Nat /\ c[id] <= d[id]
    PROVE  Sendable(c) \subseteq Sendable(d)
BY DEF Sendable, Data, AllFrames

\* A sequence over a set is one over a larger set.
LEMMA SeqGrows ==
    ASSUME NEW S, NEW T, S \subseteq T, NEW s \in Seq(S)
    PROVE  s \in Seq(T)
<1>1. Len(s) \in Nat /\ s \in [1 .. Len(s) -> S]
  OBVIOUS
<1>2. s \in [1 .. Len(s) -> T]
  BY <1>1
<1> QED
  BY <1>1, <1>2

\* The first n chunks and the next one are the first n + 1.
LEMMA PrefixGrows ==
    ASSUME NEW n \in Nat
    PROVE  /\ Prefix(n) \in Seq(Nat)
           /\ Len(Prefix(n)) = n
           /\ Append(Prefix(n), n + 1) = Prefix(n + 1)
<1>1. Prefix(n) \in Seq(Nat) /\ Len(Prefix(n)) = n
  BY DEF Prefix
<1>2. /\ Append(Prefix(n), n + 1) \in Seq(Nat)
      /\ Len(Append(Prefix(n), n + 1)) = n + 1
      /\ \A k \in 1 .. n + 1 : Append(Prefix(n), n + 1)[k] = k
  BY <1>1 DEF Prefix
<1>3. Append(Prefix(n), n + 1) = [k \in 1 .. n + 1 |-> k]
  BY <1>2
<1> QED
  BY <1>1, <1>3 DEF Prefix

----------------------------------------------------------------------------
(* The record of a stream on either side *)

LocalFields ==
    {"route", "reader", "writer", "inbound", "sendSequence", "recvSequence", "notified",
     "read", "written"}

UpstreamFields ==
    {"run", "reader", "writer", "cancelled", "attached", "socket", "inbound",
     "sendSequence", "recvSequence", "read", "written"}

\* Sequence numbers count chunks, what was written is a prefix of the n chunks
\* the far side has read, and so is what waits in the inbound queue; a writer
\* that has not failed is at the chunk after the last one written.
Counts(st, id, n, fresh) ==
    /\ st.read \in Nat
    /\ st.sendSequence = st.read
    /\ st.inbound \in Seq(Data(id, n))
    /\ Len(st.written) \in 0 .. n
    /\ st.written = Prefix(Len(st.written))
    /\ st.writer \in fresh => st.recvSequence = Len(st.written)

LocalOK(st, id, n) ==
    /\ DOMAIN st = LocalFields
    /\ Counts(st, id, n, {"none", "running"})
    /\ st.reader = "none" => st.read = 0
    /\ st.reader = "sending" => st.read > 0

UpstreamOK(st, id, n) ==
    /\ DOMAIN st = UpstreamFields
    /\ Counts(st, id, n, {"none", "starting", "running"})
    /\ st.run \in {"none", "dialing", "dialed"} => st.reader = "none" /\ st.writer = "none"
    /\ st.run = "none" => st.read = 0 /\ st.written = <<>>

\* The chunks the far side reads in the meantime change nothing.
LEMMA CountsGrow ==
    ASSUME NEW st, NEW id, NEW n \in Nat, NEW m \in Nat, n <= m, NEW fresh,
           Counts(st, id, n, fresh)
    PROVE  Counts(st, id, m, fresh)
<1>1. st.inbound \in Seq(Data(id, m))
  BY DataGrows, SeqGrows DEF Counts
<1>2. Len(st.written) \in 0 .. m
  BY DEF Counts
<1> QED
  BY <1>1, <1>2 DEF Counts

\* The next frame in sequence carries the chunk after the last one written.
LEMMA NextChunk ==
    ASSUME NEW st, NEW id, NEW n \in Nat, NEW fresh, Counts(st, id, n, fresh),
           st.writer \in fresh, st.inbound /= <<>>, Head(st.inbound).sequence = st.recvSequence
    PROVE  /\ Append(st.written, Head(st.inbound).chunk) = Prefix(Len(st.written) + 1)
           /\ Len(Append(st.written, Head(st.inbound).chunk)) = Len(st.written) + 1
           /\ Len(st.written) + 1 \in 0 .. n
           /\ st.recvSequence + 1 = Len(st.written) + 1
<1> DEFINE f == Head(st.inbound)
           l == Len(st.written)
<1>1. f \in Data(id, n)
  BY DEF Counts
<1>2. l \in Nat /\ st.recvSequence = l /\ st.written = Prefix(l)
  BY DEF Counts
<1>3. f.chunk = l + 1 /\ l + 1 <= n
  BY <1>1, <1>2 DEF Data
<1> HIDE DEF f, l
<1>4. Append(Prefix(l), l + 1) = Prefix(l + 1) /\ Len(Prefix(l + 1)) = l + 1
  <2>1. l \in Nat /\ l + 1 \in Nat
    BY <1>2
  <2>2. Append(Prefix(l), l + 1) = Prefix(l + 1)
    BY <2>1, PrefixGrows
  <2>3. Len(Prefix(l + 1)) = l + 1
    BY <2>1, PrefixGrows
  <2> QED
    BY <2>2, <2>3
<1>5. Append(st.written, f.chunk) = Prefix(l + 1) /\ Len(Append(st.written, f.chunk)) = l + 1
  BY <1>2, <1>3, <1>4
<1> QED
  BY <1>2, <1>3, <1>5 DEF f, l

\* A queue that gets a frame of its stream, or loses its first one.
LEMMA QueueKept ==
    ASSUME NEW q, NEW id, NEW n \in Nat, q \in Seq(Data(id, n))
    PROVE  /\ \A f \in Data(id, n) : Append(q, f) \in Seq(Data(id, n))
           /\ q /= <<>> => Tail(q) \in Seq(Data(id, n))
OBVIOUS

\* What the client's goroutines do to a stream.
LEMMA LocalSteps ==
    ASSUME NEW st, NEW id, NEW n \in Nat, LocalOK(st, id, n)
    PROVE  /\ \A pc \in {"running", "notifying", "ended"} : LocalOK([st EXCEPT !.reader = pc], id, n)
           /\ \A pc \in {"notifying", "ended"} : LocalOK([st EXCEPT !.writer = pc], id, n)
           /\ \A pc \in {"notifying", "ended"}, b \in BOOLEAN :
                 /\ LocalOK([st EXCEPT !.reader = pc, !.notified = b], id, n)
                 /\ LocalOK([st EXCEPT !.writer = pc, !.notified = b], id, n)
                 /\ LocalOK([st EXCEPT !.notified = b], id, n)
           /\ st.reader = "running" =>
                 LocalOK([st EXCEPT !.reader = "sending", !.read = @ + 1, !.sendSequence = @ + 1],
                         id, n)
BY DEF LocalOK, Counts, LocalFields

\* A frame of the stream is queued.
LEMMA LocalQueues ==
    ASSUME NEW st, NEW id, NEW n \in Nat, LocalOK(st, id, n), NEW f \in Data(id, n)
    PROVE  LocalOK([st EXCEPT !.inbound = Append(@, f)], id, n)
<1> DEFINE q == Append(st.inbound, f)
<1>1. q \in Seq(Data(id, n))
  BY QueueKept DEF LocalOK, Counts
<1> HIDE DEF q
<1>2. LocalOK([st EXCEPT !.inbound = q], id, n)
  BY <1>1 DEF LocalOK, Counts, LocalFields
<1> QED
  BY <1>2 DEF q

\* runStreamWriter takes a frame: it writes its chunk, or gives up.
LEMMA LocalWrites ==
    ASSUME NEW st, NEW id, NEW n \in Nat, LocalOK(st, id, n),
           st.writer = "running", st.inbound /= <<>>
    PROVE  /\ Head(st.inbound).sequence = st.recvSequence =>
                 LocalOK([st EXCEPT !.inbound = Tail(@), !.recvSequence = @ + 1,
                                    !.written = Append(@, Head(st.inbound).chunk)], id, n)
           /\ \A k : LocalOK([st EXCEPT !.inbound = Tail(@), !.writer = "notifying",
                                        !.recvSequence = k], id, n)
<1> DEFINE q == Tail(st.inbound)
           w == Append(st.written, Head(st.inbound).chunk)
           k == st.recvSequence + 1
<1>1. q \in Seq(Data(id, n))
  BY QueueKept DEF LocalOK, Counts
<1>2. ASSUME Head(st.inbound).sequence = st.recvSequence
      PROVE  w = Prefix(Len(w)) /\ Len(w) \in 0 .. n /\ k = Len(w)
  BY <1>2, NextChunk DEF LocalOK
<1>3. \A j : LocalOK([st EXCEPT !.inbound = q, !.writer = "notifying", !.recvSequence = j], id, n)
  <2> HIDE DEF q
  <2> QED
    BY <1>1 DEF LocalOK, Counts, LocalFields
<1>4. ASSUME Head(st.inbound).sequence = st.recvSequence
      PROVE  LocalOK([st EXCEPT !.inbound = q, !.recvSequence = k, !.written = w], id, n)
  <2>1. w = Prefix(Len(w)) /\ Len(w) \in 0 .. n /\ k = Len(w)
    BY <1>2, <1>4
  <2> HIDE DEF q, w, k
  <2> QED
    BY <1>1, <2>1 DEF LocalOK, Counts, LocalFields
<1> QED
  BY <1>3, <1>4

\* A stream that is stored or starts its goroutines.
LEMMA LocalStarts ==
    ASSUME NEW route, NEW pc \in {"none", "running"}, NEW id, NEW n \in Nat
    PROVE  LocalOK(LocalStream(route, pc), id, n)
<1>1. Prefix(0) = <<>> /\ Len(<<>>) = 0
  BY DEF Prefix
<1> QED
  BY <1>1 DEF LocalOK, Counts, LocalFields, LocalStream

----------------------------------------------------------------------------
\* What the server's goroutines do to a stream without moving chunks.
LEMMA UpstreamSteps ==
    ASSUME NEW st, NEW id, NEW n \in Nat, UpstreamOK(st, id, n)
    PROVE  /\ UpstreamOK(Shut(st), id, n)
           /\ Shut(st).read = st.read /\ Shut(st).run = st.run
           /\ UpstreamOK([st EXCEPT !.run = "ended"], id, n)
           /\ [st EXCEPT !.run = "ended"].read = st.read
           /\ [st EXCEPT !.run = "ended"].run = "ended"
           /\ st.run = "dialing" =>
                 UpstreamOK([st EXCEPT !.run = "dialed", !.socket = "open"], id, n)
           /\ st.run = "dialed" =>
                 UpstreamOK([st EXCEPT !.run = "looping", !.attached = TRUE,
                                       !.reader = "starting", !.writer = "starting"], id, n)
           /\ st.reader = "starting" => UpstreamOK([st EXCEPT !.reader = "running"], id, n)
           /\ st.writer = "starting" => UpstreamOK([st EXCEPT !.writer = "running"], id, n)
           /\ st.reader /= "none" => UpstreamOK([st EXCEPT !.reader = "ended"], id, n)
           /\ st.writer /= "none" => UpstreamOK([st EXCEPT !.writer = "ended"], id, n)
           /\ \A pc \in {"running", "ended"} :
                 st.reader = "running" =>
                    UpstreamOK([st EXCEPT !.read = @ + 1, !.sendSequence = @ + 1, !.reader = pc],
                               id, n)
BY DEF UpstreamOK, Counts, UpstreamFields, Shut

\* A frame of the stream is queued.
LEMMA UpstreamQueues ==
    ASSUME NEW st, NEW id, NEW n \in Nat, UpstreamOK(st, id, n), NEW f \in Data(id, n)
    PROVE  UpstreamOK([st EXCEPT !.inbound = Append(@, f)], id, n)
<1> DEFINE q == Append(st.inbound, f)
<1>1. q \in Seq(Data(id, n))
  BY QueueKept DEF UpstreamOK, Counts
<1> HIDE DEF q
<1>2. UpstreamOK([st EXCEPT !.inbound = q], id, n)
  BY <1>1 DEF UpstreamOK, Counts, UpstreamFields
<1> QED
  BY <1>2 DEF q

\* The upstream writer takes a frame: it writes its chunk, or ends.
LEMMA UpstreamWrites ==
    ASSUME NEW st, NEW id, NEW n \in Nat, UpstreamOK(st, id, n),
           st.writer = "running", st.inbound /= <<>>
    PROVE  /\ Head(st.inbound).sequence = st.recvSequence =>
                 UpstreamOK([st EXCEPT !.inbound = Tail(@), !.recvSequence = @ + 1,
                                       !.written = Append(@, Head(st.inbound).chunk)], id, n)
           /\ \A k : UpstreamOK([st EXCEPT !.inbound = Tail(@), !.writer = "ended",
                                           !.recvSequence = k], id, n)
<1> DEFINE q == Tail(st.inbound)
           w == Append(st.written, Head(st.inbound).chunk)
           k == st.recvSequence + 1
<1>1. q \in Seq(Data(id, n))
  BY QueueKept DEF UpstreamOK, Counts
<1>2. ASSUME Head(st.inbound).sequence = st.recvSequence
      PROVE  w = Prefix(Len(w)) /\ Len(w) \in 0 .. n /\ k = Len(w)
  BY <1>2, NextChunk DEF UpstreamOK
<1>3. \A j : UpstreamOK([st EXCEPT !.inbound = q, !.writer = "ended", !.recvSequence = j], id, n)
  <2> HIDE DEF q
  <2> QED
    BY <1>1 DEF UpstreamOK, Counts, UpstreamFields
<1>4. ASSUME Head(st.inbound).sequence = st.recvSequence
      PROVE  UpstreamOK([st EXCEPT !.inbound = q, !.recvSequence = k, !.written = w], id, n)
  <2>1. w = Prefix(Len(w)) /\ Len(w) \in 0 .. n /\ k = Len(w)
    BY <1>2, <1>4
  <2> HIDE DEF q, w, k
  <2> QED
    BY <1>1, <2>1 DEF UpstreamOK, Counts, UpstreamFields
<1> QED
  BY <1>3, <1>4

\* A stream that is opened, or was not yet.
LEMMA UpstreamStarts ==
    ASSUME NEW run \in {"none", "dialing"}, NEW id, NEW n \in Nat
    PROVE  UpstreamOK(NewUpstream(run), id, n)
<1>1. Prefix(0) = <<>> /\ Len(<<>>) = 0
  BY DEF Prefix
<1> QED
  BY <1>1 DEF UpstreamOK, Counts, UpstreamFields, NewUpstream

----------------------------------------------------------------------------
(* The invariant *)

\* How many chunks each side has read.
Sent    == [id \in StreamIDs |-> local[id].read]
Replied == [id \in StreamIDs |-> upstream[id].read]

ControlInv ==
    /\ nextStreamID \in 0 .. MaxStreams
    /\ streams \subseteq StreamIDs
    /\ upstreams \subseteq StreamIDs
    /\ overflowed \subseteq StreamIDs
    /\ deliverer \in [Workers -> StreamIDs \cup {0}]
    /\ generation \in [Workers -> 0 .. MaxGeneration]
    /\ accept = [pc |-> accept.pc, route |-> accept.route]
    /\ accept.pc = "routed" => nextStreamID < MaxStreams
    /\ accept.pc = "opening" => nextStreamID \in StreamIDs

StreamsInv ==
    /\ local = [s \in StreamIDs |-> local[s]]
    /\ upstream = [s \in StreamIDs |-> upstream[s]]
    /\ \A id \in StreamIDs :
          /\ LocalOK(local[id], id, upstream[id].read)
          /\ UpstreamOK(upstream[id], id, local[id].read)

ChannelsInv ==
    /\ outbound \in [Routes -> Seq(Sendable(Sent))]
    /\ wire \subseteq Sendable(Sent)
    /\ replies \subseteq Sendable(Replied)

\* A stream whose open frame the accept loop has not queued yet.
Unopened(id) == id > nextStreamID \/ (id = nextStreamID /\ accept.pc = "opening")

\* Where the open frame of a stream waits in the outbound channels.
Queued(id) == {r \in Routes : \E k \in DOMAIN outbound[r] : outbound[r][k] = OpenFrame(id)}

Once(s, f) == \A j, k \in DOMAIN s : s[j] = f /\ s[k] = f => j = k

\* A stream is opened once: its open frame is in one place at most, and in
\* none before the accept loop queues it or after the server has handled it.
OpensInv ==
    \A id \in StreamIDs :
        /\ Unopened(id) =>
              /\ local[id].reader = "none"
              /\ upstream[id].run = "none"
              /\ OpenFrame(id) \notin wire
              /\ Queued(id) = {}
        /\ OpenFrame(id) \in wire => upstream[id].run = "none" /\ Queued(id) = {}
        /\ Queued(id) /= {} => upstream[id].run = "none"
        /\ \A r, q \in Queued(id) : r = q
        /\ \A r \in Routes : Once(outbound[r], OpenFrame(id))

OverlayInv == ControlInv /\ StreamsInv /\ ChannelsInv /\ OpensInv

----------------------------------------------------------------------------
(* What a step leaves of it *)

\* A stream of the client changes, and reads no less than before.
LEMMA LocalChanges ==
    ASSUME OverlayInv, NEW id \in StreamIDs, NEW st, LocalOK(st, id, upstream[id].read),
           st.read >= local[id].read,
           local' = [local EXCEPT ![id] = st], upstream' = upstream
    PROVE  StreamsInv' /\ Sendable(Sent) \subseteq Sendable(Sent') /\ Replied' = Replied
<1>1. \A s \in StreamIDs : /\ local[s].read \in Nat
                           /\ upstream[s].read \in Nat
                           /\ LocalOK(local[s], s, upstream[s].read)
                           /\ UpstreamOK(upstream[s], s, local[s].read)
  BY DEF OverlayInv, StreamsInv, LocalOK, UpstreamOK, Counts
<1>2. local'[id] = st /\ \A s \in StreamIDs \ {id} : local'[s] = local[s]
  BY DEF OverlayInv, StreamsInv
<1>3. local' = [s \in StreamIDs |-> local'[s]]
  BY DEF OverlayInv, StreamsInv
<1>4. \A s \in StreamIDs : local'[s].read \in Nat /\ local[s].read <= local'[s].read
  BY <1>1, <1>2 DEF LocalOK, Counts
<1>5. \A s \in StreamIDs : UpstreamOK(upstream[s], s, local'[s].read)
  BY <1>1, <1>4, CountsGrow DEF UpstreamOK
<1>6. \A s \in StreamIDs : LocalOK(local'[s], s, upstream[s].read)
  BY <1>1, <1>2
<1>7. \A s \in StreamIDs : Sent[s] \in Nat /\ Sent'[s] \in Nat /\ Sent[s] <= Sent'[s]
  BY <1>1, <1>4 DEF Sent
<1>8. Sendable(Sent) \subseteq Sendable(Sent')
  BY <1>7, SendableGrows
<1> QED
  BY <1>3, <1>5, <1>6, <1>8 DEF OverlayInv, StreamsInv, Replied

\* The same for a stream of the server.
LEMMA UpstreamChanges ==
    ASSUME OverlayInv, NEW id \in StreamIDs, NEW st, UpstreamOK(st, id, local[id].read),
           st.read >= upstream[id].read,
           upstream' = [upstream EXCEPT ![id] = st], local' = local
    PROVE  StreamsInv' /\ Sendable(Replied) \subseteq Sendable(Replied') /\ Sent' = Sent
<1>1. \A s \in StreamIDs : /\ local[s].read \in Nat
                           /\ upstream[s].read \in Nat
                           /\ LocalOK(local[s], s, upstream[s].read)
                           /\ UpstreamOK(upstream[s], s, local[s].read)
  BY DEF OverlayInv, StreamsInv, LocalOK, UpstreamOK, Counts
<1>2. upstream'[id] = st /\ \A s \in StreamIDs \ {id} : upstream'[s] = upstream[s]
  BY DEF OverlayInv, StreamsInv
<1>3. upstream' = [s \in StreamIDs |-> upstream'[s]]
  BY DEF OverlayInv, StreamsInv
<1>4. \A s \in StreamIDs : upstream'[s].read \in Nat /\ upstream[s].read <= upstream'[s].read
  BY <1>1, <1>2 DEF UpstreamOK, Counts
<1>5. \A s \in StreamIDs : LocalOK(local[s], s, upstream'[s].read)
  BY <1>1, <1>4, CountsGrow DEF LocalOK
<1>6. \A s \in StreamIDs : UpstreamOK(upstream'[s], s, local[s].read)
  BY <1>1, <1>2
<1>7. \A s \in StreamIDs : Replied[s] \in Nat /\ Replied'[s] \in Nat /\ Replied[s] <= Replied'[s]
  BY <1>1, <1>4 DEF Replied
<1>8. Sendable(Replied) \subseteq Sendable(Replied')
  BY <1>7, SendableGrows
<1> QED
  BY <1>3, <1>5, <1>6, <1>8 DEF OverlayInv, StreamsInv, Sent

\* Frames that could be sent before can be sent still.
LEMMA ChannelsKept ==
    ASSUME ChannelsInv, Sendable(Sent) \subseteq Sendable(Sent'),
           Sendable(Replied) \subseteq Sendable(Replied')
    PROVE  /\ outbound \in [Routes -> Seq(Sendable(Sent'))]
           /\ wire \subseteq Sendable(Sent')
           /\ replies \subseteq Sendable(Replied')
<1>1. \A r \in Routes : outbound[r] \in Seq(Sendable(Sent'))
  BY SeqGrows DEF ChannelsInv
<1> QED
  BY <1>1 DEF ChannelsInv

\* A frame goes to the end of a channel; one that opens no stream leaves the
\* open frames where they are.
LEMMA EnqueueKeeps ==
    ASSUME NEW S, outbound \in [Routes -> Seq(S)], NEW route, NEW f \in S, Enqueue(route, f)
    PROVE  /\ outbound' \in [Routes -> Seq(S)]
           /\ \A r \in Routes : r /= route => outbound'[r] = outbound[r]
           /\ \A r \in Routes :
                 r = route =>
                    /\ DOMAIN outbound'[r] = DOMAIN outbound[r] \cup {Len(outbound[r]) + 1}
                    /\ Len(outbound[r]) + 1 \notin DOMAIN outbound[r]
                    /\ outbound'[r][Len(outbound[r]) + 1] = f
                    /\ \A k \in DOMAIN outbound[r] : outbound'[r][k] = outbound[r][k]
<1>1. ASSUME NEW r \in Routes, r = route
      PROVE  /\ outbound'[r] \in Seq(S)
             /\ DOMAIN outbound'[r] = DOMAIN outbound[r] \cup {Len(outbound[r]) + 1}
             /\ Len(outbound[r]) + 1 \notin DOMAIN outbound[r]
             /\ outbound'[r][Len(outbound[r]) + 1] = f
             /\ \A k \in DOMAIN outbound[r] : outbound'[r][k] = outbound[r][k]
  <2> DEFINE s == outbound[r]
  <2>1. s \in Seq(S) /\ outbound'[r] = Append(s, f)
    BY <1>1 DEF Enqueue
  <2> HIDE DEF s
  <2>2. /\ Append(s, f) \in Seq(S)
        /\ DOMAIN s = 1 .. Len(s)
        /\ DOMAIN Append(s, f) = 1 .. Len(s) + 1
        /\ Len(s) \in Nat
        /\ Append(s, f)[Len(s) + 1] = f
        /\ \A k \in 1 .. Len(s) : Append(s, f)[k] = s[k]
    BY <2>1
  <2>3. 1 .. Len(s) + 1 = (1 .. Len(s)) \cup {Len(s) + 1} /\ Len(s) + 1 \notin 1 .. Len(s)
    BY <2>2
  <2> QED
    BY <2>1, <2>2, <2>3 DEF s
<1>2. \A r \in Routes : r /= route => outbound'[r] = outbound[r]
  BY DEF Enqueue
<1>3. outbound' = [r \in Routes |-> outbound'[r]]
  BY DEF Enqueue
<1>4. \A r \in Routes : outbound'[r] \in Seq(S)
  BY <1>1, <1>2
<1> QED
  BY <1>1, <1>2, <1>3, <1>4

\* A frame that opens no stream is queued.
QueuesFrame ==
    \E route : \E f \in Sendable(Sent') : f.kind /= "open" /\ Enqueue(route, f)

\* No open frame is added, so a stream is opened once as before.
LEMMA OpensKept ==
    ASSUME OpensInv,
           \A id \in StreamIDs : upstream[id].run = "none" => upstream'[id].run = "none",
           \A id \in StreamIDs :
              Unopened(id)' => Unopened(id) /\ (local[id].reader = "none" => local'[id].reader = "none"),
           wire' \subseteq wire,
           outbound \in [Routes -> Seq(Sendable(Sent'))],
           outbound' = outbound \/ QueuesFrame
    PROVE  OpensInv'
<1>1. \A id \in StreamIDs : OpenFrame(id).kind = "open"
  BY DEF OpenFrame, Frame
<1>2. \A id \in StreamIDs, r \in Routes :
        \A k \in DOMAIN outbound'[r] :
           outbound'[r][k] = OpenFrame(id) =>
              k \in DOMAIN outbound[r] /\ outbound[r][k] = OpenFrame(id)
  <2>1. CASE outbound' = outbound
    BY <2>1
  <2>2. ASSUME NEW route, NEW f \in Sendable(Sent'), f.kind /= "open", Enqueue(route, f)
        PROVE  \A id \in StreamIDs, r \in Routes :
                 \A k \in DOMAIN outbound'[r] :
                    outbound'[r][k] = OpenFrame(id) =>
                       k \in DOMAIN outbound[r] /\ outbound[r][k] = OpenFrame(id)
    <3>1. /\ \A r \in Routes : r /= route => outbound'[r] = outbound[r]
          /\ \A r \in Routes :
                r = route =>
                   /\ DOMAIN outbound'[r] = DOMAIN outbound[r] \cup {Len(outbound[r]) + 1}
                   /\ outbound'[r][Len(outbound[r]) + 1] = f
                   /\ \A k \in DOMAIN outbound[r] : outbound'[r][k] = outbound[r][k]
      BY <2>2, EnqueueKeeps
    <3>2. \A id \in StreamIDs : f /= OpenFrame(id)
      BY <1>1, <2>2
    <3> QED
      BY <3>1, <3>2
  <2> QED
    BY <2>1, <2>2 DEF QueuesFrame
<1>3. \A id \in StreamIDs : Queued(id)' \subseteq Queued(id)
  BY <1>2 DEF Queued
<1>4. \A id \in StreamIDs, r \in Routes : Once(outbound'[r], OpenFrame(id))
  BY <1>2 DEF OpensInv, Once
<1> SUFFICES ASSUME NEW id \in StreamIDs
             PROVE  /\ Unopened(id)' =>
                          /\ local'[id].reader = "none"
                          /\ upstream'[id].run = "none"
                          /\ OpenFrame(id) \notin wire'
                          /\ Queued(id)' = {}
                    /\ OpenFrame(id) \in wire' => upstream'[id].run = "none" /\ Queued(id)' = {}
                    /\ Queued(id)' /= {} => upstream'[id].run = "none"
                    /\ \A r, q \in Queued(id)' : r = q
  BY <1>4 DEF OpensInv, OpenFrame, Frame
<1> QED
  BY <1>3 DEF OpensInv

\* A step of the client that changes one stream and queues at most one frame,
\* which opens no stream.
LEMMA ClientKeeps ==
    ASSUME OverlayInv, ControlInv', NEW id \in StreamIDs, NEW st,
           LocalOK(st, id, upstream[id].read), st.read >= local[id].read,
           local' = [local EXCEPT ![id] = st], UNCHANGED <<upstream, replies, wire>>,
           \A s \in StreamIDs : Unopened(s)' => Unopened(s),
           local[id].reader = "none" => st.reader = "none",
           outbound' = outbound \/ QueuesFrame
    PROVE  OverlayInv'
<1>1. StreamsInv' /\ Sendable(Sent) \subseteq Sendable(Sent') /\ Replied' = Replied
  BY LocalChanges
<1>2. /\ outbound \in [Routes -> Seq(Sendable(Sent'))]
      /\ wire \subseteq Sendable(Sent')
      /\ replies \subseteq Sendable(Replied')
  BY <1>1, ChannelsKept DEF OverlayInv
<1>3. outbound' \in [Routes -> Seq(Sendable(Sent'))]
  <2>1. CASE outbound' = outbound
    BY <1>2, <2>1
  <2>2. ASSUME NEW route, NEW f \in Sendable(Sent'), Enqueue(route, f)
        PROVE  outbound' \in [Routes -> Seq(Sendable(Sent'))]
    BY <1>2, <2>2, EnqueueKeeps
  <2> QED
    BY <2>1, <2>2 DEF QueuesFrame
<1>4. ChannelsInv'
  BY <1>2, <1>3 DEF ChannelsInv
<1>5. \A s \in StreamIDs : local[s].reader = "none" => local'[s].reader = "none"
  BY DEF OverlayInv, StreamsInv
<1>6. OpensInv'
  BY <1>2, <1>5, OpensKept DEF OverlayInv
<1> QED
  BY <1>1, <1>4, <1>6 DEF OverlayInv

\* A step of the client that changes no stream's record.
LEMMA ClientIdles ==
    ASSUME OverlayInv, ControlInv', UNCHANGED <<local, upstream, replies, wire, outbound>>,
           \A s \in StreamIDs : Unopened(s)' => Unopened(s)
    PROVE  OverlayInv'
<1>1. StreamsInv' /\ ChannelsInv'
  BY DEF OverlayInv, StreamsInv, ChannelsInv, Sent, Replied
<1>2. \A s \in StreamIDs : Queued(s)' = Queued(s)
  BY DEF Queued
<1>3. OpensInv'
  BY <1>2 DEF OverlayInv, OpensInv
<1> QED
  BY <1>1, <1>3 DEF OverlayInv

\* A step of the server that changes one stream, which it does not open, and
\* sends at most one frame.
LEMMA ServerKeeps ==
    ASSUME OverlayInv, ControlInv', NEW id \in StreamIDs, NEW st,
           UpstreamOK(st, id, local[id].read), st.read >= upstream[id].read,
           upstream' = [upstream EXCEPT ![id] = st], UNCHANGED <<clientVars>>,
           wire' \subseteq wire,
           upstream[id].run = "none" => st.run = "none",
           replies' \subseteq replies \cup Sendable(Replied')
    PROVE  OverlayInv'
<1> USE DEF clientVars
<1>1. StreamsInv' /\ Sendable(Replied) \subseteq Sendable(Replied') /\ Sent' = Sent
  BY UpstreamChanges
<1>2. /\ outbound \in [Routes -> Seq(Sendable(Sent'))]
      /\ wire \subseteq Sendable(Sent')
      /\ replies \subseteq Sendable(Replied')
  BY <1>1, ChannelsKept DEF OverlayInv
<1>3. ChannelsInv'
  BY <1>2 DEF ChannelsInv
<1>4. \A s \in StreamIDs : upstream[s].run = "none" => upstream'[s].run = "none"
  BY DEF OverlayInv, StreamsInv
<1>5. \A s \in StreamIDs : Unopened(s)' => Unopened(s)
  BY DEF Unopened
<1>6. OpensInv'
  BY <1>2, <1>4, <1>5, OpensKept DEF OverlayInv
<1> QED
  BY <1>1, <1>3, <1>6 DEF OverlayInv

\* A step of the server that changes no stream's record and sends nothing.
LEMMA ServerIdles ==
    ASSUME OverlayInv, ControlInv', UNCHANGED <<clientVars, upstream, replies>>,
           wire' \subseteq wire
    PROVE  OverlayInv'
<1> USE DEF clientVars
<1>1. StreamsInv' /\ ChannelsInv'
  BY DEF OverlayInv, StreamsInv, ChannelsInv, Sent, Replied
<1>2. \A s \in StreamIDs : Queued(s)' = Queued(s) /\ Unopened(s)' = Unopened(s)
  BY DEF Queued, Unopened
<1>3. OpensInv'
  BY <1>2 DEF OverlayInv, OpensInv
<1> QED
  BY <1>1, <1>3 DEF OverlayInv

----------------------------------------------------------------------------
(* The steps of the client *)

\* notifyRemoteClose queues a close frame or nothing.
LEMMA NotifyQueues ==
    ASSUME NEW id \in StreamIDs, NotifyRemoteClose(id)
    PROVE  outbound' = outbound \/ QueuesFrame
<1>1. CloseFrame(id) \in Sendable(Sent') /\ CloseFrame(id).kind /= "open"
  BY DEF CloseFrame, Frame, Sendable, AllFrames
<1>2. outbound' = outbound \/ \E route : Enqueue(route, CloseFrame(id))
  BY DEF NotifyRemoteClose
<1> QED
  BY <1>1, <1>2 DEF QueuesFrame

\* The state of the goroutines of a stream is no matter of the accept loop.
LEMMA ControlKept ==
    ASSUME OverlayInv, streams' \subseteq streams,
           UNCHANGED <<nextStreamID, deliverer, generation, accept, upstreams, overflowed>>
    PROVE  ControlInv' /\ \A s \in StreamIDs : Unopened(s)' => Unopened(s)
BY DEF OverlayInv, ControlInv, Unopened

LEMMA ReaderKeeps ==
    ASSUME OverlayInv, NEW id \in StreamIDs, Client(ReaderStep(id))
    PROVE  OverlayInv'
<1> DEFINE st == local[id]
<1>1. LocalOK(st, id, upstream[id].read) /\ upstream[id].read \in Nat /\ st.read \in Nat
  BY DEF OverlayInv, StreamsInv, LocalOK, UpstreamOK, Counts
<1>2. /\ ControlInv' /\ \A s \in StreamIDs : Unopened(s)' => Unopened(s)
      /\ UNCHANGED <<upstream, replies, wire>>
  <2>1. /\ streams' \subseteq streams
        /\ UNCHANGED <<nextStreamID, deliverer, generation, accept>>
        /\ UNCHANGED <<serverVars, wire>>
    BY DEF Client, ReaderStep, ReadChunk, SendChunk, ReadEnds, ReaderCloses, ingressVars,
           workerVars, stopVars, closeStream
  <2> QED
    BY <2>1, ControlKept DEF serverVars
<1>3. CASE ReadChunk(id)
  <2> DEFINE new == [st EXCEPT !.reader = "sending", !.read = @ + 1, !.sendSequence = @ + 1]
  <2>1. st.reader = "running" /\ local' = [local EXCEPT ![id] = new] /\ outbound' = outbound
    BY <1>3 DEF ReadChunk, TakeChunk
  <2>2. LocalOK(new, id, upstream[id].read)
    BY <1>1, <2>1, LocalSteps
  <2>3. new.read >= st.read
    BY <1>1 DEF LocalOK, LocalFields
  <2> HIDE DEF new
  <2> QED
    BY <1>2, <2>1, <2>2, <2>3, ClientKeeps
<1>4. ASSUME NEW pc \in {"running", "notifying", "ended"}, st.reader /= "none", Reader(id, pc),
             outbound' = outbound \/ QueuesFrame
      PROVE  OverlayInv'
  <2> DEFINE new == [st EXCEPT !.reader = pc]
  <2>1. local' = [local EXCEPT ![id] = new]
    BY <1>4 DEF Reader
  <2>2. LocalOK(new, id, upstream[id].read)
    BY <1>1, LocalSteps
  <2>3. new.read >= st.read
    BY <1>1 DEF LocalOK, LocalFields
  <2> HIDE DEF new
  <2> QED
    BY <1>2, <1>4, <2>1, <2>2, <2>3, ClientKeeps
<1>5. CASE SendChunk(id)
  <2>1. st.reader = "sending"
    BY <1>5 DEF SendChunk
  <2>2. CASE ~(\E pc \in {"notifying", "ended"} : Reader(id, pc) /\ outbound' = outbound)
    <3> DEFINE f == Frame("data", id, st.sendSequence - 1, st.read)
    <3>1. Enqueue(st.route, f) /\ Reader(id, "running")
      BY <1>5, <2>2 DEF SendChunk
    <3>2. Sent'[id] = st.read
      <4>1. local' = [local EXCEPT ![id] = [st EXCEPT !.reader = "running"]]
        BY <3>1 DEF Reader
      <4>2. local'[id].read = st.read
        BY <1>1, <4>1 DEF OverlayInv, StreamsInv, LocalOK, LocalFields
      <4> QED
        BY <4>2 DEF Sent
    <3>3. st.read > 0 /\ st.sendSequence = st.read
      BY <1>1, <2>1 DEF LocalOK, Counts
    <3>4. f \in Sendable(Sent') /\ f.kind /= "open"
      BY <1>1, <3>2, <3>3 DEF Frame, Sendable, Data, AllFrames
    <3> HIDE DEF f
    <3>5. QueuesFrame
      BY <3>1, <3>4 DEF QueuesFrame
    <3> QED
      BY <1>4, <2>1, <3>1, <3>5
  <2> QED
    BY <1>4, <2>1, <2>2
<1>6. CASE ReadEnds(id)
  BY <1>4, <1>6 DEF ReadEnds
<1>7. CASE ReaderCloses(id)
  <2> DEFINE new == [st EXCEPT !.reader = "ended", !.notified = TRUE]
  <2>1. st.reader = "notifying" /\ local' = [local EXCEPT ![id] = new]
    BY <1>7 DEF ReaderCloses
  <2>2. outbound' = outbound \/ QueuesFrame
    BY <1>7, NotifyQueues DEF ReaderCloses
  <2>3. LocalOK(new, id, upstream[id].read)
    BY <1>1, LocalSteps
  <2>4. new.read >= st.read
    BY <1>1 DEF LocalOK, LocalFields
  <2> HIDE DEF new
  <2> QED
    BY <1>2, <2>1, <2>2, <2>3, <2>4, ClientKeeps
<1> QED
  BY <1>3, <1>5, <1>6, <1>7 DEF Client, ReaderStep

LEMMA WriterKeeps ==
    ASSUME OverlayInv, NEW id \in StreamIDs, Client(WriterStep(id))
    PROVE  OverlayInv'
<1> DEFINE st == local[id]
<1>1. LocalOK(st, id, upstream[id].read) /\ upstream[id].read \in Nat /\ st.read \in Nat
  BY DEF OverlayInv, StreamsInv, LocalOK, UpstreamOK, Counts
<1>2. /\ ControlInv' /\ \A s \in StreamIDs : Unopened(s)' => Unopened(s)
      /\ UNCHANGED <<upstream, replies, wire>>
  <2>1. /\ streams' \subseteq streams
        /\ UNCHANGED <<nextStreamID, deliverer, generation, accept>>
        /\ UNCHANGED <<serverVars, wire>>
    BY DEF Client, WriterStep, WriteChunk, WriterCloses, WriterStops, ingressVars, workerVars,
           stopVars, closeStream
  <2> QED
    BY <2>1, ControlKept DEF serverVars
<1>3. ASSUME NEW new, LocalOK(new, id, upstream[id].read), new.read = st.read,
             new.reader = st.reader, local' = [local EXCEPT ![id] = new],
             outbound' = outbound \/ QueuesFrame
      PROVE  OverlayInv'
  <2>1. new.read >= st.read
    BY <1>1, <1>3
  <2> QED
    BY <1>2, <1>3, <2>1, ClientKeeps
<1>4. CASE WriteChunk(id)
  <2> DEFINE q == Tail(st.inbound)
             k == st.recvSequence + 1
             w == Append(st.written, Head(st.inbound).chunk)
             j == IF Expected(st, Head(st.inbound)) THEN st.recvSequence + 1 ELSE st.recvSequence
             good == [st EXCEPT !.inbound = q, !.recvSequence = k, !.written = w]
             bad  == [st EXCEPT !.inbound = q, !.writer = "notifying", !.recvSequence = j]
  <2>1. st.writer = "running" /\ st.inbound /= <<>> /\ outbound' = outbound
    BY <1>4 DEF WriteChunk
  <2>2. \/ Head(st.inbound).sequence = st.recvSequence /\ local' = [local EXCEPT ![id] = good]
        \/ local' = [local EXCEPT ![id] = bad]
    BY <1>4 DEF WriteChunk, Expected
  <2>3. /\ Head(st.inbound).sequence = st.recvSequence => LocalOK(good, id, upstream[id].read)
        /\ LocalOK(bad, id, upstream[id].read)
    BY <1>1, <2>1, LocalWrites
  <2> HIDE DEF q, k, w, j
  <2>4. /\ good.read = st.read /\ good.reader = st.reader
        /\ bad.read = st.read /\ bad.reader = st.reader
    BY <1>1 DEF LocalOK, LocalFields
  <2> HIDE DEF good, bad
  <2> QED
    BY <1>3, <2>1, <2>2, <2>3, <2>4
<1>5. CASE WriterCloses(id)
  <2> DEFINE new == [st EXCEPT !.writer = "ended", !.notified = TRUE]
  <2>1. local' = [local EXCEPT ![id] = new]
    BY <1>5 DEF WriterCloses
  <2>2. outbound' = outbound \/ QueuesFrame
    BY <1>5, NotifyQueues DEF WriterCloses
  <2>3. LocalOK(new, id, upstream[id].read)
    BY <1>1, LocalSteps
  <2>4. new.read = st.read /\ new.reader = st.reader
    BY <1>1 DEF LocalOK, LocalFields
  <2> HIDE DEF new
  <2> QED
    BY <1>3, <2>1, <2>2, <2>3, <2>4
<1>6. CASE WriterStops(id)
  <2> DEFINE new == [st EXCEPT !.writer = "ended"]
  <2>1. local' = [local EXCEPT ![id] = new] /\ outbound' = outbound
    BY <1>6 DEF WriterStops, Writer
  <2>2. LocalOK(new, id, upstream[id].read)
    BY <1>1, LocalSteps
  <2>3. new.read = st.read /\ new.reader = st.reader
    BY <1>1 DEF LocalOK, LocalFields
  <2> HIDE DEF new
  <2> QED
    BY <1>3, <2>1, <2>2, <2>3
<1> QED
  BY <1>4, <1>5, <1>6 DEF Client, WriterStep

\* The steps of the worker and of its inbound forwarder.
LEMMA WorkerKeeps ==
    ASSUME OverlayInv, Client(WorkerStep)
    PROVE  OverlayInv'
<1>1. UNCHANGED <<upstreams, upstream, overflowed, replies, wire>>
  BY DEF Client, serverVars
<1>2. CASE WorkerReady(0) \/ WorkerFails(0) \/ RemoveRoute(0) \/ CloseWorkerStreams(0)
  <2>1. UNCHANGED <<local, outbound, deliverer, accept, nextStreamID>> /\ streams' \subseteq streams
    BY <1>2 DEF WorkerReady, WorkerFails, RemoveRoute, CloseWorkerStreams, stopVars
  <2>2. generation' \in [Workers -> 0 .. MaxGeneration]
    <3>1. CASE WorkerReady(0)
      <4>1. 0 \in Workers /\ MaxGeneration = 1 /\ generation \in [Workers -> 0 .. MaxGeneration]
        BY OneWorker DEF OverlayInv, ControlInv
      <4>2. generation[0] < MaxGeneration /\ generation' = [generation EXCEPT ![0] = @ + 1]
        BY <3>1 DEF WorkerReady
      <4>3. generation[0] + 1 \in 0 .. MaxGeneration
        BY <4>1, <4>2
      <4> QED
        BY <4>1, <4>2, <4>3
    <3>2. CASE ~WorkerReady(0)
      BY <1>2, <3>2 DEF WorkerFails, RemoveRoute, CloseWorkerStreams, OverlayInv, ControlInv
    <3> QED
      BY <3>1, <3>2
  <2>3. ControlInv' /\ \A s \in StreamIDs : Unopened(s)' => Unopened(s)
    BY <1>1, <2>1, <2>2 DEF OverlayInv, ControlInv, Unopened
  <2> QED
    BY <1>1, <2>1, <2>3, ClientIdles
<1>3. CASE DelivererCloses(0)
  <2> DEFINE id == deliverer[0]
             new == [local[id] EXCEPT !.notified = TRUE]
  <2>1. id \in StreamIDs
    BY <1>3, OneWorker DEF OverlayInv, ControlInv, DelivererCloses
  <2>2. /\ local' = [local EXCEPT ![id] = new]
        /\ UNCHANGED <<generation, accept, nextStreamID>>
        /\ streams' \subseteq streams
        /\ deliverer' = [deliverer EXCEPT ![0] = 0]
    BY <1>3 DEF DelivererCloses, closeStream, workerVars
  <2>3. outbound' = outbound \/ QueuesFrame
    BY <1>3, <2>1, NotifyQueues DEF DelivererCloses
  <2>4. LocalOK(local[id], id, upstream[id].read) /\ upstream[id].read \in Nat
    BY <2>1 DEF OverlayInv, StreamsInv, UpstreamOK, Counts
  <2>5. LocalOK(new, id, upstream[id].read)
    BY <2>4, LocalSteps
  <2>6. new.read >= local[id].read /\ new.reader = local[id].reader
    BY <2>4 DEF LocalOK, LocalFields, Counts
  <2>7. ControlInv' /\ \A s \in StreamIDs : Unopened(s)' => Unopened(s)
    BY <1>1, <2>2, OneWorker DEF OverlayInv, ControlInv, Unopened
  <2> HIDE DEF id, new
  <2> QED
    BY <1>1, <2>1, <2>2, <2>3, <2>5, <2>6, <2>7, ClientKeeps
<1> QED
  BY <1>2, <1>3 DEF Client, WorkerStep

\* The accept loop gives the next stream its id and opens it.
LEMMA AcceptKeeps ==
    ASSUME OverlayInv, Client(AcceptStep)
    PROVE  OverlayInv'
<1>1. /\ UNCHANGED <<upstreams, upstream, overflowed, replies, wire>>
      /\ UNCHANGED <<deliverer, generation>>
  BY DEF Client, serverVars, AcceptStep, AcceptConn, StoreStream, OpenQueued, OpenRefused,
         workerVars
<1>2. /\ nextStreamID \in 0 .. MaxStreams
      /\ accept = [pc |-> accept.pc, route |-> accept.route]
      /\ MaxStreams \in Nat
  BY StreamsAssumption DEF OverlayInv, ControlInv
<1>3. \A id \in StreamIDs : /\ upstream[id].read \in Nat
                            /\ local[id].reader = "none" => local[id].read = 0
                            /\ Unopened(id) => local[id].reader = "none"
  BY DEF OverlayInv, StreamsInv, UpstreamOK, LocalOK, Counts, OpensInv
<1>4. CASE AcceptConn
  <2>1. /\ UNCHANGED <<streams, local, outbound, nextStreamID>>
        /\ accept' = [pc |-> "routed", route |-> NextRoute(ws)]
        /\ nextStreamID < MaxStreams
    BY <1>4 DEF AcceptConn
  <2>2. ControlInv' /\ \A s \in StreamIDs : Unopened(s)' => Unopened(s)
    BY <1>1, <2>1 DEF OverlayInv, ControlInv, Unopened
  <2> QED
    BY <1>1, <2>1, <2>2, ClientIdles
<1>5. CASE StoreStream
  <2> DEFINE id == nextStreamID + 1
             new == LocalStream(accept.route, "none")
  <2>1. /\ accept.pc = "routed" /\ nextStreamID' = id
        /\ streams' = streams \cup {id}
        /\ local' = [local EXCEPT ![id] = new]
        /\ accept' = [accept EXCEPT !.pc = "opening"]
        /\ outbound' = outbound
    BY <1>5 DEF StoreStream
  <2>2. id \in StreamIDs /\ Unopened(id)
    BY <1>2, <2>1 DEF OverlayInv, ControlInv, StreamIDs, Unopened
  <2>3. accept' = [pc |-> accept'.pc, route |-> accept'.route] /\ accept'.pc = "opening"
    BY <1>2, <2>1
  <2>4. ControlInv' /\ \A s \in StreamIDs : Unopened(s)' => Unopened(s)
    BY <1>1, <1>2, <2>1, <2>2, <2>3 DEF OverlayInv, ControlInv, Unopened, StreamIDs
  <2>5. LocalOK(new, id, upstream[id].read)
    BY <1>3, <2>2, LocalStarts
  <2>6. new.read >= local[id].read /\ new.reader = "none"
    BY <1>3, <2>2 DEF LocalStream
  <2> HIDE DEF id, new
  <2> QED
    BY <1>1, <2>1, <2>2, <2>4, <2>5, <2>6, ClientKeeps
<1>6. CASE OpenQueued
  <2> PICK id \in StreamIDs : id = nextStreamID
    BY <1>6 DEF OpenQueued, OverlayInv, ControlInv
  <2> PICK r0 : r0 = accept.route
    OBVIOUS
  <2> DEFINE new == LocalStream(r0, "running")
             f == OpenFrame(id)
  <2>1. /\ accept.pc = "opening" /\ UNCHANGED <<nextStreamID, streams>>
        /\ local' = [local EXCEPT ![id] = new]
        /\ accept' = [accept EXCEPT !.pc = "accept"]
        /\ Enqueue(r0, f)
    BY <1>6 DEF OpenQueued
  <2>2. id \in StreamIDs /\ Unopened(id)
    BY <1>2, <2>1 DEF OverlayInv, ControlInv, Unopened
  <2>3. accept' = [pc |-> accept'.pc, route |-> accept'.route] /\ accept'.pc = "accept"
    BY <1>2, <2>1
  <2>4. ControlInv' /\ \A s \in StreamIDs : Unopened(s)' => Unopened(s) /\ s /= id
    BY <1>1, <1>2, <2>1, <2>2, <2>3 DEF OverlayInv, ControlInv, Unopened, StreamIDs
  <2>5. LocalOK(new, id, upstream[id].read)
    BY <1>3, <2>2, LocalStarts
  <2>6. new.read >= local[id].read
    BY <1>3, <2>2 DEF LocalStream
  <2>7. StreamsInv' /\ Sendable(Sent) \subseteq Sendable(Sent') /\ Replied' = Replied
    <3> HIDE DEF new
    <3> QED
      BY <1>1, <2>1, <2>2, <2>5, <2>6, LocalChanges
  <2>8. /\ outbound \in [Routes -> Seq(Sendable(Sent'))]
        /\ wire \subseteq Sendable(Sent')
        /\ replies \subseteq Sendable(Replied')
    BY <2>7, ChannelsKept DEF OverlayInv
  <2>9. f \in Sendable(Sent')
    BY <2>2 DEF OpenFrame, Frame, Sendable, AllFrames
  <2>10. /\ outbound' \in [Routes -> Seq(Sendable(Sent'))]
         /\ \A r \in Routes : r /= r0 => outbound'[r] = outbound[r]
         /\ \A r \in Routes :
               r = r0 =>
                  /\ DOMAIN outbound'[r] = DOMAIN outbound[r] \cup {Len(outbound[r]) + 1}
                  /\ outbound'[r][Len(outbound[r]) + 1] = f
                  /\ \A k \in DOMAIN outbound[r] : outbound'[r][k] = outbound[r][k]
    <3> HIDE DEF f
    <3> QED
      BY <2>1, <2>8, <2>9, EnqueueKeeps
  <2>11. ChannelsInv'
    BY <1>1, <2>8, <2>10 DEF ChannelsInv
  <2>12. ASSUME NEW s \in StreamIDs, NEW r \in Routes, NEW k \in DOMAIN outbound'[r],
                outbound'[r][k] = OpenFrame(s)
         PROVE  \/ k \in DOMAIN outbound[r] /\ outbound[r][k] = OpenFrame(s)
                \/ s = id /\ r = r0 /\ k = Len(outbound[r]) + 1
    <3>1. f = OpenFrame(s) => s = id
      BY DEF OpenFrame, Frame
    <3> HIDE DEF f
    <3> QED
      BY <2>10, <2>12, <3>1
  <2>13. ASSUME NEW s \in StreamIDs, s /= id
         PROVE  Queued(s)' \subseteq Queued(s) /\ \A r \in Routes : Once(outbound'[r], OpenFrame(s))
    BY <2>12, <2>13 DEF Queued, OverlayInv, OpensInv, Once
  <2>14. /\ OpenFrame(id) \notin wire /\ upstream[id].run = "none"
         /\ \A r \in Routes : \A k \in DOMAIN outbound[r] : outbound[r][k] /= OpenFrame(id)
    BY <2>2 DEF OverlayInv, OpensInv, Queued
  <2>15. /\ Queued(id)' \subseteq {r0}
         /\ \A r \in Routes : Once(outbound'[r], OpenFrame(id))
    BY <2>2, <2>12, <2>14 DEF Queued, Once
  <2>16. \A s \in StreamIDs : s /= id => local'[s] = local[s]
    BY <2>1 DEF OverlayInv, StreamsInv
  <2>17. ASSUME NEW s \in StreamIDs
         PROVE  /\ Unopened(s)' =>
                      /\ local'[s].reader = "none"
                      /\ upstream'[s].run = "none"
                      /\ OpenFrame(s) \notin wire'
                      /\ Queued(s)' = {}
                /\ OpenFrame(s) \in wire' => upstream'[s].run = "none" /\ Queued(s)' = {}
                /\ Queued(s)' /= {} => upstream'[s].run = "none"
                /\ \A r, q \in Queued(s)' : r = q
                /\ \A r \in Routes : Once(outbound'[r], OpenFrame(s))
    <3>1. CASE s = id
      BY <1>1, <2>4, <2>14, <2>15, <3>1
    <3>2. CASE s /= id
      BY <1>1, <2>4, <2>13, <2>16, <3>2 DEF OverlayInv, OpensInv
    <3> QED
      BY <3>1, <3>2
  <2>18. OpensInv'
    BY <2>17 DEF OpensInv, OpenFrame, Frame
  <2> QED
    BY <2>4, <2>7, <2>11, <2>18 DEF OverlayInv
<1>7. CASE OpenRefused
  <2>1. /\ UNCHANGED <<local, outbound, nextStreamID>>
        /\ accept' = [accept EXCEPT !.pc = "accept"]
        /\ streams' \subseteq streams
    BY <1>7 DEF OpenRefused, closeStream
  <2>2. accept' = [pc |-> accept'.pc, route |-> accept'.route] /\ accept'.pc = "accept"
    BY <1>2, <2>1
  <2>3. ControlInv' /\ \A s \in StreamIDs : Unopened(s)' => Unopened(s)
    BY <1>1, <2>1, <2>2 DEF OverlayInv, ControlInv, Unopened
  <2> QED
    BY <1>1, <2>1, <2>3, ClientIdles
<1> QED
  BY <1>4, <1>5, <1>6, <1>7 DEF Client, AcceptStep

----------------------------------------------------------------------------
(* The connection between the two *)

LEMMA TailShifts ==
    ASSUME NEW S, NEW s \in Seq(S), s /= <<>>
    PROVE  /\ Tail(s) \in Seq(S)
           /\ Head(s) \in S
           /\ 1 \in DOMAIN s /\ Head(s) = s[1]
           /\ \A k \in DOMAIN Tail(s) :
                 k + 1 \in DOMAIN s /\ k + 1 /= 1 /\ Tail(s)[k] = s[k + 1]
           /\ \A j, k \in DOMAIN Tail(s) : j + 1 = k + 1 => j = k
<1>1. DOMAIN s = 1 .. Len(s) /\ Len(s) \in Nat /\ Len(s) > 0
  OBVIOUS
<1>2. Tail(s) \in Seq(S) /\ DOMAIN Tail(s) = 1 .. Len(s) - 1
  BY <1>1
<1>3. \A k \in 1 .. Len(s) - 1 : Tail(s)[k] = s[k + 1]
  BY <1>1
<1>4. Head(s) \in S /\ Head(s) = s[1]
  BY <1>1
<1> QED
  BY <1>1, <1>2, <1>3, <1>4

\* A frame goes from the outbound channel to the wire.
LEMMA TransmitKeeps ==
    ASSUME OverlayInv, Transmit
    PROVE  OverlayInv'
<1> PICK r0 : r0 = Route(0, generation[0])
  OBVIOUS
<1> PICK h : h = Head(outbound[r0])
  OBVIOUS
<1>1. r0 \in Routes
  BY OneWorker DEF OverlayInv, ControlInv, Routes, Route
<1>2. /\ outbound[r0] /= <<>>
      /\ outbound' = [outbound EXCEPT ![r0] = Tail(outbound[r0])]
      /\ wire' = wire \cup {h}
      /\ UNCHANGED <<generation, deliverer, accept, nextStreamID, streams, local>>
      /\ UNCHANGED <<upstreams, upstream, overflowed, replies>>
  BY DEF Transmit, TransmitFrame, ingressVars, workerVars, serverVars
<1>3. ControlInv' /\ StreamsInv' /\ Sent' = Sent /\ Replied' = Replied
      /\ \A s \in StreamIDs : Unopened(s)' = Unopened(s)
  BY <1>2 DEF OverlayInv, ControlInv, StreamsInv, Sent, Replied, Unopened
<1>4. outbound \in [Routes -> Seq(Sendable(Sent))]
  BY DEF OverlayInv, ChannelsInv
<1>5. /\ Tail(outbound[r0]) \in Seq(Sendable(Sent))
      /\ h \in Sendable(Sent)
      /\ 1 \in DOMAIN outbound[r0] /\ h = outbound[r0][1]
      /\ \A k \in DOMAIN Tail(outbound[r0]) :
            k + 1 \in DOMAIN outbound[r0] /\ k + 1 /= 1
               /\ Tail(outbound[r0])[k] = outbound[r0][k + 1]
      /\ \A j, k \in DOMAIN Tail(outbound[r0]) : j + 1 = k + 1 => j = k
  <2>1. outbound[r0] \in Seq(Sendable(Sent))
    BY <1>1, <1>4
  <2> QED
    BY <1>2, <2>1, TailShifts
<1> DEFINE t == Tail(outbound[r0])
<1>6. outbound'[r0] = t /\ \A r \in Routes : r /= r0 => outbound'[r] = outbound[r]
  BY <1>1, <1>2, <1>4
<1>7. ChannelsInv'
  <2>1. outbound' \in [Routes -> Seq(Sendable(Sent))]
    <3>1. t \in Seq(Sendable(Sent)) /\ outbound' = [outbound EXCEPT ![r0] = t]
      BY <1>2, <1>5
    <3> HIDE DEF t
    <3> QED
      BY <1>4, <3>1
  <2> QED
    BY <1>2, <1>3, <1>5, <2>1 DEF OverlayInv, ChannelsInv
<1>8. t = Tail(outbound[r0])
  OBVIOUS
<1> HIDE DEF t
<1>9. ASSUME NEW s \in StreamIDs
      PROVE  /\ Queued(s)' \subseteq Queued(s)
             /\ h = OpenFrame(s) => r0 \in Queued(s) /\ r0 \notin Queued(s)'
             /\ \A r \in Routes : Once(outbound'[r], OpenFrame(s))
  <2>1. \A r \in Routes : Once(outbound[r], OpenFrame(s))
    BY DEF OverlayInv, OpensInv
  <2>2. \A k \in DOMAIN t : t[k] = OpenFrame(s) =>
           k + 1 \in DOMAIN outbound[r0] /\ outbound[r0][k + 1] = OpenFrame(s)
    BY <1>5, <1>8
  <2>3. Queued(s)' \subseteq Queued(s)
    BY <1>6, <2>2 DEF Queued
  <2>4. ASSUME h = OpenFrame(s)
        PROVE  r0 \in Queued(s) /\ r0 \notin Queued(s)'
    <3>1. r0 \in Queued(s)
      BY <1>1, <1>5, <2>4 DEF Queued
    <3>2. ASSUME NEW k \in DOMAIN t, t[k] = OpenFrame(s)
          PROVE  FALSE
      BY <1>1, <1>5, <1>8, <2>1, <2>2, <2>4, <3>2 DEF Once
    <3> QED
      BY <1>6, <3>1, <3>2 DEF Queued
  <2>5. Once(t, OpenFrame(s))
    BY <1>1, <1>5, <1>8, <2>1, <2>2 DEF Once
  <2> QED
    BY <1>6, <2>1, <2>3, <2>4, <2>5
<1>10. ASSUME NEW s \in StreamIDs
       PROVE  /\ Unopened(s)' =>
                    /\ local'[s].reader = "none"
                    /\ upstream'[s].run = "none"
                    /\ OpenFrame(s) \notin wire'
                    /\ Queued(s)' = {}
              /\ OpenFrame(s) \in wire' => upstream'[s].run = "none" /\ Queued(s)' = {}
              /\ Queued(s)' /= {} => upstream'[s].run = "none"
              /\ \A r, q \in Queued(s)' : r = q
  BY <1>2, <1>3, <1>9 DEF OverlayInv, OpensInv
<1>11. OpensInv'
  BY <1>9, <1>10 DEF OpensInv, OpenFrame, Frame
<1> QED
  BY <1>3, <1>7, <1>11 DEF OverlayInv

\* A frame of the server is delivered.
LEMMA ReplyKeeps ==
    ASSUME OverlayInv, NEW frame \in replies, ReplyArrives(frame)
    PROVE  OverlayInv'
<1>1. /\ replies' \subseteq replies
      /\ UNCHANGED <<upstreams, upstream, overflowed, wire>>
      /\ UNCHANGED <<outbound, accept, nextStreamID, generation>>
      /\ streams' \subseteq streams
  BY DEF ReplyArrives, DeliverData, DeliverClose, closeStream, ingressVars, workerVars
<1>2. frame \in Sendable(Replied) /\ frame.id \in StreamIDs
  BY DEF OverlayInv, ChannelsInv, Sendable, AllFrames
<1> PICK id \in StreamIDs : id = frame.id
  BY <1>2
<1>3. ASSUME NEW new, LocalOK(new, id, upstream[id].read), new.read = local[id].read,
             new.reader = local[id].reader, local' = [local EXCEPT ![id] = new],
             ControlInv'
      PROVE  OverlayInv'
  <2>1. new.read >= local[id].read
    BY <1>3 DEF LocalOK, Counts
  <2>2. StreamsInv' /\ Sendable(Sent) \subseteq Sendable(Sent') /\ Replied' = Replied
    BY <1>1, <1>3, <2>1, LocalChanges
  <2>3. ChannelsInv'
    BY <1>1, <2>2, ChannelsKept DEF OverlayInv, ChannelsInv
  <2>4. \A s \in StreamIDs : local'[s].reader = local[s].reader
    BY <1>3 DEF OverlayInv, StreamsInv
  <2>5. \A s \in StreamIDs : Unopened(s)' => Unopened(s)
    BY <1>1 DEF Unopened
  <2>6. OpensInv'
    BY <1>1, <2>3, <2>4, <2>5, OpensKept DEF OverlayInv, ChannelsInv
  <2> QED
    BY <1>3, <2>2, <2>3, <2>6 DEF OverlayInv
<1>4. LocalOK(local[id], id, upstream[id].read) /\ upstream[id].read \in Nat
  BY DEF OverlayInv, StreamsInv, UpstreamOK, Counts
<1>5. CASE local' = local
  <2>1. ControlInv'
    <3>1. deliverer' \in [Workers -> StreamIDs \cup {0}]
      BY <1>2, OneWorker DEF ReplyArrives, DeliverData, DeliverClose, ingressVars,
         OverlayInv, ControlInv
    <3> QED
      BY <1>1, <3>1 DEF OverlayInv, ControlInv
  <2>2. local' = [local EXCEPT ![id] = local[id]]
    BY <1>5 DEF OverlayInv, StreamsInv
  <2> QED
    BY <1>3, <1>4, <2>1, <2>2
<1>6. CASE local' /= local
  <2> DEFINE new == [local[id] EXCEPT !.inbound = Append(@, frame)]
  <2>1. /\ frame.kind = "data"
        /\ local' = [local EXCEPT ![id] = new]
        /\ deliverer' = deliverer
    BY <1>6 DEF ReplyArrives, DeliverData, DeliverClose
  <2>2. frame \in Data(id, upstream[id].read)
    BY <1>2, <2>1 DEF Sendable, Replied
  <2>3. LocalOK(new, id, upstream[id].read)
    BY <1>4, <2>2, LocalQueues
  <2>4. new.read = local[id].read /\ new.reader = local[id].reader
    BY <1>4 DEF LocalOK, LocalFields
  <2>5. ControlInv'
    BY <1>1, <2>1 DEF OverlayInv, ControlInv
  <2> HIDE DEF new
  <2> QED
    BY <1>3, <2>1, <2>3, <2>4, <2>5
<1> QED
  BY <1>5, <1>6

----------------------------------------------------------------------------
(* The steps of the server *)

\* closeStream, for a caller that leaves the record as st.
LEMMA CloseKeeps ==
    ASSUME OverlayInv, ControlInv', NEW id \in StreamIDs, NEW notify \in BOOLEAN, NEW st,
           UpstreamOK(st, id, local[id].read), st.read = upstream[id].read,
           upstream[id].run = "none" => st.run = "none",
           closeUpstream(id, notify, st), UNCHANGED <<clientVars>>, wire' \subseteq wire
    PROVE  OverlayInv'
<1> DEFINE new == IF id \in upstreams THEN Shut(st) ELSE st
<1>1. upstream' = [upstream EXCEPT ![id] = new]
  BY DEF closeUpstream
<1>2. local[id].read \in Nat /\ upstream[id].read \in Nat
  BY DEF OverlayInv, StreamsInv, LocalOK, UpstreamOK, Counts
<1>3. UpstreamOK(new, id, local[id].read) /\ new.read = st.read /\ new.run = st.run
  BY <1>2, UpstreamSteps
<1>4. replies' \subseteq replies \cup Sendable(Replied')
  <2>1. CloseFrame(id) \in Sendable(Replied')
    BY DEF CloseFrame, Frame, Sendable, AllFrames
  <2>2. replies' \subseteq replies \cup {CloseFrame(id)}
    BY DEF closeUpstream, WriteFrame
  <2> QED
    BY <2>1, <2>2
<1> HIDE DEF new
<1>5. new.read >= upstream[id].read
  BY <1>2, <1>3
<1> QED
  BY <1>1, <1>3, <1>4, <1>5, ServerKeeps

\* A frame of the client is handled.
LEMMA FrameKeeps ==
    ASSUME OverlayInv, NEW frame \in wire, FrameArrives(frame)
    PROVE  OverlayInv'
<1>1. UNCHANGED <<clientVars>> /\ wire' = wire \ {frame}
  BY DEF FrameArrives
<1>2. frame \in Sendable(Sent) /\ frame.id \in StreamIDs /\ frame.kind \in {"open", "data", "close"}
  BY DEF OverlayInv, ChannelsInv, Sendable, AllFrames
<1> PICK id \in StreamIDs : id = frame.id
  BY <1>2
<1>3. /\ UpstreamOK(upstream[id], id, local[id].read)
      /\ local[id].read \in Nat /\ upstream[id].read \in Nat
  BY DEF OverlayInv, StreamsInv, LocalOK, UpstreamOK, Counts
<1>4. ASSUME upstreams' \subseteq upstreams \cup {id}, overflowed' \subseteq overflowed \cup {id}
      PROVE  ControlInv'
  BY <1>1, <1>4 DEF OverlayInv, ControlInv, clientVars
<1>5. CASE frame.kind = "data"
  <2>1. DataForUpstream(frame)
    BY <1>5 DEF FrameArrives
  <2>2. ControlInv'
    BY <1>4, <2>1 DEF DataForUpstream
  <2>3. CASE upstream' = upstream
    BY <1>1, <2>1, <2>2, <2>3, ServerIdles DEF DataForUpstream
  <2>4. CASE upstream' /= upstream
    <3> DEFINE new == [upstream[id] EXCEPT !.inbound = Append(@, frame)]
    <3>1. upstream' = [upstream EXCEPT ![id] = new] /\ replies' = replies
      BY <2>1, <2>4 DEF DataForUpstream
    <3>2. frame \in Data(id, local[id].read)
      BY <1>2, <1>5 DEF Sendable, Sent
    <3>3. UpstreamOK(new, id, local[id].read)
      BY <1>3, <3>2, UpstreamQueues
    <3>4. new.read >= upstream[id].read /\ new.run = upstream[id].run
      BY <1>3 DEF UpstreamOK, UpstreamFields
    <3> HIDE DEF new
    <3> QED
      BY <1>1, <2>2, <3>1, <3>3, <3>4, ServerKeeps
  <2> QED
    BY <2>3, <2>4
<1>6. CASE frame.kind = "close"
  <2>1. CloseForUpstream(id)
    BY <1>6 DEF FrameArrives
  <2>2. ControlInv'
    BY <1>4, <2>1 DEF CloseForUpstream, closeUpstream
  <2> QED
    BY <1>1, <1>3, <2>1, <2>2, CloseKeeps DEF CloseForUpstream
<1>7. CASE frame.kind = "open"
  <2>1. OpenUpstream(id) /\ frame = OpenFrame(id)
    BY <1>2, <1>7 DEF FrameArrives, Sendable
  <2>2. ControlInv'
    BY <1>4, <2>1 DEF OpenUpstream
  <2>3. CASE id \in upstreams
    BY <1>1, <2>1, <2>2, <2>3, ServerIdles DEF OpenUpstream
  <2>4. CASE id \notin upstreams
    <3> DEFINE new == NewUpstream("dialing")
    <3>1. upstream' = [upstream EXCEPT ![id] = new] /\ replies' = replies
      BY <2>1, <2>4 DEF OpenUpstream
    <3>2. OpenFrame(id) \in wire
      BY <2>1
    <3>3. upstream[id].run = "none" /\ Queued(id) = {} /\ ~Unopened(id)
      BY <3>2 DEF OverlayInv, OpensInv
    <3>4. UpstreamOK(new, id, local[id].read)
      BY <1>3, UpstreamStarts
    <3>5. new.read >= upstream[id].read
      BY <1>3, <3>3 DEF UpstreamOK, NewUpstream
    <3> HIDE DEF new
    <3>6. StreamsInv' /\ Sendable(Replied) \subseteq Sendable(Replied') /\ Sent' = Sent
      BY <1>1, <3>1, <3>4, <3>5, UpstreamChanges DEF clientVars
    <3>7. ChannelsInv'
      BY <1>1, <3>1, <3>6, ChannelsKept DEF OverlayInv, ChannelsInv, clientVars
    <3>8. \A s \in StreamIDs : s /= id => upstream'[s] = upstream[s]
      BY <3>1 DEF OverlayInv, StreamsInv
    <3>9. \A s \in StreamIDs : Queued(s)' = Queued(s) /\ Unopened(s)' = Unopened(s)
      BY <1>1 DEF Queued, Unopened, clientVars
    <3>10. ASSUME NEW s \in StreamIDs
           PROVE  /\ Unopened(s)' =>
                        /\ local'[s].reader = "none"
                        /\ upstream'[s].run = "none"
                        /\ OpenFrame(s) \notin wire'
                        /\ Queued(s)' = {}
                  /\ OpenFrame(s) \in wire' => upstream'[s].run = "none" /\ Queued(s)' = {}
                  /\ Queued(s)' /= {} => upstream'[s].run = "none"
                  /\ \A r, q \in Queued(s)' : r = q
                  /\ \A r \in Routes : Once(outbound'[r], OpenFrame(s))
      <4>1. local' = local /\ outbound' = outbound
        BY <1>1 DEF clientVars
      <4>2. CASE s = id
        BY <1>1, <2>1, <3>3, <3>9, <4>1, <4>2 DEF OverlayInv, OpensInv
      <4>3. CASE s /= id
        BY <1>1, <3>8, <3>9, <4>1, <4>3 DEF OverlayInv, OpensInv
      <4> QED
        BY <4>2, <4>3
    <3>11. OpensInv'
      BY <3>10 DEF OpensInv, OpenFrame, Frame
    <3> QED
      BY <2>2, <3>6, <3>7, <3>11 DEF OverlayInv
  <2> QED
    BY <2>3, <2>4
<1> QED
  BY <1>2, <1>5, <1>6, <1>7

\* runStream and a goroutine of queueInboundFrame.
LEMMA RunKeeps ==
    ASSUME OverlayInv, NEW id \in StreamIDs, Server(OverflowCloses(id)) \/ Server(RunStep(id))
    PROVE  OverlayInv'
<1> DEFINE st == upstream[id]
<1>1. UNCHANGED <<clientVars>> /\ wire' = wire
  BY DEF Server
<1>2. UpstreamOK(st, id, local[id].read) /\ local[id].read \in Nat /\ st.read \in Nat
  BY DEF OverlayInv, StreamsInv, LocalOK, UpstreamOK, Counts
<1>3. ControlInv'
  <2>1. upstreams' \subseteq upstreams /\ overflowed' \subseteq overflowed
    BY DEF Server, OverflowCloses, RunStep, DialSucceeds, DialFails, SetConn, FinishStream,
           closeUpstream
  <2> QED
    BY <1>1, <2>1 DEF OverlayInv, ControlInv, clientVars
<1>4. CASE OverflowCloses(id)
  BY <1>1, <1>2, <1>3, <1>4, CloseKeeps DEF OverflowCloses
<1>5. CASE DialFails(id) \/ FinishStream(id)
  <2> DEFINE new == [st EXCEPT !.run = "ended"]
  <2>1. closeUpstream(id, TRUE, new) /\ st.run \in {"dialing", "looping"}
    BY <1>5 DEF DialFails, FinishStream
  <2>2. UpstreamOK(new, id, local[id].read) /\ new.read = st.read
    BY <1>2, UpstreamSteps
  <2> HIDE DEF new
  <2> QED
    BY <1>1, <1>3, <2>1, <2>2, CloseKeeps
<1>6. ASSUME NEW new, UpstreamOK(new, id, local[id].read), new.read = st.read,
             st.run /= "none", upstream' = [upstream EXCEPT ![id] = new], replies' = replies
      PROVE  OverlayInv'
  <2>1. new.read >= st.read
    BY <1>2, <1>6
  <2> QED
    BY <1>1, <1>3, <1>6, <2>1, ServerKeeps
<1>7. CASE DialSucceeds(id)
  <2> DEFINE new == [st EXCEPT !.run = "dialed", !.socket = "open"]
  <2>1. /\ st.run = "dialing" /\ replies' = replies
        /\ upstream' = [upstream EXCEPT ![id] = new]
    BY <1>7 DEF DialSucceeds
  <2>2. UpstreamOK(new, id, local[id].read)
    BY <1>2, <2>1, UpstreamSteps
  <2>3. new.read = st.read
    BY <1>2 DEF UpstreamOK, UpstreamFields
  <2> HIDE DEF new
  <2> QED
    BY <1>6, <2>1, <2>2, <2>3
<1>8. CASE SetConn(id)
  <2> DEFINE new == [st EXCEPT !.run = "looping", !.attached = TRUE,
                               !.reader = "starting", !.writer = "starting"]
  <2>1. /\ st.run = "dialed" /\ replies' = replies
        /\ upstream' = [upstream EXCEPT ![id] = new]
    BY <1>8 DEF SetConn
  <2>2. UpstreamOK(new, id, local[id].read)
    BY <1>2, <2>1, UpstreamSteps
  <2>3. new.read = st.read
    BY <1>2 DEF UpstreamOK, UpstreamFields
  <2> HIDE DEF new
  <2> QED
    BY <1>6, <2>1, <2>2, <2>3
<1> QED
  BY <1>4, <1>5, <1>7, <1>8 DEF Server, RunStep

\* The goroutines below runStream.
LEMMA LoopsKeep ==
    ASSUME OverlayInv, NEW id \in StreamIDs,
           Server(UpReaderStep(id)) \/ Server(UpWriterStep(id))
    PROVE  OverlayInv'
<1> DEFINE st == upstream[id]
<1>1. UNCHANGED <<clientVars>> /\ wire' = wire
  BY DEF Server
<1>2. UpstreamOK(st, id, local[id].read) /\ local[id].read \in Nat /\ st.read \in Nat
  BY DEF OverlayInv, StreamsInv, LocalOK, UpstreamOK, Counts
<1>3. ControlInv'
  <2>1. upstreams' = upstreams /\ overflowed' = overflowed
    BY DEF Server, UpReaderStep, UpWriterStep, LoadConn, ReplyChunk, UpstreamEnds, ForwardChunk,
           UpstreamWriterStops
  <2> QED
    BY <1>1, <2>1 DEF OverlayInv, ControlInv, clientVars
<1>4. ASSUME NEW new, UpstreamOK(new, id, local[id].read), new.read = st.read,
             new.run = st.run, upstream' = [upstream EXCEPT ![id] = new], replies' = replies
      PROVE  OverlayInv'
  <2>1. new.read >= st.read
    BY <1>2, <1>4
  <2> QED
    BY <1>1, <1>3, <1>4, <2>1, ServerKeeps
<1>5. CASE LoadConn(id, "reader") \/ UpstreamEnds(id)
  <2> PICK pc \in {"running", "ended"} :
        /\ upstream' = [upstream EXCEPT ![id] = [st EXCEPT !.reader = pc]]
        /\ st.reader = "starting" \/ (st.reader = "running" /\ pc = "ended")
    BY <1>5 DEF LoadConn, UpstreamEnds
  <2> DEFINE new == [st EXCEPT !.reader = pc]
  <2>1. replies' = replies
    BY <1>5 DEF LoadConn, UpstreamEnds
  <2>2. UpstreamOK(new, id, local[id].read)
    BY <1>2, <2>1, UpstreamSteps
  <2>3. new.read = st.read /\ new.run = st.run
    BY <1>2 DEF UpstreamOK, UpstreamFields
  <2> HIDE DEF new
  <2>4. upstream' = [upstream EXCEPT ![id] = new]
    BY DEF new
  <2> QED
    BY <1>4, <2>1, <2>2, <2>3, <2>4
<1>6. CASE LoadConn(id, "writer") \/ UpstreamWriterStops(id)
  <2> PICK pc \in {"running", "ended"} :
        /\ upstream' = [upstream EXCEPT ![id] = [st EXCEPT !.writer = pc]]
        /\ st.writer = "starting" \/ (st.writer = "running" /\ pc = "ended")
    BY <1>6 DEF LoadConn, UpstreamWriterStops
  <2> DEFINE new == [st EXCEPT !.writer = pc]
  <2>1. replies' = replies
    BY <1>6 DEF LoadConn, UpstreamWriterStops
  <2>2. UpstreamOK(new, id, local[id].read)
    BY <1>2, <2>1, UpstreamSteps
  <2>3. new.read = st.read /\ new.run = st.run
    BY <1>2 DEF UpstreamOK, UpstreamFields
  <2> HIDE DEF new
  <2>4. upstream' = [upstream EXCEPT ![id] = new]
    BY DEF new
  <2> QED
    BY <1>4, <2>1, <2>2, <2>3, <2>4
<1>7. CASE ReplyChunk(id)
  <2> PICK pc \in {"running", "ended"} :
        upstream' = [upstream EXCEPT ![id] =
                        [st EXCEPT !.read = @ + 1, !.sendSequence = @ + 1, !.reader = pc]]
    BY <1>7 DEF ReplyChunk
  <2> DEFINE new == [st EXCEPT !.read = @ + 1, !.sendSequence = @ + 1, !.reader = pc]
             f == Frame("data", id, st.sendSequence, st.read + 1)
  <2>1. st.reader = "running" /\ WriteFrame(f) /\ upstream' = [upstream EXCEPT ![id] = new]
    BY <1>7 DEF ReplyChunk
  <2>2. UpstreamOK(new, id, local[id].read)
    BY <1>2, <2>1, UpstreamSteps
  <2>3. new.read = st.read + 1 /\ new.run = st.run /\ st.sendSequence = st.read
    BY <1>2 DEF UpstreamOK, UpstreamFields, Counts
  <2> HIDE DEF new
  <2>4. Replied'[id] = st.read + 1
    BY <2>1, <2>3 DEF OverlayInv, StreamsInv, Replied
  <2>5. f \in Sendable(Replied')
    BY <1>2, <2>3, <2>4 DEF Frame, Sendable, Data, AllFrames
  <2>6. replies' \subseteq replies \cup Sendable(Replied')
    BY <2>1, <2>5 DEF WriteFrame
  <2>7. new.read >= st.read
    BY <1>2, <2>3
  <2> QED
    BY <1>1, <1>3, <2>1, <2>2, <2>3, <2>6, <2>7, ServerKeeps
<1>8. CASE ForwardChunk(id)
  <2> DEFINE q == Tail(st.inbound)
             k == st.recvSequence + 1
             w == Append(st.written, Head(st.inbound).chunk)
             j == IF InSequence(st, Head(st.inbound)) THEN st.recvSequence + 1 ELSE st.recvSequence
             good == [st EXCEPT !.inbound = q, !.recvSequence = k, !.written = w]
             bad  == [st EXCEPT !.inbound = q, !.writer = "ended", !.recvSequence = j]
  <2>1. st.writer = "running" /\ st.inbound /= <<>> /\ replies' = replies
    BY <1>8 DEF ForwardChunk
  <2>2. \/ Head(st.inbound).sequence = st.recvSequence /\ upstream' = [upstream EXCEPT ![id] = good]
        \/ upstream' = [upstream EXCEPT ![id] = bad]
    BY <1>8 DEF ForwardChunk, InSequence
  <2>3. /\ Head(st.inbound).sequence = st.recvSequence => UpstreamOK(good, id, local[id].read)
        /\ UpstreamOK(bad, id, local[id].read)
    BY <1>2, <2>1, UpstreamWrites
  <2> HIDE DEF q, k, w, j
  <2>4. /\ good.read = st.read /\ good.run = st.run
        /\ bad.read = st.read /\ bad.run = st.run
    BY <1>2 DEF UpstreamOK, UpstreamFields
  <2> HIDE DEF good, bad
  <2> QED
    BY <1>4, <2>1, <2>2, <2>3, <2>4
<1> QED
  BY <1>5, <1>6, <1>7, <1>8 DEF Server, UpReaderStep, UpWriterStep

\* serverOverlaySession.Run.
LEMMA SessionKeeps ==
    ASSUME OverlayInv, Server(SessionStep)
    PROVE  OverlayInv'
<1>1. UNCHANGED <<clientVars>> /\ wire' = wire
  BY DEF Server
<1>2. ControlInv' /\ replies' = replies
  <2>1. upstreams' \subseteq upstreams /\ overflowed' = overflowed /\ replies' = replies
    BY DEF Server, SessionStep, ReadFails, SessionSweeps, EgressClose, SessionCloses
  <2> QED
    BY <1>1, <2>1 DEF OverlayInv, ControlInv, clientVars
<1>3. CASE ReadFails \/ SessionCloses
  BY <1>1, <1>2, <1>3, ServerIdles DEF ReadFails, SessionCloses
<1>4. CASE SessionSweeps
  <2>1. upstream' = [id \in StreamIDs |->
                        IF id \in upstreams THEN Shut(upstream[id]) ELSE upstream[id]]
    BY <1>4 DEF SessionSweeps, EgressClose
  <2>2. ASSUME NEW id \in StreamIDs
        PROVE  /\ UpstreamOK(upstream'[id], id, local[id].read)
               /\ upstream'[id].read = upstream[id].read
               /\ upstream'[id].run = upstream[id].run
    <3>1. UpstreamOK(upstream[id], id, local[id].read) /\ local[id].read \in Nat
      BY DEF OverlayInv, StreamsInv, LocalOK, Counts
    <3>2. /\ UpstreamOK(Shut(upstream[id]), id, local[id].read)
          /\ Shut(upstream[id]).read = upstream[id].read
          /\ Shut(upstream[id]).run = upstream[id].run
      BY <3>1, UpstreamSteps
    <3>3. upstream'[id] = Shut(upstream[id]) \/ upstream'[id] = upstream[id]
      BY <2>1
    <3> QED
      BY <3>1, <3>2, <3>3
  <2>3. local' = local /\ outbound' = outbound
    BY <1>1 DEF clientVars
  <2>4. Sent' = Sent /\ Replied' = Replied
    BY <2>2, <2>3 DEF Sent, Replied
  <2>5. StreamsInv'
    <3>1. \A id \in StreamIDs : LocalOK(local'[id], id, upstream'[id].read)
      BY <2>2, <2>3 DEF OverlayInv, StreamsInv
    <3>2. \A id \in StreamIDs : UpstreamOK(upstream'[id], id, local'[id].read)
      BY <2>2, <2>3
    <3>3. local' = [s \in StreamIDs |-> local'[s]] /\ upstream' = [s \in StreamIDs |-> upstream'[s]]
      BY <2>1, <2>3 DEF OverlayInv, StreamsInv
    <3> QED
      BY <3>1, <3>2, <3>3 DEF StreamsInv
  <2>6. ChannelsInv'
    BY <1>1, <1>2, <2>3, <2>4 DEF OverlayInv, ChannelsInv
  <2>7. \A s \in StreamIDs : Unopened(s)' => Unopened(s)
    BY <1>1 DEF Unopened, clientVars
  <2>8. OpensInv'
    BY <1>1, <2>2, <2>3, <2>6, <2>7, OpensKept DEF OverlayInv, ChannelsInv
  <2> QED
    BY <1>2, <2>5, <2>6, <2>8 DEF OverlayInv
<1> QED
  BY <1>3, <1>4 DEF Server, SessionStep

----------------------------------------------------------------------------
(* Byte streams *)

LEMMA OverlayInitial == Init => OverlayInv
<1> SUFFICES ASSUME Init
             PROVE  OverlayInv
  OBVIOUS
<1> USE DEF Init, ClientInit, ServerInit
<1>1. ControlInv
  BY StreamsAssumption, IngressAssumption, OneWorker DEF ControlInv, StreamIDs
<1>2. \A id \in StreamIDs : local[id].read = 0 /\ upstream[id].read = 0
  BY DEF LocalStream, NewUpstream
<1>3. \A id \in StreamIDs : LocalOK(local[id], id, 0) /\ UpstreamOK(upstream[id], id, 0)
  BY LocalStarts, UpstreamStarts
<1>4. StreamsInv
  BY <1>2, <1>3 DEF StreamsInv
<1>5. ChannelsInv
  BY DEF ChannelsInv
<1>6. OpensInv
  BY DEF OpensInv, Queued, Once, LocalStream, NewUpstream
<1> QED
  BY <1>1, <1>4, <1>5, <1>6 DEF OverlayInv

LEMMA OverlayPreserved == OverlayInv /\ [Next]_vars => OverlayInv'
<1> SUFFICES ASSUME OverlayInv, [Next]_vars
             PROVE  OverlayInv'
  OBVIOUS
<1>1. CASE Transmit
  BY <1>1, TransmitKeeps
<1>2. ASSUME NEW frame \in wire, FrameArrives(frame)
      PROVE  OverlayInv'
  BY <1>2, FrameKeeps
<1>3. ASSUME NEW frame \in replies, ReplyArrives(frame)
      PROVE  OverlayInv'
  BY <1>3, ReplyKeeps
<1>4. CASE Client(AcceptStep)
  BY <1>4, AcceptKeeps
<1>5. CASE Client(WorkerStep)
  BY <1>5, WorkerKeeps
<1>6. CASE Server(SessionStep)
  BY <1>6, SessionKeeps
<1>7. ASSUME NEW id \in StreamIDs, Client(ReaderStep(id)) \/ Client(WriterStep(id))
      PROVE  OverlayInv'
  BY <1>7, ReaderKeeps, WriterKeeps
<1>8. ASSUME NEW id \in StreamIDs, Server(OverflowCloses(id)) \/ Server(RunStep(id))
      PROVE  OverlayInv'
  BY <1>8, RunKeeps
<1>9. ASSUME NEW id \in StreamIDs, Server(UpReaderStep(id)) \/ Server(UpWriterStep(id))
      PROVE  OverlayInv'
  BY <1>9, LoopsKeep
<1>10. CASE UNCHANGED vars
  <2>1. ControlInv'
    BY <1>10 DEF vars, clientVars, serverVars, OverlayInv, ControlInv
  <2> QED
    BY <1>10, <2>1, ServerIdles DEF vars, serverVars
<1> QED
  BY <1>1, <1>2, <1>3, <1>4, <1>5, <1>6, <1>7, <1>8, <1>9, <1>10 DEF Next

\* Whatever the network loses or reorders and wherever a queue overflows, what
\* a socket at one end was given is a prefix of what was read at the other.
THEOREM StreamsArePrefixesHolds == Spec => []StreamsArePrefixes
<1>1. OverlayInv => StreamsArePrefixes
  BY DEF OverlayInv, StreamsInv, LocalOK, UpstreamOK, Counts, StreamsArePrefixes
<1> QED
  BY <1>1, OverlayInitial, OverlayPreserved, PTL DEF Spec

\* A step that changes the goroutine of runStream other than by an open frame.
LEMMA ServingKeepsRun ==
    ASSUME OverlayInv, NEW id \in StreamIDs,
           \/ Server(OverflowCloses(id)) \/ Server(RunStep(id))
           \/ Server(UpReaderStep(id)) \/ Server(UpWriterStep(id))
           \/ CloseForUpstream(id)
           \/ \E frame : frame.id = id /\ DataForUpstream(frame)
    PROVE  \A s \in StreamIDs : upstream'[s].run = "dialing" => upstream[s].run = "dialing"
<1> DEFINE st == upstream[id]
<1>1. DOMAIN st = UpstreamFields /\ upstream = [s \in StreamIDs |-> upstream[s]]
  BY DEF OverlayInv, StreamsInv, UpstreamOK
<1>2. ASSUME NEW new, upstream' = [upstream EXCEPT ![id] = new],
             new.run = "dialing" => st.run = "dialing"
      PROVE  \A s \in StreamIDs : upstream'[s].run = "dialing" => upstream[s].run = "dialing"
  BY <1>1, <1>2
<1>3. Shut(st).run = st.run
  BY <1>1 DEF Shut, UpstreamFields
<1>4. CASE OverflowCloses(id) \/ CloseForUpstream(id)
  BY <1>2, <1>3, <1>4 DEF OverflowCloses, CloseForUpstream, closeUpstream
<1>5. CASE DialFails(id) \/ FinishStream(id)
  <2> DEFINE new == [st EXCEPT !.run = "ended"]
  <2>1. DOMAIN new = UpstreamFields /\ new.run = "ended"
    BY <1>1 DEF UpstreamFields
  <2>2. closeUpstream(id, TRUE, new)
    BY <1>5 DEF DialFails, FinishStream
  <2> HIDE DEF new
  <2>3. Shut(new).run = "ended"
    BY <2>1 DEF Shut, UpstreamFields
  <2> QED
    BY <1>2, <2>1, <2>2, <2>3 DEF closeUpstream
<1>6. CASE DialSucceeds(id)
  BY <1>1, <1>6 DEF DialSucceeds, UpstreamFields
<1>7. CASE SetConn(id)
  BY <1>1, <1>7 DEF SetConn, UpstreamFields
<1>8. CASE LoadConn(id, "reader") \/ LoadConn(id, "writer")
  BY <1>1, <1>8 DEF LoadConn, UpstreamFields
<1>9. CASE ReplyChunk(id)
  BY <1>1, <1>9 DEF ReplyChunk, UpstreamFields
<1>10. CASE UpstreamEnds(id) \/ UpstreamWriterStops(id)
  BY <1>1, <1>10 DEF UpstreamEnds, UpstreamWriterStops, UpstreamFields
<1>11. CASE ForwardChunk(id)
  <2> DEFINE q == Tail(st.inbound)
             k == st.recvSequence + 1
             w == Append(st.written, Head(st.inbound).chunk)
             j == IF InSequence(st, Head(st.inbound)) THEN st.recvSequence + 1 ELSE st.recvSequence
             good == [st EXCEPT !.inbound = q, !.recvSequence = k, !.written = w]
             bad  == [st EXCEPT !.inbound = q, !.writer = "ended", !.recvSequence = j]
  <2>1. upstream' = [upstream EXCEPT ![id] = good] \/ upstream' = [upstream EXCEPT ![id] = bad]
    BY <1>11 DEF ForwardChunk
  <2> HIDE DEF q, k, w, j
  <2>2. good.run = st.run /\ bad.run = st.run
    BY <1>1 DEF UpstreamFields
  <2> HIDE DEF good, bad
  <2> QED
    BY <1>2, <2>1, <2>2
<1>12. ASSUME NEW frame, frame.id = id, DataForUpstream(frame)
       PROVE  \A s \in StreamIDs : upstream'[s].run = "dialing" => upstream[s].run = "dialing"
  <2> DEFINE q == Append(st.inbound, frame)
             new == [st EXCEPT !.inbound = q]
  <2>1. upstream' = upstream \/ upstream' = [upstream EXCEPT ![id] = new]
    BY <1>12 DEF DataForUpstream
  <2> HIDE DEF q
  <2>2. new.run = st.run
    BY <1>1 DEF UpstreamFields
  <2> HIDE DEF new
  <2> QED
    BY <1>2, <2>1, <2>2
<1> QED
  BY <1>4, <1>5, <1>6, <1>7, <1>8, <1>9, <1>10, <1>11, <1>12
     DEF Server, RunStep, UpReaderStep, UpWriterStep

\* The server dials for a stream once at most: no open frame reaches it for a
\* stream it has seen.
THEOREM StreamsOpenOnceHolds == Spec => StreamsOpenOnce
<1> DEFINE DialedOnce == \A id \in StreamIDs :
                       upstream'[id].run = "dialing" => upstream[id].run \in {"none", "dialing"}
<1>1. OverlayInv /\ [Next]_vars => DialedOnce
  <2> SUFFICES ASSUME OverlayInv, [Next]_vars
               PROVE  DialedOnce
    OBVIOUS
  <2>1. CASE upstream' = upstream
    BY <2>1
  <2>2. ASSUME NEW frame \in wire, FrameArrives(frame)
        PROVE  DialedOnce
    <3>1. frame \in Sendable(Sent) /\ frame.id \in StreamIDs
          /\ frame.kind \in {"open", "data", "close"}
      BY DEF OverlayInv, ChannelsInv, Sendable, AllFrames
    <3>2. CASE frame.kind \in {"data", "close"}
      BY <2>2, <3>1, <3>2, ServingKeepsRun DEF FrameArrives
    <3>3. CASE frame.kind = "open"
      <4>1. OpenUpstream(frame.id) /\ frame = OpenFrame(frame.id)
        BY <2>2, <3>1, <3>3 DEF FrameArrives, Sendable
      <4>2. upstream[frame.id].run = "none"
        BY <3>1, <4>1 DEF OverlayInv, OpensInv
      <4>3. \A s \in StreamIDs : s /= frame.id => upstream'[s] = upstream[s]
        BY <4>1 DEF OpenUpstream, OverlayInv, StreamsInv
      <4> QED
        BY <4>2, <4>3
    <3> QED
      BY <3>1, <3>2, <3>3
  <2>3. CASE Server(SessionStep)
    <3>1. CASE SessionSweeps
      <4>1. \A s \in StreamIDs :
               upstream'[s] = Shut(upstream[s]) \/ upstream'[s] = upstream[s]
        BY <3>1 DEF SessionSweeps, EgressClose
      <4>2. \A s \in StreamIDs : Shut(upstream[s]).run = upstream[s].run
        BY DEF OverlayInv, StreamsInv, UpstreamOK, Shut, UpstreamFields
      <4> QED
        BY <4>1, <4>2
    <3> QED
      BY <2>1, <2>3, <3>1 DEF Server, SessionStep, ReadFails, SessionCloses
  <2>4. ASSUME NEW id \in StreamIDs,
               \/ Server(OverflowCloses(id)) \/ Server(RunStep(id))
               \/ Server(UpReaderStep(id)) \/ Server(UpWriterStep(id))
        PROVE  DialedOnce
    BY <2>4, ServingKeepsRun
  <2> QED
    BY <2>1, <2>2, <2>3, <2>4
       DEF Next, Transmit, ReplyArrives, Client, serverVars, vars
<1> QED
  BY <1>1, OverlayInitial, OverlayPreserved, PTL DEF Spec, StreamsOpenOnce

=============================================================================
