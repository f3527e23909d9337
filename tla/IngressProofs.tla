--------------------------- MODULE IngressProofs ----------------------------
(***************************************************************************)
(* The ingress adapters for every set of workers, every number of          *)
(* incarnations, streams and chunks and every capacity: the replies of UDP *)
(* ingress, the streams that Remove leaves behind in TCP ingress, and who  *)
(* may close a stream.                                                     *)
(***************************************************************************)
EXTENDS MCIngress, FiniteSetTheorems, TLAPS

----------------------------------------------------------------------------
(* The worker set *)

WorkersTypeOK ==
    /\ ws \in [workers : Seq(Routes), next : Nat]
    /\ link \in [Workers -> {"down", "up", "failed", "removing"}]
    /\ generation \in [Workers -> 0 .. MaxGeneration]

\* A route in the set is the one of its worker's present incarnation, which
\* Remove has not been called for.
RoutesAreLive ==
    \A k \in DOMAIN ws.workers :
        /\ link[ws.workers[k].index] \in {"up", "failed"}
        /\ ws.workers[k].generation = generation[ws.workers[k].index]

\* No worker is in the set twice.
RoutesAreDistinct ==
    \A j, k \in DOMAIN ws.workers : ws.workers[j].index = ws.workers[k].index => j = k

WorkersInv == WorkersTypeOK /\ RoutesAreLive /\ RoutesAreDistinct

\* The routes of the set are routes of workers.
LEMMA SetRoutesAreRoutes ==
    ASSUME WorkersInv
    PROVE  \A k \in DOMAIN ws.workers :
              ws.workers[k] \in Routes /\ ws.workers[k].index \in Workers
<1> DEFINE s == ws.workers
<1>1. s \in Seq(Routes)
  BY DEF WorkersInv, WorkersTypeOK
<1> HIDE DEF s
<1>2. \A k \in DOMAIN s : s[k] \in Routes
  BY <1>1
<1>3. \A r \in Routes : r.index \in Workers
  BY DEF Routes
<1> QED
  BY <1>2, <1>3 DEF s

\* SetReady for a worker that is not in the set appends its route.
LEMMA SetReadyAppends ==
    ASSUME WorkersInv, NEW w \in Workers, link[w] = "down", NEW g
    PROVE  SetReady(ws, w, g).workers = Append(ws.workers, Route(w, g))
<1>1. w \notin RouteIndexes(ws)
  BY DEF WorkersInv, RoutesAreLive, RouteIndexes
<1> QED
  BY <1>1 DEF SetReady, RemoveLocked

\* Remove takes the routes of the worker out of the set and leaves the others.
LEMMA RemoveDrops ==
    ASSUME WorkersInv, NEW w \in Workers
    PROVE  /\ Remove(ws, w) \in [workers : Seq(Routes), next : Nat]
           /\ \A k \in DOMAIN Remove(ws, w).workers :
                 \E j \in DOMAIN ws.workers :
                    /\ Remove(ws, w).workers[k] = ws.workers[j]
                    /\ ws.workers[j].index /= w
           /\ \A j \in DOMAIN ws.workers :
                 ws.workers[j].index /= w =>
                    \E k \in DOMAIN Remove(ws, w).workers : Remove(ws, w).workers[k] = ws.workers[j]
           /\ \A j, k \in DOMAIN Remove(ws, w).workers :
                 Remove(ws, w).workers[j].index = Remove(ws, w).workers[k].index => j = k
<1> DEFINE s == ws.workers
           p == PositionOf(ws, w)
           rest == DropAt(s, p)
<1>0. s \in Seq(Routes) /\ ws.next \in Nat
  BY DEF WorkersInv, WorkersTypeOK
<1>1. CASE w \notin RouteIndexes(ws)
  <2>1. Remove(ws, w) = ws
    BY <1>1 DEF Remove, RemoveLocked
  <2>2. \A j \in DOMAIN ws.workers : ws.workers[j].index /= w
    BY <1>1 DEF RouteIndexes
  <2> QED
    BY <2>1, <2>2 DEF WorkersInv, WorkersTypeOK, RoutesAreDistinct
<1>2. CASE w \in RouteIndexes(ws)
  <2>1. p \in DOMAIN s /\ s[p].index = w
    BY <1>2 DEF RouteIndexes, PositionOf
  <2>2. \A j \in DOMAIN s : s[j].index = w => j = p
    BY <2>1 DEF WorkersInv, RoutesAreDistinct
  <2>3. Remove(ws, w) = [workers |-> rest, next |-> ClampNext(rest, ws.next)]
    BY <1>2 DEF Remove, RemoveLocked
  <2> HIDE DEF p
  <2>4. Len(s) \in Nat /\ p \in 1 .. Len(s) /\ DOMAIN s = 1 .. Len(s)
    BY <1>0, <2>1
  <2>5. /\ DOMAIN rest = 1 .. Len(s) - 1
        /\ \A k \in 1 .. Len(s) - 1 : rest[k] = IF k < p THEN s[k] ELSE s[k + 1]
    BY DEF DropAt
  <2>6. rest \in Seq(Routes)
    <3>1. \A k \in 1 .. Len(s) - 1 : rest[k] \in Routes
      BY <1>0, <2>4, <2>5
    <3>2. rest \in [1 .. Len(s) - 1 -> Routes]
      BY <3>1 DEF DropAt
    <3>3. Len(s) - 1 \in Nat
      BY <2>4
    <3> HIDE DEF rest
    <3> QED
      BY <3>2, <3>3
  <2>7. \A k \in DOMAIN rest :
           \E j \in DOMAIN s : rest[k] = s[j] /\ s[j].index /= w
    <3> SUFFICES ASSUME NEW k \in 1 .. Len(s) - 1
                 PROVE  \E j \in DOMAIN s : rest[k] = s[j] /\ s[j].index /= w
      BY <2>5
    <3>1. CASE k < p
      <4>1. k \in DOMAIN s /\ k /= p /\ rest[k] = s[k]
        BY <2>4, <2>5, <3>1
      <4> QED
        BY <4>1, <2>2
    <3>2. CASE ~(k < p)
      <4>1. k + 1 \in DOMAIN s /\ k + 1 /= p /\ rest[k] = s[k + 1]
        BY <2>4, <2>5, <3>2
      <4> QED
        BY <4>1, <2>2
    <3> QED
      BY <3>1, <3>2
  <2>8. \A j \in DOMAIN s : s[j].index /= w => \E k \in DOMAIN rest : rest[k] = s[j]
    <3> SUFFICES ASSUME NEW j \in DOMAIN s, s[j].index /= w
                 PROVE  \E k \in DOMAIN rest : rest[k] = s[j]
      OBVIOUS
    <3>1. j /= p
      BY <2>1
    <3>2. CASE j < p
      <4>1. j \in 1 .. Len(s) - 1
        BY <2>4, <3>2
      <4> QED
        BY <4>1, <2>5, <3>2
    <3>3. CASE j > p
      <4>1. j - 1 \in 1 .. Len(s) - 1 /\ ~(j - 1 < p) /\ (j - 1) + 1 = j
        BY <2>4, <3>3
      <4> QED
        BY <4>1, <2>5
    <3> QED
      BY <2>4, <3>1, <3>2, <3>3
  <2>9. \A j, k \in DOMAIN rest : rest[j].index = rest[k].index => j = k
    <3> SUFFICES ASSUME NEW j \in 1 .. Len(s) - 1, NEW k \in 1 .. Len(s) - 1,
                        rest[j].index = rest[k].index
                 PROVE  j = k
      BY <2>5
    <3> DEFINE at(i) == IF i < p THEN i ELSE i + 1
    <3>1. at(j) \in DOMAIN s /\ at(k) \in DOMAIN s
      BY <2>4
    <3>2. rest[j] = s[at(j)] /\ rest[k] = s[at(k)]
      BY <2>5
    <3>3. at(j) = at(k)
      BY <3>1, <3>2 DEF WorkersInv, RoutesAreDistinct
    <3> QED
      BY <3>3, <2>4
  <2>10. ClampNext(rest, ws.next) \in Nat
    BY <1>0 DEF ClampNext
  <2> HIDE DEF rest
  <2> QED
    BY <2>3, <2>6, <2>7, <2>8, <2>9, <2>10
<1> QED
  BY <1>1, <1>2

\* Next returns a route of the set and only moves the cursor.
LEMMA NextPicksFromSet ==
    ASSUME WorkersInv, ws.workers /= <<>>
    PROVE  /\ \E k \in DOMAIN ws.workers : NextRoute(ws) = ws.workers[k]
           /\ NextRoute(ws) \in Routes
           /\ AdvanceNext(ws).workers = ws.workers
           /\ AdvanceNext(ws) \in [workers : Seq(Routes), next : Nat]
<1>1. ws.workers \in Seq(Routes) /\ ws.next \in Nat
  BY DEF WorkersInv, WorkersTypeOK
<1>2. Len(ws.workers) \in Nat \ {0}
  BY <1>1
<1>3. ws.next % Len(ws.workers) \in 0 .. Len(ws.workers) - 1
  BY <1>1, <1>2
<1>4. (ws.next % Len(ws.workers)) + 1 \in DOMAIN ws.workers
  BY <1>1, <1>2, <1>3
<1>5. (ws.next + 1) % Len(ws.workers) \in Nat
  BY <1>1, <1>2
<1> QED
  BY <1>1, <1>4, <1>5 DEF NextRoute, AdvanceNext, WorkersInv, WorkersTypeOK

\* Every step does one of these to the worker set and the workers.
LEMMA WorkerSteps ==
    [Next]_vars =>
        \/ UNCHANGED workerVars
        \/ /\ ws.workers /= <<>>
           /\ ws' = AdvanceNext(ws)
           /\ UNCHANGED <<link, generation>>
        \/ \E w \in Workers : WorkerReady(w) \/ WorkerFails(w) \/ RemoveRoute(w)
        \/ \E w \in Workers :
              /\ link[w] = "removing"
              /\ link' = [link EXCEPT ![w] = "down"]
              /\ UNCHANGED <<ws, generation>>
<1> SUFFICES ASSUME [Next]_vars
             PROVE  \/ UNCHANGED workerVars
                    \/ /\ ws.workers /= <<>>
                       /\ ws' = AdvanceNext(ws)
                       /\ UNCHANGED <<link, generation>>
                    \/ \E w \in Workers : WorkerReady(w) \/ WorkerFails(w) \/ RemoveRoute(w)
                    \/ \E w \in Workers :
                          /\ link[w] = "removing"
                          /\ link' = [link EXCEPT ![w] = "down"]
                          /\ UNCHANGED <<ws, generation>>
  OBVIOUS
<1>1. CASE SharedStep
  BY <1>1 DEF SharedStep, Cancel, AfterFuncFires, workerVars
<1>2. CASE TcpStep
  <2>1. CASE \/ AcceptConn \/ StoreStream \/ OpenQueued \/ OpenRefused \/ AcceptFails
             \/ CloseIngress
    BY <2>1 DEF AcceptConn, StoreStream, OpenQueued, OpenRefused, AcceptFails, CloseIngress,
                workerVars
  <2>2. ASSUME NEW id \in StreamIDs,
               \/ ReadChunk(id) \/ SendChunk(id) \/ ReadEnds(id) \/ ReaderCloses(id)
               \/ WriteChunk(id) \/ WriterCloses(id) \/ WriterStops(id)
        PROVE  UNCHANGED workerVars
    BY <2>2 DEF ReadChunk, SendChunk, ReadEnds, ReaderCloses, WriteChunk, WriterCloses,
                WriterStops, ingressVars, workerVars
  <2>3. ASSUME NEW w \in Workers, DelivererCloses(w) \/ TransmitFrame(w)
        PROVE  UNCHANGED workerVars
    BY <2>3 DEF DelivererCloses, TransmitFrame, ingressVars, workerVars
  <2>4. ASSUME NEW w \in Workers, CloseWorkerStreams(w)
        PROVE  /\ link[w] = "removing"
               /\ link' = [link EXCEPT ![w] = "down"]
               /\ UNCHANGED <<ws, generation>>
    BY <2>4 DEF CloseWorkerStreams
  <2> QED
    BY <1>2, <2>1, <2>2, <2>3, <2>4 DEF TcpStep
<1>3. CASE \E w \in Workers : Receive(w)
  BY <1>3 DEF Receive, DeliverData, DeliverClose, ingressVars, workerVars
<1>4. CASE UdpStep
  BY <1>4 DEF UdpStep, ReadLocal, storeRoute, QueueDatagram, UdpRunReturns, CloseSocket,
              UdpWorkerReady, deleteRoute, TransmitDatagram, TransmitFrame, ingressVars, workerVars
<1>5. CASE UNCHANGED vars
  BY <1>5 DEF vars, clientVars, workerVars
<1> QED
  BY <1>1, <1>2, <1>3, <1>4, <1>5 DEF Next

\* The worker set stays exact through SetReady, Remove and Next.
LEMMA WorkersPreserved == WorkersInv /\ [Next]_vars => WorkersInv'
<1> SUFFICES ASSUME WorkersInv, [Next]_vars PROVE WorkersInv'
  OBVIOUS
<1>1. CASE UNCHANGED workerVars
  BY <1>1 DEF workerVars, WorkersInv, WorkersTypeOK, RoutesAreLive, RoutesAreDistinct
<1>2. CASE ws.workers /= <<>> /\ ws' = AdvanceNext(ws) /\ UNCHANGED <<link, generation>>
  BY <1>2, NextPicksFromSet
  DEF WorkersInv, WorkersTypeOK, RoutesAreLive, RoutesAreDistinct
<1>3. ASSUME NEW w \in Workers, WorkerReady(w) PROVE WorkersInv'
  <2>1. /\ link[w] = "down"
        /\ link' = [link EXCEPT ![w] = "up"]
        /\ generation' = [generation EXCEPT ![w] = @ + 1]
        /\ ws' = SetReady(ws, w, generation'[w])
        /\ generation[w] < MaxGeneration
    BY <1>3 DEF WorkerReady
  <2>2. generation'[w] \in 0 .. MaxGeneration /\ generation' \in [Workers -> 0 .. MaxGeneration]
    BY <2>1, IngressAssumption DEF WorkersInv, WorkersTypeOK
  <2>3. ws'.workers = Append(ws.workers, Route(w, generation'[w]))
    BY <2>1, SetReadyAppends
  <2>4. Route(w, generation'[w]) \in Routes
    BY <2>2 DEF Route, Routes
  <2>5. ws.workers \in Seq(Routes)
    BY DEF WorkersInv, WorkersTypeOK
  <2>6. /\ ws'.workers \in Seq(Routes)
        /\ DOMAIN ws'.workers = 1 .. Len(ws.workers) + 1
        /\ Len(ws.workers) \in Nat
        /\ DOMAIN ws.workers = 1 .. Len(ws.workers)
        /\ \A k \in 1 .. Len(ws.workers) : ws'.workers[k] = ws.workers[k]
        /\ ws'.workers[Len(ws.workers) + 1] = Route(w, generation'[w])
    <3> DEFINE s == ws.workers
               e == Route(w, generation'[w])
    <3>1. s \in Seq(Routes) /\ e \in Routes /\ ws'.workers = Append(s, e)
      BY <2>3, <2>4, <2>5
    <3> HIDE DEF s, e
    <3>2. /\ Append(s, e) \in Seq(Routes)
          /\ DOMAIN Append(s, e) = 1 .. Len(s) + 1
          /\ Len(s) \in Nat
          /\ DOMAIN s = 1 .. Len(s)
          /\ \A k \in 1 .. Len(s) : Append(s, e)[k] = s[k]
          /\ Append(s, e)[Len(s) + 1] = e
      BY <3>1
    <3> QED
      BY <3>1, <3>2 DEF s, e
  <2>7. ws' \in [workers : Seq(Routes), next : Nat]
    <3>1. RemoveLocked(ws, w) \in [workers : Seq(Routes), next : Nat]
      BY RemoveDrops DEF Remove
    <3>2. ws' = [workers |-> ws'.workers,
                 next |-> ClampNext(ws'.workers, RemoveLocked(ws, w).next)]
      BY <2>1 DEF SetReady
    <3>3. ClampNext(ws'.workers, RemoveLocked(ws, w).next) \in Nat
      BY <3>1 DEF ClampNext
    <3> QED
      BY <2>6, <3>2, <3>3
  <2>8. WorkersTypeOK'
    BY <2>1, <2>2, <2>7 DEF WorkersInv, WorkersTypeOK
  <2>9. \A k \in DOMAIN ws.workers : ws.workers[k].index /= w
    BY <2>1 DEF WorkersInv, RoutesAreLive
  <2>10. \A k \in DOMAIN ws.workers : ws.workers[k].index \in Workers
    BY SetRoutesAreRoutes
  <2>11. RoutesAreLive'
    <3> SUFFICES ASSUME NEW k \in 1 .. Len(ws.workers) + 1
                 PROVE  /\ link'[ws'.workers[k].index] \in {"up", "failed"}
                        /\ ws'.workers[k].generation = generation'[ws'.workers[k].index]
      BY <2>6 DEF RoutesAreLive
    <3>1. CASE k = Len(ws.workers) + 1
      <4>1. ws'.workers[k].index = w /\ ws'.workers[k].generation = generation'[w]
        BY <3>1, <2>6 DEF Route
      <4>2. link'[w] = "up"
        BY <2>1 DEF WorkersInv, WorkersTypeOK
      <4> QED
        BY <4>1, <4>2
    <3>2. CASE k \in 1 .. Len(ws.workers)
      BY <3>2, <2>1, <2>6, <2>9, <2>10 DEF WorkersInv, WorkersTypeOK, RoutesAreLive
    <3> QED
      BY <2>6, <3>1, <3>2
  <2>12. RoutesAreDistinct'
    BY <2>6, <2>9 DEF WorkersInv, RoutesAreDistinct, Route
  <2> QED
    BY <2>8, <2>11, <2>12 DEF WorkersInv
<1>4. ASSUME NEW w \in Workers, WorkerFails(w) PROVE WorkersInv'
  BY <1>4 DEF WorkerFails, WorkersInv, WorkersTypeOK, RoutesAreLive, RoutesAreDistinct, Routes
<1>5. ASSUME NEW w \in Workers, RemoveRoute(w) PROVE WorkersInv'
  <2>1. /\ link' = [link EXCEPT ![w] = "removing"]
        /\ ws' = Remove(ws, w)
        /\ UNCHANGED generation
    BY <1>5 DEF RemoveRoute
  <2>2. WorkersTypeOK'
    BY <2>1, RemoveDrops DEF WorkersInv, WorkersTypeOK
  <2>3. RoutesAreLive'
    <3> SUFFICES ASSUME NEW k \in DOMAIN ws'.workers
                 PROVE  /\ link'[ws'.workers[k].index] \in {"up", "failed"}
                        /\ ws'.workers[k].generation = generation'[ws'.workers[k].index]
      BY DEF RoutesAreLive
    <3>1. PICK j \in DOMAIN ws.workers : ws'.workers[k] = ws.workers[j] /\ ws.workers[j].index /= w
      BY <2>1, RemoveDrops
    <3>2. ws.workers[j].index \in Workers
      BY SetRoutesAreRoutes
    <3> QED
      BY <2>1, <3>1, <3>2 DEF WorkersInv, WorkersTypeOK, RoutesAreLive
  <2>4. RoutesAreDistinct'
    BY <2>1, RemoveDrops DEF RoutesAreDistinct
  <2> QED
    BY <2>2, <2>3, <2>4 DEF WorkersInv
<1>6. ASSUME NEW w \in Workers, link[w] = "removing", link' = [link EXCEPT ![w] = "down"],
             UNCHANGED <<ws, generation>>
      PROVE  WorkersInv'
  BY <1>6 DEF WorkersInv, WorkersTypeOK, RoutesAreLive, RoutesAreDistinct, Routes
<1> QED
  BY <1>1, <1>2, <1>3, <1>4, <1>5, <1>6, WorkerSteps

\* Initially no worker is ready.
LEMMA WorkersInitial == Init => WorkersInv
<1> SUFFICES ASSUME Init PROVE WorkersInv
  OBVIOUS
<1>1. ws = [workers |-> <<>>, next |-> 0]
  BY DEF Init, ClientInit, EmptyWorkerSet
<1>2. DOMAIN ws.workers = {}
  BY <1>1
<1>3. WorkersTypeOK
  BY <1>1, IngressAssumption DEF Init, ClientInit, WorkersTypeOK
<1> QED
  BY <1>2, <1>3 DEF WorkersInv, RoutesAreLive, RoutesAreDistinct

----------------------------------------------------------------------------
(* UDP ingress *)

\* The worker's outbound channel, of its present incarnation, has something.
Queued(w) == outbound[Route(w, generation[w])] /= <<>>

\* The loop of Run is between storeRoute and the channel of w.
Queueing(w) == datagram.pc = "queueing" /\ datagram.route = Route(w, generation[w])

UdpTypeOK ==
    /\ datagram.pc \in {"reading", "routed", "queueing", "returned"}
    /\ datagram = [pc |-> datagram.pc, route |-> datagram.route]
    /\ senders \in [Workers -> 0 .. MaxGeneration]
    /\ target \in [Workers -> BOOLEAN]
    /\ outbound = [r \in Routes |-> outbound[r]]

\* The loop holds a datagram for an incarnation there has been.
DatagramIsForWorker ==
    datagram.pc \in {"routed", "queueing"} =>
        /\ datagram.route \in Routes
        /\ datagram.route.generation <= generation[datagram.route.index]

\* An incarnation that has not come has no datagrams.
FutureChannelsAreEmpty ==
    \A r \in Routes : r.generation > generation[r.index] => outbound[r] = <<>>

\* While the loop is about to store a sender for an incarnation that has gone,
\* nothing has been sent through the present one: the loop is the only one to
\* send.
LateSenderIsAlone ==
    \A w \in Workers :
        /\ datagram.pc = "routed"
        /\ datagram.route.index = w
        /\ datagram.route.generation < generation[w]
        => ~target[w] /\ ~Queued(w)

\* A worker with a datagram on its way has the sender in the map.
SendersAreStored ==
    \A w \in Workers :
        link[w] = "up" /\ (target[w] \/ Queued(w) \/ Queueing(w)) => senders[w] = generation[w]

UdpInv ==
    /\ UdpTypeOK
    /\ DatagramIsForWorker
    /\ FutureChannelsAreEmpty
    /\ LateSenderIsAlone
    /\ SendersAreStored

\* With TCP ingress there are no datagrams.
NoUdp == \A w \in Workers : ~target[w]

\* Routes are pairs of a worker and a generation.
LEMMA RoutesArePairs ==
    /\ \A w \in Workers, g \in 0 .. MaxGeneration :
          Route(w, g) \in Routes /\ Route(w, g).index = w /\ Route(w, g).generation = g
    /\ \A r \in Routes :
          /\ r = Route(r.index, r.generation)
          /\ r.index \in Workers
          /\ r.generation \in 0 .. MaxGeneration
BY DEF Route, Routes

LEMMA UdpInitial == Init => UdpInv /\ NoUdp
<1> SUFFICES ASSUME Init PROVE UdpInv /\ NoUdp
  OBVIOUS
<1>1. \A r \in Routes : outbound[r] = <<>>
  BY DEF Init, ClientInit
<1>2. UdpTypeOK
  BY IngressAssumption DEF Init, UdpInit, ClientInit, UdpTypeOK
<1>3. /\ DatagramIsForWorker
      /\ LateSenderIsAlone
      /\ SendersAreStored
      /\ NoUdp
  BY DEF Init, UdpInit, ClientInit, DatagramIsForWorker, LateSenderIsAlone, SendersAreStored,
         NoUdp
<1>4. FutureChannelsAreEmpty
  BY <1>1 DEF FutureChannelsAreEmpty
<1> QED
  BY <1>2, <1>3, <1>4 DEF UdpInv

\* Losing a worker, or any step that leaves the loop and the channels alone
\* and makes nobody ready, keeps the invariant.
LEMMA QuietStepKeepsUdpInv ==
    ASSUME UdpInv,
           UNCHANGED <<udpVars, outbound, generation>>,
           \A w \in Workers : link'[w] = "up" => link[w] = "up"
    PROVE  UdpInv'
BY DEF UdpInv, UdpTypeOK, DatagramIsForWorker, FutureChannelsAreEmpty, LateSenderIsAlone,
       SendersAreStored, Queued, Queueing, udpVars

\* The worker comes back under a new generation, with an empty channel and
\* without a route at the far end.
LEMMA ReadyKeepsUdpInv ==
    ASSUME WorkersInv, UdpInv, NEW w \in Workers, UdpWorkerReady(w)
    PROVE  UdpInv'
<1>1. /\ link[w] = "down"
      /\ link' = [link EXCEPT ![w] = "up"]
      /\ generation[w] < MaxGeneration
      /\ generation' = [generation EXCEPT ![w] = @ + 1]
      /\ target' = [target EXCEPT ![w] = FALSE]
      /\ UNCHANGED <<datagram, senders, outbound>>
  BY DEF UdpWorkerReady, WorkerReady, NewTarget
<1>2. generation \in [Workers -> 0 .. MaxGeneration] /\ link \in [Workers -> {"down", "up", "failed", "removing"}]
  BY DEF WorkersInv, WorkersTypeOK
<1>3. /\ generation'[w] = generation[w] + 1
      /\ generation'[w] \in 0 .. MaxGeneration
      /\ \A v \in Workers \ {w} : generation'[v] = generation[v]
      /\ \A v \in Workers : generation[v] <= generation'[v]
      /\ \A v \in Workers : generation[v] \in Nat
  BY <1>1, <1>2, IngressAssumption
<1>4. UdpTypeOK'
  BY <1>1 DEF UdpInv, UdpTypeOK
<1>5. DatagramIsForWorker'
  <2> SUFFICES ASSUME datagram.pc \in {"routed", "queueing"}
               PROVE  /\ datagram.route \in Routes
                      /\ datagram.route.generation <= generation'[datagram.route.index]
    BY <1>1 DEF DatagramIsForWorker
  <2>1. /\ datagram.route \in Routes
        /\ datagram.route.generation <= generation[datagram.route.index]
    BY DEF UdpInv, DatagramIsForWorker
  <2> QED
    BY <2>1, <1>3, RoutesArePairs, IngressAssumption
<1>6. FutureChannelsAreEmpty'
  <2> SUFFICES ASSUME NEW r \in Routes, r.generation > generation'[r.index]
               PROVE  outbound[r] = <<>>
    BY <1>1 DEF FutureChannelsAreEmpty
  <2>1. r.generation > generation[r.index]
    BY <1>3, RoutesArePairs, IngressAssumption
  <2> QED
    BY <2>1 DEF UdpInv, FutureChannelsAreEmpty
<1>7. ~Queued(w)'
  <2>1. /\ Route(w, generation'[w]) \in Routes
        /\ Route(w, generation'[w]).index = w
        /\ Route(w, generation'[w]).generation = generation'[w]
    BY <1>3, RoutesArePairs
  <2>2. outbound[Route(w, generation'[w])] = <<>>
    BY <1>3, <2>1, IngressAssumption DEF UdpInv, FutureChannelsAreEmpty
  <2> QED
    BY <1>1, <2>2 DEF Queued
<1>8. ~target'[w]
  BY <1>1 DEF UdpInv, UdpTypeOK
<1>9. ~Queueing(w)'
  <2> SUFFICES ASSUME datagram.pc = "queueing", datagram.route = Route(w, generation'[w])
               PROVE  FALSE
    BY <1>1 DEF Queueing
  <2>1. datagram.route.generation <= generation[datagram.route.index]
    BY DEF UdpInv, DatagramIsForWorker
  <2>2. datagram.route.index = w /\ datagram.route.generation = generation'[w]
    BY <1>3, RoutesArePairs
  <2> QED
    BY <1>3, <2>1, <2>2
<1>10. \A v \in Workers \ {w} :
          /\ Queued(v)' <=> Queued(v)
          /\ Queueing(v)' <=> Queueing(v)
          /\ target'[v] = target[v]
          /\ link'[v] = link[v]
  BY <1>1, <1>2, <1>3 DEF Queued, Queueing, UdpInv, UdpTypeOK
<1>11. LateSenderIsAlone'
  <2> SUFFICES ASSUME NEW v \in Workers, datagram.pc = "routed", datagram.route.index = v,
                      datagram.route.generation < generation'[v]
               PROVE  ~target'[v] /\ ~Queued(v)'
    BY <1>1 DEF LateSenderIsAlone
  <2>1. CASE v = w
    BY <2>1, <1>7, <1>8
  <2>2. CASE v /= w
    <3>1. datagram.route.generation < generation[v]
      BY <2>2, <1>3
    <3>2. ~target[v] /\ ~Queued(v)
      BY <3>1 DEF UdpInv, LateSenderIsAlone
    <3> QED
      BY <2>2, <3>2, <1>10
  <2> QED
    BY <2>1, <2>2
<1>12. SendersAreStored'
  <2> SUFFICES ASSUME NEW v \in Workers, link'[v] = "up",
                      target'[v] \/ Queued(v)' \/ Queueing(v)'
               PROVE  senders[v] = generation'[v]
    BY <1>1 DEF SendersAreStored
  <2>1. v /= w
    BY <1>7, <1>8, <1>9
  <2> QED
    BY <2>1, <1>3, <1>10 DEF UdpInv, SendersAreStored
<1> QED
  BY <1>4, <1>5, <1>6, <1>11, <1>12 DEF UdpInv

\* storeRoute, the send to the channel and the outbound forwarder.
LEMMA LoopKeepsUdpInv ==
    ASSUME WorkersInv, UdpInv, ReadLocal \/ storeRoute \/ QueueDatagram \/ UdpRunReturns
    PROVE  UdpInv'
<1>0. generation \in [Workers -> 0 .. MaxGeneration] /\ MaxGeneration \in Nat
  BY IngressAssumption DEF WorkersInv, WorkersTypeOK
<1>1. CASE ReadLocal
  <2>1. /\ datagram' = [pc |-> "routed", route |-> NextRoute(ws)]
        /\ ws.workers /= <<>>
        /\ UNCHANGED <<link, generation, outbound, senders, target>>
    BY <1>1 DEF ReadLocal
  <2>2. /\ NextRoute(ws) \in Routes
        /\ NextRoute(ws).generation = generation[NextRoute(ws).index]
    BY <2>1, NextPicksFromSet DEF WorkersInv, RoutesAreLive
  <2>3. /\ datagram'.pc = "routed"
        /\ datagram'.route \in Routes
        /\ datagram'.route.generation = generation[datagram'.route.index]
        /\ datagram' = [pc |-> datagram'.pc, route |-> datagram'.route]
    BY <2>1, <2>2
  <2>4. generation[datagram'.route.index] \in Nat
    BY <1>0, <2>3, RoutesArePairs
  <2>5. UdpTypeOK'
    BY <2>1, <2>3 DEF UdpInv, UdpTypeOK
  <2>6. DatagramIsForWorker' /\ LateSenderIsAlone'
    BY <2>1, <2>3, <2>4 DEF DatagramIsForWorker, LateSenderIsAlone
  <2>7. FutureChannelsAreEmpty'
    BY <2>1 DEF UdpInv, FutureChannelsAreEmpty
  <2>8. SendersAreStored'
    BY <2>1, <2>3 DEF UdpInv, SendersAreStored, Queued, Queueing
  <2> QED
    BY <2>5, <2>6, <2>7, <2>8 DEF UdpInv
<1>2. CASE storeRoute
  <2>1. /\ datagram.pc = "routed"
        /\ senders' = [senders EXCEPT ![datagram.route.index] = datagram.route.generation]
        /\ datagram' = [datagram EXCEPT !.pc = "queueing"]
        /\ UNCHANGED <<link, generation, outbound, target>>
    BY <1>2 DEF storeRoute, workerVars
  <2>2. /\ datagram.route \in Routes
        /\ datagram.route.generation <= generation[datagram.route.index]
        /\ datagram = [pc |-> datagram.pc, route |-> datagram.route]
    BY <2>1 DEF UdpInv, DatagramIsForWorker, UdpTypeOK
  <2>3. datagram' = [pc |-> "queueing", route |-> datagram.route]
    BY <2>1, <2>2
  <2>4. datagram'.pc = "queueing" /\ datagram'.route = datagram.route
    BY <2>3
  <2>5. UdpTypeOK'
    BY <2>1, <2>2, <2>3, RoutesArePairs DEF UdpInv, UdpTypeOK
  <2>6. DatagramIsForWorker' /\ LateSenderIsAlone'
    BY <2>1, <2>2, <2>4 DEF DatagramIsForWorker, LateSenderIsAlone
  <2>7. FutureChannelsAreEmpty'
    BY <2>1 DEF UdpInv, FutureChannelsAreEmpty
  <2>8. SendersAreStored'
    <3> SUFFICES ASSUME NEW w \in Workers, link[w] = "up",
                        target[w] \/ Queued(w) \/ Queueing(w)'
                 PROVE  senders'[w] = generation[w]
      BY <2>1 DEF SendersAreStored, Queued
    <3>1. CASE datagram.route.index = w
      <4>1. senders'[w] = datagram.route.generation
        BY <2>1, <3>1 DEF UdpInv, UdpTypeOK
      <4>2. CASE Queueing(w)'
        <5>1. datagram.route = Route(w, generation[w])
          BY <4>2, <2>1, <2>4 DEF Queueing
        <5> QED
          BY <5>1, <4>1, <1>0, RoutesArePairs
      <4>3. CASE target[w] \/ Queued(w)
        <5>1. ~(datagram.route.generation < generation[w])
          BY <4>3, <2>1, <3>1 DEF UdpInv, LateSenderIsAlone
        <5>2. datagram.route.generation \in Nat /\ generation[w] \in Nat
          BY <1>0, <2>2, RoutesArePairs
        <5> QED
          BY <5>1, <5>2, <2>2, <3>1, <4>1
      <4> QED
        BY <4>2, <4>3
    <3>2. CASE datagram.route.index /= w
      <4>1. senders'[w] = senders[w]
        BY <2>1, <3>2 DEF UdpInv, UdpTypeOK
      <4>2. ~Queueing(w)'
        BY <2>1, <2>4, <3>2, <1>0, RoutesArePairs DEF Queueing
      <4> QED
        BY <4>1, <4>2 DEF UdpInv, SendersAreStored
    <3> QED
      BY <3>1, <3>2
  <2> QED
    BY <2>5, <2>6, <2>7, <2>8 DEF UdpInv
<1>3. CASE QueueDatagram
  <2>1. /\ datagram.pc = "queueing"
        /\ datagram' = [pc |-> "reading", route |-> NoRoute]
        /\ UNCHANGED <<link, generation, senders, target>>
    BY <1>3 DEF QueueDatagram, workerVars
  <2>2. /\ datagram.route \in Routes
        /\ datagram.route.generation <= generation[datagram.route.index]
    BY <2>1 DEF UdpInv, DatagramIsForWorker
  <2>3. /\ outbound' = [r \in Routes |-> outbound'[r]]
        /\ \A r \in Routes \ {datagram.route} : outbound'[r] = outbound[r]
    BY <1>3 DEF QueueDatagram, Enqueue, UdpInv, UdpTypeOK
  <2>4. datagram'.pc = "reading" /\ datagram' = [pc |-> datagram'.pc, route |-> datagram'.route]
    BY <2>1
  <2>5. UdpTypeOK'
    BY <2>1, <2>3, <2>4 DEF UdpInv, UdpTypeOK
  <2>6. DatagramIsForWorker' /\ LateSenderIsAlone'
    BY <2>4 DEF DatagramIsForWorker, LateSenderIsAlone
  <2>7. FutureChannelsAreEmpty'
    <3> SUFFICES ASSUME NEW r \in Routes, r.generation > generation[r.index]
                 PROVE  outbound'[r] = <<>>
      BY <2>1 DEF FutureChannelsAreEmpty
    <3>1. r.generation \in Nat /\ generation[r.index] \in Nat
      BY <1>0, RoutesArePairs
    <3>2. r /= datagram.route
      BY <2>2, <3>1
    <3> QED
      BY <2>3, <3>2 DEF UdpInv, FutureChannelsAreEmpty
  <2>8. SendersAreStored'
    <3> SUFFICES ASSUME NEW w \in Workers, link[w] = "up", target[w] \/ Queued(w)'
                 PROVE  senders[w] = generation[w]
      BY <2>1, <2>4 DEF SendersAreStored, Queueing
    <3>1. Route(w, generation[w]) \in Routes
      BY <1>0, RoutesArePairs
    <3>2. CASE datagram.route = Route(w, generation[w])
      BY <3>2, <2>1 DEF UdpInv, SendersAreStored, Queueing
    <3>3. CASE datagram.route /= Route(w, generation[w])
      <4>1. Queued(w)' <=> Queued(w)
        BY <2>1, <2>3, <3>1, <3>3 DEF Queued
      <4> QED
        BY <4>1 DEF UdpInv, SendersAreStored
    <3> QED
      BY <3>2, <3>3
  <2> QED
    BY <2>5, <2>6, <2>7, <2>8 DEF UdpInv
<1>4. CASE UdpRunReturns
  <2>1. /\ datagram' = [datagram EXCEPT !.pc = "returned"]
        /\ UNCHANGED <<link, generation, outbound, senders, target>>
    BY <1>4 DEF UdpRunReturns, workerVars
  <2>2. datagram'.pc = "returned" /\ datagram' = [pc |-> datagram'.pc, route |-> datagram'.route]
    BY <2>1 DEF UdpInv, UdpTypeOK
  <2> QED
    BY <2>1, <2>2
    DEF UdpInv, UdpTypeOK, DatagramIsForWorker, FutureChannelsAreEmpty, LateSenderIsAlone,
        SendersAreStored, Queued, Queueing
<1> QED
  BY <1>1, <1>2, <1>3, <1>4

\* The outbound forwarder of a worker takes a datagram whose sender is stored.
LEMMA TransmitKeepsUdpInv ==
    ASSUME WorkersInv, UdpInv, NEW w \in Workers, TransmitDatagram(w)
    PROVE  UdpInv'
<1>0. generation \in [Workers -> 0 .. MaxGeneration] /\ MaxGeneration \in Nat
  BY IngressAssumption DEF WorkersInv, WorkersTypeOK
<1> DEFINE route == Route(w, generation[w])
<1>1. /\ link[w] = "up"
      /\ outbound[route] /= <<>>
      /\ outbound' = [outbound EXCEPT ![route] = Tail(@)]
      /\ UNCHANGED <<link, generation, datagram, senders>>
      /\ target' = [target EXCEPT ![w] = TRUE] \/ target' = target
  BY DEF TransmitDatagram, TransmitFrame, ingressVars, workerVars
<1>2. route \in Routes /\ route.index = w /\ route.generation = generation[w]
  BY <1>0, RoutesArePairs
<1>3. senders[w] = generation[w]
  BY <1>1 DEF UdpInv, SendersAreStored, Queued
<1>4. UdpTypeOK'
  BY <1>1 DEF UdpInv, UdpTypeOK
<1>5. \A r \in Routes \ {route} : outbound'[r] = outbound[r]
  BY <1>1 DEF UdpInv, UdpTypeOK
<1>6. \A v \in Workers \ {w} : target'[v] = target[v] /\ (Queued(v)' <=> Queued(v))
  <2> SUFFICES ASSUME NEW v \in Workers \ {w}
               PROVE  target'[v] = target[v] /\ (Queued(v)' <=> Queued(v))
    OBVIOUS
  <2>1. Route(v, generation[v]) \in Routes \ {route}
    BY <1>0, <1>2, RoutesArePairs
  <2> QED
    BY <1>1, <1>5, <2>1 DEF Queued, UdpInv, UdpTypeOK
<1>7. DatagramIsForWorker'
  BY <1>1 DEF UdpInv, DatagramIsForWorker
<1>8. FutureChannelsAreEmpty'
  <2> SUFFICES ASSUME NEW r \in Routes, r.generation > generation[r.index]
               PROVE  outbound'[r] = <<>>
    BY <1>1 DEF FutureChannelsAreEmpty
  <2>1. r.generation \in Nat /\ generation[r.index] \in Nat
    BY <1>0, RoutesArePairs
  <2>2. r /= route
    BY <1>2, <2>1
  <2> QED
    BY <1>5, <2>2 DEF UdpInv, FutureChannelsAreEmpty
<1>9. LateSenderIsAlone'
  <2> SUFFICES ASSUME NEW v \in Workers, datagram.pc = "routed", datagram.route.index = v,
                      datagram.route.generation < generation[v]
               PROVE  ~target'[v] /\ ~Queued(v)'
    BY <1>1 DEF LateSenderIsAlone
  <2>1. ~target[v] /\ ~Queued(v)
    BY DEF UdpInv, LateSenderIsAlone
  <2>2. v /= w
    BY <1>1, <2>1 DEF Queued
  <2> QED
    BY <1>6, <2>1, <2>2
<1>10. SendersAreStored'
  <2> SUFFICES ASSUME NEW v \in Workers, link[v] = "up",
                      target'[v] \/ Queued(v)' \/ Queueing(v)
               PROVE  senders[v] = generation[v]
    BY <1>1 DEF SendersAreStored, Queueing
  <2> QED
    BY <1>3, <1>6 DEF UdpInv, SendersAreStored
<1> QED
  BY <1>4, <1>7, <1>8, <1>9, <1>10 DEF UdpInv

\* Remove forgets the sender only once the worker is down.
LEMMA DeleteKeepsUdpInv ==
    ASSUME WorkersInv, UdpInv, NEW w \in Workers, deleteRoute(w)
    PROVE  UdpInv'
<1>1. /\ link' = [link EXCEPT ![w] = "down"]
      /\ senders' = [senders EXCEPT ![w] = 0]
      /\ UNCHANGED <<generation, outbound, datagram, target>>
  BY DEF deleteRoute
<1>2. UdpTypeOK'
  BY <1>1, IngressAssumption DEF UdpInv, UdpTypeOK
<1>3. DatagramIsForWorker' /\ FutureChannelsAreEmpty' /\ LateSenderIsAlone'
  BY <1>1 DEF UdpInv, DatagramIsForWorker, FutureChannelsAreEmpty, LateSenderIsAlone, Queued
<1>4. SendersAreStored'
  BY <1>1 DEF UdpInv, UdpTypeOK, SendersAreStored, Queued, Queueing, WorkersInv, WorkersTypeOK
<1> QED
  BY <1>2, <1>3, <1>4 DEF UdpInv

\* The whole of UDP ingress.
LEMMA UdpPreserved ==
    ASSUME WorkersInv, UdpInv,
           \/ UdpStep
           \/ SharedStep /\ UNCHANGED udpVars
           \/ UNCHANGED vars
    PROVE  UdpInv'
<1>1. ASSUME NEW w \in Workers, UdpWorkerReady(w) \/ deleteRoute(w) \/ TransmitDatagram(w)
      PROVE  UdpInv'
  BY <1>1, ReadyKeepsUdpInv, DeleteKeepsUdpInv, TransmitKeepsUdpInv
<1>2. CASE ReadLocal \/ storeRoute \/ QueueDatagram \/ UdpRunReturns
  BY <1>2, LoopKeepsUdpInv
<1>3. CASE CloseSocket
  BY <1>3, QuietStepKeepsUdpInv DEF CloseSocket, workerVars
<1>4. CASE (Cancel \/ AfterFuncFires) /\ UNCHANGED udpVars
  BY <1>4, QuietStepKeepsUdpInv DEF Cancel, AfterFuncFires, workerVars
<1>5. ASSUME NEW w \in Workers, WorkerFails(w) \/ RemoveRoute(w), UNCHANGED udpVars
      PROVE  UdpInv'
  <2>1. \A v \in Workers : link'[v] = "up" => link[v] = "up"
    BY <1>5 DEF WorkerFails, RemoveRoute, WorkersInv, WorkersTypeOK
  <2> QED
    BY <1>5, <2>1, QuietStepKeepsUdpInv DEF WorkerFails, RemoveRoute
<1>6. CASE UNCHANGED vars
  BY <1>6, QuietStepKeepsUdpInv DEF vars, clientVars
<1> QED
  BY <1>1, <1>2, <1>3, <1>4, <1>5, <1>6 DEF UdpStep, SharedStep

----------------------------------------------------------------------------
(* TCP ingress *)

StreamFields ==
    {"route", "reader", "writer", "inbound", "sendSequence", "recvSequence", "notified",
     "read", "written"}

Shape(f) == f = [s \in StreamIDs |-> f[s]] /\ \A s \in StreamIDs : DOMAIN f[s] = StreamFields

\* A step leaves every stream on its route.
RoutesKept == Shape(local)' /\ \A s \in StreamIDs : local'[s].route = local[s].route

TcpTypeOK ==
    /\ Shape(local)
    /\ nextStreamID \in 0 .. MaxStreams
    /\ streams \subseteq 1 .. nextStreamID
    /\ accept = [pc |-> accept.pc, route |-> accept.route]
    /\ deliverer \in [Workers -> 0 .. nextStreamID]

\* The stream that is about to be stored, or opened, is on the route that the
\* accept loop got from Next.
AcceptIsAtStream ==
    /\ accept.pc = "routed" => nextStreamID < MaxStreams
    /\ accept.pc = "opening" =>
          nextStreamID \in StreamIDs /\ local[nextStreamID].route = accept.route

\* The inbound forwarder of a worker closes streams of that worker only.
DelivererIsAtItsStream ==
    \A w \in Workers : deliverer[w] /= 0 => local[deliverer[w]].route.index = w

\* Once Remove is through with a route, at most one stream is left on it, and
\* none while the accept loop has yet to store the one it took it for.
StraysAreFew ==
    \A r \in Routes :
        ~RouteIsSet(r) /\ link[r.index] /= "removing" =>
            /\ \A i, j \in Strays(r) : i = j
            /\ accept.pc = "routed" /\ accept.route = r => Strays(r) = {}

TcpInv ==
    /\ TcpTypeOK
    /\ AcceptIsAtStream
    /\ DelivererIsAtItsStream
    /\ StraysAreFew

\* With UDP ingress there are no streams.
NoTcp == streams = {} /\ accept.pc /= "routed"

\* Streams are numbered from one.
LEMMA StreamNumbers == StreamIDs = 1 .. MaxStreams /\ MaxStreams \in Nat
BY StreamsAssumption DEF StreamIDs

LEMMA TcpInitial == Init => TcpInv
<1> SUFFICES ASSUME Init PROVE TcpInv
  OBVIOUS
<1>1. Shape(local)
  BY DEF Init, ClientInit, Shape, LocalStream, StreamFields
<1>2. TcpTypeOK
  BY <1>1, StreamNumbers DEF Init, ClientInit, TcpTypeOK
<1>3. AcceptIsAtStream /\ DelivererIsAtItsStream
  BY DEF Init, ClientInit, AcceptIsAtStream, DelivererIsAtItsStream
<1>4. StraysAreFew
  BY DEF Init, ClientInit, StraysAreFew, Strays
<1> QED
  BY <1>2, <1>3, <1>4 DEF TcpInv

\* What a step may do that neither opens a stream nor touches the worker set:
\* close streams and change others in place.
StreamStep ==
    /\ RoutesKept
    /\ streams' \subseteq streams
    /\ UNCHANGED <<nextStreamID, workerVars>>
    /\ accept' = accept \/ \E pc \in {"accept", "returned"} : accept' = [accept EXCEPT !.pc = pc]

LEMMA GoroutineSteps ==
    ASSUME TcpInv, NEW id \in StreamIDs,
           \/ ReadChunk(id) \/ SendChunk(id) \/ ReadEnds(id) \/ ReaderCloses(id)
           \/ WriteChunk(id) \/ WriterCloses(id) \/ WriterStops(id)
    PROVE  StreamStep /\ UNCHANGED deliverer
<1>1. Shape(local)
  BY DEF TcpInv, TcpTypeOK
<1>2. UNCHANGED <<nextStreamID, workerVars, accept, deliverer>>
  BY DEF ReadChunk, SendChunk, ReadEnds, ReaderCloses, WriteChunk, WriterCloses, WriterStops,
         ingressVars
<1>3. streams' \subseteq streams
  BY DEF ReadChunk, SendChunk, ReadEnds, ReaderCloses, WriteChunk, WriterCloses, WriterStops,
         closeStream
<1>4. RoutesKept
  <2> USE <1>1 DEF Shape, StreamFields, RoutesKept
  <2>1. CASE ReadChunk(id)
    BY <2>1 DEF ReadChunk, TakeChunk
  <2>2. CASE SendChunk(id) \/ ReadEnds(id)
    BY <2>2 DEF SendChunk, ReadEnds, Reader
  <2>3. CASE ReaderCloses(id)
    BY <2>3 DEF ReaderCloses
  <2>4. CASE WriteChunk(id)
    <3> DEFINE inbound  == Tail(local[id].inbound)
               sequence == local[id].recvSequence + 1
               written  == Append(local[id].written, Head(local[id].inbound).chunk)
               expected == IF Expected(local[id], Head(local[id].inbound))
                           THEN local[id].recvSequence + 1 ELSE local[id].recvSequence
    <3>1. \/ local' = [local EXCEPT ![id].inbound = inbound, ![id].recvSequence = sequence,
                                    ![id].written = written]
          \/ local' = [local EXCEPT ![id].inbound = inbound, ![id].writer = "notifying",
                                    ![id].recvSequence = expected]
      BY <2>4 DEF WriteChunk
    <3> HIDE DEF inbound, sequence, written, expected
    <3> QED
      BY <3>1
  <2>5. CASE WriterCloses(id)
    BY <2>5 DEF WriterCloses
  <2>6. CASE WriterStops(id)
    BY <2>6 DEF WriterStops, Writer
  <2> QED
    BY <2>1, <2>2, <2>3, <2>4, <2>5, <2>6
<1> QED
  BY <1>2, <1>3, <1>4 DEF StreamStep

\* A step that only closes streams and changes others in place keeps the
\* invariant, as long as the inbound forwarders keep to their own streams.
LEMMA StreamStepKeepsTcpInv ==
    ASSUME TcpInv, StreamStep,
           \/ UNCHANGED deliverer
           \/ \E w \in Workers : deliverer' = [deliverer EXCEPT ![w] = 0]
           \/ \E w \in Workers, id \in streams :
                 /\ deliverer' = [deliverer EXCEPT ![w] = id]
                 /\ local[id].route.index = w
    PROVE  TcpInv'
<1>1. /\ RoutesKept
      /\ streams' \subseteq streams
      /\ UNCHANGED <<nextStreamID, ws, link>>
      /\ accept' = accept \/ \E pc \in {"accept", "returned"} : accept' = [accept EXCEPT !.pc = pc]
  BY DEF StreamStep, workerVars
<1>2. /\ accept'.pc \in {"routed", "opening"} => accept' = accept
      /\ accept' = [pc |-> accept'.pc, route |-> accept'.route]
  BY <1>1 DEF TcpInv, TcpTypeOK
<1>3. streams \subseteq StreamIDs /\ nextStreamID \in Nat /\ \A i \in streams : i \in 0 .. nextStreamID
  BY StreamNumbers DEF TcpInv, TcpTypeOK
<1>4. TcpTypeOK'
  BY <1>1, <1>2, <1>3 DEF TcpInv, TcpTypeOK, RoutesKept
<1>5. AcceptIsAtStream'
  BY <1>1, <1>2 DEF TcpInv, AcceptIsAtStream, RoutesKept
<1>6. DelivererIsAtItsStream'
  <2> SUFFICES ASSUME NEW w \in Workers, deliverer'[w] /= 0
               PROVE  local'[deliverer'[w]].route.index = w
    BY DEF DelivererIsAtItsStream
  <2>1. deliverer'[w] \in StreamIDs
    BY <1>1, <1>4, StreamNumbers DEF TcpInv, TcpTypeOK
  <2>2. local[deliverer'[w]].route.index = w
    BY DEF TcpInv, TcpTypeOK, DelivererIsAtItsStream
  <2> QED
    BY <1>1, <2>1, <2>2 DEF RoutesKept
<1>7. StraysAreFew'
  <2>1. \A r \in Routes : Strays(r)' \subseteq Strays(r) /\ (RouteIsSet(r)' <=> RouteIsSet(r))
    BY <1>1, <1>3 DEF Strays, RouteIsSet, RoutesKept
  <2> QED
    BY <1>1, <1>2, <2>1 DEF TcpInv, StraysAreFew
<1> QED
  BY <1>4, <1>5, <1>6, <1>7 DEF TcpInv

\* Deliver looks at streams of its own worker, and closes no others.
LEMMA DeliverSteps ==
    ASSUME TcpInv, NEW w \in Workers, Receive(w)
    PROVE  TcpInv'
<1>1. PICK id \in streams :
        /\ local[id].route = Route(w, generation[w])
        /\ \E frame \in Replies(id) :
              IF frame.kind = "data" THEN DeliverData(w, frame) ELSE DeliverClose(w, id)
  BY DEF Receive
<1>2. PICK frame \in Replies(id) :
        IF frame.kind = "data" THEN DeliverData(w, frame) ELSE DeliverClose(w, id)
  BY <1>1
<1>3. frame.id = id
  BY DEF Replies, Frame, CloseFrame
<1>4. local[id].route.index = w
  BY <1>1 DEF Route
<1>5. id \in StreamIDs /\ Shape(local)
  BY StreamNumbers DEF TcpInv, TcpTypeOK
<1>6. CASE frame.kind = "data"
  <2>1. DeliverData(w, frame)
    BY <1>2, <1>6
  <2>2. RoutesKept
    <3> DEFINE inbound == Append(local[id].inbound, frame)
    <3>1. local' = local \/ local' = [local EXCEPT ![id].inbound = inbound]
      BY <1>3, <2>1 DEF DeliverData
    <3> HIDE DEF inbound
    <3> QED
      BY <1>5, <3>1 DEF RoutesKept, Shape, StreamFields
  <2>3. StreamStep
    BY <2>1, <2>2 DEF DeliverData, StreamStep
  <2>4. UNCHANGED deliverer \/ deliverer' = [deliverer EXCEPT ![w] = id]
    BY <2>1, <1>3 DEF DeliverData
  <2> QED
    BY <2>3, <2>4, <1>4, StreamStepKeepsTcpInv
<1>7. CASE frame.kind /= "data"
  <2>1. DeliverClose(w, id)
    BY <1>2, <1>7
  <2>2. StreamStep /\ UNCHANGED deliverer
    BY <1>5, <2>1 DEF DeliverClose, StreamStep, RoutesKept, closeStream, ingressVars
  <2> QED
    BY <2>2, StreamStepKeepsTcpInv
<1> QED
  BY <1>6, <1>7

\* The accept loop: Next gives it a route of the set, and it is the only one
\* to put a stream in the map.
LEMMA AcceptKeepsTcpInv ==
    ASSUME WorkersInv, TcpInv, AcceptConn \/ StoreStream \/ OpenQueued
    PROVE  TcpInv'
<1>0. /\ Shape(local)
      /\ nextStreamID \in Nat
      /\ streams \subseteq 1 .. nextStreamID
      /\ streams \subseteq StreamIDs
      /\ deliverer \in [Workers -> 0 .. nextStreamID]
      /\ accept = [pc |-> accept.pc, route |-> accept.route]
  BY StreamNumbers DEF TcpInv, TcpTypeOK
<1>1. CASE AcceptConn
  <2>1. /\ accept' = [pc |-> "routed", route |-> NextRoute(ws)]
        /\ nextStreamID < MaxStreams
        /\ ws.workers /= <<>>
        /\ ws' = AdvanceNext(ws)
        /\ UNCHANGED <<link, deliverer, nextStreamID, streams, local>>
    BY <1>1 DEF AcceptConn
  <2>2. /\ ws'.workers = ws.workers
        /\ RouteIsSet(NextRoute(ws))
    BY <2>1, NextPicksFromSet DEF RouteIsSet
  <2>3. /\ accept'.pc = "routed"
        /\ accept'.route = NextRoute(ws)
        /\ accept' = [pc |-> accept'.pc, route |-> accept'.route]
    BY <2>1
  <2>4. \A r : (RouteIsSet(r)' <=> RouteIsSet(r)) /\ Strays(r)' = Strays(r)
    BY <2>1, <2>2 DEF RouteIsSet, Strays
  <2>5. TcpTypeOK'
    BY <2>1, <2>3 DEF TcpInv, TcpTypeOK, Shape
  <2>6. AcceptIsAtStream' /\ DelivererIsAtItsStream'
    BY <2>1, <2>3 DEF TcpInv, AcceptIsAtStream, DelivererIsAtItsStream
  <2>7. StraysAreFew'
    BY <2>1, <2>2, <2>3, <2>4 DEF TcpInv, StraysAreFew
  <2> QED
    BY <2>5, <2>6, <2>7 DEF TcpInv
<1>2. CASE StoreStream
  <2> DEFINE new == nextStreamID + 1
  <2>1. /\ accept.pc = "routed"
        /\ nextStreamID' = new
        /\ streams' = streams \cup {new}
        /\ local' = [local EXCEPT ![new] = LocalStream(accept.route, "none")]
        /\ accept' = [accept EXCEPT !.pc = "opening"]
        /\ UNCHANGED <<ws, link, deliverer>>
    BY <1>2 DEF StoreStream, workerVars
  <2>2. new \in StreamIDs /\ new \in 0 .. MaxStreams /\ new \notin streams /\ new \in Nat
    BY <1>0, <2>1, StreamNumbers DEF TcpInv, AcceptIsAtStream
  <2>3. /\ accept'.pc = "opening"
        /\ accept'.route = accept.route
        /\ accept' = [pc |-> accept'.pc, route |-> accept'.route]
    BY <1>0, <2>1
  <2>4. /\ Shape(local)'
        /\ local'[new].route = accept.route
        /\ \A s \in StreamIDs \ {new} : local'[s].route = local[s].route
    BY <1>0, <2>1, <2>2 DEF Shape, StreamFields, LocalStream
  <2>5. TcpTypeOK'
    BY <1>0, <2>1, <2>2, <2>3, <2>4 DEF TcpTypeOK
  <2>6. AcceptIsAtStream'
    BY <2>1, <2>2, <2>3, <2>4 DEF AcceptIsAtStream
  <2>7. DelivererIsAtItsStream'
    <3> SUFFICES ASSUME NEW w \in Workers, deliverer[w] /= 0
                 PROVE  local'[deliverer[w]].route.index = w
      BY <2>1 DEF DelivererIsAtItsStream
    <3>1. deliverer[w] \in StreamIDs \ {new}
      BY <1>0, <2>2, StreamNumbers
    <3> QED
      BY <2>4, <3>1 DEF TcpInv, DelivererIsAtItsStream
  <2>8. StraysAreFew'
    <3> SUFFICES ASSUME NEW r \in Routes, ~RouteIsSet(r), link[r.index] /= "removing"
                 PROVE  \A i, j \in Strays(r)' : i = j
      BY <2>1, <2>3 DEF StraysAreFew, RouteIsSet
    <3>1. \A i \in Strays(r)' : i \in Strays(r) \/ (i = new /\ accept.route = r)
      BY <1>0, <2>1, <2>2, <2>4 DEF Strays
    <3>2. accept.route = r => Strays(r) = {}
      BY <2>1 DEF TcpInv, StraysAreFew
    <3>3. \A i, j \in Strays(r) : i = j
      BY DEF TcpInv, StraysAreFew
    <3> QED
      BY <3>1, <3>2, <3>3
  <2> QED
    BY <2>5, <2>6, <2>7, <2>8 DEF TcpInv
<1>3. CASE OpenQueued
  <2>1. /\ accept.pc = "opening"
        /\ local' = [local EXCEPT ![nextStreamID] = LocalStream(accept.route, "running")]
        /\ accept' = [accept EXCEPT !.pc = "accept"]
        /\ UNCHANGED <<workerVars, deliverer, nextStreamID, streams>>
    BY <1>3 DEF OpenQueued
  <2>2. nextStreamID \in StreamIDs /\ local[nextStreamID].route = accept.route
    BY <2>1 DEF TcpInv, AcceptIsAtStream
  <2>3. RoutesKept
    BY <1>0, <2>1, <2>2 DEF RoutesKept, Shape, StreamFields, LocalStream
  <2> QED
    BY <2>1, <2>3, StreamStepKeepsTcpInv DEF StreamStep
<1> QED
  BY <1>1, <1>2, <1>3

\* The supervisor's calls.  A worker that becomes ready was not in the set,
\* so no route of it was waiting to be removed; Remove takes the route first
\* and is not through before the worker's streams are closed.
LEMMA SupervisorKeepsTcpInv ==
    ASSUME WorkersInv, TcpInv, NEW w \in Workers,
           WorkerReady(w) \/ WorkerFails(w) \/ RemoveRoute(w) \/ CloseWorkerStreams(w)
    PROVE  TcpInv'
<1>0. link \in [Workers -> {"down", "up", "failed", "removing"}]
  BY DEF WorkersInv, WorkersTypeOK
<1>1. /\ UNCHANGED <<nextStreamID, local, accept, deliverer>>
      /\ streams' \subseteq streams
  BY DEF WorkerReady, WorkerFails, RemoveRoute, CloseWorkerStreams
<1>2. TcpTypeOK' /\ AcceptIsAtStream' /\ DelivererIsAtItsStream'
  BY <1>1 DEF TcpInv, TcpTypeOK, AcceptIsAtStream, DelivererIsAtItsStream, Shape
<1>3. \A r \in Routes : Strays(r)' \subseteq Strays(r)
  BY <1>1 DEF Strays
<1>4. ASSUME \A r \in Routes :
                ~RouteIsSet(r)' /\ link'[r.index] /= "removing" =>
                    \/ Strays(r)' = {}
                    \/ ~RouteIsSet(r) /\ link[r.index] /= "removing"
      PROVE  StraysAreFew'
  BY <1>1, <1>3, <1>4 DEF TcpInv, StraysAreFew
<1>5. CASE WorkerReady(w)
  <2>1. /\ link[w] = "down"
        /\ link' = [link EXCEPT ![w] = "up"]
        /\ ws' = SetReady(ws, w, generation'[w])
    BY <1>5 DEF WorkerReady
  <2>2. ws'.workers = Append(ws.workers, Route(w, generation'[w]))
    BY <2>1, SetReadyAppends
  <2>3. ASSUME NEW r \in Routes, RouteIsSet(r) PROVE RouteIsSet(r)'
    <3> DEFINE s == ws.workers
               e == Route(w, generation'[w])
    <3>1. s \in Seq(Routes)
      BY DEF WorkersInv, WorkersTypeOK
    <3>2. PICK k \in DOMAIN s : s[k] = r
      BY <2>3 DEF RouteIsSet
    <3> HIDE DEF s, e
    <3>3. k \in DOMAIN Append(s, e) /\ Append(s, e)[k] = r
      BY <3>1, <3>2
    <3> QED
      BY <2>2, <3>3 DEF RouteIsSet, s, e
  <2>4. \A r \in Routes : link'[r.index] /= "removing" => link[r.index] /= "removing"
    BY <1>0, <2>1, RoutesArePairs
  <2> QED
    BY <1>2, <1>4, <2>3, <2>4 DEF TcpInv
<1>6. CASE WorkerFails(w)
  <2>1. /\ link[w] = "up"
        /\ link' = [link EXCEPT ![w] = "failed"]
        /\ ws' = ws
    BY <1>6 DEF WorkerFails
  <2>2. \A r \in Routes : RouteIsSet(r)' <=> RouteIsSet(r)
    BY <2>1 DEF RouteIsSet
  <2>3. \A r \in Routes : link'[r.index] /= "removing" => link[r.index] /= "removing"
    BY <1>0, <2>1, RoutesArePairs
  <2> QED
    BY <1>2, <1>4, <2>2, <2>3 DEF TcpInv
<1>7. CASE RemoveRoute(w)
  <2>1. /\ link[w] = "failed"
        /\ link' = [link EXCEPT ![w] = "removing"]
        /\ ws' = Remove(ws, w)
    BY <1>7 DEF RemoveRoute
  <2>2. ASSUME NEW r \in Routes, link'[r.index] /= "removing"
        PROVE  /\ r.index /= w
               /\ link[r.index] /= "removing"
               /\ RouteIsSet(r) => RouteIsSet(r)'
    <3>1. r.index /= w /\ link[r.index] /= "removing"
      BY <1>0, <2>1, <2>2, RoutesArePairs
    <3>2. RouteIsSet(r) => RouteIsSet(r)'
      BY <2>1, <3>1, RemoveDrops DEF RouteIsSet
    <3> QED
      BY <3>1, <3>2
  <2> QED
    BY <1>2, <1>4, <2>2 DEF TcpInv
<1>8. CASE CloseWorkerStreams(w)
  <2>1. /\ link' = [link EXCEPT ![w] = "down"]
        /\ ws' = ws
        /\ streams' = streams \ StreamsOf(w)
        /\ local' = local
    BY <1>8 DEF CloseWorkerStreams
  <2>2. ASSUME NEW r \in Routes, ~RouteIsSet(r)', link'[r.index] /= "removing"
        PROVE  Strays(r)' = {} \/ (~RouteIsSet(r) /\ link[r.index] /= "removing")
    <3>1. CASE r.index = w
      BY <2>1, <3>1 DEF Strays, StreamsOf
    <3>2. CASE r.index /= w
      BY <1>0, <2>1, <2>2, <3>2, RoutesArePairs DEF RouteIsSet
    <3> QED
      BY <3>1, <3>2
  <2> QED
    BY <1>2, <1>4, <2>2 DEF TcpInv
<1> QED
  BY <1>5, <1>6, <1>7, <1>8

\* The rest of TCP ingress closes streams at most.
LEMMA OtherStepsKeepTcpInv ==
    ASSUME TcpInv,
           \/ OpenRefused \/ AcceptFails \/ CloseIngress
           \/ Cancel \/ AfterFuncFires
           \/ \E w \in Workers : DelivererCloses(w) \/ TransmitFrame(w)
    PROVE  TcpInv'
<1>0. Shape(local) /\ (\A w \in Workers : deliverer[w] /= 0 => deliverer[w] \in StreamIDs)
  BY StreamNumbers DEF TcpInv, TcpTypeOK
<1>1. local' = local => RoutesKept
  BY <1>0 DEF RoutesKept, Shape
<1>2. CASE \/ OpenRefused \/ AcceptFails \/ CloseIngress \/ Cancel \/ AfterFuncFires
           \/ \E w \in Workers : TransmitFrame(w)
  <2>1. StreamStep /\ UNCHANGED deliverer
    BY <1>1, <1>2
    DEF StreamStep, OpenRefused, AcceptFails, CloseIngress, CloseAllStreams, Cancel,
        AfterFuncFires, TransmitFrame, closeStream, ingressVars
  <2> QED
    BY <2>1, StreamStepKeepsTcpInv
<1>3. ASSUME NEW w \in Workers, DelivererCloses(w) PROVE TcpInv'
  <2>1. RoutesKept
    BY <1>0, <1>3 DEF DelivererCloses, RoutesKept, Shape, StreamFields
  <2>2. StreamStep /\ deliverer' = [deliverer EXCEPT ![w] = 0]
    BY <1>3, <2>1 DEF StreamStep, DelivererCloses, closeStream
  <2> QED
    BY <2>2, StreamStepKeepsTcpInv
<1> QED
  BY <1>2, <1>3

\* The whole of TCP ingress.
LEMMA TcpPreserved ==
    ASSUME WorkersInv, TcpInv,
           TcpStep \/ SharedStep \/ (\E w \in Workers : Receive(w)) \/ UNCHANGED vars
    PROVE  TcpInv'
<1>1. ASSUME NEW id \in StreamIDs,
             \/ ReadChunk(id) \/ SendChunk(id) \/ ReadEnds(id) \/ ReaderCloses(id)
             \/ WriteChunk(id) \/ WriterCloses(id) \/ WriterStops(id)
      PROVE  TcpInv'
  BY <1>1, GoroutineSteps, StreamStepKeepsTcpInv
<1>2. CASE UNCHANGED vars
  <2>1. RoutesKept
    BY <1>2 DEF vars, clientVars, TcpInv, TcpTypeOK, RoutesKept, Shape
  <2>2. StreamStep /\ UNCHANGED deliverer
    BY <1>2, <2>1 DEF vars, clientVars, StreamStep, workerVars
  <2> QED
    BY <2>2, StreamStepKeepsTcpInv
<1> QED
  BY <1>1, <1>2, AcceptKeepsTcpInv, SupervisorKeepsTcpInv, OtherStepsKeepTcpInv, DeliverSteps
  DEF TcpStep, SharedStep

----------------------------------------------------------------------------
(* Both adapters *)

\* NewIngress makes one adapter; the other's state stays as it was made.
IngressInv ==
    /\ WorkersInv
    /\ adapter \in {"tcp", "udp"}
    /\ adapter = "tcp" => TcpInv /\ NoUdp
    /\ adapter = "udp" => UdpInv /\ NoTcp

LEMMA IngressInitial == Init => IngressInv
<1>1. Init => NoTcp /\ adapter \in {"tcp", "udp"}
  BY DEF Init, ClientInit, NoTcp
<1> QED
  BY <1>1, WorkersInitial, UdpInitial, TcpInitial DEF IngressInv

LEMMA IngressPreserved == IngressInv /\ [Next]_vars => IngressInv'
<1> SUFFICES ASSUME IngressInv, [Next]_vars PROVE IngressInv'
  OBVIOUS
<1>1. WorkersInv' /\ adapter' = adapter
  BY WorkersPreserved DEF IngressInv, Next, vars
<1>2. CASE adapter = "tcp"
  <2>1. \/ SharedStep /\ UNCHANGED udpVars
        \/ TcpStep /\ UNCHANGED udpVars
        \/ (\E w \in Workers : Receive(w)) /\ UNCHANGED udpVars
        \/ UNCHANGED vars
    BY <1>2 DEF Next
  <2>2. TcpInv'
    BY <2>1, <1>2, TcpPreserved DEF IngressInv
  <2>3. NoUdp'
    BY <2>1, <1>2 DEF IngressInv, NoUdp, udpVars, vars
  <2> QED
    BY <1>1, <1>2, <2>2, <2>3 DEF IngressInv
<1>3. CASE adapter = "udp"
  <2>1. \/ SharedStep /\ UNCHANGED udpVars
        \/ UdpStep
        \/ UNCHANGED vars
    BY <1>3 DEF Next
  <2>2. UdpInv'
    BY <2>1, <1>3, UdpPreserved DEF IngressInv
  <2>3. NoTcp'
    <3>1. CASE SharedStep \/ UNCHANGED vars
      BY <3>1, <1>3
      DEF IngressInv, NoTcp, SharedStep, Cancel, AfterFuncFires, WorkerFails, RemoveRoute,
          vars, clientVars
    <3>2. CASE UdpStep
      BY <3>2, <1>3
      DEF IngressInv, NoTcp, UdpStep, ReadLocal, storeRoute, QueueDatagram, UdpRunReturns,
          CloseSocket, UdpWorkerReady, WorkerReady, deleteRoute, TransmitDatagram,
          TransmitFrame, streamVars, ingressVars
    <3> QED
      BY <2>1, <3>1, <3>2
  <2> QED
    BY <1>1, <1>3, <2>2, <2>3 DEF IngressInv
<1> QED
  BY <1>2, <1>3 DEF IngressInv

\* A reply that comes in through a worker of UDP ingress finds a sender in the
\* map, and one that sent through this incarnation of the worker: storeRoute,
\* Remove and SetReady may fall in any order.
THEOREM RepliesReachTheirSendersHolds == Spec => []RepliesReachTheirSenders
<1>1. IngressInv => RepliesReachTheirSenders
  BY DEF IngressInv, UdpInv, SendersAreStored, NoUdp, RepliesReachTheirSenders, DeliverDatagram
<1> QED
  BY <1>1, IngressInitial, IngressPreserved, PTL DEF Spec

\* Remove of TCP ingress leaves at most one stream behind on the route it
\* removed, whatever the accept loop was doing meanwhile.
THEOREM AtMostOneStrayHolds == Spec => []AtMostOneStray
<1>1. IngressInv => AtMostOneStray
  <2> SUFFICES ASSUME IngressInv, SupervisorFree, NEW r \in Routes, ~RouteIsSet(r)
               PROVE  Cardinality(Strays(r)) <= 1
    BY DEF AtMostOneStray
  <2>1. \A i, j \in Strays(r) : i = j
    <3>1. CASE adapter = "tcp"
      <4>1. link[r.index] /= "removing"
        BY RoutesArePairs DEF SupervisorFree
      <4> QED
        BY <3>1, <4>1 DEF IngressInv, TcpInv, StraysAreFew
    <3>2. CASE adapter = "udp"
      BY <3>2 DEF IngressInv, NoTcp, Strays
    <3> QED
      BY <3>1, <3>2 DEF IngressInv
  <2>2. CASE Strays(r) = {}
    BY <2>2, FS_EmptySet
  <2>3. CASE Strays(r) /= {}
    <3>1. PICK i : Strays(r) = {i}
      BY <2>1, <2>3
    <3> QED
      BY <3>1, FS_Singleton
  <2> QED
    BY <2>2, <2>3
<1> QED
  BY <1>1, IngressInitial, IngressPreserved, PTL DEF Spec

\* What may take the stream id out of the map in this step.
MayClose(id) ==
    \/ ctxDone
    \/ ~RouteIsSet(local[id].route)
    \/ "notifying" \in {local[id].reader, local[id].writer}
    \/ id \in Opening
    \/ deliverer[local[id].route.index] = id
    \/ DeliverClose(local[id].route.index, id)

\* Each step of TCP ingress closes only streams it may close.
LEMMA ClosersAreEntitled ==
    ASSUME IngressInv, Next, NEW id \in streams \ streams'
    PROVE  MayClose(id)
<1> USE DEF MayClose
<1>0. adapter = "tcp" /\ WorkersInv /\ TcpInv
  BY DEF IngressInv, NoTcp
<1>1. CASE SharedStep
  BY <1>1 DEF SharedStep, Cancel, AfterFuncFires, WorkerFails, RemoveRoute
<1>2. ASSUME NEW w \in Workers, Receive(w) PROVE MayClose(id)
  <2>1. PICK s \in streams :
          /\ local[s].route = Route(w, generation[w])
          /\ \E frame \in Replies(s) :
                IF frame.kind = "data" THEN DeliverData(w, frame) ELSE DeliverClose(w, s)
    BY <1>2 DEF Receive
  <2>2. DeliverClose(w, s)
    BY <2>1 DEF DeliverData
  <2>3. s = id
    BY <2>2 DEF DeliverClose, closeStream
  <2>4. local[id].route.index = w
    BY <2>1, <2>3 DEF Route
  <2> QED
    BY <2>2, <2>3, <2>4
<1>3. CASE TcpStep
  <2>1. CASE AcceptConn \/ StoreStream \/ OpenQueued \/ AcceptFails \/ CloseIngress
    BY <2>1 DEF AcceptConn, StoreStream, OpenQueued, AcceptFails, CloseIngress
  <2>2. CASE OpenRefused
    BY <2>2 DEF OpenRefused, closeStream, Opening
  <2>3. ASSUME NEW s \in StreamIDs,
               \/ ReadChunk(s) \/ SendChunk(s) \/ ReadEnds(s) \/ ReaderCloses(s)
               \/ WriteChunk(s) \/ WriterCloses(s) \/ WriterStops(s)
        PROVE  MayClose(id)
    BY <2>3 DEF ReadChunk, SendChunk, ReadEnds, ReaderCloses, WriteChunk, WriterCloses,
                WriterStops, closeStream
  <2>4. ASSUME NEW w \in Workers, DelivererCloses(w) PROVE MayClose(id)
    <3>1. deliverer[w] /= 0 /\ deliverer[w] = id
      BY <2>4 DEF DelivererCloses, closeStream
    <3>2. local[id].route.index = w
      BY <1>0, <3>1 DEF TcpInv, DelivererIsAtItsStream
    <3> QED
      BY <3>1, <3>2
  <2>5. ASSUME NEW w \in Workers, CloseWorkerStreams(w) PROVE MayClose(id)
    <3>1. link[w] = "removing" /\ local[id].route.index = w
      BY <2>5 DEF CloseWorkerStreams, StreamsOf
    <3> QED
      BY <1>0, <3>1 DEF WorkersInv, RoutesAreLive, RouteIsSet
  <2>6. ASSUME NEW w \in Workers, WorkerReady(w) \/ TransmitFrame(w) PROVE MayClose(id)
    BY <2>6 DEF WorkerReady, TransmitFrame
  <2> QED
    BY <1>3, <2>1, <2>2, <2>3, <2>4, <2>5, <2>6 DEF TcpStep
<1> QED
  BY <1>0, <1>1, <1>2, <1>3 DEF Next

\* A stream of TCP ingress is closed by nobody but its own goroutines, its own
\* worker's frames, the loss of its route or the end of the session.
THEOREM UnrelatedStreamsSurviveHolds == Spec => UnrelatedStreamsSurvive
<1>1. IngressInv /\ [Next]_vars =>
        [\A id \in streams \ streams' :
            \/ ctxDone
            \/ ~RouteIsSet(local[id].route)
            \/ "notifying" \in {local[id].reader, local[id].writer}
            \/ id \in Opening
            \/ deliverer[local[id].route.index] = id
            \/ DeliverClose(local[id].route.index, id)]_clientVars
  <2> SUFFICES ASSUME IngressInv, [Next]_vars, ~UNCHANGED clientVars,
                      NEW id \in streams \ streams'
               PROVE  MayClose(id)
    BY DEF MayClose
  <2>1. Next
    BY DEF vars
  <2> QED
    BY <2>1, ClosersAreEntitled
<1> QED
  BY <1>1, IngressInitial, IngressPreserved, PTL DEF Spec, UnrelatedStreamsSurvive

=============================================================================
