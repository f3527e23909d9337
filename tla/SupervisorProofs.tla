-------------------------- MODULE SupervisorProofs --------------------------
(***************************************************************************)
(* Proofs about Supervisor, for every number of connections and every      *)
(* restart budget.                                                         *)
(***************************************************************************)
EXTENDS Supervisor, FiniteSetTheorems, TLAPS

----------------------------------------------------------------------------
(* The worker set *)

Routes == [index : Workers, generation : Nat]

WorkerSets == [workers : Seq(Routes), next : Nat]

Distinct(w) ==
    \A j, k \in DOMAIN w.workers : w.workers[j].index = w.workers[k].index => j = k

\* DropAt takes one element out of a sequence and keeps the others in order.
LEMMA DropAtProperties ==
    ASSUME NEW S, NEW s \in Seq(S), NEW k \in DOMAIN s
    PROVE  /\ DropAt(s, k) \in Seq(S)
           /\ DOMAIN DropAt(s, k) = 1 .. Len(s) - 1
           /\ \A j \in 1 .. Len(s) - 1 :
                 DropAt(s, k)[j] = IF j < k THEN s[j] ELSE s[j + 1]
<1>1. DOMAIN s = 1 .. Len(s) /\ Len(s) \in Nat /\ Len(s) > 0
  OBVIOUS
<1>2. \A j \in 1 .. Len(s) - 1 : s[j] \in S /\ s[j + 1] \in S
  BY <1>1
<1>3. DropAt(s, k) \in [1 .. Len(s) - 1 -> S]
  BY <1>2 DEF DropAt
<1>4. Len(s) - 1 \in Nat
  BY <1>1
<1>5. DropAt(s, k) \in Seq(S)
  BY <1>3, <1>4
<1> QED
  BY <1>5 DEF DropAt

\* PositionOf finds the route of a worker that has one.
LEMMA PositionOfFinds ==
    ASSUME NEW w \in WorkerSets, NEW i \in RouteIndexes(w)
    PROVE  /\ PositionOf(w, i) \in DOMAIN w.workers
           /\ w.workers[PositionOf(w, i)].index = i
<1>1. \E k \in DOMAIN w.workers : w.workers[k].index = i
  BY DEF RouteIndexes
<1> QED
  BY <1>1, Zenon DEF PositionOf

\* Remove takes the worker's route out of the set and leaves every other.
LEMMA RemoveProperties ==
    ASSUME NEW w \in WorkerSets, Distinct(w), NEW i \in Workers
    PROVE  /\ Remove(w, i) \in WorkerSets
           /\ Distinct(Remove(w, i))
           /\ RouteIndexes(Remove(w, i)) = RouteIndexes(w) \ {i}
           /\ \A k \in DOMAIN Remove(w, i).workers :
                 \E j \in DOMAIN w.workers : Remove(w, i).workers[k] = w.workers[j]
<1>1. CASE i \notin RouteIndexes(w)
  BY <1>1 DEF Remove, RemoveLocked
<1>2. CASE i \in RouteIndexes(w)
  <2> DEFINE p == PositionOf(w, i)
             s == w.workers
             rest == DropAt(s, p)
  <2>1. p \in DOMAIN s /\ s[p].index = i
    BY <1>2, PositionOfFinds
  <2>2. s \in Seq(Routes) /\ w.next \in Nat
    BY DEF WorkerSets
  <2>3. /\ rest \in Seq(Routes)
        /\ DOMAIN rest = 1 .. Len(s) - 1
        /\ \A j \in 1 .. Len(s) - 1 : rest[j] = IF j < p THEN s[j] ELSE s[j + 1]
    BY <2>1, <2>2, DropAtProperties
  <2>4. Remove(w, i) = [workers |-> rest, next |-> ClampNext(rest, w.next)]
    BY <1>2 DEF Remove, RemoveLocked
  <2>5. ClampNext(rest, w.next) \in Nat
    BY <2>2 DEF ClampNext
  <2>6. Remove(w, i) \in WorkerSets
    BY <2>3, <2>4, <2>5 DEF WorkerSets
  <2>7. Remove(w, i).workers = rest
    BY <2>4
  <2>8. DOMAIN s = 1 .. Len(s) /\ Len(s) \in Nat
    BY <2>2
  <2>9. \A j \in DOMAIN rest : \E k \in DOMAIN s : k # p /\ rest[j] = s[k]
    <3> TAKE j \in DOMAIN rest
    <3>1. CASE j < p
      BY <3>1, <2>1, <2>3, <2>8
    <3>2. CASE ~(j < p)
      <4>1. j + 1 \in DOMAIN s /\ j + 1 # p /\ rest[j] = s[j + 1]
        BY <3>2, <2>1, <2>3, <2>8
      <4> QED
        BY <4>1
    <3> QED
      BY <3>1, <3>2
  <2>10. \A k \in DOMAIN s : k # p => \E j \in DOMAIN rest : rest[j] = s[k]
    <3> SUFFICES ASSUME NEW k \in DOMAIN s, k # p
                 PROVE  \E j \in DOMAIN rest : rest[j] = s[k]
      OBVIOUS
    <3>1. CASE k < p
      BY <3>1, <2>1, <2>3, <2>8
    <3>2. CASE k > p
      <4>1. k - 1 \in DOMAIN rest /\ ~(k - 1 < p) /\ (k - 1) + 1 = k
        BY <3>2, <2>1, <2>3, <2>8
      <4> QED
        BY <4>1, <2>3
    <3> QED
      BY <3>1, <3>2, <2>1, <2>8
  <2>11. Distinct(Remove(w, i))
    <3> SUFFICES ASSUME NEW a \in DOMAIN rest, NEW b \in DOMAIN rest,
                        rest[a].index = rest[b].index
                 PROVE  a = b
      BY <2>7 DEF Distinct
    <3> DEFINE up(x) == IF x < p THEN x ELSE x + 1
    <3>1. up(a) \in DOMAIN s /\ up(b) \in DOMAIN s
      BY <2>3, <2>8
    <3>2. rest[a] = s[up(a)] /\ rest[b] = s[up(b)]
      BY <2>3
    <3>3. up(a) = up(b)
      BY <3>1, <3>2 DEF Distinct
    <3> QED
      BY <3>3, <2>1, <2>3, <2>8
  <2>12. RouteIndexes(Remove(w, i)) = RouteIndexes(w) \ {i}
    <3>1. \A k \in DOMAIN s : k # p => s[k].index # i
      BY <2>1 DEF Distinct
    <3> QED
      BY <3>1, <2>1, <2>7, <2>9, <2>10 DEF RouteIndexes
  <2> QED
    BY <2>6, <2>7, <2>9, <2>11, <2>12
<1> QED
  BY <1>1, <1>2

\* SetReady gives the worker one route, that of the given generation, and
\* leaves the routes of the other workers as they were.
LEMMA SetReadyProperties ==
    ASSUME NEW w \in WorkerSets, Distinct(w), NEW i \in Workers, NEW g \in Nat
    PROVE  /\ SetReady(w, i, g) \in WorkerSets
           /\ Distinct(SetReady(w, i, g))
           /\ RouteIndexes(SetReady(w, i, g)) = RouteIndexes(w) \cup {i}
           /\ \A k \in DOMAIN SetReady(w, i, g).workers :
                 \/ SetReady(w, i, g).workers[k] = Route(i, g)
                 \/ \E j \in DOMAIN w.workers :
                       SetReady(w, i, g).workers[k] = w.workers[j]
<1> DEFINE kept == Remove(w, i)
           s == kept.workers
           all == Append(s, Route(i, g))
<1>1. /\ kept \in WorkerSets
      /\ Distinct(kept)
      /\ RouteIndexes(kept) = RouteIndexes(w) \ {i}
      /\ \A k \in DOMAIN s : \E j \in DOMAIN w.workers : s[k] = w.workers[j]
  BY RemoveProperties
<1> HIDE DEF kept
<1>2. s \in Seq(Routes) /\ kept.next \in Nat
  BY <1>1 DEF WorkerSets
<1>3. Route(i, g) \in Routes /\ Route(i, g).index = i
  BY DEF Route, Routes
<1>4. SetReady(w, i, g) = [workers |-> all, next |-> ClampNext(all, kept.next)]
  BY DEF SetReady, Remove, kept
<1>5. ClampNext(all, kept.next) \in Nat
  BY <1>2 DEF ClampNext
<1>6. all \in Seq(Routes)
  BY <1>2, <1>3
<1>7. SetReady(w, i, g) \in WorkerSets /\ SetReady(w, i, g).workers = all
  BY <1>4, <1>5, <1>6 DEF WorkerSets
<1>8. /\ DOMAIN all = 1 .. Len(s) + 1
      /\ DOMAIN s = 1 .. Len(s)
      /\ Len(s) \in Nat
      /\ \A k \in DOMAIN s : all[k] = s[k]
      /\ all[Len(s) + 1] = Route(i, g)
  BY <1>2, <1>3
<1>9. \A k \in DOMAIN all : (k \in DOMAIN s /\ all[k] = s[k]) \/ k = Len(s) + 1
  BY <1>8
<1>10. \A k \in DOMAIN s : s[k].index # i
  BY <1>1 DEF RouteIndexes
<1>11. Distinct(SetReady(w, i, g))
  <2> SUFFICES ASSUME NEW a \in DOMAIN all, NEW b \in DOMAIN all,
                      all[a].index = all[b].index
               PROVE  a = b
    BY <1>7 DEF Distinct
  <2> QED
    BY <1>1, <1>3, <1>8, <1>9, <1>10 DEF Distinct
<1>12. RouteIndexes(SetReady(w, i, g)) = RouteIndexes(w) \cup {i}
  <2>1. RouteIndexes(SetReady(w, i, g)) = RouteIndexes(kept) \cup {i}
    <3>1. Len(s) + 1 \in DOMAIN all /\ \A k \in DOMAIN s : k \in DOMAIN all
      BY <1>8
    <3> QED
      BY <3>1, <1>3, <1>7, <1>8, <1>9 DEF RouteIndexes
  <2> QED
    BY <2>1, <1>1
<1> QED
  BY <1>1, <1>7, <1>8, <1>9, <1>11, <1>12

----------------------------------------------------------------------------
(* The inductive invariant *)

Exited(i) == runner[i].pc = "exited"

\* Until supervision starts there is no worker and nothing in flight.
NothingStarted ==
    phase \in {"new", "resolving"} =>
        /\ readyCh = <<>> /\ resultCh = <<>> /\ restartCh = <<>>
        /\ backoff = {}
        /\ ws = EmptyWorkerSet
        /\ \A i \in Workers : runner[i].pc = "idle" /\ ~states[i].ready

\* A goroutine belongs to its worker's current generation, and a worker that
\* has not yet announced itself is not ready.
RunnersCurrent ==
    \A i \in Workers :
        /\ runner[i].pc # "idle" => runner[i].generation = states[i].generation
        /\ runner[i].pc \in {"setup", "announcing"} => ~states[i].ready
        /\ phase = "supervising" => runner[i].pc # "idle"

\* A ready event under way is of the current generation, the worker is not
\* ready yet and no restart of it is under way.
EventsCurrent ==
    /\ \A k \in DOMAIN readyCh :
          /\ readyCh[k].generation = states[readyCh[k].index].generation
          /\ ~states[readyCh[k].index].ready
          /\ runner[readyCh[k].index].pc \in {"forwarding", "returning", "exited"}
          /\ readyCh[k].index \notin backoff
          /\ \A m \in DOMAIN restartCh : restartCh[m] # readyCh[k].index
    /\ \A j, k \in DOMAIN readyCh : readyCh[j].index = readyCh[k].index => j = k

\* A result under way is of the current generation; its goroutine has ended
\* and no restart is under way.
ResultsCurrent ==
    /\ \A k \in DOMAIN resultCh :
          /\ resultCh[k].generation = states[resultCh[k].index].generation
          /\ Exited(resultCh[k].index)
          /\ resultCh[k].index \notin backoff
          /\ \A m \in DOMAIN restartCh : restartCh[m] # resultCh[k].index
    /\ \A j, k \in DOMAIN resultCh : resultCh[j].index = resultCh[k].index => j = k

\* While a restart is under way, as a timer or as a request, the worker has
\* ended and is not ready; and it is under way only once.
RestartsIdle ==
    /\ \A i \in backoff :
          /\ Exited(i) /\ ~states[i].ready
          /\ \A m \in DOMAIN restartCh : restartCh[m] # i
    /\ \A k \in DOMAIN restartCh :
          Exited(restartCh[k]) /\ ~states[restartCh[k]].ready
    /\ \A j, k \in DOMAIN restartCh : restartCh[j] = restartCh[k] => j = k

\* A supervised worker is not lost before cancellation.
NobodyLost ==
    phase = "supervising" /\ ~cancelled =>
        \A i \in Workers : Alive(i) \/ Reported(i) \/ i \in backoff \/ RestartQueued(i)

\* How cancellation, the phase and the session error go together.
ControlFlow ==
    /\ ctxDone => cancelled
    /\ phase \in {"new", "resolving", "supervising"} /\ cancelled => ctxDone
    /\ phase \in {"new", "resolving", "supervising"} => sessionErr = "none"
    /\ phase = "draining" /\ sessionErr = "none" => ctxDone
    /\ \A k \in DOMAIN ingressErrCh : ingressErrCh[k] = "nil" => cancelled

IInv ==
    /\ TypeOK
    /\ ReadyAccounting
    /\ NothingStarted
    /\ RunnersCurrent
    /\ EventsCurrent
    /\ ResultsCurrent
    /\ RestartsIdle
    /\ NobodyLost
    /\ ControlFlow
----------------------------------------------------------------------------
(* Channels: what a send and a receive do to the elements *)

\* What a send leaves in a channel.
LEMMA AppendElements ==
    ASSUME NEW S, NEW s \in Seq(S), NEW e \in S
    PROVE  /\ Append(s, e) \in Seq(S)
           /\ \A k \in DOMAIN Append(s, e) :
                 \/ k \in DOMAIN s /\ Append(s, e)[k] = s[k]
                 \/ k = Len(s) + 1 /\ Append(s, e)[k] = e
           /\ \A k \in DOMAIN s : k \in DOMAIN Append(s, e) /\ Append(s, e)[k] = s[k]
           /\ Len(s) + 1 \in DOMAIN Append(s, e) /\ Append(s, e)[Len(s) + 1] = e
           /\ Len(s) + 1 \notin DOMAIN s
  OBVIOUS

\* What a receive takes from a channel and leaves in it.
LEMMA TailElements ==
    ASSUME NEW S, NEW s \in Seq(S), s # <<>>
    PROVE  /\ Tail(s) \in Seq(S)
           /\ 1 \in DOMAIN s /\ Head(s) = s[1] /\ Head(s) \in S
           /\ \A k \in DOMAIN Tail(s) :
                 k + 1 \in DOMAIN s /\ k + 1 # 1 /\ Tail(s)[k] = s[k + 1] /\ k \in Int
           /\ \A k \in DOMAIN s :
                 k # 1 => \E j \in DOMAIN Tail(s) : Tail(s)[j] = s[k]
<1>1. /\ Tail(s) \in Seq(S)
      /\ 1 \in DOMAIN s /\ Head(s) = s[1] /\ Head(s) \in S
      /\ DOMAIN Tail(s) = 1 .. Len(s) - 1 /\ DOMAIN s = 1 .. Len(s) /\ Len(s) \in Nat
      /\ \A k \in DOMAIN Tail(s) : Tail(s)[k] = s[k + 1]
  OBVIOUS
<1>2. ASSUME NEW k \in DOMAIN s, k # 1
      PROVE  \E j \in DOMAIN Tail(s) : Tail(s)[j] = s[k]
  <2>1. k - 1 \in DOMAIN Tail(s) /\ (k - 1) + 1 = k
    BY <1>1, <1>2
  <2> QED
    BY <2>1, <1>1
<1> QED
  BY <1>1, <1>2

Events == [index : Workers, generation : Nat]

Results == [index : Workers, generation : Nat, err : RunErrors]

\* What the channels hold is about workers of the session.
LEMMA ElementTypes ==
    ASSUME TypeOK
    PROVE  /\ readyCh \in Seq(Events) /\ resultCh \in Seq(Results) /\ restartCh \in Seq(Workers)
           /\ \A k \in DOMAIN readyCh : readyCh[k] \in Events /\ readyCh[k].index \in Workers
           /\ \A k \in DOMAIN resultCh : resultCh[k] \in Results /\ resultCh[k].index \in Workers
           /\ \A k \in DOMAIN restartCh : restartCh[k] \in Workers
<1>1. readyCh \in Seq(Events) /\ resultCh \in Seq(Results) /\ restartCh \in Seq(Workers)
  BY DEF TypeOK, Events, Results
<1>2. /\ \A k \in DOMAIN readyCh : readyCh[k] \in Events
      /\ \A k \in DOMAIN resultCh : resultCh[k] \in Results
      /\ \A k \in DOMAIN restartCh : restartCh[k] \in Workers
  BY <1>1
<1> QED
  BY <1>1, <1>2 DEF Events, Results

----------------------------------------------------------------------------
(* Every action keeps the invariant *)

Counters == [starts : Nat, failures : Nat, startupFailures : Nat]

\* Counting a failure leaves counters.
LEMMA CountFailureType ==
    ASSUME metrics \in Counters, NEW startup \in BOOLEAN, CountFailure(startup)
    PROVE  metrics' \in Counters
<1>1. metrics.starts \in Nat /\ metrics.failures + 1 \in Nat
  BY DEF Counters
<1>2. metrics.startupFailures + (IF startup THEN 1 ELSE 0) \in Nat
  BY DEF Counters
<1>3. metrics' = [starts |-> metrics.starts, failures |-> metrics.failures + 1,
                  startupFailures |-> metrics.startupFailures + (IF startup THEN 1 ELSE 0)]
  BY DEF Counters, CountFailure
<1> QED
  BY <1>1, <1>2, <1>3 DEF Counters

\* Cancel only tells the contexts.
LEMMA CancelStep ==
    ASSUME IInv, Cancel
    PROVE  IInv'
<1>1. TypeOK'
  BY DEF IInv, TypeOK, Cancel, ctxVars, chanVars, loopVars, reportVars
<1>2. ReadyAccounting'
  BY DEF IInv, ReadyAccounting, ReadySet, RouteIndexes, Cancel, ctxVars, chanVars, loopVars, reportVars
<1>3. NothingStarted'
  BY DEF IInv, NothingStarted, TypeOK, Cancel, ctxVars, chanVars, loopVars, reportVars
<1>4. RunnersCurrent'
  BY DEF IInv, RunnersCurrent, TypeOK, Cancel, ctxVars, chanVars, loopVars, reportVars
<1>5. EventsCurrent'
  BY ElementTypes DEF IInv, EventsCurrent, RunnersCurrent, TypeOK, Cancel, ctxVars, chanVars, loopVars, reportVars
<1>6. ResultsCurrent'
  BY ElementTypes DEF IInv, ResultsCurrent, RunnersCurrent, RestartsIdle, Exited, TypeOK, Cancel, ctxVars, chanVars, loopVars, reportVars
<1>7. RestartsIdle'
  BY ElementTypes DEF IInv, RestartsIdle, Exited, TypeOK, Cancel, ctxVars, chanVars, loopVars, reportVars
<1>8. NobodyLost'
  BY DEF IInv, NobodyLost, Alive, Reported, RestartQueued, TypeOK, Cancel, ctxVars, chanVars, loopVars, reportVars
<1>9. ControlFlow'
  BY DEF IInv, ControlFlow, Cancel, ctxVars, chanVars, loopVars, reportVars
<1> QED
  BY <1>1, <1>2, <1>3, <1>4, <1>5, <1>6, <1>7, <1>8, <1>9 DEF IInv

\* Startup only moves the phase.
LEMMA StartupStep ==
    ASSUME IInv, Startup
    PROVE  IInv'
<1>1. TypeOK'
  BY DEF IInv, TypeOK, Startup, Runtime!Events, Phases, ctxVars, chanVars, loopVars, reportVars
<1>2. ReadyAccounting'
  BY DEF IInv, ReadyAccounting, ReadySet, RouteIndexes, Startup, Runtime!Events, Phases, ctxVars, chanVars, loopVars, reportVars
<1>3. NothingStarted'
  BY DEF IInv, NothingStarted, TypeOK, Startup, Runtime!Events, Phases, ctxVars, chanVars, loopVars, reportVars
<1>4. RunnersCurrent'
  BY DEF IInv, RunnersCurrent, TypeOK, Startup, Runtime!Events, Phases, ctxVars, chanVars, loopVars, reportVars
<1>5. EventsCurrent'
  BY ElementTypes DEF IInv, EventsCurrent, RunnersCurrent, TypeOK, Startup, Runtime!Events, Phases, ctxVars, chanVars, loopVars, reportVars
<1>6. ResultsCurrent'
  BY ElementTypes DEF IInv, ResultsCurrent, RunnersCurrent, RestartsIdle, Exited, TypeOK, Startup, Runtime!Events, Phases, ctxVars, chanVars, loopVars, reportVars
<1>7. RestartsIdle'
  BY ElementTypes DEF IInv, RestartsIdle, Exited, TypeOK, Startup, Runtime!Events, Phases, ctxVars, chanVars, loopVars, reportVars
<1>8. NobodyLost'
  BY DEF IInv, NobodyLost, Alive, Reported, RestartQueued, TypeOK, Startup, Runtime!Events, Phases, ctxVars, chanVars, loopVars, reportVars
<1>9. ControlFlow'
  BY DEF IInv, ControlFlow, Startup, Runtime!Events, Phases, ctxVars, chanVars, loopVars, reportVars
<1> QED
  BY <1>1, <1>2, <1>3, <1>4, <1>5, <1>6, <1>7, <1>8, <1>9 DEF IInv

\* Reject ends a session that started nothing.
LEMMA RejectStep ==
    ASSUME IInv, Reject
    PROVE  IInv'
<1>1. TypeOK'
  <2>1. metrics' \in Counters
    BY CountFailureType DEF IInv, TypeOK, Reject, Counters
  <2> QED
    BY <2>1 DEF IInv, TypeOK, Reject, Runtime!Events, SessionErrors, Phases, Counters,
                ctxVars, chanVars, loopVars
<1>2. ReadyAccounting'
  BY DEF IInv, ReadyAccounting, ReadySet, RouteIndexes, Reject, CountFailure, Runtime!Events, SessionErrors, Phases, ctxVars, chanVars, loopVars, reportVars
<1>3. NothingStarted'
  BY DEF IInv, NothingStarted, TypeOK, Reject, CountFailure, Runtime!Events, SessionErrors, Phases, ctxVars, chanVars, loopVars, reportVars
<1>4. RunnersCurrent'
  BY DEF IInv, RunnersCurrent, TypeOK, Reject, CountFailure, Runtime!Events, SessionErrors, Phases, ctxVars, chanVars, loopVars, reportVars
<1>5. EventsCurrent'
  BY ElementTypes DEF IInv, EventsCurrent, RunnersCurrent, TypeOK, Reject, CountFailure, Runtime!Events, SessionErrors, Phases, ctxVars, chanVars, loopVars, reportVars
<1>6. ResultsCurrent'
  BY ElementTypes DEF IInv, ResultsCurrent, RunnersCurrent, RestartsIdle, Exited, TypeOK, Reject, CountFailure, Runtime!Events, SessionErrors, Phases, ctxVars, chanVars, loopVars, reportVars
<1>7. RestartsIdle'
  BY ElementTypes DEF IInv, RestartsIdle, Exited, TypeOK, Reject, CountFailure, Runtime!Events, SessionErrors, Phases, ctxVars, chanVars, loopVars, reportVars
<1>8. NobodyLost'
  BY DEF IInv, NobodyLost, Alive, Reported, RestartQueued, TypeOK, Reject, CountFailure, Runtime!Events, SessionErrors, Phases, ctxVars, chanVars, loopVars, reportVars
<1>9. ControlFlow'
  BY DEF IInv, ControlFlow, Reject, CountFailure, Runtime!Events, SessionErrors, Phases, ctxVars, chanVars, loopVars, reportVars
<1> QED
  BY <1>1, <1>2, <1>3, <1>4, <1>5, <1>6, <1>7, <1>8, <1>9 DEF IInv

\* RunnerConnected moves one goroutine.
LEMMA RunnerConnectedStep ==
    ASSUME IInv, NEW i \in Workers, RunnerConnected(i)
    PROVE  IInv'
<1>a. \A j \in Workers : Exited(j) => Exited(j)'
  BY DEF IInv, TypeOK, Exited, RunnerConnected
<1>1. TypeOK'
  BY DEF IInv, TypeOK, RunnerConnected, RunnerPCs, ctxVars, chanVars, loopVars, reportVars
<1>2. ReadyAccounting'
  BY DEF IInv, ReadyAccounting, ReadySet, RouteIndexes, RunnerConnected, RunnerPCs, ctxVars, chanVars, loopVars, reportVars
<1>3. NothingStarted'
  BY DEF IInv, NothingStarted, TypeOK, RunnerConnected, RunnerPCs, ctxVars, chanVars, loopVars, reportVars
<1>4. RunnersCurrent'
  BY DEF IInv, RunnersCurrent, TypeOK, RunnerConnected, RunnerPCs, ctxVars, chanVars, loopVars, reportVars
<1>5. EventsCurrent'
  BY ElementTypes DEF IInv, EventsCurrent, RunnersCurrent, TypeOK, RunnerConnected, RunnerPCs, ctxVars, chanVars, loopVars, reportVars
<1>6. ResultsCurrent'
  BY <1>a, ElementTypes DEF IInv, ResultsCurrent, RunnerConnected, chanVars, loopVars
<1>7. RestartsIdle'
  BY ElementTypes DEF IInv, RestartsIdle, Exited, TypeOK, RunnerConnected, RunnerPCs, ctxVars, chanVars, loopVars, reportVars
<1>8. NobodyLost'
  BY DEF IInv, NobodyLost, Alive, Reported, RestartQueued, TypeOK, RunnerConnected, RunnerPCs, ctxVars, chanVars, loopVars, reportVars
<1>9. ControlFlow'
  BY DEF IInv, ControlFlow, RunnerConnected, RunnerPCs, ctxVars, chanVars, loopVars, reportVars
<1> QED
  BY <1>1, <1>2, <1>3, <1>4, <1>5, <1>6, <1>7, <1>8, <1>9 DEF IInv

\* OnReady adds the one ready event of its worker.
LEMMA OnReadyStep ==
    ASSUME IInv, NEW i \in Workers, OnReady(i)
    PROVE  IInv'
<1> DEFINE e == [index |-> i, generation |-> runner[i].generation]
<1>a. e \in Events
  BY DEF IInv, TypeOK, Events
<1>b. readyCh' = Append(readyCh, e) \/ readyCh' = readyCh
  BY DEF OnReady
<1>c. /\ readyCh' \in Seq(Events)
      /\ \A k \in DOMAIN readyCh' :
            \/ k \in DOMAIN readyCh /\ readyCh'[k] = readyCh[k]
            \/ k = Len(readyCh) + 1 /\ readyCh'[k] = e
  <2> HIDE DEF e
  <2>1. readyCh \in Seq(Events)
    BY ElementTypes DEF IInv
  <2> QED
    BY <1>a, <1>b, <2>1, AppendElements
<1>d. /\ \A j \in Workers : Exited(j) => Exited(j)'
      /\ \A j \in Workers : j # i => runner'[j] = runner[j]
      /\ runner'[i].pc = "forwarding" /\ runner[i].pc = "announcing"
      /\ runner[i].generation = states[i].generation
  BY DEF IInv, TypeOK, RunnersCurrent, Exited, OnReady
<1>1. TypeOK'
  <2>1. runner' \in [Workers -> [pc : RunnerPCs, generation : Nat, err : RunErrors]]
    BY DEF IInv, TypeOK, OnReady, RunnerPCs
  <2>2. readyCh' \in Seq([index : Workers, generation : Nat])
    BY <1>c DEF Events
  <2> QED
    BY <2>1, <2>2 DEF IInv, TypeOK, OnReady, ctxVars, loopVars, reportVars
<1>2. ReadyAccounting'
  BY DEF IInv, ReadyAccounting, ReadySet, RouteIndexes, OnReady, RunnerPCs, ctxVars, chanVars, loopVars, reportVars
<1>3. NothingStarted'
  BY DEF IInv, NothingStarted, TypeOK, OnReady, RunnerPCs, ctxVars, chanVars, loopVars, reportVars
<1>4. RunnersCurrent'
  BY DEF IInv, RunnersCurrent, TypeOK, OnReady, RunnerPCs, ctxVars, chanVars, loopVars, reportVars
<1>5. EventsCurrent'
  <2>1. \A k \in DOMAIN readyCh : readyCh[k].index # i
    BY <1>d DEF IInv, EventsCurrent
  <2>2. i \notin backoff /\ \A m \in DOMAIN restartCh : restartCh[m] # i
    BY <1>d DEF IInv, RestartsIdle, Exited
  <2>3. ~states[i].ready
    BY <1>d DEF IInv, RunnersCurrent
  <2>4. \A k \in DOMAIN readyCh :
           runner'[readyCh[k].index].pc \in {"forwarding", "returning", "exited"}
    BY <2>1, <1>d, ElementTypes DEF IInv, EventsCurrent
  <2> QED
    BY <1>c, <1>d, <2>1, <2>2, <2>3, <2>4 DEF IInv, EventsCurrent, OnReady, loopVars
<1>6. ResultsCurrent'
  BY <1>d, ElementTypes DEF IInv, ResultsCurrent, OnReady, loopVars
<1>7. RestartsIdle'
  BY ElementTypes DEF IInv, RestartsIdle, Exited, TypeOK, OnReady, RunnerPCs, ctxVars, chanVars, loopVars, reportVars
<1>8. NobodyLost'
  BY DEF IInv, NobodyLost, Alive, Reported, RestartQueued, TypeOK, OnReady, RunnerPCs, ctxVars, chanVars, loopVars, reportVars
<1>9. ControlFlow'
  BY DEF IInv, ControlFlow, OnReady, RunnerPCs, ctxVars, chanVars, loopVars, reportVars
<1> QED
  BY <1>1, <1>2, <1>3, <1>4, <1>5, <1>6, <1>7, <1>8, <1>9 DEF IInv

\* RunnerReturns moves one goroutine.
LEMMA RunnerReturnsStep ==
    ASSUME IInv, NEW i \in Workers, NEW err \in RunErrors, RunnerReturns(i, err)
    PROVE  IInv'
<1>a. \A j \in Workers : Exited(j) => Exited(j)'
  BY DEF IInv, TypeOK, Exited, RunnerReturns
<1>1. TypeOK'
  BY DEF IInv, TypeOK, RunnerReturns, RunnerPCs, ctxVars, chanVars, loopVars, reportVars
<1>2. ReadyAccounting'
  BY DEF IInv, ReadyAccounting, ReadySet, RouteIndexes, RunnerReturns, RunnerPCs, ctxVars, chanVars, loopVars, reportVars
<1>3. NothingStarted'
  BY DEF IInv, NothingStarted, TypeOK, RunnerReturns, RunnerPCs, ctxVars, chanVars, loopVars, reportVars
<1>4. RunnersCurrent'
  BY DEF IInv, RunnersCurrent, TypeOK, RunnerReturns, RunnerPCs, ctxVars, chanVars, loopVars, reportVars
<1>5. EventsCurrent'
  <2>1. \A j \in Workers :
           runner[j].pc \in {"forwarding", "returning", "exited"} =>
              runner'[j].pc \in {"forwarding", "returning", "exited"}
    BY DEF IInv, TypeOK, RunnerReturns
  <2> QED
    BY <2>1, ElementTypes DEF IInv, EventsCurrent, RunnerReturns, chanVars, loopVars
<1>6. ResultsCurrent'
  BY <1>a, ElementTypes DEF IInv, ResultsCurrent, RunnerReturns, chanVars, loopVars
<1>7. RestartsIdle'
  BY ElementTypes DEF IInv, RestartsIdle, Exited, TypeOK, RunnerReturns, RunnerPCs, ctxVars, chanVars, loopVars, reportVars
<1>8. NobodyLost'
  BY DEF IInv, NobodyLost, Alive, Reported, RestartQueued, TypeOK, RunnerReturns, RunnerPCs, ctxVars, chanVars, loopVars, reportVars
<1>9. ControlFlow'
  BY DEF IInv, ControlFlow, RunnerReturns, RunnerPCs, ctxVars, chanVars, loopVars, reportVars
<1> QED
  BY <1>1, <1>2, <1>3, <1>4, <1>5, <1>6, <1>7, <1>8, <1>9 DEF IInv

\* SendResult hands the worker over from its goroutine to its result.
LEMMA SendResultStep ==
    ASSUME IInv, NEW i \in Workers, SendResult(i)
    PROVE  IInv'
<1> DEFINE r == [index |-> i, generation |-> runner[i].generation, err |-> runner[i].err]
<1>a. r \in Results
  BY DEF IInv, TypeOK, Results
<1>b. (resultCh' = Append(resultCh, r)) \/ (cancelled /\ resultCh' = resultCh)
  BY DEF SendResult
<1>c. /\ resultCh' \in Seq(Results)
      /\ \A k \in DOMAIN resultCh' :
            \/ k \in DOMAIN resultCh /\ resultCh'[k] = resultCh[k]
            \/ k = Len(resultCh) + 1 /\ resultCh'[k] = r
      /\ ~cancelled => /\ \A k \in DOMAIN resultCh : k \in DOMAIN resultCh' /\ resultCh'[k] = resultCh[k]
                       /\ Len(resultCh) + 1 \in DOMAIN resultCh'
                       /\ resultCh'[Len(resultCh) + 1] = r
  <2> HIDE DEF r
  <2>1. resultCh \in Seq(Results)
    BY ElementTypes DEF IInv
  <2> QED
    BY <1>a, <1>b, <2>1, AppendElements
<1>d. /\ \A j \in Workers : Exited(j) => Exited(j)'
      /\ \A j \in Workers : j # i => runner'[j] = runner[j]
      /\ Exited(i)' /\ ~Exited(i)
      /\ runner[i].generation = states[i].generation
  BY DEF IInv, TypeOK, RunnersCurrent, Exited, SendResult
<1>1. TypeOK'
  <2>1. runner' \in [Workers -> [pc : RunnerPCs, generation : Nat, err : RunErrors]]
    BY DEF IInv, TypeOK, SendResult, RunnerPCs
  <2>2. resultCh' \in Seq([index : Workers, generation : Nat, err : RunErrors])
    BY <1>c DEF Results
  <2> QED
    BY <2>1, <2>2 DEF IInv, TypeOK, SendResult, ctxVars, loopVars, reportVars
<1>2. ReadyAccounting'
  BY DEF IInv, ReadyAccounting, ReadySet, RouteIndexes, SendResult, RunnerPCs, ctxVars, chanVars, loopVars, reportVars
<1>3. NothingStarted'
  BY DEF IInv, NothingStarted, TypeOK, SendResult, RunnerPCs, ctxVars, chanVars, loopVars, reportVars
<1>4. RunnersCurrent'
  BY DEF IInv, RunnersCurrent, TypeOK, SendResult, RunnerPCs, ctxVars, chanVars, loopVars, reportVars
<1>5. EventsCurrent'
  BY ElementTypes DEF IInv, EventsCurrent, RunnersCurrent, TypeOK, SendResult, RunnerPCs, ctxVars, chanVars, loopVars, reportVars
<1>6. ResultsCurrent'
  <2>1. \A k \in DOMAIN resultCh : resultCh[k].index # i
    BY <1>d DEF IInv, ResultsCurrent
  <2>2. i \notin backoff /\ \A m \in DOMAIN restartCh : restartCh[m] # i
    BY <1>d DEF IInv, RestartsIdle
  <2>3. \A k \in DOMAIN resultCh : runner'[resultCh[k].index].pc = "exited"
    BY <1>d, ElementTypes DEF IInv, ResultsCurrent, Exited
  <2> QED
    BY <1>c, <1>d, <2>1, <2>2, <2>3 DEF IInv, ResultsCurrent, Exited, SendResult, loopVars
<1>7. RestartsIdle'
  BY ElementTypes DEF IInv, RestartsIdle, Exited, TypeOK, SendResult, RunnerPCs, ctxVars, chanVars, loopVars, reportVars
<1>8. NobodyLost'
  <2> SUFFICES ASSUME phase = "supervising", ~cancelled, NEW j \in Workers
               PROVE  Alive(j)' \/ Reported(j)' \/ j \in backoff \/ RestartQueued(j)
    BY DEF NobodyLost, SendResult, ctxVars, RestartQueued
  <2>1. CASE j = i
    BY <2>1, <1>c DEF Reported
  <2>2. CASE j # i
    <3>1. Alive(j) => Alive(j)'
      BY <2>2, <1>d DEF Alive
    <3>2. Reported(j) => Reported(j)'
      BY <1>c DEF Reported
    <3> QED
      BY <3>1, <3>2 DEF IInv, NobodyLost
  <2> QED
    BY <2>1, <2>2
<1>9. ControlFlow'
  BY DEF IInv, ControlFlow, SendResult, RunnerPCs, ctxVars, chanVars, loopVars, reportVars
<1> QED
  BY <1>1, <1>2, <1>3, <1>4, <1>5, <1>6, <1>7, <1>8, <1>9 DEF IInv

\* BackoffEnds hands the worker over from its timer to its restart request.
LEMMA BackoffEndsStep ==
    ASSUME IInv, NEW i \in Workers, BackoffEnds(i)
    PROVE  IInv'
<1>a. (restartCh' = Append(restartCh, i)) \/ (cancelled /\ restartCh' = restartCh)
  BY DEF BackoffEnds
<1>b. /\ restartCh' \in Seq(Workers)
      /\ \A k \in DOMAIN restartCh' :
            \/ k \in DOMAIN restartCh /\ restartCh'[k] = restartCh[k]
            \/ k = Len(restartCh) + 1 /\ restartCh'[k] = i
      /\ ~cancelled => /\ \A k \in DOMAIN restartCh :
                             k \in DOMAIN restartCh' /\ restartCh'[k] = restartCh[k]
                       /\ Len(restartCh) + 1 \in DOMAIN restartCh'
                       /\ restartCh'[Len(restartCh) + 1] = i
  <2>1. restartCh \in Seq(Workers)
    BY ElementTypes DEF IInv
  <2> QED
    BY <1>a, <2>1, AppendElements
<1>c. i \in backoff /\ backoff' = backoff \ {i} /\ \A m \in DOMAIN restartCh : restartCh[m] # i
  BY DEF IInv, RestartsIdle, BackoffEnds
<1>1. TypeOK'
  BY <1>b, <1>c DEF IInv, TypeOK, BackoffEnds, ctxVars, loopVars, reportVars
<1>2. ReadyAccounting'
  BY DEF IInv, ReadyAccounting, ReadySet, RouteIndexes, BackoffEnds, ctxVars, chanVars, loopVars, reportVars
<1>3. NothingStarted'
  BY DEF IInv, NothingStarted, TypeOK, BackoffEnds, ctxVars, chanVars, loopVars, reportVars
<1>4. RunnersCurrent'
  BY DEF IInv, RunnersCurrent, TypeOK, BackoffEnds, ctxVars, chanVars, loopVars, reportVars
<1>5. EventsCurrent'
  BY <1>b, <1>c DEF IInv, EventsCurrent, BackoffEnds, loopVars
<1>6. ResultsCurrent'
  BY <1>b, <1>c DEF IInv, ResultsCurrent, Exited, BackoffEnds, loopVars
<1>7. RestartsIdle'
  BY <1>b, <1>c DEF IInv, RestartsIdle, Exited, BackoffEnds, loopVars
<1>8. NobodyLost'
  <2> SUFFICES ASSUME phase = "supervising", ~cancelled, NEW j \in Workers
               PROVE  Alive(j) \/ Reported(j) \/ j \in backoff' \/ RestartQueued(j)'
    BY DEF NobodyLost, BackoffEnds, ctxVars, Alive, Reported
  <2>1. RestartQueued(j) => RestartQueued(j)'
    BY <1>b DEF RestartQueued
  <2>2. j = i => RestartQueued(j)'
    BY <1>b DEF RestartQueued
  <2> QED
    BY <1>c, <2>1, <2>2 DEF IInv, NobodyLost
<1>9. ControlFlow'
  BY DEF IInv, ControlFlow, BackoffEnds, ctxVars, chanVars, loopVars, reportVars
<1> QED
  BY <1>1, <1>2, <1>3, <1>4, <1>5, <1>6, <1>7, <1>8, <1>9 DEF IInv

\* IngressReturns concerns no worker.
LEMMA IngressReturnsStep ==
    ASSUME IInv, NEW err \in {"nil", "ingress"}, IngressReturns(err)
    PROVE  IInv'
<1>1. TypeOK'
  BY DEF IInv, TypeOK, IngressReturns, ctxVars, chanVars, loopVars, reportVars
<1>2. ReadyAccounting'
  BY DEF IInv, ReadyAccounting, ReadySet, RouteIndexes, IngressReturns, ctxVars, chanVars, loopVars, reportVars
<1>3. NothingStarted'
  BY DEF IInv, NothingStarted, TypeOK, IngressReturns, ctxVars, chanVars, loopVars, reportVars
<1>4. RunnersCurrent'
  BY DEF IInv, RunnersCurrent, TypeOK, IngressReturns, ctxVars, chanVars, loopVars, reportVars
<1>5. EventsCurrent'
  BY ElementTypes DEF IInv, EventsCurrent, RunnersCurrent, TypeOK, IngressReturns, ctxVars, chanVars, loopVars, reportVars
<1>6. ResultsCurrent'
  BY ElementTypes DEF IInv, ResultsCurrent, RunnersCurrent, RestartsIdle, Exited, TypeOK, IngressReturns, ctxVars, chanVars, loopVars, reportVars
<1>7. RestartsIdle'
  BY ElementTypes DEF IInv, RestartsIdle, Exited, TypeOK, IngressReturns, ctxVars, chanVars, loopVars, reportVars
<1>8. NobodyLost'
  BY DEF IInv, NobodyLost, Alive, Reported, RestartQueued, TypeOK, IngressReturns, ctxVars, chanVars, loopVars, reportVars
<1>9. ControlFlow'
  BY DEF IInv, ControlFlow, IngressReturns, ctxVars, chanVars, loopVars, reportVars
<1> QED
  BY <1>1, <1>2, <1>3, <1>4, <1>5, <1>6, <1>7, <1>8, <1>9 DEF IInv

\* HandleDone only ends the loop.
LEMMA HandleDoneStep ==
    ASSUME IInv, HandleDone
    PROVE  IInv'
<1>1. TypeOK'
  BY DEF IInv, TypeOK, HandleDone, BreakLoop, Phases, SessionErrors, ctxVars, chanVars, loopVars, reportVars
<1>2. ReadyAccounting'
  BY DEF IInv, ReadyAccounting, ReadySet, RouteIndexes, HandleDone, BreakLoop, Phases, SessionErrors, ctxVars, chanVars, loopVars, reportVars
<1>3. NothingStarted'
  BY DEF IInv, NothingStarted, TypeOK, HandleDone, BreakLoop, Phases, SessionErrors, ctxVars, chanVars, loopVars, reportVars
<1>4. RunnersCurrent'
  BY DEF IInv, RunnersCurrent, TypeOK, HandleDone, BreakLoop, Phases, SessionErrors, ctxVars, chanVars, loopVars, reportVars
<1>5. EventsCurrent'
  BY ElementTypes DEF IInv, EventsCurrent, RunnersCurrent, TypeOK, HandleDone, BreakLoop, Phases, SessionErrors, ctxVars, chanVars, loopVars, reportVars
<1>6. ResultsCurrent'
  BY ElementTypes DEF IInv, ResultsCurrent, RunnersCurrent, RestartsIdle, Exited, TypeOK, HandleDone, BreakLoop, Phases, SessionErrors, ctxVars, chanVars, loopVars, reportVars
<1>7. RestartsIdle'
  BY ElementTypes DEF IInv, RestartsIdle, Exited, TypeOK, HandleDone, BreakLoop, Phases, SessionErrors, ctxVars, chanVars, loopVars, reportVars
<1>8. NobodyLost'
  BY DEF IInv, NobodyLost, Alive, Reported, RestartQueued, TypeOK, HandleDone, BreakLoop, Phases, SessionErrors, ctxVars, chanVars, loopVars, reportVars
<1>9. ControlFlow'
  BY DEF IInv, ControlFlow, HandleDone, BreakLoop, Phases, SessionErrors, ctxVars, chanVars, loopVars, reportVars
<1> QED
  BY <1>1, <1>2, <1>3, <1>4, <1>5, <1>6, <1>7, <1>8, <1>9 DEF IInv

\* What HandleIngressErr does, given the invariant: it ends the loop with an
\* error of the ingress, or because the caller cancelled.
LEMMA HandleIngressErrEffect ==
    ASSUME IInv, HandleIngressErr
    PROVE  /\ phase = "supervising" /\ phase' = "draining" /\ cancelled' = TRUE
           /\ ingressErrCh # <<>> /\ ingressErrCh \in Seq({"nil", "ingress"}) /\ ingressErrCh' = <<>>
           /\ \/ /\ sessionErr' = "ingress_forwarding" /\ event' = "runtime_failure"
                 /\ CountFailure(~sessionReady)
              \/ sessionErr' = "none" /\ ctxDone /\ UNCHANGED <<event, metrics>>
<1>a. phase = "supervising" /\ phase' = "draining" /\ cancelled' = TRUE
  BY DEF HandleIngressErr, FailSession, BreakLoop
<1>b. ingressErrCh # <<>> /\ ingressErrCh \in Seq({"nil", "ingress"}) /\ ingressErrCh' = <<>>
  BY DEF HandleIngressErr, IInv, TypeOK
<1>c. \/ /\ sessionErr' = "ingress_forwarding" /\ event' = "runtime_failure"
         /\ CountFailure(~sessionReady)
      \/ sessionErr' = "none" /\ ctxDone /\ UNCHANGED <<event, metrics>>
  <2>1. CASE Head(ingressErrCh) # "nil" /\ ~cancelled
    BY <2>1 DEF HandleIngressErr, FailSession, BreakLoop
  <2>2. CASE ~(Head(ingressErrCh) # "nil" /\ ~cancelled)
    <3>1. cancelled
      BY <2>2, <1>b, TailElements DEF IInv, ControlFlow
    <3>2. ctxDone
      BY <3>1, <1>a DEF IInv, ControlFlow
    <3> QED
      BY <2>2, <3>2 DEF HandleIngressErr, BreakLoop
  <2> QED
    BY <2>1, <2>2
<1> QED
  BY <1>a, <1>b, <1>c

\* HandleIngressErr only ends the loop.
LEMMA HandleIngressErrStep ==
    ASSUME IInv, HandleIngressErr
    PROVE  IInv'
<1>a. phase = "supervising" /\ phase' = "draining" /\ cancelled' = TRUE
  BY HandleIngressErrEffect
<1>b. ingressErrCh # <<>> /\ ingressErrCh \in Seq({"nil", "ingress"}) /\ ingressErrCh' = <<>>
  BY HandleIngressErrEffect
<1>c. \/ /\ sessionErr' = "ingress_forwarding" /\ event' = "runtime_failure"
         /\ CountFailure(~sessionReady)
      \/ sessionErr' = "none" /\ ctxDone /\ UNCHANGED <<event, metrics>>
  BY HandleIngressErrEffect
<1>1. TypeOK'
  <2>1. metrics' \in Counters
    <3>1. metrics \in Counters /\ (~sessionReady) \in BOOLEAN
      BY DEF IInv, TypeOK, Counters
    <3> QED
      BY <3>1, <1>c, CountFailureType
  <2>2. event' \in Runtime!Events /\ sessionErr' \in SessionErrors /\ result' = result
    BY <1>c DEF IInv, TypeOK, Runtime!Events, SessionErrors, HandleIngressErr, FailSession
  <2> QED
    BY <1>a, <1>b, <2>1, <2>2 DEF IInv, TypeOK, HandleIngressErr, Phases, Counters, loopVars
<1>2. ReadyAccounting'
  BY DEF IInv, ReadyAccounting, ReadySet, RouteIndexes, HandleIngressErr, BreakLoop, FailSession, CountFailure, Phases, SessionErrors, Runtime!Events, ctxVars, chanVars, loopVars, reportVars
<1>3. NothingStarted'
  BY DEF IInv, NothingStarted, TypeOK, HandleIngressErr, BreakLoop, FailSession, CountFailure, Phases, SessionErrors, Runtime!Events, ctxVars, chanVars, loopVars, reportVars
<1>4. RunnersCurrent'
  BY DEF IInv, RunnersCurrent, TypeOK, HandleIngressErr, BreakLoop, FailSession, CountFailure, Phases, SessionErrors, Runtime!Events, ctxVars, chanVars, loopVars, reportVars
<1>5. EventsCurrent'
  BY ElementTypes DEF IInv, EventsCurrent, RunnersCurrent, TypeOK, HandleIngressErr, BreakLoop, FailSession, CountFailure, Phases, SessionErrors, Runtime!Events, ctxVars, chanVars, loopVars, reportVars
<1>6. ResultsCurrent'
  BY ElementTypes DEF IInv, ResultsCurrent, RunnersCurrent, RestartsIdle, Exited, TypeOK, HandleIngressErr, BreakLoop, FailSession, CountFailure, Phases, SessionErrors, Runtime!Events, ctxVars, chanVars, loopVars, reportVars
<1>7. RestartsIdle'
  BY ElementTypes DEF IInv, RestartsIdle, Exited, TypeOK, HandleIngressErr, BreakLoop, FailSession, CountFailure, Phases, SessionErrors, Runtime!Events, ctxVars, chanVars, loopVars, reportVars
<1>8. NobodyLost'
  BY DEF IInv, NobodyLost, Alive, Reported, RestartQueued, TypeOK, HandleIngressErr, BreakLoop, FailSession, CountFailure, Phases, SessionErrors, Runtime!Events, ctxVars, chanVars, loopVars, reportVars
<1>9. ControlFlow'
  BY <1>a, <1>b, <1>c DEF IInv, ControlFlow, HandleIngressErr
<1> QED
  BY <1>1, <1>2, <1>3, <1>4, <1>5, <1>6, <1>7, <1>8, <1>9 DEF IInv

\* Return only ends the session.
LEMMA ReturnStep ==
    ASSUME IInv, Return
    PROVE  IInv'
<1>1. TypeOK'
  <2>1. ingressErrCh' \in Seq({"nil", "ingress"})
    <3>1. ingressErrCh' = <<>> \/ ingressErrCh' = ingressErrCh
      BY DEF Return
    <3>2. <<>> \in Seq({"nil", "ingress"}) /\ ingressErrCh \in Seq({"nil", "ingress"})
      BY DEF IInv, TypeOK
    <3> QED
      BY <3>1, <3>2
  <2>2. event' \in Runtime!Events /\ result' \in {"none", "nil", "error"}
    BY DEF IInv, TypeOK, Return, Runtime!Events
  <2> QED
    BY <2>1, <2>2 DEF IInv, TypeOK, Return, Phases, ctxVars, loopVars
<1>2. ReadyAccounting'
  BY DEF IInv, ReadyAccounting, ReadySet, RouteIndexes, Return, Phases, Runtime!Events, ctxVars, chanVars, loopVars, reportVars
<1>3. NothingStarted'
  BY DEF IInv, NothingStarted, TypeOK, Return, Phases, Runtime!Events, ctxVars, chanVars, loopVars, reportVars
<1>4. RunnersCurrent'
  BY DEF IInv, RunnersCurrent, TypeOK, Return, Phases, Runtime!Events, ctxVars, chanVars, loopVars, reportVars
<1>5. EventsCurrent'
  BY ElementTypes DEF IInv, EventsCurrent, RunnersCurrent, TypeOK, Return, Phases, Runtime!Events, ctxVars, chanVars, loopVars, reportVars
<1>6. ResultsCurrent'
  BY ElementTypes DEF IInv, ResultsCurrent, RunnersCurrent, RestartsIdle, Exited, TypeOK, Return, Phases, Runtime!Events, ctxVars, chanVars, loopVars, reportVars
<1>7. RestartsIdle'
  BY ElementTypes DEF IInv, RestartsIdle, Exited, TypeOK, Return, Phases, Runtime!Events, ctxVars, chanVars, loopVars, reportVars
<1>8. NobodyLost'
  BY DEF IInv, NobodyLost, Alive, Reported, RestartQueued, TypeOK, Return, Phases, Runtime!Events, ctxVars, chanVars, loopVars, reportVars
<1>9. ControlFlow'
  BY DEF IInv, ControlFlow, Return, Phases, Runtime!Events, ctxVars, chanVars, loopVars, reportVars
<1> QED
  BY <1>1, <1>2, <1>3, <1>4, <1>5, <1>6, <1>7, <1>8, <1>9 DEF IInv

WorkerStates == [generation : Nat, restarts : Nat, ready : BOOLEAN]

\* A new generation changes nothing else of a worker's state.
LEMMA NewGeneration ==
    ASSUME NEW st \in WorkerStates, NEW g \in Nat
    PROVE  /\ [st EXCEPT !.generation = g] \in WorkerStates
           /\ [st EXCEPT !.generation = g].generation = g
           /\ [st EXCEPT !.generation = g].restarts = st.restarts
           /\ [st EXCEPT !.generation = g].ready = st.ready
<1>1. [st EXCEPT !.generation = g] = [generation |-> g, restarts |-> st.restarts, ready |-> st.ready]
  BY DEF WorkerStates
<1>2. st.restarts \in Nat /\ st.ready \in BOOLEAN
  BY DEF WorkerStates
<1> QED
  BY <1>1, <1>2 DEF WorkerStates

\* Supervise starts the first generation of every worker.
LEMMA SuperviseStep ==
    ASSUME IInv, Supervise
    PROVE  IInv'
<1>a. /\ \A i \in Workers :
            /\ states'[i].generation = states[i].generation + 1
            /\ states'[i].ready = states[i].ready /\ ~states[i].ready
            /\ runner'[i] = NewRunner(states[i].generation + 1)
            /\ states[i].generation \in Nat
      /\ readyCh' = <<>> /\ resultCh' = <<>> /\ restartCh' = <<>> /\ backoff' = {}
      /\ ws = EmptyWorkerSet /\ ws' = ws /\ readyWorkers' = readyWorkers
      /\ phase = "resolving" /\ phase' = "supervising"
  BY DEF IInv, TypeOK, NothingStarted, Supervise, chanVars
<1>1. TypeOK'
  <2>1. states' \in [Workers -> [generation : Nat, restarts : Nat, ready : BOOLEAN]]
    <3>1. \A i \in Workers :
             states[i] \in WorkerStates /\ states[i].generation + 1 \in Nat
      BY DEF IInv, TypeOK, WorkerStates
    <3>2. \A i \in Workers : [states[i] EXCEPT !.generation = @ + 1] \in WorkerStates
      BY <3>1, NewGeneration
    <3> QED
      BY <3>2 DEF Supervise, WorkerStates
  <2>2. runner' \in [Workers -> [pc : RunnerPCs, generation : Nat, err : RunErrors]]
    BY DEF IInv, TypeOK, Supervise, NewRunner, RunnerPCs, RunErrors
  <2> QED
    BY <2>1, <2>2 DEF IInv, TypeOK, Supervise, Phases, ctxVars, chanVars, reportVars
<1>2. ReadyAccounting'
  <2>1. ReadySet' = {} /\ ReadySet = {}
    BY <1>a DEF ReadySet
  <2>2. DOMAIN ws.workers = {}
    BY <1>a DEF EmptyWorkerSet
  <2> QED
    BY <1>a, <2>1, <2>2 DEF IInv, ReadyAccounting, RouteIndexes
<1>3. NothingStarted'
  BY <1>a DEF NothingStarted
<1>b. \A i \in Workers :
         runner'[i].pc = "setup" /\ runner'[i].generation = states'[i].generation
  <2> TAKE i \in Workers
  <2>1. runner'[i] = NewRunner(states[i].generation + 1)
    BY <1>a
  <2>2. runner'[i].pc = "setup" /\ runner'[i].generation = states[i].generation + 1
    BY <2>1 DEF NewRunner
  <2> QED
    BY <2>2, <1>a
<1>4. RunnersCurrent'
  BY <1>a, <1>b DEF RunnersCurrent
<1>5. EventsCurrent' /\ ResultsCurrent' /\ RestartsIdle'
  BY <1>a DEF EventsCurrent, ResultsCurrent, RestartsIdle
<1>6. NobodyLost'
  BY <1>b DEF NobodyLost, Alive
<1>7. ControlFlow'
  <2>1. ~cancelled \/ ctxDone
    BY <1>a DEF IInv, ControlFlow
  <2> QED
    BY <2>1 DEF IInv, ControlFlow, Supervise, ctxVars, chanVars, reportVars
<1> QED
  BY <1>1, <1>2, <1>3, <1>4, <1>5, <1>6, <1>7 DEF IInv

\* HandleRestart starts a new generation of a worker that nothing else
\* stands for.
LEMMA HandleRestartStep ==
    ASSUME IInv, HandleRestart
    PROVE  IInv'
<1> DEFINE i == Head(restartCh)
           g == states[i].generation + 1
<1>a. restartCh \in Seq(Workers) /\ restartCh # <<>> /\ restartCh' = Tail(restartCh)
  BY ElementTypes DEF IInv, HandleRestart
<1>b. /\ restartCh' \in Seq(Workers)
      /\ 1 \in DOMAIN restartCh /\ i = restartCh[1] /\ i \in Workers
      /\ \A k \in DOMAIN restartCh' :
            k + 1 \in DOMAIN restartCh /\ k + 1 # 1
            /\ restartCh'[k] = restartCh[k + 1] /\ k \in Int
      /\ \A k \in DOMAIN restartCh :
            k # 1 => \E j \in DOMAIN restartCh' : restartCh'[j] = restartCh[k]
  BY <1>a, TailElements
<1> HIDE DEF i
<1>c. /\ Exited(i) /\ ~states[i].ready /\ i \notin backoff
      /\ \A k \in DOMAIN readyCh : readyCh[k].index # i
      /\ \A k \in DOMAIN resultCh : resultCh[k].index # i
      /\ \A k \in DOMAIN restartCh' : restartCh'[k] # i
  BY <1>b DEF IInv, RestartsIdle, EventsCurrent, ResultsCurrent
<1>d. /\ \A j \in Workers : j # i => states'[j] = states[j] /\ runner'[j] = runner[j]
      /\ \A j \in Workers : states'[j].ready = states[j].ready
      /\ cancelled => states' = states /\ runner' = runner
      /\ ~cancelled => states'[i].generation = g /\ runner'[i] = NewRunner(g)
  <2>1. CASE cancelled
    BY <2>1 DEF HandleRestart
  <2>2. CASE ~cancelled
    <3>1. /\ states' = [states EXCEPT ![i].generation = g]
          /\ runner' = [runner EXCEPT ![i] = NewRunner(g)]
      BY <2>2 DEF HandleRestart, i
    <3> QED
      BY <3>1, <2>2, <1>b DEF IInv, TypeOK
  <2> QED
    BY <2>1, <2>2
<1>e. UNCHANGED <<ctxVars, phase, readyCh, resultCh, ingressErrCh, backoff, ingress,
                  ws, readyWorkers, sessionReady, reportVars>> /\ phase = "supervising"
  BY DEF HandleRestart
<1>1. TypeOK'
  <2>1. states' \in [Workers -> [generation : Nat, restarts : Nat, ready : BOOLEAN]]
    <3>1. g \in Nat
      BY <1>b DEF IInv, TypeOK
    <3>2. states' = states \/ states' = [states EXCEPT ![i].generation = g]
      BY DEF HandleRestart, i
    <3>3. states[i] \in WorkerStates /\ states \in [Workers -> WorkerStates]
      BY <1>b DEF IInv, TypeOK, WorkerStates
    <3>4. [states[i] EXCEPT !.generation = g] \in WorkerStates
      BY <3>1, <3>3, NewGeneration
    <3> HIDE DEF g
    <3>5. states' \in [Workers -> WorkerStates]
      BY <3>2, <3>3, <3>4
    <3> QED
      BY <3>5 DEF WorkerStates
  <2>2. runner' \in [Workers -> [pc : RunnerPCs, generation : Nat, err : RunErrors]]
    <3>1. g \in Nat
      BY <1>b DEF IInv, TypeOK
    <3>2. NewRunner(g) \in [pc : RunnerPCs, generation : Nat, err : RunErrors]
      BY <3>1 DEF NewRunner, RunnerPCs, RunErrors
    <3>3. runner' = runner \/ runner' = [runner EXCEPT ![i] = NewRunner(g)]
      BY DEF HandleRestart, i
    <3> QED
      BY <3>2, <3>3, <1>b DEF IInv, TypeOK
  <2> QED
    BY <1>b, <1>e, <2>1, <2>2 DEF IInv, TypeOK, ctxVars, reportVars
<1>2. ReadyAccounting'
  <2>1. ReadySet' = ReadySet
    BY <1>d DEF ReadySet
  <2>2. \A k \in DOMAIN ws.workers : ws.workers[k].index # i /\ ws.workers[k].index \in Workers
    BY <1>c DEF IInv, ReadyAccounting, RouteIndexes, ReadySet
  <2> QED
    BY <1>d, <1>e, <2>1, <2>2 DEF IInv, ReadyAccounting, RouteIndexes
<1>3. NothingStarted'
  BY <1>e DEF NothingStarted
<1>4. RunnersCurrent'
  BY <1>c, <1>d, <1>e DEF IInv, RunnersCurrent, NewRunner
<1>5. EventsCurrent'
  BY <1>b, <1>c, <1>d, <1>e, ElementTypes DEF IInv, EventsCurrent
<1>6. ResultsCurrent'
  <2>1. \A k \in DOMAIN resultCh :
           /\ states'[resultCh[k].index] = states[resultCh[k].index]
           /\ runner'[resultCh[k].index] = runner[resultCh[k].index]
    BY <1>c, <1>d, ElementTypes DEF IInv
  <2>2. \A k \in DOMAIN resultCh : \A m \in DOMAIN restartCh' : restartCh'[m] # resultCh[k].index
    BY <1>b DEF IInv, ResultsCurrent
  <2> QED
    BY <1>e, <2>1, <2>2 DEF IInv, ResultsCurrent, Exited
<1>7. RestartsIdle'
  <2>1. backoff \subseteq Workers
    BY DEF IInv, TypeOK
  <2>2. \A k \in DOMAIN restartCh' : restartCh'[k] \in Workers
    BY <1>b
  <2>3. \A j, k \in DOMAIN restartCh' : restartCh'[j] = restartCh'[k] => j = k
    BY <1>b DEF IInv, RestartsIdle
  <2> QED
    BY <1>b, <1>c, <1>d, <1>e, <2>1, <2>2, <2>3 DEF IInv, RestartsIdle, Exited
<1>8. NobodyLost'
  <2> SUFFICES ASSUME ~cancelled, NEW j \in Workers
               PROVE  Alive(j)' \/ Reported(j)' \/ j \in backoff' \/ RestartQueued(j)'
    BY <1>e DEF NobodyLost, ctxVars
  <2>1. CASE j = i
    BY <2>1, <1>d DEF Alive, NewRunner
  <2>2. CASE j # i
    <3>1. (Alive(j) => Alive(j)') /\ (Reported(j) => Reported(j)')
      BY <2>2, <1>d, <1>e DEF Alive, Reported
    <3>2. RestartQueued(j) => RestartQueued(j)'
      BY <2>2, <1>b DEF RestartQueued
    <3> QED
      BY <3>1, <3>2, <1>e DEF IInv, NobodyLost
  <2> QED
    BY <2>1, <2>2
<1>9. ControlFlow'
  BY <1>e DEF IInv, ControlFlow, ctxVars, reportVars
<1> QED
  BY <1>1, <1>2, <1>3, <1>4, <1>5, <1>6, <1>7, <1>8, <1>9 DEF IInv

\* Setting the ready flag changes nothing else.
LEMMA FlagReady ==
    ASSUME NEW st \in WorkerStates, NEW b \in BOOLEAN
    PROVE  /\ [st EXCEPT !.ready = b] \in WorkerStates
           /\ [st EXCEPT !.ready = b].generation = st.generation
           /\ [st EXCEPT !.ready = b].ready = b
<1>1. [st EXCEPT !.ready = b] =
         [generation |-> st.generation, restarts |-> st.restarts, ready |-> b]
  BY DEF WorkerStates
<1>2. st.restarts \in Nat /\ st.generation \in Nat
  BY DEF WorkerStates
<1> QED
  BY <1>1, <1>2 DEF WorkerStates

\* The workers, and so the ready ones, are finitely many.
LEMMA ReadySetFinite ==
    /\ IsFiniteSet(Workers) /\ Cardinality(Workers) = Connections
    /\ IsFiniteSet(ReadySet) /\ ReadySet \subseteq Workers
<1>1. IsFiniteSet(Workers) /\ Cardinality(Workers) = Connections
  BY ConnectionsAssumption, FS_Interval DEF Workers
<1> QED
  BY <1>1, FS_Subset DEF ReadySet

\* What HandleReady does, given the invariant: the event is never stale.
LEMMA HandleReadyEffect ==
    ASSUME IInv, HandleReady
    PROVE  \E i \in Workers :
              /\ 1 \in DOMAIN readyCh /\ i = readyCh[1].index
              /\ ~states[i].ready
              /\ states' \in [Workers -> WorkerStates]
              /\ \A j \in Workers : j # i => states'[j] = states[j]
              /\ states'[i].generation = states[i].generation /\ states'[i].ready = TRUE
              /\ readyWorkers' = readyWorkers + 1
              /\ ws' = SetReady(ws, i, states[i].generation)
              /\ sessionReady' = (sessionReady \/ (~sessionReady /\ readyWorkers + 1 = Connections))
              /\ event' = IF ~sessionReady /\ readyWorkers + 1 = Connections
                          THEN "runtime_ready" ELSE event
              /\ metrics' \in Counters
<1> DEFINE ev == Head(readyCh)
           i == ev.index
<1>1. readyCh \in Seq(Events) /\ readyCh # <<>>
  BY ElementTypes DEF IInv, HandleReady
<1>2. 1 \in DOMAIN readyCh /\ ev = readyCh[1] /\ ev \in Events /\ i \in Workers
  <2>1. 1 \in DOMAIN readyCh /\ ev = readyCh[1] /\ ev \in Events
    BY <1>1, TailElements
  <2> QED
    BY <2>1 DEF Events
<1>3. ev.generation = states[i].generation /\ ~states[i].ready
  BY <1>2 DEF IInv, EventsCurrent
<1>4. /\ states' = [states EXCEPT ![i].ready = TRUE]
      /\ readyWorkers' = readyWorkers + 1
      /\ ws' = SetReady(ws, i, ev.generation)
      /\ sessionReady' = (sessionReady \/ (~sessionReady /\ readyWorkers + 1 = Connections))
      /\ event' = IF ~sessionReady /\ readyWorkers + 1 = Connections
                  THEN "runtime_ready" ELSE event
      /\ \/ metrics' = [metrics EXCEPT !.starts = @ + 1]
         \/ metrics' = [metrics EXCEPT !.starts = @]
  BY <1>3 DEF HandleReady
<1>5. metrics \in Counters /\ states \in [Workers -> WorkerStates]
  BY DEF IInv, TypeOK, Counters, WorkerStates
<1>6. metrics' \in Counters
  <2>1. /\ [metrics EXCEPT !.starts = @ + 1] =
              [starts |-> metrics.starts + 1, failures |-> metrics.failures,
               startupFailures |-> metrics.startupFailures]
        /\ [metrics EXCEPT !.starts = @] = metrics
    BY <1>5 DEF Counters
  <2>2. metrics.starts + 1 \in Nat /\ metrics.failures \in Nat /\ metrics.startupFailures \in Nat
    BY <1>5 DEF Counters
  <2>3. [starts |-> metrics.starts + 1, failures |-> metrics.failures,
         startupFailures |-> metrics.startupFailures] \in Counters
    BY <2>2 DEF Counters
  <2> QED
    BY <1>4, <1>5, <2>1, <2>3
<1> HIDE DEF i, ev
<1>7. /\ states'[i] = [states[i] EXCEPT !.ready = TRUE]
      /\ \A j \in Workers : j # i => states'[j] = states[j]
      /\ states' \in [Workers -> WorkerStates]
  <2>1. [states[i] EXCEPT !.ready = TRUE] \in WorkerStates
    BY <1>2, <1>5, FlagReady
  <2> QED
    BY <1>2, <1>4, <1>5, <2>1
<1>8. states'[i].generation = states[i].generation /\ states'[i].ready = TRUE
  BY <1>2, <1>5, <1>7, FlagReady
<1>9. i = readyCh[1].index
  BY <1>2 DEF i
<1> QED
  BY <1>2, <1>3, <1>4, <1>6, <1>7, <1>8, <1>9

\* HandleReady makes one more worker ready, in the flags, the count and the
\* worker set alike.
LEMMA HandleReadyStep ==
    ASSUME IInv, HandleReady
    PROVE  IInv'
<1>a. PICK i \in Workers :
              /\ 1 \in DOMAIN readyCh /\ i = readyCh[1].index
              /\ ~states[i].ready
              /\ states' \in [Workers -> WorkerStates]
              /\ \A j \in Workers : j # i => states'[j] = states[j]
              /\ states'[i].generation = states[i].generation /\ states'[i].ready = TRUE
              /\ readyWorkers' = readyWorkers + 1
              /\ ws' = SetReady(ws, i, states[i].generation)
              /\ sessionReady' = (sessionReady \/ (~sessionReady /\ readyWorkers + 1 = Connections))
              /\ event' = IF ~sessionReady /\ readyWorkers + 1 = Connections
                          THEN "runtime_ready" ELSE event
              /\ metrics' \in Counters
  BY HandleReadyEffect
<1>b. /\ phase = "supervising" /\ readyCh' = Tail(readyCh)
      /\ UNCHANGED <<ctxDone, cancelled, phase, runner, resultCh, restartCh, ingressErrCh,
                     backoff, ingress, sessionErr, result>>
  BY DEF HandleReady, ctxVars
<1>c. /\ readyCh' \in Seq(Events)
      /\ \A k \in DOMAIN readyCh' :
            k + 1 \in DOMAIN readyCh /\ k + 1 # 1
            /\ readyCh'[k] = readyCh[k + 1] /\ k \in Int
  BY <1>a, <1>b, ElementTypes, TailElements DEF IInv
<1>d. /\ i \notin backoff /\ \A m \in DOMAIN restartCh : restartCh[m] # i
      /\ runner[i].pc \in {"forwarding", "returning", "exited"}
      /\ \A k \in DOMAIN readyCh' : readyCh'[k].index # i
  BY <1>a, <1>c DEF IInv, EventsCurrent
<1>e. ws \in WorkerSets /\ Distinct(ws) /\ states[i].generation \in Nat
  BY DEF IInv, TypeOK, ReadyAccounting, WorkerSets, Routes, Distinct
<1>f. /\ ws' \in WorkerSets /\ Distinct(ws')
      /\ RouteIndexes(ws') = RouteIndexes(ws) \cup {i}
      /\ \A k \in DOMAIN ws'.workers :
            \/ ws'.workers[k] = Route(i, states[i].generation)
            \/ \E j \in DOMAIN ws.workers : ws'.workers[k] = ws.workers[j]
  BY <1>a, <1>e, SetReadyProperties
<1>1. TypeOK'
  <2>1. event' \in Runtime!Events /\ readyWorkers' \in Int /\ sessionReady' \in BOOLEAN
    BY <1>a DEF IInv, TypeOK, Runtime!Events
  <2>2. ws' \in [workers : Seq([index : Workers, generation : Nat]), next : Nat]
    BY <1>f DEF WorkerSets, Routes
  <2> QED
    BY <1>a, <1>b, <1>c, <2>1, <2>2 DEF IInv, TypeOK, Events, WorkerStates, Counters
<1>2. ReadyAccounting'
  <2>1. ReadySet' = ReadySet \cup {i} /\ i \notin ReadySet
    BY <1>a DEF ReadySet
  <2>2. Cardinality(ReadySet') = Cardinality(ReadySet) + 1
    BY <2>1, ReadySetFinite, FS_AddElement
  <2>3. RouteIndexes(ws') = ReadySet'
    BY <1>f, <2>1 DEF IInv, ReadyAccounting
  <2>4. \A k \in DOMAIN ws'.workers :
           ws'.workers[k].generation = states'[ws'.workers[k].index].generation
    <3> TAKE k \in DOMAIN ws'.workers
    <3>1. CASE ws'.workers[k] = Route(i, states[i].generation)
      BY <3>1, <1>a DEF Route
    <3>2. CASE \E j \in DOMAIN ws.workers : ws'.workers[k] = ws.workers[j]
      <4>1. PICK j \in DOMAIN ws.workers : ws'.workers[k] = ws.workers[j]
        BY <3>2
      <4>2. ws.workers[j].index \in ReadySet
        BY DEF IInv, ReadyAccounting, RouteIndexes
      <4>3. states'[ws.workers[j].index] = states[ws.workers[j].index]
        BY <4>2, <2>1, <1>a DEF ReadySet
      <4> QED
        BY <4>1, <4>3 DEF IInv, ReadyAccounting
    <3> QED
      BY <3>1, <3>2, <1>f
  <2> QED
    BY <1>a, <1>f, <2>2, <2>3, <2>4 DEF IInv, ReadyAccounting, Distinct
<1>3. NothingStarted'
  BY <1>b DEF NothingStarted
<1>4. RunnersCurrent'
  BY <1>a, <1>b, <1>d DEF IInv, RunnersCurrent
<1>5. EventsCurrent'
  <2>1. \A k \in DOMAIN readyCh' : readyCh'[k].index \in Workers
    <3>1. \A k \in DOMAIN readyCh' : readyCh'[k] \in Events
      BY <1>c
    <3> QED
      BY <3>1 DEF Events
  <2>2. ASSUME NEW k \in DOMAIN readyCh'
        PROVE  /\ states'[readyCh'[k].index] = states[readyCh'[k].index]
               /\ k + 1 \in DOMAIN readyCh /\ readyCh'[k] = readyCh[k + 1]
    BY <1>a, <1>c, <1>d, <2>1
  <2>3. \A j, k \in DOMAIN readyCh' : readyCh'[j].index = readyCh'[k].index => j = k
    <3> SUFFICES ASSUME NEW j \in DOMAIN readyCh', NEW k \in DOMAIN readyCh',
                        readyCh'[j].index = readyCh'[k].index
                 PROVE  j = k
      OBVIOUS
    <3>1. j + 1 = k + 1
      BY <2>2 DEF IInv, EventsCurrent
    <3> QED
      BY <3>1, <1>c
  <2> QED
    BY <1>b, <2>2, <2>3 DEF IInv, EventsCurrent
<1>6. ResultsCurrent'
  BY <1>a, <1>b, ElementTypes DEF IInv, ResultsCurrent, Exited
<1>7. RestartsIdle'
  <2>1. backoff \subseteq Workers
    BY DEF IInv, TypeOK
  <2> QED
    BY <1>a, <1>b, <1>d, <2>1, ElementTypes DEF IInv, RestartsIdle, Exited
<1>8. NobodyLost'
  BY <1>b DEF IInv, NobodyLost, Alive, Reported, RestartQueued
<1>9. ControlFlow'
  BY <1>b DEF IInv, ControlFlow
<1> QED
  BY <1>1, <1>2, <1>3, <1>4, <1>5, <1>6, <1>7, <1>8, <1>9 DEF IInv

\* What HandleResult does, given the invariant: the result is never stale.
\* The worker is retired, and then the session goes on because it is being
\* cancelled, schedules a restart, or fails.
LEMMA HandleResultEffect ==
    ASSUME IInv, HandleResult
    PROVE  \E i \in Workers :
              /\ 1 \in DOMAIN resultCh /\ i = resultCh[1].index
              /\ states' \in [Workers -> WorkerStates]
              /\ \A j \in Workers : j # i => states'[j] = states[j]
              /\ states'[i].generation = states[i].generation /\ states'[i].ready = FALSE
              /\ Retire(states[i], i)
              /\ \/ /\ cancelled
                    /\ UNCHANGED <<cancelled, phase, backoff, sessionErr, result, event, metrics>>
                 \/ /\ ~cancelled /\ states[i].ready
                    /\ backoff' = backoff \cup {i}
                    /\ event' = "worker_restart_scheduled"
                    /\ UNCHANGED <<cancelled, phase, sessionErr, result, metrics>>
                 \/ /\ ~cancelled
                    /\ phase' = "draining" /\ cancelled' = TRUE
                    /\ sessionErr' \in {"session_supervision", "setup", "worker_forwarding"}
                    /\ event' = "runtime_failure"
                    /\ metrics' \in Counters
                    /\ UNCHANGED <<backoff, result>>
<1> DEFINE r == Head(resultCh)
           i == r.index
           st == states[i]
<1>1. resultCh \in Seq(Results) /\ resultCh # <<>>
  BY ElementTypes DEF IInv, HandleResult
<1>2. 1 \in DOMAIN resultCh /\ r = resultCh[1] /\ r \in Results
  BY <1>1, TailElements
<1>3. i \in Workers
  BY <1>2 DEF Results
<1>4. r.generation = st.generation
  BY <1>2 DEF IInv, ResultsCurrent
<1>5. /\ metrics \in Counters /\ states \in [Workers -> WorkerStates]
      /\ sessionReady \in BOOLEAN /\ cancelled \in BOOLEAN
      /\ st \in WorkerStates
  BY <1>3 DEF IInv, TypeOK, Counters, WorkerStates
<1>6. /\ Retire(st, i)
      /\ \/ /\ cancelled
            /\ states' = [states EXCEPT ![i].ready = FALSE]
            /\ UNCHANGED <<cancelled, phase, backoff, reportVars>>
         \/ ~cancelled /\ st.ready /\ ScheduleRestart(i)
         \/ ~cancelled /\ GiveUp(st, r)
  BY <1>4 DEF HandleResult
<1> HIDE DEF i, r
<1>7. ASSUME states' = [states EXCEPT ![i].ready = FALSE]
      PROVE  /\ states' \in [Workers -> WorkerStates]
             /\ \A j \in Workers : j # i => states'[j] = states[j]
             /\ states'[i].generation = states[i].generation /\ states'[i].ready = FALSE
  <2>1. [states[i] EXCEPT !.ready = FALSE] \in WorkerStates
    BY <1>5, FlagReady
  <2>2. /\ states'[i] = [states[i] EXCEPT !.ready = FALSE]
        /\ \A j \in Workers : j # i => states'[j] = states[j]
        /\ states' \in [Workers -> WorkerStates]
    BY <1>3, <1>5, <1>7, <2>1
  <2> QED
    BY <1>5, <2>2, FlagReady
<1>8. i = resultCh[1].index
  BY <1>2 DEF i
<1>9. CASE cancelled /\ states' = [states EXCEPT ![i].ready = FALSE]
           /\ UNCHANGED <<cancelled, phase, backoff, reportVars>>
  BY <1>2, <1>3, <1>6, <1>7, <1>8, <1>9 DEF reportVars
<1>10. CASE ~cancelled /\ st.ready /\ ScheduleRestart(i)
  <2>1. states' = [states EXCEPT ![i] = [generation |-> st.generation,
                                         restarts |-> st.restarts + 1, ready |-> FALSE]]
    BY <1>10 DEF ScheduleRestart
  <2>2. [generation |-> st.generation, restarts |-> st.restarts + 1, ready |-> FALSE] \in WorkerStates
    BY <1>5 DEF WorkerStates
  <2>3. /\ states' \in [Workers -> WorkerStates]
        /\ \A j \in Workers : j # i => states'[j] = states[j]
        /\ states'[i] = [generation |-> st.generation, restarts |-> st.restarts + 1, ready |-> FALSE]
    BY <1>3, <1>5, <2>1, <2>2
  <2>4. states'[i].generation = states[i].generation /\ states'[i].ready = FALSE
    BY <2>3
  <2> QED
    BY <1>2, <1>3, <1>6, <1>8, <1>10, <2>3, <2>4 DEF ScheduleRestart
<1>11. CASE ~cancelled /\ GiveUp(st, r)
  <2>1. states' = [states EXCEPT ![i].ready = FALSE] /\ UNCHANGED backoff
    BY <1>11 DEF GiveUp, i
  <2>2. \E e \in {"session_supervision", "setup", "worker_forwarding"}, b \in BOOLEAN :
           FailSession(e, b)
    <3>1. WorkerError(r.err) \in {"setup", "worker_forwarding"}
      BY DEF WorkerError
    <3> QED
      BY <1>5, <1>11, <3>1 DEF GiveUp
  <2>3. PICK e \in {"session_supervision", "setup", "worker_forwarding"}, b \in BOOLEAN :
           FailSession(e, b)
    BY <2>2
  <2>4. metrics' \in Counters
    BY <1>5, <2>3, CountFailureType DEF FailSession
  <2> QED
    BY <1>2, <1>3, <1>6, <1>7, <1>8, <1>11, <2>1, <2>3, <2>4 DEF FailSession, BreakLoop
<1> QED
  BY <1>6, <1>9, <1>10, <1>11

\* HandleResult makes one worker less ready, in the flags, the count and the
\* worker set alike, and hands a worker it restarts over to its timer.
LEMMA HandleResultStep ==
    ASSUME IInv, HandleResult
    PROVE  IInv'
<1>a. PICK i \in Workers :
              /\ 1 \in DOMAIN resultCh /\ i = resultCh[1].index
              /\ states' \in [Workers -> WorkerStates]
              /\ \A j \in Workers : j # i => states'[j] = states[j]
              /\ states'[i].generation = states[i].generation /\ states'[i].ready = FALSE
              /\ Retire(states[i], i)
              /\ \/ /\ cancelled
                    /\ UNCHANGED <<cancelled, phase, backoff, sessionErr, result, event, metrics>>
                 \/ /\ ~cancelled /\ states[i].ready
                    /\ backoff' = backoff \cup {i}
                    /\ event' = "worker_restart_scheduled"
                    /\ UNCHANGED <<cancelled, phase, sessionErr, result, metrics>>
                 \/ /\ ~cancelled
                    /\ phase' = "draining" /\ cancelled' = TRUE
                    /\ sessionErr' \in {"session_supervision", "setup", "worker_forwarding"}
                    /\ event' = "runtime_failure"
                    /\ metrics' \in Counters
                    /\ UNCHANGED <<backoff, result>>
  BY HandleResultEffect
<1>b. /\ phase = "supervising" /\ resultCh' = Tail(resultCh)
      /\ UNCHANGED <<ctxDone, runner, readyCh, restartCh, ingressErrCh, ingress, sessionReady>>
  BY DEF HandleResult, loopVars
<1>c. /\ resultCh' \in Seq(Results)
      /\ \A k \in DOMAIN resultCh' :
            k + 1 \in DOMAIN resultCh /\ k + 1 # 1
            /\ resultCh'[k] = resultCh[k + 1] /\ k \in Int
      /\ \A k \in DOMAIN resultCh :
            k # 1 => \E j \in DOMAIN resultCh' : resultCh'[j] = resultCh[k]
  BY <1>a, <1>b, ElementTypes, TailElements DEF IInv
<1>d. /\ Exited(i) /\ i \notin backoff /\ \A m \in DOMAIN restartCh : restartCh[m] # i
      /\ \A k \in DOMAIN resultCh' : resultCh'[k].index # i
      /\ states[i].ready => \A k \in DOMAIN readyCh : readyCh[k].index # i
  BY <1>a, <1>c DEF IInv, ResultsCurrent, EventsCurrent
<1>e. \/ backoff' = backoff
      \/ backoff' = backoff \cup {i} /\ states[i].ready
  BY <1>a
<1>f. ws \in WorkerSets /\ Distinct(ws)
  BY DEF IInv, TypeOK, ReadyAccounting, WorkerSets, Routes, Distinct
<1>g. /\ Remove(ws, i) \in WorkerSets /\ Distinct(Remove(ws, i))
      /\ RouteIndexes(Remove(ws, i)) = RouteIndexes(ws) \ {i}
      /\ \A k \in DOMAIN Remove(ws, i).workers :
            \E j \in DOMAIN ws.workers : Remove(ws, i).workers[k] = ws.workers[j]
  BY <1>f, RemoveProperties
<1>h. /\ states[i].ready => readyWorkers' = readyWorkers - 1 /\ ws' = Remove(ws, i)
      /\ ~states[i].ready => readyWorkers' = readyWorkers /\ ws' = ws
  BY <1>a DEF Retire
<1>1. TypeOK'
  <2>1. ws' \in WorkerSets /\ readyWorkers' \in Int
    BY <1>f, <1>g, <1>h DEF IInv, TypeOK
  <2>2. /\ event' \in Runtime!Events /\ sessionErr' \in SessionErrors /\ metrics' \in Counters
        /\ phase' \in Phases /\ cancelled' \in BOOLEAN /\ result' \in {"none", "nil", "error"}
    BY <1>a DEF IInv, TypeOK, Runtime!Events, SessionErrors, Counters, Phases
  <2>3. backoff' \in SUBSET Workers
    BY <1>e DEF IInv, TypeOK
  <2> QED
    BY <1>a, <1>b, <1>c, <2>1, <2>2, <2>3
       DEF IInv, TypeOK, Results, WorkerStates, Counters, WorkerSets, Routes
<1>2. ReadyAccounting'
  <2>1. CASE states[i].ready
    <3>1. ReadySet' = ReadySet \ {i} /\ i \in ReadySet
      BY <2>1, <1>a DEF ReadySet
    <3>2. Cardinality(ReadySet') = Cardinality(ReadySet) - 1
      BY <3>1, ReadySetFinite, FS_RemoveElement
    <3>3. RouteIndexes(ws') = ReadySet'
      BY <2>1, <3>1, <1>g, <1>h DEF IInv, ReadyAccounting
    <3>4. \A k \in DOMAIN ws'.workers :
             ws'.workers[k].generation = states'[ws'.workers[k].index].generation
      <4> TAKE k \in DOMAIN ws'.workers
      <4>1. PICK j \in DOMAIN ws.workers : ws'.workers[k] = ws.workers[j]
        BY <2>1, <1>g, <1>h
      <4>2. ws.workers[j].index \in ReadySet /\ ws.workers[j].index \in Workers
        BY DEF IInv, ReadyAccounting, RouteIndexes, ReadySet
      <4>3. states'[ws.workers[j].index].generation = states[ws.workers[j].index].generation
        BY <4>2, <1>a
      <4> QED
        BY <4>1, <4>3 DEF IInv, ReadyAccounting
    <3> QED
      BY <2>1, <1>g, <1>h, <3>2, <3>3, <3>4 DEF IInv, ReadyAccounting, Distinct
  <2>2. CASE ~states[i].ready
    <3>1. ReadySet' = ReadySet /\ i \notin ReadySet
      BY <2>2, <1>a DEF ReadySet
    <3>2. \A k \in DOMAIN ws.workers :
             states'[ws.workers[k].index].generation = states[ws.workers[k].index].generation
      BY <3>1, <1>a DEF IInv, ReadyAccounting, RouteIndexes, ReadySet
    <3> QED
      BY <2>2, <1>h, <3>1, <3>2 DEF IInv, ReadyAccounting
  <2> QED
    BY <2>1, <2>2
<1>3. NothingStarted'
  BY <1>a, <1>b DEF NothingStarted
<1>4. RunnersCurrent'
  BY <1>a, <1>b DEF IInv, RunnersCurrent
<1>5. EventsCurrent'
  <2>1. \A k \in DOMAIN readyCh :
           /\ states'[readyCh[k].index].generation = states[readyCh[k].index].generation
           /\ ~states'[readyCh[k].index].ready
    BY <1>a, ElementTypes DEF IInv, EventsCurrent
  <2>2. \A k \in DOMAIN readyCh : readyCh[k].index \notin backoff'
    BY <1>d, <1>e DEF IInv, EventsCurrent
  <2> QED
    BY <1>b, <2>1, <2>2 DEF IInv, EventsCurrent
<1>6. ResultsCurrent'
  <2>1. \A k \in DOMAIN resultCh' : resultCh'[k].index \in Workers
    BY <1>c, ElementTypes DEF IInv
  <2>2. \A k \in DOMAIN resultCh' :
           /\ states'[resultCh'[k].index] = states[resultCh'[k].index]
           /\ resultCh'[k].index \notin backoff'
    BY <1>a, <1>c, <1>d, <1>e, <2>1 DEF IInv, ResultsCurrent
  <2>3. \A j, k \in DOMAIN resultCh' : resultCh'[j].index = resultCh'[k].index => j = k
    <3> SUFFICES ASSUME NEW j \in DOMAIN resultCh', NEW k \in DOMAIN resultCh',
                        resultCh'[j].index = resultCh'[k].index
                 PROVE  j = k
      OBVIOUS
    <3>1. j + 1 = k + 1
      BY <1>c DEF IInv, ResultsCurrent
    <3> QED
      BY <3>1, <1>c
  <2>4. \A k \in DOMAIN resultCh' :
           /\ resultCh'[k].generation = states[resultCh'[k].index].generation
           /\ Exited(resultCh'[k].index)
           /\ \A m \in DOMAIN restartCh : restartCh[m] # resultCh'[k].index
    BY <1>c DEF IInv, ResultsCurrent
  <2>5. \A k \in DOMAIN resultCh' :
           /\ resultCh'[k].generation = states'[resultCh'[k].index].generation
           /\ runner'[resultCh'[k].index].pc = "exited"
           /\ \A m \in DOMAIN restartCh' : restartCh'[m] # resultCh'[k].index
    BY <1>b, <2>2, <2>4 DEF Exited
  <2> QED
    BY <2>2, <2>3, <2>5 DEF ResultsCurrent, Exited
<1>7. RestartsIdle'
  <2>1. backoff \subseteq Workers
    BY DEF IInv, TypeOK
  <2>2. \A j \in Workers : ~states[j].ready => ~states'[j].ready
    BY <1>a
  <2> QED
    BY <1>a, <1>b, <1>d, <1>e, <2>1, <2>2, ElementTypes DEF IInv, RestartsIdle, Exited
<1>8. NobodyLost'
  <2> SUFFICES ASSUME phase' = "supervising", ~cancelled', NEW j \in Workers
               PROVE  Alive(j)' \/ Reported(j)' \/ j \in backoff' \/ RestartQueued(j)'
    BY DEF NobodyLost
  <2>1. ~cancelled /\ backoff' = backoff \cup {i}
    BY <1>a
  <2>2. CASE j # i
    <3>1. Reported(j) => Reported(j)'
      BY <2>2, <1>a, <1>c DEF Reported
    <3> QED
      BY <3>1, <2>1, <1>b DEF IInv, NobodyLost, Alive, RestartQueued
  <2> QED
    BY <2>1, <2>2
<1>9. ControlFlow'
  BY <1>a, <1>b DEF IInv, ControlFlow
<1> QED
  BY <1>1, <1>2, <1>3, <1>4, <1>5, <1>6, <1>7, <1>8, <1>9 DEF IInv

----------------------------------------------------------------------------
(* Theorems *)

\* Nothing is in flight when a session is created.
LEMMA InitIInv == Init => IInv
<1> SUFFICES ASSUME Init PROVE IInv
  OBVIOUS
<1>1. ReadySet = {} /\ DOMAIN ws.workers = {}
  BY DEF Init, ReadySet, EmptyWorkerSet
<1>2. TypeOK
  <2>1. /\ states \in [Workers -> [generation : Nat, restarts : Nat, ready : BOOLEAN]]
        /\ runner \in [Workers -> [pc : RunnerPCs, generation : Nat, err : RunErrors]]
    BY DEF Init, RunnerPCs, RunErrors
  <2>2. /\ ws \in [workers : Seq([index : Workers, generation : Nat]), next : Nat]
        /\ metrics \in [starts : Nat, failures : Nat, startupFailures : Nat]
    BY DEF Init, EmptyWorkerSet
  <2>3. /\ readyCh \in Seq([index : Workers, generation : Nat])
        /\ resultCh \in Seq([index : Workers, generation : Nat, err : RunErrors])
        /\ restartCh \in Seq(Workers)
        /\ ingressErrCh \in Seq({"nil", "ingress"})
    BY DEF Init
  <2>4. /\ phase \in Phases /\ sessionErr \in SessionErrors /\ event \in Runtime!Events
        /\ backoff \in SUBSET Workers
    BY DEF Init, Phases, SessionErrors, Runtime!Events
  <2>5. /\ ctxDone \in BOOLEAN /\ cancelled \in BOOLEAN /\ sessionReady \in BOOLEAN
    BY Zenon DEF Init
  <2>6. /\ ingress \in {"idle", "running", "done"} /\ readyWorkers \in Int
        /\ result \in {"none", "nil", "error"}
    <3>1. ingress = "idle" /\ readyWorkers = 0 /\ result = "none"
      BY DEF Init
    <3> QED
      BY <3>1
  <2> QED
    BY <2>1, <2>2, <2>3, <2>4, <2>5, <2>6 DEF TypeOK
<1>3. ReadyAccounting
  BY <1>1, FS_EmptySet DEF Init, ReadyAccounting, RouteIndexes
<1>4. NothingStarted /\ RunnersCurrent /\ ControlFlow /\ NobodyLost
  BY DEF Init, NothingStarted, RunnersCurrent, ControlFlow, NobodyLost
<1>5. EventsCurrent /\ ResultsCurrent /\ RestartsIdle
  BY DEF Init, EventsCurrent, ResultsCurrent, RestartsIdle
<1> QED
  BY <1>2, <1>3, <1>4, <1>5 DEF IInv

\* Every step of a session keeps the invariant.
LEMMA NextIInv == IInv /\ [Next]_vars => IInv'
<1> SUFFICES ASSUME IInv, [Next]_vars PROVE IInv'
  OBVIOUS
<1>1. CASE UNCHANGED vars
  <2> USE <1>1 DEF IInv, vars, ctxVars, chanVars, loopVars, reportVars
  <2>1. TypeOK'
    BY DEF TypeOK
  <2>2. ReadyAccounting'
    BY DEF ReadyAccounting, ReadySet, RouteIndexes
  <2>3. NothingStarted' /\ RunnersCurrent' /\ ControlFlow'
    BY DEF NothingStarted, RunnersCurrent, ControlFlow
  <2>4. EventsCurrent'
    BY DEF EventsCurrent
  <2>5. ResultsCurrent' /\ RestartsIdle'
    BY DEF ResultsCurrent, RestartsIdle, Exited
  <2>6. NobodyLost'
    BY DEF NobodyLost, Alive, Reported, RestartQueued
  <2> QED
    BY <2>1, <2>2, <2>3, <2>4, <2>5, <2>6
<1>2. CASE Next
  BY <1>2, CancelStep, StartupStep, RejectStep, SuperviseStep, ReturnStep, HandleReadyStep,
     HandleResultStep, HandleRestartStep, HandleIngressErrStep, HandleDoneStep,
     IngressReturnsStep, RunnerConnectedStep, OnReadyStep, SendResultStep, BackoffEndsStep,
     RunnerReturnsStep DEF Next
<1> QED
  BY <1>1, <1>2

\* The inductive invariant holds throughout every session.
LEMMA IInvHolds == Spec => []IInv
  BY InitIInv, NextIInv, PTL DEF Spec

\* Every variable of a session keeps its type.
THEOREM TypeCorrect == Spec => []TypeOK
<1>1. IInv => TypeOK
  BY DEF IInv
<1> QED
  BY <1>1, IInvHolds, PTL

\* However many workers there are and however they fail, the ready flags, the
\* count of ready workers and the routes of the ingress agree.
THEOREM ReadyAccountingHolds == Spec => []ReadyAccounting
<1>1. IInv => ReadyAccounting
  BY DEF IInv
<1> QED
  BY <1>1, IInvHolds, PTL

\* A worker is never run twice at once and is not lost before cancellation.
THEOREM OneIncarnationHolds == Spec => []OneIncarnation
<1>1. IInv => OneIncarnation
  <2> SUFFICES ASSUME IInv PROVE OneIncarnation
    OBVIOUS
  <2>1. ASSUME NEW i \in Workers
        PROVE  \A a, b \in 1 .. 4 : Whereabouts(i)[a] /\ Whereabouts(i)[b] => a = b
    <3>1. Alive(i) => ~Exited(i)
      BY DEF Alive, Exited
    <3>2. Reported(i) => Exited(i) /\ i \notin backoff /\ ~RestartQueued(i)
      BY DEF IInv, ResultsCurrent, Reported, RestartQueued
    <3>3. i \in backoff => Exited(i) /\ ~RestartQueued(i)
      BY DEF IInv, RestartsIdle, RestartQueued
    <3>4. RestartQueued(i) => Exited(i)
      BY DEF IInv, RestartsIdle, RestartQueued
    <3>5. /\ ~(Alive(i) /\ Reported(i)) /\ ~(Alive(i) /\ i \in backoff)
          /\ ~(Alive(i) /\ RestartQueued(i)) /\ ~(Reported(i) /\ i \in backoff)
          /\ ~(Reported(i) /\ RestartQueued(i)) /\ ~(i \in backoff /\ RestartQueued(i))
      BY <3>1, <3>2, <3>3, <3>4
    <3>6. /\ Whereabouts(i)[1] = Alive(i) /\ Whereabouts(i)[2] = Reported(i)
          /\ Whereabouts(i)[3] = (i \in backoff) /\ Whereabouts(i)[4] = RestartQueued(i)
      BY DEF Whereabouts
    <3>7. \A a \in 1 .. 4 : a = 1 \/ a = 2 \/ a = 3 \/ a = 4
      OBVIOUS
    <3> QED
      BY <3>5, <3>6, <3>7, Zenon
  <2>2. ASSUME NEW i \in Workers, phase = "supervising", ~cancelled
        PROVE  \E a \in 1 .. 4 : Whereabouts(i)[a]
    <3>1. Alive(i) \/ Reported(i) \/ i \in backoff \/ RestartQueued(i)
      BY <2>2 DEF IInv, NobodyLost
    <3>2. 1 \in 1 .. 4 /\ 2 \in 1 .. 4 /\ 3 \in 1 .. 4 /\ 4 \in 1 .. 4
      OBVIOUS
    <3> QED
      BY <3>1, <3>2 DEF Whereabouts
  <2> QED
    BY <2>1, <2>2 DEF IInv, OneIncarnation, ResultsCurrent, RestartsIdle
<1> QED
  BY <1>1, IInvHolds, PTL

\* The session is announced ready only when all its workers are.
THEOREM ReadyMeansAllWorkersHolds == Spec => ReadyMeansAllWorkers
<1>1. IInv /\ IInv' /\ [Next]_vars =>
         [~sessionReady /\ sessionReady' => ReadySet' = Workers]_vars
  <2> SUFFICES ASSUME IInv, IInv', Next, ~sessionReady, sessionReady'
               PROVE  ReadySet' = Workers
    OBVIOUS
  <2>1. HandleReady
    BY DEF Next, Cancel, Startup, Reject, Supervise, Return, HandleResult, HandleRestart,
           HandleIngressErr, HandleDone, IngressReturns, RunnerConnected, OnReady, SendResult,
           BackoffEnds, RunnerReturns, loopVars
  <2>2. readyWorkers' = Connections
    BY <2>1, HandleReadyEffect
  <2>3. Cardinality(ReadySet') = Cardinality(Workers) /\ ReadySet' \subseteq Workers
    BY <2>2, ReadySetFinite DEF IInv, ReadyAccounting, ReadySet
  <2> QED
    BY <2>3, ReadySetFinite, FS_Subset
<1> QED
  BY <1>1, IInvHolds, PTL DEF ReadyMeansAllWorkers, Spec

----------------------------------------------------------------------------
(* Refinement *)

\* A session starts as SessionRuntime says.
LEMMA InitRefines == Init => Runtime!RtInit
  BY DEF Init, Runtime!RtInit

\* Every step of a session is a step of SessionRuntime or none.
LEMMA NextRefines == IInv /\ [Next]_vars => [Runtime!RtNext]_(Runtime!rtVars)
<1> SUFFICES ASSUME IInv, [Next]_vars, ~UNCHANGED Runtime!rtVars
             PROVE  Runtime!RtNext
  OBVIOUS
<1> USE DEF Runtime!rtVars
<1>1. CASE UNCHANGED vars
  BY <1>1 DEF vars, ctxVars, reportVars, loopVars
<1>2. CASE Cancel
  BY <1>2 DEF Cancel, Runtime!RtNext, Runtime!RtCancel, reportVars, loopVars
<1>3. CASE Startup
  BY <1>3 DEF Startup, Runtime!RtNext, Runtime!RtStartup, ctxVars, loopVars
<1>4. CASE Reject
  BY <1>4 DEF Reject, Runtime!RtNext, Runtime!RtReject, ctxVars, loopVars
<1>5. CASE Supervise
  BY <1>5 DEF Supervise, Runtime!RtNext, Runtime!RtSupervise, ctxVars, reportVars
<1>6. CASE Return
  BY <1>6 DEF Return, IInv, ControlFlow, Runtime!RtNext, Runtime!RtReturn, ctxVars, loopVars
<1>7. CASE HandleReady
  <2>1. /\ phase = "supervising" /\ sessionErr = "none"
        /\ UNCHANGED <<ctxDone, phase, sessionErr, result>>
    BY <1>7 DEF HandleReady, ctxVars, IInv, ControlFlow
  <2>2. /\ sessionReady' = (sessionReady \/ (~sessionReady /\ readyWorkers + 1 = Connections))
        /\ event' = IF ~sessionReady /\ readyWorkers + 1 = Connections
                    THEN "runtime_ready" ELSE event
    BY <1>7, HandleReadyEffect
  <2>3. sessionReady \in BOOLEAN
    BY DEF IInv, TypeOK
  <2>4. CASE ~sessionReady /\ readyWorkers + 1 = Connections
    BY <2>1, <2>2, <2>3, <2>4 DEF Runtime!RtNext, Runtime!RtReady
  <2>5. CASE ~(~sessionReady /\ readyWorkers + 1 = Connections)
    BY <2>1, <2>2, <2>3, <2>5
  <2> QED
    BY <2>4, <2>5
<1>8. CASE HandleResult
  <2>1. phase = "supervising" /\ sessionErr = "none" /\ UNCHANGED <<ctxDone, sessionReady>>
    BY <1>8 DEF HandleResult, loopVars, IInv, ControlFlow
  <2>2. \/ UNCHANGED <<phase, sessionErr, result, event>>
        \/ event' = "worker_restart_scheduled" /\ UNCHANGED <<phase, sessionErr, result>>
        \/ /\ phase' = "draining" /\ sessionErr' # "none"
           /\ event' = "runtime_failure" /\ UNCHANGED result
    BY <1>8, HandleResultEffect
  <2> QED
    BY <2>1, <2>2 DEF Runtime!RtNext, Runtime!RtRestart, Runtime!RtFail
<1>9. CASE HandleRestart
  BY <1>9 DEF HandleRestart, ctxVars, reportVars
<1>10. CASE HandleIngressErr
  <2>1. phase = "supervising" /\ phase' = "draining" /\ sessionErr = "none"
        /\ UNCHANGED <<ctxDone, sessionReady, result>>
    BY <1>10 DEF HandleIngressErr, FailSession, BreakLoop, loopVars, IInv, ControlFlow
  <2>2. \/ sessionErr' # "none" /\ event' = "runtime_failure"
        \/ sessionErr' = "none" /\ ctxDone /\ UNCHANGED event
    BY <1>10, HandleIngressErrEffect
  <2> QED
    BY <2>1, <2>2 DEF Runtime!RtNext, Runtime!RtFail, Runtime!RtDrain
<1>11. CASE HandleDone
  BY <1>11 DEF HandleDone, BreakLoop, loopVars, IInv, ControlFlow, Runtime!RtNext, Runtime!RtDrain
<1>12. CASE \E err \in {"nil", "ingress"} : IngressReturns(err)
  BY <1>12 DEF IngressReturns, ctxVars, loopVars, reportVars
<1>13. CASE \E i \in Workers :
               \/ RunnerConnected(i) \/ OnReady(i) \/ SendResult(i) \/ BackoffEnds(i)
               \/ \E err \in RunErrors : RunnerReturns(i, err)
  BY <1>13 DEF RunnerConnected, OnReady, SendResult, BackoffEnds, RunnerReturns,
               ctxVars, loopVars, reportVars
<1> QED
  BY <1>1, <1>2, <1>3, <1>4, <1>5, <1>6, <1>7, <1>8, <1>9, <1>10, <1>11, <1>12, <1>13 DEF Next

\* A supervised session keeps every promise of SessionRuntime to its caller.
THEOREM SupervisorRefines == Spec => RefinesSessionRuntime
  BY InitRefines, NextRefines, IInvHolds, PTL DEF Spec, RefinesSessionRuntime, Runtime!RtSpec
=============================================================================
