# vk-turn-proxy: TLA+ models, model checking and proofs

vk-turn-proxy carries local UDP or TCP traffic through a TURN relay. A client
session resolves TURN credentials from a provider, opens several transport
workers (TURN allocation, DTLS, overlay handshake) and lets one local ingress
dispatch to them; a server terminates DTLS, or takes plain datagrams, and
forwards to an upstream. A control-plane host starts and stops sessions and
platform tunnels for graphical shells, keeps VPN transport profiles and a cache
of remote provider catalogs, shows the challenges of a provider and keeps the
records the shells read. On Linux a privileged helper owns the TUN device.

This directory models those parts: client, server, control plane and helper.
Paths below are relative to the repository.

## Inventory

| Component | State | Operations | Talks to |
|---|---|---|---|
| Session supervision, `internal/session` | worker states, four channels, readiness, session error | `Run`, the five cases of the select, worker and backoff goroutines | runner, ingress, observer |
| Worker set, `internal/overlay/workers.go` | routes, round-robin cursor | `SetReady`, `Remove`, `Next` | called by both ingresses |
| TCP ingress, `internal/overlay/tcp_ingress.go` | stream map, streams, accept loop | accept, reader, writer, `Deliver`, `SetReady`, `Remove`, `Close`, AfterFunc | worker outbound channels, forwarders |
| UDP ingress, `internal/overlay/udp_ingress.go` | the last sender per route id | read loop, `Deliver`, `SetReady`, `Remove`, `Close` | the same |
| Forwarders and runner, `internal/transport` | one relay connection, the last route id | set-up, copy loops | TURN and DTLS libraries |
| Server, `internal/tunnelserver/server.go` | connections and their goroutines | `Run`, `Serve`, `handleConnection`, stop | overlay sessions |
| Overlay session, `internal/tunnelserver/overlay_session.go` | stream map (TCP) or socket and route (UDP) | hello, frame loop, `HandleFrame`, `runStream`, reader, writer, `Close` | overlay connection, upstream sockets |
| Plain server, `internal/tunnelserver/plain_server.go` | upstream session per client | read loop, `runPlainSession`, `closeSession`, idle expiry | upstream sockets |
| Host sessions, `pkg/clientcontrol/host.go` | session and challenge records, subscribers | start, stop, wait, runtime records, challenges, events | `session.Run`, shells |
| Host resolutions, `pkg/clientcontrol/resolution.go` | resolution record, credentials, lease | start, cancel, export, materialize, expire | provider, shells |
| Runtime planning, `runtime_execution_*.go`, `provider_transport_compatibility.go` | none: tables and rules over resolutions, plans and profiles | choose a plan, list candidates, validate a start | host tables |
| Profile store, `transport_profile_*.go` | profiles, scoped defaults, statuses, a file | import, structured create and update, rename, forget, select, migrate, portable transfer, load, save | file system |
| Platform tunnels, `platform_tunnel.go`, part of `host.go`, the desktop and Android hosts | host tables, controller slot or attempts, native lifecycle, kernel | start, resume, stop, lease, publish, cleanup | resolutions, profiles, platform services |
| Linux TUN helper, `internal/linuxtunhelper` | state file, lock, processes, devices, routes | `start`, `cleanup`, signals, the host's client | the kernel, the desktop host |
| VPS catalog, `internal/vpscatalog`, `vps_provider_catalog.go` | snapshots, generation floor, cache file, issued artifacts | sync, load, save, issue, retry, restart | VPS over HTTP |
| Provider adapters and prompts, HTTP API, entry points, Flutter shells | conversations and wiring | | |

What is hard in it:

* Go's `select` takes any ready case, so the messages of one goroutine on two
  channels are handled in either order (`supervisor.go:117`).
* Decisions are made under a mutex and acted on after the unlock: `Next` and
  `storeStream` or `storeRoute` in the ingresses, `dial` and `setConn` in the
  egress, the two halves of `closeSession`, `signalChallenge` and
  `CancelResolution`, a migration that looks before it stores, a sync that reads
  the floor before it stores.
* No lock spans a tunnel start: host tables, controller, lifecycle and kernel each
  change by themselves, and each stage may fail, as may the cleanup after it.
* The overlay connection is DTLS over UDP: frames are lost and overtake each
  other, while TCP streams need order and an end.
* Every goroutine that was started must end when its session or the server is
  cancelled, whatever queue, dial, handshake, timer or challenge it is blocked on.
* Late results: a worker of an old generation, a provider that ignores its
  cancelled context, an answer to a challenge that is over, an older catalog.
* Processes that die between the record of what they do and the doing: a save
  that fails after its rename, a helper that is killed among its `ip` commands.

What makes each part correct: the supervisor never loses or doubles a worker,
its counters and the ingress' routes agree, and it always returns with the
error it announced; the ingress and the egress confine a failure to its own
streams and deliver a prefix of what was sent; a stopped server lets go of
everything; an ended session stays ended and agrees with the runtime; a resolution
that is cancelled away from a challenge stays cancelled, and one holds credentials
only while it may; the profile store keeps what
it acknowledged and reports what a start will do; a tunnel that is up has a
session and the reverse; the helper loses no route; the catalog never falls
behind a generation it has accepted. `PROJECT.json` lists every component and,
under `hazards`, each such place with its line and the properties aimed at it.

## Modules

```
SessionRuntime <- implemented by - Supervisor - MCSupervisor, SupervisorProofs
      |                                 |
      | (built on)                  WorkerSet
      v                                 |
HostSession      OverlayFrames - TcpIngress - UdpIngress - MCIngress
      |                |              \                     IngressProofs
ChallengeBroker        |               TcpOverlay - TcpOverlayProofs
      |                |              /
Resolution             +------- TcpEgress - TunnelServer - MCTunnelServer
      |                         PlainServer ----'          TunnelServerProofs
MCClientHost (over HostSession and Resolution) - HostProofs

ExecutionPlans - TransportProfiles - ProfileStore - MCProfileStore, ProfileStoreProofs
                        '- Compatibility - Candidates - MCCandidates, HostProofs
                                '- PlatformTunnel - MCPlatformTunnel, PlatformTunnelProofs
LinuxTunHelper - MCLinuxTunHelper, LinuxTunHelperProofs
VpsCatalog - MCVpsCatalog, HostProofs
```

**WorkerSet** is `workerSet`: a sequence of routes with a cursor. Its methods
run under one mutex and are operators. An outbound channel is identified by the
generation of the worker that made it.

**SessionRuntime** is the abstract specification of one call of `session.Run` as
its caller sees it: lifecycle events, order, and result. Readiness at most once;
one failure event at most, and an error exactly with it; nil only to a caller
that had cancelled.

**Supervisor** is `session.Run` with `runSupervisedSession`. `states`,
`readyWorkers`, `sessionReady` and `sessionErr` are the locals of that function,
the channels are sequences with their capacity, `runner` is the worker
goroutines, `backoff` the running restart timers. Each case of the select is an
action (`HandleReady`, `HandleResult`, `HandleRestart`, `HandleIngressErr`,
`HandleDone`) that is enabled whenever its channel holds something. Everything
before the loop is `Startup`, `Reject` and `Supervise`. A runner is its
outcomes: an error in the set-up, readiness and then an error or nil.

**OverlayFrames, TcpIngress, TcpEgress, TcpOverlay**: `TcpIngress` is the
client's `TCPIngress` with its accept loop, one reader and one writer per stream,
the inbound forwarder that calls `Deliver`, and the supervisor's calls;
`TcpEgress` is the server's session and `tcpEgressAdapter` with `runStream`, a
reader and a writer per stream. A payload is the number of its chunk.
`closeStream` is one step on both sides, since the delete from the map under the
mutex selects the one goroutine that does the rest. What is *not* atomic in the
code is several steps: pick, store and open of a stream; the wait of
`notifyRemoteClose` and the close after it; `Remove` of the route and of its
streams; dial, `setConn` and `loadConn`; egress close and connection close.
`TcpOverlay` joins both sides by a network that loses and reorders frames and,
DTLS rejecting replays, does not duplicate them.

**UdpIngress** adds `UDPIngress` over the same worker set: one read loop, a map
from route id to the last sender, the forwarders' `lastRouteID`. A route id is the
worker's index and so outlives the worker; the map therefore keeps, in place of
an address, the generation of the worker the sender's datagram was given to.
`MCIngress` chooses the adapter and closes it with an arbitrary peer.

**PlainServer, TunnelServer**: `PlainServer` is `ServePlain` with a
`runPlainSession` per client; both close sessions, in two steps. `TunnelServer`
is `Server.Run` in its three configurations: plain, or the accept loop with
`handleConnection`, the overlay hello and a UDP or a TCP egress. With TCP egress
it serves one connection, whose session is `TcpEgress`. `MCTunnelServer` lets
clients do anything.

**ChallengeBroker, Resolution, HostSession**: `ChallengeBroker` is what the two
brokers of the control plane share: a provider's `Resolve` that stops at
challenges, `waitChallengeAction`, `completeChallenge` and the two halves of
`signalChallenge` (under the mutex, and the send after the unlock).
`Resolution` adds the record of a resolution with its credentials, expiry and
lease; `HostSession` adds the session record and drives it by `SessionRuntime`,
so that what `Supervisor` is proved to implement is what the host is checked
against. Handling a log record happens on the goroutine that emits it and is
one step with it, except `clearPendingChallenges`, which takes the mutex again.
`MCClientHost` is a host with one of the two. They share the broker and nothing
else, so a behaviour with one shows all that either does.

**ExecutionPlans, TransportProfiles, Compatibility** are pure operators: which
plans and capability reports are well formed and how a plan is chosen; what a
profile's status says and which profile a start uses; which combinations of a
resolution, a plan and a profile are offered and which a start accepts. They
keep the functions of the code as operators of the same name. An endpoint is one
of the classes its two validators tell apart, a candidate digest is what is
digested. A loop that keeps the matching elements of a slice is `ElementsAt`, the
sequence of the elements at a set of places.

**ProfileStore** keeps the profiles and defaults in memory, the file, and the
calls that change both. A save may fail before its rename (the old file stays)
or after it (the new file is there and an error is reported), and the process may
end and load what the file holds. Migrations and confirmed imports are two steps
with the mutex released in between.

**Candidates** is a client that asks for candidates, keeps one and starts it
later, while resolutions settle and expire, a VPS lease runs out and profiles are
stored, replaced and forgotten.

**PlatformTunnel** is `StartPlatformTunnel`, `ResumePlatformTunnel` and
`StopPlatformTunnel` with the controllers and native lifecycles of the Windows,
Linux and Android hosts; each behaviour picks one. A call is a process with a
program counter, and a step is what one mutex protects or one command to the
kernel. `native` is what the lifecycle believes, `devices`, `runtimes` and
`routes` what is really there.

**LinuxTunHelper** is the helper process of the packaged Linux host: `start`,
which holds the device until told to end, and `cleanup`, another process. They
meet in a state file under a lock, in signals, and in the kernel's tables. A
helper may be killed at any step, a host may die and be restarted.

**VpsCatalog** is the VPS service and the host's cache of it: signed snapshots
with generations, the floor of accepted generations, the cache file, and
artifacts issued against the copy, with overlapping calls, lost answers, failing
writes and restarts of either side.

## Runs

All passing runs but `candidates` say `CHECK_DEADLOCK FALSE`: sessions, streams,
calls and processes end or their bound is used up, and a state in which they
have ended has no successor.

| Run | Checks | States |
|---|---|---|
| `supervisor` | `ReadyAccounting`: flags, counter and routes agree; `OneIncarnation`: a worker is in exactly one of goroutine, result, timer, restart request; `ReadyMeansAllWorkers`; `CancelReturns`, `ScheduledRestartHappens`; `RefinesSessionRuntime` | 71,434 |
| `ingress` | `AtMostOneStray`: the race of accept and `Remove` costs at most one stream per route; `UnrelatedStreamsSurvive`: a failure reaches only its own streams; `RepliesReachTheirSenders`: a UDP reply goes to a sender of the worker's present incarnation | 1,743,852 |
| `tunnel_server` | `SessionsMapIsExact` of plain mode; `SessionEndStopsStreams`, also for a stream opened while the session is being swept; `StopReleasesEverything`, in every configuration and whatever a connection is at | 339,281 |
| `tcp_overlay` | `StreamsArePrefixes` in both directions; `StreamsOpenOnce`: the server never dials again for a stream; `ClosedStreamsStop`; `LocalCloseReachesUpstream`, even if the close frame is lost or overtakes the open frame, for an upstream that ends or falls silent for the idle timeout (`UpstreamGoesQuiet`) | 174,136 |
| `client_host` | of a session: `OutcomeIsTheRuntimes`: the final state is what the runtime announced; `TerminalIsFinal`; `StopReturns`. Of a resolution: `SecretsOnlyWhenResolved`; `CancelledStaysCancelled`: away from a challenge no late result, answer, expiry or materialization changes a cancelled record; `CancelStopsProvider`. Of both: `ActiveChallengeIsAwaited` | 166,162 |
| `profile_store` | `StatusesAreCurrent`: cached statuses equal what would be computed now; `AcknowledgedIsKept`: nothing acknowledged is lost by a reload; `AtMostOneMigrated`; `ReportedPlansStart`: a plan reported as satisfied starts; `ReadBackChangesNothing`: a redacted draft saved again keeps the secrets | 24,808 |
| `candidates` | `StartableCandidatesStart`; `AcceptedStartsAreCurrent`: a start with old references is refused; `KeptCandidatesStartAsShown`: when the guard accepts a kept candidate, the profile store does not end its start for want of a profile and attaches the profile that was shown | 14,291 |
| `platform_tunnel` | `SettledTunnelsMatch`: between calls session, controller, lifecycle and kernel agree; `PendingStartsAreResumable`; `StopHeals`: a stop that succeeds alone puts everything back, whatever went wrong before | 1,101,092 |
| `linux_tun_helper` | `RoutesAreAccounted`: every exclusion route is in a record or somebody's hands, unless a deletion had failed (`botched`), a cleaner had acted on an outdated record (`raced`) or the file was torn; `OneOwner`, unless `raced`; `CleanupReleases`: a cleanup that succeeds leaves nothing of its attempt, unless it looked before the record was written (`early`), `botched` or `raced` | 4,148,608 |
| `vps_catalog` | `OffersKeepTheFloor`, `IssuesKeepTheFloor`: neither what is offered nor what is issued is older than an accepted generation; `RetriesAreIdempotent` | 890,180 |

Each property has a mutant of the code (an operator marked *Mutant* in the
modules) under which it fails.

### Two disagreements

`resolution_cancelled` ends in a counterexample. A provider that finishes late
leaves a cancelled resolution cancelled and not ready for transport, says
`TestHostCancelResolutionStaysCancelledIfProviderFinishesLate`
(`pkg/clientcontrol/host_test.go:3984`, `4042`, `4050`). With a challenge it does
not: a resolution that was cancelled while its provider was at a challenge is put
back to `starting` by `completeChallenge`, which does not look at the state
(`host.go:1932-1933`), when a continuation has arrived; `finishResolutionSuccess`
ignores a result only if the record is cancelled, failed or expired
(`resolution.go:420-424`), so the late success resolves it, credentials included.

`platform_tunnel_profile_failure` ends in a counterexample. The specification
(`openspec/specs/platform-tunnel-integration/spec.md:453-461`) says that a start
that fails on its profile triggers no native cleanup. The error of the profile
store is put into another one as text (`wireguard_turn_carrier.go:245`), so the
hosts' `errors.Is` no longer recognises it, classify the failure as
`runtime_attach` and run the cleanup; with a tunnel of an earlier start up, that
one is torn down.

### Behaviour the models reproduce and no property forbids

* A worker that reported readiness and then failed fails the session instead of
  being restarted, when the select takes its result first; `README.md:391-392`
  speaks of a restart.
* The startup failure counter also counts a restarted worker of a session that
  had been ready.
* A stream stored just after its worker was removed stays open on a channel nobody
  reads (`AtMostOneStray` bounds it to one per route).
* An upstream stream closed between its dial and `setConn` ends with its socket
  open; the server's only close frame may be lost, and the local connection then
  stays open as long as the session.
* A cancelled resolution goes back to `challenge_required` or `starting` when its
  provider raises or completes a challenge late, and may then be resolved or failed
  (`resolution_cancelled`).
* Of two contrary callers of `signalChallenge` one may set the status of the
  challenge and the other be heard by the provider.
* A stop of the Linux tunnel that comes before the helper has written its record
  finds nothing to clean, and the helper goes on.
* A torn state file makes later starts of the helper fail until it is removed.
* The store starts empty when its file cannot be read, and the next save replaces
  that file. Importing a portable profile twice makes two profiles. A structured
  update accepts endpoints that a start then refuses.
* An issue that is retried after the VPS advanced its generation is refused as a
  rollback.

### Bounds

* `supervisor`: 2 workers, 1 restart each. With two, one fails while the other
  is starting, ready, in backoff or restarting; one restart exhausts the budget.
  The safety properties are proved for every number of both.
* `ingress`: 2 workers, 2 streams, queues of one, one chunk or frame in total
  with TCP, where a worker has one generation; two generations with UDP, so that a
  worker comes back under the same route id.
* `tunnel_server`: 2 connections with UDP egress, 2 clients and 3 plain sessions
  (one client has a session closing while it gets the next), 1 connection with 1
  stream, 2 chunks and 1 reply with TCP egress; streams share only the end.
* `tcp_overlay`: 1 stream, 1 worker, 2 chunks in all in either direction
  (`MaxTraffic` = 2), queues of one: frames overtake each other and every queue
  overflows.
* `client_host`: 2 challenges, so that a late one meets a settled
  record, and 3 calls that answer them. `StopSession` and `CancelResolution` may
  be repeated, one call at a time. The theorems hold for any number.
  `resolution_cancelled` needs 1 challenge and 1 caller.
* `profile_store`: 2 profiles, 2 callers, 1 save that fails after its rename; nine
  drafts that each differ from a good one in one respect.
* `candidates`: 1 resolution that settles once, 2 providers, 2
  profile ids, and four artifacts: with the strict plan, with an experimental plan
  of a VPS besides, with a strict plan this host cannot run, and a room without
  plans. Each artifact with plans also has the one of the custom overlay, which no
  tunnel runs. That an old reference meets another artifact than it was made from is
  covered by the references a client may keep: any artifact, provider and expiry.
* `platform_tunnel`: 3 calls, one overlap of two, every stage failing or not. A
  third call is what shows that the state after a race or a failure is usable.
* `linux_tun_helper`: 2 starts, 2 cleanups, 1 death of the host, 1 killed helper;
  both attempts exclude the same DNS server, the shared resource.
* `vps_catalog`: 3 calls, 2 generations and an issuer change, a clock of two
  values, 1 restart of either side, and two settings: one endpoint, or a list of
  two that a single sync goes through, of which one is of another kind.

### Fairness

Weak fairness only, and only for what the code or the runtime guarantees:

* a goroutine that is not blocked goes on, and a timer that is waited for fires
  (backoff, outbound, control, handshake, hello and dial timeouts);
* a call blocked on a closed connection, socket or listener returns; the server's
  reads of an upstream have deadlines after which they look at their context, so a
  read of a stream that has ended returns, while on the client side no read has to end;
* a select takes some ready case as long as there is one, and no case has fairness
  of its own: the supervision loop is one weakly fair action;
* a runner, and a provider, return at some point *after* their context is
  cancelled. `HostSession` assumes of `session.Run` what `CancelReturns` shows of
  `Supervisor`;
* the network, the applications, the upstreams, the shells and an uncancelled
  provider owe nothing. The read deadline of an upstream starts again at each chunk
  (`overlay_session.go:487`), so one that talks on keeps its stream for ever, also
  when the close frame of the local side was lost. `LocalCloseReachesUpstream` says
  so: it has the hypothesis `UpstreamGoesQuiet`, and only for the stream it is
  about.

The runs `ingress`, `profile_store`, `candidates`, `platform_tunnel`,
`linux_tun_helper` and `vps_catalog` check safety only and state no fairness.

## Proofs

| Theorem | Statement | For every |
|---|---|---|
| `TypeCorrect` | `Spec => []TypeOK` of `Supervisor` | `Connections` > 0, `MaxWorkerRestarts` |
| `ReadyAccountingHolds` | `Spec => []ReadyAccounting` | the same |
| `OneIncarnationHolds` | `Spec => []OneIncarnation` | the same |
| `ReadyMeansAllWorkersHolds` | `Spec => ReadyMeansAllWorkers` | the same |
| `SupervisorRefines` | `Spec => RefinesSessionRuntime` | the same |
| `SessionsMapIsExactHolds` | `Spec => []SessionsMapIsExact` of `MCTunnelServer` | set of clients, number of plain sessions, connections and streams |
| `SecretsOnlyWhenResolvedHolds` | `ResolutionSpec => []SecretsOnlyWhenResolved` | number of challenges, set of callers |
| `CancelledStaysCancelledHolds` | `ResolutionSpec => CancelledStaysCancelled` | the same |
| `ActiveChallengeIsAwaitedHolds` | `ResolutionSpec => []ActiveChallengeIsAwaited` | the same |
| `OutcomeIsTheRuntimesHolds` | `SessionSpec => []OutcomeIsTheRuntimes` | the same |
| `TerminalIsFinalHolds` | `SessionSpec => TerminalIsFinal` | the same |
| `SessionShowsAwaitedChallenge` | `SessionSpec => []ActiveChallengeIsAwaited` | the same |
| `RepliesReachTheirSendersHolds` | `Spec => []RepliesReachTheirSenders` of `MCIngress` | set of workers, generations, streams, chunks, queue capacities |
| `AtMostOneStrayHolds` | `Spec => []AtMostOneStray` | the same |
| `UnrelatedStreamsSurviveHolds` | `Spec => UnrelatedStreamsSurvive` | the same |
| `StreamsArePrefixesHolds` | `Spec => []StreamsArePrefixes` of `TcpOverlay` | the same, and amount of traffic |
| `StreamsOpenOnceHolds` | `Spec => StreamsOpenOnce` | the same |
| `StatusesAreCurrentHolds` | `Spec => []StatusesAreCurrent` of `ProfileStore` | profile ids, callers, files, drafts, envelopes, late faults |
| `AcknowledgedIsKeptHolds` | `Spec => []AcknowledgedIsKept` | the same |
| `AtMostOneMigratedHolds` | `Spec => []AtMostOneMigrated` | the same |
| `ReadBackChangesNothingHolds` | `Spec => []ReadBackChangesNothing` | the same |
| `ReportedPlansStartHolds` | `Spec => []ReportedPlansStart` | the same, and table of tunnel capabilities |
| `KeptCandidatesStartAsShownHolds` | `CandidatesSpec => KeptCandidatesStartAsShown` | resolution and profile ids, providers, artifacts, VPS answers, settings, tunnel capabilities |
| `AcceptedStartsAreCurrentHolds` | `CandidatesSpec => []AcceptedStartsAreCurrent` | the same |
| `StartableCandidatesStartHolds` | `CandidatesSpec => []StartableCandidatesStart` | the same |
| `OffersKeepTheFloorHolds` | `Spec => []OffersKeepTheFloor` of `VpsCatalog` | catalogs, settings, offers, operations, calls, clock, restarts |
| `IssuesKeepTheFloorHolds` | `Spec => []IssuesKeepTheFloor` | the same |
| `RetriesAreIdempotentHolds` | `Spec => []RetriesAreIdempotent` | the same |
| `RoutesAreAccountedHolds` | `Spec => []RoutesAreAccounted` of `LinuxTunHelper` | starts, cleanups, crashes, kills, exclusions |
| `OneOwnerHolds` | `Spec => []OneOwner` | the same |
| `CleanupReleasesHolds` | `Spec => []CleanupReleases` | the same |
| `SettledTunnelsMatchHolds` | `Spec => []SettledTunnelsMatch` of `PlatformTunnel` | start requests, resolution, profile, calls, overlaps, any of the three modes |
| `PendingStartsAreResumableHolds` | `Spec => []PendingStartsAreResumable` | the same |
| `StopHealsHolds` | `Spec => []StopHeals` | the same |

The assumptions are those of the modules, named there: `ConnectionsAssumption`
(what `config.Validate` checks) and `RestartsAssumption` of `Supervisor`,
`PlainAssumption` of `PlainServer` (clients and sessions are numbered, 0 stands
for none), the bounds of the ingress and overlay (numbers of streams, chunks and
capacities are naturals, as the lengths of Go's channels are), `CatalogBounds`,
`HelperBounds`, `TunnelBounds` (which also says that a host's mode is one of the
three the code has a controller for), and two of `ProfileStore`.
`MaterialAssumption` there says that what a client presents has been through
`Parse`: a file is imported after it, and an export, or the first store file,
was written by a host that had imported it. `Parse` leaves no MTU of zero and no
field but its own; without that, an export of an unparsed profile would not read
back as what it was.

Three assumptions are about tables that the code builds from constants or
validates. `TunnelsAssumption` of `TransportProfiles`: the tunnel capabilities
passed `validatePlatformTunnelCapabilities` (`platform_tunnel.go:158`, called when
the host is built), which keeps their modes apart, and a plan is described in one way only, as each of the three
hosts does (the code validates each descriptor, not that they differ).
`ArtifactsAssumption` of `Candidates` says the same of the descriptors of an
artifact, which the host takes from its own capabilities, the overlay's descriptor
and the VPS's action, and that only an artifact of a known family has any.
`ProvidersAssumption`: no provider has the empty name, which `StartResolution`
refuses (`resolution.go:80`).

Each component's inductive invariant was first checked by TLC on the instance
of its run.

**Supervisor.** None of its properties is inductive by itself. The inductive
invariant `IInv` adds what the code relies on without saying it:

* `NothingStarted`: before supervision everything is in its initial state;
* `RunnersCurrent`: a goroutine has its worker's current generation, and a
  worker that has not announced itself is not ready;
* `EventsCurrent`, `ResultsCurrent`: a queued ready event or result is of the
  current generation and the worker's only one, no restart of that worker is
  under way, and a worker with a queued ready event is not ready yet;
* `RestartsIdle`: a worker in backoff or in the restart queue has ended, is not
  ready, and is there once;
* `NobodyLost`: while the session lives each worker is somewhere;
* `ControlFlow`: phases, errors and contexts go together (no error before the
  loop ends, a drained session is cancelled, ...).

The argument that carries most of the weight: a worker is restarted only after
its ready event was taken (a result that is taken first fails the session), so no
event of an earlier generation is ever queued, and each event adds, each result
removes, exactly one route. The generation checks of `supervisor.go:120` and `155`
are therefore never taken; they are kept in the model as the code has them.
Lemmas on `WorkerSet` (what `SetReady` and `Remove` do to the routes and
their uniqueness) are stated once. The refinement follows from `IInv` action by
action; readiness needs `ReadyAccounting`, since the code compares a *counter*
with the number of workers and the property speaks of the *set*.

**Plain server.** `PlainInv` adds to `SessionsMapIsExact` that the loop is at a
session of the client whose datagram it read and that nobody who has unmapped a
session finds it in the map again (`LoopIsAtSession`, `SessionsProgress`), and
that a client is mapped to a session of its own (`MapIsByRemote`). The comparison
in `closeSession` before the delete is what carries the two unmapping steps. The
other configurations of the server leave the plain variables alone.

**Resolution.** A record becomes resolved, failed or expired only at the end of
the goroutine of `runResolution` (`SettledByProvider`), and the broker touches a
record only while `Resolve` runs (`BrokerLeavesOwner`, shared with the host
session): so no late challenge or cancellation reaches a record that holds
credentials. A cancelled record is changed by two steps only, `recordChallenge` and
`completeChallenge`, and the second needs a provider at a challenge. The property
names the number of challenges raised when the record was cancelled; that number
only grows (`CurrentGrows`), and as long as it is the same, no provider is at a
challenge again (`CancelledSince`).

**Challenges.** That the active challenge is the awaited one needs to know which one
the provider waits for. `BrokerInv` says that challenges are numbered in the order
in which they are raised, that a provider that stopped did so for a challenge that
was raised, and that a caller between the two halves of `signalChallenge` has an
identifier that was raised before, so that its second half cannot bring up a
challenge nobody waits for. The invariant is one of the broker, so the session and the
resolution share it; each only shows that its own steps leave the broker alone.

**Host.** Each theorem about `ResolutionSpec` or `SessionSpec` is one about
`ClientSpec`: a host that owns a session or a resolution goes on owning it and
behaves as that module says (`ClientIsItsOwner`).

**Host session.** `HostInv` says that the provider runs only before supervision,
that `session.Run` has an error exactly after a failure, that the record is failed
exactly from then on, and that only `finishSession` stops it.

**Ingress.** `IngressInv` joins three invariants. `WorkersInv`: the routes are
the set workers with their present generation, each once, and a generation never
comes back. `TcpInv`: a stream in the map is on a channel of a generation that
its worker has had, so a removal finds every stream but the one the accept loop
is about to store; that is why there is at most one stray. `UdpInv`: a map entry,
and the pick of the read loop, are of a generation that was set, and the
forwarder of a worker has a reply only when it took a datagram before. That the
properties survive a `Remove` between pick and `storeRoute` rests on the
comparison of generations, not on the order of the two.

**Overlay.** `OverlayInv` follows a chunk along its way: reader, outbound queue,
network, inbound queue, writer. The frames of one stream in all of these places
are different chunks of what was read (so a frame is somewhere once), the writer
expects the next one, and what it wrote is a prefix. `ExpectedSeq` in the code is
what makes reordering harmless. For the open frame the invariant says that it is
in one place, and only as long as the server has not seen its stream:
`storeStream` refuses an identifier only while its stream lives, so it is this
and not the check that keeps `StreamsOpenOnce`.

**Profile store.** `StoreInv` says that each profile's status is the one computed
from profile and defaults, that the file holds what memory holds unless a save
failed after its rename, and that each legacy profile stems from the one legacy
file (`OneMigrated`). Since every call that changes a profile ends with a
refresh of all statuses, the work is in the calls that change *another*
profile's status: a default taken away, a profile forgotten, a migration that
finds its result already there. `ReadBackChangesNothing` is a statement about the
operators that the reachable profiles satisfy: every stored material is `Parsed`.

`ReportedPlansStart` compares two pieces of code, the report of a capability and
the start, whatever is stored. The report looks at one descriptor; the start first
selects one by mode and plan. Modes are distinct and equal plans have equal
descriptors, so it selects the one that was reported, and from there both ask the
same of the same default.

**Candidates.** `CandidatesInv` says only that a resolution holds no artifact or a
known one; the rest is about the operators. A verdict is the first check that
applies (`FirstOf`), so a candidate is startable exactly when none applies
(`DescriptorRuns`). A candidate in the list is of a descriptor the request asked
for (`FoundCandidate`), and what `ElementsAt` keeps is not empty when some place
is kept, so the guard of a start, which lists the candidates of the copied plan
again, finds the one the client saw: equal plans have equal descriptors. The
guard never allows a degraded candidate; a candidate that needs a profile is of the
strict plan, which is never experimental, and all others are not for the guard to
judge (`StartupIsNotCombined`). For `AcceptedStartsAreCurrent` the comparison of
the references carries the proof: a combined start must name family and access,
and the clients' references are of resolutions that had a provider and an expiry.
`KeptCandidatesStartAsShown` joins the two judges of a start: the guard goes by the
descriptors of the artifact, the profile store by those of the host, and the two
may differ. What carries over is the plan: only one kind of profile exists and a
plan is either of that kind or of none, so a candidate that needs a profile needs
it for both, and a profile that is good for the one is good for the other
(`AcceptedIsAttached`).

**VPS catalog.** `CatalogInv` says of each copy (memory, file, a sync's, an
issue's) that its snapshot was published by the issuer it names, at a generation
that issuer had reached (`VpsInv`, `HostInv`, `CallsInv`), and that the floor is
among them. `GivenInv` ties what a VPS remembers of an operation to every record
and every answer still under way, which is what makes a retry idempotent.

**Helper.** `HelperInv` ties the processes to the record: an owner is named by the
state file (`HelperOK`), what it may have installed is what the file lists, the
device belongs to an owner (`DeviceInv`), all routes are in the record
(`RoutesInv`), and a cleaner that signalled finds its helper ending, has the
excluded routes of the record, and removes a record whose routes are gone
(`CleanerOK`). All of it up to the first time a cleaner acts on a record that
changed since it read it (`raced`), which the code allows: `waitForRemoval` reads
under the lock and acts without it. The record is written before the routes and
removed after them, and a dead owner's record is taken over under the lock; these
orders are what the proof uses.

**Platform tunnels.** `TunnelInv` has one part for each property, because each
holds under an assumption of its own. `HealInv` is about a stop that is alone:
nothing is assumed of the state it finds, so the invariant says at each place of
the stop what it has put back by then (`StopOK`), and of the state after it what
keeps the status at stopped (`HealedByStop`). `PendingInv` is about calls one
after the other: the remembered requests and the controller's attempts are the
same, but for the one a start, a resume or a stop is just moving (`PendingOK`).
`SettledInv` adds that no cleanup failed and says, for each mode and place of a
start, how far its device, runtime, routes and slot are (`TunnelOK`), so that
each failure is met by the cleanup that undoes just that. What a status shows is
the latest of the result and the sessions by their times; `ClockOK` keeps these
behind the clock, and that there is a latest session is shown by well-founded
induction on the times. A result that says ready has a session, or one that
ended after it (`ReadyIsFollowed`), since `commit` writes the session before the
result.

Only model-checked: every liveness property, and `SessionEndStopsStreams` and
`ClosedStreamsStop` with them, since fairness and `ENABLED` are beyond the prover.
Every safety property of the runs is proved.

## Not modelled

* TURN, DTLS, STUN, WireGuard and the platforms' VPN services are external; a
  runner, a handshake or a kernel command is its outcomes.
* Byte layouts, log texts, metric labels, redaction and HTTP decoding: data
  without control.
* `tcp_ingress.go` with a nil logger, `Run` with a nil registry and similar
  guards against misuse by the caller.
* The event bus of the host: `publishEvent` sends to channels it copied under the
  mutex, one of which `Subscribe`'s cleanup may have closed by then. No comment,
  test or document states what should hold there; it is listed as a hazard.
* Saved session profiles and diagnostics of the host; audit, metrics and admin
  endpoints of the VPS service and a host without a cache file; the helper's
  `status` command, which only reads; the non-native builds and the owned browser
  of the platform hosts.
* Several connections with TCP egress at once (they share nothing but the stop);
  reuse of process ids; keys, signatures and envelopes beyond valid or not; the
  equal timestamps that make a tunnel status depend on Go's map order.
* Provider adapters and prompts: conversations with remote services, browsers and
  terminals, which end in a result, an error or a challenge.
* The HTTP API, Flutter shells, platform bindings and command-line wiring.

## Plan

1. `EventBus`: `Subscribe`, its cleanup and `publishEvent`; history limits.
2. `HostSession` over `Supervisor` itself on a small instance, and `PlatformTunnel`
   over `LinuxTunHelper` in place of the in-process Linux lifecycle.
3. Proofs: the safety properties of the runs are all proved. What can be added are
   the type invariants of the modules that state none, and safety halves of the
   liveness properties (a closed stream is never read again).
