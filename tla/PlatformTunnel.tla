--------------------------- MODULE PlatformTunnel ---------------------------
(***************************************************************************)
(* Platform tunnels: StartPlatformTunnel, ResumePlatformTunnel and         *)
(* StopPlatformTunnel of the control-plane host (pkg/clientcontrol/host.go,*)
(* platform_tunnel.go) with the controllers they call                      *)
(* (internal/windowsdesktophost, internal/linuxdesktophost,                *)
(* internal/androidembeddedhost) and the native lifecycles below them      *)
(* (platform_tunnel_windows.go, platform_tunnel_linux.go,                  *)
(* androidplatformbridge, wireguardturnruntime).                           *)
(*                                                                         *)
(* A host serves one mode; each behaviour picks it.  Every HTTP request is *)
(* a call that runs in its own goroutine, and no lock spans a call: the    *)
(* host's tables, the controller's slot or attempts and the lifecycle's    *)
(* state each have their own mutex, and a step below is what one of them   *)
(* protects, or one command to the kernel.                                 *)
(*                                                                         *)
(* The lifecycle of the desktop hosts is native = [dev, excl, runtime]:    *)
(* the open TUN device, whether underlay exclusion routes were recorded,   *)
(* the attached WireGuard runtime (0 is none; each is named by the call    *)
(* that made it).  dev = 0 is a nil state.  On Android dev is the          *)
(* established VpnService and lives in the app's bridge.                   *)
(***************************************************************************)
EXTENDS Compatibility

CONSTANTS Modes,             \* the modes of the hosts that are considered
          MaxCalls,          \* bound on the number of calls
          MaxOverlaps,       \* bound on the calls that arrive while another is in progress
          Requests,          \* the start requests of each mode, by name, with a field policy
          StoredResolution,  \* the provider resolution the requests name
          StoredProfile      \* the transport profile they name

ASSUME TunnelBounds ==
  /\ MaxCalls \in Nat /\ MaxOverlaps \in Nat
  /\ Modes \subseteq {"linux_tun", "windows_wintun", "android_vpn_service"}

Calls == 1..MaxCalls

VARIABLES mode,
          profile, resolved,  \* the stored profile exists, the resolution is alive
          permission,         \* Android has granted the VPN permission
          calls,              \* one record per call
          \* the host's tables
          startupRequests, startResult, stop, sessions, clock,
          \* the controller
          slot, attempts,
          \* the lifecycle and the kernel
          native, devices, runtimes, routes,
          \* history, read by the properties only
          overlaps,           \* calls that arrived while another was in progress
          botched,            \* a cleanup failed or left a route
          last                \* the call that returned last, until the next arrives

tables     == <<startupRequests, startResult, stop, sessions, clock>>
nativeVars == <<native, devices, runtimes, routes>>
history    == <<overlaps, botched, last>>
envVars    == <<mode, profile, resolved, permission>>
vars       == <<envVars, calls, tables, slot, attempts, nativeVars, history>>

NoState  == [dev |-> 0, excl |-> FALSE, runtime |-> 0]
NoResult == [ready |-> FALSE, stage |-> "", missing |-> "", attempt |-> 0, session |-> 0, at |-> 0]
Unused   == [op |-> "", pc |-> "unused", request |-> "", res |-> NoResult,
             own |-> 0, knows |-> FALSE, why |-> "", at |-> 0, alone |-> TRUE]

NoCall   == [op |-> "", alone |-> FALSE, ok |-> FALSE]

Failure(stage, missing) == [NoResult EXCEPT !.stage = stage, !.missing = missing]

IsDesktop == mode \in {"windows_wintun", "linux_tun"}

(* The host's tables, as Compatibility reads them, and the capability of   *)
(* the one mode the host serves.                                           *)
World ==
  [resolutions |-> [r \in {"r1"} |->
                      [StoredResolution[mode] EXCEPT
                         !.state = IF resolved THEN "resolved" ELSE "expired"]],
   profiles    |-> [p \in IF profile THEN {"p1"} ELSE {} |-> StoredProfile],
   defaults    |-> [p \in {} |-> p],
   store       |-> TRUE]

Capability == PlatformTunnels[CHOOSE k \in DOMAIN PlatformTunnels : PlatformTunnels[k].mode = mode]

(***************************************************************************)
(* Results                                                                 *)
(***************************************************************************)
StartupStages == {"capability_check", "profile_validate", "driver_check",
                  "permission_acquire", "route_validate", "host_bringup",
                  "runtime_attach", "dataplane_verify"}

\* Mutant: a failed bring-up is not cleaned up.
CleanupWithoutBringup(stage) ==
  stage \in {"route_validate", "runtime_attach", "dataplane_verify"}

platformTunnelFailureNeedsCleanup(stage) ==
  stage \in {"route_validate", "host_bringup", "runtime_attach", "dataplane_verify"}

(***************************************************************************)
(* Lease materialization.  The plan is chosen from the resolution's        *)
(* artifact; the profile is looked up again.  The host wraps the reason of *)
(* the profile store as text, so the chain a caller can inspect has only   *)
(* the outer error.                                                        *)
(***************************************************************************)
selectResolutionExecutionPlan(q) ==
  selectRuntimeExecutionPlanDescriptor(StoredResolution[mode].artifact.plans, q.plan)

LeaseDescriptor(q) ==
  StoredResolution[mode].artifact.plans[selectResolutionExecutionPlan(q).at]

LeaseProfile(q, d) ==
  resolveTransportProfileForStartup(World.profiles, World.defaults, q.profile, d.plan, d.kinds)

MaterializeWireGuardTurnExecutionLease(q) ==
  IF q.resolution = "" THEN {"resolution_not_found"}
  ELSE IF ~resolved THEN {"resolution_expired"}
  ELSE LET choice == selectResolutionExecutionPlan(q)
           d      == LeaseDescriptor(q)
       IN IF choice.err # "" THEN {choice.err}
          ELSE IF ~(/\ isStrictWireGuardTurnExecutionPlan(d.plan)
                    /\ validateRuntimeExecutionPlanDescriptor(d)) THEN {"plan_unsupported"}
          ELSE IF LeaseProfile(q, d) = "" THEN {"plan_unavailable"} ELSE {}

(* What the lease of a request says of its remote end. *)
materializeWireGuardTurnLeaseFromTransportProfile(q) ==
  LET d == LeaseDescriptor(q)
  IN [family |-> d.family, role |-> d.role, endpoint |-> StoredProfile.material.endpoint]

leaseMaterializationFailureClassification(chain) ==
  IF chain \cap {"store_unavailable", "profile_not_found", "profile_invalid",
                 "profile_incompatible"} # {}
    THEN Failure("profile_validate", "transport_profile")
    ELSE Failure("runtime_attach", "host_implementation")

LeaseFailure(lost) ==
  IF mode = "windows_wintun" THEN Failure("runtime_attach", "host_implementation")
  ELSE leaseMaterializationFailureClassification(lost)

(* A ready result carries the diagnostics of its lease, checked again. *)
validatePlatformTunnelStartResult(q, r) ==
  /\ r.stage \in StartupStages \cup {""}
  /\ r.missing \in Prerequisites \cup {""}
  /\ r.attempt # 0 => /\ ~r.ready /\ r.session = 0
                      /\ r.stage = "permission_acquire" /\ r.missing = "permission"
  /\ IF r.ready
       THEN /\ r.missing = "" /\ r.session # 0
            /\ validateRuntimeRemoteIngressDiagnostics(
                 RemoteIngressDiagnosticsFromWireGuardTurnLease(
                   materializeWireGuardTurnLeaseFromTransportProfile(q)))
       ELSE r.session = 0 /\ r.stage \in StartupStages /\ r.missing # ""

(***************************************************************************)
(* The order of a start's stages.  bringup, exclusions: the commands that  *)
(* configure the interface and the underlay routes; attach, store: the     *)
(* start of the runtime and its entry in the lifecycle's state.            *)
(***************************************************************************)
WindowsStages ==
  <<"device", "lease", "route", "bringup", "attach", "store", "verify", "publish">>

LinuxStages ==
  <<"lease", "slot", "device", "route", "bringup", "exclusions", "attach", "store",
    "verify", "publish">>

AndroidStages ==
  <<"permission", "route", "lease", "bringup", "attach", "store", "publish">>

StagesOf(m) ==
  CASE m = "windows_wintun"      -> WindowsStages
    [] m = "linux_tun"           -> LinuxStages
    [] m = "android_vpn_service" -> AndroidStages

FirstStage == StagesOf(mode)[1]
After(pc)  == LET s == StagesOf(mode) IN s[1 + CHOOSE i \in DOMAIN s : s[i] = pc]

(* Only Linux looks up its attempt before a cleanup. *)
CleanupEntry == IF mode = "linux_tun" THEN "clean" ELSE "cleanup"

(* A controller returns a failure: the host remembers the request of a     *)
(* pending attempt, and cleans up after the stages that need it.           *)
Fail(c, failure) ==
  calls' = [calls EXCEPT ![c] =
              [@ EXCEPT !.res = failure,
                        !.pc = IF platformTunnelFailureNeedsCleanup(failure.stage)
                                 THEN CleanupEntry ELSE "remember"]]
Proceed(c) == calls' = [calls EXCEPT ![c].pc = After(@)]
Goto(c, pc) == calls' = [calls EXCEPT ![c].pc = pc]

(***************************************************************************)
(* Init                                                                    *)
(***************************************************************************)
Init ==
  /\ mode \in Modes
  /\ profile = TRUE /\ resolved = TRUE
  /\ permission = (mode # "android_vpn_service")
  /\ calls = [c \in Calls |-> Unused]
  /\ startupRequests = {} /\ startResult = NoResult /\ stop = 0 /\ sessions = {} /\ clock = 1
  /\ slot = 0 /\ attempts = {}
  /\ native = NoState /\ devices = {} /\ runtimes = {} /\ routes = FALSE
  /\ overlaps = 0 /\ botched = FALSE /\ last = NoCall

(* The attempts of Android that wait for the user's permission. *)
storeStartupAttempt(c) == attempts' = attempts \cup {c}
takeStartupAttempt(c)  == attempts' = attempts \ {c}
clearStartupAttempts   == attempts' = {}

Active == {c \in Calls : calls[c].pc \notin {"unused", "done"}}
At(c, pc) == calls[c].pc = pc

(* Calls are numbered in the order they arrive. *)
Arrive(c, record) ==
  /\ At(c, "unused")
  /\ \A d \in Calls : d < c => ~At(d, "unused")
  /\ Active # {} => overlaps < MaxOverlaps
  /\ calls' = [d \in Calls |->
                  IF d = c THEN [record EXCEPT !.alone = Active = {}]
                  ELSE IF d \in Active THEN [calls[d] EXCEPT !.alone = FALSE]
                  ELSE calls[d]]
  /\ overlaps' = overlaps + (IF Active = {} THEN 0 ELSE 1)
  /\ last' = NoCall
  /\ UNCHANGED <<envVars, tables, slot, attempts, nativeVars, botched>>

(* A call that returned leaves only the request of an attempt that waits   *)
(* for permission.                                                         *)
Return(c, ok) ==
  /\ calls' = [calls EXCEPT ![c] =
                 [Unused EXCEPT !.pc = "done",
                                !.request = IF c \in attempts THEN calls[c].request ELSE ""]]
  /\ last' = [op |-> calls[c].op, alone |-> calls[c].alone, ok |-> ok]

(***************************************************************************)
(* StartPlatformTunnel, up to the controller's lifecycle                   *)
(***************************************************************************)
(* The policy a request without one gets. *)
RequestPolicy(q) ==
  IF q.policy # "" THEN q.policy
  ELSE IF IsDesktop THEN "preserve_active_local_network" ELSE "standard"

(* The controller's checks before its lifecycle. *)
ControllerRefusal(q) ==
  LET choice == selectPlatformTunnelExecutionPlanDescriptor(Capability.plans, q.plan)
      policies == {Capability.policies[i] : i \in DOMAIN Capability.policies}
  IN CASE choice.err # ""       -> Failure("capability_check", "host_implementation")
       [] choice.err = "" /\ ~Capability.available ->
            Failure("capability_check", Capability.missing)
       [] choice.err = "" /\ Capability.available /\ RequestPolicy(q) \notin policies ->
            Failure("capability_check", "route_exclusion")
       [] OTHER -> NoResult

(* The first failure of the host's and the controller's checks: the        *)
(* compatibility guard, the profile that is attached, the controller.      *)
StartRefusal(w, q, guard) ==
  LET reported == providerTransportStartupFailure(guard)
      attached == attachTransportProfileToStartRequest(w.profiles, w.defaults, q.mode,
                    q.plan, q.profile, q.resolution # "")
  IN CASE guard # Startable -> Failure(reported.stage, reported.missing)
       [] guard = Startable /\ attached.ended ->
            Failure("profile_validate", "transport_profile")
       [] OTHER -> ControllerRefusal(q)

StartPlatformTunnel(c) ==
  \E q \in DOMAIN Requests[mode] :
    Arrive(c, [Unused EXCEPT !.op = "start", !.pc = "check", !.knows = TRUE, !.request = q])

Request(c) == normalizePlatformTunnelStartRequest(Requests[mode][calls[c].request])

(* A refusal of the host's own checks is remembered and returned, whatever *)
(* its stage: nothing native has been asked for.  A refusal of the         *)
(* controller has a stage without cleanup.                                 *)
CheckStart(c) ==
  /\ At(c, "check")
  /\ \E w \in {World}, q \in {Request(c)} :
     \E guard \in {validateProviderTransportCompatibilityForStartup(w, q)} :
     \E refusal \in {StartRefusal(w, q, guard)} :
        IF refusal = NoResult THEN Goto(c, FirstStage)
        ELSE calls' = [calls EXCEPT ![c] = [@ EXCEPT !.pc = "remember", !.res = refusal]]
  /\ UNCHANGED <<envVars, tables, slot, attempts, nativeVars, history>>

(***************************************************************************)
(* The stages of a start                                                   *)
(***************************************************************************)
MaterializeLease(c) ==
  /\ At(c, "lease")
  /\ LET lost    == MaterializeWireGuardTurnExecutionLease(Request(c))
         failure == LeaseFailure(lost)
     IN IF lost = {} THEN Proceed(c)
        ELSE calls' = [calls EXCEPT ![c] =
               [@ EXCEPT !.res = failure,
                         !.why = IF "plan_unavailable" \in lost THEN "profile" ELSE "resolution",
                         !.pc  = IF platformTunnelFailureNeedsCleanup(failure.stage)
                                   THEN CleanupEntry ELSE "remember"]]
  /\ UNCHANGED <<envVars, tables, slot, attempts, nativeVars, history>>

(* Linux: one native attempt at a time. *)
beginNativeAttempt(c) ==
  /\ At(c, "slot")
  /\ IF slot = 0
       THEN slot' = c /\ calls' = [calls EXCEPT ![c] = [@ EXCEPT !.pc = After("slot"), !.own = c]]
       ELSE Fail(c, Failure("capability_check", "host_implementation")) /\ UNCHANGED slot
  /\ UNCHANGED <<envVars, tables, attempts, nativeVars, history>>

(* What cleanupLocked undoes: the state is dropped first, the routes it    *)
(* recorded are deleted (kept: a deletion failed), the runtime and the     *)
(* device are closed.  A device that replaces the state is then added.     *)
cleanupLocked(kept, next) ==
  /\ native' = [NoState EXCEPT !.dev = next]
  /\ devices' = (devices \ {native.dev}) \cup ({next} \ {0})
  /\ runtimes' = runtimes \ {native.runtime}
  /\ routes' = (routes /\ (kept \/ ~native.excl))

(* A new device replaces the state; an older state is cleaned up and its   *)
(* errors are dropped.                                                     *)
ReplaceState(c) ==
  \E kept \in (IF native = NoState THEN {FALSE} ELSE BOOLEAN) :
    cleanupLocked(kept, c) /\ botched' = (botched \/ kept)

CheckDriver(c) ==
  /\ mode = "windows_wintun" /\ At(c, "device")
  /\ \/ ReplaceState(c) /\ Proceed(c)
     \/ Fail(c, Failure("driver_check", "driver")) /\ UNCHANGED <<nativeVars, botched>>
  /\ UNCHANGED <<envVars, tables, slot, attempts, overlaps, last>>

(* Linux cannot open the interface twice; a stage without cleanup ends the *)
(* native attempt.                                                         *)
AcquireTun(c) ==
  /\ mode = "linux_tun" /\ At(c, "device")
  /\ \/ devices = {} /\ ReplaceState(c) /\ Proceed(c) /\ UNCHANGED slot
     \/ /\ Fail(c, Failure("permission_acquire", "permission"))
        /\ slot' = IF slot = calls[c].own THEN 0 ELSE slot
        /\ UNCHANGED <<nativeVars, botched>>
  /\ UNCHANGED <<envVars, tables, attempts, overlaps, last>>

(* Android: a permission that is pending ends the start with an attempt    *)
(* that a Resume takes up; the controller stores the attempt, then the     *)
(* host remembers the request.  A bridge that is not registered fails.     *)
AcquirePermission(c) ==
  /\ At(c, "permission")
  /\ \/ permission /\ Proceed(c) /\ UNCHANGED attempts
     \/ /\ ~permission
        /\ storeStartupAttempt(c)
        /\ calls' = [calls EXCEPT ![c] =
             [@ EXCEPT !.pc = "pending",
                       !.res = [Failure("permission_acquire", "permission") EXCEPT !.attempt = c]]]
     \/ /\ Fail(c, Failure("permission_acquire", "permission"))
        /\ UNCHANGED attempts
  /\ UNCHANGED <<envVars, tables, slot, nativeVars, history>>

rememberPlatformTunnelStartupRequest(c) ==
  /\ At(c, "pending")
  /\ startupRequests' = startupRequests \cup {c}
  /\ Goto(c, "remember")
  /\ UNCHANGED <<envVars, startResult, stop, sessions, clock, slot, attempts, nativeVars, history>>

(* The exclusions that will be installed go into the state, if there still *)
(* is one; the underlay route, its name servers or the addresses of the    *)
(* TURN server may not be found.                                           *)
RecordExclusions(c, reasons) ==
  /\ \/ /\ native' = IF native.dev # 0 THEN [native EXCEPT !.excl = TRUE] ELSE native
        /\ Proceed(c)
     \/ /\ \E missing \in reasons : Fail(c, Failure("route_validate", missing))
        /\ UNCHANGED native
  /\ UNCHANGED <<envVars, tables, slot, attempts, devices, runtimes, routes, history>>

WindowsValidateRoutePolicy(c) ==
  /\ mode = "windows_wintun" /\ At(c, "route")
  /\ RecordExclusions(c, {"route_exclusion"})

LinuxValidateRoutePolicy(c) ==
  /\ mode = "linux_tun" /\ At(c, "route")
  /\ RecordExclusions(c, {"dns_bypass"})

(* The app judges the policy; nothing is recorded. *)
AndroidValidateRoutePolicy(c) ==
  /\ mode = "android_vpn_service" /\ At(c, "route")
  /\ Proceed(c) \/ Fail(c, Failure("route_validate", "app_routing_policy"))
  /\ UNCHANGED <<envVars, tables, slot, attempts, nativeVars, history>>

BringupFails(c) == Fail(c, Failure("host_bringup", "host_implementation"))

(* One script configures the adapter and then the exclusions; it may stop  *)
(* anywhere.                                                               *)
WindowsBringupHost(c) ==
  /\ mode = "windows_wintun" /\ At(c, "bringup")
  /\ \/ native.dev # 0 /\ routes' = TRUE /\ Proceed(c)
     \/ /\ BringupFails(c)
        /\ routes' \in (IF native.dev = 0 THEN {routes} ELSE {routes, TRUE})
  /\ UNCHANGED <<envVars, tables, slot, attempts, native, devices, runtimes, history>>

(* One command after the other, with a copy of the state.  The exclusion   *)
(* routes go through the underlay device and need no TUN device.           *)
LinuxBringupHost(c) ==
  /\ mode = "linux_tun" /\ At(c, "bringup")
  /\ (native.dev # 0 /\ Proceed(c)) \/ BringupFails(c)
  /\ UNCHANGED <<envVars, tables, slot, attempts, nativeVars, history>>

InstallExclusions(c) ==
  /\ At(c, "exclusions")
  /\ \/ routes' = TRUE /\ Proceed(c)
     \/ routes' \in {routes, TRUE} /\ BringupFails(c)
  /\ UNCHANGED <<envVars, tables, slot, attempts, native, devices, runtimes, history>>

(* The app's bridge establishes the VpnService, in place of an older one. *)
AndroidBringupHost(c) ==
  /\ mode = "android_vpn_service" /\ At(c, "bringup")
  /\ \/ native' = [native EXCEPT !.dev = c] /\ devices' = {c} /\ Proceed(c)
     \/ BringupFails(c) /\ UNCHANGED <<native, devices>>
  /\ UNCHANGED <<envVars, tables, slot, attempts, runtimes, routes, history>>

AttachFails(c) == Fail(c, Failure("runtime_attach", "host_implementation"))

(* The runtime starts on the device of a copied state, or on a duplicate   *)
(* of Android's descriptor.                                                *)
AttachRuntime(c) ==
  /\ At(c, "attach")
  /\ IF native.dev # 0 THEN Proceed(c) ELSE AttachFails(c)
  /\ UNCHANGED <<envVars, tables, slot, attempts, nativeVars, history>>

(* The TURN allocation and the WireGuard device come up or not: a start    *)
(* that fails closes what it opened.                                       *)
StartRuntime(c) ==
  \/ runtimes' = runtimes \cup {c} /\ Proceed(c)
  \/ runtimes' = runtimes /\ AttachFails(c)

(* The desktop lifecycles keep the runtime only while they have a state. *)
StoreRuntime(c) ==
  /\ IsDesktop /\ At(c, "store")
  /\ StartRuntime(c)
  /\ native' = IF native.dev # 0 /\ c \in runtimes' THEN [native EXCEPT !.runtime = c] ELSE native
  /\ UNCHANGED <<envVars, tables, slot, attempts, devices, routes, history>>

(* Android's replaces the previous runtime and closes it; when that fails  *)
(* the new one is closed too, and stays in its place.                      *)
replaceRuntime(c) ==
  /\ ~IsDesktop /\ At(c, "store")
  /\ \/ /\ runtimes' = (runtimes \ {native.runtime}) \cup {c}
        /\ native' = [native EXCEPT !.runtime = c]
        /\ Proceed(c)
     \/ /\ native.runtime # 0
        /\ runtimes' = runtimes \ {native.runtime}
        /\ native' = [native EXCEPT !.runtime = c]
        /\ AttachFails(c)
     \/ AttachFails(c) /\ UNCHANGED <<native, runtimes>>
  /\ UNCHANGED <<envVars, tables, slot, attempts, devices, routes, history>>

(* The probe needs the state and its runtime; it is repeated once after a  *)
(* first handshake, and may find no traffic.                               *)
VerifyDataplane(c) ==
  /\ At(c, "verify")
  /\ \/ native.dev # 0 /\ native.runtime # 0 /\ Proceed(c)
     \/ Fail(c, Failure("dataplane_verify", "dataplane_evidence"))
  /\ UNCHANGED <<envVars, tables, slot, attempts, nativeVars, history>>

LinuxVerifyDataplane(c)   == mode = "linux_tun" /\ VerifyDataplane(c)
WindowsVerifyDataplane(c) == mode = "windows_wintun" /\ VerifyDataplane(c)

(***************************************************************************)
(* Publishing a session                                                    *)
(***************************************************************************)
(* A ready result needs the request it belongs to and a resolution that is *)
(* still good; the time of the session is read before the host's lock.     *)
materializedProfileSpecForResolution(c) ==
  /\ At(c, "publish")
  /\ IF calls[c].knows /\ Request(c).resolution # "" /\ resolved
       THEN /\ clock' = clock + 1
            /\ calls' = [calls EXCEPT ![c] = [@ EXCEPT !.pc = "commit", !.at = clock]]
       ELSE /\ Fail(c, Failure("runtime_attach", "host_implementation"))
            /\ UNCHANGED clock
  /\ UNCHANGED <<envVars, startupRequests, startResult, stop, sessions, slot, attempts, nativeVars,
                 history>>

MarkStopped(at) ==
  {IF s.live THEN [s EXCEPT !.live = FALSE, !.at = at] ELSE s : s \in sessions}

startPlatformTunnelSession(c) ==
  /\ At(c, "commit")
  /\ sessions' = MarkStopped(calls[c].at)
                 \cup {[id |-> c, live |-> TRUE, at |-> calls[c].at]}
  /\ calls' = [calls EXCEPT ![c] =
                 [@ EXCEPT !.pc = "remember",
                           !.res = [NoResult EXCEPT !.ready = TRUE, !.session = c]]]
  /\ UNCHANGED <<envVars, startupRequests, startResult, stop, clock, slot, attempts, nativeVars,
                 history>>

(* The result is checked and remembered, and the call returns; a result    *)
(* that does not pass is returned as an error and not remembered.          *)
rememberPlatformTunnelResult(c) ==
  /\ At(c, "remember")
  /\ IF validatePlatformTunnelStartResult(Request(c), calls[c].res)
       THEN /\ startResult' = [calls[c].res EXCEPT !.at = clock]
            /\ clock' = clock + 1
       ELSE UNCHANGED <<startResult, clock>>
  /\ Return(c, TRUE)
  /\ UNCHANGED <<envVars, startupRequests, stop, sessions, slot, attempts, nativeVars, overlaps,
                 botched>>

(***************************************************************************)
(* ResumePlatformTunnel                                                    *)
(***************************************************************************)
ResumePlatformTunnel(c) ==
  /\ mode = "android_vpn_service"
  /\ \E a \in Calls : Arrive(c, [Unused EXCEPT !.op = "resume", !.pc = "take", !.own = a])

takePlatformTunnelStartupRequest(c) ==
  /\ At(c, "take")
  /\ startupRequests' = startupRequests \ {calls[c].own}
  /\ calls' = [calls EXCEPT ![c] =
                 [@ EXCEPT !.pc = "resume", !.knows = calls[c].own \in startupRequests]]
  /\ UNCHANGED <<envVars, startResult, stop, sessions, clock, slot, attempts, nativeVars, history>>

(* The controller takes its attempt; an unknown one is an error that       *)
(* nothing remembers.  Permission that is still missing ends the attempt.  *)
ResumeAttempt(c) ==
  /\ At(c, "resume")
  /\ takeStartupAttempt(calls[c].own)
  /\ IF calls[c].own \notin attempts THEN Return(c, FALSE)
     ELSE /\ LET taken == [calls[c] EXCEPT !.request = calls[calls[c].own].request]
             IN calls' = [calls EXCEPT ![c] =
                  IF permission THEN [taken EXCEPT !.pc = After("permission")]
                  ELSE [taken EXCEPT !.pc = "remember",
                                     !.res = Failure("permission_acquire", "permission")]]
          /\ UNCHANGED last
  /\ UNCHANGED <<envVars, tables, slot, nativeVars, overlaps,
                 botched>>

(***************************************************************************)
(* StopPlatformTunnel, and the cleanup of a failed start, which runs the   *)
(* same steps and then remembers its failure.                              *)
(***************************************************************************)
StopPlatformTunnel(c) ==
  Arrive(c, [Unused EXCEPT !.op = "stop", !.pc = CleanupEntry])

activeNativeAttempt(c) ==
  /\ At(c, "clean")
  /\ calls' = [calls EXCEPT ![c] = [@ EXCEPT !.pc = "cleanup", !.own = slot]]
  /\ UNCHANGED <<envVars, tables, slot, attempts, nativeVars, history>>

(* Cleanup of the lifecycle, by whether it reports an error and whether it *)
(* leaves what it should remove.  Linux reports a route it could not       *)
(* delete; Windows ignores it; each may also fail to close the runtime or  *)
(* the device.                                                             *)
LinuxCleanup(err, kept) ==
  /\ native = NoState => ~err /\ ~kept
  /\ kept => err
  /\ cleanupLocked(kept, 0)

WindowsCleanup(err, kept) ==
  /\ native = NoState => ~err /\ ~kept
  /\ cleanupLocked(kept, 0)

(* Android closes the runtime and then asks the app to end the service. *)
AndroidCleanup(err, kept) ==
  /\ kept => err /\ native.dev # 0
  /\ native' = [NoState EXCEPT !.dev = IF kept THEN native.dev ELSE 0]
  /\ devices' = IF kept THEN devices ELSE devices \ {native.dev}
  /\ runtimes' = runtimes \ {native.runtime}
  /\ UNCHANGED routes

(* An error leaves the host's tables and the controller as they are. *)
Cleanup(c) ==
  /\ At(c, "cleanup")
  /\ \E err, kept \in BOOLEAN :
       /\ CASE mode = "linux_tun"           -> LinuxCleanup(err, kept)
            [] mode = "windows_wintun"      -> WindowsCleanup(err, kept)
            [] mode = "android_vpn_service" -> AndroidCleanup(err, kept)
       /\ botched' = (botched \/ err \/ kept)
       /\ IF ~err THEN Goto(c, "release") /\ UNCHANGED last
          ELSE IF calls[c].op = "stop" THEN Return(c, FALSE)
          ELSE Goto(c, "remember") /\ UNCHANGED last
  /\ UNCHANGED <<envVars, tables, slot, attempts, overlaps>>

(* The controller gives up the attempt it read before the cleanup, or all  *)
(* pending Android attempts.                                               *)
endNativeAttempt(c) ==
  /\ At(c, "release")
  /\ slot' = IF slot = calls[c].own THEN 0 ELSE slot
  /\ clearStartupAttempts
  /\ Goto(c, "unpublish")
  /\ UNCHANGED <<envVars, tables, nativeVars, history>>

\* Mutant: the remembered requests outlive the attempts they belong to.
StopKeepsRequests(c) ==
  /\ At(c, "unpublish")
  /\ sessions' = MarkStopped(clock)
  /\ clock' = clock + 1
  /\ Goto(c, IF calls[c].op = "stop" THEN "stopped" ELSE "remember")
  /\ UNCHANGED <<envVars, startupRequests, startResult, stop, slot, attempts, nativeVars, history>>

(* The host forgets the pending requests and stops the sessions of the     *)
(* mode: two critical sections that only this call relates.                *)
publishPlatformTunnelStop(c) ==
  /\ At(c, "unpublish")
  /\ startupRequests' = {}
  /\ sessions' = MarkStopped(clock)
  /\ clock' = clock + 1
  /\ Goto(c, IF calls[c].op = "stop" THEN "stopped" ELSE "remember")
  /\ UNCHANGED <<envVars, startResult, stop, slot, attempts, nativeVars, history>>

\* Mutant: a Stop returns without remembering that it stopped the tunnel.
StopUnremembered(c) ==
  /\ At(c, "stopped")
  /\ Return(c, TRUE)
  /\ UNCHANGED <<envVars, tables, slot, attempts, nativeVars, overlaps, botched>>

rememberPlatformTunnelStop(c) ==
  /\ At(c, "stopped")
  /\ stop' = clock
  /\ clock' = clock + 1
  /\ Return(c, TRUE)
  /\ UNCHANGED <<envVars, startupRequests, startResult, sessions, slot, attempts, nativeVars,
                 overlaps, botched>>

(***************************************************************************)
(* The world around the host                                               *)
(***************************************************************************)
(* Bound: a behaviour loses the profile or the resolution, not both. *)
NothingLost == profile /\ resolved

ForgetProfile ==
  /\ NothingLost /\ profile' = FALSE
  /\ UNCHANGED <<mode, resolved, permission, calls, tables, slot, attempts, nativeVars, history>>

ExpireResolution ==
  /\ NothingLost /\ resolved' = FALSE
  /\ UNCHANGED <<mode, profile, permission, calls, tables, slot, attempts, nativeVars, history>>

AnswerPermission ==
  /\ mode = "android_vpn_service" /\ ~permission /\ permission' = TRUE
  /\ UNCHANGED <<mode, profile, resolved, calls, tables, slot, attempts, nativeVars, history>>

CallStep(c) ==
  \/ CheckStart(c) \/ MaterializeLease(c) \/ beginNativeAttempt(c)
  \/ CheckDriver(c) \/ AcquireTun(c)
  \/ AcquirePermission(c) \/ rememberPlatformTunnelStartupRequest(c)
  \/ WindowsValidateRoutePolicy(c) \/ LinuxValidateRoutePolicy(c)
  \/ AndroidValidateRoutePolicy(c)
  \/ WindowsBringupHost(c) \/ LinuxBringupHost(c) \/ InstallExclusions(c)
  \/ AndroidBringupHost(c)
  \/ AttachRuntime(c) \/ StoreRuntime(c) \/ replaceRuntime(c)
  \/ LinuxVerifyDataplane(c) \/ WindowsVerifyDataplane(c)
  \/ materializedProfileSpecForResolution(c) \/ startPlatformTunnelSession(c)
  \/ rememberPlatformTunnelResult(c)
  \/ takePlatformTunnelStartupRequest(c) \/ ResumeAttempt(c)
  \/ activeNativeAttempt(c) \/ Cleanup(c) \/ endNativeAttempt(c)
  \/ publishPlatformTunnelStop(c) \/ rememberPlatformTunnelStop(c)

Next ==
  \/ \E c \in Calls : StartPlatformTunnel(c) \/ ResumePlatformTunnel(c) \/ StopPlatformTunnel(c)
  \/ \E c \in Active : CallStep(c)
  \/ ForgetProfile \/ ExpireResolution \/ AnswerPermission

Spec == Init /\ [][Next]_vars

(***************************************************************************)
(* What PlatformTunnelStatuses reports: the result, overridden by the      *)
(* sessions at least as recent, then by a stop.  Sessions are walked in    *)
(* map order, so several statuses may be possible.                         *)
(***************************************************************************)
StatusOfResult ==
  CASE startResult.ready -> "ready"
    [] ~startResult.ready /\ startResult.attempt # 0 -> "permission_required"
    [] /\ ~startResult.ready /\ startResult.attempt = 0
       /\ startResult.missing = "transport_profile" -> "setup_needed"
    [] OTHER -> "failed"

(* Before a first start the capability speaks: a default profile may be    *)
(* missing, or the preferred descriptor not supported.  The descriptors    *)
(* are those of the capability with the support the host reports.          *)
preferredPlatformTunnelStatusDescriptor(ds) ==
  LET session == selectRuntimeExecutionPlanDescriptor(ds, NoPlan)
      tunnel  == selectPlatformTunnelExecutionPlanDescriptor(ds, NoPlan)
  IN IF session.err = "" THEN session.at
     ELSE IF tunnel.err = "" THEN tunnel.at
     ELSE IF ds = <<>> THEN 0 ELSE 1

ReportedPlans ==
  [i \in DOMAIN Capability.plans |->
     [Capability.plans[i] EXCEPT !.support =
        ReportedSupport(World.profiles, World.defaults, Capability.plans[i])]]

platformTunnelStatusFromCapability(ds) ==
  LET at == preferredPlatformTunnelStatusDescriptor(ds)
      needsProfile == at # 0 /\ RequiredKinds(ds[at]) # {}
  IN IF needsProfile /\ resolveTransportProfileForStartup(World.profiles, World.defaults, "",
                           ds[at].plan, RequiredKinds(ds[at])) = ""
       THEN "setup_needed"
     ELSE IF at # 0 /\ ds[at].support # "supported" THEN "failed"
     ELSE IF Capability.available THEN "stopped" ELSE "failed"

platformTunnelStatuses ==
  LET based   == IF startResult # NoResult THEN {[state |-> StatusOfResult, at |-> startResult.at]}
                 ELSE IF startupRequests # {} THEN {[state |-> "permission_required", at |-> clock]}
                 ELSE {[state |-> platformTunnelStatusFromCapability(ds), at |-> 0]
                         : ds \in {ReportedPlans}}
      recent  == {s \in sessions : \A b \in based : s.at >= b.at}
      newest  == {s \in recent : \A t \in recent : t.at <= s.at}
      shown   == IF newest = {} THEN based
                 ELSE {[state |-> IF s.live THEN "ready" ELSE "stopped", at |-> s.at]
                         : s \in newest}
  IN {IF stop # 0 /\ stop >= s.at THEN "stopped" ELSE s.state : s \in shown}

(***************************************************************************)
(* Properties                                                              *)
(***************************************************************************)
Live == {s \in sessions : s.live}
Idle == Active = {}

(* Between calls, as long as no two calls overlapped and no cleanup        *)
(* failed: a live session stands for an attached tunnel and the reverse,   *)
(* nothing native is left outside the lifecycle's state, and a status that *)
(* says ready has a live session behind it.                                *)
SettledTunnelsMatch ==
  Idle /\ overlaps = 0 /\ ~botched =>
    /\ (Live # {}) = (native.dev # 0 /\ native.runtime # 0)
    /\ native.dev = 0 => native.runtime = 0
    /\ devices = {native.dev} \ {0}
    /\ runtimes = {native.runtime} \ {0}
    /\ routes => native.excl
    /\ "ready" \in platformTunnelStatuses => Live # {}
    /\ mode = "linux_tun" => (slot = 0) = (Live = {})

(* Between calls that did not overlap, the host remembers a request for    *)
(* each Android attempt that waits for permission and for no other, so a   *)
(* Resume finds both halves, whatever starts and stops failed before it.   *)
PendingStartsAreResumable ==
  Idle /\ overlaps = 0 => startupRequests = attempts

(* A Stop that succeeded with no call beside it puts everything back,      *)
(* whatever races and failed cleanups came before it: no session, no       *)
(* native state, no pending attempt, a free slot, and a status that says   *)
(* stopped.                                                                *)
StopHeals ==
  Idle /\ last = [op |-> "stop", alone |-> TRUE, ok |-> TRUE] =>
    /\ Live = {}
    /\ native = NoState
    /\ startupRequests = {} /\ attempts = {} /\ slot = 0
    /\ platformTunnelStatuses = {"stopped"}

(* A start that fails because of its transport profile tears nothing down  *)
(* on the hosts that create no native resource before the lease: no native *)
(* cleanup is run for it.                                                  *)
ProfileFailureNeedsNoCleanup ==
  \A c \in Calls : calls[c].why = "profile" /\ mode # "windows_wintun" =>
    calls[c].pc \notin {"clean", "cleanup", "release", "unpublish"}
=============================================================================
