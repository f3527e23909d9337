--------------------------- MODULE ExecutionPlans ---------------------------
(***************************************************************************)
(* Runtime execution plans of the control plane, as pure operators: which  *)
(* plans and plan descriptors are well formed, how a descriptor is chosen  *)
(* from the ones a host advertises, and which capability reports a host    *)
(* accepts (pkg/clientcontrol/runtime_execution_matrix.go,                 *)
(* wireguard_turn_carrier.go and the capability half of                    *)
(* platform_tunnel.go).                                                    *)
(*                                                                         *)
(* A plan is a record [access, carrier, engine, adapter]; a descriptor     *)
(* [plan, support, family, role, default, requires, kinds]; a capability   *)
(* [mode, available, satisfied, missing, policies, plans] with the         *)
(* descriptors as a sequence.  An empty string is an absent value.         *)
(* Messages are left out.                                                  *)
(***************************************************************************)
EXTENDS Naturals, FiniteSets, Sequences

WireGuardNativeV1 == "wireguard_native_v1"

AccessMethods    == {"turn_credentials", "webrtc_call_attach"}
CarrierFamilies  == {"turn_datagram", "turn_dtls_overlay", "webrtc_datachannel"}
EngineFamilies   == {"wireguard_native", "custom_packet_overlay",
                     "proxy_core_adapter", "trusttunnel_native"}
HostAdapters     == {"android_vpn_service", "apple_network_extension",
                     "windows_wintun", "linux_tun"}
SupportStates    == {"supported", "unavailable", "experimental"}
EndpointFamilies == {"turn_server", "webrtc_call_endpoint", "https_tunnel_server"}
EndpointRoles    == {"turn_dtls_custom_overlay", "wireguard_raw_datagram",
                     "udp_protocol_multiplexer"}
KnownKinds       == {WireGuardNativeV1}

NoPlan == [access |-> "", carrier |-> "", engine |-> "", adapter |-> ""]

(* The plan that carries WireGuard over a TURN relay through a packaged    *)
(* host adapter, the only one that needs a VPN transport profile.          *)
isStrictWireGuardTurnExecutionPlan(p) ==
  /\ p.access = "turn_credentials"
  /\ p.carrier = "turn_datagram"
  /\ p.engine = "wireguard_native"
  /\ p.adapter # ""

validateRuntimeExecutionPlan(p) ==
  /\ p.access \in AccessMethods
  /\ p.carrier \in CarrierFamilies
  /\ p.engine \in EngineFamilies
  /\ p.adapter \in HostAdapters \cup {""}

(***************************************************************************)
(* The compatibility matrix.  The rows are tried in the order of the       *)
(* code's switch: a plan is judged by the first row it belongs to.         *)
(***************************************************************************)
CustomOverlayRow(d) ==
  /\ d.plan.adapter = ""
  /\ d.family = "turn_server"
  /\ d.role = "turn_dtls_custom_overlay"
  /\ d.support = "supported"

WireGuardNativeRow(d) ==
  /\ d.plan.adapter \in HostAdapters
  /\ d.family = "turn_server"
  /\ d.role \in {"wireguard_raw_datagram", "udp_protocol_multiplexer"}
  /\ d.support \in {"supported", "unavailable"}

WebRTCRow(d) ==
  /\ d.requires = "runtime_execution_experimental_webrtc_datachannel"
  /\ d.support = "experimental"
  /\ d.family # "turn_server"

ForeignCoreRow(d) ==
  /\ d.requires = "runtime_execution_foreign_core"
  /\ d.support # "supported"

InMatrix(d) ==
  LET over(access, carrier) == d.plan.access = access /\ d.plan.carrier = carrier
  IN CASE over("turn_credentials", "turn_dtls_overlay")
          /\ d.plan.engine = "custom_packet_overlay"           -> CustomOverlayRow(d)
       [] over("turn_credentials", "turn_datagram")
          /\ d.plan.engine = "wireguard_native"                -> WireGuardNativeRow(d)
       [] over("webrtc_call_attach", "webrtc_datachannel")     -> WebRTCRow(d)
       [] /\ d.plan.engine \in {"proxy_core_adapter", "trusttunnel_native"}
          /\ ~over("webrtc_call_attach", "webrtc_datachannel") -> ForeignCoreRow(d)
       [] OTHER                                                -> FALSE

validateRuntimeExecutionPlanDescriptor(d) ==
  /\ validateRuntimeExecutionPlan(d.plan)
  /\ d.support \in SupportStates
  /\ d.family \in EndpointFamilies
  /\ \/ d.role \in EndpointRoles
     \/ d.plan.access # "turn_credentials" /\ d.role = ""
  /\ d.kinds \subseteq KnownKinds
  /\ InMatrix(d)

(***************************************************************************)
(* Choosing a descriptor.  The result is [err, at]: an error ("selection"  *)
(* for selection required, "unsupported", "unavailable") or "" and the     *)
(* index of the chosen descriptor.  The session chooser also returns the   *)
(* descriptor it refuses as unavailable.                                   *)
(***************************************************************************)
Least(S)    == CHOOSE i \in S : \A j \in S : i <= j
Chosen(i)   == [err |-> "", at |-> i]
Refused(e)  == [err |-> e, at |-> 0]

selectRuntimeExecutionPlanDescriptor(ds, requested) ==
  LET same      == {i \in DOMAIN ds : ds[i].plan = requested}
      supported == {i \in DOMAIN ds : ds[i].support = "supported"}
      defaults  == {i \in supported : ds[i].default}
  IN CASE requested # NoPlan /\ same = {} -> Refused("unsupported")
       [] requested # NoPlan /\ same # {} ->
            IF ds[Least(same)].support = "supported"
              THEN Chosen(Least(same))
              ELSE [err |-> "unavailable", at |-> Least(same)]
       [] requested = NoPlan /\ Cardinality(defaults) = 1 -> Chosen(Least(defaults))
       [] requested = NoPlan /\ Cardinality(defaults) > 1 -> Refused("selection")
       [] requested = NoPlan /\ defaults = {} /\ Cardinality(supported) = 1 ->
            Chosen(Least(supported))
       [] requested = NoPlan /\ supported = {} -> Refused("unavailable")
       [] OTHER -> Refused("selection")

selectPlatformTunnelExecutionPlanDescriptor(ds, requested) ==
  LET same     == {i \in DOMAIN ds : ds[i].plan = requested}
      defaults == {i \in DOMAIN ds : ds[i].default}
  IN CASE requested # NoPlan /\ same # {} -> Chosen(Least(same))
       [] requested # NoPlan /\ same = {} -> Refused("unsupported")
       [] requested = NoPlan /\ ds = <<>> -> Refused("unavailable")
       [] requested = NoPlan /\ defaults # {} -> Chosen(Least(defaults))
       [] requested = NoPlan /\ defaults = {} /\ Len(ds) = 1 -> Chosen(1)
       [] OTHER -> Refused("selection")

(***************************************************************************)
(* The capability report of a host.                                        *)
(***************************************************************************)
TunnelModes == {"android_vpn_service", "apple_network_extension",
                "windows_wintun", "linux_tun"}
Prerequisites == {"permission", "entitlement", "privileged_extension", "driver",
                  "route_exclusion", "dns_bypass", "app_routing_policy",
                  "host_implementation", "transport_profile", "dataplane_evidence"}
UnderlayPolicies == {"standard", "preserve_active_local_network"}

(* Modes and adapters carry the same names. *)
runtimeHostAdapterForPlatformTunnelMode(mode) ==
  IF mode \in TunnelModes THEN mode ELSE ""

StrictPlan(adapter) ==
  [access |-> "turn_credentials", carrier |-> "turn_datagram",
   engine |-> "wireguard_native", adapter |-> adapter]

defaultRuntimeExecutionPlansForPlatformTunnel(c) ==
  IF runtimeHostAdapterForPlatformTunnelMode(c.mode) = "" THEN <<>>
  ELSE << [plan     |-> StrictPlan(runtimeHostAdapterForPlatformTunnelMode(c.mode)),
           support  |-> IF c.available THEN "supported" ELSE "unavailable",
           family   |-> "turn_server",
           role     |-> "wireguard_raw_datagram",
           default  |-> TRUE,
           requires |-> "",
           kinds    |-> {WireGuardNativeV1}] >>

(* The report of a host that implements no tunnel of its own. *)
defaultPlatformTunnelCapabilities(mode) ==
  LET c == [mode |-> mode, available |-> FALSE, satisfied |-> <<>>,
            missing |-> "host_implementation",
            policies |-> IF mode = "android_vpn_service" THEN <<"standard">> ELSE <<>>,
            plans |-> <<>>]
  IN << [c EXCEPT !.plans = defaultRuntimeExecutionPlansForPlatformTunnel(c)] >>

NoRepeats(s) == \A i, j \in DOMAIN s : s[i] = s[j] => i = j

validatePlatformTunnelCapability(c) ==
  LET ds == c.plans
  IN /\ c.mode \in TunnelModes
     /\ \A i \in DOMAIN c.satisfied : c.satisfied[i] \in Prerequisites
     /\ NoRepeats(c.satisfied)
     /\ \A i \in DOMAIN c.policies : c.policies[i] \in UnderlayPolicies
     /\ NoRepeats(c.policies)
     /\ \A i \in DOMAIN ds :
          /\ validateRuntimeExecutionPlanDescriptor(ds[i])
          /\ ds[i].plan.adapter = runtimeHostAdapterForPlatformTunnelMode(c.mode)
          /\ ds[i].support = "supported" => c.available
     /\ Cardinality({i \in DOMAIN ds : ds[i].default /\ ds[i].support = "supported"}) <= 1
     /\ IF c.available THEN c.satisfied # <<>> /\ c.missing = ""
                       ELSE c.missing \in Prerequisites

(* A host reports the one mode of its build target. *)
validatePlatformTunnelCapabilities(cs, target) ==
  /\ \A i \in DOMAIN cs : validatePlatformTunnelCapability(cs[i]) /\ cs[i].mode = target
  /\ NoRepeats([i \in DOMAIN cs |-> cs[i].mode])

(* Filling in what a report leaves out, and failing closed to the default  *)
(* report when the result is not valid.                                    *)
normalizePlatformTunnelCapabilities(cs, target) ==
  LET fill(c) ==
        [c EXCEPT
          !.policies = IF @ = <<>> /\ c.mode = "android_vpn_service"
                         THEN <<"standard">> ELSE @,
          !.plans = IF @ = <<>> THEN defaultRuntimeExecutionPlansForPlatformTunnel(c)
                                ELSE @]
      filled == [i \in DOMAIN cs |-> fill(cs[i])]
  IN IF cs # <<>> /\ validatePlatformTunnelCapabilities(filled, target)
       THEN filled
       ELSE defaultPlatformTunnelCapabilities(target)

(* A host with neither a lease materializer nor a profile store cannot run *)
(* the strict plan: its descriptors and their capability are withdrawn.    *)
applyWireGuardTurnCarrierAvailability(cs, canMaterialize) ==
  LET strict(d) == isStrictWireGuardTurnExecutionPlan(d.plan)
      withdrawn(d) == IF strict(d) /\ d.support = "supported"
                        THEN [d EXCEPT !.support = "unavailable"] ELSE d
      withdraw(c) ==
        [c EXCEPT
          !.plans = [i \in DOMAIN @ |-> withdrawn(@[i])],
          !.available = @ /\ \A i \in DOMAIN c.plans :
                               ~(strict(c.plans[i]) /\ c.plans[i].support = "supported"),
          !.missing = IF \E i \in DOMAIN c.plans :
                           strict(c.plans[i]) /\ c.plans[i].support = "supported"
                        THEN "host_implementation" ELSE @]
  IN IF canMaterialize THEN cs ELSE [i \in DOMAIN cs |-> withdraw(cs[i])]

(***************************************************************************)
(* Remote ingress diagnostics, derived from a lease and validated again    *)
(* in the start result that carries them.                                  *)
(***************************************************************************)
RemoteIngressDiagnosticsFromWireGuardTurnLease(lease) ==
  LET mux == lease.role = "udp_protocol_multiplexer"
  IN [family    |-> lease.family,
      role      |-> lease.role,
      protocol  |-> IF mux THEN "udp_protocol_multiplexer" ELSE "raw_wireguard_datagram",
      address   |-> lease.endpoint,
      isolation |-> IF mux THEN "mux_backed" ELSE "dedicated"]

validateRuntimeRemoteIngressDiagnostics(g) ==
  /\ g.family \in EndpointFamilies
  /\ g.address # ""
  /\ <<g.role, g.protocol, g.isolation>> \in
       { <<"turn_dtls_custom_overlay", "dtls_custom_overlay", "dedicated">>,
         <<"wireguard_raw_datagram", "raw_wireguard_datagram", "dedicated">>,
         <<"udp_protocol_multiplexer", "udp_protocol_multiplexer", "mux_backed">> }
=============================================================================
