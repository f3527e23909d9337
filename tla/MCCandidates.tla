---------------------------- MODULE MCCandidates ----------------------------
(* Instance of Candidates for TLC. *)
EXTENDS Candidates

Descriptor(plan, support, default, requires, kinds) ==
  [plan |-> plan, support |-> support, family |-> "turn_server",
   role |-> "wireguard_raw_datagram", default |-> default,
   requires |-> requires, kinds |-> kinds]

LinuxPlan  == StrictPlan("linux_tun")
WebRTCPlan == [access |-> "webrtc_call_attach", carrier |-> "webrtc_datachannel",
               engine |-> "wireguard_native", adapter |-> "linux_tun"]

MCTunnels ==
  << [mode |-> "linux_tun", available |-> TRUE, satisfied |-> <<"driver">>, missing |-> "",
      policies |-> <<>>,
      plans |-> << Descriptor(LinuxPlan, "supported", TRUE, "", {}) >>] >>

\* Every artifact of the TURN family has the plan of the custom overlay.
OverlayDescriptor ==
  [Descriptor([access |-> "turn_credentials", carrier |-> "turn_dtls_overlay",
               engine |-> "custom_packet_overlay", adapter |-> ""],
              "supported", TRUE, "", {}) EXCEPT !.role = "turn_dtls_custom_overlay"]

WebRTCDescriptor ==
  [Descriptor(WebRTCPlan, "experimental", FALSE,
              "runtime_execution_experimental_webrtc_datachannel", {})
     EXCEPT !.family = "webrtc_call_endpoint"]

\* An artifact with the strict plan, one of a VPS that also allows an
\* experimental plan, one whose strict plan this host cannot run, and a
\* room, which no tunnel can use.
MCArtifacts ==
  { [family |-> "turn", access |-> {"turn_credentials"},
     plans |-> << OverlayDescriptor, Descriptor(LinuxPlan, "supported", TRUE, "", {}) >>],
    [family |-> "turn", access |-> {"turn_credentials", "webrtc_call_attach"},
     plans |-> << OverlayDescriptor,
                  Descriptor(LinuxPlan, "supported", TRUE, "", {WireGuardNativeV1}),
                  WebRTCDescriptor >>],
    [family |-> "turn", access |-> {"turn_credentials"},
     plans |-> << OverlayDescriptor, Descriptor(LinuxPlan, "unavailable", TRUE, "", {}) >>],
    [family |-> "room", access |-> {}, plans |-> <<>>] }

MCRemotes == { NoRemote,
               [expired |-> FALSE, validation |-> "valid", evidence |-> "fresh"],
               [expired |-> FALSE, validation |-> "valid", evidence |-> "degraded"] }

Good == [key |-> "k1", psk |-> "", addresses |-> "a1", dns |-> "", mtu |-> 1280,
         peer |-> "p1", allowed |-> "i1", endpoint |-> "remote", keepalive |-> 0]
MCMaterials == {Good, [Good EXCEPT !.endpoint = "local"]}
=============================================================================
