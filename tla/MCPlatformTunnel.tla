-------------------------- MODULE MCPlatformTunnel --------------------------
(* Instance of PlatformTunnel for TLC. *)
EXTENDS PlatformTunnel

(* The capability a packaged host reports, and what New makes of it. *)
Reported(m) ==
  [mode |-> m, available |-> TRUE, satisfied |-> <<"driver">>, missing |-> "",
   policies |-> IF m = "android_vpn_service" THEN <<>>
                ELSE <<"preserve_active_local_network">>,
   plans |-> <<>>]

Served(m) ==
  [Reported(m) EXCEPT
     !.policies = IF m = "android_vpn_service" THEN <<"standard">> ELSE @,
     !.plans = << [plan |-> StrictPlan(m), support |-> "supported", family |-> "turn_server",
                   role |-> "wireguard_raw_datagram", default |-> TRUE, requires |-> "",
                   kinds |-> {WireGuardNativeV1}] >>]

ASSUME ServedIsPrepared ==
  \A m \in Modes :
    Served(m) = applyWireGuardTurnCarrierAvailability(
                  normalizePlatformTunnelCapabilities(<<Reported(m)>>, m), TRUE)[1]

MCTunnels == << Served("linux_tun"), Served("windows_wintun"), Served("android_vpn_service") >>

Artifact(m) ==
  [family |-> "turn", access |-> {"turn_credentials"}, plans |-> Served(m).plans]
Resolved(m) == [NoResolution EXCEPT !.state = "resolved", !.provider = "vk",
                                    !.artifact = Artifact(m), !.expires = 1]

MCResolution ==
  [linux_tun |-> Resolved("linux_tun"), windows_wintun |-> Resolved("windows_wintun"),
   android_vpn_service |-> Resolved("android_vpn_service")]

Good == [key |-> "k1", psk |-> "", addresses |-> "a1", dns |-> "", mtu |-> 1280,
         peer |-> "p1", allowed |-> "i1", endpoint |-> "remote", keepalive |-> 0]

MCProfile ==
  [kind |-> WireGuardNativeV1, material |-> Good,
   status |-> refreshTransportProfileStatus("p1", WireGuardNativeV1, Good, [p \in {} |-> p])]

\* A start that copies a candidate, and one that fails early: on Android for
\* a policy that is not advertised, elsewhere for want of a resolution.
Combined(m) ==
  [mode |-> m, resolution |-> "r1", plan |-> StrictPlan(m), profile |-> "p1", policy |-> "",
   ref |-> [given |-> TRUE, candidate |-> <<"c1">>,
            source |-> [resolution |-> "r1", provider |-> "vk"],
            artifact |-> [resolution |-> "r1", provider |-> "vk", family |-> "turn",
                          access |-> {"turn_credentials"}, expires |-> 1],
            plan |-> NoPlan, profile |-> ""]]

WithoutResolution(m) == [Combined(m) EXCEPT !.resolution = "", !.ref = NoRef]
WithPolicy(m) == [Combined(m) EXCEPT !.policy = "preserve_active_local_network"]

MCRequests ==
  [linux_tun |-> [combined |-> Combined("linux_tun"), bare |-> WithoutResolution("linux_tun")],
   windows_wintun |-> [combined |-> Combined("windows_wintun"), bare |-> WithoutResolution("windows_wintun")],
   android_vpn_service |-> [combined |-> Combined("android_vpn_service"), policy |-> WithPolicy("android_vpn_service")]]
=============================================================================
