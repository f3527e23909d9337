-------------------------- MODULE MCLinuxTunHelper --------------------------
(***************************************************************************)
(* Two attempts of the Linux helper: both exclude the underlay's DNS       *)
(* server, the first a TURN server as well.                                *)
(***************************************************************************)
EXTENDS LinuxTunHelper

SharedExclusions == << {"dns", "turn"}, {"dns"} >>
=============================================================================
