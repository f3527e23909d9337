---------------------------- MODULE MCClientHost -----------------------------
(***************************************************************************)
(* The control-plane host with a session or with a resolution.  They have  *)
(* the challenge broker in common, written twice over one host in the      *)
(* code, and share nothing else: each behaviour is of one of them.         *)
(***************************************************************************)
EXTENDS Resolution, HostSession

VARIABLE owner      \* of the provider and its challenges

clientVars == <<owner, resolutionVars, sessionVars>>

ClientInit ==
    /\ owner \in {"session", "resolution"}
    /\ ResolutionInit
    /\ SessionInit

ClientNext ==
    \/ owner = "session" /\ SessionNext /\ UNCHANGED <<owner, recordVars, callVars>>
    \/ owner = "resolution" /\ ResolutionNext /\ UNCHANGED <<owner, runVars, hostVars>>

ClientSpec ==
    /\ ClientInit
    /\ [][ClientNext]_clientVars
    /\ owner = "session" => SessionFairness
    /\ owner = "resolution" => ResolutionFairness

=============================================================================
