----------------------------- MODULE Candidates -----------------------------
(***************************************************************************)
(* The compatibility read model in use (provider_transport_compatibility.go*)
(* with the resolution and profile tables of host.go): a client asks for   *)
(* candidates, keeps one, and later starts a tunnel with the references it *)
(* copied.  Between the two, resolutions settle and expire, a VPS lease    *)
(* runs out, profiles are stored, replaced and forgotten.                  *)
(***************************************************************************)
EXTENDS Compatibility

CONSTANTS ResolutionIDs, ProfileIDs, Providers,
          Artifacts,          \* the artifacts a resolution may end with
          Remotes,            \* what a VPS may say of an artifact
          Materials,          \* the WireGuard settings that may be stored
          StoreEnabled        \* whether the host has a profile store

(* An artifact with plans is of the one family that has any.  Its          *)
(* descriptors are those of the host's capabilities and the one of the     *)
(* overlay; a VPS that names an action twice gives them twice.             *)
ASSUME ArtifactsAssumption ==
  \A a \in Artifacts :
    /\ Len(a.plans) \in Nat /\ DOMAIN a.plans = 1 .. Len(a.plans)
    /\ a.plans # <<>> => a.family # ""
    /\ \A i \in DOMAIN a.plans : validateRuntimeExecutionPlanDescriptor(a.plans[i])
    /\ \A i, j \in DOMAIN a.plans : a.plans[i].plan = a.plans[j].plan => a.plans[i] = a.plans[j]

(* StartResolution refuses a request that names no provider. *)
ASSUME ProvidersAssumption == "" \notin Providers

VARIABLES resolutions, profiles, defaults,
          offer,              \* the candidate a client keeps
          answer              \* what the host answered to its start

offerVars == <<resolutions, profiles, defaults, offer, answer>>

NoOffer == [plan |-> NoPlan]
NotAsked == Blocked("", "")

HostTables == [resolutions |-> resolutions, profiles |-> profiles, defaults |-> defaults,
          store |-> StoreEnabled]

Stored(f, k, v) == [x \in DOMAIN f \cup {k} |-> IF x = k THEN v ELSE f[x]]
Without(f, k) == [x \in DOMAIN f \ {k} |-> f[x]]

(***************************************************************************)
(* What clients ask                                                        *)
(***************************************************************************)
AdvertisedPlans == {d.plan : d \in Descriptors}
                   \cup UNION {{a.plans[i].plan : i \in DOMAIN a.plans} : a \in Artifacts}

Questions ==
  [resolution : ResolutionIDs, source : {NoSource}, artifact : {NoReference},
   plan : AdvertisedPlans \cup {NoPlan}, profile : ProfileIDs \cup {""},
   candidate : {<<>>}, degraded : BOOLEAN, evidence : BOOLEAN]

(* The start request of a client that copies a candidate. *)
Echo(c) ==
  [mode |-> c.plan.adapter, resolution |-> "", plan |-> NoPlan, profile |-> "",
   ref |-> [given |-> TRUE, candidate |-> c.id, source |-> c.source,
            artifact |-> c.artifact, plan |-> c.plan, profile |-> c.profile]]

(* What a client kept of a candidate it saw: of provider v, artifact a and *)
(* expiry x.                                                               *)
Kept(id, v, a, x) ==
  [given |-> TRUE, candidate |-> <<"old">>,
   source |-> [resolution |-> id, provider |-> v],
   artifact |-> [resolution |-> id, provider |-> v, family |-> a.family,
                 access |-> a.access, expires |-> x],
   plan |-> NoPlan, profile |-> ""]

References == {NoRef} \cup {Kept(id, v, a, x) : id \in ResolutionIDs, v \in Providers,
                                                a \in Artifacts, x \in {1, 2}}

(* Every start a client could put together from references it once saw. *)
Starts ==
  [mode : {PlatformTunnels[k].mode : k \in DOMAIN PlatformTunnels},
   resolution : ResolutionIDs, plan : AdvertisedPlans,
   profile : ProfileIDs \cup {""}, ref : References]

(***************************************************************************)
(* Initial state and actions                                               *)
(***************************************************************************)
CandidatesInit ==
  /\ resolutions = [x \in {} |-> x]
  /\ profiles = [x \in {} |-> x]
  /\ defaults = [x \in {} |-> x]
  /\ offer = NoOffer
  /\ answer = NotAsked

StartResolution(id, provider) ==
  /\ id \notin DOMAIN resolutions
  /\ resolutions' = Stored(resolutions, id, [NoResolution EXCEPT !.state = "resolving",
                                                               !.provider = provider])
  /\ UNCHANGED <<profiles, defaults, offer, answer>>

FinishResolution(id) ==
  /\ id \in DOMAIN resolutions
  /\ resolutions[id].state = "resolving"
  /\ \/ \E a \in Artifacts, v \in Remotes, x \in {1, 2} :
          resolutions' = [resolutions EXCEPT ![id].state = "resolved", ![id].artifact = a,
                                             ![id].remote = v, ![id].expires = x]
     \/ resolutions' = [resolutions EXCEPT ![id].state = "failed"]
  /\ UNCHANGED <<profiles, defaults, offer, answer>>

(* Time passes: the resolution itself, or the VPS lease behind it, ends. *)
ExpireResolution(id) ==
  /\ id \in DOMAIN resolutions
  /\ resolutions[id].state = "resolved"
  /\ \/ resolutions' = [resolutions EXCEPT ![id].state = "expired"]
     \/ /\ resolutions[id].remote # NoRemote
        /\ resolutions' = [resolutions EXCEPT ![id].remote.expired = TRUE]
  /\ UNCHANGED <<profiles, defaults, offer, answer>>

(* A stored or replaced profile, with its status refreshed; a valid new    *)
(* one may become the default of the plans it fits.                        *)
PutProfile(id, m, makeDefault) ==
  LET bound == IF makeDefault
                 THEN defaultBindingsForImportedTransportProfile(WireGuardNativeV1, m, NoPlan)
                 ELSE {}
      next  == [p \in DOMAIN defaults \cup bound |-> IF p \in bound THEN id ELSE defaults[p]]
  IN /\ StoreEnabled
     /\ defaults' = next
     /\ profiles' = Stored(profiles, id,
          [kind |-> WireGuardNativeV1, material |-> m,
           status |-> refreshTransportProfileStatus(id, WireGuardNativeV1, m, next)])
     /\ UNCHANGED <<resolutions, offer, answer>>

ForgetProfile(id) ==
  /\ id \in DOMAIN profiles
  /\ profiles' = Without(profiles, id)
  /\ defaults' = [p \in {q \in DOMAIN defaults : defaults[q] # id} |-> defaults[p]]
  /\ UNCHANGED <<resolutions, offer, answer>>

KeepCandidate(r) ==
  LET found == ProviderTransportCompatibilityCandidates(HostTables, r)
  IN /\ offer = NoOffer
     /\ \E i \in DOMAIN found :
          CandidateStartable(found[i]) /\ found[i].plan.adapter # "" /\ offer' = found[i]
     /\ answer' = NotAsked
     /\ UNCHANGED <<resolutions, profiles, defaults>>

StartCandidate ==
  /\ offer # NoOffer
  /\ answer' = validateProviderTransportCompatibilityForStartup(HostTables,
                  normalizePlatformTunnelStartRequest(Echo(offer)))
  /\ offer' = NoOffer
  /\ UNCHANGED <<resolutions, profiles, defaults>>

CandidatesNext ==
  \/ \E id \in ResolutionIDs, v \in Providers : StartResolution(id, v)
  \/ \E id \in ResolutionIDs : FinishResolution(id)
  \/ \E id \in ResolutionIDs : ExpireResolution(id)
  \/ \E id \in ProfileIDs, m \in Materials, b \in BOOLEAN : PutProfile(id, m, b)
  \/ \E id \in ProfileIDs : ForgetProfile(id)
  \/ \E r \in Questions : KeepCandidate(r)
  \/ StartCandidate

CandidatesSpec == CandidatesInit /\ [][CandidatesNext]_offerVars

(***************************************************************************)
(* Properties                                                              *)
(***************************************************************************)

(* The list of candidates and the start-up guard are two evaluations of    *)
(* the same question.  A startable candidate that a client copies into a   *)
(* start is accepted as long as nothing changed, although the copy names   *)
(* its parts differently and a start never allows degraded plans.          *)
StartableCandidatesStart ==
  \A r \in Questions :
    LET found == ProviderTransportCompatibilityCandidates(HostTables, r)
    IN \A i \in DOMAIN found :
         CandidateStartable(found[i]) /\ found[i].plan.adapter # "" =>
           validateProviderTransportCompatibilityForStartup(HostTables,
             normalizePlatformTunnelStartRequest(Echo(found[i]))) = Startable

(* Whatever references a client kept, a combined start passes the guard    *)
(* only when the resolution is resolved and of the provider and artifact   *)
(* the client saw, its VPS lease is alive, the plan is one the artifact    *)
(* supports and, if the plan needs a profile, the named one is stored,     *)
(* valid and fits the plan.                                                *)
AcceptedStartsAreCurrent ==
  \A q \in Starts :
    ~StartupIsNotCombined(HostTables, q)
    /\ validateProviderTransportCompatibilityForStartup(HostTables, q) = Startable =>
         /\ q.resolution \in DOMAIN resolutions
         /\ LET s == resolutions[q.resolution]
            IN /\ s.state = "resolved"
               /\ s.provider = q.ref.source.provider
               /\ s.artifact.family = q.ref.artifact.family
               /\ s.expires = q.ref.artifact.expires
               /\ ~s.remote.expired
               /\ \E i \in DOMAIN s.artifact.plans :
                    LET d == s.artifact.plans[i]
                    IN /\ d.plan = q.plan /\ d.support = "supported"
                       /\ KindsOf(d) # {} =>
                            /\ q.profile \in DOMAIN profiles
                            /\ validateRawWireGuardIngressEndpoint(
                                 profiles[q.profile].material.endpoint)
                            /\ transportProfileCompatibleWithPlan(profiles[q.profile].kind,
                                                                  q.plan)

(* The start has two judges: the guard of the read model, over the         *)
(* descriptors of the artifact, and the profile store, over those of the   *)
(* host's capabilities, which attaches the profile.  When a client starts  *)
(* the candidate it kept, and the guard accepts it in spite of all that    *)
(* was stored, replaced, made a default or forgotten since, the store does *)
(* not end the start at profile validation for want of a profile, and the  *)
(* starter is handed the profile that the candidate showed.                *)
KeptCandidatesStartAsShown ==
  [][offer # NoOffer /\ offer' = NoOffer /\ answer' = Startable =>
       LET q == normalizePlatformTunnelStartRequest(Echo(offer))
           attached == attachTransportProfileToStartRequest(profiles, defaults, q.mode, q.plan,
                                                            q.profile, q.resolution # "")
       IN ~attached.ended /\ attached.profile = offer.profile]_offerVars
=============================================================================
