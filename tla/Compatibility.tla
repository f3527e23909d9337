--------------------------- MODULE Compatibility ---------------------------
(***************************************************************************)
(* Provider/transport compatibility as pure operators                      *)
(* (pkg/clientcontrol/provider_transport_compatibility.go): which          *)
(* combinations of a provider resolution, an execution plan and a VPN      *)
(* transport profile the host offers, and which of them a platform tunnel  *)
(* start may use.                                                          *)
(*                                                                         *)
(* The host's tables are a record w: w.resolutions maps identifiers to     *)
(* [state, provider, artifact, expires, remote], w.profiles and w.defaults *)
(* are those of TransportProfiles, w.store says whether the host has a     *)
(* profile store.  An artifact is [family, access, plans], remote what a   *)
(* VPS said of it.  An empty string, set or sequence is an absent value.   *)
(* Candidate digests are the sequence that is digested; reason codes and   *)
(* messages are left out.                                                  *)
(***************************************************************************)
EXTENDS TransportProfiles

Startable == [status |-> "startable", axis |-> ""]
Blocked(status, axis) == [status |-> status, axis |-> axis]

NoArtifact  == [family |-> "", access |-> {}, plans |-> <<>>]
NoRemote    == [expired |-> FALSE, validation |-> "", evidence |-> ""]
NoSource    == [resolution |-> "", provider |-> ""]
NoReference == [resolution |-> "", provider |-> "", family |-> "", access |-> {}, expires |-> 0]

NoResolution == [state |-> "", provider |-> "", artifact |-> NoArtifact,
                 expires |-> 0, remote |-> NoRemote]

FirstNonEmpty(a, b) == IF a # "" THEN a ELSE b

(* A chain of early returns: the verdict of the first check that applies.  *)
(* A check is a pair of its condition and the verdict it returns.          *)
FirstOf(checks) ==
  LET applies == {i \in DOMAIN checks : checks[i][1]}
  IN IF applies = {} THEN Startable ELSE checks[Least(applies)][2]

(* The elements of s at the places in S, in their order. *)
Upto(S, i)       == {j \in S : j <= i}
Nth(S, k)        == CHOOSE i \in S : Cardinality(Upto(S, i)) = k
ElementsAt(s, S) == [k \in 1 .. Cardinality(S) |-> s[Nth(S, k)]]

CandidateStartable(c) == c.status = "startable" /\ c.axis = ""

(***************************************************************************)
(* The artifact of a resolution                                            *)
(***************************************************************************)
providerTransportArtifactReferenceFromResolution(id, s) ==
  [resolution |-> id, provider |-> s.provider, family |-> s.artifact.family,
   access |-> s.artifact.access, expires |-> s.expires]

(* The two words of a VPS have vocabularies of their own; a word that is   *)
(* in neither blocks the artifact as unsupported.                          *)
RemoteFault(word) ==
  CASE word = "stale"       -> Blocked("stale", "provider_artifact")
    [] word = "degraded"    -> Blocked("degraded", "evidence")
    [] word = "unavailable" -> Blocked("unavailable", "provider_artifact")
    [] OTHER                -> Blocked("unsupported", "provider_artifact")

ValidationStanding(word) ==
  CASE word \in {"", "valid"}      -> Startable
    [] word = "missing_evidence"   -> Blocked("missing_evidence", "evidence")
    [] OTHER                       -> RemoteFault(word)

EvidenceStanding(word) ==
  CASE word \in {"", "fresh"}                 -> Startable
    [] word \in {"missing", "unknown_limit"}  -> Blocked("missing_evidence", "evidence")
    [] OTHER                                  -> RemoteFault(word)

providerTransportRemoteVPSArtifactFailure(remote) ==
  LET validation == ValidationStanding(remote.validation)
  IN FirstOf(<< <<remote.expired, Blocked("stale", "provider_artifact")>>,
                <<validation # Startable, validation>>,
                <<TRUE, EvidenceStanding(remote.evidence)>> >>)

Differs(named, actual) == named # "" /\ named # actual

providerTransportSourceMismatch(ref, id, s) ==
  Differs(ref.resolution, id) \/ Differs(ref.provider, s.provider)

\* Mutant: a reference that names another expiry is not a mismatch.
ArtifactMismatchBySource(ref, actual) ==
  Differs(ref.resolution, actual.resolution) \/ Differs(ref.provider, actual.provider)

providerTransportArtifactMismatch(ref, actual) ==
  \/ Differs(ref.resolution, actual.resolution)
  \/ Differs(ref.provider, actual.provider)
  \/ Differs(ref.family, actual.family)
  \/ ref.expires # 0 /\ ref.expires # actual.expires
  \/ ~(ref.access \subseteq actual.access)

(***************************************************************************)
(* The candidates of a request.  A request is [resolution, source,         *)
(* artifact, plan, profile, candidate, degraded, evidence].                *)
(***************************************************************************)
providerTransportCompatibilityResolutionID(r) ==
  FirstNonEmpty(r.resolution, FirstNonEmpty(r.source.resolution, r.artifact.resolution))

(* The identifier a candidate is filtered by is the one the request names. *)
providerTransportCompatibilityCandidateID(r, source, artifact, plan, profile) ==
  IF r.candidate # <<>> THEN r.candidate
  ELSE << source.provider,
          FirstNonEmpty(source.resolution, providerTransportCompatibilityResolutionID(r)),
          artifact.family, plan, profile >>

FinalizeCandidate(r, source, artifact, plan, profile, verdict) ==
  [id |-> providerTransportCompatibilityCandidateID(r, source, artifact, plan, profile),
   source |-> source, artifact |-> artifact, plan |-> plan, profile |-> profile,
   status |-> verdict.status, axis |-> verdict.axis]

(* The kinds a descriptor declares, else the ones the host's capabilities  *)
(* require for its plan.                                                   *)
KindsOf(d) == IF d.kinds # {} THEN d.kinds ELSE requiredTransportProfileKindsForPlan(d.plan)

(* Why a named profile is refused, in the order of its checks. *)
TransportProfileErrorVerdict(w, id, p, required) ==
  LET known == id \in DOMAIN w.profiles
      kind  == IF known THEN w.profiles[id].kind ELSE ""
      valid == known /\ w.profiles[id].status.validation = "valid"
  IN FirstOf(<< <<~known, Blocked("stale", "transport_profile")>>,
                <<kind \notin required, Blocked("unsupported", "transport_profile")>>,
                <<~valid, Blocked("setup_needed", "transport_profile")>>,
                <<~transportProfileCompatibleWithPlan(kind, p),
                  Blocked("unsupported", "transport_profile")>>,
                <<TRUE, Blocked("setup_needed", "transport_profile")>> >>)

(* The profile a candidate carries: the one the request names, or the      *)
(* valid default of the plan's scope.                                      *)
CandidateProfile(w, r, d) ==
  LET default == StartupCandidate(w.defaults, "", d.plan)
      id      == IF r.profile # "" THEN r.profile ELSE default
  IN IF id # "" /\ validateTransportProfileRef(w.profiles, id, d.plan, KindsOf(d))
       THEN id ELSE ""

DescriptorVerdict(w, r, artifact, d) ==
  LET adapted == d.plan.adapter # ""
  IN FirstOf(<<
       <<d.plan.access \notin artifact.access, Blocked("unsupported", "artifact_access_method")>>,
       <<d.plan.carrier \notin CarrierFamilies, Blocked("unsupported", "carrier_family")>>,
       <<d.plan.engine \notin EngineFamilies, Blocked("unsupported", "engine_family")>>,
       <<adapted /\ d.plan.adapter \notin HostAdapters, Blocked("unsupported", "host_adapter")>>,
       <<d.support = "experimental" /\ ~r.degraded, Blocked("degraded", "degraded_policy")>>,
       <<d.support \notin {"supported", "experimental"} /\ adapted,
         Blocked("unavailable", "host_adapter")>>,
       <<d.support \notin {"supported", "experimental"},
         Blocked("unavailable", "host_capability")>>,
       <<r.evidence, Blocked("missing_evidence", "evidence")>>,
       <<KindsOf(d) = {}, Startable>>,
       <<~w.store, Blocked("unavailable", "host_capability")>>,
       <<CandidateProfile(w, r, d) # "", Startable>>,
       <<r.profile # "", TransportProfileErrorVerdict(w, r.profile, d.plan, KindsOf(d))>>,
       <<TRUE, Blocked("setup_needed", "transport_profile")>> >>)

candidateForDescriptor(w, r, source, artifact, d) ==
  LET verdict == DescriptorVerdict(w, r, artifact, d)
      profile == IF verdict = Startable /\ KindsOf(d) # {}
                   THEN CandidateProfile(w, r, d) ELSE ""
  IN FinalizeCandidate(r, source, artifact, d.plan, profile, verdict)

providerTransportExecutionPlanDescriptors(s, requested) ==
  LET ds == s.artifact.plans
  IN ElementsAt(ds, {i \in DOMAIN ds : requested = NoPlan \/ ds[i].plan = requested})

(* What is wrong with the resolution itself, or Startable. *)
ResolutionVerdict(w, r, id) ==
  LET known  == id \in DOMAIN w.resolutions
      s      == IF known THEN w.resolutions[id] ELSE NoResolution
      actual == providerTransportArtifactReferenceFromResolution(id, s)
  IN FirstOf(<<
       <<id = "", Blocked("setup_needed", "provider_source")>>,
       <<~known, Blocked("stale", "provider_source")>>,
       <<s.state = "expired", Blocked("stale", "provider_artifact")>>,
       <<s.state # "resolved", Blocked("setup_needed", "provider_source")>>,
       <<providerTransportSourceMismatch(r.source, id, s), Blocked("stale", "provider_source")>>,
       <<providerTransportArtifactMismatch(r.artifact, actual),
         Blocked("stale", "provider_artifact")>>,
       <<s.artifact = NoArtifact, Blocked("unsupported", "provider_artifact")>>,
       <<TRUE, providerTransportRemoteVPSArtifactFailure(s.remote)>> >>)

ProviderTransportCompatibilityCandidates(w, r) ==
  LET id == providerTransportCompatibilityResolutionID(r)
      known    == id \in DOMAIN w.resolutions
      s        == IF known THEN w.resolutions[id] ELSE NoResolution
      source   == [resolution |-> FirstNonEmpty(r.source.resolution, id),
                   provider   |-> FirstNonEmpty(r.source.provider, s.provider)]
      actual   == providerTransportArtifactReferenceFromResolution(id, s)
      artifact == IF ~known THEN r.artifact
                  ELSE [actual EXCEPT !.provider   = FirstNonEmpty(r.artifact.provider, @),
                                      !.resolution = FirstNonEmpty(r.artifact.resolution, @)]
      blocked  == ResolutionVerdict(w, r, id)
      ds       == providerTransportExecutionPlanDescriptors(s, r.plan)
      all      == [i \in DOMAIN ds |-> candidateForDescriptor(w, r, source, artifact, ds[i])]
      none     == Blocked("unsupported", "engine_family")
  IN IF blocked # Startable
       THEN << FinalizeCandidate(r, source, artifact, NoPlan, "", blocked) >>
     ELSE IF ds = <<>>
       THEN << FinalizeCandidate(r, source, artifact, r.plan, "", none) >>
       ELSE ElementsAt(all, {i \in DOMAIN all : r.candidate \in {<<>>, all[i].id}})

(***************************************************************************)
(* Startup.  A start request is [mode, resolution, plan, profile, ref]     *)
(* where ref is the reference a client copies from a candidate,            *)
(* [given, candidate, source, artifact, plan, profile].                    *)
(***************************************************************************)
NoRef == [given |-> FALSE, candidate |-> <<>>, source |-> NoSource,
          artifact |-> NoReference, plan |-> NoPlan, profile |-> ""]

\* Mutant: the plan is not taken from the reference.
NormalizeWithoutPlan(q) ==
  [q EXCEPT !.resolution = FirstNonEmpty(@, q.ref.source.resolution),
            !.profile    = FirstNonEmpty(@, q.ref.profile)]

(* What a request leaves out is taken from its reference. *)
normalizePlatformTunnelStartRequest(q) ==
  [q EXCEPT
    !.resolution = FirstNonEmpty(@, FirstNonEmpty(q.ref.source.resolution,
                                                  q.ref.artifact.resolution)),
    !.plan       = IF @ = NoPlan THEN q.ref.plan ELSE @,
    !.profile    = FirstNonEmpty(@, q.ref.profile)]

(* The descriptor a start would use: its error and the kinds it needs. *)
selectedStartupExecutionPlanDescriptor(q) ==
  LET at     == {k \in DOMAIN PlatformTunnels : PlatformTunnels[k].mode = q.mode}
      plans  == IF at = {} THEN <<>> ELSE PlatformTunnels[Least(at)].plans
      choice == selectPlatformTunnelExecutionPlanDescriptor(plans, q.plan)
      found  == choice.err = ""
  IN [err   |-> IF at = {} /\ q.plan # NoPlan THEN "" ELSE choice.err,
      kinds |-> IF found THEN KindsOf(plans[choice.at])
                ELSE IF q.plan # NoPlan THEN requiredTransportProfileKindsForPlan(q.plan)
                ELSE {}]

providerTransportStartupReferenceFailure(ref) ==
  FirstOf(<<
    <<~ref.given, Blocked("setup_needed", "provider_artifact")>>,
    <<ref.source.resolution = "", Blocked("setup_needed", "provider_source")>>,
    <<\/ ref.artifact.resolution = ""
      \/ ref.artifact.family = ""
      \/ ref.artifact.access = {}, Blocked("setup_needed", "provider_artifact")>> >>)

(* The starts the host does not judge: the tunnel's controller decides. *)
StartupIsNotCombined(w, q) ==
  LET d == selectedStartupExecutionPlanDescriptor(q)
  IN \/ q.resolution = "" /\ ~q.ref.given
     \/ ~w.store /\ ~q.ref.given /\ q.profile = ""
     \/ d.err # "" /\ q.plan = NoPlan
     \/ d.kinds = {} /\ q.profile = ""

validateProviderTransportCompatibilityForStartup(w, q) ==
  LET asked == [resolution |-> q.resolution, source |-> q.ref.source,
                artifact |-> q.ref.artifact, plan |-> q.plan, profile |-> q.profile,
                candidate |-> q.ref.candidate, degraded |-> FALSE, evidence |-> FALSE]
      found == ProviderTransportCompatibilityCandidates(w, asked)
      first == IF found = <<>> THEN Blocked("unsupported", "engine_family")
                               ELSE Blocked(found[1].status, found[1].axis)
  IN FirstOf(<<
       <<StartupIsNotCombined(w, q), Startable>>,
       <<q.resolution = "", Blocked("setup_needed", "provider_source")>>,
       <<q.plan = NoPlan, Blocked("setup_needed", "host_adapter")>>,
       <<q.profile = "", Blocked("setup_needed", "transport_profile")>>,
       <<providerTransportStartupReferenceFailure(q.ref) # Startable,
         providerTransportStartupReferenceFailure(q.ref)>>,
       <<TRUE, first>> >>)

(* The start result that reports a failure. *)
providerTransportStartupFailure(f) ==
  CASE f.axis = "transport_profile" ->
         [stage |-> "profile_validate", missing |-> "transport_profile"]
    [] f.axis \in {"provider_source", "provider_artifact", "artifact_access_method"} ->
         [stage |-> "runtime_attach", missing |-> "host_implementation"]
    [] f.axis = "evidence" ->
         [stage |-> "dataplane_verify", missing |-> "dataplane_evidence"]
    [] OTHER -> [stage |-> "capability_check", missing |-> "host_implementation"]
=============================================================================
