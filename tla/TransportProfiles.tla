-------------------------- MODULE TransportProfiles --------------------------
(***************************************************************************)
(* VPN transport profiles as pure operators: what a profile's status says, *)
(* what a structured draft becomes, which profile a startup uses           *)
(* (pkg/clientcontrol/transport_profile_store.go, ..._structured.go,       *)
(* ..._portable_transfer.go, internal/wireguardprofile/profile.go).        *)
(*                                                                         *)
(* Material is a record of the WireGuard settings; NoMaterial is a nil     *)
(* profile.  A string setting is "" (absent), "bad" (a value the           *)
(* structured validators refuse) or any other value (well formed).  An     *)
(* endpoint is one of the classes its two validators tell apart: "remote", *)
(* "local" (localhost, loopback, unspecified), "badport" (host:port with a *)
(* port that is no number), "bad" (not host:port).  Names, timestamps and  *)
(* fingerprints are left out.                                              *)
(***************************************************************************)
EXTENDS ExecutionPlans

CONSTANT PlatformTunnels    \* the capabilities the host was built with

(* They passed validatePlatformTunnelCapabilities, which also keeps modes   *)
(* apart, and each of the hosts describes a plan in one way only.          *)
ASSUME TunnelsAssumption ==
  /\ Len(PlatformTunnels) \in Nat /\ DOMAIN PlatformTunnels = 1 .. Len(PlatformTunnels)
  /\ NoRepeats([k \in DOMAIN PlatformTunnels |-> PlatformTunnels[k].mode])
  /\ \A k \in DOMAIN PlatformTunnels :
       LET ds == PlatformTunnels[k].plans
       IN /\ validatePlatformTunnelCapability(PlatformTunnels[k])
          /\ Len(ds) \in Nat /\ DOMAIN ds = 1 .. Len(ds)
          /\ \A i, j \in DOMAIN ds : ds[i].plan = ds[j].plan => ds[i] = ds[j]

NoMaterial == [key |-> "", psk |-> "", addresses |-> "", dns |-> "", mtu |-> 0,
               peer |-> "", allowed |-> "", endpoint |-> "", keepalive |-> 0]

Descriptors == UNION {{c.plans[i] : i \in DOMAIN c.plans} :
                        c \in {PlatformTunnels[k] : k \in DOMAIN PlatformTunnels}}

(***************************************************************************)
(* Validation and compatibility                                            *)
(***************************************************************************)
wireGuardProfileComplete(m) ==
  m.key # "" /\ m.addresses # "" /\ m.peer # "" /\ m.allowed # ""

(* The start-up validator wants a remote host and does not read the port;  *)
(* the editor's wants a port and does not mind a local host.               *)
validateRawWireGuardIngressEndpoint(e) == e \in {"remote", "badport"}
validateWireGuardEndpoint(e)           == e \in {"remote", "local"}

transportProfileValidationStatus(kind, m) ==
  IF /\ kind = WireGuardNativeV1
     /\ wireGuardProfileComplete(m)
     /\ m.endpoint # ""
     /\ validateRawWireGuardIngressEndpoint(m.endpoint)
    THEN "valid" ELSE "invalid"

transportProfileCompatibleWithPlan(kind, p) ==
  kind = WireGuardNativeV1 /\ isStrictWireGuardTurnExecutionPlan(p)

compatiblePlansForTransportProfileKind(kind) ==
  {d.plan : d \in {e \in Descriptors : transportProfileCompatibleWithPlan(kind, e.plan)}}

AdvertisedDescriptors ==
  UNION {{c.plans[i] : i \in {j \in DOMAIN c.plans : c.plans[j].support = "supported"}} :
           c \in {PlatformTunnels[k] : k \in {n \in DOMAIN PlatformTunnels :
                                               PlatformTunnels[n].available}}}

transportProfilePlanAdvertised(kind, p) ==
  \E d \in AdvertisedDescriptors :
     d.plan = p /\ transportProfileCompatibleWithPlan(kind, d.plan)

transportProfilePortableExportAvailable(kind, validation, m) ==
  validation = "valid" /\ kind = WireGuardNativeV1 /\ wireGuardProfileComplete(m)

transportProfileStatusActions(kind, validation, m) ==
  {"validate", "replace", "forget", "update_structured", "validate_draft", "generate_key"}
  \cup (IF validation = "valid" THEN {"select_for_startup"} ELSE {})
  \cup (IF transportProfilePortableExportAvailable(kind, validation, m)
          THEN {"export_portable"} ELSE {})

(* The scopes a stored profile is the default of.  A scope identifier is   *)
(* the four parts of a plan, so the plan itself stands for it.             *)
defaultBindingsForTransportProfile(id, kind, validation, defaults) ==
  IF validation # "valid" THEN {}
  ELSE {p \in compatiblePlansForTransportProfileKind(kind) :
          p \in DOMAIN defaults /\ defaults[p] = id}

(* The status that a refresh writes into the record of profile id. *)
refreshTransportProfileStatus(id, kind, m, defaults) ==
  LET validation == transportProfileValidationStatus(kind, m)
      plans      == compatiblePlansForTransportProfileKind(kind)
  IN [validation |-> validation,
      compat     |-> IF validation = "valid" /\ plans # {}
                       THEN "compatible" ELSE "incompatible",
      plans      |-> plans,
      actions    |-> transportProfileStatusActions(kind, validation, m),
      defaultFor |-> defaultBindingsForTransportProfile(id, kind, validation, defaults)]

(* The plans a newly stored profile becomes the default of. *)
defaultBindingsForImportedTransportProfile(kind, m, requested) ==
  IF transportProfileValidationStatus(kind, m) # "valid" THEN {}
  ELSE {p \in (IF requested # NoPlan THEN {requested}
                                     ELSE compatiblePlansForTransportProfileKind(kind)) :
          transportProfileCompatibleWithPlan(kind, p)}

(***************************************************************************)
(* Structured drafts.  A draft is [kind, schema, defaultFor, fields,       *)
(* legacy, actions, mistyped]: the submitted field map, the older typed    *)
(* members used for a field the map lacks, the secret update actions and   *)
(* the fields whose submitted value has the wrong type.                    *)
(***************************************************************************)
SecretFields == {"key", "psk"}
StructuredFields == DOMAIN NoMaterial \cup {"name"}
SecretActions == {"preserve_existing", "replace_submitted", "generate_host"}

(* What the advertised schema offers for each secret. *)
AdvertisedActions(f) ==
  IF f = "key" THEN SecretActions ELSE SecretActions \ {"generate_host"}

StructuredField(d, f) ==
  CASE f \in d.mistyped                                  -> NoMaterial[f]
    [] f \notin d.mistyped /\ f \in DOMAIN d.fields      -> d.fields[f]
    [] f \notin d.mistyped \cup DOMAIN d.fields
         /\ f \in DOMAIN d.legacy                        -> d.legacy[f]
    [] OTHER                                             -> NoMaterial[f]

SecretActionForField(d, f) == IF f \in DOMAIN d.actions THEN d.actions[f] ELSE ""

validateSubmittedStructuredFields(d) ==
  /\ DOMAIN d.fields \subseteq StructuredFields
  /\ d.mistyped = {}
  /\ \A f \in DOMAIN d.actions :
        f \in SecretFields /\ d.actions[f] \in AdvertisedActions(f)

(* The secret a draft asks for, given the material it edits; existing is   *)
(* NoMaterial when the draft creates a profile.                            *)
normalizeStructuredPrivateKey(d, existing) ==
  LET submitted == StructuredField(d, "key")
      action    == SecretActionForField(d, "key")
  IN CASE action = "generate_host"     -> "generated"
       [] action = "preserve_existing" -> existing.key
       [] action = "replace_submitted" -> submitted
       [] OTHER -> IF submitted # "" THEN submitted ELSE existing.key

\* Mutant: a preshared key that is not submitted is cleared.
PresharedKeyNotPreserved(d, existing) == StructuredField(d, "psk")

normalizeStructuredPresharedKey(d, existing) ==
  LET submitted == StructuredField(d, "psk")
      action    == SecretActionForField(d, "psk")
  IN CASE action = "preserve_existing" -> existing.psk
       [] action = "replace_submitted" -> submitted
       [] OTHER -> IF submitted # "" THEN submitted ELSE existing.psk

StructuredMTU(d) == IF StructuredField(d, "mtu") = 0 THEN 1280 ELSE StructuredField(d, "mtu")

(* Every field check of the normalisation.  A preserved or generated       *)
(* secret is not checked; preserving one needs a profile to edit.          *)
StructuredDraftValid(d, existing, updating) ==
  LET field(f)     == StructuredField(d, f)
      preserves(f) == SecretActionForField(d, f) = "preserve_existing"
      submits(f)   == SecretActionForField(d, f) \in {"", "replace_submitted"}
  IN /\ d.kind \in {"", WireGuardNativeV1}
     /\ d.schema \in {"", "1"}
     /\ d.defaultFor # NoPlan => validateRuntimeExecutionPlan(d.defaultFor)
     /\ validateSubmittedStructuredFields(d)
     /\ preserves("key") => updating
     /\ normalizeStructuredPrivateKey(d, existing) # ""
     /\ submits("key") => field("key") # "bad"
     /\ preserves("psk") => updating
     /\ SecretActionForField(d, "psk") # "generate_host"
     /\ submits("psk") => field("psk") # "bad"
     /\ \A f \in {"addresses", "peer", "allowed"} : field(f) \notin {"", "bad"}
     /\ field("dns") # "bad"
     /\ StructuredMTU(d) \in 576 .. 9000
     /\ validateWireGuardEndpoint(field("endpoint"))
     /\ field("keepalive") \in 0 .. 65535

normalizeStructuredWireGuardDraft(d, existing) ==
  [f \in DOMAIN NoMaterial |->
     CASE f = "key" -> normalizeStructuredPrivateKey(d, existing)
       [] f = "psk" -> normalizeStructuredPresharedKey(d, existing)
       [] f = "mtu" -> StructuredMTU(d)
       [] OTHER     -> StructuredField(d, f)]

(* The draft an ordinary read shows for a stored profile: no secret, only  *)
(* the fields that hold something, and a preserve action for each secret   *)
(* that exists.                                                            *)
redactedStructuredDraftForTransportProfile(m) ==
  LET shown == {f \in DOMAIN NoMaterial \ SecretFields : m[f] # NoMaterial[f]}
  IN [kind       |-> WireGuardNativeV1,
      schema     |-> "1",
      defaultFor |-> NoPlan,
      fields     |-> [f \in shown |-> m[f]],
      legacy     |-> [f \in DOMAIN NoMaterial \ SecretFields |-> m[f]],
      actions    |-> [f \in {g \in SecretFields : m[g] # ""} |-> "preserve_existing"],
      mistyped   |-> {}]

(***************************************************************************)
(* Choosing a profile for a startup.  profiles maps the stored identifiers *)
(* to records with the fields kind, material and status; the result is     *)
(* the identifier, or "" when the startup is refused.                      *)
(***************************************************************************)
RequiredKinds(d) ==
  IF d.kinds # {} THEN d.kinds
  ELSE IF isStrictWireGuardTurnExecutionPlan(d.plan) THEN {WireGuardNativeV1} ELSE {}

requiredTransportProfileKindsForPlan(p) ==
  LET declared == {d \in Descriptors : d.plan = p /\ d.kinds # {}}
  IN IF declared # {} THEN (CHOOSE d \in declared : TRUE).kinds
     ELSE IF isStrictWireGuardTurnExecutionPlan(p) THEN {WireGuardNativeV1} ELSE {}

validateTransportProfileRef(profiles, id, p, required) ==
  /\ id \in DOMAIN profiles
  /\ profiles[id].kind \in required
  /\ profiles[id].status.validation = "valid"
  /\ transportProfileCompatibleWithPlan(profiles[id].kind, p)
  /\ profiles[id].material # NoMaterial
  /\ validateRawWireGuardIngressEndpoint(profiles[id].material.endpoint)

\* Mutant: the default of the scope goes before the named profile.
DefaultBeforeNamed(defaults, ref, p) ==
  IF p \in DOMAIN defaults THEN defaults[p] ELSE ref

(* The profile named by the request, else the default of the plan's scope. *)
StartupCandidate(defaults, ref, p) ==
  IF ref # "" THEN ref ELSE IF p \in DOMAIN defaults THEN defaults[p] ELSE ""

resolveTransportProfileForStartup(profiles, defaults, ref, p, required) ==
  LET id == StartupCandidate(defaults, ref, p)
  IN IF id # "" /\ validateTransportProfileRef(profiles, id, p, required) THEN id ELSE ""

\* Mutant: any valid stored profile makes the plan startable.
ReportedByAnyProfile(profiles, defaults, d) ==
  IF \/ RequiredKinds(d) = {}
     \/ \E id \in DOMAIN profiles :
           validateTransportProfileRef(profiles, id, d.plan, RequiredKinds(d))
    THEN d.support ELSE "unavailable"

(* What the host reports about a descriptor that needs a profile: it is    *)
(* startable only through the default of its scope.                        *)
ReportedSupport(profiles, defaults, d) ==
  LET default == StartupCandidate(defaults, "", d.plan)
  IN IF \/ RequiredKinds(d) = {}
        \/ default # "" /\ validateTransportProfileRef(profiles, default, d.plan, RequiredKinds(d))
       THEN d.support ELSE "unavailable"

(* A start request for a mode: whether it ends at profile validation, and  *)
(* the profile it goes on with.  The starter decides about a request that  *)
(* is left as it is.                                                       *)
attachTransportProfileToStartRequest(profiles, defaults, mode, requested, ref, resolved) ==
  LET at     == {k \in DOMAIN PlatformTunnels : PlatformTunnels[k].mode = mode}
      c      == PlatformTunnels[Least(at)]
      choice == selectPlatformTunnelExecutionPlanDescriptor(c.plans, requested)
      d      == c.plans[choice.at]
      id     == resolveTransportProfileForStartup(profiles, defaults, ref, d.plan,
                                                  RequiredKinds(d))
      left   == \/ resolved /\ ref = ""
                \/ at = {}
                \/ ~c.available
                \/ choice.err # ""
                \/ d.support # "supported"
                \/ RequiredKinds(d) = {}
  IN [ended   |-> ~left /\ id = "",
      profile |-> IF left THEN ref ELSE id]

(***************************************************************************)
(* Portable envelopes.  An envelope is [defect, kind, material]; defect is *)
(* what its decoding or decryption finds wrong, or "".                     *)
(***************************************************************************)
EnvelopeDefects == {"malformed_envelope", "unsupported_envelope", "wrong_passphrase"}

(* The outcome of a preview: a blocked reason, "already_present" or        *)
(* "importable".  The checks run in this order.                            *)
PortablePreview(profiles, envelope) ==
  CASE envelope.defect \in {"malformed_envelope", "unsupported_envelope"} -> envelope.defect
    [] envelope.defect \notin {"malformed_envelope", "unsupported_envelope"}
         /\ envelope.kind \notin KnownKinds -> "unsupported_profile_kind"
    [] envelope.defect = "wrong_passphrase" /\ envelope.kind \in KnownKinds -> "wrong_passphrase"
    [] OTHER ->
         CASE ~wireGuardProfileComplete(envelope.material) -> "malformed_envelope"
           [] wireGuardProfileComplete(envelope.material)
                /\ ~\E d \in AdvertisedDescriptors :
                      transportProfileCompatibleWithPlan(envelope.kind, d.plan)
                -> "incompatible_host"
           [] OTHER ->
                IF \E id \in DOMAIN profiles :
                      /\ profiles[id].kind = envelope.kind
                      /\ profiles[id].material = envelope.material
                  THEN "already_present" ELSE "importable"
=============================================================================
