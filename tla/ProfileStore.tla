---------------------------- MODULE ProfileStore ----------------------------
(***************************************************************************)
(* The VPN transport profile store of the control-plane host               *)
(* (pkg/clientcontrol/transport_profile_store.go): the profiles and the    *)
(* scoped defaults in memory, the file that keeps them, and the calls that *)
(* change both.  Every call holds the host mutex, except that a migration  *)
(* and a confirmed portable import first look at the store, release the    *)
(* mutex and take it again to store what they decided.                     *)
(*                                                                         *)
(* A save writes a temporary file, renames it over the store and sets the  *)
(* mode of the result.  It may fail before the rename, leaving the old     *)
(* file, or after it, leaving the new file and still reporting an error.   *)
(* Tunnel starts read the store with the operators of TransportProfiles;   *)
(* PlatformTunnel has the steps of a start.                                *)
(***************************************************************************)
EXTENDS TransportProfiles

CONSTANTS
    ProfileIDs,     \* identifiers a profile may get
    Callers,        \* concurrent calls that span two lock sections
    ImportFiles,    \* materials of the WireGuard files that can be imported
    Drafts,         \* structured drafts that can be submitted
    RequestedPlans, \* plans a request may name, NoPlan included
    LegacyFile,     \* material of the legacy file; NoMaterial if unparsable
    Envelopes,      \* portable envelopes a client may present
    Files,          \* contents of the store file when the host first starts
    MaxLateFaults   \* saves that fail after the rename

(* What Parse makes of a file: the MTU is 1280 when the file does not give *)
(* a positive one.                                                         *)
Parsed(m) ==
  /\ m = [f \in DOMAIN NoMaterial |-> m[f]]
  /\ m.mtu # 0

(* What a client presents was parsed here or exported by a host that had.  *)
(* The first store file, too, is one that a host wrote.                    *)
ASSUME MaterialAssumption ==
  /\ \A m \in ImportFiles : Parsed(m)
  /\ LegacyFile # NoMaterial => Parsed(LegacyFile)
  /\ \A e \in Envelopes : wireGuardProfileComplete(e.material) => Parsed(e.material)
  /\ \A f \in Files : \A i \in DOMAIN f.profiles :
       /\ f.profiles[i] = [kind |-> f.profiles[i].kind, source |-> f.profiles[i].source,
                           material |-> f.profiles[i].material]
       /\ f.profiles[i].material # NoMaterial => Parsed(f.profiles[i].material)
       /\ \A j \in DOMAIN f.profiles :
            f.profiles[i].source = "legacy_path" /\ f.profiles[j].source = "legacy_path"
              => i = j

ASSUME StoreAssumptions ==
  /\ MaxLateFaults \in Nat
  /\ \A e \in Envelopes : e.defect \in EnvelopeDefects \cup {""}

VARIABLES
    up,         \* the host process runs
    profiles,   \* stored records by identifier
    defaults,   \* plan scope -> identifier
    file,       \* content of the store file
    call,       \* what each two-section call carries between its sections
    acked,      \* ghost: the content the last acknowledged call or load left
    lateFaults  \* saves that failed after the rename

vars == <<up, profiles, defaults, file, call, acked, lateFaults>>

Nothing  == [x \in {} |-> x]
Idle     == [op |-> "idle"]
Missing  == [readable |-> FALSE, profiles |-> Nothing, defaults |-> Nothing]
Contents == [profiles |-> Nothing, defaults |-> Nothing]

(* The part of the store that the file keeps and a load takes over. *)
ContentOf(ps, ds) ==
  [profiles |-> [i \in DOMAIN ps |->
                   [kind |-> ps[i].kind, source |-> ps[i].source, material |-> ps[i].material]],
   defaults |-> ds]

FileOf(ps, ds) == [readable |-> TRUE, profiles |-> ContentOf(ps, ds).profiles, defaults |-> ds]

refreshTransportProfileStatuses(ps, ds) ==
  [i \in DOMAIN ps |->
     [kind |-> ps[i].kind, source |-> ps[i].source, material |-> ps[i].material,
      status |-> refreshTransportProfileStatus(i, ps[i].kind, ps[i].material, ds)]]

(* Reading the file: records of an unknown kind are dropped, then the      *)
(* defaults that name no record.  A missing file, a file that does not     *)
(* parse and one of another version all leave the store empty: New logs    *)
(* the error and goes on.                                                  *)
Loaded(f) ==
  LET kept == {i \in DOMAIN f.profiles : f.profiles[i].kind \in KnownKinds}
  IN IF ~f.readable THEN Contents
     ELSE [profiles |-> [i \in kept |-> f.profiles[i]],
           defaults |-> [p \in {q \in DOMAIN f.defaults : f.defaults[q] \in kept}
                           |-> f.defaults[p]]]

loadTransportProfileStore(f) ==
  /\ profiles' = refreshTransportProfileStatuses(Loaded(f).profiles, Loaded(f).defaults)
  /\ defaults' = Loaded(f).defaults
  /\ acked' = Loaded(f)

Init ==
  /\ up = TRUE
  /\ file \in Files
  /\ profiles = refreshTransportProfileStatuses(Loaded(file).profiles, Loaded(file).defaults)
  /\ defaults = Loaded(file).defaults
  /\ call = [c \in Callers |-> Idle]
  /\ acked = Loaded(file)
  /\ lateFaults = 0

-----------------------------------------------------------------------------
(* Saving.  ps and ds are the store as the call changed it; when the save  *)
(* reports an error the call puts the records and the defaults back and    *)
(* refreshes every status.                                                 *)
SaveSucceeds(ps, ds) ==
  /\ profiles' = ps /\ defaults' = ds
  /\ file' = FileOf(ps, ds)
  /\ acked' = ContentOf(ps, ds)
  /\ UNCHANGED lateFaults

RollBack ==
  /\ profiles' = refreshTransportProfileStatuses(profiles, defaults)
  /\ UNCHANGED <<defaults, acked>>

SaveFails ==
  /\ RollBack
  /\ UNCHANGED <<file, lateFaults>>

\* Mutant: the change stays in memory when the save reports an error.
FailedSaveKeepsChange(ps, ds) ==
  /\ profiles' = ps /\ defaults' = ds
  /\ UNCHANGED <<file, acked, lateFaults>>

SaveFailsLate(ps, ds) ==
  /\ lateFaults < MaxLateFaults
  /\ RollBack
  /\ file' = FileOf(ps, ds)
  /\ lateFaults' = lateFaults + 1

persistTransportProfileStore(ps, ds) ==
  SaveSucceeds(ps, ds) \/ SaveFails \/ SaveFailsLate(ps, ds)

(* Storing a parsed profile under an identifier.  A new valid profile, or  *)
(* one stored with a plan to be the default for, takes the defaults; a     *)
(* replaced one keeps the defaults it has.                                 *)
storeParsedTransportProfile(id, material, source, requested, assignDefaults) ==
  LET valid   == transportProfileValidationStatus(WireGuardNativeV1, material) = "valid"
      assigns == valid /\ assignDefaults /\ (requested # NoPlan \/ id \notin DOMAIN profiles)
      taken   == IF ~assigns THEN {}
                 ELSE defaultBindingsForImportedTransportProfile(WireGuardNativeV1,
                                                                 material, requested)
      ds == [p \in DOMAIN defaults \cup taken |-> IF p \in taken THEN id ELSE defaults[p]]
      ps == [i \in DOMAIN profiles \cup {id} |->
               IF i = id
                 THEN [kind |-> WireGuardNativeV1, source |-> source, material |-> material]
                 ELSE [kind |-> profiles[i].kind, source |-> profiles[i].source,
                       material |-> profiles[i].material]]
  IN persistTransportProfileStore(refreshTransportProfileStatuses(ps, ds), ds)

Fresh == ProfileIDs \ DOMAIN profiles

-----------------------------------------------------------------------------
(* Calls of one lock section *)

(* The identifier is fresh, or one the client asks to replace, whether or  *)
(* not it is stored.  A file that does not parse is refused.               *)
ImportTransportProfile(id, material, requested) ==
  /\ up
  /\ wireGuardProfileComplete(material)
  /\ storeParsedTransportProfile(id, material, "import_adapter", requested, TRUE)
  /\ UNCHANGED <<up, call>>

CreateStructuredTransportProfile(id, d) ==
  /\ up
  /\ id \in Fresh
  /\ StructuredDraftValid(d, NoMaterial, FALSE)
  /\ storeParsedTransportProfile(id, normalizeStructuredWireGuardDraft(d, NoMaterial),
                                 "structured", d.defaultFor, TRUE)
  /\ UNCHANGED <<up, call>>

UpdateStructuredTransportProfile(id, d) ==
  /\ up
  /\ id \in DOMAIN profiles
  /\ profiles[id].material # NoMaterial
  /\ StructuredDraftValid(d, profiles[id].material, TRUE)
  /\ storeParsedTransportProfile(id,
        normalizeStructuredWireGuardDraft(d, profiles[id].material),
        "structured", d.defaultFor, TRUE)
  /\ UNCHANGED <<up, call>>

ValidateTransportProfile(id) ==
  /\ up
  /\ id \in DOMAIN profiles
  /\ profiles' = [profiles EXCEPT ![id].status =
                    refreshTransportProfileStatus(id, profiles[id].kind,
                                                  profiles[id].material, defaults)]
  /\ UNCHANGED <<up, defaults, file, call, acked, lateFaults>>

\* Mutant: only the profile that is selected is refreshed, not the one that
\* loses the scope.
SelectRefreshesOne(id, p) ==
  LET ds == [q \in DOMAIN defaults \cup {p} |-> IF q = p THEN id ELSE defaults[q]]
      ps == [profiles EXCEPT ![id].status =
               refreshTransportProfileStatus(id, profiles[id].kind, profiles[id].material, ds)]
  IN /\ up
     /\ id \in DOMAIN profiles
     /\ validateTransportProfileRef(profiles, id, p, requiredTransportProfileKindsForPlan(p))
     /\ SaveSucceeds(ps, ds)
     /\ UNCHANGED <<up, call>>

SelectTransportProfileForStartup(id, p) ==
  LET required == requiredTransportProfileKindsForPlan(p)
      ds == [q \in DOMAIN defaults \cup {p} |-> IF q = p THEN id ELSE defaults[q]]
  IN /\ up
     /\ validateRuntimeExecutionPlan(p)
     /\ id \in DOMAIN profiles
     /\ required # {}
     /\ validateTransportProfileRef(profiles, id, p, required)
     /\ transportProfilePlanAdvertised(profiles[id].kind, p)
     /\ persistTransportProfileStore(refreshTransportProfileStatuses(profiles, ds), ds)
     /\ UNCHANGED <<up, call>>

ForgetTransportProfile(id) ==
  LET ps == [i \in DOMAIN profiles \ {id} |-> profiles[i]]
      ds == [p \in {q \in DOMAIN defaults : defaults[q] # id} |-> defaults[p]]
  IN /\ up
     /\ id \in DOMAIN profiles
     /\ persistTransportProfileStore(refreshTransportProfileStatuses(ps, ds), ds)
     /\ UNCHANGED <<up, call>>

(* Exporting changes nothing; this is what a decrypted export carries. *)
ExportTransportProfilePortable(id) ==
  [defect |-> IF transportProfilePortableExportAvailable(profiles[id].kind,
                   profiles[id].status.validation, profiles[id].material)
                THEN "" ELSE "export_unavailable",
   kind |-> profiles[id].kind, material |-> profiles[id].material]

-----------------------------------------------------------------------------
(* Calls of two lock sections *)

HoldsWireGuard == \E i \in DOMAIN profiles : profiles[i].kind = WireGuardNativeV1

Begin(c, what) ==
  /\ up
  /\ call[c] = Idle
  /\ call' = [call EXCEPT ![c] = what]
  /\ UNCHANGED <<up, profiles, defaults, file, acked, lateFaults>>

End(c) == call' = [call EXCEPT ![c] = Idle] /\ UNCHANGED up

(* A migration reads the legacy file and goes on only if no WireGuard      *)
(* profile is stored; it looks again before it stores one.  A file that    *)
(* does not parse is stored as a record without material, and a failed     *)
(* save of that record only deletes it.                                    *)
MigrateCheck(c) ==
  ~HoldsWireGuard /\ Begin(c, [op |-> "migrate"])

storeInvalidLegacyWireGuardTransportProfile(id) ==
  LET record == [kind |-> WireGuardNativeV1, source |-> "legacy_path", material |-> NoMaterial,
                 status |-> refreshTransportProfileStatus(id, WireGuardNativeV1,
                                                          NoMaterial, defaults)]
      ps == [i \in DOMAIN profiles \cup {id} |-> IF i = id THEN record ELSE profiles[i]]
  IN \/ SaveSucceeds(ps, defaults)
     \/ UNCHANGED <<profiles, defaults, acked, file, lateFaults>>
     \/ /\ lateFaults < MaxLateFaults
        /\ file' = FileOf(ps, defaults)
        /\ lateFaults' = lateFaults + 1
        /\ UNCHANGED <<profiles, defaults, acked>>

\* Mutant: the store is not looked at again under the second lock.
MigrateStoreUnchecked(c) ==
  /\ call[c].op = "migrate"
  /\ End(c)
  /\ \E id \in Fresh :
        storeParsedTransportProfile(id, LegacyFile, "legacy_path", NoPlan, TRUE)

MigrateStore(c) ==
  /\ call[c].op = "migrate"
  /\ End(c)
  /\ IF HoldsWireGuard
       THEN UNCHANGED <<profiles, defaults, file, acked, lateFaults>>
       ELSE \E id \in Fresh :
              IF LegacyFile = NoMaterial
                THEN storeInvalidLegacyWireGuardTransportProfile(id)
                ELSE storeParsedTransportProfile(id, LegacyFile, "legacy_path", NoPlan, TRUE)

(* A portable import resolves its envelope against the store; only an      *)
(* importable one is stored, and it never becomes a default by itself.     *)
(* A preview is the first half alone.                                      *)
ConfirmPortableResolve(c, e) ==
  /\ PortablePreview(profiles, e) = "importable"
  /\ Begin(c, [op |-> "confirm", material |-> e.material])

ConfirmPortableStore(c) ==
  /\ call[c].op = "confirm"
  /\ End(c)
  /\ \E id \in Fresh :
        storeParsedTransportProfile(id, call[c].material, "portable_transfer", NoPlan, FALSE)

-----------------------------------------------------------------------------
(* The process ends at any point and starts again. *)
Crash ==
  /\ up
  /\ up' = FALSE
  /\ profiles' = Nothing /\ defaults' = Nothing
  /\ call' = [c \in Callers |-> Idle]
  /\ UNCHANGED <<file, acked, lateFaults>>

Restart ==
  /\ ~up
  /\ up' = TRUE
  /\ loadTransportProfileStore(file)
  /\ UNCHANGED <<file, call, lateFaults>>

Next ==
  \/ \E id \in ProfileIDs, m \in ImportFiles, p \in RequestedPlans :
        ImportTransportProfile(id, m, p)
  \/ \E id \in ProfileIDs, d \in Drafts : CreateStructuredTransportProfile(id, d)
  \/ \E id \in ProfileIDs, d \in Drafts : UpdateStructuredTransportProfile(id, d)
  \/ \E id \in ProfileIDs : ValidateTransportProfile(id)
  \/ \E id \in ProfileIDs, p \in RequestedPlans : SelectTransportProfileForStartup(id, p)
  \/ \E id \in ProfileIDs : ForgetTransportProfile(id)
  \/ \E c \in Callers : MigrateCheck(c)
  \/ \E c \in Callers : MigrateStore(c)
  \/ \E c \in Callers : \E e \in Envelopes : ConfirmPortableResolve(c, e)
  \/ \E c \in Callers : ConfirmPortableStore(c)
  \/ Crash
  \/ Restart

Spec == Init /\ [][Next]_vars

-----------------------------------------------------------------------------
(* Properties *)

(* The status each record carries (what shells read and what startups      *)
(* check) is the one a refresh would compute now: after a save, after a    *)
(* save that failed and was rolled back, after a load and when another     *)
(* profile took or lost a default.                                         *)
StatusesAreCurrent ==
  profiles = refreshTransportProfileStatuses(profiles, defaults)

(* Memory is what the last acknowledged call left, whatever saves failed   *)
(* since, and a restart would find the same, unless a save failed after    *)
(* its rename.                                                             *)
AcknowledgedIsKept ==
  /\ up => ContentOf(profiles, defaults) = acked
  /\ lateFaults = 0 => Loaded(file) = acked

(* The legacy file becomes at most one profile, however many migrations    *)
(* run at once.                                                            *)
AtMostOneMigrated ==
  Cardinality({i \in DOMAIN profiles : profiles[i].source = "legacy_path"}) <= 1

(* A plan the host reports as supported can be started without naming a    *)
(* profile, and one it reports as unavailable for want of a profile is     *)
(* refused: the report and the startup decide by different code.           *)
ReportedPlansStart ==
  up => \A k \in DOMAIN PlatformTunnels : \A i \in DOMAIN PlatformTunnels[k].plans :
    LET c == PlatformTunnels[k]
        d == c.plans[i]
        attached == attachTransportProfileToStartRequest(profiles, defaults, c.mode,
                                                         d.plan, "", FALSE)
    IN c.available /\ d.support = "supported" =>
         (ReportedSupport(profiles, defaults, d) = "supported" <=> ~attached.ended)

(* Giving back what the store handed out changes nothing.  Saving the      *)
(* draft a shell reads, unchanged, changes no setting and loses no secret, *)
(* although the draft shows none.  The export of a stored profile,         *)
(* presented to the host that holds the profile, is recognised.            *)
ReadBackChangesNothing ==
  \A i \in DOMAIN profiles :
    LET m == profiles[i].material
        d == redactedStructuredDraftForTransportProfile(m)
        e == ExportTransportProfilePortable(i)
    IN /\ m # NoMaterial /\ StructuredDraftValid(d, m, TRUE) =>
            normalizeStructuredWireGuardDraft(d, m) = m
       /\ e.defect = "" =>
            PortablePreview(profiles, e) \in {"already_present", "incompatible_host"}
=============================================================================
