------------------------- MODULE ProfileStoreProofs -------------------------
(***************************************************************************)
(* The safety of the transport profile store for every set of profiles,    *)
(* callers, files, drafts and envelopes.                                   *)
(***************************************************************************)
EXTENDS ProfileStore, FiniteSetTheorems, WellFoundedInduction, TLAPS

-----------------------------------------------------------------------------
(* The invariant *)

Material(m) == m = NoMaterial \/ Parsed(m)

\* The records ps and the defaults ds of a store: every kind is known and no
\* default names a record that is not there.
Sound(ps, ds) ==
  /\ \A i \in DOMAIN ps : ps[i].kind \in KnownKinds /\ Material(ps[i].material)
  /\ ds = [p \in DOMAIN ds |-> ds[p]]
  /\ \A p \in DOMAIN ds : ds[p] \in DOMAIN ps

Current(ps, ds) == ps = refreshTransportProfileStatuses(ps, ds)

OneMigrated(ps) ==
  \A i, j \in DOMAIN ps :
    ps[i].source = "legacy_path" /\ ps[j].source = "legacy_path" => i = j

\* A file may hold records of a kind this host does not know.
FileInv ==
  /\ \A i \in DOMAIN file.profiles :
       /\ file.profiles[i] = [kind |-> file.profiles[i].kind, source |-> file.profiles[i].source,
                              material |-> file.profiles[i].material]
       /\ Material(file.profiles[i].material)
  /\ OneMigrated(file.profiles)

CallsInv ==
  /\ call = [c \in Callers |-> call[c]]
  /\ \A c \in Callers : call[c].op = "confirm" => Material(call[c].material)

StoreInv ==
  /\ Sound(profiles, defaults) /\ Current(profiles, defaults) /\ OneMigrated(profiles)
  /\ FileInv
  /\ CallsInv
  /\ lateFaults \in Nat
  /\ AcknowledgedIsKept

-----------------------------------------------------------------------------
(* Refreshing, writing and reading back *)

\* A refresh touches nothing but the statuses, and a second one not even these.
LEMMA RefreshKeeps ==
  ASSUME NEW ps, NEW ds
  PROVE  /\ DOMAIN refreshTransportProfileStatuses(ps, ds) = DOMAIN ps
         /\ \A i \in DOMAIN ps :
              /\ refreshTransportProfileStatuses(ps, ds)[i].kind = ps[i].kind
              /\ refreshTransportProfileStatuses(ps, ds)[i].source = ps[i].source
              /\ refreshTransportProfileStatuses(ps, ds)[i].material = ps[i].material
         /\ Current(refreshTransportProfileStatuses(ps, ds), ds)
         /\ \A es : ContentOf(refreshTransportProfileStatuses(ps, ds), es) = ContentOf(ps, es)
<1> DEFINE new == refreshTransportProfileStatuses(ps, ds)
<1>1. /\ DOMAIN new = DOMAIN ps
      /\ \A i \in DOMAIN ps : /\ new[i].kind = ps[i].kind
                              /\ new[i].source = ps[i].source
                              /\ new[i].material = ps[i].material
  BY DEF refreshTransportProfileStatuses
<1>2. Current(new, ds)
  <2>1. refreshTransportProfileStatuses(new, ds) =
          [i \in DOMAIN ps |->
             [kind |-> ps[i].kind, source |-> ps[i].source, material |-> ps[i].material,
              status |-> refreshTransportProfileStatus(i, ps[i].kind, ps[i].material, ds)]]
    <3> HIDE DEF new
    <3> QED
      BY <1>1 DEF refreshTransportProfileStatuses
  <2> QED
    BY <2>1 DEF Current, refreshTransportProfileStatuses
<1> HIDE DEF new
<1>3. \A es : ContentOf(new, es) = ContentOf(ps, es)
  BY <1>1 DEF ContentOf
<1> QED
  BY <1>1, <1>2, <1>3 DEF new

\* A sound store is read back as it was written.
LEMMA WrittenIsLoaded ==
  ASSUME NEW ps, NEW ds, Sound(ps, ds)
  PROVE  Loaded(FileOf(ps, ds)) = ContentOf(ps, ds)
<1> DEFINE q == ContentOf(ps, ds).profiles
           f == FileOf(ps, ds)
<1>1. f.readable = TRUE /\ f.profiles = q /\ f.defaults = ds
  BY DEF FileOf
<1>2. /\ q = [i \in DOMAIN q |-> q[i]]
      /\ \A i \in DOMAIN q : q[i].kind \in KnownKinds
      /\ DOMAIN q = DOMAIN ps
  BY DEF ContentOf, Sound
<1>3. ContentOf(ps, ds) = [profiles |-> q, defaults |-> ds]
  BY DEF ContentOf
<1> HIDE DEF f, q
<1>4. {i \in DOMAIN f.profiles : f.profiles[i].kind \in KnownKinds} = DOMAIN q
  BY <1>1, <1>2
<1>5. {p \in DOMAIN f.defaults : f.defaults[p] \in DOMAIN q} = DOMAIN ds
  BY <1>1, <1>2 DEF Sound
<1>6. Loaded(f) = [profiles |-> [i \in DOMAIN q |-> q[i]], defaults |-> [p \in DOMAIN ds |-> ds[p]]]
  BY <1>1, <1>4, <1>5 DEF Loaded
<1> QED
  BY <1>2, <1>3, <1>6 DEF Sound, f

\* What is written is a file as FileInv wants it.
LEMMA WrittenIsWellFormed ==
  ASSUME NEW ps, NEW ds, Sound(ps, ds), OneMigrated(ps), file' = FileOf(ps, ds)
  PROVE  FileInv'
BY DEF FileInv, FileOf, ContentOf, Sound, OneMigrated

\* What is loaded is a sound store.
LEMMA LoadedIsSound ==
  ASSUME FileInv
  PROVE  /\ Sound(Loaded(file).profiles, Loaded(file).defaults)
         /\ OneMigrated(Loaded(file).profiles)
         /\ ContentOf(Loaded(file).profiles, Loaded(file).defaults) = Loaded(file)
<1> DEFINE l == Loaded(file)
<1>1. CASE ~file.readable
  <2>1. /\ l = [profiles |-> Nothing, defaults |-> Nothing]
        /\ DOMAIN Nothing = {} /\ Nothing = [x \in {} |-> Nothing[x]]
    BY <1>1 DEF Loaded, Contents, Nothing
  <2>2. Sound(l.profiles, l.defaults) /\ OneMigrated(l.profiles)
    BY <2>1 DEF Sound, OneMigrated
  <2>3. ContentOf(Nothing, Nothing) = [profiles |-> Nothing, defaults |-> Nothing]
    BY <2>1 DEF ContentOf, Nothing
  <2> QED
    BY <2>1, <2>2, <2>3
<1>2. CASE file.readable
  <2> DEFINE kept == {i \in DOMAIN file.profiles : file.profiles[i].kind \in KnownKinds}
             ps == [i \in kept |-> file.profiles[i]]
             ds == [p \in {q \in DOMAIN file.defaults : file.defaults[q] \in kept}
                      |-> file.defaults[p]]
  <2>1. l = [profiles |-> ps, defaults |-> ds]
    BY <1>2 DEF Loaded
  <2>2. /\ DOMAIN ps = kept /\ kept \subseteq DOMAIN file.profiles
        /\ \A i \in kept : ps[i] = file.profiles[i]
    OBVIOUS
  <2>3. Sound(ps, ds) /\ OneMigrated(ps)
    BY <2>2 DEF Sound, OneMigrated, FileInv
  <2>4. ContentOf(ps, ds) = [profiles |-> ps, defaults |-> ds]
    <3>1. \A i \in kept : ps[i] = [kind |-> ps[i].kind, source |-> ps[i].source,
                                   material |-> ps[i].material]
      BY <2>2 DEF FileInv
    <3> QED
      BY <2>2, <3>1 DEF ContentOf
  <2> QED
    BY <2>1, <2>3, <2>4
<1> QED
  BY <1>1, <1>2

-----------------------------------------------------------------------------
(* The calls *)

\* A save of a store that is sound and current, whether it succeeds, fails or
\* fails after the rename.
LEMMA SaveKeeps ==
  ASSUME StoreInv, NEW ps, NEW ds, Sound(ps, ds), Current(ps, ds), OneMigrated(ps),
         persistTransportProfileStore(ps, ds), up' = up, CallsInv'
  PROVE  StoreInv'
<1>1. CASE SaveSucceeds(ps, ds)
  <2>1. /\ profiles' = ps /\ defaults' = ds /\ file' = FileOf(ps, ds)
        /\ acked' = ContentOf(ps, ds) /\ lateFaults' = lateFaults
    BY <1>1 DEF SaveSucceeds
  <2>2. FileInv'
    BY <2>1, WrittenIsWellFormed
  <2>3. AcknowledgedIsKept'
    BY <2>1, WrittenIsLoaded DEF AcknowledgedIsKept
  <2> QED
    BY <2>1, <2>2, <2>3 DEF StoreInv
<1>2. ASSUME RollBack
      PROVE  /\ profiles' = profiles /\ defaults' = defaults /\ acked' = acked
             /\ up' => ContentOf(profiles', defaults') = acked'
  BY <1>2 DEF RollBack, StoreInv, Current, AcknowledgedIsKept
<1>3. CASE SaveFails
  <2>1. UNCHANGED <<profiles, defaults, acked, file, lateFaults>>
    BY <1>2, <1>3 DEF SaveFails
  <2>2. FileInv' /\ AcknowledgedIsKept'
    BY <2>1 DEF StoreInv, FileInv, AcknowledgedIsKept
  <2> QED
    BY <2>1, <2>2 DEF StoreInv
<1>4. CASE SaveFailsLate(ps, ds)
  <2>1. UNCHANGED <<profiles, defaults, acked>> /\ file' = FileOf(ps, ds)
    BY <1>2, <1>4 DEF SaveFailsLate
  <2>2. FileInv'
    BY <2>1, WrittenIsWellFormed
  <2>3. lateFaults' # 0 /\ lateFaults' \in Nat
    BY <1>4 DEF SaveFailsLate, StoreInv
  <2>4. AcknowledgedIsKept'
    BY <1>2, <1>4, <2>3 DEF AcknowledgedIsKept, SaveFailsLate
  <2> QED
    BY <2>1, <2>2, <2>3, <2>4 DEF StoreInv
<1> QED
  BY <1>1, <1>3, <1>4 DEF persistTransportProfileStore

\* A save of a sound store whose statuses are refreshed first.
LEMMA RefreshedSaveKeeps ==
  ASSUME StoreInv, NEW ps, NEW ds, Sound(ps, ds), OneMigrated(ps),
         persistTransportProfileStore(refreshTransportProfileStatuses(ps, ds), ds),
         up' = up, CallsInv'
  PROVE  StoreInv'
<1> DEFINE new == refreshTransportProfileStatuses(ps, ds)
<1>1. /\ DOMAIN new = DOMAIN ps
      /\ \A i \in DOMAIN ps : /\ new[i].kind = ps[i].kind
                              /\ new[i].source = ps[i].source
                              /\ new[i].material = ps[i].material
      /\ Current(new, ds)
  BY RefreshKeeps
<1> HIDE DEF new
<1>2. Sound(new, ds) /\ OneMigrated(new)
  BY <1>1 DEF Sound, OneMigrated
<1>3. persistTransportProfileStore(new, ds)
  BY DEF new
<1> QED
  BY <1>1, <1>2, <1>3, SaveKeeps

\* storeParsedTransportProfile, for a profile that was not migrated or that
\* comes to an empty store.
LEMMA StoreKeeps ==
  ASSUME StoreInv, NEW id, NEW material, Material(material), NEW source, NEW requested,
         NEW assign, source = "legacy_path" => DOMAIN profiles = {},
         storeParsedTransportProfile(id, material, source, requested, assign),
         up' = up, CallsInv'
  PROVE  StoreInv'
<1> DEFINE valid   == transportProfileValidationStatus(WireGuardNativeV1, material) = "valid"
           assigns == valid /\ assign /\ (requested # NoPlan \/ id \notin DOMAIN profiles)
           taken   == IF ~assigns THEN {}
                      ELSE defaultBindingsForImportedTransportProfile(WireGuardNativeV1,
                                                                      material, requested)
           ds == [p \in DOMAIN defaults \cup taken |-> IF p \in taken THEN id ELSE defaults[p]]
           ps == [i \in DOMAIN profiles \cup {id} |->
                    IF i = id
                      THEN [kind |-> WireGuardNativeV1, source |-> source, material |-> material]
                      ELSE [kind |-> profiles[i].kind, source |-> profiles[i].source,
                            material |-> profiles[i].material]]
<1>1. persistTransportProfileStore(refreshTransportProfileStatuses(ps, ds), ds)
  BY DEF storeParsedTransportProfile
<1> HIDE DEF taken
<1>2. Sound(profiles, defaults) /\ OneMigrated(profiles)
  BY DEF StoreInv
<1>3. DOMAIN ps = DOMAIN profiles \cup {id} /\ DOMAIN ds = DOMAIN defaults \cup taken
  OBVIOUS
<1>4. /\ ps[id].kind = WireGuardNativeV1 /\ ps[id].source = source /\ ps[id].material = material
      /\ \A i \in DOMAIN profiles : i # id => /\ ps[i].kind = profiles[i].kind
                                             /\ ps[i].source = profiles[i].source
                                             /\ ps[i].material = profiles[i].material
  OBVIOUS
<1>5. /\ ds = [p \in DOMAIN ds |-> ds[p]]
      /\ \A p \in DOMAIN ds : ds[p] = id \/ (p \in DOMAIN defaults /\ ds[p] = defaults[p])
  OBVIOUS
<1> HIDE DEF ps, ds
<1>6. Sound(ps, ds)
  BY <1>2, <1>3, <1>4, <1>5 DEF Sound, KnownKinds
<1>7. OneMigrated(ps)
  BY <1>2, <1>3, <1>4 DEF OneMigrated
<1> QED
  BY <1>1, <1>6, <1>7, RefreshedSaveKeeps

\* What a draft becomes is a material as Parse makes them.
LEMMA DraftIsParsed ==
  ASSUME NEW d, NEW existing
  PROVE  Parsed(normalizeStructuredWireGuardDraft(d, existing))
<1> DEFINE m == normalizeStructuredWireGuardDraft(d, existing)
           F == DOMAIN NoMaterial
<1>1. "mtu" \in F
  BY DEF NoMaterial
<1> HIDE DEF F
<1>2. m = [f \in F |-> m[f]] /\ m.mtu = StructuredMTU(d)
  BY <1>1 DEF normalizeStructuredWireGuardDraft, F
<1>3. StructuredMTU(d) # 0
  <2> DEFINE x == StructuredField(d, "mtu")
  <2>1. StructuredMTU(d) = IF x = 0 THEN 1280 ELSE x
    BY DEF StructuredMTU
  <2> HIDE DEF x
  <2> QED
    BY <2>1
<1> HIDE DEF m
<1>4. m.mtu # 0
  BY <1>2, <1>3
<1> QED
  BY <1>2, <1>4 DEF Parsed, m, F


\* A call of one lock section that stores a profile.
LEMMA StoringCallsKeep ==
  ASSUME StoreInv, NEW id \in ProfileIDs,
         \/ \E m \in ImportFiles, p \in RequestedPlans : ImportTransportProfile(id, m, p)
         \/ \E d \in Drafts : CreateStructuredTransportProfile(id, d)
         \/ \E d \in Drafts : UpdateStructuredTransportProfile(id, d)
  PROVE  StoreInv'
<1>1. ASSUME NEW m \in ImportFiles, NEW p \in RequestedPlans, ImportTransportProfile(id, m, p)
      PROVE  StoreInv'
  <2>1. /\ storeParsedTransportProfile(id, m, "import_adapter", p, TRUE)
        /\ up' = up /\ call' = call
    BY <1>1 DEF ImportTransportProfile
  <2>2. Material(m) /\ CallsInv'
    BY <2>1, MaterialAssumption DEF Material, StoreInv, CallsInv
  <2> QED
    BY <2>1, <2>2, StoreKeeps
<1>2. ASSUME NEW d \in Drafts, CreateStructuredTransportProfile(id, d)
      PROVE  StoreInv'
  <2> DEFINE m == normalizeStructuredWireGuardDraft(d, NoMaterial)
  <2>1. /\ storeParsedTransportProfile(id, m, "structured", d.defaultFor, TRUE)
        /\ up' = up /\ call' = call
    BY <1>2 DEF CreateStructuredTransportProfile
  <2>2. Material(m)
    BY DraftIsParsed DEF Material
  <2>3. CallsInv'
    BY <2>1 DEF StoreInv, CallsInv
  <2> HIDE DEF m
  <2> QED
    BY <2>1, <2>2, <2>3, StoreKeeps
<1>3. ASSUME NEW d \in Drafts, UpdateStructuredTransportProfile(id, d)
      PROVE  StoreInv'
  <2> DEFINE m == normalizeStructuredWireGuardDraft(d, profiles[id].material)
  <2>1. /\ storeParsedTransportProfile(id, m, "structured", d.defaultFor, TRUE)
        /\ up' = up /\ call' = call
    BY <1>3 DEF UpdateStructuredTransportProfile
  <2>2. Material(m)
    BY DraftIsParsed DEF Material
  <2>3. CallsInv'
    BY <2>1 DEF StoreInv, CallsInv
  <2> HIDE DEF m
  <2> QED
    BY <2>1, <2>2, <2>3, StoreKeeps
<1> QED
  BY <1>1, <1>2, <1>3

\* A validation finds the status current: it writes what is there.
LEMMA ValidateKeeps ==
  ASSUME StoreInv, NEW id, ValidateTransportProfile(id)
  PROVE  UNCHANGED vars
<1> DEFINE s == refreshTransportProfileStatus(id, profiles[id].kind, profiles[id].material, defaults)
<1>1. id \in DOMAIN profiles /\ profiles' = [profiles EXCEPT ![id].status = s]
  BY DEF ValidateTransportProfile
<1>2. /\ profiles = [i \in DOMAIN profiles |-> profiles[i]]
      /\ \A i \in DOMAIN profiles :
           profiles[i] = [kind |-> profiles[i].kind, source |-> profiles[i].source,
                          material |-> profiles[i].material,
                          status |-> refreshTransportProfileStatus(i, profiles[i].kind,
                                                         profiles[i].material, defaults)]
  BY DEF StoreInv, Current, refreshTransportProfileStatuses
<1>3. profiles[id].status = s /\ [profiles[id] EXCEPT !.status = s] = profiles[id]
  BY <1>1, <1>2
<1> HIDE DEF s
<1>4. profiles' = profiles
  BY <1>1, <1>2, <1>3
<1> QED
  BY <1>4 DEF ValidateTransportProfile, vars

LEMMA SelectKeeps ==
  ASSUME StoreInv, NEW id, NEW p, SelectTransportProfileForStartup(id, p)
  PROVE  StoreInv'
<1> DEFINE ds == [q \in DOMAIN defaults \cup {p} |-> IF q = p THEN id ELSE defaults[q]]
<1>1. /\ id \in DOMAIN profiles /\ up' = up /\ call' = call
      /\ persistTransportProfileStore(refreshTransportProfileStatuses(profiles, ds), ds)
  BY DEF SelectTransportProfileForStartup
<1>2. Sound(profiles, ds) /\ OneMigrated(profiles)
  BY <1>1 DEF StoreInv, Sound
<1>3. CallsInv'
  BY <1>1 DEF StoreInv, CallsInv
<1> HIDE DEF ds
<1> QED
  BY <1>1, <1>2, <1>3, RefreshedSaveKeeps

LEMMA ForgetKeeps ==
  ASSUME StoreInv, NEW id, ForgetTransportProfile(id)
  PROVE  StoreInv'
<1> DEFINE ps == [i \in DOMAIN profiles \ {id} |-> profiles[i]]
           ds == [p \in {q \in DOMAIN defaults : defaults[q] # id} |-> defaults[p]]
<1>1. /\ up' = up /\ call' = call
      /\ persistTransportProfileStore(refreshTransportProfileStatuses(ps, ds), ds)
  BY DEF ForgetTransportProfile
<1>2. Sound(ps, ds) /\ OneMigrated(ps)
  BY DEF StoreInv, Sound, OneMigrated
<1>3. CallsInv'
  BY <1>1 DEF StoreInv, CallsInv
<1> HIDE DEF ps, ds
<1> QED
  BY <1>1, <1>2, <1>3, RefreshedSaveKeeps


-----------------------------------------------------------------------------
(* Calls of two lock sections, a crash and a restart *)

LEMMA EndKeeps ==
  ASSUME CallsInv, NEW c \in Callers, End(c)
  PROVE  CallsInv' /\ up' = up
BY DEF CallsInv, End, Idle

\* The first sections only note what the call carries.
LEMMA BeginKeeps ==
  ASSUME StoreInv, NEW c \in Callers, NEW what,
         what.op = "confirm" => Material(what.material), Begin(c, what)
  PROVE  StoreInv'
<1>1. /\ UNCHANGED <<up, profiles, defaults, file, acked, lateFaults>>
      /\ call' = [call EXCEPT ![c] = what]
  BY DEF Begin
<1>2. CallsInv'
  BY <1>1 DEF StoreInv, CallsInv
<1>3. FileInv' /\ AcknowledgedIsKept'
  BY <1>1 DEF StoreInv, FileInv, AcknowledgedIsKept
<1> QED
  BY <1>1, <1>2, <1>3 DEF StoreInv

\* A portable import carries the material of a complete envelope.
LEMMA ResolveKeeps ==
  ASSUME StoreInv, NEW c \in Callers, NEW e \in Envelopes, ConfirmPortableResolve(c, e)
  PROVE  StoreInv'
<1> DEFINE what == [op |-> "confirm", material |-> e.material]
<1>1. wireGuardProfileComplete(e.material)
  <2>1. PortablePreview(profiles, e) = "importable"
    BY DEF ConfirmPortableResolve
  <2>2. e.defect \in EnvelopeDefects \cup {""}
    BY StoreAssumptions
  <2> QED
    BY <2>1, <2>2 DEF PortablePreview, EnvelopeDefects
<1>2. Material(what.material)
  BY <1>1, MaterialAssumption DEF Material
<1>3. Begin(c, what)
  BY DEF ConfirmPortableResolve
<1> HIDE DEF what
<1> QED
  BY <1>2, <1>3, BeginKeeps

\* A store without a WireGuard profile is empty: there is no other kind.
LEMMA NoWireGuardIsEmpty ==
  ASSUME Sound(profiles, defaults), ~HoldsWireGuard
  PROVE  DOMAIN profiles = {}
BY DEF Sound, HoldsWireGuard, KnownKinds

\* The record of a legacy file that does not parse.
LEMMA InvalidLegacyKeeps ==
  ASSUME StoreInv, DOMAIN profiles = {}, NEW id,
         storeInvalidLegacyWireGuardTransportProfile(id), up' = up, CallsInv'
  PROVE  StoreInv'
<1> DEFINE s == refreshTransportProfileStatus(id, WireGuardNativeV1, NoMaterial, defaults)
           record == [kind |-> WireGuardNativeV1, source |-> "legacy_path",
                      material |-> NoMaterial, status |-> s]
           ps == [i \in DOMAIN profiles \cup {id} |-> IF i = id THEN record ELSE profiles[i]]
<1>1. \/ SaveSucceeds(ps, defaults)
      \/ UNCHANGED <<profiles, defaults, acked, file, lateFaults>>
      \/ /\ lateFaults < MaxLateFaults
         /\ file' = FileOf(ps, defaults)
         /\ lateFaults' = lateFaults + 1
         /\ UNCHANGED <<profiles, defaults, acked>>
  BY DEF storeInvalidLegacyWireGuardTransportProfile
<1>2. DOMAIN ps = {id} /\ ps = [i \in {id} |-> record]
  OBVIOUS
<1>3. /\ record.kind = WireGuardNativeV1 /\ record.source = "legacy_path"
      /\ record.material = NoMaterial
  OBVIOUS
<1>4. Current(ps, defaults)
  BY <1>2, <1>3 DEF Current, refreshTransportProfileStatuses
<1> HIDE DEF record, ps
<1>5. Sound(ps, defaults) /\ OneMigrated(ps)
  BY <1>2, <1>3 DEF StoreInv, Sound, OneMigrated, KnownKinds, Material
<1>6. UNCHANGED <<profiles, defaults, acked>> => RollBack
  BY DEF StoreInv, Current, RollBack
<1>7. persistTransportProfileStore(ps, defaults)
  BY <1>1, <1>6 DEF persistTransportProfileStore, SaveFails, SaveFailsLate
<1> QED
  BY <1>4, <1>5, <1>7, SaveKeeps

LEMMA MigrateStoreKeeps ==
  ASSUME StoreInv, NEW c \in Callers, MigrateStore(c)
  PROVE  StoreInv'
<1>1. CallsInv' /\ up' = up
  BY EndKeeps DEF MigrateStore, StoreInv
<1>2. CASE HoldsWireGuard
  <2>1. UNCHANGED <<profiles, defaults, file, acked, lateFaults>>
    BY <1>2 DEF MigrateStore
  <2>2. FileInv' /\ AcknowledgedIsKept'
    BY <1>1, <2>1 DEF StoreInv, FileInv, AcknowledgedIsKept
  <2> QED
    BY <1>1, <2>1, <2>2 DEF StoreInv
<1>3. CASE ~HoldsWireGuard
  <2>1. DOMAIN profiles = {}
    BY <1>3, NoWireGuardIsEmpty DEF StoreInv
  <2>2. PICK id \in Fresh :
          IF LegacyFile = NoMaterial
            THEN storeInvalidLegacyWireGuardTransportProfile(id)
            ELSE storeParsedTransportProfile(id, LegacyFile, "legacy_path", NoPlan, TRUE)
    BY <1>3 DEF MigrateStore
  <2>3. CASE LegacyFile = NoMaterial
    BY <1>1, <2>1, <2>2, <2>3, InvalidLegacyKeeps
  <2>4. CASE LegacyFile # NoMaterial
    <3>1. Material(LegacyFile)
      BY <2>4, MaterialAssumption DEF Material
    <3> QED
      BY <1>1, <2>1, <2>2, <2>4, <3>1, StoreKeeps
  <2> QED
    BY <2>3, <2>4
<1> QED
  BY <1>2, <1>3

LEMMA ConfirmStoreKeeps ==
  ASSUME StoreInv, NEW c \in Callers, ConfirmPortableStore(c)
  PROVE  StoreInv'
<1>1. CallsInv' /\ up' = up
  BY EndKeeps DEF ConfirmPortableStore, StoreInv
<1> DEFINE m == call[c].material
<1>2. Material(m)
  BY DEF ConfirmPortableStore, StoreInv, CallsInv
<1>3. PICK id \in Fresh :
        storeParsedTransportProfile(id, m, "portable_transfer", NoPlan, FALSE)
  BY DEF ConfirmPortableStore
<1> HIDE DEF m
<1> QED
  BY <1>1, <1>2, <1>3, StoreKeeps

LEMMA NothingIsSound ==
  /\ Sound(Nothing, Nothing) /\ Current(Nothing, Nothing) /\ OneMigrated(Nothing)
<1>1. DOMAIN Nothing = {} /\ Nothing = [p \in DOMAIN Nothing |-> Nothing[p]]
  BY DEF Nothing
<1>2. Current(Nothing, Nothing)
  BY DEF Current, Nothing, refreshTransportProfileStatuses
<1> QED
  BY <1>1, <1>2 DEF Sound, OneMigrated

LEMMA CrashKeeps ==
  ASSUME StoreInv, Crash
  PROVE  StoreInv'
<1>1. /\ up' = FALSE /\ profiles' = Nothing /\ defaults' = Nothing
      /\ call' = [c \in Callers |-> Idle]
      /\ UNCHANGED <<file, acked, lateFaults>>
  BY DEF Crash
<1>2. (/\ Sound(profiles, defaults) /\ Current(profiles, defaults) /\ OneMigrated(profiles))'
  BY <1>1, NothingIsSound
<1>3. CallsInv'
  BY <1>1 DEF CallsInv, Idle
<1>4. FileInv' /\ AcknowledgedIsKept'
  BY <1>1 DEF StoreInv, FileInv, AcknowledgedIsKept
<1> QED
  BY <1>1, <1>2, <1>3, <1>4 DEF StoreInv

\* What a start of the host makes of its file.
LEMMA LoadKeeps ==
  ASSUME FileInv, NEW ps, NEW ds, ds = Loaded(file).defaults,
         ps = refreshTransportProfileStatuses(Loaded(file).profiles, Loaded(file).defaults)
  PROVE  /\ Sound(ps, ds) /\ Current(ps, ds) /\ OneMigrated(ps)
         /\ ContentOf(ps, ds) = Loaded(file)
<1> DEFINE old == Loaded(file).profiles
<1>1. /\ DOMAIN ps = DOMAIN old
      /\ \A i \in DOMAIN old : /\ ps[i].kind = old[i].kind
                               /\ ps[i].source = old[i].source
                               /\ ps[i].material = old[i].material
      /\ Current(ps, ds)
      /\ ContentOf(ps, ds) = ContentOf(old, ds)
  BY RefreshKeeps
<1>2. Sound(old, ds) /\ OneMigrated(old) /\ ContentOf(old, ds) = Loaded(file)
  BY LoadedIsSound
<1> HIDE DEF old
<1>3. Sound(ps, ds) /\ OneMigrated(ps)
  BY <1>1, <1>2 DEF Sound, OneMigrated
<1> QED
  BY <1>1, <1>2, <1>3

LEMMA RestartKeeps ==
  ASSUME StoreInv, Restart
  PROVE  StoreInv'
<1>1. /\ defaults' = Loaded(file).defaults
      /\ profiles' = refreshTransportProfileStatuses(Loaded(file).profiles,
                                                     Loaded(file).defaults)
      /\ acked' = Loaded(file)
      /\ UNCHANGED <<file, call, lateFaults>>
  BY DEF Restart, loadTransportProfileStore
<1>2. /\ Sound(profiles', defaults') /\ Current(profiles', defaults') /\ OneMigrated(profiles')
      /\ ContentOf(profiles', defaults') = Loaded(file)
  BY <1>1, LoadKeeps DEF StoreInv
<1>3. AcknowledgedIsKept'
  BY <1>1, <1>2 DEF AcknowledgedIsKept
<1>4. FileInv' /\ CallsInv' /\ (lateFaults \in Nat)'
  BY <1>1 DEF StoreInv, FileInv, CallsInv
<1> QED
  BY <1>2, <1>3, <1>4 DEF StoreInv

LEMMA StoreInit == Init => StoreInv
<1> SUFFICES ASSUME Init PROVE StoreInv
  OBVIOUS
<1>1. FileInv
  BY MaterialAssumption DEF Init, FileInv, Material, OneMigrated
<1>2. /\ Sound(profiles, defaults) /\ Current(profiles, defaults) /\ OneMigrated(profiles)
      /\ ContentOf(profiles, defaults) = Loaded(file)
  BY <1>1, LoadKeeps DEF Init
<1>3. AcknowledgedIsKept
  BY <1>2 DEF Init, AcknowledgedIsKept
<1>4. CallsInv /\ lateFaults \in Nat
  BY DEF Init, CallsInv, Idle
<1> QED
  BY <1>1, <1>2, <1>3, <1>4 DEF StoreInv

LEMMA StoreNext == StoreInv /\ [Next]_vars => StoreInv'
<1> SUFFICES ASSUME StoreInv, [Next]_vars PROVE StoreInv'
  OBVIOUS
<1>1. ASSUME UNCHANGED vars PROVE StoreInv'
  BY <1>1 DEF vars, StoreInv, FileInv, CallsInv, AcknowledgedIsKept
<1>2. ASSUME NEW id, ValidateTransportProfile(id) PROVE StoreInv'
  BY <1>1, <1>2, ValidateKeeps
<1>3. ASSUME NEW c \in Callers, MigrateCheck(c) PROVE StoreInv'
  BY <1>3, BeginKeeps DEF MigrateCheck
<1> QED
  BY <1>1, <1>2, <1>3, StoringCallsKeep, SelectKeeps, ForgetKeeps, MigrateStoreKeeps,
     ResolveKeeps, ConfirmStoreKeeps, CrashKeeps, RestartKeeps DEF Next

\* The invariant of the store.
THEOREM StoreInvHolds == Spec => []StoreInv
BY StoreInit, StoreNext, PTL DEF Spec


-----------------------------------------------------------------------------
(* Reading back *)

\* What the draft of a read carries: every setting but the secrets, and a
\* preserve action for each secret there is.
LEMMA ReadDraft ==
  ASSUME NEW m, NEW f \in DOMAIN NoMaterial
  PROVE  LET d == redactedStructuredDraftForTransportProfile(m)
         IN /\ f \notin SecretFields => StructuredField(d, f) = m[f]
            /\ f \in SecretFields => /\ StructuredField(d, f) = NoMaterial[f]
                                     /\ m[f] # "" => SecretActionForField(d, f) = "preserve_existing"
                                     /\ m[f] = "" => SecretActionForField(d, f) = ""
<1> DEFINE d == redactedStructuredDraftForTransportProfile(m)
           F == DOMAIN NoMaterial
           shown == {g \in F \ SecretFields : m[g] # NoMaterial[g]}
           kept == {g \in SecretFields : m[g] # ""}
<1>1. /\ d.mistyped = {}
      /\ d.fields = [g \in shown |-> m[g]]
      /\ d.legacy = [g \in F \ SecretFields |-> m[g]]
      /\ d.actions = [g \in kept |-> "preserve_existing"]
  BY DEF redactedStructuredDraftForTransportProfile
<1> HIDE DEF d, F
<1>2. /\ DOMAIN d.fields = shown /\ DOMAIN d.legacy = F \ SecretFields
      /\ DOMAIN d.actions = kept /\ f \in F
  BY <1>1 DEF F
<1>3. ASSUME f \notin SecretFields PROVE StructuredField(d, f) = m[f]
  <2>1. CASE f \in shown
    BY <1>1, <1>2, <2>1 DEF StructuredField
  <2>2. CASE f \notin shown
    BY <1>1, <1>2, <1>3, <2>2 DEF StructuredField
  <2> QED
    BY <2>1, <2>2
<1>4. ASSUME f \in SecretFields
      PROVE  /\ StructuredField(d, f) = NoMaterial[f]
             /\ m[f] # "" => SecretActionForField(d, f) = "preserve_existing"
             /\ m[f] = "" => SecretActionForField(d, f) = ""
  BY <1>1, <1>2, <1>4 DEF StructuredField, SecretActionForField
<1> QED
  BY <1>3, <1>4 DEF d

\* Saving the draft of a read gives the material back.
LEMMA SavedDraftIsMaterial ==
  ASSUME NEW m, Parsed(m)
  PROVE  normalizeStructuredWireGuardDraft(redactedStructuredDraftForTransportProfile(m), m) = m
<1> DEFINE d == redactedStructuredDraftForTransportProfile(m)
           F == DOMAIN NoMaterial
<1>1. /\ "key" \in F /\ "psk" \in F /\ "mtu" \in F /\ "mtu" \notin SecretFields
      /\ NoMaterial["key"] = "" /\ NoMaterial["psk"] = ""
      /\ "key" \in SecretFields /\ "psk" \in SecretFields
      /\ \A f \in F : f # "key" /\ f # "psk" => f \notin SecretFields
  BY DEF NoMaterial, SecretFields
<1>2. \A f \in F :
        /\ f \notin SecretFields => StructuredField(d, f) = m[f]
        /\ f \in SecretFields => /\ StructuredField(d, f) = NoMaterial[f]
                                 /\ m[f] # "" => SecretActionForField(d, f) = "preserve_existing"
                                 /\ m[f] = "" => SecretActionForField(d, f) = ""
  BY ReadDraft
<1>3. m = [f \in F |-> m[f]] /\ m["mtu"] # 0
  BY DEF Parsed
<1> HIDE DEF d, F
<1>4. normalizeStructuredPrivateKey(d, m) = m["key"]
  BY <1>1, <1>2 DEF normalizeStructuredPrivateKey
<1>5. normalizeStructuredPresharedKey(d, m) = m["psk"]
  BY <1>1, <1>2 DEF normalizeStructuredPresharedKey
<1>6. StructuredMTU(d) = m["mtu"]
  <2>1. StructuredField(d, "mtu") = m["mtu"]
    BY <1>1, <1>2
  <2> QED
    BY <2>1, <1>3 DEF StructuredMTU
<1>7. normalizeStructuredWireGuardDraft(d, m) = [f \in F |-> m[f]]
  BY <1>1, <1>2, <1>4, <1>5, <1>6 DEF normalizeStructuredWireGuardDraft, F
<1> QED
  BY <1>3, <1>7 DEF d

\* The host that holds a profile recognises its export.
LEMMA ExportIsRecognised ==
  ASSUME Sound(profiles, defaults), NEW i \in DOMAIN profiles,
         ExportTransportProfilePortable(i).defect = ""
  PROVE  PortablePreview(profiles, ExportTransportProfilePortable(i))
           \in {"already_present", "incompatible_host"}
<1> DEFINE e == ExportTransportProfilePortable(i)
<1>1. /\ e.defect = "" /\ e.kind = profiles[i].kind /\ e.material = profiles[i].material
      /\ wireGuardProfileComplete(e.material)
  BY DEF ExportTransportProfilePortable, transportProfilePortableExportAvailable
<1>2. e.kind \in KnownKinds
  BY <1>1 DEF Sound
<1> HIDE DEF e
<1>3. PortablePreview(profiles, e) \in {"already_present", "incompatible_host"}
  BY <1>1, <1>2 DEF PortablePreview
<1> QED
  BY <1>3 DEF e

-----------------------------------------------------------------------------
(* The properties of the run *)

\* Whatever calls, failed saves, crashes and restarts came before, the status
\* each record shows is the one a refresh would compute now.
THEOREM StatusesAreCurrentHolds == Spec => []StatusesAreCurrent
<1>1. StoreInv => StatusesAreCurrent
  BY DEF StoreInv, Current, StatusesAreCurrent
<1> QED
  BY <1>1, StoreInvHolds, PTL

\* Memory is what the last acknowledged call left, and so is what a restart
\* would read, unless a save failed after its rename.
THEOREM AcknowledgedIsKeptHolds == Spec => []AcknowledgedIsKept
<1>1. StoreInv => AcknowledgedIsKept
  BY DEF StoreInv
<1> QED
  BY <1>1, StoreInvHolds, PTL

\* However many migrations run at once and however they fail, the legacy file
\* becomes at most one profile.
THEOREM AtMostOneMigratedHolds == Spec => []AtMostOneMigrated
<1>1. ASSUME OneMigrated(profiles) PROVE AtMostOneMigrated
  <2> DEFINE S == {i \in DOMAIN profiles : profiles[i].source = "legacy_path"}
  <2>1. CASE S = {}
    <3>1. Cardinality(S) = 0
      BY <2>1, FS_EmptySet
    <3> QED
      BY <3>1 DEF AtMostOneMigrated
  <2>2. CASE S # {}
    <3>1. PICK i : i \in S
      BY <2>2
    <3>2. S = {i}
      BY <1>1, <3>1 DEF OneMigrated
    <3>3. Cardinality(S) = 1
      BY <3>2, FS_Singleton
    <3> QED
      BY <3>3 DEF AtMostOneMigrated
  <2> QED
    BY <2>1, <2>2
<1>2. StoreInv => AtMostOneMigrated
  BY <1>1 DEF StoreInv
<1> QED
  BY <1>2, StoreInvHolds, PTL

\* Saving an unedited read changes no setting and loses no secret, and an
\* export presented to its own host is recognised.
THEOREM ReadBackChangesNothingHolds == Spec => []ReadBackChangesNothing
<1>1. ASSUME StoreInv PROVE ReadBackChangesNothing
  <2> SUFFICES ASSUME NEW i \in DOMAIN profiles
               PROVE  LET m == profiles[i].material
                          d == redactedStructuredDraftForTransportProfile(m)
                          e == ExportTransportProfilePortable(i)
                      IN /\ m # NoMaterial => normalizeStructuredWireGuardDraft(d, m) = m
                         /\ e.defect = "" => PortablePreview(profiles, e)
                                               \in {"already_present", "incompatible_host"}
    BY DEF ReadBackChangesNothing
  <2> DEFINE m == profiles[i].material
  <2>1. m # NoMaterial => Parsed(m)
    BY <1>1 DEF StoreInv, Sound, Material
  <2>2. m # NoMaterial =>
          normalizeStructuredWireGuardDraft(redactedStructuredDraftForTransportProfile(m), m) = m
    <3> HIDE DEF m
    <3> QED
      BY <2>1, SavedDraftIsMaterial
  <2>3. Sound(profiles, defaults)
    BY <1>1 DEF StoreInv
  <2> QED
    BY <2>2, <2>3, ExportIsRecognised
<1> QED
  BY <1>1, StoreInvHolds, PTL


-----------------------------------------------------------------------------
(* What is reported and what a start does *)

\* A set of numbers that is not empty has a least one.
LEMMA LeastIsMember ==
  ASSUME NEW S, S \subseteq Nat, S # {}
  PROVE  Least(S) \in S
<1> DEFINE R == OpToRel(<, Nat)
<1>1. \A x, y \in Nat : y < x => <<y, x>> \in R
  BY DEF OpToRel
<1>2. IsWellFoundedOn(R, Nat)
  BY NatLessThanWellFounded
<1> HIDE DEF R
<1>3. PICK x \in S : \A y \in S : ~(<<y, x>> \in R)
  BY <1>2, WFMin
<1>4. ASSUME NEW y \in S PROVE x <= y
  <2>1. x \in Nat /\ y \in Nat /\ ~(y < x)
    BY <1>1, <1>3
  <2> QED BY <2>1
<1> QED BY <1>4 DEF Least

\* A start that names the mode and the plan of a report selects that report.
LEMMA ReportIsSelected ==
  ASSUME NEW k \in DOMAIN PlatformTunnels, NEW i \in DOMAIN PlatformTunnels[k].plans
  PROVE  LET c      == PlatformTunnels[k]
             at     == {n \in DOMAIN PlatformTunnels : PlatformTunnels[n].mode = c.mode}
             choice == selectPlatformTunnelExecutionPlanDescriptor(c.plans, c.plans[i].plan)
         IN /\ at # {} /\ Least(at) = k
            /\ choice.err = "" /\ c.plans[choice.at] = c.plans[i]
<1> DEFINE c    == PlatformTunnels[k]
           d    == c.plans[i]
           at   == {n \in DOMAIN PlatformTunnels : PlatformTunnels[n].mode = c.mode}
           same == {j \in DOMAIN c.plans : c.plans[j].plan = d.plan}
<1>1. at = {k} /\ k \in Nat
  BY TunnelsAssumption DEF NoRepeats
<1>2. Least(at) = k
  BY <1>1, LeastIsMember
<1>3. same # {} /\ same \subseteq Nat
  BY TunnelsAssumption
<1>4. c.plans[Least(same)] = d
  BY <1>3, LeastIsMember, TunnelsAssumption
<1>5. d.plan # NoPlan
  <2>1. validatePlatformTunnelCapability(c)
    BY TunnelsAssumption
  <2>2. validateRuntimeExecutionPlanDescriptor(d)
    BY <2>1, Zenon DEF validatePlatformTunnelCapability
  <2>3. d.plan.access \in AccessMethods
    BY <2>2, Zenon DEF validateRuntimeExecutionPlanDescriptor, validateRuntimeExecutionPlan
  <2>4. NoPlan.access \notin AccessMethods
    BY DEF AccessMethods, NoPlan
  <2> QED BY <2>3, <2>4
<1>6. selectPlatformTunnelExecutionPlanDescriptor(c.plans, d.plan) = Chosen(Least(same))
  BY <1>3, <1>5, Zenon DEF selectPlatformTunnelExecutionPlanDescriptor
<1>7. Chosen(Least(same)).err = "" /\ Chosen(Least(same)).at = Least(same)
  BY DEF Chosen
<1> HIDE DEF same
<1> QED BY <1>1, <1>2, <1>4, <1>6, <1>7

(* The report and the startup decide alike: a plan reported as supported   *)
(* starts without a named profile, one reported as unavailable for want of *)
(* a profile ends at profile validation.                                   *)
THEOREM ReportedPlansStartHolds == Spec => []ReportedPlansStart
<1>1. ReportedPlansStart
  <2> SUFFICES ASSUME NEW k \in DOMAIN PlatformTunnels,
                      NEW i \in DOMAIN PlatformTunnels[k].plans,
                      PlatformTunnels[k].available,
                      PlatformTunnels[k].plans[i].support = "supported"
               PROVE  LET d == PlatformTunnels[k].plans[i]
                      IN ReportedSupport(profiles, defaults, d) = "supported"
                           <=> ~attachTransportProfileToStartRequest(profiles, defaults,
                                  PlatformTunnels[k].mode, d.plan, "", FALSE).ended
    BY DEF ReportedPlansStart
  <2> DEFINE c       == PlatformTunnels[k]
             d       == c.plans[i]
             default == StartupCandidate(defaults, "", d.plan)
             usable  == default # "" /\ validateTransportProfileRef(profiles, default, d.plan,
                                                                    RequiredKinds(d))
             request == attachTransportProfileToStartRequest(profiles, defaults, c.mode,
                                                             d.plan, "", FALSE)
  <2>1. ReportedSupport(profiles, defaults, d) = "supported" <=> RequiredKinds(d) = {} \/ usable
    BY DEF ReportedSupport
  <2>2. resolveTransportProfileForStartup(profiles, defaults, "", d.plan, RequiredKinds(d)) = ""
          <=> ~usable
    BY DEF resolveTransportProfileForStartup
  <2>3. request.ended <=> RequiredKinds(d) # {} /\ ~usable
    <3> DEFINE at     == {n \in DOMAIN PlatformTunnels : PlatformTunnels[n].mode = c.mode}
               choice == selectPlatformTunnelExecutionPlanDescriptor(c.plans, d.plan)
    <3>1. /\ at # {} /\ Least(at) = k
          /\ choice.err = "" /\ c.plans[choice.at] = d
      BY ReportIsSelected
    <3> HIDE DEF usable
    <3> QED BY <2>2, <3>1 DEF attachTransportProfileToStartRequest
  <2> QED BY <2>1, <2>3
<1> QED BY <1>1, PTL
=============================================================================
