--------------------------- MODULE MCProfileStore ---------------------------
(* Instance of ProfileStore for TLC. *)
EXTENDS ProfileStore, TLC

Descriptor(plan, support, default, requires, kinds) ==
  [plan |-> plan, support |-> support, family |-> "turn_server",
   role |-> "wireguard_raw_datagram", default |-> default,
   requires |-> requires, kinds |-> kinds]

LinuxPlan   == StrictPlan("linux_tun")
AbsentPlan  == StrictPlan("windows_wintun")
ForeignPlan == [LinuxPlan EXCEPT !.engine = "proxy_core_adapter"]

\* A Linux host: the strict plan, and a foreign core that declares the same
\* profile kind although the kind does not fit it.
MCTunnels ==
  << [mode |-> "linux_tun", available |-> TRUE, satisfied |-> <<"driver">>, missing |-> "",
      policies |-> <<>>,
      plans |-> << Descriptor(ForeignPlan, "experimental", FALSE,
                              "runtime_execution_foreign_core", {WireGuardNativeV1}),
                   Descriptor(LinuxPlan, "supported", TRUE, "", {}) >>] >>

\* One profile with a preshared key, one whose endpoint only the start-up
\* validator accepts, and one that neither accepts.
Good    == [key |-> "k1", psk |-> "s1", addresses |-> "a1", dns |-> "", mtu |-> 1280,
            peer |-> "p1", allowed |-> "i1", endpoint |-> "remote", keepalive |-> 0]
OddPort == [Good EXCEPT !.endpoint = "badport"]
MCImportFiles == {Good, OddPort}
MCLegacy  == [Good EXCEPT !.endpoint = "local"]

\* Drafts, each differing from the good profile in one respect.
Base == [kind |-> "", schema |-> "1", defaultFor |-> NoPlan,
         fields |-> [key |-> "k1", psk |-> "s1", addresses |-> "a1", peer |-> "p1",
                     allowed |-> "i1", endpoint |-> "remote"],
         legacy |-> Nothing, actions |-> Nothing, mistyped |-> {}]
With(d, f, v) == [d EXCEPT !.fields = (f :> v) @@ d.fields]
MCDrafts ==
  { [Base EXCEPT !.defaultFor = LinuxPlan],
    With(Base, "endpoint", "local"),
    With(Base, "endpoint", "badport"),
    [With(Base, "key", "") EXCEPT !.actions = "key" :> "preserve_existing"],
    [With(Base, "key", "bad") EXCEPT !.actions = "key" :> "generate_host"],
    [Base EXCEPT !.actions = "psk" :> "generate_host"],
    [Base EXCEPT !.defaultFor = AbsentPlan],
    With(Base, "mtu", 575),
    [Base EXCEPT !.mistyped = {"addresses"}] }

MCEnvelopes ==
  { [defect |-> "", kind |-> WireGuardNativeV1, material |-> Good],
    [defect |-> "", kind |-> "future_kind_v2", material |-> Good],
    [defect |-> "wrong_passphrase", kind |-> WireGuardNativeV1, material |-> NoMaterial] }

MCRequestedPlans == {NoPlan, LinuxPlan, ForeignPlan, AbsentPlan}

\* The file is missing or of another version, or holds a record of a kind
\* this host does not know, which is a default.
MCFiles ==
  {Missing} \cup
  {[readable |-> TRUE,
    profiles |-> i :> [kind |-> "future_kind_v2", source |-> "import_adapter",
                       material |-> NoMaterial],
    defaults |-> LinuxPlan :> i] : i \in ProfileIDs}

Symmetry == Permutations(Callers) \cup Permutations(ProfileIDs)
=============================================================================
