---------------------------- MODULE MCVpsCatalog ----------------------------
(***************************************************************************)
(* A small instance of VpsCatalog: one endpoint whose settings name one of *)
(* two issuers (the other with tokens of the wrong scope) or are unusable, *)
(* snapshots of two generations and one the host must refuse.              *)
(***************************************************************************)
EXTENDS VpsCatalog, TLC

Good  == [id |-> "vps", issuer |-> "i1", usable |-> TRUE,
          read |-> {"catalog_read"}, issue |-> {"artifact_issue_export"}]
Other == [id |-> "vps", issuer |-> "i2", usable |-> TRUE,
          read |-> {"catalog_read"}, issue |-> {"catalog_read"}]
Bad   == [id |-> "vps2", issuer |-> "i1", usable |-> FALSE, read |-> {}, issue |-> {}]

MCConfigs == {<<Good>>, <<Bad, Other>>}

Fresh(until) == [health |-> "healthy", healthUntil |-> 0,
                 evidence |-> <<[status |-> "fresh", until |-> until]>>]
Degraded     == [health |-> "degraded", healthUntil |-> 0,
                 evidence |-> <<[status |-> "fresh", until |-> 0]>>]

Snapshot(form, issuer, gen, expires, offers) ==
  [form |-> form, endpoint |-> "vps", issuer |-> issuer, gen |-> gen, expires |-> expires,
   source |-> Fresh(0), offers |-> offers]

Both == [o1 |-> Fresh(1), o2 |-> Fresh(0)]
One  == [o1 |-> Fresh(0), o2 |-> Degraded]

MCCatalogs ==
  {Snapshot("ok", "i1", 1, 1, Both), Snapshot("ok", "i1", 2, 2, One),
   Snapshot("unsigned", "i1", 3, 2, Both), Snapshot("ok", "i2", 1, 2, Both)}

CallSymmetry == Permutations(Syncs) \cup Permutations(Issuers)
=============================================================================
