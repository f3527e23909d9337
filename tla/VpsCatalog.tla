----------------------------- MODULE VpsCatalog -----------------------------
(***************************************************************************)
(* The VPS provider catalog: the service on the VPS                        *)
(* (internal/vpscatalog) and the host's cache of it                        *)
(* (pkg/clientcontrol/vps_provider_catalog.go).  The host copies signed    *)
(* snapshots with a generation number, remembers the highest generation    *)
(* per endpoint and issuer, keeps both in a file, and has artifacts issued *)
(* against the copy.  Syncs and issues of several clients overlap, answers *)
(* are lost or late, either side restarts, and the VPS may serve an older  *)
(* snapshot than before.                                                   *)
(*                                                                         *)
(* A snapshot is [form, endpoint, issuer, gen, expires, source, offers];   *)
(* form is "ok" or the defect the validation finds in the rest of it, and  *)
(* issuer stands for issuer and audience, which the code treats alike.     *)
(* Time is the clock now, shared by both sides.  A bearer token is the set *)
(* of scopes the VPS grants it.                                            *)
(***************************************************************************)
EXTENDS Integers, Sequences, FiniteSets, FiniteSetsExt, Functions

CONSTANTS Configs,     \* the lists of endpoints a host may be started with
          Catalogs,    \* the snapshots the VPS may publish
          Offers, Operations,
          Syncs, Issuers,         \* the overlapping calls of the host's clients
          MaxTime, TTL,           \* bound on the clock; an artifact's life
          MaxRestarts, MaxRuns,   \* bounds on the restarts of the host and of the VPS
          MaxCalls                \* bound on the calls of all clients

VARIABLES
  \* the VPS
  served,      \* the snapshot it serves
  issues,      \* operation -> the response it gave
  \* the host
  configured,  \* the endpoint settings it was started with
  cache,       \* endpoint -> [endpoint, snapshot, status]
  highest,     \* generation key -> highest accepted generation
  disk,        \* the cache file
  sync, issue, \* the calls under way
  recorded,    \* the resolutions it recorded, the ones before a restart included
  now, restarts, run, calls,
  \* history, read by the properties only
  floor        \* generation key -> highest generation a sync was acknowledged with

vps  == <<served, issues>>
host == <<configured, cache, highest, disk>>
vars == <<vps, host, sync, issue, recorded, now, restarts, run, calls, floor>>

ASSUME CatalogBounds ==
  /\ MaxTime \in Nat /\ TTL \in Nat \ {0} /\ MaxRestarts \in Nat /\ MaxRuns \in Nat /\ MaxCalls \in Nat
  /\ \A c \in Catalogs : c.gen \in Nat /\ c.expires \in Nat
  /\ \A s \in Configs : s \in Seq(Range(s))

EmptyMap == [x \in {} |-> x]
With(f, k, v) == [x \in DOMAIN f \cup {k} |-> IF x = k THEN v ELSE f[x]]
Value(f, k) == IF k \in DOMAIN f THEN f[k] ELSE 0

vpsCatalogGenerationKey(e) == <<e.id, e.issuer>>

NoSnapshot == [form |-> "none", endpoint |-> "", issuer |-> "", gen |-> 0, expires |-> 0,
               source |-> [health |-> "", healthUntil |-> 0, evidence |-> <<>>],
               offers |-> EmptyMap]
EmptyDisk  == [highest |-> EmptyMap, catalogs |-> EmptyMap]
NoEndpoint == [id |-> "", issuer |-> "", usable |-> FALSE, read |-> {}, issue |-> {}]
IdleSync   == [pc |-> "idle", todo |-> <<>>, now |-> 0, body |-> NoSnapshot, status |-> ""]
NoRequest  == [endpoint |-> "", offer |-> "", op |-> "", secret |-> FALSE]
NoResponse == [op |-> "", issuer |-> "", endpoint |-> "", gen |-> 0, offer |-> "",
               artifact |-> <<>>, expires |-> 0, export |-> FALSE, run |-> 0]
IdleIssue  == [pc |-> "idle", req |-> NoRequest, endpoint |-> NoEndpoint,
               snapshot |-> NoSnapshot, response |-> NoResponse, floor |-> 0]

(***************************************************************************)
(* Validation (internal/vpscatalog/validation.go)                          *)
(***************************************************************************)

(* A chain of early returns: the word of the first check that applies. *)
FirstWord(checks) ==
  LET applies == {i \in DOMAIN checks : checks[i][1]}
  IN IF applies = {} THEN "valid" ELSE checks[Min(applies)][2]

ValidateSnapshot(s, e, top, time) ==
  FirstWord(<< <<s.form \in {"none", "schema"}, "unsupported">>,
               <<s.issuer # e.issuer, "wrong_issuer">>,
               <<s.endpoint # e.id, "wrong_endpoint">>,
               <<s.gen = 0, "invalid">>,
               <<top > 0 /\ s.gen < top, "rollback">>,
               <<s.expires <= time, "stale">>,
               <<s.form = "unsigned", "unsigned">>,
               <<s.form = "shape", "invalid">> >>)

healthValidationStatus(status, until, time) ==
  FirstWord(<< <<status \in {"degraded", "missing_evidence", "unavailable"}, status>>,
               <<status \notin {"", "healthy"}, "invalid">>,
               <<until # 0 /\ until <= time, "stale">> >>)

EvidenceWord(item, time) ==
  FirstWord(<< <<item.status \in {"stale", "unavailable"}, item.status>>,
               <<item.status = "missing", "missing_evidence">>,
               <<item.status \in {"degraded", "unknown_limit"}, "degraded">>,
               <<item.status # "fresh", "invalid">>,
               <<item.until # 0 /\ item.until <= time, "stale">> >>)

FirstFailure(words) == FirstWord([i \in DOMAIN words |-> <<words[i] # "valid", words[i]>>])

evidenceValidationStatus(evidence, time) ==
  IF evidence = <<>> THEN "missing_evidence"
  ELSE FirstFailure([i \in DOMAIN evidence |-> EvidenceWord(evidence[i], time)])

ValidateOfferReadiness(source, offer, time) ==
  FirstFailure(<< healthValidationStatus(source.health, source.healthUntil, time),
                  healthValidationStatus(offer.health, offer.healthUntil, time),
                  evidenceValidationStatus(source.evidence, time),
                  evidenceValidationStatus(offer.evidence, time) >>)

(***************************************************************************)
(* Initial state                                                           *)
(***************************************************************************)
Init ==
  /\ served \in Catalogs
  /\ issues = EmptyMap
  /\ configured \in Configs
  /\ cache = EmptyMap /\ highest = EmptyMap /\ disk = EmptyDisk
  /\ sync = [p \in Syncs |-> IdleSync]
  /\ issue = [q \in Issuers |-> IdleIssue]
  /\ recorded = {}
  /\ now = 0 /\ restarts = 0 /\ run = 0 /\ calls = 0
  /\ floor = EmptyMap

(***************************************************************************)
(* The VPS                                                                 *)
(***************************************************************************)

(* The operator, or the snapshot provider that the service asks on every   *)
(* request, comes with another snapshot; a restored backup is an old one.  *)
Publish(s) ==
  /\ s # served
  /\ served' = s
  /\ UNCHANGED <<issues, host, sync, issue, recorded, now, restarts, run, calls, floor>>

(* A service that starts again has forgotten which operations it served. *)
NewService ==
  /\ run < MaxRuns /\ issues # EmptyMap
  /\ issues' = EmptyMap
  /\ run' = run + 1
  /\ UNCHANGED <<served, host, sync, issue, recorded, now, restarts, calls, floor>>

authorize(scopes, scope) == scope \in scopes

artifactIssueID(s, req) == <<s.endpoint, s.issuer, s.gen, req.offer, req.op>>

issueResponse(s, req) ==
  [op |-> req.op, issuer |-> s.issuer, endpoint |-> s.endpoint, gen |-> s.gen,
   offer |-> req.offer, artifact |-> artifactIssueID(s, req), expires |-> now + TTL,
   export |-> req.secret, run |-> run]

(* Whether the service answers an issue request with an artifact: an       *)
(* operation it knows is answered before anything else is looked at.       *)
IssueAccepted(req, scopes) ==
  /\ authorize(scopes, "artifact_issue_export")
  /\ \/ req.op \in DOMAIN issues
     \/ /\ req.offer \in DOMAIN served.offers
        /\ ValidateOfferReadiness(served.source, served.offers[req.offer], now) = "valid"

\* Mutant: a known operation gets a fresh artifact.
ReplyAnew(req) == issueResponse(served, req)

IssueReply(req) == IF req.op \in DOMAIN issues THEN issues[req.op] ELSE issueResponse(served, req)

(***************************************************************************)
(* The host: its cache and the file                                        *)
(***************************************************************************)

(* What the file would hold now. *)
DiskImage(c, h) ==
  [highest  |-> h,
   catalogs |-> [id \in {e.id : e \in Range(configured)} \cap DOMAIN c |->
                   [snapshot |-> c[id].snapshot, status |-> c[id].status]]]

(* The write of the file beside the cache: it may fail before the rename,  *)
(* or at the last chmod with the new file in place.                        *)
persistVPSProviderCatalogCache(c, h, acknowledged) ==
  \/ disk' = DiskImage(c, h) /\ acknowledged = TRUE
  \/ disk' = DiskImage(c, h) /\ acknowledged = FALSE
  \/ disk' = disk /\ acknowledged = FALSE

(* One lock section.  Without a snapshot the old one stays when the        *)
(* endpoint was only unavailable, and goes otherwise.                      *)
storeVPSCatalogStatus(e, status, s, acknowledged) ==
  LET key  == vpsCatalogGenerationKey(e)
      old  == IF e.id \in DOMAIN cache THEN cache[e.id].snapshot ELSE NoSnapshot
      kept == IF s # NoSnapshot THEN s ELSE IF status = "unavailable" THEN old ELSE NoSnapshot
  IN /\ cache' = With(cache, e.id, [endpoint |-> e, snapshot |-> kept, status |-> status])
     /\ highest' = IF s # NoSnapshot /\ s.gen > Value(highest, key)
                     THEN With(highest, key, s.gen) ELSE highest
     /\ persistVPSProviderCatalogCache(cache', highest', acknowledged)

(* A cached snapshot is judged again at every use. *)
currentVPSCatalogStatus(c) ==
  IF c.snapshot = NoSnapshot THEN c.status
  ELSE ValidateSnapshot(c.snapshot, c.endpoint,
         Value(highest, vpsCatalogGenerationKey(c.endpoint)), now)

(* The status of the endpoints and the offers a client is shown. *)
remoteCatalogStatus(e) ==
  IF e.id \in DOMAIN cache THEN currentVPSCatalogStatus(cache[e.id]) ELSE "unavailable"

ReadyOffers(s) ==
  {o \in DOMAIN s.offers : ValidateOfferReadiness(s.source, s.offers[o], now) = "valid"}

RemoteProviderSources ==
  UNION {{<<e.id, o>> : o \in ReadyOffers(cache[e.id].snapshot)} :
           e \in {c \in Range(configured) : remoteCatalogStatus(c) = "valid"}}

\* Mutant: only the stored snapshots are read back.
LoadSnapshots(endpoints, d) ==
  [k \in {vpsCatalogGenerationKey(e) : e \in Range(endpoints)} |->
     IF k[1] \in DOMAIN d.catalogs THEN d.catalogs[k[1]].snapshot.gen ELSE 0]

(* A list may name an identifier twice; a stored snapshot belongs to the   *)
(* last endpoint of that name.                                             *)
LastEndpoint(endpoints, id) ==
  endpoints[Max({i \in DOMAIN endpoints : endpoints[i].id = id})]

(* The highest generations a host starts with: what the file says of its   *)
(* endpoints, raised by the snapshot stored for each endpoint identifier.  *)
LoadedHighest(endpoints, d) ==
  LET Holds(k)  == /\ k[1] \in DOMAIN d.catalogs
                   /\ k = vpsCatalogGenerationKey(LastEndpoint(endpoints, k[1]))
      Stored(k) == IF Holds(k) THEN d.catalogs[k[1]].snapshot.gen ELSE 0
      Known(k)  == Max({Value(d.highest, k), Stored(k)})
      keys      == {vpsCatalogGenerationKey(e) : e \in Range(endpoints)}
  IN [k \in {j \in keys : Known(j) > 0} |-> Known(k)]

loadVPSProviderCatalogCache(endpoints, d) ==
  [id \in {e.id : e \in Range(endpoints)} \cap DOMAIN d.catalogs |->
     [endpoint |-> LastEndpoint(endpoints, id),
      snapshot |-> d.catalogs[id].snapshot, status |-> d.catalogs[id].status]]

(* A host starts, with the settings it had or others.  A file it cannot    *)
(* read is as good as none, and so is the floor that was in it; an         *)
(* endpoint that is not configured any more loses its floor too.           *)
NewHost(endpoints, readable) ==
  LET d    == IF readable THEN disk ELSE EmptyDisk
      keys == {vpsCatalogGenerationKey(e) : e \in Range(endpoints)}
  IN /\ restarts < MaxRestarts
     /\ restarts' = restarts + 1
     /\ configured' = endpoints
     /\ highest' = LoadedHighest(endpoints, d)
     /\ cache' = loadVPSProviderCatalogCache(endpoints, d)
     /\ sync' = [p \in Syncs |-> IdleSync]
     /\ issue' = [q \in Issuers |-> IdleIssue]
     /\ floor' = [k \in IF readable THEN DOMAIN floor \cap keys ELSE {} |-> floor[k]]
     /\ UNCHANGED <<vps, disk, recorded, now, run, calls>>

(***************************************************************************)
(* A sync                                                                  *)
(***************************************************************************)
SyncVPSProviderCatalogs(p) ==
  /\ sync[p].pc = "idle" /\ calls < MaxCalls
  /\ configured # <<>>
  /\ sync' = [sync EXCEPT ![p].pc = "ask", ![p].todo = configured]
  /\ calls' = calls + 1
  /\ UNCHANGED <<vps, host, issue, recorded, now, restarts, run, floor>>

(* The clock is read before the request is sent. *)
syncVPSProviderCatalog(p) ==
  /\ sync[p].pc = "ask"
  /\ sync' = [sync EXCEPT ![p] =
       IF Head(@.todo).usable THEN [@ EXCEPT !.pc = "asked", !.now = now]
                              ELSE [@ EXCEPT !.pc = "store", !.status = "invalid"]]
  /\ UNCHANGED <<vps, host, issue, recorded, now, restarts, run, calls, floor>>

handleCatalog(p) ==
  /\ sync[p].pc = "asked"
  /\ sync' = [sync EXCEPT ![p] =
       IF authorize(Head(@.todo).read, "catalog_read")
         THEN [@ EXCEPT !.pc = "answered", !.body = served]
         ELSE [@ EXCEPT !.pc = "store", !.status = "unavailable"]]
  /\ UNCHANGED <<vps, host, issue, recorded, now, restarts, run, calls, floor>>

(* No answer, or one that is not JSON. *)
FailSync(p) ==
  /\ sync[p].pc = "asked"
  /\ \E status \in {"unavailable", "invalid"} :
       sync' = [sync EXCEPT ![p].pc = "store", ![p].status = status]
  /\ UNCHANGED <<vps, host, issue, recorded, now, restarts, run, calls, floor>>

(* The highest generation is read under the lock and used after it. *)
JudgeSnapshot(p) ==
  LET e    == Head(sync[p].todo)
      word == ValidateSnapshot(sync[p].body, e,
                Value(highest, vpsCatalogGenerationKey(e)), sync[p].now)
  IN /\ sync[p].pc = "answered"
     /\ sync' = [sync EXCEPT ![p].pc = "store", ![p].status = word,
                             ![p].body = IF word = "valid" THEN @ ELSE NoSnapshot]
     /\ UNCHANGED <<vps, host, issue, recorded, now, restarts, run, calls, floor>>

FinishSync(p) ==
  LET e   == Head(sync[p].todo)
      key == vpsCatalogGenerationKey(e)
      new == sync[p].body
  IN /\ sync[p].pc = "store"
     /\ \E acknowledged \in BOOLEAN :
          /\ storeVPSCatalogStatus(e, sync[p].status, new, acknowledged)
          /\ floor' = IF acknowledged /\ new.gen > Value(floor, key)
                        THEN With(floor, key, new.gen) ELSE floor
     /\ sync' = [sync EXCEPT ![p] =
          IF Len(@.todo) > 1 THEN [IdleSync EXCEPT !.pc = "ask", !.todo = Tail(sync[p].todo)]
                             ELSE IdleSync]
     /\ UNCHANGED <<vps, configured, issue, recorded, now, restarts, run, calls>>

(***************************************************************************)
(* An issue                                                                *)
(***************************************************************************)
Issuable(id, o) ==
  /\ id \in DOMAIN cache
  /\ currentVPSCatalogStatus(cache[id]) = "valid"
  /\ o \in DOMAIN cache[id].snapshot.offers
  /\ ValidateOfferReadiness(cache[id].snapshot.source, cache[id].snapshot.offers[o], now) = "valid"

IssueVPSProviderArtifact(q, req) ==
  /\ issue[q].pc = "idle" /\ calls < MaxCalls
  /\ Issuable(req.endpoint, req.offer)
  /\ LET c == cache[req.endpoint]
     IN issue' = [issue EXCEPT ![q] =
          [IdleIssue EXCEPT !.pc = "asked", !.req = req, !.endpoint = c.endpoint,
                            !.snapshot = c.snapshot,
                            !.floor = Value(floor, vpsCatalogGenerationKey(c.endpoint))]]
  /\ calls' = calls + 1
  /\ UNCHANGED <<vps, host, sync, recorded, now, restarts, run, floor>>

handleArtifactIssue(q) ==
  LET req == issue[q].req
  IN /\ issue[q].pc = "asked"
     /\ IF IssueAccepted(req, issue[q].endpoint.issue)
          THEN /\ issues' = With(issues, req.op, IssueReply(req))
               /\ issue' = [issue EXCEPT ![q].pc = "answered", ![q].response = IssueReply(req)]
          ELSE /\ issue' = [issue EXCEPT ![q] = IdleIssue]
               /\ UNCHANGED issues
     /\ UNCHANGED <<served, host, sync, recorded, now, restarts, run, calls, floor>>

(* The request or its answer is lost: the client may try again. *)
issueRemoteVPSArtifact(q) ==
  /\ issue[q].pc \in {"asked", "answered"}
  /\ issue' = [issue EXCEPT ![q] = IdleIssue]
  /\ UNCHANGED <<vps, host, sync, recorded, now, restarts, run, calls, floor>>

ResponseMatches(i) ==
  /\ i.response.offer = i.req.offer
  /\ i.response.endpoint = i.snapshot.endpoint

\* Mutant: a response below the cached generation is taken.
AcceptAnyGeneration(i) == ResponseMatches(i)

ResponseAccepted(i) == ResponseMatches(i) /\ i.response.gen >= i.snapshot.gen

recordVPSIssuedResolution(q) ==
  LET i == issue[q]
  IN /\ i.pc = "answered"
     /\ recorded' = recorded \cup
          (IF ResponseAccepted(i)
             THEN {[op |-> i.req.op, gen |-> i.response.gen, artifact |-> i.response.artifact,
                    expires |-> i.response.expires, run |-> i.response.run, floor |-> i.floor,
                    state |-> IF i.response.expires > now THEN "resolved" ELSE "expired",
                    export |-> i.response.export /\ i.response.expires > now]}
             ELSE {})
     /\ issue' = [issue EXCEPT ![q] = IdleIssue]
     /\ UNCHANGED <<vps, host, sync, now, restarts, run, calls, floor>>

Tick ==
  /\ now < MaxTime
  /\ now' = now + 1
  /\ UNCHANGED <<vps, host, sync, issue, recorded, restarts, run, calls, floor>>

EndpointIDs == UNION {{e.id : e \in Range(s)} : s \in Configs}

Requests == [endpoint : EndpointIDs, offer : Offers, op : Operations, secret : BOOLEAN]

Next ==
  \/ \E s \in Catalogs : Publish(s)
  \/ NewService
  \/ \E endpoints \in Configs, readable \in BOOLEAN : NewHost(endpoints, readable)
  \/ \E p \in Syncs :
       \/ SyncVPSProviderCatalogs(p)
       \/ syncVPSProviderCatalog(p)
       \/ handleCatalog(p)
       \/ FailSync(p)
       \/ JudgeSnapshot(p)
       \/ FinishSync(p)
  \/ \E q \in Issuers :
       \/ \E req \in Requests : IssueVPSProviderArtifact(q, req)
       \/ handleArtifactIssue(q)
       \/ issueRemoteVPSArtifact(q)
       \/ recordVPSIssuedResolution(q)
  \/ Tick

Spec == Init /\ [][Next]_vars

(***************************************************************************)
(* Properties                                                              *)
(***************************************************************************)

(* Restart-safe rollback protection.  The offers a client is shown as      *)
(* valid are the ones an issue gets past the host, although the list and   *)
(* the issue judge the cache by code of their own; and they come from a    *)
(* snapshot not below any generation that a sync of the same endpoint and  *)
(* issuer was acknowledged with, whatever syncs overlapped since,          *)
(* whichever writes of the file failed, and across restarts.               *)
OffersKeepTheFloor ==
  \A id \in EndpointIDs, o \in Offers :
    /\ <<id, o>> \in RemoteProviderSources <=> Issuable(id, o)
    /\ Issuable(id, o) =>
         cache[id].snapshot.gen >= Value(floor, vpsCatalogGenerationKey(cache[id].endpoint))

(* The catalog may move on, or back, while an issue is under way, and the  *)
(* VPS may answer with what it issued long ago: an artifact is recorded    *)
(* only with a generation not below the floor at the time of the request.  *)
IssuesKeepTheFloor == \A r \in recorded : r.gen >= r.floor

(* A retry of an operation, with the first answer lost or not, after new   *)
(* snapshots and from several clients, is recorded with the same artifact  *)
(* and the same end of life, as long as the VPS is not restarted.          *)
RetriesAreIdempotent ==
  \A r, t \in recorded :
    r.op = t.op /\ r.run = t.run => r.artifact = t.artifact /\ r.expires = t.expires

=============================================================================
