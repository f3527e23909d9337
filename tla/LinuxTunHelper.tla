--------------------------- MODULE LinuxTunHelper ---------------------------
(***************************************************************************)
(* The privileged helper of the packaged Linux host                        *)
(* (internal/linuxtunhelper, internal/linuxdesktophost/                    *)
(* helper_native_client.go and the controller's native attempt).  A Start  *)
(* runs `pkexec helper start', a process that owns the TUN device until it *)
(* is told to end; a Stop, and the cleanup of a failed start, runs         *)
(* `pkexec helper cleanup', another process.  The two meet in a state file *)
(* under a file lock, in signals and in the kernel's tables.               *)
(*                                                                         *)
(* A step is what one lock section, one signal or one group of ip commands *)
(* of a process does.  The device rdtun0 and the routes through it vanish  *)
(* with the process that holds it; the exclusion routes through the        *)
(* underlay stay until somebody deletes them.  A process killed while it   *)
(* writes the state file leaves a torn file; the file system works         *)
(* otherwise, and process numbers are not reused.                          *)
(***************************************************************************)
EXTENDS Integers, FiniteSets

CONSTANTS MaxAttempts,   \* bound on the start commands
          MaxCleaners,   \* bound on the cleanup commands
          MaxCrashes,    \* bound on the host processes that die
          MaxKills,      \* bound on the helpers killed from outside
          Exclusions     \* the underlay exclusions of each attempt

Attempts == 1..MaxAttempts
Cleaners == 1..MaxCleaners

ASSUME HelperBounds ==
  /\ MaxAttempts \in Nat /\ MaxCleaners \in Nat /\ MaxCrashes \in Nat /\ MaxKills \in Nat
  /\ DOMAIN Exclusions = Attempts

VARIABLES host,     \* the number of the running host process
          slot,     \* the controller's active attempt, 0 for none
          client,   \* the Start call of each attempt
          helper,   \* the start process of each attempt
          cleaner,  \* the cleanup processes
          file,     \* the state file
          dev,      \* the attempt whose process holds the device, 0 for none
          split,    \* the routes through the device are installed
          routes,   \* the exclusion routes in the kernel
          kills,    \* helpers killed from outside
          \* history, read by the properties only
          botched,  \* a route could not be deleted
          raced     \* a cleaner acted on a record that had changed since it read it

kernel == <<dev, split, routes>>
vars   == <<host, slot, client, helper, cleaner, file, kernel, kills, botched, raced>>

NoFile == [attempt |-> 0, excl |-> {}]
Torn   == [attempt |-> -1, excl |-> {}]

IdleHelper  == [pc |-> "none", host |-> 0, stage |-> "", answered |-> FALSE]
IdleCleaner == [pc |-> "none", host |-> 0, attempt |-> 0, excl |-> {}, start |-> 0, early |-> FALSE]

Live(a) == a \in Attempts /\ helper[a].pc \notin {"none", "exited"}
At(a, pc) == helper[a].pc = pc
Goto(a, pc) == helper' = [helper EXCEPT ![a].pc = pc]
CleanerAt(k, pc) == cleaner[k].pc = pc
CleanerGoto(k, pc) == cleaner' = [cleaner EXCEPT ![k].pc = pc]

Init ==
  /\ host = 1 /\ slot = 0
  /\ client = [a \in Attempts |-> "none"]
  /\ helper = [a \in Attempts |-> IdleHelper]
  /\ cleaner = [k \in Cleaners |-> IdleCleaner]
  /\ file = NoFile
  /\ dev = 0 /\ split = FALSE /\ routes = {}
  /\ kills = 0 /\ botched = FALSE /\ raced = FALSE

(***************************************************************************)
(* The kernel                                                              *)
(***************************************************************************)
(* cleanupNativeHostState: the ip commands run one after another, those    *)
(* that find nothing to delete are not errors, any other may fail.  kept   *)
(* are the routes a failed command leaves.                                 *)
cleanupNativeHostState(excl, kept) ==
  /\ split' = FALSE
  /\ routes' = (routes \ excl) \cup kept
  /\ botched' = (botched \/ kept # {})

(* What a failing cleanup may leave. *)
Leftovers(excl) == SUBSET (routes \cap excl)

(***************************************************************************)
(* The start process                                                       *)
(***************************************************************************)
(* pkexec asks for authorization; a refusal ends the process without a     *)
(* response.                                                               *)
Authorize(a) ==
  /\ At(a, "auth")
  /\ \/ Goto(a, "prepare")
     \/ helper' = [helper EXCEPT ![a].pc = "exited", ![a].stage = "permission_acquire"]
  /\ UNCHANGED <<host, slot, client, cleaner, file, kernel, kills, botched, raced>>

Exit(a, stage) == helper' = [helper EXCEPT ![a].pc = "exited", ![a].stage = stage]
Undo(a, stage) == helper' = [helper EXCEPT ![a].pc = "undo", ![a].stage = stage]

\* Mutant: the record of a helper that is still alive is taken over.
PrepareOverLive(a) ==
  /\ At(a, "prepare")
  /\ file # Torn
  /\ cleanupNativeHostState(file.excl, {})
  /\ file' = [attempt |-> a, excl |-> {}]
  /\ Goto(a, "device")
  /\ UNCHANGED <<host, slot, client, cleaner, dev, kills, raced>>

(* Under the lock: the record of a live helper refuses the start, that of  *)
(* a dead one is cleaned up after, and the helper writes its own.          *)
prepareStart(a) ==
  /\ At(a, "prepare")
  /\ \/ /\ file = NoFile
        /\ file' = [attempt |-> a, excl |-> {}]
        /\ Goto(a, "device")
        /\ UNCHANGED <<split, routes, botched>>
     \/ /\ file = Torn \/ Live(file.attempt)
        /\ Exit(a, "host_bringup")
        /\ UNCHANGED <<file, split, routes, botched>>
     \/ /\ file \notin {NoFile, Torn} /\ ~Live(file.attempt)
        /\ \E kept \in Leftovers(file.excl) :
             /\ cleanupNativeHostState(file.excl, kept)
             /\ IF kept = {} THEN /\ file' = [attempt |-> a, excl |-> {}]
                                  /\ Goto(a, "device")
                ELSE Exit(a, "host_bringup") /\ UNCHANGED file
  /\ UNCHANGED <<host, slot, client, cleaner, dev, kills, raced>>

(* manager.update: only the owner of the record may change it. *)
Owns(a) == file.attempt = a
update(a, excl) == file' = IF Owns(a) THEN [file EXCEPT !.excl = excl] ELSE file

(* The interface cannot be opened twice. *)
acquirePermission(a) ==
  /\ At(a, "device")
  /\ \/ dev = 0 /\ dev' = a /\ update(a, {}) /\ Goto(a, "route")
     \/ Undo(a, "permission_acquire") /\ UNCHANGED <<dev, file>>
  /\ UNCHANGED <<host, slot, client, cleaner, split, routes, kills, botched, raced>>

\* Mutant: the exclusions are not published before they are installed.
ValidateUnpublished(a) ==
  /\ At(a, "route")
  /\ \/ Goto(a, "bringup") \/ Undo(a, "route_validate")
  /\ UNCHANGED <<host, slot, client, cleaner, file, kernel, kills, botched, raced>>

(* The exclusions are computed and recorded before any is installed; an    *)
(* update that fails is ignored.                                           *)
validateRoutePolicy(a) ==
  /\ At(a, "route")
  /\ \/ update(a, Exclusions[a]) /\ Goto(a, "bringup")
     \/ Undo(a, "route_validate") /\ UNCHANGED file
  /\ UNCHANGED <<host, slot, client, cleaner, kernel, kills, botched, raced>>

(* The link, its addresses and split routes, then the exclusions one by    *)
(* one; any command may fail.                                              *)
bringupHost(a) ==
  /\ At(a, "bringup")
  /\ \E done \in SUBSET Exclusions[a] :
       /\ routes' = routes \cup done
       /\ split' = TRUE
       /\ IF done = Exclusions[a] THEN Goto(a, "attach") /\ update(a, Exclusions[a])
          ELSE Undo(a, "host_bringup") /\ UNCHANGED file
  /\ UNCHANGED <<host, slot, client, cleaner, dev, kills, botched, raced>>

attachRuntime(a) ==
  /\ At(a, "attach")
  /\ Goto(a, "verify") \/ Undo(a, "runtime_attach")
  /\ UNCHANGED <<host, slot, client, cleaner, file, kernel, kills, botched, raced>>

(* The probe is repeated once after a first handshake; it needs traffic    *)
(* both ways and the expected egress address.                              *)
verifyDataplane(a) ==
  /\ At(a, "verify")
  /\ Goto(a, "commit") \/ Undo(a, "dataplane_verify")
  /\ UNCHANGED <<host, slot, client, cleaner, file, kernel, kills, botched, raced>>

(* The last update must succeed.  The response is written after it. *)
Commit(a) ==
  /\ At(a, "commit")
  /\ IF Owns(a)
       THEN helper' = [helper EXCEPT ![a].pc = "respond", ![a].answered = TRUE]
       ELSE Undo(a, "host_bringup")
  /\ update(a, Exclusions[a])
  /\ UNCHANGED <<host, slot, client, cleaner, kernel, kills, botched, raced>>

(* Only now does the helper handle signals. *)
NotifySignals(a) ==
  /\ At(a, "respond")
  /\ Goto(a, "wait")
  /\ UNCHANGED <<host, slot, client, cleaner, file, kernel, kills, botched, raced>>

(* waitForHelperShutdown polls the host process. *)
waitForHelperShutdown(a) ==
  /\ At(a, "wait") /\ helper[a].host # host
  /\ Goto(a, "closing")
  /\ UNCHANGED <<host, slot, client, cleaner, file, kernel, kills, botched, raced>>

(* The lifecycle's Cleanup, by the exclusions it recorded; its errors keep *)
(* neither the failed nor the ended helper from removing its record.       *)
LifecycleCleanup(a) ==
  /\ helper[a].pc \in {"undo", "closing"}
  /\ IF dev # a THEN UNCHANGED <<kernel, botched>>
     ELSE LET excl == IF helper[a].stage \in {"permission_acquire", "route_validate"}
                        THEN {} ELSE Exclusions[a]
          IN /\ \E kept \in Leftovers(excl) : cleanupNativeHostState(excl, kept)
             /\ dev' = 0
  /\ Goto(a, "remove")
  /\ UNCHANGED <<host, slot, client, cleaner, file, kills, raced>>

removeIfAttempt(a) ==
  /\ At(a, "remove")
  /\ file' = IF Owns(a) THEN NoFile ELSE file
  /\ Goto(a, "exited")
  /\ UNCHANGED <<host, slot, client, cleaner, kernel, kills, botched, raced>>

(* A process dies: its device goes with it.  In the middle of a write it   *)
(* leaves a torn file.                                                     *)
Writing(a) ==
  \/ At(a, "prepare") /\ file = NoFile
  \/ helper[a].pc \in {"device", "route", "bringup", "commit"} /\ Owns(a)

Die(a) ==
  /\ helper' = [helper EXCEPT ![a].pc = "exited",
                              ![a].stage = IF @ = "" THEN "host_bringup" ELSE @]
  /\ dev' = IF dev = a THEN 0 ELSE dev
  /\ split' = (split /\ dev # a)
  /\ file' = file \/ (Writing(a) /\ file' = Torn)

Kill(a) ==
  /\ Live(a) /\ kills < MaxKills
  /\ kills' = kills + 1
  /\ Die(a)
  /\ UNCHANGED <<host, slot, client, cleaner, routes, botched, raced>>

(***************************************************************************)
(* The controller's Start                                                  *)
(***************************************************************************)
beginNativeAttempt(a) ==
  /\ client[a] = "none"
  /\ \A b \in Attempts : b < a => client[b] # "none"
  /\ slot = 0
  /\ slot' = a
  /\ client' = [client EXCEPT ![a] = "waiting"]
  /\ helper' = [helper EXCEPT ![a].pc = "auth", ![a].host = host]
  /\ UNCHANGED <<host, cleaner, file, kernel, kills, botched, raced>>

linuxTunStartupStageNeedsCleanup(stage) ==
  stage \in {"route_validate", "host_bringup", "runtime_attach", "dataplane_verify"}

(* The stage of the response, or of the helper's end without one. *)
nativeStartFailureClassification(a) ==
  IF client[a] = "cancelled" THEN "host_bringup" ELSE helper[a].stage

(* A response, or the end of the process without one, ends the call.  A    *)
(* stage that needs no cleanup gives up the attempt; after any other the   *)
(* host runs a Stop.                                                       *)
ReceiveResponse(a) ==
  /\ client[a] = "waiting" /\ helper[a].answered
  /\ client' = [client EXCEPT ![a] = "ready"]
  /\ helper' = [helper EXCEPT ![a].answered = FALSE]
  /\ UNCHANGED <<host, slot, cleaner, file, kernel, kills, botched, raced>>

ReceiveFailure(a) ==
  /\ client[a] \in {"waiting", "cancelled"} /\ At(a, "exited")
  /\ client[a] = "waiting" => ~helper[a].answered
  /\ LET dirty == linuxTunStartupStageNeedsCleanup(nativeStartFailureClassification(a))
     IN /\ client' = [client EXCEPT ![a] = IF dirty THEN "dirty" ELSE "failed"]
        /\ slot' = IF ~dirty /\ slot = a THEN 0 ELSE slot
  /\ helper' = [helper EXCEPT ![a] = [IdleHelper EXCEPT !.pc = "exited"]]
  /\ UNCHANGED <<host, cleaner, file, kernel, kills, botched, raced>>

(* The caller gives up.  The kill reaches pkexec while it still runs as    *)
(* the user; a helper that is root ignores it, and the call waits for it.  *)
CancelStart(a) ==
  /\ client[a] = "waiting"
  /\ client' = [client EXCEPT ![a] = "cancelled"]
  /\ IF At(a, "auth") THEN Exit(a, "host_bringup") ELSE UNCHANGED helper
  /\ UNCHANGED <<host, slot, cleaner, file, kernel, kills, botched, raced>>

(***************************************************************************)
(* The controller's Stop and the cleanup process                           *)
(***************************************************************************)
Fresh(k) == CleanerAt(k, "none") /\ \A j \in Cleaners : j < k => ~CleanerAt(j, "none")

Run(k, start) ==
  cleaner' = [cleaner EXCEPT ![k] = [IdleCleaner EXCEPT !.pc = "auth", !.host = host,
                                       !.attempt = slot, !.start = start]]

Stop(k) ==
  /\ Fresh(k)
  /\ Run(k, 0)
  /\ UNCHANGED <<host, slot, client, helper, file, kernel, kills, botched, raced>>

CleanFailedStart(k, a) ==
  /\ Fresh(k)
  /\ client[a] = "dirty"
  /\ client' = [client EXCEPT ![a] = "cleaning"]
  /\ Run(k, a)
  /\ UNCHANGED <<host, slot, helper, file, kernel, kills, botched, raced>>

(* pkexec, and the request's check: an empty attempt is refused. *)
AuthorizeCleanup(k) ==
  /\ CleanerAt(k, "auth")
  /\ \/ cleaner[k].attempt # 0 /\ CleanerGoto(k, "locked")
     \/ CleanerGoto(k, "failed")
  /\ UNCHANGED <<host, slot, client, helper, file, kernel, kills, botched, raced>>

(* Under the lock, by the record: without one the default interface is     *)
(* cleaned; that of a dead helper is cleaned up after, whoever it was; a   *)
(* live helper of another attempt refuses, one's own is told to end.       *)
cleanup(k) ==
  /\ CleanerAt(k, "locked")
  /\ LET a    == cleaner[k].attempt
         mine == file.attempt = a
     IN \/ /\ file = NoFile
           /\ cleanupNativeHostState({}, {})
           /\ cleaner' = [cleaner EXCEPT ![k].pc = "ok", ![k].early = Live(a)]
           /\ UNCHANGED file
        \/ /\ file = Torn \/ (Live(file.attempt) /\ ~mine)
           /\ CleanerGoto(k, "failed")
           /\ UNCHANGED <<file, split, routes, botched>>
        \/ /\ Live(file.attempt) /\ mine
           /\ CleanerGoto(k, "signal")
           /\ UNCHANGED <<file, split, routes, botched>>
        \/ /\ file \notin {NoFile, Torn} /\ ~Live(file.attempt)
           /\ \E kept \in Leftovers(file.excl) :
                /\ cleanupNativeHostState(file.excl, kept)
                /\ IF kept = {}
                     THEN /\ file' = NoFile
                          /\ cleaner' = [cleaner EXCEPT ![k].pc = "ok", ![k].early = Live(a)]
                     ELSE UNCHANGED file /\ CleanerGoto(k, "failed")
  /\ UNCHANGED <<host, slot, client, helper, dev, kills, raced>>

(* SIGTERM ends a waiting helper in order and kills any other. *)
Signal(k) ==
  LET a == cleaner[k].attempt
  IN /\ CleanerAt(k, "signal")
     /\ CleanerGoto(k, "poll")
     /\ IF At(a, "wait") THEN Goto(a, "closing") /\ UNCHANGED <<file, dev, split>>
        ELSE IF Live(a) THEN Die(a)
        ELSE UNCHANGED <<helper, file, dev, split>>
     /\ UNCHANGED <<host, slot, client, routes, kills, botched, raced>>

\* Mutant: the cleanup does not wait for the helper it signalled.
NoWaitForRemoval(k) ==
  /\ CleanerAt(k, "poll")
  /\ CleanerGoto(k, "ok")
  /\ UNCHANGED <<host, slot, client, helper, file, kernel, kills, botched, raced>>

(* waitForRemoval reads the record under the lock, and acts on what it     *)
(* read without it; the deadline ends the poll.                            *)
waitForRemoval(k) ==
  /\ CleanerAt(k, "poll")
  /\ LET a    == cleaner[k].attempt
         mine == file.attempt = a
     IN \/ file # Torn /\ ~mine /\ CleanerGoto(k, "ok")
        \/ file = Torn /\ CleanerGoto(k, "failed")
        \/ mine /\ Live(a) /\ CleanerGoto(k, "failed")
        \/ mine /\ ~Live(a)
           /\ cleaner' = [cleaner EXCEPT ![k].pc = "reap", ![k].excl = file.excl]
  /\ UNCHANGED <<host, slot, client, helper, file, kernel, kills, botched, raced>>

Reap(k) ==
  /\ CleanerAt(k, "reap")
  /\ \E kept \in Leftovers(cleaner[k].excl) :
       /\ cleanupNativeHostState(cleaner[k].excl, kept)
       /\ CleanerGoto(k, IF kept = {} THEN "unlink" ELSE "failed")
  /\ raced' = (raced \/ file.attempt \notin {0, cleaner[k].attempt})
  /\ UNCHANGED <<host, slot, client, helper, file, dev, kills>>

(* The file is removed by name, whoever wrote it since. *)
Unlink(k) ==
  /\ CleanerAt(k, "unlink")
  /\ file' = NoFile
  /\ CleanerGoto(k, IF file = NoFile THEN "failed" ELSE "ok")
  /\ raced' = (raced \/ file.attempt \notin {0, cleaner[k].attempt})
  /\ UNCHANGED <<host, slot, client, helper, kernel, kills, botched>>

(* The answer reaches the host that asked, if it is still there; a Stop    *)
(* that succeeded gives up the attempt it named.                           *)
FinishCleanup(k) ==
  LET c == cleaner[k]
  IN /\ c.pc \in {"ok", "failed"}
     /\ cleaner' = [cleaner EXCEPT ![k] = [IdleCleaner EXCEPT !.pc = "done"]]
     /\ slot' = IF c.pc = "ok" /\ c.host = host /\ slot = c.attempt THEN 0 ELSE slot
     /\ client' = IF c.start # 0 /\ c.host = host THEN [client EXCEPT ![c.start] = "failed"]
                  ELSE client
     /\ UNCHANGED <<host, helper, file, kernel, kills, botched, raced>>

(***************************************************************************)
(* The host dies and is started again; the processes it ran go on.         *)
(***************************************************************************)
RestartHost ==
  /\ host <= MaxCrashes
  /\ host' = host + 1
  /\ slot' = 0
  /\ client' = [a \in Attempts |-> IF client[a] = "none" THEN "none" ELSE "gone"]
  /\ helper' = [a \in Attempts |-> [helper[a] EXCEPT !.answered = FALSE]]
  /\ UNCHANGED <<cleaner, file, kernel, kills, botched, raced>>

HelperStep(a) ==
  \/ prepareStart(a) \/ acquirePermission(a) \/ validateRoutePolicy(a) \/ bringupHost(a)
  \/ attachRuntime(a) \/ verifyDataplane(a) \/ Commit(a) \/ NotifySignals(a)
  \/ waitForHelperShutdown(a) \/ LifecycleCleanup(a) \/ removeIfAttempt(a)

CleanerStep(k) ==
  \/ cleanup(k) \/ Signal(k) \/ waitForRemoval(k) \/ Reap(k) \/ Unlink(k) \/ FinishCleanup(k)

Next ==
  \/ \E a \in Attempts :
       \/ beginNativeAttempt(a) \/ Authorize(a) \/ HelperStep(a) \/ Kill(a)
       \/ ReceiveResponse(a) \/ ReceiveFailure(a) \/ CancelStart(a)
  \/ \E k \in Cleaners :
       \/ Stop(k) \/ AuthorizeCleanup(k) \/ CleanerStep(k)
       \/ \E a \in Attempts : CleanFailedStart(k, a)
  \/ RestartHost

Spec == Init /\ [][Next]_vars

(***************************************************************************)
(* Properties                                                              *)
(***************************************************************************)
(* Every exclusion route in the kernel is one that somebody can still      *)
(* delete: the state file records it or a live helper remembers it, across *)
(* kills, crashes and failed starts.  Apart from a route whose deletion    *)
(* failed, a torn file, and a cleaner that acted on an outdated record.    *)
RoutesAreAccounted ==
  botched \/ raced \/ file = Torn \/
    \A r \in routes :
      \/ r \in file.excl
      \/ \E a \in Attempts : /\ Live(a) /\ r \in Exclusions[a]
                             /\ helper[a].pc \in {"attach", "verify", "commit", "respond",
                                                  "wait", "undo", "closing"}

(* At most one helper is between its record and the end of its cleanup,    *)
(* whatever hosts and helpers died.                                        *)
OneOwner ==
  raced \/ Cardinality({a \in Attempts :
                          Live(a) /\ helper[a].pc \notin {"auth", "prepare", "remove"}}) <= 1

(* When a cleanup reports success its attempt neither holds the device nor *)
(* owns the state file, unless its helper had not written its record yet   *)
(* when the cleanup looked.  The routes it may leave are those of          *)
(* RoutesAreAccounted.                                                     *)
CleanupReleases ==
  \A k \in Cleaners :
    CleanerAt(k, "ok") /\ ~cleaner[k].early /\ ~botched /\ ~raced =>
      cleaner[k].attempt \notin {dev, file.attempt}

=============================================================================
