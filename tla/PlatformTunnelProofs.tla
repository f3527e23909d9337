------------------------ MODULE PlatformTunnelProofs ------------------------
(***************************************************************************)
(* The platform tunnels, for any number of calls and of overlaps, any      *)
(* start requests, resolutions and profiles and each of the three hosts:   *)
(* what the host's tables, the controller, the lifecycle and the kernel    *)
(* say of one tunnel agrees between calls, pending starts can be resumed,  *)
(* and a Stop that is alone puts everything back.                          *)
(***************************************************************************)
EXTENDS PlatformTunnel, WellFoundedInduction, TLAPS

-----------------------------------------------------------------------------
(* The invariant *)

\* The operations of a call.
Ops == {"start", "resume", "stop"}

(* The stages a call of a mode goes through, and the other places it may   *)
(* be at.                                                                  *)
StagePcs(m) ==
  CASE m = "windows_wintun" ->
         {"device", "lease", "route", "bringup", "attach", "store", "verify", "publish"}
    [] m = "linux_tun" ->
         {"lease", "slot", "device", "route", "bringup", "exclusions", "attach", "store",
          "verify", "publish"}
    [] m = "android_vpn_service" ->
         {"permission", "route", "lease", "bringup", "attach", "store", "publish",
          "take", "resume", "pending"}

StartPcs(m) == StagePcs(m) \cup {"check", "commit", "remember"}
CleanPcs    == {"clean", "cleanup", "release", "unpublish"}
StopPcs     == CleanPcs \cup {"stopped"}

Words(m) ==
  Prerequisites \cup
    {"", PlatformTunnels[CHOOSE k \in DOMAIN PlatformTunnels :
                           PlatformTunnels[k].mode = m].missing}

StartResults(m) ==
  [ready : BOOLEAN, stage : StartupStages \cup {""}, missing : Words(m),
   attempt : Nat, session : Nat, at : Nat]

CallRecords(m) ==
  [op : Ops \cup {""}, pc : StartPcs(m) \cup StopPcs \cup {"unused", "done"},
   request : DOMAIN Requests[m] \cup {""}, res : StartResults(m), own : 0 .. MaxCalls,
   knows : BOOLEAN, why : {"", "profile", "resolution"}, at : Nat, alone : BOOLEAN]

SessionRecords == [id : Calls, live : BOOLEAN, at : Nat]

TunnelTypeOK ==
  /\ mode \in Modes
  /\ profile \in BOOLEAN /\ resolved \in BOOLEAN /\ permission \in BOOLEAN
  /\ calls \in [Calls -> CallRecords(mode)]
  /\ startupRequests \subseteq Calls /\ attempts \subseteq Calls
  /\ startResult \in StartResults(mode)
  /\ stop \in Nat /\ clock \in Nat \ {0}
  /\ sessions \subseteq SessionRecords
  /\ slot \in 0 .. MaxCalls
  /\ native \in [dev : 0 .. MaxCalls, excl : BOOLEAN, runtime : 0 .. MaxCalls]
  /\ devices \subseteq Calls /\ runtimes \subseteq Calls /\ routes \in BOOLEAN
  /\ overlaps \in Nat /\ botched \in BOOLEAN
  /\ last \in [op : Ops \cup {""}, alone : BOOLEAN, ok : BOOLEAN]

(* A call is at places of its own operation, and a call that is alone has  *)
(* no other one beside it.                                                 *)
CallOK(c) ==
  /\ calls[c].op = "" <=> calls[c].pc \in {"unused", "done"}
  /\ calls[c].op = "stop" => calls[c].pc \in StopPcs
  /\ calls[c].pc = "stopped" => calls[c].op = "stop"
  /\ calls[c].alone /\ c \in Active => Active = {c}
  /\ calls[c].res.ready => calls[c].pc = "remember"

CallsOK ==
  /\ \A c \in Calls : CallOK(c)
  /\ overlaps = 0 => \A c, d \in Active : c = d

(* The clock is ahead of every time that was read from it. *)
ClockOK ==
  /\ startResult.at < clock
  /\ \A s \in sessions : s.at < clock
  /\ \A c \in Calls : calls[c].at < clock

-----------------------------------------------------------------------------
(* A stop without a call beside it *)
Released == attempts = {} /\ slot = 0
Stopped  == startupRequests = {} /\ Live = {}

StopOK(c) ==
  /\ calls[c].pc = "cleanup" => calls[c].own = slot
  /\ calls[c].pc \in {"release", "unpublish", "stopped"} => native = NoState
  /\ calls[c].pc = "release" => calls[c].own = slot
  /\ calls[c].pc \in {"unpublish", "stopped"} => Released
  /\ calls[c].pc = "stopped" => Stopped

HealedByStop ==
  /\ Active = {} /\ native = NoState /\ Released /\ Stopped
  /\ stop >= startResult.at /\ stop # 0
  /\ \A s \in sessions : stop >= s.at

HealInv ==
  /\ mode # "linux_tun" => slot = 0
  /\ \A c \in Active : calls[c].op = "stop" /\ calls[c].alone => StopOK(c)
  /\ last = [op |-> "stop", alone |-> TRUE, ok |-> TRUE] => HealedByStop

-----------------------------------------------------------------------------
(* Calls one after the other: the remembered requests *)
PendingOK(c) ==
  CASE calls[c].pc = "pending"   -> attempts = startupRequests \cup {c}
    [] calls[c].pc = "resume"    -> startupRequests = attempts \ {calls[c].own}
    [] calls[c].pc = "unpublish" -> attempts = {}
    [] OTHER                     -> startupRequests = attempts

PendingInv ==
  overlaps = 0 => /\ Active = {} => startupRequests = attempts
                  /\ \A c \in Active : PendingOK(c)

-----------------------------------------------------------------------------
(* Calls one after the other: the tunnel *)
Attached == native.dev # 0 /\ native.runtime # 0

(* A live session stands for an attached tunnel, and on Linux for the slot. *)
Matches ==
  /\ (Live # {}) = Attached
  /\ runtimes = {native.runtime} \ {0}
  /\ mode = "linux_tun" => (slot = 0) = (Live = {})

NativeSound ==
  /\ native.dev = 0 => native.runtime = 0
  /\ devices = {native.dev} \ {0}
  /\ runtimes \subseteq {native.runtime}
  /\ routes => native.excl
  /\ mode = "android_vpn_service" => ~routes

(* The places where a start has not touched the tunnel yet, those where    *)
(* its device has no runtime, and those where it has.                      *)
Untouched(m) ==
  {"check", "remember", "take", "resume", "pending"} \cup
  CASE m = "windows_wintun"      -> {"device"}
    [] m = "linux_tun"           -> {"lease", "slot"}
    [] m = "android_vpn_service" -> {"permission", "route", "lease", "bringup"}

Prepared(m) ==
  CASE m = "windows_wintun"      -> {"lease", "route", "bringup", "attach", "store"}
    [] m = "linux_tun"           -> {"route", "bringup", "exclusions", "attach", "store"}
    [] m = "android_vpn_service" -> {}

Configured(m) ==
  CASE m = "windows_wintun"      -> {"bringup", "attach", "store", "verify", "publish", "commit"}
    [] m = "linux_tun"           -> {"bringup", "exclusions", "attach", "store",
                                     "verify", "publish", "commit"}
    [] m = "android_vpn_service" -> {}

TunnelOK(c) ==
  LET pc == calls[c].pc
  IN /\ pc \in Untouched(mode) => Matches
     /\ mode = "linux_tun" /\ pc = "device" => Live = {} /\ ~Attached
     /\ pc \in Prepared(mode) => native.dev # 0 /\ native.runtime = 0 /\ runtimes = {}
     /\ mode = "android_vpn_service" /\ pc \in {"attach", "store"} =>
          native.dev # 0 /\ runtimes = {native.runtime} \ {0}
     /\ pc \in Configured(mode) => native.excl
     /\ pc \in {"verify", "publish", "commit"} => Attached /\ runtimes = {native.runtime} \ {0}
     /\ mode = "linux_tun" =>
          (pc \in Prepared(mode) \cup {"device", "verify", "publish", "commit"} =>
             slot = c /\ calls[c].own = c)
     /\ mode = "linux_tun" /\ pc \in {"cleanup", "release"} => calls[c].own = slot
     /\ pc \in {"release", "unpublish", "stopped"} => native = NoState
     /\ pc \in {"unpublish", "stopped"} => slot = 0
     /\ pc = "stopped" => Live = {}
     /\ pc = "remember" /\ calls[c].res.ready => Live # {}

(* A result that says ready is followed by its session or by what stopped  *)
(* it.                                                                     *)
ReadyIsFollowed ==
  startResult.ready => Live # {} \/ \E s \in sessions : s.at >= startResult.at

SettledInv ==
  overlaps = 0 /\ ~botched =>
    /\ NativeSound
    /\ ReadyIsFollowed
    /\ Active = {} => Matches
    /\ \A c \in Active : TunnelOK(c)

TunnelInv ==
  /\ TunnelTypeOK /\ CallsOK /\ ClockOK /\ HealInv /\ PendingInv /\ SettledInv
-----------------------------------------------------------------------------
(* The steps of a call *)

\* The mode is one of the three.
LEMMA ThreeModes ==
  mode \in Modes => mode \in {"linux_tun", "windows_wintun", "android_vpn_service"}
BY TunnelBounds

\* The stage after a stage.
LEMMA WindowsNext ==
  ASSUME mode = "windows_wintun"
  PROVE  /\ FirstStage = "device" /\ After("device") = "lease" /\ After("lease") = "route"
         /\ After("route") = "bringup" /\ After("bringup") = "attach"
         /\ After("attach") = "store" /\ After("store") = "verify"
         /\ After("verify") = "publish"
<1> DEFINE s == WindowsStages
<1>1. /\ StagesOf(mode) = s /\ DOMAIN s = 1 .. 8
      /\ s[1] = "device" /\ s[2] = "lease" /\ s[3] = "route" /\ s[4] = "bringup"
      /\ s[5] = "attach" /\ s[6] = "store" /\ s[7] = "verify" /\ s[8] = "publish"
  BY DEF StagesOf, WindowsStages
<1>2. ASSUME NEW i \in 1 .. 7 PROVE After(s[i]) = s[i + 1]
  <2>1. \A j \in 1 .. 8 : s[j] = s[i] => j = i
    BY <1>1
  <2>2. (CHOOSE j \in DOMAIN s : s[j] = s[i]) = i
    BY <1>1, <2>1
  <2> QED BY <1>1, <2>2 DEF After
<1> QED BY <1>1, <1>2 DEF FirstStage

LEMMA LinuxNext ==
  ASSUME mode = "linux_tun"
  PROVE  /\ FirstStage = "lease" /\ After("lease") = "slot" /\ After("slot") = "device"
         /\ After("device") = "route" /\ After("route") = "bringup"
         /\ After("bringup") = "exclusions" /\ After("exclusions") = "attach"
         /\ After("attach") = "store" /\ After("store") = "verify"
         /\ After("verify") = "publish"
<1> DEFINE s == LinuxStages
<1>1. /\ StagesOf(mode) = s /\ DOMAIN s = 1 .. 10
      /\ s[1] = "lease" /\ s[2] = "slot" /\ s[3] = "device" /\ s[4] = "route"
      /\ s[5] = "bringup" /\ s[6] = "exclusions" /\ s[7] = "attach" /\ s[8] = "store"
      /\ s[9] = "verify" /\ s[10] = "publish"
  BY DEF StagesOf, LinuxStages
<1>2. ASSUME NEW i \in 1 .. 9 PROVE After(s[i]) = s[i + 1]
  <2>1. \A j \in 1 .. 10 : s[j] = s[i] => j = i
    BY <1>1
  <2>2. (CHOOSE j \in DOMAIN s : s[j] = s[i]) = i
    BY <1>1, <2>1
  <2> QED BY <1>1, <2>2 DEF After
<1> QED BY <1>1, <1>2 DEF FirstStage

LEMMA AndroidNext ==
  ASSUME mode = "android_vpn_service"
  PROVE  /\ FirstStage = "permission" /\ After("permission") = "route"
         /\ After("route") = "lease" /\ After("lease") = "bringup"
         /\ After("bringup") = "attach" /\ After("attach") = "store"
         /\ After("store") = "publish"
<1> DEFINE s == AndroidStages
<1>1. /\ StagesOf(mode) = s /\ DOMAIN s = 1 .. 7
      /\ s[1] = "permission" /\ s[2] = "route" /\ s[3] = "lease" /\ s[4] = "bringup"
      /\ s[5] = "attach" /\ s[6] = "store" /\ s[7] = "publish"
  BY DEF StagesOf, AndroidStages
<1>2. ASSUME NEW i \in 1 .. 6 PROVE After(s[i]) = s[i + 1]
  <2>1. \A j \in 1 .. 7 : s[j] = s[i] => j = i
    BY <1>1
  <2>2. (CHOOSE j \in DOMAIN s : s[j] = s[i]) = i
    BY <1>1, <2>1
  <2> QED BY <1>1, <2>2 DEF After
<1> QED BY <1>1, <1>2 DEF FirstStage

(* A call goes on at one of some places and keeps what it is.              *)
Moves(c, pcs) ==
  /\ calls' \in [Calls -> CallRecords(mode)]
  /\ \A d \in Calls \ {c} : calls'[d] = calls[d]
  /\ calls'[c].pc \in pcs
  /\ calls'[c].op = calls[c].op /\ calls'[c].alone = calls[c].alone

(* Of the place it read from the host's clock and the slot it holds.       *)
Keeps(c) ==
  /\ calls'[c].own = calls[c].own /\ calls'[c].at = calls[c].at
  /\ calls'[c].res.ready => calls[c].res.ready

AllPcs(m) == StartPcs(m) \cup StopPcs

\* A record with another place, and with another failure.
LEMMA PcOfRecord ==
  ASSUME NEW m, NEW r \in CallRecords(m), NEW pc \in AllPcs(m)
  PROVE  /\ [r EXCEPT !.pc = pc] \in CallRecords(m)
         /\ LET s == [r EXCEPT !.pc = pc]
            IN /\ s.pc = pc /\ s.op = r.op /\ s.alone = r.alone /\ s.own = r.own
               /\ s.at = r.at /\ s.res = r.res
BY DEF CallRecords, AllPcs

LEMMA ResOfRecord ==
  ASSUME NEW m, NEW r \in CallRecords(m), NEW f \in StartResults(m)
  PROVE  /\ [r EXCEPT !.res = f] \in CallRecords(m)
         /\ LET s == [r EXCEPT !.res = f]
            IN /\ s.pc = r.pc /\ s.op = r.op /\ s.alone = r.alone /\ s.own = r.own
               /\ s.at = r.at /\ s.res = f
BY DEF CallRecords

\* The call of a step has a record of its own, the others keep theirs.
LEMMA CallUpdate ==
  ASSUME TunnelTypeOK, NEW c \in Calls, NEW r \in CallRecords(mode),
         calls' = [calls EXCEPT ![c] = r]
  PROVE  /\ calls' \in [Calls -> CallRecords(mode)]
         /\ calls'[c] = r
         /\ \A d \in Calls \ {c} : calls'[d] = calls[d]
BY DEF TunnelTypeOK

\* The two ways to go on, and the one to fail.
LEMMA GotoMoves ==
  ASSUME TunnelTypeOK, NEW c \in Calls, NEW pc \in AllPcs(mode), Goto(c, pc)
  PROVE  Moves(c, {pc}) /\ Keeps(c) /\ calls'[c].res = calls[c].res
<1> DEFINE r == [calls[c] EXCEPT !.pc = pc]
<1>1. calls[c] \in CallRecords(mode)
  BY DEF TunnelTypeOK
<1>2. r \in CallRecords(mode) /\ calls' = [calls EXCEPT ![c] = r]
  BY <1>1, PcOfRecord DEF Goto, TunnelTypeOK
<1> HIDE DEF r
<1>3. /\ calls' \in [Calls -> CallRecords(mode)] /\ calls'[c] = r
      /\ \A d \in Calls \ {c} : calls'[d] = calls[d]
  BY <1>2, CallUpdate
<1> QED BY <1>1, <1>3, PcOfRecord DEF Moves, Keeps, r

\* The stage after the present one.
LEMMA ProceedMoves ==
  ASSUME TunnelTypeOK, NEW c \in Calls, After(calls[c].pc) \in AllPcs(mode), Proceed(c)
  PROVE  Moves(c, {After(calls[c].pc)}) /\ Keeps(c) /\ calls'[c].res = calls[c].res
<1>1. Goto(c, After(calls[c].pc))
  BY DEF Proceed, Goto
<1> QED BY <1>1, GotoMoves

FailPc(stage) == IF platformTunnelFailureNeedsCleanup(stage) THEN CleanupEntry ELSE "remember"

\* A failure is a result that is not ready.
LEMMA FailureIsResult ==
  ASSUME NEW stage \in StartupStages \cup {""}, NEW missing \in Words(mode)
  PROVE  Failure(stage, missing) \in StartResults(mode) /\ ~Failure(stage, missing).ready
BY DEF Failure, NoResult, StartResults

\* The place of a failure is one where calls may be.
LEMMA FailPcOK == ASSUME NEW stage PROVE FailPc(stage) \in AllPcs(mode)
BY DEF FailPc, CleanupEntry, AllPcs, StartPcs, StopPcs, CleanPcs

\* What goes wrong is named by words that every host may use.
LEMMA FailMoves ==
  ASSUME TunnelTypeOK, NEW c \in Calls,
         NEW stage \in StartupStages, NEW missing \in Words(mode),
         Fail(c, Failure(stage, missing))
  PROVE  Moves(c, {FailPc(stage)}) /\ Keeps(c) /\ ~calls'[c].res.ready
<1> DEFINE f == Failure(stage, missing)
           g == [calls[c] EXCEPT !.res = f]
           r == [g EXCEPT !.pc = FailPc(stage)]
<1>1. f \in StartResults(mode) /\ ~f.ready /\ f.stage = stage
  BY FailureIsResult DEF Failure, NoResult
<1>2. FailPc(stage) \in AllPcs(mode)
  BY FailPcOK
<1>3. calls[c] \in CallRecords(mode)
  BY DEF TunnelTypeOK
<1>4. calls' = [calls EXCEPT ![c] = r]
  BY <1>1 DEF Fail, FailPc
<1> HIDE DEF f
<1>5. /\ g \in CallRecords(mode) /\ g.op = calls[c].op /\ g.alone = calls[c].alone
      /\ g.own = calls[c].own /\ g.at = calls[c].at /\ g.res = f
  BY <1>1, <1>3, ResOfRecord
<1> HIDE DEF g
<1>6. /\ r \in CallRecords(mode) /\ r.op = g.op /\ r.alone = g.alone
      /\ r.own = g.own /\ r.at = g.at /\ r.res = g.res /\ r.pc = FailPc(stage)
  BY <1>2, <1>5, PcOfRecord
<1> HIDE DEF r
<1>7. /\ calls' \in [Calls -> CallRecords(mode)] /\ calls'[c] = r
      /\ \A d \in Calls \ {c} : calls'[d] = calls[d]
  BY <1>4, <1>6, CallUpdate
<1> QED BY <1>1, <1>5, <1>6, <1>7 DEF Moves, Keeps

\* The words that are spelled out.
LEMMA WordsOfStarts ==
  {"permission", "driver", "route_exclusion", "dns_bypass", "app_routing_policy",
   "host_implementation", "transport_profile", "dataplane_evidence"} \subseteq Words(mode)
BY DEF Words, Prerequisites

\* A step of a call leaves it active and keeps what the calls are.
LEMMA MoveKeepsCalls ==
  ASSUME TunnelTypeOK, CallsOK, NEW c \in Active, NEW pcs, Moves(c, pcs),
         pcs \cap {"unused", "done"} = {},
         calls[c].op = "stop" => pcs \subseteq StopPcs,
         "stopped" \in pcs => calls[c].op = "stop",
         calls'[c].res.ready => calls'[c].pc = "remember",
         overlaps' = overlaps
  PROVE  CallsOK' /\ Active' = Active
<1>1. c \in Calls /\ calls[c].op # ""
  BY DEF Active, CallsOK, CallOK
<1>2. Active' = Active
  BY <1>1 DEF Active, Moves
<1>3. ASSUME NEW d \in Calls PROVE CallOK(d)'
  <2>1. CASE d = c
    BY <1>1, <1>2, <2>1 DEF CallsOK, CallOK, Moves
  <2>2. CASE d # c
    BY <1>2, <2>2 DEF CallsOK, CallOK, Moves
  <2> QED BY <2>1, <2>2
<1> QED BY <1>2, <1>3 DEF CallsOK

\* A call that returns.
LEMMA ReturnKeepsCalls ==
  ASSUME TunnelTypeOK, CallsOK, NEW c \in Active, NEW ok, Return(c, ok), overlaps' = overlaps
  PROVE  /\ CallsOK' /\ Active' = Active \ {c}
         /\ calls' \in [Calls -> CallRecords(mode)] /\ calls'[c].op = ""
         /\ calls'[c].at = 0
         /\ \A d \in Calls \ {c} : calls'[d] = calls[d]
<1> DEFINE r == [Unused EXCEPT !.pc = "done",
                               !.request = IF c \in attempts THEN calls[c].request ELSE ""]
<1>1. c \in Calls
  BY DEF Active
<1>2. /\ r \in CallRecords(mode) /\ r.op = "" /\ r.pc = "done" /\ r.at = 0 /\ ~r.res.ready
  <2>1. calls[c] \in CallRecords(mode)
    BY <1>1 DEF TunnelTypeOK
  <2>2. calls[c].request \in DOMAIN Requests[mode] \cup {""}
    BY <2>1 DEF CallRecords
  <2>3. NoResult \in StartResults(mode)
    BY DEF NoResult, StartResults, Words
  <2>4. Unused \in CallRecords(mode)
    BY <2>3, TunnelBounds DEF Unused, CallRecords, Ops
  <2>5. Unused.op = "" /\ Unused.at = 0 /\ ~Unused.res.ready
    BY DEF Unused, NoResult
  <2> QED BY <2>2, <2>4, <2>5 DEF CallRecords
<1>3. calls' = [calls EXCEPT ![c] = r]
  BY DEF Return
<1> HIDE DEF r
<1>4. /\ calls' \in [Calls -> CallRecords(mode)] /\ calls'[c] = r
      /\ \A d \in Calls \ {c} : calls'[d] = calls[d]
  BY <1>1, <1>2, <1>3, CallUpdate
<1>5. Active' = Active \ {c}
  BY <1>1, <1>2, <1>4 DEF Active
<1>6. ASSUME NEW d \in Calls PROVE CallOK(d)'
  <2>1. CASE d = c
    BY <1>2, <1>4, <1>5, <2>1 DEF CallOK
  <2>2. CASE d # c
    BY <1>4, <1>5, <2>2 DEF CallsOK, CallOK
  <2> QED BY <2>1, <2>2
<1> QED BY <1>2, <1>4, <1>5, <1>6 DEF CallsOK

\* A step between two stages of a start leaves the host's tables alone.
LEMMA StageKeeps ==
  ASSUME TunnelInv, NEW c \in Active, NEW pcs, Moves(c, pcs),
         calls'[c].at = calls[c].at, calls'[c].res.ready => calls[c].res.ready,
         pcs \cap {"unused", "done", "pending", "resume", "unpublish", "stopped"} = {},
         calls[c].pc \notin StopPcs \cup {"pending", "resume", "remember"},
         UNCHANGED <<mode, tables, attempts, overlaps, last>>,
         mode # "linux_tun" => slot' = slot
  PROVE  /\ CallsOK' /\ Active' = Active /\ ClockOK' /\ HealInv' /\ PendingInv'
         /\ Live' = Live /\ (ReadyIsFollowed => ReadyIsFollowed')
<1> USE DEF TunnelInv
<1>1. c \in Calls /\ calls[c].op # "stop" /\ ~calls[c].res.ready
  BY DEF Active, CallsOK, CallOK
<1>2. CallsOK' /\ Active' = Active
  BY <1>1, MoveKeepsCalls
<1>3. /\ \A d \in Calls \ {c} : calls'[d] = calls[d]
      /\ calls'[c].op = calls[c].op
      /\ calls'[c].pc \in pcs
  BY DEF Moves
<1>4. ClockOK'
  BY <1>3 DEF ClockOK, tables
<1>5. HealInv'
  <2>1. ASSUME NEW d \in Active', calls'[d].op = "stop", calls'[d].alone
        PROVE  FALSE
    <3>1. d \in Calls /\ d # c
      BY <1>1, <1>3, <2>1 DEF Active
    <3>2. d \in Active /\ calls[d].alone
      BY <1>2, <1>3, <2>1, <3>1
    <3>3. CallOK(d)
      BY <3>1 DEF CallsOK
    <3>4. Active = {d}
      BY <3>2, <3>3 DEF CallOK
    <3> QED BY <3>1, <3>4
  <2>2. last' # [op |-> "stop", alone |-> TRUE, ok |-> TRUE]
    BY DEF HealInv, HealedByStop
  <2> QED BY <2>1, <2>2 DEF HealInv
<1>6. PendingInv'
  <2> SUFFICES ASSUME overlaps = 0
               PROVE  \A d \in Active : PendingOK(d)'
    BY <1>2 DEF PendingInv
  <2>1. Active = {c}
    BY DEF CallsOK
  <2>2. startupRequests = attempts
    BY <2>1 DEF PendingInv, PendingOK, StopPcs, CleanPcs
  <2> QED BY <1>3, <2>1, <2>2 DEF PendingOK, tables
<1>7. Live' = Live /\ (ReadyIsFollowed => ReadyIsFollowed')
  BY DEF Live, ReadyIsFollowed, tables
<1> QED BY <1>2, <1>4, <1>5, <1>6, <1>7

\* Where one call runs, the place of that call says all.
LEMMA StepSettles ==
  ASSUME TunnelInv, NEW c \in Active, Active' = Active,
         overlaps' = overlaps, botched \in BOOLEAN, botched => botched',
         ASSUME overlaps = 0, ~botched, ~botched', NativeSound, ReadyIsFollowed,
                Active = {c}, TunnelOK(c)
         PROVE  NativeSound' /\ ReadyIsFollowed' /\ TunnelOK(c)'
  PROVE  SettledInv'
BY DEF TunnelInv, SettledInv, CallsOK

NativeTypeOK ==
  /\ slot \in 0 .. MaxCalls
  /\ native \in [dev : 0 .. MaxCalls, excl : BOOLEAN, runtime : 0 .. MaxCalls]
  /\ devices \subseteq Calls /\ runtimes \subseteq Calls /\ routes \in BOOLEAN
  /\ botched \in BOOLEAN

\* A step between two stages keeps the invariant if what it does to the

\* native state fits the place it leads to.
LEMMA StageStep ==
  ASSUME TunnelInv, NEW c \in Active, NEW pcs, Moves(c, pcs),
         calls'[c].at = calls[c].at, calls'[c].res.ready => calls[c].res.ready,
         pcs \cap {"unused", "done", "pending", "resume", "unpublish", "stopped"} = {},
         calls[c].pc \notin StopPcs \cup {"pending", "resume", "remember"},
         UNCHANGED <<envVars, tables, attempts, overlaps, last>>,
         mode # "linux_tun" => slot' = slot,
         NativeTypeOK', botched => botched',
         ASSUME overlaps = 0, ~botched, ~botched', NativeSound, Active = {c}, TunnelOK(c),
                Live' = Live
         PROVE  NativeSound' /\ TunnelOK(c)'
  PROVE  TunnelInv'
<1>1. TunnelTypeOK'
  BY DEF TunnelInv, TunnelTypeOK, NativeTypeOK, Moves, envVars, tables
<1>2. /\ CallsOK' /\ Active' = Active /\ ClockOK' /\ HealInv' /\ PendingInv'
      /\ Live' = Live /\ (ReadyIsFollowed => ReadyIsFollowed')
  <2>1. mode' = mode
    BY DEF envVars
  <2> QED BY <2>1, StageKeeps
<1>3. SettledInv'
  <2>1. botched \in BOOLEAN
    BY DEF TunnelInv, TunnelTypeOK
  <2> QED BY <1>2, <2>1, StepSettles
<1> QED BY <1>1, <1>2, <1>3 DEF TunnelInv

\* WindowsBringupHost, LinuxBringupHost, InstallExclusions, AndroidBringupHost:

\* the interface and the underlay routes.
LEMMA StepWindowsBringup ==
  ASSUME TunnelInv, NEW c \in Active, WindowsBringupHost(c)
  PROVE  TunnelInv'
<1> DEFINE pcs == {"attach", "clean", "cleanup"}
<1>1. c \in Calls /\ TunnelTypeOK /\ mode = "windows_wintun" /\ calls[c].pc = "bringup"
  BY DEF Active, TunnelInv, WindowsBringupHost, At
<1>2. Moves(c, pcs) /\ Keeps(c)
  <2>1. CASE Proceed(c)
    BY <1>1, <2>1, WindowsNext, ProceedMoves DEF AllPcs, StartPcs, StagePcs, Moves
  <2>2. CASE BringupFails(c)
    BY <1>1, <2>2, FailMoves, WordsOfStarts
       DEF BringupFails, StartupStages, FailPc, CleanupEntry, platformTunnelFailureNeedsCleanup,
           Moves
  <2> QED BY <2>1, <2>2 DEF WindowsBringupHost
<1>3. NativeTypeOK'
  BY <1>1 DEF TunnelTypeOK, NativeTypeOK, WindowsBringupHost, history
<1>4. ASSUME overlaps = 0, ~botched, ~botched', NativeSound, Active = {c}, TunnelOK(c), Live' = Live
      PROVE  NativeSound' /\ TunnelOK(c)'
  BY <1>1, <1>2, <1>4
     DEF WindowsBringupHost, NativeSound, TunnelOK, Untouched, Prepared, Configured,
     Moves, Attached, Matches, envVars, tables, nativeVars, history
<1> QED
  BY <1>1, <1>2, <1>3, <1>4, StageStep
     DEF WindowsBringupHost, Keeps, history, StopPcs, CleanPcs

NativeKinds == native \in [dev : 0 .. MaxCalls, excl : BOOLEAN, runtime : 0 .. MaxCalls]

\* A call has a number, and 0 is none.
LEMMA CallNumbers == ASSUME NEW c \in Calls PROVE c \in 0 .. MaxCalls /\ c # 0
BY TunnelBounds DEF Calls

\* One part of the lifecycle's state changes, or none.
LEMMA NativeUpdate ==
  ASSUME TunnelTypeOK, NEW c \in Calls
  PROVE  /\ native' = native => NativeKinds'
         /\ native' = [native EXCEPT !.excl = TRUE] =>
              /\ NativeKinds' /\ native'.excl
              /\ native'.dev = native.dev /\ native'.runtime = native.runtime
         /\ native' = [native EXCEPT !.runtime = c] =>
              /\ NativeKinds' /\ native'.runtime = c
              /\ native'.dev = native.dev /\ native'.excl = native.excl
         /\ native' = [native EXCEPT !.dev = c] =>
              /\ NativeKinds' /\ native'.dev = c
              /\ native'.runtime = native.runtime /\ native'.excl = native.excl
BY CallNumbers DEF TunnelTypeOK, NativeKinds

\* Places that one mode has.
LEMMA PlaceOfMode ==
  ASSUME TunnelTypeOK, NEW c \in Calls
  PROVE  /\ calls[c].pc \in {"exclusions", "slot"} => mode = "linux_tun"
         /\ calls[c].pc = "verify" => mode \in {"windows_wintun", "linux_tun"}
         /\ calls[c].pc \in {"permission", "take", "resume", "pending"} =>
              mode = "android_vpn_service"
         /\ calls[c].pc = "device" => mode \in {"windows_wintun", "linux_tun"}
<1>1. calls[c].pc \in StartPcs(mode) \cup StopPcs \cup {"unused", "done"}
  BY DEF TunnelTypeOK, CallRecords
<1> QED BY <1>1, ThreeModes DEF TunnelTypeOK, StartPcs, StagePcs, StopPcs, CleanPcs

\* The interface of Linux, from a copy of the state.
LEMMA StepLinuxBringup ==
  ASSUME TunnelInv, NEW c \in Active, LinuxBringupHost(c)
  PROVE  TunnelInv'
<1> DEFINE pcs == {"exclusions", CleanupEntry}
<1>1. c \in Calls /\ TunnelTypeOK /\ mode = "linux_tun" /\ calls[c].pc = "bringup"
  BY DEF Active, TunnelInv, LinuxBringupHost, At
<1>2. Moves(c, pcs) /\ Keeps(c)
  <2>1. CASE Proceed(c)
    BY <1>1, <2>1, LinuxNext, ProceedMoves DEF AllPcs, StartPcs, StagePcs, Moves
  <2>2. CASE BringupFails(c)
    BY <1>1, <2>2, FailMoves, WordsOfStarts
       DEF BringupFails, StartupStages, FailPc, platformTunnelFailureNeedsCleanup, Moves
  <2> QED BY <2>1, <2>2 DEF LinuxBringupHost
<1>3. NativeTypeOK'
  BY <1>1 DEF TunnelTypeOK, NativeTypeOK, NativeKinds, LinuxBringupHost, history, nativeVars
<1>4. ASSUME overlaps = 0, ~botched, ~botched', NativeSound, Active = {c}, TunnelOK(c), Live' = Live
      PROVE  NativeSound' /\ TunnelOK(c)'
  BY <1>1, <1>2, <1>4 DEF LinuxBringupHost, NativeSound, TunnelOK, Untouched, Prepared, Configured,
     Moves, Keeps, Attached, Matches, CleanupEntry, envVars, tables, nativeVars, history
<1> QED
  BY <1>1, <1>2, <1>3, <1>4, StageStep
     DEF LinuxBringupHost, Keeps, history, StopPcs, CleanPcs, CleanupEntry

\* The underlay routes of Linux may be installed when the bring-up fails.
LEMMA StepExclusions ==
  ASSUME TunnelInv, NEW c \in Active, InstallExclusions(c)
  PROVE  TunnelInv'
<1> DEFINE pcs == {"attach", CleanupEntry}
<1>1. c \in Calls /\ TunnelTypeOK /\ mode = "linux_tun" /\ calls[c].pc = "exclusions"
  BY PlaceOfMode DEF Active, TunnelInv, InstallExclusions, At
<1>2. Moves(c, pcs) /\ Keeps(c)
  <2>1. CASE Proceed(c)
    BY <1>1, <2>1, LinuxNext, ProceedMoves DEF AllPcs, StartPcs, StagePcs, Moves
  <2>2. CASE BringupFails(c)
    BY <1>1, <2>2, FailMoves, WordsOfStarts
       DEF BringupFails, StartupStages, FailPc, platformTunnelFailureNeedsCleanup, Moves
  <2> QED BY <2>1, <2>2 DEF InstallExclusions
<1>3. NativeTypeOK'
  BY <1>1 DEF TunnelTypeOK, NativeTypeOK, NativeKinds, InstallExclusions, history, nativeVars
<1>4. ASSUME overlaps = 0, ~botched, ~botched', NativeSound, Active = {c}, TunnelOK(c), Live' = Live
      PROVE  NativeSound' /\ TunnelOK(c)'
  BY <1>1, <1>2, <1>4 DEF InstallExclusions, NativeSound, TunnelOK, Untouched, Prepared, Configured,
     Moves, Keeps, Attached, Matches, CleanupEntry, envVars, tables, nativeVars, history
<1> QED
  BY <1>1, <1>2, <1>3, <1>4, StageStep
     DEF InstallExclusions, Keeps, history, StopPcs, CleanPcs, CleanupEntry

\* The VpnService that takes the place of an older one.
LEMMA StepAndroidBringup ==
  ASSUME TunnelInv, NEW c \in Active, AndroidBringupHost(c)
  PROVE  TunnelInv'
<1> DEFINE pcs == {"attach", CleanupEntry}
<1>1. c \in Calls /\ TunnelTypeOK /\ mode = "android_vpn_service" /\ calls[c].pc = "bringup"
  BY DEF Active, TunnelInv, AndroidBringupHost, At
<1>2. Moves(c, pcs) /\ Keeps(c)
  <2>1. CASE Proceed(c)
    BY <1>1, <2>1, AndroidNext, ProceedMoves DEF AllPcs, StartPcs, StagePcs, Moves
  <2>2. CASE BringupFails(c)
    BY <1>1, <2>2, FailMoves, WordsOfStarts
       DEF BringupFails, StartupStages, FailPc, platformTunnelFailureNeedsCleanup, Moves
  <2> QED BY <2>1, <2>2 DEF AndroidBringupHost
<1>0. /\ UNCHANGED <<slot, runtimes, routes, botched>> /\ NativeKinds'
      /\ native'.runtime = native.runtime /\ native'.excl = native.excl
      /\ \/ calls'[c].pc = CleanupEntry /\ native' = native /\ devices' = devices
         \/ calls'[c].pc = "attach" /\ native'.dev = c /\ devices' = {c}
  <2>1. ASSUME Proceed(c) PROVE calls'[c].pc = "attach"
    BY <1>1, <2>1, AndroidNext, ProceedMoves DEF AllPcs, StartPcs, StagePcs, Moves
  <2>2. ASSUME BringupFails(c) PROVE calls'[c].pc = CleanupEntry
    BY <1>1, <2>2, FailMoves, WordsOfStarts
       DEF BringupFails, StartupStages, FailPc, CleanupEntry, platformTunnelFailureNeedsCleanup,
           Moves
  <2> QED BY <1>1, <2>1, <2>2, CallNumbers, NativeUpdate DEF AndroidBringupHost, history, nativeVars
<1>3. NativeTypeOK'
  BY <1>0, CallNumbers, <1>1
     DEF TunnelTypeOK, NativeTypeOK, NativeKinds, AndroidBringupHost, history, nativeVars
<1>4. ASSUME overlaps = 0, ~botched, ~botched', NativeSound, Active = {c}, TunnelOK(c), Live' = Live
      PROVE  NativeSound' /\ TunnelOK(c)'
  <2>1. mode' = mode /\ calls'[c].pc \in pcs /\ calls'[c].own = calls[c].own
    BY <1>2 DEF AndroidBringupHost, Moves, Keeps, envVars
  <2>2. NativeSound'
    BY <1>0, CallNumbers, <1>1, <1>4, <2>1
       DEF NativeSound, TunnelOK, Prepared, NativeKinds, CleanupEntry
  <2>3. TunnelOK(c)'
    BY <1>0, CallNumbers, <1>1, <1>4, <2>1
       DEF NativeSound, TunnelOK, Untouched, Prepared, Configured, Attached, Matches,
           CleanupEntry, NativeKinds
  <2> QED BY <2>2, <2>3
<1> QED
  BY <1>1, <1>2, <1>3, <1>4, StageStep
     DEF AndroidBringupHost, Keeps, history, StopPcs, CleanPcs, CleanupEntry

\* The three ValidateRoutePolicy: the exclusions are recorded.
LEMMA StepWindowsRoute ==
  ASSUME TunnelInv, NEW c \in Active, WindowsValidateRoutePolicy(c)
  PROVE  TunnelInv'
<1> DEFINE pcs == {"bringup", CleanupEntry}
<1>1. c \in Calls /\ TunnelTypeOK /\ mode = "windows_wintun" /\ calls[c].pc = "route"
  BY DEF Active, TunnelInv, WindowsValidateRoutePolicy, At
<1>2. Moves(c, pcs) /\ Keeps(c)
  <2>1. CASE Proceed(c)
    BY <1>1, <2>1, WindowsNext, ProceedMoves DEF AllPcs, StartPcs, StagePcs, Moves
  <2>2. CASE Fail(c, Failure("route_validate", "route_exclusion"))
    BY <1>1, <2>2, FailMoves, WordsOfStarts
       DEF StartupStages, FailPc, platformTunnelFailureNeedsCleanup, Moves
  <2> QED BY <2>1, <2>2 DEF WindowsValidateRoutePolicy, RecordExclusions
<1>0. /\ UNCHANGED <<slot, devices, runtimes, routes, botched>> /\ NativeKinds'
      /\ native'.dev = native.dev /\ native'.runtime = native.runtime
      /\ native.excl => native'.excl
      /\ calls'[c].pc = "bringup" /\ native.dev # 0 => native'.excl
      /\ native' = native \/ (native.dev # 0 /\ native'.excl)
  <2>1. ASSUME Proceed(c) PROVE calls'[c].pc = "bringup"
    BY <1>1, <2>1, WindowsNext, ProceedMoves DEF AllPcs, StartPcs, StagePcs, Moves
  <2>2. ASSUME Fail(c, Failure("route_validate", "route_exclusion"))
        PROVE  calls'[c].pc = CleanupEntry
    BY <1>1, <2>2, FailMoves, WordsOfStarts
       DEF StartupStages, FailPc, CleanupEntry, platformTunnelFailureNeedsCleanup, Moves
  <2>3. UNCHANGED <<slot, devices, runtimes, routes, botched>>
    BY DEF WindowsValidateRoutePolicy, RecordExclusions, history
  <2>4. CASE calls'[c].pc = CleanupEntry
    <3>1. native' = native
      BY <2>1, <2>4 DEF WindowsValidateRoutePolicy, RecordExclusions, CleanupEntry
    <3> QED BY <1>1, <2>3, <2>4, <3>1, NativeUpdate DEF CleanupEntry
  <2>5. CASE /\ Proceed(c)
             /\ native' = IF native.dev # 0 THEN [native EXCEPT !.excl = TRUE] ELSE native
    <3>1. calls'[c].pc = "bringup"
      BY <2>1, <2>5
    <3>2. NativeKinds' /\ native'.dev = native.dev /\ native'.runtime = native.runtime
      BY <1>1, <2>5, NativeUpdate
    <3>3. (native.dev # 0 => native'.excl) /\ (native' = native \/ (native.dev # 0 /\ native'.excl))
      BY <1>1, <2>5, NativeUpdate
    <3> QED BY <2>3, <3>1, <3>2, <3>3
  <2> QED BY <2>2, <2>4, <2>5 DEF WindowsValidateRoutePolicy, RecordExclusions
<1>3. NativeTypeOK'
  BY <1>0, CallNumbers, <1>1
     DEF TunnelTypeOK, NativeTypeOK, NativeKinds, WindowsValidateRoutePolicy, RecordExclusions,
         history, nativeVars
<1>4. ASSUME overlaps = 0, ~botched, ~botched', NativeSound, Active = {c}, TunnelOK(c), Live' = Live
      PROVE  NativeSound' /\ TunnelOK(c)'
  <2>1. mode' = mode /\ calls'[c].pc \in pcs /\ calls'[c].own = calls[c].own
    BY <1>2 DEF WindowsValidateRoutePolicy, RecordExclusions, Moves, Keeps, envVars
  <2>2. NativeSound'
    BY <1>0, CallNumbers, <1>1, <1>4, <2>1
       DEF NativeSound, TunnelOK, Prepared, NativeKinds, CleanupEntry
  <2>3. TunnelOK(c)'
    BY <1>0, CallNumbers, <1>1, <1>4, <2>1
       DEF NativeSound, TunnelOK, Untouched, Prepared, Configured, Attached, Matches,
           CleanupEntry, NativeKinds
  <2> QED BY <2>2, <2>3
<1> QED
  BY <1>1, <1>2, <1>3, <1>4, StageStep
     DEF WindowsValidateRoutePolicy, RecordExclusions, Keeps, history, StopPcs, CleanPcs,
         CleanupEntry

\* The same on Linux, where name servers may be missing.
LEMMA StepLinuxRoute ==
  ASSUME TunnelInv, NEW c \in Active, LinuxValidateRoutePolicy(c)
  PROVE  TunnelInv'
<1> DEFINE pcs == {"bringup", CleanupEntry}
<1>1. c \in Calls /\ TunnelTypeOK /\ mode = "linux_tun" /\ calls[c].pc = "route"
  BY DEF Active, TunnelInv, LinuxValidateRoutePolicy, At
<1>2. Moves(c, pcs) /\ Keeps(c)
  <2>1. CASE Proceed(c)
    BY <1>1, <2>1, LinuxNext, ProceedMoves DEF AllPcs, StartPcs, StagePcs, Moves
  <2>2. CASE Fail(c, Failure("route_validate", "dns_bypass"))
    BY <1>1, <2>2, FailMoves, WordsOfStarts
       DEF StartupStages, FailPc, platformTunnelFailureNeedsCleanup, Moves
  <2> QED BY <2>1, <2>2 DEF LinuxValidateRoutePolicy, RecordExclusions
<1>0. /\ UNCHANGED <<slot, devices, runtimes, routes, botched>> /\ NativeKinds'
      /\ native'.dev = native.dev /\ native'.runtime = native.runtime
      /\ native.excl => native'.excl
      /\ calls'[c].pc = "bringup" /\ native.dev # 0 => native'.excl
      /\ native' = native \/ (native.dev # 0 /\ native'.excl)
  <2>1. ASSUME Proceed(c) PROVE calls'[c].pc = "bringup"
    BY <1>1, <2>1, LinuxNext, ProceedMoves DEF AllPcs, StartPcs, StagePcs, Moves
  <2>2. ASSUME Fail(c, Failure("route_validate", "dns_bypass")) PROVE calls'[c].pc = CleanupEntry
    BY <1>1, <2>2, FailMoves, WordsOfStarts
       DEF StartupStages, FailPc, CleanupEntry, platformTunnelFailureNeedsCleanup, Moves
  <2>3. UNCHANGED <<slot, devices, runtimes, routes, botched>>
    BY DEF LinuxValidateRoutePolicy, RecordExclusions, history
  <2>4. CASE calls'[c].pc = CleanupEntry
    <3>1. native' = native
      BY <2>1, <2>4 DEF LinuxValidateRoutePolicy, RecordExclusions, CleanupEntry
    <3> QED BY <1>1, <2>3, <2>4, <3>1, NativeUpdate DEF CleanupEntry
  <2>5. CASE /\ Proceed(c)
             /\ native' = IF native.dev # 0 THEN [native EXCEPT !.excl = TRUE] ELSE native
    <3>1. calls'[c].pc = "bringup"
      BY <2>1, <2>5
    <3>2. NativeKinds' /\ native'.dev = native.dev /\ native'.runtime = native.runtime
      BY <1>1, <2>5, NativeUpdate
    <3>3. (native.dev # 0 => native'.excl) /\ (native' = native \/ (native.dev # 0 /\ native'.excl))
      BY <1>1, <2>5, NativeUpdate
    <3> QED BY <2>3, <3>1, <3>2, <3>3
  <2> QED BY <2>2, <2>4, <2>5 DEF LinuxValidateRoutePolicy, RecordExclusions
<1>3. NativeTypeOK'
  BY <1>0, CallNumbers, <1>1
     DEF TunnelTypeOK, NativeTypeOK, NativeKinds, LinuxValidateRoutePolicy, RecordExclusions,
         history, nativeVars
<1>4. ASSUME overlaps = 0, ~botched, ~botched', NativeSound, Active = {c}, TunnelOK(c), Live' = Live
      PROVE  NativeSound' /\ TunnelOK(c)'
  <2>1. mode' = mode /\ calls'[c].pc \in pcs /\ calls'[c].own = calls[c].own
    BY <1>2 DEF LinuxValidateRoutePolicy, RecordExclusions, Moves, Keeps, envVars
  <2>2. NativeSound'
    BY <1>0, CallNumbers, <1>1, <1>4, <2>1
       DEF NativeSound, TunnelOK, Prepared, NativeKinds, CleanupEntry
  <2>3. TunnelOK(c)'
    BY <1>0, CallNumbers, <1>1, <1>4, <2>1
       DEF NativeSound, TunnelOK, Untouched, Prepared, Configured, Attached, Matches,
           CleanupEntry, NativeKinds
  <2> QED BY <2>2, <2>3
<1> QED
  BY <1>1, <1>2, <1>3, <1>4, StageStep
     DEF LinuxValidateRoutePolicy, RecordExclusions, Keeps, history, StopPcs, CleanPcs, CleanupEntry

\* Android's app judges the policy, and nothing changes.
LEMMA StepAndroidRoute ==
  ASSUME TunnelInv, NEW c \in Active, AndroidValidateRoutePolicy(c)
  PROVE  TunnelInv'
<1> DEFINE pcs == {"lease", CleanupEntry}
<1>1. c \in Calls /\ TunnelTypeOK /\ mode = "android_vpn_service" /\ calls[c].pc = "route"
  BY DEF Active, TunnelInv, AndroidValidateRoutePolicy, At
<1>2. Moves(c, pcs) /\ Keeps(c)
  <2>1. CASE Proceed(c)
    BY <1>1, <2>1, AndroidNext, ProceedMoves DEF AllPcs, StartPcs, StagePcs, Moves
  <2>2. CASE Fail(c, Failure("route_validate", "app_routing_policy"))
    BY <1>1, <2>2, FailMoves, WordsOfStarts
       DEF StartupStages, FailPc, platformTunnelFailureNeedsCleanup, Moves
  <2> QED BY <2>1, <2>2 DEF AndroidValidateRoutePolicy
<1>3. NativeTypeOK'
  BY <1>1
     DEF TunnelTypeOK, NativeTypeOK, NativeKinds, AndroidValidateRoutePolicy, history,
         nativeVars
<1>4. ASSUME overlaps = 0, ~botched, ~botched', NativeSound, Active = {c}, TunnelOK(c), Live' = Live
      PROVE  NativeSound' /\ TunnelOK(c)'
  BY <1>1, <1>2, <1>4
     DEF AndroidValidateRoutePolicy, NativeSound, TunnelOK, Untouched, Prepared, Configured,
     Moves, Keeps, Attached, Matches, CleanupEntry, envVars, tables, nativeVars, history
<1> QED
  BY <1>1, <1>2, <1>3, <1>4, StageStep
     DEF AndroidValidateRoutePolicy, Keeps, history, StopPcs, CleanPcs, CleanupEntry

\* AttachRuntime, StoreRuntime, replaceRuntime: the runtime.
LEMMA StepAttach ==
  ASSUME TunnelInv, NEW c \in Active, AttachRuntime(c)
  PROVE  TunnelInv'
<1> DEFINE pcs == {"store", CleanupEntry}
<1>1. c \in Calls /\ TunnelTypeOK /\ mode \in Modes /\ calls[c].pc = "attach"
  BY DEF Active, TunnelTypeOK, TunnelInv, AttachRuntime, At
<1>2. Moves(c, pcs) /\ Keeps(c)
  <2>1. CASE Proceed(c)
    BY <1>1, <2>1, WindowsNext, LinuxNext, AndroidNext, ThreeModes, ProceedMoves
       DEF AllPcs, StartPcs, StagePcs, Moves
  <2>2. CASE AttachFails(c)
    BY <1>1, <2>2, FailMoves, WordsOfStarts
       DEF AttachFails, StartupStages, FailPc, platformTunnelFailureNeedsCleanup, Moves
  <2> QED BY <2>1, <2>2 DEF AttachRuntime
<1>3. NativeTypeOK'
  BY <1>1 DEF TunnelTypeOK, NativeTypeOK, NativeKinds, AttachRuntime, history, nativeVars
<1>4. ASSUME overlaps = 0, ~botched, ~botched', NativeSound, Active = {c}, TunnelOK(c), Live' = Live
      PROVE  NativeSound' /\ TunnelOK(c)'
  BY <1>1, <1>2, <1>4, ThreeModes
     DEF AttachRuntime, NativeSound, TunnelOK, Untouched, Prepared, Configured,
     Moves, Keeps, Attached, Matches, CleanupEntry, envVars, tables, nativeVars, history
<1> QED
  BY <1>1, <1>2, <1>3, <1>4, StageStep
     DEF AttachRuntime, Keeps, history, StopPcs, CleanPcs, CleanupEntry

\* A runtime is attached; a desktop lifecycle without state does not keep it.
LEMMA StepStore ==
  ASSUME TunnelInv, NEW c \in Active, StoreRuntime(c)
  PROVE  TunnelInv'
<1> DEFINE pcs == {"verify", CleanupEntry}
<1>1. /\ c \in Calls /\ TunnelTypeOK
      /\ mode \in {"windows_wintun", "linux_tun"} /\ calls[c].pc = "store"
  BY DEF Active, TunnelInv, StoreRuntime, At, IsDesktop
<1>2. Moves(c, pcs) /\ Keeps(c)
  <2>1. CASE Proceed(c)
    BY <1>1, <2>1, WindowsNext, LinuxNext, AndroidNext, ThreeModes, ProceedMoves
       DEF AllPcs, StartPcs, StagePcs, Moves
  <2>2. CASE AttachFails(c)
    BY <1>1, <2>2, FailMoves, WordsOfStarts
       DEF AttachFails, StartupStages, FailPc, platformTunnelFailureNeedsCleanup, Moves
  <2> QED BY <2>1, <2>2 DEF StoreRuntime, StartRuntime
<1>0. /\ UNCHANGED <<slot, devices, routes, botched>> /\ NativeKinds'
      /\ native'.dev = native.dev /\ native'.excl = native.excl
      /\ \/ /\ calls'[c].pc = CleanupEntry /\ runtimes' = runtimes
            /\ native'.runtime = native.runtime \/ c \in runtimes
         \/ /\ calls'[c].pc = "verify" /\ runtimes' = runtimes \cup {c}
            /\ native'.runtime = IF native.dev # 0 THEN c ELSE native.runtime
  <2>1. ASSUME Proceed(c) PROVE calls'[c].pc = "verify"
    BY <1>1, <2>1, WindowsNext, LinuxNext, AndroidNext, ThreeModes, ProceedMoves
       DEF AllPcs, StartPcs, StagePcs, Moves
  <2>2. ASSUME AttachFails(c) PROVE calls'[c].pc = CleanupEntry
    BY <1>1, <2>2, FailMoves, WordsOfStarts
       DEF AttachFails, StartupStages, FailPc, CleanupEntry, platformTunnelFailureNeedsCleanup,
           Moves
  <2> QED BY <1>1, <2>1, <2>2, CallNumbers, NativeUpdate
             DEF StoreRuntime, StartRuntime, history, nativeVars
<1>3. NativeTypeOK'
  BY <1>0, CallNumbers, <1>1
     DEF TunnelTypeOK, NativeTypeOK, NativeKinds, StoreRuntime, StartRuntime, history,
         nativeVars
<1>4. ASSUME overlaps = 0, ~botched, ~botched', NativeSound, Active = {c}, TunnelOK(c), Live' = Live
      PROVE  NativeSound' /\ TunnelOK(c)'
  <2>1. mode' = mode /\ calls'[c].pc \in pcs /\ calls'[c].own = calls[c].own
    BY <1>2 DEF StoreRuntime, StartRuntime, Moves, Keeps, envVars
  <2>2. NativeSound'
    BY <1>0, CallNumbers, <1>1, <1>4, <2>1
       DEF NativeSound, TunnelOK, Prepared, NativeKinds, CleanupEntry
  <2>3. TunnelOK(c)'
    BY <1>0, CallNumbers, <1>1, <1>4, <2>1
       DEF NativeSound, TunnelOK, Untouched, Prepared, Configured, Attached, Matches,
           CleanupEntry, NativeKinds
  <2> QED BY <2>2, <2>3
<1> QED
  BY <1>1, <1>2, <1>3, <1>4, StageStep
     DEF StoreRuntime, StartRuntime, Keeps, history, StopPcs, CleanPcs, CleanupEntry

\* Android's runtime replaces the one before it.
LEMMA StepReplace ==
  ASSUME TunnelInv, NEW c \in Active, replaceRuntime(c)
  PROVE  TunnelInv'
<1> DEFINE pcs == {"publish", CleanupEntry}
<1>1. c \in Calls /\ TunnelTypeOK /\ mode = "android_vpn_service" /\ calls[c].pc = "store"
  BY ThreeModes DEF Active, TunnelInv, TunnelTypeOK, replaceRuntime, At, IsDesktop
<1>2. Moves(c, pcs) /\ Keeps(c)
  <2>1. CASE Proceed(c)
    BY <1>1, <2>1, WindowsNext, LinuxNext, AndroidNext, ThreeModes, ProceedMoves
       DEF AllPcs, StartPcs, StagePcs, Moves
  <2>2. CASE AttachFails(c)
    BY <1>1, <2>2, FailMoves, WordsOfStarts
       DEF AttachFails, StartupStages, FailPc, platformTunnelFailureNeedsCleanup, Moves
  <2> QED BY <2>1, <2>2 DEF replaceRuntime
<1>0. /\ UNCHANGED <<slot, devices, routes, botched>> /\ NativeKinds'
      /\ native'.dev = native.dev /\ native'.excl = native.excl
      /\ \/ /\ calls'[c].pc = CleanupEntry /\ runtimes' = runtimes
            /\ native' = native
         \/ /\ calls'[c].pc = CleanupEntry /\ runtimes' = runtimes \ {native.runtime}
            /\ native'.runtime = c
         \/ /\ calls'[c].pc = "publish" /\ runtimes' = (runtimes \ {native.runtime}) \cup {c}
            /\ native'.runtime = c
  <2>1. ASSUME Proceed(c) PROVE calls'[c].pc = "publish"
    BY <1>1, <2>1, WindowsNext, LinuxNext, AndroidNext, ThreeModes, ProceedMoves
       DEF AllPcs, StartPcs, StagePcs, Moves
  <2>2. ASSUME AttachFails(c) PROVE calls'[c].pc = CleanupEntry
    BY <1>1, <2>2, FailMoves, WordsOfStarts
       DEF AttachFails, StartupStages, FailPc, CleanupEntry, platformTunnelFailureNeedsCleanup,
           Moves
  <2> QED BY <1>1, <2>1, <2>2, CallNumbers, NativeUpdate DEF replaceRuntime, history, nativeVars
<1>3. NativeTypeOK'
  BY <1>0, CallNumbers, <1>1
     DEF TunnelTypeOK, NativeTypeOK, NativeKinds, replaceRuntime, history, nativeVars
<1>4. ASSUME overlaps = 0, ~botched, ~botched', NativeSound, Active = {c}, TunnelOK(c), Live' = Live
      PROVE  NativeSound' /\ TunnelOK(c)'
  <2>1. mode' = mode /\ calls'[c].pc \in pcs /\ calls'[c].own = calls[c].own
    BY <1>2 DEF replaceRuntime, Moves, Keeps, envVars
  <2>2. NativeSound'
    BY <1>0, CallNumbers, <1>1, <1>4, <2>1
       DEF NativeSound, TunnelOK, Prepared, NativeKinds, CleanupEntry
  <2>3. TunnelOK(c)'
    BY <1>0, CallNumbers, <1>1, <1>4, <2>1
       DEF NativeSound, TunnelOK, Untouched, Prepared, Configured, Attached, Matches,
           CleanupEntry, NativeKinds
  <2> QED BY <2>2, <2>3
<1> QED
  BY <1>1, <1>2, <1>3, <1>4, StageStep
     DEF replaceRuntime, Keeps, history, StopPcs, CleanPcs, CleanupEntry

\* The desktop hosts look for traffic.
LEMMA StepVerify ==
  ASSUME TunnelInv, NEW c \in Active, VerifyDataplane(c)
  PROVE  TunnelInv'
<1> DEFINE pcs == {"publish", CleanupEntry}
<1>1. /\ c \in Calls /\ TunnelTypeOK
      /\ mode \in {"windows_wintun", "linux_tun"} /\ calls[c].pc = "verify"
  BY PlaceOfMode DEF Active, TunnelInv, VerifyDataplane, At
<1>2. Moves(c, pcs) /\ Keeps(c)
  <2>1. CASE Proceed(c)
    BY <1>1, <2>1, WindowsNext, LinuxNext, AndroidNext, ThreeModes, ProceedMoves
       DEF AllPcs, StartPcs, StagePcs, Moves
  <2>2. CASE Fail(c, Failure("dataplane_verify", "dataplane_evidence"))
    BY <1>1, <2>2, FailMoves, WordsOfStarts
       DEF StartupStages, FailPc, platformTunnelFailureNeedsCleanup, Moves
  <2> QED BY <2>1, <2>2 DEF VerifyDataplane
<1>3. NativeTypeOK'
  BY <1>1 DEF TunnelTypeOK, NativeTypeOK, NativeKinds, VerifyDataplane, history, nativeVars
<1>4. ASSUME overlaps = 0, ~botched, ~botched', NativeSound, Active = {c}, TunnelOK(c), Live' = Live
      PROVE  NativeSound' /\ TunnelOK(c)'
  BY <1>1, <1>2, <1>4 DEF VerifyDataplane, NativeSound, TunnelOK, Untouched, Prepared, Configured,
     Moves, Keeps, Attached, Matches, CleanupEntry, envVars, tables, nativeVars, history
<1> QED
  BY <1>1, <1>2, <1>3, <1>4, StageStep
     DEF VerifyDataplane, Keeps, history, StopPcs, CleanPcs, CleanupEntry

\* A step that ends a start with a result.
LEMMA ResultMoves ==
  ASSUME TunnelTypeOK, NEW c \in Calls, NEW pc \in AllPcs(mode), NEW f \in StartResults(mode),
         calls' = [calls EXCEPT ![c] = [@ EXCEPT !.pc = pc, !.res = f]]
  PROVE  Moves(c, {pc}) /\ (~f.ready => Keeps(c)) /\ calls'[c].res = f
<1> DEFINE r == [calls[c] EXCEPT !.pc = pc, !.res = f]
<1>1. calls[c] \in CallRecords(mode)
  BY DEF TunnelTypeOK
<1>2. /\ r \in CallRecords(mode) /\ r.pc = pc /\ r.op = calls[c].op /\ r.alone = calls[c].alone
      /\ r.own = calls[c].own /\ r.at = calls[c].at /\ r.res = f
  BY <1>1 DEF CallRecords, AllPcs
<1>3. calls' = [calls EXCEPT ![c] = r]
  BY DEF TunnelTypeOK
<1> HIDE DEF r
<1>4. /\ calls' \in [Calls -> CallRecords(mode)] /\ calls'[c] = r
      /\ \A d \in Calls \ {c} : calls'[d] = calls[d]
  BY <1>2, <1>3, CallUpdate
<1> QED BY <1>2, <1>4 DEF Moves, Keeps

\* CheckStart: a start that is refused has a result that says where.
LEMMA RefusalIsResult ==
  ASSUME NEW w, NEW q, NEW guard
  PROVE  StartRefusal(w, q, guard) \in StartResults(mode) /\ ~StartRefusal(w, q, guard).ready
<1>1. ControllerRefusal(q) \in StartResults(mode) /\ ~ControllerRefusal(q).ready
  <2>1. Capability.missing \in Words(mode)
    BY DEF Words, Capability
  <2>2. /\ Failure("capability_check", "host_implementation") \in StartResults(mode)
        /\ Failure("capability_check", Capability.missing) \in StartResults(mode)
        /\ Failure("capability_check", "route_exclusion") \in StartResults(mode)
        /\ NoResult \in StartResults(mode) /\ ~NoResult.ready
    BY <2>1, FailureIsResult, WordsOfStarts DEF NoResult, StartResults, StartupStages, Words
  <2>3. \A s, m : ~Failure(s, m).ready
    BY DEF Failure, NoResult
  <2> QED BY <2>2, <2>3 DEF ControllerRefusal
<1>2. LET f == providerTransportStartupFailure(guard)
      IN Failure(f.stage, f.missing) \in StartResults(mode) /\ ~Failure(f.stage, f.missing).ready
  BY FailureIsResult, WordsOfStarts DEF providerTransportStartupFailure, StartupStages
<1>3. /\ Failure("profile_validate", "transport_profile") \in StartResults(mode)
      /\ ~Failure("profile_validate", "transport_profile").ready
  BY FailureIsResult, WordsOfStarts DEF StartupStages
<1> QED BY <1>1, <1>2, <1>3 DEF StartRefusal

\* The checks before the lifecycle change nothing.
LEMMA StepCheck ==
  ASSUME TunnelInv, NEW c \in Active, CheckStart(c)
  PROVE  TunnelInv'
<1> DEFINE pcs == {FirstStage, "remember"}
<1>1. /\ c \in Calls /\ TunnelTypeOK /\ mode \in Modes /\ calls[c].pc = "check"
      /\ UNCHANGED <<envVars, tables, slot, attempts, nativeVars, history>>
  BY DEF Active, TunnelInv, TunnelTypeOK, CheckStart, At
<1>2. FirstStage \in StagePcs(mode)
  BY <1>1, ThreeModes, WindowsNext, LinuxNext, AndroidNext DEF StagePcs
<1>3. PICK q, guard, refusal :
         /\ refusal = StartRefusal(World, q, guard)
         /\ \/ Goto(c, FirstStage)
            \/ calls' = [calls EXCEPT ![c] = [@ EXCEPT !.pc = "remember", !.res = refusal]]
  BY DEF CheckStart
<1>4. Moves(c, pcs) /\ Keeps(c) /\ (calls'[c].pc = "remember" => ~calls'[c].res.ready)
  <2>1. CASE Goto(c, FirstStage)
    <3>1. FirstStage \in AllPcs(mode) /\ FirstStage # "remember"
      BY <1>1, <1>2, ThreeModes DEF AllPcs, StartPcs, StagePcs
    <3> QED BY <1>1, <2>1, <3>1, GotoMoves DEF Moves
  <2>2. CASE calls' = [calls EXCEPT ![c] = [@ EXCEPT !.pc = "remember", !.res = refusal]]
    <3>1. refusal \in StartResults(mode) /\ ~refusal.ready
      BY <1>3, RefusalIsResult
    <3>2. "remember" \in AllPcs(mode)
      BY DEF AllPcs, StartPcs
    <3>3. Moves(c, {"remember"}) /\ (~refusal.ready => Keeps(c)) /\ calls'[c].res = refusal
      BY <1>1, <2>2, <3>1, <3>2, ResultMoves, Zenon
    <3> QED BY <3>1, <3>3 DEF Moves
  <2> QED BY <1>3, <2>1, <2>2
<1>5. NativeTypeOK'
  BY <1>1 DEF TunnelTypeOK, NativeTypeOK, nativeVars, history
<1>6. ASSUME overlaps = 0, ~botched, ~botched', NativeSound, Active = {c}, TunnelOK(c), Live' = Live
      PROVE  NativeSound' /\ TunnelOK(c)'
  <2>1. mode' = mode /\ calls'[c].pc \in pcs /\ UNCHANGED nativeVars /\ UNCHANGED slot
    BY <1>1, <1>4 DEF Moves, envVars
  <2>2. NativeSound' /\ Matches'
    BY <1>1, <1>6, <2>1 DEF NativeSound, TunnelOK, Untouched, Matches, Attached, nativeVars
  <2>3. FirstStage \in Untouched(mode)
    BY <1>1, ThreeModes, WindowsNext, LinuxNext, AndroidNext DEF Untouched
  <2>4. calls'[c].pc \in Untouched(mode)
    BY <2>1, <2>3 DEF Untouched
  <2>5. TunnelOK(c)'
    BY <1>1, <1>4, <2>1, <2>2, <2>4, ThreeModes DEF TunnelOK, Untouched, Prepared, Configured
  <2> QED BY <2>2, <2>5
<1>7. pcs \cap {"unused", "done", "pending", "resume", "unpublish", "stopped"} = {}
  BY <1>1, <1>2, ThreeModes DEF StagePcs
<1> QED
  <2>1. /\ UNCHANGED <<envVars, tables, attempts, overlaps, last>> /\ slot' = slot
        /\ botched' = botched /\ calls'[c].at = calls[c].at
        /\ calls'[c].res.ready => calls[c].res.ready
    BY <1>1, <1>4 DEF history, Keeps
  <2>2. calls[c].pc \notin StopPcs \cup {"pending", "resume", "remember"}
    BY <1>1 DEF StopPcs, CleanPcs
  <2> HIDE DEF pcs
  <2> QED BY <1>4, <1>5, <1>6, <1>7, <2>1, <2>2, StageStep

\* The stages before the interface: the lease, the attempt, the device.
LEMMA LeaseMoves ==
  ASSUME TunnelTypeOK, NEW c \in Calls, MaterializeLease(c), mode \in Modes
  PROVE  /\ \/ calls'[c].pc = After("lease")
            \/ calls'[c].pc = CleanupEntry
            \/ calls'[c].pc = "remember" /\ mode # "windows_wintun"
         /\ Moves(c, {After("lease"), CleanupEntry, "remember"}) /\ Keeps(c)
         /\ calls'[c].pc = "remember" => ~calls'[c].res.ready
<1>1. calls[c] \in CallRecords(mode) /\ calls[c].pc = "lease"
  BY DEF TunnelTypeOK, MaterializeLease, At
<1>2. After("lease") \in AllPcs(mode) /\ After("lease") # "remember"
  BY ThreeModes, WindowsNext, LinuxNext, AndroidNext DEF AllPcs, StartPcs, StagePcs
<1>3. CASE Proceed(c)
  BY <1>1, <1>2, <1>3, ProceedMoves DEF Moves
<1>4. CASE ~Proceed(c)
  <2> DEFINE lost == MaterializeWireGuardTurnExecutionLease(Request(c))
             f == LeaseFailure(lost)
             why == IF "plan_unavailable" \in lost THEN "profile" ELSE "resolution"
             pc == FailPc(f.stage)
             r == [calls[c] EXCEPT !.res = f, !.why = why, !.pc = pc]
  <2>1. calls' = [calls EXCEPT ![c] = r]
    BY <1>4 DEF MaterializeLease, FailPc, TunnelTypeOK
  <2>2. /\ f \in StartResults(mode) /\ ~f.ready /\ f.stage \in StartupStages
        /\ mode = "windows_wintun" => f.stage = "runtime_attach"
    <3>1. \A s, m : Failure(s, m).stage = s /\ ~Failure(s, m).ready
      BY DEF Failure, NoResult
    <3>2. f \in {Failure("runtime_attach", "host_implementation"),
                 Failure("profile_validate", "transport_profile")}
      BY DEF LeaseFailure, leaseMaterializationFailureClassification
    <3>3. mode = "windows_wintun" => f = Failure("runtime_attach", "host_implementation")
      BY DEF LeaseFailure
    <3>4. {"runtime_attach", "profile_validate"} \subseteq StartupStages
      BY DEF StartupStages
    <3> HIDE DEF f
    <3> QED BY <3>1, <3>2, <3>3, <3>4, FailureIsResult, WordsOfStarts
  <2>3. pc \in AllPcs(mode) /\ why \in {"profile", "resolution"}
    BY FailPcOK
  <2>4. /\ pc = CleanupEntry \/ pc = "remember"
        /\ mode = "windows_wintun" => pc = CleanupEntry
    BY <2>2 DEF FailPc, platformTunnelFailureNeedsCleanup
  <2> HIDE DEF pc, why, f
  <2>5. /\ r \in CallRecords(mode) /\ r.pc = pc /\ r.op = calls[c].op
        /\ r.alone = calls[c].alone /\ r.own = calls[c].own /\ r.at = calls[c].at /\ r.res = f
    BY <1>1, <2>2, <2>3 DEF CallRecords, AllPcs
  <2> HIDE DEF r
  <2>6. /\ calls' \in [Calls -> CallRecords(mode)] /\ calls'[c] = r
        /\ \A d \in Calls \ {c} : calls'[d] = calls[d]
    BY <2>1, <2>5, CallUpdate
  <2> QED BY <2>2, <2>4, <2>5, <2>6, ThreeModes DEF Moves, Keeps, CleanupEntry
<1> QED BY <1>3, <1>4

\* The lease needs a resolution and a profile that are still there.
LEMMA StepLease ==
  ASSUME TunnelInv, NEW c \in Active, MaterializeLease(c)
  PROVE  TunnelInv'
<1> DEFINE pcs == {After("lease"), CleanupEntry, "remember"}
<1>1. /\ c \in Calls /\ TunnelTypeOK /\ mode \in Modes /\ calls[c].pc = "lease"
      /\ UNCHANGED <<envVars, tables, slot, attempts, nativeVars, history>>
  BY DEF Active, TunnelInv, TunnelTypeOK, MaterializeLease, At
<1>2. /\ \/ calls'[c].pc = After("lease")
         \/ calls'[c].pc = CleanupEntry
         \/ calls'[c].pc = "remember" /\ mode # "windows_wintun"
      /\ Moves(c, pcs) /\ Keeps(c)
      /\ calls'[c].pc = "remember" => ~calls'[c].res.ready
  BY <1>1, LeaseMoves
<1>3. /\ pcs \cap {"unused", "done", "pending", "resume", "unpublish", "stopped"} = {}
      /\ CleanupEntry \in {"clean", "cleanup"} /\ (mode = "linux_tun" => CleanupEntry = "clean")
  BY <1>1, ThreeModes, WindowsNext, LinuxNext, AndroidNext DEF CleanupEntry
<1> HIDE DEF pcs
<1>4. NativeTypeOK'
  BY <1>1 DEF TunnelTypeOK, NativeTypeOK, nativeVars, history
<1>5. ASSUME overlaps = 0, ~botched, ~botched', NativeSound, Active = {c}, TunnelOK(c), Live' = Live
      PROVE  NativeSound' /\ TunnelOK(c)'
  <2>1. mode' = mode /\ UNCHANGED nativeVars /\ UNCHANGED slot
    BY <1>1 DEF envVars
  <2>2. NativeSound'
    BY <1>5, <2>1 DEF NativeSound, nativeVars
  <2>3. TunnelOK(c)'
    <3>1. CASE mode = "windows_wintun"
      BY <1>1, <1>2, <1>3, <1>5, <2>1, <3>1, WindowsNext
         DEF TunnelOK, Untouched, Prepared, Configured, nativeVars, Attached
    <3>2. CASE mode # "windows_wintun"
      <4>1. Matches'
        BY <1>1, <1>5, <2>1, <3>2, ThreeModes DEF TunnelOK, Untouched, Matches, Attached, nativeVars
      <4> QED BY <1>1, <1>2, <1>3, <1>5, <2>1, <3>2, <4>1, ThreeModes, LinuxNext, AndroidNext
                 DEF TunnelOK, Untouched, Prepared, Configured, nativeVars, Attached
    <3> QED BY <3>1, <3>2
  <2> QED BY <2>2, <2>3
<1> QED
  <2>1. /\ UNCHANGED <<envVars, tables, attempts, overlaps, last>> /\ slot' = slot
        /\ botched' = botched /\ calls'[c].at = calls[c].at
        /\ calls'[c].res.ready => calls[c].res.ready
    BY <1>1, <1>2 DEF history, Keeps
  <2>2. calls[c].pc \notin StopPcs \cup {"pending", "resume", "remember"}
    BY <1>1 DEF StopPcs, CleanPcs
  <2> QED BY <1>2, <1>3, <1>4, <1>5, <2>1, <2>2, StageStep

\* The slot of Linux is taken or the start is refused.
LEMMA StepBeginAttempt ==
  ASSUME TunnelInv, NEW c \in Active, beginNativeAttempt(c)
  PROVE  TunnelInv'
<1> DEFINE pcs == {"device", "remember"}
<1>1. /\ c \in Calls /\ TunnelTypeOK /\ mode = "linux_tun" /\ calls[c].pc = "slot"
      /\ UNCHANGED <<envVars, tables, attempts, nativeVars, history>>
  BY PlaceOfMode DEF Active, TunnelInv, beginNativeAttempt, At
<1>2. /\ Moves(c, pcs) /\ calls'[c].at = calls[c].at /\ (calls'[c].res.ready => calls[c].res.ready)
      /\ \/ slot = 0 /\ slot' = c /\ calls'[c].pc = "device" /\ calls'[c].own = c
         \/ slot' = slot /\ calls'[c].pc = "remember" /\ ~calls'[c].res.ready
  <2>1. CASE slot = 0
    <3> DEFINE r == [calls[c] EXCEPT !.pc = "device", !.own = c]
    <3>1. slot' = c /\ calls' = [calls EXCEPT ![c] = r]
      BY <1>1, <2>1, LinuxNext DEF beginNativeAttempt, TunnelTypeOK
    <3>2. calls[c] \in CallRecords(mode) /\ "device" \in AllPcs(mode)
      BY <1>1 DEF TunnelTypeOK, AllPcs, StartPcs, StagePcs
    <3>3. /\ r \in CallRecords(mode) /\ r.pc = "device" /\ r.op = calls[c].op
          /\ r.alone = calls[c].alone /\ r.own = c /\ r.at = calls[c].at /\ r.res = calls[c].res
      BY <1>1, <3>2, CallNumbers DEF CallRecords, AllPcs
    <3> HIDE DEF r
    <3>4. /\ calls' \in [Calls -> CallRecords(mode)] /\ calls'[c] = r
          /\ \A d \in Calls \ {c} : calls'[d] = calls[d]
      BY <1>1, <3>1, <3>3, CallUpdate
    <3> QED BY <2>1, <3>1, <3>3, <3>4 DEF Moves
  <2>2. CASE slot # 0
    <3>1. Fail(c, Failure("capability_check", "host_implementation")) /\ slot' = slot
      BY <2>2 DEF beginNativeAttempt
    <3> QED BY <1>1, <3>1, FailMoves, WordsOfStarts
               DEF StartupStages, FailPc, platformTunnelFailureNeedsCleanup, Moves, Keeps
  <2> QED BY <2>1, <2>2
<1>3. NativeTypeOK'
  BY <1>1, <1>2, CallNumbers DEF TunnelTypeOK, NativeTypeOK, nativeVars, history
<1>4. ASSUME overlaps = 0, ~botched, ~botched', NativeSound, Active = {c}, TunnelOK(c), Live' = Live
      PROVE  NativeSound' /\ TunnelOK(c)'
  <2>1. mode' = mode /\ UNCHANGED nativeVars
    BY <1>1 DEF envVars
  <2>2. NativeSound' /\ Matches
    BY <1>1, <1>4, <2>1 DEF NativeSound, TunnelOK, Untouched, nativeVars
  <2>3. CASE slot' = slot /\ calls'[c].pc = "remember" /\ ~calls'[c].res.ready
    <3>1. Matches'
      BY <1>4, <2>1, <2>2, <2>3 DEF Matches, Attached, nativeVars
    <3> QED BY <1>1, <2>1, <2>2, <2>3, <3>1 DEF TunnelOK, Untouched, Prepared, Configured
  <2>4. CASE slot = 0 /\ slot' = c /\ calls'[c].pc = "device" /\ calls'[c].own = c
    <3>1. Live = {} /\ ~Attached
      BY <1>1, <2>2, <2>4 DEF Matches
    <3> QED BY <1>1, <1>4, <2>1, <2>2, <2>4, <3>1
               DEF TunnelOK, Untouched, Prepared, Configured, Attached, nativeVars
  <2> QED BY <1>2, <2>3, <2>4
<1> QED
  <2>1. UNCHANGED <<envVars, tables, attempts, overlaps, last>> /\ botched' = botched
    BY <1>1 DEF history
  <2>2. calls[c].pc \notin StopPcs \cup {"pending", "resume", "remember"}
    BY <1>1 DEF StopPcs, CleanPcs
  <2> QED BY <1>1, <1>2, <1>3, <1>4, <2>1, <2>2, StageStep

\* What ReplaceState does to the kernel and the lifecycle: one that keeps a
\* route is remembered as botched.
LEMMA ReplaceStateEffect ==
  ASSUME TunnelTypeOK, NEW c \in Calls, ReplaceState(c)
  PROVE  /\ NativeKinds' /\ native'.dev = c /\ native'.runtime = 0 /\ ~native'.excl
         /\ devices' = (devices \ {native.dev}) \cup {c}
         /\ runtimes' = runtimes \ {native.runtime}
         /\ routes' \in BOOLEAN /\ (routes' => routes)
         /\ botched' \in BOOLEAN /\ (botched => botched')
         /\ ~botched' /\ native.excl => ~routes'
<1>1. PICK kept \in BOOLEAN : cleanupLocked(kept, c) /\ botched' = (botched \/ kept)
  BY DEF ReplaceState
<1>2. native' = [NoState EXCEPT !.dev = c]
  BY <1>1 DEF cleanupLocked
<1>3. NativeKinds' /\ native'.dev = c /\ native'.runtime = 0 /\ ~native'.excl
  <2>1. native' = [dev |-> c, excl |-> FALSE, runtime |-> 0]
    BY <1>2 DEF NoState
  <2>2. c \in 0 .. MaxCalls /\ 0 \in 0 .. MaxCalls
    BY CallNumbers, TunnelBounds
  <2> QED BY <2>1, <2>2 DEF NativeKinds
<1>4. /\ devices' = (devices \ {native.dev}) \cup {c}
      /\ runtimes' = runtimes \ {native.runtime}
      /\ routes' = (routes /\ (kept \/ ~native.excl))
  BY <1>1, CallNumbers DEF cleanupLocked
<1>5. botched \in BOOLEAN /\ routes \in BOOLEAN
  BY DEF TunnelTypeOK
<1> QED BY <1>1, <1>3, <1>4, <1>5

\* The device of Windows replaces the state.
LEMMA StepDriver ==
  ASSUME TunnelInv, NEW c \in Active, CheckDriver(c)
  PROVE  TunnelInv'
<1> DEFINE pcs == {"lease", "remember"}
<1>1. /\ c \in Calls /\ TunnelTypeOK /\ mode = "windows_wintun" /\ calls[c].pc = "device"
      /\ UNCHANGED <<envVars, tables, slot, attempts, overlaps, last>>
  BY DEF Active, TunnelInv, CheckDriver, At
<1>2. /\ Moves(c, pcs) /\ Keeps(c)
      /\ \/ ReplaceState(c) /\ calls'[c].pc = "lease"
         \/ /\ UNCHANGED <<nativeVars, botched>>
            /\ calls'[c].pc = "remember" /\ ~calls'[c].res.ready
  <2>1. CASE ReplaceState(c) /\ Proceed(c)
    BY <1>1, <2>1, WindowsNext, ProceedMoves DEF AllPcs, StartPcs, StagePcs, Moves
  <2>2. CASE Fail(c, Failure("driver_check", "driver")) /\ UNCHANGED <<nativeVars, botched>>
    BY <1>1, <2>2, FailMoves, WordsOfStarts
       DEF StartupStages, FailPc, platformTunnelFailureNeedsCleanup, Moves
  <2> QED BY <2>1, <2>2 DEF CheckDriver
<1>3. NativeTypeOK' /\ (botched => botched')
  <2>1. CASE ReplaceState(c)
    BY <1>1, <2>1, ReplaceStateEffect DEF TunnelTypeOK, NativeTypeOK, NativeKinds
  <2>2. CASE UNCHANGED <<nativeVars, botched>>
    BY <1>1, <2>2 DEF TunnelTypeOK, NativeTypeOK, nativeVars
  <2> QED BY <1>2, <2>1, <2>2
<1>4. ASSUME overlaps = 0, ~botched, ~botched', NativeSound, Active = {c}, TunnelOK(c), Live' = Live
      PROVE  NativeSound' /\ TunnelOK(c)'
  <2>1. mode' = mode /\ Matches
    BY <1>1, <1>4 DEF TunnelOK, Untouched, envVars
  <2>2. CASE UNCHANGED <<nativeVars, botched>> /\ calls'[c].pc = "remember" /\ ~calls'[c].res.ready
    <3>1. Matches' /\ NativeSound'
      BY <1>1, <1>4, <2>1, <2>2 DEF Matches, Attached, nativeVars, NativeSound
    <3> QED BY <1>1, <2>1, <2>2, <3>1 DEF TunnelOK, Untouched, Prepared, Configured
  <2>3. CASE ReplaceState(c) /\ calls'[c].pc = "lease"
    <3>1. NativeSound' /\ native'.dev # 0 /\ native'.runtime = 0 /\ runtimes' = {}
      BY <1>1, <1>4, <2>1, <2>3, ReplaceStateEffect, CallNumbers DEF NativeSound, NativeKinds
    <3> QED BY <1>1, <2>1, <2>3, <3>1 DEF TunnelOK, Untouched, Prepared, Configured
  <2> QED BY <1>2, <2>2, <2>3
<1> QED
  <2>1. calls[c].pc \notin StopPcs \cup {"pending", "resume", "remember"}
    BY <1>1 DEF StopPcs, CleanPcs
  <2> QED BY <1>1, <1>2, <1>3, <1>4, <2>1, StageStep DEF Keeps

\* The device of Linux, which cannot be opened twice.
LEMMA StepTun ==
  ASSUME TunnelInv, NEW c \in Active, AcquireTun(c)
  PROVE  TunnelInv'
<1> DEFINE pcs == {"route", "remember"}
<1>1. /\ c \in Calls /\ TunnelTypeOK /\ mode = "linux_tun" /\ calls[c].pc = "device"
      /\ UNCHANGED <<envVars, tables, attempts, overlaps, last>>
  BY DEF Active, TunnelInv, AcquireTun, At
<1>2. /\ Moves(c, pcs) /\ Keeps(c)
      /\ \/ ReplaceState(c) /\ slot' = slot /\ calls'[c].pc = "route"
         \/ /\ UNCHANGED <<nativeVars, botched>>
            /\ slot' = (IF slot = calls[c].own THEN 0 ELSE slot)
            /\ calls'[c].pc = "remember" /\ ~calls'[c].res.ready
  <2>1. CASE ReplaceState(c) /\ Proceed(c) /\ UNCHANGED slot
    BY <1>1, <2>1, LinuxNext, ProceedMoves DEF AllPcs, StartPcs, StagePcs, Moves
  <2>2. CASE /\ Fail(c, Failure("permission_acquire", "permission"))
             /\ slot' = (IF slot = calls[c].own THEN 0 ELSE slot)
             /\ UNCHANGED <<nativeVars, botched>>
    BY <1>1, <2>2, FailMoves, WordsOfStarts
       DEF StartupStages, FailPc, platformTunnelFailureNeedsCleanup, Moves
  <2> QED BY <2>1, <2>2 DEF AcquireTun
<1>3. NativeTypeOK' /\ (botched => botched')
  <2>1. slot' \in 0 .. MaxCalls
    <3>1. slot \in 0 .. MaxCalls
      BY <1>1 DEF TunnelTypeOK
    <3>3. 0 \in 0 .. MaxCalls
      BY TunnelBounds
    <3>2. slot' = slot \/ slot' = 0
      BY <1>2
    <3> QED BY <3>1, <3>2, <3>3
  <2>2. CASE ReplaceState(c)
    BY <1>1, <2>1, <2>2, ReplaceStateEffect DEF TunnelTypeOK, NativeTypeOK, NativeKinds
  <2>3. CASE UNCHANGED <<nativeVars, botched>>
    BY <1>1, <2>1, <2>3 DEF TunnelTypeOK, NativeTypeOK, nativeVars
  <2> QED BY <1>2, <2>2, <2>3
<1>4. ASSUME overlaps = 0, ~botched, ~botched', NativeSound, Active = {c}, TunnelOK(c), Live' = Live
      PROVE  NativeSound' /\ TunnelOK(c)'
  <2>1. mode' = mode /\ Live = {} /\ ~Attached /\ slot = c /\ calls[c].own = c
    BY <1>1, <1>4 DEF TunnelOK, envVars
  <2>2. CASE /\ UNCHANGED <<nativeVars, botched>>
             /\ slot' = (IF slot = calls[c].own THEN 0 ELSE slot)
             /\ calls'[c].pc = "remember" /\ ~calls'[c].res.ready
    <3>1. slot' = 0 /\ native.runtime = 0 /\ runtimes = {}
      BY <1>1, <1>4, <2>1, <2>2, CallNumbers DEF NativeSound, Attached, TunnelTypeOK
    <3>2. Matches' /\ NativeSound'
      BY <1>1, <1>4, <2>1, <2>2, <3>1 DEF Matches, Attached, nativeVars, NativeSound
    <3> QED BY <1>1, <2>1, <2>2, <3>2 DEF TunnelOK, Untouched, Prepared, Configured
  <2>3. CASE ReplaceState(c) /\ slot' = slot /\ calls'[c].pc = "route"
    <3>1. NativeSound' /\ native'.dev # 0 /\ native'.runtime = 0 /\ runtimes' = {}
      BY <1>1, <1>4, <2>1, <2>3, ReplaceStateEffect, CallNumbers DEF NativeSound, NativeKinds
    <3> QED BY <1>1, <1>2, <2>1, <2>3, <3>1 DEF TunnelOK, Untouched, Prepared, Configured, Keeps
  <2> QED BY <1>2, <2>2, <2>3
<1> QED
  <2>1. calls[c].pc \notin StopPcs \cup {"pending", "resume", "remember"}
    BY <1>1 DEF StopPcs, CleanPcs
  <2> QED BY <1>1, <1>2, <1>3, <1>4, <2>1, StageStep DEF Keeps

\* A step of a call that is no stop heals nothing and spoils nothing healed.
LEMMA OthersKeepHealed ==
  ASSUME TunnelInv, NEW c \in Active, calls[c].op # "stop",
         \A d \in Calls \ {c} : calls'[d] = calls[d],
         calls'[c].op # "stop", Active' \subseteq Active, mode' = mode,
         mode # "linux_tun" => slot' = slot,
         last' = last \/ last'.op # "stop"
  PROVE  HealInv'
<1> USE DEF TunnelInv
<1>1. ASSUME NEW d \in Active', calls'[d].op = "stop", calls'[d].alone
      PROVE  FALSE
  <2>1. d \in Active /\ d # c /\ d \in Calls
    BY <1>1 DEF Active
  <2>2. CallOK(d) /\ calls[d].alone
    BY <1>1, <2>1 DEF CallsOK
  <2>3. Active = {d}
    BY <2>1, <2>2 DEF CallOK
  <2> QED BY <2>1, <2>3
<1>2. last' # [op |-> "stop", alone |-> TRUE, ok |-> TRUE]
  BY DEF HealInv, HealedByStop
<1> QED BY <1>1, <1>2 DEF HealInv

\* Where one call runs, its place says how the requests and the attempts of

\* the successor state compare.
LEMMA StepPends ==
  ASSUME TunnelInv, NEW c \in Active, Active' \subseteq Active, overlaps' = overlaps,
         ASSUME overlaps = 0, PendingOK(c)
         PROVE  IF c \in Active' THEN PendingOK(c)' ELSE startupRequests' = attempts'
  PROVE  PendingInv'
<1> SUFFICES ASSUME overlaps = 0
             PROVE  /\ Active' = {} => startupRequests' = attempts'
                    /\ \A d \in Active' : PendingOK(d)'
  BY DEF PendingInv
<1>1. Active = {c}
  BY DEF TunnelInv, CallsOK
<1>2. PendingOK(c)
  BY <1>1 DEF TunnelInv, PendingInv
<1> QED BY <1>1, <1>2

\* A call that returns leaves a tunnel that matches.
LEMMA ReturnSettles ==
  ASSUME TunnelInv, NEW c \in Active, Active' = Active \ {c},
         overlaps' = overlaps, botched \in BOOLEAN, botched => botched',
         ASSUME overlaps = 0, ~botched, ~botched', NativeSound, ReadyIsFollowed,
                Active = {c}, TunnelOK(c)
         PROVE  NativeSound' /\ ReadyIsFollowed' /\ Matches'
  PROVE  SettledInv'
BY DEF TunnelInv, SettledInv, CallsOK

\* The pending attempts of Android: AcquirePermission, the request that is

\* remembered, and the Resume that takes both.
LEMMA StepPermission ==
  ASSUME TunnelInv, NEW c \in Active, AcquirePermission(c)
  PROVE  TunnelInv'
<1> DEFINE pcs == {"route", "pending", "remember"}
<1>1. /\ c \in Calls /\ TunnelTypeOK /\ mode = "android_vpn_service" /\ calls[c].pc = "permission"
      /\ UNCHANGED <<envVars, tables, slot, nativeVars, history>> /\ calls[c].op # "stop"
      /\ ~calls[c].res.ready
  BY PlaceOfMode DEF Active, TunnelInv, AcquirePermission, At, CallsOK, CallOK, StopPcs, CleanPcs
<1>2. /\ Moves(c, pcs) /\ Keeps(c)
      /\ \/ UNCHANGED attempts /\ calls'[c].pc \in {"route", "remember"}
         \/ attempts' = attempts \cup {c} /\ calls'[c].pc = "pending"
      /\ calls'[c].pc = "remember" => ~calls'[c].res.ready
  <2>1. CASE Proceed(c) /\ UNCHANGED attempts
    BY <1>1, <2>1, AndroidNext, ProceedMoves DEF AllPcs, StartPcs, StagePcs, Moves
  <2>2. CASE Fail(c, Failure("permission_acquire", "permission")) /\ UNCHANGED attempts
    BY <1>1, <2>2, FailMoves, WordsOfStarts
       DEF StartupStages, FailPc, platformTunnelFailureNeedsCleanup, Moves
  <2>3. CASE ~(Proceed(c) /\ UNCHANGED attempts)
             /\ ~(Fail(c, Failure("permission_acquire", "permission")) /\ UNCHANGED attempts)
    <3> DEFINE f == [Failure("permission_acquire", "permission") EXCEPT !.attempt = c]
    <3>1. /\ attempts' = attempts \cup {c}
          /\ calls' = [calls EXCEPT ![c] = [@ EXCEPT !.pc = "pending", !.res = f]]
      BY <2>3 DEF AcquirePermission, storeStartupAttempt
    <3>2. f \in StartResults(mode)
      <4>1. Failure("permission_acquire", "permission") \in StartResults(mode)
        BY FailureIsResult, WordsOfStarts DEF StartupStages
      <4>2. c \in Nat
        BY <1>1, CallNumbers, TunnelBounds
      <4> QED BY <4>1, <4>2 DEF StartResults
    <3>3. "pending" \in AllPcs(mode)
      BY <1>1 DEF AllPcs, StartPcs, StagePcs
    <3>5. ~f.ready
      BY DEF Failure, NoResult
    <3> HIDE DEF f
    <3>4. Moves(c, {"pending"}) /\ (~f.ready => Keeps(c))
      BY <1>1, <3>1, <3>2, <3>3, ResultMoves, Zenon
    <3> QED BY <3>1, <3>4, <3>5 DEF Moves
  <2> QED BY <2>1, <2>2, <2>3
<1>3. CallsOK' /\ Active' = Active
  BY <1>1, <1>2, MoveKeepsCalls DEF TunnelInv, history, Keeps
<1>4. TunnelTypeOK'
  BY <1>1, <1>2 DEF TunnelTypeOK, Moves, envVars, tables, nativeVars, history
<1>5. ClockOK'
  BY <1>1, <1>2 DEF TunnelInv, ClockOK, tables, Moves, Keeps
<1>6. HealInv'
  BY <1>1, <1>2, <1>3, OthersKeepHealed DEF Moves, history, envVars
<1>7. PendingInv'
  <2>1. PendingOK(c) => PendingOK(c)'
    BY <1>1, <1>2 DEF PendingOK, tables
  <2> QED BY <1>1, <1>3, <2>1, StepPends DEF history
<1>8. SettledInv'
  <2>1. mode' = mode /\ Live' = Live /\ (ReadyIsFollowed => ReadyIsFollowed') /\ botched' = botched
    BY <1>1 DEF Live, ReadyIsFollowed, tables, envVars, history
  <2>2. ASSUME NativeSound, TunnelOK(c)
        PROVE  NativeSound' /\ TunnelOK(c)'
    <3>1. NativeSound' /\ Matches'
      BY <1>1, <2>1, <2>2 DEF NativeSound, TunnelOK, Untouched, Matches, Attached, nativeVars
    <3>2. calls'[c].pc \in {"route", "pending", "remember"}
      BY <1>2 DEF Moves
    <3> QED BY <1>1, <1>2, <2>1, <3>1, <3>2 DEF TunnelOK, Untouched, Prepared, Configured
  <2>3. botched \in BOOLEAN
    BY <1>1 DEF TunnelTypeOK
  <2>4. overlaps' = overlaps /\ (botched => botched')
    BY <1>1 DEF history
  <2>5. ASSUME overlaps = 0, ~botched, ~botched', NativeSound, ReadyIsFollowed,
               Active = {c}, TunnelOK(c)
        PROVE  NativeSound' /\ ReadyIsFollowed' /\ TunnelOK(c)'
    BY <2>1, <2>2, <2>5
  <2> QED BY <1>3, <2>3, <2>4, <2>5, StepSettles
<1> QED BY <1>3, <1>4, <1>5, <1>6, <1>7, <1>8 DEF TunnelInv

\* The host remembers the request of the attempt.
LEMMA StepRememberRequest ==
  ASSUME TunnelInv, NEW c \in Active, rememberPlatformTunnelStartupRequest(c)
  PROVE  TunnelInv'
<1>1. /\ c \in Calls /\ TunnelTypeOK /\ calls[c].pc = "pending"
      /\ UNCHANGED <<envVars, startResult, stop, sessions, clock, slot, attempts, nativeVars,
                     history>>
      /\ startupRequests' = startupRequests \cup {c} /\ calls[c].op # "stop"
      /\ ~calls[c].res.ready
  BY DEF Active, TunnelInv, rememberPlatformTunnelStartupRequest, At, CallsOK, CallOK, StopPcs,
         CleanPcs
<1>2. /\ Moves(c, {"remember"}) /\ Keeps(c) /\ calls'[c].res = calls[c].res
      /\ calls'[c].pc = "remember"
  BY <1>1, GotoMoves DEF rememberPlatformTunnelStartupRequest, AllPcs, StartPcs, Moves
<1>3. CallsOK' /\ Active' = Active
  BY <1>1, <1>2, MoveKeepsCalls DEF TunnelInv, history, Keeps
<1>4. TunnelTypeOK'
  BY <1>1, <1>2 DEF TunnelTypeOK, Moves, envVars, nativeVars, history
<1>5. ClockOK'
  BY <1>1, <1>2 DEF TunnelInv, ClockOK, Moves, Keeps
<1>6. HealInv'
  BY <1>1, <1>2, <1>3, OthersKeepHealed DEF Moves, history, envVars
<1>7. PendingInv'
  <2>1. PendingOK(c) => PendingOK(c)'
    BY <1>1, <1>2 DEF PendingOK
  <2> QED BY <1>1, <1>3, <2>1, StepPends DEF history
<1>8. SettledInv'
  <2>1. mode' = mode /\ Live' = Live /\ (ReadyIsFollowed => ReadyIsFollowed') /\ botched' = botched
    BY <1>1 DEF Live, ReadyIsFollowed, envVars, history
  <2>2. ASSUME NativeSound, TunnelOK(c)
        PROVE  NativeSound' /\ TunnelOK(c)'
    <3>1. NativeSound' /\ Matches'
      BY <1>1, <2>1, <2>2 DEF NativeSound, TunnelOK, Untouched, Matches, Attached, nativeVars
    <3> QED BY <1>1, <1>2, <2>1, <2>2, <3>1, ThreeModes
               DEF Keeps, TunnelTypeOK, TunnelOK, Untouched, Prepared, Configured
  <2>3. botched \in BOOLEAN
    BY <1>1 DEF TunnelTypeOK
  <2>4. overlaps' = overlaps /\ (botched => botched')
    BY <1>1 DEF history
  <2>5. ASSUME overlaps = 0, ~botched, ~botched', NativeSound, ReadyIsFollowed,
               Active = {c}, TunnelOK(c)
        PROVE  NativeSound' /\ ReadyIsFollowed' /\ TunnelOK(c)'
    BY <2>1, <2>2, <2>5
  <2> QED BY <1>3, <2>3, <2>4, <2>5, StepSettles
<1> QED BY <1>3, <1>4, <1>5, <1>6, <1>7, <1>8 DEF TunnelInv

\* A Resume takes the host's half first, then the controller's.
LEMMA StepTakeRequest ==
  ASSUME TunnelInv, NEW c \in Active, takePlatformTunnelStartupRequest(c)
  PROVE  TunnelInv'
<1>1. /\ c \in Calls /\ TunnelTypeOK /\ calls[c].pc = "take" /\ mode = "android_vpn_service"
      /\ UNCHANGED <<envVars, startResult, stop, sessions, clock, slot, attempts, nativeVars,
                     history>>
      /\ startupRequests' = startupRequests \ {calls[c].own} /\ calls[c].op # "stop"
      /\ ~calls[c].res.ready
  BY PlaceOfMode
     DEF Active, TunnelInv, takePlatformTunnelStartupRequest, At, CallsOK, CallOK, StopPcs, CleanPcs
<1>2. Moves(c, {"resume"}) /\ Keeps(c) /\ calls'[c].res = calls[c].res /\ calls'[c].pc = "resume"
  <2> DEFINE known == calls[c].own \in startupRequests
             r == [calls[c] EXCEPT !.pc = "resume", !.knows = known]
  <2>1. calls' = [calls EXCEPT ![c] = r]
    BY <1>1 DEF takePlatformTunnelStartupRequest, TunnelTypeOK
  <2>2. /\ calls[c] \in CallRecords(mode)
        /\ "resume" \in AllPcs(mode)
        /\ known \in BOOLEAN
    <3>1. calls[c] \in CallRecords(mode)
      BY <1>1 DEF TunnelTypeOK
    <3>2. "resume" \in AllPcs(mode)
      BY <1>1 DEF AllPcs, StartPcs, StagePcs
    <3>3. known \in BOOLEAN
      OBVIOUS
    <3> QED BY <3>1, <3>2, <3>3
  <2> HIDE DEF known
  <2>3. /\ r \in CallRecords(mode) /\ r.pc = "resume" /\ r.op = calls[c].op
        /\ r.alone = calls[c].alone /\ r.own = calls[c].own /\ r.at = calls[c].at
        /\ r.res = calls[c].res
    BY <2>2 DEF CallRecords, AllPcs
  <2> HIDE DEF r
  <2>4. /\ calls' \in [Calls -> CallRecords(mode)] /\ calls'[c] = r
        /\ \A d \in Calls \ {c} : calls'[d] = calls[d]
    BY <1>1, <2>1, <2>3, CallUpdate
  <2> QED BY <2>3, <2>4 DEF Moves, Keeps
<1>3. CallsOK' /\ Active' = Active
  BY <1>1, <1>2, MoveKeepsCalls DEF TunnelInv, history, Keeps
<1>4. TunnelTypeOK'
  BY <1>1, <1>2 DEF TunnelTypeOK, Moves, envVars, nativeVars, history
<1>5. ClockOK'
  BY <1>1, <1>2 DEF TunnelInv, ClockOK, Moves, Keeps
<1>6. HealInv'
  BY <1>1, <1>2, <1>3, OthersKeepHealed DEF Moves, history, envVars
<1>7. PendingInv'
  <2>1. PendingOK(c) => PendingOK(c)'
    BY <1>1, <1>2 DEF PendingOK, Keeps
  <2> QED BY <1>1, <1>3, <2>1, StepPends DEF history
<1>8. SettledInv'
  <2>1. mode' = mode /\ Live' = Live /\ (ReadyIsFollowed => ReadyIsFollowed') /\ botched' = botched
    BY <1>1 DEF Live, ReadyIsFollowed, envVars, history
  <2>2. ASSUME NativeSound, TunnelOK(c)
        PROVE  NativeSound' /\ TunnelOK(c)'
    <3>1. NativeSound' /\ Matches'
      BY <1>1, <2>1, <2>2 DEF NativeSound, TunnelOK, Untouched, Matches, Attached, nativeVars
    <3> QED BY <1>1, <1>2, <2>1, <3>1 DEF TunnelOK, Untouched, Prepared, Configured
  <2>3. botched \in BOOLEAN
    BY <1>1 DEF TunnelTypeOK
  <2>4. overlaps' = overlaps /\ (botched => botched')
    BY <1>1 DEF history
  <2>5. ASSUME overlaps = 0, ~botched, ~botched', NativeSound, ReadyIsFollowed,
               Active = {c}, TunnelOK(c)
        PROVE  NativeSound' /\ ReadyIsFollowed' /\ TunnelOK(c)'
    BY <2>1, <2>2, <2>5
  <2> QED BY <1>3, <2>3, <2>4, <2>5, StepSettles
<1> QED BY <1>3, <1>4, <1>5, <1>6, <1>7, <1>8 DEF TunnelInv

\* A Resume goes on with the request of its attempt, or fails for good.
LEMMA ResumeMoves ==
  ASSUME TunnelTypeOK, NEW c \in Calls, mode = "android_vpn_service", At(c, "resume"),
         ResumeAttempt(c), calls[c].own \in attempts
  PROVE  /\ Moves(c, {"route", "remember"}) /\ calls'[c].own = calls[c].own
         /\ calls'[c].at = calls[c].at /\ last' = last
         /\ calls'[c].res.ready => calls[c].res.ready
         /\ calls'[c].pc = "remember" => ~calls'[c].res.ready
<1> DEFINE q == calls[calls[c].own].request
           f == Failure("permission_acquire", "permission")
           g == [calls[c] EXCEPT !.request = q]
           r == IF permission THEN [g EXCEPT !.pc = "route"]
                ELSE [g EXCEPT !.pc = "remember", !.res = f]
<1>1. calls' = [calls EXCEPT ![c] = r] /\ last' = last
  BY AndroidNext DEF ResumeAttempt
<1>2. calls[c] \in CallRecords(mode) /\ calls[c].own \in Calls
  BY DEF TunnelTypeOK
<1>3. q \in DOMAIN Requests[mode] \cup {""}
  <2>1. calls[calls[c].own] \in CallRecords(mode)
    BY <1>2 DEF TunnelTypeOK
  <2> QED BY <2>1 DEF CallRecords
<1>4. f \in StartResults(mode) /\ ~f.ready
  BY FailureIsResult, WordsOfStarts DEF StartupStages
<1> HIDE DEF q, f
<1>5. /\ g \in CallRecords(mode) /\ g.op = calls[c].op /\ g.alone = calls[c].alone
      /\ g.own = calls[c].own /\ g.at = calls[c].at /\ g.res = calls[c].res
  BY <1>2, <1>3 DEF CallRecords
<1> HIDE DEF g
<1>6. "route" \in AllPcs(mode) /\ "remember" \in AllPcs(mode)
  BY DEF AllPcs, StartPcs, StagePcs
<1>7. /\ r \in CallRecords(mode) /\ r.pc \in {"route", "remember"} /\ r.op = g.op
      /\ r.alone = g.alone /\ r.own = g.own /\ r.at = g.at
      /\ r.res.ready => g.res.ready
      /\ r.pc = "remember" => ~r.res.ready
  <2>1. CASE permission
    <3>1. r = [g EXCEPT !.pc = "route"]
      BY <2>1
    <3> HIDE DEF r
    <3> QED BY <1>5, <1>6, <3>1, PcOfRecord
  <2>2. CASE ~permission
    <3> DEFINE h == [g EXCEPT !.res = f]
    <3>1. r = [h EXCEPT !.pc = "remember"]
      BY <1>5, <2>2 DEF CallRecords
    <3>2. /\ h \in CallRecords(mode) /\ h.op = g.op /\ h.alone = g.alone
          /\ h.own = g.own /\ h.at = g.at /\ h.res = f
      BY <1>4, <1>5, ResOfRecord
    <3> HIDE DEF h, r
    <3> QED BY <1>4, <1>6, <3>1, <3>2, PcOfRecord
  <2> QED BY <2>1, <2>2
<1> HIDE DEF r
<1>8. /\ calls' \in [Calls -> CallRecords(mode)] /\ calls'[c] = r
      /\ \A d \in Calls \ {c} : calls'[d] = calls[d]
  BY <1>1, <1>7, CallUpdate
<1> QED BY <1>1, <1>5, <1>7, <1>8 DEF Moves

\* Both halves were there, or neither.
LEMMA StepResumeAttempt ==
  ASSUME TunnelInv, NEW c \in Active, ResumeAttempt(c)
  PROVE  TunnelInv'
<1>1. /\ c \in Calls /\ TunnelTypeOK /\ At(c, "resume") /\ calls[c].pc = "resume"
      /\ mode = "android_vpn_service"
      /\ UNCHANGED <<envVars, tables, slot, nativeVars, overlaps, botched>>
      /\ attempts' = attempts \ {calls[c].own} /\ calls[c].op # "stop" /\ calls[c].op # ""
      /\ ~calls[c].res.ready
  BY PlaceOfMode
     DEF Active, TunnelInv, ResumeAttempt, takeStartupAttempt, At, CallsOK, CallOK, StopPcs,
         CleanPcs
<1>2. mode' = mode /\ Live' = Live /\ (ReadyIsFollowed => ReadyIsFollowed') /\ botched' = botched
  BY <1>1 DEF Live, ReadyIsFollowed, envVars, tables
<1>3. (Matches => Matches') /\ (NativeSound => NativeSound')
  BY <1>1, <1>2 DEF NativeSound, Matches, Attached, nativeVars
<1>4. PendingOK(c) => startupRequests' = attempts'
  BY <1>1 DEF PendingOK, tables
<1>5. TunnelOK(c) => Matches
  BY <1>1 DEF TunnelOK, Untouched
<1>6. botched \in BOOLEAN /\ overlaps' = overlaps /\ (botched => botched')
  BY <1>1 DEF TunnelTypeOK
<1>7. CASE calls[c].own \in attempts
  <2>1. /\ Moves(c, {"route", "remember"}) /\ Keeps(c) /\ last' = last
        /\ calls'[c].pc = "remember" => ~calls'[c].res.ready
    BY <1>1, <1>7, ResumeMoves DEF Keeps
  <2>2. CallsOK' /\ Active' = Active
    BY <1>1, <2>1, MoveKeepsCalls DEF TunnelInv, Keeps
  <2>3. TunnelTypeOK'
    BY <1>1, <2>1 DEF TunnelTypeOK, Moves, envVars, tables, nativeVars
  <2>4. ClockOK'
    BY <1>1, <2>1 DEF TunnelInv, ClockOK, Moves, Keeps, tables
  <2>5. HealInv'
    BY <1>1, <1>2, <2>1, <2>2, OthersKeepHealed DEF Moves
  <2>6. PendingInv'
    <3>1. PendingOK(c) => PendingOK(c)'
      BY <1>4, <2>1 DEF PendingOK, Moves
    <3> QED BY <1>1, <2>2, <3>1, StepPends
  <2>7. SettledInv'
    <3>1. Matches' => TunnelOK(c)'
      BY <1>1, <1>2, <2>1 DEF TunnelOK, Untouched, Prepared, Configured, Moves
    <3>2. ASSUME overlaps = 0, ~botched, ~botched', NativeSound, ReadyIsFollowed,
                 Active = {c}, TunnelOK(c)
          PROVE  NativeSound' /\ ReadyIsFollowed' /\ TunnelOK(c)'
      BY <1>2, <1>3, <1>5, <3>1, <3>2
    <3> QED BY <1>6, <2>2, <3>2, StepSettles
  <2> QED BY <2>2, <2>3, <2>4, <2>5, <2>6, <2>7 DEF TunnelInv
<1>8. CASE calls[c].own \notin attempts
  <2>1. Return(c, FALSE)
    BY <1>8 DEF ResumeAttempt
  <2>2. /\ CallsOK' /\ Active' = Active \ {c}
        /\ calls' \in [Calls -> CallRecords(mode)] /\ calls'[c].op = "" /\ calls'[c].at = 0
        /\ \A d \in Calls \ {c} : calls'[d] = calls[d]
    BY <1>1, <2>1, ReturnKeepsCalls DEF TunnelInv
  <2>3. last'.op = calls[c].op /\ last' \in [op : Ops \cup {""}, alone : BOOLEAN, ok : BOOLEAN]
    BY <1>1, <2>1 DEF Return, TunnelTypeOK, CallRecords
  <2>4. TunnelTypeOK'
    BY <1>1, <2>2, <2>3 DEF TunnelTypeOK, envVars, tables, nativeVars
  <2>5. ClockOK'
    <3>1. startResult' = startResult /\ sessions' = sessions /\ clock' = clock
      BY <1>1 DEF tables
    <3>2. clock \in Nat \ {0}
      BY <1>1 DEF TunnelTypeOK
    <3>3. 0 < clock
      BY <3>2
    <3> QED BY <2>2, <3>1, <3>3 DEF TunnelInv, ClockOK
  <2>6. HealInv'
    BY <1>1, <1>2, <2>2, <2>3, OthersKeepHealed
  <2>7. PendingInv'
    BY <1>1, <1>4, <2>2, StepPends
  <2>8. SettledInv'
    <3>1. ASSUME overlaps = 0, ~botched, ~botched', NativeSound, ReadyIsFollowed,
                 Active = {c}, TunnelOK(c)
          PROVE  NativeSound' /\ ReadyIsFollowed' /\ Matches'
      BY <1>2, <1>3, <1>5, <3>1
    <3> QED BY <1>6, <2>2, <3>1, ReturnSettles
  <2> QED BY <2>2, <2>4, <2>5, <2>6, <2>7, <2>8 DEF TunnelInv
<1> QED BY <1>7, <1>8

\* A session's time is read from the clock before the session is there.
LEMMA StepPublish ==
  ASSUME TunnelInv, NEW c \in Active, materializedProfileSpecForResolution(c)
  PROVE  TunnelInv'
<1>1. /\ c \in Calls /\ TunnelTypeOK /\ calls[c].pc = "publish" /\ mode \in Modes
      /\ UNCHANGED <<envVars, startupRequests, startResult, stop, sessions, slot, attempts,
                     nativeVars, history>>
      /\ calls[c].op # "stop" /\ ~calls[c].res.ready
  BY DEF Active, TunnelInv, TunnelTypeOK, materializedProfileSpecForResolution, At, CallsOK, CallOK,
         StopPcs, CleanPcs
<1>2. clock \in Nat \ {0}
  BY <1>1 DEF TunnelTypeOK
<1>3. /\ Moves(c, {"commit", CleanupEntry})
      /\ calls'[c].at \in Nat /\ calls'[c].at < clock' /\ clock' \in {clock, clock + 1}
      /\ calls'[c].own = calls[c].own /\ ~calls'[c].res.ready
  <2>1. CASE calls[c].knows /\ Request(c).resolution # "" /\ resolved
    <3> DEFINE r == [calls[c] EXCEPT !.pc = "commit", !.at = clock]
    <3>1. clock' = clock + 1 /\ calls' = [calls EXCEPT ![c] = r]
      BY <1>1, <2>1 DEF materializedProfileSpecForResolution, TunnelTypeOK
    <3>2. calls[c] \in CallRecords(mode) /\ "commit" \in AllPcs(mode)
      BY <1>1 DEF TunnelTypeOK, AllPcs, StartPcs
    <3>3. /\ r \in CallRecords(mode) /\ r.pc = "commit" /\ r.op = calls[c].op
          /\ r.alone = calls[c].alone /\ r.own = calls[c].own /\ r.at = clock
          /\ r.res = calls[c].res
      BY <1>2, <3>2 DEF CallRecords, AllPcs
    <3> HIDE DEF r
    <3>4. /\ calls' \in [Calls -> CallRecords(mode)] /\ calls'[c] = r
          /\ \A d \in Calls \ {c} : calls'[d] = calls[d]
      BY <1>1, <3>1, <3>3, CallUpdate
    <3>5. clock < clock + 1
      BY <1>2
    <3> QED BY <1>1, <1>2, <3>1, <3>3, <3>4, <3>5 DEF Moves
  <2>2. CASE ~(calls[c].knows /\ Request(c).resolution # "" /\ resolved)
    <3>1. Fail(c, Failure("runtime_attach", "host_implementation")) /\ clock' = clock
      BY <2>2 DEF materializedProfileSpecForResolution
    <3>2. FailPc("runtime_attach") = CleanupEntry
      BY DEF FailPc, platformTunnelFailureNeedsCleanup
    <3>3. "runtime_attach" \in StartupStages
      BY DEF StartupStages
    <3>4. Moves(c, {CleanupEntry}) /\ Keeps(c) /\ ~calls'[c].res.ready
      BY <1>1, <3>1, <3>2, <3>3, FailMoves, WordsOfStarts
    <3>5. calls[c].at \in Nat /\ calls[c].at < clock
      <4>1. calls[c] \in CallRecords(mode)
        BY <1>1 DEF TunnelTypeOK
      <4> QED BY <1>1, <4>1 DEF CallRecords, TunnelInv, ClockOK
    <3> QED BY <3>1, <3>4, <3>5 DEF Moves, Keeps
  <2> QED BY <2>1, <2>2
<1>4. /\ CleanupEntry \in {"clean", "cleanup"}
      /\ CleanupEntry = IF mode = "linux_tun" THEN "clean" ELSE "cleanup"
  BY DEF CleanupEntry
<1>5. CallsOK' /\ Active' = Active
  BY <1>1, <1>3, <1>4, MoveKeepsCalls DEF TunnelInv, history
<1>6. TunnelTypeOK'
  <2>1. clock' \in Nat \ {0}
    BY <1>2, <1>3
  <2> QED BY <1>1, <1>3, <2>1 DEF TunnelTypeOK, Moves, envVars, nativeVars, history
<1>7. ClockOK'
  <2>1. \A n \in Nat : n < clock => n < clock'
    BY <1>2, <1>3
  <2>2. startResult.at \in Nat /\ startResult.at < clock
    BY <1>1 DEF TunnelTypeOK, StartResults, TunnelInv, ClockOK
  <2>3. ASSUME NEW s \in sessions PROVE s.at < clock'
    BY <1>1, <2>1 DEF TunnelTypeOK, SessionRecords, TunnelInv, ClockOK
  <2>4. ASSUME NEW d \in Calls PROVE calls'[d].at < clock'
    <3>1. calls[d] \in CallRecords(mode) /\ calls[d].at < clock
      BY <1>1 DEF TunnelTypeOK, TunnelInv, ClockOK
    <3>2. calls[d].at \in Nat
      BY <3>1 DEF CallRecords
    <3>3. CASE d = c
      BY <1>3, <3>3
    <3>4. CASE d # c
      BY <1>3, <2>1, <3>1, <3>2, <3>4 DEF Moves
    <3> QED BY <3>3, <3>4
  <2> QED BY <1>1, <2>1, <2>2, <2>3, <2>4 DEF ClockOK
<1>8. HealInv'
  BY <1>1, <1>3, <1>5, OthersKeepHealed DEF Moves, history, envVars
<1>9. PendingInv'
  <2>1. PendingOK(c) => PendingOK(c)'
    BY <1>1, <1>3, <1>4 DEF PendingOK, Moves
  <2> QED BY <1>1, <1>5, <2>1, StepPends DEF history
<1>10. SettledInv'
  <2>1. mode' = mode /\ Live' = Live /\ (ReadyIsFollowed => ReadyIsFollowed') /\ botched' = botched
    BY <1>1 DEF Live, ReadyIsFollowed, envVars, history
  <2>2. ASSUME NativeSound, TunnelOK(c)
        PROVE  NativeSound' /\ TunnelOK(c)'
    <3>1. NativeSound'
      BY <1>1, <2>1, <2>2 DEF NativeSound, nativeVars
    <3>2. CASE calls'[c].pc = "commit"
      <4>1. UNCHANGED <<native, runtimes, slot>>
        BY <1>1 DEF nativeVars
      <4>2. mode \in {"linux_tun", "windows_wintun", "android_vpn_service"}
        BY <1>1, ThreeModes
      <4>3. /\ Attached /\ runtimes = {native.runtime} \ {0}
            /\ mode # "android_vpn_service" => native.excl
            /\ mode = "linux_tun" => slot = c /\ calls[c].own = c
        BY <1>1, <2>2, <4>2 DEF TunnelOK, Configured
      <4> QED BY <1>3, <2>1, <3>1, <3>2, <4>1, <4>2, <4>3
              DEF TunnelOK, Untouched, Prepared, Configured, Attached
    <3>3. CASE calls'[c].pc = CleanupEntry
      <4>1. mode \in {"linux_tun", "windows_wintun", "android_vpn_service"}
        BY <1>1, ThreeModes
      <4>2. /\ calls'[c].pc \in {"clean", "cleanup"}
            /\ mode = "linux_tun" => calls'[c].pc = "clean"
        BY <1>4, <3>3
      <4> QED BY <2>1, <3>1, <4>1, <4>2 DEF TunnelOK, Untouched, Prepared, Configured
    <3> QED BY <1>3, <3>1, <3>2, <3>3 DEF Moves
  <2>3. botched \in BOOLEAN
    BY <1>1 DEF TunnelTypeOK
  <2>4. overlaps' = overlaps /\ (botched => botched')
    BY <1>1 DEF history
  <2>5. ASSUME overlaps = 0, ~botched, ~botched', NativeSound, ReadyIsFollowed,
               Active = {c}, TunnelOK(c)
        PROVE  NativeSound' /\ ReadyIsFollowed' /\ TunnelOK(c)'
    BY <2>1, <2>2, <2>5
  <2> QED BY <1>5, <2>3, <2>4, <2>5, StepSettles
<1> QED BY <1>5, <1>6, <1>7, <1>8, <1>9, <1>10 DEF TunnelInv

\* The sessions of the mode are stopped, at a time before the clock's.
LEMMA StoppedSessions ==
  ASSUME TunnelTypeOK, NEW t \in Nat
  PROVE  /\ MarkStopped(t) \subseteq SessionRecords
         /\ \A s \in MarkStopped(t) : ~s.live
         /\ \A s \in MarkStopped(t) : s.at = t \/ \E u \in sessions : s.at = u.at
         /\ \A u \in sessions : \E s \in MarkStopped(t) : s.at = IF u.live THEN t ELSE u.at
<1> DEFINE S(u) == IF u.live THEN [u EXCEPT !.live = FALSE, !.at = t] ELSE u
<1>1. MarkStopped(t) = {S(u) : u \in sessions}
  BY DEF MarkStopped
<1>2. ASSUME NEW u \in sessions
      PROVE  /\ S(u) \in SessionRecords /\ ~S(u).live
             /\ S(u).at = IF u.live THEN t ELSE u.at
  <2>1. u \in SessionRecords
    BY DEF TunnelTypeOK
  <2> QED BY <2>1 DEF SessionRecords
<1> HIDE DEF S
<1> QED BY <1>1, <1>2

\* The session is there only when the tunnel is attached.
LEMMA StepSession ==
  ASSUME TunnelInv, NEW c \in Active, startPlatformTunnelSession(c)
  PROVE  TunnelInv'
<1> DEFINE new == [id |-> c, live |-> TRUE, at |-> calls[c].at]
<1>1. /\ c \in Calls /\ TunnelTypeOK /\ calls[c].pc = "commit" /\ mode \in Modes
      /\ UNCHANGED <<envVars, startupRequests, startResult, stop, clock, slot, attempts,
                     nativeVars, history>>
      /\ calls[c].op # "stop" /\ calls[c].at < clock
      /\ sessions' = MarkStopped(calls[c].at) \cup {new}
  BY DEF Active, TunnelInv, TunnelTypeOK, startPlatformTunnelSession, At, CallsOK, CallOK,
         StopPcs, CleanPcs, ClockOK
<1>2. calls[c] \in CallRecords(mode) /\ calls[c].at \in Nat
  BY <1>1 DEF TunnelTypeOK, CallRecords
<1>3. new \in SessionRecords /\ new.live /\ new.at = calls[c].at
  BY <1>1, <1>2 DEF SessionRecords
<1> HIDE DEF new
<1>4. /\ Moves(c, {"remember"}) /\ calls'[c].own = calls[c].own /\ calls'[c].at = calls[c].at
      /\ calls'[c].pc = "remember"
  <2> DEFINE f == [NoResult EXCEPT !.ready = TRUE, !.session = c]
             r == [calls[c] EXCEPT !.pc = "remember", !.res = f]
  <2>1. calls' = [calls EXCEPT ![c] = r]
    BY <1>1 DEF startPlatformTunnelSession, TunnelTypeOK
  <2>2. f \in StartResults(mode)
    <3>1. NoResult \in StartResults(mode)
      BY DEF NoResult, StartResults, Words
    <3>2. c \in Nat
      BY <1>1, CallNumbers, TunnelBounds
    <3> QED BY <3>1, <3>2 DEF StartResults
  <2>3. "remember" \in AllPcs(mode)
    BY DEF AllPcs, StartPcs
  <2> HIDE DEF f
  <2>4. /\ r \in CallRecords(mode) /\ r.pc = "remember" /\ r.op = calls[c].op
        /\ r.alone = calls[c].alone /\ r.own = calls[c].own /\ r.at = calls[c].at
    BY <1>2, <2>2, <2>3 DEF CallRecords, AllPcs
  <2> HIDE DEF r
  <2>5. /\ calls' \in [Calls -> CallRecords(mode)] /\ calls'[c] = r
        /\ \A d \in Calls \ {c} : calls'[d] = calls[d]
    BY <1>1, <2>1, <2>4, CallUpdate
  <2> QED BY <2>4, <2>5 DEF Moves
<1>5. CallsOK' /\ Active' = Active
  BY <1>1, <1>4, MoveKeepsCalls DEF TunnelInv, history
<1>6. TunnelTypeOK'
  <2>1. sessions' \subseteq SessionRecords
    BY <1>1, <1>2, <1>3, StoppedSessions
  <2> QED BY <1>1, <1>4, <2>1 DEF TunnelTypeOK, Moves, envVars, nativeVars, history
<1>7. ClockOK'
  <2>1. ASSUME NEW s \in sessions' PROVE s.at < clock'
    BY <1>1, <1>2, <1>3, StoppedSessions DEF TunnelInv, ClockOK
  <2> QED BY <1>1, <1>4, <2>1 DEF TunnelInv, ClockOK, Moves
<1>8. HealInv'
  BY <1>1, <1>4, <1>5, OthersKeepHealed DEF Moves, history, envVars
<1>9. PendingInv'
  <2>1. PendingOK(c) => PendingOK(c)'
    BY <1>1, <1>4 DEF PendingOK, Moves
  <2> QED BY <1>1, <1>5, <2>1, StepPends DEF history
<1>10. SettledInv'
  <2>1. mode' = mode /\ botched' = botched
    BY <1>1 DEF envVars, history
  <2>2. Live' # {}
    BY <1>1, <1>3 DEF Live
  <2>3. ReadyIsFollowed'
    BY <2>2 DEF ReadyIsFollowed
  <2>4. ASSUME NativeSound, TunnelOK(c)
        PROVE  NativeSound' /\ TunnelOK(c)'
    <3>1. NativeSound'
      BY <1>1, <2>1, <2>4 DEF NativeSound, nativeVars
    <3>2. mode = "linux_tun" => slot = c /\ c # 0
      BY <1>1, <2>4, CallNumbers DEF TunnelOK
    <3>3. Matches'
      BY <1>1, <2>1, <2>2, <2>4, <3>2 DEF Matches, TunnelOK, Attached, nativeVars
    <3> QED BY <1>4, <2>1, <2>2, <3>1, <3>3, ThreeModes, <1>1
               DEF TunnelOK, Untouched, Prepared, Configured
  <2>5. botched \in BOOLEAN
    BY <1>1 DEF TunnelTypeOK
  <2>6. overlaps' = overlaps /\ (botched => botched')
    BY <1>1 DEF history
  <2>7. ASSUME overlaps = 0, ~botched, ~botched', NativeSound, ReadyIsFollowed,
               Active = {c}, TunnelOK(c)
        PROVE  NativeSound' /\ ReadyIsFollowed' /\ TunnelOK(c)'
    BY <2>3, <2>4, <2>7
  <2> QED BY <1>5, <2>5, <2>6, <2>7, StepSettles
<1> QED BY <1>5, <1>6, <1>7, <1>8, <1>9, <1>10 DEF TunnelInv

\* The result is remembered, if it is valid, and the call returns.
LEMMA StepRememberResult ==
  ASSUME TunnelInv, NEW c \in Active, rememberPlatformTunnelResult(c)
  PROVE  TunnelInv'
<1>1. /\ c \in Calls /\ TunnelTypeOK /\ calls[c].pc = "remember" /\ mode \in Modes
      /\ UNCHANGED <<envVars, startupRequests, stop, sessions, slot, attempts, nativeVars,
                     overlaps, botched>>
      /\ calls[c].op # "stop" /\ Return(c, TRUE) /\ calls[c].op # ""
      /\ calls[c] \in CallRecords(mode)
  BY DEF Active, TunnelInv, TunnelTypeOK, rememberPlatformTunnelResult, At, CallsOK, CallOK,
         StopPcs, CleanPcs
<1>2. clock \in Nat \ {0} /\ clock < clock + 1
  <2>1. clock \in Nat \ {0}
    BY <1>1 DEF TunnelTypeOK
  <2> QED BY <2>1
<1>3. /\ clock' \in {clock, clock + 1} /\ startResult' \in StartResults(mode)
      /\ startResult'.at < clock'
      /\ startResult' = startResult \/ (startResult'.ready => calls[c].res.ready)
  <2> DEFINE f == [calls[c].res EXCEPT !.at = clock]
  <2>1. CASE startResult' = f /\ clock' = clock + 1
    <3>1. calls[c].res \in StartResults(mode)
      BY <1>1 DEF CallRecords
    <3>2. f \in StartResults(mode) /\ f.at = clock /\ f.ready = calls[c].res.ready
      BY <1>2, <3>1 DEF StartResults
    <3> QED BY <1>2, <2>1, <3>2
  <2>2. CASE startResult' = startResult /\ clock' = clock
    BY <1>1, <2>2 DEF TunnelTypeOK, TunnelInv, ClockOK
  <2> QED BY <2>1, <2>2 DEF rememberPlatformTunnelResult
<1>4. /\ CallsOK' /\ Active' = Active \ {c}
      /\ calls' \in [Calls -> CallRecords(mode)] /\ calls'[c].op = "" /\ calls'[c].at = 0
      /\ \A d \in Calls \ {c} : calls'[d] = calls[d]
  BY <1>1, ReturnKeepsCalls DEF TunnelInv
<1>5. last'.op = calls[c].op /\ last' \in [op : Ops \cup {""}, alone : BOOLEAN, ok : BOOLEAN]
  BY <1>1 DEF Return, CallRecords
<1>6. TunnelTypeOK'
  <2>1. clock' \in Nat \ {0}
    BY <1>2, <1>3
  <2> QED BY <1>1, <1>3, <1>4, <1>5, <2>1 DEF TunnelTypeOK, envVars, nativeVars
<1>7. ClockOK'
  <2>1. \A n \in Nat : n < clock => n < clock'
    BY <1>2, <1>3
  <2>2. ASSUME NEW s \in sessions PROVE s.at < clock'
    BY <1>1, <2>1 DEF TunnelTypeOK, SessionRecords, TunnelInv, ClockOK
  <2>3. ASSUME NEW d \in Calls PROVE calls'[d].at < clock'
    <3>1. calls[d] \in CallRecords(mode) /\ calls[d].at < clock
      BY <1>1 DEF TunnelTypeOK, TunnelInv, ClockOK
    <3>2. calls[d].at \in Nat
      BY <3>1 DEF CallRecords
    <3>3. CASE d = c
      <4>1. 0 < clock'
        BY <1>2, <1>3
      <4> QED BY <1>4, <3>3, <4>1
    <3>4. CASE d # c
      BY <1>4, <2>1, <3>1, <3>2, <3>4
    <3> QED BY <3>3, <3>4
  <2> QED BY <1>1, <1>3, <2>2, <2>3 DEF ClockOK
<1>8. HealInv'
  BY <1>1, <1>4, <1>5, OthersKeepHealed DEF envVars
<1>9. PendingInv'
  <2>1. PendingOK(c) => startupRequests' = attempts'
    BY <1>1 DEF PendingOK
  <2> QED BY <1>1, <1>4, <2>1, StepPends
<1>10. SettledInv'
  <2>1. mode' = mode /\ Live' = Live
    BY <1>1 DEF Live, envVars
  <2>2. ASSUME NativeSound, ReadyIsFollowed, TunnelOK(c)
        PROVE  NativeSound' /\ ReadyIsFollowed' /\ Matches'
    <3>1. NativeSound'
      BY <1>1, <2>1, <2>2 DEF NativeSound, nativeVars
    <3>2. Matches /\ (calls[c].res.ready => Live # {})
      BY <1>1, <2>2 DEF TunnelOK, Untouched
    <3>3. Matches'
      BY <1>1, <2>1, <3>2 DEF Matches, Attached, nativeVars
    <3>4. ReadyIsFollowed'
      BY <1>1, <1>3, <2>1, <2>2, <3>2 DEF ReadyIsFollowed
    <3> QED BY <3>1, <3>3, <3>4
  <2>3. botched \in BOOLEAN
    BY <1>1 DEF TunnelTypeOK
  <2>4. ASSUME overlaps = 0, ~botched, ~botched', NativeSound, ReadyIsFollowed,
               Active = {c}, TunnelOK(c)
        PROVE  NativeSound' /\ ReadyIsFollowed' /\ Matches'
    BY <2>2, <2>4
  <2> QED BY <1>1, <1>4, <2>3, <2>4, ReturnSettles
<1> QED BY <1>4, <1>6, <1>7, <1>8, <1>9, <1>10 DEF TunnelInv

\* A step of a call that goes on spoils nothing healed; a Stop that is alone

\* says itself what it has put back.
LEMMA GoOnHeals ==
  ASSUME TunnelInv, NEW c \in Active, Active' = Active, mode' = mode, last' = last,
         \A d \in Calls \ {c} : calls'[d] = calls[d],
         calls'[c].op = calls[c].op, calls'[c].alone = calls[c].alone,
         mode # "linux_tun" /\ slot = 0 => slot' = 0,
         ASSUME calls[c].op = "stop", StopOK(c) PROVE StopOK(c)'
  PROVE  HealInv'
<1> USE DEF TunnelInv
<1>1. ASSUME NEW d \in Active', calls'[d].op = "stop", calls'[d].alone
      PROVE  StopOK(d)'
  <2>1. CASE d = c
    BY <1>1, <2>1 DEF HealInv
  <2>2. CASE d # c
    <3>1. d \in Calls /\ calls'[d] = calls[d]
      BY <2>2 DEF Active
    <3>2. CallOK(d) /\ calls[d].alone
      BY <1>1, <3>1 DEF CallsOK
    <3> QED BY <1>1, <2>2, <3>2 DEF CallOK
  <2> QED BY <2>1, <2>2
<1> QED BY <1>1 DEF HealInv, HealedByStop

\* A call that returns heals only what it says.
LEMMA ReturnHeals ==
  ASSUME TunnelInv, NEW c \in Active, Active' = Active \ {c}, mode' = mode,
         \A d \in Calls \ {c} : calls'[d] = calls[d],
         mode # "linux_tun" /\ slot = 0 => slot' = 0,
         last' = [op |-> "stop", alone |-> TRUE, ok |-> TRUE] => HealedByStop'
  PROVE  HealInv'
<1> USE DEF TunnelInv
<1>1. ASSUME NEW d \in Active', calls'[d].op = "stop", calls'[d].alone
      PROVE  FALSE
  <2>1. d \in Active /\ d # c /\ d \in Calls
    BY DEF Active
  <2>2. CallOK(d) /\ calls[d].alone
    BY <1>1, <2>1 DEF CallsOK
  <2> QED BY <2>1, <2>2 DEF CallOK
<1> QED BY <1>1 DEF HealInv

\* A Stop, or the cleanup of a failed start, from the attempt it reads to the

\* sessions it stops.
LEMMA StepActiveAttempt ==
  ASSUME TunnelInv, NEW c \in Active, activeNativeAttempt(c)
  PROVE  TunnelInv'
<1>1. /\ c \in Calls /\ TunnelTypeOK /\ calls[c].pc = "clean" /\ ~calls[c].res.ready
      /\ UNCHANGED <<envVars, tables, slot, attempts, nativeVars, history>>
      /\ calls[c] \in CallRecords(mode)
  BY DEF Active, TunnelInv, TunnelTypeOK, activeNativeAttempt, At, CallsOK, CallOK
<1>2. /\ Moves(c, {"cleanup"}) /\ calls'[c].at = calls[c].at /\ calls'[c].own = slot
      /\ calls'[c].res = calls[c].res /\ calls'[c].pc = "cleanup"
  <2> DEFINE r == [calls[c] EXCEPT !.pc = "cleanup", !.own = slot]
  <2>1. calls' = [calls EXCEPT ![c] = r]
    BY <1>1 DEF activeNativeAttempt, TunnelTypeOK
  <2>2. slot \in 0 .. MaxCalls /\ "cleanup" \in AllPcs(mode)
    BY <1>1 DEF TunnelTypeOK, AllPcs, StopPcs, CleanPcs
  <2>3. /\ r \in CallRecords(mode) /\ r.pc = "cleanup" /\ r.op = calls[c].op
        /\ r.alone = calls[c].alone /\ r.own = slot /\ r.at = calls[c].at
        /\ r.res = calls[c].res
    BY <1>1, <2>2 DEF CallRecords, AllPcs
  <2> HIDE DEF r
  <2>4. /\ calls' \in [Calls -> CallRecords(mode)] /\ calls'[c] = r
        /\ \A d \in Calls \ {c} : calls'[d] = calls[d]
    BY <1>1, <2>1, <2>3, CallUpdate
  <2> QED BY <2>3, <2>4 DEF Moves
<1>3. CallsOK' /\ Active' = Active
  BY <1>1, <1>2, MoveKeepsCalls DEF TunnelInv, history, StopPcs, CleanPcs
<1>4. TunnelTypeOK'
  BY <1>1, <1>2 DEF TunnelTypeOK, Moves, envVars, tables, nativeVars, history
<1>5. ClockOK'
  BY <1>1, <1>2 DEF TunnelInv, ClockOK, Moves, tables
<1>6. HealInv'
  <2>1. ASSUME calls[c].op = "stop", StopOK(c) PROVE StopOK(c)'
    BY <1>1, <1>2 DEF StopOK
  <2> QED BY <1>1, <1>2, <1>3, <2>1, GoOnHeals DEF Moves, history, envVars
<1>7. PendingInv'
  <2>1. PendingOK(c) => PendingOK(c)'
    BY <1>1, <1>2 DEF PendingOK, tables
  <2> QED BY <1>1, <1>3, <2>1, StepPends DEF history
<1>8. SettledInv'
  <2>1. mode' = mode /\ Live' = Live /\ (ReadyIsFollowed => ReadyIsFollowed') /\ slot' = slot
    BY <1>1 DEF Live, ReadyIsFollowed, envVars, tables
  <2>2. NativeSound => NativeSound'
    BY <1>1, <2>1 DEF NativeSound, nativeVars
  <2>3. TunnelOK(c)'
    <3>1. mode \in {"linux_tun", "windows_wintun", "android_vpn_service"}
      BY <1>1, ThreeModes DEF TunnelTypeOK
    <3> QED BY <1>2, <2>1, <3>1 DEF TunnelOK, Untouched, Prepared, Configured
  <2>4. botched \in BOOLEAN
    BY <1>1 DEF TunnelTypeOK
  <2>5. overlaps' = overlaps /\ (botched => botched')
    BY <1>1 DEF history
  <2>6. ASSUME overlaps = 0, ~botched, ~botched', NativeSound, ReadyIsFollowed,
               Active = {c}, TunnelOK(c)
        PROVE  NativeSound' /\ ReadyIsFollowed' /\ TunnelOK(c)'
    BY <2>1, <2>2, <2>3, <2>6
  <2> QED BY <1>3, <2>4, <2>5, <2>6, StepSettles
<1> QED BY <1>3, <1>4, <1>5, <1>6, <1>7, <1>8 DEF TunnelInv

\* What a cleanup leaves: nothing, unless it reports an error or is botched.
LEMMA CleanupEffect ==
  ASSUME TunnelTypeOK, NEW c \in Calls, Cleanup(c)
  PROVE  \E err, kept \in BOOLEAN :
           /\ botched' = (botched \/ err \/ kept)
           /\ NativeKinds' /\ devices' \subseteq Calls /\ runtimes' \subseteq Calls
           /\ routes' \in BOOLEAN
           /\ ~err => native' = NoState
           /\ ~err /\ ~kept /\ NativeSound => NativeSound'
           /\ IF ~err THEN Goto(c, "release") /\ UNCHANGED last
              ELSE IF calls[c].op = "stop" THEN Return(c, FALSE)
              ELSE Goto(c, "remember") /\ UNCHANGED last
<1>1. PICK err, kept \in BOOLEAN :
        /\ \/ mode = "linux_tun" /\ LinuxCleanup(err, kept)
           \/ mode = "windows_wintun" /\ WindowsCleanup(err, kept)
           \/ mode = "android_vpn_service" /\ AndroidCleanup(err, kept)
        /\ botched' = (botched \/ err \/ kept)
        /\ IF ~err THEN Goto(c, "release") /\ UNCHANGED last
           ELSE IF calls[c].op = "stop" THEN Return(c, FALSE)
           ELSE Goto(c, "remember") /\ UNCHANGED last
  BY ThreeModes DEF Cleanup, TunnelTypeOK
<1>2. mode' = mode
  BY DEF Cleanup, envVars
<1>3. NoState = [dev |-> 0, excl |-> FALSE, runtime |-> 0] /\ NoState.dev = 0
      /\ NoState.runtime = 0 /\ ~NoState.excl /\ 0 \in 0 .. MaxCalls
  BY TunnelBounds DEF NoState
<1>4. native \in [dev : 0 .. MaxCalls, excl : BOOLEAN, runtime : 0 .. MaxCalls]
      /\ devices \subseteq Calls /\ runtimes \subseteq Calls /\ routes \in BOOLEAN
  BY DEF TunnelTypeOK
<1>5. ASSUME cleanupLocked(kept, 0)
      PROVE  /\ NativeKinds' /\ devices' \subseteq Calls /\ runtimes' \subseteq Calls
             /\ routes' \in BOOLEAN /\ native' = NoState
             /\ ~kept /\ NativeSound => NativeSound'
  <2>1. /\ native' = NoState /\ devices' = devices \ {native.dev}
        /\ runtimes' = runtimes \ {native.runtime}
        /\ routes' = (routes /\ (kept \/ ~native.excl))
    BY <1>3, <1>5 DEF cleanupLocked, NoState
  <2>2. routes' \in BOOLEAN /\ (routes' => routes /\ (kept \/ ~native.excl))
    <3>1. CASE routes /\ (kept \/ ~native.excl)
      BY <2>1, <3>1
    <3>2. CASE ~(routes /\ (kept \/ ~native.excl))
      BY <2>1, <3>2
    <3> QED BY <3>1, <3>2
  <2>3. NativeKinds' /\ devices' \subseteq Calls /\ runtimes' \subseteq Calls
    BY <1>3, <1>4, <2>1 DEF NativeKinds
  <2>4. ASSUME ~kept, NativeSound PROVE NativeSound'
    BY <1>2, <1>3, <2>1, <2>2, <2>4 DEF NativeSound
  <2> QED BY <2>1, <2>2, <2>3, <2>4
<1>6. CASE mode = "linux_tun" /\ LinuxCleanup(err, kept)
  BY <1>1, <1>5, <1>6 DEF LinuxCleanup
<1>7. CASE mode = "windows_wintun" /\ WindowsCleanup(err, kept)
  BY <1>1, <1>5, <1>7 DEF WindowsCleanup
<1>8. CASE mode = "android_vpn_service" /\ AndroidCleanup(err, kept)
  <2>1. /\ kept => err
        /\ native' = IF kept THEN [NoState EXCEPT !.dev = native.dev] ELSE NoState
        /\ devices' = IF kept THEN devices ELSE devices \ {native.dev}
        /\ runtimes' = runtimes \ {native.runtime} /\ routes' = routes
    BY <1>3, <1>8 DEF AndroidCleanup
  <2>2. NativeKinds'
    <3> DEFINE Kinds == [dev : 0 .. MaxCalls, excl : BOOLEAN, runtime : 0 .. MaxCalls]
    <3>1. NoState \in Kinds
      BY <1>3
    <3>2. native.dev \in 0 .. MaxCalls
      BY <1>4
    <3>3. \A r \in Kinds, d \in 0 .. MaxCalls : [r EXCEPT !.dev = d] \in Kinds
      OBVIOUS
    <3> QED BY <2>1, <3>1, <3>2, <3>3 DEF NativeKinds
  <2>3. ASSUME ~kept, NativeSound PROVE NativeSound'
    BY <1>2, <1>3, <1>8, <2>1, <2>3 DEF NativeSound
  <2>4. devices' \subseteq Calls /\ runtimes' \subseteq Calls /\ routes' \in BOOLEAN
    BY <1>4, <2>1
  <2> QED BY <1>1, <2>1, <2>2, <2>3, <2>4
<1> QED BY <1>1, <1>6, <1>7, <1>8

\* A cleanup that fails marks the behaviour as botched.
LEMMA StepCleanup ==
  ASSUME TunnelInv, NEW c \in Active, Cleanup(c)
  PROVE  TunnelInv'
<1>1. /\ c \in Calls /\ TunnelTypeOK /\ calls[c].pc = "cleanup" /\ calls[c].op # ""
      /\ ~calls[c].res.ready
      /\ UNCHANGED <<envVars, tables, slot, attempts, overlaps>>
  BY DEF Active, TunnelInv, Cleanup, At, CallsOK, CallOK
<1>2. PICK err, kept \in BOOLEAN :
        /\ botched' = (botched \/ err \/ kept)
        /\ NativeKinds' /\ devices' \subseteq Calls /\ runtimes' \subseteq Calls
        /\ routes' \in BOOLEAN
        /\ ~err => native' = NoState
        /\ ~err /\ ~kept /\ NativeSound => NativeSound'
        /\ IF ~err THEN Goto(c, "release") /\ UNCHANGED last
           ELSE IF calls[c].op = "stop" THEN Return(c, FALSE)
           ELSE Goto(c, "remember") /\ UNCHANGED last
  BY <1>1, CleanupEffect
<1>3. /\ botched \in BOOLEAN /\ botched' \in BOOLEAN
      /\ botched => botched'
      /\ ~botched' => ~err /\ ~kept
  <2>1. botched \in BOOLEAN
    BY <1>1 DEF TunnelTypeOK
  <2> QED BY <1>2, <2>1
<1>4. mode' = mode /\ Live' = Live /\ (ReadyIsFollowed => ReadyIsFollowed') /\ slot' = slot
      /\ overlaps' = overlaps
  BY <1>1 DEF Live, ReadyIsFollowed, envVars, tables
<1>5. CASE err /\ calls[c].op = "stop"
  <2>1. Return(c, FALSE)
    BY <1>2, <1>5
  <2>2. /\ CallsOK' /\ Active' = Active \ {c}
        /\ calls' \in [Calls -> CallRecords(mode)] /\ calls'[c].op = "" /\ calls'[c].at = 0
        /\ \A d \in Calls \ {c} : calls'[d] = calls[d]
    BY <1>1, <2>1, ReturnKeepsCalls DEF TunnelInv
  <2>3. ~last'.ok /\ last' \in [op : Ops \cup {""}, alone : BOOLEAN, ok : BOOLEAN]
    <3>1. calls[c] \in CallRecords(mode)
      BY <1>1 DEF TunnelTypeOK
    <3> QED BY <2>1, <3>1 DEF Return, CallRecords
  <2>4. TunnelTypeOK'
    BY <1>1, <1>2, <1>3, <2>2, <2>3 DEF TunnelTypeOK, NativeKinds, envVars, tables
  <2>5. ClockOK'
    <3>1. startResult' = startResult /\ sessions' = sessions /\ clock' = clock
      BY <1>1 DEF tables
    <3>2. clock \in Nat \ {0}
      BY <1>1 DEF TunnelTypeOK
    <3>3. 0 < clock
      BY <3>2
    <3> QED BY <2>2, <3>1, <3>3 DEF TunnelInv, ClockOK
  <2>6. HealInv'
    <3>1. last' # [op |-> "stop", alone |-> TRUE, ok |-> TRUE]
      <4>1. \A r : r = [op |-> "stop", alone |-> TRUE, ok |-> TRUE] => r.ok
        OBVIOUS
      <4> QED BY <2>3, <4>1, Zenon
    <3> QED BY <1>4, <2>2, <3>1, ReturnHeals
  <2>7. PendingInv'
    <3>1. PendingOK(c) => startupRequests' = attempts'
      BY <1>1 DEF PendingOK, tables
    <3> QED BY <1>1, <2>2, <3>1, StepPends
  <2>8. SettledInv'
    BY <1>2, <1>3, <1>5 DEF SettledInv
  <2> QED BY <2>2, <2>4, <2>5, <2>6, <2>7, <2>8 DEF TunnelInv
<1>6. CASE ~(err /\ calls[c].op = "stop")
  <2> DEFINE pc == IF err THEN "remember" ELSE "release"
  <2>1. Goto(c, pc) /\ last' = last
    BY <1>2, <1>6
  <2>2. pc \in AllPcs(mode) /\ pc \in {"remember", "release"} /\ (err => calls[c].op # "stop")
    BY <1>6 DEF AllPcs, StartPcs, StopPcs, CleanPcs
  <2>3. (pc = "release") = ~err
    OBVIOUS
  <2> HIDE DEF pc
  <2>4. Moves(c, {pc}) /\ Keeps(c) /\ calls'[c].res = calls[c].res
    BY <1>1, <2>1, <2>2, GotoMoves
  <2>5. calls'[c].pc = pc
    BY <2>4 DEF Moves
  <2>6. CallsOK' /\ Active' = Active
    <3>1. calls[c].op = "stop" => {pc} \subseteq StopPcs
      BY <2>2, <2>3 DEF StopPcs, CleanPcs
    <3> QED BY <1>1, <1>4, <2>2, <2>4, <3>1, MoveKeepsCalls DEF TunnelInv
  <2>7. TunnelTypeOK'
    <3>1. last' \in [op : Ops \cup {""}, alone : BOOLEAN, ok : BOOLEAN]
      BY <1>1, <2>1 DEF TunnelTypeOK
    <3> QED BY <1>1, <1>2, <1>3, <2>4, <3>1 DEF TunnelTypeOK, NativeKinds, Moves, envVars, tables
  <2>8. ClockOK'
    BY <1>1, <2>4 DEF TunnelInv, ClockOK, Moves, Keeps, tables
  <2>9. HealInv'
    <3>1. ASSUME calls[c].op = "stop", StopOK(c) PROVE StopOK(c)'
      <4>1. pc = "release" /\ native' = NoState
        <5>1. ~err
          BY <2>2, <3>1
        <5> QED BY <1>2, <2>3, <5>1
      <4> QED BY <1>1, <1>4, <2>4, <2>5, <3>1, <4>1 DEF StopOK, Keeps, NoState
    <3> QED BY <1>4, <2>1, <2>4, <2>6, <3>1, GoOnHeals DEF Moves
  <2>10. PendingInv'
    <3>1. PendingOK(c) => PendingOK(c)'
      BY <1>1, <2>2, <2>5 DEF PendingOK, tables
    <3> QED BY <1>1, <2>6, <3>1, StepPends
  <2>11. SettledInv'
    <3>1. ASSUME overlaps = 0, ~botched, ~botched', NativeSound, ReadyIsFollowed,
                 Active = {c}, TunnelOK(c)
          PROVE  NativeSound' /\ ReadyIsFollowed' /\ TunnelOK(c)'
      <4>1. ~err /\ ~kept /\ NativeSound' /\ native' = NoState /\ pc = "release"
        BY <1>2, <1>3, <2>2, <3>1 DEF pc
      <4>2. mode \in {"linux_tun", "windows_wintun", "android_vpn_service"}
        BY <1>1, ThreeModes DEF TunnelTypeOK
      <4>3. mode = "linux_tun" => calls[c].own = slot
        BY <1>1, <3>1 DEF TunnelOK
      <4>4. TunnelOK(c)'
        BY <1>4, <2>4, <2>5, <4>1, <4>2, <4>3
           DEF TunnelOK, Untouched, Prepared, Configured, Keeps, NoState
      <4> QED BY <1>4, <3>1, <4>1, <4>4
    <3> QED BY <1>3, <1>4, <2>6, <3>1, StepSettles
  <2> QED BY <2>6, <2>7, <2>8, <2>9, <2>10, <2>11 DEF TunnelInv
<1> QED BY <1>5, <1>6

\* The attempt that was read before the cleanup is given up.
LEMMA StepRelease ==
  ASSUME TunnelInv, NEW c \in Active, endNativeAttempt(c)
  PROVE  TunnelInv'
<1>1. /\ c \in Calls /\ TunnelTypeOK /\ calls[c].pc = "release" /\ ~calls[c].res.ready
      /\ UNCHANGED <<envVars, tables, nativeVars, history>>
      /\ slot' = (IF slot = calls[c].own THEN 0 ELSE slot) /\ attempts' = {}
  BY DEF Active, TunnelInv, endNativeAttempt, clearStartupAttempts, At, CallsOK, CallOK
<1>2. Moves(c, {"unpublish"}) /\ Keeps(c) /\ calls'[c].res = calls[c].res
      /\ calls'[c].pc = "unpublish"
  BY <1>1, GotoMoves DEF endNativeAttempt, AllPcs, StopPcs, CleanPcs, Moves
<1>3. CallsOK' /\ Active' = Active
  BY <1>1, <1>2, MoveKeepsCalls DEF TunnelInv, history, StopPcs, CleanPcs
<1>4. TunnelTypeOK'
  <2>1. slot' \in 0 .. MaxCalls
    <3>1. slot \in 0 .. MaxCalls
      BY <1>1 DEF TunnelTypeOK
    <3>2. 0 \in 0 .. MaxCalls
      BY TunnelBounds
    <3> QED BY <1>1, <3>1, <3>2
  <2> QED BY <1>1, <1>2, <2>1 DEF TunnelTypeOK, Moves, envVars, tables, nativeVars, history
<1>5. ClockOK'
  BY <1>1, <1>2 DEF TunnelInv, ClockOK, Moves, Keeps, tables
<1>6. HealInv'
  <2>1. ASSUME calls[c].op = "stop", StopOK(c) PROVE StopOK(c)'
    BY <1>1, <1>2, <2>1 DEF StopOK, Released, NoState, nativeVars
  <2>2. slot = 0 => slot' = 0
    BY <1>1
  <2> QED BY <1>1, <1>2, <1>3, <2>1, <2>2, GoOnHeals DEF Moves, history, envVars
<1>7. PendingInv'
  <2>1. PendingOK(c) => PendingOK(c)'
    BY <1>1, <1>2 DEF PendingOK, tables
  <2> QED BY <1>1, <1>3, <2>1, StepPends DEF history
<1>8. SettledInv'
  <2>1. mode' = mode /\ Live' = Live /\ (ReadyIsFollowed => ReadyIsFollowed') /\ native' = native
    BY <1>1 DEF Live, ReadyIsFollowed, envVars, tables, nativeVars
  <2>2. NativeSound => NativeSound'
    BY <1>1, <2>1 DEF NativeSound, nativeVars
  <2>3. TunnelOK(c) => TunnelOK(c)'
    <3>1. mode \in {"linux_tun", "windows_wintun", "android_vpn_service"}
      BY <1>1, ThreeModes DEF TunnelTypeOK
    <3>2. TunnelOK(c) => slot' = 0 /\ native = NoState
      BY <1>1 DEF TunnelOK, TunnelInv, HealInv
    <3> QED BY <1>2, <2>1, <3>1, <3>2 DEF TunnelOK, Untouched, Prepared, Configured, NoState
  <2>4. botched \in BOOLEAN
    BY <1>1 DEF TunnelTypeOK
  <2>5. overlaps' = overlaps /\ (botched => botched')
    BY <1>1 DEF history
  <2>6. ASSUME overlaps = 0, ~botched, ~botched', NativeSound, ReadyIsFollowed,
               Active = {c}, TunnelOK(c)
        PROVE  NativeSound' /\ ReadyIsFollowed' /\ TunnelOK(c)'
    BY <2>1, <2>2, <2>3, <2>6
  <2> QED BY <1>3, <2>4, <2>5, <2>6, StepSettles
<1> QED BY <1>3, <1>4, <1>5, <1>6, <1>7, <1>8 DEF TunnelInv

\* The sessions end with the tunnel, and the requests with the attempts.
LEMMA StepUnpublish ==
  ASSUME TunnelInv, NEW c \in Active, publishPlatformTunnelStop(c)
  PROVE  TunnelInv'
<1> DEFINE pc == IF calls[c].op = "stop" THEN "stopped" ELSE "remember"
<1>1. /\ c \in Calls /\ TunnelTypeOK /\ calls[c].pc = "unpublish" /\ ~calls[c].res.ready
      /\ UNCHANGED <<envVars, startResult, stop, slot, attempts, nativeVars, history>>
      /\ startupRequests' = {} /\ sessions' = MarkStopped(clock) /\ clock' = clock + 1
      /\ Goto(c, pc)
  BY DEF Active, TunnelInv, publishPlatformTunnelStop, At, CallsOK, CallOK
<1>2. clock \in Nat /\ clock < clock + 1 /\ clock' \in Nat \ {0}
  <2>1. clock \in Nat \ {0}
    BY <1>1 DEF TunnelTypeOK
  <2> QED BY <1>1, <2>1
<1>3. /\ pc \in AllPcs(mode) /\ pc \in {"stopped", "remember"}
      /\ (pc = "stopped") = (calls[c].op = "stop")
  BY DEF AllPcs, StartPcs, StopPcs
<1> HIDE DEF pc
<1>4. Moves(c, {pc}) /\ Keeps(c) /\ calls'[c].res = calls[c].res /\ calls'[c].pc = pc
  BY <1>1, <1>3, GotoMoves DEF Moves
<1>5. CallsOK' /\ Active' = Active
  <2>1. calls[c].op = "stop" => {pc} \subseteq StopPcs
    BY <1>3 DEF StopPcs
  <2> QED BY <1>1, <1>3, <1>4, <2>1, MoveKeepsCalls DEF TunnelInv, history
<1>6. /\ sessions' \subseteq SessionRecords /\ Live' = {}
      /\ \A s \in sessions' : s.at = clock \/ \E u \in sessions : s.at = u.at
      /\ \A u \in sessions : \E s \in sessions' : s.at = IF u.live THEN clock ELSE u.at
  BY <1>1, <1>2, StoppedSessions DEF Live
<1>7. TunnelTypeOK'
  BY <1>1, <1>2, <1>4, <1>6 DEF TunnelTypeOK, Moves, envVars, nativeVars, history
<1>8. startResult.at \in Nat /\ startResult.at < clock
  BY <1>1 DEF TunnelTypeOK, StartResults, TunnelInv, ClockOK
<1>9. ClockOK'
  <2>1. \A n \in Nat : n < clock => n < clock'
    BY <1>1, <1>2
  <2>2. ASSUME NEW u \in sessions PROVE u.at < clock'
    BY <1>1, <2>1 DEF TunnelTypeOK, SessionRecords, TunnelInv, ClockOK
  <2>3. ASSUME NEW s \in sessions' PROVE s.at < clock'
    BY <1>1, <1>2, <1>6, <2>2
  <2>4. ASSUME NEW d \in Calls PROVE calls'[d].at < clock'
    <3>1. calls[d] \in CallRecords(mode) /\ calls[d].at < clock
      BY <1>1 DEF TunnelTypeOK, TunnelInv, ClockOK
    <3>2. calls[d].at \in Nat
      BY <3>1 DEF CallRecords
    <3>3. calls'[d].at = calls[d].at
      BY <1>4 DEF Moves, Keeps
    <3> QED BY <2>1, <3>1, <3>2, <3>3
  <2> QED BY <1>1, <1>8, <2>1, <2>3, <2>4 DEF ClockOK
<1>10. HealInv'
  <2>1. ASSUME calls[c].op = "stop", StopOK(c) PROVE StopOK(c)'
    BY <1>1, <1>3, <1>4, <1>6, <2>1 DEF StopOK, Released, Stopped, NoState, nativeVars
  <2> QED BY <1>1, <1>4, <1>5, <2>1, GoOnHeals DEF Moves, history, envVars
<1>11. PendingInv'
  <2>1. PendingOK(c) => PendingOK(c)'
    BY <1>1, <1>3, <1>4 DEF PendingOK
  <2> QED BY <1>1, <1>5, <2>1, StepPends DEF history
<1>12. SettledInv'
  <2>1. mode' = mode /\ native' = native /\ slot' = slot
    BY <1>1 DEF envVars, nativeVars
  <2>2. NativeSound => NativeSound'
    BY <1>1, <2>1 DEF NativeSound, nativeVars
  <2>3. ASSUME ReadyIsFollowed PROVE ReadyIsFollowed'
    <3>1. SUFFICES ASSUME startResult.ready
                   PROVE  \E s \in sessions' : s.at >= startResult.at
      BY <1>1 DEF ReadyIsFollowed
    <3>2. PICK u \in sessions : u.live \/ u.at >= startResult.at
      BY <2>3, <3>1 DEF ReadyIsFollowed, Live
    <3>3. PICK s \in sessions' : s.at = IF u.live THEN clock ELSE u.at
      BY <1>6
    <3>4. s.at >= startResult.at
      <4>1. CASE u.live
        BY <1>2, <1>8, <3>3, <4>1
      <4>2. CASE ~u.live
        BY <3>2, <3>3, <4>2
      <4> QED BY <4>1, <4>2
    <3> QED BY <3>4
  <2>4. ASSUME NativeSound, TunnelOK(c) PROVE TunnelOK(c)'
    <3>1. mode \in {"linux_tun", "windows_wintun", "android_vpn_service"}
      BY <1>1, ThreeModes DEF TunnelTypeOK
    <3>2. native.dev = 0 /\ native.runtime = 0 /\ slot = 0 /\ native = NoState
      BY <1>1, <2>4 DEF TunnelOK, NoState
    <3>3. runtimes' = {} /\ runtimes' = runtimes
      <4>1. runtimes \subseteq Calls /\ runtimes \subseteq {0} /\ runtimes' = runtimes
        BY <1>1, <2>4, <3>2 DEF TunnelTypeOK, NativeSound, nativeVars
      <4> QED BY <4>1, CallNumbers
    <3>4. Matches'
      BY <1>6, <2>1, <3>2, <3>3 DEF Matches, Attached
    <3> QED BY <1>1, <1>3, <1>4, <1>6, <2>1, <3>1, <3>2, <3>4
            DEF TunnelOK, Untouched, Prepared, Configured
  <2>5. botched \in BOOLEAN
    BY <1>1 DEF TunnelTypeOK
  <2>6. overlaps' = overlaps /\ (botched => botched')
    BY <1>1 DEF history
  <2>7. ASSUME overlaps = 0, ~botched, ~botched', NativeSound, ReadyIsFollowed,
               Active = {c}, TunnelOK(c)
        PROVE  NativeSound' /\ ReadyIsFollowed' /\ TunnelOK(c)'
    BY <2>2, <2>3, <2>4, <2>7
  <2> QED BY <1>5, <2>5, <2>6, <2>7, StepSettles
<1> QED BY <1>5, <1>7, <1>9, <1>10, <1>11, <1>12 DEF TunnelInv

\* The Stop is remembered at a time after all the others.
LEMMA StepRememberStop ==
  ASSUME TunnelInv, NEW c \in Active, rememberPlatformTunnelStop(c)
  PROVE  TunnelInv'
<1>1. /\ c \in Calls /\ TunnelTypeOK /\ calls[c].pc = "stopped" /\ calls[c].op = "stop"
      /\ UNCHANGED <<envVars, startupRequests, startResult, sessions, slot, attempts, nativeVars,
                     overlaps, botched>>
      /\ stop' = clock /\ clock' = clock + 1 /\ Return(c, TRUE) /\ calls[c] \in CallRecords(mode)
  BY DEF Active, TunnelInv, TunnelTypeOK, rememberPlatformTunnelStop, At, CallsOK, CallOK
<1>2. clock \in Nat \ {0} /\ clock < clock + 1 /\ clock' \in Nat \ {0} /\ 0 < clock'
  <2>1. clock \in Nat \ {0}
    BY <1>1 DEF TunnelTypeOK
  <2> QED BY <1>1, <2>1
<1>3. /\ CallsOK' /\ Active' = Active \ {c}
      /\ calls' \in [Calls -> CallRecords(mode)] /\ calls'[c].op = "" /\ calls'[c].at = 0
      /\ \A d \in Calls \ {c} : calls'[d] = calls[d]
  BY <1>1, ReturnKeepsCalls DEF TunnelInv
<1>4. /\ last'.alone = calls[c].alone
      /\ last' \in [op : Ops \cup {""}, alone : BOOLEAN, ok : BOOLEAN]
  BY <1>1 DEF Return, CallRecords
<1>5. TunnelTypeOK'
  BY <1>1, <1>2, <1>3, <1>4 DEF TunnelTypeOK, envVars, nativeVars
<1>6. startResult.at \in Nat /\ startResult.at < clock
  BY <1>1 DEF TunnelTypeOK, StartResults, TunnelInv, ClockOK
<1>7. \A s \in sessions : s.at \in Nat /\ s.at < clock
  BY <1>1 DEF TunnelTypeOK, SessionRecords, TunnelInv, ClockOK
<1>8. ClockOK'
  <2>1. \A n \in Nat : n < clock => n < clock'
    BY <1>1, <1>2
  <2>2. ASSUME NEW d \in Calls PROVE calls'[d].at < clock'
    <3>1. calls[d] \in CallRecords(mode) /\ calls[d].at < clock
      BY <1>1 DEF TunnelTypeOK, TunnelInv, ClockOK
    <3>2. calls[d].at \in Nat
      BY <3>1 DEF CallRecords
    <3>3. CASE d = c
      BY <1>2, <1>3, <3>3
    <3>4. CASE d # c
      BY <1>3, <2>1, <3>1, <3>2, <3>4
    <3> QED BY <3>3, <3>4
  <2> QED BY <1>1, <1>6, <1>7, <2>1, <2>2 DEF ClockOK
<1>9. mode' = mode /\ native' = native /\ slot' = slot /\ Live' = Live
      /\ startResult' = startResult /\ sessions' = sessions
  BY <1>1 DEF envVars, nativeVars, Live
<1>10. HealInv'
  <2>1. ASSUME last' = [op |-> "stop", alone |-> TRUE, ok |-> TRUE]
        PROVE  HealedByStop'
    <3>1. calls[c].alone
      BY <1>4, <2>1
    <3>2. StopOK(c)
      BY <1>1, <3>1 DEF TunnelInv, HealInv
    <3>3. Active' = {}
      BY <1>1, <1>3, <3>1 DEF TunnelInv, CallsOK, CallOK
    <3>4. native = NoState /\ Released /\ Stopped
      BY <1>1, <3>2 DEF StopOK
    <3>5. native' = NoState' /\ Released' /\ Stopped'
      BY <1>1, <1>9, <3>4 DEF Released, Stopped, NoState
    <3>6. stop' >= startResult'.at /\ stop' # 0 /\ \A s \in sessions' : stop' >= s.at
      BY <1>1, <1>2, <1>6, <1>7, <1>9
    <3> QED BY <3>3, <3>5, <3>6 DEF HealedByStop
  <2> QED BY <1>3, <1>9, <2>1, ReturnHeals
<1>11. PendingInv'
  <2>1. PendingOK(c) => startupRequests' = attempts'
    BY <1>1 DEF PendingOK
  <2> QED BY <1>1, <1>3, <2>1, StepPends
<1>12. SettledInv'
  <2>1. ASSUME NativeSound, ReadyIsFollowed, TunnelOK(c)
        PROVE  NativeSound' /\ ReadyIsFollowed' /\ Matches'
    <3>1. NativeSound' /\ ReadyIsFollowed'
      BY <1>1, <1>9, <2>1 DEF NativeSound, ReadyIsFollowed, nativeVars
    <3>2. native.dev = 0 /\ native.runtime = 0 /\ slot = 0 /\ Live = {}
      BY <1>1, <2>1 DEF TunnelOK, NoState
    <3>3. runtimes' = {}
      <4>1. runtimes \subseteq Calls /\ runtimes \subseteq {0} /\ runtimes' = runtimes
        BY <1>1, <2>1, <3>2 DEF TunnelTypeOK, NativeSound, nativeVars
      <4> QED BY <4>1, CallNumbers
    <3> QED BY <1>9, <3>1, <3>2, <3>3 DEF Matches, Attached
  <2>2. botched \in BOOLEAN
    BY <1>1 DEF TunnelTypeOK
  <2>3. ASSUME overlaps = 0, ~botched, ~botched', NativeSound, ReadyIsFollowed,
               Active = {c}, TunnelOK(c)
        PROVE  NativeSound' /\ ReadyIsFollowed' /\ Matches'
    BY <2>1, <2>3
  <2> QED BY <1>1, <1>3, <2>2, <2>3, ReturnSettles
<1> QED BY <1>3, <1>5, <1>8, <1>10, <1>11, <1>12 DEF TunnelInv

\* A new call: the calls that run are no longer alone.
LEMMA NewCall ==
  ASSUME TunnelInv, NEW c \in Calls, NEW r \in CallRecords(mode), Arrive(c, r),
         r.pc \in {"check", "take", CleanupEntry}, r.res = NoResult, r.at = 0, r.op \in Ops,
         r.op = "stop" => r.pc = CleanupEntry,
         r.pc = "take" => mode = "android_vpn_service", r.own = 0 \/ r.op # "stop"
  PROVE  TunnelInv'
<1> DEFINE n(d) == IF d = c THEN [r EXCEPT !.alone = Active = {}]
                   ELSE IF d \in Active THEN [calls[d] EXCEPT !.alone = FALSE]
                   ELSE calls[d]
<1>1. /\ TunnelTypeOK /\ calls[c].pc = "unused" /\ c \notin Active
      /\ calls' = [d \in Calls |-> n(d)]
      /\ overlaps' = overlaps + (IF Active = {} THEN 0 ELSE 1)
      /\ last' = NoCall /\ mode \in Modes
      /\ UNCHANGED <<envVars, tables, slot, attempts, nativeVars, botched>>
  BY DEF TunnelInv, TunnelTypeOK, Arrive, At, Active
<1>2. /\ mode \in {"linux_tun", "windows_wintun", "android_vpn_service"}
      /\ CleanupEntry = IF mode = "linux_tun" THEN "clean" ELSE "cleanup"
  BY <1>1, ThreeModes DEF CleanupEntry
<1>3. ~r.res.ready
  <2>1. ~NoResult.ready
    BY DEF NoResult
  <2> QED BY <2>1
<1>4. /\ n(c) \in CallRecords(mode) /\ n(c).pc = r.pc /\ n(c).op = r.op /\ n(c).own = r.own
      /\ n(c).at = 0 /\ ~n(c).res.ready /\ (n(c).alone => Active = {})
  <2> DEFINE b == Active = {}
  <2>1. b \in BOOLEAN /\ (b => Active = {})
    OBVIOUS
  <2>2. n(c) = [r EXCEPT !.alone = b]
    OBVIOUS
  <2> HIDE DEF b, n
  <2> QED BY <1>3, <2>1, <2>2 DEF CallRecords
<1>5. ASSUME NEW d \in Calls \ {c}
      PROVE  /\ n(d) \in CallRecords(mode) /\ n(d).pc = calls[d].pc /\ n(d).op = calls[d].op
             /\ n(d).own = calls[d].own /\ n(d).at = calls[d].at /\ n(d).res = calls[d].res
             /\ d \in Active => ~n(d).alone
  <2>1. calls[d] \in CallRecords(mode)
    BY <1>1 DEF TunnelTypeOK
  <2>2. CASE d \in Active
    <3>1. n(d) = [calls[d] EXCEPT !.alone = FALSE]
      BY <1>1, <2>2
    <3> HIDE DEF n
    <3> QED BY <2>1, <3>1 DEF CallRecords
  <2>3. CASE d \notin Active
    BY <2>1, <2>3
  <2> QED BY <2>2, <2>3
<1> HIDE DEF n
<1>6. \A d \in Calls : calls'[d] = n(d)
  BY <1>1
<1>7. calls' \in [Calls -> CallRecords(mode)]
  BY <1>1, <1>4, <1>5
<1>8. Active' = Active \cup {c}
  BY <1>2, <1>4, <1>5, <1>6 DEF Active
<1>9. overlaps \in Nat /\ overlaps' \in Nat /\ (overlaps' = 0 => overlaps = 0 /\ Active = {})
  <2>1. overlaps \in Nat
    BY <1>1 DEF TunnelTypeOK
  <2> QED BY <1>1, <2>1
<1>10. CallsOK'
  <2>1. ASSUME NEW d \in Calls PROVE CallOK(d)'
    <3>1. CASE d = c
      BY <1>2, <1>4, <1>6, <1>8, <3>1 DEF CallOK, StopPcs, CleanPcs, Ops
    <3>2. CASE d # c
      <4>1. CallOK(d)
        BY <1>1 DEF TunnelInv, CallsOK
      <4>2. d \notin Active => calls[d].pc \in {"unused", "done"}
        BY DEF Active
      <4> QED BY <1>5, <1>6, <1>8, <3>2, <4>1, <4>2 DEF CallOK
    <3> QED BY <3>1, <3>2
  <2>2. overlaps' = 0 => \A d, e \in Active' : d = e
    BY <1>8, <1>9
  <2> QED BY <2>1, <2>2 DEF CallsOK
<1>11. TunnelTypeOK'
  <2>1. last' \in [op : Ops \cup {""}, alone : BOOLEAN, ok : BOOLEAN]
    BY <1>1 DEF NoCall
  <2> QED BY <1>1, <1>7, <1>9, <2>1 DEF TunnelTypeOK, envVars, tables, nativeVars
<1>12. ClockOK'
  <2>1. clock \in Nat \ {0}
    BY <1>1 DEF TunnelTypeOK
  <2>2. 0 < clock /\ clock' = clock /\ startResult' = startResult /\ sessions' = sessions
    BY <1>1, <2>1 DEF tables
  <2> QED BY <1>4, <1>5, <1>6, <2>2 DEF TunnelInv, ClockOK
<1>13. UNCHANGED <<mode, slot, native, devices, runtimes, routes, attempts, startupRequests,
                   sessions, startResult, botched>>
  BY <1>1 DEF envVars, tables, nativeVars
<1>14. HealInv'
  <2>1. last' # [op |-> "stop", alone |-> TRUE, ok |-> TRUE]
    <3>1. NoCall.op # "stop"
      BY DEF NoCall
    <3> QED BY <1>1, <3>1
  <2>2. ASSUME NEW d \in Active', calls'[d].op = "stop", calls'[d].alone
        PROVE  StopOK(d)'
    <3>1. d = c
      BY <1>5, <1>6, <1>8, <2>2 DEF Active
    <3>2. r.own = 0 /\ r.pc = CleanupEntry
      BY <1>4, <1>6, <2>2, <3>1
    <3>3. mode # "linux_tun" => slot = 0
      BY DEF TunnelInv, HealInv
    <3> QED BY <1>2, <1>4, <1>6, <1>13, <3>1, <3>2, <3>3 DEF StopOK
  <2> QED BY <1>13, <2>1, <2>2 DEF TunnelInv, HealInv
<1>15. PendingInv'
  <2>1. SUFFICES ASSUME overlaps' = 0
                 PROVE  /\ Active' # {}
                        /\ \A d \in Active' : PendingOK(d)'
    BY DEF PendingInv
  <2>2. Active' = {c} /\ startupRequests = attempts
    BY <1>8, <1>9, <2>1 DEF TunnelInv, PendingInv
  <2>3. calls'[c].pc \in {"check", "take", "clean", "cleanup"}
    BY <1>2, <1>4, <1>6
  <2>4. PendingOK(c)'
    BY <1>13, <2>2, <2>3 DEF PendingOK
  <2> QED BY <2>2, <2>4
<1>16. SettledInv'
  <2>1. SUFFICES ASSUME overlaps' = 0, ~botched'
                 PROVE  /\ NativeSound' /\ ReadyIsFollowed' /\ Active' # {}
                        /\ \A d \in Active' : TunnelOK(d)'
    BY DEF SettledInv
  <2>2. Active' = {c} /\ NativeSound /\ ReadyIsFollowed /\ Matches
    BY <1>8, <1>9, <1>13, <2>1 DEF TunnelInv, SettledInv
  <2>3. NativeSound' /\ ReadyIsFollowed' /\ Matches'
    BY <1>13, <2>2 DEF NativeSound, ReadyIsFollowed, Matches, Attached, Live
  <2>4. /\ calls'[c].pc \in {"check", "take", "clean", "cleanup"}
        /\ calls'[c].pc = "cleanup" => mode # "linux_tun"
    BY <1>2, <1>4, <1>6
  <2>5. TunnelOK(c)'
    BY <1>2, <1>13, <2>3, <2>4 DEF TunnelOK, Untouched, Prepared, Configured
  <2> QED BY <2>2, <2>3, <2>5
<1> QED BY <1>10, <1>11, <1>12, <1>14, <1>15, <1>16 DEF TunnelInv

\* A start, a Resume or a Stop arrives.
LEMMA StepArrive ==
  ASSUME TunnelInv, NEW c \in Calls,
         StartPlatformTunnel(c) \/ ResumePlatformTunnel(c) \/ StopPlatformTunnel(c)
  PROVE  TunnelInv'
<1>1. mode \in {"linux_tun", "windows_wintun", "android_vpn_service"}
  BY ThreeModes DEF TunnelInv, TunnelTypeOK
<1>2. Unused \in CallRecords(mode)
  <2>1. NoResult \in StartResults(mode)
    BY DEF NoResult, StartResults, Words
  <2> QED BY <2>1, TunnelBounds DEF Unused, CallRecords, Ops
<1>3. Unused.res = NoResult /\ Unused.at = 0 /\ Unused.own = 0
  BY DEF Unused
<1>4. CASE StartPlatformTunnel(c)
  <2>1. PICK q \in DOMAIN Requests[mode] :
          Arrive(c, [Unused EXCEPT !.op = "start", !.pc = "check", !.knows = TRUE, !.request = q])
    BY <1>4 DEF StartPlatformTunnel
  <2> DEFINE r == [Unused EXCEPT !.op = "start", !.pc = "check", !.knows = TRUE, !.request = q]
  <2>2. /\ r \in CallRecords(mode) /\ r.op = "start" /\ r.pc = "check" /\ r.res = NoResult
        /\ r.at = 0
    BY <1>2, <1>3 DEF CallRecords, Ops, StartPcs
  <2>3. Arrive(c, r)
    BY <2>1
  <2> HIDE DEF r
  <2> QED BY <2>2, <2>3, NewCall DEF Ops
<1>5. CASE ResumePlatformTunnel(c)
  <2>1. PICK a \in Calls : Arrive(c, [Unused EXCEPT !.op = "resume", !.pc = "take", !.own = a])
    BY <1>5 DEF ResumePlatformTunnel
  <2>2. mode = "android_vpn_service" /\ a \in 0 .. MaxCalls
    BY <1>5, CallNumbers DEF ResumePlatformTunnel
  <2> DEFINE r == [Unused EXCEPT !.op = "resume", !.pc = "take", !.own = a]
  <2>3. "take" \in StartPcs(mode)
    BY <2>2 DEF StartPcs, StagePcs
  <2>4. /\ r \in CallRecords(mode) /\ r.op = "resume" /\ r.pc = "take" /\ r.res = NoResult
        /\ r.at = 0
    BY <1>2, <1>3, <2>2, <2>3 DEF CallRecords, Ops
  <2>5. Arrive(c, r)
    BY <2>1
  <2> HIDE DEF r
  <2> QED BY <2>2, <2>4, <2>5, NewCall DEF Ops
<1>6. CASE StopPlatformTunnel(c)
  <2> DEFINE r == [Unused EXCEPT !.op = "stop", !.pc = CleanupEntry]
  <2>1. Arrive(c, r)
    BY <1>6 DEF StopPlatformTunnel
  <2>2. CleanupEntry \in StopPcs /\ CleanupEntry # "take"
    BY DEF CleanupEntry, StopPcs, CleanPcs
  <2>3. /\ r \in CallRecords(mode) /\ r.op = "stop" /\ r.pc = CleanupEntry /\ r.res = NoResult
        /\ r.at = 0 /\ r.own = 0
    BY <1>2, <1>3, <2>2 DEF CallRecords, Ops
  <2> HIDE DEF r
  <2> QED BY <2>1, <2>2, <2>3, NewCall DEF Ops
<1> QED BY <1>4, <1>5, <1>6

\* Nothing in the invariant reads the stored profile, the resolution or the

\* permission.
LEMMA StepWorld ==
  ASSUME TunnelInv, profile' \in BOOLEAN, resolved' \in BOOLEAN, permission' \in BOOLEAN,
         UNCHANGED <<mode, calls, tables, slot, attempts, nativeVars, history>>
  PROVE  TunnelInv'
<1> USE DEF TunnelInv, tables, nativeVars, history
<1>1. TunnelTypeOK'
  BY DEF TunnelTypeOK
<1>2. Active' = Active /\ Live' = Live
  BY DEF Active, Live
<1>3. CallsOK' /\ ClockOK'
  BY <1>2 DEF CallsOK, CallOK, ClockOK
<1>4. HealInv'
  BY <1>2 DEF HealInv, HealedByStop, StopOK, Released, Stopped, NoState
<1>5. PendingInv'
  BY <1>2 DEF PendingInv, PendingOK
<1>6. SettledInv'
  <2>1. NativeSound' = NativeSound /\ ReadyIsFollowed' = ReadyIsFollowed /\ Matches' = Matches
    BY <1>2 DEF NativeSound, ReadyIsFollowed, Matches, Attached
  <2>2. \A c \in Calls : TunnelOK(c) => TunnelOK(c)'
    BY <1>2, <2>1 DEF TunnelOK, Attached, NoState
  <2> QED BY <1>2, <2>1, <2>2 DEF SettledInv, Active
<1> QED BY <1>1, <1>3, <1>4, <1>5, <1>6

\* The invariant holds at first and is kept by every step.
LEMMA InitTunnel == ASSUME Init PROVE TunnelInv
<1>1. mode \in {"linux_tun", "windows_wintun", "android_vpn_service"} /\ mode \in Modes
  BY ThreeModes DEF Init
<1>2. Unused \in CallRecords(mode) /\ NoResult \in StartResults(mode)
  <2>1. NoResult \in StartResults(mode)
    BY DEF NoResult, StartResults, Words
  <2> QED BY <2>1, TunnelBounds DEF Unused, CallRecords, Ops
<1>3. \A c \in Calls : calls[c] = Unused
  BY DEF Init
<1>4. Active = {} /\ Live = {}
  BY <1>3 DEF Init, Active, Live, Unused
<1>5. TunnelTypeOK
  <2>1. /\ NoState \in [dev : 0 .. MaxCalls, excl : BOOLEAN, runtime : 0 .. MaxCalls]
        /\ 0 \in 0 .. MaxCalls
    BY TunnelBounds DEF NoState
  <2>2. NoCall \in [op : Ops \cup {""}, alone : BOOLEAN, ok : BOOLEAN]
    BY DEF NoCall
  <2>3. (mode # "android_vpn_service") \in BOOLEAN
    OBVIOUS
  <2>4. permission \in BOOLEAN
    BY <2>3 DEF Init
  <2>5. calls \in [Calls -> CallRecords(mode)]
    BY <1>2 DEF Init
  <2>6. stop \in Nat /\ clock \in Nat \ {0} /\ overlaps \in Nat
    BY DEF Init
  <2>7. /\ startupRequests \subseteq Calls /\ attempts \subseteq Calls
        /\ sessions \subseteq SessionRecords
        /\ devices \subseteq Calls /\ runtimes \subseteq Calls
        /\ profile \in BOOLEAN /\ resolved \in BOOLEAN /\ routes \in BOOLEAN
        /\ botched \in BOOLEAN
    BY DEF Init
  <2>8. startResult = NoResult /\ slot = 0 /\ native = NoState /\ last = NoCall
    BY DEF Init
  <2> QED BY <1>1, <1>2, <2>1, <2>2, <2>4, <2>5, <2>6, <2>7, <2>8 DEF TunnelTypeOK
<1>6. CallsOK /\ ClockOK
  <2>1. Unused.op = "" /\ Unused.pc = "unused" /\ Unused.at = 0 /\ ~Unused.res.ready
    BY DEF Unused, NoResult
  <2>2. CallsOK
    BY <1>3, <1>4, <2>1 DEF CallsOK, CallOK
  <2>3. NoResult.at = 0
    BY DEF NoResult
  <2>4. startResult = NoResult /\ sessions = {} /\ clock = 1
    BY DEF Init
  <2>5. 0 < clock /\ startResult.at = 0 /\ \A c \in Calls : calls[c].at = 0
    <3>1. 0 < clock
      BY <2>4
    <3> QED BY <1>3, <2>1, <2>3, <2>4, <3>1
  <2>6. ClockOK
    BY <2>4, <2>5 DEF ClockOK
  <2> QED BY <2>2, <2>6
<1>7. HealInv
  <2>1. NoCall # [op |-> "stop", alone |-> TRUE, ok |-> TRUE]
    BY DEF NoCall
  <2> QED BY <1>4, <2>1 DEF Init, HealInv
<1>8. PendingInv
  BY <1>4 DEF Init, PendingInv
<1>9. SettledInv
  BY <1>4 DEF Init, SettledInv, NativeSound, ReadyIsFollowed, Matches, Attached, NoState, NoResult
<1> QED BY <1>5, <1>6, <1>7, <1>8, <1>9 DEF TunnelInv

LEMMA StepTunnel == ASSUME TunnelInv, [Next]_vars PROVE TunnelInv'
<1>1. CASE \E c \in Calls :
             StartPlatformTunnel(c) \/ ResumePlatformTunnel(c) \/ StopPlatformTunnel(c)
  BY <1>1, StepArrive
<1>2. ASSUME NEW c \in Active, CallStep(c) PROVE TunnelInv'
  <2>1. CASE CheckStart(c) \/ MaterializeLease(c) \/ beginNativeAttempt(c)
             \/ CheckDriver(c) \/ AcquireTun(c)
    BY <2>1, StepCheck, StepLease, StepBeginAttempt, StepDriver, StepTun
  <2>2. CASE AcquirePermission(c) \/ rememberPlatformTunnelStartupRequest(c)
    BY <2>2, StepPermission, StepRememberRequest
  <2>3. CASE WindowsValidateRoutePolicy(c) \/ LinuxValidateRoutePolicy(c)
             \/ AndroidValidateRoutePolicy(c)
    BY <2>3, StepWindowsRoute, StepLinuxRoute, StepAndroidRoute
  <2>4. CASE WindowsBringupHost(c) \/ LinuxBringupHost(c) \/ InstallExclusions(c)
             \/ AndroidBringupHost(c)
    BY <2>4, StepWindowsBringup, StepLinuxBringup, StepExclusions, StepAndroidBringup
  <2>5. CASE AttachRuntime(c) \/ StoreRuntime(c) \/ replaceRuntime(c)
             \/ LinuxVerifyDataplane(c) \/ WindowsVerifyDataplane(c)
    BY <2>5, StepAttach, StepStore, StepReplace, StepVerify
       DEF LinuxVerifyDataplane, WindowsVerifyDataplane
  <2>6. CASE materializedProfileSpecForResolution(c) \/ startPlatformTunnelSession(c)
             \/ rememberPlatformTunnelResult(c)
    BY <2>6, StepPublish, StepSession, StepRememberResult
  <2>7. CASE takePlatformTunnelStartupRequest(c) \/ ResumeAttempt(c)
    BY <2>7, StepTakeRequest, StepResumeAttempt
  <2>8. CASE activeNativeAttempt(c) \/ Cleanup(c) \/ endNativeAttempt(c)
             \/ publishPlatformTunnelStop(c) \/ rememberPlatformTunnelStop(c)
    BY <2>8, StepActiveAttempt, StepCleanup, StepRelease, StepUnpublish, StepRememberStop
  <2> QED BY <1>2, <2>1, <2>2, <2>3, <2>4, <2>5, <2>6, <2>7, <2>8 DEF CallStep
<1>3. CASE ForgetProfile \/ ExpireResolution \/ AnswerPermission
  <2>1. profile \in BOOLEAN /\ resolved \in BOOLEAN /\ permission \in BOOLEAN
    BY DEF TunnelInv, TunnelTypeOK
  <2>2. /\ profile' \in BOOLEAN /\ resolved' \in BOOLEAN /\ permission' \in BOOLEAN
        /\ UNCHANGED <<mode, calls, tables, slot, attempts, nativeVars, history>>
    BY <1>3, <2>1 DEF ForgetProfile, ExpireResolution, AnswerPermission
  <2> QED BY <2>2, StepWorld
<1>4. CASE UNCHANGED vars
  <2>1. profile \in BOOLEAN /\ resolved \in BOOLEAN /\ permission \in BOOLEAN
    BY DEF TunnelInv, TunnelTypeOK
  <2>2. /\ profile' \in BOOLEAN /\ resolved' \in BOOLEAN /\ permission' \in BOOLEAN
        /\ UNCHANGED <<mode, calls, tables, slot, attempts, nativeVars, history>>
    BY <1>4, <2>1 DEF vars, envVars
  <2> QED BY <2>2, StepWorld
<1> QED BY <1>1, <1>2, <1>3, <1>4 DEF Next

-----------------------------------------------------------------------------
(* What a status says *)

\* Of finitely many times before the clock there is a latest.
LEMMA LatestSession ==
  ASSUME TunnelTypeOK, ClockOK, NEW T, T \subseteq sessions, T # {}
  PROVE  \E s \in T : \A u \in T : u.at <= s.at
<1> DEFINE gaps == {clock - s.at : s \in T}
<1>1. \A s \in T : s.at \in Nat /\ s.at < clock /\ clock \in Nat
  BY DEF TunnelTypeOK, SessionRecords, ClockOK
<1>2. gaps \subseteq Nat /\ gaps # {}
  BY <1>1
<1> HIDE DEF gaps
<1>3. IsWellFoundedOn(OpToRel(<, Nat), Nat)
  BY NatLessThanWellFounded
<1>4. PICK x \in gaps : \A y \in gaps : <<y, x>> \notin OpToRel(<, Nat)
  BY <1>2, <1>3, WFMin
<1>5. \A y \in gaps : ~(y < x)
  BY <1>2, <1>4 DEF OpToRel
<1>6. PICK s \in T : x = clock - s.at
  BY DEF gaps
<1>7. ASSUME NEW u \in T PROVE u.at <= s.at
  <2>1. ~(clock - u.at < x)
    BY <1>5 DEF gaps
  <2> QED BY <1>1, <1>6, <2>1
<1> QED BY <1>7

\* A Stop that put everything back is what the status shows.
LEMMA HealedStatus ==
  ASSUME TunnelTypeOK, ClockOK, HealedByStop
  PROVE  platformTunnelStatuses = {"stopped"}
<1> DEFINE based == IF startResult # NoResult
                      THEN {[state |-> StatusOfResult, at |-> startResult.at]}
                    ELSE IF startupRequests # {}
                      THEN {[state |-> "permission_required", at |-> clock]}
                    ELSE {[state |-> platformTunnelStatusFromCapability(ds), at |-> 0]
                            : ds \in {ReportedPlans}}
           recent  == {s \in sessions : \A b \in based : s.at >= b.at}
           newest  == {s \in recent : \A t \in recent : t.at <= s.at}
           words   == {[state |-> IF s.live THEN "ready" ELSE "stopped", at |-> s.at]
                         : s \in newest}
           shown   == IF newest = {} THEN based ELSE words
<1>1. platformTunnelStatuses
        = {IF stop # 0 /\ stop >= s.at THEN "stopped" ELSE s.state : s \in shown}
  BY DEF platformTunnelStatuses
<1>2. /\ stop \in Nat /\ stop # 0 /\ stop >= startResult.at
      /\ \A s \in sessions : stop >= s.at
      /\ startupRequests = {}
  BY DEF HealedByStop, Stopped, TunnelTypeOK
<1>3. based # {} /\ \A b \in based : stop >= b.at
  <2>1. CASE startResult # NoResult
    <3>1. based = {[state |-> StatusOfResult, at |-> startResult.at]}
      BY <2>1
    <3> HIDE DEF based
    <3>2. \A b \in based : b.at = startResult.at
      BY <3>1
    <3> QED BY <1>2, <3>1, <3>2
  <2>2. CASE startResult = NoResult
    <3>1. based = {[state |-> platformTunnelStatusFromCapability(ds), at |-> 0]
                     : ds \in {ReportedPlans}}
      BY <1>2, <2>2
    <3>2. stop >= 0
      BY <1>2
    <3> HIDE DEF based
    <3>3. \A b \in based : b.at = 0
      BY <3>1
    <3>4. based # {}
      BY <3>1
    <3> QED BY <3>2, <3>3, <3>4
  <2> QED BY <2>1, <2>2
<1> HIDE DEF based
<1>4. \A s \in newest : stop >= s.at
  BY <1>2
<1> HIDE DEF newest
<1>5. shown # {} /\ \A s \in shown : stop >= s.at
  <2>1. newest # {} => words # {}
    OBVIOUS
  <2>2. ASSUME NEW w \in words PROVE stop >= w.at
    <3>1. PICK s \in newest : w = [state |-> IF s.live THEN "ready" ELSE "stopped", at |-> s.at]
      OBVIOUS
    <3>2. w.at = s.at
      BY <3>1
    <3> QED BY <1>4, <3>2
  <2> HIDE DEF words
  <2> QED BY <1>3, <2>1, <2>2
<1> HIDE DEF shown
<1> QED BY <1>1, <1>2, <1>5

\* A status that says ready has a live session.
LEMMA ReadyStatus ==
  ASSUME TunnelTypeOK, ClockOK, ReadyIsFollowed, "ready" \in platformTunnelStatuses
  PROVE  Live # {}
<1> DEFINE based == IF startResult # NoResult
                      THEN {[state |-> StatusOfResult, at |-> startResult.at]}
                    ELSE IF startupRequests # {}
                      THEN {[state |-> "permission_required", at |-> clock]}
                    ELSE {[state |-> platformTunnelStatusFromCapability(ds), at |-> 0]
                            : ds \in {ReportedPlans}}
           recent  == {s \in sessions : \A b \in based : s.at >= b.at}
           newest  == {s \in recent : \A t \in recent : t.at <= s.at}
           words   == {[state |-> IF s.live THEN "ready" ELSE "stopped", at |-> s.at]
                         : s \in newest}
           shown   == IF newest = {} THEN based ELSE words
<1>1. platformTunnelStatuses
        = {IF stop # 0 /\ stop >= s.at THEN "stopped" ELSE s.state : s \in shown}
  BY DEF platformTunnelStatuses
<1>2. PICK s \in shown : s.state = "ready"
  <2> HIDE DEF shown
  <2> QED BY <1>1
<1>3. ASSUME Live = {} PROVE FALSE
  <2>1. \A u \in sessions : ~u.live
    BY <1>3 DEF Live
  <2>2. \A w \in words : w.state = "stopped"
    BY <2>1
  <2>3. newest = {} /\ s \in based
    <3> HIDE DEF based, newest, words
    <3> QED BY <1>2, <2>2
  <2>4. \A ds : platformTunnelStatusFromCapability(ds) # "ready"
    BY DEF platformTunnelStatusFromCapability
  <2>5. startResult.ready /\ based = {[state |-> StatusOfResult, at |-> startResult.at]}
    <3>1. CASE startResult # NoResult
      <4>1. based = {[state |-> StatusOfResult, at |-> startResult.at]}
        BY <3>1
      <4>2. StatusOfResult = "ready"
        <5> HIDE DEF based
        <5> QED BY <1>2, <2>3, <4>1
      <4>3. startResult.ready
        BY <4>2 DEF StatusOfResult
      <4> QED BY <4>1, <4>3
    <3>2. CASE startResult = NoResult /\ startupRequests # {}
      BY <1>2, <2>3, <3>2
    <3>3. CASE startResult = NoResult /\ startupRequests = {}
      BY <1>2, <2>3, <2>4, <3>3
    <3> QED BY <3>1, <3>2, <3>3
  <2>6. \A b \in based : b.at = startResult.at
    BY <2>5
  <2>7. \E u \in sessions : u.at >= startResult.at
    BY <1>3, <2>5 DEF ReadyIsFollowed
  <2> HIDE DEF based
  <2>8. recent # {} /\ recent \subseteq sessions
    BY <2>6, <2>7
  <2> HIDE DEF recent
  <2>9. \E u \in recent : \A t \in recent : t.at <= u.at
    BY <2>8, LatestSession
  <2> QED BY <2>3, <2>9
<1> QED BY <1>3

-----------------------------------------------------------------------------

\* Between calls that did not overlap, the requests the host remembers
\* (startupRequests) are those of the attempts that wait for permission
\* (attempts of the Android controller), for every sequence of starts, Resumes
\* and Stops and whatever failed in them.
THEOREM PendingStartsAreResumableHolds == Spec => []PendingStartsAreResumable
<1>1. TunnelInv => PendingStartsAreResumable
  BY DEF TunnelInv, PendingInv, PendingStartsAreResumable, Idle
<1> QED BY <1>1, InitTunnel, StepTunnel, PTL DEF Spec

\* A Stop that succeeds with no call beside it (StopPlatformTunnel) leaves no

\* session, no native state, no attempt, a free slot and the status stopped,
\* for every number of calls and overlaps before it.
THEOREM StopHealsHolds == Spec => []StopHeals
<1>1. TunnelInv => StopHeals
  BY HealedStatus DEF TunnelInv, HealInv, StopHeals, HealedByStop, Released, Stopped
<1> QED BY <1>1, InitTunnel, StepTunnel, PTL DEF Spec

\* Between calls, as long as none overlapped and no cleanup failed, the

\* sessions of the host, the slot of the controller, the state of the
\* lifecycle, the devices, runtimes and routes of the kernel and the status
\* shown agree, on each of the three hosts.
THEOREM SettledTunnelsMatchHolds == Spec => []SettledTunnelsMatch
<1>1. ASSUME TunnelInv PROVE SettledTunnelsMatch
  <2>1. SUFFICES ASSUME Idle, overlaps = 0, ~botched
                 PROVE  /\ (Live # {}) = (native.dev # 0 /\ native.runtime # 0)
                        /\ native.dev = 0 => native.runtime = 0
                        /\ devices = {native.dev} \ {0}
                        /\ runtimes = {native.runtime} \ {0}
                        /\ routes => native.excl
                        /\ "ready" \in platformTunnelStatuses => Live # {}
                        /\ mode = "linux_tun" => (slot = 0) = (Live = {})
    BY DEF SettledTunnelsMatch
  <2>2. NativeSound /\ ReadyIsFollowed /\ Matches
    BY <1>1, <2>1 DEF TunnelInv, SettledInv, Idle
  <2>3. "ready" \in platformTunnelStatuses => Live # {}
    BY <1>1, <2>2, ReadyStatus DEF TunnelInv
  <2> QED BY <2>2, <2>3 DEF NativeSound, Matches, Attached
<1> QED BY <1>1, InitTunnel, StepTunnel, PTL DEF Spec
=============================================================================
