------------------------ MODULE LinuxTunHelperProofs ------------------------
(***************************************************************************)
(* The safety of the privileged Linux helper, for any number of start and  *)
(* cleanup commands, host crashes and kills.  The guarantees hold until a  *)
(* cleaner acts on a record that changed since it read it (raced).         *)
(***************************************************************************)
EXTENDS LinuxTunHelper, FiniteSetTheorems, TLAPS

-----------------------------------------------------------------------------
(* The invariant *)

HelperFields  == DOMAIN IdleHelper
CleanerFields == DOMAIN IdleCleaner

TypeInv ==
  /\ slot \in Attempts \cup {0} /\ dev \in Attempts \cup {0}
  /\ DOMAIN client = Attempts
  /\ DOMAIN helper = Attempts /\ \A a \in Attempts : DOMAIN helper[a] = HelperFields
  /\ DOMAIN cleaner = Cleaners /\ \A k \in Cleaners : DOMAIN cleaner[k] = CleanerFields
  /\ file = [attempt |-> file.attempt, excl |-> file.excl]
  /\ file.attempt \in Attempts \cup {0, -1}
  /\ file.attempt = 0 => file = NoFile
  /\ file.attempt = -1 => file = Torn
  /\ botched \in BOOLEAN /\ raced \in BOOLEAN

\* An attempt is started once, and what a slot or a cleaner names was started.
AttemptsInv ==
  /\ \A a \in Attempts : client[a] = "none" => helper[a].pc = "none"
  /\ slot # 0 => helper[slot].pc # "none"
  /\ \A k \in Cleaners :
       /\ cleaner[k].attempt \in Attempts \cup {0}
       /\ cleaner[k].attempt # 0 => helper[cleaner[k].attempt].pc # "none"
       /\ cleaner[k].pc \in {"locked", "signal", "poll", "reap", "unlink", "ok"}
            => cleaner[k].attempt # 0

\* The helper is between its record and the end of its cleanup.
Owner(a) == helper[a].pc \notin {"none", "auth", "prepare", "remove", "exited"}

EarlyStages == {"permission_acquire", "route_validate"}

\* The helper may have installed routes: it holds the device then.
Installed(a) ==
  \/ helper[a].pc \in {"bringup", "attach", "verify", "commit", "respond", "wait", "closing"}
  \/ helper[a].pc = "undo" /\ helper[a].stage \notin EarlyStages

HelperOK(a) ==
  /\ Owner(a) => file.attempt = a
  /\ Installed(a) => file.excl = Exclusions[a]
  /\ Installed(a) \/ helper[a].pc = "route" => dev = a
  /\ Owner(a) /\ helper[a].pc # "undo" => helper[a].stage = ""
  /\ Owner(a) /\ ~Installed(a) => file.excl = {}
  /\ helper[a].pc \in {"none", "auth", "prepare"} => helper[a].stage = "" /\ file.attempt # a
  /\ helper[a].pc = "remove" /\ file.attempt = a /\ ~botched => routes = {}

DeviceInv == dev # 0 => Owner(dev) /\ helper[dev].pc # "device"

HelpersInv == DeviceInv /\ \A a \in Attempts : HelperOK(a)

RoutesInv == ~botched /\ file # Torn => routes \subseteq file.excl

CleanerOK(k) ==
  LET c == cleaner[k]
      a == cleaner[k].attempt
  IN /\ c.pc = "poll" => helper[a].pc \in {"closing", "remove", "exited"}
     /\ c.pc \in {"reap", "unlink"} => helper[a].pc = "exited"
     /\ c.pc = "reap" /\ file.attempt = a => file.excl = c.excl
     /\ c.pc = "unlink" /\ file.attempt = a /\ ~botched => routes = {}
     /\ c.pc = "ok" /\ ~c.early => helper[a].pc \in {"remove", "exited"} /\ a \notin {dev, file.attempt}

CleanersInv == \A k \in Cleaners : CleanerOK(k)

HelperInv == TypeInv /\ AttemptsInv /\ (~raced => HelpersInv /\ RoutesInv /\ CleanersInv)

-----------------------------------------------------------------------------
(* Moves of a helper *)

\* Helper a alone changes, and it has been started.
Moves(a) ==
  /\ helper[a].pc # "none" /\ helper'[a].pc # "none"
  /\ DOMAIN helper' = Attempts /\ DOMAIN helper'[a] = HelperFields
  /\ \A b \in Attempts \ {a} : helper'[b] = helper[b]

\* Cleaners may start to wait for helper a, which is ending.
Signalled(a) ==
  /\ helper'[a].pc \in {"closing", "remove", "exited"}
  /\ DOMAIN cleaner' = Cleaners
  /\ \A k \in Cleaners :
       \/ cleaner'[k] = cleaner[k]
       \/ /\ DOMAIN cleaner'[k] = CleanerFields
          /\ cleaner'[k].pc = "poll" /\ cleaner'[k].attempt = a /\ cleaner[k].attempt = a

\* An EXCEPT at a helper changes the fields it names.
LEMMA GotoMoves ==
  ASSUME TypeInv, NEW a \in Attempts, NEW pc, Goto(a, pc)
  PROVE  /\ DOMAIN helper' = Attempts /\ DOMAIN helper'[a] = HelperFields
         /\ helper'[a].pc = pc /\ helper'[a].stage = helper[a].stage
         /\ \A b \in Attempts \ {a} : helper'[b] = helper[b]
  BY DEF TypeInv, Goto, HelperFields, IdleHelper

LEMMA ExitMoves ==
  ASSUME TypeInv, NEW a \in Attempts, NEW stage, Exit(a, stage)
  PROVE  /\ DOMAIN helper' = Attempts /\ DOMAIN helper'[a] = HelperFields
         /\ helper'[a].pc = "exited" /\ helper'[a].stage = stage
         /\ \A b \in Attempts \ {a} : helper'[b] = helper[b]
  BY DEF TypeInv, Exit, HelperFields, IdleHelper

LEMMA UndoMoves ==
  ASSUME TypeInv, NEW a \in Attempts, NEW stage, Undo(a, stage)
  PROVE  /\ DOMAIN helper' = Attempts /\ DOMAIN helper'[a] = HelperFields
         /\ helper'[a].pc = "undo" /\ helper'[a].stage = stage
         /\ \A b \in Attempts \ {a} : helper'[b] = helper[b]
  BY DEF TypeInv, Undo, HelperFields, IdleHelper

\* A file that is replaced keeps its form.
LEMMA FileTypes ==
  ASSUME TypeInv, NEW a \in Attempts, NEW e,
         \/ file' = [attempt |-> a, excl |-> e]
         \/ file' = NoFile
         \/ file' = Torn
         \/ update(a, e)
         \/ UNCHANGED file
  PROVE  /\ file' = [attempt |-> file'.attempt, excl |-> file'.excl]
         /\ file'.attempt \in Attempts \cup {0, -1}
         /\ file'.attempt = 0 => file' = NoFile
         /\ file'.attempt = -1 => file' = Torn
         /\ a # 0 /\ a # -1
  BY HelperBounds DEF TypeInv, NoFile, Torn, update, Owns, Attempts

\* The numbers of the attempts and the two files that are no records.
LEMMA Numbers ==
  /\ \A a \in Attempts : a # 0 /\ a # -1
  /\ NoFile.attempt = 0 /\ NoFile.excl = {} /\ Torn.attempt = -1 /\ Torn.excl = {} /\ NoFile # Torn
  /\ 0 \notin Attempts /\ -1 \notin Attempts
  BY HelperBounds DEF NoFile, Torn, Attempts

-----------------------------------------------------------------------------
(* The start process *)

\* A start process whose record is not there yet.
LEMMA PrepareStep ==
  ASSUME HelperInv, NEW a \in Attempts, prepareStart(a)
  PROVE  HelperInv'
<1>1. Moves(a) /\ helper[a].pc = "prepare" /\ helper'[a].stage \in {helper[a].stage, "host_bringup"}
  BY GotoMoves, ExitMoves DEF HelperInv, prepareStart, At, Moves
<1>2. TypeInv'
  <2>1. file' = file \/ file' = [attempt |-> a, excl |-> {}]
    BY DEF prepareStart
  <2>2. botched' \in BOOLEAN
    BY DEF HelperInv, TypeInv, prepareStart, cleanupNativeHostState
  <2> QED BY <1>1, <2>1, <2>2, FileTypes DEF HelperInv, TypeInv, prepareStart, Moves
<1>3. AttemptsInv'
  BY <1>1 DEF HelperInv, TypeInv, AttemptsInv, prepareStart, Moves
<1>4. ASSUME ~raced' PROVE HelpersInv' /\ RoutesInv' /\ CleanersInv'
  <2>1. HelpersInv /\ RoutesInv /\ CleanersInv
    BY <1>4 DEF HelperInv, prepareStart
  <2>2. UNCHANGED <<cleaner, dev>>
    BY DEF prepareStart
  <2>3. ASSUME file' = [attempt |-> a, excl |-> {}], ~Live(file.attempt) \/ file = NoFile,
               file # Torn, helper'[a].pc = "device", helper'[a].stage = helper[a].stage,
               botched' \/ (~botched /\ routes' = {})
        PROVE  HelpersInv' /\ RoutesInv' /\ CleanersInv'
    <3>1. \A b \in Attempts : ~Owner(b)
      <4> SUFFICES ASSUME NEW b \in Attempts, Owner(b) PROVE FALSE
        OBVIOUS
      <4>1. file.attempt = b
        BY <2>1 DEF HelpersInv, HelperOK
      <4>2. ~Live(b)
        BY <4>1, <2>3, Numbers
      <4> QED BY <4>2 DEF Live, Owner
    <3>2. HelpersInv'
      <4>1. dev' = 0
        BY <2>1, <2>2, <3>1 DEF HelperInv, TypeInv, HelpersInv, DeviceInv
      <4>2. HelperOK(a)'
        BY <1>1, <2>1, <2>3 DEF HelpersInv, HelperOK, Owner, Installed
      <4>3. ASSUME NEW b \in Attempts \ {a} PROVE HelperOK(b)'
        <5>1. helper'[b] = helper[b] /\ ~Owner(b) /\ HelperOK(b)
          BY <1>1, <2>1, <3>1 DEF Moves, HelpersInv
        <5>2. ~Owner(b)' /\ ~Installed(b)' /\ helper[b].pc # "route"
          BY <5>1 DEF Owner, Installed
        <5> QED BY <2>3, <5>1, <5>2 DEF HelperOK
      <4> QED BY <4>1, <4>2, <4>3 DEF HelpersInv, DeviceInv
    <3>3. RoutesInv'
      BY <2>3 DEF RoutesInv
    <3>4. CleanersInv'
      BY <1>1, <2>1, <2>2, <2>3 DEF HelperInv, TypeInv, AttemptsInv, CleanersInv, CleanerOK, Moves
    <3> QED BY <3>2, <3>3, <3>4
  <2>4. ASSUME UNCHANGED file, helper'[a].pc = "exited",
               botched' \/ (~botched /\ UNCHANGED routes)
        PROVE  HelpersInv' /\ RoutesInv' /\ CleanersInv'
    <3>1. HelpersInv'
      <4>1. HelperOK(a)'
        BY <1>1, <2>4 DEF HelperOK, Owner, Installed
      <4>2. ASSUME NEW b \in Attempts \ {a} PROVE HelperOK(b)'
        BY <1>1, <2>1, <2>2, <2>4 DEF Moves, HelpersInv, HelperOK, Owner, Installed
      <4>3. DeviceInv'
        BY <1>1, <2>1, <2>2 DEF HelperInv, TypeInv, HelpersInv, DeviceInv, Owner, Moves
      <4> QED BY <4>1, <4>2, <4>3 DEF HelpersInv
    <3>2. RoutesInv'
      BY <2>1, <2>4 DEF RoutesInv
    <3>3. CleanersInv'
      BY <1>1, <2>1, <2>2, <2>4 DEF HelperInv, TypeInv, AttemptsInv, CleanersInv, CleanerOK, Moves
    <3> QED BY <3>1, <3>2, <3>3
  <2>5. CASE file = NoFile
    <3>1. ~Live(file.attempt) /\ file # Torn
      BY <2>5, Numbers DEF Live
    <3>2. file' = [attempt |-> a, excl |-> {}] /\ Goto(a, "device") /\ UNCHANGED <<routes, botched>>
      BY <2>5, <3>1 DEF prepareStart
    <3> QED BY <2>1, <2>3, <2>5, <3>1, <3>2, GotoMoves, Numbers DEF HelperInv, TypeInv, RoutesInv
  <2>6. CASE file = Torn \/ Live(file.attempt)
    <3>1. file # NoFile
      BY <2>6, Numbers DEF Live
    <3>2. Exit(a, "host_bringup") /\ UNCHANGED <<file, split, routes, botched>>
      BY <2>6, <3>1 DEF prepareStart
    <3> QED BY <2>4, <3>2, ExitMoves DEF HelperInv, TypeInv
  <2>7. CASE file \notin {NoFile, Torn} /\ ~Live(file.attempt)
    <3>1. PICK kept \in Leftovers(file.excl) :
            /\ cleanupNativeHostState(file.excl, kept)
            /\ IF kept = {} THEN file' = [attempt |-> a, excl |-> {}] /\ Goto(a, "device")
               ELSE Exit(a, "host_bringup") /\ UNCHANGED file
      BY <2>7 DEF prepareStart
    <3>2. CASE kept = {}
      <4>1. botched' = botched /\ routes' = routes \ file.excl
        BY <3>1, <3>2 DEF cleanupNativeHostState, HelperInv, TypeInv
      <4> QED BY <2>1, <2>3, <2>7, <3>1, <3>2, <4>1, GotoMoves DEF HelperInv, RoutesInv, TypeInv
    <3>3. CASE kept # {}
      <4>1. botched'
        BY <3>1, <3>3 DEF cleanupNativeHostState
      <4> QED BY <2>4, <3>1, <3>3, <4>1, ExitMoves DEF HelperInv
    <3> QED BY <3>2, <3>3
  <2> QED BY <2>5, <2>6, <2>7
<1> QED BY <1>2, <1>3, <1>4 DEF HelperInv

\* A helper's move keeps the types, whatever becomes of the device.
LEMMA MovesTypes ==
  ASSUME TypeInv, AttemptsInv, NEW a \in Attempts, Moves(a),
         UNCHANGED <<slot, client>>, UNCHANGED cleaner \/ Signalled(a),
         dev' \in Attempts \cup {0}, botched' \in BOOLEAN, raced' = raced,
         NEW e, update(a, e) \/ UNCHANGED file \/ file' \in {NoFile, Torn}
  PROVE  TypeInv' /\ AttemptsInv'
<1>1. TypeInv'
  <2>1. DOMAIN cleaner' = Cleaners /\ \A k \in Cleaners : DOMAIN cleaner'[k] = CleanerFields
    BY DEF TypeInv, Signalled
  <2>2. DOMAIN helper' = Attempts /\ \A b \in Attempts : DOMAIN helper'[b] = HelperFields
    BY DEF TypeInv, Moves
  <2>3. /\ file' = [attempt |-> file'.attempt, excl |-> file'.excl]
        /\ file'.attempt \in Attempts \cup {0, -1}
        /\ file'.attempt = 0 => file' = NoFile
        /\ file'.attempt = -1 => file' = Torn
    BY FileTypes
  <2>4. /\ slot' \in Attempts \cup {0} /\ dev' \in Attempts \cup {0} /\ DOMAIN client' = Attempts
        /\ botched' \in BOOLEAN /\ raced' \in BOOLEAN
    BY DEF TypeInv
  <2> QED BY <2>1, <2>2, <2>3, <2>4 DEF TypeInv
<1>2. AttemptsInv'
  <2>1. \A b \in Attempts : helper'[b].pc = "none" => helper[b].pc = "none"
    BY DEF Moves
  <2>2. \A b \in Attempts : helper[b].pc # "none" => helper'[b].pc # "none"
    BY DEF Moves
  <2>3. \A k \in Cleaners :
          /\ cleaner'[k].attempt = cleaner[k].attempt
          /\ cleaner'[k].pc = cleaner[k].pc \/ cleaner'[k].attempt = a
    BY DEF Signalled
  <2>4. \A b \in Attempts : client[b] = "none" => helper'[b].pc = "none"
    BY DEF AttemptsInv, Moves
  <2>5. slot # 0 => helper'[slot].pc # "none"
    BY <2>2 DEF TypeInv, AttemptsInv
  <2> QED BY <2>2, <2>3, <2>4, <2>5, Numbers DEF TypeInv, AttemptsInv
<1> QED BY <1>1, <1>2

\* What an owner must leave behind when it moves on and stays the owner.
LEMMA OwnerMoves ==
  ASSUME HelperInv, NEW a \in Attempts, Moves(a), Owner(a), helper[a].pc # "closing",
         UNCHANGED <<slot, client>>, UNCHANGED cleaner \/ Signalled(a),
         dev' \in Attempts \cup {0}, botched' \in BOOLEAN, raced' = raced,
         NEW e, update(a, e) \/ UNCHANGED file,
         ~raced => /\ Owner(a)'
                   /\ Installed(a)' => file'.excl = Exclusions[a]
                   /\ Installed(a)' \/ helper'[a].pc = "route" => dev' = a
                   /\ helper'[a].pc # "undo" => helper'[a].stage = ""
                   /\ ~Installed(a)' => file'.excl = {}
                   /\ dev' # 0 => dev' = a /\ helper'[a].pc # "device"
                   /\ ~botched' => ~botched /\ routes' \subseteq file'.excl
  PROVE  HelperInv'
<1>1. TypeInv'
  BY MovesTypes DEF HelperInv
<1>2. AttemptsInv'
  BY MovesTypes DEF HelperInv
<1>3. ASSUME ~raced' PROVE HelpersInv' /\ RoutesInv' /\ CleanersInv'
  <2>1. HelpersInv /\ RoutesInv /\ CleanersInv /\ file.attempt = a
    BY <1>3 DEF HelperInv, HelpersInv, HelperOK
  <2>2. file'.attempt = a
    BY <2>1 DEF HelperInv, TypeInv, update
  <2>3. HelpersInv'
    <3>1. DeviceInv'
      BY <1>3 DEF DeviceInv
    <3>2. HelperOK(a)'
      BY <1>3, <2>2 DEF HelperOK, Owner
    <3>3. ASSUME NEW b \in Attempts \ {a} PROVE HelperOK(b)'
      <4>1. helper'[b] = helper[b] /\ ~Owner(b) /\ HelperOK(b)
        BY <2>1 DEF Moves, HelpersInv, HelperOK
      <4>2. ~Owner(b)' /\ ~Installed(b)' /\ helper'[b].pc # "route"
        BY <4>1 DEF Owner, Installed
      <4> QED BY <2>2, <4>1, <4>2 DEF HelperOK
    <3> QED BY <3>1, <3>2, <3>3 DEF HelpersInv
  <2>4. RoutesInv'
    BY <1>3 DEF RoutesInv
  <2>5. CleanersInv'
    <3> SUFFICES ASSUME NEW k \in Cleaners PROVE CleanerOK(k)'
      BY DEF CleanersInv
    <3>0. CASE cleaner'[k] # cleaner[k]
      BY <3>0 DEF Signalled, CleanerOK
    <3> SUFFICES ASSUME cleaner'[k] = cleaner[k] PROVE CleanerOK(k)'
      BY <3>0
    <3>1. CleanerOK(k) /\ cleaner'[k] = cleaner[k]
      BY <2>1 DEF CleanersInv
    <3>2. CASE cleaner[k].pc \notin {"poll", "reap", "unlink", "ok"}
      BY <3>1, <3>2 DEF CleanerOK
    <3>3. CASE cleaner[k].pc = "ok" /\ cleaner[k].early
      BY <3>1, <3>3 DEF CleanerOK
    <3>4. CASE cleaner[k].pc \in {"poll", "reap", "unlink"} \/ (cleaner[k].pc = "ok" /\ ~cleaner[k].early)
      <4>1. cleaner[k].attempt # a
        BY <3>1, <3>4 DEF CleanerOK, Owner
      <4>2. cleaner[k].attempt \in Attempts \ {a} \/ cleaner[k].pc = "poll"
        BY <4>1, <3>4 DEF HelperInv, AttemptsInv
      <4> QED BY <1>3, <2>2, <3>1, <3>4, <4>1, <4>2, Numbers DEF CleanerOK, Moves, HelperInv, AttemptsInv
    <3> QED BY <3>2, <3>3, <3>4
  <2> QED BY <2>3, <2>4, <2>5
<1> QED BY <1>1, <1>2, <1>3 DEF HelperInv

\* The device is opened, or found taken.
LEMMA AcquireStep ==
  ASSUME HelperInv, NEW a \in Attempts, acquirePermission(a)
  PROVE  HelperInv'
<1>1. Moves(a) /\ Owner(a) /\ helper[a].pc = "device" /\ UNCHANGED <<slot, client, cleaner, routes, botched, raced>>
  BY GotoMoves, UndoMoves DEF HelperInv, acquirePermission, At, Moves, Owner
<1>2. ~raced => /\ RoutesInv /\ file.attempt = a /\ file.excl = {} /\ file # Torn
                /\ helper[a].stage = "" /\ dev # a
  <2>1. SUFFICES ASSUME ~raced PROVE /\ RoutesInv /\ file.attempt = a /\ file.excl = {} /\ file # Torn
                                     /\ helper[a].stage = "" /\ dev # a
    OBVIOUS
  <2>2. HelperOK(a) /\ DeviceInv /\ RoutesInv
    BY <2>1 DEF HelperInv, HelpersInv
  <2>3. ~Installed(a)
    BY <1>1 DEF Installed
  <2>4. file.attempt = a /\ file # Torn
    BY <1>1, <2>2, Numbers DEF HelperOK
  <2> QED BY <1>1, <2>2, <2>3, <2>4, Numbers DEF HelperOK, DeviceInv
<1>3. CASE dev = 0 /\ dev' = a /\ update(a, {}) /\ Goto(a, "route")
  <2>1. helper'[a].pc = "route" /\ helper'[a].stage = helper[a].stage
    BY <1>3, GotoMoves DEF HelperInv
  <2>2. ~raced => file'.excl = {}
    BY <1>2, <1>3 DEF HelperInv, TypeInv, update, Owns
  <2> QED BY <1>1, <1>2, <1>3, <2>1, <2>2, OwnerMoves DEF HelperInv, TypeInv, RoutesInv, Owner, Installed
<1>4. CASE Undo(a, "permission_acquire") /\ UNCHANGED <<dev, file>>
  <2>1. helper'[a].pc = "undo" /\ helper'[a].stage = "permission_acquire"
    BY <1>4, UndoMoves DEF HelperInv
  <2>2. ~raced => dev = 0
    BY <1>1, <1>2 DEF HelperInv, HelpersInv, HelperOK, DeviceInv, TypeInv
  <2> QED BY <1>1, <1>2, <1>4, <2>1, <2>2, OwnerMoves
          DEF HelperInv, TypeInv, RoutesInv, Owner, Installed, EarlyStages
<1> QED BY <1>3, <1>4 DEF acquirePermission

\* The exclusions are recorded before any is installed.
LEMMA ValidateStep ==
  ASSUME HelperInv, NEW a \in Attempts, validateRoutePolicy(a)
  PROVE  HelperInv'
<1>1. /\ Moves(a) /\ Owner(a) /\ helper[a].pc = "route"
      /\ UNCHANGED <<slot, client, cleaner, routes, dev, botched, raced>>
  BY GotoMoves, UndoMoves DEF HelperInv, validateRoutePolicy, At, Moves, Owner, kernel
<1>2. ~raced => /\ RoutesInv /\ file.attempt = a /\ file.excl = {} /\ file # Torn
                /\ helper[a].stage = "" /\ dev = a
  <2>1. SUFFICES ASSUME ~raced PROVE /\ RoutesInv /\ file.attempt = a /\ file.excl = {} /\ file # Torn
                                     /\ helper[a].stage = "" /\ dev = a
    OBVIOUS
  <2>2. HelperOK(a) /\ DeviceInv /\ RoutesInv
    BY <2>1 DEF HelperInv, HelpersInv
  <2>3. ~Installed(a)
    BY <1>1 DEF Installed
  <2>4. file.attempt = a /\ file # Torn
    BY <1>1, <2>2, Numbers DEF HelperOK
  <2> QED BY <1>1, <2>2, <2>3, <2>4, Numbers DEF HelperOK, DeviceInv
<1>3. CASE update(a, Exclusions[a]) /\ Goto(a, "bringup")
  <2>1. helper'[a].pc = "bringup" /\ helper'[a].stage = helper[a].stage
    BY <1>3, GotoMoves DEF HelperInv
  <2>2. ~raced => file'.excl = Exclusions[a]
    BY <1>2, <1>3 DEF HelperInv, TypeInv, update, Owns
  <2> QED BY <1>1, <1>2, <1>3, <2>1, <2>2, OwnerMoves DEF HelperInv, TypeInv, RoutesInv, Owner, Installed
<1>4. CASE Undo(a, "route_validate") /\ UNCHANGED file
  <2>1. helper'[a].pc = "undo" /\ helper'[a].stage = "route_validate"
    BY <1>4, UndoMoves DEF HelperInv
  <2> QED BY <1>1, <1>2, <1>4, <2>1, OwnerMoves
          DEF HelperInv, TypeInv, RoutesInv, Owner, Installed, EarlyStages
<1> QED BY <1>3, <1>4 DEF validateRoutePolicy

\* A helper whose routes may be installed moves on or starts to undo them.
LEMMA InstalledMoves ==
  ASSUME HelperInv, NEW a \in Attempts, Installed(a), helper[a].pc # "closing",
         NEW pc, pc \in {"attach", "verify", "commit", "respond", "wait", "closing", "undo"},
         Moves(a), helper'[a].pc = pc,
         pc # "undo" => helper[a].pc # "undo" /\ helper'[a].stage = helper[a].stage,
         pc = "undo" => helper'[a].stage \notin EarlyStages,
         UNCHANGED <<slot, client, dev, botched, raced>>, UNCHANGED cleaner \/ Signalled(a),
         routes' \subseteq routes \cup Exclusions[a],
         update(a, Exclusions[a]) \/ UNCHANGED file
  PROVE  HelperInv'
<1>1. Owner(a) /\ Owner(a)' /\ Installed(a)'
  BY DEF Owner, Installed
<1>2. ~raced => /\ RoutesInv /\ file.attempt = a /\ file.excl = Exclusions[a] /\ file # Torn
                /\ (helper[a].pc # "undo" => helper[a].stage = "") /\ dev = a
  <2>1. SUFFICES ASSUME ~raced
                 PROVE  /\ RoutesInv /\ file.attempt = a /\ file.excl = Exclusions[a] /\ file # Torn
                        /\ (helper[a].pc # "undo" => helper[a].stage = "") /\ dev = a
    OBVIOUS
  <2>2. HelperOK(a) /\ RoutesInv
    BY <2>1 DEF HelperInv, HelpersInv
  <2>3. file.attempt = a
    BY <1>1, <2>2 DEF HelperOK
  <2> QED BY <1>1, <2>2, <2>3, Numbers DEF HelperOK
<1>3. ~raced => file'.excl = Exclusions[a]
  BY <1>2 DEF HelperInv, TypeInv, update, Owns
<1> QED BY <1>1, <1>2, <1>3, OwnerMoves DEF HelperInv, TypeInv, RoutesInv, Owner

LEMMA InstalledStep ==
  ASSUME HelperInv, NEW a \in Attempts,
         \/ bringupHost(a) \/ attachRuntime(a) \/ verifyDataplane(a)
         \/ Commit(a) \/ NotifySignals(a) \/ waitForHelperShutdown(a)
  PROVE  HelperInv'
<1>1. ASSUME NEW pc, pc \in {"attach", "verify", "commit", "respond", "wait", "closing"},
             helper[a].pc # "none", Goto(a, pc)
      PROVE  Moves(a) /\ helper'[a].pc = pc /\ helper'[a].stage = helper[a].stage
  BY <1>1, GotoMoves DEF HelperInv, Moves
<1>2. ASSUME NEW stage, stage \in {"host_bringup", "runtime_attach", "dataplane_verify"},
             helper[a].pc # "none", Undo(a, stage)
      PROVE  Moves(a) /\ helper'[a].pc = "undo" /\ helper'[a].stage \notin EarlyStages
  BY <1>2 DEF HelperInv, TypeInv, Undo, Moves, EarlyStages, HelperFields, IdleHelper
<1>3. CASE bringupHost(a)
  <2>1. Installed(a) /\ helper[a].pc = "bringup" /\ UNCHANGED <<slot, client, cleaner, dev, botched, raced>>
    BY <1>3 DEF bringupHost, At, Installed
  <2>2. routes' \subseteq routes \cup Exclusions[a]
    BY <1>3 DEF bringupHost
  <2>3. \/ Goto(a, "attach") /\ update(a, Exclusions[a])
        \/ Undo(a, "host_bringup") /\ UNCHANGED file
    BY <1>3 DEF bringupHost
  <2> QED BY <1>1, <1>2, <2>1, <2>2, <2>3, InstalledMoves
<1>4. CASE attachRuntime(a)
  BY <1>1, <1>2, <1>4, InstalledMoves DEF attachRuntime, At, Installed, kernel
<1>5. CASE verifyDataplane(a)
  BY <1>1, <1>2, <1>5, InstalledMoves DEF verifyDataplane, At, Installed, kernel
<1>6. CASE Commit(a)
  <2>1. /\ Installed(a) /\ helper[a].pc = "commit" /\ update(a, Exclusions[a])
        /\ UNCHANGED <<slot, client, cleaner, dev, routes, botched, raced>>
    BY <1>6 DEF Commit, At, Installed, kernel
  <2>2. CASE helper' = [helper EXCEPT ![a].pc = "respond", ![a].answered = TRUE]
    <3>1. Moves(a) /\ helper'[a].pc = "respond" /\ helper'[a].stage = helper[a].stage
      BY <2>1, <2>2 DEF HelperInv, TypeInv, Moves, HelperFields, IdleHelper
    <3> QED BY <2>1, <3>1, InstalledMoves
  <2>3. CASE Undo(a, "host_bringup")
    BY <1>2, <2>1, <2>3, InstalledMoves
  <2> QED BY <1>6, <2>2, <2>3 DEF Commit
<1>7. CASE NotifySignals(a)
  BY <1>1, <1>7, InstalledMoves DEF NotifySignals, At, Installed, kernel
<1>8. CASE waitForHelperShutdown(a)
  BY <1>1, <1>8, InstalledMoves DEF waitForHelperShutdown, At, Installed, kernel
<1> QED BY <1>3, <1>4, <1>5, <1>6, <1>7, <1>8

\* What must hold when a helper is past its cleanup, or dies.
LEMMA LeaveMoves ==
  ASSUME HelperInv, TypeInv', AttemptsInv', NEW a \in Attempts,
         Moves(a), helper[a].pc # "exited", helper'[a].pc \in {"remove", "exited"},
         UNCHANGED cleaner \/ Signalled(a), raced' = raced,
         ~raced => /\ (dev' = dev /\ dev # a) \/ (dev' = 0 /\ dev \in {0, a})
                   /\ file' = file \/ /\ file' \in {NoFile, Torn}
                                      /\ \A b \in Attempts \ {a} : ~Owner(b)
                   /\ ~botched' => ~botched /\ routes' \subseteq routes
                   /\ helper'[a].pc = "remove" /\ file'.attempt = a /\ ~botched' => routes' = {}
                   /\ RoutesInv'
  PROVE  HelperInv'
<1> SUFFICES ASSUME ~raced PROVE HelpersInv' /\ CleanersInv'
  BY DEF HelperInv
<1>1. HelpersInv /\ CleanersInv
  BY DEF HelperInv
<1>2. file' # file => file'.attempt \notin Attempts
  BY Numbers
<1>3. HelpersInv'
  <2>1. HelperOK(a)'
    BY DEF HelperOK, Owner, Installed
  <2>2. ASSUME NEW b \in Attempts \ {a} PROVE HelperOK(b)'
    <3>1. helper'[b] = helper[b] /\ HelperOK(b)
      BY <1>1 DEF Moves, HelpersInv
    <3>2. CASE file' = file
      <4>1. dev = b => dev' = b
        BY Numbers
      <4> QED BY <3>1, <3>2, <4>1 DEF HelperOK, Owner, Installed
    <3>3. CASE file' # file
      BY <3>1, <3>3, <1>2 DEF HelperOK, Owner, Installed
    <3> QED BY <3>2, <3>3
  <2>3. DeviceInv'
    BY <1>1 DEF HelpersInv, DeviceInv, Moves, Owner, HelperInv, TypeInv
  <2> QED BY <2>1, <2>2, <2>3 DEF HelpersInv
<1>4. CleanersInv'
  <2> SUFFICES ASSUME NEW k \in Cleaners PROVE CleanerOK(k)'
    BY DEF CleanersInv
  <2>1. CASE cleaner'[k] # cleaner[k]
    BY <2>1 DEF Signalled, CleanerOK
  <2>2. CASE cleaner'[k] = cleaner[k]
    <3>1. CleanerOK(k)
      BY <1>1 DEF CleanersInv
    <3>2. CASE cleaner[k].pc \notin {"poll", "reap", "unlink", "ok"}
      BY <2>2, <3>2 DEF CleanerOK
    <3>3. CASE cleaner[k].pc \in {"poll", "reap", "unlink", "ok"}
      <4>1. cleaner[k].attempt \in Attempts
        BY <3>3 DEF HelperInv, AttemptsInv, TypeInv
      <4>2. \/ cleaner[k].attempt = a
            \/ helper'[cleaner[k].attempt] = helper[cleaner[k].attempt]
        BY <4>1 DEF Moves
      <4>3. cleaner[k].attempt = file'.attempt => file' = file
        BY <4>1, <1>2
      <4>4. cleaner[k].attempt = dev' => dev' = dev
        BY <4>1, Numbers
      <4> QED BY <2>2, <3>1, <3>3, <4>2, <4>3, <4>4 DEF CleanerOK
    <3> QED BY <3>2, <3>3
  <2> QED BY <2>1, <2>2
<1> QED BY <1>3, <1>4

\* The lifecycle's cleanup deletes what its record names.
LEMMA LifecycleCleanupStep ==
  ASSUME HelperInv, NEW a \in Attempts, LifecycleCleanup(a)
  PROVE  HelperInv'
<1>1. Moves(a) /\ Owner(a) /\ helper'[a].pc = "remove"
  BY GotoMoves DEF HelperInv, LifecycleCleanup, Moves, Owner
<1>2. UNCHANGED <<slot, client, cleaner, file, raced>>
  BY DEF LifecycleCleanup
<1>3. dev' \in Attempts \cup {0} /\ botched' \in BOOLEAN
  BY DEF LifecycleCleanup, HelperInv, TypeInv, kernel, cleanupNativeHostState
<1>4. TypeInv' /\ AttemptsInv'
  BY <1>1, <1>2, <1>3, MovesTypes DEF HelperInv
<1>5. ASSUME ~raced
      PROVE  /\ (dev' = dev /\ dev # a) \/ (dev' = 0 /\ dev \in {0, a})
             /\ ~botched' => ~botched /\ routes' = {}
  <2>1. HelperOK(a) /\ RoutesInv /\ file.attempt = a /\ file # Torn
    <3>1. HelperOK(a) /\ RoutesInv
      BY <1>5 DEF HelperInv, HelpersInv
    <3>2. file.attempt = a
      BY <1>1, <3>1 DEF HelperOK
    <3> QED BY <3>1, <3>2, Numbers
  <2>2. CASE dev # a
    <3>1. ~Installed(a) /\ UNCHANGED <<dev, routes, botched>>
      BY <2>1, <2>2 DEF HelperOK, LifecycleCleanup, kernel
    <3> QED BY <1>1, <2>1, <2>2, <3>1 DEF HelperOK, RoutesInv
  <2>3. CASE dev = a
    <3> DEFINE excl == IF helper[a].stage \in {"permission_acquire", "route_validate"}
                         THEN {} ELSE Exclusions[a]
    <3>1. excl = file.excl
      <4>1. CASE helper[a].pc = "closing"
        BY <1>1, <2>1, <4>1 DEF HelperOK, Installed
      <4>2. CASE helper[a].pc = "undo"
        BY <1>1, <2>1, <4>2 DEF HelperOK, Installed, EarlyStages
      <4> QED BY <4>1, <4>2 DEF LifecycleCleanup
    <3>2. PICK kept \in Leftovers(excl) : cleanupNativeHostState(excl, kept)
      BY <2>3 DEF LifecycleCleanup
    <3>3. dev' = 0
      BY <2>3 DEF LifecycleCleanup
    <3>4. ~botched' => ~botched /\ routes' = routes \ excl
      BY <3>2 DEF cleanupNativeHostState
    <3> HIDE DEF excl
    <3> QED BY <2>1, <2>3, <3>1, <3>3, <3>4 DEF RoutesInv
  <2> QED BY <2>2, <2>3
<1> QED BY <1>1, <1>2, <1>4, <1>5, LeaveMoves DEF Owner, RoutesInv

\* The helper's record goes last.
LEMMA RemoveStep ==
  ASSUME HelperInv, NEW a \in Attempts, removeIfAttempt(a)
  PROVE  HelperInv'
<1>1. Moves(a) /\ helper[a].pc = "remove" /\ helper'[a].pc = "exited"
  BY GotoMoves DEF HelperInv, removeIfAttempt, At, Moves
<1>2. UNCHANGED <<slot, client, cleaner, dev, routes, botched, raced>>
  BY DEF removeIfAttempt, kernel
<1>3. file' = IF file.attempt = a THEN NoFile ELSE file
  BY DEF removeIfAttempt, Owns
<1>4. TypeInv' /\ AttemptsInv'
  BY <1>1, <1>2, <1>3, MovesTypes DEF HelperInv, TypeInv
<1>5. ASSUME ~raced
      PROVE  /\ dev # a
             /\ file.attempt = a => \A b \in Attempts \ {a} : ~Owner(b)
             /\ RoutesInv'
  <2>1. HelperOK(a) /\ RoutesInv /\ DeviceInv
    BY <1>5 DEF HelperInv, HelpersInv
  <2>2. dev # a
    BY <1>1, <2>1, Numbers DEF DeviceInv, Owner
  <2>3. file.attempt = a => \A b \in Attempts \ {a} : ~Owner(b)
    BY <1>5 DEF HelperInv, HelpersInv, HelperOK
  <2>4. RoutesInv'
    BY <1>1, <1>2, <1>3, <2>1 DEF HelperOK, RoutesInv
  <2> QED BY <2>2, <2>3, <2>4
<1> QED BY <1>1, <1>2, <1>3, <1>4, <1>5, LeaveMoves

\* A helper is authorized, or ends before it wrote anything.
LEMMA AuthorizeStep ==
  ASSUME HelperInv, NEW a \in Attempts, Authorize(a)
  PROVE  HelperInv'
<1>1. UNCHANGED <<slot, client, cleaner, file, dev, routes, botched, raced>>
  BY DEF Authorize, kernel
<1>2. helper[a].pc = "auth"
  BY DEF Authorize, At
<1>3. ~raced => dev # a /\ RoutesInv'
  BY <1>1, <1>2, Numbers DEF HelperInv, HelpersInv, DeviceInv, Owner, RoutesInv
<1>4. CASE Goto(a, "prepare")
  <2>1. Moves(a) /\ helper'[a].pc = "prepare" /\ helper'[a].stage = helper[a].stage
    BY <1>2, <1>4, GotoMoves DEF HelperInv, Moves
  <2>2. TypeInv' /\ AttemptsInv'
    BY <1>1, <2>1, MovesTypes DEF HelperInv, TypeInv
  <2>3. ASSUME ~raced PROVE HelpersInv' /\ CleanersInv'
    <3>1. HelpersInv /\ CleanersInv
      BY <2>3 DEF HelperInv
    <3>2. HelperOK(a)'
      BY <1>1, <1>2, <2>1, <3>1 DEF HelpersInv, HelperOK, Owner, Installed
    <3>3. ASSUME NEW b \in Attempts \ {a} PROVE HelperOK(b)'
      BY <1>1, <2>1, <3>1 DEF Moves, HelpersInv, HelperOK, Owner, Installed
    <3>4. DeviceInv'
      BY <1>1, <1>3, <2>1, <3>1, <2>3 DEF Moves, HelpersInv, DeviceInv, HelperInv, TypeInv, Owner
    <3>5. CleanersInv'
      BY <1>1, <1>2, <2>1, <3>1 DEF HelperInv, TypeInv, AttemptsInv, CleanersInv, CleanerOK, Moves
    <3> QED BY <3>2, <3>3, <3>4, <3>5 DEF HelpersInv
  <2> QED BY <1>1, <1>3, <2>2, <2>3 DEF HelperInv
<1>5. CASE helper' = [helper EXCEPT ![a].pc = "exited", ![a].stage = "permission_acquire"]
  <2>1. Moves(a) /\ helper'[a].pc = "exited"
    BY <1>2, <1>5, ExitMoves DEF HelperInv, Moves, Exit
  <2>2. TypeInv' /\ AttemptsInv'
    BY <1>1, <2>1, MovesTypes DEF HelperInv, TypeInv
  <2> QED BY <1>1, <1>2, <1>3, <2>1, <2>2, LeaveMoves
<1> QED BY <1>4, <1>5 DEF Authorize

\* A helper that dies takes its device along and may leave a torn file.
LEMMA DieStep ==
  ASSUME HelperInv, NEW a \in Attempts, Live(a), Die(a),
         UNCHANGED <<slot, client, routes, botched, raced>>,
         UNCHANGED cleaner \/ (helper'[a].pc = "exited" => Signalled(a))
  PROVE  HelperInv'
<1>1. Moves(a) /\ helper[a].pc # "exited" /\ helper'[a].pc = "exited"
  BY DEF HelperInv, TypeInv, Live, Die, Moves, HelperFields, IdleHelper
<1>2. file' = file \/ (Writing(a) /\ file' = Torn)
  BY DEF Die
<1>3. dev' = IF dev = a THEN 0 ELSE dev
  BY DEF Die
<1>4. UNCHANGED cleaner \/ Signalled(a)
  BY <1>1
<1>5. TypeInv' /\ AttemptsInv'
  BY <1>1, <1>2, <1>3, <1>4, MovesTypes DEF HelperInv, TypeInv
<1>6. ASSUME ~raced, Writing(a), NEW b \in Attempts \ {a} PROVE ~Owner(b)
  <2>1. Owner(b) => file.attempt = b
    BY <1>6 DEF HelperInv, HelpersInv, HelperOK
  <2>2. file.attempt \in {0, a}
    BY <1>6, Numbers DEF Writing, Owns
  <2> QED BY <2>1, <2>2, Numbers
<1>7. ~raced => RoutesInv'
  BY <1>2 DEF HelperInv, RoutesInv
<1> QED BY <1>1, <1>2, <1>3, <1>4, <1>5, <1>6, <1>7, LeaveMoves

LEMMA KillStep ==
  ASSUME HelperInv, NEW a \in Attempts, Kill(a)
  PROVE  HelperInv'
  BY DieStep DEF Kill

\* A signal ends a waiting helper in order and kills any other.
LEMMA SignalStep ==
  ASSUME HelperInv, NEW k \in Cleaners, Signal(k)
  PROVE  HelperInv'
<1> DEFINE a == cleaner[k].attempt
<1>1. a \in Attempts /\ helper[a].pc # "none"
  BY DEF HelperInv, AttemptsInv, TypeInv, Signal, CleanerAt
<1>2. UNCHANGED <<slot, client, routes, botched, raced>>
  BY DEF Signal
<1>3. /\ DOMAIN cleaner' = Cleaners /\ DOMAIN cleaner'[k] = CleanerFields
      /\ cleaner'[k].pc = "poll" /\ cleaner'[k].attempt = a
      /\ \A j \in Cleaners \ {k} : cleaner'[j] = cleaner[j]
  BY DEF HelperInv, TypeInv, Signal, CleanerGoto, CleanerFields, IdleCleaner
<1>4. helper'[a].pc \in {"closing", "remove", "exited"} => Signalled(a)
  BY <1>3 DEF Signalled
<1>5. CASE At(a, "wait") /\ Goto(a, "closing") /\ UNCHANGED <<file, dev, split>>
  <2> HIDE DEF a
  <2>1. Moves(a) /\ helper[a].pc = "wait" /\ helper'[a].pc = "closing" /\ helper'[a].stage = helper[a].stage
    BY <1>1, <1>5, GotoMoves DEF At, HelperInv, Moves
  <2> QED BY <1>1, <1>2, <1>4, <1>5, <2>1, InstalledMoves DEF Installed
<1>6. CASE Live(a) /\ Die(a)
  <2> HIDE DEF a
  <2> QED BY <1>1, <1>2, <1>4, <1>6, DieStep
<1>7. CASE ~Live(a) /\ UNCHANGED <<helper, file, dev, split>>
  <2>1. helper[a].pc = "exited"
    BY <1>1, <1>7 DEF Live
  <2>2. TypeInv'
    BY <1>2, <1>3, <1>7 DEF HelperInv, TypeInv
  <2>3. AttemptsInv'
    BY <1>1, <1>2, <1>3, <1>7, Numbers DEF HelperInv, AttemptsInv
  <2>4. ASSUME ~raced PROVE HelpersInv' /\ RoutesInv' /\ CleanersInv'
    <3>1. HelpersInv' /\ RoutesInv'
      BY <1>2, <1>7, <2>4 DEF HelperInv, HelpersInv, HelperOK, DeviceInv, RoutesInv, Owner, Installed
    <3>2. ASSUME NEW j \in Cleaners \ {k} PROVE CleanerOK(j)'
      BY <1>2, <1>3, <1>7, <2>4 DEF HelperInv, CleanersInv, CleanerOK
    <3>3. CleanerOK(k)'
      BY <1>3, <1>7, <2>1 DEF CleanerOK
    <3> QED BY <3>1, <3>2, <3>3 DEF CleanersInv
  <2> QED BY <1>2, <2>2, <2>3, <2>4 DEF HelperInv
<1> QED BY <1>5, <1>6, <1>7 DEF Signal

-----------------------------------------------------------------------------
(* The controller *)

\* What the controller may change without the helpers and their record.
LEMMA ClientMoves ==
  ASSUME HelperInv,
         DOMAIN helper' = Attempts, DOMAIN client' = Attempts, slot' \in {slot, 0},
         \A a \in Attempts : /\ DOMAIN helper'[a] = HelperFields
                             /\ helper'[a].pc = helper[a].pc
                             /\ helper[a].pc # "exited" => helper'[a].stage = helper[a].stage
                             /\ client'[a] = "none" => client[a] = "none",
         UNCHANGED <<cleaner, file, dev, routes, botched, raced>>
  PROVE  HelperInv'
<1>1. TypeInv'
  BY DEF HelperInv, TypeInv
<1>2. AttemptsInv'
  BY DEF HelperInv, TypeInv, AttemptsInv
<1>3. ASSUME ~raced PROVE HelpersInv' /\ RoutesInv' /\ CleanersInv'
  <2>1. HelpersInv /\ RoutesInv /\ CleanersInv
    BY <1>3 DEF HelperInv
  <2>2. ASSUME NEW a \in Attempts PROVE HelperOK(a)'
    <3>1. HelperOK(a)
      BY <2>1 DEF HelpersInv
    <3>2. CASE helper[a].pc = "exited"
      BY <3>2 DEF HelperOK, Owner, Installed
    <3>3. CASE helper[a].pc # "exited"
      BY <3>1, <3>3 DEF HelperOK, Owner, Installed
    <3> QED BY <3>2, <3>3
  <2>3. DeviceInv'
    BY <2>1 DEF HelpersInv, DeviceInv, Owner, HelperInv, TypeInv
  <2>4. CleanersInv'
    BY <2>1 DEF CleanersInv, CleanerOK, HelperInv, TypeInv, AttemptsInv
  <2> QED BY <2>1, <2>2, <2>3, <2>4 DEF HelpersInv, RoutesInv
<1> QED BY <1>1, <1>2, <1>3 DEF HelperInv

LEMMA ReceiveStep ==
  ASSUME HelperInv, NEW a \in Attempts, ReceiveResponse(a) \/ ReceiveFailure(a)
  PROVE  HelperInv'
<1>1. CASE ReceiveResponse(a)
  BY <1>1, ClientMoves DEF ReceiveResponse, HelperInv, TypeInv, kernel, HelperFields, IdleHelper
<1>2. CASE ReceiveFailure(a)
  <2>1. \E status \in {"dirty", "failed"} : client' = [client EXCEPT ![a] = status]
    BY <1>2 DEF ReceiveFailure
  <2>2. slot' \in {slot, 0} /\ UNCHANGED <<cleaner, file, dev, routes, botched, raced>>
    BY <1>2 DEF ReceiveFailure, kernel
  <2>3. helper[a].pc = "exited" /\ helper' = [helper EXCEPT ![a] = [IdleHelper EXCEPT !.pc = "exited"]]
    BY <1>2 DEF ReceiveFailure, At
  <2> QED BY <2>1, <2>2, <2>3, ClientMoves DEF HelperInv, TypeInv, HelperFields, IdleHelper
<1> QED BY <1>1, <1>2

\* The caller's kill ends a helper that is not root yet.
LEMMA CancelStep ==
  ASSUME HelperInv, NEW a \in Attempts, CancelStart(a)
  PROVE  HelperInv'
<1>1. UNCHANGED <<slot, cleaner, file, dev, routes, botched, raced>>
  BY DEF CancelStart, kernel
<1>2. client' = [client EXCEPT ![a] = "cancelled"]
  BY DEF CancelStart
<1>3. CASE At(a, "auth") /\ Exit(a, "host_bringup")
  <2>1. Moves(a) /\ helper[a].pc = "auth" /\ helper'[a].pc = "exited"
    BY <1>3, ExitMoves DEF HelperInv, Moves, At
  <2>2. TypeInv'
    BY <1>1, <1>2, <2>1 DEF HelperInv, TypeInv, Moves
  <2>3. AttemptsInv'
    BY <1>1, <1>2, <2>1 DEF HelperInv, TypeInv, AttemptsInv, Moves
  <2>4. ~raced => dev # a /\ RoutesInv'
    BY <1>1, <2>1, Numbers DEF HelperInv, HelpersInv, DeviceInv, Owner, RoutesInv
  <2> QED BY <1>1, <2>1, <2>2, <2>3, <2>4, LeaveMoves
<1>4. CASE UNCHANGED helper
  BY <1>1, <1>2, <1>4, ClientMoves DEF HelperInv, TypeInv
<1> QED BY <1>3, <1>4 DEF CancelStart

\* The host's processes go on without it.
LEMMA RestartStep ==
  ASSUME HelperInv, RestartHost
  PROVE  HelperInv'
<1>1. /\ slot' = 0 /\ UNCHANGED <<cleaner, file, dev, routes, botched, raced>>
      /\ client' = [a \in Attempts |-> IF client[a] = "none" THEN "none" ELSE "gone"]
      /\ helper' = [a \in Attempts |-> [helper[a] EXCEPT !.answered = FALSE]]
  BY DEF RestartHost, kernel
<1>2. \A a \in Attempts : client'[a] = "none" => client[a] = "none"
  BY <1>1
<1>3. \A a \in Attempts : /\ DOMAIN helper'[a] = HelperFields
                          /\ helper'[a].pc = helper[a].pc /\ helper'[a].stage = helper[a].stage
  BY <1>1 DEF HelperInv, TypeInv, HelperFields, IdleHelper
<1> QED BY <1>1, <1>2, <1>3, ClientMoves

\* A start runs a helper that has not run before.
LEMMA BeginStep ==
  ASSUME HelperInv, NEW a \in Attempts, beginNativeAttempt(a)
  PROVE  HelperInv'
<1>1. UNCHANGED <<cleaner, file, dev, routes, botched, raced>>
  BY DEF beginNativeAttempt, kernel
<1>2. slot' = a /\ client' = [client EXCEPT ![a] = "waiting"]
  BY DEF beginNativeAttempt
<1>3. helper[a].pc = "none"
  BY DEF HelperInv, AttemptsInv, beginNativeAttempt
<1>4. /\ DOMAIN helper' = Attempts /\ DOMAIN helper'[a] = HelperFields
      /\ helper'[a].pc = "auth" /\ helper'[a].stage = helper[a].stage
      /\ \A b \in Attempts \ {a} : helper'[b] = helper[b]
  BY DEF HelperInv, TypeInv, beginNativeAttempt, HelperFields, IdleHelper
<1>5. TypeInv'
  BY <1>1, <1>2, <1>4 DEF HelperInv, TypeInv
<1>6. AttemptsInv'
  BY <1>1, <1>2, <1>4 DEF HelperInv, TypeInv, AttemptsInv
<1>7. ASSUME ~raced PROVE HelpersInv' /\ RoutesInv' /\ CleanersInv'
  <2>1. HelpersInv /\ RoutesInv /\ CleanersInv
    BY <1>7 DEF HelperInv
  <2>2. HelperOK(a)'
    BY <1>1, <1>3, <1>4, <2>1 DEF HelpersInv, HelperOK, Owner, Installed
  <2>3. ASSUME NEW b \in Attempts \ {a} PROVE HelperOK(b)'
    BY <1>1, <1>4, <2>1 DEF HelpersInv, HelperOK, Owner, Installed
  <2>4. DeviceInv'
    BY <1>1, <1>3, <1>4, <2>1 DEF HelpersInv, DeviceInv, Owner, HelperInv, TypeInv
  <2>5. CleanersInv'
    BY <1>1, <1>3, <1>4, <2>1 DEF HelperInv, TypeInv, AttemptsInv, CleanersInv, CleanerOK
  <2> QED BY <1>1, <2>1, <2>2, <2>3, <2>4, <2>5 DEF HelpersInv, RoutesInv
<1> QED BY <1>1, <1>5, <1>6, <1>7 DEF HelperInv

-----------------------------------------------------------------------------
(* The cleanup processes *)

\* Cleaner k alone changes; it names an attempt that was started, or none.
CleanerMoves(k) ==
  /\ DOMAIN cleaner' = Cleaners /\ DOMAIN cleaner'[k] = CleanerFields
  /\ \A j \in Cleaners \ {k} : cleaner'[j] = cleaner[j]
  /\ \/ cleaner'[k].attempt \in {0, slot} /\ cleaner'[k].pc \in {"auth", "done"}
     \/ /\ cleaner'[k].attempt = cleaner[k].attempt
        /\ \/ cleaner[k].attempt # 0
           \/ cleaner'[k].pc \notin {"locked", "signal", "poll", "reap", "unlink", "ok"}

LEMMA CleanerGotoMoves ==
  ASSUME TypeInv, NEW k \in Cleaners, NEW pc, CleanerGoto(k, pc),
         \/ cleaner[k].attempt # 0
         \/ pc \notin {"locked", "signal", "poll", "reap", "unlink", "ok"}
  PROVE  /\ CleanerMoves(k)
         /\ cleaner'[k].pc = pc
         /\ cleaner'[k].attempt = cleaner[k].attempt
         /\ cleaner'[k].excl = cleaner[k].excl /\ cleaner'[k].early = cleaner[k].early
  BY DEF TypeInv, CleanerGoto, CleanerMoves, CleanerFields, IdleCleaner

LEMMA CleanerTypes ==
  ASSUME TypeInv, AttemptsInv, NEW k \in Cleaners, CleanerMoves(k),
         UNCHANGED <<helper, dev>>, slot' \in {slot, 0}, DOMAIN client' = Attempts,
         \A a \in Attempts : client'[a] = "none" => client[a] = "none",
         file' \in {file, NoFile}, botched' \in BOOLEAN, raced' \in BOOLEAN
  PROVE  TypeInv' /\ AttemptsInv'
<1>1. TypeInv'
  <2>1. \A j \in Cleaners : DOMAIN cleaner'[j] = CleanerFields
    BY DEF TypeInv, CleanerMoves
  <2>2. /\ file' = [attempt |-> file'.attempt, excl |-> file'.excl]
        /\ file'.attempt \in Attempts \cup {0, -1}
        /\ file'.attempt = 0 => file' = NoFile
        /\ file'.attempt = -1 => file' = Torn
    BY DEF TypeInv, NoFile
  <2> QED BY <2>1, <2>2 DEF TypeInv, CleanerMoves
<1>2. AttemptsInv'
  <2>1. ASSUME NEW j \in Cleaners
        PROVE  /\ cleaner'[j].attempt \in Attempts \cup {0}
               /\ cleaner'[j].attempt # 0 => helper[cleaner'[j].attempt].pc # "none"
               /\ cleaner'[j].pc \in {"locked", "signal", "poll", "reap", "unlink", "ok"}
                    => cleaner'[j].attempt # 0
    <3>1. CASE j # k
      BY <3>1 DEF CleanerMoves, AttemptsInv
    <3>2. CASE j = k
      BY <3>2 DEF CleanerMoves, TypeInv, AttemptsInv
    <3> QED BY <3>1, <3>2
  <2> QED BY <2>1 DEF AttemptsInv
<1> QED BY <1>1, <1>2

\* What a cleaner may do to the record and the routes.
LEMMA CleanerKeeps ==
  ASSUME HelperInv, ~raced, NEW k \in Cleaners, CleanerMoves(k), CleanerOK(k)',
         UNCHANGED <<helper, dev>>,
         \/ file' = file
         \/ file' = NoFile /\ \A a \in Attempts : ~Owner(a),
         ~botched' => ~botched /\ routes' \subseteq routes,
         RoutesInv'
  PROVE  HelpersInv' /\ RoutesInv' /\ CleanersInv'
<1>1. HelpersInv /\ CleanersInv
  BY DEF HelperInv
<1>2. ASSUME NEW a \in Attempts PROVE HelperOK(a)'
  BY <1>1, Numbers DEF HelpersInv, HelperOK, Owner, Installed
<1>3. DeviceInv'
  BY <1>1 DEF HelpersInv, DeviceInv, Owner
<1>4. ASSUME NEW j \in Cleaners \ {k} PROVE CleanerOK(j)'
  <2>1. CleanerOK(j) /\ cleaner'[j] = cleaner[j]
    BY <1>1 DEF CleanersInv, CleanerMoves
  <2>2. cleaner[j].pc \in {"reap", "unlink", "ok"} => cleaner[j].attempt # 0
    BY DEF HelperInv, AttemptsInv
  <2> QED BY <2>1, <2>2, Numbers DEF CleanerOK
<1> QED BY <1>2, <1>3, <1>4 DEF HelpersInv, CleanersInv

\* The steps of the cleanup processes that leave the record alone.
LEMMA RunStep ==
  ASSUME HelperInv, NEW k \in Cleaners, NEW start, Run(k, start), Fresh(k),
         UNCHANGED <<slot, helper, file, dev, routes, botched, raced>>,
         DOMAIN client' = Attempts,
         \A a \in Attempts : client'[a] = "none" => client[a] = "none"
  PROVE  HelperInv'
<1>1. CleanerMoves(k) /\ cleaner'[k].pc = "auth"
  BY DEF HelperInv, TypeInv, Run, CleanerMoves, CleanerFields, IdleCleaner
<1>2. TypeInv' /\ AttemptsInv'
  BY <1>1, CleanerTypes DEF HelperInv, TypeInv
<1>3. CleanerOK(k)'
  BY <1>1 DEF CleanerOK
<1>4. ~raced => HelpersInv' /\ RoutesInv' /\ CleanersInv'
  BY <1>1, <1>3, CleanerKeeps DEF HelperInv, RoutesInv
<1> QED BY <1>2, <1>4 DEF HelperInv

LEMMA StopStep ==
  ASSUME HelperInv, NEW k \in Cleaners, Stop(k) \/ \E a \in Attempts : CleanFailedStart(k, a)
  PROVE  HelperInv'
<1>1. CASE Stop(k)
  BY <1>1, RunStep DEF Stop, kernel, HelperInv, TypeInv
<1>2. ASSUME NEW a \in Attempts, CleanFailedStart(k, a) PROVE HelperInv'
  BY <1>2, RunStep DEF CleanFailedStart, kernel, HelperInv, TypeInv
<1> QED BY <1>1, <1>2

LEMMA AuthorizeCleanupStep ==
  ASSUME HelperInv, NEW k \in Cleaners, AuthorizeCleanup(k)
  PROVE  HelperInv'
<1>1. UNCHANGED <<slot, client, helper, file, dev, routes, botched, raced>>
  BY DEF AuthorizeCleanup, kernel
<1>2. CleanerMoves(k) /\ cleaner'[k].pc \in {"locked", "failed"}
  BY CleanerGotoMoves DEF HelperInv, AuthorizeCleanup
<1>3. TypeInv' /\ AttemptsInv'
  BY <1>1, <1>2, CleanerTypes DEF HelperInv, TypeInv
<1>4. CleanerOK(k)'
  BY <1>2 DEF CleanerOK
<1>5. ~raced => HelpersInv' /\ RoutesInv' /\ CleanersInv'
  BY <1>1, <1>2, <1>4, CleanerKeeps DEF HelperInv, RoutesInv
<1> QED BY <1>1, <1>3, <1>5 DEF HelperInv

LEMMA FinishCleanupStep ==
  ASSUME HelperInv, NEW k \in Cleaners, FinishCleanup(k)
  PROVE  HelperInv'
<1>1. UNCHANGED <<helper, file, dev, routes, botched, raced>> /\ slot' \in {slot, 0}
  BY DEF FinishCleanup, kernel
<1>2. DOMAIN client' = Attempts /\ \A a \in Attempts : client'[a] = "none" => client[a] = "none"
  <2>1. client' = client \/ client' = [client EXCEPT ![cleaner[k].start] = "failed"]
    BY DEF FinishCleanup
  <2>2. CASE client' = client
    BY <2>2 DEF HelperInv, TypeInv
  <2>3. CASE client' = [client EXCEPT ![cleaner[k].start] = "failed"]
    BY <2>3 DEF HelperInv, TypeInv
  <2> QED BY <2>1, <2>2, <2>3
<1>3. CleanerMoves(k) /\ cleaner'[k].pc = "done"
  <2>1. cleaner' = [cleaner EXCEPT ![k] = [IdleCleaner EXCEPT !.pc = "done"]]
    BY DEF FinishCleanup
  <2> QED BY <2>1 DEF HelperInv, TypeInv, CleanerMoves, CleanerFields, IdleCleaner
<1>4. TypeInv' /\ AttemptsInv'
  BY <1>1, <1>2, <1>3, CleanerTypes DEF HelperInv, TypeInv
<1>5. CleanerOK(k)'
  BY <1>3 DEF CleanerOK
<1>6. ~raced => HelpersInv' /\ RoutesInv' /\ CleanersInv'
  BY <1>1, <1>3, <1>5, CleanerKeeps DEF HelperInv, RoutesInv
<1> QED BY <1>1, <1>4, <1>6 DEF HelperInv

\* Under the lock a cleaner cleans up after a dead helper or tells its own to end.
LEMMA CleanupStep ==
  ASSUME HelperInv, NEW k \in Cleaners, cleanup(k)
  PROVE  HelperInv'
<1> DEFINE a == cleaner[k].attempt
<1>1. a \in Attempts /\ a # 0 /\ helper[a].pc # "none"
  BY DEF HelperInv, AttemptsInv, TypeInv, cleanup, CleanerAt
<1>2. UNCHANGED <<slot, client, helper, dev, raced>>
  BY DEF cleanup
<1>3. ASSUME file' = file, cleaner'[k].pc \in {"failed", "signal"}, CleanerMoves(k),
             botched' \/ (botched' = botched /\ routes' = routes), botched' \in BOOLEAN
      PROVE  HelperInv'
  <2>1. TypeInv' /\ AttemptsInv'
    BY <1>2, <1>3, CleanerTypes DEF HelperInv, TypeInv
  <2>2. CleanerOK(k)'
    BY <1>3 DEF CleanerOK
  <2>3. ~raced => HelpersInv' /\ RoutesInv' /\ CleanersInv'
    BY <1>2, <1>3, <2>2, CleanerKeeps DEF HelperInv, RoutesInv
  <2> QED BY <1>2, <2>1, <2>3 DEF HelperInv
<1>4. ASSUME file' = NoFile, cleaner' = [cleaner EXCEPT ![k].pc = "ok", ![k].early = Live(a)],
             ~raced => \A b \in Attempts : ~Owner(b),
             ~raced /\ ~botched => routes' = {},
             botched' = botched
      PROVE  HelperInv'
  <2>1. /\ CleanerMoves(k) /\ cleaner'[k].pc = "ok"
        /\ cleaner'[k].attempt = a /\ cleaner'[k].early = Live(a)
    BY <1>1, <1>4 DEF HelperInv, TypeInv, CleanerMoves, CleanerFields, IdleCleaner
  <2>2. TypeInv' /\ AttemptsInv'
    BY <1>2, <1>4, <2>1, CleanerTypes DEF HelperInv, TypeInv
  <2>3. ASSUME ~raced PROVE CleanerOK(k)'
    <3>1. dev # a
      BY <1>1, <1>4, <2>3 DEF HelperInv, HelpersInv, DeviceInv
    <3>2. ~Live(a) => helper[a].pc = "exited"
      BY <1>1 DEF Live
    <3> HIDE DEF a
    <3> QED BY <1>1, <1>2, <1>4, <2>1, <3>1, <3>2, Numbers DEF CleanerOK
  <2>4. ASSUME ~raced PROVE RoutesInv' /\ (~botched' => routes' \subseteq routes)
    BY <1>4, <2>4 DEF RoutesInv
  <2>5. ~raced => HelpersInv' /\ RoutesInv' /\ CleanersInv'
    BY <1>2, <1>4, <2>1, <2>3, <2>4, CleanerKeeps
  <2> QED BY <1>2, <2>2, <2>5 DEF HelperInv
<1>5. CASE file = NoFile /\ cleanupNativeHostState({}, {}) /\ UNCHANGED file
           /\ cleaner' = [cleaner EXCEPT ![k].pc = "ok", ![k].early = Live(a)]
  <2>1. botched' = botched /\ routes' = routes
    BY <1>5 DEF cleanupNativeHostState, HelperInv, TypeInv
  <2>2. ~raced => \A b \in Attempts : ~Owner(b)
    BY <1>5, Numbers DEF HelperInv, HelpersInv, HelperOK
  <2>3. ~raced /\ ~botched => routes' = {}
    BY <1>5, <2>1, Numbers DEF HelperInv, RoutesInv
  <2> HIDE DEF a
  <2> QED BY <1>4, <1>5, <2>1, <2>2, <2>3
<1>6. CASE \E pc \in {"failed", "signal"} : CleanerGoto(k, pc) /\ UNCHANGED <<file, split, routes, botched>>
  <2>1. CleanerMoves(k) /\ cleaner'[k].pc \in {"failed", "signal"}
    BY <1>1, <1>6, CleanerGotoMoves DEF HelperInv
  <2> QED BY <1>3, <1>6, <2>1 DEF HelperInv, TypeInv
<1>7. CASE file \notin {NoFile, Torn} /\ ~Live(file.attempt)
           /\ \E kept \in Leftovers(file.excl) :
                /\ cleanupNativeHostState(file.excl, kept)
                /\ IF kept = {}
                     THEN /\ file' = NoFile
                          /\ cleaner' = [cleaner EXCEPT ![k].pc = "ok", ![k].early = Live(a)]
                     ELSE UNCHANGED file /\ CleanerGoto(k, "failed")
  <2> PICK kept \in Leftovers(file.excl) :
        /\ cleanupNativeHostState(file.excl, kept)
        /\ IF kept = {}
             THEN /\ file' = NoFile
                  /\ cleaner' = [cleaner EXCEPT ![k].pc = "ok", ![k].early = Live(a)]
             ELSE UNCHANGED file /\ CleanerGoto(k, "failed")
    BY <1>7
  <2>1. CASE kept = {}
    <3>1. botched' = botched /\ routes' = routes \ file.excl
      BY <2>1 DEF cleanupNativeHostState, HelperInv, TypeInv
    <3>2. ASSUME ~raced, NEW b \in Attempts PROVE ~Owner(b)
      <4>1. Owner(b) => file.attempt = b
        BY <3>2 DEF HelperInv, HelpersInv, HelperOK
      <4> QED BY <1>7, <4>1 DEF Live, Owner
    <3>3. ~raced /\ ~botched => routes' = {}
      BY <1>7, <3>1 DEF HelperInv, RoutesInv
    <3> HIDE DEF a
    <3> QED BY <1>4, <2>1, <3>1, <3>2, <3>3
  <2>2. CASE kept # {}
    <3>1. botched'
      BY <2>2 DEF cleanupNativeHostState
    <3>2. CleanerMoves(k) /\ cleaner'[k].pc = "failed"
      BY <1>1, <2>2, CleanerGotoMoves DEF HelperInv
    <3> QED BY <1>3, <2>2, <3>1, <3>2
  <2> QED BY <2>1, <2>2
<1> QED BY <1>5, <1>6, <1>7 DEF cleanup

\* A poll ends on what it reads.
LEMMA WaitForRemovalStep ==
  ASSUME HelperInv, NEW k \in Cleaners, waitForRemoval(k)
  PROVE  HelperInv'
<1> DEFINE a == cleaner[k].attempt
<1>1. a \in Attempts /\ a # 0 /\ helper[a].pc # "none" /\ cleaner[k].pc = "poll"
  BY DEF HelperInv, AttemptsInv, TypeInv, waitForRemoval, CleanerAt
<1>2. UNCHANGED <<slot, client, helper, file, dev, routes, botched, raced>>
  BY DEF waitForRemoval, kernel
<1>3. ASSUME CleanerMoves(k), ~raced => CleanerOK(k)' PROVE HelperInv'
  <2>1. TypeInv' /\ AttemptsInv'
    BY <1>2, <1>3, CleanerTypes DEF HelperInv, TypeInv
  <2>2. ~raced => HelpersInv' /\ RoutesInv' /\ CleanersInv'
    BY <1>2, <1>3, CleanerKeeps DEF HelperInv, RoutesInv
  <2> QED BY <1>2, <2>1, <2>2 DEF HelperInv
<1>4. CASE file.attempt # a /\ CleanerGoto(k, "ok")
  <2>1. CleanerMoves(k) /\ cleaner'[k].pc = "ok" /\ cleaner'[k].attempt = a
    BY <1>1, <1>4, CleanerGotoMoves DEF HelperInv
  <2>2. ASSUME ~raced PROVE CleanerOK(k)'
    <3>1. CleanerOK(k) /\ HelperOK(a) /\ DeviceInv
      BY <1>1, <2>2 DEF HelperInv, CleanersInv, HelpersInv
    <3>2. helper[a].pc \in {"remove", "exited"}
      BY <1>1, <1>4, <3>1 DEF CleanerOK, HelperOK, Owner
    <3>3. dev # a
      BY <1>1, <3>1, <3>2 DEF DeviceInv, Owner
    <3> HIDE DEF a
    <3> QED BY <1>2, <1>4, <2>1, <3>2, <3>3 DEF CleanerOK
  <2> QED BY <1>3, <2>1, <2>2
<1>5. CASE CleanerGoto(k, "failed")
  <2>1. CleanerMoves(k) /\ cleaner'[k].pc = "failed"
    BY <1>1, <1>5, CleanerGotoMoves DEF HelperInv
  <2> QED BY <1>3, <2>1 DEF CleanerOK
<1>6. CASE ~Live(a) /\ cleaner' = [cleaner EXCEPT ![k].pc = "reap", ![k].excl = file.excl]
  <2>1. /\ CleanerMoves(k) /\ cleaner'[k].pc = "reap"
        /\ cleaner'[k].attempt = a /\ cleaner'[k].excl = file.excl
    BY <1>1, <1>6 DEF HelperInv, TypeInv, CleanerMoves, CleanerFields, IdleCleaner
  <2>2. helper[a].pc = "exited"
    BY <1>1, <1>6 DEF Live
  <2>3. CleanerOK(k)'
    BY <1>2, <2>1, <2>2 DEF CleanerOK
  <2> QED BY <1>3, <2>1, <2>3
<1> QED BY <1>4, <1>5, <1>6 DEF waitForRemoval

\* What the poll left undone is done without the lock.
LEMMA ReapStep ==
  ASSUME HelperInv, NEW k \in Cleaners, Reap(k)
  PROVE  HelperInv'
<1> DEFINE a == cleaner[k].attempt
<1>1. a \in Attempts /\ a # 0 /\ helper[a].pc # "none" /\ cleaner[k].pc = "reap"
  BY DEF HelperInv, AttemptsInv, TypeInv, Reap, CleanerAt
<1>2. UNCHANGED <<slot, client, helper, file, dev>>
  BY DEF Reap
<1>3. PICK kept \in Leftovers(cleaner[k].excl) :
        /\ cleanupNativeHostState(cleaner[k].excl, kept)
        /\ CleanerGoto(k, IF kept = {} THEN "unlink" ELSE "failed")
  BY DEF Reap
<1>4. raced' = (raced \/ file.attempt \notin {0, a})
  BY DEF Reap
<1>5. /\ CleanerMoves(k) /\ cleaner'[k].attempt = a
      /\ cleaner'[k].pc = IF kept = {} THEN "unlink" ELSE "failed"
  BY <1>1, <1>3, CleanerGotoMoves DEF HelperInv
<1>6. /\ routes' = (routes \ cleaner[k].excl) \cup kept
      /\ botched' = (botched \/ kept # {})
  BY <1>3 DEF cleanupNativeHostState
<1>7. TypeInv' /\ AttemptsInv'
  <2>1. botched' \in BOOLEAN /\ raced' \in BOOLEAN
    BY <1>4, <1>6 DEF HelperInv, TypeInv
  <2> QED BY <1>2, <1>5, <2>1, CleanerTypes DEF HelperInv, TypeInv
<1>8. ASSUME ~raced' PROVE HelpersInv' /\ RoutesInv' /\ CleanersInv'
  <2>1. ~raced /\ file.attempt \in {0, a}
    BY <1>4, <1>8
  <2>2. CleanerOK(k) /\ RoutesInv
    BY <2>1 DEF HelperInv, CleanersInv
  <2>3. ~botched' => ~botched /\ kept = {} /\ routes' = routes \ cleaner[k].excl
    BY <1>6
  <2>4. RoutesInv'
    BY <1>2, <2>2, <2>3 DEF RoutesInv
  <2>5. CleanerOK(k)'
    <3>1. helper[a].pc = "exited" /\ (file.attempt = a => file.excl = cleaner[k].excl)
      BY <1>1, <2>2 DEF CleanerOK
    <3>2. file.attempt = a /\ ~botched' => routes' = {}
      BY <1>1, <2>2, <2>3, <3>1, Numbers DEF RoutesInv
    <3> HIDE DEF a
    <3> QED BY <1>2, <1>5, <3>1, <3>2 DEF CleanerOK
  <2> QED BY <1>2, <1>5, <2>1, <2>3, <2>4, <2>5, CleanerKeeps
<1> QED BY <1>7, <1>8 DEF HelperInv

LEMMA UnlinkStep ==
  ASSUME HelperInv, NEW k \in Cleaners, Unlink(k)
  PROVE  HelperInv'
<1> DEFINE a == cleaner[k].attempt
<1>1. a \in Attempts /\ a # 0 /\ helper[a].pc # "none" /\ cleaner[k].pc = "unlink"
  BY DEF HelperInv, AttemptsInv, TypeInv, Unlink, CleanerAt
<1>2. UNCHANGED <<slot, client, helper, dev, routes, botched>> /\ file' = NoFile
  BY DEF Unlink, kernel
<1>3. raced' = (raced \/ file.attempt \notin {0, a})
  BY DEF Unlink
<1>4. CleanerMoves(k) /\ cleaner'[k].attempt = a /\ cleaner'[k].pc \in {"failed", "ok"}
  BY <1>1, CleanerGotoMoves DEF HelperInv, Unlink
<1>5. TypeInv' /\ AttemptsInv'
  <2>1. botched' \in BOOLEAN /\ raced' \in BOOLEAN
    BY <1>2, <1>3 DEF HelperInv, TypeInv
  <2> QED BY <1>2, <1>4, <2>1, CleanerTypes DEF HelperInv, TypeInv
<1>6. ASSUME ~raced' PROVE HelpersInv' /\ RoutesInv' /\ CleanersInv'
  <2>1. ~raced /\ file.attempt \in {0, a}
    BY <1>3, <1>6
  <2>2. CleanerOK(k) /\ RoutesInv /\ HelpersInv
    BY <2>1 DEF HelperInv, CleanersInv
  <2>3. helper[a].pc = "exited" /\ (file.attempt = a /\ ~botched => routes = {})
    BY <1>1, <2>2 DEF CleanerOK
  <2>4. ASSUME NEW b \in Attempts PROVE ~Owner(b)
    <3>1. Owner(b) => file.attempt = b
      BY <2>2 DEF HelpersInv, HelperOK
    <3> QED BY <2>1, <2>3, <3>1, Numbers DEF Owner
  <2>5. ~botched => routes = {}
    <3>1. CASE file.attempt = 0
      BY <2>2, <3>1, Numbers DEF HelperInv, TypeInv, RoutesInv
    <3>2. CASE file.attempt = a
      BY <2>3, <3>2
    <3> QED BY <2>1, <3>1, <3>2
  <2>6. RoutesInv'
    BY <1>2, <2>5 DEF RoutesInv
  <2>7. CleanerOK(k)'
    <3>1. dev # a
      BY <1>1, <2>2, <2>4 DEF HelpersInv, DeviceInv
    <3> HIDE DEF a
    <3> QED BY <1>1, <1>2, <1>4, <2>3, <3>1, Numbers DEF CleanerOK
  <2> QED BY <1>2, <1>4, <2>1, <2>4, <2>6, <2>7, CleanerKeeps
<1> QED BY <1>5, <1>6 DEF HelperInv

-----------------------------------------------------------------------------
(* The theorems *)

LEMMA InitHelperInv == Init => HelperInv
<1> SUFFICES ASSUME Init PROVE HelperInv
  OBVIOUS
<1>1. \A a \in Attempts : helper[a] = IdleHelper
  BY DEF Init
<1>2. \A k \in Cleaners : cleaner[k] = IdleCleaner
  BY DEF Init
<1>3. TypeInv
  <2>1. /\ file = [attempt |-> file.attempt, excl |-> file.excl]
        /\ file.attempt = 0 /\ file = NoFile
    BY DEF Init, NoFile
  <2>2. /\ \A a \in Attempts : DOMAIN helper[a] = HelperFields
        /\ \A k \in Cleaners : DOMAIN cleaner[k] = CleanerFields
    BY <1>1, <1>2 DEF HelperFields, CleanerFields
  <2>3. /\ DOMAIN client = Attempts /\ DOMAIN helper = Attempts /\ DOMAIN cleaner = Cleaners
        /\ slot = 0 /\ dev = 0
    BY DEF Init
  <2>4. botched \in BOOLEAN /\ raced \in BOOLEAN
    BY DEF Init
  <2> QED BY <2>1, <2>2, <2>3, <2>4 DEF TypeInv
<1>4. AttemptsInv
  BY <1>1, <1>2 DEF Init, AttemptsInv, IdleHelper, IdleCleaner
<1>5. HelpersInv /\ RoutesInv
  BY <1>1, Numbers DEF Init, HelpersInv, HelperOK, DeviceInv, RoutesInv, Owner, Installed, IdleHelper
<1>6. CleanersInv
  BY <1>2 DEF CleanersInv, CleanerOK, IdleCleaner
<1> QED BY <1>3, <1>4, <1>5, <1>6 DEF HelperInv

LEMMA NextHelperInv == HelperInv /\ [Next]_vars => HelperInv'
<1> SUFFICES ASSUME HelperInv, [Next]_vars PROVE HelperInv'
  OBVIOUS
<1>1. ASSUME NEW a \in Attempts,
             \/ beginNativeAttempt(a) \/ Authorize(a) \/ HelperStep(a) \/ Kill(a)
             \/ ReceiveResponse(a) \/ ReceiveFailure(a) \/ CancelStart(a)
      PROVE  HelperInv'
  BY <1>1, BeginStep, AuthorizeStep, PrepareStep, AcquireStep, ValidateStep, InstalledStep,
     LifecycleCleanupStep, RemoveStep, KillStep, ReceiveStep, CancelStep DEF HelperStep
<1>2. ASSUME NEW k \in Cleaners,
             \/ Stop(k) \/ AuthorizeCleanup(k) \/ CleanerStep(k)
             \/ \E a \in Attempts : CleanFailedStart(k, a)
      PROVE  HelperInv'
  BY <1>2, StopStep, AuthorizeCleanupStep, CleanupStep, SignalStep, WaitForRemovalStep, ReapStep,
     UnlinkStep, FinishCleanupStep DEF CleanerStep
<1>3. CASE RestartHost
  BY <1>3, RestartStep
<1>4. CASE UNCHANGED vars
  <2>1. UNCHANGED <<slot, client, helper, cleaner, file, dev, routes, botched, raced>>
    BY <1>4 DEF vars, kernel
  <2> QED BY <2>1, ClientMoves DEF HelperInv, TypeInv
<1> QED BY <1>1, <1>2, <1>3, <1>4 DEF Next

\* The invariant holds in every reachable state.
THEOREM HelperInvHolds == Spec => []HelperInv
  BY InitHelperInv, NextHelperInv, PTL DEF Spec

\* Whatever helpers are killed, whatever hosts crash and however starts and
\* cleanups overlap, an exclusion route in the kernel is one the state file
\* or a live helper still names.
THEOREM RoutesAreAccountedHolds == Spec => []RoutesAreAccounted
<1>1. HelperInv => RoutesAreAccounted
  BY DEF HelperInv, RoutesInv, RoutesAreAccounted
<1> QED BY <1>1, HelperInvHolds, PTL

\* At most one helper is between its record and the end of its cleanup: the
\* record names it, and it names one helper.
THEOREM OneOwnerHolds == Spec => []OneOwner
<1>1. HelperInv => OneOwner
  <2> SUFFICES ASSUME HelperInv, ~raced PROVE OneOwner
    BY DEF OneOwner
  <2> DEFINE owners == {a \in Attempts : Live(a) /\ helper[a].pc \notin {"auth", "prepare", "remove"}}
  <2>1. \A a \in owners : file.attempt = a
    BY DEF HelperInv, HelpersInv, HelperOK, Owner, Live
  <2>2. owners = {} \/ owners = {file.attempt}
    BY <2>1
  <2>3. Cardinality(owners) \in {0, 1}
    <3> HIDE DEF owners
    <3> QED BY <2>2, FS_EmptySet, FS_Singleton
  <2> QED BY <2>3 DEF OneOwner
<1> QED BY <1>1, HelperInvHolds, PTL

\* A cleanup that reports success found its attempt's helper past its record
\* and its device, whichever of its ways it took.
THEOREM CleanupReleasesHolds == Spec => []CleanupReleases
<1>1. HelperInv => CleanupReleases
  BY DEF HelperInv, CleanersInv, CleanerOK, CleanupReleases, CleanerAt
<1> QED BY <1>1, HelperInvHolds, PTL

=============================================================================
