----------------------------- MODULE HostProofs -----------------------------
(***************************************************************************)
(* Proofs about the host process: what the crash helper tells, the order   *)
(* of the application's life cycle, the settings that are borrowed from    *)
(* the user, the input machines, the references to a resource and its      *)
(* parent, and what the scripted probes say of themselves; and that the    *)
(* process, which runs them side by side, keeps what each of them          *)
(* promises.                                                               *)
(***************************************************************************)
EXTENDS MCApplication, FiniteSetTheorems, SequenceTheorems, WellFoundedInduction,
        TLAPS

-----------------------------------------------------------------------------
(* The life cycle.                                                          *)
(*                                                                          *)
(* The three promises rest on the order of the hooks: nothing is deferred   *)
(* and no thread runs before the module is launched, a quit is deferred     *)
(* only without a guest, and whoever closes the window sets the flag first. *)

Early == {"environment", "refused", "logging", "dialogs", "paths", "setup", "plugin", "installs", "launch"}
Ending == {"shutdown", "shutdownJoin", "destroy", "over"}
Closing == {"join", "closing", "terminating", "left"}
UiPlaces == Early \cup Ending \cup Closing \cup {"launched", "loop", "crashed"}
Closures == {"quit", "exit", "crash", "close"}
Users == {"bind", "triggers", "cursor"}

AppTypes ==
  /\ aOptions \in Options /\ aUi \in UiPlaces /\ aDeferred \subseteq Closures
  /\ aWorker \in {"none", "runs", "captures", "asks", "ended"}
  /\ aGuest \in [state : {"none", "running", "hook", "waits", "gone"}, cause : {"none", "self", "terminated"}]

\* What the hooks have looked at.
HooksPassed ==
  /\ aUi \notin {"environment", "refused"} => aOptions.lease /\ aOptions.config # "bad"
  /\ aUi \in {"setup", "plugin", "installs", "launch", "launched"} =>
       aOptions.image # "static" /\ aOptions.probe \notin {"snapshot", "native", "lifecycle"}
  /\ aUi \in {"plugin", "installs", "launch", "launched"} =>
       /\ aOptions.probe \notin GuestFree => "gpu" \in aServices
       /\ aOptions.probe = "readback" => "driver" \in aServices

\* Who runs, and when.
ThreadsInOrder ==
  /\ aUi \in Early => aGuest.state = "none" /\ aDeferred = {} /\ "unexpected-guest-exit" \notin aPackages
  /\ aUi \in Early \cup {"launched"} => aWorker = "none" /\ aDeferred = {}
  /\ {"quit", "exit"} \cap aDeferred # {} \/ aUi \in Ending => aGuest.state \in {"none", "gone"}
  /\ aUi \in {"destroy", "over"} => aWorker \in {"none", "ended"}

ServicesGone ==
  /\ aUi \in {"shutdownJoin", "destroy", "over"} => aServices \cap Users = {}
  /\ aUi = "over" => aServices \cap {"diagnostics", "dialog"} = {}

CloseIsMarked ==
  /\ aUi \in Closing => aCloseFlag
  /\ aGuest.cause = "terminated" => aCloseFlag
  /\ aGuest.state = "hook" => aGuest.cause # "none"
  /\ "unexpected-guest-exit" \in aPackages => aGuest.cause = "self" /\ aGuest.state \in {"waits", "gone"}

LifecycleInv == AppTypes /\ HooksPassed /\ ThreadsInOrder /\ ServicesGone /\ CloseIsMarked /\ GuestIsAdmitted

LEMMA LifecycleStarts == AppInit => LifecycleInv
<1> SUFFICES ASSUME AppInit  PROVE LifecycleInv
  OBVIOUS
<1>1. AppTypes
  BY DEF AppInit, AppTypes, UiPlaces, Early
<1>2. HooksPassed /\ ServicesGone /\ CloseIsMarked /\ GuestIsAdmitted
  BY DEF AppInit, HooksPassed, ServicesGone, CloseIsMarked, GuestIsAdmitted, Closing
<1>3. ThreadsInOrder
  BY DEF AppInit, ThreadsInOrder, Ending
<1> QED BY <1>1, <1>2, <1>3 DEF LifecycleInv

\* The hooks before the launch: no thread of the title's runs yet.
LEMMA StartUpKeeps ==
  ASSUME LifecycleInv,
         SetupEnvironment \/ OnPostInitLogging \/ OnCreateDialogs \/ OnPreSetup \/ OnPostLoadGraphicsPlugin \/ OnPostSetup
  PROVE  LifecycleInv'
<1>1. /\ UNCHANGED <<aOptions, aDeferred, aWorker, aCloseFlag, aGuest, aPackages>> /\ aUi \in Early /\ aUi' \in Early
      /\ aUi' # "environment"
  BY DEF SetupEnvironment, OnPostInitLogging, OnCreateDialogs, OnPreSetup, OnPostLoadGraphicsPlugin, OnPostSetup, Same,
         Hook, Early
<1>2. AppTypes /\ HooksPassed /\ ThreadsInOrder
  BY DEF LifecycleInv
<1>3. AppTypes'
  BY <1>1, <1>2 DEF AppTypes, UiPlaces
<1>4. ThreadsInOrder'
  BY <1>1, <1>2 DEF ThreadsInOrder, Early, Ending
<1>5. ServicesGone'
  BY <1>1 DEF ServicesGone, Early
<1>6. CloseIsMarked' /\ GuestIsAdmitted'
  <2>1. aGuest'.state = "none" /\ "unexpected-guest-exit" \notin aPackages' /\ aUi' \notin Closing
    BY <1>1, <1>4 DEF ThreadsInOrder, Early, Closing
  <2> QED BY <1>1, <2>1 DEF CloseIsMarked, GuestIsAdmitted, LifecycleInv
<1>7. HooksPassed'
  <2>1. CASE SetupEnvironment
    BY <1>1, <1>2, <2>1 DEF HooksPassed, SetupEnvironment
  <2>2. CASE OnPostInitLogging \/ OnCreateDialogs
    BY <1>1, <1>2, <2>2 DEF HooksPassed, OnPostInitLogging, OnCreateDialogs, Hook
  <2>3. CASE OnPreSetup
    <3>1. PICK driver \in {{}, {"driver"}}, plugin \in {{}, {"gpu"}} :
            /\ aOptions.probe = "readback" => driver # {}
            /\ aOptions.probe \notin GuestFree => plugin # {}
            /\ aServices' = aServices \cup driver \cup plugin
      BY <2>3 DEF OnPreSetup
    <3>2. aUi = "setup" /\ aUi' = "plugin"
      BY <2>3 DEF OnPreSetup, Hook
    <3>3. /\ aOptions.probe \notin GuestFree => "gpu" \in aServices'
          /\ aOptions.probe = "readback" => "driver" \in aServices'
      BY <3>1
    <3> QED BY <1>1, <1>2, <3>2, <3>3 DEF HooksPassed
  <2>4. CASE OnPostLoadGraphicsPlugin \/ OnPostSetup
    <3>1. aServices \subseteq aServices'
      BY <2>4 DEF OnPostLoadGraphicsPlugin, OnPostSetup
    <3>2. (aUi = "plugin" /\ aUi' = "installs") \/ (aUi = "installs" /\ aUi' = "launch")
      BY <2>4 DEF OnPostLoadGraphicsPlugin, OnPostSetup, Hook
    <3> QED BY <1>1, <1>2, <3>1, <3>2 DEF HooksPassed
  <2> QED BY <2>1, <2>2, <2>3, <2>4
<1> QED BY <1>3, <1>4, <1>5, <1>6, <1>7 DEF LifecycleInv

LEMMA PathsKeeps ==
  ASSUME LifecycleInv, OnFinalizePaths
  PROVE  LifecycleInv'
<1>1. UNCHANGED <<aOptions, aServices, aWorker, aCloseFlag, aGuest>> /\ aUi = "paths"
  BY DEF OnFinalizePaths, Same
<1>2. AppTypes /\ HooksPassed /\ ThreadsInOrder /\ CloseIsMarked
  BY DEF LifecycleInv
<1>3. \/ /\ aUi' = "loop" /\ aDeferred' \in {aDeferred \cup {"quit"}, aDeferred \cup {"crash"}}
         /\ "unexpected-guest-exit" \notin aPackages'
      \/ /\ aUi' = "setup" /\ UNCHANGED <<aDeferred, aPackages>>
         /\ aOptions.image # "static" /\ aOptions.probe \notin {"snapshot", "native", "lifecycle"}
  <2>1. "unexpected-guest-exit" \notin aPackages
    BY <1>1, <1>2 DEF ThreadsInOrder, Early
  <2> QED BY <2>1 DEF OnFinalizePaths, Defer, ValidateStaticImageContract
<1>4. AppTypes'
  BY <1>1, <1>2, <1>3 DEF AppTypes, UiPlaces, Early, Closures
<1>5. HooksPassed'
  BY <1>1, <1>2, <1>3 DEF HooksPassed
<1>6. aGuest.state = "none"
  BY <1>1, <1>2 DEF ThreadsInOrder, Early
<1>7. ThreadsInOrder'
  BY <1>1, <1>2, <1>3, <1>6 DEF ThreadsInOrder, Early, Ending
<1>8. ServicesGone' /\ CloseIsMarked' /\ GuestIsAdmitted'
  BY <1>1, <1>2, <1>3, <1>6 DEF ServicesGone, CloseIsMarked, GuestIsAdmitted, ThreadsInOrder, Early, Closing
<1> QED BY <1>4, <1>5, <1>7, <1>8 DEF LifecycleInv

LEMMA LaunchKeeps ==
  ASSUME LifecycleInv, LaunchModule
  PROVE  LifecycleInv'
<1>1. UNCHANGED <<aOptions, aServices, aWorker, aCloseFlag>> /\ aUi = "launch" /\ aUi \in Early
  BY DEF LaunchModule, Same, Early
<1>2. AppTypes /\ HooksPassed /\ ThreadsInOrder /\ CloseIsMarked
  BY DEF LifecycleInv
<1>3. "unexpected-guest-exit" \notin aPackages /\ aGuest.state = "none" /\ aDeferred = {} /\ aWorker = "none"
  BY <1>1, <1>2 DEF ThreadsInOrder
<1>4. "unexpected-guest-exit" \notin aPackages'
  BY <1>3 DEF LaunchModule, WriteSyntheticCrashReport
<1>5. CASE aUi' = "loop" /\ aGuest' = aGuest /\ aDeferred' \in {aDeferred \cup {"quit"}, aDeferred \cup {"exit"}}
  <2>1. AppTypes' /\ HooksPassed'
    BY <1>1, <1>2, <1>5 DEF AppTypes, UiPlaces, HooksPassed, Closures
  <2>2. ThreadsInOrder' /\ ServicesGone'
    BY <1>1, <1>3, <1>5 DEF ThreadsInOrder, ServicesGone, Early, Ending
  <2>3. CloseIsMarked' /\ GuestIsAdmitted'
    BY <1>1, <1>2, <1>3, <1>4, <1>5 DEF CloseIsMarked, GuestIsAdmitted, Closing
  <2> QED BY <2>1, <2>2, <2>3 DEF LifecycleInv
<1>6. CASE /\ aUi' = "launched" /\ aGuest' = [aGuest EXCEPT !.state = "running"] /\ UNCHANGED aDeferred
           /\ ValidateLoadedImageContract /\ aOptions.probe \notin {"module", "crash"}
           /\ ValidateGameVfsContract /\ aOptions.probe # "vfs" /\ HooksInstall
  <2>1. aGuest'.state = "running" /\ aGuest'.cause = aGuest.cause
    BY <1>2, <1>6 DEF AppTypes
  <2>2. AppTypes' /\ HooksPassed'
    BY <1>1, <1>2, <1>6 DEF AppTypes, UiPlaces, HooksPassed
  <2>3. ThreadsInOrder' /\ ServicesGone'
    BY <1>1, <1>3, <1>6 DEF ThreadsInOrder, ServicesGone, Early, Ending
  <2>4. CloseIsMarked'
    BY <1>1, <1>2, <1>4, <1>6, <2>1 DEF CloseIsMarked, Closing
  <2>5. /\ aOptions.image = "good" /\ aOptions.probe \in {"none", "logging", "readback", "frame"}
        /\ aOptions.probe = "logging" \/ aOptions.probe \notin GuestFree
    BY <1>1, <1>2, <1>6 DEF AppTypes, HooksPassed, Options, ValidateLoadedImageContract, ValidateGameVfsContract,
                            HooksInstall, GuestFree
  <2>6. GuestIsAdmitted'
    BY <1>1, <1>2, <2>5 DEF GuestIsAdmitted, HooksPassed
  <2> QED BY <2>2, <2>3, <2>4, <2>6 DEF LifecycleInv
<1> QED BY <1>5, <1>6 DEF LaunchModule, Defer

\* The worker starts when the module has been launched.
LEMMA LaunchedKeeps ==
  ASSUME LifecycleInv, OnPostLaunchModule
  PROVE  LifecycleInv'
<1>1. /\ UNCHANGED <<aOptions, aDeferred, aCloseFlag, aGuest, aPackages>> /\ aUi = "launched" /\ aUi' = "loop"
      /\ aWorker' \in {"runs", "none"} /\ aServices \subseteq aServices'
  BY DEF OnPostLaunchModule, Hook, Same
<1>2. AppTypes /\ HooksPassed /\ ThreadsInOrder /\ CloseIsMarked /\ GuestIsAdmitted
  BY DEF LifecycleInv
<1>3. AppTypes' /\ HooksPassed' /\ GuestIsAdmitted'
  BY <1>1, <1>2 DEF AppTypes, UiPlaces, HooksPassed, GuestIsAdmitted
<1>4. ThreadsInOrder' /\ ServicesGone' /\ CloseIsMarked'
  BY <1>1, <1>2 DEF ThreadsInOrder, ServicesGone, CloseIsMarked, Early, Ending, Closing
<1> QED BY <1>3, <1>4 DEF LifecycleInv

LEMMA DeferredKeeps ==
  ASSUME LifecycleInv, RunsDeferred
  PROVE  LifecycleInv'
<1>1. UNCHANGED <<aOptions, aServices, aWorker, aStopAsked, aGuest, aPackages>> /\ aUi = "loop"
  BY DEF RunsDeferred, Same
<1>2. AppTypes /\ HooksPassed /\ ThreadsInOrder /\ CloseIsMarked /\ GuestIsAdmitted
  BY DEF LifecycleInv
<1>3. PICK closure \in aDeferred :
        /\ aDeferred' = aDeferred \ {closure}
        /\ CASE closure = "quit"  -> aUi' = "shutdown" /\ UNCHANGED aCloseFlag
             [] closure = "exit"  -> aUi' = "shutdown" /\ UNCHANGED aCloseFlag
             [] closure = "crash" -> aUi' = "crashed" /\ UNCHANGED aCloseFlag
             [] closure = "close" -> /\ aUi' = IF ProbeIsAlive(aServices) THEN "closing" ELSE "loop"
                                     /\ aCloseFlag' = IF ProbeIsAlive(aServices) THEN ClosesMarked(aCloseFlag)
                                                      ELSE aCloseFlag
  BY DEF RunsDeferred
<1>4. closure \in Closures
  BY <1>2 DEF AppTypes
<1>5. \/ closure \in {"quit", "exit"} /\ aUi' = "shutdown" /\ UNCHANGED aCloseFlag
      \/ aUi' \in {"crashed", "loop"} /\ UNCHANGED aCloseFlag
      \/ aUi' = "closing" /\ aCloseFlag'
  BY <1>3, <1>4 DEF Closures, ClosesMarked
<1>6. AppTypes' /\ HooksPassed' /\ GuestIsAdmitted'
  BY <1>1, <1>2, <1>3, <1>5 DEF AppTypes, UiPlaces, Ending, Closing, HooksPassed, GuestIsAdmitted
<1>7. ThreadsInOrder'
  BY <1>1, <1>2, <1>3, <1>5 DEF ThreadsInOrder, Early, Ending
<1>8. ServicesGone' /\ CloseIsMarked'
  BY <1>1, <1>2, <1>5 DEF ServicesGone, CloseIsMarked, Closing
<1> QED BY <1>6, <1>7, <1>8 DEF LifecycleInv

\* The window is closed, or the application shuts down.
LEMMA EndKeeps ==
  ASSUME LifecycleInv, OnWindowCloseRequested \/ JoinsWorker \/ OnClosing \/ OnShutdown
  PROVE  LifecycleInv'
<1>1. UNCHANGED <<aOptions, aDeferred, aWorker, aPackages>>
  BY DEF OnWindowCloseRequested, JoinsWorker, OnClosing, OnShutdown, Same
<1>2. AppTypes /\ HooksPassed /\ ThreadsInOrder /\ ServicesGone /\ CloseIsMarked /\ GuestIsAdmitted
  BY DEF LifecycleInv
<1>3. CASE OnWindowCloseRequested
  <2>1. aUi = "loop" /\ aUi' = "join" /\ aCloseFlag' /\ aGuest' = aGuest
        /\ aServices' = aServices \ {"lifetime", "triggers", "bind"}
    BY <1>3 DEF OnWindowCloseRequested, Hook
  <2>2. AppTypes' /\ HooksPassed' /\ GuestIsAdmitted'
    BY <1>1, <1>2, <2>1 DEF AppTypes, UiPlaces, Closing, HooksPassed, GuestIsAdmitted
  <2>3. ThreadsInOrder' /\ ServicesGone' /\ CloseIsMarked'
    BY <1>1, <1>2, <2>1 DEF ThreadsInOrder, ServicesGone, CloseIsMarked, Early, Ending
  <2> QED BY <2>2, <2>3 DEF LifecycleInv
<1>4. CASE JoinsWorker
  <2>1. /\ aWorker \in {"none", "ended"} /\ UNCHANGED <<aServices, aCloseFlag, aGuest>>
        /\ (aUi = "join" /\ aUi' = "closing") \/ (aUi = "shutdownJoin" /\ aUi' = "destroy")
    BY <1>4 DEF JoinsWorker
  <2>2. AppTypes' /\ HooksPassed' /\ GuestIsAdmitted'
    BY <1>1, <1>2, <2>1 DEF AppTypes, UiPlaces, Closing, Ending, HooksPassed, GuestIsAdmitted
  <2>3. ThreadsInOrder' /\ ServicesGone' /\ CloseIsMarked'
    BY <1>1, <1>2, <2>1 DEF ThreadsInOrder, ServicesGone, CloseIsMarked, Early, Ending, Closing
  <2> QED BY <2>2, <2>3 DEF LifecycleInv
<1>5. CASE OnClosing
  <2>1. /\ UNCHANGED <<aServices, aCloseFlag>> /\ aUi \in Closing /\ aUi' \in Closing /\ aUi \notin Ending
        /\ aUi' \notin Ending \cup Early
    BY <1>5 DEF OnClosing, Closing, Ending, Early
  <2>2. aCloseFlag
    BY <1>2, <2>1 DEF CloseIsMarked
  <2>3. \/ aGuest' = aGuest
        \/ aGuest.state = "running" /\ aGuest' = [state |-> "hook", cause |-> "terminated"]
    BY <1>5 DEF OnClosing
  <2>4. AppTypes'
    BY <1>1, <1>2, <2>1, <2>3 DEF AppTypes, UiPlaces
  <2>5. HooksPassed' /\ ServicesGone' /\ GuestIsAdmitted'
    BY <1>1, <1>2, <2>1, <2>3 DEF HooksPassed, ServicesGone, GuestIsAdmitted, Closing
  <2>6. {"quit", "exit"} \cap aDeferred = {} \/ aGuest' = aGuest
    BY <1>2, <2>3 DEF ThreadsInOrder
  <2>7. ThreadsInOrder'
    BY <1>1, <1>2, <2>1, <2>6 DEF ThreadsInOrder, Closing, Ending
  <2>8. CloseIsMarked'
    BY <1>1, <1>2, <2>1, <2>2, <2>3 DEF CloseIsMarked
  <2> QED BY <2>4, <2>5, <2>7, <2>8 DEF LifecycleInv
<1>6. CASE OnShutdown
  <2>1. /\ UNCHANGED <<aCloseFlag, aGuest>>
        /\ \/ /\ aUi = "shutdown" /\ aUi' = "shutdownJoin"
              /\ aServices' = aServices \ {"lifetime", "triggers", "bind", "cursor"}
           \/ /\ aUi = "destroy" /\ aUi' = "over" /\ aServices' = aServices \ {"diagnostics", "dialog"}
    BY <1>6 DEF OnShutdown, Hook
  <2>2. AppTypes' /\ HooksPassed' /\ GuestIsAdmitted'
    BY <1>1, <1>2, <2>1 DEF AppTypes, UiPlaces, Ending, HooksPassed, GuestIsAdmitted
  <2>3. ThreadsInOrder' /\ CloseIsMarked'
    BY <1>1, <1>2, <2>1 DEF ThreadsInOrder, CloseIsMarked, Early, Ending, Closing
  <2>4. ServicesGone'
    BY <1>2, <2>1 DEF ServicesGone, Users
  <2> QED BY <2>2, <2>3, <2>4 DEF LifecycleInv
<1> QED BY <1>3, <1>4, <1>5, <1>6

\* The probe's worker, a key and the guest.
LEMMA ThreadsKeep ==
  ASSUME LifecycleInv,
         WorkerLooks \/ WorkerAsks \/ WorkerCaptures \/ WorkerCaptured \/ WorkerEnds \/ RequestLiveSnapshot
  PROVE  LifecycleInv'
<1>1. /\ UNCHANGED <<aOptions, aUi, aServices, aCloseFlag, aGuest>>
      /\ aDeferred' \in {aDeferred, aDeferred \cup {"close"}}
      /\ aPackages' \in {aPackages, aPackages \cup {"live"}, aPackages \cup {}}
      /\ \/ aWorker' = aWorker /\ aUi = "loop" /\ aDeferred' = aDeferred
         \/ aWorker \in {"runs", "captures"} /\ aWorker' \in {"runs", "captures", "asks", "ended"} /\ aDeferred' = aDeferred
         \/ aWorker = "asks" /\ aWorker' = "ended"
  BY DEF WorkerLooks, WorkerAsks, WorkerCaptures, WorkerCaptured, WorkerEnds, RequestLiveSnapshot, Same, Defer
<1>2. AppTypes /\ HooksPassed /\ ThreadsInOrder /\ ServicesGone /\ CloseIsMarked /\ GuestIsAdmitted
  BY DEF LifecycleInv
<1>3. "unexpected-guest-exit" \in aPackages' <=> "unexpected-guest-exit" \in aPackages
  BY <1>1
<1>4. AppTypes'
  BY <1>1, <1>2 DEF AppTypes, Closures
<1>5. HooksPassed' /\ ServicesGone' /\ GuestIsAdmitted' /\ CloseIsMarked'
  BY <1>1, <1>2, <1>3 DEF HooksPassed, ServicesGone, GuestIsAdmitted, CloseIsMarked
<1>6. ThreadsInOrder'
  BY <1>1, <1>2, <1>3 DEF ThreadsInOrder, Early
<1> QED BY <1>4, <1>5, <1>6 DEF LifecycleInv

LEMMA GuestKeeps ==
  ASSUME LifecycleInv, GuestEnds \/ OnGuestThreadExit
  PROVE  LifecycleInv'
<1>1. UNCHANGED <<aOptions, aUi, aServices, aWorker, aCloseFlag>>
  BY DEF GuestEnds, OnGuestThreadExit, Same
<1>2. AppTypes /\ HooksPassed /\ ThreadsInOrder /\ ServicesGone /\ CloseIsMarked /\ GuestIsAdmitted
  BY DEF LifecycleInv
<1>3. HooksPassed' /\ ServicesGone'
  BY <1>1, <1>2 DEF HooksPassed, ServicesGone
<1>4. CASE GuestEnds
  <2>1. /\ aGuest.state = "running" /\ aGuest' = [state |-> "hook", cause |-> "self"]
        /\ UNCHANGED <<aDeferred, aPackages>>
    BY <1>4 DEF GuestEnds
  <2>2. AppTypes' /\ GuestIsAdmitted'
    BY <1>1, <1>2, <2>1 DEF AppTypes, GuestIsAdmitted
  <2>3. ThreadsInOrder' /\ CloseIsMarked'
    BY <1>1, <1>2, <2>1 DEF ThreadsInOrder, CloseIsMarked
  <2> QED BY <1>3, <2>2, <2>3 DEF LifecycleInv
<1>5. CASE OnGuestThreadExit
  <2>1. CASE /\ aGuest.state = "hook" /\ ~aCloseFlag /\ UNCHANGED aDeferred
             /\ aPackages' = aPackages \cup {"unexpected-guest-exit"} /\ aGuest' = [aGuest EXCEPT !.state = "waits"]
    <3>1. aGuest.cause = "self"
      BY <1>2, <2>1 DEF CloseIsMarked, AppTypes
    <3>2. aGuest'.state = "waits" /\ aGuest'.cause = "self"
      BY <1>2, <2>1, <3>1 DEF AppTypes
    <3>3. AppTypes' /\ GuestIsAdmitted'
      BY <1>1, <1>2, <2>1 DEF AppTypes, GuestIsAdmitted
    <3>4. ThreadsInOrder' /\ CloseIsMarked'
      BY <1>1, <1>2, <2>1, <3>2 DEF ThreadsInOrder, CloseIsMarked
    <3> QED BY <1>3, <3>3, <3>4 DEF LifecycleInv
  <2>2. CASE /\ aGuest.state \in {"hook", "waits"} /\ aGuest' = [aGuest EXCEPT !.state = "gone"]
             /\ UNCHANGED <<aDeferred, aPackages>>
    <3>1. aGuest'.state = "gone" /\ aGuest'.cause = aGuest.cause
      BY <1>2, <2>2 DEF AppTypes
    <3>2. AppTypes' /\ GuestIsAdmitted'
      BY <1>1, <1>2, <2>2 DEF AppTypes, GuestIsAdmitted
    <3>3. ThreadsInOrder' /\ CloseIsMarked'
      BY <1>1, <1>2, <2>2, <3>1 DEF ThreadsInOrder, CloseIsMarked
    <3> QED BY <1>3, <3>2, <3>3 DEF LifecycleInv
  <2>3. CASE /\ aGuest.state = "gone" /\ aUi = "loop" /\ aDeferred' = aDeferred \cup {"quit"}
             /\ UNCHANGED <<aGuest, aPackages>>
    <3>1. AppTypes' /\ GuestIsAdmitted' /\ CloseIsMarked'
      BY <1>1, <1>2, <2>3 DEF AppTypes, GuestIsAdmitted, CloseIsMarked, Closures
    <3>2. ThreadsInOrder'
      BY <1>1, <1>2, <2>3 DEF ThreadsInOrder, Early
    <3> QED BY <1>3, <3>1, <3>2 DEF LifecycleInv
  <2> QED BY <1>5, <2>1, <2>2, <2>3 DEF OnGuestThreadExit, Defer, ShouldSnapshotGuestExit
<1> QED BY <1>4, <1>5

\* A normal close asks for no package, the manager outlives what calls into it,
\* and the guest runs only in a session that all checks let through (the hooks of
\* MclaApp), for every kind of session and however closures and threads interleave.
THEOREM LifecycleIsKept == AppSpec => []LifecycleIsOrderly
<1>1. AppInit => LifecycleInv
  BY LifecycleStarts
<1>2. LifecycleInv /\ [AppNext]_appVars => LifecycleInv'
  <2> SUFFICES ASSUME LifecycleInv, AppNext \/ UNCHANGED appVars  PROVE LifecycleInv'
    OBVIOUS
  <2>1. CASE UNCHANGED appVars
    BY <2>1 DEF appVars, LifecycleInv, AppTypes, HooksPassed, ThreadsInOrder, ServicesGone, CloseIsMarked,
                GuestIsAdmitted
  <2>2. CASE UiStep
    BY <2>2, StartUpKeeps, PathsKeeps, LaunchKeeps, LaunchedKeeps, DeferredKeeps, EndKeeps DEF UiStep
  <2>3. CASE ThreadStep \/ WorkerCaptures \/ WorkerCaptured \/ WorkerEnds \/ RequestLiveSnapshot \/ GuestEnds
    BY <2>3, ThreadsKeep, GuestKeeps DEF ThreadStep
  <2> QED BY <2>1, <2>2, <2>3, EndKeeps DEF AppNext
<1>3. LifecycleInv => LifecycleIsOrderly
  <2> SUFFICES ASSUME LifecycleInv  PROVE LifecycleIsOrderly
    OBVIOUS
  <2>1. NormalCloseHasNoPackage
    BY DEF LifecycleInv, CloseIsMarked, NormalCloseHasNoPackage
  <2>2. ManagerOutlivesItsUsers
    BY DEF LifecycleInv, ThreadsInOrder, ServicesGone, ManagerOutlivesItsUsers, Ending, Users
  <2> QED BY <2>1, <2>2 DEF LifecycleIsOrderly, LifecycleInv
<1> QED BY <1>1, <1>2, <1>3, PTL DEF AppSpec

-----------------------------------------------------------------------------
(* The crash helper: live minidumps.                                        *)
(*                                                                          *)
(* That an answer is about this request rests on the numbers: a round of    *)
(* the helper whose number is the client's also read the client's path, and *)
(* the result in the mapping is of a round no older than the number last    *)
(* completed.  While no request was given up, the two run in lockstep: at   *)
(* most one of request, round and completion exists, and the client waits.  *)

LiveStages == {"sequence", "path", "dump", "write", "result", "completed", "done"}
PackageStages == {"stage", "crash", "rest", "publish", "pointer"}
Stages == LiveStages \cup PackageStages \cup {"wait", "dialog", "exited"}
Steps == {"out", "half", "path", "reset", "count", "wait"}
Paths == Nat \X Nat
Locals == [sequence : Nat, path : Paths, written : BOOLEAN]
ThisPath == <<sequence, sequence>>

LiveTypes ==
  /\ sequence \in Nat /\ completed \in Nat /\ result \in {0, 1, -1} /\ path \in Paths
  /\ client \in Steps /\ helper \in Stages /\ local \in Locals /\ gaveUp \in BOOLEAN

RoundsAreNumbered ==
  /\ completed <= local.sequence /\ local.sequence <= sequence
  /\ client = "half" => path[1] = sequence + 1
  /\ client \in {"path", "reset"} => path = <<sequence + 1, sequence + 1>>
  /\ client \in {"count", "wait"} => path = ThisPath
  /\ client \in {"count", "wait"} /\ helper # "path" /\ local.sequence = sequence => local.path = ThisPath

ResultsAreOfDumps ==
  /\ helper = "write" => ~local.written
  /\ helper = "result" /\ local.written => local.path \in ever /\ local.path \in dumped
  /\ helper \in {"completed", "done"} /\ result = 1 => local.path \in ever /\ local.path \in dumped
  /\ client \in {"count", "wait"} /\ completed = sequence /\ result = 1 => ThisPath \in ever
  /\ client = "out" /\ answer = "dumped" => ThisPath \in ever

InLockstep ==
  ~gaveUp =>
    /\ helper \in LiveStages \/ "liveRequest" \in events \/ "liveDone" \in events => client = "wait"
    /\ helper \in LiveStages => "liveRequest" \notin events /\ "liveDone" \notin events
    /\ "liveRequest" \in events => "liveDone" \notin events
    /\ helper \in LiveStages \ {"sequence"} => local.sequence = sequence
    /\ "liveDone" \in events /\ result = 1 => ThisPath \in dumped
    /\ client = "out" /\ answer = "dumped" => ThisPath \in dumped

LiveInv == LiveTypes /\ RoundsAreNumbered /\ ResultsAreOfDumps /\ InLockstep

LEMMA LiveStarts == CrashInit => LiveInv
<1> SUFFICES ASSUME CrashInit  PROVE LiveInv
  OBVIOUS
<1>1. /\ sequence = 0 /\ completed = 0 /\ result = 0 /\ path = <<0, 0>> /\ client = "out" /\ answer = "none"
      /\ helper = "wait" /\ local = NoLocal /\ events = {} /\ gaveUp = FALSE
  BY DEF CrashInit
<1>2. local \in Locals /\ local.sequence = 0 /\ path \in Paths
  BY <1>1 DEF NoLocal, Locals, Paths
<1>3. LiveTypes
  BY <1>1, <1>2 DEF LiveTypes, Steps, Stages
<1>4. RoundsAreNumbered
  BY <1>1, <1>2 DEF RoundsAreNumbered
<1>5. ResultsAreOfDumps
  BY <1>1 DEF ResultsAreOfDumps
<1>6. InLockstep
  BY <1>1 DEF InLockstep, LiveStages
<1> QED BY <1>3, <1>4, <1>5, <1>6 DEF LiveInv

\* The client prepares a request: nothing of an earlier one is left of it.
LEMMA LiveAsks ==
  ASSUME LiveInv, LivePath \/ LiveReset \/ LiveCount \/ LiveSignal
  PROVE  LiveInv'
<1>1. /\ UNCHANGED <<completed, helper, local, dumped, ever, answer, gaveUp>> /\ LiveTypes
  BY DEF LiveInv, LivePath, LiveReset, LiveCount, LiveSignal, ClientSame, helperVars
<1>2. local.sequence \in Nat /\ local.path \in Paths
  BY <1>1 DEF LiveTypes, Locals
<1>3. CASE LivePath /\ client = "out"
  <2>1. /\ client' = "half" /\ path' = <<sequence + 1, path[2]>> /\ UNCHANGED <<sequence, result, events>>
    BY <1>3 DEF LivePath
  <2>2. path' \in Paths /\ path'[1] = sequence + 1
    BY <1>1, <2>1 DEF LiveTypes, Paths
  <2> QED BY <1>1, <1>3, <2>1, <2>2 DEF LiveInv, LiveTypes, RoundsAreNumbered, ResultsAreOfDumps, InLockstep,
                                        ThisPath, Steps
<1>4. CASE LivePath /\ client # "out"
  <2>1. /\ client = "half" /\ client' = "path" /\ path' = <<path[1], sequence + 1>> /\ UNCHANGED <<sequence, result, events>>
    BY <1>4 DEF LivePath
  <2>2. path' \in Paths /\ path' = <<sequence + 1, sequence + 1>>
    BY <1>1, <2>1 DEF LiveInv, LiveTypes, RoundsAreNumbered, Paths
  <2> QED BY <1>1, <2>1, <2>2 DEF LiveInv, LiveTypes, RoundsAreNumbered, ResultsAreOfDumps, InLockstep, ThisPath, Steps
<1>5. CASE LiveReset
  <2>1. /\ client = "path" /\ client' = "reset" /\ result' = 0 /\ UNCHANGED <<sequence, path, events>>
    BY <1>5 DEF LiveReset
  <2> QED BY <1>1, <2>1 DEF LiveInv, LiveTypes, RoundsAreNumbered, ResultsAreOfDumps, InLockstep, ThisPath, Steps
<1>6. CASE LiveCount
  <2>1. /\ client = "reset" /\ client' = "count" /\ sequence' = sequence + 1 /\ UNCHANGED <<result, path, events>>
    BY <1>6 DEF LiveCount
  <2>2. LiveTypes'
    BY <1>1, <2>1 DEF LiveTypes, Steps
  <2>3. local.sequence < sequence' /\ completed < sequence'
    BY <1>1, <1>2, <2>1 DEF LiveInv, LiveTypes, RoundsAreNumbered
  <2>4. path = ThisPath'
    BY <2>1 DEF LiveInv, RoundsAreNumbered, ThisPath
  <2>5. RoundsAreNumbered'
    BY <1>1, <1>2, <2>1, <2>3, <2>4 DEF LiveInv, LiveTypes, RoundsAreNumbered
  <2>6. ResultsAreOfDumps'
    BY <1>1, <2>1, <2>3 DEF LiveInv, LiveTypes, ResultsAreOfDumps
  <2>7. InLockstep'
    BY <1>1, <2>1 DEF LiveInv, InLockstep, LiveStages
  <2> QED BY <2>2, <2>5, <2>6, <2>7 DEF LiveInv
<1>7. CASE LiveSignal
  <2>1. /\ client = "count" /\ client' = "wait" /\ events' = events \cup {"liveRequest"} /\ UNCHANGED <<sequence, result, path>>
    BY <1>7 DEF LiveSignal
  <2>2. LiveTypes' /\ RoundsAreNumbered' /\ ResultsAreOfDumps'
    BY <1>1, <2>1 DEF LiveInv, LiveTypes, RoundsAreNumbered, ResultsAreOfDumps, ThisPath, Steps
  <2>3. InLockstep'
    BY <1>1, <2>1 DEF LiveInv, InLockstep, ThisPath
  <2> QED BY <2>2, <2>3 DEF LiveInv
<1> QED BY <1>3, <1>4, <1>5, <1>6, <1>7

\* The client takes an answer, or gives up.
LEMMA LiveAnswers ==
  ASSUME LiveInv, LiveCompletion \/ LiveGivesUp
  PROVE  LiveInv'
<1>1. /\ UNCHANGED <<sequence, result, path, completed, helper, local, dumped, ever>> /\ LiveTypes /\ client = "wait"
      /\ client' \in {"wait", "out"}
  BY DEF LiveInv, LiveCompletion, LiveGivesUp, LiveReturns, ClientSame, helperVars
<1>2. RoundsAreNumbered'
  BY <1>1 DEF LiveInv, RoundsAreNumbered, ThisPath
<1>3. CASE LiveGivesUp
  <2>1. client' = "out" /\ answer' = "failed" /\ gaveUp' = TRUE
    BY <1>3 DEF LiveGivesUp, LiveReturns
  <2> QED BY <1>1, <1>2, <2>1 DEF LiveInv, LiveTypes, ResultsAreOfDumps, InLockstep, ThisPath, Steps
<1>4. CASE LiveCompletion
  <2>1. /\ events' = events \ {"liveDone"} /\ "liveDone" \in events /\ gaveUp' = gaveUp
        /\ \/ client' = client /\ answer' = answer
           \/ completed = sequence /\ client' = "out" /\ answer' = (IF result = 1 THEN "dumped" ELSE "failed")
    BY <1>4 DEF LiveCompletion, LiveReturns
  <2>2. LiveTypes'
    BY <1>1, <2>1 DEF LiveTypes, Steps
  <2>3. ThisPath' = ThisPath
    BY <1>1 DEF ThisPath
  <2>4. CASE client' = client /\ answer' = answer
    <3>1. ResultsAreOfDumps'
      BY <1>1, <2>3, <2>4 DEF LiveInv, ResultsAreOfDumps
    <3>2. InLockstep'
      BY <1>1, <2>1, <2>3, <2>4 DEF LiveInv, InLockstep
    <3> QED BY <1>2, <2>2, <3>1, <3>2 DEF LiveInv
  <2>5. CASE completed = sequence /\ client' = "out" /\ answer' = (IF result = 1 THEN "dumped" ELSE "failed")
    <3>1. answer' = "dumped" => result = 1
      BY <2>5
    <3>2. ResultsAreOfDumps'
      BY <1>1, <2>3, <2>5, <3>1 DEF LiveInv, ResultsAreOfDumps
    <3>3. InLockstep'
      BY <1>1, <2>1, <2>3, <2>5, <3>1 DEF LiveInv, InLockstep
    <3> QED BY <1>2, <2>2, <3>2, <3>3 DEF LiveInv
  <2> QED BY <2>1, <2>4, <2>5
<1> QED BY <1>3, <1>4

\* A round of the helper up to its dump.
LEMMA HelperReads ==
  ASSUME LiveInv, HelperWait \/ LiveSequence \/ LiveDumpPath
  PROVE  LiveInv'
<1>1. /\ UNCHANGED <<sequence, result, path, completed, dumped, ever, client, answer, gaveUp>> /\ LiveTypes
      /\ ThisPath' = ThisPath
  BY DEF LiveInv, HelperWait, LiveSequence, LiveDumpPath, HelperSame, titleVars, ThisPath
<1>2. local.sequence \in Nat /\ local.path \in Paths
  BY <1>1 DEF LiveTypes, Locals
<1>3. CASE HelperWait
  <2>1. /\ helper = "wait" /\ local' = local /\ events' \subseteq events
        /\ helper' \in {"stage", "exited"} \/ (helper' = "sequence" /\ "liveRequest" \in events /\ events' = events \ {"liveRequest"})
    BY <1>3 DEF HelperWait
  <2>2. LiveTypes' /\ RoundsAreNumbered' /\ ResultsAreOfDumps'
    BY <1>1, <2>1 DEF LiveInv, LiveTypes, RoundsAreNumbered, ResultsAreOfDumps, Stages, LiveStages, PackageStages
  <2>3. InLockstep'
    BY <1>1, <2>1 DEF LiveInv, InLockstep, LiveStages
  <2> QED BY <2>2, <2>3 DEF LiveInv
<1>4. CASE LiveSequence
  <2>1. helper = "sequence" /\ helper' = "path" /\ local' = [local EXCEPT !.sequence = sequence] /\ events' = events
    BY <1>4 DEF LiveSequence
  <2>2. local' \in Locals /\ local'.sequence = sequence
    BY <1>1, <2>1 DEF LiveTypes, Locals
  <2>3. LiveTypes'
    BY <1>1, <2>1, <2>2 DEF LiveTypes, Stages, LiveStages
  <2>4. completed <= sequence
    BY <1>1, <1>2 DEF LiveInv, LiveTypes, RoundsAreNumbered
  <2>5. RoundsAreNumbered' /\ ResultsAreOfDumps'
    BY <1>1, <2>1, <2>2, <2>4 DEF LiveInv, LiveTypes, RoundsAreNumbered, ResultsAreOfDumps
  <2>6. InLockstep'
    BY <1>1, <2>1, <2>2 DEF LiveInv, InLockstep, LiveStages
  <2> QED BY <2>3, <2>5, <2>6 DEF LiveInv
<1>5. CASE LiveDumpPath
  <2>1. helper = "path" /\ helper' = "dump" /\ local' = [local EXCEPT !.path = path] /\ events' = events
    BY <1>5 DEF LiveDumpPath
  <2>2. local' \in Locals /\ local'.sequence = local.sequence /\ local'.path = path
    BY <1>1, <2>1 DEF LiveTypes, Locals
  <2>3. LiveTypes'
    BY <1>1, <2>1, <2>2 DEF LiveTypes, Stages, LiveStages
  <2>4. RoundsAreNumbered' /\ ResultsAreOfDumps'
    BY <1>1, <2>1, <2>2 DEF LiveInv, RoundsAreNumbered, ResultsAreOfDumps
  <2>5. InLockstep'
    BY <1>1, <2>1, <2>2 DEF LiveInv, InLockstep, LiveStages
  <2> QED BY <2>3, <2>4, <2>5 DEF LiveInv
<1> QED BY <1>3, <1>4, <1>5

\* The dump and what is told of it.
LEMMA HelperDumps ==
  ASSUME LiveInv, DumpOpen \/ DumpWrite \/ LiveResult
  PROVE  LiveInv'
<1>1. /\ UNCHANGED <<sequence, path, completed, client, answer, gaveUp, events>> /\ LiveTypes
      /\ ThisPath' = ThisPath
  BY DEF LiveInv, DumpOpen, DumpWrite, LiveResult, HelperSame, titleVars, ThisPath
<1>2. local.sequence \in Nat /\ local.path \in Paths /\ local.written \in BOOLEAN
  BY <1>1 DEF LiveTypes, Locals
<1>3. CASE DumpOpen
  <2>1. /\ helper = "dump" /\ helper' \in {"write", "result"} /\ local' = [local EXCEPT !.written = FALSE]
        /\ result' = result /\ ever' = ever
    BY <1>3 DEF DumpOpen
  <2>2. local' \in Locals /\ local'.sequence = local.sequence /\ local'.path = local.path /\ ~local'.written
    BY <1>1, <2>1 DEF LiveTypes, Locals
  <2>3. LiveTypes' /\ RoundsAreNumbered'
    BY <1>1, <2>1, <2>2 DEF LiveInv, LiveTypes, RoundsAreNumbered, Stages, LiveStages
  <2>4. ResultsAreOfDumps'
    BY <1>1, <2>1, <2>2 DEF LiveInv, ResultsAreOfDumps
  <2>5. InLockstep'
    BY <1>1, <2>1, <2>2 DEF LiveInv, InLockstep, LiveStages
  <2> QED BY <2>3, <2>4, <2>5 DEF LiveInv
<1>4. CASE DumpWrite
  <2>1. /\ helper = "write" /\ helper' = "result" /\ result' = result
        /\ \/ local' = [local EXCEPT !.written = TRUE] /\ dumped' = dumped \cup {local.path} /\ ever' = ever \cup {local.path}
           \/ local' = local /\ dumped' = dumped /\ ever' = ever
    BY <1>4 DEF DumpWrite
  <2>2. /\ local' \in Locals /\ local'.sequence = local.sequence /\ local'.path = local.path
        /\ local'.written => local.path \in ever' /\ local.path \in dumped'
        /\ ever \subseteq ever' /\ dumped \subseteq dumped'
    <3>1. ~local.written
      BY <2>1 DEF LiveInv, ResultsAreOfDumps
    <3>2. local \in Locals
      BY <1>1 DEF LiveTypes
    <3>3. CASE local' = [local EXCEPT !.written = TRUE] /\ dumped' = dumped \cup {local.path} /\ ever' = ever \cup {local.path}
      BY <3>2, <3>3 DEF Locals
    <3> QED BY <2>1, <3>1, <3>2, <3>3
  <2>3. LiveTypes' /\ RoundsAreNumbered'
    BY <1>1, <2>1, <2>2 DEF LiveInv, LiveTypes, RoundsAreNumbered, Stages, LiveStages
  <2>4. ResultsAreOfDumps'
    BY <1>1, <2>1, <2>2 DEF LiveInv, ResultsAreOfDumps
  <2>5. InLockstep'
    BY <1>1, <2>1, <2>2 DEF LiveInv, InLockstep, LiveStages
  <2> QED BY <2>3, <2>4, <2>5 DEF LiveInv
<1>5. CASE LiveResult
  <2>1. /\ helper = "result" /\ helper' = "completed" /\ result' = (IF local.written THEN 1 ELSE -1)
        /\ UNCHANGED <<local, dumped, ever>>
    BY <1>5 DEF LiveResult
  <2>2. result' \in {0, 1, -1} /\ (result' = 1 => local.path \in ever /\ local.path \in dumped)
    BY <2>1 DEF LiveInv, ResultsAreOfDumps
  <2>3. LiveTypes'
    BY <1>1, <2>1, <2>2 DEF LiveTypes, Stages, LiveStages
  <2>4. RoundsAreNumbered'
    BY <1>1, <2>1 DEF LiveInv, RoundsAreNumbered
  <2>5. client \in {"count", "wait"} /\ completed = sequence => local.path = ThisPath
    BY <1>1, <1>2, <2>1 DEF LiveInv, LiveTypes, RoundsAreNumbered
  <2>6. ResultsAreOfDumps'
    BY <1>1, <2>1, <2>2, <2>5 DEF LiveInv, ResultsAreOfDumps
  <2>7. InLockstep'
    BY <1>1, <2>1 DEF LiveInv, InLockstep, LiveStages
  <2> QED BY <2>3, <2>4, <2>6, <2>7 DEF LiveInv
<1> QED BY <1>3, <1>4, <1>5

LEMMA HelperTells ==
  ASSUME LiveInv, LiveCompleted \/ LiveDone
  PROVE  LiveInv'
<1>1. /\ UNCHANGED <<sequence, path, result, client, answer, gaveUp, local, dumped, ever>> /\ LiveTypes
      /\ ThisPath' = ThisPath
  BY DEF LiveInv, LiveCompleted, LiveDone, HelperSame, titleVars, ThisPath
<1>2. local.sequence \in Nat /\ local.path \in Paths
  BY <1>1 DEF LiveTypes, Locals
<1>3. client \in {"count", "wait"} /\ helper # "path" /\ local.sequence = sequence => local.path = ThisPath
  BY DEF LiveInv, RoundsAreNumbered
<1>4. CASE LiveCompleted
  <2>1. helper = "completed" /\ helper' = "done" /\ completed' = local.sequence /\ events' = events
    BY <1>4 DEF LiveCompleted
  <2>2. LiveTypes' /\ RoundsAreNumbered'
    BY <1>1, <1>2, <2>1 DEF LiveInv, LiveTypes, RoundsAreNumbered, Stages, LiveStages
  <2>3. ResultsAreOfDumps'
    BY <1>1, <1>3, <2>1 DEF LiveInv, ResultsAreOfDumps
  <2>4. InLockstep'
    BY <1>1, <2>1 DEF LiveInv, InLockstep, LiveStages
  <2> QED BY <2>2, <2>3, <2>4 DEF LiveInv
<1>5. CASE LiveDone
  <2>1. helper = "done" /\ helper' = "wait" /\ completed' = completed /\ events' = events \cup {"liveDone"}
    BY <1>5 DEF LiveDone
  <2>2. LiveTypes' /\ RoundsAreNumbered'
    BY <1>1, <1>2, <2>1 DEF LiveInv, LiveTypes, RoundsAreNumbered, Stages, LiveStages
  <2>3. ResultsAreOfDumps'
    BY <1>1, <2>1 DEF LiveInv, ResultsAreOfDumps
  <2>4. ~gaveUp => client = "wait" /\ local.sequence = sequence /\ "liveRequest" \notin events
    BY <2>1 DEF LiveInv, InLockstep, LiveStages
  <2>5. ~gaveUp /\ result = 1 => ThisPath \in dumped
    BY <1>3, <2>1, <2>4 DEF LiveInv, ResultsAreOfDumps
  <2>6. InLockstep'
    BY <1>1, <2>1, <2>4, <2>5 DEF LiveInv, InLockstep, LiveStages
  <2> QED BY <2>2, <2>3, <2>6 DEF LiveInv
<1> QED BY <1>4, <1>5

\* Crashing threads, the end of the process and the crash package leave it alone.
LEMMA OthersLeaveLive ==
  ASSUME LiveInv, UNCHANGED <<sequence, path, completed, result, client, answer, gaveUp, local, dumped, ever>>,
         helper' = helper \/ (helper # "path" /\ helper' \in PackageStages \cup {"dialog", "exited"}),
         \A e \in {"liveRequest", "liveDone"} : e \in events' <=> e \in events
  PROVE  LiveInv'
<1>1. LiveTypes /\ ThisPath' = ThisPath /\ (helper' \in LiveStages => helper' = helper)
  BY DEF LiveInv, ThisPath, LiveStages, PackageStages
<1>2. LiveTypes'
  BY <1>1 DEF LiveTypes, Stages
<1>3. RoundsAreNumbered'
  BY <1>1 DEF LiveInv, RoundsAreNumbered
<1>4. ResultsAreOfDumps'
  BY <1>1 DEF LiveInv, ResultsAreOfDumps, LiveStages
<1>5. InLockstep'
  BY <1>1 DEF LiveInv, InLockstep
<1> QED BY <1>2, <1>3, <1>4, <1>5 DEF LiveInv

LEMMA LiveSteps ==
  ASSUME LiveInv, CrashNext \/ UNCHANGED crashVars
  PROVE  LiveInv'
<1>1. CASE UNCHANGED crashVars
  BY <1>1, OthersLeaveLive DEF crashVars, ipcVars, titleVars, helperVars
<1>2. ASSUME NEW t \in Threads, Crash(t)  PROVE LiveInv'
  <2>1. /\ UNCHANGED <<sequence, path, completed, result, client, answer, gaveUp, local, dumped, ever, helper>>
        /\ events' = events \/ events' = events \cup {"crashRequest"}
    BY <1>2 DEF Crash, CrashBegin, CrashThreadId, CrashSignal, CrashReleased, CrashTimeout, ThreadSame, helperVars
  <2> QED BY <2>1, OthersLeaveLive
<1>3. CASE ProcessEnds \/ StopClient
  <2>1. /\ UNCHANGED <<sequence, path, completed, result, client, answer, gaveUp, local, dumped, ever, helper>>
        /\ events' = events \/ events' = events \cup {"stop"}
    BY <1>3 DEF ProcessEnds, StopClient, ThreadSame, helperVars
  <2> QED BY <2>1, OthersLeaveLive
<1>4. CASE CrashStage \/ CrashDump \/ CrashRest \/ CrashPublish \/ CrashPointer \/ CloseDialog
  <2>1. /\ UNCHANGED <<sequence, path, completed, result, client, answer, gaveUp, local, dumped, ever>>
        /\ events' = events \/ events' = events \cup {"crashDone"}
    BY <1>4 DEF CrashStage, CrashDump, CrashRest, CrashPublish, CrashPointer, CloseDialog, CrashFails, PackageSame,
                HelperSame, titleVars
  <2>2. helper # "path"
    BY <1>4 DEF CrashStage, CrashDump, CrashRest, CrashPublish, CrashPointer, CloseDialog
  <2>3. helper' \in PackageStages \cup {"dialog", "exited"}
    BY <1>4 DEF CrashStage, CrashDump, CrashRest, CrashPublish, CrashPointer, CloseDialog, CrashFails, PackageStages
  <2> QED BY <2>1, <2>2, <2>3, OthersLeaveLive
<1> QED BY <1>1, <1>2, <1>3, <1>4, LiveAsks, LiveAnswers, HelperReads, HelperDumps, HelperTells DEF CrashNext,
                                                                                                    Client, Helper

-----------------------------------------------------------------------------
(* The crash helper: the crash package.                                     *)
(*                                                                          *)
(* The exchange of crash_started leaves one thread to fill in the exception *)
(* and the request is signaled when it is complete; from then on no thread  *)
(* writes it, and the helper looks at it only after it took the request.    *)

Filling(t) == thread[t] \in {"first", "named"}
Complete(e) == e.thread # NoThread /\ e.code = e.thread
Exceptions == [thread : Threads \cup {NoThread}, code : Threads \cup {NoThread}]
Packages == [files : SUBSET {"dump", "journal", "inventory", "readme", "manifest"},
             exception : Exceptions, published : BOOLEAN, pointer : BOOLEAN]
ThreadSteps == {"running", "first", "named", "waiting", "ending"}

ExceptionTypes ==
  /\ thread \in [Threads -> ThreadSteps] /\ exception \in Exceptions /\ package \in Packages
ExceptionIsOfOneThread ==
  /\ \A t, u \in Threads : Filling(t) /\ Filling(u) => t = u
  /\ \A t \in Threads : Filling(t) =>
       crashStarted /\ "crashRequest" \notin events /\ helper \notin PackageStages
  /\ \A t \in Threads : thread[t] = "named" => exception.thread = t
  /\ "crashRequest" \in events \/ helper \in PackageStages => crashStarted /\ Complete(exception)
PackageTellsIt ==
  helper \in {"rest", "publish", "pointer"} \/ "manifest" \in package.files => Complete(package.exception)

ExceptionInv == ExceptionTypes /\ ExceptionIsOfOneThread /\ PackageTellsIt

LEMMA ExceptionStarts == CrashInit => ExceptionInv
<1> SUFFICES ASSUME CrashInit  PROVE ExceptionInv
  OBVIOUS
<1>1. /\ events = {} /\ helper = "wait" /\ thread = [t \in Threads |-> "running"] /\ package = NoPackage
      /\ exception = [thread |-> NoThread, code |-> NoThread]
  BY DEF CrashInit
<1>2. exception \in Exceptions /\ package \in Packages /\ package.files = {}
  BY <1>1 DEF Exceptions, Packages, NoPackage
<1>3. thread \in [Threads -> ThreadSteps] /\ \A t \in Threads : thread[t] = "running"
  BY <1>1 DEF ThreadSteps
<1> QED BY <1>1, <1>2, <1>3 DEF ExceptionInv, ExceptionTypes, ExceptionIsOfOneThread, PackageTellsIt, Filling,
                                PackageStages

LEMMA ThreadGoes ==
  ASSUME thread \in [Threads -> ThreadSteps], NEW t \in Threads, NEW step \in ThreadSteps, Goes(t, step)
  PROVE  thread' \in [Threads -> ThreadSteps] /\ thread'[t] = step /\ \A u \in Threads : u # t => thread'[u] = thread[u]
BY DEF Goes

LEMMA ThreadsKeepException ==
  ASSUME ExceptionInv, NEW t \in Threads, Crash(t)
  PROVE  ExceptionInv'
<1>1. /\ ExceptionTypes /\ helper' = helper /\ package' = package
      /\ thread \in [Threads -> ThreadSteps] /\ exception \in Exceptions
  BY DEF ExceptionInv, ExceptionTypes, Crash, CrashBegin, CrashThreadId, CrashSignal, CrashReleased, CrashTimeout,
         ThreadSame, helperVars
<1>2. PackageTellsIt'
  BY <1>1 DEF ExceptionInv, PackageTellsIt, Complete
<1>3. CASE CrashBegin(t)
  <2>1. exception' = exception /\ events' = events
    BY <1>3 DEF CrashBegin
  <2>2. PICK step \in {"ending", "waiting", "first"} :
          /\ Goes(t, step) /\ (crashStarted => crashStarted')
          /\ step = "first" => ~crashStarted /\ crashStarted'
    BY <1>3 DEF CrashBegin
  <2>3. thread' \in [Threads -> ThreadSteps] /\ thread'[t] = step /\ \A u \in Threads : u # t => thread'[u] = thread[u]
    BY <1>1, <2>2, ThreadGoes DEF ThreadSteps
  <2>4. CASE step # "first"
    <3>1. \A u \in Threads : (Filling(u)' => Filling(u)) /\ (thread'[u] = "named" => thread[u] = "named")
      BY <2>3, <2>4 DEF Filling
    <3> QED BY <1>1, <1>2, <2>1, <2>2, <2>3, <3>1 DEF ExceptionInv, ExceptionTypes, ExceptionIsOfOneThread, Complete
  <2>5. CASE step = "first"
    <3>1. \A u \in Threads : ~Filling(u)
      BY <2>2, <2>5 DEF ExceptionInv, ExceptionIsOfOneThread
    <3>2. \A u \in Threads : (Filling(u)' => u = t) /\ thread'[u] # "named"
      BY <2>3, <2>5, <3>1 DEF Filling
    <3>3. "crashRequest" \notin events /\ helper \notin PackageStages
      BY <2>2, <2>5 DEF ExceptionInv, ExceptionIsOfOneThread
    <3>4. ExceptionIsOfOneThread'
      BY <1>1, <2>1, <2>2, <2>5, <3>2, <3>3 DEF ExceptionIsOfOneThread
    <3> QED BY <1>1, <1>2, <2>1, <2>3, <3>4 DEF ExceptionInv, ExceptionTypes
  <2> QED BY <2>4, <2>5
<1>4. CASE CrashThreadId(t)
  <2>1. /\ exception' = [exception EXCEPT !.thread = t] /\ events' = events /\ crashStarted' = crashStarted
        /\ thread[t] = "first" /\ Goes(t, "named")
    BY <1>4 DEF CrashThreadId
  <2>2. thread' \in [Threads -> ThreadSteps] /\ thread'[t] = "named" /\ \A u \in Threads : u # t => thread'[u] = thread[u]
    BY <1>1, <2>1, ThreadGoes DEF ThreadSteps
  <2>3. exception' \in Exceptions /\ exception'.thread = t
    BY <1>1, <2>1 DEF Exceptions
  <2>4. Filling(t) /\ \A u \in Threads : (Filling(u)' => Filling(u))
    BY <2>1, <2>2 DEF Filling
  <2>5. "crashRequest" \notin events /\ helper \notin PackageStages /\ crashStarted
    BY <2>4 DEF ExceptionInv, ExceptionIsOfOneThread
  <2>6. \A u \in Threads : thread'[u] = "named" => u = t
    BY <2>2, <2>4 DEF ExceptionInv, ExceptionIsOfOneThread, Filling
  <2>7. ExceptionIsOfOneThread'
    BY <1>1, <2>1, <2>3, <2>4, <2>5, <2>6 DEF ExceptionInv, ExceptionIsOfOneThread
  <2> QED BY <1>1, <1>2, <2>2, <2>3, <2>7 DEF ExceptionInv, ExceptionTypes
<1>5. CASE CrashSignal(t)
  <2>1. /\ exception' = [exception EXCEPT !.code = t] /\ events' = events \cup {"crashRequest"}
        /\ crashStarted' = crashStarted /\ thread[t] = "named" /\ Goes(t, "waiting")
    BY <1>5 DEF CrashSignal
  <2>2. thread' \in [Threads -> ThreadSteps] /\ thread'[t] = "waiting" /\ \A u \in Threads : u # t => thread'[u] = thread[u]
    BY <1>1, <2>1, ThreadGoes DEF ThreadSteps
  <2>3. exception.thread = t /\ Filling(t) /\ crashStarted
    BY <2>1 DEF ExceptionInv, ExceptionIsOfOneThread, Filling
  <2>4. exception' \in Exceptions /\ exception'.thread = t /\ exception'.code = t
    BY <1>1, <2>1, <2>3 DEF Exceptions
  <2>5. Complete(exception')
    BY <2>4, HelperConstants DEF Complete
  <2>6. \A u \in Threads : ~Filling(u)'
    BY <2>2, <2>3 DEF ExceptionInv, ExceptionIsOfOneThread, Filling
  <2>7. \A u \in Threads : thread'[u] # "named"
    BY <2>6 DEF Filling
  <2>8. ExceptionIsOfOneThread'
    BY <1>1, <2>1, <2>3, <2>5, <2>6, <2>7 DEF ExceptionIsOfOneThread, Complete
  <2> QED BY <1>1, <1>2, <2>2, <2>4, <2>8 DEF ExceptionInv, ExceptionTypes
<1>6. CASE CrashReleased(t) \/ CrashTimeout(t)
  <2>1. exception' = exception /\ events' = events /\ crashStarted' = crashStarted /\ Goes(t, "ending")
    BY <1>6 DEF CrashReleased, CrashTimeout
  <2>2. thread' \in [Threads -> ThreadSteps] /\ thread'[t] = "ending" /\ \A u \in Threads : u # t => thread'[u] = thread[u]
    BY <1>1, <2>1, ThreadGoes DEF ThreadSteps
  <2>3. \A u \in Threads : (Filling(u)' => Filling(u)) /\ (thread'[u] = "named" => thread[u] = "named")
    BY <2>2 DEF Filling
  <2>4. ExceptionIsOfOneThread'
    BY <1>1, <2>1, <2>3 DEF ExceptionInv, ExceptionIsOfOneThread, Complete
  <2> QED BY <1>1, <1>2, <2>1, <2>2, <2>4 DEF ExceptionInv, ExceptionTypes
<1> QED BY <1>3, <1>4, <1>5, <1>6 DEF Crash

\* Steps that touch neither the threads nor the exception.
LEMMA OthersKeepException ==
  ASSUME ExceptionInv, UNCHANGED <<thread, exception, crashStarted>>, package' \in Packages,
         "crashRequest" \in events' => "crashRequest" \in events,
         helper' \in PackageStages => helper \in PackageStages \/ "crashRequest" \in events,
         PackageTellsIt'
  PROVE  ExceptionInv'
<1>1. \A t \in Threads : Filling(t)' <=> Filling(t)
  BY DEF Filling
<1>2. ExceptionIsOfOneThread'
  BY <1>1 DEF ExceptionInv, ExceptionIsOfOneThread, Complete
<1> QED BY <1>2 DEF ExceptionInv, ExceptionTypes

LEMMA HelperKeepsException ==
  ASSUME ExceptionInv, CrashStage \/ CrashDump \/ CrashRest \/ CrashPublish \/ CrashPointer \/ CloseDialog
  PROVE  ExceptionInv'
<1>1. /\ UNCHANGED <<thread, exception, crashStarted>> /\ package \in Packages /\ exception \in Exceptions
      /\ "crashRequest" \in events' => "crashRequest" \in events
  BY DEF ExceptionInv, ExceptionTypes, CrashStage, CrashDump, CrashRest, CrashPublish, CrashPointer, CloseDialog,
         CrashFails, PackageSame, HelperSame, titleVars
<1>2. CASE CrashStage \/ CloseDialog
  <2>1. /\ package' = package /\ helper' \in {"crash", "exited"}
        /\ helper' = "crash" => helper \in PackageStages
    BY <1>2 DEF CrashStage, CloseDialog, CrashFails, PackageStages
  <2>2. PackageTellsIt'
    BY <2>1 DEF ExceptionInv, PackageTellsIt, Complete
  <2> QED BY <1>1, <2>1, <2>2, OthersKeepException DEF PackageStages
<1>3. CASE CrashDump
  <2>1. PICK files \in SUBSET {"dump"} : package' = [package EXCEPT !.files = files, !.exception = exception]
    BY <1>3 DEF CrashDump
  <2>2. package' \in Packages /\ package'.exception = exception
    BY <1>1, <2>1 DEF Packages
  <2>3. helper = "crash"
    BY <1>3 DEF CrashDump
  <2>4. Complete(exception)
    BY <2>3 DEF ExceptionInv, ExceptionIsOfOneThread, PackageStages
  <2>5. PackageTellsIt'
    BY <2>2, <2>4 DEF PackageTellsIt, Complete
  <2> QED BY <1>1, <2>2, <2>3, <2>5, OthersKeepException DEF PackageStages
<1>4. CASE CrashRest
  <2>1. /\ helper = "rest" /\ helper' \in {"exited", "publish"}
        /\ \/ package' = package
           \/ \E journal \in SUBSET {"journal"} :
                package' = [package EXCEPT !.files = @ \cup journal \cup {"inventory", "readme", "manifest"}]
    BY <1>4 DEF CrashRest, CrashFails
  <2>2. package' \in Packages /\ package'.exception = package.exception
    <3>1. CASE package' = package
      BY <1>1, <3>1
    <3>2. ASSUME NEW journal \in SUBSET {"journal"},
                 package' = [package EXCEPT !.files = package.files \cup journal \cup {"inventory", "readme", "manifest"}]
          PROVE  package' \in Packages /\ package'.exception = package.exception
      BY <1>1, <3>2 DEF Packages
    <3> QED BY <2>1, <3>1, <3>2
  <2>3. PackageTellsIt'
    BY <2>1, <2>2 DEF ExceptionInv, PackageTellsIt, Complete
  <2> QED BY <1>1, <2>1, <2>2, <2>3, OthersKeepException DEF PackageStages
<1>5. CASE CrashPublish
  <2>1. /\ helper = "publish" /\ helper' \in {"exited", "pointer"}
        /\ package' = package \/ package' = [package EXCEPT !.published = TRUE]
    BY <1>5 DEF CrashPublish, CrashFails
  <2>2. package' \in Packages /\ package'.exception = package.exception /\ package'.files = package.files
    BY <1>1, <2>1 DEF Packages
  <2>3. PackageTellsIt'
    BY <2>1, <2>2 DEF ExceptionInv, PackageTellsIt, Complete
  <2> QED BY <1>1, <2>1, <2>2, <2>3, OthersKeepException DEF PackageStages
<1>6. CASE CrashPointer
  <2>1. /\ helper = "pointer" /\ helper' \in {"exited", "dialog"}
        /\ \E written \in BOOLEAN : package' = [package EXCEPT !.pointer = written]
    BY <1>6 DEF CrashPointer
  <2>2. package' \in Packages /\ package'.exception = package.exception /\ package'.files = package.files
    BY <1>1, <2>1 DEF Packages
  <2>3. PackageTellsIt'
    BY <2>1, <2>2 DEF ExceptionInv, PackageTellsIt, Complete
  <2> QED BY <1>1, <2>1, <2>2, <2>3, OthersKeepException DEF PackageStages
<1> QED BY <1>2, <1>3, <1>4, <1>5, <1>6

LEMMA ExceptionSteps ==
  ASSUME ExceptionInv, CrashNext \/ UNCHANGED crashVars
  PROVE  ExceptionInv'
<1>1. package \in Packages
  BY DEF ExceptionInv, ExceptionTypes
<1>2. CASE UNCHANGED crashVars \/ Client \/ StopClient \/ ProcessEnds
  <2>1. /\ UNCHANGED <<thread, exception, package, helper>>
        /\ "crashRequest" \in events' => "crashRequest" \in events
    BY <1>2 DEF crashVars, ipcVars, titleVars, helperVars, Client, StopClient, ProcessEnds, LivePath, LiveReset,
                LiveCount,
                LiveSignal, LiveCompletion, LiveGivesUp, ClientSame, ThreadSame
  <2>2. crashStarted' = crashStarted
    BY <1>2 DEF crashVars, ipcVars, Client, StopClient, ProcessEnds, LivePath, LiveReset, LiveCount,
                LiveSignal, LiveCompletion, LiveGivesUp, ClientSame
  <2>3. PackageTellsIt'
    BY <2>1 DEF ExceptionInv, PackageTellsIt, Complete
  <2> QED BY <1>1, <2>1, <2>2, <2>3, OthersKeepException
<1>3. CASE HelperWait \/ LiveSequence \/ LiveDumpPath \/ DumpOpen \/ DumpWrite \/ LiveResult \/ LiveCompleted \/ LiveDone
  <2>1. /\ UNCHANGED <<thread, exception, package, crashStarted>>
        /\ "crashRequest" \in events' => "crashRequest" \in events
        /\ helper' \in PackageStages => "crashRequest" \in events
        /\ helper' \notin {"rest", "publish", "pointer"}
    BY <1>3 DEF HelperWait, LiveSequence, LiveDumpPath, DumpOpen, DumpWrite, LiveResult, LiveCompleted, LiveDone,
                HelperSame, titleVars, PackageStages
  <2>2. PackageTellsIt'
    BY <2>1 DEF ExceptionInv, PackageTellsIt, Complete
  <2> QED BY <1>1, <2>1, <2>2, OthersKeepException
<1> QED BY <1>2, <1>3, ThreadsKeepException, HelperKeepsException DEF CrashNext, Helper

-----------------------------------------------------------------------------
\* A thread goes on to end the process only after the dump, or when it need not
\* wait for it any more.
EndIsLate ==
  /\ thread \in [Threads -> ThreadSteps]
  /\ (\E t \in Threads : thread[t] = "ending") \/ ~process => late \/ "crashDone" \in events

LEMMA EndStarts == CrashInit => EndIsLate
<1> SUFFICES ASSUME CrashInit  PROVE EndIsLate
  OBVIOUS
<1>1. thread = [t \in Threads |-> "running"] /\ process = TRUE
  BY DEF CrashInit
<1> QED BY <1>1 DEF EndIsLate, ThreadSteps

LEMMA EndSteps ==
  ASSUME EndIsLate, CrashNext \/ UNCHANGED crashVars
  PROVE  EndIsLate'
<1>1. thread \in [Threads -> ThreadSteps]
  BY DEF EndIsLate
<1>2. ASSUME UNCHANGED <<thread, process, late>>, "crashDone" \in events => "crashDone" \in events'
      PROVE  EndIsLate'
  BY <1>2 DEF EndIsLate
<1>3. CASE UNCHANGED crashVars \/ Client \/ StopClient
  <2>1. UNCHANGED <<thread, process, late>>
    BY <1>3 DEF crashVars, titleVars, Client, StopClient, LivePath, LiveReset, LiveCount,
                LiveSignal, LiveCompletion, LiveGivesUp, ClientSame
  <2>2. "crashDone" \in events => "crashDone" \in events'
    BY <1>3 DEF crashVars, ipcVars, Client, StopClient, LivePath, LiveReset, LiveCount,
                LiveSignal, LiveCompletion, LiveGivesUp
  <2> QED BY <1>2, <2>1, <2>2
<1>4. CASE Helper \/ CloseDialog
  <2>1. UNCHANGED <<thread, process, late>>
    BY <1>4 DEF Helper, CloseDialog, HelperWait, LiveSequence, LiveDumpPath, DumpOpen, DumpWrite, LiveResult,
                LiveCompleted,
                LiveDone, CrashStage, CrashDump, CrashRest, CrashPublish, CrashPointer, PackageSame, HelperSame, titleVars
  <2>2. "crashDone" \in events => "crashDone" \in events'
    BY <1>4 DEF Helper, CloseDialog, HelperWait, LiveSequence, LiveDumpPath, DumpOpen, DumpWrite, LiveResult,
                LiveCompleted,
                LiveDone, CrashStage, CrashDump, CrashRest, CrashPublish, CrashPointer, CrashFails
  <2> QED BY <1>2, <2>1, <2>2
<1>5. CASE ProcessEnds
  <2>1. /\ thread' = thread /\ events' = events
        /\ ((\E t \in Threads : thread[t] = "ending") /\ late' = late) \/ late' = TRUE
    BY <1>5 DEF ProcessEnds
  <2> QED BY <1>1, <2>1 DEF EndIsLate
<1>6. ASSUME NEW t \in Threads, Crash(t)  PROVE EndIsLate'
  <2>1. PICK step \in ThreadSteps :
          /\ Goes(t, step) /\ process' = process /\ events \subseteq events'
          /\ late => late'
          /\ step = "ending" => late' \/ "crashDone" \in events
    BY <1>6 DEF Crash, CrashBegin, CrashThreadId, CrashSignal, CrashReleased, CrashTimeout, ThreadSteps
  <2>2. thread' \in [Threads -> ThreadSteps] /\ thread'[t] = step /\ \A u \in Threads : u # t => thread'[u] = thread[u]
    BY <1>1, <2>1, ThreadGoes
  <2>3. \A u \in Threads : thread'[u] = "ending" => late' \/ "crashDone" \in events'
    BY <2>1, <2>2 DEF EndIsLate
  <2>4. ~process' => late' \/ "crashDone" \in events'
    BY <2>1 DEF EndIsLate
  <2> QED BY <2>2, <2>3, <2>4 DEF EndIsLate
<1> QED BY <1>3, <1>4, <1>5, <1>6 DEF CrashNext

\* What the client is told of a dump, what the package tells of the crash, and
\* when the process ends are true for any number of requests and of threads
\* that crash, with every timing of the two processes (mcla_native_crash_win,
\* mcla_crash_handler_win).
THEOREM DumpsStayTrue == CrashSpec => []DumpsAreTrue
<1>1. LiveInv /\ ExceptionInv /\ EndIsLate /\ [CrashNext]_crashVars => (LiveInv /\ ExceptionInv /\ EndIsLate)'
  BY LiveSteps, ExceptionSteps, EndSteps
<1>2. LiveInv /\ ExceptionInv /\ EndIsLate => DumpsAreTrue
  <2> SUFFICES ASSUME LiveInv, ExceptionInv, EndIsLate  PROVE DumpsAreTrue
    OBVIOUS
  <2>1. answer = "dumped" /\ client = "out" =>
          <<sequence, sequence>> \in ever /\ (~gaveUp => <<sequence, sequence>> \in dumped)
    BY DEF LiveInv, ResultsAreOfDumps, InLockstep, ThisPath
  <2>2. "manifest" \in package.files =>
          package.exception.thread # NoThread /\ package.exception.code = package.exception.thread
    BY DEF ExceptionInv, PackageTellsIt, Complete
  <2>3. crashStarted /\ ~late => process \/ "crashDone" \in events
    BY DEF EndIsLate
  <2> QED BY <2>1, <2>2, <2>3 DEF DumpsAreTrue
<1> QED BY LiveStarts, ExceptionStarts, EndStarts, <1>1, <1>2, PTL DEF CrashSpec

-----------------------------------------------------------------------------
(* The input machines: the cursor.                                          *)
(*                                                                          *)
(* The flag that coalesces requests says whether a drain is on its way only *)
(* because there is at most one: either the pad's thread is about to post   *)
(* it or it is in the queue, and never twice.                               *)

Queued(calls, call) == \E i \in 1..Len(calls) : calls[i] = call
QueuedOnce(calls, call) == \A i, j \in 1..Len(calls) : calls[i] = call /\ calls[j] = call => i = j
DeferredCalls == {"drain", "show"}
Hides == [focused : BOOLEAN, mine : BOOLEAN, installed : BOOLEAN, queued : BOOLEAN, pending : {"none", "pad", "mouse"}]
Cursors == [visible : BOOLEAN, captured : BOOLEAN]

CursorTypes ==
  /\ hide \in Hides /\ cursor \in Cursors /\ deferred \in Seq(DeferredCalls)
  /\ padStep \in {"idle", "store", "exchange", "post"}
CursorInv ==
  /\ CursorTypes /\ CursorComesBack
  /\ QueuedOnce(deferred, "drain") /\ (padStep = "post" => ~Queued(deferred, "drain"))

LEMMA AppendedCall ==
  ASSUME NEW calls \in Seq(DeferredCalls), NEW call \in DeferredCalls
  PROVE  /\ Append(calls, call) \in Seq(DeferredCalls)
         /\ \A x \in DeferredCalls : Queued(Append(calls, call), x) <=> Queued(calls, x) \/ x = call
         /\ \A x \in DeferredCalls : QueuedOnce(calls, x) /\ (x # call \/ ~Queued(calls, x)) => QueuedOnce(Append(calls, call), x)
<1> DEFINE n == Len(calls)
           next == Append(calls, call)
<1>1. /\ n \in Nat /\ next \in Seq(DeferredCalls) /\ Len(next) = n + 1 /\ next[n + 1] = call
      /\ \A i \in 1..n : next[i] = calls[i]
  OBVIOUS
<1>2. 1..(n + 1) = 1..n \cup {n + 1}
  BY <1>1
<1> HIDE DEF next
<1>3. \A x \in DeferredCalls : Queued(next, x) <=> Queued(calls, x) \/ x = call
  BY <1>1, <1>2 DEF Queued
<1>4. ASSUME NEW x \in DeferredCalls, QueuedOnce(calls, x), x # call \/ ~Queued(calls, x)
      PROVE  QueuedOnce(next, x)
  BY <1>1, <1>2, <1>4 DEF QueuedOnce, Queued
<1> QED BY <1>1, <1>3, <1>4 DEF next

LEMMA TakenCall ==
  ASSUME NEW calls \in Seq(DeferredCalls), calls # <<>>
  PROVE  /\ Tail(calls) \in Seq(DeferredCalls) /\ Head(calls) \in DeferredCalls
         /\ \A x \in DeferredCalls : x # Head(calls) => (Queued(Tail(calls), x) <=> Queued(calls, x))
         /\ \A x \in DeferredCalls : QueuedOnce(calls, x) => QueuedOnce(Tail(calls), x)
         /\ QueuedOnce(calls, Head(calls)) => ~Queued(Tail(calls), Head(calls))
         /\ Queued(calls, Head(calls))
<1> DEFINE n == Len(calls)
           rest == Tail(calls)
<1>1. /\ n \in Nat /\ n >= 1 /\ rest \in Seq(DeferredCalls) /\ Len(rest) = n - 1 /\ Head(calls) = calls[1] /\ Head(calls) \in DeferredCalls
      /\ \A i \in 1..(n - 1) : rest[i] = calls[i + 1]
  OBVIOUS
<1>2. /\ \A i \in 1..(n - 1) : i + 1 \in 1..n /\ i + 1 # 1
      /\ \A i \in 1..n : i # 1 => i - 1 \in 1..(n - 1) /\ (i - 1) + 1 = i
      /\ 1 \in 1..n
  BY <1>1
<1> HIDE DEF rest
<1>3. ASSUME NEW x \in DeferredCalls, x # Head(calls)
      PROVE  Queued(rest, x) <=> Queued(calls, x)
  <2>1. ASSUME Queued(rest, x)  PROVE Queued(calls, x)
    BY <1>1, <1>2, <2>1 DEF Queued
  <2>2. ASSUME Queued(calls, x)  PROVE Queued(rest, x)
    <3>1. PICK i \in 1..n : calls[i] = x
      BY <2>2 DEF Queued
    <3>2. i - 1 \in 1..(n - 1) /\ (i - 1) + 1 = i
      BY <1>1, <1>2, <1>3, <3>1
    <3> QED BY <1>1, <3>1, <3>2 DEF Queued
  <2> QED BY <2>1, <2>2
<1>4. ASSUME NEW x \in DeferredCalls, QueuedOnce(calls, x)  PROVE QueuedOnce(rest, x)
  <2> SUFFICES ASSUME NEW i \in 1..(n - 1), NEW j \in 1..(n - 1), rest[i] = x, rest[j] = x  PROVE i = j
    BY <1>1 DEF QueuedOnce
  <2>1. calls[i + 1] = x /\ calls[j + 1] = x /\ i + 1 \in 1..n /\ j + 1 \in 1..n
    BY <1>1, <1>2
  <2>2. i + 1 = j + 1
    BY <1>4, <2>1 DEF QueuedOnce
  <2> QED BY <2>2
<1>5. QueuedOnce(calls, Head(calls)) => ~Queued(rest, Head(calls))
  BY <1>1, <1>2 DEF QueuedOnce, Queued
<1>6. Queued(calls, Head(calls))
  BY <1>1, <1>2 DEF Queued
<1> QED BY <1>1, <1>3, <1>4, <1>5, <1>6 DEF rest

LEMMA CursorStarts == CursorInit => CursorInv
<1> SUFFICES ASSUME CursorInit  PROVE CursorInv
  OBVIOUS
<1>1. CursorTypes /\ deferred = <<>> /\ padStep = "idle" /\ cursor.visible /\ ~hide.queued
  BY DEF CursorInit, CursorTypes, Hides, Cursors, DeferredCalls
<1>2. ~Queued(deferred, "drain") /\ ~Queued(deferred, "show") /\ QueuedOnce(deferred, "drain")
  BY <1>1 DEF Queued, QueuedOnce
<1> QED BY <1>1, <1>2 DEF CursorInv, CursorComesBack, Queued

LEMMA ShownCursor ==
  ASSUME NEW c \in Cursors
  PROVE  Shown(c) \in Cursors /\ (~Shown(c).visible => Shown(c).captured) /\ Shown(c).captured = c.captured
BY DEF Shown, Cursors

\* What is to be shown after each step, about the calls that are queued.
CursorHolds(h, calls, step, c) ==
  /\ h \in Hides /\ c \in Cursors /\ calls \in Seq(DeferredCalls) /\ step \in {"idle", "store", "exchange", "post"}
  /\ ~c.visible /\ ~c.captured => (h.mine /\ h.focused) \/ Queued(calls, "show")
  /\ h.queued <=> step = "post" \/ Queued(calls, "drain")
  /\ QueuedOnce(calls, "drain") /\ (step = "post" => ~Queued(calls, "drain"))

LEMMA CursorInvHolds == CursorInv <=> CursorHolds(hide, deferred, padStep, cursor)
BY DEF CursorInv, CursorHolds, CursorTypes, CursorComesBack, Queued

LEMMA PadKeeps ==
  ASSUME CursorHolds(hide, deferred, padStep, cursor),
         PadObserved \/ PadStores \/ PadExchanges \/ \E accepted \in BOOLEAN : PadPosts(accepted)
  PROVE  CursorHolds(hide', deferred', padStep', cursor')
<1>1. hide \in Hides /\ cursor' = cursor /\ deferred \in Seq(DeferredCalls)
  BY DEF PadObserved, PadStores, PadExchanges, PadPosts, CursorHolds
<1>2. CASE PadObserved
  BY <1>1, <1>2 DEF PadObserved, CursorHolds
<1>3. CASE PadStores
  <2>1. padStep = "store" /\ padStep' = "exchange" /\ deferred' = deferred /\ hide' = [hide EXCEPT !.pending = "pad"]
    BY <1>3 DEF PadStores
  <2>2. hide' \in Hides /\ hide'.mine = hide.mine /\ hide'.focused = hide.focused /\ hide'.queued = hide.queued
    BY <1>1, <2>1 DEF Hides
  <2> QED BY <1>1, <2>1, <2>2 DEF CursorHolds
<1>4. CASE PadExchanges
  <2>1. /\ padStep = "exchange" /\ padStep' = (IF hide.queued THEN "idle" ELSE "post") /\ deferred' = deferred
        /\ hide' = [hide EXCEPT !.queued = TRUE]
    BY <1>4 DEF PadExchanges
  <2>2. hide' \in Hides /\ hide'.mine = hide.mine /\ hide'.focused = hide.focused /\ hide'.queued
    BY <1>1, <2>1 DEF Hides
  <2> QED BY <1>1, <2>1, <2>2 DEF CursorHolds
<1>5. ASSUME NEW accepted \in BOOLEAN, PadPosts(accepted)
      PROVE  CursorHolds(hide', deferred', padStep', cursor')
  <2>1. padStep = "post" /\ padStep' = "idle" /\ ~Queued(deferred, "drain") /\ hide.queued
    BY <1>5 DEF PadPosts, CursorHolds
  <2>2. CASE accepted
    <3>1. deferred' = Append(deferred, "drain") /\ hide' = hide
      BY <1>5, <2>2 DEF PadPosts
    <3>2. /\ deferred' \in Seq(DeferredCalls) /\ Queued(deferred', "drain") /\ QueuedOnce(deferred', "drain")
          /\ Queued(deferred, "show") => Queued(deferred', "show")
      BY <1>1, <2>1, <3>1, AppendedCall DEF DeferredCalls, CursorHolds
    <3> QED BY <1>1, <2>1, <3>1, <3>2 DEF CursorHolds
  <2>3. CASE ~accepted
    <3>1. hide' = [hide EXCEPT !.queued = FALSE] /\ deferred' = deferred
      BY <1>5, <2>3 DEF PadPosts
    <3>2. hide' \in Hides /\ hide'.mine = hide.mine /\ hide'.focused = hide.focused /\ ~hide'.queued
      BY <1>1, <3>1 DEF Hides
    <3> QED BY <1>1, <2>1, <3>1, <3>2 DEF CursorHolds
  <2> QED BY <2>2, <2>3
<1> QED BY <1>2, <1>3, <1>4, <1>5

LEMMA MouseKeeps ==
  ASSUME CursorHolds(hide, deferred, padStep, cursor), MouseObserved
  PROVE  CursorHolds(hide', deferred', padStep', cursor')
<1>1. /\ hide' = [hide EXCEPT !.pending = "mouse", !.queued = TRUE] /\ UNCHANGED <<padStep, cursor>>
      /\ deferred' = (IF hide.queued THEN deferred ELSE Append(deferred, "drain"))
  BY DEF MouseObserved
<1>2. hide \in Hides /\ deferred \in Seq(DeferredCalls)
  BY DEF CursorHolds
<1>3. hide' \in Hides /\ hide'.mine = hide.mine /\ hide'.focused = hide.focused /\ hide'.queued
  BY <1>1, <1>2 DEF Hides
<1>4. CASE hide.queued
  BY <1>1, <1>3, <1>4 DEF CursorHolds
<1>5. CASE ~hide.queued
  <2>1. ~Queued(deferred, "drain") /\ padStep # "post"
    BY <1>5 DEF CursorHolds
  <2>2. /\ deferred' \in Seq(DeferredCalls) /\ Queued(deferred', "drain") /\ QueuedOnce(deferred', "drain")
        /\ Queued(deferred, "show") => Queued(deferred', "show")
    BY <1>1, <1>2, <1>5, <2>1, AppendedCall DEF DeferredCalls, CursorHolds
  <2> QED BY <1>1, <1>3, <2>1, <2>2 DEF CursorHolds
<1> QED BY <1>4, <1>5

LEMMA DrainKeeps ==
  ASSUME CursorHolds(hide, deferred, padStep, cursor), Drains
  PROVE  CursorHolds(hide', deferred', padStep', cursor')
<1> DEFINE pad == hide.installed /\ hide.pending = "pad" /\ hide.focused /\ ~hide.mine /\ ~cursor.captured /\ cursor.visible
           mouse == hide.installed /\ hide.pending = "mouse" /\ hide.mine /\ ~cursor.captured
<1>1. /\ deferred # <<>> /\ Head(deferred) = "drain" /\ deferred' = Tail(deferred) /\ padStep' = padStep
      /\ hide' = [hide EXCEPT !.queued = FALSE, !.pending = "none", !.mine = (hide.mine \/ pad) /\ ~mouse]
      /\ cursor' = IF pad THEN [cursor EXCEPT !.visible = FALSE] ELSE IF mouse THEN Shown(cursor) ELSE cursor
  BY DEF Drains
<1>2. hide \in Hides /\ deferred \in Seq(DeferredCalls) /\ cursor \in Cursors
  BY DEF CursorHolds
<1>3. /\ deferred' \in Seq(DeferredCalls) /\ ~Queued(deferred', "drain") /\ QueuedOnce(deferred', "drain")
      /\ (Queued(deferred, "show") <=> Queued(deferred', "show")) /\ Queued(deferred, "drain")
  BY <1>1, <1>2, TakenCall DEF CursorHolds, DeferredCalls
<1>4. padStep # "post"
  BY <1>3 DEF CursorHolds
<1>5. hide' \in Hides /\ ~hide'.queued /\ hide'.focused = hide.focused /\ (hide'.mine <=> (hide.mine \/ pad) /\ ~mouse)
  BY <1>1, <1>2 DEF Hides
<1>6. CASE pad
  <2>1. cursor' \in Cursors
    BY <1>1, <1>2, <1>6 DEF Cursors
  <2>2. hide'.mine /\ hide'.focused
    BY <1>5, <1>6
  <2> QED BY <1>1, <1>3, <1>4, <1>5, <2>1, <2>2 DEF CursorHolds
<1>7. CASE ~pad /\ mouse
  <2>1. cursor' = Shown(cursor)
    BY <1>1, <1>7
  <2>2. cursor' \in Cursors /\ (~cursor'.visible => cursor'.captured)
    BY <1>2, <2>1, ShownCursor
  <2> QED BY <1>1, <1>3, <1>4, <1>5, <2>2 DEF CursorHolds
<1>8. CASE ~pad /\ ~mouse
  BY <1>1, <1>3, <1>4, <1>5, <1>8 DEF CursorHolds
<1> QED BY <1>6, <1>7, <1>8

LEMMA ShowKeeps ==
  ASSUME CursorHolds(hide, deferred, padStep, cursor), DeferredShows \/ FocusChanged \/ CursorStops
  PROVE  CursorHolds(hide', deferred', padStep', cursor')
<1>1. hide \in Hides /\ deferred \in Seq(DeferredCalls) /\ cursor \in Cursors /\ padStep' = padStep
  BY DEF CursorHolds, DeferredShows, FocusChanged, CursorStops
<1>2. Shown(cursor) \in Cursors /\ (~Shown(cursor).visible => Shown(cursor).captured)
  BY <1>1, ShownCursor
<1>3. CASE DeferredShows
  <2>1. deferred # <<>> /\ Head(deferred) = "show" /\ deferred' = Tail(deferred) /\ cursor' = Shown(cursor) /\ hide' = hide
    BY <1>3 DEF DeferredShows
  <2>2. /\ deferred' \in Seq(DeferredCalls) /\ (Queued(deferred, "drain") <=> Queued(deferred', "drain"))
        /\ QueuedOnce(deferred', "drain")
    BY <1>1, <2>1, TakenCall DEF DeferredCalls, CursorHolds
  <2> QED BY <1>1, <1>2, <2>1, <2>2 DEF CursorHolds
<1>4. CASE FocusChanged
  <2>1. /\ hide' = [hide EXCEPT !.focused = ~@, !.mine = FALSE] /\ cursor' = cursor
        /\ deferred' = (IF hide.mine THEN Append(deferred, "show") ELSE deferred)
    BY <1>4 DEF FocusChanged, QueuesShow
  <2>2. hide' \in Hides /\ hide'.queued = hide.queued
    BY <1>1, <2>1 DEF Hides
  <2>3. CASE hide.mine
    <3>1. /\ deferred' \in Seq(DeferredCalls) /\ (Queued(deferred, "drain") <=> Queued(deferred', "drain"))
          /\ QueuedOnce(deferred', "drain") /\ Queued(deferred', "show")
      BY <1>1, <2>1, <2>3, AppendedCall DEF DeferredCalls, CursorHolds
    <3> QED BY <1>1, <2>1, <2>2, <3>1 DEF CursorHolds
  <2>4. CASE ~hide.mine
    BY <1>1, <2>1, <2>2, <2>4 DEF CursorHolds
  <2> QED BY <2>3, <2>4
<1>5. CASE CursorStops
  <2>1. /\ hide' = [hide EXCEPT !.installed = FALSE, !.focused = FALSE, !.mine = FALSE] /\ deferred' = deferred
        /\ cursor' = (IF hide.mine THEN Shown(cursor) ELSE cursor)
    BY <1>5 DEF CursorStops
  <2>2. hide' \in Hides /\ hide'.queued = hide.queued
    BY <1>1, <2>1 DEF Hides
  <2>3. CASE hide.mine
    BY <1>1, <1>2, <2>1, <2>2, <2>3 DEF CursorHolds
  <2>4. CASE ~hide.mine
    BY <1>1, <2>1, <2>2, <2>4 DEF CursorHolds
  <2> QED BY <2>3, <2>4
<1> QED BY <1>3, <1>4, <1>5

LEMMA CursorSteps ==
  ASSUME CursorInv, CursorNext \/ UNCHANGED cursorVars
  PROVE  CursorInv'
<1>1. CursorHolds(hide, deferred, padStep, cursor)
  BY CursorInvHolds
<1>2. CursorHolds(hide', deferred', padStep', cursor')
  <2>1. CASE UNCHANGED cursorVars
    BY <1>1, <2>1 DEF cursorVars
  <2>2. CASE OwnerCaptures
    <3>1. UNCHANGED <<hide, deferred, padStep>> /\ cursor' = [visible |-> FALSE, captured |-> TRUE]
      BY <2>2 DEF OwnerCaptures
    <3>2. cursor' \in Cursors /\ cursor'.captured
      BY <3>1 DEF Cursors
    <3> QED BY <1>1, <3>1, <3>2 DEF CursorHolds
  <2>3. CASE OwnerReleases
    <3>1. UNCHANGED <<hide, deferred, padStep>> /\ cursor' = [visible |-> TRUE, captured |-> FALSE]
      BY <2>3 DEF OwnerReleases
    <3>2. cursor' \in Cursors /\ cursor'.visible
      BY <3>1 DEF Cursors
    <3> QED BY <1>1, <3>1, <3>2 DEF CursorHolds
  <2> QED BY <1>1, <2>1, <2>2, <2>3, PadKeeps, MouseKeeps, DrainKeeps, ShowKeeps DEF CursorNext
<1> QED BY <1>2 DEF CursorInv, CursorHolds, CursorTypes, CursorComesBack, Queued

-----------------------------------------------------------------------------
(* The input machines: the START latch.                                     *)
(*                                                                          *)
(* What the latch says of itself at the end rests on what it has recorded   *)
(* at each stage: the release it is waiting out was armed in the past and   *)
(* was read down before its deadline.                                       *)

LatchStates == {"Idle", "HoldingStart", "WaitingNeutralAck", "Succeeded", "Failed"}
Latches == [status : LatchStates, last : Int, published : Int, released : Int, downAck : Int, neutralAck : Int]

LatchHolds(l) ==
  /\ l \in Latches
  /\ l.status = "Idle" => l.published = Unset /\ l.released = Unset /\ l.downAck = Unset
  /\ l.status = "HoldingStart" =>
       /\ 0 <= l.published /\ l.published <= l.last /\ l.released = Unset
       /\ l.downAck = Unset \/ (l.published <= l.downAck /\ l.downAck < l.published + HoldTime)
  /\ l.status = "WaitingNeutralAck" =>
       /\ 0 <= l.published /\ l.published <= l.downAck /\ l.downAck < l.published + HoldTime
       /\ l.published + HoldTime <= l.released /\ l.released <= l.last
  /\ l.status = "Succeeded" =>
       /\ 0 <= l.published /\ l.published <= l.downAck /\ l.downAck < l.published + HoldTime
       /\ l.published + HoldTime <= l.neutralAck /\ l.neutralAck < l.published + 2 * HoldTime
       /\ l.released # Unset
  /\ l.status = "Failed" /\ l.published # Unset => l.released # Unset

ButtonHolds(b, l) == b => l.status = "HoldingStart" /\ l.released = Unset /\ l.last < l.published + HoldTime
LatchInv == LatchHolds(latch) /\ ButtonHolds(button, latch)

LEMMA FailedHolds ==
  ASSUME NEW l, NEW now \in Int, LatchHolds(l), l.status = "HoldingStart" => now >= 0
  PROVE  LatchHolds(Failed(l, now))
<1> DEFINE f == Failed(l, now)
           r == IF l.status = "HoldingStart" /\ l.released = Unset THEN now ELSE l.released
<1>1. l \in Latches /\ r \in Int
  BY DEF LatchHolds, Latches
<1>2. f = [l EXCEPT !.status = "Failed", !.released = r]
  BY DEF Failed
<1>3. f \in Latches /\ f.status = "Failed" /\ f.released = r /\ f.published = l.published
  BY <1>1, <1>2 DEF Latches, LatchStates
<1>4. l.status \in LatchStates /\ l.published \in Int /\ l.released \in Int /\ l.last \in Int
  BY <1>1 DEF Latches
<1>5. l.published # Unset => r # Unset
  <2>1. CASE l.status = "HoldingStart"
    BY <2>1 DEF LatchHolds, Unset
  <2>2. CASE l.status = "Idle"
    BY <2>2 DEF LatchHolds
  <2>3. CASE l.status = "WaitingNeutralAck"
    BY <2>3, <1>4, InputConstants DEF LatchHolds, Unset
  <2>4. CASE l.status = "Succeeded"
    BY <2>4 DEF LatchHolds
  <2>5. CASE l.status = "Failed"
    BY <2>5 DEF LatchHolds
  <2> QED BY <1>4, <2>1, <2>2, <2>3, <2>4, <2>5 DEF LatchStates
<1> HIDE DEF f, r
<1>6. LatchHolds(f)
  BY <1>3, <1>5 DEF LatchHolds
<1> QED BY <1>6 DEF f

LEMMA ObservedHolds ==
  ASSUME NEW now \in Int, LatchHolds(latch), now >= latch.last
  PROVE  LatchHolds(Observed(now)) /\ Observed(now) = [latch EXCEPT !.last = now]
<1> DEFINE o == Observed(now)
<1>1. latch \in Latches
  BY DEF LatchHolds
<1>2. /\ o = [latch EXCEPT !.last = now] /\ o \in Latches /\ o.last = now /\ o.status = latch.status
      /\ o.published = latch.published /\ o.released = latch.released /\ o.downAck = latch.downAck
      /\ o.neutralAck = latch.neutralAck
  BY <1>1 DEF Observed, Latches
<1>3. latch.published \in Int /\ latch.released \in Int /\ latch.last \in Int
  BY <1>1 DEF Latches
<1> HIDE DEF o
<1>4. LatchHolds(o)
  <2>1. o.status = "HoldingStart" => o.published <= o.last
    BY <1>2, <1>3 DEF LatchHolds
  <2>2. o.status = "WaitingNeutralAck" => o.released <= o.last
    BY <1>2, <1>3 DEF LatchHolds
  <2> QED BY <1>2, <2>1, <2>2 DEF LatchHolds
<1> QED BY <1>2, <1>4 DEF o

\* Advance leaves the latch as it was before its deadlines, and sound after.
LEMMA AdvancedHolds ==
  ASSUME NEW l, NEW now \in Int, LatchHolds(l), l.last = now, now >= 0, l.published = latch.published
  PROVE  /\ LatchHolds(Advanced(l, now))
         /\ Advanced(l, now).published = l.published /\ Advanced(l, now).last = now
         /\ Advanced(l, now).status = "HoldingStart" => now < l.published + HoldTime
         /\ Advanced(l, now).status = "WaitingNeutralAck" => now < l.published + 2 * HoldTime
<1> DEFINE a == Advanced(l, now)
           due == l.status = "HoldingStart" /\ now >= l.published + HoldTime
           overdue == now >= l.published + 2 * HoldTime
           w == [l EXCEPT !.released = now, !.status = "WaitingNeutralAck"]
           g == [l EXCEPT !.released = now]
<1>1. /\ l \in Latches /\ l.published \in Int /\ l.released \in Int /\ l.downAck \in Int
      /\ l.status \in LatchStates
  BY DEF LatchHolds, Latches
<1>2. CASE ~due /\ ~(l.status = "WaitingNeutralAck" /\ overdue)
  <2>1. a = l
    BY <1>2 DEF Advanced, ReleaseDeadline, NeutralDeadline
  <2> QED BY <1>1, <1>2, <2>1, InputConstants
<1>3. CASE ~due /\ l.status = "WaitingNeutralAck" /\ overdue
  <2>1. a = Failed(l, now)
    BY <1>3 DEF Advanced, ReleaseDeadline, NeutralDeadline
  <2>2. LatchHolds(a)
    BY <2>1, FailedHolds
  <2>3. a.published = l.published /\ a.last = l.last /\ a.status = "Failed"
    BY <1>1, <2>1 DEF Failed, Latches
  <2> QED BY <2>2, <2>3
<1>4. CASE due /\ l.downAck = Unset
  <2>1. /\ g \in Latches /\ g.status = l.status /\ g.released = now /\ g.published = l.published
        /\ g.last = now /\ now # Unset
    BY <1>1, <1>4 DEF Latches, Unset
  <2>2. /\ Failed(g, now) = [g EXCEPT !.status = "Failed"]
        /\ Failed(g, now).status = "Failed"
    <3>1. Failed(g, now) = [g EXCEPT !.status = "Failed", !.released = g.released]
      BY <2>1 DEF Failed
    <3> HIDE DEF g
    <3> QED BY <2>1, <3>1 DEF Latches
  <2>3. a = Failed(g, now)
    BY <1>4, <2>2 DEF Advanced, ReleaseDeadline, NeutralDeadline
  <2> HIDE DEF g, a
  <2>4. a \in Latches /\ a.status = "Failed" /\ a.released = now /\ a.published = l.published /\ a.last = now
    BY <2>1, <2>2, <2>3 DEF Latches, LatchStates
  <2>5. LatchHolds(a)
    BY <2>1, <2>4 DEF LatchHolds
  <2> QED BY <2>4, <2>5 DEF a
<1>5. CASE due /\ l.downAck # Unset
  <2>1. /\ w \in Latches /\ w.status = "WaitingNeutralAck" /\ w.released = now /\ w.published = l.published
        /\ w.last = now /\ w.downAck = l.downAck
    BY <1>1, <1>5 DEF Latches, LatchStates
  <2>2. /\ 0 <= l.published /\ l.published <= l.downAck /\ l.downAck < l.published + HoldTime
        /\ l.published + HoldTime <= now
    BY <1>5 DEF LatchHolds
  <2>3. a = IF overdue THEN Failed(w, now) ELSE w
    BY <1>5, <2>1 DEF Advanced, ReleaseDeadline, NeutralDeadline
  <2> HIDE DEF w, a
  <2>4. LatchHolds(w)
    BY <2>1, <2>2, <1>1 DEF LatchHolds
  <2>5. CASE overdue
    <3>1. LatchHolds(a)
      BY <2>1, <2>3, <2>4, <2>5, FailedHolds
    <3>2. a.published = l.published /\ a.last = now /\ a.status = "Failed"
      BY <2>1, <2>3, <2>5 DEF Failed, Latches
    <3> QED BY <3>1, <3>2 DEF a
  <2>6. CASE ~overdue
    BY <1>1, <2>1, <2>3, <2>4, <2>6, InputConstants DEF a
  <2> QED BY <2>5, <2>6
<1> QED BY <1>2, <1>3, <1>4, <1>5

LEMMA LatchStarts == LatchInit => LatchInv
<1> SUFFICES ASSUME LatchInit  PROVE LatchInv
  OBVIOUS
<1>1. /\ latch \in Latches /\ latch.status = "Idle" /\ button = FALSE
      /\ latch.published = Unset /\ latch.released = Unset /\ latch.downAck = Unset
  BY DEF LatchInit, Latches, LatchStates, Unset
<1> QED BY <1>1 DEF LatchInv, LatchHolds, ButtonHolds

LEMMA LatchSteps ==
  ASSUME LatchInv, LatchNext \/ UNCHANGED latchVars
  PROVE  LatchInv'
<1>1. LatchHolds(latch) /\ latch \in Latches /\ latch.last \in Int
  BY DEF LatchInv, LatchHolds, Latches
<1>2. CASE UNCHANGED latchVars
  BY <1>2 DEF latchVars, LatchInv, LatchHolds, ButtonHolds
<1>3. ASSUME NEW now \in 0..MaxClock, Arm(now) \/ Read(now) \/ Poll(now) \/ GivesUp(now)
      PROVE  LatchHolds(latch') /\ ButtonHolds(button', latch')
  <2> DEFINE o == Observed(now)
             a == Advanced(o, now)
  <2>1. now \in Int /\ now >= 0
    BY InputConstants
  <2>2. CASE RolledBack(now)
    <3>1. latch' = Failed(latch, latch.last) /\ button' = FALSE
      BY <1>3, <2>2 DEF Arm, Read, Poll, GivesUp
    <3>2. latch.status = "HoldingStart" => latch.last >= 0
      <4>1. latch.published \in Int
        BY <1>1 DEF Latches
      <4> QED BY <1>1, <4>1 DEF LatchHolds
    <3> QED BY <1>1, <3>1, <3>2, FailedHolds DEF ButtonHolds
  <2>3. CASE ~RolledBack(now)
    <3>1. now >= latch.last
      BY <1>1, <2>1, <2>3 DEF RolledBack
    <3>2. LatchHolds(o) /\ o = [latch EXCEPT !.last = now]
      BY <1>1, <2>1, <3>1, ObservedHolds
    <3>3. o \in Latches /\ o.last = now /\ o.published = latch.published /\ o.status = latch.status
      BY <1>1, <2>1, <3>2 DEF Latches
    <3> HIDE DEF o
    <3>4. /\ LatchHolds(a) /\ a.published = o.published /\ a.last = now
          /\ a.status = "HoldingStart" => now < o.published + HoldTime
          /\ a.status = "WaitingNeutralAck" => now < o.published + 2 * HoldTime
      BY <2>1, <3>2, <3>3, AdvancedHolds
    <3>5. a \in Latches
      BY <3>4 DEF LatchHolds
    <3>6. CASE Arm(now)
      <4>1. CASE latch.status # "Idle"
        <5>1. latch' = Failed(o, now) /\ button' = FALSE
          BY <2>3, <3>6, <4>1 DEF Arm, o
        <5> QED BY <2>1, <3>2, <5>1, FailedHolds DEF ButtonHolds
      <4>2. CASE latch.status = "Idle"
        <5>1. latch' = [o EXCEPT !.published = now, !.status = "HoldingStart"] /\ button' = FALSE
          BY <2>3, <3>6, <4>2 DEF Arm, o
        <5>2. /\ latch' \in Latches /\ latch'.status = "HoldingStart" /\ latch'.published = now
              /\ latch'.last = now /\ latch'.released = o.released /\ latch'.downAck = o.downAck
          BY <2>1, <3>3, <5>1 DEF Latches, LatchStates
        <5>3. o.released = Unset /\ o.downAck = Unset
          BY <3>2, <3>3, <4>2 DEF LatchHolds
        <5> QED BY <2>1, <5>1, <5>2, <5>3 DEF LatchHolds, ButtonHolds
      <4> QED BY <4>1, <4>2
    <3>7. CASE Read(now)
      <4> HIDE DEF a
      <4>1. CASE a.status = "HoldingStart"
        <5> DEFINE d == IF a.downAck = Unset THEN now ELSE a.downAck
        <5>1. latch' = [a EXCEPT !.downAck = d] /\ button' = TRUE
          BY <2>3, <3>7, <4>1 DEF Read, o, a
        <5>2. d \in Int /\ a.downAck \in Int /\ a.published \in Int /\ a.last \in Int
          BY <2>1, <3>5 DEF Latches
        <5>3. a.published <= d /\ d < a.published + HoldTime
          BY <2>1, <3>3, <3>4, <4>1, <5>2 DEF LatchHolds
        <5> HIDE DEF d
        <5>4. /\ latch' \in Latches /\ latch'.status = "HoldingStart" /\ latch'.published = a.published
              /\ latch'.last = a.last /\ latch'.released = a.released /\ latch'.downAck = d
          BY <3>5, <4>1, <5>1, <5>2 DEF Latches
        <5>5. LatchHolds(latch')
          BY <3>4, <4>1, <5>3, <5>4 DEF LatchHolds
        <5>6. a.released = Unset
          BY <3>4, <4>1 DEF LatchHolds
        <5> QED BY <3>4, <4>1, <5>4, <5>5, <5>6 DEF ButtonHolds
      <4>2. CASE a.status = "WaitingNeutralAck"
        <5>1. latch' = [a EXCEPT !.neutralAck = now, !.status = "Succeeded"] /\ button' = FALSE
          BY <2>3, <3>7, <4>2 DEF Read, o, a
        <5>2. /\ latch' \in Latches /\ latch'.status = "Succeeded" /\ latch'.published = a.published
              /\ latch'.released = a.released /\ latch'.downAck = a.downAck /\ latch'.neutralAck = now
          BY <2>1, <3>5, <5>1 DEF Latches, LatchStates
        <5>3. a.published \in Int /\ a.downAck \in Int /\ a.released \in Int
          BY <3>5 DEF Latches
        <5>4. /\ 0 <= a.published /\ a.published <= a.downAck /\ a.downAck < a.published + HoldTime
              /\ a.published + HoldTime <= a.released /\ a.released <= now
          BY <3>4, <4>2 DEF LatchHolds
        <5>5. a.released # Unset /\ a.published + HoldTime <= now /\ now < a.published + 2 * HoldTime
          BY <2>1, <3>4, <4>2, <5>3, <5>4, InputConstants DEF Unset
        <5> QED BY <5>1, <5>2, <5>4, <5>5 DEF LatchHolds, ButtonHolds
      <4>3. CASE a.status # "HoldingStart" /\ a.status # "WaitingNeutralAck"
        <5>1. latch' = a /\ button' = FALSE
          BY <2>3, <3>7, <4>3 DEF Read, o, a
        <5> QED BY <3>4, <5>1 DEF ButtonHolds
      <4> QED BY <4>1, <4>2, <4>3
    <3>8. CASE Poll(now)
      <4>1. latch' = a /\ button' = FALSE
        BY <2>3, <3>8 DEF Poll, o
      <4> QED BY <3>4, <4>1 DEF ButtonHolds
    <3>9. CASE GivesUp(now)
      <4>1. latch' = Failed(o, now) /\ button' = FALSE
        BY <2>3, <3>9 DEF GivesUp, o
      <4> QED BY <2>1, <3>2, <4>1, FailedHolds DEF ButtonHolds
    <3> QED BY <1>3, <3>6, <3>7, <3>8, <3>9
  <2> QED BY <2>2, <2>3
<1> QED BY <1>2, <1>3 DEF LatchNext, LatchInv, LatchHolds, ButtonHolds

LEMMA LatchInvMeans == LatchInv => StartIsBounded
BY DEF LatchInv, LatchHolds, ButtonHolds, StartIsBounded, ReleaseDeadline, NeutralDeadline

-----------------------------------------------------------------------------
(* The input machines: the owner gate.                                      *)
(*                                                                          *)
(* Each reading of the clock is at least the one before it, so the evidence *)
(* is in order up to the last reading; the announcement is signalled before *)
(* the gate looks for the owner's answer.                                   *)

GateStages == {"opened", "before", "after", "ready", "polled", "done", "failed"}
Gates == [at : GateStages, previous : Int, opened : Int, waitingBefore : Int, waitingAfter : Int,
          readyBefore : Int, readyAfter : Int, announced : BOOLEAN, seen : BOOLEAN]

GateHolds(g, given) ==
  /\ g \in Gates /\ 0 <= g.previous
  /\ g.announced => "waiting" \in given
  /\ g.at \in {"after", "ready", "polled", "done"} => g.announced
  /\ g.at \in {"before", "after", "ready", "polled", "done"} => 0 <= g.opened /\ g.opened <= g.previous
  /\ g.at \in {"after", "ready", "polled", "done"} =>
       g.opened <= g.waitingBefore /\ g.waitingBefore <= g.previous
  /\ g.at \in {"ready", "polled", "done"} =>
       g.waitingBefore <= g.waitingAfter /\ g.waitingAfter <= g.previous
  /\ g.at \in {"polled", "done"} =>
       /\ g.waitingAfter <= g.readyBefore /\ g.readyBefore <= g.previous
       /\ g.seen => "ready" \in given
  /\ g.at = "done" => g.seen /\ g.readyBefore <= g.readyAfter /\ g.readyAfter < GateDeadline

GateInv ==
  /\ GateHolds(gate, answered) /\ gateClock \in Int
  /\ gate.at \notin {"opened", "failed"} => signalled \subseteq answered

LEMMA GateStarts == GateInit => GateInv
<1> SUFFICES ASSUME GateInit  PROVE GateInv
  OBVIOUS
<1>1. gate \in Gates /\ gate.at = "opened" /\ gate.previous = 0 /\ ~gate.announced /\ gateClock = 0
  BY DEF GateInit, Gates, GateStages, Unset
<1> QED BY <1>1 DEF GateInv, GateHolds

\* One reading of the clock with the call that follows it.
LEMMA GateAfterHolds ==
  ASSUME NEW polled \in BOOLEAN, NEW given, GateInv, ClockOk, gate.at \notin {"done", "failed"},
         answered \subseteq given,
         GateAfter([gate EXCEPT !.previous = gateClock], polled).announced => "waiting" \in given
  PROVE  LET n == GateAfter([gate EXCEPT !.previous = gateClock], polled) IN
         /\ GateHolds(n, given)
         /\ n.at \notin {"opened", "failed"} => signalled \subseteq answered
<1> DEFINE g == [gate EXCEPT !.previous = gateClock]
           n == GateAfter(g, polled)
<1>1. /\ gate \in Gates /\ gateClock \in Int /\ gate.previous \in Int /\ gate.opened \in Int
      /\ gate.waitingBefore \in Int /\ gate.waitingAfter \in Int /\ gate.readyBefore \in Int /\ gate.readyAfter \in Int
      /\ 0 <= gate.previous /\ gate.previous <= gateClock /\ gateClock < GateDeadline /\ gate.at \in GateStages
  BY DEF GateInv, GateHolds, Gates, ClockOk
<1>2. /\ g \in Gates /\ g.at = gate.at /\ g.previous = gateClock /\ g.opened = gate.opened
      /\ g.waitingBefore = gate.waitingBefore /\ g.waitingAfter = gate.waitingAfter
      /\ g.readyBefore = gate.readyBefore /\ g.seen = gate.seen /\ g.announced = gate.announced
  BY <1>1 DEF Gates
<1>3. n.announced => "waiting" \in given
  OBVIOUS
<1> HIDE DEF g
<1>4. CASE gate.at = "opened"
  <2> DEFINE fresh == IsFresh(polled)
  <2>1. n = [g EXCEPT !.opened = gateClock, !.at = IF fresh THEN "before" ELSE "failed"]
    BY <1>4 DEF GateAfter
  <2>4. fresh \in BOOLEAN /\ (fresh => signalled \subseteq answered)
    BY DEF IsFresh
  <2> HIDE DEF n, fresh
  <2>2. /\ n \in Gates /\ n.at \in {"before", "failed"} /\ n.previous = gateClock /\ n.opened = gateClock
        /\ n.at # "failed" => fresh
    BY <1>1, <1>2, <2>1, <2>4 DEF Gates, GateStages
  <2>3. GateHolds(n, given)
    BY <1>1, <1>3, <2>2 DEF GateHolds
  <2> QED BY <2>2, <2>3, <2>4 DEF n, g
<1>9. gate.at # "opened" => signalled \subseteq answered
  BY DEF GateInv
<1>5. CASE gate.at = "before"
  <2>1. n = [g EXCEPT !.waitingBefore = gateClock, !.announced = polled,
                      !.at = IF polled THEN "after" ELSE "failed"]
    BY <1>5 DEF GateAfter
  <2> HIDE DEF n
  <2>2. /\ n \in Gates /\ n.previous = gateClock /\ n.opened = gate.opened /\ n.waitingBefore = gateClock
        /\ (n.at = "after" /\ n.announced) \/ n.at = "failed"
    BY <1>1, <1>2, <2>1 DEF Gates, GateStages
  <2>3. 0 <= gate.opened /\ gate.opened <= gateClock
    BY <1>1, <1>5 DEF GateInv, GateHolds
  <2>4. GateHolds(n, given)
    BY <1>1, <1>3, <2>2, <2>3 DEF GateHolds
  <2> QED BY <1>5, <1>9, <2>4 DEF n, g
<1>6. CASE gate.at = "after"
  <2>1. n = [g EXCEPT !.waitingAfter = gateClock, !.at = "ready"]
    BY <1>6 DEF GateAfter
  <2> HIDE DEF n
  <2>2. /\ n \in Gates /\ n.previous = gateClock /\ n.opened = gate.opened /\ n.waitingBefore = gate.waitingBefore
        /\ n.waitingAfter = gateClock /\ n.at = "ready" /\ n.announced = gate.announced
    BY <1>1, <1>2, <2>1 DEF Gates, GateStages
  <2>3. /\ 0 <= gate.opened /\ gate.opened <= gateClock /\ gate.opened <= gate.waitingBefore
        /\ gate.waitingBefore <= gateClock /\ gate.announced
    BY <1>1, <1>6 DEF GateInv, GateHolds
  <2>4. GateHolds(n, given)
    BY <1>1, <1>3, <2>2, <2>3 DEF GateHolds
  <2> QED BY <1>6, <1>9, <2>4 DEF n, g
<1>7. CASE gate.at = "ready"
  <2> DEFINE heard == "ready" \in signalled
  <2>1. n = [g EXCEPT !.readyBefore = gateClock, !.at = "polled", !.seen = heard] /\ heard \in BOOLEAN
    BY <1>7 DEF GateAfter
  <2>2. heard => "ready" \in given
    BY <1>7, <1>9
  <2> HIDE DEF n, heard
  <2>3. /\ n \in Gates /\ n.previous = gateClock /\ n.opened = gate.opened /\ n.waitingBefore = gate.waitingBefore
        /\ n.waitingAfter = gate.waitingAfter /\ n.at = "polled" /\ n.announced = gate.announced
        /\ n.readyBefore = gateClock /\ n.seen = heard
    BY <1>1, <1>2, <2>1 DEF Gates, GateStages
  <2>4. /\ 0 <= gate.opened /\ gate.opened <= gateClock /\ gate.opened <= gate.waitingBefore
        /\ gate.waitingBefore <= gateClock /\ gate.announced
        /\ gate.waitingBefore <= gate.waitingAfter /\ gate.waitingAfter <= gateClock
    BY <1>1, <1>7 DEF GateInv, GateHolds
  <2>5. GateHolds(n, given)
    BY <1>1, <1>3, <2>3, <2>4, <2>2 DEF GateHolds
  <2> QED BY <1>7, <1>9, <2>5 DEF n, g
<1>8. CASE gate.at = "polled"
  <2>1. n = [g EXCEPT !.readyAfter = gateClock,
                      !.at = IF ~polled THEN "failed" ELSE IF gate.seen THEN "done" ELSE "ready"]
    BY <1>8 DEF GateAfter
  <2> HIDE DEF n
  <2>2. /\ n \in Gates /\ n.previous = gateClock /\ n.opened = gate.opened /\ n.waitingBefore = gate.waitingBefore
        /\ n.waitingAfter = gate.waitingAfter /\ n.announced = gate.announced /\ n.seen = gate.seen
        /\ n.readyBefore = gate.readyBefore /\ n.readyAfter = gateClock
        /\ n.at \in {"failed", "done", "ready"} /\ (n.at = "done" => gate.seen)
    BY <1>1, <1>2, <2>1 DEF Gates, GateStages
  <2>3. /\ 0 <= gate.opened /\ gate.opened <= gateClock /\ gate.opened <= gate.waitingBefore
        /\ gate.waitingBefore <= gateClock /\ gate.announced
        /\ gate.waitingBefore <= gate.waitingAfter /\ gate.waitingAfter <= gateClock
        /\ gate.waitingAfter <= gate.readyBefore /\ gate.readyBefore <= gateClock
        /\ (gate.seen => "ready" \in given)
    BY <1>1, <1>8 DEF GateInv, GateHolds
  <2>4. GateHolds(n, given)
    BY <1>1, <1>3, <2>2, <2>3 DEF GateHolds
  <2> QED BY <1>8, <1>9, <2>4 DEF n, g
<1> QED BY <1>1, <1>4, <1>5, <1>6, <1>7, <1>8 DEF GateStages

LEMMA MoreSignals ==
  ASSUME NEW g, NEW given, NEW more, GateHolds(g, given), given \subseteq more
  PROVE  GateHolds(g, more)
BY DEF GateHolds

LEMMA GateFailHolds ==
  ASSUME NEW g, NEW given, GateHolds(g, given)
  PROVE  GateHolds([g EXCEPT !.at = "failed"], given) /\ [g EXCEPT !.at = "failed"].announced = g.announced
<1> DEFINE f == [g EXCEPT !.at = "failed"]
<1>1. f \in Gates /\ f.at = "failed" /\ f.previous = g.previous /\ f.announced = g.announced
  BY DEF GateHolds, Gates, GateStages
<1> HIDE DEF f
<1>2. GateHolds(f, given)
  BY <1>1 DEF GateHolds
<1> QED BY <1>1, <1>2 DEF f

LEMMA GateMoves ==
  ASSUME GateInv, GateNext \/ UNCHANGED gateVars
  PROVE  GateInv'
<1>1. /\ GateHolds(gate, answered) /\ gateClock \in Int
      /\ gate.at \notin {"opened", "failed"} => signalled \subseteq answered
  BY DEF GateInv
<1>2. ASSUME GateHolds(gate', answered'), gateClock' \in Int,
             gate'.at \notin {"opened", "failed"} => signalled' \subseteq answered'
      PROVE  GateInv'
  BY <1>2 DEF GateInv, GateHolds
<1>3. CASE UNCHANGED gateVars
  BY <1>1, <1>2, <1>3 DEF gateVars
<1>4. ASSUME NEW polled \in BOOLEAN, GateSteps(polled)  PROVE GateInv'
  <2>1. /\ gate.at \notin {"done", "failed"} /\ gateClock' = gateClock /\ answered \subseteq answered'
        /\ gate'.announced => "waiting" \in answered'
        /\ signalled \subseteq answered => signalled' \subseteq answered'
    BY <1>4 DEF GateSteps
  <2>2. CASE ClockOk
    <3>1. gate' = GateAfter([gate EXCEPT !.previous = gateClock], polled)
      BY <1>4, <2>2 DEF GateSteps
    <3>2. /\ GateHolds(gate', answered')
          /\ gate'.at \notin {"opened", "failed"} => signalled \subseteq answered
      BY <2>1, <2>2, <3>1, GateAfterHolds
    <3> QED BY <1>1, <1>2, <2>1, <3>2
  <2>3. CASE ~ClockOk
    <3>1. gate' = [gate EXCEPT !.at = "failed"]
      BY <1>4, <2>3 DEF GateSteps
    <3>2. GateHolds(gate', answered')
      BY <1>1, <2>1, <3>1, GateFailHolds, MoreSignals
    <3>3. gate'.at = "failed"
      BY <1>1, <3>1 DEF GateHolds, Gates
    <3> QED BY <1>1, <1>2, <2>1, <3>2, <3>3
  <2> QED BY <2>2, <2>3
<1>5. ASSUME NEW now \in (gateClock - 1)..(gateClock + 1), now \in 0..MaxClock, GateTime(now)  PROVE GateInv'
  <2>1. now \in Int /\ gateClock' = now /\ gate' = gate /\ signalled' = signalled /\ answered' = answered
    BY <1>1, <1>5 DEF GateTime
  <2> QED BY <1>1, <1>2, <2>1
<1>6. CASE OwnerSignals
  <2>1. /\ gateClock' = gateClock /\ gate' = gate /\ answered \subseteq answered'
        /\ gate.at # "opened" /\ signalled \subseteq answered => signalled' \subseteq answered'
    BY <1>6 DEF OwnerSignals
  <2> QED BY <1>1, <1>2, <2>1, MoreSignals
<1>7. CASE GateStopAsked
  <2>1. gateClock' = gateClock /\ gate' = gate /\ signalled = signalled' /\ answered' = answered
    BY <1>7 DEF GateStopAsked
  <2> QED BY <1>1, <1>2, <2>1
<1> QED BY <1>3, <1>4, <1>5, <1>6, <1>7 DEF GateNext

LEMMA GateInvMeans == GateInv => ReadyIsOfThisWindow
<1> SUFFICES ASSUME GateInv, gate.at = "done"
             PROVE  /\ {"ready", "waiting"} \subseteq answered
                    /\ 0 <= gate.opened /\ gate.opened <= gate.waitingBefore
                    /\ gate.waitingBefore <= gate.waitingAfter /\ gate.waitingAfter <= gate.readyBefore
                    /\ gate.readyBefore <= gate.readyAfter /\ gate.readyAfter < GateDeadline
  BY DEF ReadyIsOfThisWindow
<1> QED BY DEF GateInv, GateHolds

-----------------------------------------------------------------------------
\* The three input machines keep their promises for every hold time, deadline
\* and reading of the clock: the cursor the autohide hid is shown again
\* (mcla_cursor_autohide), START is returned between its deadlines only
\* (mcla_autostart_input), and readiness is an answer
\* that was given after the gate had found none (mcla_owner_ready_gate).
THEOREM InputsStayBounded == CursorSpec /\ LatchSpec /\ GateSpec => []InputsKeepBounds
<1>1. CursorSpec => []CursorInv
  <2>1. CursorInv /\ [CursorNext]_cursorVars => CursorInv'
    BY CursorSteps
  <2> QED BY CursorStarts, <2>1, PTL DEF CursorSpec
<1>2. LatchSpec => []LatchInv
  <2>1. LatchInv /\ [LatchNext]_latchVars => LatchInv'
    BY LatchSteps
  <2> QED BY LatchStarts, <2>1, PTL DEF LatchSpec
<1>3. GateSpec => []GateInv
  <2>1. GateInv /\ [GateNext]_gateVars => GateInv'
    BY GateMoves
  <2> QED BY GateStarts, <2>1, PTL DEF GateSpec
<1>4. CursorInv /\ LatchInv /\ GateInv => InputsKeepBounds
  BY LatchInvMeans, GateInvMeans DEF CursorInv, InputsKeepBounds
<1> QED BY <1>1, <1>2, <1>3, <1>4, PTL

-----------------------------------------------------------------------------
(* The menu cap.                                                            *)
(*                                                                          *)
(* A restore writes the user's threshold only because what was saved is     *)
(* never the forced value, and because the host owns nothing while the game *)
(* runs; while a hook is about to write, what it will write is accounted    *)
(* for, so that an edit that falls in between is the only one lost.         *)

Menus == [paused : BOOLEAN, wrote : BOOLEAN, stopped : BOOLEAN, saved : Nat]
MenuHooks == [at : {"idle", "read", "locked"}, paused : BOOLEAN, off : BOOLEAN, write : Int]

MenuTypes ==
  /\ menu \in Menus /\ menuHook \in MenuHooks /\ low \in Nat /\ userLow \in Nat /\ menuRaced \in BOOLEAN
MenuOwns ==
  /\ ~menu.paused => ~menu.wrote
  /\ menu.wrote => menu.saved # Forced
MenuWillWrite ==
  menuHook.at = "locked" =>
    /\ menuHook.write \in Nat
    /\ menuHook.write = Forced => menu.wrote
    /\ menuHook.write # Forced => ~menu.wrote
    /\ ~menuRaced /\ userLow # Forced =>
         userLow = IF menuHook.write = Forced THEN menu.saved ELSE menuHook.write
MenuInv == MenuTypes /\ MenuOwns /\ MenuWillWrite /\ MenuGivesBack

LEMMA MenuStarts == MenuInit => MenuInv
<1> SUFFICES ASSUME MenuInit  PROVE MenuInv
  OBVIOUS
<1>1. /\ menu = [paused |-> FALSE, wrote |-> FALSE, stopped |-> FALSE, saved |-> 0]
      /\ menuHook = [at |-> "idle", paused |-> FALSE, off |-> FALSE, write |-> NoWrite]
      /\ low \in Nat /\ userLow = low /\ menuRaced = FALSE
  BY SwitchConstants DEF MenuInit
<1>2. menu \in Menus /\ menuHook \in MenuHooks
  BY <1>1 DEF Menus, MenuHooks, NoWrite
<1> QED BY <1>1, <1>2 DEF MenuInv, MenuTypes, MenuOwns, MenuWillWrite, MenuGivesBack

LEMMA MenuObserves ==
  ASSUME MenuInv, HookObserves
  PROVE  MenuInv'
<1> DEFINE p == menuHook.paused
           forces == p /\ unlocked /\ low > 0
           write == IF ~p THEN Release(low) ELSE IF forces /\ low # Forced THEN Forced ELSE NoWrite
<1>1. /\ menuHook.at = "read" /\ UNCHANGED <<low, userLow, menuRaced>>
      /\ IF menu.stopped \/ p = menu.paused
         THEN menuHook' = [menuHook EXCEPT !.at = "idle"] /\ menu' = menu
         ELSE /\ menu' = [menu EXCEPT !.paused = p, !.wrote = forces /\ low # Forced,
                                      !.saved = IF forces THEN low ELSE menu.saved]
              /\ menuHook' = [menuHook EXCEPT !.at = IF write = NoWrite THEN "idle" ELSE "locked", !.write = write]
  BY DEF HookObserves
<1>2. /\ menu \in Menus /\ menuHook \in MenuHooks /\ low \in Nat /\ userLow \in Nat /\ menuRaced \in BOOLEAN
      /\ p \in BOOLEAN /\ menu.saved \in Nat /\ menu.paused \in BOOLEAN /\ Forced \in Nat
  BY SwitchConstants DEF MenuInv, MenuTypes, Menus, MenuHooks
<1>3. /\ userLow # Forced => (~menu.wrote => low # Forced)
      /\ userLow # Forced /\ ~menuRaced => low = userLow \/ (low = Forced /\ menu.wrote /\ menu.saved = userLow)
      /\ ~menu.paused => ~menu.wrote
      /\ menu.wrote => menu.saved # Forced
  BY <1>1 DEF MenuInv, MenuGivesBack, MenuOwns
<1>4. CASE menu.stopped \/ p = menu.paused
  <2>1. menuHook' \in MenuHooks /\ menuHook'.at = "idle" /\ menu' = menu
    BY <1>1, <1>2, <1>4 DEF MenuHooks
  <2> QED BY <1>1, <1>2, <1>3, <2>1 DEF MenuInv, MenuTypes, MenuOwns, MenuWillWrite, MenuGivesBack
<1>5. CASE ~(menu.stopped \/ p = menu.paused)
  <2> DEFINE takes == forces /\ low # Forced
             kept == IF forces THEN low ELSE menu.saved
             next == IF write = NoWrite THEN "idle" ELSE "locked"
  <2>1. /\ menu' = [menu EXCEPT !.paused = p, !.wrote = takes, !.saved = kept]
        /\ menuHook' = [menuHook EXCEPT !.at = next, !.write = write]
    BY <1>1, <1>5
  <2>2. write \in Int /\ kept \in Nat /\ takes \in BOOLEAN
    BY <1>2 DEF Release, NoWrite
  <2>3. /\ p => (takes => write = Forced /\ kept = low) /\ (~takes => write = NoWrite)
        /\ ~p => ~takes /\ kept = menu.saved
             /\ write = IF menu.wrote /\ low = Forced THEN menu.saved ELSE NoWrite
    BY DEF Release
  <2>4. NoWrite \notin Nat
    BY DEF NoWrite
  <2>5. p => ~menu.wrote
    BY <1>2, <1>3, <1>5
  <2> HIDE DEF takes, kept, write, forces
  <2>6. /\ menu' \in Menus /\ (menu'.paused <=> p) /\ (menu'.wrote <=> takes) /\ menu'.saved = kept
    BY <1>2, <2>1, <2>2 DEF Menus
  <2>7. /\ menuHook' \in MenuHooks /\ menuHook'.at = next /\ menuHook'.write = write
    BY <1>2, <2>1, <2>2 DEF MenuHooks
  <2>8. MenuTypes' /\ MenuOwns'
    <3>1. takes => low # Forced
      BY DEF takes
    <3> QED BY <1>1, <1>2, <2>3, <2>6, <2>7, <3>1 DEF MenuTypes, MenuOwns
  <2>9. CASE takes
    <3>1. p /\ low # Forced
      BY <2>9 DEF takes, forces
    <3>2. menuHook'.at = "locked" /\ menuHook'.write = Forced /\ menu'.wrote /\ menu'.saved = low
      BY <1>2, <2>3, <2>4, <2>6, <2>7, <2>9, <3>1
    <3>3. MenuWillWrite' /\ MenuGivesBack'
      BY <1>1, <1>2, <1>3, <3>1, <3>2 DEF MenuWillWrite, MenuGivesBack
    <3> QED BY <2>8, <3>3 DEF MenuInv
  <2>10. CASE ~takes /\ write = NoWrite
    <3>1. menuHook'.at = "idle" /\ ~menu'.wrote
      BY <2>6, <2>7, <2>10
    <3>2. ~(menu.wrote /\ low = Forced)
      BY <1>2, <2>3, <2>4, <2>5, <2>10
    <3>3. MenuWillWrite' /\ MenuGivesBack'
      BY <1>1, <1>3, <3>1, <3>2 DEF MenuWillWrite, MenuGivesBack
    <3> QED BY <2>8, <3>3 DEF MenuInv
  <2>11. CASE ~takes /\ write # NoWrite
    <3>1. ~p /\ menu.wrote /\ low = Forced /\ write = menu.saved
      BY <1>2, <2>3, <2>11
    <3>2. menuHook'.at = "locked" /\ menuHook'.write = menu.saved /\ menu.saved # Forced /\ ~menu'.wrote
      BY <1>3, <2>6, <2>7, <2>11, <3>1
    <3>3. MenuWillWrite' /\ MenuGivesBack'
      BY <1>1, <1>2, <1>3, <3>1, <3>2 DEF MenuWillWrite, MenuGivesBack
    <3> QED BY <2>8, <3>3 DEF MenuInv
  <2> QED BY <2>9, <2>10, <2>11
<1> QED BY <1>4, <1>5

LEMMA MenuSteps ==
  ASSUME MenuInv, MenuNext \/ UNCHANGED menuVars
  PROVE  MenuInv'
<1>1. /\ menu \in Menus /\ menuHook \in MenuHooks /\ low \in Nat /\ userLow \in Nat /\ menuRaced \in BOOLEAN
      /\ menu.saved \in Nat /\ Forced \in Nat
  BY SwitchConstants DEF MenuInv, MenuTypes, Menus
<1>2. CASE UNCHANGED menuVars
  BY <1>2 DEF menuVars, MenuInv, MenuTypes, MenuOwns, MenuWillWrite, MenuGivesBack
<1>3. ASSUME NEW simulation \in BOOLEAN, NEW off \in BOOLEAN, HookReads(simulation, off)  PROVE MenuInv'
  <2>1. PICK a \in BOOLEAN, b \in BOOLEAN : menuHook' = [at |-> "read", paused |-> a, off |-> b, write |-> NoWrite]
    <3>1. (simulation \/ RacerOff(off)) \in BOOLEAN /\ RacerOff(off) \in BOOLEAN
      BY DEF RacerOff
    <3> QED BY <1>3, <3>1 DEF HookReads
  <2>2. menuHook' \in MenuHooks /\ menuHook'.at = "read"
    BY <2>1 DEF MenuHooks, NoWrite
  <2>3. menuHook.at = "idle" /\ UNCHANGED <<menu, low, userLow, menuRaced>>
    BY <1>3 DEF HookReads
  <2> QED BY <1>1, <2>2, <2>3 DEF MenuInv, MenuTypes, MenuOwns, MenuWillWrite, MenuGivesBack
<1>4. CASE HookWrites
  <2>1. /\ menuHook.at = "locked" /\ low' = menuHook.write /\ UNCHANGED <<menu, userLow, menuRaced>>
        /\ menuHook' = [menuHook EXCEPT !.at = "idle", !.write = NoWrite]
    BY <1>4 DEF HookWrites
  <2>2. NoWrite \in Int
    BY DEF NoWrite
  <2>3. menuHook' \in MenuHooks /\ menuHook'.at = "idle"
    BY <1>1, <2>1, <2>2 DEF MenuHooks
  <2>4. MenuWillWrite
    BY DEF MenuInv
  <2> QED BY <1>1, <2>1, <2>3, <2>4 DEF MenuInv, MenuTypes, MenuOwns, MenuWillWrite, MenuGivesBack
<1>5. CASE MenuStops
  <2>1. UNCHANGED <<menu, menuHook, low, userLow, menuRaced>>
    BY <1>5 DEF MenuStops
  <2> QED BY <2>1 DEF MenuInv, MenuTypes, MenuOwns, MenuWillWrite, MenuGivesBack
<1>6. CASE MenuRestores
  <2>1. /\ menuHook.at # "locked" /\ UNCHANGED <<menuHook, userLow, menuRaced>>
        /\ low' = (IF menu.wrote /\ low = Forced THEN menu.saved ELSE low)
        /\ menu' = [menu EXCEPT !.stopped = TRUE, !.wrote = FALSE]
    BY <1>1, <1>6 DEF MenuRestores, Release, NoWrite
  <2>2. menu' \in Menus /\ ~menu'.wrote
    BY <1>1, <2>1 DEF Menus
  <2>3. low' \in Nat
    BY <1>1, <2>1
  <2> QED BY <1>1, <2>1, <2>2, <2>3 DEF MenuInv, MenuTypes, MenuOwns, MenuWillWrite, MenuGivesBack
<1>7. ASSUME NEW v \in Lows \cup {Forced}, UserSetsLow(v)  PROVE MenuInv'
  <2>1. /\ low' = v /\ userLow' = v /\ UNCHANGED <<menu, menuHook>> /\ v \in Nat
        /\ menuRaced' = (menuHook.at = "locked")
    BY <1>7, SwitchConstants DEF UserSetsLow
  <2> QED BY <1>1, <2>1 DEF MenuInv, MenuTypes, MenuOwns, MenuWillWrite, MenuGivesBack
<1> QED BY <1>2, <1>3, <1>4, <1>5, <1>6, <1>7, MenuObserves DEF MenuNext

-----------------------------------------------------------------------------
(* The photo window and the always-on wait.                                 *)
(*                                                                          *)
(* The host only takes a setting it found off, so while it owns one the     *)
(* user's own choice is "off", unless the user turned it on in between.     *)

Photos == [enabled : BOOLEAN, open : BOOLEAN, owning : BOOLEAN, stopped : BOOLEAN, frames : Nat,
           resync : BOOLEAN, alwaysOwned : BOOLEAN, started : BOOLEAN]

PhotoTypes ==
  /\ photo \in Photos /\ wait \in BOOLEAN /\ userWait \in BOOLEAN /\ always \in BOOLEAN /\ userAlways \in BOOLEAN
  /\ opened \in BOOLEAN
PhotoOwns ==
  /\ photo.owning => photo.open
  /\ photoPc = "opening" => photo.owning
  /\ photo.owning /\ "wait" \notin during => ~userWait
  /\ photo.alwaysOwned => photo.started /\ ~photo.stopped
  /\ photo.stopped => photo.started
  /\ photo.alwaysOwned /\ "always" \notin during => ~userAlways
  /\ ~photo.alwaysOwned => (always => userAlways)
  /\ ~photo.alwaysOwned /\ "always" \notin during => (always <=> userAlways)
PhotoWaits ==
  /\ ~photo.owning => (wait => userWait)
  /\ ~photo.owning /\ "wait" \notin during => (wait <=> userWait)
  /\ photo.resync = opened
  /\ photo.open => opened
  /\ opened => frozen
PhotoInv == PhotoTypes /\ PhotoOwns /\ PhotoWaits

LEMMA PhotoStarts == PhotoInit => PhotoInv
<1> SUFFICES ASSUME PhotoInit  PROVE PhotoInv
  OBVIOUS
<1>1. /\ photoPc = "frame" /\ wait \in BOOLEAN /\ userWait = wait /\ always \in BOOLEAN /\ userAlways = always
      /\ opened = FALSE
  BY DEF PhotoInit
<1>2. photo \in [enabled : BOOLEAN, open : {FALSE}, owning : {FALSE}, stopped : {FALSE}, frames : {0},
                 resync : {FALSE}, alwaysOwned : {FALSE}, started : {FALSE}]
  BY DEF PhotoInit
<1>3. PICK e \in BOOLEAN :
        photo = [enabled |-> e, open |-> FALSE, owning |-> FALSE, stopped |-> FALSE, frames |-> 0,
                 resync |-> FALSE, alwaysOwned |-> FALSE, started |-> FALSE]
  BY <1>2
<1>4. /\ photo \in Photos /\ ~photo.open /\ ~photo.owning /\ ~photo.stopped /\ photo.resync = FALSE
      /\ ~photo.alwaysOwned
  BY <1>3 DEF Photos
<1> QED BY <1>1, <1>4 DEF PhotoInv, PhotoTypes, PhotoOwns, PhotoWaits

LEMMA EndedPhoto ==
  ASSUME NEW p \in Photos
  PROVE  /\ Ended(p) \in Photos /\ ~Ended(p).open /\ ~Ended(p).owning
         /\ Ended(p).stopped = p.stopped /\ Ended(p).started = p.started
         /\ Ended(p).alwaysOwned = p.alwaysOwned /\ Ended(p).resync = p.resync
BY DEF Ended, Photos

LEMMA PhotoSteps ==
  ASSUME PhotoInv, PhotoNext \/ UNCHANGED photoVars
  PROVE  PhotoInv'
<1>1. /\ photo \in Photos /\ wait \in BOOLEAN /\ userWait \in BOOLEAN /\ always \in BOOLEAN /\ userAlways \in BOOLEAN
      /\ opened \in BOOLEAN
  BY DEF PhotoInv, PhotoTypes
<1>2. CASE UNCHANGED photoVars
  BY <1>2 DEF photoVars, PhotoInv, PhotoTypes, PhotoOwns, PhotoWaits
<1>3. ASSUME NEW option \in BOOLEAN, NEW written \in BOOLEAN, AlwaysStarts(option, written)  PROVE PhotoInv'
  <2>1. PICK enable \in BOOLEAN :
          /\ ~photo.started /\ (enable => ~always)
          /\ photo' = [photo EXCEPT !.started = TRUE, !.alwaysOwned = enable]
          /\ always' = (always \/ enable)
          /\ UNCHANGED <<frozen, photoPc, wait, userWait, userAlways, during, opened>>
    <3>1. (option /\ ~always /\ written) \in BOOLEAN
      OBVIOUS
    <3> QED BY <1>3, <3>1 DEF AlwaysStarts
  <2>2. /\ photo' \in Photos /\ photo'.started /\ (photo'.alwaysOwned <=> enable) /\ photo'.open = photo.open
        /\ photo'.owning = photo.owning /\ photo'.stopped = photo.stopped /\ photo'.resync = photo.resync
    BY <1>1, <2>1 DEF Photos
  <2>3. ~photo.alwaysOwned /\ ~photo.stopped
    BY <2>1 DEF PhotoInv, PhotoOwns
  <2>4. PhotoTypes' /\ PhotoWaits'
    BY <1>1, <2>1, <2>2 DEF PhotoInv, PhotoTypes, PhotoWaits
  <2>5. PhotoOwns'
    BY <1>1, <2>1, <2>2, <2>3 DEF PhotoInv, PhotoOwns
  <2> QED BY <2>4, <2>5 DEF PhotoInv
<1>4. CASE Freezes
  <2>1. /\ frozen' = TRUE /\ UNCHANGED <<wait, userWait, always, userAlways, during>> /\ photoPc = "frame"
        /\ opened' = (opened \/ photo'.open)
    BY <1>4 DEF Freezes
  <2>2. CASE ~photo.enabled \/ photo.stopped \/ photo.open
    <3>1. photoPc' = "tick" /\ photo' = photo
      BY <1>4, <2>2 DEF Freezes
    <3>2. opened' = opened
      BY <1>1, <2>1, <3>1 DEF PhotoInv, PhotoWaits
    <3> QED BY <2>1, <3>1, <3>2 DEF PhotoInv, PhotoTypes, PhotoOwns, PhotoWaits
  <2>3. CASE ~(~photo.enabled \/ photo.stopped \/ photo.open)
    <3>1. /\ photo' = [photo EXCEPT !.open = TRUE, !.frames = 0, !.owning = ~wait, !.resync = TRUE]
          /\ photoPc' = (IF wait THEN "tick" ELSE "opening")
      BY <1>4, <2>3 DEF Freezes
    <3>2. /\ photo' \in Photos /\ photo'.open /\ (photo'.owning <=> ~wait) /\ photo'.started = photo.started
          /\ photo'.stopped = photo.stopped /\ photo'.alwaysOwned = photo.alwaysOwned /\ photo'.resync = TRUE
      BY <1>1, <3>1 DEF Photos
    <3>3. ~photo.owning
      BY <2>3 DEF PhotoInv, PhotoOwns
    <3>4. opened' = TRUE
      BY <1>1, <2>1, <3>2
    <3> QED BY <1>1, <2>1, <3>1, <3>2, <3>3, <3>4 DEF PhotoInv, PhotoTypes, PhotoOwns, PhotoWaits
  <2> QED BY <2>2, <2>3
<1>5. CASE FreezeWrites
  <2>1. /\ photoPc = "opening" /\ wait' = TRUE /\ photoPc' = "tick"
        /\ UNCHANGED <<photo, frozen, userWait, always, userAlways, during, opened>>
    BY <1>5 DEF FreezeWrites
  <2> QED BY <1>1, <2>1 DEF PhotoInv, PhotoTypes, PhotoOwns, PhotoWaits
\* What the end of a window leaves.
<1>6. ASSUME ~photo'.open, ~photo'.owning, photo' \in Photos, photoPc' # "opening", wait' = WaitAfterEnd(photo),
             UNCHANGED <<userWait, userAlways, during>>, always' \in BOOLEAN,
             photo'.started = photo.started, photo.stopped => photo'.stopped,
             photo'.stopped => photo.started,
             \/ photo'.alwaysOwned = photo.alwaysOwned /\ always' = always /\ photo'.stopped = photo.stopped
             \/ ~photo'.alwaysOwned /\ always' = (IF photo.alwaysOwned THEN FALSE ELSE always),
             photo'.resync = opened', opened' => frozen', opened' \in BOOLEAN
      PROVE  PhotoInv'
  <2>1. wait' \in BOOLEAN /\ (photo.owning => ~wait') /\ (~photo.owning => wait' = wait)
    BY <1>1, <1>6 DEF WaitAfterEnd, PhotoInv, PhotoOwns
  <2>2. PhotoTypes'
    BY <1>1, <1>6, <2>1 DEF PhotoTypes
  <2>3. PhotoWaits'
    BY <1>1, <1>6, <2>1 DEF PhotoInv, PhotoWaits, PhotoOwns
  <2>4. PhotoOwns'
    BY <1>1, <1>6 DEF PhotoInv, PhotoOwns
  <2> QED BY <2>2, <2>3, <2>4 DEF PhotoInv
<1>7. CASE Unfreezes
  <2> DEFINE e == Ended(photo)
  <2>1. /\ photo' = [e EXCEPT !.resync = FALSE] /\ photoPc' = "tick" /\ wait' = WaitAfterEnd(photo)
        /\ UNCHANGED <<userWait, always, userAlways, during>> /\ opened' = FALSE
    BY <1>7 DEF Unfreezes
  <2>2. /\ e \in Photos /\ ~e.open /\ ~e.owning /\ e.stopped = photo.stopped /\ e.started = photo.started
        /\ e.alwaysOwned = photo.alwaysOwned
    BY <1>1, EndedPhoto
  <2> HIDE DEF e
  <2>3. /\ photo' \in Photos /\ ~photo'.open /\ ~photo'.owning /\ photo'.resync = FALSE /\ photo'.stopped = photo.stopped
        /\ photo'.started = photo.started /\ photo'.alwaysOwned = photo.alwaysOwned
    BY <2>1, <2>2 DEF Photos
  <2>4. photo.stopped => photo.started
    BY DEF PhotoInv, PhotoOwns
  <2> QED BY <1>1, <1>6, <2>1, <2>3, <2>4
<1>8. ASSUME NEW over \in BOOLEAN, Ticks(over)  PROVE PhotoInv'
  <2> DEFINE counted == [photo EXCEPT !.frames = photo.frames + 1]
             ends == photo.open /\ (counted.frames >= TimeoutFrames \/ over)
  <2>1. /\ photoPc' = "frame"
        /\ photo' = (IF ends THEN Ended(counted) ELSE IF photo.open THEN counted ELSE photo)
        /\ wait' = (IF ends THEN WaitAfterEnd(photo) ELSE wait)
        /\ UNCHANGED <<frozen, userWait, always, userAlways, during, opened>>
    BY <1>8 DEF Ticks
  <2>2. /\ counted \in Photos /\ counted.open = photo.open /\ counted.owning = photo.owning
        /\ counted.stopped = photo.stopped /\ counted.started = photo.started
        /\ counted.alwaysOwned = photo.alwaysOwned /\ counted.resync = photo.resync
    BY <1>1 DEF Photos
  <2> HIDE DEF counted, ends
  <2>3. CASE ends
    <3>1. /\ photo' \in Photos /\ ~photo'.open /\ ~photo'.owning /\ photo'.stopped = photo.stopped
          /\ photo'.started = photo.started /\ photo'.alwaysOwned = photo.alwaysOwned /\ photo'.resync = photo.resync
      BY <2>1, <2>2, <2>3, EndedPhoto
    <3>2. (photo.stopped => photo.started) /\ photo.resync = opened /\ (opened => frozen)
      BY DEF PhotoInv, PhotoOwns, PhotoWaits
    <3>3. wait' = WaitAfterEnd(photo)
      BY <2>1, <2>3
    <3> QED BY <1>1, <1>6, <2>1, <3>1, <3>2, <3>3
  <2>4. CASE ~ends
    <3>1. /\ photo' \in Photos /\ photo'.open = photo.open /\ photo'.owning = photo.owning
          /\ photo'.stopped = photo.stopped /\ photo'.started = photo.started
          /\ photo'.alwaysOwned = photo.alwaysOwned /\ photo'.resync = photo.resync /\ wait' = wait
      BY <1>1, <2>1, <2>2, <2>4
    <3> QED BY <1>1, <2>1, <3>1 DEF PhotoInv, PhotoTypes, PhotoOwns, PhotoWaits
  <2> QED BY <2>3, <2>4
<1>9. CASE PhotoStops
  <2> DEFINE e == Ended(photo)
  <2>1. /\ photo' = [e EXCEPT !.stopped = TRUE, !.alwaysOwned = FALSE] /\ wait' = WaitAfterEnd(photo)
        /\ always' = (IF photo.alwaysOwned THEN FALSE ELSE always) /\ photo.started /\ photoPc # "opening"
        /\ UNCHANGED <<frozen, photoPc, userWait, userAlways, during, opened>>
    BY <1>9 DEF PhotoStops
  <2>2. /\ e \in Photos /\ ~e.open /\ ~e.owning /\ e.started = photo.started /\ e.resync = photo.resync
    BY <1>1, EndedPhoto
  <2> HIDE DEF e
  <2>3. /\ photo' \in Photos /\ ~photo'.open /\ ~photo'.owning /\ photo'.stopped
        /\ photo'.started = photo.started /\ ~photo'.alwaysOwned /\ photo'.resync = photo.resync
    BY <2>1, <2>2 DEF Photos
  <2>4. photo.resync = opened /\ (opened => frozen)
    BY DEF PhotoInv, PhotoWaits
  <2>5. always' \in BOOLEAN
    BY <1>1, <2>1
  <2> QED BY <1>1, <1>6, <2>1, <2>3, <2>4, <2>5
<1>10. ASSUME NEW v \in BOOLEAN, UserSetsWait(v)  PROVE PhotoInv'
  <2>1. /\ wait' = v /\ userWait' = v /\ UNCHANGED <<photo, frozen, photoPc, always, userAlways, opened>>
        /\ during' = (IF v /\ photo.owning THEN during \cup {"wait"} ELSE during \ {"wait"})
    BY <1>10 DEF UserSetsWait
  <2>2. ("always" \in during' <=> "always" \in during) /\ ("wait" \in during' <=> v /\ photo.owning)
    BY <2>1
  <2> QED BY <1>1, <2>1, <2>2 DEF PhotoInv, PhotoTypes, PhotoOwns, PhotoWaits
<1>11. ASSUME NEW v \in BOOLEAN, UserSetsAlways(v)  PROVE PhotoInv'
  <2>1. /\ always' = v /\ userAlways' = v /\ UNCHANGED <<photo, frozen, photoPc, wait, userWait, opened>>
        /\ during' = (IF v /\ photo.alwaysOwned THEN during \cup {"always"} ELSE during \ {"always"})
    BY <1>11 DEF UserSetsAlways
  <2>2. ("wait" \in during' <=> "wait" \in during) /\ ("always" \in during' <=> v /\ photo.alwaysOwned)
    BY <2>1
  <2> QED BY <1>1, <2>1, <2>2 DEF PhotoInv, PhotoTypes, PhotoOwns, PhotoWaits
<1> QED BY <1>2, <1>3, <1>4, <1>5, <1>7, <1>8, <1>9, <1>10, <1>11 DEF PhotoNext

LEMMA PhotoInvMeans == PhotoInv => PhotoGivesBack
<1> SUFFICES ASSUME PhotoInv  PROVE PhotoGivesBack
  OBVIOUS
<1>1. (~photo.owning /\ "wait" \notin during) => wait = userWait
  BY DEF PhotoInv, PhotoTypes, PhotoWaits
<1>2. ~photo.owning => (wait => userWait)
  BY DEF PhotoInv, PhotoWaits
<1>3. photo.stopped => (always => userAlways) /\ ("always" \notin during => always = userAlways)
  BY DEF PhotoInv, PhotoTypes, PhotoOwns
<1>4. (photo.resync <=> opened) /\ (opened => frozen)
  BY DEF PhotoInv, PhotoWaits
<1> QED BY <1>1, <1>2, <1>3, <1>4 DEF PhotoGivesBack

-----------------------------------------------------------------------------
(* The texture budget.                                                      *)
(*                                                                          *)
(* The pace of the steps rests on the time since the last one, which never  *)
(* runs ahead of the clock; that no mark is lost rests on where it may be:  *)
(* with the thread, in its hands, logged or dropped.                        *)

LEMMA MaxOfTwo ==
  ASSUME NEW a \in Int, NEW b \in Int
  PROVE  Max({a, b}) = IF a >= b THEN a ELSE b
<1> DEFINE m == IF a >= b THEN a ELSE b
<1>1. m \in {a, b} /\ \A y \in {a, b} : m >= y
  OBVIOUS
<1>2. \A x \in {a, b} : (\A y \in {a, b} : x >= y) => x = m
  OBVIOUS
<1> HIDE DEF m
<1>3. (CHOOSE x \in {a, b} : \A y \in {a, b} : x >= y) = m
  BY <1>1, <1>2
<1>4. Max({a, b}) = m
  BY <1>3 DEF Max
<1> QED BY <1>4 DEF m

LEMMA MinOfTwo ==
  ASSUME NEW a \in Int, NEW b \in Int
  PROVE  Min({a, b}) = IF a =< b THEN a ELSE b
<1> DEFINE m == IF a =< b THEN a ELSE b
<1>1. m \in {a, b} /\ \A y \in {a, b} : m =< y
  OBVIOUS
<1>2. \A x \in {a, b} : (\A y \in {a, b} : x =< y) => x = m
  OBVIOUS
<1> HIDE DEF m
<1>3. (CHOOSE x \in {a, b} : \A y \in {a, b} : x =< y) = m
  BY <1>1, <1>2
<1>4. Min({a, b}) = m
  BY <1>3 DEF Min
<1> QED BY <1>4 DEF m

\* The limits of a start are numbers, and the soft one is not above the hard one.
LEMMA StartLimits ==
  ASSUME NEW budget \in Nat, NEW scale \in Nat, NEW cap \in Nat
  PROVE  LET d == DecideStartLimits(budget, scale, cap)
         IN /\ d.soft \in Nat /\ d.hard \in Nat /\ d.floor = d.soft /\ d.soft <= d.hard
<1> DEFINE reserve == Max({budget - kStartReserveMb, 0})
           share == (budget * 4) \div 5
           hard == Clamp(Min({share, reserve}), kHardMinMb, kHardMaxMb)
           half == budget \div 2
           legacy == Min({Clamp(half, kSoftMinMb, kSoftMaxMb), hard})
           target == Max({Min({half, cap}), kSoftMinMb})
           capped == cap > 0 /\ scale >= 2 /\ budget < 10 * 1024 /\ target < legacy
           soft == IF capped THEN target ELSE legacy
<1>1. share \in Int /\ half \in Int /\ budget - kStartReserveMb \in Int
  BY DEF kStartReserveMb
<1> HIDE DEF share, half
<1>2. ASSUME NEW v \in Int, NEW l \in Nat, NEW h \in Nat  PROVE Clamp(v, l, h) \in Nat
  <2>1. Max({v, l}) = (IF v >= l THEN v ELSE l)
    BY MaxOfTwo
  <2>2. Max({v, l}) \in Nat
    BY <2>1
  <2> DEFINE m == Max({v, l})
  <2>3. m \in Nat
    BY <2>2
  <2>4. Clamp(v, l, h) = Min({m, h})
    BY DEF Clamp
  <2> HIDE DEF m
  <2>5. Min({m, h}) = (IF m =< h THEN m ELSE h)
    BY <2>3, MinOfTwo
  <2> QED BY <2>3, <2>5, <2>4
<1>3. kHardMinMb \in Nat /\ kHardMaxMb \in Nat /\ kSoftMinMb \in Nat /\ kSoftMaxMb \in Nat
  BY DEF kHardMinMb, kHardMaxMb, kSoftMinMb, kSoftMaxMb
<1>4. reserve \in Int
  BY <1>1, MaxOfTwo
<1> HIDE DEF reserve
<1>5. Min({share, reserve}) \in Int
  BY <1>1, <1>4, MinOfTwo
<1>6. hard \in Nat
  BY <1>2, <1>5, <1>3
<1> HIDE DEF hard
<1>7. Clamp(half, kSoftMinMb, kSoftMaxMb) \in Nat
  BY <1>1, <1>2, <1>3
<1>8. legacy \in Nat /\ legacy <= hard
  BY <1>6, <1>7, MinOfTwo
<1> HIDE DEF legacy
<1>9. target \in Nat
  <2> DEFINE chosen == Min({half, cap})
  <2>1. chosen \in Int
    BY <1>1, MinOfTwo
  <2>2. target = Max({chosen, kSoftMinMb})
    OBVIOUS
  <2> HIDE DEF chosen, target
  <2>3. Max({chosen, kSoftMinMb}) = IF chosen >= kSoftMinMb THEN chosen ELSE kSoftMinMb
    BY <2>1, <1>3, MaxOfTwo
  <2> QED BY <2>1, <2>2, <2>3, <1>3
<1> HIDE DEF target
<1>10. soft \in Nat /\ soft <= hard
  BY <1>6, <1>8, <1>9
<1> HIDE DEF soft
<1>11. DecideStartLimits(budget, scale, cap) = [soft |-> soft, hard |-> hard, floor |-> soft]
  BY DEF DecideStartLimits, soft, capped, target, legacy, hard, reserve, half, share
<1> QED BY <1>6, <1>10, <1>11

\* A multiple of the interval that has passed is counted by the division.
LEMMA WholeIntervals ==
  ASSUME NEW s \in Nat, NEW m \in Nat, NEW interval \in Nat \ {0}, s >= m * interval
  PROVE  m <= s \div interval
<1> DEFINE q == s \div interval
<1>1. q \in Int /\ s < (q + 1) * interval
  OBVIOUS
<1> HIDE DEF q
<1>2. SUFFICES ASSUME m >= q + 1  PROVE FALSE
  BY <1>1 DEF q
<1>3. m * interval >= (q + 1) * interval
  <2>1. (m - (q + 1)) * interval >= 0
    BY <1>1, <1>2
  <2>2. (m - (q + 1)) * interval = m * interval - (q + 1) * interval
    BY <1>1
  <2>3. m * interval \in Int /\ (q + 1) * interval \in Int
    BY <1>1
  <2> QED BY <2>1, <2>2, <2>3
<1> QED BY <1>1, <1>3

Monitors ==
  [thread : {"none", "waits", "works", "ended"}, running : BOOLEAN, stop : BOOLEAN, steps : BOOLEAN,
   hard : Nat, floor : Nat, since : Nat, marks : Nat, taken : Nat,
   tick : BOOLEAN, stopping : BOOLEAN, sampled : BOOLEAN]
Marks == [accepted : Nat, lines : Nat, dropped : Nat]
Limits == [soft : Nat, hard : Nat]

\* The limits of this session's start, were the host to set them.
StartOf(s) == DecideStartLimits(s.budget, s.scale, s.cap)

\* Some number of steps was taken, one per interval.
Paced(drop, since, seconds) ==
  \E k \in Nat : drop <= kStepMb * k /\ (k = 0 \/ seconds >= (k - 1) * StepInterval + since)

BudgetTypes ==
  /\ tSetup \in Setups /\ tLimit \in Limits /\ tMon \in Monitors /\ tSeconds \in Nat /\ tMarked \in Marks
  /\ tMon.since <= StepInterval
LimitsHold ==
  /\ DecideBudgetAction(tSetup) # "apply" => tLimit = tSetup.user /\ ~tMon.steps
  /\ tUi = "apply" => tMon = IdleMonitor
  /\ tMon.steps =>
       /\ tLimit.hard = tMon.hard /\ tLimit.soft = StartOf(tSetup).soft /\ tMon.floor = StartOf(tSetup).soft
       /\ tMon.floor <= tMon.hard /\ tMon.hard <= StartOf(tSetup).hard
       /\ Paced(StartOf(tSetup).hard - tMon.hard, tMon.since, tSeconds)
MarksHold ==
  /\ tMarked.accepted = tMarked.lines + tMarked.dropped + tMon.marks + tMon.taken
  /\ tMon.thread # "works" => tMon.taken = 0
  /\ tMon.thread \in {"none", "ended"} => tMon.marks = 0
  /\ tMon.thread = "none" => ~tMon.running
  /\ tMon.stop => tUi \in {"joins", "stopped"}
  /\ tMon.thread = "works" /\ tMon.stopping => tMon.stop /\ tMon.marks = 0
  /\ tMon.thread = "ended" => tMon.stop
  /\ tUi = "publish" => tMon.thread # "none"
  /\ tUi = "stopped" => tMon.thread \in {"none", "ended"}
BudgetInv == BudgetTypes /\ LimitsHold /\ MarksHold

LEMMA SetupTypes ==
  ASSUME NEW s \in Setups
  PROVE  /\ s.budget \in Nat /\ s.scale \in Nat /\ s.cap \in Nat /\ s.user \in Limits
         /\ StartOf(s).soft \in Nat /\ StartOf(s).hard \in Nat /\ StartOf(s).floor = StartOf(s).soft
         /\ StartOf(s).soft <= StartOf(s).hard
<1>1. s.budget \in Nat /\ s.scale \in Nat /\ s.cap \in Nat
  BY BudgetAssumption DEF Setups
<1>2. s.user \in Limits
  BY DEF Setups, UserChoices, SdkLimits, Limits
<1> QED BY <1>1, <1>2, StartLimits DEF StartOf

LEMMA IdleTypes ==
  /\ IdleMonitor \in Monitors /\ ~IdleMonitor.steps /\ IdleMonitor.thread = "none" /\ ~IdleMonitor.running
  /\ ~IdleMonitor.stop /\ IdleMonitor.marks = 0 /\ IdleMonitor.taken = 0 /\ IdleMonitor.since = StepInterval
BY BudgetAssumption DEF IdleMonitor, Monitors

LEMMA StartedTypes ==
  ASSUME NEW hard \in Nat, NEW floor \in Nat, NEW steps \in BOOLEAN
  PROVE  LET m == Started(hard, floor, steps)
         IN /\ m \in Monitors /\ (m.steps <=> steps) /\ m.thread = "waits" /\ m.hard = hard /\ m.floor = floor
            /\ ~m.running /\ ~m.stop /\ m.marks = 0 /\ m.taken = 0 /\ m.since = StepInterval
BY BudgetAssumption DEF Started, IdleMonitor, Monitors

LEMMA BudgetStarts == BudgetInit => BudgetInv
<1> SUFFICES ASSUME BudgetInit  PROVE BudgetInv
  OBVIOUS
<1>1. /\ tSetup \in Setups /\ tLimit = tSetup.user /\ tUi = "apply" /\ tMon = IdleMonitor /\ tSeconds = 0
      /\ tMarked = [accepted |-> 0, lines |-> 0, dropped |-> 0]
  BY DEF BudgetInit
<1>2. StepInterval \in Nat /\ tSetup.user \in Limits /\ tMarked \in Marks
  BY <1>1, SetupTypes, BudgetAssumption DEF Marks
<1> QED BY <1>1, <1>2, IdleTypes DEF BudgetInv, BudgetTypes, LimitsHold, MarksHold

LEMMA ApplyKeeps ==
  ASSUME BudgetInv, ApplyTextureCacheBudget
  PROVE  BudgetInv'
<1> DEFINE action == DecideBudgetAction(tSetup)
           limits == StartOf(tSetup)
           starts == action = "apply" \/ (action = "userSet" /\ tSetup.census)
<1>1. /\ tUi = "apply" /\ UNCHANGED <<tSetup, tSeconds, tMarked>>
      /\ tLimit' = (IF action = "apply" THEN [soft |-> limits.soft, hard |-> limits.hard] ELSE tLimit)
      /\ tMon' = (IF action = "apply" THEN Started(limits.hard, limits.floor, TRUE)
                  ELSE IF starts THEN Started(tLimit.hard, tLimit.hard, FALSE) ELSE tMon)
      /\ tUi' = (IF starts THEN "publish" ELSE "live")
  BY DEF ApplyTextureCacheBudget, StartOf
<1>2. /\ tSetup \in Setups /\ tLimit \in Limits /\ tMon = IdleMonitor /\ tSeconds \in Nat /\ tMarked \in Marks
      /\ tMarked.accepted = tMarked.lines + tMarked.dropped + tMon.marks + tMon.taken /\ StepInterval \in Nat
  BY <1>1, BudgetAssumption DEF BudgetInv, BudgetTypes, LimitsHold, MarksHold
<1>3. /\ limits.soft \in Nat /\ limits.hard \in Nat /\ limits.floor = limits.soft /\ limits.soft <= limits.hard
      /\ tLimit.hard \in Nat
  BY <1>2, SetupTypes DEF Limits
<1>4. StartOf(tSetup)' = limits /\ DecideBudgetAction(tSetup)' = action
  BY <1>1 DEF StartOf, DecideBudgetAction
<1>5. tMarked.accepted = tMarked.lines + tMarked.dropped + 0 + 0
  BY <1>2, IdleTypes
<1> HIDE DEF limits, action
<1>6. ASSUME NEW hard \in Nat, NEW floor \in Nat, NEW steps \in BOOLEAN, tMon' = Started(hard, floor, steps), tUi' = "publish",
             tLimit' \in Limits
      PROVE  BudgetTypes' /\ MarksHold'
  <2>1. /\ tMon' \in Monitors /\ tMon'.thread = "waits" /\ tMon'.marks = 0 /\ tMon'.taken = 0 /\ ~tMon'.stop
        /\ tMon'.since = StepInterval
    BY <1>6, StartedTypes
  <2>2. tMarked'.accepted = tMarked'.lines + tMarked'.dropped + tMon'.marks + tMon'.taken
    BY <1>1, <1>5, <2>1
  <2>3. tMon'.since <= StepInterval
    BY <1>2, <2>1
  <2>4. BudgetTypes'
    BY <1>1, <1>2, <1>6, <2>1, <2>3 DEF BudgetTypes
  <2>5. MarksHold'
    BY <1>6, <2>1, <2>2 DEF MarksHold
  <2> QED BY <2>4, <2>5
<1>7. CASE action = "apply"
  <2>1. /\ tLimit' = [soft |-> limits.soft, hard |-> limits.hard] /\ tMon' = Started(limits.hard, limits.soft, TRUE)
        /\ tUi' = "publish"
    BY <1>1, <1>3, <1>7
  <2>2. tLimit' \in Limits /\ tLimit'.soft = limits.soft /\ tLimit'.hard = limits.hard
    BY <1>3, <2>1 DEF Limits
  <2>3. tMon'.steps /\ tMon'.hard = limits.hard /\ tMon'.floor = limits.soft
    BY <1>3, <2>1, StartedTypes
  <2>4. Paced(limits.hard - limits.hard, tMon'.since, tSeconds')
    <3>1. limits.hard - limits.hard <= kStepMb * 0 /\ 0 \in Nat
      BY <1>3 DEF kStepMb
    <3> QED BY <3>1 DEF Paced
  <2>5. tMon'.floor <= tMon'.hard /\ tMon'.hard <= limits.hard /\ tLimit'.hard = tMon'.hard
    BY <1>3, <2>2, <2>3
  <2>6. Paced(limits.hard - tMon'.hard, tMon'.since, tSeconds')
    BY <2>3, <2>4
  <2>7. LimitsHold'
    BY <1>4, <1>7, <2>1, <2>2, <2>3, <2>5, <2>6 DEF LimitsHold
  <2> QED BY <1>3, <1>6, <2>1, <2>2, <2>7 DEF BudgetInv
<1>8. CASE action # "apply" /\ starts
  <2>1. tLimit' = tLimit /\ tMon' = Started(tLimit.hard, tLimit.hard, FALSE) /\ tUi' = "publish"
    BY <1>1, <1>8
  <2>2. ~tMon'.steps
    BY <1>3, <2>1, StartedTypes
  <2>3. LimitsHold'
    BY <1>1, <1>8, <2>1, <2>2 DEF BudgetInv, LimitsHold, action
  <2> QED BY <1>2, <1>3, <1>6, <2>1, <2>3 DEF BudgetInv
<1>9. CASE action # "apply" /\ ~starts
  <2>1. tLimit' = tLimit /\ tMon' = tMon /\ tUi' = "live"
    BY <1>1, <1>9
  <2> QED BY <1>1, <1>2, <1>5, <1>9, <2>1, IdleTypes DEF BudgetInv, BudgetTypes, LimitsHold, MarksHold, action
<1> QED BY <1>7, <1>8, <1>9

\* Steps of the UI thread that leave the limits and the clock alone.
LEMMA LimitsStay ==
  ASSUME BudgetInv, UNCHANGED <<tSetup, tLimit, tSeconds>>, tUi' # "apply",
         tMon'.steps = tMon.steps, tMon'.hard = tMon.hard, tMon'.floor = tMon.floor, tMon'.since = tMon.since
  PROVE  LimitsHold'
BY DEF BudgetInv, LimitsHold, Paced, StartOf

LEMMA UiKeeps ==
  ASSUME BudgetInv, StoresRunning \/ MonitorMark \/ StopTextureCacheBudgetMonitor \/ JoinsMonitor
  PROVE  BudgetInv'
<1>1. /\ tSetup \in Setups /\ tLimit \in Limits /\ tMon \in Monitors /\ tSeconds \in Nat /\ tMarked \in Marks
      /\ tMon.marks \in Nat /\ tMon.taken \in Nat /\ tMon.since <= StepInterval
      /\ tMarked.accepted \in Nat /\ tMarked.lines \in Nat /\ tMarked.dropped \in Nat
      /\ UNCHANGED <<tSetup, tLimit, tSeconds>>
  BY DEF BudgetInv, BudgetTypes, Monitors, Marks, StoresRunning, MonitorMark, StopTextureCacheBudgetMonitor,
         JoinsMonitor
<1>2. CASE StoresRunning
  <2>1. tUi = "publish" /\ tUi' = "live" /\ tMon' = [tMon EXCEPT !.running = TRUE] /\ tMarked' = tMarked
    BY <1>2 DEF StoresRunning
  <2>2. /\ tMon' \in Monitors /\ tMon'.steps = tMon.steps /\ tMon'.hard = tMon.hard /\ tMon'.floor = tMon.floor
        /\ tMon'.since = tMon.since /\ tMon'.marks = tMon.marks /\ tMon'.taken = tMon.taken
        /\ tMon'.thread = tMon.thread /\ tMon'.stop = tMon.stop /\ tMon'.stopping = tMon.stopping
    BY <1>1, <2>1 DEF Monitors
  <2>3. MarksHold'
    BY <1>1, <2>1, <2>2 DEF BudgetInv, MarksHold
  <2> QED BY <1>1, <2>1, <2>2, <2>3, LimitsStay DEF BudgetInv, BudgetTypes
<1>3. CASE MonitorMark
  <2> DEFINE more == tMon.marks + 1
  <2>1. more \in Nat
    BY <1>1
  <2>2. /\ tUi = "live" /\ tUi' = tUi /\ tMon.running /\ tMon' = [tMon EXCEPT !.marks = more]
        /\ tMarked' = [tMarked EXCEPT !.accepted = tMarked.accepted + 1]
    BY <1>3 DEF MonitorMark
  <2> HIDE DEF more
  <2>3. /\ tMon' \in Monitors /\ tMon'.steps = tMon.steps /\ tMon'.hard = tMon.hard /\ tMon'.floor = tMon.floor
        /\ tMon'.since = tMon.since /\ tMon'.marks = more /\ tMon'.taken = tMon.taken
        /\ tMon'.thread = tMon.thread /\ tMon'.stop = tMon.stop /\ tMon'.stopping = tMon.stopping
        /\ tMon'.running = tMon.running
    BY <1>1, <2>2, <2>1 DEF Monitors
  <2>4. /\ tMarked' \in Marks /\ tMarked'.accepted = tMarked.accepted + 1 /\ tMarked'.lines = tMarked.lines
        /\ tMarked'.dropped = tMarked.dropped
    BY <1>1, <2>2 DEF Marks
  <2>5. ~tMon.stop /\ tMon.thread \notin {"none", "ended"}
    BY <2>2 DEF BudgetInv, MarksHold
  <2>6. tMarked'.accepted = tMarked'.lines + tMarked'.dropped + tMon'.marks + tMon'.taken
    BY <1>1, <2>3, <2>4 DEF BudgetInv, MarksHold, more
  <2>7. MarksHold'
    BY <2>2, <2>3, <2>5, <2>6 DEF BudgetInv, MarksHold
  <2> QED BY <1>1, <2>2, <2>3, <2>4, <2>7, LimitsStay DEF BudgetInv, BudgetTypes
<1>4. CASE StopTextureCacheBudgetMonitor
  <2> DEFINE any == tMon.thread # "none"
  <2>1. /\ tUi = "live" /\ tUi' = (IF any THEN "joins" ELSE "stopped") /\ tMarked' = tMarked
        /\ tMon' = [tMon EXCEPT !.running = FALSE, !.stop = any] /\ any \in BOOLEAN
    BY <1>4 DEF StopTextureCacheBudgetMonitor
  <2>2. /\ tMon' \in Monitors /\ tMon'.steps = tMon.steps /\ tMon'.hard = tMon.hard /\ tMon'.floor = tMon.floor
        /\ tMon'.since = tMon.since /\ tMon'.marks = tMon.marks /\ tMon'.taken = tMon.taken
        /\ tMon'.thread = tMon.thread /\ tMon'.stop = any /\ tMon'.stopping = tMon.stopping
        /\ ~tMon'.running
    BY <1>1, <2>1 DEF Monitors
  <2>3. MarksHold'
    BY <1>1, <2>1, <2>2 DEF BudgetInv, MarksHold
  <2> QED BY <1>1, <2>1, <2>2, <2>3, LimitsStay DEF BudgetInv, BudgetTypes
<1>5. CASE JoinsMonitor
  <2>1. tMon.thread = "ended" /\ tUi = "joins" /\ tUi' = "stopped" /\ tMon' = tMon /\ tMarked' = tMarked
    BY <1>5 DEF JoinsMonitor
  <2>2. MarksHold'
    BY <1>1, <2>1 DEF BudgetInv, MarksHold
  <2> QED BY <1>1, <2>1, <2>2, LimitsStay DEF BudgetInv, BudgetTypes
<1> QED BY <1>2, <1>3, <1>4, <1>5

LEMMA MonitorWakesKeeps ==
  ASSUME BudgetInv, NEW seconds \in 0..1, MonitorWakes(seconds)
  PROVE  BudgetInv'
<1> DEFINE woke == tMon.stop \/ tMon.marks > 0
           since == Min({tMon.since + seconds, StepInterval})
<1>1. /\ tSetup \in Setups /\ tLimit \in Limits /\ tMon \in Monitors /\ tSeconds \in Nat /\ tMarked \in Marks
      /\ tMon.marks \in Nat /\ tMon.taken \in Nat /\ tMon.since \in Nat /\ tMon.since <= StepInterval
      /\ tMon.stop \in BOOLEAN /\ StepInterval \in Nat
      /\ tMarked.accepted \in Nat /\ tMarked.lines \in Nat /\ tMarked.dropped \in Nat
  BY BudgetAssumption DEF BudgetInv, BudgetTypes, Monitors, Marks
<1>2. /\ tMon.thread = "waits" /\ tSeconds' = tSeconds + seconds /\ UNCHANGED <<tSetup, tLimit, tUi, tMarked>>
      /\ tMon' = [tMon EXCEPT !.thread = "works", !.tick = ~woke, !.stopping = tMon.stop, !.marks = 0,
                              !.taken = tMon.marks, !.since = since]
  BY DEF MonitorWakes
<1>3. since \in Nat /\ since <= StepInterval /\ since <= tMon.since + seconds
  <2> DEFINE sum == tMon.since + seconds
  <2>1. sum \in Nat /\ since = Min({sum, StepInterval})
    BY <1>1
  <2> HIDE DEF sum, since
  <2>2. since = IF sum =< StepInterval THEN sum ELSE StepInterval
    BY <2>1, <1>1, MinOfTwo
  <2> QED BY <2>1, <2>2, <1>1 DEF sum, since
<1>4. (~woke) \in BOOLEAN
  OBVIOUS
<1> HIDE DEF since, woke
<1>5. /\ tMon' \in Monitors /\ tMon'.steps = tMon.steps /\ tMon'.hard = tMon.hard /\ tMon'.floor = tMon.floor
      /\ tMon'.since = since /\ tMon'.marks = 0 /\ tMon'.taken = tMon.marks /\ tMon'.running = tMon.running
      /\ tMon'.thread = "works" /\ tMon'.stop = tMon.stop /\ tMon'.stopping = tMon.stop
  BY <1>1, <1>2, <1>3, <1>4 DEF Monitors
<1>6. BudgetTypes'
  BY <1>1, <1>2, <1>3, <1>5 DEF BudgetTypes
<1>7. MarksHold'
  <2>1. tMarked'.accepted = tMarked'.lines + tMarked'.dropped + tMon'.marks + tMon'.taken
    BY <1>1, <1>2, <1>5 DEF BudgetInv, MarksHold
  <2>2. tUi # "stopped"
    BY <1>2 DEF BudgetInv, MarksHold
  <2> QED BY <1>2, <1>5, <2>1, <2>2 DEF BudgetInv, MarksHold
<1>8. tUi # "apply"
  BY <1>2, IdleTypes DEF BudgetInv, LimitsHold
<1>9. StartOf(tSetup)' = StartOf(tSetup) /\ DecideBudgetAction(tSetup)' = DecideBudgetAction(tSetup)
  BY <1>2 DEF StartOf, DecideBudgetAction
<1>10. ASSUME NEW drop \in Int, Paced(drop, tMon.since, tSeconds)  PROVE Paced(drop, tMon'.since, tSeconds')
  <2>1. PICK k \in Nat : drop <= kStepMb * k /\ (k = 0 \/ tSeconds >= (k - 1) * StepInterval + tMon.since)
    BY <1>10 DEF Paced
  <2> DEFINE due == (k - 1) * StepInterval
  <2>2. due \in Int
    BY <1>1
  <2>3. k = 0 \/ tSeconds >= due + tMon.since
    BY <2>1
  <2> HIDE DEF due
  <2>4. k = 0 \/ tSeconds' >= due + tMon'.since
    BY <1>1, <1>2, <1>3, <1>5, <2>2, <2>3
  <2> QED BY <2>1, <2>4 DEF Paced, due
<1>11. StartOf(tSetup).hard - tMon.hard \in Int
  BY <1>1, SetupTypes DEF Monitors
<1>12. LimitsHold'
  BY <1>2, <1>5, <1>8, <1>9, <1>10, <1>11 DEF BudgetInv, LimitsHold
<1> QED BY <1>6, <1>7, <1>12 DEF BudgetInv

LEMMA Lowered ==
  ASSUME tMon \in Monitors
  PROVE  LoweredHard \in Nat /\ LoweredHard >= tMon.floor /\ LoweredHard >= tMon.hard - kStepMb
<1> DEFINE less == IF tMon.hard > kStepMb THEN tMon.hard - kStepMb ELSE 0
<1>1. tMon.hard \in Nat /\ tMon.floor \in Nat /\ kStepMb \in Nat
  BY DEF Monitors, kStepMb
<1>2. less \in Nat /\ less >= tMon.hard - kStepMb /\ LoweredHard = Max({tMon.floor, less})
  BY <1>1 DEF LoweredHard
<1> HIDE DEF less
<1>3. LoweredHard = IF tMon.floor >= less THEN tMon.floor ELSE less
  BY <1>1, <1>2, MaxOfTwo
<1> QED BY <1>1, <1>2, <1>3

LEMMA MonitorWorksKeeps ==
  ASSUME BudgetInv, NEW have \in BOOLEAN, NEW near \in BOOLEAN, MonitorWorks(have, near)
  PROVE  BudgetInv'
<1> DEFINE steps == have /\ MayStep(near) /\ LoweredHard < tMon.hard /\ LoweredHard \in SdkHardRange
           sampled == tMon.sampled \/ have
           hard == IF steps THEN LoweredHard ELSE tMon.hard
           since == IF steps THEN 0 ELSE tMon.since
           next == IF tMon.stopping THEN "ended" ELSE "waits"
           lines == IF sampled THEN tMarked.lines + tMon.taken ELSE tMarked.lines
           dropped == IF sampled THEN tMarked.dropped ELSE tMarked.dropped + tMon.taken
<1>1. /\ tSetup \in Setups /\ tLimit \in Limits /\ tMon \in Monitors /\ tSeconds \in Nat /\ tMarked \in Marks
      /\ tMon.marks \in Nat /\ tMon.taken \in Nat /\ tMon.since \in Nat /\ tMon.since <= StepInterval /\ tMon.hard \in Nat
      /\ tMon.stop \in BOOLEAN /\ tMon.sampled \in BOOLEAN /\ StepInterval \in Nat /\ tMon.floor \in Nat
      /\ tMarked.accepted \in Nat /\ tMarked.lines \in Nat /\ tMarked.dropped \in Nat
  BY BudgetAssumption DEF BudgetInv, BudgetTypes, Monitors, Marks
<1>2. /\ tMon.thread = "works" /\ UNCHANGED <<tSetup, tUi, tSeconds>>
      /\ tLimit' = (IF steps THEN [tLimit EXCEPT !.hard = LoweredHard] ELSE tLimit)
      /\ tMon' = [tMon EXCEPT !.thread = next, !.hard = hard, !.since = since, !.sampled = sampled, !.taken = 0]
      /\ tMarked' = [tMarked EXCEPT !.lines = lines, !.dropped = dropped]
  BY DEF MonitorWorks
<1>3. LoweredHard \in Nat /\ LoweredHard >= tMon.floor /\ LoweredHard >= tMon.hard - kStepMb
  BY <1>1, Lowered
<1>4. steps => tMon.steps /\ tMon.since >= StepInterval /\ LoweredHard < tMon.hard
  BY DEF MayStep
<1>5. /\ hard \in Nat /\ since \in Nat /\ since <= StepInterval /\ sampled \in BOOLEAN /\ lines \in Nat /\ dropped \in Nat
      /\ lines + dropped = tMarked.lines + tMarked.dropped + tMon.taken
      /\ (steps => hard = LoweredHard /\ since = 0) /\ (~steps => hard = tMon.hard /\ since = tMon.since)
  BY <1>1, <1>3
<1>6. next \in {"ended", "waits"} /\ (next = "ended" <=> tMon.stopping)
  OBVIOUS
<1>7. (steps => tLimit' = [tLimit EXCEPT !.hard = LoweredHard]) /\ (~steps => tLimit' = tLimit)
  BY <1>2
<1> HIDE DEF steps, sampled, hard, since, next, lines, dropped
<1>8. /\ tMon' \in Monitors /\ tMon'.steps = tMon.steps /\ tMon'.hard = hard /\ tMon'.floor = tMon.floor
      /\ tMon'.since = since /\ tMon'.marks = tMon.marks /\ tMon'.taken = 0 /\ tMon'.running = tMon.running
      /\ tMon'.thread = next /\ tMon'.stop = tMon.stop /\ tMon'.stopping = tMon.stopping
  BY <1>1, <1>2, <1>5, <1>6 DEF Monitors
<1>9. tMarked' \in Marks /\ tMarked'.lines = lines /\ tMarked'.dropped = dropped /\ tMarked'.accepted = tMarked.accepted
  BY <1>1, <1>2, <1>5 DEF Marks
<1>10. tLimit' \in Limits /\ (steps => tLimit'.hard = LoweredHard /\ tLimit'.soft = tLimit.soft)
  BY <1>1, <1>3, <1>7 DEF Limits
<1>11. BudgetTypes'
  BY <1>1, <1>2, <1>5, <1>8, <1>9, <1>10 DEF BudgetTypes
<1>12. MarksHold'
  <2>1. tMarked'.accepted = tMarked'.lines + tMarked'.dropped + tMon'.marks + tMon'.taken
    BY <1>1, <1>5, <1>8, <1>9 DEF BudgetInv, MarksHold
  <2>2. tUi # "stopped" /\ (tMon.stopping => tMon.stop /\ tMon.marks = 0) /\ (tMon.stop => tUi \in {"joins", "stopped"})
    BY <1>2 DEF BudgetInv, MarksHold
  <2> QED BY <1>2, <1>6, <1>8, <2>1, <2>2 DEF MarksHold
<1>13. tUi # "apply"
  BY <1>2, IdleTypes DEF BudgetInv, LimitsHold
<1>14. StartOf(tSetup)' = StartOf(tSetup) /\ DecideBudgetAction(tSetup)' = DecideBudgetAction(tSetup)
  BY <1>2 DEF StartOf, DecideBudgetAction
<1>15. CASE ~steps
  BY <1>2, <1>5, <1>7, <1>8, <1>13, <1>14, <1>15, <1>11, <1>12 DEF BudgetInv, LimitsHold
<1>16. CASE steps
  <2> DEFINE top == StartOf(tSetup).hard
  <2>1. top \in Nat
    BY <1>1, SetupTypes
  <2>2. /\ tMon.steps /\ DecideBudgetAction(tSetup) = "apply" /\ tLimit.soft = StartOf(tSetup).soft
        /\ tMon.floor = StartOf(tSetup).soft /\ tMon.hard <= top /\ Paced(top - tMon.hard, tMon.since, tSeconds)
    BY <1>4, <1>16 DEF BudgetInv, LimitsHold
  <2>3. PICK k \in Nat : top - tMon.hard <= kStepMb * k /\ (k = 0 \/ tSeconds >= (k - 1) * StepInterval + tMon.since)
    BY <2>2 DEF Paced
  <2> HIDE DEF top
  <2>4. top - LoweredHard <= kStepMb * (k + 1)
    BY <1>1, <1>3, <2>1, <2>3 DEF kStepMb
  <2>5. tMon.since = StepInterval
    BY <1>1, <1>4, <1>16
  <2>6. tSeconds >= ((k + 1) - 1) * StepInterval + 0
    <3>1. CASE k = 0
      BY <1>1, <3>1
    <3>2. CASE k # 0
      <4>1. (k - 1) * StepInterval + StepInterval = ((k + 1) - 1) * StepInterval + 0
        BY <1>1
      <4> QED BY <2>3, <2>5, <3>2, <4>1
    <3> QED BY <3>1, <3>2
  <2>7. Paced(top - LoweredHard, 0, tSeconds)
    <3>1. k + 1 \in Nat
      OBVIOUS
    <3> QED BY <2>4, <2>6, <3>1 DEF Paced
  <2>8. LoweredHard <= top
    BY <1>1, <1>3, <1>4, <1>16, <2>1, <2>2
  <2>9. /\ tMon'.hard = LoweredHard /\ tMon'.since = 0
    BY <1>5, <1>8, <1>16
  <2>10. LimitsHold'
    BY <1>2, <1>3, <1>8, <1>10, <1>13, <1>14, <1>16, <2>2, <2>7, <2>8, <2>9 DEF LimitsHold, top
  <2> QED BY <1>11, <1>12, <2>10 DEF BudgetInv
<1> QED BY <1>15, <1>16

LEMMA BudgetSteps ==
  ASSUME BudgetInv, BudgetNext \/ UNCHANGED budgetVars
  PROVE  BudgetInv'
<1>1. CASE UNCHANGED budgetVars
  BY <1>1 DEF budgetVars, BudgetInv, BudgetTypes, LimitsHold, MarksHold, Paced, StartOf, DecideBudgetAction
<1> QED BY <1>1, ApplyKeeps, UiKeeps, MonitorWakesKeeps, MonitorWorksKeeps DEF BudgetNext, MonitorRound

LEMMA BudgetInvMeans == BudgetInv => LimitsAreKept
<1> SUFFICES ASSUME BudgetInv  PROVE LimitsAreKept
  OBVIOUS
<1> DEFINE limits == StartOf(tSetup)
<1>1. limits = DecideStartLimits(tSetup.budget, tSetup.scale, tSetup.cap)
  BY DEF StartOf
<1>2. DecideBudgetAction(tSetup) # "apply" => tLimit = tSetup.user
  BY DEF BudgetInv, LimitsHold
<1>3. tUi = "stopped" => tMarked.lines + tMarked.dropped = tMarked.accepted
  <2>1. tMarked.lines \in Nat /\ tMarked.dropped \in Nat
    BY DEF BudgetInv, BudgetTypes, Marks
  <2> QED BY <2>1 DEF BudgetInv, MarksHold
<1>4. ASSUME tMon.steps
      PROVE  /\ tLimit.hard = tMon.hard /\ tLimit.soft = limits.soft
             /\ tLimit.soft <= tLimit.hard /\ tLimit.hard <= limits.hard
             /\ limits.hard - tLimit.hard <= kStepMb * (1 + tSeconds \div StepInterval)
  <2>1. /\ tLimit.hard = tMon.hard /\ tLimit.soft = limits.soft /\ tMon.floor = limits.soft
        /\ tMon.floor <= tMon.hard /\ tMon.hard <= limits.hard /\ Paced(limits.hard - tMon.hard, tMon.since, tSeconds)
    BY <1>4 DEF BudgetInv, LimitsHold
  <2>2. tSeconds \in Nat /\ tMon.since \in Nat /\ StepInterval \in Nat \ {0} /\ tMon.hard \in Nat /\ limits.hard \in Nat
    BY SetupTypes, BudgetAssumption DEF BudgetInv, BudgetTypes, Monitors
  <2>3. PICK k \in Nat : limits.hard - tMon.hard <= kStepMb * k
                         /\ (k = 0 \/ tSeconds >= (k - 1) * StepInterval + tMon.since)
    BY <2>1 DEF Paced
  <2> DEFINE q == tSeconds \div StepInterval
  <2>4. q \in Nat
    BY <2>2
  <2>5. k <= 1 + q
    <3>1. CASE k = 0
      BY <2>4, <3>1
    <3>2. CASE k # 0
      <4>1. k - 1 \in Nat /\ (k - 1) * StepInterval \in Nat
        BY <2>2, <3>2
      <4>2. tSeconds >= (k - 1) * StepInterval
        BY <2>2, <2>3, <3>2, <4>1
      <4>3. k - 1 <= q
        BY <2>2, <4>1, <4>2, WholeIntervals
      <4> QED BY <2>4, <4>3
    <3> QED BY <3>1, <3>2
  <2> HIDE DEF q, limits
  <2>6. limits.hard - tMon.hard <= kStepMb * (1 + q)
    BY <2>2, <2>3, <2>4, <2>5 DEF kStepMb
  <2> QED BY <2>1, <2>6 DEF q
<1> HIDE DEF limits
<1> QED BY <1>1, <1>2, <1>3, <1>4 DEF LimitsAreKept

-----------------------------------------------------------------------------
\* The settings the user made outlive every pause, photo, timeout and shutdown,
\* and every edit in between (mcla_menu_state, mcla_photo_capture); texture
\* limits are the host's only where the user left them alone, and then stay in
\* order and at their pace for any budget (mcla_texture_budget_win).
THEOREM UserSettingsStay == MenuSpec /\ PhotoSpec /\ BudgetSpec => []UserSettingsHold
<1>1. MenuSpec => []MenuInv
  <2>1. MenuInv /\ [MenuNext]_menuVars => MenuInv'
    BY MenuSteps
  <2> QED BY MenuStarts, <2>1, PTL DEF MenuSpec
<1>2. PhotoSpec => []PhotoInv
  <2>1. PhotoInv /\ [PhotoNext]_photoVars => PhotoInv'
    BY PhotoSteps
  <2> QED BY PhotoStarts, <2>1, PTL DEF PhotoSpec
<1>3. BudgetSpec => []BudgetInv
  <2>1. BudgetInv /\ [BudgetNext]_budgetVars => BudgetInv'
    BY BudgetSteps
  <2> QED BY BudgetStarts, <2>1, PTL DEF BudgetSpec
<1>4. MenuInv /\ PhotoInv /\ BudgetInv => UserSettingsHold
  BY PhotoInvMeans, BudgetInvMeans DEF MenuInv, UserSettingsHold, SwitchesGiveBack
<1> QED BY <1>1, <1>2, <1>3, <1>4, PTL

-----------------------------------------------------------------------------
(* Native reference counts.                                                 *)
(*                                                                          *)
(* A count is the references that are held and those of the calls that have *)
(* counted and not yet returned, or not yet counted; the parent's has one   *)
(* more while the child keeps it.  References are kept apart as tokens, so  *)
(* the count is the cardinality of a set that a step changes by one.        *)

CallFrames == [op : {"add", "release"}, object : Resources,
               at : {"load", "swap", "decide", "return", "destroy"}, raw : Int]
Alone(f) == /\ f.at = "return" => f.op = "add" /\ f.object = "child"
            /\ f.at = "destroy" => f.op = "release"
Nested(g, f) ==
  /\ g.object = "parent" /\ f.object = "child" /\ g.op = f.op /\ g.at # "return"
  /\ f.op = "add" => f.at = "return" /\ g.at # "destroy"
  /\ f.op = "release" => f.at = "destroy"
StackOK(s) == \/ s = <<>>
              \/ \E f \in CallFrames : s = <<f>> /\ Alone(f)
              \/ \E g, f \in CallFrames : s = <<g, f>> /\ Nested(g, f)

\* What a frame says of its call.
Counting(f, o) == f.object = o /\ \/ f.op = "add" /\ f.at \in {"decide", "return"}
                                  \/ f.op = "release" /\ f.at \in {"load", "swap"}
RaisingF(f, o) == f.object = o /\ f.op = "add" /\ f.at \in {"load", "swap"}
OpeningF(f) == f.object = "child" /\ f.op = "add" /\ f.at = "decide" /\ f.raw = 0
ReturningF(f) == f.object = "child" /\ f.op = "add" /\ f.at = "return"
PartingF(f) == f.object = "child" /\ f.op = "release" /\ f.at = "decide" /\ f.raw = 1
DestroyingF(f, o) == f.object = o /\ f.op = "release" /\ (f.at = "destroy" \/ (f.at = "decide" /\ f.raw = 1))

\* What the calls of a thread say, from its stack.
On(s, o) == \E i \in DOMAIN s : s[i].object = o
Counted(s, o) == \E i \in DOMAIN s : Counting(s[i], o)
Raising(s, o) == \E i \in DOMAIN s : RaisingF(s[i], o)
Opening(s) == \/ \E i \in DOMAIN s : OpeningF(s[i])
              \/ On(s, "parent") /\ \E i \in DOMAIN s : ReturningF(s[i])
Parting(s) == \E i \in DOMAIN s : PartingF(s[i])
Destroying(s, o) == \E i \in DOMAIN s : DestroyingF(s[i], o)

LEMMA ViewNone ==
  /\ \A o : ~On(<<>>, o) /\ ~Counted(<<>>, o) /\ ~Raising(<<>>, o) /\ ~Destroying(<<>>, o)
  /\ ~Opening(<<>>) /\ ~Parting(<<>>)
BY DEF On, Counted, Raising, Opening, Parting, Destroying

LEMMA ViewOne ==
  ASSUME NEW f
  PROVE  /\ \A o : /\ On(<<f>>, o) <=> f.object = o
                   /\ Counted(<<f>>, o) <=> Counting(f, o)
                   /\ Raising(<<f>>, o) <=> RaisingF(f, o)
                   /\ Destroying(<<f>>, o) <=> DestroyingF(f, o)
         /\ Opening(<<f>>) <=> OpeningF(f)
         /\ Parting(<<f>>) <=> PartingF(f)
<1> DEFINE s == <<f>>
<1>1. DOMAIN s = {1} /\ s[1] = f
  OBVIOUS
<1> HIDE DEF s
<1>2. \A o : /\ On(s, o) <=> f.object = o
             /\ Counted(s, o) <=> Counting(f, o)
             /\ Raising(s, o) <=> RaisingF(f, o)
             /\ Destroying(s, o) <=> DestroyingF(f, o)
  BY <1>1 DEF On, Counted, Raising, Destroying
<1>3. Parting(s) <=> PartingF(f)
  BY <1>1 DEF Parting
<1>4. Opening(s) <=> OpeningF(f)
  <2>1. ~(f.object = "parent" /\ f.object = "child")
    OBVIOUS
  <2> QED BY <1>1, <2>1 DEF Opening, On, ReturningF
<1> QED BY <1>2, <1>3, <1>4 DEF s

LEMMA ViewTwo ==
  ASSUME NEW g, NEW f
  PROVE  /\ \A o : /\ On(<<g, f>>, o) <=> g.object = o \/ f.object = o
                   /\ Counted(<<g, f>>, o) <=> Counting(g, o) \/ Counting(f, o)
                   /\ Raising(<<g, f>>, o) <=> RaisingF(g, o) \/ RaisingF(f, o)
                   /\ Destroying(<<g, f>>, o) <=> DestroyingF(g, o) \/ DestroyingF(f, o)
         /\ Opening(<<g, f>>) <=> \/ OpeningF(g) \/ OpeningF(f)
                                  \/ (g.object = "parent" \/ f.object = "parent") /\ (ReturningF(g) \/ ReturningF(f))
         /\ Parting(<<g, f>>) <=> PartingF(g) \/ PartingF(f)
<1> DEFINE s == <<g, f>>
<1>1. DOMAIN s = {1, 2} /\ s[1] = g /\ s[2] = f
  OBVIOUS
<1> HIDE DEF s
<1>2. \A o : /\ On(s, o) <=> g.object = o \/ f.object = o
             /\ Counted(s, o) <=> Counting(g, o) \/ Counting(f, o)
             /\ Raising(s, o) <=> RaisingF(g, o) \/ RaisingF(f, o)
             /\ Destroying(s, o) <=> DestroyingF(g, o) \/ DestroyingF(f, o)
  BY <1>1 DEF On, Counted, Raising, Destroying
<1>3. Parting(s) <=> PartingF(g) \/ PartingF(f)
  BY <1>1 DEF Parting
<1>4. Opening(s) <=> \/ OpeningF(g) \/ OpeningF(f)
                     \/ (g.object = "parent" \/ f.object = "parent") /\ (ReturningF(g) \/ ReturningF(f))
  BY <1>1 DEF Opening, On
<1> QED BY <1>2, <1>3, <1>4 DEF s

\* The stack of a thread in a call: one frame, or the parent's above the child's.
LEMMA Stacks ==
  ASSUME NEW f \in CallFrames, NEW g \in CallFrames, NEW x \in CallFrames, NEW y \in CallFrames
  PROVE  /\ <<f>> # <<>> /\ Head(<<f>>) = f /\ Tail(<<f>>) = <<>> /\ Len(<<f>>) = 1
         /\ <<x>> \o Tail(<<f>>) = <<x>> /\ <<x, y>> \o Tail(<<f>>) = <<x, y>>
         /\ <<g, f>> # <<>> /\ Head(<<g, f>>) = g /\ Tail(<<g, f>>) = <<f>> /\ Len(<<g, f>>) = 2
         /\ <<x>> \o Tail(<<g, f>>) = <<x, f>>
<1>1. Tail(<<f>>) = <<>> /\ Tail(<<g, f>>) = <<f>>
  OBVIOUS
<1>2. <<f>> \in Seq(CallFrames) /\ <<g, f>> \in Seq(CallFrames) /\ <<x>> \in Seq(CallFrames)
      /\ <<x, y>> \in Seq(CallFrames) /\ <<>> \in Seq(CallFrames)
  OBVIOUS
<1>3. <<x>> \o <<>> = <<x>> /\ <<x, y>> \o <<>> = <<x, y>> /\ <<x>> \o <<f>> = <<x, f>>
  <2>1. <<x>> \o <<>> = <<x>> /\ <<x, y>> \o <<>> = <<x, y>>
    <3>1. <<x, y>> \in Seq(CallFrames)
      OBVIOUS
    <3> QED BY <1>2, <3>1, ConcatEmptySeq
  <2> DEFINE s == <<x>> \o <<f>>
  <2>2. /\ s \in Seq(CallFrames) /\ Len(s) = 2
        /\ \A i \in 1..2 : s[i] = IF i <= 1 THEN x ELSE <<f>>[i - 1]
    <3>1. Len(<<x>>) = 1 /\ Len(<<f>>) = 1 /\ <<x>>[1] = x /\ Len(<<x>>) + Len(<<f>>) = 2
      OBVIOUS
    <3>2. \A i \in 1..2 : i <= 1 => <<x>>[i] = x
      OBVIOUS
    <3> QED BY <1>2, <3>1, <3>2, ConcatProperties
  <2>3. s[1] = x /\ s[2] = f
    BY <2>2
  <2> HIDE DEF s
  <2>4. \A i \in 1..Len(s) : s[i] = <<x, f>>[i]
    BY <2>2, <2>3
  <2>5. <<x, f>> \in Seq(CallFrames) /\ Len(<<x, f>>) = 2
    OBVIOUS
  <2>6. s = <<x, f>>
    BY <2>2, <2>4, <2>5, SeqEqual
  <2> QED BY <2>1, <2>6 DEF s
<1> QED BY <1>1, <1>3

RefTypes ==
  /\ rCount \in [Resources -> Nat] /\ rDestroyed \in [Resources -> {0, 1}] /\ rFresh \in BOOLEAN
  /\ rHeld \in [GuestThreads -> [Resources -> Nat]]
  /\ DOMAIN rStack = GuestThreads /\ \A t \in GuestThreads : StackOK(rStack[t])

\* The references of a thread by number; 0 is the one of its call.
Tokens(o) == {x \in GuestThreads \X Nat : IF x[2] = 0 THEN Counted(rStack[x[1]], o) ELSE x[2] <= rHeld[x[1]][o]}

\* From the return of the inner AddRef to the call of the inner Release.
KeptByChild == \/ rCount["child"] > 0 /\ \A t \in GuestThreads : ~Opening(rStack[t])
               \/ \E t \in GuestThreads : Parting(rStack[t])
CountsAreTokens ==
  /\ \A o \in Resources : IsFiniteSet(Tokens(o))
  /\ rCount["child"] = Cardinality(Tokens("child"))
  /\ rCount["parent"] = Cardinality(Tokens("parent")) + (IF KeptByChild THEN 1 ELSE 0)

\* The child's first reference is made by one thread, which holds the parent.
Creating(t) == /\ rCount["child"] = 0 /\ rDestroyed["child"] = 0 /\ rHeld[t]["parent"] > 0
               /\ \A u \in GuestThreads : u # t => ~On(rStack[u], "child")
FreshIsUnused == rFresh => /\ rCount["child"] = 0 /\ rDestroyed["child"] = 0
                           /\ \A t \in GuestThreads : ~On(rStack[t], "child")
RaisersHold ==
  \A t \in GuestThreads : /\ Raising(rStack[t], "parent") => rHeld[t]["parent"] > 0
                          /\ Raising(rStack[t], "child") => rHeld[t]["child"] > 0 \/ Creating(t)
OpenersHold ==
  \A t \in GuestThreads :
    Opening(rStack[t]) => /\ rHeld[t]["parent"] > 0 /\ rCount["child"] = 1 /\ Counted(rStack[t], "child")
OneEnds ==
  \A o \in Resources, t \in GuestThreads :
    Destroying(rStack[t], o) => /\ rCount[o] = 0 /\ rDestroyed[o] = 0
                            /\ \A u \in GuestThreads : Destroying(rStack[u], o) => u = t
GoneIsZero == \A o \in Resources : rDestroyed[o] = 1 => rCount[o] = 0
ZeroIsAccounted ==
  /\ rCount["child"] = 0 => \/ rFresh \/ rDestroyed["child"] = 1
                            \/ \E t \in GuestThreads : Raising(rStack[t], "child") \/ Destroying(rStack[t], "child")
  /\ rCount["parent"] = 0 => rDestroyed["parent"] = 1 \/ \E t \in GuestThreads : Destroying(rStack[t], "parent")

RefIInv == /\ RefTypes /\ CountsAreTokens /\ FreshIsUnused /\ RaisersHold /\ OpenersHold
           /\ OneEnds /\ GoneIsZero /\ ZeroIsAccounted

LEMMA SetGrows ==
  ASSUME NEW S, IsFiniteSet(S), NEW x, x \notin S, NEW T, T = S \cup {x}
  PROVE  IsFiniteSet(T) /\ Cardinality(T) = Cardinality(S) + 1
BY FS_AddElement

LEMMA SetShrinks ==
  ASSUME NEW S, IsFiniteSet(S), NEW x \in S, NEW T, T = S \ {x}
  PROVE  /\ IsFiniteSet(T) /\ Cardinality(T) = Cardinality(S) - 1
         /\ Cardinality(S) \in Nat /\ Cardinality(T) \in Nat /\ Cardinality(S) >= 1
<1>1. IsFiniteSet(T) /\ Cardinality(T) = Cardinality(S) - 1
  BY FS_RemoveElement
<1>2. Cardinality(S) \in Nat /\ Cardinality(T) \in Nat
  BY <1>1, FS_CardinalityType
<1> QED BY <1>1, <1>2

LEMMA SetSwaps ==
  ASSUME NEW S, IsFiniteSet(S), NEW x \in S, NEW y, y \notin S, NEW T, T = (S \ {x}) \cup {y}
  PROVE  IsFiniteSet(T) /\ Cardinality(T) = Cardinality(S)
<1> DEFINE R == S \ {x}
<1>1. IsFiniteSet(R) /\ Cardinality(R) = Cardinality(S) - 1 /\ Cardinality(S) \in Nat
  BY SetShrinks
<1>2. y \notin R /\ T = R \cup {y}
  OBVIOUS
<1>3. IsFiniteSet(T) /\ Cardinality(T) = Cardinality(R) + 1
  BY <1>1, <1>2, SetGrows
<1>4. \A n \in Nat : (n - 1) + 1 = n
  OBVIOUS
<1> QED BY <1>1, <1>3, <1>4

LEMMA TokenMeans ==
  ASSUME NEW t \in GuestThreads, NEW o
  PROVE  /\ <<t, 0>> \in Tokens(o) <=> Counted(rStack[t], o)
         /\ \A i \in Nat \ {0} : <<t, i>> \in Tokens(o) <=> i <= rHeld[t][o]
BY DEF Tokens

\* Whoever holds a reference, or has one in a call, is counted.
LEMMA HeldIsCounted ==
  ASSUME RefIInv, NEW t \in GuestThreads, NEW o \in Resources, rHeld[t][o] > 0 \/ Counted(rStack[t], o)
  PROVE  rCount[o] >= 1
<1>1. \E x : x \in Tokens(o)
  <2>1. CASE rHeld[t][o] > 0
    <3>1. rHeld[t][o] \in Nat
      BY DEF RefIInv, RefTypes
    <3>2. 1 \in Nat \ {0} /\ 1 <= rHeld[t][o]
      BY <2>1, <3>1
    <3> QED BY <3>2, TokenMeans
  <2>2. CASE Counted(rStack[t], o)
    BY <2>2, TokenMeans
  <2> QED BY <2>1, <2>2
<1>2. PICK x : x \in Tokens(o)
  BY <1>1
<1>3. IsFiniteSet(Tokens(o))
  BY DEF RefIInv, CountsAreTokens
<1>4. Cardinality(Tokens(o)) \in Nat /\ Cardinality(Tokens(o)) >= 1
  BY <1>2, <1>3, SetShrinks
<1>5. CASE o = "child"
  BY <1>4, <1>5 DEF RefIInv, CountsAreTokens
<1>6. CASE o = "parent"
  <2>1. rCount["parent"] = Cardinality(Tokens("parent")) + (IF KeptByChild THEN 1 ELSE 0)
    BY DEF RefIInv, CountsAreTokens
  <2> QED BY <1>4, <1>6, <2>1
<1> QED BY <1>5, <1>6 DEF Resources

\* While the first reference to the child is made, it is the only one.
LEMMA OpenerIsAlone ==
  ASSUME RefIInv, NEW t \in GuestThreads, Opening(rStack[t])
  PROVE  /\ Tokens("child") = {<<t, 0>>}
         /\ \A u \in GuestThreads : /\ ~(rHeld[u]["child"] > 0)
                                    /\ Counted(rStack[u], "child") => u = t
                                    /\ Opening(rStack[u]) => u = t
<1> DEFINE T == Tokens("child")
<1>1. rCount["child"] = 1 /\ Counted(rStack[t], "child")
  BY DEF RefIInv, OpenersHold
<1>2. IsFiniteSet(T) /\ Cardinality(T) = 1
  BY <1>1 DEF RefIInv, CountsAreTokens, Resources
<1>3. <<t, 0>> \in T
  BY <1>1, TokenMeans
<1> HIDE DEF T
<1>4. IsFiniteSet(T \ {<<t, 0>>}) /\ Cardinality(T \ {<<t, 0>>}) = 0
  BY <1>2, <1>3, SetShrinks
<1>5. T = {<<t, 0>>}
  BY <1>3, <1>4, FS_EmptySet
<1>6. ASSUME NEW u \in GuestThreads
      PROVE  /\ ~(rHeld[u]["child"] > 0)
             /\ Counted(rStack[u], "child") => u = t
             /\ Opening(rStack[u]) => u = t
  <2>1. Counted(rStack[u], "child") => u = t
    <3>1. SUFFICES ASSUME Counted(rStack[u], "child") PROVE u = t
      OBVIOUS
    <3>2. <<u, 0>> \in T
      BY <3>1, TokenMeans DEF T
    <3>3. <<u, 0>> = <<t, 0>>
      BY <1>5, <3>2
    <3> QED BY <3>3
  <2>2. Opening(rStack[u]) => u = t
    BY <2>1 DEF RefIInv, OpenersHold
  <2>3. ~(rHeld[u]["child"] > 0)
    <3>1. SUFFICES ASSUME rHeld[u]["child"] > 0 PROVE FALSE
      OBVIOUS
    <3>2. rHeld[u]["child"] \in Nat
      BY DEF RefIInv, RefTypes, Resources
    <3>3. 1 \in Nat \ {0} /\ 1 <= rHeld[u]["child"]
      BY <3>1, <3>2
    <3>4. <<u, 1>> \in T
      BY <3>3, TokenMeans DEF T
    <3> QED BY <1>5, <3>4
  <2> QED BY <2>1, <2>2, <2>3
<1> QED BY <1>5, <1>6 DEF T

\* A step of one thread that neither counts nor decides anything; the thread
\* that makes the child's first reference may begin to reference the parent.
SameCalls(s, r) ==
  /\ \A o \in Resources : (Counted(r, o) <=> Counted(s, o)) /\ (Destroying(r, o) <=> Destroying(s, o))
  /\ Raising(r, "child") <=> Raising(s, "child")
  /\ Raising(r, "parent") => Raising(s, "parent") \/ Opening(s)
  /\ On(r, "child") => On(s, "child")
  /\ (Opening(r) <=> Opening(s)) /\ (Parting(r) <=> Parting(s))

LEMMA QuietCall ==
  ASSUME RefIInv, NEW t \in GuestThreads, UNCHANGED <<rCount, rFresh, rHeld, rDestroyed>>,
         NEW r, rStack' = [rStack EXCEPT ![t] = r], StackOK(r), SameCalls(rStack[t], r)
  PROVE  RefIInv'
<1>1. /\ DOMAIN rStack' = GuestThreads
      /\ \A u \in GuestThreads : rStack'[u] = IF u = t THEN r ELSE rStack[u]
  BY DEF RefIInv, RefTypes
<1>2. \A u \in GuestThreads :
        /\ \A o \in Resources : /\ Counted(rStack'[u], o) <=> Counted(rStack[u], o)
                                /\ Destroying(rStack'[u], o) <=> Destroying(rStack[u], o)
        /\ Raising(rStack'[u], "child") <=> Raising(rStack[u], "child")
        /\ Raising(rStack'[u], "parent") => Raising(rStack[u], "parent") \/ Opening(rStack[u])
        /\ On(rStack'[u], "child") => On(rStack[u], "child")
        /\ (Opening(rStack'[u]) <=> Opening(rStack[u])) /\ (Parting(rStack'[u]) <=> Parting(rStack[u]))
  BY <1>1 DEF SameCalls
<1>3. RefTypes'
  BY <1>1 DEF RefIInv, RefTypes
<1>4. \A o \in Resources : Tokens(o)' = Tokens(o)
  BY <1>2 DEF Tokens
<1>5. KeptByChild' <=> KeptByChild
  BY <1>2 DEF KeptByChild
<1>6. CountsAreTokens'
  <2>1. "child" \in Resources /\ "parent" \in Resources
    BY DEF Resources
  <2> QED BY <1>4, <1>5, <2>1 DEF RefIInv, CountsAreTokens
<1>7. FreshIsUnused'
  BY <1>2 DEF RefIInv, FreshIsUnused, Resources
<1>8. RaisersHold'
  BY <1>2 DEF RefIInv, RaisersHold, OpenersHold, Creating
<1>9. OpenersHold'
  BY <1>2 DEF RefIInv, OpenersHold, Resources
<1>10. OneEnds'
  BY <1>2 DEF RefIInv, OneEnds
<1>11. GoneIsZero' /\ ZeroIsAccounted'
  BY <1>2 DEF RefIInv, GoneIsZero, ZeroIsAccounted, Resources
<1> QED BY <1>3, <1>6, <1>7, <1>8, <1>9, <1>10, <1>11 DEF RefIInv

\* The frame that a call begins with.
LEMMA CallBegins ==
  ASSUME NEW op \in {"add", "release"}, NEW o \in Resources
  PROVE  /\ Frame(op, o) \in CallFrames /\ StackOK(<<Frame(op, o)>>)
         /\ \A p : /\ On(<<Frame(op, o)>>, p) <=> p = o
                   /\ Counted(<<Frame(op, o)>>, p) <=> p = o /\ op = "release"
                   /\ Raising(<<Frame(op, o)>>, p) <=> p = o /\ op = "add"
                   /\ ~Destroying(<<Frame(op, o)>>, p)
         /\ ~Opening(<<Frame(op, o)>>) /\ ~Parting(<<Frame(op, o)>>)
<1> DEFINE f == Frame(op, o)
<1>1. f \in CallFrames /\ f.op = op /\ f.object = o /\ f.at = "load" /\ f.raw = 0
  BY DEF Frame, CallFrames
<1> HIDE DEF f
<1>2. StackOK(<<f>>)
  BY <1>1 DEF StackOK, Alone
<1>3. /\ \A p : /\ Counting(f, p) <=> p = o /\ op = "release"
                /\ RaisingF(f, p) <=> p = o /\ op = "add"
                /\ ~DestroyingF(f, p)
      /\ ~OpeningF(f) /\ ~PartingF(f)
  BY <1>1 DEF Counting, RaisingF, DestroyingF, OpeningF, PartingF
<1> QED BY <1>1, <1>2, <1>3, ViewOne DEF f

LEMMA CallAddStep ==
  ASSUME RefIInv, NEW t \in GuestThreads, NEW o \in Resources, CallAddRef(t, o)
  PROVE  RefIInv'
<1> DEFINE r == <<Frame("add", o)>>
<1>1. /\ rStack[t] = <<>> /\ rStack' = [rStack EXCEPT ![t] = r]
      /\ rHeld[t][o] > 0 \/ (rFresh /\ o = "child" /\ rHeld[t]["parent"] > 0)
      /\ rFresh' = (rFresh /\ o # "child") /\ UNCHANGED <<rCount, rHeld, rDestroyed>>
  BY DEF CallAddRef
<1>2. /\ StackOK(r)
      /\ \A p : /\ On(r, p) <=> p = o
                /\ Raising(r, p) <=> p = o
                /\ ~Counted(r, p) /\ ~Destroying(r, p)
      /\ ~Opening(r) /\ ~Parting(r)
  BY CallBegins
<1>3. /\ \A p : ~On(rStack[t], p) /\ ~Counted(rStack[t], p) /\ ~Raising(rStack[t], p) /\ ~Destroying(rStack[t], p)
      /\ ~Opening(rStack[t]) /\ ~Parting(rStack[t])
  BY <1>1, ViewNone
<1> HIDE DEF r
<1>4. /\ DOMAIN rStack' = GuestThreads /\ rStack'[t] = r
      /\ \A u \in GuestThreads : u # t => rStack'[u] = rStack[u]
  BY <1>1 DEF RefIInv, RefTypes
<1>5. \A u \in GuestThreads :
        /\ \A p \in Resources : /\ Counted(rStack'[u], p) <=> Counted(rStack[u], p)
                                /\ Destroying(rStack'[u], p) <=> Destroying(rStack[u], p)
                                /\ Raising(rStack[u], p) => Raising(rStack'[u], p)
        /\ (Opening(rStack'[u]) <=> Opening(rStack[u])) /\ (Parting(rStack'[u]) <=> Parting(rStack[u]))
  BY <1>2, <1>3, <1>4
<1>6. RefTypes'
  BY <1>1, <1>2, <1>4 DEF RefIInv, RefTypes
<1>7. \A p \in Resources : Tokens(p)' = Tokens(p)
  BY <1>1, <1>5 DEF Tokens
<1>8. KeptByChild' <=> KeptByChild
  BY <1>1, <1>5 DEF KeptByChild
<1>9. "child" \in Resources /\ "parent" \in Resources /\ "child" # "parent"
  BY DEF Resources
<1>10. CountsAreTokens'
  BY <1>1, <1>7, <1>8, <1>9 DEF RefIInv, CountsAreTokens
<1>11. CASE o = "child" /\ rFresh /\ rHeld[t]["parent"] > 0 /\ ~(rHeld[t][o] > 0)
  <2>1. rCount["child"] = 0 /\ rDestroyed["child"] = 0 /\ \A u \in GuestThreads : ~On(rStack[u], "child")
    BY <1>11 DEF RefIInv, FreshIsUnused
  <2>2. Creating(t)'
    BY <1>1, <1>4, <1>11, <2>1 DEF Creating
  <2>3. \A u \in GuestThreads : u # t => ~Raising(rStack'[u], "child")
    BY <1>4, <2>1 DEF On, Raising, RaisingF
  <2>4. RaisersHold'
    <3>1. ASSUME NEW u \in GuestThreads
          PROVE  /\ Raising(rStack'[u], "parent") => rHeld'[u]["parent"] > 0
                 /\ Raising(rStack'[u], "child") => rHeld'[u]["child"] > 0 \/ Creating(u)'
      <4>1. CASE u = t
        BY <1>1, <1>2, <1>4, <1>9, <1>11, <2>2, <4>1
      <4>2. CASE u # t
        BY <1>1, <1>4, <2>3, <4>2 DEF RefIInv, RaisersHold
      <4> QED BY <4>1, <4>2
    <3> QED BY <3>1 DEF RaisersHold
  <2>5. FreshIsUnused'
    BY <1>1, <1>11 DEF FreshIsUnused
  <2>6. ZeroIsAccounted'
    <3>1. Raising(rStack'[t], "child")
      BY <1>2, <1>4, <1>11
    <3> QED BY <1>1, <1>5, <1>9, <3>1 DEF RefIInv, ZeroIsAccounted
  <2>7. OpenersHold' /\ OneEnds' /\ GoneIsZero'
    BY <1>1, <1>5, <1>9 DEF RefIInv, OpenersHold, OneEnds, GoneIsZero
  <2> QED BY <1>6, <1>10, <2>4, <2>5, <2>6, <2>7 DEF RefIInv
<1>12. CASE rHeld[t][o] > 0
  <2>1. rCount[o] >= 1 /\ rCount[o] \in Nat
    BY <1>12, HeldIsCounted DEF RefIInv, RefTypes
  <2>2. rCount[o] # 0
    BY <2>1
  <2>3. FreshIsUnused'
    <3>1. SUFFICES ASSUME rFresh' PROVE rCount["child"] = 0 /\ rDestroyed["child"] = 0
                                         /\ \A u \in GuestThreads : ~On(rStack'[u], "child")
      BY <1>1 DEF FreshIsUnused
    <3>2. rFresh /\ o # "child"
      BY <1>1, <3>1
    <3>3. ~On(rStack'[t], "child")
      BY <1>2, <1>4, <3>2
    <3> QED BY <1>4, <3>2, <3>3 DEF RefIInv, FreshIsUnused
  <2>4. RaisersHold'
    <3>1. ASSUME NEW u \in GuestThreads
          PROVE  /\ Raising(rStack'[u], "parent") => rHeld'[u]["parent"] > 0
                 /\ Raising(rStack'[u], "child") => rHeld'[u]["child"] > 0 \/ Creating(u)'
      <4>1. CASE u = t
        BY <1>1, <1>2, <1>4, <1>12, <4>1
      <4>2. CASE u # t
        <5>1. /\ Raising(rStack[u], "parent") => rHeld[u]["parent"] > 0
              /\ Raising(rStack[u], "child") => rHeld[u]["child"] > 0 \/ Creating(u)
          BY DEF RefIInv, RaisersHold
        <5>2. ASSUME Creating(u) PROVE Creating(u)'
          <6>1. o # "child"
            BY <2>2, <5>2 DEF Creating
          <6>2. ~On(rStack'[t], "child")
            BY <1>2, <1>4, <6>1
          <6> QED BY <1>1, <1>4, <5>2, <6>2 DEF Creating
        <5> QED BY <1>1, <1>4, <4>2, <5>1, <5>2
      <4> QED BY <4>1, <4>2
    <3> QED BY <3>1 DEF RaisersHold
  <2>5. ZeroIsAccounted'
    <3>1. rCount["child"] = 0 => (rFresh' <=> rFresh)
      BY <1>1, <2>2
    <3> QED BY <1>1, <1>5, <1>9, <3>1 DEF RefIInv, ZeroIsAccounted
  <2>6. OpenersHold' /\ OneEnds' /\ GoneIsZero'
    BY <1>1, <1>5, <1>9 DEF RefIInv, OpenersHold, OneEnds, GoneIsZero
  <2> QED BY <1>6, <1>10, <2>3, <2>4, <2>5, <2>6 DEF RefIInv
<1> QED BY <1>1, <1>11, <1>12

\* A reference that a thread holds goes to its call, or to another thread.
LEMMA TokenMoves ==
  ASSUME RefIInv, RefTypes', NEW o \in Resources, UNCHANGED rCount,
         NEW x, NEW y, x \in Tokens(o), y \notin Tokens(o), Tokens(o)' = (Tokens(o) \ {x}) \cup {y},
         \A p \in Resources : p # o => Tokens(p)' = Tokens(p), KeptByChild' <=> KeptByChild
  PROVE  CountsAreTokens'
<1>1. \A p \in Resources : IsFiniteSet(Tokens(p))
  BY DEF RefIInv, CountsAreTokens
<1> DEFINE S == Tokens(o)
           T == Tokens(o)'
<1>2. IsFiniteSet(S) /\ x \in S /\ y \notin S /\ T = (S \ {x}) \cup {y}
  BY <1>1
<1> HIDE DEF S, T
<1>3. IsFiniteSet(T) /\ Cardinality(T) = Cardinality(S)
  BY <1>2, SetSwaps
<1>4. \A p \in Resources : IsFiniteSet(Tokens(p)') /\ Cardinality(Tokens(p)') = Cardinality(Tokens(p))
  BY <1>1, <1>3 DEF S, T
<1>5. "child" \in Resources /\ "parent" \in Resources
  BY DEF Resources
<1> QED BY <1>4, <1>5 DEF RefIInv, CountsAreTokens

LEMMA CallReleaseStep ==
  ASSUME RefIInv, NEW t \in GuestThreads, NEW o \in Resources, CallRelease(t, o)
  PROVE  RefIInv'
<1> DEFINE r == <<Frame("release", o)>>
           h == rHeld[t][o]
           held == [rHeld[t] EXCEPT ![o] = h - 1]
<1>1. /\ rStack[t] = <<>> /\ rStack' = [rStack EXCEPT ![t] = r] /\ h > 0
      /\ rHeld' = [rHeld EXCEPT ![t] = held] /\ UNCHANGED <<rCount, rFresh, rDestroyed>>
  BY DEF CallRelease
<1>2. /\ StackOK(r)
      /\ \A p : /\ On(r, p) <=> p = o
                /\ Counted(r, p) <=> p = o
                /\ ~Raising(r, p) /\ ~Destroying(r, p)
      /\ ~Opening(r) /\ ~Parting(r)
  BY CallBegins
<1>3. /\ \A p : ~On(rStack[t], p) /\ ~Counted(rStack[t], p) /\ ~Raising(rStack[t], p) /\ ~Destroying(rStack[t], p)
      /\ ~Opening(rStack[t]) /\ ~Parting(rStack[t])
  BY <1>1, ViewNone
<1> HIDE DEF r
<1>4. /\ DOMAIN rStack' = GuestThreads /\ rStack'[t] = r
      /\ \A u \in GuestThreads : u # t => rStack'[u] = rStack[u]
  BY <1>1 DEF RefIInv, RefTypes
<1>5. \A u \in GuestThreads :
        /\ \A p \in Resources : /\ Counted(rStack'[u], p) <=> (Counted(rStack[u], p) \/ (u = t /\ p = o))
                                /\ Destroying(rStack'[u], p) <=> Destroying(rStack[u], p)
                                /\ Raising(rStack'[u], p) <=> Raising(rStack[u], p)
        /\ (Opening(rStack'[u]) <=> Opening(rStack[u])) /\ (Parting(rStack'[u]) <=> Parting(rStack[u]))
  BY <1>2, <1>3, <1>4
<1>6. rHeld \in [GuestThreads -> [Resources -> Nat]] /\ h \in Nat /\ h - 1 \in Nat
  <2>1. rHeld \in [GuestThreads -> [Resources -> Nat]] /\ h \in Nat
    BY DEF RefIInv, RefTypes
  <2> QED BY <1>1, <2>1
<1>7. /\ rHeld' \in [GuestThreads -> [Resources -> Nat]] /\ rHeld'[t][o] = h - 1
      /\ \A u \in GuestThreads : u # t => rHeld'[u] = rHeld[u]
      /\ \A p \in Resources : p # o => rHeld'[t][p] = rHeld[t][p]
  <2>1. held \in [Resources -> Nat] /\ held[o] = h - 1 /\ \A p \in Resources : p # o => held[p] = rHeld[t][p]
    BY <1>6
  <2> HIDE DEF held
  <2> QED BY <1>1, <1>6, <2>1
<1> HIDE DEF h, held
<1>8. RefTypes'
  BY <1>1, <1>2, <1>4, <1>7 DEF RefIInv, RefTypes
<1>9. KeptByChild' <=> KeptByChild
  BY <1>1, <1>5 DEF KeptByChild
<1>10. \A p \in Resources : p # o => Tokens(p)' = Tokens(p)
  <2> SUFFICES ASSUME NEW p \in Resources, p # o PROVE Tokens(p)' = Tokens(p)
    OBVIOUS
  <2>1. \A u \in GuestThreads : (Counted(rStack'[u], p) <=> Counted(rStack[u], p)) /\ rHeld'[u][p] = rHeld[u][p]
    BY <1>5, <1>7
  <2> QED BY <2>1 DEF Tokens
<1>11. /\ <<t, h>> \in Tokens(o) /\ <<t, 0>> \notin Tokens(o)
       /\ Tokens(o)' = (Tokens(o) \ {<<t, h>>}) \cup {<<t, 0>>}
  <2>1. h # 0 /\ h = rHeld[t][o] /\ h <= h
    BY <1>1, <1>6 DEF h
  <2>2. <<t, h>> \in Tokens(o) /\ <<t, 0>> \notin Tokens(o)
    BY <1>3, <1>6, <2>1, TokenMeans
  <2>3. ASSUME NEW u \in GuestThreads, NEW i \in Nat
        PROVE  <<u, i>> \in Tokens(o)' <=> <<u, i>> \in (Tokens(o) \ {<<t, h>>}) \cup {<<t, 0>>}
    <3>1. <<u, i>> \in Tokens(o)' <=> IF i = 0 THEN Counted(rStack'[u], o) ELSE i <= rHeld'[u][o]
      BY DEF Tokens
    <3>2. <<u, i>> \in Tokens(o) <=> IF i = 0 THEN Counted(rStack[u], o) ELSE i <= rHeld[u][o]
      BY DEF Tokens
    <3>3. CASE u # t
      BY <1>4, <1>7, <3>1, <3>2, <3>3
    <3>4. CASE u = t /\ i = 0
      BY <1>2, <1>4, <3>1, <3>4
    <3>5. CASE u = t /\ i # 0
      <4>1. i <= h - 1 <=> i <= h /\ i # h
        BY <1>6
      <4> QED BY <1>7, <2>1, <3>1, <3>2, <3>5, <4>1
    <3> QED BY <3>3, <3>4, <3>5
  <2>4. \A x \in Tokens(o)' : x \in GuestThreads \X Nat
    BY DEF Tokens
  <2>5. \A x \in Tokens(o) : x \in GuestThreads \X Nat
    BY DEF Tokens
  <2>6. <<t, 0>> \in GuestThreads \X Nat
    OBVIOUS
  <2>7. \A x \in GuestThreads \X Nat : x \in Tokens(o)' <=> x \in (Tokens(o) \ {<<t, h>>}) \cup {<<t, 0>>}
    BY <2>3
  <2> QED BY <2>2, <2>4, <2>5, <2>6, <2>7
<1>12. CountsAreTokens'
  BY <1>1, <1>8, <1>9, <1>10, <1>11, TokenMoves
<1>13. rCount[o] >= 1 /\ rCount[o] # 0
  <2>1. rHeld[t][o] > 0 /\ rCount[o] \in Nat
    BY <1>1 DEF RefIInv, RefTypes, h
  <2>2. rCount[o] >= 1
    BY <2>1, HeldIsCounted
  <2> QED BY <2>1, <2>2
<1>14. "child" \in Resources /\ "parent" \in Resources
  BY DEF Resources
<1>15. rCount["child"] = 0 => ~On(rStack'[t], "child")
  BY <1>2, <1>4, <1>13
<1>16. FreshIsUnused'
  BY <1>1, <1>4, <1>15 DEF RefIInv, FreshIsUnused
<1>17. RaisersHold'
  <2>1. ASSUME NEW u \in GuestThreads
        PROVE  /\ Raising(rStack'[u], "parent") => rHeld'[u]["parent"] > 0
               /\ Raising(rStack'[u], "child") => rHeld'[u]["child"] > 0 \/ Creating(u)'
    <3>1. CASE u = t
      BY <1>2, <1>4, <3>1
    <3>2. CASE u # t
      <4>1. Creating(u) => Creating(u)'
        BY <1>1, <1>4, <1>7, <1>15, <3>2 DEF Creating
      <4> QED BY <1>4, <1>7, <3>2, <4>1 DEF RefIInv, RaisersHold
    <3> QED BY <3>1, <3>2
  <2> QED BY <2>1 DEF RaisersHold
<1>18. OpenersHold'
  <2>1. ASSUME NEW u \in GuestThreads, Opening(rStack'[u])
        PROVE  rHeld'[u]["parent"] > 0 /\ rCount'["child"] = 1 /\ Counted(rStack'[u], "child")
    <3>1. Opening(rStack[u]) /\ u # t
      BY <1>3, <1>5, <2>1
    <3> QED BY <1>1, <1>4, <1>7, <3>1 DEF RefIInv, OpenersHold
  <2> QED BY <2>1 DEF OpenersHold
<1>19. OneEnds' /\ GoneIsZero' /\ ZeroIsAccounted'
  BY <1>1, <1>5, <1>14 DEF RefIInv, OneEnds, GoneIsZero, ZeroIsAccounted
<1> QED BY <1>8, <1>12, <1>16, <1>17, <1>18, <1>19 DEF RefIInv

LEMMA PassesStep ==
  ASSUME RefIInv, NEW t \in GuestThreads, NEW to \in GuestThreads, NEW o \in Resources, Passes(t, to, o)
  PROVE  RefIInv'
<1> DEFINE h == rHeld[t][o]
           k == rHeld[to][o] + 1
           given == [rHeld EXCEPT ![t][o] = h - 1]
<1>1. /\ rStack[t] = <<>> /\ t # to /\ h > 0 /\ rHeld' = [rHeld EXCEPT ![t][o] = @ - 1, ![to][o] = @ + 1]
      /\ UNCHANGED <<rCount, rFresh, rStack, rDestroyed>>
  BY DEF Passes
<1>2. /\ rHeld \in [GuestThreads -> [Resources -> Nat]] /\ h \in Nat /\ h - 1 \in Nat /\ h # 0
      /\ k \in Nat /\ k # 0 /\ k = rHeld[to][o] + 1
  <2>1. rHeld \in [GuestThreads -> [Resources -> Nat]] /\ h \in Nat /\ rHeld[to][o] \in Nat
    BY DEF RefIInv, RefTypes
  <2> QED BY <1>1, <2>1
<1>3. /\ rHeld' \in [GuestThreads -> [Resources -> Nat]]
      /\ rHeld'[t][o] = h - 1 /\ rHeld'[to][o] = k
      /\ \A u \in GuestThreads, p \in Resources : (u # t /\ u # to) \/ p # o => rHeld'[u][p] = rHeld[u][p]
  <2>1. /\ given \in [GuestThreads -> [Resources -> Nat]] /\ given[t][o] = h - 1 /\ given[to] = rHeld[to]
        /\ \A u \in GuestThreads, p \in Resources : u # t \/ p # o => given[u][p] = rHeld[u][p]
    <3> HIDE DEF h
    <3> QED BY <1>1, <1>2
  <2>2. rHeld' = [given EXCEPT ![to][o] = k]
    <3>1. rHeld' = [given EXCEPT ![to][o] = @ + 1]
      BY <1>1
    <3> HIDE DEF given
    <3> QED BY <2>1, <3>1
  <2> DEFINE taken == [rHeld[to] EXCEPT ![o] = k]
  <2> HIDE DEF given, k, h
  <2>3. taken \in [Resources -> Nat] /\ taken[o] = k /\ \A p \in Resources : p # o => taken[p] = rHeld[to][p]
    BY <1>2
  <2>4. rHeld' = [given EXCEPT ![to] = taken]
    BY <2>1, <2>2
  <2> HIDE DEF taken
  <2>5. /\ rHeld' \in [GuestThreads -> [Resources -> Nat]] /\ rHeld'[to] = taken
        /\ \A u \in GuestThreads : u # to => rHeld'[u] = given[u]
    BY <2>1, <2>3, <2>4
  <2> QED BY <1>1, <2>1, <2>3, <2>5
<1> HIDE DEF h, k, given
<1>4. RefTypes'
  BY <1>1, <1>3 DEF RefIInv, RefTypes
<1>5. KeptByChild' <=> KeptByChild
  BY <1>1 DEF KeptByChild
<1>6. \A p \in Resources : p # o => Tokens(p)' = Tokens(p)
  <2> SUFFICES ASSUME NEW p \in Resources, p # o PROVE Tokens(p)' = Tokens(p)
    OBVIOUS
  <2>1. \A u \in GuestThreads : rStack'[u] = rStack[u] /\ rHeld'[u][p] = rHeld[u][p]
    BY <1>1, <1>3
  <2> QED BY <2>1 DEF Tokens
<1>7. /\ <<t, h>> \in Tokens(o) /\ <<to, k>> \notin Tokens(o)
      /\ Tokens(o)' = (Tokens(o) \ {<<t, h>>}) \cup {<<to, k>>}
  <2>1. h = rHeld[t][o] /\ h <= h
    BY <1>2 DEF h
  <2>2. <<t, h>> \in Tokens(o)
    BY <1>2, <2>1, TokenMeans
  <2>3. <<to, k>> \notin Tokens(o)
    <3>1. rHeld[to][o] \in Nat
      BY <1>2
    <3>2. ~(k <= rHeld[to][o])
      BY <1>2, <3>1
    <3> QED BY <1>2, <3>2, TokenMeans
  <2>4. ASSUME NEW u \in GuestThreads, NEW i \in Nat
        PROVE  <<u, i>> \in Tokens(o)' <=> <<u, i>> \in (Tokens(o) \ {<<t, h>>}) \cup {<<to, k>>}
    <3>1. <<u, i>> \in Tokens(o)' <=> IF i = 0 THEN Counted(rStack[u], o) ELSE i <= rHeld'[u][o]
      BY <1>1 DEF Tokens
    <3>2. <<u, i>> \in Tokens(o) <=> IF i = 0 THEN Counted(rStack[u], o) ELSE i <= rHeld[u][o]
      BY DEF Tokens
    <3>3. CASE (u # t /\ u # to) \/ i = 0
      BY <1>2, <1>3, <3>1, <3>2, <3>3
    <3>4. CASE u = to /\ i # 0
      <4>1. rHeld[to][o] \in Nat
        BY <1>2
      <4>2. i <= k <=> i <= rHeld[to][o] \/ i = k
        BY <1>2, <4>1
      <4> QED BY <1>1, <1>3, <3>1, <3>2, <3>4, <4>2
    <3>5. CASE u = t /\ i # 0
      <4>1. i <= h - 1 <=> i <= h /\ i # h
        BY <1>2
      <4> QED BY <1>1, <1>3, <2>1, <3>1, <3>2, <3>5, <4>1
    <3> QED BY <3>3, <3>4, <3>5
  <2>5. \A x \in Tokens(o)' : x \in GuestThreads \X Nat
    BY DEF Tokens
  <2>6. \A x \in Tokens(o) : x \in GuestThreads \X Nat
    BY DEF Tokens
  <2>7. <<to, k>> \in GuestThreads \X Nat
    BY <1>2
  <2>8. \A x \in GuestThreads \X Nat : x \in Tokens(o)' <=> x \in (Tokens(o) \ {<<t, h>>}) \cup {<<to, k>>}
    BY <2>4
  <2> QED BY <2>2, <2>3, <2>5, <2>6, <2>7, <2>8
<1>8. CountsAreTokens'
  BY <1>1, <1>4, <1>5, <1>6, <1>7, TokenMoves
<1>9. \A u \in GuestThreads, p \in Resources : u # t /\ rHeld[u][p] > 0 => rHeld'[u][p] > 0
  <2> SUFFICES ASSUME NEW u \in GuestThreads, NEW p \in Resources, u # t, rHeld[u][p] > 0 PROVE rHeld'[u][p] > 0
    OBVIOUS
  <2>1. k > 0
    BY <1>2
  <2> QED BY <1>3, <2>1
<1>10. /\ \A p : ~On(rStack[t], p) /\ ~Counted(rStack[t], p) /\ ~Raising(rStack[t], p) /\ ~Destroying(rStack[t], p)
       /\ ~Opening(rStack[t]) /\ ~Parting(rStack[t])
  BY <1>1, ViewNone
<1>11. "child" \in Resources /\ "parent" \in Resources
  BY DEF Resources
<1>12. RaisersHold'
  <2>1. ASSUME NEW u \in GuestThreads
        PROVE  /\ Raising(rStack[u], "parent") => rHeld'[u]["parent"] > 0
               /\ Raising(rStack[u], "child") => rHeld'[u]["child"] > 0 \/ Creating(u)'
    <3>1. CASE u = t
      BY <1>10, <3>1
    <3>2. CASE u # t
      <4>1. Creating(u) => Creating(u)'
        BY <1>1, <1>9, <1>11, <3>2 DEF Creating
      <4> QED BY <1>9, <1>11, <3>2, <4>1 DEF RefIInv, RaisersHold
    <3> QED BY <3>1, <3>2
  <2> QED BY <1>1, <2>1 DEF RaisersHold
<1>13. OpenersHold'
  <2>1. ASSUME NEW u \in GuestThreads, Opening(rStack[u])
        PROVE  rHeld'[u]["parent"] > 0 /\ rCount["child"] = 1 /\ Counted(rStack[u], "child")
    BY <1>9, <1>10, <1>11, <2>1 DEF RefIInv, OpenersHold
  <2> QED BY <1>1, <2>1 DEF OpenersHold
<1>14. FreshIsUnused' /\ OneEnds' /\ GoneIsZero' /\ ZeroIsAccounted'
  BY <1>1 DEF RefIInv, FreshIsUnused, OneEnds, GoneIsZero, ZeroIsAccounted
<1> QED BY <1>4, <1>8, <1>12, <1>13, <1>14 DEF RefIInv

\* The calls of a thread, seen from the innermost.
LEMMA TopOf ==
  ASSUME NEW s, StackOK(s), s # <<>>
  PROVE  \E f \in CallFrames :
           /\ Head(s) = f
           /\ \/ s = <<f>> /\ Alone(f)
              \/ \E y \in CallFrames : s = <<f, y>> /\ Nested(f, y)
<1>1. CASE \E f \in CallFrames : s = <<f>> /\ Alone(f)
  <2>1. PICK f \in CallFrames : s = <<f>> /\ Alone(f)
    BY <1>1
  <2>2. Head(s) = f
    BY <2>1, Stacks
  <2> QED BY <2>1, <2>2
<1>2. CASE \E g, f \in CallFrames : s = <<g, f>> /\ Nested(g, f)
  <2>1. PICK g \in CallFrames, f \in CallFrames : s = <<g, f>> /\ Nested(g, f)
    BY <1>2
  <2>2. Head(s) = g
    BY <2>1, Stacks
  <2> QED BY <2>1, <2>2
<1> QED BY <1>1, <1>2 DEF StackOK

SameFrame(f, x) ==
  /\ \A o \in Resources : /\ Counting(x, o) <=> Counting(f, o)
                          /\ RaisingF(x, o) <=> RaisingF(f, o)
                          /\ DestroyingF(x, o) <=> DestroyingF(f, o)
  /\ x.object = f.object
  /\ (OpeningF(x) <=> OpeningF(f)) /\ (ReturningF(x) <=> ReturningF(f)) /\ (PartingF(x) <=> PartingF(f))
  /\ Alone(f) => Alone(x)
  /\ \A y \in CallFrames : Nested(f, y) => Nested(x, y)

LEMMA QuietFrame ==
  ASSUME RefIInv, NEW t \in GuestThreads, UNCHANGED <<rCount, rFresh, rHeld, rDestroyed>>,
         rStack[t] # <<>>, NEW x \in CallFrames, SameFrame(Top(t), x),
         rStack' = [rStack EXCEPT ![t] = <<x>> \o Tail(@)]
  PROVE  RefIInv'
<1> DEFINE s == rStack[t]
           r == <<x>> \o Tail(s)
<1>1. StackOK(s)
  BY DEF RefIInv, RefTypes
<1>2. PICK f \in CallFrames : /\ Head(s) = f
                              /\ \/ s = <<f>> /\ Alone(f)
                                 \/ \E y \in CallFrames : s = <<f, y>> /\ Nested(f, y)
  BY <1>1, TopOf
<1>3. SameFrame(f, x)
  BY <1>2 DEF Top
<1>4. StackOK(r) /\ SameCalls(s, r)
  <2> HIDE DEF s
  <2>1. CASE s = <<f>> /\ Alone(f)
    <3>1. r = <<x>>
      BY <2>1, Stacks
    <3> HIDE DEF r
    <3>2. StackOK(r)
      BY <1>3, <2>1, <3>1 DEF StackOK, SameFrame
    <3>3. SameCalls(<<f>>, <<x>>)
      <4>1. On(<<x>>, "child") => On(<<f>>, "child")
        BY <1>3, ViewOne DEF SameFrame
      <4>2. \A o \in Resources : /\ Counted(<<x>>, o) <=> Counted(<<f>>, o)
                                 /\ Raising(<<x>>, o) <=> Raising(<<f>>, o)
                                 /\ Destroying(<<x>>, o) <=> Destroying(<<f>>, o)
        BY <1>3, ViewOne DEF SameFrame
      <4>3. (Opening(<<x>>) <=> Opening(<<f>>)) /\ (Parting(<<x>>) <=> Parting(<<f>>))
        BY <1>3, ViewOne DEF SameFrame
      <4> QED BY <4>1, <4>2, <4>3 DEF SameCalls, Resources
    <3> QED BY <2>1, <3>1, <3>2, <3>3
  <2>2. CASE \E y \in CallFrames : s = <<f, y>> /\ Nested(f, y)
    <3>1. PICK y \in CallFrames : s = <<f, y>> /\ Nested(f, y)
      BY <2>2
    <3>2. r = <<x, y>>
      BY <3>1, Stacks
    <3> HIDE DEF r
    <3>3. StackOK(r)
      BY <1>3, <3>1, <3>2 DEF StackOK, SameFrame
    <3>4. SameCalls(<<f, y>>, <<x, y>>)
      <4>1. On(<<x, y>>, "child") => On(<<f, y>>, "child")
        BY <1>3, ViewTwo DEF SameFrame
      <4>2. \A o \in Resources : /\ Counted(<<x, y>>, o) <=> Counted(<<f, y>>, o)
                                 /\ Raising(<<x, y>>, o) <=> Raising(<<f, y>>, o)
                                 /\ Destroying(<<x, y>>, o) <=> Destroying(<<f, y>>, o)
        BY <1>3, ViewTwo DEF SameFrame
      <4>3. (Opening(<<x, y>>) <=> Opening(<<f, y>>)) /\ (Parting(<<x, y>>) <=> Parting(<<f, y>>))
        BY <1>3, ViewTwo DEF SameFrame
      <4> QED BY <4>1, <4>2, <4>3 DEF SameCalls, Resources
    <3> QED BY <3>1, <3>2, <3>3, <3>4
  <2> QED BY <1>2, <2>1, <2>2
<1>5. rStack' = [rStack EXCEPT ![t] = r]
  OBVIOUS
<1> HIDE DEF r
<1> QED BY <1>4, <1>5, QuietCall

LEMMA LoadsStep ==
  ASSUME RefIInv, NEW t \in GuestThreads, UpdateLoads(t)
  PROVE  RefIInv'
<1> DEFINE f == Top(t)
           x == [f EXCEPT !.at = "swap", !.raw = rCount[f.object]]
<1>1. /\ rStack[t] # <<>> /\ f.at = "load" /\ rStack' = [rStack EXCEPT ![t] = <<x>> \o Tail(@)]
      /\ UNCHANGED <<rCount, rFresh, rHeld, rDestroyed>>
  BY DEF UpdateLoads
<1>2. f \in CallFrames
  BY <1>1, TopOf DEF RefIInv, RefTypes, Top
<1>3. x \in CallFrames /\ x.op = f.op /\ x.object = f.object /\ x.at = "swap"
  <2>1. rCount[f.object] \in Int
    BY <1>2 DEF RefIInv, RefTypes, CallFrames
  <2> HIDE DEF f
  <2> QED BY <1>2, <2>1 DEF CallFrames
<1> HIDE DEF x, f
<1>4. SameFrame(f, x)
  <2>1. \A y \in CallFrames : Nested(f, y) => Nested(x, y)
    BY <1>1, <1>3 DEF Nested
  <2>2. \A o \in Resources : DestroyingF(x, o) <=> DestroyingF(f, o)
    BY <1>1, <1>3 DEF DestroyingF
  <2>3. \A o \in Resources : (Counting(x, o) <=> Counting(f, o)) /\ (RaisingF(x, o) <=> RaisingF(f, o))
    BY <1>1, <1>3 DEF Counting, RaisingF
  <2>4. (OpeningF(x) <=> OpeningF(f)) /\ (ReturningF(x) <=> ReturningF(f)) /\ (PartingF(x) <=> PartingF(f))
    BY <1>1, <1>3 DEF OpeningF, ReturningF, PartingF
  <2> QED BY <1>1, <1>3, <2>1, <2>2, <2>3, <2>4 DEF SameFrame, Alone
<1> QED BY <1>1, <1>3, <1>4, QuietFrame DEF f

\* The word changed since it was read: the update reads it again.
LEMMA RereadStep ==
  ASSUME RefIInv, NEW t \in GuestThreads, UpdateSwaps(t), ~StillRaw(t)
  PROVE  RefIInv'
<1> DEFINE f == Top(t)
           x == [f EXCEPT !.raw = rCount[f.object]]
<1>1. /\ rStack[t] # <<>> /\ f.at = "swap" /\ rStack' = [rStack EXCEPT ![t] = <<x>> \o Tail(@)]
      /\ UNCHANGED <<rCount, rFresh, rHeld, rDestroyed>>
  BY DEF UpdateSwaps
<1>2. f \in CallFrames
  BY <1>1, TopOf DEF RefIInv, RefTypes, Top
<1>3. x \in CallFrames /\ x.op = f.op /\ x.object = f.object /\ x.at = "swap"
  <2>1. rCount[f.object] \in Int
    BY <1>2 DEF RefIInv, RefTypes, CallFrames
  <2> HIDE DEF f
  <2> QED BY <1>1, <1>2, <2>1 DEF CallFrames
<1> HIDE DEF x, f
<1>4. SameFrame(f, x)
  <2>1. \A y \in CallFrames : Nested(f, y) => Nested(x, y)
    BY <1>1, <1>3 DEF Nested
  <2>2. \A o \in Resources : DestroyingF(x, o) <=> DestroyingF(f, o)
    BY <1>1, <1>3 DEF DestroyingF
  <2>3. \A o \in Resources : (Counting(x, o) <=> Counting(f, o)) /\ (RaisingF(x, o) <=> RaisingF(f, o))
    BY <1>1, <1>3 DEF Counting, RaisingF
  <2>4. (OpeningF(x) <=> OpeningF(f)) /\ (ReturningF(x) <=> ReturningF(f)) /\ (PartingF(x) <=> PartingF(f))
    BY <1>1, <1>3 DEF OpeningF, ReturningF, PartingF
  <2> QED BY <1>1, <1>3, <2>1, <2>2, <2>3, <2>4 DEF SameFrame, Alone
<1> QED BY <1>1, <1>3, <1>4, QuietFrame DEF f

\* A reference given back that was not the last.
LEMMA FastStep ==
  ASSUME RefIInv, NEW t \in GuestThreads, ReleaseFast(t)
  PROVE  RefIInv'
<1> DEFINE s == rStack[t]
           r == Tail(s)
<1>1. /\ s # <<>> /\ Head(s).op = "release" /\ Head(s).at = "decide" /\ Updated(Head(s)) # 0
      /\ rStack' = [rStack EXCEPT ![t] = r] /\ UNCHANGED <<rCount, rFresh, rHeld, rDestroyed>>
  BY DEF ReleaseFast, Inside, Returned, Top
<1>2. StackOK(s)
  BY DEF RefIInv, RefTypes
<1> HIDE DEF s
<1>3. PICK f \in CallFrames : /\ Head(s) = f
                              /\ \/ s = <<f>> /\ Alone(f)
                                 \/ \E y \in CallFrames : s = <<f, y>> /\ Nested(f, y)
  BY <1>1, <1>2, TopOf
<1>4. f.op = "release" /\ f.at = "decide" /\ f.raw # 1 /\ f.object \in Resources
  BY <1>1, <1>3 DEF Updated, CallFrames
<1>5. /\ \A o : ~Counting(f, o) /\ ~RaisingF(f, o) /\ ~DestroyingF(f, o)
      /\ ~OpeningF(f) /\ ~ReturningF(f) /\ ~PartingF(f)
  BY <1>4 DEF Counting, RaisingF, DestroyingF, OpeningF, ReturningF, PartingF
<1>6. StackOK(r) /\ SameCalls(s, r)
  <2>1. CASE s = <<f>> /\ Alone(f)
    <3>1. r = <<>>
      BY <2>1, Stacks
    <3> HIDE DEF r
    <3>2. SameCalls(<<f>>, <<>>)
      BY <1>5, ViewOne, ViewNone DEF SameCalls, Resources
    <3> QED BY <2>1, <3>1, <3>2 DEF StackOK
  <2>2. CASE \E y \in CallFrames : s = <<f, y>> /\ Nested(f, y)
    <3>1. PICK y \in CallFrames : s = <<f, y>> /\ Nested(f, y)
      BY <2>2
    <3>2. r = <<y>>
      BY <3>1, Stacks
    <3> HIDE DEF r
    <3>3. y.op = "release" /\ y.at = "destroy" /\ ~ReturningF(y)
      BY <1>4, <3>1 DEF Nested, ReturningF
    <3>4. StackOK(<<y>>)
      BY <3>3 DEF StackOK, Alone
    <3>5. SameCalls(<<f, y>>, <<y>>)
      BY <1>5, <3>3, ViewOne, ViewTwo DEF SameCalls, Resources
    <3> QED BY <3>1, <3>2, <3>4, <3>5
  <2> QED BY <1>3, <2>1, <2>2
<1> HIDE DEF r
<1> QED BY <1>1, <1>6, QuietCall DEF s

\* The last reference to the parent is given back: the parent has no parent.
LEMMA ParentEndsStep ==
  ASSUME RefIInv, NEW t \in GuestThreads, Inside(t, "release", "decide"), Updated(Top(t)) = 0,
         ~HasParent(Top(t).object), rStack' = GoesTo(t, "destroy"), UNCHANGED <<rCount, rFresh, rHeld, rDestroyed>>
  PROVE  RefIInv'
<1> DEFINE f == Top(t)
           x == [f EXCEPT !.at = "destroy"]
<1>1. /\ rStack[t] # <<>> /\ f.op = "release" /\ f.at = "decide" /\ Updated(f) = 0 /\ f.object # "child"
      /\ rStack' = [rStack EXCEPT ![t] = <<x>> \o Tail(@)]
  BY DEF Inside, Top, GoesTo, HasParent
<1>2. f \in CallFrames
  BY <1>1, TopOf DEF RefIInv, RefTypes, Top
<1> HIDE DEF f
<1>3. x \in CallFrames /\ x.op = f.op /\ x.object = f.object /\ x.at = "destroy" /\ x.raw = f.raw
  BY <1>2 DEF CallFrames
<1> HIDE DEF x
<1>4. f.raw = 1
  BY <1>1, <1>2 DEF Updated, CallFrames
<1>5. SameFrame(f, x)
  <2>1. \A y \in CallFrames : Nested(f, y) => Nested(x, y)
    BY <1>1, <1>3 DEF Nested
  <2>2. \A o \in Resources : DestroyingF(x, o) <=> DestroyingF(f, o)
    BY <1>1, <1>3, <1>4 DEF DestroyingF
  <2>3. \A o \in Resources : (Counting(x, o) <=> Counting(f, o)) /\ (RaisingF(x, o) <=> RaisingF(f, o))
    BY <1>1, <1>3 DEF Counting, RaisingF
  <2>4. (OpeningF(x) <=> OpeningF(f)) /\ (ReturningF(x) <=> ReturningF(f)) /\ (PartingF(x) <=> PartingF(f))
    BY <1>1, <1>3 DEF OpeningF, ReturningF, PartingF
  <2> QED BY <1>1, <1>3, <2>1, <2>2, <2>3, <2>4 DEF SameFrame, Alone
<1> QED BY <1>1, <1>3, <1>5, QuietFrame DEF f

\* A call counts, or a count is given back.
LEMMA TokenJoins ==
  ASSUME RefIInv, NEW o \in Resources, NEW x, x \notin Tokens(o), Tokens(o)' = Tokens(o) \cup {x},
         \A p \in Resources : p # o => Tokens(p)' = Tokens(p) /\ rCount'[p] = rCount[p],
         rCount'[o] = rCount[o] + 1, KeptByChild' <=> KeptByChild
  PROVE  CountsAreTokens'
<1>1. \A p \in Resources : IsFiniteSet(Tokens(p))
  BY DEF RefIInv, CountsAreTokens
<1> DEFINE S == Tokens(o)
           T == Tokens(o)'
<1>2. IsFiniteSet(S) /\ x \notin S /\ T = S \cup {x}
  BY <1>1
<1> HIDE DEF S, T
<1>3. IsFiniteSet(T) /\ Cardinality(T) = Cardinality(S) + 1
  BY <1>2, SetGrows
<1>4. Cardinality(S) \in Nat
  BY <1>2, FS_CardinalityType
<1>5. "child" \in Resources /\ "parent" \in Resources /\ (o = "child" \/ o = "parent")
  BY DEF Resources
<1>6. /\ rCount["child"] = Cardinality(Tokens("child"))
      /\ rCount["parent"] = Cardinality(Tokens("parent")) + (IF KeptByChild THEN 1 ELSE 0)
  BY DEF RefIInv, CountsAreTokens
<1>7. \A p \in Resources : IsFiniteSet(Tokens(p)')
  BY <1>1, <1>3 DEF T
<1>8. CASE o = "child"
  <2>1. rCount'["child"] = Cardinality(Tokens("child")')
    BY <1>3, <1>6, <1>8 DEF S, T
  <2>2. rCount'["parent"] = Cardinality(Tokens("parent")') + (IF KeptByChild' THEN 1 ELSE 0)
    BY <1>5, <1>6, <1>8
  <2> QED BY <1>7, <2>1, <2>2 DEF CountsAreTokens
<1>9. CASE o = "parent"
  <2>1. rCount'["child"] = Cardinality(Tokens("child")')
    BY <1>5, <1>6, <1>9
  <2>2. rCount'["parent"] = Cardinality(Tokens("parent")') + (IF KeptByChild' THEN 1 ELSE 0)
    <3> DEFINE kept == IF KeptByChild THEN 1 ELSE 0
    <3>1. kept \in Nat
      OBVIOUS
    <3>2. rCount'["parent"] = (Cardinality(S) + kept) + 1 /\ Cardinality(Tokens("parent")') = Cardinality(S) + 1
      BY <1>3, <1>6, <1>9 DEF S, T
    <3>3. kept = IF KeptByChild' THEN 1 ELSE 0
      OBVIOUS
    <3> HIDE DEF kept
    <3>4. (Cardinality(S) + kept) + 1 = (Cardinality(S) + 1) + kept
      BY <1>4, <3>1
    <3> QED BY <3>2, <3>3, <3>4
  <2> QED BY <1>7, <2>1, <2>2 DEF CountsAreTokens
<1> QED BY <1>5, <1>8, <1>9

LEMMA TokenLeaves ==
  ASSUME RefIInv, NEW o \in Resources, NEW x, x \in Tokens(o), Tokens(o)' = Tokens(o) \ {x},
         \A p \in Resources : p # o => Tokens(p)' = Tokens(p) /\ rCount'[p] = rCount[p],
         rCount'[o] = rCount[o] - 1, KeptByChild' <=> KeptByChild
  PROVE  CountsAreTokens'
<1>1. \A p \in Resources : IsFiniteSet(Tokens(p))
  BY DEF RefIInv, CountsAreTokens
<1> DEFINE S == Tokens(o)
           T == Tokens(o)'
<1>2. IsFiniteSet(S) /\ x \in S /\ T = S \ {x}
  BY <1>1
<1> HIDE DEF S, T
<1>3. IsFiniteSet(T) /\ Cardinality(T) = Cardinality(S) - 1 /\ Cardinality(S) \in Nat
  BY <1>2, SetShrinks
<1>4. "child" \in Resources /\ "parent" \in Resources /\ (o = "child" \/ o = "parent")
  BY DEF Resources
<1>5. /\ rCount["child"] = Cardinality(Tokens("child"))
      /\ rCount["parent"] = Cardinality(Tokens("parent")) + (IF KeptByChild THEN 1 ELSE 0)
  BY DEF RefIInv, CountsAreTokens
<1>6. \A p \in Resources : IsFiniteSet(Tokens(p)')
  BY <1>1, <1>3 DEF T
<1>7. CASE o = "child"
  <2>1. rCount'["child"] = Cardinality(Tokens("child")')
    BY <1>3, <1>5, <1>7 DEF S, T
  <2>2. rCount'["parent"] = Cardinality(Tokens("parent")') + (IF KeptByChild' THEN 1 ELSE 0)
    BY <1>4, <1>5, <1>7
  <2> QED BY <1>6, <2>1, <2>2 DEF CountsAreTokens
<1>8. CASE o = "parent"
  <2>1. rCount'["child"] = Cardinality(Tokens("child")')
    BY <1>4, <1>5, <1>8
  <2>2. rCount'["parent"] = Cardinality(Tokens("parent")') + (IF KeptByChild' THEN 1 ELSE 0)
    <3> DEFINE kept == IF KeptByChild THEN 1 ELSE 0
    <3>1. kept \in Nat
      OBVIOUS
    <3>2. rCount'["parent"] = (Cardinality(S) + kept) - 1 /\ Cardinality(Tokens("parent")') = Cardinality(S) - 1
      BY <1>3, <1>5, <1>8 DEF S, T
    <3>3. kept = IF KeptByChild' THEN 1 ELSE 0
      OBVIOUS
    <3> HIDE DEF kept
    <3>4. (Cardinality(S) + kept) - 1 = (Cardinality(S) - 1) + kept
      BY <1>3, <3>1
    <3> QED BY <3>2, <3>3, <3>4
  <2> QED BY <1>6, <2>1, <2>2 DEF CountsAreTokens
<1> QED BY <1>4, <1>7, <1>8

\* An AddRef of t writes the word of o.
LEMMA CountUp ==
  ASSUME RefIInv, NEW t \in GuestThreads, NEW o \in Resources, NEW s, NEW r, s = rStack[t],
         rStack' = [rStack EXCEPT ![t] = r], StackOK(r), rCount' = [rCount EXCEPT ![o] = rCount[o] + 1],
         UNCHANGED <<rFresh, rHeld, rDestroyed>>,
         ~Counted(s, o), Counted(r, o), Raising(s, o), ~Raising(r, o), ~Destroying(s, o),
         \A p \in Resources : /\ p # o => (Counted(r, p) <=> Counted(s, p)) /\ (Raising(r, p) <=> Raising(s, p))
                              /\ Destroying(r, p) <=> Destroying(s, p)
                              /\ On(r, p) => On(s, p),
         Parting(r) <=> Parting(s),
         o = "parent" => (Opening(r) <=> Opening(s)),
         o = "child" => ~Opening(s) /\ (Opening(r) <=> rCount["child"] = 0)
  PROVE  RefIInv'
<1>1. /\ DOMAIN rStack' = GuestThreads /\ rStack'[t] = r
      /\ \A u \in GuestThreads : u # t => rStack'[u] = rStack[u]
  BY DEF RefIInv, RefTypes
<1>2. "child" \in Resources /\ "parent" \in Resources /\ "child" # "parent" /\ (o = "child" \/ o = "parent")
  BY DEF Resources
<1>3. /\ rCount \in [Resources -> Nat] /\ rCount' \in [Resources -> Nat] /\ rCount'[o] = rCount[o] + 1
      /\ \A p \in Resources : p # o => rCount'[p] = rCount[p]
  <2>1. rCount \in [Resources -> Nat]
    BY DEF RefIInv, RefTypes
  <2> QED BY <2>1
<1>4. RefTypes'
  BY <1>1, <1>3 DEF RefIInv, RefTypes
<1>5. \A u \in GuestThreads :
        /\ \A p \in Resources : /\ Counted(rStack'[u], p) <=> (Counted(rStack[u], p) \/ (u = t /\ p = o))
                                /\ Destroying(rStack'[u], p) <=> Destroying(rStack[u], p)
                                /\ On(rStack'[u], p) => On(rStack[u], p)
                                /\ Raising(rStack'[u], p) => Raising(rStack[u], p)
        /\ (Parting(rStack'[u]) <=> Parting(rStack[u]))
  BY <1>1
\* The thread holds a reference, or makes the first one.
<1>6. rHeld[t][o] > 0 \/ (o = "child" /\ Creating(t))
  BY <1>2 DEF RefIInv, RaisersHold
<1>7. rHeld[t][o] > 0 => rCount[o] # 0
  BY <1>3, HeldIsCounted
<1>8. /\ <<t, 0>> \notin Tokens(o) /\ Tokens(o)' = Tokens(o) \cup {<<t, 0>>}
      /\ \A p \in Resources : p # o => Tokens(p)' = Tokens(p)
  <2>1. ASSUME NEW p \in Resources, NEW u \in GuestThreads, NEW i \in Nat
        PROVE  <<u, i>> \in Tokens(p)' <=> <<u, i>> \in Tokens(p) \/ (p = o /\ u = t /\ i = 0)
    BY <1>5 DEF Tokens
  <2>2. \A p \in Resources : \A x \in Tokens(p)' : x \in GuestThreads \X Nat
    BY DEF Tokens
  <2>3. \A p \in Resources : \A x \in Tokens(p) : x \in GuestThreads \X Nat
    BY DEF Tokens
  <2>4. \A p \in Resources : p # o => \A x \in GuestThreads \X Nat : x \in Tokens(p)' <=> x \in Tokens(p)
    BY <2>1
  <2>5. <<t, 0>> \notin Tokens(o) /\ <<t, 0>> \in GuestThreads \X Nat
    BY TokenMeans
  <2>6. \A x \in GuestThreads \X Nat : x \in Tokens(o)' <=> x \in Tokens(o) \cup {<<t, 0>>}
    BY <2>1
  <2>7. Tokens(o)' = Tokens(o) \cup {<<t, 0>>}
    BY <2>2, <2>3, <2>5, <2>6
  <2>8. \A p \in Resources : p # o => Tokens(p)' = Tokens(p)
    BY <2>2, <2>3, <2>4
  <2> QED BY <2>5, <2>7, <2>8
<1>9. KeptByChild' <=> KeptByChild
  <2>1. (\E u \in GuestThreads : Parting(rStack'[u])) <=> (\E u \in GuestThreads : Parting(rStack[u]))
    BY <1>5
  <2>2. CASE o = "parent"
    BY <1>1, <1>2, <1>3, <2>1, <2>2 DEF KeptByChild
  <2>3. CASE o = "child" /\ rCount["child"] = 0
    <3>1. Opening(rStack'[t])
      BY <1>1, <2>3
    <3>2. ~(rCount["child"] > 0)
      BY <2>3
    <3> QED BY <2>1, <3>1, <3>2 DEF KeptByChild
  <2>4. CASE o = "child" /\ rCount["child"] # 0
    <3>1. rCount["child"] > 0 /\ rCount'["child"] > 0
      <4>1. \A n \in Nat : n # 0 => n > 0 /\ n + 1 > 0
        OBVIOUS
      <4> QED BY <1>2, <1>3, <2>4, <4>1
    <3>2. \A u \in GuestThreads : Opening(rStack'[u]) <=> Opening(rStack[u])
      BY <1>1, <2>4
    <3> QED BY <2>1, <3>1, <3>2 DEF KeptByChild
  <2> QED BY <1>2, <2>2, <2>3, <2>4
<1>10. CountsAreTokens'
  BY <1>3, <1>8, <1>9, TokenJoins
<1>11. On(s, o)
  BY DEF On, Raising, RaisingF
<1>12. FreshIsUnused'
  <2>1. rFresh => o = "parent"
    BY <1>2, <1>11 DEF RefIInv, FreshIsUnused
  <2> QED BY <1>2, <1>3, <1>5, <2>1 DEF RefIInv, FreshIsUnused
<1>13. ASSUME NEW u \in GuestThreads, Creating(u), u # t PROVE o = "parent" /\ Creating(u)'
  <2>1. o = "parent"
    BY <1>2, <1>11, <1>13 DEF Creating
  <2> QED BY <1>2, <1>3, <1>5, <1>13, <2>1 DEF Creating
<1>14. RaisersHold'
  <2>1. ASSUME NEW u \in GuestThreads
        PROVE  /\ Raising(rStack'[u], "parent") => rHeld'[u]["parent"] > 0
               /\ Raising(rStack'[u], "child") => rHeld'[u]["child"] > 0 \/ Creating(u)'
    <3>1. CASE u = t
      <4>1. o = "parent" /\ Creating(t) => Creating(t)'
        BY <1>2, <1>3, <1>5 DEF Creating
      <4> QED BY <1>1, <1>2, <1>5, <3>1, <4>1 DEF RefIInv, RaisersHold
    <3>2. CASE u # t
      BY <1>2, <1>5, <1>13, <3>2 DEF RefIInv, RaisersHold
    <3> QED BY <3>1, <3>2
  <2> QED BY <2>1 DEF RaisersHold
<1>15. OpenersHold'
  <2>1. ASSUME NEW u \in GuestThreads, Opening(rStack'[u])
        PROVE  rHeld'[u]["parent"] > 0 /\ rCount'["child"] = 1 /\ Counted(rStack'[u], "child")
    <3>1. CASE o = "parent"
      <4>1. Opening(rStack[u])
        BY <1>1, <2>1, <3>1
      <4> QED BY <1>2, <1>3, <1>5, <3>1, <4>1 DEF RefIInv, OpenersHold
    <3>2. CASE o = "child" /\ u = t
      <4>1. rCount["child"] = 0
        BY <1>1, <2>1, <3>2
      <4>2. Creating(t)
        BY <1>6, <1>7, <3>2, <4>1
      <4> QED BY <1>1, <1>3, <3>2, <4>1, <4>2 DEF Creating
    <3>3. CASE o = "child" /\ u # t
      <4>1. Opening(rStack[u])
        BY <1>1, <2>1, <3>3
      <4>2. rCount["child"] = 1
        BY <4>1 DEF RefIInv, OpenersHold
      <4>3. rHeld[t]["child"] > 0
        BY <1>6, <3>3, <4>2 DEF Creating
      <4> QED BY <4>1, <4>3, OpenerIsAlone
    <3> QED BY <1>2, <3>1, <3>2, <3>3
  <2> QED BY <2>1 DEF OpenersHold
<1>16. rDestroyed[o] # 1 /\ \A u \in GuestThreads : ~Destroying(rStack[u], o)
  <2>1. CASE rHeld[t][o] > 0
    BY <1>7, <2>1 DEF RefIInv, OneEnds, GoneIsZero
  <2>2. CASE o = "child" /\ Creating(t)
    <3>1. \A u \in GuestThreads : u # t => ~Destroying(rStack[u], "child")
      BY <2>2 DEF Creating, On, Destroying, DestroyingF
    <3> QED BY <2>2, <3>1 DEF Creating
  <2> QED BY <1>6, <2>1, <2>2
<1>17. OneEnds' /\ GoneIsZero'
  BY <1>3, <1>5, <1>16 DEF RefIInv, OneEnds, GoneIsZero
<1>18. ZeroIsAccounted'
  <2>1. rCount'[o] # 0
    <3>1. \A n \in Nat : n + 1 # 0
      OBVIOUS
    <3> QED BY <1>3, <3>1
  <2>2. o = "parent" => \A u \in GuestThreads : Raising(rStack'[u], "child") <=> Raising(rStack[u], "child")
    BY <1>1, <1>2
  <2> QED BY <1>2, <1>3, <1>5, <2>1, <2>2 DEF RefIInv, ZeroIsAccounted
<1> QED BY <1>4, <1>10, <1>12, <1>14, <1>15, <1>17, <1>18 DEF RefIInv

\* A Release of t writes the word of o.
LEMMA CountDown ==
  ASSUME RefIInv, NEW t \in GuestThreads, NEW o \in Resources, NEW s, NEW r, s = rStack[t],
         rStack' = [rStack EXCEPT ![t] = r], StackOK(r), rCount' = [rCount EXCEPT ![o] = rCount[o] - 1],
         UNCHANGED <<rFresh, rHeld, rDestroyed>>,
         Counted(s, o), ~Counted(r, o), ~Destroying(s, o), Destroying(r, o) <=> rCount[o] = 1,
         \A p \in Resources : /\ p # o => (Counted(r, p) <=> Counted(s, p)) /\ (Destroying(r, p) <=> Destroying(s, p))
                              /\ Raising(r, p) <=> Raising(s, p)
                              /\ On(r, p) => On(s, p),
         ~Opening(s), ~Opening(r), ~Parting(s), Parting(r) <=> (o = "child" /\ rCount[o] = 1)
  PROVE  RefIInv'
<1>1. /\ DOMAIN rStack' = GuestThreads /\ rStack'[t] = r
      /\ \A u \in GuestThreads : u # t => rStack'[u] = rStack[u]
  BY DEF RefIInv, RefTypes
<1>2. "child" \in Resources /\ "parent" \in Resources /\ "child" # "parent" /\ (o = "child" \/ o = "parent")
  BY DEF Resources
<1>3. /\ rCount[o] \in Nat /\ rCount[o] >= 1 /\ rCount[o] # 0
      /\ rCount[o] - 1 \in Nat /\ (rCount[o] - 1 = 0 <=> rCount[o] = 1) /\ (rCount[o] # 1 => rCount[o] - 1 > 0)
  <2>1. rCount[o] \in Nat /\ rCount[o] >= 1
    BY HeldIsCounted DEF RefIInv, RefTypes
  <2> QED BY <2>1
<1>4. /\ rCount' \in [Resources -> Nat] /\ rCount'[o] = rCount[o] - 1
      /\ \A p \in Resources : p # o => rCount'[p] = rCount[p]
  <2>1. rCount \in [Resources -> Nat]
    BY DEF RefIInv, RefTypes
  <2> QED BY <1>3, <2>1
<1>5. RefTypes'
  BY <1>1, <1>4 DEF RefIInv, RefTypes
<1>6. \A u \in GuestThreads :
        /\ \A p \in Resources : /\ Counted(rStack'[u], p) <=> (Counted(rStack[u], p) /\ ~(u = t /\ p = o))
                                /\ Raising(rStack'[u], p) <=> Raising(rStack[u], p)
                                /\ On(rStack'[u], p) => On(rStack[u], p)
                                /\ u # t \/ p # o => (Destroying(rStack'[u], p) <=> Destroying(rStack[u], p))
        /\ (Opening(rStack'[u]) <=> Opening(rStack[u]))
  BY <1>1
<1>7. /\ <<t, 0>> \in Tokens(o) /\ Tokens(o)' = Tokens(o) \ {<<t, 0>>}
      /\ \A p \in Resources : p # o => Tokens(p)' = Tokens(p)
  <2>1. ASSUME NEW p \in Resources, NEW u \in GuestThreads, NEW i \in Nat
        PROVE  <<u, i>> \in Tokens(p)' <=> <<u, i>> \in Tokens(p) /\ ~(p = o /\ u = t /\ i = 0)
    BY <1>6 DEF Tokens
  <2>2. \A p \in Resources : \A x \in Tokens(p)' : x \in GuestThreads \X Nat
    BY DEF Tokens
  <2>3. \A p \in Resources : \A x \in Tokens(p) : x \in GuestThreads \X Nat
    BY DEF Tokens
  <2>4. \A p \in Resources : p # o => \A x \in GuestThreads \X Nat : x \in Tokens(p)' <=> x \in Tokens(p)
    BY <2>1
  <2>5. <<t, 0>> \in Tokens(o)
    BY TokenMeans
  <2>6. \A x \in GuestThreads \X Nat : x \in Tokens(o)' <=> x \in Tokens(o) \ {<<t, 0>>}
    BY <2>1
  <2>7. Tokens(o)' = Tokens(o) \ {<<t, 0>>}
    BY <2>2, <2>3, <2>6
  <2>8. \A p \in Resources : p # o => Tokens(p)' = Tokens(p)
    BY <2>2, <2>3, <2>4
  <2> QED BY <2>5, <2>7, <2>8
\* While the first reference is made there is no other to give back.
<1>8. o = "child" => \A u \in GuestThreads : ~Opening(rStack[u])
  BY OpenerIsAlone
<1>9. KeptByChild' <=> KeptByChild
  <2>1. CASE o = "parent"
    <3>1. \A u \in GuestThreads : Parting(rStack'[u]) <=> Parting(rStack[u])
      BY <1>1, <1>2, <2>1
    <3> QED BY <1>2, <1>4, <1>6, <2>1, <3>1 DEF KeptByChild
  <2>2. CASE o = "child"
    <3>1. KeptByChild
      BY <1>3, <1>8, <2>2 DEF KeptByChild
    <3>2. CASE rCount[o] = 1
      BY <1>1, <2>2, <3>1, <3>2 DEF KeptByChild
    <3>3. CASE rCount[o] # 1
      BY <1>3, <1>4, <1>6, <1>8, <2>2, <3>1, <3>3 DEF KeptByChild
    <3> QED BY <3>2, <3>3
  <2> QED BY <1>2, <2>1, <2>2
<1>10. CountsAreTokens'
  BY <1>4, <1>7, <1>9, TokenLeaves
<1>11. On(s, o)
  BY DEF On, Counted, Counting
<1>12. FreshIsUnused'
  <2>1. rFresh => o = "parent"
    BY <1>2, <1>11 DEF RefIInv, FreshIsUnused
  <2> QED BY <1>2, <1>4, <1>6, <2>1 DEF RefIInv, FreshIsUnused
<1>13. ASSUME NEW u \in GuestThreads, Creating(u) PROVE Creating(u)'
  <2>1. o = "parent"
    BY <1>2, <1>3, <1>13 DEF Creating
  <2> QED BY <1>2, <1>4, <1>6, <1>13, <2>1 DEF Creating
<1>14. RaisersHold'
  BY <1>2, <1>6, <1>13 DEF RefIInv, RaisersHold
<1>15. OpenersHold'
  <2>1. ASSUME NEW u \in GuestThreads, Opening(rStack'[u])
        PROVE  rHeld'[u]["parent"] > 0 /\ rCount'["child"] = 1 /\ Counted(rStack'[u], "child")
    <3>1. Opening(rStack[u]) /\ o = "parent"
      BY <1>2, <1>6, <1>8, <2>1
    <3> QED BY <1>2, <1>4, <1>6, <3>1 DEF RefIInv, OpenersHold
  <2> QED BY <2>1 DEF OpenersHold
<1>16. rDestroyed[o] = 0 /\ \A u \in GuestThreads : ~Destroying(rStack[u], o)
  <2>1. rDestroyed[o] = 0 \/ rDestroyed[o] = 1
    BY DEF RefIInv, RefTypes
  <2> QED BY <1>3, <2>1 DEF RefIInv, OneEnds, GoneIsZero
<1>17. OneEnds'
  <2>1. ASSUME NEW p \in Resources, NEW u \in GuestThreads, Destroying(rStack'[u], p)
        PROVE  /\ rCount'[p] = 0 /\ rDestroyed'[p] = 0
               /\ \A v \in GuestThreads : Destroying(rStack'[v], p) => v = u
    <3>1. CASE p = o
      <4>1. \A v \in GuestThreads : Destroying(rStack'[v], p) => v = t
        BY <1>6, <1>16, <3>1
      <4>2. rCount[o] = 1
        BY <1>1, <2>1, <3>1, <4>1
      <4> QED BY <1>3, <1>4, <1>16, <2>1, <3>1, <4>1, <4>2
    <3>2. CASE p # o
      BY <1>4, <1>6, <2>1, <3>2 DEF RefIInv, OneEnds
    <3> QED BY <3>1, <3>2
  <2> QED BY <2>1 DEF OneEnds
<1>18. GoneIsZero'
  BY <1>4, <1>16 DEF RefIInv, GoneIsZero
<1>19. ZeroIsAccounted'
  <2>1. rCount'[o] = 0 => Destroying(rStack'[t], o)
    BY <1>1, <1>3, <1>4
  <2> QED BY <1>2, <1>4, <1>6, <2>1 DEF RefIInv, ZeroIsAccounted
<1> QED BY <1>5, <1>10, <1>12, <1>14, <1>15, <1>17, <1>18, <1>19 DEF RefIInv

LEMMA SwapsStep ==
  ASSUME RefIInv, NEW t \in GuestThreads, UpdateSwaps(t), StillRaw(t)
  PROVE  RefIInv'
<1> DEFINE s == rStack[t]
           x == [Head(s) EXCEPT !.at = "decide"]
           r == <<x>> \o Tail(s)
<1>1. /\ s # <<>> /\ Head(s).at = "swap" /\ rCount[Head(s).object] = Head(s).raw
      /\ rCount' = [rCount EXCEPT ![Head(s).object] = Updated(Head(s))]
      /\ rStack' = [rStack EXCEPT ![t] = r] /\ UNCHANGED <<rFresh, rHeld, rDestroyed>>
  BY DEF UpdateSwaps, StillRaw, GoesTo, Top
<1>2. StackOK(s)
  BY DEF RefIInv, RefTypes
<1> HIDE DEF s
<1>3. PICK f \in CallFrames : /\ Head(s) = f
                              /\ \/ s = <<f>> /\ Alone(f)
                                 \/ \E y \in CallFrames : s = <<f, y>> /\ Nested(f, y)
  BY <1>1, <1>2, TopOf
<1> DEFINE o == f.object
<1>4. /\ f.at = "swap" /\ rCount[o] = f.raw /\ o \in Resources /\ f.op \in {"add", "release"}
      /\ rCount' = [rCount EXCEPT ![o] = Updated(f)]
  BY <1>1, <1>3 DEF CallFrames
<1>5. x \in CallFrames /\ x.op = f.op /\ x.object = o /\ x.at = "decide" /\ x.raw = f.raw
  BY <1>3 DEF CallFrames
<1> HIDE DEF x, r
<1>6. \/ s = <<f>> /\ r = <<x>>
      \/ \E y \in CallFrames : s = <<f, y>> /\ r = <<x, y>> /\ Nested(f, y)
  <2>1. <<x>> \o Tail(<<f>>) = <<x>> /\ \A y \in CallFrames : <<x>> \o Tail(<<f, y>>) = <<x, y>>
    BY <1>5, Stacks
  <2>2. CASE s = <<f>>
    BY <2>1, <2>2 DEF r
  <2>3. CASE \E y \in CallFrames : s = <<f, y>> /\ Nested(f, y)
    BY <2>1, <2>3 DEF r
  <2> QED BY <1>3, <2>2, <2>3
<1>7. StackOK(r)
  <2>1. CASE s = <<f>> /\ r = <<x>>
    BY <1>5, <2>1 DEF StackOK, Alone
  <2>2. CASE \E y \in CallFrames : s = <<f, y>> /\ r = <<x, y>> /\ Nested(f, y)
    <3>1. PICK y \in CallFrames : r = <<x, y>> /\ Nested(f, y)
      BY <2>2
    <3>2. Nested(x, y)
      BY <1>5, <3>1 DEF Nested
    <3> QED BY <1>5, <3>1, <3>2 DEF StackOK
  <2> QED BY <1>6, <2>1, <2>2
<1>8. CASE f.op = "add"
  <2>1. /\ \A p : /\ ~Counting(f, p) /\ (Counting(x, p) <=> p = o) /\ (RaisingF(f, p) <=> p = o) /\ ~RaisingF(x, p)
                  /\ ~DestroyingF(f, p) /\ ~DestroyingF(x, p)
        /\ ~OpeningF(f) /\ ~ReturningF(f) /\ ~ReturningF(x) /\ ~PartingF(f) /\ ~PartingF(x)
        /\ OpeningF(x) <=> o = "child" /\ rCount["child"] = 0
    BY <1>4, <1>5, <1>8 DEF Counting, RaisingF, DestroyingF, OpeningF, ReturningF, PartingF
  <2>2. /\ \A p \in Resources : /\ Counted(r, p) <=> Counted(s, p) \/ p = o
                                /\ Raising(r, p) <=> Raising(s, p) /\ p # o
                                /\ Destroying(r, p) <=> Destroying(s, p)
                                /\ On(r, p) => On(s, p)
        /\ ~Counted(s, o) /\ Raising(s, o) /\ ~Destroying(s, o)
        /\ Parting(r) <=> Parting(s)
        /\ o = "parent" => (Opening(r) <=> Opening(s))
        /\ o = "child" => ~Opening(s) /\ (Opening(r) <=> rCount["child"] = 0)
    <3>1. CASE s = <<f>> /\ r = <<x>>
      BY <1>5, <2>1, <3>1, ViewOne
    <3>2. CASE \E y \in CallFrames : s = <<f, y>> /\ r = <<x, y>> /\ Nested(f, y)
      <4>1. PICK y \in CallFrames : s = <<f, y>> /\ r = <<x, y>> /\ Nested(f, y)
        BY <3>2
      <4>2. o = "parent" /\ y.object = "child" /\ y.op = "add" /\ y.at = "return"
        BY <1>8, <4>1 DEF Nested
      <4>3. ~RaisingF(y, o) /\ ~DestroyingF(y, o) /\ ~Counting(y, o) /\ \A p : ~RaisingF(y, p)
        BY <4>2 DEF RaisingF, DestroyingF, Counting
      <4> QED BY <1>5, <2>1, <4>1, <4>2, <4>3, ViewTwo
    <3> QED BY <1>6, <3>1, <3>2
  <2>3. rCount' = [rCount EXCEPT ![o] = rCount[o] + 1]
    BY <1>4, <1>8 DEF Updated
  <2> HIDE DEF o
  <2> QED BY <1>1, <1>4, <1>7, <2>2, <2>3, CountUp DEF s
<1>9. CASE f.op = "release"
  <2>1. /\ \A p : /\ (Counting(f, p) <=> p = o) /\ ~Counting(x, p) /\ ~RaisingF(f, p) /\ ~RaisingF(x, p)
                  /\ ~DestroyingF(f, p) /\ (DestroyingF(x, p) <=> p = o /\ rCount[o] = 1)
        /\ ~OpeningF(f) /\ ~OpeningF(x) /\ ~ReturningF(f) /\ ~ReturningF(x) /\ ~PartingF(f)
        /\ PartingF(x) <=> o = "child" /\ rCount[o] = 1
    BY <1>4, <1>5, <1>9 DEF Counting, RaisingF, DestroyingF, OpeningF, ReturningF, PartingF
  <2>2. /\ \A p \in Resources : /\ p # o => (Counted(r, p) <=> Counted(s, p)) /\ (Destroying(r, p) <=> Destroying(s, p))
                                /\ Raising(r, p) <=> Raising(s, p)
                                /\ On(r, p) => On(s, p)
        /\ Counted(s, o) /\ ~Counted(r, o) /\ ~Destroying(s, o) /\ (Destroying(r, o) <=> rCount[o] = 1)
        /\ ~Opening(s) /\ ~Opening(r) /\ ~Parting(s) /\ (Parting(r) <=> o = "child" /\ rCount[o] = 1)
    <3>1. CASE s = <<f>> /\ r = <<x>>
      BY <1>5, <2>1, <3>1, ViewOne
    <3>2. CASE \E y \in CallFrames : s = <<f, y>> /\ r = <<x, y>> /\ Nested(f, y)
      <4>1. PICK y \in CallFrames : s = <<f, y>> /\ r = <<x, y>> /\ Nested(f, y)
        BY <3>2
      <4>2. o = "parent" /\ y.object = "child" /\ y.op = "release" /\ y.at = "destroy"
        BY <1>9, <4>1 DEF Nested
      <4>3. /\ ~DestroyingF(y, o) /\ ~Counting(y, o) /\ ~OpeningF(y) /\ ~ReturningF(y) /\ ~PartingF(y)
        BY <4>2 DEF DestroyingF, Counting, OpeningF, ReturningF, PartingF
      <4> QED BY <1>5, <2>1, <4>1, <4>2, <4>3, ViewTwo
    <3> QED BY <1>6, <3>1, <3>2
  <2>3. rCount' = [rCount EXCEPT ![o] = rCount[o] - 1]
    BY <1>4, <1>9 DEF Updated
  <2> HIDE DEF o
  <2> QED BY <1>1, <1>4, <1>7, <2>2, <2>3, CountDown DEF s
<1> QED BY <1>4, <1>8, <1>9

\* The first reference to the child takes one to the parent.
LEMMA OpenStep ==
  ASSUME RefIInv, NEW t \in GuestThreads, Inside(t, "add", "decide"), Updated(Top(t)) = 1, HasParent(Top(t).object),
         rStack' = Calls(t, "return", "add"), UNCHANGED <<rCount, rFresh, rHeld, rDestroyed>>
  PROVE  RefIInv'
<1> DEFINE s == rStack[t]
           g == Frame("add", "parent")
           x == [Head(s) EXCEPT !.at = "return"]
           r == <<g, x>> \o Tail(s)
<1>1. /\ s # <<>> /\ Head(s).op = "add" /\ Head(s).at = "decide" /\ Updated(Head(s)) = 1 /\ Head(s).object = "child"
      /\ rStack' = [rStack EXCEPT ![t] = r]
  BY DEF Inside, Top, Calls, HasParent
<1>2. StackOK(s)
  BY DEF RefIInv, RefTypes
<1> HIDE DEF s
<1>3. PICK f \in CallFrames : /\ Head(s) = f
                              /\ \/ s = <<f>> /\ Alone(f)
                                 \/ \E y \in CallFrames : s = <<f, y>> /\ Nested(f, y)
  BY <1>1, <1>2, TopOf
<1>4. s = <<f>> /\ f.op = "add" /\ f.at = "decide" /\ f.object = "child" /\ f.raw = 0
  <2>1. f.op = "add" /\ f.at = "decide" /\ f.object = "child" /\ f.raw + 1 = 1 /\ f.raw \in Int
    BY <1>1, <1>3 DEF Updated, CallFrames
  <2> QED BY <1>3, <2>1 DEF Nested
<1>5. x \in CallFrames /\ x.op = "add" /\ x.object = "child" /\ x.at = "return"
  BY <1>3, <1>4 DEF CallFrames
<1>6. g \in CallFrames /\ g.op = "add" /\ g.object = "parent" /\ g.at = "load"
  BY DEF Frame, CallFrames, Resources
<1> HIDE DEF x, g
<1>7. r = <<g, x>>
  BY <1>4, <1>5, <1>6, Stacks
<1> HIDE DEF r
<1>8. StackOK(r)
  BY <1>5, <1>6, <1>7 DEF StackOK, Nested
<1>9. /\ \A p : /\ Counting(f, p) <=> p = "child"
                /\ Counting(x, p) <=> p = "child"
                /\ ~RaisingF(f, p) /\ ~RaisingF(x, p) /\ ~DestroyingF(f, p) /\ ~DestroyingF(x, p)
                /\ ~Counting(g, p) /\ ~DestroyingF(g, p) /\ ~RaisingF(g, "child")
      /\ OpeningF(f) /\ ReturningF(x) /\ ~PartingF(f) /\ ~PartingF(x) /\ ~PartingF(g)
  BY <1>4, <1>5, <1>6 DEF Counting, RaisingF, DestroyingF, OpeningF, ReturningF, PartingF
<1>10. SameCalls(<<f>>, <<g, x>>)
  <2>1. \A p : /\ Counted(<<g, x>>, p) <=> Counted(<<f>>, p)
               /\ Destroying(<<g, x>>, p) <=> Destroying(<<f>>, p)
    BY <1>9, ViewOne, ViewTwo
  <2>2. Raising(<<g, x>>, "child") <=> Raising(<<f>>, "child")
    BY <1>9, ViewOne, ViewTwo
  <2>3. Opening(<<f>>) /\ Opening(<<g, x>>) /\ ~Parting(<<f>>) /\ ~Parting(<<g, x>>)
    BY <1>6, <1>9, ViewOne, ViewTwo
  <2>4. On(<<f>>, "child")
    BY <1>4, ViewOne
  <2> QED BY <2>1, <2>2, <2>3, <2>4 DEF SameCalls
<1> QED BY <1>1, <1>4, <1>7, <1>8, <1>10, QuietCall DEF s

\* The outermost AddRef returns: the thread holds the reference.
LEMMA ReturnStep ==
  ASSUME RefIInv, NEW t \in GuestThreads, NEW f \in CallFrames, rStack[t] = <<f>>, f.op = "add",
         f.at = "return" \/ (f.at = "decide" /\ ~(Updated(f) = 1 /\ HasParent(f.object))),
         Returned(t), UNCHANGED <<rCount, rFresh, rDestroyed>>
  PROVE  RefIInv'
<1> DEFINE s == rStack[t]
           o == f.object
           h == rHeld[t][o] + 1
           held == [rHeld[t] EXCEPT ![o] = h]
<1>1. rStack' = [rStack EXCEPT ![t] = <<>>] /\ rHeld' = [rHeld EXCEPT ![t] = held]
  <2>1. Top(t) = f /\ Len(rStack[t]) = 1 /\ Tail(rStack[t]) = <<>>
    BY Stacks DEF Top
  <2> QED BY <2>1 DEF Returned
<1>2. o \in Resources /\ rHeld \in [GuestThreads -> [Resources -> Nat]] /\ h \in Nat /\ h # 0
  <2>1. o \in Resources /\ rHeld \in [GuestThreads -> [Resources -> Nat]]
    BY DEF RefIInv, RefTypes, CallFrames
  <2>2. rHeld[t][o] \in Nat
    BY <2>1
  <2> QED BY <2>1, <2>2
<1>3. /\ \A p : /\ Counted(s, p) <=> p = o
                /\ ~Raising(s, p) /\ ~Destroying(s, p)
      /\ ~Opening(s) /\ ~Parting(s)
  <2>1. /\ \A p : /\ Counting(f, p) <=> p = o
                  /\ ~RaisingF(f, p) /\ ~DestroyingF(f, p)
        /\ ~PartingF(f)
    BY DEF Counting, RaisingF, DestroyingF, PartingF
  <2>2. ~OpeningF(f)
    <3>1. f.raw = 0 => f.raw + 1 = 1
      OBVIOUS
    <3> QED BY <3>1 DEF OpeningF, Updated, HasParent
  <2> QED BY <2>1, <2>2, ViewOne
<1> DEFINE r == <<>>
<1>4. /\ \A p : ~On(r, p) /\ ~Counted(r, p) /\ ~Raising(r, p) /\ ~Destroying(r, p)
      /\ ~Opening(r) /\ ~Parting(r)
  BY ViewNone
<1>5. /\ DOMAIN rStack' = GuestThreads /\ rStack'[t] = r
      /\ \A u \in GuestThreads : u # t => rStack'[u] = rStack[u]
  BY <1>1 DEF RefIInv, RefTypes
<1>6. StackOK(r)
  BY DEF StackOK
<1> HIDE DEF s, r
<1>7. \A u \in GuestThreads :
        /\ \A p \in Resources : /\ Counted(rStack'[u], p) <=> (Counted(rStack[u], p) /\ ~(u = t /\ p = o))
                                /\ Destroying(rStack'[u], p) <=> Destroying(rStack[u], p)
                                /\ Raising(rStack'[u], p) <=> Raising(rStack[u], p)
                                /\ On(rStack'[u], p) => On(rStack[u], p)
        /\ (Opening(rStack'[u]) <=> Opening(rStack[u])) /\ (Parting(rStack'[u]) <=> Parting(rStack[u]))
  BY <1>3, <1>4, <1>5 DEF s
<1>8. /\ rHeld' \in [GuestThreads -> [Resources -> Nat]] /\ rHeld'[t][o] = h
      /\ \A u \in GuestThreads : u # t => rHeld'[u] = rHeld[u]
      /\ \A p \in Resources : p # o => rHeld'[t][p] = rHeld[t][p]
  <2>1. held \in [Resources -> Nat] /\ held[o] = h /\ \A p \in Resources : p # o => held[p] = rHeld[t][p]
    <3> HIDE DEF h, o
    <3> QED BY <1>2
  <2> HIDE DEF held, o, h
  <2> QED BY <1>1, <1>2, <2>1
<1> HIDE DEF held
<1>9. RefTypes'
  BY <1>5, <1>6, <1>8 DEF RefIInv, RefTypes
<1>10. KeptByChild' <=> KeptByChild
  BY <1>7 DEF KeptByChild
<1>11. \A p \in Resources : p # o => Tokens(p)' = Tokens(p)
  <2> SUFFICES ASSUME NEW p \in Resources, p # o PROVE Tokens(p)' = Tokens(p)
    OBVIOUS
  <2>1. \A u \in GuestThreads : (Counted(rStack'[u], p) <=> Counted(rStack[u], p)) /\ rHeld'[u][p] = rHeld[u][p]
    BY <1>7, <1>8
  <2> QED BY <2>1 DEF Tokens
<1>12. /\ <<t, 0>> \in Tokens(o) /\ <<t, h>> \notin Tokens(o)
       /\ Tokens(o)' = (Tokens(o) \ {<<t, 0>>}) \cup {<<t, h>>}
  <2> HIDE DEF o
  <2>1. h = rHeld[t][o] + 1 /\ rHeld[t][o] \in Nat
    BY <1>2
  <2> HIDE DEF h
  <2>2. <<t, 0>> \in Tokens(o)
    BY <1>3, TokenMeans DEF s
  <2>3. <<t, h>> \notin Tokens(o)
    <3>1. ~(h <= rHeld[t][o])
      BY <2>1
    <3> QED BY <1>2, <3>1, TokenMeans
  <2>4. ASSUME NEW u \in GuestThreads, NEW i \in Nat
        PROVE  <<u, i>> \in Tokens(o)' <=> <<u, i>> \in (Tokens(o) \ {<<t, 0>>}) \cup {<<t, h>>}
    <3>1. <<u, i>> \in Tokens(o)' <=> IF i = 0 THEN Counted(rStack'[u], o) ELSE i <= rHeld'[u][o]
      BY DEF Tokens
    <3>2. <<u, i>> \in Tokens(o) <=> IF i = 0 THEN Counted(rStack[u], o) ELSE i <= rHeld[u][o]
      BY DEF Tokens
    <3>3. CASE u # t
      BY <1>5, <1>8, <3>1, <3>2, <3>3
    <3>4. CASE u = t /\ i = 0
      BY <1>2, <1>4, <1>5, <3>1, <3>4
    <3>5. CASE u = t /\ i # 0
      <4>1. i <= h <=> i <= rHeld[t][o] \/ i = h
        BY <1>2, <2>1
      <4> QED BY <1>8, <3>1, <3>2, <3>5, <4>1
    <3> QED BY <3>3, <3>4, <3>5
  <2>5. \A x \in Tokens(o)' : x \in GuestThreads \X Nat
    BY DEF Tokens
  <2>6. \A x \in Tokens(o) : x \in GuestThreads \X Nat
    BY DEF Tokens
  <2>7. <<t, h>> \in GuestThreads \X Nat
    BY <1>2
  <2>8. \A x \in GuestThreads \X Nat : x \in Tokens(o)' <=> x \in (Tokens(o) \ {<<t, 0>>}) \cup {<<t, h>>}
    BY <2>4
  <2> QED BY <2>2, <2>3, <2>5, <2>6, <2>7, <2>8
<1>13. CountsAreTokens'
  BY <1>2, <1>9, <1>10, <1>11, <1>12, TokenMoves
<1>14. "child" \in Resources /\ "parent" \in Resources
  BY DEF Resources
<1>15. FreshIsUnused'
  BY <1>7, <1>14 DEF RefIInv, FreshIsUnused
<1>16. RaisersHold'
  <2>1. ASSUME NEW u \in GuestThreads
        PROVE  /\ Raising(rStack'[u], "parent") => rHeld'[u]["parent"] > 0
               /\ Raising(rStack'[u], "child") => rHeld'[u]["child"] > 0 \/ Creating(u)'
    <3>1. CASE u = t
      BY <1>4, <1>5, <3>1
    <3>2. CASE u # t
      <4>1. Creating(u) => Creating(u)'
        BY <1>7, <1>8, <1>14, <3>2 DEF Creating
      <4> QED BY <1>7, <1>8, <1>14, <3>2, <4>1 DEF RefIInv, RaisersHold
    <3> QED BY <3>1, <3>2
  <2> QED BY <2>1 DEF RaisersHold
<1>17. OpenersHold'
  <2>1. ASSUME NEW u \in GuestThreads, Opening(rStack'[u])
        PROVE  rHeld'[u]["parent"] > 0 /\ rCount'["child"] = 1 /\ Counted(rStack'[u], "child")
    <3>1. Opening(rStack[u]) /\ u # t
      BY <1>4, <1>5, <2>1
    <3> QED BY <1>5, <1>8, <3>1 DEF RefIInv, OpenersHold
  <2> QED BY <2>1 DEF OpenersHold
<1>18. OneEnds' /\ GoneIsZero' /\ ZeroIsAccounted'
  BY <1>7, <1>14 DEF RefIInv, OneEnds, GoneIsZero, ZeroIsAccounted
<1> QED BY <1>9, <1>13, <1>15, <1>16, <1>17, <1>18 DEF RefIInv

\* A thread about to release the parent destroys the child.
LEMMA CloserEnds ==
  ASSUME NEW s, Parting(s)
  PROVE  Destroying(s, "child")
BY DEF Parting, PartingF, Destroying, DestroyingF

\* The inner AddRef returns: the reference to the parent is the child's.
LEMMA KeepStep ==
  ASSUME RefIInv, NEW t \in GuestThreads, NEW f \in CallFrames, NEW y \in CallFrames, rStack[t] = <<f, y>>,
         Nested(f, y), f.op = "add", f.at = "decide", Returned(t), UNCHANGED <<rCount, rFresh, rDestroyed>>
  PROVE  RefIInv'
<1> DEFINE s == rStack[t]
           r == <<y>>
<1>1. rStack' = [rStack EXCEPT ![t] = r] /\ rHeld' = rHeld
  <2>1. Len(rStack[t]) = 2 /\ Tail(rStack[t]) = <<y>>
    BY Stacks
  <2>2. ~(Len(rStack[t]) = 1)
    BY <2>1
  <2> QED BY <2>1, <2>2 DEF Returned
<1>2. f.object = "parent" /\ y.object = "child" /\ y.op = "add" /\ y.at = "return"
  BY DEF Nested
<1>3. /\ \A p : /\ Counting(f, p) <=> p = "parent"
                /\ Counting(y, p) <=> p = "child"
                /\ ~RaisingF(f, p) /\ ~DestroyingF(f, p) /\ ~RaisingF(y, p) /\ ~DestroyingF(y, p)
      /\ ~OpeningF(f) /\ ~OpeningF(y) /\ ReturningF(y) /\ ~ReturningF(f) /\ ~PartingF(f) /\ ~PartingF(y)
  BY <1>2 DEF Counting, RaisingF, DestroyingF, OpeningF, ReturningF, PartingF
<1>4. /\ \A p : /\ Counted(s, p) <=> p = "parent" \/ p = "child"
                /\ On(s, p) <=> p = "parent" \/ p = "child"
                /\ ~Raising(s, p) /\ ~Destroying(s, p)
      /\ Opening(s) /\ ~Parting(s)
  BY <1>2, <1>3, ViewTwo
<1>5. /\ \A p : /\ Counted(r, p) <=> p = "child"
                /\ On(r, p) <=> p = "child"
                /\ ~Raising(r, p) /\ ~Destroying(r, p)
      /\ ~Opening(r) /\ ~Parting(r)
  BY <1>2, <1>3, ViewOne
<1>6. StackOK(r)
  BY <1>2 DEF StackOK, Alone
<1>7. /\ DOMAIN rStack' = GuestThreads /\ rStack'[t] = r
      /\ \A u \in GuestThreads : u # t => rStack'[u] = rStack[u]
  BY <1>1 DEF RefIInv, RefTypes
<1> HIDE DEF r, s
<1>8. "child" \in Resources /\ "parent" \in Resources /\ "child" # "parent"
  BY DEF Resources
<1>9. \A u \in GuestThreads :
        /\ \A p \in Resources : /\ Counted(rStack'[u], p) <=> (Counted(rStack[u], p) /\ ~(u = t /\ p = "parent"))
                                /\ Destroying(rStack'[u], p) <=> Destroying(rStack[u], p)
                                /\ Raising(rStack'[u], p) <=> Raising(rStack[u], p)
                                /\ On(rStack'[u], p) => On(rStack[u], p)
        /\ (Parting(rStack'[u]) <=> Parting(rStack[u]))
  BY <1>4, <1>5, <1>7, <1>8 DEF s, Resources
<1>10. RefTypes'
  BY <1>1, <1>6, <1>7 DEF RefIInv, RefTypes
<1>11. rCount["child"] = 1 /\ rHeld[t]["parent"] > 0 /\ \A u \in GuestThreads : Opening(rStack[u]) => u = t
  BY <1>4, OpenerIsAlone DEF RefIInv, OpenersHold, s
<1>12. ~KeptByChild /\ KeptByChild'
  <2>1. ~KeptByChild
    <3>1. \A u \in GuestThreads : ~Parting(rStack[u])
      BY <1>8, <1>11, CloserEnds DEF RefIInv, OneEnds
    <3> QED BY <1>4, <3>1 DEF KeptByChild, s
  <2>2. \A u \in GuestThreads : ~Opening(rStack'[u])
    BY <1>5, <1>7, <1>11
  <2>3. rCount'["child"] > 0
    BY <1>11
  <2> QED BY <2>1, <2>2, <2>3 DEF KeptByChild
<1>13. /\ <<t, 0>> \in Tokens("parent") /\ Tokens("parent")' = Tokens("parent") \ {<<t, 0>>}
       /\ Tokens("child")' = Tokens("child")
  <2>1. ASSUME NEW p \in Resources, NEW u \in GuestThreads, NEW i \in Nat
        PROVE  <<u, i>> \in Tokens(p)' <=> <<u, i>> \in Tokens(p) /\ ~(p = "parent" /\ u = t /\ i = 0)
    BY <1>1, <1>9 DEF Tokens
  <2>2. \A p \in Resources : \A x \in Tokens(p)' : x \in GuestThreads \X Nat
    BY DEF Tokens
  <2>3. \A p \in Resources : \A x \in Tokens(p) : x \in GuestThreads \X Nat
    BY DEF Tokens
  <2>4. \A x \in GuestThreads \X Nat : x \in Tokens("child")' <=> x \in Tokens("child")
    BY <1>8, <2>1
  <2>5. <<t, 0>> \in Tokens("parent")
    BY <1>4, TokenMeans DEF s
  <2>6. \A x \in GuestThreads \X Nat : x \in Tokens("parent")' <=> x \in Tokens("parent") \ {<<t, 0>>}
    BY <1>8, <2>1
  <2>7. Tokens("parent")' = Tokens("parent") \ {<<t, 0>>}
    BY <1>8, <2>2, <2>3, <2>6
  <2>8. Tokens("child")' = Tokens("child")
    BY <1>8, <2>2, <2>3, <2>4
  <2> QED BY <2>5, <2>7, <2>8
<1>14. CountsAreTokens'
  <2> DEFINE S == Tokens("parent")
             T == Tokens("parent")'
  <2>1. IsFiniteSet(S) /\ IsFiniteSet(Tokens("child")) /\ rCount["child"] = Cardinality(Tokens("child"))
    BY <1>8 DEF RefIInv, CountsAreTokens
  <2>2. <<t, 0>> \in S /\ T = S \ {<<t, 0>>}
    BY <1>13
  <2>3. rCount["parent"] = Cardinality(S) + 0
    BY <1>12 DEF RefIInv, CountsAreTokens
  <2> HIDE DEF S, T
  <2>4. IsFiniteSet(T) /\ Cardinality(T) = Cardinality(S) - 1 /\ Cardinality(S) \in Nat
    BY <2>1, <2>2, SetShrinks
  <2>5. rCount'["parent"] = Cardinality(T) + 1
    BY <2>3, <2>4
  <2>6. rCount'["parent"] = Cardinality(Tokens("parent")') + (IF KeptByChild' THEN 1 ELSE 0)
    BY <1>12, <2>5 DEF T
  <2>7. \A p \in Resources : IsFiniteSet(Tokens(p)')
    BY <1>13, <2>1, <2>4 DEF T, Resources
  <2> QED BY <1>13, <2>1, <2>6, <2>7 DEF CountsAreTokens
<1>15. FreshIsUnused'
  BY <1>8, <1>9 DEF RefIInv, FreshIsUnused
<1>16. RaisersHold'
  BY <1>1, <1>8, <1>9 DEF RefIInv, RaisersHold, Creating
<1>17. OpenersHold'
  <2>1. \A u \in GuestThreads : ~Opening(rStack'[u])
    BY <1>5, <1>7, <1>11
  <2> QED BY <2>1 DEF OpenersHold
<1>18. OneEnds' /\ GoneIsZero' /\ ZeroIsAccounted'
  BY <1>8, <1>9 DEF RefIInv, OneEnds, GoneIsZero, ZeroIsAccounted
<1> QED BY <1>10, <1>14, <1>15, <1>16, <1>17, <1>18 DEF RefIInv

\* The last reference to the child was given back: it gives back the parent's.
LEMMA CloseStep ==
  ASSUME RefIInv, NEW t \in GuestThreads, Inside(t, "release", "decide"), Updated(Top(t)) = 0, HasParent(Top(t).object),
         rStack' = Calls(t, "destroy", "release"), UNCHANGED <<rCount, rFresh, rHeld, rDestroyed>>
  PROVE  RefIInv'
<1> DEFINE s == rStack[t]
           g == Frame("release", "parent")
           x == [Head(s) EXCEPT !.at = "destroy"]
           r == <<g, x>> \o Tail(s)
<1>1. /\ s # <<>> /\ Head(s).op = "release" /\ Head(s).at = "decide" /\ Updated(Head(s)) = 0 /\ Head(s).object = "child"
      /\ rStack' = [rStack EXCEPT ![t] = r]
  BY DEF Inside, Top, Calls, HasParent
<1>2. StackOK(s)
  BY DEF RefIInv, RefTypes
<1> HIDE DEF s
<1>3. PICK f \in CallFrames : /\ Head(s) = f
                              /\ \/ s = <<f>> /\ Alone(f)
                                 \/ \E y \in CallFrames : s = <<f, y>> /\ Nested(f, y)
  BY <1>1, <1>2, TopOf
<1>4. s = <<f>> /\ f.op = "release" /\ f.at = "decide" /\ f.object = "child" /\ f.raw = 1
  <2>1. f.op = "release" /\ f.at = "decide" /\ f.object = "child" /\ f.raw - 1 = 0 /\ f.raw \in Int
    BY <1>1, <1>3 DEF Updated, CallFrames
  <2> QED BY <1>3, <2>1 DEF Nested
<1>5. x \in CallFrames /\ x.op = "release" /\ x.object = "child" /\ x.at = "destroy"
  BY <1>3, <1>4 DEF CallFrames
<1>6. g \in CallFrames /\ g.op = "release" /\ g.object = "parent" /\ g.at = "load"
  BY DEF Frame, CallFrames, Resources
<1> HIDE DEF x, g
<1>7. r = <<g, x>>
  BY <1>4, <1>5, <1>6, Stacks
<1> HIDE DEF r
<1>8. StackOK(r)
  BY <1>5, <1>6, <1>7 DEF StackOK, Nested
<1>9. /\ \A p : /\ ~Counting(f, p) /\ ~Counting(x, p) /\ (Counting(g, p) <=> p = "parent")
                /\ ~RaisingF(f, p) /\ ~RaisingF(x, p) /\ ~RaisingF(g, p)
                /\ (DestroyingF(f, p) <=> p = "child") /\ (DestroyingF(x, p) <=> p = "child") /\ ~DestroyingF(g, p)
      /\ ~OpeningF(f) /\ ~OpeningF(x) /\ ~OpeningF(g) /\ ~ReturningF(x) /\ ~ReturningF(g)
      /\ PartingF(f) /\ ~PartingF(x) /\ ~PartingF(g)
  BY <1>4, <1>5, <1>6 DEF Counting, RaisingF, DestroyingF, OpeningF, ReturningF, PartingF
<1>10. /\ \A p : ~Counted(s, p) /\ ~Raising(s, p) /\ (Destroying(s, p) <=> p = "child") /\ (On(s, p) <=> p = "child")
       /\ ~Opening(s) /\ Parting(s)
  BY <1>4, <1>9, ViewOne
<1>11. /\ \A p : (Counted(r, p) <=> p = "parent") /\ ~Raising(r, p) /\ (Destroying(r, p) <=> p = "child")
       /\ ~Opening(r) /\ ~Parting(r)
  BY <1>5, <1>6, <1>7, <1>9, ViewTwo
<1>12. /\ DOMAIN rStack' = GuestThreads /\ rStack'[t] = r
       /\ \A u \in GuestThreads : u # t => rStack'[u] = rStack[u]
  BY <1>1 DEF RefIInv, RefTypes
<1>13. "child" \in Resources /\ "parent" \in Resources /\ "child" # "parent"
  BY DEF Resources
<1>14. \A u \in GuestThreads :
         /\ \A p \in Resources : /\ Counted(rStack'[u], p) <=> (Counted(rStack[u], p) \/ (u = t /\ p = "parent"))
                                 /\ Destroying(rStack'[u], p) <=> Destroying(rStack[u], p)
                                 /\ Raising(rStack'[u], p) <=> Raising(rStack[u], p)
         /\ On(rStack'[u], "child") => On(rStack[u], "child")
         /\ (Opening(rStack'[u]) <=> Opening(rStack[u]))
  BY <1>10, <1>11, <1>12 DEF s
<1>15. RefTypes'
  BY <1>8, <1>12 DEF RefIInv, RefTypes
<1>16. rCount["child"] = 0 /\ \A u \in GuestThreads : Parting(rStack[u]) => u = t
  BY <1>10, <1>13, CloserEnds DEF RefIInv, OneEnds, s
<1>17. KeptByChild /\ ~KeptByChild'
  <2>1. KeptByChild
    BY <1>10 DEF KeptByChild, s
  <2>2. ~(rCount'["child"] > 0)
    BY <1>16
  <2>3. \A u \in GuestThreads : ~Parting(rStack'[u])
    BY <1>11, <1>12, <1>16
  <2> QED BY <2>1, <2>2, <2>3 DEF KeptByChild
<1>18. /\ <<t, 0>> \notin Tokens("parent") /\ Tokens("parent")' = Tokens("parent") \cup {<<t, 0>>}
       /\ Tokens("child")' = Tokens("child")
  <2>1. ASSUME NEW p \in Resources, NEW u \in GuestThreads, NEW i \in Nat
        PROVE  <<u, i>> \in Tokens(p)' <=> <<u, i>> \in Tokens(p) \/ (p = "parent" /\ u = t /\ i = 0)
    BY <1>14 DEF Tokens
  <2>2. \A p \in Resources : \A z \in Tokens(p)' : z \in GuestThreads \X Nat
    BY DEF Tokens
  <2>3. \A p \in Resources : \A z \in Tokens(p) : z \in GuestThreads \X Nat
    BY DEF Tokens
  <2>4. \A z \in GuestThreads \X Nat : z \in Tokens("child")' <=> z \in Tokens("child")
    BY <1>13, <2>1
  <2>5. <<t, 0>> \notin Tokens("parent") /\ <<t, 0>> \in GuestThreads \X Nat
    BY <1>10, TokenMeans DEF s
  <2>6. \A z \in GuestThreads \X Nat : z \in Tokens("parent")' <=> z \in Tokens("parent") \cup {<<t, 0>>}
    BY <1>13, <2>1
  <2>7. Tokens("parent")' = Tokens("parent") \cup {<<t, 0>>}
    BY <1>13, <2>2, <2>3, <2>5, <2>6
  <2>8. Tokens("child")' = Tokens("child")
    BY <1>13, <2>2, <2>3, <2>4
  <2> QED BY <2>5, <2>7, <2>8
<1>19. CountsAreTokens'
  <2> DEFINE S == Tokens("parent")
             T == Tokens("parent")'
  <2>1. IsFiniteSet(S) /\ IsFiniteSet(Tokens("child")) /\ rCount["child"] = Cardinality(Tokens("child"))
    BY <1>13 DEF RefIInv, CountsAreTokens
  <2>2. <<t, 0>> \notin S /\ T = S \cup {<<t, 0>>}
    BY <1>18
  <2>3. rCount["parent"] = Cardinality(S) + 1
    BY <1>17 DEF RefIInv, CountsAreTokens
  <2> HIDE DEF S, T
  <2>4. IsFiniteSet(T) /\ Cardinality(T) = Cardinality(S) + 1
    BY <2>1, <2>2, SetGrows
  <2>5. Cardinality(T) \in Nat
    BY <2>4, FS_CardinalityType
  <2>6. rCount'["parent"] = Cardinality(T) + 0
    BY <2>3, <2>4, <2>5
  <2>7. rCount'["parent"] = Cardinality(Tokens("parent")') + (IF KeptByChild' THEN 1 ELSE 0)
    BY <1>17, <2>6 DEF T
  <2>8. \A p \in Resources : IsFiniteSet(Tokens(p)')
    BY <1>18, <2>1, <2>4 DEF T, Resources
  <2> QED BY <1>18, <2>1, <2>7, <2>8 DEF CountsAreTokens
<1>20. FreshIsUnused'
  BY <1>13, <1>14 DEF RefIInv, FreshIsUnused
<1>21. RaisersHold'
  BY <1>13, <1>14 DEF RefIInv, RaisersHold, Creating
<1>22. OpenersHold'
  BY <1>13, <1>14 DEF RefIInv, OpenersHold
<1>23. OneEnds' /\ GoneIsZero' /\ ZeroIsAccounted'
  BY <1>13, <1>14 DEF RefIInv, OneEnds, GoneIsZero, ZeroIsAccounted
<1> QED BY <1>15, <1>19, <1>20, <1>21, <1>22, <1>23 DEF RefIInv

LEMMA DestroyStep ==
  ASSUME RefIInv, NEW t \in GuestThreads, Inside(t, "release", "destroy"),
         rDestroyed' = [rDestroyed EXCEPT ![Top(t).object] = @ + 1], Returned(t), UNCHANGED <<rCount, rFresh>>
  PROVE  RefIInv'
<1> DEFINE s == rStack[t]
           r == Tail(s)
<1>1. /\ s # <<>> /\ Head(s).op = "release" /\ Head(s).at = "destroy"
      /\ rDestroyed' = [rDestroyed EXCEPT ![Head(s).object] = @ + 1]
      /\ rStack' = [rStack EXCEPT ![t] = r] /\ rHeld' = rHeld
  BY DEF Inside, Returned, Top
<1>2. StackOK(s)
  BY DEF RefIInv, RefTypes
<1> HIDE DEF s
<1>3. PICK f \in CallFrames : /\ Head(s) = f
                              /\ \/ s = <<f>> /\ Alone(f)
                                 \/ \E y \in CallFrames : s = <<f, y>> /\ Nested(f, y)
  BY <1>1, <1>2, TopOf
<1> DEFINE o == f.object
<1>4. f.op = "release" /\ f.at = "destroy" /\ o \in Resources /\ rDestroyed' = [rDestroyed EXCEPT ![o] = @ + 1]
  BY <1>1, <1>3 DEF CallFrames
<1>5. /\ \A p : /\ ~Counting(f, p) /\ ~RaisingF(f, p)
                /\ DestroyingF(f, p) <=> p = o
      /\ ~OpeningF(f) /\ ~ReturningF(f) /\ ~PartingF(f)
  BY <1>4 DEF Counting, RaisingF, DestroyingF, OpeningF, ReturningF, PartingF
<1>6. /\ StackOK(r)
      /\ \A p : /\ Counted(r, p) <=> Counted(s, p)
                /\ Raising(r, p) <=> Raising(s, p)
                /\ Destroying(r, p) <=> Destroying(s, p) /\ p # o
                /\ On(r, p) => On(s, p)
      /\ Destroying(s, o) /\ On(s, o) /\ (Opening(r) <=> Opening(s)) /\ (Parting(r) <=> Parting(s))
      /\ \A p : ~Raising(s, p)
  <2>1. CASE s = <<f>>
    <3>1. r = <<>>
      BY <2>1, Stacks
    <3> HIDE DEF r
    <3> QED BY <1>5, <2>1, <3>1, ViewOne, ViewNone DEF StackOK
  <2>2. CASE \E y \in CallFrames : s = <<f, y>> /\ Nested(f, y)
    <3>1. PICK y \in CallFrames : s = <<f, y>> /\ Nested(f, y)
      BY <2>2
    <3>2. r = <<y>>
      BY <3>1, Stacks
    <3> HIDE DEF r
    <3>3. y.op = "release" /\ y.at = "destroy" /\ y.object = "child" /\ o = "parent"
      BY <1>4, <3>1 DEF Nested
    <3>4. ~ReturningF(y) /\ \A p : (DestroyingF(y, p) <=> p = "child") /\ ~RaisingF(y, p)
      BY <3>3 DEF ReturningF, DestroyingF, RaisingF
    <3>5. StackOK(<<y>>)
      BY <3>3 DEF StackOK, Alone
    <3> QED BY <1>5, <3>1, <3>2, <3>3, <3>4, <3>5, ViewOne, ViewTwo
  <2> QED BY <1>3, <2>1, <2>2
<1> HIDE DEF r, o
<1>7. /\ DOMAIN rStack' = GuestThreads /\ rStack'[t] = r
      /\ \A u \in GuestThreads : u # t => rStack'[u] = rStack[u]
  BY <1>1 DEF RefIInv, RefTypes
<1>8. \A u \in GuestThreads :
        /\ \A p \in Resources : /\ Counted(rStack'[u], p) <=> Counted(rStack[u], p)
                                /\ Raising(rStack'[u], p) <=> Raising(rStack[u], p)
                                /\ Destroying(rStack'[u], p) <=> (Destroying(rStack[u], p) /\ ~(u = t /\ p = o))
                                /\ On(rStack'[u], p) => On(rStack[u], p)
        /\ (Opening(rStack'[u]) <=> Opening(rStack[u])) /\ (Parting(rStack'[u]) <=> Parting(rStack[u]))
  BY <1>6, <1>7 DEF s
<1>9. rCount[o] = 0 /\ rDestroyed[o] = 0 /\ \A u \in GuestThreads : Destroying(rStack[u], o) => u = t
  BY <1>4, <1>6 DEF RefIInv, OneEnds, s
<1>10. /\ rDestroyed' \in [Resources -> {0, 1}] /\ rDestroyed'[o] = 1
       /\ \A p \in Resources : p # o => rDestroyed'[p] = rDestroyed[p]
  <2>1. rDestroyed \in [Resources -> {0, 1}]
    BY DEF RefIInv, RefTypes
  <2>2. rDestroyed' = [rDestroyed EXCEPT ![o] = 1]
    <3>1. rDestroyed[o] + 1 = 1
      BY <1>9
    <3>2. rDestroyed' = [rDestroyed EXCEPT ![o] = rDestroyed[o] + 1]
      BY <1>4
    <3> QED BY <3>1, <3>2
  <2> QED BY <1>4, <2>1, <2>2
<1>11. RefTypes'
  BY <1>1, <1>6, <1>7, <1>10 DEF RefIInv, RefTypes
<1>12. "child" \in Resources /\ "parent" \in Resources
  BY DEF Resources
<1>13. CountsAreTokens'
  <2>1. \A p \in Resources : Tokens(p)' = Tokens(p)
    BY <1>1, <1>8 DEF Tokens
  <2>2. KeptByChild' <=> KeptByChild
    BY <1>8 DEF KeptByChild
  <2> QED BY <1>12, <2>1, <2>2 DEF RefIInv, CountsAreTokens
<1>14. FreshIsUnused'
  <2>1. rFresh => o # "child"
    BY <1>6 DEF RefIInv, FreshIsUnused, s
  <2> QED BY <1>8, <1>10, <1>12, <2>1 DEF RefIInv, FreshIsUnused
<1>15. RaisersHold'
  <2>1. ASSUME NEW u \in GuestThreads, u # t, Creating(u) PROVE Creating(u)'
    <3>1. o # "child"
      BY <1>6, <2>1 DEF Creating, s
    <3> QED BY <1>1, <1>8, <1>10, <1>12, <2>1, <3>1 DEF Creating
  <2>2. ASSUME NEW u \in GuestThreads
        PROVE  /\ Raising(rStack'[u], "parent") => rHeld'[u]["parent"] > 0
               /\ Raising(rStack'[u], "child") => rHeld'[u]["child"] > 0 \/ Creating(u)'
    <3>1. CASE u = t
      BY <1>6, <1>7, <3>1
    <3>2. CASE u # t
      BY <1>1, <1>8, <1>12, <2>1, <3>2 DEF RefIInv, RaisersHold
    <3> QED BY <3>1, <3>2
  <2> QED BY <2>2 DEF RaisersHold
<1>16. OpenersHold'
  BY <1>1, <1>8, <1>12 DEF RefIInv, OpenersHold
<1>17. OneEnds'
  <2>1. ASSUME NEW p \in Resources, NEW u \in GuestThreads, Destroying(rStack'[u], p)
        PROVE  /\ rCount'[p] = 0 /\ rDestroyed'[p] = 0
               /\ \A v \in GuestThreads : Destroying(rStack'[v], p) => v = u
    <3>1. p # o
      BY <1>8, <1>9, <2>1
    <3> QED BY <1>8, <1>10, <2>1, <3>1 DEF RefIInv, OneEnds
  <2> QED BY <2>1 DEF OneEnds
<1>18. GoneIsZero' /\ ZeroIsAccounted'
  BY <1>4, <1>8, <1>9, <1>10, <1>12 DEF RefIInv, GoneIsZero, ZeroIsAccounted
<1> QED BY <1>11, <1>13, <1>14, <1>15, <1>16, <1>17, <1>18 DEF RefIInv

LEMMA RefInitHolds ==
  ASSUME RefInit
  PROVE  RefIInv
<1>1. PICK creator \in GuestThreads :
        rHeld = [t \in GuestThreads |-> [o \in Resources |-> IF t = creator /\ o = "parent" THEN 1 ELSE 0]]
  BY DEF RefInit, OneCreator
<1>2. \A t \in GuestThreads : rStack[t] = <<>>
  BY DEF RefInit
<1>3. \A t \in GuestThreads :
        /\ \A o : /\ ~On(rStack[t], o) /\ ~Counted(rStack[t], o)
                  /\ ~Raising(rStack[t], o) /\ ~Destroying(rStack[t], o)
        /\ ~Opening(rStack[t]) /\ ~Parting(rStack[t])
  BY <1>2, ViewNone
<1>4. "child" \in Resources /\ "parent" \in Resources /\ "child" # "parent"
  BY DEF Resources
<1>5. rCount["child"] = 0 /\ rCount["parent"] = 1 /\ \A o \in Resources : rDestroyed[o] = 0
  BY <1>4 DEF RefInit
<1>6. RefTypes
  <2>1. \A t \in GuestThreads : StackOK(rStack[t])
    BY <1>2 DEF StackOK
  <2>2. rHeld \in [GuestThreads -> [Resources -> Nat]]
    BY DEF RefInit
  <2> QED BY <2>1, <2>2 DEF RefInit, RefTypes
<1>7. Tokens("child") = {}
  <2>1. ASSUME NEW u \in GuestThreads, NEW i \in Nat PROVE <<u, i>> \notin Tokens("child")
    <3>1. rHeld[u]["child"] = 0
      BY <1>1, <1>4
    <3> QED BY <1>3, <3>1 DEF Tokens
  <2>2. \A x \in Tokens("child") : x \in GuestThreads \X Nat
    BY DEF Tokens
  <2>3. \A x \in GuestThreads \X Nat : x \notin Tokens("child")
    BY <2>1
  <2> QED BY <2>2, <2>3
<1>8. Tokens("parent") = {<<creator, 1>>}
  <2>1. ASSUME NEW u \in GuestThreads, NEW i \in Nat
        PROVE  <<u, i>> \in Tokens("parent") <=> u = creator /\ i = 1
    <3>1. rHeld[u]["parent"] = IF u = creator THEN 1 ELSE 0
      BY <1>1, <1>4
    <3>2. <<u, i>> \in Tokens("parent") <=> i # 0 /\ i <= rHeld[u]["parent"]
      BY <1>3 DEF Tokens
    <3> QED BY <3>1, <3>2
  <2>2. \A x \in Tokens("parent") : x \in GuestThreads \X Nat
    BY DEF Tokens
  <2>3. <<creator, 1>> \in GuestThreads \X Nat
    OBVIOUS
  <2>4. \A x \in GuestThreads \X Nat : x \in Tokens("parent") <=> x \in {<<creator, 1>>}
    BY <2>1
  <2> QED BY <2>2, <2>3, <2>4
<1>9. CountsAreTokens
  <2>1. IsFiniteSet({}) /\ Cardinality({}) = 0
    BY FS_EmptySet
  <2>2. IsFiniteSet({<<creator, 1>>}) /\ Cardinality({<<creator, 1>>}) = 1
    BY FS_Singleton
  <2>3. ~KeptByChild
    BY <1>3, <1>5 DEF KeptByChild
  <2>4. rCount["parent"] = Cardinality(Tokens("parent")) + (IF KeptByChild THEN 1 ELSE 0)
    BY <1>5, <1>8, <2>2, <2>3
  <2>5. \A o \in Resources : IsFiniteSet(Tokens(o))
    BY <1>7, <1>8, <2>1, <2>2 DEF Resources
  <2> QED BY <1>5, <1>7, <2>1, <2>4, <2>5 DEF CountsAreTokens
<1>10. rFresh
  BY DEF RefInit
<1>11. FreshIsUnused /\ RaisersHold /\ OpenersHold
  BY <1>3, <1>4, <1>5 DEF FreshIsUnused, RaisersHold, OpenersHold
<1>12. OneEnds /\ GoneIsZero /\ ZeroIsAccounted
  BY <1>3, <1>5, <1>10 DEF OneEnds, GoneIsZero, ZeroIsAccounted
<1> QED BY <1>6, <1>9, <1>11, <1>12 DEF RefIInv

LEMMA RefIInvStep ==
  ASSUME RefIInv, [RefNext]_refVars
  PROVE  RefIInv'
<1>1. CASE UNCHANGED refVars
  <2>1. \A o : Tokens(o)' = Tokens(o)
    BY <1>1 DEF refVars, Tokens
  <2>2. KeptByChild' <=> KeptByChild
    BY <1>1 DEF refVars, KeptByChild
  <2>3. CountsAreTokens'
    BY <1>1, <2>1, <2>2 DEF RefIInv, CountsAreTokens, refVars
  <2>4. RefTypes' /\ FreshIsUnused' /\ RaisersHold' /\ OpenersHold'
    BY <1>1 DEF RefIInv, refVars, RefTypes, FreshIsUnused, RaisersHold, Creating, OpenersHold
  <2>5. OneEnds' /\ GoneIsZero' /\ ZeroIsAccounted'
    BY <1>1 DEF RefIInv, refVars, OneEnds, GoneIsZero, ZeroIsAccounted
  <2> QED BY <2>3, <2>4, <2>5 DEF RefIInv
<1>2. ASSUME NEW t \in GuestThreads, AddRef(t) PROVE RefIInv'
  <2>1. CASE Inside(t, "add", "decide") /\ Updated(Top(t)) = 1 /\ HasParent(Top(t).object)
    <3>1. /\ rStack' = Calls(t, "return", "add")
          /\ UNCHANGED <<rCount, rFresh, rHeld, rDestroyed>>
      BY <1>2, <2>1 DEF AddRef, Inside
    <3> QED BY <2>1, <3>1, OpenStep
  <2>2. CASE ~(Inside(t, "add", "decide") /\ Updated(Top(t)) = 1 /\ HasParent(Top(t).object))
    <3>1. /\ Returned(t) /\ UNCHANGED <<rCount, rFresh, rDestroyed>>
          /\ Inside(t, "add", "return")
             \/ (Inside(t, "add", "decide") /\ ~(Updated(Top(t)) = 1 /\ HasParent(Top(t).object)))
      BY <1>2, <2>2 DEF AddRef
    <3>2. rStack[t] # <<>> /\ StackOK(rStack[t])
      BY <3>1 DEF Inside, RefIInv, RefTypes
    <3>3. PICK f \in CallFrames : /\ Top(t) = f
                                  /\ \/ rStack[t] = <<f>> /\ Alone(f)
                                     \/ \E y \in CallFrames : rStack[t] = <<f, y>> /\ Nested(f, y)
      BY <3>2, TopOf DEF Top
    <3>4. f.op = "add" /\ (f.at = "return" \/ (f.at = "decide" /\ ~(Updated(f) = 1 /\ HasParent(f.object))))
      BY <3>1, <3>3 DEF Inside, Top
    <3>5. CASE rStack[t] = <<f>>
      BY <3>1, <3>4, <3>5, ReturnStep
    <3>6. CASE \E y \in CallFrames : rStack[t] = <<f, y>> /\ Nested(f, y)
      <4>1. PICK y \in CallFrames : rStack[t] = <<f, y>> /\ Nested(f, y)
        BY <3>6
      <4>2. f.at = "decide"
        BY <3>4, <4>1 DEF Nested
      <4> QED BY <3>1, <3>4, <4>1, <4>2, KeepStep
    <3> QED BY <3>3, <3>5, <3>6
  <2> QED BY <2>1, <2>2
<1>3. ASSUME NEW t \in GuestThreads, ReleaseDestroy(t) PROVE RefIInv'
  <2>1. CASE /\ Inside(t, "release", "decide") /\ Updated(Top(t)) = 0
             /\ rStack' = IF HasParent(Top(t).object) THEN Calls(t, "destroy", "release") ELSE GoesTo(t, "destroy")
             /\ UNCHANGED <<rCount, rFresh, rHeld, rDestroyed>>
    BY <2>1, CloseStep, ParentEndsStep
  <2>2. CASE /\ Inside(t, "release", "destroy")
             /\ rDestroyed' = [rDestroyed EXCEPT ![Top(t).object] = @ + 1]
             /\ Returned(t) /\ UNCHANGED <<rCount, rFresh>>
    BY <2>2, DestroyStep
  <2> QED BY <1>3, <2>1, <2>2 DEF ReleaseDestroy
<1>4. ASSUME NEW t \in GuestThreads, UpdateSwaps(t) PROVE RefIInv'
  BY <1>4, SwapsStep, RereadStep
<1> QED BY <1>1, <1>2, <1>3, <1>4, CallAddStep, CallReleaseStep, PassesStep, LoadsStep, FastStep DEF RefNext

LEMMA RefIInvMeans ==
  ASSUME RefIInv
  PROVE  ParentOutlivesChild
<1> DEFINE gone(o) == rDestroyed[o] > 0
           idle == \A t \in GuestThreads : rStack[t] = <<>>
           updates(t, o) == \E i \in DOMAIN rStack[t] : rStack[t][i].object = o /\ rStack[t][i].at \in {"load", "swap"}
<1>1. "child" \in Resources /\ "parent" \in Resources
  BY DEF Resources
<1>2. \A o \in Resources : (rDestroyed[o] = 0 \/ rDestroyed[o] = 1) /\ rCount[o] \in Nat
  BY DEF RefIInv, RefTypes
<1>3. \A o \in Resources : gone(o) <=> rDestroyed[o] = 1
  BY <1>2
\* Nobody holds, or is counted in, an object whose word is 0.
<1>4. ASSUME NEW o \in Resources, rCount[o] = 0
      PROVE  Unreferenced(o) /\ \A t \in GuestThreads : ~Counted(rStack[t], o)
  <2>1. \A t \in GuestThreads : ~(rHeld[t][o] > 0) /\ ~Counted(rStack[t], o)
    BY <1>2, <1>4, HeldIsCounted
  <2>2. \A t \in GuestThreads : rHeld[t][o] \in Nat
    BY DEF RefIInv, RefTypes
  <2>3. \A t \in GuestThreads : rHeld[t][o] = 0
    BY <2>1, <2>2
  <2> QED BY <2>1, <2>3 DEF Unreferenced
\* The child keeps the parent while anyone holds the child.
<1>5. rCount["parent"] = 0 => Unreferenced("child")
  <2> SUFFICES ASSUME rCount["parent"] = 0, NEW t \in GuestThreads, rHeld[t]["child"] # 0 PROVE FALSE
    BY DEF Unreferenced
  <2>1. rHeld[t]["child"] > 0
    <3>1. rHeld[t]["child"] \in Nat
      BY <1>1 DEF RefIInv, RefTypes
    <3> QED BY <3>1
  <2>2. rCount["child"] > 0
    <3>1. rCount["child"] >= 1
      BY <1>1, <2>1, HeldIsCounted
    <3> QED BY <1>1, <1>2, <3>1
  <2>3. \A u \in GuestThreads : ~Opening(rStack[u])
    BY <2>1, OpenerIsAlone
  <2>4. KeptByChild
    BY <2>2, <2>3 DEF KeptByChild
  <2>5. IsFiniteSet(Tokens("parent")) /\ rCount["parent"] = Cardinality(Tokens("parent")) + 1
    BY <1>1, <2>4 DEF RefIInv, CountsAreTokens
  <2>6. Cardinality(Tokens("parent")) \in Nat
    BY <2>5, FS_CardinalityType
  <2> QED BY <2>5, <2>6
<1>6. ASSUME NEW o \in Resources, gone(o), NEW t \in GuestThreads PROVE ~updates(t, o)
  <2>1. rDestroyed[o] = 1 /\ rCount[o] = 0
    BY <1>3, <1>6 DEF RefIInv, GoneIsZero
  <2>2. ~Counted(rStack[t], o) /\ rHeld[t][o] = 0
    BY <1>4, <2>1 DEF Unreferenced
  <2>3. ~Raising(rStack[t], o)
    BY <1>1, <2>1, <2>2 DEF RefIInv, RaisersHold, Creating, Resources
  <2>4. \A i \in DOMAIN rStack[t] : rStack[t][i].op \in {"add", "release"}
    <3>1. StackOK(rStack[t])
      BY DEF RefIInv, RefTypes
    <3>2. CASE rStack[t] = <<>>
      BY <3>2
    <3>3. CASE \E f \in CallFrames : rStack[t] = <<f>> /\ Alone(f)
      BY <3>3 DEF CallFrames
    <3>4. CASE \E g, f \in CallFrames : rStack[t] = <<g, f>> /\ Nested(g, f)
      <4>1. PICK g \in CallFrames, f \in CallFrames : rStack[t] = <<g, f>>
        BY <3>4
      <4>2. g.op \in {"add", "release"} /\ f.op \in {"add", "release"}
        BY DEF CallFrames
      <4> QED BY <4>1, <4>2
    <3> QED BY <3>1, <3>2, <3>3, <3>4 DEF StackOK
  <2> QED BY <2>2, <2>3, <2>4 DEF Counted, Counting, Raising, RaisingF
<1>7. \A o \in Resources :
        /\ rDestroyed[o] <= 1
        /\ gone(o) => Unreferenced(o) /\ \A t \in GuestThreads : ~updates(t, o)
  <2>1. \A o \in Resources : rDestroyed[o] <= 1
    BY <1>2
  <2>2. \A o \in Resources : gone(o) => Unreferenced(o)
    BY <1>3, <1>4 DEF RefIInv, GoneIsZero
  <2> HIDE DEF gone, updates
  <2> QED BY <1>6, <2>1, <2>2
<1>8. gone("parent") => Unreferenced("child")
  BY <1>1, <1>3, <1>5 DEF RefIInv, GoneIsZero
<1>9. idle => /\ gone("child") <=> (~rFresh /\ Unreferenced("child"))
              /\ gone("parent") <=> (Unreferenced("parent") /\ Unreferenced("child"))
  <2> SUFFICES ASSUME idle PROVE /\ gone("child") <=> (~rFresh /\ Unreferenced("child"))
                                 /\ gone("parent") <=> (Unreferenced("parent") /\ Unreferenced("child"))
    OBVIOUS
  <2>1. \A t \in GuestThreads : /\ \A o : ~Counted(rStack[t], o) /\ ~Raising(rStack[t], o) /\ ~Destroying(rStack[t], o)
                                /\ ~Opening(rStack[t]) /\ ~Parting(rStack[t])
    BY ViewNone
  <2>2. \A o \in Resources : Unreferenced(o) => Tokens(o) = {}
    <3> SUFFICES ASSUME NEW o \in Resources, Unreferenced(o), NEW x \in Tokens(o) PROVE FALSE
      OBVIOUS
    <3>1. x[1] \in GuestThreads /\ x[2] \in Nat /\ x[2] # 0 /\ x[2] <= rHeld[x[1]][o]
      BY <2>1 DEF Tokens
    <3>2. rHeld[x[1]][o] = 0
      BY <3>1 DEF Unreferenced
    <3> QED BY <3>1, <3>2
  <2>3. Cardinality({}) = 0
    BY FS_EmptySet
  <2>4. Unreferenced("child") => rCount["child"] = 0
    BY <1>1, <2>2, <2>3 DEF RefIInv, CountsAreTokens
  <2>5. Unreferenced("parent") /\ Unreferenced("child") => rCount["parent"] = 0
    <3> SUFFICES ASSUME Unreferenced("parent"), Unreferenced("child") PROVE rCount["parent"] = 0
      OBVIOUS
    <3>1. ~(rCount["child"] > 0)
      BY <2>4
    <3>2. ~KeptByChild
      BY <2>1, <3>1 DEF KeptByChild
    <3>3. rCount["parent"] = Cardinality(Tokens("parent")) + 0
      BY <3>2 DEF RefIInv, CountsAreTokens
    <3>4. Cardinality(Tokens("parent")) = 0
      BY <1>1, <2>2, <2>3
    <3> QED BY <3>3, <3>4
  <2>6. rCount["child"] = 0 => rFresh \/ rDestroyed["child"] = 1
    BY <2>1 DEF RefIInv, ZeroIsAccounted
  <2>7. rCount["parent"] = 0 => rDestroyed["parent"] = 1
    BY <2>1 DEF RefIInv, ZeroIsAccounted
  <2>8. rDestroyed["child"] = 1 => ~rFresh
    BY DEF RefIInv, FreshIsUnused
  <2> HIDE DEF idle, gone
  <2>9. gone("child") <=> (~rFresh /\ Unreferenced("child"))
    BY <1>1, <1>3, <1>4, <2>4, <2>6, <2>8 DEF RefIInv, GoneIsZero
  <2>10. gone("parent") <=> (Unreferenced("parent") /\ Unreferenced("child"))
    BY <1>1, <1>3, <1>4, <1>5, <2>5, <2>7 DEF RefIInv, GoneIsZero
  <2> QED BY <2>9, <2>10
<1> QED BY <1>7, <1>8, <1>9 DEF ParentOutlivesChild

\* AddRef and Release from any number of threads destroy the child once and
\* after its last reference, and the parent not before the child's references.
THEOREM ParentStaysWithChild == RefSpec => []ParentOutlivesChild
<1>1. RefInit => RefIInv
  BY RefInitHolds
<1>2. RefIInv /\ [RefNext]_refVars => RefIInv'
  BY RefIInvStep
<1>3. RefIInv => ParentOutlivesChild
  BY RefIInvMeans
<1> QED BY <1>1, <1>2, <1>3, PTL DEF RefSpec

-----------------------------------------------------------------------------
(* The scripted probes.                                                     *)
(*                                                                          *)
(* A ledger gives, before every step of a script, the frames and the inputs *)
(* counted so far and how the step finds the pad and the sound (Follows).   *)
(* Every script that can be put together from the probes has one (Earned):  *)
(* scripts are sequences, so the ledgers of parts are joined end to end     *)
(* (Join), and the ledger of a part that is repeated follows from a least   *)
(* counterexample (Repeated).  The invariant (ProbeHolds) says that the     *)
(* thread's tallies are those of the ledger at its step and phase, and      *)
(* that, until a stop is requested, the guest has seen every input but the  *)
(* one a step is waiting for.                                               *)

\* A set of numbers that has a member has a least one.
LEMMA NatHasLeast ==
  ASSUME NEW T \in SUBSET Nat, T # {}
  PROVE  \E m \in T : \A n \in T : m <= n
<1> DEFINE R == OpToRel(<, Nat)
<1>1. IsWellFoundedOn(R, Nat)
  BY NatLessThanWellFounded
<1>2. PICK m \in T : \A n \in T : ~(<<n, m>> \in R)
  <2> HIDE DEF R
  <2> QED BY <1>1, WFMin
<1>3. \A n \in T : ~(n < m)
  BY <1>2 DEF OpToRel
<1> QED BY <1>3

\* A part of a script that is repeated.
Copies(g, n, steps) == g = [i \in 1..n |-> IF i = 1 THEN steps ELSE g[i - 1] \o steps]

LEMMA CopiesUnfold ==
  ASSUME NEW n, NEW steps, NEW g, Copies(g, n, steps), NEW i \in 1..n
  PROVE  g[i] = IF i = 1 THEN steps ELSE g[i - 1] \o steps
BY DEF Copies

LEMMA CopiesAgree ==
  ASSUME NEW m \in Nat, NEW n \in Nat, NEW steps, NEW g, NEW h, Copies(g, m, steps), Copies(h, n, steps),
         NEW i \in 1..m, i \in 1..n
  PROVE  g[i] = h[i]
<1> DEFINE Bad == {j \in 1..m : j \in 1..n /\ g[j] # h[j]}
<1>1. SUFFICES ASSUME Bad # {} PROVE FALSE
  OBVIOUS
<1>2. Bad \in SUBSET Nat
  OBVIOUS
<1>3. PICK j \in Bad : \A k \in Bad : j <= k
  <2> HIDE DEF Bad
  <2> QED BY <1>1, <1>2, NatHasLeast
<1>4. j \in 1..m /\ j \in 1..n /\ g[j] # h[j]
  BY <1>3
<1>5. g[j] = (IF j = 1 THEN steps ELSE g[j - 1] \o steps) /\ h[j] = IF j = 1 THEN steps ELSE h[j - 1] \o steps
  BY <1>4, CopiesUnfold
<1>6. j # 1 /\ j - 1 \in 1..m /\ j - 1 \in 1..n
  BY <1>4, <1>5
<1>7. ~(j <= j - 1)
  BY <1>4
<1>8. g[j - 1] = h[j - 1]
  BY <1>3, <1>6, <1>7
<1> QED BY <1>4, <1>5, <1>6, <1>8

LEMMA CopiesExist ==
  ASSUME NEW n \in Nat, NEW steps
  PROVE  \E g : Copies(g, n, steps)
<1> DEFINE Bad == {k \in Nat : ~\E g : Copies(g, k, steps)}
<1>1. SUFFICES ASSUME Bad # {} PROVE FALSE
  OBVIOUS
<1>2. Bad \in SUBSET Nat
  OBVIOUS
<1>3. PICK m \in Bad : \A k \in Bad : m <= k
  <2> HIDE DEF Bad
  <2> QED BY <1>1, <1>2, NatHasLeast
<1>4. m \in Nat /\ ~\E g : Copies(g, m, steps)
  BY <1>3
<1>5. m # 0
  <2> DEFINE g == [i \in {} |-> steps]
  <2>1. ASSUME m = 0  PROVE Copies(g, m, steps)
    <3>1. 1..m = {}
      BY <2>1
    <3> QED BY <3>1 DEF Copies
  <2> QED BY <1>4, <2>1
<1>6. m - 1 \in Nat /\ ~(m <= m - 1)
  BY <1>4, <1>5
<1>7. m - 1 \notin Bad
  BY <1>3, <1>6
<1>8. PICK g : Copies(g, m - 1, steps)
  BY <1>6, <1>7
<1> DEFINE G == [i \in 1..m |-> IF i = 1 THEN steps ELSE g[i - 1] \o steps]
<1>9. ASSUME NEW i \in 1..m, i # 1  PROVE G[i - 1] = g[i - 1]
  <2>1. i - 1 \in 1..m /\ i - 1 \in 1..(m - 1)
    BY <1>4, <1>9
  <2>2. g[i - 1] = IF i - 1 = 1 THEN steps ELSE g[i - 1 - 1] \o steps
    BY <1>8, <2>1, CopiesUnfold
  <2> QED BY <2>1, <2>2
<1>10. G = [i \in 1..m |-> IF i = 1 THEN steps ELSE G[i - 1] \o steps]
  <2>1. \A i \in 1..m : G[i] = IF i = 1 THEN steps ELSE G[i - 1] \o steps
    BY <1>9
  <2> HIDE DEF G
  <2>2. G = [i \in 1..m |-> G[i]]
    BY DEF G
  <2> QED BY <2>1, <2>2
<1>11. Copies(G, m, steps)
  <2> HIDE DEF G
  <2> QED BY <1>10 DEF Copies
<1> QED BY <1>4, <1>11

LEMMA TimesIsACopy ==
  ASSUME NEW n \in Nat, n > 0, NEW steps
  PROVE  \E g : Copies(g, n, steps) /\ Times(n, steps) = g[n]
<1> DEFINE seqs == [i \in 1..n |-> steps]
           g == CHOOSE f : Copies(f, n, steps)
<1>1. Len(seqs) = n /\ \A i \in 1..n : seqs[i] = steps
  OBVIOUS
<1>2. Copies(g, n, steps)
  BY CopiesExist
<1>3. Times(n, steps) = FlattenSeq(seqs)
  BY DEF Times
<1>4. FlattenSeq(seqs) = (CHOOSE f : f = [i \in 1..Len(seqs) |-> IF i = 1 THEN seqs[i] ELSE f[i - 1] \o seqs[i]])[Len(seqs)]
  BY <1>1 DEF FlattenSeq
<1>5. \A f : f = [i \in 1..n |-> IF i = 1 THEN seqs[i] ELSE f[i - 1] \o seqs[i]] <=> Copies(f, n, steps)
  BY DEF Copies
<1>6. (CHOOSE f : f = [i \in 1..n |-> IF i = 1 THEN seqs[i] ELSE f[i - 1] \o seqs[i]]) = g
  BY <1>5
<1> QED BY <1>1, <1>2, <1>3, <1>4, <1>6

LEMMA TimesOnce ==
  ASSUME NEW steps
  PROVE  Times(1, steps) = steps
<1>1. PICK g : Copies(g, 1, steps) /\ Times(1, steps) = g[1]
  BY TimesIsACopy
<1> QED BY <1>1, CopiesUnfold

LEMMA TimesMore ==
  ASSUME NEW n \in Nat, n > 0, NEW steps
  PROVE  Times(n + 1, steps) = Times(n, steps) \o steps
<1>1. PICK g : Copies(g, n, steps) /\ Times(n, steps) = g[n]
  BY TimesIsACopy
<1>2. PICK h : Copies(h, n + 1, steps) /\ Times(n + 1, steps) = h[n + 1]
  BY TimesIsACopy
<1>3. n + 1 \in 1..(n + 1) /\ n \in 1..(n + 1) /\ n \in 1..n
  OBVIOUS
<1>4. h[n + 1] = h[n] \o steps
  <2>1. h[n + 1] = IF n + 1 = 1 THEN steps ELSE h[n + 1 - 1] \o steps
    BY <1>2, <1>3, CopiesUnfold
  <2>2. n + 1 # 1 /\ n + 1 - 1 = n
    OBVIOUS
  <2> QED BY <2>1, <2>2
<1>5. h[n] = g[n]
  BY <1>1, <1>2, <1>3, CopiesAgree
<1> QED BY <1>1, <1>2, <1>4, <1>5

\* What a script has counted before each of its steps, and how it leaves the pad
\* and the sound; what the operator orders in the garage cannot be known.
Modes == {"calm", "held", "muted"}
Ledgers == [frames : Nat, inputs : Nat, known : BOOLEAN, mode : Modes]
Ledger(f, n, mode) == [frames |-> f, inputs |-> n, known |-> TRUE, mode |-> mode]
Plain == {Sleep, Ask, Take, Check, Output, <<"rumble">>}
Summaries == {Summary(f, n) : f \in Nat, n \in Nat}
Acts == Plain \cup Summaries \cup {Pulse, Press, Lift, Shoot, Verdict, Start, <<"command">>, <<"pause">>, <<"resume">>}

Put(a, f, n, mode) == [frames |-> f, inputs |-> n, known |-> a.known, mode |-> mode]
Moves(x, a, b) ==
  \/ x \in Plain \cup {Verdict} /\ b = a
  \/ x = Start /\ a.mode = "calm"
     /\ \E k \in BOOLEAN : b = [frames |-> 0, inputs |-> 0, known |-> k, mode |-> "calm"]
  \/ x = Shoot /\ b = Put(a, a.frames + 1, a.inputs, a.mode)
  \/ x = Pulse /\ a.mode = "calm" /\ b = Put(a, a.frames, a.inputs + 2, "calm")
  \/ x = Press /\ a.mode = "calm" /\ b = Put(a, a.frames, a.inputs + 1, "held")
  \/ x = Lift /\ a.mode # "muted" /\ b = Put(a, a.frames, a.inputs + 1, "calm")
  \/ x = <<"command">> /\ a.mode = "calm" /\ ~a.known /\ b = a
  \/ x = <<"pause">> /\ a.mode = "calm" /\ b = Put(a, a.frames, a.inputs, "muted")
  \/ x = <<"resume">> /\ a.mode = "muted" /\ b = Put(a, a.frames, a.inputs, "calm")
  \/ /\ \E n \in Nat : x = Summary(a.frames, n) /\ (n # NotStated => a.known /\ 2 * a.inputs = n)
     /\ a.mode = "calm" /\ b = a

Follows(F, s) ==
  /\ F \in [1..Len(s) + 1 -> Ledgers]
  /\ \A i \in 1..Len(s) : Moves(s[i], F[i], F[i + 1])
  /\ \A i \in 1..Len(s) : s[i] = Verdict => i < Len(s) /\ s[i + 1] \in Summaries
Walk(s, a, b) == s \in Seq(Acts) /\ \E F : Follows(F, s) /\ F[1] = a /\ F[Len(s) + 1] = b

LEMMA NoWalk ==
  ASSUME NEW a \in Ledgers
  PROVE  Walk(<<>>, a, a)
<1> DEFINE F == [i \in 1..1 |-> a]
<1>1. Follows(F, <<>>)
  BY DEF Follows
<1> QED BY <1>1 DEF Walk

LEMMA OneStep ==
  ASSUME NEW x \in Acts, x # Verdict, NEW a \in Ledgers, NEW b \in Ledgers, Moves(x, a, b)
  PROVE  Walk(<<x>>, a, b)
<1> DEFINE F == [i \in 1..2 |-> IF i = 1 THEN a ELSE b]
<1>1. Len(<<x>>) = 1 /\ <<x>>[1] = x /\ <<x>> \in Seq(Acts)
  OBVIOUS
<1>2. F[1] = a /\ F[2] = b /\ F \in [1..2 -> Ledgers]
  OBVIOUS
<1> HIDE DEF F
<1>3. Follows(F, <<x>>)
  BY <1>1, <1>2 DEF Follows
<1> QED BY <1>1, <1>2, <1>3 DEF Walk

LEMMA Join ==
  ASSUME NEW s, NEW t, NEW a, NEW b, NEW c, Walk(s, a, b), Walk(t, b, c)
  PROVE  Walk(s \o t, a, c)
<1>1. PICK F : Follows(F, s) /\ F[1] = a /\ F[Len(s) + 1] = b
  BY DEF Walk
<1>2. PICK G : Follows(G, t) /\ G[1] = b /\ G[Len(t) + 1] = c
  BY DEF Walk
<1>3. s \in Seq(Acts) /\ t \in Seq(Acts)
  BY DEF Walk
<1> DEFINE n == Len(s)
           m == Len(t)
           st == s \o t
           H == [i \in 1..n + m + 1 |-> IF i <= n THEN F[i] ELSE G[i - n]]
<1>4. /\ n \in Nat /\ m \in Nat /\ st \in Seq(Acts) /\ Len(st) = n + m
      /\ \A i \in 1..n : st[i] = s[i]
      /\ \A i \in n + 1..n + m : st[i] = t[i - n]
  BY <1>3
<1>5. F \in [1..n + 1 -> Ledgers] /\ G \in [1..m + 1 -> Ledgers] /\ F[n + 1] = G[1]
  BY <1>1, <1>2 DEF Follows
<1> HIDE DEF n, m, st
<1>6. \A i \in 1..n + 1 : H[i] = F[i]
  BY <1>4, <1>5
<1>7. \A i \in n + 1..n + m + 1 : H[i] = G[i - n]
  BY <1>4
<1>8. H \in [1..n + m + 1 -> Ledgers]
  BY <1>4, <1>5
<1> HIDE DEF H
<1>9. ASSUME NEW i \in 1..n + m  PROVE Moves(st[i], H[i], H[i + 1])
  <2>1. CASE i <= n
    <3>1. i \in 1..n /\ i \in 1..n + 1 /\ i + 1 \in 1..n + 1
      BY <1>4, <2>1
    <3>2. Moves(s[i], F[i], F[i + 1])
      BY <1>1, <3>1 DEF Follows, n
    <3> QED BY <1>4, <1>6, <3>1, <3>2
  <2>2. CASE i > n
    <3>1. i \in n + 1..n + m /\ i \in n + 1..n + m + 1 /\ i + 1 \in n + 1..n + m + 1 /\ i - n \in 1..m
          /\ i + 1 - n = i - n + 1
      BY <1>4, <2>2
    <3>2. Moves(t[i - n], G[i - n], G[i - n + 1])
      BY <1>2, <3>1 DEF Follows, m
    <3>3. H[i] = G[i - n] /\ H[i + 1] = G[i - n + 1] /\ st[i] = t[i - n]
      BY <1>4, <1>7, <3>1
    <3> QED BY <3>2, <3>3
  <2> QED BY <1>4, <2>1, <2>2
<1>10. ASSUME NEW i \in 1..n + m, st[i] = Verdict  PROVE i < n + m /\ st[i + 1] \in Summaries
  <2>1. CASE i <= n
    <3>1. i \in 1..n
      BY <1>4, <2>1
    <3>2. i < n /\ s[i + 1] \in Summaries
      BY <1>1, <1>4, <1>10, <3>1 DEF Follows, n
    <3>3. i + 1 \in 1..n
      BY <1>4, <3>1, <3>2
    <3> QED BY <1>4, <3>1, <3>2, <3>3
  <2>2. CASE i > n
    <3>1. i \in n + 1..n + m /\ i - n \in 1..m
      BY <1>4, <2>2
    <3>2. i - n < m /\ t[i - n + 1] \in Summaries
      BY <1>2, <1>4, <1>10, <3>1 DEF Follows, m
    <3>3. i + 1 \in n + 1..n + m /\ i + 1 - n = i - n + 1
      BY <1>4, <3>1, <3>2
    <3>4. st[i + 1] = t[i - n + 1]
      BY <1>4, <3>3
    <3> QED BY <1>4, <3>1, <3>2, <3>4
  <2> QED BY <1>4, <2>1, <2>2
<1>11. Follows(H, st)
  BY <1>4, <1>8, <1>9, <1>10 DEF Follows
<1>12. H[1] = a /\ H[n + m + 1] = c
  <2>1. PICK k : k = n + m + 1
    OBVIOUS
  <2>2. 1 \in 1..n + 1 /\ k \in n + 1..n + m + 1 /\ k - n = m + 1
    BY <1>4, <2>1
  <2>3. H[1] = F[1] /\ H[k] = G[k - n]
    BY <1>6, <1>7, <2>2
  <2>4. F[1] = a /\ G[m + 1] = c
    BY <1>1, <1>2 DEF m
  <2> QED BY <2>1, <2>2, <2>3, <2>4
<1>13. Walk(st, a, c)
  BY <1>4, <1>11, <1>12 DEF Walk
<1> QED BY <1>13 DEF st

\* One step, from a ledger in which every input is known.
LEMMA BookedSteps ==
  ASSUME NEW f \in Nat, NEW n \in Nat
  PROVE  /\ \A mode \in Modes, x \in Plain : Walk(<<x>>, Ledger(f, n, mode), Ledger(f, n, mode))
         /\ \A mode \in Modes : Walk(<<Shoot>>, Ledger(f, n, mode), Ledger(f + 1, n, mode))
         /\ Walk(<<Pulse>>, Ledger(f, n, "calm"), Ledger(f, n + 2, "calm"))
         /\ Walk(<<Press>>, Ledger(f, n, "calm"), Ledger(f, n + 1, "held"))
         /\ Walk(<<Lift>>, Ledger(f, n, "held"), Ledger(f, n + 1, "calm"))
         /\ Walk(<<Lift>>, Ledger(f, n, "calm"), Ledger(f, n + 1, "calm"))
         /\ Walk(<<<<"pause">>>>, Ledger(f, n, "calm"), Ledger(f, n, "muted"))
         /\ Walk(<<<<"resume">>>>, Ledger(f, n, "muted"), Ledger(f, n, "calm"))
<1>1. \A k \in Nat, o \in Nat, mode \in Modes : Ledger(k, o, mode) \in Ledgers
  BY DEF Ledger, Ledgers
<1>2. f + 1 \in Nat /\ n + 1 \in Nat /\ n + 2 \in Nat /\ "calm" \in Modes /\ "held" \in Modes
        /\ "muted" \in Modes
  BY DEF Modes
<1>3. \A x \in Plain \cup {Shoot, Pulse, Press, Lift, <<"pause">>, <<"resume">>} : x \in Acts
  BY DEF Acts
<1>4. Verdict \notin Plain \cup {Shoot, Pulse, Press, Lift, <<"pause">>, <<"resume">>}
  BY DEF Plain, Sleep, Pulse, Press, Lift, Shoot, Ask, Take, Check, Output, Verdict
<1>5. ASSUME NEW x \in Plain, NEW mode \in Modes  PROVE Moves(x, Ledger(f, n, mode), Ledger(f, n, mode))
  BY DEF Moves
<1>6. \A mode : /\ Ledger(f, n, mode).mode = mode /\ Ledger(f, n, mode).frames = f
                 /\ Ledger(f, n, mode).inputs = n /\ Ledger(f, n, mode).known = TRUE
                 /\ \A k, o, next : Put(Ledger(f, n, mode), k, o, next) = Ledger(k, o, next)
  BY DEF Ledger, Put
<1>7. \A mode \in Modes : Moves(Shoot, Ledger(f, n, mode), Ledger(f + 1, n, mode))
  BY <1>6 DEF Moves
<1>8. /\ Moves(Pulse, Ledger(f, n, "calm"), Ledger(f, n + 2, "calm"))
      /\ Moves(Press, Ledger(f, n, "calm"), Ledger(f, n + 1, "held"))
      /\ Moves(Lift, Ledger(f, n, "held"), Ledger(f, n + 1, "calm"))
      /\ Moves(Lift, Ledger(f, n, "calm"), Ledger(f, n + 1, "calm"))
      /\ Moves(<<"pause">>, Ledger(f, n, "calm"), Ledger(f, n, "muted"))
      /\ Moves(<<"resume">>, Ledger(f, n, "muted"), Ledger(f, n, "calm"))
  BY <1>6 DEF Moves
<1>9. \A mode \in Modes, x \in Plain : Walk(<<x>>, Ledger(f, n, mode), Ledger(f, n, mode))
  BY <1>1, <1>3, <1>4, <1>5, OneStep
<1>10. \A mode \in Modes : Walk(<<Shoot>>, Ledger(f, n, mode), Ledger(f + 1, n, mode))
  BY <1>1, <1>2, <1>3, <1>4, <1>7, OneStep
<1>11. /\ Walk(<<Pulse>>, Ledger(f, n, "calm"), Ledger(f, n + 2, "calm"))
       /\ Walk(<<Press>>, Ledger(f, n, "calm"), Ledger(f, n + 1, "held"))
       /\ Walk(<<Lift>>, Ledger(f, n, "held"), Ledger(f, n + 1, "calm"))
       /\ Walk(<<Lift>>, Ledger(f, n, "calm"), Ledger(f, n + 1, "calm"))
  BY <1>1, <1>2, <1>3, <1>4, <1>8, OneStep
<1>12. /\ Walk(<<<<"pause">>>>, Ledger(f, n, "calm"), Ledger(f, n, "muted"))
       /\ Walk(<<<<"resume">>>>, Ledger(f, n, "muted"), Ledger(f, n, "calm"))
  BY <1>1, <1>2, <1>3, <1>4, <1>8, OneStep
<1> QED BY <1>9, <1>10, <1>11, <1>12

LEMMA Two ==
  ASSUME NEW x, NEW y, NEW a, NEW b, NEW c, Walk(<<x>>, a, b), Walk(<<y>>, b, c)
  PROVE  Walk(<<x, y>>, a, c)
<1> DEFINE xy == <<x>> \o <<y>>
<1>1. xy \in Seq({x, y}) /\ Len(xy) = 2 /\ xy[1] = x /\ xy[2] = y
  OBVIOUS
<1>2. xy = <<x, y>>
  <2> HIDE DEF xy
  <2> QED BY <1>1
<1> QED BY <1>2, Join

LEMMA Three ==
  ASSUME NEW x, NEW y, NEW z, NEW a, NEW b, NEW c, NEW d, Walk(<<x>>, a, b), Walk(<<y>>, b, c), Walk(<<z>>, c, d)
  PROVE  Walk(<<x, y, z>>, a, d)
<1>1. <<x, y, z>> = <<x>> \o <<y, z>>
  OBVIOUS
<1>2. Walk(<<y, z>>, b, d)
  BY Two
<1> QED BY <1>1, <1>2, Join

LEMMA Four ==
  ASSUME NEW x, NEW y, NEW z, NEW w, NEW a, NEW b, NEW c, NEW d, NEW e,
         Walk(<<x>>, a, b), Walk(<<y>>, b, c), Walk(<<z>>, c, d), Walk(<<w>>, d, e)
  PROVE  Walk(<<x, y, z, w>>, a, e)
<1>1. <<x, y, z, w>> = <<x>> \o <<y, z, w>>
  OBVIOUS
<1>2. Walk(<<y, z, w>>, b, e)
  BY Three
<1> QED BY <1>1, <1>2, Join

\* A part of a script that is repeated.
LEMMA Repeated ==
  ASSUME NEW s, NEW W, NEW k \in Nat, k > 0, \A i \in Nat : i < k => Walk(s, W[i], W[i + 1])
  PROVE  Walk(Times(k, s), W[0], W[k])
<1> DEFINE Bad == {i \in Nat : i > 0 /\ i <= k /\ ~Walk(Times(i, s), W[0], W[i])}
<1>1. SUFFICES ASSUME Bad # {} PROVE FALSE
  OBVIOUS
<1>2. Bad \in SUBSET Nat
  OBVIOUS
<1>3. PICK m \in Bad : \A i \in Bad : m <= i
  <2> HIDE DEF Bad
  <2> QED BY <1>1, <1>2, NatHasLeast
<1>4. m \in Nat /\ m > 0 /\ m <= k /\ ~Walk(Times(m, s), W[0], W[m])
  BY <1>3
<1>5. m # 1
  <2>1. Walk(s, W[0], W[0 + 1])
    OBVIOUS
  <2> QED BY <1>4, <2>1, TimesOnce
<1>6. PICK j \in Nat : j > 0 /\ j < k /\ m = j + 1
  <2>1. m - 1 \in Nat /\ m - 1 > 0 /\ m - 1 < k /\ m = m - 1 + 1
    BY <1>4, <1>5
  <2> QED BY <2>1
<1>7. Walk(Times(j, s), W[0], W[j])
  <2>1. ~(m <= j) /\ j <= k
    BY <1>6
  <2>2. j \notin Bad
    BY <1>3, <2>1
  <2> QED BY <1>6, <2>1, <2>2
<1>8. Walk(s, W[j], W[j + 1])
  BY <1>6
<1>9. Times(j + 1, s) = Times(j, s) \o s
  BY <1>6, TimesMore
<1> QED BY <1>4, <1>6, <1>7, <1>8, <1>9, Join

LEMMA Five ==
  ASSUME NEW x, NEW y, NEW z, NEW u, NEW v, NEW a, NEW b, NEW c, Walk(<<x, y, z>>, a, b), Walk(<<u, v>>, b, c)
  PROVE  Walk(<<x, y, z, u, v>>, a, c)
<1>1. <<x, y, z, u, v>> = <<x, y, z>> \o <<u, v>>
  OBVIOUS
<1> QED BY <1>1, Join

LEMMA Six ==
  ASSUME NEW x, NEW y, NEW z, NEW u, NEW v, NEW w, NEW a, NEW b, NEW c,
         Walk(<<x, y, z>>, a, b), Walk(<<u, v, w>>, b, c)
  PROVE  Walk(<<x, y, z, u, v, w>>, a, c)
<1>1. <<x, y, z, u, v, w>> = <<x, y, z>> \o <<u, v, w>>
  OBVIOUS
<1> QED BY <1>1, Join

LEMMA Seven ==
  ASSUME NEW x, NEW y, NEW z, NEW u, NEW v, NEW w, NEW q, NEW a, NEW b, NEW c,
         Walk(<<x, y, z, u>>, a, b), Walk(<<v, w, q>>, b, c)
  PROVE  Walk(<<x, y, z, u, v, w, q>>, a, c)
<1>1. <<x, y, z, u, v, w, q>> = <<x, y, z, u>> \o <<v, w, q>>
  OBVIOUS
<1> QED BY <1>1, Join

\* The steps that count nothing, from any ledger.
LEMMA PlainSteps ==
  ASSUME NEW a \in Ledgers, NEW x \in Plain
  PROVE  Walk(<<x>>, a, a)
<1>1. x \in Acts /\ x # Verdict
  BY DEF Acts, Plain, Sleep, Ask, Take, Check, Output, Verdict
<1>2. Moves(x, a, a)
  BY DEF Moves
<1> QED BY <1>1, <1>2, OneStep

PlainNames == Sleep \in Plain /\ Ask \in Plain /\ Take \in Plain /\ Check \in Plain /\ Output \in Plain
LEMMA Named ==
  PlainNames /\ <<"rumble">> \in Plain /\ "calm" \in Modes /\ "held" \in Modes /\ "muted" \in Modes
BY DEF PlainNames, Plain, Modes

Calm(f, n) == Ledger(f, n, "calm")
Holding(f, n) == Ledger(f, n, "held")
Unsure(f) == [frames |-> f, inputs |-> 0, known |-> FALSE, mode |-> "calm"]

LEMMA CalmLedgers ==
  /\ \A f \in Nat, n \in Nat : Calm(f, n) \in Ledgers /\ Calm(f, n).mode = "calm"
  /\ \A f \in Nat : Unsure(f) \in Ledgers /\ Unsure(f).mode = "calm"
BY DEF Calm, Unsure, Ledger, Ledgers, Modes

\* A probe begins to count ...
LEMMA Begins ==
  ASSUME NEW a \in Ledgers, a.mode = "calm"
  PROVE  /\ Walk(<<Start>>, a, Calm(0, 0)) /\ Walk(<<Start>>, a, Unsure(0))
         /\ Walk(<<Check, Start>>, a, Calm(0, 0)) /\ Walk(<<Check, Start>>, a, Unsure(0))
<1>1. Start \in Acts /\ Start # Verdict
  BY DEF Acts, Start, Verdict
<1>2. Moves(Start, a, Calm(0, 0)) /\ Moves(Start, a, Unsure(0))
  <2>1. TRUE \in BOOLEAN /\ FALSE \in BOOLEAN
    OBVIOUS
  <2> QED BY <2>1 DEF Moves, Calm, Unsure, Ledger
<1>3. Walk(<<Start>>, a, Calm(0, 0)) /\ Walk(<<Start>>, a, Unsure(0))
  BY <1>1, <1>2, CalmLedgers, OneStep
<1>4. Walk(<<Check>>, a, a)
  BY PlainSteps, Named DEF PlainNames
<1> QED BY <1>3, <1>4, Two

\* ... and states what it has counted.
LEMMA Ends ==
  ASSUME NEW f \in Nat, NEW n \in Nat
  PROVE  /\ Walk(<<Summary(f, 2 * n)>>, Calm(f, n), Calm(f, n))
         /\ Walk(<<Summary(f, NotStated)>>, Calm(f, n), Calm(f, n))
         /\ Walk(<<Summary(f, NotStated)>>, Unsure(f), Unsure(f))
<1>1. 2 * n \in Nat /\ NotStated \in Nat
  BY DEF NotStated
<1>2. \A k \in Nat : Summary(f, k) \in Acts
  BY DEF Acts, Summaries
<1>3. \A k \in Nat : Summary(f, k) # Verdict
  BY DEF Summary, Verdict
<1>4. Calm(f, n).frames = f /\ Calm(f, n).inputs = n /\ Calm(f, n).known /\ Calm(f, n).mode = "calm"
  BY DEF Calm, Ledger
<1>5. Unsure(f).frames = f /\ Unsure(f).mode = "calm"
  BY DEF Unsure
<1>6. /\ Moves(Summary(f, 2 * n), Calm(f, n), Calm(f, n))
      /\ Moves(Summary(f, NotStated), Calm(f, n), Calm(f, n))
      /\ Moves(Summary(f, NotStated), Unsure(f), Unsure(f))
  BY <1>1, <1>4, <1>5 DEF Moves
<1> QED BY <1>1, <1>2, <1>3, <1>6, CalmLedgers, OneStep

LEMMA Single ==
  ASSUME NEW f \in Nat, NEW n \in Nat
  PROVE  /\ \A x \in Plain : Walk(<<x>>, Calm(f, n), Calm(f, n)) /\ Walk(<<x>>, Holding(f, n), Holding(f, n))
         /\ Walk(<<Shoot>>, Calm(f, n), Calm(f + 1, n)) /\ Walk(<<Shoot>>, Holding(f, n), Holding(f + 1, n))
         /\ Walk(<<Pulse>>, Calm(f, n), Calm(f, n + 2)) /\ Walk(<<Press>>, Calm(f, n), Holding(f, n + 1))
         /\ Walk(<<Lift>>, Calm(f, n), Calm(f, n + 1)) /\ Walk(<<Lift>>, Holding(f, n), Calm(f, n + 1))
BY Named, BookedSteps DEF Calm, Holding

\* The parts the scripts are put together from.
LEMMA Parts ==
  ASSUME NEW f \in Nat, NEW n \in Nat
  PROVE  /\ Walk(PressAndRelease, Calm(f, n), Calm(f, n + 2))
         /\ Walk(<<Ask, Shoot, Take>>, Calm(f, n), Calm(f + 1, n))
         /\ Walk(<<Pulse, Sleep>>, Calm(f, n), Calm(f, n + 2))
         /\ Walk(<<Sleep, Shoot>>, Calm(f, n), Calm(f + 1, n))
         /\ Walk(<<Sleep, Shoot>>, Holding(f, n), Holding(f + 1, n))
         /\ Walk(<<Pulse, Sleep, Shoot>>, Calm(f, n), Calm(f + 1, n + 2))
         /\ Walk(<<Sleep, Pulse, Shoot>>, Calm(f, n), Calm(f + 1, n + 2))
         /\ Walk(<<Press, Sleep, Shoot>>, Calm(f, n), Holding(f + 1, n + 1))
         /\ Walk(<<Lift, Sleep>>, Holding(f, n), Calm(f, n + 1))
         /\ Walk(<<Lift, Sleep, Shoot>>, Holding(f, n), Calm(f + 1, n + 1))
         /\ Walk(<<Press, Sleep, Shoot, Lift, Sleep>>, Calm(f, n), Calm(f + 1, n + 2))
         /\ Walk(<<Press, Sleep, Shoot, Lift, Sleep, Shoot>>, Calm(f, n), Calm(f + 2, n + 2))
<1>1. f + 1 \in Nat /\ n + 1 \in Nat /\ n + 2 \in Nat /\ f + 1 + 1 = f + 2 /\ n + 1 + 1 = n + 2
  OBVIOUS
<1>2. \A k \in Nat, o \in Nat : /\ Walk(<<Sleep>>, Calm(k, o), Calm(k, o))
                              /\ Walk(<<Sleep>>, Holding(k, o), Holding(k, o))
                              /\ Walk(<<Ask>>, Calm(k, o), Calm(k, o)) /\ Walk(<<Take>>, Calm(k, o), Calm(k, o))
  BY Named, Single DEF PlainNames
<1>3. Walk(PressAndRelease, Calm(f, n), Calm(f, n + 2))
  <2>1. Walk(<<Press>>, Calm(f, n), Holding(f, n + 1)) /\ Walk(<<Lift>>, Holding(f, n + 1), Calm(f, n + 2))
    BY <1>1, Single
  <2> QED BY <1>1, <1>2, <2>1, Three DEF PressAndRelease
<1>4. Walk(<<Ask, Shoot, Take>>, Calm(f, n), Calm(f + 1, n))
  <2>1. Walk(<<Shoot>>, Calm(f, n), Calm(f + 1, n))
    BY Single
  <2> QED BY <1>1, <1>2, <2>1, Three
<1>5. Walk(<<Pulse, Sleep>>, Calm(f, n), Calm(f, n + 2))
  <2>1. Walk(<<Pulse>>, Calm(f, n), Calm(f, n + 2))
    BY Single
  <2> QED BY <1>1, <1>2, <2>1, Two
<1>6. \A k \in Nat, o \in Nat : /\ Walk(<<Sleep, Shoot>>, Calm(k, o), Calm(k + 1, o))
                              /\ Walk(<<Sleep, Shoot>>, Holding(k, o), Holding(k + 1, o))
  BY <1>2, Single, Two
<1>7. Walk(<<Pulse, Sleep, Shoot>>, Calm(f, n), Calm(f + 1, n + 2))
  <2>1. /\ Walk(<<Pulse>>, Calm(f, n), Calm(f, n + 2)) /\ Walk(<<Sleep>>, Calm(f, n + 2), Calm(f, n + 2))
        /\ Walk(<<Shoot>>, Calm(f, n + 2), Calm(f + 1, n + 2))
    BY <1>1, <1>2, Single
  <2> QED BY <2>1, Three
<1>8. Walk(<<Sleep, Pulse, Shoot>>, Calm(f, n), Calm(f + 1, n + 2))
  <2>1. /\ Walk(<<Sleep>>, Calm(f, n), Calm(f, n)) /\ Walk(<<Pulse>>, Calm(f, n), Calm(f, n + 2))
        /\ Walk(<<Shoot>>, Calm(f, n + 2), Calm(f + 1, n + 2))
    BY <1>1, <1>2, Single
  <2> QED BY <2>1, Three
<1>9. Walk(<<Press, Sleep, Shoot>>, Calm(f, n), Holding(f + 1, n + 1))
  <2>1. /\ Walk(<<Press>>, Calm(f, n), Holding(f, n + 1))
           /\ Walk(<<Sleep>>, Holding(f, n + 1), Holding(f, n + 1))
        /\ Walk(<<Shoot>>, Holding(f, n + 1), Holding(f + 1, n + 1))
    BY <1>1, <1>2, Single
  <2> QED BY <2>1, Three
<1>10. ASSUME NEW k \in Nat, NEW o \in Nat
       PROVE  /\ Walk(<<Lift, Sleep>>, Holding(k, o), Calm(k, o + 1))
              /\ Walk(<<Lift, Sleep, Shoot>>, Holding(k, o), Calm(k + 1, o + 1))
  <2>1. o + 1 \in Nat
    OBVIOUS
  <2>2. /\ Walk(<<Lift>>, Holding(k, o), Calm(k, o + 1)) /\ Walk(<<Sleep>>, Calm(k, o + 1), Calm(k, o + 1))
        /\ Walk(<<Shoot>>, Calm(k, o + 1), Calm(k + 1, o + 1))
    BY <1>2, <2>1, Single
  <2> QED BY <2>2, Two, Three
<1>11. /\ Walk(<<Press, Sleep, Shoot, Lift, Sleep>>, Calm(f, n), Calm(f + 1, n + 2))
       /\ Walk(<<Press, Sleep, Shoot, Lift, Sleep, Shoot>>, Calm(f, n), Calm(f + 2, n + 2))
  <2>1. /\ Walk(<<Lift, Sleep>>, Holding(f + 1, n + 1), Calm(f + 1, n + 1 + 1))
        /\ Walk(<<Lift, Sleep, Shoot>>, Holding(f + 1, n + 1), Calm(f + 1 + 1, n + 1 + 1))
    BY <1>1, <1>10
  <2>2. /\ Walk(<<Lift, Sleep>>, Holding(f + 1, n + 1), Calm(f + 1, n + 2))
        /\ Walk(<<Lift, Sleep, Shoot>>, Holding(f + 1, n + 1), Calm(f + 2, n + 2))
    BY <1>1, <2>1
  <2> QED BY <1>9, <2>2, Five, Six
<1> QED BY <1>3, <1>4, <1>5, <1>6, <1>7, <1>8, <1>9, <1>10, <1>11

\* The parts that are repeated.
LEMMA Repetitions ==
  ASSUME NEW f \in Nat, NEW n \in Nat, NEW k \in Nat, k > 0
  PROVE  /\ Walk(Times(k, <<Ask, Shoot, Take>>), Calm(f, n), Calm(f + k, n))
         /\ Walk(Times(k, <<Pulse, Sleep>>), Calm(f, n), Calm(f, n + 2 * k))
         /\ Walk(Times(k, <<Sleep, Shoot>>), Calm(f, n), Calm(f + k, n))
         /\ Walk(Times(k, <<Sleep, Shoot>>), Holding(f, n), Holding(f + k, n))
<1>1. \A i \in Nat : /\ i + 1 \in Nat /\ f + i \in Nat /\ n + 2 * i \in Nat
                   /\ f + (i + 1) = f + i + 1 /\ n + 2 * (i + 1) = n + 2 * i + 2
  OBVIOUS
<1>2. Walk(Times(k, <<Ask, Shoot, Take>>), Calm(f, n), Calm(f + k, n))
  <2> DEFINE W == [i \in Nat |-> Calm(f + i, n)]
  <2>1. \A i \in Nat : W[i] = Calm(f + i, n)
    OBVIOUS
  <2> HIDE DEF W
  <2>2. ASSUME NEW i \in Nat  PROVE Walk(<<Ask, Shoot, Take>>, W[i], W[i + 1])
    <3>1. W[i] = Calm(f + i, n) /\ W[i + 1] = Calm(f + i + 1, n)
      BY <1>1, <2>1
    <3> QED BY <1>1, <3>1, Parts
  <2>3. Walk(Times(k, <<Ask, Shoot, Take>>), W[0], W[k])
    BY <2>2, Repeated
  <2> QED BY <2>1, <2>3
<1>3. Walk(Times(k, <<Pulse, Sleep>>), Calm(f, n), Calm(f, n + 2 * k))
  <2> DEFINE W == [i \in Nat |-> Calm(f, n + 2 * i)]
  <2>1. \A i \in Nat : W[i] = Calm(f, n + 2 * i)
    OBVIOUS
  <2> HIDE DEF W
  <2>2. ASSUME NEW i \in Nat  PROVE Walk(<<Pulse, Sleep>>, W[i], W[i + 1])
    <3>1. W[i] = Calm(f, n + 2 * i) /\ W[i + 1] = Calm(f, n + 2 * i + 2)
      BY <1>1, <2>1
    <3> QED BY <1>1, <3>1, Parts
  <2>3. Walk(Times(k, <<Pulse, Sleep>>), W[0], W[k])
    BY <2>2, Repeated
  <2> QED BY <2>1, <2>3
<1>4. Walk(Times(k, <<Sleep, Shoot>>), Calm(f, n), Calm(f + k, n))
  <2> DEFINE W == [i \in Nat |-> Calm(f + i, n)]
  <2>1. \A i \in Nat : W[i] = Calm(f + i, n)
    OBVIOUS
  <2> HIDE DEF W
  <2>2. ASSUME NEW i \in Nat  PROVE Walk(<<Sleep, Shoot>>, W[i], W[i + 1])
    <3>1. W[i] = Calm(f + i, n) /\ W[i + 1] = Calm(f + i + 1, n)
      BY <1>1, <2>1
    <3> QED BY <1>1, <3>1, Parts
  <2>3. Walk(Times(k, <<Sleep, Shoot>>), W[0], W[k])
    BY <2>2, Repeated
  <2> QED BY <2>1, <2>3
<1>5. Walk(Times(k, <<Sleep, Shoot>>), Holding(f, n), Holding(f + k, n))
  <2> DEFINE W == [i \in Nat |-> Holding(f + i, n)]
  <2>1. \A i \in Nat : W[i] = Holding(f + i, n)
    OBVIOUS
  <2> HIDE DEF W
  <2>2. ASSUME NEW i \in Nat  PROVE Walk(<<Sleep, Shoot>>, W[i], W[i + 1])
    <3>1. W[i] = Holding(f + i, n) /\ W[i + 1] = Holding(f + i + 1, n)
      BY <1>1, <2>1
    <3> QED BY <1>1, <3>1, Parts
  <2>3. Walk(Times(k, <<Sleep, Shoot>>), W[0], W[k])
    BY <2>2, Repeated
  <2> QED BY <2>1, <2>3
<1> QED BY <1>2, <1>3, <1>4, <1>5

\* A script that leaves the pad neutral and the sound on whenever it found them
\* so, and states what it counts.
Earned(s) == \A a \in Ledgers : a.mode = "calm" => \E b \in Ledgers : b.mode = "calm" /\ Walk(s, a, b)

LEMMA EarnedParts ==
  /\ Earned(<<>>)
  /\ \A s, t : Earned(s) /\ Earned(t) => Earned(s \o t)
  /\ \A s, f, n : f \in Nat /\ n \in Nat
                     /\ (\A a \in Ledgers : a.mode = "calm" => Walk(s, a, Calm(f, n)) \/ Walk(s, a, Unsure(f)))
                       => Earned(s)
  /\ \A s : (\A a \in Ledgers : Walk(s, a, a)) => Earned(s)
<1>1. Earned(<<>>)
  BY NoWalk DEF Earned
<1>2. ASSUME NEW s, NEW t, Earned(s), Earned(t)  PROVE Earned(s \o t)
  <2> SUFFICES ASSUME NEW a \in Ledgers, a.mode = "calm"
               PROVE  \E c \in Ledgers : c.mode = "calm" /\ Walk(s \o t, a, c)
    BY DEF Earned
  <2>1. PICK b \in Ledgers : b.mode = "calm" /\ Walk(s, a, b)
    BY <1>2 DEF Earned
  <2>2. PICK c \in Ledgers : c.mode = "calm" /\ Walk(t, b, c)
    BY <1>2, <2>1 DEF Earned
  <2> QED BY <2>1, <2>2, Join
<1>3. ASSUME NEW s, NEW f \in Nat, NEW n \in Nat,
             \A a \in Ledgers : a.mode = "calm" => Walk(s, a, Calm(f, n)) \/ Walk(s, a, Unsure(f))
      PROVE  Earned(s)
  BY <1>3, CalmLedgers DEF Earned
<1>4. ASSUME NEW s, \A a \in Ledgers : Walk(s, a, a)  PROVE Earned(s)
  BY <1>4 DEF Earned
<1> QED BY <1>1, <1>2, <1>3, <1>4

\* The probes of the race: a number of captures that the operator asks for.
LEMMA RaceProbes == Earned(RaceRoute) /\ Earned(RaceResource) /\ Earned(RaceSystem) /\ Earned(CityStreaming)
<1>1. ASSUME NEW k \in Nat, k > 0
      PROVE  /\ Walk(Times(k, <<Ask, Shoot, Take>>), Calm(0, 0), Calm(k, 0))
             /\ Walk(<<Summary(k, 0)>>, Calm(k, 0), Calm(k, 0))
  <2>1. Walk(Times(k, <<Ask, Shoot, Take>>), Calm(0, 0), Calm(0 + k, 0))
    BY <1>1, Repetitions
  <2>2. 0 \in Nat /\ 2 * 0 = 0 /\ 0 + k = k
    OBVIOUS
  <2>3. Walk(<<Summary(k, 2 * 0)>>, Calm(k, 0), Calm(k, 0))
    BY <2>2, Ends
  <2> QED BY <2>1, <2>2, <2>3
<1>2. ASSUME NEW a \in Ledgers, a.mode = "calm", NEW k \in Nat, k > 0
      PROVE  Walk(<<Start>> \o Times(k, <<Ask, Shoot, Take>>) \o <<Summary(k, 0)>>, a, Calm(k, 0))
  BY <1>1, <1>2, Begins, Join
<1>3. ASSUME NEW k \in Nat, k > 0  PROVE Earned(<<Start>> \o Times(k, <<Ask, Shoot, Take>>) \o <<Summary(k, 0)>>)
  BY <1>2, <1>3, EarnedParts
<1>4. Earned(RaceRoute) /\ Earned(RaceResource) /\ Earned(CityStreaming)
  BY <1>3 DEF RaceRoute, RaceResource, CityStreaming
<1>5. Walk(<<Verdict, Summary(2, 0)>>, Calm(2, 0), Calm(2, 0))
  <2> DEFINE s == <<Verdict, Summary(2, 0)>>
             F == [i \in 1..3 |-> Calm(2, 0)]
  <2>1. Summary(2, 0) \in Acts /\ Summary(2, 0) \in Summaries /\ Verdict \in Acts
    BY DEF Acts, Summaries
  <2>2. s \in Seq(Acts) /\ Len(s) = 2 /\ s[1] = Verdict /\ s[2] = Summary(2, 0)
    BY <2>1
  <2>3. Moves(Verdict, Calm(2, 0), Calm(2, 0))
    BY DEF Moves
  <2>4. Moves(Summary(2, 0), Calm(2, 0), Calm(2, 0))
    BY DEF Moves, Calm, Ledger
  <2>5. Summary(2, 0) # Verdict
    BY DEF Summary, Verdict
  <2>6. F \in [1..3 -> Ledgers] /\ \A i \in 1..3 : F[i] = Calm(2, 0)
    BY CalmLedgers
  <2> HIDE DEF s, F
  <2>7. Follows(F, s)
    BY <2>1, <2>2, <2>3, <2>4, <2>5, <2>6 DEF Follows
  <2>8. Walk(s, Calm(2, 0), Calm(2, 0))
    BY <2>2, <2>6, <2>7 DEF Walk
  <2> QED BY <2>8 DEF s
<1>6. ASSUME NEW a \in Ledgers, a.mode = "calm"  PROVE Walk(RaceSystem, a, Calm(2, 0))
  <2>1. Walk(Times(2, <<Ask, Shoot, Take>>), Calm(0, 0), Calm(2, 0))
    <3>1. 2 \in Nat /\ 2 > 0
      OBVIOUS
    <3> QED BY <1>1, <3>1
  <2>2. Walk(<<Start>>, a, Calm(0, 0))
    BY <1>6, Begins
  <2>3. Walk(<<Start>> \o Times(2, <<Ask, Shoot, Take>>), a, Calm(2, 0))
    BY <2>1, <2>2, Join
  <2> QED BY <1>5, <2>3, Join DEF RaceSystem
<1>7. Earned(RaceSystem)
  BY <1>6, EarnedParts
<1> QED BY <1>4, <1>7

\* The garage: the inputs are the operator's, so only the captures are stated.
LEMMA GarageProbe ==
  ASSUME NEW k \in Nat, k > 0
  PROVE  Earned(Garage(k))
<1> DEFINE phase == <<<<"command">>, Shoot, Take>>
           W == [i \in Nat |-> Unsure(i)]
<1>1. \A i \in Nat : W[i] = Unsure(i) /\ i + 1 \in Nat
  OBVIOUS
<1>2. ASSUME NEW i \in Nat  PROVE Walk(phase, Unsure(i), Unsure(i + 1))
  <2>1. /\ <<"command">> \in Acts /\ <<"command">> # Verdict /\ Shoot \in Acts /\ Shoot # Verdict
        /\ Moves(<<"command">>, Unsure(i), Unsure(i))
    BY DEF Acts, Verdict, Shoot, Moves, Unsure
  <2>2. Moves(Shoot, Unsure(i), Unsure(i + 1))
    BY DEF Moves, Put, Unsure
  <2>3. /\ Walk(<<<<"command">>>>, Unsure(i), Unsure(i)) /\ Walk(<<Shoot>>, Unsure(i), Unsure(i + 1))
        /\ Walk(<<Take>>, Unsure(i + 1), Unsure(i + 1))
    BY <1>1, <2>1, <2>2, CalmLedgers, OneStep, PlainSteps, Named DEF PlainNames
  <2> QED BY <2>3, Three
<1>3. Walk(Times(k, phase), Unsure(0), Unsure(k))
  <2> HIDE DEF W, phase
  <2>1. \A i \in Nat : Walk(phase, W[i], W[i + 1])
    BY <1>1, <1>2
  <2>2. Walk(Times(k, phase), W[0], W[k])
    BY <2>1, Repeated
  <2> QED BY <1>1, <2>2
<1>4. Walk(<<Summary(k, NotStated)>>, Unsure(k), Unsure(k))
  <2>1. 0 \in Nat
    OBVIOUS
  <2> QED BY <2>1, Ends
<1>5. ASSUME NEW a \in Ledgers, a.mode = "calm"  PROVE Walk(Garage(k), a, Unsure(k))
  BY <1>3, <1>4, <1>5, Begins, Join DEF Garage
<1> QED BY <1>5, EarnedParts

LEMMA FirstFrameProbe == Earned(FirstFrame)
<1>1. ASSUME NEW a \in Ledgers  PROVE Walk(FirstFrame, a, a)
  <2>1. Walk(<<Output>>, a, a) /\ Walk(<<Sleep>>, a, a) /\ Walk(<<Check>>, a, a)
    BY PlainSteps, Named DEF PlainNames
  <2> QED BY <2>1, Four DEF FirstFrame
<1> QED BY <1>1, EarnedParts

LEMMA RumbleProbe == Earned(ControllerRumble)
<1>1. ASSUME NEW a \in Ledgers  PROVE Walk(ControllerRumble, a, a)
  <2> DEFINE turn == <<<<"rumble">>, Sleep>>
             W == [i \in Nat |-> a]
  <2>1. Walk(<<Sleep>>, a, a) /\ Walk(<<<<"rumble">>>>, a, a)
    BY PlainSteps, Named DEF PlainNames
  <2>2. Walk(turn, a, a)
    BY <2>1, Two
  <2>3. \A i \in Nat : W[i] = a /\ W[i + 1] = a
    OBVIOUS
  <2>4. Walk(Times(2, turn), a, a)
    <3> HIDE DEF W, turn
    <3>1. \A i \in Nat : Walk(turn, W[i], W[i + 1])
      BY <2>2, <2>3
    <3>2. 2 \in Nat /\ 2 > 0 /\ 0 \in Nat
      OBVIOUS
    <3>3. Walk(Times(2, turn), W[0], W[2])
      BY <3>1, <3>2, Repeated
    <3> QED BY <2>3, <3>2, <3>3
  <2>5. Walk(<<Sleep>> \o Times(2, turn), a, a)
    BY <2>1, <2>4, Join
  <2> QED BY <2>1, <2>5, Join DEF ControllerRumble
<1> QED BY <1>1, EarnedParts

\* The sound is paused and resumed twice, then the operator is asked.
LEMMA AudioStabilityProbe == Earned(AudioStability)
<1> DEFINE turn == <<<<"pause">>, Sleep, <<"resume">>, Sleep>>
           c == Calm(0, 0)
           m == Ledger(0, 0, "muted")
           W == [i \in Nat |-> c]
<1>1. c = Ledger(0, 0, "calm") /\ c \in Ledgers /\ 0 \in Nat /\ 2 \in Nat /\ 2 > 0 /\ 2 * 0 = 0
  BY CalmLedgers DEF Calm
<1>2. Walk(<<Sleep>>, c, c) /\ Walk(<<Check>>, c, c) /\ Walk(<<Ask>>, c, c) /\ Walk(<<Take>>, c, c)
  BY <1>1, PlainSteps, Named DEF PlainNames
<1>3. Walk(<<<<"pause">>>>, c, m) /\ Walk(<<<<"resume">>>>, m, c) /\ Walk(<<Sleep>>, m, m)
  BY <1>1, BookedSteps, Named DEF PlainNames
<1>4. \A i \in Nat : W[i] = c /\ W[i + 1] = c
  OBVIOUS
<1> HIDE DEF c, m
<1>5. Walk(turn, c, c)
  BY <1>2, <1>3, Four
<1>6. Walk(Times(2, turn), c, c)
  <2> HIDE DEF W, turn
  <2>1. \A i \in Nat : Walk(turn, W[i], W[i + 1])
    BY <1>4, <1>5
  <2>2. Walk(Times(2, turn), W[0], W[2])
    BY <1>1, <2>1, Repeated
  <2> QED BY <1>1, <1>4, <2>2
<1>7. Walk(<<Summary(0, 0)>>, c, c)
  <2>1. Walk(<<Summary(0, 2 * 0)>>, Calm(0, 0), Calm(0, 0))
    BY <1>1, Ends
  <2> QED BY <1>1, <2>1 DEF c
<1>8. Walk(<<Check, Ask, Check, Take, Summary(0, 0)>>, c, c)
  <2>1. Walk(<<Check, Ask, Check>>, c, c) /\ Walk(<<Take, Summary(0, 0)>>, c, c)
    BY <1>2, <1>7, Two, Three
  <2> QED BY <2>1, Five
<1>9. ASSUME NEW a \in Ledgers, a.mode = "calm"  PROVE Walk(AudioStability, a, c)
  <2>1. Walk(<<Check, Start, Sleep>>, a, c)
    <3>1. Walk(<<Check>>, a, a) /\ Walk(<<Start>>, a, c)
      BY <1>9, Begins, PlainSteps, Named DEF PlainNames, c
    <3> QED BY <1>2, <3>1, Three
  <2>2. Walk(<<Check, Start, Sleep>> \o Times(2, turn), a, c)
    BY <1>6, <2>1, Join
  <2> QED BY <1>8, <2>2, Join DEF AudioStability
<1> QED BY <1>1, <1>9, EarnedParts DEF c

\* The window of one kind of sound.
LEMMA Windows ==
  ASSUME NEW f \in Nat, NEW n \in Nat, NEW o \in Nat, NEW s, Walk(s, Calm(f, n), Calm(f, o))
  PROVE  Walk(Window(s), Calm(f, n), Calm(f, o))
<1>1. Walk(<<Check>>, Calm(f, n), Calm(f, n)) /\ Walk(<<Check>>, Calm(f, o), Calm(f, o))
  BY Single, Named DEF PlainNames
<1> QED BY <1>1, Join DEF Window

LEMMA AudioEventProbe == Earned(AudioEvent)
<1>1. \A n \in Nat : Walk(<<Sleep>>, Calm(0, n), Calm(0, n))
  BY Single, Named DEF PlainNames
<1>2. \A n \in Nat : n + 2 \in Nat /\ n + 4 \in Nat /\ n + 2 + 2 = n + 4 /\ 0 \in Nat
  OBVIOUS
<1>3. \A n \in Nat : Walk(PressAndRelease, Calm(0, n), Calm(0, n + 2))
  BY Parts
<1>4. \A n \in Nat : Walk(Window(<<Sleep>>), Calm(0, n), Calm(0, n))
  BY <1>1, Windows
<1>5. \A n \in Nat : Walk(Window(PressAndRelease), Calm(0, n), Calm(0, n + 2))
  BY <1>2, <1>3, Windows
<1>6. ASSUME NEW n \in Nat
      PROVE  Walk(Window(PressAndRelease \o <<Sleep>> \o PressAndRelease \o <<Sleep>>), Calm(0, n), Calm(0, n + 4))
  <2>1. Walk(PressAndRelease \o <<Sleep>>, Calm(0, n), Calm(0, n + 2))
    BY <1>1, <1>2, <1>3, Join
  <2>2. Walk(PressAndRelease, Calm(0, n + 2), Calm(0, n + 4)) /\ Walk(<<Sleep>>, Calm(0, n + 4), Calm(0, n + 4))
    BY <1>1, <1>2, <1>3
  <2>3. Walk(PressAndRelease \o <<Sleep>> \o PressAndRelease, Calm(0, n), Calm(0, n + 4))
    BY <2>1, <2>2, Join
  <2>4. Walk(PressAndRelease \o <<Sleep>> \o PressAndRelease \o <<Sleep>>, Calm(0, n), Calm(0, n + 4))
    BY <2>2, <2>3, Join
  <2> QED BY <1>2, <2>4, Windows
<1> DEFINE s1 == <<Check, Start>> \o Window(<<Sleep>>) \o PressAndRelease \o <<Sleep>> \o Times(6, <<Pulse, Sleep>>)
           s2 == s1 \o Window(<<Sleep>>) \o Window(<<Sleep>>)
           s3 == s2 \o Window(PressAndRelease) \o Window(PressAndRelease)
           last == Window(PressAndRelease \o <<Sleep>> \o PressAndRelease \o <<Sleep>>)
<1>7. ASSUME NEW a \in Ledgers, a.mode = "calm"  PROVE Walk(s1, a, Calm(0, 14))
  <2>1. Walk(<<Check, Start>>, a, Calm(0, 0))
    BY <1>7, Begins
  <2>2. Walk(<<Check, Start>> \o Window(<<Sleep>>), a, Calm(0, 0))
    BY <1>2, <1>4, <2>1, Join
  <2>3. Walk(PressAndRelease, Calm(0, 0), Calm(0, 2))
    <3>1. 0 + 2 = 2
      OBVIOUS
    <3> QED BY <1>2, <1>3, <3>1
  <2>4. Walk(<<Check, Start>> \o Window(<<Sleep>>) \o PressAndRelease, a, Calm(0, 2))
    BY <2>2, <2>3, Join
  <2>5. Walk(<<Check, Start>> \o Window(<<Sleep>>) \o PressAndRelease \o <<Sleep>>, a, Calm(0, 2))
    BY <1>1, <2>4, Join
  <2>6. Walk(Times(6, <<Pulse, Sleep>>), Calm(0, 2), Calm(0, 14))
    <3>1. 2 + 2 * 6 = 14 /\ 2 \in Nat /\ 6 \in Nat /\ 6 > 0 /\ 0 \in Nat
      OBVIOUS
    <3>2. Walk(Times(6, <<Pulse, Sleep>>), Calm(0, 2), Calm(0, 2 + 2 * 6))
      BY <3>1, Repetitions
    <3> QED BY <3>1, <3>2
  <2> QED BY <2>5, <2>6, Join
<1>8. 14 \in Nat /\ 16 \in Nat /\ 18 \in Nat /\ 22 \in Nat /\ 14 + 2 = 16 /\ 16 + 2 = 18 /\ 18 + 4 = 22
  OBVIOUS
<1>9. ASSUME NEW a \in Ledgers, a.mode = "calm"  PROVE Walk(s2, a, Calm(0, 14))
  <2>1. Walk(Window(<<Sleep>>), Calm(0, 14), Calm(0, 14))
    BY <1>4, <1>8
  <2> HIDE DEF s1
  <2>2. Walk(s1 \o Window(<<Sleep>>), a, Calm(0, 14))
    BY <1>7, <1>9, <2>1, Join
  <2> QED BY <2>1, <2>2, Join
<1>10. ASSUME NEW a \in Ledgers, a.mode = "calm"  PROVE Walk(s3, a, Calm(0, 18))
  <2>1. Walk(Window(PressAndRelease), Calm(0, 14), Calm(0, 16))
          /\ Walk(Window(PressAndRelease), Calm(0, 16), Calm(0, 18))
    <3>1. Walk(Window(PressAndRelease), Calm(0, 14), Calm(0, 14 + 2))
            /\ Walk(Window(PressAndRelease), Calm(0, 16), Calm(0, 16 + 2))
      BY <1>5, <1>8
    <3> QED BY <1>8, <3>1
  <2> HIDE DEF s2
  <2>2. Walk(s2 \o Window(PressAndRelease), a, Calm(0, 16))
    BY <1>9, <1>10, <2>1, Join
  <2> QED BY <2>1, <2>2, Join
<1>11. ASSUME NEW a \in Ledgers, a.mode = "calm"  PROVE Walk(s3 \o last \o <<Summary(0, NotStated)>>, a, Calm(0, 22))
  <2>1. Walk(last, Calm(0, 18), Calm(0, 22))
    <3>1. Walk(last, Calm(0, 18), Calm(0, 18 + 4))
      BY <1>6, <1>8
    <3> QED BY <1>8, <3>1
  <2>2. Walk(<<Summary(0, NotStated)>>, Calm(0, 22), Calm(0, 22))
    BY <1>2, <1>8, Ends
  <2> HIDE DEF s3, last
  <2>3. Walk(s3 \o last, a, Calm(0, 22))
    BY <1>10, <1>11, <2>1, Join
  <2> QED BY <2>2, <2>3, Join
<1>12. AudioEvent = s3 \o last \o <<Summary(0, NotStated)>>
  BY DEF AudioEvent
<1> HIDE DEF s3, last
<1> QED BY <1>2, <1>8, <1>11, <1>12, EarnedParts

\* From the title to the game.
LEMMA GameplayReached ==
  ASSUME NEW a \in Ledgers, a.mode = "calm"
  PROVE  Walk(ToGameplay, a, Calm(1, 14))
<1>1. 0 \in Nat /\ 1 \in Nat /\ 2 \in Nat /\ 6 \in Nat /\ 14 \in Nat /\ 6 > 0 /\ 0 + 2 = 2 /\ 0 + 1 = 1
        /\ 2 + 2 * 6 = 14
  OBVIOUS
<1>2. Walk(<<Check, Start>>, a, Calm(0, 0))
  BY Begins
<1>3. Walk(PressAndRelease, Calm(0, 0), Calm(0, 2))
  <2>1. Walk(PressAndRelease, Calm(0, 0), Calm(0, 0 + 2))
    BY <1>1, Parts
  <2> QED BY <1>1, <2>1
<1>4. Walk(<<Sleep>>, Calm(0, 2), Calm(0, 2))
  BY <1>1, Single, Named DEF PlainNames
<1>5. Walk(Times(6, <<Pulse, Sleep>>), Calm(0, 2), Calm(0, 14))
  <2>1. Walk(Times(6, <<Pulse, Sleep>>), Calm(0, 2), Calm(0, 2 + 2 * 6))
    BY <1>1, Repetitions
  <2> QED BY <1>1, <2>1
<1>6. Walk(<<Shoot>>, Calm(0, 14), Calm(1, 14))
  <2>1. Walk(<<Shoot>>, Calm(0, 14), Calm(0 + 1, 14))
    BY <1>1, Single
  <2> QED BY <1>1, <2>1
<1>7. Walk(<<Check, Start>> \o PressAndRelease, a, Calm(0, 2))
  BY <1>2, <1>3, Join
<1>8. Walk(<<Check, Start>> \o PressAndRelease \o <<Sleep>>, a, Calm(0, 2))
  BY <1>4, <1>7, Join
<1>9. Walk(<<Check, Start>> \o PressAndRelease \o <<Sleep>> \o Times(6, <<Pulse, Sleep>>), a, Calm(0, 14))
  BY <1>5, <1>8, Join
<1> QED BY <1>6, <1>9, Join DEF ToGameplay

LEMMA PhysicsProbe == Earned(PhysicsTiming)
<1>1. 1 \in Nat /\ 2 \in Nat /\ 14 \in Nat /\ 15 \in Nat /\ 16 \in Nat /\ 1 + 1 = 2 /\ 14 + 1 = 15
        /\ 15 + 1 = 16
      /\ 2 * 16 = 8 + 24
  OBVIOUS
<1>2. /\ Walk(<<Check>>, Holding(1, 15), Holding(1, 15)) /\ Walk(<<Sleep>>, Holding(1, 15), Holding(1, 15))
      /\ Walk(<<Check>>, Calm(2, 16), Calm(2, 16))
  BY <1>1, Single, Named DEF PlainNames
<1>3. Walk(<<Press>>, Calm(1, 14), Holding(1, 15)) /\ Walk(<<Lift>>, Holding(1, 15), Calm(1, 16))
        /\ Walk(<<Shoot>>, Calm(1, 16), Calm(2, 16))
  <2>1. /\ Walk(<<Press>>, Calm(1, 14), Holding(1, 14 + 1)) /\ Walk(<<Lift>>, Holding(1, 15), Calm(1, 15 + 1))
        /\ Walk(<<Shoot>>, Calm(1, 16), Calm(1 + 1, 16))
    BY <1>1, Single
  <2> QED BY <1>1, <2>1
<1>4. Walk(<<Summary(2, 8 + 24)>>, Calm(2, 16), Calm(2, 16))
  <2>1. Walk(<<Summary(2, 2 * 16)>>, Calm(2, 16), Calm(2, 16))
    BY <1>1, Ends
  <2> QED BY <1>1, <2>1
<1>5. Walk(<<Press, Check, Sleep, Lift>>, Calm(1, 14), Calm(1, 16))
  BY <1>2, <1>3, Four
<1>6. Walk(<<Shoot, Check, Summary(2, 8 + 24)>>, Calm(1, 16), Calm(2, 16))
  BY <1>2, <1>3, <1>4, Three
<1>7. Walk(<<Press, Check, Sleep, Lift, Shoot, Check, Summary(2, 8 + 24)>>, Calm(1, 14), Calm(2, 16))
  BY <1>5, <1>6, Seven
<1>8. ASSUME NEW a \in Ledgers, a.mode = "calm"  PROVE Walk(PhysicsTiming, a, Calm(2, 16))
  BY <1>7, <1>8, GameplayReached, Join DEF PhysicsTiming
<1> QED BY <1>1, <1>8, EarnedParts

\* Four inputs held while a frame is taken, twice with a second frame after it.
LEMMA HeldInputs ==
  ASSUME NEW f \in Nat, NEW n \in Nat
  PROVE  /\ Walk(Times(2, <<Press, Sleep, Shoot, Lift, Sleep, Shoot>>), Calm(f, n), Calm(f + 4, n + 4))
         /\ Walk(Times(2, <<Press, Sleep, Shoot, Lift, Sleep>>), Calm(f, n), Calm(f + 2, n + 4))
<1> DEFINE long == <<Press, Sleep, Shoot, Lift, Sleep, Shoot>>
           short == <<Press, Sleep, Shoot, Lift, Sleep>>
           V == [i \in Nat |-> Calm(f + 2 * i, n + 2 * i)]
           W == [i \in Nat |-> Calm(f + i, n + 2 * i)]
<1>1. /\ \A i \in Nat : /\ i + 1 \in Nat /\ f + i \in Nat /\ n + 2 * i \in Nat /\ f + 2 * i \in Nat
                      /\ f + (i + 1) = f + i + 1 /\ n + 2 * (i + 1) = n + 2 * i + 2
                         /\ f + 2 * (i + 1) = f + 2 * i + 2
      /\ 2 \in Nat /\ 2 > 0 /\ 0 \in Nat /\ f + 2 * 0 = f /\ n + 2 * 0 = n /\ f + 2 * 2 = f + 4
         /\ n + 2 * 2 = n + 4 /\ f + 0 = f
  OBVIOUS
<1>2. \A i \in Nat : V[i] = Calm(f + 2 * i, n + 2 * i) /\ W[i] = Calm(f + i, n + 2 * i)
  OBVIOUS
<1> HIDE DEF V, W
<1>3. ASSUME NEW i \in Nat  PROVE Walk(long, V[i], V[i + 1])
  <2>1. V[i] = Calm(f + 2 * i, n + 2 * i) /\ V[i + 1] = Calm(f + 2 * i + 2, n + 2 * i + 2)
    <3>1. V[i + 1] = Calm(f + 2 * (i + 1), n + 2 * (i + 1))
      BY <1>1, <1>2
    <3>2. f + 2 * (i + 1) = f + 2 * i + 2 /\ n + 2 * (i + 1) = n + 2 * i + 2
      OBVIOUS
    <3> QED BY <1>2, <3>1, <3>2
  <2> QED BY <1>1, <2>1, Parts
<1>4. ASSUME NEW i \in Nat  PROVE Walk(short, W[i], W[i + 1])
  <2>1. W[i] = Calm(f + i, n + 2 * i) /\ W[i + 1] = Calm(f + i + 1, n + 2 * i + 2)
    <3>1. W[i + 1] = Calm(f + (i + 1), n + 2 * (i + 1))
      BY <1>1, <1>2
    <3>2. f + (i + 1) = f + i + 1 /\ n + 2 * (i + 1) = n + 2 * i + 2
      OBVIOUS
    <3> QED BY <1>2, <3>1, <3>2
  <2> QED BY <1>1, <2>1, Parts
<1> HIDE DEF long, short
<1>5. Walk(Times(2, long), V[0], V[2]) /\ Walk(Times(2, short), W[0], W[2])
  BY <1>1, <1>3, <1>4, Repeated
<1>6. V[0] = Calm(f, n) /\ V[2] = Calm(f + 4, n + 4) /\ W[0] = Calm(f, n) /\ W[2] = Calm(f + 2, n + 4)
  <2>1. V[0] = Calm(f + 2 * 0, n + 2 * 0) /\ V[2] = Calm(f + 2 * 2, n + 2 * 2)
          /\ W[0] = Calm(f + 0, n + 2 * 0) /\ W[2] = Calm(f + 2, n + 2 * 2)
    BY <1>1, <1>2
  <2> QED BY <1>1, <2>1
<1> QED BY <1>5, <1>6 DEF long, short

LEMMA GameplayProbe == Earned(GameplayInput)
<1>1. /\ 1 \in Nat /\ 5 \in Nat /\ 7 \in Nat /\ 8 \in Nat /\ 14 \in Nat /\ 18 \in Nat /\ 22 \in Nat
         /\ 24 \in Nat
      /\ 1 + 4 = 5 /\ 14 + 4 = 18 /\ 5 + 2 = 7 /\ 18 + 4 = 22 /\ 22 + 2 = 24 /\ 7 + 1 = 8 /\ 2 * 24 = 24 + 24
  OBVIOUS
<1> DEFINE long == Times(2, <<Press, Sleep, Shoot, Lift, Sleep, Shoot>>)
           short == Times(2, <<Press, Sleep, Shoot, Lift, Sleep>>)
<1>2. Walk(long, Calm(1, 14), Calm(5, 18)) /\ Walk(short, Calm(5, 18), Calm(7, 22))
  <2>1. Walk(long, Calm(1, 14), Calm(1 + 4, 14 + 4)) /\ Walk(short, Calm(5, 18), Calm(5 + 2, 18 + 4))
    BY <1>1, HeldInputs
  <2> QED BY <1>1, <2>1
<1>3. Walk(PressAndRelease, Calm(7, 22), Calm(7, 24))
  <2>1. Walk(PressAndRelease, Calm(7, 22), Calm(7, 22 + 2))
    BY <1>1, Parts
  <2> QED BY <1>1, <2>1
<1>4. Walk(<<Sleep, Shoot, Summary(8, 24 + 24)>>, Calm(7, 24), Calm(8, 24))
  <2>1. Walk(<<Sleep>>, Calm(7, 24), Calm(7, 24)) /\ Walk(<<Shoot>>, Calm(7, 24), Calm(7 + 1, 24))
    BY <1>1, Single, Named DEF PlainNames
  <2>2. Walk(<<Summary(8, 2 * 24)>>, Calm(8, 24), Calm(8, 24))
    BY <1>1, Ends
  <2>3. Walk(<<Shoot>>, Calm(7, 24), Calm(8, 24)) /\ Walk(<<Summary(8, 24 + 24)>>, Calm(8, 24), Calm(8, 24))
    BY <1>1, <2>1, <2>2
  <2> QED BY <2>1, <2>3, Three
<1>5. ASSUME NEW a \in Ledgers, a.mode = "calm"  PROVE Walk(GameplayInput, a, Calm(8, 24))
  <2> HIDE DEF long, short
  <2>1. Walk(ToGameplay \o long, a, Calm(5, 18))
    BY <1>2, <1>5, GameplayReached, Join
  <2>2. Walk(ToGameplay \o long \o short, a, Calm(7, 22))
    BY <1>2, <2>1, Join
  <2>3. Walk(ToGameplay \o long \o short \o PressAndRelease, a, Calm(7, 24))
    BY <1>3, <2>2, Join
  <2>4. Walk(ToGameplay \o long \o short \o PressAndRelease \o <<Sleep, Shoot, Summary(8, 24 + 24)>>, a, Calm(8, 24))
    BY <1>4, <2>3, Join
  <2> QED BY <2>4 DEF GameplayInput, long, short
<1> QED BY <1>1, <1>5, EarnedParts

\* Six views of the camera: four frames, then the next view and a frame of it.
LEMMA RenderingProbe == Earned(RenderingSmoke)
<1>1. /\ 0 \in Nat /\ 1 \in Nat /\ 2 \in Nat /\ 3 \in Nat /\ 4 \in Nat /\ 6 \in Nat /\ 6 > 0 /\ 4 > 0
         /\ 3 > 0 /\ 14 \in Nat /\ 16 \in Nat /\ 17 \in Nat /\ 18 \in Nat
      /\ 31 \in Nat /\ 33 \in Nat /\ 36 \in Nat /\ 0 + 1 = 1 /\ 0 + 2 = 2 /\ 31 + 2 = 33 /\ 14 + 2 = 16
         /\ 16 + 1 = 17
      /\ 33 + 3 = 36 /\ 17 + 1 = 18 /\ 2 * 18 = 28 + 8
  OBVIOUS
<1> DEFINE view == Times(4, <<Sleep, Shoot>>) \o <<Sleep, Pulse, Shoot>>
           held == <<Press, Sleep, Shoot, Lift, Sleep, Shoot>>
           open == <<Start, Pulse, Sleep, Shoot>>
           W == [i \in Nat |-> Calm(1 + 5 * i, 2 + 2 * i)]
<1>2. ASSUME NEW a \in Ledgers, a.mode = "calm"  PROVE Walk(open, a, Calm(1, 2))
  <2>1. Walk(<<Start>>, a, Calm(0, 0))
    BY <1>2, Begins
  <2>2. Walk(<<Pulse, Sleep, Shoot>>, Calm(0, 0), Calm(0 + 1, 0 + 2))
    BY <1>1, Parts
  <2>3. Walk(<<Pulse, Sleep, Shoot>>, Calm(0, 0), Calm(1, 2))
    BY <1>1, <2>2
  <2>4. open = <<Start>> \o <<Pulse, Sleep, Shoot>>
    OBVIOUS
  <2> HIDE DEF open
  <2> QED BY <2>1, <2>3, <2>4, Join
<1>3. ASSUME NEW f \in Nat, NEW n \in Nat  PROVE Walk(view, Calm(f, n), Calm(f + 5, n + 2))
  <2>1. f + 4 \in Nat /\ f + 4 + 1 = f + 5
    OBVIOUS
  <2>2. Walk(Times(4, <<Sleep, Shoot>>), Calm(f, n), Calm(f + 4, n))
    BY <1>1, Repetitions
  <2>3. Walk(<<Sleep, Pulse, Shoot>>, Calm(f + 4, n), Calm(f + 4 + 1, n + 2))
    BY <2>1, Parts
  <2> QED BY <2>1, <2>2, <2>3, Join
<1>4. /\ \A i \in Nat : /\ 1 + 5 * i \in Nat /\ 2 + 2 * i \in Nat
                      /\ 1 + 5 * (i + 1) = 1 + 5 * i + 5 /\ 2 + 2 * (i + 1) = 2 + 2 * i + 2 /\ i + 1 \in Nat
      /\ 1 + 5 * 0 = 1 /\ 2 + 2 * 0 = 2 /\ 1 + 5 * 6 = 31 /\ 2 + 2 * 6 = 14
  OBVIOUS
<1>5. \A i \in Nat : W[i] = Calm(1 + 5 * i, 2 + 2 * i)
  OBVIOUS
<1> HIDE DEF view, W
<1>6. Walk(Times(6, view), Calm(1, 2), Calm(31, 14))
  <2>1. ASSUME NEW i \in Nat  PROVE Walk(view, W[i], W[i + 1])
    <3>1. W[i] = Calm(1 + 5 * i, 2 + 2 * i) /\ W[i + 1] = Calm(1 + 5 * i + 5, 2 + 2 * i + 2)
      BY <1>4, <1>5
    <3> QED BY <1>3, <1>4, <3>1
  <2>2. Walk(Times(6, view), W[0], W[6])
    BY <1>1, <2>1, Repeated
  <2>3. W[0] = Calm(1, 2) /\ W[6] = Calm(31, 14)
    <3>1. W[0] = Calm(1 + 5 * 0, 2 + 2 * 0) /\ W[6] = Calm(1 + 5 * 6, 2 + 2 * 6)
      BY <1>1, <1>5
    <3> QED BY <1>4, <3>1
  <2> QED BY <2>2, <2>3
<1>7. Walk(held, Calm(31, 14), Calm(33, 16))
  <2>1. Walk(held, Calm(31, 14), Calm(31 + 2, 14 + 2))
    BY <1>1, Parts
  <2> QED BY <1>1, <2>1
<1>8. Walk(<<Press>>, Calm(33, 16), Holding(33, 17))
  <2>1. Walk(<<Press>>, Calm(33, 16), Holding(33, 16 + 1))
    BY <1>1, Single
  <2> QED BY <1>1, <2>1
<1>9. Walk(Times(3, <<Sleep, Shoot>>), Holding(33, 17), Holding(36, 17))
  <2>1. Walk(Times(3, <<Sleep, Shoot>>), Holding(33, 17), Holding(33 + 3, 17))
    BY <1>1, Repetitions
  <2> QED BY <1>1, <2>1
<1>10. Walk(<<Lift, Summary(36, 28 + 8)>>, Holding(36, 17), Calm(36, 18))
  <2>1. Walk(<<Lift>>, Holding(36, 17), Calm(36, 17 + 1))
          /\ Walk(<<Summary(36, 2 * 18)>>, Calm(36, 18), Calm(36, 18))
    BY <1>1, Single, Ends
  <2>2. Walk(<<Lift>>, Holding(36, 17), Calm(36, 18))
          /\ Walk(<<Summary(36, 28 + 8)>>, Calm(36, 18), Calm(36, 18))
    BY <1>1, <2>1
  <2> QED BY <2>2, Two
<1> HIDE DEF held, open
<1>11. ASSUME NEW a \in Ledgers, a.mode = "calm"  PROVE Walk(RenderingSmoke, a, Calm(36, 18))
  <2>1. Walk(open \o Times(6, view), a, Calm(31, 14))
    BY <1>2, <1>6, <1>11, Join
  <2>2. Walk(open \o Times(6, view) \o held, a, Calm(33, 16))
    BY <1>7, <2>1, Join
  <2>3. Walk(open \o Times(6, view) \o held \o <<Press>>, a, Holding(33, 17))
    BY <1>8, <2>2, Join
  <2>4. Walk(open \o Times(6, view) \o held \o <<Press>> \o Times(3, <<Sleep, Shoot>>), a, Holding(36, 17))
    BY <1>9, <2>3, Join
  <2>5. Walk(open \o Times(6, view) \o held \o <<Press>> \o Times(3, <<Sleep, Shoot>>) \o <<Lift, Summary(36, 28 + 8)>>, a, Calm(36, 18))
    BY <1>10, <2>4, Join
  <2> QED BY <2>5 DEF RenderingSmoke, open, view, held
<1> QED BY <1>1, <1>11, EarnedParts

\* The effects of the weather: sixteen pulses, each followed by a wait.
LEMMA EnvironmentProbe == Earned(EnvironmentEffects)
<1>1. /\ 0 \in Nat /\ 1 \in Nat /\ 2 \in Nat /\ 3 \in Nat /\ 4 \in Nat /\ 5 \in Nat /\ 6 \in Nat /\ 7 \in Nat
      /\ 3 > 0 /\ 2 > 0 /\ 4 > 0 /\ 7 > 0 /\ 8 \in Nat /\ 12 \in Nat /\ 20 \in Nat /\ 34 \in Nat
         /\ 36 \in Nat /\ 38 \in Nat /\ 39 \in Nat /\ 40 \in Nat
      /\ 0 + 1 = 1 /\ 0 + 2 = 2 /\ 2 + 2 * 3 = 8 /\ 8 + 2 * 2 = 12 /\ 12 + 2 * 4 = 20 /\ 20 + 2 * 7 = 34
         /\ 1 + 1 = 2 /\ 34 + 2 = 36 /\ 2 + 1 = 3
      /\ 3 + 2 = 5 /\ 36 + 2 = 38 /\ 5 + 1 = 6 /\ 38 + 1 = 39 /\ 39 + 1 = 40 /\ 2 * 40 = 72 + 8
  OBVIOUS
<1> DEFINE open == <<Check, Start, Pulse, Sleep, Sleep, Shoot>>
           turn == <<Pulse, Sleep>>
           look == <<Shoot, Pulse, Sleep, Sleep, Shoot>>
           held == <<Press, Sleep, Shoot, Lift, Sleep, Shoot>>
           last == <<Press, Sleep, Shoot, Lift, Summary(6, 72 + 8)>>
<1>2. \A f \in Nat, n \in Nat : Walk(<<Sleep>>, Calm(f, n), Calm(f, n))
  BY Single, Named DEF PlainNames
<1>3. ASSUME NEW f \in Nat, NEW n \in Nat  PROVE Walk(<<Sleep, Sleep, Shoot>>, Calm(f, n), Calm(f + 1, n))
  BY <1>2, Single, Three
<1>4. ASSUME NEW a \in Ledgers, a.mode = "calm"  PROVE Walk(open, a, Calm(1, 2))
  <2>1. Walk(<<Check>>, a, a) /\ Walk(<<Start>>, a, Calm(0, 0))
    BY <1>4, Begins, PlainSteps, Named DEF PlainNames
  <2>2. Walk(<<Pulse>>, Calm(0, 0), Calm(0, 0 + 2)) /\ Walk(<<Sleep, Sleep, Shoot>>, Calm(0, 2), Calm(0 + 1, 2))
    BY <1>1, <1>3, Single
  <2>3. Walk(<<Pulse>>, Calm(0, 0), Calm(0, 2)) /\ Walk(<<Sleep, Sleep, Shoot>>, Calm(0, 2), Calm(1, 2))
    BY <1>1, <2>2
  <2>4. Walk(<<Check, Start, Pulse>>, a, Calm(0, 2))
    BY <2>1, <2>3, Three
  <2> QED BY <2>3, <2>4, Six
<1>5. /\ Walk(Times(3, turn), Calm(1, 2), Calm(1, 8)) /\ Walk(Times(2, turn), Calm(1, 8), Calm(1, 12))
      /\ Walk(Times(4, turn), Calm(1, 12), Calm(1, 20)) /\ Walk(Times(7, turn), Calm(1, 20), Calm(1, 34))
  <2>1. /\ Walk(Times(3, turn), Calm(1, 2), Calm(1, 2 + 2 * 3))
           /\ Walk(Times(2, turn), Calm(1, 8), Calm(1, 8 + 2 * 2))
        /\ Walk(Times(4, turn), Calm(1, 12), Calm(1, 12 + 2 * 4))
           /\ Walk(Times(7, turn), Calm(1, 20), Calm(1, 20 + 2 * 7))
    BY <1>1, Repetitions
  <2> QED BY <1>1, <2>1
<1>6. Walk(look, Calm(1, 34), Calm(3, 36))
  <2>1. /\ Walk(<<Shoot>>, Calm(1, 34), Calm(1 + 1, 34)) /\ Walk(<<Pulse>>, Calm(2, 34), Calm(2, 34 + 2))
        /\ Walk(<<Shoot>>, Calm(2, 36), Calm(2 + 1, 36)) /\ Walk(<<Sleep>>, Calm(2, 36), Calm(2, 36))
    BY <1>1, <1>2, Single
  <2>2. /\ Walk(<<Shoot>>, Calm(1, 34), Calm(2, 34)) /\ Walk(<<Pulse>>, Calm(2, 34), Calm(2, 36))
        /\ Walk(<<Shoot>>, Calm(2, 36), Calm(3, 36)) /\ Walk(<<Sleep>>, Calm(2, 36), Calm(2, 36))
    BY <1>1, <2>1
  <2>3. Walk(<<Shoot, Pulse, Sleep>>, Calm(1, 34), Calm(2, 36))
          /\ Walk(<<Sleep, Shoot>>, Calm(2, 36), Calm(3, 36))
    BY <2>2, Two, Three
  <2> QED BY <2>3, Five
<1>7. Walk(held, Calm(3, 36), Calm(5, 38))
  <2>1. Walk(held, Calm(3, 36), Calm(3 + 2, 36 + 2))
    BY <1>1, Parts
  <2> QED BY <1>1, <2>1
<1>8. Walk(last, Calm(5, 38), Calm(6, 40))
  <2>1. /\ Walk(<<Press, Sleep, Shoot>>, Calm(5, 38), Holding(5 + 1, 38 + 1))
           /\ Walk(<<Lift>>, Holding(6, 39), Calm(6, 39 + 1))
        /\ Walk(<<Summary(6, 2 * 40)>>, Calm(6, 40), Calm(6, 40))
    BY <1>1, Parts, Single, Ends
  <2>2. /\ Walk(<<Press, Sleep, Shoot>>, Calm(5, 38), Holding(6, 39))
           /\ Walk(<<Lift>>, Holding(6, 39), Calm(6, 40))
        /\ Walk(<<Summary(6, 72 + 8)>>, Calm(6, 40), Calm(6, 40))
    BY <1>1, <2>1
  <2>3. Walk(<<Lift, Summary(6, 72 + 8)>>, Holding(6, 39), Calm(6, 40))
    BY <2>2, Two
  <2> QED BY <2>2, <2>3, Five
<1> HIDE DEF open, turn, look, held, last
<1>9. ASSUME NEW a \in Ledgers, a.mode = "calm"  PROVE Walk(EnvironmentEffects, a, Calm(6, 40))
  <2>1. Walk(open \o Times(3, turn), a, Calm(1, 8))
    BY <1>4, <1>5, <1>9, Join
  <2>2. Walk(open \o Times(3, turn) \o <<Sleep>>, a, Calm(1, 8))
    BY <1>1, <1>2, <2>1, Join
  <2>3. Walk(open \o Times(3, turn) \o <<Sleep>> \o Times(2, turn), a, Calm(1, 12))
    BY <1>5, <2>2, Join
  <2>4. Walk(open \o Times(3, turn) \o <<Sleep>> \o Times(2, turn) \o Times(4, turn), a, Calm(1, 20))
    BY <1>5, <2>3, Join
  <2>5. Walk(open \o Times(3, turn) \o <<Sleep>> \o Times(2, turn) \o Times(4, turn) \o Times(7, turn), a, Calm(1, 34))
    BY <1>5, <2>4, Join
  <2>6. Walk(open \o Times(3, turn) \o <<Sleep>> \o Times(2, turn) \o Times(4, turn) \o Times(7, turn) \o look, a, Calm(3, 36))
    BY <1>6, <2>5, Join
  <2>7. Walk(open \o Times(3, turn) \o <<Sleep>> \o Times(2, turn) \o Times(4, turn) \o Times(7, turn) \o look \o held, a, Calm(5, 38))
    BY <1>7, <2>6, Join
  <2>8. Walk(open \o Times(3, turn) \o <<Sleep>> \o Times(2, turn) \o Times(4, turn) \o Times(7, turn) \o look \o held \o last,
             a, Calm(6, 40))
    BY <1>8, <2>7, Join
  <2> QED BY <2>8 DEF EnvironmentEffects, open, turn, look, held, last
<1> QED BY <1>1, <1>9, EarnedParts

\* The front end: four pulses, three frames.
LEMMA FrontendProbe == Earned(FrontendSmoke)
<1>1. /\ 0 \in Nat /\ 1 \in Nat /\ 2 \in Nat /\ 3 \in Nat /\ 4 \in Nat /\ 6 \in Nat /\ 8 \in Nat
         /\ 0 + 1 = 1 /\ 0 + 2 = 2 /\ 1 + 1 = 2 /\ 2 + 2 = 4
      /\ 4 + 2 = 6 /\ 6 + 2 = 8 /\ 2 + 1 = 3 /\ 2 * 8 = 16
  OBVIOUS
<1> DEFINE p == <<Pulse, Sleep, Shoot>>
           q == <<Pulse, Sleep>>
           s == <<Summary(3, 16)>>
<1>2. Walk(p, Calm(0, 0), Calm(1, 2)) /\ Walk(p, Calm(1, 2), Calm(2, 4)) /\ Walk(q, Calm(2, 4), Calm(2, 6))
        /\ Walk(p, Calm(2, 6), Calm(3, 8))
  <2>1. /\ Walk(p, Calm(0, 0), Calm(0 + 1, 0 + 2)) /\ Walk(p, Calm(1, 2), Calm(1 + 1, 2 + 2))
        /\ Walk(q, Calm(2, 4), Calm(2, 4 + 2)) /\ Walk(p, Calm(2, 6), Calm(2 + 1, 6 + 2))
    BY <1>1, Parts
  <2> QED BY <1>1, <2>1
<1>3. Walk(s, Calm(3, 8), Calm(3, 8))
  <2>1. Walk(<<Summary(3, 2 * 8)>>, Calm(3, 8), Calm(3, 8))
    BY <1>1, Ends
  <2> QED BY <1>1, <2>1
<1> DEFINE u1 == <<Pulse, Sleep, Shoot, Summary(3, 16)>>
           u2 == <<Pulse, Sleep, Pulse, Sleep, Shoot, Summary(3, 16)>>
           u3 == <<Pulse, Sleep, Shoot, Pulse, Sleep, Pulse, Sleep, Shoot, Summary(3, 16)>>
           u4 == <<Pulse, Sleep, Shoot, Pulse, Sleep, Shoot, Pulse, Sleep, Pulse, Sleep, Shoot, Summary(3, 16)>>
<1>4. u1 = p \o s /\ u2 = q \o u1
  <2>1. u1 = <<Pulse, Sleep, Shoot>> \o <<Summary(3, 16)>>
    OBVIOUS
  <2>2. u2 = <<Pulse, Sleep>> \o <<Pulse, Sleep, Shoot, Summary(3, 16)>>
    OBVIOUS
  <2> QED BY <2>1, <2>2
<1>5. u3 = p \o u2
  <2>1. u3 = <<Pulse, Sleep, Shoot>> \o <<Pulse, Sleep, Pulse, Sleep, Shoot, Summary(3, 16)>>
    OBVIOUS
  <2> QED BY <2>1
<1>6. u4 = p \o u3
  <2>1. u4 = <<Pulse, Sleep, Shoot>> \o <<Pulse, Sleep, Shoot, Pulse, Sleep, Pulse, Sleep, Shoot, Summary(3, 16)>>
    OBVIOUS
  <2> QED BY <2>1
<1>7. FrontendSmoke = <<Start>> \o u4
  <2>1. <<Start, Pulse, Sleep, Shoot, Pulse, Sleep, Shoot, Pulse, Sleep, Pulse, Sleep, Shoot, Summary(3, 16)>>
          = <<Start>> \o <<Pulse, Sleep, Shoot, Pulse, Sleep, Shoot, Pulse, Sleep, Pulse, Sleep, Shoot, Summary(3, 16)>>
    OBVIOUS
  <2> QED BY <2>1 DEF FrontendSmoke
<1> HIDE DEF p, q, s, u1, u2, u3, u4
<1>8. Walk(u4, Calm(0, 0), Calm(3, 8))
  <2>1. Walk(u1, Calm(2, 6), Calm(3, 8))
    BY <1>2, <1>3, <1>4, Join
  <2>2. Walk(u2, Calm(2, 4), Calm(3, 8))
    BY <1>2, <1>4, <2>1, Join
  <2>3. Walk(u3, Calm(1, 2), Calm(3, 8))
    BY <1>2, <1>5, <2>2, Join
  <2> QED BY <1>2, <1>6, <2>3, Join
<1>9. ASSUME NEW a \in Ledgers, a.mode = "calm"  PROVE Walk(FrontendSmoke, a, Calm(3, 8))
  <2>1. Walk(<<Start>>, a, Calm(0, 0))
    BY <1>9, Begins
  <2> QED BY <1>7, <1>8, <2>1, Join
<1> QED BY <1>1, <1>9, EarnedParts

\* The cost of the read-back: in both its forms the inputs are not stated.
LEMMA ReadbackProbe ==
  ASSUME NEW unpaused \in BOOLEAN
  PROVE  Earned(ReadbackCost(unpaused))
<1>1. /\ 0 \in Nat /\ 1 \in Nat /\ 2 \in Nat /\ 3 \in Nat /\ 4 \in Nat /\ 5 \in Nat /\ 6 \in Nat
         /\ 0 + 1 = 1 /\ 0 + 2 = 2 /\ 1 + 1 = 2 /\ 2 + 1 = 3
      /\ 3 + 1 = 4 /\ 2 + 2 = 4 /\ 4 + 1 = 5 /\ 5 + 1 = 6 /\ 3 + 2 = 5
  OBVIOUS
<1>2. \A f \in Nat, n \in Nat : /\ Walk(<<Sleep>>, Calm(f, n), Calm(f, n))
                              /\ Walk(<<Check>>, Calm(f, n), Calm(f, n))
                              /\ Walk(<<Shoot>>, Calm(f, n), Calm(f + 1, n))
                              /\ Walk(<<Pulse>>, Calm(f, n), Calm(f, n + 2))
                              /\ Walk(<<Lift>>, Calm(f, n), Calm(f, n + 1))
  BY Single, Named DEF PlainNames
<1> DEFINE open == <<Check, Start, Shoot, Sleep, Pulse, Sleep, Shoot>>
           more == <<Lift, Shoot, Sleep, Check, Shoot, Check>>
           rest == <<Pulse, Sleep, Shoot, Sleep, Check, Shoot, Check>>
           sum == <<Sleep, IF unpaused THEN Summary(6, NotStated) ELSE Summary(4, NotStated)>>
<1>3. ASSUME NEW a \in Ledgers, a.mode = "calm"  PROVE Walk(open, a, Calm(2, 2))
  <2>1. Walk(<<Check>>, a, a) /\ Walk(<<Start>>, a, Calm(0, 0))
    BY <1>3, Begins, PlainSteps, Named DEF PlainNames
  <2>2. Walk(<<Shoot>>, Calm(0, 0), Calm(1, 0))
    <3>1. Walk(<<Shoot>>, Calm(0, 0), Calm(0 + 1, 0))
      BY <1>1, <1>2
    <3> QED BY <1>1, <3>1
  <2>3. Walk(<<Sleep>>, Calm(1, 0), Calm(1, 0))
    BY <1>1, <1>2
  <2>4. Walk(<<Check, Start, Shoot, Sleep>>, a, Calm(1, 0))
    BY <2>1, <2>2, <2>3, Four
  <2>5. Walk(<<Pulse, Sleep, Shoot>>, Calm(1, 0), Calm(2, 2))
    <3>1. Walk(<<Pulse, Sleep, Shoot>>, Calm(1, 0), Calm(1 + 1, 0 + 2))
      BY <1>1, Parts
    <3> QED BY <1>1, <3>1
  <2> QED BY <2>4, <2>5, Seven
<1>4. Walk(more, Calm(2, 2), Calm(4, 3))
  <2>1. Walk(<<Lift>>, Calm(2, 2), Calm(2, 2 + 1)) /\ Walk(<<Shoot>>, Calm(2, 3), Calm(2 + 1, 3))
          /\ Walk(<<Sleep>>, Calm(3, 3), Calm(3, 3))
        /\ Walk(<<Check>>, Calm(3, 3), Calm(3, 3)) /\ Walk(<<Shoot>>, Calm(3, 3), Calm(3 + 1, 3))
           /\ Walk(<<Check>>, Calm(4, 3), Calm(4, 3))
    BY <1>1, <1>2
  <2>2. Walk(<<Lift>>, Calm(2, 2), Calm(2, 3)) /\ Walk(<<Shoot>>, Calm(2, 3), Calm(3, 3))
          /\ Walk(<<Sleep>>, Calm(3, 3), Calm(3, 3))
        /\ Walk(<<Check>>, Calm(3, 3), Calm(3, 3)) /\ Walk(<<Shoot>>, Calm(3, 3), Calm(4, 3))
           /\ Walk(<<Check>>, Calm(4, 3), Calm(4, 3))
    BY <1>1, <2>1
  <2>3. Walk(<<Lift, Shoot, Sleep>>, Calm(2, 2), Calm(3, 3))
          /\ Walk(<<Check, Shoot, Check>>, Calm(3, 3), Calm(4, 3))
    BY <2>2, Three
  <2> QED BY <2>3, Six
<1>5. ASSUME NEW f \in Nat, NEW n \in Nat  PROVE Walk(rest, Calm(f, n), Calm(f + 2, n + 2))
  <2>1. f + 1 \in Nat /\ f + 1 + 1 = f + 2 /\ n + 2 \in Nat /\ f + 2 \in Nat
    OBVIOUS
  <2>2. Walk(<<Pulse>>, Calm(f, n), Calm(f, n + 2)) /\ Walk(<<Sleep>>, Calm(f, n + 2), Calm(f, n + 2))
          /\ Walk(<<Shoot>>, Calm(f, n + 2), Calm(f + 1, n + 2))
        /\ Walk(<<Sleep>>, Calm(f + 1, n + 2), Calm(f + 1, n + 2))
    BY <2>1, <1>2
  <2>3. Walk(<<Check>>, Calm(f + 1, n + 2), Calm(f + 1, n + 2))
          /\ Walk(<<Shoot>>, Calm(f + 1, n + 2), Calm(f + 1 + 1, n + 2))
        /\ Walk(<<Check>>, Calm(f + 2, n + 2), Calm(f + 2, n + 2))
    BY <2>1, <1>2
  <2>4. Walk(<<Pulse, Sleep, Shoot, Sleep>>, Calm(f, n), Calm(f + 1, n + 2))
    BY <2>2, Four
  <2>5. Walk(<<Check, Shoot, Check>>, Calm(f + 1, n + 2), Calm(f + 2, n + 2))
    BY <2>1, <2>3, Three
  <2> QED BY <2>4, <2>5, Seven
<1>6. CASE unpaused
  <2>1. Walk(rest, Calm(4, 3), Calm(6, 5))
    <3>1. 4 + 2 = 6
      OBVIOUS
    <3>2. Walk(rest, Calm(4, 3), Calm(4 + 2, 3 + 2))
      BY <1>1, <1>5
    <3> QED BY <1>1, <3>1, <3>2
  <2>2. Walk(<<Summary(6, NotStated)>>, Calm(6, 5), Calm(6, 5)) /\ Walk(<<Sleep>>, Calm(6, 5), Calm(6, 5))
    BY <1>1, <1>2, Ends
  <2>3. Walk(sum, Calm(6, 5), Calm(6, 5))
    BY <1>6, <2>2, Two
  <2> HIDE DEF open, more, rest, sum
  <2>4. ASSUME NEW a \in Ledgers, a.mode = "calm"  PROVE Walk(open \o more \o rest \o sum, a, Calm(6, 5))
    <3>1. Walk(open \o more, a, Calm(4, 3))
      BY <1>3, <1>4, <2>4, Join
    <3>2. Walk(open \o more \o rest, a, Calm(6, 5))
      BY <2>1, <3>1, Join
    <3> QED BY <2>3, <3>2, Join
  <2>5. ReadbackCost(unpaused) = open \o more \o rest \o sum
    BY <1>6 DEF ReadbackCost, open, more, rest, sum
  <2> QED BY <1>1, <2>4, <2>5, EarnedParts
<1>7. CASE ~unpaused
  <2>1. Walk(rest, Calm(2, 2), Calm(4, 4))
    <3>1. Walk(rest, Calm(2, 2), Calm(2 + 2, 2 + 2))
      BY <1>1, <1>5
    <3> QED BY <1>1, <3>1
  <2>2. Walk(<<Summary(4, NotStated)>>, Calm(4, 4), Calm(4, 4)) /\ Walk(<<Sleep>>, Calm(4, 4), Calm(4, 4))
    BY <1>1, <1>2, Ends
  <2>3. Walk(sum, Calm(4, 4), Calm(4, 4))
    BY <1>7, <2>2, Two
  <2>4. Walk(<<>>, Calm(2, 2), Calm(2, 2))
    BY <1>1, CalmLedgers, NoWalk
  <2> HIDE DEF open, more, rest, sum
  <2>5. ASSUME NEW a \in Ledgers, a.mode = "calm"  PROVE Walk(open \o <<>> \o rest \o sum, a, Calm(4, 4))
    <3>1. Walk(open \o <<>>, a, Calm(2, 2))
      BY <1>3, <2>4, <2>5, Join
    <3>2. Walk(open \o <<>> \o rest, a, Calm(4, 4))
      BY <2>1, <3>1, Join
    <3> QED BY <2>3, <3>2, Join
  <2>6. ReadbackCost(unpaused) = open \o <<>> \o rest \o sum
    BY <1>7 DEF ReadbackCost, open, more, rest, sum
  <2> QED BY <1>1, <2>5, <2>6, EarnedParts
<1> QED BY <1>6, <1>7

LEMMA SoakProbe == ASSUME NEW options  PROVE Earned(Soak(options))
<1>1. \A a \in Ledgers : Walk(<<Sleep>>, a, a)
  BY PlainSteps, Named DEF PlainNames
<1> QED BY <1>1, EarnedParts DEF Soak

LEMMA EarnedChoice == ASSUME NEW options, NEW name, NEW s, Earned(s)  PROVE Earned(Chosen(options, name, s))
BY EarnedParts DEF Chosen

LEMMA TailIsEarned == ASSUME NEW options  PROVE Earned(Tail_(options))
<1>1. Earned(Chosen(options, "frontend", FrontendSmoke)) /\ Earned(Chosen(options, "rumble", ControllerRumble))
  BY FrontendProbe, RumbleProbe, EarnedChoice
<1>2. Earned(Chosen(options, "frontend", FrontendSmoke) \o Chosen(options, "rumble", ControllerRumble))
  BY <1>1, EarnedParts
<1> QED BY <1>2, AudioStabilityProbe, AudioEventProbe, PhysicsProbe, GameplayProbe, RenderingProbe,
           EnvironmentProbe DEF Tail_

\* Whatever probes are chosen, the script earns what it states.
LEMMA ScriptsAreEarned == ASSUME NEW options  PROVE Earned(Script(options))
<1>1. \A s, t : Earned(s) /\ Earned(t) => Earned(s \o t)
  BY EarnedParts
<1>2. Earned(Tail_(options))
  BY TailIsEarned
<1>3. CASE "readback" \in options
  <2>1. ("unpaused" \in options) \in BOOLEAN
    OBVIOUS
  <2>2. Earned(ReadbackCost("unpaused" \in options))
    BY <2>1, ReadbackProbe
  <2> QED BY <1>3, <2>2 DEF Script
<1>4. CASE "readback" \notin options
  <2> DEFINE c1 == Chosen(options, "route", RaceRoute)
             c2 == Chosen(options, "resource", RaceResource)
             c3 == Chosen(options, "system", RaceSystem)
             c4 == Chosen(options, "city", CityStreaming)
             c5 == Chosen(options, "garage1", Garage(7))
             c6 == Chosen(options, "garage2", Garage(5))
             all8 == FirstFrame \o c1 \o c2 \o c3 \o c4 \o c5 \o c6 \o Soak(options) \o Tail_(options)
  <2>1. Earned(Garage(7)) /\ Earned(Garage(5))
    BY GarageProbe
  <2>2. Earned(c1) /\ Earned(c2) /\ Earned(c3) /\ Earned(c4) /\ Earned(c5) /\ Earned(c6)
    BY <2>1, RaceProbes, EarnedChoice
  <2>3. Script(options) = all8
    BY <1>4 DEF Script
  <2> HIDE DEF c1, c2, c3, c4, c5, c6
  <2>4. Earned(FirstFrame \o c1)
    BY <1>1, <2>2, FirstFrameProbe
  <2>5. Earned(FirstFrame \o c1 \o c2)
    BY <1>1, <2>2, <2>4
  <2>6. Earned(FirstFrame \o c1 \o c2 \o c3)
    BY <1>1, <2>2, <2>5
  <2>7. Earned(FirstFrame \o c1 \o c2 \o c3 \o c4)
    BY <1>1, <2>2, <2>6
  <2>8. Earned(FirstFrame \o c1 \o c2 \o c3 \o c4 \o c5)
    BY <1>1, <2>2, <2>7
  <2>9. Earned(FirstFrame \o c1 \o c2 \o c3 \o c4 \o c5 \o c6)
    BY <1>1, <2>2, <2>8
  <2>10. Earned(FirstFrame \o c1 \o c2 \o c3 \o c4 \o c5 \o c6 \o Soak(options))
    BY <1>1, <2>9, SoakProbe
  <2> QED BY <1>1, <1>2, <2>3, <2>10
<1> QED BY <1>3, <1>4

\* No script is empty.
Long(s) == s \in Seq(Acts) /\ Len(s) > 0
LEMMA LongGrows == ASSUME NEW s, NEW t, Long(s), t \in Seq(Acts)  PROVE Long(s \o t)
BY DEF Long

LEMMA EarnedIsASequence == ASSUME NEW s, Earned(s)  PROVE s \in Seq(Acts)
<1>1. Calm(0, 0) \in Ledgers /\ Calm(0, 0).mode = "calm"
  BY CalmLedgers
<1> QED BY <1>1 DEF Earned, Walk

LEMMA ScriptsAreLong == ASSUME NEW options  PROVE Long(Script(options))
<1>1. \A x \in Plain : x \in Acts
  BY DEF Acts
<1>2. /\ Check \in Acts /\ Sleep \in Acts /\ Output \in Acts /\ Start \in Acts /\ Shoot \in Acts
         /\ Pulse \in Acts /\ Lift \in Acts
      /\ Summary(6, NotStated) \in Acts /\ Summary(4, NotStated) \in Acts
  BY <1>1, Named DEF PlainNames, Acts, Summaries, NotStated
<1>3. CASE "readback" \in options
  <2> DEFINE open == <<Check, Start, Shoot, Sleep, Pulse, Sleep, Shoot>>
             more == IF "unpaused" \in options THEN <<Lift, Shoot, Sleep, Check, Shoot, Check>> ELSE <<>>
             rest == <<Pulse, Sleep, Shoot, Sleep, Check, Shoot, Check>>
             sum == <<Sleep, IF "unpaused" \in options THEN Summary(6, NotStated) ELSE Summary(4, NotStated)>>
  <2>1. open \in Seq(Acts) /\ Len(open) = 7
    BY <1>2
  <2>2. more \in Seq(Acts)
    <3>1. <<Lift, Shoot, Sleep, Check, Shoot, Check>> \in Seq(Acts) /\ <<>> \in Seq(Acts)
      BY <1>2
    <3> QED BY <3>1
  <2>3. rest \in Seq(Acts)
    BY <1>2
  <2>4. sum \in Seq(Acts)
    BY <1>2
  <2>5. Script(options) = open \o more \o rest \o sum
    BY <1>3 DEF Script, ReadbackCost
  <2> HIDE DEF open, more, rest, sum
  <2>6. Long(open)
    BY <2>1 DEF Long
  <2>7. Long(open \o more \o rest \o sum)
    BY <2>2, <2>3, <2>4, <2>6, LongGrows
  <2> QED BY <2>5, <2>7
<1>4. CASE "readback" \notin options
  <2> DEFINE c1 == Chosen(options, "route", RaceRoute)
             c2 == Chosen(options, "resource", RaceResource)
             c3 == Chosen(options, "system", RaceSystem)
             c4 == Chosen(options, "city", CityStreaming)
             c5 == Chosen(options, "garage1", Garage(7))
             c6 == Chosen(options, "garage2", Garage(5))
  <2>1. Garage(7) \in Seq(Acts) /\ Garage(5) \in Seq(Acts)
    BY GarageProbe, EarnedIsASequence
  <2>2. \A name, s : s \in Seq(Acts) => Chosen(options, name, s) \in Seq(Acts)
    BY DEF Chosen
  <2>3. c1 \in Seq(Acts) /\ c2 \in Seq(Acts) /\ c3 \in Seq(Acts) /\ c4 \in Seq(Acts) /\ c5 \in Seq(Acts)
          /\ c6 \in Seq(Acts)
    BY <2>1, <2>2, RaceProbes, EarnedIsASequence
  <2>4. Soak(options) \in Seq(Acts) /\ Tail_(options) \in Seq(Acts)
    BY SoakProbe, TailIsEarned, EarnedIsASequence
  <2>5. Long(FirstFrame)
    BY <1>2 DEF Long, FirstFrame
  <2>6. Script(options) = FirstFrame \o c1 \o c2 \o c3 \o c4 \o c5 \o c6 \o Soak(options) \o Tail_(options)
    BY <1>4 DEF Script
  <2> HIDE DEF c1, c2, c3, c4, c5, c6
  <2>7. Long(FirstFrame \o c1 \o c2 \o c3 \o c4)
    BY <2>3, <2>5, LongGrows
  <2>8. Long(FirstFrame \o c1 \o c2 \o c3 \o c4 \o c5 \o c6 \o Soak(options) \o Tail_(options))
    BY <2>3, <2>4, <2>7, LongGrows
  <2> QED BY <2>6, <2>8
<1> QED BY <1>3, <1>4

\* A step is known by its name, and a named step makes one kind of move.
LEMMA StepNames ==
  ASSUME NEW x \in Acts
  PROVE  /\ x[1] \in {"sleep", "output", "check", "ask", "take", "rumble"} => x \in Plain
         /\ x[1] = "start" => x = Start
         /\ x[1] = "shoot" => x = Shoot
         /\ x[1] = "pulse" => x = Pulse
         /\ x[1] = "press" => x = Press
         /\ x[1] = "lift" => x = Lift
         /\ x[1] = "command" => x = <<"command">>
         /\ x[1] = "rumble" => x = <<"rumble">>
         /\ x[1] = "pause" => x = <<"pause">>
         /\ x[1] = "resume" => x = <<"resume">>
         /\ x[1] = "verdict" => x = Verdict
         /\ x[1] = "summary" => x \in Summaries
<1>1. \A f, n : Summary(f, n)[1] = "summary"
  BY DEF Summary
<1>2. \A y \in Summaries : y[1] = "summary"
  BY <1>1 DEF Summaries
<1> QED BY <1>2 DEF Acts, Plain, Sleep, Ask, Take, Check, Output, Pulse, Press, Lift, Shoot, Verdict, Start

LEMMA CaptureNames ==
  ASSUME NEW x \in Acts, x[1] = "shoot" \/ x[1] = "output"
  PROVE  x = Shoot \/ x = Output
<1>1. \A y \in Summaries : y[1] = "summary"
  BY DEF Summary, Summaries
<1> QED BY <1>1 DEF Acts, Plain, Sleep, Ask, Take, Check, Output, Pulse, Press, Lift, Shoot, Verdict, Start

LEMMA MoveOf ==
  ASSUME NEW x, NEW a \in Ledgers, NEW b \in Ledgers, Moves(x, a, b)
  PROVE  /\ x \in Plain \cup {Verdict} => b = a
         /\ x = Start => a.mode = "calm" /\ b.frames = 0 /\ b.inputs = 0 /\ b.mode = "calm"
         /\ x = Shoot => b.frames = a.frames + 1 /\ b.inputs = a.inputs /\ b.mode = a.mode /\ b.known = a.known
         /\ x = Pulse => a.mode = "calm" /\ b.frames = a.frames /\ b.inputs = a.inputs + 2
            /\ b.mode = "calm" /\ b.known = a.known
         /\ x = Press => a.mode = "calm" /\ b.frames = a.frames /\ b.inputs = a.inputs + 1
            /\ b.mode = "held" /\ b.known = a.known
         /\ x = Lift => a.mode # "muted" /\ b.frames = a.frames /\ b.inputs = a.inputs + 1
            /\ b.mode = "calm" /\ b.known = a.known
         /\ x = <<"command">> => a.mode = "calm" /\ ~a.known /\ b = a
         /\ x = <<"pause">> => a.mode = "calm" /\ b.frames = a.frames /\ b.inputs = a.inputs
            /\ b.mode = "muted" /\ b.known = a.known
         /\ x = <<"resume">> => a.mode = "muted" /\ b.frames = a.frames /\ b.inputs = a.inputs
            /\ b.mode = "calm" /\ b.known = a.known
         /\ x \in Summaries => /\ a.mode = "calm" /\ b = a
                             /\ \E n \in Nat : x = Summary(a.frames, n)
                                /\ (n # NotStated => a.known /\ 2 * a.inputs = n)
<1> DEFINE rest == \E n \in Nat : x = Summary(a.frames, n) /\ (n # NotStated => a.known /\ 2 * a.inputs = n)
<1>1. \A f, n : Summary(f, n)[1] = "summary"
  BY DEF Summary
<1>2. (\A y \in Summaries : y[1] = "summary") /\ (rest => x[1] = "summary")
  BY <1>1 DEF Summaries
<1>3. \A y \in Plain : y[1] \in {"sleep", "output", "check", "ask", "take", "rumble"}
  BY DEF Plain, Sleep, Ask, Take, Check, Output
<1>4. /\ Start[1] = "start" /\ Shoot[1] = "shoot" /\ Pulse[1] = "pulse" /\ Press[1] = "press"
         /\ Lift[1] = "lift" /\ Verdict[1] = "verdict"
      /\ <<"command">>[1] = "command" /\ <<"pause">>[1] = "pause" /\ <<"resume">>[1] = "resume"
  BY DEF Start, Shoot, Pulse, Press, Lift, Verdict
<1>5. \A f, n, mode : /\ Put(a, f, n, mode).frames = f /\ Put(a, f, n, mode).inputs = n
                    /\ Put(a, f, n, mode).mode = mode
                    /\ Put(a, f, n, mode).known = a.known
  BY DEF Put
<1>6. \/ x \in Plain \cup {Verdict} /\ b = a
      \/ x = Start /\ a.mode = "calm"
         /\ \E k \in BOOLEAN : b = [frames |-> 0, inputs |-> 0, known |-> k, mode |-> "calm"]
      \/ x = Shoot /\ b = Put(a, a.frames + 1, a.inputs, a.mode)
      \/ x = Pulse /\ a.mode = "calm" /\ b = Put(a, a.frames, a.inputs + 2, "calm")
      \/ x = Press /\ a.mode = "calm" /\ b = Put(a, a.frames, a.inputs + 1, "held")
      \/ x = Lift /\ a.mode # "muted" /\ b = Put(a, a.frames, a.inputs + 1, "calm")
      \/ x = <<"command">> /\ a.mode = "calm" /\ ~a.known /\ b = a
      \/ x = <<"pause">> /\ a.mode = "calm" /\ b = Put(a, a.frames, a.inputs, "muted")
      \/ x = <<"resume">> /\ a.mode = "muted" /\ b = Put(a, a.frames, a.inputs, "calm")
      \/ rest /\ a.mode = "calm" /\ b = a
  BY DEF Moves
<1> HIDE DEF rest
<1>7. x \in Plain \cup {Verdict} => b = a
  BY <1>2, <1>3, <1>4, <1>6
<1>8. x = Start => a.mode = "calm" /\ b.frames = 0 /\ b.inputs = 0 /\ b.mode = "calm"
  BY <1>2, <1>3, <1>4, <1>6
<1>9. x \in Summaries => a.mode = "calm" /\ b = a /\ rest
  BY <1>2, <1>3, <1>4, <1>6
<1>10. x = <<"command">> => a.mode = "calm" /\ ~a.known /\ b = a
  BY <1>2, <1>3, <1>4, <1>6
<1>11. /\ x = Shoot => b = Put(a, a.frames + 1, a.inputs, a.mode)
       /\ x = Pulse => a.mode = "calm" /\ b = Put(a, a.frames, a.inputs + 2, "calm")
       /\ x = Press => a.mode = "calm" /\ b = Put(a, a.frames, a.inputs + 1, "held")
       /\ x = Lift => a.mode # "muted" /\ b = Put(a, a.frames, a.inputs + 1, "calm")
       /\ x = <<"pause">> => a.mode = "calm" /\ b = Put(a, a.frames, a.inputs, "muted")
       /\ x = <<"resume">> => a.mode = "muted" /\ b = Put(a, a.frames, a.inputs, "calm")
  BY <1>2, <1>3, <1>4, <1>6
<1> QED BY <1>5, <1>7, <1>8, <1>9, <1>10, <1>11 DEF rest

\* While the thread runs, what it has counted, how it holds the pad and whether
\* the sound is paused are what the ledger of its step says; F is the ledger.
Begun == {"pressed", "held", "set"}
Phases == {"go", "captures", "pressed", "held", "lifted", "set", "settle", "rumbling"}
Here == pScript[pWorker.at]
ProbeTypes ==
  /\ pWorker \in [at : Nat, phase : Phases, end : {"no", "left", "done"}]
  /\ pPad \in [held : BOOLEAN, armed : BOOLEAN, seen : BOOLEAN, rumble : BOOLEAN, muted : BOOLEAN]
  /\ pTally \in [frames : Nat, source : Nat, guest : Nat] /\ pStop \in BOOLEAN
ScriptHolds(F) == pScript \in Seq(Acts) /\ Len(pScript) > 0 /\ Follows(F, pScript)
InPlace == pWorker.end = "no" => pWorker.at \in 1..Len(pScript)
PhaseFits ==
  pWorker.end = "no" =>
    /\ pWorker.phase \in {"pressed", "held", "lifted"} => Here = Pulse \/ Here = <<"command">>
    /\ pWorker.phase = "set" => Here = Press \/ Here = Lift
    /\ pWorker.phase = "settle" => Here = <<"command">>
    /\ pWorker.phase = "rumbling" => Here = <<"rumble">>
    /\ pWorker.phase = "captures" => Here = Shoot \/ Here = Output
CountsAsBooked(F) ==
  pWorker.end = "no" =>
    /\ pTally.frames = F[pWorker.at].frames
    /\ F[pWorker.at].known /\ pWorker.phase \in Begun => pTally.source = F[pWorker.at].inputs + 1
    /\ F[pWorker.at].known /\ pWorker.phase = "lifted" => pTally.source = F[pWorker.at].inputs + 2
    /\ F[pWorker.at].known /\ pWorker.phase \in {"go", "captures", "rumbling"} => pTally.source = F[pWorker.at].inputs
PadAsBooked(F) ==
  pWorker.end = "no" =>
    /\ pPad.muted <=> F[pWorker.at].mode = "muted"
    /\ pWorker.phase \in {"go", "captures", "rumbling"} => (pPad.held <=> F[pWorker.at].mode = "held")
    /\ pWorker.phase \in {"lifted", "settle"} => ~pPad.held
    /\ pWorker.phase = "set" => (pPad.held <=> Here = Press)
Unseen == pPad.armed /\ ~pPad.seen
GuestKeepsUp ==
  \/ pStop
  \/ Unseen /\ pTally.source = pTally.guest + 1 /\ (pWorker.end # "no" \/ pWorker.phase \in {"set", "pressed", "lifted"})
  \/ ~Unseen /\ pTally.source = pTally.guest
MotorsInTurn == pPad.rumble => pWorker.end = "no" /\ pWorker.phase = "rumbling"
ProbeHolds(F) ==
  /\ ProbeTypes /\ ScriptHolds(F) /\ InPlace /\ PhaseFits /\ CountsAsBooked(F) /\ PadAsBooked(F) /\ GuestKeepsUp
  /\ MotorsInTurn /\ PassIsEarned

LEMMA ProbeBegins ==
  ASSUME ProbeInit
  PROVE  \E F : ProbeHolds(F)
<1>1. PICK options : pScript = Script(options)
  BY DEF ProbeInit
<1>2. Calm(0, 0) \in Ledgers /\ Calm(0, 0).mode = "calm"
  BY CalmLedgers
<1>3. PICK b \in Ledgers : Walk(pScript, Calm(0, 0), b)
  BY <1>1, <1>2, ScriptsAreEarned DEF Earned
<1>4. PICK F : Follows(F, pScript) /\ F[1] = Calm(0, 0)
  BY <1>3 DEF Walk
<1>5. pScript \in Seq(Acts) /\ Len(pScript) > 0
  BY <1>1, ScriptsAreLong DEF Long
<1>6. /\ pWorker = [at |-> 1, phase |-> "go", end |-> "no"]
      /\ pPad = [held |-> FALSE, armed |-> FALSE, seen |-> FALSE, rumble |-> FALSE, muted |-> FALSE]
      /\ pStop = FALSE /\ pTally = ZeroTally /\ pClaim = NoClaim
  BY DEF ProbeInit
<1>7. F[1].frames = 0 /\ F[1].inputs = 0 /\ F[1].mode = "calm"
  BY <1>4 DEF Calm, Ledger
<1>8. ProbeTypes /\ ScriptHolds(F) /\ InPlace /\ PhaseFits
  <2>1. ProbeTypes
    BY <1>6 DEF ProbeTypes, ZeroTally, Phases
  <2>2. ScriptHolds(F)
    BY <1>4, <1>5 DEF ScriptHolds
  <2>3. pWorker.at = 1 /\ pWorker.phase = "go" /\ Len(pScript) \in Nat
    BY <1>5, <1>6
  <2> QED BY <1>5, <2>1, <2>2, <2>3 DEF InPlace, PhaseFits
<1>9. CountsAsBooked(F) /\ PadAsBooked(F)
  BY <1>6, <1>7 DEF CountsAsBooked, PadAsBooked, ZeroTally, Begun
<1>10. GuestKeepsUp /\ MotorsInTurn /\ PassIsEarned
  BY <1>6 DEF GuestKeepsUp, Unseen, ZeroTally, MotorsInTurn, PassIsEarned, NoClaim, NotStated
<1> QED BY <1>8, <1>9, <1>10 DEF ProbeHolds

\* What the thread's place says of its step.
LEMMA AtThisStep ==
  ASSUME NEW F, ProbeTypes, ScriptHolds(F), InPlace, pWorker.end = "no"
  PROVE  /\ Here \in Acts /\ pWorker.at \in 1..Len(pScript) /\ Len(pScript) \in Nat
         /\ F[pWorker.at] \in Ledgers /\ F[pWorker.at + 1] \in Ledgers
            /\ Moves(Here, F[pWorker.at], F[pWorker.at + 1])
<1>1. pWorker.at \in 1..Len(pScript) /\ Len(pScript) \in Nat
  BY DEF InPlace, ScriptHolds
<1>2. pWorker.at \in 1..Len(pScript) + 1 /\ pWorker.at + 1 \in 1..Len(pScript) + 1
  BY <1>1
<1> QED BY <1>1, <1>2 DEF ScriptHolds, Follows, Here

\* The thread goes on to its next step, or has finished its script.
LEMMA Arrival ==
  ASSUME NEW F, ProbeTypes, ScriptHolds(F), InPlace, pWorker.end = "no", Advance, pScript' = pScript, ProbeTypes',
         pTally'.frames = F[pWorker.at + 1].frames,
         F[pWorker.at + 1].known => pTally'.source = F[pWorker.at + 1].inputs,
         pPad'.muted <=> F[pWorker.at + 1].mode = "muted",
         pPad'.held <=> F[pWorker.at + 1].mode = "held"
  PROVE  ScriptHolds(F)' /\ InPlace' /\ PhaseFits' /\ CountsAsBooked(F)' /\ PadAsBooked(F)' /\ pWorker'.phase = "go"
<1>1. pWorker.at \in 1..Len(pScript) /\ Len(pScript) \in Nat
  BY AtThisStep
<1>2. ScriptHolds(F)'
  BY DEF ScriptHolds
<1>3. /\ pWorker'.phase = "go"
      /\ pWorker'.end = "done" \/ (pWorker.at # Len(pScript) /\ pWorker'.at = pWorker.at + 1)
  BY DEF Advance, ProbeTypes
<1>4. pWorker'.end = "no" => pWorker'.at = pWorker.at + 1 /\ pWorker.at < Len(pScript)
  BY <1>1, <1>3
<1>5. InPlace' /\ PhaseFits'
  BY <1>1, <1>3, <1>4 DEF InPlace, PhaseFits
<1>6. CountsAsBooked(F)'
  BY <1>3, <1>4 DEF CountsAsBooked, Begun
<1>7. PadAsBooked(F)'
  BY <1>3, <1>4 DEF PadAsBooked
<1> QED BY <1>2, <1>3, <1>5, <1>6, <1>7

\* The thread has left its script: nothing is said of its place any more.
LEMMA Departure ==
  ASSUME NEW F, ScriptHolds(F), pWorker'.end # "no", pScript' = pScript
  PROVE  ScriptHolds(F)' /\ InPlace' /\ PhaseFits' /\ CountsAsBooked(F)' /\ PadAsBooked(F)'
BY DEF ScriptHolds, InPlace, PhaseFits, CountsAsBooked, PadAsBooked

LEMMA StepTypes ==
  ASSUME ProbeTypes
  PROVE  /\ Advance => pWorker' \in [at : Nat, phase : Phases, end : {"no", "left", "done"}]
         /\ Leave => pWorker' \in [at : Nat, phase : Phases, end : {"no", "left", "done"}]
            /\ pWorker'.end = "left" /\ pWorker'.phase = pWorker.phase
         /\ \A p \in Phases :
              Phase(p) => /\ pWorker' \in [at : Nat, phase : Phases, end : {"no", "left", "done"}]
                          /\ pWorker'.phase = p /\ pWorker'.at = pWorker.at /\ pWorker'.end = pWorker.end
<1>1. pWorker \in [at : Nat, phase : Phases, end : {"no", "left", "done"}]
  BY DEF ProbeTypes
<1>2. ASSUME Advance  PROVE pWorker' \in [at : Nat, phase : Phases, end : {"no", "left", "done"}]
  <2>1. pWorker.at + 1 \in Nat
    BY <1>1
  <2> QED BY <1>1, <1>2, <2>1 DEF Advance, Phases
<1>3. ASSUME Leave
      PROVE  pWorker' \in [at : Nat, phase : Phases, end : {"no", "left", "done"}] /\ pWorker'.end = "left"
               /\ pWorker'.phase = pWorker.phase
  BY <1>1, <1>3 DEF Leave
<1>4. ASSUME NEW p \in Phases, Phase(p)
      PROVE  /\ pWorker' \in [at : Nat, phase : Phases, end : {"no", "left", "done"}]
             /\ pWorker'.phase = p /\ pWorker'.at = pWorker.at /\ pWorker'.end = pWorker.end
  BY <1>1, <1>4 DEF Phase
<1> QED BY <1>2, <1>3, <1>4

LEMMA HereAt ==
  ASSUME NEW F, ProbeHolds(F), pWorker.end = "no"
  PROVE  /\ Here \in Acts /\ F[pWorker.at] \in Ledgers /\ F[pWorker.at + 1] \in Ledgers
         /\ Moves(Here, F[pWorker.at], F[pWorker.at + 1]) /\ pWorker.at \in 1..Len(pScript)
            /\ Len(pScript) \in Nat
BY AtThisStep DEF ProbeHolds

\* A step that counts nothing is over.
LEMMA PassesOn ==
  ASSUME NEW F, ProbeHolds(F), pWorker.end = "no", pWorker.phase \in {"go", "captures"},
         F[pWorker.at + 1] = F[pWorker.at], Advance,
         UNCHANGED <<pScript, pStop, pTally, pClaim, pPad>>
  PROVE  ProbeHolds(F)'
<1>1. ProbeTypes'
  BY StepTypes DEF ProbeHolds, ProbeTypes
<1>2. pTally'.frames = F[pWorker.at + 1].frames
        /\ (F[pWorker.at + 1].known => pTally'.source = F[pWorker.at + 1].inputs)
  BY DEF ProbeHolds, CountsAsBooked
<1>3. (pPad'.muted <=> F[pWorker.at + 1].mode = "muted") /\ (pPad'.held <=> F[pWorker.at + 1].mode = "held")
  BY DEF ProbeHolds, PadAsBooked
<1>4. ScriptHolds(F)' /\ InPlace' /\ PhaseFits' /\ CountsAsBooked(F)' /\ PadAsBooked(F)' /\ pWorker'.phase = "go"
  BY <1>1, <1>2, <1>3, Arrival DEF ProbeHolds
<1>5. GuestKeepsUp'
  BY DEF ProbeHolds, GuestKeepsUp, Unseen
<1>6. MotorsInTurn' /\ PassIsEarned'
  BY DEF ProbeHolds, MotorsInTurn, PassIsEarned
<1> QED BY <1>1, <1>4, <1>5, <1>6 DEF ProbeHolds

\* The thread leaves in the middle of its script.
LEMMA Leaves ==
  ASSUME NEW F, ProbeHolds(F), pWorker.end = "no", pWorker.phase # "rumbling", Leave,
         UNCHANGED <<pScript, pStop, pTally, pClaim, pPad>>
  PROVE  ProbeHolds(F)'
<1>1. ProbeTypes' /\ pWorker'.end = "left"
  BY StepTypes DEF ProbeHolds, ProbeTypes
<1>2. ScriptHolds(F)' /\ InPlace' /\ PhaseFits' /\ CountsAsBooked(F)' /\ PadAsBooked(F)'
  BY <1>1, Departure DEF ProbeHolds
<1>3. GuestKeepsUp'
  BY <1>1 DEF ProbeHolds, GuestKeepsUp, Unseen
<1>4. MotorsInTurn' /\ PassIsEarned'
  BY DEF ProbeHolds, MotorsInTurn, PassIsEarned
<1> QED BY <1>1, <1>2, <1>3, <1>4 DEF ProbeHolds

LEMMA PlainProbeSteps ==
  ASSUME NEW F, ProbeHolds(F), Sleeps \/ Checks \/ Awaits \/ (Takes /\ pPad' = pPad)
  PROVE  ProbeHolds(F)'
<1>1. /\ pWorker.end = "no" /\ pWorker.phase = "go" /\ Here[1] \in {"sleep", "check", "ask", "take"}
      /\ UNCHANGED <<pScript, pStop, pTally, pClaim, pPad>> /\ (Advance \/ Leave)
  BY DEF Sleeps, Checks, Awaits, Takes, AtStep, Running, Quiet, Here
<1>2. F[pWorker.at + 1] = F[pWorker.at]
  <2>1. Here \in Acts /\ F[pWorker.at] \in Ledgers /\ F[pWorker.at + 1] \in Ledgers
          /\ Moves(Here, F[pWorker.at], F[pWorker.at + 1])
    BY <1>1, HereAt
  <2>2. Here \in Plain
    BY <1>1, <2>1, StepNames
  <2>3. PICK a : a = F[pWorker.at]
    OBVIOUS
  <2>4. PICK b : b = F[pWorker.at + 1]
    OBVIOUS
  <2>5. a \in Ledgers /\ b \in Ledgers /\ Here \in Plain \cup {Verdict} /\ Moves(Here, a, b)
    BY <2>1, <2>2, <2>3, <2>4
  <2>6. b = a
    BY <2>5, MoveOf
  <2> QED BY <2>3, <2>4, <2>6
<1> QED BY <1>1, <1>2, PassesOn, Leaves

LEMMA StartStep ==
  ASSUME NEW F, ProbeHolds(F), Starts
  PROVE  ProbeHolds(F)'
<1>1. pWorker.end = "no" /\ pWorker.phase = "go" /\ Here[1] = "start" /\ Advance /\ pTally' = ZeroTally
      /\ UNCHANGED <<pScript, pStop, pClaim, pPad>>
  BY DEF Starts, AtStep, Running, Here
<1>2. /\ F[pWorker.at].mode = "calm" /\ F[pWorker.at + 1].frames = 0 /\ F[pWorker.at + 1].inputs = 0
      /\ F[pWorker.at + 1].mode = "calm"
  <2>1. Here \in Acts /\ F[pWorker.at] \in Ledgers /\ F[pWorker.at + 1] \in Ledgers
          /\ Moves(Here, F[pWorker.at], F[pWorker.at + 1])
    BY <1>1, HereAt
  <2>2. Here = Start
    BY <1>1, <2>1, StepNames
  <2> QED BY <2>1, <2>2, MoveOf
<1>3. ProbeTypes'
  BY <1>1, StepTypes DEF ProbeHolds, ProbeTypes, ZeroTally
<1>4. pTally'.frames = 0 /\ pTally'.source = 0 /\ pTally'.guest = 0
  BY <1>1 DEF ZeroTally
<1>5. ~pPad.muted /\ ~pPad.held
  BY <1>1, <1>2 DEF ProbeHolds, PadAsBooked
<1>6. ScriptHolds(F)' /\ InPlace' /\ PhaseFits' /\ CountsAsBooked(F)' /\ PadAsBooked(F)' /\ pWorker'.phase = "go"
  <2>1. /\ pTally'.frames = F[pWorker.at + 1].frames /\ pTally'.source = F[pWorker.at + 1].inputs
        /\ (pPad'.muted <=> F[pWorker.at + 1].mode = "muted")
           /\ (pPad'.held <=> F[pWorker.at + 1].mode = "held")
    BY <1>1, <1>2, <1>4, <1>5
  <2> QED BY <1>1, <1>3, <2>1, Arrival DEF ProbeHolds
<1>7. GuestKeepsUp'
  BY <1>1, <1>4 DEF ProbeHolds, GuestKeepsUp, Unseen
<1>8. MotorsInTurn' /\ PassIsEarned'
  BY <1>1 DEF ProbeHolds, MotorsInTurn, PassIsEarned
<1> QED BY <1>3, <1>6, <1>7, <1>8 DEF ProbeHolds

\* A capture begins, or comes back with nothing: the thread stays at its step.
LEMMA CaptureTurns ==
  ASSUME NEW F, ProbeHolds(F), pWorker.end = "no", pWorker.phase \in {"go", "captures"},
         NEW p \in {"go", "captures"}, Phase(p), Here = Shoot \/ Here = Output,
         UNCHANGED <<pScript, pStop, pTally, pClaim, pPad>>
  PROVE  ProbeHolds(F)'
<1>1. pWorker'.phase = p /\ pWorker'.at = pWorker.at /\ pWorker'.end = "no"
      /\ pWorker' \in [at : Nat, phase : Phases, end : {"no", "left", "done"}]
  <2>1. p \in Phases
    BY DEF Phases
  <2> QED BY <2>1, StepTypes DEF ProbeHolds
<1>2. ProbeTypes'
  BY <1>1 DEF ProbeHolds, ProbeTypes
<1>3. ScriptHolds(F)' /\ InPlace' /\ PhaseFits'
  BY <1>1 DEF ProbeHolds, ScriptHolds, InPlace, PhaseFits, Here
<1>4. CountsAsBooked(F)' /\ PadAsBooked(F)'
  BY <1>1 DEF ProbeHolds, CountsAsBooked, PadAsBooked, Begun
<1>5. GuestKeepsUp'
  BY <1>1 DEF ProbeHolds, GuestKeepsUp, Unseen
<1>6. MotorsInTurn' /\ PassIsEarned'
  BY <1>1 DEF ProbeHolds, MotorsInTurn, PassIsEarned
<1> QED BY <1>2, <1>3, <1>4, <1>5, <1>6 DEF ProbeHolds

LEMMA ShootStep ==
  ASSUME NEW F, ProbeHolds(F), Shoots
  PROVE  ProbeHolds(F)'
<1>1. pWorker.end = "no" /\ pWorker.phase = "go" /\ (Here[1] = "shoot" \/ Here[1] = "output")
        /\ UNCHANGED <<pScript, pStop, pTally, pClaim, pPad>>
  BY DEF Shoots, AtStep, Running, Here, Quiet
<1>2. CASE Leave
  BY <1>1, <1>2, Leaves
<1>3. CASE Phase("captures")
  <2>1. Here \in Acts
    BY <1>1, HereAt
  <2>2. Here = Shoot \/ Here = Output
    BY <1>1, <2>1, CaptureNames
  <2> QED BY <1>1, <1>3, <2>2, CaptureTurns
<1> QED BY <1>2, <1>3 DEF Shoots

LEMMA CaptureStep ==
  ASSUME NEW F, ProbeHolds(F), CaptureReturns
  PROVE  ProbeHolds(F)'
<1>1. pWorker.end = "no" /\ pWorker.phase = "captures" /\ UNCHANGED <<pScript, pStop, pClaim, pPad>>
  BY DEF CaptureReturns, Running
<1>2. Here = Shoot \/ Here = Output
  BY <1>1 DEF ProbeHolds, PhaseFits
<1>3. Shoot # Output
  BY DEF Shoot, Output
<1>4. CASE Phase("go") /\ pTally' = pTally
  BY <1>1, <1>2, <1>4, CaptureTurns
<1>5. CASE Advance /\ Here = Output /\ pTally' = pTally
  <2>1. F[pWorker.at + 1] = F[pWorker.at]
    <3>1. F[pWorker.at] \in Ledgers /\ F[pWorker.at + 1] \in Ledgers /\ Moves(Here, F[pWorker.at], F[pWorker.at + 1])
      BY <1>1, HereAt
    <3>2. Here \in Plain \cup {Verdict}
      BY <1>5 DEF Plain
    <3>3. PICK a : a = F[pWorker.at]
      OBVIOUS
    <3>4. PICK b : b = F[pWorker.at + 1]
      OBVIOUS
    <3>5. a \in Ledgers /\ b \in Ledgers /\ Moves(Here, a, b)
      BY <3>1, <3>3, <3>4
    <3>6. b = a
      BY <3>2, <3>5, MoveOf
    <3> QED BY <3>3, <3>4, <3>6
  <2> QED BY <1>1, <1>5, <2>1, PassesOn
<1>6. CASE Advance /\ Here = Shoot /\ pTally' = [pTally EXCEPT !.frames = @ + 1]
  <2>1. /\ F[pWorker.at + 1].frames = F[pWorker.at].frames + 1
           /\ F[pWorker.at + 1].inputs = F[pWorker.at].inputs
        /\ F[pWorker.at + 1].mode = F[pWorker.at].mode /\ F[pWorker.at + 1].known = F[pWorker.at].known
    <3>1. PICK a : a = F[pWorker.at]
      OBVIOUS
    <3>2. PICK b : b = F[pWorker.at + 1]
      OBVIOUS
    <3>3. a \in Ledgers /\ b \in Ledgers /\ Moves(Here, a, b)
      BY <1>1, <3>1, <3>2, HereAt
    <3>4. PICK x : x = Here
      OBVIOUS
    <3>5. x = Shoot /\ Moves(x, a, b)
      BY <1>6, <3>3, <3>4
    <3>6. b.frames = a.frames + 1 /\ b.inputs = a.inputs /\ b.mode = a.mode /\ b.known = a.known
      BY <3>3, <3>5, MoveOf
    <3> QED BY <3>1, <3>2, <3>6
  <2>2. /\ pTally' \in [frames : Nat, source : Nat, guest : Nat]
        /\ pTally'.frames = pTally.frames + 1 /\ pTally'.source = pTally.source /\ pTally'.guest = pTally.guest
    BY <1>6 DEF ProbeHolds, ProbeTypes
  <2>3. ProbeTypes'
    BY <1>1, <1>6, <2>2, StepTypes DEF ProbeHolds, ProbeTypes
  <2>4. pTally'.frames = F[pWorker.at + 1].frames
          /\ (F[pWorker.at + 1].known => pTally'.source = F[pWorker.at + 1].inputs)
    BY <1>1, <2>1, <2>2 DEF ProbeHolds, CountsAsBooked
  <2>5. (pPad'.muted <=> F[pWorker.at + 1].mode = "muted") /\ (pPad'.held <=> F[pWorker.at + 1].mode = "held")
    BY <1>1, <2>1 DEF ProbeHolds, PadAsBooked
  <2>6. ScriptHolds(F)' /\ InPlace' /\ PhaseFits' /\ CountsAsBooked(F)' /\ PadAsBooked(F)' /\ pWorker'.phase = "go"
    BY <1>1, <1>6, <2>3, <2>4, <2>5, Arrival DEF ProbeHolds
  <2>7. GuestKeepsUp'
    BY <1>1, <2>2 DEF ProbeHolds, GuestKeepsUp, Unseen
  <2>8. MotorsInTurn' /\ PassIsEarned'
    BY <1>1 DEF ProbeHolds, MotorsInTurn, PassIsEarned
  <2> QED BY <2>3, <2>6, <2>7, <2>8 DEF ProbeHolds
<1> QED BY <1>2, <1>3, <1>4, <1>5, <1>6 DEF CaptureReturns, Here

\* The pad is set for a pulse, a press, a release or an operator's order.
LEMMA ArmStep ==
  ASSUME NEW F, ProbeHolds(F), pWorker.end = "no", pWorker.phase = "go", NEW held \in BOOLEAN, NEW p \in Phases, Arms(held), Phase(p),
         p \in {"pressed", "set"},
         p = "pressed" => held /\ (Here = Pulse \/ Here = <<"command">>),
         p = "set" => (held /\ Here = Press) \/ (~held /\ Here = Lift)
  PROVE  ProbeHolds(F)'
<1>1. /\ pPad' = [pPad EXCEPT !.held = held, !.armed = TRUE, !.seen = FALSE]
      /\ pTally' = [pTally EXCEPT !.source = @ + 1] /\ UNCHANGED <<pScript, pStop, pClaim>>
  BY DEF Arms
<1>2. /\ pPad' \in [held : BOOLEAN, armed : BOOLEAN, seen : BOOLEAN, rumble : BOOLEAN, muted : BOOLEAN]
      /\ pPad'.held = held /\ pPad'.armed = TRUE /\ pPad'.seen = FALSE /\ pPad'.rumble = pPad.rumble
         /\ pPad'.muted = pPad.muted
  BY <1>1 DEF ProbeHolds, ProbeTypes
<1>3. /\ pTally' \in [frames : Nat, source : Nat, guest : Nat]
      /\ pTally'.frames = pTally.frames /\ pTally'.source = pTally.source + 1 /\ pTally'.guest = pTally.guest
  BY <1>1 DEF ProbeHolds, ProbeTypes
<1>4. pWorker'.phase = p /\ pWorker'.at = pWorker.at /\ pWorker'.end = "no"
      /\ pWorker' \in [at : Nat, phase : Phases, end : {"no", "left", "done"}]
  BY StepTypes DEF ProbeHolds
<1>5. ProbeTypes'
  BY <1>1, <1>2, <1>3, <1>4 DEF ProbeHolds, ProbeTypes
<1>6. ScriptHolds(F)' /\ InPlace' /\ PhaseFits'
  BY <1>1, <1>4 DEF ProbeHolds, ScriptHolds, InPlace, PhaseFits, Here
<1>7. CountsAsBooked(F)'
  <2>1. F[pWorker.at].known => pTally.source = F[pWorker.at].inputs
    BY DEF ProbeHolds, CountsAsBooked
  <2>2. pTally.frames = F[pWorker.at].frames
    BY DEF ProbeHolds, CountsAsBooked
  <2> QED BY <1>3, <1>4, <2>1, <2>2 DEF CountsAsBooked, Begun
<1>8. PadAsBooked(F)'
  BY <1>1, <1>2, <1>4 DEF ProbeHolds, PadAsBooked, Here, Press, Lift
<1>9. GuestKeepsUp'
  <2>1. pStop \/ pTally.source = pTally.guest
    BY DEF ProbeHolds, GuestKeepsUp
  <2> QED BY <1>1, <1>2, <1>3, <1>4, <2>1 DEF GuestKeepsUp, Unseen
<1>10. MotorsInTurn' /\ PassIsEarned'
  BY <1>1, <1>2 DEF ProbeHolds, MotorsInTurn, PassIsEarned
<1> QED BY <1>5, <1>6, <1>7, <1>8, <1>9, <1>10 DEF ProbeHolds

LEMMA SetStep ==
  ASSUME NEW F, ProbeHolds(F), Sets
  PROVE  ProbeHolds(F)'
<1>1. TRUE \in BOOLEAN /\ FALSE \in BOOLEAN /\ "pressed" \in Phases /\ "set" \in Phases
  BY DEF Phases
<1>2. pWorker.end = "no" /\ pWorker.phase = "go" /\ Here \in Acts
  BY HereAt DEF Sets, AtStep, Running
<1>3. CASE AtStep("pulse") /\ Arms(TRUE) /\ Phase("pressed")
  <2>1. Here = Pulse
    BY <1>2, <1>3, StepNames DEF AtStep, Here
  <2> QED BY <1>1, <1>2, <1>3, <2>1, ArmStep
<1>4. CASE AtStep("press") /\ Arms(TRUE) /\ Phase("set")
  <2>1. Here = Press
    BY <1>2, <1>4, StepNames DEF AtStep, Here
  <2> QED BY <1>1, <1>2, <1>4, <2>1, ArmStep
<1>5. CASE AtStep("lift") /\ Arms(FALSE) /\ Phase("set")
  <2>1. Here = Lift
    BY <1>2, <1>5, StepNames DEF AtStep, Here
  <2> QED BY <1>1, <1>2, <1>5, <2>1, ArmStep
<1> QED BY <1>3, <1>4, <1>5 DEF Sets

LEMMA SetReturnStep ==
  ASSUME NEW F, ProbeHolds(F), SetReturns
  PROVE  ProbeHolds(F)'
<1>1. pWorker.end = "no" /\ pWorker.phase = "set" /\ UNCHANGED <<pScript, pStop, pTally, pClaim, pPad>>
  BY DEF SetReturns, Running, Quiet
<1>2. CASE Leave
  BY <1>1, <1>2, Leaves
<1>3. CASE WaitHolds /\ Advance
  <2>1. Here \in Acts /\ F[pWorker.at] \in Ledgers /\ F[pWorker.at + 1] \in Ledgers
          /\ Moves(Here, F[pWorker.at], F[pWorker.at + 1])
    BY <1>1, HereAt
  <2>2. Here = Press \/ Here = Lift
    BY <1>1 DEF ProbeHolds, PhaseFits
  <2>3. /\ F[pWorker.at + 1].frames = F[pWorker.at].frames
           /\ F[pWorker.at + 1].inputs = F[pWorker.at].inputs + 1
        /\ F[pWorker.at].mode # "muted" /\ F[pWorker.at + 1].known = F[pWorker.at].known
        /\ Here = Press => F[pWorker.at + 1].mode = "held"
        /\ Here = Lift => F[pWorker.at + 1].mode = "calm"
    <3>1. CASE Here = Press
      <4>1. Here # Lift
        BY <3>1 DEF Press, Lift
      <4>2. /\ F[pWorker.at].mode = "calm" /\ F[pWorker.at + 1].frames = F[pWorker.at].frames
            /\ F[pWorker.at + 1].inputs = F[pWorker.at].inputs + 1
            /\ F[pWorker.at + 1].mode = "held" /\ F[pWorker.at + 1].known = F[pWorker.at].known
        BY <2>1, <3>1, MoveOf
      <4> QED BY <4>1, <4>2
    <3>2. CASE Here = Lift
      <4>1. Here # Press
        BY <3>2 DEF Press, Lift
      <4>2. /\ F[pWorker.at].mode # "muted" /\ F[pWorker.at + 1].frames = F[pWorker.at].frames
            /\ F[pWorker.at + 1].inputs = F[pWorker.at].inputs + 1
            /\ F[pWorker.at + 1].mode = "calm" /\ F[pWorker.at + 1].known = F[pWorker.at].known
        <5>1. Moves(Lift, F[pWorker.at], F[pWorker.at + 1])
          BY <2>1, <3>2
        <5> HIDE DEF Here
        <5> QED BY <2>1, <5>1, MoveOf
      <4> QED BY <4>1, <4>2
    <3> QED BY <2>2, <3>1, <3>2
  <2>4. ProbeTypes'
    BY <1>1, <1>3, StepTypes DEF ProbeHolds, ProbeTypes
  <2>5. pTally'.frames = F[pWorker.at + 1].frames
          /\ (F[pWorker.at + 1].known => pTally'.source = F[pWorker.at + 1].inputs)
    BY <1>1, <2>3 DEF ProbeHolds, CountsAsBooked, Begun
  <2>6. (pPad'.muted <=> F[pWorker.at + 1].mode = "muted") /\ (pPad'.held <=> F[pWorker.at + 1].mode = "held")
    <3>1. Press # Lift
      BY DEF Press, Lift
    <3> QED BY <1>1, <2>2, <2>3, <3>1 DEF ProbeHolds, PadAsBooked
  <2>7. ScriptHolds(F)' /\ InPlace' /\ PhaseFits' /\ CountsAsBooked(F)' /\ PadAsBooked(F)' /\ pWorker'.phase = "go"
    BY <1>1, <1>3, <2>4, <2>5, <2>6, Arrival DEF ProbeHolds
  <2>8. GuestKeepsUp'
    BY <1>1, <1>3 DEF ProbeHolds, GuestKeepsUp, Unseen, WaitHolds
  <2>9. MotorsInTurn' /\ PassIsEarned'
    BY <1>1 DEF ProbeHolds, MotorsInTurn, PassIsEarned
  <2> QED BY <2>4, <2>7, <2>8, <2>9 DEF ProbeHolds
<1> QED BY <1>2, <1>3 DEF SetReturns

\* The thread stays at its step and only its phase changes.
LEMMA PhaseStep ==
  ASSUME NEW F, ProbeHolds(F), pWorker.end = "no", NEW p \in Phases, Phase(p),
         UNCHANGED <<pScript, pStop, pTally, pClaim, pPad>>,
         \/ pWorker.phase = "pressed" /\ p = "held" /\ (pStop \/ ~Unseen)
         \/ pWorker.phase = "lifted" /\ p = "settle" /\ Here = <<"command">> /\ (pStop \/ ~Unseen)
         \/ pWorker.phase = "settle" /\ p = "go"
  PROVE  ProbeHolds(F)'
<1>1. pWorker'.phase = p /\ pWorker'.at = pWorker.at /\ pWorker'.end = "no"
      /\ pWorker' \in [at : Nat, phase : Phases, end : {"no", "left", "done"}]
  BY StepTypes DEF ProbeHolds
<1>2. ProbeTypes'
  BY <1>1 DEF ProbeHolds, ProbeTypes
<1>3. ScriptHolds(F)' /\ InPlace' /\ PhaseFits'
  BY <1>1 DEF ProbeHolds, ScriptHolds, InPlace, PhaseFits, Here
<1>4. p \in {"settle", "go"} => F[pWorker.at].mode = "calm" /\ ~F[pWorker.at].known
  <2>1. Here \in Acts /\ F[pWorker.at] \in Ledgers /\ F[pWorker.at + 1] \in Ledgers
          /\ Moves(Here, F[pWorker.at], F[pWorker.at + 1])
    BY HereAt
  <2>2. p \in {"settle", "go"} => Here = <<"command">>
    BY DEF ProbeHolds, PhaseFits
  <2> QED BY <2>1, <2>2, MoveOf
<1>5. CountsAsBooked(F)'
  BY <1>1, <1>4 DEF ProbeHolds, CountsAsBooked, Begun
<1>6. PadAsBooked(F)'
  BY <1>1, <1>4 DEF ProbeHolds, PadAsBooked
<1>7. GuestKeepsUp'
  BY <1>1 DEF ProbeHolds, GuestKeepsUp, Unseen
<1>8. MotorsInTurn' /\ PassIsEarned'
  BY <1>1 DEF ProbeHolds, MotorsInTurn, PassIsEarned
<1> QED BY <1>2, <1>3, <1>5, <1>6, <1>7, <1>8 DEF ProbeHolds

LEMMA PressedStep ==
  ASSUME NEW F, ProbeHolds(F), PulsePressed
  PROVE  ProbeHolds(F)'
<1>1. pWorker.end = "no" /\ pWorker.phase = "pressed" /\ UNCHANGED <<pScript, pStop, pTally, pClaim, pPad>>
  BY DEF PulsePressed, Running, Quiet
<1>2. CASE Leave
  BY <1>1, <1>2, Leaves
<1>3. CASE pPad.seen /\ Phase("held")
  <2>1. ~Unseen /\ "held" \in Phases
    BY <1>3 DEF Unseen, Phases
  <2> QED BY <1>1, <1>3, <2>1, PhaseStep
<1> QED BY <1>2, <1>3 DEF PulsePressed

LEMMA HeldStep ==
  ASSUME NEW F, ProbeHolds(F), PulseHeld
  PROVE  ProbeHolds(F)'
<1>1. pWorker.end = "no" /\ pWorker.phase = "held" /\ UNCHANGED <<pScript, pStop, pClaim>>
  BY DEF PulseHeld, Running
<1>2. CASE Leave /\ pPad' = pPad /\ pTally' = pTally
  BY <1>1, <1>2, Leaves
<1>3. CASE /\ Phase("lifted")
           /\ pPad' = [pPad EXCEPT !.held = FALSE, !.armed = TRUE, !.seen = FALSE]
           /\ pTally' = [pTally EXCEPT !.source = @ + 1]
  <2>1. /\ pPad' \in [held : BOOLEAN, armed : BOOLEAN, seen : BOOLEAN, rumble : BOOLEAN, muted : BOOLEAN]
        /\ pPad'.held = FALSE /\ pPad'.armed = TRUE /\ pPad'.seen = FALSE /\ pPad'.rumble = pPad.rumble
           /\ pPad'.muted = pPad.muted
    BY <1>3 DEF ProbeHolds, ProbeTypes
  <2>2. /\ pTally' \in [frames : Nat, source : Nat, guest : Nat]
        /\ pTally'.frames = pTally.frames /\ pTally'.source = pTally.source + 1 /\ pTally'.guest = pTally.guest
        /\ pTally.source \in Nat
    BY <1>3 DEF ProbeHolds, ProbeTypes
  <2>3. pWorker'.phase = "lifted" /\ pWorker'.at = pWorker.at /\ pWorker'.end = "no"
        /\ pWorker' \in [at : Nat, phase : Phases, end : {"no", "left", "done"}]
    <3>1. "lifted" \in Phases
      BY DEF Phases
    <3> QED BY <1>1, <1>3, <3>1, StepTypes DEF ProbeHolds
  <2>4. ProbeTypes'
    BY <1>1, <2>1, <2>2, <2>3 DEF ProbeHolds, ProbeTypes
  <2>5. ScriptHolds(F)' /\ InPlace' /\ PhaseFits'
    BY <1>1, <2>3 DEF ProbeHolds, ScriptHolds, InPlace, PhaseFits, Here
  <2>6. CountsAsBooked(F)'
    <3>1. pTally.frames = F[pWorker.at].frames
            /\ (F[pWorker.at].known => pTally.source = F[pWorker.at].inputs + 1)
      BY <1>1 DEF ProbeHolds, CountsAsBooked, Begun
    <3>2. F[pWorker.at].inputs \in Nat
      BY <1>1, HereAt DEF Ledgers
    <3>3. F[pWorker.at].known => pTally'.source = F[pWorker.at].inputs + 2
      BY <2>2, <3>1, <3>2
    <3> QED BY <2>2, <2>3, <3>1, <3>3 DEF CountsAsBooked, Begun
  <2>7. PadAsBooked(F)'
    BY <1>1, <2>1, <2>3 DEF ProbeHolds, PadAsBooked
  <2>8. GuestKeepsUp'
    <3>1. pStop \/ pTally.source = pTally.guest
      BY <1>1 DEF ProbeHolds, GuestKeepsUp
    <3> QED BY <1>1, <2>1, <2>2, <2>3, <3>1 DEF GuestKeepsUp, Unseen
  <2>9. MotorsInTurn' /\ PassIsEarned'
    BY <1>1, <2>1 DEF ProbeHolds, MotorsInTurn, PassIsEarned
  <2> QED BY <2>4, <2>5, <2>6, <2>7, <2>8, <2>9 DEF ProbeHolds
<1> QED BY <1>2, <1>3 DEF PulseHeld

LEMMA LiftedStep ==
  ASSUME NEW F, ProbeHolds(F), PulseLifted
  PROVE  ProbeHolds(F)'
<1>1. pWorker.end = "no" /\ pWorker.phase = "lifted" /\ UNCHANGED <<pScript, pStop, pTally, pClaim, pPad>>
  BY DEF PulseLifted, Running, Quiet
<1>2. CASE Leave
  BY <1>1, <1>2, Leaves
<1>3. CASE WaitHolds /\ Here = <<"command">> /\ Phase("settle")
  <2>1. (pStop \/ ~Unseen) /\ "settle" \in Phases
    BY <1>3 DEF WaitHolds, Unseen, Phases
  <2> QED BY <1>1, <1>3, <2>1, PhaseStep
<1>4. CASE WaitHolds /\ Here # <<"command">> /\ Advance
  <2>1. Here \in Acts /\ F[pWorker.at] \in Ledgers /\ F[pWorker.at + 1] \in Ledgers
          /\ Moves(Here, F[pWorker.at], F[pWorker.at + 1])
    BY <1>1, HereAt
  <2>2. Here = Pulse
    BY <1>1, <1>4 DEF ProbeHolds, PhaseFits
  <2>3. /\ F[pWorker.at + 1].frames = F[pWorker.at].frames
           /\ F[pWorker.at + 1].inputs = F[pWorker.at].inputs + 2
        /\ F[pWorker.at].mode = "calm" /\ F[pWorker.at + 1].known = F[pWorker.at].known
           /\ F[pWorker.at + 1].mode = "calm"
    BY <2>1, <2>2, MoveOf
  <2>4. ProbeTypes'
    BY <1>1, <1>4, StepTypes DEF ProbeHolds, ProbeTypes
  <2>5. pTally'.frames = F[pWorker.at + 1].frames
          /\ (F[pWorker.at + 1].known => pTally'.source = F[pWorker.at + 1].inputs)
    BY <1>1, <2>3 DEF ProbeHolds, CountsAsBooked
  <2>6. (pPad'.muted <=> F[pWorker.at + 1].mode = "muted") /\ (pPad'.held <=> F[pWorker.at + 1].mode = "held")
    BY <1>1, <2>3 DEF ProbeHolds, PadAsBooked
  <2>7. ScriptHolds(F)' /\ InPlace' /\ PhaseFits' /\ CountsAsBooked(F)' /\ PadAsBooked(F)' /\ pWorker'.phase = "go"
    BY <1>1, <1>4, <2>4, <2>5, <2>6, Arrival DEF ProbeHolds
  <2>8. GuestKeepsUp'
    BY <1>1, <1>4 DEF ProbeHolds, GuestKeepsUp, Unseen, WaitHolds
  <2>9. MotorsInTurn' /\ PassIsEarned'
    BY <1>1 DEF ProbeHolds, MotorsInTurn, PassIsEarned
  <2> QED BY <2>4, <2>7, <2>8, <2>9 DEF ProbeHolds
<1> QED BY <1>2, <1>3, <1>4 DEF PulseLifted, Here

LEMMA CommandStep ==
  ASSUME NEW F, ProbeHolds(F), Commands
  PROVE  ProbeHolds(F)'
<1>1. ASSUME AtStep("command")
      PROVE  /\ pWorker.end = "no" /\ pWorker.phase = "go" /\ Here = <<"command">>
                /\ F[pWorker.at + 1] = F[pWorker.at]
  <2>1. pWorker.end = "no" /\ pWorker.phase = "go" /\ Here[1] = "command"
    BY <1>1 DEF AtStep, Running, Here
  <2>2. Here \in Acts /\ F[pWorker.at] \in Ledgers /\ F[pWorker.at + 1] \in Ledgers
          /\ Moves(Here, F[pWorker.at], F[pWorker.at + 1])
    BY <2>1, HereAt
  <2>3. Here = <<"command">>
    BY <2>1, <2>2, StepNames
  <2> QED BY <2>1, <2>2, <2>3, MoveOf
<1>2. CASE AtStep("command") /\ (Leave \/ Advance) /\ Quiet
  <2>1. UNCHANGED <<pScript, pStop, pTally, pClaim, pPad>>
    BY <1>2 DEF Quiet
  <2> QED BY <1>1, <1>2, <2>1, PassesOn, Leaves
<1>3. CASE AtStep("command") /\ Arms(TRUE) /\ Phase("pressed")
  <2>1. TRUE \in BOOLEAN /\ "pressed" \in Phases
    BY DEF Phases
  <2> QED BY <1>1, <1>3, <2>1, ArmStep
<1>4. CASE Running("settle") /\ (Phase("go") \/ Leave) /\ UNCHANGED <<pScript, pStop, pTally, pClaim, pPad>>
  <2>1. pWorker.end = "no" /\ pWorker.phase = "settle" /\ "go" \in Phases
    BY <1>4 DEF Running, Phases
  <2> QED BY <1>4, <2>1, PhaseStep, Leaves
<1> QED BY <1>2, <1>3, <1>4 DEF Commands

LEMMA MuteStep ==
  ASSUME NEW F, ProbeHolds(F), Mutes
  PROVE  ProbeHolds(F)'
<1>1. /\ pWorker.end = "no" /\ pWorker.phase = "go" /\ Advance /\ UNCHANGED <<pScript, pStop, pTally, pClaim>>
      /\ Here[1] = "pause" \/ Here[1] = "resume"
      /\ pPad' = [pPad EXCEPT !.muted = AtStep("pause")]
  BY DEF Mutes, AtStep, Running, Here
<1>2. (AtStep("pause") <=> Here[1] = "pause") /\ AtStep("pause") \in BOOLEAN
  BY <1>1 DEF AtStep, Running, Here
<1>3. /\ pPad' \in [held : BOOLEAN, armed : BOOLEAN, seen : BOOLEAN, rumble : BOOLEAN, muted : BOOLEAN]
      /\ pPad'.held = pPad.held /\ pPad'.armed = pPad.armed /\ pPad'.seen = pPad.seen
         /\ pPad'.rumble = pPad.rumble
      /\ pPad'.muted <=> Here[1] = "pause"
  <2>1. PICK on \in BOOLEAN : on = AtStep("pause")
    BY <1>2
  <2>2. pPad' = [pPad EXCEPT !.muted = on]
    BY <1>1, <2>1
  <2>3. /\ pPad' \in [held : BOOLEAN, armed : BOOLEAN, seen : BOOLEAN, rumble : BOOLEAN, muted : BOOLEAN]
        /\ pPad'.held = pPad.held /\ pPad'.armed = pPad.armed /\ pPad'.seen = pPad.seen
           /\ pPad'.rumble = pPad.rumble
        /\ pPad'.muted = on
    BY <2>2 DEF ProbeHolds, ProbeTypes
  <2> QED BY <1>2, <2>1, <2>3
<1>4. Here \in Acts /\ F[pWorker.at] \in Ledgers /\ F[pWorker.at + 1] \in Ledgers
        /\ Moves(Here, F[pWorker.at], F[pWorker.at + 1])
  BY <1>1, HereAt
<1>5. /\ F[pWorker.at].mode # "held" /\ F[pWorker.at + 1].frames = F[pWorker.at].frames
         /\ F[pWorker.at + 1].inputs = F[pWorker.at].inputs
      /\ F[pWorker.at + 1].known = F[pWorker.at].known /\ F[pWorker.at + 1].mode # "held"
      /\ Here[1] = "pause" <=> F[pWorker.at + 1].mode = "muted"
  <2>1. CASE Here[1] = "pause"
    <3>1. Here = <<"pause">>
      BY <1>4, <2>1, StepNames
    <3> QED BY <1>4, <2>1, <3>1, MoveOf
  <2>2. CASE Here[1] = "resume"
    <3>1. Here = <<"resume">>
      BY <1>4, <2>2, StepNames
    <3> QED BY <1>4, <2>2, <3>1, MoveOf
  <2> QED BY <1>1, <2>1, <2>2
<1>6. ProbeTypes'
  BY <1>1, <1>3, StepTypes DEF ProbeHolds, ProbeTypes
<1>7. pTally'.frames = F[pWorker.at + 1].frames
        /\ (F[pWorker.at + 1].known => pTally'.source = F[pWorker.at + 1].inputs)
  BY <1>1, <1>5 DEF ProbeHolds, CountsAsBooked
<1>8. (pPad'.muted <=> F[pWorker.at + 1].mode = "muted") /\ (pPad'.held <=> F[pWorker.at + 1].mode = "held")
  BY <1>1, <1>3, <1>5 DEF ProbeHolds, PadAsBooked
<1>9. ScriptHolds(F)' /\ InPlace' /\ PhaseFits' /\ CountsAsBooked(F)' /\ PadAsBooked(F)' /\ pWorker'.phase = "go"
  BY <1>1, <1>6, <1>7, <1>8, Arrival DEF ProbeHolds
<1>10. GuestKeepsUp'
  BY <1>1, <1>3 DEF ProbeHolds, GuestKeepsUp, Unseen
<1>11. MotorsInTurn' /\ PassIsEarned'
  BY <1>1, <1>3 DEF ProbeHolds, MotorsInTurn, PassIsEarned
<1> QED BY <1>6, <1>9, <1>10, <1>11 DEF ProbeHolds

LEMMA TakeStep ==
  ASSUME NEW F, ProbeHolds(F), Takes
  PROVE  ProbeHolds(F)'
BY PlainProbeSteps DEF Takes

LEMMA RumbleStep ==
  ASSUME NEW F, ProbeHolds(F), Rumbles
  PROVE  ProbeHolds(F)'
<1>1. CASE AtStep("rumble") /\ Leave /\ UNCHANGED <<pScript, pStop, pTally, pClaim, pPad>>
  <2>1. pWorker.end = "no" /\ pWorker.phase = "go"
    BY <1>1 DEF AtStep, Running
  <2> QED BY <1>1, <2>1, Leaves
<1>2. CASE /\ AtStep("rumble") /\ Phase("rumbling") /\ pPad' = [pPad EXCEPT !.rumble = TRUE]
           /\ UNCHANGED <<pScript, pStop, pTally, pClaim>>
  <2>1. pWorker.end = "no" /\ pWorker.phase = "go" /\ Here[1] = "rumble"
    BY <1>2 DEF AtStep, Running, Here
  <2>2. Here \in Acts /\ Here = <<"rumble">>
    BY <2>1, HereAt, StepNames
  <2>3. /\ pPad' \in [held : BOOLEAN, armed : BOOLEAN, seen : BOOLEAN, rumble : BOOLEAN, muted : BOOLEAN]
        /\ pPad'.held = pPad.held /\ pPad'.armed = pPad.armed /\ pPad'.seen = pPad.seen
           /\ pPad'.muted = pPad.muted
    BY <1>2 DEF ProbeHolds, ProbeTypes
  <2>4. pWorker'.phase = "rumbling" /\ pWorker'.at = pWorker.at /\ pWorker'.end = "no"
        /\ pWorker' \in [at : Nat, phase : Phases, end : {"no", "left", "done"}]
    <3>1. "rumbling" \in Phases
      BY DEF Phases
    <3> QED BY <1>2, <2>1, <3>1, StepTypes DEF ProbeHolds
  <2>5. ProbeTypes'
    BY <1>2, <2>3, <2>4 DEF ProbeHolds, ProbeTypes
  <2>6. ScriptHolds(F)' /\ InPlace' /\ PhaseFits'
    BY <1>2, <2>1, <2>2, <2>4 DEF ProbeHolds, ScriptHolds, InPlace, PhaseFits, Here
  <2>7. CountsAsBooked(F)' /\ PadAsBooked(F)'
    BY <1>2, <2>1, <2>3, <2>4 DEF ProbeHolds, CountsAsBooked, PadAsBooked, Begun
  <2>8. GuestKeepsUp'
    BY <1>2, <2>1, <2>3 DEF ProbeHolds, GuestKeepsUp, Unseen
  <2>9. MotorsInTurn' /\ PassIsEarned'
    BY <1>2, <2>4 DEF ProbeHolds, MotorsInTurn, PassIsEarned
  <2> QED BY <2>5, <2>6, <2>7, <2>8, <2>9 DEF ProbeHolds
<1>3. CASE RumbleStops
  <2>1. /\ pWorker.end = "no" /\ pWorker.phase = "rumbling" /\ pPad' = [pPad EXCEPT !.rumble = FALSE]
        /\ UNCHANGED <<pScript, pStop, pTally, pClaim>> /\ (Leave \/ Advance)
    BY <1>3 DEF RumbleStops, Running
  <2>2. /\ pPad' \in [held : BOOLEAN, armed : BOOLEAN, seen : BOOLEAN, rumble : BOOLEAN, muted : BOOLEAN]
           /\ ~pPad'.rumble
        /\ pPad'.held = pPad.held /\ pPad'.armed = pPad.armed /\ pPad'.seen = pPad.seen
           /\ pPad'.muted = pPad.muted
    BY <2>1 DEF ProbeHolds, ProbeTypes
  <2>3. ProbeTypes'
    BY <2>1, <2>2, StepTypes DEF ProbeHolds, ProbeTypes
  <2>4. ScriptHolds(F)' /\ InPlace' /\ PhaseFits' /\ CountsAsBooked(F)' /\ PadAsBooked(F)'
    <3>1. CASE Leave
      <4>1. pWorker'.end = "left"
        BY <3>1, StepTypes DEF ProbeHolds
      <4> QED BY <2>1, <4>1, Departure DEF ProbeHolds
    <3>2. CASE Advance
      <4>1. Here \in Acts /\ F[pWorker.at] \in Ledgers /\ F[pWorker.at + 1] \in Ledgers
              /\ Moves(Here, F[pWorker.at], F[pWorker.at + 1])
        BY <2>1, HereAt
      <4>2. Here \in Plain
        BY <2>1, Named DEF ProbeHolds, PhaseFits
      <4>3. F[pWorker.at + 1] = F[pWorker.at]
        BY <4>1, <4>2, MoveOf
      <4>4. pTally'.frames = F[pWorker.at + 1].frames
              /\ (F[pWorker.at + 1].known => pTally'.source = F[pWorker.at + 1].inputs)
        BY <2>1, <4>3 DEF ProbeHolds, CountsAsBooked
      <4>5. (pPad'.muted <=> F[pWorker.at + 1].mode = "muted")
              /\ (pPad'.held <=> F[pWorker.at + 1].mode = "held")
        BY <2>1, <2>2, <4>3 DEF ProbeHolds, PadAsBooked
      <4> QED BY <2>1, <2>3, <3>2, <4>4, <4>5, Arrival DEF ProbeHolds
    <3> QED BY <2>1, <3>1, <3>2
  <2>5. GuestKeepsUp'
    BY <2>1, <2>2 DEF ProbeHolds, GuestKeepsUp, Unseen
  <2>6. MotorsInTurn' /\ PassIsEarned'
    BY <2>1, <2>2 DEF ProbeHolds, MotorsInTurn, PassIsEarned
  <2> QED BY <2>3, <2>4, <2>5, <2>6 DEF ProbeHolds
<1> QED BY <1>1, <1>2, <1>3 DEF Rumbles

\* A verdict is followed by the summary it may skip.
LEMMA JudgeStep ==
  ASSUME NEW F, ProbeHolds(F), Judges
  PROVE  ProbeHolds(F)'
<1>1. pWorker.end = "no" /\ pWorker.phase = "go" /\ Here[1] = "verdict"
        /\ UNCHANGED <<pScript, pStop, pTally, pClaim, pPad>>
  BY DEF Judges, AtStep, Running, Quiet, Here
<1>2. Here \in Acts /\ F[pWorker.at] \in Ledgers /\ F[pWorker.at + 1] \in Ledgers
        /\ Moves(Here, F[pWorker.at], F[pWorker.at + 1])
      /\ pWorker.at \in 1..Len(pScript) /\ Len(pScript) \in Nat
  BY <1>1, HereAt
<1>3. Here = Verdict
  BY <1>1, <1>2, StepNames
<1>4. F[pWorker.at + 1] = F[pWorker.at]
  <2>1. PICK a : a = F[pWorker.at]
    OBVIOUS
  <2>2. PICK b : b = F[pWorker.at + 1]
    OBVIOUS
  <2>3. a \in Ledgers /\ b \in Ledgers /\ Moves(Verdict, a, b) /\ Verdict \in Plain \cup {Verdict}
    BY <1>2, <1>3, <2>1, <2>2
  <2>4. b = a
    BY <2>3, MoveOf
  <2> QED BY <2>1, <2>2, <2>4
<1>5. CASE Advance
  BY <1>1, <1>4, <1>5, PassesOn
<1>6. CASE pWorker' = IF pWorker.at + 1 = Len(pScript) THEN [pWorker EXCEPT !.end = "done"] ELSE [pWorker EXCEPT !.at = @ + 2]
  <2>1. pWorker.at < Len(pScript) /\ pScript[pWorker.at + 1] \in Summaries
    BY <1>2, <1>3 DEF ProbeHolds, ScriptHolds, Follows, Here
  <2>2. F[pWorker.at + 2] = F[pWorker.at]
    <3>1. /\ pWorker.at + 1 \in 1..Len(pScript) /\ pWorker.at + 1 \in 1..Len(pScript) + 1
             /\ pWorker.at + 2 \in 1..Len(pScript) + 1
          /\ pWorker.at + 1 + 1 = pWorker.at + 2
      BY <1>2, <2>1
    <3>2. Moves(pScript[pWorker.at + 1], F[pWorker.at + 1], F[pWorker.at + 1 + 1])
      BY <3>1 DEF ProbeHolds, ScriptHolds, Follows
    <3>3. F[pWorker.at + 2] \in Ledgers
      BY <3>1 DEF ProbeHolds, ScriptHolds, Follows
    <3>4. Moves(pScript[pWorker.at + 1], F[pWorker.at + 1], F[pWorker.at + 2])
      BY <3>1, <3>2
    <3>5. F[pWorker.at + 2] = F[pWorker.at + 1]
      <4>1. PICK x : x = pScript[pWorker.at + 1]
        OBVIOUS
      <4>2. PICK a : a = F[pWorker.at + 1]
        OBVIOUS
      <4>3. PICK b : b = F[pWorker.at + 2]
        OBVIOUS
      <4>4. x \in Summaries /\ a \in Ledgers /\ b \in Ledgers /\ Moves(x, a, b)
        BY <1>2, <2>1, <3>3, <3>4, <4>1, <4>2, <4>3
      <4>5. b = a
        BY <4>4, MoveOf
      <4> QED BY <4>2, <4>3, <4>5
    <3> QED BY <1>4, <3>5
  <2>3. /\ pWorker' \in [at : Nat, phase : Phases, end : {"no", "left", "done"}]
        /\ pWorker'.end = "done" \/ (pWorker.at + 1 # Len(pScript) /\ pWorker'.at = pWorker.at + 2)
        /\ pWorker'.phase = pWorker.phase
    <3>1. pWorker \in [at : Nat, phase : Phases, end : {"no", "left", "done"}] /\ pWorker.at + 2 \in Nat
      BY DEF ProbeHolds, ProbeTypes
    <3> QED BY <1>6, <3>1
  <2>4. ProbeTypes' /\ ScriptHolds(F)'
    BY <1>1, <2>3 DEF ProbeHolds, ProbeTypes, ScriptHolds
  <2>5. InPlace'
    BY <1>1, <1>2, <2>1, <2>3 DEF InPlace
  <2>6. PhaseFits'
    BY <1>1, <2>3 DEF PhaseFits
  <2>7. pWorker'.end = "no" => F[pWorker'.at] = F[pWorker.at]
    BY <2>2, <2>3
  <2>8. CountsAsBooked(F)' /\ PadAsBooked(F)'
    BY <1>1, <2>3, <2>7 DEF ProbeHolds, CountsAsBooked, PadAsBooked, Begun
  <2>9. GuestKeepsUp'
    BY <1>1 DEF ProbeHolds, GuestKeepsUp, Unseen
  <2>10. MotorsInTurn' /\ PassIsEarned'
    BY <1>1 DEF ProbeHolds, MotorsInTurn, PassIsEarned
  <2> QED BY <2>4, <2>5, <2>6, <2>8, <2>9, <2>10 DEF ProbeHolds
<1> QED BY <1>5, <1>6 DEF Judges

\* What a summary states is what has been counted by then.
LEMMA SummaryStep ==
  ASSUME NEW F, ProbeHolds(F), Summarises
  PROVE  ProbeHolds(F)'
<1>1. /\ pWorker.end = "no" /\ pWorker.phase = "go" /\ Here[1] = "summary" /\ Advance
         /\ UNCHANGED <<pScript, pStop, pTally, pPad>>
      /\ pClaim' = [stated |-> <<Here[2], Here[3]>>, frames |-> pTally.frames, source |-> pTally.source, guest |-> pTally.guest,
                    stop |-> pStop, loose |-> pPad.held \/ pPad.muted]
  BY DEF Summarises, AtStep, Running, Here
<1>2. Here \in Acts /\ F[pWorker.at] \in Ledgers /\ F[pWorker.at + 1] \in Ledgers
        /\ Moves(Here, F[pWorker.at], F[pWorker.at + 1])
  BY <1>1, HereAt
<1>3. Here \in Summaries
  BY <1>1, <1>2, StepNames
<1>4. F[pWorker.at].mode = "calm" /\ F[pWorker.at + 1] = F[pWorker.at]
  BY <1>2, <1>3, MoveOf
<1>5. PICK n \in Nat : Here = Summary(F[pWorker.at].frames, n)
        /\ (n # NotStated => F[pWorker.at].known /\ 2 * F[pWorker.at].inputs = n)
  BY <1>2, <1>3, MoveOf
<1>6. Here[2] = F[pWorker.at].frames /\ Here[3] = n
  BY <1>5 DEF Summary
<1>7. pTally.frames = F[pWorker.at].frames /\ (F[pWorker.at].known => pTally.source = F[pWorker.at].inputs)
  BY <1>1 DEF ProbeHolds, CountsAsBooked
<1>8. ~pPad.held /\ ~pPad.muted
  BY <1>1, <1>4 DEF ProbeHolds, PadAsBooked
<1>9. pStop \/ pTally.source = pTally.guest
  BY <1>1 DEF ProbeHolds, GuestKeepsUp
<1>10. PassIsEarned'
  <2>1. /\ pClaim'.stated = <<F[pWorker.at].frames, n>> /\ pClaim'.frames = pTally.frames
           /\ pClaim'.source = pTally.source
        /\ pClaim'.guest = pTally.guest /\ pClaim'.stop = pStop /\ (pClaim'.loose <=> pPad.held \/ pPad.muted)
    BY <1>1, <1>6
  <2>2. pClaim'.stated[1] = F[pWorker.at].frames /\ pClaim'.stated[2] = n
    BY <2>1
  <2> QED BY <1>5, <1>7, <1>8, <1>9, <2>1, <2>2 DEF PassIsEarned
<1>11. ProbeTypes'
  BY <1>1, StepTypes DEF ProbeHolds, ProbeTypes
<1>12. ScriptHolds(F)' /\ InPlace' /\ PhaseFits' /\ CountsAsBooked(F)' /\ PadAsBooked(F)' /\ pWorker'.phase = "go"
  <2>1. (pPad'.muted <=> F[pWorker.at + 1].mode = "muted") /\ (pPad'.held <=> F[pWorker.at + 1].mode = "held")
    BY <1>1, <1>4, <1>8
  <2>2. pTally'.frames = F[pWorker.at + 1].frames
          /\ (F[pWorker.at + 1].known => pTally'.source = F[pWorker.at + 1].inputs)
    BY <1>1, <1>4, <1>7
  <2> QED BY <1>1, <1>11, <2>1, <2>2, Arrival DEF ProbeHolds
<1>13. GuestKeepsUp'
  BY <1>1 DEF ProbeHolds, GuestKeepsUp, Unseen
<1>14. MotorsInTurn'
  BY <1>1 DEF ProbeHolds, MotorsInTurn
<1> QED BY <1>10, <1>11, <1>12, <1>13, <1>14 DEF ProbeHolds

\* The guest, the operator and the UI thread.
LEMMA OtherProbeSteps ==
  ASSUME NEW F, ProbeHolds(F), GuestPolls \/ OperatorAsks \/ OperatorOrders \/ RequestStop \/ UNCHANGED probeVars
  PROVE  ProbeHolds(F)'
<1>1. CASE GuestPolls
  <2>1. /\ pPad' \in [held : BOOLEAN, armed : BOOLEAN, seen : BOOLEAN, rumble : BOOLEAN, muted : BOOLEAN]
        /\ pPad'.held = pPad.held /\ pPad'.seen = TRUE /\ pPad'.rumble = pPad.rumble /\ pPad'.muted = pPad.muted
    BY <1>1 DEF GuestPolls, ProbeHolds, ProbeTypes
  <2>2. /\ pTally' \in [frames : Nat, source : Nat, guest : Nat]
        /\ pTally'.frames = pTally.frames /\ pTally'.source = pTally.source /\ pTally'.guest = pTally.guest + 1
    BY <1>1 DEF GuestPolls, ProbeHolds, ProbeTypes
  <2>3. Unseen /\ UNCHANGED <<pScript, pWorker, pStop, pClaim>>
    BY <1>1 DEF GuestPolls, Unseen
  <2>4. ProbeTypes' /\ ScriptHolds(F)' /\ InPlace' /\ PhaseFits'
    BY <2>1, <2>2, <2>3 DEF ProbeHolds, ProbeTypes, ScriptHolds, InPlace, PhaseFits, Here
  <2>5. CountsAsBooked(F)' /\ PadAsBooked(F)'
    BY <2>1, <2>2, <2>3 DEF ProbeHolds, CountsAsBooked, PadAsBooked, Here
  <2>6. GuestKeepsUp'
    BY <2>1, <2>2, <2>3 DEF ProbeHolds, GuestKeepsUp, Unseen
  <2>7. MotorsInTurn' /\ PassIsEarned'
    BY <2>1, <2>3 DEF ProbeHolds, MotorsInTurn, PassIsEarned
  <2> QED BY <2>4, <2>5, <2>6, <2>7 DEF ProbeHolds
<1>2. CASE OperatorAsks \/ OperatorOrders \/ RequestStop \/ UNCHANGED probeVars
  <2>1. UNCHANGED <<pScript, pWorker, pPad, pTally, pClaim>> /\ (pStop' = pStop \/ pStop' = TRUE)
    BY <1>2 DEF OperatorAsks, OperatorOrders, RequestStop, probeVars
  <2>2. ProbeTypes' /\ ScriptHolds(F)' /\ InPlace' /\ PhaseFits'
    <3>1. ProbeTypes'
      BY <2>1 DEF ProbeHolds, ProbeTypes
    <3>2. ScriptHolds(F)' /\ InPlace'
      BY <2>1 DEF ProbeHolds, ScriptHolds, InPlace
    <3>3. PhaseFits'
      BY <2>1 DEF ProbeHolds, PhaseFits, Here
    <3> QED BY <3>1, <3>2, <3>3
  <2>3. CountsAsBooked(F)' /\ PadAsBooked(F)'
    BY <2>1 DEF ProbeHolds, CountsAsBooked, PadAsBooked, Here
  <2>4. GuestKeepsUp' /\ MotorsInTurn' /\ PassIsEarned'
    BY <2>1 DEF ProbeHolds, GuestKeepsUp, Unseen, MotorsInTurn, PassIsEarned
  <2> QED BY <2>2, <2>3, <2>4 DEF ProbeHolds
<1> QED BY <1>1, <1>2

\* RunFirstFrameProbe and RunReadbackCostProbe: whatever combination of probes is
\* chosen and however often the operator orders, a summary states what was done.
THEOREM ProbesKeepTheirWord == ProbeSpec => []ProbeKeepsItsWord
<1> DEFINE Kept == \E F : ProbeHolds(F)
<1>1. ProbeInit => Kept
  BY ProbeBegins
<1>2. Kept /\ [ProbeNext]_probeVars => Kept'
  <2> SUFFICES ASSUME NEW F, ProbeHolds(F), [ProbeNext]_probeVars
               PROVE  ProbeHolds(F)'
    OBVIOUS
  <2> QED BY PlainProbeSteps, StartStep, ShootStep, CaptureStep, TakeStep, SetStep, SetReturnStep, PressedStep, HeldStep,
             LiftedStep, CommandStep, MuteStep, RumbleStep, JudgeStep, SummaryStep, OtherProbeSteps
          DEF ProbeNext, WorkerStep
<1>3. Kept => ProbeKeepsItsWord
  BY DEF ProbeHolds, MotorsInTurn, ProbeKeepsItsWord, RumbleEnds
<1> HIDE DEF Kept
<1> QED BY <1>1, <1>2, <1>3, PTL DEF ProbeSpec

-----------------------------------------------------------------------------
(* The process as a whole: a step of the composed specification is a step   *)
(* of one part or leaves that part alone.                                   *)

LEMMA StepsOfParts ==
  ASSUME HostNext \/ UNCHANGED all
  PROVE  /\ [CrashNext]_crashVars /\ [AppNext]_appVars /\ [BudgetNext]_budgetVars
         /\ [MenuNext]_menuVars /\ [PhotoNext]_photoVars
         /\ [CursorNext]_cursorVars /\ [LatchNext]_latchVars /\ [GateNext]_gateVars /\ [RefNext]_refVars
         /\ [ProbeNext]_probeVars
BY DEF HostNext, all, hostVars, memoryVars

\* Whatever else the process is doing, its crash dumps, its life cycle, the
\* user's settings, its inputs, its references and its probes keep what they
\* promise.
THEOREM HostKeepsItsPromises ==
  HostSpec => [](/\ DumpsAreTrue /\ LifecycleIsOrderly /\ UserSettingsHold
                 /\ InputsKeepBounds /\ ParentOutlivesChild /\ ProbeKeepsItsWord)
<1>1. HostSpec => /\ CrashSpec /\ AppSpec /\ BudgetSpec /\ MenuSpec /\ PhotoSpec
                  /\ CursorSpec /\ LatchSpec /\ GateSpec /\ RefSpec /\ ProbeSpec
  <2>1. HostInit => /\ CrashInit /\ AppInit /\ BudgetInit /\ MenuInit /\ PhotoInit
                    /\ CursorInit /\ LatchInit /\ GateInit /\ RefInit /\ ProbeInit
    BY DEF HostInit
  <2>2. [HostNext]_all => /\ [CrashNext]_crashVars /\ [AppNext]_appVars /\ [BudgetNext]_budgetVars
                          /\ [MenuNext]_menuVars /\ [PhotoNext]_photoVars
                          /\ [CursorNext]_cursorVars /\ [LatchNext]_latchVars /\ [GateNext]_gateVars
                          /\ [RefNext]_refVars /\ [ProbeNext]_probeVars
    BY StepsOfParts
  <2> QED BY <2>1, <2>2, PTL DEF HostSpec, CrashSpec, AppSpec, BudgetSpec, MenuSpec, PhotoSpec, CursorSpec,
                                 LatchSpec, GateSpec, RefSpec, ProbeSpec
<1> QED BY <1>1, DumpsStayTrue, LifecycleIsKept, UserSettingsStay, InputsStayBounded, ParentStaysWithChild,
          ProbesKeepTheirWord, PTL
=============================================================================
