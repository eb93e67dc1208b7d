---------------------------- MODULE AppLifecycle ----------------------------
(***************************************************************************)
(* MclaApp: the hooks the SDK calls from start-up to the end of the        *)
(* process.  The UI thread runs the hooks and the closures deferred to it, *)
(* the module thread runs the guest and then OnGuestThreadExit, a worker   *)
(* runs a probe.  After a close request the SDK terminates the title and   *)
(* leaves the process at once; after a quit it calls OnShutdown.           *)
(***************************************************************************)
EXTENDS Naturals, FiniteSets

CONSTANT MaxPresses \* F10 presses and controller triggers explored

VARIABLES aOptions,  \* options and outcomes of the checks, fixed for the session
          aUi,       \* hook the UI thread runs next, or what it waits in
          aServices, \* what exists: diagnostics, bind, dialog, triggers, cursor, config, lifetime, settings
          aDeferred, \* closures in the UI queue
          aWorker,   \* first_frame_probe_thread_
          aStopAsked,\* its stop token
          aCloseFlag,\* window_close_requested_
          aGuest,    \* module thread: state, and what ended it
          aPackages, \* packages requested, by reason
          aPresses

appVars == <<aOptions, aUi, aServices, aDeferred, aWorker, aStopAsked, aCloseFlag, aGuest, aPackages, aPresses>>

Options == [lease: BOOLEAN, config: {"none", "good", "bad"}, diagnostics: BOOLEAN,
            probe: {"none", "snapshot", "native", "lifecycle", "module", "crash", "vfs", "logging",
                    "readback", "frame"},
            image: {"good", "static", "loaded", "vfs", "hooks"}]

AppInit ==
    /\ aOptions \in Options
    /\ aOptions.image = "hooks" => aOptions.probe = "frame" \* only the audit probes install hooks
    /\ aUi = "environment" /\ aServices = {"settings"} /\ aDeferred = {}
    /\ aWorker = "none" /\ aStopAsked = FALSE /\ aCloseFlag = FALSE
    /\ aGuest = [state |-> "none", cause |-> "none"] /\ aPackages = {} /\ aPresses = 0

\* Outcomes of the contract checks: the generated image, the loaded module, the
\* disc files behind game: and d:, the functions the audit hooks replace.
ValidateStaticImageContract == aOptions.image # "static"
ValidateLoadedImageContract == aOptions.image # "loaded"
ValidateGameVfsContract == aOptions.image # "vfs"
HooksInstall == aOptions.image # "hooks"

Hook(from, to) == aUi = from /\ aUi' = to
Same == UNCHANGED <<aOptions, aPresses>>

\* SetupEnvironment: the lease first, then the managed session's config, which
\* stays read-locked until the host is destroyed.
SetupEnvironment ==
    /\ aUi = "environment"
    /\ IF aOptions.lease /\ aOptions.config # "bad"
       THEN /\ aUi' = "logging"
            /\ aServices' = aServices \cup (IF aOptions.config = "good" THEN {"config"} ELSE {})
       ELSE aUi' = "refused" /\ UNCHANGED aServices
    /\ Same /\ UNCHANGED <<aDeferred, aWorker, aStopAsked, aCloseFlag, aGuest, aPackages>>

\* OnPostInitLogging: the manager is wanted by option or by two of the probes; one
\* that does not start is dropped, and F10 is bound only to one that did.
OnPostInitLogging ==
    /\ Hook("logging", "dialogs")
    /\ \/ /\ aOptions.diagnostics \/ aOptions.probe \in {"snapshot", "native"}
          /\ aServices' = aServices \cup {"diagnostics", "bind"}
       \/ UNCHANGED aServices
    /\ Same /\ UNCHANGED <<aDeferred, aWorker, aStopAsked, aCloseFlag, aGuest, aPackages>>
\* A managed session takes the SDK's settings and console away.
OnCreateDialogs ==
    /\ Hook("dialogs", "paths")
    /\ aServices' = (aServices \ (IF "config" \in aServices THEN {"settings"} ELSE {}))
                        \cup (IF "diagnostics" \in aServices THEN {"dialog"} ELSE {})
    /\ Same /\ UNCHANGED <<aDeferred, aWorker, aStopAsked, aCloseFlag, aGuest, aPackages>>

Defer(closure) == aDeferred' = aDeferred \cup {closure}
\* OnFinalizePaths: three probes end here, and an image that is not the expected
\* one; each by a closure that runs on the UI thread later.
OnFinalizePaths ==
    /\ aUi = "paths"
    /\ CASE aOptions.probe = "snapshot" ->
                /\ Defer("quit") /\ aUi' = "loop"
                /\ aPackages' = aPackages \cup (IF "diagnostics" \in aServices THEN {"probe"} ELSE {})
         [] aOptions.probe = "native" -> Defer("crash") /\ aUi' = "loop" /\ UNCHANGED aPackages
         [] aOptions.probe \notin {"snapshot", "native"}
                /\ (aOptions.probe = "lifecycle" \/ ~ValidateStaticImageContract) ->
                Defer("quit") /\ aUi' = "loop" /\ UNCHANGED aPackages
         [] OTHER -> aUi' = "setup" /\ UNCHANGED <<aDeferred, aPackages>>
    /\ Same /\ UNCHANGED <<aServices, aWorker, aStopAsked, aCloseFlag, aGuest>>

\* OnPreSetup: a GPU plugin unless the probe needs no guest or the configuration
\* names one; the input driver of the scripts that press buttons.  A loaded plugin
\* gets the title's readback mode.
GuestFree == {"snapshot", "native", "lifecycle", "module", "crash", "vfs", "logging"}
OnPreSetup ==
    /\ Hook("setup", "plugin")
    /\ \E driver \in {{}, {"driver"}}, plugin \in {{}, {"gpu"}}:
         /\ aOptions.probe = "readback" => driver # {}
         /\ aOptions.probe \notin {"readback", "frame"} => driver = {}
         /\ aOptions.probe \notin GuestFree => plugin # {}
         /\ aServices' = aServices \cup driver \cup plugin
    /\ Same /\ UNCHANGED <<aDeferred, aWorker, aStopAsked, aCloseFlag, aGuest, aPackages>>
OnPostLoadGraphicsPlugin ==
    /\ Hook("plugin", "installs")
    /\ aServices' = aServices \cup (IF "gpu" \in aServices THEN {"readback"} ELSE {})
    /\ Same /\ UNCHANGED <<aDeferred, aWorker, aStopAsked, aCloseFlag, aGuest, aPackages>>
\* OnPostSetup: the triggers only with a manager, each watch only if the SDK lets it
\* be installed.
InstallDiagnosticTriggers(installed) == "triggers" \in installed => "diagnostics" \in aServices
OnPostSetup ==
    /\ Hook("installs", "launch")
    /\ \E installed \in SUBSET {"triggers", "cursor"}:
         /\ InstallDiagnosticTriggers(installed)
         /\ aServices' = aServices \cup installed
    /\ Same /\ UNCHANGED <<aDeferred, aWorker, aStopAsked, aCloseFlag, aGuest, aPackages>>

\* LaunchModule: loaded image, module and crash probe, disc contract, VFS probe,
\* audit hooks; the guest starts only when all let it.  Nothing stops it for the
\* logging probe.
\* The crash probe's report, if it can be written; the process leaves either way.
WriteSyntheticCrashReport == \E ok \in BOOLEAN: aPackages' = aPackages \cup (IF ok THEN {"synthetic"} ELSE {})
LaunchModule ==
    /\ aUi = "launch"
    /\ IF ValidateLoadedImageContract /\ aOptions.probe = "crash" THEN WriteSyntheticCrashReport
       ELSE UNCHANGED aPackages
    /\ CASE ~ValidateLoadedImageContract \/ aOptions.probe = "module" ->
                Defer("quit") /\ aUi' = "loop" /\ UNCHANGED aGuest
         [] ValidateLoadedImageContract /\ aOptions.probe = "crash" ->
                Defer("exit") /\ aUi' = "loop" /\ UNCHANGED aGuest
         [] ValidateLoadedImageContract /\ aOptions.probe \notin {"module", "crash"}
                /\ (~ValidateGameVfsContract \/ aOptions.probe = "vfs" \/ ~HooksInstall) ->
                Defer("quit") /\ aUi' = "loop" /\ UNCHANGED aGuest
         [] OTHER -> /\ aUi' = "launched" /\ aGuest' = [aGuest EXCEPT !.state = "running"]
                     /\ UNCHANGED aDeferred
    /\ Same /\ UNCHANGED <<aServices, aWorker, aStopAsked, aCloseFlag>>
OnPostLaunchModule ==
    /\ Hook("launched", "loop")
    /\ aWorker' = IF aOptions.probe \in {"readback", "frame"} THEN "runs" ELSE "none"
    /\ aServices' = aServices \cup (IF aOptions.probe = "readback" THEN {"lifetime"} ELSE {})
    /\ Same /\ UNCHANGED <<aDeferred, aStopAsked, aCloseFlag, aGuest, aPackages>>

\* RequestLiveSnapshot from the F10 binding or from a controller trigger.
RequestLiveSnapshot ==
    /\ aUi = "loop" /\ aPresses < MaxPresses /\ aServices \cap {"bind", "triggers"} # {}
    /\ aPresses' = aPresses + 1
    /\ aPackages' = aPackages \cup (IF "diagnostics" \in aServices THEN {"live"} ELSE {})
    /\ UNCHANGED <<aOptions, aUi, aServices, aDeferred, aWorker, aStopAsked, aCloseFlag, aGuest>>

\* The probe's worker ends; the readback probe asks the UI to close the window,
\* without waiting for it, unless it has seen a stop by then.
WorkerLooks == /\ aWorker = "runs" /\ (aOptions.probe = "readback" \/ aStopAsked)
               /\ aWorker' = IF aStopAsked THEN "ended" ELSE "asks"
               /\ Same /\ UNCHANGED <<aUi, aServices, aDeferred, aStopAsked, aCloseFlag, aGuest, aPackages>>
\* Mutant: the worker runs the closure on the UI thread and waits for it.
WorkerAwaitsUi == /\ aWorker = "asks" /\ aUi = "loop" /\ aWorker' = "ended" /\ Defer("close")
                  /\ Same /\ UNCHANGED <<aUi, aServices, aStopAsked, aCloseFlag, aGuest, aPackages>>
WorkerAsks == /\ aWorker = "asks" /\ aWorker' = "ended" /\ Defer("close")
              /\ Same /\ UNCHANGED <<aUi, aServices, aStopAsked, aCloseFlag, aGuest, aPackages>>
\* Between two looks at the stop token the worker may be inside a graphics capture,
\* which may never return.
WorkerCaptures == /\ aWorker = "runs" /\ ~aStopAsked /\ aWorker' = "captures"
                  /\ Same /\ UNCHANGED <<aUi, aServices, aDeferred, aStopAsked, aCloseFlag, aGuest, aPackages>>
WorkerCaptured == /\ aWorker = "captures" /\ aWorker' = "runs"
                  /\ Same /\ UNCHANGED <<aUi, aServices, aDeferred, aStopAsked, aCloseFlag, aGuest, aPackages>>
WorkerEnds == /\ aWorker = "runs" /\ aOptions.probe = "frame" /\ aWorker' = "ended"
              /\ Same /\ UNCHANGED <<aUi, aServices, aDeferred, aStopAsked, aCloseFlag, aGuest, aPackages>>

\* Mutant: the programmatic close goes straight to the window (KI-055).
CloseUnmarked(flag) == flag
ClosesMarked(flag) == TRUE
ProbeIsAlive(services) == "lifetime" \in services
RunsDeferred ==
    /\ aUi = "loop"
    /\ \E closure \in aDeferred:
         /\ aDeferred' = aDeferred \ {closure}
         /\ CASE closure = "quit"  -> aUi' = "shutdown" /\ UNCHANGED aCloseFlag
              [] closure = "exit"  -> aUi' = "shutdown" /\ UNCHANGED aCloseFlag
              [] closure = "crash" -> aUi' = "crashed" /\ UNCHANGED aCloseFlag
              [] closure = "close" -> /\ aUi' = IF ProbeIsAlive(aServices) THEN "closing" ELSE "loop"
                                      /\ aCloseFlag' = IF ProbeIsAlive(aServices) THEN ClosesMarked(aCloseFlag)
                                                       ELSE aCloseFlag
    /\ Same /\ UNCHANGED <<aServices, aWorker, aStopAsked, aGuest, aPackages>>

\* OnWindowCloseRequested: the flag before anything else, then everything that
\* could call back, then the join of the worker.
OnWindowCloseRequested ==
    /\ Hook("loop", "join") /\ aCloseFlag' = TRUE
    /\ aServices' = aServices \ {"lifetime", "triggers", "bind"}
    /\ aStopAsked' = TRUE
    /\ Same /\ UNCHANGED <<aDeferred, aWorker, aGuest, aPackages>>
JoinsWorker ==
    /\ aUi \in {"join", "shutdownJoin"} /\ aWorker \in {"none", "ended"}
    /\ aUi' = IF aUi = "join" THEN "closing" ELSE "destroy"
    /\ Same /\ UNCHANGED <<aServices, aDeferred, aWorker, aStopAsked, aCloseFlag, aGuest, aPackages>>
\* ReXApp::OnClosing: TerminateTitle ends a guest that still runs, then the
\* process leaves without OnShutdown.
OnClosing ==
    \/ /\ aUi = "closing" /\ aGuest.state = "running" /\ aUi' = "terminating"
       /\ aGuest' = [state |-> "hook", cause |-> "terminated"]
       /\ Same /\ UNCHANGED <<aServices, aDeferred, aWorker, aStopAsked, aCloseFlag, aPackages>>
    \/ /\ aUi = "terminating" \/ (aUi = "closing" /\ aGuest.state # "running")
       /\ aUi' = "left"
       /\ Same /\ UNCHANGED <<aServices, aDeferred, aWorker, aStopAsked, aCloseFlag, aGuest, aPackages>>

\* OnShutdown: services, worker, then manager, dialog and manager object.
OnShutdown ==
    \/ /\ Hook("shutdown", "shutdownJoin") /\ aStopAsked' = TRUE
       /\ aServices' = aServices \ {"lifetime", "triggers", "bind", "cursor"}
       /\ Same /\ UNCHANGED <<aDeferred, aWorker, aCloseFlag, aGuest, aPackages>>
    \/ /\ Hook("destroy", "over") /\ aServices' = aServices \ {"diagnostics", "dialog"}
       /\ Same /\ UNCHANGED <<aDeferred, aWorker, aStopAsked, aCloseFlag, aGuest, aPackages>>

\* The guest's main thread ends by itself; OnGuestThreadExit runs on the module
\* thread and may wait for the package; then the SDK quits.
GuestEnds ==
    /\ aGuest.state = "running" /\ aUi \in {"loop", "join", "launched"}
    /\ aGuest' = [state |-> "hook", cause |-> "self"]
    /\ Same /\ UNCHANGED <<aUi, aServices, aDeferred, aWorker, aStopAsked, aCloseFlag, aPackages>>
ShouldSnapshotGuestExit == ~aCloseFlag /\ aOptions.probe \notin {"snapshot", "native"}
OnGuestThreadExit ==
    /\ aUi \notin {"left", "over", "crashed"}
    /\ \/ /\ aGuest.state = "hook"
          /\ IF "diagnostics" \in aServices /\ ShouldSnapshotGuestExit
             THEN /\ aPackages' = aPackages \cup {"unexpected-guest-exit"}
                  /\ aGuest' = [aGuest EXCEPT !.state = "waits"]
             ELSE aGuest' = [aGuest EXCEPT !.state = "gone"] /\ UNCHANGED aPackages
          /\ UNCHANGED aDeferred
       \/ /\ aGuest.state = "waits" /\ aGuest' = [aGuest EXCEPT !.state = "gone"] /\ UNCHANGED <<aPackages, aDeferred>>
       \/ /\ aGuest.state = "gone" /\ aGuest.cause = "self" /\ "quit" \notin aDeferred /\ aUi = "loop"
          /\ Defer("quit") /\ UNCHANGED <<aGuest, aPackages>>
    /\ Same /\ UNCHANGED <<aUi, aServices, aWorker, aStopAsked, aCloseFlag>>

UiStep == \/ SetupEnvironment \/ OnPostInitLogging \/ OnCreateDialogs \/ OnFinalizePaths
          \/ OnPreSetup \/ OnPostLoadGraphicsPlugin \/ OnPostSetup
          \/ LaunchModule \/ OnPostLaunchModule \/ RunsDeferred \/ JoinsWorker \/ OnClosing \/ OnShutdown
ThreadStep == WorkerLooks \/ WorkerAsks \/ OnGuestThreadExit
AppNext == UiStep \/ ThreadStep \/ WorkerCaptures \/ WorkerCaptured \/ WorkerEnds \/ RequestLiveSnapshot \/ OnWindowCloseRequested \/ GuestEnds
AppSpec == AppInit /\ [][AppNext]_appVars

\* A close by the user or by the readback probe is no unexpected exit: the guest
\* thread's hook asks for a package only if the guest ended by itself (KI-055).
NormalCloseHasNoPackage == "unexpected-guest-exit" \in aPackages => aGuest.cause = "self"
\* The manager outlives what calls into it: binding, triggers, status dialog, the
\* worker and a guest thread in its exit hook (OnShutdown).
ManagerOutlivesItsUsers ==
    aUi = "over" => /\ aServices \cap {"bind", "triggers", "dialog", "diagnostics", "cursor"} = {}
                    /\ aWorker \in {"none", "ended"} /\ aGuest.state \in {"none", "gone"}
\* The guest runs only in a session whose contracts all hold and in no probe that
\* ends without it (OnFinalizePaths, LaunchModule); it has a GPU plugin, except
\* beside the logging probe, which counts as guest-free and lets the guest start.
GuestIsAdmitted ==
    aGuest.state # "none" => /\ aOptions.lease /\ aOptions.config # "bad" /\ aOptions.image = "good"
                             /\ aOptions.probe \in {"none", "logging", "readback", "frame"}
                             /\ "gpu" \in aServices \/ aOptions.probe = "logging"
                             /\ aOptions.probe = "readback" => "driver" \in aServices
\* The life cycle of the host process keeps these three promises.
LifecycleIsOrderly == NormalCloseHasNoPackage /\ ManagerOutlivesItsUsers /\ GuestIsAdmitted
\* A window close ends the process, provided that no graphics capture of the worker
\* blocks for ever: the join never waits for a worker that waits for the UI thread
\* (OnPostLaunchModule, StopFirstFrameProbe).
CloseEndsProcess == []<>(aWorker # "captures") => (aUi = "join" ~> aUi = "left")
=============================================================================
