---------------------------- MODULE MCApplication ----------------------------
(***************************************************************************)
(* The host process from start to end: its life cycle, the probe scripts   *)
(* its worker runs, the settings it switches and gives back, its inputs,   *)
(* its texture budget and reference counts, and the crash helper beside    *)
(* it.  A behaviour explores one of them while the others rest.            *)
(***************************************************************************)
EXTENDS CrashHelper, ProbeScripts, AppLifecycle, HostSwitches, HostInputs,
        TextureBudget, NativeRefcount

VARIABLE scene

hostVars == <<menuVars, photoVars, cursorVars, latchVars, gateVars>>
memoryVars == <<budgetVars, refVars>>
all == <<scene, crashVars, probeVars, appVars, hostVars, memoryVars>>

HostInit ==
  /\ scene \in {"crash", "probe", "life", "menu", "photo", "cursor", "latch", "gate", "budget", "refs"}
  /\ CrashInit
  /\ ProbeInit /\ (scene # "probe" => pScript = Script({"city"}))
  /\ AppInit /\ (scene # "life" => aOptions = CHOOSE o \in Options : o.image # "hooks")
  /\ MenuInit /\ (scene # "menu" => ~unlocked /\ low = 0)
  /\ PhotoInit /\ (scene # "photo" => ~wait /\ ~always /\ photo.enabled)
  /\ CursorInit /\ LatchInit
  /\ GateInit /\ (scene # "gate" => signalled = {})
  /\ BudgetInit /\ (scene # "budget" => tSetup = CHOOSE s \in Setups : s.wine)
  /\ RefInit /\ (scene # "refs" => rHeld = CHOOSE held \in [GuestThreads -> [Resources -> 0..1]] : OneCreator(held))

HostNext ==
  /\ \/ scene = "crash" /\ CrashNext /\ UNCHANGED <<probeVars, appVars, hostVars, memoryVars>>
     \/ scene = "probe" /\ ProbeNext /\ UNCHANGED <<crashVars, appVars, hostVars, memoryVars>>
     \/ scene = "life" /\ AppNext /\ UNCHANGED <<crashVars, probeVars, hostVars, memoryVars>>
     \/ scene = "menu" /\ MenuNext
        /\ UNCHANGED <<crashVars, probeVars, appVars, photoVars, cursorVars, latchVars, gateVars, memoryVars>>
     \/ scene = "photo" /\ PhotoNext
        /\ UNCHANGED <<crashVars, probeVars, appVars, menuVars, cursorVars, latchVars, gateVars, memoryVars>>
     \/ scene = "cursor" /\ CursorNext
        /\ UNCHANGED <<crashVars, probeVars, appVars, menuVars, photoVars, latchVars, gateVars, memoryVars>>
     \/ scene = "latch" /\ LatchNext
        /\ UNCHANGED <<crashVars, probeVars, appVars, menuVars, photoVars, cursorVars, gateVars, memoryVars>>
     \/ scene = "gate" /\ GateNext
        /\ UNCHANGED <<crashVars, probeVars, appVars, menuVars, photoVars, cursorVars, latchVars, memoryVars>>
     \/ scene = "budget" /\ BudgetNext /\ UNCHANGED <<crashVars, probeVars, appVars, hostVars, refVars>>
     \/ scene = "refs" /\ RefNext /\ UNCHANGED <<crashVars, probeVars, appVars, hostVars, budgetVars>>
  /\ UNCHANGED scene

\* The crash helper, the probe worker, the UI thread and the application's other
\* threads run; nothing is assumed of the title, the guest, the graphics captures
\* or the user.
HostFairness ==
  /\ WF_crashVars(scene = "crash" /\ Helper)
  /\ WF_probeVars(scene = "probe" /\ WorkerStep)
  /\ WF_appVars(scene = "life" /\ UiStep)
  /\ WF_appVars(scene = "life" /\ ThreadStep)
  /\ WF_budgetVars(scene = "budget" /\ (MonitorRound \/ JoinsMonitor))

HostSpec == HostInit /\ [][HostNext]_all /\ HostFairness

\* Nothing the user set is lost: a setting that was borrowed for the menu or for
\* a photo is given back, also when it was edited in between (menu_state,
\* photo_capture), and texture limits are changed by the host only where the
\* user left them alone, within their order and pace (ApplyTextureCacheBudget, Run).
UserSettingsHold == SwitchesGiveBack /\ LimitsAreKept

\* A close of the window comes to its end unless a graphics capture blocks for
\* ever: the probe worker leaves every other wait of its script when it is asked
\* to stop (StopFirstFrameProbe joins it), the budget monitor ends with its round (Monitor::Stop joins it), and the
\* UI thread that joins them ends the process (OnShutdown).
ShutdownEnds == JoinReturns /\ MonitorIsJoined /\ CloseEndsProcess
==============================================================================
