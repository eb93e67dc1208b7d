-------------------------- MODULE MCDiagnosticWorker --------------------------
(***************************************************************************)
(* The threads of diagnostics under fair scheduling: requesters, worker    *)
(* and Stop of the snapshot manager, the copy of a save beside a running   *)
(* title, and the held gamepad combo with a UI thread that keeps up.  They *)
(* share nothing; a behaviour explores one of them while the others rest.  *)
(***************************************************************************)
EXTENDS SnapshotManager, SaveCopy, HoldTiming

VARIABLE subject

all == <<subject, managerVars, saveCopyVars, timed>>

ThreadsInit ==
  /\ ManagerInit /\ SaveCopyInit /\ TimedInit
  /\ subject \in {"manager", "copy", "hold"}
  /\ subject # "copy" => /\ target = CHOOSE f \in SaveFiles : TRUE
                         /\ ~scratch /\ input.available

ManagerStep == ManagerNext /\ UNCHANGED <<saveCopyVars, timed>>
CopyStep == SaveCopyNext /\ UNCHANGED <<managerVars, timed>>
HoldStep == PromptNext /\ UNCHANGED <<managerVars, saveCopyVars>>

ThreadsNext ==
  /\ \/ subject = "manager" /\ ManagerStep
     \/ subject = "copy" /\ CopyStep
     \/ subject = "hold" /\ HoldStep
  /\ UNCHANGED subject

ThreadsSpec == ThreadsInit /\ [][ThreadsNext]_all

\* Manager: threads that are inside a call keep running; nobody has to call, no
\* process has to end, and a guest-frame helper need not ever finish.
\* Copy: the worker runs; the title may stop anywhere, also inside a
\* transaction.  Hold: the UI thread and the timer thread are scheduled and the
\* clock advances; nobody is obliged to press, release, unplug or stop.
ThreadsFairness ==
  /\ WF_managerVars(subject = "manager" /\ WorkerMain)
  /\ WF_managerVars(subject = "manager" /\ InsideStop)
  /\ \A r \in Requesters : WF_managerVars(subject = "manager" /\ InsideCall(r))
  /\ WF_saveCopyVars(subject = "copy" /\ (Gate \/ Copy))
  /\ WF_triggerVars(subject = "hold" /\ RunPosted)
  /\ WF_triggerVars(subject = "hold" /\ Timer)
  /\ WF_triggerVars(subject = "hold" /\ Tick)
  /\ WF_triggerVars(subject = "hold" /\ TriggersStopEnd)
=============================================================================
