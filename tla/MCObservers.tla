------------------------------ MODULE MCObservers ------------------------------
(***************************************************************************)
(* What asks for diagnostics and what is recorded for them: the triggers,  *)
(* the observers whose tables go into a package (semaphore witness, frame  *)
(* cores, timers, race audit) and the image helper.  They share nothing; a *)
(* behaviour explores one of them while the others rest.                   *)
(***************************************************************************)
EXTENDS DiagnosticTriggers, SemaphoreWitness, FrameCores, TimerObserver, ImageHelper, RaceAudit, TLC

\* Pixels of the image at each place: the third place has a larger monitor.
Pixels == [p \in {1, 2, 3} |-> IF p = 3 THEN 2 ELSE 1]

VARIABLE scene

coreVars == <<workerVars, trackerVars, ledgerVars>>
observed == <<witnessVars, coreVars, timerVars, imageVars, auditVars>>

AllInit ==
  /\ scene \in {"triggers", "witness", "worker", "tracker", "ledger", "timers", "image", "audit"}
  /\ WitnessInit /\ WorkerInit /\ TrackerInit /\ LedgerInit
  /\ TimerInit /\ ImageInit /\ AuditInit /\ TriggerInit
  /\ scene # "triggers" => present \subseteq Pads
  /\ scene # "triggers" \/ Pads \cap present = {} => slots = 1  \* the table is for pads

ObserverNext ==
  \/ scene = "witness" /\ WitnessNext
     /\ UNCHANGED <<coreVars, timerVars, imageVars, auditVars>>
  \/ scene = "worker" /\ WorkerNext
     /\ UNCHANGED <<witnessVars, trackerVars, ledgerVars, timerVars, imageVars, auditVars>>
  \/ scene = "tracker" /\ TrackerNext
     /\ UNCHANGED <<witnessVars, workerVars, ledgerVars, timerVars, imageVars, auditVars>>
  \/ scene = "ledger" /\ LedgerNext
     /\ UNCHANGED <<witnessVars, workerVars, trackerVars, timerVars, imageVars, auditVars>>
  \/ scene = "timers" /\ TimerNext
     /\ UNCHANGED <<witnessVars, coreVars, imageVars, auditVars>>
  \/ scene = "image" /\ ImageNext
     /\ UNCHANGED <<witnessVars, coreVars, timerVars, auditVars>>
  \/ scene = "audit" /\ AuditNext
     /\ UNCHANGED <<witnessVars, coreVars, timerVars, imageVars>>

AllNext ==
  /\ \/ scene = "triggers" /\ TriggerNext /\ UNCHANGED observed
     \/ ObserverNext /\ UNCHANGED triggerVars
  /\ UNCHANGED scene

AllSpec == AllInit /\ [][AllNext]_<<scene, triggerVars, observed>>

\* What a record attributes is what happened: the frame cores hand out a wait, an
\* update or a token once (Render, Consume), and the description a finish reports
\* is of one race (FindRaceDescriptionAuditState), whatever overlaps.
AttributionIsTrue == CoresSpendOnce /\ DescriptionIsOfOneRace

\* Gamepads are interchangeable.
Symmetry == Permutations(Pads)
=============================================================================
