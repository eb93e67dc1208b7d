---------------------------- MODULE MCFairThreads ----------------------------
(***************************************************************************)
(* What must come to an end under fair scheduling: the threads of          *)
(* diagnostics, and the operations of launchers that compete for a save    *)
(* profile.  They share nothing; a behaviour explores one while the others *)
(* rest.                                                                   *)
(***************************************************************************)
EXTENDS MCDiagnosticWorker, ManagedProfile

\* The subject "profile" is the fourth beside those of MCDiagnosticWorker.
ContendersInit ==
  /\ subject = "profile" /\ Init
  /\ ManagerInit /\ SaveCopyInit /\ TimedInit
  /\ target = (CHOOSE f \in SaveFiles : TRUE) /\ ~scratch /\ input.available

PartsInit == ContendersInit \/ (ThreadsInit /\ Init /\ \A p \in Profiles : marker[p] = "absent")

PartsNext ==
  \/ ThreadsNext /\ UNCHANGED vars
  \/ subject = "profile" /\ Next /\ UNCHANGED all

\* The threads as in MCDiagnosticWorker; an operation of a launcher runs to its
\* return, and the job of a launcher that is gone ends its title (see
\* ManagedProfile).
PartsFairness ==
  /\ ThreadsFairness
  /\ \A l \in Launchers : WF_vars(subject = "profile" /\ Proceeds(l))
  /\ \A g \in Profiles \X Ids : WF_vars(subject = "profile" /\ JobKill(g))

FairPartsSpec == PartsInit /\ [][PartsNext]_<<all, vars>> /\ PartsFairness
=============================================================================
