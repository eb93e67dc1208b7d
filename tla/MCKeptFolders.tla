----------------------------- MODULE MCKeptFolders -----------------------------
(***************************************************************************)
(* The folders that keep a bounded history: the diagnostic packages of the *)
(* snapshot manager, the sessions of a portable bundle, and the sessions   *)
(* and renames of the launcher's save profiles.  All publish by rename,    *)
(* keep to a limit and survive being cut off.  They share nothing; a       *)
(* behaviour explores one while the others rest.                           *)
(***************************************************************************)
EXTENDS SnapshotManager, PortableLauncher, ManagedProfile, TLC

CONSTANT MaxBundleEvents   \* bound: launches and writes of the title together

VARIABLE scene

FoldersInit == /\ scene \in {"packages", "bundle", "profiles"}
               /\ ManagerInit /\ PortableInit /\ Init
               /\ scene # "bundle" => userSave = <<1, 1>>
               /\ scene # "profiles" => \A p \in Profiles : marker[p] = "absent"

FoldersNext ==
  /\ \/ scene = "packages" /\ ManagerNext /\ UNCHANGED <<portableVars, vars>>
     \/ /\ scene = "bundle" /\ PortableNext /\ UNCHANGED <<managerVars, vars>>
        /\ launches' + writes' <= MaxBundleEvents
     \/ scene = "profiles" /\ Next /\ UNCHANGED <<managerVars, portableVars>>
  /\ UNCHANGED scene

FoldersSpec == FoldersInit /\ [][FoldersNext]_<<scene, managerVars, portableVars, vars>>

\* Save profiles, identities and the launchers of a bundle are interchangeable.
Symmetry == Permutations(Profiles) \cup Permutations(Ids) \cup Permutations(PLaunchers)
=============================================================================
