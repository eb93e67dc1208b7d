---------------------------- MODULE PreferenceStore ----------------------------
(***************************************************************************)
(* The preference store of the internal launcher                           *)
(* (mcla_launcher_store_win.cpp over mcla_launcher_fs_win.cpp): one folder *)
(* per user with preferences.dat, preferences.backup.dat, the writer lock  *)
(* and whatever an interrupted write left behind.                          *)
(*                                                                         *)
(* A launcher process looks at the folder without the lock, takes the      *)
(* exclusive lock for the rest of its life, reads the document again, and  *)
(* from then on saves whole documents: compare the file with the bytes it  *)
(* last read or wrote, copy them to the backup, publish the new ones.      *)
(* Every file is written to a new temporary file and moved over its name;  *)
(* any of these steps may fail, leaving the temporary file behind, and the *)
(* process may die between any two of them.                                *)
(*                                                                         *)
(* The file may also be edited by something that ignores the lock.  The    *)
(* code does not exclude that between the comparison and the publication   *)
(* of one Save ("the caller's profile WriterLock coordinates writers"):    *)
(* the model lets such an edit happen at every other moment.               *)
(***************************************************************************)
EXTENDS PreferenceDocument

CONSTANT Launchers  \* launcher processes started on the same folder

ASSUME LauncherConstants == None \notin Launchers

VARIABLES
  primary,   \* preferences.dat: None (no file), Damaged or a document
  edits,     \* edits made outside the launcher
  backup,    \* preferences.backup.dat
  litter,    \* another file exists: a preserved temporary or the parent hint
  lock,      \* holder of the exclusive handle on .mcla-writer.lock
  pc,        \* step each process is at
  mem,       \* State::preferences
  previous,  \* State::previous_bytes; None: first run
  next,      \* document handed to Save
  temp,      \* temporary file the process has created, with its bytes
  creates    \* the operation also made the profile it registers

process == <<pc, mem, previous, next, temp, creates>>
vars == <<primary, edits, backup, litter, lock, process>>

SaveSteps == {"backup", "backup_move", "publish", "publish_move"}
OpenSteps == {"open", "save", "hint", "hint_move"} \cup SaveSteps
Steps == {"closed", "preflighted", "locked"} \cup OpenSteps

StoreInit ==
  /\ primary = None
  /\ edits = 0
  /\ backup = None
  /\ litter = FALSE
  /\ lock = None
  /\ pc = [l \in Launchers |-> "closed"]
  /\ mem = [l \in Launchers |-> FirstRun]
  /\ previous = [l \in Launchers |-> None]
  /\ next = [l \in Launchers |-> FirstRun]
  /\ temp = [l \in Launchers |-> None]
  /\ creates = [l \in Launchers |-> FALSE]

Goto(l, s) == pc' = [pc EXCEPT ![l] = s]

\* EmptyFirstRunDirectory: the folder holds nothing but the lock file.
EmptyFirstRunDirectory ==
  /\ primary = None
  /\ backup = None
  /\ ~litter
  /\ \A l \in Launchers : temp[l] = None

\* The folder may be opened: a decodable document, or nothing at all.
Openable ==
  /\ primary # Damaged
  /\ primary = None => EmptyFirstRunDirectory

\* OpenPreferenceStore, the read-only look before the lock is taken.
Preflight(l) ==
  /\ pc[l] = "closed"
  /\ Openable
  /\ Goto(l, "preflighted")
  /\ UNCHANGED <<primary, edits, backup, litter, lock, mem, previous, next, temp, creates>>

\* AcquireWriterLock: an exclusive open; the process gives up when it fails.
\* Mutant: the lock file is opened shared.
LockIsShared == TRUE
LockIsFree == lock = None

Acquire(l) ==
  /\ pc[l] = "preflighted"
  /\ \/ LockIsFree /\ lock' = l /\ Goto(l, "locked")
     \/ ~LockIsFree /\ lock' = lock /\ Goto(l, "closed")
  /\ UNCHANGED <<primary, edits, backup, litter, mem, previous, next, temp, creates>>

\* The authoritative read under the lock; a refusal releases the lock.
Read(l) ==
  /\ pc[l] = "locked"
  /\ \/ /\ Openable
        /\ mem' = [mem EXCEPT ![l] = DocumentOf(primary)]
        /\ previous' = [previous EXCEPT ![l] = primary]
        /\ lock' = lock
        /\ Goto(l, "open")
     \/ /\ ~Openable
        /\ lock' = None
        /\ Goto(l, "closed")
        /\ UNCHANGED <<mem, previous>>
  /\ UNCHANGED <<primary, edits, backup, litter, next, temp, creates>>

\* An operation of the user on the document in memory.  Register, Create,
\* Import and Branch register a profile; the last three made it themselves.
Request(l) ==
  /\ pc[l] = "open"
  /\ \E q \in Operations(mem[l]), made \in BOOLEAN :
       /\ made => q \in Registrations(mem[l])
       /\ next' = [next EXCEPT ![l] = q]
       /\ creates' = [creates EXCEPT ![l] = made]
  /\ Goto(l, "save")
  /\ UNCHANGED <<primary, edits, backup, litter, lock, mem, previous, temp>>

\* PreferenceStore::Save, the comparison with the file on disk.
\* Mutant: the file is assumed to be as it was read.
SaveTrusts(l) == previous[l] = None => EmptyFirstRunDirectory
SaveMatches(l) ==
  \/ previous[l] # None /\ primary = previous[l]
  \/ previous[l] = None /\ EmptyFirstRunDirectory

\* Mutant: a backup that exists already is kept.
SaveCheckKeepsBackup(l) ==
  /\ pc[l] = "save"
  /\ \/ ~SaveMatches(l) /\ Goto(l, "open")
     \/ SaveMatches(l) /\ Goto(l, IF previous[l] # None /\ backup = None THEN "backup" ELSE "publish")
  /\ UNCHANGED <<primary, edits, backup, litter, lock, mem, previous, next, temp, creates>>
SaveCheck(l) ==
  /\ pc[l] = "save"
  /\ \/ ~SaveMatches(l) /\ Goto(l, "open")
     \/ SaveMatches(l) /\ Goto(l, IF previous[l] # None THEN "backup" ELSE "publish")
  /\ UNCHANGED <<primary, edits, backup, litter, lock, mem, previous, next, temp, creates>>

\* AtomicWrite: the bytes go to a new temporary file ...
WriteTemp(l, from, to, bytes) ==
  /\ pc[l] = from
  /\ temp' = [temp EXCEPT ![l] = bytes]
  /\ Goto(l, to)
  /\ UNCHANGED <<primary, edits, backup, litter, lock, mem, previous, next, creates>>

\* ... which is then moved over the name it is for.
BackupTemp(l) == WriteTemp(l, "backup", "backup_move", previous[l])

\* Mutant: the file itself is moved to the backup's name.
BackupByRename(l) ==
  /\ pc[l] = "backup_move"
  /\ backup' = primary
  /\ primary' = None
  /\ temp' = [temp EXCEPT ![l] = None]
  /\ Goto(l, "publish")
  /\ UNCHANGED <<edits, litter, lock, mem, previous, next, creates>>
BackupMove(l) ==
  /\ pc[l] = "backup_move"
  /\ backup' = temp[l]
  /\ temp' = [temp EXCEPT ![l] = None]
  /\ Goto(l, "publish")
  /\ UNCHANGED <<primary, edits, litter, lock, mem, previous, next, creates>>

PublishTemp(l) == WriteTemp(l, "publish", "publish_move", next[l])

PublishMove(l) ==
  /\ pc[l] = "publish_move"
  /\ primary' = temp[l]
  /\ temp' = [temp EXCEPT ![l] = None]
  /\ mem' = [mem EXCEPT ![l] = next[l]]
  /\ previous' = [previous EXCEPT ![l] = temp[l]]
  /\ Goto(l, IF creates[l] THEN "hint" ELSE "open")
  /\ UNCHANGED <<edits, backup, litter, lock, next, creates>>

\* RememberCollectionParent after a creating operation: one more small file,
\* whose content no property is about.
HintTemp(l) == WriteTemp(l, "hint", "hint_move", next[l])

HintMove(l) ==
  /\ pc[l] = "hint_move"
  /\ litter' = TRUE
  /\ temp' = [temp EXCEPT ![l] = None]
  /\ Goto(l, "open")
  /\ UNCHANGED <<primary, edits, backup, lock, mem, previous, next, creates>>

\* A step of a write failed: the temporary file is preserved, the operation
\* reports the error and the launcher goes on.
Abandon(l) ==
  /\ litter' = (litter \/ temp[l] # None)
  /\ temp' = [temp EXCEPT ![l] = None]

Fail(l) ==
  /\ pc[l] \in SaveSteps \cup {"save", "hint", "hint_move"}
  /\ Abandon(l)
  /\ Goto(l, "open")
  /\ UNCHANGED <<primary, edits, backup, lock, mem, previous, next, creates>>

\* The process ends, by the user or by a crash: handles are closed.
Exit(l) ==
  /\ pc[l] # "closed"
  /\ Abandon(l)
  /\ lock' = IF lock = l THEN None ELSE lock
  /\ Goto(l, "closed")
  /\ mem' = [mem EXCEPT ![l] = FirstRun]
  /\ previous' = [previous EXCEPT ![l] = None]
  /\ next' = [next EXCEPT ![l] = FirstRun]
  /\ creates' = [creates EXCEPT ![l] = FALSE]
  /\ UNCHANGED <<primary, edits, backup>>

\* Something that ignores the lock replaces or removes preferences.dat.
ExternalEdit ==
  /\ edits < MaxEdits
  /\ edits' = edits + 1
  /\ primary' \in Preferences \cup {None, Damaged}
  /\ \A l \in Launchers : pc[l] \notin SaveSteps
  /\ UNCHANGED <<backup, litter, lock, process>>

Step(l) ==
  \/ Preflight(l) \/ Acquire(l) \/ Read(l) \/ Request(l) \/ SaveCheck(l)
  \/ BackupTemp(l) \/ BackupMove(l) \/ PublishTemp(l) \/ PublishMove(l)
  \/ HintTemp(l) \/ HintMove(l) \/ Fail(l) \/ Exit(l)

StoreNext == ExternalEdit \/ \E l \in Launchers : Step(l)
StoreSpec == StoreInit /\ [][StoreNext]_vars

-----------------------------------------------------------------------------
(* Properties *)

Library == INSTANCE LauncherLibrary WITH library <- primary

StoreTypeOK ==
  /\ primary \in Preferences \cup {None, Damaged}
  /\ edits \in 0..MaxEdits
  /\ backup \in Preferences \cup {None}
  /\ litter \in BOOLEAN
  /\ lock \in Launchers \cup {None}
  /\ pc \in [Launchers -> Steps]
  /\ mem \in [Launchers -> Preferences]
  /\ previous \in [Launchers -> Preferences \cup {None}]
  /\ next \in [Launchers -> Preferences]
  /\ temp \in [Launchers -> Preferences \cup {None}]
  /\ creates \in [Launchers -> BOOLEAN]

\* No lost update: however many launchers are started, fail or die, and
\* whatever replaces the file behind their back, PreferenceStore::Save changes
\* the durable document only by one user operation applied to the document
\* that is durable at that moment (the abstract library).
NoLostUpdate == Library!Spec

\* A document that Save replaces is in preferences.backup.dat at the moment it
\* disappears, so that one user operation can always be taken back by hand.
ReplacedIsBackedUp ==
  [][edits' = edits /\ primary' # primary => primary = None \/ backup = primary]_vars

\* Only the holder of the lock works on the folder, and while no one edits the
\* file the document it shows the user is the durable one: the one it read
\* under the lock, not the one of the look before it.
OpenShowsDurable ==
  \A l \in Launchers : pc[l] \in OpenSteps =>
    /\ lock = l
    /\ edits = 0 => mem[l] = DocumentOf(primary)

\* A store that was saved once can be opened again whatever failure or crash
\* follows; a first save that fails leaves a folder the launcher refuses, and
\* only that (or an edit) does.
SavedStoreStaysOpenable ==
  edits = 0 =>
    /\ backup # None => primary \in Preferences
    /\ ~Openable => primary = None /\ (litter \/ \E l \in Launchers : temp[l] # None)
=============================================================================
