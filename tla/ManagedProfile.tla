---------------------------- MODULE ManagedProfile ----------------------------
(***************************************************************************)
(* The on-disk life of managed save profiles under the internal launcher   *)
(* (mcla_launcher_controller_win.cpp with the store, snapshot, process and *)
(* filesystem helpers it calls).                                           *)
(*                                                                         *)
(* Several launcher processes may share profile folders (one per Windows   *)
(* user or prefix; each has its own preference store).  They coordinate    *)
(* only through files of the profile: the exclusively opened writer lock,  *)
(* the session records, the rename archives, pending-operation.dat and the *)
(* managed/import markers.  Every durable write is a step of its own, each *)
(* may fail, and a launcher may die between any two of them.  A title that *)
(* was started belongs to a kill-on-close job: it may outlive the death of *)
(* its launcher for a while.                                               *)
(*                                                                         *)
(* The content of a `user' tree is a version number; every modification by *)
(* the title or by a rename makes a version that never existed before.     *)
(***************************************************************************)
EXTENDS Integers, FiniteSets

CONSTANTS
  Launchers,   \* launcher processes
  Profiles,    \* profile roots, existing or still to be created
  Ids,         \* random 128-bit session / rename / archive identities
  MaxEntries,  \* 1024: bound of sessions and backups entries
  MaxVersion,  \* bound of the model: number of modifications of user trees
  None         \* absent value

ASSUME ProfileConstants ==
  /\ MaxEntries \in Nat \ {0}
  /\ MaxVersion \in Nat
  /\ None \notin Launchers
  /\ None \notin Profiles
  /\ None \notin Ids
  /\ None \notin Nat

VARIABLES
  marker,   \* which marker the profile root holds: none ("absent": no root),
            \* initialization ("started"), import-in-progress.dat ("import"),
            \* managed-profile.dat ("managed")
  origin,   \* content the profile was published with
  lock,     \* holder of the exclusive handle on .mcla-writer.lock
  user,     \* content of the live user tree
  sess,     \* sessions\<id>: state.txt and the two snapshot receipts
  arch,     \* backups\rename-<id>: the two snapshot receipts
  pending,  \* pending-operation.dat exists
  alive,    \* titles running: <<profile, session>>
  pc,       \* step of the operation each launcher executes
  prof,     \* profile the operation works on
  sid,      \* identity of the session or archive it made
  snap,     \* content read by the copy in progress
  dest,     \* new profile made by a branch
  ver       \* last version made

vars == <<marker, origin, lock, user, sess, arch, pending, alive, pc, prof,
          sid, snap, dest, ver>>

Content == Nat
MaybeContent == Content \cup {None}

SessionStates == {"absent", "empty", "prepared", "launching", "running", "complete"}
NoSession == [state |-> "absent", before |-> None, after |-> None]
NewSession == [state |-> "empty", before |-> None, after |-> None]
NewArchive == [state |-> "open", before |-> None, after |-> None]
WithState(r, v)  == [state |-> v, before |-> r.before, after |-> r.after]
WithBefore(r, c) == [state |-> r.state, before |-> c, after |-> r.after]
WithAfter(r, c)  == [state |-> r.state, before |-> r.before, after |-> c]

StartSteps  == {"s_admit", "s_dir", "s_prepared", "s_copy", "s_receipt",
                "s_launching", "s_spawn", "s_running"}
PollSteps   == {"running", "p_receipt", "p_complete"}
RenameSteps == {"r_admit", "r_dir", "r_copy", "r_receipt", "r_pending",
                "r_write", "r_copy2", "r_receipt2", "r_complete"}
BranchSteps == {"b_admit", "b_marker", "b_copy", "b_fill", "x_marker", "x_copy", "b_publish"}
CreateSteps == {"c_publish"}
Busy  == StartSteps \cup PollSteps \cup RenameSteps \cup BranchSteps \cup CreateSteps
Steps == {"idle", "down"} \cup Busy

Init ==
  /\ marker \in [Profiles -> {"absent", "managed"}]
  /\ user = [p \in Profiles |-> 0]
  /\ origin = [p \in Profiles |-> IF marker[p] = "managed" THEN 0 ELSE None]
  /\ lock = [p \in Profiles |-> None]
  /\ sess = [p \in Profiles |-> [i \in Ids |-> NoSession]]
  /\ arch = [p \in Profiles |-> [i \in Ids |-> NoSession]]
  /\ pending = [p \in Profiles |-> FALSE]
  /\ alive = {}
  /\ pc = [l \in Launchers |-> "idle"]
  /\ prof = [l \in Launchers |-> None]
  /\ sid = [l \in Launchers |-> None]
  /\ snap = [l \in Launchers |-> None]
  /\ dest = [l \in Launchers |-> None]
  /\ ver = 0

-----------------------------------------------------------------------------
(* What the code reads of a profile *)

\* Entries of sessions\ and of backups\.
SessionsOf(p) == {i \in Ids : sess[p][i].state # "absent"}
ArchivesOf(p) == {i \in Ids : arch[p][i].state # "absent"}

\* InspectSessionHistory(sessions, bound): at most `bound' entries and every
\* one of them holds a state.txt that starts with "complete".
\* Mutant: only the number of entries is looked at.
HistoryCounts(p, bound) == Cardinality(SessionsOf(p)) <= bound
HistoryAdmits(p, bound) ==
  /\ Cardinality(SessionsOf(p)) <= bound
  /\ \A i \in SessionsOf(p) : sess[p][i].state = "complete"

\* RegisterManagedProfile used as admission: no import marker, final marker.
MarkerAdmits(p) == marker[p] = "managed"

\* Mutant: the launch admits what a rename admits, one entry too many.
StartAdmitsFull(p) == MarkerAdmits(p) /\ ~pending[p] /\ HistoryAdmits(p, MaxEntries)
StartAdmits(p)  == MarkerAdmits(p) /\ ~pending[p] /\ HistoryAdmits(p, MaxEntries - 1)
RenameAdmits(p) == /\ MarkerAdmits(p) /\ ~pending[p] /\ HistoryAdmits(p, MaxEntries)
                   /\ Cardinality(ArchivesOf(p)) < MaxEntries
\* Mutant: a duplicate does not look for an unfinished rename.
DuplicateAdmitsPending(p) == MarkerAdmits(p) /\ HistoryAdmits(p, MaxEntries)
DuplicateAdmits(p) == MarkerAdmits(p) /\ ~pending[p] /\ HistoryAdmits(p, MaxEntries)

\* Snapshots a restore may choose: those whose inventory receipt exists.
RestorableContents(p) ==
  ({sess[p][i].before : i \in Ids} \cup {sess[p][i].after : i \in Ids} \cup
   {arch[p][i].before : i \in Ids} \cup {arch[p][i].after : i \in Ids}) \ {None}

-----------------------------------------------------------------------------
Goto(l, step) == pc' = [pc EXCEPT ![l] = step]

\* Every handle of the operation is closed: its locks become free.
Release(l) == lock' = [p \in Profiles |-> IF lock[p] = l THEN None ELSE lock[p]]
Forget(l) == /\ sid'  = [sid EXCEPT ![l] = None]
             /\ snap' = [snap EXCEPT ![l] = None]
             /\ dest' = [dest EXCEPT ![l] = None]
             /\ prof' = [prof EXCEPT ![l] = None]
\* Mutant: an error return that leaks the lock handle.
ReturnLeaking(l) == Goto(l, "idle") /\ UNCHANGED lock /\ Forget(l)
Return(l) == Goto(l, "idle") /\ Release(l) /\ Forget(l)

disk == <<marker, origin, user, sess, arch, pending, ver>>

\* Open the profile and take its writer lock; a lock held elsewhere is an
\* error return that changes nothing.  A library names only profiles that were
\* registered, that is with their final marker.
\* Mutant: the lock file is opened with sharing, so the second opener wins it.
LockShared(l, p, step) ==
  /\ pc[l] = "idle"
  /\ marker[p] = "managed"
  /\ lock' = [lock EXCEPT ![p] = l]
  /\ prof' = [prof EXCEPT ![l] = p]
  /\ Goto(l, step)
  /\ UNCHANGED <<disk, alive, sid, snap, dest>>
Lock(l, p, step) ==
  /\ pc[l] = "idle"
  /\ marker[p] = "managed"
  /\ lock[p] = None
  /\ lock' = [lock EXCEPT ![p] = l]
  /\ prof' = [prof EXCEPT ![l] = p]
  /\ Goto(l, step)
  /\ UNCHANGED <<disk, alive, sid, snap, dest>>

\* CopySaveTree, first half: the source inventory and the bytes.
ReadTree(l, from, to) ==
  /\ pc[l] = from
  /\ snap' = [snap EXCEPT ![l] = user[prof[l]]]
  /\ Goto(l, to)
  /\ UNCHANGED <<disk, lock, alive, prof, sid, dest>>

\* CopySaveTree, second half: succeeds only if the inventory did not change.
CopyVerified(l) == snap[l] = user[prof[l]]

-----------------------------------------------------------------------------
(* LauncherController::State::Start *)

StartLock(l, p) == Lock(l, p, "s_admit")

StartAdmit(l) ==
  /\ pc[l] = "s_admit"
  /\ StartAdmits(prof[l])
  /\ Goto(l, "s_dir")
  /\ UNCHANGED <<disk, lock, alive, prof, sid, snap, dest>>

\* Not admitted, or refused by a check this module leaves out (roots, build,
\* lease, game, capabilities, GPU, display name, save tree, support folders).
StartRefuse(l) ==
  /\ pc[l] = "s_admit"
  /\ Return(l)
  /\ UNCHANGED <<disk, alive>>

\* Mutant: an existing session directory is opened and reused.
StartReuseDirectory(l) ==
  /\ pc[l] = "s_dir"
  /\ \E i \in Ids :
       /\ sess' = [sess EXCEPT ![prof[l]][i] = NewSession]
       /\ sid' = [sid EXCEPT ![l] = i]
  /\ Goto(l, "s_prepared")
  /\ UNCHANGED <<marker, origin, user, arch, pending, ver, lock, alive, prof, snap, dest>>
StartNewDirectory(l) ==
  /\ pc[l] = "s_dir"
  /\ \E i \in Ids \ SessionsOf(prof[l]) :
       /\ sess' = [sess EXCEPT ![prof[l]][i] = NewSession]
       /\ sid' = [sid EXCEPT ![l] = i]
  /\ Goto(l, "s_prepared")
  /\ UNCHANGED <<marker, origin, user, arch, pending, ver, lock, alive, prof, snap, dest>>

WriteState(l, from, value, to) ==
  /\ pc[l] = from
  /\ sess' = [sess EXCEPT ![prof[l]][sid[l]] = WithState(@, value)]
  /\ Goto(l, to)
  /\ UNCHANGED <<marker, origin, user, arch, pending, ver, lock, alive, prof, sid, snap, dest>>

StartPrepared(l) == WriteState(l, "s_prepared", "prepared", "s_copy")
StartCopy(l) == ReadTree(l, "s_copy", "s_receipt")

StartReceipt(l) ==
  /\ pc[l] = "s_receipt"
  /\ CopyVerified(l)
  /\ sess' = [sess EXCEPT ![prof[l]][sid[l]] = WithBefore(@, snap[l])]
  /\ Goto(l, "s_launching")
  /\ UNCHANGED <<marker, origin, user, arch, pending, ver, lock, alive, prof, sid, snap, dest>>

StartLaunching(l) == WriteState(l, "s_launching", "launching", "s_spawn")

\* StartOwnedProcess: suspended, assigned to the job, resumed.
StartSpawn(l) ==
  /\ pc[l] = "s_spawn"
  /\ alive' = alive \cup {<<prof[l], sid[l]>>}
  /\ Goto(l, "s_running")
  /\ UNCHANGED <<disk, lock, prof, sid, snap, dest>>

\* The running receipt; a failed write is reported and tolerated.
StartRunning(l) ==
  /\ pc[l] = "s_running"
  /\ \/ sess' = [sess EXCEPT ![prof[l]][sid[l]] = WithState(@, "running")]
     \/ UNCHANGED sess
  /\ Goto(l, "running")
  /\ UNCHANGED <<marker, origin, user, arch, pending, ver, lock, alive, prof, sid, snap, dest>>

-----------------------------------------------------------------------------
(* LauncherController::State::Poll: after root exit and an empty job. *)

PollCopy(l) ==
  /\ <<prof[l], sid[l]>> \notin alive
  /\ ReadTree(l, "running", "p_receipt")

\* Mutant: the result of the after copy is not looked at.
PollReceiptUnchecked(l) ==
  /\ pc[l] = "p_receipt"
  /\ \/ sess' = [sess EXCEPT ![prof[l]][sid[l]] = WithAfter(@, snap[l])]
     \/ UNCHANGED sess
  /\ Goto(l, "p_complete")
  /\ UNCHANGED <<marker, origin, user, arch, pending, ver, lock, alive, prof, sid, snap, dest>>
PollReceipt(l) ==
  /\ pc[l] = "p_receipt"
  /\ CopyVerified(l)
  /\ sess' = [sess EXCEPT ![prof[l]][sid[l]] = WithAfter(@, snap[l])]
  /\ Goto(l, "p_complete")
  /\ UNCHANGED <<marker, origin, user, arch, pending, ver, lock, alive, prof, sid, snap, dest>>

\* state.txt complete, then session.reset(): every handle is closed.
PollComplete(l) ==
  /\ pc[l] = "p_complete"
  /\ sess' = [sess EXCEPT ![prof[l]][sid[l]] = WithState(@, "complete")]
  /\ Return(l)
  /\ UNCHANGED <<marker, origin, user, arch, pending, ver, alive>>

-----------------------------------------------------------------------------
(* LauncherController::State::RenameName *)

RenameLock(l, p) == Lock(l, p, "r_admit")

RenameAdmit(l) ==
  /\ pc[l] = "r_admit"
  /\ RenameAdmits(prof[l])
  /\ Goto(l, "r_dir")
  /\ UNCHANGED <<disk, lock, alive, prof, sid, snap, dest>>

\* Refused, or the stored name already is the requested one.
RenameReturn(l) ==
  /\ pc[l] = "r_admit"
  /\ Return(l)
  /\ UNCHANGED <<disk, alive>>

RenameNewDirectory(l) ==
  /\ pc[l] = "r_dir"
  /\ \E i \in Ids \ ArchivesOf(prof[l]) :
       /\ arch' = [arch EXCEPT ![prof[l]][i] = NewArchive]
       /\ sid' = [sid EXCEPT ![l] = i]
  /\ Goto(l, "r_copy")
  /\ UNCHANGED <<marker, origin, user, sess, pending, ver, lock, alive, prof, snap, dest>>

RenameCopy(l) == ReadTree(l, "r_copy", "r_receipt")

RenameReceipt(l) ==
  /\ pc[l] = "r_receipt"
  /\ CopyVerified(l)
  /\ arch' = [arch EXCEPT ![prof[l]][sid[l]] = WithBefore(@, snap[l])]
  /\ Goto(l, "r_pending")
  /\ UNCHANGED <<marker, origin, user, sess, pending, ver, lock, alive, prof, sid, snap, dest>>

RenamePending(l) ==
  /\ pc[l] = "r_pending"
  /\ pending' = [pending EXCEPT ![prof[l]] = TRUE]
  /\ Goto(l, "r_write")
  /\ UNCHANGED <<marker, origin, user, sess, arch, ver, lock, alive, prof, sid, snap, dest>>

\* local-display-name.txt lies inside the user tree.
RenameWrite(l) ==
  /\ pc[l] = "r_write"
  /\ ver < MaxVersion
  /\ ver' = ver + 1
  /\ user' = [user EXCEPT ![prof[l]] = ver + 1]
  /\ Goto(l, "r_copy2")
  /\ UNCHANGED <<marker, origin, sess, arch, pending, lock, alive, prof, sid, snap, dest>>

RenameCopyAfter(l) == ReadTree(l, "r_copy2", "r_receipt2")

RenameReceiptAfter(l) ==
  /\ pc[l] = "r_receipt2"
  /\ CopyVerified(l)
  /\ arch' = [arch EXCEPT ![prof[l]][sid[l]] = WithAfter(@, snap[l])]
  /\ Goto(l, "r_complete")
  /\ UNCHANGED <<marker, origin, user, sess, pending, ver, lock, alive, prof, sid, snap, dest>>

\* pending-operation.dat is moved into the archive as completed.txt.
RenameComplete(l) ==
  /\ pc[l] = "r_complete"
  /\ pending' = [pending EXCEPT ![prof[l]] = FALSE]
  /\ arch' = [arch EXCEPT ![prof[l]][sid[l]] = WithState(@, "complete")]
  /\ Return(l)
  /\ UNCHANGED <<marker, origin, user, sess, ver, alive>>

-----------------------------------------------------------------------------
(* CreateProfileImpl: an exclusively created child of the collection folder. *)

\* The child, its lock, the initialization marker and the empty folders.
CreateChild(l, q, step) ==
  /\ marker[q] = "absent"
  /\ marker' = [marker EXCEPT ![q] = "started"]
  /\ lock' = [lock EXCEPT ![q] = l]
  /\ dest' = [dest EXCEPT ![l] = q]
  /\ Goto(l, step)
  /\ UNCHANGED <<origin, user, sess, arch, pending, ver, alive, prof, sid>>

CreateBegin(l, q) == pc[l] = "idle" /\ CreateChild(l, q, "c_publish") /\ UNCHANGED snap

\* managed-profile.pending.dat renamed to managed-profile.dat, then Register.
CreatePublish(l) ==
  /\ pc[l] = "c_publish"
  /\ marker' = [marker EXCEPT ![dest[l]] = "managed"]
  /\ origin' = [origin EXCEPT ![dest[l]] = user[dest[l]]]
  /\ Return(l)
  /\ UNCHANGED <<user, sess, arch, pending, ver, alive>>

-----------------------------------------------------------------------------
(* LauncherController::State::Branch: duplicate the live tree or restore an *)
(* archived snapshot into a NEW profile.                                    *)

BranchLock(l, p) == Lock(l, p, "b_admit")

DuplicateBegin(l, q) ==
  /\ pc[l] = "b_admit"
  /\ DuplicateAdmits(prof[l])
  /\ CreateChild(l, q, "b_marker")
  /\ UNCHANGED snap

\* A restore needs neither a finished history nor a finished rename: it reads
\* an archive, and its copy must reproduce the archived receipt.
RestoreBegin(l, q) ==
  /\ pc[l] = "b_admit"
  /\ MarkerAdmits(prof[l])
  /\ \E c \in RestorableContents(prof[l]) : snap' = [snap EXCEPT ![l] = c]
  /\ CreateChild(l, q, "x_marker")

BranchRefuse(l) ==
  /\ pc[l] = "b_admit"
  /\ Return(l)
  /\ UNCHANGED <<disk, alive>>

\* CreateImportProfile ends with import-in-progress.dat instead of the final
\* marker; Branch takes the lock of the child again.
ImportMarker(l, from, to) ==
  /\ pc[l] = from
  /\ marker' = [marker EXCEPT ![dest[l]] = "import"]
  /\ Goto(l, to)
  /\ UNCHANGED <<origin, user, sess, arch, pending, ver, lock, alive, prof, sid, snap, dest>>
DuplicateMarker(l) == ImportMarker(l, "b_marker", "b_copy")
RestoreMarker(l) == ImportMarker(l, "x_marker", "x_copy")

DuplicateCopy(l) == ReadTree(l, "b_copy", "b_fill")

\* The tree is written into the child's user folder.  A failed copy (Fail)
\* leaves the child behind as an import that never finished.
Fill(l) ==
  /\ user' = [user EXCEPT ![dest[l]] = snap[l]]
  /\ Goto(l, "b_publish")
  /\ UNCHANGED <<marker, origin, sess, arch, pending, ver, lock, alive, prof, sid, snap, dest>>
DuplicateFill(l) == pc[l] = "b_fill" /\ CopyVerified(l) /\ Fill(l)
RestoreFill(l) == pc[l] = "x_copy" /\ Fill(l)

\* import-in-progress.dat renamed to managed-profile.dat, then Register.
BranchPublish(l) ==
  /\ pc[l] = "b_publish"
  /\ marker' = [marker EXCEPT ![dest[l]] = "managed"]
  /\ origin' = [origin EXCEPT ![dest[l]] = user[dest[l]]]
  /\ Return(l)
  /\ UNCHANGED <<user, sess, arch, pending, ver, alive>>

-----------------------------------------------------------------------------
(* Failures, deaths and the title *)

\* Any file operation may fail (disk full, sharing violation, changed source
\* inventory): the operation returns the error and closes its handles; what
\* is on disk stays.  Once the title runs its Session owns it, and only Poll
\* ends that.
Fail(l) ==
  /\ pc[l] \in Busy \ {"s_admit", "r_admit", "b_admit", "s_running", "running"}
  /\ Return(l)
  /\ UNCHANGED <<disk, alive>>

\* NewDirectory(after-user) of Poll failed.
PollFail(l) ==
  /\ pc[l] = "running"
  /\ <<prof[l], sid[l]>> \notin alive
  /\ Return(l)
  /\ UNCHANGED <<disk, alive>>

\* The launcher process dies; the system closes its handles, the job handle
\* among them, but the title dies only some time later (JobKill).
Crash(l) ==
  /\ pc[l] \in Busy
  /\ Goto(l, "down")
  /\ Release(l)
  /\ Forget(l)
  /\ UNCHANGED <<disk, alive>>

Restart(l) ==
  /\ pc[l] = "down"
  /\ Goto(l, "idle")
  /\ UNCHANGED <<disk, lock, alive, prof, sid, snap, dest>>

Owned(g) == \E l \in Launchers : /\ pc[l] \in {"s_running", "running"}
                                 /\ <<prof[l], sid[l]>> = g

\* JOB_OBJECT_LIMIT_KILL_ON_JOB_CLOSE
JobKill(g) ==
  /\ g \in alive
  /\ ~Owned(g)
  /\ alive' = alive \ {g}
  /\ UNCHANGED <<disk, lock, pc, prof, sid, snap, dest>>

GameExit(g) ==
  /\ g \in alive
  /\ Owned(g)
  /\ alive' = alive \ {g}
  /\ UNCHANGED <<disk, lock, pc, prof, sid, snap, dest>>

GameWrite(g) ==
  /\ g \in alive
  /\ ver < MaxVersion
  /\ ver' = ver + 1
  /\ user' = [user EXCEPT ![g[1]] = ver + 1]
  /\ UNCHANGED <<marker, origin, sess, arch, pending, lock, alive, pc, prof, sid, snap, dest>>

-----------------------------------------------------------------------------
Start(l) == \/ \E p \in Profiles : StartLock(l, p)
            \/ StartAdmit(l) \/ StartRefuse(l) \/ StartNewDirectory(l)
            \/ StartPrepared(l) \/ StartCopy(l) \/ StartReceipt(l)
            \/ StartLaunching(l) \/ StartSpawn(l) \/ StartRunning(l)
Poll(l) == PollCopy(l) \/ PollReceipt(l) \/ PollComplete(l) \/ PollFail(l)
RenameName(l) == \/ \E p \in Profiles : RenameLock(l, p)
                 \/ RenameAdmit(l) \/ RenameReturn(l) \/ RenameNewDirectory(l)
                 \/ RenameCopy(l) \/ RenameReceipt(l) \/ RenamePending(l)
                 \/ RenameWrite(l) \/ RenameCopyAfter(l) \/ RenameReceiptAfter(l)
                 \/ RenameComplete(l)
Branch(l) == \/ \E p \in Profiles : BranchLock(l, p)
             \/ \E q \in Profiles : DuplicateBegin(l, q) \/ RestoreBegin(l, q)
             \/ BranchRefuse(l) \/ DuplicateMarker(l) \/ DuplicateCopy(l)
             \/ DuplicateFill(l) \/ RestoreMarker(l) \/ RestoreFill(l)
             \/ BranchPublish(l)
CreateProfile(l) == (\E q \in Profiles : CreateBegin(l, q)) \/ CreatePublish(l)
Launcher(l) == Start(l) \/ Poll(l) \/ RenameName(l) \/ Branch(l) \/ CreateProfile(l)
Environment == \/ \E l \in Launchers : Fail(l) \/ Crash(l) \/ Restart(l)
               \/ \E g \in Profiles \X Ids : JobKill(g) \/ GameExit(g) \/ GameWrite(g)

Next == (\E l \in Launchers : Launcher(l)) \/ Environment
Spec == Init /\ [][Next]_vars

\* An operation runs to its return without waiting for the user, and the
\* window timer (or the hidden owner's loop) polls a session for ever: neither
\* the start of an operation nor the exit of the title is fair.
Proceeds(l) == \/ Start(l) /\ pc[l] # "idle"
               \/ Poll(l)
               \/ RenameName(l) /\ pc[l] # "idle"
               \/ Branch(l) /\ pc[l] # "idle"
               \/ CreatePublish(l)
               \/ Fail(l)
FairSpec == /\ Spec
            /\ \A l \in Launchers : WF_vars(Proceeds(l))
            /\ \A g \in Profiles \X Ids : WF_vars(JobKill(g))

-----------------------------------------------------------------------------
(* Properties *)

Record == [state : SessionStates \cup {"open"}, before : MaybeContent, after : MaybeContent]

\* Types of the files and of the launchers' registers.
TypeOK ==
  /\ marker \in [Profiles -> {"absent", "started", "import", "managed"}]
  /\ origin \in [Profiles -> MaybeContent]
  /\ lock \in [Profiles -> Launchers \cup {None}]
  /\ user \in [Profiles -> Content]
  /\ sess \in [Profiles -> [Ids -> Record]]
  /\ arch \in [Profiles -> [Ids -> Record]]
  /\ pending \in [Profiles -> BOOLEAN]
  /\ alive \subseteq Profiles \X Ids
  /\ pc \in [Launchers -> Steps]
  /\ prof \in [Launchers -> Profiles \cup {None}]
  /\ sid \in [Launchers -> Ids \cup {None}]
  /\ snap \in [Launchers -> MaybeContent]
  /\ dest \in [Launchers -> Profiles \cup {None}]
  /\ ver \in 0 .. MaxVersion

\* Steps between which the code relies on the live tree of the profile it
\* locked: it reads it, writes it, or has read it and not yet written the
\* receipt of what it read.
TreeSteps == {"s_dir", "s_prepared", "s_copy", "s_receipt", "s_launching", "s_spawn",
              "p_receipt", "p_complete",
              "r_dir", "r_copy", "r_receipt", "r_pending", "r_write", "r_copy2",
              "r_receipt2", "r_complete", "b_marker", "b_copy", "b_fill"}

\* No launcher works on the live tree of a profile while a title runs on it,
\* not even when the title's own launcher died, its lock is free again and the
\* job has not yet been killed (the unfinished session record stands in).
LiveTreeExclusive ==
  \A l \in Launchers : pc[l] \in TreeSteps =>
    \A i \in Ids : <<prof[l], i>> \notin alive

\* Two titles never run on the same profile.
OneTitlePerProfile ==
  \A p \in Profiles : \A i, j \in Ids :
    <<p, i>> \in alive /\ <<p, j>> \in alive => i = j

\* A profile a launch would admit holds a save that some receipt (or its own
\* publication) accounts for: nothing a title or a rename wrote is adopted as
\* the starting point of the next launch without having been archived.
SettledSaveIsArchived ==
  \A p \in Profiles : lock[p] = None /\ StartAdmits(p) =>
    \/ user[p] = origin[p]
    \/ \E i \in Ids : user[p] \in {sess[p][i].after, arch[p][i].after}

\* The session and backup folders never outgrow the bound under which their
\* history can still be inspected.
HistoryBounded ==
  \A p \in Profiles : /\ Cardinality(SessionsOf(p)) <= MaxEntries
                       /\ Cardinality(ArchivesOf(p)) <= MaxEntries

\* A branch starts with a save another profile was published with or archived:
\* never with one in the middle of a rename or of a session.
BranchStartsFromArchivedSave ==
  \A q \in Profiles : marker[q] = "managed" =>
    \/ origin[q] = 0
    \/ \E p \in Profiles \ {q} : origin[q] \in {origin[p]} \cup RestorableContents(p)

\* A title is resumed only on the very tree that its before receipt describes,
\* and that recovery evidence is written once: no receipt is replaced or lost,
\* whatever fails, dies or is started again.
ReceiptsHold ==
  [][\A p \in Profiles : \A i \in Ids :
       /\ <<p, i>> \in alive' \ alive => sess[p][i].before = user[p]
       /\ sess[p][i].before # None => sess'[p][i].before = sess[p][i].before
       /\ sess[p][i].after # None => sess'[p][i].after = sess[p][i].after
       /\ arch[p][i].before # None => arch'[p][i].before = arch[p][i].before
       /\ arch[p][i].after # None => arch'[p][i].after = arch[p][i].after]_vars

\* A lock is given back: once no title runs on a profile, whoever holds its
\* lock releases it or starts a title under it.
LockIsGivenBack ==
  \A p \in Profiles : \A l \in Launchers :
    lock[p] = l /\ (\A i \in Ids : <<p, i>> \notin alive)
      ~> lock[p] # l \/ \E i \in Ids : <<p, i>> \in alive
=============================================================================
