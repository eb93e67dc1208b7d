--------------------------- MODULE PortableLauncher ---------------------------
(***************************************************************************)
(* The launcher of the portable bundle (mcla_portable_launcher_win.cpp):   *)
(* one writable folder that is carried between machines, guarded by        *)
(* bundle.lock, in which every run of the title is a session directory.    *)
(*                                                                         *)
(* A session is staged as results/session-*.partial, holds snapshots of    *)
(* the save taken before, during and after the run, and loses its suffix   *)
(* when it has a result.  Launcher and title may be ended at any point; a  *)
(* later launch takes the stale lock and closes the interrupted session.   *)
(*                                                                         *)
(* The save is a pair of files <<mc4.sav, its header>>, each a number for  *)
(* its content, 0 for absent; every write of the title gives new content.  *)
(* Launches are numbered; a launch makes at most one directory, named      *)
(* after the time and the process and so never named twice.                *)
(***************************************************************************)
EXTENDS Integers, Sequences, FiniteSets

CONSTANTS
  PLaunchers,         \* launcher processes that may run at the same time
  SnapshotsKept,      \* kMaximumSnapshotsPerSession
  RecordsKept,        \* kMaximumCompletedSessions
  MaxLaunches,        \* bound: launches
  MaxSaveWrites       \* bound: files the title writes

ASSUME PortableBounds ==
  /\ {SnapshotsKept, RecordsKept} \subseteq Nat \ {0}
  /\ {MaxLaunches, MaxSaveWrites} \subseteq Nat

VARIABLES
  bundleLock,   \* bundle.lock: the file exists, launchers with a handle on it
  pLauncher,    \* [PLaunchers -> where wmain is, and its locals]
  results,      \* [launch number -> the directory it made below results]
  userSave,     \* the save in user/
  profileName,  \* local-display-name.txt, and whether its .partial is there
  hosts,        \* [launch number -> its title process]
  launches,     \* launches so far
  writes,       \* files the title wrote so far
  heldSaves,    \* history: pairs the save has been
  strays        \* history: "loose": a title has outlived its launcher;
                \* "dying": one has written while its job was ending it

portableVars == <<bundleLock, pLauncher, results, userSave, profileName, hosts,
                  launches, writes, heldSaves, strays>>

Launches == 1..MaxLaunches
NoSave == <<0, 0>>
HasBoth(pair) == pair[1] # 0 /\ pair[2] # 0

\* staging: saves/<hash>.partial; ran: the title was started in it (history).
NoRecord == [kind |-> "none", open |-> FALSE, manifest |-> FALSE, saves |-> <<>>,
             staging |-> NoSave, state |-> "none", final |-> NoSave,
             count |-> 0, warned |-> FALSE, ran |-> FALSE]
Outside == [at |-> "out", mode |-> "play", n |-> 0, target |-> 0, reason |-> "start",
            before |-> NoSave, last |-> NoSave, count |-> 0, warned |-> FALSE]

PortableInit ==
  /\ bundleLock = [exists |-> FALSE, holders |-> {}]
  /\ pLauncher = [l \in PLaunchers |-> Outside]
  /\ results = [n \in Launches |-> NoRecord]
  /\ userSave \in {NoSave, <<1, 1>>}
  /\ profileName = [name |-> "User", staged |-> FALSE]
  /\ hosts = [n \in Launches |-> "none"]
  /\ launches = 0 /\ writes = 0
  /\ heldSaves = {userSave} /\ strays = {}

-----------------------------------------------------------------------------
At(l, step) == pLauncher[l].at = step
Locals(l, fields) == pLauncher' = [pLauncher EXCEPT ![l] = fields]
GoesTo(l, step) == Locals(l, [pLauncher[l] EXCEPT !.at = step])

\* Leaving wmain from inside the lock: Fail, an error return or the end.
Quits(l) == Locals(l, [Outside EXCEPT !.at = "leave", !.n = pLauncher[l].n])

DiskSame == UNCHANGED <<userSave, profileName, hosts, launches, writes,
                        heldSaves, strays>>
LockSame == UNCHANGED bundleLock

-----------------------------------------------------------------------------
(* The command line, and bundle.lock.                                      *)

\* Modes are exclusive; adapter verification ends before anything is touched.
LaunchMode(options) ==
  CASE options \cap {"verify", "probe"} = {"verify", "probe"} -> "refused"
    [] "name" \in options /\ options # {"name"}                -> "refused"
    [] options = {"name"}                                      -> "rename"
    [] options = {"verify"}                                    -> "verify"
    [] options \in {{}, {"probe"}}                             -> "play"

\* Mutant: the file is opened so that it can be deleted while it is in use.
DeletableAlways == bundleLock.exists

\* The handle shares nothing: a lock file that is in use cannot be deleted.
Deletable == bundleLock.exists /\ bundleLock.holders = {}

\* CREATE_NEW: the lock is taken, or somebody's file is there.
Creates(l, fields, otherwise) ==
  \/ /\ ~bundleLock.exists
     /\ bundleLock' = [exists |-> TRUE, holders |-> bundleLock.holders \cup {l}]
     /\ Locals(l, [fields EXCEPT !.at = "validate"])
  \/ bundleLock.exists /\ Locals(l, otherwise) /\ LockSame

\* A launcher starts and tries to create the lock file ...
Launch(l) ==
  /\ At(l, "out") /\ launches < MaxLaunches
  /\ launches' = launches + 1
  /\ \E options \in SUBSET {"verify", "probe", "name"} :
       LET fields == [Outside EXCEPT !.n = launches', !.mode = LaunchMode(options)]
       IN /\ fields.mode # "refused"
          /\ Creates(l, fields, [fields EXCEPT !.at = "delete"])
  /\ UNCHANGED <<results, userSave, profileName, hosts, writes, heldSaves, strays>>

\* ... deletes the one that is there, unless somebody holds it, and tries once
\* more.
AcquireLock(l) ==
  /\ \/ At(l, "delete") /\ Deletable /\ GoesTo(l, "again")
          /\ bundleLock' = [bundleLock EXCEPT !.exists = FALSE]
     \/ At(l, "delete") /\ ~Deletable /\ Locals(l, Outside) /\ LockSame
     \/ At(l, "again") /\ Creates(l, pLauncher[l], Outside)
  /\ UNCHANGED results /\ DiskSame

\* What happens to the title of launch n when its launcher's handles close:
\* Windows starts to end a title in the job and waits for nothing, another
\* title goes on.
ClosesJob(n) ==
  /\ hosts' = [m \in Launches |-> IF m = n /\ hosts[m] = "contained" THEN "dying" ELSE hosts[m]]
  /\ strays' = IF n \in Launches /\ hosts[n] = "loose" THEN strays \cup {"loose"} ELSE strays

\* wmain returns: the job, then the lock's handle, ...
Leave(l) ==
  /\ At(l, "leave")
  /\ ClosesJob(pLauncher[l].n)
  /\ bundleLock' = [bundleLock EXCEPT !.holders = @ \ {l}]
  /\ Locals(l, [Outside EXCEPT !.at = "remove"])
  /\ UNCHANGED <<results, userSave, profileName, launches, writes, heldSaves>>

\* ... then the lock file, unless another launcher has it by now.
RemoveLock(l) ==
  /\ At(l, "remove")
  /\ bundleLock' = [bundleLock EXCEPT !.exists = @ /\ bundleLock.holders # {}]
  /\ Locals(l, Outside)
  /\ UNCHANGED results /\ DiskSame

\* Steam Stop or a power cut: every handle of the launcher is closed.
LauncherKilled(l) ==
  /\ ~At(l, "out")
  /\ ClosesJob(pLauncher[l].n)
  /\ bundleLock' = [bundleLock EXCEPT !.holders = @ \ {l}]
  /\ Locals(l, Outside)
  /\ UNCHANGED <<results, userSave, profileName, launches, writes, heldSaves>>

-----------------------------------------------------------------------------
(* What has to hold of the folder before it is used.                       *)

OpenSessions == {n \in Launches : results[n].kind = "session" /\ results[n].open}

\* Directories whose name has the prefix session- or profile-rename-.
Records == {n \in Launches : results[n].kind # "none"}

\* ".partial" entries other than of an interrupted session are not allowed.
TreeIsValid(allowPartials) ==
  /\ ~profileName.staged
  /\ \A n \in Launches :
       /\ results[n].kind = "rename" => ~results[n].open
       /\ results[n].open => allowPartials
       /\ results[n].staging # NoSave => results[n].open

\* A file of the bundle is missing, not listed or changed.
ManifestRefuses(l) == Quits(l)

\* The configuration overrides a choice of the launcher.
ConfigRefuses(l) == Quits(l)

\* ValidateTree, the hashes of the immutable files, the configuration and the
\* stored name (or the lock could not be filled in).
Validate(l) ==
  /\ At(l, "validate")
  /\ \/ ~TreeIsValid(pLauncher[l].mode = "play") /\ Quits(l)
     \/ ManifestRefuses(l)
     \/ ConfigRefuses(l)
     \/ /\ TreeIsValid(pLauncher[l].mode = "play")
        /\ \/ pLauncher[l].mode = "verify" /\ Quits(l)
           \/ pLauncher[l].mode = "play" /\ GoesTo(l, "recover")
           \/ pLauncher[l].mode = "rename" /\ GoesTo(l, "rename")
  /\ UNCHANGED results /\ LockSame /\ DiskSame

HasHistoryCapacity == Cardinality(Records) < RecordsKept

-----------------------------------------------------------------------------
(* CaptureSave, a snapshot of the save into the session "target".          *)

SnapshotStarts(l, reason, target, last) ==
  Locals(l, [pLauncher[l] EXCEPT !.at = "readSave", !.reason = reason,
                                 !.target = target, !.last = last])

\* Mutant: the session of a title that has run is thrown away as well.
DiscardsAfter(reason) == reason \in {"start", "exit"}

\* Without its first snapshot the session is removed again.
Discards(reason) == reason = "start"

\* remove_all of a staged session; errors are ignored, and what cannot be
\* removed stays, whole or without its session.json.
Removed(record) == {NoRecord, record, [record EXCEPT !.manifest = FALSE]}

\* remove_all of saves/<hash>.partial, errors ignored.
Unstaged(record) == {record, [record EXCEPT !.staging = NoSave]}

\* CaptureSave returns to its caller with the fields it leaves behind.
SnapshotReturns(l, ok, fields, record) ==
  LET p == pLauncher[l]
      next == CASE p.reason = "recover" -> IF ok THEN "interrupted" ELSE "leave"
                [] p.reason = "start"   -> IF ok THEN "spawn" ELSE "leave"
                [] p.reason = "watch"   -> "watch"
                [] p.reason = "exit"    -> "result"
  IN /\ IF next = "leave" THEN Quits(l)
        ELSE Locals(l, [fields EXCEPT !.at = next, !.before = NoSave, !.reason = "start",
                          !.warned = @ \/ (~ok /\ p.reason \in {"watch", "exit"})])
     /\ \E kept \in (IF ~ok /\ Discards(p.reason) THEN Removed(record) ELSE {record}) :
          results' = [results EXCEPT ![p.target] = kept]

SnapshotPublished(record, save) ==
  \E i \in DOMAIN record.saves : record.saves[i][1] = save

\* ReadSaveState reads one file after the other.
ReadSave(l) ==
  /\ At(l, "readSave")
  /\ Locals(l, [pLauncher[l] EXCEPT !.at = "readHeader", !.before = <<userSave[1], 0>>])
  /\ UNCHANGED results /\ LockSame /\ DiskSame

\* Nothing to do without a save, with the save of the last time, or with one
\* whose directory is there: it is named after mc4.sav alone.
ReadHeader(l) ==
  /\ At(l, "readHeader")
  /\ LET p == pLauncher[l]
         r == results[p.target]
         before == <<p.before[1], userSave[2]>> IN
     \/ /\ ~HasBoth(before) \/ before = p.last
        /\ SnapshotReturns(l, TRUE, p, r)
     \/ /\ HasBoth(before) /\ before # p.last /\ SnapshotPublished(r, before[1])
        /\ SnapshotReturns(l, TRUE, [p EXCEPT !.last = before], r)
     \/ /\ HasBoth(before) /\ before # p.last /\ ~SnapshotPublished(r, before[1])
        /\ \/ SnapshotReturns(l, FALSE, p, r)   \* no directory
           \/ /\ Locals(l, [p EXCEPT !.at = "copySave", !.before = before])
              /\ UNCHANGED results
  /\ LockSame /\ DiskSame

\* CopyProfileTree, file by file; a failure removes the copy.
CopySave(l) ==
  /\ At(l, "copySave")
  /\ LET p == pLauncher[l]
         r == results[p.target] IN
     \/ \E kept \in Unstaged([r EXCEPT !.staging = <<userSave[1], 0>>]) :
          SnapshotReturns(l, FALSE, p, kept)
     \/ /\ results' = [results EXCEPT ![p.target].staging = <<userSave[1], 0>>]
        /\ GoesTo(l, "copyHeader")
  /\ LockSame /\ DiskSame

CopyHeader(l) ==
  /\ At(l, "copyHeader")
  /\ results' = [results EXCEPT ![pLauncher[l].target].staging[2] = userSave[2]]
  /\ GoesTo(l, "afterSave")
  /\ LockSame /\ DiskSame

\* Mutant: the save is not read again after the copy.
SameBefore(p, r, file) == r.staging[1] = p.before[1]

\* One file of the save is as it was before the copy, and so is its copy.
SameAfter(p, r, file) ==
  p.before[file] = userSave[file] /\ p.before[file] = r.staging[file]

\* Both files are read again; a save that has changed is left for next time.
CompareAfter(l) ==
  /\ At(l, "afterSave") \/ At(l, "afterHeader")
  /\ LET p == pLauncher[l]
         r == results[p.target]
         file == IF p.at = "afterSave" THEN 1 ELSE 2 IN
     \/ /\ SameAfter(p, r, file)
        /\ GoesTo(l, IF file = 1 THEN "afterHeader" ELSE "publish")
        /\ UNCHANGED results
     \/ /\ ~SameAfter(p, r, file)
        /\ \E kept \in Unstaged(r) : SnapshotReturns(l, TRUE, p, kept)
  /\ LockSame /\ DiskSame

\* PruneDirectories: the newest ones stay.
KeepsNewest(saves) ==
  SubSeq(saves, 1, IF Len(saves) < SnapshotsKept THEN Len(saves) ELSE SnapshotsKept)

\* snapshot.json, then the rename; a rename that fails leaves the .partial.
Publish(l) ==
  /\ At(l, "publish")
  /\ LET p == pLauncher[l]
         r == results[p.target]
         clean == [r EXCEPT !.staging = NoSave] IN
     \/ \E kept \in Unstaged(r) : SnapshotReturns(l, FALSE, p, kept)
     \/ SnapshotReturns(l, TRUE, [p EXCEPT !.last = r.staging, !.count = @ + 1],
                        [clean EXCEPT !.saves = KeepsNewest(<<r.staging>> \o @)])
  /\ LockSame /\ DiskSame

CaptureSaveSteps(l) ==
  ReadSave(l) \/ ReadHeader(l) \/ CopySave(l) \/ CopyHeader(l)
    \/ CompareAfter(l) \/ Publish(l)

-----------------------------------------------------------------------------
(* RecoverInterruptedSessions.                                             *)

\* Its session.json is there and names this bundle, this session and "running".
Identified(record) == record.manifest

\* RemoveInterruptedTemporaryState.
Cleaned(record) == [record EXCEPT !.staging = NoSave]

CompletedSnapshots(record) == Len(record.saves)

\* The first staged session (by name) that is left; what is not identified
\* ends the launch.
Recover(l) ==
  /\ At(l, "recover")
  /\ \/ /\ OpenSessions = {}
        /\ GoesTo(l, "capacity") /\ UNCHANGED results
     \/ OpenSessions # {} /\ Quits(l) /\ UNCHANGED results
     \/ \E n \in OpenSessions :
          /\ \A m \in OpenSessions : n <= m
          /\ Identified(results[n])
          /\ results' = [results EXCEPT ![n] = Cleaned(results[n])]
          /\ Locals(l, [pLauncher[l] EXCEPT
                 !.at = "readSave", !.reason = "recover", !.target = n,
                 !.last = NoSave, !.count = CompletedSnapshots(results[n])])
  /\ LockSame /\ DiskSame

\* The result, then the rename; each may fail.
Ends(l, state, next) ==
  LET p == pLauncher[l]
      r == [results[p.target] EXCEPT !.state = state, !.count = p.count,
              !.final = IF HasBoth(userSave) THEN userSave ELSE NoSave,
              !.warned = p.warned]
  IN \/ Quits(l) /\ UNCHANGED results
     \/ Quits(l) /\ results' = [results EXCEPT ![p.target] = r]
     \/ /\ results' = [results EXCEPT ![p.target] = [r EXCEPT !.open = FALSE]]
        /\ Locals(l, [Outside EXCEPT !.at = next, !.n = p.n])

Interrupted(l) ==
  /\ At(l, "interrupted")
  /\ Ends(l, "interrupted", "recover")
  /\ LockSame /\ DiskSame

-----------------------------------------------------------------------------
(* The session of this launch.                                             *)

\* The tree is validated once more, without exceptions, and the number of
\* directories is bounded; then the staging directory ...
StageSession(l) ==
  /\ At(l, "capacity")
  /\ \/ Quits(l) /\ UNCHANGED results
     \/ /\ TreeIsValid(FALSE) /\ HasHistoryCapacity
        /\ results' = [results EXCEPT ![pLauncher[l].n] =
                         [NoRecord EXCEPT !.kind = "session", !.open = TRUE]]
        /\ GoesTo(l, "manifest")
  /\ LockSame /\ DiskSame

\* ... and its session.json; a failure leaves the directory behind.
WriteManifest(l) ==
  /\ At(l, "manifest")
  /\ \/ Quits(l) /\ UNCHANGED results
     \/ /\ results' = [results EXCEPT ![pLauncher[l].n].manifest = TRUE]
        /\ SnapshotStarts(l, "start", pLauncher[l].n, NoSave)
  /\ LockSame /\ DiskSame

\* CreateProcess; without a title the session is removed again.
Spawn(l) ==
  /\ At(l, "spawn")
  /\ LET n == pLauncher[l].n IN
     \/ /\ hosts' = [hosts EXCEPT ![n] = "loose"]
        /\ results' = [results EXCEPT ![n].ran = TRUE]
        /\ GoesTo(l, "job")
     \/ /\ \E kept \in Removed(results[n]) : results' = [results EXCEPT ![n] = kept]
        /\ Quits(l) /\ UNCHANGED hosts
  /\ LockSame
  /\ UNCHANGED <<userSave, profileName, launches, writes, heldSaves, strays>>

\* The title is put into a job that ends it with the launcher; where there are
\* no jobs it stays outside.
Contain(l) ==
  /\ At(l, "job")
  /\ hosts' = [hosts EXCEPT ![pLauncher[l].n] =
                 IF @ = "loose" THEN "contained" ELSE @] \/ UNCHANGED hosts
  /\ GoesTo(l, "watch")
  /\ LockSame
  /\ UNCHANGED <<results, userSave, profileName, launches, writes, heldSaves, strays>>

\* Every fifteen seconds the save is looked at; the wait itself may fail.
Watch(l) ==
  /\ At(l, "watch")
  /\ LET p == pLauncher[l] IN
     \/ hosts[p.n] # "none" /\ SnapshotStarts(l, "watch", p.n, p.last)
     \/ hosts[p.n] = "none" /\ SnapshotStarts(l, "exit", p.n, p.last)
     \/ Quits(l)
  /\ UNCHANGED results /\ LockSame /\ DiskSame

Finish(l) ==
  /\ At(l, "result")
  /\ Ends(l, "complete", "leave")
  /\ LockSame /\ DiskSame

-----------------------------------------------------------------------------
(* RenameProfileWithReceipt: the name changes between two whole copies of  *)
(* the profile; whatever fails, the journal stays for a person to look at. *)

\* The inventory of the profile is the one taken before.
ProfileUnchanged(l) == pLauncher[l].before = userSave

RenameBegin(l) ==
  /\ At(l, "rename")
  /\ \/ Quits(l) /\ UNCHANGED results
     \/ /\ HasHistoryCapacity /\ HasBoth(userSave)
        /\ results' = [results EXCEPT ![pLauncher[l].n] =
                         [NoRecord EXCEPT !.kind = "rename", !.open = TRUE]]
        /\ Locals(l, [pLauncher[l] EXCEPT !.at = "journal", !.before = userSave])
  /\ LockSame /\ DiskSame

RenameSame ==
  UNCHANGED <<userSave, hosts, launches, writes, heldSaves, strays>> /\ LockSame

\* The copy before, and the new name under a temporary name ...
RenameStage(l) ==
  /\ At(l, "journal")
  /\ \/ Quits(l) /\ UNCHANGED profileName
     \/ /\ ProfileUnchanged(l)
        /\ profileName' = [profileName EXCEPT !.staged = TRUE]
        /\ GoesTo(l, "name")
  /\ UNCHANGED results /\ RenameSame

\* ... is moved over the old one.
RenameMove(l) ==
  /\ At(l, "name")
  /\ \/ Quits(l) /\ UNCHANGED profileName
     \/ /\ \E name \in {"User", "Renamed"} \ {profileName.name} :
             profileName' = [name |-> name, staged |-> FALSE]
        /\ GoesTo(l, "receipt")
  /\ UNCHANGED results /\ RenameSame

\* Nothing but the name may have changed; the copy after, the receipt, the
\* rename of the journal.
RenameCloses(l) ==
  /\ At(l, "receipt")
  /\ Quits(l)
  /\ \/ UNCHANGED results
     \/ /\ ProfileUnchanged(l)
        /\ results' = [results EXCEPT ![pLauncher[l].n] =
             [@ EXCEPT !.open = FALSE, !.state = "renamed", !.final = userSave]]
  /\ LockSame /\ DiskSame

-----------------------------------------------------------------------------
(* The title (external): it writes a file of the save, or ends; one that   *)
(* its job is ending may still write before it is gone.                    *)

TitleWrites ==
  /\ \E n \in Launches :
       /\ hosts[n] # "none"
       /\ strays' = IF hosts[n] = "dying" THEN strays \cup {"dying"} ELSE strays
  /\ writes < MaxSaveWrites /\ writes' = writes + 1
  /\ \E file \in {1, 2} : userSave' = [userSave EXCEPT ![file] = writes + 2]
  /\ heldSaves' = heldSaves \cup {userSave'}
  /\ LockSame
  /\ UNCHANGED <<pLauncher, results, profileName, hosts, launches>>

TitleEnds(n) ==
  /\ hosts[n] # "none"
  /\ hosts' = [hosts EXCEPT ![n] = "none"]
  /\ LockSame
  /\ UNCHANGED <<pLauncher, results, userSave, profileName, launches, writes,
                 heldSaves, strays>>

PortableStep(l) ==
  \/ Launch(l) \/ AcquireLock(l) \/ Leave(l) \/ RemoveLock(l) \/ LauncherKilled(l)
  \/ Validate(l) \/ CaptureSaveSteps(l) \/ Recover(l) \/ Interrupted(l)
  \/ StageSession(l) \/ WriteManifest(l) \/ Spawn(l) \/ Contain(l) \/ Watch(l)
  \/ Finish(l)
  \/ RenameBegin(l) \/ RenameStage(l) \/ RenameMove(l) \/ RenameCloses(l)

PortableNext ==
  \/ \E l \in PLaunchers : PortableStep(l)
  \/ TitleWrites
  \/ \E n \in Launches : TitleEnds(n)

PortableSpec == PortableInit /\ [][PortableNext]_portableVars

-----------------------------------------------------------------------------
\* A title that runs and that nothing is ending.
Running == {n \in Launches : hosts[n] \in {"loose", "contained"}}

\* One host runs the writable bundle, also when launchers are ended at any
\* point and the next one takes their lock over: at most one launcher is inside
\* the lock, at most one session is open, at most one title runs unless one
\* outlived its launcher before it was in the job, and the history never
\* outgrows its limit.  A title that its job is ending does not count: the lock
\* file is free before it is gone, so the title of the next launch may start
\* beside it.
BundleHasOneWriter ==
  /\ Cardinality(bundleLock.holders) <= 1
  /\ Cardinality(OpenSessions) <= 1
  /\ "loose" \notin strays => Cardinality(Running) <= 1
  /\ Cardinality(Records) <= RecordsKept

\* A session tells how mc4.sav was left.  Each snapshot is a state the save has
\* been in.  A session in which the title ran can be recovered, however it was
\* cut off.  A closed one has a result, and with no error of the save watcher
\* (and no title that outlived its launcher or wrote while it was ended) the
\* mc4.sav it ended with is among its snapshots.  The header beside that
\* mc4.sav may be an older one: see FinalSaveIsRetained.
SessionTellsTheEnd ==
  \A n \in Launches : LET r == results[n] IN
    r.kind = "session" =>
      /\ \A i \in DOMAIN r.saves : r.saves[i] \in heldSaves
      /\ r.ran => r.manifest
      /\ ~r.open =>
           /\ r.manifest /\ r.state \in {"complete", "interrupted"}
           /\ ~r.warned /\ strays = {} /\ HasBoth(r.final) => SnapshotPublished(r, r.final[1])

\* Provenance is kept: what is published in the history is never changed or
\* removed, and a session in which the title ran is never thrown away.
HistoryIsKept ==
  [][\A n \in Launches :
       LET old == results[n]
           new == results'[n]
       IN /\ old.kind # "none" /\ ~old.open => new = old
          /\ old.ran => new.ran]_portableVars

\* The save a finished session ended with, both files of it, is one of its
\* snapshots: the builder refuses a returned session that "lacks one retained
\* full-profile start and final snapshot".
FinalSaveIsRetained ==
  \A n \in Launches : LET r == results[n] IN
    r.kind = "session" /\ ~r.open /\ ~r.warned /\ strays = {} /\ HasBoth(r.final) =>
      \E i \in DOMAIN r.saves : r.saves[i] = r.final

\* The snapshots a finished session counts are the ones it has: the builder
\* refuses a returned session when "$snapshots.Count -ne
\* $result.save_snapshot_count".
CountIsWhatIsKept ==
  \A n \in Launches :
    results[n].kind = "session" /\ ~results[n].open =>
      results[n].count = Len(results[n].saves)
=============================================================================
