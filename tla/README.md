# Verification of MCLA-R

MCLA-R is a native host for a recompiled title, with a Windows launcher that
manages save profiles and a diagnostics subsystem that produces packages while
the title runs and when it crashes. The title itself is generated code on top of
the rexglue SDK; the program's own logic is the host (`src/src/mcla_*.cpp`), the
launcher (`src/src/mcla_launcher_*`) and two helper processes. This directory
holds TLA+ models of the parts in which several threads or processes, crashes
and failures meet, what TLC checks of them, and what TLAPS proves.

Paths below are relative to the repository; file names without a directory are
in its `src/` directory.

## 1. Inventory

`components` in PROJECT.json lists every part with its files and status. In
short:

| Part | State | Operations | Interacts with | Hard behaviour |
|---|---|---|---|---|
| Managed save profiles (`mcla_launcher_controller_win.cpp`) | profile folder: marker, writer lock, `user` tree, session records, rename archives, `pending-operation.dat` | Start, Poll, rename, duplicate, restore, create | other launchers (files only), the title (a job object) | a launcher dies between any two writes; its lock is free before its title is dead |
| Preference store (`mcla_launcher_store_win.cpp`) | `preferences.dat`, backup, lock, temporary files | open, save | other launchers, foreign edits | preflight without lock, compare-then-write, crash inside an atomic write |
| Diagnostic triggers (`mcla_diagnostic_trigger.h`, `..._triggers_sdl.cpp`) | pressed buttons per device, armed combo, deadline | button events, removal, poll, timer, stop | SDL event threads, UI thread, timer thread, snapshot manager | closures that run late, timer racing a new hold, join from the UI thread |
| Snapshot manager (`mcla_diagnostics.cpp`) | atomics of the request, packages on disk, latest pointer | RequestSnapshot, WaitForIdle, worker, Stop | application, GPU read-back helper, crash helper, save copy | wedged read-back, hard exit at any step, pruning |
| Save copy (`mcla_save_copy_guard.h`, `mcla_diagnostics.cpp`) | gate input, copy statistics | gate poll, file copy | title's content transactions | copying files that are being rewritten |
| Crash reporting (`mcla_native_crash_win.cpp`, `mcla_crash_handler_win.cpp`) | shared mapping and events | WriteLiveMiniDump, RequestCrash, helper loop, Stop | the snapshot manager, every thread of the title | late answers, several crashing threads, process ends under the dump |
| Build lease (`mcla_build_lease_*`) | signed ticket, cached record, context of the download | CheckBuildLease, FetchPublicLeases | launcher and host share one cache; WinHTTP threads | two clock readings around a download, records overtaken, late callbacks |
| Launcher window and dispatch (`mcla_launcher_ui_win.cpp`, `mcla_launcher_controller_win.*`) | form, generation, readiness, running check, open dialog | edit, check, poll, save, select, play, close | check worker, dialogs, controller | a check made for one form and polled after another |
| Portable launcher (`mcla_portable_launcher_win.cpp`) | `bundle.lock`, session directories with save snapshots, results | start, watch, close, recover, prune | title, other launchers | killed at any point; stale lock; saves copied while written |
| Image helper (`mcla_diagnostic_image_*`) | shared mapping, job | CaptureOwnedWindow, the helper's steps | snapshot manager, the desktop | timeout racing an exit, window that moves |
| Metadata export (`mcla_diagnostic_export_*`) | dialog, plan with its lock, two files | prepare, confirm, cancel, close | window, profile lock | messages dispatched inside callbacks |
| Semaphore observer (`mcla_semaphore_*`) | registry, selected semaphore, journal | begin, end, scopes, freeze | guest threads | a cut between admission and mutex |
| Timer observer (`mcla_timer_observer_core.h`) | reserved rows | invoke, disarm, copy | guest threads, poller | rows still reserved at the copy |
| Frame cores (`mcla_frame_context_core.h`, `..._swap_emission_core.h`, `..._worker_iteration_core.h`) | open iteration, scopes, tokens | one per event | guest threads | events that do not fit |
| Race audit, probe scripts, life cycle (`mcla_app.cpp`) | description table; script position and pad; services and deferred closures | hooks; inputs, waits, captures, stop; SDK hooks, close, shutdown | guest, UI and worker threads, operator | reuse of rows, stops inside waits, order of shutdown |
| Menu cap, photo capture (`mcla_menu_state.*`, `mcla_photo_capture.*`) | borrowed settings | hooks, tick, shutdown | settings registry, user | edit between query and write |
| Cursor autohide, autostart, owner-ready gate | small machines | one per event | SDL, UI and guest threads | order of callbacks |
| Texture budget (`mcla_texture_budget_win.cpp`) | two cache limits, monitor thread, marks | apply, mark, step, stop | texture cache, UI thread | marks and stop against the loop |
| Native reference counts (`mcla_native_refcount.h`) | one guest word per resource | AddRef, Release | guest threads | update without a lock, parent rule |
| Guest probes, census readers, records, formatting, generated code, SDK, scripts, tests | - | - | - | not modelled, section 8 |

What makes them correct, in words: a save is never used by two writers and never
adopted without an archived copy, in a profile as in a portable bundle; a durable
document changes only by a whole user operation on its latest version; a trigger
fires for a real hold and once; a published package is whole and the newest; a
listed copy was the content of the file at some moment; a dump is attributed to
the request and the thread it belongs to; an observer records what happened or
says that it did not; a build starts only on evidence that still holds; what is
shown, exported or logged as passed is what was checked; what was borrowed from
the user is given back; and whoever waits is let go.

## 2. Modules

| Module | Models | Built on |
|---|---|---|
| `ManagedProfile` | save profiles under several launchers | |
| `ManagedProfileProofs` | theorems about its live tree | `ManagedProfile`, TLAPS |
| `ProfileHistoryProofs` | theorems about its receipts, archives, branches and bounds | `ManagedProfileProofs` |
| `PreferenceDocument` | the stored document and the user's operations on it | |
| `LauncherLibrary` | abstract promise: one durable document, one whole operation per change | `PreferenceDocument` |
| `PreferenceStore` | the files, the lock and the steps of Open and Save | `PreferenceDocument`, instantiates `LauncherLibrary` |
| `PreferenceStoreProofs` | theorems, refinement included | `PreferenceStore`, TLAPS |
| `DiagnosticTriggers` | combo and wheel triggers, UI, event and timer threads | |
| `HoldTiming` | how long the hand really holds, beside the triggers | `DiagnosticTriggers` |
| `SnapshotManager` | requesters, worker, read-back helper, Stop, packages on disk | |
| `SaveCopy` | the gate and the copy against a saving title | |
| `CrashHelper` | the client, the crashing threads and the helper process | |
| `BuildLease` | admission of a test build: ticket, record, list, clocks | |
| `LeaseFetch` | the asynchronous download of the list and its counted context | |
| `LeaseProofs` | theorems about both | `BuildLease`, `LeaseFetch`, TLAPS |
| `PortableLauncher` | the portable bundle's lock, sessions, snapshots and recovery | |
| `PortableProofs` | theorems about it | `PortableLauncher`, TLAPS |
| `LauncherWindow` | form, generations, background check, dialogs, close | |
| `MetadataExport` | export dialog, plan and its files | |
| `LauncherProofs` | theorems about both | `LauncherWindow`, `MetadataExport`, TLAPS |
| `ImageHelper` | client and helper process of the window image | |
| `SemaphoreWitness` | registry, collector, journal and freeze | |
| `FrameCores` | worker iterations, scope tracker, swap ledger | |
| `TimerObserver` | the observer's rows and their copy | |
| `RaceAudit` | race descriptions and their hooks | |
| `ProbeScripts` | the probes' scripts, input driver, operator, stop | |
| `AppLifecycle` | hooks, services, closures, guest exit, close, shutdown | |
| `HostSwitches` | settings borrowed for the menu and for photos | |
| `HostInputs` | cursor, START latch, owner-ready gate | |
| `TextureBudget` | start-up limits and the monitor thread | |
| `NativeRefcount` | AddRef and Release over a load and a compare-and-exchange | |
| `MCKeptFolders` | folders with a bounded history: packages, the portable bundle, or save profiles | `SnapshotManager`, `PortableLauncher`, `ManagedProfile` |
| `MCLauncherStores` | preference store, lease cache, download, window or export | the five modules |
| `MCObservers` | what asks for diagnostics and what is recorded: triggers, observers, image helper | the six modules |
| `MCDiagnosticWorker` | the threads of diagnostics | `SnapshotManager`, `SaveCopy`, `HoldTiming` |
| `MCFairThreads` | what must come to an end under fair scheduling: these threads, and launchers that compete for a save profile | `MCDiagnosticWorker`, `ManagedProfile` |
| `MCApplication` | the host process and the crash helper | the seven modules |
| `ObserverProofs` | theorems about the parts of two compositions, and about these | `MCObservers`, `MCDiagnosticWorker`, TLAPS |
| `HostProofs` | theorems about the parts of the host, and about their composition | `MCApplication`, TLAPS |

The compositions `MCKeptFolders`, `MCLauncherStores`, `MCObservers`,
`MCDiagnosticWorker`, `MCFairThreads` and `MCApplication` put parts side by side that share no state. Each has a rigid
variable (`scene`, `subject`) that says which part moves in a behaviour; the others keep their
initial state, and a part's choices at the start are pinned to one value in the
scenes of the others. A property of one part is thus checked over every behaviour
of that part and nothing else. Where parts do interact, their interaction is
inside one module: launcher and title in `ManagedProfile` and `PortableLauncher`,
manager and read-back helper in `SnapshotManager`, window and controller in
`LauncherWindow`, client and helper in `ImageHelper` and `CrashHelper`, services,
guest and worker in `AppLifecycle`.

### ManagedProfile

A profile is what its folder holds. `marker` is the file that says what the root
is, `lock` the holder of the exclusively opened `.mcla-writer.lock`, `user` the
content of the live tree (a version number, new for every modification), `sess`
and `arch` the session and rename records with their two receipts, `pending` the
pending-operation marker, and `alive` the titles that still run. `pc`, `prof`,
`sid`, `snap` and `dest` are what a launcher process remembers of the operation
it is in. Every durable write of the controller is an action: `Start` goes
through admission, session directory, prepared record, before copy, receipt,
launching record and spawn; `Poll` through exit code, after copy, receipt,
completion; renames and branches likewise. `Fail` is the early return of any of
them, `Crash` the end of the launcher. A crash frees the lock at once, while
`JobKill` ends the title later: in between, a second launcher finds the lock
free and must be stopped by the session record.

### PreferenceStore and LauncherLibrary

One folder, any number of launcher processes. Open is a preflight without the
lock, the lock, and a second read; Save compares the file with the bytes last
seen, writes the backup and publishes. Each atomic write is two steps (temporary
file, move), so a crash or a failure can leave the temporary file behind. The
codec is canonical, so bytes are documents plus one value that does not decode.
A foreign edit may come at any moment but inside the few steps of one Save, where
the code relies on the lock. `LauncherLibrary` is the promise, and the store
implements it with `library` mapped to `primary`.

### DiagnosticTriggers and HoldTiming

Event threads post closures (`queue`); the UI thread runs them in order, whenever
it gets to them; the timer thread resets the deadline and posts a poll in two
steps, as in the code, with the mutex released between them. Time is ticks still
to go. `HoldTiming` adds the physical duration of a hold and two schedules: with
`PromptSpec` no time passes while closures wait, with `TimedSpec` it may.

### SnapshotManager

The atomics of `Manager::Impl`, one action per access that another thread can see
between; the worker's capture by phases, each of which may fail as the code lets
it; the read-back helper of every capture, which may end late or never; the
package directories, the staging directories and the latest pointer, which
outlive the process. `HardExit` may come at any step. Pruning orders packages by
directory time; a removal that fails half-way leaves the package damaged and makes
its directory the newest, so that order is not the order of the captures any more.

### SaveCopy

A file is a sequence of chunks, each with the number of the save that wrote it,
so a torn copy is visible. The gate reads the counter, then the marker files,
then decides, in three steps. A copy is stat, time, chunks, size, time. The
title's transaction (SDK code, external) opens, marks, removes, writes chunk by
chunk and commits.

### CrashHelper

The shared mapping and the five events are variables; each access is a step on
either side. A dump path is a pair of halves, because it is copied while a late
helper may read it. Timeouts may happen at any time, the process may be ended by
the SDK at any time, and threads crash in any order.

### BuildLease and LeaseFetch

Every process that checks (launcher, host, read-only CHECK SETUP, life cycle
probe) goes through the same steps: clock, cache, download, decision with the
write of the record, clock again. `schema` distinguishes the two tickets. The
record is shared and written only under the writer lock of the cache directory,
which is held from the read to the end of the check and may be taken by anybody
else. `Evaluate`, `EvaluateKillSwitch` and `EvaluateLease` are the policy, as
functions of clock, answer and record. A list carries its number as history,
which no decision reads; the `revoked` record carries the list that caused it
for the same reason. Signature checks are external: an answer is the published
list or nothing. `LeaseFetch` looks at the download alone: the caller, the
request handle and the callbacks of WinHTTP, each step that touches the shared
context on its own.

### PortableLauncher

The bundle is what its folder holds: `bundle.lock`, the save (a pair of files with
a number for their content), and session directories with snapshots, result and
suffix. A launch takes the lock (deleting a stale one: the deletion fails while
its owner has the file open), closes what an earlier launch left open, stages a
session, snapshots the save, starts the title in a job, watches the save, and
closes. The watcher copies between two readings and drops a copy whose readings
differ. `LauncherKilled` ends a launcher at any point; a title that is not yet in the job
survives it. A title in the job is ended by the operating system some time after
the handles of its launcher are closed (`ClosesJob` makes it "dying", `TitleEnds`
ends it): until then it writes on, while a second launcher may take the stale lock
and start the next title. Every write of the title gives new content, so a save
that returns to an earlier content is not explored.

### LauncherWindow and MetadataExport

The window's check runs on a worker with the form it was started for and its
generation; everything the user can do may happen before its result is polled. A
closing window hides, waits for the worker and is destroyed. The export dialog
dispatches messages while a callback or picker runs; its plan pins the sources
and holds the profile's lock, and a confirmation writes the report and then the
completion marker. The reader of the performance log is modelled line by line.

### ImageHelper

Client and helper as two processes over one mapping: the client creates the
helper suspended, assigns it to a job, resumes it, and polls exit, stop and
timeout; the helper attests the window before and after the frame and copies row
by row. The desktop moves the window or takes the foreground in between.

### Observers

`SemaphoreWitness` separates the registry's admission flag from the collector's
mutex, with nested scopes of the title's helpers, faults, full tables and clock
readings of zero or outside the window; history variables record what really
happened. `TimerObserver` reserves, fills and publishes rows with the lock
released between; `FrameCores` takes every event in every order; `RaceAudit` puts
the fields of three races into two rows; completed descriptions, finishes and
checkpoint lists that grew share one detail budget, while checkpoint hits and race
results are only counted.

### ProbeScripts and AppLifecycle

A script is a sequence of steps (start, pulse, press, lift, sleep, shoot, check,
await an operator's request, state a summary); the worker plays it against a
guest that polls when it likes, and a stop may come inside any wait. Durations are
left out: a wait ends by what it waits for, its time-out, or a stop. A graphics
capture is not such a wait: the worker looks at the stop token only after it has
returned, and it may never return (phase `"captures"`).
`AppLifecycle` is the hooks in the order in which the SDK calls them, with the
services each starts, the closures they defer, and the worker, guest and UI
threads. Which probes start without a GPU plugin (`GuestFree`) and which end
before the guest is launched are two lists in the code, and two in the model.

### HostSwitches, HostInputs, TextureBudget, NativeRefcount

Hooks query a setting and write it in two steps, with the user's edit between
them. A photo window owes one wheel resync from its opening to the unfreeze, also
when the timeout or the shutdown ends the window. The gate knows, in a history
(`answered`), for which window each readiness event was answered. The cursor machine receives pad, mouse and focus events on two threads and
acts in deferred calls; the START latch and the gate have deadlines. The budget's
monitor alternates between waiting with its mutex and working without it; marks
and the stop come from the UI thread. Limits are in megabytes, computed by the
code's formula. A reference count is updated by a load and an exchange that
compares; the parent of a resource is counted in a nested call.

## 3. Runs and bounds

Passing runs:

| Run | Bounds | What it shows |
|---|---|---|
| `kept_folders` | packages: 1 requester, 2 captures over 2 processes, each of size 3 with a budget of 2, 1 package kept; bundle: 2 launchers, up to 3 launches and 2 writes of the title, 4 of both together, 2 snapshots and 2 records kept; profiles: 1 launcher, 2 profiles, 2 identities, 2 modifications, history bound 1 | packages are whole, of their own capture and pointed to (`PackagesAreTrue`); one launcher inside the bundle, results that tell the `mc4.sav` they end with (`BundleHasOneWriter`, `SessionTellsTheEnd`); pruning and recovery keep what matters (`NewestIsKept`, `HistoryIsKept`); a branch starts from an archived save, the history stops at its bound (`BranchStartsFromArchivedSave`, `HistoryBounded`) |
| `launcher_stores` | store: 2 launchers, 3 profiles of which 2 fit, 2 settings, 1 foreign edit; lease: 2 checks, 2 lists, 3 moments, a clock that falls behind; window: 2 set-ups, timings and profiles, 3 edits; export: 3 plans, 6 log lines | the store implements `LauncherLibrary` (`NoLostUpdate`), shows what is durable, backs up before it replaces and stays openable; a start is covered by evidence and no record weakens; the download's context; `WindowShowsItsCheck`, `ExportIsWhatWasShown` |
| `observers` | triggers: 2 pads or 2 wheels, device table with 1 or 2 entries, hold 1 tick, 2 waiting closures; observers: 2 threads, tables of 2; image: 3 places, 2 moves; audit: 3 races for 2 rows, 2 details, lists of 2 lengths, 6 calls | no trigger state outlives its press; one package per hold and per press; the witness loses nothing; cores and audit attribute once and to one race; the frozen timer table is complete; a whole image or none, and no process |
| `fair_threads` | manager: 2 requesters, 1 capture; copy: 2 files, 1 transaction, budget 3 chunks; hold: 1 pad, hold 2 ticks, 2 waiting closures; profile: 2 launchers, 1 profile, 2 identities, 2 modifications | requests are answered and Stop returns with a wedged read-back; nothing torn or over budget is listed, the step ends; a short tap never fires when the UI thread keeps up, deadlines are not lost; one user of the live tree and one title (`LiveTreeExclusive`, `OneTitlePerProfile`), no unarchived save is launched (`SettledSaveIsArchived`), a title starts on what its final receipt describes (`ReceiptsHold`), locks come back (`LockIsGivenBack`) |
| `application` | 2 crashing threads, 2 live dumps; every probe script; every kind of session, 1 key press; 2 edits of settings, 5 ticks; 3 budgets, 5 seconds, 2 marks; 2 guest threads, 3 references | dumps belong to their request and thread and crashes are answered; probes keep their word; the order of the life cycle; `UserSettingsHold`, `InputsKeepBounds`, `ParentOutlivesChild`; a close ends the process unless a graphics capture never returns (`ShutdownEnds`) |

The bounds make every interesting case happen: two of whatever competes, one
more than fits where there is a limit (three profiles for two entries, two pads
for one table slot, three races for two rows, a package larger than the whole
budget), a second session, capture or request after one that failed, and a
restart. A third competitor would meet the same lock, event or slot; for the
invariants and action properties the theorems of section 5 remove the bounds
altogether, so that only the liveness properties rest on them. Kept
snapshots, slots, step intervals and waits are constants of the models, so 32
snapshots are 2 and ten seconds are two ticks. Deadlock is not checked: in every
model the system may come to rest (a budget of modifications, captures or
requests is used up, or nobody asks for anything).

Symmetry is used only in runs without liveness properties.

## 4. Findings

Seven runs are violations: the code does something a sentence of the repository
excludes.

1. `hold_late`: the timer's poll does not say which hold it is for
   (`mcla_diagnostic_triggers_sdl.cpp:332`). If the UI thread is late, the poll
   of an abandoned hold fires a later one that was too short, against
   `mcla_diagnostic_trigger.h:119`, "a short tap never fires".
2. `snapshot_status`: RequestSnapshot stores the Capturing status after the
   request is visible to the worker (`mcla_diagnostics.cpp:1231`), so a capture
   that fails at once is overwritten and RECORDING stays without an active
   worker, against `docs/architecture.md:149-151`.
3. `save_copy_race`: the gate is asked once before the copy; a transaction that
   begins afterwards overlaps it, against "it never races a save transaction" in
   `mcla_save_copy_guard.h:101-102`. `ListedIsTrue` of `fair_threads` shows
   that what is listed is nevertheless not torn.
4. `probe_records`: SetRenderGamepad returns true for a stop as for an observed poll
   (`mcla_app.cpp:756-759`), so a stop in the last wait of the rendering probe
   (`mcla_app.cpp:3330`) yields a PASS line that states a record the guest never
   made, against `scripts/verify-rendering-smoke.ps1:134,145-154`.
5. `portable_count`: CaptureSaveSnapshot counts what it publishes
   (`mcla_portable_launcher_win.cpp:785`) and prunes afterwards, so the result's
   count differs from the inventory once more were taken than are kept, against
   `scripts/Portable-SaveLineage.ps1:249,259`.

6. `portable_final`: the save is a pair of files, and CaptureSaveSnapshot compares
   both, but it names the snapshot after `mc4.sav` alone and returns as if it were
   done when a directory of that name exists
   (`mcla_portable_launcher_win.cpp:744-750`). A title that rewrites only the header
   ends with a pair that is in no snapshot, without a warning;
   `scripts/Portable-SaveLineage.ps1:274-277` demands a snapshot with both final
   hashes and refuses the session. `SessionTellsTheEnd` is therefore about `mc4.sav`
   only.
7. `menu_restore`: the hook of the menu cap queries the threshold and writes the
   saved one afterwards (`mcla_menu_state.cpp:209-212`) under a mutex that an edit
   in the settings does not take. An edit between the two is lost, against
   `mcla_menu_state.h:11-12`, "it never restores over a value the user changed while
   the game was paused". `MenuGivesBack` covers every edit but this one (and a
   choice of the upper bound, which looks like the forced value).

More disagreements are in the models without a run of their own:

- When the cache is busy, unreadable or not writable, CheckKillSwitch
  (`mcla_build_lease_runtime_win.cpp:76-101`) neither reads nor records a
  withdrawal, so a withdrawn build is admitted offline inside its first three days;
  `docs/test-build-expiry.md:49-51` says it stays refused.
- The logging probe counts as guest-free and starts without a GPU plugin
  (`mcla_app.cpp:1336-1341`), but LaunchModule (`mcla_app.cpp:1718-1865`) does not
  stop for it: with that option alone the guest runs without a GPU.
  `scripts/run-logging-smoke.ps1:44-45` combines it with the life cycle probe, which
  does stop. `GuestIsAdmitted` makes this exception.
- The lock of a portable bundle is free as soon as its launcher's handles are
  closed, while the job still ends the title: the next launcher may start its title
  beside the dying one, although `mcla_portable_launcher_win.cpp:534-536` says that
  only one host may run a bundle at a time. `BundleHasOneWriter` does not count
  dying titles, and `SessionTellsTheEnd` says nothing of a session into which one
  wrote.
- A start-up prune takes the first package by directory time for the newest. A
  removal that failed half-way has changed that time, so a package of an earlier
  capture may come first and the newest one, which `latest-live.txt` names, goes.
  `NewestIsKept` says when the newest is safe: always after a capture, and at
  start-up if no half-removed package lies before it.
- A graphics capture may block for longer than its wait (`mcla_app.cpp:2169-2170`),
  and the UI thread joins the probe's worker without a bound
  (`mcla_app.cpp:3577-3582`): a capture that never returns blocks the close of the
  window. `CloseEndsProcess` and `JoinReturns` suppose that it is not inside a
  capture for ever.

## 5. Proofs

Every invariant and every action property of the passing runs is a theorem about
the part's own specification, for every value of the constants that satisfies the
named assumptions of the modules (table below). The assumptions say that bounds are naturals (where
the code has a constant of at least one, positive), that a value standing for
"none" is none of the others, and which small sets are parts of which; nothing is
assumed of histories, schedules or inputs.

| Theorem | Property | Inductive invariant |
|---|---|---|
| **`ManagedProfileProofs`** | | |
| `TypeCorrect` | `TypeOK` | `TypeInv` |
| `LiveTreeIsExclusive`, `OneTitle` | `LiveTreeExclusive`, `OneTitlePerProfile` | `ExclInv` |
| **`ProfileHistoryProofs`** | | |
| `ReceiptsAreKept` | `ReceiptsHold` | `ReceiptInv` |
| `AdmittedSaveIsArchived` | `SettledSaveIsArchived` | `SaveInv` |
| `BranchesStartArchived` | `BranchStartsFromArchivedSave` | `OriginInv` |
| `HistoriesAreBounded` | `HistoryBounded` | `CountInv` |
| **`PreferenceStoreProofs`** | | |
| `StoreTypeCorrect` | `StoreTypeOK` | `TypeInv` |
| `OpenIsDurable`, `StoreImplementsLibrary`, `ReplacedIsKept` | `OpenShowsDurable`, `NoLostUpdate`, `ReplacedIsBackedUp` | `StoreInv` |
| `SavedStoreReopens` | `SavedStoreStaysOpenable` | `DurableInv` |
| **`LeaseProofs`** | | |
| `ContextIsCounted` | `ContextLivesAsLongAsUsed` | `FetchInv` |
| `AdmissionHasEvidence`, `RecordMovesForward` | `AdmissionIsCovered`, `RecordNeverWeakens` | `LeaseInv` |
| **`PortableProofs`** | | |
| `OneWriterAtATime`, `ProvenanceIsKept` | `BundleHasOneWriter`, `HistoryIsKept` | `PortableInv` |
| `EverySessionTellsItsEnd` | `SessionTellsTheEnd` | `PortableInv` and `SaveInv` |
| **`LauncherProofs`** | | |
| `ReadyIsAboutTheForm` | `WindowShowsItsCheck` | `WindowInv` |
| `ExportTellsTheTruth` | `ExportIsWhatWasShown` | `ExportInv`, `PerfInv` |
| **`ObserverProofs`** | | |
| `ImageIsWholeOrNothing` | `ImageOrNothing` | `ImageInv` |
| `FrozenObserverIsComplete` | `FreezeIsComplete` | `TimerInv` |
| `OnePackagePerHold` | `OnePackageEach` | `ReleaseInv` |
| `NothingStaysStuck` | `CaughtUpMeansHeld` | `CaughtInv` |
| `ShortTapsAreIgnored` | `ShortTapNeverFires` | `HoldInv` |
| `PackagesStayTrue` | `PackagesAreTrue` | `ManagerInv` |
| `NewestStays` | `NewestIsKept` | `ManagerInv`, `OrderInv` |
| `AttributionStaysTrue` | `AttributionIsTrue` | `WorkerIInv`, `TrackerIInv`, `LedgerIInv`, `AuditIInv` |
| `WitnessStaysFaithful` | `WitnessIsFaithful` | `WitnessIInv` |
| `ListedStaysTrue` | `ListedIsTrue` | `CopyIInv` |
| **`HostProofs`** | | |
| `LifecycleIsKept` | `LifecycleIsOrderly` | `LifecycleInv` |
| `DumpsStayTrue` | `DumpsAreTrue` | `LiveInv`, `ExceptionInv`, `EndIsLate` |
| `InputsStayBounded` | `InputsKeepBounds` | `CursorInv`, `LatchInv`, `GateInv` |
| `UserSettingsStay` | `UserSettingsHold` | `MenuInv`, `PhotoInv`, `BudgetInv` |
| `ParentStaysWithChild` | `ParentOutlivesChild` | `RefIInv` |
| `ProbesKeepTheirWord` | `ProbeKeepsItsWord` | `ProbeHolds` |

`ObserversKeepTheirPromises`, `ThreadsKeepTheirPromises` and `HostKeepsItsPromises`
carry the theorems about the parts over to the compositions `MCObservers`,
`MCDiagnosticWorker` and `MCApplication`: a part moves by its own
steps in its scene and not at all in the others, so what is proved of its own
specification holds of the composition. For `kept_folders`, `launcher_stores` and
the profile in `fair_threads` the theorems are about the specifications the runs
are composed of.

Few of the properties are inductive. What each invariant adds, and why:

- Profiles. That no title runs under a launcher's steps follows neither from the
  lock, which a dead launcher loses, nor from the session record alone. `ExclInv`
  ties them together: `Locks` (an operation holds the lock of its profile),
  `Children` (a new profile is locked by its maker), `AliveIsRecorded` (a running
  title has an unfinished record), `OthersSettled` and `SessionSettled` (past
  admission, no unfinished record but one's own), `TitleMatchesStep` (one's own
  title runs only at the polling steps). `AliveIsRecorded` together with the
  admission check holds off the title that outlives its launcher. From that,
  `OthersKeepOut`: while an operation is under way nobody else writes into its
  profile. The four properties of the history use it at steps that rely on
  something read earlier: the receipts of a new session are still missing and the
  final one describes the tree (`Receipts`); a rename announces itself before it
  writes and a duplicate found none under way, so that a closed history without a
  pending operation means an archived save, even while the lock is held
  (`Saves`); what a branch read is one of its parent's saves when it is published
  (`Origins`); and the room found at admission is still there when the directory
  is made (`Counts`).
- Preference store. Only the lock holder is inside (`HolderOnly`), what it shows
  is what it read or wrote last (`ShownIsRead`), the document handed to Save is
  one operation away from it (`SaveIsOperation`) and, past the comparison, from the file
  (`SaveOnCurrent`); temporary files hold the bytes meant for their target
  (`TempHoldsBytes`), publication follows the backup (`BackupFirst`), and without
  foreign edits the holder has read the file (`UneditedIsRead`). The refinement
  proof shows that every step of the store is a `Commit`, an `Edit` or a stutter of
  `LauncherLibrary`. `Durable` adds that without foreign edits the file is never
  damaged, and that there is a document once there is a backup.
- Download. A step knows only the counter; `Accounted` says whose references make
  it up: the caller's, the handle's and the one of a running callback.
- Lease. What was read under the writer lock is still the record when the
  decision writes it (`ReadsAreCurrent`); the record, the answers and the published
  list follow each other in number and time (`InOrder`); and what a record or an
  answer can still admit was proven by a list at some moment (`AllCovered`).
- Portable bundle. `Exclusive`: the handle on `bundle.lock` is held by exactly the
  launchers inside it, and there is one at most; only then does what a launcher
  found below `results` at one step (`Relies`) hold at the next. A title
  that runs and is not being ended has a launcher inside the lock behind it
  (`TitleHasLauncher`), unless one has got loose. `SaveInv` adds what a launcher
  knows of the save at each step of a snapshot (`Knows`) and what a directory
  tells a later recovery (`Tells`); what they say of the end of a session holds as
  long as no title has outlived its launcher or written while it was ended (`strays`).
- Window and export. As long as the generation is the one a check was started in,
  the form is the one it was started for (`Consistent`): a check compares set-up
  and profile but not the timing, so the generation is all there is. Messages
  reach the export dialog inside its own calls: a plan is there only under its own
  preview and before a cancel was sent (`PlanIsShown`), and what is written is the
  plan's because the number of a plan is never used again (`OutIsPlan`). `PerfInv`
  relates the minutes to the records of the log, whichever of them are damaged.
- Image helper. The client never reads the mapping while the helper can write,
  and "success" is the last thing written, whatever is killed in between.
- Triggers. What the UI thread believes is what the queue will make of the present
  (`PressesHeld`, `EdgesHeld`, `PadsHeld`), so that it is the present when the queue is
  empty. For the hold time: an armed combo has been held for as long as its
  deadline has run, or the closure that gives it up is in the queue
  (`ArmedIsHeld`), and no time passes while it waits. The run `hold_late` shows
  that the premise is needed.
- Packages. One requester claims (`OneClaim`), the staging directory has the files
  of its phase (`JobIsStaged`), what is published is whole (`DiskIsTrue`), and a
  result is reported after the pointer is written (`ResultIsTrue`). That a prune
  keeps the newest needs `OrderInv`: if the first package is whole, no other is of
  a later capture, and a capture under way is later than all.
- Observers. A timer call between admission and completion is counted as in flight
  (`FlightIsCounted`), and after the copy nothing is admitted or in flight
  (`FrozenIsFinal`). The witness's journal ties out at every step (`JournalIsSound`),
  and a scope's rows are those since it was opened unless it is ambiguous
  (`ScopesKnow`). Attribution needs that what is offered now
  is newer than all that was spent (`TrackerPast`, `SpentInOrder`), and that a row
  belongs to one race (`OneRowEach`, `OneRowAtATime`). The audit's details and
  drops are the completed descriptions, the finishes and the lists that grew
  (`AuditTotals`).
- Save copy. As long as the time of the file is the one taken at the start, what
  was read is the beginning of what the file holds (`ReadIsStable`); each entry is
  listed once, so the bytes are the sum over the inventory (`BytesAreListed`).
- Crash helper. What the helper copied is of a round not after the client's, and
  if it is of the same round its path is the one asked for (`RoundsAreNumbered`), so that
  a success is of that dump (`ResultsAreOfDumps`); one thread at most fills
  the exception words, and the helper reads them only when they are complete
  (`ExceptionIsOfOneThread`). `EndIsLate` says that the process ends only after
  the helper is done, unless a wait timed out, the client was stopped or the exit was hard.
- Life cycle. Nothing is deferred and no thread runs before the module is
  launched (`ThreadsInOrder`), a quit is deferred only without a guest, and whoever
  closes the window has set the flag first (`CloseIsMarked`). `HooksPassed` is what
  the hooks before the launch have looked at: a guest has a GPU plugin because of
  the probes that are guest-free only the logging probe gets as far as a launch.
- Borrowed settings. A setting that is not borrowed has the user's value, except
  while a write is under way (`MenuGivesBack`, `PhotoOwns`, `PhotoWaits`); a hook
  between query and write knows what it owes (`MenuWillWrite`); and texture limits
  move only where the host applied its own, no faster than the step interval
  (`LimitsHold`), with every accepted mark either logged, dropped or still held (`MarksHold`).
- Owner-ready gate. Past the first reading of the clock every event that is
  signalled was answered for this window (`GateInv`), because both events were then
  found empty.
- Reference counts. A count is the cardinality of the set of references
  (`CountsAreTokens`): those the threads hold and those of the calls under way. A
  thread that raises a count holds a reference already (`RaisersHold`), and one
  thread at most destroys (`OneEnds`).
- Probes. A ledger gives, before each step of a script, the frames and inputs
  counted so far and how the step finds the pad and the sound (`Follows`); every
  script the probes are put together from has one (`Earned`): the ledgers of parts
  are joined (`Join`), that of a part repeated is the part's, repeated (`Repeated`).
  `ProbeHolds` says that the worker's tallies are the ledger's at its step, and
  that until a stop the guest has seen every input but the one waited for.

Where a fact is about all the elements of a sequence or a finite set (the
position of an operation in the journal, the sum of the bytes, a repeated part
of a script), it is proved for the concrete formula from a least counterexample,
the natural numbers being well founded (`NatHasLeast` and the lemmas beside it).

## 6. Only model-checked

The properties under fairness, which are outside the reach of the prover:
`LockIsGivenBack`, `RequestsAndStopEnd`, `SaveStepWaitsAndEnds`, `TriggersComeToRest`,
`CrashEnds` and `ShutdownEnds` (of which the join and the close suppose that a
graphics capture returns each time). They hold in the instances of section 3 only. So do
the counterexamples of section 4, for which one instance is enough.

## 7. Fairness and assumptions

- Profiles: weak fairness of an operation once begun (it does not wait for the
  user), of Poll (the window timer calls it for ever) and of the job kill (the
  operating system carries it out). Not of starting anything, of restarts, or of
  the title's exit.
- Triggers: weak fairness of the UI thread running what is posted, of the timer
  thread, of time, and of the end of Stop.
- Snapshot manager: weak fairness of threads inside a call and of the worker; none
  of the read-back helper, which may be stuck behind a GPU fence.
- Save copy: weak fairness of the diagnostics worker; none of the title.
- Build lease and download: none; only safety is stated of them.
- Crash helper: weak fairness of the helper process; none of the title or of the
  user in front of the dialog.
- Probes, life cycle, texture budget: weak fairness of the probe's worker, whose
  waits all have time-outs or look for the stop, of the UI thread's loop and of the
  application's own threads, and of the monitor thread; none of the guest, the
  operator or the user, and none of a graphics capture (`CaptureReturns`,
  `WorkerCaptured`).
- In the modules with scenes each fairness condition holds in the scene of its part
  only.
- Portable launcher, window, export, image helper, observers, switches, inputs and
  reference counts: none; only safety is stated of them. A portable title may go on
  for ever after its job has begun to end it.

Assumed of the environment: an exclusively opened file excludes other openers
until the handle or its process is gone; a move over a name on one volume is
atomic; random 128-bit identities do not collide; a write moves the write time
of a file; package directory times grow with time; a kill-on-close job
kills its process some time after its last handle is closed; HANDLE_CLOSING is WinHTTP's last notification of a
handle; the lists of active builds are issued at growing times; a write of a setting within
its range succeeds; the texture limits are not edited while the title runs; marks of
the texture monitor come from the UI thread, as the code's one caller does; guest
code references a resource only through a reference it holds, or its parent's for a
new one.

## 8. Not modelled, and what comes next

Left out, with the reason in PROJECT.json: guest probes and observation records
(they read guest memory into fixed layouts for the log and change no state of the
program); the readers of the video-memory and processor census (counters read by
one thread and only logged); launcher start-up checks of builds, games and the
writable root (done once before anything is shared; their outcome is a choice in
the models that use it); device selection, defaults and developer overrides
(tables and parsing); the shader store's seed (files copied once under the
profile's lock); the session report and logging; read-back windows and wheel force
feedback (requests forwarded to the SDK); formatting and wording of logs, JSON and
text documents, drawing and layout; hashes and signatures as algorithms; generated
and vendored code, build files, scripts and tests.

Partly modelled: of crash reporting the start-up handshake and the helper's own
save copy and pruning are missing; of the managed profiles the validation of an
imported save; of the triggers the rumble acknowledgement; of the reference counts
the interlocked helpers, which are single instructions on a guest word.

Every safety property is proved; what would extend the project is more of the
code rather than more about the models: the start-up handshake of the crash
helper with its own copy of the save, the validation of an imported save, the
guest probes that decide what they log from more than one reading, and the
abstract specifications of the packages and of the bundle, of which
`DiskIsTrue` and `Tells` are the refinement invariants.
