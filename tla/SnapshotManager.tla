--------------------------- MODULE SnapshotManager ---------------------------
(***************************************************************************)
(* The live diagnostics manager (mcla_diagnostics.cpp, Manager::Impl): the *)
(* threads that request a snapshot package, the one worker that captures   *)
(* it, the helper thread that reads the guest frame back, Stop, and the    *)
(* package directories left on disk, across process exits.                 *)
(*                                                                         *)
(* A package is staged in a ".partial" directory and published by one      *)
(* rename; then the latest-live.txt pointer is replaced and old packages   *)
(* are pruned.  The process may be cut off at any point (the host          *)
(* hard-exits after a window close); what is on disk then stays.           *)
(*                                                                         *)
(* Abstracted: the contents of the files (an artifact is its name), wall   *)
(* times (a bounded wait may end at any point), and package directory      *)
(* times, which are taken to grow from one package to the next.            *)
(***************************************************************************)
EXTENDS Integers, Sequences, FiniteSets

CONSTANTS
  Requesters,   \* threads that call RequestSnapshot
  UiThread,     \* the requester that also runs Stop
  Sizes,        \* bytes a package directory may take
  KeepCount,    \* kLiveRetentionCount
  KeepBytes,    \* kLiveRetentionBytes
  Optional,     \* bound: optional artifacts the instance explores
  MaxCaptures,  \* bound: captures begun, over all processes
  MaxStarts     \* bound: processes started

ASSUME ManagerConstants ==
  /\ UiThread \in Requesters
  /\ Sizes \subseteq Nat
  /\ KeepCount \in Nat \ {0}
  /\ KeepBytes \in Nat
  /\ Optional \subseteq {"frame.bmp", "process-private.dmp"}
  /\ MaxCaptures \in Nat
  /\ MaxStarts \in Nat

VARIABLES
  started, stopping, busy,  \* the atomics of Impl
  requestPending, \* request_pending_
  status,       \* snapshot_status_
  stop,         \* the stop token of worker_
  requester,    \* [Requesters -> where RequestSnapshot or WaitForIdle is]
  worker,       \* where WorkerMain or Capture is
  stopper,      \* where Stop is
  job,          \* the capture the worker is in
  helper,       \* guest-frame helper of each capture: its Shared block
  live,         \* published package directories, newest directory time first
  partials,     \* capture numbers whose staging directory exists
  latest,       \* capture number named by latest-live.txt, 0 for none
  captures,     \* captures begun so far
  starts        \* processes started so far

sharedVars == <<started, stopping, busy, requestPending, status, stop>>
diskVars == <<live, partials, latest>>
managerVars == <<sharedVars, requester, worker, stopper, job, helper, diskVars,
          captures, starts>>

-----------------------------------------------------------------------------
\* Artifacts AddArtifact lists in manifest.json; the first four are required.
Required == {"state.json", "log-tail.txt", "save-metadata.json",
             "save-files-private.json"}
Artifacts == Required \cup Optional


\* image: the capture whose read-back gave frame.bmp, 0 for a window capture
\* or no frame.
NoJob == [n |-> 0, files |-> {}, listed |-> {}, image |-> 0, ok |-> FALSE]
ManagerInit ==
  /\ started = FALSE /\ stopping = FALSE /\ busy = FALSE /\ requestPending = FALSE
  /\ status = "Idle" /\ stop = FALSE
  /\ requester = [r \in Requesters |-> "out"]
  /\ worker = "none" /\ stopper = "out"
  /\ job = NoJob
  /\ helper = [n \in 1..MaxCaptures |-> "none"]
  /\ live = <<>> /\ partials = {} /\ latest = 0
  /\ captures = 0 /\ starts = 0

-----------------------------------------------------------------------------
(* PruneDirectories.                                                       *)

\* Bytes of the first i packages by directory time.
RetainedBytes(packages) ==
  LET total[i \in 0..Len(packages)] ==
        IF i = 0 THEN 0 ELSE total[i - 1] + packages[i].size
  IN total

\* Mutant: the first package has to fit the byte budget too.
KeptWithinBytes(packages) ==
  {i \in DOMAIN packages :
     i <= KeepCount /\ RetainedBytes(packages)[i] <= KeepBytes}

\* The first package by directory time is kept whatever its size; the others
\* while the count and the bytes of those before them allow it (so a prefix is
\* kept).
Kept(packages) ==
  {i \in DOMAIN packages :
     i = 1 \/ (i <= KeepCount /\ RetainedBytes(packages)[i] <= KeepBytes)}

\* Every victim is removed; or the removal of one victim fails at once (the
\* directory stays) or midway, which also makes its directory time the newest.
Pruned(packages) ==
  LET kept == SubSeq(packages, 1, Cardinality(Kept(packages)))
      victims == {packages[i] : i \in DOMAIN packages \ Kept(packages)}
  IN {kept}
       \cup {Append(kept, v) : v \in victims}
       \cup {<<[v EXCEPT !.damaged = TRUE]>> \o kept : v \in victims}

\* Staging directories older than kPartialRetentionAge go too.  Pruning runs
\* when no capture is staging, so any of them may have reached that age.
PruneDirectories ==
  /\ live' \in Pruned(live)
  /\ partials' \in SUBSET partials

-----------------------------------------------------------------------------
(* Start: once per process.                                                *)

ManagerStart ==
  /\ worker = "none" /\ starts < MaxStarts
  /\ starts' = starts + 1
  /\ PruneDirectories
  /\ worker' = "top"
  /\ status' = "Idle"
  /\ started' = TRUE
  /\ UNCHANGED <<stopping, busy, requestPending, stop, requester, stopper, job,
                 helper, latest, captures>>

-----------------------------------------------------------------------------
(* RequestSnapshot and WaitForIdle, on a requesting thread r.              *)

Goes(r, step) == requester' = [requester EXCEPT ![r] = step]
WorkerSame == UNCHANGED <<worker, job, helper, diskVars, captures, starts>>

\* The caller then returns, or goes on to WaitForIdle (the start-up probe when
\* its request was queued, the guest-exit hook always).
Returns(r) == \E step \in {"out", "check"} : Goes(r, step)

\* The UI thread calls in only while it is not inside Stop.
MayCall(r) == worker # "none" /\ (r = UiThread => stopper = "out")

\* started_ and stopping_ are read first ...
RequestAdmit(r) ==
  /\ requester[r] = "out" /\ MayCall(r)
  /\ started /\ ~stopping
  /\ Goes(r, "admitted")
  /\ UNCHANGED <<sharedVars, stopper>> /\ WorkerSame

\* ... then busy_ is claimed, or the request is refused (MaxCaptures bounds
\* the claims: each is followed by at most one capture).
RequestClaim(r) ==
  /\ requester[r] = "admitted"
  /\ \/ ~busy /\ captures < MaxCaptures /\ busy' = TRUE /\ Goes(r, "claimed")
     \/ busy /\ busy' = busy /\ Returns(r)
  /\ UNCHANGED <<started, stopping, requestPending, status, stop, stopper>>
  /\ WorkerSame

\* The request is stored under request_mutex_.
RequestPost(r) ==
  /\ requester[r] = "claimed"
  /\ requestPending' = TRUE
  /\ Goes(r, "posted")
  /\ UNCHANGED <<started, stopping, busy, status, stop, stopper>> /\ WorkerSame

\* The status is stored after the mutex is released; then notify_one.
RequestStatus(r) ==
  /\ requester[r] = "posted"
  /\ status' = "Capturing"
  /\ Returns(r)
  /\ UNCHANGED <<started, stopping, busy, requestPending, stop, stopper>>
  /\ WorkerSame

\* WaitForIdle returns when its predicate holds, and blocks otherwise.
WaitCheck(r) ==
  /\ requester[r] = "check"
  /\ Goes(r, IF busy THEN "blocked" ELSE "out")
  /\ UNCHANGED <<sharedVars, stopper>> /\ WorkerSame

\* The wait ends by its timeout; the worker's notification ends it earlier.
WaitTimeout(r) ==
  /\ requester[r] = "blocked"
  /\ Goes(r, "out")
  /\ UNCHANGED <<sharedVars, stopper>> /\ WorkerSame

-----------------------------------------------------------------------------
(* WorkerMain.                                                             *)

OutsideSame == UNCHANGED <<requester, stopper, started, stopping, stop, starts>>

WorkerTop ==
  /\ worker = "top"
  /\ worker' = IF stop THEN "exited" ELSE "wait"
  /\ UNCHANGED <<busy, requestPending, status, job, helper, diskVars, captures>>
  /\ OutsideSame

\* The wait ends on a pending request or on the stop token; with the token set
\* the worker leaves, whether or not a request is pending.
WorkerTake ==
  /\ worker = "wait" /\ (requestPending \/ stop)
  /\ \/ stop /\ worker' = "exited" /\ UNCHANGED requestPending
     \/ ~stop /\ worker' = "begin" /\ requestPending' = FALSE
  /\ UNCHANGED <<busy, status, job, helper, diskVars, captures>> /\ OutsideSame

WorkerStatus ==
  /\ worker = "status"
  /\ status' = IF job.ok THEN "Complete" ELSE "Failed"
  /\ worker' = "idle"
  /\ UNCHANGED <<busy, requestPending, job, helper, diskVars, captures>> /\ OutsideSame

WorkerIdle ==
  /\ worker = "idle"
  /\ busy' = FALSE
  /\ worker' = "notify"
  /\ job' = NoJob
  /\ UNCHANGED <<requestPending, status, helper, diskVars, captures>> /\ OutsideSame

\* idle_cv_.notify_all: the blocked threads look at their predicate again.
WorkerNotify ==
  /\ worker = "notify"
  /\ worker' = "top"
  /\ requester' = [r \in Requesters |->
                     IF requester[r] = "blocked" THEN "check" ELSE requester[r]]
  /\ UNCHANGED <<stopper, sharedVars, job, helper, diskVars, captures, starts>>

-----------------------------------------------------------------------------
(* Capture, step by step.  Fails leaves the staging directory behind.      *)

CaptureSame == UNCHANGED <<busy, requestPending, status, captures>> /\ OutsideSame

Fails == worker' = "status" /\ job' = [job EXCEPT !.ok = FALSE]

\* The next step with files added to the staging directory.
Stages(step, files) ==
  worker' = step /\ job' = [job EXCEPT !.files = @ \cup files]

CaptureBegin ==
  /\ worker = "begin"
  /\ \/ /\ stop
        /\ Fails
        /\ UNCHANGED <<captures, partials>>
     \/ /\ ~stop
        /\ captures' = captures + 1
        /\ \/ /\ partials' = partials \cup {captures'}
              /\ worker' = "guest"
           \/ /\ UNCHANGED partials      \* create_directories fails
              /\ worker' = "status"
        /\ job' = [NoJob EXCEPT !.n = captures']
  /\ UNCHANGED <<busy, requestPending, status, helper, live, latest>> /\ OutsideSame

\* CaptureGuestFrame starts a detached helper with a Shared block of its own;
\* without a provider, or when no thread can be started, there is none.
GuestFrameBegin ==
  /\ worker = "guest"
  /\ \/ helper' = [helper EXCEPT ![job.n] = "running"]
     \/ UNCHANGED helper
  /\ worker' = "readback"
  /\ UNCHANGED <<job, diskVars>> /\ CaptureSame

\* The helper finishes whenever the GPU lets it, or never.
HelperDone(n) ==
  /\ helper[n] = "running"
  /\ \E result \in {"ok", "failed"} : helper' = [helper EXCEPT ![n] = result]
  /\ UNCHANGED <<sharedVars, requester, worker, stopper, job, diskVars,
                 captures, starts>>

\* The helper of capture n is done and its image is usable.
ReadBack(n) == helper[n] = "ok"

\* Mutant: one Shared block for all captures: any finished helper will do.
FrameOfAnyHelper ==
  /\ worker = "readback"
  /\ \/ stop /\ Fails
     \/ /\ ~stop
        /\ \E k \in 1..MaxCaptures :
             /\ helper[k] = "ok" /\ "frame.bmp" \in Optional
             /\ job' = [job EXCEPT !.files = @ \cup {"frame.bmp"}, !.image = k]
        /\ worker' = "state"
     \/ ~stop /\ Stages("state", {})
  /\ UNCHANGED <<helper, diskVars>> /\ CaptureSame

\* Mutant: the wait has no deadline.
FrameWithoutDeadline ==
  /\ worker = "readback" /\ helper[job.n] # "running"
  /\ \/ stop /\ Fails
     \/ ~stop /\ Stages("state", {})
  /\ UNCHANGED <<helper, diskVars>> /\ CaptureSame

\* The wait for this capture's helper ends with its result, with the stop
\* token or at the deadline.  Without a guest frame a window capture is tried,
\* unless stopping; its file is dropped when it repeats the previous one.
GuestFrameEnd ==
  /\ worker = "readback"
  /\ \/ stop /\ Fails
     \/ /\ ~stop
        /\ \/ /\ ReadBack(job.n) /\ "frame.bmp" \in Optional
              /\ worker' = "state"
              /\ job' = [job EXCEPT !.files = @ \cup {"frame.bmp"},
                                    !.image = job.n]
           \/ \E window \in SUBSET (Optional \cap {"frame.bmp"}) :
                Stages("state", window)
  /\ UNCHANGED <<helper, diskVars>> /\ CaptureSame

\* state.json and log-tail.txt; each write may fail.
CaptureState ==
  /\ worker = "state"
  /\ \/ Fails
     \/ ~stop /\ Stages("save", {"state.json", "log-tail.txt"})
  /\ UNCHANGED <<helper, diskVars>> /\ CaptureSame

\* The save copy or its skipped note, then its two metadata files.
CaptureSave ==
  /\ worker = "save"
  /\ \/ Fails
     \/ ~stop /\ Stages("dump", {"save-metadata.json",
                                 "save-files-private.json"})
  /\ UNCHANGED <<helper, diskVars>> /\ CaptureSame

\* The minidump (asked for by policy; it may fail, or be removed as too large),
\* then hashing: a dropped frame or dump that could not be deleted stays in the
\* directory without being listed.
CaptureDump ==
  /\ worker = "dump"
  /\ \/ Fails
     \/ \E dump \in SUBSET (Optional \cap {"process-private.dmp"}),
           unlisted \in SUBSET Optional :
          /\ unlisted \subseteq job.files \cup dump
          /\ job.image # 0 => "frame.bmp" \notin unlisted
          /\ job' = [job EXCEPT !.files = @ \cup dump,
                                !.listed = (job.files \cup dump) \ unlisted]
          /\ worker' = "manifest"
  /\ UNCHANGED <<helper, diskVars>> /\ CaptureSame

CaptureManifest ==
  /\ worker = "manifest"
  /\ \/ Fails
     \/ ~stop /\ Stages("rename", {"manifest.json"})
  /\ UNCHANGED <<helper, diskVars>> /\ CaptureSame

\* The package published by this capture, first by directory time.
Published(size) ==
  [n |-> job.n, files |-> job.files, listed |-> job.listed,
   image |-> job.image, size |-> size, damaged |-> FALSE]

CapturePublish ==
  /\ worker = "rename"
  /\ \/ Fails /\ UNCHANGED <<live, partials>>
     \/ /\ ~stop
        /\ \E size \in Sizes : live' = <<Published(size)>> \o live
        /\ partials' = partials \ {job.n}
        /\ worker' = "pointer"
        /\ UNCHANGED job
  /\ UNCHANGED <<helper, latest>> /\ CaptureSame

\* latest-live.txt is replaced atomically or left as it was.
CapturePointer ==
  /\ worker = "pointer"
  /\ \/ latest' = job.n /\ job' = [job EXCEPT !.ok = TRUE]
     \/ UNCHANGED <<latest, job>>
  /\ worker' = "prune"
  /\ UNCHANGED <<helper, live, partials>> /\ CaptureSame

CapturePrune ==
  /\ worker = "prune"
  /\ PruneDirectories
  /\ worker' = "status"
  /\ UNCHANGED <<helper, latest, job>> /\ CaptureSame

-----------------------------------------------------------------------------
(* Stop, on the UI thread, and the end of the process.                     *)

StopSame == UNCHANGED <<busy, requestPending, status, requester>> /\ WorkerSame

StopBegin ==
  /\ stopper = "out" /\ requester[UiThread] = "out" /\ started
  /\ started' = FALSE
  /\ stopper' = "flag"
  /\ UNCHANGED <<stopping, stop>> /\ StopSame

StopFlag ==
  /\ stopper = "flag"
  /\ stopping' = TRUE
  /\ stopper' = "request"
  /\ UNCHANGED <<started, stop>> /\ StopSame

StopRequest ==
  /\ stopper = "request"
  /\ stop' = TRUE
  /\ stopper' = "join"
  /\ UNCHANGED <<started, stopping>> /\ StopSame

StopJoin ==
  /\ stopper = "join" /\ worker = "exited"
  /\ stopper' = "done"
  /\ UNCHANGED <<started, stopping, stop>> /\ StopSame

\* The process ends, orderly or cut off; its memory is gone, the disk stays.
\* Cut off while pruning, it may leave a half-removed directory.
HardExit ==
  /\ worker # "none"
  /\ started' = FALSE /\ stopping' = FALSE /\ busy' = FALSE /\ requestPending' = FALSE
  /\ status' = "Idle" /\ stop' = FALSE
  /\ requester' = [r \in Requesters |-> "out"]
  /\ worker' = "none" /\ stopper' = "out"
  /\ job' = NoJob
  /\ helper' = [n \in 1..MaxCaptures |-> "none"]
  /\ UNCHANGED <<diskVars, captures, starts>>

-----------------------------------------------------------------------------
Request(r) ==
  RequestAdmit(r) \/ RequestClaim(r) \/ RequestPost(r) \/ RequestStatus(r)
Wait(r) == WaitCheck(r) \/ WaitTimeout(r)
Capture ==
  \/ CaptureBegin \/ GuestFrameBegin \/ GuestFrameEnd \/ CaptureState
  \/ CaptureSave \/ CaptureDump \/ CaptureManifest \/ CapturePublish
  \/ CapturePointer \/ CapturePrune
WorkerMain ==
  \/ WorkerTop \/ WorkerTake \/ Capture
  \/ WorkerStatus \/ WorkerIdle \/ WorkerNotify
Stop == StopBegin \/ StopFlag \/ StopRequest \/ StopJoin

ManagerNext ==
  \/ ManagerStart \/ HardExit
  \/ \E r \in Requesters : Request(r) \/ Wait(r)
  \/ WorkerMain
  \/ \E n \in 1..MaxCaptures : HelperDone(n)
  \/ Stop

ManagerSpec == ManagerInit /\ [][ManagerNext]_managerVars

\* The rest of a call that has begun.
InsideCall(r) ==
  RequestClaim(r) \/ RequestPost(r) \/ RequestStatus(r) \/ Wait(r)
InsideStop == StopFlag \/ StopRequest \/ StopJoin

-----------------------------------------------------------------------------
\* A directory under its final name is a whole package, whatever write failed
\* and wherever a process was cut off: its manifest exists, the four required
\* artifacts are listed, every listed artifact is there, and its guest frame
\* was read back for this very capture, not by a helper an earlier capture
\* left behind.  Only a package whose removal began can be less.
\* And when a capture has reported completion and no other is under way, the
\* latest pointer names the newest package, and that package is on disk:
\* "READY ... only after successful package/latest-pointer publication".
PackagesAreTrue ==
  /\ \A i \in DOMAIN live :
       LET p == live[i] IN
       ~p.damaged => /\ "manifest.json" \in p.files
                     /\ Required \subseteq p.listed
                     /\ p.listed \subseteq p.files
                     /\ p.image \in {0, p.n}
  /\ status = "Complete" /\ ~busy =>
       \E i \in DOMAIN live :
         /\ live[i].n = latest /\ ~live[i].damaged
         /\ \A j \in DOMAIN live : live[j].n <= latest

\* Pruning never removes the package of the latest capture: not after the
\* capture, and not at start-up unless the half-removed rest of an older one
\* lies before it, whose directory time the failed removal made the newest.
NewestIsKept ==
  [][\A i \in DOMAIN live :
       /\ \A j \in DOMAIN live : live[j].n <= live[i].n
       /\ worker = "none" => \A j \in 1..(i - 1) : ~live[j].damaged
       => \E k \in DOMAIN live' : live'[k] = live[i]]_managerVars

\* An accepted request is answered, or the manager is being stopped or its
\* process ends; a guest-frame helper that never returns cannot prevent it.
\* And Stop ends, whatever the worker is doing and whether or not a guest-frame
\* helper is stuck ("a wedged render fence cannot block diagnostic shutdown").
RequestsAndStopEnd ==
  /\ busy ~> (~busy \/ stop)
  /\ (stopper = "flag") ~> (stopper \in {"done", "out"})

\* The status reads "Capturing" only while a capture is claimed: "reports
\* RECORDING while the worker is active".
StatusShowsActivity == status = "Capturing" => busy
=============================================================================
