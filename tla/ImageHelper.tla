----------------------------- MODULE ImageHelper -----------------------------
(***************************************************************************)
(* The screenshot of a diagnostic snapshot: RunHelper starts a helper      *)
(* process on a shared mapping, in a job of its own, and copies pixels out *)
(* of the mapping only after a clean exit.  The helper takes one frame of  *)
(* the game's window and copies it row by row; it may fail, block, crash   *)
(* or be killed between any two steps, and the window may move, resize or  *)
(* lose the foreground meanwhile.                                          *)
(***************************************************************************)
EXTENDS Naturals, FiniteSets

CONSTANTS Places,    \* window geometries: client origin, size and frame bounds
          SizeOf,    \* size of a geometry, as a function
          HomePlace, \* where the window starts
          PixelRows, \* rows of the image
          MaxMoves   \* changes of the window explored

ASSUME ImagePlaces == HomePlace \in Places /\ SizeOf \in [Places -> Nat] /\ PixelRows \in Nat

VARIABLES iClient,  \* RunHelper: pc, request geometry, outcome, cleanup_complete
          iProcess, \* the helper process: none, suspended, running, exiting, gone
          iInJob,   \* AssignProcessToJobObject succeeded
          iJob,     \* the job's ActiveProcesses (accounting follows the exit)
          iCode,    \* exit code; 2 is a crash or a kill
          iHelper,  \* pc of the helper and the frame it holds
          iMap,     \* the mapping: status, content geometry, pixels
          iWindow,  \* geometry, and whether the game owns the foreground
          iMoved,   \* changes of the window so far
          iStop,    \* stop requested
          iTime,    \* 0 before the helper's 3 s, 1 before the client's 4 s, 2 after
          iImage    \* what the client returned as captured, or <<>>

imageVars == <<iClient, iProcess, iInJob, iJob, iCode, iHelper, iMap, iWindow, iMoved, iStop, iTime, iImage>>

Blank == "zero"
Rows == 1..PixelRows
PendingMap == [status |-> "pending", content |-> Blank, pixels |-> [r \in Rows |-> Blank]]

ImageInit ==
    /\ iClient = [pc |-> "start", request |-> Blank, outcome |-> "none", cleanup |-> TRUE]
    /\ iProcess = "none" /\ iInJob = FALSE /\ iJob = 0 /\ iCode = 0
    /\ iHelper = [pc |-> "none", frame |-> Blank, row |-> 0]
    /\ iMap = PendingMap /\ iWindow = [place |-> HomePlace, owner |-> TRUE]
    /\ iMoved = 0 /\ iStop = FALSE /\ iTime = 0 /\ iImage = <<>>

Alive == iProcess \in {"suspended", "running"}
\* Owned and Attest: the window is the visible foreground window with this geometry.
Owned(place) == iWindow.owner /\ iWindow.place = place

-----------------------------------------------------------------------------
(* Client: CaptureOwnedWindow and RunHelper on the snapshot thread.        *)

At(pc) == iClient.pc = pc
Done(outcome) == [iClient EXCEPT !.pc = "done", !.outcome = outcome]
\* Leaving RunHelper closes the job; kill-on-close ends what is still in it.
Closes == iProcess' = IF iInJob /\ Alive THEN "exiting" ELSE iProcess

ClientStart ==
    /\ At("start")
    /\ iClient' = CASE iStop -> Done("cancelled")
                    [] ~iStop /\ ~iWindow.owner -> Done("owner")
                    [] OTHER -> [iClient EXCEPT !.pc = "hold", !.request = iWindow.place]
    /\ UNCHANGED <<iProcess, iInJob, iJob, iCode, iHelper, iMap, iWindow, iMoved, iStop, iTime, iImage>>
\* SafeHelper, the held executable and its digest, mapping, job, CreateProcess.
ClientCreates(ok) ==
    /\ At("hold")
    /\ IF ok /\ ~iStop
       THEN /\ iClient' = [iClient EXCEPT !.pc = "assign", !.cleanup = FALSE]
            /\ iProcess' = "suspended"
       ELSE iClient' = Done(IF iStop THEN "cancelled" ELSE "setup") /\ UNCHANGED iProcess
    /\ UNCHANGED <<iInJob, iJob, iCode, iHelper, iMap, iWindow, iMoved, iStop, iTime, iImage>>
\* A process that cannot be put into the job is ended before it ever ran.
\* Mutant: it is left to the job's kill-on-close.
LeavesUnassigned == iProcess
EndsUnassigned == "exiting"
ClientAssigns(ok) ==
    /\ At("assign")
    /\ IF ok THEN /\ iInJob' = TRUE /\ iJob' = 1 /\ iClient' = [iClient EXCEPT !.pc = "resume"]
                  /\ UNCHANGED iProcess
       ELSE /\ iProcess' = EndsUnassigned /\ iClient' = [iClient EXCEPT !.pc = "reap", !.outcome = "setup"]
            /\ UNCHANGED <<iInJob, iJob>>
    /\ UNCHANGED <<iCode, iHelper, iMap, iWindow, iMoved, iStop, iTime, iImage>>
ClientResumes(ok) ==
    /\ At("resume")
    /\ IF ok THEN /\ iProcess' = IF iProcess = "suspended" THEN "running" ELSE iProcess
                  /\ iClient' = [iClient EXCEPT !.pc = "wait"]
                  /\ iHelper' = [iHelper EXCEPT !.pc = "open"]
       ELSE /\ iProcess' = "exiting" /\ UNCHANGED iHelper
            /\ iClient' = [iClient EXCEPT !.pc = "reap", !.outcome = "setup"]
    /\ UNCHANGED <<iInJob, iJob, iCode, iMap, iWindow, iMoved, iStop, iTime, iImage>>
\* The 20 ms polls end with the exit, a stop or 4 s; a stop or the hard deadline wins
\* over an exit seen in the same poll, and then the mapping is never looked at.
ClientWaits ==
    /\ At("wait")
    /\ \/ /\ iStop \/ iTime = 2
          /\ iClient' = [iClient EXCEPT !.pc = "reap", !.outcome = IF iStop THEN "cancelled" ELSE "timeout"]
          /\ iProcess' = IF Alive THEN "exiting" ELSE iProcess
       \/ /\ ~iStop /\ iTime < 2 /\ iProcess = "gone"
          /\ iClient' = [iClient EXCEPT !.pc = "drain"] /\ UNCHANGED iProcess
    /\ UNCHANGED <<iInJob, iJob, iCode, iHelper, iMap, iWindow, iMoved, iStop, iTime, iImage>>
\* 500 ms for the ended process, then one look at the job (none for an unassigned one).
ClientReaps(intime) ==
    /\ At("reap") /\ (intime => iProcess = "gone")
    /\ iClient' = [Done(iClient.outcome) EXCEPT !.cleanup = intime /\ (iInJob => iJob = 0)]
    /\ Closes
    /\ UNCHANGED <<iInJob, iJob, iCode, iHelper, iMap, iWindow, iMoved, iStop, iTime, iImage>>
ClientDrains(intime) ==
    /\ At("drain") /\ (intime => iJob = 0)
    /\ iClient' = IF intime THEN [iClient EXCEPT !.pc = "read", !.cleanup = TRUE] ELSE Done("cleanup")
    /\ Closes
    /\ UNCHANGED <<iInJob, iJob, iCode, iHelper, iMap, iWindow, iMoved, iStop, iTime, iImage>>
\* The exit code comes before the header: a failed helper may leave a header of success.
CleanExit == iCode = 0
\* ValidateResult: the shared header describes an image of the request's shape.
ValidateResult == iMap.status = "success"
ClientReads ==
    /\ At("read")
    /\ iClient' = CASE ~CleanExit -> Done("helper exit")
                    [] CleanExit /\ ~ValidateResult -> Done("protocol")
                    [] OTHER -> [iClient EXCEPT !.pc = "admit"]
    /\ UNCHANGED <<iProcess, iInJob, iJob, iCode, iHelper, iMap, iWindow, iMoved, iStop, iTime, iImage>>
\* admit: the same owner, geometry and bounds as before, and the surface the helper saw.
MatchesSurface == iMap.content = iClient.request
ClientAdmits ==
    /\ At("admit")
    /\ iClient' = IF Owned(iClient.request) /\ MatchesSurface
                  THEN [iClient EXCEPT !.pc = "copy"] ELSE Done("owner")
    /\ UNCHANGED <<iProcess, iInJob, iJob, iCode, iHelper, iMap, iWindow, iMoved, iStop, iTime, iImage>>
ClientCopies ==
    /\ At("copy")
    /\ IF iStop THEN iClient' = Done("cancelled") /\ UNCHANGED iImage
       ELSE iClient' = Done("none") /\ iImage' = <<iMap.pixels>>
    /\ UNCHANGED <<iProcess, iInJob, iJob, iCode, iHelper, iMap, iWindow, iMoved, iStop, iTime>>

-----------------------------------------------------------------------------
(* Helper process: wmain, Mapping, CaptureOnce, Publish.                   *)

Runs(pc) == iProcess = "running" /\ iHelper.pc = pc
\* Every Attest checks the 3 s deadline too.
Attests == Owned(iClient.request) /\ iTime = 0
HelperSame == UNCHANGED <<iClient, iInJob, iJob, iWindow, iMoved, iStop, iTime, iImage>>
Steps(pc, map) == /\ iHelper' = [iHelper EXCEPT !.pc = pc] /\ iMap' = map
                  /\ UNCHANGED <<iProcess, iCode>> /\ HelperSame

\* Mapping: only a pending header and zeroed pixels; then the device and the session.
HelperOpens == Runs("open") /\ iTime = 0 /\ iMap = PendingMap /\ Attests /\ Steps("frame", iMap)
\* TryGetNextFrame: the first frame, composed with the window at some geometry since.
HelperFrame(place) ==
    /\ Runs("frame") /\ Attests /\ place \in {HomePlace, iWindow.place}
    /\ iHelper' = [iHelper EXCEPT !.pc = "stage", !.frame = place]
    /\ UNCHANGED <<iProcess, iCode, iMap>> /\ HelperSame
\* The frame's content size must be the one requested; copied to staging, waited for.
Shape == SizeOf[iHelper.frame] = SizeOf[iClient.request]
HelperStages == /\ Runs("stage") /\ Attests /\ Shape
                /\ Steps("rows", iMap)
HelperRow ==
    /\ Runs("rows") /\ iTime = 0 /\ iHelper.row < PixelRows
    /\ iHelper' = [iHelper EXCEPT !.row = @ + 1]
    /\ iMap' = [iMap EXCEPT !.pixels[iHelper.row + 1] = iHelper.frame]
    /\ UNCHANGED <<iProcess, iCode>> /\ HelperSame
\* The last two attestations, VerifyPending, the header as pending, then its status.
HelperFinishes == /\ Runs("rows") /\ iHelper.row = PixelRows /\ Attests /\ Steps("publish", iMap)
HelperPublishes == /\ Runs("publish") /\ iTime = 0 /\ iMap.status = "pending"
                   /\ Steps("status", [iMap EXCEPT !.content = iClient.request])
HelperStatus == Runs("status") /\ Steps("leave", [iMap EXCEPT !.status = "success"])
HelperExits(code) == /\ iHelper' = [iHelper EXCEPT !.pc = "none"] /\ iProcess' = "exiting" /\ iCode' = code
                     /\ HelperSame
HelperLeaves == Runs("leave") /\ iTime = 0 /\ HelperExits(0) /\ UNCHANGED iMap
\* A failure before the view is closed clears the pixels and publishes a failure; one
\* after it leaves the header of success behind.
HelperFails == /\ iProcess = "running" /\ iHelper.pc \in {"open", "frame", "stage", "rows", "publish", "leave"}
               /\ HelperExits(1)
               /\ iMap' = IF iHelper.pc = "leave" THEN iMap
                          ELSE [PendingMap EXCEPT !.status = "failure"]

\* A crash, or somebody ends the process; an ending process is gone some time later,
\* and the job's count after that.
HelperCrashes == /\ iProcess = "running" /\ HelperExits(2) /\ UNCHANGED iMap
ProcessGone == /\ iProcess = "exiting" /\ iProcess' = "gone"
               /\ iCode' = IF iHelper.pc # "none" THEN 2 ELSE iCode
               /\ UNCHANGED <<iHelper, iMap>> /\ HelperSame
JobCounts == /\ iProcess = "gone" /\ iJob = 1 /\ iJob' = 0
             /\ UNCHANGED <<iClient, iProcess, iInJob, iCode, iHelper, iMap, iWindow, iMoved, iStop, iTime, iImage>>

-----------------------------------------------------------------------------

WindowChanges(place, owned) ==
    /\ iMoved < MaxMoves /\ iWindow # [place |-> place, owner |-> owned] /\ ~At("done")
    /\ iWindow' = [place |-> place, owner |-> owned] /\ iMoved' = iMoved + 1
    /\ UNCHANGED <<iClient, iProcess, iInJob, iJob, iCode, iHelper, iMap, iStop, iTime, iImage>>
StopRequested == /\ ~iStop /\ ~At("done") /\ iStop' = TRUE
                 /\ UNCHANGED <<iClient, iProcess, iInJob, iJob, iCode, iHelper, iMap, iWindow, iMoved, iTime, iImage>>
ImageTime == /\ iTime < 2 /\ At("wait") /\ iTime' = iTime + 1
             /\ UNCHANGED <<iClient, iProcess, iInJob, iJob, iCode, iHelper, iMap, iWindow, iMoved, iStop, iImage>>

ImageNext ==
    \/ ClientStart \/ ClientWaits \/ ClientReads \/ ClientAdmits \/ ClientCopies
    \/ \E ok \in BOOLEAN : ClientCreates(ok) \/ ClientAssigns(ok) \/ ClientResumes(ok)
                           \/ ClientReaps(ok) \/ ClientDrains(ok)
    \/ HelperOpens \/ HelperStages \/ HelperRow \/ HelperFinishes \/ HelperPublishes \/ HelperStatus
    \/ HelperLeaves \/ HelperFails \/ HelperCrashes \/ ProcessGone \/ JobCounts
    \/ \E place \in Places : HelperFrame(place)
    \/ \E place \in Places, owned \in BOOLEAN : WindowChanges(place, owned)
    \/ StopRequested \/ ImageTime
ImageSpec == ImageInit /\ [][ImageNext]_imageVars

-----------------------------------------------------------------------------

\* A captured image is whole: every row comes from one frame, of the requested size, of
\* a helper that ended cleanly in its own time and can no longer write; RunHelper never
\* takes the pixels of one that failed late, was killed or timed out.
ImageIsWhole ==
    iImage # <<>> => /\ iProcess = "gone" /\ iJob = 0 /\ iCode = 0 /\ iImage[1] = iMap.pixels
                     /\ iClient.cleanup
                     /\ \E p \in Places : SizeOf[p] = SizeOf[iClient.request] /\ \A r \in Rows : iImage[1][r] = p

\* RunHelper leaves no helper behind: when it has returned the process is ended or
\* ending, and cleanup_complete is only claimed when it is gone.
HelperIsContained ==
    At("done") => ~Alive /\ (iClient.cleanup => iProcess \in {"none", "gone"} /\ iJob = 0)

\* The still-frame helper gives a whole image or none, and is never left behind: both
\* halves of what the snapshot worker relies on when CaptureOwnedWindow returns.
ImageOrNothing == ImageIsWhole /\ HelperIsContained
=============================================================================
