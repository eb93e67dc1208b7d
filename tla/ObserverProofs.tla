----------------------------- MODULE ObserverProofs -----------------------------
(***************************************************************************)
(* What the game host observes and hands to a diagnostic package, for      *)
(* every number of devices, threads, rows and window places:               *)
(*                                                                         *)
(*   ImageIsWholeOrNothing     the image helper gives a whole image, or    *)
(*                             none                                        *)
(*   FrozenObserverIsComplete  a frozen timer observer is read complete    *)
(*   OnePackagePerHold         a hold or a press gives one package         *)
(*   NothingStaysStuck         no trigger outlives the buttons it is about *)
(*   ShortTapsAreIgnored       a tap shorter than the hold time never fires*)
(*   PackagesStayTrue          a package holds what its manifest lists     *)
(*   NewestStays               retention never removes what was announced  *)
(*   AttributionStaysTrue      what a record attributes is what happened   *)
(*   WitnessStaysFaithful      the semaphore journal misses no operation   *)
(*   ListedStaysTrue           a listed save file is what was listed       *)
(***************************************************************************)
EXTENDS MCObservers, MCDiagnosticWorker, Integers, FiniteSetTheorems, SequenceTheorems, WellFoundedInduction, TLAPS

-----------------------------------------------------------------------------
(* The image helper.                                                        *)
(*                                                                          *)
(* The client never looks at the mapping while the helper can still write,  *)
(* and the status "success" is the last thing the helper writes: what is    *)
(* needed is that these two orders hold whatever is killed in between.      *)

Early == {"start", "hold", "assign", "resume"}
Running == {"wait", "reap", "drain"}
Reading == {"read", "admit", "copy"}
HelperSteps == {"none", "open", "frame", "stage", "rows", "publish", "status", "leave"}

ClientSteps == Early \cup Running \cup Reading \cup {"done"}
Outcomes == {"none", "cancelled", "owner", "setup", "timeout", "cleanup", "helper exit", "protocol"}
Clients == [pc : ClientSteps, request : Places \cup {Blank}, outcome : Outcomes, cleanup : BOOLEAN]
Helpers == [pc : HelperSteps, frame : Places \cup {Blank}, row : 0..PixelRows]
Maps == [status : {"pending", "failure", "success"}, content : Places \cup {Blank},
         pixels : [Rows -> Places \cup {Blank}]]

ImageTypes ==
  /\ iClient \in Clients
  /\ iProcess \in {"none", "suspended", "running", "exiting", "gone"}
  /\ iInJob \in BOOLEAN /\ iJob \in {0, 1} /\ (iJob = 1 => iInJob)
  /\ iHelper \in Helpers
  /\ iMap \in Maps
  /\ iWindow \in [place : Places, owner : BOOLEAN]

\* Until the process is resumed the mapping is as it was made.
NotYet ==
  /\ iClient.pc \in Early => iHelper = [pc |-> "none", frame |-> Blank, row |-> 0] /\ iMap = PendingMap
  /\ iClient.pc \in {"start", "hold"} => iProcess = "none" /\ iClient.cleanup /\ iJob = 0
  /\ iClient.pc \in {"assign", "resume"} => iProcess = "suspended"

\* The rows copied so far are of the frame, whose size was compared with the request.
RowsOfFrame ==
  /\ iHelper.pc \in {"open", "frame", "stage"} => iHelper.row = 0
  /\ iHelper.pc \in {"stage", "rows", "publish", "status", "leave"} => iHelper.frame \in Places
  /\ iHelper.pc \in {"rows", "publish", "status", "leave"} =>
       /\ SizeOf[iHelper.frame] = SizeOf[iClient.request]
       /\ \A r \in Rows : r <= iHelper.row => iMap.pixels[r] = iHelper.frame
  /\ iHelper.pc \in {"publish", "status", "leave"} => iHelper.row = PixelRows

\* A header of success stands above a whole image and the helper writes no more.
WholePixels == \E p \in Places : SizeOf[p] = SizeOf[iClient.request] /\ \A r \in Rows : iMap.pixels[r] = p
SuccessIsLast == iMap.status = "success" => iHelper.pc \in {"leave", "none"} /\ WholePixels

\* Where the client is, the process and its job are.
Contained ==
  /\ iClient.pc \in {"assign", "resume"} \cup Running => ~iClient.cleanup
  /\ iClient.pc = "reap" => ~Alive
  /\ iClient.pc = "drain" => iProcess = "gone"
  /\ iClient.pc \in Reading => iProcess = "gone" /\ iJob = 0 /\ iClient.cleanup
  /\ iClient.pc \in {"admit", "copy"} => iCode = 0 /\ iMap.status = "success"
Returned ==
  iImage # <<>> => /\ iClient.pc = "done" /\ iProcess = "gone" /\ iJob = 0 /\ iCode = 0
                   /\ iClient.cleanup /\ iMap.status = "success" /\ iImage = <<iMap.pixels>>

ImageInv == ImageTypes /\ NotYet /\ RowsOfFrame /\ SuccessIsLast /\ Contained /\ Returned /\ HelperIsContained

LEMMA InitImage == ImageInit => ImageInv
<1> SUFFICES ASSUME ImageInit  PROVE ImageInv
  OBVIOUS
<1>1. iClient \in Clients
  BY DEF ImageInit, Clients, ClientSteps, Outcomes, Early
<1>2. iHelper \in Helpers
  BY ImagePlaces DEF ImageInit, Helpers, HelperSteps
<1>3. iMap \in Maps
  BY DEF ImageInit, Maps, PendingMap
<1>4. iWindow \in [place : Places, owner : BOOLEAN]
  BY ImagePlaces DEF ImageInit
<1>5. iJob \in {0, 1} /\ iJob # 1 /\ iProcess = "none"
  BY DEF ImageInit
<1>6. iInJob \in BOOLEAN
  BY Zenon DEF ImageInit
<1>7. ImageTypes
  BY <1>1, <1>2, <1>3, <1>4, <1>5, <1>6 DEF ImageTypes
<1> QED BY <1>7 DEF ImageInit, ImageInv, NotYet, RowsOfFrame, SuccessIsLast, Contained, Returned, HelperIsContained,
  At, Alive, Early, Running, Reading, PendingMap

\* What the helper has written does not depend on where the client is.
LEMMA HelperSide ==
  ASSUME ImageInv, UNCHANGED <<iHelper, iMap>>, iClient'.request = iClient.request
  PROVE  RowsOfFrame' /\ SuccessIsLast'
BY DEF ImageInv, RowsOfFrame, SuccessIsLast, WholePixels

\* The steps of RunHelper.
LEMMA ClientKeeps ==
  ASSUME ImageInv,
         \/ ClientStart \/ ClientWaits \/ ClientReads \/ ClientAdmits \/ ClientCopies
         \/ \E ok \in BOOLEAN : ClientCreates(ok) \/ ClientAssigns(ok) \/ ClientResumes(ok)
                                \/ ClientReaps(ok) \/ ClientDrains(ok)
  PROVE  ImageInv'
<1>1. ImageTypes /\ iClient \in Clients /\ NotYet /\ RowsOfFrame /\ SuccessIsLast /\ Contained /\ Returned /\ HelperIsContained
  BY DEF ImageInv, ImageTypes
<1> DEFINE Client(to, clean) == /\ iClient' \in Clients /\ iClient'.pc = to
                                /\ iClient'.request = iClient.request /\ iClient'.cleanup = clean
<1>2. CASE ClientStart
  <2>1. iClient.pc = "start" /\ UNCHANGED <<iProcess, iInJob, iJob, iCode, iHelper, iMap, iWindow, iImage>>
    BY <1>1, <1>2 DEF ClientStart, At
  <2>2. iWindow.place \in Places
    BY <1>1, <1>2 DEF ImageTypes
  <2>3. /\ iClient' \in Clients /\ iClient'.pc \in {"done", "hold"} /\ iClient'.cleanup = iClient.cleanup
    BY <1>1, <1>2, <2>2 DEF Clients, Outcomes, ClientStart, Done, ClientSteps, Early
  <2>4. ImageTypes'
    BY <1>1, <2>1, <2>2, <2>3 DEF ImageTypes
  <2>5. RowsOfFrame' /\ SuccessIsLast'
    BY <1>1, <2>1, <2>2, <2>3 DEF NotYet, RowsOfFrame, SuccessIsLast, Early, PendingMap
  <2>6. NotYet'
    BY <1>1, <2>1, <2>2, <2>3 DEF NotYet, Contained, Returned, HelperIsContained, At, Alive, Early, Running, Reading
  <2>7. Contained'
    BY <1>1, <2>1, <2>2, <2>3 DEF NotYet, Contained, Returned, HelperIsContained, At, Alive, Early, Running, Reading
  <2>8. Returned'
    BY <1>1, <2>1, <2>2, <2>3 DEF NotYet, Contained, Returned, HelperIsContained, At, Alive, Early, Running, Reading
  <2>9. HelperIsContained'
    BY <1>1, <2>1, <2>2, <2>3 DEF NotYet, Contained, Returned, HelperIsContained, At, Alive, Early, Running, Reading
  <2> QED BY <2>4, <2>5, <2>6, <2>7, <2>8, <2>9 DEF ImageInv
<1>3. CASE ClientWaits
  <2>1. iClient.pc = "wait" /\ UNCHANGED <<iInJob, iJob, iCode, iHelper, iMap, iWindow, iImage>>
    BY <1>1, <1>3 DEF ClientWaits, At
  <2>2. \/ Client("reap", iClient.cleanup) /\ iProcess' = (IF Alive THEN "exiting" ELSE iProcess)
        \/ Client("drain", iClient.cleanup) /\ iProcess = "gone" /\ iProcess' = iProcess
    BY <1>1, <1>3 DEF Clients, Outcomes, ClientWaits, ClientSteps, Running
  <2>3. ImageTypes'
    BY <1>1, <2>1, <2>2 DEF ImageTypes, Alive
  <2>4. RowsOfFrame' /\ SuccessIsLast'
    BY <2>1, <2>2, HelperSide
  <2>5. NotYet'
    BY <1>1, <2>1, <2>2 DEF NotYet, Contained, Returned, HelperIsContained, At, Alive, Early, Running, Reading
  <2>6. Contained'
    BY <1>1, <2>1, <2>2 DEF NotYet, Contained, Returned, HelperIsContained, At, Alive, Early, Running, Reading
  <2>7. Returned'
    BY <1>1, <2>1, <2>2 DEF NotYet, Contained, Returned, HelperIsContained, At, Alive, Early, Running, Reading
  <2>8. HelperIsContained'
    BY <1>1, <2>1, <2>2 DEF NotYet, Contained, Returned, HelperIsContained, At, Alive, Early, Running, Reading
  <2> QED BY <2>3, <2>4, <2>5, <2>6, <2>7, <2>8 DEF ImageInv
<1>4. CASE ClientReads
  <2>1. iClient.pc = "read" /\ UNCHANGED <<iProcess, iInJob, iJob, iCode, iHelper, iMap, iWindow, iImage>>
    BY <1>1, <1>4 DEF ClientReads, At
  <2>2. \/ Client("done", iClient.cleanup)
        \/ Client("admit", iClient.cleanup) /\ iCode = 0 /\ iMap.status = "success"
    BY <1>1, <1>4 DEF Clients, Outcomes, ClientReads, Done, CleanExit, ValidateResult, ClientSteps, Reading
  <2>3. ImageTypes'
    BY <1>1, <2>1, <2>2 DEF ImageTypes
  <2>4. RowsOfFrame' /\ SuccessIsLast'
    BY <2>1, <2>2, HelperSide
  <2>5. NotYet'
    BY <1>1, <2>1, <2>2 DEF NotYet, Contained, Returned, HelperIsContained, At, Alive, Early, Running, Reading
  <2>6. Contained'
    BY <1>1, <2>1, <2>2 DEF NotYet, Contained, Returned, HelperIsContained, At, Alive, Early, Running, Reading
  <2>7. Returned'
    BY <1>1, <2>1, <2>2 DEF NotYet, Contained, Returned, HelperIsContained, At, Alive, Early, Running, Reading
  <2>8. HelperIsContained'
    BY <1>1, <2>1, <2>2 DEF NotYet, Contained, Returned, HelperIsContained, At, Alive, Early, Running, Reading
  <2> QED BY <2>3, <2>4, <2>5, <2>6, <2>7, <2>8 DEF ImageInv
<1>5. CASE ClientAdmits
  <2>1. iClient.pc = "admit" /\ UNCHANGED <<iProcess, iInJob, iJob, iCode, iHelper, iMap, iWindow, iImage>>
    BY <1>1, <1>5 DEF ClientAdmits, At
  <2>2. Client("done", iClient.cleanup) \/ Client("copy", iClient.cleanup)
    BY <1>1, <1>5 DEF Clients, Outcomes, ClientAdmits, Done, ClientSteps, Reading
  <2>3. ImageTypes'
    BY <1>1, <2>1, <2>2 DEF ImageTypes
  <2>4. RowsOfFrame' /\ SuccessIsLast'
    BY <2>1, <2>2, HelperSide
  <2>5. NotYet'
    BY <1>1, <2>1, <2>2 DEF NotYet, Contained, Returned, HelperIsContained, At, Alive, Early, Running, Reading
  <2>6. Contained'
    BY <1>1, <2>1, <2>2 DEF NotYet, Contained, Returned, HelperIsContained, At, Alive, Early, Running, Reading
  <2>7. Returned'
    BY <1>1, <2>1, <2>2 DEF NotYet, Contained, Returned, HelperIsContained, At, Alive, Early, Running, Reading
  <2>8. HelperIsContained'
    BY <1>1, <2>1, <2>2 DEF NotYet, Contained, Returned, HelperIsContained, At, Alive, Early, Running, Reading
  <2> QED BY <2>3, <2>4, <2>5, <2>6, <2>7, <2>8 DEF ImageInv
<1>6. CASE ClientCopies
  <2>1. iClient.pc = "copy" /\ UNCHANGED <<iProcess, iInJob, iJob, iCode, iHelper, iMap, iWindow>>
    BY <1>1, <1>6 DEF ClientCopies, At
  <2>2. Client("done", iClient.cleanup) /\ (iImage' = iImage \/ iImage' = <<iMap.pixels>>)
    BY <1>1, <1>6 DEF Clients, Outcomes, ClientCopies, Done, ClientSteps
  <2>3. ImageTypes'
    BY <1>1, <2>1, <2>2 DEF ImageTypes
  <2>4. RowsOfFrame' /\ SuccessIsLast'
    BY <2>1, <2>2, HelperSide
  <2>5. NotYet'
    BY <1>1, <2>1, <2>2 DEF NotYet, Contained, Returned, HelperIsContained, At, Alive, Early, Running, Reading
  <2>6. Contained'
    BY <1>1, <2>1, <2>2 DEF NotYet, Contained, Returned, HelperIsContained, At, Alive, Early, Running, Reading
  <2>7. Returned'
    BY <1>1, <2>1, <2>2 DEF NotYet, Contained, Returned, HelperIsContained, At, Alive, Early, Running, Reading
  <2>8. HelperIsContained'
    BY <1>1, <2>1, <2>2 DEF NotYet, Contained, Returned, HelperIsContained, At, Alive, Early, Running, Reading
  <2> QED BY <2>3, <2>4, <2>5, <2>6, <2>7, <2>8 DEF ImageInv
<1>7. ASSUME NEW ok \in BOOLEAN, ClientCreates(ok)  PROVE ImageInv'
  <2>1. iClient.pc = "hold" /\ UNCHANGED <<iInJob, iJob, iCode, iHelper, iMap, iWindow, iImage>>
    BY <1>1, <1>7 DEF ClientCreates, At
  <2>2. \/ Client("assign", FALSE) /\ iProcess' = "suspended"
        \/ Client("done", iClient.cleanup) /\ iProcess' = iProcess
    BY <1>1, <1>7 DEF Clients, Outcomes, ClientCreates, Done, ClientSteps, Early
  <2>3. ImageTypes'
    BY <1>1, <2>1, <2>2 DEF ImageTypes
  <2>4. RowsOfFrame' /\ SuccessIsLast'
    BY <2>1, <2>2, HelperSide
  <2>5. NotYet'
    BY <1>1, <2>1, <2>2 DEF NotYet, Contained, Returned, HelperIsContained, At, Alive, Early, Running, Reading
  <2>6. Contained'
    BY <1>1, <2>1, <2>2 DEF NotYet, Contained, Returned, HelperIsContained, At, Alive, Early, Running, Reading
  <2>7. Returned'
    BY <1>1, <2>1, <2>2 DEF NotYet, Contained, Returned, HelperIsContained, At, Alive, Early, Running, Reading
  <2>8. HelperIsContained'
    BY <1>1, <2>1, <2>2 DEF NotYet, Contained, Returned, HelperIsContained, At, Alive, Early, Running, Reading
  <2> QED BY <2>3, <2>4, <2>5, <2>6, <2>7, <2>8 DEF ImageInv
<1>8. ASSUME NEW ok \in BOOLEAN, ClientAssigns(ok)  PROVE ImageInv'
  <2>1. iClient.pc = "assign" /\ UNCHANGED <<iCode, iHelper, iMap, iWindow, iImage>>
    BY <1>1, <1>8 DEF ClientAssigns, At
  <2>2. \/ Client("resume", iClient.cleanup) /\ iInJob' = TRUE /\ iJob' = 1 /\ iProcess' = iProcess
        \/ Client("reap", iClient.cleanup) /\ iProcess' = "exiting" /\ UNCHANGED <<iInJob, iJob>>
    BY <1>1, <1>8 DEF Clients, Outcomes, ClientAssigns, EndsUnassigned, ClientSteps, Early, Running
  <2>3. ImageTypes'
    BY <1>1, <2>1, <2>2 DEF ImageTypes
  <2>4. RowsOfFrame' /\ SuccessIsLast'
    BY <2>1, <2>2, HelperSide
  <2>5. NotYet'
    BY <1>1, <2>1, <2>2 DEF NotYet, Contained, Returned, HelperIsContained, At, Alive, Early, Running, Reading
  <2>6. Contained'
    BY <1>1, <2>1, <2>2 DEF NotYet, Contained, Returned, HelperIsContained, At, Alive, Early, Running, Reading
  <2>7. Returned'
    BY <1>1, <2>1, <2>2 DEF NotYet, Contained, Returned, HelperIsContained, At, Alive, Early, Running, Reading
  <2>8. HelperIsContained'
    BY <1>1, <2>1, <2>2 DEF NotYet, Contained, Returned, HelperIsContained, At, Alive, Early, Running, Reading
  <2> QED BY <2>3, <2>4, <2>5, <2>6, <2>7, <2>8 DEF ImageInv
<1>9. ASSUME NEW ok \in BOOLEAN, ClientResumes(ok)  PROVE ImageInv'
  <2>1. iClient.pc = "resume" /\ UNCHANGED <<iInJob, iJob, iCode, iMap, iWindow, iImage>>
    BY <1>1, <1>9 DEF ClientResumes, At
  <2>2. iProcess = "suspended" /\ iHelper = [pc |-> "none", frame |-> Blank, row |-> 0]
    BY <1>1, <1>9, <2>1 DEF NotYet, Early
  <2>3. [iHelper EXCEPT !.pc = "open"] = [pc |-> "open", frame |-> Blank, row |-> 0]
    BY <1>1, <1>9, <2>2
  <2>4. \/ /\ Client("wait", iClient.cleanup) /\ iProcess' = "running"
           /\ iHelper' = [pc |-> "open", frame |-> Blank, row |-> 0]
        \/ Client("reap", iClient.cleanup) /\ iProcess' = "exiting" /\ iHelper' = iHelper
    BY <1>1, <1>9, <2>2, <2>3 DEF Clients, Outcomes, ClientResumes, ClientSteps, Running
  <2>5. ImageTypes'
    BY <1>1, <2>1, <2>2, <2>3, <2>4, ImagePlaces DEF ImageTypes, Helpers, HelperSteps
  <2>6. RowsOfFrame' /\ SuccessIsLast'
    BY <1>1, <2>1, <2>2, <2>3, <2>4 DEF NotYet, RowsOfFrame, SuccessIsLast, Early, PendingMap
  <2>7. NotYet'
    BY <1>1, <2>1, <2>2, <2>3, <2>4 DEF NotYet, Contained, Returned, HelperIsContained, At, Alive, Early, Running,
                                        Reading
  <2>8. Contained'
    BY <1>1, <2>1, <2>2, <2>3, <2>4 DEF NotYet, Contained, Returned, HelperIsContained, At, Alive, Early, Running,
                                        Reading
  <2>9. Returned'
    BY <1>1, <2>1, <2>2, <2>3, <2>4 DEF NotYet, Contained, Returned, HelperIsContained, At, Alive, Early, Running,
                                        Reading
  <2>10. HelperIsContained'
    BY <1>1, <2>1, <2>2, <2>3, <2>4 DEF NotYet, Contained, Returned, HelperIsContained, At, Alive, Early, Running,
                                        Reading
  <2> QED BY <2>5, <2>6, <2>7, <2>8, <2>9, <2>10 DEF ImageInv
<1>10. ASSUME NEW ok \in BOOLEAN, ClientReaps(ok)  PROVE ImageInv'
  <2>1. iClient.pc = "reap" /\ ~Alive /\ UNCHANGED <<iInJob, iJob, iCode, iHelper, iMap, iWindow, iImage>>
    BY <1>1, <1>10 DEF ClientReaps, At, Contained
  <2>2. iProcess' = iProcess
    BY <1>1, <1>10, <2>1 DEF ClientReaps, Closes
  <2>3. \E b \in BOOLEAN : Client("done", b) /\ (b => iProcess = "gone" /\ (iInJob => iJob = 0))
    BY <1>1, <1>10 DEF Clients, Outcomes, ClientReaps, Done, ClientSteps
  <2>4. ImageTypes'
    BY <1>1, <2>1, <2>2, <2>3 DEF ImageTypes
  <2>5. RowsOfFrame' /\ SuccessIsLast'
    BY <2>1, <2>2, <2>3, HelperSide
  <2>6. NotYet'
    BY <1>1, <2>1, <2>2, <2>3 DEF NotYet, Contained, Returned, HelperIsContained, At, Alive, Early, Running, Reading,
                                  ImageTypes
  <2>7. Contained'
    BY <1>1, <2>1, <2>2, <2>3 DEF NotYet, Contained, Returned, HelperIsContained, At, Alive, Early, Running, Reading,
                                  ImageTypes
  <2>8. Returned'
    BY <1>1, <2>1, <2>2, <2>3 DEF NotYet, Contained, Returned, HelperIsContained, At, Alive, Early, Running, Reading,
                                  ImageTypes
  <2>9. HelperIsContained'
    BY <1>1, <2>1, <2>2, <2>3 DEF NotYet, Contained, Returned, HelperIsContained, At, Alive, Early, Running, Reading,
                                  ImageTypes
  <2> QED BY <2>4, <2>5, <2>6, <2>7, <2>8, <2>9 DEF ImageInv
<1>11. ASSUME NEW ok \in BOOLEAN, ClientDrains(ok)  PROVE ImageInv'
  <2>1. iClient.pc = "drain" /\ iProcess = "gone" /\ UNCHANGED <<iInJob, iJob, iCode, iHelper, iMap, iWindow, iImage>>
    BY <1>1, <1>11 DEF ClientDrains, At, Contained
  <2>2. iProcess' = iProcess
    BY <1>1, <1>11, <2>1 DEF ClientDrains, Closes, Alive
  <2>3. \/ Client("read", TRUE) /\ iJob = 0
        \/ Client("done", iClient.cleanup)
    BY <1>1, <1>11 DEF Clients, Outcomes, ClientDrains, Done, ClientSteps, Reading
  <2>4. ImageTypes'
    BY <1>1, <2>1, <2>2, <2>3 DEF ImageTypes
  <2>5. RowsOfFrame' /\ SuccessIsLast'
    BY <2>1, <2>2, <2>3, HelperSide
  <2>6. NotYet'
    BY <1>1, <2>1, <2>2, <2>3 DEF NotYet, Contained, Returned, HelperIsContained, At, Alive, Early, Running, Reading
  <2>7. Contained'
    BY <1>1, <2>1, <2>2, <2>3 DEF NotYet, Contained, Returned, HelperIsContained, At, Alive, Early, Running, Reading
  <2>8. Returned'
    BY <1>1, <2>1, <2>2, <2>3 DEF NotYet, Contained, Returned, HelperIsContained, At, Alive, Early, Running, Reading
  <2>9. HelperIsContained'
    BY <1>1, <2>1, <2>2, <2>3 DEF NotYet, Contained, Returned, HelperIsContained, At, Alive, Early, Running, Reading
  <2> QED BY <2>4, <2>5, <2>6, <2>7, <2>8, <2>9 DEF ImageInv
<1> QED BY <1>2, <1>3, <1>4, <1>5, <1>6, <1>7, <1>8, <1>9, <1>10, <1>11

\* The helper runs only while RunHelper polls.
LEMMA RunsWhilePolled ==
  ASSUME ImageInv, iProcess = "running"
  PROVE  iClient.pc = "wait" /\ iImage = <<>>
<1>1. iClient.pc \in ClientSteps
  BY DEF ImageInv, ImageTypes, Clients
<1>2. iClient.pc = "wait"
  BY <1>1 DEF ImageInv, NotYet, Contained, HelperIsContained, At, Alive, ClientSteps, Early, Running, Reading
<1> QED BY <1>2 DEF ImageInv, Returned

LEMMA PollingSide ==
  ASSUME ImageInv, iClient.pc = "wait", UNCHANGED <<iClient, iImage>>
  PROVE  NotYet' /\ Contained' /\ Returned' /\ HelperIsContained'
BY DEF ImageInv, NotYet, Contained, Returned, HelperIsContained, At, Early, Running, Reading

\* The steps of the helper process.
LEMMA HelperKeeps ==
  ASSUME ImageInv,
         \/ HelperOpens \/ HelperStages \/ HelperRow \/ HelperFinishes \/ HelperPublishes \/ HelperStatus
         \/ HelperLeaves \/ HelperFails \/ HelperCrashes
         \/ \E place \in Places : HelperFrame(place)
  PROVE  ImageInv'
<1>1. ImageTypes /\ RowsOfFrame /\ SuccessIsLast /\ iHelper \in Helpers /\ iMap \in Maps
  BY DEF ImageInv, ImageTypes
<1>2. iProcess = "running" /\ HelperSame
  BY DEF HelperOpens, HelperStages, HelperRow, HelperFinishes, HelperPublishes, HelperStatus, HelperLeaves,
     HelperFails, HelperCrashes, HelperFrame, Runs, Steps, HelperExits
<1>3. iClient.pc = "wait" /\ UNCHANGED <<iClient, iInJob, iJob, iWindow, iImage>>
  BY <1>2, RunsWhilePolled DEF HelperSame
<1>4. NotYet' /\ Contained' /\ Returned' /\ HelperIsContained'
  BY <1>3, PollingSide
<1>5. ASSUME iProcess' \in {"running", "exiting"}, iHelper' \in Helpers, iMap' \in Maps  PROVE ImageTypes'
  BY <1>1, <1>3, <1>5 DEF ImageTypes
<1>6. SUFFICES /\ iProcess' \in {"running", "exiting"} /\ iHelper' \in Helpers /\ iMap' \in Maps
               /\ RowsOfFrame' /\ SuccessIsLast'
  BY <1>4, <1>5 DEF ImageInv
<1>7. CASE HelperOpens
  <2>1. iHelper.pc = "open" /\ iHelper' = [iHelper EXCEPT !.pc = "frame"] /\ iMap' = iMap /\ iProcess' = iProcess
    BY <1>7 DEF HelperOpens, Runs, Steps
  <2>2. iHelper' \in Helpers /\ iHelper'.pc = "frame" /\ iHelper'.row = iHelper.row
    BY <1>1, <2>1 DEF Helpers, HelperSteps
  <2> QED BY <1>1, <1>2, <1>3, <2>1, <2>2 DEF RowsOfFrame, SuccessIsLast
<1>8. ASSUME NEW place \in Places, HelperFrame(place)
      PROVE  /\ iProcess' \in {"running", "exiting"} /\ iHelper' \in Helpers /\ iMap' \in Maps
             /\ RowsOfFrame' /\ SuccessIsLast'
  <2>1. iHelper.pc = "frame" /\ iHelper' = [iHelper EXCEPT !.pc = "stage", !.frame = place] /\ iMap' = iMap /\ iProcess' = iProcess
    BY <1>8 DEF HelperFrame, Runs
  <2>2. iHelper' \in Helpers /\ iHelper'.pc = "stage" /\ iHelper'.frame = place /\ iHelper'.row = iHelper.row
    BY <1>1, <2>1 DEF Helpers, HelperSteps
  <2> QED BY <1>1, <1>2, <1>3, <2>1, <2>2 DEF RowsOfFrame, SuccessIsLast
<1>9. CASE HelperStages
  <2>1. /\ iHelper.pc = "stage" /\ iHelper' = [iHelper EXCEPT !.pc = "rows"] /\ iMap' = iMap /\ iProcess' = iProcess
        /\ SizeOf[iHelper.frame] = SizeOf[iClient.request]
    BY <1>9 DEF HelperStages, Runs, Steps, Shape
  <2>2. iHelper' \in Helpers /\ iHelper'.pc = "rows" /\ iHelper'.frame = iHelper.frame /\ iHelper'.row = iHelper.row
    BY <1>1, <2>1 DEF Helpers, HelperSteps
  <2>3. RowsOfFrame'
    BY <1>1, <1>3, <2>1, <2>2, ImagePlaces DEF RowsOfFrame, Rows
  <2> QED BY <1>1, <1>2, <1>3, <2>1, <2>2, <2>3 DEF SuccessIsLast
<1>10. CASE HelperRow
  <2>1. /\ iHelper.pc = "rows" /\ iHelper.row < PixelRows /\ iProcess' = iProcess
        /\ iHelper' = [iHelper EXCEPT !.row = iHelper.row + 1]
        /\ iMap' = [iMap EXCEPT !.pixels[iHelper.row + 1] = iHelper.frame]
    BY <1>10 DEF HelperRow, Runs
  <2>2. iHelper.row \in 0..PixelRows /\ iHelper.row + 1 \in Rows /\ iHelper.row + 1 \in 0..PixelRows
    BY <1>1, <2>1, ImagePlaces DEF Helpers, Rows
  <2>3. iHelper' \in Helpers /\ iHelper'.pc = "rows" /\ iHelper'.frame = iHelper.frame /\ iHelper'.row = iHelper.row + 1
    BY <1>1, <2>1, <2>2 DEF Helpers
  <2>4. /\ iMap' \in Maps /\ iMap'.status = iMap.status
        /\ iMap'.pixels = [iMap.pixels EXCEPT ![iHelper.row + 1] = iHelper.frame]
    BY <1>1, <2>1, <2>2 DEF Maps, RowsOfFrame
  <2>5. iHelper.frame \in Places /\ SizeOf[iHelper.frame] = SizeOf[iClient.request]
        /\ \A r \in Rows : r <= iHelper.row => iMap.pixels[r] = iHelper.frame
    BY <1>1, <2>1 DEF RowsOfFrame
  <2>6. ASSUME NEW r \in Rows, r <= iHelper.row + 1  PROVE iMap'.pixels[r] = iHelper.frame
    <3>1. iMap.pixels \in [Rows -> Places \cup {Blank}]
      BY <1>1 DEF Maps
    <3>2. CASE r = iHelper.row + 1
      BY <2>2, <2>4, <3>1, <3>2
    <3>3. CASE r # iHelper.row + 1
      <4>1. r <= iHelper.row
        BY <2>2, <2>6, <3>3, ImagePlaces DEF Rows
      <4> QED BY <2>4, <2>5, <3>1, <3>3, <4>1
    <3> QED BY <3>2, <3>3
  <2>7. RowsOfFrame'
    BY <1>3, <2>3, <2>5, <2>6 DEF RowsOfFrame
  <2>8. SuccessIsLast'
    BY <1>1, <2>1, <2>4 DEF SuccessIsLast
  <2> QED BY <1>2, <2>1, <2>3, <2>4, <2>7, <2>8
<1>11. CASE HelperFinishes
  <2>1. /\ iHelper.pc = "rows" /\ iHelper.row = PixelRows /\ iMap' = iMap /\ iProcess' = iProcess
        /\ iHelper' = [iHelper EXCEPT !.pc = "publish"]
    BY <1>11 DEF HelperFinishes, Runs, Steps
  <2>2. iHelper' \in Helpers /\ iHelper'.pc = "publish" /\ iHelper'.frame = iHelper.frame /\ iHelper'.row = iHelper.row
    BY <1>1, <2>1 DEF Helpers, HelperSteps
  <2> QED BY <1>1, <1>2, <1>3, <2>1, <2>2 DEF RowsOfFrame, SuccessIsLast
<1>12. CASE HelperPublishes
  <2>1. /\ iHelper.pc = "publish" /\ iMap.status = "pending" /\ iProcess' = iProcess
        /\ iHelper' = [iHelper EXCEPT !.pc = "status"]
        /\ iMap' = [iMap EXCEPT !.content = iClient.request]
    BY <1>12 DEF HelperPublishes, Runs, Steps
  <2>2. iHelper' \in Helpers /\ iHelper'.pc = "status" /\ iHelper'.frame = iHelper.frame /\ iHelper'.row = iHelper.row
    BY <1>1, <2>1 DEF Helpers, HelperSteps
  <2>3. iClient.request \in Places \cup {Blank}
    BY <1>1 DEF ImageTypes, Clients
  <2>4. iMap' \in Maps /\ iMap'.status = "pending" /\ iMap'.pixels = iMap.pixels
    BY <1>1, <2>1, <2>3 DEF Maps
  <2> QED BY <1>1, <1>2, <1>3, <2>1, <2>2, <2>4 DEF RowsOfFrame, SuccessIsLast
<1>13. CASE HelperStatus
  <2>1. /\ iHelper.pc = "status" /\ iProcess' = iProcess
        /\ iHelper' = [iHelper EXCEPT !.pc = "leave"]
        /\ iMap' = [iMap EXCEPT !.status = "success"]
    BY <1>13 DEF HelperStatus, Runs, Steps
  <2>2. iHelper' \in Helpers /\ iHelper'.pc = "leave" /\ iHelper'.frame = iHelper.frame /\ iHelper'.row = iHelper.row
    BY <1>1, <2>1 DEF Helpers, HelperSteps
  <2>3. iMap' \in Maps /\ iMap'.pixels = iMap.pixels
    BY <1>1, <2>1 DEF Maps
  <2>4. RowsOfFrame'
    BY <1>1, <1>3, <2>1, <2>2, <2>3 DEF RowsOfFrame
  <2>5. iHelper.frame \in Places /\ SizeOf[iHelper.frame] = SizeOf[iClient.request] /\ iHelper.row = PixelRows
        /\ \A r \in Rows : r <= iHelper.row => iMap.pixels[r] = iHelper.frame
    BY <1>1, <2>1 DEF RowsOfFrame
  <2>6. \A r \in Rows : iMap'.pixels[r] = iHelper.frame
    BY <2>3, <2>5, ImagePlaces DEF Rows
  <2>7. WholePixels'
    BY <1>3, <2>5, <2>6 DEF WholePixels
  <2> QED BY <1>2, <2>1, <2>2, <2>3, <2>4, <2>7 DEF SuccessIsLast
<1>14. ASSUME NEW code \in {0, 1, 2}, HelperExits(code), iMap' \in Maps,
              iMap' = iMap \/ iMap'.status # "success"
       PROVE  /\ iProcess' \in {"running", "exiting"} /\ iHelper' \in Helpers /\ iMap' \in Maps
              /\ RowsOfFrame' /\ SuccessIsLast'
  <2>1. iHelper' = [iHelper EXCEPT !.pc = "none"] /\ iProcess' = "exiting"
    BY <1>14 DEF HelperExits
  <2>2. iHelper' \in Helpers /\ iHelper'.pc = "none"
    BY <1>1, <2>1 DEF Helpers, HelperSteps
  <2>3. RowsOfFrame'
    BY <2>2 DEF RowsOfFrame
  <2>4. SuccessIsLast'
    BY <1>1, <1>3, <1>14, <2>2 DEF SuccessIsLast, WholePixels
  <2> QED BY <1>14, <2>1, <2>2, <2>3, <2>4
<1>15. CASE HelperLeaves \/ HelperCrashes
  <2>1. PICK code \in {0, 1, 2} : HelperExits(code) /\ iMap' = iMap
    BY <1>15 DEF HelperLeaves, HelperCrashes
  <2> QED BY <1>1, <1>14, <2>1
<1>16. CASE HelperFails
  <2>1. HelperExits(1) /\ (iMap' = iMap \/ iMap' = [PendingMap EXCEPT !.status = "failure"])
    BY <1>16 DEF HelperFails
  <2>2. LET failed == [PendingMap EXCEPT !.status = "failure"]
        IN failed \in Maps /\ failed.status # "success"
    BY DEF PendingMap, Maps
  <2> QED BY <1>1, <1>14, <2>1, <2>2
<1> QED BY <1>7, <1>8, <1>9, <1>10, <1>11, <1>12, <1>13, <1>15, <1>16

\* Everything else: the process disappears, the job's count follows, the window
\* changes, a stop is requested, time passes.
LEMMA OthersKeep ==
  ASSUME ImageInv,
         \/ ProcessGone \/ JobCounts \/ StopRequested \/ ImageTime \/ UNCHANGED imageVars
         \/ \E place \in Places, owned \in BOOLEAN : WindowChanges(place, owned)
  PROVE  ImageInv'
<1>1. ImageTypes /\ NotYet /\ RowsOfFrame /\ SuccessIsLast /\ Contained /\ Returned /\ HelperIsContained
  BY DEF ImageInv
<1>2. UNCHANGED <<iClient, iInJob, iHelper, iMap, iImage>>
  BY DEF ProcessGone, HelperSame, JobCounts, StopRequested, ImageTime, imageVars, WindowChanges
<1>3. RowsOfFrame' /\ SuccessIsLast'
  BY <1>2, HelperSide
<1>4. CASE ProcessGone
  <2>1. iProcess = "exiting" /\ iProcess' = "gone" /\ UNCHANGED <<iJob, iWindow>>
    BY <1>4 DEF ProcessGone, HelperSame
  <2>2. ImageTypes'
    BY <1>1, <1>2, <2>1 DEF ImageTypes
  <2>3. NotYet' /\ Contained' /\ Returned' /\ HelperIsContained'
    BY <1>1, <1>2, <2>1 DEF NotYet, Contained, Returned, HelperIsContained, At, Alive, Early, Running, Reading
  <2> QED BY <1>3, <2>2, <2>3 DEF ImageInv
<1>5. CASE JobCounts
  <2>1. iProcess = "gone" /\ iJob' = 0 /\ UNCHANGED <<iProcess, iCode, iWindow>>
    BY <1>5 DEF JobCounts
  <2>2. ImageTypes'
    BY <1>1, <1>2, <2>1 DEF ImageTypes
  <2>3. NotYet' /\ Contained' /\ Returned' /\ HelperIsContained'
    BY <1>1, <1>2, <2>1 DEF NotYet, Contained, Returned, HelperIsContained, At, Alive, Early, Running, Reading
  <2> QED BY <1>3, <2>2, <2>3 DEF ImageInv
<1>6. CASE \/ StopRequested \/ ImageTime \/ UNCHANGED imageVars
           \/ \E place \in Places, owned \in BOOLEAN : WindowChanges(place, owned)
  <2>1. UNCHANGED <<iProcess, iJob, iCode>>
    BY <1>6 DEF StopRequested, ImageTime, imageVars, WindowChanges
  <2>2. iWindow' \in [place : Places, owner : BOOLEAN]
    BY <1>1, <1>6 DEF StopRequested, ImageTime, imageVars, WindowChanges, ImageTypes
  <2>3. ImageTypes'
    BY <1>1, <1>2, <2>1, <2>2 DEF ImageTypes
  <2>4. NotYet' /\ Contained' /\ Returned' /\ HelperIsContained'
    BY <1>1, <1>2, <2>1 DEF NotYet, Contained, Returned, HelperIsContained, At, Alive, Early, Running, Reading
  <2> QED BY <1>3, <2>3, <2>4 DEF ImageInv
<1> QED BY <1>4, <1>5, <1>6

\* For every set of window places and every number of rows: CaptureOwnedWindow
\* returns all rows of one frame of the requested size from a helper that can no
\* longer write, or nothing, and leaves no helper running.
THEOREM ImageIsWholeOrNothing == ImageSpec => []ImageOrNothing
<1>1. ImageInv /\ [ImageNext]_imageVars => ImageInv'
  BY ClientKeeps, HelperKeeps, OthersKeep DEF ImageNext
<1>2. ImageInv => ImageOrNothing
  BY DEF ImageInv, Returned, SuccessIsLast, WholePixels, HelperIsContained, ImageOrNothing, ImageIsWhole
<1> QED BY InitImage, <1>1, <1>2, PTL DEF ImageSpec

-----------------------------------------------------------------------------
(* The timer observer.                                                      *)
(*                                                                          *)
(* A frozen copy is complete because the calls in flight are counted: the   *)
(* counter is the number of threads between reserve and complete, so that   *)
(* zero means nobody can publish any more.                                  *)

CallSteps == {"out", "reserve", "plain", "entry", "original", "complete"}
RowTypes == [ordinal : Nat, entry : Nat, exit : Nat, issue : BOOLEAN]
CallTypes == [pc : CallSteps, row : RowTypes, calls : Nat]
CountTypes == [observed : Nat, admitted : Nat, stored : Nat, completed : Nat, overflow : Nat, outside : Nat]

TimerTypes ==
  /\ oAccepting \in BOOLEAN /\ oFailed \in BOOLEAN
  /\ oCounts \in CountTypes /\ oRows \in Seq(RowTypes)
  /\ oInFlight \in Nat /\ oTick \in Nat /\ oOriginal \in Nat
  /\ oCall \in [TimerCallers -> CallTypes]

InFlight == {t \in TimerCallers : oCall[t].pc \in {"entry", "original", "complete"}}
FlightIsCounted == IsFiniteSet(InFlight) /\ oInFlight = Cardinality(InFlight)

\* The counters tie out; a lock that could not be taken is the only loss.
CountsTie ==
  /\ oCounts.observed = oCounts.admitted + oCounts.overflow
  /\ oCounts.stored = Len(oRows)
  /\ oCounts.completed = oCounts.stored + oCounts.outside
  /\ ~oFailed => oCounts.admitted = oCounts.completed + oInFlight /\ oOriginal = oCounts.observed

\* After the copy nothing that it holds can change.
FrozenIsFinal ==
  oSnapshot # <<>> =>
    /\ ~oAccepting /\ oInFlight = 0
    /\ oSnapshot[1].counts = oCounts /\ oSnapshot[1].rows = oRows
    /\ ~oSnapshot[1].failed => oCounts.admitted = oCounts.completed /\ oOriginal = oCounts.observed

TimerInv == TimerTypes /\ FlightIsCounted /\ CountsTie /\ FrozenIsFinal

LEMMA InitTimer == TimerInit => TimerInv
<1> SUFFICES ASSUME TimerInit  PROVE TimerInv
  OBVIOUS
<1>1. NoRow \in RowTypes
  BY DEF NoRow, RowTypes
<1>2. oCall \in [TimerCallers -> CallTypes] /\ oCounts \in CountTypes /\ oRows \in Seq(RowTypes)
  BY <1>1 DEF TimerInit, CallTypes, CallSteps, CountTypes
<1>3. oAccepting \in BOOLEAN /\ oFailed \in BOOLEAN
  BY Zenon DEF TimerInit
<1>4. TimerTypes
  BY <1>2, <1>3 DEF TimerInit, TimerTypes
<1>5. InFlight = {}
  BY DEF TimerInit, InFlight
<1>6. FlightIsCounted
  BY <1>5, FS_EmptySet DEF TimerInit, FlightIsCounted
<1>7. CountsTie
  BY DEF TimerInit, CountsTie
<1> QED BY <1>4, <1>6, <1>7 DEF TimerInit, TimerInv, FrozenIsFinal

\* A call goes on to another step.
LEMMA CallerMoves ==
  ASSUME TimerTypes, NEW t \in TimerCallers, NEW pc \in CallSteps, NEW row \in RowTypes, CallerGoes(t, pc, row)
  PROVE  /\ oCall' \in [TimerCallers -> CallTypes] /\ oCall'[t].pc = pc
         /\ \A u \in TimerCallers \ {t} : oCall'[u] = oCall[u]
BY DEF TimerTypes, CallerGoes, CallTypes

\* ... and the calls in flight are counted on.
LEMMA FlightStays ==
  ASSUME FlightIsCounted, NEW t \in TimerCallers, \A u \in TimerCallers \ {t} : oCall'[u] = oCall[u],
         oCall'[t].pc \in {"entry", "original", "complete"} <=> oCall[t].pc \in {"entry", "original", "complete"},
         oInFlight' = oInFlight
  PROVE  FlightIsCounted'
<1>1. InFlight' = InFlight
  BY DEF InFlight
<1> QED BY <1>1 DEF FlightIsCounted

LEMMA FlightGrows ==
  ASSUME FlightIsCounted, oInFlight \in Nat, NEW t \in TimerCallers,
         \A u \in TimerCallers \ {t} : oCall'[u] = oCall[u],
         oCall'[t].pc = "entry", oCall[t].pc = "reserve", oInFlight' = oInFlight + 1
  PROVE  FlightIsCounted'
<1>1. InFlight' = InFlight \cup {t} /\ t \notin InFlight
  BY DEF InFlight
<1>2. IsFiniteSet(InFlight \cup {t}) /\ Cardinality(InFlight \cup {t}) = Cardinality(InFlight) + 1
  BY <1>1, FS_AddElement DEF FlightIsCounted
<1> QED BY <1>1, <1>2 DEF FlightIsCounted

LEMMA FlightShrinks ==
  ASSUME FlightIsCounted, oInFlight \in Nat, NEW t \in TimerCallers,
         \A u \in TimerCallers \ {t} : oCall'[u] = oCall[u],
         oCall'[t].pc = "out", oCall[t].pc = "complete", oInFlight' = oInFlight - 1
  PROVE  FlightIsCounted' /\ oInFlight' \in Nat /\ oInFlight > 0
<1>1. InFlight' = InFlight \ {t} /\ t \in InFlight
  BY DEF InFlight
<1>2. IsFiniteSet(InFlight \ {t}) /\ Cardinality(InFlight \ {t}) = Cardinality(InFlight) - 1
  BY <1>1, FS_RemoveElement DEF FlightIsCounted
<1>3. Cardinality(InFlight \ {t}) \in Nat
  BY <1>2, FS_CardinalityType
<1> QED BY <1>1, <1>2, <1>3 DEF FlightIsCounted

\* A call that moves without touching what is recorded.
LEMMA QuietCall ==
  ASSUME TimerInv, NEW t \in TimerCallers, oCall' \in [TimerCallers -> CallTypes],
         \A u \in TimerCallers \ {t} : oCall'[u] = oCall[u],
         oCall'[t].pc \in {"entry", "original", "complete"} <=> oCall[t].pc \in {"entry", "original", "complete"},
         UNCHANGED <<oAccepting, oCounts, oRows, oInFlight, oFailed, oTick, oOriginal, oSnapshot>>
  PROVE  TimerInv'
<1>1. TimerTypes'
  BY DEF TimerInv, TimerTypes
<1>2. FlightIsCounted'
  BY FlightStays DEF TimerInv
<1> QED BY <1>1, <1>2 DEF TimerInv, CountsTie, FrozenIsFinal

LEMMA TimerSteps == TimerInv /\ [TimerNext]_timerVars => TimerInv'
<1> SUFFICES ASSUME TimerInv, [TimerNext]_timerVars  PROVE TimerInv'
  OBVIOUS
<1>1. TimerTypes /\ FlightIsCounted /\ CountsTie /\ FrozenIsFinal
  BY DEF TimerInv
<1>2. NoRow \in RowTypes
  BY DEF NoRow, RowTypes
<1>3. ASSUME NEW t \in TimerCallers, Invoke(t)  PROVE TimerInv'
  <2>1. oCall[t].pc = "out"
    BY <1>3 DEF Invoke
  <2>2. PICK to \in {"reserve", "plain"} : oCall' = [oCall EXCEPT ![t].pc = to, ![t].calls = @ + 1]
    BY <1>3 DEF Invoke
  <2>3. /\ oCall' \in [TimerCallers -> CallTypes] /\ oCall'[t].pc = to
        /\ \A u \in TimerCallers \ {t} : oCall'[u] = oCall[u]
    BY <1>1, <2>2 DEF TimerTypes, CallTypes, CallSteps
  <2>4. UNCHANGED <<oAccepting, oCounts, oRows, oInFlight, oFailed, oTick, oOriginal, oSnapshot>>
    BY <1>3 DEF Invoke
  <2> QED BY <2>1, <2>3, <2>4, QuietCall
<1>4. ASSUME NEW t \in TimerCallers, PlainEnds(t)  PROVE TimerInv'
  <2>1. oCall[t].pc = "plain" /\ CallerGoes(t, "out", NoRow)
        /\ UNCHANGED <<oAccepting, oCounts, oRows, oInFlight, oFailed, oTick, oOriginal, oSnapshot>>
    BY <1>4 DEF PlainEnds
  <2>2. /\ oCall' \in [TimerCallers -> CallTypes] /\ oCall'[t].pc = "out"
        /\ \A u \in TimerCallers \ {t} : oCall'[u] = oCall[u]
    BY <1>1, <1>2, <2>1, CallerMoves DEF CallSteps
  <2> QED BY <2>1, <2>2, QuietCall
<1>5. ASSUME NEW t \in TimerCallers, NEW ok \in BOOLEAN, CaptureEntry(t, ok) \/ OriginalEnds(t, ok)
      PROVE  TimerInv'
  <2>1. /\ oCall[t].pc \in {"entry", "original"}
        /\ UNCHANGED <<oAccepting, oCounts, oRows, oInFlight, oFailed, oTick, oOriginal, oSnapshot>>
    BY <1>5 DEF CaptureEntry, OriginalEnds
  <2>2. oCall[t].row \in RowTypes /\ oTick \in Nat
    BY <1>1 DEF TimerTypes, CallTypes
  <2>3. \E to \in {"original", "complete"}, row \in RowTypes : CallerGoes(t, to, row)
    <3>1. CASE CaptureEntry(t, ok)
      <4>1. [oCall[t].row EXCEPT !.entry = IF ok THEN oTick ELSE 0, !.issue = ~ok] \in RowTypes
        BY <2>2 DEF RowTypes
      <4> QED BY <3>1, <4>1 DEF CaptureEntry
    <3>2. CASE OriginalEnds(t, ok)
      <4>1. [oCall[t].row EXCEPT !.exit = IF ok THEN oTick ELSE 0, !.issue = @ \/ ~ok] \in RowTypes
        BY <2>2 DEF RowTypes
      <4> QED BY <3>2, <4>1 DEF OriginalEnds
    <3> QED BY <1>5, <3>1, <3>2
  <2>4. /\ oCall' \in [TimerCallers -> CallTypes] /\ oCall'[t].pc \in {"original", "complete"}
        /\ \A u \in TimerCallers \ {t} : oCall'[u] = oCall[u]
    BY <1>1, <2>3, CallerMoves DEF CallSteps
  <2> QED BY <2>1, <2>4, QuietCall
<1>6. ASSUME NEW t \in TimerCallers, Reserve(t)  PROVE TimerInv'
  <2>1. oCall[t].pc = "reserve" /\ UNCHANGED <<oAccepting, oRows, oFailed, oTick, oSnapshot>>
    BY <1>6 DEF Reserve
  <2>2. CASE ~oAccepting
    <3>1. CallerGoes(t, "plain", NoRow) /\ UNCHANGED <<oCounts, oInFlight, oOriginal>>
      BY <1>6, <2>2 DEF Reserve
    <3>2. /\ oCall' \in [TimerCallers -> CallTypes] /\ oCall'[t].pc = "plain"
          /\ \A u \in TimerCallers \ {t} : oCall'[u] = oCall[u]
      BY <1>1, <1>2, <3>1, CallerMoves DEF CallSteps
    <3> QED BY <2>1, <3>1, <3>2, QuietCall
  <2>3. CASE oAccepting
    <3>1. oOriginal' = oOriginal + 1 /\ oSnapshot = <<>>
      BY <1>1, <1>6, <2>3 DEF Reserve, FrozenIsFinal
    <3>2. CASE /\ oCounts' = [oCounts EXCEPT !.observed = @ + 1, !.overflow = @ + 1]
               /\ CallerGoes(t, "plain", NoRow) /\ oInFlight' = oInFlight
      <4>1. /\ oCounts' = [oCounts EXCEPT !.observed = @ + 1, !.overflow = @ + 1]
            /\ CallerGoes(t, "plain", NoRow) /\ oInFlight' = oInFlight
        BY <3>2
      <4>2. /\ oCall' \in [TimerCallers -> CallTypes] /\ oCall'[t].pc = "plain"
            /\ \A u \in TimerCallers \ {t} : oCall'[u] = oCall[u]
        BY <1>1, <1>2, <4>1, CallerMoves DEF CallSteps
      <4>3. FlightIsCounted'
        BY <1>1, <2>1, <4>1, <4>2, FlightStays
      <4>4. /\ oCounts'.observed = oCounts.observed + 1
            /\ oCounts'.overflow = oCounts.overflow + 1 /\ oCounts'.admitted = oCounts.admitted
            /\ oCounts'.stored = oCounts.stored /\ oCounts'.completed = oCounts.completed
            /\ oCounts'.outside = oCounts.outside
        BY <1>1, <4>1 DEF TimerTypes, CountTypes
      <4>5. oCounts.observed + 1 \in Nat /\ oCounts.overflow + 1 \in Nat
        BY <1>1 DEF TimerTypes, CountTypes
      <4>6. oCounts' \in CountTypes
        BY <1>1, <4>1, <4>5 DEF TimerTypes, CountTypes
      <4>7. TimerTypes'
        BY <4>6, <1>1, <2>1, <3>1, <4>1, <4>2, <4>4 DEF TimerTypes
      <4>8. oCounts.observed \in Nat /\ oCounts.overflow \in Nat /\ oCounts.admitted \in Nat
        BY <1>1 DEF TimerTypes, CountTypes
      <4>9. CountsTie'
        BY <1>1, <2>1, <3>1, <4>1, <4>4, <4>8 DEF CountsTie
      <4> QED BY <2>1, <3>1, <4>3, <4>7, <4>9 DEF TimerInv, FrozenIsFinal
    <3>3. CASE /\ oCounts' = [oCounts EXCEPT !.observed = @ + 1, !.admitted = @ + 1]
               /\ CallerGoes(t, "entry", [NoRow EXCEPT !.ordinal = oCounts.observed + 1]) /\ oInFlight' = oInFlight + 1
      <4>1. /\ oCounts' = [oCounts EXCEPT !.observed = @ + 1, !.admitted = @ + 1]
            /\ CallerGoes(t, "entry", [NoRow EXCEPT !.ordinal = oCounts.observed + 1]) /\ oInFlight' = oInFlight + 1
        BY <3>3
      <4>2. oCounts.observed \in Nat /\ oCounts.overflow \in Nat /\ oCounts.admitted \in Nat
            /\ oCounts.completed \in Nat /\ oInFlight \in Nat
        BY <1>1 DEF TimerTypes, CountTypes
      <4>3. oCounts.observed + 1 \in Nat
        BY <4>2
      <4>4. [NoRow EXCEPT !.ordinal = oCounts.observed + 1] \in RowTypes
        BY <1>2, <4>3 DEF RowTypes
      <4>5. /\ oCall' \in [TimerCallers -> CallTypes] /\ oCall'[t].pc = "entry"
            /\ \A u \in TimerCallers \ {t} : oCall'[u] = oCall[u]
        BY <1>1, <4>1, <4>4, CallerMoves DEF CallSteps
      <4>6. FlightIsCounted'
        BY <1>1, <2>1, <4>1, <4>2, <4>5, FlightGrows
      <4>7. /\ oCounts'.observed = oCounts.observed + 1
            /\ oCounts'.overflow = oCounts.overflow /\ oCounts'.admitted = oCounts.admitted + 1
            /\ oCounts'.stored = oCounts.stored /\ oCounts'.completed = oCounts.completed
            /\ oCounts'.outside = oCounts.outside
        BY <1>1, <4>1 DEF TimerTypes, CountTypes
      <4>8. oCounts.observed + 1 \in Nat /\ oCounts.admitted + 1 \in Nat
        BY <4>2
      <4>9. oCounts' \in CountTypes
        BY <1>1, <4>1, <4>8 DEF TimerTypes, CountTypes
      <4>10. TimerTypes'
        BY <4>9, <1>1, <2>1, <3>1, <4>1, <4>5, <4>7 DEF TimerTypes
      <4>11. oInFlight' = oInFlight + 1 /\ Len(oRows') = Len(oRows) /\ oFailed' = oFailed
        BY <2>1, <4>1
      <4>12. oCounts'.observed = oCounts'.admitted + oCounts'.overflow
        BY <1>1, <4>2, <4>7 DEF CountsTie
      <4>13. ~oFailed => oCounts'.admitted = oCounts'.completed + oInFlight'
        BY <1>1, <4>2, <4>7, <4>11 DEF CountsTie
      <4>14. ~oFailed => oCounts'.admitted = oCounts'.completed + oInFlight' /\ oOriginal' = oCounts'.observed
        BY <1>1, <3>1, <4>7, <4>13 DEF CountsTie
      <4>15. oCounts'.stored = Len(oRows') /\ oCounts'.completed = oCounts'.stored + oCounts'.outside
        BY <1>1, <4>7, <4>11 DEF CountsTie
      <4>16. CountsTie'
        BY <4>11, <4>12, <4>14, <4>15 DEF CountsTie
      <4> QED BY <2>1, <3>1, <4>6, <4>10, <4>16 DEF TimerInv, FrozenIsFinal
    <3> QED BY <1>6, <2>3, <3>2, <3>3 DEF Reserve
  <2> QED BY <2>2, <2>3
<1>7. ASSUME NEW t \in TimerCallers, ReserveThrows(t)  PROVE TimerInv'
  <2>1. /\ oCall[t].pc = "reserve" /\ oFailed' = TRUE /\ CallerGoes(t, "plain", NoRow)
        /\ oOriginal' = (IF oAccepting THEN oOriginal + 1 ELSE oOriginal)
        /\ UNCHANGED <<oAccepting, oCounts, oRows, oInFlight, oTick, oSnapshot>>
    BY <1>7 DEF ReserveThrows
  <2>2. /\ oCall' \in [TimerCallers -> CallTypes] /\ oCall'[t].pc = "plain"
        /\ \A u \in TimerCallers \ {t} : oCall'[u] = oCall[u]
    BY <1>1, <1>2, <2>1, CallerMoves DEF CallSteps
  <2>3. FlightIsCounted'
    BY <1>1, <2>1, <2>2, FlightStays
  <2>4. TimerTypes'
    BY <1>1, <2>1, <2>2 DEF TimerTypes
  <2>5. CountsTie'
    BY <1>1, <2>1 DEF CountsTie
  <2>6. FrozenIsFinal'
    BY <1>1, <2>1 DEF FrozenIsFinal
  <2> QED BY <2>3, <2>4, <2>5, <2>6 DEF TimerInv
<1>8. ASSUME NEW t \in TimerCallers, Complete(t)  PROVE TimerInv'
  <2>1. /\ oCall[t].pc = "complete" /\ CallerGoes(t, "out", NoRow) /\ oInFlight' = oInFlight - 1
        /\ UNCHANGED <<oAccepting, oFailed, oTick, oOriginal, oSnapshot>>
    BY <1>8 DEF Complete
  <2>2. /\ oCall' \in [TimerCallers -> CallTypes] /\ oCall'[t].pc = "out"
        /\ \A u \in TimerCallers \ {t} : oCall'[u] = oCall[u]
    BY <1>1, <1>2, <2>1, CallerMoves DEF CallSteps
  <2>3. FlightIsCounted' /\ oInFlight' \in Nat /\ oInFlight \in Nat /\ oInFlight > 0
    BY <1>1, <2>1, <2>2, FlightShrinks DEF TimerTypes
  <2>4. oSnapshot = <<>>
    BY <1>1, <2>3 DEF FrozenIsFinal
  <2>5. /\ oCounts.completed \in Nat /\ oCounts.stored \in Nat /\ oCounts.outside \in Nat /\ oCounts.admitted \in Nat
        /\ oRows \in Seq(RowTypes) /\ oCall[t].row \in RowTypes
    BY <1>1 DEF TimerTypes, CountTypes, CallTypes
  <2>6. CASE Discardable(oCall[t].row)
    <3>1. oCounts' = [oCounts EXCEPT !.outside = @ + 1, !.completed = @ + 1] /\ oRows' = oRows
      BY <1>8, <2>6 DEF Complete
    <3>2. /\ oCounts'.observed = oCounts.observed
          /\ oCounts'.overflow = oCounts.overflow /\ oCounts'.admitted = oCounts.admitted
          /\ oCounts'.stored = oCounts.stored /\ oCounts'.completed = oCounts.completed + 1
          /\ oCounts'.outside = oCounts.outside + 1
      BY <1>1, <3>1 DEF TimerTypes, CountTypes
    <3>3. oCounts.outside + 1 \in Nat /\ oCounts.completed + 1 \in Nat
      BY <2>5
    <3>4. oCounts' \in CountTypes
      BY <1>1, <3>1, <3>3 DEF TimerTypes, CountTypes
    <3>5. TimerTypes'
      BY <3>4, <1>1, <2>1, <2>2, <2>3, <3>1, <3>2 DEF TimerTypes
    <3>6. oInFlight' = oInFlight - 1 /\ Len(oRows') = Len(oRows) /\ UNCHANGED <<oFailed, oOriginal>>
      BY <2>1, <3>1
    <3>7. oCounts'.observed = oCounts'.admitted + oCounts'.overflow /\ oCounts'.stored = Len(oRows')
      BY <1>1, <3>2, <3>6 DEF CountsTie
    <3>8. oCounts'.completed = oCounts'.stored + oCounts'.outside
      BY <1>1, <2>5, <3>2 DEF CountsTie
    <3>9. ~oFailed => oCounts'.admitted = oCounts'.completed + oInFlight' /\ oOriginal' = oCounts'.observed
      BY <1>1, <2>3, <2>5, <3>2, <3>6 DEF CountsTie
    <3>10. CountsTie'
      BY <3>6, <3>7, <3>8, <3>9 DEF CountsTie
    <3> QED BY <2>1, <2>3, <2>4, <3>5, <3>10 DEF TimerInv, FrozenIsFinal
  <2>7. CASE ~Discardable(oCall[t].row)
    <3>1. oCounts' = [oCounts EXCEPT !.stored = @ + 1, !.completed = @ + 1] /\ oRows' = Append(oRows, oCall[t].row)
      BY <1>8, <2>7 DEF Complete
    <3>2. /\ oCounts'.observed = oCounts.observed
          /\ oCounts'.overflow = oCounts.overflow /\ oCounts'.admitted = oCounts.admitted
          /\ oCounts'.stored = oCounts.stored + 1 /\ oCounts'.completed = oCounts.completed + 1
          /\ oCounts'.outside = oCounts.outside
      BY <1>1, <3>1 DEF TimerTypes, CountTypes
    <3>3. oCounts.stored + 1 \in Nat /\ oCounts.completed + 1 \in Nat
      BY <2>5
    <3>4. oCounts' \in CountTypes
      BY <1>1, <3>1, <3>3 DEF TimerTypes, CountTypes
    <3>5. oRows' \in Seq(RowTypes) /\ Len(oRows') = Len(oRows) + 1
      BY <2>5, <3>1
    <3>6. TimerTypes'
      BY <3>4, <1>1, <2>1, <2>2, <2>3, <3>2, <3>5 DEF TimerTypes
    <3>7. oInFlight' = oInFlight - 1 /\ UNCHANGED <<oFailed, oOriginal>>
      BY <2>1
    <3>8. oCounts'.observed = oCounts'.admitted + oCounts'.overflow /\ oCounts'.stored = Len(oRows')
      BY <1>1, <3>2, <3>5 DEF CountsTie
    <3>9. oCounts'.completed = oCounts'.stored + oCounts'.outside
      BY <1>1, <2>5, <3>2 DEF CountsTie
    <3>10. ~oFailed => oCounts'.admitted = oCounts'.completed + oInFlight' /\ oOriginal' = oCounts'.observed
      BY <1>1, <2>3, <2>5, <3>2, <3>7 DEF CountsTie
    <3>11. CountsTie'
      BY <3>7, <3>8, <3>9, <3>10 DEF CountsTie
    <3> QED BY <2>1, <2>3, <2>4, <3>6, <3>11 DEF TimerInv, FrozenIsFinal
  <2> QED BY <2>6, <2>7
<1>9. ASSUME NEW t \in TimerCallers, CompleteThrows(t)  PROVE TimerInv'
  <2>1. /\ oCall[t].pc = "complete" /\ CallerGoes(t, "out", NoRow) /\ oInFlight' = oInFlight - 1 /\ oFailed' = TRUE
        /\ UNCHANGED <<oAccepting, oCounts, oRows, oTick, oOriginal, oSnapshot>>
    BY <1>9 DEF CompleteThrows
  <2>2. /\ oCall' \in [TimerCallers -> CallTypes] /\ oCall'[t].pc = "out"
        /\ \A u \in TimerCallers \ {t} : oCall'[u] = oCall[u]
    BY <1>1, <1>2, <2>1, CallerMoves DEF CallSteps
  <2>3. FlightIsCounted' /\ oInFlight' \in Nat /\ oInFlight > 0
    BY <1>1, <2>1, <2>2, FlightShrinks DEF TimerTypes
  <2>4. oSnapshot = <<>>
    BY <1>1, <2>3 DEF FrozenIsFinal
  <2>5. TimerTypes'
    BY <1>1, <2>1, <2>2, <2>3 DEF TimerTypes
  <2>6. CountsTie'
    BY <1>1, <2>1 DEF CountsTie
  <2> QED BY <2>1, <2>3, <2>4, <2>5, <2>6 DEF TimerInv, FrozenIsFinal
<1>10. CASE StopAdmissions \/ OTick \/ UNCHANGED timerVars
  <2>1. /\ UNCHANGED <<oCounts, oRows, oInFlight, oFailed, oCall, oOriginal, oSnapshot>>
        /\ oTick' \in {oTick, oTick + 1}
    BY <1>10 DEF StopAdmissions, OTick, timerVars
  <2>2. oAccepting' = oAccepting \/ oAccepting' = FALSE
    BY <1>10 DEF StopAdmissions, OTick, timerVars
  <2>3. oAccepting' \in BOOLEAN
    BY <1>1, <2>2, Zenon DEF TimerTypes
  <2>4. TimerTypes'
    BY <1>1, <2>1, <2>3 DEF TimerTypes
  <2>5. FlightIsCounted'
    BY <1>1, <2>1 DEF FlightIsCounted, InFlight
  <2>6. CountsTie'
    BY <1>1, <2>1 DEF CountsTie
  <2>7. FrozenIsFinal'
    BY <1>1, <2>1, <2>2 DEF FrozenIsFinal
  <2> QED BY <2>4, <2>5, <2>6, <2>7 DEF TimerInv
<1>11. CASE TryFreezeInto
  <2>1. /\ ~oAccepting /\ oInFlight = 0
        /\ UNCHANGED <<oAccepting, oCounts, oRows, oInFlight, oFailed, oCall, oTick, oOriginal>>
        /\ oSnapshot' = <<[counts |-> oCounts, rows |-> oRows, failed |-> oFailed]>>
    BY <1>11 DEF TryFreezeInto, Drained
  <2>2. oCounts.completed \in Nat
    BY <1>1 DEF TimerTypes, CountTypes
  <2>3. FrozenIsFinal'
    BY <1>1, <2>1, <2>2 DEF FrozenIsFinal, CountsTie
  <2>4. TimerTypes' /\ CountsTie'
    BY <1>1, <2>1 DEF TimerTypes, CountsTie
  <2>5. FlightIsCounted'
    BY <1>1, <2>1 DEF FlightIsCounted, InFlight
  <2> QED BY <2>3, <2>4, <2>5 DEF TimerInv
<1> QED BY <1>3, <1>4, <1>5, <1>6, <1>7, <1>8, <1>9, <1>10, <1>11 DEF TimerNext

\* For any number of guest threads and rows: once try_freeze_into has copied the
\* observer no row is lost or added, its counters tie out, and a report without
\* an issue accounts for every original call made while it was armed.
THEOREM FrozenObserverIsComplete == TimerSpec => []FreezeIsComplete
<1>1. \A s : ~Issues(s) => ~s.failed /\ ~(s.counts.overflow > 0)
  BY DEF Issues
<1>2. TimerInv => FreezeIsComplete
  <2> SUFFICES ASSUME TimerInv, oSnapshot # <<>>
               PROVE  LET s == oSnapshot[1]
                          c == s.counts
                      IN /\ c = oCounts /\ s.rows = oRows
                         /\ c.observed = c.admitted + c.overflow /\ c.stored = Len(s.rows)
                         /\ c.completed = c.stored + c.outside
                         /\ ~s.failed => c.completed = c.admitted
                         /\ ~Issues(s) => c.stored + c.outside = oOriginal
    BY DEF FreezeIsComplete
  <2>1. /\ oSnapshot[1].counts = oCounts /\ oSnapshot[1].rows = oRows
        /\ ~oSnapshot[1].failed => oCounts.admitted = oCounts.completed /\ oOriginal = oCounts.observed
    BY DEF TimerInv, FrozenIsFinal
  <2>2. /\ oCounts.observed = oCounts.admitted + oCounts.overflow /\ oCounts.stored = Len(oRows)
        /\ oCounts.completed = oCounts.stored + oCounts.outside
    BY DEF TimerInv, CountsTie
  <2>3. oCounts.overflow \in Nat /\ oCounts.admitted \in Nat
    BY DEF TimerInv, TimerTypes, CountTypes
  <2>4. ~Issues(oSnapshot[1]) => oCounts.overflow = 0 /\ ~oSnapshot[1].failed
    BY <1>1, <2>1, <2>3
  <2>5. ~Issues(oSnapshot[1]) => oCounts.stored + oCounts.outside = oOriginal
    BY <2>1, <2>2, <2>3, <2>4
  <2> QED BY <2>1, <2>2, <2>5
<1> QED BY InitTimer, TimerSteps, <1>2, PTL DEF TimerSpec

-----------------------------------------------------------------------------
(* The diagnostic triggers.                                                 *)
(*                                                                          *)
(* What a device has fired and not let go of is held by the trigger: the    *)
(* combo by its owner, a role by the wheel in its edge.                     *)

TriggerTypes ==
  /\ edge \in [Roles -> Devices \cup {Unset}]
  /\ armed \in BOOLEAN /\ fired \in BOOLEAN
  /\ armed \/ fired => owner \in Pads
Unreleased ==
  /\ ~(armed /\ fired)
  /\ \A d \in Pads : <<d, "pad">> \notin released => fired /\ owner = d
  /\ \A d \in Wheels, r \in Roles : <<d, r>> \notin released => edge[r] = d
ReleaseInv == TriggerTypes /\ Unreleased

LEMMA InitReleases == TriggerInit => ReleaseInv
<1> SUFFICES ASSUME TriggerInit  PROVE ReleaseInv
  OBVIOUS
<1>1. armed \in BOOLEAN /\ fired \in BOOLEAN
  BY Zenon DEF TriggerInit
<1> QED BY <1>1 DEF TriggerInit, ReleaseInv, TriggerTypes, Unreleased

\* What the UI thread does with the closure it runs.
LEMMA PostedReleases ==
  ASSUME ReleaseInv, RunPosted
  PROVE  ReleaseInv'
<1>1. TriggerTypes /\ Unreleased
  BY DEF ReleaseInv
<1> DEFINE e == Head(queue)
<1>2. CASE e.kind = "poll" /\ OnPoll
  <2>1. CASE PollFires
    <3>1. armed /\ armed' = FALSE /\ fired' = TRUE /\ released' = released \ {<<owner, "pad">>} /\ UNCHANGED <<edge, owner>>
      BY <2>1 DEF PollFires
    <3>2. owner \in Pads
      BY <1>1, <3>1 DEF TriggerTypes
    <3>3. armed' \in BOOLEAN /\ fired' \in BOOLEAN
      BY <3>1, Zenon
    <3>4. TriggerTypes'
      BY <1>1, <3>1, <3>2, <3>3 DEF TriggerTypes
    <3>5. \A d \in Pads : <<d, "pad">> \notin released' => owner = d
      BY <1>1, <3>1 DEF Unreleased
    <3>6. \A d \in Wheels, r \in Roles : <<d, r>> \in released => <<d, r>> \in released'
      BY <3>1 DEF Roles
    <3>7. Unreleased'
      BY <1>1, <3>1, <3>5, <3>6 DEF Unreleased
    <3> QED BY <3>4, <3>7 DEF ReleaseInv
  <2>2. CASE UNCHANGED <<trigger, timer, released>>
    BY <1>1, <2>2 DEF trigger, ReleaseInv, TriggerTypes, Unreleased
  <2> QED BY <1>2, <2>1, <2>2 DEF OnPoll
<1>3. ASSUME NEW d, OnRemoved(d)  PROVE ReleaseInv'
  <2>1. /\ edge' = [r \in Roles |-> IF edge[r] = d THEN Unset ELSE edge[r]]
        /\ armed' = (armed /\ owner # d) /\ fired' = (fired /\ owner # d) /\ owner' = owner
        /\ released' = released \cup ({d} \X IF d \in Pads THEN {"pad"} ELSE Roles)
    BY <1>3 DEF OnRemoved
  <2>2. armed' \in BOOLEAN /\ fired' \in BOOLEAN
    BY <2>1, Zenon
  <2>3. TriggerTypes'
    BY <1>1, <2>1, <2>2 DEF TriggerTypes
  <2>4. \A c \in Pads : <<c, "pad">> \notin released' => c # d /\ <<c, "pad">> \notin released
    BY <2>1
  <2>5. \A c \in Wheels, r \in Roles : <<c, r>> \notin released' => c # d /\ <<c, r>> \notin released
    BY <2>1, TriggerConstants
  <2>6. Unreleased'
    BY <1>1, <2>1, <2>4, <2>5 DEF Unreleased
  <2> QED BY <2>3, <2>6 DEF ReleaseInv
<1>4. ASSUME NEW d \in Pads, NEW b, NEW on, OnPadButton(d, b, on)  PROVE ReleaseInv'
  <2>1. edge' = edge /\ released' = IF on THEN released ELSE released \cup {<<d, "pad">>}
    BY <1>4 DEF OnPadButton
  <2>2. \A c \in Wheels, r \in Roles : <<c, r>> \notin released' => <<c, r>> \notin released
    BY <2>1
  <2>3. CASE on /\ PadDown(d, b)
    <3> DEFINE arms == (Tracked(d) \cup {b}) = Buttons /\ ~armed /\ ~fired
    <3>1. armed' = (armed \/ arms) /\ owner' = (IF arms THEN d ELSE owner) /\ fired' = fired /\ released' = released
      BY <2>1, <2>3 DEF PadDown
    <3>2. armed' \in BOOLEAN /\ fired' \in BOOLEAN
      BY <1>1, <3>1, Zenon DEF TriggerTypes
    <3>3. arms => ~armed /\ ~fired
      OBVIOUS
    <3> HIDE DEF arms
    <3>4. TriggerTypes'
      BY <1>1, <2>1, <3>1, <3>2 DEF TriggerTypes
    <3>5. Unreleased'
      BY <1>1, <2>1, <2>2, <3>1, <3>3 DEF Unreleased
    <3> QED BY <3>4, <3>5 DEF ReleaseInv
  <2>4. CASE ~on /\ PadUp(d, b)
    <3>1. /\ armed' = (armed /\ owner # d) /\ fired' = (fired /\ owner # d) /\ owner' = owner
          /\ released' = released \cup {<<d, "pad">>}
      BY <2>1, <2>4 DEF PadUp
    <3>2. armed' \in BOOLEAN /\ fired' \in BOOLEAN
      BY <3>1, Zenon
    <3>3. TriggerTypes'
      BY <1>1, <2>1, <3>1, <3>2 DEF TriggerTypes
    <3>4. \A c \in Pads : <<c, "pad">> \notin released' => c # d /\ <<c, "pad">> \notin released
      BY <3>1
    <3>5. Unreleased'
      BY <1>1, <2>1, <2>2, <3>1, <3>4 DEF Unreleased
    <3> QED BY <3>3, <3>5 DEF ReleaseInv
  <2>5. CASE UNCHANGED <<pads, armed, fired, owner, left, timer>>
    <3>1. TriggerTypes'
      BY <1>1, <2>1, <2>5 DEF TriggerTypes
    <3>2. \A c \in Pads : <<c, "pad">> \notin released' => <<c, "pad">> \notin released
      BY <2>1
    <3>3. Unreleased'
      BY <1>1, <2>1, <2>2, <2>5, <3>2 DEF Unreleased
    <3> QED BY <3>1, <3>3 DEF ReleaseInv
  <2> QED BY <1>4, <2>3, <2>4, <2>5 DEF OnPadButton
<1>5. ASSUME NEW d \in Wheels, NEW s, NEW on, OnJoystickButton(d, s, on)  PROVE ReleaseInv'
  <2>1. UNCHANGED <<armed, fired, owner>>
    BY <1>5 DEF OnJoystickButton
  <2>2. \/ edge' = edge /\ released \subseteq released'
        \/ /\ edge' = [edge EXCEPT ![s] = IF @ = Unset THEN d ELSE @]
           /\ released' = IF edge[s] = Unset THEN released \ {<<d, s>>} ELSE released
        \/ /\ edge' = [edge EXCEPT ![s] = IF @ = d THEN Unset ELSE @]
           /\ released' = released \cup {<<d, s>>}
    BY <1>5 DEF OnJoystickButton, EdgeDown, EdgeUp, EdgeFires
  <2>3. edge' \in [Roles -> Devices \cup {Unset}]
    BY <1>1, <2>2 DEF TriggerTypes, Devices
  <2>4. TriggerTypes'
    BY <1>1, <2>1, <2>3 DEF TriggerTypes
  <2>5. \A c \in Pads : <<c, "pad">> \in released => <<c, "pad">> \in released'
    BY <2>2, TriggerConstants
  <2>6. ASSUME NEW c \in Wheels, NEW r \in Roles, <<c, r>> \notin released'  PROVE edge'[r] = c
    <3>1. c # Unset
      BY TriggerConstants
    <3> QED BY <1>1, <2>2, <2>6, <3>1 DEF Unreleased, TriggerTypes
  <2>7. Unreleased'
    BY <1>1, <2>1, <2>5, <2>6 DEF Unreleased
  <2> QED BY <2>4, <2>7 DEF ReleaseInv
<1> QED BY <1>2, <1>3, <1>4, <1>5 DEF RunPosted

LEMMA NextReleases == ReleaseInv /\ [TriggerNext]_triggerVars => ReleaseInv'
<1> SUFFICES ASSUME ReleaseInv, [TriggerNext]_triggerVars  PROVE ReleaseInv'
  OBVIOUS
<1>1. CASE RunPosted
  BY <1>1, PostedReleases
<1>2. CASE ~RunPosted
  <2>1. UNCHANGED <<edge, armed, fired, owner, released>>
    BY <1>2 DEF TriggerNext, triggerVars, trigger, Input, Unplug, Press, Repeat, LetGo, Timer, TimerExpire, TimerPost,
       Tick, TriggersStopJoin, TriggersStopEnd
  <2> QED BY <2>1 DEF ReleaseInv, TriggerTypes, Unreleased
<1> QED BY <1>1, <1>2

\* For any devices, hold time and table size: a pad that fired lets go of a button
\* before it fires again, and a wheel's button is let go between two accepted presses.
THEOREM OnePackagePerHold == TriggerSpec => OnePackageEach
<1>1. ReleaseInv /\ [TriggerNext]_triggerVars
        => [/\ fired' /\ ~fired => <<owner, "pad">> \in released
            /\ \A r \in Roles : WheelAccepts(r) => <<Head(queue).dev, r>> \in released]_triggerVars
  <2> SUFFICES ASSUME ReleaseInv, [TriggerNext]_triggerVars
               PROVE  /\ fired' /\ ~fired => <<owner, "pad">> \in released
                      /\ \A r \in Roles : WheelAccepts(r) => <<Head(queue).dev, r>> \in released
    OBVIOUS
  <2>1. ASSUME fired', ~fired  PROVE <<owner, "pad">> \in released
    <3>1. armed
      BY <2>1 DEF TriggerNext, triggerVars, trigger, Input, Unplug, Press, Repeat, LetGo, Timer, TimerExpire,
                  TimerPost,
         Tick, TriggersStopJoin, TriggersStopEnd, RunPosted, OnPoll, PollFires, OnRemoved, OnPadButton, PadDown,
         PadUp, OnJoystickButton
    <3> QED BY <2>1, <3>1 DEF ReleaseInv, TriggerTypes, Unreleased
  <2>2. ASSUME NEW r \in Roles, WheelAccepts(r)  PROVE <<Head(queue).dev, r>> \in released
    <3>1. Head(queue).dev \in Wheels /\ edge[r] = Unset
      BY <2>2 DEF WheelAccepts, EdgeFires
    <3> QED BY <3>1, TriggerConstants DEF ReleaseInv, Unreleased
  <2> QED BY <2>1, <2>2
<1> QED BY <1>1, InitReleases, NextReleases, PTL DEF TriggerSpec, OnePackageEach

(* Nothing stays stuck: what the trigger believes to be down is down, or    *)
(* the closure that says otherwise is still in the queue.                   *)

Events == {PollEvent} \cup {Removed(d) : d \in Devices}
                 \cup {Button(d, b, on) : d \in Pads, b \in Buttons, on \in BOOLEAN}
                 \cup {Button(d, b, on) : d \in Wheels, b \in Roles, on \in BOOLEAN}
Undoes(e, d, b) == e = Button(d, b, FALSE) \/ e = Removed(d)
Held(d, b) == d \in present /\ b \in down[d]
HeldAfter(i, d, b) == Held(d, b) \/ \E j \in 1..Len(queue) : j > i /\ Undoes(queue[j], d, b)

QueueTypes ==
  /\ queue \in Seq(Events)
  /\ \A d \in Devices : down[d] \subseteq ButtonsOf(d)
  /\ down \in [Devices -> SUBSET (Buttons \cup Roles)]
BeliefTypes ==
  /\ pads \in [Devices -> (SUBSET Buttons) \cup {Unset}] /\ \A d \in Devices : pads[d] # Unset => d \in Pads
  /\ known \in [Devices -> {"wheel", "other", Unset}]
  /\ \A r \in Roles : edge[r] # Unset => edge[r] \in Wheels /\ known[edge[r]] = "wheel"
  /\ armed \/ fired => pads[owner] = Buttons

PressesHeld == \A i \in 1..Len(queue), d \in Devices, b \in Buttons \cup Roles :
                 queue[i] = Button(d, b, TRUE) => HeldAfter(i, d, b)
EdgesHeld == \A r \in Roles : edge[r] # Unset => HeldAfter(0, edge[r], r)
PadsHeld == \A d \in Devices, b \in Buttons : pads[d] # Unset /\ b \in pads[d] => HeldAfter(0, d, b)
CaughtInv == ReleaseInv /\ QueueTypes /\ BeliefTypes /\ (ui = "running" => PressesHeld /\ EdgesHeld /\ PadsHeld)

LEMMA EventFields ==
  /\ \A d, b, on : Button(d, b, on).kind = "button" /\ Button(d, b, on).dev = d
                   /\ Button(d, b, on).button = b /\ Button(d, b, on).on = on
  /\ \A d : Removed(d).kind = "removed" /\ Removed(d).dev = d
  /\ PollEvent.kind = "poll"
BY DEF Button, Removed, PollEvent

LEMMA InitCaught == TriggerInit => CaughtInv
<1> SUFFICES ASSUME TriggerInit  PROVE CaughtInv
  OBVIOUS
<1>1. queue \in Seq(Events) /\ Len(queue) = 0
  BY DEF TriggerInit
<1>2. QueueTypes /\ BeliefTypes
  <2>1. down \in [Devices -> SUBSET (Buttons \cup Roles)] /\ \A d \in Devices : down[d] \subseteq ButtonsOf(d)
    BY DEF TriggerInit
  <2>2. pads = [d \in Devices |-> Unset]
    BY DEF TriggerInit
  <2>3. known \in [Devices -> {"wheel", "other", Unset}] /\ \A r \in Roles : edge[r] = Unset
    BY DEF TriggerInit
  <2>4. ~armed /\ ~fired
    BY Zenon DEF TriggerInit
  <2>5. \A d \in Devices : pads[d] = Unset
    BY <2>2
  <2>6. Unset \in (SUBSET Buttons) \cup {Unset}
    OBVIOUS
  <2>7. pads \in [Devices -> (SUBSET Buttons) \cup {Unset}]
    BY <2>2, <2>6
  <2> QED BY <1>1, <2>1, <2>3, <2>4, <2>5, <2>7 DEF QueueTypes, BeliefTypes
<1>3. PressesHeld /\ EdgesHeld /\ PadsHeld
  BY <1>1 DEF TriggerInit, PressesHeld, EdgesHeld, PadsHeld
<1> QED BY <1>2, <1>3, InitReleases DEF CaughtInv

\* A closure is posted behind the others.
LEMMA HeldAppend ==
  ASSUME queue \in Seq(Events), NEW e \in Events, queue' = Append(queue, e),
         NEW d, NEW b, Held(d, b) => Held(d, b)' \/ Undoes(e, d, b), NEW i \in 0..Len(queue), HeldAfter(i, d, b)
  PROVE  HeldAfter(i, d, b)'
<1>1. Len(queue) \in Nat /\ Len(queue') = Len(queue) + 1 /\ queue'[Len(queue) + 1] = e
      /\ \A j \in 1..Len(queue) : queue'[j] = queue[j]
  OBVIOUS
<1>2. CASE Held(d, b) /\ Held(d, b)'
  BY <1>2 DEF HeldAfter
<1>3. CASE Held(d, b) /\ Undoes(e, d, b)
  BY <1>1, <1>3 DEF HeldAfter
<1>4. CASE \E j \in 1..Len(queue) : j > i /\ Undoes(queue[j], d, b)
  <2>1. PICK j \in 1..Len(queue) : j > i /\ Undoes(queue[j], d, b)
    BY <1>4
  <2>2. j \in 1..Len(queue') /\ queue'[j] = queue[j]
    BY <1>1
  <2>3. Undoes(queue'[j], d, b)
    BY <2>1, <2>2
  <2> QED BY <2>1, <2>2, <2>3 DEF HeldAfter, Undoes
<1> QED BY <1>2, <1>3, <1>4 DEF HeldAfter

LEMMA Posts ==
  ASSUME CaughtInv, ui = "running", NEW e \in Events, queue' = Append(queue, e),
         UNCHANGED <<edge, pads>>,
         \A d \in Devices, b \in Buttons \cup Roles : Held(d, b) => Held(d, b)' \/ Undoes(e, d, b),
         \A d \in Devices, b \in Buttons \cup Roles : e = Button(d, b, TRUE) => Held(d, b)'
  PROVE  PressesHeld' /\ EdgesHeld' /\ PadsHeld'
<1>1. queue \in Seq(Events) /\ PressesHeld /\ EdgesHeld /\ PadsHeld
  BY DEF CaughtInv, QueueTypes
<1>2. Len(queue) \in Nat /\ Len(queue') = Len(queue) + 1 /\ queue'[Len(queue) + 1] = e
      /\ \A j \in 1..Len(queue) : queue'[j] = queue[j]
  BY <1>1
<1>3. \A i \in 0..Len(queue), d \in Devices, b \in Buttons \cup Roles : HeldAfter(i, d, b) => HeldAfter(i, d, b)'
  BY <1>1, HeldAppend
<1>4. PressesHeld'
  <2> SUFFICES ASSUME NEW i \in 1..Len(queue'), NEW d \in Devices, NEW b \in Buttons \cup Roles,
                      queue'[i] = Button(d, b, TRUE)
               PROVE  HeldAfter(i, d, b)'
    BY DEF PressesHeld
  <2>1. CASE i = Len(queue) + 1
    <3>1. Held(d, b)'
      BY <1>2, <2>1
    <3> QED BY <3>1 DEF HeldAfter
  <2>2. CASE i # Len(queue) + 1
    <3>1. i \in 1..Len(queue) /\ i \in 0..Len(queue)
      BY <1>2, <2>2
    <3>2. queue[i] = Button(d, b, TRUE)
      BY <1>2, <3>1
    <3>3. HeldAfter(i, d, b)
      BY <1>1, <3>1, <3>2 DEF PressesHeld
    <3> QED BY <1>3, <3>1, <3>3
  <2> QED BY <2>1, <2>2
<1>5. 0 \in 0..Len(queue)
  BY <1>2
<1>6. EdgesHeld'
  BY <1>1, <1>3, <1>5 DEF EdgesHeld, CaughtInv, BeliefTypes, Devices
<1>7. PadsHeld'
  BY <1>1, <1>3, <1>5 DEF PadsHeld
<1> QED BY <1>4, <1>6, <1>7

\* A closure is taken from the front.
LEMMA HeldTail ==
  ASSUME queue \in Seq(Events), queue # <<>>, queue' = Tail(queue), UNCHANGED <<present, down>>,
         NEW d, NEW b
  PROVE  /\ \A i \in 1..Len(queue) : HeldAfter(i, d, b) => HeldAfter(i - 1, d, b)'
         /\ HeldAfter(0, d, b) /\ ~Undoes(Head(queue), d, b) => HeldAfter(0, d, b)'
<1>1. Len(queue) \in Nat /\ Len(queue') = Len(queue) - 1 /\ Head(queue) = queue[1]
      /\ \A j \in 1..Len(queue) - 1 : queue'[j] = queue[j + 1]
  OBVIOUS
<1>2. Held(d, b)' = Held(d, b)
  BY DEF Held
<1>3. ASSUME NEW i \in 1..Len(queue), HeldAfter(i, d, b)  PROVE HeldAfter(i - 1, d, b)'
  <2>1. CASE Held(d, b)
    BY <1>2, <2>1 DEF HeldAfter
  <2>2. CASE \E j \in 1..Len(queue) : j > i /\ Undoes(queue[j], d, b)
    <3>1. PICK j \in 1..Len(queue) : j > i /\ Undoes(queue[j], d, b)
      BY <2>2
    <3>2. j - 1 \in 1..Len(queue') /\ j - 1 > i - 1 /\ queue'[j - 1] = queue[j]
      BY <1>1, <3>1
    <3> QED BY <3>1, <3>2 DEF HeldAfter, Undoes
  <2> QED BY <1>3, <2>1, <2>2 DEF HeldAfter
<1>4. ASSUME HeldAfter(0, d, b), ~Undoes(Head(queue), d, b)  PROVE HeldAfter(0, d, b)'
  <2>1. CASE Held(d, b)
    BY <1>2, <2>1 DEF HeldAfter
  <2>2. CASE \E j \in 1..Len(queue) : j > 0 /\ Undoes(queue[j], d, b)
    <3>1. PICK j \in 1..Len(queue) : Undoes(queue[j], d, b)
      BY <2>2
    <3>2. j # 1
      BY <1>1, <1>4, <3>1
    <3>3. j - 1 \in 1..Len(queue') /\ j - 1 > 0 /\ queue'[j - 1] = queue[j]
      BY <1>1, <3>1, <3>2
    <3> QED BY <3>1, <3>3 DEF HeldAfter, Undoes
  <2> QED BY <1>4, <2>1, <2>2 DEF HeldAfter
<1> QED BY <1>3, <1>4

LEMMA QueueFront ==
  ASSUME queue \in Seq(Events), queue # <<>>
  PROVE  /\ Head(queue) \in Events /\ Tail(queue) \in Seq(Events)
         /\ Head(queue) = queue[1] /\ 1 \in 1..Len(queue)
OBVIOUS

\* A press that was posted first and its undoing, once the press is run.
LEMMA PressesTail ==
  ASSUME queue \in Seq(Events), queue # <<>>, queue' = Tail(queue), UNCHANGED <<present, down>>, PressesHeld
  PROVE  PressesHeld'
<1>1. Len(queue) \in Nat /\ Len(queue') = Len(queue) - 1
      /\ \A j \in 1..Len(queue) - 1 : queue'[j] = queue[j + 1]
  OBVIOUS
<1> SUFFICES ASSUME NEW i \in 1..Len(queue'), NEW d \in Devices, NEW b \in Buttons \cup Roles,
                    queue'[i] = Button(d, b, TRUE)
             PROVE  HeldAfter(i, d, b)'
  BY DEF PressesHeld
<1>2. i + 1 \in 1..Len(queue) /\ i \in 1..Len(queue) - 1 /\ i = (i + 1) - 1
  BY <1>1
<1>3. queue[i + 1] = Button(d, b, TRUE)
  BY <1>1, <1>2
<1>4. HeldAfter(i + 1, d, b)
  BY <1>2, <1>3 DEF PressesHeld
<1>5. HeldAfter((i + 1) - 1, d, b)'
  BY <1>2, <1>4, HeldTail
<1> QED BY <1>2, <1>5

\* What the triggers believe after the first closure was run on them.
LEMMA BelievedTail ==
  ASSUME CaughtInv, ui = "running", queue # <<>>, queue' = Tail(queue), UNCHANGED <<present, down>>,
         NEW d \in Devices, NEW b \in Buttons \cup Roles,
         \/ HeldAfter(0, d, b) /\ ~Undoes(Head(queue), d, b)
         \/ Head(queue) = Button(d, b, TRUE)
  PROVE  HeldAfter(0, d, b)'
<1>1. queue \in Seq(Events) /\ PressesHeld
  BY DEF CaughtInv, QueueTypes
<1>2. Head(queue) = queue[1] /\ 1 \in 1..Len(queue)
  BY <1>1, QueueFront
<1>3. CASE HeldAfter(0, d, b) /\ ~Undoes(Head(queue), d, b)
  BY <1>1, <1>3, HeldTail
<1>4. CASE Head(queue) = Button(d, b, TRUE)
  <2>1. HeldAfter(1, d, b)
    BY <1>1, <1>2, <1>4 DEF PressesHeld
  <2>2. HeldAfter(1 - 1, d, b)'
    BY <1>1, <1>2, <2>1, HeldTail
  <2>3. 1 - 1 = 0
    OBVIOUS
  <2> QED BY <2>2, <2>3
<1> QED BY <1>3, <1>4

LEMMA EventCases ==
  ASSUME NEW e \in Events
  PROVE  /\ e.kind = "poll" => e = PollEvent
         /\ e.kind = "removed" => e.dev \in Devices /\ e = Removed(e.dev)
         /\ e.kind = "button" => /\ e = Button(e.dev, e.button, e.on) /\ e.on \in BOOLEAN
                                 /\ \/ e.dev \in Pads /\ e.button \in Buttons
                                    \/ e.dev \in Wheels /\ e.button \in Roles
<1>1. CASE e = PollEvent
  BY <1>1, EventFields
<1>2. CASE \E d \in Devices : e = Removed(d)
  BY <1>2, EventFields
<1>3. CASE \E d \in Pads, b \in Buttons, on \in BOOLEAN : e = Button(d, b, on)
  <2>1. PICK d \in Pads, b \in Buttons, on \in BOOLEAN : e = Button(d, b, on)
    BY <1>3
  <2>2. e.kind = "button" /\ e.dev = d /\ e.button = b /\ e.on = on
    BY <2>1, EventFields
  <2>3. e = Button(e.dev, e.button, e.on) /\ e.on \in BOOLEAN /\ e.dev \in Pads /\ e.button \in Buttons
    BY <2>1, <2>2, Zenon
  <2>4. e.kind # "poll" /\ e.kind # "removed"
    BY <2>2
  <2> QED BY <2>3, <2>4, Zenon
<1>4. CASE \E d \in Wheels, b \in Roles, on \in BOOLEAN : e = Button(d, b, on)
  <2>1. PICK d \in Wheels, b \in Roles, on \in BOOLEAN : e = Button(d, b, on)
    BY <1>4
  <2>2. e.kind = "button" /\ e.dev = d /\ e.button = b /\ e.on = on
    BY <2>1, EventFields
  <2>3. e = Button(e.dev, e.button, e.on) /\ e.on \in BOOLEAN /\ e.dev \in Wheels /\ e.button \in Roles
    BY <2>1, <2>2, Zenon
  <2>4. e.kind # "poll" /\ e.kind # "removed"
    BY <2>2
  <2> QED BY <2>3, <2>4, Zenon
<1> QED BY <1>1, <1>2, <1>3, <1>4 DEF Events

\* Which buttons a closure undoes.
LEMMA WhatUndoes ==
  /\ \A d, b : ~Undoes(PollEvent, d, b)
  /\ \A c, d, b : Undoes(Removed(c), d, b) => c = d
  /\ \A c, s, on, d, b : Undoes(Button(c, s, on), d, b) => c = d /\ s = b /\ on = FALSE
<1>1. ASSUME NEW d, NEW b, Undoes(PollEvent, d, b)  PROVE FALSE
  <2>1. PollEvent.kind # Button(d, b, FALSE).kind /\ PollEvent.kind # Removed(d).kind
    BY DEF Button, Removed, PollEvent
  <2>2. PollEvent = Button(d, b, FALSE) \/ PollEvent = Removed(d)
    BY <1>1 DEF Undoes
  <2> QED BY <2>1, <2>2
<1>2. ASSUME NEW c, NEW d, NEW b, Undoes(Removed(c), d, b)  PROVE c = d
  <2>1. Removed(c).kind # Button(d, b, FALSE).kind /\ Removed(c).dev = c /\ Removed(d).dev = d
    BY DEF Button, Removed, PollEvent
  <2>2. Removed(c) = Button(d, b, FALSE) \/ Removed(c) = Removed(d)
    BY <1>2 DEF Undoes
  <2> QED BY <2>1, <2>2
<1>3. ASSUME NEW c, NEW s, NEW on, NEW d, NEW b, Undoes(Button(c, s, on), d, b)  PROVE c = d /\ s = b /\ on = FALSE
  <2>1. /\ Button(c, s, on).kind # Removed(d).kind
        /\ Button(c, s, on).dev = c /\ Button(c, s, on).button = s /\ Button(c, s, on).on = on
        /\ Button(d, b, FALSE).dev = d /\ Button(d, b, FALSE).button = b /\ Button(d, b, FALSE).on = FALSE
    BY DEF Button, Removed, PollEvent
  <2>2. Button(c, s, on) = Button(d, b, FALSE) \/ Button(c, s, on) = Removed(d)
    BY <1>3 DEF Undoes
  <2>3. Button(c, s, on) = Button(d, b, FALSE)
    BY <2>1, <2>2
  <2> QED BY <2>1, <2>3
<1> QED BY <1>1, <1>2, <1>3

Ran == ui = "running" /\ queue # <<>> /\ queue' = Tail(queue) /\ UNCHANGED <<present, down>>

LEMMA RanPoll ==
  ASSUME CaughtInv, Ran, Head(queue) = PollEvent, OnPoll
  PROVE  BeliefTypes' /\ EdgesHeld' /\ PadsHeld'
<1>1. UNCHANGED <<edge, pads, known, owner>> /\ (armed' \/ fired' => armed \/ fired)
  BY DEF OnPoll, PollFires, trigger
<1>2. BeliefTypes /\ EdgesHeld /\ PadsHeld
  BY DEF CaughtInv, Ran
<1>3. BeliefTypes'
  BY <1>1, <1>2 DEF BeliefTypes
<1>4. ASSUME NEW d \in Devices, NEW b \in Buttons \cup Roles, HeldAfter(0, d, b)  PROVE HeldAfter(0, d, b)'
  BY <1>4, BelievedTail, WhatUndoes DEF Ran
<1>5. EdgesHeld'
  BY <1>1, <1>2, <1>4 DEF EdgesHeld, BeliefTypes, Devices
<1>6. PadsHeld'
  BY <1>1, <1>2, <1>4 DEF PadsHeld
<1> QED BY <1>3, <1>5, <1>6

LEMMA RanRemoved ==
  ASSUME CaughtInv, Ran, NEW c \in Devices, Head(queue) = Removed(c), OnRemoved(c)
  PROVE  BeliefTypes' /\ EdgesHeld' /\ PadsHeld'
<1>1. /\ known' = [known EXCEPT ![c] = Unset]
      /\ edge' = [r \in Roles |-> IF edge[r] = c THEN Unset ELSE edge[r]]
      /\ pads' = [pads EXCEPT ![c] = Unset]
      /\ owner' = owner /\ (armed' \/ fired' => (armed \/ fired) /\ owner # c)
  BY DEF OnRemoved
<1>2. BeliefTypes /\ EdgesHeld /\ PadsHeld /\ ReleaseInv
  BY DEF CaughtInv, Ran
<1>3. BeliefTypes'
  <2>1. /\ pads' \in [Devices -> (SUBSET Buttons) \cup {Unset}]
        /\ \A d \in Devices : d # c => pads'[d] = pads[d]
        /\ pads'[c] = Unset
    BY <1>1, <1>2 DEF BeliefTypes
  <2>2. /\ known' \in [Devices -> {"wheel", "other", Unset}]
        /\ \A d \in Devices : d # c => known'[d] = known[d]
    BY <1>1, <1>2 DEF BeliefTypes
  <2>3. \A r \in Roles : edge'[r] # Unset => edge'[r] \in Wheels /\ known'[edge'[r]] = "wheel"
    BY <1>1, <1>2, <2>2 DEF BeliefTypes, Devices
  <2>4. \A d \in Devices : pads'[d] # Unset => d \in Pads
    BY <1>2, <2>1 DEF BeliefTypes
  <2>5. armed' \/ fired' => pads'[owner'] = Buttons
    BY <1>1, <1>2, <2>1 DEF BeliefTypes, ReleaseInv, TriggerTypes, Devices
  <2> QED BY <2>1, <2>2, <2>3, <2>4, <2>5 DEF BeliefTypes
<1>4. ASSUME NEW d \in Devices, NEW b \in Buttons \cup Roles, HeldAfter(0, d, b), d # c  PROVE HeldAfter(0, d, b)'
  BY <1>4, BelievedTail, WhatUndoes DEF Ran
<1>5. EdgesHeld'
  BY <1>1, <1>2, <1>4 DEF EdgesHeld, BeliefTypes, Devices
<1>6. PadsHeld'
  BY <1>1, <1>2, <1>4 DEF PadsHeld, BeliefTypes
<1> QED BY <1>3, <1>5, <1>6

LEMMA RanPad ==
  ASSUME CaughtInv, Ran, NEW c \in Pads, NEW s \in Buttons, NEW on \in BOOLEAN,
         Head(queue) = Button(c, s, on), OnPadButton(c, s, on)
  PROVE  BeliefTypes' /\ EdgesHeld' /\ PadsHeld'
<1>1. known' = [known EXCEPT ![c] = Found(c)] /\ edge' = edge
  BY DEF OnPadButton
<1>2. BeliefTypes /\ EdgesHeld /\ PadsHeld /\ ReleaseInv /\ c \in Devices
  BY DEF CaughtInv, Ran, Devices
<1>3. ASSUME NEW d \in Devices, NEW b \in Buttons \cup Roles, HeldAfter(0, d, b), d # c \/ s # b \/ on
      PROVE  HeldAfter(0, d, b)'
  <2>1. ~Undoes(Head(queue), d, b)
    BY <1>3, WhatUndoes
  <2> QED BY <1>3, <2>1, BelievedTail DEF Ran
<1>4. EdgesHeld'
  <2>1. \A r \in Roles : edge[r] # Unset => edge[r] \in Wheels /\ edge[r] # c
    BY <1>2, TriggerConstants DEF BeliefTypes
  <2> QED BY <1>1, <1>2, <1>3, <2>1 DEF EdgesHeld, Devices
<1>5. /\ known' \in [Devices -> {"wheel", "other", Unset}]
      /\ \A r \in Roles : edge'[r] # Unset => edge'[r] \in Wheels /\ known'[edge'[r]] = "wheel"
  <2>1. Found(c) \in {"wheel", "other", Unset}
    BY <1>2 DEF BeliefTypes, Found
  <2>2. known' \in [Devices -> {"wheel", "other", Unset}] /\ \A d \in Devices : d # c => known'[d] = known[d]
    BY <1>1, <1>2, <2>1 DEF BeliefTypes
  <2>3. \A r \in Roles : edge[r] # Unset => edge[r] \in Wheels /\ edge[r] # c /\ edge[r] \in Devices
    BY <1>2, TriggerConstants DEF BeliefTypes, Devices
  <2> QED BY <1>1, <1>2, <2>2, <2>3 DEF BeliefTypes
<1>6. Tracked(c) \subseteq Buttons /\ \A b \in Tracked(c) : pads[c] # Unset /\ b \in pads[c]
  BY <1>2 DEF BeliefTypes, Tracked
<1>7. armed \/ fired => owner \in Devices /\ pads[owner] = Buttons
  BY <1>2 DEF BeliefTypes, ReleaseInv, TriggerTypes, Devices
<1>8. Unset \notin SUBSET Buttons \/ Unset \in SUBSET Buttons
  OBVIOUS
<1>9. CASE on /\ PadDown(c, s)
  <2> DEFINE now == Tracked(c) \cup {s}
  <2> DEFINE arms == now = Buttons /\ ~armed /\ ~fired
  <2>1. /\ pads' = [pads EXCEPT ![c] = now] /\ fired' = fired
        /\ armed' = (armed \/ arms) /\ owner' = IF arms THEN c ELSE owner
    BY <1>9 DEF PadDown
  <2>2. now \subseteq Buttons /\ s \in now /\ (arms => now = Buttons)
    BY <1>6
  <2>3. ASSUME NEW b \in now  PROVE HeldAfter(0, c, b)'
    <3>1. CASE b = s
      <4>1. Head(queue) = Button(c, b, TRUE)
        BY <1>9, <3>1
      <4> QED BY <1>2, <3>1, <4>1, BelievedTail DEF Ran
    <3>2. CASE b # s
      <4>1. pads[c] # Unset /\ b \in pads[c] /\ b \in Buttons
        BY <1>6, <2>3, <3>2
      <4> QED BY <1>2, <1>3, <3>2, <4>1 DEF PadsHeld
    <3> QED BY <3>1, <3>2
  <2>4. arms => ~armed /\ ~fired
    OBVIOUS
  <2>5. Tracked(c) = Buttons => now = Buttons
    BY <2>2
  <2>6. pads[c] = Buttons => Tracked(c) = Buttons
    BY TriggerConstants DEF Tracked
  <2> HIDE DEF now, arms
  <2>7. /\ pads' \in [Devices -> (SUBSET Buttons) \cup {Unset}] /\ pads'[c] = now
        /\ \A d \in Devices : d # c => pads'[d] = pads[d]
    BY <1>2, <2>1, <2>2 DEF BeliefTypes
  <2>8. \A d \in Devices : pads'[d] # Unset => d \in Pads
    BY <1>2, <2>7 DEF BeliefTypes
  <2>9. armed' \/ fired' => pads'[owner'] = Buttons
    <3>1. CASE arms
      BY <2>1, <2>2, <2>7, <3>1
    <3>2. CASE ~arms /\ owner = c
      BY <1>7, <2>1, <2>5, <2>6, <2>7, <3>2
    <3>3. CASE ~arms /\ owner # c
      BY <1>7, <2>1, <2>7, <3>3
    <3> QED BY <3>1, <3>2, <3>3
  <2>10. BeliefTypes'
    BY <1>5, <2>7, <2>8, <2>9 DEF BeliefTypes
  <2>11. ASSUME NEW d \in Devices, NEW b \in Buttons, pads'[d] # Unset, b \in pads'[d]  PROVE HeldAfter(0, d, b)'
    <3>1. CASE d = c
      BY <2>3, <2>7, <2>11, <3>1
    <3>2. CASE d # c
      BY <1>2, <1>3, <2>7, <2>11, <3>2 DEF PadsHeld
    <3> QED BY <3>1, <3>2
  <2>12. PadsHeld'
    BY <2>11 DEF PadsHeld
  <2> QED BY <1>4, <2>10, <2>12
<1>10. CASE ~on /\ PadUp(c, s)
  <2> DEFINE now == Tracked(c) \ {s}
  <2>1. /\ pads' = [pads EXCEPT ![c] = IF now = {} THEN Unset ELSE now] /\ owner' = owner
        /\ armed' \/ fired' => (armed \/ fired) /\ owner # c
    BY <1>10 DEF PadUp
  <2>2. now \subseteq Buttons /\ s \notin now /\ \A b \in now : pads[c] # Unset /\ b \in pads[c]
    BY <1>6
  <2> HIDE DEF now
  <2>3. /\ pads' \in [Devices -> (SUBSET Buttons) \cup {Unset}] /\ pads'[c] = IF now = {} THEN Unset ELSE now
        /\ \A d \in Devices : d # c => pads'[d] = pads[d]
    BY <1>2, <2>1, <2>2 DEF BeliefTypes
  <2>4. \A d \in Devices : pads'[d] # Unset => d \in Pads
    BY <1>2, <2>3 DEF BeliefTypes
  <2>5. armed' \/ fired' => pads'[owner'] = Buttons
    BY <1>7, <2>1, <2>3
  <2>6. BeliefTypes'
    BY <1>5, <2>3, <2>4, <2>5 DEF BeliefTypes
  <2>7. ASSUME NEW d \in Devices, NEW b \in Buttons, pads'[d] # Unset, b \in pads'[d]  PROVE HeldAfter(0, d, b)'
    <3>1. CASE d = c
      <4>1. b \in now
        BY <2>3, <2>7, <3>1
      <4>2. HeldAfter(0, c, b) /\ b # s
        BY <1>2, <2>2, <4>1 DEF PadsHeld
      <4> QED BY <1>2, <1>3, <3>1, <4>2
    <3>2. CASE d # c
      BY <1>2, <1>3, <2>3, <2>7, <3>2 DEF PadsHeld
    <3> QED BY <3>1, <3>2
  <2>8. PadsHeld'
    BY <2>7 DEF PadsHeld
  <2> QED BY <1>4, <2>6, <2>8
<1>11. CASE (IF on THEN ~HasSlot(c) ELSE pads[c] = Unset) /\ UNCHANGED <<pads, armed, fired, owner, left, timer>>
  <2>1. BeliefTypes'
    BY <1>2, <1>5, <1>11 DEF BeliefTypes
  <2>2. ASSUME NEW d \in Devices, NEW b \in Buttons, pads[d] # Unset, b \in pads[d]  PROVE HeldAfter(0, d, b)'
    <3>1. HeldAfter(0, d, b) /\ (d # c \/ on)
      BY <1>2, <1>11, <2>2 DEF PadsHeld
    <3> QED BY <1>3, <3>1
  <2>3. PadsHeld'
    BY <1>11, <2>2 DEF PadsHeld
  <2> QED BY <1>4, <2>1, <2>3
<1> QED BY <1>9, <1>10, <1>11 DEF OnPadButton

LEMMA RanWheel ==
  ASSUME CaughtInv, Ran, NEW c \in Wheels, NEW s \in Roles, NEW on \in BOOLEAN,
         Head(queue) = Button(c, s, on), OnJoystickButton(c, s, on)
  PROVE  BeliefTypes' /\ EdgesHeld' /\ PadsHeld'
<1>1. known' = [known EXCEPT ![c] = Found(c)] /\ UNCHANGED <<pads, armed, fired, owner>>
  BY DEF OnJoystickButton
<1>2. BeliefTypes /\ EdgesHeld /\ PadsHeld /\ ReleaseInv /\ c \in Devices /\ c # Unset
  BY TriggerConstants DEF CaughtInv, Ran, Devices
<1>3. ASSUME NEW d \in Devices, NEW b \in Buttons \cup Roles, HeldAfter(0, d, b), d # c \/ s # b \/ on
      PROVE  HeldAfter(0, d, b)'
  <2>1. ~Undoes(Head(queue), d, b)
    BY <1>3, WhatUndoes
  <2> QED BY <1>3, <2>1, BelievedTail DEF Ran
<1>4. PadsHeld'
  <2>1. \A d \in Devices : pads[d] # Unset => d # c
    BY <1>2, TriggerConstants DEF BeliefTypes
  <2> QED BY <1>1, <1>2, <1>3, <2>1 DEF PadsHeld
<1>5. Found(c) \in {"wheel", "other", Unset} /\ (known[c] = "wheel" => Found(c) = "wheel")
  BY <1>2, TriggerConstants DEF BeliefTypes, Found
<1>6. /\ known' \in [Devices -> {"wheel", "other", Unset}] /\ known'[c] = Found(c)
      /\ \A d \in Devices : d # c => known'[d] = known[d]
  BY <1>1, <1>2, <1>5 DEF BeliefTypes
<1>7. edge \in [Roles -> Devices \cup {Unset}]
  BY <1>2 DEF ReleaseInv, TriggerTypes
<1>8. ASSUME NEW r \in Roles, NEW d, edge'[r] = d, d # Unset
      PROVE  d \in Wheels /\ known'[d] = "wheel" /\ HeldAfter(0, d, r)'
  <2>1. CASE edge[r] = d
    <3>1. d \in Wheels /\ known[d] = "wheel" /\ HeldAfter(0, d, r) /\ d \in Devices
      BY <1>2, <1>8, <2>1 DEF BeliefTypes, EdgesHeld, Devices
    <3>2. d # c \/ s # r \/ on
      <4> SUFFICES ASSUME d = c, r = s, ~on  PROVE FALSE
        OBVIOUS
      <4>1. Found(c) = "wheel"
        BY <1>5, <3>1
      <4>2. edge' = [edge EXCEPT ![s] = IF @ = c THEN Unset ELSE @]
        BY <4>1 DEF OnJoystickButton, EdgeUp
      <4> QED BY <1>2, <1>7, <1>8, <2>1, <4>2
    <3>3. HeldAfter(0, d, r)'
      BY <1>3, <3>1, <3>2
    <3>4. known'[d] = "wheel"
      BY <1>5, <1>6, <3>1
    <3> QED BY <3>1, <3>3, <3>4
  <2>2. CASE edge[r] # d
    <3>1. on /\ r = s /\ d = c /\ Found(c) = "wheel"
      BY <1>7, <1>8, <2>2 DEF OnJoystickButton, EdgeUp, EdgeDown
    <3>2. Head(queue) = Button(c, r, TRUE)
      BY <3>1
    <3>3. HeldAfter(0, c, r)'
      BY <1>2, <3>2, BelievedTail DEF Ran
    <3> QED BY <1>6, <3>1, <3>3
  <2> QED BY <2>1, <2>2
<1>9. EdgesHeld'
  BY <1>8 DEF EdgesHeld
<1>10. BeliefTypes'
  BY <1>1, <1>2, <1>6, <1>8 DEF BeliefTypes
<1> QED BY <1>4, <1>9, <1>10

LEMMA PostedCaught ==
  ASSUME CaughtInv, RunPosted
  PROVE  CaughtInv'
<1> DEFINE e == Head(queue)
<1>1. Ran /\ UNCHANGED <<present, down, ui>> /\ ReleaseInv
  BY DEF RunPosted, Ran, CaughtInv
<1>2. queue \in Seq(Events) /\ PressesHeld /\ QueueTypes
  BY <1>1 DEF CaughtInv, QueueTypes, Ran
<1>3. e \in Events /\ Tail(queue) \in Seq(Events)
  BY <1>1, <1>2, QueueFront DEF Ran
<1>4. QueueTypes'
  BY <1>1, <1>2, <1>3 DEF QueueTypes, Ran
<1>5. PressesHeld'
  BY <1>1, <1>2, PressesTail DEF Ran
<1>6. BeliefTypes' /\ EdgesHeld' /\ PadsHeld'
  <2>1. CASE e.kind = "poll" /\ OnPoll
    BY <1>1, <1>3, <2>1, RanPoll, EventCases
  <2>2. CASE e.kind = "removed" /\ OnRemoved(e.dev)
    BY <1>1, <1>3, <2>2, RanRemoved, EventCases
  <2>3. CASE e.kind = "button" /\ e.dev \in Pads /\ OnPadButton(e.dev, e.button, e.on)
    <3>1. e = Button(e.dev, e.button, e.on) /\ e.on \in BOOLEAN
      BY <1>3, <2>3, EventCases, Zenon
    <3>2. e.button \in Buttons
      BY <1>3, <2>3, EventCases, TriggerConstants
    <3> QED BY <1>1, <2>3, <3>1, <3>2, RanPad
  <2>4. CASE e.kind = "button" /\ e.dev \in Wheels /\ OnJoystickButton(e.dev, e.button, e.on)
    <3>1. e = Button(e.dev, e.button, e.on) /\ e.on \in BOOLEAN
      BY <1>3, <2>4, EventCases, Zenon
    <3>2. e.button \in Roles
      BY <1>3, <2>4, EventCases, TriggerConstants
    <3> QED BY <1>1, <2>4, <3>1, <3>2, RanWheel
  <2> QED BY <2>1, <2>2, <2>3, <2>4 DEF RunPosted
<1>7. ReleaseInv'
  BY <1>1, PostedReleases
<1> QED BY <1>4, <1>5, <1>6, <1>7 DEF CaughtInv

\* Events of the devices, which only post.
LEMMA InputCaught ==
  ASSUME CaughtInv, Input
  PROVE  CaughtInv'
<1>1. PICK c \in Devices : Unplug(c) \/ \E s \in ButtonsOf(c) : Press(c, s) \/ Repeat(c, s) \/ LetGo(c, s)
  BY DEF Input
<1>2. UNCHANGED <<trigger, ui, released>> /\ ReleaseInv /\ QueueTypes /\ BeliefTypes
  BY <1>1 DEF Unplug, Press, Repeat, LetGo, CaughtInv
<1>3. UNCHANGED <<known, edge, pads, armed, fired, owner>>
  BY <1>2 DEF trigger
<1>4. ReleaseInv' /\ BeliefTypes'
  BY <1>2, <1>3 DEF ReleaseInv, TriggerTypes, Unreleased, BeliefTypes
<1>5. /\ down \in [Devices -> SUBSET (Buttons \cup Roles)] /\ queue \in Seq(Events)
      /\ \A d \in Devices : down[d] \subseteq ButtonsOf(d)
  BY <1>2 DEF QueueTypes
<1>6. \A d \in Devices : ButtonsOf(d) \subseteq Buttons \cup Roles
  BY DEF ButtonsOf
<1>7. \A d \in Devices : \A s \in ButtonsOf(d) : Button(d, s, TRUE) \in Events /\ Button(d, s, FALSE) \in Events
  <2>1. \A d \in Devices : \A s \in ButtonsOf(d), on \in BOOLEAN : Button(d, s, on) \in Events
    BY DEF Events, ButtonsOf, Devices
  <2>2. TRUE \in BOOLEAN /\ FALSE \in BOOLEAN
    OBVIOUS
  <2> QED BY <2>1, <2>2, Zenon
<1>8. \A d \in Devices : Removed(d) \in Events
  BY DEF Events
<1> DEFINE Told(e) ==
             /\ \A d \in Devices, b \in Buttons \cup Roles : Held(d, b) => Held(d, b)' \/ Undoes(e, d, b)
             /\ \A d \in Devices, b \in Buttons \cup Roles : e = Button(d, b, TRUE) => Held(d, b)'
           DownTypes == /\ down' \in [Devices -> SUBSET (Buttons \cup Roles)]
                        /\ \A d \in Devices : down'[d] \subseteq ButtonsOf(d)
<1>9. DownTypes /\ \E e \in Events : Observe(e) /\ Told(e)
  <2>1. CASE Unplug(c)
    <3>1. /\ Observe(Removed(c)) /\ present' = present \ {c} /\ down' = [down EXCEPT ![c] = {}]
      BY <2>1 DEF Unplug
    <3>2. DownTypes
      BY <1>5, <3>1
    <3>3. \A d \in Devices, b \in Buttons \cup Roles : Held(d, b) => Held(d, b)' \/ Undoes(Removed(c), d, b)
      BY <1>5, <3>1 DEF Held, Undoes
    <3>4. \A d \in Devices, b \in Buttons \cup Roles : Removed(c) # Button(d, b, TRUE)
      BY DEF Removed, Button
    <3>5. Told(Removed(c))
      BY <3>3, <3>4
    <3> HIDE DEF Told, DownTypes
    <3> QED BY <1>8, <3>1, <3>2, <3>5
  <2>2. ASSUME NEW s \in ButtonsOf(c), Press(c, s) \/ Repeat(c, s)
        PROVE  DownTypes /\ \E e \in Events : Observe(e) /\ Told(e)
    <3>1. /\ Observe(Button(c, s, TRUE)) /\ present' = present /\ c \in present
          /\ \/ down' = [down EXCEPT ![c] = @ \cup {s}]
             \/ down' = down /\ s \in down[c]
      BY <2>2 DEF Press, Repeat
    <3>2. DownTypes
      BY <1>5, <1>6, <3>1
    <3>3. (\A d \in Devices : down[d] \subseteq down'[d]) /\ s \in down'[c]
      BY <1>5, <3>1
    <3>4. \A d \in Devices, b \in Buttons \cup Roles : Held(d, b) => Held(d, b)'
      BY <3>1, <3>3 DEF Held
    <3>5. ASSUME NEW d \in Devices, NEW b \in Buttons \cup Roles, Button(c, s, TRUE) = Button(d, b, TRUE)
          PROVE  Held(d, b)'
      <4>1. d = c /\ b = s
        BY <3>5 DEF Button
      <4> QED BY <3>1, <3>3, <4>1 DEF Held
    <3>6. Told(Button(c, s, TRUE))
      BY <3>4, <3>5
    <3>7. Button(c, s, TRUE) \in Events
      BY <1>7
    <3> HIDE DEF Told, DownTypes
    <3> QED BY <3>1, <3>2, <3>6, <3>7
  <2>3. ASSUME NEW s \in ButtonsOf(c), LetGo(c, s)
        PROVE  DownTypes /\ \E e \in Events : Observe(e) /\ Told(e)
    <3>1. Observe(Button(c, s, FALSE)) /\ present' = present /\ down' = [down EXCEPT ![c] = @ \ {s}]
      BY <2>3 DEF LetGo
    <3>2. DownTypes
      BY <1>5, <3>1
    <3>3. \A d \in Devices, b \in Buttons \cup Roles : Held(d, b) => Held(d, b)' \/ Undoes(Button(c, s, FALSE), d, b)
      BY <1>5, <3>1 DEF Held, Undoes
    <3>4. ASSUME NEW d \in Devices, NEW b \in Buttons \cup Roles  PROVE Button(c, s, FALSE) # Button(d, b, TRUE)
      <4>1. Button(c, s, FALSE).on = FALSE /\ Button(d, b, TRUE).on = TRUE
        BY DEF Button
      <4> QED BY <4>1
    <3>5. Told(Button(c, s, FALSE))
      BY <3>3, <3>4
    <3>6. Button(c, s, FALSE) \in Events
      BY <1>7
    <3> HIDE DEF Told, DownTypes
    <3> QED BY <3>1, <3>2, <3>5, <3>6
  <2> HIDE DEF Told, DownTypes
  <2> QED BY <1>1, <2>1, <2>2, <2>3
<1>10. PICK e \in Events : Observe(e) /\ Told(e)
  <2> HIDE DEF Told, DownTypes
  <2> QED BY <1>9
<1>11. QueueTypes'
  <2>1. queue' \in Seq(Events)
    BY <1>5, <1>10 DEF Observe
  <2> QED BY <1>9, <2>1 DEF QueueTypes
<1>12. ASSUME ui = "running"  PROVE PressesHeld' /\ EdgesHeld' /\ PadsHeld'
  <2>1. queue' = Append(queue, e)
    BY <1>10, <1>12 DEF Observe
  <2> QED BY <1>3, <1>10, <1>12, <2>1, Posts
<1> QED BY <1>2, <1>4, <1>11, <1>12 DEF CaughtInv

LEMMA NextCaught == CaughtInv /\ [TriggerNext]_triggerVars => CaughtInv'
<1> SUFFICES ASSUME CaughtInv, [TriggerNext]_triggerVars  PROVE CaughtInv'
  OBVIOUS
<1>1. CASE RunPosted
  BY <1>1, PostedCaught
<1>2. CASE Input
  BY <1>2, InputCaught
<1>3. CASE TimerPost
  <2>1. queue' = Append(queue, PollEvent) /\ UNCHANGED <<present, down, edge, pads, known, armed, fired, owner, ui, released>>
    BY <1>3 DEF TimerPost, trigger
  <2>2. PollEvent \in Events /\ queue \in Seq(Events) /\ ReleaseInv /\ QueueTypes /\ BeliefTypes
    BY DEF Events, CaughtInv, QueueTypes
  <2>3. queue' \in Seq(Events)
    BY <2>1, <2>2
  <2>4. QueueTypes' /\ BeliefTypes' /\ ReleaseInv'
    BY <2>1, <2>2, <2>3 DEF QueueTypes, BeliefTypes, ReleaseInv, TriggerTypes, Unreleased
  <2>5. \A d, b : Held(d, b) => Held(d, b)'
    BY <2>1 DEF Held
  <2>6. \A d, b : PollEvent # Button(d, b, TRUE)
    BY DEF PollEvent, Button
  <2>7. ASSUME ui = "running"  PROVE PressesHeld' /\ EdgesHeld' /\ PadsHeld'
    BY <2>1, <2>2, <2>5, <2>6, <2>7, Posts
  <2> QED BY <2>1, <2>4, <2>7 DEF CaughtInv
<1>4. CASE ~(RunPosted \/ Input \/ TimerPost)
  <2>1. UNCHANGED <<present, down, queue, edge, pads, known, armed, fired, owner, released>> /\ (ui' = "running" => ui = "running")
    BY <1>4 DEF TriggerNext, triggerVars, trigger, Timer, TimerExpire, Tick, TriggersStopJoin, TriggersStopEnd
  <2>2. ReleaseInv' /\ QueueTypes' /\ BeliefTypes'
    BY <2>1 DEF CaughtInv, ReleaseInv, TriggerTypes, Unreleased, QueueTypes, BeliefTypes
  <2>3. ASSUME ui' = "running"  PROVE PressesHeld' /\ EdgesHeld' /\ PadsHeld'
    BY <2>1, <2>3 DEF CaughtInv, PressesHeld, EdgesHeld, PadsHeld, HeldAfter, Held
  <2> QED BY <2>2, <2>3 DEF CaughtInv
<1> QED BY <1>1, <1>2, <1>3, <1>4

\* For any devices, queue and order of events: once the UI thread has run what was
\* posted, a trigger that is held, armed or fired belongs to a plugged-in device
\* whose buttons are down; unplugging, repeating and releasing leave nothing stuck.
THEOREM NothingStaysStuck == TriggerSpec => []CaughtUpMeansHeld
<1>1. CaughtInv => CaughtUpMeansHeld
  <2> SUFFICES ASSUME CaughtInv, queue = <<>>, ui = "running"
               PROVE  /\ \A r \in Roles : edge[r] # Unset => edge[r] \in present /\ r \in down[edge[r]]
                      /\ armed \/ fired => owner \in present /\ HoldsBoth(owner)
                      /\ ~(armed /\ fired)
    BY DEF CaughtUpMeansHeld
  <2>1. \A d, b : HeldAfter(0, d, b) => d \in present /\ b \in down[d]
    BY DEF HeldAfter, Held
  <2>2. \A r \in Roles : edge[r] # Unset => edge[r] \in present /\ r \in down[edge[r]]
    BY <2>1 DEF CaughtInv, EdgesHeld
  <2>3. ASSUME armed \/ fired  PROVE owner \in present /\ HoldsBoth(owner)
    <3>1. owner \in Pads /\ owner \in Devices /\ pads[owner] = Buttons
      BY <2>3 DEF CaughtInv, ReleaseInv, TriggerTypes, BeliefTypes, Devices
    <3>2. down[owner] \subseteq Buttons
      BY <3>1 DEF CaughtInv, QueueTypes, ButtonsOf
    <3>3. \A b \in Buttons : HeldAfter(0, owner, b)
      BY <3>1, TriggerConstants DEF CaughtInv, PadsHeld
    <3>4. owner \in present /\ Buttons \subseteq down[owner]
      BY <2>1, <3>3 DEF Buttons
    <3> QED BY <3>2, <3>4 DEF HoldsBoth
  <2>4. ~(armed /\ fired)
    BY DEF CaughtInv, ReleaseInv, Unreleased
  <2> QED BY <2>2, <2>3, <2>4
<1> QED BY <1>1, InitCaught, NextCaught, PTL DEF TriggerSpec

(* A short tap never fires.  An armed combo is either being held, for as    *)
(* long as its deadline has run, or the closure that gives it up is in the  *)
(* queue.  The UI thread keeps up, so no time passes while that closure     *)
(* waits, and a press counted anew in the meantime has not lasted yet.      *)

Leaving(d) == \E j \in 1..Len(queue), b \in Buttons : Undoes(queue[j], d, b)

HoldTypes == held \in [Pads -> 0..HoldMs] /\ left \in Nat
LeftIsCut == \A d \in Pads : Leaving(d) => ~HoldsBoth(d) \/ held[d] = 0
LongUnlessFired == \A d \in Pads : HoldsBoth(d) /\ held[d] = HoldMs /\ d \notin long => fired /\ owner = d
ArmedIsHeld == armed => owner \in long \/ (left > 0 /\ (Leaving(owner) \/ held[owner] + left >= HoldMs))
HoldInv == CaughtInv /\ HoldTypes /\ LeftIsCut /\ (ui = "running" => LongUnlessFired /\ ArmedIsHeld)

LEMMA InitHold == TimedInit => HoldInv
<1> SUFFICES ASSUME TimedInit  PROVE HoldInv
  OBVIOUS
<1>1. TriggerInit /\ held = [d \in Pads |-> 0]
  BY DEF TimedInit
<1>2. CaughtInv
  BY <1>1, InitCaught
<1>3. queue = <<>> /\ left = 0
  BY <1>1 DEF TriggerInit
<1>4. HoldMs \in Nat \ {0}
  BY TriggerConstants
<1>5. HoldTypes /\ LongUnlessFired
  BY <1>1, <1>3, <1>4 DEF HoldTypes, LongUnlessFired
<1>6. LeftIsCut
  BY <1>1 DEF LeftIsCut
<1>7. ~armed
  BY <1>1, Zenon DEF TriggerInit
<1> QED BY <1>2, <1>5, <1>6, <1>7 DEF HoldInv, ArmedIsHeld

\* What the combo believes is held is held, or its end is in the queue.
LEMMA ArmedOrLeaving ==
  ASSUME CaughtInv, ui = "running", armed
  PROVE  owner \in Pads /\ (HoldsBoth(owner) \/ Leaving(owner))
<1>1. owner \in Pads /\ owner \in Devices /\ pads[owner] = Buttons
  BY DEF CaughtInv, ReleaseInv, TriggerTypes, BeliefTypes, Devices
<1>2. down[owner] \subseteq Buttons
  BY <1>1 DEF CaughtInv, QueueTypes, ButtonsOf
<1>3. \A b \in Buttons : HeldAfter(0, owner, b)
  BY <1>1, TriggerConstants DEF CaughtInv, PadsHeld
<1>4. CASE \A b \in Buttons : b \in down[owner]
  BY <1>1, <1>2, <1>4 DEF HoldsBoth
<1>5. CASE \E b \in Buttons : b \notin down[owner]
  <2>1. PICK b \in Buttons : ~Held(owner, b)
    BY <1>5 DEF Held
  <2> QED BY <1>1, <1>3, <2>1 DEF HeldAfter, Leaving
<1> QED BY <1>4, <1>5

\* What leaves the triggers alone and at most posts a closure.
LEMMA PostedHold ==
  ASSUME HoldInv, CaughtInv', UNCHANGED <<armed, fired, owner, left, long>>, ui' = "running" => ui = "running",
         queue' = queue \/ \E e \in Events : /\ queue' = Append(queue, e)
                                             /\ \A d \in Pads, b \in Buttons : Undoes(e, d, b) => ~HoldsBoth(d)',
         held' = [d \in Pads |-> IF Begins(d) THEN 0 ELSE held[d]]
  PROVE  HoldInv'
<1>1. CaughtInv /\ CaughtInv' /\ HoldTypes /\ LeftIsCut /\ (ui = "running" => LongUnlessFired /\ ArmedIsHeld)
  BY DEF HoldInv
<1>2. HoldMs \in Nat \ {0} /\ held \in [Pads -> 0..HoldMs] /\ left \in Nat /\ queue \in Seq(Events)
  BY <1>1, TriggerConstants DEF HoldTypes, CaughtInv, QueueTypes
<1>3. held' \in [Pads -> 0..HoldMs] /\ \A d \in Pads : held'[d] = IF Begins(d) THEN 0 ELSE held[d]
  BY <1>2
<1>4. HoldTypes'
  BY <1>2, <1>3 DEF HoldTypes
<1>5. \A d \in Pads : HoldsBoth(d)' /\ ~Begins(d) => HoldsBoth(d)
  BY DEF HoldsBoth, Begins
<1>6. \A d \in Pads : Leaving(d) => Leaving(d)'
  <2> SUFFICES ASSUME NEW d \in Pads, NEW j \in 1..Len(queue), NEW b \in Buttons, Undoes(queue[j], d, b)
               PROVE  j \in 1..Len(queue') /\ Undoes(queue'[j], d, b)
    BY DEF Leaving, Undoes
  <2>1. CASE queue' = queue
    BY <2>1
  <2>2. CASE \E e \in Events : queue' = Append(queue, e)
    <3>1. j \in 1..Len(queue') /\ queue'[j] = queue[j]
      BY <1>2, <2>2
    <3> QED BY <3>1
  <2> QED BY <2>1, <2>2
<1>7. \A d \in Pads : Leaving(d)' => Leaving(d) \/ ~HoldsBoth(d)'
  <2> SUFFICES ASSUME NEW d \in Pads, NEW j \in 1..Len(queue'), NEW b \in Buttons, Undoes(queue'[j], d, b)
               PROVE  Leaving(d) \/ ~HoldsBoth(d)'
    BY DEF Leaving, Undoes
  <2>1. CASE queue' = queue
    BY <2>1 DEF Leaving
  <2>2. CASE queue' # queue
    <3>1. PICK e \in Events : /\ queue' = Append(queue, e)
                              /\ \A c \in Pads, s \in Buttons : Undoes(e, c, s) => ~HoldsBoth(c)'
      BY <2>2
    <3>2. Len(queue) \in Nat /\ Len(queue') = Len(queue) + 1 /\ queue'[Len(queue) + 1] = e
          /\ \A i \in 1..Len(queue) : queue'[i] = queue[i]
      BY <1>2, <3>1
    <3>3. CASE j \in 1..Len(queue)
      BY <3>2, <3>3 DEF Leaving
    <3>4. CASE j = Len(queue) + 1
      BY <3>1, <3>2, <3>4
    <3> QED BY <3>2, <3>3, <3>4
  <2> QED BY <2>1, <2>2
<1>8. LeftIsCut'
  BY <1>1, <1>3, <1>5, <1>7 DEF LeftIsCut
<1>9. ASSUME ui' = "running"  PROVE LongUnlessFired'
  <2>1. LongUnlessFired
    BY <1>1, <1>9
  <2> QED BY <1>2, <1>3, <1>5, <2>1 DEF LongUnlessFired
<1>10. ASSUME ui' = "running"  PROVE ArmedIsHeld'
  <2>1. SUFFICES ASSUME armed  PROVE owner \in long \/ (left > 0 /\ (Leaving(owner)' \/ held'[owner] + left >= HoldMs))
    BY DEF ArmedIsHeld
  <2>2. ui = "running" /\ (owner \in long \/ (left > 0 /\ (Leaving(owner) \/ held[owner] + left >= HoldMs)))
    BY <1>1, <1>10, <2>1 DEF ArmedIsHeld
  <2>3. owner \in Pads /\ (HoldsBoth(owner) \/ Leaving(owner))
    BY <1>1, <2>1, <2>2, ArmedOrLeaving
  <2>4. ~Begins(owner) \/ Leaving(owner)
    BY <2>3 DEF Begins, HoldsBoth
  <2> QED BY <1>3, <1>6, <2>2, <2>3, <2>4
<1> QED BY <1>1, <1>4, <1>8, <1>9, <1>10 DEF HoldInv

\* A closure that undoes a button of the armed pad gives the combo up.
LEMMA UndoneDisarms ==
  ASSUME CaughtInv, RunPosted, armed, armed', NEW b \in Buttons
  PROVE  ~Undoes(Head(queue), owner, b)
<1> DEFINE e == Head(queue)
<1>1. owner \in Pads /\ pads[owner] = Buttons /\ pads[owner] # Unset /\ owner \notin Wheels
  BY TriggerConstants DEF CaughtInv, ReleaseInv, TriggerTypes, BeliefTypes
<1>2. CASE e = Removed(owner)
  <2>1. e.kind = "removed" /\ e.dev = owner
    BY <1>2, EventFields
  <2>2. OnRemoved(owner)
    BY <2>1 DEF RunPosted
  <2> QED BY <2>2 DEF OnRemoved
<1>3. CASE e = Button(owner, b, FALSE)
  <2>1. e.kind = "button" /\ e.dev = owner /\ e.button = b /\ e.on = FALSE
    BY <1>3 DEF Button
  <2>2. OnPadButton(owner, b, FALSE)
    BY <1>1, <2>1 DEF RunPosted
  <2>3. PadUp(owner, b)
    BY <1>1, <2>2 DEF OnPadButton
  <2> QED BY <2>3 DEF PadUp
<1> QED BY <1>2, <1>3 DEF Undoes

\* What a closure does to the combo: it arms it for the whole hold time, fires
\* it once the time has run, or gives it up; a fired one is only given up by a
\* closure that undoes a button of its pad.
LEMMA WhatRuns ==
  ASSUME CaughtInv, RunPosted
  PROVE  \/ ~armed /\ ~fired /\ armed' /\ ~fired' /\ left' = HoldMs
         \/ PollFires
         \/ /\ UNCHANGED <<owner, left>> /\ (armed' => armed) /\ (fired' => fired)
            /\ fired /\ ~fired' => \E b \in Buttons : Undoes(Head(queue), owner, b)
<1> DEFINE e == Head(queue)
           Gives == /\ UNCHANGED <<owner, left>> /\ (armed' => armed) /\ (fired' => fired)
                    /\ fired /\ ~fired' => \E b \in Buttons : Undoes(e, owner, b)
<1>1. queue \in Seq(Events) /\ queue # <<>>
  BY DEF CaughtInv, QueueTypes, RunPosted
<1>2. e \in Events
  BY <1>1, QueueFront
<1>3. "start" \in Buttons
  BY DEF Buttons
<1>4. CASE e.kind = "poll" /\ OnPoll
  <2>1. PollFires \/ UNCHANGED <<armed, fired, owner, left>>
    BY <1>4 DEF OnPoll, trigger
  <2>2. UNCHANGED <<armed, fired, owner, left>> => Gives
    OBVIOUS
  <2> QED BY <2>1, <2>2
<1>5. CASE e.kind = "removed" /\ OnRemoved(e.dev)
  <2>1. e = Removed(e.dev)
    BY <1>2, <1>5, EventCases
  <2>2. /\ armed' = (armed /\ owner # e.dev) /\ fired' = (fired /\ owner # e.dev) /\ UNCHANGED <<owner, left>>
    BY <1>5 DEF OnRemoved
  <2>3. fired /\ ~fired' => Undoes(e, owner, "start")
    BY <2>1, <2>2 DEF Undoes
  <2> QED BY <1>3, <2>2, <2>3
<1>6. CASE e.kind = "button" /\ e.dev \in Pads /\ OnPadButton(e.dev, e.button, e.on)
  <2>1. e = Button(e.dev, e.button, e.on) /\ e.on \in BOOLEAN
    BY <1>2, <1>6, EventCases, Zenon
  <2>2. e.button \in Buttons
    BY <1>2, <1>6, EventCases, TriggerConstants
  <2>3. CASE e.on /\ PadDown(e.dev, e.button)
    <3> DEFINE arms == (Tracked(e.dev) \cup {e.button}) = Buttons /\ ~armed /\ ~fired
    <3>1. /\ armed' = (armed \/ arms) /\ fired' = fired /\ owner' = (IF arms THEN e.dev ELSE owner)
          /\ left' = IF arms THEN HoldMs ELSE left
      BY <2>3 DEF PadDown
    <3>2. arms => ~armed /\ ~fired
      OBVIOUS
    <3> HIDE DEF arms
    <3> QED BY <3>1, <3>2
  <2>4. CASE ~e.on /\ PadUp(e.dev, e.button)
    <3>1. armed' = (armed /\ owner # e.dev) /\ fired' = (fired /\ owner # e.dev) /\ UNCHANGED <<owner, left>>
      BY <2>4 DEF PadUp
    <3>2. e = Button(e.dev, e.button, FALSE)
      BY <2>1, <2>4
    <3>3. fired /\ ~fired' => Undoes(e, owner, e.button)
      BY <3>1, <3>2 DEF Undoes
    <3> QED BY <2>2, <3>1, <3>3
  <2>5. CASE UNCHANGED <<pads, armed, fired, owner, left, timer>>
    BY <2>5
  <2> QED BY <1>6, <2>3, <2>4, <2>5 DEF OnPadButton
<1>7. CASE e.kind = "button" /\ e.dev \in Wheels /\ OnJoystickButton(e.dev, e.button, e.on)
  BY <1>7 DEF OnJoystickButton
<1> QED BY <1>4, <1>5, <1>6, <1>7 DEF RunPosted

LEMMA RunHold ==
  ASSUME HoldInv, CaughtInv', RunPosted,
         held' = [d \in Pads |-> IF Begins(d) THEN 0 ELSE held[d]],
         long' = IF fired' /\ ~fired THEN long \ {owner} ELSE long
  PROVE  HoldInv' /\ (fired' /\ ~fired => owner \in long)
<1>1. CaughtInv /\ HoldTypes /\ LeftIsCut /\ LongUnlessFired /\ ArmedIsHeld
  BY DEF HoldInv, RunPosted
<1>2. HoldMs \in Nat \ {0} /\ held \in [Pads -> 0..HoldMs] /\ left \in Nat /\ queue \in Seq(Events)
  BY <1>1, TriggerConstants DEF HoldTypes, CaughtInv, QueueTypes
<1>3. ui = "running" /\ ui' = ui /\ queue # <<>> /\ queue' = Tail(queue) /\ down' = down
  BY DEF RunPosted
<1>4. held' = held
  BY <1>2, <1>3 DEF Begins
<1>5. Len(queue) \in Nat /\ Len(queue') = Len(queue) - 1 /\ Head(queue) = queue[1] /\ 1 \in 1..Len(queue)
      /\ \A j \in 1..Len(queue) - 1 : queue'[j] = queue[j + 1]
  BY <1>2, <1>3
<1>6. ASSUME NEW d, Leaving(d)'  PROVE Leaving(d)
  <2>1. PICK j \in 1..Len(queue'), b \in Buttons : Undoes(queue'[j], d, b)
    BY <1>6 DEF Leaving, Undoes
  <2>2. j + 1 \in 1..Len(queue) /\ queue[j + 1] = queue'[j]
    BY <1>5
  <2> QED BY <2>1, <2>2 DEF Leaving
<1>7. ASSUME NEW d, Leaving(d), \A b \in Buttons : ~Undoes(Head(queue), d, b)  PROVE Leaving(d)'
  <2>1. PICK j \in 1..Len(queue), b \in Buttons : Undoes(queue[j], d, b)
    BY <1>7 DEF Leaving
  <2>2. j # 1
    BY <1>5, <1>7, <2>1
  <2>3. j - 1 \in 1..Len(queue') /\ queue'[j - 1] = queue[j]
    BY <1>5, <2>2
  <2>4. Undoes(queue'[j - 1], d, b)
    BY <2>1, <2>3
  <2> QED BY <2>3, <2>4 DEF Leaving, Undoes
<1>8. LeftIsCut'
  BY <1>1, <1>3, <1>4, <1>6 DEF LeftIsCut, HoldsBoth
<1>9. armed \/ fired => owner \in Pads
  BY <1>1 DEF CaughtInv, ReleaseInv, TriggerTypes
<1>10. ~(armed /\ fired) /\ ~(armed' /\ fired')
  BY <1>1 DEF CaughtInv, ReleaseInv, Unreleased
<1>11. CASE ~armed /\ ~fired /\ armed' /\ ~fired' /\ left' = HoldMs
  <2>1. HoldTypes' /\ long' = long
    BY <1>2, <1>4, <1>11 DEF HoldTypes
  <2>2. LongUnlessFired'
    BY <1>1, <1>3, <1>4, <1>11, <2>1 DEF LongUnlessFired, HoldsBoth
  <2>3. owner' \in Pads
    BY <1>11 DEF CaughtInv, ReleaseInv, TriggerTypes
  <2>4. ArmedIsHeld'
    BY <1>2, <1>4, <1>11, <2>3 DEF ArmedIsHeld
  <2> QED BY <1>8, <1>11, <2>1, <2>2, <2>4 DEF HoldInv
<1>12. CASE PollFires
  <2>1. armed /\ left = 0 /\ ~armed' /\ fired' /\ UNCHANGED <<owner, left>> /\ ~fired
    BY <1>10, <1>12 DEF PollFires
  <2>2. owner \in long
    BY <1>1, <2>1 DEF ArmedIsHeld
  <2>3. HoldTypes' /\ long' = long \ {owner}
    BY <1>2, <1>4, <2>1 DEF HoldTypes
  <2>4. LongUnlessFired'
    BY <1>1, <1>3, <1>4, <2>1, <2>3 DEF LongUnlessFired, HoldsBoth
  <2> QED BY <1>8, <2>1, <2>2, <2>3, <2>4 DEF HoldInv, ArmedIsHeld
<1>13. CASE /\ UNCHANGED <<owner, left>> /\ (armed' => armed) /\ (fired' => fired)
            /\ fired /\ ~fired' => \E b \in Buttons : Undoes(Head(queue), owner, b)
  <2>1. HoldTypes' /\ long' = long
    BY <1>2, <1>4, <1>13 DEF HoldTypes
  <2>2. ASSUME NEW d \in Pads, HoldsBoth(d), held[d] = HoldMs, d \notin long  PROVE fired'
    <3>1. fired /\ owner = d
      BY <1>1, <2>2 DEF LongUnlessFired
    <3>2. ~Leaving(d)
      BY <1>1, <1>2, <2>2 DEF LeftIsCut
    <3> QED BY <1>5, <1>13, <3>1, <3>2 DEF Leaving
  <2>3. LongUnlessFired'
    BY <1>1, <1>3, <1>4, <1>13, <2>1, <2>2 DEF LongUnlessFired, HoldsBoth
  <2>4. ASSUME armed'  PROVE owner' \in long' \/ (left' > 0 /\ (Leaving(owner)' \/ held'[owner'] + left' >= HoldMs))
    <3>1. armed /\ \A b \in Buttons : ~Undoes(Head(queue), owner, b)
      BY <1>1, <1>13, <2>4, UndoneDisarms
    <3>2. PICK d : d = owner /\ d = owner'
      BY <1>13
    <3>3. d \in long \/ (left > 0 /\ (Leaving(d) \/ held[d] + left >= HoldMs))
      BY <1>1, <3>1, <3>2 DEF ArmedIsHeld
    <3>4. Leaving(d) => Leaving(d)'
      BY <1>7, <3>1, <3>2
    <3>5. Leaving(d)' => Leaving(owner)'
      BY <3>2 DEF Leaving, Undoes
    <3> QED BY <1>4, <1>13, <2>1, <3>2, <3>3, <3>4, <3>5
  <2>5. ArmedIsHeld'
    BY <2>4 DEF ArmedIsHeld
  <2> QED BY <1>8, <1>13, <2>1, <2>3, <2>5 DEF HoldInv
<1> QED BY <1>1, <1>11, <1>12, <1>13, WhatRuns

\* Time passes only above an empty queue.
LEMMA TickHold ==
  ASSUME HoldInv, CaughtInv', TimedTick, queue = <<>>
  PROVE  HoldInv'
<1>1. CaughtInv /\ HoldTypes /\ (ui = "running" => LongUnlessFired /\ ArmedIsHeld)
  BY DEF HoldInv
<1>2. HoldMs \in Nat \ {0} /\ held \in [Pads -> 0..HoldMs] /\ left \in Nat
  BY <1>1, TriggerConstants DEF HoldTypes
<1>3. /\ UNCHANGED <<down, queue, armed, fired, owner, ui>>
      /\ left' = IF left > 0 THEN left - 1 ELSE 0
  BY <1>2 DEF TimedTick, Passing, Tick, triggerVars, trigger
<1>4. held' = [d \in Pads |-> IF HoldsBoth(d) /\ held[d] < HoldMs THEN held[d] + 1 ELSE held[d]]
  BY DEF TimedTick
<1>5. long' = long \cup {d \in Pads : held[d] < HoldMs /\ held'[d] = HoldMs}
  BY DEF TimedTick
<1>6. held' \in [Pads -> 0..HoldMs]
      /\ \A d \in Pads : held'[d] = IF HoldsBoth(d) /\ held[d] < HoldMs THEN held[d] + 1 ELSE held[d]
  BY <1>2, <1>4
<1>7. HoldTypes'
  BY <1>2, <1>3, <1>6 DEF HoldTypes
<1>8. LeftIsCut'
  BY <1>3 DEF LeftIsCut, Leaving
<1>9. ASSUME ui = "running"  PROVE LongUnlessFired'
  BY <1>1, <1>2, <1>3, <1>5, <1>6, <1>9 DEF LongUnlessFired, HoldsBoth
<1>10. ASSUME ui = "running", armed
       PROVE  owner \in long' \/ (left' > 0 /\ held'[owner] + left' >= HoldMs)
  <2>1. owner \in Pads /\ HoldsBoth(owner)
    BY <1>1, <1>10, ArmedOrLeaving DEF Leaving
  <2>2. owner \in long \/ (left > 0 /\ held[owner] + left >= HoldMs)
    BY <1>1, <1>10 DEF ArmedIsHeld, Leaving
  <2>3. ~fired
    BY <1>1, <1>10 DEF CaughtInv, ReleaseInv, Unreleased
  <2>4. held[owner] # HoldMs \/ owner \in long
    BY <1>1, <1>10, <2>1, <2>3 DEF LongUnlessFired
  <2>5. CASE owner \in long
    BY <1>5, <2>5
  <2>6. CASE owner \notin long
    <3>1. held[owner] \in 0..HoldMs /\ held[owner] < HoldMs /\ held'[owner] = held[owner] + 1 /\ left' = left - 1
      BY <1>2, <1>3, <1>6, <2>1, <2>2, <2>4, <2>6
    <3>2. held'[owner] + left' >= HoldMs
      BY <1>2, <2>2, <2>6, <3>1
    <3>3. left' > 0 \/ held'[owner] = HoldMs
      BY <1>2, <2>2, <2>6, <3>1
    <3> QED BY <1>5, <2>1, <3>1, <3>2, <3>3
  <2> QED BY <2>5, <2>6
<1>11. ASSUME ui = "running"  PROVE ArmedIsHeld'
  BY <1>3, <1>10, <1>11 DEF ArmedIsHeld
<1> QED BY <1>3, <1>7, <1>8, <1>9, <1>11 DEF HoldInv

\* The devices: what is posted undoes a button only if the pair is then up.
LEMMA InputPosts ==
  ASSUME CaughtInv, Input
  PROVE  /\ UNCHANGED <<armed, fired, owner, left, ui>>
         /\ queue' = queue \/ \E e \in Events : /\ queue' = Append(queue, e)
                                                /\ \A d \in Pads, b \in Buttons : Undoes(e, d, b) => ~HoldsBoth(d)'
<1>1. PICK c \in Devices : Unplug(c) \/ \E s \in ButtonsOf(c) : Press(c, s) \/ Repeat(c, s) \/ LetGo(c, s)
  BY DEF Input
<1>2. UNCHANGED <<armed, fired, owner, left, ui>>
  BY <1>1 DEF Unplug, Press, Repeat, LetGo, trigger
<1>3. down \in [Devices -> SUBSET (Buttons \cup Roles)] /\ Pads \subseteq Devices
  BY DEF CaughtInv, QueueTypes, Devices
<1>4. \A s \in ButtonsOf(c) : Button(c, s, TRUE) \in Events /\ Button(c, s, FALSE) \in Events
  <2>1. \A s \in ButtonsOf(c), on \in BOOLEAN : Button(c, s, on) \in Events
    BY DEF Events, ButtonsOf, Devices
  <2>2. TRUE \in BOOLEAN /\ FALSE \in BOOLEAN
    OBVIOUS
  <2> QED BY <2>1, <2>2, Zenon
<1> DEFINE Tells(e) == \A d \in Pads, b \in Buttons : Undoes(e, d, b) => ~HoldsBoth(d)'
<1>5. \E e \in Events : Observe(e) /\ Tells(e)
  <2>1. CASE Unplug(c)
    <3>1. Observe(Removed(c)) /\ down' = [down EXCEPT ![c] = {}] /\ Removed(c) \in Events
      BY <2>1 DEF Unplug, Events
    <3>2. down'[c] = {} /\ {} # Buttons
      BY <1>3, <3>1 DEF Buttons
    <3>3. Tells(Removed(c))
      BY <3>2, WhatUndoes DEF HoldsBoth
    <3> HIDE DEF Tells
    <3> QED BY <3>1, <3>3
  <2>2. ASSUME NEW s \in ButtonsOf(c), Press(c, s) \/ Repeat(c, s)  PROVE \E e \in Events : Observe(e) /\ Tells(e)
    <3>1. Observe(Button(c, s, TRUE)) /\ Button(c, s, TRUE) \in Events
      BY <1>4, <2>2 DEF Press, Repeat
    <3>2. ASSUME NEW d, NEW b  PROVE ~Undoes(Button(c, s, TRUE), d, b)
      <4>1. Undoes(Button(c, s, TRUE), d, b) => TRUE = FALSE
        BY WhatUndoes
      <4> QED BY <4>1
    <3>3. Tells(Button(c, s, TRUE))
      BY <3>2
    <3> HIDE DEF Tells
    <3> QED BY <3>1, <3>3
  <2>3. ASSUME NEW s \in ButtonsOf(c), LetGo(c, s)  PROVE \E e \in Events : Observe(e) /\ Tells(e)
    <3>1. /\ Observe(Button(c, s, FALSE)) /\ Button(c, s, FALSE) \in Events
          /\ down' = [down EXCEPT ![c] = @ \ {s}]
      BY <1>4, <2>3 DEF LetGo
    <3>2. s \notin down'[c]
      BY <1>3, <3>1
    <3>3. ASSUME NEW d \in Pads, NEW b \in Buttons, Undoes(Button(c, s, FALSE), d, b)  PROVE ~HoldsBoth(d)'
      <4>1. d = c /\ b = s
        <5>1. PICK on : on = FALSE
          OBVIOUS
        <5>2. Undoes(Button(c, s, on), d, b)
          BY <3>3, <5>1
        <5> QED BY <5>2, WhatUndoes
      <4> QED BY <3>2, <4>1 DEF HoldsBoth
    <3>4. Tells(Button(c, s, FALSE))
      BY <3>3
    <3> HIDE DEF Tells
    <3> QED BY <3>1, <3>4
  <2> HIDE DEF Tells
  <2> QED BY <1>1, <2>1, <2>2, <2>3
<1>6. PICK e \in Events : Observe(e) /\ Tells(e)
  <2> HIDE DEF Tells
  <2> QED BY <1>5
<1>7. queue' = queue \/ queue' = Append(queue, e)
  BY <1>6 DEF Observe
<1> QED BY <1>2, <1>6, <1>7

LEMMA NextHold ==
  ASSUME HoldInv, [PromptNext]_timed
  PROVE  HoldInv' /\ (fired' /\ ~fired => owner \in long)
<1>1. CaughtInv
  BY DEF HoldInv
<1>2. [TriggerNext]_triggerVars
  BY DEF PromptNext, Unhurried, TimedTick, Passing, TriggerNext, timed
<1>3. CaughtInv'
  BY <1>1, <1>2, NextCaught
<1>4. CASE UNCHANGED timed
  <2>1. UNCHANGED <<down, queue, armed, fired, owner, left, held, long, ui>>
    BY <1>4 DEF timed, triggerVars, trigger
  <2> QED BY <1>3, <2>1 DEF HoldInv, HoldTypes, LeftIsCut, LongUnlessFired, ArmedIsHeld, Leaving, HoldsBoth, Undoes
<1>5. CASE TimedTick /\ queue = <<>>
  <2>1. fired' = fired
    BY <1>5 DEF TimedTick, Passing, Tick, triggerVars, trigger
  <2> QED BY <1>3, <1>5, <2>1, TickHold
<1>6. CASE Unhurried
  <2>1. /\ TriggerNext /\ ~Tick
        /\ held' = [d \in Pads |-> IF Begins(d) THEN 0 ELSE held[d]]
        /\ long' = IF fired' /\ ~fired THEN long \ {owner} ELSE long
    BY <1>6 DEF Unhurried
  <2>2. CASE RunPosted
    BY <1>3, <2>1, <2>2, RunHold
  <2> DEFINE Tells(e) == \A d \in Pads, b \in Buttons : Undoes(e, d, b) => ~HoldsBoth(d)'
             Posted == queue' = queue \/ \E e \in Events : queue' = Append(queue, e) /\ Tells(e)
  <2>3. CASE ~RunPosted
    <3>1. UNCHANGED <<armed, fired, owner, left>> /\ (ui' = "running" => ui = "running") /\ Posted
      <4>1. CASE Input
        BY <1>1, <4>1, InputPosts
      <4>2. CASE Timer
        <5>1. UNCHANGED <<armed, fired, owner, left, ui>> /\ (queue' = queue \/ queue' = Append(queue, PollEvent))
          BY <4>2 DEF Timer, TimerExpire, TimerPost, trigger
        <5>2. PollEvent \in Events /\ Tells(PollEvent)
          BY WhatUndoes DEF Events
        <5> QED BY <5>1, <5>2
      <4>3. CASE TriggersStopJoin \/ TriggersStopEnd
        BY <4>3 DEF TriggersStopJoin, TriggersStopEnd, trigger
      <4> HIDE DEF Posted
      <4> QED BY <2>1, <2>3, <4>1, <4>2, <4>3 DEF TriggerNext
    <3>2. long' = long
      BY <2>1, <3>1
    <3> QED BY <1>3, <2>1, <3>1, <3>2, PostedHold
  <2> QED BY <2>2, <2>3
<1> QED BY <1>4, <1>5, <1>6 DEF PromptNext

\* For any pads, hold time, table and order of events, with a UI thread that runs
\* its closures before time passes: a pad fires only if both buttons were really
\* held down together for the whole hold time since it last fired.
THEOREM ShortTapsAreIgnored == PromptSpec => ShortTapNeverFires
<1>1. HoldInv /\ [PromptNext]_timed => HoldInv' /\ [fired' /\ ~fired => owner \in long]_timed
  BY NextHold
<1> QED BY <1>1, InitHold, PTL DEF PromptSpec, ShortTapNeverFires

-----------------------------------------------------------------------------
(* The packages.                                                            *)
(*                                                                          *)
(* That a reported completion names the newest package holds only because   *)
(* nobody captures when the manager is not claimed: the invariant follows   *)
(* the one claim from the requester over the pending request to the worker, *)
(* and the contents of the package from one phase to the next.              *)

Names == Artifacts \cup {"manifest.json"}
Jobs == [n : Nat, files : SUBSET Names, listed : SUBSET Names, image : Nat, ok : BOOLEAN]
Packages == [n : Nat, files : SUBSET Names, listed : SUBSET Names, image : Nat, size : Nat, damaged : BOOLEAN]
CaptureSteps == {"begin", "guest", "readback", "state", "save", "dump", "manifest", "rename", "pointer", "prune",
                 "status", "idle"}
Outside == {"none", "top", "wait", "notify", "exited"}
Unpublished == {"guest", "readback", "state", "save", "dump", "manifest", "rename"}

ManagerTypes ==
  /\ requester \in [Requesters -> {"out", "admitted", "claimed", "posted", "check", "blocked"}]
  /\ worker \in CaptureSteps \cup Outside /\ job \in Jobs
  /\ live \in Seq(Packages) /\ latest \in Nat /\ captures \in Nat

OneClaim ==
  /\ \A r, s \in Requesters : requester[r] = "claimed" /\ requester[s] = "claimed" => r = s
  /\ \A r \in Requesters : requester[r] = "claimed" => busy /\ ~requestPending /\ worker \in Outside
  /\ requestPending => busy /\ worker \in Outside
  /\ worker \in CaptureSteps => busy

JobIsStaged ==
  /\ job.image \in {0, job.n}
  /\ worker \in Unpublished \cup {"pointer", "prune"} => job.n = captures
  /\ worker \in {"save", "dump", "manifest", "rename"} => {"state.json", "log-tail.txt"} \subseteq job.files
  /\ worker \in {"dump", "manifest", "rename"} => Required \subseteq job.files
  /\ worker \in {"manifest", "rename"} => Required \subseteq job.listed /\ job.listed \subseteq job.files
  /\ worker = "rename" => "manifest.json" \in job.files

PackageIsTrue(p) ==
  ~p.damaged => /\ "manifest.json" \in p.files /\ Required \subseteq p.listed /\ p.listed \subseteq p.files
                /\ p.image \in {0, p.n}
Pointed(packages, n) ==
  \E i \in DOMAIN packages : /\ packages[i].n = n /\ ~packages[i].damaged
                             /\ \A j \in DOMAIN packages : packages[j].n <= n

DiskIsTrue ==
  /\ \A i \in DOMAIN live : PackageIsTrue(live[i]) /\ live[i].n <= captures
  /\ worker \in {"pointer", "prune"} => live # <<>> /\ live[1].n = captures /\ ~live[1].damaged

ResultIsTrue ==
  /\ job.ok => worker \in {"prune", "status", "idle"}
  /\ job.ok /\ worker = "prune" => latest = job.n
  /\ job.ok /\ worker = "status" => Pointed(live, latest)
  /\ status = "Complete" /\ worker \notin CaptureSteps \ {"idle"} => Pointed(live, latest)

ManagerInv == ManagerTypes /\ OneClaim /\ JobIsStaged /\ DiskIsTrue /\ ResultIsTrue

LEMMA ManagerStarts == ManagerInit => ManagerInv
<1> SUFFICES ASSUME ManagerInit  PROVE ManagerInv
  OBVIOUS
<1>1. ManagerTypes
  BY DEF ManagerInit, ManagerTypes, NoJob, Jobs, Outside
<1>2. OneClaim
  BY DEF ManagerInit, OneClaim, Outside, CaptureSteps
<1>3. JobIsStaged /\ DiskIsTrue
  BY DEF ManagerInit, JobIsStaged, DiskIsTrue, NoJob, Unpublished
<1>4. ResultIsTrue
  BY DEF ManagerInit, ResultIsTrue, NoJob
<1> QED BY <1>1, <1>2, <1>3, <1>4 DEF ManagerInv

\* Pruning keeps the first package and leaves the others as they are, or
\* damaged; it invents none.
LEMMA PruningKeeps ==
  ASSUME NEW packages \in Seq(Packages), NEW pruned \in Pruned(packages)
  PROVE  /\ pruned \in Seq(Packages)
         /\ \A i \in DOMAIN pruned : \E j \in DOMAIN packages :
              pruned[i].n = packages[j].n /\ (pruned[i].damaged \/ pruned[i] = packages[j])
         /\ packages # <<>> => \E i \in DOMAIN pruned : pruned[i] = packages[1]
<1> DEFINE k == Cardinality(Kept(packages))
           kept == SubSeq(packages, 1, k)
           victims == {packages[i] : i \in DOMAIN packages \ Kept(packages)}
<1>1. Len(packages) \in Nat /\ DOMAIN packages = 1..Len(packages)
  OBVIOUS
<1>2. Kept(packages) \subseteq 1..Len(packages)
  BY <1>1 DEF Kept
<1>3. IsFiniteSet(1..Len(packages)) /\ Cardinality(1..Len(packages)) = Len(packages)
  BY <1>1, FS_Interval
<1>4. IsFiniteSet(Kept(packages)) /\ k <= Len(packages)
  BY <1>2, <1>3, FS_Subset
<1>5. k \in Nat
  BY <1>4, FS_CardinalityType
<1>6. packages # <<>> => k # 0
  <2> SUFFICES ASSUME packages # <<>>  PROVE Kept(packages) # {}
    BY <1>4, FS_EmptySet
  <2>1. 1 \in DOMAIN packages
    BY <1>1
  <2> QED BY <2>1 DEF Kept
<1>7. /\ kept \in Seq(Packages) /\ DOMAIN kept = 1..k /\ Len(kept) = k
      /\ \A i \in 1..k : kept[i] = packages[i]
  BY <1>4, <1>5
<1>8. \A v \in victims : v \in Packages /\ \E j \in DOMAIN packages : v = packages[j]
  OBVIOUS
<1>9. \/ pruned = kept
      \/ \E v \in victims : pruned = Append(kept, v)
      \/ \E v \in victims : pruned = <<[v EXCEPT !.damaged = TRUE]>> \o kept
  BY DEF Pruned
<1>10. \A i \in 1..k : i \in DOMAIN packages
  BY <1>1, <1>4, <1>5
<1> HIDE DEF k, kept, victims
<1>11. CASE pruned = kept
  BY <1>5, <1>6, <1>7, <1>10, <1>11
<1>12. ASSUME NEW v \in victims, pruned = Append(kept, v)
       PROVE  /\ pruned \in Seq(Packages)
              /\ \A i \in DOMAIN pruned : \E j \in DOMAIN packages :
                   pruned[i].n = packages[j].n /\ (pruned[i].damaged \/ pruned[i] = packages[j])
              /\ packages # <<>> => \E i \in DOMAIN pruned : pruned[i] = packages[1]
  <2>1. pruned \in Seq(Packages) /\ DOMAIN pruned = 1..(k + 1) /\ pruned[k + 1] = v /\ \A i \in 1..k : pruned[i] = kept[i]
    BY <1>5, <1>7, <1>8, <1>12
  <2>2. ASSUME NEW i \in 1..(k + 1)  PROVE \E j \in DOMAIN packages : pruned[i] = packages[j]
    <3>1. CASE i = k + 1
      BY <1>8, <2>1, <3>1
    <3>2. CASE i \in 1..k
      BY <1>7, <1>10, <2>1, <3>2
    <3> QED BY <1>5, <3>1, <3>2
  <2>3. packages # <<>> => 1 \in 1..k /\ pruned[1] = packages[1] /\ 1 \in DOMAIN pruned
    BY <1>5, <1>6, <1>7, <2>1
  <2> QED BY <2>1, <2>2, <2>3
<1>13. ASSUME NEW v \in victims, pruned = <<[v EXCEPT !.damaged = TRUE]>> \o kept
       PROVE  /\ pruned \in Seq(Packages)
              /\ \A i \in DOMAIN pruned : \E j \in DOMAIN packages :
                   pruned[i].n = packages[j].n /\ (pruned[i].damaged \/ pruned[i] = packages[j])
              /\ packages # <<>> => \E i \in DOMAIN pruned : pruned[i] = packages[1]
  <2> DEFINE w == [v EXCEPT !.damaged = TRUE]
  <2>1. w \in Packages /\ w.n = v.n /\ w.damaged
    BY <1>8 DEF Packages
  <2>2. pruned = <<w>> \o kept
    BY <1>13
  <2> HIDE DEF w
  <2>3. /\ pruned \in Seq(Packages) /\ DOMAIN pruned = 1..(k + 1) /\ pruned[1] = w
        /\ \A i \in 1..k : pruned[i + 1] = kept[i]
    BY <1>5, <1>7, <2>1, <2>2
  <2>4. ASSUME NEW i \in 1..(k + 1)
        PROVE  \E j \in DOMAIN packages : pruned[i].n = packages[j].n /\ (pruned[i].damaged \/ pruned[i] = packages[j])
    <3>1. CASE i = 1
      BY <1>8, <2>1, <2>3, <3>1
    <3>2. CASE i # 1
      <4>1. i - 1 \in 1..k /\ (i - 1) + 1 = i
        BY <1>5, <3>2
      <4> QED BY <1>7, <1>10, <2>3, <4>1
    <3> QED BY <3>1, <3>2
  <2>5. packages # <<>> => 1 \in 1..k /\ 2 \in DOMAIN pruned /\ pruned[2] = packages[1]
    <3> SUFFICES ASSUME packages # <<>>  PROVE 1 \in 1..k /\ 2 \in DOMAIN pruned /\ pruned[2] = packages[1]
      OBVIOUS
    <3>1. 1 \in 1..k /\ 2 \in 1..(k + 1)
      BY <1>5, <1>6
    <3>2. pruned[1 + 1] = kept[1] /\ kept[1] = packages[1]
      BY <1>7, <2>3, <3>1
    <3> QED BY <2>3, <3>1, <3>2
  <2> QED BY <2>3, <2>4, <2>5
<1> QED BY <1>9, <1>11, <1>12, <1>13

\* What pruning keeps of the disk.
LEMMA PrunedIsTrue ==
  ASSUME ManagerInv, PruneDirectories
  PROVE  /\ live' \in Seq(Packages)
         /\ \A i \in DOMAIN live' : PackageIsTrue(live'[i]) /\ live'[i].n <= captures
         /\ live # <<>> => \E i \in DOMAIN live' : live'[i] = live[1]
<1>1. live \in Seq(Packages) /\ live' \in Pruned(live)
  BY DEF ManagerInv, ManagerTypes, PruneDirectories
<1>2. /\ live' \in Seq(Packages)
      /\ \A i \in DOMAIN live' : \E j \in DOMAIN live :
           live'[i].n = live[j].n /\ (live'[i].damaged \/ live'[i] = live[j])
      /\ live # <<>> => \E i \in DOMAIN live' : live'[i] = live[1]
  BY <1>1, PruningKeeps
<1>3. ASSUME NEW i \in DOMAIN live'  PROVE PackageIsTrue(live'[i]) /\ live'[i].n <= captures
  <2>1. PICK j \in DOMAIN live : live'[i].n = live[j].n /\ (live'[i].damaged \/ live'[i] = live[j])
    BY <1>2
  <2>2. PackageIsTrue(live[j]) /\ live[j].n <= captures
    BY DEF ManagerInv, DiskIsTrue
  <2> QED BY <2>1, <2>2 DEF PackageIsTrue
<1> QED BY <1>2, <1>3

\* A step that leaves the worker and the disk alone, and at most says "Capturing".
LEMMA WorkerUnchanged ==
  ASSUME ManagerInv, UNCHANGED <<worker, job, live, latest, captures>>, status' \in {status, "Capturing"},
         requester' \in [Requesters -> {"out", "admitted", "claimed", "posted", "check", "blocked"}], OneClaim'
  PROVE  ManagerInv'
<1>1. ManagerTypes'
  BY DEF ManagerInv, ManagerTypes
<1>2. JobIsStaged' /\ DiskIsTrue'
  BY DEF ManagerInv, JobIsStaged, DiskIsTrue
<1>3. ResultIsTrue'
  BY DEF ManagerInv, ResultIsTrue
<1> QED BY <1>1, <1>2, <1>3 DEF ManagerInv

LEMMA RequesterKeeps ==
  ASSUME ManagerInv, NEW r \in Requesters, Request(r) \/ Wait(r)
  PROVE  ManagerInv'
<1> DEFINE Turns == {"out", "admitted", "claimed", "posted", "check", "blocked"}
<1>1. /\ UNCHANGED <<worker, job, live, latest, captures>> /\ status' \in {status, "Capturing"}
  BY DEF Request, Wait, RequestAdmit, RequestClaim, RequestPost, RequestStatus, WaitCheck, WaitTimeout,
         WorkerSame, diskVars, sharedVars
<1>2. requester \in [Requesters -> Turns] /\ OneClaim
  BY DEF ManagerInv, ManagerTypes
<1>3. \E step \in Turns : requester' = [requester EXCEPT ![r] = step]
  BY DEF Request, Wait, RequestAdmit, RequestClaim, RequestPost, RequestStatus, WaitCheck, WaitTimeout, Goes, Returns
<1>4. requester' \in [Requesters -> Turns]
  BY <1>2, <1>3
<1>5. OneClaim'
  <2>1. CASE RequestAdmit(r) \/ WaitCheck(r) \/ WaitTimeout(r) \/ RequestStatus(r)
    <3>1. UNCHANGED <<busy, requestPending>> /\ \A s \in Requesters : requester'[s] = "claimed" => requester[s] = "claimed"
      BY <1>2, <2>1 DEF RequestAdmit, WaitCheck, WaitTimeout, RequestStatus, sharedVars, Goes, Returns
    <3> QED BY <1>1, <1>2, <3>1 DEF OneClaim
  <2>2. CASE RequestPost(r)
    <3>1. /\ busy' = busy /\ requestPending' = TRUE /\ requester[r] = "claimed" /\ requester'[r] = "posted"
          /\ \A s \in Requesters : requester'[s] = "claimed" => requester[s] = "claimed" /\ s # r
      BY <1>2, <2>2 DEF RequestPost, Goes
    <3> QED BY <1>1, <1>2, <3>1 DEF OneClaim
  <2>3. CASE RequestClaim(r)
    <3>1. CASE busy
      <4>1. UNCHANGED <<busy, requestPending>> /\ \A s \in Requesters : requester'[s] = "claimed" => requester[s] = "claimed"
        BY <1>2, <2>3, <3>1 DEF RequestClaim, Goes, Returns
      <4> QED BY <1>1, <1>2, <4>1 DEF OneClaim
    <3>2. CASE ~busy
      <4>1. /\ busy' /\ requestPending' = requestPending /\ \A s \in Requesters : s # r => requester'[s] = requester[s]
        BY <1>2, <2>3, <3>2 DEF RequestClaim, Goes
      <4>2. ~requestPending /\ worker \in Outside /\ \A s \in Requesters : requester[s] # "claimed"
        BY <1>2, <3>2 DEF OneClaim, ManagerInv, ManagerTypes
      <4> QED BY <1>1, <4>1, <4>2 DEF OneClaim, Outside, CaptureSteps
    <3> QED BY <3>1, <3>2
  <2> QED BY <2>1, <2>2, <2>3 DEF Request, Wait
<1> QED BY <1>1, <1>4, <1>5, WorkerUnchanged

LEMMA StopKeeps ==
  ASSUME ManagerInv, Stop \/ \E n \in 1..MaxCaptures : HelperDone(n)
  PROVE  ManagerInv'
<1>1. UNCHANGED <<worker, job, live, latest, captures, status, requester, busy, requestPending>>
  BY DEF Stop, StopBegin, StopFlag, StopRequest, StopJoin, StopSame, WorkerSame, HelperDone, diskVars, sharedVars
<1>2. OneClaim'
  BY <1>1 DEF ManagerInv, OneClaim
<1> QED BY <1>1, <1>2, WorkerUnchanged DEF ManagerInv, ManagerTypes

LEMMA ProcessKeeps ==
  ASSUME ManagerInv, ManagerStart \/ HardExit
  PROVE  ManagerInv'
<1>1. ManagerTypes /\ OneClaim /\ JobIsStaged /\ DiskIsTrue /\ ResultIsTrue
  BY DEF ManagerInv
<1>2. CASE ManagerStart
  <2>1. /\ worker = "none" /\ worker' = "top" /\ status' = "Idle"
        /\ UNCHANGED <<busy, requestPending, requester, job, latest, captures>>
    BY <1>2 DEF ManagerStart
  <2>2. live' \in Seq(Packages) /\ \A i \in DOMAIN live' : PackageIsTrue(live'[i]) /\ live'[i].n <= captures
    BY <1>2, PrunedIsTrue DEF ManagerStart
  <2>3. ManagerTypes'
    BY <1>1, <2>1, <2>2 DEF ManagerTypes, Outside
  <2>4. OneClaim'
    BY <1>1, <2>1 DEF OneClaim, Outside, CaptureSteps
  <2>5. JobIsStaged' /\ DiskIsTrue'
    BY <1>1, <2>1, <2>2 DEF JobIsStaged, DiskIsTrue, Unpublished
  <2>6. ResultIsTrue'
    BY <1>1, <2>1 DEF ResultIsTrue
  <2> QED BY <2>3, <2>4, <2>5, <2>6 DEF ManagerInv
<1>3. CASE HardExit
  <2>1. /\ ~busy' /\ ~requestPending' /\ status' = "Idle" /\ requester' = [r \in Requesters |-> "out"]
        /\ worker' = "none" /\ job' = NoJob /\ UNCHANGED <<live, latest, captures>>
    BY <1>3 DEF HardExit, diskVars
  <2>2. ManagerTypes'
    BY <1>1, <2>1 DEF ManagerTypes, Outside, NoJob, Jobs
  <2>3. OneClaim'
    BY <2>1 DEF OneClaim, Outside, CaptureSteps
  <2>4. JobIsStaged' /\ DiskIsTrue'
    BY <1>1, <2>1 DEF JobIsStaged, DiskIsTrue, NoJob, Unpublished
  <2>5. ResultIsTrue'
    BY <2>1 DEF ResultIsTrue, NoJob
  <2> QED BY <2>2, <2>3, <2>4, <2>5 DEF ManagerInv
<1> QED BY <1>2, <1>3

\* The worker outside of a capture.
LEMMA WorkerMainKeeps ==
  ASSUME ManagerInv, WorkerTop \/ WorkerTake \/ WorkerStatus \/ WorkerIdle \/ WorkerNotify
  PROVE  ManagerInv'
<1>1. ManagerTypes /\ OneClaim /\ JobIsStaged /\ DiskIsTrue /\ ResultIsTrue
  BY DEF ManagerInv
<1>2. UNCHANGED <<live, latest, captures>>
  BY DEF WorkerTop, WorkerTake, WorkerStatus, WorkerIdle, WorkerNotify, diskVars
<1>3. CASE WorkerTop
  <2>1. worker = "top" /\ worker' \in {"exited", "wait"} /\ UNCHANGED <<busy, requestPending, status, job, requester>>
    BY <1>3 DEF WorkerTop, OutsideSame
  <2>2. ManagerTypes' /\ OneClaim'
    BY <1>1, <1>2, <2>1 DEF ManagerTypes, OneClaim, Outside, CaptureSteps
  <2>3. JobIsStaged' /\ DiskIsTrue' /\ ResultIsTrue'
    BY <1>1, <1>2, <2>1 DEF JobIsStaged, DiskIsTrue, ResultIsTrue, Unpublished, CaptureSteps
  <2> QED BY <2>2, <2>3 DEF ManagerInv
<1>4. CASE WorkerTake
  <2>1. worker = "wait" /\ UNCHANGED <<busy, status, job, requester>>
    BY <1>4 DEF WorkerTake, OutsideSame
  <2>2. (worker' = "exited" /\ requestPending' = requestPending) \/ (worker' = "begin" /\ ~requestPending' /\ requestPending)
    BY <1>4 DEF WorkerTake
  <2>3. ManagerTypes'
    BY <1>1, <1>2, <2>1, <2>2 DEF ManagerTypes, Outside, CaptureSteps
  <2>4. OneClaim'
    BY <1>1, <2>1, <2>2 DEF OneClaim, Outside, CaptureSteps
  <2>5. JobIsStaged' /\ DiskIsTrue'
    BY <1>1, <1>2, <2>1, <2>2 DEF JobIsStaged, DiskIsTrue, Unpublished
  <2>6. ResultIsTrue'
    BY <1>1, <1>2, <2>1, <2>2 DEF ResultIsTrue, CaptureSteps
  <2> QED BY <2>3, <2>4, <2>5, <2>6 DEF ManagerInv
<1>5. CASE WorkerStatus
  <2>1. /\ worker = "status" /\ status' = (IF job.ok THEN "Complete" ELSE "Failed") /\ worker' = "idle"
        /\ UNCHANGED <<busy, requestPending, job, requester>>
    BY <1>5 DEF WorkerStatus, OutsideSame
  <2>2. ManagerTypes' /\ OneClaim'
    BY <1>1, <1>2, <2>1 DEF ManagerTypes, OneClaim, Outside, CaptureSteps
  <2>3. JobIsStaged' /\ DiskIsTrue'
    BY <1>1, <1>2, <2>1 DEF JobIsStaged, DiskIsTrue, Unpublished
  <2>4. ResultIsTrue'
    BY <1>1, <1>2, <2>1 DEF ResultIsTrue
  <2> QED BY <2>2, <2>3, <2>4 DEF ManagerInv
<1>6. CASE WorkerIdle
  <2>1. worker = "idle" /\ ~busy' /\ worker' = "notify" /\ job' = NoJob /\ UNCHANGED <<requestPending, status, requester>>
    BY <1>6 DEF WorkerIdle, OutsideSame
  <2>2. ManagerTypes'
    BY <1>1, <1>2, <2>1 DEF ManagerTypes, NoJob, Jobs, Outside
  <2>3. OneClaim'
    BY <1>1, <2>1 DEF OneClaim, Outside, CaptureSteps
  <2>4. JobIsStaged' /\ DiskIsTrue'
    BY <1>1, <1>2, <2>1 DEF JobIsStaged, DiskIsTrue, NoJob, Unpublished
  <2>5. ResultIsTrue'
    BY <1>1, <1>2, <2>1 DEF ResultIsTrue, NoJob
  <2> QED BY <2>2, <2>3, <2>4, <2>5 DEF ManagerInv
<1>7. CASE WorkerNotify
  <2>1. /\ worker = "notify" /\ worker' = "top" /\ UNCHANGED <<busy, requestPending, status, job>>
        /\ requester' = [r \in Requesters |-> IF requester[r] = "blocked" THEN "check" ELSE requester[r]]
    BY <1>7 DEF WorkerNotify, sharedVars
  <2>2. ManagerTypes'
    BY <1>1, <1>2, <2>1 DEF ManagerTypes, Outside
  <2>3. \A r \in Requesters : requester'[r] = "claimed" => requester[r] = "claimed"
    BY <2>1
  <2>4. OneClaim'
    BY <1>1, <2>1, <2>3 DEF OneClaim, Outside, CaptureSteps
  <2>5. JobIsStaged' /\ DiskIsTrue' /\ ResultIsTrue'
    BY <1>1, <1>2, <2>1 DEF JobIsStaged, DiskIsTrue, ResultIsTrue, Unpublished, CaptureSteps
  <2> QED BY <2>2, <2>4, <2>5 DEF ManagerInv
<1> QED BY <1>3, <1>4, <1>5, <1>6, <1>7

\* A step of a capture keeps the claim; what is left to show is about package,
\* disk and result.
LEMMA CaptureKeeps ==
  ASSUME ManagerInv, worker \in CaptureSteps, worker' \in CaptureSteps \ {"idle"},
         UNCHANGED <<busy, requestPending, status, requester>>, job' \in Jobs, live' \in Seq(Packages),
         latest' \in Nat, captures' \in Nat, JobIsStaged', DiskIsTrue',
         job'.ok => worker' \in {"prune", "status"},
         job'.ok /\ worker' = "prune" => latest' = job'.n,
         job'.ok /\ worker' = "status" => Pointed(live', latest')
  PROVE  ManagerInv'
<1>1. ManagerTypes'
  BY DEF ManagerInv, ManagerTypes
<1>2. OneClaim'
  BY DEF ManagerInv, OneClaim, Outside, CaptureSteps
<1>3. ResultIsTrue'
  BY DEF ResultIsTrue
<1> QED BY <1>1, <1>2, <1>3 DEF ManagerInv

\* An early return: the staging directory stays and nothing is reported.
LEMMA FailingKeeps ==
  ASSUME ManagerInv, worker \in CaptureSteps, Fails, UNCHANGED <<busy, requestPending, status, requester>>,
         UNCHANGED <<live, latest, captures>>
  PROVE  ManagerInv'
<1>1. worker' = "status" /\ job' = [job EXCEPT !.ok = FALSE]
  BY DEF Fails
<1>2. /\ job \in Jobs /\ live \in Seq(Packages) /\ latest \in Nat /\ captures \in Nat
      /\ JobIsStaged /\ DiskIsTrue
  BY DEF ManagerInv, ManagerTypes
<1>3. job' \in Jobs /\ ~job'.ok /\ job'.n = job.n /\ job'.image = job.image
  BY <1>1, <1>2 DEF Jobs
<1>4. JobIsStaged' /\ DiskIsTrue'
  BY <1>1, <1>2, <1>3 DEF JobIsStaged, DiskIsTrue, Unpublished
<1> QED BY <1>1, <1>2, <1>3, <1>4, CaptureKeeps DEF CaptureSteps

\* Files are added to what is staged, and the next step is another one before
\* publication.
LEMMA StagingKeeps ==
  ASSUME ManagerInv, worker \in Unpublished, NEW step \in Unpublished, NEW files \in SUBSET Names, Stages(step, files),
         UNCHANGED <<busy, requestPending, status, requester, live, latest, captures>>,
         step \in {"save", "dump", "manifest", "rename"} => {"state.json", "log-tail.txt"} \subseteq job.files \cup files,
         step \in {"dump", "manifest", "rename"} => Required \subseteq job.files \cup files,
         step \in {"manifest", "rename"} => Required \subseteq job.listed /\ job.listed \subseteq job.files \cup files,
         step = "rename" => "manifest.json" \in job.files \cup files
  PROVE  ManagerInv'
<1>1. worker' = step /\ job' = [job EXCEPT !.files = @ \cup files]
  BY DEF Stages
<1>2. /\ job \in Jobs /\ live \in Seq(Packages) /\ latest \in Nat /\ captures \in Nat
      /\ JobIsStaged /\ DiskIsTrue /\ ResultIsTrue
  BY DEF ManagerInv, ManagerTypes
<1>3. ~job.ok /\ job.n = captures
  BY <1>2 DEF ResultIsTrue, JobIsStaged, Unpublished
<1>4. /\ job' \in Jobs /\ job'.ok = job.ok /\ job'.n = job.n /\ job'.image = job.image
      /\ job'.listed = job.listed /\ job'.files = job.files \cup files
  BY <1>1, <1>2 DEF Jobs
<1>5. JobIsStaged' /\ DiskIsTrue'
  BY <1>1, <1>2, <1>3, <1>4 DEF JobIsStaged, DiskIsTrue, Unpublished
<1>6. worker \in CaptureSteps /\ worker' \in CaptureSteps \ {"idle"}
  BY <1>1 DEF CaptureSteps, Unpublished
<1> QED BY <1>2, <1>3, <1>4, <1>5, <1>6, CaptureKeeps

LEMMA CaptureBeginKeeps ==
  ASSUME ManagerInv, CaptureBegin
  PROVE  ManagerInv'
<1>1. worker = "begin" /\ UNCHANGED <<busy, requestPending, status, requester, live, latest>>
  BY DEF CaptureBegin, OutsideSame
<1>2. /\ job \in Jobs /\ live \in Seq(Packages) /\ latest \in Nat /\ captures \in Nat /\ DiskIsTrue
      /\ worker \in CaptureSteps
  BY <1>1 DEF ManagerInv, ManagerTypes, CaptureSteps
<1>3. CASE Fails /\ UNCHANGED captures
  BY <1>1, <1>2, <1>3, FailingKeeps
<1>4. CASE captures' = captures + 1 /\ worker' \in {"guest", "status"} /\ job' = [NoJob EXCEPT !.n = captures']
  <2>1. job' \in Jobs /\ job'.n = captures' /\ job'.image = 0 /\ ~job'.ok /\ captures' \in Nat
    <3>1. captures' \in Nat
      BY <1>2, <1>4
    <3>2. NoJob \in Jobs /\ NoJob.image = 0 /\ ~NoJob.ok
      BY DEF NoJob, Jobs
    <3> QED BY <1>4, <3>1, <3>2 DEF Jobs
  <2>2. JobIsStaged'
    BY <1>4, <2>1 DEF JobIsStaged
  <2>3. ASSUME NEW i \in DOMAIN live  PROVE PackageIsTrue(live[i]) /\ live[i].n <= captures'
    <3>1. live[i] \in Packages
      BY <1>2
    <3>2. live[i].n \in Nat /\ PackageIsTrue(live[i]) /\ live[i].n <= captures
      BY <1>2, <3>1 DEF DiskIsTrue, Packages
    <3> QED BY <1>2, <1>4, <3>2
  <2>4. DiskIsTrue'
    BY <1>1, <1>4, <2>3 DEF DiskIsTrue
  <2> QED BY <1>1, <1>2, <1>4, <2>1, <2>2, <2>4, CaptureKeeps DEF CaptureSteps
<1> QED BY <1>3, <1>4 DEF CaptureBegin

LEMMA FrameKeeps ==
  ASSUME ManagerInv, GuestFrameBegin \/ GuestFrameEnd
  PROVE  ManagerInv'
<1>1. worker \in {"guest", "readback"} /\ UNCHANGED <<busy, requestPending, status, requester, live, latest, captures>>
  BY DEF GuestFrameBegin, GuestFrameEnd, CaptureSame, OutsideSame, diskVars
<1>2. /\ job \in Jobs /\ live \in Seq(Packages) /\ latest \in Nat /\ captures \in Nat /\ DiskIsTrue /\ JobIsStaged
      /\ worker \in CaptureSteps /\ worker \in Unpublished /\ ~job.ok /\ job.n = captures
  BY <1>1 DEF ManagerInv, ManagerTypes, CaptureSteps, Unpublished, ResultIsTrue, JobIsStaged
<1>3. CASE GuestFrameBegin
  <2>1. worker' = "readback" /\ job' = job
    BY <1>3 DEF GuestFrameBegin
  <2>2. JobIsStaged' /\ DiskIsTrue'
    BY <1>1, <1>2, <2>1 DEF JobIsStaged, DiskIsTrue
  <2> QED BY <1>1, <1>2, <2>1, <2>2, CaptureKeeps DEF CaptureSteps
<1>4. CASE Fails
  BY <1>1, <1>2, <1>4, FailingKeeps
<1>5. CASE "frame.bmp" \in Optional /\ worker' = "state" /\ job' = [job EXCEPT !.files = @ \cup {"frame.bmp"}, !.image = job.n]
  <2>1. "frame.bmp" \in Names
    BY <1>5 DEF Names, Artifacts
  <2>2. job' \in Jobs /\ job'.n = job.n /\ job'.image = job.n /\ ~job'.ok
    BY <1>2, <1>5, <2>1 DEF Jobs
  <2>3. JobIsStaged' /\ DiskIsTrue'
    BY <1>1, <1>2, <1>5, <2>2 DEF JobIsStaged, DiskIsTrue
  <2> QED BY <1>1, <1>2, <1>5, <2>2, <2>3, CaptureKeeps DEF CaptureSteps
<1>6. CASE \E window \in SUBSET (Optional \cap {"frame.bmp"}) : Stages("state", window)
  <2>1. PICK window \in SUBSET (Optional \cap {"frame.bmp"}) : Stages("state", window)
    BY <1>6
  <2>2. window \in SUBSET Names /\ "state" \in Unpublished
    BY DEF Names, Artifacts, Unpublished
  <2> QED BY <1>1, <1>2, <2>1, <2>2, StagingKeeps
<1> QED BY <1>3, <1>4, <1>5, <1>6 DEF GuestFrameEnd

LEMMA FilesKeep ==
  ASSUME ManagerInv, CaptureState \/ CaptureSave \/ CaptureDump \/ CaptureManifest
  PROVE  ManagerInv'
<1>1. /\ worker \in {"state", "save", "dump", "manifest"}
      /\ UNCHANGED <<busy, requestPending, status, requester, live, latest, captures>>
  BY DEF CaptureState, CaptureSave, CaptureDump, CaptureManifest, CaptureSame, OutsideSame, diskVars
<1>2. /\ job \in Jobs /\ live \in Seq(Packages) /\ latest \in Nat /\ captures \in Nat /\ DiskIsTrue /\ JobIsStaged
      /\ worker \in CaptureSteps /\ worker \in Unpublished /\ ~job.ok /\ job.n = captures
  BY <1>1 DEF ManagerInv, ManagerTypes, CaptureSteps, Unpublished, ResultIsTrue, JobIsStaged
<1>3. CASE Fails
  BY <1>1, <1>2, <1>3, FailingKeeps
<1>4. {"state.json", "log-tail.txt"} \in SUBSET Names /\ {"save-metadata.json", "save-files-private.json"} \in SUBSET Names
      /\ {"manifest.json"} \in SUBSET Names
  BY DEF Names, Artifacts, Required
<1>5. {"save", "dump", "manifest", "rename"} \subseteq Unpublished
  BY DEF Unpublished
<1>6. CASE CaptureState /\ Stages("save", {"state.json", "log-tail.txt"})
  BY <1>1, <1>2, <1>4, <1>5, <1>6, StagingKeeps
<1>7. CASE CaptureSave /\ Stages("dump", {"save-metadata.json", "save-files-private.json"})
  <2>1. {"state.json", "log-tail.txt"} \subseteq job.files
    BY <1>2, <1>7 DEF CaptureSave, JobIsStaged
  <2>2. Required \subseteq job.files \cup {"save-metadata.json", "save-files-private.json"}
    BY <2>1 DEF Required
  <2> QED BY <1>1, <1>2, <1>4, <1>5, <1>7, <2>1, <2>2, StagingKeeps
<1>8. CASE CaptureManifest /\ Stages("rename", {"manifest.json"})
  <2>1. /\ {"state.json", "log-tail.txt"} \subseteq job.files /\ Required \subseteq job.files
        /\ Required \subseteq job.listed /\ job.listed \subseteq job.files
    BY <1>2, <1>8 DEF CaptureManifest, JobIsStaged
  <2> QED BY <1>1, <1>2, <1>4, <1>5, <1>8, <2>1, StagingKeeps
<1>9. ASSUME worker = "dump", worker' = "manifest", NEW dump \in SUBSET (Optional \cap {"process-private.dmp"}),
             NEW unlisted \in SUBSET Optional,
             job' = [job EXCEPT !.files = @ \cup dump, !.listed = (job.files \cup dump) \ unlisted]
      PROVE  ManagerInv'
  <2>1. dump \subseteq Names /\ Required \cap unlisted = {}
    BY ManagerConstants DEF Names, Artifacts, Required
  <2>2. /\ job' \in Jobs /\ job'.n = job.n /\ job'.image = job.image /\ ~job'.ok
        /\ job'.files = job.files \cup dump /\ job'.listed = (job.files \cup dump) \ unlisted
    BY <1>2, <1>9, <2>1 DEF Jobs
  <2>3. Required \subseteq job.files
    BY <1>2, <1>9 DEF JobIsStaged
  <2>4. {"state.json", "log-tail.txt"} \subseteq job'.files /\ Required \subseteq job'.files
        /\ Required \subseteq job'.listed /\ job'.listed \subseteq job'.files
    BY <2>1, <2>2, <2>3 DEF Required
  <2>5. JobIsStaged' /\ DiskIsTrue'
    BY <1>1, <1>2, <1>9, <2>2, <2>4 DEF JobIsStaged, DiskIsTrue
  <2> QED BY <1>1, <1>2, <1>9, <2>2, <2>5, CaptureKeeps DEF CaptureSteps
<1> QED BY <1>3, <1>6, <1>7, <1>8, <1>9 DEF CaptureState, CaptureSave, CaptureDump, CaptureManifest

LEMMA PublishKeeps ==
  ASSUME ManagerInv, CapturePublish
  PROVE  ManagerInv'
<1>1. worker = "rename" /\ UNCHANGED <<busy, requestPending, status, requester, latest, captures>>
  BY DEF CapturePublish, CaptureSame, OutsideSame
<1>2. /\ job \in Jobs /\ live \in Seq(Packages) /\ latest \in Nat /\ captures \in Nat /\ DiskIsTrue /\ JobIsStaged
      /\ worker \in CaptureSteps /\ ~job.ok /\ job.n = captures
  BY <1>1 DEF ManagerInv, ManagerTypes, CaptureSteps, Unpublished, ResultIsTrue, JobIsStaged
<1>3. CASE Fails /\ UNCHANGED live
  BY <1>1, <1>2, <1>3, FailingKeeps
<1>4. ASSUME NEW size \in Sizes, live' = <<Published(size)>> \o live, worker' = "pointer", job' = job
      PROVE  ManagerInv'
  <2> DEFINE p == Published(size)
  <2>1. /\ p \in Packages /\ p.n = captures /\ ~p.damaged /\ PackageIsTrue(p)
    <3>1. size \in Nat
      BY ManagerConstants
    <3>2. p \in Packages /\ p.n = job.n /\ ~p.damaged
      BY <1>2, <3>1 DEF Published, Packages, Jobs
    <3>3. PackageIsTrue(p)
      BY <1>1, <1>2 DEF Published, PackageIsTrue, JobIsStaged
    <3> QED BY <1>2, <3>2, <3>3
  <2> HIDE DEF p
  <2>2. live' = <<p>> \o live
    BY <1>4 DEF p
  <2>3. /\ live' \in Seq(Packages) /\ live' # <<>> /\ live'[1] = p
        /\ \A i \in DOMAIN live' : i = 1 \/ (i - 1 \in DOMAIN live /\ live'[i] = live[i - 1])
    BY <1>2, <2>1, <2>2
  <2>4. ASSUME NEW i \in DOMAIN live'  PROVE PackageIsTrue(live'[i]) /\ live'[i].n <= captures
    BY <1>2, <2>1, <2>3 DEF DiskIsTrue
  <2>5. DiskIsTrue'
    BY <1>1, <2>1, <2>3, <2>4 DEF DiskIsTrue
  <2>6. JobIsStaged'
    BY <1>1, <1>2, <1>4 DEF JobIsStaged
  <2> QED BY <1>1, <1>2, <1>4, <2>3, <2>5, <2>6, CaptureKeeps DEF CaptureSteps
<1> QED BY <1>3, <1>4 DEF CapturePublish

LEMMA PointerKeeps ==
  ASSUME ManagerInv, CapturePointer \/ CapturePrune
  PROVE  ManagerInv'
<1>1. worker \in {"pointer", "prune"} /\ UNCHANGED <<busy, requestPending, status, requester, captures>>
  BY DEF CapturePointer, CapturePrune, CaptureSame, OutsideSame
<1>2. /\ job \in Jobs /\ live \in Seq(Packages) /\ latest \in Nat /\ captures \in Nat /\ DiskIsTrue /\ JobIsStaged
      /\ worker \in CaptureSteps /\ job.n = captures /\ job.n \in Nat /\ ResultIsTrue
      /\ live # <<>> /\ live[1].n = captures /\ ~live[1].damaged
  BY <1>1 DEF ManagerInv, ManagerTypes, CaptureSteps, JobIsStaged, DiskIsTrue, Jobs
<1>3. CASE CapturePointer
  <2>1. /\ worker = "pointer" /\ worker' = "prune" /\ UNCHANGED live
        /\ \/ latest' = job.n /\ job' = [job EXCEPT !.ok = TRUE]
           \/ latest' = latest /\ job' = job
    BY <1>3 DEF CapturePointer
  <2>2. ~job.ok
    BY <1>2, <2>1 DEF ResultIsTrue
  <2>3. /\ job' \in Jobs /\ job'.n = job.n /\ job'.image = job.image /\ latest' \in Nat /\ (job'.ok => latest' = job.n)
    BY <1>2, <2>1, <2>2 DEF Jobs
  <2>4. JobIsStaged' /\ DiskIsTrue'
    BY <1>1, <1>2, <2>1, <2>3 DEF JobIsStaged, DiskIsTrue, Unpublished
  <2> QED BY <1>1, <1>2, <2>1, <2>3, <2>4, CaptureKeeps DEF CaptureSteps
<1>4. CASE CapturePrune
  <2>1. worker = "prune" /\ worker' = "status" /\ UNCHANGED <<latest, job>>
    BY <1>4 DEF CapturePrune
  <2>2. /\ live' \in Seq(Packages) /\ \A i \in DOMAIN live' : PackageIsTrue(live'[i]) /\ live'[i].n <= captures
        /\ \E i \in DOMAIN live' : live'[i] = live[1]
    BY <1>2, <1>4, PrunedIsTrue DEF CapturePrune
  <2>3. JobIsStaged' /\ DiskIsTrue'
    BY <1>1, <1>2, <2>1, <2>2 DEF JobIsStaged, DiskIsTrue, Unpublished
  <2>4. job.ok => latest = captures
    BY <1>2, <2>1 DEF ResultIsTrue
  <2>5. job.ok => Pointed(live', latest')
    BY <1>2, <2>1, <2>2, <2>4 DEF Pointed
  <2> QED BY <1>1, <1>2, <2>1, <2>2, <2>3, <2>5, CaptureKeeps DEF CaptureSteps
<1> QED BY <1>3, <1>4

LEMMA ManagerSteps ==
  ASSUME ManagerInv, ManagerNext \/ UNCHANGED managerVars
  PROVE  ManagerInv'
<1>1. CASE UNCHANGED managerVars
  BY <1>1 DEF managerVars, sharedVars, diskVars, ManagerInv, ManagerTypes, OneClaim, JobIsStaged, DiskIsTrue,
              ResultIsTrue
<1>2. CASE ManagerStart \/ HardExit
  BY <1>2, ProcessKeeps
<1>3. CASE \E r \in Requesters : Request(r) \/ Wait(r)
  BY <1>3, RequesterKeeps
<1>4. CASE Capture
  BY <1>4, CaptureBeginKeeps, FrameKeeps, FilesKeep, PublishKeeps, PointerKeeps DEF Capture
<1>5. CASE WorkerMain /\ ~Capture
  BY <1>5, WorkerMainKeeps DEF WorkerMain
<1>6. CASE (\E n \in 1..MaxCaptures : HelperDone(n)) \/ Stop
  BY <1>6, StopKeeps
<1> QED BY <1>1, <1>2, <1>3, <1>4, <1>5, <1>6 DEF ManagerNext

\* A directory under its final name is a whole package of its own capture, and a
\* reported completion names the newest one, for any number of requesters,
\* captures and processes, whatever write fails and wherever a process is cut off.
THEOREM PackagesStayTrue == ManagerSpec => []PackagesAreTrue
<1>1. ManagerInit => ManagerInv
  BY ManagerStarts
<1>2. ManagerInv /\ [ManagerNext]_managerVars => ManagerInv'
  BY ManagerSteps
<1>3. ManagerInv => PackagesAreTrue
  <2> SUFFICES ASSUME ManagerInv  PROVE PackagesAreTrue
    OBVIOUS
  <2>1. status = "Complete" /\ ~busy => Pointed(live, latest)
    BY DEF ManagerInv, ResultIsTrue, OneClaim, CaptureSteps
  <2>2. \A i \in DOMAIN live : PackageIsTrue(live[i])
    BY DEF ManagerInv, DiskIsTrue
  <2> QED BY <2>1, <2>2 DEF PackagesAreTrue, PackageIsTrue, Pointed
<1> QED BY <1>1, <1>2, <1>3, PTL DEF ManagerSpec

\* A first package that is whole is the newest, and while a capture is staged
\* every package on disk is older than it: only the half-removed rest of a
\* victim can stand before a newer package.
Ordered(packages) ==
  \A j \in DOMAIN packages : j # 1 /\ ~packages[1].damaged => packages[j].n < packages[1].n
OrderInv ==
  /\ Ordered(live)
  /\ worker \in Unpublished => \A i \in DOMAIN live : live[i].n < captures

LEMMA PruningOrders ==
  ASSUME NEW packages \in Seq(Packages), Ordered(packages), NEW pruned \in Pruned(packages)
  PROVE  Ordered(pruned)
<1> DEFINE k == Cardinality(Kept(packages))
           kept == SubSeq(packages, 1, k)
           victims == {packages[i] : i \in DOMAIN packages \ Kept(packages)}
<1>1. Len(packages) \in Nat /\ DOMAIN packages = 1..Len(packages)
  OBVIOUS
<1>2. Kept(packages) \subseteq 1..Len(packages)
  BY <1>1 DEF Kept
<1>3. IsFiniteSet(1..Len(packages)) /\ Cardinality(1..Len(packages)) = Len(packages)
  BY <1>1, FS_Interval
<1>4. IsFiniteSet(Kept(packages)) /\ k <= Len(packages)
  BY <1>2, <1>3, FS_Subset
<1>5. k \in Nat
  BY <1>4, FS_CardinalityType
<1>6. packages # <<>> => 1 \in Kept(packages) /\ k # 0
  <2> SUFFICES ASSUME packages # <<>>  PROVE 1 \in Kept(packages)
    BY <1>4, FS_EmptySet
  <2>1. 1 \in DOMAIN packages
    BY <1>1
  <2> QED BY <2>1 DEF Kept
<1>7. /\ kept \in Seq(Packages) /\ DOMAIN kept = 1..k /\ Len(kept) = k
      /\ \A i \in 1..k : kept[i] = packages[i] /\ i \in DOMAIN packages
  BY <1>1, <1>4, <1>5
<1>8. \A v \in victims : v \in Packages /\ \E j \in DOMAIN packages : v = packages[j] /\ j \notin Kept(packages)
  OBVIOUS
<1>9. \/ pruned = kept
      \/ \E v \in victims : pruned = Append(kept, v)
      \/ \E v \in victims : pruned = <<[v EXCEPT !.damaged = TRUE]>> \o kept
  BY DEF Pruned
<1> HIDE DEF k, kept, victims
<1>10. CASE pruned = kept
  <2>1. \A i \in DOMAIN kept : 1 \in 1..k /\ kept[1] = packages[1]
    BY <1>5, <1>7
  <2> QED BY <1>7, <1>10, <2>1 DEF Ordered
<1>11. ASSUME NEW v \in victims, pruned = Append(kept, v)
       PROVE  Ordered(pruned)
  <2>1. DOMAIN pruned = 1..(k + 1) /\ pruned[k + 1] = v /\ \A i \in 1..k : pruned[i] = packages[i]
    BY <1>5, <1>7, <1>8, <1>11
  <2>2. PICK m \in DOMAIN packages : v = packages[m] /\ m \notin Kept(packages)
    BY <1>8
  <2>3. 1 \in 1..k /\ m # 1
    <3>1. packages # <<>>
      BY <1>1, <2>2
    <3> QED BY <1>5, <1>6, <2>2, <3>1
  <2>4. ASSUME NEW j \in 1..(k + 1), j # 1, ~packages[1].damaged
        PROVE  pruned[j].n < packages[1].n
    <3>1. CASE j = k + 1
      BY <2>1, <2>2, <2>3, <2>4, <3>1 DEF Ordered
    <3>2. CASE j \in 1..k
      BY <1>7, <2>1, <2>4, <3>2 DEF Ordered
    <3> QED BY <1>5, <3>1, <3>2
  <2> QED BY <2>1, <2>3, <2>4 DEF Ordered
<1>12. ASSUME NEW v \in victims, pruned = <<[v EXCEPT !.damaged = TRUE]>> \o kept
       PROVE  Ordered(pruned)
  <2> DEFINE w == [v EXCEPT !.damaged = TRUE]
  <2>1. w \in Packages /\ w.damaged
    BY <1>8 DEF Packages
  <2>2. pruned = <<w>> \o kept
    BY <1>12
  <2> HIDE DEF w
  <2>3. pruned[1] = w
    BY <1>5, <1>7, <2>1, <2>2
  <2> QED BY <2>1, <2>3 DEF Ordered
<1> QED BY <1>9, <1>10, <1>11, <1>12

LEMMA PublishingOrders ==
  ASSUME ManagerInv, OrderInv, CapturePublish
  PROVE  OrderInv' /\ \A i \in DOMAIN live : \E j \in DOMAIN live' : live'[j] = live[i]
<1>1. worker = "rename" /\ worker \in Unpublished /\ captures' = captures
  BY DEF CapturePublish, CaptureSame, Unpublished
<1>2. /\ job.n = captures /\ live \in Seq(Packages) /\ \A i \in DOMAIN live : live[i].n < captures
      /\ Ordered(live)
  BY <1>1 DEF ManagerInv, ManagerTypes, JobIsStaged, OrderInv
<1>3. CASE Fails /\ UNCHANGED live
  <2>1. worker' = "status"
    BY <1>3 DEF Fails
  <2> QED BY <1>2, <1>3, <2>1 DEF OrderInv, Ordered, Unpublished
<1>4. ASSUME NEW size \in Sizes, live' = <<Published(size)>> \o live, worker' = "pointer"
      PROVE  OrderInv' /\ \A i \in DOMAIN live : \E j \in DOMAIN live' : live'[j] = live[i]
  <2> DEFINE p == Published(size)
  <2>1. p.n = captures
    BY <1>2 DEF Published
  <2> HIDE DEF p
  <2>2. /\ DOMAIN live' = 1..(Len(live) + 1) /\ live'[1] = p /\ Len(live) \in Nat /\ DOMAIN live = 1..Len(live)
        /\ \A i \in DOMAIN live : live'[i + 1] = live[i] /\ i + 1 \in DOMAIN live'
    BY <1>2, <1>4 DEF p
  <2>3. ASSUME NEW j \in DOMAIN live', j # 1
        PROVE  live'[j].n < live'[1].n
    <3>1. j - 1 \in DOMAIN live /\ (j - 1) + 1 = j
      BY <2>2, <2>3
    <3>2. live'[j] = live[j - 1]
      BY <2>2, <3>1
    <3> QED BY <1>2, <2>1, <2>2, <3>1, <3>2
  <2> QED BY <1>4, <2>2, <2>3 DEF OrderInv, Ordered, Unpublished
<1> QED BY <1>1, <1>2, <1>3, <1>4 DEF CapturePublish

\* What is newest when packages are pruned stands first.
LEMMA NewestIsFirst ==
  ASSUME ManagerInv, OrderInv, NEW i \in DOMAIN live, \A j \in DOMAIN live : live[j].n <= live[i].n,
         (worker = "none" /\ \A j \in 1..(i - 1) : ~live[j].damaged) \/ worker = "prune"
  PROVE  live # <<>> /\ live[i] = live[1]
<1>1. live \in Seq(Packages) /\ i \in Nat /\ 1 <= i /\ 1 \in DOMAIN live /\ live # <<>>
  BY DEF ManagerInv, ManagerTypes
<1>2. live[i].n \in Nat /\ live[1].n \in Nat
  <2>1. live[i] \in Packages /\ live[1] \in Packages
    BY <1>1
  <2> QED BY <2>1 DEF Packages
<1>3. i # 1 => ~live[1].damaged
  BY <1>1 DEF ManagerInv, DiskIsTrue
<1>4. i # 1 => live[i].n < live[1].n
  BY <1>1, <1>3 DEF OrderInv, Ordered
<1>5. live[1].n <= live[i].n
  BY <1>1
<1>6. i = 1
  BY <1>2, <1>4, <1>5
<1> QED BY <1>1, <1>6

LEMMA NewestSteps ==
  ASSUME ManagerInv, OrderInv, ManagerNext
  PROVE  /\ OrderInv'
         /\ \A i \in DOMAIN live :
              /\ \A j \in DOMAIN live : live[j].n <= live[i].n
              /\ worker = "none" => \A j \in 1..(i - 1) : ~live[j].damaged
              => \E k \in DOMAIN live' : live'[k] = live[i]
<1>1. live \in Seq(Packages) /\ captures \in Nat /\ \A i \in DOMAIN live : live[i].n <= captures /\ live[i].n \in Nat
  <2>1. live \in Seq(Packages) /\ captures \in Nat
    BY DEF ManagerInv, ManagerTypes
  <2>2. \A i \in DOMAIN live : live[i] \in Packages
    BY <2>1
  <2> QED BY <2>1, <2>2 DEF ManagerInv, DiskIsTrue, Packages
<1>2. CASE ManagerStart \/ CapturePrune
  <2>1. PruneDirectories /\ worker \in {"none", "prune"} /\ worker' \in {"top", "status"}
    BY <1>2 DEF ManagerStart, CapturePrune
  <2>2. Ordered(live')
    BY <1>1, <2>1, PruningOrders DEF PruneDirectories, OrderInv
  <2>3. live # <<>> => \E k \in DOMAIN live' : live'[k] = live[1]
    BY <2>1, PrunedIsTrue
  <2> QED BY <2>1, <2>2, <2>3, NewestIsFirst DEF OrderInv, Unpublished
<1>3. CASE CapturePublish
  BY <1>3, PublishingOrders
<1>4. CASE CaptureBegin
  <2>1. live' = live /\ captures' \in {captures, captures + 1} /\ (worker' \in Unpublished => captures' = captures + 1)
    BY <1>4 DEF CaptureBegin, Fails, Unpublished
  <2>2. worker' \in Unpublished => \A i \in DOMAIN live : live[i].n < captures'
    BY <1>1, <2>1
  <2> QED BY <2>1, <2>2 DEF OrderInv, Ordered
<1>5. ASSUME UNCHANGED <<live, captures>>, worker' \in Unpublished => worker \in Unpublished
      PROVE  /\ OrderInv'
             /\ \A i \in DOMAIN live : \E k \in DOMAIN live' : live'[k] = live[i]
  BY <1>5 DEF OrderInv, Ordered
<1>6. CASE HardExit \/ Stop \/ \E n \in 1..MaxCaptures : HelperDone(n)
  <2>1. UNCHANGED <<live, captures>> /\ (worker' \in Unpublished => worker \in Unpublished)
    BY <1>6 DEF HardExit, Stop, StopBegin, StopFlag, StopRequest, StopJoin, StopSame, WorkerSame, HelperDone, diskVars,
                Unpublished
  <2> QED BY <1>5, <2>1
<1>7. CASE \E r \in Requesters : Request(r) \/ Wait(r)
  <2>1. UNCHANGED <<live, captures, worker>>
    BY <1>7 DEF Request, Wait, RequestAdmit, RequestClaim, RequestPost, RequestStatus, WaitCheck, WaitTimeout,
                WorkerSame, diskVars
  <2> QED BY <1>5, <2>1
<1>8. CASE WorkerTop \/ WorkerTake \/ WorkerStatus \/ WorkerIdle \/ WorkerNotify
  <2>1. UNCHANGED <<live, captures>> /\ worker' \notin Unpublished
    BY <1>8 DEF WorkerTop, WorkerTake, WorkerStatus, WorkerIdle, WorkerNotify, diskVars, Unpublished
  <2> QED BY <1>5, <2>1
<1>9. CASE GuestFrameBegin \/ GuestFrameEnd
  <2>1. worker \in {"guest", "readback"} /\ UNCHANGED <<live, captures>>
    BY <1>9 DEF GuestFrameBegin, GuestFrameEnd, CaptureSame, OutsideSame, diskVars
  <2> QED BY <1>5, <2>1 DEF Unpublished
<1>10. CASE CaptureState \/ CaptureSave \/ CaptureDump \/ CaptureManifest \/ CapturePointer
  <2>1. CASE CaptureState \/ CaptureSave \/ CaptureDump \/ CaptureManifest
    <3>1. /\ worker \in {"state", "save", "dump", "manifest"}
          /\ UNCHANGED <<busy, requestPending, status, requester, live, latest, captures>>
      BY <2>1 DEF CaptureState, CaptureSave, CaptureDump, CaptureManifest, CaptureSame, OutsideSame, diskVars
    <3> QED BY <1>5, <3>1 DEF Unpublished
  <2>2. CASE CapturePointer
    <3>1. worker' = "prune" /\ UNCHANGED <<live, captures>>
      BY <2>2 DEF CapturePointer, CaptureSame
    <3> QED BY <1>5, <3>1 DEF Unpublished
  <2> QED BY <1>10, <2>1, <2>2
<1> QED BY <1>2, <1>3, <1>4, <1>6, <1>7, <1>8, <1>9, <1>10 DEF ManagerNext, WorkerMain, Capture

\* The package of the latest capture is not removed when packages are pruned,
\* for any limits of count and bytes: not after a capture, and not at start-up
\* unless the rest of a half-removed package stands before it.
THEOREM NewestStays == ManagerSpec => NewestIsKept
<1> DEFINE Keeps == \A i \in DOMAIN live :
                      /\ \A j \in DOMAIN live : live[j].n <= live[i].n
                      /\ worker = "none" => \A j \in 1..(i - 1) : ~live[j].damaged
                      => \E k \in DOMAIN live' : live'[k] = live[i]
<1>1. ManagerInit => ManagerInv /\ OrderInv
  <2>1. ManagerInit => OrderInv
    BY DEF ManagerInit, OrderInv, Ordered, Unpublished
  <2> QED BY <2>1, ManagerStarts
<1>2. ManagerInv /\ OrderInv /\ [ManagerNext]_managerVars => (ManagerInv /\ OrderInv)' /\ [Keeps]_managerVars
  <2> SUFFICES ASSUME ManagerInv, OrderInv, [ManagerNext]_managerVars
               PROVE  (ManagerInv /\ OrderInv)' /\ [Keeps]_managerVars
    OBVIOUS
  <2>1. ManagerInv'
    BY ManagerSteps
  <2>2. CASE ManagerNext
    BY <2>1, <2>2, NewestSteps
  <2>3. CASE UNCHANGED managerVars
    <3>1. UNCHANGED <<live, worker, captures>>
      BY <2>3 DEF managerVars, sharedVars, diskVars
    <3> QED BY <2>1, <2>3, <3>1 DEF OrderInv, Ordered
  <2> QED BY <2>2, <2>3
<1> QED BY <1>1, <1>2, PTL DEF ManagerSpec, NewestIsKept

-----------------------------------------------------------------------------
(* The frame cores.                                                         *)
(*                                                                          *)
(* The worker: a wait that is still open is later than every wait that was  *)
(* claimed, and belongs to an iteration that no claim belongs to; while a   *)
(* wait is running nothing is open, so its success opens a free slot.       *)

WorkerRecords ==
  [life : {"new", "active", "failed", "frozen", "exited"}, state : {"idle", "wait", "dispatch"},
   op : Nat, last : Nat, eligible : Nat, null : BOOLEAN, render : BOOLEAN, iteration : Nat,
   won : Nat, retired : Nat, linked : Nat]

WorkerOrder ==
  /\ wk \in WorkerRecords /\ wkEdges \in Seq(Nat \X Nat)
  /\ wk.eligible <= wk.last
  /\ wk.state = "wait" => wk.eligible = 0
  /\ \A i \in DOMAIN wkEdges :
       /\ wkEdges[i][1] <= wk.last /\ wkEdges[i][2] <= wk.iteration
       /\ wk.state = "wait" => wkEdges[i][2] < wk.iteration
       /\ wk.eligible # 0 => wkEdges[i][1] < wk.eligible /\ wkEdges[i][2] < wk.iteration

WorkerIInv == WorkerOrder /\ WorkerSpendsOnce

LEMMA RetireGivesUp ==
  ASSUME NEW w \in WorkerRecords
  PROVE  /\ Retire(w) \in WorkerRecords
         /\ Retire(w).eligible = 0
         /\ Retire(w).retired = w.retired + IF w.eligible # 0 THEN 1 ELSE 0
         /\ Retire(w).life = w.life /\ Retire(w).state = w.state /\ Retire(w).last = w.last
         /\ Retire(w).null = w.null /\ Retire(w).iteration = w.iteration
         /\ Retire(w).won = w.won /\ Retire(w).linked = w.linked
<1>1. CASE w.eligible = 0
  BY <1>1 DEF Retire, WorkerRecords
<1>2. CASE w.eligible # 0
  <2>1. w.retired + 1 \in Nat
    BY DEF WorkerRecords
  <2> DEFINE r == w.retired + 1
  <2>2. Retire(w) = [w EXCEPT !.retired = r, !.eligible = 0]
    BY <1>2 DEF Retire
  <2>3. r \in Nat
    BY <2>1
  <2>4. r = w.retired + 1
    OBVIOUS
  <2> HIDE DEF r
  <2>5. Retire(w) \in WorkerRecords
    <3> DEFINE u == [w EXCEPT !.retired = r]
    <3>1. u \in WorkerRecords
      BY <2>3 DEF WorkerRecords
    <3>2. Retire(w) = [u EXCEPT !.eligible = 0]
      BY <2>2
    <3> HIDE DEF u
    <3> QED BY <3>1, <3>2 DEF WorkerRecords
  <2> QED BY <1>2, <2>2, <2>4, <2>5 DEF WorkerRecords
<1> QED BY <1>1, <1>2

\* A step that leaves nothing open and claims nothing.
LEMMA ClosedStep ==
  ASSUME WorkerIInv, wkEdges' = wkEdges, wk' \in WorkerRecords,
         wk'.eligible = 0, wk'.won = wk'.linked + wk'.retired,
         wk'.last >= wk.last, wk'.iteration >= wk.iteration,
         wk'.state = "wait" => \/ wk.state = "wait"
                               \/ wk'.iteration > wk.iteration
  PROVE  WorkerIInv'
<1>1. \A i \in DOMAIN wkEdges : wkEdges[i][1] \in Nat /\ wkEdges[i][2] \in Nat
  BY DEF WorkerIInv, WorkerOrder
<1>2. wk.last \in Nat /\ wk'.last \in Nat /\ wk.iteration \in Nat /\ wk'.iteration \in Nat
  BY DEF WorkerIInv, WorkerOrder, WorkerRecords
<1>3. WorkerOrder'
  BY <1>1, <1>2 DEF WorkerIInv, WorkerOrder
<1>4. WorkerSpendsOnce'
  <2>1. wk'.linked \in Nat /\ wk'.retired \in Nat
    BY DEF WorkerRecords
  <2> QED BY <2>1 DEF WorkerIInv, WorkerSpendsOnce
<1> QED BY <1>3, <1>4 DEF WorkerIInv

\* A step that neither opens nor closes.
LEMMA SlotKept ==
  ASSUME WorkerIInv, wkEdges' = wkEdges, wk' \in WorkerRecords,
         wk'.eligible = wk.eligible, wk'.won = wk.won, wk'.linked = wk.linked,
         wk'.retired = wk.retired, wk'.last = wk.last, wk'.iteration = wk.iteration,
         wk'.state # "wait", wk'.life \notin {"failed", "frozen", "exited"}
  PROVE  WorkerIInv'
<1>1. WorkerOrder'
  BY DEF WorkerIInv, WorkerOrder
<1>2. WorkerSpendsOnce'
  BY DEF WorkerIInv, WorkerSpendsOnce
<1> QED BY <1>1, <1>2 DEF WorkerIInv

LEMMA WorkerInitHolds == WorkerInit => WorkerIInv
<1> SUFFICES ASSUME WorkerInit PROVE WorkerIInv
  OBVIOUS
<1>1. wk \in WorkerRecords
  BY DEF WorkerInit, WorkerRecords
<1>2. wkEdges = <<>> /\ wkEdges \in Seq(Nat \X Nat) /\ DOMAIN wkEdges = {}
  BY DEF WorkerInit
<1>3. wk.eligible = 0 /\ wk.last = 0 /\ wk.won = 0 /\ wk.linked = 0 /\ wk.retired = 0
  BY DEF WorkerInit
<1> QED BY <1>1, <1>2, <1>3 DEF WorkerIInv, WorkerOrder, WorkerSpendsOnce

LEMMA FaultCloses ==
  ASSUME WorkerIInv, wk' = WFault(wk), wkEdges' = wkEdges
  PROVE  WorkerIInv'
<1>1. wk \in WorkerRecords
  BY DEF WorkerIInv, WorkerOrder
<1> DEFINE w == Retire(wk)
<1>2. /\ w \in WorkerRecords /\ w.eligible = 0
      /\ w.retired = wk.retired + IF wk.eligible # 0 THEN 1 ELSE 0
      /\ w.state = wk.state /\ w.last = wk.last
      /\ w.iteration = wk.iteration /\ w.won = wk.won /\ w.linked = wk.linked
  BY <1>1, RetireGivesUp
<1>3. wk' = [w EXCEPT !.life = "failed"]
  BY DEF WFault
<1> HIDE DEF w
<1>4. /\ wk' \in WorkerRecords /\ wk'.eligible = 0 /\ wk'.retired = w.retired
      /\ wk'.state = wk.state /\ wk'.last = wk.last
      /\ wk'.iteration = wk.iteration /\ wk'.won = wk.won /\ wk'.linked = wk.linked
  BY <1>2, <1>3 DEF WorkerRecords
<1>5. /\ wk.won \in Nat /\ wk.linked \in Nat /\ wk.retired \in Nat /\ wk.last \in Nat /\ wk.iteration \in Nat
      /\ wk.won = wk.linked + wk.retired + IF wk.eligible # 0 THEN 1 ELSE 0
  BY DEF WorkerIInv, WorkerOrder, WorkerRecords, WorkerSpendsOnce
<1>6. wk'.won = wk'.linked + wk'.retired
  BY <1>2, <1>4, <1>5
<1>7. wk'.last >= wk.last /\ wk'.iteration >= wk.iteration
  BY <1>4, <1>5
<1> QED BY <1>4, <1>6, <1>7, ClosedStep

LEMMA WorkerEnds ==
  ASSUME WorkerIInv
  PROVE  /\ \A fits \in BOOLEAN : WkEnter(fits) => WorkerIInv'
         /\ WkMisfit => WorkerIInv'
         /\ WkExit => WorkerIInv'
         /\ WkFreeze => WorkerIInv'
<1> USE DEF Active
<1>1. wk \in WorkerRecords
  BY DEF WorkerIInv, WorkerOrder
<1> DEFINE w == Retire(wk)
<1>2. /\ w \in WorkerRecords /\ w.eligible = 0
      /\ w.retired = wk.retired + IF wk.eligible # 0 THEN 1 ELSE 0
      /\ w.state = wk.state /\ w.last = wk.last
      /\ w.iteration = wk.iteration /\ w.won = wk.won /\ w.linked = wk.linked
  BY <1>1, RetireGivesUp
<1>3. /\ wk.won \in Nat /\ wk.linked \in Nat /\ wk.retired \in Nat /\ wk.last \in Nat /\ wk.iteration \in Nat
      /\ wk.won = wk.linked + wk.retired + IF wk.eligible # 0 THEN 1 ELSE 0
  BY DEF WorkerIInv, WorkerOrder, WorkerRecords, WorkerSpendsOnce
<1>4. w.won = w.linked + w.retired
  BY <1>2, <1>3
<1>5. ASSUME NEW fits \in BOOLEAN, WkEnter(fits) PROVE WorkerIInv'
  <2>1. CASE fits
    <3>1. wk.life = "new" /\ wk' = [wk EXCEPT !.life = "active"] /\ wkEdges' = wkEdges
      BY <1>5, <2>1 DEF WkEnter
    <3>2. wk' \in WorkerRecords
      BY <1>1, <3>1 DEF WorkerRecords
    <3>3. /\ wk'.eligible = wk.eligible /\ wk'.won = wk.won /\ wk'.linked = wk.linked
          /\ wk'.retired = wk.retired /\ wk'.last = wk.last /\ wk'.iteration = wk.iteration
          /\ wk'.state = wk.state /\ wk'.life = "active"
      BY <1>1, <3>1 DEF WorkerRecords
    <3>4. CASE wk.state = "wait"
      <4>1. wk.eligible = 0
        BY <3>4 DEF WorkerIInv, WorkerOrder
      <4>2. wk'.won = wk'.linked + wk'.retired
        BY <1>3, <3>3, <4>1
      <4>3. wk'.last >= wk.last /\ wk'.iteration >= wk.iteration
        BY <1>3, <3>3
      <4> QED BY <3>1, <3>2, <3>3, <3>4, <4>1, <4>2, <4>3, ClosedStep
    <3>5. CASE wk.state # "wait"
      BY <3>1, <3>2, <3>3, <3>5, SlotKept
    <3> QED BY <3>4, <3>5
  <2>2. CASE ~fits
    BY <1>5, <2>2, FaultCloses DEF WkEnter
  <2> QED BY <2>1, <2>2
<1>6. ASSUME WkMisfit PROVE WorkerIInv'
  BY <1>6, FaultCloses DEF WkMisfit
<1>7. ASSUME WkExit PROVE WorkerIInv'
  <2>1. wk' = [ClearWait(w) EXCEPT !.life = "exited"] /\ wkEdges' = wkEdges /\ wk.state = "idle"
    BY <1>7 DEF WkExit
  <2> HIDE DEF w
  <2> DEFINE c == ClearWait(w)
  <2>2. c = [w EXCEPT !.op = 0, !.null = FALSE]
    BY DEF ClearWait
  <2>3. c \in WorkerRecords /\ c.eligible = 0 /\ c.won = w.won /\ c.linked = w.linked /\ c.retired = w.retired
        /\ c.last = w.last /\ c.iteration = w.iteration /\ c.state = w.state
    BY <1>2, <2>2 DEF WorkerRecords
  <2> HIDE DEF c
  <2>4. wk' = [c EXCEPT !.life = "exited"]
    BY <2>1 DEF c
  <2>5. wk' \in WorkerRecords /\ wk'.eligible = 0 /\ wk'.won = w.won /\ wk'.linked = w.linked
        /\ wk'.retired = w.retired /\ wk'.last = w.last /\ wk'.iteration = w.iteration /\ wk'.state = w.state
    BY <2>3, <2>4 DEF WorkerRecords
  <2>6. wk'.won = wk'.linked + wk'.retired
    BY <1>4, <2>5
  <2>7. wk'.last >= wk.last /\ wk'.iteration >= wk.iteration
    BY <1>2, <1>3, <2>5
  <2>8. wk'.state = wk.state
    BY <1>2, <2>5
  <2> QED BY <2>1, <2>5, <2>6, <2>7, <2>8, ClosedStep
<1>8. ASSUME WkFreeze PROVE WorkerIInv'
  <2>1. wk' = [w EXCEPT !.life = "frozen"] /\ wkEdges' = wkEdges
    BY <1>8 DEF WkFreeze
  <2> HIDE DEF w
  <2>2. wk' \in WorkerRecords /\ wk'.eligible = 0 /\ wk'.won = w.won /\ wk'.linked = w.linked
        /\ wk'.retired = w.retired /\ wk'.last = w.last /\ wk'.iteration = w.iteration /\ wk'.state = w.state
    BY <1>2, <2>1 DEF WorkerRecords
  <2>3. wk'.won = wk'.linked + wk'.retired
    BY <1>4, <2>2
  <2>4. wk'.last >= wk.last /\ wk'.iteration >= wk.iteration
    BY <1>2, <1>3, <2>2
  <2>5. wk'.state = wk.state
    BY <1>2, <2>2
  <2> QED BY <2>1, <2>2, <2>3, <2>4, <2>5, ClosedStep
<1> QED BY <1>5, <1>6, <1>7, <1>8

\* Waits: entering gives up what is open, success opens the next one.
LEMMA WorkerWaits ==
  ASSUME WorkerIInv
  PROVE  /\ \A handle \in BOOLEAN : WkWaitEnter(handle) => WorkerIInv'
         /\ \A outcome \in {"success", "timeout"} : WkWaitExit(outcome) => WorkerIInv'
<1> USE DEF Active
<1>1. wk \in WorkerRecords
  BY DEF WorkerIInv, WorkerOrder
<1>2. /\ wk.won \in Nat /\ wk.linked \in Nat /\ wk.retired \in Nat /\ wk.last \in Nat /\ wk.iteration \in Nat
      /\ wk.won = wk.linked + wk.retired + IF wk.eligible # 0 THEN 1 ELSE 0
  BY DEF WorkerIInv, WorkerOrder, WorkerRecords, WorkerSpendsOnce
<1>3. ASSUME NEW handle \in BOOLEAN, WkWaitEnter(handle) PROVE WorkerIInv'
  <2> DEFINE w == Retire(wk)
             n == w.iteration + 1
             b == ~handle
  <2>1. /\ w \in WorkerRecords /\ w.eligible = 0
        /\ w.retired = wk.retired + IF wk.eligible # 0 THEN 1 ELSE 0
        /\ w.state = wk.state /\ w.last = wk.last
        /\ w.iteration = wk.iteration /\ w.won = wk.won /\ w.linked = wk.linked
    BY <1>1, RetireGivesUp
  <2>2. /\ wk' = [w EXCEPT !.state = "wait", !.op = 0, !.null = b, !.iteration = n]
        /\ wkEdges' = wkEdges
    BY <1>3 DEF WkWaitEnter
  <2> HIDE DEF w
  <2>3. n \in Nat /\ n > wk.iteration /\ b \in BOOLEAN
    BY <1>2, <2>1
  <2>4. w.won = w.linked + w.retired
    BY <1>2, <2>1
  <2> HIDE DEF n, b
  <2>5. wk' \in WorkerRecords
    BY <2>1, <2>2, <2>3 DEF WorkerRecords
  <2>6. /\ wk'.eligible = 0 /\ wk'.won = w.won /\ wk'.linked = w.linked
        /\ wk'.retired = w.retired /\ wk'.last = w.last /\ wk'.iteration = n
    BY <2>1, <2>2 DEF WorkerRecords
  <2>7. wk'.won = wk'.linked + wk'.retired
    BY <2>4, <2>6
  <2>8. wk'.last >= wk.last /\ wk'.iteration >= wk.iteration /\ wk'.iteration > wk.iteration
    BY <1>2, <2>1, <2>3, <2>6
  <2> QED BY <2>2, <2>5, <2>6, <2>7, <2>8, ClosedStep
<1>4. ASSUME NEW outcome \in {"success", "timeout"}, WkWaitExit(outcome) PROVE WorkerIInv'
  <2>1. wk.state = "wait" /\ wk.life = "active" /\ wkEdges' = wkEdges /\ wk.eligible = 0
    BY <1>4 DEF WkWaitExit, WorkerIInv, WorkerOrder
  <2> DEFINE n == wk.last + 1
             m == wk.won + 1
  <2>2. n \in Nat /\ n > wk.last /\ n # 0 /\ m \in Nat /\ m = wk.won + 1
    BY <1>2
  <2>3. CASE wk.null \/ outcome # "success"
    <3> DEFINE k == IF wk.null THEN wk.last ELSE n
               u == [wk EXCEPT !.state = "idle", !.last = k]
    <3>1. wk' = ClearWait(u)
      BY <1>4, <2>3 DEF WkWaitExit
    <3>2. k \in Nat /\ k >= wk.last
      BY <1>2, <2>2
    <3> HIDE DEF k
    <3>3. /\ u \in WorkerRecords /\ u.eligible = wk.eligible /\ u.won = wk.won /\ u.linked = wk.linked
          /\ u.retired = wk.retired /\ u.last = k /\ u.iteration = wk.iteration /\ u.state = "idle"
      BY <1>1, <3>2 DEF WorkerRecords
    <3> HIDE DEF u
    <3>4. wk' = [u EXCEPT !.op = 0, !.null = FALSE]
      BY <3>1 DEF ClearWait
    <3>5. /\ wk' \in WorkerRecords /\ wk'.eligible = wk.eligible /\ wk'.won = wk.won /\ wk'.linked = wk.linked
          /\ wk'.retired = wk.retired /\ wk'.last = k /\ wk'.iteration = wk.iteration /\ wk'.state = "idle"
      BY <3>3, <3>4 DEF WorkerRecords
    <3>6. wk'.won = wk'.linked + wk'.retired
      BY <1>2, <2>1, <3>5
    <3>7. wk'.last >= wk.last /\ wk'.iteration >= wk.iteration
      BY <1>2, <3>2, <3>5
    <3> QED BY <2>1, <3>5, <3>6, <3>7, ClosedStep
  <2>4. CASE ~(wk.null \/ outcome # "success")
    <3>1. wk' = [wk EXCEPT !.state = "idle", !.op = n, !.last = n, !.eligible = n, !.won = m]
      BY <1>4, <2>4 DEF WkWaitExit
    <3> HIDE DEF n, m
    <3>2. wk' \in WorkerRecords
      BY <1>1, <2>2, <3>1 DEF WorkerRecords
    <3>3. /\ wk'.eligible = n /\ wk'.won = m /\ wk'.linked = wk.linked /\ wk'.life = wk.life
          /\ wk'.retired = wk.retired /\ wk'.last = n /\ wk'.iteration = wk.iteration /\ wk'.state = "idle"
      BY <1>1, <3>1 DEF WorkerRecords
    <3>4. wk'.won = wk'.linked + wk'.retired + 1
      BY <1>2, <2>1, <2>2, <3>3
    <3>5. \A i \in DOMAIN wkEdges : /\ wkEdges[i][1] \in Nat /\ wkEdges[i][2] \in Nat
                                    /\ wkEdges[i][1] <= wk.last /\ wkEdges[i][2] < wk.iteration
      BY <2>1 DEF WorkerIInv, WorkerOrder
    <3>6. \A i \in DOMAIN wkEdges : /\ wkEdges[i][1] < n /\ wkEdges[i][1] <= n /\ wkEdges[i][2] < wk.iteration
                                    /\ wkEdges[i][2] <= wk.iteration
      BY <1>2, <2>2, <3>5
    <3>7. n <= n
      BY <2>2
    <3>8. WorkerOrder'
      BY <2>1, <3>2, <3>3, <3>6, <3>7 DEF WorkerIInv, WorkerOrder
    <3>9. WorkerSpendsOnce'
      BY <2>1, <2>2, <3>3, <3>4 DEF WorkerIInv, WorkerSpendsOnce
    <3> QED BY <3>8, <3>9 DEF WorkerIInv
  <2> QED BY <2>3, <2>4
<1> QED BY <1>3, <1>4

\* Dispatches and renders: the open wait is claimed with the iteration it is of.
LEMMA WorkerDispatches ==
  ASSUME WorkerIInv
  PROVE  /\ WkDispatchEnter => WorkerIInv'
         /\ WkDispatchExit => WorkerIInv'
         /\ \A phase \in BOOLEAN : WkRender(phase) => WorkerIInv'
<1> USE DEF Active
<1>1. wk \in WorkerRecords
  BY DEF WorkerIInv, WorkerOrder
<1>2. /\ wk.won \in Nat /\ wk.linked \in Nat /\ wk.retired \in Nat /\ wk.last \in Nat /\ wk.iteration \in Nat
      /\ wk.won = wk.linked + wk.retired + IF wk.eligible # 0 THEN 1 ELSE 0
  BY DEF WorkerIInv, WorkerOrder, WorkerRecords, WorkerSpendsOnce
<1>3. ASSUME WkDispatchEnter PROVE WorkerIInv'
  <2>1. wk' = [wk EXCEPT !.state = "dispatch", !.render = FALSE] /\ wkEdges' = wkEdges /\ wk.life = "active"
    BY <1>3 DEF WkDispatchEnter
  <2>2. wk' \in WorkerRecords
    BY <1>1, <2>1 DEF WorkerRecords
  <2>3. /\ wk'.eligible = wk.eligible /\ wk'.won = wk.won /\ wk'.linked = wk.linked
        /\ wk'.retired = wk.retired /\ wk'.last = wk.last /\ wk'.iteration = wk.iteration
        /\ wk'.state = "dispatch" /\ wk'.life = "active"
    BY <1>1, <2>1 DEF WorkerRecords
  <2> QED BY <2>1, <2>2, <2>3, SlotKept
<1>4. ASSUME WkDispatchExit PROVE WorkerIInv'
  <2> DEFINE w == IF wk.render THEN wk ELSE Retire(wk)
             u == [w EXCEPT !.state = "idle"]
  <2>1. wk' = ClearWait(u) /\ wkEdges' = wkEdges /\ wk.life = "active"
    BY <1>4 DEF WkDispatchExit
  <2>2. w \in WorkerRecords /\ w.life = wk.life /\ w.won = wk.won /\ w.linked = wk.linked
        /\ w.last = wk.last /\ w.iteration = wk.iteration
    BY <1>1, RetireGivesUp
  <2>3. \/ w.eligible = wk.eligible /\ w.retired = wk.retired
        \/ w.eligible = 0 /\ w.retired = wk.retired + IF wk.eligible # 0 THEN 1 ELSE 0
    BY <1>1, RetireGivesUp
  <2> HIDE DEF w
  <2>4. u \in WorkerRecords /\ u.life = wk.life /\ u.won = wk.won /\ u.linked = wk.linked
        /\ u.last = wk.last /\ u.iteration = wk.iteration /\ u.eligible = w.eligible /\ u.retired = w.retired
        /\ u.state = "idle"
    BY <2>2 DEF WorkerRecords
  <2> HIDE DEF u
  <2>5. wk' = [u EXCEPT !.op = 0, !.null = FALSE]
    BY <2>1 DEF ClearWait
  <2>6. wk' \in WorkerRecords /\ wk'.life = wk.life /\ wk'.won = wk.won /\ wk'.linked = wk.linked
        /\ wk'.last = wk.last /\ wk'.iteration = wk.iteration /\ wk'.eligible = w.eligible
        /\ wk'.retired = w.retired /\ wk'.state = "idle"
    BY <2>4, <2>5 DEF WorkerRecords
  <2>7. CASE w.eligible = wk.eligible /\ w.retired = wk.retired
    BY <2>1, <2>6, <2>7, SlotKept
  <2>8. CASE w.eligible = 0 /\ w.retired = wk.retired + IF wk.eligible # 0 THEN 1 ELSE 0
    <3>1. wk'.won = wk'.linked + wk'.retired
      BY <1>2, <2>6, <2>8
    <3>2. wk'.last >= wk.last /\ wk'.iteration >= wk.iteration
      BY <1>2, <2>6
    <3> QED BY <2>1, <2>6, <2>8, <3>1, <3>2, ClosedStep
  <2> QED BY <2>3, <2>7, <2>8
<1>5. ASSUME NEW phase \in BOOLEAN, WkRender(phase) PROVE WorkerIInv'
  <2> DEFINE n == IF wk.eligible # 0 THEN wk.linked + 1 ELSE wk.linked
  <2>1. wk' = [wk EXCEPT !.render = TRUE, !.eligible = 0, !.linked = n]
    BY <1>5 DEF WkRender, SlotAfter
  <2>2. n \in Nat /\ n = wk.linked + IF wk.eligible # 0 THEN 1 ELSE 0
    BY <1>2
  <2> HIDE DEF n
  <2>3. wk' \in WorkerRecords
    BY <1>1, <2>1, <2>2 DEF WorkerRecords
  <2>4. /\ wk'.eligible = 0 /\ wk'.won = wk.won /\ wk'.linked = n
        /\ wk'.retired = wk.retired /\ wk'.last = wk.last /\ wk'.iteration = wk.iteration
        /\ wk'.state = wk.state
    BY <1>1, <2>1 DEF WorkerRecords
  <2>5. wk'.won = wk'.linked + wk'.retired
    BY <1>2, <2>2, <2>4
  <2>6. wk'.last >= wk.last /\ wk'.iteration >= wk.iteration
    BY <1>2, <2>4
  <2>7. CASE wk.eligible = 0
    <3>1. wkEdges' = wkEdges
      BY <1>5, <2>7 DEF WkRender
    <3> QED BY <2>3, <2>4, <2>5, <2>6, <3>1, ClosedStep
  <2>8. CASE wk.eligible # 0
    <3> DEFINE claim == <<wk.eligible, wk.iteration>>
    <3>1. wkEdges' = Append(wkEdges, claim) /\ wk.state = "dispatch"
      BY <1>5, <2>8 DEF WkRender
    <3>2. wkEdges \in Seq(Nat \X Nat)
      BY DEF WorkerIInv, WorkerOrder
    <3>3. wk.eligible \in Nat
      BY <1>1 DEF WorkerRecords
    <3>4. claim \in Nat \X Nat /\ claim[1] = wk.eligible /\ claim[2] = wk.iteration
      BY <1>2, <3>3
    <3> HIDE DEF claim
    <3>5. /\ wkEdges' \in Seq(Nat \X Nat)
          /\ \A i \in DOMAIN wkEdges' : \/ i \in DOMAIN wkEdges /\ wkEdges'[i] = wkEdges[i]
                                        \/ i = Len(wkEdges) + 1 /\ wkEdges'[i] = claim
      BY <3>1, <3>2, <3>4
    <3>6. \A i \in DOMAIN wkEdges :
             /\ wkEdges[i][1] \in Nat /\ wkEdges[i][2] \in Nat
             /\ wkEdges[i][1] <= wk.last /\ wkEdges[i][2] <= wk.iteration
             /\ wkEdges[i][1] < wk.eligible /\ wkEdges[i][2] < wk.iteration
      BY <2>8, <3>2 DEF WorkerIInv, WorkerOrder
    <3>7. wk.eligible <= wk.last
      BY DEF WorkerIInv, WorkerOrder
    <3>8. \A i \in DOMAIN wkEdges' : wkEdges'[i][1] <= wk.last /\ wkEdges'[i][2] <= wk.iteration
      <4>1. wk.iteration <= wk.iteration
        BY <1>2
      <4>2. claim[1] <= wk.last /\ claim[2] <= wk.iteration
        BY <3>4, <3>7, <4>1
      <4> QED BY <3>5, <3>6, <4>2
    <3>9. wk'.eligible <= wk'.last
      BY <1>2, <2>4
    <3>10. WorkerOrder'
      BY <2>3, <2>4, <3>1, <3>5, <3>8, <3>9 DEF WorkerOrder
    <3>11. \A i, j \in DOMAIN wkEdges' : i # j => wkEdges'[i][1] # wkEdges'[j][1] /\ wkEdges'[i][2] # wkEdges'[j][2]
      <4>1. \A i, j \in DOMAIN wkEdges : i # j => wkEdges[i][1] # wkEdges[j][1] /\ wkEdges[i][2] # wkEdges[j][2]
        BY DEF WorkerIInv, WorkerSpendsOnce
      <4>2. \A i \in DOMAIN wkEdges : wkEdges[i][1] # wk.eligible /\ wkEdges[i][2] # wk.iteration
        BY <1>2, <3>3, <3>6
      <4> QED BY <3>4, <3>5, <4>1, <4>2
    <3>12. WorkerSpendsOnce'
      <4>1. wk'.linked \in Nat /\ wk'.retired \in Nat
        BY <2>3 DEF WorkerRecords
      <4> QED BY <2>4, <2>5, <3>11, <4>1 DEF WorkerSpendsOnce
    <3> QED BY <3>10, <3>12 DEF WorkerIInv
  <2> QED BY <2>7, <2>8
<1> QED BY <1>3, <1>4, <1>5

LEMMA WorkerKeeps == WorkerSpec => []WorkerIInv
<1>1. WorkerIInv /\ [WorkerNext]_workerVars => WorkerIInv'
  <2> SUFFICES ASSUME WorkerIInv, [WorkerNext]_workerVars PROVE WorkerIInv'
    OBVIOUS
  <2>1. CASE UNCHANGED workerVars
    BY <2>1 DEF workerVars, WorkerIInv, WorkerOrder, WorkerSpendsOnce
  <2>2. CASE WorkerNext
    BY <2>2, WorkerEnds, WorkerWaits, WorkerDispatches DEF WorkerNext
  <2> QED BY <2>1, <2>2
<1> QED BY <1>1, WorkerInitHolds, PTL DEF WorkerSpec

\* The tracker: what may still be handed out is later than what was.
TrackerScopes == [kind : {"update", "coordinator", "sync", "worker"}, id : Nat, epoch : Nat]
TrackerRecords == [failed : BOOLEAN, stack : Seq(TrackerScopes), update : Nat, wait : Nat, lastWait : Nat,
                   epoch : Nat, serial : Nat]

TrackerTypes ==
  /\ tk \in TrackerRecords /\ tkSpent \in Seq({"update", "wait"} \X Nat)
TrackerOffers ==
  /\ tk.failed => tk.update = 0 /\ tk.wait = 0
  /\ tk.update # 0 => tk.wait = 0 /\ tk.stack = <<>>
  /\ tk.stack # <<>> => tk.wait = 0
  /\ tk.update <= tk.serial /\ tk.wait <= tk.lastWait
  /\ \A k \in DOMAIN tk.stack : /\ tk.stack[k].id <= tk.serial
                                /\ tk.stack[k].kind = "update" => Len(tk.stack) = 1
TrackerPast ==
  \A i \in DOMAIN tkSpent :
    /\ tkSpent[i][1] = "update" =>
         /\ tkSpent[i][2] <= tk.serial
         /\ tk.update # 0 => tkSpent[i][2] < tk.update
         /\ \A k \in DOMAIN tk.stack : tk.stack[k].kind = "update" => tkSpent[i][2] < tk.stack[k].id
    /\ tkSpent[i][1] = "wait" =>
         /\ tkSpent[i][2] <= tk.lastWait
         /\ tk.wait # 0 => tkSpent[i][2] < tk.wait
SpentInOrder ==
  \A i, j \in DOMAIN tkSpent : i < j /\ tkSpent[i][1] = tkSpent[j][1] => tkSpent[i][2] < tkSpent[j][2]

TrackerIInv == TrackerTypes /\ TrackerOffers /\ TrackerPast /\ SpentInOrder

LEMMA TrackerFields ==
  ASSUME TrackerIInv
  PROVE  /\ tk \in TrackerRecords
         /\ tk.stack \in Seq(TrackerScopes) /\ tk.update \in Nat /\ tk.wait \in Nat /\ tk.lastWait \in Nat
         /\ tk.epoch \in Nat /\ tk.serial \in Nat /\ tk.failed \in BOOLEAN
         /\ \A k \in DOMAIN tk.stack : tk.stack[k].id \in Nat
         /\ tkSpent \in Seq({"update", "wait"} \X Nat)
         /\ \A i \in DOMAIN tkSpent : tkSpent[i][1] \in {"update", "wait"} /\ tkSpent[i][2] \in Nat
<1>1. tk \in TrackerRecords /\ tkSpent \in Seq({"update", "wait"} \X Nat)
  BY DEF TrackerIInv, TrackerTypes
<1>2. tk.stack \in Seq(TrackerScopes) /\ tk.update \in Nat /\ tk.wait \in Nat /\ tk.lastWait \in Nat
      /\ tk.epoch \in Nat /\ tk.serial \in Nat /\ tk.failed \in BOOLEAN
  BY <1>1 DEF TrackerRecords
<1>3. \A k \in DOMAIN tk.stack : tk.stack[k].id \in Nat
  <2>1. \A k \in DOMAIN tk.stack : tk.stack[k] \in TrackerScopes
    BY <1>2
  <2> QED BY <2>1 DEF TrackerScopes
<1>4. \A i \in DOMAIN tkSpent : tkSpent[i][1] \in {"update", "wait"} /\ tkSpent[i][2] \in Nat
  BY <1>1
<1> QED BY <1>1, <1>2, <1>3, <1>4

LEMMA TrackerInitHolds == TrackerInit => TrackerIInv
<1> SUFFICES ASSUME TrackerInit PROVE TrackerIInv
  OBVIOUS
<1>1. tk \in TrackerRecords
  BY DEF TrackerInit, TrackerRecords
<1>2. tkSpent \in Seq({"update", "wait"} \X Nat) /\ DOMAIN tkSpent = {}
  BY DEF TrackerInit
<1>3. TrackerOffers
  BY DEF TrackerInit, TrackerOffers
<1> QED BY <1>1, <1>2, <1>3 DEF TrackerIInv, TrackerTypes, TrackerPast, SpentInOrder

\* Poison takes back what was offered; the stack shrinks at most.
LEMMA PoisonKeeps ==
  ASSUME TrackerIInv, NEW s \in Seq(TrackerScopes), s = tk.stack \/ Len(s) < Len(tk.stack),
         \A k \in DOMAIN s : k \in DOMAIN tk.stack /\ s[k] = tk.stack[k],
         tk' = [Poison EXCEPT !.stack = s], tkSpent' = tkSpent
  PROVE  TrackerIInv'
<1>1. /\ tk \in TrackerRecords
      /\ tk.stack \in Seq(TrackerScopes) /\ tk.serial \in Nat /\ tk.lastWait \in Nat
  BY TrackerFields
<1> DEFINE p == Poison
<1>2. /\ p \in TrackerRecords /\ p.update = 0 /\ p.wait = 0 /\ p.serial = tk.serial /\ p.lastWait = tk.lastWait
  BY <1>1 DEF Poison, TrackerRecords
<1> HIDE DEF p
<1>3. tk' = [p EXCEPT !.stack = s]
  BY DEF p
<1>4. /\ tk' \in TrackerRecords /\ tk'.update = 0 /\ tk'.wait = 0 /\ tk'.serial = tk.serial
      /\ tk'.lastWait = tk.lastWait /\ tk'.stack = s
  BY <1>2, <1>3 DEF TrackerRecords
<1>5. 0 <= tk.serial /\ 0 <= tk.lastWait
  BY <1>1
<1>6. \A k \in DOMAIN s : s[k].kind = "update" => Len(s) = 1
  <2> SUFFICES ASSUME NEW k \in DOMAIN s, s[k].kind = "update" PROVE Len(s) = 1
    OBVIOUS
  <2>1. Len(tk.stack) = 1
    BY DEF TrackerIInv, TrackerOffers
  <2>2. Len(s) >= 1
    OBVIOUS
  <2> QED BY <2>1, <2>2, <1>1
<1>7. TrackerOffers'
  BY <1>4, <1>5, <1>6 DEF TrackerIInv, TrackerOffers
<1>8. TrackerPast'
  BY <1>4 DEF TrackerIInv, TrackerPast
<1>9. TrackerTypes' /\ SpentInOrder'
  BY <1>4 DEF TrackerIInv, TrackerTypes, SpentInOrder
<1> QED BY <1>7, <1>8, <1>9 DEF TrackerIInv

LEMMA MisusedKeeps ==
  ASSUME TrackerIInv, tk' = Poison, tkSpent' = tkSpent
  PROVE  TrackerIInv'
<1>1. tk \in TrackerRecords /\ tk.stack \in Seq(TrackerScopes)
  BY TrackerFields
<1>2. Poison \in TrackerRecords /\ Poison.stack = tk.stack
  BY <1>1 DEF Poison, TrackerRecords
<1>3. Poison = [Poison EXCEPT !.stack = tk.stack]
  BY <1>2 DEF TrackerRecords
<1> QED BY <1>1, <1>3, PoisonKeeps

LEMMA CreditKeeps ==
  ASSUME TrackerIInv, NEW op \in 1..MaxWaits, NEW epoch \in 1..2, WorkerCredit(op, epoch)
  PROVE  TrackerIInv'
<1>1. tkSpent' = tkSpent
  BY DEF WorkerCredit
<1>2. /\ tk \in TrackerRecords /\ tk.lastWait \in Nat
      /\ \A i \in DOMAIN tkSpent : tkSpent[i][1] \in {"update", "wait"} /\ tkSpent[i][2] \in Nat
  BY TrackerFields
<1>3. op \in Nat /\ epoch \in Nat
  BY CoreConstants
<1> DEFINE unfit == tk.stack # <<>> \/ tk.update # 0 \/ op <= tk.lastWait \/ tk.wait # 0
<1>4. CASE unfit
  <2>1. tk' = Poison
    BY <1>4 DEF WorkerCredit
  <2> QED BY <1>1, <2>1, MisusedKeeps
<1>5. CASE ~unfit
  <2>1. tk' = [tk EXCEPT !.wait = op, !.lastWait = op, !.epoch = epoch] /\ ~tk.failed
    BY <1>5 DEF WorkerCredit
  <2>2. tk' \in TrackerRecords
    BY <1>2, <1>3, <2>1 DEF TrackerRecords
  <2>3. /\ tk'.wait = op /\ tk'.lastWait = op /\ tk'.update = 0 /\ tk'.stack = tk.stack /\ tk'.serial = tk.serial
        /\ tk'.failed = FALSE
    BY <1>2, <1>5, <2>1 DEF TrackerRecords
  <2>4. op > tk.lastWait /\ op <= op
    BY <1>2, <1>3, <1>5
  <2>5. TrackerOffers'
    BY <1>5, <2>3, <2>4 DEF TrackerIInv, TrackerOffers
  <2>6. \A i \in DOMAIN tkSpent : tkSpent[i][1] = "wait" => tkSpent[i][2] <= op /\ tkSpent[i][2] < op
    <3>1. \A i \in DOMAIN tkSpent : tkSpent[i][1] = "wait" => tkSpent[i][2] <= tk.lastWait
      BY DEF TrackerIInv, TrackerPast
    <3> QED BY <1>2, <1>3, <2>4, <3>1
  <2>7. TrackerPast'
    BY <1>1, <2>3, <2>6 DEF TrackerIInv, TrackerPast
  <2>8. TrackerTypes' /\ SpentInOrder'
    BY <1>1, <2>2 DEF TrackerIInv, TrackerTypes, SpentInOrder
  <2> QED BY <2>5, <2>7, <2>8 DEF TrackerIInv
<1> QED BY <1>4, <1>5

LEMMA PushShape ==
  ASSUME TrackerIInv, NEW kind \in {"update", "coordinator", "sync", "worker"}, NEW epoch \in Nat,
         tk.stack = <<>> \/ (Len(tk.stack) = 1 /\ tk.stack[1].kind # "update" /\ kind # "update")
  PROVE  /\ Pushed(kind, epoch) \in TrackerRecords
         /\ Pushed(kind, epoch).serial = tk.serial + 1
         /\ Pushed(kind, epoch).update = tk.update /\ Pushed(kind, epoch).wait = tk.wait
         /\ Pushed(kind, epoch).lastWait = tk.lastWait /\ Pushed(kind, epoch).failed = tk.failed
         /\ \A k \in DOMAIN Pushed(kind, epoch).stack :
              /\ Pushed(kind, epoch).stack[k].id <= tk.serial + 1
              /\ Pushed(kind, epoch).stack[k].kind = "update" =>
                   /\ Len(Pushed(kind, epoch).stack) = 1 /\ Pushed(kind, epoch).stack[k].id = tk.serial + 1
                   /\ kind = "update"
<1> DEFINE n == tk.serial + 1
           scope == [kind |-> kind, id |-> n, epoch |-> epoch]
           s == Append(tk.stack, scope)
           p == Pushed(kind, epoch)
<1>1. /\ tk \in TrackerRecords /\ tk.stack \in Seq(TrackerScopes) /\ tk.serial \in Nat
      /\ \A k \in DOMAIN tk.stack : tk.stack[k].id \in Nat
  BY TrackerFields
<1>2. n \in Nat /\ n > tk.serial /\ n <= n
  BY <1>1
<1>3. p = [tk EXCEPT !.serial = n, !.stack = s]
  BY <1>1 DEF Pushed, TrackerRecords
<1>4. n = tk.serial + 1
  OBVIOUS
<1> HIDE DEF n
<1>5. scope \in TrackerScopes /\ scope.kind = kind /\ scope.id = n
  BY <1>2 DEF TrackerScopes
<1> HIDE DEF scope
<1>6. /\ s \in Seq(TrackerScopes) /\ Len(s) = Len(tk.stack) + 1
      /\ \A k \in DOMAIN s : \/ k \in DOMAIN tk.stack /\ s[k] = tk.stack[k]
                             \/ k = Len(tk.stack) + 1 /\ s[k] = scope
  BY <1>1, <1>5
<1> HIDE DEF s, p
<1>7. /\ p \in TrackerRecords /\ p.serial = n /\ p.stack = s /\ p.update = tk.update /\ p.wait = tk.wait
      /\ p.lastWait = tk.lastWait /\ p.failed = tk.failed
  BY <1>1, <1>2, <1>3, <1>6 DEF TrackerRecords
<1>8. \A k \in DOMAIN s : s[k].id <= n
  <2>1. \A k \in DOMAIN tk.stack : tk.stack[k].id <= n
    <3>1. \A k \in DOMAIN tk.stack : tk.stack[k].id <= tk.serial
      BY DEF TrackerIInv, TrackerOffers
    <3> QED BY <1>1, <1>2, <3>1
  <2> QED BY <1>2, <1>5, <1>6, <2>1
<1>9. \A k \in DOMAIN s : s[k].kind = "update" => Len(s) = 1 /\ s[k].id = n /\ kind = "update"
  <2>1. CASE tk.stack = <<>>
    BY <1>5, <1>6, <2>1
  <2>2. CASE Len(tk.stack) = 1 /\ tk.stack[1].kind # "update" /\ kind # "update"
    <3>1. \A k \in DOMAIN tk.stack : k = 1
      BY <1>1, <2>2
    <3> QED BY <1>5, <1>6, <2>2, <3>1
  <2> QED BY <2>1, <2>2
<1>10. /\ p \in TrackerRecords /\ p.serial = tk.serial + 1 /\ p.update = tk.update /\ p.wait = tk.wait
       /\ p.lastWait = tk.lastWait /\ p.failed = tk.failed
       /\ \A k \in DOMAIN p.stack : /\ p.stack[k].id <= tk.serial + 1
                                    /\ p.stack[k].kind = "update" =>
                                         Len(p.stack) = 1 /\ p.stack[k].id = tk.serial + 1 /\ kind = "update"
  BY <1>4, <1>7, <1>8, <1>9
<1> QED BY <1>10 DEF p

\* What is handed out is later than everything of its kind that was.
LEMMA SpendingIsOrdered ==
  ASSUME TrackerIInv, NEW what \in {"update", "wait"}, NEW id \in Nat, Spends(what, id),
         \A i \in DOMAIN tkSpent : tkSpent[i][1] = what => tkSpent[i][2] < id
  PROVE  /\ tkSpent' \in Seq({"update", "wait"} \X Nat)
         /\ SpentInOrder'
         /\ \A i \in DOMAIN tkSpent' : \/ i \in DOMAIN tkSpent /\ tkSpent'[i] = tkSpent[i]
                                       \/ tkSpent'[i][1] = what /\ tkSpent'[i][2] = id
<1> DEFINE one == <<what, id>>
<1>1. tkSpent' = Append(tkSpent, one)
  BY DEF Spends
<1>2. one \in {"update", "wait"} \X Nat /\ one[1] = what /\ one[2] = id
  OBVIOUS
<1> HIDE DEF one
<1>3. tkSpent \in Seq({"update", "wait"} \X Nat)
  BY TrackerFields
<1>4. /\ tkSpent' \in Seq({"update", "wait"} \X Nat)
      /\ \A i \in DOMAIN tkSpent' : \/ i \in DOMAIN tkSpent /\ tkSpent'[i] = tkSpent[i]
                                    \/ i = Len(tkSpent) + 1 /\ tkSpent'[i] = one
  BY <1>1, <1>2, <1>3
<1>5. SpentInOrder'
  <2>1. \A i, j \in DOMAIN tkSpent : i < j /\ tkSpent[i][1] = tkSpent[j][1] => tkSpent[i][2] < tkSpent[j][2]
    BY DEF TrackerIInv, SpentInOrder
  <2>2. \A i \in DOMAIN tkSpent : i \in 1..Len(tkSpent) /\ Len(tkSpent) \in Nat
    BY <1>3
  <2>3. SUFFICES ASSUME NEW i \in DOMAIN tkSpent', NEW j \in DOMAIN tkSpent', i < j,
                        tkSpent'[i][1] = tkSpent'[j][1]
                 PROVE  tkSpent'[i][2] < tkSpent'[j][2]
    BY DEF SpentInOrder
  <2>4. CASE i \in DOMAIN tkSpent /\ j \in DOMAIN tkSpent
    <3>1. tkSpent'[i] = tkSpent[i] /\ tkSpent'[j] = tkSpent[j]
      BY <1>4, <2>2, <2>4
    <3> QED BY <2>1, <2>3, <2>4, <3>1
  <2>5. CASE i \in DOMAIN tkSpent /\ j \notin DOMAIN tkSpent
    <3>1. tkSpent'[i] = tkSpent[i] /\ tkSpent'[j] = one
      BY <1>4, <2>2, <2>5
    <3> QED BY <1>2, <2>3, <2>5, <3>1
  <2>6. CASE i \notin DOMAIN tkSpent
    <3>1. i = Len(tkSpent) + 1 /\ (j \in DOMAIN tkSpent \/ j = Len(tkSpent) + 1)
      BY <1>4, <2>6
    <3> QED BY <1>3, <2>2, <2>3, <3>1
  <2> QED BY <2>4, <2>5, <2>6
<1> QED BY <1>2, <1>4, <1>5

LEMMA EnterKeeps ==
  ASSUME TrackerIInv, NEW kind \in {"update", "coordinator", "sync", "worker"}, NEW epoch \in 0..2,
         TkEnter(kind, epoch)
  PROVE  TrackerIInv'
<1>1. /\ tk \in TrackerRecords /\ tk.stack \in Seq(TrackerScopes) /\ tk.update \in Nat /\ tk.wait \in Nat
      /\ tk.lastWait \in Nat /\ tk.serial \in Nat
      /\ \A i \in DOMAIN tkSpent : tkSpent[i][1] \in {"update", "wait"} /\ tkSpent[i][2] \in Nat
  BY TrackerFields
<1>2. epoch \in Nat /\ 0 \in Nat /\ 0 <= tk.serial + 1 /\ tk.serial + 1 \in Nat /\ 0 <= tk.lastWait
  BY <1>1
<1>3. /\ tk.wait <= tk.lastWait /\ tk.update <= tk.serial
      /\ \A i \in DOMAIN tkSpent : /\ tkSpent[i][1] = "update" => tkSpent[i][2] <= tk.serial
                                   /\ tkSpent[i][1] = "wait" => tkSpent[i][2] <= tk.lastWait
  BY DEF TrackerIInv, TrackerOffers, TrackerPast
<1>4. tk.update <= tk.serial + 1
  BY <1>1, <1>3
<1>5. \A i \in DOMAIN tkSpent : tkSpent[i][1] = "update" => tkSpent[i][2] < tk.serial + 1 /\ tkSpent[i][2] <= tk.serial + 1
  BY <1>1, <1>3
<1>6. ~tk.failed
  BY DEF TkEnter
<1>7. CASE kind = "update"
  <2> DEFINE p == Pushed("update", 0)
  <2>1. tk.stack = <<>> /\ tk.update = 0 /\ tk.wait = 0 /\ tk' = p /\ tkSpent' = tkSpent
    BY <1>7 DEF TkEnter
  <2>2. /\ p \in TrackerRecords /\ p.serial = tk.serial + 1 /\ p.update = tk.update /\ p.wait = tk.wait
        /\ p.lastWait = tk.lastWait /\ p.failed = tk.failed
        /\ \A k \in DOMAIN p.stack : /\ p.stack[k].id <= tk.serial + 1
                                     /\ p.stack[k].kind = "update" =>
                                          Len(p.stack) = 1 /\ p.stack[k].id = tk.serial + 1
    BY <1>2, <2>1, PushShape
  <2> HIDE DEF p
  <2>3. TrackerOffers'
    BY <1>2, <1>3, <2>1, <2>2 DEF TrackerOffers
  <2>4. TrackerPast'
    BY <1>3, <1>5, <2>1, <2>2 DEF TrackerPast
  <2>5. TrackerTypes' /\ SpentInOrder'
    BY <2>1, <2>2 DEF TrackerIInv, TrackerTypes, SpentInOrder
  <2> QED BY <2>3, <2>4, <2>5 DEF TrackerIInv
<1>8. CASE kind = "coordinator"
  <2> DEFINE p == Pushed("coordinator", epoch)
  <2>1. /\ tk.stack = <<>> /\ tk.update # 0 /\ tk.wait = 0 /\ tk' = [p EXCEPT !.update = 0]
        /\ Spends("update", tk.update)
    BY <1>8 DEF TkEnter
  <2>2. /\ p \in TrackerRecords /\ p.serial = tk.serial + 1 /\ p.wait = tk.wait
        /\ p.lastWait = tk.lastWait /\ p.failed = tk.failed
        /\ \A k \in DOMAIN p.stack : p.stack[k].id <= tk.serial + 1 /\ p.stack[k].kind # "update"
    BY <1>2, <2>1, PushShape
  <2> HIDE DEF p
  <2>3. /\ tk' \in TrackerRecords /\ tk'.serial = tk.serial + 1 /\ tk'.wait = 0 /\ tk'.update = 0
        /\ tk'.lastWait = tk.lastWait /\ tk'.stack = p.stack
    BY <2>1, <2>2 DEF TrackerRecords
  <2>4. \A i \in DOMAIN tkSpent : tkSpent[i][1] = "update" => tkSpent[i][2] < tk.update
    BY <2>1 DEF TrackerIInv, TrackerPast
  <2>5. /\ tkSpent' \in Seq({"update", "wait"} \X Nat)
        /\ SpentInOrder'
        /\ \A i \in DOMAIN tkSpent' : \/ i \in DOMAIN tkSpent /\ tkSpent'[i] = tkSpent[i]
                                      \/ tkSpent'[i][1] = "update" /\ tkSpent'[i][2] = tk.update
    BY <1>1, <2>1, <2>4, SpendingIsOrdered
  <2>6. TrackerOffers'
    BY <1>2, <1>3, <2>1, <2>2, <2>3 DEF TrackerOffers
  <2>7. TrackerPast'
    BY <1>3, <1>4, <1>5, <2>2, <2>3, <2>5 DEF TrackerPast
  <2> QED BY <2>3, <2>5, <2>6, <2>7 DEF TrackerIInv, TrackerTypes
<1>9. CASE kind = "sync"
  <2> DEFINE p == Pushed("sync", epoch)
  <2>1. /\ Len(tk.stack) = 1 /\ tk.stack[1].kind = "coordinator" /\ tk' = p /\ tkSpent' = tkSpent
    BY <1>9 DEF TkEnter
  <2>2. /\ p \in TrackerRecords /\ p.serial = tk.serial + 1 /\ p.wait = tk.wait /\ p.update = tk.update
        /\ p.lastWait = tk.lastWait /\ p.failed = tk.failed
        /\ \A k \in DOMAIN p.stack : p.stack[k].id <= tk.serial + 1 /\ p.stack[k].kind # "update"
    BY <1>2, <2>1, PushShape
  <2>3. tk.stack # <<>>
    BY <2>1
  <2>4. tk.update = 0 /\ tk.wait = 0
    BY <2>3 DEF TrackerIInv, TrackerOffers
  <2> HIDE DEF p
  <2>5. TrackerOffers'
    BY <1>2, <1>3, <1>6, <2>1, <2>2, <2>4 DEF TrackerOffers
  <2>6. TrackerPast'
    BY <1>5, <2>1, <2>2, <2>4 DEF TrackerPast, TrackerIInv
  <2>7. TrackerTypes' /\ SpentInOrder'
    BY <2>1, <2>2 DEF TrackerIInv, TrackerTypes, SpentInOrder
  <2> QED BY <2>5, <2>6, <2>7 DEF TrackerIInv
<1>10. CASE kind = "worker"
  <2> DEFINE p == Pushed("worker", epoch)
  <2>1. /\ tk.stack = <<>> /\ tk.update = 0 /\ tk.wait # 0 /\ tk' = [p EXCEPT !.wait = 0, !.epoch = 0]
        /\ Spends("wait", tk.wait)
    BY <1>10 DEF TkEnter
  <2>2. /\ p \in TrackerRecords /\ p.serial = tk.serial + 1 /\ p.update = 0
        /\ p.lastWait = tk.lastWait /\ p.failed = tk.failed
        /\ \A k \in DOMAIN p.stack : p.stack[k].id <= tk.serial + 1 /\ p.stack[k].kind # "update"
    BY <1>2, <2>1, PushShape
  <2> HIDE DEF p
  <2>3. /\ tk' \in TrackerRecords /\ tk'.serial = tk.serial + 1 /\ tk'.wait = 0 /\ tk'.update = 0
        /\ tk'.lastWait = tk.lastWait /\ tk'.stack = p.stack
    BY <2>1, <2>2 DEF TrackerRecords
  <2>4. \A i \in DOMAIN tkSpent : tkSpent[i][1] = "wait" => tkSpent[i][2] < tk.wait
    BY <2>1 DEF TrackerIInv, TrackerPast
  <2>5. /\ tkSpent' \in Seq({"update", "wait"} \X Nat)
        /\ SpentInOrder'
        /\ \A i \in DOMAIN tkSpent' : \/ i \in DOMAIN tkSpent /\ tkSpent'[i] = tkSpent[i]
                                      \/ tkSpent'[i][1] = "wait" /\ tkSpent'[i][2] = tk.wait
    BY <1>1, <2>1, <2>4, SpendingIsOrdered
  <2>6. TrackerOffers'
    BY <1>2, <1>3, <2>1, <2>2, <2>3 DEF TrackerOffers
  <2>7. TrackerPast'
    BY <1>3, <1>5, <2>2, <2>3, <2>5 DEF TrackerPast
  <2> QED BY <2>3, <2>5, <2>6, <2>7 DEF TrackerIInv, TrackerTypes
<1> QED BY <1>7, <1>8, <1>9, <1>10

LEMMA LeaveKeeps ==
  ASSUME TrackerIInv, NEW completed \in BOOLEAN, TkLeave(completed)
  PROVE  TrackerIInv'
<1> DEFINE top == tk.stack[Len(tk.stack)]
           s == SubSeq(tk.stack, 1, Len(tk.stack) - 1)
           popped == [tk EXCEPT !.stack = s]
<1>1. /\ tk \in TrackerRecords /\ tk.stack \in Seq(TrackerScopes) /\ tk.stack # <<>>
      /\ tk.update \in Nat /\ tk.serial \in Nat
      /\ \A k \in DOMAIN tk.stack : tk.stack[k].id \in Nat
      /\ tkSpent' = tkSpent /\ ~tk.failed
  BY TrackerFields DEF TkLeave
<1>2. Len(tk.stack) \in DOMAIN tk.stack
  BY <1>1
<1>3. /\ s \in Seq(TrackerScopes) /\ Len(s) = Len(tk.stack) - 1
      /\ \A k \in DOMAIN s : k \in DOMAIN tk.stack /\ s[k] = tk.stack[k]
  BY <1>1
<1>4. Len(s) < Len(tk.stack)
  BY <1>1, <1>3
<1>5. tk' = IF completed /\ top.kind = "update" THEN [popped EXCEPT !.update = top.id]
            ELSE IF completed THEN popped
            ELSE [Poison EXCEPT !.stack = popped.stack]
  BY <1>1 DEF TkLeave
<1>6. tk.update = 0 /\ tk.wait = 0
  BY <1>1 DEF TrackerIInv, TrackerOffers
<1>7. popped \in TrackerRecords /\ popped.stack = s /\ popped.update = 0 /\ popped.wait = tk.wait
      /\ popped.lastWait = tk.lastWait /\ popped.serial = tk.serial /\ popped.failed = tk.failed
  BY <1>1, <1>3, <1>6 DEF TrackerRecords
<1> HIDE DEF s, popped
<1>8. CASE ~completed
  <2>1. tk' = [Poison EXCEPT !.stack = s]
    BY <1>5, <1>7, <1>8
  <2> QED BY <1>1, <1>3, <1>4, <2>1, PoisonKeeps
<1>9. CASE completed /\ top.kind = "update"
  <2>1. tk' = [popped EXCEPT !.update = top.id]
    BY <1>5, <1>9
  <2>2. top.id \in Nat /\ top.id <= tk.serial /\ Len(tk.stack) = 1
    BY <1>1, <1>2, <1>9 DEF TrackerIInv, TrackerOffers
  <2>3. \A i \in DOMAIN tkSpent : tkSpent[i][1] = "update" => tkSpent[i][2] < top.id
    BY <1>2, <1>9 DEF TrackerIInv, TrackerPast
  <2> HIDE DEF top
  <2>4. /\ tk' \in TrackerRecords /\ tk'.update = top.id /\ tk'.stack = s /\ tk'.wait = tk.wait
        /\ tk'.lastWait = tk.lastWait /\ tk'.serial = tk.serial /\ tk'.failed = tk.failed
    BY <1>7, <2>1, <2>2 DEF TrackerRecords
  <2>5. s = <<>> /\ DOMAIN s = {}
    BY <1>3, <2>2
  <2>6. tk'.wait = 0
    BY <1>6, <2>4
  <2>7. TrackerOffers'
    BY <1>1, <1>6, <2>2, <2>4, <2>5, <2>6 DEF TrackerIInv, TrackerOffers
  <2>8. TrackerPast'
    BY <1>1, <2>3, <2>4, <2>5 DEF TrackerIInv, TrackerPast
  <2>9. TrackerTypes' /\ SpentInOrder'
    BY <1>1, <2>4 DEF TrackerIInv, TrackerTypes, SpentInOrder
  <2> QED BY <2>7, <2>8, <2>9 DEF TrackerIInv
<1>10. CASE completed /\ top.kind # "update"
  <2>1. tk' = popped
    BY <1>5, <1>10
  <2>2. \A k \in DOMAIN s : s[k].kind # "update"
    <3>1. ASSUME NEW k \in DOMAIN s, s[k].kind = "update" PROVE FALSE
      <4>1. Len(tk.stack) = 1
        BY <1>3, <3>1 DEF TrackerIInv, TrackerOffers
      <4>2. Len(s) = 0
        BY <1>3, <4>1
      <4> QED BY <1>3, <3>1, <4>2
    <3> QED BY <3>1
  <2>3. TrackerOffers'
    BY <1>1, <1>3, <1>6, <1>7, <2>1, <2>2 DEF TrackerIInv, TrackerOffers
  <2>4. TrackerPast'
    BY <1>1, <1>7, <2>1, <2>2 DEF TrackerIInv, TrackerPast
  <2>5. TrackerTypes' /\ SpentInOrder'
    BY <1>1, <1>7, <2>1 DEF TrackerIInv, TrackerTypes, SpentInOrder
  <2> QED BY <2>3, <2>4, <2>5 DEF TrackerIInv
<1> QED BY <1>8, <1>9, <1>10

LEMMA TrackerKeeps == TrackerSpec => []TrackerIInv
<1>1. TrackerIInv /\ [TrackerNext]_trackerVars => TrackerIInv'
  <2> SUFFICES ASSUME TrackerIInv, [TrackerNext]_trackerVars PROVE TrackerIInv'
    OBVIOUS
  <2>1. CASE UNCHANGED trackerVars
    BY <2>1 DEF trackerVars, TrackerIInv, TrackerTypes, TrackerOffers, TrackerPast, SpentInOrder
  <2>2. CASE Misused
    BY <2>2, MisusedKeeps DEF Misused
  <2>3. CASE \E op \in 1..MaxWaits, epoch \in 1..2 : WorkerCredit(op, epoch)
    BY <2>3, CreditKeeps
  <2>4. CASE \E kind \in {"update", "coordinator", "sync", "worker"}, epoch \in 0..2 : TkEnter(kind, epoch)
    BY <2>4, EnterKeeps
  <2>5. CASE \E completed \in BOOLEAN : TkLeave(completed)
    BY <2>5, LeaveKeeps
  <2> QED BY <2>1, <2>2, <2>3, <2>4, <2>5 DEF TrackerNext
<1> QED BY <1>1, TrackerInitHolds, PTL DEF TrackerSpec

\* The ledger: an attempt consumes its token for good.
Tokens == [stock : Stocks, consumed : BOOLEAN]

LedgerIInv ==
  /\ lg \in Seq(Tokens)
  /\ \A i \in DOMAIN lgSeen : lgSeen[i][1] \in DOMAIN lg /\ lg[lgSeen[i][1]].consumed
  /\ \E len \in Nat : DOMAIN lgSeen = 1..len /\ len = Len(lgSeen)
  /\ LedgerAdmitsOnce

LEMMA LedgerKeeps == LedgerSpec => []LedgerIInv
<1>1. LedgerInit => LedgerIInv
  <2> SUFFICES ASSUME LedgerInit PROVE LedgerIInv
    OBVIOUS
  <2>1. lg \in Seq(Tokens) /\ Len(lgSeen) = 0 /\ DOMAIN lgSeen = {} /\ 1..0 = {}
    BY DEF LedgerInit
  <2> QED BY <2>1 DEF LedgerIInv, LedgerAdmitsOnce
<1>2. LedgerIInv /\ [LedgerNext]_ledgerVars => LedgerIInv'
  <2> SUFFICES ASSUME LedgerIInv, [LedgerNext]_ledgerVars PROVE LedgerIInv'
    OBVIOUS
  <2>1. lg \in Seq(Tokens)
    BY DEF LedgerIInv
  <2>2. CASE UNCHANGED ledgerVars
    BY <2>2 DEF ledgerVars, LedgerIInv, LedgerAdmitsOnce
  <2>3. ASSUME NEW stock \in Stocks, Issue(stock) PROVE LedgerIInv'
    <3> DEFINE row == [stock |-> stock, consumed |-> FALSE]
    <3>1. lg' = Append(lg, row) /\ lgSeen' = lgSeen
      BY <2>3 DEF Issue
    <3>2. row \in Tokens
      BY DEF Tokens
    <3> HIDE DEF row
    <3>3. /\ lg' \in Seq(Tokens)
          /\ \A k \in DOMAIN lg : k \in DOMAIN lg' /\ lg'[k] = lg[k]
      BY <2>1, <3>1, <3>2
    <3> QED BY <3>1, <3>3 DEF LedgerIInv, LedgerAdmitsOnce
  <2>4. ASSUME NEW serial \in 1..LedgerRows, NEW stock \in Stocks, Consume(serial, stock) PROVE LedgerIInv'
    <3> DEFINE match == ~lg[serial].consumed /\ stock = lg[serial].stock
               attempt == <<serial, match>>
               row == [lg[serial] EXCEPT !.consumed = TRUE]
    <3>1. /\ serial \in DOMAIN lg /\ lg' = [lg EXCEPT ![serial] = row]
          /\ lgSeen' = Append(lgSeen, attempt)
      BY <2>4 DEF Consume
    <3>2. attempt[1] = serial /\ attempt[2] = match
      OBVIOUS
    <3>3. match => ~lg[serial].consumed
      OBVIOUS
    <3> HIDE DEF match
    <3>4. lg[serial] \in Tokens
      BY <2>1, <3>1
    <3>5. row \in Tokens /\ row.consumed
      BY <3>4 DEF Tokens
    <3> HIDE DEF attempt, row
    <3>6. /\ lg' \in Seq(Tokens)
          /\ DOMAIN lg' = DOMAIN lg /\ lg'[serial].consumed
          /\ \A k \in DOMAIN lg : lg[k].consumed => lg'[k].consumed
      BY <2>1, <3>1, <3>5
    <3>7. PICK len \in Nat : DOMAIN lgSeen = 1..len /\ len = Len(lgSeen)
      BY DEF LedgerIInv
    <3>8. /\ DOMAIN lgSeen' = 1..(len + 1) /\ Len(lgSeen') = len + 1
          /\ lgSeen'[len + 1] = attempt
          /\ \A k \in 1..len : lgSeen'[k] = lgSeen[k]
      BY <3>1, <3>7
    <3>9. \A k \in 1..(len + 1) : k = len + 1 \/ k \in 1..len
      BY <3>7
    <3>10. \A i \in DOMAIN lgSeen' : lgSeen'[i][1] \in DOMAIN lg' /\ lg'[lgSeen'[i][1]].consumed
      BY <3>1, <3>2, <3>6, <3>7, <3>8, <3>9 DEF LedgerIInv
    <3>11. LedgerAdmitsOnce'
      <4> SUFFICES ASSUME NEW i \in DOMAIN lgSeen', NEW j \in DOMAIN lgSeen', i < j,
                          lgSeen'[i][1] = lgSeen'[j][1]
                   PROVE  ~lgSeen'[j][2]
        BY DEF LedgerAdmitsOnce
      <4>1. i \in 1..len
        BY <3>7, <3>8
      <4>2. CASE j \in 1..len
        <5>1. lgSeen'[i] = lgSeen[i] /\ lgSeen'[j] = lgSeen[j]
          BY <3>8, <4>1, <4>2
        <5> QED BY <3>7, <4>1, <4>2, <5>1 DEF LedgerIInv, LedgerAdmitsOnce
      <4>3. CASE j = len + 1
        <5>1. lg[lgSeen[i][1]].consumed /\ lgSeen[i][1] = serial
          BY <3>2, <3>7, <3>8, <4>1, <4>3 DEF LedgerIInv
        <5> QED BY <3>2, <3>3, <3>8, <4>3, <5>1
      <4> QED BY <3>8, <3>9, <4>2, <4>3
    <3>12. len + 1 \in Nat
      BY <3>7
    <3> QED BY <3>6, <3>8, <3>10, <3>11, <3>12 DEF LedgerIInv
  <2> QED BY <2>2, <2>3, <2>4 DEF LedgerNext
<1> QED BY <1>1, <1>2, PTL DEF LedgerSpec

-----------------------------------------------------------------------------
(* The race audit.                                                          *)
(*                                                                          *)
(* A row holds fields of its own race only, a race has one row, and no two  *)
(* rows in use were updated at the same time: the latest complete row is    *)
(* one row, and all that is read from it is of one race.                    *)

Described == Races \cup {NoRace}
AuditRecords == [race : Described, last : Nat, read : [Fields -> Described]]
Tallies == [complete : Nat, finish : Nat, grew : Nat, details : Nat, dropped : Nat]
Meters == [lists : Nat, hits : Nat, results : Nat, longest : Nat]

\* With "owed" details still to be written, counts account for everything.
Accounts(counts, owed) ==
  /\ counts.details + counts.dropped + owed = counts.complete + counts.finish + counts.grew
  /\ counts.details <= DetailCapacity
  /\ counts.dropped > 0 => counts.details = DetailCapacity

AuditTypes ==
  /\ rTable \in [1..AuditRows -> AuditRecords] /\ rUpdates \in Nat
  /\ rCounts \in Tallies /\ rCalls \in Meters
  /\ rLatest \in [Fields -> Described] /\ rEnabled \in BOOLEAN
OwnFields == \A i \in 1..AuditRows : \A f \in Fields : rTable[i].read[f] \in {NoRace, rTable[i].race}
OneRowEach == \A i, j \in 1..AuditRows : i # j /\ rTable[i].race # NoRace => rTable[i].race # rTable[j].race
OneRowAtATime ==
  /\ \A i \in 1..AuditRows : rTable[i].last <= rUpdates
  /\ \A i, j \in 1..AuditRows :
       i # j /\ rTable[i].race # NoRace /\ rTable[j].race # NoRace => rTable[i].last # rTable[j].last
AuditTotals ==
  /\ \E r \in Described : \A f \in Fields : rLatest[f] = r
  /\ Accounts(rCounts, 0)
  /\ rCounts.grew <= rCalls.lists /\ rCounts.grew <= rCalls.longest
  /\ ~rEnabled => rFrozen = <<rCounts, rCalls, rLatest>>

AuditIInv == AuditTypes /\ OwnFields /\ OneRowEach /\ OneRowAtATime /\ AuditTotals

LEMMA AuditInitHolds == AuditInit => AuditIInv
<1> SUFFICES ASSUME AuditInit PROVE AuditIInv
  OBVIOUS
<1> DEFINE blank == [f \in Fields |-> NoRace]
<1>1. blank \in [Fields -> Described] /\ \A f \in Fields : blank[f] = NoRace
  BY DEF Described
<1>2. FreeRow = [race |-> NoRace, last |-> 0, read |-> blank] /\ rLatest = blank
  BY DEF FreeRow, AuditInit
<1> HIDE DEF blank
<1>3. FreeRow \in AuditRecords /\ FreeRow.race = NoRace /\ FreeRow.last = 0 /\ FreeRow.read = blank
  BY <1>1, <1>2 DEF AuditRecords, Described
<1>4. rTable \in [1..AuditRows -> AuditRecords] /\ \A i \in 1..AuditRows : rTable[i] = FreeRow
  BY <1>3 DEF AuditInit
<1>5. /\ rCounts \in Tallies /\ rCounts.details = 0 /\ rCounts.dropped = 0 /\ rCounts.complete = 0
      /\ rCounts.finish = 0 /\ rCounts.grew = 0 /\ rUpdates = 0 /\ rEnabled = TRUE
      /\ rCalls \in Meters /\ rCalls.lists = 0 /\ rCalls.longest = 0
  BY DEF AuditInit, Tallies, Meters
<1>6. AuditTypes
  BY <1>1, <1>2, <1>4, <1>5 DEF AuditTypes
<1>7. OwnFields /\ OneRowEach /\ OneRowAtATime
  BY <1>1, <1>3, <1>4, <1>5 DEF OwnFields, OneRowEach, OneRowAtATime
<1>8. AuditTotals
  <2>1. Accounts(rCounts, 0)
    BY <1>5, AuditConstants DEF Accounts
  <2> QED BY <1>1, <1>2, <1>5, <2>1 DEF AuditTotals, Described
<1> QED BY <1>6, <1>7, <1>8 DEF AuditIInv

\* A recorded detail is kept, or counted as dropped when there is no room.
LEMMA DetailedSettles ==
  ASSUME NEW c \in Tallies, Accounts(c, 1)
  PROVE  Detailed(c) \in Tallies /\ Accounts(Detailed(c), 0) /\ Detailed(c).grew = c.grew
<1>1. /\ c.details \in Nat /\ c.dropped \in Nat /\ c.complete \in Nat /\ c.finish \in Nat /\ c.grew \in Nat
      /\ DetailCapacity \in Nat
  BY AuditConstants DEF Tallies
<1>2. /\ c.details + c.dropped + 1 = c.complete + c.finish + c.grew
      /\ c.details <= DetailCapacity /\ (c.dropped > 0 => c.details = DetailCapacity)
  BY DEF Accounts
<1> DEFINE m == c.details + 1
           n == c.dropped + 1
<1>3. m \in Nat /\ n \in Nat /\ m = c.details + 1 /\ n = c.dropped + 1
  BY <1>1
<1> HIDE DEF m, n
<1>4. CASE c.details < DetailCapacity
  <2>1. Detailed(c) = [c EXCEPT !.details = m]
    BY <1>3, <1>4 DEF Detailed
  <2>2. /\ Detailed(c) \in Tallies /\ Detailed(c).details = m /\ Detailed(c).dropped = c.dropped
        /\ Detailed(c).complete = c.complete /\ Detailed(c).finish = c.finish /\ Detailed(c).grew = c.grew
    BY <1>3, <2>1 DEF Tallies
  <2>3. m + c.dropped + 0 = c.complete + c.finish + c.grew /\ m <= DetailCapacity /\ ~(c.dropped > 0)
    BY <1>1, <1>2, <1>3, <1>4
  <2> QED BY <2>2, <2>3 DEF Accounts
<1>5. CASE ~(c.details < DetailCapacity)
  <2>1. Detailed(c) = [c EXCEPT !.dropped = n]
    BY <1>3, <1>5 DEF Detailed
  <2>2. /\ Detailed(c) \in Tallies /\ Detailed(c).dropped = n /\ Detailed(c).details = c.details
        /\ Detailed(c).complete = c.complete /\ Detailed(c).finish = c.finish /\ Detailed(c).grew = c.grew
    BY <1>3, <2>1 DEF Tallies
  <2>3. c.details + n + 0 = c.complete + c.finish + c.grew /\ c.details = DetailCapacity /\ c.details <= DetailCapacity
    BY <1>1, <1>2, <1>3, <1>5
  <2> QED BY <2>2, <2>3 DEF Accounts
<1> QED BY <1>4, <1>5

\* The row of a race that has one is that row.
LEMMA OwnRowIsFound ==
  ASSUME AuditIInv, NEW race \in Races, NEW i \in 1..AuditRows, rTable[i].race = race
  PROVE  RowOf(race) = i
<1> DEFINE own == {k \in 1..AuditRows : rTable[k].race = race}
<1>1. race # NoRace
  BY AuditConstants
<1>2. own = {i}
  BY <1>1 DEF AuditIInv, OneRowEach
<1>3. RowOf(race) = First(own)
  BY <1>2 DEF RowOf
<1>4. i <= i
  BY AuditConstants
<1>5. First({i}) = i
  BY <1>4 DEF First
<1> QED BY <1>2, <1>3, <1>5

LEMMA RecordKeeps ==
  ASSUME AuditIInv, NEW race \in Races, NEW field \in Fields, RecordField(race, field)
  PROVE  AuditIInv'
<1> DEFINE i == RowOf(race)
           before == StartsAnew(race, rTable[i])
           n == rUpdates + 1
           after == [before EXCEPT !.read[field] = race, !.last = n]
           completes == ~IsComplete(before) /\ IsComplete(after)
           bumped == [rCounts EXCEPT !.complete = @ + 1]
<1>1. /\ rTable' = [rTable EXCEPT ![i] = after] /\ rUpdates' = n
      /\ rCounts' = IF completes THEN Detailed(bumped) ELSE rCounts
      /\ rLatest' = rLatest /\ rEnabled' = rEnabled /\ rFrozen' = rFrozen /\ rEnabled
      /\ rCalls' = rCalls
  BY DEF RecordField, Records
<1>2. /\ rTable \in [1..AuditRows -> AuditRecords] /\ rUpdates \in Nat
      /\ rCounts \in Tallies /\ rCalls \in Meters
      /\ rLatest \in [Fields -> Described] /\ rEnabled \in BOOLEAN
  BY DEF AuditIInv, AuditTypes
<1>3. n \in Nat /\ n > rUpdates
  BY <1>2
<1>4. race \in Described /\ race # NoRace
  BY AuditConstants DEF Described
<1> HIDE DEF n, completes
<1>5. rCounts' \in Tallies /\ Accounts(rCounts', 0) /\ rCounts'.grew = rCounts.grew
  <2>1. /\ rCounts.details \in Nat /\ rCounts.dropped \in Nat /\ rCounts.complete \in Nat
        /\ rCounts.finish \in Nat /\ rCounts.grew \in Nat /\ Accounts(rCounts, 0)
    BY <1>2 DEF AuditIInv, AuditTotals, Tallies
  <2> DEFINE m == rCounts.complete + 1
  <2>2. m \in Nat /\ m = rCounts.complete + 1 /\ bumped = [rCounts EXCEPT !.complete = m]
    BY <1>2, <2>1 DEF Tallies
  <2> HIDE DEF m, bumped
  <2>3. /\ bumped \in Tallies /\ bumped.complete = m /\ bumped.finish = rCounts.finish
        /\ bumped.details = rCounts.details /\ bumped.dropped = rCounts.dropped /\ bumped.grew = rCounts.grew
    BY <1>2, <2>2 DEF Tallies
  <2>4. Accounts(bumped, 1)
    BY <2>1, <2>2, <2>3 DEF Accounts
  <2>5. CASE completes
    <3>1. rCounts' = Detailed(bumped)
      BY <1>1, <2>5
    <3> QED BY <2>3, <2>4, <3>1, DetailedSettles
  <2>6. CASE ~completes
    BY <1>1, <1>2, <2>1, <2>6
  <2> QED BY <2>5, <2>6
<1>6. AuditTotals'
  BY <1>1, <1>5 DEF AuditIInv, AuditTotals
<1>7. CASE i \notin 1..AuditRows
  <2>1. rTable' = rTable
    BY <1>1, <1>2, <1>7
  <2>2. \A k \in 1..AuditRows : rTable[k].last <= n
    <3>1. \A k \in 1..AuditRows : rTable[k].last \in Nat
      BY <1>2 DEF AuditRecords
    <3> QED BY <1>2, <1>3, <3>1 DEF AuditIInv, OneRowAtATime
  <2>3. AuditTypes' /\ OwnFields' /\ OneRowEach' /\ OneRowAtATime'
    <3>1. AuditTypes'
      BY <1>1, <1>2, <1>3, <1>5, <2>1 DEF AuditTypes
    <3>2. OwnFields' /\ OneRowEach'
      BY <2>1 DEF AuditIInv, OwnFields, OneRowEach
    <3>3. OneRowAtATime'
      <4>1. \A k, j \in 1..AuditRows :
              k # j /\ rTable[k].race # NoRace /\ rTable[j].race # NoRace => rTable[k].last # rTable[j].last
        BY DEF AuditIInv, OneRowAtATime
      <4> QED BY <1>1, <2>1, <2>2, <4>1 DEF OneRowAtATime
    <3> QED BY <3>1, <3>2, <3>3
  <2> QED BY <1>6, <2>3 DEF AuditIInv
<1>8. CASE i \in 1..AuditRows
  <2>1. /\ before \in AuditRecords /\ before.race = race
        /\ \A f \in Fields : before.read[f] \in {NoRace, race}
    <3> DEFINE blank == [f \in Fields |-> NoRace]
    <3>1. rTable[i] \in AuditRecords /\ \A f \in Fields : rTable[i].read[f] \in {NoRace, rTable[i].race}
      BY <1>2, <1>8 DEF AuditIInv, OwnFields
    <3>2. CASE rTable[i].race = race
      <4>1. before = rTable[i]
        BY <3>2 DEF StartsAnew
      <4> HIDE DEF i, before
      <4> QED BY <3>1, <3>2, <4>1
    <3>3. CASE rTable[i].race # race
      <4>1. before = [[race |-> NoRace, last |-> 0, read |-> blank] EXCEPT !.race = race]
        BY <3>3 DEF StartsAnew, FreeRow
      <4>2. blank \in [Fields -> Described] /\ \A f \in Fields : blank[f] = NoRace
        BY DEF Described
      <4> HIDE DEF i, before, blank
      <4>3. before = [race |-> race, last |-> 0, read |-> blank]
        BY <4>1
      <4> QED BY <1>4, <4>2, <4>3 DEF AuditRecords
    <3> QED BY <3>2, <3>3
  <2> HIDE DEF before
  <2> DEFINE filled == [before.read EXCEPT ![field] = race]
  <2>2. after = [before EXCEPT !.read = filled, !.last = n]
    BY <2>1 DEF AuditRecords
  <2>3. filled \in [Fields -> Described] /\ \A f \in Fields : filled[f] \in {NoRace, race}
    <3>1. before.read \in [Fields -> Described]
      BY <2>1 DEF AuditRecords
    <3> QED BY <1>4, <2>1, <3>1
  <2> HIDE DEF after, filled
  <2>4. after \in AuditRecords /\ after.race = race /\ after.last = n /\ after.read = filled
    BY <1>3, <2>1, <2>2, <2>3 DEF AuditRecords
  <2>5. \A k \in 1..AuditRows : k # i => rTable[k].race # race
    <3>1. ASSUME NEW k \in 1..AuditRows, rTable[k].race = race PROVE k = i
      BY <3>1, OwnRowIsFound
    <3> QED BY <3>1
  <2> HIDE DEF i
  <2>6. /\ rTable' \in [1..AuditRows -> AuditRecords] /\ rTable'[i] = after
        /\ \A k \in 1..AuditRows : k # i => rTable'[k] = rTable[k]
    BY <1>1, <1>2, <1>8, <2>4
  <2>7. AuditTypes'
    BY <1>1, <1>2, <1>3, <1>5, <2>6 DEF AuditTypes
  <2>8. OwnFields'
    BY <2>3, <2>4, <2>6 DEF AuditIInv, OwnFields
  <2>9. OneRowEach'
    BY <2>4, <2>5, <2>6 DEF AuditIInv, OneRowEach
  <2>10. \A k \in 1..AuditRows : rTable[k].last \in Nat /\ rTable[k].last <= rUpdates
    BY <1>2 DEF AuditIInv, OneRowAtATime, AuditRecords
  <2>11. \A k \in 1..AuditRows : rTable[k].last < n /\ rTable[k].last <= n /\ rTable[k].last # n
    BY <1>2, <1>3, <2>10
  <2>12. n <= n
    BY <1>3
  <2>13. OneRowAtATime'
    BY <1>1, <2>4, <2>6, <2>11, <2>12 DEF AuditIInv, OneRowAtATime
  <2> QED BY <1>6, <2>7, <2>8, <2>9, <2>13 DEF AuditIInv
<1> QED BY <1>7, <1>8

LEMMA FinishKeeps ==
  ASSUME AuditIInv, RaceFinish
  PROVE  AuditIInv'
<1> DEFINE m == rCounts.finish + 1
           bumped == [rCounts EXCEPT !.finish = @ + 1]
<1>1. /\ rCounts' = Detailed(bumped) /\ rTable' = rTable /\ rUpdates' = rUpdates /\ rEnabled' = rEnabled
      /\ rEnabled /\ rCalls' = rCalls
      /\ rLatest' = IF LatestComplete = {} THEN rLatest ELSE rTable[First(LatestComplete)].read
  BY DEF RaceFinish, Records
<1>2. /\ rTable \in [1..AuditRows -> AuditRecords] /\ rUpdates \in Nat
      /\ rCounts \in Tallies /\ rCalls \in Meters
      /\ rLatest \in [Fields -> Described] /\ rEnabled \in BOOLEAN
  BY DEF AuditIInv, AuditTypes
<1>3. /\ rCounts.details \in Nat /\ rCounts.dropped \in Nat /\ rCounts.complete \in Nat
      /\ rCounts.finish \in Nat /\ rCounts.grew \in Nat /\ Accounts(rCounts, 0)
  BY <1>2 DEF AuditIInv, AuditTotals, Tallies
<1>4. m \in Nat /\ m = rCounts.finish + 1 /\ bumped = [rCounts EXCEPT !.finish = m]
  BY <1>2, <1>3 DEF Tallies
<1> HIDE DEF m, bumped
<1>5. /\ bumped \in Tallies /\ bumped.finish = m /\ bumped.complete = rCounts.complete
      /\ bumped.details = rCounts.details /\ bumped.dropped = rCounts.dropped /\ bumped.grew = rCounts.grew
  BY <1>2, <1>4 DEF Tallies
<1>6. Accounts(bumped, 1)
  BY <1>3, <1>4, <1>5 DEF Accounts
<1>7. rCounts' \in Tallies /\ Accounts(rCounts', 0) /\ rCounts'.grew = rCounts.grew
  BY <1>1, <1>5, <1>6, DetailedSettles
<1>8. rLatest' \in [Fields -> Described] /\ \E r \in Described : \A f \in Fields : rLatest'[f] = r
  <2>1. CASE LatestComplete = {}
    BY <1>1, <1>2, <2>1 DEF AuditIInv, AuditTotals
  <2>2. CASE LatestComplete # {}
    <3>1. PICK i \in LatestComplete : TRUE
      BY <2>2
    <3>2. ASSUME NEW k \in LatestComplete
          PROVE  /\ k \in 1..AuditRows /\ rTable[k].race # NoRace
                 /\ \A f \in Fields : rTable[k].read[f] = rTable[k].race
                 /\ \A j \in LatestComplete : rTable[j].last <= rTable[k].last
      <4>1. k \in 1..AuditRows /\ IsComplete(rTable[k])
        BY <3>2 DEF LatestComplete
      <4>2. \A f \in Fields : rTable[k].read[f] # NoRace /\ rTable[k].read[f] \in {NoRace, rTable[k].race}
        BY <4>1 DEF IsComplete, AuditIInv, OwnFields
      <4>3. "type" \in Fields
        BY DEF Fields
      <4>4. \A j \in LatestComplete : rTable[j].last <= rTable[k].last
        BY <3>2 DEF LatestComplete
      <4> QED BY <4>1, <4>2, <4>3, <4>4
    <3>3. LatestComplete = {i}
      <4>1. ASSUME NEW k \in LatestComplete PROVE k = i
        <5>1. rTable[i].last \in Nat /\ rTable[k].last \in Nat
          BY <1>2, <3>1, <3>2, <4>1 DEF AuditRecords
        <5>2. rTable[i].last <= rTable[k].last /\ rTable[k].last <= rTable[i].last
          BY <3>1, <3>2, <4>1
        <5>3. rTable[i].last = rTable[k].last
          BY <5>1, <5>2
        <5>4. i \in 1..AuditRows /\ k \in 1..AuditRows /\ rTable[i].race # NoRace /\ rTable[k].race # NoRace
          BY <3>1, <3>2, <4>1
        <5> QED BY <5>3, <5>4 DEF AuditIInv, OneRowAtATime
      <4> QED BY <3>1, <4>1
    <3>4. First({i}) = i
      <4>1. i <= i
        BY <3>1, <3>2, AuditConstants
      <4> QED BY <4>1 DEF First
    <3>5. rLatest' = rTable[i].read
      BY <1>1, <2>2, <3>3, <3>4
    <3>6. rTable[i].read \in [Fields -> Described] /\ rTable[i].race \in Described
      BY <1>2, <3>1, <3>2 DEF AuditRecords
    <3> QED BY <3>1, <3>2, <3>5, <3>6
  <2> QED BY <2>1, <2>2
<1>9. AuditTotals'
  BY <1>1, <1>7, <1>8 DEF AuditIInv, AuditTotals
<1>10. AuditTypes' /\ OwnFields' /\ OneRowEach' /\ OneRowAtATime'
  BY <1>1, <1>2, <1>7, <1>8 DEF AuditIInv, AuditTypes, OwnFields, OneRowEach, OneRowAtATime
<1> QED BY <1>9, <1>10 DEF AuditIInv

LEMMA ListKeeps ==
  ASSUME AuditIInv, NEW count \in ListCounts, CheckpointList(count)
  PROVE  AuditIInv'
<1> DEFINE lists == rCalls.lists + 1
           grew == rCounts.grew + 1
           longest == IF count > rCalls.longest THEN count ELSE rCalls.longest
           bumped == [rCounts EXCEPT !.grew = @ + 1]
<1>1. /\ rCounts' = IF count > rCalls.longest THEN Detailed(bumped) ELSE rCounts
      /\ rTable' = rTable /\ rUpdates' = rUpdates /\ rEnabled' = rEnabled /\ rEnabled /\ rLatest' = rLatest
      /\ rCalls' = [rCalls EXCEPT !.lists = @ + 1, !.longest = IF count > @ THEN count ELSE @]
  BY DEF CheckpointList, Records
<1>2. /\ rCounts \in Tallies /\ rCalls \in Meters /\ count \in Nat
      /\ Accounts(rCounts, 0) /\ rCounts.grew <= rCalls.lists /\ rCounts.grew <= rCalls.longest
  BY AuditConstants DEF AuditIInv, AuditTypes, AuditTotals
<1>3. /\ rCalls.lists \in Nat /\ rCalls.longest \in Nat /\ rCounts.grew \in Nat /\ rCounts.details \in Nat
      /\ rCounts.dropped \in Nat /\ rCounts.complete \in Nat /\ rCounts.finish \in Nat
  BY <1>2 DEF Tallies, Meters
<1>4. /\ lists \in Nat /\ grew \in Nat /\ longest \in Nat
      /\ rCounts.grew <= lists /\ grew <= lists /\ rCounts.grew <= longest
      /\ count > rCalls.longest => grew <= longest
  BY <1>2, <1>3
<1>5. /\ rCalls' = [rCalls EXCEPT !.lists = lists, !.longest = longest]
      /\ bumped = [rCounts EXCEPT !.grew = grew] /\ grew = rCounts.grew + 1
  BY <1>1, <1>2 DEF Tallies, Meters
<1> HIDE DEF lists, grew, longest, bumped
<1>6. rCalls' \in Meters /\ rCalls'.lists = lists /\ rCalls'.longest = longest
  BY <1>2, <1>4, <1>5 DEF Meters
<1>7. /\ bumped \in Tallies /\ bumped.grew = grew /\ bumped.complete = rCounts.complete
      /\ bumped.finish = rCounts.finish /\ bumped.details = rCounts.details /\ bumped.dropped = rCounts.dropped
  BY <1>2, <1>4, <1>5 DEF Tallies
<1>8. rCounts' \in Tallies /\ Accounts(rCounts', 0) /\ rCounts'.grew <= lists /\ rCounts'.grew <= longest
  <2>1. CASE count > rCalls.longest
    <3>1. Accounts(bumped, 1)
      BY <1>2, <1>3, <1>5, <1>7 DEF Accounts
    <3>2. rCounts' = Detailed(bumped)
      BY <1>1, <2>1
    <3> QED BY <1>4, <1>7, <2>1, <3>1, <3>2, DetailedSettles
  <2>2. CASE ~(count > rCalls.longest)
    BY <1>1, <1>2, <1>4, <2>2
  <2> QED BY <2>1, <2>2
<1>9. AuditTotals'
  BY <1>1, <1>6, <1>8 DEF AuditIInv, AuditTotals
<1>10. AuditTypes' /\ OwnFields' /\ OneRowEach' /\ OneRowAtATime'
  BY <1>1, <1>6, <1>8 DEF AuditIInv, AuditTypes, OwnFields, OneRowEach, OneRowAtATime
<1> QED BY <1>9, <1>10 DEF AuditIInv

LEMMA MeterKeeps ==
  ASSUME AuditIInv, CheckpointHit \/ RaceResult
  PROVE  AuditIInv'
<1>1. /\ rTable' = rTable /\ rUpdates' = rUpdates /\ rEnabled' = rEnabled /\ rEnabled
      /\ rLatest' = rLatest /\ rCounts' = rCounts /\ rFrozen' = rFrozen
      /\ rCalls' \in {[rCalls EXCEPT !.hits = @ + 1], [rCalls EXCEPT !.results = @ + 1]}
  BY DEF CheckpointHit, RaceResult, Records
<1>2. rCalls \in Meters
  BY DEF AuditIInv, AuditTypes
<1>3. rCalls' \in Meters /\ rCalls'.lists = rCalls.lists /\ rCalls'.longest = rCalls.longest
  <2>1. CASE rCalls' = [rCalls EXCEPT !.hits = @ + 1]
    BY <1>2, <2>1 DEF Meters
  <2>2. CASE rCalls' = [rCalls EXCEPT !.results = @ + 1]
    BY <1>2, <2>2 DEF Meters
  <2> QED BY <1>1, <2>1, <2>2
<1>4. AuditTotals'
  BY <1>1, <1>3 DEF AuditIInv, AuditTotals
<1>5. AuditTypes' /\ OwnFields' /\ OneRowEach' /\ OneRowAtATime'
  BY <1>1, <1>3 DEF AuditIInv, AuditTypes, OwnFields, OneRowEach, OneRowAtATime
<1> QED BY <1>4, <1>5 DEF AuditIInv

LEMMA FreezeKeeps ==
  ASSUME AuditIInv, FreezeAudit
  PROVE  AuditIInv'
<1>1. /\ rEnabled' = FALSE /\ rFrozen' = <<rCounts, rCalls, rLatest>>
      /\ rTable' = rTable /\ rUpdates' = rUpdates /\ rCounts' = rCounts /\ rLatest' = rLatest
      /\ rCalls' = rCalls
  BY DEF FreezeAudit
<1>2. AuditTotals'
  BY <1>1 DEF AuditIInv, AuditTotals
<1>3. AuditTypes' /\ OwnFields' /\ OneRowEach' /\ OneRowAtATime'
  BY <1>1 DEF AuditIInv, AuditTypes, OwnFields, OneRowEach, OneRowAtATime
<1> QED BY <1>2, <1>3 DEF AuditIInv

LEMMA AuditKeeps == AuditSpec => []AuditIInv
<1>1. AuditIInv /\ [AuditNext]_auditVars => AuditIInv'
  <2> SUFFICES ASSUME AuditIInv, [AuditNext]_auditVars PROVE AuditIInv'
    OBVIOUS
  <2>1. CASE UNCHANGED auditVars
    BY <2>1 DEF auditVars, AuditIInv, AuditTypes, OwnFields, OneRowEach, OneRowAtATime, AuditTotals
  <2>2. CASE AuditNext
    BY <2>2, RecordKeeps, FinishKeeps, ListKeeps, MeterKeeps, FreezeKeeps DEF AuditNext
  <2> QED BY <2>1, <2>2
<1> QED BY <1>1, AuditInitHolds, PTL DEF AuditSpec

LEMMA DescriptionFollows == AuditIInv => DescriptionIsOfOneRace
<1> SUFFICES ASSUME AuditIInv PROVE DescriptionIsOfOneRace
  OBVIOUS
<1>1. PICK r \in Described : \A f \in Fields : rLatest[f] = r
  BY DEF AuditIInv, AuditTotals
<1>2. "type" \in Fields
  BY DEF Fields
<1>3. {rLatest[f] : f \in Fields} = {r}
  BY <1>1, <1>2
<1>4. Cardinality({rLatest[f] : f \in Fields}) = 1
  BY <1>3, FS_Singleton
<1>5. rCounts.details + rCounts.dropped = rCounts.complete + rCounts.finish + rCounts.grew
  <2>1. rCounts.details \in Nat /\ rCounts.dropped \in Nat
    BY DEF AuditIInv, AuditTypes, Tallies
  <2> QED BY <2>1 DEF AuditIInv, AuditTotals, Accounts
<1> QED BY <1>4, <1>5 DEF DescriptionIsOfOneRace, AuditIInv, OwnFields, OneRowEach, AuditTotals, Accounts

\* The frame cores hand out a wait, an update or a token once, and a finish reports
\* one race's description, for any number of waits, rows and races and whatever
\* order the events come in (Render, ScopeTracker::enter, Consume, RaceFinishProbe).
THEOREM AttributionStaysTrue == WorkerSpec /\ TrackerSpec /\ LedgerSpec /\ AuditSpec => []AttributionIsTrue
<1>1. WorkerIInv => WorkerSpendsOnce
  BY DEF WorkerIInv
<1>2. TrackerIInv => TrackerSpendsOnce
  BY DEF TrackerIInv, TrackerOffers, SpentInOrder, TrackerSpendsOnce
<1>3. LedgerIInv => LedgerAdmitsOnce
  BY DEF LedgerIInv
<1>4. WorkerSpendsOnce /\ TrackerSpendsOnce /\ LedgerAdmitsOnce /\ DescriptionIsOfOneRace => AttributionIsTrue
  BY DEF AttributionIsTrue, CoresSpendOnce
<1> QED BY <1>1, <1>2, <1>3, <1>4, WorkerKeeps, TrackerKeeps, LedgerKeeps, AuditKeeps, DescriptionFollows, PTL

-----------------------------------------------------------------------------
(* Least and greatest elements.                                             *)
(*                                                                          *)
(* An argument by induction over data goes here by a least counterexample:  *)
(* the set of the numbers where a fact fails has no least element.          *)

LEMMA NatHasLeast ==
  ASSUME NEW T \in SUBSET Nat, T # {}
  PROVE  \E m \in T : \A n \in T : m <= n
<1> DEFINE R == OpToRel(<, Nat)
<1>1. IsWellFoundedOn(R, Nat)
  BY NatLessThanWellFounded
<1>2. PICK m \in T : \A n \in T : ~(<<n, m>> \in R)
  <2> HIDE DEF R
  <2> QED BY <1>1, WFMin
<1>3. \A n \in T : ~(n < m)
  BY <1>2 DEF OpToRel
<1> QED BY <1>3

LEMMA MaxIsInSet ==
  ASSUME NEW n \in Nat, NEW S \in SUBSET (0..n), S # {}
  PROVE  Max(S) \in S /\ \A x \in S : Max(S) >= x
<1> DEFINE T == {n - x : x \in S}
<1>1. T \in SUBSET Nat /\ T # {}
  <2>1. \A x \in S : n - x \in Nat
    OBVIOUS
  <2> QED BY <2>1
<1>2. PICK m \in T : \A k \in T : m <= k
  BY <1>1, NatHasLeast
<1>3. PICK y \in S : m = n - y
  BY <1>2
<1>4. \A x \in S : y >= x
  <2> SUFFICES ASSUME NEW x \in S PROVE y >= x
    OBVIOUS
  <2>1. n - x \in T
    OBVIOUS
  <2>2. m <= n - x
    BY <1>2, <2>1
  <2> QED BY <1>3, <2>2
<1> QED BY <1>4 DEF Max

-----------------------------------------------------------------------------
(* The semaphore witness.                                                   *)
(*                                                                          *)
(* The journal ties out at every step before the cut, and nothing touches   *)
(* it afterwards; what it observed is what the threads began, unless a      *)
(* fault or a closed registry tells so.  A scope that saw one admission     *)
(* knows all the rows of its thread since it was opened.                    *)

EpochRecords == [cookie : Cookies, created : Nat, destroyed : {"no", "yes"}, end : Nat, pending : Int,
                 lastExit : Nat]
OpRecords == [epoch : Nat, thread : WThreads, kind : {"update", "wait", "release"}, done : BOOLEAN]
Journals == [stopped : BOOLEAN, postStop : BOOLEAN, fault : BOOLEAN, incomplete : BOOLEAN,
             epochs : Seq(EpochRecords), ops : Seq(OpRecords),
             observed : Nat, completed : Nat, overflow : Nat, pending : Int]

DoneRows(j) == {k \in DOMAIN j.ops : j.ops[k].done}
TiesOut(j) ==
  /\ j.completed = Cardinality(DoneRows(j))
  /\ j.completed + j.pending = Len(j.ops)
  /\ j.observed = Len(j.ops) + j.overflow
SoundJournal(j) ==
  /\ j \in Journals /\ ~j.postStop
  /\ Len(j.ops) <= OpRows
  /\ \A k \in DOMAIN j.ops : j.ops[k].epoch \in DOMAIN j.epochs
  /\ TiesOut(j)
OpenJournal(j) == SoundJournal(j) /\ ~j.stopped

\* k has the rows of j, of the same threads, and no fault of j is forgotten.
SameRows(j, k) ==
  /\ DOMAIN k.ops = DOMAIN j.ops /\ Len(k.ops) = Len(j.ops)
  /\ \A i \in DOMAIN j.ops : k.ops[i].thread = j.ops[i].thread
  /\ j.fault => k.fault
Quiet(j, k) == SameRows(j, k) /\ k.observed = j.observed

LEMMA FaultIsQuiet ==
  ASSUME NEW j, OpenJournal(j), NEW cond \in BOOLEAN
  PROVE  /\ OpenJournal(Fault(j, cond)) /\ Quiet(j, Fault(j, cond))
         /\ Fault(j, cond).ops = j.ops /\ Fault(j, cond).epochs = j.epochs
         /\ cond => Fault(j, cond).fault
<1>1. j \in Journals
  BY DEF OpenJournal, SoundJournal
<1> DEFINE b == j.fault \/ cond
           k == Fault(j, cond)
<1>2. b \in BOOLEAN /\ (j.fault => b) /\ (cond => b)
  OBVIOUS
<1>3. k = [j EXCEPT !.fault = b]
  BY DEF Fault
<1> HIDE DEF b, k
<1>4. /\ k \in Journals /\ k.ops = j.ops /\ k.epochs = j.epochs /\ k.observed = j.observed
      /\ k.completed = j.completed /\ k.overflow = j.overflow /\ k.pending = j.pending
      /\ k.stopped = j.stopped /\ k.postStop = j.postStop /\ k.fault = b
  BY <1>1, <1>2, <1>3 DEF Journals
<1>5. OpenJournal(k)
  BY <1>4 DEF OpenJournal, SoundJournal, TiesOut, DoneRows
<1>6. Quiet(j, k)
  BY <1>2, <1>4 DEF Quiet, SameRows
<1> QED BY <1>2, <1>4, <1>5, <1>6 DEF k

\* Nothing is marked as a mutation after the stop while the journal is open.
LEMMA NoMutationMark ==
  ASSUME NEW j, OpenJournal(j)
  PROVE  NoteMutation(j) = j
<1>1. j \in Journals /\ j.postStop = FALSE /\ j.stopped = FALSE
  BY DEF OpenJournal, SoundJournal, Journals
<1>2. NoteMutation(j) = [j EXCEPT !.postStop = FALSE]
  BY <1>1 DEF NoteMutation
<1> QED BY <1>1, <1>2 DEF Journals

LEMMA FailedIsQuiet ==
  ASSUME NEW j, OpenJournal(j), NEW bad \in BOOLEAN
  PROVE  /\ OpenJournal(Failed(bad, j)) /\ Quiet(j, Failed(bad, j))
         /\ Failed(bad, j).ops = j.ops /\ Failed(bad, j).epochs = j.epochs
         /\ bad /\ ~wCollector.frozen => Failed(bad, j).fault
<1>1. CASE bad /\ ~wCollector.frozen
  <2>1. Failed(bad, j) = Fault(j, TRUE)
    BY <1>1, NoMutationMark DEF Failed
  <2> QED BY <2>1, FaultIsQuiet
<1>2. CASE ~(bad /\ ~wCollector.frozen)
  <2>1. Failed(bad, j) = j
    BY <1>2 DEF Failed
  <2> QED BY <1>2, <2>1 DEF Quiet, SameRows
<1> QED BY <1>1, <1>2

LEMMA QuietTwice ==
  ASSUME NEW j, NEW k, NEW m, Quiet(j, k), Quiet(k, m)
  PROVE  Quiet(j, m)
BY DEF Quiet, SameRows

LEMMA LookupIsAnEpoch ==
  ASSUME NEW j, j \in Journals, NEW c
  PROVE  Lookup(j, c) = 0 \/ Lookup(j, c) \in DOMAIN j.epochs
<1> DEFINE S == {0} \cup {i \in DOMAIN j.epochs : j.epochs[i].cookie = c /\ j.epochs[i].destroyed = "no"}
           n == Len(j.epochs)
<1>1. n \in Nat /\ DOMAIN j.epochs = 1..n
  BY DEF Journals
<1>2. S \in SUBSET (0..n) /\ S # {}
  BY <1>1
<1>3. Max(S) \in S
  <2> HIDE DEF S, n
  <2> QED BY <1>1, <1>2, MaxIsInSet
<1> QED BY <1>3 DEF Lookup

LEMMA CreateIsQuiet ==
  ASSUME NEW j, OpenJournal(j), NEW c \in Cookies, NEW q \in Nat
  PROVE  OpenJournal(JCreate(j, c, q)) /\ Quiet(j, JCreate(j, c, q))
<1>1. j \in Journals /\ NoteMutation(j) = j
  BY NoMutationMark DEF OpenJournal, SoundJournal
<1> DEFINE row == [cookie |-> c, created |-> q, destroyed |-> "no", end |-> 0, pending |-> 0, lastExit |-> 0]
           grown == [j EXCEPT !.epochs = Append(j.epochs, row)]
           bad == BadClock(q)
<1>2. bad \in BOOLEAN
  BY DEF BadClock
<1>3. JCreate(j, c, q) = Fault(j, TRUE) \/ JCreate(j, c, q) = Fault(grown, bad)
  <2> HIDE DEF bad
  <2>1. [NoteMutation(j) EXCEPT !.epochs = Append(@, row)] = grown
    BY <1>1 DEF Journals
  <2> DEFINE old == Max({0} \cup {i \in DOMAIN j.epochs : j.epochs[i].cookie = c})
             reuse == /\ old # 0 /\ j.epochs[old].destroyed = "yes"
                      /\ (j.epochs[old].end = 0 \/ j.epochs[old].end <= j.epochs[old].created
                            \/ q <= j.epochs[old].end)
             taken == old # 0 /\ j.epochs[old].destroyed = "no"
  <2>2. JCreate(j, c, q) = CASE taken -> Fault(NoteMutation(j), TRUE)
                             [] reuse -> Fault(NoteMutation(j), TRUE)
                             [] Len(j.epochs) = EpochRows -> Fault(NoteMutation(j), TRUE)
                             [] OTHER -> Fault([NoteMutation(j) EXCEPT !.epochs = Append(@, row)], bad)
    BY DEF JCreate, bad
  <2> HIDE DEF reuse, taken, grown, row
  <2> QED BY <1>1, <2>1, <2>2
<1>4. OpenJournal(grown) /\ Quiet(j, grown)
  <2>1. row \in EpochRecords
    BY DEF EpochRecords
  <2> DEFINE e == Append(j.epochs, row)
  <2> HIDE DEF row
  <2>2. e \in Seq(EpochRecords) /\ \A k \in DOMAIN j.epochs : k \in DOMAIN e
    BY <1>1, <2>1 DEF Journals
  <2> HIDE DEF e
  <2>3. grown = [j EXCEPT !.epochs = e]
    BY DEF e
  <2> HIDE DEF grown
  <2>4. /\ grown \in Journals /\ grown.ops = j.ops /\ grown.epochs = e /\ grown.observed = j.observed
        /\ grown.completed = j.completed /\ grown.overflow = j.overflow /\ grown.pending = j.pending
        /\ grown.stopped = j.stopped /\ grown.postStop = j.postStop /\ grown.fault = j.fault
    BY <1>1, <2>2, <2>3 DEF Journals
  <2>5. \A k \in DOMAIN grown.ops : grown.ops[k].epoch \in DOMAIN grown.epochs
    BY <2>2, <2>4 DEF OpenJournal, SoundJournal
  <2>6. OpenJournal(grown)
    BY <2>4, <2>5 DEF OpenJournal, SoundJournal, TiesOut, DoneRows
  <2> QED BY <2>4, <2>6 DEF Quiet, SameRows
<1> HIDE DEF grown, bad
<1>5. CASE JCreate(j, c, q) = Fault(j, TRUE)
  BY <1>5, FaultIsQuiet
<1>6. CASE JCreate(j, c, q) = Fault(grown, bad)
  <2>1. OpenJournal(Fault(grown, bad)) /\ Quiet(grown, Fault(grown, bad))
    BY <1>2, <1>4, FaultIsQuiet
  <2> QED BY <1>4, <1>6, <2>1, QuietTwice
<1> QED BY <1>3, <1>5, <1>6

LEMMA DestroyIsQuiet ==
  ASSUME NEW j, OpenJournal(j), NEW c \in Cookies, NEW q \in Nat
  PROVE  OpenJournal(JDestroy(j, c, q)) /\ Quiet(j, JDestroy(j, c, q))
<1>1. j \in Journals /\ NoteMutation(j) = j
  BY NoMutationMark DEF OpenJournal, SoundJournal
<1> DEFINE e == Lookup(j, c)
           row == j.epochs[e]
           fault == BadClock(q) \/ q <= row.created \/ row.pending > 0 \/ q <= row.lastExit
           ended == [row EXCEPT !.destroyed = "yes", !.end = q]
           k == [j EXCEPT !.epochs[e] = ended]
<1>2. fault \in BOOLEAN
  BY DEF BadClock
<1>3. JDestroy(j, c, q) = IF e = 0 THEN Fault(j, TRUE) ELSE Fault(k, fault)
  BY <1>1 DEF JDestroy
<1>4. CASE e = 0
  BY <1>3, <1>4, FaultIsQuiet
<1>5. CASE e # 0
  <2>1. e \in DOMAIN j.epochs
    BY <1>1, <1>5, LookupIsAnEpoch
  <2>2. row \in EpochRecords
    BY <1>1, <2>1 DEF Journals
  <2> HIDE DEF fault, e, row
  <2>3. ended \in EpochRecords
    BY <2>2 DEF EpochRecords
  <2> HIDE DEF ended
  <2> DEFINE es == [j.epochs EXCEPT ![e] = ended]
  <2>4. es \in Seq(EpochRecords) /\ DOMAIN es = DOMAIN j.epochs
    BY <1>1, <2>1, <2>3 DEF Journals
  <2>5. k = [j EXCEPT !.epochs = es]
    BY <1>1 DEF Journals
  <2> HIDE DEF es, k
  <2>6. /\ k \in Journals /\ k.ops = j.ops /\ k.epochs = es /\ k.observed = j.observed
        /\ k.completed = j.completed /\ k.overflow = j.overflow /\ k.pending = j.pending
        /\ k.stopped = j.stopped /\ k.postStop = j.postStop /\ k.fault = j.fault
    BY <1>1, <2>4, <2>5 DEF Journals
  <2>7. OpenJournal(k) /\ Quiet(j, k)
    BY <2>4, <2>6 DEF OpenJournal, SoundJournal, TiesOut, DoneRows, Quiet, SameRows
  <2>8. OpenJournal(Fault(k, fault)) /\ Quiet(k, Fault(k, fault))
    BY <1>2, <2>7, FaultIsQuiet
  <2> QED BY <1>3, <1>5, <2>7, <2>8, QuietTwice
<1> QED BY <1>4, <1>5

\* What Journal::begin does: it stores a row and counts it, or counts it as overflow,
\* or is marked as a fault.
BeginsRow(j, k, c, t) ==
  /\ j.fault => k.fault
  /\ Stores(j, c) => /\ Len(k.ops) = Len(j.ops) + 1 /\ DOMAIN k.ops = DOMAIN j.ops \cup {Len(j.ops) + 1}
                     /\ \A i \in DOMAIN j.ops : k.ops[i].thread = j.ops[i].thread
                     /\ k.ops[Len(j.ops) + 1].thread = t
  /\ ~Stores(j, c) => SameRows(j, k)
  /\ k.fault \/ k.observed = j.observed + 1

LEMMA BeginCounts ==
  ASSUME NEW j, OpenJournal(j), NEW c \in Cookies, NEW t \in WThreads, NEW q \in Nat,
         NEW kind \in {"update", "wait", "release"}
  PROVE  OpenJournal(JBegin(j, c, t, q, kind)) /\ BeginsRow(j, JBegin(j, c, t, q, kind), c, t)
<1>1. /\ j \in Journals /\ NoteMutation(j) = j /\ Len(j.ops) <= OpRows /\ OpRows \in Nat
      /\ \A i \in DOMAIN j.ops : j.ops[i].epoch \in DOMAIN j.epochs
      /\ ~j.stopped /\ ~j.postStop
  BY NoMutationMark, WitnessConstants DEF OpenJournal, SoundJournal
<1>2. /\ j.observed \in Nat /\ j.overflow \in Nat /\ j.completed \in Nat /\ j.pending \in Int
      /\ j.ops \in Seq(OpRecords) /\ j.epochs \in Seq(EpochRecords) /\ Len(j.ops) \in Nat
      /\ DOMAIN j.ops = 1..Len(j.ops)
  BY <1>1 DEF Journals
<1>3. /\ j.completed = Cardinality(DoneRows(j)) /\ j.completed + j.pending = Len(j.ops)
      /\ j.observed = Len(j.ops) + j.overflow
  BY DEF OpenJournal, SoundJournal, TiesOut
<1> DEFINE e == Lookup(j, c)
           o == j.observed + 1
           v == j.overflow + 1
           p == j.pending + 1
           op == [epoch |-> e, thread |-> t, kind |-> kind, done |-> FALSE]
           ops == Append(j.ops, op)
           ep == j.epochs[e].pending + 1
           es == [j.epochs EXCEPT ![e].pending = ep]
           n == [j EXCEPT !.observed = o]
           full == [n EXCEPT !.overflow = v]
           stored == [n EXCEPT !.ops = ops, !.pending = p, !.epochs = es]
           bad == BadClock(q) \/ q <= j.epochs[e].created
           k == JBegin(j, c, t, q, kind)
<1>4. o \in Nat /\ v \in Nat /\ p \in Int /\ o = Len(j.ops) + v /\ o = (Len(j.ops) + 1) + j.overflow
      /\ j.completed + p = Len(j.ops) + 1 /\ o = j.observed + 1
  <2> DEFINE len == Len(j.ops)
  <2>1. len \in Nat /\ j.completed + j.pending = len /\ j.observed = len + j.overflow
    BY <1>2, <1>3
  <2> HIDE DEF len
  <2>2. o \in Nat /\ v \in Nat /\ p \in Int
    BY <1>2
  <2>3. \A a, b \in Nat, d \in Int : a + d = b => a + (d + 1) = b + 1
    OBVIOUS
  <2>4. \A a, b, d \in Nat : a = b + d => a + 1 = b + (d + 1) /\ a + 1 = (b + 1) + d
    OBVIOUS
  <2>5. j.completed + p = len + 1
    BY <1>2, <2>1, <2>3
  <2>6. o = len + v /\ o = (len + 1) + j.overflow
    BY <1>2, <2>1, <2>4
  <2> QED BY <2>2, <2>5, <2>6 DEF len
<1>5. n \in Journals /\ n.epochs = j.epochs /\ n.ops = j.ops /\ n.overflow = j.overflow /\ n.pending = j.pending
      /\ n.observed = o /\ n.completed = j.completed /\ n.fault = j.fault /\ n.stopped = j.stopped
      /\ n.postStop = j.postStop
  <2> HIDE DEF o
  <2> QED BY <1>1, <1>4 DEF Journals
<1>6. CASE e = 0
  <2>1. k = Fault(j, TRUE)
    <3> DEFINE none == e = 0
               room == e # 0 /\ Len(j.ops) = OpRows
               grown == Fault([[NoteMutation(j) EXCEPT !.observed = @ + 1]
                                 EXCEPT !.ops = Append(@, op), !.pending = @ + 1, !.epochs[e].pending = @ + 1], bad)
               spilt == [[NoteMutation(j) EXCEPT !.observed = @ + 1] EXCEPT !.overflow = @ + 1]
    <3>1. k = CASE none -> Fault(NoteMutation(j), TRUE)
                [] room -> spilt
                [] OTHER -> grown
      BY DEF JBegin
    <3>2. none /\ ~room
      BY <1>6
    <3> HIDE DEF k, none, room, grown, spilt
    <3> QED BY <1>1, <3>1, <3>2
  <2>2. ~Stores(j, c)
    BY <1>6 DEF Stores
  <2>3. OpenJournal(k) /\ Quiet(j, k) /\ k.fault
    BY <2>1, FaultIsQuiet
  <2> QED BY <2>2, <2>3 DEF BeginsRow, Quiet, SameRows
<1>7. CASE e # 0 /\ Len(j.ops) = OpRows
  <2>1. k = full
    BY <1>1, <1>2, <1>5, <1>7 DEF JBegin
  <2>2. ~Stores(j, c)
    BY <1>1, <1>7 DEF Stores
  <2> HIDE DEF e, n, v, o, p, k
  <2>3. /\ k \in Journals /\ k.epochs = j.epochs /\ k.ops = j.ops /\ k.overflow = v /\ k.pending = j.pending
        /\ k.observed = o /\ k.completed = j.completed /\ k.fault = j.fault /\ k.stopped = j.stopped
        /\ k.postStop = j.postStop
    BY <1>4, <1>5, <2>1 DEF Journals
  <2>4. OpenJournal(k)
    BY <1>1, <1>3, <1>4, <2>3 DEF OpenJournal, SoundJournal, TiesOut, DoneRows
  <2>5. BeginsRow(j, k, c, t)
    BY <1>4, <2>2, <2>3 DEF BeginsRow, SameRows
  <2> QED BY <2>4, <2>5 DEF k
<1>8. CASE e # 0 /\ Len(j.ops) # OpRows
  <2>1. e \in DOMAIN j.epochs
    BY <1>1, <1>8, LookupIsAnEpoch
  <2>2. k = Fault(stored, bad)
    <3>1. [NoteMutation(j) EXCEPT !.observed = @ + 1] = n
      BY <1>1 DEF Journals
    <3>2. [n EXCEPT !.ops = Append(@, op), !.pending = @ + 1, !.epochs[e].pending = @ + 1] = stored
      <4> HIDE DEF n, e, op
      <4> QED BY <1>5 DEF Journals
    <3> DEFINE taken == e = 0
               room == e # 0 /\ Len(j.ops) = OpRows
    <3>3. k = CASE taken -> Fault(NoteMutation(j), TRUE)
                [] room -> full
                [] OTHER -> Fault(stored, bad)
      BY <3>1, <3>2 DEF JBegin
    <3>4. ~taken /\ ~room
      BY <1>8
    <3> HIDE DEF k, taken, room, full, stored, bad
    <3> QED BY <3>3, <3>4
  <2>3. bad \in BOOLEAN
    BY DEF BadClock
  <2>4. j.epochs[e] \in EpochRecords /\ e \in Nat
    BY <1>2, <2>1
  <2>5. ep \in Int
    BY <2>4 DEF EpochRecords
  <2>6. Stores(j, c)
    BY <1>1, <1>2, <1>8 DEF Stores
  <2> HIDE DEF ep
  <2>7. es \in Seq(EpochRecords) /\ DOMAIN es = DOMAIN j.epochs
    <3>1. [j.epochs[e] EXCEPT !.pending = ep] \in EpochRecords
      BY <2>4, <2>5 DEF EpochRecords
    <3> DEFINE r == [j.epochs[e] EXCEPT !.pending = ep]
    <3>2. es = [j.epochs EXCEPT ![e] = r]
      BY <1>2, <2>1
    <3> HIDE DEF r, es, e
    <3> QED BY <1>2, <2>1, <3>1, <3>2 DEF r
  <2>8. op \in OpRecords /\ op.thread = t /\ op.done = FALSE /\ op.epoch = e
    <3> HIDE DEF e
    <3> QED BY <2>4 DEF OpRecords
  <2> HIDE DEF op, e, bad, es
  <2>9. /\ ops \in Seq(OpRecords) /\ Len(ops) = Len(j.ops) + 1 /\ DOMAIN ops = DOMAIN j.ops \cup {Len(j.ops) + 1}
        /\ \A i \in DOMAIN j.ops : ops[i] = j.ops[i]
        /\ ops[Len(j.ops) + 1] = op
    BY <1>2, <2>8
  <2> HIDE DEF ops, p, o, v, n
  <2>10. /\ stored \in Journals /\ stored.epochs = es /\ stored.ops = ops /\ stored.overflow = j.overflow
         /\ stored.pending = p /\ stored.observed = o /\ stored.completed = j.completed
         /\ stored.fault = j.fault /\ stored.stopped = j.stopped /\ stored.postStop = j.postStop
    BY <1>4, <1>5, <2>7, <2>9 DEF Journals
  <2> HIDE DEF stored
  <2>11. DoneRows(stored) = DoneRows(j)
    BY <1>2, <2>8, <2>9, <2>10 DEF DoneRows
  <2>12. Len(ops) <= OpRows
    BY <1>1, <1>2, <1>8, <2>9
  <2>13. \A i \in DOMAIN stored.ops : stored.ops[i].epoch \in DOMAIN stored.epochs
    BY <1>1, <2>1, <2>7, <2>8, <2>9, <2>10
  <2>14. TiesOut(stored)
    BY <1>3, <1>4, <2>9, <2>10, <2>11 DEF TiesOut
  <2>15. OpenJournal(stored)
    BY <1>1, <2>10, <2>12, <2>13, <2>14 DEF OpenJournal, SoundJournal
  <2>16. OpenJournal(k) /\ Quiet(stored, k)
    BY <2>2, <2>3, <2>15, FaultIsQuiet
  <2> HIDE DEF k
  <2>17. BeginsRow(j, k, c, t)
    <3>1. /\ Len(k.ops) = Len(j.ops) + 1 /\ DOMAIN k.ops = DOMAIN j.ops \cup {Len(j.ops) + 1}
          /\ j.fault => k.fault
          /\ k.observed = j.observed + 1
      BY <1>4, <2>9, <2>10, <2>16 DEF Quiet, SameRows
    <3>2. \A i \in DOMAIN ops : k.ops[i].thread = ops[i].thread
      BY <2>10, <2>16 DEF Quiet, SameRows
    <3>3. /\ \A i \in DOMAIN j.ops : k.ops[i].thread = j.ops[i].thread
          /\ k.ops[Len(j.ops) + 1].thread = t
      BY <2>8, <2>9, <3>2
    <3> QED BY <2>6, <3>1, <3>3 DEF BeginsRow
  <2> QED BY <2>16, <2>17 DEF k
<1> QED BY <1>6, <1>7, <1>8

\* What Journal::end does for a ticket of this journal.
LEMMA EndIsQuiet ==
  ASSUME NEW j, OpenJournal(j), NEW id \in DOMAIN j.ops, NEW q \in Nat
  PROVE  OpenJournal(JEnd(j, id, q)) /\ Quiet(j, JEnd(j, id, q))
<1>1. /\ j \in Journals /\ NoteMutation(j) = j /\ Len(j.ops) <= OpRows
      /\ \A i \in DOMAIN j.ops : j.ops[i].epoch \in DOMAIN j.epochs
      /\ ~j.stopped /\ ~j.postStop
  BY NoMutationMark DEF OpenJournal, SoundJournal
<1>2. /\ j.observed \in Nat /\ j.overflow \in Nat /\ j.completed \in Nat /\ j.pending \in Int
      /\ j.ops \in Seq(OpRecords) /\ j.epochs \in Seq(EpochRecords) /\ Len(j.ops) \in Nat
      /\ DOMAIN j.ops = 1..Len(j.ops)
  BY <1>1 DEF Journals
<1>3. /\ j.completed = Cardinality(DoneRows(j)) /\ j.completed + j.pending = Len(j.ops)
      /\ j.observed = Len(j.ops) + j.overflow
  BY DEF OpenJournal, SoundJournal, TiesOut
<1> DEFINE e == j.ops[id].epoch
           row == j.epochs[e]
           fault == BadClock(q) \/ (row.destroyed = "yes" /\ q >= row.end)
           done == [j.ops[id] EXCEPT !.done = TRUE]
           ops == [j.ops EXCEPT ![id] = done]
           c == j.completed + 1
           p == j.pending - 1
           after == Completion(row, q)
           es == [j.epochs EXCEPT ![e] = after]
           m == [j EXCEPT !.ops = ops, !.completed = c, !.pending = p, !.epochs = es]
<1>4. fault \in BOOLEAN
  BY DEF BadClock
<1>5. e \in DOMAIN j.epochs /\ row \in EpochRecords /\ j.ops[id] \in OpRecords
  BY <1>1, <1>2
<1>6. CASE j.ops[id].done
  <2>1. JEnd(j, id, q) = Fault(j, TRUE)
    BY <1>1, <1>6 DEF JEnd
  <2> QED BY <2>1, FaultIsQuiet
<1>7. CASE ~j.ops[id].done
  <2>1. JEnd(j, id, q) = Fault(m, fault)
    <3>1. ops = [j.ops EXCEPT ![id].done = TRUE]
      BY <1>2
    <3>2. [j EXCEPT !.ops[id].done = TRUE, !.completed = @ + 1, !.pending = @ - 1,
                    !.epochs[e] = Completion(row, q)] = m
      <4> HIDE DEF e, row, after
      <4> QED BY <1>1, <3>1 DEF Journals, after
    <3> QED BY <1>1, <1>7, <3>2 DEF JEnd
  <2>2. after \in EpochRecords
    <3> DEFINE r == row.pending - 1
               x == IF q > row.lastExit THEN q ELSE row.lastExit
    <3>1. r \in Int /\ x \in Nat
      <4> HIDE DEF row
      <4> QED BY <1>5 DEF EpochRecords
    <3>2. after = [row EXCEPT !.pending = r, !.lastExit = x]
      BY DEF Completion
    <3> HIDE DEF r, x, after, row
    <3> QED BY <1>5, <3>1, <3>2 DEF EpochRecords
  <2>3. done \in OpRecords /\ done.done /\ done.thread = j.ops[id].thread /\ done.epoch = e
    BY <1>5 DEF OpRecords
  <2> HIDE DEF fault, done, after
  <2>4. /\ ops \in Seq(OpRecords) /\ Len(ops) = Len(j.ops) /\ DOMAIN ops = DOMAIN j.ops
        /\ ops[id] = done
        /\ \A i \in DOMAIN j.ops : i # id => ops[i] = j.ops[i]
    BY <1>2, <2>3
  <2>5. es \in Seq(EpochRecords) /\ DOMAIN es = DOMAIN j.epochs
    <3> HIDE DEF e
    <3> QED BY <1>2, <1>5, <2>2
  <2>6. c \in Nat /\ p \in Int
    BY <1>2
  <2>7. c + p = Len(j.ops)
    <3>1. \A a \in Nat, d \in Int : (a + 1) + (d - 1) = a + d
      OBVIOUS
    <3> QED BY <1>2, <1>3, <3>1
  <2>8. c = Cardinality(DoneRows(j)) + 1
    BY <1>3
  <2> HIDE DEF e, row, ops, es, c, p
  <2>9. /\ m \in Journals /\ m.ops = ops /\ m.epochs = es /\ m.completed = c /\ m.pending = p
        /\ m.observed = j.observed /\ m.overflow = j.overflow
        /\ m.fault = j.fault /\ m.stopped = j.stopped /\ m.postStop = j.postStop
    BY <1>1, <2>4, <2>5, <2>6 DEF Journals
  <2> HIDE DEF m
  <2>10. Cardinality(DoneRows(m)) = Cardinality(DoneRows(j)) + 1
    <3>1. DoneRows(m) = DoneRows(j) \cup {id} /\ id \notin DoneRows(j)
      BY <1>7, <2>3, <2>4, <2>9 DEF DoneRows
    <3>2. IsFiniteSet(DoneRows(j))
      <4>1. DoneRows(j) \subseteq 1..Len(j.ops) /\ 1..Len(j.ops) = DOMAIN j.ops
        BY <1>2 DEF DoneRows
      <4>2. IsFiniteSet(1..Len(j.ops))
        BY <1>2, FS_Interval
      <4> QED BY <4>1, <4>2, FS_Subset
    <3> QED BY <3>1, <3>2, FS_AddElement
  <2>11. TiesOut(m)
    BY <1>3, <2>4, <2>7, <2>8, <2>9, <2>10 DEF TiesOut
  <2>12. \A i \in DOMAIN m.ops : m.ops[i].epoch \in DOMAIN m.epochs
    BY <1>1, <1>5, <2>3, <2>4, <2>5, <2>9
  <2>13. OpenJournal(m)
    BY <1>1, <2>4, <2>9, <2>11, <2>12 DEF OpenJournal, SoundJournal
  <2>14. Quiet(j, m)
    BY <2>3, <2>4, <2>9 DEF Quiet, SameRows
  <2>15. OpenJournal(Fault(m, fault)) /\ Quiet(m, Fault(m, fault))
    BY <1>4, <2>13, FaultIsQuiet
  <2> QED BY <2>1, <2>14, <2>15, QuietTwice
<1> QED BY <1>6, <1>7

\* A journal that ties out passes the capture, and the cut keeps its counts.
LEMMA StopTiesOut ==
  ASSUME NEW j, OpenJournal(j), NEW q \in Nat
  PROVE  /\ SoundJournal(JStop(j, q)) /\ JStop(j, q).stopped
         /\ Quiet(j, JStop(j, q)) /\ JStop(j, q).ops = j.ops
         /\ WitnessCapture(JStop(j, q)) = "Ok"
<1>1. j \in Journals /\ ~j.postStop
  BY DEF OpenJournal, SoundJournal
<1>2. /\ j.observed \in Nat /\ j.overflow \in Nat /\ j.completed \in Nat /\ j.pending \in Int /\ Len(j.ops) \in Nat
      /\ j.ops \in Seq(OpRecords) /\ DOMAIN j.ops = 1..Len(j.ops)
  BY <1>1 DEF Journals
<1>3. /\ j.completed = Cardinality(DoneRows(j)) /\ j.completed + j.pending = Len(j.ops)
      /\ j.observed = Len(j.ops) + j.overflow
  BY DEF OpenJournal, SoundJournal, TiesOut
<1>4. j.completed <= Len(j.ops)
  <2>1. DoneRows(j) \subseteq 1..Len(j.ops)
    BY <1>2 DEF DoneRows
  <2>2. IsFiniteSet(1..Len(j.ops)) /\ Cardinality(1..Len(j.ops)) = Len(j.ops)
    BY <1>2, FS_Interval
  <2>3. Cardinality(DoneRows(j)) <= Cardinality(1..Len(j.ops))
    BY <2>1, <2>2, FS_Subset
  <2> QED BY <1>3, <2>2, <2>3
<1> DEFINE some == j.pending > 0
           m == [j EXCEPT !.stopped = TRUE, !.incomplete = some]
           k == JStop(j, q)
<1>5. k = Fault(m, q = 0)
  BY DEF JStop
<1> DEFINE b == m.fault \/ q = 0
<1>6. /\ m \in Journals /\ m.stopped /\ (m.incomplete <=> some) /\ m.ops = j.ops /\ m.epochs = j.epochs
      /\ m.observed = j.observed /\ m.completed = j.completed /\ m.overflow = j.overflow
      /\ m.pending = j.pending /\ m.postStop = j.postStop /\ m.fault = j.fault
  <2>1. some \in BOOLEAN
    OBVIOUS
  <2> HIDE DEF some
  <2> QED BY <1>1, <2>1 DEF Journals
<1>7. k = [m EXCEPT !.fault = b] /\ b \in BOOLEAN /\ (m.fault => b)
  BY <1>5 DEF Fault
<1> HIDE DEF m, k, b
<1>8. /\ k \in Journals /\ k.stopped /\ (k.incomplete <=> some) /\ k.ops = j.ops /\ k.epochs = j.epochs
      /\ k.observed = j.observed /\ k.completed = j.completed /\ k.overflow = j.overflow
      /\ k.pending = j.pending /\ k.postStop = j.postStop /\ (j.fault => k.fault)
  BY <1>6, <1>7 DEF Journals
<1>9. SoundJournal(k)
  BY <1>8 DEF OpenJournal, SoundJournal, TiesOut, DoneRows
<1>10. Quiet(j, k)
  BY <1>8 DEF Quiet, SameRows
<1>11. WitnessCapture(k) = "Ok"
  <2> DEFINE len == Len(j.ops)
  <2>1. len \in Nat /\ j.completed + j.pending = len /\ j.observed = len + j.overflow /\ j.completed <= len
    BY <1>2, <1>3, <1>4
  <2> HIDE DEF len
  <2>2. /\ ~(j.completed > len) /\ ~(j.observed < len) /\ j.observed - len = j.overflow
        /\ len - j.completed = j.pending
    <3>1. \A a \in Nat, d \in Int, n \in Nat : a + d = n => n - a = d
      OBVIOUS
    <3>2. \A a, d, n \in Nat : a = n + d => a - n = d /\ ~(a < n)
      OBVIOUS
    <3>3. len - j.completed = j.pending
      BY <1>2, <2>1, <3>1
    <3>4. j.observed - len = j.overflow /\ ~(j.observed < len)
      BY <1>2, <2>1, <3>2
    <3>5. ~(j.completed > len)
      BY <1>2, <2>1
    <3> QED BY <3>3, <3>4, <3>5
  <2>3. j.pending >= 0
    BY <1>2, <2>1
  <2>4. some <=> j.pending # 0
    BY <1>2, <2>3
  <2>5. k.incomplete = (k.pending # 0)
    <3>1. k.incomplete \in BOOLEAN
      BY <1>8 DEF Journals
    <3>2. k.incomplete <=> k.pending # 0
      BY <1>8, <2>4
    <3> HIDE DEF some
    <3> QED BY <3>1, <3>2
  <2>6. ~(k.completed > Len(k.ops) \/ k.observed < Len(k.ops) \/ k.observed - Len(k.ops) # k.overflow
            \/ Len(k.ops) - k.completed # k.pending)
    BY <1>8, <2>2 DEF len
  <2> QED BY <1>1, <1>8, <2>5, <2>6 DEF WitnessCapture
<1> QED BY <1>8, <1>9, <1>10, <1>11 DEF k

Collectors == [frozen : BOOLEAN, bound : BOOLEAN, destroyed : BOOLEAN, cookie : Cookies \cup {NoCookie},
               epoch : Nat, failed : BOOLEAN]
Registries == [ready : BOOLEAN, admissions : BOOLEAN, failed : BOOLEAN]
CreateScopes == [cookie : Cookies \cup {NoCookie}, epoch : Nat]
OpScopes == [cookie : Cookies, kind : WitnessKinds, ticket : Nat, attempts : Nat, ambiguous : BOOLEAN,
             wait : Nat, since : Nat, depth : Nat]
NativeFrames == [cookie : Cookies, kind : WitnessKinds, ticket : Nat]
SdkCalls == [op : {"create", "destroy", "begin"}, cookie : Cookies, kind : WitnessKinds \cup {"none"}]

WitnessTypes ==
  /\ wRegistry \in Registries /\ wCollector \in Collectors
  /\ wCreate \in [WThreads -> Seq(CreateScopes)]
  /\ wScopes \in [WThreads -> Seq(OpScopes)]
  /\ wFrames \in [WThreads -> Seq(NativeFrames)]
  /\ wCalls \in [WThreads -> Seq(SdkCalls)]
  /\ wTick \in Nat /\ wNative \in Nat
BeginsAreOfKind == \A t \in WThreads : Asks(t, "begin") => wCalls[t][1].kind \in WitnessKinds
JournalIsSound == SoundJournal(wJournal) /\ (wJournal.stopped <=> wCollector.frozen)
TicketsAreRows ==
  \A t \in WThreads : \A i \in DOMAIN wFrames[t] :
    wFrames[t][i].ticket # 0 => wFrames[t][i].ticket \in DOMAIN wJournal.ops

RowsSince(j, t, n) == {k \in DOMAIN j.ops : k > n /\ j.ops[k].thread = t}
ScopeKnows(j, t, s) ==
  /\ s.since <= Len(j.ops)
  /\ s.wait # 0 => s.wait = s.ticket
  /\ s.attempts = 0 => s.ticket = 0
  /\ ~s.ambiguous => /\ s.attempts <= 1
                     /\ s.attempts = 0 => RowsSince(j, t, s.since) = {}
                     /\ s.ticket # 0 => RowsSince(j, t, s.since) = {s.ticket}
ScopesKnow == \A t \in WThreads : \A i \in DOMAIN wScopes[t] : ScopeKnows(wJournal, t, wScopes[t][i])

OpenCount == ~wCollector.frozen /\ ~wJournal.fault /\ wRegistry.admissions => wJournal.observed = wNative
SnapIsTrue ==
  /\ wSnap.status \notin {"Counts", "NotFreezeSnapshot"}
  /\ wSnap.status = "Ok" => wCollector.frozen /\ wSnap.counts = Counts(wJournal)
  /\ wSnap.status = "Ok" /\ wSnap.clean => wSnap.counts[1] = wNative

WitnessIInv == /\ WitnessTypes /\ BeginsAreOfKind /\ JournalIsSound /\ TicketsAreRows
               /\ ScopesKnow /\ OpenCount /\ SnapIsTrue

LEMMA WitnessInitHolds == WitnessInit => WitnessIInv
<1> SUFFICES ASSUME WitnessInit PROVE WitnessIInv
  OBVIOUS
<1>1. \A S : <<>> \in Seq(S) /\ DOMAIN <<>> = {} /\ Len(<<>>) = 0
  OBVIOUS
<1>2. /\ wJournal.ops = <<>> /\ wJournal.epochs = <<>> /\ wJournal.observed = 0 /\ wJournal.completed = 0
      /\ wJournal.overflow = 0 /\ wJournal.pending = 0 /\ wJournal.stopped = FALSE /\ wJournal.postStop = FALSE
      /\ wJournal.fault = FALSE
  BY DEF WitnessInit, EmptyJournal
<1>3. wJournal \in Journals
  BY <1>1 DEF WitnessInit, EmptyJournal, Journals
<1>4. TiesOut(wJournal)
  <2>1. DoneRows(wJournal) = {}
    BY <1>1, <1>2 DEF DoneRows
  <2> QED BY <1>1, <1>2, <2>1, FS_EmptySet DEF TiesOut
<1>5. JournalIsSound
  <2>1. wCollector.frozen = FALSE /\ 0 <= OpRows
    BY WitnessConstants DEF WitnessInit
  <2> QED BY <1>1, <1>2, <1>3, <1>4, <2>1 DEF JournalIsSound, SoundJournal
<1>6. WitnessTypes
  <2>1. wRegistry \in Registries
    BY DEF WitnessInit, Registries
  <2>2. wCollector \in Collectors
    BY DEF WitnessInit, Collectors
  <2>3. /\ wCreate \in [WThreads -> Seq(CreateScopes)] /\ wScopes \in [WThreads -> Seq(OpScopes)]
        /\ wFrames \in [WThreads -> Seq(NativeFrames)] /\ wCalls \in [WThreads -> Seq(SdkCalls)]
    BY <1>1 DEF WitnessInit
  <2>4. wTick \in Nat /\ wNative \in Nat
    BY DEF WitnessInit
  <2> QED BY <2>1, <2>2, <2>3, <2>4 DEF WitnessTypes
<1>7. BeginsAreOfKind /\ TicketsAreRows /\ ScopesKnow
  <2>1. \A t \in WThreads : wCalls[t] = <<>> /\ wFrames[t] = <<>> /\ wScopes[t] = <<>>
    BY DEF WitnessInit
  <2> QED BY <1>1, <2>1 DEF BeginsAreOfKind, Asks, TicketsAreRows, ScopesKnow
<1>8. OpenCount /\ SnapIsTrue
  BY <1>2 DEF WitnessInit, OpenCount, SnapIsTrue, NoSnap
<1> QED BY <1>5, <1>6, <1>7, <1>8 DEF WitnessIInv

LEMMA KnowsStays ==
  ASSUME NEW j, NEW k, NEW t, NEW s, SameRows(j, k), ScopeKnows(j, t, s)
  PROVE  ScopeKnows(k, t, s)
<1>1. RowsSince(k, t, s.since) = RowsSince(j, t, s.since)
  BY DEF SameRows, RowsSince
<1> QED BY <1>1 DEF ScopeKnows, SameRows

\* Steps that leave the journal alone, or change it quietly before the cut.
LEMMA JournalStep ==
  ASSUME WitnessIInv, WitnessTypes', BeginsAreOfKind',
         UNCHANGED <<wScopes, wFrames, wNative, wSnap>>,
         wRegistry'.admissions => wRegistry.admissions,
         wCollector'.frozen = wCollector.frozen,
         \/ wJournal' = wJournal
         \/ ~wCollector.frozen /\ OpenJournal(wJournal') /\ Quiet(wJournal, wJournal')
  PROVE  WitnessIInv'
<1>1. CASE wJournal' = wJournal
  BY <1>1 DEF WitnessIInv, JournalIsSound, TicketsAreRows, ScopesKnow, OpenCount, SnapIsTrue
<1>2. CASE ~wCollector.frozen /\ OpenJournal(wJournal') /\ Quiet(wJournal, wJournal')
  <2>1. JournalIsSound'
    BY <1>2 DEF JournalIsSound, OpenJournal
  <2>2. SameRows(wJournal, wJournal') /\ wJournal'.observed = wJournal.observed
    BY <1>2 DEF Quiet
  <2>3. TicketsAreRows'
    BY <2>2 DEF WitnessIInv, TicketsAreRows, SameRows
  <2>4. ScopesKnow'
    BY <2>2, KnowsStays DEF WitnessIInv, ScopesKnow
  <2>5. OpenCount'
    BY <1>2, <2>2 DEF WitnessIInv, OpenCount, SameRows
  <2>6. SnapIsTrue'
    BY <1>2 DEF WitnessIInv, SnapIsTrue
  <2> QED BY <2>1, <2>3, <2>4, <2>5, <2>6 DEF WitnessIInv
<1> QED BY <1>1, <1>2

LEMMA OpenBeforeTheCut ==
  ASSUME WitnessIInv, ~wCollector.frozen
  PROVE  OpenJournal(wJournal)
BY DEF WitnessIInv, JournalIsSound, OpenJournal

LEMMA ReadsAreTicks ==
  ASSUME WitnessIInv, NEW q \in Reads, Read(q)
  PROVE  q \in Nat /\ wTick' \in Nat
<1>1. wTick \in Nat
  BY DEF WitnessIInv, WitnessTypes
<1>2. q = 0 \/ q \in wTick..wTick + 1
  BY DEF Reads
<1>3. q \in Nat
  BY <1>1, <1>2
<1> QED BY <1>1, <1>3 DEF Read

LEMMA RegistrySteps ==
  ASSUME WitnessIInv
  PROVE  Configure \/ RegisterAgain => WitnessIInv'
<1> SUFFICES ASSUME Configure \/ RegisterAgain PROVE WitnessIInv'
  OBVIOUS
<1>1. UNCHANGED <<wCollector, wJournal, wCreate, wScopes, wCalls, wFrames, wTick, wNative, wSnap>>
  BY DEF Configure, RegisterAgain
<1>2. wRegistry \in Registries
  BY DEF WitnessIInv, WitnessTypes
<1>3. wRegistry' \in Registries /\ (wRegistry'.admissions => wRegistry.admissions)
  <2>1. CASE Configure
    BY <1>2, <2>1 DEF Configure, Registries
  <2>2. CASE RegisterAgain
    BY <1>2, <2>2 DEF RegisterAgain, Registries
  <2> QED BY <2>1, <2>2
<1>4. WitnessTypes'
  BY <1>1, <1>3 DEF WitnessIInv, WitnessTypes
<1>5. BeginsAreOfKind'
  BY <1>1 DEF WitnessIInv, BeginsAreOfKind, Asks
<1> QED BY <1>1, <1>3, <1>4, <1>5, JournalStep

LEMMA OpenCreateStep ==
  ASSUME WitnessIInv, NEW t \in WThreads, OpenCreate(t)
  PROVE  WitnessIInv'
<1> DEFINE one == [cookie |-> NoCookie, epoch |-> 0]
<1>1. /\ UNCHANGED <<wRegistry, wCollector, wJournal, wScopes, wCalls, wFrames, wTick, wNative, wSnap>>
      /\ wCreate' = [wCreate EXCEPT ![t] = <<one>>]
  BY DEF OpenCreate
<1>2. <<one>> \in Seq(CreateScopes)
  <2>1. one \in CreateScopes
    BY DEF CreateScopes
  <2> HIDE DEF one
  <2> QED BY <2>1
<1> HIDE DEF one
<1>3. wCreate' \in [WThreads -> Seq(CreateScopes)]
  BY <1>1, <1>2 DEF WitnessIInv, WitnessTypes
<1>4. WitnessTypes'
  BY <1>1, <1>3 DEF WitnessIInv, WitnessTypes
<1>5. BeginsAreOfKind'
  BY <1>1 DEF WitnessIInv, BeginsAreOfKind, Asks
<1> QED BY <1>1, <1>4, <1>5, JournalStep

LEMMA SdkCallStep ==
  ASSUME WitnessIInv, NEW t \in WThreads, NEW c \in Cookies, NEW op \in {"create", "destroy", "begin"},
         NEW kind \in WitnessKinds \cup {"none"}, op = "begin" => kind \in WitnessKinds, SdkCall(t, op, c, kind)
  PROVE  WitnessIInv'
<1> DEFINE one == [op |-> op, cookie |-> c, kind |-> kind]
           calls == <<one>>
<1>1. /\ UNCHANGED <<wRegistry, wCollector, wJournal, wCreate, wScopes, wFrames, wTick, wNative, wSnap>>
      /\ wCalls' = [wCalls EXCEPT ![t] = calls]
  BY DEF SdkCall
<1>2. calls \in Seq(SdkCalls) /\ calls # <<>> /\ calls[1].op = op /\ calls[1].kind = kind
  <2>1. one \in SdkCalls /\ one.op = op /\ one.kind = kind
    BY DEF SdkCalls
  <2> HIDE DEF one
  <2> QED BY <2>1
<1> HIDE DEF calls
<1>3. wCalls \in [WThreads -> Seq(SdkCalls)]
  BY DEF WitnessIInv, WitnessTypes
<1>4. wCalls' \in [WThreads -> Seq(SdkCalls)]
  BY <1>1, <1>2, <1>3
<1>5. WitnessTypes'
  BY <1>1, <1>4 DEF WitnessIInv, WitnessTypes
<1>6. BeginsAreOfKind'
  <2>1. ASSUME NEW u \in WThreads, Asks(u, "begin")' PROVE wCalls'[u][1].kind \in WitnessKinds
    <3>1. CASE u = t
      BY <1>1, <1>2, <1>3, <2>1, <3>1 DEF Asks
    <3>2. CASE u # t
      <4>1. wCalls'[u] = wCalls[u]
        BY <1>1, <1>3, <3>2
      <4> QED BY <2>1, <4>1 DEF WitnessIInv, BeginsAreOfKind, Asks
    <3> QED BY <3>1, <3>2
  <2> QED BY <2>1 DEF BeginsAreOfKind
<1> QED BY <1>1, <1>5, <1>6, JournalStep

\* What a native operation that the registry does not see does to the count.
LEMMA UnseenStep ==
  ASSUME WitnessIInv, NEW t \in WThreads, NEW c \in Cookies, NEW kind \in WitnessKinds, SdkBeginUnseen(t, c, kind)
  PROVE  WitnessIInv'
<1> DEFINE one == [cookie |-> c, kind |-> kind, ticket |-> 0]
           frames == Append(wFrames[t], one)
           n == IF Selected(c) THEN wNative + 1 ELSE wNative
<1>1. /\ UNCHANGED <<wRegistry, wCollector, wJournal, wCreate, wScopes, wCalls, wTick, wSnap>>
      /\ wFrames' = [wFrames EXCEPT ![t] = frames] /\ wNative' = n
      /\ ~wRegistry.admissions
  BY DEF SdkBeginUnseen, Starts, Idle, Admitting
<1>2. wFrames \in [WThreads -> Seq(NativeFrames)] /\ wNative \in Nat
  BY DEF WitnessIInv, WitnessTypes
<1>3. n \in Nat /\ (wCollector.frozen => n = wNative)
  BY <1>2 DEF Selected
<1>4. one \in NativeFrames /\ one.ticket = 0
  BY DEF NativeFrames
<1> HIDE DEF one, n
<1>5. /\ frames \in Seq(NativeFrames)
      /\ \A i \in DOMAIN frames : frames[i] = one \/ (i \in DOMAIN wFrames[t] /\ frames[i] = wFrames[t][i])
  BY <1>2, <1>4
<1> HIDE DEF frames
<1>6. wFrames' \in [WThreads -> Seq(NativeFrames)]
  BY <1>1, <1>2, <1>5
<1>7. WitnessTypes'
  BY <1>1, <1>3, <1>6 DEF WitnessIInv, WitnessTypes
<1>8. BeginsAreOfKind' /\ JournalIsSound' /\ ScopesKnow'
  BY <1>1 DEF WitnessIInv, BeginsAreOfKind, Asks, JournalIsSound, ScopesKnow
<1>9. TicketsAreRows'
  <2>1. ASSUME NEW u \in WThreads, NEW i \in DOMAIN wFrames'[u], wFrames'[u][i].ticket # 0
        PROVE  wFrames'[u][i].ticket \in DOMAIN wJournal.ops
    <3>1. CASE u = t
      <4>1. wFrames'[u] = frames
        BY <1>1, <1>2, <3>1
      <4> QED BY <1>4, <1>5, <2>1, <3>1, <4>1 DEF WitnessIInv, TicketsAreRows
    <3>2. CASE u # t
      <4>1. wFrames'[u] = wFrames[u]
        BY <1>1, <1>2, <3>2
      <4> QED BY <2>1, <4>1 DEF WitnessIInv, TicketsAreRows
    <3> QED BY <3>1, <3>2
  <2> QED BY <1>1, <2>1 DEF TicketsAreRows
<1>10. OpenCount' /\ SnapIsTrue'
  BY <1>1, <1>3 DEF WitnessIInv, OpenCount, SnapIsTrue
<1> QED BY <1>7, <1>8, <1>9, <1>10 DEF WitnessIInv

LEMMA OpenScopeStep ==
  ASSUME WitnessIInv, NEW t \in WThreads, NEW c \in Cookies, NEW kind \in WitnessKinds, OpenScope(t, c, kind)
  PROVE  WitnessIInv'
<1> DEFINE one == [cookie |-> c, kind |-> kind, ticket |-> 0, attempts |-> 0, ambiguous |-> FALSE, wait |-> 0,
                   since |-> Len(wJournal.ops), depth |-> Len(wFrames[t])]
           scopes == Append(wScopes[t], one)
<1>1. /\ UNCHANGED <<wRegistry, wCollector, wJournal, wCreate, wCalls, wFrames, wTick, wNative, wSnap>>
      /\ wScopes' = [wScopes EXCEPT ![t] = scopes]
  BY DEF OpenScope
<1>2. /\ wScopes \in [WThreads -> Seq(OpScopes)] /\ wFrames[t] \in Seq(NativeFrames)
      /\ wJournal.ops \in Seq(OpRecords)
  BY DEF WitnessIInv, WitnessTypes, JournalIsSound, SoundJournal, Journals
<1>3. one \in OpScopes /\ ScopeKnows(wJournal, t, one)
  <2> DEFINE a == Len(wJournal.ops)
             b == Len(wFrames[t])
  <2>1. a \in Nat /\ b \in Nat /\ DOMAIN wJournal.ops = 1..a /\ a <= a
    BY <1>2
  <2>2. one \in OpScopes
    <3> HIDE DEF a, b
    <3> QED BY <2>1 DEF OpScopes
  <2>3. RowsSince(wJournal, t, a) = {}
    BY <2>1 DEF RowsSince
  <2>4. one.since = a /\ one.wait = 0 /\ one.ticket = 0 /\ one.attempts = 0 /\ one.ambiguous = FALSE
    OBVIOUS
  <2> HIDE DEF one
  <2>5. ScopeKnows(wJournal, t, one)
    <3>1. 0 <= 1 /\ a <= Len(wJournal.ops)
      BY <2>1
    <3> HIDE DEF a
    <3> QED BY <2>3, <2>4, <3>1 DEF ScopeKnows
  <2> QED BY <2>2, <2>5
<1> HIDE DEF one
<1>4. /\ scopes \in Seq(OpScopes)
      /\ \A i \in DOMAIN scopes : scopes[i] = one \/ (i \in DOMAIN wScopes[t] /\ scopes[i] = wScopes[t][i])
  BY <1>2, <1>3
<1> HIDE DEF scopes
<1>5. wScopes' \in [WThreads -> Seq(OpScopes)]
  BY <1>1, <1>2, <1>4
<1>6. WitnessTypes'
  BY <1>1, <1>5 DEF WitnessIInv, WitnessTypes
<1>7. BeginsAreOfKind' /\ JournalIsSound' /\ TicketsAreRows' /\ OpenCount' /\ SnapIsTrue'
  BY <1>1 DEF WitnessIInv, BeginsAreOfKind, Asks, JournalIsSound, TicketsAreRows, OpenCount, SnapIsTrue
<1>8. ScopesKnow'
  <2>1. ASSUME NEW u \in WThreads, NEW i \in DOMAIN wScopes'[u] PROVE ScopeKnows(wJournal, u, wScopes'[u][i])
    <3>1. CASE u = t
      <4>1. wScopes'[u] = scopes
        BY <1>1, <1>2, <3>1
      <4> QED BY <1>3, <1>4, <2>1, <3>1, <4>1 DEF WitnessIInv, ScopesKnow
    <3>2. CASE u # t
      <4>1. wScopes'[u] = wScopes[u]
        BY <1>1, <1>2, <3>2
      <4> QED BY <2>1, <4>1 DEF WitnessIInv, ScopesKnow
    <3> QED BY <3>1, <3>2
  <2> QED BY <1>1, <2>1 DEF ScopesKnow
<1> QED BY <1>6, <1>7, <1>8 DEF WitnessIInv

LEMMA CloseScopeStep ==
  ASSUME WitnessIInv, NEW t \in WThreads, CloseScope(t)
  PROVE  WitnessIInv'
<1> DEFINE scopes == SubSeq(wScopes[t], 1, Len(wScopes[t]) - 1)
<1>1. /\ UNCHANGED <<wRegistry, wCollector, wJournal, wCreate, wCalls, wFrames, wTick, wNative, wSnap>>
      /\ wScopes' = [wScopes EXCEPT ![t] = scopes] /\ wScopes[t] # <<>>
  BY DEF CloseScope
<1>2. wScopes \in [WThreads -> Seq(OpScopes)]
  BY DEF WitnessIInv, WitnessTypes
<1>3. wScopes[t] \in Seq(OpScopes) /\ wScopes[t] # <<>>
  BY <1>1, <1>2
<1>4. /\ scopes \in Seq(OpScopes)
      /\ \A i \in DOMAIN scopes : i \in DOMAIN wScopes[t] /\ scopes[i] = wScopes[t][i]
  BY <1>3
<1> HIDE DEF scopes
<1>5. wScopes' \in [WThreads -> Seq(OpScopes)]
  BY <1>1, <1>2, <1>4
<1>6. WitnessTypes'
  BY <1>1, <1>5 DEF WitnessIInv, WitnessTypes
<1>7. BeginsAreOfKind' /\ JournalIsSound' /\ TicketsAreRows' /\ OpenCount' /\ SnapIsTrue'
  BY <1>1 DEF WitnessIInv, BeginsAreOfKind, Asks, JournalIsSound, TicketsAreRows, OpenCount, SnapIsTrue
<1>8. ScopesKnow'
  <2>1. ASSUME NEW u \in WThreads, NEW i \in DOMAIN wScopes'[u] PROVE ScopeKnows(wJournal, u, wScopes'[u][i])
    <3>1. CASE u = t
      <4>1. wScopes'[u] = scopes
        BY <1>1, <1>2, <3>1
      <4> QED BY <1>4, <2>1, <3>1, <4>1 DEF WitnessIInv, ScopesKnow
    <3>2. CASE u # t
      <4>1. wScopes'[u] = wScopes[u]
        BY <1>1, <1>2, <3>2
      <4> QED BY <2>1, <4>1 DEF WitnessIInv, ScopesKnow
    <3> QED BY <3>1, <3>2
  <2> QED BY <1>1, <2>1 DEF ScopesKnow
<1> QED BY <1>6, <1>7, <1>8 DEF WitnessIInv

LEMMA ReturnKeepsKinds ==
  ASSUME WitnessIInv, NEW t \in WThreads, CallReturns(t)
  PROVE  wCalls' \in [WThreads -> Seq(SdkCalls)] /\ BeginsAreOfKind'
<1>1. wCalls' = [wCalls EXCEPT ![t] = <<>>] /\ wCalls \in [WThreads -> Seq(SdkCalls)]
  BY DEF CallReturns, WitnessIInv, WitnessTypes
<1>2. wCalls' \in [WThreads -> Seq(SdkCalls)]
  BY <1>1
<1>3. \A u \in WThreads : wCalls'[u] = <<>> \/ wCalls'[u] = wCalls[u]
  BY <1>1
<1>4. BeginsAreOfKind'
  BY <1>3 DEF WitnessIInv, BeginsAreOfKind, Asks
<1> QED BY <1>2, <1>4

LEMMA OnCreateStep ==
  ASSUME WitnessIInv, NEW t \in WThreads, OnCreate(t)
  PROVE  WitnessIInv'
<1> DEFINE c == wCalls[t][1].cookie
           intent == wCreate[t] # <<>>
           again == wCollector.cookie # NoCookie /\ (c = wCollector.cookie \/ intent)
           rests == wCollector.frozen \/ (~again /\ ~intent)
           repeats == ~wCollector.frozen /\ again
<1>1. /\ Asks(t, "create") /\ CallReturns(t)
      /\ UNCHANGED <<wRegistry, wScopes, wFrames, wNative, wSnap>>
  BY DEF OnCreate
<1>2. wCalls' \in [WThreads -> Seq(SdkCalls)] /\ BeginsAreOfKind'
  BY <1>1, ReturnKeepsKinds
<1>3. /\ wCollector \in Collectors /\ wCreate \in [WThreads -> Seq(CreateScopes)]
      /\ wCalls[t] \in Seq(SdkCalls) /\ wJournal \in Journals
  BY DEF WitnessIInv, WitnessTypes, JournalIsSound, SoundJournal
<1>4. c \in Cookies
  <2>1. wCalls[t] # <<>>
    BY <1>1 DEF Asks
  <2>2. wCalls[t][1] \in SdkCalls
    BY <1>3, <2>1
  <2> QED BY <2>2 DEF SdkCalls
<1> DEFINE Created(q) == JCreate(Failed(q = 0, wJournal), c, q)
           isNew(q) == Len(Created(q).epochs) > Len(wJournal.epochs)
           scope(q) == <<[cookie |-> c, epoch |-> Len(Created(q).epochs)]>>
<1>5. PICK q \in Reads :
        /\ Read(q)
        /\ CASE rests -> q = wTick /\ UNCHANGED <<wCollector, wJournal, wCreate>>
             [] repeats ->
                  /\ c # wCollector.cookie => q = wTick
                  /\ wCollector' = [wCollector EXCEPT !.failed = TRUE, !.bound = FALSE]
                  /\ wJournal' = LET j == Failed(TRUE, wJournal)
                                 IN IF c = wCollector.cookie THEN JCreate(j, c, q) ELSE j
                  /\ UNCHANGED wCreate
             [] OTHER ->
                  LET j == JCreate(Failed(q = 0, wJournal), c, q)
                      new == Len(j.epochs) > Len(wJournal.epochs)
                  IN /\ wJournal' = Failed(~new, j)
                     /\ wCollector' = IF new THEN [wCollector EXCEPT !.cookie = c, !.epoch = Len(j.epochs),
                                                                     !.failed = @ \/ q = 0]
                                      ELSE [wCollector EXCEPT !.failed = TRUE]
                     /\ wCreate' = IF new THEN [wCreate EXCEPT ![t] = <<[cookie |-> c, epoch |-> Len(j.epochs)]>>]
                                   ELSE wCreate
  BY DEF OnCreate
<1>6. q \in Nat /\ wTick' \in Nat
  BY <1>5, ReadsAreTicks
<1>7. CASE rests
  <2>1. UNCHANGED <<wCollector, wJournal, wCreate>>
    <3>1. rests /\ ~repeats
      BY <1>7
    <3> HIDE DEF rests, repeats, c
    <3> QED BY <1>5, <3>1
  <2>2. WitnessTypes'
    BY <1>1, <1>2, <1>6, <2>1 DEF WitnessIInv, WitnessTypes
  <2> QED BY <1>1, <1>2, <2>1, <2>2, JournalStep
<1>8. CASE repeats
  <2>1. /\ wCollector' = [wCollector EXCEPT !.failed = TRUE, !.bound = FALSE]
        /\ wJournal' = IF c = wCollector.cookie THEN JCreate(Failed(TRUE, wJournal), c, q) ELSE Failed(TRUE, wJournal)
        /\ wCreate' = wCreate
    <3>1. repeats /\ ~rests
      BY <1>8
    <3> HIDE DEF rests, repeats, c
    <3> QED BY <1>5, <3>1
  <2>2. wCollector' \in Collectors /\ wCollector'.frozen = wCollector.frozen
    BY <1>3, <2>1 DEF Collectors
  <2>3. ~wCollector.frozen /\ OpenJournal(wJournal)
    BY <1>8, OpenBeforeTheCut
  <2> DEFINE k == Failed(TRUE, wJournal)
  <2>4. OpenJournal(k) /\ Quiet(wJournal, k)
    BY <2>3, FailedIsQuiet
  <2> HIDE DEF k, c
  <2>5. OpenJournal(JCreate(k, c, q)) /\ Quiet(k, JCreate(k, c, q))
    BY <1>4, <1>6, <2>4, CreateIsQuiet
  <2>6. Quiet(wJournal, JCreate(k, c, q))
    BY <2>4, <2>5, QuietTwice
  <2>7. OpenJournal(wJournal') /\ Quiet(wJournal, wJournal')
    BY <2>1, <2>4, <2>5, <2>6 DEF k
  <2>8. WitnessTypes'
    BY <1>1, <1>2, <1>6, <2>1, <2>2 DEF WitnessIInv, WitnessTypes
  <2> QED BY <1>1, <1>2, <2>2, <2>3, <2>7, <2>8, JournalStep
<1>9. CASE ~rests /\ ~repeats
  <2>1. /\ wJournal' = Failed(~isNew(q), Created(q))
        /\ wCollector' = IF isNew(q) THEN [wCollector EXCEPT !.cookie = c, !.epoch = Len(Created(q).epochs),
                                                             !.failed = @ \/ q = 0]
                         ELSE [wCollector EXCEPT !.failed = TRUE]
        /\ wCreate' = IF isNew(q) THEN [wCreate EXCEPT ![t] = scope(q)] ELSE wCreate
    <3> HIDE DEF rests, repeats, c
    <3> QED BY <1>5, <1>9
  <2>2. ~wCollector.frozen /\ OpenJournal(wJournal)
    BY <1>9, OpenBeforeTheCut
  <2> DEFINE k == Failed(q = 0, wJournal)
             m == Created(q)
             new == isNew(q)
  <2>3. OpenJournal(k) /\ Quiet(wJournal, k)
    BY <2>2, FailedIsQuiet
  <2>4. OpenJournal(m) /\ Quiet(k, m)
    <3> HIDE DEF k, c
    <3> QED BY <1>4, <1>6, <2>3, CreateIsQuiet DEF k
  <2>5. Quiet(wJournal, m)
    <3> HIDE DEF k, m
    <3> QED BY <2>3, <2>4, QuietTwice
  <2>6. m.epochs \in Seq(EpochRecords)
    <3> HIDE DEF m
    <3> QED BY <2>4 DEF OpenJournal, SoundJournal, Journals
  <2>7. Len(m.epochs) \in Nat
    <3> HIDE DEF m
    <3> QED BY <2>6
  <2>8. new \in BOOLEAN
    OBVIOUS
  <2> DEFINE len == Len(m.epochs)
             bad == wCollector.failed \/ q = 0
             one == [cookie |-> c, epoch |-> len]
  <2>9. /\ wJournal' = Failed(~new, m)
        /\ wCollector' = IF new THEN [wCollector EXCEPT !.cookie = c, !.epoch = len, !.failed = bad]
                         ELSE [wCollector EXCEPT !.failed = TRUE]
        /\ wCreate' = IF new THEN [wCreate EXCEPT ![t] = <<one>>] ELSE wCreate
    BY <2>1
  <2>10. len \in Nat /\ bad \in BOOLEAN
    BY <2>7
  <2> HIDE DEF len, bad, new, m, k, c, isNew, Created, scope
  <2>11. wCollector' \in Collectors /\ wCollector'.frozen = wCollector.frozen
    BY <1>3, <1>4, <2>9, <2>10 DEF Collectors
  <2>12. wCreate' \in [WThreads -> Seq(CreateScopes)]
    <3>1. one \in CreateScopes
      BY <1>4, <2>10 DEF CreateScopes
    <3> HIDE DEF one
    <3> QED BY <1>3, <2>9, <3>1
  <2>13. OpenJournal(wJournal') /\ Quiet(m, wJournal')
    BY <2>4, <2>8, <2>9, FailedIsQuiet
  <2>14. Quiet(wJournal, wJournal')
    BY <2>5, <2>13, QuietTwice
  <2>15. WitnessTypes'
    BY <1>1, <1>2, <1>6, <2>11, <2>12 DEF WitnessIInv, WitnessTypes
  <2> QED BY <1>1, <1>2, <2>2, <2>11, <2>13, <2>14, <2>15, JournalStep
<1> QED BY <1>7, <1>8, <1>9

LEMMA BindStep ==
  ASSUME WitnessIInv, NEW t \in WThreads, BindReturnedHandle(t)
  PROVE  WitnessIInv'
<1> DEFINE s == wCreate[t][1]
           good == s.cookie # NoCookie /\ s.cookie = wCollector.cookie /\ s.epoch = wCollector.epoch
                   /\ ~wCollector.bound
<1>1. /\ UNCHANGED <<wRegistry, wScopes, wCalls, wFrames, wTick, wNative, wSnap>>
      /\ wCreate' = [wCreate EXCEPT ![t] = <<>>]
      /\ IF wCollector.frozen THEN UNCHANGED <<wCollector, wJournal>>
         ELSE /\ wCollector' = [wCollector EXCEPT !.bound = good, !.failed = @ \/ ~good]
              /\ wJournal' = Failed(~good, wJournal)
  BY DEF BindReturnedHandle
<1>2. wCollector \in Collectors /\ wCreate \in [WThreads -> Seq(CreateScopes)]
  BY DEF WitnessIInv, WitnessTypes
<1>3. wCreate' \in [WThreads -> Seq(CreateScopes)]
  BY <1>1, <1>2
<1>4. BeginsAreOfKind'
  BY <1>1 DEF WitnessIInv, BeginsAreOfKind, Asks
<1>5. CASE wCollector.frozen
  <2>1. WitnessTypes'
    BY <1>1, <1>3, <1>5 DEF WitnessIInv, WitnessTypes
  <2> QED BY <1>1, <1>4, <1>5, <2>1, JournalStep
<1>6. CASE ~wCollector.frozen
  <2> DEFINE bad == wCollector.failed \/ ~good
  <2>1. good \in BOOLEAN /\ bad \in BOOLEAN
    OBVIOUS
  <2>2. wCollector' = [wCollector EXCEPT !.bound = good, !.failed = bad] /\ wJournal' = Failed(~good, wJournal)
    BY <1>1, <1>6
  <2> HIDE DEF good, bad
  <2>3. wCollector' \in Collectors /\ wCollector'.frozen = wCollector.frozen
    BY <1>2, <2>1, <2>2 DEF Collectors
  <2>4. OpenJournal(wJournal)
    BY <1>6, OpenBeforeTheCut
  <2>5. OpenJournal(wJournal') /\ Quiet(wJournal, wJournal')
    BY <2>1, <2>2, <2>4, FailedIsQuiet
  <2>6. WitnessTypes'
    BY <1>1, <1>3, <2>3 DEF WitnessIInv, WitnessTypes
  <2> QED BY <1>1, <1>4, <1>6, <2>3, <2>5, <2>6, JournalStep
<1> QED BY <1>5, <1>6

LEMMA OnDestroyStep ==
  ASSUME WitnessIInv, NEW t \in WThreads, OnDestroy(t)
  PROVE  WitnessIInv'
<1> DEFINE c == wCalls[t][1].cookie
<1>1. /\ Asks(t, "destroy") /\ CallReturns(t)
      /\ UNCHANGED <<wRegistry, wCreate, wScopes, wFrames, wNative, wSnap>>
      /\ IF ~Selected(c) THEN UNCHANGED <<wCollector, wJournal, wTick>>
         ELSE \E q \in Reads :
                /\ Read(q)
                /\ wJournal' = JDestroy(Failed(q = 0, wJournal), c, q)
                /\ wCollector' = [wCollector EXCEPT !.destroyed = TRUE, !.failed = @ \/ q = 0]
  BY DEF OnDestroy
<1>2. wCalls' \in [WThreads -> Seq(SdkCalls)] /\ BeginsAreOfKind'
  BY <1>1, ReturnKeepsKinds
<1>3. wCollector \in Collectors /\ wCalls[t] \in Seq(SdkCalls)
  BY DEF WitnessIInv, WitnessTypes
<1>4. c \in Cookies
  <2>1. wCalls[t] # <<>>
    BY <1>1 DEF Asks
  <2>2. wCalls[t][1] \in SdkCalls
    BY <1>3, <2>1
  <2> QED BY <2>2 DEF SdkCalls
<1> HIDE DEF c
<1>5. CASE ~Selected(c)
  <2>1. WitnessTypes'
    BY <1>1, <1>2, <1>5 DEF WitnessIInv, WitnessTypes
  <2> QED BY <1>1, <1>2, <1>5, <2>1, JournalStep
<1>6. CASE Selected(c)
  <2>1. PICK q \in Reads :
          /\ Read(q)
          /\ wJournal' = JDestroy(Failed(q = 0, wJournal), c, q)
          /\ wCollector' = [wCollector EXCEPT !.destroyed = TRUE, !.failed = @ \/ q = 0]
    BY <1>1, <1>6
  <2>2. q \in Nat /\ wTick' \in Nat
    BY <2>1, ReadsAreTicks
  <2>3. ~wCollector.frozen /\ OpenJournal(wJournal)
    BY <1>6, OpenBeforeTheCut DEF Selected
  <2> DEFINE bad == wCollector.failed \/ q = 0
             k == Failed(q = 0, wJournal)
  <2>4. bad \in BOOLEAN /\ wCollector' = [wCollector EXCEPT !.destroyed = TRUE, !.failed = bad]
    BY <2>1
  <2> HIDE DEF bad
  <2>5. wCollector' \in Collectors /\ wCollector'.frozen = wCollector.frozen
    BY <1>3, <2>4 DEF Collectors
  <2>6. OpenJournal(k) /\ Quiet(wJournal, k)
    BY <2>3, FailedIsQuiet
  <2>7. wJournal' = JDestroy(k, c, q)
    BY <2>1
  <2> HIDE DEF k
  <2>8. OpenJournal(wJournal') /\ Quiet(k, wJournal')
    BY <1>4, <2>2, <2>6, <2>7, DestroyIsQuiet
  <2>9. Quiet(wJournal, wJournal')
    BY <2>6, <2>8, QuietTwice
  <2>10. WitnessTypes'
    BY <1>1, <1>2, <2>2, <2>5 DEF WitnessIInv, WitnessTypes
  <2> QED BY <1>1, <1>2, <2>3, <2>5, <2>8, <2>9, <2>10, JournalStep
<1> QED BY <1>5, <1>6

\* A scope that an admission fits knew of no row before it.
LEMMA NoticedKnows ==
  ASSUME NEW j, NEW t, NEW s \in OpScopes, ScopeKnows(j, t, s), NEW c, NEW kind
  PROVE  /\ Noticed(s, c, kind) \in OpScopes
         /\ Noticed(s, c, kind).since = s.since /\ Noticed(s, c, kind).ticket = s.ticket
         /\ Noticed(s, c, kind).wait # 0 => Noticed(s, c, kind).wait = s.ticket
         /\ Noticed(s, c, kind).attempts # 0
         /\ ~Noticed(s, c, kind).ambiguous => /\ Noticed(s, c, kind).attempts <= 1 /\ s.ticket = 0
                                              /\ RowsSince(j, t, s.since) = {}
<1> DEFINE n == s.attempts + 1
           m == Noticed(s, c, kind)
<1>1. s.attempts \in Nat /\ n \in Nat /\ n # 0 /\ (n = 1 => s.attempts = 0 /\ n <= 1)
  BY DEF OpScopes
<1> DEFINE odd == n # 1 \/ s.cookie # c \/ s.kind # kind
<1>2. m = IF odd THEN [s EXCEPT !.attempts = n, !.ambiguous = TRUE, !.wait = 0] ELSE [s EXCEPT !.attempts = n]
  BY DEF Noticed
<1>3. odd \/ n = 1
  OBVIOUS
<1> HIDE DEF n, m, odd
<1>4. CASE odd
  <2>1. /\ m \in OpScopes /\ m.since = s.since /\ m.ticket = s.ticket /\ m.wait = 0 /\ m.attempts = n /\ m.ambiguous
    BY <1>1, <1>2, <1>4 DEF OpScopes
  <2> QED BY <1>1, <2>1 DEF m
<1>5. CASE ~odd
  <2>1. /\ m \in OpScopes /\ m.since = s.since /\ m.ticket = s.ticket /\ m.wait = s.wait /\ m.attempts = n
        /\ m.ambiguous = s.ambiguous
    BY <1>1, <1>2, <1>5 DEF OpScopes
  <2>2. s.attempts = 0 /\ n <= 1
    BY <1>1, <1>3, <1>5
  <2> QED BY <1>1, <2>1, <2>2 DEF m, ScopeKnows
<1> QED BY <1>4, <1>5

LEMMA NoticedAreScopes ==
  ASSUME WitnessIInv, NEW t \in WThreads, NEW c, NEW kind
  PROVE  /\ NoticedScopes(t, c, kind) \in Seq(OpScopes)
         /\ Len(NoticedScopes(t, c, kind)) = Len(wScopes[t])
         /\ DOMAIN NoticedScopes(t, c, kind) = 1..Len(wScopes[t])
         /\ \A i \in DOMAIN NoticedScopes(t, c, kind) :
              LET s == NoticedScopes(t, c, kind)[i]
              IN /\ s \in OpScopes /\ s.since <= Len(wJournal.ops)
                 /\ s.wait # 0 => s.wait = s.ticket
                 /\ s.attempts # 0
                 /\ ~s.ambiguous => s.attempts <= 1 /\ s.ticket = 0 /\ RowsSince(wJournal, t, s.since) = {}
<1> DEFINE ss == NoticedScopes(t, c, kind)
           n == Len(wScopes[t])
<1>1. wScopes[t] \in Seq(OpScopes)
  BY DEF WitnessIInv, WitnessTypes
<1>2. n \in Nat /\ DOMAIN wScopes[t] = 1..n /\ \A i \in 1..n : wScopes[t][i] \in OpScopes
  BY <1>1
<1>3. DOMAIN ss = 1..n /\ \A i \in 1..n : ss[i] = Noticed(wScopes[t][i], c, kind)
  BY <1>2 DEF NoticedScopes
<1>4. \A i \in 1..n : /\ ss[i] \in OpScopes /\ ss[i].since <= Len(wJournal.ops)
                      /\ ss[i].wait # 0 => ss[i].wait = ss[i].ticket
                      /\ ss[i].attempts # 0
                      /\ ~ss[i].ambiguous => /\ ss[i].attempts <= 1 /\ ss[i].ticket = 0
                                             /\ RowsSince(wJournal, t, ss[i].since) = {}
  <2> SUFFICES ASSUME NEW i \in 1..n
               PROVE  /\ ss[i] \in OpScopes /\ ss[i].since <= Len(wJournal.ops)
                      /\ ss[i].wait # 0 => ss[i].wait = ss[i].ticket
                      /\ ss[i].attempts # 0
                      /\ ~ss[i].ambiguous => /\ ss[i].attempts <= 1 /\ ss[i].ticket = 0
                                             /\ RowsSince(wJournal, t, ss[i].since) = {}
    OBVIOUS
  <2> DEFINE s == wScopes[t][i]
  <2>1. s \in OpScopes /\ ScopeKnows(wJournal, t, s)
    BY <1>2 DEF WitnessIInv, ScopesKnow
  <2>2. s.since <= Len(wJournal.ops)
    BY <2>1 DEF ScopeKnows
  <2> HIDE DEF s, ss
  <2>3. ss[i] = Noticed(s, c, kind)
    BY <1>3 DEF s
  <2> DEFINE m == Noticed(s, c, kind)
  <2>4. /\ m \in OpScopes /\ m.since = s.since /\ m.ticket = s.ticket
        /\ m.wait # 0 => m.wait = s.ticket
        /\ m.attempts # 0
        /\ ~m.ambiguous => m.attempts <= 1 /\ s.ticket = 0 /\ RowsSince(wJournal, t, s.since) = {}
    <3>1. s \in OpScopes /\ ScopeKnows(wJournal, t, s)
      BY <2>1
    <3>2. m \in OpScopes /\ m.since = s.since /\ m.ticket = s.ticket
      BY <3>1, NoticedKnows
    <3>3. (m.wait # 0 => m.wait = s.ticket) /\ m.attempts # 0
      BY <3>1, NoticedKnows
    <3>4. ~m.ambiguous => m.attempts <= 1 /\ s.ticket = 0
      BY <3>1, NoticedKnows
    <3>5. ~m.ambiguous => RowsSince(wJournal, t, s.since) = {}
      BY <3>1, NoticedKnows
    <3> QED BY <3>2, <3>3, <3>4, <3>5
  <2>5. ss[i] = m
    BY <2>3
  <2> HIDE DEF m
  <2> QED BY <2>2, <2>4, <2>5
<1>5. ss \in Seq(OpScopes) /\ Len(ss) = n
  <2>1. ss \in [1..n -> OpScopes]
    <3>1. ss = [i \in 1..n |-> ss[i]]
      BY <1>2 DEF NoticedScopes
    <3> HIDE DEF ss, n
    <3> QED BY <1>4, <3>1
  <2> HIDE DEF ss, n
  <2> QED BY <1>2, <2>1
<1> QED BY <1>2, <1>3, <1>4, <1>5

LEMMA OnBeginStep ==
  ASSUME WitnessIInv, NEW t \in WThreads, OnBegin(t)
  PROVE  WitnessIInv'
<1> DEFINE c == wCalls[t][1].cookie
           kind == wCalls[t][1].kind
           ss == NoticedScopes(t, c, kind)
           n == Len(ss)
           label == n > 0 /\ ss[n].cookie = c /\ ~ss[n].ambiguous /\ ss[n].attempts = 1 /\ ss[n].kind = kind
                    /\ wCollector.bound /\ ~wCollector.destroyed /\ Lookup(wJournal, c) = wCollector.epoch
                    /\ ss[n].ticket = 0
           id == Len(wJournal.ops) + 1
           lost == \E k \in DOMAIN ss : /\ ss[k].ambiguous /\ ss[k].ticket # 0
                                        /\ wJournal.ops[ss[k].ticket].kind = "update"
           elsewhere == wCollector.frozen \/ c # wCollector.cookie
           stored == Stores(wJournal, c)
           named == IF kind = "update" /\ ~label THEN "release" ELSE kind
           unstored == [cookie |-> c, kind |-> kind, ticket |-> 0]
           frame == [cookie |-> c, kind |-> kind, ticket |-> IF stored THEN id ELSE 0]
           after == [ss EXCEPT ![n].ticket = IF stored /\ @ = 0 THEN id ELSE @,
                               ![n].ambiguous = @ \/ (~label /\ ss[n].ticket # 0)]
           scopes == IF n = 0 THEN ss ELSE after
           count == IF Selected(c) THEN wNative + 1 ELSE wNative
<1>1. /\ Asks(t, "begin") /\ CallReturns(t)
      /\ UNCHANGED <<wRegistry, wCreate, wSnap>> /\ wNative' = count
  BY DEF OnBegin
<1>2. PICK q \in Reads :
        /\ Read(q)
        /\ elsewhere =>
             /\ wCollector' = [wCollector EXCEPT !.failed = @ \/ (lost /\ ~wCollector.frozen)]
             /\ wJournal' = Failed(lost, wJournal)
             /\ wScopes' = IF wCollector.frozen THEN wScopes ELSE [wScopes EXCEPT ![t] = ss]
             /\ wFrames' = [wFrames EXCEPT ![t] = Append(@, unstored)]
        /\ ~elsewhere =>
             /\ wJournal' = JBegin(Failed(q = 0 \/ lost, wJournal), c, t, q, named)
             /\ wCollector' = [wCollector EXCEPT !.failed = @ \/ q = 0 \/ lost]
             /\ wScopes' = [wScopes EXCEPT ![t] = scopes]
             /\ wFrames' = [wFrames EXCEPT ![t] = Append(@, frame)]
  <2>1. PICK q \in Reads :
          /\ Read(q)
          /\ CASE elsewhere ->
                    /\ q = wTick
                    /\ wCollector' = [wCollector EXCEPT !.failed = @ \/ (lost /\ ~wCollector.frozen)]
                    /\ wJournal' = Failed(lost, wJournal)
                    /\ wScopes' = IF wCollector.frozen THEN wScopes ELSE [wScopes EXCEPT ![t] = ss]
                    /\ wLabels' = IF wCollector.frozen THEN wLabels ELSE Unlabelled(ss)
                    /\ wFrames' = [wFrames EXCEPT ![t] = Append(@, unstored)]
               [] OTHER ->
                    /\ wJournal' = JBegin(Failed(q = 0 \/ lost, wJournal), c, t, q, named)
                    /\ wCollector' = [wCollector EXCEPT !.failed = @ \/ q = 0 \/ lost]
                    /\ wLabels' = IF stored THEN Append(Unlabelled(ss), label) ELSE Unlabelled(ss)
                    /\ wScopes' = [wScopes EXCEPT ![t] = scopes]
                    /\ wFrames' = [wFrames EXCEPT ![t] = Append(@, frame)]
    BY DEF OnBegin
  <2> HIDE DEF elsewhere, lost, stored, ss, label, unstored, frame, scopes, named, c
  <2> QED BY <2>1
<1>3. wCalls' \in [WThreads -> Seq(SdkCalls)] /\ BeginsAreOfKind'
  BY <1>1, ReturnKeepsKinds
<1>4. /\ wCollector \in Collectors /\ wCalls[t] \in Seq(SdkCalls)
      /\ wScopes \in [WThreads -> Seq(OpScopes)] /\ wFrames \in [WThreads -> Seq(NativeFrames)]
      /\ wNative \in Nat
  BY DEF WitnessIInv, WitnessTypes
<1>5. c \in Cookies /\ kind \in WitnessKinds
  <2>1. wCalls[t] # <<>>
    BY <1>1 DEF Asks
  <2>2. wCalls[t][1] \in SdkCalls
    BY <1>4, <2>1
  <2>3. wCalls[t][1].kind \in WitnessKinds
    BY <1>1 DEF WitnessIInv, BeginsAreOfKind
  <2> QED BY <2>2, <2>3 DEF SdkCalls
<1>6. q \in Nat /\ wTick' \in Nat
  BY <1>2, ReadsAreTicks
<1>7. count \in Nat /\ (Selected(c) => count = wNative + 1) /\ (~Selected(c) => count = wNative)
  BY <1>4
<1>8. /\ ss \in Seq(OpScopes) /\ DOMAIN ss = 1..n /\ n \in Nat
      /\ \A i \in DOMAIN ss :
           /\ ss[i] \in OpScopes /\ ss[i].since <= Len(wJournal.ops)
           /\ ss[i].wait # 0 => ss[i].wait = ss[i].ticket
           /\ ss[i].attempts # 0
           /\ ~ss[i].ambiguous => /\ ss[i].attempts <= 1 /\ ss[i].ticket = 0
                                  /\ RowsSince(wJournal, t, ss[i].since) = {}
  <2> HIDE DEF c, kind
  <2>1. ss \in Seq(OpScopes)
    BY NoticedAreScopes
  <2>2. \A i \in DOMAIN ss :
          /\ ss[i] \in OpScopes /\ ss[i].since <= Len(wJournal.ops)
          /\ ss[i].wait # 0 => ss[i].wait = ss[i].ticket
          /\ ss[i].attempts # 0
          /\ ~ss[i].ambiguous => /\ ss[i].attempts <= 1 /\ ss[i].ticket = 0
                                 /\ RowsSince(wJournal, t, ss[i].since) = {}
    BY NoticedAreScopes
  <2> HIDE DEF ss
  <2>3. DOMAIN ss = 1..n /\ n \in Nat
    BY <2>1
  <2> HIDE DEF n
  <2> QED BY <2>1, <2>2, <2>3
<1>9. lost \in BOOLEAN /\ label \in BOOLEAN /\ stored \in BOOLEAN
  BY DEF Stores
<1>10. id \in Nat /\ id # 0 /\ id = Len(wJournal.ops) + 1
  <2>1. wJournal.ops \in Seq(OpRecords)
    BY DEF WitnessIInv, JournalIsSound, SoundJournal, Journals
  <2> QED BY <2>1
<1> HIDE DEF lost, label, ss, count, c, kind, stored, id
<1>11. CASE elsewhere
  <2> DEFINE bad == wCollector.failed \/ (lost /\ ~wCollector.frozen)
  <2>1. /\ wCollector' = [wCollector EXCEPT !.failed = bad] /\ bad \in BOOLEAN
        /\ wJournal' = Failed(lost, wJournal)
        /\ wScopes' = IF wCollector.frozen THEN wScopes ELSE [wScopes EXCEPT ![t] = ss]
        /\ wFrames' = [wFrames EXCEPT ![t] = Append(@, unstored)]
    BY <1>2, <1>11
  <2> HIDE DEF bad
  <2>2. wCollector' \in Collectors /\ wCollector'.frozen = wCollector.frozen
    BY <1>4, <2>1 DEF Collectors
  <2>3. count = wNative
    BY <1>7, <1>11 DEF Selected
  <2>4. \/ wCollector.frozen /\ wJournal' = wJournal
        \/ ~wCollector.frozen /\ OpenJournal(wJournal') /\ Quiet(wJournal, wJournal')
    <3>1. CASE wCollector.frozen
      BY <2>1, <3>1 DEF Failed
    <3>2. CASE ~wCollector.frozen
      BY <1>9, <2>1, <3>2, OpenBeforeTheCut, FailedIsQuiet
    <3> QED BY <3>1, <3>2
  <2>5. JournalIsSound'
    BY <2>2, <2>4 DEF WitnessIInv, JournalIsSound, OpenJournal
  <2>6. SameRows(wJournal, wJournal') /\ wJournal'.observed = wJournal.observed
    BY <2>4 DEF Quiet, SameRows
  <2>7. wScopes' \in [WThreads -> Seq(OpScopes)]
    BY <1>4, <1>8, <2>1
  <2>8. unstored \in NativeFrames /\ unstored.ticket = 0
    BY <1>5 DEF NativeFrames
  <2> HIDE DEF unstored
  <2>9. wFrames' \in [WThreads -> Seq(NativeFrames)]
    BY <1>4, <2>1, <2>8
  <2>10. WitnessTypes'
    BY <1>1, <1>3, <1>6, <1>7, <2>2, <2>7, <2>9 DEF WitnessIInv, WitnessTypes
  <2>11. TicketsAreRows'
    <3>1. ASSUME NEW u \in WThreads, NEW i \in DOMAIN wFrames'[u], wFrames'[u][i].ticket # 0
          PROVE  wFrames'[u][i].ticket \in DOMAIN wJournal.ops
      <4>1. CASE u = t
        <5>1. wFrames'[t] = Append(wFrames[t], unstored) /\ wFrames[t] \in Seq(NativeFrames)
          BY <1>4, <2>1
        <5>2. wFrames'[t][i] = unstored \/ (i \in DOMAIN wFrames[t] /\ wFrames'[t][i] = wFrames[t][i])
          BY <2>8, <3>1, <4>1, <5>1
        <5> QED BY <2>8, <3>1, <4>1, <5>2 DEF WitnessIInv, TicketsAreRows
      <4>2. CASE u # t
        <5>1. wFrames'[u] = wFrames[u]
          BY <1>4, <2>1, <4>2
        <5> QED BY <3>1, <5>1 DEF WitnessIInv, TicketsAreRows
      <4> QED BY <4>1, <4>2
    <3> QED BY <2>6, <3>1 DEF TicketsAreRows, SameRows
  <2>12. ScopesKnow'
    <3>1. ASSUME NEW u \in WThreads, NEW i \in DOMAIN wScopes'[u] PROVE ScopeKnows(wJournal, u, wScopes'[u][i])
      <4>1. CASE u = t /\ ~wCollector.frozen
        <5>1. wScopes'[u] = ss
          BY <1>4, <2>1, <4>1
        <5>2. i \in DOMAIN ss
          BY <3>1, <5>1
        <5> QED BY <1>8, <4>1, <5>1, <5>2 DEF ScopeKnows
      <4>2. CASE u # t \/ wCollector.frozen
        <5>1. wScopes'[u] = wScopes[u]
          BY <1>4, <2>1, <4>2
        <5> QED BY <3>1, <5>1 DEF WitnessIInv, ScopesKnow
      <4> QED BY <4>1, <4>2
    <3> QED BY <2>6, <3>1, KnowsStays DEF ScopesKnow
  <2>13. OpenCount'
    BY <1>1, <2>2, <2>3, <2>6 DEF WitnessIInv, OpenCount, SameRows
  <2>14. SnapIsTrue'
    BY <1>1, <2>2, <2>3, <2>4 DEF WitnessIInv, SnapIsTrue
  <2> QED BY <1>3, <2>5, <2>10, <2>11, <2>12, <2>13, <2>14 DEF WitnessIInv
<1>12. CASE ~elsewhere
  <2> DEFINE bad == wCollector.failed \/ q = 0 \/ lost
             k == Failed(q = 0 \/ lost, wJournal)
  <2>1. /\ wCollector' = [wCollector EXCEPT !.failed = bad] /\ bad \in BOOLEAN
        /\ wJournal' = JBegin(k, c, t, q, named)
        /\ wScopes' = [wScopes EXCEPT ![t] = scopes]
        /\ wFrames' = [wFrames EXCEPT ![t] = Append(@, frame)]
    BY <1>2, <1>12
  <2> HIDE DEF bad
  <2>2. wCollector' \in Collectors /\ wCollector'.frozen = wCollector.frozen /\ ~wCollector.frozen
    BY <1>4, <1>12, <2>1 DEF Collectors
  <2>3. Selected(c) /\ count = wNative + 1
    BY <1>7, <1>12 DEF Selected
  <2>4. OpenJournal(wJournal)
    BY <2>2, OpenBeforeTheCut
  <2>5. OpenJournal(k) /\ Quiet(wJournal, k) /\ k.ops = wJournal.ops /\ k.epochs = wJournal.epochs
    <3>1. (q = 0 \/ lost) \in BOOLEAN
      OBVIOUS
    <3> QED BY <2>4, <3>1, FailedIsQuiet
  <2>6. named \in {"update", "wait", "release"}
    BY <1>5 DEF WitnessKinds
  <2> HIDE DEF k, named
  <2>7. OpenJournal(wJournal') /\ BeginsRow(k, wJournal', c, t)
    BY <1>5, <1>6, <2>1, <2>5, <2>6, BeginCounts
  <2>8. Stores(k, c) <=> stored
    BY <2>5 DEF Stores, Lookup, stored
  <2>9. /\ stored => /\ Len(wJournal'.ops) = id /\ DOMAIN wJournal'.ops = DOMAIN wJournal.ops \cup {id}
                     /\ \A i \in DOMAIN wJournal.ops : wJournal'.ops[i].thread = wJournal.ops[i].thread
                     /\ wJournal'.ops[id].thread = t
        /\ ~stored => /\ DOMAIN wJournal'.ops = DOMAIN wJournal.ops /\ Len(wJournal'.ops) = Len(wJournal.ops)
                      /\ \A i \in DOMAIN wJournal.ops : wJournal'.ops[i].thread = wJournal.ops[i].thread
        /\ wJournal.fault => wJournal'.fault
        /\ wJournal'.fault \/ wJournal'.observed = wJournal.observed + 1
    BY <1>10, <2>5, <2>7, <2>8 DEF BeginsRow, Quiet, SameRows
  <2>10. JournalIsSound'
    BY <2>2, <2>7 DEF JournalIsSound, OpenJournal
  <2>11. OpenCount' /\ SnapIsTrue'
    <3>1. wNative' = wNative + 1 /\ wCollector'.frozen = wCollector.frozen /\ ~wCollector.frozen
          /\ wSnap' = wSnap /\ wRegistry' = wRegistry
      BY <1>1, <2>2, <2>3
    <3> QED BY <2>9, <3>1 DEF WitnessIInv, OpenCount, SnapIsTrue
  <2>12. frame \in NativeFrames /\ (frame.ticket # 0 => stored /\ frame.ticket = id)
    BY <1>5, <1>10 DEF NativeFrames
  <2>13. scopes \in Seq(OpScopes) /\ DOMAIN scopes = DOMAIN ss /\ \A i \in DOMAIN ss :
           /\ scopes[i].since = ss[i].since /\ scopes[i].attempts = ss[i].attempts
           /\ scopes[i].wait # 0 => scopes[i].wait = scopes[i].ticket
           /\ ~scopes[i].ambiguous => ~ss[i].ambiguous
           /\ ~scopes[i].ambiguous => scopes[i].ticket = 0 \/ (stored /\ scopes[i].ticket = id)
    <3>1. CASE n = 0
      BY <1>8, <3>1
    <3>2. CASE n # 0
      <4> DEFINE s == ss[n]
                 k1 == IF stored /\ s.ticket = 0 THEN id ELSE s.ticket
                 a1 == s.ambiguous \/ (~label /\ s.ticket # 0)
                 s1 == [s EXCEPT !.ticket = k1, !.ambiguous = a1]
      <4>1. n \in DOMAIN ss /\ s \in OpScopes
        BY <1>8, <3>2
      <4>2. k1 \in Nat /\ a1 \in BOOLEAN /\ (~a1 => ~s.ambiguous)
        <5>1. s.ticket \in Nat
          BY <4>1 DEF OpScopes
        <5> QED BY <1>10, <5>1
      <4>3. scopes = [ss EXCEPT ![n] = s1]
        <5> DEFINE x == [ss EXCEPT ![n].ticket = k1]
        <5>1. x = [ss EXCEPT ![n] = [s EXCEPT !.ticket = k1]]
          OBVIOUS
        <5>2. x[n] = [s EXCEPT !.ticket = k1] /\ x[n].ambiguous = s.ambiguous
          BY <1>8, <4>1, <5>1 DEF OpScopes
        <5>3. scopes = [x EXCEPT ![n].ambiguous = a1]
          <6> HIDE DEF n, s
          <6>1. scopes = after
            BY <3>2
          <6> QED BY <1>8, <4>1, <5>2, <6>1 DEF s
        <5> HIDE DEF x, k1, a1, s, scopes
        <5> QED BY <1>8, <4>1, <5>1, <5>2, <5>3
      <4> HIDE DEF k1, a1
      <4>4. s1 \in OpScopes /\ s1.since = s.since /\ s1.attempts = s.attempts /\ s1.wait = s.wait
            /\ s1.ticket = k1 /\ s1.ambiguous = a1
        BY <4>1, <4>2 DEF OpScopes
      <4>5. /\ s.wait # 0 => s.wait = s.ticket
            /\ ~s.ambiguous => s.ticket = 0
        BY <1>8, <4>1
      <4>6. /\ s1.wait # 0 => s1.wait = s1.ticket
            /\ ~s1.ambiguous => s1.ticket = 0 \/ (stored /\ s1.ticket = id)
        BY <4>2, <4>4, <4>5 DEF k1
      <4>7. scopes \in Seq(OpScopes) /\ DOMAIN scopes = DOMAIN ss /\ scopes[n] = s1
            /\ \A i \in DOMAIN ss : i # n => scopes[i] = ss[i]
        <5> HIDE DEF scopes, s1
        <5> QED BY <1>8, <4>1, <4>3, <4>4
      <4> HIDE DEF scopes, s1
      <4> QED BY <1>8, <4>2, <4>4, <4>6, <4>7
    <3> QED BY <3>1, <3>2
  <2> HIDE DEF frame, scopes
  <2>14. wFrames' \in [WThreads -> Seq(NativeFrames)] /\ wScopes' \in [WThreads -> Seq(OpScopes)]
    BY <1>4, <2>1, <2>12, <2>13
  <2>15. WitnessTypes'
    BY <1>1, <1>3, <1>6, <1>7, <2>2, <2>14 DEF WitnessIInv, WitnessTypes
  <2>16. TicketsAreRows'
    <3>1. ASSUME NEW u \in WThreads, NEW i \in DOMAIN wFrames'[u], wFrames'[u][i].ticket # 0
          PROVE  wFrames'[u][i].ticket \in DOMAIN wJournal'.ops
      <4>1. \A d \in DOMAIN wJournal.ops : d \in DOMAIN wJournal'.ops
        BY <1>9, <2>9
      <4>2. CASE u = t
        <5>1. wFrames'[t] = Append(wFrames[t], frame) /\ wFrames[t] \in Seq(NativeFrames)
          BY <1>4, <2>1
        <5>2. wFrames'[t][i] = frame \/ (i \in DOMAIN wFrames[t] /\ wFrames'[t][i] = wFrames[t][i])
          BY <2>12, <3>1, <4>2, <5>1
        <5>3. CASE wFrames'[t][i] = frame
          BY <2>9, <2>12, <3>1, <4>2, <5>3
        <5>4. CASE i \in DOMAIN wFrames[t] /\ wFrames'[t][i] = wFrames[t][i]
          BY <3>1, <4>1, <4>2, <5>4 DEF WitnessIInv, TicketsAreRows
        <5> QED BY <5>2, <5>3, <5>4
      <4>3. CASE u # t
        <5>1. wFrames'[u] = wFrames[u]
          BY <1>4, <2>1, <4>3
        <5> QED BY <3>1, <4>1, <5>1 DEF WitnessIInv, TicketsAreRows
      <4> QED BY <4>2, <4>3
    <3> QED BY <3>1 DEF TicketsAreRows
  <2>17. Len(wJournal.ops) \in Nat /\ DOMAIN wJournal.ops = 1..Len(wJournal.ops)
    <3>1. wJournal.ops \in Seq(OpRecords)
      BY DEF WitnessIInv, JournalIsSound, SoundJournal, Journals
    <3> QED BY <3>1
  <2>18. ASSUME NEW m \in Nat, m <= Len(wJournal.ops)
         PROVE  /\ m <= Len(wJournal'.ops)
                /\ \A u : u # t \/ ~stored => RowsSince(wJournal', u, m) = RowsSince(wJournal, u, m)
                /\ stored => RowsSince(wJournal', t, m) = RowsSince(wJournal, t, m) \cup {id}
    <3>1. id > m /\ id \notin DOMAIN wJournal.ops /\ m <= id
      BY <1>10, <2>17, <2>18
    <3>2. CASE stored
      BY <2>9, <3>1, <3>2 DEF RowsSince
    <3>3. CASE ~stored
      BY <2>9, <2>18, <3>3 DEF RowsSince
    <3> QED BY <3>2, <3>3
  <2>19. ScopesKnow'
    <3>1. ASSUME NEW u \in WThreads, NEW i \in DOMAIN wScopes'[u] PROVE ScopeKnows(wJournal', u, wScopes'[u][i])
      <4>1. CASE u = t
        <5>1. wScopes'[u] = scopes
          BY <1>4, <2>1, <4>1
        <5>2. i \in DOMAIN ss
          BY <2>13, <3>1, <5>1
        <5> DEFINE s == scopes[i]
                   s0 == ss[i]
        <5>3. /\ s.since = s0.since /\ s.attempts = s0.attempts
              /\ s.wait # 0 => s.wait = s.ticket
              /\ ~s.ambiguous => ~s0.ambiguous
              /\ ~s.ambiguous => s.ticket = 0 \/ (stored /\ s.ticket = id)
          BY <2>13, <5>2
        <5>4. /\ s0 \in OpScopes /\ s0.since <= Len(wJournal.ops) /\ s0.attempts # 0
              /\ ~s0.ambiguous => s0.attempts <= 1 /\ RowsSince(wJournal, t, s0.since) = {}
          BY <1>8, <5>2
        <5> HIDE DEF s, s0
        <5>5. s0.since \in Nat
          BY <5>4 DEF OpScopes
        <5>6. /\ s0.since <= Len(wJournal'.ops)
              /\ stored => RowsSince(wJournal', t, s0.since) = RowsSince(wJournal, t, s0.since) \cup {id}
          BY <2>18, <5>4, <5>5
        <5>7. ScopeKnows(wJournal', t, s)
          BY <5>3, <5>4, <5>6 DEF ScopeKnows
        <5> QED BY <4>1, <5>1, <5>7 DEF s
      <4>2. CASE u # t
        <5>1. wScopes'[u] = wScopes[u] /\ wScopes[u] \in Seq(OpScopes)
          BY <1>4, <2>1, <4>2
        <5> DEFINE s == wScopes[u][i]
        <5>2. s \in OpScopes /\ ScopeKnows(wJournal, u, s)
          BY <3>1, <5>1 DEF WitnessIInv, ScopesKnow
        <5> HIDE DEF s
        <5>3. s.since \in Nat /\ s.since <= Len(wJournal.ops)
          BY <5>2 DEF OpScopes, ScopeKnows
        <5>4. s.since <= Len(wJournal'.ops) /\ RowsSince(wJournal', u, s.since) = RowsSince(wJournal, u, s.since)
          BY <2>18, <4>2, <5>3
        <5>5. ScopeKnows(wJournal', u, s)
          BY <5>2, <5>4 DEF ScopeKnows
        <5> QED BY <5>1, <5>5 DEF s
      <4> QED BY <4>1, <4>2
    <3> QED BY <3>1 DEF ScopesKnow
  <2> QED BY <1>3, <2>10, <2>11, <2>15, <2>16, <2>19 DEF WitnessIInv
<1> QED BY <1>11, <1>12

LEMMA OnEndStep ==
  ASSUME WitnessIInv, NEW t \in WThreads, OnEnd(t)
  PROVE  WitnessIInv'
<1> DEFINE f == wFrames[t][Len(wFrames[t])]
           n == Len(wScopes[t])
           frames == SubSeq(wFrames[t], 1, Len(wFrames[t]) - 1)
           silent == f.ticket = 0 \/ ~Ends
           offers == f.kind = "wait" /\ n > 0 /\ wScopes[t][n].ticket = f.ticket /\ ~wScopes[t][n].ambiguous
           offered == [wScopes EXCEPT ![t] = [@ EXCEPT ![n].wait = f.ticket]]
<1>1. /\ UNCHANGED <<wRegistry, wCreate, wCalls, wNative, wSnap>>
      /\ wFrames[t] # <<>> /\ wFrames' = [wFrames EXCEPT ![t] = frames]
      /\ IF silent THEN UNCHANGED <<wCollector, wJournal, wScopes, wTick>>
         ELSE \E q \in Reads :
                /\ Read(q)
                /\ wJournal' = JEnd(Failed(q = 0, wJournal), f.ticket, q)
                /\ wCollector' = [wCollector EXCEPT !.failed = @ \/ q = 0]
                /\ wScopes' = IF offers THEN offered ELSE wScopes
  BY DEF OnEnd
<1>2. /\ wFrames \in [WThreads -> Seq(NativeFrames)] /\ wScopes \in [WThreads -> Seq(OpScopes)]
      /\ wCollector \in Collectors
  BY DEF WitnessIInv, WitnessTypes
<1>3. /\ wFrames[t] \in Seq(NativeFrames) /\ wFrames[t] # <<>> /\ wScopes[t] \in Seq(OpScopes)
  BY <1>1, <1>2
<1>4. /\ frames \in Seq(NativeFrames)
      /\ \A i \in DOMAIN frames : i \in DOMAIN wFrames[t] /\ frames[i] = wFrames[t][i]
  BY <1>3
<1>5. f \in NativeFrames /\ f.ticket \in Nat /\ (f.ticket # 0 => f.ticket \in DOMAIN wJournal.ops)
  <2>1. Len(wFrames[t]) \in DOMAIN wFrames[t] /\ f \in NativeFrames
    BY <1>3
  <2>2. f.ticket # 0 => f.ticket \in DOMAIN wJournal.ops
    BY <2>1 DEF WitnessIInv, TicketsAreRows
  <2>3. f.ticket \in Nat
    BY <2>1 DEF NativeFrames
  <2> QED BY <2>1, <2>2, <2>3
<1> HIDE DEF frames, f
<1>6. wFrames' \in [WThreads -> Seq(NativeFrames)]
  BY <1>1, <1>2, <1>4
<1>7. \A u \in WThreads : \A i \in DOMAIN wFrames'[u] : i \in DOMAIN wFrames[u] /\ wFrames'[u][i] = wFrames[u][i]
  <2> SUFFICES ASSUME NEW u \in WThreads
               PROVE  \A i \in DOMAIN wFrames'[u] : i \in DOMAIN wFrames[u] /\ wFrames'[u][i] = wFrames[u][i]
    OBVIOUS
  <2>1. wFrames'[u] = IF u = t THEN frames ELSE wFrames[u]
    BY <1>1, <1>2
  <2> QED BY <1>4, <2>1
<1>8. BeginsAreOfKind'
  BY <1>1 DEF WitnessIInv, BeginsAreOfKind, Asks
<1>9. CASE silent
  <2>1. UNCHANGED <<wCollector, wJournal, wScopes, wTick>>
    BY <1>1, <1>9
  <2>2. WitnessTypes'
    BY <1>1, <1>6, <2>1 DEF WitnessIInv, WitnessTypes
  <2>3. TicketsAreRows'
    BY <1>7, <2>1 DEF WitnessIInv, TicketsAreRows
  <2>4. JournalIsSound' /\ ScopesKnow' /\ OpenCount' /\ SnapIsTrue'
    BY <1>1, <2>1 DEF WitnessIInv, JournalIsSound, ScopesKnow, OpenCount, SnapIsTrue
  <2> QED BY <1>8, <2>2, <2>3, <2>4 DEF WitnessIInv
<1>10. CASE ~silent
  <2>1. PICK q \in Reads :
          /\ Read(q)
          /\ wJournal' = JEnd(Failed(q = 0, wJournal), f.ticket, q)
          /\ wCollector' = [wCollector EXCEPT !.failed = @ \/ q = 0]
          /\ wScopes' = IF offers THEN offered ELSE wScopes
    <3> HIDE DEF offers, offered
    <3> QED BY <1>1, <1>10
  <2>2. q \in Nat /\ wTick' \in Nat
    BY <2>1, ReadsAreTicks
  <2>3. ~wCollector.frozen /\ f.ticket # 0 /\ f.ticket \in DOMAIN wJournal.ops
    BY <1>5, <1>10 DEF Ends
  <2>4. OpenJournal(wJournal)
    BY <2>3, OpenBeforeTheCut
  <2> DEFINE bad == wCollector.failed \/ q = 0
             k == Failed(q = 0, wJournal)
  <2>5. bad \in BOOLEAN /\ wCollector' = [wCollector EXCEPT !.failed = bad]
    BY <2>1
  <2> HIDE DEF bad
  <2>6. wCollector' \in Collectors /\ wCollector'.frozen = wCollector.frozen
    BY <1>2, <2>5 DEF Collectors
  <2>7. OpenJournal(k) /\ Quiet(wJournal, k) /\ k.ops = wJournal.ops
    BY <2>4, FailedIsQuiet
  <2>8. wJournal' = JEnd(k, f.ticket, q)
    BY <2>1
  <2> HIDE DEF k
  <2>9. OpenJournal(wJournal') /\ Quiet(k, wJournal')
    BY <2>2, <2>3, <2>7, <2>8, EndIsQuiet
  <2>10. Quiet(wJournal, wJournal')
    BY <2>7, <2>9, QuietTwice
  <2>11. SameRows(wJournal, wJournal') /\ wJournal'.observed = wJournal.observed
    BY <2>10 DEF Quiet
  <2>12. /\ wScopes' \in [WThreads -> Seq(OpScopes)]
         /\ \A u \in WThreads : \A i \in DOMAIN wScopes'[u] :
              /\ i \in DOMAIN wScopes[u]
              /\ wScopes'[u][i].since = wScopes[u][i].since /\ wScopes'[u][i].ticket = wScopes[u][i].ticket
              /\ wScopes'[u][i].attempts = wScopes[u][i].attempts
              /\ wScopes'[u][i].ambiguous = wScopes[u][i].ambiguous
              /\ wScopes'[u][i].wait = wScopes[u][i].wait \/ wScopes'[u][i].wait = wScopes[u][i].ticket
    <3>1. CASE ~offers
      BY <1>2, <2>1, <3>1
    <3>2. CASE offers
      <4> DEFINE s == wScopes[t][n]
                 s1 == [s EXCEPT !.wait = f.ticket]
                 ss == [wScopes[t] EXCEPT ![n] = s1]
      <4>1. n \in DOMAIN wScopes[t] /\ s \in OpScopes /\ s.ticket = f.ticket
        BY <1>3, <3>2
      <4>2. wScopes' = [wScopes EXCEPT ![t] = ss]
        <5>1. wScopes' = offered
          BY <2>1, <3>2
        <5> QED BY <1>2, <5>1
      <4> HIDE DEF s, n
      <4>3. /\ s1 \in OpScopes /\ s1.since = s.since /\ s1.ticket = s.ticket /\ s1.attempts = s.attempts
            /\ s1.ambiguous = s.ambiguous /\ s1.wait = s.ticket
        BY <1>5, <4>1 DEF OpScopes
      <4> HIDE DEF s1
      <4>4. /\ ss \in Seq(OpScopes) /\ DOMAIN ss = DOMAIN wScopes[t] /\ ss[n] = s1
            /\ \A i \in DOMAIN ss : i # n => ss[i] = wScopes[t][i]
        BY <1>3, <4>1, <4>3
      <4> HIDE DEF ss
      <4>5. \A i \in DOMAIN ss :
              /\ i \in DOMAIN wScopes[t]
              /\ ss[i].since = wScopes[t][i].since /\ ss[i].ticket = wScopes[t][i].ticket
              /\ ss[i].attempts = wScopes[t][i].attempts
              /\ ss[i].ambiguous = wScopes[t][i].ambiguous
              /\ ss[i].wait = wScopes[t][i].wait \/ ss[i].wait = wScopes[t][i].ticket
        BY <4>3, <4>4 DEF s
      <4>6. \A u \in WThreads : wScopes'[u] = IF u = t THEN ss ELSE wScopes[u]
        BY <1>2, <4>2
      <4>7. wScopes' \in [WThreads -> Seq(OpScopes)]
        BY <1>2, <4>2, <4>4
      <4> QED BY <4>5, <4>6, <4>7
    <3> QED BY <3>1, <3>2
  <2>13. WitnessTypes'
    BY <1>1, <1>6, <2>2, <2>6, <2>12 DEF WitnessIInv, WitnessTypes
  <2>14. JournalIsSound'
    BY <2>3, <2>6, <2>9 DEF JournalIsSound, OpenJournal
  <2>15. TicketsAreRows'
    BY <1>7, <2>11 DEF WitnessIInv, TicketsAreRows, SameRows
  <2>16. ScopesKnow'
    <3>1. ASSUME NEW u \in WThreads, NEW i \in DOMAIN wScopes'[u] PROVE ScopeKnows(wJournal', u, wScopes'[u][i])
      <4> DEFINE s == wScopes[u][i]
                 s1 == wScopes'[u][i]
      <4>1. ScopeKnows(wJournal, u, s)
        BY <2>12, <3>1 DEF WitnessIInv, ScopesKnow
      <4>2. /\ s1.since = s.since /\ s1.ticket = s.ticket /\ s1.attempts = s.attempts
            /\ s1.ambiguous = s.ambiguous /\ (s1.wait = s.wait \/ s1.wait = s.ticket)
        BY <2>12, <3>1
      <4> HIDE DEF s, s1
      <4>3. ScopeKnows(wJournal, u, s1)
        BY <4>1, <4>2 DEF ScopeKnows
      <4>4. ScopeKnows(wJournal', u, s1)
        BY <2>11, <4>3, KnowsStays
      <4> QED BY <4>4 DEF s1
    <3> QED BY <3>1 DEF ScopesKnow
  <2>17. OpenCount'
    BY <1>1, <2>6, <2>11 DEF WitnessIInv, OpenCount, SameRows
  <2>18. SnapIsTrue'
    BY <1>1, <2>3, <2>6 DEF WitnessIInv, SnapIsTrue
  <2> QED BY <1>8, <2>13, <2>14, <2>15, <2>16, <2>17, <2>18 DEF WitnessIInv
<1> QED BY <1>9, <1>10

LEMMA FreezeStep ==
  ASSUME WitnessIInv, Freeze
  PROVE  WitnessIInv'
<1>1. PICK q \in Reads :
        LET bad == wRegistry.failed \/ ~Admitting \/ q = 0
            j == JStop(Failed(bad, wJournal), q)
            failed == wCollector.failed \/ bad
            outcome == IF q <= 1 \/ q >= WindowEnd THEN "InvalidClock"
                      ELSE IF wCollector.cookie = NoCookie THEN "NoSelection" ELSE WitnessCapture(j)
            clean == ~failed /\ ~j.fault
        IN /\ Read(q) /\ wJournal' = j
           /\ wCollector' = [wCollector EXCEPT !.frozen = TRUE, !.failed = failed]
           /\ wSnap' = IF outcome = "Ok" THEN [status |-> "Ok", counts |-> Counts(j), clean |-> clean]
                       ELSE [NoSnap EXCEPT !.status = outcome]
  BY DEF Freeze
<1> DEFINE bad == wRegistry.failed \/ ~Admitting \/ q = 0
           k == Failed(bad, wJournal)
           j == JStop(k, q)
           failed == wCollector.failed \/ bad
           early == q <= 1 \/ q >= WindowEnd
           none == wCollector.cookie = NoCookie
           outcome == IF early THEN "InvalidClock" ELSE IF none THEN "NoSelection" ELSE WitnessCapture(j)
           clean == ~failed /\ ~j.fault
           whole == [status |-> "Ok", counts |-> Counts(j), clean |-> clean]
<1>2. /\ Read(q) /\ wJournal' = j
      /\ wCollector' = [wCollector EXCEPT !.frozen = TRUE, !.failed = failed]
      /\ wSnap' = IF outcome = "Ok" THEN whole ELSE [NoSnap EXCEPT !.status = outcome]
  BY <1>1
<1>3. /\ ~wCollector.frozen /\ wRegistry' = [wRegistry EXCEPT !.admissions = FALSE]
      /\ UNCHANGED <<wCreate, wScopes, wCalls, wFrames, wNative>>
  BY DEF Freeze
<1>4. bad \in BOOLEAN /\ failed \in BOOLEAN /\ (~failed => wRegistry.admissions)
  BY DEF Admitting
<1>5. q \in Nat /\ wTick' \in Nat
  BY <1>2, ReadsAreTicks
<1>6. OpenJournal(wJournal)
  BY <1>3, OpenBeforeTheCut
<1> HIDE DEF bad, failed
<1>7. OpenJournal(k) /\ Quiet(wJournal, k)
  BY <1>4, <1>6, FailedIsQuiet
<1> HIDE DEF k
<1>8. SoundJournal(j) /\ j.stopped /\ Quiet(k, j) /\ WitnessCapture(j) = "Ok"
  BY <1>5, <1>7, StopTiesOut
<1>9. Quiet(wJournal, j)
  BY <1>7, <1>8, QuietTwice
<1>10. outcome \in {"InvalidClock", "NoSelection", "Ok"}
  <2> HIDE DEF early, none, j
  <2> QED BY <1>8
<1> HIDE DEF j, outcome
<1>11. SameRows(wJournal, wJournal') /\ wJournal'.observed = wJournal.observed
  BY <1>2, <1>9 DEF Quiet
<1>12. wCollector' \in Collectors /\ wCollector'.frozen
  <2>1. wCollector \in Collectors
    BY DEF WitnessIInv, WitnessTypes
  <2> QED BY <1>2, <1>4, <2>1 DEF Collectors
<1>13. wRegistry' \in Registries
  <2>1. wRegistry \in Registries
    BY DEF WitnessIInv, WitnessTypes
  <2> QED BY <1>3, <2>1 DEF Registries
<1>14. WitnessTypes'
  BY <1>3, <1>5, <1>12, <1>13 DEF WitnessIInv, WitnessTypes
<1>15. BeginsAreOfKind'
  BY <1>3 DEF WitnessIInv, BeginsAreOfKind, Asks
<1>16. JournalIsSound'
  BY <1>2, <1>8, <1>12 DEF JournalIsSound
<1>17. TicketsAreRows'
  BY <1>3, <1>11 DEF WitnessIInv, TicketsAreRows, SameRows
<1>18. ScopesKnow'
  BY <1>3, <1>11, KnowsStays DEF WitnessIInv, ScopesKnow
<1>19. OpenCount'
  BY <1>12 DEF OpenCount
<1>20. SnapIsTrue'
  <2>1. wSnap'.status = outcome
    <3>1. CASE outcome = "Ok"
      BY <1>2, <3>1
    <3>2. CASE outcome # "Ok"
      BY <1>2, <3>2 DEF NoSnap
    <3> QED BY <3>1, <3>2
  <2>2. ASSUME outcome = "Ok"
        PROVE  wSnap'.counts = Counts(wJournal') /\ (wSnap'.clean => wSnap'.counts[1] = wNative)
    <3>1. wSnap'.counts = Counts(j) /\ (wSnap'.clean <=> clean)
      BY <1>2, <2>2
    <3>2. Counts(j)[1] = j.observed
      BY DEF Counts
    <3>3. clean => j.observed = wNative
      <4>1. ASSUME clean PROVE j.observed = wNative
        <5>1. wRegistry.admissions /\ ~wJournal.fault
          BY <1>4, <1>9, <4>1 DEF Quiet, SameRows
        <5>2. wJournal.observed = wNative
          BY <1>3, <5>1 DEF WitnessIInv, OpenCount
        <5> QED BY <1>2, <1>11, <5>2
      <4> QED BY <4>1
    <3> HIDE DEF clean
    <3> QED BY <1>2, <3>1, <3>2, <3>3
  <2>3. wSnap'.status \notin {"Counts", "NotFreezeSnapshot"}
    BY <1>10, <2>1
  <2> QED BY <1>3, <1>12, <2>1, <2>2, <2>3 DEF SnapIsTrue
<1> QED BY <1>14, <1>15, <1>16, <1>17, <1>18, <1>19, <1>20 DEF WitnessIInv

LEMMA WitnessStepKeeps ==
  ASSUME WitnessIInv, [WitnessNext]_witnessVars
  PROVE  WitnessIInv'
<1>1. CASE UNCHANGED witnessVars
  BY <1>1 DEF witnessVars, WitnessIInv, WitnessTypes, BeginsAreOfKind, Asks, JournalIsSound, TicketsAreRows,
              ScopesKnow, OpenCount, SnapIsTrue
<1>2. CASE Configure \/ RegisterAgain
  BY <1>2, RegistrySteps
<1>3. CASE Freeze
  BY <1>3, FreezeStep
<1>4. ASSUME NEW t \in WThreads,
             CloseScope(t) \/ BindReturnedHandle(t) \/ OnCreate(t) \/ OnDestroy(t) \/ OnBegin(t) \/ OnEnd(t)
      PROVE  WitnessIInv'
  BY <1>4, CloseScopeStep, BindStep, OnCreateStep, OnDestroyStep, OnBeginStep, OnEndStep
<1>5. WHelpers \subseteq WThreads
  BY WitnessConstants
<1>6. ASSUME NEW t \in WHelpers, OpenCreate(t) PROVE WitnessIInv'
  BY <1>5, <1>6, OpenCreateStep
<1>7. ASSUME NEW t \in WHelpers, NEW c \in Cookies, SdkCreate(t, c) \/ SdkDestroy(t, c) PROVE WitnessIInv'
  <2>1. CASE SdkCreate(t, c)
    BY <1>5, <2>1, SdkCallStep DEF SdkCreate
  <2>2. CASE SdkDestroy(t, c)
    BY <1>5, <2>2, SdkCallStep DEF SdkDestroy
  <2> QED BY <1>7, <2>1, <2>2
<1>8. ASSUME NEW t \in WHelpers, NEW c \in Cookies, NEW kind \in WitnessKinds, OpenScope(t, c, kind)
      PROVE  WitnessIInv'
  BY <1>5, <1>8, OpenScopeStep
<1>9. ASSUME NEW t \in WThreads, NEW c \in Cookies, NEW kind \in WitnessKinds,
             SdkBegin(t, c, kind) \/ SdkBeginUnseen(t, c, kind)
      PROVE  WitnessIInv'
  <2>1. CASE SdkBegin(t, c, kind)
    BY <2>1, SdkCallStep DEF SdkBegin
  <2>2. CASE SdkBeginUnseen(t, c, kind)
    BY <2>2, UnseenStep
  <2> QED BY <1>9, <2>1, <2>2
<1> QED BY <1>1, <1>2, <1>3, <1>4, <1>6, <1>7, <1>8, <1>9 DEF WitnessNext

\* A scope that offers a wait knows it as the only row of its thread.
LEMMA WitnessIsKnown == WitnessIInv => WitnessIsFaithful
<1> SUFFICES ASSUME WitnessIInv PROVE WitnessIsFaithful
  OBVIOUS
<1>1. WitnessLosesNothing
  BY DEF WitnessIInv, SnapIsTrue, WitnessLosesNothing
<1>2. ASSUME NEW t \in WThreads, NEW i \in DOMAIN wScopes[t], wScopes[t][i].wait # 0, ~wScopes[t][i].ambiguous
      PROVE  {k \in DOMAIN wJournal.ops : k > wScopes[t][i].since /\ wJournal.ops[k].thread = t} = {wScopes[t][i].wait}
  <2> DEFINE s == wScopes[t][i]
  <2>1. ScopeKnows(wJournal, t, s) /\ s.wait # 0 /\ ~s.ambiguous
    BY <1>2 DEF WitnessIInv, ScopesKnow
  <2> HIDE DEF s
  <2>2. s.wait = s.ticket /\ s.ticket # 0 /\ RowsSince(wJournal, t, s.since) = {s.wait}
    BY <2>1 DEF ScopeKnows
  <2> QED BY <2>2 DEF RowsSince, s
<1>3. WaitIsOfItsScope
  BY <1>2 DEF WaitIsOfItsScope
<1> QED BY <1>1, <1>3 DEF WitnessIsFaithful

\* The snapshot that Collector::Freeze returns is the journal at its cut
\* and counts every native operation begun before it; a scope that offers
\* ScopedOperation::wait_observation saw no other operation of its thread.
THEOREM WitnessStaysFaithful == WitnessSpec => []WitnessIsFaithful
<1>1. WitnessInit => WitnessIInv
  BY WitnessInitHolds
<1>2. WitnessIInv /\ [WitnessNext]_witnessVars => WitnessIInv'
  BY WitnessStepKeeps
<1>3. WitnessIInv => WitnessIsFaithful
  BY WitnessIsKnown
<1> QED BY <1>1, <1>2, <1>3, PTL DEF WitnessSpec


-----------------------------------------------------------------------------
(* The copy of the save tree.                                               *)
(*                                                                          *)
(* The byte count is a sum over the inventory, which the community module   *)
(* defines by a recursive function: that there is one, that there is one    *)
(* only, and what an entry adds to it, are shown by a smallest              *)
(* counterexample.                                                          *)

AnyOf(s) == CHOOSE x \in s : TRUE
Chunks(x) == Len(x[2])
Sums(g, S) == g = [s \in SUBSET S |-> IF s = {} THEN 0 ELSE Chunks(AnyOf(s)) + g[s \ {AnyOf(s)}]]
Total(S) == (CHOOSE f : Sums(f, S))[S]

LEMMA TotalIsTheSum ==
  ASSUME NEW S
  PROVE  MapThenSumSet(LAMBDA entry : Len(entry[2]), S) = Total(S)
BY DEF MapThenSumSet, MapThenFoldSet, Total, Sums, AnyOf, Chunks

LEMMA AnyOfIsIn ==
  ASSUME NEW s, s # {}
  PROVE  AnyOf(s) \in s
BY DEF AnyOf

LEMMA SumUnfolds ==
  ASSUME NEW S, NEW g, Sums(g, S), NEW s \in SUBSET S
  PROVE  g[s] = IF s = {} THEN 0 ELSE Chunks(AnyOf(s)) + g[s \ {AnyOf(s)}]
BY DEF Sums

\* Of the sets with a property, one that has no smaller one.
LEMMA Smaller ==
  ASSUME NEW S, IsFiniteSet(S), NEW s \in SUBSET S, NEW x \in s
  PROVE  /\ s \ {x} \in SUBSET S /\ IsFiniteSet(s) /\ IsFiniteSet(s \ {x})
         /\ Cardinality(s) \in Nat /\ Cardinality(s \ {x}) \in Nat /\ Cardinality(s \ {x}) < Cardinality(s)
<1>1. IsFiniteSet(s)
  BY FS_Subset
<1>2. IsFiniteSet(s \ {x}) /\ Cardinality(s \ {x}) = Cardinality(s) - 1
  BY <1>1, FS_RemoveElement
<1>3. Cardinality(s) \in Nat /\ Cardinality(s \ {x}) \in Nat
  BY <1>1, <1>2, FS_CardinalityType
<1> QED BY <1>1, <1>2, <1>3

LEMMA SumIsUnique ==
  ASSUME NEW S, IsFiniteSet(S), NEW Q, NEW R, NEW g, NEW h, Sums(g, Q), Sums(h, R),
         S \in SUBSET Q, S \in SUBSET R
  PROVE  g[S] = h[S]
<1> DEFINE Bad == {s \in SUBSET S : g[s] # h[s]}
           BadSizes == {Cardinality(s) : s \in Bad}
<1>1. SUFFICES ASSUME g[S] # h[S] PROVE FALSE
  OBVIOUS
<1>2. S \in Bad /\ \A s \in Bad : IsFiniteSet(s) /\ Cardinality(s) \in Nat
  <2>1. \A s \in Bad : IsFiniteSet(s)
    BY FS_Subset
  <2> QED BY <1>1, <2>1, FS_CardinalityType
<1>3. BadSizes \in SUBSET Nat /\ BadSizes # {}
  BY <1>2
<1> HIDE DEF BadSizes
<1>4. PICK m \in BadSizes : \A n \in BadSizes : m <= n
  BY <1>3, NatHasLeast
<1>5. PICK s \in Bad : \A r \in Bad : Cardinality(s) <= Cardinality(r)
  BY <1>4 DEF BadSizes
<1>6. s \in SUBSET Q /\ s \in SUBSET R /\ s \in SUBSET S /\ g[s] # h[s]
  BY <1>5
<1>7. s # {}
  BY <1>6, SumUnfolds
<1> DEFINE x == AnyOf(s)
           r == s \ {x}
<1>8. x \in s
  BY <1>7, AnyOfIsIn
<1> HIDE DEF x
<1>9. r \in SUBSET S /\ Cardinality(r) < Cardinality(s) /\ Cardinality(r) \in Nat /\ Cardinality(s) \in Nat
  BY <1>6, <1>8, Smaller
<1>10. g[r] = h[r]
  <2>1. ~(Cardinality(s) <= Cardinality(r))
    BY <1>9
  <2>2. r \notin Bad
    BY <1>5, <2>1
  <2> QED BY <1>9, <2>2
<1>11. g[s] = Chunks(x) + g[r] /\ h[s] = Chunks(x) + h[r]
  BY <1>6, <1>7, SumUnfolds DEF x
<1> QED BY <1>6, <1>10, <1>11

LEMMA SumExists ==
  ASSUME NEW S, IsFiniteSet(S)
  PROVE  \E g : Sums(g, S)
<1> DEFINE Bad == {s \in SUBSET S : ~\E g : Sums(g, s)}
           BadSizes == {Cardinality(s) : s \in Bad}
<1>1. SUFFICES ASSUME ~\E g : Sums(g, S) PROVE FALSE
  OBVIOUS
<1>2. S \in Bad /\ \A s \in Bad : IsFiniteSet(s) /\ Cardinality(s) \in Nat
  <2>1. \A s \in Bad : IsFiniteSet(s)
    BY FS_Subset
  <2> QED BY <1>1, <2>1, FS_CardinalityType
<1>3. BadSizes \in SUBSET Nat /\ BadSizes # {}
  BY <1>2
<1> HIDE DEF BadSizes
<1>4. PICK m \in BadSizes : \A n \in BadSizes : m <= n
  BY <1>3, NatHasLeast
<1>5. PICK R \in Bad : \A r \in Bad : Cardinality(R) <= Cardinality(r)
  BY <1>4 DEF BadSizes
<1>6. R \in SUBSET S /\ IsFiniteSet(R)
  BY <1>2, <1>5
\* Below R there is a sum of each set ...
<1>7. ASSUME NEW s \in SUBSET R, s # R
      PROVE  IsFiniteSet(s) /\ Sums(CHOOSE f : Sums(f, s), s)
  <2>1. IsFiniteSet(s) /\ Cardinality(s) <= Cardinality(R) /\ Cardinality(s) # Cardinality(R)
    BY <1>6, <1>7, FS_Subset
  <2>2. Cardinality(s) \in Nat /\ Cardinality(R) \in Nat
    BY <1>6, <2>1, FS_CardinalityType
  <2>3. ~(Cardinality(R) <= Cardinality(s))
    BY <2>1, <2>2
  <2>4. s \notin Bad
    BY <1>5, <2>3
  <2>5. \E g : Sums(g, s)
    BY <1>6, <2>4
  <2> QED BY <2>1, <2>5
\* ... that adds up like one of R.
<1> DEFINE G == [s \in SUBSET R |-> IF s = {} THEN 0 ELSE Chunks(AnyOf(s)) + Total(s \ {AnyOf(s)})]
<1>8. ASSUME NEW s \in SUBSET R, s # R PROVE G[s] = Total(s)
  <2> DEFINE g == CHOOSE f : Sums(f, s)
             x == AnyOf(s)
             r == s \ {x}
             h == CHOOSE f : Sums(f, r)
  <2>1. Sums(g, s)
    BY <1>7, <1>8
  <2>2. Total(s) = g[s]
    BY DEF Total
  <2>3. Total(r) = h[r]
    BY DEF Total
  <2>4. CASE s = {}
    <3>1. g[s] = 0
      <4> HIDE DEF g
      <4> QED BY <2>1, <2>4, SumUnfolds
    <3> QED BY <2>2, <2>4, <3>1
  <2>5. CASE s # {}
    <3>1. x \in s
      BY <2>5, AnyOfIsIn
    <3>2. r \in SUBSET R /\ r # R /\ r \in SUBSET s /\ r \in SUBSET r
      BY <3>1
    <3>3. IsFiniteSet(r) /\ Sums(h, r)
      BY <1>7, <3>2
    <3>4. G[s] = Chunks(x) + Total(r)
      BY <2>5
    <3> HIDE DEF g, h
    <3>5. g[s] = Chunks(x) + g[r]
      BY <2>1, <2>5, SumUnfolds
    <3> HIDE DEF r
    <3>6. g[r] = h[r]
      BY <2>1, <3>2, <3>3, SumIsUnique
    <3> QED BY <2>2, <2>3, <3>4, <3>5, <3>6
  <2> QED BY <2>4, <2>5
<1>9. Sums(G, R)
  <2>1. ASSUME NEW s \in SUBSET R, s # {} PROVE Total(s \ {AnyOf(s)}) = G[s \ {AnyOf(s)}]
    <3>1. AnyOf(s) \in s
      BY <2>1, AnyOfIsIn
    <3>2. s \ {AnyOf(s)} \in SUBSET R /\ s \ {AnyOf(s)} # R
      BY <3>1
    <3> HIDE DEF G
    <3> QED BY <1>8, <3>2
  <2>2. G = [s \in SUBSET R |-> IF s = {} THEN 0 ELSE Chunks(AnyOf(s)) + G[s \ {AnyOf(s)}]]
    <3>1. \A s \in SUBSET R : (IF s = {} THEN 0 ELSE Chunks(AnyOf(s)) + Total(s \ {AnyOf(s)}))
                               = (IF s = {} THEN 0 ELSE Chunks(AnyOf(s)) + G[s \ {AnyOf(s)}])
      <4> HIDE DEF G
      <4> QED BY <2>1
    <3> DEFINE K == [s \in SUBSET R |-> IF s = {} THEN 0 ELSE Chunks(AnyOf(s)) + G[s \ {AnyOf(s)}]]
    <3>2. \A s \in SUBSET R : G[s] = K[s]
      BY <3>1
    <3> QED BY <3>2
  <2> HIDE DEF G
  <2> QED BY <2>2 DEF Sums
<1> QED BY <1>5, <1>9

LEMMA TotalUnfolds ==
  ASSUME NEW S, IsFiniteSet(S)
  PROVE  /\ S = {} => Total(S) = 0
         /\ S # {} => Total(S) = Chunks(AnyOf(S)) + Total(S \ {AnyOf(S)})
<1> DEFINE g == CHOOSE f : Sums(f, S)
           r == S \ {AnyOf(S)}
           h == CHOOSE h : Sums(h, r)
<1>1. Sums(g, S) /\ Total(S) = g[S]
  BY SumExists DEF Total
<1>2. IsFiniteSet(r)
  BY FS_RemoveElement
<1>3. Sums(h, r) /\ Total(r) = h[r]
  BY <1>2, SumExists DEF Total
<1> HIDE DEF g, h
<1>4. S = {} => g[S] = 0
  BY <1>1, SumUnfolds
<1>5. S # {} => g[S] = Chunks(AnyOf(S)) + g[r]
  BY <1>1, SumUnfolds
<1>6. g[r] = h[r]
  <2>1. r \in SUBSET S /\ r \in SUBSET r
    OBVIOUS
  <2> HIDE DEF r
  <2> QED BY <1>1, <1>2, <1>3, <2>1, SumIsUnique
<1> QED BY <1>1, <1>3, <1>4, <1>5, <1>6

\* Whichever element is taken out, the sum is its length and that of the rest.
LEMMA TotalTakesAny ==
  ASSUME NEW S, IsFiniteSet(S), \A x \in S : Chunks(x) \in Nat
  PROVE  Total(S) \in Nat /\ \A e \in S : Total(S) = Chunks(e) + Total(S \ {e})
<1> DEFINE Good(s) == Total(s) \in Nat /\ \A e \in s : Total(s) = Chunks(e) + Total(s \ {e})
           Bad == {s \in SUBSET S : ~Good(s)}
           BadSizes == {Cardinality(s) : s \in Bad}
<1>1. SUFFICES ASSUME ~Good(S) PROVE FALSE
  OBVIOUS
<1>2. S \in Bad /\ \A s \in Bad : IsFiniteSet(s) /\ Cardinality(s) \in Nat
  <2>1. \A s \in Bad : IsFiniteSet(s)
    BY FS_Subset
  <2>2. S \in Bad
    BY <1>1
  <2> QED BY <2>1, <2>2, FS_CardinalityType
<1>3. BadSizes \in SUBSET Nat /\ BadSizes # {}
  <2> HIDE DEF Bad
  <2> QED BY <1>2
<1> HIDE DEF BadSizes
<1>4. PICK m \in BadSizes : \A n \in BadSizes : m <= n
  BY <1>3, NatHasLeast
<1>5. PICK R \in Bad : \A r \in Bad : Cardinality(R) <= Cardinality(r)
  <2> HIDE DEF Bad
  <2> QED BY <1>4 DEF BadSizes
<1> HIDE DEF Good
<1>6. R \in SUBSET S /\ IsFiniteSet(R) /\ ~Good(R)
  BY <1>2, <1>5
<1>7. ASSUME NEW x \in R PROVE R \ {x} \in SUBSET S /\ Good(R \ {x}) /\ IsFiniteSet(R \ {x})
  <2>1. /\ R \ {x} \in SUBSET S /\ IsFiniteSet(R \ {x})
        /\ Cardinality(R \ {x}) \in Nat /\ Cardinality(R) \in Nat /\ Cardinality(R \ {x}) < Cardinality(R)
    BY <1>6, <1>7, Smaller
  <2>2. ~(Cardinality(R) <= Cardinality(R \ {x}))
    BY <2>1
  <2>3. R \ {x} \notin Bad
    BY <1>5, <2>2
  <2> QED BY <2>1, <2>3
<1>8. Good(R)
  <2>1. CASE R = {}
    <3>1. Total(R) = 0
      BY <1>6, <2>1, TotalUnfolds
    <3> QED BY <2>1, <3>1 DEF Good
  <2>2. CASE R # {}
    <3> DEFINE x == AnyOf(R)
    <3>1. x \in R /\ Chunks(x) \in Nat
      BY <1>6, <2>2, AnyOfIsIn
    <3>2. Total(R) = Chunks(x) + Total(R \ {x})
      BY <1>6, <2>2, TotalUnfolds
    <3> HIDE DEF x
    <3>3. Good(R \ {x})
      BY <1>7, <3>1
    <3>4. Total(R \ {x}) \in Nat
      BY <3>3 DEF Good
    <3>5. ASSUME NEW e \in R PROVE Total(R) = Chunks(e) + Total(R \ {e})
      <4>1. CASE e = x
        BY <3>2, <4>1
      <4>2. CASE e # x
        <5>1. e \in R \ {x} /\ x \in R \ {e} /\ Chunks(e) \in Nat
          BY <1>6, <3>1, <4>2
        <5>2. Total(R \ {x}) = Chunks(e) + Total((R \ {x}) \ {e})
          BY <3>3, <5>1 DEF Good
        <5>3. Good(R \ {e})
          BY <1>7
        <5>4. Total(R \ {e}) = Chunks(x) + Total((R \ {e}) \ {x})
          BY <5>1, <5>3 DEF Good
        <5>5. (R \ {x}) \ {e} = (R \ {e}) \ {x}
          OBVIOUS
        <5> DEFINE rest == (R \ {e}) \ {x}
        <5>6. Good(rest)
          <6> DEFINE r == R \ {e}
          <6>1. r \in SUBSET S /\ x \in r
            BY <1>7, <5>1
          <6>2. Cardinality(r) < Cardinality(R) /\ Cardinality(R) \in Nat /\ Cardinality(r) \in Nat
            BY <1>6, Smaller
          <6> HIDE DEF r
          <6>3. r \ {x} \in SUBSET S /\ Cardinality(r \ {x}) \in Nat /\ Cardinality(r \ {x}) < Cardinality(r)
            BY <6>1, Smaller
          <6>4. ~(Cardinality(R) <= Cardinality(r \ {x}))
            BY <6>2, <6>3
          <6> QED BY <1>5, <6>3, <6>4 DEF r
        <5>7. Total(rest) \in Nat
          BY <5>6 DEF Good
        <5> HIDE DEF rest
        <5>8. \A a, b, c \in Nat : a + (b + c) = b + (a + c)
          OBVIOUS
        <5> QED BY <3>1, <3>2, <5>1, <5>2, <5>4, <5>5, <5>7, <5>8 DEF rest
      <4> QED BY <4>1, <4>2
    <3>6. Total(R) \in Nat
      BY <3>1, <3>2, <3>4
    <3> QED BY <3>5, <3>6 DEF Good
  <2> QED BY <2>1, <2>2
<1> QED BY <1>6, <1>8

LEMMA TotalOfOneMore ==
  ASSUME NEW S, IsFiniteSet(S), \A x \in S : Chunks(x) \in Nat, NEW e, e \notin S, Chunks(e) \in Nat
  PROVE  Total(S) \in Nat /\ Total(S \cup {e}) = Total(S) + Chunks(e)
<1> DEFINE T == S \cup {e}
<1>1. IsFiniteSet(T) /\ \A x \in T : Chunks(x) \in Nat
  BY FS_AddElement
<1>2. e \in T /\ T \ {e} = S
  OBVIOUS
<1> HIDE DEF T
<1>3. Total(T) = Chunks(e) + Total(S)
  BY <1>1, <1>2, TotalTakesAny
<1>4. Total(S) \in Nat
  BY TotalTakesAny
<1> QED BY <1>3, <1>4 DEF T

\* What has been read is what the file held since the time was taken, or the
\* time has moved; an entry of the tree is listed at most once.
Chunked == Seq(Nat) \cup {Absent}
Copying == {"stat", "time", "read", "after", "compare"}
CopyTypes ==
  /\ content \in [SaveFiles -> Chunked] /\ time \in [SaveFiles -> Nat]
  /\ heldContents \in [SaveFiles -> SUBSET Chunked] /\ \A f \in SaveFiles : content[f] \in heldContents[f]
  /\ saves \in Nat /\ target \in SaveFiles /\ entriesLeft \subseteq SaveFiles
  /\ copier \in Copying \cup {"indicator", "scan", "decide", "copy", "done"}
  /\ file \in [name : SaveFiles \cup {"none"}, attempt : Nat, size : Nat, time : Nat, read : Seq(Nat)]
  /\ stats \in [bytes : Nat, skipped : Nat, inventory : SUBSET (SaveFiles \X Seq(Nat))]
  /\ IsFiniteSet(stats.inventory)
ListedOnce ==
  /\ copier \in {"indicator", "scan", "decide"} => stats.inventory = {}
  /\ copier \in Copying => file.name \in SaveFiles /\ file.name \notin entriesLeft
  /\ \A entry \in stats.inventory : /\ entry[1] \notin entriesLeft
                                    /\ copier \in Copying => entry[1] # file.name
                                    /\ entry[2] \in heldContents[entry[1]]
BytesAreListed ==
  /\ stats.bytes = Total(stats.inventory) /\ stats.bytes <= MaxSaveBytes
  /\ copier \in Copying \ {"stat"} => stats.bytes + file.size <= MaxSaveBytes
Unmoved == file.time = time[file.name]
ReadIsStable ==
  /\ copier \in {"stat", "time"} => file.read = <<>>
  /\ copier \in {"read", "after", "compare"} =>
       /\ file.time <= time[file.name]
       /\ Unmoved => /\ content[file.name] # Absent /\ Len(file.read) <= Len(content[file.name])
                     /\ \A i \in 1..Len(file.read) : file.read[i] = content[file.name][i]
  /\ copier \in {"after", "compare"} /\ Unmoved => file.read = content[file.name]
  /\ copier = "compare" /\ Unmoved => file.size = Len(content[file.name])

CopyIInv == CopyTypes /\ ListedOnce /\ BytesAreListed /\ ReadIsStable

LEMMA CopyStarts ==
  ASSUME SaveCopyInit
  PROVE  CopyIInv
<1>1. <<0, 0>> \in Seq(Nat) /\ <<>> \in Seq(Nat)
  OBVIOUS
<1>2. stats = [bytes |-> 0, skipped |-> 0, inventory |-> {}] /\ copier = "indicator" /\ file = NoFile
  BY DEF SaveCopyInit
<1>3. IsFiniteSet({}) /\ Total({}) = 0
  BY FS_EmptySet, TotalUnfolds
<1>4. file \in [name : SaveFiles \cup {"none"}, attempt : Nat, size : Nat, time : Nat, read : Seq(Nat)]
  BY <1>1, <1>2 DEF NoFile
<1>5. CopyTypes
  <2>1. /\ content \in [SaveFiles -> Chunked] /\ time \in [SaveFiles -> Nat]
        /\ heldContents \in [SaveFiles -> SUBSET Chunked] /\ \A f \in SaveFiles : content[f] \in heldContents[f]
        /\ saves \in Nat /\ target \in SaveFiles /\ entriesLeft \subseteq SaveFiles
    BY <1>1 DEF SaveCopyInit, Chunked
  <2> QED BY <1>2, <1>3, <1>4, <2>1 DEF CopyTypes
<1>6. ListedOnce
  BY <1>2 DEF ListedOnce, Copying
<1>7. BytesAreListed
  <2>1. 0 <= MaxSaveBytes
    BY CopyConstants
  <2> QED BY <1>2, <1>3, <2>1 DEF BytesAreListed, Copying
<1>8. ReadIsStable
  BY <1>2 DEF ReadIsStable
<1> QED BY <1>5, <1>6, <1>7, <1>8 DEF CopyIInv

\* The title writes a file, and its time moves.
LEMMA WritesMove ==
  ASSUME CopyIInv, NEW chunks \in Chunked, Writes(target, chunks), UNCHANGED copyVars, saves' \in Nat, target' \in SaveFiles
  PROVE  CopyIInv'
<1>1. /\ content \in [SaveFiles -> Chunked] /\ time \in [SaveFiles -> Nat] /\ target \in SaveFiles
      /\ heldContents \in [SaveFiles -> SUBSET Chunked]
  BY DEF CopyIInv, CopyTypes
<1>2. /\ content' \in [SaveFiles -> Chunked] /\ content'[target] = chunks
      /\ \A f \in SaveFiles : f # target => content'[f] = content[f]
  BY <1>1 DEF Writes
<1>3. /\ time' \in [SaveFiles -> Nat] /\ time'[target] = time[target] + 1 /\ time[target] \in Nat
      /\ \A f \in SaveFiles : f # target => time'[f] = time[f]
  BY <1>1 DEF Writes
<1>4. /\ heldContents' \in [SaveFiles -> SUBSET Chunked] /\ chunks \in heldContents'[target]
      /\ \A f \in SaveFiles : /\ heldContents[f] \subseteq heldContents'[f]
                              /\ f # target => heldContents'[f] = heldContents[f]
  <2> DEFINE seen == heldContents[target] \cup {chunks}
  <2>1. heldContents' = [heldContents EXCEPT ![target] = seen] /\ seen \in SUBSET Chunked
    BY <1>1 DEF Writes
  <2>2. chunks \in seen /\ heldContents[target] \subseteq seen
    OBVIOUS
  <2> HIDE DEF seen
  <2> QED BY <1>1, <2>1, <2>2
<1>5. UNCHANGED <<copier, input, entriesLeft, file, stats>>
  BY DEF copyVars
<1>6. CopyTypes'
  <2>1. \A f \in SaveFiles : content'[f] \in heldContents'[f]
    BY <1>2, <1>4 DEF CopyIInv, CopyTypes
  <2> QED BY <1>2, <1>3, <1>4, <1>5, <2>1 DEF CopyIInv, CopyTypes
<1>7. ListedOnce'
  <2>1. \A entry \in stats.inventory : entry[1] \in SaveFiles
    BY DEF CopyIInv, CopyTypes
  <2>2. \A entry \in stats.inventory : entry[2] \in heldContents'[entry[1]]
    BY <1>4, <2>1 DEF CopyIInv, ListedOnce
  <2> QED BY <1>5, <2>2 DEF CopyIInv, ListedOnce
<1>8. BytesAreListed'
  BY <1>5 DEF CopyIInv, BytesAreListed
<1>9. ReadIsStable'
  <2>1. copier' \in {"stat", "time"} => file'.read = <<>>
    BY <1>5 DEF CopyIInv, ReadIsStable
  <2>2. SUFFICES ASSUME copier \in {"read", "after", "compare"} PROVE ReadIsStable'
    BY <1>5, <2>1 DEF ReadIsStable
  <2>3. file.name \in SaveFiles /\ file.time \in Nat /\ file.time <= time[file.name]
    BY <2>2 DEF CopyIInv, CopyTypes, ListedOnce, ReadIsStable, Copying
  <2>4. CASE file.name = target
    <3>1. file.time <= time'[file.name] /\ file.time # time'[file.name]
      BY <1>3, <2>3, <2>4
    <3> QED BY <1>5, <2>1, <3>1 DEF ReadIsStable, Unmoved
  <2>5. CASE file.name # target
    <3>1. time'[file.name] = time[file.name] /\ content'[file.name] = content[file.name]
      BY <1>2, <1>3, <2>3, <2>5
    <3> QED BY <1>5, <3>1 DEF CopyIInv, ReadIsStable, Unmoved
  <2> QED BY <2>4, <2>5
<1> QED BY <1>6, <1>7, <1>8, <1>9 DEF CopyIInv

LEMMA TitleKeepsCopy ==
  ASSUME CopyIInv, Title
  PROVE  CopyIInv'
<1>1. ASSUME UNCHANGED <<content, time, heldContents, copyVars>>, saves' \in Nat, target' \in SaveFiles
      PROVE  CopyIInv'
  <2>1. UNCHANGED <<copier, input, entriesLeft, file, stats>>
    BY <1>1 DEF copyVars
  <2>2. CopyTypes'
    BY <1>1, <2>1 DEF CopyIInv, CopyTypes
  <2> QED BY <1>1, <2>1, <2>2 DEF CopyIInv, ListedOnce, BytesAreListed, ReadIsStable, Unmoved
<1>2. saves \in Nat /\ saves + 1 \in Nat /\ target \in SaveFiles
  BY DEF CopyIInv, CopyTypes
<1>3. CASE SaveOpen
  BY <1>1, <1>2, <1>3 DEF SaveOpen, TitleStep
<1>4. CASE SaveMark \/ SaveCommit \/ SaveClose
  BY <1>1, <1>2, <1>4 DEF SaveMark, SaveCommit, SaveClose, TitleStep
<1>5. CASE SaveDelete
  <2>1. Absent \in Chunked
    BY DEF Chunked
  <2> QED BY <1>2, <1>5, <2>1, WritesMove DEF SaveDelete, TitleStep
<1>6. CASE SaveWrite
  <2> DEFINE chunks == IF content[target] = Absent THEN <<saves>> ELSE Append(content[target], saves)
  <2>1. chunks \in Chunked
    <3>1. content[target] \in Seq(Nat) \/ content[target] = Absent
      BY <1>2 DEF CopyIInv, CopyTypes, Chunked
    <3>2. CASE content[target] = Absent
      BY <1>2, <3>2 DEF Chunked
    <3>3. CASE content[target] # Absent
      BY <1>2, <3>1, <3>3 DEF Chunked
    <3> QED BY <3>2, <3>3
  <2>2. Writes(target, chunks) /\ UNCHANGED copyVars /\ saves' = saves /\ target' = target
    BY <1>6 DEF SaveWrite, TitleStep
  <2> HIDE DEF chunks
  <2> QED BY <1>2, <2>1, <2>2, WritesMove
<1> QED BY <1>3, <1>4, <1>5, <1>6 DEF Title

\* A step that leaves the tree and the list alone.
CopySet == UNCHANGED <<target, content, time, saves, heldContents>>
FileSet == [name : SaveFiles \cup {"none"}, attempt : Nat, size : Nat, time : Nat, read : Seq(Nat)]

LEMMA TypesKept ==
  ASSUME CopyIInv, CopySet, UNCHANGED stats, entriesLeft' \subseteq entriesLeft, file' \in FileSet,
         copier' \in Copying \cup {"indicator", "scan", "decide", "copy", "done"}
  PROVE  CopyTypes'
BY DEF CopyIInv, CopySet, CopyTypes, FileSet

LEMMA GateKeepsCopy ==
  ASSUME CopyIInv, Gate
  PROVE  CopyIInv'
<1>1. /\ copier \in {"indicator", "scan", "decide"} /\ UNCHANGED <<file, stats>> /\ CopySet
      /\ copier' \in {"indicator", "scan", "decide", "copy", "done"}
      /\ entriesLeft' = entriesLeft \/ entriesLeft' = SaveFiles
  BY DEF Gate, GateIndicator, GateScan, GateDecide, titleVars, CopySet
<1>2. stats.inventory = {}
  BY <1>1 DEF CopyIInv, ListedOnce
<1>3. CopyTypes'
  <2>1. entriesLeft' \subseteq SaveFiles
    BY <1>1 DEF CopyIInv, CopyTypes
  <2> QED BY <1>1, <2>1 DEF CopyIInv, CopyTypes, CopySet
<1>4. copier' \notin Copying /\ copier' \notin {"read", "after", "compare"}
  BY <1>1 DEF Copying
<1>5. ListedOnce' /\ ReadIsStable'
  BY <1>1, <1>2, <1>4 DEF ListedOnce, ReadIsStable
<1>6. BytesAreListed'
  BY <1>1, <1>4 DEF CopyIInv, BytesAreListed
<1> QED BY <1>3, <1>5, <1>6 DEF CopyIInv

LEMMA EmptyFile == NoFile \in FileSet
<1>1. <<>> \in Seq(Nat)
  OBVIOUS
<1> QED BY <1>1 DEF NoFile, FileSet

LEMMA SkipKeepsCopy ==
  ASSUME CopyIInv, Skips, UNCHANGED entriesLeft, CopySame
  PROVE  CopyIInv'
<1>1. /\ stats' = [stats EXCEPT !.skipped = @ + 1] /\ copier' = "copy" /\ file' = NoFile /\ CopySet
  BY DEF Skips, CopySame, titleVars, CopySet
<1>2. /\ stats' \in [bytes : Nat, skipped : Nat, inventory : SUBSET (SaveFiles \X Seq(Nat))]
      /\ stats'.bytes = stats.bytes /\ stats'.inventory = stats.inventory
  <2>1. stats \in [bytes : Nat, skipped : Nat, inventory : SUBSET (SaveFiles \X Seq(Nat))]
    BY DEF CopyIInv, CopyTypes
  <2> QED BY <1>1, <2>1
<1>3. CopyTypes'
  BY <1>1, <1>2, EmptyFile DEF CopyIInv, CopyTypes, CopySet, FileSet
<1>4. ListedOnce' /\ ReadIsStable' /\ BytesAreListed'
  <2>1. copier' \notin Copying
    BY <1>1 DEF Copying
  <2> QED BY <1>1, <1>2, <2>1 DEF CopyIInv, ListedOnce, ReadIsStable, BytesAreListed, CopySet
<1> QED BY <1>3, <1>4 DEF CopyIInv

LEMMA FailureKeepsCopy ==
  ASSUME CopyIInv, copier \in Copying, AttemptFails, UNCHANGED entriesLeft, CopySame
  PROVE  CopyIInv'
<1>1. CASE Skips
  BY <1>1, SkipKeepsCopy
<1>2. CASE /\ file' = [NoFile EXCEPT !.name = file.name, !.attempt = file.attempt + 1]
           /\ copier' = "stat" /\ UNCHANGED stats
  <2>1. CopySet
    BY DEF CopySame, titleVars, CopySet
  <2>2. file.name \in SaveFiles /\ file.attempt \in Nat
    BY DEF CopyIInv, CopyTypes, ListedOnce
  <2>3. file' \in FileSet /\ file'.name = file.name /\ file'.read = <<>>
    <3>1. file.attempt + 1 \in Nat
      BY <2>2
    <3> DEFINE attempt == file.attempt + 1
    <3>2. file' = [NoFile EXCEPT !.name = file.name, !.attempt = attempt]
      BY <1>2
    <3> HIDE DEF attempt
    <3>3. file' = [name |-> file.name, attempt |-> attempt, size |-> 0, time |-> 0, read |-> <<>>]
      BY <3>2 DEF NoFile
    <3>4. <<>> \in Seq(Nat) /\ attempt \in Nat
      BY <3>1 DEF attempt
    <3> QED BY <2>2, <3>3, <3>4 DEF FileSet
  <2>4. CopyTypes'
    BY <1>2, <2>1, <2>3, TypesKept DEF Copying
  <2>5. ListedOnce'
    BY <1>2, <2>1, <2>3 DEF CopyIInv, ListedOnce, CopySet, Copying
  <2>6. BytesAreListed' /\ ReadIsStable'
    BY <1>2, <2>3 DEF CopyIInv, BytesAreListed, ReadIsStable, Copying
  <2> QED BY <2>4, <2>5, <2>6 DEF CopyIInv
<1> QED BY <1>1, <1>2 DEF AttemptFails

LEMMA NextKeepsCopy ==
  ASSUME CopyIInv, (\E f \in SaveFiles : CopyNext(f)) \/ CopyEnd
  PROVE  CopyIInv'
<1>1. copier = "copy" /\ UNCHANGED stats /\ CopySet
  BY DEF CopyNext, CopyEnd, CopySame, titleVars, CopySet
<1>2. CASE UNCHANGED file /\ copier' \in {"copy", "done"} /\ entriesLeft' \subseteq entriesLeft
  <2>1. CopyTypes'
    BY <1>1, <1>2, TypesKept DEF CopyIInv, CopyTypes, FileSet, Copying
  <2>2. ListedOnce' /\ BytesAreListed' /\ ReadIsStable'
    BY <1>1, <1>2 DEF CopyIInv, ListedOnce, BytesAreListed, ReadIsStable, Copying, CopySet
  <2> QED BY <2>1, <2>2 DEF CopyIInv
<1>3. CASE \E f \in SaveFiles : /\ f \in entriesLeft /\ entriesLeft' = entriesLeft \ {f}
                                /\ copier' = "stat" /\ file' = [NoFile EXCEPT !.name = f]
  <2>1. PICK f \in SaveFiles : /\ f \in entriesLeft /\ entriesLeft' = entriesLeft \ {f}
                               /\ copier' = "stat" /\ file' = [NoFile EXCEPT !.name = f]
    BY <1>3
  <2>2. file' \in FileSet /\ file'.name = f /\ file'.read = <<>>
    BY <2>1, EmptyFile DEF FileSet, NoFile
  <2>3. CopyTypes'
    BY <1>1, <2>1, <2>2, TypesKept DEF Copying
  <2>4. ListedOnce'
    BY <1>1, <2>1, <2>2 DEF CopyIInv, ListedOnce, Copying, CopySet
  <2>5. BytesAreListed' /\ ReadIsStable'
    BY <1>1, <2>1, <2>2 DEF CopyIInv, BytesAreListed, ReadIsStable, Copying
  <2> QED BY <2>3, <2>4, <2>5 DEF CopyIInv
<1>4. CopyEnd => UNCHANGED file /\ copier' \in {"copy", "done"} /\ entriesLeft' \subseteq entriesLeft
  BY DEF CopyEnd
<1>5. ASSUME NEW f \in SaveFiles, CopyNext(f)
      PROVE  \/ UNCHANGED file /\ copier' \in {"copy", "done"} /\ entriesLeft' \subseteq entriesLeft
             \/ /\ f \in entriesLeft /\ entriesLeft' = entriesLeft \ {f}
                /\ copier' = "stat" /\ file' = [NoFile EXCEPT !.name = f]
  BY <1>5 DEF CopyNext
<1> QED BY <1>2, <1>3, <1>4, <1>5

LEMMA StatKeepsCopy ==
  ASSUME CopyIInv, StatBefore
  PROVE  CopyIInv'
<1>1. CASE Skips
  BY <1>1, SkipKeepsCopy DEF StatBefore
<1>2. CASE Fits(file.name) /\ file' = [file EXCEPT !.size = Size(file.name)] /\ copier' = "time" /\ UNCHANGED stats
  <2>1. copier = "stat" /\ CopySet /\ UNCHANGED entriesLeft
    BY DEF StatBefore, CopySame, titleVars, CopySet
  <2>2. file.name \in SaveFiles /\ file \in FileSet
    BY <2>1 DEF CopyIInv, CopyTypes, ListedOnce, Copying, FileSet
  <2>3. Size(file.name) \in Nat
    <3>1. content[file.name] \in Chunked
      BY <2>2 DEF CopyIInv, CopyTypes
    <3> QED BY <3>1 DEF Chunked, Size
  <2>4. file' \in FileSet /\ file'.name = file.name /\ file'.size = Size(file.name) /\ file'.read = file.read
    BY <1>2, <2>2, <2>3 DEF FileSet
  <2>5. CopyTypes'
    BY <1>2, <2>1, <2>4, TypesKept DEF Copying
  <2>6. ListedOnce'
    BY <1>2, <2>1, <2>4 DEF CopyIInv, ListedOnce, Copying, CopySet
  <2>7. BytesAreListed'
    BY <1>2, <2>1, <2>4 DEF CopyIInv, BytesAreListed, Fits
  <2>8. ReadIsStable'
    BY <1>2, <2>1, <2>4 DEF CopyIInv, ReadIsStable
  <2> QED BY <2>5, <2>6, <2>7, <2>8 DEF CopyIInv
<1> QED BY <1>1, <1>2 DEF StatBefore

LEMMA TimeKeepsCopy ==
  ASSUME CopyIInv, TimeBefore
  PROVE  CopyIInv'
<1>1. CASE Skips
  BY <1>1, SkipKeepsCopy DEF TimeBefore
<1>2. CASE content[file.name] # Absent /\ file' = [file EXCEPT !.time = time[file.name]] /\ copier' = "read" /\ UNCHANGED stats
  <2>1. copier = "time" /\ CopySet /\ UNCHANGED entriesLeft
    BY DEF TimeBefore, CopySame, titleVars, CopySet
  <2>2. file.name \in SaveFiles /\ file \in FileSet
    BY <2>1 DEF CopyIInv, CopyTypes, ListedOnce, Copying, FileSet
  <2>3. time[file.name] \in Nat /\ content[file.name] \in Seq(Nat)
    BY <1>2, <2>2 DEF CopyIInv, CopyTypes, Chunked
  <2>4. /\ file' \in FileSet /\ file'.name = file.name /\ file'.size = file.size
        /\ file'.time = time[file.name] /\ file'.read = file.read
    BY <1>2, <2>2, <2>3 DEF FileSet
  <2>5. CopyTypes'
    BY <1>2, <2>1, <2>4, TypesKept DEF Copying
  <2>6. ListedOnce'
    BY <1>2, <2>1, <2>4 DEF CopyIInv, ListedOnce, Copying, CopySet
  <2>7. BytesAreListed'
    BY <1>2, <2>1, <2>4 DEF CopyIInv, BytesAreListed, Copying
  <2>8. ReadIsStable'
    <3>1. file'.read = <<>>
      BY <2>1, <2>4 DEF CopyIInv, ReadIsStable
    <3>2. time[file.name] <= time[file.name] /\ Len(<<>>) <= Len(content[file.name]) /\ \A i : i \notin 1..Len(<<>>)
      BY <2>3
    <3> QED BY <1>2, <2>1, <2>4, <3>1, <3>2 DEF ReadIsStable, Unmoved, CopySet
  <2> QED BY <2>5, <2>6, <2>7, <2>8 DEF CopyIInv
<1> QED BY <1>1, <1>2 DEF TimeBefore

LEMMA ReadKeepsCopy ==
  ASSUME CopyIInv, ReadChunk
  PROVE  CopyIInv'
<1> DEFINE f == file.name
           next == Len(file.read) + 1
<1>1. copier = "read" /\ CopySame /\ CopySet /\ UNCHANGED entriesLeft
  BY DEF ReadChunk, CopySame, titleVars, CopySet
<1>2. f \in SaveFiles /\ file \in FileSet /\ file.read \in Seq(Nat) /\ content[f] \in Chunked
  <2>1. f \in SaveFiles /\ file \in FileSet
    BY <1>1 DEF CopyIInv, CopyTypes, ListedOnce, Copying, FileSet
  <2> QED BY <2>1 DEF CopyIInv, CopyTypes, FileSet
<1>3. /\ file.time <= time[f]
      /\ Unmoved => /\ content[f] # Absent /\ Len(file.read) <= Len(content[f])
                    /\ \A i \in 1..Len(file.read) : file.read[i] = content[f][i]
  BY <1>1 DEF CopyIInv, ReadIsStable
<1>4. CASE AttemptFails
  BY <1>1, <1>4, FailureKeepsCopy DEF Copying
<1>5. CASE next <= Size(f) /\ file' = [file EXCEPT !.read = Append(@, content[f][next])] /\ UNCHANGED <<copier, stats>>
  <2>1. content[f] \in Seq(Nat) /\ content[f] # Absent /\ next \in 1..Len(content[f]) /\ next \in Nat
    <3>1. next \in Nat /\ next >= 1
      BY <1>2
    <3>2. content[f] # Absent
      <4>1. ~(next <= 0)
        BY <3>1
      <4> QED BY <1>5, <4>1 DEF Size
    <3>3. content[f] \in Seq(Nat) /\ Size(f) = Len(content[f])
      BY <1>2, <3>2 DEF Chunked, Size
    <3> QED BY <1>5, <3>1, <3>2, <3>3
  <2> DEFINE chunk == content[f][next]
             read == Append(file.read, chunk)
  <2>2. chunk \in Nat
    BY <2>1
  <2>3. file' = [file EXCEPT !.read = read]
    BY <1>5
  <2>4. /\ read \in Seq(Nat) /\ Len(read) = next /\ read[next] = chunk
        /\ \A i \in 1..Len(file.read) : read[i] = file.read[i]
    <3> HIDE DEF chunk
    <3> QED BY <1>2, <2>2
  <2>5. 1..next = 1..Len(file.read) \cup {next}
    BY <1>2
  <2>6. /\ file' \in FileSet /\ file'.name = f /\ file'.size = file.size
        /\ file'.time = file.time /\ file'.read = read
    <3> HIDE DEF read
    <3> QED BY <1>2, <2>3, <2>4 DEF FileSet
  <2>7. CopyTypes'
    BY <1>1, <1>5, <2>6, TypesKept DEF Copying
  <2>8. ListedOnce'
    BY <1>1, <1>5, <2>6 DEF CopyIInv, ListedOnce, Copying, CopySet
  <2>9. BytesAreListed'
    BY <1>1, <1>5, <2>6 DEF CopyIInv, BytesAreListed
  <2>10. ReadIsStable'
    <3>1. copier' = "read"
      BY <1>1, <1>5
    <3>2. file'.time <= time[f] /\ (file'.time = time[f] <=> Unmoved)
      BY <1>3, <2>6 DEF Unmoved
    <3>3. Unmoved => \A i \in 1..Len(read) : read[i] = content[f][i]
      <4> HIDE DEF read
      <4> QED BY <1>3, <2>4, <2>5 DEF chunk
    <3>4. Len(read) <= Len(content[f])
      BY <2>1, <2>4
    <3> HIDE DEF read
    <3> QED BY <1>1, <2>1, <2>6, <3>1, <3>2, <3>3, <3>4 DEF ReadIsStable, Unmoved, CopySet
  <2> QED BY <2>7, <2>8, <2>9, <2>10 DEF CopyIInv
<1>6. CASE next > Size(f) /\ copier' = "after" /\ UNCHANGED <<file, stats>>
  <2>1. CopyTypes'
    BY <1>1, <1>2, <1>6, TypesKept DEF Copying
  <2>2. ListedOnce' /\ BytesAreListed'
    BY <1>1, <1>6 DEF CopyIInv, ListedOnce, BytesAreListed, Copying, CopySet
  <2>3. Unmoved => file.read = content[f]
    <3> SUFFICES ASSUME Unmoved PROVE file.read = content[f]
      OBVIOUS
    <3>1. content[f] \in Seq(Nat) /\ Size(f) = Len(content[f])
      BY <1>2, <1>3 DEF Chunked, Size
    <3>2. Len(file.read) = Len(content[f])
      <4>1. Len(file.read) \in Nat /\ Len(content[f]) \in Nat /\ Len(file.read) <= Len(content[f])
        BY <1>2, <1>3, <3>1
      <4>2. \A a, b \in Nat : a <= b /\ a + 1 > b => a = b
        OBVIOUS
      <4> QED BY <1>6, <3>1, <4>1, <4>2
    <3> QED BY <1>2, <1>3, <3>1, <3>2, SeqEqual
  <2>4. ReadIsStable'
    BY <1>1, <1>3, <1>6, <2>3 DEF ReadIsStable, Unmoved, CopySet
  <2> QED BY <2>1, <2>2, <2>4 DEF CopyIInv
<1> QED BY <1>4, <1>5, <1>6 DEF ReadChunk

LEMMA AfterKeepsCopy ==
  ASSUME CopyIInv, SizeAfter
  PROVE  CopyIInv'
<1>1. copier = "after" /\ CopySame /\ CopySet /\ UNCHANGED entriesLeft
  BY DEF SizeAfter, CopySame, titleVars, CopySet
<1>2. CASE AttemptFails
  BY <1>1, <1>2, FailureKeepsCopy DEF Copying
<1>3. CASE file.size = Size(file.name) /\ copier' = "compare" /\ UNCHANGED <<file, stats>>
  <2>1. CopyTypes'
    <3>1. file \in FileSet
      BY DEF CopyIInv, CopyTypes, FileSet
    <3> QED BY <1>1, <1>3, <3>1, TypesKept DEF Copying
  <2>2. ListedOnce' /\ BytesAreListed'
    BY <1>1, <1>3 DEF CopyIInv, ListedOnce, BytesAreListed, Copying, CopySet
  <2>3. Unmoved => file.size = Len(content[file.name])
    BY <1>1, <1>3 DEF CopyIInv, ReadIsStable, Size
  <2>4. ReadIsStable'
    BY <1>1, <1>3, <2>3 DEF CopyIInv, ReadIsStable, Unmoved, CopySet
  <2> QED BY <2>1, <2>2, <2>4 DEF CopyIInv
<1> QED BY <1>2, <1>3 DEF SizeAfter

LEMMA ListKeepsCopy ==
  ASSUME CopyIInv, copier = "compare", Stable(file.name), Lists, UNCHANGED entriesLeft, CopySame
  PROVE  CopyIInv'
<1> DEFINE f == file.name
           e == <<f, file.read>>
           bytes == stats.bytes + file.size
           list == stats.inventory \cup {e}
<1>1. stats' = [stats EXCEPT !.bytes = bytes, !.inventory = list] /\ copier' = "copy" /\ file' = NoFile /\ CopySet
  BY DEF Lists, CopySame, titleVars, CopySet
<1>2. /\ f \in SaveFiles /\ f \notin entriesLeft /\ file.read \in Seq(Nat) /\ file.size \in Nat
      /\ stats \in [bytes : Nat, skipped : Nat, inventory : SUBSET (SaveFiles \X Seq(Nat))]
  BY DEF CopyIInv, CopyTypes, ListedOnce, Copying
<1>3. file.read = content[f] /\ file.size = Len(file.read)
  BY DEF Stable, CopyIInv, ReadIsStable, Unmoved
<1>4. e \notin stats.inventory /\ e[1] = f /\ e[2] = file.read /\ Chunks(e) = file.size
  BY <1>3 DEF CopyIInv, ListedOnce, Copying, Chunks
<1>5. \A x \in stats.inventory : x[1] \in SaveFiles /\ Chunks(x) \in Nat
  BY <1>2 DEF Chunks
<1>6. /\ stats.bytes = Total(stats.inventory) /\ bytes <= MaxSaveBytes /\ IsFiniteSet(stats.inventory)
  BY DEF CopyIInv, CopyTypes, BytesAreListed, Copying
<1>7. IsFiniteSet(list)
  BY <1>6, FS_AddElement
<1>8. Total(list) = bytes
  <2> HIDE DEF e
  <2> QED BY <1>2, <1>4, <1>5, <1>6, TotalOfOneMore
<1>9. bytes \in Nat /\ list \in SUBSET (SaveFiles \X Seq(Nat))
  BY <1>2
<1>10. e[2] \in heldContents[e[1]]
  BY <1>2, <1>3, <1>4 DEF CopyIInv, CopyTypes
<1>11. \A x \in list : x \in stats.inventory \/ x = e
  OBVIOUS
<1> HIDE DEF bytes, list, e
<1>12. /\ stats' \in [bytes : Nat, skipped : Nat, inventory : SUBSET (SaveFiles \X Seq(Nat))]
       /\ stats'.bytes = bytes /\ stats'.inventory = list
  BY <1>1, <1>2, <1>9
<1>13. CopyTypes'
  BY <1>1, <1>7, <1>12, EmptyFile DEF CopyIInv, CopyTypes, CopySet, FileSet
<1>14. ListedOnce'
  BY <1>1, <1>2, <1>4, <1>10, <1>11, <1>12 DEF CopyIInv, ListedOnce, Copying, CopySet
<1>15. BytesAreListed' /\ ReadIsStable'
  BY <1>1, <1>6, <1>8, <1>12 DEF BytesAreListed, ReadIsStable, Copying
<1> QED BY <1>13, <1>14, <1>15 DEF CopyIInv

LEMMA CopyIInvStep ==
  ASSUME CopyIInv, [SaveCopyNext]_saveCopyVars
  PROVE  CopyIInv'
<1>1. CASE UNCHANGED saveCopyVars
  BY <1>1 DEF CopyIInv, CopyTypes, ListedOnce, BytesAreListed, ReadIsStable, Unmoved, saveCopyVars, titleVars, copyVars
<1>2. CASE RequestStop
  BY <1>2 DEF CopyIInv, CopyTypes, ListedOnce, BytesAreListed, ReadIsStable, Unmoved, RequestStop, titleVars, copyVars
<1>3. CASE StatAfter
  <2>1. copier = "compare" /\ CopySame /\ UNCHANGED entriesLeft
    BY <1>3 DEF StatAfter
  <2>2. (Stable(file.name) /\ Lists) \/ Skips \/ AttemptFails
    BY <1>3 DEF StatAfter
  <2> QED BY <2>1, <2>2, ListKeepsCopy, SkipKeepsCopy, FailureKeepsCopy DEF Copying
<1>4. CASE Copy
  BY <1>3, <1>4, NextKeepsCopy, StatKeepsCopy, TimeKeepsCopy, ReadKeepsCopy, AfterKeepsCopy DEF Copy
<1> QED BY <1>1, <1>2, <1>4, TitleKeepsCopy, GateKeepsCopy DEF SaveCopyNext

\* A listed file is what the save file held at one moment, whatever the title
\* writes while it is read, and the byte count is that of the listed files and
\* within the budget (CopySaveTrees, CopyStableFile).
THEOREM ListedStaysTrue == SaveCopySpec => []ListedIsTrue
<1>1. CopyIInv /\ [SaveCopyNext]_saveCopyVars => CopyIInv'
  BY CopyIInvStep
<1>2. CopyIInv => ListedIsTrue
  <2>1. Total(stats.inventory) = MapThenSumSet(LAMBDA entry : Len(entry[2]), stats.inventory)
    BY TotalIsTheSum
  <2> QED BY <2>1 DEF CopyIInv, ListedOnce, BytesAreListed, ListedIsTrue
<1> QED BY <1>1, <1>2, CopyStarts, PTL DEF SaveCopySpec

-----------------------------------------------------------------------------
(* The run of the observers.                                                *)

LEMMA SceneRuns ==
  /\ AllSpec => TriggerSpec
  /\ AllSpec => WorkerSpec /\ TrackerSpec /\ LedgerSpec /\ AuditSpec
  /\ AllSpec => TimerSpec /\ ImageSpec /\ WitnessSpec
<1>1. AllInit => /\ TriggerInit /\ WorkerInit /\ TrackerInit /\ LedgerInit /\ AuditInit /\ TimerInit /\ ImageInit
                 /\ WitnessInit
  BY DEF AllInit
<1>2. [AllNext]_<<scene, triggerVars, observed>> =>
        /\ [TriggerNext]_triggerVars /\ [WorkerNext]_workerVars /\ [TrackerNext]_trackerVars
        /\ [LedgerNext]_ledgerVars /\ [AuditNext]_auditVars /\ [TimerNext]_timerVars /\ [ImageNext]_imageVars
        /\ [WitnessNext]_witnessVars
  <2> SUFFICES ASSUME [AllNext]_<<scene, triggerVars, observed>>
               PROVE  /\ [TriggerNext]_triggerVars /\ [WorkerNext]_workerVars /\ [TrackerNext]_trackerVars
                      /\ [LedgerNext]_ledgerVars /\ [AuditNext]_auditVars /\ [TimerNext]_timerVars
                      /\ [ImageNext]_imageVars /\ [WitnessNext]_witnessVars
    OBVIOUS
  <2>1. CASE UNCHANGED <<scene, triggerVars, observed>>
    BY <2>1 DEF observed, coreVars
  <2>2. CASE TriggerNext /\ UNCHANGED observed
    BY <2>2 DEF observed, coreVars
  <2>3. CASE ObserverNext /\ UNCHANGED triggerVars
    BY <2>3 DEF ObserverNext, coreVars
  <2> QED BY <2>1, <2>2, <2>3 DEF AllNext
<1> QED BY <1>1, <1>2, PTL DEF AllSpec, TriggerSpec, WorkerSpec, TrackerSpec, LedgerSpec, AuditSpec, TimerSpec,
                               ImageSpec,
                           WitnessSpec

\* What the run checks of the cores, the audit, the timers, the image helper, the
\* triggers and the semaphore witness holds of it for every value of the constants.
THEOREM ObserversKeepTheirPromises ==
  AllSpec => /\ [](AttributionIsTrue /\ FreezeIsComplete /\ ImageOrNothing /\ CaughtUpMeansHeld /\ WitnessIsFaithful)
             /\ OnePackageEach
BY SceneRuns, AttributionStaysTrue, FrozenObserverIsComplete, ImageIsWholeOrNothing, NothingStaysStuck,
   WitnessStaysFaithful, OnePackagePerHold, PTL

-----------------------------------------------------------------------------
(* The run of the diagnostic threads.                                       *)

LEMMA ThreadsRun == ThreadsSpec => ManagerSpec /\ SaveCopySpec /\ PromptSpec
<1>1. ThreadsInit => ManagerInit /\ SaveCopyInit /\ TimedInit
  BY DEF ThreadsInit
<1>2. [ThreadsNext]_all => [ManagerNext]_managerVars /\ [SaveCopyNext]_saveCopyVars /\ [PromptNext]_timed
  BY DEF ThreadsNext, ManagerStep, CopyStep, HoldStep, all
<1> QED BY <1>1, <1>2, PTL DEF ThreadsSpec, ManagerSpec, SaveCopySpec, PromptSpec

\* What the run checks of the package, the copy of the save and the hold of a
\* gamepad, fairness aside, holds of it for every value of the constants.
THEOREM ThreadsKeepTheirPromises ==
  ThreadsSpec => [](ListedIsTrue /\ PackagesAreTrue) /\ NewestIsKept /\ ShortTapNeverFires
BY ThreadsRun, ListedStaysTrue, PackagesStayTrue, NewestStays, ShortTapsAreIgnored, PTL

=============================================================================
