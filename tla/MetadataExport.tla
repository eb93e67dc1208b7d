--------------------------- MODULE MetadataExport ---------------------------
(***************************************************************************)
(* Exporting a diagnostic report: the dialog, the controller's plan (which *)
(* pins the sources and holds the profile's writer lock between preview    *)
(* and confirmation) and the backend that writes the two files.  While a   *)
(* callback or a folder picker runs, messages are still dispatched: the    *)
(* fields may change, the dialog be closed or its owner destroyed.         *)
(***************************************************************************)
EXTENDS Naturals, Sequences, FiniteSets

CONSTANTS ExportInputs, \* contents of the two edit fields
          FactsOf,      \* what is on disk behind them, as a function
          MaxPlans,     \* previews explored
          MaxLogLines   \* lines of the log tail explored

VARIABLES xDialog,  \* the dialog's State
          xInput,   \* what the two fields hold
          xCall,    \* callback or picker in progress: its kind and request
          xPlan,    \* the controller's export_plan, or <<>>
          xSerial,  \* plans made
          xStage,   \* steps ConfirmExport has taken
          xOut,     \* the destination of the confirmed plan
          xShown,   \* plan whose files the preview shows
          xDone     \* plans reported as saved

exportVars == <<xDialog, xInput, xCall, xPlan, xSerial, xStage, xOut, xShown, xDone>>

NoCall == [kind |-> "none", input |-> "none", token |-> 0]
NoOut == [plan |-> 0, report |-> 0, marker |-> 0, foreign |-> FALSE]
ExportInit ==
    /\ xDialog = [life |-> "open", busy |-> FALSE, closing |-> FALSE, closePending |-> FALSE,
                  cancelSent |-> FALSE, ready |-> FALSE, complete |-> FALSE, prepared |-> "none"]
    /\ xInput = "none" /\ xCall = NoCall /\ xPlan = <<>> /\ xSerial = 0 /\ xStage = "none"
    /\ xOut = NoOut /\ xShown = 0 /\ xDone = {}

Gone == xDialog.life = "destroyed"
\* CancelPlan sends Cancel once per preview; the owner forwards it to the controller
\* even when its window is gone.  Cleared is the controller's CancelExport.
CancelPlan(d) == [d EXCEPT !.cancelSent = TRUE]
Cleared(d) == IF d.cancelSent THEN xPlan ELSE <<>>
Forget(d) == [d EXCEPT !.ready = FALSE, !.complete = FALSE, !.prepared = "none"]

\* FinishClose and, for a window destroyed by its owner, WM_NCDESTROY.
ClosesNow(d) == IF d.closing THEN d ELSE [CancelPlan(d) EXCEPT !.closing = TRUE, !.life = "destroyed"]
Invalidated(d) == IF d.closePending THEN ClosesNow(Forget(CancelPlan(d))) ELSE Forget(CancelPlan(d))

\* EN_CHANGE.  The fields are disabled while busy, so then only code that runs inside
\* the callback changes them, and it is noticed when the callback has returned.
EditField(input) ==
    /\ ~Gone /\ input # xInput /\ xInput' = input /\ xCall.kind # "picker"
    /\ IF xDialog.busy THEN UNCHANGED <<xDialog, xPlan, xShown>>
       ELSE xDialog' = Invalidated(xDialog) /\ xPlan' = Cleared(xDialog) /\ xShown' = 0
    /\ UNCHANGED <<xCall, xSerial, xStage, xOut, xDone>>
ClickClose ==
    /\ ~Gone /\ ~xDialog.closing
    /\ IF xDialog.busy THEN xDialog' = [xDialog EXCEPT !.closePending = TRUE] /\ UNCHANGED xPlan
       ELSE xDialog' = ClosesNow(xDialog) /\ xPlan' = Cleared(xDialog)
    /\ UNCHANGED <<xInput, xCall, xSerial, xStage, xOut, xShown, xDone>>
OwnerDestroys ==
    /\ ~Gone
    /\ IF xDialog.busy THEN xDialog' = [xDialog EXCEPT !.life = "destroyed", !.closePending = TRUE] /\ UNCHANGED xPlan
       ELSE xDialog' = [CancelPlan(xDialog) EXCEPT !.life = "destroyed"] /\ xPlan' = Cleared(xDialog)
    /\ UNCHANGED <<xInput, xCall, xSerial, xStage, xOut, xShown, xDone>>

Free == ~xDialog.busy /\ ~xDialog.closing /\ ~Gone
Busy(d, kind, token) == /\ xDialog' = [d EXCEPT !.busy = TRUE]
                        /\ xCall' = [kind |-> kind, input |-> xInput, token |-> token]
\* Dispatch(Prepare) drops the plan before it asks for another.
ClickPreview ==
    /\ Free /\ xSerial < MaxPlans
    /\ Busy([Forget(xDialog) EXCEPT !.cancelSent = FALSE], "prepare", 0)
    /\ xPlan' = Cleared(xDialog) /\ xShown' = 0
    /\ UNCHANGED <<xInput, xSerial, xStage, xOut, xDone>>
\* Dispatch(Confirm): only for the fields that were previewed.
ClickSave ==
    /\ Free /\ xDialog.ready /\ ~xDialog.complete
    /\ IF xInput = xDialog.prepared
       THEN Busy(xDialog, "confirm", xShown) /\ xStage' = "asked" /\ UNCHANGED <<xPlan, xShown>>
       ELSE /\ xDialog' = Invalidated(xDialog) /\ xPlan' = Cleared(xDialog) /\ xShown' = 0
            /\ UNCHANGED <<xCall, xStage>>
    /\ UNCHANGED <<xInput, xSerial, xOut, xDone>>
ClickBrowse == /\ Free /\ Busy(xDialog, "picker", 0)
               /\ UNCHANGED <<xInput, xPlan, xSerial, xStage, xOut, xShown, xDone>>

-----------------------------------------------------------------------------
(* The callback returns; what happened meanwhile is looked at in order.    *)

Idle == [xDialog EXCEPT !.busy = FALSE]
\* Mutant: a dialog destroyed meanwhile is left as it is.
ForgetsToCancel(d, plan) == plan
\* A dialog destroyed during the callback cancels the plan the callback made.
PlanOfGone(d, plan) == IF d.cancelSent THEN plan ELSE <<>>

\* ProjectLiveMetadata: a finished session of the selected profile, a receipt and a
\* capability record that re-serialise to the same bytes, a live manifest with the
\* required artifacts and the state it names, by length and hash.
Receipt(f) == f.receipt = "selected profile"
Projects(f) == /\ f.session = "complete" /\ Receipt(f)
               /\ f.capabilities \in {"canonical", "absent"}
               /\ f.manifest = "live" /\ f.stateHash = f.manifestHash

\* PrepareLiveExport: the folders, the writer lock, the pinned sources and their
\* projection, all or nothing; a disk error may refuse what is in order.
PrepareLiveExport == xCall.input \in ExportInputs /\ Projects(FactsOf[xCall.input])
\* PrepareExport keeps the plan, bound to the fields it was asked for.
PrepareExport(ok) == IF ok THEN <<[serial |-> xSerial + 1, input |-> xCall.input]>> ELSE <<>>
PrepareReturns(ok, displayed) ==
    /\ xCall.kind = "prepare" /\ xCall' = NoCall
    /\ ok => PrepareLiveExport
    /\ xSerial' = IF ok THEN xSerial + 1 ELSE xSerial
    /\ LET plan == PrepareExport(ok)
       IN CASE Gone -> /\ xDialog' = CancelPlan(Idle) /\ xPlan' = PlanOfGone(Idle, plan) /\ xShown' = 0
            [] ~Gone /\ xDialog.closePending -> /\ xDialog' = ClosesNow(Idle) /\ xPlan' = <<>> /\ xShown' = 0
            [] ~Gone /\ ~xDialog.closePending /\ xInput # xCall.input ->
                 /\ xDialog' = Invalidated(Idle) /\ xPlan' = <<>> /\ xShown' = 0
            [] ~Gone /\ ~xDialog.closePending /\ xInput = xCall.input /\ ok /\ displayed ->
                 /\ xDialog' = [Idle EXCEPT !.ready = TRUE, !.prepared = xCall.input]
                 /\ xPlan' = plan /\ xShown' = plan[1].serial
            [] OTHER -> /\ xDialog' = Forget(CancelPlan(Idle)) /\ xPlan' = <<>> /\ xShown' = 0
    /\ UNCHANGED <<xInput, xStage, xOut, xDone>>

PickerReturns(input) ==
    /\ xCall.kind = "picker" /\ xCall' = NoCall
    /\ CASE Gone -> /\ xDialog' = CancelPlan(Idle) /\ xPlan' = PlanOfGone(Idle, xPlan)
                    /\ UNCHANGED <<xInput, xShown>>
         [] ~Gone /\ xDialog.closePending -> /\ xDialog' = ClosesNow(Idle) /\ xPlan' = Cleared(Idle)
                                             /\ UNCHANGED <<xInput, xShown>>
         [] ~Gone /\ ~xDialog.closePending /\ input # xInput ->   \* SetDlgItemText sends EN_CHANGE
              /\ xInput' = input /\ xDialog' = Invalidated(Idle) /\ xPlan' = Cleared(Idle) /\ xShown' = 0
         [] OTHER -> xDialog' = Idle /\ UNCHANGED <<xInput, xPlan, xShown>>
    /\ UNCHANGED <<xSerial, xStage, xOut, xDone>>

\* ConfirmExport in the controller, then in the backend: a fresh directory, seen empty,
\* the report, seen alone, the marker, seen with the report alone.
Confirming(stage) == xCall.kind = "confirm" /\ xStage = stage
ConfirmSame == UNCHANGED <<xDialog, xInput, xCall, xPlan, xSerial, xShown, xDone>>
Matches == xPlan # <<>> /\ xCall.token = xPlan[1].serial /\ xCall.input = xPlan[1].input
CreateChild == /\ Confirming("asked") /\ Matches /\ xStage' = "created"
               /\ xOut' = [NoOut EXCEPT !.plan = xPlan[1].serial] /\ ConfirmSame
WriteReport == /\ Confirming("created") /\ ~xOut.foreign /\ xStage' = "report"
               /\ xOut' = [xOut EXCEPT !.report = xPlan[1].serial] /\ ConfirmSame
WriteMarker == /\ Confirming("report") /\ ~xOut.foreign /\ xOut.report = xPlan[1].serial /\ xStage' = "marker"
               /\ xOut' = [xOut EXCEPT !.marker = xPlan[1].serial] /\ ConfirmSame
\* Another process puts a file into the directory.
ForeignFile == /\ xCall.kind = "confirm" /\ xOut.plan # 0 /\ xStage # "asked" /\ ~xOut.foreign
               /\ xOut' = [xOut EXCEPT !.foreign = TRUE]
               /\ UNCHANGED xStage /\ ConfirmSame
\* The result, after success or at any failing step; the plan is used up either way,
\* and a partial directory stays.
ConfirmReturns(ok) ==
    /\ xCall.kind = "confirm" /\ xCall' = NoCall /\ xStage' = "none"
    /\ ok => Confirming("marker") /\ ~xOut.foreign
    /\ xPlan' = <<>>
    /\ xDone' = IF ok THEN xDone \cup {xOut.plan} ELSE xDone
    /\ LET d == [Idle EXCEPT !.ready = FALSE, !.complete = ok]
       IN CASE Gone -> xDialog' = CancelPlan(Idle) /\ UNCHANGED xShown
            [] ~Gone /\ xDialog.closePending -> xDialog' = ClosesNow(Idle) /\ UNCHANGED xShown
            [] ~Gone /\ ~xDialog.closePending /\ xInput # xCall.input -> xDialog' = Invalidated(Idle) /\ xShown' = 0
            [] OTHER -> xDialog' = d /\ UNCHANGED xShown
    /\ UNCHANGED <<xInput, xSerial, xOut>>

ExportNext ==
    \/ ClickClose \/ OwnerDestroys \/ ClickPreview \/ ClickSave \/ ClickBrowse
    \/ CreateChild \/ WriteReport \/ WriteMarker \/ ForeignFile
    \/ \E input \in ExportInputs : EditField(input) \/ PickerReturns(input)
    \/ \E ok \in BOOLEAN : ConfirmReturns(ok)
    \/ \E ok, displayed \in BOOLEAN : PrepareReturns(ok, displayed)

-----------------------------------------------------------------------------
(* PerformanceSummary: counter lines of the log tail grouped into minutes. *)

VARIABLES xLines,   \* kinds of the counter lines read
          xCurrent, \* the open record: kinds it has, by line
          xMinutes  \* records kept

perfVars == <<xLines, xCurrent, xMinutes>>
LineKinds == {"pacing", "draws", "gpu", "replay"}
PerfInit == xLines = <<>> /\ xCurrent = {} /\ xMinutes = <<>>
KindsOf(record) == {xLines[i] : i \in record}
\* flush keeps a record only if it has a pacing line.
Flushed == IF "pacing" \in KindsOf(xCurrent) THEN Append(xMinutes, xCurrent) ELSE xMinutes
PerfLine(kind) ==
    LET full == kind \in KindsOf(xCurrent) \/ (kind = "replay" /\ "pacing" \in KindsOf(xCurrent))
        n == Len(xLines) + 1
    IN /\ Len(xLines) < MaxLogLines /\ xLines' = Append(xLines, kind)
       /\ xCurrent' = IF full THEN {n} ELSE xCurrent \cup {n}
       /\ xMinutes' = IF full THEN Flushed ELSE xMinutes
PerfNext == \E kind \in LineKinds : PerfLine(kind)

\* The dialog and the reader of the log have nothing in common.
ExportSpec == /\ ExportInit /\ PerfInit
              /\ [][\/ ExportNext /\ UNCHANGED perfVars
                    \/ PerfNext /\ UNCHANGED exportVars]_<<exportVars, perfVars>>

\* Every pacing line ends up in exactly one record, in order, and a record never mixes
\* two lines of one kind or lines from both sides of another record.
MinutesAreWhole ==
    LET all == Flushed
        pacing == {i \in DOMAIN xLines : xLines[i] = "pacing"}
    IN /\ Len(all) = Cardinality(pacing)
       /\ \A m \in DOMAIN all : \A i, j \in all[m] : i # j => xLines[i] # xLines[j]
       /\ \A m, k \in DOMAIN all : m < k => \A i \in all[m], j \in all[k] : i < j

-----------------------------------------------------------------------------

\* A plan, which holds the profile's lock, exists only while its own preview is on the
\* screen above the fields it was made from, or a callback is still running: it dies
\* with the dialog, however that was closed.  What is reported as saved is the plan
\* that was shown, alone in its directory, and a completion marker on disk always
\* stands beside the whole report.
ExportIsWhatWasShown ==
    /\ xPlan # <<>> /\ xCall.kind = "none" =>
         ~Gone /\ xDialog.ready /\ xPlan[1].serial = xShown /\ xPlan[1].input = xInput
    /\ xPlan # <<>> => Projects(FactsOf[xPlan[1].input])
    /\ xCall.kind = "confirm" /\ xPlan # <<>> => xPlan[1].serial = xShown
    /\ xOut.marker # 0 => xOut.report = xOut.marker /\ xOut.marker = xOut.plan
    /\ xOut.plan \in xDone => xOut.marker = xOut.plan
    /\ MinutesAreWhole
=============================================================================
