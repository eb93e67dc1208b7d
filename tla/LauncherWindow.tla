--------------------------- MODULE LauncherWindow ---------------------------
(***************************************************************************)
(* The launcher's window: form, readiness display and the background check *)
(* it runs on a worker thread.  Controller calls of the GUI thread are     *)
(* single steps; the worker's CheckLaunch spans an interval in which the   *)
(* user may edit the form, press buttons, open dialogs or close.           *)
(***************************************************************************)
EXTENDS Naturals, FiniteSets

CONSTANTS FormSetups, \* contents of build, game, GPU, target, vsync, fullscreen
          Timings,    \* frame-rate choices
          FormProfiles, \* managed profiles of the library
          MaxFormEdits    \* generations explored

VARIABLES uw, \* WindowState
          uc, \* LauncherController: stored setup, selected profile, session
          ug  \* history: overlapping controller calls, wrong saves, setups a check passed

windowVars == <<uw, uc, ug>>

Forms == [setup : FormSetups, timing : Timings, profile : FormProfiles]
NoForm == [setup |-> "none", timing |-> "none", profile |-> "none"]

WindowInit ==
    /\ \E f \in Forms :
         /\ f = CHOOSE g \in Forms : TRUE
         /\ uw = [form |-> f, model |-> [saved |-> f, selected |-> f.profile, running |-> FALSE],
                  ready |-> "Unchecked", checked |-> NoForm, gen |-> 0, dirty |-> FALSE, auto |-> FALSE,
                  worker |-> "none", pending |-> NoForm, pendingGen |-> 0, verdict |-> FALSE,
                  operation |-> "none", closing |-> FALSE, life |-> "open", fresh |-> TRUE]
         /\ uc = [saved |-> f, selected |-> f.profile, session |-> FALSE]
    /\ ug = [overlap |-> FALSE, missaved |-> FALSE, passed |-> {}]

\* SameSetup leaves the timing out: a change of timing only shows in the generation.
SameSetup(a, b) == a.setup = b.setup /\ a.profile = b.profile
SelectedManagedRoot(w, f) == IF f.profile = w.model.selected THEN f.profile ELSE "none"
View(c) == [saved |-> c.saved, selected |-> c.selected, running |-> c.session]

\* Mutant: a change does not make the running check stale.
KeepsGeneration(w, dirty) == w.gen
NextGeneration(w, dirty) == IF dirty THEN w.gen + 1 ELSE w.gen
InvalidateReadiness(w, dirty) ==
    [w EXCEPT !.gen = NextGeneration(w, dirty), !.dirty = @ \/ dirty, !.auto = @ /\ ~dirty,
              !.ready = "Unchecked", !.checked = NoForm, !.fresh = TRUE]

\* ReadinessPresentation: a Ready that no longer fits the form, or whose minute or lease
\* is over, is taken back; an untouched setup is checked again by itself.
ReadinessPresentation(w) ==
    CASE w.ready = "Ready" /\ (~SameSetup(w.form, w.checked)
                               \/ SelectedManagedRoot(w, w.form) # w.checked.profile) -> InvalidateReadiness(w, TRUE)
      [] w.ready = "Ready" /\ SameSetup(w.form, w.checked) /\ ~w.fresh ->
           [InvalidateReadiness(w, FALSE) EXCEPT !.auto = ~w.dirty /\ ~w.closing]
      [] OTHER -> w
\* Render takes the selection from the model and keeps the rest of the draft.
Render(w) == ReadinessPresentation([w EXCEPT !.form.profile = w.model.selected])

Open == uw.life = "open"
Calls == ug' = [ug EXCEPT !.overlap = @ \/ uw.worker = "running"]
Dispatches == Open /\ uw.operation = "none" /\ uw.worker = "none" /\ ~uw.closing /\ ~uw.model.running

-----------------------------------------------------------------------------
(* WM_COMMAND: edits, selection, buttons.                                  *)

EditSetup(setup, timing) ==
    /\ Open /\ ~uw.closing /\ uw.operation = "none" /\ ~uw.model.running /\ uw.gen < MaxFormEdits
    /\ <<setup, timing>> # <<uw.form.setup, uw.form.timing>>
    /\ uw' = ReadinessPresentation(InvalidateReadiness([uw EXCEPT !.form.setup = setup, !.form.timing = timing], TRUE))
    /\ UNCHANGED <<uc, ug>>
\* The controller's SelectProfile, which may fail to save.
SelectProfile(p, ok) ==
    /\ Dispatches /\ p # uw.form.profile /\ uw.gen < MaxFormEdits /\ Calls
    /\ uc' = IF ok THEN [uc EXCEPT !.selected = p] ELSE uc
    /\ uw' = Render([InvalidateReadiness(uw, TRUE) EXCEPT !.model = View(uc')])
\* Save settings keeps a passed check, unless what came back is not what was asked.
SaveSettings(ok) ==
    /\ Dispatches /\ Calls
    /\ uc' = IF ok THEN [uc EXCEPT !.saved = uw.form] ELSE uc
    /\ LET w == [uw EXCEPT !.model = View(uc')]
       IN uw' = Render(IF uc'.saved.setup # uw.form.setup THEN InvalidateReadiness(w, uw.gen < MaxFormEdits) ELSE w)
\* START GAME: looked at afresh, refused only when blocked; Settings, then Start.
Play(saves, starts) ==
    /\ Dispatches /\ SelectedManagedRoot(uw, uw.form) # "none" /\ uw.gen < MaxFormEdits
    /\ LET w == ReadinessPresentation(uw)
       IN IF w.ready = "Blocked" THEN uw' = w /\ UNCHANGED <<uc, ug>>
          ELSE /\ Calls
               /\ uc' = [uc EXCEPT !.saved = IF saves THEN uw.form ELSE @, !.session = saves /\ starts]
               /\ LET v == [InvalidateReadiness(w, TRUE) EXCEPT !.model = View(uc')]
                  IN uw' = Render(IF saves /\ starts THEN v ELSE [v EXCEPT !.ready = "Blocked"])
\* An action that throws leaves the window refusing everything until a Refresh answers.
DispatchThrows == /\ Dispatches /\ uw.gen < MaxFormEdits /\ Calls
                  /\ uw' = Render([InvalidateReadiness(uw, TRUE) EXCEPT !.model.running = TRUE]) /\ UNCHANGED uc
\* The refresh timer runs while a game does.
Refresh(ended) ==
    /\ Open /\ uw.model.running /\ uw.operation = "none" /\ uw.worker = "none" /\ ~uw.closing /\ Calls
    /\ uc' = [uc EXCEPT !.session = @ /\ ~ended]
    /\ LET w == [uw EXCEPT !.model = View(uc')]
       IN uw' = Render(IF ~uc'.session THEN InvalidateReadiness(w, uw.gen < MaxFormEdits) ELSE w)

\* OpenOperation and OpenExport disable the window; the export's callback calls the
\* controller only when no check runs, and cancels its plan even for a closing window.
OpenDialog(kind) == /\ Dispatches /\ uw' = [uw EXCEPT !.operation = kind] /\ UNCHANGED <<uc, ug>>
ExportCallback == /\ Open /\ uw.operation = "export" /\ uw.worker = "none" /\ Calls /\ UNCHANGED <<uw, uc>>
CloseDialog(submit) ==
    /\ Open /\ uw.operation # "none" /\ (submit => uw.operation = "profile" /\ uw.gen < MaxFormEdits)
    /\ LET w == [uw EXCEPT !.operation = "none"]
       IN IF submit /\ uw.worker = "none" /\ ~uw.closing
          THEN Calls /\ uw' = Render(InvalidateReadiness(w, TRUE))
          ELSE uw' = Render(w) /\ UNCHANGED ug
    /\ UNCHANGED uc

-----------------------------------------------------------------------------
(* The background check.                                                   *)

StartCheck(automatic) ==
    /\ Open /\ uw.worker = "none" /\ uw.operation = "none" /\ ~uw.closing /\ ~uw.model.running
    /\ automatic => ~uw.dirty
    /\ LET w == InvalidateReadiness([uw EXCEPT !.auto = FALSE], FALSE)
       IN uw' = Render([w EXCEPT !.worker = "running", !.pending = [uw.form EXCEPT !.profile = SelectedManagedRoot(uw, uw.form)],
                                 !.pendingGen = uw.gen])
    /\ UNCHANGED <<uc, ug>>
\* CheckLaunch on the worker: the request against the stored selection and the disk.
CheckLaunch(passes) ==
    /\ uw.worker = "running" /\ (passes => uw.pending.profile = uc.selected)
    /\ uw' = [uw EXCEPT !.worker = "done", !.verdict = passes]
    /\ ug' = IF passes THEN [ug EXCEPT !.passed = @ \cup {uw.pending}] ELSE ug
    /\ UNCHANGED uc
\* AcceptCheck, then PersistCheckedSetup: a passed setup that is not the stored one is saved.
Accepted(w) == IF w.verdict THEN [w EXCEPT !.ready = "Ready", !.checked = w.pending, !.dirty = FALSE, !.fresh = TRUE]
               ELSE [w EXCEPT !.ready = "Blocked", !.dirty = FALSE]
PollCheck(saves) ==
    LET current == uw.pendingGen = uw.gen /\ SameSetup(uw.form, uw.pending)
                   /\ SelectedManagedRoot(uw, uw.form) = uw.pending.profile
        w == [uw EXCEPT !.worker = "none", !.verdict = FALSE, !.pending = NoForm, !.pendingGen = 0]
        a == [Accepted(uw) EXCEPT !.worker = "none", !.verdict = FALSE, !.pending = NoForm, !.pendingGen = 0]
        persists == current /\ a.ready = "Ready" /\ uc.saved # uw.pending
    IN /\ Open /\ uw.worker = "done"
       /\ CASE uw.closing -> uw' = [w EXCEPT !.life = "destroyed"] /\ UNCHANGED <<uc, ug>>
            [] ~uw.closing /\ ~current -> /\ uw' = Render(InvalidateReadiness(w, uw.gen < MaxFormEdits))
                                          /\ UNCHANGED <<uc, ug>>
            [] OTHER -> /\ uc' = IF persists /\ saves THEN [uc EXCEPT !.saved = uw.pending] ELSE uc
                        /\ ug' = IF persists /\ saves THEN [ug EXCEPT !.missaved = @ \/ uw.pending # uw.form] ELSE ug
                        /\ uw' = Render([a EXCEPT !.model = View(uc')])
\* The readiness timer; the minute of a passed check ends.
PollIdle == /\ Open /\ uw.worker = "none" /\ ~uw.closing /\ ReadinessPresentation(uw) # uw
            /\ uw' = ReadinessPresentation(uw) /\ UNCHANGED <<uc, ug>>
AutoRecheck == uw.auto /\ StartCheck(TRUE)
MinuteEnds == /\ Open /\ uw.ready = "Ready" /\ uw.fresh /\ uw' = [uw EXCEPT !.fresh = FALSE] /\ UNCHANGED <<uc, ug>>

\* WM_CLOSE waits for the check; a window destroyed from outside takes its dialog with
\* it and joins the worker before the controller's owner gets control back.
CloseWindow == /\ Open /\ ~uw.closing /\ uw.operation = "none"
               /\ uw' = IF uw.worker # "none" THEN [uw EXCEPT !.closing = TRUE, !.auto = FALSE]
                        ELSE [uw EXCEPT !.life = "destroyed"]
               /\ UNCHANGED <<uc, ug>>
DestroyWindow == /\ Open
                 /\ IF uw.operation = "export" THEN Calls ELSE UNCHANGED ug
                 /\ uw' = [uw EXCEPT !.life = IF uw.worker = "running" THEN "joining" ELSE "destroyed", !.operation = "none"]
                 /\ UNCHANGED uc
JoinWorker == /\ uw.life = "joining" /\ uw.worker # "running"
              /\ uw' = [uw EXCEPT !.life = "destroyed"] /\ UNCHANGED <<uc, ug>>

WindowNext ==
    \/ \E setup \in FormSetups, timing \in Timings : EditSetup(setup, timing)
    \/ \E p \in FormProfiles, ok \in BOOLEAN : SelectProfile(p, ok)
    \/ \E a, b \in BOOLEAN : Play(a, b)
    \/ \E b \in BOOLEAN : SaveSettings(b) \/ Refresh(b) \/ CloseDialog(b) \/ StartCheck(b) \/ CheckLaunch(b) \/ PollCheck(b)
    \/ \E kind \in {"profile", "export"} : OpenDialog(kind)
    \/ ExportCallback \/ DispatchThrows \/ PollIdle \/ AutoRecheck \/ MinuteEnds
    \/ CloseWindow \/ DestroyWindow \/ JoinWorker

WindowSpec == WindowInit /\ [][WindowNext]_windowVars

-----------------------------------------------------------------------------

\* Ready is about what the form shows now: that very setup, its timing included, passed
\* a check for the profile still selected.  A result that became stale meanwhile saves
\* nothing.  The controller never runs on two threads at once and is never left with a
\* worker of a destroyed window.
WindowShowsItsCheck ==
    /\ uw.ready = "Ready" /\ Open =>
         uw.form = uw.checked /\ uw.form \in ug.passed /\ uw.form.profile = uc.selected /\ ~uc.session
    /\ ~ug.missaved /\ ~ug.overlap
    /\ uw.life = "destroyed" => uw.worker # "running"
=============================================================================
