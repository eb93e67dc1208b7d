----------------------------- MODULE LauncherProofs -----------------------------
(***************************************************************************)
(* What the launcher shows, for every form, profile, folder and log:       *)
(*                                                                         *)
(*   ReadyIsAboutTheForm   Ready is about the form on the screen, and was  *)
(*                         found by the check of that form                 *)
(*   ExportTellsTheTruth   a plan is the one previewed, what is reported   *)
(*                         saved is whole, and the minutes of the summary  *)
(*                         are the minutes of the log                      *)
(***************************************************************************)
EXTENDS LauncherWindow, MetadataExport, FiniteSetTheorems, TLAPS

-----------------------------------------------------------------------------
(* The window.                                                              *)
(*                                                                          *)
(* That Ready is about the form needs to know what a check that still runs  *)
(* is about: as long as the generation is the one it was started in, the    *)
(* form is the one it was started for (a check compares set-up and profile  *)
(* but not the timing, so the generation is all there is).                  *)

AnyForms == [setup : FormSetups \cup {"none"}, timing : Timings \cup {"none"}, profile : FormProfiles \cup {"none"}]
Models == [saved : AnyForms, selected : FormProfiles, running : BOOLEAN]
Windows == [form : Forms, model : Models, ready : {"Unchecked", "Ready", "Blocked"}, checked : AnyForms,
            gen : Nat, dirty : BOOLEAN, auto : BOOLEAN, worker : {"none", "running", "done"}, pending : AnyForms,
            pendingGen : Nat, verdict : BOOLEAN, operation : {"none", "profile", "export"}, closing : BOOLEAN,
            life : {"open", "joining", "destroyed"}, fresh : BOOLEAN]
Controllers == [saved : AnyForms, selected : FormProfiles, session : BOOLEAN]
Ghosts == [overlap : BOOLEAN, missaved : BOOLEAN, passed : SUBSET AnyForms]

ShowsProfile(w, c) == w.form.profile = w.model.selected /\ w.model.selected = c.selected
KnowsSession(w, c) == (c.session => w.model.running) /\ (w.worker # "none" => ~c.session)
ReadyIsPassed(w, c, g) == w.ready = "Ready" => w.form = w.checked /\ w.form \in g.passed /\ ~c.session
CheckIsOfForm(w) == w.worker # "none" => w.pendingGen <= w.gen /\ (w.pendingGen = w.gen => w.form = w.pending)
VerdictIsPassed(w, g) == w.worker = "done" /\ w.verdict => w.pending \in g.passed
OneCaller(w) == (w.operation # "none" => w.worker = "none") /\ (w.life = "destroyed" => w.worker # "running")
Consistent(w, c, g) ==
  /\ w \in Windows /\ c \in Controllers
  /\ ShowsProfile(w, c) /\ KnowsSession(w, c) /\ ReadyIsPassed(w, c, g)
  /\ CheckIsOfForm(w) /\ VerdictIsPassed(w, g) /\ OneCaller(w)

WindowInv == Consistent(uw, uc, ug) /\ ug \in Ghosts /\ ~ug.missaved /\ ~ug.overlap

LEMMA InvalidateFields ==
  ASSUME NEW w \in Windows, NEW d \in BOOLEAN
  PROVE  LET v == InvalidateReadiness(w, d)
         IN /\ v \in Windows /\ v.form = w.form /\ v.model = w.model /\ v.ready = "Unchecked"
            /\ v.gen = (IF d THEN w.gen + 1 ELSE w.gen) /\ v.worker = w.worker /\ v.pending = w.pending
            /\ v.pendingGen = w.pendingGen /\ v.verdict = w.verdict /\ v.operation = w.operation
            /\ v.closing = w.closing /\ v.life = w.life
<1>1. NoForm \in AnyForms
  BY DEF NoForm, AnyForms
<1>2. NextGeneration(w, d) \in Nat /\ NextGeneration(w, d) = (IF d THEN w.gen + 1 ELSE w.gen)
  BY DEF NextGeneration, Windows
<1>3. (w.dirty \/ d) \in BOOLEAN /\ (w.auto /\ ~d) \in BOOLEAN
  OBVIOUS
<1> QED BY <1>1, <1>2, <1>3 DEF InvalidateReadiness, Windows

\* Taking the readiness back is always sound.
LEMMA InvalidateConsistent ==
  ASSUME NEW w, NEW c, NEW g, NEW d \in BOOLEAN, Consistent(w, c, g)
  PROVE  Consistent(InvalidateReadiness(w, d), c, g)
<1> DEFINE v == InvalidateReadiness(w, d)
<1>1. w \in Windows /\ c \in Controllers
  BY DEF Consistent
<1>2. /\ v \in Windows /\ v.form = w.form /\ v.model = w.model /\ v.ready = "Unchecked"
      /\ v.gen = (IF d THEN w.gen + 1 ELSE w.gen) /\ v.worker = w.worker /\ v.pending = w.pending
      /\ v.pendingGen = w.pendingGen /\ v.verdict = w.verdict /\ v.operation = w.operation
      /\ v.closing = w.closing /\ v.life = w.life
  BY <1>1, InvalidateFields
<1> HIDE DEF v
<1>3. ShowsProfile(v, c) /\ KnowsSession(v, c) /\ ReadyIsPassed(v, c, g) /\ VerdictIsPassed(v, g) /\ OneCaller(v)
  BY <1>2 DEF Consistent, ShowsProfile, KnowsSession, ReadyIsPassed, VerdictIsPassed, OneCaller
<1>4. CheckIsOfForm(v)
  <2>1. w.gen \in Nat /\ w.pendingGen \in Nat /\ CheckIsOfForm(w)
    BY <1>1 DEF Windows, Consistent
  <2>2. CASE d
    BY <1>2, <2>1, <2>2 DEF CheckIsOfForm
  <2>3. CASE ~d
    BY <1>2, <2>1, <2>3 DEF CheckIsOfForm
  <2> QED BY <2>2, <2>3
<1>5. Consistent(v, c, g)
  BY <1>1, <1>2, <1>3, <1>4 DEF Consistent
<1> QED BY <1>5 DEF v

LEMMA PresentationConsistent ==
  ASSUME NEW w, NEW c, NEW g, Consistent(w, c, g)
  PROVE  Consistent(ReadinessPresentation(w), c, g)
<1>1. Consistent(InvalidateReadiness(w, TRUE), c, g) /\ Consistent(InvalidateReadiness(w, FALSE), c, g)
  BY InvalidateConsistent
<1> DEFINE i == InvalidateReadiness(w, FALSE)
           v == [i EXCEPT !.auto = ~w.dirty /\ ~w.closing]
<1>2. i \in Windows /\ (~w.dirty /\ ~w.closing) \in BOOLEAN
  BY <1>1 DEF Consistent
<1> HIDE DEF i
<1>3. /\ v \in Windows /\ v.form = i.form /\ v.model = i.model /\ v.ready = i.ready /\ v.checked = i.checked
      /\ v.gen = i.gen /\ v.worker = i.worker /\ v.pending = i.pending /\ v.pendingGen = i.pendingGen
      /\ v.verdict = i.verdict /\ v.operation = i.operation /\ v.life = i.life
  BY <1>2 DEF Windows
<1> HIDE DEF v
<1>4. Consistent(v, c, g)
  BY <1>1, <1>3 DEF i, Consistent, ShowsProfile, KnowsSession, ReadyIsPassed, CheckIsOfForm, VerdictIsPassed, OneCaller
<1> QED BY <1>1, <1>4 DEF ReadinessPresentation, i, v

LEMMA RenderConsistent ==
  ASSUME NEW w, NEW c, NEW g, Consistent(w, c, g)
  PROVE  Consistent(Render(w), c, g)
<1>1. w \in Windows /\ w.form \in Forms /\ w.form.profile = w.model.selected
  BY DEF Consistent, ShowsProfile, Windows
<1>2. [w EXCEPT !.form.profile = w.model.selected] = w
  <2>1. [w.form EXCEPT !.profile = w.model.selected] = w.form
    BY <1>1 DEF Forms
  <2>2. [w EXCEPT !.form = w.form] = w
    BY <1>1 DEF Windows
  <2> QED BY <2>1, <2>2
<1> QED BY <1>2, PresentationConsistent DEF Render

\* What the controller answered is shown, while no check runs.
LEMMA AnswerConsistent ==
  ASSUME NEW w, NEW c, NEW g, Consistent(w, c, g), w.worker = "none", NEW d \in Controllers, d.selected = c.selected,
         w.ready = "Ready" => ~d.session
  PROVE  Consistent([w EXCEPT !.model = View(d)], d, g)
<1> DEFINE m == View(d)
           v == [w EXCEPT !.model = m]
<1>1. m \in Models /\ m.selected = d.selected /\ m.running = d.session
  BY DEF View, Models, Controllers
<1> HIDE DEF m
<1>2. w \in Windows
  BY DEF Consistent
<1>3. /\ v \in Windows /\ v.form = w.form /\ v.model = m /\ v.ready = w.ready /\ v.checked = w.checked
      /\ v.worker = w.worker /\ v.operation = w.operation /\ v.life = w.life
  BY <1>1, <1>2 DEF Windows
<1> HIDE DEF v
<1>4. Consistent(v, d, g)
  BY <1>1, <1>3 DEF Consistent, ShowsProfile, KnowsSession, ReadyIsPassed, CheckIsOfForm, VerdictIsPassed, OneCaller
<1> QED BY <1>4 DEF v, m

LEMMA CallsKeep ==
  ASSUME ug \in Ghosts, ~ug.missaved, ~ug.overlap, uw.worker # "running", Calls
  PROVE  ug' \in Ghosts /\ ~ug'.missaved /\ ~ug'.overlap /\ ug'.passed = ug.passed
<1>1. ug' = [ug EXCEPT !.overlap = ug.overlap \/ uw.worker = "running"]
  BY DEF Calls
<1>2. (ug.overlap \/ uw.worker = "running") = FALSE
  BY DEF Ghosts
<1> QED BY <1>1, <1>2 DEF Ghosts

\* Only the setups that passed matter to what is shown.
LEMMA SamePassed ==
  ASSUME NEW w, NEW c, NEW g, NEW h, h.passed = g.passed, Consistent(w, c, g)
  PROVE  Consistent(w, c, h)
BY DEF Consistent, ReadyIsPassed, VerdictIsPassed

LEMMA EditKeeps ==
  ASSUME WindowInv, NEW setup \in FormSetups, NEW timing \in Timings, EditSetup(setup, timing)
  PROVE  WindowInv'
<1> DEFINE w == [uw EXCEPT !.form.setup = setup, !.form.timing = timing]
           i == InvalidateReadiness(w, TRUE)
<1>1. uw' = ReadinessPresentation(i) /\ UNCHANGED <<uc, ug>>
  BY DEF EditSetup
<1>2. uw \in Windows /\ uw.form \in Forms /\ Consistent(uw, uc, ug) /\ ug \in Ghosts /\ ~ug.missaved /\ ~ug.overlap
  BY DEF WindowInv, Consistent, Windows
<1>3. LET f == [uw.form EXCEPT !.setup = setup, !.timing = timing]
      IN f \in Forms /\ f.profile = uw.form.profile /\ w = [uw EXCEPT !.form = f]
  BY <1>2 DEF Forms, Windows
<1>4. /\ w \in Windows /\ w.form.profile = uw.form.profile /\ w.model = uw.model /\ w.gen = uw.gen
      /\ w.worker = uw.worker /\ w.pending = uw.pending /\ w.pendingGen = uw.pendingGen /\ w.verdict = uw.verdict
      /\ w.operation = uw.operation /\ w.life = uw.life
  BY <1>2, <1>3 DEF Windows
<1> HIDE DEF w
<1>5. /\ i \in Windows /\ i.form = w.form /\ i.model = w.model /\ i.ready = "Unchecked"
      /\ i.gen = w.gen + 1 /\ i.worker = w.worker /\ i.pending = w.pending
      /\ i.pendingGen = w.pendingGen /\ i.verdict = w.verdict /\ i.operation = w.operation /\ i.life = w.life
  BY <1>4, InvalidateFields
<1> HIDE DEF i
<1>6. ShowsProfile(i, uc) /\ KnowsSession(i, uc) /\ ReadyIsPassed(i, uc, ug) /\ VerdictIsPassed(i, ug) /\ OneCaller(i)
  BY <1>2, <1>4, <1>5 DEF Consistent, ShowsProfile, KnowsSession, ReadyIsPassed, VerdictIsPassed, OneCaller
<1>7. CheckIsOfForm(i)
  <2>1. uw.gen \in Nat /\ uw.pendingGen \in Nat /\ (uw.worker # "none" => uw.pendingGen <= uw.gen)
    BY <1>2 DEF Windows, Consistent, CheckIsOfForm
  <2> QED BY <1>4, <1>5, <2>1 DEF CheckIsOfForm
<1>8. Consistent(i, uc, ug)
  BY <1>2, <1>5, <1>6, <1>7 DEF Consistent
<1>9. Consistent(uw', uc, ug)
  BY <1>1, <1>8, PresentationConsistent
<1> QED BY <1>1, <1>2, <1>9 DEF WindowInv

LEMMA SelectKeeps ==
  ASSUME WindowInv, NEW p \in FormProfiles, NEW ok \in BOOLEAN, SelectProfile(p, ok)
  PROVE  WindowInv'
<1> DEFINE d == IF ok THEN [uc EXCEPT !.selected = p] ELSE uc
           i == InvalidateReadiness(uw, TRUE)
           m == View(d)
           v == [i EXCEPT !.model = m]
           w == [v EXCEPT !.form.profile = v.model.selected]
<1>1. uw.worker = "none" /\ Calls /\ uc' = d /\ uw' = ReadinessPresentation(w)
  BY DEF SelectProfile, Dispatches, Render
<1>2. uw \in Windows /\ uc \in Controllers /\ Consistent(uw, uc, ug) /\ ug \in Ghosts /\ ~ug.missaved /\ ~ug.overlap
  BY DEF WindowInv, Consistent
<1>3. d \in Controllers /\ d.session = uc.session
  BY <1>2 DEF Controllers
<1> HIDE DEF d
<1>4. /\ i \in Windows /\ i.form = uw.form /\ i.ready = "Unchecked" /\ i.worker = "none"
      /\ i.operation = uw.operation /\ i.life = uw.life
  BY <1>1, <1>2, InvalidateFields
<1> HIDE DEF i
<1>5. m \in Models /\ m.selected = d.selected /\ m.running = d.session
  BY <1>3 DEF View, Models, Controllers
<1> HIDE DEF m
<1>6. /\ v \in Windows /\ v.model = m /\ v.form = i.form /\ v.ready = "Unchecked" /\ v.worker = "none"
      /\ v.operation = uw.operation /\ v.life = uw.life
  BY <1>4, <1>5 DEF Windows
<1> HIDE DEF v
<1>7. LET f == [v.form EXCEPT !.profile = v.model.selected]
      IN f \in Forms /\ f.profile = d.selected /\ w = [v EXCEPT !.form = f]
  BY <1>3, <1>5, <1>6 DEF Forms, Windows, Controllers
<1>8. /\ w \in Windows /\ w.form.profile = d.selected /\ w.model = m /\ w.ready = "Unchecked" /\ w.worker = "none"
      /\ w.operation = uw.operation /\ w.life = uw.life
  BY <1>6, <1>7 DEF Windows
<1> HIDE DEF w
<1>9. Consistent(w, d, ug)
  BY <1>3, <1>5, <1>8 DEF Consistent, ShowsProfile, KnowsSession, ReadyIsPassed, CheckIsOfForm, VerdictIsPassed, OneCaller
<1>10. ug' \in Ghosts /\ ~ug'.missaved /\ ~ug'.overlap /\ ug'.passed = ug.passed
  BY <1>1, <1>2, CallsKeep
<1>11. Consistent(uw', uc', ug')
  BY <1>1, <1>9, <1>10, PresentationConsistent, SamePassed
<1> QED BY <1>10, <1>11 DEF WindowInv

\* Settings, Start and Refresh of the controller.
LEMMA SaveSettingsKeeps ==
  ASSUME WindowInv, NEW ok \in BOOLEAN, SaveSettings(ok)
  PROVE  WindowInv'
<1> DEFINE d == IF ok THEN [uc EXCEPT !.saved = uw.form] ELSE uc
           w == [uw EXCEPT !.model = View(d)]
<1>1. /\ uw.worker = "none" /\ Calls /\ uc' = d
      /\ uw' = Render(IF d.saved.setup # uw.form.setup THEN InvalidateReadiness(w, uw.gen < MaxFormEdits) ELSE w)
  BY DEF SaveSettings, Dispatches
<1>2. uw \in Windows /\ uc \in Controllers /\ Consistent(uw, uc, ug) /\ ug \in Ghosts /\ ~ug.missaved /\ ~ug.overlap
  BY DEF WindowInv, Consistent
<1>3. uw.form \in AnyForms
  BY <1>2 DEF Windows, Forms, AnyForms
<1>4. d \in Controllers /\ d.session = uc.session /\ d.selected = uc.selected
  BY <1>2, <1>3 DEF Controllers
<1> HIDE DEF d
<1>5. uw.ready = "Ready" => ~d.session
  BY <1>2, <1>4 DEF Consistent, ReadyIsPassed
<1>6. Consistent(w, d, ug)
  BY <1>1, <1>2, <1>4, <1>5, AnswerConsistent
<1> HIDE DEF w
<1>7. (uw.gen < MaxFormEdits) \in BOOLEAN
  OBVIOUS
<1>8. Consistent(InvalidateReadiness(w, uw.gen < MaxFormEdits), d, ug)
  BY <1>6, <1>7, InvalidateConsistent
<1>9. ug' \in Ghosts /\ ~ug'.missaved /\ ~ug'.overlap /\ ug'.passed = ug.passed
  BY <1>1, <1>2, CallsKeep
<1>10. Consistent(uw', uc', ug')
  BY <1>1, <1>6, <1>8, <1>9, RenderConsistent, SamePassed
<1> QED BY <1>9, <1>10 DEF WindowInv

LEMMA RefreshKeeps ==
  ASSUME WindowInv, NEW ended \in BOOLEAN, Refresh(ended)
  PROVE  WindowInv'
<1> DEFINE s == uc.session /\ ~ended
           d == [uc EXCEPT !.session = s]
           w == [uw EXCEPT !.model = View(d)]
<1>1. /\ uw.worker = "none" /\ Calls /\ uc' = d
      /\ uw' = Render(IF ~d.session THEN InvalidateReadiness(w, uw.gen < MaxFormEdits) ELSE w)
  BY DEF Refresh
<1>2. uw \in Windows /\ uc \in Controllers /\ Consistent(uw, uc, ug) /\ ug \in Ghosts /\ ~ug.missaved /\ ~ug.overlap
  BY DEF WindowInv, Consistent
<1>3. s \in BOOLEAN /\ (s => uc.session)
  OBVIOUS
<1> HIDE DEF s
<1>4. d \in Controllers /\ d.session = s /\ d.selected = uc.selected
  BY <1>2, <1>3 DEF Controllers
<1> HIDE DEF d
<1>5. uw.ready = "Ready" => ~d.session
  BY <1>2, <1>3, <1>4 DEF Consistent, ReadyIsPassed
<1>6. Consistent(w, d, ug)
  BY <1>1, <1>2, <1>4, <1>5, AnswerConsistent
<1> HIDE DEF w
<1>7. (uw.gen < MaxFormEdits) \in BOOLEAN
  OBVIOUS
<1>8. Consistent(InvalidateReadiness(w, uw.gen < MaxFormEdits), d, ug)
  BY <1>6, <1>7, InvalidateConsistent
<1>9. ug' \in Ghosts /\ ~ug'.missaved /\ ~ug'.overlap /\ ug'.passed = ug.passed
  BY <1>1, <1>2, CallsKeep
<1>10. Consistent(uw', uc', ug')
  BY <1>1, <1>6, <1>8, <1>9, RenderConsistent, SamePassed
<1> QED BY <1>9, <1>10 DEF WindowInv

LEMMA PlayKeeps ==
  ASSUME WindowInv, NEW saves \in BOOLEAN, NEW starts \in BOOLEAN, Play(saves, starts)
  PROVE  WindowInv'
<1> DEFINE w == ReadinessPresentation(uw)
           i == InvalidateReadiness(w, TRUE)
           k == IF saves THEN uw.form ELSE uc.saved
           s == saves /\ starts
           d == [uc EXCEPT !.saved = k, !.session = s]
           v == [i EXCEPT !.model = View(d)]
           b == [v EXCEPT !.ready = "Blocked"]
<1>1. uw.worker = "none"
  BY DEF Play, Dispatches
<1>2. uw \in Windows /\ uc \in Controllers /\ Consistent(uw, uc, ug) /\ ug \in Ghosts /\ ~ug.missaved /\ ~ug.overlap
  BY DEF WindowInv, Consistent
<1>3. Consistent(w, uc, ug) /\ w.worker = "none"
  <2>1. ReadinessPresentation(uw).worker = uw.worker
    <3>1. LET i0 == InvalidateReadiness(uw, FALSE)
          IN i0 \in Windows /\ i0.worker = uw.worker /\ InvalidateReadiness(uw, TRUE).worker = uw.worker
      BY <1>2, InvalidateFields
    <3>2. [InvalidateReadiness(uw, FALSE) EXCEPT !.auto = ~uw.dirty /\ ~uw.closing].worker = uw.worker
      BY <3>1 DEF Windows
    <3> QED BY <3>1, <3>2 DEF ReadinessPresentation
  <2> QED BY <1>1, <1>2, <2>1, PresentationConsistent
<1>4. CASE w.ready = "Blocked"
  <2>1. uw' = w /\ UNCHANGED <<uc, ug>>
    BY <1>4 DEF Play
  <2> HIDE DEF w
  <2> QED BY <1>2, <1>3, <2>1 DEF WindowInv
<1>5. CASE w.ready # "Blocked"
  <2>1. Calls /\ uc' = d /\ uw' = Render(IF saves /\ starts THEN v ELSE b)
    BY <1>5 DEF Play
  <2> HIDE DEF w
  <2>2. uw.form \in AnyForms
    BY <1>2 DEF Windows, Forms, AnyForms
  <2>3. k \in AnyForms /\ s \in BOOLEAN
    BY <1>2, <2>2 DEF Controllers
  <2> HIDE DEF k, s
  <2>4. d \in Controllers /\ d.selected = uc.selected
    BY <1>2, <2>3 DEF Controllers
  <2> HIDE DEF d
  <2>5. Consistent(i, uc, ug) /\ i.worker = "none" /\ i.ready = "Unchecked"
    <3>1. w \in Windows
      BY <1>3 DEF Consistent
    <3>2. i.worker = "none" /\ i.ready = "Unchecked"
      BY <1>3, <3>1, InvalidateFields
    <3> QED BY <1>3, <3>2, InvalidateConsistent
  <2> HIDE DEF i
  <2>6. Consistent(v, d, ug) /\ v.worker = "none"
    <3>1. i \in Windows
      BY <2>5 DEF Consistent
    <3>2. v.worker = i.worker
      BY <3>1 DEF Windows
    <3>3. Consistent(v, d, ug)
      BY <2>4, <2>5, AnswerConsistent
    <3> QED BY <2>5, <3>2, <3>3
  <2> HIDE DEF v
  <2>7. Consistent(b, d, ug)
    <3>1. v \in Windows
      BY <2>6 DEF Consistent
    <3>2. /\ b \in Windows /\ b.form = v.form /\ b.model = v.model /\ b.ready = "Blocked"
          /\ b.worker = v.worker /\ b.operation = v.operation /\ b.life = v.life
      BY <3>1 DEF Windows
    <3> HIDE DEF b
    <3> QED BY <2>6, <3>2 DEF Consistent, ShowsProfile, KnowsSession, ReadyIsPassed, CheckIsOfForm, VerdictIsPassed, OneCaller
  <2>8. ug' \in Ghosts /\ ~ug'.missaved /\ ~ug'.overlap /\ ug'.passed = ug.passed
    BY <1>1, <1>2, <2>1, CallsKeep
  <2> HIDE DEF b
  <2>9. Consistent(uw', uc', ug')
    BY <2>1, <2>6, <2>7, <2>8, RenderConsistent, SamePassed
  <2> QED BY <2>8, <2>9 DEF WindowInv
<1> QED BY <1>4, <1>5

LEMMA ThrowsKeeps ==
  ASSUME WindowInv, DispatchThrows
  PROVE  WindowInv'
<1> DEFINE i == InvalidateReadiness(uw, TRUE)
           m == [i.model EXCEPT !.running = TRUE]
           v == [i EXCEPT !.model = m]
<1>1. uw.worker = "none" /\ Calls /\ uc' = uc /\ uw' = Render(v)
  BY DEF DispatchThrows, Dispatches
<1>2. uw \in Windows /\ uc \in Controllers /\ Consistent(uw, uc, ug) /\ ug \in Ghosts /\ ~ug.missaved /\ ~ug.overlap
  BY DEF WindowInv, Consistent
<1>3. Consistent(i, uc, ug) /\ i.worker = "none" /\ i \in Windows
  BY <1>1, <1>2, InvalidateConsistent, InvalidateFields
<1> HIDE DEF i
<1>4. m \in Models /\ m.running /\ m.selected = i.model.selected
  BY <1>3 DEF Windows, Models
<1> HIDE DEF m
<1>5. /\ v \in Windows /\ v.form = i.form /\ v.model = m /\ v.ready = i.ready /\ v.checked = i.checked
      /\ v.worker = i.worker /\ v.operation = i.operation /\ v.life = i.life
  BY <1>3, <1>4 DEF Windows
<1> HIDE DEF v
<1>6. Consistent(v, uc, ug)
  BY <1>2, <1>3, <1>4, <1>5
     DEF Consistent, ShowsProfile, KnowsSession, ReadyIsPassed, CheckIsOfForm, VerdictIsPassed, OneCaller
<1>7. ug' \in Ghosts /\ ~ug'.missaved /\ ~ug'.overlap /\ ug'.passed = ug.passed
  BY <1>1, <1>2, CallsKeep
<1>8. Consistent(uw', uc', ug')
  BY <1>1, <1>6, <1>7, RenderConsistent, SamePassed
<1> QED BY <1>7, <1>8 DEF WindowInv

LEMMA DialogKeeps ==
  ASSUME WindowInv, \/ \E kind \in {"profile", "export"} : OpenDialog(kind)
                    \/ ExportCallback \/ \E b \in BOOLEAN : CloseDialog(b)
  PROVE  WindowInv'
<1>1. uw \in Windows /\ uc \in Controllers /\ Consistent(uw, uc, ug) /\ ug \in Ghosts /\ ~ug.missaved /\ ~ug.overlap
  BY DEF WindowInv, Consistent
<1>2. CASE ExportCallback
  <2>1. uw.worker = "none" /\ Calls /\ UNCHANGED <<uw, uc>>
    BY <1>2 DEF ExportCallback
  <2>2. ug' \in Ghosts /\ ~ug'.missaved /\ ~ug'.overlap /\ ug'.passed = ug.passed
    BY <1>1, <2>1, CallsKeep
  <2> QED BY <1>1, <2>1, <2>2, SamePassed DEF WindowInv
<1>3. ASSUME NEW kind \in {"none", "profile", "export"}, kind # "none" => uw.worker = "none"
      PROVE  Consistent([uw EXCEPT !.operation = kind], uc, ug)
  <2> DEFINE v == [uw EXCEPT !.operation = kind]
  <2>1. /\ v \in Windows /\ v.form = uw.form /\ v.model = uw.model /\ v.ready = uw.ready /\ v.checked = uw.checked
        /\ v.gen = uw.gen /\ v.worker = uw.worker /\ v.pending = uw.pending /\ v.pendingGen = uw.pendingGen
        /\ v.verdict = uw.verdict /\ v.operation = kind /\ v.life = uw.life
    BY <1>1 DEF Windows
  <2> HIDE DEF v
  <2>2. Consistent(v, uc, ug)
    BY <1>1, <1>3, <2>1 DEF Consistent, ShowsProfile, KnowsSession, ReadyIsPassed, CheckIsOfForm, VerdictIsPassed, OneCaller
  <2> QED BY <2>2 DEF v
<1>4. ASSUME NEW kind \in {"profile", "export"}, OpenDialog(kind)  PROVE WindowInv'
  <2>1. uw.worker = "none" /\ uw' = [uw EXCEPT !.operation = kind] /\ UNCHANGED <<uc, ug>>
    BY <1>4 DEF OpenDialog, Dispatches
  <2> QED BY <1>1, <1>3, <2>1 DEF WindowInv
<1>5. ASSUME NEW submit \in BOOLEAN, CloseDialog(submit)  PROVE WindowInv'
  <2> DEFINE w == [uw EXCEPT !.operation = "none"]
  <2>1. Consistent(w, uc, ug)
    BY <1>3
  <2>2. UNCHANGED uc
    BY <1>5 DEF CloseDialog
  <2>3. CASE uw' = Render(w) /\ UNCHANGED ug
    <3> HIDE DEF w
    <3> QED BY <1>1, <2>1, <2>2, <2>3, RenderConsistent DEF WindowInv
  <2>4. CASE uw.worker = "none" /\ Calls /\ uw' = Render(InvalidateReadiness(w, TRUE))
    <3> HIDE DEF w
    <3>1. Consistent(InvalidateReadiness(w, TRUE), uc, ug)
      BY <2>1, InvalidateConsistent
    <3>2. ug' \in Ghosts /\ ~ug'.missaved /\ ~ug'.overlap /\ ug'.passed = ug.passed
      BY <1>1, <2>4, CallsKeep
    <3>3. Consistent(uw', uc', ug')
      BY <2>2, <2>4, <3>1, <3>2, RenderConsistent, SamePassed
    <3> QED BY <3>2, <3>3 DEF WindowInv
  <2> QED BY <1>5, <2>3, <2>4 DEF CloseDialog
<1> QED BY <1>2, <1>4, <1>5

\* A check starts: its form is the one on the screen.
LEMMA StartCheckKeeps ==
  ASSUME WindowInv, NEW automatic \in BOOLEAN, StartCheck(automatic)
  PROVE  WindowInv'
<1> DEFINE u == [uw EXCEPT !.auto = FALSE]
           i == InvalidateReadiness(u, FALSE)
           f == [uw.form EXCEPT !.profile = SelectedManagedRoot(uw, uw.form)]
           v == [i EXCEPT !.worker = "running", !.pending = f, !.pendingGen = uw.gen]
<1>1. /\ Open /\ uw.worker = "none" /\ uw.operation = "none" /\ ~uw.model.running
      /\ uw' = Render(v) /\ UNCHANGED <<uc, ug>>
  BY DEF StartCheck
<1>2. uw \in Windows /\ uc \in Controllers /\ Consistent(uw, uc, ug) /\ ug \in Ghosts /\ ~ug.missaved /\ ~ug.overlap
  BY DEF WindowInv, Consistent
<1>3. f = uw.form /\ f \in AnyForms /\ uw.gen \in Nat
  <2>1. SelectedManagedRoot(uw, uw.form) = uw.form.profile /\ uw.form \in Forms
    BY <1>2 DEF SelectedManagedRoot, Consistent, ShowsProfile, Windows
  <2>2. f = uw.form
    BY <2>1 DEF Forms
  <2> QED BY <1>2, <2>1, <2>2 DEF Forms, AnyForms, Windows
<1> HIDE DEF f
<1>4. u \in Windows /\ u.form = uw.form /\ u.model = uw.model /\ u.gen = uw.gen /\ u.operation = "none" /\ u.life = "open"
  BY <1>1, <1>2 DEF Windows, Open
<1> HIDE DEF u
<1>5. /\ i \in Windows /\ i.form = uw.form /\ i.model = uw.model /\ i.ready = "Unchecked" /\ i.gen = uw.gen
      /\ i.operation = "none" /\ i.life = "open"
  BY <1>4, InvalidateFields
<1> HIDE DEF i
<1>6. /\ v \in Windows /\ v.form = uw.form /\ v.model = uw.model /\ v.ready = "Unchecked" /\ v.gen = uw.gen
      /\ v.worker = "running" /\ v.pending = f /\ v.pendingGen = uw.gen /\ v.operation = "none" /\ v.life = "open"
  BY <1>3, <1>5 DEF Windows
<1> HIDE DEF v
<1>7. ShowsProfile(v, uc) /\ KnowsSession(v, uc) /\ ReadyIsPassed(v, uc, ug) /\ VerdictIsPassed(v, ug) /\ OneCaller(v)
  BY <1>1, <1>2, <1>6 DEF Consistent, ShowsProfile, KnowsSession, ReadyIsPassed, VerdictIsPassed, OneCaller
<1>8. CheckIsOfForm(v)
  BY <1>3, <1>6 DEF CheckIsOfForm
<1>9. Consistent(v, uc, ug)
  BY <1>2, <1>6, <1>7, <1>8 DEF Consistent
<1> QED BY <1>1, <1>2, <1>9, RenderConsistent DEF WindowInv

LEMMA CheckLaunchKeeps ==
  ASSUME WindowInv, NEW passes \in BOOLEAN, CheckLaunch(passes)
  PROVE  WindowInv'
<1> DEFINE v == [uw EXCEPT !.worker = "done", !.verdict = passes]
<1>1. /\ uw.worker = "running" /\ uw' = v /\ UNCHANGED uc
      /\ ug' = IF passes THEN [ug EXCEPT !.passed = ug.passed \cup {uw.pending}] ELSE ug
  BY DEF CheckLaunch
<1>2. uw \in Windows /\ uc \in Controllers /\ Consistent(uw, uc, ug) /\ ug \in Ghosts /\ ~ug.missaved /\ ~ug.overlap
  BY DEF WindowInv, Consistent
<1>3. ug' \in Ghosts /\ ~ug'.missaved /\ ~ug'.overlap /\ ug.passed \subseteq ug'.passed /\ (passes => uw.pending \in ug'.passed)
  <2>1. uw.pending \in AnyForms /\ ug.passed \subseteq AnyForms
    BY <1>2 DEF Windows, Ghosts
  <2>2. CASE passes
    BY <1>1, <1>2, <2>1, <2>2 DEF Ghosts
  <2>3. CASE ~passes
    BY <1>1, <1>2, <2>3
  <2> QED BY <2>2, <2>3
<1>4. /\ v \in Windows /\ v.form = uw.form /\ v.model = uw.model /\ v.ready = uw.ready /\ v.checked = uw.checked
      /\ v.gen = uw.gen /\ v.worker = "done" /\ v.pending = uw.pending /\ v.pendingGen = uw.pendingGen
      /\ v.verdict = passes /\ v.operation = uw.operation /\ v.life = uw.life
  BY <1>2 DEF Windows
<1> HIDE DEF v
<1>5. Consistent(v, uc, ug')
  BY <1>1, <1>2, <1>3, <1>4
     DEF Consistent, ShowsProfile, KnowsSession, ReadyIsPassed, CheckIsOfForm, VerdictIsPassed, OneCaller
<1> QED BY <1>1, <1>3, <1>5 DEF WindowInv

\* The result of a check is accepted only in the generation it was started in,
\* and then it is about the form.
LEMMA PollCheckKeeps ==
  ASSUME WindowInv, NEW saves \in BOOLEAN, PollCheck(saves)
  PROVE  WindowInv'
<1> DEFINE current == uw.pendingGen = uw.gen /\ SameSetup(uw.form, uw.pending)
                        /\ SelectedManagedRoot(uw, uw.form) = uw.pending.profile
           w == [uw EXCEPT !.worker = "none", !.verdict = FALSE, !.pending = NoForm, !.pendingGen = 0]
           n == Accepted(uw)
           a == [n EXCEPT !.worker = "none", !.verdict = FALSE, !.pending = NoForm, !.pendingGen = 0]
           persists == current /\ a.ready = "Ready" /\ uc.saved # uw.pending
<1>1. uw \in Windows /\ uc \in Controllers /\ Consistent(uw, uc, ug) /\ ug \in Ghosts /\ ~ug.missaved /\ ~ug.overlap
  BY DEF WindowInv, Consistent
<1>2. uw.worker = "done" /\ NoForm \in AnyForms
  BY DEF PollCheck, NoForm, AnyForms
<1>3. /\ w \in Windows /\ w.form = uw.form /\ w.model = uw.model /\ w.ready = uw.ready /\ w.checked = uw.checked
      /\ w.worker = "none" /\ w.operation = uw.operation /\ w.life = uw.life
  BY <1>1, <1>2 DEF Windows
<1>4. CASE uw.closing
  <2> DEFINE v == [w EXCEPT !.life = "destroyed"]
  <2>1. uw' = v /\ UNCHANGED <<uc, ug>>
    BY <1>4 DEF PollCheck
  <2> HIDE DEF w
  <2>2. /\ v \in Windows /\ v.form = w.form /\ v.model = w.model /\ v.ready = w.ready /\ v.checked = w.checked
        /\ v.worker = "none" /\ v.operation = w.operation
    BY <1>3 DEF Windows
  <2> HIDE DEF v
  <2>3. Consistent(v, uc, ug)
    BY <1>1, <1>3, <2>2
       DEF Consistent, ShowsProfile, KnowsSession, ReadyIsPassed, CheckIsOfForm, VerdictIsPassed, OneCaller
  <2> QED BY <1>1, <2>1, <2>3 DEF WindowInv
<1>5. CASE ~uw.closing /\ ~current
  <2>1. uw' = Render(InvalidateReadiness(w, uw.gen < MaxFormEdits)) /\ UNCHANGED <<uc, ug>>
    BY <1>5 DEF PollCheck
  <2> HIDE DEF w
  <2>2. Consistent(w, uc, ug)
    BY <1>1, <1>3 DEF Consistent, ShowsProfile, KnowsSession, ReadyIsPassed, CheckIsOfForm, VerdictIsPassed, OneCaller
  <2>3. (uw.gen < MaxFormEdits) \in BOOLEAN
    OBVIOUS
  <2>4. Consistent(InvalidateReadiness(w, uw.gen < MaxFormEdits), uc, ug)
    BY <2>2, <2>3, InvalidateConsistent
  <2> QED BY <1>1, <2>1, <2>4, RenderConsistent DEF WindowInv
<1>6. CASE ~uw.closing /\ current
  <2> DEFINE d == IF persists /\ saves THEN [uc EXCEPT !.saved = uw.pending] ELSE uc
  <2>1. /\ uc' = d /\ uw' = Render([a EXCEPT !.model = View(d)])
        /\ ug' = IF persists /\ saves THEN [ug EXCEPT !.missaved = ug.missaved \/ uw.pending # uw.form] ELSE ug
    BY <1>6 DEF PollCheck
  <2>2. uw.pending = uw.form /\ ~uc.session /\ (uw.verdict => uw.pending \in ug.passed)
    BY <1>1, <1>2, <1>6 DEF Consistent, CheckIsOfForm, KnowsSession, VerdictIsPassed
  <2> HIDE DEF persists, w
  <2>3. ug' \in Ghosts /\ ~ug'.missaved /\ ~ug'.overlap /\ ug'.passed = ug.passed
    <3>1. (ug.missaved \/ uw.pending # uw.form) = FALSE
      BY <1>1, <2>2 DEF Ghosts
    <3>2. [ug EXCEPT !.missaved = ug.missaved \/ uw.pending # uw.form] = [ug EXCEPT !.missaved = FALSE]
      BY <3>1
    <3>3. LET h == [ug EXCEPT !.missaved = FALSE]
          IN h \in Ghosts /\ ~h.missaved /\ ~h.overlap /\ h.passed = ug.passed
      BY <1>1 DEF Ghosts
    <3> QED BY <1>1, <2>1, <3>2, <3>3
  <2>4. d \in Controllers /\ d.selected = uc.selected /\ ~d.session
    <3>1. uw.pending \in AnyForms
      BY <1>1 DEF Windows
    <3> QED BY <1>1, <2>2, <3>1 DEF Controllers
  <2> HIDE DEF d
  <2>5. /\ n \in Windows /\ n.form = uw.form /\ n.model = uw.model /\ n.operation = uw.operation /\ n.life = uw.life
        /\ n.ready = "Ready" => uw.verdict /\ n.checked = uw.pending
    BY <1>1 DEF Accepted, Windows
  <2> HIDE DEF n
  <2>6. /\ a \in Windows /\ a.form = uw.form /\ a.model = uw.model /\ a.operation = uw.operation /\ a.life = uw.life
        /\ a.worker = "none" /\ (a.ready = "Ready" => uw.verdict /\ a.checked = uw.pending)
    BY <1>2, <2>5 DEF Windows
  <2> HIDE DEF a
  <2>7. Consistent(a, uc, ug)
    BY <1>1, <2>2, <2>6
       DEF Consistent, ShowsProfile, KnowsSession, ReadyIsPassed, CheckIsOfForm, VerdictIsPassed, OneCaller
  <2>8. Consistent([a EXCEPT !.model = View(d)], d, ug)
    BY <2>4, <2>6, <2>7, AnswerConsistent
  <2>9. Consistent(uw', uc', ug')
    BY <2>1, <2>3, <2>8, RenderConsistent, SamePassed
  <2> QED BY <2>3, <2>9 DEF WindowInv
<1> QED BY <1>4, <1>5, <1>6

\* Timers, and the end of the window.
LEMMA EndingKeeps ==
  ASSUME WindowInv, MinuteEnds \/ CloseWindow \/ DestroyWindow \/ JoinWorker \/ PollIdle
  PROVE  WindowInv'
<1>1. uw \in Windows /\ uc \in Controllers /\ Consistent(uw, uc, ug) /\ ug \in Ghosts /\ ~ug.missaved /\ ~ug.overlap
  BY DEF WindowInv, Consistent
<1>2. CASE PollIdle
  <2>1. uw' = ReadinessPresentation(uw) /\ UNCHANGED <<uc, ug>>
    BY <1>2 DEF PollIdle
  <2> QED BY <1>1, <2>1, PresentationConsistent DEF WindowInv
<1>3. CASE ~PollIdle
  <2>1. /\ uw' \in Windows /\ uc' = uc /\ uw'.form = uw.form /\ uw'.model = uw.model /\ uw'.ready = uw.ready
        /\ uw'.checked = uw.checked /\ uw'.gen = uw.gen /\ uw'.worker = uw.worker /\ uw'.pending = uw.pending
        /\ uw'.pendingGen = uw.pendingGen /\ uw'.verdict = uw.verdict
        /\ uw'.operation = uw.operation \/ uw'.operation = "none"
        /\ uw'.life = "destroyed" => uw.life = "destroyed" \/ uw.worker # "running"
    <3>1. CASE MinuteEnds
      BY <1>1, <3>1 DEF MinuteEnds, Windows
    <3>2. CASE CloseWindow
      BY <1>1, <3>2 DEF CloseWindow, Windows
    <3>3. CASE DestroyWindow
      BY <1>1, <3>3 DEF DestroyWindow, Windows
    <3>4. CASE JoinWorker
      BY <1>1, <3>4 DEF JoinWorker, Windows
    <3> QED BY <1>3, <3>1, <3>2, <3>3, <3>4
  <2>2. ug' \in Ghosts /\ ~ug'.missaved /\ ~ug'.overlap /\ ug'.passed = ug.passed
    <3>1. CASE UNCHANGED ug
      BY <1>1, <3>1
    <3>2. CASE DestroyWindow /\ ~UNCHANGED ug
      <4>1. Calls /\ uw.operation = "export"
        BY <3>2 DEF DestroyWindow
      <4>2. uw.worker # "running"
        BY <1>1, <4>1 DEF Consistent, OneCaller
      <4> QED BY <1>1, <4>1, <4>2, CallsKeep
    <3> QED BY <1>3, <3>1, <3>2 DEF MinuteEnds, CloseWindow, JoinWorker
  <2>3. Consistent(uw', uc', ug)
    BY <1>1, <2>1 DEF Consistent, ShowsProfile, KnowsSession, ReadyIsPassed, CheckIsOfForm, VerdictIsPassed, OneCaller
  <2>4. Consistent(uw', uc', ug')
    BY <2>2, <2>3, SamePassed
  <2> QED BY <2>2, <2>4 DEF WindowInv
<1> QED BY <1>2, <1>3

LEMMA WindowStarts == WindowInit => WindowInv
<1> SUFFICES ASSUME WindowInit  PROVE WindowInv
  OBVIOUS
<1>1. PICK f \in Forms :
        /\ uw = [form |-> f, model |-> [saved |-> f, selected |-> f.profile, running |-> FALSE],
                 ready |-> "Unchecked", checked |-> NoForm, gen |-> 0, dirty |-> FALSE, auto |-> FALSE,
                 worker |-> "none", pending |-> NoForm, pendingGen |-> 0, verdict |-> FALSE,
                 operation |-> "none", closing |-> FALSE, life |-> "open", fresh |-> TRUE]
        /\ uc = [saved |-> f, selected |-> f.profile, session |-> FALSE]
  BY DEF WindowInit
<1>2. f \in AnyForms /\ NoForm \in AnyForms /\ f.profile \in FormProfiles
  BY DEF Forms, AnyForms, NoForm
<1>3. uw \in Windows /\ uc \in Controllers
  BY <1>1, <1>2 DEF Windows, Models, Controllers
<1>4. /\ uw.form.profile = uw.model.selected /\ uw.model.selected = uc.selected /\ uw.ready = "Unchecked"
      /\ uw.worker = "none" /\ ~uc.session
  BY <1>1
<1>5. Consistent(uw, uc, ug)
  BY <1>3, <1>4 DEF Consistent, ShowsProfile, KnowsSession, ReadyIsPassed, CheckIsOfForm, VerdictIsPassed, OneCaller
<1>6. ug \in Ghosts /\ ~ug.missaved /\ ~ug.overlap
  BY DEF WindowInit, Ghosts
<1> QED BY <1>5, <1>6 DEF WindowInv

LEMMA WindowSteps == WindowInv /\ [WindowNext]_windowVars => WindowInv'
<1> SUFFICES ASSUME WindowInv, [WindowNext]_windowVars  PROVE WindowInv'
  OBVIOUS
<1>1. CASE UNCHANGED windowVars
  BY <1>1 DEF windowVars, WindowInv, Consistent, ShowsProfile, KnowsSession, ReadyIsPassed, CheckIsOfForm,
              VerdictIsPassed, OneCaller
<1>2. CASE WindowNext
  <2>1. CASE AutoRecheck
    BY <2>1, StartCheckKeeps DEF AutoRecheck
  <2>2. CASE ~AutoRecheck
    BY <1>2, <2>2, EditKeeps, SelectKeeps, PlayKeeps, SaveSettingsKeeps, RefreshKeeps, DialogKeeps, StartCheckKeeps,
       CheckLaunchKeeps, PollCheckKeeps, ThrowsKeeps, EndingKeeps DEF WindowNext
  <2> QED BY <2>1, <2>2
<1> QED BY <1>1, <1>2

\* Whatever is edited, saved, started or closed while a check runs on its
\* thread: Ready is about the form on the screen with its timing, which passed a
\* check for the selected profile; a stale result saves nothing; the controller
\* is never called on two threads at once nor left with a destroyed window's worker.
THEOREM ReadyIsAboutTheForm == WindowSpec => []WindowShowsItsCheck
<1>1. WindowInv => WindowShowsItsCheck
  BY DEF WindowInv, Consistent, ShowsProfile, ReadyIsPassed, OneCaller, WindowShowsItsCheck
<1> QED BY <1>1, WindowStarts, WindowSteps, PTL DEF WindowSpec

-----------------------------------------------------------------------------
(* The export.                                                              *)
(*                                                                          *)
(* A plan is never left behind because whoever drops a preview cancels its  *)
(* plan, once: a dialog that has sent the cancellation has no plan, so that *)
(* not sending it again loses nothing.  What is written is the plan's       *)
(* because a plan's number is never used again.                             *)

Inputs == ExportInputs \cup {"none"}
Dialogs == [life : {"open", "destroyed"}, busy : BOOLEAN, closing : BOOLEAN, closePending : BOOLEAN,
            cancelSent : BOOLEAN, ready : BOOLEAN, complete : BOOLEAN, prepared : Inputs]
CallsMade == [kind : {"none", "prepare", "confirm", "picker"}, input : Inputs, token : Nat]
Outs == [plan : Nat, report : Nat, marker : Nat, foreign : BOOLEAN]

ExportTypes ==
  /\ xDialog \in Dialogs /\ xInput \in Inputs /\ xCall \in CallsMade /\ xOut \in Outs
  /\ xSerial \in Nat /\ xShown \in Nat /\ xDone \subseteq 0..xSerial
  /\ xDialog.busy <=> xCall.kind # "none"

PlanIsShown ==
  /\ xPlan # <<>> =>
       /\ ~xDialog.cancelSent /\ xCall.kind # "prepare"
       /\ xPlan[1].serial = xShown /\ Projects(FactsOf[xPlan[1].input])
       /\ xCall.kind # "confirm" => xDialog.ready /\ xPlan[1].input = xInput
       /\ xCall.kind = "none" => ~Gone
       /\ xPlan[1].serial = xSerial /\ xSerial # 0 /\ xSerial \notin xDone
  /\ xCall.kind = "prepare" => ~xDialog.cancelSent

OutIsPlan ==
  /\ xOut.plan \in 0..xSerial
  /\ xOut.marker # 0 => xOut.report = xOut.marker /\ xOut.marker = xOut.plan
  /\ xOut.plan \in xDone => xOut.marker = xOut.plan
  /\ xCall.kind = "confirm" /\ xStage \in {"created", "report", "marker"} =>
       /\ xPlan # <<>> /\ xOut.plan = xPlan[1].serial
       /\ xStage # "marker" => xOut.marker = 0
       /\ xStage = "marker" => xOut.marker = xOut.plan

ExportInv == ExportTypes /\ PlanIsShown /\ OutIsPlan

LEMMA ExportStarts == ExportInit => ExportInv
<1> SUFFICES ASSUME ExportInit  PROVE ExportInv
  OBVIOUS
<1>1. ExportTypes
  BY DEF ExportInit, ExportTypes, Inputs, Dialogs, CallsMade, NoCall, NoOut, Outs
<1>2. PlanIsShown /\ OutIsPlan
  BY DEF ExportInit, PlanIsShown, OutIsPlan, NoCall, NoOut
<1> QED BY <1>1, <1>2 DEF ExportInv

\* What the dialog does to itself.
LEMMA DialogOperations ==
  ASSUME NEW d \in Dialogs
  PROVE  /\ CancelPlan(d) \in Dialogs /\ CancelPlan(d).busy = d.busy
         /\ Forget(d) \in Dialogs /\ Forget(d).busy = d.busy
         /\ ClosesNow(d) \in Dialogs /\ ClosesNow(d).busy = d.busy
         /\ Invalidated(d) \in Dialogs /\ Invalidated(d).busy = d.busy
<1>1. ASSUME NEW e \in Dialogs
      PROVE  /\ CancelPlan(e) \in Dialogs /\ CancelPlan(e).busy = e.busy
             /\ Forget(e) \in Dialogs /\ Forget(e).busy = e.busy
  BY DEF CancelPlan, Forget, Dialogs, Inputs
<1>2. ASSUME NEW e \in Dialogs
      PROVE  ClosesNow(e) \in Dialogs /\ ClosesNow(e).busy = e.busy
  <2>1. CancelPlan(e) \in Dialogs /\ CancelPlan(e).busy = e.busy
    BY <1>1
  <2> QED BY <2>1 DEF ClosesNow, Dialogs
<1>3. Forget(CancelPlan(d)) \in Dialogs /\ Forget(CancelPlan(d)).busy = d.busy
  <2>1. CancelPlan(d) \in Dialogs /\ CancelPlan(d).busy = d.busy
    BY <1>1
  <2> QED BY <1>1, <2>1
<1>4. Invalidated(d) \in Dialogs /\ Invalidated(d).busy = d.busy
  <2>1. ClosesNow(Forget(CancelPlan(d))) \in Dialogs /\ ClosesNow(Forget(CancelPlan(d))).busy = d.busy
    BY <1>2, <1>3
  <2> QED BY <1>3, <2>1 DEF Invalidated
<1> QED BY <1>1, <1>2, <1>4

LEMMA IdleDialog ==
  ASSUME ExportInv
  PROVE  Idle \in Dialogs /\ ~Idle.busy /\ Idle.cancelSent = xDialog.cancelSent /\ Idle.ready = xDialog.ready
         /\ Idle.life = xDialog.life
BY DEF ExportInv, ExportTypes, Idle, Dialogs

\* Not to send a second cancellation loses nothing.
LEMMA ClearedIsEmpty ==
  ASSUME ExportInv, NEW d, d.cancelSent = xDialog.cancelSent
  PROVE  Cleared(d) = <<>> /\ PlanOfGone(d, xPlan) = <<>>
BY DEF ExportInv, PlanIsShown, Cleared, PlanOfGone

\* A step after which there is no plan.
LEMMA WithoutPlan ==
  ASSUME ExportInv, xPlan' = <<>>, xDialog' \in Dialogs, xInput' \in Inputs, xCall' \in CallsMade,
         xDialog'.busy <=> xCall'.kind # "none", xCall'.kind = "none" \/ (xCall'.kind = "prepare" /\ ~xDialog'.cancelSent),
         xSerial' \in Nat, xSerial <= xSerial', xShown' \in Nat, UNCHANGED <<xOut, xDone>>
  PROVE  ExportInv'
<1>1. ExportTypes /\ OutIsPlan
  BY DEF ExportInv
<1>2. xDone \subseteq 0..xSerial' /\ xOut.plan \in 0..xSerial'
  BY <1>1 DEF ExportTypes, OutIsPlan
<1>3. ExportTypes'
  BY <1>1, <1>2 DEF ExportTypes
<1>4. PlanIsShown'
  BY DEF PlanIsShown
<1>5. OutIsPlan'
  BY <1>1, <1>2 DEF OutIsPlan
<1> QED BY <1>3, <1>4, <1>5 DEF ExportInv

\* A step that leaves the plan, the call and the files alone.
LEMMA SamePlan ==
  ASSUME ExportInv, UNCHANGED <<xPlan, xCall, xSerial, xShown, xOut, xDone, xStage>>, xDialog' \in Dialogs,
         xInput' \in Inputs, xDialog'.busy = xDialog.busy, xDialog'.cancelSent = xDialog.cancelSent,
         xDialog'.ready = xDialog.ready, xCall.kind # "none",
         xCall.kind \in {"confirm", "prepare"} \/ xInput' = xInput
  PROVE  ExportInv'
<1>1. ExportTypes'
  BY DEF ExportInv, ExportTypes
<1>2. PlanIsShown'
  BY DEF ExportInv, PlanIsShown, Gone
<1>3. OutIsPlan'
  BY DEF ExportInv, OutIsPlan
<1> QED BY <1>1, <1>2, <1>3 DEF ExportInv

LEMMA EditFieldKeeps ==
  ASSUME ExportInv, NEW input \in ExportInputs, EditField(input)
  PROVE  ExportInv'
<1>1. xInput' = input /\ xCall.kind # "picker" /\ UNCHANGED <<xCall, xSerial, xStage, xOut, xDone>> /\ xInput' \in Inputs
  BY DEF EditField, Inputs
<1>2. /\ xDialog \in Dialogs /\ xCall \in CallsMade /\ xSerial \in Nat /\ (xDialog.busy <=> xCall.kind # "none")
      /\ xCall.kind \in {"none", "prepare", "confirm", "picker"}
  BY DEF ExportInv, ExportTypes, CallsMade
<1>3. CASE xDialog.busy
  <2>1. UNCHANGED <<xDialog, xPlan, xShown>>
    BY <1>3 DEF EditField
  <2> QED BY <1>1, <1>2, <1>3, <2>1, SamePlan
<1>4. CASE ~xDialog.busy
  <2>1. xDialog' = Invalidated(xDialog) /\ xPlan' = <<>> /\ xShown' = 0
    BY <1>4, ClearedIsEmpty DEF EditField
  <2>2. xDialog' \in Dialogs /\ ~xDialog'.busy
    BY <1>2, <1>4, <2>1, DialogOperations
  <2> QED BY <1>1, <1>2, <1>4, <2>1, <2>2, WithoutPlan
<1> QED BY <1>3, <1>4

LEMMA ClosingKeeps ==
  ASSUME ExportInv, ClickClose \/ OwnerDestroys
  PROVE  ExportInv'
<1>1. UNCHANGED <<xInput, xCall, xSerial, xStage, xOut, xShown, xDone>>
  BY DEF ClickClose, OwnerDestroys
<1>2. /\ xDialog \in Dialogs /\ xCall \in CallsMade /\ xSerial \in Nat /\ (xDialog.busy <=> xCall.kind # "none")
      /\ xInput \in Inputs /\ xShown \in Nat
  BY DEF ExportInv, ExportTypes
<1>3. CASE xDialog.busy
  <2>1. UNCHANGED xPlan
    BY <1>3 DEF ClickClose, OwnerDestroys
  <2>2. xDialog' \in Dialogs /\ xDialog'.busy = xDialog.busy /\ xDialog'.cancelSent = xDialog.cancelSent /\ xDialog'.ready = xDialog.ready
    BY <1>2, <1>3 DEF ClickClose, OwnerDestroys, Dialogs
  <2> QED BY <1>1, <1>2, <1>3, <2>1, <2>2, SamePlan
<1>4. CASE ~xDialog.busy
  <2>1. xPlan' = <<>>
    BY <1>4, ClearedIsEmpty DEF ClickClose, OwnerDestroys
  <2>2. xDialog' \in Dialogs /\ ~xDialog'.busy
    <3>1. ClosesNow(xDialog) \in Dialogs /\ ClosesNow(xDialog).busy = xDialog.busy
      BY <1>2, DialogOperations
    <3>2. CancelPlan(xDialog) \in Dialogs /\ CancelPlan(xDialog).busy = xDialog.busy
      BY <1>2, DialogOperations
    <3>3. LET d == [CancelPlan(xDialog) EXCEPT !.life = "destroyed"] IN d \in Dialogs /\ d.busy = xDialog.busy
      BY <3>2 DEF Dialogs
    <3> QED BY <1>4, <3>1, <3>3 DEF ClickClose, OwnerDestroys
  <2> QED BY <1>1, <1>2, <1>4, <2>1, <2>2, WithoutPlan
<1> QED BY <1>3, <1>4

LEMMA ClickPreviewKeeps ==
  ASSUME ExportInv, ClickPreview
  PROVE  ExportInv'
<1> DEFINE f == Forget(xDialog)
           d == [f EXCEPT !.cancelSent = FALSE]
<1>1. /\ xDialog' = [d EXCEPT !.busy = TRUE] /\ xCall' = [kind |-> "prepare", input |-> xInput, token |-> 0]
      /\ xPlan' = <<>> /\ xShown' = 0 /\ UNCHANGED <<xInput, xSerial, xStage, xOut, xDone>>
  BY ClearedIsEmpty DEF ClickPreview, Busy
<1>2. xDialog \in Dialogs /\ xInput \in Inputs /\ xSerial \in Nat
  BY DEF ExportInv, ExportTypes
<1>3. f \in Dialogs
  BY <1>2, DialogOperations
<1> HIDE DEF f
<1>4. xDialog' \in Dialogs /\ xDialog'.busy /\ ~xDialog'.cancelSent
  BY <1>1, <1>3 DEF Dialogs
<1>5. xCall' \in CallsMade /\ xCall'.kind = "prepare"
  BY <1>1, <1>2 DEF CallsMade
<1> QED BY <1>1, <1>2, <1>4, <1>5, WithoutPlan

LEMMA ClickSaveKeeps ==
  ASSUME ExportInv, ClickSave
  PROVE  ExportInv'
<1>1. ~xDialog.busy /\ UNCHANGED <<xInput, xSerial, xOut, xDone>>
  BY DEF ClickSave, Free
<1>2. /\ xDialog \in Dialogs /\ xCall \in CallsMade /\ xSerial \in Nat /\ xInput \in Inputs /\ xShown \in Nat
      /\ xCall.kind = "none" /\ ExportTypes /\ PlanIsShown /\ OutIsPlan
  BY <1>1 DEF ExportInv, ExportTypes
<1>3. CASE xInput = xDialog.prepared
  <2>1. /\ xDialog' = [xDialog EXCEPT !.busy = TRUE] /\ xCall' = [kind |-> "confirm", input |-> xInput, token |-> xShown]
        /\ xStage' = "asked" /\ UNCHANGED <<xPlan, xShown>>
    BY <1>3 DEF ClickSave, Busy
  <2>2. xDialog' \in Dialogs /\ xDialog'.busy /\ xDialog'.cancelSent = xDialog.cancelSent /\ xCall' \in CallsMade /\ xCall'.kind = "confirm"
    BY <1>2, <2>1 DEF Dialogs, CallsMade
  <2>3. ExportTypes'
    BY <1>1, <1>2, <2>1, <2>2 DEF ExportTypes
  <2>4. PlanIsShown'
    BY <1>1, <1>2, <2>1, <2>2 DEF PlanIsShown
  <2>5. OutIsPlan'
    BY <1>1, <1>2, <2>1 DEF OutIsPlan
  <2> QED BY <2>3, <2>4, <2>5 DEF ExportInv
<1>4. CASE xInput # xDialog.prepared
  <2>1. xDialog' = Invalidated(xDialog) /\ xPlan' = <<>> /\ xShown' = 0 /\ UNCHANGED <<xCall, xStage>>
    BY <1>4, ClearedIsEmpty DEF ClickSave
  <2>2. xDialog' \in Dialogs /\ ~xDialog'.busy
    BY <1>1, <1>2, <2>1, DialogOperations
  <2> QED BY <1>1, <1>2, <2>1, <2>2, WithoutPlan
<1> QED BY <1>3, <1>4

LEMMA ClickBrowseKeeps ==
  ASSUME ExportInv, ClickBrowse
  PROVE  ExportInv'
<1>1. /\ ~xDialog.busy /\ xDialog' = [xDialog EXCEPT !.busy = TRUE]
      /\ xCall' = [kind |-> "picker", input |-> xInput, token |-> 0]
      /\ UNCHANGED <<xInput, xPlan, xSerial, xStage, xOut, xShown, xDone>>
  BY DEF ClickBrowse, Free, Busy
<1>2. /\ xDialog \in Dialogs /\ xInput \in Inputs /\ xCall.kind = "none" /\ ExportTypes /\ PlanIsShown /\ OutIsPlan
  BY <1>1 DEF ExportInv, ExportTypes
<1>3. /\ xDialog' \in Dialogs /\ xDialog'.busy /\ xDialog'.cancelSent = xDialog.cancelSent /\ xDialog'.ready = xDialog.ready
      /\ xCall' \in CallsMade /\ xCall'.kind = "picker"
  BY <1>1, <1>2 DEF Dialogs, CallsMade
<1>4. ExportTypes' /\ OutIsPlan'
  BY <1>1, <1>2, <1>3 DEF ExportTypes, OutIsPlan
<1>5. PlanIsShown'
  BY <1>1, <1>2, <1>3 DEF PlanIsShown
<1> QED BY <1>4, <1>5 DEF ExportInv

\* The preview comes back: either its plan is shown, or there is none.
LEMMA PrepareReturnsKeeps ==
  ASSUME ExportInv, NEW ok \in BOOLEAN, NEW displayed \in BOOLEAN, PrepareReturns(ok, displayed)
  PROVE  ExportInv'
<1> DEFINE plan == PrepareExport(ok)
           shown == ~Gone /\ ~xDialog.closePending /\ xInput = xCall.input /\ ok /\ displayed
<1>1. /\ xCall.kind = "prepare" /\ xCall' = NoCall /\ (ok => PrepareLiveExport)
      /\ xSerial' = (IF ok THEN xSerial + 1 ELSE xSerial) /\ UNCHANGED <<xInput, xStage, xOut, xDone>>
  BY DEF PrepareReturns
<1>2. /\ xDialog \in Dialogs /\ xCall \in CallsMade /\ xSerial \in Nat /\ xInput \in Inputs /\ xCall.input \in Inputs
      /\ ExportTypes /\ PlanIsShown /\ OutIsPlan /\ ~xDialog.cancelSent
  BY <1>1 DEF ExportInv, ExportTypes, PlanIsShown, CallsMade
<1>3. Idle \in Dialogs /\ ~Idle.busy /\ ~Idle.cancelSent /\ Idle.life = xDialog.life
  BY <1>2, IdleDialog
<1>4. xCall' \in CallsMade /\ xCall'.kind = "none" /\ xSerial' \in Nat /\ xSerial <= xSerial'
  BY <1>1, <1>2 DEF NoCall, CallsMade, Inputs
<1>5. CASE ~shown
  <2>1. /\ xPlan' = <<>> /\ xShown' = 0
        /\ xDialog' \in {CancelPlan(Idle), ClosesNow(Idle), Invalidated(Idle), Forget(CancelPlan(Idle))}
    BY <1>3, <1>5 DEF PrepareReturns, PlanOfGone
  <2>2. CancelPlan(Idle) \in Dialogs /\ ~CancelPlan(Idle).busy
    BY <1>3, DialogOperations
  <2>3. ClosesNow(Idle) \in Dialogs /\ ~ClosesNow(Idle).busy /\ Invalidated(Idle) \in Dialogs /\ ~Invalidated(Idle).busy
    BY <1>3, DialogOperations
  <2>4. Forget(CancelPlan(Idle)) \in Dialogs /\ ~Forget(CancelPlan(Idle)).busy
    BY <2>2, DialogOperations
  <2>5. xDialog' \in Dialogs /\ ~xDialog'.busy
    BY <2>1, <2>2, <2>3, <2>4
  <2> QED BY <1>1, <1>2, <1>4, <2>1, <2>5, WithoutPlan
<1>6. CASE shown
  <2>1. xDialog' = [Idle EXCEPT !.ready = TRUE, !.prepared = xCall.input] /\ xPlan' = plan /\ xShown' = plan[1].serial
    BY <1>6 DEF PrepareReturns
  <2>2. plan = <<[serial |-> xSerial + 1, input |-> xCall.input]>> /\ xSerial' = xSerial + 1
    BY <1>1, <1>6 DEF PrepareExport
  <2>3. plan # <<>> /\ plan[1].serial = xSerial' /\ plan[1].input = xCall.input
    BY <2>2
  <2> HIDE DEF plan
  <2>4. /\ xDialog' \in Dialogs /\ ~xDialog'.busy /\ ~xDialog'.cancelSent /\ xDialog'.ready
        /\ xDialog'.life = xDialog.life
    <3>1. xDialog' \in Dialogs
      BY <1>2, <1>3, <2>1 DEF Dialogs
    <3>2. ~xDialog'.busy /\ ~xDialog'.cancelSent /\ xDialog'.ready /\ xDialog'.life = xDialog.life
      BY <1>3, <2>1 DEF Dialogs
    <3> QED BY <3>1, <3>2
  <2>5. xSerial' # 0 /\ xSerial' \notin xDone /\ xDone \subseteq 0..xSerial' /\ xOut.plan \in 0..xSerial' /\ xShown' \in Nat
    BY <1>2, <2>1, <2>2, <2>3 DEF ExportTypes, OutIsPlan
  <2>6. ExportTypes'
    BY <1>1, <1>2, <1>4, <2>4, <2>5 DEF ExportTypes
  <2>7. Projects(FactsOf[xCall.input])
    BY <1>1, <1>6 DEF PrepareLiveExport
  <2>8. PlanIsShown'
    BY <1>1, <1>4, <1>6, <2>1, <2>3, <2>4, <2>5, <2>7 DEF PlanIsShown, Gone
  <2>9. OutIsPlan'
    BY <1>1, <1>2, <1>4, <2>5 DEF OutIsPlan
  <2> QED BY <2>6, <2>8, <2>9 DEF ExportInv
<1> QED BY <1>5, <1>6

LEMMA PickerReturnsKeeps ==
  ASSUME ExportInv, NEW input \in ExportInputs, PickerReturns(input)
  PROVE  ExportInv'
<1> DEFINE kept == ~Gone /\ ~xDialog.closePending /\ input = xInput
<1>1. xCall.kind = "picker" /\ xCall' = NoCall /\ UNCHANGED <<xSerial, xStage, xOut, xDone>>
  BY DEF PickerReturns
<1>2. /\ xDialog \in Dialogs /\ xSerial \in Nat /\ xInput \in Inputs /\ xShown \in Nat
      /\ ExportTypes /\ PlanIsShown /\ OutIsPlan
  BY DEF ExportInv, ExportTypes
<1>3. /\ Idle \in Dialogs /\ ~Idle.busy /\ Idle.cancelSent = xDialog.cancelSent /\ Idle.life = xDialog.life
      /\ Idle.ready = xDialog.ready
  BY IdleDialog
<1>4. xCall' \in CallsMade /\ xCall'.kind = "none"
  BY <1>1 DEF NoCall, CallsMade, Inputs
<1>5. CASE ~kept
  <2>1. Cleared(Idle) = <<>> /\ PlanOfGone(Idle, xPlan) = <<>>
    BY <1>3, ClearedIsEmpty
  <2>2. /\ xPlan' = <<>> /\ xShown' \in {0, xShown} /\ xInput' \in {input, xInput}
        /\ xDialog' \in {CancelPlan(Idle), ClosesNow(Idle), Invalidated(Idle)}
    BY <1>5, <2>1 DEF PickerReturns
  <2>3. xDialog' \in Dialogs /\ ~xDialog'.busy
    BY <1>3, <2>2, DialogOperations
  <2>4. xInput' \in Inputs /\ xShown' \in Nat
    BY <1>2, <2>2 DEF Inputs
  <2> QED BY <1>1, <1>2, <1>4, <2>2, <2>3, <2>4, WithoutPlan
<1>6. CASE kept
  <2>1. xDialog' = Idle /\ UNCHANGED <<xInput, xPlan, xShown>> /\ ~Gone
    BY <1>6 DEF PickerReturns
  <2>2. ExportTypes' /\ OutIsPlan'
    BY <1>1, <1>2, <1>3, <1>4, <2>1 DEF ExportTypes, OutIsPlan
  <2>3. PlanIsShown'
    BY <1>1, <1>2, <1>3, <1>4, <2>1 DEF PlanIsShown, Gone
  <2> QED BY <2>2, <2>3 DEF ExportInv
<1> QED BY <1>5, <1>6

\* The files of the plan, one after the other.
LEMMA WritingKeeps ==
  ASSUME ExportInv, CreateChild \/ WriteReport \/ WriteMarker \/ ForeignFile
  PROVE  ExportInv'
<1>1. UNCHANGED <<xDialog, xInput, xCall, xPlan, xSerial, xShown, xDone>> /\ xCall.kind = "confirm"
  BY DEF CreateChild, WriteReport, WriteMarker, ForeignFile, ConfirmSame, Confirming
<1>2. ExportTypes /\ PlanIsShown /\ OutIsPlan /\ xOut \in Outs /\ xSerial \in Nat
  BY DEF ExportInv, ExportTypes
<1>3. PlanIsShown'
  BY <1>1, <1>2 DEF PlanIsShown, Gone
<1>4. xPlan # <<>> => xPlan[1].serial \in Nat /\ xPlan[1].serial = xSerial /\ xSerial # 0 /\ xSerial \notin xDone
  BY <1>2 DEF PlanIsShown
<1> DEFINE s == xPlan[1].serial
<1> HIDE DEF s
<1>5. CASE CreateChild
  <2>1. xPlan # <<>> /\ xOut' = [NoOut EXCEPT !.plan = s] /\ xStage' = "created"
    BY <1>5 DEF CreateChild, Matches, s
  <2>2. s \in Nat /\ s = xSerial /\ s # 0 /\ s \notin xDone
    BY <1>4, <2>1 DEF s
  <2>3. xOut' \in Outs /\ xOut'.plan = s /\ xOut'.report = 0 /\ xOut'.marker = 0
    BY <2>1, <2>2 DEF NoOut, Outs
  <2>4. s \in 0..xSerial
    BY <1>2, <2>2
  <2>5. OutIsPlan'
    BY <1>1, <2>1, <2>2, <2>3, <2>4 DEF OutIsPlan, s
  <2> QED BY <1>1, <1>2, <1>3, <2>3, <2>5 DEF ExportInv, ExportTypes
<1>6. CASE WriteReport
  <2>1. xOut' = [xOut EXCEPT !.report = s] /\ xStage = "created" /\ xStage' = "report"
    BY <1>6 DEF WriteReport, Confirming, s
  <2>2. xPlan # <<>> /\ xOut.plan = s /\ xOut.marker = 0
    BY <1>1, <1>2, <2>1 DEF OutIsPlan, s
  <2>3. xOut' \in Outs /\ xOut'.plan = s /\ xOut'.marker = 0
    BY <1>2, <1>4, <2>1, <2>2 DEF Outs, s
  <2>4. OutIsPlan'
    BY <1>1, <1>2, <1>4, <2>1, <2>2, <2>3 DEF OutIsPlan, s
  <2> QED BY <1>1, <1>2, <1>3, <2>3, <2>4 DEF ExportInv, ExportTypes
<1>7. CASE WriteMarker
  <2>1. xOut' = [xOut EXCEPT !.marker = s] /\ xStage = "report" /\ xStage' = "marker" /\ xOut.report = s
    BY <1>7 DEF WriteMarker, Confirming, s
  <2>2. xPlan # <<>> /\ xOut.plan = s
    BY <1>1, <1>2, <2>1 DEF OutIsPlan, s
  <2>3. xOut' \in Outs /\ xOut'.plan = s /\ xOut'.marker = s /\ xOut'.report = s
    BY <1>2, <1>4, <2>1, <2>2 DEF Outs, s
  <2>4. OutIsPlan'
    BY <1>1, <1>2, <1>4, <2>1, <2>2, <2>3 DEF OutIsPlan, s
  <2> QED BY <1>1, <1>2, <1>3, <2>3, <2>4 DEF ExportInv, ExportTypes
<1>8. CASE ForeignFile
  <2>1. xOut' = [xOut EXCEPT !.foreign = TRUE] /\ UNCHANGED xStage
    BY <1>8 DEF ForeignFile
  <2>2. xOut' \in Outs /\ xOut'.plan = xOut.plan /\ xOut'.report = xOut.report /\ xOut'.marker = xOut.marker
    BY <1>2, <2>1 DEF Outs
  <2>3. OutIsPlan'
    BY <1>1, <1>2, <2>1, <2>2 DEF OutIsPlan
  <2> QED BY <1>1, <1>2, <1>3, <2>2, <2>3 DEF ExportInv, ExportTypes
<1> QED BY <1>5, <1>6, <1>7, <1>8

LEMMA ConfirmReturnsKeeps ==
  ASSUME ExportInv, NEW ok \in BOOLEAN, ConfirmReturns(ok)
  PROVE  ExportInv'
<1> DEFINE d == [Idle EXCEPT !.ready = FALSE, !.complete = ok]
<1>1. /\ xCall.kind = "confirm" /\ xCall' = NoCall /\ xPlan' = <<>> /\ UNCHANGED <<xInput, xSerial, xOut>>
      /\ ok => xStage = "marker"
      /\ xDone' = IF ok THEN xDone \cup {xOut.plan} ELSE xDone
      /\ xDialog' \in {CancelPlan(Idle), ClosesNow(Idle), Invalidated(Idle), d} /\ xShown' \in {0, xShown}
  BY DEF ConfirmReturns, Confirming
<1>2. ExportTypes /\ OutIsPlan /\ xShown \in Nat
  BY DEF ExportInv, ExportTypes
<1>3. Idle \in Dialogs /\ ~Idle.busy
  BY IdleDialog
<1>4. d \in Dialogs /\ ~d.busy
  BY <1>3 DEF Dialogs
<1> HIDE DEF d
<1>5. xDialog' \in Dialogs /\ ~xDialog'.busy
  BY <1>1, <1>3, <1>4, DialogOperations
<1>6. xCall' \in CallsMade /\ xCall'.kind = "none" /\ xShown' \in Nat
  BY <1>1, <1>2 DEF NoCall, CallsMade, Inputs
<1>7. xDone' \subseteq 0..xSerial /\ (xOut.plan \in xDone' => xOut.marker = xOut.plan)
  BY <1>1, <1>2 DEF ExportTypes, OutIsPlan
<1>8. ExportTypes'
  BY <1>1, <1>2, <1>5, <1>6, <1>7 DEF ExportTypes
<1>9. PlanIsShown' /\ OutIsPlan'
  BY <1>1, <1>2, <1>6, <1>7 DEF PlanIsShown, OutIsPlan
<1> QED BY <1>8, <1>9 DEF ExportInv

LEMMA ExportSteps ==
  ASSUME ExportInv, ExportNext \/ UNCHANGED exportVars
  PROVE  ExportInv'
<1>1. CASE UNCHANGED exportVars
  BY <1>1 DEF exportVars, ExportInv, ExportTypes, PlanIsShown, OutIsPlan, Gone
<1>2. CASE ClickClose \/ OwnerDestroys
  BY <1>2, ClosingKeeps
<1>3. CASE ClickPreview \/ ClickSave \/ ClickBrowse
  BY <1>3, ClickPreviewKeeps, ClickSaveKeeps, ClickBrowseKeeps
<1>4. CASE CreateChild \/ WriteReport \/ WriteMarker \/ ForeignFile
  BY <1>4, WritingKeeps
<1>5. CASE \E input \in ExportInputs : EditField(input) \/ PickerReturns(input)
  BY <1>5, EditFieldKeeps, PickerReturnsKeeps
<1>6. CASE \E ok \in BOOLEAN : ConfirmReturns(ok)
  BY <1>6, ConfirmReturnsKeeps
<1>7. CASE \E ok, displayed \in BOOLEAN : PrepareReturns(ok, displayed)
  BY <1>7, PrepareReturnsKeeps
<1> QED BY <1>1, <1>2, <1>3, <1>4, <1>5, <1>6, <1>7 DEF ExportNext

-----------------------------------------------------------------------------
(* The minutes of the log.                                                  *)

Pacing(lines) == {i \in DOMAIN lines : lines[i] = "pacing"}
Paced(lines, record) == \E i \in record : lines[i] = "pacing"
Distinct(lines, record) == \A i, j \in record : i # j => lines[i] # lines[j]
Before(record, later) == \A i \in record, j \in later : i < j

RecordsHold(lines, minutes) ==
  /\ minutes \in Seq(SUBSET Nat)
  /\ \A m \in DOMAIN minutes : minutes[m] \subseteq 1..Len(lines) /\ Distinct(lines, minutes[m])
  /\ \A m, k \in DOMAIN minutes : m < k => Before(minutes[m], minutes[k])

PerfInv ==
  /\ xLines \in Seq(LineKinds) /\ RecordsHold(xLines, xMinutes)
  /\ xCurrent \subseteq 1..Len(xLines) /\ Distinct(xLines, xCurrent)
  /\ \A m \in DOMAIN xMinutes : Before(xMinutes[m], xCurrent)
  /\ Len(xMinutes) + (IF Paced(xLines, xCurrent) THEN 1 ELSE 0) = Cardinality(Pacing(xLines))

LEMMA PacingAppended ==
  ASSUME NEW lines \in Seq(LineKinds), NEW kind \in LineKinds
  PROVE  /\ Cardinality(Pacing(lines)) \in Nat
         /\ Cardinality(Pacing(Append(lines, kind))) =
              Cardinality(Pacing(lines)) + (IF kind = "pacing" THEN 1 ELSE 0)
<1> DEFINE n == Len(lines)
<1>1. n \in Nat /\ Pacing(lines) \subseteq 1..n
  BY DEF Pacing
<1>2. IsFiniteSet(1..n)
  BY <1>1, FS_Interval
<1>3. IsFiniteSet(Pacing(lines)) /\ Cardinality(Pacing(lines)) \in Nat
  BY <1>1, <1>2, FS_Subset, FS_CardinalityType
<1>4. n + 1 \notin Pacing(lines)
  BY <1>1
<1>5. CASE kind = "pacing"
  <2>1. Pacing(Append(lines, kind)) = Pacing(lines) \cup {n + 1}
    BY <1>5 DEF Pacing
  <2> QED BY <1>3, <1>4, <1>5, <2>1, FS_AddElement
<1>6. CASE kind # "pacing"
  <2>1. Pacing(Append(lines, kind)) = Pacing(lines)
    BY <1>6 DEF Pacing
  <2> QED BY <1>3, <1>6, <2>1
<1> QED BY <1>3, <1>5, <1>6

\* What a record says is not changed by the lines read after it.
LEMMA RecordUnchanged ==
  ASSUME NEW lines \in Seq(LineKinds), NEW kind \in LineKinds, NEW record \in SUBSET (1..Len(lines))
  PROVE  /\ \A i \in record : Append(lines, kind)[i] = lines[i]
         /\ Distinct(lines, record) => Distinct(Append(lines, kind), record)
         /\ Paced(lines, record) <=> Paced(Append(lines, kind), record)
         /\ record \subseteq 1..Len(Append(lines, kind))
<1>1. \A i \in record : Append(lines, kind)[i] = lines[i]
  OBVIOUS
<1>2. Distinct(lines, record) => Distinct(Append(lines, kind), record)
  BY <1>1 DEF Distinct
<1>3. Paced(lines, record) <=> Paced(Append(lines, kind), record)
  BY <1>1 DEF Paced
<1>4. record \subseteq 1..Len(Append(lines, kind))
  OBVIOUS
<1> QED BY <1>1, <1>2, <1>3, <1>4

LEMMA RecordsUnchanged ==
  ASSUME NEW lines \in Seq(LineKinds), NEW kind \in LineKinds, NEW minutes, RecordsHold(lines, minutes)
  PROVE  RecordsHold(Append(lines, kind), minutes)
<1>1. ASSUME NEW m \in DOMAIN minutes
      PROVE  minutes[m] \subseteq 1..Len(Append(lines, kind)) /\ Distinct(Append(lines, kind), minutes[m])
  <2>1. minutes[m] \subseteq 1..Len(lines) /\ Distinct(lines, minutes[m])
    BY DEF RecordsHold
  <2> QED BY <2>1, RecordUnchanged
<1> QED BY <1>1 DEF RecordsHold

\* flush keeps the records in order.
LEMMA RecordAppended ==
  ASSUME NEW lines \in Seq(LineKinds), NEW minutes, RecordsHold(lines, minutes),
         NEW record \in SUBSET (1..Len(lines)), Distinct(lines, record),
         \A m \in DOMAIN minutes : Before(minutes[m], record)
  PROVE  RecordsHold(lines, Append(minutes, record)) /\ Len(Append(minutes, record)) = Len(minutes) + 1
<1> DEFINE all == Append(minutes, record)
<1>1. minutes \in Seq(SUBSET Nat) /\ record \in SUBSET Nat
  BY DEF RecordsHold
<1>2. /\ all \in Seq(SUBSET Nat) /\ Len(all) = Len(minutes) + 1 /\ Len(minutes) \in Nat
      /\ all[Len(minutes) + 1] = record /\ \A m \in DOMAIN minutes : all[m] = minutes[m]
      /\ DOMAIN minutes = 1..Len(minutes) /\ DOMAIN all = 1..Len(minutes) + 1
  BY <1>1
<1> HIDE DEF all
<1>3. ASSUME NEW m \in DOMAIN all
      PROVE  all[m] \subseteq 1..Len(lines) /\ Distinct(lines, all[m])
  <2>1. CASE m = Len(minutes) + 1
    BY <1>2, <2>1
  <2>2. CASE m \in DOMAIN minutes
    BY <1>2, <2>2 DEF RecordsHold
  <2> QED BY <1>2, <2>1, <2>2
<1>4. ASSUME NEW m \in DOMAIN all, NEW k \in DOMAIN all, m < k
      PROVE  Before(all[m], all[k])
  <2>1. m \in DOMAIN minutes
    BY <1>2, <1>4
  <2>2. CASE k = Len(minutes) + 1
    BY <1>2, <2>1, <2>2
  <2>3. CASE k \in DOMAIN minutes
    BY <1>2, <1>4, <2>1, <2>3 DEF RecordsHold
  <2> QED BY <1>2, <2>2, <2>3
<1>5. RecordsHold(lines, all)
  BY <1>2, <1>3, <1>4 DEF RecordsHold
<1> QED BY <1>2, <1>5 DEF all

LEMMA FlushedHolds ==
  ASSUME PerfInv
  PROVE  RecordsHold(xLines, Flushed) /\ Len(Flushed) = Cardinality(Pacing(xLines))
<1>1. "pacing" \in KindsOf(xCurrent) <=> Paced(xLines, xCurrent)
  BY DEF KindsOf, Paced
<1>2. xMinutes \in Seq(SUBSET Nat) /\ Len(xMinutes) \in Nat
  BY DEF PerfInv, RecordsHold
<1>3. CASE Paced(xLines, xCurrent)
  <2>1. Flushed = Append(xMinutes, xCurrent)
    BY <1>1, <1>3 DEF Flushed
  <2>2. RecordsHold(xLines, Append(xMinutes, xCurrent)) /\ Len(Append(xMinutes, xCurrent)) = Len(xMinutes) + 1
    BY RecordAppended DEF PerfInv
  <2> QED BY <1>3, <2>1, <2>2 DEF PerfInv
<1>4. CASE ~Paced(xLines, xCurrent)
  <2>1. Flushed = xMinutes
    BY <1>1, <1>4 DEF Flushed
  <2> QED BY <1>2, <1>4, <2>1 DEF PerfInv
<1> QED BY <1>3, <1>4

LEMMA PerfLineKeeps ==
  ASSUME PerfInv, NEW kind \in LineKinds, PerfLine(kind)
  PROVE  PerfInv'
<1> DEFINE n == Len(xLines) + 1
           lines == Append(xLines, kind)
           full == kind \in KindsOf(xCurrent) \/ (kind = "replay" /\ "pacing" \in KindsOf(xCurrent))
<1>1. /\ xLines' = lines /\ xCurrent' = (IF full THEN {n} ELSE xCurrent \cup {n})
      /\ xMinutes' = (IF full THEN Flushed ELSE xMinutes)
  BY DEF PerfLine
<1>2. /\ xLines \in Seq(LineKinds) /\ RecordsHold(xLines, xMinutes) /\ xCurrent \in SUBSET (1..Len(xLines))
      /\ Distinct(xLines, xCurrent) /\ \A m \in DOMAIN xMinutes : Before(xMinutes[m], xCurrent)
  BY DEF PerfInv
<1>3. lines \in Seq(LineKinds) /\ n \in Nat /\ Len(lines) = n /\ lines[n] = kind /\ n \in 1..n
  BY <1>2
<1>4. /\ \A i \in xCurrent : lines[i] = xLines[i]
      /\ Distinct(lines, xCurrent) /\ (Paced(xLines, xCurrent) <=> Paced(lines, xCurrent))
      /\ xCurrent \subseteq 1..n
  BY <1>2, <1>3, RecordUnchanged
<1>5. /\ Cardinality(Pacing(xLines)) \in Nat
      /\ Cardinality(Pacing(lines)) = Cardinality(Pacing(xLines)) + (IF kind = "pacing" THEN 1 ELSE 0)
  BY <1>2, PacingAppended
<1>6. Paced(lines, {n}) <=> kind = "pacing"
  BY <1>3 DEF Paced
<1>7. Distinct(lines, {n}) /\ {n} \subseteq 1..n
  BY <1>3 DEF Distinct
<1>8. ASSUME NEW minutes, RecordsHold(xLines, minutes)
      PROVE  \A m \in DOMAIN minutes : Before(minutes[m], {n})
  BY <1>2, <1>8 DEF RecordsHold, Before
<1>9. CASE full
  <2>1. RecordsHold(xLines, Flushed) /\ Len(Flushed) = Cardinality(Pacing(xLines))
    BY FlushedHolds
  <2>2. RecordsHold(lines, Flushed) /\ \A m \in DOMAIN Flushed : Before(Flushed[m], {n})
    BY <1>2, <1>8, <2>1, RecordsUnchanged
  <2>3. xLines' = lines /\ xCurrent' = {n} /\ xMinutes' = Flushed
    BY <1>1, <1>9
  <2>4. Len(Flushed) + (IF Paced(lines, {n}) THEN 1 ELSE 0) = Cardinality(Pacing(lines))
    BY <1>5, <1>6, <2>1
  <2> HIDE DEF lines, n
  <2> QED BY <1>3, <1>7, <2>2, <2>3, <2>4 DEF PerfInv
<1>10. CASE ~full
  <2>1. \A i \in xCurrent : lines[i] # kind
    BY <1>4, <1>10 DEF KindsOf
  <2>2. xLines' = lines /\ xCurrent' = xCurrent \cup {n} /\ xMinutes' = xMinutes
    BY <1>1, <1>10
  <2>3. RecordsHold(lines, xMinutes) /\ \A m \in DOMAIN xMinutes : Before(xMinutes[m], {n})
    BY <1>2, <1>8, RecordsUnchanged
  <2> HIDE DEF lines, n
  <2>4. \A m \in DOMAIN xMinutes : Before(xMinutes[m], xCurrent \cup {n})
    BY <1>2, <2>3 DEF Before
  <2>5. Distinct(lines, xCurrent \cup {n}) /\ xCurrent \cup {n} \subseteq 1..n
    BY <1>3, <1>4, <2>1 DEF Distinct
  <2>6. Paced(lines, xCurrent \cup {n}) <=> Paced(lines, xCurrent) \/ kind = "pacing"
    BY <1>3 DEF Paced
  <2>7. Paced(lines, xCurrent) => kind # "pacing"
    BY <2>1 DEF Paced
  <2>8. Len(xMinutes) \in Nat
    BY <1>2 DEF RecordsHold
  <2>9. Len(xMinutes) + (IF Paced(lines, xCurrent) THEN 1 ELSE 0) = Cardinality(Pacing(xLines))
    BY <1>4 DEF PerfInv
  <2>10. Len(xMinutes) + (IF Paced(lines, xCurrent \cup {n}) THEN 1 ELSE 0) = Cardinality(Pacing(lines))
    BY <1>5, <2>6, <2>7, <2>8, <2>9
  <2> QED BY <1>3, <2>2, <2>3, <2>4, <2>5, <2>10 DEF PerfInv
<1> QED BY <1>9, <1>10

LEMMA PerfStarts == PerfInit => PerfInv
<1> SUFFICES ASSUME PerfInit  PROVE PerfInv
  OBVIOUS
<1>1. xLines = <<>> /\ xCurrent = {} /\ xMinutes = <<>>
  BY DEF PerfInit
<1>2. Pacing(<<>>) = {} /\ ~Paced(<<>>, {})
  BY DEF Pacing, Paced
<1>3. Cardinality(Pacing(xLines)) = 0
  BY <1>1, <1>2, FS_EmptySet
<1>4. RecordsHold(<<>>, <<>>) /\ Distinct(<<>>, {})
  BY DEF RecordsHold, Distinct
<1>5. Len(xMinutes) = 0 /\ ~Paced(xLines, xCurrent)
  BY <1>1, <1>2
<1> QED BY <1>1, <1>3, <1>4, <1>5 DEF PerfInv

LEMMA PerfSteps ==
  ASSUME PerfInv, PerfNext \/ UNCHANGED perfVars
  PROVE  PerfInv'
<1>1. CASE UNCHANGED perfVars
  BY <1>1 DEF perfVars, PerfInv, RecordsHold
<1>2. CASE PerfNext
  BY <1>2, PerfLineKeeps DEF PerfNext
<1> QED BY <1>1, <1>2

\* The plan is the one on the screen for as long as it exists, what is reported as
\* saved was shown, a completion marker stands beside its whole report, and the
\* minutes of the summary are whole, for any folders, facts and log.
THEOREM ExportTellsTheTruth == ExportSpec => []ExportIsWhatWasShown
<1>1. ExportInit /\ PerfInit => ExportInv /\ PerfInv
  BY ExportStarts, PerfStarts
<1>2. ExportInv /\ PerfInv /\ [\/ ExportNext /\ UNCHANGED perfVars
                               \/ PerfNext /\ UNCHANGED exportVars]_<<exportVars, perfVars>>
        => ExportInv' /\ PerfInv'
  BY ExportSteps, PerfSteps
<1>3. ExportInv /\ PerfInv => ExportIsWhatWasShown
  <2> SUFFICES ASSUME ExportInv, PerfInv  PROVE ExportIsWhatWasShown
    OBVIOUS
  <2>1. MinutesAreWhole
    <3>1. RecordsHold(xLines, Flushed) /\ Len(Flushed) = Cardinality(Pacing(xLines))
      BY FlushedHolds
    <3> QED BY <3>1 DEF MinutesAreWhole, RecordsHold, Distinct, Before, Pacing
  <2>2. xPlan # <<>> /\ xCall.kind = "none" =>
          ~Gone /\ xDialog.ready /\ xPlan[1].serial = xShown /\ xPlan[1].input = xInput
    BY DEF ExportInv, PlanIsShown
  <2>3. /\ xPlan # <<>> => Projects(FactsOf[xPlan[1].input])
        /\ xCall.kind = "confirm" /\ xPlan # <<>> => xPlan[1].serial = xShown
    BY DEF ExportInv, PlanIsShown
  <2>4. /\ xOut.marker # 0 => xOut.report = xOut.marker /\ xOut.marker = xOut.plan
        /\ xOut.plan \in xDone => xOut.marker = xOut.plan
    BY DEF ExportInv, OutIsPlan
  <2> QED BY <2>1, <2>2, <2>3, <2>4 DEF ExportIsWhatWasShown
<1> QED BY <1>1, <1>2, <1>3, PTL DEF ExportSpec

=================================================================================
