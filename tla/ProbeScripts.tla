---------------------------- MODULE ProbeScripts ----------------------------
(***************************************************************************)
(* The scripted probes of the host (MclaApp::RunFirstFrameProbe and        *)
(* RunReadbackCostProbe): a worker thread plays a fixed script of inputs,  *)
(* waits, frame captures and operator requests against the running game    *)
(* and logs a summary that the verification scripts read.  The UI thread   *)
(* may request a stop at any moment and then joins the worker.  Inputs go  *)
(* through FrontendSmokeInputDriver, which the guest polls.                *)
(***************************************************************************)
EXTENDS Naturals, Sequences, SequencesExt

CONSTANTS Selections, \* the combinations of probe options explored
          MaxOrders   \* control requests of the operator explored

VARIABLES pScript,  \* steps of this session
          pWorker,  \* the thread: place in the script, place in the step, outcome
          pPad,     \* driver: buttons held, armed_sequence_ # 0, observed_; rumble; audio paused
          pStop,    \* stop_requested
          pAsked,   \* the awaited request file exists
          pOrder,   \* control request file: "none", "good" or "bad", and how many so far
          pTally,   \* frames written, inputs logged by the source and by the guest
          pClaim    \* the last summary and the tallies when it was logged

probeVars == <<pScript, pWorker, pPad, pStop, pAsked, pOrder, pTally, pClaim>>

\* The steps the scripts are made of.
Sleep   == <<"sleep">>    \* SleepUntilOrStop
Pulse   == <<"pulse">>    \* press, hold 200 ms, release, each seen by the guest
Press   == <<"press">>    \* SetRenderGamepad, SetGameplayGamepad
Lift    == <<"lift">>     \* ReleaseRenderGamepad, ReleaseGameplayGamepad
Shoot   == <<"shoot">>    \* a frame captured and written before a deadline
Ask     == <<"ask">>      \* wait for the operator's request file
Take    == <<"take">>     \* remove it
Check   == <<"check">>    \* a dependency or an SDK call that may fail
Output  == <<"output">>   \* wait for guest output, however long
\* FreezeRaceSystemAudit: the audit decides whether the summary says PASS or FAIL.
Verdict == <<"verdict">>
Start   == <<"start">>    \* a probe begins to count
NotStated == 999
Summary(frames, records) == <<"summary", frames, records>>

Times(n, steps) == FlattenSeq([i \in 1..n |-> steps])
PressAndRelease == <<Press, Sleep, Lift>>
Window(steps)   == <<Check>> \o steps \o <<Check>> \* Begin/EndAudioEventPhase

FirstFrame   == <<Output, Sleep, Output, Check>>
RaceRoute    == <<Start>> \o Times(3, <<Ask, Shoot, Take>>) \o <<Summary(3, 0)>>
RaceResource == <<Start>> \o Times(5, <<Ask, Shoot, Take>>) \o <<Summary(5, 0)>>
RaceSystem   == <<Start>> \o Times(2, <<Ask, Shoot, Take>>) \o <<Verdict, Summary(2, 0)>>
CityStreaming == <<Start>> \o Times(9, <<Ask, Shoot, Take>>) \o <<Summary(9, 0)>>
Garage(phases) ==
    <<Check, Start>> \o Times(phases, <<<<"command">>, Shoot, Take>>) \o <<Summary(phases, NotStated)>>
AudioStability ==
    <<Check, Start, Sleep>> \o Times(2, <<<<"pause">>, Sleep, <<"resume">>, Sleep>>)
        \o <<Check, Ask, Check, Take, Summary(0, 0)>>
AudioEvent ==
    <<Check, Start>> \o Window(<<Sleep>>) \o PressAndRelease \o <<Sleep>> \o Times(6, <<Pulse, Sleep>>)
        \o Window(<<Sleep>>) \o Window(<<Sleep>>)
        \o Window(PressAndRelease) \o Window(PressAndRelease)
        \o Window(PressAndRelease \o <<Sleep>> \o PressAndRelease \o <<Sleep>>) \o <<Summary(0, NotStated)>>
ToGameplay == <<Check, Start>> \o PressAndRelease \o <<Sleep>> \o Times(6, <<Pulse, Sleep>>) \o <<Shoot>>
PhysicsTiming == ToGameplay \o <<Press, Check, Sleep, Lift, Shoot, Check, Summary(2, 8 + 24)>>
GameplayInput ==
    ToGameplay \o Times(2, <<Press, Sleep, Shoot, Lift, Sleep, Shoot>>)
        \o Times(2, <<Press, Sleep, Shoot, Lift, Sleep>>)
        \o PressAndRelease \o <<Sleep, Shoot, Summary(8, 24 + 24)>>
RenderingSmoke ==
    <<Start, Pulse, Sleep, Shoot>> \o Times(6, Times(4, <<Sleep, Shoot>>) \o <<Sleep, Pulse, Shoot>>)
        \o <<Press, Sleep, Shoot, Lift, Sleep, Shoot>>
        \o <<Press>> \o Times(3, <<Sleep, Shoot>>) \o <<Lift, Summary(36, 28 + 8)>>
EnvironmentEffects ==
    <<Check, Start, Pulse, Sleep, Sleep, Shoot>> \o Times(3, <<Pulse, Sleep>>) \o <<Sleep>>
        \o Times(2, <<Pulse, Sleep>>) \o Times(4, <<Pulse, Sleep>>) \o Times(7, <<Pulse, Sleep>>)
        \o <<Shoot, Pulse, Sleep, Sleep, Shoot>>
        \o <<Press, Sleep, Shoot, Lift, Sleep, Shoot>>
        \o <<Press, Sleep, Shoot, Lift, Summary(6, 72 + 8)>>
FrontendSmoke ==
    <<Start, Pulse, Sleep, Shoot, Pulse, Sleep, Shoot, Pulse, Sleep, Pulse, Sleep, Shoot, Summary(3, 16)>>
ControllerRumble == <<Sleep>> \o Times(2, <<<<"rumble">>, Sleep>>) \o <<<<"rumble">>>>
ReadbackCost(unpaused) ==
    <<Check, Start, Shoot, Sleep, Pulse, Sleep, Shoot>>
        \o (IF unpaused THEN <<Lift, Shoot, Sleep, Check, Shoot, Check>> ELSE <<>>)
        \o <<Pulse, Sleep, Shoot, Sleep, Check, Shoot, Check>>
        \o <<Sleep, IF unpaused THEN Summary(6, NotStated) ELSE Summary(4, NotStated)>> \* unless stopped by then

Chosen(options, name, script) == IF name \in options THEN script ELSE <<>>
\* The title soak of the audio route audit, unless another audio probe is on.
Soak(options) == IF options \cap {"stability", "audio"} = {} /\ "soak" \in options THEN <<Sleep>> ELSE <<>>

\* The probes in the order the options are looked at; some end the script.
Tail_(options) ==
    IF "stability" \in options THEN AudioStability
    ELSE IF "audio" \in options THEN AudioEvent
    ELSE IF "physics" \in options THEN PhysicsTiming
    ELSE IF "gameplay" \in options THEN GameplayInput
    ELSE IF "rendering" \in options THEN RenderingSmoke
    ELSE IF "environment" \in options THEN EnvironmentEffects
    ELSE Chosen(options, "frontend", FrontendSmoke) \o Chosen(options, "rumble", ControllerRumble)
Script(options) ==
    IF "readback" \in options THEN ReadbackCost("unpaused" \in options)
    ELSE FirstFrame \o Chosen(options, "route", RaceRoute) \o Chosen(options, "resource", RaceResource)
            \o Chosen(options, "system", RaceSystem) \o Chosen(options, "city", CityStreaming)
            \o Chosen(options, "garage1", Garage(7)) \o Chosen(options, "garage2", Garage(5))
            \o Soak(options) \o Tail_(options)

NoClaim == [stated |-> <<0, 0>>, frames |-> 0, source |-> 0, guest |-> 0, stop |-> FALSE, loose |-> FALSE]
ZeroTally == [frames |-> 0, source |-> 0, guest |-> 0]
ProbeInit ==
    /\ \E options \in Selections: pScript = Script(options)
    /\ pWorker = [at |-> 1, phase |-> "go", end |-> "no"]
    /\ pPad = [held |-> FALSE, armed |-> FALSE, seen |-> FALSE, rumble |-> FALSE, muted |-> FALSE]
    /\ pStop = FALSE /\ pAsked = FALSE /\ pOrder = [file |-> "none", count |-> 0]
    /\ pTally = ZeroTally /\ pClaim = NoClaim

Running(phase) == pWorker.end = "no" /\ pWorker.phase = phase
AtStep(op) == Running("go") /\ pScript[pWorker.at][1] = op
Advance ==
    pWorker' = IF pWorker.at = Len(pScript) THEN [pWorker EXCEPT !.end = "done", !.phase = "go"]
               ELSE [pWorker EXCEPT !.at = @ + 1, !.phase = "go"]
Leave == pWorker' = [pWorker EXCEPT !.end = "left"]
Phase(phase) == pWorker' = [pWorker EXCEPT !.phase = phase]
Quiet == UNCHANGED <<pScript, pStop, pAsked, pOrder, pTally, pClaim, pPad>>

\* SleepUntilOrStop polls the stop token until its time has come.
Sleeps == AtStep("sleep") /\ (IF pStop THEN Leave ELSE Advance) /\ Quiet
Checks == /\ AtStep("check") /\ (Advance \/ Leave) /\ Quiet
Starts == /\ AtStep("start") /\ Advance /\ pTally' = ZeroTally
          /\ UNCHANGED <<pScript, pStop, pAsked, pOrder, pClaim, pPad>>

\* Capture again and again until there is a frame, a stop is requested or the
\* deadline passes (there is none for the first output).
Shoots == /\ AtStep("shoot") \/ AtStep("output")
          /\ \/ ~pStop /\ Phase("captures")
             \/ (pStop \/ AtStep("shoot")) /\ Leave
          /\ Quiet
\* Presenter::CaptureGuestOutput (external) comes back, with a frame that is
\* written or with nothing; "an individual graphics capture call may block".
CaptureReturns ==
    /\ Running("captures")
    /\ \/ Phase("go") /\ UNCHANGED pTally
       \/ /\ Advance
          /\ pTally' = IF pScript[pWorker.at] = Shoot THEN [pTally EXCEPT !.frames = @ + 1] ELSE pTally
    /\ UNCHANGED <<pScript, pStop, pAsked, pOrder, pClaim, pPad>>

Awaits == /\ AtStep("ask") /\ (pStop \/ pAsked)
          /\ IF pStop THEN Leave ELSE Advance
          /\ Quiet
Takes == /\ AtStep("take")
         /\ \/ Advance /\ pAsked' = FALSE
            \/ Leave /\ UNCHANGED pAsked
         /\ UNCHANGED <<pScript, pStop, pOrder, pTally, pClaim, pPad>>

\* The driver publishes a new pad state and waits for the guest to poll it.
Arms(held) ==
    /\ pPad' = [pPad EXCEPT !.held = held, !.armed = TRUE, !.seen = FALSE]
    /\ pTally' = [pTally EXCEPT !.source = @ + 1]
    /\ UNCHANGED <<pScript, pStop, pAsked, pClaim>>
Sets == \/ AtStep("pulse") /\ Arms(TRUE) /\ Phase("pressed") /\ UNCHANGED pOrder
        \/ AtStep("press") /\ Arms(TRUE) /\ Phase("set") /\ UNCHANGED pOrder
        \/ AtStep("lift") /\ Arms(FALSE) /\ Phase("set") /\ UNCHANGED pOrder

\* Mutant: a wait that ran out counts as seen.
AnyWait == TRUE
\* wait_for with the predicate observed_ || stop_requested: nothing notifies a
\* stop, it counts when the 20 seconds are over.
WaitHolds == pPad.seen \/ pStop
\* SetRenderGamepad and SetGameplayGamepad return the predicate.
SetReturns == /\ Running("set")
              /\ IF WaitHolds THEN Advance ELSE Leave
              /\ Quiet
\* Pulse: the first wait also looks at the stop token.
PulsePressed == /\ Running("pressed")
                /\ IF pPad.seen /\ ~pStop THEN Phase("held") ELSE Leave
                /\ Quiet
PulseHeld == /\ Running("held")
             /\ \/ pStop /\ Leave /\ UNCHANGED <<pPad, pTally>>
                \/ /\ ~pStop /\ Phase("lifted")
                   /\ pPad' = [pPad EXCEPT !.held = FALSE, !.armed = TRUE, !.seen = FALSE]
                   /\ pTally' = [pTally EXCEPT !.source = @ + 1]
             /\ UNCHANGED <<pScript, pStop, pAsked, pOrder, pClaim>>
PulseLifted == /\ Running("lifted")
               /\ IF ~WaitHolds THEN Leave
                  ELSE IF pScript[pWorker.at] = <<"command">> THEN Phase("settle") ELSE Advance
               /\ Quiet

\* Garage: while it waits, the worker carries out the operator's control
\* requests, each with the next number: pulse, two seconds, remove the file.
Commands ==
    \/ /\ AtStep("command") /\ pStop /\ Leave /\ Quiet
    \/ /\ AtStep("command") /\ ~pStop /\ pAsked /\ Advance /\ Quiet
    \/ /\ AtStep("command") /\ ~pStop /\ ~pAsked /\ pOrder.file = "good"
       /\ Arms(TRUE) /\ Phase("pressed") /\ UNCHANGED pOrder
    \/ /\ AtStep("command") /\ ~pStop /\ ~pAsked /\ pOrder.file = "bad" /\ Leave /\ Quiet
    \/ /\ Running("settle")
       /\ \/ ~pStop /\ Phase("go") /\ pOrder' = [pOrder EXCEPT !.file = "none"]
          \/ Leave /\ UNCHANGED pOrder
       /\ UNCHANGED <<pScript, pStop, pAsked, pTally, pClaim, pPad>>

\* AudioSystem::Pause and Resume; SetControllerMatrixVibration, which is taken
\* back before the result of the three seconds is looked at.
Mutes == /\ AtStep("pause") \/ AtStep("resume")
         /\ pPad' = [pPad EXCEPT !.muted = AtStep("pause")] /\ Advance
         /\ UNCHANGED <<pScript, pStop, pAsked, pOrder, pTally, pClaim>>
RumbleStops ==
    /\ Running("rumbling") /\ pPad' = [pPad EXCEPT !.rumble = FALSE]
    /\ IF pStop THEN Leave ELSE Advance
    /\ UNCHANGED <<pScript, pStop, pAsked, pOrder, pTally, pClaim>>
Rumbles ==
    \/ /\ AtStep("rumble")
       /\ \/ Leave /\ UNCHANGED pPad
          \/ ~pStop /\ Phase("rumbling") /\ pPad' = [pPad EXCEPT !.rumble = TRUE]
       /\ UNCHANGED <<pScript, pStop, pAsked, pOrder, pTally, pClaim>>
    \/ RumbleStops

Judges == /\ AtStep("verdict") /\ Quiet
          /\ \/ Advance
             \/ pWorker' = IF pWorker.at + 1 = Len(pScript) THEN [pWorker EXCEPT !.end = "done"]
                           ELSE [pWorker EXCEPT !.at = @ + 2]
Summarises ==
    /\ AtStep("summary") /\ Advance
    /\ pClaim' = [stated |-> <<pScript[pWorker.at][2], pScript[pWorker.at][3]>>,
                  frames |-> pTally.frames, source |-> pTally.source, guest |-> pTally.guest,
                  stop |-> pStop, loose |-> pPad.held \/ pPad.muted]
    /\ UNCHANGED <<pScript, pStop, pAsked, pOrder, pTally, pPad>>

WorkerStep == \/ Sleeps \/ Checks \/ Starts \/ Shoots \/ Awaits \/ Takes
              \/ Sets \/ SetReturns \/ PulsePressed \/ PulseHeld \/ PulseLifted
              \/ Commands \/ Mutes \/ Rumbles \/ Judges \/ Summarises

\* FrontendSmokeInputDriver::GetState on a guest thread.
GuestPolls == /\ pPad.armed /\ ~pPad.seen
              /\ pPad' = [pPad EXCEPT !.seen = TRUE] /\ pTally' = [pTally EXCEPT !.guest = @ + 1]
              /\ UNCHANGED <<pScript, pWorker, pStop, pAsked, pOrder, pClaim>>
\* The operator's side of the request files.
OperatorAsks == /\ AtStep("ask") \/ AtStep("command")
                /\ ~pAsked
                /\ pAsked' = TRUE
                /\ UNCHANGED <<pScript, pWorker, pPad, pStop, pOrder, pTally, pClaim>>
OperatorOrders == /\ AtStep("command") /\ pOrder.file = "none" /\ pOrder.count < MaxOrders
                  /\ \E file \in {"good", "bad"}: pOrder' = [file |-> file, count |-> pOrder.count + 1]
                  /\ UNCHANGED <<pScript, pWorker, pPad, pStop, pAsked, pTally, pClaim>>
\* StopFirstFrameProbe on the UI thread, which then joins the worker.
RequestStop == /\ ~pStop /\ pStop' = TRUE
               /\ UNCHANGED <<pScript, pWorker, pPad, pAsked, pOrder, pTally, pClaim>>

ProbeNext == WorkerStep \/ CaptureReturns \/ GuestPolls \/ OperatorAsks \/ OperatorOrders \/ RequestStop
ProbeSpec == ProbeInit /\ [][ProbeNext]_probeVars

\* The motors are off whenever the worker has left (RunControllerMatrixRumbleProbe).
RumbleEnds == pWorker.end # "no" => ~pPad.rumble
\* A summary that says PASS, CAPTURED or COMPLETE (RunFirstFrameProbe,
\* RunReadbackCostProbe) is logged only by a script that wrote every frame and
\* made every input it states, left the pad neutral and the audio running, and
\* whose every input the guest has seen, unless a stop was requested meanwhile.
PassIsEarned ==
    LET records == pClaim.stated[2]
    IN  /\ pClaim.frames = pClaim.stated[1] /\ ~pClaim.loose
        /\ records # NotStated => /\ 2 * pClaim.source = records
                                  /\ pClaim.stop \/ 2 * pClaim.guest = records
\* What the log of a probe says of it is what happened, and it leaves the
\* controller still (the probes of mcla_app.cpp).
ProbeKeepsItsWord == PassIsEarned /\ RumbleEnds
\* verify-rendering-smoke.ps1 takes render_input_records=8 of the PASS line for
\* as many records of source and guest: stated exactly, stop or no stop.
StatedRecordsWereSeen ==
    LET records == pClaim.stated[2] IN records # NotStated => pClaim.source + pClaim.guest = records
\* Once the UI thread has requested a stop its join returns, provided that no
\* graphics capture blocks for ever: nothing else in a script waits for what only
\* the game, the operator or the UI can bring, and no capture begins after a stop.
JoinReturns == []<>(pWorker.phase # "captures") => (pStop ~> pWorker.end # "no")
=============================================================================
