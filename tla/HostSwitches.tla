----------------------------- MODULE HostSwitches -----------------------------
(***************************************************************************)
(* GPU settings the host borrows from the user while the title runs.  The  *)
(* menu cap (mcla_menu_state) raises mcla_ui_cap_draws_low while the game  *)
(* is paused; the photo window (mcla_photo_capture) turns the pipeline     *)
(* wait on while a capture is frozen and owns the always-on wait from      *)
(* start-up to shutdown.  Hooks run on the guest thread under the          *)
(* component's mutex, shutdown and the user's edits on the UI thread.  The *)
(* registry that holds the settings is not guarded by either mutex, so an  *)
(* edit may fall between a hook's query and its write.                     *)
(***************************************************************************)
EXTENDS Integers

CONSTANTS Lows,          \* thresholds the user may choose; 0 disables the cap
          Forced,        \* kForcedLow, the upper bound of the range
          MaxUserEdits,  \* bound: edits of a setting by the user
          TimeoutFrames  \* kTimeoutFrames

ASSUME SwitchConstants == Lows \subseteq Nat /\ Forced \in Nat

----------------------------------------------------------------------------
(* The menu cap. *)
VARIABLES menu, edges, menuHook, readsStopped, unlocked, low, userLow, menuRaced, menuEdits

menuVars == <<menu, edges, menuHook, readsStopped, unlocked, low, userLow, menuRaced, menuEdits>>

NoWrite == -1

MenuInit ==
  /\ menu = [paused |-> FALSE, wrote |-> FALSE, stopped |-> FALSE, saved |-> 0]
  /\ edges = [seen |-> FALSE, paused |-> FALSE, off |-> FALSE, resync |-> "none"]
  /\ menuHook = [at |-> "idle", paused |-> FALSE, off |-> FALSE, write |-> NoWrite]
  /\ readsStopped = FALSE /\ unlocked \in BOOLEAN
  /\ low \in Lows \cup {Forced} /\ userLow = low
  /\ menuRaced = FALSE /\ menuEdits = 0

\* ReadRacerInputOff: 0 once the host's shutdown began.
RacerOff(off) == off /\ ~readsStopped

\* The game-state update ran; the hook reads its flags before it takes the lock.
HookReads(simulation, off) ==
  /\ menuHook.at = "idle"
  /\ menuHook' = [at |-> "read", paused |-> simulation \/ RacerOff(off), off |-> RacerOff(off),
                  write |-> NoWrite]
  /\ UNCHANGED <<menu, edges, readsStopped, unlocked, low, userLow, menuRaced, menuEdits>>

\* WheelResyncEdges::Observe.
Edge(paused, off) ==
  [seen |-> TRUE, paused |-> paused, off |-> off,
   resync |-> IF ~edges.seen THEN "none"
              ELSE IF edges.paused /\ ~paused THEN "resume"
              ELSE IF edges.off /\ ~off THEN "racer" ELSE "none"]

\* Mutant: the saved threshold is restored whatever the setting holds now.
ReleaseAnyway(current) == IF menu.wrote THEN menu.saved ELSE NoWrite

\* Controller::Release: what to write back, or NoWrite.
Release(current) == IF menu.wrote /\ current = Forced THEN menu.saved ELSE NoWrite

\* Under controller_mutex: the edge, and on it the query and the decision.
HookObserves ==
  LET p == menuHook.paused
      forces == p /\ unlocked /\ low > 0
      write == IF ~p THEN Release(low) ELSE IF forces /\ low # Forced THEN Forced ELSE NoWrite
  IN /\ menuHook.at = "read"
     /\ edges' = IF menu.stopped THEN edges ELSE Edge(p, menuHook.off)
     /\ IF menu.stopped \/ p = menu.paused
        THEN menuHook' = [menuHook EXCEPT !.at = "idle"] /\ UNCHANGED menu
        ELSE /\ menu' = [menu EXCEPT !.paused = p,
                           !.wrote = forces /\ low # Forced,
                           !.saved = IF forces THEN low ELSE @]
             /\ menuHook' = [menuHook EXCEPT !.at = IF write = NoWrite THEN "idle" ELSE "locked",
                                             !.write = write]
     /\ UNCHANGED <<readsStopped, unlocked, low, userLow, menuRaced, menuEdits>>

\* WriteLow, still under the mutex.
HookWrites ==
  /\ menuHook.at = "locked"
  /\ low' = menuHook.write
  /\ menuHook' = [menuHook EXCEPT !.at = "idle", !.write = NoWrite]
  /\ UNCHANGED <<menu, edges, readsStopped, unlocked, userLow, menuRaced, menuEdits>>

\* ShutdownMenuStateCap on the UI thread: reads stop first, then the lock.
MenuStops ==
  /\ ~readsStopped
  /\ readsStopped' = TRUE
  /\ UNCHANGED <<menu, edges, menuHook, unlocked, low, userLow, menuRaced, menuEdits>>

MenuRestores ==
  /\ readsStopped /\ ~menu.stopped /\ menuHook.at # "locked"
  /\ low' = IF Release(low) = NoWrite THEN low ELSE Release(low)
  /\ menu' = [menu EXCEPT !.stopped = TRUE, !.wrote = FALSE]
  /\ UNCHANGED <<edges, menuHook, readsStopped, unlocked, userLow, menuRaced, menuEdits>>

\* The user changes the threshold in the settings.
UserSetsLow(v) ==
  /\ menuEdits < MaxUserEdits
  /\ low' = v /\ userLow' = v /\ menuEdits' = menuEdits + 1
  /\ menuRaced' = (menuHook.at = "locked")
  /\ UNCHANGED <<menu, edges, menuHook, readsStopped, unlocked>>

MenuNext ==
  \/ \E simulation, off \in BOOLEAN : HookReads(simulation, off)
  \/ HookObserves
  \/ HookWrites
  \/ MenuStops
  \/ MenuRestores
  \/ \E v \in Lows \cup {Forced} : UserSetsLow(v)

MenuSpec == MenuInit /\ [][MenuNext]_menuVars

\* Outside a hook's write the threshold is the user's last choice, or the
\* forced value with that choice saved behind it; the forced value is never
\* left behind.  Two choices are not covered: one made between a hook's query
\* and its write, which that write replaces (see NeverRestoresOverUser), and
\* the upper bound itself, which cannot be told from a forced value.
MenuGivesBack ==
  (menuHook.at # "locked" /\ userLow # Forced) =>
    /\ ~menu.wrote => low # Forced
    /\ ~menuRaced => low = userLow \/ (low = Forced /\ menu.wrote /\ menu.saved = userLow)

\* A restore writes over the host's own value and over no other: the controller
\* "never restores over a value the user changed while the game was paused".
NeverRestoresOverUser ==
  [][low' # low /\ userLow' = userLow /\ low' # Forced => low = Forced]_menuVars

----------------------------------------------------------------------------
(* The photo window and the always-on wait. *)
VARIABLES photo, frozen, photoPc, wait, userWait, always, userAlways, photoEdits, during, opened

photoVars == <<photo, frozen, photoPc, wait, userWait, always, userAlways, photoEdits, during, opened>>

\* during: the user turned a setting on while the host owned it (history);
\* opened: a window has been open since the capture froze (history).
PhotoInit ==
  /\ photo \in [enabled : BOOLEAN, open : {FALSE}, owning : {FALSE}, stopped : {FALSE}, frames : {0},
                resync : {FALSE}, alwaysOwned : {FALSE}, started : {FALSE}]
  /\ frozen = FALSE /\ photoPc = "frame"
  /\ wait \in BOOLEAN /\ userWait = wait /\ always \in BOOLEAN /\ userAlways = always
  /\ photoEdits = 0 /\ during = {} /\ opened = FALSE

\* StartAlwaysPipelineWait, before the title runs: the option, the plugin's
\* setting and the write may each be missing.
AlwaysStarts(option, written) ==
  /\ ~photo.started
  /\ LET enable == option /\ ~always /\ written
     IN /\ photo' = [photo EXCEPT !.started = TRUE, !.alwaysOwned = enable]
        /\ always' = (always \/ enable)
  /\ UNCHANGED <<frozen, photoPc, wait, userWait, userAlways, photoEdits, during, opened>>

\* The capture freeze took effect; Window::Open queries the setting.
Freezes ==
  /\ photo.started /\ photoPc = "frame"
  /\ frozen' = TRUE
  /\ IF ~photo.enabled \/ photo.stopped \/ photo.open
     THEN photoPc' = "tick" /\ UNCHANGED photo
     ELSE /\ photo' = [photo EXCEPT !.open = TRUE, !.frames = 0, !.owning = ~wait, !.resync = TRUE]
          /\ photoPc' = IF wait THEN "tick" ELSE "opening"
  /\ opened' = (opened \/ photo'.open)
  /\ UNCHANGED <<wait, userWait, always, userAlways, photoEdits, during>>

FreezeWrites ==
  /\ photoPc = "opening"
  /\ wait' = TRUE /\ photoPc' = "tick"
  /\ UNCHANGED <<photo, frozen, userWait, always, userAlways, photoEdits, during, opened>>

\* Window::End.
Ended(p) == [p EXCEPT !.open = FALSE, !.owning = FALSE]
WaitAfterEnd(p) == IF p.open /\ p.owning THEN FALSE ELSE wait

\* The unfreeze closes the window and consumes the resync, once per freeze.
Unfreezes ==
  /\ photo.started /\ photoPc = "frame"
  /\ frozen' = FALSE /\ photoPc' = "tick" /\ opened' = FALSE
  /\ wait' = WaitAfterEnd(photo)
  /\ photo' = [Ended(photo) EXCEPT !.resync = FALSE]
  /\ UNCHANGED <<userWait, always, userAlways, photoEdits, during>>

\* The per-frame update: the safety timeout by frames or by elapsed time.
Ticks(over) ==
  LET counted == [photo EXCEPT !.frames = @ + 1]
      ends == photo.open /\ (counted.frames >= TimeoutFrames \/ over)
  IN /\ photo.started /\ photoPc \in {"frame", "tick"}
     /\ photoPc' = "frame"
     /\ photo' = IF ends THEN Ended(counted) ELSE IF photo.open THEN counted ELSE photo
     /\ wait' = IF ends THEN WaitAfterEnd(photo) ELSE wait
     /\ UNCHANGED <<frozen, userWait, always, userAlways, photoEdits, during, opened>>

\* ShutdownPhotoCapture on the UI thread.
PhotoStops ==
  /\ photo.started /\ ~photo.stopped /\ photoPc # "opening"
  /\ wait' = WaitAfterEnd(photo)
  /\ always' = IF photo.alwaysOwned THEN FALSE ELSE always
  /\ photo' = [Ended(photo) EXCEPT !.stopped = TRUE, !.alwaysOwned = FALSE]
  /\ UNCHANGED <<frozen, photoPc, userWait, userAlways, photoEdits, during, opened>>

UserSetsWait(v) ==
  /\ photoEdits < MaxUserEdits
  /\ wait' = v /\ userWait' = v /\ photoEdits' = photoEdits + 1
  /\ during' = IF v /\ photo.owning THEN during \cup {"wait"} ELSE during \ {"wait"}
  /\ UNCHANGED <<photo, frozen, photoPc, always, userAlways, opened>>

UserSetsAlways(v) ==
  /\ photoEdits < MaxUserEdits
  /\ always' = v /\ userAlways' = v /\ photoEdits' = photoEdits + 1
  /\ during' = IF v /\ photo.alwaysOwned THEN during \cup {"always"} ELSE during \ {"always"}
  /\ UNCHANGED <<photo, frozen, photoPc, wait, userWait, opened>>

PhotoNext ==
  \/ \E option, written \in BOOLEAN : AlwaysStarts(option, written)
  \/ Freezes
  \/ FreezeWrites
  \/ Unfreezes
  \/ \E over \in BOOLEAN : Ticks(over)
  \/ PhotoStops
  \/ \E v \in BOOLEAN : UserSetsWait(v) \/ UserSetsAlways(v)

PhotoSpec == PhotoInit /\ [][PhotoNext]_photoVars

\* Both components in one process.
SwitchesSpec ==
  /\ MenuInit /\ PhotoInit
  /\ [][\/ MenuNext /\ UNCHANGED photoVars
        \/ PhotoNext /\ UNCHANGED menuVars]_<<menuVars, photoVars>>

\* Without an open window, and for good after shutdown, both waits are what the
\* user chose (unless the choice fell into the time the host owned the
\* setting: then it is off).  A freeze in which a window was opened owes its
\* one wheel resync until the unfreeze consumes it, also after the timeout or
\* the shutdown ended the window.
PhotoGivesBack ==
  /\ (~photo.owning /\ "wait" \notin during) => wait = userWait
  /\ ~photo.owning => (wait => userWait)
  /\ photo.stopped => /\ always => userAlways
                      /\ "always" \notin during => always = userAlways
  /\ photo.resync <=> opened
  /\ opened => frozen

\* The host gives every setting it borrows back: no pause, timeout, shutdown or
\* edit of the user in between leaves a value of the host behind, and a choice
\* of the user outlives them.
SwitchesGiveBack == MenuGivesBack /\ PhotoGivesBack
=============================================================================
