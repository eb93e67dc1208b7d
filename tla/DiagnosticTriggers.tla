--------------------------- MODULE DiagnosticTriggers ---------------------------
(***************************************************************************)
(* The diagnostic snapshot triggers of the game host: wheel buttons L2/R2  *)
(* and a held gamepad Start+Back (mcla_diagnostic_trigger.h, driven by     *)
(* mcla_diagnostic_triggers_sdl.cpp).                                      *)
(*                                                                         *)
(* Three kinds of thread take part.  Threads that push SDL events observe  *)
(* the physical input and post closures to the UI thread.  The UI thread   *)
(* runs the posted closures in order, whenever it gets to them, and owns   *)
(* the trigger state.  The timer thread sleeps until the deadline of an    *)
(* armed combo and posts a poll.  Shutdown runs on the UI thread.          *)
(*                                                                         *)
(* Time is counted in ticks and kept relative: `left' is deadline_ms_ and  *)
(* `timer' timer_deadline_ms_, both as ticks still to go.                  *)
(***************************************************************************)
EXTENDS Integers, Sequences, FiniteSets

CONSTANTS
  Pads,      \* gamepads
  Wheels,    \* steering wheels
  LineUps,   \* sets of devices that may be plugged in at the start
  TableSizes,  \* 8: entries of HoldComboTrigger::pads_; the sizes to check
  HoldMs,    \* ticks Start+Back must be held
  MaxQueue,  \* bound of the model: closures waiting for the UI thread
  Unset       \* absent value

Buttons == {"start", "back"}

ASSUME TriggerConstants ==
  /\ TableSizes \subseteq Nat \ {0}
  /\ HoldMs \in Nat \ {0}
  /\ MaxQueue \in Nat \ {0}
  /\ Unset \notin Pads \cup Wheels \cup Nat
  /\ Unset \notin {"wheel", "other"} /\ Unset # Buttons
  /\ Pads \cap Wheels = {}
  /\ LineUps \subseteq SUBSET (Pads \cup Wheels)

Devices == Pads \cup Wheels
Roles   == {"r2", "l2"}

VARIABLES
  slots,    \* entries of pads_, which never change
  present,  \* devices plugged in
  down,     \* what is physically pressed on each device
  queue,    \* closures posted to the UI thread
  known,    \* devices_: what the UI thread found a device to be
  edge,     \* ButtonEdgeTrigger of each role: device that holds it, or Unset
  pads,     \* pads_: buttons down per tracked pad, Unset when it has no slot
  armed, fired, owner, left,  \* HoldComboTrigger
  timer,    \* timer_deadline_ms_ as ticks to go, Unset when idle
  posting,  \* the timer thread has reset the deadline and not posted yet
  ui,       \* "running", "joining" (inside Stop) or "stopped"
  released  \* history: <<device, role or "pad">> reported let go since it
            \* last fired

trigger == <<known, edge, pads, armed, fired, owner, left>>
triggerVars == <<slots, present, down, queue, trigger, timer, posting, ui, released>>

PollEvent == [kind |-> "poll"]
Button(d, b, on) == [kind |-> "button", dev |-> d, button |-> b, on |-> on]
Removed(d) == [kind |-> "removed", dev |-> d]

ButtonsOf(d) == IF d \in Pads THEN Buttons ELSE Roles
TriggerInit ==
  /\ slots \in TableSizes
  /\ present \in LineUps
  /\ down = [d \in Devices |-> {}]
  /\ queue = <<>>
  /\ known = [d \in Devices |-> Unset]
  /\ edge = [r \in Roles |-> Unset]
  /\ pads = [d \in Devices |-> Unset]
  /\ armed = FALSE
  /\ fired = FALSE
  /\ owner = Unset
  /\ left = 0
  /\ timer = Unset
  /\ posting = FALSE
  /\ ui = "running"
  /\ released = (Wheels \X Roles) \cup (Pads \X {"pad"})

-----------------------------------------------------------------------------
(* SDL event threads: Observe *)

HoldsBoth(d) == down[d] = Buttons

\* The observer posts a closure; once Stop has removed it nothing is posted.
Observe(e) ==
  /\ ui = "running" => Len(queue) < MaxQueue
  /\ queue' = IF ui = "running" THEN Append(queue, e) ELSE queue

Press(d, b) ==
  /\ d \in present
  /\ b \in ButtonsOf(d) \ down[d]
  /\ down' = [down EXCEPT ![d] = @ \cup {b}]
  /\ Observe(Button(d, b, TRUE))
  /\ UNCHANGED <<slots, present, trigger, timer, posting, ui, released>>

\* A bouncing contact or a second mapping of the device reports it again.
Repeat(d, b) ==
  /\ d \in present
  /\ b \in down[d]
  /\ Observe(Button(d, b, TRUE))
  /\ UNCHANGED <<slots, present, down, trigger, timer, posting, ui, released>>

LetGo(d, b) ==
  /\ d \in present
  /\ b \in down[d]
  /\ down' = [down EXCEPT ![d] = @ \ {b}]
  /\ Observe(Button(d, b, FALSE))
  /\ UNCHANGED <<slots, present, trigger, timer, posting, ui, released>>

\* Unplugging a device; it reports no release of what is pressed.
Unplug(d) ==
  /\ d \in present
  /\ present' = present \ {d}
  /\ down' = [down EXCEPT ![d] = {}]
  /\ Observe(Removed(d))
  /\ UNCHANGED <<slots, trigger, timer, posting, ui, released>>

-----------------------------------------------------------------------------
(* UI thread: the posted closures *)

\* Info: asks SDL once per device; an unplugged one is taken for no wheel.
Found(d) ==
  IF known[d] # Unset THEN known[d]
  ELSE IF d \in present /\ d \in Wheels THEN "wheel" ELSE "other"

\* OnJoystickButton and ButtonEdgeTrigger::OnDown / OnUp.
EdgeDown(r, d) == edge' = [edge EXCEPT ![r] = IF @ = Unset THEN d ELSE @]
EdgeUp(r, d)   == edge' = [edge EXCEPT ![r] = IF @ = d THEN Unset ELSE @]

\* ButtonEdgeTrigger::OnDown returns true.
EdgeFires(r, d) == edge[r] = Unset

OnJoystickButton(d, r, on) ==
  /\ known' = [known EXCEPT ![d] = Found(d)]
  /\ \/ Found(d) # "wheel" /\ edge' = edge
     \/ Found(d) = "wheel" /\ on /\ EdgeDown(r, d)
     \/ Found(d) = "wheel" /\ ~on /\ EdgeUp(r, d)
  /\ released' = IF ~on THEN released \cup {<<d, r>>}
                 ELSE IF Found(d) = "wheel" /\ EdgeFires(r, d) THEN released \ {<<d, r>>}
                 ELSE released
  /\ UNCHANGED <<pads, armed, fired, owner, left, timer>>

\* HoldComboTrigger::Find with create: a slot in use or a free one.
Used == {d \in Devices : pads[d] # Unset}
HasSlot(d) == pads[d] # Unset \/ Cardinality(Used) < slots
Tracked(d) == IF pads[d] = Unset THEN {} ELSE pads[d]

\* Mutant: a combo that has fired may be armed again by any press.
PadDownRearms(d, b) ==
  LET now == Tracked(d) \cup {b}
      arms == now = Buttons /\ ~armed
  IN /\ HasSlot(d)
     /\ pads' = [pads EXCEPT ![d] = now]
     /\ armed' = (armed \/ arms)
     /\ fired' = (fired /\ ~arms)
     /\ owner' = IF arms THEN d ELSE owner
     /\ left' = IF arms THEN HoldMs ELSE left
     /\ timer' = IF arms THEN HoldMs ELSE timer
PadDown(d, b) ==
  LET now == Tracked(d) \cup {b}
      arms == now = Buttons /\ ~armed /\ ~fired
  IN /\ HasSlot(d)
     /\ pads' = [pads EXCEPT ![d] = now]
     /\ armed' = (armed \/ arms)
     /\ owner' = IF arms THEN d ELSE owner
     /\ left' = IF arms THEN HoldMs ELSE left
     /\ timer' = IF arms THEN HoldMs ELSE timer
     /\ UNCHANGED fired

\* Mutant: a release only ends a combo that has fired.
PadUpKeepsArmed(d, b) ==
  LET now == Tracked(d) \ {b}
  IN /\ pads[d] # Unset
     /\ pads' = [pads EXCEPT ![d] = IF now = {} THEN Unset ELSE now]
     /\ armed' = armed
     /\ fired' = (fired /\ owner # d)
     /\ UNCHANGED <<owner, left, timer>>
PadUp(d, b) ==
  LET now == Tracked(d) \ {b}
  IN /\ pads[d] # Unset
     /\ pads' = [pads EXCEPT ![d] = IF now = {} THEN Unset ELSE now]
     /\ armed' = (armed /\ owner # d)
     /\ fired' = (fired /\ owner # d)
     /\ UNCHANGED <<owner, left, timer>>

\* OnPadButton; no slot, or a release of an untracked pad, is ignored.
OnPadButton(d, b, on) ==
  /\ known' = [known EXCEPT ![d] = Found(d)]
  /\ \/ on /\ PadDown(d, b)
     \/ ~on /\ PadUp(d, b)
     \/ /\ IF on THEN ~HasSlot(d) ELSE pads[d] = Unset
        /\ UNCHANGED <<pads, armed, fired, owner, left, timer>>
  /\ released' = IF on THEN released ELSE released \cup {<<d, "pad">>}
  /\ UNCHANGED edge

\* OnRemoved: the device can never send its releases.
\* Mutant: the edge triggers are not told.
RemovedOnlyPad(d) ==
  /\ known' = [known EXCEPT ![d] = Unset]
  /\ edge' = edge
  /\ pads' = [pads EXCEPT ![d] = Unset]
  /\ armed' = (armed /\ owner # d)
  /\ fired' = (fired /\ owner # d)
  /\ released' = released \cup ({d} \X IF d \in Pads THEN {"pad"} ELSE Roles)
  /\ UNCHANGED <<owner, left, timer>>
OnRemoved(d) ==
  /\ known' = [known EXCEPT ![d] = Unset]
  /\ edge' = [r \in Roles |-> IF edge[r] = d THEN Unset ELSE edge[r]]
  /\ pads' = [pads EXCEPT ![d] = Unset]
  /\ armed' = (armed /\ owner # d)
  /\ fired' = (fired /\ owner # d)
  /\ released' = released \cup ({d} \X IF d \in Pads THEN {"pad"} ELSE Roles)
  /\ UNCHANGED <<owner, left, timer>>

\* Poll: fires when the deadline of the armed combo has passed.
PollFires ==
  /\ armed /\ left = 0
  /\ armed' = FALSE
  /\ fired' = TRUE
  /\ released' = released \ {<<owner, "pad">>}
  /\ UNCHANGED <<known, edge, pads, owner, left, timer>>

OnPoll ==
  \/ PollFires
  \/ ~(armed /\ left = 0) /\ UNCHANGED <<trigger, timer, released>>

\* The UI thread runs the closure posted first.
RunPosted ==
  /\ ui = "running"
  /\ queue # <<>>
  /\ LET e == Head(queue) IN
       \/ e.kind = "poll" /\ OnPoll
       \/ e.kind = "removed" /\ OnRemoved(e.dev)
       \/ e.kind = "button" /\ e.dev \in Pads /\ OnPadButton(e.dev, e.button, e.on)
       \/ e.kind = "button" /\ e.dev \in Wheels /\ OnJoystickButton(e.dev, e.button, e.on)
  /\ queue' = Tail(queue)
  /\ UNCHANGED <<slots, present, down, posting, ui>>

-----------------------------------------------------------------------------
(* Timer thread, clock and shutdown *)

\* TimerMain: the deadline is reset under timer_mutex_ ...
TimerExpire ==
  /\ timer = 0
  /\ ~posting
  /\ timer' = Unset
  /\ posting' = TRUE
  /\ UNCHANGED <<slots, present, down, queue, trigger, ui, released>>

\* ... and the poll is posted with the mutex released.
\* Mutant: the deadline is reset only after the poll is posted.
PostThenReset ==
  /\ posting
  /\ queue' = Append(queue, PollEvent)
  /\ posting' = FALSE
  /\ timer' = Unset
  /\ UNCHANGED <<slots, present, down, trigger, ui, released>>
TimerPost ==
  /\ posting
  /\ queue' = Append(queue, PollEvent)
  /\ posting' = FALSE
  /\ UNCHANGED <<slots, present, down, trigger, timer, ui, released>>

Tick ==
  /\ left > 0 \/ timer \notin {Unset, 0}
  /\ left' = IF left > 0 THEN left - 1 ELSE 0
  /\ timer' = IF timer \in {Unset, 0} THEN timer ELSE timer - 1
  /\ UNCHANGED <<slots, present, down, queue, known, edge, pads, armed, fired, owner, posting, ui, released>>

\* Stop: the observer is removed, then the timer thread is joined.
TriggersStopJoin ==
  /\ ui = "running"
  /\ ui' = "joining"
  /\ UNCHANGED <<slots, present, down, queue, trigger, timer, posting, released>>

TriggersStopEnd ==
  /\ ui = "joining"
  /\ ~posting
  /\ ui' = "stopped"
  /\ UNCHANGED <<slots, present, down, queue, trigger, timer, posting, released>>

Input == \E d \in Devices :
  \/ Unplug(d)
  \/ \E b \in ButtonsOf(d) : Press(d, b) \/ Repeat(d, b) \/ LetGo(d, b)

Timer == TimerExpire \/ TimerPost
TriggerNext == Input \/ RunPosted \/ Timer \/ Tick \/ TriggersStopJoin \/ TriggersStopEnd
TriggerSpec == TriggerInit /\ [][TriggerNext]_triggerVars

-----------------------------------------------------------------------------
(* Properties *)

\* Nothing stays stuck: once the UI thread has caught up, a trigger that is
\* held, armed or fired belongs to a plugged-in device whose buttons really
\* are down, whatever was unplugged, repeated or released in between.
CaughtUpMeansHeld ==
  queue = <<>> /\ ui = "running" =>
    /\ \A r \in Roles : edge[r] # Unset => edge[r] \in present /\ r \in down[edge[r]]
    /\ armed \/ fired => owner \in present /\ HoldsBoth(owner)
    /\ ~(armed /\ fired)

\* One package per completed hold: a pad that fired has let go of a button
\* before it fires again.
\* And one package per press: a wheel button is let go, or its device unplugged,
\* between two accepted presses, although presses are reported repeatedly.
WheelAccepts(r) == /\ queue # <<>> /\ queue' = Tail(queue) /\ Head(queue).kind = "button"
                   /\ Head(queue).dev \in Wheels /\ Head(queue).button = r /\ Head(queue).on
                   /\ known'[Head(queue).dev] = "wheel" /\ EdgeFires(r, Head(queue).dev)
OnePackageEach ==
  [][/\ fired' /\ ~fired => <<owner, "pad">> \in released
     /\ \A r \in Roles : WheelAccepts(r) => <<Head(queue).dev, r>> \in released]_triggerVars

\* A deadline is never lost between the UI thread and the timer thread: an
\* armed combo is resolved (fired or given up), or the host shuts down.
\* And shutdown returns although the timer thread may be about to post.
TriggersComeToRest ==
  /\ armed ~> (~armed \/ ui # "running")
  /\ (ui = "joining") ~> (ui = "stopped")
=============================================================================
