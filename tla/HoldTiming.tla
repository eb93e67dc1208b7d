------------------------------- MODULE HoldTiming -------------------------------
(***************************************************************************)
(* How long Start and Back are really held, beside DiagnosticTriggers: the *)
(* triggers only see the moments at which the UI thread runs the closures. *)
(***************************************************************************)
EXTENDS DiagnosticTriggers

VARIABLES
  held,  \* ticks the present or last press of both buttons lasted
  long   \* pads that held both for HoldMs since they last fired

timed == <<triggerVars, held, long>>

TimedInit ==
  /\ TriggerInit
  /\ held = [d \in Pads |-> 0]
  /\ long = {}

\* A press that completes the pair starts a new measurement.
Begins(d) == down'[d] = Buttons /\ down[d] # Buttons

Unhurried ==
  /\ TriggerNext /\ ~Tick
  /\ held' = [d \in Pads |-> IF Begins(d) THEN 0 ELSE held[d]]
  /\ long' = IF fired' /\ ~fired THEN long \ {owner} ELSE long

\* Time passes for the hand on the pad as well as for the deadlines.
Passing == Tick \/ (left = 0 /\ timer \in {Unset, 0} /\ UNCHANGED triggerVars)

TimedTick ==
  /\ Passing
  /\ held' = [d \in Pads |-> IF HoldsBoth(d) /\ held[d] < HoldMs THEN held[d] + 1 ELSE held[d]]
  /\ long' = long \cup {d \in Pads : held[d] < HoldMs /\ held'[d] = HoldMs}

TimedNext == Unhurried \/ TimedTick
TimedSpec == TimedInit /\ [][TimedNext]_timed

\* The same with a UI thread that keeps up: no tick while closures wait.
PromptNext == Unhurried \/ (TimedTick /\ queue = <<>>)
PromptSpec == TimedInit /\ [][PromptNext]_timed

\* "A short tap never fires": a pad fires only if both buttons were really
\* held down together for the whole hold time since it last fired.
ShortTapNeverFires == [][fired' /\ ~fired => owner \in long]_timed
=============================================================================
