------------------------------ MODULE HostInputs ------------------------------
(***************************************************************************)
(* Three small input machines of the host.  The cursor autohide            *)
(* (mcla_cursor_autohide) observes pad  events on an SDL thread and mouse  *)
(* events on the UI thread and acts on the window in deferred UI calls.    *)
(* The START latch (mcla_autostart_input) gives the guest one button press *)
(* between two deadlines.  The owner gate (mcla_owner_ready_gate) waits    *)
(* for the owner's signal inside the journal's window.                     *)
(***************************************************************************)
EXTENDS Integers, Sequences

CONSTANTS HoldTime,     \* kHoldMilliseconds and kNeutralAckMilliseconds, in units
          MaxClock,     \* bound: readings of the clock
          GateDeadline, \* the gate's deadline inside the journal window
          MaxWakes      \* bound: deferred calls the UI thread queues

ASSUME InputConstants == HoldTime \in Nat /\ MaxClock \in Nat /\ GateDeadline \in Nat

----------------------------------------------------------------------------
(* Cursor autohide: SdlAutoHide and its AutoHideController. *)
VARIABLES hide, deferred, padStep, cursor, wakes

cursorVars == <<hide, deferred, padStep, cursor, wakes>>

\* hide: controller and adapter fields, "mine" is the controller's hidden_
\* (the atomic mirror is set with it on the UI thread); cursor: the window's
\* cursor and the other owner's mouse capture.
CursorInit ==
  /\ hide = [focused |-> TRUE, mine |-> FALSE, installed |-> TRUE, queued |-> FALSE, pending |-> "none"]
  /\ deferred = <<>> /\ padStep = "idle"
  /\ cursor = [visible |-> TRUE, captured |-> FALSE]
  /\ wakes = 0

\* Observe on the SDL thread: a deliberate pad input while focused and shown.
PadObserved ==
  /\ padStep = "idle" /\ hide.installed /\ hide.focused /\ ~hide.mine /\ wakes < MaxWakes
  /\ padStep' = "store" /\ UNCHANGED <<hide, deferred, cursor, wakes>>

\* Request: pending_, then the exchange of post_queued_, then the post.
PadStores ==
  /\ padStep = "store"
  /\ hide' = [hide EXCEPT !.pending = "pad"]
  /\ padStep' = "exchange" /\ UNCHANGED <<deferred, cursor, wakes>>

PadExchanges ==
  /\ padStep = "exchange"
  /\ padStep' = IF hide.queued THEN "idle" ELSE "post"
  /\ hide' = [hide EXCEPT !.queued = TRUE]
  /\ UNCHANGED <<deferred, cursor, wakes>>

\* The post is refused once the application context is closing.
PadPosts(accepted) ==
  /\ padStep = "post"
  /\ padStep' = "idle"
  /\ IF accepted
     THEN deferred' = Append(deferred, "drain") /\ wakes' = wakes + 1 /\ UNCHANGED hide
     ELSE hide' = [hide EXCEPT !.queued = FALSE] /\ UNCHANGED <<deferred, wakes>>
  /\ UNCHANGED cursor

\* A mouse event, on the UI thread: only one that has something to supersede.
MouseObserved ==
  /\ hide.installed /\ (hide.mine \/ hide.queued) /\ wakes < MaxWakes
  /\ hide' = [hide EXCEPT !.pending = "mouse", !.queued = TRUE]
  /\ IF hide.queued THEN UNCHANGED <<deferred, wakes>>
     ELSE deferred' = Append(deferred, "drain") /\ wakes' = wakes + 1
  /\ UNCHANGED <<padStep, cursor>>

\* ShowIfStillHidden.
Shown(c) == IF ~c.captured THEN [c EXCEPT !.visible = TRUE] ELSE c

\* Drain: the latest pending activity decides; post_queued_ is cleared first.
Drains ==
  LET pad == hide.installed /\ hide.pending = "pad" /\ hide.focused /\ ~hide.mine
             /\ ~cursor.captured /\ cursor.visible
      mouse == hide.installed /\ hide.pending = "mouse" /\ hide.mine /\ ~cursor.captured
  IN /\ deferred # <<>> /\ Head(deferred) = "drain"
     /\ deferred' = Tail(deferred)
     /\ hide' = [hide EXCEPT !.queued = FALSE, !.pending = "none", !.mine = (@ \/ pad) /\ ~mouse]
     /\ cursor' = IF pad THEN [cursor EXCEPT !.visible = FALSE]
                  ELSE IF mouse THEN Shown(cursor) ELSE cursor
     /\ UNCHANGED <<padStep, wakes>>

DeferredShows ==
  /\ deferred # <<>> /\ Head(deferred) = "show"
  /\ deferred' = Tail(deferred) /\ cursor' = Shown(cursor)
  /\ UNCHANGED <<hide, padStep, wakes>>

\* Whoever takes the hide away from the autohide shows the cursor later.
QueuesShow == IF hide.mine THEN Append(deferred, "show") ELSE deferred

\* FocusChanged: the show is deferred behind the other focus listeners.
FocusChanged ==
  /\ hide.installed /\ wakes < MaxWakes
  /\ wakes' = wakes + 1
  /\ hide' = [hide EXCEPT !.focused = ~@, !.mine = FALSE]
  /\ deferred' = QueuesShow
  /\ UNCHANGED <<padStep, cursor>>

\* Stop: the observer is removed once no call of it is in flight.
CursorStops ==
  /\ hide.installed /\ padStep = "idle"
  /\ hide' = [hide EXCEPT !.installed = FALSE, !.focused = FALSE, !.mine = FALSE]
  /\ cursor' = IF hide.mine THEN Shown(cursor) ELSE cursor
  /\ UNCHANGED <<deferred, padStep, wakes>>

\* The SDK's keyboard/mouse driver takes and gives back the mouse (external).
OwnerCaptures ==
  /\ ~cursor.captured /\ wakes < MaxWakes
  /\ cursor' = [visible |-> FALSE, captured |-> TRUE] /\ wakes' = wakes + 1
  /\ UNCHANGED <<hide, deferred, padStep>>

OwnerReleases ==
  /\ cursor.captured
  /\ cursor' = [visible |-> TRUE, captured |-> FALSE]
  /\ UNCHANGED <<hide, deferred, padStep, wakes>>

CursorNext ==
  \/ PadObserved
  \/ PadStores
  \/ PadExchanges
  \/ \E accepted \in BOOLEAN : PadPosts(accepted)
  \/ MouseObserved
  \/ Drains
  \/ DeferredShows
  \/ FocusChanged
  \/ CursorStops
  \/ OwnerCaptures
  \/ OwnerReleases

CursorSpec == CursorInit /\ [][CursorNext]_cursorVars

\* A cursor the autohide hid is owned by it or a deferred call is about to show
\* it, so no loss of focus, shutdown or capture leaves the user without one; and
\* the flag that coalesces requests is only set while a drain is on its way, so
\* the autohide never goes deaf.
CursorComesBack ==
  /\ (~cursor.visible /\ ~cursor.captured) =>
       (hide.mine /\ hide.focused) \/ \E i \in 1..Len(deferred) : deferred[i] = "show"
  /\ hide.queued <=> (padStep = "post" \/ \E i \in 1..Len(deferred) : deferred[i] = "drain")

----------------------------------------------------------------------------
(* StartLatch: all calls are serialized by the owner's mutex. *)
VARIABLES latch, button

latchVars == <<latch, button>>

Unset == -1

LatchInit ==
  /\ latch = [status |-> "Idle", last |-> Unset, published |-> Unset, released |-> Unset,
              downAck |-> Unset, neutralAck |-> Unset]
  /\ button = FALSE

ReleaseDeadline == latch.published + HoldTime
NeutralDeadline == latch.published + 2 * HoldTime

Failed(l, now) == [l EXCEPT !.status = "Failed",
                            !.released = IF l.status = "HoldingStart" /\ @ = Unset THEN now ELSE @]

\* Observe: a clock that runs backwards fails the latch.
RolledBack(now) == now < latch.last
Observed(now) == [latch EXCEPT !.last = now]

\* Advance: the release, then the deadline for the neutral answer.
Advanced(l, now) ==
  LET released == IF l.status = "HoldingStart" /\ now >= ReleaseDeadline
                  THEN IF l.downAck = Unset THEN Failed([l EXCEPT !.released = now], now)
                       ELSE [l EXCEPT !.released = now, !.status = "WaitingNeutralAck"]
                  ELSE l
  IN IF released.status = "WaitingNeutralAck" /\ now >= NeutralDeadline
     THEN Failed(released, now) ELSE released

Arm(now) ==
  /\ latch' = IF RolledBack(now) THEN Failed(latch, latch.last)
              ELSE IF latch.status # "Idle" THEN Failed(Observed(now), now)
              ELSE [Observed(now) EXCEPT !.published = now, !.status = "HoldingStart"]
  /\ button' = FALSE

\* Read: the only call that returns the button, after it has checked the time.
Read(now) ==
  LET l == Advanced(Observed(now), now)
  IN IF RolledBack(now)
     THEN latch' = Failed(latch, latch.last) /\ button' = FALSE
     ELSE IF l.status = "HoldingStart"
     THEN latch' = [l EXCEPT !.downAck = IF @ = Unset THEN now ELSE @] /\ button' = TRUE
     ELSE /\ latch' = IF l.status = "WaitingNeutralAck"
                      THEN [l EXCEPT !.neutralAck = now, !.status = "Succeeded"] ELSE l
          /\ button' = FALSE

Poll(now) ==
  /\ latch' = IF RolledBack(now) THEN Failed(latch, latch.last) ELSE Advanced(Observed(now), now)
  /\ button' = FALSE

\* Cancel and Fail differ in the error they record.
GivesUp(now) ==
  /\ latch' = IF RolledBack(now) THEN Failed(latch, latch.last) ELSE Failed(Observed(now), now)
  /\ button' = FALSE

LatchNext == \E now \in 0..MaxClock : Arm(now) \/ Read(now) \/ Poll(now) \/ GivesUp(now)
LatchSpec == LatchInit /\ [][LatchNext]_latchVars

\* START is only ever returned before the release deadline of an armed latch,
\* never after it was released or failed; success means the guest read it down
\* before that deadline and neutral between it and the second one.
StartIsBounded ==
  /\ button => /\ latch.status = "HoldingStart" /\ latch.released = Unset
               /\ latch.last < ReleaseDeadline
  /\ latch.status = "Succeeded" =>
       /\ latch.published <= latch.downAck /\ latch.downAck < ReleaseDeadline
       /\ ReleaseDeadline <= latch.neutralAck /\ latch.neutralAck < NeutralDeadline
  /\ latch.status = "Failed" /\ latch.published # Unset => latch.released # Unset

----------------------------------------------------------------------------
(* owner_ready::Wait with the supervisor's two events. *)
VARIABLES gate, gateClock, signalled, stopAsked, answered

gateVars == <<gate, gateClock, signalled, stopAsked, answered>>

\* at: the next read of the clock in Wait; previous and out as in the code;
\* answered (history): what was signalled since Wait looked at both events.
GateInit ==
  /\ gate = [at |-> "opened", previous |-> 0, opened |-> Unset, waitingBefore |-> Unset,
             waitingAfter |-> Unset, readyBefore |-> Unset, readyAfter |-> Unset,
             announced |-> FALSE, seen |-> FALSE]
  /\ gateClock = 0 /\ signalled \in {{}, {"ready"}, {"waiting"}} /\ stopAsked = FALSE
  /\ answered = {}

\* The clock lambda: stop, monotone, before the deadline.
ClockOk == ~stopAsked /\ gateClock >= gate.previous /\ gateClock < GateDeadline

\* Mutant: events that were signalled before are adopted.
AdoptsEvents(polled) == polled

\* Wait goes on only with two events that it could read and found empty.
IsFresh(polled) == polled /\ signalled = {}

\* Each clock reading with the call the code makes after it.
GateAfter(g, polled) ==
  CASE gate.at = "opened" ->
         [g EXCEPT !.opened = gateClock, !.at = IF IsFresh(polled) THEN "before" ELSE "failed"]
    [] gate.at = "before" ->
         [g EXCEPT !.waitingBefore = gateClock, !.announced = polled,
                   !.at = IF polled THEN "after" ELSE "failed"]
    [] gate.at = "after" -> [g EXCEPT !.waitingAfter = gateClock, !.at = "ready"]
    [] gate.at = "ready" ->
         [g EXCEPT !.readyBefore = gateClock, !.at = "polled", !.seen = "ready" \in signalled]
    [] gate.at = "polled" ->
         [g EXCEPT !.readyAfter = gateClock,
                   !.at = IF ~polled THEN "failed" ELSE IF gate.seen THEN "done" ELSE "ready"]

\* polled: the announcement, or each poll of an event, succeeded.
GateSteps(polled) ==
  /\ gate.at \notin {"done", "failed"}
  /\ gate' = IF ClockOk THEN GateAfter([gate EXCEPT !.previous = gateClock], polled)
             ELSE [gate EXCEPT !.at = "failed"]
  /\ LET announced == IF gate'.announced THEN {"waiting"} ELSE {} IN
       signalled' = signalled \cup announced /\ answered' = answered \cup announced
  /\ UNCHANGED <<gateClock, stopAsked>>

\* The counter may also step back (a faulty clock is what the gate checks for).
GateTime(now) ==
  /\ gate.at \notin {"done", "failed"}
  /\ gateClock' = now /\ UNCHANGED <<gate, signalled, stopAsked, answered>>

OwnerSignals ==
  /\ "ready" \notin signalled /\ gate.at \notin {"done", "failed"}
  /\ signalled' = signalled \cup {"ready"}
  /\ answered' = IF gate.at = "opened" THEN answered ELSE answered \cup {"ready"}
  /\ UNCHANGED <<gate, gateClock, stopAsked>>

GateStopAsked ==
  /\ ~stopAsked /\ gate.at \notin {"done", "failed"}
  /\ stopAsked' = TRUE /\ UNCHANGED <<gate, gateClock, signalled, answered>>

GateNext ==
  \/ \E polled \in BOOLEAN : GateSteps(polled)
  \/ \E now \in (gateClock - 1)..(gateClock + 1) : now \in 0..MaxClock /\ GateTime(now)
  \/ OwnerSignals
  \/ GateStopAsked

GateSpec == GateInit /\ [][GateNext]_gateVars

\* Evidence of readiness is ordered, lies before the deadline, and is of
\* signals that were given after Wait had read the clock for the first time and
\* found both events empty (OWNER_READY_OBJECT_NOT_FRESH): an answer that was
\* there before, from another run, is never taken for the owner's.
ReadyIsOfThisWindow ==
  gate.at = "done" =>
    /\ {"ready", "waiting"} \subseteq answered
    /\ 0 <= gate.opened /\ gate.opened <= gate.waitingBefore
    /\ gate.waitingBefore <= gate.waitingAfter /\ gate.waitingAfter <= gate.readyBefore
    /\ gate.readyBefore <= gate.readyAfter /\ gate.readyAfter < GateDeadline

\* The three input machines keep what they promise the user: the cursor comes
\* back, START is bounded by its deadlines, readiness is of this window.
InputsKeepBounds == CursorComesBack /\ StartIsBounded /\ ReadyIsOfThisWindow
=============================================================================
