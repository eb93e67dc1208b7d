---------------------------- MODULE TimerObserver ----------------------------
(***************************************************************************)
(* timer_observer::Observer: guest threads call the game's timer through   *)
(* invoke, which reserves a row, reads clock and state around the original *)
(* call and publishes the row, with short locks only; a poller disarms the *)
(* observer and copies it once nothing is in flight.                       *)
(***************************************************************************)
EXTENDS Naturals, Sequences, FiniteSets

CONSTANTS TimerCallers, \* guest threads
          TimerRows,    \* Observer Capacity
          TimerEnd,     \* last tick of the counter; the window is [2, TimerEnd)
          MaxCalls      \* original calls explored per thread

VARIABLES oAccepting, \* accepting_
          oCounts,    \* counts_
          oRows,      \* records_
          oInFlight,  \* in_flight_
          oFailed,    \* observer_failed_
          oCall,      \* per thread: pc of invoke, its row and its calls so far
          oTick,      \* performance counter
          oOriginal,  \* original calls made between arming and disarming
          oSnapshot   \* destination of try_freeze_into, or <<>>

timerVars == <<oAccepting, oCounts, oRows, oInFlight, oFailed, oCall, oTick, oOriginal, oSnapshot>>

NoRow == [ordinal |-> 0, entry |-> 0, exit |-> 0, issue |-> FALSE]
TimerInit ==
    /\ oAccepting = TRUE /\ oRows = <<>> /\ oInFlight = 0 /\ oFailed = FALSE
    /\ oCounts = [observed |-> 0, admitted |-> 0, stored |-> 0, completed |-> 0, overflow |-> 0, outside |-> 0]
    /\ oCall = [t \in TimerCallers |-> [pc |-> "out", row |-> NoRow, calls |-> 0]]
    /\ oTick = 1 /\ oOriginal = 0 /\ oSnapshot = <<>>

CallerGoes(t, pc, row) == oCall' = [oCall EXCEPT ![t].pc = pc, ![t].row = row]

\* reserve, before the lock: accepting_ is read once without it.
Invoke(t) ==
    /\ oCall[t].pc = "out" /\ oCall[t].calls < MaxCalls
    /\ oCall' = [oCall EXCEPT ![t].pc = IF oAccepting THEN "reserve" ELSE "plain", ![t].calls = @ + 1]
    /\ UNCHANGED <<oAccepting, oCounts, oRows, oInFlight, oFailed, oTick, oOriginal, oSnapshot>>

\* reserve, under the lock: read again, then a row is reserved while stored and
\* in-flight rows fit; a lock that cannot be taken fails the observer, not the call.
Reserve(t) ==
    /\ oCall[t].pc = "reserve"
    /\ \/ /\ ~oAccepting /\ CallerGoes(t, "plain", NoRow) /\ UNCHANGED <<oCounts, oInFlight, oOriginal>>
       \/ /\ oAccepting /\ Len(oRows) + oInFlight >= TimerRows
          /\ oCounts' = [oCounts EXCEPT !.observed = @ + 1, !.overflow = @ + 1]
          /\ oOriginal' = oOriginal + 1
          /\ CallerGoes(t, "plain", NoRow) /\ UNCHANGED oInFlight
       \/ /\ oAccepting /\ Len(oRows) + oInFlight < TimerRows
          /\ oCounts' = [oCounts EXCEPT !.observed = @ + 1, !.admitted = @ + 1]
          /\ oOriginal' = oOriginal + 1
          /\ oInFlight' = oInFlight + 1
          /\ CallerGoes(t, "entry", [NoRow EXCEPT !.ordinal = oCounts.observed + 1])
    /\ UNCHANGED <<oAccepting, oRows, oFailed, oTick, oSnapshot>>
ReserveThrows(t) ==
    /\ oCall[t].pc = "reserve" /\ ~oFailed /\ oFailed' = TRUE
    /\ oOriginal' = IF oAccepting THEN oOriginal + 1 ELSE oOriginal
    /\ CallerGoes(t, "plain", NoRow)
    /\ UNCHANGED <<oAccepting, oCounts, oRows, oInFlight, oTick, oSnapshot>>

\* capture_entry, and the completion guard's reads after the original returned or
\* unwound: a throwing or failing callback leaves 0 and an issue.
CaptureEntry(t, ok) ==
    /\ oCall[t].pc = "entry"
    /\ CallerGoes(t, "original", [oCall[t].row EXCEPT !.entry = IF ok THEN oTick ELSE 0, !.issue = ~ok])
    /\ UNCHANGED <<oAccepting, oCounts, oRows, oInFlight, oFailed, oTick, oOriginal, oSnapshot>>
OriginalEnds(t, ok) ==
    /\ oCall[t].pc = "original"
    /\ CallerGoes(t, "complete", [oCall[t].row EXCEPT !.exit = IF ok THEN oTick ELSE 0, !.issue = @ \/ ~ok])
    /\ UNCHANGED <<oAccepting, oCounts, oRows, oInFlight, oFailed, oTick, oOriginal, oSnapshot>>
PlainEnds(t) ==
    /\ oCall[t].pc = "plain" /\ CallerGoes(t, "out", NoRow)
    /\ UNCHANGED <<oAccepting, oCounts, oRows, oInFlight, oFailed, oTick, oOriginal, oSnapshot>>

\* complete: a sound row wholly before or after the window is only counted; the row is
\* published and the reference released under one lock.
Discardable(r) == ~r.issue /\ r.entry # 0 /\ r.entry <= r.exit /\ (r.exit < 2 \/ r.entry >= TimerEnd)
Complete(t) ==
    LET r == oCall[t].row
    IN /\ oCall[t].pc = "complete" /\ CallerGoes(t, "out", NoRow)
       /\ IF Discardable(r)
          THEN oCounts' = [oCounts EXCEPT !.outside = @ + 1, !.completed = @ + 1] /\ UNCHANGED oRows
          ELSE /\ oCounts' = [oCounts EXCEPT !.stored = @ + 1, !.completed = @ + 1]
               /\ oRows' = Append(oRows, r)
       /\ oInFlight' = oInFlight - 1
       /\ UNCHANGED <<oAccepting, oFailed, oTick, oOriginal, oSnapshot>>
CompleteThrows(t) ==
    /\ oCall[t].pc = "complete" /\ ~oFailed /\ CallerGoes(t, "out", NoRow)
    /\ oFailed' = TRUE /\ oInFlight' = oInFlight - 1
    /\ UNCHANGED <<oAccepting, oCounts, oRows, oTick, oOriginal, oSnapshot>>

\* try_freeze_into disarms first; a busy lock or a call in flight is no answer yet.
StopAdmissions == /\ oAccepting /\ oAccepting' = FALSE
                  /\ UNCHANGED <<oCounts, oRows, oInFlight, oFailed, oCall, oTick, oOriginal, oSnapshot>>
\* Mutant: the poll does not wait for the calls in flight.
CopiesAnyway == TRUE
Drained == oInFlight = 0
TryFreezeInto == /\ ~oAccepting /\ oSnapshot = <<>> /\ Drained
                 /\ oSnapshot' = <<[counts |-> oCounts, rows |-> oRows, failed |-> oFailed]>>
                 /\ UNCHANGED <<oAccepting, oCounts, oRows, oInFlight, oFailed, oCall, oTick, oOriginal>>
OTick == /\ oTick < TimerEnd /\ oTick' = oTick + 1
         /\ UNCHANGED <<oAccepting, oCounts, oRows, oInFlight, oFailed, oCall, oOriginal, oSnapshot>>

TimerNext ==
    \/ StopAdmissions \/ TryFreezeInto \/ OTick
    \/ \E t \in TimerCallers : Invoke(t) \/ Reserve(t) \/ ReserveThrows(t) \/ PlainEnds(t)
                               \/ Complete(t) \/ CompleteThrows(t)
    \/ \E t \in TimerCallers, ok \in BOOLEAN : CaptureEntry(t, ok) \/ OriginalEnds(t, ok)
TimerSpec == TimerInit /\ [][TimerNext]_timerVars

-----------------------------------------------------------------------------
(* Snapshot::classify_offline: the rows in entry order through the journal.*)

\* Closed intervals that touch cannot be ordered.
Touches(a, b) == a.entry <= b.exit /\ b.entry <= a.exit
ValidRow(r) == r.entry # 0 /\ r.entry <= r.exit
EntryOrder(rows) == CHOOSE p \in [1..Len(rows) -> DOMAIN rows] :
                      \A i, j \in 1..Len(rows) : i < j => rows[p[i]].ordinal < rows[p[j]].ordinal
\* journal::observe marks a row whose entry lies before the entry of the row observed before it.
Regressed(rows) == LET p == EntryOrder(rows)
                   IN \E i, j \in 1..Len(rows) : i < j /\ ValidRow(rows[p[i]]) /\ ValidRow(rows[p[j]])
                                                /\ (\A k \in i + 1..j - 1 : ~ValidRow(rows[p[k]]))
                                                /\ rows[p[j]].entry < rows[p[i]].entry
Issues(s) == s.failed \/ s.counts.overflow > 0 \/ (\E i \in DOMAIN s.rows : s.rows[i].issue)
             \/ (\E i, j \in DOMAIN s.rows : i # j /\ ValidRow(s.rows[i]) /\ ValidRow(s.rows[j])
                                            /\ Touches(s.rows[i], s.rows[j]))
             \/ Regressed(s.rows)

\* A frozen observer is complete: no row is lost or added after the copy, its counters
\* tie out, and unless its report carries an issue every original call made while it was
\* armed is stored or lies wholly outside the window.
FreezeIsComplete ==
    oSnapshot # <<>> =>
      LET s == oSnapshot[1]
          c == s.counts
      IN /\ c = oCounts /\ s.rows = oRows
         /\ c.observed = c.admitted + c.overflow /\ c.stored = Len(s.rows)
         /\ c.completed = c.stored + c.outside
         /\ ~s.failed => c.completed = c.admitted
         /\ ~Issues(s) => c.stored + c.outside = oOriginal
=============================================================================
