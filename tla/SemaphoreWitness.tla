-------------------------- MODULE SemaphoreWitness --------------------------
(***************************************************************************)
(* The semaphore witness: a Registry the SDK calls around every semaphore  *)
(* operation, the Collector behind it, which follows ONE selected          *)
(* semaphore in a Journal of fixed capacity, and Freeze, which cuts the    *)
(* journal and captures it.  Threads meet the Registry's admission flag    *)
(* first and the Collector's mutex later, so a cut may fall between the    *)
(* two.  Scoped helpers nest: a wait may run guest code that waits again.  *)
(***************************************************************************)
EXTENDS Naturals, Sequences, FiniteSets, FiniteSetsExt

CONSTANTS WThreads,   \* guest threads
          WHelpers,   \* those of them that run helper scopes (bound)
          Cookies,    \* identities of semaphore objects
          NoCookie,   \* 0: no object
          OpRows,     \* kOperationCapacity
          EpochRows,  \* kEpochCapacity
          WindowEnd,  \* window_.end_qpc_exclusive; the window begins at 1
          MaxNative   \* native operations explored

ASSUME WitnessConstants == NoCookie \notin Cookies /\ OpRows \in Nat /\ WHelpers \subseteq WThreads

VARIABLES wRegistry,  \* Registry: ready, admissions, failed
          wCollector, \* Collector: frozen, bound, destroyed, cookie, epoch, failed
          wJournal,   \* core::Journal
          wLabels,    \* annotations_: which rows carry the label of their scope
          wCreate,    \* per thread the open ScopedCreate, or <<>>
          wScopes,    \* per thread the open ScopedOperations, innermost last
          wCalls,     \* per thread the Registry call past Admitting(), or <<>>
          wFrames,    \* per thread the native operations in flight
          wAlive,     \* objects the guest holds
          wTick,      \* performance counter
          wNative,    \* native operations begun on the selected object, to the cut
          wBegun,     \* native operations begun at all (bound)
          wSnap       \* what Freeze returned

witnessVars == <<wRegistry, wCollector, wJournal, wLabels, wCreate, wScopes, wCalls, wFrames,
                 wAlive, wTick, wNative, wBegun, wSnap>>

EmptyJournal == [stopped |-> FALSE, postStop |-> FALSE, fault |-> FALSE, incomplete |-> FALSE, epochs |-> <<>>, ops |-> <<>>,
                 observed |-> 0, completed |-> 0, overflow |-> 0, pending |-> 0]
NoSnap == [status |-> "None", counts |-> <<>>, clean |-> FALSE]

WitnessInit ==
    /\ wRegistry = [ready |-> FALSE, admissions |-> TRUE, failed |-> FALSE]
    /\ wCollector = [frozen |-> FALSE, bound |-> FALSE, destroyed |-> FALSE, cookie |-> NoCookie,
                     epoch |-> 0, failed |-> FALSE]
    /\ wJournal = EmptyJournal /\ wLabels = <<>>
    /\ wCreate = [t \in WThreads |-> <<>>] /\ wScopes = [t \in WThreads |-> <<>>]
    /\ wCalls = [t \in WThreads |-> <<>>] /\ wFrames = [t \in WThreads |-> <<>>]
    /\ wAlive = {} /\ wTick = 1 /\ wNative = 0 /\ wBegun = 0 /\ wSnap = NoSnap

-----------------------------------------------------------------------------
(* Journal: supplied-observation bookkeeping, each method under the mutex. *)

\* mark of an issue that Snapshot::Fatal does not tolerate, if cond.
Fault(j, cond) == [j EXCEPT !.fault = @ \/ cond]
NoteMutation(j) == [j EXCEPT !.postStop = @ \/ j.stopped]
BadClock(q) == q = 0 \/ q >= WindowEnd    \* kInvalidClock, kOutsideWindow
Lookup(j, c) == Max({0} \cup {i \in DOMAIN j.epochs : j.epochs[i].cookie = c /\ j.epochs[i].destroyed = "no"})
Counts(j) == <<j.observed, Len(j.ops), j.completed, j.overflow, j.pending>>

\* Journal::create: the object's previous epoch must have ended before, by the clock.
JCreate(j, c, q) ==
    LET old == Max({0} \cup {i \in DOMAIN j.epochs : j.epochs[i].cookie = c})
        row == [cookie |-> c, created |-> q, destroyed |-> "no", end |-> 0, pending |-> 0, lastExit |-> 0]
    IN CASE old # 0 /\ j.epochs[old].destroyed = "no" -> Fault(NoteMutation(j), TRUE)   \* kDuplicateCreation
         [] old # 0 /\ j.epochs[old].destroyed = "yes"
            /\ (j.epochs[old].end = 0 \/ j.epochs[old].end <= j.epochs[old].created \/ q <= j.epochs[old].end)
              -> Fault(NoteMutation(j), TRUE)   \* kAmbiguousReuse
         [] Len(j.epochs) = EpochRows -> Fault(NoteMutation(j), TRUE)   \* kEpochOverflow
         [] OTHER -> Fault([NoteMutation(j) EXCEPT !.epochs = Append(@, row)], BadClock(q))

\* Journal::destroy: an operation in flight or completed at or after q is a boundary fault.
JDestroy(j, c, q) ==
    LET e == Lookup(j, c)
        row == j.epochs[e]
        fault == BadClock(q) \/ q <= row.created \/ row.pending > 0 \/ q <= row.lastExit
    IN IF e = 0 THEN Fault(NoteMutation(j), TRUE)
       ELSE Fault([NoteMutation(j) EXCEPT !.epochs[e] = [row EXCEPT !.destroyed = "yes", !.end = q]], fault)

Stores(j, c) == Lookup(j, c) # 0 /\ Len(j.ops) < OpRows

\* Journal::begin and the begin_ variants: a known object's operation is always
\* counted, and stored while there is room.
JBegin(j, c, t, q, kind) ==
    LET e == Lookup(j, c)
        n == [NoteMutation(j) EXCEPT !.observed = @ + 1]
    IN CASE e = 0 -> Fault(NoteMutation(j), TRUE)   \* kUnknownObject
         [] e # 0 /\ Len(j.ops) = OpRows -> [n EXCEPT !.overflow = @ + 1]
         [] OTHER -> Fault([n EXCEPT !.ops = Append(@, [epoch |-> e, thread |-> t, kind |-> kind, done |-> FALSE]),
                                    !.pending = @ + 1, !.epochs[e].pending = @ + 1],
                           BadClock(q) \/ q <= j.epochs[e].created)

\* Journal::completion: the epoch keeps its latest exit for a destruction to come.
Completion(row, q) == [row EXCEPT !.pending = @ - 1, !.lastExit = IF q > @ THEN q ELSE @]
\* The end_ variants, for a ticket this journal issued.
JEnd(j, id, q) ==
    LET e == j.ops[id].epoch
        row == j.epochs[e]
        fault == BadClock(q) \/ (row.destroyed = "yes" /\ q >= row.end)
    IN IF j.ops[id].done THEN Fault(NoteMutation(j), TRUE)
       ELSE Fault([NoteMutation(j) EXCEPT !.ops[id].done = TRUE, !.completed = @ + 1, !.pending = @ - 1,
                                         !.epochs[e] = Completion(row, q)],
                  fault)

\* Journal::stop_admissions.
JStop(j, q) == Fault([j EXCEPT !.stopped = TRUE, !.incomplete = j.pending > 0], q = 0)

-----------------------------------------------------------------------------
(* Registry. *)

Admitting == wRegistry.ready /\ wRegistry.admissions
\* ReadClockLocked: the same tick as before, a later one, or 0 when the counter fails
\* (explored until the first failure, a bound).
Reads == (IF wCollector.failed THEN {} ELSE {0}) \cup {q \in wTick..wTick + 1 : q <= WindowEnd}
Read(q) == wTick' = IF q = 0 THEN wTick ELSE q

\* FailLocked after a failed clock read or a rejected observation.
Failed(bad, j) == IF bad /\ ~wCollector.frozen THEN Fault(NoteMutation(j), TRUE) ELSE j

\* Configure registers the table once; a second registration fails the registry closed.
Configure == /\ ~wRegistry.ready /\ wRegistry' = [wRegistry EXCEPT !.ready = TRUE]
             /\ UNCHANGED <<wCollector, wJournal, wLabels, wCreate, wScopes, wCalls, wFrames, wAlive,
                            wTick, wNative, wBegun, wSnap>>
RegisterAgain == /\ wRegistry.ready /\ wRegistry.admissions
                 /\ wRegistry' = [wRegistry EXCEPT !.admissions = FALSE, !.failed = TRUE]
                 /\ UNCHANGED <<wCollector, wJournal, wLabels, wCreate, wScopes, wCalls, wFrames, wAlive,
                                wTick, wNative, wBegun, wSnap>>

Idle(t) == wRegistry.ready /\ wCalls[t] = <<>>
\* Bound: after the cut, or a fault (which marks the snapshot for good), no thread starts
\* anything new; what is under way is followed to its end.
Starts(t) == Idle(t) /\ wCreate[t] = <<>> /\ ~wCollector.frozen /\ ~wCollector.failed /\ ~wJournal.fault
Selected(c) == c = wCollector.cookie /\ ~wCollector.frozen

\* ScopedCreate and ScopedOperation: thread-local chains of helper scopes.
OpenCreate(t) == /\ Starts(t) /\ wFrames[t] = <<>> /\ wScopes[t] = <<>>
                 /\ wCreate' = [wCreate EXCEPT ![t] = <<[cookie |-> NoCookie, epoch |-> 0]>>]
                 /\ UNCHANGED <<wRegistry, wCollector, wJournal, wLabels, wScopes, wCalls, wFrames, wAlive,
                                wTick, wNative, wBegun, wSnap>>
OpenScope(t, c, kind) ==
    /\ Starts(t) /\ c \in wAlive /\ Len(wScopes[t]) < 2 /\ Len(wScopes[t]) <= Len(wFrames[t])
    /\ wScopes' = [wScopes EXCEPT ![t] = Append(@, [cookie |-> c, kind |-> kind, ticket |-> 0, attempts |-> 0,
                     ambiguous |-> FALSE, wait |-> 0, since |-> Len(wJournal.ops), depth |-> Len(wFrames[t])])]
    /\ UNCHANGED <<wRegistry, wCollector, wJournal, wLabels, wCreate, wCalls, wFrames, wAlive, wTick,
                   wNative, wBegun, wSnap>>
CloseScope(t) ==
    /\ Idle(t) /\ ~wCollector.frozen /\ wScopes[t] # <<>>
    /\ Len(wFrames[t]) = wScopes[t][Len(wScopes[t])].depth
    /\ wScopes' = [wScopes EXCEPT ![t] = SubSeq(@, 1, Len(@) - 1)]
    /\ UNCHANGED <<wRegistry, wCollector, wJournal, wLabels, wCreate, wCalls, wFrames, wAlive, wTick,
                   wNative, wBegun, wSnap>>

\* The SDK calls Registry::Create, Destroy and Begin; the admission flag is read here,
\* the collector's lock is taken later.  Without admission a native operation just runs.
SdkCall(t, op, c, kind) ==
    /\ Admitting
    /\ wCalls' = [wCalls EXCEPT ![t] = <<[op |-> op, cookie |-> c, kind |-> kind]>>]
    /\ wAlive' = IF op = "destroy" THEN wAlive \ {c} ELSE wAlive
    /\ UNCHANGED <<wRegistry, wCollector, wJournal, wLabels, wCreate, wScopes, wFrames, wTick, wNative,
                   wBegun, wSnap>>
InUse(c) == \E t \in WThreads : (\E i \in DOMAIN wFrames[t] : wFrames[t][i].cookie = c)
                                \/ (\E i \in DOMAIN wScopes[t] : wScopes[t][i].cookie = c)
                                \/ (wCalls[t] # <<>> /\ wCalls[t][1].cookie = c)
SdkCreate(t, c) == /\ Starts(t) \/ (Idle(t) /\ wCreate[t] # <<>> /\ wCreate[t][1].cookie = NoCookie)
                   /\ c \notin wAlive /\ ~InUse(c) /\ wFrames[t] = <<>> /\ SdkCall(t, "create", c, "none")
SdkDestroy(t, c) == Starts(t) /\ c \in wAlive /\ ~InUse(c) /\ wFrames[t] = <<>> /\ SdkCall(t, "destroy", c, "none")
SdkBegin(t, c, kind) == Starts(t) /\ c \in wAlive /\ wBegun < MaxNative /\ Len(wFrames[t]) < 2 /\ SdkCall(t, "begin", c, kind)
SdkBeginUnseen(t, c, kind) ==
    /\ Starts(t) /\ ~Admitting /\ c \in wAlive /\ wBegun < MaxNative /\ Len(wFrames[t]) < 2
    /\ wFrames' = [wFrames EXCEPT ![t] = Append(@, [cookie |-> c, kind |-> kind, ticket |-> 0])]
    /\ wNative' = IF Selected(c) THEN wNative + 1 ELSE wNative
    /\ wBegun' = wBegun + 1
    /\ UNCHANGED <<wRegistry, wCollector, wJournal, wLabels, wCreate, wScopes, wCalls, wAlive, wTick, wSnap>>

-----------------------------------------------------------------------------
(* Collector callbacks, each under the collector's mutex; once frozen they *)
(* are late and leave the journal alone.                                   *)

Asks(t, op) == wCalls[t] # <<>> /\ wCalls[t][1].op = op
CallReturns(t) == wCalls' = [wCalls EXCEPT ![t] = <<>>]

OnCreate(t) ==
    LET c == wCalls[t][1].cookie
        intent == wCreate[t] # <<>>
        again == wCollector.cookie # NoCookie /\ (c = wCollector.cookie \/ intent)
    IN /\ Asks(t, "create") /\ CallReturns(t) /\ wAlive' = wAlive \cup {c}
       /\ \E q \in Reads : Read(q) /\
            CASE wCollector.frozen \/ (~again /\ ~intent) -> q = wTick /\ UNCHANGED <<wCollector, wJournal, wCreate>>
              [] ~wCollector.frozen /\ again ->
                   /\ c # wCollector.cookie => q = wTick
                   /\ wCollector' = [wCollector EXCEPT !.failed = TRUE, !.bound = FALSE]
                   /\ wJournal' = LET j == Failed(TRUE, wJournal)
                                  IN IF c = wCollector.cookie THEN JCreate(j, c, q) ELSE j
                   /\ UNCHANGED wCreate
              [] OTHER ->
                   LET j == JCreate(Failed(q = 0, wJournal), c, q)
                       new == Len(j.epochs) > Len(wJournal.epochs)
                   IN /\ wJournal' = Failed(~new, j)
                      /\ wCollector' = IF new THEN [wCollector EXCEPT !.cookie = c, !.epoch = Len(j.epochs),
                                                                      !.failed = @ \/ q = 0]
                                       ELSE [wCollector EXCEPT !.failed = TRUE]
                      /\ wCreate' = IF new THEN [wCreate EXCEPT ![t] = <<[cookie |-> c, epoch |-> Len(j.epochs)]>>]
                                    ELSE wCreate
       /\ UNCHANGED <<wRegistry, wLabels, wScopes, wFrames, wNative, wBegun, wSnap>>

\* BindReturnedHandle, then the end of the ScopedCreate.
BindReturnedHandle(t) ==
    /\ Idle(t) /\ wCreate[t] # <<>>
    /\ LET s == wCreate[t][1]
           good == s.cookie # NoCookie /\ s.cookie = wCollector.cookie /\ s.epoch = wCollector.epoch
                   /\ ~wCollector.bound
       IN IF wCollector.frozen THEN UNCHANGED <<wCollector, wJournal>>
          ELSE /\ wCollector' = [wCollector EXCEPT !.bound = good, !.failed = @ \/ ~good]
               /\ wJournal' = Failed(~good, wJournal)
    /\ wCreate' = [wCreate EXCEPT ![t] = <<>>]
    /\ UNCHANGED <<wRegistry, wLabels, wScopes, wCalls, wFrames, wAlive, wTick, wNative, wBegun, wSnap>>

OnDestroy(t) ==
    LET c == wCalls[t][1].cookie
    IN /\ Asks(t, "destroy") /\ CallReturns(t)
       /\ IF ~Selected(c) THEN UNCHANGED <<wCollector, wJournal, wTick>>
          ELSE \E q \in Reads :
                 /\ Read(q)
                 /\ wJournal' = JDestroy(Failed(q = 0, wJournal), c, q)
                 /\ wCollector' = [wCollector EXCEPT !.destroyed = TRUE, !.failed = @ \/ q = 0]
       /\ UNCHANGED <<wRegistry, wLabels, wCreate, wScopes, wFrames, wAlive, wNative, wBegun, wSnap>>

\* OnBegin's walk: EVERY scope of the thread counts the admission, and one that does
\* not fit or is not its first makes the scope ambiguous and forgets its wait.
Noticed(s, c, kind) ==
    LET n == s.attempts + 1
    IN IF n # 1 \/ s.cookie # c \/ s.kind # kind THEN [s EXCEPT !.attempts = n, !.ambiguous = TRUE, !.wait = 0]
       ELSE [s EXCEPT !.attempts = n]
NoticedScopes(t, c, kind) == [i \in DOMAIN wScopes[t] |-> Noticed(wScopes[t][i], c, kind)]
Unlabelled(ss) == [i \in DOMAIN wLabels |-> wLabels[i]
                     /\ ~\E k \in DOMAIN ss : ss[k].ambiguous /\ ss[k].ticket = i]

OnBegin(t) ==
    LET c == wCalls[t][1].cookie
        kind == wCalls[t][1].kind
        ss == NoticedScopes(t, c, kind)
        n == Len(ss)
        label == n > 0 /\ ss[n].cookie = c /\ ~ss[n].ambiguous /\ ss[n].attempts = 1 /\ ss[n].kind = kind
                 /\ wCollector.bound /\ ~wCollector.destroyed /\ Lookup(wJournal, c) = wCollector.epoch
                 /\ ss[n].ticket = 0
        id == Len(wJournal.ops) + 1
        lost == \E k \in DOMAIN ss : ss[k].ambiguous /\ ss[k].ticket # 0 /\ wJournal.ops[ss[k].ticket].kind = "update"
    IN /\ Asks(t, "begin") /\ CallReturns(t)
       /\ wBegun' = wBegun + 1
       /\ wNative' = IF Selected(c) THEN wNative + 1 ELSE wNative
       /\ \E q \in Reads : Read(q) /\
            CASE wCollector.frozen \/ c # wCollector.cookie ->
                   /\ q = wTick
                   /\ wCollector' = [wCollector EXCEPT !.failed = @ \/ (lost /\ ~wCollector.frozen)]
                   /\ wJournal' = Failed(lost, wJournal)
                   /\ wScopes' = IF wCollector.frozen THEN wScopes ELSE [wScopes EXCEPT ![t] = ss]
                   /\ wLabels' = IF wCollector.frozen THEN wLabels ELSE Unlabelled(ss)
                   /\ wFrames' = [wFrames EXCEPT ![t] = Append(@, [cookie |-> c, kind |-> kind, ticket |-> 0])]
              [] OTHER ->
                   LET stored == Stores(wJournal, c)
                   IN /\ wJournal' = JBegin(Failed(q = 0 \/ lost, wJournal), c, t, q,
                                           IF kind = "update" /\ ~label THEN "release" ELSE kind)
                      /\ wCollector' = [wCollector EXCEPT !.failed = @ \/ q = 0 \/ lost]
                      /\ wLabels' = IF stored THEN Append(Unlabelled(ss), label) ELSE Unlabelled(ss)
                      /\ wScopes' = [wScopes EXCEPT ![t] = IF n = 0 THEN ss ELSE
                                       [ss EXCEPT ![n].ticket = IF stored /\ @ = 0 THEN id ELSE @,
                                                  ![n].ambiguous = @ \/ (~label /\ ss[n].ticket # 0)]]
                      /\ wFrames' = [wFrames EXCEPT ![t] = Append(@, [cookie |-> c, kind |-> kind,
                                                                      ticket |-> IF stored THEN id ELSE 0])]
       /\ UNCHANGED <<wRegistry, wCreate, wAlive, wSnap>>

\* The native operation ends; a ticket is completed through Registry::End, which does
\* not ask for admission.  Other threads' tickets are refused; here they are one's own.
\* Mutant: the completion does not look whether the journal is frozen.
LateEnds == TRUE
Ends == ~wCollector.frozen
OnEnd(t) ==
    LET f == wFrames[t][Len(wFrames[t])]
        n == Len(wScopes[t])
    IN /\ Idle(t) /\ wFrames[t] # <<>>
       /\ (n > 0 => wScopes[t][n].depth < Len(wFrames[t]))
       /\ wFrames' = [wFrames EXCEPT ![t] = SubSeq(@, 1, Len(@) - 1)]
       /\ IF f.ticket = 0 \/ ~Ends THEN UNCHANGED <<wCollector, wJournal, wScopes, wTick>>
          ELSE \E q \in Reads :
                 /\ Read(q)
                 /\ wJournal' = JEnd(Failed(q = 0, wJournal), f.ticket, q)
                 /\ wCollector' = [wCollector EXCEPT !.failed = @ \/ q = 0]
                 /\ wScopes' = IF f.kind = "wait" /\ n > 0 /\ wScopes[t][n].ticket = f.ticket
                                  /\ ~wScopes[t][n].ambiguous
                               THEN [wScopes EXCEPT ![t] = [@ EXCEPT ![n].wait = f.ticket]] ELSE wScopes
       /\ UNCHANGED <<wRegistry, wLabels, wCreate, wCalls, wAlive, wNative, wBegun, wSnap>>

-----------------------------------------------------------------------------
(* Freeze: clock cut, frozen, journal stopped, registry disabled, capture, *)
(* all under the collector's mutex.                                        *)

\* Snapshot::Capture.
WitnessCapture(j) ==
    IF j.postStop THEN "NotFreezeSnapshot"
    ELSE IF j.completed > Len(j.ops) \/ j.observed < Len(j.ops) \/ j.observed - Len(j.ops) # j.overflow
            \/ Len(j.ops) - j.completed # j.pending THEN "Counts"
    ELSE IF j.incomplete # (j.pending # 0) THEN "NotFreezeSnapshot" ELSE "Ok"

Freeze ==
    /\ wRegistry.ready /\ ~wCollector.frozen
    /\ \E q \in Reads :
         LET bad == wRegistry.failed \/ ~Admitting \/ q = 0
             j == JStop(Failed(bad, wJournal), q)
             failed == wCollector.failed \/ bad
             outcome == IF q <= 1 \/ q >= WindowEnd THEN "InvalidClock"
                       ELSE IF wCollector.cookie = NoCookie THEN "NoSelection" ELSE WitnessCapture(j)
             clean == ~failed /\ ~j.fault
         IN /\ Read(q) /\ wJournal' = j
            /\ wCollector' = [wCollector EXCEPT !.frozen = TRUE, !.failed = failed]
            /\ wSnap' = IF outcome = "Ok" THEN [status |-> "Ok", counts |-> Counts(j), clean |-> clean]
                        ELSE [NoSnap EXCEPT !.status = outcome]
    /\ wRegistry' = [wRegistry EXCEPT !.admissions = FALSE]
    /\ UNCHANGED <<wLabels, wCreate, wScopes, wCalls, wFrames, wAlive, wNative, wBegun>>

\* A release that carries an update label, a wait; other kinds only mark Unsupported.
WitnessKinds == {"update", "wait"}
WitnessNext ==
    \/ Configure \/ RegisterAgain \/ Freeze
    \/ \E t \in WThreads : CloseScope(t) \/ BindReturnedHandle(t)
                           \/ OnCreate(t) \/ OnDestroy(t) \/ OnBegin(t) \/ OnEnd(t)
    \/ \E t \in WHelpers : OpenCreate(t)
    \/ \E t \in WHelpers, c \in Cookies : SdkCreate(t, c) \/ SdkDestroy(t, c)
    \/ \E t \in WHelpers, c \in Cookies, kind \in WitnessKinds : OpenScope(t, c, kind)
    \/ \E t \in WThreads, c \in Cookies, kind \in WitnessKinds : SdkBegin(t, c, kind) \/ SdkBeginUnseen(t, c, kind)
WitnessSpec == WitnessInit /\ [][WitnessNext]_witnessVars

-----------------------------------------------------------------------------

\* What Freeze returns is the journal at its cut and stays so: the counters tie out,
\* no callback that was waiting for the lock changes it afterwards, and a snapshot that
\* does not report a failed observer counts every native operation begun on the
\* selected semaphore before the cut.
WitnessLosesNothing ==
    /\ wSnap.status \notin {"Counts", "NotFreezeSnapshot"}
    /\ wSnap.status = "Ok" => wSnap.counts = Counts(wJournal)
    /\ wSnap.status = "Ok" /\ wSnap.clean => wSnap.counts[1] = wNative

\* ScopedOperation::wait_observation: a scope that offers a wait saw no other operation
\* of its thread, not even one made by code that ran inside the wait.
WaitIsOfItsScope ==
    \A t \in WThreads : \A i \in DOMAIN wScopes[t] :
        LET s == wScopes[t][i]
        IN s.wait # 0 /\ ~s.ambiguous =>
             {k \in DOMAIN wJournal.ops : k > s.since /\ wJournal.ops[k].thread = t} = {s.wait}

\* The witness is faithful: the cut loses nothing, and no scope borrows a wait.
WitnessIsFaithful == WitnessLosesNothing /\ WaitIsOfItsScope
=============================================================================
