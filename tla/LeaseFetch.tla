------------------------------ MODULE LeaseFetch ------------------------------
(***************************************************************************)
(* The download of the list of active builds (FetchPublicLeases of         *)
(* mcla_build_lease_network_win.cpp): an asynchronous WinHTTP request that *)
(* the caller gives up after five seconds.  WinHTTP, which is external,    *)
(* calls back on threads of its own, also after the caller has returned;   *)
(* the block they share is counted.                                        *)
(***************************************************************************)
EXTENDS Integers

VARIABLES
  caller,      \* where FetchPublicLeases is
  references,  \* Context::references; 0: the context is deleted
  request,     \* the request handle: "none", "open", "registered" (it has the
               \* callback), "closing", "closed"
  operation,   \* asynchronous operation WinHTTP is carrying out, or "none"
  callback,    \* where Callback is
  delivers,    \* the notification Callback was called with
  completion,  \* Context::completion, "none" when there is none
  event        \* the completion event is set

transport == <<operation, callback, delivers>>
fetchVars == <<caller, references, request, transport, completion, event>>

FetchInit ==
  /\ caller = "configure" /\ references = 1 /\ request = "none"
  /\ operation = "none" /\ callback = "out" /\ delivers = "none"
  /\ completion = "none" /\ event = FALSE

-----------------------------------------------------------------------------
(* The caller.                                                             *)

\* Session, connection, request and its options; any of them may fail.
Configure ==
  /\ caller = "configure"
  /\ \/ caller' = "register" /\ request' = "open"
     \/ caller' = "close" /\ request' \in {"none", "open"}
  /\ UNCHANGED <<references, transport, completion, event>>

\* Mutant: the handle gets no reference of its own.
RegisterWithoutReference ==
  /\ caller = "register"
  /\ \/ caller' = "send" /\ request' = "registered"
     \/ caller' = "close" /\ UNCHANGED request
  /\ UNCHANGED <<references, transport, completion, event>>

\* The handle holds a reference from the registration of the callback on.
Register ==
  /\ caller = "register"
  /\ \/ caller' = "send" /\ request' = "registered" /\ references' = references + 1
     \/ caller' = "close" /\ UNCHANGED <<request, references>>
  /\ UNCHANGED <<transport, completion, event>>

\* An operation is started, unless it fails at once or the deadline has passed.
Begins(from, kind, waits) ==
  /\ caller = from
  /\ \/ operation' = kind /\ caller' = waits
     \/ caller' = "close" /\ UNCHANGED operation
  /\ UNCHANGED <<references, request, callback, delivers, completion, event>>

SendRequest == Begins("send", "sent", "wait sent")
ReceiveResponse == Begins("receive", "headers", "wait headers")
ReadData == Begins("read", "bytes", "wait bytes")

\* Wait: the deadline, or a completion, which must be the expected one.
WaitFor(waits, kind, nexts) ==
  /\ caller = waits
  /\ \/ caller' = "close" /\ UNCHANGED <<completion, event>>
     \/ /\ event /\ event' = FALSE /\ completion' = "none"
        /\ caller' \in IF completion = kind THEN nexts ELSE {"close"}
  /\ UNCHANGED <<references, request, transport>>

WaitSent == WaitFor("wait sent", "sent", {"receive"})
\* The status, the declared length: they may be refused.
WaitHeaders == WaitFor("wait headers", "headers", {"read", "close"})
\* More bytes, or the end of the response, or too many of them.
WaitBytes == WaitFor("wait bytes", "bytes", {"read", "close"})

\* CloseRequest, on every path.
CloseHandle ==
  /\ caller = "close"
  /\ request' = CASE request = "registered" -> "closing"
                  [] request = "open" -> "closed"
                  [] OTHER -> request
  /\ caller' = "release"
  /\ UNCHANGED <<references, transport, completion, event>>

ReleaseContext ==
  /\ caller = "release"
  /\ references' = references - 1
  /\ caller' = "returned"
  /\ UNCHANGED <<request, transport, completion, event>>

-----------------------------------------------------------------------------
(* WinHTTP, and Callback on one of its threads.                            *)

\* The operation ends; closing the handle ends it with an error.
Notify ==
  /\ request \in {"registered", "closing"} /\ operation # "none" /\ callback = "out"
  /\ delivers' \in {"error"} \cup (IF request = "registered" THEN {operation} ELSE {})
  /\ operation' = "none" /\ callback' = "called"
  /\ UNCHANGED <<caller, references, request, completion, event>>

\* HANDLE_CLOSING is the last notification.
NotifyClosing ==
  /\ request = "closing" /\ operation = "none" /\ callback = "out"
  /\ request' = "closed" /\ delivers' = "closing" /\ callback' = "called"
  /\ UNCHANGED <<caller, references, operation, completion, event>>

CallbackRetain ==
  /\ callback = "called"
  /\ references' = references + 1
  /\ callback' = "retained"
  /\ UNCHANGED <<caller, request, operation, delivers, completion, event>>

\* The handle's reference goes with it; other notifications are passed on.
CallbackBody ==
  /\ callback = "retained"
  /\ IF delivers = "closing"
       THEN references' = references - 1 /\ UNCHANGED <<completion, event>>
       ELSE completion' = delivers /\ event' = TRUE /\ UNCHANGED references
  /\ callback' = "done"
  /\ UNCHANGED <<caller, request, operation, delivers>>

CallbackRelease ==
  /\ callback = "done"
  /\ references' = references - 1
  /\ callback' = "out" /\ delivers' = "none"
  /\ UNCHANGED <<caller, request, operation, completion, event>>

FetchNext ==
  \/ Configure \/ Register \/ SendRequest \/ WaitSent \/ ReceiveResponse
  \/ WaitHeaders \/ ReadData \/ WaitBytes \/ CloseHandle \/ ReleaseContext
  \/ Notify \/ NotifyClosing \/ CallbackRetain \/ CallbackBody \/ CallbackRelease

FetchSpec == FetchInit /\ [][FetchNext]_fetchVars

-----------------------------------------------------------------------------
(* Properties *)

\* Somebody may still touch the context: the caller, Callback, or WinHTTP, which
\* can call it as long as the handle has not sent its last notification.
InUse == caller # "returned" \/ callback # "out" \/ request \in {"registered", "closing"}

\* The context is deleted exactly when nobody can touch it any more, however the
\* deadline, the closing of the handle and the notifications that are still on
\* their way fall together: never under a callback, and not never.
ContextLivesAsLongAsUsed == references > 0 <=> InUse
=============================================================================
