----------------------------- MODULE CrashHelper -----------------------------
(***************************************************************************)
(* The crash helper protocol: the client in the title process              *)
(* (mcla_native_crash_win.cpp), the helper process                         *)
(* (mcla_crash_handler_win.cpp) and the mapping and events they share      *)
(* (mcla_crash_ipc.h).                                                     *)
(*                                                                         *)
(* The diagnostics worker asks for live minidumps, one at a time, and      *)
(* gives up after a timeout the helper does not know of.  Any number of    *)
(* threads may crash; the first one fills in the exception, and all of     *)
(* them wait for the crash dump before they let the process end.           *)
(*                                                                         *)
(* A request is a number; its dump path is the pair of halves <<r, r>>,    *)
(* because the path is copied into the mapping while a late helper may be  *)
(* reading it.  Timeouts are steps that may happen at any time.            *)
(***************************************************************************)
EXTENDS Integers, FiniteSets

CONSTANTS
  Threads,      \* threads that may crash
  NoThread,     \* in place of a thread: a field nobody has filled in
  MaxRequests   \* bound: live minidump requests

ASSUME HelperConstants == NoThread \notin Threads /\ MaxRequests \in Nat

VARIABLES
  started,      \* ClientState::started
  sequence,     \* live_sequence
  completed,    \* live_completed_sequence
  result,       \* live_result: 0, 1 or -1
  path,         \* live_dump_path
  crashStarted, \* crash_started
  exception,    \* crash_thread_id and the exception fields
  crashResult,  \* crash_result
  events,       \* events that are signaled
  client,       \* where WriteLiveMiniDump is
  answer,       \* what the last WriteLiveMiniDump returned
  thread,       \* [Threads -> where the crashing thread is]
  process,      \* the title process is alive
  helper,       \* where the helper process is
  local,        \* the helper's locals: sequence, path, whether it wrote
  dumped,       \* paths whose file is a whole dump
  package,      \* the crash package: files, published, pointer
  ever,         \* history: paths to which a whole dump was ever written
  gaveUp,       \* history: WriteLiveMiniDump gave up waiting
  late          \* history: the process need not wait for the dump any more:
                \* a wait timed out, the client was stopped, or a hard exit

ipcVars == <<sequence, completed, result, path, crashStarted, exception,
             crashResult, events>>
titleVars == <<started, client, answer, thread, process, gaveUp>>
helperVars == <<helper, local, dumped, package, ever>>
crashVars == <<ipcVars, titleVars, helperVars, late>>

NoLocal == [sequence |-> 0, path |-> <<0, 0>>, written |-> FALSE]
NoPackage == [files |-> {}, exception |-> [thread |-> NoThread,
                                           code |-> NoThread],
              published |-> FALSE, pointer |-> FALSE]

CrashInit ==
  /\ started = TRUE
  /\ sequence = 0 /\ completed = 0 /\ result = 0 /\ path = <<0, 0>>
  /\ crashStarted = FALSE
  /\ exception = [thread |-> NoThread, code |-> NoThread]
  /\ crashResult = 0
  /\ events = {}
  /\ client = "out" /\ answer = "none"
  /\ thread = [t \in Threads |-> "running"]
  /\ process = TRUE
  /\ helper = "wait" /\ local = NoLocal
  /\ dumped = {} /\ package = NoPackage
  /\ ever = {} /\ gaveUp = FALSE /\ late = FALSE

-----------------------------------------------------------------------------
(* WriteLiveMiniDump, on the diagnostics worker.                           *)

ClientSame == UNCHANGED <<completed, crashStarted, exception, crashResult,
                          started, thread, process, helperVars, late>>

\* The path is copied half by half ...
LivePath ==
  /\ process
  /\ \/ /\ client = "out" /\ started /\ sequence < MaxRequests
        /\ path' = <<sequence + 1, path[2]>>
        /\ client' = "half"
     \/ /\ client = "half"
        /\ path' = <<path[1], sequence + 1>>
        /\ client' = "path"
  /\ UNCHANGED <<sequence, result, events, answer, gaveUp>> /\ ClientSame

\* ... the result is reset, ...
LiveReset ==
  /\ process /\ client = "path"
  /\ result' = 0
  /\ client' = "reset"
  /\ UNCHANGED <<sequence, path, events, answer, gaveUp>> /\ ClientSame

\* ... the request is numbered ...
LiveCount ==
  /\ process /\ client = "reset"
  /\ sequence' = sequence + 1
  /\ client' = "count"
  /\ UNCHANGED <<result, path, events, answer, gaveUp>> /\ ClientSame

\* ... and signaled.
LiveSignal ==
  /\ process /\ client = "count"
  /\ events' = events \cup {"liveRequest"}
  /\ client' = "wait"
  /\ UNCHANGED <<sequence, result, path, answer, gaveUp>> /\ ClientSame

LiveReturns(value) == client' = "out" /\ answer' = value

\* A completion is taken (the event resets itself); one of an earlier request
\* is passed over.
LiveCompletion ==
  /\ process /\ client = "wait" /\ "liveDone" \in events
  /\ events' = events \ {"liveDone"}
  /\ \/ completed # sequence /\ UNCHANGED <<client, answer>>
     \/ completed = sequence
          /\ LiveReturns(IF result = 1 THEN "dumped" ELSE "failed")
  /\ UNCHANGED <<sequence, result, path, gaveUp>> /\ ClientSame

\* The wait times out, or the helper process has exited.
LiveGivesUp ==
  /\ process /\ client = "wait"
  /\ LiveReturns("failed") /\ gaveUp' = TRUE
  /\ UNCHANGED <<sequence, result, path, events>> /\ ClientSame

-----------------------------------------------------------------------------
(* RequestCrash, on a crashing thread; then the process ends.              *)

ThreadSame == UNCHANGED <<sequence, completed, result, path, crashResult,
                          started, client, answer, gaveUp, helperVars>>
Goes(t, step) == thread' = [thread EXCEPT ![t] = step]

\* Mutant: only the thread that comes first waits for the dump.
CrashBeginFirstWaits(t) ==
  /\ process /\ thread[t] = "running"
  /\ crashStarted' = TRUE
  /\ Goes(t, IF crashStarted \/ ~started THEN "ending" ELSE "first")
  /\ UNCHANGED <<exception, events, process, late>> /\ ThreadSame

\* Without a started client the thread just ends the process; the first one to
\* exchange crash_started fills in the exception, the others only wait.
CrashBegin(t) ==
  /\ process /\ thread[t] = "running"
  /\ \/ /\ ~started
        /\ Goes(t, "ending") /\ late' = TRUE
        /\ UNCHANGED crashStarted
     \/ /\ started
        /\ crashStarted' = TRUE
        /\ Goes(t, IF crashStarted THEN "waiting" ELSE "first")
        /\ UNCHANGED late
  /\ UNCHANGED <<exception, events, process>> /\ ThreadSame

\* The log queue is flushed (bounded), then the fields are filled in one by one.
CrashThreadId(t) ==
  /\ process /\ thread[t] = "first"
  /\ exception' = [exception EXCEPT !.thread = t]
  /\ Goes(t, "named")
  /\ UNCHANGED <<crashStarted, events, process, late>> /\ ThreadSame

CrashSignal(t) ==
  /\ process /\ thread[t] = "named"
  /\ exception' = [exception EXCEPT !.code = t]
  /\ events' = events \cup {"crashRequest"}
  /\ Goes(t, "waiting")
  /\ UNCHANGED <<crashStarted, process, late>> /\ ThreadSame

\* crash_done is a manual-reset event: it lets every thread go on.
CrashReleased(t) ==
  /\ process /\ thread[t] = "waiting" /\ "crashDone" \in events
  /\ Goes(t, "ending")
  /\ UNCHANGED <<crashStarted, exception, events, process, late>> /\ ThreadSame

\* The wait is bounded, whatever the helper does.
CrashTimeout(t) ==
  /\ process /\ thread[t] = "waiting"
  /\ late' = TRUE
  /\ Goes(t, "ending")
  /\ UNCHANGED <<crashStarted, exception, events, process>> /\ ThreadSame

\* The process ends: by a crashed thread, or otherwise (a hard exit).
ProcessEnds ==
  /\ process
  /\ \/ (\E t \in Threads : thread[t] = "ending") /\ UNCHANGED late
     \/ late' = TRUE
  /\ process' = FALSE
  /\ UNCHANGED <<crashStarted, exception, events, thread>> /\ ThreadSame

\* Stop: crashes that begin later are no longer reported; the helper is told.
StopClient ==
  /\ process /\ started /\ client = "out"
  /\ started' = FALSE
  /\ events' = events \cup {"stop"}
  /\ UNCHANGED <<sequence, completed, result, path, crashStarted, exception,
                 crashResult, client, answer, thread, process, gaveUp,
                 helperVars, late>>

-----------------------------------------------------------------------------
(* The helper process: wWinMain.                                           *)

HelperSame == UNCHANGED <<sequence, path, crashStarted, exception,
                          titleVars, late>>

\* The wait takes the first signaled object in the order crash request, live
\* request, stop, parent process; the request events reset themselves.
HelperWait ==
  /\ helper = "wait"
  /\ \/ /\ "crashRequest" \in events
        /\ events' = events \ {"crashRequest"}
        /\ helper' = "stage"
     \/ /\ "crashRequest" \notin events /\ "liveRequest" \in events
        /\ events' = events \ {"liveRequest"}
        /\ helper' = "sequence"
     \/ /\ {"crashRequest", "liveRequest"} \cap events = {}
        /\ "stop" \in events \/ ~process
        /\ UNCHANGED events
        /\ helper' = "exited"
  /\ UNCHANGED <<completed, result, crashResult, local, dumped, package, ever>>
  /\ HelperSame

LiveSequence ==
  /\ helper = "sequence"
  /\ local' = [local EXCEPT !.sequence = sequence]
  /\ helper' = "path"
  /\ UNCHANGED <<completed, result, crashResult, events, dumped, package, ever>>
  /\ HelperSame

LiveDumpPath ==
  /\ helper = "path"
  /\ local' = [local EXCEPT !.path = path]
  /\ helper' = "dump"
  /\ UNCHANGED <<completed, result, crashResult, events, dumped, package, ever>>
  /\ HelperSame

\* WriteDump creates the file or empties the one that is there, ...
DumpOpen ==
  /\ helper = "dump"
  /\ local' = [local EXCEPT !.written = FALSE]
  /\ \/ dumped' = dumped \ {local.path} /\ helper' = "write"
     \/ UNCHANGED dumped /\ helper' = "result"
  /\ UNCHANGED <<completed, result, crashResult, events, package, ever>>
  /\ HelperSame

\* ... and writes the dump, or removes the file; without a process it fails.
DumpWrite ==
  /\ helper = "write"
  /\ \/ /\ process
        /\ local' = [local EXCEPT !.written = TRUE]
        /\ dumped' = dumped \cup {local.path}
        /\ ever' = ever \cup {local.path}
     \/ UNCHANGED <<local, dumped, ever>>
  /\ helper' = "result"
  /\ UNCHANGED <<completed, result, crashResult, events, package>>
  /\ HelperSame

LiveResult ==
  /\ helper = "result"
  /\ result' = IF local.written THEN 1 ELSE -1
  /\ helper' = "completed"
  /\ UNCHANGED <<completed, crashResult, events, local, dumped, package, ever>>
  /\ HelperSame

LiveCompleted ==
  /\ helper = "completed"
  /\ completed' = local.sequence
  /\ helper' = "done"
  /\ UNCHANGED <<result, crashResult, events, local, dumped, package, ever>>
  /\ HelperSame

LiveDone ==
  /\ helper = "done"
  /\ events' = events \cup {"liveDone"}
  /\ helper' = "wait"
  /\ UNCHANGED <<completed, result, crashResult, local, dumped, package, ever>>
  /\ HelperSame

-----------------------------------------------------------------------------
(* CaptureCrashPackage.                                                    *)

PackageSame == UNCHANGED <<completed, result, local, dumped, ever>> /\ HelperSame

\* Every error after staging ends the helper with crash_result -1.
CrashFails == crashResult' = -1 /\ helper' = "exited"

\* Mutant: the error return forgets the waiting threads.
StageForgets ==
  /\ helper = "stage"
  /\ \/ helper' = "crash" /\ UNCHANGED <<crashResult, events>>
     \/ CrashFails /\ UNCHANGED events
  /\ UNCHANGED package /\ PackageSame

\* The staging directory; without one the waiting threads are let go.
CrashStage ==
  /\ helper = "stage"
  /\ \/ helper' = "crash" /\ UNCHANGED <<crashResult, events>>
     \/ CrashFails /\ events' = events \cup {"crashDone"}
  /\ UNCHANGED package /\ PackageSame

\* The dump of the process, with the exception the first thread filled in; then
\* the waiting threads are let go, whether or not there is a dump.
CrashDump ==
  /\ helper = "crash"
  /\ \E files \in SUBSET {"dump"} :
       /\ "dump" \in files => process
       /\ package' = [package EXCEPT !.files = files, !.exception = exception]
  /\ events' = events \cup {"crashDone"}
  /\ helper' = "rest"
  /\ UNCHANGED crashResult /\ PackageSame

\* Journal (optional), saves, inventory, README, hashes, manifest.
CrashRest ==
  /\ helper = "rest"
  /\ \/ CrashFails /\ UNCHANGED package
     \/ /\ \E journal \in SUBSET {"journal"} :
             package' = [package EXCEPT !.files =
                           @ \cup journal \cup {"inventory", "readme",
                                                "manifest"}]
        /\ helper' = "publish" /\ UNCHANGED crashResult
  /\ UNCHANGED events /\ PackageSame

CrashPublish ==
  /\ helper = "publish"
  /\ \/ CrashFails /\ UNCHANGED package
     \/ /\ package' = [package EXCEPT !.published = TRUE]
        /\ helper' = "pointer" /\ UNCHANGED crashResult
  /\ UNCHANGED events /\ PackageSame

\* The pointer (it may fail), pruning, the result, and the dialog when asked
\* for and the package has its dump.
CrashPointer ==
  /\ helper = "pointer"
  /\ \E written \in BOOLEAN :
       /\ package' = [package EXCEPT !.pointer = written]
       /\ crashResult' = IF written /\ "dump" \in package.files THEN 1 ELSE -1
  /\ helper' \in {"exited"} \cup (IF "dump" \in package.files THEN {"dialog"}
                                                              ELSE {})
  /\ UNCHANGED events /\ PackageSame

\* The user closes the dialog.
CloseDialog ==
  /\ helper = "dialog"
  /\ helper' = "exited"
  /\ UNCHANGED <<crashResult, events, package>> /\ PackageSame

-----------------------------------------------------------------------------
Client == LivePath \/ LiveReset \/ LiveCount \/ LiveSignal \/ LiveCompletion
            \/ LiveGivesUp
Crash(t) == CrashBegin(t) \/ CrashThreadId(t) \/ CrashSignal(t)
              \/ CrashReleased(t) \/ CrashTimeout(t)
Helper == HelperWait \/ LiveSequence \/ LiveDumpPath \/ DumpOpen \/ DumpWrite \/ LiveResult
            \/ LiveCompleted \/ LiveDone \/ CrashStage \/ CrashDump \/ CrashRest
            \/ CrashPublish \/ CrashPointer

CrashNext ==
  \/ Client \/ StopClient
  \/ \E t \in Threads : Crash(t)
  \/ ProcessEnds
  \/ Helper \/ CloseDialog

CrashSpec == CrashInit /\ [][CrashNext]_crashVars

-----------------------------------------------------------------------------
\* A live minidump is reported as written only when a whole dump was written to
\* the path of that very request, although answers to requests that had been
\* given up arrive late and the mapping is reused meanwhile.  Unless a request
\* was given up, the dump then stays as it is (the helper may otherwise take an
\* old signal for the next request, and write that dump once more).
\* And the crash package tells of one thread: its thread id and its exception
\* come from the thread that crashed first, also when several crash at once.
\* And "none may terminate the process while the first capture still reads it":
\* unless a wait ran into its limit, the process lives until its dump is done.
DumpsAreTrue ==
  /\ answer = "dumped" /\ client = "out" =>
       /\ <<sequence, sequence>> \in ever
       /\ ~gaveUp => <<sequence, sequence>> \in dumped
  /\ "manifest" \in package.files =>
       /\ package.exception.thread # NoThread
       /\ package.exception.code = package.exception.thread
  /\ crashStarted /\ ~late => process \/ "crashDone" \in events

\* Threads that wait for a crash dump are let go by the helper on every path of
\* CaptureCrashPackage, the failing ones too, without their timeout: unless the
\* helper had already left, a stop that is signaled as well included.
\* And the helper does not outlive the title, but for the dialog it may show.
CrashEnds ==
  /\ ("crashRequest" \in events /\ helper # "exited") ~> "crashDone" \in events
  /\ ~process ~> helper \in {"exited", "dialog"}
=============================================================================
