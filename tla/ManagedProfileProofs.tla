------------------------ MODULE ManagedProfileProofs ------------------------
(***************************************************************************)
(* Proofs about ManagedProfile, for any number of launchers, profiles and  *)
(* identities: type correctness, and that the live save tree of a profile  *)
(* belongs to one user at a time.                                          *)
(***************************************************************************)
EXTENDS ManagedProfile, TLAPS

-----------------------------------------------------------------------------
(* Registers: which of a launcher's registers hold a value at which step.   *)

SessionSteps == {"s_prepared", "s_copy", "s_receipt", "s_launching", "s_spawn",
                 "s_running", "running", "p_receipt", "p_complete"}
ArchiveSteps == {"r_copy", "r_receipt", "r_pending", "r_write", "r_copy2",
                 "r_receipt2", "r_complete"}
ChildSteps == {"b_marker", "b_copy", "b_fill", "x_marker", "x_copy", "b_publish", "c_publish"}
CopiedSteps == {"b_fill", "x_marker", "x_copy", "b_publish"}

\* An operation on an existing profile knows it, one with a session or an
\* archive knows its identity, one that makes a child knows the child, and a
\* child is filled with something that was read.
Registers ==
  \A l \in Launchers :
    /\ pc[l] \in Busy \ CreateSteps => prof[l] \in Profiles
    /\ pc[l] \in SessionSteps \cup ArchiveSteps => sid[l] \in Ids
    /\ pc[l] \in ChildSteps => dest[l] \in Profiles
    /\ pc[l] \in CopiedSteps => snap[l] \in Content

TypeInv == TypeOK /\ Registers

LEMMA InitType == Init => TypeInv
BY ProfileConstants DEF Init, TypeInv, TypeOK, Registers, Record, NoSession, NewSession, NewArchive,
   SessionStates, MaybeContent, Content, Steps, Busy, StartSteps, PollSteps, RenameSteps,
   BranchSteps, CreateSteps, SessionSteps, ArchiveSteps, ChildSteps, CopiedSteps

LEMMA RecordTyped ==
  ASSUME NEW r \in Record
  PROVE  /\ \A v \in SessionStates \cup {"open"} : WithState(r, v) \in Record
         /\ \A c \in MaybeContent : WithBefore(r, c) \in Record /\ WithAfter(r, c) \in Record
BY DEF Record, WithState, WithBefore, WithAfter

LEMMA ReturnType ==
  ASSUME TypeInv, NEW l \in Launchers, Return(l)
  PROVE  /\ lock' \in [Profiles -> Launchers \cup {None}]
         /\ pc' \in [Launchers -> Steps]
         /\ prof' \in [Launchers -> Profiles \cup {None}]
         /\ sid' \in [Launchers -> Ids \cup {None}]
         /\ snap' \in [Launchers -> MaybeContent]
         /\ dest' \in [Launchers -> Profiles \cup {None}]
         /\ Registers'
<1>1. Registers'
  BY DEF TypeInv, TypeOK, Registers, Return, Goto, Forget, Busy, StartSteps, PollSteps,
         RenameSteps, BranchSteps, CreateSteps, SessionSteps, ArchiveSteps, ChildSteps, CopiedSteps
<1>2. lock' \in [Profiles -> Launchers \cup {None}]
  BY DEF TypeInv, TypeOK, Return, Release
<1>3. pc' \in [Launchers -> Steps]
  BY DEF TypeInv, TypeOK, Return, Goto, Steps
<1> QED BY <1>1, <1>2, <1>3 DEF TypeInv, TypeOK, Return, Forget, MaybeContent

LEMMA StartType ==
  ASSUME TypeInv, NEW l \in Launchers, Start(l)
  PROVE  TypeInv'
<1> USE ProfileConstants
<1> USE DEF TypeInv, TypeOK, Registers, Content, MaybeContent, Steps, Busy, StartSteps,
   PollSteps, RenameSteps, BranchSteps, CreateSteps, SessionSteps, ArchiveSteps, ChildSteps,
   CopiedSteps, disk, Goto
<1>1. CASE \E p \in Profiles : StartLock(l, p)
  BY <1>1 DEF StartLock, Lock
<1>2. CASE StartAdmit(l)
  BY <1>2 DEF StartAdmit
<1>3. CASE StartRefuse(l)
  BY <1>3, ReturnType DEF StartRefuse
<1>4. CASE StartNewDirectory(l)
  BY <1>4 DEF StartNewDirectory, NewSession, Record, SessionStates
<1>5. CASE StartPrepared(l)
  <2>1. WithState(sess[prof[l]][sid[l]], "prepared") \in Record
    BY <1>5, RecordTyped DEF StartPrepared, WriteState, SessionStates
  <2> QED BY <1>5, <2>1 DEF StartPrepared, WriteState
<1>6. CASE StartCopy(l)
  BY <1>6 DEF StartCopy, ReadTree
<1>7. CASE StartReceipt(l)
  <2>1. sess[prof[l]][sid[l]] \in Record /\ snap[l] \in MaybeContent
    BY <1>7 DEF StartReceipt
  <2>2. WithBefore(sess[prof[l]][sid[l]], snap[l]) \in Record
    BY <2>1, RecordTyped
  <2> QED BY <1>7, <2>2 DEF StartReceipt
<1>8. CASE StartLaunching(l)
  <2>1. WithState(sess[prof[l]][sid[l]], "launching") \in Record
    BY <1>8, RecordTyped DEF StartLaunching, WriteState, SessionStates
  <2> QED BY <1>8, <2>1 DEF StartLaunching, WriteState
<1>9. CASE StartSpawn(l)
  BY <1>9 DEF StartSpawn
<1>10. CASE StartRunning(l)
  <2>1. WithState(sess[prof[l]][sid[l]], "running") \in Record
    BY <1>10, RecordTyped DEF StartRunning, SessionStates
  <2>2. CASE UNCHANGED sess
    BY <1>10, <2>2 DEF StartRunning
  <2>3. CASE sess' = [sess EXCEPT ![prof[l]][sid[l]] = WithState(@, "running")]
    BY <1>10, <2>1, <2>3 DEF StartRunning
  <2> QED BY <1>10, <2>2, <2>3 DEF StartRunning
<1> QED BY <1>1, <1>2, <1>3, <1>4, <1>5, <1>6, <1>7, <1>8, <1>9, <1>10 DEF Start

LEMMA PollType ==
  ASSUME TypeInv, NEW l \in Launchers, Poll(l)
  PROVE  TypeInv'
<1> USE ProfileConstants
<1> USE DEF TypeInv, TypeOK, Registers, Content, MaybeContent, Steps, Busy, StartSteps,
   PollSteps, RenameSteps, BranchSteps, CreateSteps, SessionSteps, ArchiveSteps, ChildSteps,
   CopiedSteps, disk, Goto
<1>1. CASE PollCopy(l)
  BY <1>1 DEF PollCopy, ReadTree
<1>2. CASE PollReceipt(l)
  <2>1. sess[prof[l]][sid[l]] \in Record /\ snap[l] \in MaybeContent
    BY <1>2 DEF PollReceipt
  <2>2. WithAfter(sess[prof[l]][sid[l]], snap[l]) \in Record
    BY <2>1, RecordTyped DEF SessionStates
  <2> QED BY <1>2, <2>2 DEF PollReceipt
<1>3. CASE PollComplete(l)
  <2>1. sess[prof[l]][sid[l]] \in Record /\ snap[l] \in MaybeContent
    BY <1>3 DEF PollComplete
  <2>2. WithState(sess[prof[l]][sid[l]], "complete") \in Record
    BY <2>1, RecordTyped DEF SessionStates
  <2> QED BY <1>3, <2>2, ReturnType DEF PollComplete
<1>4. CASE PollFail(l)
  BY <1>4, ReturnType DEF PollFail
<1> QED BY <1>1, <1>2, <1>3, <1>4 DEF Poll

LEMMA RenameType ==
  ASSUME TypeInv, NEW l \in Launchers, RenameName(l)
  PROVE  TypeInv'
<1> USE ProfileConstants
<1> USE DEF TypeInv, TypeOK, Registers, Content, MaybeContent, Steps, Busy, StartSteps,
   PollSteps, RenameSteps, BranchSteps, CreateSteps, SessionSteps, ArchiveSteps, ChildSteps,
   CopiedSteps, disk, Goto
<1>1. CASE \E p \in Profiles : RenameLock(l, p)
  BY <1>1 DEF RenameLock, Lock
<1>2. CASE RenameAdmit(l)
  BY <1>2 DEF RenameAdmit
<1>3. CASE RenameReturn(l)
  BY <1>3, ReturnType DEF RenameReturn
<1>4. CASE RenameNewDirectory(l)
  BY <1>4 DEF RenameNewDirectory, NewArchive, Record, SessionStates
<1>5. CASE RenameCopy(l)
  BY <1>5 DEF RenameCopy, ReadTree
<1>6. CASE RenameReceipt(l)
  <2>1. arch[prof[l]][sid[l]] \in Record /\ snap[l] \in MaybeContent
    BY <1>6 DEF RenameReceipt
  <2>2. WithBefore(arch[prof[l]][sid[l]], snap[l]) \in Record
    BY <2>1, RecordTyped DEF SessionStates
  <2> QED BY <1>6, <2>2 DEF RenameReceipt
<1>7. CASE RenamePending(l)
  BY <1>7 DEF RenamePending
<1>8. CASE RenameWrite(l)
  BY <1>8 DEF RenameWrite
<1>9. CASE RenameCopyAfter(l)
  BY <1>9 DEF RenameCopyAfter, ReadTree
<1>10. CASE RenameReceiptAfter(l)
  <2>1. arch[prof[l]][sid[l]] \in Record /\ snap[l] \in MaybeContent
    BY <1>10 DEF RenameReceiptAfter
  <2>2. WithAfter(arch[prof[l]][sid[l]], snap[l]) \in Record
    BY <2>1, RecordTyped DEF SessionStates
  <2> QED BY <1>10, <2>2 DEF RenameReceiptAfter
<1>11. CASE RenameComplete(l)
  <2>1. arch[prof[l]][sid[l]] \in Record /\ snap[l] \in MaybeContent
    BY <1>11 DEF RenameComplete
  <2>2. WithState(arch[prof[l]][sid[l]], "complete") \in Record
    BY <2>1, RecordTyped DEF SessionStates
  <2> QED BY <1>11, <2>2, ReturnType DEF RenameComplete
<1> QED BY <1>1, <1>2, <1>3, <1>4, <1>5, <1>6, <1>7, <1>8, <1>9, <1>10, <1>11 DEF RenameName

LEMMA BranchType ==
  ASSUME TypeInv, NEW l \in Launchers, Branch(l)
  PROVE  TypeInv'
<1> USE ProfileConstants
<1> USE DEF TypeInv, TypeOK, Registers, Content, MaybeContent, Steps, Busy, StartSteps,
   PollSteps, RenameSteps, BranchSteps, CreateSteps, SessionSteps, ArchiveSteps, ChildSteps,
   CopiedSteps, disk, Goto
<1>1. CASE \E p \in Profiles : BranchLock(l, p)
  BY <1>1 DEF BranchLock, Lock
<1>2. CASE \E q \in Profiles : DuplicateBegin(l, q)
  BY <1>2 DEF DuplicateBegin, CreateChild
<1>3. CASE \E q \in Profiles : RestoreBegin(l, q)
  <2>1. \A p \in Profiles : RestorableContents(p) \subseteq Content
    BY DEF RestorableContents, Record
  <2> QED BY <1>3, <2>1 DEF RestoreBegin, CreateChild
<1>4. CASE BranchRefuse(l)
  BY <1>4, ReturnType DEF BranchRefuse
<1>5. CASE DuplicateMarker(l)
  BY <1>5 DEF DuplicateMarker, ImportMarker
<1>6. CASE RestoreMarker(l)
  BY <1>6 DEF RestoreMarker, ImportMarker
<1>7. CASE DuplicateCopy(l)
  BY <1>7 DEF DuplicateCopy, ReadTree
<1>8. CASE DuplicateFill(l)
  BY <1>8 DEF DuplicateFill, Fill
<1>9. CASE RestoreFill(l)
  BY <1>9 DEF RestoreFill, Fill
<1>10. CASE BranchPublish(l)
  BY <1>10, ReturnType DEF BranchPublish
<1> QED BY <1>1, <1>2, <1>3, <1>4, <1>5, <1>7, <1>8, <1>9, <1>10, <1>6 DEF Branch

LEMMA CreateType ==
  ASSUME TypeInv, NEW l \in Launchers, CreateProfile(l)
  PROVE  TypeInv'
<1> USE ProfileConstants
<1> USE DEF TypeInv, TypeOK, Registers, Content, MaybeContent, Steps, Busy, StartSteps,
   PollSteps, RenameSteps, BranchSteps, CreateSteps, SessionSteps, ArchiveSteps, ChildSteps,
   CopiedSteps, disk, Goto
<1>1. CASE \E q \in Profiles : CreateBegin(l, q)
  BY <1>1 DEF CreateBegin, CreateChild
<1>2. CASE CreatePublish(l)
  BY <1>2, ReturnType DEF CreatePublish
<1> QED BY <1>1, <1>2 DEF CreateProfile

LEMMA EnvironmentType ==
  ASSUME TypeInv, Environment
  PROVE  TypeInv'
<1> USE ProfileConstants
<1> USE DEF TypeInv, TypeOK, Registers, Content, MaybeContent, Steps, Busy, StartSteps,
   PollSteps, RenameSteps, BranchSteps, CreateSteps, SessionSteps, ArchiveSteps, ChildSteps,
   CopiedSteps, disk, Goto
<1>1. ASSUME NEW l \in Launchers, Fail(l)  PROVE TypeInv'
  BY <1>1, ReturnType DEF Fail
<1>2. ASSUME NEW l \in Launchers, Crash(l)  PROVE TypeInv'
  BY <1>2 DEF Crash, Release, Forget
<1>3. ASSUME NEW l \in Launchers, Restart(l)  PROVE TypeInv'
  BY <1>3 DEF Restart
<1>4. ASSUME NEW g \in Profiles \X Ids, JobKill(g) \/ GameExit(g)  PROVE TypeInv'
  BY <1>4 DEF JobKill, GameExit
<1>5. ASSUME NEW g \in Profiles \X Ids, GameWrite(g)  PROVE TypeInv'
  BY <1>5 DEF GameWrite
<1> QED BY <1>1, <1>2, <1>3, <1>4, <1>5 DEF Environment

LEMMA NextType == TypeInv /\ [Next]_vars => TypeInv'
<1> SUFFICES ASSUME TypeInv, [Next]_vars  PROVE TypeInv'
  OBVIOUS
<1>1. CASE UNCHANGED vars
  BY <1>1 DEF vars, TypeInv, TypeOK, Registers
<1>2. CASE Next
  BY <1>2, StartType, PollType, RenameType, BranchType, CreateType, EnvironmentType DEF Next, Launcher
<1> QED BY <1>1, <1>2

\* Every file and register of the model keeps its type.
THEOREM TypeCorrect == Spec => []TypeOK
<1>1. TypeInv => TypeOK
  BY DEF TypeInv
<1> QED BY InitType, NextType, <1>1, PTL DEF Spec

-----------------------------------------------------------------------------
(* One user of the live tree at a time.                                     *)
(*                                                                          *)
(* LiveTreeExclusive is not inductive: a lock alone does not keep a second  *)
(* launcher away from a title whose own launcher died, and the record alone *)
(* does not keep two launchers from passing admission together.  The        *)
(* invariant below joins them: while an operation is past its admission,    *)
(* the lock is its own and every session of the profile but its own is      *)
(* closed; a running title always has an open session record.               *)

Open(r) == r.state \in {"launching", "running"}
SettledSteps == {"s_dir", "r_dir", "b_marker", "b_copy", "b_fill"} \cup ArchiveSteps

\* An operation on an existing profile holds its lock.
Locks ==
  \A l \in Launchers : pc[l] \in Busy \ CreateSteps =>
    lock[prof[l]] = l /\ marker[prof[l]] = "managed"

\* A child being made is locked by its maker and not yet managed.
Children ==
  \A l \in Launchers : pc[l] \in ChildSteps =>
    lock[dest[l]] = l /\ marker[dest[l]] \in {"started", "import"}

AliveIsRecorded ==
  \A p \in Profiles : \A i \in Ids : <<p, i>> \in alive => Open(sess[p][i])

\* An operation that looked at the history still has it closed.
OthersSettled ==
  \A l \in Launchers : pc[l] \in SettledSteps =>
    \A i \in Ids : sess[prof[l]][i].state \in {"absent", "complete"}

SessionSettled ==
  \A l \in Launchers : pc[l] \in SessionSteps =>
    \A i \in Ids : i # sid[l] => sess[prof[l]][i].state \in {"absent", "complete"}

\* The title of a session runs only between its spawn and the after copy.
TitleMatchesStep ==
  \A l \in Launchers :
    /\ pc[l] \in SessionSteps \ {"s_running", "running"} => <<prof[l], sid[l]>> \notin alive
    /\ pc[l] \in {"s_spawn", "s_running", "running"} => Open(sess[prof[l]][sid[l]])

Exclusive == /\ Locks /\ Children /\ AliveIsRecorded /\ OthersSettled
             /\ SessionSettled /\ TitleMatchesStep /\ OneTitlePerProfile
ExclInv == TypeInv /\ Exclusive

LEMMA InitExclusive == Init => Exclusive
BY ProfileConstants DEF Init, Exclusive, Locks, Children, AliveIsRecorded, OthersSettled,
   SessionSettled, TitleMatchesStep, OneTitlePerProfile, SettledSteps, Busy, StartSteps, PollSteps,
   RenameSteps, BranchSteps, CreateSteps, SessionSteps, ArchiveSteps, ChildSteps

LEMMA StartExclusive ==
  ASSUME ExclInv, NEW l \in Launchers, Start(l)
  PROVE  Exclusive'
<1> USE ProfileConstants
<1> USE DEF ExclInv, TypeInv, TypeOK, Registers, Exclusive, Locks, Children, AliveIsRecorded,
   OthersSettled, SessionSettled, TitleMatchesStep, OneTitlePerProfile, Open, SettledSteps, Busy,
   StartSteps, PollSteps, RenameSteps, BranchSteps, CreateSteps, SessionSteps, ArchiveSteps,
   ChildSteps, disk, Goto
<1>1. CASE \E p \in Profiles : StartLock(l, p)
  BY <1>1 DEF StartLock, Lock
<1>2. CASE StartAdmit(l)
  BY <1>2 DEF StartAdmit, StartAdmits, HistoryAdmits, SessionsOf
<1>3. CASE StartRefuse(l)
  BY <1>3 DEF StartRefuse, Return, Release, Forget
<1>4. CASE StartNewDirectory(l)
  <2> PICK i \in Ids \ SessionsOf(prof[l]) :
           /\ sess' = [sess EXCEPT ![prof[l]][i] = NewSession]
           /\ sid' = [sid EXCEPT ![l] = i]
    BY <1>4 DEF StartNewDirectory
  <2>1. /\ sess[prof[l]][i].state = "absent" /\ <<prof[l], i>> \notin alive
        /\ prof[l] \in Profiles /\ pc[l] = "s_dir" /\ pc' = [pc EXCEPT ![l] = "s_prepared"]
        /\ UNCHANGED <<marker, lock, alive, prof, snap, dest>>
    BY <1>4 DEF StartNewDirectory, SessionsOf
  <2>2. ASSUME NEW m \in Launchers, m # l, pc[m] \in Busy \ CreateSteps
        PROVE  prof[m] # prof[l]
    BY <2>1, <2>2
  <2>3. Locks' /\ Children'
    BY <2>1
  <2>4. AliveIsRecorded' /\ OneTitlePerProfile'
    BY <2>1
  <2>5. OthersSettled'
    BY <2>1, <2>2
  <2>6. ASSUME NEW m \in Launchers, m # l, pc[m] \in SessionSteps
        PROVE  sess'[prof[m]] = sess[prof[m]] /\ pc'[m] = pc[m] /\ sid'[m] = sid[m] /\ prof'[m] = prof[m]
    BY <2>1, <2>2, <2>6
  <2>7. \A j \in Ids : j # i => sess'[prof[l]][j] = sess[prof[l]][j]
    BY <2>1
  <2>8. pc'[l] = "s_prepared" /\ sid'[l] = i /\ prof'[l] = prof[l] /\ \A m \in Launchers : m # l => pc'[m] = pc[m]
    BY <2>1
  <2>9. SessionSettled'
    <3> SUFFICES ASSUME NEW m \in Launchers, pc'[m] \in SessionSteps, NEW j \in Ids, j # sid'[m]
                 PROVE  sess'[prof'[m]][j].state \in {"absent", "complete"}
      BY DEF SessionSettled
    <3>1. CASE m = l
      BY <2>1, <2>7, <2>8, <3>1
    <3>2. CASE m # l
      BY <2>6, <2>8, <3>2
    <3> QED BY <3>1, <3>2
  <2>10. TitleMatchesStep'
    <3> SUFFICES ASSUME NEW m \in Launchers, pc'[m] \in SessionSteps
                 PROVE  /\ pc'[m] \in SessionSteps \ {"s_running", "running"} => <<prof'[m], sid'[m]>> \notin alive'
                        /\ pc'[m] \in {"s_spawn", "s_running", "running"} => Open(sess'[prof'[m]][sid'[m]])
      BY DEF TitleMatchesStep
    <3>1. CASE m = l
      BY <2>1, <2>8, <3>1
    <3>2. CASE m # l
      BY <2>1, <2>6, <2>8, <3>2
    <3> QED BY <3>1, <3>2
  <2> QED BY <2>3, <2>4, <2>5, <2>9, <2>10
<1>5. CASE StartPrepared(l)
  BY <1>5 DEF StartPrepared, WriteState, WithState
<1>6. CASE StartCopy(l)
  BY <1>6 DEF StartCopy, ReadTree
<1>7. CASE StartReceipt(l)
  BY <1>7 DEF StartReceipt, WithBefore
<1>8. CASE StartLaunching(l)
  BY <1>8 DEF StartLaunching, WriteState, WithState
<1>9. CASE StartSpawn(l)
  <2>1. Locks' /\ Children'
    BY <1>9 DEF StartSpawn
  <2>2. AliveIsRecorded'
    BY <1>9 DEF StartSpawn
  <2>3. OthersSettled'
    BY <1>9 DEF StartSpawn
  <2>4. SessionSettled'
    BY <1>9 DEF StartSpawn
  <2>5. TitleMatchesStep'
    BY <1>9 DEF StartSpawn
  <2>6. OneTitlePerProfile'
    BY <1>9 DEF StartSpawn
  <2> QED BY <2>1, <2>2, <2>3, <2>4, <2>5, <2>6
<1>10. CASE StartRunning(l)
  <2>1. CASE UNCHANGED sess
    BY <1>10, <2>1 DEF StartRunning
  <2>2. CASE sess' = [sess EXCEPT ![prof[l]][sid[l]] = WithState(@, "running")]
    BY <1>10, <2>2 DEF StartRunning, WithState
  <2> QED BY <1>10, <2>1, <2>2 DEF StartRunning
<1> QED BY <1>1, <1>2, <1>3, <1>4, <1>5, <1>6, <1>7, <1>8, <1>9, <1>10 DEF Start

LEMMA PollExclusive ==
  ASSUME ExclInv, NEW l \in Launchers, Poll(l)
  PROVE  Exclusive'
<1> USE ProfileConstants
<1> USE DEF ExclInv, TypeInv, TypeOK, Registers, Exclusive, Locks, Children, AliveIsRecorded,
   OthersSettled, SessionSettled, TitleMatchesStep, OneTitlePerProfile, Open, SettledSteps, Busy,
   StartSteps, PollSteps, RenameSteps, BranchSteps, CreateSteps, SessionSteps, ArchiveSteps,
   ChildSteps, disk, Goto
<1>1. CASE PollCopy(l)
  <2>1. /\ <<prof[l], sid[l]>> \notin alive /\ pc[l] = "running"
        /\ pc' = [pc EXCEPT ![l] = "p_receipt"] /\ snap' = [snap EXCEPT ![l] = user[prof[l]]]
        /\ UNCHANGED <<marker, lock, sess, alive, prof, sid, dest>>
    BY <1>1 DEF PollCopy, ReadTree
  <2>2. TitleMatchesStep'
    <3> SUFFICES ASSUME NEW m \in Launchers
                 PROVE  /\ pc'[m] \in SessionSteps \ {"s_running", "running"} => <<prof[m], sid[m]>> \notin alive
                        /\ pc'[m] \in {"s_spawn", "s_running", "running"} => Open(sess[prof[m]][sid[m]])
      BY <2>1
    <3>1. CASE m = l
      BY <2>1, <3>1
    <3>2. CASE m # l
      BY <2>1, <3>2
    <3> QED BY <3>1, <3>2
  <2>3. Locks' /\ Children' /\ AliveIsRecorded' /\ OneTitlePerProfile'
    BY <2>1
  <2>4. OthersSettled' /\ SessionSettled'
    BY <2>1
  <2> QED BY <2>2, <2>3, <2>4
<1>2. CASE PollReceipt(l)
  BY <1>2 DEF PollReceipt, WithAfter
<1>3. CASE PollComplete(l)
  <2>1. /\ <<prof[l], sid[l]>> \notin alive /\ alive' = alive
        /\ sess' = [sess EXCEPT ![prof[l]][sid[l]] = WithState(@, "complete")]
        /\ prof[l] \in Profiles /\ sid[l] \in Ids
    BY <1>3 DEF PollComplete
  <2>2. AliveIsRecorded'
    <3> SUFFICES ASSUME NEW p \in Profiles, NEW i \in Ids, <<p, i>> \in alive
                 PROVE  Open(sess'[p][i])
      BY <2>1
    <3>1. p # prof[l] \/ i # sid[l]
      BY <2>1
    <3>2. sess'[p][i] = sess[p][i]
      BY <2>1, <3>1
    <3> QED BY <3>2
  <2>3. OneTitlePerProfile'
    BY <2>1
  <2>4. Locks' /\ Children' /\ OthersSettled' /\ SessionSettled'
    BY <1>3, <2>1 DEF PollComplete, WithState, Return, Release, Forget
  <2>5. ASSUME NEW m \in Launchers, m # l, pc[m] \in SessionSteps
        PROVE  prof[m] # prof[l]
    BY <1>3, <2>5 DEF PollComplete
  <2>6. TitleMatchesStep'
    BY <1>3, <2>1, <2>5 DEF PollComplete, WithState, Return, Release, Forget
  <2> QED BY <2>2, <2>4, <2>6, <2>3
<1>4. CASE PollFail(l)
  BY <1>4 DEF PollFail, Return, Release, Forget
<1> QED BY <1>1, <1>2, <1>3, <1>4 DEF Poll

LEMMA RenameExclusive ==
  ASSUME ExclInv, NEW l \in Launchers, RenameName(l)
  PROVE  Exclusive'
<1> USE ProfileConstants
<1> USE DEF ExclInv, TypeInv, TypeOK, Registers, Exclusive, Locks, Children, AliveIsRecorded,
   OthersSettled, SessionSettled, TitleMatchesStep, OneTitlePerProfile, Open, SettledSteps, Busy,
   StartSteps, PollSteps, RenameSteps, BranchSteps, CreateSteps, SessionSteps, ArchiveSteps,
   ChildSteps, disk, Goto
<1>1. CASE \E p \in Profiles : RenameLock(l, p)
  BY <1>1 DEF RenameLock, Lock
<1>2. CASE RenameAdmit(l)
  BY <1>2 DEF RenameAdmit, RenameAdmits, HistoryAdmits, SessionsOf
<1>3. CASE RenameReturn(l)
  BY <1>3 DEF RenameReturn, Return, Release, Forget
<1>4. CASE RenameNewDirectory(l)
  BY <1>4 DEF RenameNewDirectory
<1>5. CASE RenameCopy(l)
  BY <1>5 DEF RenameCopy, ReadTree
<1>6. CASE RenameReceipt(l)
  BY <1>6 DEF RenameReceipt
<1>7. CASE RenamePending(l)
  BY <1>7 DEF RenamePending
<1>8. CASE RenameWrite(l)
  BY <1>8 DEF RenameWrite
<1>9. CASE RenameCopyAfter(l)
  BY <1>9 DEF RenameCopyAfter, ReadTree
<1>10. CASE RenameReceiptAfter(l)
  BY <1>10 DEF RenameReceiptAfter
<1>11. CASE RenameComplete(l)
  BY <1>11 DEF RenameComplete, Return, Release, Forget
<1> QED BY <1>1, <1>2, <1>3, <1>4, <1>5, <1>6, <1>7, <1>8, <1>9, <1>10, <1>11 DEF RenameName

LEMMA BranchExclusive ==
  ASSUME ExclInv, NEW l \in Launchers, Branch(l)
  PROVE  Exclusive'
<1> USE ProfileConstants
<1> USE DEF ExclInv, TypeInv, TypeOK, Registers, Exclusive, Locks, Children, AliveIsRecorded,
   OthersSettled, SessionSettled, TitleMatchesStep, OneTitlePerProfile, Open, SettledSteps, Busy,
   StartSteps, PollSteps, RenameSteps, BranchSteps, CreateSteps, SessionSteps, ArchiveSteps,
   ChildSteps, disk, Goto
<1>1. CASE \E p \in Profiles : BranchLock(l, p)
  BY <1>1 DEF BranchLock, Lock
<1>2. CASE \E q \in Profiles : DuplicateBegin(l, q)
  BY <1>2 DEF DuplicateBegin, CreateChild, DuplicateAdmits, HistoryAdmits, SessionsOf
<1>3. CASE \E q \in Profiles : RestoreBegin(l, q)
  BY <1>3 DEF RestoreBegin, CreateChild, RestorableContents
<1>4. CASE BranchRefuse(l)
  BY <1>4 DEF BranchRefuse, Return, Release, Forget
<1>5. CASE DuplicateMarker(l)
  BY <1>5 DEF DuplicateMarker, ImportMarker
<1>6. CASE DuplicateCopy(l)
  BY <1>6 DEF DuplicateCopy, ReadTree
<1>7. CASE DuplicateFill(l)
  BY <1>7 DEF DuplicateFill, Fill
<1>8. CASE RestoreFill(l)
  BY <1>8 DEF RestoreFill, Fill
<1>9. CASE BranchPublish(l)
  BY <1>9 DEF BranchPublish, Return, Release, Forget
<1>10. CASE RestoreMarker(l)
  BY <1>10 DEF RestoreMarker, ImportMarker
<1> QED BY <1>1, <1>2, <1>3, <1>4, <1>5, <1>6, <1>7, <1>8, <1>9, <1>10 DEF Branch

LEMMA CreateExclusive ==
  ASSUME ExclInv, NEW l \in Launchers, CreateProfile(l)
  PROVE  Exclusive'
<1> USE ProfileConstants
<1> USE DEF ExclInv, TypeInv, TypeOK, Registers, Exclusive, Locks, Children, AliveIsRecorded,
   OthersSettled, SessionSettled, TitleMatchesStep, OneTitlePerProfile, Open, SettledSteps, Busy,
   StartSteps, PollSteps, RenameSteps, BranchSteps, CreateSteps, SessionSteps, ArchiveSteps,
   ChildSteps, disk, Goto
<1>1. CASE \E q \in Profiles : CreateBegin(l, q)
  BY <1>1 DEF CreateBegin, CreateChild
<1>2. CASE CreatePublish(l)
  BY <1>2 DEF CreatePublish, Return, Release, Forget
<1> QED BY <1>1, <1>2 DEF CreateProfile

LEMMA EnvironmentExclusive ==
  ASSUME ExclInv, Environment
  PROVE  Exclusive'
<1> USE ProfileConstants
<1> USE DEF ExclInv, TypeInv, TypeOK, Registers, Exclusive, Locks, Children, AliveIsRecorded,
   OthersSettled, SessionSettled, TitleMatchesStep, OneTitlePerProfile, Open, SettledSteps, Busy,
   StartSteps, PollSteps, RenameSteps, BranchSteps, CreateSteps, SessionSteps, ArchiveSteps,
   ChildSteps, disk, Goto
<1>1. ASSUME NEW l \in Launchers, Fail(l)  PROVE Exclusive'
  BY <1>1 DEF Fail, Return, Release, Forget
<1>2. ASSUME NEW l \in Launchers, Crash(l)  PROVE Exclusive'
  BY <1>2 DEF Crash, Release, Forget
<1>3. ASSUME NEW l \in Launchers, Restart(l)  PROVE Exclusive'
  BY <1>3 DEF Restart
<1>4. ASSUME NEW g \in Profiles \X Ids, JobKill(g) \/ GameExit(g)  PROVE Exclusive'
  BY <1>4 DEF JobKill, GameExit
<1>5. ASSUME NEW g \in Profiles \X Ids, GameWrite(g)  PROVE Exclusive'
  BY <1>5 DEF GameWrite
<1> QED BY <1>1, <1>2, <1>3, <1>4, <1>5 DEF Environment

LEMMA NextExclusive == ExclInv /\ [Next]_vars => ExclInv'
<1> SUFFICES ASSUME ExclInv, [Next]_vars  PROVE ExclInv'
  OBVIOUS
<1>1. TypeInv'
  BY NextType DEF ExclInv
<1>2. CASE UNCHANGED vars
  BY <1>1, <1>2 DEF vars, ExclInv, Exclusive, Locks, Children, AliveIsRecorded, OthersSettled,
     SessionSettled, TitleMatchesStep, OneTitlePerProfile
<1>3. CASE Next
  <2>1. Exclusive'
    BY <1>3, StartExclusive, PollExclusive, RenameExclusive, BranchExclusive, CreateExclusive,
       EnvironmentExclusive DEF Next, Launcher
  <2> QED BY <1>1, <2>1 DEF ExclInv
<1> QED BY <1>2, <1>3

\* A step that relies on the live tree has its profile to itself: the lock is
\* its own, its history is closed, and a running title would be an open record.
LEMMA ExclusiveImplies == ExclInv => LiveTreeExclusive /\ OneTitlePerProfile
<1> SUFFICES ASSUME ExclInv  PROVE LiveTreeExclusive
  BY DEF ExclInv, Exclusive
<1> SUFFICES ASSUME NEW l \in Launchers, pc[l] \in TreeSteps, NEW i \in Ids,
                    <<prof[l], i>> \in alive
             PROVE  FALSE
  BY DEF LiveTreeExclusive
<1>1. prof[l] \in Profiles
  BY DEF ExclInv, TypeInv, Registers, TreeSteps, Busy, StartSteps, PollSteps, RenameSteps,
         BranchSteps, CreateSteps
<1>2. Open(sess[prof[l]][i])
  BY <1>1 DEF ExclInv, Exclusive, AliveIsRecorded
<1>3. CASE pc[l] \in SettledSteps
  BY <1>2, <1>3 DEF ExclInv, Exclusive, OthersSettled, Open
<1>4. CASE pc[l] \in SessionSteps \ {"s_running", "running"}
  BY <1>2, <1>4 DEF ExclInv, Exclusive, SessionSettled, TitleMatchesStep, Open
<1> QED BY <1>3, <1>4 DEF TreeSteps, SettledSteps, SessionSteps, ArchiveSteps

\* For any number of launchers, profiles and sessions: no launcher works on the
\* live tree of a profile while a title runs on it, launcher deaths included.
THEOREM LiveTreeIsExclusive == Spec => []LiveTreeExclusive
<1>1. Init => ExclInv
  BY InitType, InitExclusive DEF ExclInv
<1> QED BY <1>1, NextExclusive, ExclusiveImplies, PTL DEF Spec

\* For any number of launchers, profiles and sessions: two titles never run on
\* one profile.
THEOREM OneTitle == Spec => []OneTitlePerProfile
<1>1. Init => ExclInv
  BY InitType, InitExclusive DEF ExclInv
<1> QED BY <1>1, NextExclusive, ExclusiveImplies, PTL DEF Spec
=============================================================================
