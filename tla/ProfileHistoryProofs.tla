------------------------- MODULE ProfileHistoryProofs -------------------------
(***************************************************************************)
(* What the history of a profile is worth, for any number of launchers,    *)
(* profiles and identities: receipts are written once and describe the     *)
(* tree a title is resumed on, an admitted save is archived, a branch      *)
(* starts from an archived save, and no history outgrows its bound.        *)
(***************************************************************************)
EXTENDS ManagedProfileProofs, FiniteSetTheorems

-----------------------------------------------------------------------------
(* Who writes where.                                                        *)

\* A step of one launcher, its failure and death included.
Acts(l) == Launcher(l) \/ Fail(l) \/ Crash(l) \/ Restart(l)
WorkSteps == Busy \ CreateSteps

LEMMA NextIsAct ==
  Next => \/ \E m \in Launchers : Acts(m)
          \/ \E g \in Profiles \X Ids : JobKill(g) \/ GameExit(g) \/ GameWrite(g)
BY DEF Next, Environment, Acts

\* Only the spawn of a launch starts a title.
LEMMA TitlesStart ==
  ASSUME NEW m \in Launchers, Acts(m), NEW g \in alive', g \notin alive
  PROVE  pc[m] = "s_spawn" /\ g = <<prof[m], sid[m]>>
<1> USE DEF disk
<1>1. CASE Start(m)
  BY <1>1 DEF Start, StartLock, Lock, StartAdmit, StartRefuse, StartNewDirectory, StartPrepared,
     WriteState, StartCopy, ReadTree, StartReceipt, StartLaunching, StartSpawn, StartRunning
<1>2. CASE Poll(m)
  BY <1>2 DEF Poll, PollCopy, ReadTree, PollReceipt, PollComplete, PollFail
<1>3. CASE RenameName(m)
  BY <1>3 DEF RenameName, RenameLock, Lock, RenameAdmit, RenameReturn, RenameNewDirectory, RenameCopy,
     ReadTree, RenameReceipt, RenamePending, RenameWrite, RenameCopyAfter, RenameReceiptAfter,
     RenameComplete
<1>4. CASE Branch(m)
  BY <1>4 DEF Branch, BranchLock, Lock, DuplicateBegin, RestoreBegin, CreateChild, BranchRefuse,
     DuplicateMarker, RestoreMarker, ImportMarker, DuplicateCopy, ReadTree, DuplicateFill, RestoreFill,
     Fill, BranchPublish
<1>5. CASE CreateProfile(m)
  BY <1>5 DEF CreateProfile, CreateBegin, CreateChild, CreatePublish
<1>6. CASE Fail(m) \/ Crash(m) \/ Restart(m)
  BY <1>6 DEF Fail, Crash, Restart
<1> QED BY <1>1, <1>2, <1>3, <1>4, <1>5, <1>6 DEF Acts, Launcher

\* A step of a launcher leaves the registers of the others alone.
LEMMA OtherRegisters ==
  ASSUME TypeInv, NEW m \in Launchers, Acts(m), NEW l \in Launchers, l # m
  PROVE  /\ pc'[l] = pc[l] /\ prof'[l] = prof[l] /\ sid'[l] = sid[l]
         /\ snap'[l] = snap[l] /\ dest'[l] = dest[l]
<1> USE DEF TypeInv, TypeOK, Goto, Forget, Return
<1>1. CASE Start(m)
  BY <1>1 DEF Start, StartLock, Lock, StartAdmit, StartRefuse, StartNewDirectory, StartPrepared,
     WriteState, StartCopy, ReadTree, StartReceipt, StartLaunching, StartSpawn, StartRunning
<1>2. CASE Poll(m)
  BY <1>2 DEF Poll, PollCopy, ReadTree, PollReceipt, PollComplete, PollFail
<1>3. CASE RenameName(m)
  BY <1>3 DEF RenameName, RenameLock, Lock, RenameAdmit, RenameReturn, RenameNewDirectory, RenameCopy,
     ReadTree, RenameReceipt, RenamePending, RenameWrite, RenameCopyAfter, RenameReceiptAfter,
     RenameComplete
<1>4. CASE Branch(m)
  BY <1>4 DEF Branch, BranchLock, Lock, DuplicateBegin, RestoreBegin, CreateChild, BranchRefuse,
     DuplicateMarker, RestoreMarker, ImportMarker, DuplicateCopy, ReadTree, DuplicateFill, RestoreFill,
     Fill, BranchPublish
<1>5. CASE CreateProfile(m)
  BY <1>5 DEF CreateProfile, CreateBegin, CreateChild, CreatePublish
<1>6. CASE Fail(m) \/ Crash(m) \/ Restart(m)
  BY <1>6 DEF Fail, Crash, Restart
<1> QED BY <1>1, <1>2, <1>3, <1>4, <1>5, <1>6 DEF Acts, Launcher

\* It writes only into the profile it works on and into the child it makes; a
\* child is made where there was no profile.
LEMMA Footprint ==
  ASSUME TypeInv, NEW m \in Launchers, Acts(m), NEW p \in Profiles,
         pc[m] \in WorkSteps => p # prof[m], pc[m] \in ChildSteps => p # dest[m]
  PROVE  /\ user'[p] = user[p] /\ sess'[p] = sess[p] /\ arch'[p] = arch[p]
         /\ pending'[p] = pending[p] /\ origin'[p] = origin[p]
         /\ marker[p] # "absent" => marker'[p] = marker[p]
<1> USE DEF TypeInv, TypeOK, Registers, WorkSteps, Busy, StartSteps, PollSteps, RenameSteps, BranchSteps,
   CreateSteps, ChildSteps, disk
<1>1. CASE Start(m)
  BY <1>1 DEF Start, StartLock, Lock, StartAdmit, StartRefuse, StartNewDirectory, StartPrepared,
     WriteState, StartCopy, ReadTree, StartReceipt, StartLaunching, StartSpawn, StartRunning
<1>2. CASE Poll(m)
  BY <1>2 DEF Poll, PollCopy, ReadTree, PollReceipt, PollComplete, PollFail
<1>3. CASE RenameName(m)
  BY <1>3 DEF RenameName, RenameLock, Lock, RenameAdmit, RenameReturn, RenameNewDirectory, RenameCopy,
     ReadTree, RenameReceipt, RenamePending, RenameWrite, RenameCopyAfter, RenameReceiptAfter,
     RenameComplete
<1>4. CASE Branch(m)
  BY <1>4 DEF Branch, BranchLock, Lock, DuplicateBegin, RestoreBegin, CreateChild, BranchRefuse,
     DuplicateMarker, RestoreMarker, ImportMarker, DuplicateCopy, ReadTree, DuplicateFill, RestoreFill,
     Fill, BranchPublish
<1>5. CASE CreateProfile(m)
  BY <1>5 DEF CreateProfile, CreateBegin, CreateChild, CreatePublish
<1>6. CASE Fail(m) \/ Crash(m) \/ Restart(m)
  BY <1>6 DEF Fail, Crash, Restart
<1> QED BY <1>1, <1>2, <1>3, <1>4, <1>5, <1>6 DEF Acts, Launcher

\* While an operation works on a profile, or makes a child, nobody else writes
\* into it.
LEMMA OthersKeepOut ==
  ASSUME ExclInv, NEW m \in Launchers, Acts(m), NEW l \in Launchers, l # m, NEW p \in Profiles,
         \/ pc[l] \in WorkSteps /\ p = prof[l]
         \/ pc[l] \in ChildSteps /\ p = dest[l]
  PROVE  /\ user'[p] = user[p] /\ sess'[p] = sess[p] /\ arch'[p] = arch[p]
         /\ pending'[p] = pending[p] /\ origin'[p] = origin[p] /\ marker'[p] = marker[p]
<1>1. TypeInv /\ Locks /\ Children
  BY DEF ExclInv, Exclusive
<1>2. lock[p] = l /\ marker[p] # "absent"
  BY <1>1 DEF Locks, Children, WorkSteps
<1>3. pc[m] \in WorkSteps => p # prof[m]
  BY <1>1, <1>2 DEF Locks, WorkSteps
<1>4. pc[m] \in ChildSteps => p # dest[m]
  BY <1>1, <1>2 DEF Children
<1> QED BY <1>1, <1>2, <1>3, <1>4, Footprint

-----------------------------------------------------------------------------
(* Receipts: which snapshot receipts exist at which step, and which of them *)
(* describe the live tree.  ReceiptsHold looks at one step; what makes it   *)
(* true is that the session of a launch is new, so its receipts are still   *)
(* missing, and that nobody else touches the tree or the session.           *)

\* A directory that does not exist holds no receipt.
AbsentIsEmpty ==
  \A p \in Profiles : \A i \in Ids :
    /\ sess[p][i].state = "absent" => sess[p][i].before = None /\ sess[p][i].after = None
    /\ arch[p][i].state = "absent" => arch[p][i].before = None /\ arch[p][i].after = None

SessionReceipts(l) ==
  /\ pc[l] \in SessionSteps => sess[prof[l]][sid[l]].state # "absent"
  /\ pc[l] \in {"s_prepared", "s_copy", "s_receipt"} => sess[prof[l]][sid[l]].before = None
  /\ pc[l] \in {"s_launching", "s_spawn"} => sess[prof[l]][sid[l]].before = user[prof[l]]
  /\ pc[l] \in SessionSteps \ {"p_complete"} => sess[prof[l]][sid[l]].after = None
  /\ pc[l] = "p_complete" => sess[prof[l]][sid[l]].after = user[prof[l]]

ArchiveReceipts(l) ==
  /\ pc[l] \in ArchiveSteps => arch[prof[l]][sid[l]].state # "absent"
  /\ pc[l] \in {"r_copy", "r_receipt"} => arch[prof[l]][sid[l]].before = None
  /\ pc[l] \in ArchiveSteps \ {"r_complete"} => arch[prof[l]][sid[l]].after = None
  /\ pc[l] = "r_complete" => arch[prof[l]][sid[l]].after = user[prof[l]]

Receipts == AbsentIsEmpty /\ \A l \in Launchers : SessionReceipts(l) /\ ArchiveReceipts(l)
ReceiptInv == ExclInv /\ Receipts

LEMMA InitReceipts == Init => Receipts
BY DEF Init, Receipts, AbsentIsEmpty, SessionReceipts, ArchiveReceipts, NoSession, SessionSteps, ArchiveSteps

\* A step of the launcher itself.
LEMMA OwnSessionReceipts ==
  ASSUME ReceiptInv, NEW l \in Launchers, Acts(l)
  PROVE  SessionReceipts(l)'
<1>1. TypeInv /\ SessionReceipts(l) /\ AbsentIsEmpty
  BY DEF ReceiptInv, ExclInv, Receipts
<1> USE <1>1 DEF TypeInv, TypeOK, Registers, SessionReceipts, SessionSteps, ArchiveSteps, WorkSteps, Busy,
    StartSteps, PollSteps, RenameSteps, BranchSteps, CreateSteps, disk, Goto, Return, Forget, Record,
    MaybeContent
<1>2. CASE Start(l)
  <2>1. CASE (\E p \in Profiles : StartLock(l, p)) \/ StartAdmit(l) \/ StartRefuse(l)
    BY <2>1 DEF StartLock, Lock, StartAdmit, StartRefuse
  <2>2. CASE StartNewDirectory(l)
    BY <2>2 DEF StartNewDirectory, NewSession
  <2>3. CASE StartPrepared(l)
    BY <2>3 DEF StartPrepared, WriteState, WithState
  <2>4. CASE StartCopy(l)
    BY <2>4 DEF StartCopy, ReadTree
  <2>5. CASE StartReceipt(l)
    BY <2>5 DEF StartReceipt, CopyVerified, WithBefore
  <2>6. CASE StartLaunching(l)
    BY <2>6 DEF StartLaunching, WriteState, WithState
  <2>7. CASE StartSpawn(l)
    BY <2>7 DEF StartSpawn
  <2>8. CASE StartRunning(l)
    BY <2>8 DEF StartRunning, WithState
  <2> QED BY <1>2, <2>1, <2>2, <2>3, <2>4, <2>5, <2>6, <2>7, <2>8 DEF Start
<1>3. CASE Poll(l)
  <2>1. CASE PollCopy(l)
    BY <2>1 DEF PollCopy, ReadTree
  <2>2. CASE PollReceipt(l)
    BY <2>2 DEF PollReceipt, CopyVerified, WithAfter
  <2>3. CASE PollComplete(l) \/ PollFail(l)
    BY <2>3 DEF PollComplete, PollFail
  <2> QED BY <1>3, <2>1, <2>2, <2>3 DEF Poll
<1>4. CASE RenameName(l)
  BY <1>4 DEF RenameName, RenameLock, Lock, RenameAdmit, RenameReturn, RenameNewDirectory, RenameCopy,
     ReadTree, RenameReceipt, RenamePending, RenameWrite, RenameCopyAfter, RenameReceiptAfter,
     RenameComplete
<1>5. CASE Branch(l)
  BY <1>5 DEF Branch, BranchLock, Lock, DuplicateBegin, RestoreBegin, CreateChild, BranchRefuse,
     DuplicateMarker, RestoreMarker, ImportMarker, DuplicateCopy, ReadTree, DuplicateFill, RestoreFill,
     Fill, BranchPublish
<1>6. CASE CreateProfile(l)
  BY <1>6 DEF CreateProfile, CreateBegin, CreateChild, CreatePublish
<1>7. CASE Fail(l) \/ Crash(l) \/ Restart(l)
  BY <1>7 DEF Fail, Crash, Restart
<1> QED BY <1>2, <1>3, <1>4, <1>5, <1>6, <1>7 DEF Acts, Launcher

LEMMA OwnArchiveReceipts ==
  ASSUME ReceiptInv, NEW l \in Launchers, Acts(l)
  PROVE  ArchiveReceipts(l)'
<1>1. TypeInv /\ ArchiveReceipts(l) /\ AbsentIsEmpty
  BY DEF ReceiptInv, ExclInv, Receipts
<1> USE <1>1 DEF TypeInv, TypeOK, Registers, ArchiveReceipts, ArchiveSteps, WorkSteps, Busy,
    StartSteps, PollSteps, RenameSteps, BranchSteps, CreateSteps, disk, Goto, Return, Forget, Record,
    MaybeContent
<1>2. CASE Start(l)
  BY <1>2 DEF Start, StartLock, Lock, StartAdmit, StartRefuse, StartNewDirectory, StartPrepared,
     WriteState, StartCopy, ReadTree, StartReceipt, StartLaunching, StartSpawn, StartRunning
<1>3. CASE Poll(l)
  BY <1>3 DEF Poll, PollCopy, ReadTree, PollReceipt, PollComplete, PollFail
<1>4. CASE RenameName(l)
  <2>1. CASE (\E p \in Profiles : RenameLock(l, p)) \/ RenameAdmit(l) \/ RenameReturn(l)
    BY <2>1 DEF RenameLock, Lock, RenameAdmit, RenameReturn
  <2>2. CASE RenameNewDirectory(l)
    BY <2>2 DEF RenameNewDirectory, NewArchive
  <2>3. CASE RenameCopy(l) \/ RenameCopyAfter(l)
    BY <2>3 DEF RenameCopy, RenameCopyAfter, ReadTree
  <2>4. CASE RenameReceipt(l)
    BY <2>4 DEF RenameReceipt, WithBefore
  <2>5. CASE RenamePending(l)
    BY <2>5 DEF RenamePending
  <2>6. CASE RenameWrite(l)
    BY <2>6 DEF RenameWrite
  <2>7. CASE RenameReceiptAfter(l)
    BY <2>7 DEF RenameReceiptAfter, CopyVerified, WithAfter
  <2>8. CASE RenameComplete(l)
    BY <2>8 DEF RenameComplete
  <2> QED BY <1>4, <2>1, <2>2, <2>3, <2>4, <2>5, <2>6, <2>7, <2>8 DEF RenameName
<1>5. CASE Branch(l)
  BY <1>5 DEF Branch, BranchLock, Lock, DuplicateBegin, RestoreBegin, CreateChild, BranchRefuse,
     DuplicateMarker, RestoreMarker, ImportMarker, DuplicateCopy, ReadTree, DuplicateFill, RestoreFill,
     Fill, BranchPublish
<1>6. CASE CreateProfile(l)
  BY <1>6 DEF CreateProfile, CreateBegin, CreateChild, CreatePublish
<1>7. CASE Fail(l) \/ Crash(l) \/ Restart(l)
  BY <1>7 DEF Fail, Crash, Restart
<1> QED BY <1>2, <1>3, <1>4, <1>5, <1>6, <1>7 DEF Acts, Launcher

\* How a record changes in a step: it appears empty, or keeps every receipt it has.
Extends(r, old) ==
  \/ old.state = "absent" /\ r.before = None /\ r.after = None /\ r.state # "absent"
  \/ /\ r.state = "absent" => r = old
     /\ old.before # None => r.before = old.before
     /\ old.after # None => r.after = old.after

LEMMA RecordsExtend ==
  ASSUME ReceiptInv, NEW m \in Launchers, Acts(m), NEW p \in Profiles, NEW i \in Ids
  PROVE  Extends(sess'[p][i], sess[p][i]) /\ Extends(arch'[p][i], arch[p][i])
<1>1. TypeInv /\ SessionReceipts(m) /\ ArchiveReceipts(m)
  BY DEF ReceiptInv, ExclInv, Receipts
<1> USE <1>1 DEF TypeInv, TypeOK, Registers, SessionReceipts, ArchiveReceipts, SessionSteps, ArchiveSteps, WorkSteps, Busy,
    StartSteps, PollSteps, RenameSteps, BranchSteps, CreateSteps, disk, Record, SessionStates, Extends
<1>2. CASE Start(m)
  <2>1. CASE (\E q \in Profiles : StartLock(m, q)) \/ StartAdmit(m) \/ StartRefuse(m) \/ StartCopy(m) \/ StartSpawn(m)
    BY <2>1 DEF StartLock, Lock, StartAdmit, StartRefuse, StartCopy, ReadTree, StartSpawn
  <2>2. CASE StartNewDirectory(m)
    BY <2>2 DEF StartNewDirectory, NewSession, SessionsOf
  <2>3. CASE StartPrepared(m)
    <3>1. sess'[p][i] = IF p = prof[m] /\ i = sid[m] THEN WithState(sess[p][i], "prepared") ELSE sess[p][i]
      BY <2>3 DEF StartPrepared, WriteState
    <3>2. UNCHANGED arch
      BY <2>3 DEF StartPrepared, WriteState
    <3> QED BY <2>3, <3>1, <3>2 DEF StartPrepared, WriteState, WithState
  <2>4. CASE StartLaunching(m)
    <3>1. sess'[p][i] = IF p = prof[m] /\ i = sid[m] THEN WithState(sess[p][i], "launching") ELSE sess[p][i]
      BY <2>4 DEF StartLaunching, WriteState
    <3>2. UNCHANGED arch
      BY <2>4 DEF StartLaunching, WriteState
    <3> QED BY <2>4, <3>1, <3>2 DEF StartLaunching, WriteState, WithState
  <2>5. CASE StartReceipt(m)
    <3>1. sess'[p][i] = IF p = prof[m] /\ i = sid[m] THEN WithBefore(sess[p][i], snap[m]) ELSE sess[p][i]
      BY <2>5 DEF StartReceipt
    <3>2. UNCHANGED arch
      BY <2>5 DEF StartReceipt
    <3> QED BY <2>5, <3>1, <3>2 DEF StartReceipt, WithBefore
  <2>6. CASE StartRunning(m)
    <3>1. UNCHANGED arch
      BY <2>6 DEF StartRunning
    <3>2. CASE UNCHANGED sess
      BY <3>1, <3>2
    <3>3. CASE sess' = [sess EXCEPT ![prof[m]][sid[m]] = WithState(@, "running")]
      <4>1. sess'[p][i] = IF p = prof[m] /\ i = sid[m] THEN WithState(sess[p][i], "running") ELSE sess[p][i]
        BY <2>6, <3>3 DEF StartRunning
      <4> QED BY <3>1, <4>1 DEF WithState
    <3> QED BY <2>6, <3>2, <3>3 DEF StartRunning
  <2> QED BY <1>2, <2>1, <2>2, <2>3, <2>5, <2>6, <2>4 DEF Start
<1>3. CASE Poll(m)
  <2>1. CASE PollCopy(m) \/ PollFail(m)
    BY <2>1 DEF PollCopy, ReadTree, PollFail
  <2>2. CASE PollReceipt(m)
    <3>1. sess'[p][i] = IF p = prof[m] /\ i = sid[m] THEN WithAfter(sess[p][i], snap[m]) ELSE sess[p][i]
      BY <2>2 DEF PollReceipt
    <3>2. UNCHANGED arch
      BY <2>2 DEF PollReceipt
    <3> QED BY <2>2, <3>1, <3>2 DEF PollReceipt, WithAfter
  <2>3. CASE PollComplete(m)
    BY <2>3 DEF PollComplete, WithState
  <2> QED BY <1>3, <2>1, <2>2, <2>3 DEF Poll
<1>4. CASE RenameName(m)
  <2>1. CASE \/ \E q \in Profiles : RenameLock(m, q)
             \/ RenameAdmit(m) \/ RenameReturn(m) \/ RenameCopy(m) \/ RenameCopyAfter(m)
    BY <2>1 DEF RenameLock, Lock, RenameAdmit, RenameReturn, RenameCopy, RenameCopyAfter, ReadTree
  <2>2. CASE RenameNewDirectory(m)
    BY <2>2 DEF RenameNewDirectory, NewArchive, ArchivesOf
  <2>3. CASE RenameReceipt(m)
    <3>1. arch'[p][i] = IF p = prof[m] /\ i = sid[m] THEN WithBefore(arch[p][i], snap[m]) ELSE arch[p][i]
      BY <2>3 DEF RenameReceipt
    <3>2. UNCHANGED sess
      BY <2>3 DEF RenameReceipt
    <3> QED BY <2>3, <3>1, <3>2 DEF RenameReceipt, WithBefore
  <2>4. CASE RenamePending(m) \/ RenameWrite(m)
    BY <2>4 DEF RenamePending, RenameWrite
  <2>5. CASE RenameReceiptAfter(m)
    <3>1. arch'[p][i] = IF p = prof[m] /\ i = sid[m] THEN WithAfter(arch[p][i], snap[m]) ELSE arch[p][i]
      BY <2>5 DEF RenameReceiptAfter
    <3>2. UNCHANGED sess
      BY <2>5 DEF RenameReceiptAfter
    <3> QED BY <2>5, <3>1, <3>2 DEF RenameReceiptAfter, WithAfter
  <2>6. CASE RenameComplete(m)
    BY <2>6 DEF RenameComplete, WithState
  <2> QED BY <1>4, <2>1, <2>2, <2>3, <2>4, <2>5, <2>6 DEF RenameName
<1>5. CASE Branch(m)
  BY <1>5 DEF Branch, BranchLock, Lock, DuplicateBegin, RestoreBegin, CreateChild, BranchRefuse,
     DuplicateMarker, RestoreMarker, ImportMarker, DuplicateCopy, ReadTree, DuplicateFill, RestoreFill,
     Fill, BranchPublish
<1>6. CASE CreateProfile(m)
  BY <1>6 DEF CreateProfile, CreateBegin, CreateChild, CreatePublish
<1>7. CASE Fail(m) \/ Crash(m) \/ Restart(m)
  BY <1>7 DEF Fail, Crash, Restart
<1> QED BY <1>2, <1>3, <1>4, <1>5, <1>6, <1>7 DEF Acts, Launcher

\* Every step keeps the receipts in order: a launcher's own step, the step of
\* another one, which keeps out, and a title's write, which does not happen on
\* a tree that an operation relies on.
LEMMA NextReceipts == ReceiptInv /\ [Next]_vars => ReceiptInv'
<1> SUFFICES ASSUME ReceiptInv, [Next]_vars  PROVE ReceiptInv'
  OBVIOUS
<1>1. ExclInv /\ ExclInv' /\ TypeInv /\ TypeInv' /\ Receipts
  BY NextExclusive DEF ReceiptInv, ExclInv
<1>2. ASSUME NEW m \in Launchers, Acts(m)  PROVE Receipts'
  <2>1. AbsentIsEmpty'
    <3> SUFFICES ASSUME NEW p \in Profiles, NEW i \in Ids
                 PROVE  /\ sess'[p][i].state = "absent" => sess'[p][i].before = None /\ sess'[p][i].after = None
                        /\ arch'[p][i].state = "absent" => arch'[p][i].before = None /\ arch'[p][i].after = None
      BY DEF AbsentIsEmpty
    <3>1. Extends(sess'[p][i], sess[p][i]) /\ Extends(arch'[p][i], arch[p][i])
      BY <1>2, RecordsExtend
    <3> QED BY <1>1, <3>1 DEF Receipts, AbsentIsEmpty, Extends
  <2>2. ASSUME NEW l \in Launchers  PROVE SessionReceipts(l)' /\ ArchiveReceipts(l)'
    <3>1. CASE l = m
      BY <1>2, <3>1, OwnSessionReceipts, OwnArchiveReceipts
    <3>2. CASE l # m
      <4>1. pc'[l] = pc[l] /\ prof'[l] = prof[l] /\ sid'[l] = sid[l]
        BY <1>1, <1>2, <3>2, OtherRegisters
      <4>2. SessionReceipts(l) /\ ArchiveReceipts(l)
        BY <1>1 DEF Receipts
      <4>3. CASE pc[l] \in WorkSteps
        <5>1. prof[l] \in Profiles
          BY <1>1, <4>3 DEF TypeInv, Registers, WorkSteps
        <5>2. /\ user'[prof[l]] = user[prof[l]] /\ sess'[prof[l]] = sess[prof[l]]
              /\ arch'[prof[l]] = arch[prof[l]]
          BY <1>1, <1>2, <3>2, <4>3, <5>1, OthersKeepOut
        <5> QED BY <4>1, <4>2, <5>2 DEF SessionReceipts, ArchiveReceipts
      <4>4. CASE pc[l] \notin WorkSteps
        BY <4>1, <4>4 DEF SessionReceipts, ArchiveReceipts, WorkSteps, Busy, StartSteps, PollSteps,
           RenameSteps, BranchSteps, CreateSteps, SessionSteps, ArchiveSteps
      <4> QED BY <4>3, <4>4
    <3> QED BY <3>1, <3>2
  <2> QED BY <2>1, <2>2 DEF Receipts
<1>3. ASSUME NEW g \in Profiles \X Ids, JobKill(g) \/ GameExit(g)  PROVE Receipts'
  <2>1. UNCHANGED <<user, sess, arch, pc, prof, sid>>
    BY <1>3 DEF JobKill, GameExit, disk
  <2> QED BY <1>1, <2>1 DEF Receipts, AbsentIsEmpty, SessionReceipts, ArchiveReceipts
<1>4. ASSUME NEW g \in Profiles \X Ids, GameWrite(g)  PROVE Receipts'
  <2>1. /\ g \in alive /\ user' = [user EXCEPT ![g[1]] = ver + 1]
        /\ UNCHANGED <<sess, arch, pc, prof, sid>>
    BY <1>4 DEF GameWrite
  <2>2. PICK q \in Profiles, i \in Ids : g = <<q, i>>
    OBVIOUS
  <2>3. ASSUME NEW l \in Launchers, pc[l] \in TreeSteps  PROVE user'[prof[l]] = user[prof[l]]
    <3>1. prof[l] # q
      BY <1>1, <2>1, <2>2, <2>3, ExclusiveImplies DEF LiveTreeExclusive
    <3>2. prof[l] \in Profiles
      BY <1>1, <2>3 DEF TypeInv, Registers, TreeSteps, Busy, StartSteps, PollSteps, RenameSteps,
         BranchSteps, CreateSteps
    <3> QED BY <1>1, <2>1, <2>2, <3>1, <3>2 DEF TypeInv, TypeOK
  <2>4. ASSUME NEW l \in Launchers  PROVE SessionReceipts(l)' /\ ArchiveReceipts(l)'
    <3>1. SessionReceipts(l) /\ ArchiveReceipts(l)
      BY <1>1 DEF Receipts
    <3> QED BY <2>1, <2>3, <3>1 DEF SessionReceipts, ArchiveReceipts, TreeSteps, SessionSteps, ArchiveSteps
  <2>5. AbsentIsEmpty'
    BY <1>1, <2>1 DEF Receipts, AbsentIsEmpty
  <2> QED BY <2>4, <2>5 DEF Receipts
<1>5. ASSUME UNCHANGED vars  PROVE Receipts'
  <2>1. UNCHANGED <<user, sess, arch, pc, prof, sid>>
    BY <1>5 DEF vars
  <2> QED BY <1>1, <2>1 DEF Receipts, AbsentIsEmpty, SessionReceipts, ArchiveReceipts
<1>6. Receipts'
  BY <1>2, <1>3, <1>4, <1>5, NextIsAct
<1> QED BY <1>1, <1>6 DEF ReceiptInv

LEMMA InitReceiptInv == Init => ReceiptInv
BY InitType, InitExclusive, InitReceipts DEF ReceiptInv, ExclInv

\* Whoever fails, dies or restarts: a title is resumed only on the tree its before
\* receipt describes, and no receipt is ever replaced or lost.
THEOREM ReceiptsAreKept == Spec => ReceiptsHold
<1> DEFINE Kept(p, i) ==
       /\ <<p, i>> \in alive' \ alive => sess[p][i].before = user[p]
       /\ sess[p][i].before # None => sess'[p][i].before = sess[p][i].before
       /\ sess[p][i].after # None => sess'[p][i].after = sess[p][i].after
       /\ arch[p][i].before # None => arch'[p][i].before = arch[p][i].before
       /\ arch[p][i].after # None => arch'[p][i].after = arch[p][i].after
<1>1. ASSUME ReceiptInv, [Next]_vars  PROVE [\A p \in Profiles : \A i \in Ids : Kept(p, i)]_vars
  <2> SUFFICES ASSUME NEW p \in Profiles, NEW i \in Ids, Next  PROVE Kept(p, i)
    BY <1>1
  <2>1. ASSUME NEW m \in Launchers, Acts(m)  PROVE Kept(p, i)
    <3>1. Extends(sess'[p][i], sess[p][i]) /\ Extends(arch'[p][i], arch[p][i]) /\ AbsentIsEmpty
      BY <1>1, <2>1, RecordsExtend DEF ReceiptInv, Receipts
    <3>2. /\ sess[p][i].before # None => sess'[p][i].before = sess[p][i].before
          /\ sess[p][i].after # None => sess'[p][i].after = sess[p][i].after
          /\ arch[p][i].before # None => arch'[p][i].before = arch[p][i].before
          /\ arch[p][i].after # None => arch'[p][i].after = arch[p][i].after
      BY <3>1 DEF Extends, AbsentIsEmpty
    <3>3. ASSUME <<p, i>> \in alive' \ alive  PROVE sess[p][i].before = user[p]
      <4>1. <<p, i>> = <<prof[m], sid[m]>> /\ pc[m] = "s_spawn"
        BY <2>1, <3>3, TitlesStart
      <4> QED BY <1>1, <4>1 DEF ReceiptInv, Receipts, SessionReceipts
    <3> QED BY <3>2, <3>3
  <2>2. ASSUME NEW g \in Profiles \X Ids, JobKill(g) \/ GameExit(g) \/ GameWrite(g)  PROVE Kept(p, i)
    BY <2>2 DEF JobKill, GameExit, GameWrite, disk
  <2> QED BY <2>1, <2>2, NextIsAct
<1> QED BY <1>1, InitReceiptInv, NextReceipts, PTL DEF Spec, ReceiptsHold

-----------------------------------------------------------------------------
(* The save a launch or a duplicate would adopt.                            *)
(*                                                                          *)
(* Admission only looks at markers and states.  The invariant says what a   *)
(* closed history without a pending operation stands for, also while some   *)
(* launcher holds the lock: the live save is archived.                      *)

\* A rename announces itself before it writes; a duplicate found none under way.
PendingMatches(l) ==
  /\ pc[l] \in {"r_write", "r_copy2", "r_receipt2", "r_complete"} => pending[prof[l]]
  /\ pc[l] \in {"b_marker", "b_copy", "b_fill"} => ~pending[prof[l]]

Settled(p) == ~pending[p] /\ \A i \in Ids : sess[p][i].state \in {"absent", "complete"}
Archived(p) == \/ user[p] = origin[p]
               \/ \E i \in Ids : user[p] \in {sess[p][i].after, arch[p][i].after}

Saves == /\ \A l \in Launchers : PendingMatches(l)
         /\ \A p \in Profiles : marker[p] = "managed" /\ Settled(p) => Archived(p)
SaveInv == ReceiptInv /\ Saves

LEMMA InitSaves == Init => Saves
<1> SUFFICES ASSUME Init  PROVE Saves
  OBVIOUS
<1>1. \A l \in Launchers : PendingMatches(l)
  BY DEF Init, PendingMatches
<1>2. \A p \in Profiles : marker[p] = "managed" => Archived(p)
  BY DEF Init, Archived
<1> QED BY <1>1, <1>2 DEF Saves

LEMMA OwnPending ==
  ASSUME SaveInv, NEW l \in Launchers, Acts(l)
  PROVE  PendingMatches(l)'
<1>1. TypeInv /\ PendingMatches(l)
  BY DEF SaveInv, ReceiptInv, ExclInv, Saves
<1> USE <1>1 DEF TypeInv, TypeOK, Registers, PendingMatches, WorkSteps, Busy,
    StartSteps, PollSteps, RenameSteps, BranchSteps, CreateSteps, disk, Goto, Return, Forget
<1>2. CASE Start(l)
  BY <1>2 DEF Start, StartLock, Lock, StartAdmit, StartRefuse, StartNewDirectory, StartPrepared,
     WriteState, StartCopy, ReadTree, StartReceipt, StartLaunching, StartSpawn, StartRunning
<1>3. CASE Poll(l)
  BY <1>3 DEF Poll, PollCopy, ReadTree, PollReceipt, PollComplete, PollFail
<1>4. CASE RenameName(l)
  BY <1>4 DEF RenameName, RenameLock, Lock, RenameAdmit, RenameReturn, RenameNewDirectory, RenameCopy,
     ReadTree, RenameReceipt, RenamePending, RenameWrite, RenameCopyAfter, RenameReceiptAfter,
     RenameComplete
<1>5. CASE Branch(l)
  BY <1>5 DEF Branch, BranchLock, Lock, DuplicateBegin, DuplicateAdmits, RestoreBegin, CreateChild,
     BranchRefuse, DuplicateMarker, RestoreMarker, ImportMarker, DuplicateCopy, ReadTree, DuplicateFill,
     RestoreFill, Fill, BranchPublish
<1>6. CASE CreateProfile(l)
  BY <1>6 DEF CreateProfile, CreateBegin, CreateChild, CreatePublish
<1>7. CASE Fail(l) \/ Crash(l) \/ Restart(l)
  BY <1>7 DEF Fail, Crash, Restart
<1> QED BY <1>2, <1>3, <1>4, <1>5, <1>6, <1>7 DEF Acts, Launcher

\* A profile becomes managed only when it is published, with the tree it has.
LEMMA Published ==
  ASSUME TypeInv, NEW m \in Launchers, Acts(m), NEW p \in Profiles,
         marker'[p] = "managed", marker[p] # "managed"
  PROVE  /\ pc[m] \in {"c_publish", "b_publish"} /\ p = dest[m]
         /\ user'[p] = user[p] /\ origin'[p] = user[p]
<1> USE DEF TypeInv, TypeOK, Registers, ChildSteps, disk
<1>1. CASE Start(m)
  BY <1>1 DEF Start, StartLock, Lock, StartAdmit, StartRefuse, StartNewDirectory, StartPrepared,
     WriteState, StartCopy, ReadTree, StartReceipt, StartLaunching, StartSpawn, StartRunning
<1>2. CASE Poll(m)
  BY <1>2 DEF Poll, PollCopy, ReadTree, PollReceipt, PollComplete, PollFail
<1>3. CASE RenameName(m)
  BY <1>3 DEF RenameName, RenameLock, Lock, RenameAdmit, RenameReturn, RenameNewDirectory, RenameCopy,
     ReadTree, RenameReceipt, RenamePending, RenameWrite, RenameCopyAfter, RenameReceiptAfter,
     RenameComplete
<1>4. CASE Branch(m)
  BY <1>4 DEF Branch, BranchLock, Lock, DuplicateBegin, RestoreBegin, CreateChild, BranchRefuse,
     DuplicateMarker, RestoreMarker, ImportMarker, DuplicateCopy, ReadTree, DuplicateFill, RestoreFill,
     Fill, BranchPublish
<1>5. CASE CreateProfile(m)
  BY <1>5 DEF CreateProfile, CreateBegin, CreateChild, CreatePublish
<1>6. CASE Fail(m) \/ Crash(m) \/ Restart(m)
  BY <1>6 DEF Fail, Crash, Restart
<1> QED BY <1>1, <1>2, <1>3, <1>4, <1>5, <1>6 DEF Acts, Launcher

\* A launcher's step on its own profile that leaves it settled either wrote the
\* receipt of the tree or found it settled and left tree and origin alone.
LEMMA OwnSettled ==
  ASSUME SaveInv, NEW m \in Launchers, Acts(m), NEW p \in Profiles, pc[m] \in WorkSteps, p = prof[m],
         Settled(p)'
  PROVE  \/ Archived(p)'
         \/ Settled(p) /\ user'[p] = user[p] /\ origin'[p] = origin[p]
<1>1. TypeInv /\ SessionReceipts(m) /\ ArchiveReceipts(m) /\ PendingMatches(m)
  BY DEF SaveInv, ReceiptInv, ExclInv, Receipts, Saves
<1>2. pc[m] \in ChildSteps => p # dest[m]
  BY DEF SaveInv, ReceiptInv, ExclInv, Exclusive, Locks, Children, WorkSteps
<1> DEFINE Quiet == UNCHANGED <<user, sess, pending, origin>>
<1>3. Quiet => Settled(p) /\ user'[p] = user[p] /\ origin'[p] = origin[p]
  BY DEF Settled
<1> USE DEF disk
<1>4. CASE Start(m)
  <2>1. CASE \/ \E q \in Profiles : StartLock(m, q)
             \/ StartAdmit(m) \/ StartRefuse(m) \/ StartCopy(m) \/ StartSpawn(m)
    BY <1>3, <2>1 DEF StartLock, Lock, StartAdmit, StartRefuse, StartCopy, ReadTree, StartSpawn
  <2>2. CASE StartNewDirectory(m)
    <3>1. PICK i \in Ids : sess' = [sess EXCEPT ![p][i] = NewSession]
      BY <2>2 DEF StartNewDirectory
    <3>2. sess'[p][i].state = "empty"
      BY <1>1, <3>1 DEF NewSession, TypeInv, TypeOK
    <3> QED BY <3>2 DEF Settled
  <2>3. CASE StartPrepared(m) \/ StartLaunching(m)
    <3>1. PICK v \in {"prepared", "launching"} : sess' = [sess EXCEPT ![p][sid[m]] = WithState(@, v)]
      BY <2>3 DEF StartPrepared, StartLaunching, WriteState
    <3>2. sid[m] \in Ids
      BY <1>1, <2>3 DEF TypeInv, Registers, SessionSteps, StartPrepared, StartLaunching, WriteState
    <3>3. sess'[p][sid[m]].state = v
      BY <1>1, <3>1, <3>2 DEF WithState, TypeInv, TypeOK
    <3> QED BY <3>1, <3>2, <3>3 DEF Settled
  <2>4. CASE StartReceipt(m)
    <3>1. /\ sess' = [sess EXCEPT ![p][sid[m]] = WithBefore(@, snap[m])]
          /\ UNCHANGED <<user, origin, pending>>
      BY <2>4 DEF StartReceipt
    <3>2. \A i \in Ids : sess'[p][i].state = sess[p][i].state
      BY <1>1, <3>1 DEF WithBefore, TypeInv, TypeOK
    <3> QED BY <3>1, <3>2 DEF Settled
  <2>5. CASE StartRunning(m)
    <3>1. CASE UNCHANGED sess
      BY <1>3, <2>5, <3>1 DEF StartRunning
    <3>2. CASE sess' = [sess EXCEPT ![prof[m]][sid[m]] = WithState(@, "running")]
      <4>1. sid[m] \in Ids
        BY <1>1, <2>5 DEF TypeInv, Registers, SessionSteps, StartRunning
      <4>2. sess'[p][sid[m]].state = "running"
        BY <1>1, <3>2, <4>1 DEF WithState, TypeInv, TypeOK
      <4> QED BY <4>1, <4>2 DEF Settled
    <3> QED BY <2>5, <3>1, <3>2 DEF StartRunning
  <2> QED BY <1>4, <2>1, <2>2, <2>3, <2>4, <2>5 DEF Start
<1>5. CASE Poll(m)
  <2>1. CASE PollCopy(m) \/ PollFail(m)
    BY <1>3, <2>1 DEF PollCopy, ReadTree, PollFail
  <2>2. CASE PollReceipt(m)
    <3>1. /\ sess' = [sess EXCEPT ![p][sid[m]] = WithAfter(@, user[p])] /\ UNCHANGED user
      BY <2>2 DEF PollReceipt, CopyVerified
    <3>2. sid[m] \in Ids
      BY <1>1, <2>2 DEF TypeInv, Registers, SessionSteps, PollReceipt
    <3>3. sess'[p][sid[m]].after = user'[p]
      BY <1>1, <3>1, <3>2 DEF WithAfter, TypeInv, TypeOK
    <3> QED BY <3>2, <3>3 DEF Archived
  <2>3. CASE PollComplete(m)
    <3>1. /\ sess' = [sess EXCEPT ![p][sid[m]] = WithState(@, "complete")] /\ UNCHANGED user
          /\ pc[m] = "p_complete"
      BY <2>3 DEF PollComplete
    <3>2. sid[m] \in Ids /\ sess[p][sid[m]].after = user[p]
      BY <1>1, <3>1 DEF TypeInv, Registers, SessionSteps, SessionReceipts
    <3>3. sess'[p][sid[m]].after = user'[p]
      BY <1>1, <3>1, <3>2 DEF WithState, TypeInv, TypeOK
    <3> QED BY <3>2, <3>3 DEF Archived
  <2> QED BY <1>5, <2>1, <2>2, <2>3 DEF Poll
<1>6. CASE RenameName(m)
  <2>1. CASE \/ \E q \in Profiles : RenameLock(m, q)
             \/ RenameAdmit(m) \/ RenameReturn(m) \/ RenameNewDirectory(m) \/ RenameCopy(m)
             \/ RenameCopyAfter(m) \/ RenameReceipt(m) \/ RenameReceiptAfter(m)
    BY <1>3, <2>1 DEF RenameLock, Lock, RenameAdmit, RenameReturn, RenameNewDirectory, RenameCopy,
       RenameCopyAfter, ReadTree, RenameReceipt, RenameReceiptAfter
  <2>2. CASE RenamePending(m)
    BY <1>1, <2>2 DEF RenamePending, TypeInv, TypeOK, Settled
  <2>3. CASE RenameWrite(m)
    BY <1>1, <2>3 DEF RenameWrite, PendingMatches, Settled
  <2>4. CASE RenameComplete(m)
    <3>1. /\ arch' = [arch EXCEPT ![p][sid[m]] = WithState(@, "complete")] /\ UNCHANGED user
          /\ pc[m] = "r_complete"
      BY <2>4 DEF RenameComplete
    <3>2. sid[m] \in Ids /\ arch[p][sid[m]].after = user[p]
      BY <1>1, <3>1 DEF TypeInv, Registers, ArchiveSteps, ArchiveReceipts
    <3>3. arch'[p][sid[m]].after = user'[p]
      BY <1>1, <3>1, <3>2 DEF WithState, TypeInv, TypeOK
    <3> QED BY <3>2, <3>3 DEF Archived
  <2> QED BY <1>6, <2>1, <2>2, <2>3, <2>4 DEF RenameName
<1>7. CASE Branch(m)
  <2>1. CASE \/ \E q \in Profiles : BranchLock(m, q) \/ DuplicateBegin(m, q) \/ RestoreBegin(m, q)
             \/ BranchRefuse(m) \/ DuplicateMarker(m) \/ RestoreMarker(m) \/ DuplicateCopy(m)
    BY <1>3, <2>1 DEF BranchLock, Lock, DuplicateBegin, RestoreBegin, CreateChild, BranchRefuse,
       DuplicateMarker, RestoreMarker, ImportMarker, DuplicateCopy, ReadTree
  <2>2. CASE DuplicateFill(m) \/ RestoreFill(m)
    BY <1>1, <1>2, <2>2 DEF DuplicateFill, RestoreFill, Fill, ChildSteps, TypeInv, TypeOK, Settled
  <2>3. CASE BranchPublish(m)
    BY <1>1, <1>2, <2>3 DEF BranchPublish, ChildSteps, TypeInv, TypeOK, Settled
  <2> QED BY <1>7, <2>1, <2>2, <2>3 DEF Branch
<1>8. CASE CreateProfile(m)
  BY <1>8 DEF CreateProfile, CreateBegin, CreateChild, CreatePublish, WorkSteps, Busy, StartSteps, PollSteps,
     RenameSteps, BranchSteps, CreateSteps
<1>9. CASE Fail(m) \/ Crash(m) \/ Restart(m)
  BY <1>3, <1>9 DEF Fail, Crash, Restart
<1> QED BY <1>4, <1>5, <1>6, <1>7, <1>8, <1>9 DEF Acts, Launcher

\* A receipt once written stays, so what is archived stays archived.
LEMMA StaysArchived ==
  ASSUME ReceiptInv, NEW m \in Launchers, Acts(m), NEW p \in Profiles, Archived(p),
         user'[p] = user[p], origin'[p] = origin[p]
  PROVE  Archived(p)'
<1>1. CASE user[p] = origin[p]
  BY <1>1 DEF Archived
<1>2. CASE \E i \in Ids : user[p] \in {sess[p][i].after, arch[p][i].after}
  <2>1. PICK i \in Ids : user[p] \in {sess[p][i].after, arch[p][i].after}
    BY <1>2
  <2>2. user[p] # None
    BY ProfileConstants DEF ReceiptInv, ExclInv, TypeInv, TypeOK, Content
  <2>3. Extends(sess'[p][i], sess[p][i]) /\ Extends(arch'[p][i], arch[p][i])
    BY RecordsExtend
  <2>4. AbsentIsEmpty
    BY DEF ReceiptInv, Receipts
  <2>5. user[p] \in {sess'[p][i].after, arch'[p][i].after}
    BY <2>1, <2>2, <2>3, <2>4 DEF Extends, AbsentIsEmpty
  <2> QED BY <2>5 DEF Archived
<1> QED BY <1>1, <1>2 DEF Archived

LEMMA NextSaves == SaveInv /\ [Next]_vars => SaveInv'
<1> SUFFICES ASSUME SaveInv, [Next]_vars  PROVE SaveInv'
  OBVIOUS
<1>1. ReceiptInv /\ ReceiptInv' /\ ExclInv /\ TypeInv /\ Saves
  BY NextReceipts DEF SaveInv, ReceiptInv, ExclInv
<1>2. ASSUME NEW m \in Launchers, Acts(m)  PROVE Saves'
  <2>1. ASSUME NEW l \in Launchers  PROVE PendingMatches(l)'
    <3>1. CASE l = m
      BY <1>2, <3>1, OwnPending
    <3>2. CASE l # m
      <4>1. pc'[l] = pc[l] /\ prof'[l] = prof[l]
        BY <1>1, <1>2, <3>2, OtherRegisters
      <4>2. PendingMatches(l)
        BY <1>1 DEF Saves
      <4>3. CASE pc[l] \in WorkSteps
        <5>1. prof[l] \in Profiles
          BY <1>1, <4>3 DEF TypeInv, Registers, WorkSteps
        <5>2. pending'[prof[l]] = pending[prof[l]]
          BY <1>1, <1>2, <3>2, <4>3, <5>1, OthersKeepOut
        <5> QED BY <4>1, <4>2, <5>2 DEF PendingMatches
      <4>4. CASE pc[l] \notin WorkSteps
        BY <4>1, <4>4 DEF PendingMatches, WorkSteps, Busy, StartSteps, PollSteps,
           RenameSteps, BranchSteps, CreateSteps
      <4> QED BY <4>3, <4>4
    <3> QED BY <3>1, <3>2
  <2>2. ASSUME NEW p \in Profiles, marker'[p] = "managed", Settled(p)'  PROVE Archived(p)'
    <3>1. CASE marker[p] # "managed"
      <4>1. user'[p] = origin'[p]
        BY <1>1, <1>2, <2>2, <3>1, Published
      <4> QED BY <4>1 DEF Archived
    <3>2. CASE marker[p] = "managed"
      <4>1. CASE pc[m] \in WorkSteps /\ p = prof[m]
        <5>1. CASE Settled(p) /\ user'[p] = user[p] /\ origin'[p] = origin[p]
          <6>1. Archived(p)
            BY <1>1, <3>2, <5>1 DEF Saves
          <6> QED BY <1>1, <1>2, <5>1, <6>1, StaysArchived
        <5> QED BY <1>2, <2>2, <4>1, <5>1, OwnSettled
      <4>2. CASE ~(pc[m] \in WorkSteps /\ p = prof[m])
        <5>1. pc[m] \in ChildSteps => p # dest[m]
          BY <1>1, <3>2 DEF ExclInv, Exclusive, Children
        <5>2. /\ user'[p] = user[p] /\ sess'[p] = sess[p]
              /\ pending'[p] = pending[p] /\ origin'[p] = origin[p]
          BY <1>1, <1>2, <4>2, <5>1, Footprint
        <5>3. Settled(p)
          BY <2>2, <5>2 DEF Settled
        <5>4. Archived(p)
          BY <1>1, <3>2, <5>3 DEF Saves
        <5> QED BY <1>1, <1>2, <5>2, <5>4, StaysArchived
      <4> QED BY <4>1, <4>2
    <3> QED BY <3>1, <3>2
  <2> QED BY <2>1, <2>2 DEF Saves
<1>3. ASSUME NEW g \in Profiles \X Ids, JobKill(g) \/ GameExit(g)  PROVE Saves'
  <2>1. UNCHANGED <<marker, origin, user, sess, arch, pending, pc, prof>>
    BY <1>3 DEF JobKill, GameExit, disk
  <2> QED BY <1>1, <2>1 DEF Saves, PendingMatches, Settled, Archived
<1>4. ASSUME NEW g \in Profiles \X Ids, GameWrite(g)  PROVE Saves'
  <2>1. /\ g \in alive /\ user' = [user EXCEPT ![g[1]] = ver + 1]
        /\ UNCHANGED <<marker, origin, sess, arch, pending, pc, prof>>
    BY <1>4 DEF GameWrite
  <2>2. PICK q \in Profiles, i \in Ids : g = <<q, i>>
    OBVIOUS
  <2>3. ~Settled(q)
    BY <1>1, <2>1, <2>2 DEF ExclInv, Exclusive, AliveIsRecorded, Open, Settled
  <2>4. \A p \in Profiles : p # q => user'[p] = user[p]
    BY <1>1, <2>1, <2>2 DEF TypeInv, TypeOK
  <2>5. \A l \in Launchers : PendingMatches(l)'
    BY <1>1, <2>1 DEF Saves, PendingMatches
  <2>6. \A p \in Profiles : Settled(p)' = Settled(p)
    BY <2>1 DEF Settled
  <2>7. ASSUME NEW p \in Profiles, marker'[p] = "managed", Settled(p)'  PROVE Archived(p)'
    <3>1. p # q /\ marker[p] = "managed" /\ Settled(p)
      BY <2>1, <2>3, <2>6, <2>7
    <3>2. Archived(p) /\ user'[p] = user[p]
      BY <1>1, <2>4, <3>1 DEF Saves
    <3> QED BY <2>1, <3>2 DEF Archived
  <2> QED BY <2>5, <2>7 DEF Saves
<1>5. ASSUME UNCHANGED vars  PROVE Saves'
  <2>1. UNCHANGED <<marker, origin, user, sess, arch, pending, pc, prof>>
    BY <1>5 DEF vars
  <2> QED BY <1>1, <2>1 DEF Saves, PendingMatches, Settled, Archived
<1>6. Saves'
  BY <1>2, <1>3, <1>4, <1>5, NextIsAct
<1> QED BY <1>1, <1>6 DEF SaveInv

LEMMA InitSaveInv == Init => SaveInv
BY InitReceiptInv, InitSaves DEF SaveInv

\* A save that a launch would adopt is accounted for by a receipt or by the
\* publication of the profile, for any number of launchers that failed or died.
THEOREM AdmittedSaveIsArchived == Spec => []SettledSaveIsArchived
<1>1. SaveInv => SettledSaveIsArchived
  <2> SUFFICES ASSUME SaveInv, NEW p \in Profiles, StartAdmits(p)  PROVE Archived(p)
    BY DEF SettledSaveIsArchived, Archived
  <2>1. marker[p] = "managed" /\ Settled(p)
    BY DEF StartAdmits, MarkerAdmits, HistoryAdmits, SessionsOf, Settled
  <2> QED BY <2>1 DEF SaveInv, Saves
<1> QED BY <1>1, InitSaveInv, NextSaves, PTL DEF Spec

-----------------------------------------------------------------------------
(* Where the save of a branch comes from.                                   *)
(*                                                                          *)
(* The origin is written when a child is published, several steps after the *)
(* tree was read: what was read must still be one of the parent's saves.    *)

\* What a branch of p may be made of.
Sources(p) == {origin[p]} \cup RestorableContents(p)

\* A child is marked as an import before it is filled, with one of the parent's
\* saves.
ChildMatches(l) ==
  /\ pc[l] \in {"c_publish", "b_marker", "x_marker"} => marker[dest[l]] = "started"
  /\ pc[l] \in {"b_copy", "b_fill", "x_copy", "b_publish"} => marker[dest[l]] = "import"
  /\ pc[l] \in CopiedSteps => snap[l] \in Sources(prof[l])
  /\ pc[l] = "b_publish" => user[dest[l]] = snap[l]

Markers ==
  \A p \in Profiles :
    /\ marker[p] \in {"absent", "started"} => user[p] = 0
    /\ marker[p] = "managed" <=> origin[p] # None
    /\ \A i \in Ids : <<p, i>> \in alive => marker[p] = "managed"

Origins == Markers /\ BranchStartsFromArchivedSave /\ \A l \in Launchers : ChildMatches(l)
OriginInv == SaveInv /\ Origins

LEMMA InitOrigins == Init => Origins
<1> SUFFICES ASSUME Init  PROVE Origins
  OBVIOUS
<1>1. Markers
  BY ProfileConstants DEF Init, Markers
<1>2. BranchStartsFromArchivedSave
  BY DEF Init, BranchStartsFromArchivedSave
<1>3. \A l \in Launchers : ChildMatches(l)
  BY DEF Init, ChildMatches, CopiedSteps
<1> QED BY <1>1, <1>2, <1>3 DEF Origins

\* How the marker, the origin and the tree of a profile may change.
LEMMA Changes ==
  ASSUME TypeInv, NEW m \in Launchers, Acts(m), NEW p \in Profiles
  PROVE  /\ \/ marker'[p] = marker[p]
            \/ marker[p] = "absent" /\ marker'[p] = "started"
            \/ pc[m] \in {"b_marker", "x_marker"} /\ p = dest[m] /\ marker'[p] = "import"
            \/ marker'[p] = "managed" /\ p = dest[m] /\ pc[m] \in {"c_publish", "b_publish"}
         /\ \/ origin'[p] = origin[p]
            \/ marker'[p] = "managed" /\ p = dest[m] /\ pc[m] \in {"c_publish", "b_publish"}
         /\ \/ user'[p] = user[p]
            \/ pc[m] = "r_write" /\ p = prof[m]
            \/ pc[m] \in {"b_fill", "x_copy"} /\ p = dest[m]
<1> USE DEF TypeInv, TypeOK, Registers, ChildSteps, disk
<1>1. CASE Start(m)
  BY <1>1 DEF Start, StartLock, Lock, StartAdmit, StartRefuse, StartNewDirectory, StartPrepared,
     WriteState, StartCopy, ReadTree, StartReceipt, StartLaunching, StartSpawn, StartRunning
<1>2. CASE Poll(m)
  BY <1>2 DEF Poll, PollCopy, ReadTree, PollReceipt, PollComplete, PollFail
<1>3. CASE RenameName(m)
  BY <1>3 DEF RenameName, RenameLock, Lock, RenameAdmit, RenameReturn, RenameNewDirectory, RenameCopy,
     ReadTree, RenameReceipt, RenamePending, RenameWrite, RenameCopyAfter, RenameReceiptAfter,
     RenameComplete
<1>4. CASE Branch(m)
  BY <1>4 DEF Branch, BranchLock, Lock, DuplicateBegin, RestoreBegin, CreateChild, BranchRefuse,
     DuplicateMarker, RestoreMarker, ImportMarker, DuplicateCopy, ReadTree, DuplicateFill, RestoreFill,
     Fill, BranchPublish
<1>5. CASE CreateProfile(m)
  BY <1>5 DEF CreateProfile, CreateBegin, CreateChild, CreatePublish
<1>6. CASE Fail(m) \/ Crash(m) \/ Restart(m)
  BY <1>6 DEF Fail, Crash, Restart
<1> QED BY <1>1, <1>2, <1>3, <1>4, <1>5, <1>6 DEF Acts, Launcher

LEMMA ActsMarkers ==
  ASSUME OriginInv, NEW m \in Launchers, Acts(m)
  PROVE  Markers'
<1>1. TypeInv /\ TypeInv' /\ Locks /\ Children /\ Markers /\ ChildMatches(m)
  <2>1. [Next]_vars
    BY DEF Next, Environment, Acts
  <2> QED BY <2>1, NextType DEF OriginInv, SaveInv, ReceiptInv, ExclInv, Exclusive, Origins
<1> SUFFICES ASSUME NEW p \in Profiles
             PROVE  /\ marker'[p] \in {"absent", "started"} => user'[p] = 0
                    /\ marker'[p] = "managed" <=> origin'[p] # None
                    /\ \A i \in Ids : <<p, i>> \in alive' => marker'[p] = "managed"
  BY DEF Markers
<1>2. /\ \/ marker'[p] = marker[p]
         \/ marker[p] = "absent" /\ marker'[p] = "started"
         \/ pc[m] \in {"b_marker", "x_marker"} /\ p = dest[m] /\ marker'[p] = "import"
         \/ marker'[p] = "managed" /\ p = dest[m] /\ pc[m] \in {"c_publish", "b_publish"}
      /\ \/ origin'[p] = origin[p]
         \/ marker'[p] = "managed" /\ p = dest[m] /\ pc[m] \in {"c_publish", "b_publish"}
      /\ \/ user'[p] = user[p]
         \/ pc[m] = "r_write" /\ p = prof[m]
         \/ pc[m] \in {"b_fill", "x_copy"} /\ p = dest[m]
  BY <1>1, Changes
<1>3. /\ marker[p] \in {"absent", "started"} => user[p] = 0
      /\ marker[p] = "managed" <=> origin[p] # None
  BY <1>1 DEF Markers
<1>4. marker[p] = "managed" => marker'[p] = "managed" /\ origin'[p] = origin[p]
  <2>1. ASSUME p = dest[m], pc[m] \in ChildSteps  PROVE marker[p] # "managed"
    BY <1>1, <2>1 DEF Children
  <2> QED BY <1>2, <2>1 DEF ChildSteps
<1>5. marker'[p] \in {"absent", "started"} => user'[p] = 0
  <2>1. ASSUME pc[m] = "r_write", p = prof[m]  PROVE marker'[p] = "managed"
    BY <1>1, <1>4, <2>1 DEF Locks, Busy, RenameSteps, CreateSteps
  <2>2. ASSUME pc[m] \in {"b_fill", "x_copy"}, p = dest[m]  PROVE marker'[p] = "import"
    BY <1>1, <1>2, <2>2 DEF ChildMatches
  <2> QED BY <1>2, <1>3, <2>1, <2>2
<1>6. marker'[p] = "managed" <=> origin'[p] # None
  <2>1. CASE marker[p] = "managed"
    BY <1>3, <1>4, <2>1
  <2>2. CASE marker[p] # "managed" /\ marker'[p] = "managed"
    <3>1. origin'[p] = user[p]
      BY <1>1, <2>2, Published
    <3>2. user[p] # None
      BY <1>1, ProfileConstants DEF TypeInv, TypeOK, Content
    <3> QED BY <2>2, <3>1, <3>2
  <2>3. CASE marker[p] # "managed" /\ marker'[p] # "managed"
    BY <1>2, <1>3, <2>3
  <2> QED BY <2>1, <2>2, <2>3
<1>7. ASSUME NEW i \in Ids, <<p, i>> \in alive'  PROVE marker'[p] = "managed"
  <2>1. CASE <<p, i>> \in alive
    BY <1>1, <1>4, <2>1 DEF Markers
  <2>2. CASE <<p, i>> \notin alive
    <3>1. pc[m] = "s_spawn" /\ p = prof[m]
      BY <1>7, <2>2, TitlesStart
    <3> QED BY <1>1, <1>4, <3>1 DEF Locks, Busy, StartSteps, CreateSteps
  <2> QED BY <2>1, <2>2
<1> QED BY <1>5, <1>6, <1>7

\* What could be a source of a branch stays one.
LEMMA SourcesGrow ==
  ASSUME OriginInv, NEW m \in Launchers, Acts(m), NEW p \in Profiles, NEW v, v \in Sources(p), v # None
  PROVE  v \in Sources(p)'
<1>1. TypeInv /\ Markers /\ AbsentIsEmpty /\ ReceiptInv /\ Children
  BY DEF OriginInv, SaveInv, ReceiptInv, ExclInv, Exclusive, Receipts, Origins
<1>2. CASE v = origin[p]
  <2>1. marker[p] = "managed"
    BY <1>1, <1>2 DEF Markers
  <2>2. origin'[p] = origin[p]
    BY <1>1, <2>1, Changes DEF Children, ChildSteps
  <2> QED BY <1>2, <2>2 DEF Sources
<1>3. CASE v \in RestorableContents(p)
  <2>1. PICK i \in Ids : v \in {sess[p][i].before, sess[p][i].after, arch[p][i].before, arch[p][i].after}
    BY <1>3 DEF RestorableContents
  <2>2. Extends(sess'[p][i], sess[p][i]) /\ Extends(arch'[p][i], arch[p][i])
    BY <1>1, RecordsExtend
  <2>3. v \in {sess'[p][i].before, sess'[p][i].after, arch'[p][i].before, arch'[p][i].after}
    BY <1>1, <2>1, <2>2 DEF Extends, AbsentIsEmpty
  <2>4. v \in RestorableContents(p)'
    BY <2>3 DEF RestorableContents
  <2> QED BY <2>4 DEF Sources
<1> QED BY <1>2, <1>3 DEF Sources

\* A launcher's own steps keep its child in order.
LEMMA OwnChild ==
  ASSUME OriginInv, NEW l \in Launchers, Acts(l)
  PROVE  ChildMatches(l)'
<1>1. TypeInv /\ Locks /\ Children /\ ChildMatches(l) /\ PendingMatches(l) /\ OthersSettled
  BY DEF OriginInv, SaveInv, ReceiptInv, ExclInv, Exclusive, Saves, Origins
<1> USE DEF Goto, Return, Forget, CopiedSteps, disk
<1>2. CASE Start(l)
  BY <1>1, <1>2 DEF Start, StartLock, Lock, StartAdmit, StartRefuse, StartNewDirectory, StartPrepared,
     WriteState, StartCopy, ReadTree, StartReceipt, StartLaunching, StartSpawn, StartRunning,
     TypeInv, TypeOK, ChildMatches
<1>3. CASE Poll(l)
  BY <1>1, <1>3 DEF Poll, PollCopy, ReadTree, PollReceipt, PollComplete, PollFail, TypeInv, TypeOK, ChildMatches
<1>4. CASE RenameName(l)
  BY <1>1, <1>4 DEF RenameName, RenameLock, Lock, RenameAdmit, RenameReturn, RenameNewDirectory, RenameCopy,
     ReadTree, RenameReceipt, RenamePending, RenameWrite, RenameCopyAfter, RenameReceiptAfter,
     RenameComplete, TypeInv, TypeOK, ChildMatches
<1>5. CASE Branch(l)
  <2>1. CASE (\E p \in Profiles : BranchLock(l, p)) \/ BranchRefuse(l) \/ BranchPublish(l)
    BY <1>1, <2>1 DEF BranchLock, Lock, BranchRefuse, BranchPublish, TypeInv, TypeOK, ChildMatches
  <2>2. CASE \E q \in Profiles : DuplicateBegin(l, q)
    BY <1>1, <2>2 DEF DuplicateBegin, CreateChild, TypeInv, TypeOK, ChildMatches
  <2>3. CASE \E q \in Profiles : RestoreBegin(l, q)
    <3>1. PICK q \in Profiles, c \in RestorableContents(prof[l]) :
            RestoreBegin(l, q) /\ snap' = [snap EXCEPT ![l] = c]
      BY <2>3 DEF RestoreBegin
    <3>2. /\ pc'[l] = "x_marker" /\ snap'[l] = c /\ dest'[l] = q /\ marker'[q] = "started"
          /\ prof'[l] = prof[l] /\ UNCHANGED <<origin, sess, arch>>
      BY <1>1, <3>1 DEF RestoreBegin, CreateChild, TypeInv, TypeOK
    <3>3. c \in Sources(prof[l])'
      BY <3>1, <3>2 DEF Sources, RestorableContents
    <3> QED BY <3>2, <3>3 DEF ChildMatches
  <2>4. CASE DuplicateMarker(l)
    BY <1>1, <2>4 DEF DuplicateMarker, ImportMarker, TypeInv, TypeOK, Registers, ChildSteps, ChildMatches
  <2>5. CASE RestoreMarker(l)
    <3>1. /\ pc[l] = "x_marker" /\ pc'[l] = "x_copy" /\ dest[l] \in Profiles /\ marker'[dest[l]] = "import"
          /\ UNCHANGED <<origin, sess, arch, prof, snap, dest>>
      BY <1>1, <2>5 DEF RestoreMarker, ImportMarker, TypeInv, TypeOK, Registers, ChildSteps
    <3>2. snap[l] \in Sources(prof[l])
      BY <1>1, <3>1 DEF ChildMatches
    <3>3. Sources(prof[l])' = Sources(prof[l])
      BY <3>1 DEF Sources, RestorableContents
    <3> QED BY <3>1, <3>2, <3>3 DEF ChildMatches
  <2>6. CASE DuplicateCopy(l)
    <3>1. /\ pc[l] = "b_copy" /\ pc'[l] = "b_fill" /\ snap'[l] = user[prof[l]]
          /\ UNCHANGED <<marker, origin, sess, arch, prof, dest>>
      BY <1>1, <2>6 DEF DuplicateCopy, ReadTree, TypeInv, TypeOK
    <3>2. prof[l] \in Profiles /\ marker[prof[l]] = "managed"
      BY <1>1, <3>1 DEF TypeInv, Registers, Locks, Busy, BranchSteps, CreateSteps
    <3>3. Settled(prof[l])
      BY <1>1, <3>1 DEF PendingMatches, OthersSettled, SettledSteps, Settled
    <3>4. Archived(prof[l])
      BY <3>2, <3>3 DEF OriginInv, SaveInv, Saves
    <3>5. user[prof[l]] # None
      BY <1>1, <3>2, ProfileConstants DEF TypeInv, TypeOK, Content
    <3>6. user[prof[l]] \in Sources(prof[l])
      <4>1. CASE user[prof[l]] = origin[prof[l]]
        BY <4>1 DEF Sources
      <4>2. CASE \E i \in Ids : user[prof[l]] \in {sess[prof[l]][i].after, arch[prof[l]][i].after}
        BY <3>5, <4>2 DEF Sources, RestorableContents
      <4> QED BY <3>4, <4>1, <4>2 DEF Archived
    <3>7. Sources(prof[l])' = Sources(prof[l])
      BY <3>1 DEF Sources, RestorableContents
    <3>8. marker'[dest'[l]] = "import"
      BY <1>1, <3>1 DEF ChildMatches
    <3> QED BY <3>1, <3>6, <3>7, <3>8 DEF ChildMatches
  <2>7. CASE DuplicateFill(l) \/ RestoreFill(l)
    <3>1. /\ pc[l] \in {"b_fill", "x_copy"} /\ pc'[l] = "b_publish" /\ dest[l] \in Profiles
          /\ user'[dest[l]] = snap[l]
          /\ UNCHANGED <<marker, origin, sess, arch, prof, dest, snap>>
      BY <1>1, <2>7 DEF DuplicateFill, RestoreFill, Fill, TypeInv, TypeOK, Registers, ChildSteps
    <3>2. snap[l] \in Sources(prof[l]) /\ marker[dest[l]] = "import"
      BY <1>1, <3>1 DEF ChildMatches
    <3>3. Sources(prof[l])' = Sources(prof[l])
      BY <3>1 DEF Sources, RestorableContents
    <3> QED BY <3>1, <3>2, <3>3 DEF ChildMatches
  <2> QED BY <1>5, <2>1, <2>2, <2>3, <2>4, <2>5, <2>6, <2>7 DEF Branch
<1>6. CASE CreateProfile(l)
  BY <1>1, <1>6 DEF CreateProfile, CreateBegin, CreateChild, CreatePublish, TypeInv, TypeOK, ChildMatches
<1>7. CASE Fail(l) \/ Crash(l) \/ Restart(l)
  BY <1>1, <1>7 DEF Fail, Crash, Restart, TypeInv, TypeOK, ChildMatches
<1> QED BY <1>2, <1>3, <1>4, <1>5, <1>6, <1>7 DEF Acts, Launcher

LEMMA ActsBranch ==
  ASSUME OriginInv, NEW m \in Launchers, Acts(m)
  PROVE  BranchStartsFromArchivedSave'
<1>1. TypeInv /\ Locks /\ Children /\ Markers /\ ChildMatches(m) /\ BranchStartsFromArchivedSave
  BY DEF OriginInv, SaveInv, ReceiptInv, ExclInv, Exclusive, Origins
<1> SUFFICES ASSUME NEW q \in Profiles, marker'[q] = "managed"
             PROVE  origin'[q] = 0 \/ \E p \in Profiles \ {q} : origin'[q] \in Sources(p)'
  BY DEF BranchStartsFromArchivedSave, Sources
<1>2. CASE marker[q] # "managed"
  <2>1. /\ pc[m] \in {"c_publish", "b_publish"} /\ q = dest[m] /\ origin'[q] = user[q]
    BY <1>1, <1>2, Published
  <2>2. CASE pc[m] = "c_publish"
    BY <1>1, <2>1, <2>2 DEF ChildMatches, Markers
  <2>3. CASE pc[m] = "b_publish"
    <3>1. prof[m] \in Profiles /\ marker[prof[m]] = "managed"
      BY <1>1, <2>3 DEF TypeInv, Registers, Locks, Busy, BranchSteps, CreateSteps
    <3>2. user[q] \in Sources(prof[m])
      BY <1>1, <2>1, <2>3 DEF ChildMatches, CopiedSteps
    <3>3. user[q] # None
      BY <1>1, ProfileConstants DEF TypeInv, TypeOK, Content
    <3>4. \A p \in Profiles : p = prof[m] => user[q] \in Sources(p)'
      BY <3>2, <3>3, SourcesGrow
    <3> QED BY <1>2, <2>1, <3>1, <3>4
  <2> QED BY <2>1, <2>2, <2>3
<1>3. CASE marker[q] = "managed"
  <2>1. origin'[q] = origin[q]
    BY <1>1, <1>3, Changes DEF Children, ChildSteps
  <2>2. origin[q] # None
    BY <1>1, <1>3 DEF Markers
  <2>3. origin[q] = 0 \/ \E p \in Profiles \ {q} : origin[q] \in Sources(p)
    BY <1>1, <1>3 DEF BranchStartsFromArchivedSave, Sources
  <2>4. ASSUME NEW p \in Profiles \ {q}, origin[q] \in Sources(p)  PROVE origin'[q] \in Sources(p)'
    BY <2>1, <2>2, <2>4, SourcesGrow
  <2> QED BY <2>1, <2>3, <2>4
<1> QED BY <1>2, <1>3

LEMMA NextOrigins == OriginInv /\ [Next]_vars => OriginInv'
<1> SUFFICES ASSUME OriginInv, [Next]_vars  PROVE OriginInv'
  OBVIOUS
<1>1. SaveInv' /\ ExclInv /\ TypeInv /\ Origins
  BY NextSaves DEF OriginInv, SaveInv, ReceiptInv, ExclInv
<1>2. ASSUME NEW m \in Launchers, Acts(m)  PROVE Origins'
  <2>1. Markers' /\ BranchStartsFromArchivedSave'
    BY <1>2, ActsMarkers, ActsBranch
  <2>2. ASSUME NEW l \in Launchers  PROVE ChildMatches(l)'
    <3>1. CASE l = m
      BY <1>2, <3>1, OwnChild
    <3>2. CASE l # m
      <4>1. pc'[l] = pc[l] /\ prof'[l] = prof[l] /\ snap'[l] = snap[l] /\ dest'[l] = dest[l]
        BY <1>1, <1>2, <3>2, OtherRegisters
      <4>2. ChildMatches(l)
        BY <1>1 DEF Origins
      <4>3. CASE pc[l] \in ChildSteps
        <5>1. dest[l] \in Profiles
          BY <1>1, <4>3 DEF TypeInv, Registers
        <5>2. marker'[dest[l]] = marker[dest[l]] /\ user'[dest[l]] = user[dest[l]]
          BY <1>1, <1>2, <3>2, <4>3, <5>1, OthersKeepOut
        <5>3. ASSUME pc[l] \in CopiedSteps  PROVE Sources(prof[l])' = Sources(prof[l])
          <6>1. pc[l] \in WorkSteps /\ prof[l] \in Profiles
            BY <1>1, <5>3 DEF TypeInv, Registers, WorkSteps, Busy, BranchSteps, CreateSteps, CopiedSteps
          <6>2. /\ sess'[prof[l]] = sess[prof[l]] /\ arch'[prof[l]] = arch[prof[l]]
                /\ origin'[prof[l]] = origin[prof[l]]
            BY <1>1, <1>2, <3>2, <6>1, OthersKeepOut
          <6> QED BY <4>1, <6>2 DEF Sources, RestorableContents
        <5> QED BY <4>1, <4>2, <5>2, <5>3 DEF ChildMatches
      <4>4. CASE pc[l] \notin ChildSteps
        BY <4>1, <4>4 DEF ChildMatches, ChildSteps, CopiedSteps
      <4> QED BY <4>3, <4>4
    <3> QED BY <3>1, <3>2
  <2> QED BY <2>1, <2>2 DEF Origins
<1>3. ASSUME NEW g \in Profiles \X Ids, JobKill(g) \/ GameExit(g)  PROVE Origins'
  <2>1. /\ UNCHANGED <<marker, origin, user, sess, arch, pc, prof, snap, dest>>
        /\ \A h : h \in alive' => h \in alive
    BY <1>3 DEF JobKill, GameExit, disk
  <2>2. Markers'
    BY <1>1, <2>1 DEF Origins, Markers
  <2>3. BranchStartsFromArchivedSave'
    BY <1>1, <2>1 DEF Origins, BranchStartsFromArchivedSave, RestorableContents
  <2>4. \A l \in Launchers : ChildMatches(l)'
    BY <1>1, <2>1 DEF Origins, ChildMatches, Sources, RestorableContents
  <2> QED BY <2>2, <2>3, <2>4 DEF Origins
<1>4. ASSUME NEW g \in Profiles \X Ids, GameWrite(g)  PROVE Origins'
  <2>1. /\ g \in alive /\ user' = [user EXCEPT ![g[1]] = ver + 1]
        /\ UNCHANGED <<marker, origin, sess, arch, alive, pc, prof, snap, dest>>
    BY <1>4 DEF GameWrite
  <2>2. PICK q \in Profiles, i \in Ids : g = <<q, i>>
    OBVIOUS
  <2>3. marker[q] = "managed"
    BY <1>1, <2>1, <2>2 DEF Origins, Markers
  <2>4. \A p \in Profiles : p # q => user'[p] = user[p]
    BY <1>1, <2>1, <2>2 DEF TypeInv, TypeOK
  <2>5. Markers'
    BY <1>1, <2>1, <2>3, <2>4 DEF Origins, Markers
  <2>6. BranchStartsFromArchivedSave'
    BY <1>1, <2>1 DEF Origins, BranchStartsFromArchivedSave, RestorableContents
  <2>7. ASSUME NEW l \in Launchers  PROVE ChildMatches(l)'
    <3>1. ChildMatches(l)
      BY <1>1 DEF Origins
    <3>2. pc[l] = "b_publish" => dest[l] \in Profiles /\ dest[l] # q
      BY <1>1, <2>3, <3>1 DEF ChildMatches, TypeInv, Registers, ChildSteps
    <3>3. Sources(prof[l])' = Sources(prof[l])
      BY <2>1 DEF Sources, RestorableContents
    <3> QED BY <2>1, <2>4, <3>1, <3>2, <3>3 DEF ChildMatches
  <2> QED BY <2>5, <2>6, <2>7 DEF Origins
<1>5. ASSUME UNCHANGED vars  PROVE Origins'
  <2>1. UNCHANGED <<marker, origin, user, sess, arch, alive, pc, prof, snap, dest>>
    BY <1>5 DEF vars
  <2>2. Markers'
    BY <1>1, <2>1 DEF Origins, Markers
  <2>3. BranchStartsFromArchivedSave'
    BY <1>1, <2>1 DEF Origins, BranchStartsFromArchivedSave, RestorableContents
  <2>4. \A l \in Launchers : ChildMatches(l)'
    BY <1>1, <2>1 DEF Origins, ChildMatches, Sources, RestorableContents
  <2> QED BY <2>2, <2>3, <2>4 DEF Origins
<1>6. Origins'
  BY <1>2, <1>3, <1>4, <1>5, NextIsAct
<1> QED BY <1>1, <1>6 DEF OriginInv

\* Duplicates and restores of any number of profiles: the save a branch was
\* published with is the origin or an archived save of another profile.
THEOREM BranchesStartArchived == Spec => []BranchStartsFromArchivedSave
<1>1. Init => OriginInv
  BY InitSaveInv, InitOrigins DEF OriginInv
<1>2. OriginInv => BranchStartsFromArchivedSave
  BY DEF OriginInv, Origins
<1> QED BY <1>1, <1>2, NextOrigins, PTL DEF Spec

-----------------------------------------------------------------------------
(* The bound of the histories.                                              *)
(*                                                                          *)
(* The bound is checked at admission and used steps later, when the new     *)
(* directory is made: it still holds then because only the holder of the    *)
(* lock adds entries.                                                       *)

Small(S, n) == IsFiniteSet(S) /\ Cardinality(S) <= n

RoomLeft(l) ==
  /\ pc[l] = "s_dir" => Cardinality(SessionsOf(prof[l])) <= MaxEntries - 1
  /\ pc[l] = "r_dir" => Cardinality(ArchivesOf(prof[l])) <= MaxEntries - 1

Counts == /\ \A p \in Profiles : Small(SessionsOf(p), MaxEntries) /\ Small(ArchivesOf(p), MaxEntries)
          /\ \A l \in Launchers : RoomLeft(l)
CountInv == ReceiptInv /\ Counts

LEMMA SmallSets ==
  ASSUME NEW n \in Nat \ {0}, NEW S, NEW T
  PROVE  /\ Small(S, n) /\ T \subseteq S => Small(T, n)
         /\ \A i : Small(S, n) /\ Cardinality(S) <= n - 1 /\ T \subseteq S \cup {i} => Small(T, n)
<1>1. ASSUME NEW m \in Nat, Small(S, m), T \subseteq S  PROVE Small(T, m)
  <2>1. IsFiniteSet(T) /\ Cardinality(T) <= Cardinality(S)
    BY <1>1, FS_Subset DEF Small
  <2>2. Cardinality(T) \in Nat /\ Cardinality(S) \in Nat
    BY <1>1, <2>1, FS_CardinalityType DEF Small
  <2> QED BY <1>1, <2>1, <2>2 DEF Small
<1>2. ASSUME NEW i, Small(S, n), Cardinality(S) <= n - 1, T \subseteq S \cup {i}  PROVE Small(T, n)
  <2>1. IsFiniteSet(S \cup {i}) /\ Cardinality(S \cup {i}) \in {Cardinality(S), Cardinality(S) + 1}
    BY <1>2, FS_AddElement DEF Small
  <2>2. IsFiniteSet(T) /\ Cardinality(T) <= Cardinality(S \cup {i})
    BY <1>2, <2>1, FS_Subset
  <2>3. Cardinality(T) \in Nat /\ Cardinality(S) \in Nat
    BY <1>2, <2>2, FS_CardinalityType DEF Small
  <2> QED BY <1>2, <2>1, <2>2, <2>3 DEF Small
<1> QED BY <1>1, <1>2

\* A history grows by one entry at most, in the step that was admitted for it.
LEMMA OneEntry ==
  ASSUME ReceiptInv, NEW m \in Launchers, Acts(m), NEW p \in Profiles
  PROVE  /\ \/ SessionsOf(p)' \subseteq SessionsOf(p)
            \/ pc[m] = "s_dir" /\ p = prof[m] /\ \E i \in Ids : SessionsOf(p)' \subseteq SessionsOf(p) \cup {i}
         /\ \/ ArchivesOf(p)' \subseteq ArchivesOf(p)
            \/ pc[m] = "r_dir" /\ p = prof[m] /\ \E i \in Ids : ArchivesOf(p)' \subseteq ArchivesOf(p) \cup {i}
<1>1. TypeInv /\ SessionReceipts(m) /\ ArchiveReceipts(m)
  BY DEF ReceiptInv, ExclInv, Receipts
<1>2. CASE StartNewDirectory(m)
  <2>1. PICK i \in Ids : sess' = [sess EXCEPT ![prof[m]][i] = NewSession]
    BY <1>2 DEF StartNewDirectory
  <2>2. pc[m] = "s_dir" /\ arch' = arch
    BY <1>2 DEF StartNewDirectory
  <2>3. \A j \in Ids : p # prof[m] \/ j # i => sess'[p][j] = sess[p][j]
    BY <1>1, <2>1 DEF TypeInv, TypeOK
  <2>4. p # prof[m] => SessionsOf(p)' \subseteq SessionsOf(p)
    BY <2>3 DEF SessionsOf
  <2>5. SessionsOf(p)' \subseteq SessionsOf(p) \cup {i}
    BY <2>3 DEF SessionsOf
  <2>6. ArchivesOf(p)' \subseteq ArchivesOf(p)
    BY <2>2 DEF ArchivesOf
  <2> QED BY <2>2, <2>4, <2>5, <2>6
<1>3. CASE RenameNewDirectory(m)
  <2>1. PICK i \in Ids : arch' = [arch EXCEPT ![prof[m]][i] = NewArchive]
    BY <1>3 DEF RenameNewDirectory
  <2>2. pc[m] = "r_dir" /\ sess' = sess
    BY <1>3 DEF RenameNewDirectory
  <2>3. \A j \in Ids : p # prof[m] \/ j # i => arch'[p][j] = arch[p][j]
    BY <1>1, <2>1 DEF TypeInv, TypeOK
  <2>4. p # prof[m] => ArchivesOf(p)' \subseteq ArchivesOf(p)
    BY <2>3 DEF ArchivesOf
  <2>5. ArchivesOf(p)' \subseteq ArchivesOf(p) \cup {i}
    BY <2>3 DEF ArchivesOf
  <2>6. SessionsOf(p)' \subseteq SessionsOf(p)
    BY <2>2 DEF SessionsOf
  <2> QED BY <2>2, <2>4, <2>5, <2>6
<1>4. CASE ~StartNewDirectory(m) /\ ~RenameNewDirectory(m)
  <2> SUFFICES ASSUME NEW i \in Ids
               PROVE  /\ sess'[p][i].state # "absent" => sess[p][i].state # "absent"
                      /\ arch'[p][i].state # "absent" => arch[p][i].state # "absent"
    BY DEF SessionsOf, ArchivesOf
  <2> DEFINE Own == p = prof[m] /\ i = sid[m]
             Kept == /\ sess'[p][i] = sess[p][i] \/ (pc[m] \in SessionSteps /\ Own)
                     /\ arch'[p][i] = arch[p][i] \/ (pc[m] \in ArchiveSteps /\ Own)
  <2>1. CASE Start(m)
    <3>1. arch' = arch
      BY <2>1 DEF Start, StartLock, Lock, StartAdmit, StartRefuse, StartNewDirectory, StartPrepared, WriteState,
         StartCopy, ReadTree, StartReceipt, StartLaunching, StartSpawn, StartRunning, disk
    <3>2. \/ sess' = sess
          \/ /\ pc[m] \in SessionSteps
             /\ \E r : sess' = [sess EXCEPT ![prof[m]][sid[m]] = r]
      BY <1>4, <2>1 DEF Start, StartLock, Lock, StartAdmit, StartRefuse, StartPrepared, WriteState,
         StartCopy, ReadTree, StartReceipt, StartLaunching, StartSpawn, StartRunning, disk, SessionSteps
    <3>3. Kept
      BY <1>1, <3>1, <3>2 DEF TypeInv, TypeOK
    <3> QED BY <1>1, <3>3 DEF SessionReceipts, ArchiveReceipts
  <2>2. CASE Poll(m)
    <3>1. arch' = arch
      BY <2>2 DEF Poll, PollCopy, ReadTree, PollReceipt, PollComplete, PollFail, disk
    <3>2. \/ sess' = sess
          \/ /\ pc[m] \in SessionSteps
             /\ \E r : sess' = [sess EXCEPT ![prof[m]][sid[m]] = r]
      BY <2>2 DEF Poll, PollCopy, ReadTree, PollReceipt, PollComplete, PollFail, disk, SessionSteps
    <3>3. Kept
      BY <1>1, <3>1, <3>2 DEF TypeInv, TypeOK
    <3> QED BY <1>1, <3>3 DEF SessionReceipts, ArchiveReceipts
  <2>3. CASE RenameName(m)
    <3>1. sess' = sess
      BY <2>3 DEF RenameName, RenameLock, Lock, RenameAdmit, RenameReturn, RenameNewDirectory, RenameCopy,
         ReadTree, RenameReceipt, RenamePending, RenameWrite, RenameCopyAfter, RenameReceiptAfter,
         RenameComplete, disk
    <3>2. \/ arch' = arch
          \/ /\ pc[m] \in ArchiveSteps
             /\ \E r : arch' = [arch EXCEPT ![prof[m]][sid[m]] = r]
      BY <1>4, <2>3 DEF RenameName, RenameLock, Lock, RenameAdmit, RenameReturn, RenameCopy, ReadTree,
         RenameReceipt, RenamePending, RenameWrite, RenameCopyAfter, RenameReceiptAfter, RenameComplete,
         disk, ArchiveSteps
    <3>3. Kept
      BY <1>1, <3>1, <3>2 DEF TypeInv, TypeOK
    <3> QED BY <1>1, <3>3 DEF SessionReceipts, ArchiveReceipts
  <2>4. CASE Branch(m) \/ CreateProfile(m) \/ Fail(m) \/ Crash(m) \/ Restart(m)
    <3>1. sess' = sess /\ arch' = arch
      BY <2>4 DEF Branch, BranchLock, Lock, DuplicateBegin, RestoreBegin, CreateChild, BranchRefuse,
         DuplicateMarker, RestoreMarker, ImportMarker, DuplicateCopy, ReadTree, DuplicateFill, RestoreFill,
         Fill, BranchPublish, CreateProfile, CreateBegin, CreatePublish, Fail, Crash, Restart, disk
    <3> QED BY <3>1
  <2> QED BY <2>1, <2>2, <2>3, <2>4 DEF Acts, Launcher
<1> QED BY <1>2, <1>3, <1>4

\* Room is left where admission found it.
LEMMA OwnRoom ==
  ASSUME TypeInv, Counts, NEW l \in Launchers, Acts(l)
  PROVE  RoomLeft(l)'
<1>1. MaxEntries \in Nat \ {0}
  BY ProfileConstants
<1>2. CASE StartAdmit(l)
  <2>1. pc'[l] = "s_dir" /\ Cardinality(SessionsOf(prof[l])) <= MaxEntries - 1 /\ UNCHANGED <<sess, prof>>
    BY <1>2 DEF StartAdmit, StartAdmits, HistoryAdmits, disk, Goto, TypeInv, TypeOK
  <2>2. SessionsOf(prof[l])' = SessionsOf(prof[l])
    BY <2>1 DEF SessionsOf
  <2> QED BY <2>1, <2>2 DEF RoomLeft
<1>3. CASE RenameAdmit(l)
  <2>1. pc'[l] = "r_dir" /\ Cardinality(ArchivesOf(prof[l])) < MaxEntries /\ UNCHANGED <<arch, prof>>
    BY <1>3 DEF RenameAdmit, RenameAdmits, disk, Goto, TypeInv, TypeOK
  <2>2. ArchivesOf(prof[l])' = ArchivesOf(prof[l])
    BY <2>1 DEF ArchivesOf
  <2>3. prof[l] \in Profiles
    BY <1>3 DEF RenameAdmit, TypeInv, Registers, WorkSteps, Busy, StartSteps, RenameSteps, CreateSteps
  <2>4. Cardinality(ArchivesOf(prof[l])) \in Nat
    BY <2>3, FS_CardinalityType DEF Counts, Small
  <2>5. Cardinality(ArchivesOf(prof[l])) <= MaxEntries - 1
    BY <1>1, <2>1, <2>4
  <2> QED BY <2>1, <2>2, <2>5 DEF RoomLeft
<1>4. CASE ~StartAdmit(l) /\ ~RenameAdmit(l)
  <2>1. pc'[l] \notin {"s_dir", "r_dir"}
    <3> USE DEF TypeInv, TypeOK, Goto, Return
    <3>1. CASE Start(l)
      BY <1>4, <3>1 DEF Start, StartLock, Lock, StartRefuse, StartNewDirectory, StartPrepared,
         WriteState, StartCopy, ReadTree, StartReceipt, StartLaunching, StartSpawn, StartRunning
    <3>2. CASE Poll(l)
      BY <3>2 DEF Poll, PollCopy, ReadTree, PollReceipt, PollComplete, PollFail
    <3>3. CASE RenameName(l)
      BY <1>4, <3>3 DEF RenameName, RenameLock, Lock, RenameReturn, RenameNewDirectory, RenameCopy,
         ReadTree, RenameReceipt, RenamePending, RenameWrite, RenameCopyAfter, RenameReceiptAfter,
         RenameComplete
    <3>4. CASE Branch(l)
      BY <3>4 DEF Branch, BranchLock, Lock, DuplicateBegin, RestoreBegin, CreateChild, BranchRefuse,
         DuplicateMarker, RestoreMarker, ImportMarker, DuplicateCopy, ReadTree, DuplicateFill, RestoreFill,
         Fill, BranchPublish
    <3>5. CASE CreateProfile(l)
      BY <3>5 DEF CreateProfile, CreateBegin, CreateChild, CreatePublish
    <3>6. CASE Fail(l) \/ Crash(l) \/ Restart(l)
      BY <3>6 DEF Fail, Crash, Restart
    <3> QED BY <3>1, <3>2, <3>3, <3>4, <3>5, <3>6 DEF Acts, Launcher
  <2> QED BY <2>1 DEF RoomLeft
<1> QED BY <1>2, <1>3, <1>4

LEMMA NextCounts == CountInv /\ [Next]_vars => CountInv'
<1> SUFFICES ASSUME CountInv, [Next]_vars  PROVE CountInv'
  OBVIOUS
<1>1. ReceiptInv /\ ReceiptInv' /\ ExclInv /\ TypeInv /\ Counts
  BY NextReceipts DEF CountInv, ReceiptInv, ExclInv
<1>2. ASSUME NEW m \in Launchers, Acts(m)  PROVE Counts'
  <2>1. ASSUME NEW p \in Profiles  PROVE Small(SessionsOf(p)', MaxEntries) /\ Small(ArchivesOf(p)', MaxEntries)
    <3>1. MaxEntries \in Nat \ {0} /\ Small(SessionsOf(p), MaxEntries) /\ Small(ArchivesOf(p), MaxEntries)
      BY <1>1, ProfileConstants DEF Counts
    <3>2. RoomLeft(m)
      BY <1>1 DEF Counts
    <3>3. /\ \/ SessionsOf(p)' \subseteq SessionsOf(p)
             \/ pc[m] = "s_dir" /\ p = prof[m] /\ \E i \in Ids : SessionsOf(p)' \subseteq SessionsOf(p) \cup {i}
          /\ \/ ArchivesOf(p)' \subseteq ArchivesOf(p)
             \/ pc[m] = "r_dir" /\ p = prof[m] /\ \E i \in Ids : ArchivesOf(p)' \subseteq ArchivesOf(p) \cup {i}
      BY <1>1, <1>2, OneEntry
    <3>4. Small(SessionsOf(p)', MaxEntries)
      BY <3>1, <3>2, <3>3, SmallSets DEF RoomLeft
    <3>5. Small(ArchivesOf(p)', MaxEntries)
      BY <3>1, <3>2, <3>3, SmallSets DEF RoomLeft
    <3> QED BY <3>4, <3>5
  <2>2. ASSUME NEW l \in Launchers  PROVE RoomLeft(l)'
    <3>1. RoomLeft(l)
      BY <1>1 DEF Counts
    <3>2. CASE l = m
      BY <1>1, <1>2, <3>1, <3>2, OwnRoom
    <3>3. CASE l # m
      <4>1. pc'[l] = pc[l] /\ prof'[l] = prof[l]
        BY <1>1, <1>2, <3>3, OtherRegisters
      <4>2. CASE pc[l] \in {"s_dir", "r_dir"}
        <5>1. pc[l] \in WorkSteps /\ prof[l] \in Profiles
          BY <1>1, <4>2 DEF TypeInv, Registers, WorkSteps, Busy, StartSteps, RenameSteps, CreateSteps
        <5>2. sess'[prof[l]] = sess[prof[l]] /\ arch'[prof[l]] = arch[prof[l]]
          BY <1>1, <1>2, <3>3, <5>1, OthersKeepOut
        <5>3. SessionsOf(prof[l])' = SessionsOf(prof[l]) /\ ArchivesOf(prof[l])' = ArchivesOf(prof[l])
          BY <4>1, <5>2 DEF SessionsOf, ArchivesOf
        <5> QED BY <3>1, <4>1, <5>3 DEF RoomLeft
      <4>3. CASE pc[l] \notin {"s_dir", "r_dir"}
        BY <4>1, <4>3 DEF RoomLeft
      <4> QED BY <4>2, <4>3
    <3> QED BY <3>2, <3>3
  <2> QED BY <2>1, <2>2 DEF Counts, Small
<1>3. ASSUME UNCHANGED <<sess, arch, pc, prof>>  PROVE Counts'
  BY <1>1, <1>3 DEF Counts, Small, RoomLeft, SessionsOf, ArchivesOf
<1>4. ASSUME NEW g \in Profiles \X Ids, JobKill(g) \/ GameExit(g) \/ GameWrite(g)  PROVE Counts'
  <2>1. UNCHANGED <<sess, arch, pc, prof>>
    BY <1>4 DEF JobKill, GameExit, GameWrite, disk
  <2> QED BY <1>3, <2>1
<1>5. ASSUME UNCHANGED vars  PROVE Counts'
  <2>1. UNCHANGED <<sess, arch, pc, prof>>
    BY <1>5 DEF vars
  <2> QED BY <1>3, <2>1
<1>6. Counts'
  BY <1>2, <1>4, <1>5, NextIsAct
<1> QED BY <1>1, <1>6 DEF CountInv

\* For any bound: no launch or rename fills a history beyond what can still be
\* inspected, however many launchers compete.
THEOREM HistoriesAreBounded == Spec => []HistoryBounded
<1>1. Init => Counts
  <2> SUFFICES ASSUME Init  PROVE Counts
    OBVIOUS
  <2>1. \A p \in Profiles : SessionsOf(p) = {} /\ ArchivesOf(p) = {}
    BY DEF Init, SessionsOf, ArchivesOf, NoSession
  <2>2. Small({}, MaxEntries)
    BY FS_EmptySet, ProfileConstants DEF Small
  <2>3. \A l \in Launchers : RoomLeft(l)
    BY DEF Init, RoomLeft
  <2> QED BY <2>1, <2>2, <2>3 DEF Counts
<1>2. Init => CountInv
  BY <1>1, InitReceiptInv DEF CountInv
<1>3. CountInv => HistoryBounded
  BY DEF CountInv, Counts, Small, HistoryBounded
<1> QED BY <1>2, <1>3, NextCounts, PTL DEF Spec
=============================================================================
