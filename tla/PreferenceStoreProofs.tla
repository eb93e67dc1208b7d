------------------------- MODULE PreferenceStoreProofs -------------------------
(***************************************************************************)
(* For every set of launchers and profiles: the store keeps its types, only *)
(* the lock holder works on the folder, the store implements the abstract   *)
(* library, and a store that was saved once can be opened again.            *)
(***************************************************************************)
EXTENDS PreferenceStore, FiniteSetTheorems, TLAPS

-----------------------------------------------------------------------------
(* Documents *)

\* The first-run document fits the library bound.
LEMMA FirstRunIsValid == FirstRun \in Preferences
<1>1. FirstRun \in Documents
  BY LibraryConstants DEF FirstRun, Documents
<1>2. Registered(FirstRun) = {}
  BY DEF Registered, FirstRun
<1>3. Cardinality({}) = 0
  BY FS_EmptySet
<1>4. Valid(FirstRun)
  BY <1>2, <1>3, LibraryConstants DEF Valid
<1> QED BY <1>1, <1>4 DEF Preferences

\* Every operation on a valid document gives a valid document.
LEMMA OperationsAreValid ==
  ASSUME NEW p \in Preferences, NEW q \in Operations(p)
  PROVE  q \in Preferences
<1>1. p \in Documents
  BY DEF Preferences
<1>2. q \in AnyOperation(p) /\ Valid(q)
  BY DEF Operations
<1>3. CASE q \in Registrations(p)
  <2>1. PICK e \in Entries, a \in Labels : q = WithLabel(p, e, a)
    BY <1>3 DEF Registrations
  <2> QED BY <1>1, <1>2, <2>1 DEF WithLabel, Documents, Preferences
<1>4. CASE q \in Selections(p)
  <2>1. PICK e \in Entries : q = WithSelected(p, e)
    BY <1>4 DEF Selections, Registered
  <2> QED BY <1>1, <1>2, <2>1 DEF WithSelected, Documents, Preferences
<1>5. CASE q \in Relabels(p)
  <2>1. PICK e \in Entries, a \in Labels : q = WithLabel(p, e, a)
    BY <1>5 DEF Relabels, Registered
  <2> QED BY <1>1, <1>2, <2>1 DEF WithLabel, Documents, Preferences
<1>6. CASE q \in NewSettings(p)
  <2>1. PICK c \in Choices : q = WithSettings(p, c)
    BY <1>6 DEF NewSettings
  <2> QED BY <1>1, <1>2, <2>1 DEF WithSettings, Documents, Preferences
<1> QED BY <1>2, <1>3, <1>4, <1>5, <1>6 DEF AnyOperation

-----------------------------------------------------------------------------
(* Types *)

\* What a save has in its temporary file is a document it was given.
Moving ==
  /\ \A l \in Launchers : pc[l] \in {"backup_move", "publish_move"} => temp[l] # None
  /\ \A l \in Launchers : pc[l] \in {"backup", "backup_move"} => previous[l] # None
TypeInv == StoreTypeOK /\ Moving

LEMMA InitTypes == StoreInit => TypeInv
<1> SUFFICES ASSUME StoreInit PROVE TypeInv
  OBVIOUS
<1>1. edits \in 0..MaxEdits /\ pc \in [Launchers -> Steps]
  BY LibraryConstants DEF StoreInit, Steps
<1>2. mem \in [Launchers -> Preferences] /\ next \in [Launchers -> Preferences]
  BY FirstRunIsValid DEF StoreInit
<1>3. /\ previous \in [Launchers -> Preferences \cup {None}]
      /\ temp \in [Launchers -> Preferences \cup {None}]
      /\ creates \in [Launchers -> BOOLEAN]
  BY DEF StoreInit
<1>4. StoreTypeOK
  BY <1>1, <1>2, <1>3 DEF StoreInit, StoreTypeOK
<1>5. Moving
  BY DEF StoreInit, Moving
<1> QED BY <1>4, <1>5 DEF TypeInv

\* Each step of a launcher keeps the types.
LEMMA StepTypes ==
  ASSUME TypeInv, NEW l \in Launchers, Step(l)
  PROVE  TypeInv'
<1> USE DEF TypeInv, StoreTypeOK, Moving, Steps, OpenSteps, SaveSteps
<1>1. CASE Preflight(l)
  BY <1>1 DEF Preflight, Goto
<1>2. CASE Acquire(l)
  <2>1. CASE LockIsFree
    BY <1>2, <2>1 DEF Acquire, Goto
  <2>2. CASE ~(LockIsFree)
    BY <1>2, <2>2 DEF Acquire, Goto
  <2> QED BY <2>1, <2>2
<1>3. CASE Read(l)
  <2>1. CASE Openable
    <3>1. primary \in Preferences \cup {None} /\ DocumentOf(primary) \in Preferences
      BY <2>1, FirstRunIsValid DEF Openable, DocumentOf
    <3> QED BY <1>3, <2>1, <3>1 DEF Read, Goto
  <2>2. CASE ~Openable
    BY <1>3, <2>2 DEF Read, Goto
  <2> QED BY <2>1, <2>2
<1>4. CASE Request(l)
  <2>1. PICK q \in Operations(mem[l]), made \in BOOLEAN :
          /\ next' = [next EXCEPT ![l] = q]
          /\ creates' = [creates EXCEPT ![l] = made]
    BY <1>4 DEF Request
  <2>2. q \in Preferences
    BY <2>1, OperationsAreValid
  <2> QED BY <1>4, <2>1, <2>2 DEF Request, Goto
<1>5. CASE SaveCheck(l)
  <2>1. CASE SaveMatches(l)
    BY <1>5, <2>1 DEF SaveCheck, Goto, SaveMatches
  <2>2. CASE ~(SaveMatches(l))
    BY <1>5, <2>2 DEF SaveCheck, Goto, SaveMatches
  <2> QED BY <2>1, <2>2
<1>6. CASE BackupTemp(l)
  BY <1>6, NotDocuments DEF BackupTemp, WriteTemp, Goto
<1>7. CASE BackupMove(l)
  BY <1>7 DEF BackupMove, Goto
<1>8. CASE PublishTemp(l)
  BY <1>8, NotDocuments DEF PublishTemp, WriteTemp, Goto
<1>9. CASE PublishMove(l)
  <2>1. CASE creates[l]
    BY <1>9, <2>1, NotDocuments DEF PublishMove, Goto
  <2>2. CASE ~(creates[l])
    BY <1>9, <2>2, NotDocuments DEF PublishMove, Goto
  <2> QED BY <2>1, <2>2
<1>10. CASE HintTemp(l)
  BY <1>10, NotDocuments DEF HintTemp, WriteTemp, Goto
<1>11. CASE HintMove(l)
  BY <1>11 DEF HintMove, Goto
<1>12. CASE Fail(l)
  <2>1. litter' \in BOOLEAN
    BY <1>12 DEF Fail, Abandon
  <2> QED BY <1>12, <2>1 DEF Fail, Abandon, Goto
<1>13. CASE Exit(l)
  <2>1. CASE lock = l
    BY <1>13, <2>1, FirstRunIsValid DEF Exit, Abandon, Goto
  <2>2. CASE ~(lock = l)
    BY <1>13, <2>2, FirstRunIsValid DEF Exit, Abandon, Goto
  <2> QED BY <2>1, <2>2
<1> QED BY <1>1, <1>2, <1>3, <1>4, <1>5, <1>6, <1>7, <1>8, <1>9, <1>10, <1>11, <1>12, <1>13 DEF Step

\* An edit behind the launchers' back keeps them too.
LEMMA EditTypes ==
  ASSUME TypeInv, ExternalEdit
  PROVE  TypeInv'
BY LibraryConstants DEF TypeInv, StoreTypeOK, Moving, ExternalEdit, process

\* The store's state stays well typed for every number of launchers, profiles
\* and edits: no operation produces a document beyond kMaximumProfiles.
THEOREM StoreTypeCorrect == StoreSpec => []StoreTypeOK
<1>1. StoreInit => TypeInv
  BY InitTypes
<1>2. TypeInv /\ [StoreNext]_vars => TypeInv'
  <2> SUFFICES ASSUME TypeInv, [StoreNext]_vars PROVE TypeInv'
    OBVIOUS
  <2>1. CASE UNCHANGED vars
    BY <2>1 DEF vars, process, TypeInv, StoreTypeOK, Moving
  <2>2. CASE ExternalEdit
    BY <2>2, EditTypes
  <2>3. CASE \E l \in Launchers : Step(l)
    BY <2>3, StepTypes
  <2> QED BY <2>1, <2>2, <2>3 DEF StoreNext
<1>3. TypeInv => StoreTypeOK
  BY DEF TypeInv
<1> QED BY <1>1, <1>2, <1>3, PTL DEF StoreSpec

-----------------------------------------------------------------------------
(* The inductive invariant of the save protocol *)

Inside == {"locked"} \cup OpenSteps

\* Beyond the preflight a process holds the lock.
HolderOnly == \A l \in Launchers : pc[l] \in Inside => lock = l
\* The document in memory is the one of the bytes last read or written.
ShownIsRead == \A l \in Launchers : pc[l] \in OpenSteps => mem[l] = DocumentOf(previous[l])
\* A save was handed one operation on the document in memory ...
SaveIsOperation ==
  \A l \in Launchers : pc[l] \in SaveSteps \cup {"save"} => next[l] \in Operations(mem[l])
\* ... and beyond the comparison the file is still the one compared with.
SaveOnCurrent == \A l \in Launchers : pc[l] \in SaveSteps => primary = previous[l]
\* The temporary file holds what is to be published.
TempHoldsBytes ==
  \A l \in Launchers : /\ pc[l] = "publish_move" => temp[l] = next[l]
                       /\ pc[l] = "backup_move" => temp[l] = previous[l]
\* Publication starts after the backup is in place.
BackupFirst ==
  \A l \in Launchers :
    pc[l] \in {"publish", "publish_move"} /\ previous[l] # None => backup = previous[l]
\* Without edits the bytes last read or written are those of the file.
UneditedIsRead ==
  edits = 0 => \A l \in Launchers : pc[l] \in OpenSteps => previous[l] = primary

SaveInv == /\ HolderOnly /\ ShownIsRead /\ SaveIsOperation /\ SaveOnCurrent
           /\ TempHoldsBytes /\ BackupFirst /\ UneditedIsRead
StoreInv == TypeInv /\ SaveInv

\* Each step of a launcher keeps the invariant of the save protocol.
LEMMA StepSaves ==
  ASSUME StoreInv, NEW l \in Launchers, Step(l)
  PROVE  SaveInv'
<1> USE DEF StoreInv, TypeInv, StoreTypeOK, SaveInv, HolderOnly, ShownIsRead, SaveIsOperation,
            SaveOnCurrent, TempHoldsBytes, BackupFirst, UneditedIsRead, Inside, OpenSteps,
            SaveSteps, Steps
<1>1. \A m \in Launchers : pc[l] \in Inside /\ m # l => pc[m] \notin Inside
  OBVIOUS
<1>2. CASE Preflight(l)
  BY <1>1, <1>2, LauncherConstants DEF Preflight, Goto
<1>3. CASE Acquire(l)
  BY <1>1, <1>3, LauncherConstants DEF Acquire, LockIsFree, Goto
<1>4. CASE Read(l)
  BY <1>1, <1>4, LauncherConstants DEF Read, Goto, Openable
<1>5. CASE Request(l)
  BY <1>1, <1>5, LauncherConstants DEF Request, Goto
<1>6. CASE SaveCheck(l)
  BY <1>1, <1>6, LauncherConstants DEF SaveCheck, SaveMatches, EmptyFirstRunDirectory, Goto
<1>7. CASE BackupTemp(l)
  BY <1>1, <1>7, LauncherConstants DEF BackupTemp, WriteTemp, Goto
<1>8. CASE BackupMove(l)
  BY <1>1, <1>8, LauncherConstants DEF BackupMove, Goto
<1>9. CASE PublishTemp(l)
  BY <1>1, <1>9, LauncherConstants DEF PublishTemp, WriteTemp, Goto
<1>10. CASE PublishMove(l)
  <2>1. temp[l] = next[l] /\ next[l] \in Preferences
    BY <1>10 DEF PublishMove
  <2>2. DocumentOf(temp[l]) = next[l]
    BY <2>1, NotDocuments DEF DocumentOf
  <2>3. \A m \in Launchers : m # l => pc'[m] = pc[m] /\ pc[m] \notin Inside
    BY <1>1, <1>10 DEF PublishMove, Goto
  <2>4. pc'[l] \in {"hint", "open"} /\ mem'[l] = next[l] /\ previous'[l] = temp[l]
        /\ primary' = temp[l] /\ lock' = lock
    BY <1>10 DEF PublishMove, Goto
  <2> QED BY <2>1, <2>2, <2>3, <2>4, <1>10 DEF PublishMove
<1>11. CASE HintTemp(l)
  BY <1>1, <1>11, LauncherConstants DEF HintTemp, WriteTemp, Goto
<1>12. CASE HintMove(l)
  BY <1>1, <1>12, LauncherConstants DEF HintMove, Goto
<1>13. CASE Fail(l)
  BY <1>1, <1>13, LauncherConstants DEF Fail, Abandon, Goto
<1>14. CASE Exit(l)
  BY <1>1, <1>14, LauncherConstants DEF Exit, Abandon, Goto
<1> QED BY <1>2, <1>3, <1>4, <1>5, <1>6, <1>7, <1>8, <1>9, <1>10, <1>11, <1>12, <1>13, <1>14 DEF Step

\* An edit happens outside the window between comparison and publication.
LEMMA EditSaves ==
  ASSUME StoreInv, ExternalEdit
  PROVE  SaveInv'
<1>1. edits' # 0
  BY DEF ExternalEdit, StoreInv, TypeInv, StoreTypeOK
<1> QED
  BY <1>1 DEF ExternalEdit, process, SaveInv, StoreInv, HolderOnly, ShownIsRead, SaveIsOperation,
    SaveOnCurrent, TempHoldsBytes, BackupFirst, UneditedIsRead, SaveSteps

LEMMA StoreInvariant == StoreSpec => []StoreInv
<1>1. StoreInit => StoreInv
  <2> SUFFICES ASSUME StoreInit PROVE SaveInv
    BY InitTypes DEF StoreInv
  <2> QED BY DEF StoreInit, SaveInv, HolderOnly, ShownIsRead, SaveIsOperation, SaveOnCurrent,
       TempHoldsBytes, BackupFirst, UneditedIsRead, Inside, OpenSteps, SaveSteps
<1>2. StoreInv /\ [StoreNext]_vars => StoreInv'
  <2> SUFFICES ASSUME StoreInv, [StoreNext]_vars PROVE StoreInv'
    OBVIOUS
  <2>1. CASE UNCHANGED vars
    BY <2>1 DEF vars, process, StoreInv, TypeInv, StoreTypeOK, Moving, SaveInv, HolderOnly,
      ShownIsRead, SaveIsOperation, SaveOnCurrent, TempHoldsBytes, BackupFirst, UneditedIsRead
  <2>2. CASE ExternalEdit
    BY <2>2, EditTypes, EditSaves DEF StoreInv
  <2>3. CASE \E l \in Launchers : Step(l)
    BY <2>3, StepTypes, StepSaves DEF StoreInv
  <2> QED BY <2>1, <2>2, <2>3 DEF StoreNext
<1> QED BY <1>1, <1>2, PTL DEF StoreSpec

-----------------------------------------------------------------------------
(* What follows from it *)

\* Only the lock holder works on the folder, and without edits it shows the
\* durable document (OpenPreferenceStore's second read, Save's acceptance).
THEOREM OpenIsDurable == StoreSpec => []OpenShowsDurable
<1>1. StoreInv => OpenShowsDurable
  BY DEF StoreInv, SaveInv, HolderOnly, ShownIsRead, UneditedIsRead, OpenShowsDurable, Inside
<1> QED BY <1>1, StoreInvariant, PTL

\* The only steps that change preferences.dat without an edit publish.
LEMMA OnlyPublishChanges ==
  ASSUME StoreInv, [StoreNext]_vars, primary' # primary, edits' = edits
  PROVE  \E l \in Launchers : PublishMove(l)
<1>1. ~ExternalEdit
  BY DEF ExternalEdit, StoreInv, TypeInv, StoreTypeOK
<1>2. PICK l \in Launchers : Step(l)
  BY <1>1 DEF StoreNext, vars
<1> QED
  BY <1>2 DEF Step, Preflight, Acquire, Read, Request, SaveCheck, BackupTemp, BackupMove,
    PublishTemp, HintTemp, HintMove, WriteTemp, Fail, Exit

\* A published document is one operation on the durable document.
LEMMA PublishCommits ==
  ASSUME StoreInv, NEW l \in Launchers, PublishMove(l)
  PROVE  /\ primary # Damaged
         /\ primary' \in Operations(DocumentOf(primary))
         /\ primary = None \/ backup = primary
<1>1. pc[l] = "publish_move" /\ primary' = temp[l]
  BY DEF PublishMove
<1>2. primary = previous[l] /\ temp[l] = next[l] /\ next[l] \in Operations(mem[l])
      /\ mem[l] = DocumentOf(previous[l]) /\ (previous[l] # None => backup = previous[l])
  BY <1>1 DEF StoreInv, SaveInv, SaveOnCurrent, TempHoldsBytes, SaveIsOperation, ShownIsRead,
    BackupFirst, SaveSteps, OpenSteps
<1>3. previous[l] # Damaged
  BY NotDocuments, LibraryConstants DEF StoreInv, TypeInv, StoreTypeOK
<1> QED BY <1>1, <1>2, <1>3

\* The abstract library is about the same documents.
LEMMA SameDocuments ==
  /\ Library!Preferences = Preferences
  /\ \A p : Library!DocumentOf(p) = DocumentOf(p)
  /\ \A p : Library!Operations(p) = Operations(p)
<1>1. \A S : Library!Cardinality(S) = Cardinality(S)
  BY DEF Library!Cardinality, Cardinality, Library!IsFiniteSet, IsFiniteSet
<1>2. Library!Preferences = Preferences
  BY <1>1 DEF Library!Preferences, Preferences, Library!Valid, Valid, Library!Documents, Documents,
    Library!Registered, Registered
<1>3. \A p : Library!DocumentOf(p) = DocumentOf(p)
  BY DEF Library!DocumentOf, DocumentOf, Library!FirstRun, FirstRun
<1>4. \A p : Library!AnyOperation(p) = AnyOperation(p)
  BY DEF Library!AnyOperation, AnyOperation, Library!Registrations, Registrations,
    Library!Selections, Selections, Library!Relabels, Relabels, Library!NewSettings, NewSettings,
    Library!WithLabel, WithLabel, Library!WithSelected, WithSelected, Library!WithSettings,
    WithSettings, Library!Registered, Registered
<1>5. \A p : Library!Operations(p) = Operations(p)
  BY <1>1, <1>4 DEF Library!Operations, Operations, Library!Valid, Valid, Library!Registered, Registered
<1> QED BY <1>2, <1>3, <1>5

\* Refinement: the store of any number of launchers that fail and die
\* implements the abstract library; no update is lost.
THEOREM StoreImplementsLibrary == StoreSpec => NoLostUpdate
<1>1. StoreInit => Library!Init
  BY DEF StoreInit, Library!Init
<1>2. StoreInv /\ [StoreNext]_vars => [Library!Next]_<<primary, edits>>
  <2> SUFFICES ASSUME StoreInv, [StoreNext]_vars, UNCHANGED <<primary, edits>> => FALSE
               PROVE  Library!Next
    OBVIOUS
  <2>1. CASE ExternalEdit
    BY <2>1, SameDocuments DEF ExternalEdit, Library!Next, Library!Edit
  <2>2. CASE ~ExternalEdit
    <3>1. edits' = edits
      BY <2>2 DEF StoreNext, vars, Step, Preflight, Acquire, Read, Request, SaveCheck, BackupTemp,
        BackupMove, PublishTemp, PublishMove, HintTemp, HintMove, WriteTemp, Fail, Exit
    <3>2. PICK l \in Launchers : PublishMove(l)
      BY <3>1, OnlyPublishChanges
    <3> QED BY <3>1, <3>2, PublishCommits, SameDocuments DEF Library!Next, Library!Commit
  <2> QED BY <2>1, <2>2
<1> QED BY <1>1, <1>2, StoreInvariant, PTL DEF StoreSpec, NoLostUpdate, Library!Spec

\* Whatever document Save replaces is in the backup file when it disappears.
THEOREM ReplacedIsKept == StoreSpec => ReplacedIsBackedUp
<1>1. StoreInv /\ [StoreNext]_vars
        => [edits' = edits /\ primary' # primary => primary = None \/ backup = primary]_vars
  BY OnlyPublishChanges, PublishCommits
<1> QED BY <1>1, StoreInvariant, PTL DEF StoreSpec, ReplacedIsBackedUp
-----------------------------------------------------------------------------
(* Opening the store again *)

\* Without edits the file is never damaged, and once a backup exists there is
\* always a document.
Durable == edits = 0 => primary # Damaged /\ (backup # None => primary # None)
DurableInv == StoreInv /\ Durable

\* Two moves touch the files, and the backup is a copy of a file that stays.
LEMMA StepDurable ==
  ASSUME DurableInv, NEW l \in Launchers, Step(l)
  PROVE  Durable'
<1>1. CASE BackupMove(l)
  <2>1. pc[l] = "backup_move" /\ UNCHANGED <<primary, edits>>
    BY <1>1 DEF BackupMove
  <2>2. previous[l] # None /\ primary = previous[l]
    BY <2>1 DEF DurableInv, StoreInv, TypeInv, Moving, SaveInv, SaveOnCurrent, SaveSteps
  <2> QED BY <2>1, <2>2 DEF DurableInv, Durable
<1>2. CASE PublishMove(l)
  <2>1. pc[l] = "publish_move" /\ primary' = temp[l]
    BY <1>2 DEF PublishMove
  <2>2. temp[l] \in Preferences
    BY <2>1 DEF DurableInv, StoreInv, TypeInv, Moving, StoreTypeOK
  <2> QED BY <2>1, <2>2, NotDocuments DEF Durable
<1>3. CASE ~BackupMove(l) /\ ~PublishMove(l)
  <2>1. UNCHANGED <<primary, edits, backup>>
    BY <1>3 DEF Step, Preflight, Acquire, Read, Request, SaveCheck, BackupTemp, PublishTemp, HintTemp,
      HintMove, WriteTemp, Fail, Exit
  <2> QED BY <2>1 DEF DurableInv, Durable
<1> QED BY <1>1, <1>2, <1>3

\* Whatever write fails and whichever process dies, a saved store is opened
\* again; the only refusal without an edit is the interrupted first save.
THEOREM SavedStoreReopens == StoreSpec => []SavedStoreStaysOpenable
<1>1. StoreInit => Durable
  BY LibraryConstants DEF StoreInit, Durable
<1>2. StoreInv /\ Durable /\ [StoreNext]_vars => Durable'
  <2> SUFFICES ASSUME StoreInv, Durable, [StoreNext]_vars  PROVE Durable'
    OBVIOUS
  <2>1. CASE UNCHANGED vars
    BY <2>1 DEF vars, Durable
  <2>2. CASE ExternalEdit
    <3>1. edits' # 0
      BY <2>2 DEF ExternalEdit, StoreInv, TypeInv, StoreTypeOK
    <3> QED BY <3>1 DEF Durable
  <2>3. CASE \E l \in Launchers : Step(l)
    BY <2>3, StepDurable DEF DurableInv
  <2> QED BY <2>1, <2>2, <2>3 DEF StoreNext
<1>3. StoreInv /\ Durable => SavedStoreStaysOpenable
  <2> SUFFICES ASSUME StoreInv, Durable, edits = 0
               PROVE  /\ backup # None => primary \in Preferences
                      /\ ~Openable => primary = None /\ (litter \/ \E l \in Launchers : temp[l] # None)
    BY DEF SavedStoreStaysOpenable
  <2>1. primary \in Preferences \cup {None} /\ (backup # None => primary # None)
    BY DEF StoreInv, TypeInv, StoreTypeOK, Durable
  <2>2. ~Openable => primary = None /\ ~EmptyFirstRunDirectory
    BY <2>1, NotDocuments, LibraryConstants DEF Openable
  <2>3. ~Openable => litter \/ \E l \in Launchers : temp[l] # None
    BY <2>1, <2>2 DEF EmptyFirstRunDirectory
  <2> QED BY <2>1, <2>2, <2>3
<1> QED BY <1>1, <1>2, <1>3, StoreInvariant, PTL DEF StoreSpec
=============================================================================
