--------------------------- MODULE InstallAtomic ---------------------------
(***************************************************************************)
(* InstallTransaction implements AtomicProject: of all the steps that      *)
(* commands, failures, crashes and other processes take, only the          *)
(* publication of a Committed record installs anything, and only a user's  *)
(* edit changes package.json otherwise.                                    *)
(***************************************************************************)
EXTENDS InstallProofs

\* The project in terms of its parts.
KeptManifest == IF RollsBack THEN Pending.manifest ELSE manifest
KeptLock == IF RollsBack THEN Pending.lock ELSE lock

\* The parts stay, so the project does.
LEMMA SameParts ==
    ASSUME KeptManifest' = KeptManifest, KeptLock' = KeptLock,
           \A r \in Roots : /\ KeptTree(r)' = KeptTree(r)
                            /\ KeptMarker(r)' = KeptMarker(r)
    PROVE  Project' = Project
BY DEF Project, KeptManifest, KeptLock

\* A root keeps what it holds while its files and the record stay.
LEMMA SameKept ==
    ASSUME Pending' = Pending, NEW r \in Roots,
           tree'[r] = tree[r], marker'[r] = marker[r],
           treeBak'[r] = treeBak[r], markerBak'[r] = markerBak[r]
    PROVE  KeptTree(r)' = KeptTree(r) /\ KeptMarker(r)' = KeptMarker(r)
BY DEF KeptTree, KeptMarker, RollsBack

\* Under a Prepared record it does not matter what package.json and tapid.lock
\* say.
LEMMA FilesDoNotMatter ==
    ASSUME Pending' = Pending, UNCHANGED <<tree, marker, treeBak, markerBak>>,
           RollsBack \/ UNCHANGED <<manifest, lock>>
    PROVE  Project' = Project
<1>1. KeptManifest' = KeptManifest /\ KeptLock' = KeptLock
  BY DEF KeptManifest, KeptLock, RollsBack
<1>2. \A r \in Roots : /\ KeptTree(r)' = KeptTree(r)
                       /\ KeptMarker(r)' = KeptMarker(r)
  BY SameKept
<1>. QED
  BY <1>1, <1>2, SameParts

\* A step in one root that keeps what recovery would leave there.
LEMMA OneRootKept ==
    ASSUME Pending' = Pending, UNCHANGED <<manifest, lock>>, NEW c \in Roots,
           \A r \in Roots \ {c} :
              /\ tree'[r] = tree[r] /\ marker'[r] = marker[r]
              /\ treeBak'[r] = treeBak[r] /\ markerBak'[r] = markerBak[r],
           KeptTree(c)' = KeptTree(c), KeptMarker(c)' = KeptMarker(c)
    PROVE  Project' = Project
<1>1. KeptManifest' = KeptManifest /\ KeptLock' = KeptLock
  BY DEF KeptManifest, KeptLock, RollsBack
<1>2. ASSUME NEW r \in Roots
      PROVE  KeptTree(r)' = KeptTree(r) /\ KeptMarker(r)' = KeptMarker(r)
  BY SameKept
<1>. QED
  BY <1>1, <1>2, SameParts

-----------------------------------------------------------------------------
(* Steps that move no file of the project *)

\* Planning, locking, deciding, storing and failing.
LEMMA StillSteps ==
    ASSUME \/ ReadJournal \/ RecoverStore \/ PickRoot \/ DropStage
           \/ DiscardLeftover \/ Exit \/ TruncateOwner \/ WriteOwner
           \/ CheckPlan \/ Begun \/ WriteTemp \/ Prepare \/ RejectLock
           \/ RecordMembers \/ RecordStore \/ Publish \/ PublishTrees
           \/ UseStore \/ Stage \/ Activate \/ Unstage \/ MarkCommitted
           \/ CommitStore \/ DiscardLockBackup \/ RollbackStore \/ Fail
           \/ JournalDisappeared \/ Error \/ ErrorInPublish
           \/ ErrorInActivation \/ RecoveryError \/ Crash
           \/ OtherRecoversStore \/ OthersUseStore
           \/ \E w \in Waiting : Plan(w) \/ Busy(w) \/ Acquire(w)
    PROVE  Project' = Project
<1>1. UNCHANGED <<tree, marker, treeBak, markerBak, journal, journalBak,
                  manifest, lock>>
  <2> USE DEF rootVars, journalVars, fileVars
  <2>1. CASE \/ ReadJournal \/ RecoverStore \/ PickRoot \/ DropStage
             \/ DiscardLeftover \/ Exit
    BY <2>1 DEF ReadJournal, RecoverStore, PickRoot, DropStage, RemoveStage,
       DiscardLeftover, Exit
  <2>2. CASE \/ TruncateOwner \/ WriteOwner \/ CheckPlan \/ Begun \/ WriteTemp
             \/ Prepare \/ RejectLock \/ RecordMembers \/ RecordStore
    BY <2>2 DEF TruncateOwner, WriteOwner, CheckPlan, Begun, WriteTemp,
       Prepare, RejectLock, RecordMembers, RecordStore
  <2>3. CASE \/ Publish \/ PublishTrees \/ UseStore \/ Stage \/ Activate
             \/ Unstage \/ MarkCommitted \/ CommitStore \/ DiscardLockBackup
    BY <2>3 DEF Publish, PublishTrees, UseStore, Stage, CreateStage, Activate,
       Unstage, RemoveStages, MarkCommitted, CommitStore, DiscardLockBackup
  <2>4. CASE \/ RollbackStore \/ Fail \/ JournalDisappeared \/ Error
             \/ ErrorInPublish \/ ErrorInActivation \/ RecoveryError \/ Crash
    BY <2>4 DEF RollbackStore, Fail, JournalDisappeared, Error,
       ErrorInPublish, ErrorInActivation, RecoveryError, Crash
  <2>5. CASE \/ OtherRecoversStore \/ OthersUseStore
             \/ \E w \in Waiting : Plan(w) \/ Busy(w) \/ Acquire(w)
    BY <2>5 DEF OtherRecoversStore, OthersUseStore, Plan, Busy, Acquire
  <2>. QED
    BY <2>1, <2>2, <2>3, <2>4, <2>5
<1>. QED
  BY <1>1, FilesDoNotMatter DEF Pending

\* Moving the record to and from its backup.
LEMMA JournalSteps ==
    ASSUME IInv,
           \/ RestoreJournal \/ RemoveBackupJournal \/ VacateJournal
           \/ WriteSync \/ ErrorInSwap
    PROVE  Project' = Project
<1>1. Pending' = Pending
  BY JournalStays DEF IInv
<1>2. UNCHANGED <<tree, marker, treeBak, markerBak, manifest, lock>>
  BY DEF RestoreJournal, RemoveBackupJournal, VacateJournal, WriteSync,
     ErrorInSwap, rootVars, fileVars
<1>. QED
  BY <1>1, <1>2, FilesDoNotMatter

\* package.json and tapid.lock are written only while the record holds them.
LEMMA FileSteps ==
    ASSUME IInv,
           \/ VacateManifest \/ RestoreManifest \/ RestoreLock
           \/ TruncateManifest \/ WriteManifest \/ BackUpLock \/ PlaceLock
           \/ RollbackLock
    PROVE  Project' = Project
<1>1. Pending' = Pending /\ UNCHANGED <<tree, marker, treeBak, markerBak>>
  BY DEF VacateManifest, RestoreManifest, RestoreLock, TruncateManifest,
     WriteManifest, BackUpLock, PlaceLock, RollbackLock, rootVars,
     journalVars, Pending
<1>2. CASE VacateManifest \/ RestoreManifest \/ RestoreLock
  <2>1. pc \in {"restoreManifest", "placeManifest", "restoreLock"}
    BY <1>2 DEF VacateManifest, RestoreManifest, RestoreLock
  <2>2. RollsBack
    BY <2>1 DEF IInv, RecoveryOK, Recovering, RollsBack, Pending
  <2>. QED
    BY <1>1, <2>2, FilesDoNotMatter
<1>3. CASE \/ TruncateManifest \/ WriteManifest \/ BackUpLock \/ PlaceLock
           \/ RollbackLock
  <2>1. Holding
    BY <1>3 DEF TruncateManifest, WriteManifest, BackUpLock, PlaceLock,
       RollbackLock, Holding, Working, Editing, Locking
  <2>2. RollsBack
    BY <2>1, Rewriting DEF IInv
  <2>. QED
    BY <1>1, <2>2, FilesDoNotMatter
<1>. QED
  BY <1>2, <1>3

-----------------------------------------------------------------------------
(* Steps in a root *)

\* An operation on root c leaves the other roots alone.
LEMMA OtherFiles ==
    ASSUME TypeOK, NEW c \in Roots, NEW o \in Owners, NEW v,
           \/ BackUpMarker(c, o) \/ BackUpTree(c, o) \/ MoveStageIn(c, v)
           \/ WriteMarker(c) \/ RemoveTree(c, v) \/ RestoreTree(c, o)
           \/ RemoveMarker(c) \/ RestoreMarker(c, o)
           \/ DropMarkerBackup(c, o) \/ DropTreeBackup(c, o, v)
    PROVE  \A r \in Roots \ {c} :
              /\ tree'[r] = tree[r] /\ marker'[r] = marker[r]
              /\ treeBak'[r] = treeBak[r] /\ markerBak'[r] = markerBak[r]
BY DEF TypeOK, RootsTypeOK, BackUpMarker, BackUpTree, MoveStageIn,
   WriteMarker, RemoveTree, RestoreTree, RemoveMarker, RestoreMarker,
   DropMarkerBackup, DropTreeBackup

\* What an operation on root c leaves there.
LEMMA FilesAfter ==
    ASSUME TypeOK, NEW c \in Roots, NEW o \in Owners, NEW v
    PROVE  /\ BackUpMarker(c, o) =>
                 /\ marker'[c] = None /\ markerBak'[c][o] = marker[c]
                 /\ UNCHANGED <<tree, treeBak>>
           /\ BackUpTree(c, o) =>
                 /\ tree'[c] = None /\ treeBak'[c][o] = tree[c]
                 /\ UNCHANGED <<marker, markerBak>>
           /\ MoveStageIn(c, v) \/ RemoveTree(c, v) =>
                 tree'[c] = v /\ UNCHANGED <<marker, treeBak, markerBak>>
           /\ WriteMarker(c) =>
                 /\ marker'[c] = Managed
                 /\ UNCHANGED <<tree, treeBak, markerBak>>
           /\ RemoveMarker(c) =>
                 marker'[c] = None /\ UNCHANGED <<tree, treeBak, markerBak>>
           /\ RestoreTree(c, o) =>
                 /\ tree'[c] = treeBak[c][o] /\ treeBak'[c][o] = None
                 /\ UNCHANGED <<marker, markerBak>>
           /\ RestoreMarker(c, o) =>
                 /\ marker'[c] = markerBak[c][o] /\ markerBak'[c][o] = None
                 /\ UNCHANGED <<tree, treeBak>>
<1> USE DEF TypeOK, RootsTypeOK
<1>1. BackUpMarker(c, o) =>
         /\ marker'[c] = None /\ markerBak'[c][o] = marker[c]
         /\ UNCHANGED <<tree, treeBak>>
  BY DEF BackUpMarker
<1>2. BackUpTree(c, o) =>
         /\ tree'[c] = None /\ treeBak'[c][o] = tree[c]
         /\ UNCHANGED <<marker, markerBak>>
  BY DEF BackUpTree
<1>3. MoveStageIn(c, v) \/ RemoveTree(c, v) =>
         tree'[c] = v /\ UNCHANGED <<marker, treeBak, markerBak>>
  BY DEF MoveStageIn, RemoveTree
<1>4. WriteMarker(c) =>
         marker'[c] = Managed /\ UNCHANGED <<tree, treeBak, markerBak>>
  BY DEF WriteMarker
<1>5. RemoveMarker(c) =>
         marker'[c] = None /\ UNCHANGED <<tree, treeBak, markerBak>>
  BY DEF RemoveMarker
<1>6. RestoreTree(c, o) =>
         /\ tree'[c] = treeBak[c][o] /\ treeBak'[c][o] = None
         /\ UNCHANGED <<marker, markerBak>>
  BY DEF RestoreTree
<1>7. RestoreMarker(c, o) =>
         /\ marker'[c] = markerBak[c][o] /\ markerBak'[c][o] = None
         /\ UNCHANGED <<tree, treeBak>>
  BY DEF RestoreMarker
<1>. QED
  BY <1>1, <1>2, <1>3, <1>4, <1>5, <1>6, <1>7

\* Restoring what was saved leaves what recovery would have left.
LEMMA RestoreKeeps ==
    ASSUME TypeOK, NEW c \in Roots, RootHeld(c), RollsBack,
           c \in Pending.roots, Pending' = Pending,
           UNCHANGED <<manifest, lock>>,
           NEW o \in Owners, o = Pending.owner,
           \/ RestoreTree(c, o) /\ SavedTree(c) # None
           \/ RestoreMarker(c, o) /\ SavedMarker(c) # None
    PROVE  Project' = Project
<1>1. RollsBack' /\ Pending'.roots = Pending.roots
  BY DEF RollsBack
<1>2. /\ SavedTree(c) # None => c \in Pending.hadTree
      /\ SavedMarker(c) # None => c \in Pending.hadMarker
  BY DEF RootHeld
<1>3. SavedTree(c) = treeBak[c][o] /\ SavedMarker(c) = markerBak[c][o]
  BY DEF SavedTree, SavedMarker
<1>4. SavedTree(c)' = treeBak'[c][o] /\ SavedMarker(c)' = markerBak'[c][o]
  BY DEF SavedTree, SavedMarker
<1>5. KeptTree(c)' = KeptTree(c) /\ KeptMarker(c)' = KeptMarker(c)
  BY <1>1, <1>2, <1>3, <1>4, FilesAfter DEF KeptTree, KeptMarker, SavedTree,
     SavedMarker
<1>6. \A r \in Roots \ {c} :
         /\ tree'[r] = tree[r] /\ marker'[r] = marker[r]
         /\ treeBak'[r] = treeBak[r] /\ markerBak'[r] = markerBak[r]
  BY OtherFiles
<1>. QED
  BY <1>5, <1>6, OneRootKept

\* A tree or marker that the record does not count on may come and go.
LEMMA ReplaceKeeps ==
    ASSUME TypeOK, NEW c \in Roots, RollsBack, c \in Pending.roots,
           Pending' = Pending, UNCHANGED <<manifest, lock>>, NEW v,
           \/ /\ MoveStageIn(c, v) \/ RemoveTree(c, v)
              /\ SavedTree(c) # None \/ c \notin Pending.hadTree
           \/ /\ WriteMarker(c) \/ RemoveMarker(c)
              /\ SavedMarker(c) # None \/ c \notin Pending.hadMarker
    PROVE  Project' = Project
<1>1. RollsBack' /\ Pending'.roots = Pending.roots
  BY DEF RollsBack
<1>2. Pending.owner \in Owners
  BY PendingType, RecordAssumption DEF RollsBack, Record
<1>3. /\ UNCHANGED <<treeBak, markerBak>>
      /\ tree'[c] # tree[c] => SavedTree(c) # None \/ c \notin Pending.hadTree
      /\ marker'[c] # marker[c] =>
            SavedMarker(c) # None \/ c \notin Pending.hadMarker
  BY <1>2, FilesAfter
<1>4. KeptTree(c)' = KeptTree(c) /\ KeptMarker(c)' = KeptMarker(c)
  BY <1>1, <1>3 DEF KeptTree, KeptMarker, SavedTree, SavedMarker
<1>5. \A r \in Roots \ {c} :
         /\ tree'[r] = tree[r] /\ marker'[r] = marker[r]
         /\ treeBak'[r] = treeBak[r] /\ markerBak'[r] = markerBak[r]
  BY <1>2, OtherFiles
<1>. QED
  BY <1>4, <1>5, OneRootKept

\* Moving aside what the record counts on saves it.
LEMMA BackUpKeeps ==
    ASSUME TypeOK, NEW c \in Roots, RollsBack, c \in Pending.roots,
           Pending' = Pending, UNCHANGED <<manifest, lock>>,
           NEW o \in Owners, o = Pending.owner,
           \/ /\ BackUpTree(c, o) /\ tree[c] # None
              /\ SavedTree(c) = None /\ c \in Pending.hadTree
           \/ /\ BackUpMarker(c, o) /\ marker[c] # None
              /\ SavedMarker(c) = None /\ c \in Pending.hadMarker
    PROVE  Project' = Project
<1>1. RollsBack' /\ Pending'.roots = Pending.roots
  BY DEF RollsBack
<1>2. KeptTree(c)' = KeptTree(c) /\ KeptMarker(c)' = KeptMarker(c)
  BY <1>1, FilesAfter DEF KeptTree, KeptMarker, SavedTree, SavedMarker
<1>3. \A r \in Roots \ {c} :
         /\ tree'[r] = tree[r] /\ marker'[r] = marker[r]
         /\ treeBak'[r] = treeBak[r] /\ markerBak'[r] = markerBak[r]
  BY OtherFiles
<1>. QED
  BY <1>2, <1>3, OneRootKept

\* Recovery of a root, either way.
LEMMA RecoverySteps ==
    ASSUME IInv,
           \/ Unmark \/ Remark \/ ClearTree \/ RestorePriorTree
           \/ CommitMarker \/ CommitTree
    PROVE  Project' = Project
<1>1. /\ journal \in Record /\ Pending = journal /\ Pending # None
      /\ cur \in Roots /\ cur \in Pending.roots /\ Pending.owner \in Owners
  BY RecordAssumption DEF IInv, Unmark, Remark, ClearTree, RestorePriorTree,
     CommitMarker, CommitTree, TypeOK, JournalTypeOK, RecoveryOK, Recovering,
     Walking, RollingBack, RollingForward, Pending, Record
<1>2. Pending' = Pending /\ UNCHANGED <<manifest, lock>>
  BY DEF Unmark, Remark, ClearTree, RestorePriorTree, CommitMarker,
     CommitTree, journalVars, fileVars, Pending
<1>3. TypeOK /\ RootHeld(cur)
  BY <1>1 DEF IInv, OnDisk
<1>4. CASE UNCHANGED rootVars
  BY <1>2, <1>4, FilesDoNotMatter DEF rootVars
<1>5. CASE Unmark \/ Remark \/ ClearTree \/ RestorePriorTree
  <2>1. RollsBack
    BY <1>1, <1>5 DEF IInv, RecoveryOK, RollingBack, Unmark, Remark, ClearTree,
       RestorePriorTree, RollsBack
  <2>2. /\ SavedTree(cur) = treeBak[cur][journal.owner]
        /\ SavedMarker(cur) = markerBak[cur][journal.owner]
    BY <1>1 DEF SavedTree, SavedMarker
  <2>3. \/ UNCHANGED rootVars
        \/ /\ RemoveMarker(cur)
           /\ SavedMarker(cur) # None \/ cur \notin Pending.hadMarker
        \/ RestoreMarker(cur, journal.owner) /\ SavedMarker(cur) # None
        \/ /\ \E left \in {None, Torn} : RemoveTree(cur, left)
           /\ SavedTree(cur) # None \/ cur \notin Pending.hadTree
        \/ RestoreTree(cur, journal.owner) /\ SavedTree(cur) # None
    BY <1>1, <1>5, <2>2 DEF Unmark, Remark, ClearTree, RestorePriorTree
  <2>. QED
    BY <1>1, <1>2, <1>3, <1>4, <2>1, <2>3, RestoreKeeps, ReplaceKeeps
<1>6. CASE CommitMarker \/ CommitTree
  <2>1. ~RollsBack /\ ~RollsBack'
    BY <1>1, <1>2, <1>6 DEF IInv, RecoveryOK, RollingForward, CommitMarker,
       CommitTree, RollsBack
  <2>2. UNCHANGED <<tree, marker>>
    BY <1>6 DEF CommitMarker, CommitTree, DropMarkerBackup, DropTreeBackup
  <2>. QED
    BY <1>2, <2>1, <2>2 DEF Project, KeptTree, KeptMarker
<1>. QED
  BY <1>5, <1>6

\* Activation of a root, and its undoing.
LEMMA ActivationSteps ==
    ASSUME IInv,
           \/ MoveMarkerAside \/ MoveTreeAside \/ MoveStage \/ MarkTree
           \/ UndoDestination \/ UndoTree \/ UndoMarker
    PROVE  Project' = Project
<1>1. pc \in Activating
  BY DEF MoveMarkerAside, MoveTreeAside, MoveStage, MarkTree, UndoDestination,
     UndoTree, UndoMarker, Activating
<1>2. RollsBack /\ Pending = journal /\ journal \in Record
  BY <1>1, Rewriting DEF IInv, Holding, Working, Materializing
<1>3. /\ ownerFile = Pending.owner /\ ownerFile \in Owners
      /\ cur \in Roots /\ Pending.roots = Roots
  BY <1>1, <1>2 DEF IInv, OnDisk, FilesHeld, OwnerNamesRecord, RollsBack,
     ActivationOK, MembersKnown, Materializing, Record, TypeOK
<1>4. Pending' = Pending /\ UNCHANGED <<manifest, lock>>
  BY DEF MoveMarkerAside, MoveTreeAside, MoveStage, MarkTree, UndoDestination,
     UndoTree, UndoMarker, journalVars, fileVars, Pending
<1>5. TypeOK /\ RootHeld(cur)
  BY <1>3 DEF IInv, OnDisk
<1>6. CASE UNCHANGED rootVars
  BY <1>4, <1>6, FilesDoNotMatter DEF rootVars
<1>7. /\ SavedTree(cur) = treeBak[cur][ownerFile]
      /\ SavedMarker(cur) = markerBak[cur][ownerFile]
  BY <1>3 DEF SavedTree, SavedMarker
<1>8. CASE MoveMarkerAside \/ MoveTreeAside
  <2>1. \/ UNCHANGED rootVars
        \/ /\ BackUpTree(cur, ownerFile) /\ tree[cur] # None
           /\ SavedTree(cur) = None /\ cur \in Pending.hadTree
        \/ /\ BackUpMarker(cur, ownerFile) /\ marker[cur] # None
           /\ SavedMarker(cur) = None /\ cur \in Pending.hadMarker
    BY <1>8 DEF MoveMarkerAside, MoveTreeAside, IInv, ActivationOK, Untouched
  <2>. QED
    BY <1>2, <1>3, <1>4, <1>5, <1>6, <2>1, BackUpKeeps
<1>9. CASE MoveStage \/ MarkTree \/ UndoDestination
  <2>1. CASE MoveStage
    <3>1. MoveStageIn(cur, goal) /\ TreeSaved(cur)
      BY <2>1 DEF MoveStage, IInv, ActivationOK
    <3>. QED
      BY <1>2, <1>3, <1>4, <1>5, <3>1, ReplaceKeeps DEF TreeSaved
  <2>2. CASE UndoDestination
    <3>1. /\ \E left \in {None, Torn} : RemoveTree(cur, left)
          /\ TreeSaved(cur)
      BY <2>2 DEF UndoDestination, IInv, ActivationOK
    <3>. QED
      BY <1>2, <1>3, <1>4, <1>5, <3>1, ReplaceKeeps DEF TreeSaved
  <2>3. CASE MarkTree
    <3>1. WriteMarker(cur) /\ MarkerSaved(cur)
      BY <2>3 DEF MarkTree, IInv, ActivationOK
    <3>2. SavedMarker(cur) # None \/ cur \notin Pending.hadMarker
      BY <3>1, RootsAssumption DEF MarkerSaved
    <3>. QED
      BY <1>2, <1>3, <1>4, <1>5, <3>1, <3>2, ReplaceKeeps
  <2>. QED
    BY <1>9, <2>1, <2>2, <2>3
<1>10. CASE UndoTree \/ UndoMarker
  <2>1. \/ UNCHANGED rootVars
        \/ RestoreTree(cur, ownerFile) /\ SavedTree(cur) # None
        \/ RestoreMarker(cur, ownerFile) /\ SavedMarker(cur) # None
    BY <1>7, <1>10 DEF UndoTree, UndoMarker
  <2>. QED
    BY <1>2, <1>3, <1>4, <1>5, <1>6, <2>1, RestoreKeeps
<1>. QED
  BY <1>8, <1>9, <1>10

\* Without a record there are no backups, so recovery moves nothing.
LEMMA AloneStep == ASSUME IInv, RecoverAlone PROVE Project' = Project
<1>1. /\ Pending = None /\ Pending' = Pending /\ UNCHANGED <<manifest, lock>>
  BY DEF RecoverAlone, journalVars, fileVars, Pending
<1>2. CASE UNCHANGED rootVars
  BY <1>1, <1>2, FilesDoNotMatter DEF rootVars
<1>3. CASE ownerFile # None /\ RecoverUncoordinated(Root, ownerFile)
  <2>1. ownerFile \in Owners /\ Root \in Roots
    BY <1>3 DEF IInv, TypeOK, Roots
  <2>2. treeBak[Root][ownerFile] = None /\ markerBak[Root][ownerFile] = None
    BY <1>1, <2>1 DEF IInv, OnDisk, RootHeld
  <2>3. tree' = tree /\ marker' = marker
    BY <1>3, <2>1, <2>2 DEF RecoverUncoordinated, IInv, TypeOK, RootsTypeOK
  <2>4. ~RollsBack /\ ~RollsBack'
    BY <1>1 DEF RollsBack
  <2>. QED
    BY <1>1, <2>3, <2>4 DEF Project, KeptTree, KeptMarker
<1>. QED
  BY <1>2, <1>3 DEF RecoverAlone

\* The record goes only when the files are what it would restore.
LEMMA EndSteps ==
    ASSUME IInv, EndTransaction \/ ErrorAfterEnd PROVE Project' = Project
<1>1. /\ pc = "removeJournal" /\ journal' = None /\ journalBak' = journalBak
      /\ UNCHANGED <<tree, marker, treeBak, markerBak, manifest, lock>>
  BY DEF EndTransaction, ErrorAfterEnd, RemoveJournal, rootVars, fileVars
<1>2. /\ journal # None /\ journalBak = None
      /\ \A r \in journal.roots : MarkerSettled(r) /\ TreeSettled(r)
      /\ journal.state = "Prepared" =>
            manifest = journal.manifest /\ lock = journal.lock
  BY <1>1 DEF IInv, RecoveryOK, Recovering, Ending
<1>3. Pending = journal /\ Pending' = None /\ ~RollsBack'
  BY <1>1, <1>2 DEF Pending, RollsBack
<1>4. KeptManifest' = KeptManifest /\ KeptLock' = KeptLock
  BY <1>1, <1>2, <1>3 DEF KeptManifest, KeptLock, RollsBack
<1>5. ASSUME NEW r \in Roots
      PROVE  KeptTree(r)' = KeptTree(r) /\ KeptMarker(r)' = KeptMarker(r)
  <2>1. KeptTree(r)' = tree[r] /\ KeptMarker(r)' = marker[r]
    BY <1>1, <1>3 DEF KeptTree, KeptMarker
  <2>2. RollsBack /\ r \in Pending.roots =>
           /\ treeBak[r][Pending.owner] = None
           /\ markerBak[r][Pending.owner] = None
           /\ r \notin Pending.hadTree => tree[r] = None
           /\ r \notin Pending.hadMarker => marker[r] = None
    BY <1>2, <1>3 DEF MarkerSettled, TreeSettled, RollsBack
  <2>. QED
    BY <2>1, <2>2 DEF KeptTree, KeptMarker
<1>. QED
  BY <1>4, <1>5, SameParts

-----------------------------------------------------------------------------
(* The steps that decide *)

\* Publishing the first record: it describes the project as it is.
LEMMA PublishBegin ==
    ASSUME IInv, PublishRecord, ret = "begun" PROVE Project' = Project
<1>1. /\ pc = "swapIn" /\ journal' = rec
      /\ UNCHANGED <<tree, marker, treeBak, markerBak, manifest, lock>>
  BY DEF PublishRecord, SwapIn, rootVars, fileVars
<1>2. rec # None /\ BeginOK(rec)
  BY <1>1 DEF IInv, WriteOK, Writing
<1>3. Pending = None /\ ~RollsBack
  BY <1>1 DEF IInv, PositionOK, Clean, Writing, RollsBack
<1>4. Pending' = rec /\ RollsBack' /\ rec \in Record
  BY <1>1, <1>2 DEF Pending, RollsBack, BeginOK, IInv, TypeOK
<1>5. KeptManifest' = KeptManifest /\ KeptLock' = KeptLock
  BY <1>1, <1>2, <1>3, <1>4 DEF KeptManifest, KeptLock, BeginOK
<1>6. ASSUME NEW r \in Roots
      PROVE  KeptTree(r)' = KeptTree(r) /\ KeptMarker(r)' = KeptMarker(r)
  <2>1. KeptTree(r) = tree[r] /\ KeptMarker(r) = marker[r]
    BY <1>3 DEF KeptTree, KeptMarker
  <2>2. treeBak[r][rec.owner] = None /\ markerBak[r][rec.owner] = None
    BY <1>3, <1>4 DEF IInv, OnDisk, RootHeld, Record
  <2>3. r \in rec.roots => /\ r \in rec.hadTree <=> tree[r] # None
                           /\ r \in rec.hadMarker <=> marker[r] # None
    BY <1>2 DEF BeginOK, WithTree, WithMarker
  <2>. QED
    BY <1>1, <1>4, <2>1, <2>2, <2>3 DEF KeptTree, KeptMarker
<1>. QED
  BY <1>5, <1>6, SameParts

\* Recording the members or the store root: the record comes to hold more of
\* the same project.
LEMMA PublishMore ==
    ASSUME IInv, PublishRecord, ret \in {"recordStore", "publish"}
    PROVE  Project' = Project
<1>1. /\ pc = "swapIn" /\ journal' = rec
      /\ UNCHANGED <<tree, marker, treeBak, markerBak, manifest, lock>>
  BY DEF PublishRecord, SwapIn, rootVars, fileVars
<1>2. /\ rec # None /\ RollsBack
      /\ rec = WithMembers(Pending) \/ rec = WithStore(Pending)
  BY <1>1 DEF IInv, WriteOK, Writing
<1>3. Pending \in Record /\ Pending.owner \in Owners
  BY <1>2, PendingType DEF IInv, RollsBack, Record
<1>4. /\ rec.owner = Pending.owner /\ rec.state = Pending.state
      /\ rec.manifest = Pending.manifest /\ rec.lock = Pending.lock
  BY <1>2, <1>3, WithMembersFields, WithStoreFields
<1>5. Pending' = rec /\ RollsBack'
  BY <1>1, <1>2, <1>4 DEF Pending, RollsBack
<1>6. KeptManifest' = KeptManifest /\ KeptLock' = KeptLock
  BY <1>2, <1>4, <1>5 DEF KeptManifest, KeptLock
<1>7. ASSUME NEW r \in Roots
      PROVE  KeptTree(r)' = KeptTree(r) /\ KeptMarker(r)' = KeptMarker(r)
  <2>1. CASE rec = WithStore(Pending)
    <3>1. /\ rec.roots = Pending.roots /\ rec.hadTree = Pending.hadTree
          /\ rec.hadMarker = Pending.hadMarker
      BY <1>3, <2>1, WithStoreFields
    <3>. QED
      BY <1>1, <1>2, <1>4, <1>5, <3>1 DEF KeptTree, KeptMarker
  <2>2. CASE rec = WithMembers(Pending)
    <3>1. /\ rec.roots = Roots
          /\ rec.hadTree = Pending.hadTree \cup WithTree(Members)
          /\ rec.hadMarker = Pending.hadMarker \cup WithMarker(Members)
      BY <1>3, <2>2, WithMembersFields
    <3>2. /\ treeBak[r][Pending.owner] = None
          /\ markerBak[r][Pending.owner] = None
      <4>1. r \in Pending.roots => Untouched(r)
        BY <1>1 DEF IInv, ActivationOK, BeforeActivation, Writing
      <4>2. r \notin Pending.roots =>
               SavedTree(r) = None /\ SavedMarker(r) = None
        BY <1>2 DEF IInv, OnDisk, RootHeld, RollsBack
      <4>. QED
        BY <4>1, <4>2 DEF Untouched, SavedTree, SavedMarker
    <3>3. KeptTree(r) = tree[r] /\ KeptMarker(r) = marker[r]
      <4>1. r \in Pending.roots =>
               /\ r \in Pending.hadTree <=> tree[r] # None
               /\ r \in Pending.hadMarker <=> marker[r] # None
        BY <1>1 DEF IInv, ActivationOK, BeforeActivation, Writing, Untouched
      <4>. QED
        BY <3>2, <4>1 DEF KeptTree, KeptMarker
    <3>4. /\ r \in rec.hadTree <=> tree[r] # None
          /\ r \in rec.hadMarker <=> marker[r] # None
      <4>1. r \in Pending.roots =>
               /\ r \in Pending.hadTree <=> tree[r] # None
               /\ r \in Pending.hadMarker <=> marker[r] # None
        BY <1>1 DEF IInv, ActivationOK, BeforeActivation, Writing, Untouched
      <4>2. /\ Root \in Pending.roots
            /\ Pending.hadTree \cup Pending.hadMarker \subseteq Pending.roots
        BY <1>2 DEF IInv, OnDisk, FilesHeld, RollsBack
      <4>. QED
        BY <3>1, <4>1, <4>2 DEF WithTree, WithMarker, Roots
    <3>. QED
      BY <1>1, <1>4, <1>5, <3>1, <3>2, <3>3, <3>4 DEF KeptTree, KeptMarker
  <2>. QED
    BY <1>2, <2>1, <2>2
<1>. QED
  BY <1>6, <1>7, SameParts

\* Publishing the Committed record installs the goal, whole.
LEMMA PublishCommit ==
    ASSUME IInv, PublishRecord, ret = "committed"
    PROVE  goal \in Versions /\ Atomic!Install(goal)
<1>1. /\ pc = "swapIn" /\ journal' = rec
      /\ UNCHANGED <<tree, marker, treeBak, markerBak, manifest, lock>>
  BY DEF PublishRecord, SwapIn, rootVars, fileVars
<1>2. rec # None /\ RollsBack /\ rec = WithCommit(Pending)
  BY <1>1 DEF IInv, WriteOK, Writing
<1>3. Pending \in Record
  BY <1>2, PendingType DEF IInv, RollsBack
<1>4. ~RollsBack'
  BY <1>1, <1>2, <1>3, WithCommitFields DEF Pending, RollsBack
<1>5. goal \in Versions /\ manifest = goal /\ lock = goal
  BY <1>1 DEF IInv, ContentsOK, Installing, Towards, Complete, Writing
<1>6. Pending.roots = Roots /\ \A r \in Roots : Activated(r)
  BY <1>1 DEF IInv, ActivationOK, MembersKnown, Complete, Towards, Writing
<1>7. Project' = [manifest |-> goal, lock |-> goal,
                  tree |-> [r \in Roots |-> goal],
                  marker |-> [r \in Roots |-> Managed]]
  <2>1. \A r \in Roots : KeptTree(r)' = goal /\ KeptMarker(r)' = Managed
    BY <1>1, <1>4, <1>6 DEF KeptTree, KeptMarker, Activated
  <2>. QED
    BY <1>1, <1>4, <1>5, <2>1 DEF Project
<1>8. ASSUME NEW r \in Roots
      PROVE  \/ KeptMarker(r) = Managed
             \/ KeptMarker(r) = None /\ KeptTree(r) = None
  <2>1. MarkerSaved(r)
    BY <1>6 DEF Activated
  <2>2. /\ SavedTree(r) # None => r \in Pending.hadTree
        /\ SavedMarker(r) # None => r \in Pending.hadMarker
    BY <1>2 DEF IInv, OnDisk, RootHeld
  <2>. QED
    BY <1>2, <1>6, <2>1, <2>2, RootsAssumption DEF MarkerSaved, SavedTree,
       SavedMarker, KeptTree, KeptMarker
<1>9. Atomic!Owned
  BY <1>8 DEF Atomic!Owned, Project
<1>. QED
  BY <1>5, <1>7, <1>9 DEF Atomic!Install

\* A user's edit is the user's, or is undone with the pending record.
LEMMA EditStep ==
    ASSUME UserEdit
    PROVE  \/ Project' = Project
           \/ \E v \in Versions : Atomic!EditManifest(v)
<1>1. PICK v \in Versions : manifest' = v
  BY DEF UserEdit
<1>2. /\ Pending' = Pending
      /\ UNCHANGED <<tree, marker, treeBak, markerBak, lock>>
  BY DEF UserEdit, rootVars, journalVars, Pending
<1>3. CASE RollsBack
  BY <1>2, <1>3, FilesDoNotMatter
<1>4. CASE ~RollsBack
  <2>1. ~RollsBack'
    BY <1>2, <1>4 DEF RollsBack
  <2>2. \A r \in Roots : /\ KeptTree(r)' = KeptTree(r)
                         /\ KeptMarker(r)' = KeptMarker(r)
    BY <1>2, SameKept
  <2>. DEFINE T == [r \in Roots |-> KeptTree(r)]
              M == [r \in Roots |-> KeptMarker(r)]
  <2>3. Project = [manifest |-> manifest, lock |-> lock, tree |-> T,
                   marker |-> M]
    BY <1>4 DEF Project
  <2>4. Project' = [manifest |-> v, lock |-> lock, tree |-> T, marker |-> M]
    BY <1>1, <1>2, <2>1, <2>2 DEF Project
  <2>5. Project' = [Project EXCEPT !.manifest = v]
    <3>. HIDE DEF T, M
    <3>. QED
      BY <2>3, <2>4
  <2>. QED
    BY <2>5 DEF Atomic!EditManifest
<1>. QED
  BY <1>3, <1>4

-----------------------------------------------------------------------------
\* Every step of the implementation is a step of the abstract project or
\* leaves it as it is.
LEMMA NextIsAtomic ==
    ASSUME IInv, Next PROVE Atomic!Next \/ Project' = Project
<1>1. CASE Recover
  BY <1>1, StillSteps, JournalSteps, FileSteps, RecoverySteps, AloneStep,
     EndSteps DEF Recover
<1>2. CASE Install
  <2>1. CASE PublishRecord
    <3>1. ret \in {"begun", "recordStore", "publish", "committed"}
      BY <2>1 DEF IInv, TypeOK, WriteOK, Writing, PublishRecord
    <3>. QED
      BY <2>1, <3>1, PublishBegin, PublishMore, PublishCommit DEF Atomic!Next
  <2>2. CASE Install /\ ~PublishRecord
    BY <2>2, StillSteps, JournalSteps, FileSteps, ActivationSteps DEF Install
  <2>. QED
    BY <1>2, <2>1, <2>2
<1>3. CASE Unwind
  BY <1>3, StillSteps, FileSteps, ActivationSteps DEF Unwind
<1>4. CASE Break
  BY <1>4, StillSteps, JournalSteps, EndSteps DEF Break
<1>5. CASE Environment
  BY <1>5, StillSteps, EditStep DEF Environment, Atomic!Next
<1>6. CASE \E w \in Waiting : Plan(w) \/ Busy(w) \/ Acquire(w)
  BY <1>6, StillSteps
<1>. QED
  BY <1>1, <1>2, <1>3, <1>4, <1>5, <1>6 DEF Next

\* Whatever is interrupted, and however often, the project that recovery
\* yields changes only by a whole install or by the user's own edit
\* (perform_install, recover, acquire_mode, settle).
THEOREM InstallIsAtomic == Spec => AllOrNothing
<1>1. Init => Atomic!Init
  <2>1. SUFFICES ASSUME Init PROVE Atomic!Init
    OBVIOUS
  <2>2. ~RollsBack
    BY <2>1 DEF Init, JournalInit, RollsBack, Pending
  <2>3. \A r \in Roots : KeptTree(r) = tree[r] /\ KeptMarker(r) = marker[r]
    BY <2>2 DEF KeptTree, KeptMarker
  <2>4. /\ [r \in Roots |-> KeptTree(r)] \in [Roots -> Versions \cup {None}]
        /\ [r \in Roots |-> KeptMarker(r)] \in [Roots -> MarkerFile]
    BY <2>1, <2>3 DEF Init, RootsInit
  <2>. QED
    BY <2>1, <2>2, <2>4 DEF Init, Project, Atomic!Init
<1>2. IInv /\ [Next]_vars => [Atomic!Next]_Project
  <2>1. SUFFICES ASSUME IInv, [Next]_vars
                 PROVE  Atomic!Next \/ Project' = Project
    OBVIOUS
  <2>2. CASE Next
    BY <2>1, <2>2, NextIsAtomic
  <2>3. CASE UNCHANGED vars
    <3>1. /\ UNCHANGED <<rootVars, journalVars, fileVars>>
      BY <2>3 DEF vars
    <3>. QED
      BY <3>1, FilesDoNotMatter DEF rootVars, journalVars, fileVars, Pending
  <2>. QED
    BY <2>1, <2>2, <2>3
<1>. QED
  BY <1>1, <1>2, InvariantHolds, PTL DEF Spec, AllOrNothing, Atomic!Spec
=============================================================================
