--------------------------- MODULE InstallTypes ---------------------------
(***************************************************************************)
(* The records that write_record publishes, the files a step leaves in a   *)
(* root, and the proof that every step of InstallTransaction keeps TypeOK. *)
(***************************************************************************)
EXTENDS InstallInvariant, TLAPS


\* begin makes a Prepared record of the root alone.
LEMMA NewRecordFields ==
    ASSUME NEW o \in Owners, NEW m \in Versions, NEW l \in Versions \cup {None}
    PROVE  LET j == NewRecord(o, m, l) IN
           /\ j \in Record /\ j # None
           /\ j.owner = o /\ j.state = "Prepared" /\ ~j.store
           /\ j.manifest = m /\ j.lock = l
           /\ j.roots = {Root} /\ j.hadTree = WithTree({Root})
           /\ j.hadMarker = WithMarker({Root})
<1>1. /\ WithTree({Root}) \in SUBSET Roots
      /\ WithMarker({Root}) \in SUBSET Roots
      /\ {Root} \in SUBSET Roots
  BY DEF WithTree, WithMarker, Roots
<1>2. NewRecord(o, m, l) \in Record
  BY <1>1, Zenon DEF NewRecord, Record
<1>. QED
  BY <1>2, RecordAssumption DEF NewRecord

\* set_member_roots keeps the decision, the owner and the snapshots, and adds
\* the members with what they have.
LEMMA WithMembersFields ==
    ASSUME NEW j \in Record
    PROVE  LET k == WithMembers(j) IN
           /\ k \in Record /\ k # None
           /\ k.owner = j.owner /\ k.state = j.state /\ k.store = j.store
           /\ k.manifest = j.manifest /\ k.lock = j.lock
           /\ k.roots = Roots
           /\ k.hadTree = j.hadTree \cup WithTree(Members)
           /\ k.hadMarker = j.hadMarker \cup WithMarker(Members)
<1>1. /\ j.hadTree \cup WithTree(Members) \in SUBSET Roots
      /\ j.hadMarker \cup WithMarker(Members) \in SUBSET Roots
  BY DEF WithTree, WithMarker, Roots, Record
<1>. QED
  BY <1>1, RecordAssumption DEF WithMembers, Record

\* set_store_root changes nothing but the store root.
LEMMA WithStoreFields ==
    ASSUME NEW j \in Record
    PROVE  LET k == WithStore(j) IN
           /\ k \in Record /\ k # None
           /\ k.owner = j.owner /\ k.state = j.state /\ k.store
           /\ k.manifest = j.manifest /\ k.lock = j.lock
           /\ k.roots = j.roots /\ k.hadTree = j.hadTree
           /\ k.hadMarker = j.hadMarker
BY RecordAssumption DEF WithStore, Record

\* mark_committed changes nothing but the decision.
LEMMA WithCommitFields ==
    ASSUME NEW j \in Record
    PROVE  LET k == WithCommit(j) IN
           /\ k \in Record /\ k # None
           /\ k.owner = j.owner /\ k.state = "Committed" /\ k.store = j.store
           /\ k.manifest = j.manifest /\ k.lock = j.lock
           /\ k.roots = j.roots /\ k.hadTree = j.hadTree
           /\ k.hadMarker = j.hadMarker
BY RecordAssumption DEF WithCommit, Record

\* Recovery reads a record or nothing.
LEMMA PendingType == ASSUME TypeOK PROVE Pending \in Record \cup {None}
BY DEF TypeOK, JournalTypeOK, Pending

\* begin's record, by CheckPlan and Prepare.
LEMMA BeginRecord ==
    ASSUME TypeOK, OnDisk, PositionOK,
           pc = "locked" \/ (pc = "prepare" /\ ~begun)
    PROVE  LET j == NewRecord(ownerFile, manifest, lock) IN
           j \in Record /\ j # None /\ BeginOK(j)
<1>1. ownerFile \in Owners /\ lock \in Versions \cup {None}
  BY DEF TypeOK, PositionOK
<1>2. manifest \in Versions
  BY DEF TypeOK, PositionOK, OnDisk, FilesHeld, Clean, RollsBack
<1>. QED
  <2>1. BeginOK(NewRecord(ownerFile, manifest, lock))
    BY DEF BeginOK, NewRecord
  <2>. QED
    BY <1>1, <1>2, <2>1, NewRecordFields

\* While a command holds its record, that record is what recovery would read.
LEMMA Rewriting ==
    ASSUME TypeOK, PositionOK, Holding
    PROVE  /\ journal \in Record /\ Pending = journal /\ RollsBack
           /\ journalBak = None
BY RecordAssumption DEF TypeOK, JournalTypeOK, PositionOK, Pending, RollsBack

-----------------------------------------------------------------------------
(* The files of a root *)

\* Every operation of ProjectRoots keeps the files' types.
LEMMA RootOperations ==
    ASSUME RootsTypeOK, NEW r \in Roots, NEW o \in Owners, NEW v \in TreeFile
    PROVE  /\ UNCHANGED rootVars => RootsTypeOK'
           /\ CreateStage(r, o) \/ RemoveStage(r, o) => RootsTypeOK'
           /\ BackUpMarker(r, o) \/ RestoreMarker(r, o) => RootsTypeOK'
           /\ BackUpTree(r, o) \/ RestoreTree(r, o) => RootsTypeOK'
           /\ MoveStageIn(r, v) \/ WriteMarker(r) => RootsTypeOK'
           /\ RemoveTree(r, v) \/ RemoveMarker(r) => RootsTypeOK'
           /\ DropMarkerBackup(r, o) \/ DropTreeBackup(r, o, v) => RootsTypeOK'
           /\ RecoverUncoordinated(r, o) => RootsTypeOK'
<1> USE DEF RootsTypeOK, TreeFile, MarkerFile
<1>1. UNCHANGED rootVars => RootsTypeOK'
  BY DEF rootVars
<1>2. CreateStage(r, o) \/ RemoveStage(r, o) => RootsTypeOK'
  <2>1. stage[r] \cup {o} \in SUBSET Owners /\ stage[r] \ {o} \in SUBSET Owners
    OBVIOUS
  <2>. QED
    BY <2>1 DEF CreateStage, RemoveStage
<1>a. /\ tree[r] \in TreeFile /\ marker[r] \in MarkerFile
      /\ treeBak[r] \in [Owners -> TreeFile] /\ treeBak[r][o] \in TreeFile
      /\ markerBak[r] \in [Owners -> MarkerFile]
      /\ markerBak[r][o] \in MarkerFile
  OBVIOUS
<1>b. ASSUME NEW t \in TreeFile
      PROVE  [treeBak EXCEPT ![r][o] = t] \in [Roots -> [Owners -> TreeFile]]
  BY <1>a
<1>c. ASSUME NEW m \in MarkerFile
      PROVE  [markerBak EXCEPT ![r][o] = m]
                \in [Roots -> [Owners -> MarkerFile]]
  BY <1>a
<1>d. ASSUME NEW t \in TreeFile
      PROVE  [tree EXCEPT ![r] = t] \in [Roots -> TreeFile]
  OBVIOUS
<1>e. ASSUME NEW m \in MarkerFile
      PROVE  [marker EXCEPT ![r] = m] \in [Roots -> MarkerFile]
  OBVIOUS
<1>f. None \in TreeFile /\ None \in MarkerFile /\ Managed \in MarkerFile
  OBVIOUS
<1> HIDE DEF TreeFile, MarkerFile
<1>3. BackUpMarker(r, o) \/ RestoreMarker(r, o) => RootsTypeOK'
  <2>1. BackUpMarker(r, o) => RootsTypeOK'
    BY <1>a, <1>c, <1>e, <1>f DEF BackUpMarker
  <2>2. RestoreMarker(r, o) => RootsTypeOK'
    BY <1>a, <1>c, <1>e, <1>f DEF RestoreMarker
  <2>. QED
    BY <2>1, <2>2
<1>4. BackUpTree(r, o) \/ RestoreTree(r, o) => RootsTypeOK'
  <2>1. BackUpTree(r, o) => RootsTypeOK'
    BY <1>a, <1>b, <1>d, <1>f DEF BackUpTree
  <2>2. RestoreTree(r, o) => RootsTypeOK'
    BY <1>a, <1>b, <1>d, <1>f DEF RestoreTree
  <2>. QED
    BY <2>1, <2>2
<1>5. MoveStageIn(r, v) \/ WriteMarker(r) => RootsTypeOK'
  BY <1>d, <1>e, <1>f DEF MoveStageIn, WriteMarker
<1>6. RemoveTree(r, v) \/ RemoveMarker(r) => RootsTypeOK'
  BY <1>d, <1>e, <1>f DEF RemoveTree, RemoveMarker
<1>7. DropMarkerBackup(r, o) \/ DropTreeBackup(r, o, v) => RootsTypeOK'
  BY <1>b, <1>c, <1>f DEF DropMarkerBackup, DropTreeBackup
<1>8. RecoverUncoordinated(r, o) => RootsTypeOK'
  <2>1. stage[r] \ {o} \in SUBSET Owners
    OBVIOUS
  <2>. QED
    BY <1>a, <1>b, <1>c, <1>d, <1>e, <1>f, <2>1 DEF RecoverUncoordinated
<1>. QED
  BY <1>1, <1>2, <1>3, <1>4, <1>5, <1>6, <1>7, <1>8

\* A command that works on a record is the record's owner.
LEMMA OwnRecord ==
    ASSUME TypeOK, OnDisk, PositionOK, pc \in Materializing
    PROVE  /\ journal \in Record /\ Pending = journal /\ RollsBack
           /\ ownerFile = journal.owner /\ ownerFile \in Owners
<1>1. Holding
  BY DEF Holding, Working
<1>2. journal \in Record /\ Pending = journal /\ RollsBack
  BY <1>1, Rewriting
<1>3. ownerFile = journal.owner
  BY <1>2 DEF OnDisk, FilesHeld, OwnerNamesRecord, RollsBack
<1>. QED
  BY <1>2, <1>3 DEF Record

\* What recovery would leave is a project.
LEMMA ProjectIsTyped == ASSUME TypeOK, OnDisk PROVE Project \in ProjectType
<1>1. Pending \in Record \cup {None}
  BY PendingType
<1>2. /\ RollsBack => Pending.manifest \in Versions
      /\ ~RollsBack => manifest \in Versions
      /\ RollsBack => Pending.lock \in Versions \cup {None}
      /\ ~RollsBack => lock \in Versions \cup {None}
  BY <1>1 DEF RollsBack, Record, TypeOK, OnDisk, FilesHeld
<1>3. ASSUME NEW r \in Roots PROVE KeptTree(r) \in Versions \cup {None}
  <2>1. RollsBack => Pending.owner \in Owners
    BY <1>1 DEF RollsBack, Record
  <2>2. /\ tree[r] \in Versions \cup {None, Torn}
        /\ RollsBack => SavedTree(r) \in Versions \cup {None, Torn}
    BY <2>1 DEF TypeOK, RootsTypeOK, TreeFile, SavedTree
  <2>3. /\ tree[r] = Torn =>
              /\ RollsBack /\ r \in Pending.roots
              /\ SavedTree(r) # None \/ r \notin Pending.hadTree
        /\ RollsBack => SavedTree(r) # Torn
    BY DEF OnDisk, RootHeld
  <2>. QED
    BY <2>2, <2>3 DEF KeptTree, SavedTree
<1>4. ASSUME NEW r \in Roots PROVE KeptMarker(r) \in MarkerFile
  <2>1. RollsBack => Pending.owner \in Owners
    BY <1>1 DEF RollsBack, Record
  <2>. QED
    BY <2>1 DEF KeptMarker, TypeOK, RootsTypeOK, MarkerFile
<1>. QED
  BY <1>2, <1>3, <1>4 DEF Project, ProjectType

-----------------------------------------------------------------------------
(* The steps *)

\* Every step leads to a position of the command.
LEMMA PositionsStep == ASSUME TypeOK, Next PROVE pc' \in Positions
<1> USE DEF Positions, Fallible, Materializing, Activating, Recovering
<1>1. CASE Recover
  BY <1>1 DEF Recover, RestoreJournal, RecoverAlone, ReadJournal, RecoverStore,
     VacateManifest, RestoreManifest, RestoreLock, PickRoot, Unmark, Remark,
     ClearTree, RestorePriorTree, CommitMarker, CommitTree, DropStage,
     RemoveBackupJournal, EndTransaction, DiscardLeftover, Exit, Forget
<1>2. CASE Install
  <2>1. CASE WriteSync
    BY <2>1 DEF WriteSync, TypeOK
  <2>. QED
    BY <1>2, <2>1 DEF Install, TruncateOwner, WriteOwner, CheckPlan,
       WriteRecord,
       Begun, WriteTemp, VacateJournal, PublishRecord, TruncateManifest,
       WriteManifest, Prepare, RejectLock, RecordMembers, RecordStore, Publish,
       PublishTrees, UseStore, BackUpLock, PlaceLock, Stage, Activate,
       MoveMarkerAside, MoveTreeAside, MoveStage, MarkTree, Unstage,
       MarkCommitted, CommitStore, DiscardLockBackup
<1>3. CASE Unwind
  BY <1>3 DEF Unwind, UndoDestination, UndoTree, UndoMarker, RollbackLock,
     RollbackStore, Fail, JournalDisappeared, GiveUp
<1>4. CASE Break
  BY <1>4 DEF Break, Error, ErrorInSwap, ErrorInPublish, ErrorInActivation,
     RecoveryError, ErrorAfterEnd, GiveUp, Crash, Forget
<1>5. CASE Environment \/ \E w \in Waiting : Plan(w) \/ Busy(w) \/ Acquire(w)
  BY <1>5 DEF Environment, UserEdit, OtherRecoversStore, OthersUseStore, Plan,
     Busy, Acquire, TypeOK
<1>. QED
  BY <1>1, <1>2, <1>3, <1>4, <1>5 DEF Next

\* TypeOK by the groups of variables that the actions leave alone together.
FileTypes == /\ manifest \in Versions \cup {Torn}
             /\ lock \in Versions \cup {None}
             /\ lockBak \in Versions \cup {None}
OwnerType == ownerFile \in Owners \cup {None}
StoreTypes == /\ storeTrees \in SUBSET Versions
              /\ storeTxn \in StoreTxn \cup {None}
              /\ pub \in BOOLEAN
CommandTypes == /\ cmd \in Command \cup {None}
                /\ goal \in Versions \cup {None}
                /\ route \in {"none", "resolve", "replay"}
                /\ begun \in BOOLEAN /\ committed \in BOOLEAN
                /\ phase \in {"none", "acquire", "settle", "finish"}
WriteTypes == /\ rec \in Record \cup {None}
              /\ ret \in {"free", "begun", "recordStore", "publish",
                         "committed"}
WalkTypes == todo \in SUBSET Roots /\ cur \in Roots
OuterTypes == /\ plans \in [Waiting -> Command \cup {None}]
              /\ report \in {"none", "Unchanged", "RolledBack", "Committed",
                            "CleanupPending", "RecoveryRequired"}
              /\ atStart \in ProjectType \cup {None}
              /\ faults \in Nat
Typed == /\ RootsTypeOK /\ JournalTypeOK /\ FileTypes /\ OwnerType
         /\ StoreTypes /\ CommandTypes /\ WriteTypes /\ WalkTypes
         /\ OuterTypes /\ pc \in Positions

LEMMA TypeGroups == (TypeOK => Typed) /\ (Typed' => TypeOK')
BY DEF TypeOK, Typed, FileTypes, OwnerType, StoreTypes, CommandTypes,
   WriteTypes, WalkTypes, OuterTypes

\* A group that stays as it is keeps its types.
LEMMA TypeFrames ==
    ASSUME Typed
    PROVE  /\ UNCHANGED rootVars => RootsTypeOK'
           /\ UNCHANGED journalVars => JournalTypeOK'
           /\ UNCHANGED fileVars => FileTypes'
           /\ UNCHANGED ownerFile => OwnerType'
           /\ UNCHANGED storeVars => StoreTypes'
           /\ UNCHANGED cmdVars => CommandTypes'
           /\ UNCHANGED writeVars => WriteTypes'
           /\ UNCHANGED walkVars => WalkTypes'
           /\ UNCHANGED outerVars => OuterTypes'
<1>1. UNCHANGED rootVars => RootsTypeOK'
  BY DEF Typed, rootVars, RootsTypeOK
<1>2. UNCHANGED journalVars => JournalTypeOK'
  BY DEF Typed, journalVars, JournalTypeOK
<1>3. UNCHANGED fileVars => FileTypes'
  BY DEF Typed, fileVars, FileTypes
<1>4. UNCHANGED ownerFile => OwnerType'
  BY DEF Typed, OwnerType
<1>5. UNCHANGED storeVars => StoreTypes'
  BY DEF Typed, storeVars, StoreTypes
<1>6. UNCHANGED cmdVars => CommandTypes'
  BY DEF Typed, cmdVars, CommandTypes
<1>7. UNCHANGED writeVars => WriteTypes'
  BY DEF Typed, writeVars, WriteTypes
<1>8. UNCHANGED walkVars => WalkTypes'
  BY DEF Typed, walkVars, WalkTypes
<1>9. UNCHANGED outerVars => OuterTypes'
  BY DEF Typed, outerVars, OuterTypes
<1>. QED
  BY <1>1, <1>2, <1>3, <1>4, <1>5, <1>6, <1>7, <1>8, <1>9

\* Every step keeps every variable in its type.
LEMMA TypeOKStep ==
    ASSUME TypeOK, OnDisk, CommandsOK, PositionOK, ContentsOK, RecoveryOK, Next
    PROVE  TypeOK'
<1> SUFFICES Typed'
  BY TypeGroups
<1> USE DEF Typed
<1>1. Typed
  BY TypeGroups
<1>2. /\ UNCHANGED rootVars => RootsTypeOK'
      /\ UNCHANGED journalVars => JournalTypeOK'
      /\ UNCHANGED fileVars => FileTypes'
      /\ UNCHANGED ownerFile => OwnerType'
      /\ UNCHANGED storeVars => StoreTypes'
      /\ UNCHANGED cmdVars => CommandTypes'
      /\ UNCHANGED writeVars => WriteTypes'
      /\ UNCHANGED walkVars => WalkTypes'
      /\ UNCHANGED outerVars => OuterTypes'
  BY <1>1, TypeFrames
<1>3. pc' \in Positions
  BY PositionsStep
<1>4. Root \in Roots
  BY DEF Roots
<1>5. CASE Recover
  <2>1. pc \in Recovering \ {"readJournal"} => journal \in Record
    BY <1>1 DEF RecoveryOK, JournalTypeOK
  <2>2. pc \in Recovering \ {"readJournal"} =>
           /\ journal.manifest \in Versions
           /\ journal.lock \in Versions \cup {None}
           /\ journal.roots \in SUBSET Roots /\ journal.owner \in Owners
    BY <2>1 DEF Record
  <2>3. CASE RestoreJournal
    BY <1>1, <1>2, <1>3, <2>3 DEF RestoreJournal, RestoreJournalBackup,
       JournalTypeOK
  <2>4. CASE ReadJournal
    BY <1>1, <1>2, <1>3, <2>4 DEF ReadJournal
  <2>5. CASE VacateManifest
    BY <1>1, <1>2, <1>3, <2>5 DEF VacateManifest, FileTypes
  <2>6. CASE RestoreManifest
    BY <1>1, <1>2, <1>3, <2>6, <2>2 DEF RestoreManifest, Recovering, FileTypes
  <2>7. CASE RestoreLock
    BY <1>1, <1>2, <1>3, <2>7, <2>2 DEF RestoreLock, Recovering, FileTypes
  <2>8. CASE PickRoot
    BY <1>1, <1>2, <1>3, <2>8 DEF PickRoot, WalkTypes
  <2>9. CASE RemoveBackupJournal
    BY <1>1, <1>2, <1>3, <2>9 DEF RemoveBackupJournal, DropJournalBackup,
       JournalTypeOK
  <2>10. CASE RecoverAlone
    <3>1. RootsTypeOK'
      BY <1>1, <1>2, <1>4, <2>10, RootOperations DEF RecoverAlone, TreeFile,
         OwnerType
    <3>. QED
      BY <1>1, <1>2, <1>3, <2>10, <3>1 DEF RecoverAlone
  <2>11. CASE RecoverStore
    BY <1>1, <1>2, <1>3, <2>11, <2>2 DEF RecoverStore, Recovering, StoreTypes,
       WalkTypes
  <2>12. CASE Unmark
    <3>1. journal.owner \in Owners
      BY <2>2, <2>12 DEF Unmark, Recovering
    <3>2. RootsTypeOK'
      BY <1>1, <1>2, <2>12, <3>1, RootOperations DEF Unmark, TreeFile, WalkTypes
    <3>. QED
      BY <1>1, <1>2, <1>3, <2>12, <3>1, <3>2 DEF Unmark
  <2>13. CASE Remark
    <3>1. journal.owner \in Owners
      BY <2>2, <2>13 DEF Remark, Recovering
    <3>2. RootsTypeOK'
      BY <1>1, <1>2, <2>13, <3>1, RootOperations DEF Remark, TreeFile, WalkTypes
    <3>. QED
      BY <1>1, <1>2, <1>3, <2>13, <3>1, <3>2 DEF Remark
  <2>14. CASE ClearTree
    <3>1. journal.owner \in Owners
      BY <2>2, <2>14 DEF ClearTree, Recovering
    <3>2. RootsTypeOK'
      BY <1>1, <1>2, <2>14, <3>1, RootOperations DEF ClearTree, TreeFile,
         WalkTypes
    <3>. QED
      BY <1>1, <1>2, <1>3, <2>14, <3>1, <3>2 DEF ClearTree
  <2>15. CASE RestorePriorTree
    <3>1. journal.owner \in Owners
      BY <2>2, <2>15 DEF RestorePriorTree, Recovering
    <3>2. RootsTypeOK'
      BY <1>1, <1>2, <2>15, <3>1, RootOperations DEF RestorePriorTree, TreeFile,
         WalkTypes
    <3>. QED
      BY <1>1, <1>2, <1>3, <2>15, <3>1, <3>2 DEF RestorePriorTree
  <2>16. CASE CommitMarker
    <3>1. journal.owner \in Owners
      BY <2>2, <2>16 DEF CommitMarker, Recovering
    <3>2. RootsTypeOK'
      BY <1>1, <1>2, <2>16, <3>1, RootOperations DEF CommitMarker, TreeFile,
         WalkTypes
    <3>. QED
      BY <1>1, <1>2, <1>3, <2>16, <3>1, <3>2 DEF CommitMarker
  <2>17. CASE CommitTree
    <3>1. journal.owner \in Owners
      BY <2>2, <2>17 DEF CommitTree, Recovering
    <3>2. RootsTypeOK'
      BY <1>1, <1>2, <2>17, <3>1, RootOperations DEF CommitTree, TreeFile,
         WalkTypes
    <3>. QED
      BY <1>1, <1>2, <1>3, <2>17, <3>1, <3>2 DEF CommitTree
  <2>18. CASE DropStage
    <3>1. journal.owner \in Owners
      BY <2>2, <2>18 DEF DropStage, Recovering
    <3>2. RootsTypeOK'
      BY <1>1, <1>2, <2>18, <3>1, RootOperations DEF DropStage, TreeFile,
         WalkTypes
    <3>. QED
      BY <1>1, <1>2, <1>3, <2>18, <3>1, <3>2 DEF DropStage, WalkTypes
  <2>19. CASE EndTransaction
    BY <1>1, <1>2, <1>3, <2>19 DEF EndTransaction, RemoveJournal, JournalTypeOK,
       OuterTypes
  <2>20. CASE DiscardLeftover
    BY <1>1, <1>2, <1>3, <2>20 DEF DiscardLeftover, FileTypes, OuterTypes
  <2>21. CASE Exit
    <3>1. /\ pub' \in BOOLEAN /\ begun' \in BOOLEAN /\ committed' \in BOOLEAN
      BY <2>21, Zenon DEF Exit, Forget
    <3>2. FileTypes'
      BY <1>1, <2>21 DEF Exit, Forget, FileTypes
    <3>3. StoreTypes'
      BY <1>1, <2>21, <3>1 DEF Exit, StoreTypes
    <3>4. CommandTypes'
      BY <2>21, <3>1 DEF Exit, Forget, CommandTypes
    <3>5. WriteTypes' /\ WalkTypes'
      BY <1>4, <2>21 DEF Exit, Forget, WriteTypes, WalkTypes
    <3>6. OuterTypes'
      BY <1>1, <2>21 DEF Exit, Forget, OuterTypes
    <3>. QED
      BY <1>1, <1>2, <1>3, <2>21, <3>1, <3>2, <3>3, <3>4, <3>5, <3>6 DEF Exit
  <2>. QED
    BY <1>5, <2>3, <2>4, <2>5, <2>6, <2>7, <2>8, <2>9, <2>10, <2>11, <2>12,
       <2>13, <2>14, <2>15, <2>16, <2>17, <2>18, <2>19, <2>20, <2>21 DEF Recover
<1>6. CASE Install
  <2>1. CASE TruncateOwner
    BY <1>1, <1>2, <1>3, <2>1 DEF TruncateOwner, OwnerType
  <2>2. CASE WriteOwner
    BY <1>1, <1>2, <1>3, <2>2 DEF WriteOwner, OwnerType
  <2>3. CASE CheckPlan
    <3>1. /\ NewRecord(ownerFile, manifest, lock) \in Record
          /\ manifest \in Versions
      BY <1>1, <2>3, BeginRecord DEF CheckPlan, PositionOK, Clean, OnDisk,
         FilesHeld, RollsBack, FileTypes
    <3>2. cmd.goal \in Versions \cup {None}
      BY <2>3 DEF CheckPlan, CommandsOK, WellFormed, Command
    <3>. QED
      BY <1>1, <1>2, <1>3, <2>3, <3>1, <3>2 DEF CheckPlan, WriteRecord,
         CommandTypes, WriteTypes
  <2>4. CASE Begun
    <3>1. begun' \in BOOLEAN
      BY <2>4, Zenon DEF Begun
    <3>. QED
      BY <1>1, <1>2, <1>3, <2>4, <3>1 DEF Begun, CommandTypes
  <2>5. CASE WriteTemp
    BY <1>1, <1>2, <1>3, <2>5 DEF WriteTemp
  <2>6. CASE VacateJournal
    BY <1>1, <1>2, <1>3, <2>6 DEF VacateJournal, SwapOut, JournalTypeOK
  <2>7. CASE PublishRecord
    BY <1>1, <1>2, <1>3, <2>7 DEF PublishRecord, SwapIn, JournalTypeOK,
       WriteTypes
  <2>8. CASE WriteSync
    BY <1>1, <1>2, <1>3, <2>8 DEF WriteSync, DropJournalBackup, JournalTypeOK,
       WriteTypes
  <2>9. CASE TruncateManifest
    BY <1>1, <1>2, <1>3, <2>9 DEF TruncateManifest, FileTypes
  <2>10. CASE WriteManifest
    BY <1>1, <1>2, <1>3, <2>10 DEF WriteManifest, ContentsOK, FileTypes
  <2>11. CASE Prepare
    <3>1. ~begun => NewRecord(ownerFile, manifest, lock) \in Record
      BY <2>11, BeginRecord DEF Prepare
    <3>. QED
      BY <1>1, <1>2, <1>3, <2>11, <3>1 DEF Prepare, WriteRecord, CommandTypes,
         WriteTypes
  <2>12. CASE RejectLock
    BY <1>1, <1>2, <1>3, <2>12 DEF RejectLock
  <2>13. CASE RecordMembers
    <3>1. /\ WithMembers(journal) \in Record /\ WithStore(journal) \in Record
          /\ WithCommit(journal) \in Record
      BY <2>13, Rewriting, WithMembersFields, WithStoreFields, WithCommitFields
         DEF RecordMembers, Holding, Working, Choosing
    <3>. QED
      BY <1>1, <1>2, <1>3, <2>13, <3>1 DEF RecordMembers, WriteRecord,
         WriteTypes
  <2>14. CASE RecordStore
    <3>1. /\ WithMembers(journal) \in Record /\ WithStore(journal) \in Record
          /\ WithCommit(journal) \in Record
      BY <2>14, Rewriting, WithMembersFields, WithStoreFields, WithCommitFields
         DEF RecordStore, Holding, Working, Choosing
    <3>. QED
      BY <1>1, <1>2, <1>3, <2>14, <3>1 DEF RecordStore, WriteRecord, WriteTypes
  <2>15. CASE Publish
    <3>1. pub' \in BOOLEAN
      BY <2>15, Zenon DEF Publish
    <3>2. storeTxn' \in StoreTxn
      BY <1>1, <2>15 DEF Publish, StoreTxn, Record, ContentsOK, Installing,
         Choosing, JournalTypeOK, StoreTypes, PositionOK, Holding, Working
    <3>. QED
      BY <1>1, <1>2, <1>3, <2>15, <3>1, <3>2 DEF Publish, StoreTypes
  <2>16. CASE PublishTrees
    BY <1>1, <1>2, <1>3, <2>16 DEF PublishTrees, ContentsOK, Installing,
       Choosing, StoreTypes, WalkTypes
  <2>17. CASE UseStore
    BY <1>1, <1>2, <1>3, <2>17 DEF UseStore, WalkTypes
  <2>18. CASE BackUpLock
    BY <1>1, <1>2, <1>3, <2>18 DEF BackUpLock, FileTypes
  <2>19. CASE PlaceLock
    BY <1>1, <1>2, <1>3, <2>19 DEF PlaceLock, ContentsOK, Installing, Locking,
       FileTypes
  <2>20. CASE Stage
    <3>1. ownerFile \in Owners
      BY <2>20, OwnRecord DEF Stage, Materializing
    <3>2. PICK r \in todo : /\ CreateStage(r, ownerFile)
                            /\ todo' \in {Roots, todo \ {r}}
      BY <2>20 DEF Stage
    <3>3. RootsTypeOK'
      BY <1>1, <3>1, <3>2, RootOperations DEF TreeFile, WalkTypes
    <3>. QED
      BY <1>1, <1>2, <1>3, <2>20, <3>2, <3>3 DEF Stage, WalkTypes
  <2>21. CASE Activate
    BY <1>1, <1>2, <1>3, <2>21 DEF Activate, WalkTypes
  <2>22. CASE MoveMarkerAside
    <3>1. ownerFile \in Owners /\ goal \in TreeFile
      BY <2>22, <1>1, OwnRecord DEF MoveMarkerAside, Materializing, Activating,
         TreeFile, OwnerType, CommandTypes
    <3>2. RootsTypeOK'
      BY <1>1, <1>2, <2>22, <3>1, RootOperations DEF MoveMarkerAside, TreeFile,
         WalkTypes
    <3>. QED
      BY <1>1, <1>2, <1>3, <2>22, <3>1, <3>2 DEF MoveMarkerAside
  <2>23. CASE MoveTreeAside
    <3>1. ownerFile \in Owners /\ goal \in TreeFile
      BY <2>23, <1>1, OwnRecord DEF MoveTreeAside, Materializing, Activating,
         TreeFile, OwnerType, CommandTypes
    <3>2. RootsTypeOK'
      BY <1>1, <1>2, <2>23, <3>1, RootOperations DEF MoveTreeAside, TreeFile,
         WalkTypes
    <3>. QED
      BY <1>1, <1>2, <1>3, <2>23, <3>1, <3>2 DEF MoveTreeAside
  <2>24. CASE MoveStage
    <3>1. ownerFile \in Owners /\ goal \in TreeFile
      BY <2>24, <1>1, OwnRecord DEF MoveStage, Materializing, Activating,
         TreeFile, OwnerType, CommandTypes
    <3>2. RootsTypeOK'
      BY <1>1, <1>2, <2>24, <3>1, RootOperations DEF MoveStage, TreeFile,
         WalkTypes
    <3>. QED
      BY <1>1, <1>2, <1>3, <2>24, <3>1, <3>2 DEF MoveStage
  <2>25. CASE MarkTree
    <3>1. ownerFile \in Owners /\ goal \in TreeFile
      BY <2>25, <1>1, OwnRecord DEF MarkTree, Materializing, Activating,
         TreeFile, OwnerType, CommandTypes
    <3>2. RootsTypeOK'
      BY <1>1, <1>2, <2>25, <3>1, RootOperations DEF MarkTree, TreeFile,
         WalkTypes
    <3>. QED
      BY <1>1, <1>2, <1>3, <2>25, <3>1, <3>2 DEF MarkTree, WalkTypes
  <2>26. CASE Unstage
    <3>1. RootsTypeOK'
      BY <1>1, <2>26 DEF Unstage, RemoveStages, RootsTypeOK
    <3>. QED
      BY <1>1, <1>2, <1>3, <2>26, <3>1 DEF Unstage, OuterTypes
  <2>27. CASE MarkCommitted
    <3>1. /\ WithMembers(journal) \in Record /\ WithStore(journal) \in Record
          /\ WithCommit(journal) \in Record
      BY <2>27, Rewriting, WithMembersFields, WithStoreFields, WithCommitFields
         DEF MarkCommitted, Holding, Working, Choosing
    <3>. QED
      BY <1>1, <1>2, <1>3, <2>27, <3>1 DEF MarkCommitted, WriteRecord,
         WriteTypes
  <2>28. CASE CommitStore
    <3>1. /\ pub' \in BOOLEAN /\ committed' \in BOOLEAN
      BY <2>28, Zenon DEF CommitStore
    <3>. QED
      BY <1>1, <1>2, <1>3, <2>28, <3>1 DEF CommitStore, StoreTypes,
         CommandTypes, OuterTypes
  <2>29. CASE DiscardLockBackup
    BY <1>1, <1>2, <1>3, <2>29 DEF DiscardLockBackup, PositionOK, Record,
       JournalTypeOK, FileTypes, CommandTypes, WalkTypes
  <2>. QED
    BY <1>6, <2>1, <2>2, <2>3, <2>4, <2>5, <2>6, <2>7, <2>8, <2>9, <2>10, <2>11,
       <2>12, <2>13, <2>14, <2>15, <2>16, <2>17, <2>18, <2>19, <2>20, <2>21,
       <2>22, <2>23, <2>24, <2>25, <2>26, <2>27, <2>28, <2>29 DEF Install
<1>7. CASE Unwind
  <2>1. CASE UndoDestination
    <3>1. ownerFile \in Owners
      BY <2>1, OwnRecord DEF UndoDestination, Materializing, Activating
    <3>2. RootsTypeOK'
      BY <1>1, <1>2, <2>1, <3>1, RootOperations DEF UndoDestination, TreeFile,
         WalkTypes
    <3>. QED
      BY <1>1, <1>2, <1>3, <2>1, <3>1, <3>2 DEF UndoDestination
  <2>2. CASE UndoTree
    <3>1. ownerFile \in Owners
      BY <2>2, OwnRecord DEF UndoTree, Materializing, Activating
    <3>2. RootsTypeOK'
      BY <1>1, <1>2, <2>2, <3>1, RootOperations DEF UndoTree, TreeFile,
         WalkTypes
    <3>. QED
      BY <1>1, <1>2, <1>3, <2>2, <3>1, <3>2 DEF UndoTree
  <2>3. CASE UndoMarker
    <3>1. ownerFile \in Owners
      BY <2>3, OwnRecord DEF UndoMarker, Materializing, Activating
    <3>2. RootsTypeOK'
      BY <1>1, <1>2, <2>3, <3>1, RootOperations DEF UndoMarker, TreeFile,
         WalkTypes
    <3>. QED
      BY <1>1, <1>2, <1>3, <2>3, <3>1, <3>2 DEF UndoMarker
  <2>4. CASE RollbackLock
    BY <1>1, <1>2, <1>3, <2>4 DEF RollbackLock, Fault, FileTypes, OuterTypes
  <2>5. CASE JournalDisappeared
    BY <1>1, <1>2, <1>3, <2>5 DEF JournalDisappeared, GiveUp, OuterTypes
  <2>6. CASE RollbackStore
    <3>1. pub' \in BOOLEAN
      BY <2>6, Zenon DEF RollbackStore
    <3>. QED
      BY <1>1, <1>2, <1>3, <2>6, <3>1 DEF RollbackStore, StoreTypes
  <2>7. CASE Fail
    <3>1. pub' \in BOOLEAN
      BY <2>7, Zenon DEF Fail
    <3>. QED
      BY <1>1, <1>2, <1>3, <2>7, <3>1 DEF Fail, StoreTypes, CommandTypes,
         OuterTypes
  <2>. QED
    BY <1>7, <2>1, <2>2, <2>3, <2>4, <2>5, <2>6, <2>7 DEF Unwind
<1>8. CASE Break
  <2>1. CASE Error
    BY <1>1, <1>2, <1>3, <2>1 DEF Error, Fault, OuterTypes
  <2>2. CASE ErrorInSwap
    <3>1. orphanTmp' \in BOOLEAN
      BY <2>2, Zenon DEF ErrorInSwap
    <3>. QED
      BY <1>1, <1>2, <1>3, <2>2, <3>1 DEF ErrorInSwap, Fault, JournalTypeOK,
         OuterTypes
  <2>3. CASE ErrorInPublish
    <3>1. pub' \in BOOLEAN
      BY <2>3, Zenon DEF ErrorInPublish
    <3>. QED
      BY <1>1, <1>2, <1>3, <2>3, <3>1 DEF ErrorInPublish, Fault, StoreTypes,
         OuterTypes
  <2>4. CASE ErrorInActivation
    BY <1>1, <1>2, <1>3, <2>4 DEF ErrorInActivation, Fault, OuterTypes
  <2>5. CASE RecoveryError
    BY <1>1, <1>2, <1>3, <2>5 DEF RecoveryError, GiveUp, Fault, OuterTypes
  <2>6. CASE ErrorAfterEnd
    BY <1>1, <1>2, <1>3, <2>6 DEF ErrorAfterEnd, RemoveJournal, GiveUp, Fault,
       JournalTypeOK, OuterTypes
  <2>7. CASE Crash
    <3>1. /\ pub' \in BOOLEAN /\ begun' \in BOOLEAN /\ committed' \in BOOLEAN
      BY <2>7, Zenon DEF Crash, Forget
    <3>2. FileTypes'
      BY <1>1, <2>7 DEF Crash, Forget, FileTypes
    <3>3. StoreTypes'
      BY <1>1, <2>7, <3>1 DEF Crash, StoreTypes
    <3>4. CommandTypes'
      BY <2>7, <3>1 DEF Crash, Forget, CommandTypes
    <3>5. WriteTypes' /\ WalkTypes'
      BY <1>4, <2>7 DEF Crash, Forget, WriteTypes, WalkTypes
    <3>6. OuterTypes'
      BY <1>1, <2>7 DEF Crash, Forget, OuterTypes, Fault
    <3>7. orphanTmp' \in BOOLEAN
      BY <1>1, <2>7 DEF Crash, JournalTypeOK
    <3>. QED
      BY <1>1, <1>2, <1>3, <2>7, <3>1, <3>2, <3>3, <3>4, <3>5, <3>6, <3>7 DEF
         Crash, JournalTypeOK
  <2>. QED
    BY <1>8, <2>1, <2>2, <2>3, <2>4, <2>5, <2>6, <2>7 DEF Break
<1>9. CASE Environment
  <2>1. CASE UserEdit
    BY <1>1, <1>2, <1>3, <2>1 DEF UserEdit, FileTypes
  <2>2. CASE OtherRecoversStore
    BY <1>1, <1>2, <1>3, <2>2 DEF OtherRecoversStore, StoreTypes
  <2>3. CASE OthersUseStore
    BY <1>1, <1>2, <1>3, <2>3 DEF OthersUseStore, StoreTypes
  <2>. QED
    BY <1>9, <2>1, <2>2, <2>3 DEF Environment
<1>10. CASE \E w \in Waiting : Plan(w) \/ Busy(w) \/ Acquire(w)
  <2>1. PICK w \in Waiting : Plan(w) \/ Busy(w) \/ Acquire(w)
    BY <1>10
  <2>2. CASE Plan(w)
    BY <1>1, <1>2, <1>3, <2>2 DEF Plan, OuterTypes
  <2>3. CASE Busy(w)
    BY <1>1, <1>2, <1>3, <2>3 DEF Busy, OuterTypes
  <2>4. CASE Acquire(w)
    <3>1. begun' \in BOOLEAN /\ committed' \in BOOLEAN
      BY <2>4, Zenon DEF Acquire
    <3>2. atStart' \in ProjectType
      BY <2>4, ProjectIsTyped DEF Acquire
    <3>. QED
      BY <1>1, <1>2, <1>3, <2>4, <3>1, <3>2 DEF Acquire, CommandTypes,
         OuterTypes
  <2>. QED
    BY <2>1, <2>2, <2>3, <2>4
<1>. QED
  BY <1>5, <1>6, <1>7, <1>8, <1>9, <1>10 DEF Next
=============================================================================
