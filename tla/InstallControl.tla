-------------------------- MODULE InstallControl --------------------------
(***************************************************************************)
(* The command's own part of the inductive invariant: every step keeps     *)
(* what a position says of the command, of the record being written, of    *)
(* package.json and tapid.lock, and of the store journal.                  *)
(***************************************************************************)
EXTENDS InstallTypes

\* A planned command stays well formed, and so does the running one.
LEMMA CommandsStep ==
    ASSUME TypeOK, CommandsOK, Next
    PROVE  CommandsOK'
<1> USE DEF journalVars, fileVars, storeVars, cmdVars, writeVars, walkVars,
   outerVars, CommandsOK, WellFormed, Command
<1>1. CASE Recover
  <2>1. CASE RestoreJournal \/ RecoverAlone \/ ReadJournal \/ RecoverStore
           \/ VacateManifest \/ RestoreManifest \/ RestoreLock \/ PickRoot
    BY <2>1 DEF RestoreJournal, RestoreJournalBackup, RecoverAlone,
       ReadJournal, RecoverStore, Prepared, VacateManifest, RestoreManifest,
       RestoreLock, PickRoot
  <2>2. CASE Unmark \/ Remark \/ ClearTree \/ RestorePriorTree
           \/ CommitMarker \/ CommitTree \/ DropStage \/ RemoveBackupJournal
    BY <2>2 DEF Unmark, Remark, ClearTree, RestorePriorTree, CommitMarker,
       CommitTree, DropStage, RemoveBackupJournal, DropJournalBackup
  <2>3. CASE EndTransaction \/ DiscardLeftover \/ Exit
    BY <2>3 DEF EndTransaction, RemoveJournal, Prepared, DiscardLeftover, Exit,
       Forget
  <2>. QED
    BY <1>1, <2>1, <2>2, <2>3 DEF Recover
<1>2. CASE Install
  <2>1. CASE TruncateOwner \/ WriteOwner \/ CheckPlan \/ Begun
           \/ WriteTemp \/ VacateJournal \/ PublishRecord \/ WriteSync
    BY <2>1 DEF TruncateOwner, WriteOwner, CheckPlan, WriteRecord, Begun,
       WriteTemp, VacateJournal, SwapOut, PublishRecord, SwapIn, WriteSync,
       DropJournalBackup
  <2>2. CASE TruncateManifest \/ WriteManifest \/ Prepare \/ RejectLock
           \/ RecordMembers \/ RecordStore \/ Publish \/ PublishTrees
    BY <2>2 DEF TruncateManifest, WriteManifest, Prepare, WriteRecord,
       RejectLock, RecordMembers, RecordStore, Publish, Prepared, PublishTrees
  <2>3. CASE UseStore \/ BackUpLock \/ PlaceLock \/ Stage \/ Activate
           \/ MoveMarkerAside \/ MoveTreeAside \/ MoveStage
    BY <2>3 DEF UseStore, BackUpLock, PlaceLock, Stage, Activate,
       MoveMarkerAside, MoveTreeAside, MoveStage
  <2>4. CASE MarkTree \/ Unstage \/ MarkCommitted \/ CommitStore
           \/ DiscardLockBackup
    BY <2>4 DEF MarkTree, Unstage, MarkCommitted, WriteRecord, CommitStore,
       DiscardLockBackup
  <2>. QED
    BY <1>2, <2>1, <2>2, <2>3, <2>4 DEF Install
<1>3. CASE Unwind
  <2>1. CASE UndoDestination \/ UndoTree \/ UndoMarker \/ RollbackLock
           \/ RollbackStore \/ Fail \/ JournalDisappeared
    BY <2>1 DEF UndoDestination, UndoTree, UndoMarker, RollbackLock, Fault,
       RollbackStore, Fail, JournalDisappeared, GiveUp
  <2>. QED
    BY <1>3, <2>1 DEF Unwind
<1>4. CASE Break
  <2>1. CASE ErrorInSwap \/ ErrorInPublish \/ ErrorInActivation
           \/ ErrorAfterEnd \/ Crash
    BY <2>1 DEF ErrorInSwap, Fault, ErrorInPublish, ErrorInActivation,
       ErrorAfterEnd, GiveUp, RemoveJournal, Crash, Forget
  <2>2. CASE Error
    BY <2>2 DEF Error, Fallible, Materializing, Activating
  <2>3. CASE RecoveryError
    BY <2>3 DEF RecoveryError, GiveUp, Recovering
  <2>. QED
    BY <1>4, <2>1, <2>2, <2>3 DEF Break
<1>5. CASE Environment
  <2>1. CASE UserEdit \/ OtherRecoversStore \/ OthersUseStore
    BY <2>1 DEF UserEdit, OtherRecoversStore, OthersUseStore
  <2>. QED
    BY <1>5, <2>1 DEF Environment
<1>6. CASE \E w \in Waiting : Plan(w) \/ Busy(w) \/ Acquire(w)
  <2>1. PICK w \in Waiting : Plan(w) \/ Busy(w) \/ Acquire(w)
    BY <1>6
  <2>2. CASE Plan(w)
    <3>1. PICK c \in Command : /\ c.goal # None <=> c.mode \in EditModes
                               /\ plans' = [plans EXCEPT ![w] = c]
      BY <2>2 DEF Plan
    <3>2. plans \in [Waiting -> Command \cup {None}]
      BY DEF TypeOK
    <3>. QED
      BY <2>2, <3>1, <3>2 DEF Plan
  <2>3. CASE Busy(w) \/ Acquire(w)
    <3>1. plans' = [plans EXCEPT ![w] = None]
      BY <2>3 DEF Busy, Acquire
    <3>2. plans \in [Waiting -> Command \cup {None}]
      BY DEF TypeOK
    <3>. QED
      BY <2>3, <3>1, <3>2 DEF Busy, Acquire
  <2>. QED
    BY <2>1, <2>2, <2>3
<1>. QED
  BY <1>1, <1>2, <1>3, <1>4, <1>5, <1>6 DEF Next

\* Every position keeps what it knows of the pending record.
LEMMA PositionStep ==
    ASSUME TypeOK, WriteOK, PositionOK, RecoveryOK, Next
    PROVE  PositionOK'
<1> USE RecordAssumption, RootsAssumption DEF journalVars, fileVars, storeVars,
   cmdVars, writeVars, walkVars, outerVars, PositionOK, Pending, Clean,
   Writing, Holding, Working, Editing, Choosing, Locking, Materializing,
   Activating, Recovering
<1>1. CASE Recover
  <2>1. CASE RestoreJournal \/ ReadJournal \/ RecoverStore \/ VacateManifest
    BY <2>1 DEF RestoreJournal, RestoreJournalBackup, ReadJournal,
       RecoverStore, Prepared, VacateManifest
  <2>2. CASE RestoreManifest \/ RestoreLock \/ PickRoot \/ Unmark
    BY <2>2 DEF RestoreManifest, RestoreLock, PickRoot, Prepared, Unmark
  <2>3. CASE Remark \/ ClearTree \/ RestorePriorTree \/ CommitMarker
    BY <2>3 DEF Remark, ClearTree, RestorePriorTree, CommitMarker
  <2>4. CASE CommitTree \/ DropStage \/ RemoveBackupJournal
           \/ DiscardLeftover
    BY <2>4 DEF CommitTree, DropStage, RemoveBackupJournal, DropJournalBackup,
       DiscardLeftover
  <2>5. CASE Exit
    BY <2>5 DEF Exit, Forget
  <2>6. CASE RecoverAlone
    BY <2>6, SMTT(30) DEF RecoverAlone
  <2>7. CASE EndTransaction
    BY <2>7, SMTT(30) DEF EndTransaction, RemoveJournal, Prepared, RecoveryOK,
       Walking, Ending, RollingBack, RollingForward
  <2>. QED
    BY <1>1, <2>1, <2>2, <2>3, <2>4, <2>5, <2>6, <2>7 DEF Recover
<1>2. CASE Install
  <2>1. CASE TruncateOwner
    BY <2>1 DEF TruncateOwner
  <2>2. CASE WriteOwner
    BY <2>2, SMTT(30) DEF WriteOwner
  <2>3. CASE CheckPlan \/ Begun
    BY <2>3 DEF CheckPlan, WriteRecord, Begun
  <2>4. CASE WriteTemp \/ VacateJournal \/ PublishRecord \/ TruncateManifest
    BY <2>4 DEF WriteTemp, VacateJournal, SwapOut, PublishRecord, SwapIn,
       TruncateManifest
  <2>5. CASE WriteManifest \/ Prepare \/ RejectLock \/ RecordMembers
    BY <2>5 DEF WriteManifest, Prepare, WriteRecord, RejectLock, RecordMembers
  <2>6. CASE RecordStore \/ Publish \/ PublishTrees \/ UseStore
    BY <2>6 DEF RecordStore, WriteRecord, Publish, Prepared, PublishTrees,
       UseStore
  <2>7. CASE BackUpLock \/ PlaceLock \/ Stage \/ Activate
           \/ MoveMarkerAside \/ MoveTreeAside \/ MoveStage \/ MarkTree
    BY <2>7 DEF BackUpLock, PlaceLock, Stage, Activate, MoveMarkerAside,
       MoveTreeAside, MoveStage, MarkTree
  <2>8. CASE Unstage \/ MarkCommitted \/ CommitStore \/ DiscardLockBackup
    BY <2>8 DEF Unstage, MarkCommitted, WriteRecord, CommitStore,
       DiscardLockBackup
  <2>9. CASE WriteSync
    BY <2>9 DEF WriteSync, DropJournalBackup, WriteOK, TypeOK, JournalTypeOK
  <2>. QED
    BY <1>2, <2>1, <2>2, <2>3, <2>4, <2>5, <2>6, <2>7, <2>8, <2>9 DEF Install
<1>3. CASE Unwind
  <2>1. CASE UndoDestination \/ UndoTree \/ UndoMarker \/ RollbackLock
           \/ RollbackStore \/ Fail \/ JournalDisappeared
    BY <2>1 DEF UndoDestination, UndoTree, UndoMarker, RollbackLock, Fault,
       RollbackStore, Fail, JournalDisappeared, GiveUp
  <2>. QED
    BY <1>3, <2>1 DEF Unwind
<1>4. CASE Break
  <2>1. CASE Error \/ ErrorInSwap \/ ErrorInPublish \/ ErrorInActivation
           \/ RecoveryError \/ ErrorAfterEnd \/ Crash
    BY <2>1 DEF Error, Fault, ErrorInSwap, ErrorInPublish, ErrorInActivation,
       RecoveryError, GiveUp, ErrorAfterEnd, RemoveJournal, Crash, Forget
  <2>. QED
    BY <1>4, <2>1 DEF Break
<1>5. CASE Environment
  <2>1. CASE UserEdit \/ OtherRecoversStore \/ OthersUseStore
    BY <2>1 DEF UserEdit, OtherRecoversStore, OthersUseStore
  <2>. QED
    BY <1>5, <2>1 DEF Environment
<1>6. CASE \E w \in Waiting : Plan(w) \/ Busy(w) \/ Acquire(w)
  BY <1>6 DEF Plan, Busy, Acquire
<1>. QED
  BY <1>1, <1>2, <1>3, <1>4, <1>5, <1>6 DEF Next

\* What is being installed stays what package.json and tapid.lock say.
LEMMA ContentsStep ==
    ASSUME TypeOK, OnDisk, CommandsOK, PositionOK, ContentsOK, Next
    PROVE  ContentsOK'
<1> USE RootsAssumption DEF journalVars, fileVars, storeVars, cmdVars,
   writeVars, walkVars, outerVars, ContentsOK, Installing, Towards, Writing,
   Complete, Choosing, Locking, Materializing, Activating, EditModes,
   ReplayModes
<1>1. CASE Recover
  <2>1. CASE RestoreJournal \/ RecoverAlone \/ ReadJournal \/ RecoverStore
           \/ VacateManifest \/ RestoreManifest \/ RestoreLock \/ PickRoot
    BY <2>1 DEF RestoreJournal, RestoreJournalBackup, RecoverAlone,
       ReadJournal, RecoverStore, Prepared, VacateManifest, RestoreManifest,
       RestoreLock, PickRoot
  <2>2. CASE Unmark \/ Remark \/ ClearTree \/ RestorePriorTree
           \/ CommitMarker \/ CommitTree \/ DropStage \/ RemoveBackupJournal
    BY <2>2 DEF Unmark, Remark, ClearTree, RestorePriorTree, CommitMarker,
       CommitTree, DropStage, RemoveBackupJournal, DropJournalBackup
  <2>3. CASE EndTransaction \/ DiscardLeftover \/ Exit
    BY <2>3 DEF EndTransaction, RemoveJournal, Prepared, DiscardLeftover, Exit,
       Forget
  <2>. QED
    BY <1>1, <2>1, <2>2, <2>3 DEF Recover
<1>2. CASE Install
  <2>1. CASE TruncateOwner \/ WriteOwner \/ Begun \/ WriteTemp
           \/ VacateJournal \/ PublishRecord \/ WriteManifest \/ Prepare
    BY <2>1 DEF TruncateOwner, WriteOwner, Begun, WriteTemp, VacateJournal,
       SwapOut, PublishRecord, SwapIn, WriteManifest, Prepare, WriteRecord
  <2>2. CASE RejectLock \/ RecordMembers \/ RecordStore \/ Publish
           \/ UseStore \/ BackUpLock \/ PlaceLock \/ Stage
    BY <2>2 DEF RejectLock, RecordMembers, WriteRecord, RecordStore, Publish,
       Prepared, UseStore, BackUpLock, PlaceLock, Stage
  <2>3. CASE Activate \/ MoveMarkerAside \/ MoveTreeAside \/ MoveStage
           \/ MarkTree \/ Unstage \/ MarkCommitted \/ CommitStore
    BY <2>3 DEF Activate, MoveMarkerAside, MoveTreeAside, MoveStage, MarkTree,
       Unstage, MarkCommitted, WriteRecord, CommitStore
  <2>4. CASE DiscardLockBackup
    BY <2>4 DEF DiscardLockBackup
  <2>5. CASE CheckPlan
    BY <2>5 DEF CheckPlan, WriteRecord, PositionOK, Clean, Pending, TypeOK,
       JournalTypeOK, OnDisk, FilesHeld, OwnerNamesRecord,
       StoreJournalCoordinated, RollsBack, CommandsOK, WellFormed, Command
  <2>6. CASE WriteSync
    BY <2>6 DEF WriteSync, DropJournalBackup, TypeOK, JournalTypeOK
  <2>7. CASE TruncateManifest
    BY <2>7, SMTT(30) DEF TruncateManifest
  <2>8. CASE PublishTrees
    BY <2>8 DEF PublishTrees, TypeOK, JournalTypeOK
  <2>. QED
    BY <1>2, <2>1, <2>2, <2>3, <2>4, <2>5, <2>6, <2>7, <2>8 DEF Install
<1>3. CASE Unwind
  <2>1. CASE UndoDestination \/ UndoTree \/ UndoMarker \/ RollbackLock
           \/ RollbackStore \/ Fail \/ JournalDisappeared
    BY <2>1 DEF UndoDestination, UndoTree, UndoMarker, RollbackLock, Fault,
       RollbackStore, Fail, JournalDisappeared, GiveUp
  <2>. QED
    BY <1>3, <2>1 DEF Unwind
<1>4. CASE Break
  <2>1. CASE Error \/ ErrorInSwap \/ ErrorInPublish \/ ErrorInActivation
           \/ RecoveryError \/ ErrorAfterEnd \/ Crash
    BY <2>1 DEF Error, Fault, ErrorInSwap, ErrorInPublish, ErrorInActivation,
       RecoveryError, GiveUp, ErrorAfterEnd, RemoveJournal, Crash, Forget
  <2>. QED
    BY <1>4, <2>1 DEF Break
<1>5. CASE Environment
  <2>1. CASE UserEdit \/ OtherRecoversStore \/ OthersUseStore
    BY <2>1 DEF UserEdit, OtherRecoversStore, OthersUseStore
  <2>. QED
    BY <1>5, <2>1 DEF Environment
<1>6. CASE \E w \in Waiting : Plan(w) \/ Busy(w) \/ Acquire(w)
  BY <1>6 DEF Plan, Busy, Acquire
<1>. QED
  BY <1>1, <1>2, <1>3, <1>4, <1>5, <1>6 DEF Next

\* The store journal is held by the publication, and gone before the record.
LEMMA StoreStep ==
    ASSUME TypeOK, OnDisk, WriteOK, PositionOK, ContentsOK, RecoveryOK,
           StoreOK, Next
    PROVE  StoreOK'
<1> USE StoreTxnAssumption DEF journalVars, fileVars, storeVars, cmdVars,
   writeVars, walkVars, outerVars, StoreOK, Walking, Ending, RollingBack,
   RollingForward, Writing, Holding, Working, Editing, Choosing, Locking,
   Materializing, Activating
<1>1. CASE Recover
  <2>1. CASE RestoreJournal \/ RecoverAlone \/ ReadJournal \/ VacateManifest
    <3>1. CASE RestoreJournal
      BY <3>1 DEF RestoreJournal, RestoreJournalBackup
    <3>2. CASE RecoverAlone
      BY <3>2 DEF RecoverAlone
    <3>3. CASE ReadJournal
      BY <3>3 DEF ReadJournal
    <3>4. CASE VacateManifest
      BY <3>4 DEF VacateManifest
    <3>. QED
      BY <2>1, <3>1, <3>2, <3>3, <3>4
  <2>2. CASE RestoreManifest \/ RestoreLock \/ PickRoot \/ Unmark
    <3>1. CASE RestoreManifest
      BY <3>1 DEF RestoreManifest, Prepared
    <3>2. CASE RestoreLock
      BY <3>2 DEF RestoreLock, Prepared
    <3>3. CASE PickRoot
      BY <3>3 DEF PickRoot, Prepared
    <3>4. CASE Unmark
      BY <3>4 DEF Unmark
    <3>. QED
      BY <2>2, <3>1, <3>2, <3>3, <3>4
  <2>3. CASE Remark \/ ClearTree \/ RestorePriorTree \/ CommitMarker
    <3>1. CASE Remark
      BY <3>1 DEF Remark
    <3>2. CASE ClearTree
      BY <3>2 DEF ClearTree
    <3>3. CASE RestorePriorTree
      BY <3>3 DEF RestorePriorTree
    <3>4. CASE CommitMarker
      BY <3>4 DEF CommitMarker
    <3>. QED
      BY <2>3, <3>1, <3>2, <3>3, <3>4
  <2>4. CASE CommitTree \/ DropStage \/ RemoveBackupJournal \/ EndTransaction
    <3>1. CASE CommitTree
      BY <3>1 DEF CommitTree
    <3>2. CASE DropStage
      BY <3>2 DEF DropStage, Prepared
    <3>3. CASE RemoveBackupJournal
      BY <3>3 DEF RemoveBackupJournal, DropJournalBackup
    <3>4. CASE EndTransaction
      BY <3>4 DEF EndTransaction, RemoveJournal, Prepared
    <3>. QED
      BY <2>4, <3>1, <3>2, <3>3, <3>4
  <2>5. CASE DiscardLeftover \/ Exit
    <3>1. CASE DiscardLeftover
      BY <3>1 DEF DiscardLeftover
    <3>2. CASE Exit
      BY <3>2 DEF Exit, Forget
    <3>. QED
      BY <2>5, <3>1, <3>2
  <2>6. CASE RecoverStore
    <3>1. /\ pc = "recoverStore" /\ pc' \in {"restoreManifest", "pickRoot"}
          /\ pub' = pub
      BY <2>6 DEF RecoverStore
    <3>2. ~pub
      BY <3>1
    <3>3. journal # None /\ Pending = journal
      BY <3>1 DEF RecoveryOK, Recovering, Pending
    <3>4. storeTxn # None => journal.store
      BY <3>3 DEF OnDisk, FilesHeld, StoreJournalCoordinated
    <3>5. storeTxn' = None
      BY <2>6, <3>4 DEF RecoverStore
    <3>. QED
      BY <3>1, <3>2, <3>5
  <2>. QED
    BY <1>1, <2>1, <2>2, <2>3, <2>4, <2>5, <2>6 DEF Recover
<1>2. CASE Install
  <2>1. CASE TruncateOwner \/ WriteOwner \/ Begun \/ WriteTemp
    <3>1. CASE TruncateOwner
      BY <3>1 DEF TruncateOwner
    <3>2. CASE WriteOwner
      BY <3>2 DEF WriteOwner
    <3>3. CASE Begun
      BY <3>3 DEF Begun
    <3>4. CASE WriteTemp
      BY <3>4 DEF WriteTemp
    <3>. QED
      BY <2>1, <3>1, <3>2, <3>3, <3>4
  <2>2. CASE VacateJournal
    BY <2>2 DEF VacateJournal, SwapOut
  <2>3. CASE PublishRecord
    <3>1. /\ pc = "swapIn" /\ pc' = "writeSync" /\ journal' = rec
          /\ ret' = ret /\ storeTxn' = storeTxn /\ pub' = pub
      BY <2>3 DEF PublishRecord, SwapIn
    <3>2. ret = "publish" => rec.store
      BY <3>1, PendingType, WithStoreFields DEF WriteOK, RollsBack
    <3>. QED
      BY <3>1, <3>2
  <2>4. CASE TruncateManifest
    BY <2>4 DEF TruncateManifest
  <2>5. CASE WriteManifest
    BY <2>5 DEF WriteManifest, PositionOK, Clean
  <2>6. CASE RejectLock \/ RecordMembers \/ RecordStore \/ PublishTrees
    <3>1. CASE RejectLock
      BY <3>1 DEF RejectLock
    <3>2. CASE RecordMembers
      BY <3>2 DEF RecordMembers, WriteRecord
    <3>3. CASE RecordStore
      BY <3>3 DEF RecordStore, WriteRecord
    <3>4. CASE PublishTrees
      BY <3>4 DEF PublishTrees
    <3>. QED
      BY <2>6, <3>1, <3>2, <3>3, <3>4
  <2>7. CASE UseStore \/ BackUpLock \/ PlaceLock \/ Stage
    <3>1. CASE UseStore
      BY <3>1 DEF UseStore
    <3>2. CASE BackUpLock
      BY <3>2 DEF BackUpLock
    <3>3. CASE PlaceLock
      BY <3>3 DEF PlaceLock
    <3>4. CASE Stage
      BY <3>4 DEF Stage
    <3>. QED
      BY <2>7, <3>1, <3>2, <3>3, <3>4
  <2>8. CASE Activate \/ MoveMarkerAside \/ MoveTreeAside \/ MoveStage
    <3>1. CASE Activate
      BY <3>1 DEF Activate
    <3>2. CASE MoveMarkerAside
      BY <3>2 DEF MoveMarkerAside
    <3>3. CASE MoveTreeAside
      BY <3>3 DEF MoveTreeAside
    <3>4. CASE MoveStage
      BY <3>4 DEF MoveStage
    <3>. QED
      BY <2>8, <3>1, <3>2, <3>3, <3>4
  <2>9. CASE MarkTree \/ Unstage \/ MarkCommitted \/ CommitStore
    <3>1. CASE MarkTree
      BY <3>1 DEF MarkTree
    <3>2. CASE Unstage
      BY <3>2 DEF Unstage
    <3>3. CASE MarkCommitted
      BY <3>3 DEF MarkCommitted, WriteRecord
    <3>4. CASE CommitStore
      BY <3>4 DEF CommitStore
    <3>. QED
      BY <2>9, <3>1, <3>2, <3>3, <3>4
  <2>10. CASE DiscardLockBackup
    BY <2>10 DEF DiscardLockBackup
  <2>11. CASE CheckPlan
    BY <2>11 DEF CheckPlan, WriteRecord, PositionOK, Clean, Pending, OnDisk,
       FilesHeld, OwnerNamesRecord, StoreJournalCoordinated, RollsBack
  <2>12. CASE WriteSync
    <3>1. /\ pc = "writeSync" /\ pc' = ret /\ journal' = journal
          /\ storeTxn' = storeTxn /\ pub' = pub
      BY <2>12 DEF WriteSync, DropJournalBackup
    <3>2. ret \in {"begun", "recordStore", "publish", "committed"}
      BY <3>1 DEF WriteOK, TypeOK
    <3>. QED
      BY <3>1, <3>2
  <2>13. CASE Prepare
    BY <2>13 DEF Prepare, WriteRecord, PositionOK, Clean, Pending, OnDisk,
       FilesHeld, OwnerNamesRecord, StoreJournalCoordinated, RollsBack
  <2>14. CASE Publish
    <3>1. storeTxn' \in StoreTxn
      BY <2>14 DEF Publish, StoreTxn, TypeOK, JournalTypeOK, Record,
         ContentsOK,
         Installing
    <3>. QED
      BY <2>14, <3>1 DEF Publish
  <2>. QED
    BY <1>2, <2>1, <2>2, <2>3, <2>4, <2>5, <2>6, <2>7, <2>8, <2>9, <2>10,
       <2>11, <2>12, <2>13, <2>14 DEF Install
<1>3. CASE Unwind
  <2>1. CASE UndoDestination \/ UndoTree \/ UndoMarker \/ RollbackLock
    <3>1. CASE UndoDestination
      BY <3>1 DEF UndoDestination
    <3>2. CASE UndoTree
      BY <3>2 DEF UndoTree
    <3>3. CASE UndoMarker
      BY <3>3 DEF UndoMarker
    <3>4. CASE RollbackLock
      BY <3>4 DEF RollbackLock, Fault
    <3>. QED
      BY <2>1, <3>1, <3>2, <3>3, <3>4
  <2>2. CASE RollbackStore \/ Fail \/ JournalDisappeared
    <3>1. CASE RollbackStore
      BY <3>1 DEF RollbackStore
    <3>2. CASE Fail
      BY <3>2 DEF Fail
    <3>3. CASE JournalDisappeared
      BY <3>3 DEF JournalDisappeared, GiveUp
    <3>. QED
      BY <2>2, <3>1, <3>2, <3>3
  <2>. QED
    BY <1>3, <2>1, <2>2 DEF Unwind
<1>4. CASE Break
  <2>1. CASE Error \/ ErrorInSwap \/ ErrorInPublish \/ ErrorInActivation
    <3>1. CASE Error
      BY <3>1 DEF Error, Fault
    <3>2. CASE ErrorInSwap
      BY <3>2 DEF ErrorInSwap, Fault
    <3>3. CASE ErrorInPublish
      BY <3>3 DEF ErrorInPublish, Fault
    <3>4. CASE ErrorInActivation
      BY <3>4 DEF ErrorInActivation, Fault
    <3>. QED
      BY <2>1, <3>1, <3>2, <3>3, <3>4
  <2>2. CASE RecoveryError
    BY <2>2 DEF RecoveryError, Fault, GiveUp, Recovering
  <2>3. CASE ErrorAfterEnd
    BY <2>3 DEF ErrorAfterEnd, Fault, GiveUp, RemoveJournal
  <2>4. CASE Crash
    BY <2>4 DEF Crash, Fault, Forget
  <2>. QED
    BY <1>4, <2>1, <2>2, <2>3, <2>4 DEF Break
<1>5. CASE Environment
  <2>1. CASE UserEdit \/ OtherRecoversStore \/ OthersUseStore
    <3>1. CASE UserEdit
      BY <3>1 DEF UserEdit
    <3>2. CASE OtherRecoversStore
      BY <3>2 DEF OtherRecoversStore
    <3>3. CASE OthersUseStore
      BY <3>3 DEF OthersUseStore
    <3>. QED
      BY <2>1, <3>1, <3>2, <3>3
  <2>. QED
    BY <1>5, <2>1 DEF Environment
<1>6. CASE \E w \in Waiting : Plan(w) \/ Busy(w) \/ Acquire(w)
  <2>1. CASE \E w \in Waiting : Plan(w)
    BY <2>1 DEF Plan
  <2>2. CASE \E w \in Waiting : Busy(w)
    BY <2>2 DEF Busy
  <2>3. CASE \E w \in Waiting : Acquire(w)
    BY <2>3 DEF Acquire
  <2>. QED
    BY <1>6, <2>1, <2>2, <2>3
<1>. QED
  BY <1>1, <1>2, <1>3, <1>4, <1>5, <1>6 DEF Next

-----------------------------------------------------------------------------
(* write_record *)

\* CheckPlan hands write_record the record that begin makes.
LEMMA WriteCheckPlan ==
    ASSUME TypeOK, OnDisk, PositionOK, WriteOK, CheckPlan
    PROVE  WriteOK'
<1>1. CASE /\ pc' = "writeTemp"
           /\ rec' = NewRecord(ownerFile, manifest, lock)
           /\ ret' = "begun"
  <2>1. rec' # None /\ BeginOK(rec')
    BY <1>1, BeginRecord DEF CheckPlan
  <2>2. BeginOK(rec)'
    BY <2>1 DEF BeginOK, CheckPlan, rootVars, journalVars, fileVars, WithTree,
       WithMarker
  <2>3. journalBak' = None
    BY DEF CheckPlan, journalVars, PositionOK, Clean, Pending, TypeOK,
       JournalTypeOK
  <2>. QED
    BY <1>1, <2>1, <2>2, <2>3 DEF WriteOK, Writing
<1>2. CASE pc' \in {"fail", "prepare"}
  BY <1>2 DEF WriteOK, Writing
<1>. QED
  BY <1>1, <1>2 DEF CheckPlan, WriteRecord

\* So does Prepare, when no journal is begun yet.
LEMMA WritePrepare ==
    ASSUME TypeOK, OnDisk, PositionOK, WriteOK, Prepare
    PROVE  WriteOK'
<1>1. CASE ~begun
  <2>0. /\ pc' = "writeTemp"
        /\ rec' = NewRecord(ownerFile, manifest, lock) /\ ret' = "begun"
    BY <1>1 DEF Prepare, WriteRecord
  <2>1. rec' # None /\ BeginOK(rec')
    BY <1>1, <2>0, BeginRecord DEF Prepare
  <2>2. BeginOK(rec)'
    BY <2>1 DEF BeginOK, Prepare, rootVars, journalVars, fileVars, WithTree,
       WithMarker
  <2>3. journalBak' = None
    BY <1>1 DEF Prepare, journalVars, PositionOK, Clean, Pending, TypeOK,
       JournalTypeOK
  <2>. QED
    BY <2>0, <2>1, <2>2, <2>3 DEF WriteOK, Writing
<1>2. CASE begun
  BY <1>2 DEF Prepare, WriteOK, Writing
<1>. QED
  BY <1>1, <1>2

\* set_member_roots rewrites the pending record.
LEMMA WriteMembers ==
    ASSUME TypeOK, PositionOK, WriteOK, RecordMembers
    PROVE  WriteOK'
<1>1. CASE /\ pc' = "writeTemp" /\ rec' = WithMembers(journal)
           /\ ret' = "recordStore"
  <2>1. /\ journal \in Record /\ Pending = journal /\ RollsBack
        /\ journalBak = None
    BY Rewriting DEF RecordMembers, Holding, Working, Choosing
  <2>2. rec' # None
    BY <1>1, <2>1, WithMembersFields
  <2>3. /\ rec' = WithMembers(Pending)' /\ RollsBack'
        /\ journalBak' = None /\ journal' # None
    BY <1>1, <2>1, RecordAssumption DEF RecordMembers, rootVars, journalVars,
       WithMembers, WithTree,
       WithMarker, Pending, RollsBack
  <2>. QED
    BY <1>1, <2>2, <2>3 DEF WriteOK, Writing
<1>2. CASE pc' \in {"fail", "recordStore"}
  BY <1>2 DEF WriteOK, Writing
<1>. QED
  BY <1>1, <1>2 DEF RecordMembers, WriteRecord

\* set_store_root rewrites the pending record.
LEMMA WriteStoreRoot ==
    ASSUME TypeOK, PositionOK, WriteOK, RecordStore
    PROVE  WriteOK'
<1>1. journal \in Record /\ Pending = journal /\ RollsBack /\ journalBak = None
  BY Rewriting DEF RecordStore, Holding, Working, Choosing
<1>2. pc' = "writeTemp" /\ rec' = WithStore(journal) /\ ret' = "publish"
  BY DEF RecordStore, WriteRecord
<1>3. rec' # None
  BY <1>1, <1>2, WithStoreFields
<1>4. /\ rec' = WithStore(Pending)' /\ RollsBack' /\ journalBak' = None
      /\ journal' # None
  BY <1>1, <1>2, RecordAssumption DEF RecordStore, journalVars, WithStore,
     Pending, RollsBack
<1>. QED
  BY <1>2, <1>3, <1>4 DEF WriteOK, Writing

\* mark_committed rewrites the pending record.
LEMMA WriteCommit ==
    ASSUME TypeOK, PositionOK, WriteOK, MarkCommitted
    PROVE  WriteOK'
<1>1. journal \in Record /\ Pending = journal /\ RollsBack /\ journalBak = None
  BY Rewriting DEF MarkCommitted, Holding, Working
<1>2. pc' = "writeTemp" /\ rec' = WithCommit(journal) /\ ret' = "committed"
  BY DEF MarkCommitted, WriteRecord
<1>3. rec' # None
  BY <1>1, <1>2, WithCommitFields
<1>4. /\ rec' = WithCommit(Pending)' /\ RollsBack' /\ journalBak' = None
      /\ journal' # None
  BY <1>1, <1>2, RecordAssumption DEF MarkCommitted, journalVars, WithCommit,
     Pending, RollsBack
<1>. QED
  BY <1>2, <1>3, <1>4 DEF WriteOK, Writing

\* Moving the old record to its backup leaves what recovery would read.
LEMMA WriteVacate ==
    ASSUME TypeOK, PositionOK, WriteOK, VacateJournal
    PROVE  WriteOK'
<1>1. Pending' = Pending
  BY DEF VacateJournal, SwapOut, WriteOK, Pending
<1>2. /\ RollsBack => RollsBack'
      /\ WithMembers(Pending)' = WithMembers(Pending)
      /\ WithStore(Pending)' = WithStore(Pending)
      /\ WithCommit(Pending)' = WithCommit(Pending)
      /\ BeginOK(rec) => BeginOK(rec)'
  BY <1>1 DEF VacateJournal, rootVars, fileVars, writeVars, RollsBack,
     WithMembers, WithStore,
     WithCommit, WithTree, WithMarker, BeginOK
<1>. QED
  BY <1>2 DEF VacateJournal, WriteOK, Writing, writeVars

\* The record in place is the one that was to be written.
LEMMA WritePublish ==
    ASSUME TypeOK, PositionOK, WriteOK, PublishRecord
    PROVE  WriteOK'
<1>1. /\ pc = "swapIn" /\ pc' = "writeSync" /\ journal' = rec
      /\ rec' = rec /\ ret' = ret
  BY DEF PublishRecord, SwapIn, writeVars
<1>2. rec # None /\ ret # "free"
  BY <1>1 DEF WriteOK, Writing
<1>3. rec.state = IF ret = "committed" THEN "Committed" ELSE "Prepared"
  <2>1. CASE ret = "begun"
    BY <1>1, <2>1 DEF WriteOK, Writing, BeginOK
  <2>2. CASE ret # "begun"
    <3>1. Pending \in Record /\ Pending.state = "Prepared"
      BY <1>1, <2>2, PendingType DEF WriteOK, Writing, RollsBack
    <3>2. ret \in {"recordStore", "publish", "committed"}
      BY <1>2, <2>2 DEF TypeOK
    <3>3. CASE ret = "recordStore"
      <4>1. rec = WithMembers(Pending)
        BY <1>1, <3>3 DEF WriteOK, Writing
      <4>. QED
        BY <3>1, <3>3, <4>1, WithMembersFields
    <3>4. CASE ret = "publish"
      <4>1. rec = WithStore(Pending)
        BY <1>1, <3>4 DEF WriteOK, Writing
      <4>. QED
        BY <3>1, <3>4, <4>1, WithStoreFields
    <3>5. CASE ret = "committed"
      <4>1. rec = WithCommit(Pending)
        BY <1>1, <3>5 DEF WriteOK, Writing
      <4>. QED
        BY <3>1, <3>5, <4>1, WithCommitFields
    <3>. QED
      BY <3>2, <3>3, <3>4, <3>5
  <2>. QED
    BY <2>1, <2>2
<1>. QED
  BY <1>1, <1>2, <1>3 DEF WriteOK, Writing

\* A step to a position outside write_record owes WriteOK nothing.
LEMMA NotWriting ==
    ASSUME pc' \notin Writing \cup {"writeSync"} PROVE WriteOK'
BY DEF WriteOK, Writing

\* Nor does a step that leaves the files and the subroutine alone.
LEMMA SameWriting ==
    ASSUME WriteOK,
           UNCHANGED <<rootVars, journalVars, fileVars, ownerFile, pc,
                       writeVars>>
    PROVE  WriteOK'
BY DEF WriteOK, Writing, BeginOK, Pending, RollsBack, WithMembers, WithStore,
   WithCommit, WithTree, WithMarker, rootVars, journalVars, fileVars, writeVars

\* Every step keeps WriteOK: only six of them enter or stay in write_record.
LEMMA WriteStep ==
    ASSUME TypeOK, OnDisk, WriteOK, PositionOK, Next
    PROVE  WriteOK'
<1>1. CASE Recover
  <2>1. CASE RestoreJournal \/ RecoverAlone \/ ReadJournal \/ RecoverStore
    BY <2>1, NotWriting DEF RestoreJournal, RecoverAlone, ReadJournal,
       RecoverStore, Writing
  <2>2. CASE VacateManifest \/ RestoreManifest \/ RestoreLock \/ PickRoot
    BY <2>2, NotWriting DEF VacateManifest, RestoreManifest, RestoreLock,
       PickRoot, Writing
  <2>3. CASE Unmark \/ Remark \/ ClearTree \/ RestorePriorTree
    BY <2>3, NotWriting DEF Unmark, Remark, ClearTree, RestorePriorTree,
       Writing
  <2>4. CASE CommitMarker \/ CommitTree \/ DropStage \/ RemoveBackupJournal
    BY <2>4, NotWriting DEF CommitMarker, CommitTree, DropStage,
       RemoveBackupJournal, Writing
  <2>5. CASE EndTransaction \/ DiscardLeftover \/ Exit
    BY <2>5, NotWriting DEF EndTransaction, DiscardLeftover, Exit, Forget,
       Writing
  <2>. QED
    BY <1>1, <2>1, <2>2, <2>3, <2>4, <2>5 DEF Recover
<1>2. CASE Install
  <2>1. CASE TruncateOwner \/ WriteOwner \/ Begun \/ TruncateManifest
    BY <2>1, NotWriting DEF TruncateOwner, WriteOwner, Begun,
       TruncateManifest, Writing
  <2>2. CASE CheckPlan \/ Prepare \/ RecordMembers
    BY <2>2, WriteCheckPlan, WritePrepare, WriteMembers
  <2>3. CASE RecordStore \/ MarkCommitted \/ VacateJournal \/ PublishRecord
    BY <2>3, WriteStoreRoot, WriteCommit, WriteVacate, WritePublish
  <2>4. CASE WriteTemp
    <3>1. /\ pc = "writeTemp" /\ pc' \in {"swapOut", "swapIn"}
          /\ UNCHANGED <<rootVars, journalVars, fileVars, ownerFile,
                         writeVars>>
      BY <2>4 DEF WriteTemp
    <3>2. /\ Pending' = Pending /\ RollsBack' = RollsBack
          /\ WithMembers(Pending)' = WithMembers(Pending)
          /\ WithStore(Pending)' = WithStore(Pending)
          /\ WithCommit(Pending)' = WithCommit(Pending)
          /\ BeginOK(rec)' = BeginOK(rec)
      BY <3>1 DEF rootVars, journalVars, fileVars, writeVars, Pending,
         RollsBack, WithMembers, WithStore, WithCommit, WithTree, WithMarker,
         BeginOK
    <3>. QED
      BY <3>1, <3>2 DEF WriteOK, Writing, writeVars, journalVars
  <2>5. CASE WriteSync
    <3>1. ret \notin Writing \cup {"writeSync"}
      BY DEF TypeOK, Writing
    <3>. QED
      BY <2>5, <3>1, NotWriting DEF WriteSync
  <2>6. CASE WriteManifest \/ RejectLock \/ Publish \/ PublishTrees
    BY <2>6, NotWriting DEF WriteManifest, RejectLock, Publish, PublishTrees,
       Writing
  <2>7. CASE UseStore \/ BackUpLock \/ PlaceLock \/ Stage \/ Activate
    BY <2>7, NotWriting DEF UseStore, BackUpLock, PlaceLock, Stage, Activate,
       Writing
  <2>8. CASE MoveMarkerAside \/ MoveTreeAside \/ MoveStage \/ MarkTree
    BY <2>8, NotWriting DEF MoveMarkerAside, MoveTreeAside, MoveStage,
       MarkTree, Writing
  <2>9. CASE Unstage \/ CommitStore \/ DiscardLockBackup
    BY <2>9, NotWriting DEF Unstage, CommitStore, DiscardLockBackup, Writing
  <2>. QED
    BY <1>2, <2>1, <2>2, <2>3, <2>4, <2>5, <2>6, <2>7, <2>8, <2>9 DEF Install
<1>3. CASE Unwind
  BY <1>3, NotWriting DEF Unwind, UndoDestination, UndoTree, UndoMarker,
     RollbackLock, RollbackStore, Fail, JournalDisappeared, GiveUp, Writing
<1>4. CASE Break
  BY <1>4, NotWriting DEF Break, Error, ErrorInSwap, ErrorInPublish,
     ErrorInActivation, RecoveryError, ErrorAfterEnd, GiveUp, Crash, Forget,
     Writing
<1>5. CASE Environment
  <2>1. CASE UserEdit
    BY <2>1, NotWriting DEF UserEdit, Writing
  <2>2. CASE OtherRecoversStore \/ OthersUseStore
    BY <2>2, SameWriting DEF OtherRecoversStore, OthersUseStore
  <2>. QED
    BY <1>5, <2>1, <2>2 DEF Environment
<1>6. ASSUME NEW w \in Waiting, Plan(w) \/ Busy(w) \/ Acquire(w)
      PROVE  WriteOK'
  <2>1. CASE Plan(w) \/ Busy(w)
    BY <2>1, SameWriting DEF Plan, Busy
  <2>2. CASE Acquire(w)
    BY <2>2, NotWriting DEF Acquire, Writing
  <2>. QED
    BY <1>6, <2>1, <2>2
<1>. QED
  BY <1>1, <1>2, <1>3, <1>4, <1>5, <1>6 DEF Next
=============================================================================
