---------------------------- MODULE InstallDisk ----------------------------
(***************************************************************************)
(* No step loses the project: OnDisk, the part of the inductive invariant  *)
(* that speaks of files only, is kept by every step of InstallTransaction. *)
(***************************************************************************)
EXTENDS InstallTypes

diskVars == <<tree, treeBak, markerBak, journal, journalBak, manifest,
              ownerFile, storeTxn>>

\* A step that leaves these files alone keeps OnDisk.
LEMMA SameDisk == ASSUME OnDisk, UNCHANGED diskVars PROVE OnDisk'
BY DEF diskVars, OnDisk, FilesHeld, RootHeld, OwnerNamesRecord,
       StoreJournalCoordinated, RollsBack, Pending, SavedTree, SavedMarker

\* A root whose files and whose record stay is still held.
LEMMA SameRoot ==
    ASSUME NEW r \in Roots, RootHeld(r), Pending' = Pending,
           tree'[r] = tree[r], treeBak'[r] = treeBak[r],
           markerBak'[r] = markerBak[r]
    PROVE  RootHeld(r)'
BY DEF RootHeld, RollsBack, SavedTree, SavedMarker

\* A step in one root.
LEMMA OneRoot ==
    ASSUME OnDisk, NEW c \in Roots, RootHeld(c)',
           UNCHANGED <<journal, journalBak, manifest, ownerFile, storeTxn>>,
           \A r \in Roots \ {c} : /\ tree'[r] = tree[r]
                                  /\ treeBak'[r] = treeBak[r]
                                  /\ markerBak'[r] = markerBak[r]
    PROVE  OnDisk'
<1>1. Pending' = Pending
  BY DEF Pending
<1>2. FilesHeld'
  BY <1>1 DEF OnDisk, FilesHeld, OwnerNamesRecord, StoreJournalCoordinated,
     RollsBack
<1>3. ASSUME NEW r \in Roots PROVE RootHeld(r)'
  <2>1. CASE r # c
    BY <1>1, <2>1, SameRoot DEF OnDisk
  <2>. QED
    BY <2>1
<1>. QED
  BY <1>2, <1>3 DEF OnDisk

\* A step outside the roots that leaves what recovery would read.
LEMMA NoRoot ==
    ASSUME OnDisk, FilesHeld', Pending' = Pending,
           UNCHANGED <<tree, treeBak, markerBak>>
    PROVE  OnDisk'
<1>1. ASSUME NEW r \in Roots PROVE RootHeld(r)'
  BY SameRoot DEF OnDisk
<1>. QED
  BY <1>1 DEF OnDisk

\* Without a record: no backup, nothing torn.
LEMMA WithoutRecord ==
    ASSUME OnDisk, Pending = None, NEW r \in Roots
    PROVE  /\ tree[r] # Torn /\ manifest # Torn /\ storeTxn = None
           /\ \A o \in Owners : treeBak[r][o] = None /\ markerBak[r][o] = None
BY DEF OnDisk, FilesHeld, RootHeld, StoreJournalCoordinated, RollsBack

-----------------------------------------------------------------------------

\* Recovery reads the same record before and after each of these steps.
LEMMA JournalStays ==
    ASSUME WriteOK, RecoveryOK,
           RestoreJournal \/ RemoveBackupJournal \/ VacateJournal \/ WriteSync
              \/ ErrorInSwap
    PROVE  Pending' = Pending
<1>1. pc = "removeBackupJournal" \/ pc = "writeSync" => journal # None
  BY DEF RecoveryOK, Recovering, WriteOK
<1>2. pc = "swapOut" => journalBak = None
  BY DEF WriteOK
<1>. QED
  BY <1>1, <1>2 DEF Pending, RestoreJournal, RestoreJournalBackup,
     RemoveBackupJournal, DropJournalBackup, VacateJournal, SwapOut, WriteSync,
     ErrorInSwap

\* So these steps keep OnDisk.
LEMMA DiskJournal ==
    ASSUME TypeOK, OnDisk, WriteOK, RecoveryOK,
           RestoreJournal \/ RemoveBackupJournal \/ VacateJournal \/ WriteSync
              \/ ErrorInSwap
    PROVE  OnDisk'
<1>1. Pending' = Pending
  BY JournalStays
<1>2. UNCHANGED <<tree, treeBak, markerBak, manifest, ownerFile, storeTxn>>
  BY DEF RestoreJournal, RemoveBackupJournal, VacateJournal, WriteSync,
     ErrorInSwap, rootVars, fileVars, storeVars
<1>3. FilesHeld'
  BY <1>1, <1>2 DEF OnDisk, FilesHeld, OwnerNamesRecord,
     StoreJournalCoordinated, RollsBack
<1>. QED
  BY <1>1, <1>2, <1>3, NoRoot

\* package.json is replaced while a Prepared record can restore it.
LEMMA DiskManifest ==
    ASSUME TypeOK, OnDisk, RecoveryOK, PositionOK, ContentsOK,
           \/ VacateManifest \/ RestoreManifest \/ TruncateManifest
           \/ WriteManifest \/ UserEdit
    PROVE  OnDisk'
<1>1. /\ Pending' = Pending
      /\ UNCHANGED <<tree, treeBak, markerBak, ownerFile, storeTxn>>
  BY DEF VacateManifest, RestoreManifest, TruncateManifest, WriteManifest,
     UserEdit, rootVars, journalVars, storeVars, Pending
<1>2. manifest' = Torn => RollsBack
  <2>1. CASE VacateManifest
    BY <2>1 DEF VacateManifest, RecoveryOK, Recovering, RollsBack, Pending
  <2>2. CASE TruncateManifest
    BY <2>2 DEF TruncateManifest, PositionOK, Holding, Working, Editing,
       RollsBack, Pending
  <2>3. CASE RestoreManifest
    <3>1. journal \in Record
      BY <2>3 DEF RestoreManifest, RecoveryOK, Recovering, TypeOK,
         JournalTypeOK
    <3>. QED
      BY <2>3, <3>1, RootsAssumption DEF RestoreManifest, Record
  <2>4. CASE WriteManifest
    BY <2>4, RootsAssumption DEF WriteManifest, ContentsOK
  <2>5. CASE UserEdit
    BY <2>5, RootsAssumption DEF UserEdit
  <2>. QED
    BY <2>1, <2>2, <2>3, <2>4, <2>5
<1>3. FilesHeld'
  BY <1>1, <1>2 DEF OnDisk, FilesHeld, OwnerNamesRecord,
     StoreJournalCoordinated, RollsBack
<1>. QED
  BY <1>1, <1>3, NoRoot

\* The store journal appears under a record that names the store, and goes
\* at any time.
LEMMA DiskStore ==
    ASSUME TypeOK, OnDisk, PositionOK, ActivationOK, StoreOK,
           \/ RecoverStore \/ Publish \/ CommitStore \/ RollbackStore
           \/ ErrorInPublish \/ OtherRecoversStore
    PROVE  OnDisk'
<1>1. /\ Pending' = Pending
      /\ UNCHANGED <<tree, treeBak, markerBak, ownerFile, manifest>>
  BY DEF RecoverStore, Publish, CommitStore, RollbackStore, ErrorInPublish,
     OtherRecoversStore, rootVars, journalVars, fileVars, Pending
<1>2. \/ storeTxn' \in {None, storeTxn}
      \/ Publish /\ storeTxn'.owner = journal.owner
  BY DEF RecoverStore, Publish, CommitStore, RollbackStore, ErrorInPublish,
     OtherRecoversStore
<1>3. Publish => Pending = journal /\ Pending.store /\ Pending # None
  BY DEF Publish, Pending, StoreOK
<1>4. FilesHeld'
  BY <1>1, <1>2, <1>3 DEF OnDisk, FilesHeld, OwnerNamesRecord,
     StoreJournalCoordinated, RollsBack
<1>. QED
  BY <1>1, <1>4, NoRoot

-----------------------------------------------------------------------------

\* One rename or removal in the root c, by the owner of the pending record:
\* nothing changes but c's files and that owner's backups in it.
LEMMA InRoot ==
    ASSUME TypeOK, OnDisk, NEW c \in Roots, Pending # None,
           c \in Pending.roots,
           UNCHANGED <<journal, journalBak, manifest, ownerFile, storeTxn>>,
           NEW t, NEW saved, NEW savedMarker,
           tree' = [tree EXCEPT ![c] = t],
           treeBak' = [treeBak EXCEPT ![c][Pending.owner] = saved],
           markerBak' = [markerBak EXCEPT ![c][Pending.owner] = savedMarker],
           t = Torn => RollsBack /\ (saved # None \/ c \notin Pending.hadTree),
           RollsBack => /\ saved # Torn
                        /\ saved # None => c \in Pending.hadTree
                        /\ savedMarker # None => c \in Pending.hadMarker
    PROVE  OnDisk'
<1>1. Pending \in Record
  BY PendingType
<1>2. /\ tree \in [Roots -> TreeFile]
      /\ treeBak \in [Roots -> [Owners -> TreeFile]]
      /\ markerBak \in [Roots -> [Owners -> MarkerFile]]
      /\ Pending.owner \in Owners
  BY <1>1 DEF TypeOK, RootsTypeOK, Record
<1>3. \A r \in Roots \ {c} : /\ tree'[r] = tree[r]
                             /\ treeBak'[r] = treeBak[r]
                             /\ markerBak'[r] = markerBak[r]
  BY <1>2
<1>4. /\ tree'[c] = t
      /\ treeBak'[c][Pending.owner] = saved
      /\ markerBak'[c][Pending.owner] = savedMarker
      /\ \A o \in Owners \ {Pending.owner} :
            /\ treeBak'[c][o] = treeBak[c][o]
            /\ markerBak'[c][o] = markerBak[c][o]
  BY <1>2
<1>5. /\ Pending' = Pending
      /\ RollsBack' => RollsBack
      /\ RollsBack => RollsBack'
  BY DEF Pending, RollsBack
<1>6. RootHeld(c)'
  BY <1>2, <1>4, <1>5 DEF OnDisk, RootHeld, SavedTree, SavedMarker
<1>. QED
  BY <1>3, <1>6, OneRoot

\* Assigning what is there changes nothing.
LEMMA SameFiles ==
    ASSUME TypeOK, NEW c \in Roots, NEW o \in Owners
    PROVE  /\ tree = [tree EXCEPT ![c] = tree[c]]
           /\ treeBak = [treeBak EXCEPT ![c][o] = treeBak[c][o]]
           /\ markerBak = [markerBak EXCEPT ![c][o] = markerBak[c][o]]
BY DEF TypeOK, RootsTypeOK

\* Rolling a root back or forward.
LEMMA DiskRecovery ==
    ASSUME TypeOK, OnDisk, RecoveryOK,
           \/ Remark \/ ClearTree \/ RestorePriorTree
           \/ CommitMarker \/ CommitTree
    PROVE  OnDisk'
<1>1. /\ journal \in Record /\ journal # None /\ Pending = journal
      /\ cur \in Roots /\ cur \in Pending.roots /\ Pending.owner \in Owners
  BY DEF Remark, ClearTree, RestorePriorTree, CommitMarker, CommitTree, TypeOK,
     JournalTypeOK, RecoveryOK, Recovering, Walking, RollingBack,
     RollingForward, Pending, Record
<1>2. UNCHANGED <<journal, journalBak, manifest, ownerFile, storeTxn>>
  BY DEF Remark, ClearTree, RestorePriorTree, CommitMarker, CommitTree,
     journalVars, fileVars, storeVars
<1>3. /\ tree = [tree EXCEPT ![cur] = tree[cur]]
      /\ treeBak = [treeBak EXCEPT ![cur][journal.owner] = SavedTree(cur)]
      /\ markerBak =
            [markerBak EXCEPT ![cur][journal.owner] = SavedMarker(cur)]
  BY <1>1, SameFiles DEF SavedTree, SavedMarker
<1>4. RootHeld(cur)
  BY <1>1 DEF OnDisk
<1>5. CASE UNCHANGED <<tree, treeBak, markerBak>>
  BY <1>2, <1>5, SameDisk DEF diskVars
<1>6. CASE Remark /\ RestoreMarker(cur, journal.owner)
  <2>1. /\ tree' = [tree EXCEPT ![cur] = tree[cur]]
        /\ treeBak' = [treeBak EXCEPT ![cur][journal.owner] = SavedTree(cur)]
        /\ markerBak' = [markerBak EXCEPT ![cur][journal.owner] = None]
    BY <1>3, <1>6 DEF RestoreMarker
  <2>2. /\ tree[cur] = Torn =>
              /\ RollsBack
              /\ SavedTree(cur) # None \/ cur \notin Pending.hadTree
        /\ RollsBack => /\ SavedTree(cur) # Torn
                        /\ SavedTree(cur) # None => cur \in Pending.hadTree
    BY <1>4 DEF RootHeld
  <2>. QED
    BY <1>1, <1>2, <2>1, <2>2, InRoot
<1>7. CASE /\ ClearTree
           /\ \E left \in {None, Torn} : RemoveTree(cur, left)
           /\ SavedTree(cur) # None \/ cur \notin journal.hadTree
  <2>1. PICK left \in {None, Torn} : RemoveTree(cur, left)
    BY <1>7
  <2>2. /\ tree' = [tree EXCEPT ![cur] = left]
        /\ treeBak' = [treeBak EXCEPT ![cur][journal.owner] = SavedTree(cur)]
        /\ markerBak' =
              [markerBak EXCEPT ![cur][journal.owner] = SavedMarker(cur)]
    BY <1>3, <2>1 DEF RemoveTree
  <2>3. RollsBack
    BY <1>1, <1>7 DEF ClearTree, RecoveryOK, RollingBack, RollsBack
  <2>. QED
    BY <1>1, <1>2, <1>4, <1>7, <2>1, <2>2, <2>3, InRoot DEF RootHeld
<1>8. CASE RestorePriorTree /\ RestoreTree(cur, journal.owner)
  <2>1. /\ tree' = [tree EXCEPT ![cur] = SavedTree(cur)]
        /\ treeBak' = [treeBak EXCEPT ![cur][journal.owner] = None]
        /\ markerBak' =
              [markerBak EXCEPT ![cur][journal.owner] = SavedMarker(cur)]
    BY <1>1, <1>3, <1>8 DEF RestoreTree, SavedTree
  <2>2. RollsBack
    BY <1>1, <1>8 DEF RestorePriorTree, RecoveryOK, RollingBack, RollsBack
  <2>. QED
    BY <1>1, <1>2, <1>4, <2>1, <2>2, InRoot, RootsAssumption DEF RootHeld
<1>9. CASE CommitMarker \/ CommitTree
  <2>1. ~RollsBack
    BY <1>1, <1>9 DEF CommitMarker, CommitTree, RecoveryOK, RollingForward,
       RollsBack
  <2>2. tree[cur] # Torn
    BY <1>4, <2>1 DEF RootHeld
  <2>3. CASE CommitMarker
    <3>1. /\ tree' = [tree EXCEPT ![cur] = tree[cur]]
          /\ treeBak' = [treeBak EXCEPT ![cur][journal.owner] = SavedTree(cur)]
          /\ markerBak' = [markerBak EXCEPT ![cur][journal.owner] = None]
      BY <1>3, <2>3 DEF CommitMarker, DropMarkerBackup
    <3>. QED
      BY <1>1, <1>2, <2>1, <2>2, <3>1, InRoot
  <2>4. CASE CommitTree
    <3>1. PICK left \in {None, Torn} : DropTreeBackup(cur, journal.owner, left)
      BY <2>4 DEF CommitTree
    <3>2. /\ tree' = [tree EXCEPT ![cur] = tree[cur]]
          /\ treeBak' = [treeBak EXCEPT ![cur][journal.owner] = left]
          /\ markerBak' =
                [markerBak EXCEPT ![cur][journal.owner] = SavedMarker(cur)]
      BY <1>3, <3>1 DEF DropTreeBackup
    <3>. QED
      BY <1>1, <1>2, <2>1, <2>2, <3>2, InRoot
  <2>. QED
    BY <1>9, <2>3, <2>4
<1>. QED
  BY <1>1, <1>5, <1>6, <1>7, <1>8, <1>9 DEF Remark, ClearTree,
     RestorePriorTree,
     SavedTree, rootVars

\* Activating a root, and undoing it.
LEMMA DiskActivation ==
    ASSUME TypeOK, OnDisk, PositionOK, ContentsOK, ActivationOK,
           \/ MoveMarkerAside \/ MoveTreeAside \/ MoveStage
           \/ UndoDestination \/ UndoTree \/ UndoMarker
    PROVE  OnDisk'
<1>1. pc \in Activating /\ pc \in Materializing
  BY DEF MoveMarkerAside, MoveTreeAside, MoveStage, UndoDestination, UndoTree,
     UndoMarker, Activating, Materializing
<1>2. /\ journal \in Record /\ journal # None /\ Pending = journal /\ RollsBack
      /\ ownerFile = journal.owner /\ journal.owner \in Owners
  BY <1>1, OwnRecord DEF RollsBack
<1>3. cur \in Roots /\ cur \in Pending.roots
  BY <1>1 DEF ActivationOK, MembersKnown, TypeOK
<1>4. UNCHANGED <<journal, journalBak, manifest, ownerFile, storeTxn>>
  BY DEF MoveMarkerAside, MoveTreeAside, MoveStage, UndoDestination, UndoTree,
     UndoMarker, journalVars, fileVars, storeVars
<1>5. /\ tree = [tree EXCEPT ![cur] = tree[cur]]
      /\ treeBak = [treeBak EXCEPT ![cur][journal.owner] = SavedTree(cur)]
      /\ markerBak =
            [markerBak EXCEPT ![cur][journal.owner] = SavedMarker(cur)]
  BY <1>2, <1>3, SameFiles DEF SavedTree, SavedMarker
<1>6. RootHeld(cur)
  BY <1>3 DEF OnDisk
<1>7. CASE UNCHANGED <<tree, treeBak, markerBak>>
  BY <1>4, <1>7, SameDisk DEF diskVars
<1>8. CASE /\ MoveMarkerAside /\ BackUpMarker(cur, ownerFile)
           /\ marker[cur] # None
  <2>1. /\ tree' = [tree EXCEPT ![cur] = tree[cur]]
        /\ treeBak' = [treeBak EXCEPT ![cur][journal.owner] = SavedTree(cur)]
        /\ markerBak' = [markerBak EXCEPT ![cur][journal.owner] = marker[cur]]
    BY <1>2, <1>5, <1>8 DEF BackUpMarker
  <2>2. cur \in Pending.hadMarker
    BY <1>8 DEF MoveMarkerAside, ActivationOK, Untouched
  <2>. QED
    BY <1>2, <1>3, <1>4, <1>6, <2>1, <2>2, InRoot DEF RootHeld
<1>9. CASE MoveTreeAside /\ BackUpTree(cur, ownerFile) /\ tree[cur] # None
  <2>1. /\ tree' = [tree EXCEPT ![cur] = None]
        /\ treeBak' = [treeBak EXCEPT ![cur][journal.owner] = tree[cur]]
        /\ markerBak' =
              [markerBak EXCEPT ![cur][journal.owner] = SavedMarker(cur)]
    BY <1>2, <1>5, <1>9 DEF BackUpTree
  <2>2. cur \in Pending.hadTree /\ SavedTree(cur) = None
    BY <1>9 DEF MoveTreeAside, ActivationOK
  <2>3. tree[cur] # Torn
    BY <1>6, <2>2 DEF RootHeld
  <2>. QED
    BY <1>2, <1>3, <1>4, <1>6, <2>1, <2>2, <2>3, InRoot, RootsAssumption
       DEF RootHeld
<1>10. CASE MoveStage
  <2>1. /\ tree' = [tree EXCEPT ![cur] = goal]
        /\ treeBak' = [treeBak EXCEPT ![cur][journal.owner] = SavedTree(cur)]
        /\ markerBak' =
              [markerBak EXCEPT ![cur][journal.owner] = SavedMarker(cur)]
    BY <1>5, <1>10 DEF MoveStage, MoveStageIn
  <2>2. goal # Torn
    BY <1>1, RootsAssumption DEF ContentsOK, Installing
  <2>. QED
    BY <1>2, <1>3, <1>4, <1>6, <2>1, <2>2, InRoot DEF RootHeld
<1>11. CASE UndoDestination
  <2>1. PICK left \in {None, Torn} : RemoveTree(cur, left)
    BY <1>11 DEF UndoDestination
  <2>2. /\ tree' = [tree EXCEPT ![cur] = left]
        /\ treeBak' = [treeBak EXCEPT ![cur][journal.owner] = SavedTree(cur)]
        /\ markerBak' =
              [markerBak EXCEPT ![cur][journal.owner] = SavedMarker(cur)]
    BY <1>5, <2>1 DEF RemoveTree
  <2>3. TreeSaved(cur)
    BY <1>11 DEF UndoDestination, ActivationOK
  <2>. QED
    BY <1>2, <1>3, <1>4, <1>6, <2>2, <2>3, InRoot DEF RootHeld, TreeSaved
<1>12. CASE UndoTree /\ RestoreTree(cur, ownerFile)
  <2>1. /\ tree' = [tree EXCEPT ![cur] = SavedTree(cur)]
        /\ treeBak' = [treeBak EXCEPT ![cur][journal.owner] = None]
        /\ markerBak' =
              [markerBak EXCEPT ![cur][journal.owner] = SavedMarker(cur)]
    BY <1>2, <1>5, <1>12 DEF RestoreTree, SavedTree
  <2>. QED
    BY <1>2, <1>3, <1>4, <1>6, <2>1, InRoot, RootsAssumption DEF RootHeld
<1>13. CASE UndoMarker /\ RestoreMarker(cur, ownerFile)
  <2>1. /\ tree' = [tree EXCEPT ![cur] = tree[cur]]
        /\ treeBak' = [treeBak EXCEPT ![cur][journal.owner] = SavedTree(cur)]
        /\ markerBak' = [markerBak EXCEPT ![cur][journal.owner] = None]
    BY <1>2, <1>5, <1>13 DEF RestoreMarker
  <2>. QED
    BY <1>2, <1>3, <1>4, <1>6, <2>1, InRoot DEF RootHeld
<1>. QED
  BY <1>7, <1>8, <1>9, <1>10, <1>11, <1>12, <1>13 DEF MoveMarkerAside,
     MoveTreeAside, UndoTree, UndoMarker, rootVars

\* Without a record there is nothing to settle: recovery of the root alone
\* changes no tree and no backup.
LEMMA DiskAlone ==
    ASSUME TypeOK, OnDisk, RecoverAlone
    PROVE  OnDisk'
<1>1. UNCHANGED <<journal, journalBak, manifest, ownerFile, storeTxn>>
  BY DEF RecoverAlone, journalVars, fileVars, storeVars
<1>2. CASE ownerFile = None
  BY <1>1, <1>2, SameDisk DEF RecoverAlone, rootVars, diskVars
<1>3. CASE ownerFile # None
  <2>1. ownerFile \in Owners /\ Root \in Roots
    BY <1>3 DEF TypeOK, Roots
  <2>2. treeBak[Root][ownerFile] = None /\ markerBak[Root][ownerFile] = None
    BY <2>1, WithoutRecord DEF RecoverAlone
  <2>3. UNCHANGED <<tree, treeBak, markerBak>>
    BY <1>3, <2>1, <2>2, SameFiles DEF RecoverAlone, RecoverUncoordinated
  <2>. QED
    BY <1>1, <2>3, SameDisk DEF diskVars
<1>. QED
  BY <1>2, <1>3

\* The owner changes only when no record is pending.
LEMMA DiskOwner ==
    ASSUME TypeOK, OnDisk, PositionOK, TruncateOwner \/ WriteOwner
    PROVE  OnDisk'
<1>1. Pending = None
  BY DEF TruncateOwner, WriteOwner, PositionOK, Clean
<1>2. /\ Pending' = Pending
      /\ UNCHANGED <<tree, treeBak, markerBak, manifest, storeTxn>>
  BY DEF TruncateOwner, WriteOwner, rootVars, journalVars, fileVars, storeVars,
     Pending
<1>3. FilesHeld'
  BY <1>1, <1>2 DEF OnDisk, FilesHeld, OwnerNamesRecord,
     StoreJournalCoordinated, RollsBack
<1>. QED
  BY <1>2, <1>3, NoRoot

\* The record goes when every root it names is settled.
LEMMA DiskEnd ==
    ASSUME TypeOK, OnDisk, RecoveryOK, StoreOK, EndTransaction \/ ErrorAfterEnd
    PROVE  OnDisk'
<1>1. pc = "removeJournal" /\ journal' = None /\ journalBak' = journalBak
  BY DEF EndTransaction, ErrorAfterEnd, RemoveJournal
<1>2. /\ journal \in Record /\ journal # None /\ journalBak = None
      /\ Pending = journal /\ journal.owner \in Owners
  BY <1>1 DEF RecoveryOK, Recovering, TypeOK, JournalTypeOK, Pending, Record
<1>3. Pending' = None
  BY <1>1, <1>2 DEF Pending
<1>4. UNCHANGED <<tree, treeBak, markerBak, manifest, ownerFile, storeTxn>>
  BY DEF EndTransaction, ErrorAfterEnd, rootVars, fileVars, storeVars
<1>5. storeTxn = None
  BY <1>1 DEF StoreOK, Ending
<1>6. manifest # Torn
  BY <1>1, <1>2, RootsAssumption DEF RecoveryOK, Ending, OnDisk, FilesHeld,
     RollsBack, Record
<1>7. ASSUME NEW r \in Roots PROVE RootHeld(r)'
  <2>1. treeBak[r][journal.owner] = None /\ markerBak[r][journal.owner] = None
    <3>1. CASE r \in journal.roots
      BY <1>1, <3>1 DEF RecoveryOK, Ending, MarkerSettled, TreeSettled
    <3>2. CASE r \notin journal.roots
      BY <1>2, <3>2 DEF OnDisk, RootHeld, SavedTree, SavedMarker
    <3>. QED
      BY <3>1, <3>2
  <2>2. \A o \in Owners : treeBak[r][o] = None /\ markerBak[r][o] = None
    BY <1>2, <2>1 DEF OnDisk, RootHeld
  <2>3. tree[r] # Torn
    <3>1. SUFFICES ASSUME tree[r] = Torn PROVE FALSE
      OBVIOUS
    <3>2. /\ RollsBack /\ r \in journal.roots
          /\ r \notin journal.hadTree
      BY <1>2, <2>1, <3>1 DEF OnDisk, RootHeld, SavedTree
    <3>. QED
      BY <1>1, <1>2, <3>1, <3>2, RootsAssumption DEF RecoveryOK, Ending,
         TreeSettled, RollsBack
  <2>. QED
    BY <1>3, <1>4, <2>2, <2>3 DEF RootHeld, RollsBack
<1>. QED
  BY <1>3, <1>4, <1>5, <1>6, <1>7 DEF OnDisk, FilesHeld, OwnerNamesRecord,
     StoreJournalCoordinated

\* A record that write_record publishes agrees with what is on disk.
LEMMA DiskRecord ==
    ASSUME TypeOK, OnDisk, WriteOK, PositionOK, ContentsOK, ActivationOK,
           PublishRecord
    PROVE  OnDisk'
<1>1. /\ pc = "swapIn" /\ pc \in Writing /\ journal' = rec /\ rec # None
      /\ rec \in Record /\ ret # "free"
  BY DEF PublishRecord, SwapIn, WriteOK, Writing, TypeOK
<1>2. Pending' = rec
  BY <1>1 DEF Pending
<1>3. UNCHANGED <<tree, treeBak, markerBak, manifest, ownerFile, storeTxn>>
  BY DEF PublishRecord, rootVars, fileVars, storeVars
<1>4. CASE ret = "begun"
  <2>1. Pending = None
    BY <1>1, <1>4 DEF PositionOK, Clean
  <2>2. BeginOK(rec)
    BY <1>1, <1>4 DEF WriteOK
  <2>3. storeTxn = None /\ manifest # Torn
    BY <2>1, WithoutRecord DEF Roots
  <2>4. FilesHeld'
    BY <1>2, <1>3, <2>2, <2>3 DEF FilesHeld, OwnerNamesRecord,
       StoreJournalCoordinated, BeginOK, WithTree, WithMarker
  <2>5. ASSUME NEW r \in Roots PROVE RootHeld(r)'
    <3>1. /\ tree[r] # Torn
          /\ \A o \in Owners : treeBak[r][o] = None /\ markerBak[r][o] = None
      BY <2>1, WithoutRecord
    <3>2. rec.owner \in Owners
      BY <1>1 DEF Record
    <3>. QED
      BY <1>2, <1>3, <3>1, <3>2, RootsAssumption DEF RootHeld, SavedTree,
         SavedMarker
  <2>. QED
    BY <2>4, <2>5 DEF OnDisk
<1>5. CASE ret # "begun"
  <2>1. Pending \in Record /\ Pending # None /\ RollsBack
    BY <1>1, <1>5, PendingType DEF WriteOK, RollsBack
  <2>2. /\ rec.owner = Pending.owner /\ Root \in rec.roots
        /\ rec.hadTree \cup rec.hadMarker \subseteq rec.roots
        /\ Pending.store => rec.store
    <3>1. /\ Root \in Roots /\ Root \in Pending.roots
          /\ Pending.hadTree \cup Pending.hadMarker \subseteq Pending.roots
          /\ rec.hadTree \cup rec.hadMarker \subseteq Roots
      BY <1>1, <2>1 DEF OnDisk, FilesHeld, Roots, Record
    <3>2. rec \in {WithMembers(Pending), WithStore(Pending),
                   WithCommit(Pending)}
      BY <1>1, <1>5 DEF WriteOK, TypeOK
    <3>. QED
      BY <2>1, <3>1, <3>2, WithMembersFields, WithStoreFields,
         WithCommitFields, SMTT(30)
  <2>3. (rec.state = "Prepared" \/ manifest # Torn) => FilesHeld'
    BY <1>1, <1>2, <1>3, <2>1, <2>2 DEF OnDisk, FilesHeld, OwnerNamesRecord,
       StoreJournalCoordinated, RollsBack
  <2>4. CASE ret = "recordStore"
    <3>1. /\ rec = WithMembers(Pending) /\ rec.state = "Prepared"
          /\ rec.roots = Roots
          /\ rec.hadTree = Pending.hadTree \cup WithTree(Members)
          /\ rec.hadMarker = Pending.hadMarker \cup WithMarker(Members)
      BY <1>1, <2>1, <2>4, WithMembersFields DEF WriteOK, RollsBack
    <3>2. ASSUME NEW r \in Roots PROVE RootHeld(r)'
      <4>1. RootHeld(r)
        BY DEF OnDisk
      <4>2. tree[r] # Torn
        <5>1. r \in Pending.roots => Untouched(r)
          BY <1>1, <2>4 DEF ActivationOK, BeforeActivation
        <5>. QED
          BY <4>1, <5>1, RootsAssumption DEF RootHeld, Untouched
      <4>3. SavedTree(r)' = SavedTree(r) /\ SavedMarker(r)' = SavedMarker(r)
        BY <1>2, <1>3, <2>2 DEF SavedTree, SavedMarker
      <4>4. /\ r \in Pending.hadTree => r \in rec.hadTree
            /\ r \in Pending.hadMarker => r \in rec.hadMarker
        BY <3>1
      <4>. QED
        BY <1>1, <1>2, <1>3, <2>1, <2>2, <3>1, <4>1, <4>2, <4>3, <4>4
           DEF RootHeld
    <3>. QED
      BY <2>3, <3>1, <3>2 DEF OnDisk
  <2>5. CASE ret = "publish"
    <3>1. /\ rec.state = "Prepared" /\ rec.roots = Pending.roots
          /\ rec.hadTree = Pending.hadTree /\ rec.hadMarker = Pending.hadMarker
      BY <1>1, <2>1, <2>5, WithStoreFields DEF WriteOK, RollsBack
    <3>2. ASSUME NEW r \in Roots PROVE RootHeld(r)'
      <4>1. RootHeld(r)
        BY DEF OnDisk
      <4>. QED
        BY <1>1, <1>2, <1>3, <2>1, <2>2, <3>1, <4>1 DEF RootHeld, SavedTree,
           SavedMarker, RollsBack
    <3>. QED
      BY <2>3, <3>1, <3>2 DEF OnDisk
  <2>6. CASE ret = "committed"
    <3>1. rec.state = "Committed" /\ rec.roots = Pending.roots
      BY <1>1, <2>1, <2>6, WithCommitFields DEF WriteOK
    <3>2. goal # Torn /\ manifest = goal
      BY <1>1, <2>6, RootsAssumption DEF ContentsOK, Installing, Towards
    <3>3. ASSUME NEW r \in Roots PROVE RootHeld(r)'
      <4>1. RootHeld(r)
        BY DEF OnDisk
      <4>2. tree[r] # Torn
        BY <1>1, <2>6, <3>2 DEF ActivationOK, Complete, Activated
      <4>. QED
        BY <1>1, <1>2, <1>3, <2>1, <2>2, <3>1, <4>1, <4>2 DEF RootHeld,
           SavedTree, SavedMarker, RollsBack
    <3>. QED
      BY <2>3, <3>2, <3>3 DEF OnDisk
  <2>. QED
    BY <1>1, <1>5, <2>4, <2>5, <2>6 DEF TypeOK
<1>. QED
  BY <1>4, <1>5

\* Every step keeps the project held by the record and its backups.
LEMMA OnDiskStep ==
    ASSUME TypeOK, OnDisk, WriteOK, PositionOK, ContentsOK, ActivationOK,
           RecoveryOK, StoreOK, Next
    PROVE  OnDisk'
<1> USE DEF rootVars, journalVars, fileVars, storeVars
<1>1. CASE Recover
  <2>1. CASE \/ ReadJournal \/ RestoreLock \/ PickRoot \/ Unmark \/ DropStage
             \/ DiscardLeftover \/ Exit
    BY <2>1, SameDisk DEF diskVars, ReadJournal, RestoreLock, PickRoot, Unmark,
       RemoveMarker, DropStage, RemoveStage, DiscardLeftover, Exit
  <2>. QED
    BY <1>1, <2>1, DiskJournal, DiskManifest, DiskStore, DiskRecovery,
       DiskAlone, DiskEnd DEF Recover
<1>2. CASE Install
  <2>1. CASE \/ CheckPlan \/ Begun \/ WriteTemp \/ Prepare \/ RejectLock
             \/ RecordMembers \/ RecordStore \/ PublishTrees \/ UseStore
    BY <2>1, SameDisk DEF diskVars, CheckPlan, Begun, WriteTemp, Prepare,
       RejectLock, RecordMembers, RecordStore, PublishTrees, UseStore
  <2>2. CASE \/ BackUpLock \/ PlaceLock \/ Stage \/ Activate \/ MarkTree
             \/ Unstage \/ MarkCommitted \/ DiscardLockBackup
    BY <2>2, SameDisk DEF diskVars, BackUpLock, PlaceLock, Stage, CreateStage,
       Activate, MarkTree, WriteMarker, Unstage, RemoveStages, MarkCommitted,
       DiscardLockBackup
  <2>. QED
    BY <1>2, <2>1, <2>2, DiskJournal, DiskManifest, DiskStore, DiskActivation,
       DiskOwner, DiskRecord DEF Install
<1>3. CASE Unwind
  <2>1. CASE RollbackLock \/ Fail \/ JournalDisappeared
    BY <2>1, SameDisk DEF diskVars, RollbackLock, Fail, JournalDisappeared
  <2>. QED
    BY <1>3, <2>1, DiskActivation, DiskStore DEF Unwind
<1>4. CASE Break
  <2>1. CASE Error \/ ErrorInActivation \/ RecoveryError \/ Crash
    BY <2>1, SameDisk DEF diskVars, Error, ErrorInActivation, RecoveryError,
       Crash
  <2>. QED
    BY <1>4, <2>1, DiskJournal, DiskStore, DiskEnd DEF Break
<1>5. CASE Environment
  <2>1. CASE OthersUseStore
    BY <2>1, SameDisk DEF diskVars, OthersUseStore
  <2>. QED
    BY <1>5, <2>1, DiskManifest, DiskStore DEF Environment
<1>6. CASE \E w \in Waiting : Plan(w) \/ Busy(w) \/ Acquire(w)
  BY <1>6, SameDisk DEF diskVars, Plan, Busy, Acquire
<1>. QED
  BY <1>1, <1>2, <1>3, <1>4, <1>5, <1>6 DEF Next
=============================================================================
