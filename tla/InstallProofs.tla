--------------------------- MODULE InstallProofs ---------------------------
(***************************************************************************)
(* The theorems about InstallTransaction: IInv is an inductive invariant,  *)
(* for every set of members, owners and versions, for any number of        *)
(* commands and faults, and on systems where rename replaces a file and on *)
(* those where it does not.                                                *)
(***************************************************************************)
EXTENDS InstallControl, InstallWalks

\* A project no command has touched satisfies the invariant.
LEMMA InitIInv == ASSUME Init PROVE IInv
<1>1. Pending = None /\ ~RollsBack
  BY DEF Init, JournalInit, Pending, RollsBack
<1>2. TypeOK
  <2>1. RootsTypeOK
    BY DEF Init, RootsInit, RootsTypeOK, TreeFile, MarkerFile
  <2>2. JournalTypeOK
    BY Zenon DEF Init, JournalInit, JournalTypeOK
  <2>3. pub \in BOOLEAN /\ begun \in BOOLEAN /\ committed \in BOOLEAN
    BY Zenon DEF Init
  <2>. QED
    BY <2>1, <2>2, <2>3 DEF Init, TypeOK, Positions, Roots
<1>3. OnDisk
  <2>1. FilesHeld
    BY <1>1, RootsAssumption DEF Init, FilesHeld, OwnerNamesRecord,
       StoreJournalCoordinated
  <2>2. ASSUME NEW r \in Roots PROVE RootHeld(r)
    BY <1>1, RootsAssumption DEF Init, RootsInit, RootHeld
  <2>. QED
    BY <2>1, <2>2 DEF OnDisk
<1>4. CommandsOK
  BY DEF Init, CommandsOK
<1>5. pc = "free" /\ ~pub
  BY DEF Init
<1>6. WriteOK /\ PositionOK /\ ContentsOK
  BY <1>5 DEF WriteOK, Writing, PositionOK, Clean, Recovering, Holding,
     Working, Editing, Choosing, Locking, Materializing, Activating,
     ContentsOK, Towards, Installing, Complete
<1>7. ActivationOK
  BY <1>5 DEF ActivationOK, BeforeActivation, MembersKnown, Complete, Towards,
     Editing, Choosing, Locking, Materializing, Activating, Writing
<1>8. RecoveryOK
  BY <1>5 DEF RecoveryOK, Recovering, Walking, Ending, RollingBack,
     RollingForward
<1>9. StoreOK
  BY <1>5 DEF StoreOK, Walking, Ending, RollingBack, RollingForward, Writing,
     Holding, Working, Editing, Choosing, Locking, Materializing, Activating
<1>. QED
  BY <1>2, <1>3, <1>4, <1>6, <1>7, <1>8, <1>9 DEF IInv

\* Stuttering keeps the invariant: it speaks of nothing but vars.
LEMMA StutterIInv == ASSUME IInv, UNCHANGED vars PROVE IInv'
<1>0. /\ UNCHANGED <<rootVars, journalVars, fileVars, ownerFile, storeVars, pc>>
      /\ UNCHANGED <<cmdVars, writeVars, walkVars, outerVars>>
  BY DEF vars
<1>1. /\ UNCHANGED <<tree, marker, treeBak, markerBak, stage>>
      /\ UNCHANGED <<journal, journalBak, orphanTmp, manifest, lock, lockBak>>
      /\ UNCHANGED <<ownerFile, storeTrees, storeTxn, pub, pc>>
      /\ UNCHANGED <<cmd, goal, route, begun, committed, phase>>
      /\ UNCHANGED <<rec, ret, todo, cur, plans, report, atStart, faults>>
  BY <1>0 DEF rootVars, journalVars, fileVars, storeVars, cmdVars, writeVars,
     walkVars, outerVars
<1>2. TypeOK'
  BY <1>1 DEF IInv, TypeOK, RootsTypeOK, JournalTypeOK
<1>3. OnDisk'
  BY <1>1, SameDisk DEF IInv, diskVars
<1>4. CommandsOK'
  BY <1>1 DEF IInv, CommandsOK
<1>5. WriteOK'
  BY <1>0, SameWriting DEF IInv
<1>6. PositionOK'
  BY <1>1 DEF IInv, PositionOK, Clean, Holding, Pending
<1>7. ContentsOK'
  BY <1>1 DEF IInv, ContentsOK, Towards, Installing, Complete
<1>8. ActivationOK'
  BY <1>1, SameActivation DEF IInv, SameRoots, Pending
<1>9. RecoveryOK'
  BY <1>1, SameSettling DEF IInv
<1>10. StoreOK'
  BY <1>1 DEF IInv, StoreOK, Holding
<1>. QED
  BY <1>2, <1>3, <1>4, <1>5, <1>6, <1>7, <1>8, <1>9, <1>10 DEF IInv

\* Every step of a command, of its recovery, of a failure or of the
\* environment keeps the invariant.
LEMMA NextIInv == ASSUME IInv, Next PROVE IInv'
<1>1. /\ TypeOK /\ OnDisk /\ CommandsOK /\ WriteOK /\ PositionOK
      /\ ContentsOK /\ ActivationOK /\ RecoveryOK /\ StoreOK
  BY DEF IInv
<1>2. TypeOK' /\ OnDisk'
  BY <1>1, TypeOKStep, OnDiskStep
<1>3. CommandsOK' /\ PositionOK' /\ ContentsOK' /\ StoreOK' /\ WriteOK'
  BY <1>1, CommandsStep, PositionStep, ContentsStep, StoreStep, WriteStep
<1>4. ActivationOK' /\ RecoveryOK'
  BY <1>1, ActivationStep, RecoveryStep
<1>. QED
  BY <1>2, <1>3, <1>4 DEF IInv

\* perform_install, its recovery and whatever interrupts them keep the
\* inductive invariant.
THEOREM InvariantHolds == Spec => []IInv
<1>1. Init => IInv
  BY InitIInv
<1>2. IInv /\ [Next]_vars => IInv'
  BY NextIInv, StutterIInv
<1>. QED
  BY <1>1, <1>2, PTL DEF Spec

\* Every file, record and program variable keeps its type; in particular
\* recovery never writes an absent or torn package.json over the project's.
THEOREM TypeCorrect == Spec => []TypeOK
<1>1. IInv => TypeOK
  BY DEF IInv
<1>. QED
  BY <1>1, InvariantHolds, PTL

\* A backup in any root, of any owner, exists only while a record that names
\* its owner is pending.
THEOREM BackupsHaveARecord == Spec => []NoOrphanedBackup
<1>1. IInv => NoOrphanedBackup
  BY DEF IInv, OnDisk, RootHeld, NoOrphanedBackup
<1>. QED
  BY <1>1, InvariantHolds, PTL

\* recover never meets a record of another owner than the lock file names.
THEOREM OwnerMatchesRecord == Spec => []OwnerNamesRecord
<1>1. IInv => OwnerNamesRecord
  BY DEF IInv, OnDisk, FilesHeld
<1>. QED
  BY <1>1, InvariantHolds, PTL

\* A store journal of this project never outlives the record that decides it.
THEOREM StoreJournalHasCoordinator == Spec => []StoreJournalCoordinated
<1>1. IInv => StoreJournalCoordinated
  BY DEF IInv, OnDisk, FilesHeld
<1>. QED
  BY <1>1, InvariantHolds, PTL
=============================================================================
