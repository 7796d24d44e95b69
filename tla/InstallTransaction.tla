------------------------ MODULE InstallTransaction ------------------------
(***************************************************************************)
(* One project under `tapid install`, `add`, `remove`, `update`, `ci` and  *)
(* `prune` (application/install.rs): commands that plan without a lock,    *)
(* one command at a time that holds .tapid-activation.lock, a user who     *)
(* edits package.json between commands, other projects that settle this    *)
(* project's transaction in the shared store, I/O errors at every fallible *)
(* step, and a crash at every point.                                       *)
(*                                                                         *)
(* A step of the command is one rename, removal or durable write.  pc is   *)
(* the position of the command that holds the lock, "free" when none does. *)
(***************************************************************************)
EXTENDS LifecycleJournal, Naturals, FiniteSets

CONSTANTS
    Waiting,    \* slots for commands that have planned and not yet locked
    Modes,      \* the kinds of command that occur
    LateErrors, \* a journal write may report an error after it took effect
    MaxFaults   \* bound on crashes and errors in a behaviour

EditModes == {"replace", "add"}
ReplayModes == {"frozen", "offline"}

ASSUME ModesAssumption ==
    /\ Modes \subseteq EditModes \cup ReplayModes \cup {"online"}
    /\ LateErrors \in BOOLEAN
    /\ MaxFaults \in Nat

VARIABLES
    manifest,   \* package.json: a version, or Torn inside fs::write
    lock,       \* tapid.lock: the version it was resolved for, or None
    lockBak,    \* session.lock_backup: the running command's lock backup
    ownerFile,  \* the owner written in .tapid-activation.lock
    storeTrees, \* versions whose verified trees are in the shared store
    storeTxn,   \* the store journal this project coordinates, or None
    pub,        \* the command holds a StorePublication and the store lock
    pc,         \* position of the command that holds the activation lock
    cmd,        \* what it was asked to do
    goal,       \* the version it installs
    route,      \* whether it resolves a new lock or replays the present one
    begun,      \* session.journal is present
    committed,  \* session.committed
    phase,      \* who runs the recovery steps: acquire, settle or finish
    rec, ret,   \* write_record: the record to publish, where to continue
    todo, cur,  \* roots still to visit, the root being visited
    plans,      \* plans[w]: a planned command waiting for the lock
    report,     \* the ChangeState the command reports as it ends
    atStart,    \* history: the project when the running command got the lock
    faults      \* crashes and errors so far

fileVars == <<manifest, lock, lockBak>>
storeVars == <<storeTrees, storeTxn, pub>>
cmdVars == <<cmd, goal, route, begun, committed, phase>>
writeVars == <<rec, ret>>
walkVars == <<todo, cur>>
outerVars == <<plans, report, atStart, faults>>

vars == <<rootVars, journalVars, fileVars, ownerFile, storeVars, pc, cmdVars,
          writeVars, walkVars, outerVars>>

\* Edits name the manifest they produce; a replacement also names the
\* manifest it was computed from.
Command == [mode : Modes, goal : Versions \cup {None},
            expected : Versions \cup {None}]
StoreTxn == [owner : Owners, created : SUBSET Versions]

ASSUME StoreTxnAssumption == None \notin StoreTxn

-----------------------------------------------------------------------------
(* The project as recovery would leave it: with a Prepared record pending, *)
(* the snapshot it holds and the backups it names; otherwise the files.    *)

RollsBack == Pending # None /\ Pending.state = "Prepared"

KeptTree(r) ==
    IF ~RollsBack \/ r \notin Pending.roots THEN tree[r]
    ELSE IF treeBak[r][Pending.owner] # None THEN treeBak[r][Pending.owner]
    ELSE IF r \in Pending.hadTree THEN tree[r] ELSE None

KeptMarker(r) ==
    IF ~RollsBack \/ r \notin Pending.roots THEN marker[r]
    ELSE IF markerBak[r][Pending.owner] # None THEN markerBak[r][Pending.owner]
    ELSE IF r \in Pending.hadMarker THEN marker[r] ELSE None

Project ==
    [manifest |-> IF RollsBack THEN Pending.manifest ELSE manifest,
     lock |-> IF RollsBack THEN Pending.lock ELSE lock,
     tree |-> [r \in Roots |-> KeptTree(r)],
     marker |-> [r \in Roots |-> KeptMarker(r)]]

ProjectType ==
    [manifest : Versions, lock : Versions \cup {None},
     tree : [Roots -> Versions \cup {None}], marker : [Roots -> MarkerFile]]

\* What a process forgets when it ends, and releases: its memory and locks.
Forget ==
    /\ pc' = "free"
    /\ pub' = FALSE
    /\ lockBak' = None
    /\ cmd' = None /\ goal' = None /\ route' = "none"
    /\ begun' = FALSE /\ committed' = FALSE /\ phase' = "none"
    /\ rec' = None /\ ret' = "free" /\ todo' = {} /\ cur' = Root
    /\ atStart' = None /\ report' = "none"

-----------------------------------------------------------------------------
(* Outside the lock *)

\* perform_install up to ActivationLock::acquire: nothing is locked, and an
\* unreadable package.json ends the command here.
Plan(w) ==
    /\ plans[w] = None
    /\ manifest # Torn
    /\ \E c \in Command :
          /\ c.goal # None <=> c.mode \in EditModes
          /\ c.expected = IF c.mode = "replace" THEN manifest ELSE None
          /\ plans' = [plans EXCEPT ![w] = c]
    /\ UNCHANGED <<rootVars, journalVars, fileVars, ownerFile, storeVars, pc,
                   cmdVars, writeVars, walkVars, report, atStart, faults>>

\* try_lock fails: ProjectBusy.
Busy(w) ==
    /\ plans[w] # None
    /\ pc # "free"
    /\ plans' = [plans EXCEPT ![w] = None]
    /\ UNCHANGED <<rootVars, journalVars, fileVars, ownerFile, storeVars, pc,
                   cmdVars, writeVars, walkVars, report, atStart, faults>>

\* try_lock succeeds: recovery comes first.
Acquire(w) ==
    /\ plans[w] # None
    /\ pc = "free"
    /\ pc' = "readJournal"
    /\ cmd' = plans[w]
    /\ phase' = "acquire"
    /\ begun' = FALSE
    /\ committed' = FALSE
    /\ atStart' = Project
    /\ plans' = [plans EXCEPT ![w] = None]
    /\ UNCHANGED <<rootVars, journalVars, fileVars, ownerFile, storeVars, goal,
                   route, writeVars, walkVars, report, faults>>

UserEdit ==
    /\ pc = "free"
    /\ \E v \in Versions \ {manifest} : manifest' = v
    /\ UNCHANGED <<rootVars, journalVars, lock, lockBak, ownerFile, storeVars,
                   pc, cmdVars, writeVars, walkVars, outerVars>>

\* The store lock is free and another project's command recovers the store:
\* recover_store_journal asks this project's journal for the decision.
OtherRecoversStore ==
    /\ storeTxn # None
    /\ ~pub
    /\ journal # None
    /\ journal.owner = storeTxn.owner
    /\ storeTrees' = IF journal.state = "Committed" THEN storeTrees
                     ELSE storeTrees \ storeTxn.created
    /\ storeTxn' = None
    /\ UNCHANGED <<rootVars, journalVars, fileVars, ownerFile, pub, pc,
                   cmdVars, writeVars, walkVars, outerVars>>

\* Other commands publish into the shared store, roll their publication back
\* or clean the cache: they need the store lock, and no pending store journal.
OthersUseStore ==
    /\ storeTxn = None
    /\ ~pub
    /\ \E S \in SUBSET Versions : S # storeTrees /\ storeTrees' = S
    /\ UNCHANGED <<rootVars, journalVars, fileVars, ownerFile, storeTxn, pub,
                   pc, cmdVars, writeVars, walkVars, outerVars>>

-----------------------------------------------------------------------------
(* Recovery: LifecycleJournal::recover and ActivationLock::acquire_mode.   *)
(* acquire runs these steps before the command; settle runs the same steps *)
(* after the command failed; finish runs the committed half of them.       *)

\* The committed and the prepared continuation of a readable journal.
Prepared == journal.state = "Prepared"

RestoreJournal ==
    /\ pc = "readJournal"
    /\ journal = None
    /\ journalBak # None
    /\ RestoreJournalBackup
    /\ UNCHANGED <<rootVars, fileVars, ownerFile, storeVars, pc, cmdVars,
                   writeVars, walkVars, outerVars>>

\* No journal: leftovers of the previous owner in the project root only.
RecoverAlone ==
    /\ pc = "readJournal"
    /\ phase = "acquire"
    /\ Pending = None
    /\ IF ownerFile = None THEN UNCHANGED rootVars
       ELSE RecoverUncoordinated(Root, ownerFile)
    /\ pc' = "truncateOwner"
    /\ UNCHANGED <<journalVars, fileVars, ownerFile, storeVars, cmdVars,
                   writeVars, walkVars, outerVars>>

\* recover refuses a record of another owner than the lock file names.
ReadJournal ==
    /\ pc = "readJournal"
    /\ journal # None
    /\ ownerFile \in {None, journal.owner}
    /\ pc' = "recoverStore"
    /\ UNCHANGED <<rootVars, journalVars, fileVars, ownerFile, storeVars,
                   cmdVars, writeVars, walkVars, outerVars>>

\* Faulty variant: a store journal that is already settled is an error.
RecoverStore_JournalNeeded ==
    /\ pc = "recoverStore"
    /\ journal.store => storeTxn # None /\ journal.owner = storeTxn.owner
    /\ storeTrees' = IF Prepared /\ storeTxn # None THEN storeTrees \ storeTxn.created
                     ELSE storeTrees
    /\ storeTxn' = None
    /\ pc' = IF Prepared THEN "restoreManifest" ELSE "pickRoot"
    /\ todo' = journal.roots
    /\ UNCHANGED <<rootVars, journalVars, fileVars, ownerFile, pub, cmdVars,
                   writeVars, cur, outerVars>>

\* Store::recover_transactions, before any project file changes.
RecoverStore ==
    /\ pc = "recoverStore"
    /\ IF journal.store /\ storeTxn # None
       THEN /\ journal.owner = storeTxn.owner
            /\ storeTrees' = IF Prepared THEN storeTrees \ storeTxn.created
                             ELSE storeTrees
            /\ storeTxn' = None
       ELSE UNCHANGED <<storeTrees, storeTxn>>
    /\ pc' = IF Prepared THEN "restoreManifest" ELSE "pickRoot"
    /\ todo' = journal.roots
    /\ UNCHANGED <<rootVars, journalVars, fileVars, ownerFile, pub, cmdVars,
                   writeVars, cur, outerVars>>

\* recover_record, atomic_replace of package.json.  Where rename does not
\* replace, the file is first moved aside (absent reads like Torn).
VacateManifest ==
    /\ pc = "restoreManifest"
    /\ Fallback
    /\ manifest # Torn
    /\ manifest' = Torn
    /\ pc' = "placeManifest"
    /\ UNCHANGED <<rootVars, journalVars, lock, lockBak, ownerFile, storeVars,
                   cmdVars, writeVars, walkVars, outerVars>>

\* Faulty variant: the wrong snapshot.
RestoreManifest_FromLock ==
    /\ pc = "restoreManifest"
    /\ manifest' = journal.lock
    /\ pc' = "restoreLock"
    /\ UNCHANGED <<rootVars, journalVars, lock, lockBak, ownerFile, storeVars,
                   cmdVars, writeVars, walkVars, outerVars>>

RestoreManifest ==
    /\ \/ pc = "restoreManifest" /\ (~Fallback \/ manifest = Torn)
       \/ pc = "placeManifest"
    /\ manifest' = journal.manifest
    /\ pc' = "restoreLock"
    /\ UNCHANGED <<rootVars, journalVars, lock, lockBak, ownerFile, storeVars,
                   cmdVars, writeVars, walkVars, outerVars>>

\* Faulty variant: the lock is left as it is.
RestoreLock_Skipped ==
    /\ pc = "restoreLock"
    /\ pc' = "pickRoot"
    /\ UNCHANGED <<rootVars, journalVars, fileVars, ownerFile, storeVars,
                   cmdVars, writeVars, walkVars, outerVars>>

\* recover_record, tapid.lock: replaced, or removed when there was none.
RestoreLock ==
    /\ pc = "restoreLock"
    /\ lock' = journal.lock
    /\ pc' = "pickRoot"
    /\ UNCHANGED <<rootVars, journalVars, manifest, lockBak, ownerFile,
                   storeVars, cmdVars, writeVars, walkVars, outerVars>>

\* Members first, the project root last.
NextRoot(r) == r \in todo /\ (r = Root => todo = {Root})

PickRoot ==
    /\ pc = "pickRoot"
    /\ \E r \in todo : NextRoot(r) /\ cur' = r
    /\ pc' = IF Prepared THEN "unmark" ELSE "dropMarkerBackup"
    /\ UNCHANGED <<rootVars, journalVars, fileVars, ownerFile, storeVars,
                   cmdVars, writeVars, todo, outerVars>>

\* rollback_coordinated_activation, marker: remove what the transaction wrote,
\* then rename the backup into place.
Unmark ==
    /\ pc = "unmark"
    /\ \/ /\ \/ markerBak[cur][journal.owner] # None
             \/ cur \notin journal.hadMarker
          /\ RemoveMarker(cur)
       \/ /\ markerBak[cur][journal.owner] = None
          /\ cur \in journal.hadMarker
          /\ UNCHANGED rootVars
    /\ pc' = "remark"
    /\ UNCHANGED <<journalVars, fileVars, ownerFile, storeVars, cmdVars,
                   writeVars, walkVars, outerVars>>

Remark ==
    /\ pc = "remark"
    /\ IF markerBak[cur][journal.owner] # None
       THEN RestoreMarker(cur, journal.owner) ELSE UNCHANGED rootVars
    /\ pc' = "clearTree"
    /\ UNCHANGED <<journalVars, fileVars, ownerFile, storeVars, cmdVars,
                   writeVars, walkVars, outerVars>>

\* rollback_coordinated_activation, tree: remove_dir_all of the activated tree
\* (which a crash can leave half done), then rename the backup into place.
ClearTree ==
    /\ pc = "clearTree"
    /\ \/ /\ \/ treeBak[cur][journal.owner] # None
             \/ cur \notin journal.hadTree
          /\ tree[cur] # None
          /\ \/ tree[cur] # Torn /\ RemoveTree(cur, Torn) /\ pc' = "clearTree"
             \/ RemoveTree(cur, None) /\ pc' = "restoreTree"
       \/ /\ \/ tree[cur] = None
             \/ treeBak[cur][journal.owner] = None /\ cur \in journal.hadTree
          /\ UNCHANGED rootVars
          /\ pc' = "restoreTree"
    /\ UNCHANGED <<journalVars, fileVars, ownerFile, storeVars, cmdVars,
                   writeVars, walkVars, outerVars>>

\* Faulty variant: the backup is not renamed into place.
RestorePriorTree_Skipped ==
    /\ pc = "restoreTree"
    /\ pc' = "dropStage"
    /\ UNCHANGED <<rootVars, journalVars, fileVars, ownerFile, storeVars,
                   cmdVars, writeVars, walkVars, outerVars>>

RestorePriorTree ==
    /\ pc = "restoreTree"
    /\ IF treeBak[cur][journal.owner] # None
       THEN RestoreTree(cur, journal.owner) ELSE UNCHANGED rootVars
    /\ pc' = "dropStage"
    /\ UNCHANGED <<journalVars, fileVars, ownerFile, storeVars, cmdVars,
                   writeVars, walkVars, outerVars>>

\* commit_owned_activation: drop both backups.
CommitMarker ==
    /\ pc = "dropMarkerBackup"
    /\ DropMarkerBackup(cur, journal.owner)
    /\ pc' = "dropTreeBackup"
    /\ UNCHANGED <<journalVars, fileVars, ownerFile, storeVars, cmdVars,
                   writeVars, walkVars, outerVars>>

CommitTree ==
    /\ pc = "dropTreeBackup"
    /\ \/ /\ treeBak[cur][journal.owner] \notin {None, Torn}
          /\ DropTreeBackup(cur, journal.owner, Torn)
          /\ pc' = "dropTreeBackup"
       \/ /\ DropTreeBackup(cur, journal.owner, None)
          /\ pc' = "dropStage"
    /\ UNCHANGED <<journalVars, fileVars, ownerFile, storeVars, cmdVars,
                   writeVars, walkVars, outerVars>>

\* Faulty variant: the loop over the roots does not end.
DropStage_NoEnd ==
    /\ pc = "dropStage"
    /\ RemoveStage(cur, journal.owner)
    /\ todo' = todo \ {cur}
    /\ pc' = "pickRoot"
    /\ UNCHANGED <<journalVars, fileVars, ownerFile, storeVars, cmdVars,
                   writeVars, cur, outerVars>>

\* recover_owned_stages, which LifecycleJournal::finish does not call.
DropStage ==
    /\ pc = "dropStage"
    /\ IF phase = "finish" THEN UNCHANGED rootVars
       ELSE RemoveStage(cur, journal.owner)
    /\ todo' = todo \ {cur}
    /\ pc' = IF todo = {cur} THEN "removeBackupJournal" ELSE "pickRoot"
    /\ UNCHANGED <<journalVars, fileVars, ownerFile, storeVars, cmdVars,
                   writeVars, cur, outerVars>>

\* remove_journal: the backup first, so that no older record can come back.
RemoveBackupJournal ==
    /\ pc = "removeBackupJournal"
    /\ DropJournalBackup
    /\ pc' = "removeJournal"
    /\ UNCHANGED <<rootVars, fileVars, ownerFile, storeVars, cmdVars,
                   writeVars, walkVars, outerVars>>

\* The transaction is over.  acquire goes on to draw an owner; settle and
\* finish end the command with what was decided.
EndTransaction ==
    /\ pc = "removeJournal"
    /\ RemoveJournal
    /\ IF phase = "acquire"
       THEN pc' = "truncateOwner" /\ UNCHANGED report
       ELSE /\ pc' = "discardLeftover"
            /\ report' = IF Prepared THEN "RolledBack" ELSE "Committed"
    /\ UNCHANGED <<rootVars, fileVars, ownerFile, storeVars, cmdVars,
                   writeVars, walkVars, plans, atStart, faults>>

\* InstallSession::fail discards the lock backup that the command still knows.
DiscardLeftover ==
    /\ pc = "discardLeftover"
    /\ \/ UNCHANGED <<report, faults>>
       \/ /\ lockBak # None
          /\ faults < MaxFaults
          /\ faults' = faults + 1
          /\ report' = IF report = "Committed" THEN "CleanupPending"
                       ELSE "RecoveryRequired"
    /\ lockBak' = None
    /\ pc' = "exit"
    /\ UNCHANGED <<rootVars, journalVars, manifest, lock, ownerFile, storeVars,
                   cmdVars, writeVars, walkVars, plans, atStart>>

\* The outcome is returned and the session drops the activation lock.
Exit ==
    /\ pc = "exit"
    /\ Forget
    /\ UNCHANGED <<rootVars, journalVars, manifest, lock, ownerFile,
                   storeTrees, storeTxn, plans, faults>>

\* acquire_mode draws a new owner: set_len(0), then the write.  The nonce is
\* new, so no file of the project or the store carries it.
TruncateOwner ==
    /\ pc = "truncateOwner"
    /\ ownerFile' = None
    /\ pc' = "writeOwner"
    /\ UNCHANGED <<rootVars, journalVars, fileVars, storeVars, cmdVars,
                   writeVars, walkVars, outerVars>>

Fresh(o) ==
    /\ \A r \in Roots : /\ treeBak[r][o] = None
                        /\ markerBak[r][o] = None
                        /\ o \notin stage[r]
    /\ journal # None => journal.owner # o
    /\ journalBak # None => journalBak.owner # o
    /\ storeTxn # None => storeTxn.owner # o

WriteOwner ==
    /\ pc = "writeOwner"
    /\ \E o \in Owners : Fresh(o) /\ ownerFile' = o
    /\ pc' = "locked"
    /\ UNCHANGED <<rootVars, journalVars, fileVars, storeVars, cmdVars,
                   writeVars, walkVars, outerVars>>

-----------------------------------------------------------------------------
(* write_record, a subroutine: publish rec and continue at ret *)

WriteRecord(j, l) == rec' = j /\ ret' = l /\ pc' = "writeTemp"

WriteTemp ==
    /\ pc = "writeTemp"
    /\ pc' = IF Fallback /\ journal # None THEN "swapOut" ELSE "swapIn"
    /\ UNCHANGED <<rootVars, journalVars, fileVars, ownerFile, storeVars,
                   cmdVars, writeVars, walkVars, outerVars>>

VacateJournal ==
    /\ pc = "swapOut"
    /\ SwapOut
    /\ pc' = "swapIn"
    /\ UNCHANGED <<rootVars, fileVars, ownerFile, storeVars, cmdVars,
                   writeVars, walkVars, outerVars>>

PublishRecord ==
    /\ pc = "swapIn"
    /\ SwapIn(rec)
    /\ pc' = "writeSync"
    /\ UNCHANGED <<rootVars, fileVars, ownerFile, storeVars, cmdVars,
                   writeVars, walkVars, outerVars>>

WriteSync ==
    /\ pc = "writeSync"
    /\ DropJournalBackup
    /\ pc' = ret
    /\ rec' = None /\ ret' = "free"
    /\ UNCHANGED <<rootVars, fileVars, ownerFile, storeVars, cmdVars, walkVars,
                   outerVars>>

-----------------------------------------------------------------------------
(* The command: perform_install after it has the lock *)

\* Faulty variant: the manifest is not compared with the plan's.
CheckPlan_Unchecked ==
    /\ pc = "locked"
    /\ goal' = IF cmd.mode \in EditModes THEN cmd.goal ELSE manifest
    /\ WriteRecord(NewRecord(ownerFile, manifest, lock), "begun")
    /\ UNCHANGED <<rootVars, journalVars, fileVars, ownerFile, storeVars, cmd,
                   route, begun, committed, phase, walkVars, outerVars>>

\* An edit planned against another manifest is refused; every command but a
\* plain online one begins its journal before it does anything else.
CheckPlan ==
    /\ pc = "locked"
    /\ goal' = IF cmd.mode \in EditModes THEN cmd.goal ELSE manifest
    /\ IF cmd.mode = "replace" /\ cmd.expected # manifest
       THEN pc' = "fail" /\ UNCHANGED writeVars
       ELSE IF cmd.mode = "online"
            THEN pc' = "prepare" /\ UNCHANGED writeVars
            ELSE WriteRecord(NewRecord(ownerFile, manifest, lock), "begun")
    /\ UNCHANGED <<rootVars, journalVars, fileVars, ownerFile, storeVars, cmd,
                   route, begun, committed, phase, walkVars, outerVars>>

\* An edit writes package.json, except an update that leaves it as it is.
Begun ==
    /\ pc = "begun"
    /\ begun' = TRUE
    /\ \/ cmd.mode \in EditModes /\ pc' = "truncateManifest"
       \/ cmd.mode # "add" /\ goal = manifest /\ pc' = "prepare"
    /\ UNCHANGED <<rootVars, journalVars, fileVars, ownerFile, storeVars, cmd,
                   goal, route, committed, phase, writeVars, walkVars,
                   outerVars>>

\* fs::write of package.json: open truncates, then the bytes follow.
TruncateManifest ==
    /\ pc = "truncateManifest"
    /\ manifest' = Torn
    /\ pc' = "writeManifest"
    /\ UNCHANGED <<rootVars, journalVars, lock, lockBak, ownerFile, storeVars,
                   cmdVars, writeVars, walkVars, outerVars>>

WriteManifest ==
    /\ pc = "writeManifest"
    /\ manifest' = goal
    /\ pc' = "prepare"
    /\ UNCHANGED <<rootVars, journalVars, lock, lockBak, ownerFile, storeVars,
                   cmdVars, writeVars, walkVars, outerVars>>

\* Resolve and fetch, or replay a lock that matches the manifest; a command
\* that may only replay is refused otherwise.  A journal is begun by now.
Prepare ==
    /\ pc = "prepare"
    /\ \/ /\ route' = "resolve"
          /\ cmd.mode \notin ReplayModes
       \/ /\ route' = "replay"
          /\ lock = goal
    /\ IF begun THEN pc' = "recordMembers" /\ UNCHANGED writeVars
       ELSE WriteRecord(NewRecord(ownerFile, manifest, lock), "begun")
    /\ UNCHANGED <<rootVars, journalVars, fileVars, ownerFile, storeVars, cmd,
                   goal, begun, committed, phase, walkVars, outerVars>>

RejectLock ==
    /\ pc = "prepare"
    /\ cmd.mode \in ReplayModes
    /\ lock # goal
    /\ pc' = "fail"
    /\ UNCHANGED <<rootVars, journalVars, fileVars, ownerFile, storeVars,
                   cmdVars, writeVars, walkVars, outerVars>>

\* set_member_roots validates every member before it records any.
RecordMembers ==
    /\ pc = "recordMembers"
    /\ IF \A r \in Members : Replaceable(tree[r], marker[r])
       THEN IF Members = {} THEN pc' = "recordStore" /\ UNCHANGED writeVars
            ELSE WriteRecord(WithMembers(journal), "recordStore")
       ELSE pc' = "fail" /\ UNCHANGED writeVars
    /\ UNCHANGED <<rootVars, journalVars, fileVars, ownerFile, storeVars,
                   cmdVars, walkVars, outerVars>>

\* Faulty variant: trees are published before the record names the store.
RecordStore_Skipped ==
    /\ pc = "recordStore"
    /\ pc' = "publish"
    /\ UNCHANGED <<rootVars, journalVars, fileVars, ownerFile, storeVars,
                   cmdVars, writeVars, walkVars, outerVars>>

RecordStore ==
    /\ pc = "recordStore"
    /\ WriteRecord(WithStore(journal), "publish")
    /\ UNCHANGED <<rootVars, journalVars, fileVars, ownerFile, storeVars,
                   cmdVars, walkVars, outerVars>>

\* publish_for_lifecycle: take the store lock, write the store journal while
\* the coordinator is Prepared, then rename the trees in.
Publish ==
    /\ pc = "publish"
    /\ cmd.mode # "offline"
    /\ storeTxn = None
    /\ journal # None /\ Prepared
    /\ pub' = TRUE
    /\ storeTxn' = [owner |-> journal.owner, created |-> {goal} \ storeTrees]
    /\ pc' = "publishTrees"
    /\ UNCHANGED <<rootVars, journalVars, fileVars, ownerFile, storeTrees,
                   cmdVars, writeVars, walkVars, outerVars>>

PublishTrees ==
    /\ pc = "publishTrees"
    /\ storeTrees' = storeTrees \cup {goal}
    /\ pc' = IF route = "resolve" THEN "backUpLock" ELSE "stage"
    /\ todo' = Roots
    /\ UNCHANGED <<rootVars, journalVars, fileVars, ownerFile, storeTxn, pub,
                   cmdVars, writeVars, cur, outerVars>>

\* A replay that finds every tree in the store publishes nothing.
UseStore ==
    /\ pc = "publish"
    /\ route = "replay"
    /\ IF goal \in storeTrees THEN pc' = "stage"
       ELSE cmd.mode = "offline" /\ pc' = "fail"
    /\ todo' = Roots
    /\ UNCHANGED <<rootVars, journalVars, fileVars, ownerFile, storeVars,
                   cmdVars, writeVars, cur, outerVars>>

\* replace_lockfile: two renames.
BackUpLock ==
    /\ pc = "backUpLock"
    /\ lockBak' = lock
    /\ lock' = None
    /\ pc' = "placeLock"
    /\ UNCHANGED <<rootVars, journalVars, manifest, ownerFile, storeVars,
                   cmdVars, writeVars, walkVars, outerVars>>

PlaceLock ==
    /\ pc = "placeLock"
    /\ lock' = goal
    /\ pc' = "stage"
    /\ UNCHANGED <<rootVars, journalVars, manifest, lockBak, ownerFile,
                   storeVars, cmdVars, writeVars, walkVars, outerVars>>

\* materialize_with_lock stages every root before it activates any.
Stage ==
    /\ pc = "stage"
    /\ \E r \in todo :
          /\ NextRoot(r)
          /\ CreateStage(r, ownerFile)
          /\ IF r = Root THEN pc' = "activate" /\ todo' = Roots
             ELSE pc' = "stage" /\ todo' = todo \ {r}
    /\ UNCHANGED <<journalVars, fileVars, ownerFile, storeVars, cmdVars,
                   writeVars, cur, outerVars>>

\* activate_node_modules_with_preflight: refuse an unmarked tree, move the
\* marker aside and refuse foreign bytes, move the tree aside, move the staged
\* tree in, write the marker.
Activate ==
    /\ pc = "activate"
    /\ \E r \in todo :
          /\ NextRoot(r)
          /\ cur' = r
          /\ pc' = IF tree[r] # None /\ marker[r] = None
                   THEN "failMaterialize" ELSE "backUpMarker"
    /\ UNCHANGED <<rootVars, journalVars, fileVars, ownerFile, storeVars,
                   cmdVars, writeVars, todo, outerVars>>

MoveMarkerAside ==
    /\ pc = "backUpMarker"
    /\ IF marker[cur] = None THEN UNCHANGED rootVars
       ELSE BackUpMarker(cur, ownerFile)
    /\ pc' = IF marker[cur] = Alien THEN "undoMarker" ELSE "backUpTree"
    /\ UNCHANGED <<journalVars, fileVars, ownerFile, storeVars, cmdVars,
                   writeVars, walkVars, outerVars>>

MoveTreeAside ==
    /\ pc = "backUpTree"
    /\ IF tree[cur] = None THEN UNCHANGED rootVars
       ELSE BackUpTree(cur, ownerFile)
    /\ pc' = "moveStage"
    /\ UNCHANGED <<journalVars, fileVars, ownerFile, storeVars, cmdVars,
                   writeVars, walkVars, outerVars>>

MoveStage ==
    /\ pc = "moveStage"
    /\ MoveStageIn(cur, goal)
    /\ pc' = "writeMarker"
    /\ UNCHANGED <<journalVars, fileVars, ownerFile, storeVars, cmdVars,
                   writeVars, walkVars, outerVars>>

MarkTree ==
    /\ pc = "writeMarker"
    /\ WriteMarker(cur)
    /\ todo' = todo \ {cur}
    /\ pc' = IF todo = {cur} THEN "unstage" ELSE "activate"
    /\ UNCHANGED <<journalVars, fileVars, ownerFile, storeVars, cmdVars,
                   writeVars, cur, outerVars>>

\* Stages are removed on success and on failure; a removal may fail silently.
Unstage ==
    /\ pc \in {"unstage", "failMaterialize"}
    /\ \E S \in SUBSET Roots :
          /\ RemoveStages(S, ownerFile)
          /\ S # Roots => faults < MaxFaults
          /\ faults' = IF S = Roots THEN faults ELSE faults + 1
    /\ pc' = IF pc = "unstage" THEN "markCommitted"
             ELSE IF route = "resolve" THEN "rollbackLock" ELSE "fail"
    /\ UNCHANGED <<journalVars, fileVars, ownerFile, storeVars, cmdVars,
                   writeVars, walkVars, plans, report, atStart>>

MarkCommitted ==
    /\ pc = "markCommitted"
    /\ WriteRecord(WithCommit(journal), "committed")
    /\ UNCHANGED <<rootVars, journalVars, fileVars, ownerFile, storeVars,
                   cmdVars, walkVars, outerVars>>

\* Faulty variant: a commit that fails drops an uncommitted publication.
CommitStore_TreesGo ==
    /\ pc = "committed"
    /\ committed' = TRUE
    /\ pub' = FALSE
    /\ pub
    /\ faults < MaxFaults /\ faults' = faults + 1
    /\ storeTrees' = storeTrees \ storeTxn.created
    /\ pc' = "fail"
    /\ UNCHANGED <<rootVars, journalVars, fileVars, ownerFile, storeTxn, cmd,
                   goal, route, begun, phase, writeVars, walkVars, plans,
                   report, atStart>>

\* StorePublication::commit drops the store journal and the store lock.  If
\* the removal fails the trees stay and settle finishes the job.
CommitStore ==
    /\ pc = "committed"
    /\ committed' = TRUE
    /\ pub' = FALSE
    /\ \/ /\ storeTxn' = IF pub THEN None ELSE storeTxn
          /\ pc' = "discardLockBackup"
          /\ UNCHANGED faults
       \/ /\ faults < MaxFaults
          /\ faults' = faults + 1
          /\ pc' = "fail"
          /\ UNCHANGED storeTxn
    /\ UNCHANGED <<rootVars, journalVars, fileVars, ownerFile, storeTrees, cmd,
                   goal, route, begun, phase, writeVars, walkVars, plans,
                   report, atStart>>

\* Faulty variant: finish cleans the project root only.
DiscardLockBackup_RootOnly ==
    /\ pc = "discardLockBackup"
    /\ lockBak' = None
    /\ phase' = "finish"
    /\ todo' = {Root}
    /\ pc' = "pickRoot"
    /\ UNCHANGED <<rootVars, journalVars, manifest, lock, ownerFile, storeVars,
                   cmd, goal, route, begun, committed, writeVars, cur,
                   outerVars>>

\* discard_lockfile_backup, then LifecycleJournal::finish.
DiscardLockBackup ==
    /\ pc = "discardLockBackup"
    /\ lockBak' = None
    /\ phase' = "finish"
    /\ todo' = journal.roots
    /\ pc' = "pickRoot"
    /\ UNCHANGED <<rootVars, journalVars, manifest, lock, ownerFile, storeVars,
                   cmd, goal, route, begun, committed, writeVars, cur,
                   outerVars>>

-----------------------------------------------------------------------------
(* Errors *)

Activating == {"backUpMarker", "backUpTree", "moveStage", "writeMarker",
               "undoDestination", "undoTree", "undoMarker"}
Materializing == Activating \cup {"stage", "activate"}
Fallible == {"truncateOwner", "writeOwner", "locked", "writeTemp",
             "truncateManifest", "writeManifest", "prepare", "recordMembers",
             "recordStore", "publish", "backUpLock", "placeLock",
             "markCommitted", "discardLockBackup", "rollbackStore"}
Recovering == {"readJournal", "recoverStore", "restoreManifest",
               "placeManifest", "restoreLock", "pickRoot", "unmark", "remark",
               "clearTree", "restoreTree", "dropMarkerBackup",
               "dropTreeBackup", "dropStage", "removeBackupJournal",
               "removeJournal"}

Fault == faults < MaxFaults /\ faults' = faults + 1

\* A step reports an error instead of taking effect.
Error ==
    /\ \/ pc \in Fallible /\ pc' = "fail"
       \/ pc \in Materializing /\ pc' = "failMaterialize"
       \/ LateErrors /\ pc = "writeSync" /\ pc' = "fail"
    /\ Fault
    /\ UNCHANGED <<rootVars, journalVars, fileVars, ownerFile, storeVars,
                   cmdVars, writeVars, walkVars, plans, report, atStart>>

\* replace_journal_file fails: the temporary file stays; the fallback tries to
\* put the old record back.
ErrorInSwap ==
    /\ pc \in {"swapOut", "swapIn"}
    /\ orphanTmp' = TRUE
    /\ \/ UNCHANGED <<journal, journalBak>>
       \/ /\ journalBak # None /\ journal = None
          /\ journal' = journalBak /\ journalBak' = None
    /\ pc' = "fail"
    /\ Fault
    /\ UNCHANGED <<rootVars, fileVars, ownerFile, storeVars, cmdVars,
                   writeVars, walkVars, plans, report, atStart>>

\* publish_inner removes what it published and then the store journal.
ErrorInPublish ==
    /\ pc = "publishTrees"
    /\ pub' = FALSE
    /\ storeTxn' \in {None, storeTxn}
    /\ pc' = "fail"
    /\ Fault
    /\ UNCHANGED <<rootVars, journalVars, fileVars, ownerFile, storeTrees,
                   cmdVars, writeVars, walkVars, plans, report, atStart>>

\* A rename inside activation fails: undo what this root has seen so far.
ErrorInActivation ==
    /\ \/ pc = "backUpTree" /\ pc' = "undoMarker"
       \/ pc = "moveStage" /\ pc' = "undoTree"
       \/ pc = "writeMarker" /\ pc' = "undoDestination"
    /\ Fault
    /\ UNCHANGED <<rootVars, journalVars, fileVars, ownerFile, storeVars,
                   cmdVars, writeVars, walkVars, plans, report, atStart>>

UndoDestination ==
    /\ pc = "undoDestination"
    /\ \E left \in {None, Torn} : RemoveTree(cur, left)
    /\ pc' = "undoTree"
    /\ UNCHANGED <<journalVars, fileVars, ownerFile, storeVars, cmdVars,
                   writeVars, walkVars, outerVars>>

UndoTree ==
    /\ pc = "undoTree"
    /\ IF treeBak[cur][ownerFile] # None /\ tree[cur] = None
       THEN RestoreTree(cur, ownerFile) ELSE UNCHANGED rootVars
    /\ pc' = "undoMarker"
    /\ UNCHANGED <<journalVars, fileVars, ownerFile, storeVars, cmdVars,
                   writeVars, walkVars, outerVars>>

UndoMarker ==
    /\ pc = "undoMarker"
    /\ IF markerBak[cur][ownerFile] # None
       THEN RestoreMarker(cur, ownerFile) ELSE UNCHANGED rootVars
    /\ pc' = "failMaterialize"
    /\ UNCHANGED <<journalVars, fileVars, ownerFile, storeVars, cmdVars,
                   writeVars, walkVars, outerVars>>

\* A failed materialization of a resolving command: rollback_lockfile and
\* StorePublication::rollback, both best effort.
RollbackLock ==
    /\ pc = "rollbackLock"
    /\ \/ lock' = lockBak /\ lockBak' = None /\ UNCHANGED faults
       \/ Fault /\ UNCHANGED <<lock, lockBak>>
    /\ pc' = "rollbackStore"
    /\ UNCHANGED <<rootVars, journalVars, manifest, ownerFile, storeVars,
                   cmdVars, writeVars, walkVars, plans, report, atStart>>

RollbackStore ==
    /\ pc = "rollbackStore"
    /\ storeTrees' = storeTrees \ storeTxn.created
    /\ storeTxn' = None
    /\ pub' = FALSE
    /\ pc' = "fail"
    /\ UNCHANGED <<rootVars, journalVars, fileVars, ownerFile, cmdVars,
                   writeVars, walkVars, outerVars>>

\* The command returns its error.  Dropping an uncommitted StorePublication
\* removes its trees and leaves the store journal; InstallSession::fail then
\* settles the journal, if the session has one.
Fail ==
    /\ pc = "fail"
    /\ pub' = FALSE
    /\ storeTrees' = IF pub THEN storeTrees \ storeTxn.created ELSE storeTrees
    /\ IF begun
       THEN pc' = "readJournal" /\ phase' = "settle" /\ UNCHANGED report
       ELSE pc' = "exit" /\ report' = "Unchanged" /\ UNCHANGED phase
    /\ UNCHANGED <<rootVars, journalVars, fileVars, ownerFile, storeTxn, cmd,
                   goal, route, begun, committed, writeVars, walkVars, plans,
                   atStart, faults>>

\* Recovery itself fails: acquire and settle give up, finish lets the session
\* settle.
GiveUp ==
    IF phase = "finish" THEN pc' = "fail" /\ UNCHANGED report
    ELSE /\ pc' = "exit"
         /\ report' = IF committed THEN "CleanupPending" ELSE "RecoveryRequired"

RecoveryError ==
    /\ pc \in Recovering
    /\ Fault
    /\ GiveUp
    /\ UNCHANGED <<rootVars, journalVars, fileVars, ownerFile, storeVars,
                   cmdVars, writeVars, walkVars, plans, atStart>>

\* remove_journal fails in sync_parent: the record is gone all the same.
ErrorAfterEnd ==
    /\ LateErrors
    /\ pc = "removeJournal"
    /\ RemoveJournal
    /\ Fault
    /\ GiveUp
    /\ UNCHANGED <<rootVars, fileVars, ownerFile, storeVars, cmdVars,
                   writeVars, walkVars, plans, atStart>>

\* settle: "lifecycle journal disappeared before recovery".
JournalDisappeared ==
    /\ pc = "readJournal"
    /\ phase = "settle"
    /\ Pending = None
    /\ GiveUp
    /\ UNCHANGED <<rootVars, journalVars, fileVars, ownerFile, storeVars,
                   cmdVars, writeVars, walkVars, plans, atStart, faults>>

\* The process dies: the operating system drops its locks, the files stay.
\* Nothing ever reads the lock backup of a dead command again.
Crash ==
    /\ pc # "free"
    /\ Fault
    /\ Forget
    /\ orphanTmp' = (orphanTmp \/ pc \in {"swapOut", "swapIn"})
    /\ UNCHANGED <<rootVars, journal, journalBak, manifest, lock, ownerFile,
                   storeTrees, storeTxn, plans>>

-----------------------------------------------------------------------------
Init ==
    /\ RootsInit
    /\ JournalInit
    /\ manifest \in Versions
    /\ lock \in Versions \cup {None}
    /\ ownerFile = None
    /\ storeTrees \in SUBSET Versions
    /\ storeTxn = None
    /\ pc = "free" /\ pub = FALSE /\ lockBak = None
    /\ cmd = None /\ goal = None /\ route = "none"
    /\ begun = FALSE /\ committed = FALSE /\ phase = "none"
    /\ rec = None /\ ret = "free" /\ todo = {} /\ cur = Root
    /\ plans = [w \in Waiting |-> None]
    /\ report = "none"
    /\ atStart = None
    /\ faults = 0

Recover ==
    \/ RestoreJournal \/ RecoverAlone \/ ReadJournal \/ RecoverStore
    \/ VacateManifest \/ RestoreManifest \/ RestoreLock \/ PickRoot
    \/ Unmark \/ Remark \/ ClearTree \/ RestorePriorTree
    \/ CommitMarker \/ CommitTree \/ DropStage
    \/ RemoveBackupJournal \/ EndTransaction \/ DiscardLeftover \/ Exit

Install ==
    \/ TruncateOwner \/ WriteOwner \/ CheckPlan \/ Begun
    \/ WriteTemp \/ VacateJournal \/ PublishRecord \/ WriteSync
    \/ TruncateManifest \/ WriteManifest \/ Prepare \/ RejectLock
    \/ RecordMembers \/ RecordStore \/ Publish \/ PublishTrees \/ UseStore
    \/ BackUpLock \/ PlaceLock \/ Stage \/ Activate \/ MoveMarkerAside
    \/ MoveTreeAside \/ MoveStage \/ MarkTree \/ Unstage \/ MarkCommitted
    \/ CommitStore \/ DiscardLockBackup

Unwind ==
    \/ UndoDestination \/ UndoTree \/ UndoMarker
    \/ RollbackLock \/ RollbackStore \/ Fail \/ JournalDisappeared

Break ==
    \/ Error \/ ErrorInSwap \/ ErrorInPublish \/ ErrorInActivation
    \/ RecoveryError \/ ErrorAfterEnd \/ Crash

Environment == UserEdit \/ OtherRecoversStore \/ OthersUseStore

Next ==
    \/ \E w \in Waiting : Plan(w) \/ Busy(w) \/ Acquire(w)
    \/ Recover \/ Install \/ Unwind \/ Break \/ Environment

Spec == Init /\ [][Next]_vars

\* A running command keeps taking steps, and somebody keeps running commands.
Fairness ==
    /\ WF_vars(Recover \/ Install \/ Unwind)
    /\ \A w \in Waiting : WF_vars(Plan(w)) /\ WF_vars(Acquire(w))

FairSpec == Spec /\ Fairness

-----------------------------------------------------------------------------
Positions == {"free", "unstage", "failMaterialize", "fail", "rollbackLock",
              "swapOut", "swapIn", "writeSync", "begun", "publishTrees",
              "committed", "discardLeftover", "exit"}
             \cup Fallible \cup Materializing \cup Recovering

TypeOK ==
    /\ RootsTypeOK
    /\ JournalTypeOK
    /\ manifest \in Versions \cup {Torn}
    /\ lock \in Versions \cup {None}
    /\ lockBak \in Versions \cup {None}
    /\ ownerFile \in Owners \cup {None}
    /\ storeTrees \in SUBSET Versions
    /\ storeTxn \in StoreTxn \cup {None}
    /\ pub \in BOOLEAN
    /\ pc \in Positions
    /\ cmd \in Command \cup {None}
    /\ goal \in Versions \cup {None}
    /\ route \in {"none", "resolve", "replay"}
    /\ begun \in BOOLEAN
    /\ committed \in BOOLEAN
    /\ phase \in {"none", "acquire", "settle", "finish"}
    /\ rec \in Record \cup {None}
    /\ ret \in {"free", "begun", "recordStore", "publish", "committed"}
    /\ todo \in SUBSET Roots
    /\ cur \in Roots
    /\ plans \in [Waiting -> Command \cup {None}]
    /\ report \in {"none", "Unchanged", "RolledBack", "Committed",
                   "CleanupPending", "RecoveryRequired"}
    /\ atStart \in ProjectType \cup {None}
    /\ faults \in Nat

\* Whatever is interrupted, and however often, the project that recovery
\* yields changes only by a whole install or by the user's own edit
\* (perform_install, recover, acquire_mode, settle).
Atomic == INSTANCE AtomicProject WITH project <- Project
AllOrNothing == Atomic!Spec

\* A backup exists only while a record that names its owner is pending; once
\* no record is, recovery will never look at it again (remove_journal is last).
NoOrphanedBackup ==
    \A r \in Roots, o \in Owners :
        (treeBak[r][o] # None \/ markerBak[r][o] # None)
            => Pending # None /\ Pending.owner = o

\* Recovery refuses a record whose owner the lock file does not name, so the
\* two must never part (acquire_mode removes the record before it truncates).
OwnerNamesRecord == Pending # None => ownerFile = Pending.owner

\* The store refuses to open while its journal's coordinator is missing or has
\* another owner, and only a record with a store root settles it: the store
\* journal never outlives the record that decides it.
StoreJournalCoordinated ==
    storeTxn # None => /\ Pending # None
                       /\ Pending.owner = storeTxn.owner
                       /\ Pending.store

\* Trees that a committed transaction published stay until it is settled
\* (docs/adr/0008: "Post-commit recovery keeps the decision").
CommitKeepsTrees ==
    (storeTxn # None /\ Pending # None /\ Pending.state = "Committed")
        => storeTxn.created \subseteq storeTrees

\* The ChangeState a command reports is what happened: not committed means the
\* project it found, committed means the project it was asked for.
ReportIsTrue ==
    [][report' # report =>
         /\ report' \in {"Unchanged", "RolledBack"} => Project' = atStart
         /\ report' = "Committed" =>
               /\ Pending' = None
               /\ Project'.manifest = goal /\ Project'.lock = goal
               /\ \A r \in Roots : Project'.tree[r] = goal]_vars

\* A planned edit never overwrites a manifest it was not planned against
\* (ProjectChanged), although other commands and the user run in between.
NoStaleEdit ==
    (pc = "writeManifest" /\ cmd.mode = "replace")
        => Pending.manifest = cmd.expected

\* acquire_without_recovery: what makes `tapid import npm` refuse a project.
ImportRefuses ==
    \/ Pending # None
    \/ orphanTmp
    \/ stage[Root] # {}
    \/ \E o \in Owners : treeBak[Root][o] # None \/ markerBak[Root][o] # None

\* What acquire_mode's message says ("finish recovery with tapid install before
\* importing"): after an install that succeeded and removed its own stage,
\* import is not refused.
InstallUnblocksImport ==
    (pc = "exit" /\ report = "Committed" /\ stage[Root] = {}) => ~ImportRefuses

\* README.md of the repository: "Durable recovery journals let the next
\* mutating lifecycle command restore the prior state after a crash before
\* commit or finish cleanup after a committed operation": while commands are
\* run, a pending record does not stay pending.
RecoveryCompletes == Pending # None ~> Pending = None

\* A command that got the activation lock gives it back, whatever fails.
CommandEnds == pc # "free" ~> pc = "free"

\* The journal is settled and every command ends.
InstallSettles == RecoveryCompletes /\ CommandEnds
=============================================================================
