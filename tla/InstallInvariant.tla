------------------------- MODULE InstallInvariant -------------------------
(***************************************************************************)
(* The inductive invariant behind the theorems of InstallProofs.           *)
(*                                                                         *)
(* OnDisk speaks of files only, so a crash cannot break it: it says that   *)
(* the pending record and the backups together still hold the project.     *)
(* The other conjuncts say how far the running command has come.           *)
(***************************************************************************)
EXTENDS InstallTransaction

\* Backups that the pending record's owner holds in r.
SavedTree(r) == treeBak[r][Pending.owner]
SavedMarker(r) == markerBak[r][Pending.owner]

\* The record, the lock file and the store journal name the same owner.
FilesHeld ==
    /\ OwnerNamesRecord
    /\ StoreJournalCoordinated
    /\ manifest = Torn => RollsBack
    /\ Pending # None => /\ Root \in Pending.roots
                         /\ Pending.hadTree \cup Pending.hadMarker
                               \subseteq Pending.roots

\* The record and the backups in r together still hold what was in r.
RootHeld(r) ==
    /\ \A o \in Owners : (treeBak[r][o] # None \/ markerBak[r][o] # None)
          => Pending # None /\ Pending.owner = o
    /\ tree[r] = Torn => /\ RollsBack /\ r \in Pending.roots
                         /\ SavedTree(r) # None \/ r \notin Pending.hadTree
    /\ Pending # None /\ r \notin Pending.roots =>
          SavedTree(r) = None /\ SavedMarker(r) = None
    /\ RollsBack => /\ SavedTree(r) # Torn
                    /\ SavedTree(r) # None => r \in Pending.hadTree
                    /\ SavedMarker(r) # None => r \in Pending.hadMarker

OnDisk == FilesHeld /\ \A r \in Roots : RootHeld(r)

-----------------------------------------------------------------------------
(* The command's own data *)

WellFormed(c) == /\ c \in Command
                 /\ c.mode \in EditModes => c.goal # None

CommandsOK == /\ \A w \in Waiting : plans[w] # None => WellFormed(plans[w])
              /\ pc # "free" => WellFormed(cmd)

\* The root r is as it was when the record was made.
Untouched(r) ==
    /\ SavedTree(r) = None /\ SavedMarker(r) = None
    /\ tree[r] # None <=> r \in Pending.hadTree
    /\ marker[r] # None <=> r \in Pending.hadMarker

\* What the transaction found in r is safe, and was Tapid's own.
MarkerSaved(r) ==
    /\ r \in Pending.hadMarker => SavedMarker(r) = Managed
    /\ r \in Pending.hadTree => r \in Pending.hadMarker
TreeSaved(r) == r \in Pending.hadTree => SavedTree(r) # None

Activated(r) ==
    /\ tree[r] = goal /\ marker[r] = Managed
    /\ MarkerSaved(r) /\ TreeSaved(r)

-----------------------------------------------------------------------------
(* Positions by what they know *)

Writing == {"writeTemp", "swapOut", "swapIn"}

\* No record is pending.
Clean == \/ pc \in {"truncateOwner", "writeOwner", "locked"}
         \/ pc = "prepare" /\ ~begun
         \/ pc \in Writing /\ ret = "begun"

\* At position l, or writing a record and going there next.
Towards(l) == pc = l \/ (pc \in Writing \cup {"writeSync"} /\ ret = l)

Editing == {"begun", "truncateManifest", "writeManifest"}
Choosing == {"recordMembers", "recordStore", "publish", "publishTrees"}
Locking == {"backUpLock", "placeLock"}
Working == Editing \cup Choosing \cup Locking \cup Materializing
           \cup {"unstage", "failMaterialize", "rollbackLock", "rollbackStore",
                 "markCommitted"}

\* A Prepared record of this command is in place.
Holding == pc \in Working \/ (pc = "prepare" /\ begun)

BeginOK(j) ==
    /\ j.owner = ownerFile /\ j.state = "Prepared" /\ ~j.store
    /\ j.manifest = manifest /\ j.lock = lock
    /\ j.roots = {Root} /\ j.hadTree = WithTree({Root})
    /\ j.hadMarker = WithMarker({Root})

WriteOK ==
    /\ pc \in Writing =>
          /\ rec # None
          /\ ret = "begun" => BeginOK(rec)
          /\ ret # "begun" => RollsBack
          /\ ret = "recordStore" => rec = WithMembers(Pending)
          /\ ret = "publish" => rec = WithStore(Pending)
          /\ ret = "committed" => rec = WithCommit(Pending)
          /\ ret # "free"
    /\ pc \in {"writeTemp", "swapOut"} =>
          /\ journalBak = None
          /\ ret # "begun" => journal # None
    /\ pc = "writeSync" => journal # None /\ journal = rec /\ ret # "free"
    /\ pc = "writeSync" =>
          journal.state = IF ret = "committed" THEN "Committed" ELSE "Prepared"

PositionOK ==
    /\ Clean => Pending = None /\ ~begun
    /\ pc \in Recovering /\ phase = "acquire" => ~begun
    /\ pc = "locked" \/ (pc = "prepare" /\ ~begun) => ownerFile # None
    /\ pc = "writeSync" /\ ret = "begun" => ~begun
    /\ pc = "begun" => ~begun
    /\ pc \in {"truncateManifest", "writeManifest"} => begun
    /\ Holding => journal # None /\ journalBak = None
                  /\ journal.state = "Prepared"
    /\ pc \in {"committed", "discardLockBackup"} =>
          journal # None /\ journalBak = None /\ journal.state = "Committed"

Complete == \/ pc \in {"unstage", "markCommitted"}
            \/ pc \in Writing /\ ret = "committed"

\* Where package.json, tapid.lock and the goal agree.
Installing ==
    \/ pc \in {"prepare", "unstage", "markCommitted"}
    \/ pc \in Choosing \cup Locking \cup Materializing
    \/ Towards("recordStore")
    \/ Towards("publish")
    \/ Towards("committed")

ContentsOK ==
    /\ Towards("begun") =>
          /\ goal \in Versions
          /\ cmd.mode \notin EditModes => manifest = goal
    /\ pc \in {"truncateManifest", "writeManifest"} => goal \in Versions
    /\ Installing => goal \in Versions /\ manifest = goal
    /\ pc \in Choosing \/ Towards("recordStore") \/ Towards("publish") =>
          /\ route # "none"
          /\ route = "replay" => lock = goal
    /\ Complete \/ Towards("committed") \/ pc \in Materializing =>
          lock = goal

\* How far activation has come.
BeforeActivation ==
    \/ pc \in Editing \cup Choosing \cup Locking \cup {"stage"}
    \/ pc = "prepare" /\ begun
    \/ pc \in Writing /\ ret \in {"recordStore", "publish"}
    \/ pc = "writeSync" /\ ret # "committed"

\* Every member is recorded.
MembersKnown ==
    \/ pc \in {"recordStore", "publish", "publishTrees"}
    \/ pc \in Locking \cup Materializing
    \/ pc \in {"unstage", "failMaterialize", "markCommitted"}
    \/ Towards("publish")
    \/ Towards("committed")
    \/ pc = "writeSync" /\ ret = "recordStore"

ActivationOK ==
    /\ BeforeActivation => \A r \in Pending.roots : Untouched(r)
    /\ MembersKnown => Pending.roots = Roots
    /\ pc \in {"activate", "backUpMarker", "backUpTree", "moveStage",
               "writeMarker"} =>
          /\ \A r \in todo : (pc = "activate" \/ r # cur) => Untouched(r)
          /\ \A r \in Roots \ todo : Activated(r)
    /\ pc \in Activating \ {"undoDestination", "undoTree", "undoMarker"}
          => cur \in todo
    /\ pc = "backUpMarker" =>
          Untouched(cur) /\ (tree[cur] # None => marker[cur] # None)
    /\ pc = "backUpTree" =>
          /\ MarkerSaved(cur) /\ marker[cur] = None
          /\ SavedTree(cur) = None
          /\ tree[cur] # None <=> cur \in Pending.hadTree
    /\ pc = "moveStage" =>
          MarkerSaved(cur) /\ TreeSaved(cur) /\ tree[cur] = None
    /\ pc = "writeMarker" =>
          MarkerSaved(cur) /\ TreeSaved(cur) /\ tree[cur] = goal
    /\ pc = "undoDestination" => TreeSaved(cur)
    /\ Complete => \A r \in Roots : Activated(r)

-----------------------------------------------------------------------------
(* How far recovery has come *)

MarkerSettled(r) ==
    /\ markerBak[r][journal.owner] = None
    /\ journal.state = "Prepared" /\ r \notin journal.hadMarker => marker[r] = None
TreeSettled(r) ==
    /\ treeBak[r][journal.owner] = None
    /\ journal.state = "Prepared" /\ r \notin journal.hadTree => tree[r] = None

RollingBack == {"unmark", "remark", "clearTree", "restoreTree"}
RollingForward == {"dropMarkerBackup", "dropTreeBackup"}
Ending == {"removeBackupJournal", "removeJournal"}
Walking == {"pickRoot", "dropStage"} \cup RollingBack \cup RollingForward

RecoveryOK ==
    /\ pc \in Recovering \ {"readJournal"} => journal # None
    /\ pc \in {"restoreManifest", "placeManifest", "restoreLock"} \cup RollingBack
          => journal.state = "Prepared"
    /\ pc \in RollingForward => journal.state = "Committed"
    /\ pc \in {"restoreManifest", "placeManifest", "restoreLock"} =>
          todo = journal.roots
    /\ pc \in {"restoreLock"} \cup Walking \cup Ending
          /\ journal.state = "Prepared" => manifest = journal.manifest
    /\ pc \in Walking \cup Ending
          /\ journal.state = "Prepared" => lock = journal.lock
    /\ pc \in Walking =>
          /\ todo \subseteq journal.roots
          /\ \A r \in journal.roots \ todo : MarkerSettled(r) /\ TreeSettled(r)
          /\ pc # "pickRoot" => cur \in todo
    /\ pc = "remark" /\ markerBak[cur][journal.owner] = None =>
          MarkerSettled(cur)
    /\ pc \in {"clearTree", "restoreTree", "dropTreeBackup", "dropStage"} =>
          MarkerSettled(cur)
    /\ pc = "restoreTree" /\ treeBak[cur][journal.owner] = None =>
          TreeSettled(cur)
    /\ pc = "dropStage" => TreeSettled(cur)
    /\ pc \in Ending =>
          \A r \in journal.roots : MarkerSettled(r) /\ TreeSettled(r)
    /\ pc = "removeJournal" => journalBak = None

\* A store journal of the running command is held open by its publication,
\* and is gone by the time the record may go; trees are published only under a
\* record that names the store.
StoreOK ==
    /\ pc = "publish" \/ (pc = "writeSync" /\ ret = "publish") => journal.store
    /\ pc \in {"restoreManifest", "placeManifest", "restoreLock",
               "discardLockBackup"} \cup Walking \cup Ending => storeTxn = None
    /\ (pc \in Writing \cup {"writeSync", "committed"} \/ Holding)
          /\ storeTxn # None => pub
    /\ pub => /\ storeTxn # None
              /\ pc \in Writing \cup {"writeSync", "committed", "fail"} \/ Holding

IInv == /\ TypeOK /\ OnDisk /\ CommandsOK /\ WriteOK /\ PositionOK
        /\ ContentsOK /\ ActivationOK /\ RecoveryOK /\ StoreOK
=============================================================================
