--------------------------- MODULE InstallWalks ---------------------------
(***************************************************************************)
(* The two walks over the roots of a project: activation, which moves the  *)
(* new trees in, and recovery, which settles a pending record.  Every step *)
(* keeps what the invariant says of how far each has come.                 *)
(***************************************************************************)
EXTENDS InstallDisk

(* Activation *)

Active == Editing \cup Choosing \cup Locking \cup Materializing \cup Writing
          \cup {"prepare", "unstage", "failMaterialize", "markCommitted",
                "writeSync", "committed"}

\* A step to a position outside activation owes ActivationOK nothing.
LEMMA NotActive == ASSUME pc' \notin Active PROVE ActivationOK'
BY DEF ActivationOK, Active, BeforeActivation, MembersKnown, Complete, Towards,
       Editing, Choosing, Locking, Materializing, Activating, Writing

\* The activation walks over the same files for the same record.
SameRoots ==
    UNCHANGED <<tree, marker, treeBak, markerBak>> /\ Pending' = Pending

\* Nothing of the activation moves.
LEMMA SameActivation ==
    ASSUME ActivationOK, SameRoots,
           UNCHANGED <<goal, todo, cur, pc, ret, begun>>
    PROVE  ActivationOK'
BY DEF SameRoots, ActivationOK, BeforeActivation, MembersKnown, Complete,
       Towards, Untouched, Activated, MarkerSaved, TreeSaved, SavedTree,
       SavedMarker

\* An untouched root stays untouched while its files and record do.
LEMMA SameUntouched ==
    ASSUME SameRoots, NEW r PROVE Untouched(r) => Untouched(r)'
BY DEF SameRoots, Untouched, SavedTree, SavedMarker

\* An activated root stays activated while its files and record do.
LEMMA SameActivated ==
    ASSUME SameRoots, goal' = goal, NEW r PROVE Activated(r) => Activated(r)'
BY DEF SameRoots, Activated, MarkerSaved, TreeSaved, SavedTree, SavedMarker

\* Before anything is activated.
LEMMA StillBefore ==
    ASSUME ActivationOK, SameRoots, BeforeActivation, BeforeActivation',
           MembersKnown' => MembersKnown \/ Pending.roots = Roots,
           pc' \notin Activating \cup {"activate"}
    PROVE  ActivationOK'
<1>1. \A r \in Pending.roots : Untouched(r)'
  BY SameUntouched DEF ActivationOK
<1>2. Pending' = Pending
  BY DEF SameRoots
<1>3. ~Complete'
  BY DEF BeforeActivation, Complete, Editing, Choosing, Locking, Writing
<1>4. MembersKnown' => Pending.roots = Roots
  BY DEF ActivationOK
<1>. QED
  BY <1>1, <1>2, <1>3, <1>4 DEF ActivationOK, Activating

\* The steps up to staging change no file that activation looks at.
LEMMA ActivationBefore ==
    ASSUME TypeOK, OnDisk, PositionOK, ActivationOK,
           \/ Begun \/ TruncateManifest \/ WriteManifest \/ Prepare
           \/ RecordMembers \/ RecordStore \/ Publish \/ PublishTrees
           \/ UseStore \/ BackUpLock \/ PlaceLock
    PROVE  ActivationOK'
<1>1. SameRoots
  BY DEF Begun, TruncateManifest, WriteManifest, Prepare, RecordMembers,
     RecordStore, Publish, PublishTrees, UseStore, BackUpLock, PlaceLock,
     SameRoots, rootVars, journalVars, Pending
<1>2. CASE pc' \notin Active
  BY <1>2, NotActive
<1>3. CASE pc' \in Writing /\ ret' = "begun"
  BY <1>3 DEF ActivationOK, BeforeActivation, MembersKnown, Complete, Towards,
     Writing, Editing, Choosing, Locking, Materializing, Activating
<1>4. CASE ~(pc = "prepare" /\ ~begun) /\ pc' \in Active
  <2>1. BeforeActivation
    BY <1>4 DEF Begun, TruncateManifest, WriteManifest, Prepare, RecordMembers,
       RecordStore, Publish, PublishTrees, UseStore, BackUpLock, PlaceLock,
       BeforeActivation, Editing, Choosing, Locking
  <2>2. /\ BeforeActivation'
        /\ pc' \notin Activating \cup {"activate"}
    <3>1. PositionOK => (pc = "writeManifest" => begun)
      BY DEF PositionOK
    <3>. QED
      BY <1>4, <3>1 DEF Begun, TruncateManifest, WriteManifest, Prepare,
         RecordMembers, RecordStore, WriteRecord, Publish, PublishTrees,
         UseStore, BackUpLock, PlaceLock, BeforeActivation, Editing, Choosing,
         Locking, Writing, Activating, Active, Materializing, cmdVars
  <2>3. MembersKnown' => MembersKnown \/ Pending.roots = Roots
    <3>1. CASE RecordMembers
      <4>1. pc' = "recordStore" => Members = {}
        BY <3>1 DEF RecordMembers, WriteRecord
      <4>2. MembersKnown' => pc' = "recordStore"
        BY <3>1 DEF RecordMembers, WriteRecord, MembersKnown, Towards, Writing,
           Locking, Materializing, Activating
      <4>3. Pending \in Record /\ Pending # None
        BY <3>1, Rewriting DEF RecordMembers, Holding, Working, Choosing,
           RollsBack
      <4>4. Members = {} => Pending.roots = Roots
        BY <4>3 DEF OnDisk, FilesHeld, Roots, Record
      <4>. QED
        BY <4>1, <4>2, <4>4
    <3>2. CASE Begun \/ TruncateManifest \/ WriteManifest \/ Prepare
      BY <1>4, <3>2 DEF Begun, TruncateManifest, WriteManifest, Prepare,
         MembersKnown, Towards, Writing, Locking, Materializing, Activating
    <3>3. CASE \/ RecordStore \/ Publish \/ PublishTrees \/ UseStore
               \/ BackUpLock \/ PlaceLock
      BY <3>3 DEF RecordStore, Publish, PublishTrees, UseStore, BackUpLock,
         PlaceLock, MembersKnown, Locking
    <3>. QED
      BY <3>1, <3>2, <3>3
  <2>. QED
    BY <1>1, <2>1, <2>2, <2>3, StillBefore
<1>5. pc = "prepare" /\ ~begun => pc' \in Writing /\ ret' = "begun"
  BY DEF Begun, TruncateManifest, WriteManifest, Prepare, WriteRecord,
     RecordMembers, RecordStore, Publish, PublishTrees, UseStore, BackUpLock,
     PlaceLock, Writing
<1>. QED
  BY <1>2, <1>3, <1>4, <1>5

\* write_record, once the record is on its way.
LEMMA ActivationWrite ==
    ASSUME TypeOK, OnDisk, WriteOK, ActivationOK,
           WriteTemp \/ VacateJournal \/ WriteSync \/ MarkCommitted
    PROVE  ActivationOK'
<1>1. SameRoots /\ goal' = goal
  BY DEF WriteTemp, VacateJournal, SwapOut, WriteSync, DropJournalBackup,
     MarkCommitted, WriteOK, SameRoots, rootVars, journalVars, cmdVars, Pending
<1>2. Pending' = Pending
  BY <1>1 DEF SameRoots
<1>3. CASE WriteSync
  <2>1. /\ pc = "writeSync" /\ pc' = ret /\ ret' = "free"
        /\ ret \in {"begun", "recordStore", "publish", "committed"}
    BY <1>3 DEF WriteSync, WriteOK, TypeOK
  <2>2. CASE ret = "committed"
    BY <1>2, <2>1, <2>2 DEF ActivationOK, BeforeActivation, MembersKnown,
       Complete, Towards, Writing, Editing, Choosing, Locking, Materializing,
       Activating
  <2>3. CASE ret # "committed"
    <3>1. BeforeActivation /\ BeforeActivation'
      BY <2>1, <2>3 DEF BeforeActivation, Editing, Choosing
    <3>2. MembersKnown' => MembersKnown
      BY <2>1, <2>3 DEF MembersKnown, Towards, Writing, Locking, Materializing,
         Activating
    <3>. QED
      BY <1>1, <2>1, <3>1, <3>2, StillBefore DEF Activating
  <2>. QED
    BY <2>2, <2>3
<1>4. CASE WriteTemp \/ VacateJournal \/ MarkCommitted
  <2>1. /\ pc \in Writing \cup {"markCommitted"} /\ pc' \in Writing
        /\ pc \in Writing => ret' = ret
        /\ pc = "markCommitted" => ret' = "committed"
    BY <1>4 DEF WriteTemp, VacateJournal, MarkCommitted, WriteRecord,
       writeVars,
       Writing
  <2>2. /\ BeforeActivation' => BeforeActivation
        /\ MembersKnown' => MembersKnown
        /\ Complete' => Complete
    BY <2>1 DEF BeforeActivation, MembersKnown, Complete, Towards, Writing,
       Editing, Choosing, Locking, Materializing, Activating
  <2>3. pc' \notin Activating \cup {"activate"}
    BY <2>1 DEF Writing, Activating
  <2>. QED
    BY <1>1, <1>2, <2>2, <2>3, SameUntouched, SameActivated DEF ActivationOK,
       Activating
<1>. QED
  BY <1>3, <1>4

\* A published record describes the roots that it names.
LEMMA ActivationRecord ==
    ASSUME TypeOK, OnDisk, WriteOK, PositionOK, ActivationOK, PublishRecord
    PROVE  ActivationOK'
<1>1. /\ pc = "swapIn" /\ pc \in Writing /\ journal' = rec /\ rec # None
      /\ rec \in Record /\ ret # "free" /\ pc' = "writeSync" /\ ret' = ret
  BY DEF PublishRecord, SwapIn, WriteOK, Writing, TypeOK, writeVars
<1>2. Pending' = rec /\ UNCHANGED <<tree, marker, treeBak, markerBak>>
  BY <1>1 DEF Pending, PublishRecord, rootVars
<1>3. SUFFICES /\ ret # "committed" => \A r \in rec.roots : Untouched(r)'
               /\ ret # "begun" => rec.roots = Roots
  BY <1>1, <1>2 DEF ActivationOK, BeforeActivation, MembersKnown, Complete,
     Towards, Writing, Editing, Choosing, Locking, Materializing, Activating
<1>4. CASE ret = "begun"
  <2>1. Pending = None
    BY <1>1, <1>4 DEF PositionOK, Clean
  <2>2. BeginOK(rec)
    BY <1>1, <1>4 DEF WriteOK
  <2>3. SavedTree(Root)' = None /\ SavedMarker(Root)' = None
    BY <1>1, <1>2, <2>1, WithoutRecord DEF SavedTree, SavedMarker, Record,
       Roots
  <2>. QED
    BY <1>2, <1>4, <2>2, <2>3 DEF Untouched, BeginOK, WithTree, WithMarker
<1>5. CASE ret # "begun"
  <2>1. Pending \in Record /\ Pending # None /\ RollsBack
    BY <1>1, <1>5, PendingType DEF WriteOK, RollsBack
  <2>2. CASE ret = "recordStore"
    <3>1. /\ rec.owner = Pending.owner /\ rec.roots = Roots
          /\ rec.hadTree = Pending.hadTree \cup WithTree(Members)
          /\ rec.hadMarker = Pending.hadMarker \cup WithMarker(Members)
      BY <1>1, <2>1, <2>2, WithMembersFields DEF WriteOK
    <3>2. ASSUME NEW r \in Roots PROVE Untouched(r)'
      <4>1. SavedTree(r)' = SavedTree(r) /\ SavedMarker(r)' = SavedMarker(r)
        BY <1>2, <3>1 DEF SavedTree, SavedMarker
      <4>2. CASE r \in Pending.roots
        <5>1. Untouched(r)
          BY <1>1, <2>2, <4>2 DEF ActivationOK, BeforeActivation
        <5>. QED
          BY <1>2, <3>1, <4>1, <5>1 DEF Untouched, WithTree, WithMarker
      <4>3. CASE r \notin Pending.roots
        <5>1. /\ SavedTree(r) = None /\ SavedMarker(r) = None
              /\ r \in Members
              /\ r \notin Pending.hadTree /\ r \notin Pending.hadMarker
          BY <2>1, <4>3 DEF OnDisk, FilesHeld, RootHeld, Roots
        <5>. QED
          BY <1>2, <3>1, <4>1, <5>1 DEF Untouched, WithTree, WithMarker
      <4>. QED
        BY <4>2, <4>3
    <3>. QED
      BY <3>1, <3>2
  <2>3. CASE ret = "publish"
    <3>1. /\ rec.owner = Pending.owner /\ rec.roots = Pending.roots
          /\ rec.hadTree = Pending.hadTree /\ rec.hadMarker = Pending.hadMarker
      BY <1>1, <2>1, <2>3, WithStoreFields DEF WriteOK
    <3>2. rec.roots = Roots
      BY <1>1, <2>3, <3>1 DEF ActivationOK, MembersKnown, Towards
    <3>3. ASSUME NEW r \in Pending.roots PROVE Untouched(r)'
      <4>1. Untouched(r)
        BY <1>1, <2>3 DEF ActivationOK, BeforeActivation
      <4>. QED
        BY <1>2, <3>1, <4>1 DEF Untouched, SavedTree, SavedMarker
    <3>. QED
      BY <3>1, <3>2, <3>3
  <2>4. CASE ret = "committed"
    <3>1. rec.roots = Pending.roots
      BY <1>1, <2>1, <2>4, WithCommitFields DEF WriteOK
    <3>. QED
      BY <1>1, <2>4, <3>1 DEF ActivationOK, MembersKnown, Towards
  <2>. QED
    BY <1>1, <1>5, <2>2, <2>3, <2>4 DEF TypeOK
<1>. QED
  BY <1>4, <1>5

-----------------------------------------------------------------------------

\* The roots other than the one being activated are as they were.
LEMMA OtherRoots ==
    ASSUME ActivationOK, Pending' = Pending, goal' = goal,
           pc \in {"activate", "backUpMarker", "backUpTree", "moveStage",
                   "writeMarker"},
           \A r \in Roots \ {cur} :
              /\ tree'[r] = tree[r] /\ marker'[r] = marker[r]
              /\ treeBak'[r] = treeBak[r] /\ markerBak'[r] = markerBak[r]
    PROVE  /\ \A r \in Roots : r \in todo \ {cur} => Untouched(r)'
           /\ \A r \in Roots : r \notin todo /\ r # cur => Activated(r)'
BY ZenonT(60) DEF ActivationOK, Untouched, Activated, MarkerSaved, TreeSaved,
   SavedTree, SavedMarker

\* One step of the activation of a root.
LEMMA ActivationRoot ==
    ASSUME TypeOK, OnDisk, PositionOK, ContentsOK, ActivationOK,
           MoveMarkerAside \/ MoveTreeAside \/ MoveStage \/ MarkTree
    PROVE  ActivationOK'
<1>1. /\ pc \in {"backUpMarker", "backUpTree", "moveStage", "writeMarker"}
      /\ pc \in Materializing
  BY DEF MoveMarkerAside, MoveTreeAside, MoveStage, MarkTree, Materializing,
     Activating
<1>2. /\ journal \in Record /\ journal # None /\ Pending = journal
      /\ ownerFile = journal.owner /\ journal.owner \in Owners
  BY <1>1, OwnRecord DEF RollsBack
<1>3. /\ Pending' = Pending /\ goal' = goal /\ cur' = cur
      /\ cur \in todo /\ todo \subseteq Roots /\ cur \in Roots
      /\ Pending.roots = Roots
  BY <1>1 DEF MoveMarkerAside, MoveTreeAside, MoveStage, MarkTree, journalVars,
     cmdVars, walkVars, Pending, ActivationOK, Activating, MembersKnown, TypeOK
<1>4. /\ tree \in [Roots -> TreeFile] /\ marker \in [Roots -> MarkerFile]
      /\ treeBak \in [Roots -> [Owners -> TreeFile]]
      /\ markerBak \in [Roots -> [Owners -> MarkerFile]]
  BY DEF TypeOK, RootsTypeOK
<1>5. \A r \in Roots \ {cur} :
         /\ tree'[r] = tree[r] /\ marker'[r] = marker[r]
         /\ treeBak'[r] = treeBak[r] /\ markerBak'[r] = markerBak[r]
  BY <1>4 DEF MoveMarkerAside, BackUpMarker, MoveTreeAside, BackUpTree,
     MoveStage, MoveStageIn, MarkTree, WriteMarker, rootVars
<1>6. /\ \A r \in Roots : r \in todo \ {cur} => Untouched(r)'
      /\ \A r \in Roots : r \notin todo /\ r # cur => Activated(r)'
  BY <1>1, <1>3, <1>5, OtherRoots
<1>7. CASE MoveMarkerAside
  <2>1. /\ pc = "backUpMarker" /\ Untouched(cur) /\ todo' = todo
        /\ tree[cur] # None => marker[cur] # None
        /\ pc' = IF marker[cur] = Alien THEN "undoMarker" ELSE "backUpTree"
    BY <1>7 DEF MoveMarkerAside, ActivationOK, walkVars
  <2>2. /\ tree'[cur] = tree[cur] /\ treeBak'[cur] = treeBak[cur]
        /\ marker'[cur] = None
        /\ markerBak'[cur][journal.owner] =
              IF marker[cur] = None THEN SavedMarker(cur) ELSE marker[cur]
    BY <1>2, <1>4, <1>3, <1>7 DEF MoveMarkerAside, BackUpMarker, rootVars,
       SavedMarker
  <2>3. pc' = "backUpTree" => MarkerSaved(cur)'
    <3>1. marker[cur] \in {None, Managed, Alien}
      BY <1>3, <1>4 DEF MarkerFile
    <3>. QED
      BY <1>2, <1>3, <2>1, <2>2, <3>1 DEF MarkerSaved, SavedMarker, Untouched
  <2>4. /\ SavedTree(cur)' = None
        /\ tree'[cur] # None <=> cur \in Pending.hadTree
    BY <1>2, <1>3, <2>1, <2>2 DEF Untouched, SavedTree
  <2>. QED
    BY <1>3, <1>6, <2>1, <2>2, <2>3, <2>4 DEF ActivationOK, BeforeActivation,
       Complete, Writing, Editing, Choosing, Locking, Activating
<1>8. CASE MoveTreeAside
  <2>1. /\ pc = "backUpTree" /\ pc' = "moveStage" /\ todo' = todo
        /\ MarkerSaved(cur) /\ SavedTree(cur) = None
        /\ tree[cur] # None <=> cur \in Pending.hadTree
    BY <1>8 DEF MoveTreeAside, ActivationOK, walkVars
  <2>2. /\ tree'[cur] = None /\ markerBak'[cur] = markerBak[cur]
        /\ tree[cur] # None => treeBak'[cur][journal.owner] = tree[cur]
    BY <1>2, <1>3, <1>4, <1>8 DEF MoveTreeAside, BackUpTree, rootVars
  <2>3. MarkerSaved(cur)' /\ TreeSaved(cur)'
    BY <1>2, <1>3, <2>1, <2>2 DEF MarkerSaved, TreeSaved, SavedMarker,
       SavedTree
  <2>. QED
    BY <1>3, <1>6, <2>1, <2>2, <2>3 DEF ActivationOK, BeforeActivation,
       Complete, Writing, Editing, Choosing, Locking, Activating
<1>9. CASE MoveStage
  <2>1. /\ pc = "moveStage" /\ pc' = "writeMarker" /\ todo' = todo
        /\ MarkerSaved(cur) /\ TreeSaved(cur)
    BY <1>9 DEF MoveStage, ActivationOK, walkVars
  <2>2. tree'[cur] = goal /\ UNCHANGED <<treeBak, markerBak>>
    BY <1>3, <1>4, <1>9 DEF MoveStage, MoveStageIn
  <2>3. MarkerSaved(cur)' /\ TreeSaved(cur)'
    BY <1>3, <2>1, <2>2 DEF MarkerSaved, TreeSaved, SavedMarker, SavedTree
  <2>. QED
    BY <1>3, <1>6, <2>1, <2>2, <2>3 DEF ActivationOK, BeforeActivation,
       Complete, Writing, Editing, Choosing, Locking, Activating
<1>10. CASE MarkTree
  <2>1. /\ pc = "writeMarker" /\ todo' = todo \ {cur}
        /\ pc' = IF todo = {cur} THEN "unstage" ELSE "activate"
        /\ MarkerSaved(cur) /\ TreeSaved(cur) /\ tree[cur] = goal
    BY <1>10 DEF MarkTree, ActivationOK
  <2>2. /\ marker'[cur] = Managed
        /\ UNCHANGED <<tree, treeBak, markerBak>>
    BY <1>3, <1>4, <1>10 DEF MarkTree, WriteMarker
  <2>3. Activated(cur)'
    BY <1>3, <2>1, <2>2 DEF Activated, MarkerSaved, TreeSaved, SavedMarker,
       SavedTree
  <2>4. \A r \in Roots \ todo' : Activated(r)'
    <3>1. SUFFICES ASSUME NEW r \in Roots \ todo' PROVE Activated(r)'
      OBVIOUS
    <3>2. CASE r = cur
      BY <1>3, <2>3, <3>2 DEF Activated, MarkerSaved, TreeSaved, SavedTree,
         SavedMarker
    <3>. QED
      BY <1>6, <2>1, <3>2
  <2>5. \A r \in todo' : Untouched(r)'
    BY <1>3, <1>6, <2>1
  <2>6. pc' = "unstage" => \A r \in Roots : Activated(r)'
    BY <2>1, <2>4
  <2>. QED
    BY <1>3, <2>1, <2>4, <2>5, <2>6 DEF ActivationOK, BeforeActivation,
       Complete, Writing, Editing, Choosing, Locking, Activating
<1>. QED
  BY <1>7, <1>8, <1>9, <1>10

\* Staging, choosing the next root, and giving up.
LEMMA ActivationWalk ==
    ASSUME TypeOK, ActivationOK,
           \/ Stage \/ Activate \/ Unstage \/ Error \/ ErrorInActivation
    PROVE  ActivationOK'
<1>1. SameRoots /\ goal' = goal
  BY DEF Stage, CreateStage, Activate, Unstage, RemoveStages, Error,
     ErrorInActivation, SameRoots, rootVars, journalVars, cmdVars, Pending
<1>2. Pending' = Pending
  BY <1>1 DEF SameRoots
<1>3. CASE Stage
  <2>1. /\ pc = "stage" /\ pc' \in {"stage", "activate"}
        /\ pc' = "activate" => todo' = Roots
    BY <1>3 DEF Stage
  <2>2. Pending.roots = Roots /\ \A r \in Pending.roots : Untouched(r)'
    BY <1>1, <2>1, SameUntouched DEF ActivationOK, MembersKnown, Materializing,
       BeforeActivation
  <2>. QED
    BY <1>2, <2>1, <2>2 DEF ActivationOK, Complete, Writing, Activating
<1>4. CASE Activate
  <2>1. PICK r \in todo :
           /\ cur' = r /\ todo' = todo /\ pc = "activate"
           /\ pc' = IF tree[r] # None /\ marker[r] = None
                    THEN "failMaterialize" ELSE "backUpMarker"
    BY <1>4 DEF Activate
  <2>2. Pending.roots = Roots
    BY <2>1 DEF ActivationOK, MembersKnown, Materializing
  <2>3. /\ \A s \in todo : Untouched(s)'
        /\ \A s \in Roots \ todo : Activated(s)'
    BY <1>1, <2>1, SameUntouched, SameActivated DEF ActivationOK
  <2>4. UNCHANGED <<tree, marker>>
    BY <1>1 DEF SameRoots
  <2>. QED
    BY <1>2, <2>1, <2>2, <2>3, <2>4 DEF ActivationOK, BeforeActivation,
       Complete, Writing, Editing, Choosing, Locking, Activating
<1>5. CASE Unstage
  <2>1. CASE pc = "unstage"
    <3>1. /\ pc' = "markCommitted" /\ Pending.roots = Roots
          /\ \A r \in Roots : Activated(r)'
      BY <1>1, <1>5, <2>1, SameActivated DEF Unstage, ActivationOK,
         MembersKnown,
         Complete
    <3>. QED
      BY <1>2, <3>1 DEF ActivationOK, BeforeActivation, Writing, Editing,
         Choosing, Locking, Activating
  <2>2. CASE pc # "unstage"
    BY <1>5, <2>2, NotActive DEF Unstage, Active, Editing, Choosing, Locking,
       Materializing, Activating, Writing
  <2>. QED
    BY <2>1, <2>2
<1>6. CASE Error \/ ErrorInActivation
  <2>1. CASE pc \in Materializing
    <3>1. /\ pc' \in {"failMaterialize", "fail", "undoMarker", "undoTree",
                      "undoDestination"}
          /\ pc' = "undoDestination" => pc = "writeMarker" /\ cur' = cur
      BY <1>6, <2>1 DEF Error, ErrorInActivation, walkVars
    <3>2. Pending.roots = Roots
      BY <2>1 DEF ActivationOK, MembersKnown
    <3>3. pc' = "undoDestination" => TreeSaved(cur)'
      BY <1>1, <3>1 DEF SameRoots, ActivationOK, TreeSaved, SavedTree
    <3>. QED
      BY <1>2, <3>1, <3>2, <3>3 DEF ActivationOK, BeforeActivation, Complete,
         Writing, Editing, Choosing, Locking, Activating
  <2>2. CASE pc \notin Materializing
    BY <1>6, <2>2, NotActive DEF Error, ErrorInActivation, Active, Editing,
       Choosing, Locking, Materializing, Activating, Writing
  <2>. QED
    BY <2>1, <2>2
<1>. QED
  BY <1>3, <1>4, <1>5, <1>6

\* Undoing the activation of a root: only the record matters from here.
LEMMA ActivationUndo ==
    ASSUME ActivationOK, UndoDestination \/ UndoTree \/ UndoMarker
    PROVE  ActivationOK'
<1>1. /\ pc \in {"undoDestination", "undoTree", "undoMarker"}
      /\ pc' \in {"undoTree", "undoMarker", "failMaterialize"}
      /\ Pending' = Pending
  BY DEF UndoDestination, UndoTree, UndoMarker, journalVars, Pending
<1>2. Pending.roots = Roots
  BY <1>1 DEF ActivationOK, MembersKnown, Materializing, Activating
<1>. QED
  BY <1>1, <1>2 DEF ActivationOK, BeforeActivation, Complete, Writing, Editing,
     Choosing, Locking, Activating

\* Every step keeps the account of how far activation has come.
LEMMA ActivationStep ==
    ASSUME TypeOK, OnDisk, WriteOK, PositionOK, ContentsOK, ActivationOK, Next
    PROVE  ActivationOK'
<1> DEFINE Idle == pc' \notin Active
<1>1. CASE Recover
  <2>1. Idle
    BY <1>1 DEF Recover, RestoreJournal, RecoverAlone, ReadJournal,
       RecoverStore, VacateManifest, RestoreManifest, RestoreLock, PickRoot,
       Unmark, Remark, ClearTree, RestorePriorTree, CommitMarker, CommitTree,
       DropStage, RemoveBackupJournal, EndTransaction, DiscardLeftover, Exit,
       Forget, Active, Editing, Choosing, Locking, Materializing, Activating,
       Writing
  <2>. QED
    BY <2>1, NotActive
<1>2. CASE Install
  <2>1. CASE CheckPlan
    BY <2>1 DEF CheckPlan, WriteRecord, PositionOK, Clean, ActivationOK,
       BeforeActivation, MembersKnown, Complete, Towards, Writing, Editing,
       Choosing, Locking, Materializing, Activating
  <2>2. CASE \/ TruncateOwner \/ WriteOwner \/ RejectLock \/ CommitStore
             \/ DiscardLockBackup
    BY <2>2, NotActive DEF TruncateOwner, WriteOwner, RejectLock, CommitStore,
       DiscardLockBackup, Active, Editing, Choosing, Locking, Materializing,
       Activating, Writing
  <2>. QED
    BY <1>2, <2>1, <2>2, ActivationBefore, ActivationWrite, ActivationRecord,
       ActivationRoot, ActivationWalk DEF Install
<1>3. CASE Unwind
  <2>1. CASE RollbackLock \/ RollbackStore \/ Fail \/ JournalDisappeared
    BY <2>1, NotActive DEF RollbackLock, RollbackStore, Fail,
       JournalDisappeared, GiveUp, Active, Editing, Choosing, Locking,
       Materializing, Activating, Writing
  <2>. QED
    BY <1>3, <2>1, ActivationUndo DEF Unwind
<1>4. CASE Break
  <2>1. CASE \/ ErrorInSwap \/ ErrorInPublish \/ RecoveryError
             \/ ErrorAfterEnd \/ Crash
    BY <2>1, NotActive DEF ErrorInSwap, ErrorInPublish, RecoveryError,
       ErrorAfterEnd, GiveUp, Crash, Forget, Active, Editing, Choosing,
       Locking,
       Materializing, Activating, Writing
  <2>. QED
    BY <1>4, <2>1, ActivationWalk DEF Break
<1>5. CASE Environment
  BY <1>5, SameActivation DEF Environment, UserEdit, OtherRecoversStore,
     OthersUseStore, rootVars, journalVars, cmdVars, walkVars, writeVars,
     Pending, SameRoots
<1>6. CASE \E w \in Waiting : Plan(w) \/ Busy(w) \/ Acquire(w)
  <2>1. PICK w \in Waiting : Plan(w) \/ Busy(w) \/ Acquire(w)
    BY <1>6
  <2>2. CASE Acquire(w)
    BY <2>2, NotActive DEF Acquire, Active, Editing, Choosing, Locking,
       Materializing, Activating, Writing
  <2>3. CASE Plan(w) \/ Busy(w)
    BY <2>3, SameActivation DEF Plan, Busy, rootVars, journalVars, cmdVars,
       walkVars, writeVars, Pending, SameRoots
  <2>. QED
    BY <2>1, <2>2, <2>3
<1>. QED
  BY <1>1, <1>2, <1>3, <1>4, <1>5, <1>6 DEF Next

-----------------------------------------------------------------------------
(* Recovery *)

\* What recovery knows while it walks the roots, when a step changes the files
\* of the root it is in and nothing else.
LEMMA WalkFrame ==
    ASSUME TypeOK, RecoveryOK, pc \in Walking \ {"pickRoot"},
           pc' \in Walking \ {"pickRoot"},
           pc' \in RollingBack => journal.state = "Prepared",
           pc' \in RollingForward => journal.state = "Committed",
           UNCHANGED <<journal, manifest, lock, todo, cur>>,
           \A r \in Roots \ {cur} :
              /\ tree'[r] = tree[r] /\ marker'[r] = marker[r]
              /\ treeBak'[r] = treeBak[r] /\ markerBak'[r] = markerBak[r],
           pc' # "unmark" /\ pc' # "dropMarkerBackup"
              => \/ MarkerSettled(cur)'
                 \/ pc' = "remark" /\ markerBak'[cur][journal.owner] # None,
           pc' = "restoreTree" /\ treeBak'[cur][journal.owner] = None
              => TreeSettled(cur)',
           pc' = "dropStage" => TreeSettled(cur)'
    PROVE  RecoveryOK'
<1>1. \A r \in journal.roots \ todo : MarkerSettled(r)' /\ TreeSettled(r)'
  <2>1. SUFFICES ASSUME NEW r \in journal.roots \ todo
                 PROVE  MarkerSettled(r)' /\ TreeSettled(r)'
    OBVIOUS
  <2>2. MarkerSettled(r) /\ TreeSettled(r) /\ r # cur
    BY DEF RecoveryOK
  <2>3. journal \in Record
    BY DEF RecoveryOK, Walking, RollingBack, RollingForward, Recovering,
       TypeOK,
       JournalTypeOK
  <2>4. r \in Roots
    BY <2>3 DEF Record
  <2>. QED
    BY <2>2, <2>4 DEF MarkerSettled, TreeSettled
<1>2. journal # None
  BY DEF RecoveryOK, Walking, RollingBack, RollingForward, Recovering
<1>3. /\ journal.state = "Prepared" => manifest = journal.manifest
      /\ journal.state = "Prepared" => lock = journal.lock
      /\ todo \subseteq journal.roots
      /\ cur \in todo
  BY DEF RecoveryOK
<1>. QED
  BY <1>1, <1>2, <1>3 DEF RecoveryOK, Walking, Ending, RollingBack,
     RollingForward, Recovering

\* Replacing one entry of a table of tables.
LEMMA EntryReplaced ==
    ASSUME NEW S, NEW O, NEW T, NEW f \in [S -> [O -> T]],
           NEW s \in S, NEW o \in O, NEW x
    PROVE  [f EXCEPT ![s][o] = x][s][o] = x
OBVIOUS

\* One step of the recovery of a root settles what it says it settles.
LEMMA RecoveryRoot ==
    ASSUME TypeOK, OnDisk, RecoveryOK,
           \/ Unmark \/ Remark \/ ClearTree \/ RestorePriorTree
           \/ CommitMarker \/ CommitTree
    PROVE  RecoveryOK'
<1>1. /\ pc \in Walking \ {"pickRoot"} /\ pc' \in Walking \ {"pickRoot"}
      /\ pc' \in RollingBack => pc \in RollingBack
      /\ pc' \in RollingForward => pc \in RollingForward
  BY DEF Unmark, Remark, ClearTree, RestorePriorTree, CommitMarker, CommitTree,
     Walking, RollingBack, RollingForward
<1>2. /\ journal \in Record /\ Pending = journal /\ journal.owner \in Owners
      /\ cur \in Roots /\ cur \in journal.roots
      /\ pc \in RollingBack => journal.state = "Prepared"
      /\ pc \in RollingForward => journal.state = "Committed"
  BY <1>1 DEF TypeOK, JournalTypeOK, RecoveryOK, Recovering, Walking,
     RollingBack, RollingForward, Pending, Record
<1>3. UNCHANGED <<journal, manifest, lock, todo, cur>>
  BY DEF Unmark, Remark, ClearTree, RestorePriorTree, CommitMarker, CommitTree,
     journalVars, fileVars, walkVars
<1>4. /\ tree \in [Roots -> TreeFile] /\ marker \in [Roots -> MarkerFile]
      /\ treeBak \in [Roots -> [Owners -> TreeFile]]
      /\ markerBak \in [Roots -> [Owners -> MarkerFile]]
  BY DEF TypeOK, RootsTypeOK
<1>5. \A r \in Roots \ {cur} :
         /\ tree'[r] = tree[r] /\ marker'[r] = marker[r]
         /\ treeBak'[r] = treeBak[r] /\ markerBak'[r] = markerBak[r]
  BY <1>4 DEF Unmark, RemoveMarker, Remark, RestoreMarker, ClearTree,
     RemoveTree,
     RestorePriorTree, RestoreTree, CommitMarker, DropMarkerBackup, CommitTree,
     DropTreeBackup, rootVars
<1>6. RootHeld(cur)
  BY <1>2 DEF OnDisk
<1>7. CASE Unmark
  <2>1. pc' = "remark"
    BY <1>7 DEF Unmark
  <2>2. MarkerSettled(cur)' \/ markerBak'[cur][journal.owner] # None
    BY <1>2, <1>3, <1>4, <1>7 DEF Unmark, RemoveMarker, rootVars, MarkerSettled
  <2>. QED
    BY <1>1, <1>2, <1>3, <1>5, <2>1, <2>2, WalkFrame
<1>8. CASE Remark
  <2>1. pc = "remark" /\ pc' = "clearTree"
    BY <1>8 DEF Remark
  <2>2. MarkerSettled(cur)'
    <3>1. CASE markerBak[cur][journal.owner] # None
      <4>1. cur \in journal.hadMarker
        BY <1>1, <1>2, <1>6, <2>1, <3>1 DEF RootHeld, RollsBack, RecoveryOK,
           RollingBack, Recovering, SavedMarker
      <4>2. markerBak' = [markerBak EXCEPT ![cur][journal.owner] = None]
        BY <1>8, <3>1 DEF Remark, RestoreMarker
      <4>3. markerBak'[cur][journal.owner] = None
        <5>1. /\ markerBak \in [Roots -> [Owners -> MarkerFile]]
              /\ cur \in Roots /\ journal.owner \in Owners
          BY <1>2, <1>4
        <5>. QED
          BY <4>2, <5>1, EntryReplaced
      <4>. QED
        BY <1>3, <4>1, <4>3 DEF MarkerSettled
    <3>2. CASE markerBak[cur][journal.owner] = None
      BY <1>3, <1>8, <2>1, <3>2 DEF Remark, rootVars, RecoveryOK, MarkerSettled
    <3>. QED
      BY <3>1, <3>2
  <2>. QED
    BY <1>1, <1>2, <1>3, <1>5, <2>1, <2>2, WalkFrame
<1>9. CASE ClearTree
  <2>1. pc = "clearTree" /\ pc' \in {"clearTree", "restoreTree"}
    BY <1>9 DEF ClearTree
  <2>2. MarkerSettled(cur)'
    BY <1>3, <1>9, <2>1 DEF ClearTree, RemoveTree, rootVars, RecoveryOK,
       MarkerSettled
  <2>3. pc' = "restoreTree" /\ treeBak'[cur][journal.owner] = None
           => TreeSettled(cur)'
    BY <1>2, <1>3, <1>4, <1>9 DEF ClearTree, RemoveTree, rootVars, TreeSettled
  <2>. QED
    BY <1>1, <1>2, <1>3, <1>5, <2>1, <2>2, <2>3, WalkFrame
<1>10. CASE RestorePriorTree
  <2>1. pc = "restoreTree" /\ pc' = "dropStage"
    BY <1>10 DEF RestorePriorTree
  <2>2. MarkerSettled(cur)'
    BY <1>3, <1>10, <2>1 DEF RestorePriorTree, RestoreTree, rootVars,
       RecoveryOK, MarkerSettled
  <2>3. TreeSettled(cur)'
    <3>1. CASE treeBak[cur][journal.owner] # None
      <4>1. cur \in journal.hadTree
        BY <1>2, <1>6, <2>1, <3>1 DEF RootHeld, RollsBack, RecoveryOK,
           RollingBack, Recovering, SavedTree
      <4>2. treeBak' = [treeBak EXCEPT ![cur][journal.owner] = None]
        BY <1>10, <3>1 DEF RestorePriorTree, RestoreTree
      <4>3. treeBak'[cur][journal.owner] = None
        <5>1. /\ treeBak \in [Roots -> [Owners -> TreeFile]]
              /\ cur \in Roots /\ journal.owner \in Owners
          BY <1>2, <1>4
        <5>. QED
          BY <4>2, <5>1, EntryReplaced
      <4>. QED
        BY <1>3, <4>1, <4>3 DEF TreeSettled
    <3>2. CASE treeBak[cur][journal.owner] = None
      BY <1>3, <1>10, <2>1, <3>2 DEF RestorePriorTree, rootVars, RecoveryOK,
         TreeSettled
    <3>. QED
      BY <3>1, <3>2
  <2>. QED
    BY <1>1, <1>2, <1>3, <1>5, <2>1, <2>2, <2>3, WalkFrame
<1>11. CASE CommitMarker \/ CommitTree
  <2>1. /\ pc = "dropMarkerBackup" => CommitMarker
        /\ pc # "dropMarkerBackup" => pc = "dropTreeBackup" /\ CommitTree
        /\ pc' \in {"dropTreeBackup", "dropStage"}
        /\ pc \in RollingForward
    BY <1>11 DEF CommitMarker, CommitTree, RollingForward
  <2>2. MarkerSettled(cur)'
    <3>1. CASE CommitMarker
      BY <1>2, <1>3, <1>4, <2>1, <3>1 DEF CommitMarker, DropMarkerBackup,
         MarkerSettled
    <3>2. CASE CommitTree
      BY <1>3, <3>2 DEF CommitTree, DropTreeBackup, MarkerSettled, RecoveryOK
    <3>. QED
      BY <1>11, <3>1, <3>2
  <2>3. pc' = "dropStage" => TreeSettled(cur)'
    <3>1. SUFFICES ASSUME pc' = "dropStage" PROVE TreeSettled(cur)'
      OBVIOUS
    <3>2. treeBak' = [treeBak EXCEPT ![cur][journal.owner] = None]
      BY <2>1, <3>1 DEF CommitMarker, CommitTree, DropTreeBackup
    <3>3. treeBak'[cur][journal.owner] = None
      <4>1. /\ treeBak \in [Roots -> [Owners -> TreeFile]]
            /\ cur \in Roots /\ journal.owner \in Owners
        BY <1>2, <1>4
      <4>. QED
        BY <3>2, <4>1, EntryReplaced
    <3>4. journal.state = "Committed"
      BY <1>2, <2>1
    <3>. QED
      BY <1>3, <3>3, <3>4 DEF TreeSettled
  <2>. QED
    BY <1>1, <1>2, <1>3, <1>5, <2>1, <2>2, <2>3, WalkFrame
<1>. QED
  BY <1>7, <1>8, <1>9, <1>10, <1>11

Settling == Recovering \ {"readJournal"}

\* A step to a position outside recovery owes RecoveryOK nothing.
LEMMA NotSettling == ASSUME pc' \notin Settling PROVE RecoveryOK'
BY DEF RecoveryOK, Settling, Recovering, Walking, Ending, RollingBack,
       RollingForward

\* Nothing of the recovery moves.
LEMMA SameSettling ==
    ASSUME RecoveryOK,
           UNCHANGED <<tree, marker, treeBak, markerBak, journal, journalBak,
                       manifest, lock, todo, cur, pc>>
    PROVE  RecoveryOK'
BY ZenonT(60) DEF RecoveryOK, MarkerSettled, TreeSettled

\* Every step keeps the account of how far recovery has come.
LEMMA RecoveryStep ==
    ASSUME TypeOK, OnDisk, WriteOK, PositionOK, RecoveryOK, Next
    PROVE  RecoveryOK'
<1> USE DEF rootVars, journalVars, fileVars, walkVars
<1>1. CASE Recover
  <2>1. CASE \/ RestoreJournal \/ RecoverAlone \/ EndTransaction
             \/ DiscardLeftover \/ Exit
    BY <2>1, NotSettling DEF RestoreJournal, RecoverAlone, EndTransaction,
       DiscardLeftover, Exit, Forget, Settling, Recovering
  <2>2. CASE ReadJournal
    BY <2>2 DEF ReadJournal, RecoveryOK, Recovering, Walking, Ending,
       RollingBack, RollingForward
  <2>3. CASE RecoverStore
    <3>1. /\ journal \in Record /\ journal # None /\ todo' = journal.roots
          /\ UNCHANGED <<journal, manifest, lock, treeBak, markerBak, tree,
                         marker>>
      BY <2>3 DEF RecoverStore, RecoveryOK, Recovering, TypeOK, JournalTypeOK
    <3>2. pc' = IF journal.state = "Prepared" THEN "restoreManifest"
                ELSE "pickRoot"
      BY <2>3 DEF RecoverStore, Prepared
    <3>. QED
      BY <3>1, <3>2 DEF RecoveryOK, Recovering, Walking, Ending, RollingBack,
         RollingForward
  <2>4. CASE VacateManifest \/ RestoreManifest \/ RestoreLock
    BY <2>4 DEF VacateManifest, RestoreManifest, RestoreLock, RecoveryOK,
       Recovering, Walking, Ending, RollingBack, RollingForward
  <2>5. CASE PickRoot
    <3>1. /\ pc = "pickRoot" /\ cur' \in todo
          /\ pc' = IF journal.state = "Prepared" THEN "unmark"
                   ELSE "dropMarkerBackup"
          /\ UNCHANGED <<journal, manifest, lock, treeBak, markerBak, tree,
                         marker, todo>>
      BY <2>5 DEF PickRoot, Prepared
    <3>2. journal \in Record /\ journal # None
      BY <3>1 DEF RecoveryOK, Recovering, TypeOK, JournalTypeOK
    <3>3. \A r \in journal.roots \ todo : MarkerSettled(r)' /\ TreeSettled(r)'
      BY <3>1 DEF RecoveryOK, Walking, MarkerSettled, TreeSettled
    <3>. QED
      BY <3>1, <3>2, <3>3 DEF RecoveryOK, Recovering, Walking, Ending,
         RollingBack, RollingForward, Record
  <2>6. CASE DropStage
    <3>1. /\ pc = "dropStage" /\ todo' = todo \ {cur}
          /\ pc' = IF todo = {cur} THEN "removeBackupJournal" ELSE "pickRoot"
          /\ UNCHANGED <<journal, manifest, lock, treeBak, markerBak, tree,
                         marker, cur>>
      BY <2>6 DEF DropStage, RemoveStage
    <3>2. \A r \in journal.roots \ todo' : MarkerSettled(r)' /\ TreeSettled(r)'
      <4>1. SUFFICES ASSUME NEW r \in journal.roots \ todo'
                     PROVE  MarkerSettled(r)' /\ TreeSettled(r)'
        OBVIOUS
      <4>2. MarkerSettled(r) /\ TreeSettled(r)
        BY <3>1 DEF RecoveryOK, Walking
      <4>. QED
        BY <3>1, <4>2 DEF MarkerSettled, TreeSettled
    <3>. QED
      BY <3>1, <3>2 DEF RecoveryOK, Recovering, Walking, Ending, RollingBack,
         RollingForward
  <2>7. CASE RemoveBackupJournal
    <3>1. /\ pc = "removeBackupJournal" /\ pc' = "removeJournal"
          /\ journalBak' = None
          /\ UNCHANGED <<journal, manifest, lock, treeBak, markerBak, tree,
                         marker>>
      BY <2>7 DEF RemoveBackupJournal, DropJournalBackup
    <3>2. \A r \in journal.roots : MarkerSettled(r)' /\ TreeSettled(r)'
      BY <3>1 DEF RecoveryOK, Ending, MarkerSettled, TreeSettled
    <3>. QED
      BY <3>1, <3>2 DEF RecoveryOK, Recovering, Walking, Ending, RollingBack,
         RollingForward
  <2>. QED
    BY <1>1, <2>1, <2>2, <2>3, <2>4, <2>5, <2>6, <2>7, RecoveryRoot DEF Recover
<1>2. CASE Install
  <2>1. CASE DiscardLockBackup
    <3>1. /\ pc' = "pickRoot" /\ todo' = journal.roots /\ journal' = journal
          /\ journal # None /\ journal.state = "Committed"
      BY <2>1 DEF DiscardLockBackup, PositionOK
    <3>. QED
      BY <3>1 DEF RecoveryOK, Recovering, Walking, Ending, RollingBack,
         RollingForward
  <2>2. CASE \/ TruncateOwner \/ WriteOwner \/ CheckPlan \/ Begun \/ WriteTemp
             \/ VacateJournal \/ PublishRecord \/ WriteSync
             \/ TruncateManifest \/ WriteManifest \/ Prepare \/ RejectLock
    BY <2>2, NotSettling DEF TruncateOwner, WriteOwner, CheckPlan, WriteRecord,
       Begun, WriteTemp, VacateJournal, PublishRecord, WriteSync,
       TruncateManifest, WriteManifest, Prepare, RejectLock, Settling,
       Recovering, TypeOK
  <2>3. CASE \/ RecordMembers \/ RecordStore \/ Publish \/ PublishTrees
             \/ UseStore \/ BackUpLock \/ PlaceLock \/ Stage \/ Activate
             \/ MoveMarkerAside \/ MoveTreeAside \/ MoveStage \/ MarkTree
             \/ Unstage \/ MarkCommitted \/ CommitStore
    BY <2>3, NotSettling DEF RecordMembers, WriteRecord, RecordStore, Publish,
       PublishTrees, UseStore, BackUpLock, PlaceLock, Stage, Activate,
       MoveMarkerAside, MoveTreeAside, MoveStage, MarkTree, Unstage,
       MarkCommitted, CommitStore, Settling, Recovering
  <2>. QED
    BY <1>2, <2>1, <2>2, <2>3 DEF Install
<1>3. CASE Unwind
  BY <1>3, NotSettling DEF Unwind, UndoDestination, UndoTree, UndoMarker,
     RollbackLock, RollbackStore, Fail, JournalDisappeared, GiveUp, Settling,
     Recovering
<1>4. CASE Break
  BY <1>4, NotSettling DEF Break, Error, ErrorInSwap, ErrorInPublish,
     ErrorInActivation, RecoveryError, ErrorAfterEnd, Crash, Forget, GiveUp,
     Settling, Recovering
<1>5. CASE Environment
  <2>1. CASE UserEdit
    BY <2>1, NotSettling DEF UserEdit, Settling, Recovering
  <2>2. CASE OtherRecoversStore \/ OthersUseStore
    BY <2>2, SameSettling DEF OtherRecoversStore, OthersUseStore
  <2>. QED
    BY <1>5, <2>1, <2>2 DEF Environment
<1>6. CASE \E w \in Waiting : Plan(w) \/ Busy(w) \/ Acquire(w)
  <2>1. PICK w \in Waiting : Plan(w) \/ Busy(w) \/ Acquire(w)
    BY <1>6
  <2>2. CASE Acquire(w)
    BY <2>2, NotSettling DEF Acquire, Settling
  <2>3. CASE Plan(w) \/ Busy(w)
    BY <2>3, SameSettling DEF Plan, Busy
  <2>. QED
    BY <2>1, <2>2, <2>3
<1>. QED
  BY <1>1, <1>2, <1>3, <1>4, <1>5, <1>6 DEF Next
=============================================================================
