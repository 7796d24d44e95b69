--------------------------- MODULE ProjectRoots ---------------------------
(***************************************************************************)
(* The files of filesystem/activation.rs.  A root is a directory that owns *)
(* a managed node_modules tree: the project root, and every workspace      *)
(* member.  Each definition below is one rename or removal that activation *)
(* or its recovery performs in a root r on behalf of the activation owner  *)
(* o (the nonce of the process that holds .tapid-activation.lock).         *)
(*                                                                         *)
(* A tree is abstracted to the manifest version it was installed for; Torn *)
(* is a tree that a recursive removal has begun to delete.                 *)
(***************************************************************************)
CONSTANTS
    Root,       \* the project root
    Members,    \* the workspace members
    Owners,     \* activation owners (nonces)
    Versions,   \* contents of package.json, and what is installed for them
    None,       \* an absent file
    Torn        \* a file or tree that is only partly written or removed

Roots == Members \cup {Root}

\* Contents of .tapid-managed: the expected bytes, or any other.
Managed == "managed"
Alien == "alien"

ASSUME RootsAssumption ==
    /\ Root \notin Members
    /\ None \notin Versions
    /\ None \notin Owners
    /\ Torn \notin Versions
    /\ None # Torn
    /\ None \notin {Managed, Alien}

VARIABLES
    tree,       \* tree[r]: r/node_modules
    marker,     \* marker[r]: r/.tapid-managed
    treeBak,    \* treeBak[r][o]: r/.tapid-node-modules-old-o
    markerBak,  \* markerBak[r][o]: r/.tapid-managed-old-o
    stage       \* stage[r]: owners with a directory r/.tapid-install-stage-o-n

rootVars == <<tree, marker, treeBak, markerBak, stage>>

TreeFile == Versions \cup {None, Torn}
MarkerFile == {None, Managed, Alien}

RootsTypeOK ==
    /\ tree \in [Roots -> TreeFile]
    /\ marker \in [Roots -> MarkerFile]
    /\ treeBak \in [Roots -> [Owners -> TreeFile]]
    /\ markerBak \in [Roots -> [Owners -> MarkerFile]]
    /\ stage \in [Roots -> SUBSET Owners]

\* Projects a user can start from: any tree, marked by Tapid or not.
RootsInit ==
    /\ tree \in [Roots -> Versions \cup {None}]
    /\ marker \in [Roots -> MarkerFile]
    /\ treeBak = [r \in Roots |-> [o \in Owners |-> None]]
    /\ markerBak = [r \in Roots |-> [o \in Owners |-> None]]
    /\ stage = [r \in Roots |-> {}]

\* validate_managed_node_modules: a tree needs the expected marker, and a
\* marker must hold the expected bytes.
Replaceable(t, m) == m = Managed \/ (m = None /\ t = None)

-----------------------------------------------------------------------------
(* Activation *)

CreateStage(r, o) ==
    /\ stage' = [stage EXCEPT ![r] = @ \cup {o}]
    /\ UNCHANGED <<tree, marker, treeBak, markerBak>>

BackUpMarker(r, o) ==
    /\ markerBak' = [markerBak EXCEPT ![r][o] = marker[r]]
    /\ marker' = [marker EXCEPT ![r] = None]
    /\ UNCHANGED <<tree, treeBak, stage>>

BackUpTree(r, o) ==
    /\ treeBak' = [treeBak EXCEPT ![r][o] = tree[r]]
    /\ tree' = [tree EXCEPT ![r] = None]
    /\ UNCHANGED <<marker, markerBak, stage>>

MoveStageIn(r, v) ==
    /\ tree' = [tree EXCEPT ![r] = v]
    /\ UNCHANGED <<marker, treeBak, markerBak, stage>>

WriteMarker(r) ==
    /\ marker' = [marker EXCEPT ![r] = Managed]
    /\ UNCHANGED <<tree, treeBak, markerBak, stage>>

\* Best-effort removal of every stage of the transaction: S are the roots
\* where the removal succeeds.
RemoveStages(S, o) ==
    /\ stage' = [r \in Roots |-> IF r \in S THEN stage[r] \ {o} ELSE stage[r]]
    /\ UNCHANGED <<tree, marker, treeBak, markerBak>>

-----------------------------------------------------------------------------
(* Undoing an activation, and settling one after a crash *)

\* fs::remove_dir_all of node_modules: complete, or stopped half way.
RemoveTree(r, left) ==
    /\ left \in {None, Torn}
    /\ tree' = [tree EXCEPT ![r] = left]
    /\ UNCHANGED <<marker, treeBak, markerBak, stage>>

RestoreTree(r, o) ==
    /\ tree' = [tree EXCEPT ![r] = treeBak[r][o]]
    /\ treeBak' = [treeBak EXCEPT ![r][o] = None]
    /\ UNCHANGED <<marker, markerBak, stage>>

RemoveMarker(r) ==
    /\ marker' = [marker EXCEPT ![r] = None]
    /\ UNCHANGED <<tree, treeBak, markerBak, stage>>

RestoreMarker(r, o) ==
    /\ marker' = [marker EXCEPT ![r] = markerBak[r][o]]
    /\ markerBak' = [markerBak EXCEPT ![r][o] = None]
    /\ UNCHANGED <<tree, treeBak, stage>>

DropMarkerBackup(r, o) ==
    /\ markerBak' = [markerBak EXCEPT ![r][o] = None]
    /\ UNCHANGED <<tree, marker, treeBak, stage>>

DropTreeBackup(r, o, left) ==
    /\ left \in {None, Torn}
    /\ treeBak' = [treeBak EXCEPT ![r][o] = left]
    /\ UNCHANGED <<tree, marker, markerBak, stage>>

\* recover_owned_stages removes exactly the stages of owner o.
RemoveStage(r, o) ==
    /\ stage' = [stage EXCEPT ![r] = @ \ {o}]
    /\ UNCHANGED <<tree, marker, treeBak, markerBak>>

\* recover_uncoordinated_activation followed by recover_owned_stages: no
\* journal names a decision, so what is in place wins over its backup.
RecoverUncoordinated(r, o) ==
    /\ markerBak[r][o] \in {None, Managed}
    /\ marker' = IF marker[r] = None
                 THEN [marker EXCEPT ![r] = markerBak[r][o]] ELSE marker
    /\ markerBak' = [markerBak EXCEPT ![r][o] = None]
    /\ tree' = IF tree[r] = None
               THEN [tree EXCEPT ![r] = treeBak[r][o]] ELSE tree
    /\ treeBak' = [treeBak EXCEPT ![r][o] = None]
    /\ stage' = [stage EXCEPT ![r] = @ \ {o}]
=============================================================================
