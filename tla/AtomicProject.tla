--------------------------- MODULE AtomicProject ---------------------------
(***************************************************************************)
(* What the install transaction promises (README.md of the repository:     *)
(* "Lifecycle mutations are all-or-nothing across the manifest, lockfile,  *)
(* verified store, and managed node_modules activation"): the project      *)
(* changes only when a user edits package.json, or by one step that        *)
(* replaces manifest, lock and every tree together.                        *)
(***************************************************************************)
CONSTANTS Roots, Versions, None, Managed, MarkerFile

VARIABLE project    \* manifest, lock, and the tree and marker of every root

Init ==
    project \in [manifest : Versions, lock : Versions \cup {None},
                 tree : [Roots -> Versions \cup {None}],
                 marker : [Roots -> MarkerFile]]

\* Every tree that is replaced was Tapid's own.
Owned == \A r \in Roots : \/ project.marker[r] = Managed
                          \/ project.marker[r] = None /\ project.tree[r] = None

Install(v) ==
    /\ Owned
    /\ project' = [manifest |-> v, lock |-> v,
                   tree |-> [r \in Roots |-> v],
                   marker |-> [r \in Roots |-> Managed]]

EditManifest(v) == project' = [project EXCEPT !.manifest = v]

Next == \E v \in Versions : Install(v) \/ EditManifest(v)

Spec == Init /\ [][Next]_project
=============================================================================
