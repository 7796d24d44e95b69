-------------------------------- MODULE Layout --------------------------------
(***************************************************************************)
(* From a resolved graph to a staged node_modules: where each package goes  *)
(* (crates/tapid-linker/src/layout.rs, workspace.rs), which commands it     *)
(* puts in .bin (shims.rs) and the copy of the verified trees into the      *)
(* stage (crates/tapid-cli/src/filesystem/tree.rs).                         *)
(*                                                                          *)
(* A path is the sequence of local names from node_modules down: <<"a",     *)
(* "b">> is node_modules/a/node_modules/b.  An instance is a name with a    *)
(* version.  A package finds an import in the node_modules of its own       *)
(* directory, then of each one above: what Node does.                       *)
(***************************************************************************)
EXTENDS Naturals, Sequences, FiniteSets, FiniteSetsExt, SequencesExt

CONSTANTS Rank,   \* local name -> its place in the order of names
          Graphs, \* [roots, children, members, bins]: the inputs of the planner
          Outputs \* platform -> command -> the files a shim of it takes

VARIABLES
  graph, platform,
  owned,     \* the trees are private verified copies
  at,        \* plan, resolve, copy, shims, done, failed
  placed,    \* path -> instance
  pending,   \* imports still to be resolved: [name, child, from, lineage]
  reachable, \* instances some import or root has reached
  changed,   \* trees somebody wrote to
  staged,    \* path -> the copied tree: [inst, clean]
  bins       \* the shims written: [dir, file, to]

planning == <<placed, pending, reachable>>
vars == <<graph, platform, owned, at, planning, changed, staged, bins>>

NothingPlaced == [p \in {} |-> <<>>]
Instances(g) == DOMAIN g.children

Init ==
  /\ graph \in Graphs /\ platform \in {"unix", "windows", "other"} /\ owned \in BOOLEAN
  /\ at = "plan" /\ placed = NothingPlaced /\ pending = <<>> /\ reachable = {}
  /\ changed = {} /\ staged = NothingPlaced /\ bins = {}

----------------------------------------------------------------------------
\* Dependencies in the order of local names, then of the instances.
Before(d, e) ==
  \/ Rank[d[1]] < Rank[e[1]]
  \/ d[1] = e[1] /\ Rank[d[2][1]] < Rank[e[2][1]]
  \/ d[1] = e[1] /\ d[2][1] = e[2][1] /\ d[2][2] < e[2][2]
InOrder(ds) == SetToSortSeq(ds, Before)

LookupNames == {d[1] : d \in UNION {graph.children[i] : i \in Instances(graph)}}

\* The search for a name from a directory: the depths at which it is taken.
Target(path, depth, name) == Append(SubSeq(path, 1, depth), name)
TakenAt(places, path, name) ==
  {i \in 0 .. Len(path) : Target(path, i, name) \in DOMAIN places}
Found(places, path, name) ==
  LET taken == TakenAt(places, path, name)
  IN IF taken = {} THEN {} ELSE {places[Target(path, Max(taken), name)]}

Imports(child, path, lineage) ==
  [i \in DOMAIN InOrder(graph.children[child]) |->
     [name |-> InOrder(graph.children[child])[i][1],
      child |-> InOrder(graph.children[child])[i][2], from |-> path, lineage |-> lineage]]

----------------------------------------------------------------------------
\* plan_workspace_layout and the roots of plan_named_layout_inner: a root may
\* take no local name of a member, nor one of another root.
RootsConflict ==
  \/ \E d \in graph.roots : d[1] \in DOMAIN graph.members
  \/ \E d, e \in graph.roots : d[1] = e[1] /\ d[2] # e[2]

PlaceRoots ==
  /\ at = "plan" /\ placed = NothingPlaced
  /\ IF platform = "other" \/ RootsConflict
     THEN at' = "failed" /\ UNCHANGED planning
     ELSE /\ at' = "resolve"
          /\ placed' = [p \in {<<d[1]>> : d \in graph.roots} |->
                          (CHOOSE d \in graph.roots : <<d[1]>> = p)[2]]
          /\ reachable' = {d[2] : d \in graph.roots}
          /\ pending' = FlattenSeq([i \in DOMAIN InOrder(graph.roots) |->
               Imports(InOrder(graph.roots)[i][2], <<InOrder(graph.roots)[i][1]>>, {})])
  /\ UNCHANGED <<graph, platform, owned, changed, staged, bins>>

\* The outermost directory in which the import hides nothing it can see.
FirstFree(taken) == IF taken = {} THEN 0 ELSE Max(taken) + 1

Repeats(item, state) == state \in item.lineage

\* One import: it resolves already, or its package is placed and the imports
\* of that copy are queued, or the layout is refused.
ResolveImport ==
  LET item == Head(pending)
      taken == TakenAt(placed, item.from, item.name)
                 \cup (IF item.name \in DOMAIN graph.members THEN {0} ELSE {})
      resolves == Found(placed, item.from, item.name) = {item.child}
                    /\ Target(item.from, Max(taken), item.name) \in DOMAIN placed
      depth == FirstFree(taken)
      target == Target(item.from, depth, item.name)
      now == [p \in DOMAIN placed \cup {target} |->
                IF p = target THEN item.child ELSE placed[p]]
      state == <<item.child, [n \in LookupNames |-> Found(now, target, n)]>>
      sees(d) == Found(now, target, d[1]) = {d[2]}
  IN /\ at = "resolve" /\ pending # <<>>
     /\ IF resolves
        THEN /\ reachable' = reachable \cup {item.child} /\ pending' = Tail(pending)
             /\ UNCHANGED <<at, placed>>
        ELSE IF depth > Len(item.from)
        THEN at' = "failed" /\ UNCHANGED planning
        ELSE /\ placed' = now /\ reachable' = reachable \cup {item.child}
             /\ IF Repeats(item, state)
                THEN /\ pending' = Tail(pending)
                     /\ at' = IF \A d \in graph.children[item.child] : sees(d)
                              THEN at ELSE "failed"
                ELSE /\ pending' = Tail(pending)
                          \o Imports(item.child, target, item.lineage \cup {state})
                     /\ UNCHANGED at
     /\ UNCHANGED <<graph, platform, owned, changed, staged, bins>>

\* A parent no root reaches is refused; materialize_stage digests the trees
\* it does not own.
Unreachable == {i \in Instances(graph) : graph.children[i] # {}} \ reachable
SourcesHold == owned \/ Instances(graph) \cap changed = {}

Planned ==
  /\ at = "resolve" /\ pending = <<>>
  /\ at' = IF Unreachable = {} /\ SourcesHold THEN "copy" ELSE "failed"
  /\ UNCHANGED <<graph, platform, owned, planning, changed, staged, bins>>

----------------------------------------------------------------------------
\* The steps are taken in the order of their targets: a directory before what
\* is inside it.
PathBefore(p, q) ==
  \/ Len(p) < Len(q) /\ SubSeq(q, 1, Len(p)) = p
  \/ \E i \in 1 .. Min({Len(p), Len(q)}) :
       SubSeq(p, 1, i - 1) = SubSeq(q, 1, i - 1) /\ Rank[p[i]] < Rank[q[i]]

\* copy_tree: the destination must be new.
Snapshot(p) == [inst |-> placed[p], clean |-> placed[p] \notin changed]

Copy ==
  LET left == DOMAIN placed \ DOMAIN staged
      next == CHOOSE p \in left : \A q \in left \ {p} : PathBefore(p, q)
  IN /\ at = "copy" /\ left # {}
     /\ staged' = [p \in DOMAIN staged \cup {next} |->
                     IF p = next THEN Snapshot(p) ELSE staged[p]]
     /\ UNCHANGED <<graph, platform, owned, at, planning, changed, bins>>

\* A tree of the store may change under the copy.
TreeChanges ==
  /\ at \in {"plan", "resolve", "copy"} /\ changed = {}
  /\ \E i \in Instances(graph) : changed' = {i}
  /\ UNCHANGED <<graph, platform, owned, at, planning, staged, bins>>

\* Mutant: the trees are digested before the copy only.
Verify_Trusting == at = "copy" /\ DOMAIN staged = DOMAIN placed /\ at' = "shims"
                   /\ UNCHANGED <<graph, platform, owned, planning, changed, staged, bins>>

\* Each tree is digested again after it was copied.
Verify ==
  /\ at = "copy" /\ DOMAIN staged = DOMAIN placed
  /\ at' = IF Instances(graph) \cap changed = {} THEN "shims" ELSE "failed"
  /\ UNCHANGED <<graph, platform, owned, planning, changed, staged, bins>>

\* plan_shims: a target that is missing has no shim, one that is no regular
\* file is refused, on Windows also one for an interpreter that is not Node
\* (shim_interpreter), and so are two shims that take the same file.  A
\* member's command goes to the root, through its link.
Shims ==
  {[dir |-> Front(p), command |-> b.command, is |-> b.is, to |-> <<p, b.command>>] :
     <<p, b>> \in {x \in (DOMAIN placed) \X UNION {graph.bins[i] : i \in Instances(graph)} :
                     x[2] \in graph.bins[placed[x[1]]] /\ x[2].is # "missing"}}
  \cup
  {[dir |-> <<>>, command |-> b.command, is |-> b.is, to |-> <<<<m>>, b.command>>] :
     <<m, b>> \in {x \in (DOMAIN graph.members) \X UNION {graph.members[m] : m \in DOMAIN graph.members} :
                     x[2] \in graph.members[x[1]] /\ x[2].is # "missing"}}

Collide(s, t) ==
  s.dir = t.dir /\ Outputs[platform][s.command] \cap Outputs[platform][t.command] # {}

ShimsHold ==
  /\ \A s \in Shims : s.is # "other" /\ (platform = "windows" => s.is # "script")
  /\ platform = "unix" => \A m \in DOMAIN graph.members : \A b \in graph.members[m] : b.is # "plain"
  /\ \A s, t \in Shims : s # t => ~Collide(s, t)

\* materialize_workspace_links, validate_workspace_links: a member may have
\* moved out of the project, or lost its package.json, meanwhile.
LinksMayFail == DOMAIN graph.members # {}

\* materialize_package_shims, then the links of the members and their check.
Link ==
  /\ at = "shims"
  /\ \/ /\ ShimsHold /\ at' = "done"
        /\ bins' = UNION {{[dir |-> s.dir, file |-> f, to |-> s.to] :
                             f \in Outputs[platform][s.command]} : s \in Shims}
     \/ at' = "failed" /\ UNCHANGED bins /\ (~ShimsHold \/ LinksMayFail)
  /\ UNCHANGED <<graph, platform, owned, planning, changed, staged>>

Next == PlaceRoots \/ ResolveImport \/ Planned \/ Copy \/ TreeChanges \/ Verify \/ Link

Spec == Init /\ [][Next]_vars

----------------------------------------------------------------------------
\* In a finished stage each package finds, under the name it imports, the
\* very instance the lock gives it, wherever its copy was placed.
EveryImportResolves ==
  at \in {"copy", "shims", "done"} =>
    \A p \in DOMAIN placed : \A d \in graph.children[placed[p]] :
      Found(placed, p, d[1]) = {d[2]}

\* What is staged is the verified bytes, although trees may change meanwhile.
StagedTreesAreVerified ==
  at \in {"shims", "done"} => \A p \in DOMAIN staged : staged[p] = [inst |-> placed[p], clean |-> TRUE]

\* Nesting ends: no graph, however its aliases cross, is copied into itself
\* without end.
NestingIsBounded ==
  \A p \in DOMAIN placed : Len(p) <= 2 * Cardinality(Instances(graph))

\* No command silently replaces another one in the same .bin.
CommandsAreUnambiguous ==
  \A b, c \in bins : b.dir = c.dir /\ b.file = c.file => b.to = c.to

\* A finished stage holds verified trees only, in finitely many places, and
\* every command of its .bin directories is unambiguous.
StageIsSound == StagedTreesAreVerified /\ NestingIsBounded /\ CommandsAreUnambiguous
=============================================================================
