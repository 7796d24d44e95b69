------------------------------ MODULE NpmImport ------------------------------
(***************************************************************************)
(* Importing an npm lock and installing what it selects                     *)
(* (tapid-lockfile/src/npm_import.rs, npm_import/parse.rs and workspace.rs, *)
(* commands/npm_import.rs, online/npm_import.rs).                           *)
(*                                                                          *)
(* An npm lock says where every package lies; Tapid keeps instances, and    *)
(* an instance stands for every placement of the same package in the same   *)
(* peer context.  A placement is a member ("" for the root) and the names   *)
(* from its node_modules inwards.  A requirement is the package it asks for *)
(* and the versions it admits; an archive is known by its integrity, and a  *)
(* tree by the archive it was extracted from.  JSON and its field checks    *)
(* are left out.                                                            *)
(***************************************************************************)
EXTENDS Naturals, Sequences, FiniteSets, SequencesExt, TLC

CONSTANTS
  NpmLocks,     \* the package-lock.json files there may be, by a name
  Platforms,    \* the hosts an install may run on
  MaxChanges,   \* changes around the commands
  MaxCommands

VARIABLES
  npm,          \* package-lock.json
  manifests,    \* package.json files: the npm lock whose entries they state,
                \* and a text number for the root ("") and each member
  origins,      \* tapid.toml: the registry each name is routed to
  host,         \* the platform
  served,       \* whether the registry serves the pinned archives
  lock,         \* tapid.lock, an imported one or none
  store,        \* published trees
  cmd,          \* an import between its checks and its publication
  last,         \* how the last command ended
  ready,        \* the trees of the lock are there for this host
  changes, commands

vars == <<npm, manifests, origins, host, served, lock, store, cmd, last,
          ready, changes, commands>>

NoMap == [x \in {} |-> x]
NoLock == [digests |-> NoMap]
Idle == [at |-> "idle"]
Image(f) == {f[x] : x \in DOMAIN f}
Over(f, g) == [x \in DOMAIN f \cup DOMAIN g |-> IF x \in DOMAIN g THEN g[x] ELSE f[x]]
Only(f, S) == [x \in DOMAIN f \cap S |-> f[x]]

----------------------------------------------------------------------------
\* lookup: from a directory outwards, through the names of a placement, then
\* from the member to the root.
At(member, names) == <<member, names>>
Outwards(dir) ==
  [i \in 1..(Len(dir[2]) + 1) |-> At(dir[1], SubSeq(dir[2], 1, Len(dir[2]) + 1 - i))]
    \o (IF dir[1] = "" THEN <<>> ELSE <<At("", <<>>)>>)

\* A peer is looked up beside the package, not below it.
Beside(dir) == IF dir[2] = <<>> THEN dir ELSE At(dir[1], Front(dir[2]))

Lookup(placed, dir, name, peer) ==
  LET dirs == Outwards(IF peer THEN Beside(dir) ELSE dir)
      found == {i \in DOMAIN dirs : At(dirs[i][1], Append(dirs[i][2], name)) \in placed}
  IN IF found = {} THEN {}
     ELSE LET i == CHOOSE j \in found : \A k \in found : j <= k
          IN {At(dirs[i][1], Append(dirs[i][2], name))}

Meets(requirement, p) == p.name = requirement.name /\ p.version \in requirement.versions

\* edge: nothing for an optional requirement that is not placed.
EdgeHolds(packages, dir, name, requirement, peer, optional) ==
  LET target == Lookup(DOMAIN packages, dir, name, peer)
  IN /\ target = {} => optional
     /\ \A t \in target : Meets(requirement, packages[t])

Targets(packages, dir, requirements, peer) ==
  LET found(n) == Lookup(DOMAIN packages, dir, n, peer)
  IN [n \in {m \in DOMAIN requirements : found(m) # {}} |-> CHOOSE t \in found(n) : TRUE]

----------------------------------------------------------------------------
\* graph: the edges of a placed package, and what makes them acceptable.
Placed(x) == DOMAIN x.packages \cup DOMAIN x.links

PackageEdges(x, path) ==
  LET p == x.packages[path]
  IN [dependencies |-> Targets(x.packages, path, Over(p.deps, p.opts), FALSE),
      peers |-> Targets(x.packages, path, p.peers, TRUE)]

PackageHolds(x, path) ==
  LET p == x.packages[path]
      e == PackageEdges(x, path)
      all == Over(p.deps, p.opts)
      local(n, peer) == Lookup(Placed(x), path, n, peer) \cap DOMAIN x.links # {}
  IN /\ \A n \in DOMAIN all :
          /\ ~local(n, FALSE)
          /\ EdgeHolds(x.packages, path, n, all[n], FALSE, n \in DOMAIN p.opts)
     /\ \A n \in DOMAIN p.peers :
          /\ ~local(n, TRUE)
          /\ EdgeHolds(x.packages, path, n, p.peers[n], TRUE, n \in p.optpeers)
     /\ \A n \in DOMAIN e.dependencies \cap DOMAIN e.peers : e.dependencies[n] = e.peers[n]

\* entry_roots: a manifest's own dependencies.  What lies at a link is the
\* member; the sections that remain select registry packages, an optional one
\* over the others.
AtLink(x, dir, n, peer) ==
  LET found == Lookup(Placed(x), dir, n, peer)
  IN {x.links[t] : t \in found \cap DOMAIN x.links}

LocalHolds(x, dir, section, peer) ==
  \A n \in DOMAIN section : \A m \in AtLink(x, dir, n, peer) :
    section[n].name = n /\ x.members[m].version \in section[n].versions

Remote(x, dir, section, peer) ==
  Only(section, {n \in DOMAIN section : AtLink(x, dir, n, peer) = {}})

EntryHolds(x, dir, e) ==
  LET deps == Remote(x, dir, e.deps, FALSE)
      devs == Remote(x, dir, e.devs, FALSE)
      opts == Remote(x, dir, e.opts, FALSE)
      peers == Remote(x, dir, e.peers, TRUE)
      all == Over(Over(deps, devs), opts)
  IN /\ LocalHolds(x, dir, Only(e.deps, DOMAIN e.deps \ DOMAIN e.opts), FALSE)
     /\ LocalHolds(x, dir, e.devs, FALSE) /\ LocalHolds(x, dir, e.opts, FALSE)
     /\ LocalHolds(x, dir, e.peers, TRUE)
     /\ e.optpeers \subseteq DOMAIN e.peers
     /\ \A n \in DOMAIN deps \cap DOMAIN devs :
          \E t \in Lookup(DOMAIN x.packages, dir, n, FALSE) :
            Meets(deps[n], x.packages[t]) /\ Meets(devs[n], x.packages[t])
     /\ \A n \in DOMAIN all :
          EdgeHolds(x.packages, dir, n, all[n], FALSE, n \in DOMAIN opts)
     /\ \A n \in DOMAIN peers :
          EdgeHolds(x.packages, dir, n, peers[n], TRUE, n \in e.optpeers)

EntryRoots(x, dir, e) ==
  LET opts == Remote(x, dir, e.opts, FALSE)
      all == Over(Over(Remote(x, dir, e.deps, FALSE), Remote(x, dir, e.devs, FALSE)), opts)
      direct == Targets(x.packages, dir, all, FALSE)
      peers == Targets(x.packages, dir, Remote(x, dir, e.peers, TRUE), TRUE)
  IN [dependencies |-> Over(peers, direct),
      optional |-> DOMAIN opts \cup ((DOMAIN peers \cap e.optpeers) \ DOMAIN direct)]

\* What members share at the root joins the root's own entry points, and is
\* optional only as long as nobody requires it.
Hoisted(points) ==
  {n \in DOMAIN points.dependencies : points.dependencies[n] = At("", <<n>>)}

Roots(own, members) ==
  LET shared == UNION {Hoisted(m) : m \in members}
  IN [dependencies |-> Over([n \in shared |-> At("", <<n>>)], own.dependencies),
      optional |->
        {n \in own.optional \cup shared :
           /\ n \in own.optional \/ n \notin DOMAIN own.dependencies
           /\ \A m \in members : n \in Hoisted(m) => n \in m.optional}]

\* The graph an import keeps: each placed package with its edges, and the entry
\* points of the root and of each member.
Entry(x, m) == IF m = "" THEN x.root ELSE x.members[m]
Merged(points) ==
  [m \in DOMAIN points |->
     IF m = "" THEN Roots(points[""], {points[n] : n \in DOMAIN points \ {""}}) ELSE points[m]]

Graph(x) ==
  [packages |-> [p \in DOMAIN x.packages |-> PackageEdges(x, p) @@ x.packages[p]],
   points |-> Merged([m \in {""} \cup DOMAIN x.members |->
                        EntryRoots(x, At(m, <<>>), Entry(x, m))]),
   links |-> x.links]

----------------------------------------------------------------------------
\* validate_representable: one instance per key, whatever its placement.
PeerContext(g, p) == [n \in DOMAIN p.peers |-> g.packages[p.peers[n]].version]

KeyOf(g, p, platform) ==
  [registry |-> p.registry, name |-> p.name, version |-> p.version,
   peers |-> PeerContext(g, p), platform |-> platform]

AllEdges(p) == Over(p.dependencies, p.peers)

\* Mutant: the signature of an instance leaves its edges out.
Signature_NoEdges(p, keys) == <<p.integrity, {}, p.platforms, DOMAIN p.opts, p.optpeers>>

Signature(p, keys) ==
  <<p.integrity, {<<n, keys[AllEdges(p)[n]]>> : n \in DOMAIN AllEdges(p)}, p.platforms,
    DOMAIN p.opts, p.optpeers>>

Reach(g, starts) ==
  LET grow[S \in SUBSET DOMAIN g.packages] ==
        LET more == S \cup UNION {Image(AllEdges(g.packages[p])) : p \in S}
        IN IF more = S THEN S ELSE grow[more]
  IN grow[starts]

Representable(g, keys) ==
  /\ DOMAIN g.packages = Reach(g, UNION {Image(points.dependencies) : points \in Image(g.points)})
  /\ \A p, q \in DOMAIN g.packages :
       LET a == g.packages[p]
           b == g.packages[q]
       IN /\ <<a.registry, a.name, a.version>> = <<b.registry, b.name, b.version>>
               => a.integrity = b.integrity
          /\ q \in Image(a.peers) => a.registry = b.registry
          /\ q \in Image(AllEdges(a)) => keys[p] # keys[q]
          /\ keys[p] = keys[q] => Signature(a, keys) = Signature(b, keys)

\* members and the link checks of graph: a link lies in the node_modules of the
\* root or of a member, under the member's name, and names are not shared.
LinksHold(x) ==
  /\ \A at \in DOMAIN x.links :
       /\ Len(at[2]) = 1 /\ (at[1] = "" \/ at[1] \in DOMAIN x.members)
       /\ x.links[at] \in DOMAIN x.members
       /\ at[2][1] = x.members[x.links[at]].name
  /\ DOMAIN x.members = Image(x.links)
  /\ \A m, n \in DOMAIN x.members : x.members[m].name = x.members[n].name => m = n

GraphHolds(x, g) ==
  /\ LinksHold(x)
  /\ \A p \in DOMAIN x.packages :
       x.packages[p].optpeers \subseteq DOMAIN x.packages[p].peers /\ PackageHolds(x, p)
  /\ \A m \in {""} \cup DOMAIN x.members : EntryHolds(x, At(m, <<>>), Entry(x, m))
  /\ Representable(g, [p \in DOMAIN g.packages |-> KeyOf(g, g.packages[p], "any")])

----------------------------------------------------------------------------
\* selected_paths: incompatible optional edges are skipped, required ones fail.
Compatible(p) == host \in p.platforms

Starts(g) ==
  UNION {{<<points.dependencies[n], n \in points.optional>> : n \in DOMAIN points.dependencies}
           : points \in Image(g.points)}

Follow(p) ==
  {<<p.dependencies[n], n \in DOMAIN p.opts>> : n \in DOMAIN p.dependencies}
    \cup {<<p.peers[n], n \in p.optpeers>> : n \in DOMAIN p.peers}

Visited(g) ==
  LET grow[S \in SUBSET ((DOMAIN g.packages) \X BOOLEAN)] ==
        LET more == S \cup UNION {Follow(g.packages[v[1]]) :
                                    v \in {w \in S : Compatible(g.packages[w[1]])}}
        IN IF more = S THEN S ELSE grow[more]
  IN grow[Starts(g)]

Selectable(g, visited) == \A v \in visited : Compatible(g.packages[v[1]]) \/ v[2]
SelectedPaths(g, visited) == {v[1] : v \in {w \in visited : Compatible(g.packages[w[1]])}}

----------------------------------------------------------------------------
\* What fetch_imported prepares: one instance per key, with the edges of the
\* first placement that has the key.
InstanceKeys(g) ==
  [p \in DOMAIN g.packages |->
     KeyOf(g, g.packages[p], IF g.packages[p].platforms = Platforms THEN "any" ELSE host)]

Bind(keys, selected, targets) ==
  [n \in {m \in DOMAIN targets : targets[m] \in selected} |-> keys[targets[n]]]

Instances(g, keys, selected) ==
  LET first(k) == CHOOSE p \in selected : keys[p] = k
  IN [k \in {keys[p] : p \in selected} |-> Bind(keys, selected, AllEdges(g.packages[first(k)]))]

\* A member has its own tree when something it uses is not shared at the root.
OwnTree(g, selected, m) ==
  \/ \E n \in DOMAIN g.points[m].dependencies \ Hoisted(g.points[m]) :
       g.points[m].dependencies[n] \in selected
  \/ \E at \in DOMAIN g.links : at[1] = m

Layouts(g, keys, selected) ==
  [m \in {n \in DOMAIN g.points : n = "" \/ OwnTree(g, selected, n)} |->
     Bind(keys, selected, g.points[m].dependencies)]

----------------------------------------------------------------------------
PackageNames ==
  UNION {{x.packages[p].name : p \in DOMAIN x.packages} : x \in Image(NpmLocks)}

Settled == cmd = Idle /\ commands < MaxCommands

\* The package.json files that state the entries of an npm lock.
Entries(id) ==
  [m \in {""} \cup DOMAIN NpmLocks[id].members |-> Entry(NpmLocks[id], m)]
FilesOf(id) ==
  [of |-> id, text |-> [m \in {""} \cup DOMAIN NpmLocks[id].members |-> 0]]
Routed(g, paths) == \A p \in paths : origins[g.packages[p].name] = g.packages[p].registry

\* import, before the activation lock is taken.
ImportReads ==
  /\ Settled /\ commands' = commands + 1
  /\ \E g \in {Graph(NpmLocks[npm])} :
       LET holds == /\ GraphHolds(NpmLocks[npm], g) /\ Entries(manifests.of) = Entries(npm)
                    /\ Routed(g, DOMAIN g.packages)
       IN \/ holds /\ cmd' = [at |-> "publish", graph |-> g, digests |-> manifests]
                   /\ last' = "running"
          \/ ~holds /\ last' = "import_refused" /\ UNCHANGED cmd
  /\ UNCHANGED <<npm, manifests, origins, host, served, lock, store, ready, changes>>

\* Mutant: the files are not read again under the lock.
ImportPublishes_Trusting ==
  /\ cmd.at = "publish" /\ cmd' = Idle
  /\ lock' = [digests |-> cmd.digests, graph |-> cmd.graph, receipts |-> NoMap]
  /\ ready' = FALSE /\ last' = "imported"
  /\ UNCHANGED <<npm, manifests, origins, host, served, store, changes, commands>>

\* import, under the lock: the files are read again before tapid.lock is replaced.
ImportPublishes ==
  /\ cmd.at = "publish" /\ cmd' = Idle
  /\ \/ /\ manifests = cmd.digests
        /\ lock' = [digests |-> cmd.digests, graph |-> cmd.graph, receipts |-> NoMap]
        /\ ready' = FALSE /\ last' = "imported"
     \/ /\ manifests # cmd.digests
        /\ last' = "import_refused" /\ UNCHANGED <<lock, ready>>
  /\ UNCHANGED <<npm, manifests, origins, host, served, store, changes, commands>>

\* A placement is reused from the store when its receipt names what is pinned.
Cached(path) ==
  /\ path \in DOMAIN lock.receipts
  /\ lock.receipts[path] = lock.graph.packages[path].integrity
  /\ lock.receipts[path] \in store

\* record_verified_trees and record_verified_artifacts extend what is recorded.
Recorded(paths) ==
  Over(lock.receipts, [p \in paths |-> lock.graph.packages[p].integrity])

\* fetch_imported and the commit of what it prepared.
Install(offline) ==
  /\ Settled /\ lock # NoLock /\ commands' = commands + 1
  /\ \E visited \in {Visited(lock.graph)} :
       LET paths == SelectedPaths(lock.graph, visited)
           holds == /\ manifests = lock.digests
                    /\ Selectable(lock.graph, visited)
                    /\ Routed(lock.graph, paths)
                    /\ \A p \in paths : Cached(p) \/ (~offline /\ served)
       IN \/ /\ holds
             /\ store' = store \cup {lock.graph.packages[p].integrity : p \in paths}
             /\ lock' = [lock EXCEPT !.receipts = Recorded(paths)]
             /\ ready' = TRUE
             /\ last' = "installed"
          \/ /\ ~holds
             /\ last' = IF offline THEN "offline_refused" ELSE "refused"
             /\ UNCHANGED <<store, lock, ready>>
  /\ UNCHANGED <<npm, manifests, origins, host, served, cmd, changes>>

\* What happens around the commands, also between the two halves of an import.
Change ==
  /\ changes < MaxChanges /\ changes' = changes + 1
  /\ \/ /\ \E x \in DOMAIN NpmLocks : npm' = x
        /\ UNCHANGED <<manifests, origins, host, served, store, ready>>
     \/ /\ \E m \in DOMAIN manifests.text :
             manifests' = [manifests EXCEPT !.text[m] = 1 - @]
        /\ ready' = FALSE /\ UNCHANGED <<npm, origins, host, served, store>>
     \/ /\ manifests' = FilesOf(npm)
        /\ ready' = FALSE /\ UNCHANGED <<npm, origins, host, served, store>>
     \/ /\ \E n \in DOMAIN origins : origins' = [origins EXCEPT ![n] = 3 - @]
        /\ ready' = FALSE /\ UNCHANGED <<npm, manifests, host, served, store>>
     \/ /\ \E h \in Platforms \ {host} : host' = h
        /\ ready' = FALSE /\ UNCHANGED <<npm, manifests, origins, served, store>>
     \/ /\ served' = ~served
        /\ UNCHANGED <<npm, manifests, origins, host, store, ready>>
     \/ /\ \E t \in store : store' = store \ {t}
        /\ ready' = FALSE /\ UNCHANGED <<npm, manifests, origins, host, served>>
  /\ UNCHANGED <<lock, cmd, last, commands>>

Init ==
  /\ npm \in DOMAIN NpmLocks /\ manifests = FilesOf(npm)
  /\ origins = [n \in PackageNames |-> 1]
  /\ host \in Platforms /\ served = TRUE
  /\ lock = NoLock /\ store = {} /\ cmd = Idle /\ last = "none"
  /\ ready = FALSE /\ changes = 0 /\ commands = 0

Next ==
  \/ ImportReads \/ ImportPublishes \/ Change
  \/ \E offline \in BOOLEAN : Install(offline)

Spec == Init /\ [][Next]_vars

----------------------------------------------------------------------------
\* Every import resolves as npm placed it (npm_import.rs, "Preserve distinct
\* contexts"): an installed instance, reached through whichever placement, sees
\* for each of its names the instance of the placement npm's own lookup finds;
\* and so does each member, from its own tree or from the shared one.  One
\* instance stands for many placements and the edges of one of them, so this
\* needs the checks of validate_representable across all of them.
SelectionsAreKept ==
  ready =>
    \E g \in {lock.graph}, keys \in {InstanceKeys(lock.graph)},
       selected \in {SelectedPaths(lock.graph, Visited(lock.graph))} :
      LET instances == Instances(g, keys, selected)
          layouts == Layouts(g, keys, selected)
          sees(m) == layouts[IF m \in DOMAIN layouts THEN m ELSE ""]
      IN /\ \A p \in selected :
              instances[keys[p]] = Bind(keys, selected, AllEdges(g.packages[p]))
         /\ \A m \in DOMAIN g.points :
              LET uses == Bind(keys, selected, g.points[m].dependencies)
              IN \A n \in DOMAIN uses : sees(m)[n] = uses[n]

\* After an install, the same project installs offline (fetch_imported: "run
\* tapid install --frozen first"): the receipts of all its selected placements
\* are in the lock, also after installs that found part of them in the store.
InstalledIsOffline == last = "offline_refused" => ~ready

\* An import is what npm selected, and once it is installed it stays installable.
ImportIsFaithful == SelectionsAreKept /\ InstalledIsOffline

\* The files an import was checked against are the ones in place when its lock
\* replaces tapid.lock ("package.json changed during import; retry"), whatever
\* was edited while it waited for the activation lock.
ImportIsCurrent == [][lock.digests # lock'.digests => lock'.digests = manifests]_vars
=============================================================================
