---------------------------- MODULE LockedInstall ----------------------------
(***************************************************************************)
(* What an install records and what the next one makes of it: the graph put *)
(* into tapid.lock with its pinned artifacts (online.rs, online/graph.rs,   *)
(* online/artifact.rs, online/copied.rs), the decision to replay the lock   *)
(* (application/replay.rs), and the replay of the locked graph              *)
(* (online/locked.rs, application/replay.rs, application/install.rs).       *)
(*                                                                          *)
(* The choice of versions is Resolution's; here it is the highest admitted  *)
(* version, a locked one first.  The transaction that makes a command       *)
(* atomic is InstallTransaction's; here a command ends done or failed.      *)
(* Dependency scripts are DependencyHooks' and no policy approves one here; *)
(* optional dependencies of packages are Resolution's.                      *)
(* Bytes are a value; a digest, an integrity or a tree stands for them.     *)
(***************************************************************************)
EXTENDS Lockfile

CONSTANTS Catalog,      \* <<name, version>> -> [deps, peers, platforms, declared]
          CopiedRecord, \* the package in the tarball and in the repository
          Projects,     \* [root, overrides, members] the user may write
          Hosts, Origins,
          MaxEdits, MaxCommands \* bounds: changes around the project, commands

VARIABLES
  project,  \* package.json and the members' manifests
  routes, host,
  tarball, tag, \* bytes of the file dependency, commit of the Git reference
  edition,  \* bytes the registry serves for each package
  store,    \* published verified trees
  lock,     \* tapid.lock, or NoLock
  written,  \* history: the layout the lock was written with
  fresh,    \* history: nothing changed since the last command that succeeded
  at, mode, named, unverified, \* the command: its step and its options
  graph,    \* what resolution chose, with the records it read
  layout,   \* the layout input the command activates
  edits, commands

inputs == <<project, routes, host, tarball, tag, edition>>
command == <<mode, named, unverified>>
vars == <<inputs, store, lock, written, fresh, at, command, graph, layout, edits, commands>>

Modes == {"online", "refresh", "named", "frozen", "offline", "ci", "ciOffline"}
Ci == mode \in {"ci", "ciOffline"}
Offline == mode \in {"offline", "ciOffline"}
NoLayout == [instances |-> {}, roots |-> {}, edges |-> {}]
NoBytes == <<"none">>
NoLock == [NewLock(<<NoMap, NoMap>>) EXCEPT !.version = 0]
HasLock == lock.version # 0
RootDigest(p) == <<p.root, p.overrides>>
NoGraph == [ids |-> {}, bind |-> NoMap, edges |-> {}, keys |-> NoMap, read |-> NoMap]

Init ==
  /\ project \in Projects /\ routes \in Origins /\ host \in Hosts
  /\ tarball = 1 /\ tag = 1 /\ edition = [p \in DOMAIN Catalog |-> 1]
  /\ store = {} /\ lock = NoLock /\ written = NoLayout /\ fresh = FALSE
  /\ at = "idle" /\ mode = "online" /\ named = {} /\ unverified = FALSE
  /\ graph = NoGraph /\ layout = NoLayout /\ edits = 0 /\ commands = 0

----------------------------------------------------------------------------
\* The project around a command.
Bytes(name, version) == <<name, version, edition[<<name, version>>]>>
TarballBytes == <<"tarball", tarball>>
CommitBytes(commit) == <<"commit", commit>>

Change == /\ edits < MaxEdits /\ edits' = edits + 1 /\ fresh' = FALSE
          /\ UNCHANGED <<lock, written, at, command, graph, layout, commands>>

EditProject == /\ at = "idle" /\ Change /\ project' \in Projects \ {project}
               /\ UNCHANGED <<routes, host, tarball, tag, edition, store>>
Reroute == /\ at = "idle" /\ Change /\ routes' \in Origins \ {routes}
           /\ UNCHANGED <<project, host, tarball, tag, edition, store>>
MoveHost == /\ at = "idle" /\ Change /\ host' \in Hosts \ {host} /\ store' = {}
            /\ UNCHANGED <<project, routes, tarball, tag, edition>>
RepackTarball == /\ at = "idle" /\ Change /\ tarball = 1 /\ tarball' = 2
                 /\ UNCHANGED <<project, routes, host, tag, edition, store>>
MoveTag == /\ at = "idle" /\ Change /\ tag = 1 /\ tag' = 2
           /\ UNCHANGED <<project, routes, host, tarball, edition, store>>
PruneStore == /\ at = "idle" /\ Change /\ store # {} /\ store' = {} /\ UNCHANGED inputs
\* A registry may serve other bytes at any time.
Republish ==
  /\ edits < MaxEdits /\ edits' = edits + 1
  /\ \E p \in DOMAIN Catalog : edition[p] = 1 /\ edition' = [edition EXCEPT ![p] = 2]
  /\ UNCHANGED <<project, routes, host, tarball, tag, store, lock, written, fresh, at,
                 command, graph, layout, commands>>

----------------------------------------------------------------------------
\* Declarations: [kind, pkg, vs, optional]; kind is "registry", "member", "file" or
\* "git".  A dependency of the root or of a member is named by its local name.
IsCopiedDecl(d) == d.kind \in {"file", "git"}
Members(p) == DOMAIN p.members
MemberNamed(p, name) == CHOOSE m \in Members(p) : p.members[m].name = name
MemberNames(p) == {p.members[m].name : m \in Members(p)}
MemberKey(p, m) == Key(Member(m), p.members[m].name, p.members[m].version, NoMap, "any")

\* workspace_materialization_from_discovered: a local name is a member's when
\* one has it and its version must be admitted; a copied source or a
\* workspace: range without a member is refused.
LocalHolds(p, name, d) ==
  IF name \in MemberNames(p)
  THEN d.kind \in {"registry", "member"} /\ p.members[MemberNamed(p, name)].version \in d.vs
  ELSE d.kind = "registry"

WorkspaceHolds(p) ==
  \A m \in Members(p) :
    /\ \A n \in DOMAIN p.members[m].peers : LocalHolds(p, n, p.members[m].peers[n])
    /\ \A n \in DOMAIN p.members[m].deps : LocalHolds(p, n, p.members[m].deps[n])

LockedMembers(p) ==
  {LET own == p.members[m].deps
       local == {n \in DOMAIN own : n \in MemberNames(p)}
   IN [NewMember(MemberKey(p, m), p.members[m]) EXCEPT
         !.deps = [n \in local |-> MemberKey(p, MemberNamed(p, n))]] : m \in Members(p)}

\* workspace_root_resolution: the requirement of a member's registry
\* dependency is the root's override of it, when there is one.
Overridden(p, d) == IF d.pkg \in DOMAIN p.overrides THEN [d EXCEPT !.vs = p.overrides[d.pkg]] ELSE d

MemberDeps(p) ==
  {[member |-> MemberKey(p, m), name |-> n, d |-> Overridden(p, p.members[m].deps[n])] :
     <<m, n>> \in {x \in Members(p) \X UNION {DOMAIN p.members[m].deps : m \in Members(p)} :
                     x[2] \in DOMAIN p.members[x[1]].deps \ MemberNames(p)}}

MemberPeers(p) ==
  {[name |-> n, d |-> p.members[m].peers[n]] :
     <<m, n>> \in {x \in Members(p) \X UNION {DOMAIN p.members[m].peers : m \in Members(p)} :
                     x[2] \in DOMAIN p.members[x[1]].peers \ MemberNames(p)}}

\* Local names bound at the root: the root's own and the members'.
DirectNames(p) == {n \in DOMAIN p.root : n \notin MemberNames(p) /\ p.root[n].kind # "member"}
RootDecls(p) ==
  {[name |-> n, d |-> p.root[n]] : n \in DirectNames(p)}
    \cup {[name |-> x.name, d |-> x.d] : x \in MemberDeps(p)}

\* register_local_root_identity, and the range of a direct override.
RootsHold(p, decls) ==
  /\ \A n \in DOMAIN p.root :
       /\ n \in MemberNames(p) => p.members[MemberNamed(p, n)].version \in p.root[n].vs
       /\ n \notin MemberNames(p) => p.root[n].kind # "member"
       /\ p.root[n].pkg \in DOMAIN p.overrides => p.overrides[p.root[n].pkg] = p.root[n].vs
  /\ \A x, y \in decls :
       x.name = y.name => x.d.kind = y.d.kind /\ x.d.pkg = y.d.pkg

----------------------------------------------------------------------------
\* Pins of the previous lock.
Matches(key) == key.platform \in {"any", host}

\* reusable_locked_packages.
Reusable(l) ==
  {k \in DOMAIN l.packages : Matches(k) /\ l.packages[k].declared # "computed"}

Id(source, name, version) == [source |-> source, name |-> name, version |-> version]
IdOf(key) == Id(key.source, key.name, key.version)

\* The lock an install starts from: none when it refreshes the whole graph.
Previous == IF HasLock /\ mode \in {"online", "named"} THEN lock ELSE NoLock
Preferred == {IdOf(k) : k \in Reusable(Previous)}
PinOf(id) == {Previous.packages[k] : k \in {j \in Reusable(Previous) : IdOf(j) = id}}

\* matches_source: the declaration still names the locked source.
MatchesSource(d, source) == d.kind = source.kind /\ d.pkg = source.at

\* Mutant: the pin of a Git dependency is dropped on every resolution.
PinnedGit_Never(n) == {}

\* prepare_roots, the pin of a Git root: kept while package.json is the one
\* that was locked and no update names the dependency.
PinnedGit(n) ==
  {k.source : k \in {j \in Image(Previous.bindings) :
     /\ Previous.digest = RootDigest(project)
     /\ n \notin named
     /\ n \in DOMAIN Previous.bindings /\ Previous.bindings[n] = j
     /\ MatchesSource(project.root[n], j.source)}}

CopiedSourceOf(n) ==
  IF project.root[n].kind = "file" THEN CopiedFile(project.root[n].pkg, TarballBytes)
  ELSE IF PinnedGit(n) # {} THEN CHOOSE s \in PinnedGit(n) : TRUE
  ELSE CopiedGit(project.root[n].pkg, tag, CommitBytes(tag))

----------------------------------------------------------------------------
\* The graph an online install resolves.
Usable(name, version) ==
  LET r == Catalog[<<name, version>>]
  IN /\ r.platforms = {} \/ host \in r.platforms
     /\ r.declared \/ unverified

Candidates(pkg, vs) == {v \in vs : <<pkg, v>> \in DOMAIN Catalog /\ Usable(pkg, v)}
RegistryId(pkg, version) == Id(Registry(routes), pkg, version)

\* The version of a root or of an edge: the one locked under that name, any
\* locked one, the highest.
Choose(pkg, vs, own) ==
  LET all == Candidates(pkg, vs)
      locked == {v \in all : RegistryId(pkg, v) \in Preferred}
  IN IF own \cap locked # {} THEN Max(own \cap locked)
     ELSE IF locked # {} THEN Max(locked) ELSE Max(all)

\* preferred.roots: what the lock binds the local name to; without bindings,
\* its root of that name.
LockedBindings(n) ==
  IF Previous.bindings = NoMap THEN {k \in Previous.roots : k.name = n}
  ELSE {Previous.bindings[x] : x \in {n} \cap DOMAIN Previous.bindings}
LockedRoot(n, pkg) ==
  {k.version : k \in {j \in LockedBindings(n)
     \cup {Previous.members[m].deps[n] :
             m \in {x \in DOMAIN Previous.members : n \in DOMAIN Previous.members[x].deps}} :
       j.name = pkg}}

\* All declarations of a local name name one package; each range applies.
DeclOf(decls, n) == (CHOOSE x \in decls : x.name = n).d
RangeOf(decls, n) ==
  {v \in UNION {x.d.vs : x \in decls} : \A x \in decls : x.name = n => v \in x.d.vs}

RootId(n, d, range) ==
  IF IsCopiedDecl(d)
  THEN LET r == CopiedRecord[d.kind] IN Id(CopiedSourceOf(n), r.name, r.version)
  ELSE RegistryId(d.pkg, IF n \in named THEN Max(Candidates(d.pkg, range))
                         ELSE Choose(d.pkg, range, LockedRoot(n, d.pkg)))

\* prepare_roots and the choice of the roots' versions.
PrepareRoots ==
  /\ at = "roots"
  /\ \E decls \in {RootDecls(project)} :
       IF /\ WorkspaceHolds(project) /\ RootsHold(project, decls)
          /\ \A x \in decls : IsCopiedDecl(x.d) \/ Candidates(x.d.pkg, RangeOf(decls, x.name)) # {}
       THEN /\ graph' = [graph EXCEPT !.bind = [n \in {x.name : x \in decls} |->
                           RootId(n, DeclOf(decls, n), RangeOf(decls, n))]]
            /\ at' = "resolve"
       ELSE graph' = graph /\ at' = "failed"
  /\ UNCHANGED <<inputs, store, lock, written, fresh, command, layout, edits, commands>>

\* A peer is provided by a direct root of the same registry.
Providers(name, vs) ==
  {id \in Image(graph.bind) : id.source = Registry(routes) /\ id.name = name /\ id.version \in vs}

\* The record the resolver reads for a package: a locked one keeps its exact
\* edges and peers (locked_records) while they resolve, others come from the
\* metadata.
PinResolves(pin) ==
  /\ \A n \in DOMAIN pin.deps : Candidates(pin.deps[n].name, {pin.deps[n].version}) # {}
  /\ \A n \in DOMAIN pin.key.peers : Providers(n, {pin.key.peers[n]}) # {}

RecordOf(id) ==
  IF id.source.kind # "registry" THEN CopiedRecord[id.source.kind]
  ELSE LET base == Catalog[<<id.name, id.version>>]
           pins == {p \in PinOf(id) : PinResolves(p)}
       IN IF pins = {} THEN base
          ELSE LET pin == CHOOSE p \in pins : TRUE
               IN [base EXCEPT
                     !.deps = [n \in DOMAIN pin.deps |->
                                 [pkg |-> pin.deps[n].name, vs |-> {pin.deps[n].version}]],
                     !.peers = [n \in DOMAIN pin.key.peers |-> {pin.key.peers[n]}]]

\* What a requirement leads to: nothing when no version is usable.
Selects(r) ==
  IF Candidates(r.pkg, r.vs) = {} THEN {} ELSE {RegistryId(r.pkg, Choose(r.pkg, r.vs, {}))}

\* Every id the project may reach, with its record and where its edges lead.
Records ==
  [id \in Image(graph.bind) \cup {RegistryId(x[1], x[2]) : x \in DOMAIN Catalog} |-> RecordOf(id)]
Edges(records) ==
  UNION {UNION {{<<id, n, child>> : child \in Selects(records[id].deps[n])} :
                  n \in DOMAIN records[id].deps} : id \in DOMAIN records}

Closure(edges) ==
  LET from[depth \in 0 .. Cardinality(DOMAIN Catalog)] ==
        IF depth = 0 THEN Image(graph.bind)
        ELSE from[depth - 1] \cup {e[3] : e \in {x \in edges : x[1] \in from[depth - 1]}}
  IN from[Cardinality(DOMAIN Catalog)]

PeersOf(r) ==
  [n \in DOMAIN r.peers |-> Max({p.version : p \in Providers(n, r.peers[n])})]

\* validate_workspace_peer_providers.
MemberPeersHold ==
  \A x \in MemberPeers(project) :
    /\ \E n \in DirectNames(project) :
         project.root[n].kind = "registry" /\ project.root[n].pkg = x.name
    /\ Providers(x.name, x.d.vs) # {}

Resolvable(ids, records, edges) ==
  /\ \A id \in ids :
       /\ records[id].platforms = {} \/ host \in records[id].platforms
       /\ \A n \in DOMAIN records[id].deps : \E e \in edges : e[1] = id /\ e[2] = n
       /\ \A n \in DOMAIN records[id].peers : Providers(n, records[id].peers[n]) # {}
  /\ MemberPeersHold

\* resolve_package_graph: what is chosen, with the local names of its edges, its
\* peers, its platform, and the integrity its metadata declares or the archive
\* already read.
Resolved(ids, records, edges) ==
  [ids |-> ids, bind |-> graph.bind,
   edges |-> {e \in edges : e[1] \in ids},
   keys |-> [id \in ids |->
               Key(id.source, id.name, id.version, PeersOf(records[id]),
                   IF records[id].platforms = {} THEN "any" ELSE host)],
   read |-> [id \in ids |->
               IF id.source.kind # "registry" THEN id.source.digest
               ELSE IF Catalog[<<id.name, id.version>>].declared
                    THEN Bytes(id.name, id.version) ELSE NoBytes]]

Resolve ==
  /\ at = "resolve"
  /\ \E records \in {Records} : \E edges \in {Edges(records)} : \E ids \in {Closure(edges)} :
       IF Resolvable(ids, records, edges)
       THEN graph' = Resolved(ids, records, edges) /\ at' = "fetch"
       ELSE graph' = graph /\ at' = "failed"
  /\ UNCHANGED <<inputs, store, lock, written, fresh, command, layout, edits, commands>>

----------------------------------------------------------------------------
\* ArtifactFetcher::prepare: a pinned tree of the store is taken as it is;
\* what is downloaded must be what the pin or the metadata says.
Served(id) == IF id.source.kind = "registry" THEN Bytes(id.name, id.version) ELSE graph.read[id]

Artifact(id, pin) ==
  LET expected == IF pin = {} THEN graph.read[id] ELSE (CHOOSE p \in pin : TRUE).integrity
  IN IF \E p \in pin : p.tree \in store THEN {expected}
     ELSE IF \/ expected \notin {NoBytes, Served(id)}
             \/ \E p \in pin : p.tree # Served(id) \/ (id.source.kind = "registry" /\ p.url = Absent)
     THEN {} ELSE {Served(id)}

KeyOf(id) == graph.keys[id]

\* add_alias_dependency, for each edge: a local name that is not the package's
\* own is an alias of it.
WithEdges(p, edges) ==
  [p EXCEPT !.deps = [n \in {e[2] : e \in edges} |->
                        KeyOf((CHOOSE e \in edges : e[2] = n)[3])],
            !.aliases = [n \in {e[2] : e \in {x \in edges : x[2] # x[3].name}} |->
                           (CHOOSE e \in edges : e[2] = n)[3].name]]

\* resolve_and_fetch_with_lock: each selected package with its evidence and
\* its edges, under the local names its parent uses.
LockedPackageOf(id, tree, known) ==
  WithEdges([NewPackage(KeyOf(id), tree, tree, IF known THEN "declared" ELSE "computed")
               EXCEPT !.url = IF id.source.kind = "registry" THEN "pinned" ELSE Absent],
            {e \in graph.edges : e[1] = id})

LockedMemberOf(m, own) ==
  LET names == {x.name : x \in own}
  IN [m EXCEPT
        !.deps = Extend(@, [n \in names |-> KeyOf(graph.bind[n])]),
        !.aliases = [n \in {k \in names : k # graph.bind[k].name} |-> graph.bind[n].name]]

\* Mutant: every local name bound at the root becomes a root of the lock.
DirectBindings_All == DOMAIN graph.bind

\* The bindings that are the root's own: its local names, bound to a package
\* it declares itself.
DirectBindings ==
  {n \in DOMAIN graph.bind :
     /\ n \in DOMAIN project.root
     /\ \E k \in DirectNames(project) : graph.bind[n].name = graph.bind[k].name}

\* The lock of the graph, and every way it is refused: an edge to itself, an
\* invalid entry, a root the graph has not.
LockOf(packages, members, direct) ==
  SetRootBindings(
    SetRoots(InsertGraph(NewLock(RootDigest(project)), packages, members),
             Image(direct) \cup {m.key : m \in members}), direct)

Buildable(packages, members, new) ==
  /\ \A e \in graph.edges : KeyOf(e[1]) # KeyOf(e[3])
  /\ CanInsert(NewLock(RootDigest(project)), packages, members)
  /\ CanRoot(new, new.roots) /\ CanBindRoots(new, new.bindings)
  /\ Writable(new)

\* The layout input: what is bound at the root is the root's own bindings and
\* every registry dependency of a member.
ResolvedLayout(trees, direct) ==
  [instances |-> {[key |-> KeyOf(id), tree |-> trees[id]] : id \in graph.ids},
   roots |-> {<<n, direct[n]>> : n \in DOMAIN direct}
             \cup {<<x.name, KeyOf(graph.bind[x.name])>> : x \in MemberDeps(project)},
   edges |-> {<<KeyOf(e[1]), e[2], KeyOf(e[3])>> : e \in graph.edges}]

\* The artifacts are fetched, the lock is written and the layout activated.
Refuse == at' = "failed" /\ UNCHANGED <<lock, layout, written, store, fresh>>
Fetched(trees, packages, members, direct) ==
  \E new \in {LockOf(packages, members, direct)} :
    IF ~Buildable(packages, members, new) THEN Refuse
    ELSE /\ lock' = new
         /\ layout' = ResolvedLayout(trees, direct) /\ written' = layout'
         /\ store' = store \cup Image(trees)
         /\ fresh' = TRUE /\ at' = "done"

Fetch ==
  /\ at = "fetch"
  /\ \E pins \in {[id \in graph.ids |-> PinOf(id)]} :
     \E found \in {[id \in graph.ids |-> Artifact(id, pins[id])]} :
       IF \E id \in graph.ids : found[id] = {} THEN Refuse
       ELSE \E trees \in {[id \in graph.ids |-> CHOOSE b \in found[id] : TRUE]} :
              Fetched(trees,
                {LockedPackageOf(id, trees[id], pins[id] # {} \/ graph.read[id] # NoBytes) :
                   id \in graph.ids},
                {LockedMemberOf(m, {x \in MemberDeps(project) : x.member = m.key}) :
                   m \in LockedMembers(project)},
                [n \in DirectBindings |-> KeyOf(graph.bind[n])])
  /\ UNCHANGED <<inputs, command, graph, edits, commands>>

----------------------------------------------------------------------------
\* Replaying a lock.
\* validate_locked_routes: an error, and whether the lock is for this host.
RoutesHold(l) ==
  \A k \in DOMAIN l.packages : k.source.kind = "registry" => k.source.at = routes
ForThisHost(l) == \A k \in DOMAIN l.packages : Matches(k)

\* validate_locked_files.
FilesHold(l) ==
  \A k \in DOMAIN l.packages : k.source.kind = "file" => k.source.digest = TarballBytes

\* workspace_matches_lock.
WorkspaceMatches(l) ==
  [k \in DOMAIN l.members |-> l.members[k].digest]
    = [k \in {m.key : m \in LockedMembers(project)} |->
         (CHOOSE m \in LockedMembers(project) : m.key = k).digest]

\* can_replay_online: the checks that fail the command, and the answer.
ReplayInputsHold ==
  /\ WorkspaceHolds(project) /\ RoutesHold(lock)
  /\ lock.digest = RootDigest(project) => FilesHold(lock)

CanReplayOnline ==
  ForThisHost(lock) /\ lock.digest = RootDigest(project) /\ WorkspaceMatches(lock)

\* validate_workspace_dependency_edges.
MemberEdgesHold(l) ==
  /\ \A m \in LockedMembers(project) :
       LET own == {x \in MemberDeps(project) : x.member = m.key}
           locked == l.members[m.key].deps
       IN /\ DOMAIN locked = DOMAIN m.deps \cup {x.name : x \in own}
          /\ \A n \in DOMAIN m.deps : locked[n] = m.deps[n] /\ m.deps[n] \in DOMAIN l.members
          /\ \A x \in own :
               /\ locked[x.name].source = Registry(routes) /\ locked[x.name].name = x.d.pkg
               /\ locked[x.name].version \in x.d.vs /\ locked[x.name] \in DOMAIN l.packages
  /\ \A x \in MemberPeers(project) :
       \E k \in l.roots \cap DOMAIN l.packages :
         k.source = Registry(routes) /\ k.name = x.name /\ k.version \in x.d.vs

\* replay_root_keys_with_config, for a lock with bindings: each one satisfies
\* its declaration and each required declaration is bound.
IsWorkspaceRoot(l, n) ==
  \E k \in l.roots : IsLocal(k) /\ k.name = n /\ k.version \in project.root[n].vs
Declared(l) ==
  {n \in DOMAIN project.root : project.root[n].kind = "registry" /\ ~IsWorkspaceRoot(l, n)}
CopiedNames == {n \in DOMAIN project.root : IsCopiedDecl(project.root[n])}
Satisfies(key, n) ==
  IF n \in CopiedNames THEN IsCopied(key.source) /\ MatchesSource(project.root[n], key.source)
  ELSE /\ key.source = Registry(routes) /\ key.name = project.root[n].pkg
       /\ key.version \in project.root[n].vs

BindingsHold(l) ==
  /\ \A n \in DOMAIN l.bindings :
       n \in Declared(l) \cup CopiedNames /\ Satisfies(l.bindings[n], n)
  /\ \A n \in Declared(l) \cup CopiedNames :
       project.root[n].optional \/ n \in DOMAIN l.bindings

\* For a lock without them: by identity, which no alias or copied root has.
Plain == {n \in DOMAIN project.root : project.root[n].kind = "registry"}
Matching(keys, n) ==
  {k \in keys : k.source = Registry(routes) /\ k.name = n /\ k.version \in project.root[n].vs}
HighestOf(keys) == {k \in keys : \A j \in keys : j.version <= k.version}

LegacyHolds(l) ==
  /\ CopiedNames = {} /\ \A n \in Plain : project.root[n].pkg = n
  /\ IF Plain = {} THEN \A k \in l.roots : k.source.kind # "registry"
     ELSE IF l.roots = {}
     THEN \A n \in Plain :
            LET found == Matching(DOMAIN l.packages, n)
            IN (found = {} /\ project.root[n].optional) \/ Cardinality(HighestOf(found)) = 1
     ELSE /\ \A k \in l.roots : IsLocal(k) \/ \E n \in Plain : k \in Matching(l.roots, n)
          /\ \A n \in Plain :
               \/ \E k \in l.roots : IsLocal(k) /\ k.name = n
               \/ Cardinality(Matching(l.roots, n)) = 1
               \/ project.root[n].optional /\ Matching(l.roots, n) = {}

LegacyRoots(l) ==
  IF l.roots # {} \/ Plain = {} THEN l.roots
  ELSE UNION {HighestOf(Matching(DOMAIN l.packages, n)) : n \in Plain}

RootsReplay(l) == IF l.bindings # NoMap THEN BindingsHold(l) ELSE LegacyHolds(l)

\* Mutant: what the members use is left out of the roots.
ReplayedLayout_RootsOnly(l) ==
  [instances |-> {[key |-> k, tree |-> l.packages[k].tree] : k \in DOMAIN l.packages},
   roots |->
     IF l.bindings # NoMap THEN {<<n, l.bindings[n]>> : n \in DOMAIN l.bindings}
     ELSE {<<k.name, k>> : k \in {j \in LegacyRoots(l) : ~IsLocal(j)}},
   edges |-> UNION {{<<k, n, l.packages[k].deps[n]>> : n \in DOMAIN l.packages[k].deps} :
                    k \in DOMAIN l.packages}]

\* replay_input_with_tree_source.
ReplayedLayout(l) ==
  [instances |-> {[key |-> k, tree |-> l.packages[k].tree] : k \in DOMAIN l.packages},
   roots |->
     (IF l.bindings # NoMap THEN {<<n, l.bindings[n]>> : n \in DOMAIN l.bindings}
      ELSE {<<k.name, k>> : k \in {j \in LegacyRoots(l) : ~IsLocal(j)}})
     \cup UNION {{<<n, l.members[m].deps[n]>> :
                    n \in {x \in DOMAIN l.members[m].deps : ~IsLocal(l.members[m].deps[x])}} :
                 m \in DOMAIN l.members},
   edges |-> UNION {{<<k, n, l.packages[k].deps[n]>> : n \in DOMAIN l.packages[k].deps} :
                    k \in DOMAIN l.packages}]

\* hydrate_with_fetch, a missing tree: pinned address, declared integrity, the
\* locked bytes.
Refetched(p) ==
  CASE p.key.source.kind = "registry" -> Bytes(p.key.name, p.key.version)
    [] p.key.source.kind = "file" -> TarballBytes
    [] p.key.source.kind = "git" -> CommitBytes(p.key.source.commit)

\* validate_locked_artifact_sources, which ci asks of every package, and
\* prepare_locked_install, which does not ask for declared integrity.
SourcesKnown(l) ==
  \A p \in Image(l.packages) : p.key.source.kind = "registry" => p.url # Absent
CanHydrate(p) ==
  /\ p.key.source.kind = "registry" => (Ci \/ p.declared = "declared") /\ p.url # Absent
  /\ Refetched(p) = p.integrity /\ Refetched(p) = p.tree

----------------------------------------------------------------------------
\* Commands.
Locked(m) == m \in {"frozen", "offline", "ci", "ciOffline"}
End(outcome) == at' = outcome /\ UNCHANGED <<store, lock, written, fresh, graph, layout>>

\* execute: the options, the lock as it is found, and whether it is replayed.
\* A lock with computed integrity is resolved again when the user allows it.
Begin(m, names, allowed) ==
  LET again == allowed /\ UnverifiedArtifact(lock)
      usable == /\ Readable(lock) /\ lock.version # ProvenanceLegacy
                /\ UnverifiedArtifact(lock) => again
                /\ m = "online" => ReplayInputsHold
  IN /\ at = "idle" /\ commands < MaxCommands
     /\ mode' = m /\ named' = names /\ unverified' = allowed /\ commands' = commands + 1
     /\ End(IF IF HasLock THEN ~usable ELSE Locked(m) THEN "failed"
            ELSE IF Locked(m) \/ (m = "online" /\ HasLock /\ CanReplayOnline /\ ~again)
            THEN "replay" ELSE "roots")
     /\ UNCHANGED <<inputs, edits>>

\* The checks before a locked graph is used.
Replay ==
  /\ at = "replay"
  /\ End(IF /\ ValidReplay(lock, RootDigest(project))
            /\ WorkspaceHolds(project) /\ WorkspaceMatches(lock)
            /\ RootsHold(project, RootDecls(project))
            /\ MemberEdgesHold(lock) /\ RootsReplay(lock)
            /\ (Ci => SourcesKnown(lock)) /\ FilesHold(lock) /\ RoutesHold(lock) /\ ForThisHost(lock)
         THEN "hydrate" ELSE "failed")
  /\ UNCHANGED <<inputs, command, edits, commands>>

\* hydrate_locked, not offline, then the layout of the lock.
Hydrate ==
  LET missing == {p \in Image(lock.packages) : p.tree \notin store}
  IN /\ at = "hydrate"
     /\ IF missing = {} \/ (~Offline /\ \A p \in missing : CanHydrate(p))
        THEN /\ store' = store \cup {p.tree : p \in missing}
             /\ layout' = ReplayedLayout(lock)
             /\ at' = "done" /\ fresh' = TRUE
             /\ UNCHANGED <<lock, written, graph>>
        ELSE End("failed")
     /\ UNCHANGED <<inputs, command, edits, commands>>

Finish ==
  /\ at \in {"done", "failed"} /\ at' = "idle" /\ graph' = NoGraph /\ layout' = NoLayout
  /\ mode' = "online" /\ named' = {} /\ unverified' = FALSE
  /\ UNCHANGED <<inputs, store, lock, written, fresh, edits, commands>>

\* The lock of an older release: no local names of roots, and in the first
\* schema no roots and no provenance.
OldRelease ==
  /\ at = "idle" /\ lock.version = Current /\ lock.members = NoMap
  /\ \A p \in Image(lock.packages) : p.aliases = NoMap
  /\ \A n \in DOMAIN lock.bindings : lock.bindings[n].name = n
  /\ edits < MaxEdits /\ edits' = edits + 1 /\ fresh' = FALSE
  /\ \/ lock' = [lock EXCEPT !.version = RootsLegacy, !.bindings = NoMap]
     \/ lock' = [lock EXCEPT !.version = Legacy, !.bindings = NoMap, !.roots = {},
                             !.packages = [k \in DOMAIN @ |-> [@[k] EXCEPT !.declared = Absent]]]
  /\ UNCHANGED <<inputs, store, written, at, command, graph, layout, commands>>

Next ==
  \/ EditProject \/ Reroute \/ MoveHost \/ RepackTarball \/ MoveTag \/ PruneStore \/ Republish
  \/ OldRelease
  \/ \E m \in Modes \ {"named"}, allowed \in BOOLEAN :
       (Locked(m) => ~allowed) /\ Begin(m, {}, allowed)
  \/ \E n \in DOMAIN project.root : Begin("named", {n}, FALSE)
  \/ PrepareRoots \/ Resolve \/ Fetch \/ Replay \/ Hydrate \/ Finish

Spec == Init /\ [][Next]_vars

----------------------------------------------------------------------------
\* What a successful install wrote is what the next one replays: as long as
\* nobody changes the project, its routes, its host or the store, an online,
\* frozen, offline or ci install does not fail.
InstallReplays ==
  (fresh /\ mode \notin {"refresh", "named"} /\ ~UnverifiedArtifact(lock))
    => at # "failed"

\* A replay activates the very layout the lock was written with: instances,
\* trees, local names and edges.  The rootless schema guesses its roots.
ReplayReproduces == (at = "done" /\ lock.version # Legacy) => layout = written

\* A resolution that starts from a lock keeps the bytes of every package both
\* locks hold, and the commit of a Git dependency nobody asked to update.
PinsHold ==
  [][(mode \in {"online", "named"} /\ HasLock /\ at = "fetch" /\ at' = "done") =>
       /\ \A k \in Reusable(lock) : \A j \in DOMAIN lock'.packages :
            IdOf(k) = IdOf(j) => /\ lock'.packages[j].integrity = lock.packages[k].integrity
                                 /\ lock'.packages[j].tree = lock.packages[k].tree
       /\ \A n \in DOMAIN lock.bindings \cap DOMAIN lock'.bindings :
            /\ lock.bindings[n].source.kind = "git" /\ n \notin named
            /\ lock.digest = lock'.digest
            => lock'.bindings[n].source = lock.bindings[n].source]_vars
=============================================================================
