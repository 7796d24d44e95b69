------------------------------- MODULE Lockfile -------------------------------
(***************************************************************************)
(* The lock's data model (crates/tapid-lockfile/src/model.rs): how a graph  *)
(* is put into a lock, and what the writer and the reader of tapid.lock     *)
(* accept.  A key is a record; its text and the checks that the text is     *)
(* canonical are left out.  A digest stands for the bytes it is taken of.   *)
(* A lock text is the lock it parses to; the reader accepts it or refuses.  *)
(***************************************************************************)
EXTENDS Naturals, Sequences, FiniteSets, FiniteSetsExt, SequencesExt

\* Schema versions: LOCKFILE_VERSION 7, with 9 for derived hooks and 10 for
\* copied sources; 8 is the imported npm lock and no lock of this module.
Legacy == 4
ProvenanceLegacy == 5
RootsLegacy == 6
Current == 7
Lifecycle == 9
CopiedSource == 10

NoMap == [x \in {} |-> x]
Absent == "absent"
Image(f) == {f[x] : x \in DOMAIN f}
Extend(f, g) == [x \in DOMAIN f \cup DOMAIN g |-> IF x \in DOMAIN g THEN g[x] ELSE f[x]]

\* PackageSource and LockfilePackageSource: a registry origin, a copied file
\* or Git artifact (path or repository and commit, with its archive digest),
\* or a member of the workspace at a path.
Registry(origin) == [kind |-> "registry", at |-> origin]
CopiedFile(path, digest) == [kind |-> "file", at |-> path, digest |-> digest]
CopiedGit(repository, commit, digest) ==
  [kind |-> "git", at |-> repository, commit |-> commit, digest |-> digest]
Member(path) == [kind |-> "workspace", at |-> path]

IsCopied(source) == source.kind \in {"file", "git"}
IsLocal(key) == key.source.kind = "workspace"

Key(source, name, version, peers, platform) ==
  [source |-> source, name |-> name, version |-> version, peers |-> peers,
   platform |-> platform]

----------------------------------------------------------------------------
\* LockedPackage::new_with_context_and_provenance.
NewPackage(key, integrity, tree, declared) ==
  [key |-> key, integrity |-> integrity, tree |-> tree,
   declared |-> IF key.source.kind = "registry" THEN declared ELSE Absent,
   hooks |-> <<>>, url |-> Absent, deps |-> NoMap, aliases |-> NoMap]

NewMember(key, digest) ==
  [key |-> key, digest |-> digest, deps |-> NoMap, aliases |-> NoMap]

NamesTarget(p, name, target) ==
  target.name = name \/ (name \in DOMAIN p.aliases /\ p.aliases[name] = target.name)

AliasesHold(p) ==
  \A name \in DOMAIN p.aliases :
    /\ name \in DOMAIN p.deps
    /\ p.aliases[name] = p.deps[name].name
    /\ name # p.aliases[name]

\* LockedPackage::validate: a copied artifact has no registry evidence.
ValidPackage(p) ==
  /\ IsCopied(p.key.source) =>
       p.declared = Absent /\ p.url = Absent /\ p.hooks = <<>>
  /\ AliasesHold(p)

\* LockedWorkspacePackage::validate.
ValidMember(m) ==
  /\ \A name \in DOMAIN m.deps :
       NamesTarget(m, name, m.deps[name]) /\ m.deps[name] # m.key
  /\ AliasesHold(m)

\* validate_dependency_target, for each edge of a package or a member.
ValidTargets(p, known) ==
  \A name \in DOMAIN p.deps :
    /\ p.deps[name] # p.key
    /\ NamesTarget(p, name, p.deps[name])
    /\ p.deps[name] \in known

\* validate_derived_hooks: in lifecycle order, each hook once.
HookRank(hook) ==
  CASE hook = "preinstall" -> 0 [] hook = "install" -> 1 [] hook = "postinstall" -> 2

ValidHooks(hooks) ==
  \A i, j \in DOMAIN hooks : i < j => HookRank(hooks[i].hook) < HookRank(hooks[j].hook)

----------------------------------------------------------------------------
\* Lockfile::new.
NewLock(digest) ==
  [version |-> Current, digest |-> digest, roots |-> {}, bindings |-> NoMap,
   packages |-> NoMap, members |-> NoMap]

Keys(lock) == DOMAIN lock.packages \cup DOMAIN lock.members

\* insert_graph: the whole batch is validated before the lock changes.
CanInsert(lock, packages, members) ==
  LET new == {p.key : p \in packages \cup members}
  IN /\ \A p \in packages : ValidPackage(p)
     /\ \A m \in members : ValidMember(m)
     /\ new \cap Keys(lock) = {}
     /\ Cardinality(new) = Cardinality(packages) + Cardinality(members)
     /\ \A p \in packages \cup members : ValidTargets(p, Keys(lock) \cup new)

ByKey(ps) == [k \in {p.key : p \in ps} |-> CHOOSE p \in ps : p.key = k]

InsertGraph(lock, packages, members) ==
  [lock EXCEPT
     !.version = IF \E p \in packages : IsCopied(p.key.source) THEN CopiedSource ELSE @,
     !.packages = Extend(@, ByKey(packages)),
     !.members = Extend(@, ByKey(members))]

\* set_roots, which forgets the bindings.
CanRoot(lock, roots) == roots \subseteq Keys(lock)
SetRoots(lock, roots) == [lock EXCEPT !.roots = roots, !.bindings = NoMap]

\* set_root_bindings: every root but a member has a local name.
CanBindRoots(lock, bindings) ==
  /\ Image(bindings) \subseteq lock.roots
  /\ \A root \in lock.roots \ Image(bindings) : IsLocal(root)
SetRootBindings(lock, bindings) == [lock EXCEPT !.bindings = bindings]

----------------------------------------------------------------------------
\* validate_alias_schema: what each schema can express.
SchemaHolds(lock) ==
  LET ps == Image(lock.packages)
  IN /\ lock.version < Lifecycle => \A p \in ps : p.hooks = <<>>
     /\ lock.version < CopiedSource => \A p \in ps : ~IsCopied(p.key.source)
     /\ \A p \in ps : ValidHooks(p.hooks)
     /\ lock.version < Current =>
          lock.bindings = NoMap /\ \A p \in ps : p.aliases = NoMap

ProvenanceIsKnown(lock) ==
  \A p \in Image(lock.packages) : p.key.source.kind = "registry" => p.declared # Absent

\* to_json writes the lock when this holds.
Writable(lock) ==
  /\ SchemaHolds(lock)
  /\ lock.version >= RootsLegacy =>
       /\ Keys(lock) # {} => lock.roots # {}
       /\ ProvenanceIsKnown(lock)

\* from_json accepts the text when this holds.
Readable(lock) ==
  /\ lock.version \in {Legacy, ProvenanceLegacy, RootsLegacy, Current, Lifecycle, CopiedSource}
  /\ (lock.version >= ProvenanceLegacy /\ Keys(lock) # {}) => lock.roots # {}
  /\ lock.version >= RootsLegacy => ProvenanceIsKnown(lock)
  /\ lock.version < Current => lock.members = NoMap
  /\ lock.roots \subseteq Keys(lock)
  /\ SchemaHolds(lock)
  /\ lock.bindings # NoMap => CanBindRoots(lock, lock.bindings)
  /\ \A k \in DOMAIN lock.packages :
       ValidPackage(lock.packages[k]) /\ k = lock.packages[k].key
  /\ \A k \in DOMAIN lock.members :
       ValidMember(lock.members[k]) /\ k = lock.members[k].key
  /\ \A p \in Image(lock.packages) \cup Image(lock.members) : ValidTargets(p, Keys(lock))

\* validate_replay, in two parts: an install without declared integrity asks
\* for the second one alone.
UnverifiedArtifact(lock) == \E p \in Image(lock.packages) : p.declared = "computed"
ValidReplay(lock, digest) ==
  lock.digest = digest /\ lock.version # ProvenanceLegacy /\ ~UnverifiedArtifact(lock)
=============================================================================
