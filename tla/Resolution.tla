------------------------------ MODULE Resolution ------------------------------
(***************************************************************************)
(* Choosing package versions: the graph resolver (crates/tapid-resolver),  *)
(* the loop that fetches registry metadata only when the graph reaches it  *)
(* (online/resolution.rs), and the preferences that keep a changed project *)
(* on the versions of its lock (online/graph.rs, locked.rs, update.rs).    *)
(*                                                                         *)
(* A name stands for a registry and a package name together, so routing is *)
(* already decided and an alias is the package it names.  A version is a   *)
(* number; a requirement is the set of versions it admits, or a dist-tag.  *)
(* A package is usable when its metadata normalizes on this platform.  One *)
(* command runs at a time; between commands the manifest is edited and the *)
(* registry publishes.                                                     *)
(***************************************************************************)
EXTENDS Naturals, FiniteSets

CONSTANTS Names, Versions,
          Registries,  \* what the registry will ever hold: [packages -> records]
          Manifests,   \* sets of root dependencies [name, req]
          MaxCommands  \* bound: commands that resolve

Packages == Names \X Versions

\* What PackageRecord and NormalizedRecord keep: dependencies, optional and
\* peer dependencies as sets of [name, req], the peers that are optional, the
\* dist-tag, and whether the candidate is excluded.
NoPackages == [x \in {} |-> x]

VARIABLES
  registry, published, \* what will be published, and the packages that are
  manifest,  \* root dependencies
  lock,      \* [bind, edges, peers] of the last resolution
  at,        \* "idle", "resolve", "done" or "failed"
  roots,     \* root dependencies and the constraints added for peers
  pinned,    \* records taken from the lock
  records,   \* metadata known to the resolver
  fetched,   \* names whose metadata was fetched
  preferred, \* locked versions still preferred
  bound,     \* locked version of each root, as a set of packages
  refresh,   \* roots that take the highest version
  failure,   \* [why, name, reqs] of a failed command
  commands

project == <<registry, published, manifest, lock>>
solver == <<roots, pinned, records, fetched, preferred, bound, refresh>>
vars == <<project, solver, at, failure, commands>>

NoLock == [bind |-> {}, edges |-> {}, peers |-> {}]
NoFailure == [why |-> "none", name |-> "none", reqs |-> {}]

Init ==
  /\ registry \in Registries
  /\ published \in {{p \in Packages : p[2] = 1}, Packages}
  /\ manifest \in Manifests
  /\ lock = NoLock
  /\ at = "idle" /\ roots = {} /\ pinned = NoPackages /\ records = NoPackages
  /\ fetched = {} /\ preferred = {} /\ bound = {} /\ refresh = {}
  /\ failure = NoFailure /\ commands = 0

----------------------------------------------------------------------------
\* Candidates and their choice.
Exactly(p) == [name |-> p[1], req |-> [tag |-> FALSE, vs |-> {p[2]}]]

Admits(req, p, known) ==
  IF req.tag THEN known[p].latest ELSE p[2] \in req.vs

\* candidate_index: only normalized records are in it.
Usable(n) == {p \in DOMAIN records : p[1] = n /\ records[p].usable}
Candidates(n, reqs) == {p \in Usable(n) : \A r \in reqs : Admits(r, p, records)}

Highest(S) == CHOOSE p \in S : \A q \in S : q[2] <= p[2]
Prefer(S, P) == IF S \cap P = {} THEN S ELSE S \cap P

\* Mutant: a preferred version wins whether or not the range admits it.
SelectPackage_AnyLocked(n, reqs, first, second) ==
  Highest(Prefer(Prefer(IF Usable(n) \cap second = {} THEN Candidates(n, reqs)
                        ELSE Usable(n), first), second))

\* select_package: the root's own lock, then any locked version, then the
\* highest; never one that a requirement does not admit.
SelectPackage(n, reqs, first, second) ==
  Highest(Prefer(Prefer(Candidates(n, reqs), first), second))

RootNames == {d.name : d \in roots}
RootReqs(n) == {d.req : d \in {e \in roots : e.name = n}}

\* Mutant: a root always takes the highest version.
RootPackage_Fresh(n) == SelectPackage(n, RootReqs(n), {}, {})

RootPackage(n) ==
  IF n \in refresh THEN SelectPackage(n, RootReqs(n), {}, {})
  ELSE SelectPackage(n, RootReqs(n), bound, preferred)

\* insert_records: an optional dependency is an edge once a known, usable
\* candidate matches it.
Deps(p) ==
  records[p].deps
    \cup {o \in records[p].opts : Candidates(o.name, {o.req}) # {}}

Child(d) == SelectPackage(d.name, {d.req}, {}, preferred)
Children(p) == {Child(d) : d \in {e \in Deps(p) : Candidates(e.name, {e.req}) # {}}}

RECURSIVE Reach(_)
Reach(S) ==
  LET more == (UNION {Children(p) : p \in S}) \ S
  IN  IF more = {} THEN S ELSE Reach(S \cup more)

\* resolve_graph_with_preferences: what the roots select, what that reaches,
\* and everything asked for on the way.
RootsSelected ==
  {RootPackage(n) : n \in {m \in RootNames : Candidates(m, RootReqs(m)) # {}}}
Wanted(selected) ==
  {[name |-> n, reqs |-> RootReqs(n)] : n \in RootNames}
    \cup {[name |-> d.name, reqs |-> {d.req}] : d \in UNION {Deps(p) : p \in selected}}

\* Peers are provided by the roots only.
PeerHolds(p, d, rooted) ==
  LET provider == {q \in rooted : q[1] = d.name} IN
  \/ provider = {} /\ d.name \in records[p].optPeers
  \/ provider # {} /\ \A q \in provider : Admits(d.req, q, records)
BrokenPeers(selected, rooted) ==
  UNION {{<<p, d>> : d \in {e \in records[p].peers : ~PeerHolds(p, e, rooted)}} :
           p \in selected}

----------------------------------------------------------------------------
\* Metadata.  A record pinned by the lock keeps its exact edges; the registry
\* gives it back its tag and its peer ranges (preserve_pinned_record).
PreservePinned(p) ==
  [pinned[p] EXCEPT !.latest = registry[p].latest, !.peers = registry[p].peers,
                    !.optPeers = registry[p].optPeers]
Record(p) == IF p \in DOMAIN pinned THEN PreservePinned(p) ELSE registry[p]

Fetched(names) ==
  LET new == {p \in published : p[1] \in names}
  IN  [p \in DOMAIN records \cup new |-> IF p \in new THEN Record(p) ELSE records[p]]

Fail(why, name, reqs) ==
  /\ at' = "failed"
  /\ failure' = [why |-> why, name |-> name, reqs |-> reqs]
  /\ UNCHANGED <<project, solver, commands>>

\* Registry metadata of names; a transport error ends the command.
Fetch(names) ==
  \/ /\ records' = Fetched(names)
     /\ fetched' = fetched \cup names
     /\ UNCHANGED <<project, roots, pinned, preferred, bound, refresh, at, failure, commands>>
  \/ Fail("fetch", "none", {})

\* locked_records: exact edges and the exact peers of the context.
PinnedRecord(p) ==
  [deps |-> {Exactly(e[2]) : e \in {f \in lock.edges : f[1] = p}},
   opts |-> {},
   peers |-> {Exactly(e[2]) : e \in {f \in lock.peers : f[1] = p}},
   optPeers |-> {}, latest |-> FALSE, usable |-> TRUE]
Locked == lock.bind \cup {e[2] : e \in lock.edges}

\* resolve_package_graph: preferences and seed from the lock; a named update
\* releases the roots it names and fetches their metadata.
Begin(named) ==
  /\ at = "idle" /\ commands < MaxCommands
  /\ named \subseteq {d.name : d \in manifest}
  /\ LET seed == [p \in Locked |-> PinnedRecord(p)]
         fresh == {p \in published : p[1] \in named}
     IN  /\ pinned' = [p \in Locked \cup fresh |->
                         IF p \in fresh
                         THEN IF p \in Locked
                              THEN [seed[p] EXCEPT !.latest = registry[p].latest,
                                                   !.peers = registry[p].peers,
                                                   !.optPeers = registry[p].optPeers]
                              ELSE registry[p]
                         ELSE seed[p]]
         /\ records' = pinned'
  /\ roots' = manifest
  /\ preferred' = Locked
  /\ bound' = {p \in lock.bind : p[1] \notin named}
  /\ refresh' = named
  /\ fetched' = {}
  /\ at' = "resolve" /\ failure' = NoFailure
  /\ commands' = commands + 1
  /\ UNCHANGED project

\* MissingMetadata: everything that is missing is fetched, once.
FetchMissing(missing) ==
  LET names == {w.name : w \in missing} IN
  IF names \cap fetched = {} THEN Fetch(names)
  ELSE \E w \in missing : w.name \in fetched /\ Fail("metadata", w.name, w.reqs)

\* Mutant: known metadata that does not satisfy is a failure at once.
RetryUnsatisfied_Stale(w) == Fail("candidate", w.name, w.reqs)

\* MissingCandidate and Conflict: the known metadata may be only what the lock
\* recorded, so the name is fetched before the failure is final.
RetryUnsatisfied(w) ==
  IF w.name \in fetched THEN Fail("candidate", w.name, w.reqs)
  ELSE Fetch({w.name})

Constrain(d) ==
  /\ bound' = {q \in bound : q[1] # d.name}
  /\ refresh' = refresh \cup {d.name}
  /\ roots' = roots \cup {d}
  /\ UNCHANGED <<project, pinned, records, fetched, preferred, at, failure, commands>>

\* Mutant: a provider that was released already is released again.
ReleaseProvider_Again(d, rooted) ==
  IF d.name \notin RootNames THEN Fail("peer", d.name, {d.req}) ELSE Constrain(d)

\* The provider gives up its locked version and takes the peer's range as one
\* more constraint, once.
ReleaseProvider(d, rooted) ==
  LET locked == {q \in rooted : q[1] = d.name} \cap preferred # {}
      first == {q \in bound : q[1] = d.name} # {} \/ (locked /\ d.name \notin refresh)
  IN  IF d.name \in RootNames /\ first THEN Constrain(d)
      ELSE Fail("peer", d.name, {d.req})

\* PeerDependency: first the metadata the comparison needs, then the package
\* gives up its locked version, then the provider does.
RepairPeer(p, d, rooted) ==
  IF d.req.tag /\ d.name \in RootNames /\ d.name \notin fetched THEN Fetch({d.name})
  ELSE IF p[1] \notin fetched THEN Fetch({p[1]})
  ELSE IF p \in preferred
  THEN /\ preferred' = preferred \ {p}
       /\ bound' = bound \ {p}
       /\ UNCHANGED <<project, roots, pinned, records, fetched, refresh, at, failure, commands>>
  ELSE ReleaseProvider(d, rooted)

\* A resolution whose optional dependencies are all known is final; the lock
\* binds the roots, the edges and the peer contexts it selected.
Complete(selected, rooted) ==
  LET frontier == {o.name : o \in UNION {records[p].opts : p \in selected}} \ fetched
  IN  IF frontier # {} THEN Fetch(frontier)
      ELSE /\ at' = "done"
           /\ lock' = [bind |-> rooted,
                       edges |-> {<<p, q>> \in selected \X selected : q \in Children(p)},
                       peers |-> {<<p, q>> \in selected \X rooted :
                                    \E d \in records[p].peers : d.name = q[1]}]
           /\ UNCHANGED <<registry, published, manifest, solver, failure, commands>>

\* One round of resolve_with_preferences.  The resolver stops at the first
\* edge or peer that fails; which one is left open.
Round ==
  /\ at = "resolve"
  /\ LET rooted == RootsSelected
         selected == Reach(rooted)
         wanted == Wanted(selected)
         missing == {w \in wanted : Usable(w.name) = {}}
         unsatisfied == {w \in wanted : /\ Usable(w.name) # {}
                                        /\ Candidates(w.name, w.reqs) = {}}
         broken == BrokenPeers(selected, rooted)
     IN  IF unsatisfied # {} THEN \E w \in unsatisfied : RetryUnsatisfied(w)
         ELSE IF missing # {} THEN FetchMissing(missing)
         ELSE IF broken # {} THEN \E b \in broken : RepairPeer(b[1], b[2], rooted)
         ELSE Complete(selected, rooted)

----------------------------------------------------------------------------
\* Between commands.
Settle ==
  /\ at \in {"done", "failed"}
  /\ at' = "idle" /\ failure' = NoFailure
  /\ roots' = {} /\ pinned' = NoPackages /\ records' = NoPackages
  /\ fetched' = {} /\ preferred' = {} /\ bound' = {} /\ refresh' = {}
  /\ UNCHANGED <<project, commands>>

Publish ==
  /\ at = "idle" /\ commands < MaxCommands /\ published # Packages
  /\ published' = Packages
  /\ UNCHANGED <<registry, manifest, lock, solver, at, failure, commands>>

Edit ==
  /\ at = "idle" /\ commands < MaxCommands /\ manifest' \in Manifests
  /\ UNCHANGED <<registry, published, lock, solver, at, failure, commands>>

Next == (\E named \in SUBSET Names : Begin(named)) \/ Round \/ Settle \/ Publish \/ Edit

Spec == Init /\ [][Next]_vars

----------------------------------------------------------------------------
Truth(req, p) == Admits(req, p, registry)
Below(bind, edges) ==
  LET RECURSIVE Down(_)
      Down(S) == LET more == {e[2] : e \in {f \in edges : f[1] \in S}} \ S
                 IN  IF more = {} THEN S ELSE Down(S \cup more)
  IN  Down(bind)

PeerMet(d, p) ==
  \/ \E q \in lock.bind : q[1] = d.name /\ Truth(d.req, q)
  \/ d.name \in registry[p].optPeers /\ \A q \in lock.bind : q[1] # d.name

\* What a resolution locks is a valid graph of the published packages:
\* every root is bound to a version its manifest admits, every dependency of
\* every package, by the registry's own ranges and not by what an older lock
\* recorded, is met by exactly one edge, every package is reached, and every
\* required peer is met by a root.
GraphIsValid ==
  at = "done" =>
    LET all == Locked IN
    /\ all \subseteq published
    /\ \A d \in manifest : \E p \in lock.bind : p[1] = d.name /\ Truth(d.req, p)
    /\ \A p \in all : \A d \in registry[p].deps :
         Cardinality({e \in lock.edges : e[1] = p /\ e[2][1] = d.name}) = 1
    /\ \A e \in lock.edges : \E d \in registry[e[1]].deps \cup registry[e[1]].opts :
         d.name = e[2][1] /\ Truth(d.req, e[2])
    /\ \A p \in all : \A d \in registry[p].peers :
         d.name \in registry[p].optPeers \/ PeerMet(d, p)
    /\ all = Below(lock.bind, lock.edges)

\* An optional peer that a root provides is provided by a version the package
\* admits: resolution rejects an incompatible provider.
OptionalPeersHold ==
  at = "done" => \A p \in Locked : \A d \in registry[p].peers : PeerMet(d, p)

\* The resolver never fails on stale knowledge: when it says that no version
\* of a package satisfies a requirement, no published one does.
FailureIsReal ==
  at = "failed" /\ failure.why \in {"candidate", "metadata"} =>
    ~\E p \in published : /\ p[1] = failure.name
                          /\ registry[p].usable
                          /\ \A r \in failure.reqs : Truth(r, p)

\* A root that was not named by the command and whose locked version still
\* satisfies the manifest keeps that version, with everything below it,
\* whatever has been published since; the exception is a preference that a
\* broken peer made the resolver release.
LockedStays ==
  [][at = "resolve" /\ at' = "done" =>
       \A p \in lock.bind :
         /\ p[1] \in {d.name : d \in manifest} \ refresh
         /\ \A d \in manifest : d.name = p[1] => Truth(d.req, p)
         /\ Locked \subseteq preferred
         => /\ p \in lock'.bind
            /\ {e \in lock.edges : e[1] \in Below({p}, lock.edges)} \subseteq lock'.edges]_vars

\* The loop ends: a round that does not finish learns a name, gives up a
\* locked version or refreshes a root, and never takes one of these back, so
\* there are no more rounds than names and locked packages.
RoundsProgress ==
  [][Round /\ at' = "resolve" =>
       /\ fetched \subseteq fetched' /\ refresh \subseteq refresh'
       /\ preferred' \subseteq preferred /\ bound' \subseteq bound
       /\ <<fetched, refresh, preferred>>' # <<fetched, refresh, preferred>>]_vars

\* Resolution is right about the registry in both directions.
ResolutionIsExact == GraphIsValid /\ FailureIsReal

\* Resolution changes no more than it must, and comes to an end.
ResolutionIsStable == LockedStays /\ RoundsProgress
=============================================================================
