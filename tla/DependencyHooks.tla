--------------------------- MODULE DependencyHooks ---------------------------
(***************************************************************************)
(* The installation hooks of dependencies: which of them an install runs,   *)
(* what a run is recorded as, and when a recorded output stands in for a    *)
(* run (application/dependency_scripts.rs, tapid-runner/src/lifecycle.rs,   *)
(* tapid-store/src/lifecycle.rs, tapid-manifest/src/lifecycle.rs).          *)
(*                                                                          *)
(* A tree is the archive it comes from and the runs that changed it.  A run *)
(* is told apart from every other by a serial number, so nothing here       *)
(* supposes that a hook builds the same bytes twice.  A digest stands for   *)
(* what it is taken of.                                                     *)
(***************************************************************************)
EXTENDS Naturals, Sequences, FiniteSets, SequencesExt

CONSTANTS
  Graphs,       \* the graphs resolution may select for the project
  Policies,     \* the documents tapid.lifecycle.toml may be: sets of approvals
  Digests,      \* the bytes a pinned tool, or the system's tools, may have
  MaxChanges,   \* changes made around the commands
  MaxCommands

VARIABLES
  project,      \* the graph the manifest resolves to now
  policy, tool, system,   \* the document, the pinned tool and the system now
  keyfile,      \* .tapid-lifecycle-key: absent, torn, or its number
  store,        \* the trees the store has published
  lock,         \* tapid.lock: a graph and the outputs of each package
  installed,    \* the tree of each package in node_modules
  cmd,          \* the install under way
  last,         \* how the last one ended
  serial,       \* numbers runs and keys apart
  fresh,        \* nothing changed since the lock was written
  changes, commands

vars == <<project, policy, tool, system, keyfile, store, lock, installed, cmd,
          last, serial, fresh, changes, commands>>

NoKey == 0
Torn == 1
NoMap == [p \in {} |-> p]
NoLock == [graph |-> "none"]
Idle == [at |-> "idle"]
Put(f, x, v) == [y \in DOMAIN f \cup {x} |-> IF y = x THEN v ELSE f[y]]

----------------------------------------------------------------------------
\* dependency_lifecycle_plan: the hooks of a readable manifest, in the order
\* they run.  binding.gyp without an install or preinstall script asks for a
\* build of its own, which is put first.
Phases == <<"preinstall", "install", "postinstall", "prepublish", "preprepare",
            "prepare", "postprepare">>
Runnable == {"preinstall", "install", "postinstall"}

Implicit(g, p) == g.gyp[p] /\ g.scripts[p] \cap {"install", "preinstall"} = {}

Hooks(g, p) ==
  LET named == SelectSeq(Phases, LAMBDA hook : hook \in g.scripts[p])
  IN IF Implicit(g, p) THEN <<"install">> \o named ELSE named

\* Lockfile::source_graph is the graph itself; source trees are what the
\* verified archives hold.
Source(g, p) == [package |-> p, archive |-> g.archive[p], runs |-> <<>>]
SourceTrees(g) == [p \in g.packages |-> Source(g, p)]

Closure(g, p) ==
  LET grow[S \in SUBSET g.packages] ==
        LET more == S \cup UNION {g.deps[q] : q \in S}
        IN IF more = S THEN S ELSE grow[more]
  IN grow[g.deps[p]]

\* dependency_order: packages after their dependencies, roots in key order.
\* No package is reached while it is being visited.
Acyclic(g) == \A p \in g.packages : p \notin Closure(g, p)
InKeyOrder(g) == SelectSeq(g.keys, LAMBDA p : p \in g.packages)

RECURSIVE Visit(_, _, _)
Visit(g, order, p) ==
  IF p \in ToSet(order) THEN order
  ELSE Append(FoldLeft(LAMBDA done, child : Visit(g, done, child), order,
                       SelectSeq(g.keys, LAMBDA q : q \in g.deps[p])), p)

DependencyOrder(g) ==
  FoldLeft(LAMBDA done, p : Visit(g, done, p), <<>>, InKeyOrder(g))

\* approval_for: the exact approval of a hook, or a refusal when the document
\* names the package's hook for other bytes.
Candidates(document, g, p, hook) ==
  {a \in document : a.package = g.name[p] /\ a.hook = hook}

Selected(document, g, p, hook) ==
  {a \in Candidates(document, g, p, hook) :
     a.version = g.version[p] /\ a.archive = g.archive[p] /\ a.script = "exact"}

Rejected(document, g, p, hook) ==
  Candidates(document, g, p, hook) # {} /\ Selected(document, g, p, hook) = {}

\* invocation_approval: what the override approves, with the tool of now.
Invocation(g, p, hook) ==
  [package |-> g.name[p], version |-> g.version[p], archive |-> g.archive[p],
   hook |-> hook, script |-> "exact", dependencies |-> ~g.workspace, tool |-> tool]

\* Mutant: a recipe that leaves out what the dependencies were built into.
DerivedKey_NoOutputs(document, approval, toolchain, source, completed, outputs) ==
  [approval |-> approval, document |-> document, toolchain |-> toolchain,
   source |-> source, outputs |-> outputs]

\* derived_key: a recipe binds the approval, the whole document, the tools and
\* the graph the hook can see, outputs included.
DerivedKey(document, approval, toolchain, source, completed, outputs) ==
  [approval |-> approval, document |-> document, toolchain |-> toolchain,
   source |-> source, completed |-> completed, outputs |-> outputs]

----------------------------------------------------------------------------
Init ==
  /\ project \in Graphs /\ policy \in Policies
  /\ tool \in Digests /\ system \in Digests
  /\ keyfile = NoKey /\ store = {}
  /\ lock = NoLock /\ installed = NoMap
  /\ cmd = Idle
  /\ last = [result |-> "none"]
  /\ serial = 2 /\ fresh = FALSE /\ changes = 0 /\ commands = 0

Enabled(overrides) == overrides.allow \/ overrides.without

\* A command ends with its result; the stages go with it.
End(result) ==
  /\ last' = [result |-> result, online |-> cmd.online, overrides |-> cmd.overrides,
              graph |-> cmd.graph, policy |-> cmd.policy, system |-> cmd.system]
  /\ cmd' = Idle

Refuse ==
  /\ End("refused")
  /\ UNCHANGED <<project, policy, tool, system, keyfile, store, lock, installed,
                 serial, fresh, changes, commands>>

\* can_replay_online as far as hooks are concerned: with no approvals and no
\* outputs an ordinary install replays the lock.
Replayable(overrides) ==
  /\ lock # NoLock /\ lock.graph = project
  /\ policy = {} /\ \A p \in DOMAIN lock.derived : lock.derived[p] = <<>>
  /\ ~Enabled(overrides)

\* perform_install up to apply, and apply up to its loop.  A frozen install
\* without its lock ends here, and so does one that overrides the policy or
\* that has approvals for a graph with a cycle.
Begin(mode, overrides) ==
  LET online == mode = "install" /\ ~Replayable(overrides)
      ordered == policy # {} \/ overrides.allow
  IN /\ cmd = Idle /\ commands < MaxCommands
     /\ mode = "frozen" => ~Enabled(overrides) /\ lock # NoLock /\ lock.graph = project
     /\ ordered => Acyclic(project)
     /\ cmd' = [at |-> "packages", mode |-> mode, online |-> online,
                overrides |-> overrides, graph |-> project, policy |-> policy,
                cached |-> lock, system |-> system, changes |-> changes,
                order |-> IF ordered THEN DependencyOrder(project)
                                     ELSE InKeyOrder(project),
                todo |-> <<>>, outputs |-> <<>>, bypassed |-> FALSE,
                completed |-> NoMap, trees |-> SourceTrees(project), staged |-> {}]
     /\ commands' = commands + 1
     /\ UNCHANGED <<project, policy, tool, system, keyfile, store, lock, installed,
                    last, serial, fresh, changes>>

Here == Head(cmd.order)
Hook == Head(cmd.todo)
InHooks == cmd.at = "hooks" /\ cmd.todo # <<>>

\* A package is opened: its hooks are read from its source tree.  A manifest
\* that cannot be read stops an install that may run something of the package.
Discover ==
  /\ cmd.at = "packages" /\ cmd.order # <<>>
  /\ LET g == cmd.graph
         needed == cmd.overrides.allow \/ \E a \in cmd.policy : a.package = g.name[Here]
     IN IF ~g.readable[Here] /\ needed THEN Refuse
        ELSE /\ cmd' = [cmd EXCEPT
                  !.at = "hooks",
                  !.todo = IF g.readable[Here] THEN Hooks(g, Here) ELSE <<>>,
                  !.outputs = <<>>, !.bypassed = FALSE]
             /\ UNCHANGED <<project, policy, tool, system, keyfile, store, lock,
                            installed, last, serial, fresh, changes, commands>>

Chosen ==
  LET selected == Selected(cmd.policy, cmd.graph, Here, Hook)
  IN IF selected = {} /\ cmd.overrides.allow /\ Hook \in Runnable
     THEN {Invocation(cmd.graph, Here, Hook)} ELSE selected

\* A hook without approval is skipped, but not the build npm requires.
SkipHook ==
  /\ InHooks /\ Chosen = {}
  /\ IF \/ Rejected(cmd.policy, cmd.graph, Here, Hook) /\ ~cmd.overrides.allow
        \/ Implicit(cmd.graph, Here) /\ Hook = "install"
     THEN Refuse
     ELSE /\ cmd' = [cmd EXCEPT !.todo = Tail(@)]
          /\ UNCHANGED <<project, policy, tool, system, keyfile, store, lock,
                         installed, last, serial, fresh, changes, commands>>

----------------------------------------------------------------------------
\* run_hook: the tools are verified again as they are copied, and the tree
\* built so far is changed by a run that sees every package as it is now.  Of
\* these a run is told apart by its dependencies, which are built before it.
ToolsHold(approval) == approval.tool = tool
MayRun(approval) == approval.dependencies => ~cmd.graph.workspace

Sees(approval) ==
  IF approval.dependencies
  THEN [q \in Closure(cmd.graph, Here) |-> cmd.trees[q]] ELSE NoMap

Run(approval) ==
  [hook |-> Hook, tool |-> approval.tool, system |-> system,
   granted |-> approval \in cmd.policy, sees |-> Sees(approval), serial |-> serial]

Built(approval) == [cmd.trees[Here] EXCEPT !.runs = Append(@, Run(approval))]

\* Under an override the build stays in the stage of this install.
RunOverridden ==
  /\ InHooks /\ Enabled(cmd.overrides)
  /\ \E approval \in Chosen :
       \/ /\ cmd.graph.declared[Here] /\ cmd.online
          /\ ToolsHold(approval) /\ MayRun(approval)
          /\ cmd' = [cmd EXCEPT !.todo = Tail(@), !.bypassed = TRUE,
                                !.trees[Here] = Built(approval)]
          /\ serial' = serial + 1
          /\ UNCHANGED <<project, policy, tool, system, keyfile, store, lock,
                         installed, last, fresh, changes, commands>>
       \/ Refuse

\* The recorded output of the same recipe, authenticated by the store's key.
Recipe(approval) ==
  DerivedKey(cmd.policy, approval, <<cmd.system, approval.tool>>, cmd.graph,
             cmd.completed, cmd.outputs)

Recorded(approval) ==
  IF cmd.cached = NoLock \/ Here \notin DOMAIN cmd.cached.derived THEN {}
  ELSE {o \in ToSet(cmd.cached.derived[Here]) :
          o.hook = Hook /\ o.recipe = Recipe(approval)}

\* verified_lifecycle_snapshot.
Verified(o) == keyfile \notin {NoKey, Torn} /\ o.by = keyfile /\ o.tree \in store

Approved(approval) ==
  /\ ~Enabled(cmd.overrides)
  /\ cmd.graph.declared[Here] /\ ToolsHold(approval)

ReuseOutput ==
  InHooks /\ \E approval \in Chosen : \E o \in Recorded(approval) :
    /\ Approved(approval) /\ Verified(o)
    /\ cmd' = [cmd EXCEPT !.todo = Tail(@), !.trees[Here] = o.tree,
                          !.outputs = Append(@, o),
                          !.staged = IF cmd.online THEN @ \cup {o.tree} ELSE @]
    /\ UNCHANGED <<project, policy, tool, system, keyfile, store, lock, installed,
                   last, serial, fresh, changes, commands>>

\* attest_lifecycle_output makes the key when there is none.
KeyAfter == IF keyfile = NoKey THEN serial ELSE keyfile

BuildOutput ==
  InHooks /\ \E approval \in Chosen :
    /\ Approved(approval)
    /\ \A o \in Recorded(approval) : ~Verified(o)
    /\ cmd.online /\ MayRun(approval) /\ keyfile # Torn
    /\ LET tree == Built(approval)
           o == [hook |-> Hook, recipe |-> Recipe(approval), tree |-> tree, by |-> KeyAfter]
       IN cmd' = [cmd EXCEPT !.todo = Tail(@), !.trees[Here] = tree,
                             !.outputs = Append(@, o), !.staged = @ \cup {tree}]
    /\ keyfile' = KeyAfter
    /\ serial' = serial + 1
    /\ UNCHANGED <<project, policy, tool, system, store, lock, installed, last,
                   fresh, changes, commands>>

\* A hook fails, its tree is refused, or something it needs is missing.  The
\* key may be new all the same.
MissingOutput(approval) ==
  ~cmd.online /\ \A o \in Recorded(approval) : ~Verified(o)

StopAtHook ==
  /\ InHooks /\ ~Enabled(cmd.overrides)
  /\ \E approval \in Chosen :
       \/ ~cmd.graph.declared[Here] \/ ~ToolsHold(approval)
       \/ MissingOutput(approval)
       \/ cmd.online /\ \A o \in Recorded(approval) : ~Verified(o)
  /\ Refuse

\* A frozen install asks for exactly the outputs the lock records.
CloseFrozen == ~cmd.online => cmd.cached.derived[Here] = cmd.outputs

ClosePackage ==
  /\ cmd.at = "hooks" /\ cmd.todo = <<>>
  /\ IF ~CloseFrozen THEN Refuse
     ELSE /\ cmd' = [cmd EXCEPT !.at = "packages", !.order = Tail(@),
                                !.completed = Put(@, Here, cmd.outputs)]
          /\ UNCHANGED <<project, policy, tool, system, keyfile, store, lock,
                         installed, last, serial, fresh, changes, commands>>

\* The store's publication, the lock and node_modules change together
\* (InstallTransaction).  A replay leaves the lock alone.
Commit ==
  /\ cmd.at = "packages" /\ cmd.order = <<>>
  /\ store' = store \cup cmd.staged
  /\ installed' = cmd.trees
  /\ lock' = IF cmd.online THEN [graph |-> cmd.graph, derived |-> cmd.completed]
             ELSE lock
  /\ fresh' = IF cmd.online THEN ~Enabled(cmd.overrides) /\ changes = cmd.changes
              ELSE fresh
  /\ End("done")
  /\ UNCHANGED <<project, policy, tool, system, keyfile, serial, changes, commands>>

----------------------------------------------------------------------------
\* What happens around the commands.  The system's tools change only between
\* them; the document, the pinned tool and the store change at any time.
Change ==
  /\ changes < MaxChanges /\ changes' = changes + 1
  /\ fresh' = FALSE
  /\ \/ /\ project' \in Graphs \ {project}
        /\ UNCHANGED <<policy, tool, system, keyfile, store>>
     \/ /\ policy' \in Policies \ {policy}
        /\ UNCHANGED <<project, tool, system, keyfile, store>>
     \/ /\ tool' \in Digests \ {tool}
        /\ UNCHANGED <<project, policy, system, keyfile, store>>
     \/ /\ cmd = Idle /\ system' \in Digests \ {system}
        /\ UNCHANGED <<project, policy, tool, keyfile, store>>
     \/ /\ \E tree \in store : store' = store \ {tree}
        /\ UNCHANGED <<project, policy, tool, system, keyfile>>
     \/ /\ keyfile # NoKey /\ keyfile' = NoKey
        /\ UNCHANGED <<project, policy, tool, system, store>>
  /\ UNCHANGED <<lock, installed, cmd, last, serial, commands>>

\* The process dies; a key it was writing stays as it was left.
Crash ==
  /\ cmd # Idle /\ changes < MaxChanges /\ changes' = changes + 1
  /\ cmd' = Idle /\ last' = [result |-> "none"]
  /\ \/ UNCHANGED keyfile
     \/ /\ InHooks /\ cmd.online /\ ~Enabled(cmd.overrides)
        /\ keyfile = NoKey /\ keyfile' = Torn
  /\ UNCHANGED <<project, policy, tool, system, store, lock, installed, serial,
                 fresh, commands>>

Overrides == [allow : BOOLEAN, without : BOOLEAN]

Next ==
  \/ \E mode \in {"install", "frozen"} : \E overrides \in Overrides : Begin(mode, overrides)
  \/ Discover \/ SkipHook \/ RunOverridden \/ ReuseOutput \/ BuildOutput
  \/ StopAtHook \/ ClosePackage \/ Commit
  \/ Change \/ Crash

Spec == Init /\ [][Next]_vars

----------------------------------------------------------------------------
\* After an install that overrode nothing, every installed tree is its archive
\* changed by exactly the hooks the document approves, in order, each run by
\* the pinned tool on the system the install found, and each run saw the very
\* dependency trees that are installed beside it.  Recorded outputs, rebuilt
\* dependencies, lost trees and changed documents all meet here
\* (dependency_scripts.rs:346-382).
ApprovedHooks(p) ==
  LET g == last.graph
  IN IF ~g.readable[p] THEN <<>>
     ELSE SelectSeq(Hooks(g, p), LAMBDA hook : Selected(last.policy, g, p, hook) # {})

RunIsCurrent(p, run, hook) ==
  /\ run.hook = hook /\ run.system = last.system /\ run.granted
  /\ \E a \in Selected(last.policy, last.graph, p, hook) :
       /\ run.tool = a.tool
       /\ run.sees = IF a.dependencies
                     THEN [q \in Closure(last.graph, p) |-> installed[q]] ELSE NoMap

BuildsAreCurrent ==
  (last.result = "done" /\ ~Enabled(last.overrides)) =>
    /\ DOMAIN installed = last.graph.packages
    /\ \A p \in last.graph.packages :
         LET hooks == ApprovedHooks(p)
             runs == installed[p].runs
         IN /\ installed[p].archive = last.graph.archive[p]
            /\ Len(runs) = Len(hooks)
            /\ \A i \in DOMAIN hooks : RunIsCurrent(p, runs[i], hooks[i])

\* A lock that an install has just written is replayed: as long as nothing
\* changes around it no replay is refused for want of an output
\* (dependency_scripts.rs:383-394 and 448-452).
FreshLockReplays ==
  (last.result = "refused" /\ ~last.online) => ~fresh

\* What is installed was built as approved, and what was built is replayed.
HooksAreSound == BuildsAreCurrent /\ FreshLockReplays
=============================================================================
