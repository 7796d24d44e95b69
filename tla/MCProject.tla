------------------------------ MODULE MCProject -----------------------------
(***************************************************************************)
(* Parts of one installation that share no state, side by side: the lock   *)
(* and its replay, the layout of node_modules, the hooks of dependencies,  *)
(* and the import of an npm lock. In a behaviour one of them runs.         *)
(***************************************************************************)
EXTENDS LockedInstall, SmallProjects

CONSTANTS
  MaxChanges, MaxInstalls,
  Platforms, MaxImportChanges, MaxImports

G == INSTANCE SmallGraphs
H == INSTANCE SmallHooks
P == INSTANCE SmallNpmLocks

VARIABLES
  which,  \* the part that runs
  link_graph, link_platform, link_owned, link_at, link_placed, link_pending,
  link_reachable, link_changed, link_staged, link_bins,
  hook_project, hook_policy, hook_tool, hook_system, hook_keyfile, hook_store,
  hook_lock, hook_installed, hook_cmd, hook_last, hook_serial, hook_fresh,
  hook_changes, hook_commands,
  npm_npm, npm_manifests, npm_origins, npm_host, npm_served, npm_lock,
  npm_store, npm_cmd, npm_last, npm_ready, npm_changes, npm_commands

Link == INSTANCE Layout WITH
  graph <- link_graph, platform <- link_platform, owned <- link_owned, at <-
  link_at, placed <- link_placed, pending <- link_pending, reachable <-
  link_reachable, changed <- link_changed, staged <- link_staged, bins <-
  link_bins, Rank <- G!SmallRank, Graphs <- G!SmallGraphSet, Outputs <-
  G!SmallOutputs
linkVars ==
  <<link_graph, link_platform, link_owned, link_at, link_placed, link_pending,
    link_reachable, link_changed, link_staged, link_bins>>

Hook == INSTANCE DependencyHooks WITH
  project <- hook_project, policy <- hook_policy, tool <- hook_tool, system <-
  hook_system, keyfile <- hook_keyfile, store <- hook_store, lock <- hook_lock,
  installed <- hook_installed, cmd <- hook_cmd, last <- hook_last, serial <-
  hook_serial, fresh <- hook_fresh, changes <- hook_changes, commands <-
  hook_commands, Graphs <- H!SmallHookGraphs, Policies <- H!SmallPolicies,
  Digests <- H!SmallHookDigests, MaxCommands <- MaxInstalls
hookVars ==
  <<hook_project, hook_policy, hook_tool, hook_system, hook_keyfile,
    hook_store, hook_lock, hook_installed, hook_cmd, hook_last, hook_serial,
    hook_fresh, hook_changes, hook_commands>>

Npm == INSTANCE NpmImport WITH
  npm <- npm_npm, manifests <- npm_manifests, origins <- npm_origins, host <-
  npm_host, served <- npm_served, lock <- npm_lock, store <- npm_store, cmd <-
  npm_cmd, last <- npm_last, ready <- npm_ready, changes <- npm_changes,
  commands <- npm_commands, NpmLocks <- P!SmallNpmLocks, MaxChanges <-
  MaxImportChanges, MaxCommands <- MaxImports
npmVars ==
  <<npm_npm, npm_manifests, npm_origins, npm_host, npm_served, npm_lock,
    npm_store, npm_cmd, npm_last, npm_ready, npm_changes, npm_commands>>

everything ==
  <<which, vars, linkVars, hookVars, npmVars>>

\* A part that does not run stays in one initial state.
HostInit ==
  /\ which \in {"lock", "layout", "hooks", "npm"}
  /\ Init
  /\ which # "lock" => project = Alone([r |-> Only("r", 2)]) /\ host = "unix" /\ routes = "npmjs"
  /\ Link!Init
  /\ which # "layout" => link_graph = G!Crossing /\ link_platform = "unix" /\ link_owned
  /\ Hook!Init
  /\ which # "hooks" => hook_project = H!BothBuild(1) /\ hook_policy = {}
  /\ hook_tool = 1 /\ hook_system = 1
  /\ Npm!Init
  /\ which # "npm" => npm_npm = <<"foreign", 1, "dependency", 0>> /\ npm_host = "linux"

RunLock == /\ which = "lock" /\ Next
           /\ UNCHANGED <<which, linkVars, hookVars, npmVars>>
RunLink == /\ which = "layout" /\ Link!Next
           /\ UNCHANGED <<which, vars, hookVars, npmVars>>
RunHook == /\ which = "hooks" /\ Hook!Next
           /\ UNCHANGED <<which, vars, linkVars, npmVars>>
RunNpm == /\ which = "npm" /\ Npm!Next
          /\ UNCHANGED <<which, vars, linkVars, hookVars>>

HostNext ==
  \/ RunLock
  \/ RunLink
  \/ RunHook
  \/ RunNpm

HostSpec == HostInit /\ [][HostNext]_everything

-----------------------------------------------------------------------------
\* A finished stage is verified, bounded and unambiguous (Layout).
StageIsSound == Link!StageIsSound

\* Installed trees are built as approved, and what was built is replayed
\* (DependencyHooks).
HooksAreSound == Hook!HooksAreSound

\* An import is what npm selected and stays installable (NpmImport).
ImportIsFaithful == Npm!ImportIsFaithful

\* A published import was checked against the manifests in place (NpmImport).
ImportIsCurrent == Npm!ImportIsCurrent

=============================================================================
