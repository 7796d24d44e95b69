------------------------------- MODULE MCHost -------------------------------
(***************************************************************************)
(* Parts of one host that share no state, side by side: the standalone     *)
(* tools, the claim of their root, the choice of versions, the upgrade of  *)
(* Tapid itself and a contained script. In a behaviour one of them runs.   *)
(***************************************************************************)
EXTENDS ToolCatalog, SmallRegistries, TLC

CONSTANTS
  Claimers, MaxDeaths,
  MaxCommands,
  Torn, Outage, Rejected, Minimum, Endpoints, MaxUpgradeFaults,
  Descendants, Limit, Turn, MaxWritten, MaxScriptFaults

SmallArtifacts == {<<1, 1>>, <<2, 1>>, <<2, 2>>}

VARIABLES
  which,  \* the part that runs
  root_entries, root_stage, root_orphan, root_exists, root_at, root_deaths,
  res_registry, res_published, res_manifest, res_lock, res_at, res_roots,
  res_pinned, res_records, res_fetched, res_preferred, res_bound, res_refresh,
  res_failure, res_commands,
  up_exe, up_state, up_aside, up_cache, up_at, up_flow, up_pick, up_old,
  up_prev, up_report, up_faults,
  run_policy, run_at, run_failed, run_ended, run_child, run_init, run_procs,
  run_doomed, run_frames, run_written, run_pipe, run_kept, run_events,
  run_result, run_completion, run_faults

Root == INSTANCE ToolsRoot WITH
  entries <- root_entries, stage <- root_stage, orphan <- root_orphan, exists
  <- root_exists, at <- root_at, deaths <- root_deaths
rootVars ==
  <<root_entries, root_stage, root_orphan, root_exists, root_at, root_deaths>>

Resolve == INSTANCE Resolution WITH
  registry <- res_registry, published <- res_published, manifest <-
  res_manifest, lock <- res_lock, at <- res_at, roots <- res_roots, pinned <-
  res_pinned, records <- res_records, fetched <- res_fetched, preferred <-
  res_preferred, bound <- res_bound, refresh <- res_refresh, failure <-
  res_failure, commands <- res_commands, Names <- SmallNames, Versions <-
  SmallVersions, Registries <- SmallRegistrySet, Manifests <- SmallManifests
resolveVars ==
  <<res_registry, res_published, res_manifest, res_lock, res_at, res_roots,
    res_pinned, res_records, res_fetched, res_preferred, res_bound,
    res_refresh, res_failure, res_commands>>

Up == INSTANCE Upgrade WITH
  exe <- up_exe, state <- up_state, aside <- up_aside, cache <- up_cache, at <-
  up_at, flow <- up_flow, pick <- up_pick, old <- up_old, prev <- up_prev,
  report <- up_report, faults <- up_faults, Artifacts <- SmallArtifacts,
  MaxFaults <- MaxUpgradeFaults
upVars ==
  <<up_exe, up_state, up_aside, up_cache, up_at, up_flow, up_pick, up_old,
    up_prev, up_report, up_faults>>

Script == INSTANCE ManagedRun WITH
  policy <- run_policy, at <- run_at, failed <- run_failed, ended <- run_ended,
  child <- run_child, init <- run_init, procs <- run_procs, doomed <-
  run_doomed, frames <- run_frames, written <- run_written, pipe <- run_pipe,
  kept <- run_kept, events <- run_events, result <- run_result, completion <-
  run_completion, faults <- run_faults, Procs <- Descendants, MaxFaults <-
  MaxScriptFaults
scriptVars ==
  <<run_policy, run_at, run_failed, run_ended, run_child, run_init, run_procs,
    run_doomed, run_frames, run_written, run_pipe, run_kept, run_events,
    run_result, run_completion, run_faults>>

everything ==
  <<which, vars, rootVars, resolveVars, upVars, scriptVars>>

\* A part that does not run stays in one initial state.
HostInit ==
  /\ which \in {"tools", "root", "resolution", "upgrade", "script"}
  /\ Init
  /\ Root!Init
  /\ Resolve!Init
  /\ which # "resolution" => <<res_registry, res_published, res_manifest>> = SmallProject
  /\ Up!Init
  /\ which # "upgrade" => up_exe = None
  /\ Script!Init
  /\ which # "script" => run_policy = [managed |-> FALSE, limits |-> {}]

RunTools == /\ which = "tools" /\ Next
            /\ UNCHANGED <<which, rootVars, resolveVars, upVars, scriptVars>>
RunRoot == /\ which = "root" /\ Root!Next
           /\ UNCHANGED <<which, vars, resolveVars, upVars, scriptVars>>
RunResolve == /\ which = "resolution" /\ Resolve!Next
              /\ UNCHANGED <<which, vars, rootVars, upVars, scriptVars>>
RunUp == /\ which = "upgrade" /\ Up!Next
         /\ UNCHANGED <<which, vars, rootVars, resolveVars, scriptVars>>
RunScript == /\ which = "script" /\ Script!Next
             /\ UNCHANGED <<which, vars, rootVars, resolveVars, upVars>>

HostNext ==
  \/ RunTools
  \/ RunRoot
  \/ RunResolve
  \/ RunUp
  \/ RunScript

HostSpec == HostInit /\ [][HostNext]_everything

-----------------------------------------------------------------------------
\* No interrupted initialization makes the root of the tools unusable
\* (ToolsRoot).
RootIsClaimable == Root!RootIsClaimable

\* What is locked satisfies every requirement of the registry, and resolution
\* fails only where no published version would do (Resolution).
ResolutionIsExact == Resolve!ResolutionIsExact

\* Locked versions that still fit are kept, and every round of the loop brings
\* its end nearer (Resolution).
ResolutionIsStable == Resolve!ResolutionIsStable

\* A recorded release is always cached (Upgrade).
RecoveryIsCached == Up!RecoveryIsCached

\* No command leaves an older executable (Upgrade).
NeverOlder == Up!NeverOlder

\* An upgrade reports what became of the executable and the state (Upgrade).
UpgradeReportIsTrue == Up!UpgradeReportIsTrue

\* A contained run that returned left no process behind, and its captured
\* output and reported ending agree (ManagedRun).
RunIsAccounted == Script!RunIsAccounted

Symmetry == Permutations(Tools) \cup Permutations(Commands)

=============================================================================
