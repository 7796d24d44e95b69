------------------------------ MODULE MCMachine -----------------------------
(***************************************************************************)
(* Parts of one machine that share no state, side by side: the store all   *)
(* projects share, contained runs on Windows, and the installer scripts of *)
(* both kinds of system. In a behaviour one of them runs. The store never  *)
(* stops; the others may.                                                  *)
(***************************************************************************)
EXTENDS SharedStore, TLC

CONSTANTS
  Runs, Objects, MaxKids, MaxFilters,
  MaxScripts, MaxStops, MaxStartupEdits

SmallWants == [r \in Runs |-> IF r = "u1" THEN <<"dir", "file">> ELSE <<"dir">>]

Startup(exists, line, block) ==
  [exists |-> exists, text |-> IF exists THEN 1 ELSE 0, line |-> line, block |-> block]
NoStartup == Startup(FALSE, FALSE, "none")
Home(default, profile, bashrc) ==
  [default |-> default,
   profile |-> [bash_profile |-> NoStartup, profile |-> profile, bashrc |-> bashrc]]
SmallHomes ==
  {Home(FALSE, NoStartup, Startup(TRUE, FALSE, "none")),
   Home(FALSE, Startup(TRUE, TRUE, "none"), NoStartup),
   Home(TRUE, NoStartup, Startup(TRUE, FALSE, "legacy"))}

VARIABLES
  which,  \* the part that runs
  win_run, win_acl, win_mutex, win_dying, win_service, win_conns, win_filters,
  win_admin, win_faults,
  path_default, path_profile, path_root, path_previous, path_marker,
  path_binary, path_managed, path_cmd, path_outcome, path_edited,
  path_commands, path_faults,
  reg_path, reg_receipt, reg_marker, reg_binary, reg_cmd, reg_outcome,
  reg_edits, reg_commands, reg_faults

Win == INSTANCE WindowsRun WITH
  run <- win_run, acl <- win_acl, mutex <- win_mutex, dying <- win_dying,
  service <- win_service, conns <- win_conns, filters <- win_filters, admin <-
  win_admin, faults <- win_faults, Wants <- SmallWants, MaxFaults <- MaxStops
winVars ==
  <<win_run, win_acl, win_mutex, win_dying, win_service, win_conns,
    win_filters, win_admin, win_faults>>

Path == INSTANCE PathReceipts WITH
  default <- path_default, profile <- path_profile, root <- path_root, previous
  <- path_previous, marker <- path_marker, binary <- path_binary, managed <-
  path_managed, cmd <- path_cmd, outcome <- path_outcome, edited <-
  path_edited, commands <- path_commands, faults <- path_faults, Homes <-
  SmallHomes, MaxCommands <- MaxScripts, MaxFaults <- MaxStops, MaxEdits <-
  MaxStartupEdits
pathVars ==
  <<path_default, path_profile, path_root, path_previous, path_marker,
    path_binary, path_managed, path_cmd, path_outcome, path_edited,
    path_commands, path_faults>>

UPath == INSTANCE UserPath WITH
  path <- reg_path, receipt <- reg_receipt, marker <- reg_marker, binary <-
  reg_binary, cmd <- reg_cmd, outcome <- reg_outcome, edits <- reg_edits,
  commands <- reg_commands, faults <- reg_faults, MaxCommands <- MaxScripts,
  MaxFaults <- MaxStops, MaxEdits <- MaxStartupEdits
uPathVars ==
  <<reg_path, reg_receipt, reg_marker, reg_binary, reg_cmd, reg_outcome,
    reg_edits, reg_commands, reg_faults>>

everything ==
  <<which, vars, winVars, pathVars, uPathVars>>

\* A part that does not run stays in one initial state.
HostInit ==
  /\ which \in {"store", "windows", "paths", "registry"}
  /\ Init
  /\ which # "store" => installed = {}
  /\ Win!Init
  /\ Path!Init
  /\ which # "paths" => path_default
  /\ UPath!Init
  /\ which # "registry" => reg_path = UPath!Unset

RunStore == /\ which = "store" /\ Next
            /\ UNCHANGED <<which, winVars, pathVars, uPathVars>>
RunWin == /\ which = "windows" /\ Win!Next
          /\ UNCHANGED <<which, vars, pathVars, uPathVars>>
RunPath == /\ which = "paths" /\ Path!Next
           /\ UNCHANGED <<which, vars, winVars, uPathVars>>
RunUPath == /\ which = "registry" /\ UPath!Next
            /\ UNCHANGED <<which, vars, winVars, pathVars>>

Idle == which # "store" /\ UNCHANGED everything

HostNext ==
  \/ Idle
  \/ RunStore
  \/ RunWin
  \/ RunPath
  \/ RunUPath

HostSpec == HostInit /\ [][HostNext]_everything

-----------------------------------------------------------------------------
\* No contained process is without its network denial (WindowsRun).
NetworkStaysDenied == Win!NetworkStaysDenied

\* The authority of a run is there while it is used and gone when it reports
\* (WindowsRun).
AuthorityIsExact == Win!AuthorityIsExact

\* No installer script changes a byte of the user's, in a startup file or in the
\* PATH of the registry (PathReceipts, UserPath).
StartupFilesStay == Path!UserBytesStay /\ UPath!OthersPathStays

\* What an installer added can be removed, wherever a script stopped
\* (PathReceipts, UserPath).
CleanupIsPossible == Path!CleanupIsPossible /\ UPath!EntryIsOwned

Symmetry == Permutations(Projects) \cup Permutations(Digests)

=============================================================================
