------------------------------- MODULE MCLive -------------------------------
(***************************************************************************)
(* Parts of one host that share no state, side by side, with their         *)
(* fairness: the store, the standalone tools, the leases of replay copies, *)
(* and a contained script, under Linux and under Windows. In a behaviour   *)
(* one of them runs.                                                       *)
(***************************************************************************)
EXTENDS SharedStore, SequencesExt

CONSTANTS
  Tools, Commands, Invokers, Exes, Foreign, MaxStarts, MaxToolFaults, MaxEdits,
  Processes, FirstProcess, MaxLeaseFaults,
  Descendants, Limit, Turn, MaxWritten, MaxScriptFaults,
  Runs, Objects, MaxKids, MaxFilters, MaxRunFaults

SmallWants == [r \in Runs |-> <<"dir", "file">>]
SmallReservations == {<<FirstProcess, 1>>, <<FirstProcess, 2>>}

VARIABLES
  which,  \* the part that runs
  tool_catalog, tool_pending, tool_decided, tool_temp, tool_bin, tool_env,
  tool_stages, tool_holder, tool_leased, tool_pc, tool_ret, tool_todo,
  tool_visit, tool_cur, tool_job, tool_report, tool_starts, tool_faults,
  tool_edits, tool_edited,
  lease_alive, lease_dirs, lease_linked, lease_trees, lease_shared,
  lease_locked, lease_grouped, lease_registered, lease_ready, lease_at,
  lease_cur, lease_held, lease_made, lease_seek, lease_prey, lease_faults,
  run_policy, run_at, run_failed, run_ended, run_child, run_init, run_procs,
  run_doomed, run_frames, run_written, run_pipe, run_kept, run_events,
  run_result, run_completion, run_faults,
  win_run, win_acl, win_mutex, win_dying, win_service, win_conns, win_filters,
  win_admin, win_faults

Tool == INSTANCE ToolCatalog WITH
  catalog <- tool_catalog, pending <- tool_pending, decided <- tool_decided,
  temp <- tool_temp, bin <- tool_bin, env <- tool_env, stages <- tool_stages,
  holder <- tool_holder, leased <- tool_leased, pc <- tool_pc, ret <- tool_ret,
  todo <- tool_todo, visit <- tool_visit, cur <- tool_cur, job <- tool_job,
  report <- tool_report, starts <- tool_starts, faults <- tool_faults, edits <-
  tool_edits, edited <- tool_edited, Tools <- Tools, Commands <- Commands,
  Invokers <- Invokers, Exes <- Exes, Foreign <- Foreign, MaxStarts <-
  MaxStarts, MaxFaults <- MaxToolFaults, MaxEdits <- MaxEdits
toolVars ==
  <<tool_catalog, tool_pending, tool_decided, tool_temp, tool_bin, tool_env,
    tool_stages, tool_holder, tool_leased, tool_pc, tool_ret, tool_todo,
    tool_visit, tool_cur, tool_job, tool_report, tool_starts, tool_faults,
    tool_edits, tool_edited>>

Lease == INSTANCE ReplayLeases WITH
  alive <- lease_alive, dirs <- lease_dirs, linked <- lease_linked, trees <-
  lease_trees, shared <- lease_shared, locked <- lease_locked, grouped <-
  lease_grouped, registered <- lease_registered, ready <- lease_ready, at <-
  lease_at, cur <- lease_cur, held <- lease_held, made <- lease_made, seek <-
  lease_seek, prey <- lease_prey, faults <- lease_faults, Reservations <-
  SmallReservations, MaxFaults <- MaxLeaseFaults
leaseVars ==
  <<lease_alive, lease_dirs, lease_linked, lease_trees, lease_shared,
    lease_locked, lease_grouped, lease_registered, lease_ready, lease_at,
    lease_cur, lease_held, lease_made, lease_seek, lease_prey, lease_faults>>

Script == INSTANCE ManagedRun WITH
  policy <- run_policy, at <- run_at, failed <- run_failed, ended <- run_ended,
  child <- run_child, init <- run_init, procs <- run_procs, doomed <-
  run_doomed, frames <- run_frames, written <- run_written, pipe <- run_pipe,
  kept <- run_kept, events <- run_events, result <- run_result, completion <-
  run_completion, faults <- run_faults, Procs <- Descendants, MaxFaults <-
  MaxScriptFaults
scriptVars ==
  <<run_policy, run_at, run_failed, run_ended, run_child, run_init, run_procs,
    run_doomed, run_frames, run_written, run_pipe, run_kept, run_events,
    run_result, run_completion, run_faults>>

Win == INSTANCE WindowsRun WITH
  run <- win_run, acl <- win_acl, mutex <- win_mutex, dying <- win_dying,
  service <- win_service, conns <- win_conns, filters <- win_filters, admin <-
  win_admin, faults <- win_faults, Wants <- SmallWants, MaxFaults <-
  MaxRunFaults
winVars ==
  <<win_run, win_acl, win_mutex, win_dying, win_service, win_conns,
    win_filters, win_admin, win_faults>>

everything ==
  <<which, vars, toolVars, leaseVars, scriptVars, winVars>>

\* A part that does not run stays in one initial state.
HostInit ==
  /\ which \in {"store", "tools", "leases", "script", "windows"}
  /\ Init
  /\ which # "store" => installed = {}
  /\ Tool!Init
  /\ Lease!Init
  /\ Script!Init
  /\ which # "script" => run_policy = [managed |-> FALSE, limits |-> {}]
  /\ Win!Init

RunStore == /\ which = "store" /\ Next
            /\ UNCHANGED <<which, toolVars, leaseVars, scriptVars, winVars>>
RunTool == /\ which = "tools" /\ Tool!Next
           /\ UNCHANGED <<which, vars, leaseVars, scriptVars, winVars>>
RunLease == /\ which = "leases" /\ Lease!Next
            /\ UNCHANGED <<which, vars, toolVars, scriptVars, winVars>>
RunScript == /\ which = "script" /\ Script!Next
             /\ UNCHANGED <<which, vars, toolVars, leaseVars, winVars>>
RunWin == /\ which = "windows" /\ Win!Next
          /\ UNCHANGED <<which, vars, toolVars, leaseVars, scriptVars>>

HostNext ==
  \/ RunStore
  \/ RunTool
  \/ RunLease
  \/ RunScript
  \/ RunWin

HostSpec == HostInit /\ [][HostNext]_everything

\* The fairness of each part, as its own module states and explains it. Only one
\* part runs in a behaviour, so that fairness of a step of one part or another is
\* fairness of both.
StoreFair ==
  /\ \A p \in Procs : WF_vars(which = "store" /\ Run(p))
  /\ \A p \in Procs : WF_vars(which = "store" /\ (LockExclusive(p) \/ TimeOut(p)))
  /\ \A p \in Projects : WF_vars(which = "store" /\ Resume(p))
  /\ \A r \in Readers : /\ WF_vars(which = "store" /\ Read(r))
                        /\ WF_vars(which = "store" /\ (LockShared(r) \/ TimeOut(r)))
ToolFair ==
  /\ WF_toolVars(which = "tools" /\ Tool!BeginList)
  /\ WF_toolVars(which = "tools" /\ (Tool!Cleaning \/ Tool!Working))
  /\ \A p \in Tool!Procs : WF_toolVars(which = "tools" /\ Tool!Recovery(p))
  /\ \A i \in Invokers : /\ WF_toolVars(which = "tools" /\ Tool!Launch(i))
                         /\ WF_toolVars(which = "tools" /\ Tool!ChildExits(i))
LeaseFair ==
  \A p \in Processes :
    /\ WF_leaseVars(which = "leases" /\ Lease!Begun(p))
    /\ WF_leaseVars(/\ which = "leases"
                    /\ Lease!CleanOwn(p) \/ Lease!CleanReservation(p) \/ Lease!RemoveStale(p))
ScriptFair ==
  /\ WF_scriptVars(which = "script" /\ Script!Tapid)
  /\ WF_scriptVars(which = "script" /\ Script!Elapse)
  /\ WF_scriptVars(which = "script" /\ Script!Die)
WindowsFair ==
  \A r \in Runs : /\ WF_winVars(which = "windows" /\ Win!RunStep(r))
                  /\ WF_winVars(which = "windows" /\ Win!Die(r))
                  /\ WF_winVars(which = "windows" /\ Win!GuardStep(r))

\* The strongly fair steps: in the store a lock that is free again and again, in
\* the catalog its lock, among the leases an entry that stays to be cleaned.
StrongStore == SetToSeq(Projects \X {"exclusive"} \cup Readers \X {"exclusive", "shared"})
StrongTool == SetToSeq(Tool!Procs)
StrongLease == SetToSeq({c \in Processes \X Processes : c[1] # c[2]})
  \o SetToSeq({c \in Processes \X SmallReservations : c[1] # c[2][1]})
StrongStep(i) ==
  \/ /\ which = "store" /\ i <= Len(StrongStore)
     /\ UNCHANGED <<which, toolVars, leaseVars, scriptVars, winVars>>
     /\ LET s == StrongStore[i]
        IN IF s[2] = "exclusive" THEN LockExclusive(s[1]) ELSE LockShared(s[1])
  \/ /\ which = "tools" /\ i <= Len(StrongTool)
     /\ UNCHANGED <<which, vars, leaseVars, scriptVars, winVars>>
     /\ Tool!LockCatalog(StrongTool[i])
  \/ /\ which = "leases" /\ i <= Len(StrongLease)
     /\ UNCHANGED <<which, vars, toolVars, scriptVars, winVars>>
     /\ LET s == StrongLease[i]
        IN IF s[2] \in Processes THEN Lease!CleanLease(s[1], s[2]) ELSE Lease!Inspect(s[1], s[2])
HostFairSpec ==
  /\ HostSpec /\ StoreFair /\ ToolFair /\ LeaseFair /\ ScriptFair /\ WindowsFair
  /\ \A i \in 1 .. 4 : SF_everything(StrongStep(i))

-----------------------------------------------------------------------------
\* Whoever comes next settles an interrupted tool transaction, and replaced
\* and abandoned environments are removed in the end (ToolCatalog).
ToolsSettle == Tool!ToolsSettle

\* A copy handed out stays while its owner lives (ReplayLeases).
HeldCopiesStay == Lease!HeldCopiesStay

\* What a dead process left under .staging is removed (ReplayLeases).
DeadLeaveNothing == Lease!DeadLeaveNothing

\* A contained run ends and its whole tree with it (ManagedRun).
ManagedRunEnds == Script!ManagedRunEnds

\* Whatever becomes of a run, its processes end (WindowsRun).
OrphansEnd == Win!OrphansEnd

=============================================================================
