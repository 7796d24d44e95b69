----------------------------- MODULE ToolsRoot -----------------------------
(***************************************************************************)
(* Claiming the tools directory (application/tools/state.rs, initialize):  *)
(* any command may find it missing, half claimed by a process that died,   *)
(* or being claimed by another process at this moment.  No lock protects   *)
(* it; an empty directory, created atomically, is the proof of ownership.  *)
(***************************************************************************)
EXTENDS Naturals, FiniteSets

CONSTANTS Claimers,  \* processes that start a tool command
          MaxDeaths  \* bound: processes that die on the way

VARIABLES
  entries,   \* what is in the root besides write stages
  stage,     \* [Claimers -> its write stage in the root: "none", "empty", "full"]
  orphan,    \* a write stage of a process that died
  exists,    \* the root itself
  at,        \* [Claimers -> position]
  deaths

vars == <<entries, stage, orphan, exists, at, deaths>>

Init == /\ entries = {} /\ exists = FALSE
        /\ stage = [p \in Claimers |-> "none"] /\ orphan = FALSE
        /\ at = [p \in Claimers |-> "out"]
        /\ deaths = 0

Goto(p, position) == at' = [at EXCEPT ![p] = position]

\* validate_unmarked_root: the initialization directory and write stages may
\* be there, anything else is foreign; a root with entries needs the former.
Staged == orphan \/ \E p \in Claimers : stage[p] # "none"
Claimable == \/ entries = {"init"}
             \/ entries = {} /\ ~Staged

\* A new command: the root is looked at before it is listed.
Look(p) ==
  /\ at[p] = "out"
  /\ Goto(p, IF exists /\ "marker" \notin entries THEN "validate" ELSE "create")
  /\ UNCHANGED <<entries, stage, orphan, exists, deaths>>

\* Both refusals end the command.
Validate(p) ==
  /\ at[p] \in {"validate", "revalidate"}
  /\ Goto(p, IF ~Claimable THEN "out"
             ELSE IF at[p] = "validate" THEN "create" ELSE "write")
  /\ UNCHANGED <<entries, stage, orphan, exists, deaths>>

Create(p) ==
  /\ at[p] = "create"
  /\ exists' = TRUE
  /\ Goto(p, IF "marker" \in entries THEN "verify" ELSE "own")
  /\ UNCHANGED <<entries, stage, orphan, deaths>>

\* create_dir of the initialization directory, by one process only.
Own(p) ==
  /\ at[p] = "own"
  /\ entries' = entries \cup {"init"}
  /\ Goto(p, IF "init" \in entries THEN "revalidate" ELSE "write")
  /\ UNCHANGED <<stage, orphan, exists, deaths>>

\* Mutant: the proof of ownership is removed as soon as the stage is open.
OpenStage_ProofGone(p) ==
  /\ at[p] = "write"
  /\ IF "marker" \in entries THEN Goto(p, "out") /\ UNCHANGED <<entries, stage>>
     ELSE /\ Goto(p, "fill") /\ stage' = [stage EXCEPT ![p] = "empty"]
          /\ entries' = entries \ {"init"}
  /\ UNCHANGED <<orphan, exists, deaths>>

\* write_new of the marker: refuse an existing one, create the stage, its
\* payload, look again, rename, remove the stage.  An error removes both.
OpenStage(p) ==
  /\ at[p] = "write"
  /\ IF "marker" \in entries THEN Goto(p, "out") /\ UNCHANGED stage
                             ELSE Goto(p, "fill") /\ stage' = [stage EXCEPT ![p] = "empty"]
  /\ UNCHANGED <<entries, orphan, exists, deaths>>

\* The stage may be gone: a process that already holds the catalog lock
\* retires stages it finds.
FillStage(p) ==
  /\ at[p] = "fill"
  /\ IF stage[p] = "empty" THEN Goto(p, "publish") /\ stage' = [stage EXCEPT ![p] = "full"]
                           ELSE Goto(p, "out") /\ UNCHANGED stage
  /\ UNCHANGED <<entries, orphan, exists, deaths>>

Publish(p) ==
  /\ at[p] = "publish"
  /\ IF "marker" \in entries \/ stage[p] # "full"
     THEN /\ Goto(p, "out") /\ UNCHANGED entries
          /\ stage' = [stage EXCEPT ![p] = "none"]
     ELSE /\ Goto(p, "unstage") /\ entries' = entries \cup {"marker"}
          /\ stage' = [stage EXCEPT ![p] = "empty"]
  /\ UNCHANGED <<orphan, exists, deaths>>

Unstage(p) ==
  /\ at[p] = "unstage"
  /\ stage' = [stage EXCEPT ![p] = "none"]
  /\ Goto(p, "verify")
  /\ UNCHANGED <<entries, orphan, exists, deaths>>

\* verify, remove the initialization directory, create bin and environments.
Complete(p) ==
  /\ at[p] = "verify" /\ "marker" \in entries
  /\ entries' = entries \ {"init"}
  /\ Goto(p, "dirs")
  /\ UNCHANGED <<stage, orphan, exists, deaths>>

MakeDirs(p) ==
  /\ at[p] = "dirs"
  /\ entries' = entries \cup {"dirs"}
  /\ Goto(p, "claimed")
  /\ UNCHANGED <<stage, orphan, exists, deaths>>

\* The command then takes the catalog lock and recovers: cleanup_write_stages.
SweepStages(p) ==
  /\ at[p] = "claimed"
  /\ stage' = [q \in Claimers |-> "none"] /\ orphan' = FALSE
  /\ Goto(p, "out")
  /\ UNCHANGED <<entries, exists, deaths>>

Die(p) ==
  /\ at[p] # "out" /\ deaths < MaxDeaths /\ deaths' = deaths + 1
  /\ orphan' = (orphan \/ stage[p] # "none")
  /\ stage' = [stage EXCEPT ![p] = "none"]
  /\ Goto(p, "out")
  /\ UNCHANGED <<entries, exists>>

Step(p) == \/ Look(p) \/ Validate(p) \/ Create(p) \/ Own(p) \/ OpenStage(p)
           \/ FillStage(p) \/ Publish(p) \/ Unstage(p) \/ Complete(p) \/ MakeDirs(p)
           \/ SweepStages(p)

Next == \E p \in Claimers : Step(p) \/ Die(p)

Spec == Init /\ [][Next]_vars

----------------------------------------------------------------------------
\* Whatever processes died where, the next command can claim the root alone:
\* it is marked, or nothing in it is foreign and its owner's proof is there
\* (initialize, validate_unmarked_root).  A write stage never blocks it.
RootIsClaimable == "marker" \in entries \/ Claimable
=============================================================================
