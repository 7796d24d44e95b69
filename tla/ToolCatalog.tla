---------------------------- MODULE ToolCatalog ----------------------------
(***************************************************************************)
(* Standalone tools (crates/tapid-cli/src/application/tools): a catalog of *)
(* tools, a directory of launchers and one environment per generation,     *)
(* changed by a journalled transaction and read by invocations.            *)
(*                                                                         *)
(* One mutator at a time: `run` holds the root's activation lock from      *)
(* start to end and a second one gives up at once, without any effect.     *)
(* Invocations only take the catalog lock.  Whoever holds that lock runs   *)
(* `recover`, so its position is the holder's.                             *)
(***************************************************************************)
EXTENDS Naturals, FiniteSets

CONSTANTS Tools,     \* package names
          Commands,  \* launcher names
          Invokers,  \* processes started through a launcher
          Exes,      \* Tapid executables: a launcher's bytes name one
          Foreign,   \* a file in bin/ that Tapid did not write
          None,      \* an absent file, tool or value
          MaxStarts, \* bound: commands that mutate
          MaxFaults, \* bound: crashes, I/O errors and lock timeouts
          MaxEdits   \* bound: changes the user makes in bin/

VARIABLES
  catalog,  \* catalog.json
  pending,  \* pending.json: None, or the journal
  decided,  \* `committed`: None, or the digest of a journal
  temp,     \* the journal's catalog staging file: None, or which side it holds
  bin,      \* bin/: what each launcher contains
  env,      \* environments/: the parts on disk of each generation
  stages,   \* directories with a write stage left by a crash
  holder,   \* who holds the catalog lock
  leased,   \* [Invokers -> the generation whose .in-use it locks, or None]
  pc,       \* where each process is
  ret,      \* where the lock holder's recover or cleanup returns to
  todo,     \* launchers the holder has yet to write or settle
  visit,    \* generations the current pass of cleanup has yet to see
  cur,      \* the generation being retired, 0 if none
  job,      \* what the mutator was asked and has found
  report,   \* the state its outcome ended with; None while running or crashed
  starts, faults, edits, edited

disk == <<catalog, pending, decided, temp, bin, env, stages>>
walk == <<ret, todo, visit, cur>>
bounds == <<starts, faults, edits, edited>>
vars == <<disk, holder, leased, pc, walk, job, report, bounds>>

Mutator == "tool"
Procs == Invokers \cup {Mutator}
Generations == 1 .. MaxStarts
\* A tool environment: the staging intent and the retirement marker beside
\* it, the directory, .tapid-tool, .in-use and everything else in it.
Parts == {"intent", "dir", "owner", "lease", "payload", "retired"}
Whole == {"dir", "owner", "lease", "payload"}

ToolRecords == [gen : Generations, commands : SUBSET Commands]
Catalogs == [tools : [Tools -> ToolRecords \cup {None}],
             shims : [Commands -> Exes \cup {None}],
             settled : 0 .. MaxStarts]
\* The digest of a journal: a number no other journal has.  (A removal that
\* was rolled back and is asked again has the same bytes, but by then no
\* file is left that names the digest.)
Journals == [id : Generations, before : Catalogs, after : Catalogs]

NoTools == [tools |-> [t \in Tools |-> None],
            shims |-> [c \in Commands |-> None], settled |-> 0]
Idle == [action |-> "list", tool |-> None, exe |-> None, id |-> 0, phase |-> "start",
         before |-> NoTools, after |-> NoTools, state |-> "Unchanged",
         decided |-> FALSE, pending |-> FALSE, left |-> FALSE]

Init ==
  /\ catalog = NoTools /\ pending = None /\ decided = None /\ temp = None
  /\ bin = [c \in Commands |-> None]
  /\ env = [g \in Generations |-> {}]
  /\ stages = {}
  /\ holder = None
  /\ leased = [i \in Invokers |-> None]
  /\ pc = [p \in Procs |-> "idle"]
  /\ ret = "none" /\ todo = {} /\ visit = {} /\ cur = 0
  /\ job = Idle /\ report = None
  /\ starts = 0 /\ faults = 0 /\ edits = 0 /\ edited = {}

----------------------------------------------------------------------------
\* What a crash, an error or a refusal leads to.

Goto(p, position) == pc' = [pc EXCEPT ![p] = position]

Report(state) == /\ report' = state
                 /\ holder' = None
                 /\ Goto(Mutator, "idle")
                 /\ UNCHANGED job

\* `?` on an error: an invocation exits; the mutator reports when it was
\* still recovering the previous transaction, undoes when it was at work,
\* and reports what it saw before undoing when undoing fails too.
Raise(p) ==
  IF p # Mutator
  THEN /\ Goto(p, "idle") /\ holder' = (IF holder = p THEN None ELSE holder)
       /\ UNCHANGED <<job, report>>
  ELSE CASE job.phase = "start" ->
              Report(IF pc[p] = "load" THEN "Unchanged" ELSE "RecoveryRequired")
         [] job.phase = "act" ->
              /\ Goto(p, IF holder = p THEN "failed" ELSE "relockFailed")
              /\ UNCHANGED <<holder, job, report>>
         [] job.phase = "undo" ->
              Report(IF job.decided THEN "CleanupPending" ELSE "RecoveryRequired")

Call(p, position, back) == Goto(p, position) /\ ret' = back
Return(p) == Goto(p, ret) /\ UNCHANGED ret

----------------------------------------------------------------------------
\* Commands start and take the locks.

Begin(asked) ==
  /\ pc[Mutator] = "idle"
  /\ job' = asked
  /\ report' = None
  /\ Goto(Mutator, "lock")
  /\ UNCHANGED <<disk, holder, leased, walk, faults, edits, edited>>

BeginList == Begin(Idle) /\ UNCHANGED starts

BeginChange(action, t, e) ==
  /\ starts < MaxStarts /\ starts' = starts + 1
  /\ Begin([Idle EXCEPT !.action = action, !.tool = t, !.exe = e, !.id = starts'])

Invoke(i) == /\ pc[i] = "idle"
             /\ Goto(i, "lock")
             /\ UNCHANGED <<disk, holder, leased, walk, job, report, bounds>>

\* lock_catalog, then the call it protects.
LockCatalog(p) ==
  /\ pc[p] \in {"lock", "relock", "relockFailed"}
  /\ holder = None
  /\ holder' = p
  /\ CASE pc[p] = "lock" -> Call(p, "recover", "load")
       [] pc[p] = "relock" -> Call(p, "plan", "none")
       [] pc[p] = "relockFailed" -> Call(p, "failed", "none")
  /\ todo' = {} /\ visit' = {} /\ cur' = 0
  /\ UNCHANGED <<disk, leased, job, report, bounds>>

\* 30 seconds of contention.  The mutator has published nothing: its stage,
\* if any, is left to the next mutator's cleanup.
LockTimesOut(p) ==
  /\ pc[p] \in {"lock", "relock", "relockFailed"}
  /\ holder # None
  /\ faults < MaxFaults /\ faults' = faults + 1
  /\ Goto(p, "idle")
  /\ report' = IF p = Mutator THEN "Unchanged" ELSE report
  /\ UNCHANGED <<disk, holder, leased, walk, job, starts, edits, edited>>

----------------------------------------------------------------------------
\* transaction::recover and settle.

\* The catalog a recovery of the files on disk selects, and the other one.
Desired == IF decided # None THEN [pending.after EXCEPT !.settled = pending.id]
                             ELSE pending.before
Alternate == IF decided # None THEN pending.before ELSE pending.after
Side == IF decided # None THEN "after" ELSE "before"
Named(cat) == {c \in Commands : cat.shims[c] # None}

\* Mutant: only the launchers of the catalog to come are settled.
Recover_DesiredOnly(p) ==
  /\ pc[p] = "recover" /\ holder = p
  /\ IF pending = None
     THEN /\ decided' = None
          /\ Return(p) /\ UNCHANGED todo
     ELSE /\ todo' = Named(Desired)
          /\ Goto(p, "settle") /\ UNCHANGED <<decided, ret>>
  /\ stages' = stages \ {"root", "bin"}
  /\ UNCHANGED <<catalog, pending, temp, bin, env, holder, leased, visit, cur,
                 job, report, bounds>>

\* Interrupted writes go first; then the decision on disk, if any, is carried out.
Recover(p) ==
  /\ pc[p] = "recover" /\ holder = p
  /\ \/ /\ pending = None /\ decided = None
        /\ Return(p)
        /\ UNCHANGED <<holder, todo, job, report>>
     \/ /\ pending = None /\ decided # None /\ decided = catalog.settled
        /\ Goto(p, "undecide")
        /\ UNCHANGED <<holder, ret, todo, job, report>>
     \/ /\ IF pending = None THEN decided # None /\ decided # catalog.settled
                             ELSE decided \notin {None, pending.id}
        /\ Raise(p) /\ UNCHANGED <<ret, todo>>
     \/ /\ pending # None /\ decided \in {None, pending.id}
        /\ todo' = Named(Desired) \cup Named(Alternate)
        /\ Goto(p, "settle")
        /\ UNCHANGED <<holder, ret, job, report>>
  /\ stages' = stages \ {"root", "bin"}
  /\ UNCHANGED <<catalog, pending, decided, temp, bin, env, leased, visit, cur, bounds>>

\* Mutant: whatever is in the way is removed.
SettleLauncher_Any(p, c) ==
  /\ pc[p] = "settle" /\ holder = p /\ c \in todo
  /\ bin' = [bin EXCEPT ![c] = Desired.shims[c]]
  /\ todo' = todo \ {c}
  /\ UNCHANGED <<catalog, pending, decided, temp, env, stages, holder, leased, pc,
                 ret, visit, cur, job, report, bounds>>

\* Mutant: a launcher that is missing stops the recovery.
SettleLauncher_Present(p, c) ==
  LET wanted == Desired.shims[c]
      owned == {wanted, Alternate.shims[c]}
  IN /\ pc[p] = "settle" /\ holder = p /\ c \in todo
     /\ \/ /\ bin[c] = wanted
           /\ todo' = todo \ {c}
           /\ UNCHANGED <<bin, pc, holder, job, report>>
        \/ /\ bin[c] \notin owned \ {None}
           /\ Raise(p) /\ UNCHANGED <<todo, bin>>
        \/ /\ bin[c] # wanted /\ bin[c] \in owned \ {None}
           /\ bin' = [bin EXCEPT ![c] = wanted]
           /\ UNCHANGED <<todo, pc, holder, job, report>>
     /\ UNCHANGED <<catalog, pending, decided, temp, env, stages, leased, ret,
                    visit, cur, bounds>>

\* One launcher: left alone when it is the wanted one, refused when nobody
\* recorded its bytes, else removed (and, at the next visit, written).
SettleLauncher(p, c) ==
  LET wanted == Desired.shims[c]
      owned == {wanted, Alternate.shims[c]}
  IN /\ pc[p] = "settle" /\ holder = p /\ c \in todo
     /\ \/ /\ bin[c] = wanted
           /\ todo' = todo \ {c}
           /\ UNCHANGED <<bin, pc, holder, job, report>>
        \/ /\ bin[c] \notin owned \cup {None}
           /\ Raise(p) /\ UNCHANGED <<todo, bin>>
        \/ /\ bin[c] # wanted /\ bin[c] \in owned \ {None}
           /\ bin' = [bin EXCEPT ![c] = None]
           /\ UNCHANGED <<todo, pc, holder, job, report>>
        \/ /\ bin[c] = None /\ wanted # None
           /\ bin' = [bin EXCEPT ![c] = wanted]
           /\ todo' = todo \ {c}
           /\ UNCHANGED <<pc, holder, job, report>>
     /\ UNCHANGED <<catalog, pending, decided, temp, env, stages, leased, ret,
                    visit, cur, bounds>>

\* A staging file left by a crash is removed if it is a prefix of what is to
\* be written, and refused otherwise; then the new one is written.
StageCatalog(p) ==
  /\ pc[p] = "settle" /\ holder = p /\ todo = {}
  /\ \/ /\ temp \in {None, Side}
        /\ temp' = Side
        /\ Goto(p, "publish")
        /\ UNCHANGED <<holder, job, report>>
     \/ /\ temp \notin {None, Side}
        /\ Raise(p) /\ UNCHANGED temp
  /\ UNCHANGED <<catalog, pending, decided, bin, env, stages, leased, walk, bounds>>

\* Mutant: the published catalog does not record the settled journal.
PublishCatalog_NoDigest(p) ==
  /\ pc[p] = "publish" /\ holder = p
  /\ catalog' = (IF decided # None THEN pending.after ELSE pending.before)
  /\ temp' = None
  /\ Goto(p, "unpend")
  /\ UNCHANGED <<pending, decided, bin, env, stages, holder, leased, walk, job,
                 report, bounds>>

PublishCatalog(p) ==
  /\ pc[p] = "publish" /\ holder = p
  /\ catalog' = Desired /\ temp' = None
  /\ Goto(p, "unpend")
  /\ UNCHANGED <<pending, decided, bin, env, stages, holder, leased, walk, job,
                 report, bounds>>

\* Mutant: the decision goes before the journal.
RemovePending_DecisionFirst(p) ==
  /\ pc[p] = "unpend" /\ holder = p
  /\ IF decided # None THEN decided' = None /\ UNCHANGED <<pending, pc>>
                       ELSE pending' = None /\ Goto(p, ret) /\ UNCHANGED decided
  /\ UNCHANGED <<catalog, temp, bin, env, stages, holder, leased, walk, job,
                 report, bounds>>

RemovePending(p) ==
  /\ pc[p] = "unpend" /\ holder = p
  /\ pending' = None
  /\ IF decided # None THEN Goto(p, "undecide") ELSE Goto(p, ret)
  /\ UNCHANGED <<catalog, decided, temp, bin, env, stages, holder, leased, walk,
                 job, report, bounds>>

RemoveDecision(p) ==
  /\ pc[p] = "undecide" /\ holder = p
  /\ decided' = None
  /\ Goto(p, ret)
  /\ UNCHANGED <<catalog, pending, temp, bin, env, stages, holder, leased, walk,
                 job, report, bounds>>

----------------------------------------------------------------------------
\* transaction::cleanup, under both locks.

Active == {catalog.tools[t].gen : t \in {u \in Tools : catalog.tools[u] # None}}

\* state::load and the start of a cleanup.
Load ==
  /\ pc[Mutator] = "load"
  /\ job' = [job EXCEPT !.before = catalog, !.after = catalog, !.phase = "act"]
  /\ stages' = stages \ {"environments"}
  /\ Call(Mutator, "intents", "act")
  /\ UNCHANGED <<catalog, pending, decided, temp, bin, env, holder, leased, todo,
                 visit, cur, report, bounds>>

\* The first pass completes interrupted staging: the intent authorizes the
\* missing owner marker, then is removed.
CompleteIntent(g) ==
  /\ pc[Mutator] = "intents"
  /\ "intent" \in env[g] /\ g \notin Active
  /\ env' = [env EXCEPT ![g] = IF "dir" \in @ /\ "owner" \notin @
                               THEN @ \cup {"owner"} ELSE @ \ {"intent"}]
  /\ UNCHANGED <<catalog, pending, decided, temp, bin, stages, holder, leased, pc,
                 walk, job, report, bounds>>

IntentsDone ==
  /\ pc[Mutator] = "intents"
  /\ \A g \in Generations \ Active : "intent" \notin env[g]
  /\ visit' = {g \in Generations \ Active : "dir" \in env[g]}
  /\ Goto(Mutator, "retirements")
  /\ UNCHANGED <<disk, holder, leased, ret, todo, cur, job, report, bounds>>

\* Mutant: a generation is retired although a process runs it.
LeaseForRetirement_InUse(g) ==
  /\ pc[Mutator] = "retirements" /\ cur = 0 /\ g \in visit
  /\ visit' = visit \ {g}
  /\ cur' = IF "owner" \in env[g] THEN g ELSE cur
  /\ UNCHANGED <<disk, holder, leased, pc, ret, todo, job, report, bounds>>

\* The second pass retires an owned generation nobody leases.  Opening the
\* lease creates it.
LeaseForRetirement(g) ==
  /\ pc[Mutator] = "retirements" /\ cur = 0 /\ g \in visit
  /\ visit' = visit \ {g}
  /\ IF "owner" \notin env[g]
     THEN UNCHANGED <<env, cur, job>>
     ELSE /\ env' = [env EXCEPT ![g] = @ \cup {"lease"}]
          /\ IF \E i \in Invokers : leased[i] = g
             THEN job' = [job EXCEPT !.left = TRUE] /\ UNCHANGED cur
             ELSE cur' = g /\ UNCHANGED job
  /\ UNCHANGED <<catalog, pending, decided, temp, bin, stages, holder, leased, pc,
                 ret, todo, report, bounds>>

\* The order of retire and finish_empty_retirement: the payload, the sidecar
\* marker, the lease, the owner marker, the empty directory, the sidecar.
Retiring(parts) ==
  CASE "payload" \in parts -> parts \ {"payload"}
    [] "payload" \notin parts /\ "retired" \notin parts -> parts \cup {"retired"}
    [] "payload" \notin parts /\ "retired" \in parts ->
         IF "lease" \in parts THEN parts \ {"lease"}
         ELSE IF "owner" \in parts THEN parts \ {"owner"}
         ELSE IF "dir" \in parts THEN parts \ {"dir"} ELSE parts \ {"retired"}

RetireStep ==
  /\ pc[Mutator] = "retirements" /\ cur # 0
  /\ env' = [env EXCEPT ![cur] = Retiring(@)]
  /\ cur' = IF env'[cur] = {} THEN 0 ELSE cur
  /\ UNCHANGED <<catalog, pending, decided, temp, bin, stages, holder, leased, pc,
                 ret, todo, visit, job, report, bounds>>

\* Mutant: what an interrupted retirement left is not looked for.
RetirementsDone_Whole ==
  /\ pc[Mutator] = "retirements" /\ cur = 0 /\ visit = {}
  /\ Goto(Mutator, "leftovers")
  /\ UNCHANGED <<disk, holder, leased, ret, todo, visit, cur, job, report, bounds>>

RetirementsDone ==
  /\ pc[Mutator] = "retirements" /\ cur = 0 /\ visit = {}
  /\ visit' = {g \in Generations : "retired" \in env[g]}
  /\ Goto(Mutator, "leftovers")
  /\ UNCHANGED <<disk, holder, leased, ret, todo, cur, job, report, bounds>>

\* The third pass: a sidecar without its owner marker lets the empty
\* directory go; a directory that is not empty stays for later.
FinishRetirement(g) ==
  /\ pc[Mutator] = "leftovers" /\ g \in visit
  /\ \/ /\ g \in Active
        /\ Raise(Mutator) /\ UNCHANGED <<env, visit>>
     \/ /\ g \notin Active
        /\ env[g] \cap {"payload", "lease", "owner"} # {}
        /\ job' = [job EXCEPT !.left = TRUE]
        /\ visit' = visit \ {g}
        /\ UNCHANGED <<env, pc, holder, report>>
     \/ /\ g \notin Active
        /\ env[g] \cap {"payload", "lease", "owner"} = {}
        /\ env' = [env EXCEPT ![g] = Retiring(@)]
        /\ visit' = IF "retired" \in env'[g] THEN visit ELSE visit \ {g}
        /\ UNCHANGED <<pc, holder, job, report>>
  /\ UNCHANGED <<catalog, pending, decided, temp, bin, stages, leased, ret, todo,
                 cur, bounds>>

CleanupDone ==
  /\ pc[Mutator] = "leftovers" /\ visit = {}
  /\ Return(Mutator)
  /\ UNCHANGED <<disk, holder, leased, todo, visit, cur, job, report, bounds>>

----------------------------------------------------------------------------
\* run: the action, staging and activation.

\* List reports; update and remove need the tool; install and update give
\* the catalog lock up while they stage.
Act ==
  /\ pc[Mutator] = "act"
  /\ \/ /\ job.action = "list"
        /\ Report(IF job.left THEN "CleanupPending" ELSE "Listed")
     \/ /\ job.action \in {"update", "remove"} /\ catalog.tools[job.tool] = None
        /\ Raise(Mutator)
     \/ /\ job.action \in {"install", "update"}
        /\ job.action = "install" \/ catalog.tools[job.tool] # None
        /\ holder' = None
        /\ Goto(Mutator, "stage")
        /\ UNCHANGED <<job, report>>
     \/ /\ job.action = "remove" /\ catalog.tools[job.tool] # None
        /\ job' = [job EXCEPT !.after.tools[job.tool] = None]
        /\ Goto(Mutator, "plan")
        /\ UNCHANGED <<holder, report>>
  /\ UNCHANGED <<disk, leased, walk, bounds>>

\* create_environment, then the manifest and the verified installation.
Staging(parts) ==
  CASE parts = {} -> {"intent"}
    [] parts = {"intent"} -> parts \cup {"dir"}
    [] parts = {"intent", "dir"} -> parts \cup {"owner"}
    [] parts = {"intent", "dir", "owner"} -> parts \cup {"lease"}
    [] parts = {"intent", "dir", "owner", "lease"} -> parts \ {"intent"}
    [] OTHER -> parts \cup {"payload"}

Stage ==
  /\ pc[Mutator] = "stage" /\ "payload" \notin env[job.id]
  /\ env' = [env EXCEPT ![job.id] = Staging(@)]
  /\ UNCHANGED <<catalog, pending, decided, temp, bin, stages, holder, leased, pc,
                 walk, job, report, bounds>>

\* package_commands: the tool exports the bins it declares, at least one.
Staged(commands) ==
  /\ pc[Mutator] = "stage" /\ "payload" \in env[job.id]
  /\ job' = [job EXCEPT !.after.tools[job.tool] = [gen |-> job.id, commands |-> commands]]
  /\ Goto(Mutator, "relock")
  /\ UNCHANGED <<disk, holder, leased, walk, report, bounds>>

\* launchers::plan: every tool's bins, each still in its environment, no two
\* of one name; all rendered for the executable that plans.
Exported(tools) == {t \in Tools : tools[t] # None}
Collide(tools) == \E t, u \in Exported(tools) :
  t # u /\ tools[t].commands \cap tools[u].commands # {}

Plan ==
  LET tools == job.after.tools
      exports == UNION {tools[t].commands : t \in Exported(tools)}
  IN /\ pc[Mutator] = "plan"
     /\ IF Collide(tools) \/ \E t \in Exported(tools) : "payload" \notin env[tools[t].gen]
        THEN Raise(Mutator)
        ELSE /\ job' = [job EXCEPT !.after.shims =
                          [c \in Commands |-> IF c \in exports THEN job.exe ELSE None]]
             /\ Goto(Mutator, "activate")
             /\ UNCHANGED <<holder, report>>
     /\ UNCHANGED <<disk, leased, walk, bounds>>

\* activate: preflight, then the journal.
Preflight == \A c \in Named(job.before) \cup Named(job.after) : bin[c] = job.before.shims[c]

WritePending ==
  /\ pc[Mutator] = "activate"
  /\ IF ~Preflight \/ temp # None
     THEN Raise(Mutator) /\ UNCHANGED <<pending, todo>>
     ELSE /\ pending' = [id |-> job.id, before |-> job.before, after |-> job.after]
          /\ todo' = Named(job.after)
          /\ Goto(Mutator, "launchers")
          /\ UNCHANGED <<holder, job, report>>
  /\ UNCHANGED <<catalog, decided, temp, bin, env, stages, leased, ret, visit, cur, bounds>>

\* Mutant: the launcher is rendered for the package, not for the executable.
WriteLauncher_Package(c) ==
  /\ pc[Mutator] = "launchers" /\ c \in todo
  /\ todo' = todo \ {c}
  /\ bin' = IF bin[c] = None THEN [bin EXCEPT ![c] = job.tool] ELSE bin
  /\ UNCHANGED <<catalog, pending, decided, temp, env, stages, holder, leased, pc,
                 ret, visit, cur, job, report, bounds>>

WriteLauncher(c) ==
  /\ pc[Mutator] = "launchers" /\ c \in todo
  /\ todo' = todo \ {c}
  /\ bin' = IF bin[c] = None THEN [bin EXCEPT ![c] = job.after.shims[c]] ELSE bin
  /\ UNCHANGED <<catalog, pending, decided, temp, env, stages, holder, leased, pc,
                 ret, visit, cur, job, report, bounds>>

\* The decision, then recover carries it out.
Decide ==
  /\ pc[Mutator] = "launchers" /\ todo = {}
  /\ decided' = pending.id
  /\ Call(Mutator, "recover", "activated")
  /\ UNCHANGED <<catalog, pending, temp, bin, env, stages, holder, leased, todo,
                 visit, cur, job, report, bounds>>

Activated ==
  /\ pc[Mutator] = "activated"
  /\ job' = [job EXCEPT !.state = "Committed", !.left = FALSE]
  /\ stages' = stages \ {"environments"}
  /\ Call(Mutator, "intents", "finish")
  /\ UNCHANGED <<catalog, pending, decided, temp, bin, env, holder, leased, todo,
                 visit, cur, report, bounds>>

Finish ==
  /\ pc[Mutator] = "finish"
  /\ Report(IF job.left THEN "CleanupPending" ELSE job.state)
  /\ UNCHANGED <<disk, leased, walk, bounds>>

----------------------------------------------------------------------------
\* run: the error path.

Failed ==
  /\ pc[Mutator] = "failed"
  /\ job' = [job EXCEPT !.phase = "undo", !.decided = decided # None,
                        !.pending = pending # None]
  /\ Call(Mutator, "recover", "reload")
  /\ cur' = 0
  /\ UNCHANGED <<disk, holder, leased, todo, visit, report, bounds>>

Reload ==
  /\ pc[Mutator] = "reload"
  /\ stages' = stages \ {"environments"}
  /\ Call(Mutator, "intents", "undone")
  /\ UNCHANGED <<catalog, pending, decided, temp, bin, env, holder, leased, todo,
                 visit, cur, job, report, bounds>>

\* Mutant: a journal that was there counts as rolled back, decided or not.
Undone_JournalFirst ==
  /\ pc[Mutator] = "undone"
  /\ Report(IF job.pending THEN "RolledBack"
            ELSE IF job.decided THEN "Committed" ELSE job.state)
  /\ UNCHANGED <<disk, leased, walk, bounds>>

Undone ==
  /\ pc[Mutator] = "undone"
  /\ Report(IF job.decided THEN "Committed"
            ELSE IF job.pending THEN "RolledBack" ELSE job.state)
  /\ UNCHANGED <<disk, leased, walk, bounds>>

----------------------------------------------------------------------------
\* execute: find the command, check its environment, lease it, let the
\* catalog lock go and run.  The child inherits the lease, so an invocation
\* that is killed keeps it until the child ends.

Launch(i) ==
  /\ pc[i] = "load" /\ holder = i
  /\ holder' = None
  /\ \/ \E t \in Exported(catalog.tools) :
          /\ catalog.tools[t].commands # {}
          /\ {"owner", "payload"} \subseteq env[catalog.tools[t].gen]
          /\ env' = [env EXCEPT ![catalog.tools[t].gen] = @ \cup {"lease"}]
          /\ leased' = [leased EXCEPT ![i] = catalog.tools[t].gen]
          /\ Goto(i, "running")
     \/ \* No such command, or its environment is not what the catalog says.
        /\ \/ \E c \in Commands : \A t \in Exported(catalog.tools) :
                c \notin catalog.tools[t].commands
           \/ \E t \in Exported(catalog.tools) :
                ~ {"owner", "payload"} \subseteq env[catalog.tools[t].gen]
        /\ Goto(i, "idle")
        /\ UNCHANGED <<env, leased>>
  /\ UNCHANGED <<catalog, pending, decided, temp, bin, stages, walk, job, report, bounds>>

ChildExits(i) ==
  /\ pc[i] = "running"
  /\ leased' = [leased EXCEPT ![i] = None]
  /\ Goto(i, "idle")
  /\ UNCHANGED <<disk, holder, walk, job, report, bounds>>

----------------------------------------------------------------------------
\* Faults and the user.

\* Positions at which the code does I/O that may fail.
Fallible == {"recover", "settle", "publish", "unpend", "undecide", "load",
             "intents", "retirements", "leftovers", "stage", "activate", "launchers",
             "activated", "reload"}

\* Inside retire an error only leaves the generation for later.
Error(p) ==
  /\ pc[p] \in Fallible
  /\ p = Mutator \/ holder = p
  /\ faults < MaxFaults /\ faults' = faults + 1
  /\ IF pc[p] = "retirements" /\ cur # 0
     THEN /\ cur' = 0 /\ job' = [job EXCEPT !.left = TRUE]
          /\ UNCHANGED <<pc, holder, report>>
     ELSE /\ Raise(p)
          /\ UNCHANGED cur
  /\ UNCHANGED <<disk, leased, ret, todo, visit, starts, edits, edited>>

\* Where write_new may leave its stage when the process dies.
WritesIn(position) == CASE position \in {"activate", "launchers"} -> {"root", "bin"}
                        [] position = "settle" -> {"bin"}
                        [] position = "retirements" -> {"environments"}
                        [] OTHER -> {}

Crash(p) ==
  /\ pc[p] \notin {"idle", "running"}
  /\ faults < MaxFaults /\ faults' = faults + 1
  /\ \E left \in SUBSET WritesIn(pc[p]) :
       Cardinality(left) <= 1 /\ stages' = stages \cup left
  /\ Goto(p, "idle")
  /\ holder' = IF holder = p THEN None ELSE holder
  /\ report' = IF p = Mutator THEN None ELSE report
  /\ UNCHANGED <<catalog, pending, decided, temp, bin, env, leased, walk, job,
                 starts, edits, edited>>

\* The user replaces or removes a launcher.  Replacement while Tapid works on
\* the directory is outside the contract (state.rs, write_new).
UserEdits(c) ==
  /\ holder = None /\ edits < MaxEdits /\ edits' = edits + 1
  /\ \E new \in {Foreign, None} : new # bin[c] /\ bin' = [bin EXCEPT ![c] = new]
  /\ edited' = edited \cup {c}
  /\ UNCHANGED <<catalog, pending, decided, temp, env, stages, holder, leased, pc,
                 walk, job, report, starts, faults>>

----------------------------------------------------------------------------
Recovery(p) == \/ Recover(p) \/ StageCatalog(p)
               \/ PublishCatalog(p) \/ RemovePending(p) \/ RemoveDecision(p)
               \/ \E c \in Commands : SettleLauncher(p, c)

Cleaning == \/ IntentsDone \/ RetireStep \/ RetirementsDone \/ CleanupDone
            \/ \E g \in Generations :
                 CompleteIntent(g) \/ LeaseForRetirement(g) \/ FinishRetirement(g)

Working == \/ Load \/ Act \/ Stage \/ Plan \/ WritePending \/ Decide \/ Activated
           \/ Finish \/ Failed \/ Reload \/ Undone
           \/ \E commands \in SUBSET Commands \ {{}} : Staged(commands)
           \/ \E c \in Commands : WriteLauncher(c)

Step(p) == LockCatalog(p) \/ Recovery(p)

Next ==
  \/ BeginList
  \/ \E a \in {"install", "update", "remove"}, t \in Tools, e \in Exes :
       BeginChange(a, t, e)
  \/ \E i \in Invokers : Invoke(i) \/ Launch(i) \/ ChildExits(i)
  \/ \E p \in Procs : Step(p) \/ LockTimesOut(p) \/ Error(p) \/ Crash(p)
  \/ Cleaning \/ Working
  \/ \E c \in Commands : UserEdits(c)

Spec == Init /\ [][Next]_vars

\* Every process goes on with its work: a child ends, somebody lists the
\* tools again and again, and a process that polls for the catalog lock
\* (every 10 ms, while its holders keep it briefly) finds it free some time.
Fairness ==
  /\ WF_vars(BeginList) /\ WF_vars(Cleaning \/ Working)
  /\ \A p \in Procs : WF_vars(Recovery(p)) /\ SF_vars(LockCatalog(p))
  /\ \A i \in Invokers : WF_vars(Launch(i)) /\ WF_vars(ChildExits(i))
FairSpec == Spec /\ Fairness

----------------------------------------------------------------------------
\* Every variable has its type.
ToolTypeOK ==
  /\ catalog \in Catalogs
  /\ pending \in Journals \cup {None}
  /\ decided \in Generations \cup {None}
  /\ temp \in {None, "before", "after"}
  /\ bin \in [Commands -> Exes \cup {Foreign, None}]
  /\ env \in [Generations -> SUBSET Parts]
  /\ stages \subseteq {"root", "bin", "environments"}
  /\ holder \in Procs \cup {None}
  /\ leased \in [Invokers -> Generations \cup {None}]
  /\ todo \subseteq Commands /\ visit \subseteq Generations
  /\ cur \in 0 .. MaxStarts

\* The catalog the files on disk stand for: the one recovery would select.
Selected == IF pending = None THEN catalog ELSE Desired
Promise == INSTANCE AtomicCatalog WITH
  Nothing <- None, Changes <- Generations, installed <- Selected.tools,
  latest <- Selected.settled, running <- leased

\* The tools change by one whole tool at a time, at the commit decision or
\* not at all, whatever crashes, errors, refusals and other processes'
\* recoveries come between (activate, recover, execute).
CatalogIsAtomic == Promise!ASpec

\* The environment of every selected tool, and of every generation a process
\* runs, is complete: cleanup never retires it, and no decision selects a
\* generation that is not fully staged (cleanup, create_environment, execute).
ToolsAreWhole ==
  /\ \A t \in Exported(Selected.tools) : Whole \subseteq env[Selected.tools[t].gen]
  /\ \A i \in Invokers : leased[i] # None => Whole \subseteq env[leased[i]]

\* Between transactions each launcher the user left alone is the one the
\* catalog records, none is missing and none is left over (settle).
LaunchersMatch ==
  pending = None => \A c \in Commands \ edited : bin[c] = catalog.shims[c]

\* No step of Tapid removes or replaces a file it did not write (preflight,
\* settle).
UserFilesStay == [][\A c \in Commands :
  bin[c] = Foreign => bin'[c] = Foreign \/ edits' # edits]_vars

\* Recovery always knows what to do with the files Tapid itself left: the
\* decision belongs to the journal or to the settled catalog, the staging file
\* to the side being published, and no selected generation is marked retired.
\* None of the "requires inspection" errors is met (recover, settle, cleanup).
RecoveryIsDefined ==
  /\ decided # None => decided = (IF pending = None THEN catalog.settled ELSE pending.id)
  /\ temp # None => pending # None /\ temp = Side
  /\ \A t \in Exported(Selected.tools) : "retired" \notin env[Selected.tools[t].gen]

\* What a command reports is so: committed (with or without cleanup left)
\* only when the new catalog is in force, rolled back only when the old one
\* is (run).
ToolReportIsTrue ==
  job.action # "list" /\ report # None =>
    /\ report \in {"Committed", "CleanupPending"} => Selected.tools = job.after.tools
    /\ report = "RolledBack" => Selected.tools = job.before.tools

\* An interrupted transaction is settled by whoever comes next, unless the
\* user put a file of their own in its way (recover).
TransactionsSettle ==
  pending # None ~> (pending = None \/ \E c \in Commands : bin[c] = Foreign)

\* A generation that is staged in vain or replaced is in the end removed,
\* every part of it (cleanup).
GenerationsAreRetired == \A g \in Generations :
  env[g] # {} ~> \/ env[g] = {} \/ g \in Active
                 \/ \E c \in Commands : bin[c] = Foreign

\* Launchers follow the catalog, and an interrupted change has one outcome.
LaunchersFollowCatalog == LaunchersMatch /\ RecoveryIsDefined

\* Interrupted changes are settled and what they replaced is removed.
ToolsSettle == TransactionsSettle /\ GenerationsAreRetired
=============================================================================
