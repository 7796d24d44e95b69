------------------------------ MODULE ManagedRun ------------------------------
(***************************************************************************)
(* Running a script under containment on Linux (crates/tapid-runner): the  *)
(* preflight of execute_with_backend, the ManagedTree backend, which owns  *)
(* the script's whole process tree through a PID namespace and a cgroup,   *)
(* the Restricted backend, which owns only the script itself, and the      *)
(* owner that cleans up after every error (OwnedExecutionAttempt).         *)
(*                                                                         *)
(* The script is an environment that writes, forks, exits and hits its     *)
(* limits whenever it likes.  Output is counted, not represented.  Killing *)
(* a cgroup, and the death of tapid itself, doom the processes; they die   *)
(* later and may still finish a write.                                     *)
(***************************************************************************)
EXTENDS Naturals, FiniteSets

CONSTANTS Procs,      \* descendants the script may start
          Limit,      \* max_output_bytes
          Turn,       \* bytes one call of drain reads at most
          MaxWritten, \* bound: bytes written to one stream
          MaxFaults   \* bound: failing operations of tapid

Streams == {"out", "err"}

Launch == {"read", "write", "network", "environment", "descriptors", "authority"}
Tree == {"lifecycle", "membership", "cleanup"}
Limits == {"timeout", "output", "processes", "memory"}

VARIABLES
  policy,    \* [managed, limits]: assurance level and configured limits
  at,        \* where tapid is
  failed,    \* execute returned an error; the fallback cleanup is running
  ended,     \* termination decided by the supervision loop
  child,     \* the process tapid spawned: "none", "alive", "exited"
  init,      \* first process of the namespace: "none", "setup", "ready", "script", "gone"
  procs,     \* live descendants of the script
  doomed,    \* SIGKILL is on its way to the whole tree
  frames,    \* what the private launcher reported
  written, pipe, kept, \* per stream: written, unread and captured bytes
  events,    \* "timeout", "processes", "memory": limits hit so far
  result,    \* termination returned, "refused", "error" or "none"
  completion,\* dimensions the completion evidence confirms
  faults

tree == <<child, init, procs, doomed, frames, written, events>>
vars == <<policy, at, failed, ended, tree, pipe, kept, result, completion, faults>>

Empty == [s \in Streams |-> 0]
Running == at \notin {"done", "killed", "panicked"}

Init ==
  /\ policy \in [managed : BOOLEAN, limits : {{}, {"timeout"}, Limits}]
  /\ at = "preflight" /\ failed = FALSE /\ ended = "none"
  /\ child = "none" /\ init = "none" /\ procs = {} /\ doomed = FALSE
  /\ frames = {}
  /\ written = Empty /\ pipe = Empty /\ kept = Empty
  /\ events = {}
  /\ result = "none" /\ completion = {} /\ faults = 0

----------------------------------------------------------------------------
\* Enforcement dimensions as sets (EnforcementDimensions).
RequestedBy(p) == Launch \cup (IF p.managed THEN Tree ELSE {}) \cup p.limits
CompletionRequired(requested) == requested \cap Tree

\* containment_support of both backends, with the probe of Cgroup::prepare:
\* ManagedTree needs every limit, Restricted enforces none.
Supported(p) ==
  IF p.managed THEN p.limits = Limits ELSE p.limits = {}

Fault == faults < MaxFaults /\ faults' = faults + 1
Goto(position) == at' = position

\* validate_supported_evidence, the bindings and prepare: nothing was spawned.
Preflight ==
  /\ at = "preflight"
  /\ IF Supported(policy)
     THEN Goto("spawn") /\ UNCHANGED result
     ELSE Goto("done") /\ result' = "refused"
  /\ UNCHANGED <<policy, failed, ended, tree, pipe, kept, completion, faults>>

PrepareFails ==
  /\ at = "preflight" /\ Supported(policy)
  /\ Fault /\ Goto("done") /\ result' = "error"
  /\ UNCHANGED <<policy, failed, ended, tree, pipe, kept, completion>>

\* The child joins its cgroup before it execs; spawn returns after the exec.
\* A Restricted child installs its restrictions there and is the script.
Spawn ==
  /\ at = "spawn"
  /\ child' = "alive"
  /\ Goto(IF policy.managed THEN "out" ELSE "wait")
  /\ frames' = IF policy.managed THEN {} ELSE {"ready"}
  /\ UNCHANGED <<policy, failed, ended, init, procs, doomed, written, events,
                 pipe, kept, result, completion, faults>>

----------------------------------------------------------------------------
\* The supervision loop: both pipes, the clock, the two event files, the child.
Lesser(a, b) == IF a < b THEN a ELSE b
Left == Limit - (kept["out"] + kept["err"])

\* drain: takes n bytes and keeps what the shared limit leaves room for.
Drain(s, n) ==
  /\ kept' = [kept EXCEPT ![s] = @ + Lesser(n, Left)]
  /\ pipe' = [pipe EXCEPT ![s] = @ - n]

Decide(termination) == ended' = termination /\ Goto("kill")

DrainTurn(s, next) ==
  /\ at = s
  /\ LET n == Lesser(pipe[s], Turn) IN
     /\ Drain(s, n)
     /\ IF n > Left THEN Decide("output") ELSE Goto(next) /\ UNCHANGED ended
  /\ UNCHANGED <<policy, failed, tree, result, completion, faults>>

Watch(position, event, next) ==
  /\ at = position
  /\ IF event \in events THEN Decide(event) ELSE Goto(next) /\ UNCHANGED ended
  /\ UNCHANGED <<policy, failed, tree, pipe, kept, result, completion, faults>>

TryWait ==
  /\ at = "try_wait"
  /\ IF child = "exited" THEN Decide("exited") ELSE Goto("out") /\ UNCHANGED ended
  /\ UNCHANGED <<policy, failed, tree, pipe, kept, result, completion, faults>>

Supervise ==
  \/ DrainTurn("out", "err")
  \/ DrainTurn("err", "clock")
  \/ Watch("clock", "timeout", "pids")
  \/ Watch("pids", "processes", "memory")
  \/ Watch("memory", "memory", "try_wait")
  \/ TryWait

----------------------------------------------------------------------------
\* finish_tree: cgroup.kill, reap the child, wait until nothing is populated.
Alive == (IF child = "alive" THEN {"child"} ELSE {})
         \cup (IF init \in {"setup", "ready", "script"} THEN {"init"} ELSE {})
         \cup procs

Kill ==
  /\ at = "kill" /\ Goto("reap")
  /\ doomed' = TRUE
  /\ UNCHANGED <<policy, failed, ended, child, init, procs, frames, written,
                 events, pipe, kept, result, completion, faults>>

\* Mutant: the child is reaped and the cgroup is not waited for.
Emptied_Reaped == child # "alive"

Emptied == Alive = {}

\* The fallback's cleanup ends the run; execute goes on to read the rest.
WaitEmpty ==
  /\ at = "reap" /\ Emptied
  /\ IF failed
     THEN /\ Goto("done") /\ result' = "error"
          /\ completion' = CompletionRequired(RequestedBy(policy))
     ELSE Goto("rest_out") /\ UNCHANGED <<result, completion>>
  /\ UNCHANGED <<policy, failed, ended, tree, pipe, kept, faults>>

\* Mutant: what the pipe still holds after the kill is not read.
DrainComplete_Skipped(position, s, next) ==
  /\ at = position /\ Goto(next)
  /\ UNCHANGED <<policy, failed, ended, tree, pipe, kept, result, completion, faults>>

\* drain_complete: turns until nothing more comes; stderr is read only when
\* stdout stayed within the limit.
DrainComplete(position, s, next) ==
  /\ at = position
  /\ Drain(s, pipe[s])
  /\ IF pipe[s] > Left
     THEN ended' = "output" /\ Goto("report")
     ELSE Goto(next) /\ UNCHANGED ended
  /\ UNCHANGED <<policy, failed, tree, result, completion, faults>>

\* parse_private_report, then the receipt and the completion evidence.
Report ==
  /\ at = "report"
  /\ IF frames = {"ready"}
     THEN /\ Goto("done") /\ result' = ended
          /\ completion' = CompletionRequired(RequestedBy(policy))
          /\ UNCHANGED failed
     ELSE /\ failed' = TRUE /\ Goto("kill")
          /\ UNCHANGED <<result, completion>>
  /\ UNCHANGED <<policy, ended, tree, pipe, kept, faults>>

\* LinuxLifecycle::execute waits for the script alone; its reader of stderr
\* stops within a deadline.
RestrictedWait ==
  /\ at = "wait" /\ child = "exited"
  /\ Goto("done") /\ result' = "exited"
  /\ completion' = CompletionRequired(RequestedBy(policy))
  /\ UNCHANGED <<policy, failed, ended, tree, pipe, kept, faults>>

----------------------------------------------------------------------------
\* Errors.  checked_fallback cleans up once; a failing cleanup panics, and
\* tapid's death dooms a managed tree (PR_SET_PDEATHSIG, --kill-child).
Fallible ==
  {"spawn", "out", "err", "pids", "memory", "try_wait", "kill", "reap",
   "rest_out", "rest_err"}

\* Mutant: an error returns without the fallback's cleanup.
Error_NoFallback ==
  /\ at \in Fallible /\ Fault
  /\ Goto("done") /\ result' = "error" /\ failed' = TRUE
  /\ completion' = CompletionRequired(RequestedBy(policy))
  /\ UNCHANGED <<policy, ended, tree, pipe, kept>>

Error ==
  /\ at \in Fallible \cup {"wait"} /\ Fault
  /\ IF failed
     THEN /\ Goto("panicked") /\ doomed' = TRUE
          /\ UNCHANGED <<failed, result, completion>>
     ELSE IF policy.managed
     THEN /\ failed' = TRUE /\ Goto("kill")
          /\ UNCHANGED <<doomed, result, completion>>
     ELSE /\ failed' = TRUE /\ Goto("done") /\ result' = "error"
          /\ completion' = CompletionRequired(RequestedBy(policy))
          /\ UNCHANGED doomed
  /\ UNCHANGED <<policy, ended, child, init, procs, frames, written, events,
                 pipe, kept>>

TapidDies ==
  /\ Running /\ Fault /\ Goto("killed")
  /\ doomed' = (doomed \/ policy.managed)
  /\ UNCHANGED <<policy, failed, ended, child, init, procs, frames, written,
                 events, pipe, kept, result, completion>>

----------------------------------------------------------------------------
\* The tree (external: kernel, unshare, the launcher in the namespace and the
\* script).
Still == UNCHANGED <<policy, at, failed, ended, kept, result, completion, faults>>
Scripted == IF policy.managed THEN init = "script" ELSE child = "alive"

\* unshare forks the launcher; the launcher confirms and execs, or reports.
Fork1 ==
  /\ policy.managed /\ child = "alive" /\ init = "none" /\ ~doomed
  /\ init' = "setup"
  /\ UNCHANGED <<child, procs, doomed, frames, written, events, pipe>> /\ Still

Launcher ==
  /\ ~doomed
  /\ \/ init = "setup" /\ init' = "ready" /\ frames' = {"ready"}
     \/ init = "setup" /\ init' = "gone" /\ frames' = {"setup_error"}
     \/ init = "ready" /\ init' = "script" /\ UNCHANGED frames
     \/ init = "ready" /\ init' = "gone" /\ frames' = frames \cup {"exec_error"}
  /\ UNCHANGED <<child, procs, doomed, written, events, pipe>> /\ Still

Write(s) ==
  /\ Scripted \/ procs # {}
  /\ written[s] < MaxWritten
  /\ written' = [written EXCEPT ![s] = @ + 1]
  /\ pipe' = [pipe EXCEPT ![s] = @ + 1]
  /\ UNCHANGED <<child, init, procs, doomed, frames, events>> /\ Still

ForkMore(p) ==
  /\ Scripted /\ ~doomed /\ p \notin procs
  /\ procs' = procs \cup {p}
  /\ UNCHANGED <<child, init, doomed, frames, written, events, pipe>> /\ Still

\* The kernel counts a refused fork or allocation; an allocation that cannot
\* be met kills the whole cgroup (memory.oom.group).
HitLimit(event) ==
  /\ policy.managed /\ Alive # {} /\ event \notin events
  /\ events' = events \cup {event}
  /\ doomed' \in (IF event = "memory" THEN {doomed, TRUE} ELSE {doomed})
  /\ UNCHANGED <<child, init, procs, frames, written, pipe>> /\ Still

Elapse ==
  /\ "timeout" \in policy.limits /\ child # "none" /\ "timeout" \notin events
  /\ events' = events \cup {"timeout"}
  /\ UNCHANGED <<child, init, procs, doomed, frames, written, pipe>> /\ Still

\* The first process of a PID namespace takes every other one with it, and
\* unshare exits after it; a Restricted script leaves its descendants.
Exit ==
  /\ \/ init = "script" /\ init' = "gone" /\ procs' = {} /\ UNCHANGED child
     \/ child = "alive" /\ init = "gone" /\ child' = "exited" /\ UNCHANGED <<init, procs>>
     \/ ~policy.managed /\ child = "alive" /\ child' = "exited" /\ UNCHANGED <<init, procs>>
     \/ \E p \in procs : procs' = procs \ {p} /\ UNCHANGED <<child, init>>
  /\ UNCHANGED <<doomed, frames, written, events, pipe>> /\ Still

Die ==
  /\ doomed
  /\ \/ child = "alive" /\ child' = "exited" /\ UNCHANGED <<init, procs>>
     \/ "init" \in Alive /\ init' = "gone" /\ procs' = {} /\ UNCHANGED child
     \/ \E p \in procs : procs' = procs \ {p} /\ UNCHANGED <<child, init>>
  /\ UNCHANGED <<doomed, frames, written, events, pipe>> /\ Still

----------------------------------------------------------------------------
Tapid ==
  \/ Preflight \/ Spawn \/ Supervise \/ Kill \/ WaitEmpty
  \/ DrainComplete("rest_out", "out", "rest_err")
  \/ DrainComplete("rest_err", "err", "report")
  \/ Report \/ RestrictedWait

Script ==
  \/ Fork1 \/ Launcher \/ Exit
  \/ \E s \in Streams : Write(s)
  \/ \E p \in Procs : ForkMore(p)
  \/ \E e \in {"processes", "memory"} : HitLimit(e)

Next == Tapid \/ PrepareFails \/ Error \/ TapidDies \/ Script \/ Elapse \/ Die

Spec == Init /\ [][Next]_vars
FairSpec == Spec /\ WF_vars(Tapid) /\ WF_vars(Elapse) /\ WF_vars(Die)

----------------------------------------------------------------------------
\* Whatever a ManagedTree run returns, an outcome or an error, no process of
\* its tree is left, and its completion evidence says so; a Restricted run
\* never claims it (OwnedExecutionAttempt::finish, Lifecycle::finish_tree).
NothingSurvives ==
  at = "done" /\ result # "refused" /\ child # "none" =>
    /\ "cleanup" \in completion <=> policy.managed
    /\ "cleanup" \in completion => Alive = {}

\* An outcome is given only for a script that ran behind confirmed
\* restrictions and under every limit its policy sets.  What it captured is
\* within the shared limit; it ends as OutputLimitExceeded exactly when more
\* was written, and otherwise nothing that was written is missing.
OutputIsAccounted ==
  at = "done" /\ result \notin {"refused", "error"} =>
    /\ frames = {"ready"}
    /\ "output" \in policy.limits =>
         /\ kept["out"] + kept["err"] <= Limit
         /\ result = "output" <=> written["out"] + written["err"] > Limit
         /\ result # "output" => kept = written

\* A ManagedTree run comes to an end and leaves nothing behind, whatever the
\* script does and even when tapid panics or is killed: the timeout bounds
\* the supervision loop, and the kill reaches every process.
ManagedRunEnds ==
  policy.managed => <>[](~Running /\ Alive = {})

\* A run that returned left nothing behind and says what it did.
RunIsAccounted == NothingSurvives /\ OutputIsAccounted
=============================================================================
