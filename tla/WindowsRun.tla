----------------------------- MODULE WindowsRun -----------------------------
(***************************************************************************)
(* A contained run on Windows, and the network guard service beside it      *)
(* (tapid-runner/src/windows_execution.rs, windows_filesystem.rs,           *)
(* windows_job.rs, windows_process.rs, windows_cancellation.rs and          *)
(* windows_guard/).                                                         *)
(*                                                                          *)
(* A run has an AppContainer of its own (its SID is the run), adds entries  *)
(* for it to the DACLs of what it may reach, creates its child suspended in *)
(* a Job Object, registers the Job with the guard, which denies the SID the *)
(* network, and only then resumes the child.  Several runs share the        *)
(* objects, the ACL mutex and the guard.  Every native call may fail.       *)
(* What Windows does (the kernel closing a Job with its last handle, the    *)
(* mutex, the filter engine) is modelled from how the code uses it.         *)
(* Runs with network access use a broker in the place of the guard and are  *)
(* left out, as is the content of pipes.                                    *)
(***************************************************************************)
EXTENDS Naturals, Sequences, FiniteSets, SequencesExt

CONSTANTS
  Runs,          \* executions of tapid, each in its own process
  Objects,       \* directories and files whose DACL a grant changes
  Wants,         \* the objects each run is granted, in order
  MaxKids,       \* bound on the processes below a root process
  MaxFilters,    \* runs the filter engine has room for (MAX_FILTERS)
  MaxFaults      \* native calls that fail, crashes, stops of the service

VARIABLES
  run,           \* the state of each run, in its process
  acl,           \* entries for the runs' SIDs on each object; Null: everyone
  mutex,         \* the ACL mutex: its holder, the DACL it read, abandoned or not
  dying,         \* Jobs that were terminated
  service,       \* the guard: absent, stopped, running or stopping
  conns,         \* the guard's connections, by run
  filters,       \* SIDs denied the network; they outlive the service
  admin,         \* an uninstall under way
  faults

vars == <<run, acl, mutex, dying, service, conns, filters, admin, faults>>
Kernel == <<acl, mutex, dying, service, conns, filters, admin>>

Nobody == "nobody"
Null == {"everyone"}
Free == [holder |-> Nobody, seen |-> {}, abandoned |-> FALSE]
NoConn == [open |-> FALSE, served |-> FALSE, lease |-> FALSE, closing |-> FALSE,
           message |-> "none", reply |-> "none"]

Alive(r) == run[r].child \in {"suspended", "running"} \/ run[r].kids > 0
Live(r) == run[r].child = "running" \/ run[r].kids > 0
Active(r) == run[r].member /\ Alive(r)     \* active_process_count is not zero

CanFail == faults < MaxFaults /\ faults' = faults + 1
Keep == faults' = faults

Goto(r, to) == run' = [run EXCEPT ![r].at = to]
Fail(r, to) == run' = [run EXCEPT ![r].at = to, ![r].error = TRUE]

----------------------------------------------------------------------------
\* A native call of prepare that succeeds, or fails and starts the cleanup.
Prepare(r, from, success) ==
  /\ run[r].at = from
  /\ \/ success /\ Keep
     \/ CanFail /\ Fail(r, "empty")
  /\ UNCHANGED Kernel

Start(r) ==
  Prepare(r, "idle", run' = [run EXCEPT ![r].at = "container", ![r].active = TRUE])

CreateContainer(r) ==
  Prepare(r, "container", run' = [run EXCEPT ![r].at = "grant", ![r].sid = TRUE])

CreateJob(r) == Prepare(r, "job", run' = [run EXCEPT ![r].at = "child", ![r].job = TRUE])

CreateSuspended(r) ==
  Prepare(r, "child", run' = [run EXCEPT ![r].at = "assign", ![r].child = "suspended"])

AssignSuspended(r) ==
  Prepare(r, "assign", run' = [run EXCEPT ![r].at = "register", ![r].member = TRUE])

----------------------------------------------------------------------------
\* WindowsPathAcl: a change of a DACL reads it, adds or removes the entries of
\* one SID and writes it back, under a mutex shared by all processes.

\* Mutant: the mutex is not shared.
Lock_Private(r, object) == mutex' = [mutex EXCEPT !.holder = r, !.seen = acl[object]]

Lock(r, object) ==
  /\ mutex.holder = Nobody /\ ~mutex.abandoned
  /\ mutex' = [mutex EXCEPT !.holder = r, !.seen = acl[object]]

\* The mutex is abandoned, or was not free in time.
CannotLock ==
  \/ mutex.abandoned /\ mutex' = Free /\ Keep
  \/ mutex.holder # Nobody /\ CanFail /\ UNCHANGED mutex

Release == mutex' = Free

Granting(r) == run[r].at = "grant" /\ Len(run[r].held) < Len(Wants[r])
NextWant(r) == Wants[r][Len(run[r].held) + 1]

\* apply: an object at a time; the first failure rolls back what was granted.
BeginGrant(r) ==
  /\ Granting(r)
  /\ \/ Lock(r, NextWant(r)) /\ Goto(r, "write_grant") /\ Keep
     \/ CannotLock /\ Fail(r, "rollback")
  /\ UNCHANGED <<acl, dying, service, conns, filters, admin>>

WriteGrant(r) ==
  /\ run[r].at = "write_grant"
  /\ LET o == NextWant(r)
     IN \/ /\ acl' = [acl EXCEPT ![o] = IF mutex.seen = Null THEN @ ELSE mutex.seen \cup {r}]
           /\ run' = [run EXCEPT ![r].at = "grant", ![r].held = Append(@, o)]
           /\ Keep
        \/ CanFail /\ Fail(r, "rollback") /\ UNCHANGED acl
  /\ Release
  /\ UNCHANGED <<dying, service, conns, filters, admin>>

\* verify_effective_filesystem_access, once everything is granted.
VerifyAccess(r) ==
  /\ run[r].at = "grant" /\ ~Granting(r)
  /\ \/ Goto(r, "job") /\ Keep
     \/ CanFail /\ Fail(r, "rollback")
  /\ UNCHANGED Kernel

\* restore: from the last grant to the first.  One that fails is kept for a
\* later pass: restore of the whole, then Drop of what is left of it.
Restoring(r) == run[r].at \in {"rollback", "restore", "drop"}
Passes == [rollback |-> 2, restore |-> 1, drop |-> 2]
After == [rollback |-> "empty", restore |-> "profile", drop |-> "done"]
Left(r) == SelectSeq(run[r].held, LAMBDA o : o \notin run[r].tried)

BeginRestore(r) ==
  /\ Restoring(r) /\ Left(r) # <<>>
  /\ LET o == Last(Left(r))
     IN \/ /\ Lock(r, o) /\ Keep
           /\ run' = [run EXCEPT ![r].back = run[r].at, ![r].at = "write_restore"]
        \/ /\ CannotLock
           /\ run' = [run EXCEPT ![r].tried = @ \cup {o}]
  /\ UNCHANGED <<acl, dying, service, conns, filters, admin>>

WriteRestore(r) ==
  /\ run[r].at = "write_restore"
  /\ LET o == Last(Left(r))
     IN \/ /\ acl' = [acl EXCEPT ![o] = IF mutex.seen = Null THEN @ ELSE mutex.seen \ {r}]
           /\ run' = [run EXCEPT ![r].at = run[r].back,
                                 ![r].held = SelectSeq(@, LAMBDA p : p # o)]
           /\ Keep
        \/ /\ CanFail /\ UNCHANGED acl
           /\ run' = [run EXCEPT ![r].at = run[r].back, ![r].tried = @ \cup {o}]
  /\ Release
  /\ UNCHANGED <<dying, service, conns, filters, admin>>

EndPass(r) ==
  /\ Restoring(r) /\ Left(r) = <<>>
  /\ LET at == run[r].at
         again == run[r].held # <<>> /\ run[r].pass < Passes[at]
         failed == run[r].held # <<>>
     IN run' = [run EXCEPT
          ![r].tried = {},
          ![r].pass = IF again THEN @ + 1 ELSE 1,
          ![r].at = IF again THEN at ELSE After[at],
          ![r].held = IF again \/ at = "restore" THEN @ ELSE <<>>,
          ![r].dirty = @ \/ (failed /\ at = "restore")]
  /\ Keep /\ UNCHANGED Kernel

----------------------------------------------------------------------------
\* Guard::register: the connection, the request, and the answer or a timeout.
Register(r) ==
  /\ run[r].at = "register"
  /\ \/ /\ service = "running" /\ Goto(r, "registering") /\ Keep
        /\ conns' = [conns EXCEPT ![r] = [NoConn EXCEPT !.open = TRUE, !.served = TRUE,
                                                       !.message = "register"]]
     \/ /\ service # "running" /\ Fail(r, "empty") /\ Keep /\ UNCHANGED conns
  /\ UNCHANGED <<acl, mutex, dying, service, filters, admin>>

Answered(r, answer) == conns[r].served /\ conns[r].reply = answer
Hangup(r) == conns' = [conns EXCEPT ![r].open = FALSE]

\* Mutant: an answer other than the acknowledgement is taken for it.
Registered_Unchecked(r) ==
  /\ run[r].at = "registering"
  /\ conns[r].reply # "none" /\ Goto(r, "resume") /\ Keep
  /\ conns' = [conns EXCEPT ![r].reply = "none"]
  /\ UNCHANGED <<acl, mutex, dying, service, filters, admin>>

Registered(r) ==
  /\ run[r].at = "registering"
  /\ \/ /\ Answered(r, "enforced") /\ Goto(r, "resume") /\ Keep
        /\ conns' = [conns EXCEPT ![r].reply = "none"]
     \/ /\ Answered(r, "error") \/ ~conns[r].served
        /\ Fail(r, "empty") /\ Keep /\ Hangup(r)
     \/ CanFail /\ Fail(r, "empty") /\ Hangup(r)
  /\ UNCHANGED <<acl, mutex, dying, service, filters, admin>>

\* The end of prepare (the readers of the pipes) and the start of
\* resume_and_wait_for_status, which wants exactly one suspension.
Resume(r) ==
  /\ run[r].at = "resume"
  /\ \/ /\ run' = [run EXCEPT ![r].at = "wait",
                              ![r].child = IF @ = "suspended" THEN "running" ELSE @]
        /\ Keep
     \/ CanFail /\ Fail(r, "empty")
  /\ UNCHANGED Kernel

\* The wait itself, the exit code or the accounting of the Job cannot be read.
WaitFails(r) ==
  /\ run[r].at = "wait" /\ CanFail /\ Fail(r, "empty")
  /\ UNCHANGED Kernel

TreeExits(r) ==
  /\ run[r].at = "wait" /\ run[r].child = "exited" /\ ~Active(r) /\ ~run[r].interrupted
  /\ run' = [run EXCEPT ![r].at = "empty", ![r].ended = "exited"]
  /\ Keep /\ UNCHANGED Kernel

\* The timeout, the output limit or an interrupt: terminate_job_and_reap.
Stop(r) ==
  /\ run[r].at = "wait"
  /\ run' = [run EXCEPT ![r].at = "reap", ![r].ended = "stopped"]
  /\ dying' = dying \cup {r}
  /\ Keep /\ UNCHANGED <<acl, mutex, service, conns, filters, admin>>

Reap(r) ==
  /\ run[r].at = "reap"
  /\ \/ ~Active(r) /\ Goto(r, "empty") /\ Keep
     \/ Active(r) /\ CanFail /\ Fail(r, "empty")
  /\ UNCHANGED Kernel

----------------------------------------------------------------------------
\* cleanup_resources.

\* empty_before_revocation, then Drop of the child, which ends one that was
\* never assigned to the Job.
EmptyJob(r) ==
  /\ run[r].at = "empty"
  /\ \/ /\ Active(r) /\ r \notin dying /\ dying' = dying \cup {r} /\ UNCHANGED run
     \/ /\ ~Active(r) /\ UNCHANGED dying
        /\ run' = [run EXCEPT ![r].at = "finish",
                              ![r].child = IF @ = "suspended" THEN "exited" ELSE @]
  /\ Keep /\ UNCHANGED <<acl, mutex, service, conns, filters, admin>>

\* Guard::finish, when a guard is held.
Holds(r) == conns[r].open

Finish(r) ==
  /\ run[r].at = "finish" /\ Holds(r)
  /\ \/ /\ conns[r].served /\ conns' = [conns EXCEPT ![r].message = "finish"]
        /\ Goto(r, "finishing")
     \/ /\ ~conns[r].served /\ Hangup(r)
        /\ run' = [run EXCEPT ![r].at = "close", ![r].dirty = TRUE]
  /\ Keep /\ UNCHANGED <<acl, mutex, dying, service, filters, admin>>

Finished(r) ==
  /\ run[r].at = "finishing" /\ Hangup(r)
  /\ \/ Answered(r, "done") /\ Goto(r, "close") /\ Keep
     \/ /\ Answered(r, "error") \/ ~conns[r].served
        /\ run' = [run EXCEPT ![r].at = "close", ![r].dirty = TRUE] /\ Keep
     \/ CanFail /\ run' = [run EXCEPT ![r].at = "close", ![r].dirty = TRUE]
  /\ UNCHANGED <<acl, mutex, dying, service, filters, admin>>

CloseJob(r) ==
  /\ run[r].at = "close" \/ (run[r].at = "finish" /\ ~Holds(r))
  /\ run' = [run EXCEPT ![r].at = "restore", ![r].job = FALSE]
  /\ Keep /\ UNCHANGED Kernel

\* The profile goes, and the outcome is settled: the scope of interrupts ends
\* with it, and what is left of the grants is tried again on Drop.
DeleteProfile(r) ==
  /\ run[r].at = "profile"
  /\ \E deleted \in BOOLEAN :
       /\ IF deleted \/ ~run[r].sid THEN Keep ELSE CanFail
       /\ LET clean == ~run[r].error /\ ~run[r].dirty /\ (deleted \/ ~run[r].sid)
          IN run' = [run EXCEPT
               ![r].at = "drop", ![r].active = FALSE,
               ![r].sid = run[r].sid /\ ~deleted,
               ![r].report = IF ~clean THEN "failed"
                             ELSE IF run[r].interrupted THEN "cancelled"
                             ELSE run[r].ended]
  /\ UNCHANGED Kernel

\* Ctrl+C: counted while a scope is active, else the process ends.
Interrupt(r) ==
  /\ run[r].active /\ ~run[r].interrupted /\ CanFail
  /\ run' = [run EXCEPT ![r].interrupted = TRUE]
  /\ UNCHANGED Kernel

\* The process of a run ends without any of its cleanup.
Crash(r) ==
  /\ run[r].at \notin {"idle", "done", "dead"} /\ CanFail
  /\ run' = [run EXCEPT ![r].at = "dead", ![r].job = FALSE, ![r].active = FALSE]
  /\ mutex' = IF mutex.holder = r THEN [Free EXCEPT !.abandoned = TRUE] ELSE mutex
  /\ Hangup(r)
  /\ UNCHANGED <<acl, dying, service, filters, admin>>

----------------------------------------------------------------------------
\* The kernel and the script.  A Job ends with its last handle, of which the
\* guard has one for as long as it has a lease.
Doomed(r) ==
  run[r].member /\ (r \in dying \/ (~run[r].job /\ ~(conns[r].served /\ conns[r].lease)))

Die(r) ==
  /\ Doomed(r) /\ Alive(r)
  /\ run' = [run EXCEPT ![r].child = "exited",
                        ![r].kids = IF run[r].child = "exited" THEN @ - 1 ELSE @]
  /\ Keep /\ UNCHANGED Kernel

Script(r) ==
  /\ Live(r) /\ ~Doomed(r)
  /\ \/ run[r].kids < MaxKids /\ run' = [run EXCEPT ![r].kids = @ + 1]
     \/ run[r].kids > 0 /\ run' = [run EXCEPT ![r].kids = @ - 1]
     \/ run[r].child = "running" /\ run' = [run EXCEPT ![r].child = "exited"]
  /\ Keep /\ UNCHANGED Kernel

\* Somebody replaces a DACL by one that allows everyone.
OpenUp(o) ==
  /\ acl[o] # Null /\ CanFail
  /\ acl' = [acl EXCEPT ![o] = Null]
  /\ UNCHANGED <<run, mutex, dying, service, conns, filters, admin>>

----------------------------------------------------------------------------
\* The guard's loop over its connections.
Up == service \in {"running", "stopping"}
Serving(r) == Up /\ conns[r].served /\ ~conns[r].closing

\* deny refuses a full engine and a SID that is denied already; target refuses
\* a process that ended or is not in the Job, and a caller that is gone.
CanDeny(r) ==
  /\ ~conns[r].lease /\ r \notin filters /\ Cardinality(filters) < MaxFilters
  /\ run[r].at # "dead" /\ run[r].child \in {"suspended", "running"} /\ run[r].member

ServeRegister(r) ==
  /\ Serving(r) /\ conns[r].message = "register" /\ conns[r].reply = "none"
  /\ \/ /\ CanDeny(r) /\ filters' = filters \cup {r} /\ Keep
        /\ conns' = [conns EXCEPT ![r].message = "none", ![r].lease = TRUE,
                                  ![r].reply = "enforced"]
     \/ /\ IF CanDeny(r) THEN CanFail ELSE Keep
        /\ conns' = [conns EXCEPT ![r].message = "none", ![r].reply = "error"]
        /\ UNCHANGED filters
  /\ UNCHANGED <<run, acl, mutex, dying, service, admin>>

\* job_empty, the accounting remove_empty rests on.
JobEmpty(r) == ~Active(r)

ServeFinish(r) ==
  /\ Serving(r) /\ conns[r].message = "finish" /\ conns[r].reply = "none"
  /\ \/ /\ conns[r].lease /\ JobEmpty(r) /\ Keep
        /\ filters' = filters \ {r}
        /\ conns' = [conns EXCEPT ![r].message = "none", ![r].lease = FALSE,
                                  ![r].reply = "done"]
     \/ /\ IF conns[r].lease /\ JobEmpty(r) THEN CanFail ELSE Keep
        /\ conns' = [conns EXCEPT ![r].message = "none", ![r].reply = "error"]
        /\ UNCHANGED filters
  /\ UNCHANGED <<run, acl, mutex, dying, service, admin>>

\* A connection is given up when the service stops, when its client is gone,
\* or when a client without a lease is late.
GiveUp(r) ==
  /\ Serving(r)
  /\ \/ (service = "stopping" \/ ~conns[r].open) /\ Keep
     \/ ~conns[r].lease /\ CanFail
  /\ conns' = [conns EXCEPT ![r].closing = TRUE]
  /\ UNCHANGED <<run, acl, mutex, dying, service, filters, admin>>

\* Mutant: the Job of a lost client is not terminated.
Drain_Waiting(r) ==
  /\ Up /\ conns[r].served /\ conns[r].closing
  /\ (conns[r].lease => JobEmpty(r))
  /\ filters' = IF conns[r].lease THEN filters \ {r} ELSE filters
  /\ conns' = [conns EXCEPT ![r] = [NoConn EXCEPT !.open = conns[r].open]]
  /\ UNCHANGED dying
  /\ Keep /\ UNCHANGED <<run, acl, mutex, service, admin>>

\* A lease is drained: its Job is terminated once, and its filters go when the
\* Job is empty.  If they cannot be removed then, they stay behind.
Drain(r) ==
  /\ Up /\ conns[r].served /\ conns[r].closing
  /\ \/ /\ conns[r].lease /\ ~JobEmpty(r) /\ r \notin dying
        /\ dying' = dying \cup {r} /\ Keep /\ UNCHANGED <<conns, filters>>
     \/ /\ conns[r].lease => JobEmpty(r)
        /\ \/ filters' = (IF conns[r].lease THEN filters \ {r} ELSE filters) /\ Keep
           \/ conns[r].lease /\ CanFail /\ UNCHANGED filters
        /\ conns' = [conns EXCEPT ![r] = [NoConn EXCEPT !.open = conns[r].open]]
        /\ UNCHANGED dying
  /\ UNCHANGED <<run, acl, mutex, service, admin>>

Unserved == [r \in Runs |-> [NoConn EXCEPT !.open = conns[r].open]]

ServiceEnds ==
  /\ Up
  /\ \/ /\ service = "stopping" /\ \A r \in Runs : ~conns[r].served
        /\ Keep /\ UNCHANGED conns
     \/ CanFail /\ conns' = Unserved
  /\ service' = "stopped"
  /\ UNCHANGED <<run, acl, mutex, dying, filters, admin>>

\* install, and the start of an installed service.
Install ==
  /\ service \in {"absent", "stopped"} /\ ~admin
  /\ service' = "running"
  /\ Keep /\ UNCHANGED <<run, acl, mutex, dying, conns, filters, admin>>

\* uninstall: nothing may be active or retained when it asks the service to stop,
\* and nothing may be left when it has stopped.
BeginUninstall ==
  /\ service \in {"running", "stopped"} /\ ~admin /\ CanFail
  /\ service = "running" =>
       filters = {} /\ \A r \in Runs : ~conns[r].lease
  /\ service' = IF service = "running" THEN "stopping" ELSE service
  /\ admin' = TRUE
  /\ UNCHANGED <<run, acl, mutex, dying, conns, filters>>

EndUninstall ==
  /\ admin /\ service = "stopped" /\ admin' = FALSE
  /\ service' = IF filters = {} THEN "absent" ELSE service
  /\ Keep /\ UNCHANGED <<run, acl, mutex, dying, conns, filters>>

----------------------------------------------------------------------------
Init ==
  /\ run = [r \in Runs |->
       [at |-> "idle", active |-> FALSE, sid |-> FALSE, held |-> <<>>, tried |-> {},
        pass |-> 1, back |-> "", job |-> FALSE, child |-> "none", kids |-> 0,
        member |-> FALSE, error |-> FALSE, dirty |-> FALSE, ended |-> "",
        interrupted |-> FALSE, report |-> "none"]]
  /\ acl = [o \in Objects |-> {}]
  /\ mutex = Free /\ dying = {} /\ conns = [r \in Runs |-> NoConn]
  /\ service = "running" /\ filters = {} /\ admin = FALSE /\ faults = 0

RunStep(r) ==
  \/ Start(r) \/ CreateContainer(r) \/ BeginGrant(r) \/ WriteGrant(r) \/ VerifyAccess(r)
  \/ CreateJob(r) \/ CreateSuspended(r) \/ AssignSuspended(r)
  \/ Register(r) \/ Registered(r) \/ Resume(r) \/ WaitFails(r) \/ TreeExits(r) \/ Stop(r) \/ Reap(r)
  \/ EmptyJob(r) \/ Finish(r) \/ Finished(r) \/ CloseJob(r)
  \/ BeginRestore(r) \/ WriteRestore(r) \/ EndPass(r) \/ DeleteProfile(r)

GuardStep(r) == ServeRegister(r) \/ ServeFinish(r) \/ GiveUp(r) \/ Drain(r)

Next ==
  \/ \E r \in Runs :
       RunStep(r) \/ GuardStep(r) \/ Die(r) \/ Script(r) \/ Interrupt(r) \/ Crash(r)
  \/ \E o \in Objects : OpenUp(o)
  \/ ServiceEnds \/ Install \/ BeginUninstall \/ EndUninstall

Spec == Init /\ [][Next]_vars

\* Processes run on, the kernel ends what it must end, and the service goes on
\* with its loop for as long as it is up.
FairSpec ==
  /\ Spec
  /\ \A r \in Runs : WF_vars(RunStep(r)) /\ WF_vars(Die(r)) /\ WF_vars(GuardStep(r))

----------------------------------------------------------------------------
\* A contained process is never without its network denial ("Disconnected
\* leases are drained, never timed out open", windows_guard/service.rs):
\* whatever becomes of its tapid process, of the service and of its
\* connection, while anything of the Job runs the SID is in a filter.
NetworkStaysDenied == \A r \in Runs : Live(r) => r \in filters

\* What a run was granted holds while its processes live, whatever other runs
\* do to the same DACLs: nobody's change is lost between reading a DACL and
\* writing it, and a run revokes only after its Job is empty
\* (windows_filesystem.rs, "ACL restoration must never precede
\* kernel-confirmed empty Job").
AuthorityHolds ==
  \A r \in Runs : Live(r) =>
    \A i \in DOMAIN Wants[r] : acl[Wants[r][i]] = Null \/ r \in acl[Wants[r][i]]

\* A run that reports an end left nothing behind: no process, no filter, no
\* entry for its SID, no profile; and one that was interrupted at any time
\* before it settled its outcome does not report a plain exit.
CleanReport ==
  \A r \in Runs : run[r].report \in {"exited", "stopped", "cancelled"} =>
    /\ ~Alive(r) /\ r \notin filters /\ ~run[r].sid
    /\ \A o \in Objects : r \notin acl[o]
    /\ run[r].report # "cancelled" => ~run[r].interrupted

\* The authority of a run is there while it is used and gone when it reports.
AuthorityIsExact == AuthorityHolds /\ CleanReport

\* Nothing outlives its run: when the tapid process ends without its cleanup,
\* the processes of its Job end too, although the guard still has a handle that
\* keeps the Job from closing.
OrphansEnd == \A r \in Runs : run[r].at = "dead" ~> ~Active(r)
=============================================================================
