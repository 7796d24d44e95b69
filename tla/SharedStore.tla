---------------------------- MODULE SharedStore ----------------------------
(***************************************************************************)
(* crates/tapid-store: one store, many processes.  Installs of several     *)
(* projects publish verified trees under the exclusive store lock and a    *)
(* store journal whose decision is the project's own lifecycle record;     *)
(* replays copy trees under the shared lock; `tapid clean` evicts them.    *)
(* Whoever takes the lock first settles a journal left by a dead process.  *)
(*                                                                         *)
(* A project's lifecycle record (InstallTransaction) is reduced to its     *)
(* decision, and its activation to the moment at which it commits.         *)
(***************************************************************************)
EXTENDS Naturals, FiniteSets

CONSTANTS
    Projects, Readers, Cleaners,    \* processes, by what they do
    Digests,                        \* trees
    Owners,                         \* owner nonces of lifecycle records
    None,
    TornRemovals,   \* a removal may stop half way and leave part of a tree
    Recreation,     \* a deleted project may be checked out again
    MaxFaults       \* bound on crashes and errors

Procs == Projects \cup Readers \cup Cleaners

ASSUME StoreAssumption ==
    /\ None \notin Procs
    /\ Cardinality(Owners) > Cardinality(Projects)
    /\ TornRemovals \in BOOLEAN
    /\ Recreation \in BOOLEAN
    /\ MaxFaults \in Nat

VARIABLES
    tree,       \* tree[d]: "absent", "whole" (verified), or what a removal
                \* leaves: "torn" (marker present), "unmarked" (marker gone)
    journal,    \* .tapid-transaction.json
    decision,   \* decision[p]: state of p's lifecycle record, "none" without a
                \* record, "gone" without a project directory
    owner,      \* owner[p]: the owner in that record
    holder,     \* the process that holds .store.lock exclusively
    sharers,    \* the processes that hold it shared
    pc,
    why,        \* what the exclusive lock is wanted for
    staged,     \* staged[p]: trees p has verified in private staging
    left,       \* trees still to visit in a loop
    published,  \* StorePublication::published
    target,     \* the tree a replay wants to copy
    installed,  \* history: trees that a live project committed
    faults

storeVars == <<tree, journal>>
lockVars == <<holder, sharers>>
procVars == <<why, staged, left, published, target>>
recordVars == <<decision, owner>>
vars == <<tree, journal, decision, owner, holder, sharers, pc, why, staged, left,
          published, target, installed, faults>>

TreeState == {"absent", "whole", "torn", "unmarked"}
StoreJournal == [project : Projects, owner : Owners, created : SUBSET Digests]

Goto(p, l) == pc' = [pc EXCEPT ![p] = l]
Set(f, p, x) == [f EXCEPT ![p] = x]

Release(p) ==
    /\ holder' = IF holder = p THEN None ELSE holder
    /\ sharers' = sharers \ {p}

Fault == faults < MaxFaults /\ faults' = faults + 1

\* What a command holds in memory goes with it.
Forget(p, w) ==
    /\ why' = Set(why, p, w)
    /\ staged' = Set(staged, p, {})
    /\ left' = Set(left, p, {})
    /\ published' = Set(published, p, {})
    /\ target' = Set(target, p, None)

Exit(p) == Goto(p, "idle") /\ Forget(p, "none")

NoRecord(p, s) == decision' = Set(decision, p, s) /\ owner' = Set(owner, p, None)

-----------------------------------------------------------------------------
(* Commands of a project *)

\* unique_nonce: an owner that no record and no journal carries.
InUse == {owner[p] : p \in {q \in Projects : decision[q] \in {"Prepared", "Committed"}}}
         \cup {j.owner : j \in {journal} \ {None}}

\* Faulty variant: the record is written without an owner.
Begin_NoOwner(p) ==
    /\ pc[p] = "idle"
    /\ decision[p] = "none"
    /\ decision' = Set(decision, p, "Prepared")
    /\ \E S \in (SUBSET Digests) \ {{}} : staged' = Set(staged, p, S)
    /\ why' = Set(why, p, "publish")
    /\ Goto(p, "lockX")
    /\ UNCHANGED <<storeVars, owner, lockVars, left, published, target, installed,
                   faults>>

\* An install has staged its trees and recorded the store in its journal.
Begin(p) ==
    /\ pc[p] = "idle"
    /\ decision[p] = "none"
    /\ decision' = Set(decision, p, "Prepared")
    /\ owner' = Set(owner, p, CHOOSE o \in Owners : o \notin InUse)
    /\ \E S \in (SUBSET Digests) \ {{}} : staged' = Set(staged, p, S)
    /\ why' = Set(why, p, "publish")
    /\ Goto(p, "lockX")
    /\ UNCHANGED <<storeVars, lockVars, left, published, target, installed,
                   faults>>

\* The next command finds its project's record pending.
Resume(p) ==
    /\ pc[p] = "idle"
    /\ decision[p] \in {"Prepared", "Committed"}
    /\ why' = Set(why, p, "settle")
    /\ Goto(p, "lockX")
    /\ UNCHANGED <<storeVars, recordVars, lockVars, staged, left, published,
                   target, installed, faults>>

\* lock_file: polls for five seconds.
LockExclusive(p) ==
    /\ pc[p] = "lockX"
    /\ holder = None /\ sharers = {}
    /\ holder' = p
    /\ Goto(p, "recover")
    /\ UNCHANGED <<storeVars, recordVars, sharers, procVars, installed, faults>>

\* A command that fails settles its record, which needs the lock once more; a
\* command that cannot settle leaves the record to the next one.
AfterError(p) ==
    IF why[p] = "publish" THEN Goto(p, "lockX") /\ Forget(p, "settle") ELSE Exit(p)

TimeOut(p) ==
    /\ pc[p] \in {"lockX", "lockS"}
    /\ holder # None \/ (pc[p] = "lockX" /\ sharers # {})
    /\ AfterError(p)
    /\ UNCHANGED <<storeVars, recordVars, lockVars, installed, faults>>

-----------------------------------------------------------------------------
(* recover_store_journal *)

Locked(p) ==
    \/ why[p] = "publish" /\ Goto(p, "publish") /\ UNCHANGED <<lockVars, recordVars, procVars>>
    \/ why[p] = "settle" /\ Release(p) /\ NoRecord(p, "none") /\ Exit(p)
    \/ why[p] = "read" /\ Release(p) /\ Goto(p, "lockS") /\ UNCHANGED <<recordVars, procVars>>

NothingToRecover(p) ==
    /\ pc[p] = "recover"
    /\ journal = None
    /\ Locked(p)
    /\ UNCHANGED <<storeVars, installed, faults>>

\* Faulty variant: a deleted project is an error.
CoordinatorKnown_ProjectNeeded ==
    /\ decision[journal.project] \in {"Prepared", "Committed"}
    /\ owner[journal.project] = journal.owner

\* The record the journal names is there, or its project is not.
CoordinatorKnown ==
    \/ decision[journal.project] = "gone"
    \/ /\ decision[journal.project] \in {"Prepared", "Committed"}
       /\ owner[journal.project] = journal.owner

\* Faulty variant: a deleted project counts as committed.
ReadDecision_GoneCommitted(p) ==
    /\ pc[p] = "recover"
    /\ journal # None
    /\ CoordinatorKnown
    /\ left' = Set(left, p, IF decision[journal.project] = "Prepared"
                            THEN journal.created ELSE {})
    /\ installed' = IF decision[journal.project] = "gone"
                    THEN installed \ journal.created ELSE installed
    /\ Goto(p, "removeCreated")
    /\ UNCHANGED <<storeVars, recordVars, lockVars, why, staged, published, target,
                   faults>>

\* The coordinator decides; a project directory that is gone has not committed,
\* and its trees are no longer installed.
ReadDecision(p) ==
    /\ pc[p] = "recover"
    /\ journal # None
    /\ CoordinatorKnown
    /\ left' = Set(left, p, IF decision[journal.project] = "Committed" THEN {}
                            ELSE journal.created)
    /\ installed' = IF decision[journal.project] = "gone"
                    THEN installed \ journal.created ELSE installed
    /\ Goto(p, "removeCreated")
    /\ UNCHANGED <<storeVars, recordVars, lockVars, why, staged, published, target,
                   faults>>

\* A tree is verified before it is removed.
RemoveCreated(p) ==
    /\ pc[p] = "removeCreated"
    /\ \E d \in left[p] :
          /\ tree[d] \in {"absent", "whole"}
          /\ tree' = Set(tree, d, "absent")
          /\ left' = Set(left, p, left[p] \ {d})
    /\ UNCHANGED <<journal, recordVars, lockVars, pc, why, staged, published,
                   target, installed, faults>>

RefuseToRecover(p) ==
    /\ \/ /\ pc[p] = "removeCreated"
          /\ \E d \in left[p] : tree[d] \notin {"absent", "whole"}
       \/ /\ pc[p] = "recover"
          /\ journal # None
          /\ ~CoordinatorKnown
    /\ Release(p)
    /\ AfterError(p)
    /\ UNCHANGED <<storeVars, recordVars, installed, faults>>

\* Faulty variant: the journal stays.
RemoveJournal_Kept(p) ==
    /\ pc[p] = "removeCreated"
    /\ left[p] = {}
    /\ Locked(p)
    /\ UNCHANGED <<storeVars, installed, faults>>

RemoveJournal(p) ==
    /\ pc[p] = "removeCreated"
    /\ left[p] = {}
    /\ journal' = None
    /\ Locked(p)
    /\ UNCHANGED <<tree, installed, faults>>

-----------------------------------------------------------------------------
(* publish_inner, StorePublication *)

\* Faulty variant: the journal names every staged tree.
WriteJournal_AllStaged(p) ==
    /\ pc[p] = "publish"
    /\ \A d \in staged[p] : tree[d] \in {"absent", "whole"}
    /\ journal' = [project |-> p, owner |-> owner[p], created |-> staged[p]]
    /\ left' = Set(left, p, staged[p])
    /\ Goto(p, "rename")
    /\ UNCHANGED <<tree, recordVars, lockVars, why, staged, published, target,
                   installed, faults>>

\* A staged tree that the store has must verify; the journal names the others.
\* write_store_journal may fail with the journal in place.
WriteJournal(p) ==
    /\ pc[p] = "publish"
    /\ \A d \in staged[p] : tree[d] \in {"absent", "whole"}
    /\ decision[p] = "Prepared"
    /\ journal' = [project |-> p, owner |-> owner[p],
                   created |-> {d \in staged[p] : tree[d] = "absent"}]
    /\ \/ /\ left' = Set(left, p, staged[p])
          /\ published' = Set(published, p, {})
          /\ Goto(p, "rename")
          /\ UNCHANGED <<lockVars, why, staged, target, faults>>
       \/ Fault /\ Release(p) /\ AfterError(p)
    /\ UNCHANGED <<tree, recordVars, installed>>

RefuseToPublish(p) ==
    /\ pc[p] = "publish"
    /\ \E d \in staged[p] : tree[d] \notin {"absent", "whole"}
    /\ Release(p)
    /\ AfterError(p)
    /\ UNCHANGED <<storeVars, recordVars, installed, faults>>

Rename(p) ==
    /\ pc[p] = "rename"
    /\ \E d \in left[p] :
          /\ published' = Set(published, p, published[p] \cup
                                 (IF tree[d] = "absent" THEN {d} ELSE {}))
          /\ tree' = Set(tree, d, "whole")
          /\ left' = Set(left, p, left[p] \ {d})
    /\ UNCHANGED <<journal, recordVars, lockVars, pc, why, staged, target,
                   installed, faults>>

\* The project activates its roots and makes its decision durable.
Commit(p) ==
    /\ pc[p] = "rename"
    /\ left[p] = {}
    /\ decision' = Set(decision, p, "Committed")
    /\ installed' = installed \cup staged[p]
    /\ Goto(p, "committed")
    /\ UNCHANGED <<storeVars, owner, lockVars, procVars, faults>>

\* Faulty variants: the trees go when the journal cannot be removed (committed
\* is set too late); the command finishes although the journal is still there.
CommitStore_TreesGo(p) ==
    /\ pc[p] = "committed"
    /\ \/ journal' = None /\ Goto(p, "finish") /\ UNCHANGED <<tree, procVars, faults>>
       \/ /\ Fault /\ AfterError(p) /\ UNCHANGED journal
          /\ tree' = [d \in Digests |-> IF d \in published[p] THEN "absent" ELSE tree[d]]
    /\ Release(p)
    /\ UNCHANGED <<recordVars, installed>>
CommitStore_NoSettle(p) ==
    /\ pc[p] = "committed"
    /\ journal' = None \/ UNCHANGED journal
    /\ Goto(p, "finish")
    /\ Release(p)
    /\ UNCHANGED <<tree, recordVars, procVars, installed, faults>>

\* An error may come before or after the journal is removed.
CommitStore(p) ==
    /\ pc[p] = "committed"
    /\ \/ journal' = None /\ Goto(p, "finish") /\ UNCHANGED <<procVars, faults>>
       \/ Fault /\ AfterError(p) /\ journal' \in {None, journal}
    /\ Release(p)
    /\ UNCHANGED <<tree, recordVars, installed>>

Finish(p) ==
    /\ pc[p] = "finish"
    /\ NoRecord(p, "none")
    /\ Exit(p)
    /\ UNCHANGED <<storeVars, lockVars, installed, faults>>

\* A rename fails ("undo"); or, with all trees published, the project rolls the
\* publication back, or drops it.
Abort(p) ==
    /\ pc[p] = "rename"
    /\ Fault
    /\ left' = Set(left, p, published[p])
    /\ \/ left[p] # {} /\ Goto(p, "undo")
       \/ left[p] = {} /\ \E l \in {"undo", "rollback", "drop"} : Goto(p, l)
    /\ UNCHANGED <<storeVars, recordVars, lockVars, why, staged, published,
                   target, installed>>

RemovePublished(p) ==
    /\ pc[p] \in {"undo", "rollback", "drop"}
    /\ \E d \in left[p] :
          /\ tree' = Set(tree, d, "absent")
          /\ left' = Set(left, p, left[p] \ {d})
    /\ UNCHANGED <<journal, recordVars, lockVars, pc, why, staged, published,
                   target, installed, faults>>

\* rollback and Drop go on with the other trees, and leave the journal.
FailToRemove(p) ==
    /\ pc[p] \in {"rollback", "drop"}
    /\ Fault
    /\ \E d \in left[p] :
          /\ \/ TornRemovals /\ \E s \in {"torn", "unmarked"} : tree' = Set(tree, d, s)
             \/ UNCHANGED tree
          /\ left' = Set(left, p, left[p] \ {d})
    /\ Goto(p, "drop")
    /\ UNCHANGED <<journal, recordVars, lockVars, why, staged, published, target,
                   installed>>

Aborted(p) ==
    /\ pc[p] \in {"undo", "rollback", "drop"}
    /\ left[p] = {}
    /\ journal' = IF pc[p] = "drop" THEN journal ELSE None
    /\ Release(p)
    /\ AfterError(p)
    /\ UNCHANGED <<tree, recordVars, installed, faults>>

-----------------------------------------------------------------------------
(* verified_tree_snapshot *)

Read(r) ==
    /\ pc[r] = "idle"
    /\ \E d \in Digests : target' = Set(target, r, d)
    /\ why' = Set(why, r, "read")
    /\ Goto(r, "lockS")
    /\ UNCHANGED <<storeVars, recordVars, lockVars, staged, left, published,
                   installed, faults>>

LockShared(r) ==
    /\ pc[r] = "lockS"
    /\ holder = None
    /\ sharers' = sharers \cup {r}
    /\ Goto(r, "check")
    /\ UNCHANGED <<storeVars, recordVars, holder, procVars, installed, faults>>

\* Faulty variant: the shared lock does not look for a pending journal.
Check_IgnoreJournal(r) ==
    /\ pc[r] = "check"
    /\ \/ /\ tree[target[r]] \in {"absent", "unmarked"}
          /\ Exit(r) /\ Release(r)
       \/ /\ tree[target[r]] \in {"whole", "torn"}
          /\ Goto(r, "copy") /\ UNCHANGED <<lockVars, procVars>>
    /\ UNCHANGED <<storeVars, recordVars, installed, faults>>

\* lock_file_until: a pending journal means unlock, lock exclusively, recover.
\* The clone or copy starts when the tree is there and marked.
Check(r) ==
    /\ pc[r] = "check"
    /\ \/ /\ journal # None
          /\ Goto(r, "lockX") /\ Release(r) /\ UNCHANGED procVars
       \/ /\ journal = None /\ tree[target[r]] \in {"absent", "unmarked"}
          /\ Exit(r) /\ Release(r)
       \/ /\ journal = None /\ tree[target[r]] \in {"whole", "torn"}
          /\ Goto(r, "copy") /\ UNCHANGED <<lockVars, procVars>>
    /\ UNCHANGED <<storeVars, recordVars, installed, faults>>

\* The copy is verified; a mismatch is an error.
Copied(r) ==
    /\ pc[r] = "copy"
    /\ Release(r)
    /\ Exit(r)
    /\ UNCHANGED <<storeVars, recordVars, installed, faults>>

-----------------------------------------------------------------------------
(* maintain_cache *)

\* try_lock, and no pending journal.  Candidates have their marker.
Clean(c) ==
    /\ pc[c] = "idle"
    /\ holder = None /\ sharers = {}
    /\ journal = None
    /\ holder' = c
    /\ left' = Set(left, c, {d \in Digests : tree[d] \in {"whole", "torn"}})
    /\ Goto(c, "evict")
    /\ UNCHANGED <<storeVars, recordVars, sharers, why, staged, published, target,
                   installed, faults>>

Evict(c) ==
    /\ pc[c] = "evict"
    /\ \E d \in left[c] :
          /\ tree' = Set(tree, d, "absent")
          /\ left' = Set(left, c, left[c] \ {d})
          /\ installed' = installed \ {d}
    /\ UNCHANGED <<journal, recordVars, lockVars, pc, why, staged, published,
                   target, faults>>

Cleaned(c) ==
    /\ pc[c] = "evict"
    /\ left[c] = {}
    /\ Release(c)
    /\ Exit(c)
    /\ UNCHANGED <<storeVars, recordVars, installed, faults>>

-----------------------------------------------------------------------------
(* Faults *)

\* What a process that stops now leaves of the tree it is removing.
Removing == {"removeCreated", "undo", "rollback", "drop", "evict"}

Interrupt(p) ==
    \/ UNCHANGED <<tree, installed>>
    \/ /\ TornRemovals
       /\ pc[p] \in Removing
       /\ \E d \in left[p], s \in {"torn", "unmarked"} :
             /\ tree[d] # "absent"
             /\ tree' = Set(tree, d, s)
             /\ installed' = IF pc[p] = "evict" THEN installed \ {d}
                             ELSE installed

\* The process dies; the operating system drops its lock.
Crash(p) ==
    /\ pc[p] # "idle"
    /\ Fault
    /\ Interrupt(p)
    /\ Release(p)
    /\ Exit(p)
    /\ UNCHANGED <<journal, recordVars>>

\* An I/O error ends a recovery, a publication, its removal or an eviction; the
\* command goes on to fail.
Error(p) ==
    /\ pc[p] \in {"recover", "removeCreated", "publish", "undo", "evict"}
    /\ Fault
    /\ Interrupt(p)
    /\ Release(p)
    /\ AfterError(p)
    /\ UNCHANGED <<journal, recordVars>>

\* The user deletes a project, with whatever record it holds, and may check it
\* out again.
DeleteProject(p) ==
    /\ pc[p] = "idle"
    /\ decision[p] # "gone"
    /\ NoRecord(p, "gone")
    /\ UNCHANGED <<storeVars, lockVars, pc, procVars, installed, faults>>

RecreateProject(p) ==
    /\ Recreation
    /\ decision[p] = "gone"
    /\ NoRecord(p, "none")
    /\ UNCHANGED <<storeVars, lockVars, pc, procVars, installed, faults>>

Init ==
    /\ tree \in [Digests -> {"absent", "whole"}]
    /\ journal = None
    /\ decision = [p \in Projects |-> "none"]
    /\ owner = [p \in Projects |-> None]
    /\ holder = None /\ sharers = {}
    /\ pc = [p \in Procs |-> "idle"]
    /\ why = [p \in Procs |-> "none"]
    /\ staged = [p \in Procs |-> {}]
    /\ left = [p \in Procs |-> {}]
    /\ published = [p \in Procs |-> {}]
    /\ target = [p \in Procs |-> None]
    /\ installed = {d \in Digests : tree[d] = "whole"}
    /\ faults = 0

\* Steps that a running process takes by itself.
Run(p) ==
    \/ NothingToRecover(p) \/ ReadDecision(p) \/ RemoveCreated(p)
    \/ RefuseToRecover(p) \/ RemoveJournal(p)
    \/ p \in Projects /\ \/ WriteJournal(p) \/ RefuseToPublish(p) \/ Rename(p)
                         \/ Commit(p) \/ CommitStore(p) \/ Finish(p)
                         \/ RemovePublished(p) \/ Aborted(p)
    \/ p \in Readers /\ (Check(p) \/ Copied(p))
    \/ p \in Cleaners /\ (Evict(p) \/ Cleaned(p))

Next ==
    \/ \E p \in Procs : Run(p) \/ LockExclusive(p) \/ TimeOut(p) \/ Crash(p)
                        \/ Error(p)
    \/ \E p \in Projects : Begin(p) \/ Resume(p) \/ Abort(p) \/ FailToRemove(p)
                           \/ DeleteProject(p) \/ RecreateProject(p)
    \/ \E r \in Readers : Read(r) \/ LockShared(r)
    \/ \E c \in Cleaners : Clean(c)

Spec == Init /\ [][Next]_vars

-----------------------------------------------------------------------------
(* Properties *)

Positions == {"idle", "lockX", "lockS", "recover", "publish", "rename",
              "committed", "finish", "check", "copy"} \cup Removing

TypeOK ==
    /\ tree \in [Digests -> TreeState]
    /\ journal \in StoreJournal \cup {None}
    /\ decision \in [Projects -> {"none", "Prepared", "Committed", "gone"}]
    /\ owner \in [Projects -> Owners \cup {None}]
    /\ holder \in Procs \cup {None}
    /\ sharers \in SUBSET Readers
    /\ pc \in [Procs -> Positions]
    /\ why \in [Procs -> {"none", "publish", "settle", "read"}]
    /\ staged \in [Procs -> SUBSET Digests]
    /\ left \in [Procs -> SUBSET Digests]
    /\ published \in [Procs -> SUBSET Digests]
    /\ target \in [Procs -> Digests \cup {None}]
    /\ installed \in SUBSET Digests
    /\ faults \in 0..MaxFaults

\* A tree that a committed install relies on stays whole in the store, whatever
\* other installs, recoveries and crashes do, until it is evicted.
InstalledTreesStay == \A d \in installed : tree[d] = "whole"

\* A replay copies a tree that some install has committed (or the remains of an
\* interrupted eviction, which its digest check rejects): readers are blocked
\* until the decision is durable.
ReadersSeeCommitted ==
    \A r \in Readers : (pc[r] = "copy" /\ tree[target[r]] = "whole") =>
        target[r] \in installed

\* Once no journal is pending and no process works on the store, every whole
\* tree is a committed one: recovery leaks nothing.
NothingLeaks ==
    journal = None /\ holder = None =>
        \A d \in Digests : tree[d] = "whole" => d \in installed

\* The record that a pending journal names is kept until the journal is settled,
\* so that its decision can be read, unless the user deletes the project.
CoordinatorOutlivesJournal ==
    journal # None /\ ~Recreation => CoordinatorKnown

\* While a store journal is pending, the trees of a committed transaction are
\* all there, whatever dropped its publication.
CommittedTreesStay ==
    (journal # None /\ decision[journal.project] = "Committed"
                    /\ owner[journal.project] = journal.owner) =>
        \A d \in journal.created : tree[d] = "whole"

\* Fairness: a process that runs takes its next step; lock_file tries until it
\* gets the lock or its budget ends; a project with a pending record and a replay
\* are run again, and of their attempts to lock some meet a free store.
Fairness ==
    /\ \A p \in Procs : WF_vars(Run(p))
    /\ \A p \in Procs : WF_vars(LockExclusive(p) \/ TimeOut(p))
    /\ \A p \in Projects : WF_vars(Resume(p)) /\ SF_vars(LockExclusive(p))
    /\ \A r \in Readers : /\ WF_vars(Read(r)) /\ WF_vars(LockShared(r) \/ TimeOut(r))
                           /\ SF_vars(LockShared(r)) /\ SF_vars(LockExclusive(r))

FairSpec == Spec /\ Fairness

\* A pending store journal is settled: a crashed install does not block the
\* store for good.
StoreRecovers == journal # None ~> journal = None

\* Every command comes to an end: nobody waits for the store for ever.
CommandsEnd == \A p \in Procs : pc[p] # "idle" ~> pc[p] = "idle"

\* No tree goes that an install uses or has committed.
TreesStay == InstalledTreesStay /\ CommittedTreesStay

\* The journal is settled and every command ends.
StoreSettles == StoreRecovers /\ CommandsEnd
=============================================================================
