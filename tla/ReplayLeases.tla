---------------------------- MODULE ReplayLeases ----------------------------
(***************************************************************************)
(* Private replay copies of store trees (crates/tapid-store/src/lib.rs).   *)
(* A process keeps each copy in a reservation directory under .staging.    *)
(* All its reservations are hard links to one lease file, which it keeps   *)
(* locked; any process may clean up, at any time and without the store     *)
(* lock, the reservations of processes that died.                          *)
(*                                                                         *)
(* In a process one thread makes and drops copies while another one may    *)
(* clean; a mutex protects the registry of its group of leases.            *)
(***************************************************************************)
EXTENDS Naturals, FiniteSets

CONSTANTS Processes,  \* process incarnations: a pid
          Reservations, \* bound: the copies made, pairs of a process and a nonce
          None,
          MaxFaults   \* bound: failed copies and links


VARIABLES
  alive,     \* processes that run
  dirs,      \* reservation directories that exist
  linked,    \* reservations with a link to their process's lease
  trees,     \* reservations with a copy in them
  shared,    \* processes whose replay-lease-<pid> file exists
  locked,    \* processes that hold the lock of their lease
  grouped,   \* processes with a group in their registry
  registered,\* reservations in their process's group
  ready,     \* those marked ready
  at, cur,   \* the copying thread: position and reservation
  held,      \* copies handed out, each a VerifiedTreeSnapshot
  made,      \* reservations ever made: a name is used once
  seek, prey,\* the cleaning thread: position and reservation it looks at
  faults

disk == <<dirs, linked, trees, shared>>
registry == <<grouped, registered, ready>>
copier == <<at, cur, held, made>>
cleaner == <<seek, prey>>
vars == <<alive, disk, locked, registry, copier, cleaner, faults>>

Init ==
  /\ alive = Processes
  /\ dirs = {} /\ linked = {} /\ trees = {} /\ shared = {}
  /\ locked = {} /\ grouped = {} /\ registered = {} /\ ready = {}
  /\ at = [p \in Processes |-> "idle"] /\ cur = [p \in Processes |-> None]
  /\ held = {} /\ made = {}
  /\ seek = [p \in Processes |-> "idle"] /\ prey = [p \in Processes |-> None]
  /\ faults = 0

Goto(p, position) == at' = [at EXCEPT ![p] = position]

----------------------------------------------------------------------------
\* verified_tree_snapshot.

\* create_private_staging_dir: a name with the pid and a fresh nonce.
Reserve(p, r) ==
  /\ p \in alive /\ at[p] = "idle" /\ r[1] = p /\ r \notin made
  /\ made' = made \cup {r}
  /\ dirs' = dirs \cup {r}
  /\ cur' = [cur EXCEPT ![p] = r]
  /\ Goto(p, "enter")
  /\ UNCHANGED <<alive, linked, trees, shared, locked, registry, held, cleaner, faults>>

\* Mutant: the lease gets its name before it is locked.
LockLease_AfterName(p) ==
  /\ p \in alive /\ at[p] = "enter" /\ p \notin grouped
  /\ shared' = shared \cup {p}
  /\ Goto(p, "name")
  /\ UNCHANGED <<alive, dirs, linked, trees, locked, registry, cur, held, made,
                 cleaner, faults>>

\* create_replay_reservation takes the registry's mutex until LinkLease.  The
\* first copy makes the group: its lease is written and locked under a
\* provisional name before it gets its own.
LockLease(p) ==
  /\ p \in alive /\ at[p] = "enter" /\ p \notin grouped
  /\ locked' = locked \cup {p}
  /\ Goto(p, "name")
  /\ UNCHANGED <<alive, disk, registry, cur, held, made, cleaner, faults>>

NameLease(p) ==
  /\ p \in alive /\ at[p] = "name"
  /\ shared' = shared \cup {p}
  /\ grouped' = grouped \cup {p}
  /\ Goto(p, "link")
  /\ UNCHANGED <<alive, dirs, linked, trees, locked, registered, ready, cur, held,
                 made, cleaner, faults>>

LinkLease(p) ==
  /\ p \in alive /\ at[p] \in {"enter", "link"} /\ p \in grouped /\ p \in shared
  /\ linked' = linked \cup {cur[p]}
  /\ registered' = registered \cup {cur[p]}
  /\ Goto(p, "copy")
  /\ UNCHANGED <<alive, dirs, trees, shared, locked, grouped, ready, cur, held, made,
                 cleaner, faults>>

\* Clone or copy, compare the digest, mark ready, hand out.
Copy(p) ==
  /\ p \in alive /\ at[p] = "copy"
  /\ trees' = trees \cup {cur[p]}
  /\ Goto(p, "ready")
  /\ UNCHANGED <<alive, dirs, linked, shared, locked, registry, cur, held, made,
                 cleaner, faults>>

MarkReady(p) ==
  /\ p \in alive /\ at[p] = "ready" /\ cur[p] \in registered
  /\ ready' = ready \cup {cur[p]}
  /\ held' = held \cup {cur[p]}
  /\ Goto(p, "idle")
  /\ UNCHANGED <<alive, disk, locked, grouped, registered, cur, made, cleaner, faults>>

\* release_replay_lease: the last registration takes the group, its lease
\* file and the lock with it.
Released(p, r) ==
  LET left == {x \in registered \ {r} : x[1] = p}
  IN /\ registered' = registered \ {r}
     /\ ready' = ready \ {r}
     /\ IF left = {}
        THEN grouped' = grouped \ {p} /\ shared' = shared \ {p} /\ locked' = locked \ {p}
        ELSE UNCHANGED <<grouped, shared, locked>>

Removed(r) == /\ dirs' = dirs \ {r}
              /\ linked' = linked \ {r}
              /\ trees' = trees \ {r}

\* A link, a copy or a digest fails: the lease is released, then the
\* reservation removed.
Fail(p) ==
  /\ p \in alive /\ at[p] \in {"link", "copy", "ready"}
  /\ faults < MaxFaults /\ faults' = faults + 1
  /\ Released(p, cur[p])
  /\ Goto(p, "discard")
  /\ UNCHANGED <<alive, dirs, linked, trees, cur, held, made, cleaner>>

Discard(p) ==
  /\ p \in alive /\ at[p] = "discard"
  /\ Removed(cur[p])
  /\ Goto(p, "idle")
  /\ UNCHANGED <<alive, shared, locked, registry, cur, held, made, cleaner, faults>>

\* Drop: the reservation goes first, entry by entry, while the lease is still
\* held.
DropTree(p, r) ==
  /\ p \in alive /\ at[p] = "idle" /\ r \in held /\ r[1] = p
  /\ cur' = [cur EXCEPT ![p] = r]
  /\ held' = held \ {r}
  /\ trees' = trees \ {r}
  /\ Goto(p, "drop")
  /\ UNCHANGED <<alive, dirs, linked, shared, locked, registry, made, cleaner, faults>>

DropReservation(p) ==
  /\ p \in alive /\ at[p] = "drop"
  /\ Removed(cur[p])
  /\ Goto(p, "release")
  /\ UNCHANGED <<alive, shared, locked, registry, cur, held, made, cleaner, faults>>

Release(p) ==
  /\ p \in alive /\ at[p] = "release"
  /\ Released(p, cur[p])
  /\ Goto(p, "idle")
  /\ UNCHANGED <<alive, dirs, linked, trees, cur, held, made, cleaner, faults>>

----------------------------------------------------------------------------
\* cleanup_stale_replay_snapshots, one directory entry at a time.

MutexFree(p) == at[p] \notin {"name", "link"}

\* A shared lease that is not in the own registry and can be locked is stale.
\* The lock is tested and given back at once, then the file is unlinked.
CleanLease(p, q) ==
  /\ p \in alive /\ seek[p] = "idle" /\ MutexFree(p)
  /\ q \in shared
  /\ ~ (p = q /\ p \in grouped)
  /\ q \notin locked
  /\ shared' = shared \ {q}
  /\ UNCHANGED <<alive, dirs, linked, trees, locked, registry, copier, cleaner, faults>>

\* A reservation: first its state in the own registry.
Inspect(p, r) ==
  /\ p \in alive /\ seek[p] = "idle" /\ MutexFree(p)
  /\ r \in dirs
  /\ prey' = [prey EXCEPT ![p] = r]
  /\ seek' = [seek EXCEPT ![p] = IF r[1] = p /\ r \in ready THEN "ready"
                                 ELSE IF r[1] = p /\ r \in registered THEN "registered"
                                 ELSE "unknown"]
  /\ UNCHANGED <<alive, disk, locked, registry, copier, faults>>

Looked(p) == /\ seek' = [seek EXCEPT ![p] = "idle"]
             /\ prey' = [prey EXCEPT ![p] = None]

\* Ready, and its tree gone: released and removed.
CleanOwn(p) ==
  /\ p \in alive /\ seek[p] = "ready" /\ MutexFree(p)
  /\ prey[p] \notin trees
  /\ Released(p, prey[p])
  /\ Removed(prey[p])
  /\ Looked(p)
  /\ UNCHANGED <<alive, copier, faults>>

\* Mutant: a reservation without a lease is never stale.
CleanReservation_LeaseOnly(p) ==
  /\ p \in alive /\ seek[p] \in {"ready", "registered", "unknown"}
  /\ seek[p] = "ready" => prey[p] \in trees
  /\ IF prey[p] \in linked /\ seek[p] = "unknown" /\ prey[p][1] \notin locked
     THEN seek' = [seek EXCEPT ![p] = "remove"] /\ UNCHANGED prey
     ELSE Looked(p)
  /\ UNCHANGED <<alive, disk, locked, registry, copier, faults>>

\* Else stale only if it is not registered here and its lease can be locked,
\* or if it has no lease and its process is gone.
CleanReservation(p) ==
  /\ p \in alive /\ seek[p] \in {"ready", "registered", "unknown"}
  /\ seek[p] = "ready" => prey[p] \in trees
  /\ LET r == prey[p]
         stale == IF r \in linked THEN seek[p] = "unknown" /\ r[1] \notin locked
                  ELSE r[1] \notin alive
     IN IF stale THEN seek' = [seek EXCEPT ![p] = "remove"] /\ UNCHANGED prey
                 ELSE Looked(p)
  /\ UNCHANGED <<alive, disk, locked, registry, copier, faults>>

RemoveStale(p) ==
  /\ p \in alive /\ seek[p] = "remove"
  /\ Removed(prey[p])
  /\ Looked(p)
  /\ UNCHANGED <<alive, shared, locked, registry, copier, faults>>

----------------------------------------------------------------------------
\* The process dies: its locks are released, its files stay.
Die(p) ==
  /\ p \in alive
  /\ alive # {p}   \* bound: somebody is left to clean
  /\ alive' = alive \ {p}
  /\ locked' = locked \ {p}
  /\ grouped' = grouped \ {p}
  /\ registered' = {r \in registered : r[1] # p}
  /\ ready' = {r \in ready : r[1] # p}
  /\ held' = {r \in held : r[1] # p}
  /\ at' = [at EXCEPT ![p] = "idle"] /\ cur' = [cur EXCEPT ![p] = None]
  /\ seek' = [seek EXCEPT ![p] = "idle"] /\ prey' = [prey EXCEPT ![p] = None]
  /\ UNCHANGED <<disk, made, faults>>

Begun(p) == \/ LockLease(p) \/ NameLease(p) \/ LinkLease(p) \/ Copy(p) \/ MarkReady(p)
            \/ Fail(p) \/ Discard(p) \/ DropReservation(p) \/ Release(p)
Copying(p) == Begun(p) \/ \E r \in Reservations : Reserve(p, r) \/ DropTree(p, r)
Cleaning(p) == \/ CleanOwn(p) \/ CleanReservation(p) \/ RemoveStale(p)
               \/ \E q \in Processes : CleanLease(p, q)
               \/ \E r \in Reservations : Inspect(p, r)

Next == \E p \in Processes : Copying(p) \/ Cleaning(p) \/ Die(p)

Spec == Init /\ [][Next]_vars
\* Every command cleans first, so cleaning goes on while commands run; a thread
\* goes on with what it has begun.
FairSpec ==
  /\ Spec
  /\ \A p \in Processes :
       /\ \A q \in Processes \ {p} : SF_vars(CleanLease(p, q))
       /\ \A r \in Reservations : r[1] # p => SF_vars(Inspect(p, r))
       /\ WF_vars(Begun(p))
       /\ WF_vars(CleanOwn(p) \/ CleanReservation(p) \/ RemoveStale(p))

----------------------------------------------------------------------------
\* A copy that was handed out stays, with its lease, until its owner drops it
\* or dies, whatever other processes and threads clean up meanwhile; and a
\* group that is registered keeps the lease file its next copy links to.
HeldCopiesStay ==
  /\ held \subseteq dirs \cap trees \cap linked
  /\ grouped \subseteq shared \cap locked

\* What a dead process left is removed in the end: every reservation, linked
\* or not, and the shared lease.
DeadLeaveNothing == \A p \in Processes :
  p \notin alive ~> p \notin shared /\ \A r \in dirs : r[1] # p
=============================================================================
