------------------------------- MODULE Upgrade -------------------------------
(***************************************************************************)
(* Replacing the tapid executable: `tapid upgrade` (application/upgrade.rs)*)
(* and the policy step of the installer (application/installer.rs), over   *)
(* the release state and the cache of verified archives kept beside the    *)
(* executable (crates/tapid-release-client).                               *)
(*                                                                         *)
(* One command runs at a time; it may fail at any file operation and be    *)
(* killed between any two.  An artifact is a pair of a version and a build;*)
(* its digest and its executable stand for the same pair.  Two builds of a *)
(* version differ.  release_floor is always the version of last_known_good *)
(* (ReleaseState::new), and the sequence grows by one with every write.    *)
(***************************************************************************)
EXTENDS Naturals, Sequences

CONSTANTS Artifacts,  \* pairs <<version, build>>
          None, Torn, \* no file; a file cut short
          Outage, Rejected, \* a metadata fetch that got no answer, or a bad one
          Minimum,    \* the version embedded in the installer's bootstrap
          Endpoints,  \* number of legacy discovery endpoints
          MaxFaults   \* bound: failed file operations and kills

VARIABLES
  exe,       \* the installed executable, or None
  state,     \* .tapid-release-state.json: a State, None or Torn
  aside,     \* the state while write_release_state has moved it aside
  cache,     \* .tapid-release-artifact-<digest> files
  at, flow,  \* position; "upgrade", "refresh" (bytes match) or "install"
  pick,      \* the State to reach: the artifact chosen and its verification
  old, prev, \* executable at the start, state when the artifact was accepted
  report,    \* how the last command ended
  faults

disk == <<exe, state, aside, cache>>
vars == <<disk, at, flow, pick, old, prev, report, faults>>

States == [good : Artifacts, how : {"signature", "checksum", "unknown"}]

Init ==
  /\ exe \in Artifacts \cup {None}
  /\ \/ state = None /\ cache = {}
     \/ exe # None /\ state \in {s \in States : s.good = exe} /\ cache = {exe}
  /\ aside = None
  /\ at = "idle" /\ flow = "none" /\ report = "none"
  /\ pick = None /\ old = exe /\ prev = None
  /\ faults = 0

Goto(position) == at' = position
End(outcome) == /\ at' = "idle" /\ report' = outcome
                /\ aside' = None
Fault == faults < MaxFaults /\ faults' = faults + 1

----------------------------------------------------------------------------
\* Discovery.  An answer is an outage, a rejection or an artifact.
Answers == {Outage, Rejected} \cup Artifacts

\* discover: endpoints in order; only an outage moves on to the next one.
FirstAnswer(a) ==
  LET received == {i \in DOMAIN a : a[i] # Outage}
  IN  IF received = {} THEN Outage
      ELSE a[CHOOSE i \in received : \A j \in received : i <= j]

\* download_record_release: the record, then its signature sidecar.
SignedRecord(record, sidecar) ==
  IF record \in {Outage, Rejected} THEN record
  ELSE IF sidecar \in {Outage, Rejected} THEN sidecar
  ELSE IF sidecar = record THEN record ELSE Rejected

\* recover_last_known_good: a readable state whose archive is in the cache.
Recovered ==
  IF state \in States /\ state.good \in cache THEN state ELSE None

\* An outage falls back to the recovered release; a rejection, or an
\* archive that cannot be fetched or does not match, is final.
Selected(answer) ==
  IF answer = Outage THEN Recovered
  ELSE IF answer = Rejected THEN None
  ELSE [good |-> answer, how |-> "signature"]

\* accept_release: no version below the floor, no other build of the floor.
Accepted(floor, a) ==
  \/ floor = None
  \/ a = floor
  \/ a[1] > floor[1]

\* Mutant: only the recorded floor is asked, not the running version.
Acceptable_StateOnly(a) ==
  /\ state # Torn
  /\ state \in States => Accepted(state.good, a)

\* The running binary is a version floor; an unreadable state refuses.
Acceptable(a) ==
  /\ a[1] >= exe[1]
  /\ state # Torn
  /\ state \in States => Accepted(state.good, a)

----------------------------------------------------------------------------
\* upgrade::run up to the choice of what to do.  The destination is the
\* running executable.
Begin(answer, dry) ==
  /\ at = "idle" /\ exe # None
  /\ old' = exe /\ prev' = state
  /\ LET to == Selected(answer) IN
     /\ pick' = to
     /\ IF to = None \/ ~Acceptable(to.good)
        THEN End("refused") /\ UNCHANGED flow
        ELSE IF dry THEN End("dry") /\ UNCHANGED flow
        ELSE /\ flow' = IF to.good = exe THEN "refresh" ELSE "upgrade"
             /\ Goto(IF to.good = exe THEN "cache" ELSE "activate")
             /\ UNCHANGED <<report, aside>>
  /\ UNCHANGED <<exe, state, cache, faults>>

Upgrade ==
  \/ \E a \in [1..Endpoints -> Answers], dry \in BOOLEAN : Begin(FirstAnswer(a), dry)
  \/ \E r, s \in Answers, dry \in BOOLEAN : Begin(SignedRecord(r, s), dry)

\* installer::prepare: three floors (the bootstrap's, the installed version
\* and the recorded one), and no other build of an installed version.
Install(a) ==
  /\ at = "idle"
  /\ old' = exe /\ prev' = state
  /\ pick' = [good |-> a, how |-> "signature"]
  /\ IF \/ state = Torn
        \/ exe # None /\ ~Accepted(exe, a)
        \/ state \in States /\ ~Accepted(state.good, a)
        \/ a[1] < Minimum
     THEN End("refused") /\ UNCHANGED flow
     ELSE Goto("cache") /\ flow' = "install" /\ UNCHANGED <<report, aside>>
  /\ UNCHANGED <<exe, state, cache, faults>>

\* replace_executable: a synced temporary file renamed over the destination.
Activate ==
  /\ at = "activate"
  /\ exe' = pick.good
  /\ Goto("cache")
  /\ UNCHANGED <<state, aside, cache, flow, pick, old, prev, report, faults>>

\* write_cached_artifact; a refresh that changes no state ends here.
WriteCache ==
  /\ at = "cache"
  /\ cache' = cache \cup {pick.good}
  /\ IF flow = "refresh" /\ state = pick THEN End("done")
     ELSE Goto("stage") /\ UNCHANGED <<aside, report>>
  /\ UNCHANGED <<exe, state, flow, pick, old, prev, faults>>

\* safe_atomic_write: a synced temporary file, the existing file moved
\* aside, the temporary one renamed, the old one removed, the directory
\* synced.
StageState ==
  /\ at = "stage"
  /\ Goto(IF state = None THEN "publish" ELSE "move")
  /\ UNCHANGED <<disk, flow, pick, old, prev, report, faults>>

MoveAside ==
  /\ at = "move"
  /\ aside' = state /\ state' = None
  /\ Goto("publish")
  /\ UNCHANGED <<exe, cache, flow, pick, old, prev, report, faults>>

PublishState ==
  /\ at = "publish"
  /\ state' = pick
  /\ Goto(IF aside = None THEN "sync" ELSE "discard")
  /\ UNCHANGED <<exe, aside, cache, flow, pick, old, prev, report, faults>>

Discard ==
  /\ at = "discard"
  /\ aside' = None
  /\ Goto("sync")
  /\ UNCHANGED <<exe, state, cache, flow, pick, old, prev, report, faults>>

Sync ==
  /\ at = "sync"
  /\ Goto(IF flow = "install" THEN "replace" ELSE "prune")
  /\ UNCHANGED <<disk, flow, pick, old, prev, report, faults>>

\* Mutant: the archive of the release that was running is kept instead.
Prune_KeepOld(gone) ==
  /\ at = "prune" /\ gone \subseteq cache \ {old}
  /\ cache' = cache \ gone
  /\ End("done")
  /\ UNCHANGED <<exe, state, flow, pick, old, prev, faults>>

\* prune_cached_artifacts: all other archives, up to the first failure.
Prune(gone) ==
  /\ at = "prune" /\ gone \subseteq cache \ {pick.good}
  /\ cache' = cache \ gone
  /\ End("done")
  /\ UNCHANGED <<exe, state, flow, pick, old, prev, faults>>

\* The install script replaces the executable once prepare has succeeded.
ScriptReplaces ==
  /\ at = "replace"
  /\ exe' = pick.good
  /\ End("done")
  /\ UNCHANGED <<state, cache, flow, pick, old, prev, faults>>

----------------------------------------------------------------------------
\* Mutant: the error is returned before the activation is undone.
AfterFailure_NoUndo == at' = "idle" /\ report' = "refused"

\* Failures.  A failed persist undoes an activation and nothing else.
AfterFailure ==
  IF flow = "upgrade" THEN Goto("undo") /\ UNCHANGED report
  ELSE at' = "idle" /\ report' = "refused"

Error ==
  /\ Fault
  /\ \/ at = "activate" /\ End("refused") /\ UNCHANGED <<exe, state, cache>>
     \/ at \in {"cache", "stage", "move", "sync"} /\ AfterFailure /\ UNCHANGED disk
     \/ /\ at = "publish" /\ AfterFailure
        /\ \E back \in {aside, None} : state' = back
        /\ aside' = None /\ UNCHANGED <<exe, cache>>
     \* The old state cannot be removed: the cleanup puts it back.
     \/ /\ at = "discard" /\ AfterFailure
        /\ \E back \in {aside, None} : state' = back
        /\ aside' = None /\ UNCHANGED <<exe, cache>>
     \/ at = "replace" /\ End("refused") /\ UNCHANGED <<exe, state, cache>>
  /\ UNCHANGED <<flow, pick, old, prev>>

\* activate_and_persist, persist failed: the old executable, then the old
\* state, each attempted whatever became of the other.
UndoExecutable ==
  /\ at = "undo"
  /\ Goto("undostate")
  /\ \/ exe' = old /\ UNCHANGED faults
     \/ Fault /\ UNCHANGED exe
  /\ UNCHANGED <<state, aside, cache, flow, pick, old, prev, report>>

\* fs::write truncates before it writes; without an old state, remove_file.
UndoState ==
  /\ at = "undostate"
  /\ \/ prev = None /\ state' = None
        /\ End(IF exe = old THEN "rolled back" ELSE "stuck") /\ UNCHANGED faults
     \/ prev = None /\ Fault /\ End("stuck") /\ UNCHANGED state
     \/ prev \in States /\ state' = Torn /\ Goto("rewrite")
        /\ UNCHANGED <<aside, report, faults>>
     \/ prev \in States /\ Fault /\ End("stuck") /\ UNCHANGED state
  /\ UNCHANGED <<exe, cache, flow, pick, old, prev>>

RewriteState ==
  /\ at = "rewrite"
  /\ \/ state' = prev /\ UNCHANGED faults
        /\ End(IF exe = old THEN "rolled back" ELSE "stuck")
     \/ Fault /\ End("stuck") /\ UNCHANGED state
  /\ UNCHANGED <<exe, cache, flow, pick, old, prev>>

\* The process is killed: a state it moved aside stays under a name with
\* its pid, which nothing reads again.
Kill ==
  /\ at # "idle" /\ Fault
  /\ End("killed")
  /\ UNCHANGED <<exe, state, cache, flow, pick, old, prev>>

Next ==
  \/ Upgrade \/ \E a \in Artifacts : Install(a)
  \/ Activate \/ WriteCache \/ StageState \/ MoveAside \/ PublishState \/ Discard
  \/ Sync \/ (\E gone \in SUBSET cache : Prune(gone)) \/ ScriptReplaces
  \/ Error \/ UndoExecutable \/ UndoState \/ RewriteState \/ Kill

Spec == Init /\ [][Next]_vars

----------------------------------------------------------------------------
\* A readable release state always has its verified archive beside it, so
\* that an outage can be recovered from: whichever operation failed and
\* wherever the process was killed (persist_activated_release,
\* prune_cached_artifacts, write_release_state, installer::prepare).
RecoveryIsCached == state \in States => state.good \in cache

\* No command leaves an older executable than it found: not by recovering a cached release after an upgrade
\* was killed before it recorded its state, nor after the state was lost.
NeverOlder == at = "idle" /\ old # None => exe[1] >= old[1]

\* What upgrade::run reports: a rolled back activation left the executable
\* and the state as they were, a refusal replaced nothing, and a success
\* installed the artifact and recorded it as last known good.
UpgradeReportIsTrue ==
  at = "idle" =>
    /\ report = "rolled back" => exe = old /\ state = prev
    /\ report \in {"refused", "dry"} => exe = old
    /\ report = "done" => exe = pick.good /\ state = pick

\* installer.rs, prepare: "An interruption retains the floor and can
\* retry/recover this exact release."  A killed installer leaves a readable
\* state with no lower floor than the one it found.
FloorIsRetained ==
  at = "idle" /\ report = "killed" /\ flow = "install" /\ prev \in States =>
    state \in States /\ state.good[1] >= prev.good[1]
=============================================================================
