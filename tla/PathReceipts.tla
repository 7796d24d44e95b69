----------------------------- MODULE PathReceipts -----------------------------
(***************************************************************************)
(* The shell installer and uninstaller (scripts/install.sh, uninstall.sh):  *)
(* what they add to the user's startup files, the receipts that say which   *)
(* lines are theirs, and the marker and the binary beside them.             *)
(*                                                                          *)
(* A startup file is the user's text, whether one of the user's lines       *)
(* already puts the directory into PATH, and the managed block: "ours",     *)
(* "legacy" (the block of the first installers), or "broken" when somebody  *)
(* edited it.  A receipt record is the file it is about, the file as it was *)
(* before, and its progress; what the file is after follows from it.        *)
(*                                                                          *)
(* The scripts are killed or fail between any two of their changes, and the *)
(* user edits files meanwhile, though not between the last comparison of a  *)
(* file and the rename over it.  One script runs at a time.  The checks of  *)
(* owners, symlinks and sizes pass.                                         *)
(***************************************************************************)
EXTENDS Naturals, Sequences, FiniteSets

CONSTANTS
  Homes, \* [default, profile]: where Tapid goes and the startup files at first
  MaxCommands, MaxFaults, MaxEdits \* bounds

VARIABLES
  default,   \* the directory is ~/.local/bin, where the first installers went
  profile,   \* the startup files
  root,      \* .tapid-path-v1
  previous,  \* .tapid-path-previous-v1: the records a migration replaces
  marker, binary, managed, \* .tapid-managed, tapid, .tapid-release-state.json
  cmd,       \* the script that runs: what it does and how far it is
  outcome,   \* how the last one ended
  edited,    \* history: files the user edited since the receipts were last whole
  commands, faults

disk == <<profile, root, previous, marker, binary, managed>>
vars == <<default, disk, cmd, outcome, edited, commands, faults>>

Files == {"bash_profile", "profile", "bashrc"}
Missing == [exists |-> FALSE, text |-> 0, line |-> FALSE, block |-> "none"]
Text(n) == [exists |-> TRUE, text |-> n, line |-> FALSE, block |-> "none"]
NoReceipt == [kind |-> "none", records |-> <<>>]
Receipt(records) == [kind |-> IF Len(records) = 2 THEN "two" ELSE "one", records |-> records]
Torn == [kind |-> "torn", records |-> <<>>]
Idle == [op |-> "none", mode |-> "none", at |-> "idle", from |-> "none", staged |-> <<>>, i |-> 1]

Init ==
  /\ \E home \in Homes : default = home.default /\ profile = home.profile
  /\ root = NoReceipt /\ previous = <<>>
  /\ marker = FALSE /\ binary = 0 /\ managed = FALSE
  /\ cmd = Idle /\ outcome = <<"none", "none">> /\ edited = {} /\ commands = 0 /\ faults = 0

Running(op, at) == cmd.op = op /\ cmd.at = at
Goto(at) == cmd' = [cmd EXCEPT !.at = at]
End(how) == cmd' = Idle /\ outcome' = <<cmd.op, how>>
Continue(at) == Goto(at) /\ UNCHANGED outcome
Still == UNCHANGED <<default, edited, commands, faults>>

----------------------------------------------------------------------------
\* A snapshot is of bytes: a missing file is like an empty one.
Same(c, d) == c.text = d.text /\ c.line = d.line /\ c.block = d.block
After(r) == [r.before EXCEPT !.exists = TRUE, !.block = IF r.state = "preexisting" THEN "none" ELSE "ours"]

\* configure_profile_path, the record of a file that has no block.
NewRecord(f) ==
  [target |-> f, before |-> profile[f],
   state |-> IF profile[f].line THEN "preexisting" ELSE "pending"]

\* profile_receipt_matches_target.
Holds(r) ==
  CASE r.state = "pending" -> Same(profile[r.target], r.before) \/ Same(profile[r.target], After(r))
    [] r.state = "preexisting" -> profile[r.target].line
    [] r.state = "completed" -> profile[r.target].block = "ours"

Login == IF profile["bash_profile"].exists THEN "bash_profile" ELSE "profile"
Interactive == "bashrc"

----------------------------------------------------------------------------
\* install.sh.  The archive is found through a signed release record or in the
\* legacy layout, verified and unpacked, and a record is admitted by the release
\* policy, which leaves its state (Upgrade); or Tapid is built from source.
\* What fails there has changed nothing: Die.
Install(mode) ==
  /\ cmd.at = "idle" /\ commands < MaxCommands /\ commands' = commands + 1
  /\ cmd' = [Idle EXCEPT !.op = "install", !.mode = mode, !.at = "obtain"]
  /\ outcome' = <<"none", "none">> /\ UNCHANGED <<default, disk, edited, faults>>

Obtain(from) ==
  /\ Running("install", "obtain")
  /\ IF from = "legacy" /\ (managed \/ binary = 2)
     THEN End("refused") /\ UNCHANGED managed
     ELSE /\ cmd' = [cmd EXCEPT !.from = from,
                                !.at = IF cmd.mode = "none" THEN "marker" ELSE "recover"]
          /\ managed' = (managed \/ from = "record") /\ UNCHANGED outcome
  /\ Still /\ UNCHANGED <<profile, root, previous, marker, binary>>

\* Mutant: only the first record is compared with the one that was replaced.
MigrationMatches_First == root.records[1] = previous[1]

MigrationMatches == \E i \in DOMAIN root.records : root.records[i] = previous[1]

\* recover_path_migration, in both scripts.
RecoverMigration(next) ==
  /\ cmd.at = "recover"
  /\ IF previous = <<>> THEN Continue(next) /\ UNCHANGED <<root, previous>>
     ELSE IF root.kind = "none"
     THEN root' = Receipt(previous) /\ previous' = <<>> /\ Continue(next)
     ELSE IF root.kind = "two" /\ MigrationMatches
     THEN previous' = <<>> /\ Continue(next) /\ UNCHANGED root
     ELSE End("refused") /\ UNCHANGED <<root, previous>>
  /\ Still /\ UNCHANGED <<profile, marker, binary, managed>>

\* configure_path after it: which files, and what is there already.
Select ==
  /\ Running("install", "select")
  /\ IF root.kind = "torn" THEN End("refused")
     ELSE Continue(IF cmd.mode # "both" THEN "single"
                   ELSE IF root.kind = "none" THEN "stage"
                   ELSE IF root.kind = "one" THEN "migrate" ELSE "check")
  /\ Still /\ UNCHANGED disk

Target == IF cmd.mode = "interactive" THEN Interactive ELSE Login

\* configure_profile_path for one file, without and with a receipt.
Single ==
  /\ Running("install", "single")
  /\ LET p == profile[Target]
     IN IF root.kind = "none"
        THEN IF p.block = "ours" \/ (p.block = "legacy" /\ default) THEN Continue("marker")
             ELSE IF p.block # "none" THEN End("refused")
             ELSE /\ cmd' = [cmd EXCEPT !.at = "publish", !.staged = <<NewRecord(Target)>>]
                  /\ UNCHANGED outcome
        ELSE IF root.kind = "one" /\ root.records[1].target = Target
        THEN Continue("apply") ELSE End("refused")
  /\ Still /\ UNCHANGED disk

\* A receipt of two files: no block may be there without one.
Stage ==
  /\ Running("install", "stage")
  /\ IF profile[Login].block # "none" \/ profile[Interactive].block # "none" THEN End("refused")
     ELSE /\ cmd' = [cmd EXCEPT !.at = "publish",
                                !.staged = <<NewRecord(Login), NewRecord(Interactive)>>]
          /\ UNCHANGED outcome
  /\ Still /\ UNCHANGED disk

Publish ==
  /\ Running("install", "publish")
  /\ root' = Receipt(cmd.staged)
  /\ Continue(IF Len(cmd.staged) = 2 THEN "check" ELSE "apply")
  /\ Still /\ UNCHANGED <<profile, previous, marker, binary, managed>>

\* The receipt of one file becomes the one of two: staged, checked again, and
\* published in two renames that recover_path_migration completes.
Migrate ==
  /\ Running("install", "migrate")
  /\ LET old == root.records[1]
         new == IF old.target = Login THEN Interactive ELSE Login
     IN IF \/ old.target \notin {Login, Interactive} \/ ~Holds(old)
           \/ profile[new].block # "none"
        THEN End("refused")
        ELSE /\ cmd' = [cmd EXCEPT !.at = "replace",
               !.staged = IF old.target = Login THEN <<old, NewRecord(new)>>
                          ELSE <<NewRecord(new), old>>]
             /\ UNCHANGED outcome
  /\ Still /\ UNCHANGED disk

Replace ==
  /\ Running("install", "replace")
  /\ IF \A i \in 1 .. 2 : Holds(cmd.staged[i])
     THEN previous' = root.records /\ root' = NoReceipt /\ Continue("replaced")
     ELSE End("refused") /\ UNCHANGED <<root, previous>>
  /\ Still /\ UNCHANGED <<profile, marker, binary, managed>>

Replaced ==
  /\ Running("install", "replaced")
  /\ root' = Receipt(cmd.staged) /\ Continue("recover")
  /\ Still /\ UNCHANGED <<profile, previous, marker, binary, managed>>

\* Both records and both files are checked before either is written.
Check ==
  /\ Running("install", "check")
  /\ IF /\ root.records[1].target = Login /\ root.records[2].target = Interactive
        /\ \A i \in 1 .. 2 : Holds(root.records[i])
     THEN Continue("apply") ELSE End("refused")
  /\ Still /\ UNCHANGED disk

\* configure_profile_path with a receipt: a pending one is applied to the file
\* it was taken of and to no other.
Record == root.records[cmd.i]
Advance == cmd' = IF cmd.i < Len(root.records) THEN [cmd EXCEPT !.at = "apply", !.i = @ + 1]
                  ELSE [cmd EXCEPT !.at = "marker"]

\* Mutant: the snapshot is written whatever the file holds now.
Apply_Unchecked ==
  /\ Running("install", "apply")
  /\ IF Record.state = "pending"
     THEN profile' = [profile EXCEPT ![Record.target] = After(Record)] /\ Continue("complete")
     ELSE IF Holds(Record) THEN Advance /\ UNCHANGED <<profile, outcome>>
     ELSE End("refused") /\ UNCHANGED profile
  /\ Still /\ UNCHANGED <<root, previous, marker, binary, managed>>

Apply ==
  /\ Running("install", "apply")
  /\ IF ~Holds(Record) THEN End("refused") /\ UNCHANGED profile
     ELSE IF Record.state = "pending"
     THEN profile' = [profile EXCEPT ![Record.target] = After(Record)] /\ Continue("complete")
     ELSE Advance /\ UNCHANGED <<profile, outcome>>
  /\ Still /\ UNCHANGED <<root, previous, marker, binary, managed>>

\* complete_path_receipt; then the block is looked at again.
Complete ==
  /\ Running("install", "complete")
  /\ root' = [root EXCEPT !.records[cmd.i].state = "completed"]
  /\ IF profile[Record.target].block = "ours" THEN Advance /\ UNCHANGED outcome
     ELSE End("refused")
  /\ Still /\ UNCHANGED <<profile, previous, marker, binary, managed>>

WriteMarker ==
  /\ Running("install", "marker") /\ marker' = TRUE /\ Continue("binary")
  /\ Still /\ UNCHANGED <<profile, root, previous, binary, managed>>

PlaceBinary ==
  /\ Running("install", "binary") /\ End("done")
  /\ binary' = IF cmd.from = "legacy" THEN 1 ELSE 2
  /\ Still /\ UNCHANGED <<profile, root, previous, marker, managed>>

----------------------------------------------------------------------------
\* uninstall.sh.
Uninstall ==
  /\ cmd.at = "idle" /\ commands < MaxCommands /\ commands' = commands + 1
  /\ cmd' = [Idle EXCEPT !.op = "uninstall", !.at = "recover"]
  /\ outcome' = <<"none", "none">> /\ UNCHANGED <<default, disk, edited, faults>>

\* A marker, or with neither marker nor binary a receipt, allows the removal.
Readable == root.kind \in {"one", "two"}
Authorize ==
  /\ Running("uninstall", "authorize")
  /\ IF IF ~marker /\ binary = 0 THEN ~Readable ELSE ~marker \/ root.kind = "torn"
     THEN End("refused")
     ELSE Continue(IF Readable THEN "remove" ELSE IF default THEN "legacy" ELSE "binary")
  /\ Still /\ UNCHANGED disk

\* remove_profile_block: a pending record's file is as before or as after; what
\* is removed is exactly the block.
CanRemove(r, c) ==
  \/ r.state = "preexisting" \/ ~c.exists
  \/ r.state = "pending" /\ (Same(c, r.before) \/ Same(c, After(r)))
  \/ r.state = "completed" /\ c.block \in {"none", "ours"}

Remove ==
  /\ Running("uninstall", "remove")
  /\ IF ~CanRemove(Record, profile[Record.target]) THEN End("refused") /\ UNCHANGED profile
     ELSE /\ profile' = IF Record.state = "preexisting" THEN profile
                        ELSE [profile EXCEPT ![Record.target].block = "none"]
          /\ IF cmd.i < Len(root.records) THEN cmd' = [cmd EXCEPT !.i = @ + 1]
             ELSE cmd' = [cmd EXCEPT !.at = "binary"]
          /\ UNCHANGED outcome
  /\ Still /\ UNCHANGED <<root, previous, marker, binary, managed>>

\* Without a receipt: the files and the block of the first installers, in
\* this order; any other block ends it.
LegacyFiles == <<"bash_profile", "profile", "bashrc">>

RemoveLegacy ==
  /\ Running("uninstall", "legacy")
  /\ LET f == LegacyFiles[cmd.i]
     IN IF profile[f].block \notin {"none", "legacy"} THEN End("refused") /\ UNCHANGED profile
        ELSE /\ profile' = [profile EXCEPT ![f].block = "none"]
             /\ cmd' = IF cmd.i < Len(LegacyFiles) THEN [cmd EXCEPT !.i = @ + 1]
                       ELSE [cmd EXCEPT !.at = "binary"]
             /\ UNCHANGED outcome
  /\ Still /\ UNCHANGED <<root, previous, marker, binary, managed>>

RemoveBinary ==
  /\ Running("uninstall", "binary") /\ binary' = 0
  /\ Continue(IF root.kind = "none" THEN "unmark" ELSE "receipt")
  /\ Still /\ UNCHANGED <<profile, root, previous, marker, managed>>

\* The fields of the receipt go one by one.
RemoveReceipt ==
  /\ Running("uninstall", "receipt")
  /\ IF root.kind = "torn" THEN root' = NoReceipt /\ Continue("unmark")
     ELSE root' = Torn /\ Continue("receipt")
  /\ Still /\ UNCHANGED <<profile, previous, marker, binary, managed>>

RemoveMarker ==
  /\ Running("uninstall", "unmark") /\ marker' = FALSE /\ End("done")
  /\ Still /\ UNCHANGED <<profile, root, previous, binary, managed>>

----------------------------------------------------------------------------
\* A script is killed, or one of its commands fails.
Die ==
  /\ cmd.at # "idle" /\ faults < MaxFaults /\ faults' = faults + 1
  /\ cmd' = Idle /\ UNCHANGED <<default, disk, outcome, edited, commands>>

\* The user edits a file: other text, a line of their own, the block removed
\* or changed.
UserEdits ==
  /\ Cardinality(edited) < MaxEdits
  /\ \E f \in Files \ edited :
       /\ edited' = edited \cup {f}
       /\ profile' \in {[profile EXCEPT ![f].text = 2, ![f].exists = TRUE],
                        [profile EXCEPT ![f].line = TRUE, ![f].exists = TRUE]}
            \cup (IF profile[f].block = "none" THEN {}
                  ELSE {[profile EXCEPT ![f].block = b] : b \in {"none", "broken"}})
  /\ profile' # profile
  /\ UNCHANGED <<default, root, previous, marker, binary, managed, cmd, outcome, commands, faults>>

Next ==
  \/ \E mode \in {"none", "login", "interactive", "both"} : Install(mode)
  \/ \E from \in {"record", "legacy", "source"} : Obtain(from)
  \/ RecoverMigration(IF cmd.op = "install" THEN "select" ELSE "authorize")
  \/ Select \/ Single \/ Stage \/ Publish \/ Migrate \/ Replace \/ Replaced \/ Check
  \/ Apply \/ Complete \/ WriteMarker \/ PlaceBinary
  \/ Uninstall \/ Authorize \/ Remove \/ RemoveLegacy \/ RemoveBinary \/ RemoveReceipt
  \/ RemoveMarker \/ Die \/ UserEdits

Spec == Init /\ [][Next]_vars

----------------------------------------------------------------------------
\* Neither script changes a byte of the user's in a startup file, whatever the
\* user did to it since a receipt was written and wherever an earlier script
\* stopped.
UserBytesStay ==
  [][edited' = edited =>
       \A f \in Files : /\ profile'[f].text = profile[f].text
                        /\ profile'[f].line = profile[f].line
                        /\ profile[f].block = "broken" => profile'[f] = profile[f]]_vars

\* What the installer added can be taken away: a block of its own is named by
\* a receipt, at the place of the receipts or where a migration put it, and
\* an uninstall refuses only what the user edited, a directory that is not
\* Tapid's, or a receipt an earlier uninstall was removing.
Receipts == {root.records[i] : i \in DOMAIN root.records} \cup {previous[i] : i \in DOMAIN previous}
CleanupIsPossible ==
  /\ \A f \in Files : profile[f].block = "ours" => \E r \in Receipts : r.target = f
  /\ outcome = <<"uninstall", "refused">> =>
       edited # {} \/ root.kind = "torn" \/ (~marker /\ ~Readable)
  /\ outcome = <<"uninstall", "done">> =>
       root = NoReceipt /\ previous = <<>> /\ binary = 0 /\ ~marker
=============================================================================
