------------------------------- MODULE UserPath -------------------------------
(***************************************************************************)
(* The PowerShell installer and uninstaller (scripts/install.ps1,           *)
(* uninstall.ps1): the user's PATH in the registry, its receipt, the marker *)
(* and the binary.  The value is the user's text, its registry kind, and    *)
(* whether Tapid's directory is an entry: "appended" as the installer does, *)
(* or "own" when the user has it under some spelling.  The marker and the   *)
(* binary come first here, the PATH last.                                   *)
(*                                                                          *)
(* Scripts stop between any two of their changes; other programs write the  *)
(* value, though not between its last comparison and the write.             *)
(***************************************************************************)
EXTENDS Naturals

CONSTANTS MaxCommands, MaxFaults, MaxEdits \* bounds

VARIABLES
  path,     \* the Path value of HKCU\Environment
  receipt,  \* .tapid-path-v1: "none", "torn" or [before, inserted, state]
  marker, binary,
  cmd,      \* [op, at, configure] of the script that runs
  outcome,  \* how the last one ended
  edits, commands, faults

vars == <<path, receipt, marker, binary, cmd, outcome, edits, commands, faults>>

Value(text, kind, entry) == [present |-> TRUE, text |-> text, kind |-> kind, entry |-> entry]
Unset == [present |-> FALSE, text |-> 0, kind |-> "String", entry |-> "none"]
NoReceipt == [kind |-> "none", before |-> Unset, inserted |-> FALSE, state |-> "none"]
Torn == [NoReceipt EXCEPT !.kind = "torn"]
Idle == [op |-> "none", at |-> "idle", configure |-> FALSE]

Init ==
  /\ path \in {Unset, Value(1, "ExpandString", "none"), Value(1, "String", "own")}
  /\ receipt = NoReceipt /\ marker = FALSE /\ binary = FALSE
  /\ cmd = Idle /\ outcome = <<"none", "none">> /\ edits = 0 /\ commands = 0 /\ faults = 0

Running(op, at) == cmd.op = op /\ cmd.at = at
Continue(at) == cmd' = [cmd EXCEPT !.at = at] /\ UNCHANGED outcome
End(how) == cmd' = Idle /\ outcome' = <<cmd.op, how>>
Still == UNCHANGED <<edits, commands, faults>>

----------------------------------------------------------------------------
\* The archive is found, verified and unpacked first: what fails there, Die.
Install(configure) ==
  /\ cmd.at = "idle" /\ commands < MaxCommands /\ commands' = commands + 1
  /\ cmd' = [op |-> "install", at |-> "marker", configure |-> configure]
  /\ outcome' = <<"none", "none">> /\ UNCHANGED <<path, receipt, marker, binary, edits, faults>>

WriteMarker ==
  /\ Running("install", "marker") /\ marker' = TRUE /\ Continue("binary")
  /\ Still /\ UNCHANGED <<path, receipt, binary>>

PlaceBinary ==
  /\ Running("install", "binary") /\ binary' = TRUE
  /\ IF cmd.configure THEN Continue("stage") ELSE End("done")
  /\ Still /\ UNCHANGED <<path, receipt, marker>>

\* Configure-UserPath: the receipt is there, or it is staged and moved.
Stage ==
  /\ Running("install", "stage")
  /\ IF receipt.kind = "torn" THEN End("refused") /\ UNCHANGED receipt
     ELSE /\ receipt' = IF receipt.kind = "whole" THEN receipt
                        ELSE [kind |-> "whole", before |-> path, state |-> "pending",
                              inserted |-> path.entry = "none"]
          /\ Continue("write")
  /\ Still /\ UNCHANGED <<path, marker, binary>>

Before(r) == r.before
After(r) == IF r.inserted THEN [r.before EXCEPT !.present = TRUE, !.entry = "appended"] ELSE r.before

\* Mutant: a completed receipt is applied again.
Write_Again ==
  /\ Running("install", "write")
  /\ path' = After(receipt) /\ Continue("complete")
  /\ Still /\ UNCHANGED <<receipt, marker, binary>>

Write ==
  /\ Running("install", "write")
  /\ IF path = After(receipt) THEN Continue("complete") /\ UNCHANGED path
     ELSE IF receipt.state = "pending" /\ path = Before(receipt)
     THEN path' = After(receipt) /\ Continue("complete")
     ELSE End("refused") /\ UNCHANGED path
  /\ Still /\ UNCHANGED <<receipt, marker, binary>>

\* The value is read back; then Set-PathReceiptComplete.
Complete ==
  /\ Running("install", "complete")
  /\ IF path = After(receipt) THEN receipt' = [receipt EXCEPT !.state = "complete"] /\ End("done")
     ELSE End("refused") /\ UNCHANGED receipt
  /\ Still /\ UNCHANGED <<path, marker, binary>>

----------------------------------------------------------------------------
Uninstall ==
  /\ cmd.at = "idle" /\ commands < MaxCommands /\ commands' = commands + 1
  /\ cmd' = [op |-> "uninstall", at |-> "authorize", configure |-> FALSE]
  /\ outcome' = <<"none", "none">> /\ UNCHANGED <<path, receipt, marker, binary, edits, faults>>

Authorize ==
  /\ Running("uninstall", "authorize")
  /\ IF ~marker \/ receipt.kind = "torn" THEN End("refused")
     ELSE Continue(IF receipt.kind = "none" THEN "binary"
                   ELSE IF receipt.inserted THEN "restore" ELSE "receipt")
  /\ Still /\ UNCHANGED <<path, receipt, marker, binary>>

Restore ==
  /\ Running("uninstall", "restore")
  /\ IF path \in {Before(receipt), After(receipt)}
     THEN path' = Before(receipt) /\ Continue("restored")
     ELSE End("refused") /\ UNCHANGED path
  /\ Still /\ UNCHANGED <<receipt, marker, binary>>

Restored ==
  /\ Running("uninstall", "restored")
  /\ IF path = Before(receipt) THEN Continue("receipt") ELSE End("refused")
  /\ Still /\ UNCHANGED <<path, receipt, marker, binary>>

\* Remove-Item -Recurse: the fields one by one, then the directory.
RemoveReceipt ==
  /\ Running("uninstall", "receipt")
  /\ IF receipt.kind = "torn" THEN receipt' = NoReceipt /\ Continue("binary")
     ELSE receipt' = Torn /\ Continue("receipt")
  /\ Still /\ UNCHANGED <<path, marker, binary>>

RemoveBinary ==
  /\ Running("uninstall", "binary") /\ binary' = FALSE /\ Continue("unmark")
  /\ Still /\ UNCHANGED <<path, receipt, marker>>

RemoveMarker ==
  /\ Running("uninstall", "unmark") /\ marker' = FALSE /\ End("done")
  /\ Still /\ UNCHANGED <<path, receipt, binary>>

----------------------------------------------------------------------------
Die ==
  /\ cmd.at # "idle" /\ faults < MaxFaults /\ faults' = faults + 1
  /\ cmd' = Idle /\ UNCHANGED <<path, receipt, marker, binary, outcome, edits, commands>>

\* Another program: other text, the other kind, the entry removed.
OtherWrites ==
  /\ edits < MaxEdits /\ edits' = edits + 1
  /\ path' \in {[path EXCEPT !.present = TRUE, !.text = 2], [path EXCEPT !.present = TRUE, !.kind = "ExpandString"],
                [path EXCEPT !.entry = "none"]}
  /\ UNCHANGED <<receipt, marker, binary, cmd, outcome, commands, faults>>

Next ==
  \/ \E configure \in BOOLEAN : Install(configure)
  \/ WriteMarker \/ PlaceBinary \/ Stage \/ Write \/ Complete
  \/ Uninstall \/ Authorize \/ Restore \/ Restored \/ RemoveReceipt \/ RemoveBinary \/ RemoveMarker
  \/ Die \/ OtherWrites

Spec == Init /\ [][Next]_vars

----------------------------------------------------------------------------
\* Neither script changes what others wrote to the value: the text, the kind,
\* an entry that is not the one it appended, nor does it add a second time an
\* entry that was removed after the installation had completed.
OthersPathStays ==
  [][edits' = edits =>
       /\ path'.text = path.text /\ path'.kind = path.kind
       /\ path.entry = "own" => path'.entry = "own"
       /\ (path.entry = "none" /\ receipt.state = "complete") => path' = path]_vars

\* The entry the installer appended is named by a receipt until it is gone, and
\* an uninstall refuses only after somebody else's edit, in a directory that is
\* not Tapid's, or on a receipt another uninstall was removing.
EntryIsOwned ==
  /\ path.entry = "appended" => receipt.kind = "whole" /\ receipt.inserted /\ marker
  /\ outcome = <<"uninstall", "refused">> => edits > 0 \/ receipt.kind = "torn" \/ ~marker
=============================================================================
