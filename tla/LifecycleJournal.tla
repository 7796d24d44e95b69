------------------------- MODULE LifecycleJournal -------------------------
(***************************************************************************)
(* filesystem/lifecycle_journal.rs: the durable record that coordinates    *)
(* one install.  A Prepared record says how to restore the project, a      *)
(* Committed one that the new state stands.                                *)
(*                                                                         *)
(* Where rename replaces an existing file the record is swapped in one     *)
(* step.  Where it does not (Windows: Fallback is TRUE) the old record is  *)
(* first moved to .tapid-lifecycle-journal.lifecycle.bak.                  *)
(***************************************************************************)
EXTENDS ProjectRoots

CONSTANT Fallback

ASSUME FallbackAssumption == Fallback \in BOOLEAN

VARIABLES
    journal,    \* .tapid-lifecycle-journal.json
    journalBak, \* .tapid-lifecycle-journal.lifecycle.bak
    orphanTmp   \* some .tapid-lifecycle-journal.json.<nonce>.tmp was left behind

journalVars == <<journal, journalBak, orphanTmp>>

Record == [owner : Owners, state : {"Prepared", "Committed"},
           manifest : Versions, lock : Versions \cup {None},
           roots : SUBSET Roots, hadTree : SUBSET Roots,
           hadMarker : SUBSET Roots, store : BOOLEAN]

ASSUME RecordAssumption == None \notin Record

JournalTypeOK ==
    /\ journal \in Record \cup {None}
    /\ journalBak \in Record \cup {None}
    /\ orphanTmp \in BOOLEAN

JournalInit == journal = None /\ journalBak = None /\ orphanTmp = FALSE

WithTree(S) == {r \in S : tree[r] # None}
WithMarker(S) == {r \in S : marker[r] # None}

\* begin
NewRecord(o, m, l) ==
    [owner |-> o, state |-> "Prepared", manifest |-> m, lock |-> l,
     roots |-> {Root}, hadTree |-> WithTree({Root}),
     hadMarker |-> WithMarker({Root}), store |-> FALSE]

\* Faulty variant: the members' trees and markers are not recorded.
WithMembers_NoBaseline(j) == [j EXCEPT !.roots = Roots]

\* set_member_roots, set_store_root and mark_committed rewrite the record.
WithMembers(j) ==
    [j EXCEPT !.roots = Roots, !.hadTree = @ \cup WithTree(Members),
              !.hadMarker = @ \cup WithMarker(Members)]
WithStore(j) == [j EXCEPT !.store = TRUE]
WithCommit(j) == [j EXCEPT !.state = "Committed"]

\* replace_journal_file: the step that vacates the path (fallback only), the
\* step that publishes the new record, and the removal of the backup.
SwapOut ==
    /\ journalBak' = journal
    /\ journal' = None
    /\ UNCHANGED orphanTmp

SwapIn(j) ==
    /\ journal' = j
    /\ UNCHANGED <<journalBak, orphanTmp>>

DropJournalBackup ==
    /\ journalBak' = None
    /\ UNCHANGED <<journal, orphanTmp>>

\* Faulty variant: the backup is cleared instead.
RestoreJournalBackup_Lost ==
    /\ journalBak' = None
    /\ UNCHANGED <<journal, orphanTmp>>

\* recover: an absent journal is replaced by its backup.
RestoreJournalBackup ==
    /\ journal' = journalBak
    /\ journalBak' = None
    /\ UNCHANGED orphanTmp

\* Faulty variant: the record stays.
RemoveJournal_Kept == UNCHANGED journalVars

\* remove_journal, its second half: the record itself, after its backup.
RemoveJournal ==
    /\ journal' = None
    /\ UNCHANGED <<journalBak, orphanTmp>>

\* What recovery would read: the record, or else its backup.
Pending == IF journal # None THEN journal ELSE journalBak
=============================================================================
