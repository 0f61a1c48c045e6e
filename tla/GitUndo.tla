------------------------------ MODULE GitUndo -------------------------------
(***************************************************************************)
(* core/git_undo.py: snapshots of files about to be written, and the stack *)
(* of applied patches undo_last walks.  A snapshot is a git blob or the    *)
(* bytes themselves; restoring one gives back GitClean of the bytes that   *)
(* were there.  The stack is never truncated.                              *)
(***************************************************************************)
EXTENDS PatchCache

CONSTANTS
    AnyFile,    \* undo_last without a path
    MaxUndo     \* bound on the length of the stack (the code has none)

ASSUME UndoAssumption == AnyFile \notin Files /\ MaxUndo \in Nat

VARIABLE undo

UndoPatchRecord == [patch : PatchIds, file : Files,
                    snap : Content, reverted : BOOLEAN]

snapshot(f) == GitClean[disk[f]]

Applied(p, f, snap) ==
    [patch |-> p, file |-> f, snap |-> snap, reverted |-> FALSE]

Room(n) == Len(undo) + n <= MaxUndo

(***************************************************************************)
(* undo_last: the youngest record that is not reverted and is about the    *)
(* requested file, if one is requested.                                    *)
(***************************************************************************)
Eligible(filter) ==
    {i \in 1..Len(undo) : /\ ~ undo[i].reverted
                          /\ filter \in {AnyFile, undo[i].file}}

\* Seeded fault: the record is dropped where it should be marked reverted.
RevertPops(i) ==
    /\ disk' = Replace(undo[i].file, undo[i].snap)
    /\ undo' = [j \in 1..(Len(undo) - 1) |-> undo[IF j < i THEN j ELSE j + 1]]
    /\ reply' = Answer("undo_last", "reverted", {undo[i].patch})

\* The answer quotes the digest of the restored file, and reading it back can
\* raise: the undo is done and the client is told of an error.
Revert(i) ==
    /\ disk' = Replace(undo[i].file, undo[i].snap)
    /\ undo' = [undo EXCEPT ![i].reverted = TRUE]
    /\ \/ reply' = Answer("undo_last", "reverted", {undo[i].patch})
       \/ Faults /\ Fail("undo_last", "E_INTERNAL_ERROR")

\* Seeded fault: the stack is searched from the oldest record.
UndoRevertsOldest(filter) ==
    \E i \in Eligible(filter) :
        /\ \A j \in Eligible(filter) : i <= j
        /\ Revert(i)

UndoReverts(filter) ==
    \E i \in Eligible(filter) :
        /\ \A j \in Eligible(filter) : j <= i
        /\ Revert(i)

\* Nothing eligible; or rollback raises (git cat-file, the write) before the
\* record is marked.
UndoFails(filter) ==
    /\ \/ Eligible(filter) = {} /\ Fail("undo_last", "E_UNDO_UNAVAILABLE")
       \/ Faults /\ Eligible(filter) # {} /\ Fail("undo_last", "E_INTERNAL_ERROR")
    /\ UNCHANGED <<disk, undo>>
=============================================================================
