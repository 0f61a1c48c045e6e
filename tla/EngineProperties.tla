-------------------------- MODULE EngineProperties --------------------------
(***************************************************************************)
(* What the engine guarantees, and what its documents claim for it.        *)
(***************************************************************************)
EXTENDS Engine

SameText(f) ==
    IF Exists(f) /\ disk'[f] # Missing
    THEN Normalize[disk'[f]] = Normalize[disk[f]]
    ELSE disk'[f] = disk[f]

\* f is as before, byte for byte but for what git converts of a file it keeps.
GivenBack(f) ==
    \/ disk'[f] = disk[f]
    \/ Exists(f) /\ disk'[f] = GitClean[disk[f]]

Newest(S, i) == i \in S /\ \A j \in S : j <= i
Oldest(S, i) == i \in S /\ \A j \in S : i <= j

-----------------------------------------------------------------------------
(* Guarantees.                                                             *)

(* Every way out of a transaction (commit, rollback, batch rollback, lazy  *)
(* expiry in any call) removes its staging directory, and none removes the *)
(* directory of a transaction that stays open.                             *)
StagingFollowsTx ==
    stagingDirs = IF tx = Closed THEN {} ELSE {tx.tx_id}

(* Every patch the cache calls applied is on the undo stack, so that a     *)
(* patch refused as E_PATCH_ALREADY_APPLIED can be undone or was undone.   *)
AppliedHasRecord ==
    \A p \in PatchIds : Known(p) /\ patches[p].status = "applied" =>
        \E i \in 1..Len(undo) : undo[i].patch = p /\ undo[i].file = FileOf(p)

(* A patch once answered E_PATCH_EXPIRED is past its TTL for good.  get    *)
(* looks at the clock and never at the status it wrote.                    *)
ExpiredIsFinal ==
    \A p \in PatchIds : Known(p) /\ patches[p].status = "expired" =>
        is_expired(p)

(* What commit will walk: patches the cache knows, each once.              *)
StagedOnce ==
    \A i, j \in 1..Len(tx.staged) :
        /\ Known(tx.staged[i])
        /\ tx.staged[i] = tx.staged[j] => i = j

(* An answer that says nothing was changed, or that everything was rolled  *)
(* back, is true of every file of the tree, byte for byte but for the line *)
(* endings git may convert: also when one file has several staged patches, *)
(* a write in the middle of the batch raises, or only the last is broken.  *)
RestoringCodes ==
    {"E_FILE_NOT_FOUND", "E_FILE_MODIFIED", "E_STALE_HASH", "E_SYNTAX_ERROR",
     "E_ROLLBACK_TRIGGERED", "E_TRANSACTION_NOT_FOUND"}

RefusedLeavesText ==
    [][reply'.out \in RestoringCodes => \A f \in Files : GivenBack(f)]_vars

(* After a successful apply or commit, undo_last(f) would give back the    *)
(* bytes every changed file had before the call, up to what git converts.  *)
SuccessIsUndoable ==
    [][reply'.out \in {"applied", "committed"} =>
         \A f \in Files : disk'[f] # disk[f] =>
           \E i \in 1..Len(undo') :
             /\ Newest(Eligible(f)', i)
             /\ undo'[i].snap = GitClean[disk[f]]]_vars

(* Of the records of one file, none is reverted while a younger one is     *)
(* not: undo with and without a path can be mixed.                         *)
UndoIsLifoPerFile ==
    [][\A i \in 1..Len(undo) :
         undo'[i].reverted /\ ~ undo[i].reverted =>
           \A j \in (i + 1)..Len(undo) :
             undo[j].file = undo[i].file => undo[j].reverted]_vars

(* Undo walks all the way back.  Whatever applies, commits, failed commits *)
(* and undos one file went through, what the oldest record not yet         *)
(* reverted restores is the text before the first of them, and that text   *)
(* is back once every record is reverted.  For a tree nobody else edits,   *)
(* no faults, and while no commit that is refused as it marks its patches  *)
(* leaves a file it wrote without a record (see PatchRefusalLeavesText);   *)
(* with one file none can.                                                 *)
UndoWalksBack ==
    \A f \in Files : \A i \in 1..Len(undo) :
        Oldest({k \in 1..Len(undo) : undo[k].file = f}, i) =>
          IF Eligible(f) = {}
          THEN Exists(f) /\ Normalize[disk[f]] = Normalize[undo[i].snap]
          ELSE \A j \in Eligible(f) : Oldest(Eligible(f), j) =>
                 Normalize[undo[j].snap] = Normalize[undo[i].snap]

LeavesUnrecorded ==
    /\ reply'.op = "commit_transaction"
    /\ \E f \in Files : ~ SameText(f) /\
         \A i \in 1..Len(undo') : i > Len(undo) => undo'[i].file # f
RecordingSpec == Init /\ [][Next /\ ~ LeavesUnrecorded]_vars

(* Compare and swap, end to end: whatever the outcome, a call of           *)
(* apply_patch or commit_transaction changes the text of a file only where *)
(* some patch was computed from exactly the text it replaces.              *)
WritesReplaceBase ==
    [][reply'.op \in {"apply_patch", "commit_transaction"} =>
         \A f \in Files : SameText(f) \/
           \E p \in PatchIds :
             /\ Known(p) /\ FileOf(p) = f
             /\ Exists(f) /\ patches[p].base = Normalize[disk[f]]
             /\ disk'[f] = patches[p].new]_vars

-----------------------------------------------------------------------------
(* The journal of a client.                                                *)

text == [f \in Files |-> IF Exists(f) THEN Normalize[disk[f]] ELSE Missing]

offers == {[file |-> FileOf(p), from |-> patches[p].base,
            to |-> Normalize[patches[p].new]] : p \in {q \in PatchIds : Known(q)}}

past == [f \in Files |->
           {[at |-> i, text |-> Normalize[undo[i].snap]] : i \in Eligible(f)}]

\* The codes a commit can answer after it wrote.
LateCodes == {"E_PATCH_EXPIRED", "E_PATCH_ALREADY_APPLIED"}
answer ==
    CASE reply.out \in {"applied", "committed"} -> "done"
      [] reply.out = "reverted" -> "undone"
      [] reply.out = "ok" -> "proposed"
      [] reply.out = "none" -> "none"
      [] reply.out = "E_INTERNAL_ERROR" -> "failed"
      [] reply.op = "commit_transaction" /\ reply.out \in LateCodes -> "failed"
      [] OTHER -> "refused"

Promised == INSTANCE Journal WITH Texts <- Content

(* The engine keeps its promises to a client that knows of a file its text, *)
(* what was proposed and what can be undone, through calls, batches, faults *)
(* in any call, expiry and edits by others.  With relative paths.          *)
KeepsJournal == Promised!Spec

-----------------------------------------------------------------------------
(* Claims of the repository the code does not keep.                        *)

(* protocol/SPECIFICATION.md: no target file is touched until              *)
(* commit_transaction.                                                     *)
StagingLeavesDisk == [][reply'.out = "staged" => disk' = disk]_vars

(* README.md: all-or-nothing refactoring, so a commit refused for one of   *)
(* its patches wrote none of them.                                         *)
PatchRefusalLeavesText ==
    [][reply'.out \in {"E_PATCH_EXPIRED", "E_PATCH_ALREADY_APPLIED"} =>
         \A f \in Files : SameText(f)]_vars

(* server.py: commit_transaction commits all staged patches, so when each  *)
(* of them changes the text it was computed from, the file of each has its *)
(* content when the commit is answered.                                    *)
CommitWritesEveryPatch ==
    [][/\ reply'.out = "committed"
       /\ \A p \in reply'.ids : Normalize[patches[p].new] # patches[p].base
       => \A p \in reply'.ids : disk'[FileOf(p)] = patches[p].new]_vars
=============================================================================
