---------------------------- MODULE Transactions ----------------------------
(***************************************************************************)
(* core/transactions.py: the one active transaction of the server, the     *)
(* patches staged in it and its staging directory.  Expiry is lazy: an     *)
(* expired transaction stays until the next call that looks for one.       *)
(***************************************************************************)
EXTENDS GitUndo

CONSTANTS
    TxIds,      \* the uuids begin_transaction can hand out
    NoTx,
    TxTTL

VARIABLES
    tx,         \* the active transaction, or NoTx
    begun,      \* the ids handed out so far
    stagingDirs \* the ids whose staging directory exists on disk

ASSUME TxAssumption == NoTx \notin TxIds /\ TxTTL \in Nat

Transaction == [tx_id : TxIds, age : 0..(TxTTL + 1), staged : Seq(PatchIds)]
Closed == [tx_id |-> NoTx, age |-> 0, staged |-> <<>>]
TxType == Transaction \cup {Closed}

txVars == <<tx, begun, stagingDirs>>

tx_is_expired == tx # Closed /\ tx.age > TxTTL
Active(t) == tx.tx_id = t /\ tx # Closed /\ ~ tx_is_expired

\* _cleanup_staging and _active_transaction = None.
Close ==
    /\ tx' = Closed
    /\ stagingDirs' = stagingDirs \ {tx.tx_id}
    /\ UNCHANGED begun

\* Seeded fault: lazy expiry forgets the staging directory.
PruneForgets ==
    IF tx_is_expired THEN tx' = Closed /\ UNCHANGED <<begun, stagingDirs>>
                     ELSE UNCHANGED txVars

\* _prune_if_expired when the call finds nothing it can use.
Prune == IF tx_is_expired THEN Close ELSE UNCHANGED txVars

begin_transaction(t) ==
    /\ t \notin begun
    /\ tx = Closed \/ tx_is_expired
    /\ tx' = [tx_id |-> t, age |-> 0, staged |-> <<>>]
    /\ begun' = begun \cup {t}
    /\ stagingDirs' = (stagingDirs \ {tx.tx_id}) \cup {t}
    /\ reply' = Answer("begin_transaction", "open", {})

BeginRejected ==
    /\ tx # Closed /\ ~ tx_is_expired
    /\ UNCHANGED txVars
    /\ Fail("begin_transaction", "E_TRANSACTION_ACTIVE")

TxNotFound(op, t) ==
    /\ ~ Active(t)
    /\ Prune
    /\ Fail(op, "E_TRANSACTION_NOT_FOUND")

\* dict assignment: a patch staged twice keeps its place.
IsStaged(p) == \E i \in 1..Len(tx.staged) : tx.staged[i] = p
\* Seeded faults: the staged patches are a list; the proposal is staged where
\* its id should be.
StageInList(p) == Append(tx.staged, p)
StageProposal(p) == IF IsStaged(p) THEN tx.staged
                                   ELSE Append(tx.staged, patches[p])
Stage(p) == IF IsStaged(p) THEN tx.staged ELSE Append(tx.staged, p)

(***************************************************************************)
(* stage_patch.  The copy is written to staging_dir / proposal.path, and   *)
(* in pathlib an absolute right operand replaces the left one: the copy of *)
(* a patch proposed under an absolute path is the live file.               *)
(***************************************************************************)
StagePatch(p, t) ==
    /\ Active(t)
    /\ tx' = [tx EXCEPT !.staged = Stage(p)]
    /\ disk' = IF patches[p].path.abs THEN Replace(FileOf(p), patches[p].new)
                                      ELSE disk
    /\ reply' = Answer("apply_patch", "staged", {p})
    /\ UNCHANGED <<begun, stagingDirs>>

\* The copy is written in place, not atomically: a live file may be left torn.
StageRaises(p, t) ==
    /\ Faults /\ Active(t)
    /\ \/ UNCHANGED disk
       \/ /\ patches[p].path.abs
          /\ \E c \in Content : disk' = Replace(FileOf(p), c)
    /\ Fail("apply_patch", "E_INTERNAL_ERROR")
    /\ UNCHANGED txVars

rollback_transaction(t) ==
    /\ Active(t)
    /\ Close
    /\ reply' = Answer("rollback_transaction", "rolled_back",
                       {tx.staged[i] : i \in 1..Len(tx.staged)})

(***************************************************************************)
(* commit_transaction, over the staged patches in the order of the dict.   *)
(***************************************************************************)
Staged(i) == tx.staged[i]
Count == Len(tx.staged)
Target == [i \in 1..Count |-> FileOf(Staged(i))]
NewContent == [i \in 1..Count |-> patches[Staged(i)].new]
StagedIds(k) == {Staged(i) : i \in 1..k}

\* Phase 1: every file still has the text its patch was computed from.
CasError(i) ==
    IF ~ Exists(Target[i]) THEN "E_FILE_NOT_FOUND"
    ELSE IF ~ HashMatches(Target[i], patches[Staged(i)].base)
         THEN "E_FILE_MODIFIED" ELSE "none"

\* Seeded fault: only the first file's digest is compared.
CasPassesFirst ==
    \A i \in 1..Count : Exists(Target[i]) /\ (i = 1 => CasError(i) = "none")

CasPasses == \A i \in 1..Count : CasError(i) = "none"

\* Nothing was written and the transaction stays active.
CommitRejected(t) ==
    /\ Active(t)
    /\ \/ \E i \in 1..Count :
             /\ CasError(i) # "none"
             /\ \A j \in 1..(i - 1) : CasError(j) = "none"
             /\ Fail("commit_transaction", CasError(i))
       \/ /\ Faults /\ Count > 0     \* reading a file or a snapshot raises
          /\ Fail("commit_transaction", "E_INTERNAL_ERROR")
    /\ UNCHANGED <<disk, patches, undo>> /\ UNCHANGED txVars

\* Seeded fault: each snapshot is taken just before the file's own write.
SnapshotsAsWritten ==
    [i \in 1..Count |->
        GitClean[Overwrite(disk, Target, NewContent, i - 1)[Target[i]]]]

\* Phase 2: all snapshots are taken before the first write.
Snapshots == [i \in 1..Count |-> snapshot(Target[i])]

\* Phase 3 up to write k, and the rollback of the first r of those writes.
Wrote(k) == Overwrite(disk, Target, NewContent, k)
RolledBack(k, r) == Overwrite(Wrote(k), Target, Snapshots, r)

\* Phase 4: the whole batch is on disk and its checks, if asked for, pass.
Verified(verify) ==
    verify => \A i \in 1..Count : Passes(Wrote(Count), Target[i])

\* The batch stops after k writes: the next write raises, or all are done and
\* a syntax check rejects a file or raises.
StopsAfter(k, verify) ==
    \/ Faults /\ k < Count
    \/ k = Count /\ ~ Verified(verify)
    \/ /\ Faults /\ k = Count /\ verify
       /\ \E i \in 1..Count : Target[i] \in Checked

CommitRollsBack(t, verify) ==
    /\ Active(t) /\ CasPasses
    /\ \E k \in 0..Count :
         /\ StopsAfter(k, verify)
         /\ disk' = RolledBack(k, k)
    /\ Close
    /\ Fail("commit_transaction", "E_ROLLBACK_TRIGGERED")
    /\ UNCHANGED <<patches, undo>>

\* Restoring a file raises in turn (git cat-file, the write): the files after
\* it stay as the batch left them and the transaction stays active.
CommitRollbackRaises(t, verify) ==
    /\ Faults /\ Active(t) /\ CasPasses
    /\ \E k \in 1..Count, r \in 0..(Count - 1) :
         /\ r < k
         /\ StopsAfter(k, verify)
         /\ disk' = RolledBack(k, r)
    /\ Fail("commit_transaction", "E_INTERNAL_ERROR")
    /\ UNCHANGED <<patches, undo>> /\ UNCHANGED txVars

\* Seeded fault: every record gets the snapshot of the first file.
RecordsFirst(k) == [i \in 1..k |-> Applied(Staged(i), Target[i], Snapshots[1])]

\* Phase 5: record, then mark, patch by patch.
Records(k) == [i \in 1..k |-> Applied(Staged(i), Target[i], Snapshots[i])]

CommitSucceeds(t, verify) ==
    /\ Active(t) /\ CasPasses /\ Verified(verify) /\ Room(Count)
    /\ \A i \in 1..Count : MarkError(Staged(i)) = "none"
    /\ disk' = Wrote(Count)
    /\ undo' = undo \o Records(Count)
    /\ patches' = MarkApplied(StagedIds(Count))
    /\ Close
    /\ reply' = Answer("commit_transaction", "committed", StagedIds(Count))

\* mark_applied raises for the i-th patch: expired or applied since it was
\* staged.  Its record is already on the stack, nothing is rolled back and
\* the transaction stays active.
CommitMarkRaises(t, verify) ==
    /\ Active(t) /\ CasPasses /\ Verified(verify)
    /\ \E i \in 1..Count :
         /\ Room(i)
         /\ MarkError(Staged(i)) # "none"
         /\ \A j \in 1..(i - 1) : MarkError(Staged(j)) = "none"
         /\ undo' = undo \o Records(i)
         /\ patches' =
              IF MarkError(Staged(i)) = "E_PATCH_EXPIRED"
              THEN [MarkApplied(StagedIds(i - 1))
                      EXCEPT ![Staged(i)].status = "expired"]
              ELSE MarkApplied(StagedIds(i - 1))
         /\ Fail("commit_transaction", MarkError(Staged(i)))
    /\ disk' = Wrote(Count)
    /\ UNCHANGED txVars

AgeTx == tx' = IF tx = Closed THEN Closed
               ELSE [tx EXCEPT !.age = Older(@, TxTTL)]
=============================================================================
