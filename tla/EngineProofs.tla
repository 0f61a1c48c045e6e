---------------------------- MODULE EngineProofs ----------------------------
(***************************************************************************)
(* Theorems about the engine, for every tree, every set of contents and    *)
(* patches, every line-ending conversion and every interleaving of calls,  *)
(* time and foreign edits.                                                 *)
(***************************************************************************)
EXTENDS EngineProperties, SequenceTheorems, TLAPS

USE DEF compute_content_hash, FileOf, Tools, CEMPErrorCode, Outcomes

(* Typing is not inductive alone: commit reads the file and the content of *)
(* each staged patch, which only a patch the cache knows has.              *)
TypeInv == TypeOK /\ StagedOnce

-----------------------------------------------------------------------------
(* Lemmas about the operators.                                             *)

(* A single write keeps the type of the tree.                              *)
LEMMA ReplaceType ==
    ASSUME TypeOK, NEW f \in Files, NEW x \in Content
    PROVE  Replace(f, x) \in DiskType
BY DEF TypeOK, DiskType, Replace

(* So does any prefix of a batch of writes.                                *)
LEMMA OverwriteType ==
    ASSUME NEW d \in DiskType, NEW k \in Nat, NEW target, NEW content,
           \A i \in 1..k : content[i] \in Content
    PROVE  Overwrite(d, target, content, k) \in DiskType
<1> SUFFICES ASSUME NEW f \in Files
             PROVE  Overwrite(d, target, content, k)[f] \in Content \cup {Missing}
    BY DEF DiskType, Overwrite
<1>1. CASE \E i \in 1..k : LastFor(f, target, i, k)
  <2> DEFINE last == CHOOSE i \in 1..k : LastFor(f, target, i, k)
  <2>1. last \in 1..k
      BY <1>1
  <2>2. Overwrite(d, target, content, k)[f] = content[last]
      BY <1>1 DEF Overwrite
  <2> QED BY <2>1, <2>2
<1>2. CASE ~ \E i \in 1..k : LastFor(f, target, i, k)
    BY <1>2 DEF Overwrite, DiskType
<1> QED BY <1>1, <1>2

(* Saturating clocks stay in their range.                                  *)
LEMMA OlderType ==
    ASSUME NEW ttl \in Nat, NEW age \in 0..(ttl + 1)
    PROVE  Older(age, ttl) \in 0..(ttl + 1)
BY DEF Older

(* An error answer is an answer.                                           *)
LEMMA FailType ==
    ASSUME NEW op \in Tools, NEW code \in Outcomes, Fail(op, code)
    PROVE  reply' \in ReplyType
BY DEF Fail, Answer, ReplyType

(* So is a success about some patches.                                     *)
LEMMA AnswerType ==
    ASSUME NEW op \in Tools, NEW out \in Outcomes, NEW ids \in SUBSET PatchIds
    PROVE  Answer(op, out, ids) \in ReplyType
BY DEF Answer, ReplyType

(* A known patch has a proposal's fields.                                  *)
LEMMA KnownType ==
    ASSUME TypeOK, NEW p \in PatchIds, Known(p)
    PROVE  /\ patches[p] \in PatchProposal
           /\ FileOf(p) \in Files
           /\ patches[p].new \in Content
           /\ patches[p].base \in Content
           /\ patches[p].status \in Status
           /\ patches[p].age \in 0..(PatchTTL + 1)
<1>1. patches[p] \in PatchProposal
    BY DEF TypeOK, PatchesType, Known
<1> QED BY <1>1, PatchAssumption DEF PatchProposal

(* Marking known patches keeps the cache well typed.                       *)
LEMMA MarkAppliedType ==
    ASSUME TypeOK, NEW S, \A p \in PatchIds : p \in S => Known(p)
    PROVE  MarkApplied(S) \in PatchesType
<1> SUFFICES ASSUME NEW p \in PatchIds
             PROVE  MarkApplied(S)[p] \in PatchProposal \cup {NoPatch}
    BY DEF MarkApplied, PatchesType
<1>1. CASE p \in S
  <2>1. patches[p] \in PatchProposal
      BY <1>1, KnownType
  <2>2. [patches[p] EXCEPT !.status = "applied"] \in PatchProposal
      BY <2>1 DEF PatchProposal, Status
  <2> QED BY <1>1, <2>2 DEF MarkApplied
<1>2. CASE p \notin S
    BY <1>2 DEF MarkApplied, TypeOK, PatchesType
<1> QED BY <1>1, <1>2

(* So does the status a lookup or a mark leaves on one known patch.        *)
LEMMA ExpireType ==
    ASSUME NEW c \in PatchesType, NEW p \in PatchIds, c[p] # NoPatch
    PROVE  [c EXCEPT ![p].status = "expired"] \in PatchesType
<1>1. c[p] \in PatchProposal
    BY DEF PatchesType
<1>2. [c[p] EXCEPT !.status = "expired"] \in PatchProposal
    BY <1>1 DEF PatchProposal, Status
<1> QED BY <1>2 DEF PatchesType

(* What a lookup refuses: ids not handed out, and patches past their TTL.   *)
LEMMA GetErrorCases ==
    ASSUME NEW p \in PatchIds
    PROVE  \/ GetError(p) = "E_PATCH_NOT_FOUND" /\ ~ Known(p)
           \/ GetError(p) = "E_PATCH_EXPIRED" /\ Known(p) /\ is_expired(p)
           \/ GetError(p) = "none" /\ Known(p) /\ ~ is_expired(p)
<1>1. CASE ~ Known(p)
    BY <1>1 DEF GetError
<1>2. CASE Known(p) /\ is_expired(p)
    BY <1>2 DEF GetError
<1>3. CASE Known(p) /\ ~ is_expired(p)
    BY <1>3 DEF GetError
<1> QED BY <1>1, <1>2, <1>3

(* What mark_applied refuses: patches past their TTL or applied before.    *)
LEMMA MarkErrorCases ==
    ASSUME NEW p \in PatchIds
    PROVE  \/ MarkError(p) = "E_PATCH_EXPIRED" /\ is_expired(p)
           \/ MarkError(p) = "E_PATCH_ALREADY_APPLIED" /\ ~ is_expired(p)
           \/ MarkError(p) = "none" /\ ~ is_expired(p)
<1>1. CASE is_expired(p)
    BY <1>1 DEF MarkError
<1>2. CASE ~ is_expired(p) /\ patches[p].status = "applied"
    BY <1>2 DEF MarkError
<1>3. CASE ~ is_expired(p) /\ patches[p].status # "applied"
    BY <1>3 DEF MarkError
<1> QED BY <1>1, <1>2, <1>3

(* The transaction that is open is a transaction.                          *)
LEMMA ActiveType ==
    ASSUME TypeOK, NEW t \in TxIds, Active(t)
    PROVE  tx \in Transaction /\ tx.tx_id = t /\ Count \in Nat
<1>1. tx \in Transaction
    BY DEF TypeOK, TxType, Active
<1> QED BY <1>1, LenProperties DEF Transaction, Active, Count

(* Also between transactions what is staged is a sequence of patches.      *)
LEMMA StagedSeq ==
    ASSUME TypeOK
    PROVE  tx.staged \in Seq(PatchIds)
<1>1. CASE tx = Closed
  <2>1. tx.staged = <<>>
      BY <1>1 DEF Closed
  <2> QED BY <2>1
<1>2. CASE tx \in Transaction
    BY <1>2 DEF Transaction
<1> QED BY <1>1, <1>2 DEF TypeOK, TxType

(* What commit walks: staged patches, their files and their contents.      *)
LEMMA StagedType ==
    ASSUME TypeInv, NEW t \in TxIds, Active(t), NEW i \in 1..Count
    PROVE  /\ Staged(i) \in PatchIds
           /\ Known(Staged(i))
           /\ Target[i] = FileOf(Staged(i)) /\ Target[i] \in Files
           /\ NewContent[i] \in Content
<1>1. Staged(i) \in PatchIds
    BY ActiveType, ElementOfSeq DEF TypeInv, Transaction, Staged, Count
<1>2. Known(Staged(i))
    BY DEF TypeInv, StagedOnce, Staged, Count
<1> QED BY <1>1, <1>2, KnownType DEF TypeInv, Target, NewContent

(* Once the hashes match, every snapshot is of a file that exists.         *)
LEMMA SnapshotType ==
    ASSUME TypeInv, NEW t \in TxIds, Active(t), CasPasses, NEW i \in 1..Count
    PROVE  Snapshots[i] \in Content
<1>1. Exists(Target[i])
    BY DEF CasPasses, CasError
<1>2. disk[Target[i]] \in Content
    BY <1>1, StagedType DEF TypeInv, TypeOK, DiskType, Exists
<1> QED BY <1>2, GitAssumption DEF Snapshots, snapshot

(* Any prefix of the batch, rolled back or not, leaves a tree.             *)
LEMMA BatchType ==
    ASSUME TypeInv, NEW t \in TxIds, Active(t), CasPasses,
           NEW k \in 0..Count, NEW r \in 0..Count
    PROVE  Wrote(k) \in DiskType /\ RolledBack(k, r) \in DiskType
<1>1. Count \in Nat
    BY ActiveType DEF TypeInv
<1>2. Wrote(k) \in DiskType
  <2>1. \A i \in 1..k : NewContent[i] \in Content
      BY <1>1, StagedType
  <2> QED BY <1>1, <2>1, OverwriteType DEF Wrote, TypeInv, TypeOK
<1>3. RolledBack(k, r) \in DiskType
  <2>1. \A i \in 1..r : Snapshots[i] \in Content
      BY <1>1, SnapshotType
  <2> QED BY <1>1, <1>2, <2>1, OverwriteType DEF RolledBack
<1> QED BY <1>2, <1>3

(* The records of a batch extend the undo stack.                           *)
LEMMA RecordsType ==
    ASSUME TypeInv, NEW t \in TxIds, Active(t), CasPasses, NEW k \in 0..Count
    PROVE  /\ Records(k) \in Seq(UndoPatchRecord)
           /\ Len(Records(k)) = k
           /\ undo \o Records(k) \in Seq(UndoPatchRecord)
<1>1. Count \in Nat /\ k \in Nat
    BY ActiveType DEF TypeInv
<1>2. \A i \in 1..k : Applied(Staged(i), Target[i], Snapshots[i])
                        \in UndoPatchRecord
    BY <1>1, StagedType, SnapshotType DEF Applied, UndoPatchRecord
<1>3. Records(k) \in [1..k -> UndoPatchRecord]
    BY <1>2 DEF Records
<1>4. Records(k) \in Seq(UndoPatchRecord)
    BY <1>1, <1>3, SeqDef
<1>5. Len(Records(k)) = k
    BY <1>1, <1>3, <1>4, LenProperties
<1> QED BY <1>4, <1>5, ConcatProperties DEF TypeInv, TypeOK

(* Leaving a transaction, whatever the way.                                *)
LEMMA CloseType ==
    ASSUME TypeOK, Close \/ Prune
    PROVE  tx' \in TxType /\ begun' \in SUBSET TxIds
           /\ stagingDirs' \in SUBSET TxIds
BY DEF TypeOK, Close, Prune, TxType, txVars

-----------------------------------------------------------------------------
(* Typing, action by action.                                               *)

(* Storing a proposal, or refusing to.                                     *)
LEMMA ProposeType ==
    ASSUME TypeOK, NEW p \in PatchIds, NEW path \in Paths, NEW new \in Content,
           Proposes(p, path, new)
    PROVE  TypeOK'
<1>1. Normalize[disk[path.file]] \in Content
    BY PatchAssumption, ContentAssumption
    DEF Proposes, Exists, TypeOK, DiskType
<1> DEFINE new_patch == [path |-> path, base |-> Normalize[disk[path.file]],
                         new |-> new, age |-> 0, status |-> "pending"]
<1>2. new_patch \in PatchProposal
    BY <1>1, PatchAssumption DEF PatchProposal, Status
<1>3. patches' \in PatchesType
    BY <1>2 DEF Proposes, store, TypeOK, PatchesType
<1>4. reply' \in ReplyType
    BY AnswerType DEF Proposes
<1> QED BY <1>3, <1>4 DEF Proposes, TypeOK, txVars

LEMMA ProposeRejectedType ==
    ASSUME TypeOK, NEW path \in Paths, ProposeRejected(path)
    PROVE  TypeOK'
<1>1. reply' \in ReplyType
    BY FailType DEF ProposeRejected, ProposeErrors
<1> QED BY <1>1 DEF ProposeRejected, TypeOK, txVars

LEMMA ApplyType ==
    ASSUME TypeOK, NEW p \in PatchIds, apply_patch(p)
    PROVE  TypeOK'
<1>1. CASE PatchUnavailable(p)
  <2>1. patches' \in PatchesType
      BY <1>1, ExpireType DEF PatchUnavailable, GetFails, TypeOK, Known
  <2>2. reply' \in ReplyType
      BY <1>1, GetErrorCases, FailType DEF PatchUnavailable, GetFails
  <2> QED BY <1>1, <2>1, <2>2 DEF PatchUnavailable, TypeOK, txVars
<1>2. CASE PatchAlreadyApplied(p)
    BY <1>2, FailType DEF PatchAlreadyApplied, TypeOK, txVars
<1>3. CASE ApplyRejected(p)
    BY <1>3, FailType DEF ApplyRejected, TypeOK, txVars
<1>4. ASSUME Pending(p), Swappable(p)
      PROVE  /\ Known(p) /\ Swapped(p) \in DiskType
             /\ snapshot(FileOf(p)) \in Content
  <2>1. Known(p)
      BY <1>4, GetErrorCases DEF Pending
  <2>2. disk[FileOf(p)] \in Content
      BY <1>4, <2>1, KnownType DEF Swappable, Exists, TypeOK, DiskType
  <2> QED BY <2>1, <2>2, KnownType, ReplaceType, GitAssumption
          DEF Swapped, snapshot
<1>5. ASSUME NEW verify \in BOOLEAN, ApplySucceeds(p, verify)
      PROVE  TypeOK'
  <2>1. Pending(p) /\ Swappable(p)
      BY <1>5 DEF ApplySucceeds
  <2>2. undo' \in Seq(UndoPatchRecord)
      BY <1>4, <1>5, <2>1, KnownType
      DEF ApplySucceeds, TypeOK, Applied, UndoPatchRecord
  <2>3. patches' \in PatchesType
      BY <1>4, <1>5, <2>1, MarkAppliedType DEF ApplySucceeds
  <2>4. reply' \in ReplyType
      BY <1>5, AnswerType DEF ApplySucceeds
  <2> QED BY <1>4, <1>5, <2>1, <2>2, <2>3, <2>4
          DEF ApplySucceeds, TypeOK, txVars
<1>6. CASE ApplyRollsBack(p)
  <2>1. disk' \in DiskType
      BY <1>4, <1>6, KnownType, ReplaceType DEF ApplyRollsBack
  <2> QED BY <1>6, <2>1, FailType DEF ApplyRollsBack, TypeOK, txVars
<1>7. CASE ApplyAbandoned(p)
    BY <1>4, <1>7, FailType DEF ApplyAbandoned, TypeOK, txVars
<1> QED BY <1>1, <1>2, <1>3, <1>5, <1>6, <1>7 DEF apply_patch

LEMMA ApplyTxType ==
    ASSUME TypeOK, NEW p \in PatchIds, NEW t \in TxIds, apply_patch_tx(p, t)
    PROVE  TypeOK'
<1>1. CASE Pending(p) /\ StagePatch(p, t) /\ UNCHANGED <<patches, undo>>
  <2>1. Known(p) /\ tx \in Transaction
      BY <1>1, GetErrorCases, ActiveType DEF Pending, StagePatch
  <2>2. Stage(p) \in Seq(PatchIds)
      BY <2>1 DEF Stage, Transaction
  <2>3. tx' \in TxType
      BY <1>1, <2>1, <2>2 DEF StagePatch, Transaction, TxType
  <2>4. disk' \in DiskType
      BY <1>1, <2>1, KnownType, ReplaceType DEF StagePatch, TypeOK
  <2>5. reply' \in ReplyType
      BY <1>1, AnswerType DEF StagePatch
  <2> QED BY <1>1, <2>3, <2>4, <2>5 DEF StagePatch, TypeOK
<1>2. CASE /\ Pending(p) /\ TxNotFound("apply_patch", t)
           /\ UNCHANGED <<disk, patches, undo>>
    BY <1>2, CloseType, FailType DEF TxNotFound, TypeOK
<1>3. CASE Pending(p) /\ StageRaises(p, t) /\ UNCHANGED <<patches, undo>>
  <2>1. Known(p)
      BY <1>3, GetErrorCases DEF Pending
  <2>2. disk' \in DiskType
      BY <1>3, <2>1, KnownType, ReplaceType DEF StageRaises, TypeOK
  <2> QED BY <1>3, <2>2, FailType DEF StageRaises, TypeOK, txVars
<1> QED BY <1>1, <1>2, <1>3 DEF apply_patch_tx

LEMMA BeginType ==
    ASSUME TypeOK, Begin
    PROVE  TypeOK'
<1>1. ASSUME NEW t \in TxIds, begin_transaction(t)
      PROVE  TypeOK'
  <2>1. tx' \in TxType
      BY <1>1, TxAssumption, EmptySeq
      DEF begin_transaction, TxType, Transaction
  <2>2. reply' \in ReplyType
      BY <1>1, AnswerType DEF begin_transaction
  <2> QED BY <1>1, <2>1, <2>2 DEF Begin, begin_transaction, TypeOK
<1>2. CASE BeginRejected
    BY <1>2, FailType DEF Begin, BeginRejected, TypeOK, txVars
<1> QED BY <1>1, <1>2 DEF Begin

LEMMA RollbackType ==
    ASSUME TypeOK, NEW t \in TxIds, Rollback(t)
    PROVE  TypeOK'
<1>1. CASE rollback_transaction(t)
  <2>1. {tx.staged[i] : i \in 1..Len(tx.staged)} \in SUBSET PatchIds
      BY <1>1, ActiveType, ElementOfSeq DEF rollback_transaction, Transaction
  <2>2. reply' \in ReplyType
      BY <1>1, <2>1, AnswerType DEF rollback_transaction
  <2> QED BY <1>1, <2>2, CloseType DEF Rollback, rollback_transaction, TypeOK
<1>2. CASE TxNotFound("rollback_transaction", t)
    BY <1>2, CloseType, FailType DEF Rollback, TxNotFound, TypeOK
<1> QED BY <1>1, <1>2 DEF Rollback

LEMMA CommitType ==
    ASSUME TypeInv, NEW t \in TxIds, commit_transaction(t)
    PROVE  TypeOK'
<1> USE DEF TypeInv
<1>1. CASE CommitRejected(t)
  <2>1. reply' \in ReplyType
      BY <1>1, FailType DEF CommitRejected, CasError
  <2> QED BY <1>1, <2>1 DEF CommitRejected, TypeOK, txVars
<1>2. ASSUME Active(t)
      PROVE  /\ Count \in Nat
             /\ \A k \in 0..Count : StagedIds(k) \in SUBSET PatchIds
             /\ \A k \in 0..Count : \A p \in StagedIds(k) : Known(p)
  <2>1. Count \in Nat
      BY <1>2, ActiveType
  <2> QED BY <1>2, <2>1, StagedType DEF StagedIds
<1>3. ASSUME NEW verify \in BOOLEAN, CommitSucceeds(t, verify)
      PROVE  TypeOK'
  <2>1. Active(t) /\ CasPasses
      BY <1>3 DEF CommitSucceeds
  <2>2. Count \in 0..Count
      BY <1>2, <2>1
  <2>3. disk' \in DiskType
      BY <1>3, <2>1, <2>2, BatchType DEF CommitSucceeds
  <2>4. undo' \in Seq(UndoPatchRecord)
      BY <1>3, <2>1, <2>2, RecordsType DEF CommitSucceeds
  <2>5. patches' \in PatchesType
      BY <1>2, <1>3, <2>1, <2>2, MarkAppliedType DEF CommitSucceeds
  <2>6. reply' \in ReplyType
      BY <1>2, <1>3, <2>1, <2>2, AnswerType DEF CommitSucceeds
  <2> QED BY <1>3, <2>3, <2>4, <2>5, <2>6, CloseType DEF CommitSucceeds, TypeOK
<1>4. ASSUME NEW verify \in BOOLEAN, CommitMarkRaises(t, verify)
      PROVE  TypeOK'
  <2>1. Active(t) /\ CasPasses
      BY <1>4 DEF CommitMarkRaises
  <2>2. PICK i \in 1..Count :
          /\ undo' = undo \o Records(i)
          /\ patches' =
               IF MarkError(Staged(i)) = "E_PATCH_EXPIRED"
               THEN [MarkApplied(StagedIds(i - 1))
                       EXCEPT ![Staged(i)].status = "expired"]
               ELSE MarkApplied(StagedIds(i - 1))
          /\ Fail("commit_transaction", MarkError(Staged(i)))
      BY <1>4 DEF CommitMarkRaises
  <2>3. i \in 0..Count /\ i - 1 \in 0..Count /\ Count \in 0..Count
      BY <1>2, <2>1
  <2>4. Staged(i) \in PatchIds /\ Known(Staged(i))
      BY <2>1, StagedType
  <2>5. undo' \in Seq(UndoPatchRecord)
      BY <2>1, <2>2, <2>3, RecordsType
  <2>6. MarkApplied(StagedIds(i - 1)) \in PatchesType
      BY <1>2, <2>1, <2>3, MarkAppliedType
  <2>7. MarkApplied(StagedIds(i - 1))[Staged(i)] # NoPatch
    <3>1. [patches[Staged(i)] EXCEPT !.status = "applied"] \in PatchProposal
        BY <2>4, KnownType DEF PatchProposal, Status
    <3> QED BY <2>4, <3>1, PatchAssumption DEF MarkApplied, Known
  <2>8. patches' \in PatchesType
      BY <2>2, <2>4, <2>6, <2>7, ExpireType
  <2>9. reply' \in ReplyType
      BY <2>2, <2>4, MarkErrorCases, FailType
  <2> QED BY <1>4, <2>1, <2>3, <2>5, <2>8, <2>9, BatchType
          DEF CommitMarkRaises, TypeOK, txVars
<1>5. ASSUME NEW verify \in BOOLEAN, CommitRollsBack(t, verify)
      PROVE  TypeOK'
  <2>1. disk' \in DiskType
      BY <1>5, BatchType DEF CommitRollsBack
  <2>2. reply' \in ReplyType
      BY <1>5, FailType DEF CommitRollsBack
  <2> QED BY <1>5, <2>1, <2>2, CloseType DEF CommitRollsBack, TypeOK
<1>6. ASSUME NEW verify \in BOOLEAN, CommitRollbackRaises(t, verify)
      PROVE  TypeOK'
  <2>1. disk' \in DiskType
      BY <1>2, <1>6, BatchType DEF CommitRollbackRaises
  <2>2. reply' \in ReplyType
      BY <1>6, FailType DEF CommitRollbackRaises
  <2> QED BY <1>6, <2>1, <2>2 DEF CommitRollbackRaises, TypeOK, txVars
<1>7. CASE /\ TxNotFound("commit_transaction", t)
           /\ UNCHANGED <<disk, patches, undo>>
    BY <1>7, CloseType, FailType DEF TxNotFound, TypeOK
<1> QED BY <1>1, <1>3, <1>4, <1>5, <1>6, <1>7 DEF commit_transaction

LEMMA UndoType ==
    ASSUME TypeOK, NEW filter \in Files \cup {AnyFile}, undo_last(filter)
    PROVE  TypeOK'
<1>1. CASE UndoReverts(filter)
  <2>1. PICK i \in Eligible(filter) : Revert(i)
      BY <1>1 DEF UndoReverts
  <2>2. i \in 1..Len(undo) /\ undo[i] \in UndoPatchRecord
      BY <2>1, ElementOfSeq DEF Eligible, TypeOK
  <2>3. disk' \in DiskType
      BY <2>1, <2>2, ReplaceType DEF Revert, UndoPatchRecord
  <2>4. [undo[i] EXCEPT !.reverted = TRUE] \in UndoPatchRecord
      BY <2>2 DEF UndoPatchRecord
  <2>5. undo' \in Seq(UndoPatchRecord)
      BY <2>1, <2>2, <2>4, ExceptSeq DEF Revert, TypeOK
  <2>6. reply' \in ReplyType
      BY <2>1, <2>2, AnswerType, FailType DEF Revert, UndoPatchRecord
  <2> QED BY <2>3, <2>5, <2>6 DEF undo_last, TypeOK, txVars
<1>2. CASE UndoFails(filter)
    BY <1>2, FailType DEF UndoFails, undo_last, TypeOK, txVars
<1> QED BY <1>1, <1>2 DEF undo_last

LEMMA EnvironmentType ==
    ASSUME TypeOK, Environment
    PROVE  TypeOK'
<1>0. NoReply \in ReplyType
    BY AnswerType DEF NoReply
<1>1. CASE Tick
  <2>1. patches' \in PatchesType
    <3> SUFFICES ASSUME NEW p \in PatchIds, Known(p)
                 PROVE  [patches[p] EXCEPT !.age = Older(@, PatchTTL)]
                          \in PatchProposal
        BY <1>1 DEF Tick, AgePatches, PatchesType
    <3> QED BY KnownType, OlderType, PatchAssumption DEF PatchProposal
  <2>2. tx' \in TxType
    <3>1. CASE tx = Closed
        BY <1>1, <3>1 DEF Tick, AgeTx, TxType
    <3>2. CASE tx # Closed
        BY <1>1, <3>2, OlderType, TxAssumption
        DEF Tick, AgeTx, TxType, TypeOK, Transaction
    <3> QED BY <3>1, <3>2
  <2> QED BY <1>0, <1>1, <2>1, <2>2 DEF Tick, TypeOK
<1>2. ASSUME NEW f \in Files, ExternalEdit(f)
      PROVE  disk' \in DiskType /\ reply' \in ReplyType
    BY <1>0, <1>2, ContentAssumption, AnswerType
    DEF ExternalEdit, Replace, TypeOK, DiskType
<1> QED BY <1>1, <1>2 DEF Environment, TypeOK, txVars

-----------------------------------------------------------------------------
(* What a step does to the cache, to the undo stack and to the transaction. *)

(* A proposal, once handed out, keeps its file, its base and its content.   *)
Frozen(p) ==
    /\ Known(p)'
    /\ patches'[p].path = patches[p].path
    /\ patches'[p].base = patches[p].base
    /\ patches'[p].new = patches[p].new

(* It is called expired only past its TTL, and applied only with a record.  *)
Justified(p) ==
    /\ patches'[p].status = "expired" =>
         patches[p].status = "expired" \/ patches'[p].age > PatchTTL
    /\ patches[p].age > PatchTTL => patches'[p].age > PatchTTL
    /\ patches'[p].status = "applied" =>
         \/ patches[p].status = "applied"
         \/ \E i \in 1..Len(undo') :
              undo'[i].patch = p /\ undo'[i].file = FileOf(p)

(* Changing the status of a proposal changes nothing else of it.           *)
LEMMA StatusOnly ==
    ASSUME TypeOK, NEW p \in PatchIds, Known(p), NEW status \in Status,
           patches'[p] = [patches[p] EXCEPT !.status = status]
    PROVE  /\ Frozen(p)
           /\ patches'[p].age = patches[p].age
           /\ patches'[p].status = status
<1>1. patches[p] \in PatchProposal /\ patches'[p] \in PatchProposal
    BY KnownType DEF PatchProposal
<1> QED BY <1>1, PatchAssumption DEF Frozen, Known, PatchProposal

LEMMA UnchangedStep ==
    ASSUME NEW p \in PatchIds, Known(p), patches'[p] = patches[p]
    PROVE  Frozen(p) /\ Justified(p)
BY DEF Frozen, Justified, Known

(* apply_patch: a lookup expires only what is past its TTL, and what is    *)
(* marked applied was recorded first.                                      *)
LEMMA ApplyStep ==
    ASSUME TypeOK, NEW q \in PatchIds, apply_patch(q),
           NEW p \in PatchIds, Known(p)
    PROVE  Frozen(p) /\ Justified(p)
<1>1. CASE PatchUnavailable(q)
  <2>1. CASE Known(q) /\ p = q
    <3>1. is_expired(p) /\ patches' = [patches EXCEPT ![p].status = "expired"]
        BY <1>1, <2>1, GetErrorCases DEF PatchUnavailable, GetFails
    <3>2. patches'[p] = [patches[p] EXCEPT !.status = "expired"]
        BY <3>1 DEF TypeOK, PatchesType
    <3> QED BY <3>1, <3>2, StatusOnly DEF Justified, Status, is_expired
  <2>2. CASE ~ Known(q) \/ p # q
      BY <1>1, <2>2, UnchangedStep
      DEF PatchUnavailable, GetFails, TypeOK, PatchesType
  <2> QED BY <2>1, <2>2
<1>2. ASSUME NEW verify \in BOOLEAN, ApplySucceeds(q, verify)
      PROVE  Frozen(p) /\ Justified(p)
  <2>1. CASE p = q
    <3>1. patches'[p] = [patches[p] EXCEPT !.status = "applied"]
        BY <1>2, <2>1 DEF ApplySucceeds, MarkApplied
    <3>2. /\ Len(undo') = Len(undo) + 1 /\ Len(undo) \in Nat
          /\ undo'[Len(undo) + 1] =
               Applied(q, FileOf(q), snapshot(FileOf(q)))
        BY <1>2, LenProperties DEF ApplySucceeds, TypeOK
    <3>3. \E i \in 1..Len(undo') :
            undo'[i].patch = p /\ undo'[i].file = FileOf(p)
        BY <2>1, <3>2 DEF Applied
    <3> QED BY <3>1, <3>3, StatusOnly DEF Justified, Status
  <2>2. CASE p # q
      BY <1>2, <2>2, UnchangedStep DEF ApplySucceeds, MarkApplied
  <2> QED BY <2>1, <2>2
<1> QED BY <1>1, <1>2, UnchangedStep
    DEF apply_patch, PatchAlreadyApplied, ApplyRejected, ApplyRollsBack,
        ApplyAbandoned

(* The records of the first k patches of a batch are at the end of the new *)
(* undo stack.                                                             *)
LEMMA BatchRecorded ==
    ASSUME TypeInv, NEW t \in TxIds, Active(t), CasPasses, NEW k \in 0..Count,
           undo' = undo \o Records(k), NEW p \in StagedIds(k)
    PROVE  \E i \in 1..Len(undo') :
             undo'[i].patch = p /\ undo'[i].file = FileOf(p)
<1>1. Count \in Nat /\ Len(undo) \in Nat
    BY ActiveType, LenProperties DEF TypeInv, TypeOK
<1>2. PICK i \in 1..k : p = Staged(i)
    BY DEF StagedIds
<1>3. Records(k)[i] = Applied(p, FileOf(p), Snapshots[i])
    BY <1>1, <1>2, StagedType DEF Records
<1>4. Records(k) \in Seq(UndoPatchRecord) /\ Len(Records(k)) = k
    BY RecordsType
<1>5. /\ Len(undo') = Len(undo) + k
      /\ \A j \in 1..(Len(undo) + k) :
           undo'[j] = IF j <= Len(undo) THEN undo[j]
                                        ELSE Records(k)[j - Len(undo)]
    BY <1>4, ConcatProperties DEF TypeInv, TypeOK
<1>6. /\ Len(undo) + i \in 1..Len(undo')
      /\ undo'[Len(undo) + i] = Records(k)[i]
    BY <1>1, <1>2, <1>5
<1>7. /\ undo'[Len(undo) + i].patch = p
      /\ undo'[Len(undo) + i].file = FileOf(p)
    BY <1>3, <1>6 DEF Applied
<1> QED BY <1>6, <1>7

(* commit_transaction: also when marking one of the batch raises.          *)
LEMMA CommitStep ==
    ASSUME TypeInv, NEW t \in TxIds, commit_transaction(t),
           NEW p \in PatchIds, Known(p)
    PROVE  Frozen(p) /\ Justified(p)
<1> USE DEF TypeInv
<1>1. ASSUME NEW verify \in BOOLEAN, CommitSucceeds(t, verify)
      PROVE  Frozen(p) /\ Justified(p)
  <2>1. Count \in 0..Count
      BY <1>1, ActiveType DEF CommitSucceeds
  <2>2. CASE p \in StagedIds(Count)
    <3>1. patches'[p] = [patches[p] EXCEPT !.status = "applied"]
        BY <1>1, <2>2 DEF CommitSucceeds, MarkApplied
    <3>2. \E i \in 1..Len(undo') :
            undo'[i].patch = p /\ undo'[i].file = FileOf(p)
        BY <1>1, <2>1, <2>2, BatchRecorded DEF CommitSucceeds
    <3> QED BY <3>1, <3>2, StatusOnly DEF Justified, Status
  <2>3. CASE p \notin StagedIds(Count)
      BY <1>1, <2>3, UnchangedStep DEF CommitSucceeds, MarkApplied
  <2> QED BY <2>2, <2>3
<1>2. ASSUME NEW verify \in BOOLEAN, CommitMarkRaises(t, verify)
      PROVE  Frozen(p) /\ Justified(p)
  <2>1. PICK i \in 1..Count :
          /\ MarkError(Staged(i)) # "none"
          /\ undo' = undo \o Records(i)
          /\ patches' =
               IF MarkError(Staged(i)) = "E_PATCH_EXPIRED"
               THEN [MarkApplied(StagedIds(i - 1))
                       EXCEPT ![Staged(i)].status = "expired"]
               ELSE MarkApplied(StagedIds(i - 1))
      BY <1>2 DEF CommitMarkRaises
  <2>2. /\ Active(t) /\ CasPasses /\ Count \in Nat
        /\ Staged(i) \in PatchIds
      BY <1>2, ActiveType, StagedType DEF CommitMarkRaises
  <2>3. CASE /\ p = Staged(i) /\ p \notin StagedIds(i - 1)
             /\ MarkError(p) = "E_PATCH_EXPIRED"
    <3>1. patches'[p] = [patches[p] EXCEPT !.status = "expired"]
        BY <2>1, <2>3 DEF MarkApplied
    <3>2. is_expired(p)
        BY <2>3, MarkErrorCases
    <3> QED BY <3>1, <3>2, StatusOnly DEF Justified, Status, is_expired
  <2>4. CASE /\ p \in StagedIds(i - 1)
             /\ p = Staged(i) => MarkError(p) # "E_PATCH_EXPIRED"
    <3>1. patches'[p] = [patches[p] EXCEPT !.status = "applied"]
        BY <2>1, <2>2, <2>4 DEF MarkApplied
    <3>2. p \in StagedIds(i) /\ i \in 0..Count
        BY <2>2, <2>4 DEF StagedIds
    <3>3. \E j \in 1..Len(undo') :
            undo'[j].patch = p /\ undo'[j].file = FileOf(p)
        BY <2>1, <2>2, <3>2, BatchRecorded
    <3> QED BY <3>1, <3>3, StatusOnly DEF Justified, Status
  <2>5. CASE /\ p \notin StagedIds(i - 1)
             /\ p = Staged(i) => MarkError(p) # "E_PATCH_EXPIRED"
      BY <2>1, <2>2, <2>5, UnchangedStep DEF MarkApplied
  <2>6. ~ (p = Staged(i) /\ p \in StagedIds(i - 1))
      BY <2>2 DEF StagedOnce, StagedIds, Staged, Count
  <2> QED BY <2>3, <2>4, <2>5, <2>6
<1> QED BY <1>1, <1>2, UnchangedStep
    DEF commit_transaction, CommitRejected, CommitRollsBack,
        CommitRollbackRaises, TxNotFound

(* Every step: proposals never change, and what the cache says of one is   *)
(* justified.                                                              *)
LEMMA PatchStep ==
    ASSUME TypeInv, [Next]_vars, NEW p \in PatchIds, Known(p)
    PROVE  Frozen(p) /\ Justified(p)
<1> USE DEF TypeInv
<1>1. ASSUME NEW q \in PatchIds, NEW path \in Paths, NEW new \in Content,
             Proposes(q, path, new)
      PROVE  Frozen(p) /\ Justified(p)
    BY <1>1, UnchangedStep DEF Proposes, store, TypeOK, PatchesType
<1>2. CASE Tick
  <2>1. patches'[p] = [patches[p] EXCEPT !.age = Older(@, PatchTTL)]
      BY <1>2 DEF Tick, AgePatches
  <2>2. /\ patches[p] \in PatchProposal /\ patches'[p] \in PatchProposal
        /\ patches[p].age > PatchTTL => patches'[p].age > PatchTTL
      BY <2>1, KnownType, OlderType, PatchAssumption DEF PatchProposal, Older
  <2> QED BY <2>1, <2>2, PatchAssumption
          DEF Frozen, Justified, Known, PatchProposal
<1>3. CASE vars' = vars
    BY <1>3, UnchangedStep DEF vars
<1> QED BY <1>1, <1>2, <1>3, ApplyStep, CommitStep, UnchangedStep
    DEF Next, propose_edit, propose_line_edit, ProposeRejected,
        apply_patch_tx, Begin, Rollback, undo_last, Environment

(* A new proposal is one just made.                                        *)
LEMMA NewPatchProposed ==
    ASSUME TypeInv, [Next]_vars, NEW p \in PatchIds, ~ Known(p), Known(p)'
    PROVE  \E path \in Paths, new \in Content : Proposes(p, path, new)
<1> USE DEF TypeInv
<1>1. ASSUME NEW q \in PatchIds, NEW path \in Paths, NEW new \in Content,
             Proposes(q, path, new)
      PROVE  q = p
    BY <1>1 DEF Proposes, store, TypeOK, PatchesType, Known
<1>2. ASSUME NEW q \in PatchIds, apply_patch(q)
      PROVE  patches'[p] = patches[p]
  <2>1. CASE PatchUnavailable(q)
      BY <2>1 DEF PatchUnavailable, GetFails, TypeOK, PatchesType, Known
  <2>2. ASSUME NEW verify \in BOOLEAN, ApplySucceeds(q, verify)
        PROVE  patches'[p] = patches[p]
      BY <2>2, GetErrorCases DEF ApplySucceeds, MarkApplied, Pending
  <2> QED BY <1>2, <2>1, <2>2
      DEF apply_patch, PatchAlreadyApplied, ApplyRejected, ApplyRollsBack,
          ApplyAbandoned
<1>3. ASSUME NEW t \in TxIds, commit_transaction(t)
      PROVE  patches'[p] = patches[p]
  <2>1. ASSUME Active(t), NEW k \in 0..Count
        PROVE  p \notin StagedIds(k)
    <3>1. Count \in Nat
        BY <2>1, ActiveType
    <3> QED BY <2>1, <3>1, StagedType DEF StagedIds
  <2>2. ASSUME NEW verify \in BOOLEAN, CommitSucceeds(t, verify)
        PROVE  patches'[p] = patches[p]
    <3>1. Active(t) /\ Count \in 0..Count
        BY <2>2, ActiveType DEF CommitSucceeds
    <3> QED BY <2>1, <2>2, <3>1 DEF CommitSucceeds, MarkApplied
  <2>3. ASSUME NEW verify \in BOOLEAN, CommitMarkRaises(t, verify)
        PROVE  patches'[p] = patches[p]
    <3>1. Active(t) /\ Count \in Nat
        BY <2>3, ActiveType DEF CommitMarkRaises
    <3>2. PICK i \in 1..Count :
            patches' = IF MarkError(Staged(i)) = "E_PATCH_EXPIRED"
                       THEN [MarkApplied(StagedIds(i - 1))
                               EXCEPT ![Staged(i)].status = "expired"]
                       ELSE MarkApplied(StagedIds(i - 1))
        BY <2>3 DEF CommitMarkRaises
    <3>3. p # Staged(i) /\ p \notin StagedIds(i - 1)
        BY <2>1, <3>1, StagedType
    <3> QED BY <3>2, <3>3 DEF MarkApplied
  <2> QED BY <1>3, <2>2, <2>3
      DEF commit_transaction, CommitRejected, CommitRollsBack,
          CommitRollbackRaises, TxNotFound
<1>4. CASE Tick
    BY <1>4 DEF Tick, AgePatches, Known
<1> QED BY <1>1, <1>2, <1>3, <1>4
    DEF Next, vars, propose_edit, propose_line_edit, ProposeRejected, Known,
        apply_patch_tx, Begin, Rollback, undo_last, Environment

LEMMA NewPatchStep ==
    ASSUME TypeInv, [Next]_vars, NEW p \in PatchIds, ~ Known(p), Known(p)'
    PROVE  patches'[p].status = "pending"
<1>1. PICK path \in Paths, new \in Content : Proposes(p, path, new)
    BY NewPatchProposed
<1> QED BY <1>1 DEF Proposes, store, TypeInv, TypeOK, PatchesType

(* Every step: the undo stack only grows, a record keeps its patch, its    *)
(* file and its snapshot, and only the newest eligible one is reverted.    *)
LEMMA UndoStep ==
    ASSUME TypeInv, [Next]_vars, NEW i \in 1..Len(undo)
    PROVE  /\ i \in 1..Len(undo')
           /\ undo'[i].patch = undo[i].patch
           /\ undo'[i].file = undo[i].file
           /\ undo'[i].snap = undo[i].snap
           /\ undo'[i].reverted # undo[i].reverted =>
                \E filter \in Files \cup {AnyFile} : Newest(Eligible(filter), i)
<1> USE DEF TypeInv
<1>1. undo[i] \in UndoPatchRecord /\ Len(undo) \in Nat
    BY ElementOfSeq, LenProperties DEF TypeOK
<1> DEFINE Kept == /\ i \in 1..Len(undo')
                   /\ undo'[i].patch = undo[i].patch
                   /\ undo'[i].file = undo[i].file
                   /\ undo'[i].snap = undo[i].snap
                   /\ undo'[i].reverted # undo[i].reverted =>
                        \E filter \in Files \cup {AnyFile} :
                          Newest(Eligible(filter), i)
<1>2. ASSUME NEW q \in PatchIds, apply_patch(q)
      PROVE  Kept
  <2>1. ASSUME NEW verify \in BOOLEAN, ApplySucceeds(q, verify)
        PROVE  Kept
      BY <1>1, <2>1 DEF ApplySucceeds, TypeOK
  <2> QED BY <1>2, <2>1
      DEF apply_patch, PatchUnavailable, PatchAlreadyApplied, ApplyRejected,
          ApplyRollsBack, ApplyAbandoned
<1>3. ASSUME NEW t \in TxIds, commit_transaction(t)
      PROVE  Kept
  <2>1. ASSUME Active(t), CasPasses, NEW k \in 0..Count,
               undo' = undo \o Records(k)
        PROVE  Kept
    <3>1. Records(k) \in Seq(UndoPatchRecord) /\ Len(Records(k)) = k
        BY <2>1, RecordsType
    <3>2. /\ Len(undo') = Len(undo) + k
          /\ \A j \in 1..(Len(undo) + k) :
               undo'[j] = IF j <= Len(undo) THEN undo[j]
                                            ELSE Records(k)[j - Len(undo)]
        BY <2>1, <3>1, ConcatProperties DEF TypeOK
    <3>3. k \in Nat
        BY <2>1, ActiveType
    <3>4. i \in 1..Len(undo') /\ undo'[i] = undo[i]
        BY <1>1, <3>2, <3>3
    <3> QED BY <3>4
  <2>2. ASSUME NEW verify \in BOOLEAN, CommitSucceeds(t, verify)
        PROVE  Kept
    <3>1. Count \in 0..Count
        BY <2>2, ActiveType DEF CommitSucceeds
    <3> QED BY <2>1, <2>2, <3>1 DEF CommitSucceeds
  <2>3. ASSUME NEW verify \in BOOLEAN, CommitMarkRaises(t, verify)
        PROVE  Kept
    <3>1. Count \in Nat
        BY <2>3, ActiveType DEF CommitMarkRaises
    <3>2. PICK k \in 1..Count : undo' = undo \o Records(k)
        BY <2>3 DEF CommitMarkRaises
    <3> QED BY <2>1, <2>3, <3>1, <3>2 DEF CommitMarkRaises
  <2> QED BY <1>3, <2>2, <2>3
      DEF commit_transaction, CommitRejected, CommitRollsBack,
          CommitRollbackRaises, TxNotFound
<1>4. ASSUME NEW filter \in Files \cup {AnyFile}, undo_last(filter)
      PROVE  Kept
  <2>1. ASSUME NEW j \in Eligible(filter), Revert(j),
               \A k \in Eligible(filter) : k <= j
        PROVE  Kept
    <3>1. j \in 1..Len(undo)
        BY <2>1 DEF Eligible
    <3>2. undo' = [undo EXCEPT ![j] = [undo[j] EXCEPT !.reverted = TRUE]]
        BY <2>1 DEF Revert
    <3>3. Len(undo') = Len(undo)
        BY <3>1, <3>2 DEF TypeOK
    <3>4. CASE i = j
      <4>1. undo'[i] = [undo[i] EXCEPT !.reverted = TRUE]
          BY <3>1, <3>2, <3>4, LenProperties DEF TypeOK
      <4> QED BY <1>1, <2>1, <3>3, <3>4, <4>1 DEF UndoPatchRecord, Newest
    <3>5. CASE i # j
      <4>1. undo'[i] = undo[i]
          BY <3>1, <3>2, <3>5, LenProperties DEF TypeOK
      <4> QED BY <1>1, <3>3, <4>1
    <3> QED BY <3>4, <3>5
  <2> QED BY <1>4, <2>1 DEF undo_last, UndoReverts, UndoFails
<1> QED BY <1>2, <1>3, <1>4
    DEF Next, vars, propose_edit, propose_line_edit, Proposes,
        ProposeRejected, apply_patch_tx, Begin, Rollback, Environment, Tick

(* Every step: the staged patches are emptied, kept, or extended by one    *)
(* known patch.                                                            *)
LEMMA TxStep ==
    ASSUME TypeInv, [Next]_vars
    PROVE  \/ tx'.staged = <<>>
           \/ tx'.staged = tx.staged
           \/ \E p \in PatchIds : Known(p) /\ tx'.staged = Stage(p)
<1> USE DEF TypeInv
<1>1. Closed.staged = <<>>
    BY DEF Closed
<1>2. ASSUME Close \/ Prune
      PROVE  tx'.staged = <<>> \/ tx'.staged = tx.staged
    BY <1>1, <1>2 DEF Close, Prune, txVars
<1>3. ASSUME NEW p \in PatchIds, NEW t \in TxIds, Pending(p), StagePatch(p, t)
      PROVE  Known(p) /\ tx'.staged = Stage(p)
  <2>1. tx \in Transaction
      BY <1>3, ActiveType DEF StagePatch
  <2> QED BY <1>3, <2>1, GetErrorCases DEF Pending, StagePatch, Transaction
<1>4. CASE Tick
  <2>1. CASE tx = Closed
      BY <1>1, <1>4, <2>1 DEF Tick, AgeTx
  <2>2. CASE tx # Closed
      BY <1>4, <2>2 DEF Tick, AgeTx, TypeOK, TxType, Transaction
  <2> QED BY <2>1, <2>2
<1>5. ASSUME NEW q \in PatchIds, apply_patch(q)
      PROVE  tx' = tx
    BY <1>5
    DEF apply_patch, PatchUnavailable, PatchAlreadyApplied, ApplyRejected,
        ApplySucceeds, ApplyRollsBack, ApplyAbandoned, txVars
<1>6. ASSUME NEW t \in TxIds, commit_transaction(t)
      PROVE  tx'.staged = <<>> \/ tx'.staged = tx.staged
    BY <1>2, <1>6
    DEF commit_transaction, CommitRejected, CommitSucceeds, CommitMarkRaises,
        CommitRollsBack, CommitRollbackRaises, TxNotFound, txVars
<1>7. CASE Begin
    BY <1>7 DEF Begin, begin_transaction, BeginRejected, txVars
<1>8. ASSUME NEW t \in TxIds, Rollback(t)
      PROVE  tx'.staged = <<>> \/ tx'.staged = tx.staged
    BY <1>2, <1>8 DEF Rollback, rollback_transaction, TxNotFound
<1>9. ASSUME NEW p \in PatchIds, NEW t \in TxIds, apply_patch_tx(p, t)
      PROVE  \/ tx'.staged = <<>> \/ tx'.staged = tx.staged
             \/ Known(p) /\ tx'.staged = Stage(p)
    BY <1>2, <1>3, <1>9 DEF apply_patch_tx, TxNotFound, StageRaises, txVars
<1> QED BY <1>4, <1>5, <1>6, <1>7, <1>8, <1>9
    DEF Next, vars, propose_edit, propose_line_edit, Proposes,
        ProposeRejected, undo_last, Environment, txVars

(* Typing and StagedOnce are preserved together.                           *)
LEMMA TypeInvStep ==
    ASSUME TypeInv, [Next]_vars
    PROVE  TypeInv'
<1>1. TypeOK'
  <2>1. CASE vars' = vars
      BY <2>1 DEF TypeInv, TypeOK, vars
  <2> QED BY <2>1, ProposeType, ProposeRejectedType, ApplyType, ApplyTxType,
             BeginType, RollbackType, CommitType, UndoType, EnvironmentType
          DEF TypeInv, Next, propose_edit, propose_line_edit
<1>2. ASSUME tx'.staged = tx.staged
      PROVE  StagedOnce'
  <2>1. tx.staged \in Seq(PatchIds)
      BY StagedSeq DEF TypeInv
  <2>2. \A i \in 1..Len(tx.staged) : tx.staged[i] \in PatchIds
      BY <2>1, ElementOfSeq
  <2> QED BY <1>2, <2>2, PatchStep DEF TypeInv, StagedOnce, Frozen
<1>3. ASSUME NEW p \in PatchIds, Known(p), tx'.staged = Stage(p)
      PROVE  StagedOnce'
  <2>1. tx.staged \in Seq(PatchIds)
      BY StagedSeq DEF TypeInv
  <2>2. \A i \in 1..Len(tx.staged) : tx.staged[i] \in PatchIds
      BY <2>1, ElementOfSeq
  <2>3. CASE IsStaged(p)
      BY <1>2, <1>3, <2>3 DEF Stage
  <2>4. CASE ~ IsStaged(p)
    <3>1. tx'.staged = Append(tx.staged, p) /\ Len(tx.staged) \in Nat
        BY <1>3, <2>1, <2>4, LenProperties DEF Stage
    <3>2. \A i \in 1..Len(tx'.staged) :
            IF i = Len(tx.staged) + 1 THEN tx'.staged[i] = p
            ELSE /\ i \in 1..Len(tx.staged)
                 /\ tx'.staged[i] = tx.staged[i] /\ tx.staged[i] # p
        BY <2>1, <2>4, <3>1 DEF IsStaged
    <3>3. \A i \in 1..Len(tx'.staged) : patches'[tx'.staged[i]] # NoPatch
        BY <1>3, <2>2, <3>2, PatchStep DEF TypeInv, StagedOnce, Frozen, Known
    <3>4. \A i, j \in 1..Len(tx'.staged) :
            tx'.staged[i] = tx'.staged[j] => i = j
        BY <3>2 DEF TypeInv, StagedOnce
    <3> QED BY <3>3, <3>4 DEF StagedOnce, Known
  <2> QED BY <2>3, <2>4
<1>4. ASSUME tx'.staged = <<>>
      PROVE  StagedOnce'
    BY <1>4, EmptySeq DEF StagedOnce
<1>5. StagedOnce'
    BY <1>2, <1>3, <1>4, TxStep
<1> QED BY <1>1, <1>5 DEF TypeInv

-----------------------------------------------------------------------------
(* Theorems.                                                               *)

(* Whatever clients call, whoever edits the tree and whatever raises, the  *)
(* state stays well typed, and what commit_transaction will walk is made   *)
(* of patches the cache still knows, each once.                            *)
THEOREM TypeCorrect == Spec => [](TypeOK /\ StagedOnce)
<1>1. Init => TypeInv
  <2> SUFFICES ASSUME Init PROVE TypeInv
      OBVIOUS
  <2>1. NoReply \in ReplyType
      BY AnswerType DEF NoReply
  <2>2. TypeOK
      BY <2>1, EmptySeq DEF Init, TypeOK, DiskType, PatchesType, TxType
  <2>3. StagedOnce
      BY EmptySeq DEF Init, StagedOnce, Closed
  <2> QED BY <2>2, <2>3 DEF TypeInv
<1>2. TypeInv /\ [Next]_vars => TypeInv'
    BY TypeInvStep
<1>3. TypeInv => TypeOK /\ StagedOnce
    BY DEF TypeInv
<1> QED BY <1>1, <1>2, <1>3, PTL DEF Spec

(* Expiry is final: a patch once answered E_PATCH_EXPIRED is past its TTL  *)
(* for good, also when a commit found it expired.                          *)
THEOREM ExpiryFinal == Spec => []ExpiredIsFinal
<1>1. Init => ExpiredIsFinal
    BY DEF Init, ExpiredIsFinal, Known
<1>2. TypeInv /\ ExpiredIsFinal /\ [Next]_vars => ExpiredIsFinal'
  <2> SUFFICES ASSUME TypeInv, ExpiredIsFinal, [Next]_vars,
                      NEW p \in PatchIds, Known(p)',
                      patches'[p].status = "expired"
               PROVE  patches'[p].age > PatchTTL
      BY DEF ExpiredIsFinal, is_expired
  <2>1. CASE Known(p)
      BY <2>1, PatchStep DEF Justified, ExpiredIsFinal, is_expired
  <2>2. CASE ~ Known(p)
      BY <2>2, NewPatchStep
  <2> QED BY <2>1, <2>2
<1>3. Spec => []TypeInv
    BY TypeCorrect, PTL DEF TypeInv
<1> QED BY <1>1, <1>2, <1>3, PTL DEF Spec

(* Whatever is refused as already applied has a record on the undo stack:  *)
(* apply_patch and commit_transaction record before they mark.             *)
THEOREM AppliedRecorded == Spec => []AppliedHasRecord
<1>1. Init => AppliedHasRecord
    BY DEF Init, AppliedHasRecord, Known
<1>2. TypeInv /\ AppliedHasRecord /\ [Next]_vars => AppliedHasRecord'
  <2> SUFFICES ASSUME TypeInv, AppliedHasRecord, [Next]_vars,
                      NEW p \in PatchIds, Known(p)',
                      patches'[p].status = "applied"
               PROVE  \E i \in 1..Len(undo') :
                        /\ undo'[i].patch = p
                        /\ undo'[i].file = patches'[p].path.file
      BY DEF AppliedHasRecord
  <2>1. Known(p)
      BY NewPatchStep
  <2>2. Frozen(p) /\ Justified(p)
      BY <2>1, PatchStep
  <2>3. CASE patches[p].status = "applied"
    <3>1. PICK i \in 1..Len(undo) :
            undo[i].patch = p /\ undo[i].file = FileOf(p)
        BY <2>1, <2>3 DEF AppliedHasRecord
    <3>2. /\ i \in 1..Len(undo')
          /\ undo'[i].patch = p /\ undo'[i].file = patches'[p].path.file
        BY <2>2, <3>1, UndoStep DEF Frozen
    <3> QED BY <3>2
  <2>4. CASE patches[p].status # "applied"
      BY <2>2, <2>4 DEF Frozen, Justified
  <2> QED BY <2>3, <2>4
<1>3. Spec => []TypeInv
    BY TypeCorrect, PTL DEF TypeInv
<1> QED BY <1>1, <1>2, <1>3, PTL DEF Spec

(* No staging directory outlives its transaction, and none is removed      *)
(* under an open one.                                                      *)
THEOREM StagingClean == Spec => []StagingFollowsTx
<1>1. Init => StagingFollowsTx
    BY DEF Init, StagingFollowsTx
<1>2. TypeInv /\ StagingFollowsTx /\ [Next]_vars => StagingFollowsTx'
  <2> SUFFICES ASSUME TypeInv, StagingFollowsTx, [Next]_vars
               PROVE  StagingFollowsTx'
      OBVIOUS
  <2>0. Closed.tx_id = NoTx
      BY DEF Closed
  <2>1. ASSUME tx' = tx, stagingDirs' = stagingDirs
        PROVE  StagingFollowsTx'
      BY <2>1 DEF StagingFollowsTx
  <2>2. ASSUME Close \/ Prune
        PROVE  StagingFollowsTx'
      BY <2>1, <2>2 DEF StagingFollowsTx, Close, Prune, txVars
  <2>3. ASSUME NEW t \in TxIds, begin_transaction(t)
        PROVE  StagingFollowsTx'
    <3>1. tx'.tx_id = t /\ tx' # Closed
        BY <2>0, <2>3, TxAssumption DEF begin_transaction
    <3>2. stagingDirs \ {tx.tx_id} = {}
        BY DEF StagingFollowsTx
    <3> QED BY <2>3, <3>1, <3>2 DEF begin_transaction, StagingFollowsTx
  <2>4. ASSUME tx # Closed, tx' = [tx EXCEPT !.staged = tx'.staged]
                         \/ tx' = [tx EXCEPT !.age = tx'.age],
               stagingDirs' = stagingDirs
        PROVE  StagingFollowsTx'
    <3>1. tx \in Transaction
        BY <2>4 DEF TypeInv, TypeOK, TxType
    <3>2. tx'.tx_id = tx.tx_id /\ tx' # Closed
        BY <2>0, <2>4, <3>1, TxAssumption DEF Transaction
    <3> QED BY <2>4, <3>2 DEF StagingFollowsTx
  <2>5. ASSUME NEW p \in PatchIds, NEW t \in TxIds, StagePatch(p, t)
        PROVE  StagingFollowsTx'
      BY <2>4, <2>5, ActiveType
      DEF TypeInv, StagePatch, Active, Transaction
  <2>6. CASE Tick
      BY <2>1, <2>4, <2>6 DEF Tick, AgeTx, TypeInv, TypeOK, TxType, Transaction
  <2>7. ASSUME NEW p \in PatchIds, apply_patch(p)
        PROVE  StagingFollowsTx'
      BY <2>1, <2>7
      DEF apply_patch, PatchUnavailable, PatchAlreadyApplied, ApplyRejected,
          ApplySucceeds, ApplyRollsBack, ApplyAbandoned, txVars
  <2>8. ASSUME NEW t \in TxIds, commit_transaction(t)
        PROVE  StagingFollowsTx'
      BY <2>1, <2>2, <2>8
      DEF commit_transaction, CommitRejected, CommitSucceeds,
          CommitMarkRaises, CommitRollsBack, CommitRollbackRaises,
          TxNotFound, txVars
  <2>9. ASSUME NEW p \in PatchIds, NEW t \in TxIds, apply_patch_tx(p, t)
        PROVE  StagingFollowsTx'
      BY <2>1, <2>2, <2>5, <2>9
      DEF apply_patch_tx, TxNotFound, StageRaises, txVars
  <2>10. CASE Begin \/ \E t \in TxIds : Rollback(t)
      BY <2>1, <2>2, <2>3, <2>10
      DEF Begin, BeginRejected, Rollback, rollback_transaction, TxNotFound,
          txVars
  <2> QED BY <2>1, <2>6, <2>7, <2>8, <2>9, <2>10
      DEF Next, vars, propose_edit, propose_line_edit, Proposes,
          ProposeRejected, undo_last, Environment, txVars
<1>3. Spec => []TypeInv
    BY TypeCorrect, PTL DEF TypeInv
<1> QED BY <1>1, <1>2, <1>3, PTL DEF Spec

-----------------------------------------------------------------------------
(* What a call does to the text of the tree.                               *)

(* A batch of writes leaves a file alone or gives it the content of the    *)
(* last write to it.                                                       *)
LEMMA OverwriteCases ==
    ASSUME NEW d, NEW target, NEW content, NEW k \in Nat, NEW f \in Files
    PROVE  \/ /\ ~ \E i \in 1..k : LastFor(f, target, i, k)
              /\ Overwrite(d, target, content, k)[f] = d[f]
           \/ \E i \in 1..k :
                /\ LastFor(f, target, i, k)
                /\ Overwrite(d, target, content, k)[f] = content[i]
<1>1. CASE \E i \in 1..k : LastFor(f, target, i, k)
  <2> DEFINE last == CHOOSE i \in 1..k : LastFor(f, target, i, k)
  <2>1. last \in 1..k /\ LastFor(f, target, last, k)
      BY <1>1
  <2>2. Overwrite(d, target, content, k)[f] = content[last]
      BY <1>1 DEF Overwrite
  <2> QED BY <2>1, <2>2
<1>2. CASE ~ \E i \in 1..k : LastFor(f, target, i, k)
    BY <1>2 DEF Overwrite
<1> QED BY <1>1, <1>2

LEMMA SameContent ==
    ASSUME NEW f \in Files, disk'[f] = disk[f]
    PROVE  SameText(f) /\ GivenBack(f)
BY DEF SameText, GivenBack

(* What git gives back has the text that was there, and bytes git made.    *)
LEMMA SameRestored ==
    ASSUME TypeOK, NEW f \in Files, Exists(f), disk'[f] = snapshot(f)
    PROVE  SameText(f) /\ GivenBack(f)
<1>1. disk[f] \in Content
    BY DEF TypeOK, DiskType, Exists
<1>2. GivenBack(f)
    BY DEF GivenBack, snapshot
<1>3. SameText(f)
    BY <1>1, GitAssumption, ContentAssumption DEF SameText, snapshot
<1> QED BY <1>2, <1>3

(* Rolling back every write of a batch gives back every file, also one the *)
(* batch wrote more than once.                                             *)
LEMMA RollbackRestores ==
    ASSUME TypeInv, NEW t \in TxIds, Active(t), CasPasses,
           NEW k \in 0..Count, disk' = RolledBack(k, k), NEW f \in Files
    PROVE  SameText(f) /\ GivenBack(f)
<1>1. Count \in Nat /\ k \in Nat
    BY ActiveType DEF TypeInv
<1>2. CASE ~ \E i \in 1..k : LastFor(f, Target, i, k)
  <2>1. Wrote(k)[f] = disk[f]
      BY <1>1, <1>2, OverwriteCases DEF Wrote
  <2>2. RolledBack(k, k)[f] = Wrote(k)[f]
      BY <1>1, <1>2, OverwriteCases DEF RolledBack
  <2> QED BY <2>1, <2>2, SameContent
<1>3. CASE \E i \in 1..k : LastFor(f, Target, i, k)
  <2>1. PICK i \in 1..k : /\ LastFor(f, Target, i, k)
                          /\ RolledBack(k, k)[f] = Snapshots[i]
      BY <1>1, <1>3, OverwriteCases DEF RolledBack
  <2>2. i \in 1..Count /\ Target[i] = f
      BY <1>1, <2>1 DEF LastFor
  <2>3. Snapshots[i] = snapshot(f) /\ Exists(f)
      BY <2>2 DEF Snapshots, CasPasses, CasError
  <2> QED BY <2>1, <2>3, SameRestored DEF TypeInv
<1> QED BY <1>2, <1>3

(* Answers are told apart by their outcome.                                *)
LEMMA OutcomeOf ==
    ASSUME NEW op, NEW out, NEW ids, reply' = Answer(op, out, ids)
    PROVE  reply'.op = op /\ reply'.out = out /\ reply'.ids = ids
BY DEF Answer

LEMMA CommitRefused ==
    ASSUME TypeInv, NEW t \in TxIds, commit_transaction(t),
           reply'.out \in RestoringCodes, NEW f \in Files
    PROVE  SameText(f) /\ GivenBack(f)
<1> USE DEF TypeInv, RestoringCodes
<1>1. CASE CommitRejected(t)
    BY <1>1, SameContent DEF CommitRejected
<1>2. ASSUME NEW verify \in BOOLEAN, CommitSucceeds(t, verify)
      PROVE  FALSE
    BY <1>2, OutcomeOf DEF CommitSucceeds
<1>3. ASSUME NEW verify \in BOOLEAN, CommitMarkRaises(t, verify)
      PROVE  FALSE
  <2>1. PICK i \in 1..Count :
          Fail("commit_transaction", MarkError(Staged(i)))
      BY <1>3 DEF CommitMarkRaises
  <2>2. Staged(i) \in PatchIds
      BY <1>3, StagedType DEF CommitMarkRaises
  <2>3. MarkError(Staged(i)) \notin RestoringCodes
      BY <2>2, MarkErrorCases
  <2> QED BY <2>1, <2>3, OutcomeOf DEF Fail
<1>4. ASSUME NEW verify \in BOOLEAN, CommitRollsBack(t, verify)
      PROVE  SameText(f) /\ GivenBack(f)
    BY <1>4, RollbackRestores DEF CommitRollsBack
<1>5. ASSUME NEW verify \in BOOLEAN, CommitRollbackRaises(t, verify)
      PROVE  FALSE
    BY <1>5, OutcomeOf DEF CommitRollbackRaises, Fail
<1>6. CASE /\ TxNotFound("commit_transaction", t)
           /\ UNCHANGED <<disk, patches, undo>>
    BY <1>6, SameContent
<1> QED BY <1>1, <1>2, <1>3, <1>4, <1>5, <1>6 DEF commit_transaction

LEMMA ApplyRefused ==
    ASSUME TypeInv, NEW p \in PatchIds, apply_patch(p),
           reply'.out \in RestoringCodes, NEW f \in Files
    PROVE  SameText(f) /\ GivenBack(f)
<1> USE DEF TypeInv, RestoringCodes
<1>1. ASSUME NEW verify \in BOOLEAN, ApplySucceeds(p, verify)
      PROVE  FALSE
    BY <1>1, OutcomeOf DEF ApplySucceeds
<1>2. CASE ApplyAbandoned(p)
    BY <1>2, OutcomeOf DEF ApplyAbandoned, Fail
<1>3. CASE ApplyRollsBack(p)
  <2>1. Exists(FileOf(p)) /\ FileOf(p) \in Files
      BY <1>3, GetErrorCases, KnownType DEF ApplyRollsBack, Swappable, Pending
  <2>2. disk' = Replace(FileOf(p), snapshot(FileOf(p)))
      BY <1>3 DEF ApplyRollsBack
  <2>3. CASE f = FileOf(p)
    <3>1. disk'[f] = snapshot(f)
        BY <2>1, <2>2, <2>3 DEF Replace, TypeOK, DiskType
    <3> QED BY <2>1, <2>3, <3>1, SameRestored
  <2>4. CASE f # FileOf(p)
      BY <2>2, <2>4, SameContent DEF Replace, TypeOK, DiskType
  <2> QED BY <2>3, <2>4
<1> QED BY <1>1, <1>2, <1>3, SameContent
    DEF apply_patch, PatchUnavailable, PatchAlreadyApplied, ApplyRejected

(* An answer that says nothing was changed, or that all was rolled back,   *)
(* is true of the bytes of every file, up to what git converts.            *)
THEOREM RefusalsRestore == Spec => RefusedLeavesText
<1>1. TypeInv /\ [Next]_vars =>
        [reply'.out \in RestoringCodes => \A f \in Files : GivenBack(f)]_vars
  <2> SUFFICES ASSUME TypeInv, Next, reply'.out \in RestoringCodes,
                      NEW f \in Files
               PROVE  GivenBack(f)
      OBVIOUS
  <2>1. ASSUME NEW filter \in Files \cup {AnyFile}, undo_last(filter)
        PROVE  GivenBack(f)
    <3>1. ASSUME NEW i \in Eligible(filter), Revert(i)
          PROVE  FALSE
        BY <3>1 DEF Revert, Fail, Answer, RestoringCodes
    <3> QED BY <2>1, <3>1, SameContent DEF undo_last, UndoReverts, UndoFails
  <2>2. ASSUME NEW p \in PatchIds, NEW t \in TxIds, apply_patch_tx(p, t)
        PROVE  GivenBack(f)
    <3>1. ~ StagePatch(p, t) /\ ~ StageRaises(p, t)
        BY DEF StagePatch, StageRaises, Fail, Answer, RestoringCodes
    <3> QED BY <2>2, <3>1, SameContent DEF apply_patch_tx
  <2>3. ASSUME NEW g \in Files, ExternalEdit(g)
        PROVE  FALSE
      BY <2>3, OutcomeOf DEF ExternalEdit, NoReply, RestoringCodes
  <2> QED BY <2>1, <2>2, <2>3, ApplyRefused, CommitRefused, SameContent
      DEF Next, propose_edit, propose_line_edit, Proposes, ProposeRejected,
          Begin, Rollback, Environment, Tick
<1>2. Spec => []TypeInv
    BY TypeCorrect, PTL DEF TypeInv
<1> QED BY <1>1, <1>2, PTL DEF Spec, RefusedLeavesText

(* Undo never reverts a record under a younger one of the same file.       *)
THEOREM UndoLifo == Spec => UndoIsLifoPerFile
<1> DEFINE Lifo == \A i \in 1..Len(undo) :
                     undo'[i].reverted /\ ~ undo[i].reverted =>
                       \A j \in (i + 1)..Len(undo) :
                         undo[j].file = undo[i].file => undo[j].reverted
<1>1. TypeInv /\ [Next]_vars => [Lifo]_vars
  <2> SUFFICES ASSUME TypeInv, Next,
                      NEW i \in 1..Len(undo),
                      undo'[i].reverted, ~ undo[i].reverted,
                      NEW j \in (i + 1)..Len(undo),
                      undo[j].file = undo[i].file, ~ undo[j].reverted
               PROVE  FALSE
      BY DEF Lifo
  <2>1. PICK filter \in Files \cup {AnyFile} : Newest(Eligible(filter), i)
      BY UndoStep
  <2>2. filter \in {AnyFile, undo[i].file}
      BY <2>1 DEF Newest, Eligible
  <2>3. Len(undo) \in Nat
      BY LenProperties DEF TypeInv, TypeOK
  <2>4. j \in Eligible(filter)
      BY <2>2, <2>3 DEF Eligible
  <2>5. j <= i
      BY <2>1, <2>4 DEF Newest
  <2> QED BY <2>3, <2>5
<1>2. Spec => []TypeInv
    BY TypeCorrect, PTL DEF TypeInv
<1> QED BY <1>1, <1>2, PTL DEF Spec, UndoIsLifoPerFile, Lifo

-----------------------------------------------------------------------------
(* Compare and swap, end to end.                                           *)

(* f gets the content of a patch that was computed from its very text.     *)
Swaps(f) ==
    \E p \in PatchIds :
        /\ Known(p) /\ FileOf(p) = f
        /\ Exists(f) /\ patches[p].base = Normalize[disk[f]]
        /\ disk'[f] = patches[p].new

LEMMA ApplySwaps ==
    ASSUME TypeInv, NEW p \in PatchIds, apply_patch(p), NEW f \in Files
    PROVE  SameText(f) \/ Swaps(f)
<1> USE DEF TypeInv
<1>1. ASSUME Pending(p), Swappable(p), disk' = Swapped(p)
      PROVE  SameText(f) \/ Swaps(f)
  <2>1. Known(p) /\ FileOf(p) \in Files
      BY <1>1, GetErrorCases, KnownType DEF Pending
  <2>2. CASE f = FileOf(p)
    <3>1. disk'[f] = patches[p].new
        BY <1>1, <2>1, <2>2 DEF Swapped, Replace, TypeOK, DiskType
    <3> QED BY <1>1, <2>1, <2>2, <3>1 DEF Swappable, HashMatches, Swaps
  <2>3. CASE f # FileOf(p)
      BY <1>1, <2>3, SameContent DEF Swapped, Replace, TypeOK, DiskType
  <2> QED BY <2>2, <2>3
<1>2. CASE ApplyRollsBack(p)
  <2>1. reply'.out \in RestoringCodes
      BY <1>2, OutcomeOf DEF ApplyRollsBack, Fail, RestoringCodes
  <2> QED BY <2>1, ApplyRefused
<1> QED BY <1>1, <1>2, SameContent
    DEF apply_patch, PatchUnavailable, PatchAlreadyApplied, ApplyRejected,
        ApplySucceeds, ApplyAbandoned

(* Every file after a part of the batch, rolled back in part.              *)
LEMMA BatchSwaps ==
    ASSUME TypeInv, NEW t \in TxIds, Active(t), CasPasses,
           NEW k \in 0..Count, NEW r \in 0..Count,
           disk' = Wrote(k) \/ disk' = RolledBack(k, r), NEW f \in Files
    PROVE  SameText(f) \/ Swaps(f)
<1>1. Count \in Nat /\ k \in Nat /\ r \in Nat
    BY ActiveType DEF TypeInv
<1>2. ASSUME disk'[f] = Wrote(k)[f]
      PROVE  SameText(f) \/ Swaps(f)
  <2>1. CASE Wrote(k)[f] = disk[f]
      BY <1>2, <2>1, SameContent
  <2>2. ASSUME NEW i \in 1..k, LastFor(f, Target, i, k),
               Wrote(k)[f] = NewContent[i]
        PROVE  Swaps(f)
    <3>1. i \in 1..Count /\ Target[i] = f
        BY <1>1, <2>2 DEF LastFor
    <3>2. Exists(f) /\ patches[Staged(i)].base = Normalize[disk[f]]
        BY <3>1 DEF CasPasses, CasError, HashMatches
    <3>3. /\ Staged(i) \in PatchIds /\ Known(Staged(i))
          /\ FileOf(Staged(i)) = f
        BY <3>1, StagedType
    <3>4. disk'[f] = patches[Staged(i)].new
        BY <1>2, <2>2, <3>1 DEF NewContent
    <3> QED BY <3>2, <3>3, <3>4 DEF Swaps
  <2> QED BY <1>1, <2>1, <2>2, OverwriteCases DEF Wrote
<1>3. CASE disk' = Wrote(k)
    BY <1>2, <1>3
<1>4. CASE disk' = RolledBack(k, r)
  <2>1. CASE RolledBack(k, r)[f] = Wrote(k)[f]
      BY <1>2, <1>4, <2>1
  <2>2. ASSUME NEW i \in 1..r, LastFor(f, Target, i, r),
               RolledBack(k, r)[f] = Snapshots[i]
        PROVE  SameText(f)
    <3>1. i \in 1..Count /\ Target[i] = f
        BY <1>1, <2>2 DEF LastFor
    <3>2. Snapshots[i] = snapshot(f) /\ Exists(f)
        BY <3>1 DEF Snapshots, CasPasses, CasError
    <3> QED BY <1>4, <2>2, <3>2, SameRestored DEF TypeInv
  <2> QED BY <1>1, <2>1, <2>2, OverwriteCases DEF RolledBack
<1> QED BY <1>3, <1>4

LEMMA CommitSwaps ==
    ASSUME TypeInv, NEW t \in TxIds, commit_transaction(t), NEW f \in Files
    PROVE  SameText(f) \/ Swaps(f)
<1> USE DEF TypeInv
<1>1. ASSUME NEW verify \in BOOLEAN,
             CommitSucceeds(t, verify) \/ CommitMarkRaises(t, verify)
      PROVE  SameText(f) \/ Swaps(f)
  <2>1. /\ Active(t) /\ CasPasses /\ disk' = Wrote(Count)
        /\ Count \in 0..Count
      BY <1>1, ActiveType DEF CommitSucceeds, CommitMarkRaises
  <2> QED BY <2>1, BatchSwaps
<1>2. ASSUME NEW verify \in BOOLEAN, CommitRollsBack(t, verify)
      PROVE  SameText(f) \/ Swaps(f)
    BY <1>2, BatchSwaps DEF CommitRollsBack
<1>3. ASSUME NEW verify \in BOOLEAN, CommitRollbackRaises(t, verify)
      PROVE  SameText(f) \/ Swaps(f)
  <2>1. Active(t) /\ CasPasses /\ Count \in Nat
      BY <1>3, ActiveType DEF CommitRollbackRaises
  <2>2. PICK k \in 1..Count, r \in 0..(Count - 1) : disk' = RolledBack(k, r)
      BY <1>3 DEF CommitRollbackRaises
  <2>3. k \in 0..Count /\ r \in 0..Count
      BY <2>1
  <2> QED BY <2>1, <2>2, <2>3, BatchSwaps
<1> QED BY <1>1, <1>2, <1>3, SameContent
    DEF commit_transaction, CommitRejected, TxNotFound

(* When paths are relative to the workspace, apply_patch and               *)
(* commit_transaction change the text of a file only into the content of a *)
(* patch computed from the text it replaces, whatever they answer.         *)
THEOREM CompareAndSwap ==
    ASSUME \A path \in Paths : ~ path.abs
    PROVE  Spec => WritesReplaceBase
<1>1. TypeInv /\ [Next]_vars =>
        [reply'.op \in {"apply_patch", "commit_transaction"} =>
           \A f \in Files : SameText(f) \/ Swaps(f)]_vars
  <2> SUFFICES ASSUME TypeInv, Next, NEW f \in Files,
                      reply'.op \in {"apply_patch", "commit_transaction"}
               PROVE  SameText(f) \/ Swaps(f)
      OBVIOUS
  <2>1. ASSUME NEW p \in PatchIds, NEW t \in TxIds, apply_patch_tx(p, t)
        PROVE  SameText(f)
    <3>1. CASE Pending(p) /\ (StagePatch(p, t) \/ StageRaises(p, t))
      <4>1. patches[p].path \in Paths
          BY <3>1, GetErrorCases, KnownType
          DEF Pending, TypeInv, PatchProposal
      <4> QED BY <3>1, <4>1, SameContent DEF StagePatch, StageRaises
    <3> QED BY <2>1, <3>1, SameContent DEF apply_patch_tx
  <2>2. ASSUME NEW filter \in Files \cup {AnyFile}, undo_last(filter)
        PROVE  FALSE
    <3>1. reply'.op = "undo_last"
        BY <2>2 DEF undo_last, UndoReverts, UndoFails, Revert, Fail, Answer
    <3> QED BY <3>1
  <2>3. ASSUME NEW g \in Files, ExternalEdit(g)
        PROVE  FALSE
      BY <2>3, OutcomeOf DEF ExternalEdit, NoReply
  <2> QED BY <2>1, <2>2, <2>3, ApplySwaps, CommitSwaps, SameContent
      DEF Next, propose_edit, propose_line_edit, Proposes, ProposeRejected,
          Begin, Rollback, Environment, Tick
<1>2. Spec => []TypeInv
    BY TypeCorrect, PTL DEF TypeInv
<1> QED BY <1>1, <1>2, PTL DEF Spec, WritesReplaceBase, Swaps

-----------------------------------------------------------------------------
(* Success can be undone.                                                  *)

(* The newest live record of f would give back the bytes f has now, as git *)
(* keeps them.                                                             *)
Undoable(f) ==
    \E i \in 1..Len(undo') :
        /\ Newest(Eligible(f)', i)
        /\ undo'[i].snap = GitClean[disk[f]]

(* What git gives back has the text of what it was handed.                 *)
LEMMA SnapshotText ==
    ASSUME TypeOK, NEW f \in Files, Exists(f)
    PROVE  Normalize[snapshot(f)] = Normalize[disk[f]]
BY GitAssumption DEF TypeOK, DiskType, Exists, snapshot

LEMMA ApplyUndoable ==
    ASSUME TypeOK, NEW p \in PatchIds, NEW verify \in BOOLEAN,
           ApplySucceeds(p, verify), NEW f \in Files, disk'[f] # disk[f]
    PROVE  Undoable(f)
<1>1. f = FileOf(p) /\ Exists(f)
    BY DEF ApplySucceeds, Swapped, Swappable, Replace, TypeOK, DiskType
<1> DEFINE n == Len(undo) + 1
<1>2. /\ Len(undo') = n /\ n \in Nat
      /\ undo'[n] = Applied(p, f, snapshot(f))
    BY <1>1, LenProperties DEF ApplySucceeds, TypeOK
<1>3. n \in 1..Len(undo') /\ Newest(Eligible(f)', n)
    BY <1>2 DEF Newest, Eligible, Applied
<1>4. undo'[n].snap = GitClean[disk[f]]
    BY <1>1, <1>2 DEF Applied, snapshot
<1> QED BY <1>3, <1>4 DEF Undoable

LEMMA CommitUndoable ==
    ASSUME TypeInv, NEW t \in TxIds, NEW verify \in BOOLEAN,
           CommitSucceeds(t, verify), NEW f \in Files, disk'[f] # disk[f]
    PROVE  Undoable(f)
<1> USE DEF TypeInv
<1>1. /\ Active(t) /\ CasPasses /\ disk' = Wrote(Count)
      /\ undo' = undo \o Records(Count)
      /\ Count \in Nat /\ Count \in 0..Count
    BY ActiveType DEF CommitSucceeds
<1>2. PICK i \in 1..Count : LastFor(f, Target, i, Count)
    BY <1>1, OverwriteCases DEF Wrote
<1>3. Target[i] = f /\ \A j \in 1..Count : j > i => Target[j] # f
    BY <1>2 DEF LastFor
<1> DEFINE n == Len(undo) + i
<1>4. Records(Count) \in Seq(UndoPatchRecord) /\ Len(Records(Count)) = Count
    BY <1>1, RecordsType
<1>5. /\ Len(undo') = Len(undo) + Count
      /\ \A j \in 1..(Len(undo) + Count) :
           undo'[j] = IF j <= Len(undo) THEN undo[j]
                      ELSE Records(Count)[j - Len(undo)]
  <2>1. undo \in Seq(UndoPatchRecord)
      BY DEF TypeOK
  <2> DEFINE done == undo \o Records(Count)
  <2>2. /\ Len(done) = Len(undo) + Len(Records(Count))
        /\ \A j \in 1..(Len(undo) + Len(Records(Count))) :
             done[j] = IF j <= Len(undo) THEN undo[j]
                       ELSE Records(Count)[j - Len(undo)]
      BY <1>4, <2>1, ConcatProperties
  <2> QED BY <1>1, <1>4, <2>2
<1>0. Len(undo) \in Nat
    BY LenProperties DEF TypeOK
<1>6. ASSUME NEW j \in 1..Count
      PROVE  /\ ~ undo'[Len(undo) + j].reverted
             /\ undo'[Len(undo) + j].file = Target[j]
             /\ undo'[Len(undo) + j].snap = Snapshots[j]
  <2>1. undo'[Len(undo) + j] = Records(Count)[j]
      BY <1>0, <1>1, <1>5
  <2>2. Records(Count)[j] = Applied(Staged(j), Target[j], Snapshots[j])
      BY DEF Records
  <2> QED BY <2>1, <2>2 DEF Applied
<1>7. n \in 1..Len(undo') /\ n \in Eligible(f)'
  <2>1. ~ undo'[n].reverted /\ undo'[n].file = f
      BY <1>3, <1>6
  <2> QED BY <1>0, <1>1, <1>5, <2>1 DEF Eligible
<1>8. ASSUME NEW m \in Eligible(f)'
      PROVE  m <= n
  <2>1. m \in 1..Len(undo') /\ undo'[m].file = f
      BY UndoAssumption DEF Eligible
  <2>2. CASE m > n
    <3>1. m - Len(undo) \in 1..Count /\ m - Len(undo) > i
        BY <1>0, <1>1, <1>5, <2>1, <2>2
    <3>2. undo'[Len(undo) + (m - Len(undo))].file = Target[m - Len(undo)]
        BY <1>6, <3>1
    <3>3. Len(undo) + (m - Len(undo)) = m
        BY <1>0, <1>1, <1>5, <2>1
    <3> QED BY <1>3, <2>1, <3>1, <3>2, <3>3
  <2> QED BY <1>0, <1>1, <1>5, <2>1, <2>2
<1>9. undo'[n].snap = GitClean[disk[f]]
  <2>1. Exists(f) /\ Snapshots[i] = snapshot(f)
      BY <1>1, <1>3 DEF CasPasses, CasError, Snapshots
  <2>2. undo'[n].snap = Snapshots[i]
      BY <1>6
  <2> QED BY <2>1, <2>2 DEF snapshot
<1> QED BY <1>7, <1>8, <1>9 DEF Undoable, Newest

(* After a successful apply or commit, undo_last(f) has a record that      *)
(* restores the bytes f had before, up to what git converts, also when     *)
(* several patches of the batch were for f.                                *)
THEOREM SuccessUndoable == Spec => SuccessIsUndoable
<1>1. TypeInv /\ [Next]_vars =>
        [reply'.out \in {"applied", "committed"} =>
           \A f \in Files : disk'[f] # disk[f] => Undoable(f)]_vars
  <2> SUFFICES ASSUME TypeInv, Next,
                      reply'.out \in {"applied", "committed"},
                      NEW f \in Files, disk'[f] # disk[f]
               PROVE  Undoable(f)
      OBVIOUS
  <2>1. ASSUME NEW p \in PatchIds, apply_patch(p)
        PROVE  Undoable(f)
      BY <2>1, ApplyUndoable
      DEF TypeInv, apply_patch, PatchUnavailable, PatchAlreadyApplied,
          ApplyRejected, GetFails, ApplyRollsBack, ApplyAbandoned, Fail, Answer
  <2>2. ASSUME NEW t \in TxIds, commit_transaction(t)
        PROVE  Undoable(f)
    <3>1. ASSUME NEW verify \in BOOLEAN, CommitMarkRaises(t, verify)
          PROVE  FALSE
      <4>1. PICK i \in 1..Count :
              Fail("commit_transaction", MarkError(Staged(i)))
          BY <3>1 DEF CommitMarkRaises
      <4>2. Staged(i) \in PatchIds
          BY <3>1, StagedType DEF CommitMarkRaises
      <4> QED BY <4>1, <4>2, MarkErrorCases, OutcomeOf DEF Fail
    <3> QED BY <2>2, <3>1, CommitUndoable
        DEF commit_transaction, CommitRejected, CommitRollsBack,
            CommitRollbackRaises, TxNotFound, Fail, Answer
  <2>3. ASSUME NEW p \in PatchIds, NEW t \in TxIds, apply_patch_tx(p, t)
        PROVE  FALSE
      BY <2>3
      DEF apply_patch_tx, StagePatch, StageRaises, TxNotFound, Fail, Answer
  <2>4. ASSUME NEW filter \in Files \cup {AnyFile}, undo_last(filter)
        PROVE  FALSE
    <3>1. reply'.out \in {"reverted", "E_UNDO_UNAVAILABLE",
                          "E_INTERNAL_ERROR"}
        BY <2>4 DEF undo_last, UndoReverts, UndoFails, Revert, Fail, Answer
    <3> QED BY <3>1
  <2>5. ASSUME NEW g \in Files, ExternalEdit(g)
        PROVE  FALSE
      BY <2>5 DEF ExternalEdit, NoReply, Answer
  <2> QED BY <2>1, <2>2, <2>3, <2>4, <2>5
      DEF Next, propose_edit, propose_line_edit, Proposes, ProposeRejected,
          Begin, Rollback, Environment, Tick
<1>2. Spec => []TypeInv
    BY TypeCorrect, PTL DEF TypeInv
<1> QED BY <1>1, <1>2, PTL DEF Spec, SuccessIsUndoable, Undoable

=============================================================================
