------------------------------- MODULE Engine -------------------------------
(***************************************************************************)
(* core/engine.py and core/proposals.py: the tools of the CEMP server over *)
(* one working tree.  FastMCP runs a synchronous tool on its event loop,   *)
(* so a tool call is one step; time passes and other programs edit the     *)
(* tree between calls.                                                     *)
(***************************************************************************)
EXTENDS Transactions

vars == <<disk, reply, patches, undo, tx, begun, stagingDirs>>

ReplyType == [op : Tools, out : Outcomes, ids : SUBSET PatchIds]

TypeOK ==
    /\ disk \in DiskType
    /\ patches \in PatchesType
    /\ undo \in Seq(UndoPatchRecord)
    /\ tx \in TxType
    /\ begun \in SUBSET TxIds
    /\ stagingDirs \in SUBSET TxIds
    /\ reply \in ReplyType

Init ==
    /\ disk \in [Files -> Content]
    /\ patches = [p \in PatchIds |-> NoPatch]
    /\ undo = <<>>
    /\ tx = Closed
    /\ begun = {}
    /\ stagingDirs = {}
    /\ reply = NoReply

-----------------------------------------------------------------------------
(***************************************************************************)
(* Proposals.  The text a client asks for can be any content; a line edit  *)
(* is assembled from normalised lines and must quote the live digest.      *)
(***************************************************************************)
Proposes(p, path, new) ==
    /\ Exists(path.file)
    /\ store(p, path, compute_content_hash(disk[path.file]), new)
    /\ reply' = Answer("propose", "ok", {p})
    /\ UNCHANGED <<disk, undo>> /\ UNCHANGED txVars

propose_edit(p, path, new) == Proposes(p, path, new)

propose_line_edit(p, path, content_hash, new) ==
    /\ Exists(path.file) /\ HashMatches(path.file, content_hash)
    /\ new = Normalize[new]
    /\ Proposes(p, path, new)

\* Text matched too rarely or too often, line numbers out of range; or the
\* file cannot be read.
ProposeErrors == {"E_NO_MATCH", "E_OCCURRENCE_MISMATCH", "E_INVALID_RANGE"}

ProposeRejected(path) ==
    /\ \/ ~ Exists(path.file) /\ Fail("propose", "E_FILE_NOT_FOUND")
       \/ \E content_hash \in Content :
             /\ Exists(path.file) /\ ~ HashMatches(path.file, content_hash)
             /\ Fail("propose", "E_STALE_HASH")
       \/ /\ Exists(path.file)
          /\ \E code \in ProposeErrors : Fail("propose", code)
       \/ Faults /\ Fail("propose", "E_INTERNAL_ERROR")
    /\ UNCHANGED <<disk, patches, undo>> /\ UNCHANGED txVars

-----------------------------------------------------------------------------
(***************************************************************************)
(* apply_patch without a transaction.                                      *)
(***************************************************************************)
Pending(p) == GetError(p) = "none" /\ patches[p].status # "applied"

PatchUnavailable(p) ==
    /\ GetFails("apply_patch", p)
    /\ UNCHANGED <<disk, undo>> /\ UNCHANGED txVars

PatchAlreadyApplied(p) ==
    /\ GetError(p) = "none" /\ patches[p].status = "applied"
    /\ Fail("apply_patch", "E_PATCH_ALREADY_APPLIED")
    /\ UNCHANGED <<disk, patches, undo>> /\ UNCHANGED txVars

\* The compare of compare-and-swap.
Swappable(p) == Exists(FileOf(p)) /\ HashMatches(FileOf(p), patches[p].base)
Swapped(p) == Replace(FileOf(p), patches[p].new)

\* Refused before the write, or the read, the snapshot or the write raises.
ApplyRejected(p) ==
    /\ Pending(p)
    /\ \/ ~ Exists(FileOf(p)) /\ Fail("apply_patch", "E_FILE_NOT_FOUND")
       \/ /\ Exists(FileOf(p)) /\ ~ Swappable(p)
          /\ Fail("apply_patch", "E_FILE_MODIFIED")
       \/ Faults /\ Fail("apply_patch", "E_INTERNAL_ERROR")
    /\ UNCHANGED <<disk, patches, undo>> /\ UNCHANGED txVars

\* Seeded fault: the snapshot is taken after the write.
ApplySnapshotsLate(p, verify) ==
    /\ Pending(p) /\ Swappable(p) /\ Room(1)
    /\ verify => Passes(Swapped(p), FileOf(p))
    /\ disk' = Swapped(p)
    /\ undo' = Append(undo, Applied(p, FileOf(p), GitClean[disk'[FileOf(p)]]))
    /\ patches' = MarkApplied({p})
    /\ reply' = Answer("apply_patch", "applied", {p})
    /\ UNCHANGED txVars

ApplySucceeds(p, verify) ==
    /\ Pending(p) /\ Swappable(p) /\ Room(1)
    /\ verify => Passes(Swapped(p), FileOf(p))
    /\ disk' = Swapped(p)
    /\ undo' = Append(undo, Applied(p, FileOf(p), snapshot(FileOf(p))))
    /\ patches' = MarkApplied({p})
    /\ reply' = Answer("apply_patch", "applied", {p})
    /\ UNCHANGED txVars

\* Seeded fault: a failed check is answered without a rollback.
ApplyKeepsBroken(p) ==
    /\ Pending(p) /\ Swappable(p)
    /\ ~ Passes(Swapped(p), FileOf(p))
    /\ disk' = Swapped(p)
    /\ Fail("apply_patch", "E_SYNTAX_ERROR")
    /\ UNCHANGED <<patches, undo>> /\ UNCHANGED txVars

ApplyRollsBack(p) ==
    /\ Pending(p) /\ Swappable(p)
    /\ ~ Passes(Swapped(p), FileOf(p)) \/ CheckFails(FileOf(p))
    /\ disk' = Replace(FileOf(p), snapshot(FileOf(p)))
    /\ Fail("apply_patch", "E_SYNTAX_ERROR")
    /\ UNCHANGED <<patches, undo>> /\ UNCHANGED txVars

\* The checker raises instead of answering, or the rollback of a rejected
\* write raises: the write stays, unrecorded, and the patch stays pending.
ApplyAbandoned(p) ==
    /\ Pending(p) /\ Swappable(p) /\ CheckFails(FileOf(p))
    /\ disk' = Swapped(p)
    /\ Fail("apply_patch", "E_INTERNAL_ERROR")
    /\ UNCHANGED <<patches, undo>> /\ UNCHANGED txVars

apply_patch(p) ==
    \/ PatchUnavailable(p)
    \/ PatchAlreadyApplied(p)
    \/ ApplyRejected(p)
    \/ \E verify \in BOOLEAN : ApplySucceeds(p, verify)
    \/ ApplyRollsBack(p)
    \/ ApplyAbandoned(p)

\* apply_patch with a tx_id (PatchUnavailable and PatchAlreadyApplied come
\* first there too).
apply_patch_tx(p, t) ==
    \/ /\ Pending(p)
       /\ StagePatch(p, t) \/ StageRaises(p, t)
       /\ UNCHANGED <<patches, undo>>
    \/ /\ Pending(p) /\ TxNotFound("apply_patch", t)
       /\ UNCHANGED <<disk, patches, undo>>

-----------------------------------------------------------------------------
Begin ==
    /\ \/ \E t \in TxIds : begin_transaction(t)
       \/ BeginRejected
    /\ UNCHANGED <<disk, patches, undo>>

Rollback(t) ==
    /\ \/ rollback_transaction(t)
       \/ TxNotFound("rollback_transaction", t)
    /\ UNCHANGED <<disk, patches, undo>>

commit_transaction(t) ==
    \/ CommitRejected(t)
    \/ \E verify \in BOOLEAN :
         \/ CommitSucceeds(t, verify)
         \/ CommitMarkRaises(t, verify)
         \/ CommitRollsBack(t, verify)
         \/ CommitRollbackRaises(t, verify)
    \/ /\ TxNotFound("commit_transaction", t)
       /\ UNCHANGED <<disk, patches, undo>>

undo_last(filter) ==
    /\ UndoReverts(filter) \/ UndoFails(filter)
    /\ UNCHANGED patches /\ UNCHANGED txVars

Tick ==
    /\ AgePatches /\ AgeTx
    /\ reply' = NoReply
    /\ UNCHANGED <<disk, undo, begun, stagingDirs>>

Environment ==
    \/ Tick
    \/ /\ \E f \in Files : ExternalEdit(f)
       /\ UNCHANGED <<patches, undo>> /\ UNCHANGED txVars

Next ==
    \/ \E p \in PatchIds, path \in Paths, new \in Content :
         \/ propose_edit(p, path, new)
         \/ \E h \in Content : propose_line_edit(p, path, h, new)
    \/ \E path \in Paths : ProposeRejected(path)
    \/ \E p \in PatchIds : apply_patch(p)
    \/ \E p \in PatchIds, t \in TxIds : apply_patch_tx(p, t)
    \/ Begin
    \/ \E t \in TxIds : Rollback(t)
    \/ \E t \in TxIds : commit_transaction(t)
    \/ \E filter \in Files \cup {AnyFile} : undo_last(filter)
    \/ Environment

Spec == Init /\ [][Next]_vars
=============================================================================
