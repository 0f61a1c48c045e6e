-------------------------------- MODULE Steps --------------------------------
(***************************************************************************)
(* apply_patch, commit_transaction and undo_last one access to the tree at *)
(* a time.  The first two run the same phases over a list of patches,      *)
(* apply_patch over one: compare, snapshot, write, verify, then record, or *)
(* restore.  The clock is read again when a patch is marked.  undo_last    *)
(* restores a file and reads it back.  The other tools touch the tree at   *)
(* most once and stay the steps they are in Engine.                        *)
(*                                                                         *)
(* While a call runs, other programs can edit the tree, time passes and    *)
(* the process can be killed: only the tree and the staging directories    *)
(* outlive it.  The server itself runs one call at a time.                 *)
(***************************************************************************)
EXTENDS EngineProperties

CONSTANTS
    Empty,      \* the content of an empty file
    Shared      \* whether anything else happens while a call runs

ASSUME StepAssumption == Empty \in Content /\ Shared \in BOOLEAN

VARIABLES
    call,       \* the locals of the running handler
    start,      \* disk, patches and undo when the call began; now, if idle
    raced,      \* the files others changed since the call began
    orphans     \* the staging directories killed servers left

stepVars == <<vars, call, start, raced, orphans>>

Phases == {"idle", "compare", "snapshot", "write", "verify", "restore",
           "record", "answer", "revert", "reread"}
Call == [op : {"none", "apply_patch", "commit_transaction", "undo_last"},
         pc : Phases,
         ids : Seq(PatchIds), verify : BOOLEAN, at : Nat,
         snaps : Seq(Content), wrote : Nat]
NoCall == [op |-> "none", pc |-> "idle", ids |-> <<>>, verify |-> FALSE,
           at |-> 0, snaps |-> <<>>, wrote |-> 0]

Idle == call.pc = "idle"
At(phase) == call.pc = phase

Now == [disk |-> disk, patches |-> patches, undo |-> undo]

StepInit ==
    /\ Init
    /\ call = NoCall
    /\ start = Now
    /\ raced = {}
    /\ orphans = {}

-----------------------------------------------------------------------------
(* Moving the handler on.                                                  *)

\* The patch, and the file, the current iteration of a loop is about.
Patch == call.ids[call.at]
File == FileOf(Patch)

\* The next iteration over the patches, or the phase after the loop.
Onward(c, next) ==
    /\ call' = IF c.at < Len(c.ids) THEN [c EXCEPT !.at = c.at + 1]
                                    ELSE [c EXCEPT !.pc = next, !.at = 1]
    /\ UNCHANGED <<reply, start, raced, orphans>> /\ UNCHANGED txVars

GoesTo(phase) ==
    /\ call' = [call EXCEPT !.pc = phase, !.at = 1]
    /\ UNCHANGED <<reply, start, raced, orphans>> /\ UNCHANGED txVars

Ends ==
    /\ call' = NoCall
    /\ start' = Now'
    /\ raced' = {}
    /\ UNCHANGED orphans

\* An answer that leaves the transaction, if there is one, open.
Refuses(code) == Fail(call.op, code) /\ Ends /\ UNCHANGED txVars

\* apply_patch has no handler for what a write or a checker raises; the one
\* of commit_transaction restores what was written.
Raised ==
    \/ call.op = "apply_patch" /\ Refuses("E_INTERNAL_ERROR")
    \/ call.op = "commit_transaction" /\ GoesTo("restore")

-----------------------------------------------------------------------------
Starts(op, ids, verify) ==
    /\ Idle
    /\ Room(Len(ids))
    /\ call' = [op |-> op, ids |-> ids, verify |-> verify,
                pc |-> IF ids = <<>> THEN "answer" ELSE "compare",
                at |-> 1, snaps |-> <<>>, wrote |-> 0]
    /\ UNCHANGED <<vars, start, raced, orphans>>

StartApply(p, verify) == Pending(p) /\ Starts("apply_patch", <<p>>, verify)

StartCommit(t, verify) ==
    Active(t) /\ Starts("commit_transaction", tx.staged, verify)

\* Seeded fault: the digest is not compared.
CompareExistence ==
    /\ At("compare") /\ Exists(File)
    /\ Onward(call, "snapshot")
    /\ UNCHANGED <<disk, patches, undo>>

Compare ==
    /\ At("compare")
    /\ UNCHANGED <<disk, patches, undo>>
    /\ \/ /\ Exists(File) /\ HashMatches(File, patches[Patch].base)
          /\ Onward(call, "snapshot")
       \/ ~ Exists(File) /\ Refuses("E_FILE_NOT_FOUND")
       \/ /\ Exists(File) /\ ~ HashMatches(File, patches[Patch].base)
          /\ Refuses("E_FILE_MODIFIED")
       \/ Faults /\ Refuses("E_INTERNAL_ERROR")

\* Seeded fault: each file is written right after its own snapshot.
SnapshotThenWrite ==
    /\ At("snapshot") /\ Exists(File)
    /\ disk' = Replace(File, patches[Patch].new)
    /\ Onward([call EXCEPT !.snaps = Append(@, snapshot(File)),
                           !.wrote = @ + 1],
              IF call.verify THEN "verify" ELSE "record")
    /\ UNCHANGED <<patches, undo>>

\* git cannot hash a file deleted since; its snapshot is that of an empty one.
TakeSnapshot ==
    /\ At("snapshot")
    /\ UNCHANGED <<disk, patches, undo>>
    /\ \/ Onward([call EXCEPT !.snaps = Append(@,
                      IF Exists(File) THEN snapshot(File) ELSE Empty)], "write")
       \/ Faults /\ Refuses("E_INTERNAL_ERROR")

\* Seeded fault: the batch is written from its last patch.
WriteLastFirst ==
    /\ At("write")
    /\ LET p == call.ids[Len(call.ids) + 1 - call.at]
       IN disk' = Replace(FileOf(p), patches[p].new)
    /\ Onward([call EXCEPT !.wrote = @ + 1],
              IF call.verify THEN "verify" ELSE "record")
    /\ UNCHANGED <<patches, undo>>

Write ==
    /\ At("write")
    /\ UNCHANGED <<patches, undo>>
    /\ \/ /\ disk' = Replace(File, patches[Patch].new)
          /\ Onward([call EXCEPT !.wrote = @ + 1],
                    IF call.verify THEN "verify" ELSE "record")
       \/ Faults /\ UNCHANGED disk /\ Raised

\* A checker cannot read a file deleted since: node --check rejects it,
\* py_compile raises.  A node that cannot be started rejects the file too.
Rejected == File \in Checked /\ (~ Exists(File) \/ disk[File] \in Broken)

Verify ==
    /\ At("verify")
    /\ UNCHANGED <<disk, patches, undo>>
    /\ \/ ~ Rejected /\ Onward(call, "record")
       \/ (Rejected \/ CheckFails(File)) /\ GoesTo("restore")
       \/ CheckFails(File) /\ Raised

\* Seeded faults: when a restore raises, the rollback starts over; what was
\* written last is not restored.
RestoreStartsOver ==
    /\ At("restore") /\ call.at <= call.wrote
    /\ \/ /\ disk' = Replace(File, call.snaps[call.at])
          /\ call' = [call EXCEPT !.at = @ + 1]
       \/ Faults /\ UNCHANGED disk /\ call' = [call EXCEPT !.at = 1]
    /\ UNCHANGED <<reply, patches, undo, start, raced, orphans>>
    /\ UNCHANGED txVars
RestoreSkipsLast ==
    /\ At("restore") /\ call.at <= call.wrote
    /\ disk' = IF call.at = call.wrote THEN disk
                                       ELSE Replace(File, call.snaps[call.at])
    /\ call' = [call EXCEPT !.at = @ + 1]
    /\ UNCHANGED <<reply, patches, undo, start, raced, orphans>>
    /\ UNCHANGED txVars

\* The files written, in the order they were written.
Restore ==
    /\ At("restore") /\ call.at <= call.wrote
    /\ UNCHANGED <<patches, undo>>
    /\ \/ /\ disk' = Replace(File, call.snaps[call.at])
          /\ call' = [call EXCEPT !.at = @ + 1]
          /\ UNCHANGED <<reply, start, raced, orphans>> /\ UNCHANGED txVars
       \/ Faults /\ UNCHANGED disk /\ Refuses("E_INTERNAL_ERROR")

Restored ==
    /\ At("restore") /\ call.at > call.wrote
    /\ \/ /\ call.op = "apply_patch" /\ Fail(call.op, "E_SYNTAX_ERROR")
          /\ UNCHANGED txVars
       \/ /\ call.op = "commit_transaction"
          /\ Fail(call.op, "E_ROLLBACK_TRIGGERED")
          /\ Close
    /\ UNCHANGED <<disk, patches, undo>>
    /\ Ends

\* Seeded fault: a patch is recorded once it could be marked.
MarkThenRecord ==
    /\ At("record")
    /\ UNCHANGED disk
    /\ \/ /\ MarkError(Patch) = "none"
          /\ undo' = Append(undo, Applied(Patch, File, call.snaps[call.at]))
          /\ patches' = MarkApplied({Patch})
          /\ Onward(call, "answer")
       \/ /\ MarkError(Patch) # "none"
          /\ UNCHANGED <<patches, undo>>
          /\ Refuses(MarkError(Patch))

\* record_applied, then mark_applied.
Record ==
    /\ At("record")
    /\ UNCHANGED disk
    /\ undo' = Append(undo, Applied(Patch, File, call.snaps[call.at]))
    /\ \/ /\ MarkError(Patch) = "none"
          /\ patches' = MarkApplied({Patch})
          /\ Onward(call, "answer")
       \/ /\ MarkError(Patch) = "E_PATCH_EXPIRED"
          /\ patches' = [patches EXCEPT ![Patch].status = "expired"]
          /\ Refuses("E_PATCH_EXPIRED")
       \/ /\ MarkError(Patch) = "E_PATCH_ALREADY_APPLIED"
          /\ UNCHANGED patches
          /\ Refuses("E_PATCH_ALREADY_APPLIED")

Ids == {call.ids[i] : i \in 1..Len(call.ids)}

AnswerSuccess ==
    /\ At("answer")
    /\ \/ /\ call.op = "apply_patch"
          /\ reply' = Answer("apply_patch", "applied", Ids)
          /\ UNCHANGED txVars
       \/ /\ call.op = "commit_transaction"
          /\ reply' = Answer("commit_transaction", "committed", Ids)
          /\ Close
    /\ UNCHANGED <<disk, patches, undo>>
    /\ Ends

-----------------------------------------------------------------------------
(* undo_last; call.at is the record it found.                              *)

StartUndo(filter) ==
    /\ Idle
    /\ \E i \in Eligible(filter) :
         /\ \A j \in Eligible(filter) : j <= i
         /\ call' = [NoCall EXCEPT !.op = "undo_last", !.pc = "revert", !.at = i]
    /\ UNCHANGED <<vars, start, raced, orphans>>

\* Seeded fault: the record is marked whether or not its file was restored.
MarkThenRestore ==
    /\ At("revert")
    /\ undo' = [undo EXCEPT ![call.at].reverted = TRUE]
    /\ UNCHANGED patches
    /\ \/ /\ disk' = Replace(undo[call.at].file, undo[call.at].snap)
          /\ call' = [call EXCEPT !.pc = "reread"]
          /\ UNCHANGED <<reply, start, raced, orphans>> /\ UNCHANGED txVars
       \/ Faults /\ UNCHANGED disk /\ Refuses("E_INTERNAL_ERROR")

\* rollback, and the mark when it returns.
RestoreRecord ==
    /\ At("revert")
    /\ UNCHANGED patches
    /\ \/ /\ disk' = Replace(undo[call.at].file, undo[call.at].snap)
          /\ undo' = [undo EXCEPT ![call.at].reverted = TRUE]
          /\ call' = [call EXCEPT !.pc = "reread"]
          /\ UNCHANGED <<reply, start, raced, orphans>> /\ UNCHANGED txVars
       \/ Faults /\ UNCHANGED <<disk, undo>> /\ Refuses("E_INTERNAL_ERROR")

\* The digest of a file deleted since is null; reading another can raise.
AnswerUndo ==
    /\ At("reread")
    /\ UNCHANGED <<disk, patches, undo>> /\ UNCHANGED txVars
    /\ \/ reply' = Answer("undo_last", "reverted", {undo[call.at].patch})
       \/ Faults /\ Fail("undo_last", "E_INTERNAL_ERROR")
    /\ Ends

Handler ==
    \/ Compare \/ TakeSnapshot \/ Write \/ Verify
    \/ Restore \/ Restored \/ Record \/ AnswerSuccess
    \/ RestoreRecord \/ AnswerUndo

-----------------------------------------------------------------------------
\* The calls that touch the tree at most once.
ShortCall ==
    /\ Idle
    /\ \/ \E p \in PatchIds, path \in Paths, new \in Content :
            \/ propose_edit(p, path, new)
            \/ \E h \in Content : propose_line_edit(p, path, h, new)
       \/ \E path \in Paths : ProposeRejected(path)
       \/ \E p \in PatchIds : PatchUnavailable(p) \/ PatchAlreadyApplied(p)
       \/ \E p \in PatchIds, t \in TxIds : apply_patch_tx(p, t)
       \/ Begin
       \/ \E t \in TxIds : Rollback(t)
       \/ /\ \E t \in TxIds : TxNotFound("commit_transaction", t)
          /\ UNCHANGED <<disk, patches, undo>>
       \/ \E filter \in Files \cup {AnyFile} :
            /\ Eligible(filter) = {} /\ undo_last(filter)
    /\ start' = Now'
    /\ UNCHANGED <<call, raced, orphans>>

Elsewhere ==
    /\ Idle \/ Shared
    /\ Environment
    /\ IF Idle THEN start' = Now' /\ UNCHANGED raced
               ELSE /\ raced' = raced \cup {f \in Files : disk'[f] # disk[f]}
                    /\ UNCHANGED start
    /\ UNCHANGED <<call, orphans>>

Kill ==
    /\ Shared
    /\ patches' = [p \in PatchIds |-> NoPatch]
    /\ undo' = <<>>
    /\ tx' = Closed
    /\ orphans' = orphans \cup ({tx.tx_id} \ {NoTx})
    /\ reply' = NoReply
    /\ UNCHANGED <<disk, begun, stagingDirs>>
    /\ call' = NoCall /\ start' = Now' /\ raced' = {}

StepNext ==
    \/ \E p \in PatchIds, verify \in BOOLEAN : StartApply(p, verify)
    \/ \E t \in TxIds, verify \in BOOLEAN : StartCommit(t, verify)
    \/ \E filter \in Files \cup {AnyFile} : StartUndo(filter)
    \/ Handler
    \/ ShortCall
    \/ Elsewhere
    \/ Kill

\* A handler that runs goes on: no step of it waits for another party.
StepSpec == StepInit /\ [][StepNext]_stepVars /\ WF_stepVars(Handler)
=============================================================================
