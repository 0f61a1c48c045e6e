--------------------------- MODULE StepProperties ----------------------------
(***************************************************************************)
(* What the step-by-step handlers guarantee, alone and beside others.      *)
(***************************************************************************)
EXTENDS Steps

TextOf(c) == IF c = Missing THEN Missing ELSE Normalize[c]

StepTypeOK ==
    /\ TypeOK
    /\ call \in Call
    /\ start \in [disk : DiskType, patches : PatchesType,
                  undo : Seq(UndoPatchRecord)]
    /\ raced \in SUBSET Files
    /\ orphans \in SUBSET TxIds

-----------------------------------------------------------------------------
(* Nothing else happens while a call runs.                                 *)

(* A call that others leave alone is one step of Engine, taken when it is  *)
(* answered: in every way it can end, and wherever it raises.              *)
Atomic == INSTANCE Engine WITH
    disk <- start.disk, patches <- start.patches, undo <- start.undo
ImplementsEngine == Atomic!Spec

(* Every apply_patch and commit_transaction is answered, also when a write *)
(* raises, a rollback runs and the rollback raises.                        *)
EveryCallAnswered == ~ Idle ~> Idle

-----------------------------------------------------------------------------
(* Other programs, the clock and kills act at any moment.                  *)

(* A refusal or a reported rollback leaves the text of every file that     *)
(* nobody else touched while the call ran.                                 *)
RefusedLeavesUnraced ==
    [][~ Idle /\ Idle' /\ reply'.out \in RestoringCodes =>
         \A f \in Files \ raced : TextOf(disk'[f]) = TextOf(start.disk[f])]_stepVars

(* Whatever apply_patch answers but an internal error, and whatever commit *)
(* answers as committed, the text of a file nobody else touched is as      *)
(* before or the next undo of the file gives it back.  An apply_patch      *)
(* answered E_PATCH_EXPIRED because its proposal expired during the syntax *)
(* check is on disk, and undoable.                                         *)
ChangesAreUndoable ==
    [][/\ ~ Idle /\ Idle'
       /\ \/ reply'.op = "apply_patch" /\ reply'.out # "E_INTERNAL_ERROR"
          \/ reply'.out = "committed"
       => \A f \in Files \ raced :
            \/ TextOf(disk'[f]) = TextOf(start.disk[f])
            \/ \E i \in 1..Len(undo') :
                 /\ Newest(Eligible(f)', i)
                 /\ Normalize[undo'[i].snap] = TextOf(start.disk[f])]_stepVars

(* A kill while a batch is written leaves its files, but for those others  *)
(* changed, as the batch had written them up to some patch of it, or, when *)
(* it was being rolled back, restored up to some patch: never a later file *)
(* without an earlier one.                                                 *)
BatchIsPrefix ==
    LET target == [i \in 1..Len(call.ids) |-> FileOf(call.ids[i])]
        new == [i \in 1..Len(call.ids) |-> patches[call.ids[i]].new]
        Batch(k) == Overwrite(start.disk, target, new, k)
    IN  call.op # "undo_last" =>
        \E k \in 0..Len(call.ids), r \in 0..Len(call.snaps) :
          /\ r <= k
          /\ r > 0 => At("restore")
          /\ \A f \in Files \ raced :
               TextOf(disk[f]) =
                 TextOf(Overwrite(Batch(k), target, call.snaps, r)[f])

(* Wherever a call stands, and whatever others do meanwhile: it compares   *)
(* every digest of its batch before the first snapshot, takes every        *)
(* snapshot before the first write, and writes every file before the first *)
(* record.  A rollback, from whichever write or check it began, restores   *)
(* files that were written, each from a snapshot of its own, and no loop   *)
(* leaves the batch.                                                       *)
LoopShape ==
    /\ call.pc \in {"compare", "snapshot", "write", "verify", "record"} =>
         call.at \in 1..Len(call.ids)
    /\ At("restore") => call.at \in 1..(call.wrote + 1)
    /\ call.pc \in {"revert", "reread"} => call.at \in 1..Len(undo)
Progress ==
    /\ At("compare") => call.snaps = <<>> /\ call.wrote = 0
    /\ At("snapshot") => Len(call.snaps) = call.at - 1 /\ call.wrote = 0
    /\ At("write") => Len(call.snaps) = Len(call.ids) /\ call.wrote = call.at - 1
    /\ At("restore") => /\ Len(call.snaps) = Len(call.ids)
                        /\ call.wrote <= Len(call.ids)
    /\ call.pc \in {"verify", "record", "answer"} =>
         Len(call.snaps) = Len(call.ids) /\ call.wrote = Len(call.ids)
PhasesInOrder == LoopShape /\ Progress

(* However undo_last ends, in an internal error too, a file nobody else    *)
(* touched was restored if and only if its record was marked: an undo that *)
(* is tried again neither skips a patch nor restores one twice.            *)
Marked(i) == undo'[i].reverted /\ ~ start.undo[i].reverted
UndoIsWhole ==
    [][~ Idle /\ Idle' /\ reply'.op = "undo_last" =>
         \A f \in Files \ raced :
           /\ \A i \in 1..Len(undo') :
                Marked(i) /\ undo'[i].file = f => disk'[f] = undo'[i].snap
           /\ disk'[f] # start.disk[f] =>
                \E i \in 1..Len(undo') : Marked(i) /\ undo'[i].file = f]_stepVars

(* Only a killed server leaves a staging directory behind: there is that   *)
(* of the open transaction, those of the killed ones, and no other.        *)
OnlyKillsLeaveStaging == stagingDirs = orphans \cup ({tx.tx_id} \ {NoTx})

(* Nothing prolongs a call that runs: each of its steps leaves fewer, and  *)
(* what others do leaves as many, or kills it.  A call over n patches is   *)
(* over after 5 n + 2 steps at most, whatever raises and wherever, so no   *)
(* rollback begins again.                                                  *)
LoopsLeft == [compare |-> 5, snapshot |-> 4, write |-> 3, verify |-> 2,
              record |-> 1]
StepsLeft(c) ==
    CASE c.pc \in DOMAIN LoopsLeft -> LoopsLeft[c.pc] * Len(c.ids) + 2 - c.at
      [] c.pc = "restore" -> c.wrote + 2 - c.at
      [] c.pc = "revert" -> 2
      [] c.pc \in {"answer", "reread"} -> 1
      [] c.pc = "idle" -> 0
CallsRunOut ==
    [][IF Idle THEN StepsLeft(call') <= 5 * Len(call'.ids) + 2
       ELSE \/ call' = call
            \/ StepsLeft(call') \in 0..(StepsLeft(call) - 1)]_stepVars

(* README.md: concurrent drift is met with a compare-and-swap guard and    *)
(* not with silent clobbering, so a patch is only written over the text it *)
(* was computed from.                                                      *)
WriteReplacesBase ==
    [][call'.wrote > call.wrote =>
         TextOf(disk[File]) = patches[Patch].base]_stepVars
=============================================================================
