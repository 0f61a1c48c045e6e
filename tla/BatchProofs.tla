----------------------------- MODULE BatchProofs -----------------------------
(***************************************************************************)
(* What a running call has done so far to the files nobody else touched,   *)
(* and what follows from it for the answer, for a kill at any step and for *)
(* undo.                                                                   *)
(***************************************************************************)
EXTENDS StepProofs

BatchTarget == [i \in 1..Len(call.ids) |-> FileOf(call.ids[i])]
BatchNew == [i \in 1..Len(call.ids) |-> patches[call.ids[i]].new]
BatchBase == [i \in 1..Len(call.ids) |-> patches[call.ids[i]].base]

\* The tree a batch has written so far, and what of it was restored.
WrittenDisk == Overwrite(start.disk, BatchTarget, BatchNew, call.wrote)
BatchDisk ==
    IF At("restore")
    THEN Overwrite(WrittenDisk, BatchTarget, call.snaps, call.at - 1)
    ELSE WrittenDisk

DiskInv == Batching => \A f \in Files \ raced : disk[f] = BatchDisk[f]

\* What was compared was there, with the text the patch was computed from.
CasInv ==
    \A j \in 1..Len(call.ids) :
        /\ At("compare") => j < call.at
        /\ BatchTarget[j] \notin raced
        => LET was == start.disk[BatchTarget[j]]
           IN  was # Missing /\ Normalize[was] = BatchBase[j]

SnapInv ==
    \A j \in 1..Len(call.snaps) :
        BatchTarget[j] \notin raced =>
            call.snaps[j] = GitClean[start.disk[BatchTarget[j]]]

Recorded == IF At("record") THEN call.at - 1
            ELSE IF At("answer") THEN Len(call.ids) ELSE 0
StackInv ==
    LET n == Len(start.undo) IN
    Batching =>
        /\ Len(undo) = n + Recorded
        /\ n + Len(call.ids) <= MaxUndo
        /\ \A i \in 1..n : undo[i] = start.undo[i]
        /\ \A i \in 1..Recorded :
             undo[n + i] = Applied(call.ids[i], BatchTarget[i], call.snaps[i])

\* undo_last found the youngest record its filter allows.
RevertInv ==
    LET rec == start.undo[call.at] IN
    call.op = "undo_last" =>
        /\ undo = IF At("reread")
                  THEN [start.undo EXCEPT ![call.at].reverted = TRUE]
                  ELSE start.undo
        /\ call.at \in 1..Len(start.undo) /\ ~ rec.reverted
        /\ \A f \in Files \ raced :
             disk[f] = IF At("reread") /\ f = rec.file THEN rec.snap
                                                       ELSE start.disk[f]

BatchInv == DiskInv /\ CasInv /\ SnapInv /\ StackInv /\ RevertInv

-----------------------------------------------------------------------------
(* Lemmas about sequences of writes.                                       *)

LEMMA NothingWritten ==
    ASSUME NEW d, NEW target, NEW content, NEW f \in Files
    PROVE  Overwrite(d, target, content, 0)[f] = d[f]
BY OverwriteCases

(* One more write changes the file it is for and no other.                 *)
LEMMA OneMoreWrite ==
    ASSUME NEW d, NEW target, NEW content, NEW k \in Nat, NEW f \in Files
    PROVE  Overwrite(d, target, content, k + 1)[f] =
             IF target[k + 1] = f THEN content[k + 1]
                                  ELSE Overwrite(d, target, content, k)[f]
<1>0. k + 1 \in Nat /\ k + 1 \in 1..(k + 1)
    OBVIOUS
<1>1. CASE target[k + 1] = f
  <2>1. LastFor(f, target, k + 1, k + 1)
      BY <1>1 DEF LastFor
  <2>2. \A i \in 1..(k + 1) : LastFor(f, target, i, k + 1) => i = k + 1
      BY <1>1 DEF LastFor
  <2> QED BY <1>0, <1>1, <2>1, <2>2, OverwriteCases
<1>2. CASE target[k + 1] # f
  <2>1. \A i \in 1..(k + 1) :
          LastFor(f, target, i, k + 1) <=> i \in 1..k /\ LastFor(f, target, i, k)
      BY <1>2 DEF LastFor
  <2>2. \A i, j \in 1..k :
          LastFor(f, target, i, k) /\ LastFor(f, target, j, k) => i = j
      BY DEF LastFor
  <2>3. CASE \E i \in 1..k : LastFor(f, target, i, k)
    <3>1. PICK i \in 1..k : /\ LastFor(f, target, i, k)
                            /\ Overwrite(d, target, content, k)[f] = content[i]
        BY <2>3, OverwriteCases
    <3>2. Overwrite(d, target, content, k + 1)[f] = content[i]
        BY <1>0, <2>1, <2>2, <3>1, OverwriteCases
    <3> QED BY <1>2, <3>1, <3>2
  <2>4. CASE ~ \E i \in 1..k : LastFor(f, target, i, k)
    <3>1. Overwrite(d, target, content, k)[f] = d[f]
        BY <2>4, OverwriteCases
    <3>2. Overwrite(d, target, content, k + 1)[f] = d[f]
        BY <1>0, <2>1, <2>4, OverwriteCases
    <3> QED BY <1>2, <3>1, <3>2
  <2> QED BY <2>3, <2>4
<1> QED BY <1>1, <1>2

(* A file that was written and restored has a snapshot, another one is as  *)
(* it was.                                                                 *)
LEMMA WrittenAndRestored ==
    ASSUME NEW d, NEW target, NEW new, NEW old, NEW k \in Nat, NEW f \in Files
    PROVE  LET e == Overwrite(Overwrite(d, target, new, k), target, old, k)[f]
           IN  e = d[f] \/ \E i \in 1..k : target[i] = f /\ e = old[i]
<1>1. CASE ~ \E i \in 1..k : LastFor(f, target, i, k)
    BY <1>1, OverwriteCases
<1>2. CASE \E i \in 1..k : LastFor(f, target, i, k)
    BY <1>2, OverwriteCases DEF LastFor
<1> QED BY <1>1, <1>2

-----------------------------------------------------------------------------
(* How the steps of a handler keep the invariant.                          *)

(* The batch stays what it is while the call runs.                         *)
LEMMA SameBatch ==
    ASSUME StepInv, call'.ids = call.ids,
           \A p \in PatchIds : Known(p) => Frozen(p)
    PROVE  /\ BatchTarget' = BatchTarget /\ BatchNew' = BatchNew
           /\ BatchBase' = BatchBase
<1>1. \A i \in 1..Len(call.ids) : Frozen(call.ids[i])
    BY PatchType
<1>2. \A i \in 1..Len(call.ids) :
        /\ patches'[call.ids[i]].path.file = patches[call.ids[i]].path.file
        /\ patches'[call.ids[i]].new = patches[call.ids[i]].new
        /\ patches'[call.ids[i]].base = patches[call.ids[i]].base
    BY <1>1 DEF Frozen
<1> QED BY <1>2 DEF BatchTarget, BatchNew, BatchBase, FileOf

LEMMA UnchangedIsFrozen ==
    ASSUME patches' = patches
    PROVE  \A p \in PatchIds : Known(p) => Frozen(p)
BY DEF Frozen, Known

(* A call that is over has done nothing.                                   *)
LEMMA NoBatch ==
    ASSUME call' = NoCall
    PROVE  BatchInv'
<1>1. /\ call'.op = "none" /\ call'.ids = <<>> /\ call'.snaps = <<>>
    BY DEF NoCall
<1> QED BY <1>1, EmptySeq
    DEF BatchInv, DiskInv, CasInv, SnapInv, StackInv, RevertInv, Batching

LEMMA EndsBatch ==
    ASSUME NEW code, Refuses(code) \/ Ends
    PROVE  BatchInv'
BY NoBatch DEF Refuses, Ends

(* What need not be argued again for each step of a running batch.         *)
LEMMA Frame ==
    ASSUME StepInv, BatchInv, Batching, call'.op = call.op,
           call'.ids = call.ids, start' = start, raced' = raced,
           \A p \in PatchIds : Known(p) => Frozen(p)
    PROVE  /\ Batching' /\ RevertInv'
           /\ BatchTarget' = BatchTarget /\ BatchNew' = BatchNew
           /\ BatchBase' = BatchBase
           /\ disk' = disk /\ call'.wrote = call.wrote
                /\ ~ At("restore") /\ ~ At("restore")' => DiskInv'
           /\ call'.snaps = call.snaps => SnapInv'
           /\ ~ At("compare") /\ ~ At("compare")' => CasInv'
           /\ undo' = undo /\ Recorded = 0 /\ Recorded' = 0 => StackInv'
<1>1. Batching' /\ RevertInv'
    BY DEF Batching, RevertInv
<1>2. /\ BatchTarget' = BatchTarget /\ BatchNew' = BatchNew
      /\ BatchBase' = BatchBase
    BY SameBatch
<1>3. ASSUME disk' = disk, call'.wrote = call.wrote,
             ~ At("restore"), ~ At("restore")'
      PROVE  DiskInv'
    BY <1>2, <1>3 DEF BatchInv, DiskInv, BatchDisk, WrittenDisk
<1>4. ASSUME call'.snaps = call.snaps
      PROVE  SnapInv'
    BY <1>2, <1>4 DEF BatchInv, SnapInv
<1>5. ASSUME ~ At("compare"), ~ At("compare")'
      PROVE  CasInv'
    BY <1>2, <1>5 DEF BatchInv, CasInv
<1>6. ASSUME undo' = undo, Recorded = 0, Recorded' = 0
      PROVE  StackInv'
  <2>1. /\ Len(undo) = Len(start.undo) + Recorded
        /\ Len(start.undo) + Len(call.ids) <= MaxUndo
        /\ \A i \in 1..Len(start.undo) : undo[i] = start.undo[i]
      BY DEF BatchInv, StackInv
  <2>2. /\ Len(undo') = Len(start'.undo) + Recorded'
        /\ Len(start'.undo) + Len(call'.ids) <= MaxUndo
        /\ \A i \in 1..Len(start'.undo) : undo'[i] = start'.undo[i]
      BY <1>6, <2>1
  <2>3. ~ \E i \in 1..Recorded' : TRUE
      BY <1>6
  <2> QED BY <2>2, <2>3 DEF StackInv
<1> QED BY <1>1, <1>2, <1>3, <1>4, <1>5, <1>6

LEMMA CompareBatch ==
    ASSUME StepInv, BatchInv, Compare
    PROVE  BatchInv'
<1>1. CASE Onward(call, "snapshot")
  <2>1. At("compare") /\ call \in Call /\ call.at \in 1..Len(call.ids)
        /\ "snapshot" \in Phases /\ Batching /\ call.wrote = 0
      BY InBatch DEF Compare, At, StepInv, StepType, CallShape, LoopShape,
         Progress, Phases
  <2>2. /\ \/ call.at < Len(call.ids) /\ call'.pc = "compare"
                /\ call'.at = call.at + 1
           \/ call.at = Len(call.ids) /\ call'.pc = "snapshot"
        /\ call'.op = call.op /\ call'.ids = call.ids
        /\ call'.snaps = call.snaps /\ call'.wrote = call.wrote
        /\ start' = start /\ raced' = raced
      BY <1>1, <2>1, OnwardStep DEF At
  <2>3. \A p \in PatchIds : Known(p) => Frozen(p)
      BY UnchangedIsFrozen DEF Compare
  <2>4. RevertInv' /\ DiskInv' /\ SnapInv' /\ StackInv'
    <3>1. ~ At("restore") /\ ~ At("restore")' /\ Recorded = 0 /\ Recorded' = 0
        BY <2>1, <2>2 DEF At, Recorded
    <3> QED BY <2>1, <2>2, <2>3, <3>1, Frame DEF Compare
  <2>5. ASSUME BatchTarget[call.at] \notin raced
        PROVE  LET was == start.disk[BatchTarget[call.at]]
               IN  was # Missing /\ Normalize[was] = BatchBase[call.at]
    <3>1. Exists(File) /\ HashMatches(File, patches[Patch].base)
      <4>1. ~ Refuses("E_FILE_NOT_FOUND") /\ ~ Refuses("E_FILE_MODIFIED")
            /\ ~ Refuses("E_INTERNAL_ERROR")
          BY <2>1, <2>2 DEF Refuses, Ends, At, NoCall
      <4> QED BY <4>1 DEF Compare
    <3>2. BatchTarget[call.at] = File /\ BatchBase[call.at] = patches[Patch].base
          /\ File \in Files
        BY <2>1, PatchType DEF BatchTarget, BatchBase, File, Patch
    <3>3. disk[File] = start.disk[File]
        BY <2>1, <2>5, <3>2, NothingWritten
        DEF BatchInv, DiskInv, BatchDisk, WrittenDisk, At
    <3> QED BY <3>1, <3>2, <3>3 DEF Exists, HashMatches, compute_content_hash
  <2>6. CasInv'
    <3>1. /\ BatchTarget' = BatchTarget /\ BatchBase' = BatchBase
          /\ start' = start /\ raced' = raced /\ call'.ids = call.ids
        BY <2>1, <2>2, <2>3, Frame
    <3>2. \A j \in 1..Len(call.ids) :
            (At("compare")' => j < call'.at) => j < call.at \/ j = call.at
        BY <2>1, <2>2, CallFields DEF At
    <3> QED BY <2>1, <2>5, <3>1, <3>2 DEF BatchInv, CasInv
  <2> QED BY <2>4, <2>6 DEF BatchInv
<1> QED BY <1>1, EndsBatch DEF Compare

LEMMA TakeSnapshotBatch ==
    ASSUME StepInv, BatchInv, TakeSnapshot
    PROVE  BatchInv'
<1>1. /\ At("snapshot") /\ call \in Call /\ call.at \in 1..Len(call.ids)
      /\ "write" \in Phases /\ Batching /\ call.wrote = 0
      /\ Len(call.snaps) = call.at - 1
    BY InBatch DEF TakeSnapshot, At, StepInv, StepType, CallShape, LoopShape,
       Progress, Phases
<1> DEFINE snap == IF Exists(File) THEN snapshot(File) ELSE Empty
           c == [call EXCEPT !.snaps = Append(call.snaps, snap)]
<1>2. CASE Onward(c, "write")
  <2>1. FileOf(call.ids[call.at]) \in Files
      BY <1>1, PatchType
  <2>2. snap \in Content
      BY <2>1, GitAssumption, StepAssumption
      DEF StepInv, StepType, TypeInv, TypeOK, DiskType, File, Patch, Exists,
          snapshot
  <2>3. /\ call.snaps \in Seq(Content)
        /\ Append(call.snaps, snap) \in Seq(Content)
      BY <1>1, <2>2, CallFields, AppendProperties
  <2>4. /\ c \in Call /\ c.pc = call.pc /\ c.op = call.op /\ c.ids = call.ids
        /\ c.at = call.at /\ c.wrote = call.wrote
        /\ c.snaps = Append(call.snaps, snap)
      BY <1>1, <2>3 DEF Call
  <2> HIDE DEF c
  <2>5. /\ call'.pc \in {"snapshot", "write"}
        /\ call'.op = call.op /\ call'.ids = call.ids
        /\ call'.snaps = Append(call.snaps, snap) /\ call'.wrote = call.wrote
        /\ start' = start /\ raced' = raced
      BY <1>1, <1>2, <2>4, OnwardStep DEF At
  <2>6. \A p \in PatchIds : Known(p) => Frozen(p)
      BY UnchangedIsFrozen DEF TakeSnapshot
  <2>7. RevertInv' /\ DiskInv' /\ CasInv' /\ StackInv'
    <3>1. /\ ~ At("restore") /\ ~ At("restore")' /\ ~ At("compare")
          /\ ~ At("compare")' /\ Recorded = 0 /\ Recorded' = 0
        BY <1>1, <2>5 DEF At, Recorded
    <3> QED BY <1>1, <2>5, <2>6, <3>1, Frame DEF TakeSnapshot
  <2>8. ASSUME BatchTarget[call.at] \notin raced
        PROVE  snap = GitClean[start.disk[BatchTarget[call.at]]]
    <3>1. BatchTarget[call.at] = File /\ File \in Files
        BY <1>1, PatchType DEF BatchTarget, File, Patch
    <3>2. disk[File] = start.disk[File]
        BY <1>1, <2>8, <3>1, NothingWritten
        DEF BatchInv, DiskInv, BatchDisk, WrittenDisk, At
    <3>3. start.disk[File] # Missing
        BY <1>1, <2>8, <3>1 DEF BatchInv, CasInv, At
    <3> QED BY <3>1, <3>2, <3>3 DEF Exists, snapshot
  <2>9. SnapInv'
    <3>1. /\ BatchTarget' = BatchTarget /\ start' = start /\ raced' = raced
        BY <1>1, <2>5, <2>6, Frame
    <3>2. \A j \in 1..Len(call'.snaps) :
            \/ j \in 1..Len(call.snaps) /\ call'.snaps[j] = call.snaps[j]
            \/ j = call.at /\ call'.snaps[j] = snap
      <4>1. Len(call.snaps) \in Nat /\ call.at \in Nat
          BY <1>1, CallFields
      <4> QED BY <1>1, <2>2, <2>3, <2>5, <4>1
    <3> QED BY <2>8, <3>1, <3>2 DEF BatchInv, SnapInv
  <2> QED BY <2>7, <2>9 DEF BatchInv
<1> QED BY <1>2, EndsBatch DEF TakeSnapshot

(* A rollback that starts has restored nothing.                            *)
LEMMA RollbackBatch ==
    ASSUME StepInv, BatchInv, call.pc \in {"write", "verify"},
           GoesTo("restore"), UNCHANGED <<disk, patches, undo>>
    PROVE  BatchInv'
<1>1. Batching /\ call \in Call /\ "restore" \in Phases
    BY InBatch DEF StepInv, StepType, Phases
<1>2. /\ call'.pc = "restore" /\ call'.at = 1 /\ call'.op = call.op
      /\ call'.ids = call.ids /\ call'.snaps = call.snaps
      /\ call'.wrote = call.wrote /\ start' = start /\ raced' = raced
    BY <1>1, GoesToStep
<1>3. \A p \in PatchIds : Known(p) => Frozen(p)
    BY UnchangedIsFrozen
<1>4. RevertInv' /\ SnapInv' /\ CasInv' /\ StackInv'
  <2>1. ~ At("compare") /\ ~ At("compare")' /\ Recorded = 0 /\ Recorded' = 0
      BY <1>2 DEF At, Recorded
  <2> QED BY <1>1, <1>2, <1>3, <2>1, Frame
<1>5. DiskInv'
  <2>1. WrittenDisk' = WrittenDisk /\ call'.at - 1 = 0
      BY <1>1, <1>2, <1>3, SameBatch DEF WrittenDisk
  <2>2. \A f \in Files : BatchDisk'[f] = BatchDisk[f]
      BY <1>2, <2>1, NothingWritten DEF BatchDisk, At
  <2> QED BY <1>1, <1>2, <2>2 DEF BatchInv, DiskInv
<1> QED BY <1>4, <1>5 DEF BatchInv

LEMMA WriteBatch ==
    ASSUME StepInv, BatchInv, Write
    PROVE  BatchInv'
<1>1. /\ At("write") /\ call \in Call /\ call.at \in 1..Len(call.ids)
      /\ "verify" \in Phases /\ "record" \in Phases /\ Batching
      /\ call.wrote = call.at - 1
    BY InBatch DEF Write, At, StepInv, StepType, CallShape, LoopShape,
       Progress, Phases
<1>2. \A p \in PatchIds : Known(p) => Frozen(p)
    BY UnchangedIsFrozen DEF Write
<1> DEFINE c == [call EXCEPT !.wrote = call.wrote + 1]
           next == IF call.verify THEN "verify" ELSE "record"
<1>3. CASE Onward(c, next) /\ disk' = Replace(File, patches[Patch].new)
  <2>1. /\ c \in Call /\ c.pc = call.pc /\ c.op = call.op /\ c.ids = call.ids
        /\ c.at = call.at /\ c.wrote = call.wrote + 1 /\ c.snaps = call.snaps
        /\ next \in Phases /\ next \in {"verify", "record"}
      BY <1>1, CallFields DEF Call
  <2> HIDE DEF c, next
  <2>2. /\ \/ call'.pc \in {"write", "verify"}
           \/ call'.pc = "record" /\ call'.at = 1
        /\ call'.op = call.op /\ call'.ids = call.ids
        /\ call'.snaps = call.snaps /\ call'.wrote = call.wrote + 1
        /\ start' = start /\ raced' = raced
      BY <1>1, <1>3, <2>1, OnwardStep DEF At
  <2>3. RevertInv' /\ SnapInv' /\ CasInv' /\ StackInv'
    <3>1. ~ At("compare") /\ ~ At("compare")' /\ Recorded = 0 /\ Recorded' = 0
        BY <1>1, <2>2 DEF At, Recorded
    <3> QED BY <1>1, <1>2, <2>2, <3>1, Frame DEF Write
  <2>4. DiskInv'
    <3> SUFFICES ASSUME NEW f \in Files \ raced
                 PROVE  disk'[f] = WrittenDisk'[f]
        BY <2>2 DEF DiskInv, BatchDisk, At
    <3>1. /\ BatchTarget' = BatchTarget /\ BatchNew' = BatchNew
          /\ call'.wrote = call.wrote + 1 /\ start' = start
        BY <1>1, <1>2, <2>2, Frame
    <3>2. /\ call.wrote \in Nat /\ call.wrote + 1 = call.at
          /\ BatchTarget[call.at] = File /\ BatchNew[call.at] = patches[Patch].new
          /\ File \in Files
        BY <1>1, CallFields, PatchType DEF BatchTarget, BatchNew, File, Patch
    <3>3. WrittenDisk'[f] = IF File = f THEN patches[Patch].new
                                        ELSE WrittenDisk[f]
      <4>1. WrittenDisk' = Overwrite(start.disk, BatchTarget, BatchNew,
                                     call.wrote + 1)
          BY <3>1 DEF WrittenDisk
      <4>2. Overwrite(start.disk, BatchTarget, BatchNew, call.wrote + 1)[f]
              = IF BatchTarget[call.wrote + 1] = f
                THEN BatchNew[call.wrote + 1]
                ELSE Overwrite(start.disk, BatchTarget, BatchNew, call.wrote)[f]
          BY <3>2, OneMoreWrite
      <4> QED BY <3>2, <4>1, <4>2 DEF WrittenDisk
    <3>4. disk[f] = WrittenDisk[f]
        BY <1>1 DEF BatchInv, DiskInv, BatchDisk, At
    <3>5. disk \in [Files -> Content \cup {Missing}]
        BY DEF StepInv, StepType, TypeInv, TypeOK, DiskType
    <3> QED BY <1>3, <3>2, <3>3, <3>4, <3>5 DEF Replace
  <2> QED BY <2>3, <2>4 DEF BatchInv
<1>4. CASE disk' = disk /\ Raised
    BY <1>1, <1>4, RollbackBatch, EndsBatch DEF Raised, Write, At
<1> QED BY <1>3, <1>4 DEF Write

LEMMA VerifyBatch ==
    ASSUME StepInv, BatchInv, Verify
    PROVE  BatchInv'
<1>1. /\ At("verify") /\ call \in Call /\ call.at \in 1..Len(call.ids)
      /\ "record" \in Phases /\ Batching
    BY InBatch DEF Verify, At, StepInv, StepType, CallShape, LoopShape, Phases
<1>2. CASE Onward(call, "record")
  <2>1. /\ \/ call'.pc = "verify"
           \/ call'.pc = "record" /\ call'.at = 1
        /\ call'.op = call.op /\ call'.ids = call.ids
        /\ call'.snaps = call.snaps /\ call'.wrote = call.wrote
        /\ start' = start /\ raced' = raced
      BY <1>1, <1>2, OnwardStep DEF At
  <2>2. \A p \in PatchIds : Known(p) => Frozen(p)
      BY UnchangedIsFrozen DEF Verify
  <2>3. /\ ~ At("compare") /\ ~ At("compare")' /\ Recorded = 0 /\ Recorded' = 0
        /\ ~ At("restore") /\ ~ At("restore")'
      BY <1>1, <2>1 DEF At, Recorded
  <2> QED BY <1>1, <2>1, <2>2, <2>3, Frame DEF Verify, BatchInv
<1>3. CASE GoesTo("restore")
    BY <1>1, <1>3, RollbackBatch DEF Verify, At
<1>4. CASE Raised
    BY <1>1, <1>4, RollbackBatch, EndsBatch DEF Raised, Verify, At
<1> QED BY <1>2, <1>3, <1>4 DEF Verify

LEMMA RestoreBatch ==
    ASSUME StepInv, BatchInv, Restore
    PROVE  BatchInv'
<1>1. /\ At("restore") /\ call \in Call /\ call.at \in 1..call.wrote
      /\ call.at \in 1..Len(call.ids) /\ Batching
      /\ call.at \in Nat
  <2>1. At("restore") /\ call \in Call /\ Batching /\ call.at <= call.wrote
      BY InBatch DEF Restore, At, StepInv, StepType
  <2>2. /\ call.at \in 1..(call.wrote + 1) /\ call.wrote <= Len(call.ids)
        /\ call.wrote \in Nat /\ Len(call.ids) \in Nat
      BY <2>1, CallFields DEF StepInv, CallShape, LoopShape, Progress
  <2> QED BY <2>1, <2>2
<1>2. ASSUME disk' = Replace(File, call.snaps[call.at]),
             call' = [call EXCEPT !.at = call.at + 1],
             UNCHANGED <<reply, start, raced, orphans>>
      PROVE  BatchInv'
  <2>1. /\ call'.pc = "restore" /\ call'.at = call.at + 1
        /\ call'.op = call.op /\ call'.ids = call.ids
        /\ call'.snaps = call.snaps /\ call'.wrote = call.wrote
        /\ start' = start /\ raced' = raced
      BY <1>1, <1>2 DEF Call, At
  <2>2. \A p \in PatchIds : Known(p) => Frozen(p)
      BY UnchangedIsFrozen DEF Restore
  <2>3. RevertInv' /\ SnapInv' /\ CasInv' /\ StackInv'
    <3>1. ~ At("compare") /\ ~ At("compare")' /\ Recorded = 0 /\ Recorded' = 0
        BY <1>1, <2>1 DEF At, Recorded
    <3> QED BY <1>1, <2>1, <2>2, <3>1, Frame DEF Restore
  <2>4. DiskInv'
    <3> SUFFICES ASSUME NEW f \in Files \ raced
                 PROVE  disk'[f] = BatchDisk'[f]
        BY <2>1 DEF DiskInv
    <3> DEFINE k == call.at - 1
    <3>1. BatchTarget' = BatchTarget /\ WrittenDisk' = WrittenDisk
        BY <1>1, <2>1, <2>2, Frame DEF WrittenDisk
    <3>2. /\ k \in Nat /\ k = call.at - 1 /\ k + 1 = call.at
          /\ call'.at - 1 = k + 1
        BY <1>1, <2>1
    <3> HIDE DEF k
    <3>3. BatchTarget[k + 1] = File /\ File \in Files
        BY <1>1, <3>2, PatchType DEF BatchTarget, File, Patch
    <3>4. /\ BatchDisk = Overwrite(WrittenDisk, BatchTarget, call.snaps, k)
          /\ BatchDisk' = Overwrite(WrittenDisk, BatchTarget, call.snaps, k + 1)
        BY <1>1, <2>1, <3>1, <3>2 DEF BatchDisk, At
    <3>5. Overwrite(WrittenDisk, BatchTarget, call.snaps, k + 1)[f]
            = IF BatchTarget[k + 1] = f THEN call.snaps[k + 1]
              ELSE Overwrite(WrittenDisk, BatchTarget, call.snaps, k)[f]
        BY <3>2, OneMoreWrite
    <3>6. disk[f] = BatchDisk[f]
        BY <1>1 DEF BatchInv, DiskInv
    <3>7. disk \in [Files -> Content \cup {Missing}]
        BY DEF StepInv, StepType, TypeInv, TypeOK, DiskType
    <3> QED BY <1>2, <3>2, <3>3, <3>4, <3>5, <3>6, <3>7 DEF Replace
  <2> QED BY <2>3, <2>4 DEF BatchInv
<1> QED BY <1>2, EndsBatch DEF Restore

\* What Record does to a patch.
LEMMA RecordFrozen ==
    ASSUME StepInv, Record
    PROVE  \A p \in PatchIds : Known(p) => Frozen(p)
<1> SUFFICES ASSUME NEW p \in PatchIds, Known(p)
             PROVE  Frozen(p)
    OBVIOUS
<1>1. Patch \in PatchIds
    BY PatchType
    DEF Record, At, Patch, StepInv, CallShape, LoopShape
<1>2. TypeOK /\ patches \in PatchesType
    BY DEF StepInv, StepType, TypeInv, TypeOK
<1>3. \/ patches'[p] = patches[p]
      \/ \E status \in Status : patches'[p] = [patches[p] EXCEPT !.status = status]
    BY <1>1, <1>2 DEF Record, MarkApplied, Status, PatchesType
<1> QED BY <1>2, <1>3, StatusOnly, UnchangedStep

LEMMA RecordBatch ==
    ASSUME StepInv, BatchInv, Record
    PROVE  BatchInv'
<1>1. /\ At("record") /\ call \in Call /\ call.at \in 1..Len(call.ids)
      /\ "answer" \in Phases /\ Batching /\ call.at \in Nat
      /\ Len(call.ids) \in Nat
    BY InBatch, CallFields DEF Record, At, StepInv, StepType, CallShape,
       LoopShape, Phases
<1>2. CASE Onward(call, "answer")
  <2>1. /\ \/ call.at < Len(call.ids) /\ call'.pc = "record"
                /\ call'.at = call.at + 1
           \/ call.at = Len(call.ids) /\ call'.pc = "answer"
        /\ call'.op = call.op /\ call'.ids = call.ids
        /\ call'.snaps = call.snaps /\ call'.wrote = call.wrote
        /\ start' = start /\ raced' = raced
      BY <1>1, <1>2, OnwardStep DEF At
  <2>2. \A p \in PatchIds : Known(p) => Frozen(p)
      BY RecordFrozen
  <2>3. RevertInv' /\ SnapInv' /\ CasInv' /\ DiskInv' /\ Batching'
        /\ BatchTarget' = BatchTarget
    <3>1. /\ ~ At("compare") /\ ~ At("compare")'
          /\ ~ At("restore") /\ ~ At("restore")'
        BY <1>1, <2>1 DEF At
    <3> QED BY <1>1, <2>1, <2>2, <3>1, Frame DEF Record
  <2>4. StackInv'
    <3> DEFINE n == Len(start.undo)
    <3>1. Recorded = call.at - 1 /\ Recorded' = call.at
        BY <1>1, <2>1 DEF Recorded, At
    <3>2. BatchTarget[call.at] = File /\ call.ids[call.at] = Patch
        BY <1>1 DEF BatchTarget, File, Patch
    <3>3. /\ Len(undo) = n + (call.at - 1) /\ n + Len(call.ids) <= MaxUndo
          /\ \A i \in 1..n : undo[i] = start.undo[i]
          /\ \A i \in 1..(call.at - 1) : undo[n + i] =
               Applied(call.ids[i], BatchTarget[i], call.snaps[i])
        BY <1>1, <3>1 DEF BatchInv, StackInv
    <3>4. n \in Nat
        BY LenProperties DEF StepInv, StepType, StateType
    <3>5. /\ Len(undo') = Len(undo) + 1
          /\ \A i \in 1..Len(undo) : undo'[i] = undo[i]
          /\ undo'[Len(undo) + 1] =
               Applied(call.ids[call.at], BatchTarget[call.at],
                       call.snaps[call.at])
      <4>1. undo \in Seq(UndoPatchRecord) /\ Len(undo) \in Nat
          BY LenProperties DEF StepInv, StepType, TypeInv, TypeOK
      <4>2. undo' = Append(undo, Applied(Patch, File, call.snaps[call.at]))
          BY DEF Record
      <4> QED BY <3>2, <4>1, <4>2
    <3> HIDE DEF n
    <3>6. /\ Len(undo') = n + call.at
          /\ \A i \in 1..n : undo'[i] = start.undo[i]
        BY <1>1, <3>3, <3>4, <3>5
    <3>7. \A i \in 1..call.at : undo'[n + i] =
               Applied(call.ids[i], BatchTarget[i], call.snaps[i])
      <4> SUFFICES ASSUME NEW i \in 1..call.at
                   PROVE  undo'[n + i] =
                            Applied(call.ids[i], BatchTarget[i], call.snaps[i])
          OBVIOUS
      <4>1. CASE i = call.at
          BY <1>1, <3>3, <3>4, <3>5, <4>1
      <4>2. CASE i # call.at
        <5>1. i \in 1..(call.at - 1) /\ n + i \in 1..Len(undo)
            BY <1>1, <3>3, <3>4, <4>2
        <5> QED BY <3>3, <3>5, <5>1
      <4> QED BY <4>1, <4>2
    <3> QED BY <2>1, <2>3, <3>1, <3>3, <3>6, <3>7 DEF StackInv, n
  <2> QED BY <2>3, <2>4 DEF BatchInv
<1> QED BY <1>2, EndsBatch DEF Record

LEMMA RestoreRecordBatch ==
    ASSUME StepInv, BatchInv, RestoreRecord
    PROVE  BatchInv'
<1>1. /\ At("revert") /\ call \in Call /\ call.op = "undo_last"
      /\ call.at \in 1..Len(undo)
    BY DEF RestoreRecord, At, StepInv, StepType, CallShape, LoopShape
<1>2. ASSUME disk' = Replace(undo[call.at].file, undo[call.at].snap),
             undo' = [undo EXCEPT ![call.at].reverted = TRUE],
             call' = [call EXCEPT !.pc = "reread"],
             UNCHANGED <<reply, start, raced, orphans>>
      PROVE  BatchInv'
  <2>1. /\ call'.pc = "reread" /\ call'.op = "undo_last" /\ call'.at = call.at
        /\ call'.ids = call.ids /\ call'.snaps = call.snaps
        /\ start' = start /\ raced' = raced
      BY <1>1, <1>2 DEF Call
  <2>2. /\ undo = start.undo
        /\ call.at \in 1..Len(start.undo) /\ ~ start.undo[call.at].reverted
        /\ \A f \in Files \ raced : disk[f] = start.disk[f]
      BY <1>1 DEF BatchInv, RevertInv, At
  <2>3. /\ undo' = [start.undo EXCEPT ![call.at].reverted = TRUE]
        /\ \A f \in Files \ raced :
             disk'[f] = IF f = start.undo[call.at].file
                        THEN start.undo[call.at].snap ELSE start.disk[f]
      BY <1>2, <2>2
      DEF Replace, StepInv, StepType, TypeInv, TypeOK, DiskType
  <2>4. RevertInv'
      BY <2>1, <2>2, <2>3 DEF RevertInv, At
  <2>5. call.ids = <<>> /\ ~ Batching'
      BY <1>1, <2>1 DEF Batching, StepInv, CallShape
  <2>6. \A p \in PatchIds : Known(p) => Frozen(p)
      BY UnchangedIsFrozen DEF RestoreRecord
  <2>7. BatchTarget' = BatchTarget /\ BatchBase' = BatchBase
      BY <2>1, <2>6, SameBatch
  <2>8. CasInv' /\ SnapInv'
      BY <2>1, <2>5, <2>7, EmptySeq DEF CasInv, SnapInv, BatchInv
  <2> QED BY <2>4, <2>5, <2>8 DEF BatchInv, DiskInv, StackInv
<1> QED BY <1>2, EndsBatch DEF RestoreRecord

LEMMA HandlerBatch ==
    ASSUME StepInv, BatchInv, Handler
    PROVE  BatchInv'
<1>1. CASE Restored \/ AnswerSuccess \/ AnswerUndo
    BY <1>1, EndsBatch DEF Restored, AnswerSuccess, AnswerUndo
<1> QED BY <1>1, CompareBatch, TakeSnapshotBatch, WriteBatch, VerifyBatch,
           RestoreBatch, RecordBatch, RestoreRecordBatch DEF Handler

-----------------------------------------------------------------------------
(* The steps of the others.                                                *)

(* A batch that begins has done nothing.                                   *)
LEMMA StartsBatch ==
    ASSUME StepInv, NEW op \in {"apply_patch", "commit_transaction"},
           NEW ids \in Seq(PatchIds), NEW verify, Starts(op, ids, verify)
    PROVE  BatchInv'
<1>1. /\ start = Now /\ Room(Len(ids)) /\ start' = start
      /\ disk' = disk /\ undo' = undo /\ patches' = patches
    BY DEF Starts, vars, StepInv, CallShape
<1>2. /\ call'.op = op /\ call'.ids = ids /\ call'.at = 1
      /\ call'.pc = IF ids = <<>> THEN "answer" ELSE "compare"
      /\ call'.snaps = <<>> /\ call'.wrote = 0
    BY DEF Starts
<1>3. disk' = start'.disk /\ undo' = start'.undo
    BY <1>1 DEF Now
<1>4. DiskInv'
  <2>1. \A f \in Files : WrittenDisk'[f] = start'.disk[f]
      BY <1>2, NothingWritten DEF WrittenDisk
  <2> QED BY <1>2, <1>3, <2>1 DEF DiskInv, BatchDisk, At
<1>5. CasInv'
  <2>1. CASE ids = <<>>
      BY <1>2, <2>1, EmptySeq DEF CasInv
  <2>2. CASE ids # <<>>
      BY <1>2, <2>2 DEF CasInv, At
  <2> QED BY <2>1, <2>2
<1>6. SnapInv'
    BY <1>2, EmptySeq DEF SnapInv
<1>7. StackInv'
  <2>1. Recorded' = 0
    <3>1. CASE ids = <<>>
        BY <1>2, <3>1, EmptySeq DEF Recorded, At
    <3>2. CASE ids # <<>>
        BY <1>2, <3>2 DEF Recorded, At
    <3> QED BY <3>1, <3>2
  <2>2. Len(undo) \in Nat /\ Len(undo) + Len(ids) <= MaxUndo
      BY <1>1, LenProperties DEF Room, StepInv, StepType, TypeInv, TypeOK
  <2>3. /\ Len(undo') = Len(start'.undo) + Recorded'
        /\ Len(start'.undo) + Len(call'.ids) <= MaxUndo
        /\ \A i \in 1..Len(start'.undo) : undo'[i] = start'.undo[i]
      BY <1>1, <1>2, <1>3, <2>1, <2>2
  <2>4. ~ \E i \in 1..Recorded' : TRUE
      BY <2>1
  <2> QED BY <2>3, <2>4 DEF StackInv
<1>8. RevertInv'
    BY <1>2 DEF RevertInv
<1> QED BY <1>4, <1>5, <1>6, <1>7, <1>8 DEF BatchInv

LEMMA StartUndoBatch ==
    ASSUME StepInv, NEW filter \in Files \cup {AnyFile}, StartUndo(filter)
    PROVE  BatchInv'
<1>1. /\ start = Now /\ start' = start /\ disk' = disk /\ undo' = undo
    BY DEF StartUndo, vars, StepInv, CallShape
<1>2. PICK i \in Eligible(filter) :
        call' = [NoCall EXCEPT !.op = "undo_last", !.pc = "revert", !.at = i]
    BY DEF StartUndo
<1>3. /\ call'.op = "undo_last" /\ call'.pc = "revert" /\ call'.at = i
      /\ call'.ids = <<>> /\ call'.snaps = <<>>
    BY <1>2 DEF NoCall
<1>4. disk' = start'.disk /\ undo' = start'.undo
    BY <1>1 DEF Now
<1>5. RevertInv'
    BY <1>1, <1>2, <1>3, <1>4 DEF RevertInv, Eligible, At
<1>6. CasInv' /\ SnapInv'
    BY <1>3, EmptySeq DEF CasInv, SnapInv
<1> QED BY <1>3, <1>5, <1>6 DEF BatchInv, DiskInv, StackInv, Batching

(* What others do to a file takes it off the list of those it is about.    *)
LEMMA ElsewhereBatch ==
    ASSUME StepInv, BatchInv, Elsewhere
    PROVE  BatchInv'
<1>1. CASE Idle
    BY <1>1, NoBatch DEF Elsewhere, StepInv, CallShape
<1>2. CASE ~ Idle
  <2>1. /\ call' = call /\ start' = start /\ undo' = undo
        /\ raced \subseteq raced'
        /\ \A f \in Files \ raced' : disk'[f] = disk[f]
      BY <1>2, EnvironmentStep DEF Elsewhere
  <2>2. /\ BatchTarget' = BatchTarget /\ BatchNew' = BatchNew
        /\ BatchBase' = BatchBase
      BY <2>1, EnvironmentStep, SameBatch DEF Elsewhere
  <2>3. DiskInv'
    <3>1. BatchDisk' = BatchDisk
        BY <2>1, <2>2 DEF BatchDisk, WrittenDisk, At
    <3> QED BY <2>1, <3>1 DEF BatchInv, DiskInv, Batching
  <2>4. CasInv' /\ SnapInv'
      BY <2>1, <2>2 DEF BatchInv, CasInv, SnapInv, At
  <2>5. StackInv'
    <3>1. Recorded' = Recorded
        BY <2>1 DEF Recorded, At
    <3> QED BY <2>1, <2>2, <3>1 DEF BatchInv, StackInv, Batching
  <2>6. RevertInv'
      BY <2>1 DEF BatchInv, RevertInv, At
  <2> QED BY <2>3, <2>4, <2>5, <2>6 DEF BatchInv
<1> QED BY <1>1, <1>2

LEMMA BatchInvStep ==
    ASSUME StepInv, BatchInv, [StepNext]_stepVars
    PROVE  BatchInv'
<1>1. CASE stepVars' = stepVars
  <2>1. /\ call' = call /\ start' = start /\ raced' = raced
        /\ patches' = patches /\ undo' = undo /\ disk' = disk
      BY <1>1 DEF stepVars, vars
  <2>2. /\ BatchTarget' = BatchTarget /\ BatchNew' = BatchNew
        /\ BatchBase' = BatchBase
      BY <2>1 DEF BatchTarget, BatchNew, BatchBase, FileOf
  <2>3. BatchDisk' = BatchDisk /\ Recorded' = Recorded /\ Batching' = Batching
      BY <2>1, <2>2 DEF BatchDisk, WrittenDisk, Recorded, At, Batching
  <2>4. DiskInv' /\ CasInv' /\ SnapInv'
      BY <2>1, <2>2, <2>3 DEF BatchInv, DiskInv, CasInv, SnapInv, At
  <2>5. StackInv' /\ RevertInv'
      BY <2>1, <2>2, <2>3 DEF BatchInv, StackInv, RevertInv, At
  <2> QED BY <2>4, <2>5 DEF BatchInv
<1>2. ASSUME NEW p \in PatchIds, NEW verify \in BOOLEAN, StartApply(p, verify)
      PROVE  BatchInv'
  <2>1. <<p>> \in Seq(PatchIds) /\ Starts("apply_patch", <<p>>, verify)
      BY <1>2 DEF StartApply
  <2> QED BY <2>1, StartsBatch
<1>3. ASSUME NEW t \in TxIds, NEW verify \in BOOLEAN, StartCommit(t, verify)
      PROVE  BatchInv'
  <2>1. tx.staged \in Seq(PatchIds)
      BY StagedSeq DEF StepInv, StepType, TypeInv
  <2> QED BY <1>3, <2>1, StartsBatch DEF StartCommit
<1>4. CASE ShortCall \/ Kill
    BY <1>4, NoBatch DEF ShortCall, Kill, StepInv, CallShape
<1> QED BY <1>1, <1>2, <1>3, <1>4, StartUndoBatch, HandlerBatch,
           ElsewhereBatch DEF StepNext

(* What a running call has done so far, at any of its steps.               *)
THEOREM BatchInvariant == StepSpec => []BatchInv
<1>1. StepInit => BatchInv
  <2> SUFFICES ASSUME StepInit PROVE BatchInv
      OBVIOUS
  <2>1. call.op = "none" /\ call.ids = <<>> /\ call.snaps = <<>>
      BY DEF StepInit, NoCall
  <2> QED BY <2>1, EmptySeq
      DEF BatchInv, DiskInv, CasInv, SnapInv, StackInv, RevertInv, Batching
<1>2. StepInv /\ BatchInv /\ [StepNext]_stepVars => BatchInv'
    BY BatchInvStep
<1> QED BY <1>1, <1>2, StepInvariant, PTL DEF StepSpec

-----------------------------------------------------------------------------
(* How a call can end.                                                     *)

\* In the middle, with an error; the tree is left as it is at that moment.
Aborts == UNCHANGED <<disk, patches, undo>> /\ Refuses("E_INTERNAL_ERROR")

LEMMA CallEnds ==
    ASSUME StepInv, Handler, Idle'
    PROVE  \/ /\ At("compare") /\ UNCHANGED <<disk, patches, undo>>
              /\ Refuses("E_FILE_NOT_FOUND") \/ Refuses("E_FILE_MODIFIED")
           \/ Aborts
           \/ Restored
           \/ /\ Record
              /\ Refuses("E_PATCH_EXPIRED") \/ Refuses("E_PATCH_ALREADY_APPLIED")
           \/ AnswerSuccess
           \/ AnswerUndo
<1>1. call \in Call /\ call'.pc = "idle"
    BY DEF StepInv, StepType, Idle
<1>2. ASSUME NEW next \in Phases \ {"idle"}, Onward(call, next),
             call.pc # "idle"
      PROVE  FALSE
    BY <1>1, <1>2 DEF Onward, Call
<1>3. ASSUME NEW x, NEW next \in Phases \ {"idle"}, call.pc # "idle",
             \/ Onward([call EXCEPT !.snaps = x], next)
             \/ Onward([call EXCEPT !.wrote = x], next)
      PROVE  FALSE
    BY <1>1, <1>3 DEF Onward, Call
<1>4. ~ GoesTo("restore")
    BY <1>1 DEF GoesTo, Call
<1>5. {"snapshot", "write", "verify", "record", "answer"} \subseteq Phases \ {"idle"}
    BY DEF Phases
<1>6. CASE Compare
    BY <1>2, <1>5, <1>6 DEF Compare, Aborts, At
<1>7. CASE TakeSnapshot
    BY <1>3, <1>5, <1>7 DEF TakeSnapshot, Aborts, At
<1>8. CASE Write
    BY <1>3, <1>4, <1>5, <1>8 DEF Write, Raised, Aborts, At
<1>9. CASE Verify
    BY <1>2, <1>4, <1>5, <1>9 DEF Verify, Raised, Aborts, At
<1>10. CASE Restore
  <2>1. ASSUME call' = [call EXCEPT !.at = @ + 1]
        PROVE  FALSE
      BY <1>1, <1>10, <2>1 DEF Restore, At, Call
  <2> QED BY <1>10, <2>1 DEF Restore, Aborts
<1>11. CASE Record
    BY <1>2, <1>5, <1>11 DEF Record, At
<1>12. CASE RestoreRecord
  <2>1. ASSUME call' = [call EXCEPT !.pc = "reread"]
        PROVE  FALSE
      BY <1>1, <2>1 DEF Call
  <2> QED BY <1>12, <2>1 DEF RestoreRecord, Aborts
<1> QED BY <1>6, <1>7, <1>8, <1>9, <1>10, <1>11, <1>12 DEF Handler

(* Only its own handler or a kill ends a call.                             *)
LEMMA OnlyHandlersEnd ==
    ASSUME StepInv, StepNext, ~ Idle, Idle'
    PROVE  Handler \/ Kill
BY DEF StepNext, StartApply, StartCommit, StartUndo, Starts, ShortCall,
       Elsewhere, Idle

\* The answer of a refusal.
LEMMA RefusalReply ==
    ASSUME NEW code, Refuses(code)
    PROVE  reply'.out = code /\ reply'.op = call.op
BY DEF Refuses, Fail, Answer

-----------------------------------------------------------------------------
(* Theorems.                                                               *)

(* The text of a file nobody else touched, once a rollback is complete.    *)
LEMMA RestoredText ==
    ASSUME StepInv, BatchInv, Restored, NEW f \in Files \ raced
    PROVE  TextOf(disk[f]) = TextOf(start.disk[f])
<1>1. /\ At("restore") /\ Batching /\ call.wrote \in Nat
      /\ call.at - 1 = call.wrote
      /\ call.wrote <= Len(call.ids) /\ Len(call.snaps) = Len(call.ids)
  <2>1. At("restore") /\ Batching /\ call.at > call.wrote
      BY InBatch DEF Restored, At
  <2>2. /\ call.at \in 1..(call.wrote + 1) /\ call.wrote <= Len(call.ids)
        /\ call.wrote \in Nat /\ Len(call.snaps) = Len(call.ids)
      BY <2>1, CallFields
      DEF StepInv, StepType, CallShape, LoopShape, Progress
  <2> QED BY <2>1, <2>2
<1>2. disk[f] = Overwrite(Overwrite(start.disk, BatchTarget, BatchNew, call.wrote),
                          BatchTarget, call.snaps, call.wrote)[f]
    BY <1>1 DEF BatchInv, DiskInv, BatchDisk, WrittenDisk
<1>3. CASE disk[f] = start.disk[f]
    BY <1>3
<1>4. CASE \E i \in 1..call.wrote : BatchTarget[i] = f /\ disk[f] = call.snaps[i]
  <2>1. PICK i \in 1..call.wrote : BatchTarget[i] = f /\ disk[f] = call.snaps[i]
      BY <1>4
  <2>2. i \in 1..Len(call.ids) /\ i \in 1..Len(call.snaps)
      BY <1>1, CallFields DEF StepInv, StepType
  <2>3. start.disk[f] # Missing /\ call.snaps[i] = GitClean[start.disk[f]]
      BY <1>1, <2>1, <2>2 DEF BatchInv, CasInv, SnapInv, At
  <2>4. start.disk[f] \in Content
      BY <2>3 DEF StepInv, StepType, StateType, DiskType
  <2> QED BY <2>1, <2>3, <2>4, GitAssumption, ContentAssumption DEF TextOf
<1> QED BY <1>1, <1>2, <1>3, <1>4, WrittenAndRestored

(* Before the first write the files nobody else touched are as before.     *)
LEMMA NotYetWritten ==
    ASSUME StepInv, BatchInv, At("compare"), NEW f \in Files \ raced
    PROVE  disk[f] = start.disk[f]
<1>1. Batching /\ call.wrote = 0 /\ ~ At("restore")
    BY InBatch DEF At, StepInv, CallShape, Progress
<1> QED BY <1>1, NothingWritten DEF BatchInv, DiskInv, BatchDisk, WrittenDisk

(* Refusals and reported rollbacks leave the text of the files nobody else *)
(* touched, with other programs, the clock and kills at every step.        *)
THEOREM RefusalsRestoreUnraced == StepSpec => RefusedLeavesUnraced
<1>1. StepInv /\ BatchInv /\ [StepNext]_stepVars =>
        [~ Idle /\ Idle' /\ reply'.out \in RestoringCodes =>
           \A f \in Files \ raced :
             TextOf(disk'[f]) = TextOf(start.disk[f])]_stepVars
  <2> SUFFICES ASSUME StepInv, BatchInv, StepNext, ~ Idle, Idle',
                      reply'.out \in RestoringCodes, NEW f \in Files \ raced
               PROVE  TextOf(disk'[f]) = TextOf(start.disk[f])
      OBVIOUS
  <2>1. Handler
    <3>1. ~ Kill
        BY DEF Kill, NoReply, Answer, RestoringCodes
    <3> QED BY <3>1, OnlyHandlersEnd
  <2>2. CASE At("compare") /\ UNCHANGED <<disk, patches, undo>>
      BY <2>2, NotYetWritten
  <2>3. CASE Restored
      BY <2>3, RestoredText DEF Restored
  <2>4. ~ Aborts /\ ~ AnswerSuccess /\ ~ AnswerUndo
      BY RefusalReply DEF Aborts, AnswerSuccess, AnswerUndo, Fail, Answer,
         RestoringCodes
  <2>5. ~ Refuses("E_PATCH_EXPIRED") /\ ~ Refuses("E_PATCH_ALREADY_APPLIED")
      BY RefusalReply DEF RestoringCodes
  <2> QED BY <2>1, <2>2, <2>3, <2>4, <2>5, CallEnds
<1> QED BY <1>1, StepInvariant, BatchInvariant, PTL
        DEF StepSpec, RefusedLeavesUnraced

(* A kill at any step leaves a prefix of the batch, or of its rollback.    *)
THEOREM KillLeavesPrefix == StepSpec => []BatchIsPrefix
<1>1. StepInv /\ BatchInv => BatchIsPrefix
  <2> SUFFICES ASSUME StepInv, BatchInv, call.op # "undo_last"
               PROVE  \E k \in 0..Len(call.ids), r \in 0..Len(call.snaps) :
                        /\ r <= k
                        /\ r > 0 => At("restore")
                        /\ \A f \in Files \ raced :
                             TextOf(disk[f]) = TextOf(Overwrite(
                               Overwrite(start.disk, BatchTarget, BatchNew, k),
                               BatchTarget, call.snaps, r)[f])
      BY DEF BatchIsPrefix, BatchTarget, BatchNew
  <2>0. /\ call.wrote \in Nat /\ call.at \in Nat
        /\ Len(call.ids) \in Nat /\ Len(call.snaps) \in Nat
      BY CallFields DEF StepInv, StepType
  <2>1. CASE At("restore")
    <3>1. /\ call.wrote \in 0..Len(call.ids)
          /\ call.at - 1 \in 0..Len(call.snaps) /\ call.at - 1 <= call.wrote
        BY <2>0, <2>1 DEF StepInv, CallShape, LoopShape, Progress
    <3>2. \A f \in Files \ raced :
            disk[f] = Overwrite(
                        Overwrite(start.disk, BatchTarget, BatchNew, call.wrote),
                        BatchTarget, call.snaps, call.at - 1)[f]
        BY <2>1, InBatch DEF BatchInv, DiskInv, BatchDisk, WrittenDisk, At
    <3> QED BY <2>1, <3>1, <3>2
  <2>2. CASE ~ At("restore")
    <3>1. call.wrote \in 0..Len(call.ids)
      <4>1. CASE Batching
          BY <2>0, <4>1, CallFields
          DEF StepInv, StepType, CallShape, LoopShape, Progress, At, Batching,
              Idle, NoCall, Phases
      <4>2. CASE ~ Batching
        <5>1. call = NoCall
            BY <4>2, CallFields
            DEF StepInv, StepType, CallShape, Batching
        <5> QED BY <2>0, <5>1 DEF NoCall
      <4> QED BY <4>1, <4>2
    <3>2. \A f \in Files \ raced :
            disk[f] = Overwrite(start.disk, BatchTarget, BatchNew, call.wrote)[f]
      <4>1. CASE Batching
          BY <2>2, <4>1 DEF BatchInv, DiskInv, BatchDisk, WrittenDisk
      <4>2. CASE ~ Batching
        <5>1. call = NoCall /\ start = Now
            BY <4>2, CallFields
            DEF StepInv, StepType, CallShape, Batching
        <5> QED BY <5>1, NothingWritten DEF NoCall, Now
      <4> QED BY <4>1, <4>2
    <3>3. 0 \in 0..Len(call.snaps) /\ 0 <= call.wrote
        BY <2>0
    <3>4. \A f \in Files \ raced :
            Overwrite(Overwrite(start.disk, BatchTarget, BatchNew, call.wrote),
                      BatchTarget, call.snaps, 0)[f]
              = Overwrite(start.disk, BatchTarget, BatchNew, call.wrote)[f]
        BY NothingWritten
    <3> QED BY <3>1, <3>2, <3>3, <3>4
  <2> QED BY <2>1, <2>2
<1> QED BY <1>1, StepInvariant, BatchInvariant, PTL

(* The places of a sequence of m elements appended to one of n.            *)
LEMMA Places ==
    \A n, m \in Nat :
      /\ \A i \in 1..m : n + i \in 1..(n + m)
      /\ \A j \in 1..(n + m) : j <= n \/ \E i \in 1..m : j = n + i
<1> SUFFICES ASSUME NEW n \in Nat, NEW m \in Nat
             PROVE  /\ \A i \in 1..m : n + i \in 1..(n + m)
                    /\ \A j \in 1..(n + m) :
                         j <= n \/ \E i \in 1..m : j = n + i
    OBVIOUS
<1>1. \A i \in 1..m : n + i \in 1..(n + m)
    OBVIOUS
<1>2. ASSUME NEW j \in 1..(n + m), ~ (j <= n)
      PROVE  \E i \in 1..m : j = n + i
  <2>1. j - n \in 1..m /\ j = n + (j - n)
      BY <1>2
  <2> QED BY <2>1
<1> QED BY <1>1, <1>2

(* Once all records of a batch are on the stack, the youngest of each file *)
(* has the text of before the call.                                        *)
LEMMA RecordsUndo ==
    ASSUME StepInv, BatchInv, call.pc \in {"record", "answer"}, disk' = disk,
           NEW f \in Files \ raced,
           Len(undo') = Len(start.undo) + Len(call.ids),
           \A i \in 1..Len(call.ids) : undo'[Len(start.undo) + i] =
               Applied(call.ids[i], BatchTarget[i], call.snaps[i])
    PROVE  \/ TextOf(disk'[f]) = TextOf(start.disk[f])
           \/ \E i \in 1..Len(undo') :
                /\ Newest(Eligible(f)', i)
                /\ Normalize[undo'[i].snap] = TextOf(start.disk[f])
<1>1. Len(start.undo) \in Nat /\ Len(call.ids) \in Nat
    BY CallFields, LenProperties DEF StepInv, StepType, StateType
<1> SUFFICES
      ASSUME NEW n \in Nat, NEW m \in Nat, m = Len(call.ids),
             Len(undo') = n + m,
             \A i \in 1..m :
               undo'[n + i] = Applied(call.ids[i], BatchTarget[i], call.snaps[i])
      PROVE  \/ TextOf(disk'[f]) = TextOf(start.disk[f])
             \/ \E i \in 1..Len(undo') :
                  /\ Newest(Eligible(f)', i)
                  /\ Normalize[undo'[i].snap] = TextOf(start.disk[f])
    BY <1>1
<1>0. /\ \A i \in 1..m : n + i \in 1..(n + m)
      /\ \A j \in 1..(n + m) : j <= n \/ \E i \in 1..m : j = n + i
    BY Places, Zenon
<1>2. Batching /\ call.wrote = m /\ Len(call.snaps) = m /\ Len(call.ids) = m /\ ~ At("restore")
      /\ ~ At("compare")
    BY InBatch DEF At, StepInv, CallShape, Progress
<1>3. disk'[f] = Overwrite(start.disk, BatchTarget, BatchNew, m)[f]
    BY <1>2 DEF BatchInv, DiskInv, BatchDisk, WrittenDisk
<1>4. CASE ~ \E i \in 1..m : LastFor(f, BatchTarget, i, m)
  <2>1. Overwrite(start.disk, BatchTarget, BatchNew, m)[f] = start.disk[f]
      BY <1>4, OverwriteCases
  <2> QED BY <1>3, <2>1
<1>5. CASE \E i \in 1..m : LastFor(f, BatchTarget, i, m)
  <2>1. PICK i \in 1..m : LastFor(f, BatchTarget, i, m)
      BY <1>5
  <2>2. start.disk[f] # Missing /\ call.snaps[i] = GitClean[start.disk[f]]
      BY <1>2, <2>1 DEF BatchInv, CasInv, SnapInv, LastFor, At
  <2>3. start.disk[f] \in Content
      BY <2>2 DEF StepInv, StepType, StateType, DiskType
  <2>4. /\ undo'[n + i].file = f /\ ~ undo'[n + i].reverted
        /\ undo'[n + i].snap = call.snaps[i]
        /\ n + i \in 1..(n + m)
    <3>1. n + i \in 1..(n + m)
        BY <2>1, <1>0
    <3>2. undo'[n + i] = Applied(call.ids[i], BatchTarget[i], call.snaps[i])
        BY <2>1
    <3>3. BatchTarget[i] = f
        BY <2>1 DEF LastFor
    <3>4. undo'[n + i] = Applied(call.ids[i], f, call.snaps[i])
        BY <3>2, <3>3
    <3>5. /\ Applied(call.ids[i], f, call.snaps[i]).file = f
          /\ ~ Applied(call.ids[i], f, call.snaps[i]).reverted
          /\ Applied(call.ids[i], f, call.snaps[i]).snap = call.snaps[i]
        BY DEF Applied
    <3> QED BY <3>1, <3>4, <3>5, Zenon
  <2>5. ASSUME NEW j \in 1..(n + m), undo'[j].file = f
        PROVE  j <= n + i
    <3>1. CASE j <= n
        BY <2>1, <3>1
    <3>2. CASE ~ (j <= n)
      <4>1. PICK k \in 1..m : j = n + k
          BY <1>0, <3>2
      <4>2. undo'[n + k] = Applied(call.ids[k], BatchTarget[k], call.snaps[k])
          BY <4>1
      <4>3. BatchTarget[k] = f
          BY <2>5, <4>1, <4>2 DEF Applied
      <4>4. ~ (k > i)
          BY <2>1, <4>1, <4>3 DEF LastFor
      <4> QED BY <2>1, <4>1, <4>4
    <3> QED BY <3>1, <3>2
  <2>6. Newest(Eligible(f)', n + i)
    <3>1. n + i \in Eligible(f)'
        BY <2>4 DEF Eligible
    <3>2. \A j \in Eligible(f)' : j \in 1..Len(undo') /\ undo'[j].file = f
        BY UndoAssumption DEF Eligible
    <3> QED BY <2>5, <3>1, <3>2 DEF Newest
  <2>7. Normalize[undo'[n + i].snap] = TextOf(start.disk[f])
      BY <2>2, <2>3, <2>4, GitAssumption, ContentAssumption DEF TextOf
  <2> QED BY <2>4, <2>6, <2>7
<1> QED BY <1>4, <1>5

(* What apply_patch or a commit answered as committed changed can be given *)
(* back by the next undo of the file.                                      *)
THEOREM ChangesUndoable == StepSpec => ChangesAreUndoable
<1>1. StepInv /\ BatchInv /\ [StepNext]_stepVars =>
        [/\ ~ Idle /\ Idle'
         /\ \/ reply'.op = "apply_patch" /\ reply'.out # "E_INTERNAL_ERROR"
            \/ reply'.out = "committed"
         => \A f \in Files \ raced :
              \/ TextOf(disk'[f]) = TextOf(start.disk[f])
              \/ \E i \in 1..Len(undo') :
                   /\ Newest(Eligible(f)', i)
                   /\ Normalize[undo'[i].snap] = TextOf(start.disk[f])]_stepVars
  <2> SUFFICES ASSUME StepInv, BatchInv, StepNext, ~ Idle, Idle',
                      \/ reply'.op = "apply_patch"
                           /\ reply'.out # "E_INTERNAL_ERROR"
                      \/ reply'.out = "committed",
                      NEW f \in Files \ raced
               PROVE  \/ TextOf(disk'[f]) = TextOf(start.disk[f])
                      \/ \E i \in 1..Len(undo') :
                           /\ Newest(Eligible(f)', i)
                           /\ Normalize[undo'[i].snap] = TextOf(start.disk[f])
      OBVIOUS
  <2>1. Handler
    <3>1. ~ Kill
        BY DEF Kill, NoReply, Answer
    <3> QED BY <3>1, OnlyHandlersEnd
  <2>2. CASE At("compare") /\ UNCHANGED <<disk, patches, undo>>
      BY <2>2, NotYetWritten
  <2>3. CASE Restored
      BY <2>3, RestoredText DEF Restored
  <2>4. ~ Aborts /\ ~ AnswerUndo
      BY RefusalReply DEF Aborts, AnswerUndo, Fail, Answer
  <2>5. CASE /\ Record
             /\ Refuses("E_PATCH_EXPIRED") \/ Refuses("E_PATCH_ALREADY_APPLIED")
    <3>1. call.op = "apply_patch" /\ Len(call.ids) = 1
      <4>1. call.op = "apply_patch"
          BY <2>5, RefusalReply
      <4> QED BY <4>1 DEF StepInv, CallShape, BatchShape
    <3>2. At("record") /\ call.at = 1 /\ Batching /\ 1 \in 1..Len(call.ids)
        BY <2>5, <3>1 DEF Record, At, Batching, StepInv, CallShape, LoopShape
    <3>3. Len(undo) = Len(start.undo)
      <4>1. Recorded = 0
          BY <3>2 DEF Recorded
      <4>2. Len(start.undo) \in Nat
          BY LenProperties DEF StepInv, StepType, StateType
      <4> QED BY <3>2, <4>1, <4>2 DEF BatchInv, StackInv
    <3>4. /\ Len(undo') = Len(undo) + 1
          /\ undo'[Len(undo) + 1] =
               Applied(call.ids[1], BatchTarget[1], call.snaps[1])
      <4>1. undo \in Seq(UndoPatchRecord)
          BY DEF StepInv, StepType, TypeInv, TypeOK
      <4>2. undo' = Append(undo, Applied(call.ids[1], BatchTarget[1],
                                         call.snaps[1]))
          BY <2>5, <3>2 DEF Record, File, Patch, BatchTarget
      <4> QED BY <4>1, <4>2
    <3>5. \A i \in 1..Len(call.ids) : i = 1
        BY <3>1
    <3> QED BY <2>5, <3>1, <3>2, <3>3, <3>4, <3>5, RecordsUndo DEF Record, At
  <2>6. CASE AnswerSuccess
    <3>1. At("answer") /\ Batching /\ undo' = undo /\ disk' = disk
        BY <2>6, InBatch DEF AnswerSuccess, At
    <3>2. Recorded = Len(call.ids)
        BY <3>1 DEF Recorded, At
    <3>3. /\ Len(undo') = Len(start.undo) + Len(call.ids)
          /\ \A i \in 1..Len(call.ids) : undo'[Len(start.undo) + i] =
               Applied(call.ids[i], BatchTarget[i], call.snaps[i])
        BY <3>1, <3>2 DEF BatchInv, StackInv
    <3> QED BY <3>1, <3>3, RecordsUndo DEF At
  <2> QED BY <2>1, <2>2, <2>3, <2>4, <2>5, <2>6, CallEnds
<1> QED BY <1>1, StepInvariant, BatchInvariant, PTL
        DEF StepSpec, ChangesAreUndoable

(* However undo_last ends, what it restored is marked and what it marked   *)
(* is restored, for the files nobody else touched.                         *)
THEOREM UndoWhole == StepSpec => UndoIsWhole
<1>1. StepInv /\ BatchInv /\ [StepNext]_stepVars =>
        [~ Idle /\ Idle' /\ reply'.op = "undo_last" =>
           \A f \in Files \ raced :
             /\ \A i \in 1..Len(undo') :
                  Marked(i) /\ undo'[i].file = f => disk'[f] = undo'[i].snap
             /\ disk'[f] # start.disk[f] =>
                  \E i \in 1..Len(undo') :
                    Marked(i) /\ undo'[i].file = f]_stepVars
  <2> SUFFICES ASSUME StepInv, BatchInv, StepNext, ~ Idle, Idle',
                      reply'.op = "undo_last", NEW f \in Files \ raced
               PROVE  /\ \A i \in 1..Len(undo') :
                           Marked(i) /\ undo'[i].file = f =>
                             disk'[f] = undo'[i].snap
                      /\ disk'[f] # start.disk[f] =>
                           \E i \in 1..Len(undo') :
                             Marked(i) /\ undo'[i].file = f
      OBVIOUS
  <2>1. Handler
    <3>1. ~ Kill
        BY DEF Kill, NoReply, Answer
    <3> QED BY <3>1, OnlyHandlersEnd
  <2>2. call.op = "undo_last" /\ UNCHANGED <<disk, undo>>
    <3>1. call \in Call
        BY DEF StepInv, StepType
    <3>2. ~ Restored /\ ~ AnswerSuccess
      <4>1. ASSUME At("restore") \/ At("answer")
            PROVE  call.op # "undo_last"
          BY <4>1 DEF At, StepInv, CallShape
      <4> QED BY <4>1 DEF Restored, AnswerSuccess, Fail, Answer
    <3>3. ~ Record
      <4>1. ASSUME Record, Refuses("E_PATCH_EXPIRED")
                           \/ Refuses("E_PATCH_ALREADY_APPLIED")
            PROVE  FALSE
          BY <4>1, RefusalReply DEF Record, At, StepInv, CallShape
      <4>2. ASSUME Record, Onward(call, "answer")
            PROVE  FALSE
          BY <3>1, <4>2 DEF Record, Onward, Idle, At, Call
      <4> QED BY <4>1, <4>2 DEF Record
    <3>4. CASE AnswerUndo
        BY <3>4 DEF AnswerUndo, At, StepInv, CallShape
    <3>5. CASE Aborts
        BY <3>5, RefusalReply DEF Aborts
    <3>6. CASE /\ At("compare") /\ UNCHANGED <<disk, patches, undo>>
               /\ Refuses("E_FILE_NOT_FOUND") \/ Refuses("E_FILE_MODIFIED")
        BY <3>6, RefusalReply
    <3> QED BY <2>1, <3>2, <3>3, <3>4, <3>5, <3>6, CallEnds
  <2> DEFINE at == call.at
  <2>3. /\ undo = IF At("reread")
                  THEN [start.undo EXCEPT ![at].reverted = TRUE]
                  ELSE start.undo
        /\ at \in 1..Len(start.undo) /\ ~ start.undo[at].reverted
        /\ disk[f] = IF At("reread") /\ f = start.undo[at].file
                     THEN start.undo[at].snap ELSE start.disk[f]
      BY <2>2 DEF BatchInv, RevertInv
  <2>4. CASE ~ At("reread")
      BY <2>2, <2>3, <2>4 DEF Marked
  <2>5. CASE At("reread")
    <3>1. start.undo \in Seq(UndoPatchRecord)
        BY DEF StepInv, StepType, StateType
    <3>2. start.undo[at] \in UndoPatchRecord
        BY <2>3, <3>1, ElementOfSeq
    <3>3. start.undo \in [1..Len(start.undo) -> UndoPatchRecord]
        BY <3>1
    <3>4. undo' = [start.undo EXCEPT ![at] =
                     [start.undo[at] EXCEPT !.reverted = TRUE]]
        BY <2>2, <2>3, <2>5
    <3>5. /\ Len(undo') = Len(start.undo)
          /\ undo'[at].reverted
          /\ undo'[at].file = start.undo[at].file
          /\ undo'[at].snap = start.undo[at].snap
          /\ \A i \in 1..Len(start.undo) : i # at => undo'[i] = start.undo[i]
      <4>1. [start.undo[at] EXCEPT !.reverted = TRUE] \in UndoPatchRecord
          BY <3>2 DEF UndoPatchRecord
      <4>2. Len(undo') = Len(start.undo)
          BY <2>3, <3>1, <3>4, <4>1, ExceptSeq
      <4>3. undo'[at] = [start.undo[at] EXCEPT !.reverted = TRUE]
          BY <2>3, <3>3, <3>4
      <4>4. \A i \in 1..Len(start.undo) : i # at => undo'[i] = start.undo[i]
          BY <3>3, <3>4
      <4> QED BY <3>2, <4>2, <4>3, <4>4 DEF UndoPatchRecord
    <3>6. \A i \in 1..Len(undo') : Marked(i) <=> i = at
        BY <2>3, <3>5 DEF Marked
    <3> HIDE DEF at
    <3> QED BY <2>2, <2>3, <2>5, <3>5, <3>6
  <2> QED BY <2>4, <2>5
<1> QED BY <1>1, StepInvariant, BatchInvariant, PTL
        DEF StepSpec, UndoIsWhole
=============================================================================
