----------------------------- MODULE RefineProofs -----------------------------
(***************************************************************************)
(* apply_patch, commit_transaction and undo_last one access to the tree at *)
(* a time implement their one-step descriptions in Engine, when nothing    *)
(* else happens while they run.                                            *)
(***************************************************************************)
EXTENDS BatchProofs

\* The first k patches of the batch.
BatchIds(k) == {call.ids[i] : i \in 1..k}

\* The cache is as the call found it, but for what it marked; each of these
\* could be marked.
MarkInv ==
    /\ \A i \in 1..Len(call.ids) : Atomic!Known(call.ids[i])
    /\ patches = Atomic!MarkApplied(BatchIds(Recorded))
    /\ \A i \in 1..Recorded : Atomic!MarkError(call.ids[i]) = "none"

\* What the call found when it began.
GuardInv ==
    /\ call.op = "apply_patch" => Atomic!Pending(call.ids[1])
    /\ call.op = "commit_transaction" => ~ tx_is_expired
    /\ call.op = "undo_last" =>
         \E filter \in Files \cup {AnyFile} :
            Newest(Atomic!Eligible(filter), call.at)

\* What the checkers said of the batch on disk.
CheckInv ==
    /\ At("verify") =>
         /\ call.verify
         /\ \A i \in 1..(call.at - 1) : Passes(WrittenDisk, BatchTarget[i])
    /\ At("record") \/ At("answer") =>
         (call.verify =>
            \A i \in 1..Len(call.ids) : Passes(WrittenDisk, BatchTarget[i]))

\* Why a batch is being rolled back.
StopInv ==
    At("restore") =>
      \/ /\ Faults /\ call.wrote < Len(call.ids)
         /\ call.op = "commit_transaction"
      \/ /\ call.wrote = Len(call.ids) /\ call.verify
         /\ \E i \in 1..Len(call.ids) : ~ Passes(WrittenDisk, BatchTarget[i])
      \/ /\ Faults /\ call.wrote = Len(call.ids) /\ call.verify
         /\ \E i \in 1..Len(call.ids) : BatchTarget[i] \in Checked

AloneInv == raced = {} /\ MarkInv /\ GuardInv /\ CheckInv /\ StopInv
-----------------------------------------------------------------------------
(* The running call as Engine describes it.                                *)

LEMMA AtomicOverwrite ==
    ASSUME NEW d, NEW target, NEW content, NEW k
    PROVE  Atomic!Overwrite(d, target, content, k)
             = Overwrite(d, target, content, k)
BY DEF Atomic!Overwrite, Atomic!LastFor, Overwrite, LastFor

(* The files, bases and texts of the batch are those of its patches as the *)
(* call found them.                                                        *)
LEMMA AsFound ==
    ASSUME StepInv, AloneInv, NEW i \in 1..Len(call.ids)
    PROVE  /\ call.ids[i] \in PatchIds
           /\ start.patches[call.ids[i]] \in PatchProposal
           /\ Atomic!FileOf(call.ids[i]) = BatchTarget[i]
           /\ start.patches[call.ids[i]].base = BatchBase[i]
           /\ start.patches[call.ids[i]].new = BatchNew[i]
           /\ BatchTarget[i] \in Files /\ BatchBase[i] \in Content
           /\ BatchNew[i] \in Content
<1> DEFINE p == call.ids[i]
<1>1. p \in PatchIds
    BY PatchType
<1>2. start.patches[p] \in PatchProposal
  <2>1. start.patches \in PatchesType /\ start.patches[p] # NoPatch
      BY DEF StepInv, StepType, StateType, AloneInv, MarkInv, Atomic!Known
  <2> QED BY <1>1, <2>1 DEF PatchesType
<1>3. \/ patches[p] = start.patches[p]
      \/ patches[p] = [start.patches[p] EXCEPT !.status = "applied"]
    BY <1>1 DEF AloneInv, MarkInv, Atomic!MarkApplied
<1>4. /\ patches[p].path = start.patches[p].path
      /\ patches[p].base = start.patches[p].base
      /\ patches[p].new = start.patches[p].new
    BY <1>2, <1>3 DEF PatchProposal
<1> HIDE DEF p
<1>5. /\ FileOf(p) = start.patches[p].path.file
      /\ FileOf(p) \in Files /\ patches[p].base \in Content
      /\ patches[p].new \in Content
    BY <1>4, PatchType DEF p, FileOf
<1> QED BY <1>1, <1>2, <1>4, <1>5
        DEF p, Atomic!FileOf, BatchTarget, BatchBase, BatchNew

(* The tree is what the batch made of the one it found.                    *)
LEMMA WholeDisk ==
    ASSUME StepInv, BatchInv, AloneInv, Batching
    PROVE  disk = BatchDisk /\ start.disk \in DiskType
<1>1. disk \in DiskType /\ start.disk \in DiskType
    BY DEF StepInv, StepType, StateType, TypeInv, TypeOK
<1>2. BatchDisk = [f \in Files |-> BatchDisk[f]]
    BY DEF BatchDisk, WrittenDisk, Overwrite
<1>3. \A f \in Files : disk[f] = BatchDisk[f]
    BY DEF BatchInv, DiskInv, AloneInv
<1> QED BY <1>1, <1>2, <1>3 DEF DiskType

(* The batch of a commit.                                                  *)
LEMMA AtomicBatch ==
    ASSUME StepInv, AloneInv, call.op = "commit_transaction"
    PROVE  /\ Atomic!Count = Len(call.ids)
           /\ \A i \in 1..Len(call.ids) : Atomic!Staged(i) = call.ids[i]
           /\ Atomic!Target = BatchTarget /\ Atomic!NewContent = BatchNew
           /\ \A k \in Nat : Atomic!Wrote(k) =
                Overwrite(start.disk, BatchTarget, BatchNew, k)
<1>1. call.ids = tx.staged
    BY DEF StepInv, CallShape, BatchShape
<1>2. /\ Atomic!Count = Len(call.ids)
      /\ \A i \in 1..Len(call.ids) : Atomic!Staged(i) = call.ids[i]
    BY <1>1 DEF Atomic!Count, Atomic!Staged
<1>3. Atomic!Target = BatchTarget
  <2>1. Atomic!Target = [i \in 1..Len(call.ids) |-> Atomic!FileOf(call.ids[i])]
      BY <1>1 DEF Atomic!Target, Atomic!Count, Atomic!Staged
  <2>2. BatchTarget = [i \in 1..Len(call.ids) |-> FileOf(call.ids[i])]
      BY DEF BatchTarget
  <2>3. \A i \in 1..Len(call.ids) : Atomic!FileOf(call.ids[i]) = BatchTarget[i]
      BY AsFound
  <2> QED BY <2>1, <2>2, <2>3
<1>4. Atomic!NewContent = BatchNew
  <2>1. Atomic!NewContent =
          [i \in 1..Len(call.ids) |-> start.patches[call.ids[i]].new]
      BY <1>1 DEF Atomic!NewContent, Atomic!Count, Atomic!Staged
  <2>2. BatchNew = [i \in 1..Len(call.ids) |-> patches[call.ids[i]].new]
      BY DEF BatchNew
  <2>3. \A i \in 1..Len(call.ids) : start.patches[call.ids[i]].new = BatchNew[i]
      BY AsFound
  <2> QED BY <2>1, <2>2, <2>3
<1> QED BY <1>2, <1>3, <1>4, AtomicOverwrite DEF Atomic!Wrote

(* What was compared passes Engine's test.                                 *)
LEMMA AtomicCas ==
    ASSUME StepInv, BatchInv, AloneInv, NEW i \in 1..Len(call.ids),
           At("compare") => i < call.at
    PROVE  /\ start.disk[BatchTarget[i]] \in Content
           /\ Normalize[start.disk[BatchTarget[i]]] = BatchBase[i]
           /\ Atomic!Swappable(call.ids[i])
<1>1. /\ start.disk[BatchTarget[i]] # Missing
      /\ Normalize[start.disk[BatchTarget[i]]] = BatchBase[i]
    BY DEF BatchInv, CasInv, AloneInv
<1>2. start.disk[BatchTarget[i]] \in Content
    BY <1>1, AsFound DEF StepInv, StepType, StateType, DiskType
<1> QED BY <1>1, <1>2, AsFound
        DEF Atomic!Swappable, Atomic!Exists, Atomic!HashMatches,
            Atomic!compute_content_hash

LEMMA AtomicCasCommit ==
    ASSUME StepInv, BatchInv, AloneInv, call.op = "commit_transaction",
           NEW i \in 1..Len(call.ids), At("compare") => i < call.at
    PROVE  Atomic!CasError(i) = "none"
<1>1. Atomic!Target[i] = BatchTarget[i] /\ Atomic!Staged(i) = call.ids[i]
    BY AtomicBatch
<1> QED BY <1>1, AtomicCas, AsFound, ContentAssumption
        DEF Atomic!CasError, Atomic!Exists, Atomic!HashMatches,
            Atomic!compute_content_hash

(* The snapshots, once they are complete.                                  *)
LEMMA AtomicSnapshots ==
    ASSUME StepInv, BatchInv, AloneInv, Batching,
           Len(call.snaps) = Len(call.ids), ~ At("compare")
    PROVE  /\ \A i \in 1..Len(call.ids) :
                /\ call.snaps[i] = GitClean[start.disk[BatchTarget[i]]]
                /\ call.snaps[i] = Atomic!snapshot(BatchTarget[i])
           /\ call.op = "commit_transaction" =>
                /\ Atomic!Snapshots = call.snaps
                /\ \A k, r \in Nat : Atomic!RolledBack(k, r) =
                     Overwrite(Overwrite(start.disk, BatchTarget, BatchNew, k),
                               BatchTarget, call.snaps, r)
<1>1. \A i \in 1..Len(call.ids) :
        /\ call.snaps[i] = GitClean[start.disk[BatchTarget[i]]]
        /\ call.snaps[i] = Atomic!snapshot(BatchTarget[i])
    BY DEF BatchInv, SnapInv, AloneInv, Atomic!snapshot
<1>2. ASSUME call.op = "commit_transaction"
      PROVE  /\ Atomic!Snapshots = call.snaps
             /\ \A k, r \in Nat : Atomic!RolledBack(k, r) =
                     Overwrite(Overwrite(start.disk, BatchTarget, BatchNew, k),
                               BatchTarget, call.snaps, r)
  <2>1. call.snaps \in [1..Len(call.ids) -> Content]
    <3>1. call.snaps \in Seq(Content)
        BY CallFields DEF StepInv, StepType
    <3> QED BY <3>1
  <2>2. Atomic!Snapshots =
          [i \in 1..Len(call.ids) |-> Atomic!snapshot(BatchTarget[i])]
      BY <1>2, AtomicBatch DEF Atomic!Snapshots
  <2>3. Atomic!Snapshots = call.snaps
      BY <1>1, <2>1, <2>2
  <2> QED BY <1>2, <2>3, AtomicBatch, AtomicOverwrite DEF Atomic!RolledBack
<1> QED BY <1>1, <1>2

-----------------------------------------------------------------------------
(* How the steps keep the invariant.                                       *)

(* A call that is over, or has not begun.                                  *)
LEMMA IdleAlone ==
    ASSUME StepInv', Idle', raced' = {}
    PROVE  AloneInv'
<1>1. /\ call' = NoCall /\ start' = Now' /\ call'.pc = "idle"
      /\ call'.op = "none" /\ call'.ids = <<>>
    BY NoCallShape DEF StepInv, CallShape
<1>2. Recorded' = 0 /\ BatchIds(0)' = {}
    BY <1>1 DEF Recorded, At, BatchIds
<1>3. start'.patches = patches' /\ patches' \in PatchesType
    BY <1>1 DEF Now, StepInv, StepType, TypeInv, TypeOK
<1>4. patches' = [p \in PatchIds |-> start'.patches[p]]
    BY <1>3 DEF PatchesType
<1>5. Atomic!MarkApplied({})' = [p \in PatchIds |-> start'.patches[p]]
    BY DEF Atomic!MarkApplied
<1>6. MarkInv'
  <2>1. patches' = Atomic!MarkApplied(BatchIds(Recorded))'
      BY <1>2, <1>4, <1>5
  <2> QED BY <1>1, <1>2, <2>1, EmptySeq DEF MarkInv
<1> QED BY <1>1, <1>6 DEF AloneInv, GuardInv, CheckInv, StopInv, At

(* What need not be argued again for each step of a running batch.         *)
LEMMA AloneFrame ==
    ASSUME StepInv, AloneInv, Batching, call'.op = call.op,
           call'.ids = call.ids, call'.verify = call.verify,
           start' = start, raced' = raced, tx' = tx
    PROVE  /\ raced' = {} /\ GuardInv'
           /\ patches' = patches /\ Recorded' = Recorded => MarkInv'
           /\ call'.pc \in {"compare", "snapshot", "write"} =>
                CheckInv' /\ StopInv'
<1>1. raced' = {}
    BY DEF AloneInv
<1>2. GuardInv'
  <2>1. call.op = "apply_patch" => Atomic!Pending(call.ids[1])'
      BY DEF AloneInv, GuardInv, Atomic!Pending, Atomic!GetError,
             Atomic!Known, Atomic!is_expired
  <2>2. call.op = "commit_transaction" => ~ tx_is_expired'
      BY DEF AloneInv, GuardInv, tx_is_expired
  <2> QED BY <2>1, <2>2 DEF GuardInv, Batching
<1>3. ASSUME patches' = patches, Recorded' = Recorded
      PROVE  MarkInv'
  <2>1. Atomic!MarkApplied(BatchIds(Recorded))' =
          Atomic!MarkApplied(BatchIds(Recorded))
      BY <1>3 DEF Atomic!MarkApplied, BatchIds
  <2>2. \A i \in 1..Len(call.ids) : Atomic!Known(call.ids[i])'
      BY DEF AloneInv, MarkInv, Atomic!Known
  <2>3. \A i \in 1..Recorded : Atomic!MarkError(call.ids[i])' = "none"
      BY <1>3 DEF AloneInv, MarkInv, Atomic!MarkError, Atomic!is_expired
  <2> QED BY <1>3, <2>1, <2>2, <2>3 DEF AloneInv, MarkInv
<1>4. ASSUME call'.pc \in {"compare", "snapshot", "write"}
      PROVE  CheckInv' /\ StopInv'
    BY <1>4 DEF CheckInv, StopInv, At
<1> QED BY <1>1, <1>2, <1>3, <1>4

LEMMA RefusesAlone ==
    ASSUME StepInv', NEW code, Refuses(code) \/ Ends
    PROVE  AloneInv'
<1>1. call' = NoCall /\ raced' = {} /\ call'.pc = "idle"
    BY NoCallShape DEF Refuses, Ends
<1> QED BY <1>1, IdleAlone DEF Idle

LEMMA CompareAlone ==
    ASSUME StepInv, StepInv', AloneInv, Compare
    PROVE  AloneInv'
<1>1. CASE Onward(call, "snapshot")
  <2>1. At("compare") /\ call \in Call /\ call.at \in 1..Len(call.ids)
        /\ "snapshot" \in Phases /\ Batching
      BY InBatch DEF Compare, At, StepInv, StepType, CallShape, LoopShape,
         Phases
  <2>2. /\ call'.pc \in {"compare", "snapshot"}
        /\ call'.op = call.op /\ call'.ids = call.ids
        /\ call'.verify = call.verify /\ start' = start /\ raced' = raced
        /\ tx' = tx
      BY <1>1, <2>1, OnwardStep DEF At
  <2>3. patches' = patches /\ Recorded = 0 /\ Recorded' = 0
      BY <2>1, <2>2 DEF Compare, Recorded, At
  <2> QED BY <2>1, <2>2, <2>3, AloneFrame DEF AloneInv
<1> QED BY <1>1, RefusesAlone DEF Compare

LEMMA TakeSnapshotAlone ==
    ASSUME StepInv, StepInv', AloneInv, TakeSnapshot
    PROVE  AloneInv'
<1>1. /\ At("snapshot") /\ call \in Call /\ call.at \in 1..Len(call.ids)
      /\ Batching
    BY InBatch DEF TakeSnapshot, At, StepInv, StepType, CallShape, LoopShape
<1> DEFINE snap == IF Exists(File) THEN snapshot(File) ELSE Empty
           c == [call EXCEPT !.snaps = Append(call.snaps, snap)]
<1>2. CASE Onward(c, "write")
  <2>1. /\ c.pc = call.pc /\ c.op = call.op /\ c.ids = call.ids
        /\ c.verify = call.verify /\ c.at = call.at
        /\ [c EXCEPT !.at = c.at + 1].pc = call.pc
        /\ [c EXCEPT !.at = c.at + 1].op = call.op
        /\ [c EXCEPT !.at = c.at + 1].ids = call.ids
        /\ [c EXCEPT !.at = c.at + 1].verify = call.verify
        /\ [c EXCEPT !.pc = "write", !.at = 1].pc = "write"
        /\ [c EXCEPT !.pc = "write", !.at = 1].op = call.op
        /\ [c EXCEPT !.pc = "write", !.at = 1].ids = call.ids
        /\ [c EXCEPT !.pc = "write", !.at = 1].verify = call.verify
      BY <1>1 DEF Call
  <2> HIDE DEF c
  <2>2. /\ call'.pc \in {"snapshot", "write"}
        /\ call'.op = call.op /\ call'.ids = call.ids
        /\ call'.verify = call.verify /\ start' = start /\ raced' = raced
        /\ tx' = tx
      BY <1>1, <1>2, <2>1 DEF Onward, txVars, At
  <2>3. patches' = patches /\ Recorded = 0 /\ Recorded' = 0
      BY <1>1, <2>2 DEF TakeSnapshot, Recorded, At
  <2> QED BY <1>1, <2>2, <2>3, AloneFrame DEF AloneInv
<1> QED BY <1>2, RefusesAlone DEF TakeSnapshot

LEMMA WriteAlone ==
    ASSUME StepInv, StepInv', AloneInv, Write
    PROVE  AloneInv'
<1>1. /\ At("write") /\ call \in Call /\ call.at \in 1..Len(call.ids)
      /\ "verify" \in Phases /\ "record" \in Phases /\ "restore" \in Phases
      /\ Batching /\ call.wrote = call.at - 1 /\ call.verify \in BOOLEAN
    BY InBatch, CallFields DEF Write, At, StepInv, StepType, CallShape,
       LoopShape, Progress, Phases
<1>2. patches' = patches
    BY DEF Write
<1> DEFINE c == [call EXCEPT !.wrote = call.wrote + 1]
           next == IF call.verify THEN "verify" ELSE "record"
<1>3. CASE Onward(c, next)
  <2>1. /\ c \in Call /\ c.pc = call.pc /\ c.op = call.op /\ c.ids = call.ids
        /\ c.at = call.at /\ c.verify = call.verify
        /\ next \in Phases
        /\ \/ next = "verify" /\ call.verify
           \/ next = "record" /\ ~ call.verify
      BY <1>1, CallFields DEF Call
  <2> HIDE DEF c, next
  <2>2. /\ \/ call'.pc = "write"
           \/ call'.pc = next /\ call'.at = 1
        /\ call'.op = call.op /\ call'.ids = call.ids
        /\ call'.verify = call.verify /\ start' = start /\ raced' = raced
        /\ tx' = tx
      BY <1>1, <1>3, <2>1, OnwardStep DEF At
  <2>3. Recorded = 0 /\ Recorded' = 0
      BY <1>1, <2>1, <2>2 DEF Recorded, At
  <2>4. raced' = {} /\ GuardInv' /\ MarkInv'
      BY <1>1, <1>2, <2>2, <2>3, AloneFrame
  <2>5. CASE call'.pc = "write"
      BY <1>1, <2>2, <2>4, <2>5, AloneFrame DEF AloneInv
  <2>6. CASE call'.pc = next /\ call'.at = 1
    <3>1. StopInv'
        BY <2>1, <2>6 DEF StopInv, At
    <3>2. CheckInv'
        BY <2>1, <2>2, <2>6 DEF CheckInv, At
    <3> QED BY <2>4, <3>1, <3>2 DEF AloneInv
  <2> QED BY <2>2, <2>5, <2>6
<1>4. CASE Faults /\ Raised
  <2>1. CASE call.op = "commit_transaction" /\ GoesTo("restore")
    <3>1. /\ call'.pc = "restore" /\ call'.op = call.op
          /\ call'.ids = call.ids /\ call'.verify = call.verify
          /\ call'.wrote = call.wrote /\ start' = start /\ raced' = raced
          /\ tx' = tx
        BY <1>1, <2>1, GoesToStep
    <3>2. Recorded = 0 /\ Recorded' = 0
        BY <1>1, <3>1 DEF Recorded, At
    <3>3. raced' = {} /\ GuardInv' /\ MarkInv'
        BY <1>1, <1>2, <3>1, <3>2, AloneFrame
    <3>4. call.wrote < Len(call.ids)
        BY <1>1, CallFields
    <3>5. CheckInv' /\ StopInv'
        BY <1>4, <2>1, <3>1, <3>4 DEF CheckInv, StopInv, At
    <3> QED BY <3>3, <3>5 DEF AloneInv
  <2> QED BY <1>4, <2>1, RefusesAlone DEF Raised
<1> QED BY <1>3, <1>4 DEF Write

(* A file the batch has written is there: it was there to be compared.     *)
LEMMA WrittenExists ==
    ASSUME StepInv, BatchInv, AloneInv, Batching, ~ At("compare"),
           call.wrote \in 0..Len(call.ids), NEW i \in 1..Len(call.ids)
    PROVE  WrittenDisk[BatchTarget[i]] \in Content
<1>1. BatchTarget[i] \in Files /\ start.disk[BatchTarget[i]] \in Content
    BY AsFound, AtomicCas
<1>2. call.wrote \in Nat /\ \A j \in 1..call.wrote : j \in 1..Len(call.ids)
    BY CallFields DEF StepInv, StepType
<1>3. \A j \in 1..call.wrote : BatchNew[j] \in Content
    BY <1>2, AsFound
<1> QED BY <1>1, <1>2, <1>3, OverwriteCases DEF WrittenDisk

LEMMA VerifyAlone ==
    ASSUME StepInv, StepInv', BatchInv, AloneInv, Verify
    PROVE  AloneInv'
<1>1. /\ At("verify") /\ call \in Call /\ call.at \in 1..Len(call.ids)
      /\ "record" \in Phases /\ "restore" \in Phases
      /\ Batching /\ call.wrote = Len(call.ids) /\ call.verify
      /\ Len(call.ids) \in Nat
    BY InBatch, CallFields DEF Verify, At, StepInv, StepType, CallShape,
       LoopShape, Progress, Phases, AloneInv, CheckInv
<1>2. patches' = patches
    BY DEF Verify
<1>3. BatchTarget[call.at] = File
    BY <1>1 DEF BatchTarget, File, Patch
<1>4. disk = WrittenDisk
    BY <1>1, WholeDisk DEF BatchDisk, At
<1>5. /\ ~ Rejected => Passes(WrittenDisk, BatchTarget[call.at])
      /\ Rejected => ~ Passes(WrittenDisk, BatchTarget[call.at])
  <2>1. WrittenDisk[BatchTarget[call.at]] \in Content
      BY <1>1, WrittenExists DEF At
  <2>2. Exists(File)
      BY <1>3, <1>4, <2>1, ContentAssumption DEF Exists
  <2> QED BY <1>3, <1>4, <2>2 DEF Rejected, Passes
<1>6. ASSUME call'.op = call.op, call'.ids = call.ids,
             call'.verify = call.verify, call'.wrote = call.wrote,
             Recorded' = 0, start' = start, raced' = raced, tx' = tx
      PROVE  /\ raced' = {} /\ GuardInv' /\ MarkInv'
             /\ WrittenDisk' = WrittenDisk /\ BatchTarget' = BatchTarget
  <2>1. Recorded = 0
      BY <1>1 DEF Recorded, At
  <2>2. raced' = {} /\ GuardInv' /\ MarkInv'
      BY <1>1, <1>2, <1>6, <2>1, AloneFrame
  <2>3. BatchTarget' = BatchTarget /\ BatchNew' = BatchNew
      BY <1>2, <1>6, UnchangedIsFrozen, SameBatch
  <2> QED BY <1>6, <2>2, <2>3 DEF WrittenDisk
<1>7. CASE ~ Rejected /\ Onward(call, "record")
  <2>1. /\ \/ /\ call.at < Len(call.ids) /\ call'.pc = "verify"
              /\ call'.at = call.at + 1
           \/ /\ call.at = Len(call.ids) /\ call'.pc = "record"
              /\ call'.at = 1
        /\ call'.op = call.op /\ call'.ids = call.ids
        /\ call'.verify = call.verify /\ call'.wrote = call.wrote
        /\ start' = start /\ raced' = raced /\ tx' = tx
      BY <1>1, <1>7, OnwardStep DEF At
  <2>2. /\ raced' = {} /\ GuardInv' /\ MarkInv'
        /\ WrittenDisk' = WrittenDisk /\ BatchTarget' = BatchTarget
    <3>1. Recorded' = 0
        BY <2>1 DEF Recorded, At
    <3> QED BY <1>6, <2>1, <3>1
  <2>3. \A i \in 1..call.at : Passes(WrittenDisk, BatchTarget[i])
    <3>1. \A i \in 1..(call.at - 1) : Passes(WrittenDisk, BatchTarget[i])
        BY <1>1 DEF AloneInv, CheckInv
    <3>2. \A i \in 1..call.at : i \in 1..(call.at - 1) \/ i = call.at
        BY <1>1
    <3> QED BY <1>5, <1>7, <3>1, <3>2
  <2>4. CheckInv'
    <3>1. CASE /\ call.at < Len(call.ids) /\ call'.pc = "verify"
               /\ call'.at = call.at + 1
      <4>1. call'.at - 1 = call.at
          BY <1>1, <3>1
      <4> QED BY <1>1, <2>1, <2>2, <2>3, <3>1, <4>1 DEF CheckInv, At, Passes
    <3>2. CASE call.at = Len(call.ids) /\ call'.pc = "record"
        BY <2>1, <2>2, <2>3, <3>2 DEF CheckInv, At, Passes
    <3> QED BY <2>1, <3>1, <3>2
  <2>5. StopInv'
      BY <2>1 DEF StopInv, At
  <2> QED BY <2>2, <2>4, <2>5 DEF AloneInv
<1>8. CASE /\ GoesTo("restore")
           /\ Rejected \/ CheckFails(File)
  <2>1. /\ call'.pc = "restore" /\ call'.op = call.op
        /\ call'.ids = call.ids /\ call'.verify = call.verify
        /\ call'.wrote = call.wrote /\ start' = start /\ raced' = raced
        /\ tx' = tx
      BY <1>1, <1>8, GoesToStep
  <2>2. /\ raced' = {} /\ GuardInv' /\ MarkInv'
        /\ WrittenDisk' = WrittenDisk /\ BatchTarget' = BatchTarget
    <3>1. Recorded' = 0
        BY <2>1 DEF Recorded, At
    <3> QED BY <1>6, <2>1, <3>1
  <2>3. CheckInv'
      BY <2>1 DEF CheckInv, At
  <2>4. StopInv'
      BY <1>1, <1>3, <1>5, <1>8, <2>1, <2>2 DEF StopInv, At, Passes, CheckFails
  <2> QED BY <2>2, <2>3, <2>4 DEF AloneInv
<1> QED BY <1>7, <1>8, RefusesAlone DEF Verify, Raised

LEMMA RestoreAlone ==
    ASSUME StepInv, StepInv', AloneInv, Restore
    PROVE  AloneInv'
<1>1. At("restore") /\ call \in Call /\ Batching
    BY InBatch DEF Restore, At, StepInv, StepType
<1>2. ASSUME call' = [call EXCEPT !.at = call.at + 1],
             UNCHANGED <<reply, start, raced, orphans>>, UNCHANGED txVars
      PROVE  AloneInv'
  <2>1. /\ call'.pc = "restore" /\ call'.op = call.op
        /\ call'.ids = call.ids /\ call'.verify = call.verify
        /\ call'.wrote = call.wrote /\ start' = start /\ raced' = raced
        /\ tx' = tx /\ patches' = patches
      BY <1>1, <1>2 DEF Call, At, txVars, Restore
  <2>2. Recorded = 0 /\ Recorded' = 0
      BY <1>1, <2>1 DEF Recorded, At
  <2>3. raced' = {} /\ GuardInv' /\ MarkInv'
      BY <1>1, <2>1, <2>2, AloneFrame
  <2>4. BatchTarget' = BatchTarget /\ WrittenDisk' = WrittenDisk
    <3>1. BatchTarget' = BatchTarget /\ BatchNew' = BatchNew
        BY <2>1, UnchangedIsFrozen, SameBatch
    <3> QED BY <2>1, <3>1 DEF WrittenDisk
  <2>5. CheckInv'
      BY <2>1 DEF CheckInv, At
  <2>6. StopInv'
      BY <1>1, <2>1, <2>4 DEF AloneInv, StopInv, At, Passes
  <2> QED BY <2>3, <2>5, <2>6 DEF AloneInv
<1> QED BY <1>2, RefusesAlone DEF Restore

(* The patch a batch is about to mark is as the call found it.             *)
LEMMA NotYetMarked ==
    ASSUME StepInv, AloneInv, At("record")
    PROVE  /\ Patch \in PatchIds /\ patches[Patch] = start.patches[Patch]
           /\ MarkError(Patch) = Atomic!MarkError(Patch)
<1>1. /\ call.at \in 1..Len(call.ids) /\ Recorded = call.at - 1
      /\ Patch = call.ids[call.at] /\ Patch \in PatchIds
    BY PatchType DEF At, StepInv, CallShape, LoopShape, Recorded, Patch
<1>2. Patch \notin BatchIds(Recorded)
  <2>1. \A i \in 1..Recorded : i \in 1..Len(call.ids) /\ i # call.at
      BY <1>1, CallFields DEF StepInv, StepType
  <2> QED BY <1>1, <2>1 DEF BatchIds, StepInv, CallShape, BatchShape
<1>3. patches[Patch] = start.patches[Patch]
    BY <1>1, <1>2 DEF AloneInv, MarkInv, Atomic!MarkApplied
<1> QED BY <1>1, <1>3
        DEF MarkError, is_expired, Atomic!MarkError, Atomic!is_expired

LEMMA RecordAlone ==
    ASSUME StepInv, StepInv', AloneInv, Record
    PROVE  AloneInv'
<1>1. /\ At("record") /\ call \in Call /\ call.at \in 1..Len(call.ids)
      /\ "answer" \in Phases /\ Batching /\ call.at \in Nat
      /\ Len(call.ids) \in Nat
    BY InBatch, CallFields DEF Record, At, StepInv, StepType, CallShape,
       LoopShape, Phases
<1>2. CASE /\ MarkError(Patch) = "none" /\ patches' = MarkApplied({Patch})
           /\ Onward(call, "answer")
  <2>1. /\ \/ /\ call.at < Len(call.ids) /\ call'.pc = "record"
              /\ call'.at = call.at + 1
           \/ call.at = Len(call.ids) /\ call'.pc = "answer"
        /\ call'.op = call.op /\ call'.ids = call.ids
        /\ call'.verify = call.verify /\ call'.wrote = call.wrote
        /\ start' = start /\ raced' = raced /\ tx' = tx
      BY <1>1, <1>2, OnwardStep DEF At
  <2>2. raced' = {} /\ GuardInv'
      BY <1>1, <2>1, AloneFrame
  <2>3. Recorded = call.at - 1 /\ Recorded' = call.at
      BY <1>1, <2>1 DEF Recorded, At
  <2>4. Patch = call.ids[call.at] /\ BatchIds(Recorded)' = BatchIds(call.at)
      BY <2>1, <2>3 DEF BatchIds, Patch
  <2>5. BatchIds(call.at) = BatchIds(Recorded) \cup {Patch}
    <3>1. \A i : i \in 1..call.at <=> i \in 1..Recorded \/ i = call.at
        BY <1>1, <2>3
    <3> QED BY <2>4, <3>1 DEF BatchIds
  <2>6. MarkInv'
    <3>1. patches' = Atomic!MarkApplied(BatchIds(call.at))
      <4>1. patches = Atomic!MarkApplied(BatchIds(Recorded))
          BY DEF AloneInv, MarkInv
      <4>2. \A p \in PatchIds : patches[p] =
              IF p \in BatchIds(Recorded)
              THEN [start.patches[p] EXCEPT !.status = "applied"]
              ELSE start.patches[p]
          BY <4>1 DEF Atomic!MarkApplied
      <4>3. Patch \in PatchIds /\ patches[Patch] = start.patches[Patch]
          BY <1>1, NotYetMarked
      <4>4. patches' = [p \in PatchIds |->
              IF p \in {Patch} THEN [patches[p] EXCEPT !.status = "applied"]
                               ELSE patches[p]]
          BY <1>2 DEF MarkApplied
      <4>5. \A p \in PatchIds : patches'[p] =
              IF p \in BatchIds(call.at)
              THEN [start.patches[p] EXCEPT !.status = "applied"]
              ELSE start.patches[p]
        <5> SUFFICES ASSUME NEW p \in PatchIds
                     PROVE  patches'[p] =
                              IF p \in BatchIds(call.at)
                              THEN [start.patches[p] EXCEPT !.status = "applied"]
                              ELSE start.patches[p]
            OBVIOUS
        <5>1. CASE p = Patch
          <6>1. patches'[p] = [start.patches[p] EXCEPT !.status = "applied"]
              BY <4>3, <4>4, <5>1
          <6> QED BY <2>5, <5>1, <6>1
        <5>2. CASE p # Patch
          <6>1. patches'[p] = patches[p]
              BY <4>4, <5>2
          <6> QED BY <2>5, <4>2, <5>2, <6>1
        <5> QED BY <5>1, <5>2
      <4>6. patches' = [p \in PatchIds |-> patches'[p]]
          BY <4>4
      <4> QED BY <4>5, <4>6 DEF Atomic!MarkApplied
    <3>2. patches' = Atomic!MarkApplied(BatchIds(Recorded))'
        BY <2>1, <2>4, <3>1 DEF Atomic!MarkApplied
    <3>3. \A i \in 1..Len(call'.ids) : Atomic!Known(call.ids[i])'
        BY <2>1 DEF AloneInv, MarkInv, Atomic!Known
    <3>4. \A i \in 1..call.at : Atomic!MarkError(call.ids[i]) = "none"
      <4>1. \A i \in 1..Recorded : Atomic!MarkError(call.ids[i]) = "none"
          BY DEF AloneInv, MarkInv
      <4>2. \A i \in 1..call.at : i \in 1..Recorded \/ i = call.at
          BY <1>1, <2>3
      <4> QED BY <1>1, <1>2, <2>4, <4>1, <4>2, NotYetMarked
    <3>5. \A i \in 1..Recorded' : Atomic!MarkError(call.ids[i])' = "none"
        BY <2>1, <2>3, <3>4 DEF Atomic!MarkError, Atomic!is_expired
    <3> QED BY <3>2, <3>3, <3>5 DEF MarkInv
  <2>7. CheckInv'
    <3>1. BatchTarget' = BatchTarget /\ WrittenDisk' = WrittenDisk
      <4>1. BatchTarget' = BatchTarget /\ BatchNew' = BatchNew
          BY <2>1, RecordFrozen, SameBatch
      <4> QED BY <2>1, <4>1 DEF WrittenDisk
    <3> QED BY <1>1, <2>1, <3>1 DEF AloneInv, CheckInv, At, Passes
  <2>8. StopInv'
      BY <2>1 DEF StopInv, At
  <2> QED BY <2>2, <2>6, <2>7, <2>8 DEF AloneInv
<1> QED BY <1>2, RefusesAlone DEF Record

LEMMA RestoreRecordAlone ==
    ASSUME StepInv, StepInv', AloneInv, RestoreRecord
    PROVE  AloneInv'
<1>1. At("revert") /\ call \in Call /\ call.op = "undo_last"
    BY DEF RestoreRecord, At, StepInv, StepType, CallShape
<1>2. ASSUME call' = [call EXCEPT !.pc = "reread"],
             UNCHANGED <<reply, start, raced, orphans>>, UNCHANGED txVars
      PROVE  AloneInv'
  <2>1. /\ call'.pc = "reread" /\ call'.op = call.op /\ call'.at = call.at
        /\ call'.ids = call.ids /\ start' = start /\ raced' = raced
        /\ patches' = patches
      BY <1>1, <1>2 DEF Call, RestoreRecord
  <2>2. Recorded = 0 /\ Recorded' = 0
      BY <1>1, <2>1 DEF Recorded, At
  <2>3. MarkInv'
    <3>1. Atomic!MarkApplied(BatchIds(Recorded))' =
            Atomic!MarkApplied(BatchIds(Recorded))
        BY <2>1, <2>2 DEF Atomic!MarkApplied, BatchIds
    <3>2. \A i \in 1..Len(call.ids) : Atomic!Known(call.ids[i])'
        BY <2>1 DEF AloneInv, MarkInv, Atomic!Known
    <3> QED BY <2>1, <2>2, <3>1, <3>2 DEF AloneInv, MarkInv
  <2>4. GuardInv'
    <3>1. PICK filter \in Files \cup {AnyFile} :
            Newest(Atomic!Eligible(filter), call.at)
        BY <1>1 DEF AloneInv, GuardInv
    <3>2. Atomic!Eligible(filter)' = Atomic!Eligible(filter)
        BY <2>1 DEF Atomic!Eligible
    <3>3. Newest(Atomic!Eligible(filter)', call'.at)
        BY <2>1, <3>1, <3>2
    <3> QED BY <1>1, <2>1, <3>3 DEF GuardInv, Newest
  <2> QED BY <2>1, <2>3, <2>4 DEF AloneInv, CheckInv, StopInv, At
<1> QED BY <1>2, RefusesAlone DEF RestoreRecord

LEMMA HandlerAlone ==
    ASSUME StepInv, StepInv', BatchInv, AloneInv, Handler
    PROVE  AloneInv'
<1>1. CASE Restored \/ AnswerSuccess \/ AnswerUndo
    BY <1>1, RefusesAlone DEF Restored, AnswerSuccess, AnswerUndo
<1> QED BY <1>1, CompareAlone, TakeSnapshotAlone, WriteAlone, VerifyAlone,
           RestoreAlone, RecordAlone, RestoreRecordAlone DEF Handler

(* A call that begins finds what its guard asks for.                       *)
LEMMA StartsAlone ==
    ASSUME StepInv, AloneInv,
           NEW op \in {"apply_patch", "commit_transaction"},
           NEW ids \in Seq(PatchIds), NEW verify, Starts(op, ids, verify),
           \A i \in 1..Len(ids) : Known(ids[i]),
           op = "apply_patch" => Pending(ids[1]),
           op = "commit_transaction" => ~ tx_is_expired
    PROVE  AloneInv'
<1>1. /\ start = Now /\ start' = start /\ raced' = raced
      /\ patches' = patches /\ tx' = tx
    BY DEF Starts, vars, txVars, StepInv, CallShape
<1>2. /\ call'.op = op /\ call'.ids = ids /\ call'.at = 1
      /\ call'.pc = IF ids = <<>> THEN "answer" ELSE "compare"
    BY DEF Starts
<1>3. start'.patches = patches /\ patches \in PatchesType
    BY <1>1 DEF Now, StepInv, StepType, TypeInv, TypeOK
<1>4. Recorded' = 0 /\ BatchIds(0)' = {}
    BY <1>2, EmptySeq DEF Recorded, At, BatchIds
<1>5. MarkInv'
  <2>1. patches = [p \in PatchIds |-> patches[p]]
      BY <1>3 DEF PatchesType
  <2>2. Atomic!MarkApplied({})' = [p \in PatchIds |-> start'.patches[p]]
      BY DEF Atomic!MarkApplied
  <2>3. patches' = Atomic!MarkApplied(BatchIds(Recorded))'
      BY <1>1, <1>3, <1>4, <2>1, <2>2
  <2>4. \A i \in 1..Len(ids) : Atomic!Known(ids[i])'
      BY <1>3 DEF Known, Atomic!Known
  <2> QED BY <1>2, <1>4, <2>3, <2>4 DEF MarkInv
<1>6. GuardInv'
  <2>1. op = "apply_patch" => Atomic!Pending(ids[1])'
      BY <1>3 DEF Pending, GetError, Known, is_expired, Atomic!Pending,
         Atomic!GetError, Atomic!Known, Atomic!is_expired
  <2>2. op = "commit_transaction" => ~ tx_is_expired'
      BY <1>1 DEF tx_is_expired
  <2> QED BY <1>2, <2>1, <2>2 DEF GuardInv
<1>7. CheckInv'
  <2>1. CASE ids = <<>>
      BY <1>2, <2>1, EmptySeq DEF CheckInv, At
  <2>2. CASE ids # <<>>
      BY <1>2, <2>2 DEF CheckInv, At
  <2> QED BY <2>1, <2>2
<1>8. StopInv'
    BY <1>2 DEF StopInv, At
<1> QED BY <1>1, <1>5, <1>6, <1>7, <1>8 DEF AloneInv

LEMMA StartUndoAlone ==
    ASSUME StepInv, StepInv', AloneInv,
           NEW filter \in Files \cup {AnyFile}, StartUndo(filter)
    PROVE  AloneInv'
<1>1. /\ start = Now /\ start' = start /\ undo' = undo
      /\ patches' = patches /\ raced' = raced
    BY DEF StartUndo, vars, StepInv, CallShape
<1>2. PICK i \in Eligible(filter) :
        /\ \A j \in Eligible(filter) : j <= i
        /\ call' = [NoCall EXCEPT !.op = "undo_last", !.pc = "revert", !.at = i]
    BY DEF StartUndo
<1>3. /\ call'.op = "undo_last" /\ call'.pc = "revert" /\ call'.at = i
      /\ call'.ids = <<>>
    BY <1>2 DEF NoCall
<1>4. /\ start'.patches = patches /\ start'.undo = undo
      /\ patches \in PatchesType
    BY <1>1 DEF Now, StepInv, StepType, TypeInv, TypeOK
<1>5. MarkInv'
  <2>1. Recorded' = 0 /\ BatchIds(0)' = {}
      BY <1>3 DEF Recorded, At, BatchIds
  <2>2. patches = [p \in PatchIds |-> patches[p]]
      BY <1>4 DEF PatchesType
  <2>3. Atomic!MarkApplied({})' = [p \in PatchIds |-> start'.patches[p]]
      BY DEF Atomic!MarkApplied
  <2>4. patches' = Atomic!MarkApplied(BatchIds(Recorded))'
      BY <1>1, <1>4, <2>1, <2>2, <2>3
  <2> QED BY <1>3, <2>1, <2>4, EmptySeq DEF MarkInv
<1>6. GuardInv'
  <2>1. Atomic!Eligible(filter)' = Eligible(filter)
      BY <1>4 DEF Eligible, Atomic!Eligible
  <2>2. Newest(Atomic!Eligible(filter)', call'.at)
      BY <1>2, <1>3, <2>1 DEF Newest
  <2> QED BY <1>3, <2>2 DEF GuardInv, Newest
<1> QED BY <1>1, <1>3, <1>5, <1>6 DEF AloneInv, CheckInv, StopInv, At

LEMMA AloneInvStep ==
    ASSUME Shared = FALSE, StepInv, StepInv', BatchInv, AloneInv,
           [StepNext]_stepVars
    PROVE  AloneInv'
<1>1. CASE stepVars' = stepVars
  <2>1. /\ call' = call /\ start' = start /\ raced' = raced
        /\ patches' = patches /\ tx' = tx
      BY <1>1 DEF stepVars, vars, txVars
  <2>2. Recorded' = Recorded /\ BatchTarget' = BatchTarget
        /\ WrittenDisk' = WrittenDisk
      BY <2>1 DEF Recorded, At, WrittenDisk, BatchTarget, BatchNew, FileOf
  <2>3. MarkInv'
    <3>1. Atomic!MarkApplied(BatchIds(Recorded))' =
            Atomic!MarkApplied(BatchIds(Recorded))
        BY <2>1, <2>2 DEF Atomic!MarkApplied, BatchIds
    <3>2. \A i \in 1..Len(call.ids) : Atomic!Known(call.ids[i])'
        BY <2>1 DEF AloneInv, MarkInv, Atomic!Known
    <3>3. \A i \in 1..Recorded : Atomic!MarkError(call.ids[i])' = "none"
        BY <2>1 DEF AloneInv, MarkInv, Atomic!MarkError, Atomic!is_expired
    <3> QED BY <2>1, <2>2, <3>1, <3>2, <3>3 DEF AloneInv, MarkInv
  <2>4. GuardInv'
    <3>1. call.op = "apply_patch" => Atomic!Pending(call.ids[1])'
        BY <2>1 DEF AloneInv, GuardInv, Atomic!Pending, Atomic!GetError,
               Atomic!Known, Atomic!is_expired
    <3>2. \A filter : Atomic!Eligible(filter)' = Atomic!Eligible(filter)
        BY <2>1 DEF Atomic!Eligible
    <3>3. call.op = "undo_last" =>
            \E filter \in Files \cup {AnyFile} :
              Newest(Atomic!Eligible(filter)', call'.at)
        BY <2>1, <3>2 DEF AloneInv, GuardInv
    <3> QED BY <2>1, <3>1, <3>3 DEF AloneInv, GuardInv, tx_is_expired, Newest
  <2>5. CheckInv' /\ StopInv'
      BY <2>1, <2>2 DEF AloneInv, CheckInv, StopInv, At, Passes
  <2> QED BY <2>1, <2>3, <2>4, <2>5 DEF AloneInv
<1>2. ASSUME NEW p \in PatchIds, NEW verify \in BOOLEAN, StartApply(p, verify)
      PROVE  AloneInv'
  <2>1. Known(p)
      BY <1>2, GetErrorCases DEF StartApply, Pending
  <2> DEFINE ids == <<p>>
  <2>2. ids \in Seq(PatchIds) /\ Len(ids) = 1 /\ ids[1] = p
      OBVIOUS
  <2>3. Starts("apply_patch", ids, verify) /\ Pending(ids[1])
      BY <1>2, <2>2 DEF StartApply
  <2>4. \A i \in 1..Len(ids) : Known(ids[i])
      BY <2>1, <2>2
  <2> HIDE DEF ids
  <2> QED BY <2>2, <2>3, <2>4, StartsAlone
<1>3. ASSUME NEW t \in TxIds, NEW verify \in BOOLEAN, StartCommit(t, verify)
      PROVE  AloneInv'
  <2>1. tx.staged \in Seq(PatchIds) /\ ~ tx_is_expired
      BY <1>3, StagedSeq DEF StartCommit, Active, StepInv, StepType, TypeInv
  <2>2. \A i \in 1..Len(tx.staged) : Known(tx.staged[i])
      BY DEF StepInv, StepType, TypeInv, StagedOnce
  <2> QED BY <1>3, <2>1, <2>2, StartsAlone DEF StartCommit
<1>4. CASE ShortCall
  <2>1. Idle' /\ raced' = {}
      BY <1>4 DEF ShortCall, Idle, AloneInv
  <2> QED BY <2>1, IdleAlone
<1>5. CASE Elsewhere
  <2>1. Idle' /\ raced' = {}
      BY <1>5 DEF Elsewhere, Idle, AloneInv
  <2> QED BY <2>1, IdleAlone
<1> QED BY <1>1, <1>2, <1>3, <1>4, <1>5, StartUndoAlone, HandlerAlone
        DEF StepNext, Kill

THEOREM AloneInvariant ==
    ASSUME Shared = FALSE
    PROVE  StepSpec => []AloneInv
<1>1. StepInit => AloneInv
  <2> SUFFICES ASSUME StepInit PROVE AloneInv
      OBVIOUS
  <2>1. /\ call.op = "none" /\ call.ids = <<>> /\ call.pc = "idle"
        /\ raced = {} /\ start.patches = patches
        /\ patches = [p \in PatchIds |-> NoPatch]
      BY DEF StepInit, NoCall, Init, Now
  <2>2. Recorded = 0 /\ BatchIds(0) = {}
      BY <2>1 DEF Recorded, At, BatchIds
  <2>3. patches = Atomic!MarkApplied({})
      BY <2>1 DEF Atomic!MarkApplied
  <2>4. MarkInv
    <3>1. ~ (\E i \in 1..Len(call.ids) : TRUE) /\ ~ \E i \in 1..Recorded : TRUE
        BY <2>1, <2>2, EmptySeq
    <3>2. patches = Atomic!MarkApplied(BatchIds(Recorded))
        BY <2>2, <2>3
    <3> QED BY <3>1, <3>2 DEF MarkInv
  <2> QED BY <2>1, <2>4 DEF AloneInv, GuardInv, CheckInv, StopInv, At
<1>2. StepInv /\ StepInv' /\ BatchInv /\ AloneInv /\ [StepNext]_stepVars
        => AloneInv'
    BY AloneInvStep
<1> QED BY <1>1, <1>2, StepInvariant, BatchInvariant, PTL DEF StepSpec

-----------------------------------------------------------------------------
(* Which step of Engine a step of a handler is.                            *)

\* What Engine sees of a step.
Maps == Atomic!Next \/ UNCHANGED Atomic!vars

(* A step that goes on is none.                                            *)
LEMMA Stutters ==
    ASSUME start' = start, reply' = reply,
           tx' = tx, begun' = begun, stagingDirs' = stagingDirs
    PROVE  Maps
BY DEF Maps, Atomic!vars

LEMMA MovesOn ==
    ASSUME NEW c, NEW next, Onward(c, next) \/ GoesTo(next)
    PROVE  Maps
BY Stutters DEF Onward, GoesTo, txVars

(* When a call ends Engine sees what it did.                               *)
LEMMA EndsSeen ==
    ASSUME Ends
    PROVE  start'.disk = disk' /\ start'.patches = patches' /\ start'.undo = undo'
BY DEF Ends, Now

(* What a batch has done to the cache and the stack.                       *)
LEMMA Untouched ==
    ASSUME StepInv, BatchInv, AloneInv, Batching, Recorded = 0
    PROVE  /\ patches = start.patches /\ undo = start.undo
           /\ call.wrote = 0 /\ ~ At("restore") => disk = start.disk
<1>1. patches = start.patches
  <2>1. start.patches \in PatchesType
      BY DEF StepInv, StepType, StateType
  <2>2. patches = [p \in PatchIds |-> start.patches[p]]
    <3>1. BatchIds(Recorded) = {}
        BY DEF BatchIds
    <3>2. patches = Atomic!MarkApplied({})
        BY <3>1 DEF AloneInv, MarkInv
    <3> QED BY <3>2 DEF Atomic!MarkApplied
  <2> QED BY <2>1, <2>2 DEF PatchesType
<1>2. undo = start.undo
  <2>1. undo \in Seq(UndoPatchRecord) /\ start.undo \in Seq(UndoPatchRecord)
      BY DEF StepInv, StepType, StateType, TypeInv, TypeOK
  <2>2. Len(undo) = Len(start.undo)
        /\ \A i \in 1..Len(start.undo) : undo[i] = start.undo[i]
    <3>1. Len(start.undo) \in Nat
        BY <2>1, LenProperties
    <3>2. Len(undo) = Len(start.undo) + Recorded
          /\ \A i \in 1..Len(start.undo) : undo[i] = start.undo[i]
        BY DEF BatchInv, StackInv
    <3> QED BY <3>1, <3>2
  <2> QED BY <2>1, <2>2
<1>3. ASSUME call.wrote = 0, ~ At("restore")
      PROVE  disk = start.disk
  <2>1. disk = Overwrite(start.disk, BatchTarget, BatchNew, 0)
        /\ start.disk \in DiskType
      BY <1>3, WholeDisk DEF BatchDisk, WrittenDisk
  <2>2. Overwrite(start.disk, BatchTarget, BatchNew, 0)
          = [f \in Files |->
               Overwrite(start.disk, BatchTarget, BatchNew, 0)[f]]
      BY DEF Overwrite
  <2>3. \A f \in Files :
          Overwrite(start.disk, BatchTarget, BatchNew, 0)[f] = start.disk[f]
      BY NothingWritten
  <2> QED BY <2>1, <2>2, <2>3 DEF DiskType
<1> QED BY <1>1, <1>2, <1>3

(* apply_patch is about one patch, which is pending.                       *)
LEMMA ApplyCall ==
    ASSUME StepInv, AloneInv, call.op = "apply_patch"
    PROVE  /\ Len(call.ids) = 1 /\ 1 \in 1..Len(call.ids)
           /\ call.ids[1] \in PatchIds /\ Atomic!Pending(call.ids[1])
           /\ Batching
<1>1. Len(call.ids) = 1 /\ 1 \in 1..Len(call.ids)
    BY DEF StepInv, CallShape, BatchShape
<1> QED BY <1>1, AsFound DEF AloneInv, GuardInv, Batching

(* commit_transaction is about the open transaction.                       *)
LEMMA CommitCall ==
    ASSUME StepInv, AloneInv, call.op = "commit_transaction"
    PROVE  tx.tx_id \in TxIds /\ Atomic!Active(tx.tx_id) /\ Batching
<1>1. tx # Closed /\ ~ tx_is_expired
    BY DEF StepInv, CallShape, BatchShape, AloneInv, GuardInv
<1>2. tx.tx_id \in TxIds
    BY <1>1 DEF StepInv, StepType, TypeInv, TypeOK, TxType, Transaction
<1>3. Atomic!Closed = Closed /\ Atomic!tx_is_expired = tx_is_expired
    BY DEF Atomic!Closed, Closed, Atomic!tx_is_expired, tx_is_expired
<1> QED BY <1>1, <1>2, <1>3 DEF Atomic!Active, Batching

\* A refusal, as Engine sees it.
LEMMA RefusesSeen ==
    ASSUME NEW code, Refuses(code)
    PROVE  /\ Atomic!Fail(call.op, code)
           /\ tx' = tx /\ begun' = begun /\ stagingDirs' = stagingDirs
           /\ start'.disk = disk' /\ start'.patches = patches'
           /\ start'.undo = undo'
<1>1. reply' = Atomic!Answer(call.op, code, {})
    BY DEF Refuses, Fail, Answer, Atomic!Answer
<1>2. Ends /\ tx' = tx /\ begun' = begun /\ stagingDirs' = stagingDirs
    BY DEF Refuses, txVars
<1> QED BY <1>1, <1>2, EndsSeen DEF Atomic!Fail

(* A call that raises before it has written anything.                      *)
LEMMA RaisesUnwritten ==
    ASSUME StepInv, BatchInv, AloneInv, Batching, Faults,
           Recorded = 0, call.wrote = 0, ~ At("restore"),
           call.at \in 1..Len(call.ids), Aborts
    PROVE  Atomic!Next
<1>1. /\ start'.disk = start.disk /\ start'.patches = start.patches
      /\ start'.undo = start.undo
      /\ Atomic!Fail(call.op, "E_INTERNAL_ERROR")
      /\ tx' = tx /\ begun' = begun /\ stagingDirs' = stagingDirs
    BY Untouched, RefusesSeen DEF Aborts
<1>2. CASE call.op = "apply_patch"
  <2>1. Atomic!ApplyRejected(call.ids[1])
      BY <1>1, <1>2, ApplyCall DEF Atomic!ApplyRejected, Atomic!txVars
  <2> QED BY <1>2, <2>1, ApplyCall DEF Atomic!Next, Atomic!apply_patch
<1>3. CASE call.op = "commit_transaction"
  <2>1. Atomic!Count > 0
      BY <1>3, AtomicBatch, CallFields DEF StepInv, StepType
  <2>2. Atomic!CommitRejected(tx.tx_id)
      BY <1>1, <1>3, <2>1, CommitCall DEF Atomic!CommitRejected, Atomic!txVars
  <2> QED BY <1>3, <2>2, CommitCall DEF Atomic!Next, Atomic!commit_transaction
<1> QED BY <1>2, <1>3 DEF Batching

LEMMA CompareMaps ==
    ASSUME StepInv, BatchInv, AloneInv, Compare
    PROVE  Maps
<1>1. /\ At("compare") /\ call.at \in 1..Len(call.ids) /\ Batching
      /\ call.wrote = 0 /\ Recorded = 0 /\ ~ At("restore")
    BY InBatch DEF Compare, At, StepInv, CallShape, LoopShape, Progress,
       Recorded
<1>2. patches = start.patches /\ undo = start.undo /\ disk = start.disk
    BY <1>1, Untouched
<1>3. /\ Patch = call.ids[call.at] /\ File = BatchTarget[call.at]
      /\ Atomic!FileOf(Patch) = File
    BY <1>1, AsFound DEF Patch, File, BatchTarget
<1>4. ASSUME NEW code, Refuses(code),
             \/ /\ code = "E_FILE_NOT_FOUND" /\ ~ Exists(File)
             \/ /\ code = "E_FILE_MODIFIED" /\ Exists(File)
                /\ ~ HashMatches(File, patches[Patch].base)
      PROVE  Atomic!Next
  <2>1. /\ start'.disk = start.disk /\ start'.patches = start.patches
        /\ start'.undo = start.undo /\ Atomic!Fail(call.op, code)
        /\ tx' = tx /\ begun' = begun /\ stagingDirs' = stagingDirs
      BY <1>2, <1>4, RefusesSeen DEF Compare
  <2>2. \/ /\ code = "E_FILE_NOT_FOUND" /\ ~ Atomic!Exists(File)
        \/ /\ code = "E_FILE_MODIFIED" /\ Atomic!Exists(File)
           /\ ~ Atomic!HashMatches(File, start.patches[Patch].base)
      BY <1>2, <1>4 DEF Exists, HashMatches, compute_content_hash,
         Atomic!Exists, Atomic!HashMatches, Atomic!compute_content_hash
  <2>3. CASE call.op = "apply_patch"
    <3>1. call.at = 1
      <4>1. Len(call.ids) = 1
          BY <2>3, ApplyCall
      <4> QED BY <1>1, <4>1
    <3>2. Atomic!ApplyRejected(call.ids[1])
        BY <1>3, <2>1, <2>2, <2>3, <3>1, ApplyCall
        DEF Atomic!ApplyRejected, Atomic!Swappable, Atomic!txVars
    <3> QED BY <2>3, <3>2, ApplyCall DEF Atomic!Next, Atomic!apply_patch
  <2>4. CASE call.op = "commit_transaction"
    <3>1. /\ call.at \in 1..Atomic!Count
          /\ Atomic!Target[call.at] = File /\ Atomic!Staged(call.at) = Patch
        BY <1>1, <1>3, <2>4, AtomicBatch
    <3>2. Atomic!CasError(call.at) = code /\ code # "none"
        BY <2>2, <3>1 DEF Atomic!CasError
    <3>3. \A j \in 1..(call.at - 1) : Atomic!CasError(j) = "none"
      <4>1. \A j \in 1..(call.at - 1) : j \in 1..Len(call.ids) /\ j < call.at
          BY <1>1, CallFields DEF StepInv, StepType
      <4> QED BY <2>4, <4>1, AtomicCasCommit
    <3>4. Atomic!CommitRejected(tx.tx_id)
        BY <2>1, <2>4, <3>1, <3>2, <3>3, CommitCall
        DEF Atomic!CommitRejected, Atomic!txVars
    <3> QED BY <2>4, <3>4, CommitCall DEF Atomic!Next, Atomic!commit_transaction
  <2> QED BY <1>1, <2>3, <2>4 DEF Batching
<1>5. CASE Faults /\ Refuses("E_INTERNAL_ERROR")
    BY <1>1, <1>5, RaisesUnwritten DEF Compare, Aborts, Maps
<1> QED BY <1>4, <1>5, MovesOn DEF Compare, Maps

LEMMA TakeSnapshotMaps ==
    ASSUME StepInv, BatchInv, AloneInv, TakeSnapshot
    PROVE  Maps
<1>1. /\ call.at \in 1..Len(call.ids) /\ Batching
      /\ call.wrote = 0 /\ Recorded = 0 /\ ~ At("restore")
    BY InBatch DEF TakeSnapshot, At, StepInv, CallShape, LoopShape, Progress,
       Recorded
<1>2. CASE Faults /\ Refuses("E_INTERNAL_ERROR")
    BY <1>1, <1>2, RaisesUnwritten DEF TakeSnapshot, Aborts, Maps
<1> QED BY <1>2, MovesOn DEF TakeSnapshot

LEMMA WriteMaps ==
    ASSUME StepInv, BatchInv, AloneInv, Write
    PROVE  Maps
<1>1. /\ call.at \in 1..Len(call.ids) /\ Batching
      /\ call.wrote = call.at - 1 /\ Recorded = 0 /\ ~ At("restore")
    BY InBatch DEF Write, At, StepInv, CallShape, LoopShape, Progress, Recorded
<1>2. CASE /\ Faults /\ UNCHANGED disk /\ call.op = "apply_patch"
           /\ Refuses("E_INTERNAL_ERROR")
  <2>1. call.wrote = 0
    <3>1. Len(call.ids) = 1
        BY <1>2, ApplyCall
    <3> QED BY <1>1, <3>1
  <2> QED BY <1>1, <1>2, <2>1, RaisesUnwritten DEF Write, Aborts, Maps
<1> QED BY <1>2, MovesOn DEF Write, Raised

(* One write changes one file.                                             *)
LEMMA FirstWrite ==
    ASSUME NEW d, NEW target, NEW content, NEW f \in Files
    PROVE  Overwrite(d, target, content, 1)[f] =
             IF target[1] = f THEN content[1] ELSE d[f]
<1>1. 1..1 = {1} /\ 1 \in Nat
    OBVIOUS
<1>2. CASE target[1] = f
  <2>1. LastFor(f, target, 1, 1)
      BY <1>1, <1>2 DEF LastFor
  <2> QED BY <1>1, <1>2, <2>1, OverwriteCases
<1>3. CASE target[1] # f
  <2>1. ~ LastFor(f, target, 1, 1)
      BY <1>3 DEF LastFor
  <2> QED BY <1>1, <1>3, <2>1, OverwriteCases
<1> QED BY <1>2, <1>3

(* The tree apply_patch has written, and the text it has restored.         *)
LEMMA AppliedDisk ==
    ASSUME StepInv, BatchInv, AloneInv, call.op = "apply_patch",
           call.wrote = 1, Len(call.snaps) = 1, ~ At("compare")
    PROVE  /\ WrittenDisk = Atomic!Swapped(call.ids[1])
           /\ Overwrite(WrittenDisk, BatchTarget, call.snaps, 1) =
                [start.disk EXCEPT ![BatchTarget[1]] = call.snaps[1]]
           /\ Overwrite(WrittenDisk, BatchTarget, call.snaps, 0) = WrittenDisk
           /\ call.snaps[1] = Atomic!snapshot(BatchTarget[1])
<1>0. /\ Batching /\ Len(call.ids) = 1 /\ 1 \in 1..Len(call.ids)
    BY ApplyCall
<1>1. /\ start.disk \in DiskType /\ BatchTarget[1] \in Files
      /\ Atomic!FileOf(call.ids[1]) = BatchTarget[1]
      /\ start.patches[call.ids[1]].new = BatchNew[1]
    BY <1>0, AsFound, WholeDisk
<1>2. \A f \in Files : Overwrite(start.disk, BatchTarget, BatchNew, 1)[f] =
        IF BatchTarget[1] = f THEN BatchNew[1] ELSE start.disk[f]
    BY FirstWrite
<1>3. WrittenDisk = [start.disk EXCEPT ![BatchTarget[1]] = BatchNew[1]]
  <2>1. WrittenDisk = [f \in Files |->
          Overwrite(start.disk, BatchTarget, BatchNew, 1)[f]]
      BY DEF WrittenDisk, Overwrite
  <2> QED BY <1>1, <1>2, <2>1 DEF DiskType
<1>4. \A f \in Files :
        /\ Overwrite(WrittenDisk, BatchTarget, call.snaps, 1)[f] =
             IF BatchTarget[1] = f THEN call.snaps[1] ELSE start.disk[f]
        /\ Overwrite(WrittenDisk, BatchTarget, call.snaps, 0)[f]
             = WrittenDisk[f]
  <2> SUFFICES ASSUME NEW f \in Files
               PROVE  /\ Overwrite(WrittenDisk, BatchTarget, call.snaps, 1)[f]
                           = IF BatchTarget[1] = f THEN call.snaps[1]
                                                   ELSE start.disk[f]
                      /\ Overwrite(WrittenDisk, BatchTarget, call.snaps, 0)[f]
                           = WrittenDisk[f]
      OBVIOUS
  <2>1. Overwrite(WrittenDisk, BatchTarget, call.snaps, 1)[f] =
          IF BatchTarget[1] = f THEN call.snaps[1] ELSE WrittenDisk[f]
      BY FirstWrite
  <2>2. BatchTarget[1] # f => WrittenDisk[f] = start.disk[f]
      BY <1>1, <1>3 DEF DiskType
  <2> QED BY <1>0, <2>1, <2>2, NothingWritten
<1>5. /\ Overwrite(WrittenDisk, BatchTarget, call.snaps, 1) =
           [start.disk EXCEPT ![BatchTarget[1]] = call.snaps[1]]
      /\ Overwrite(WrittenDisk, BatchTarget, call.snaps, 0) = WrittenDisk
  <2>1. \A k : Overwrite(WrittenDisk, BatchTarget, call.snaps, k) =
          [f \in Files |-> Overwrite(WrittenDisk, BatchTarget, call.snaps, k)[f]]
      BY DEF Overwrite
  <2>2. WrittenDisk = [f \in Files |-> WrittenDisk[f]]
      BY DEF WrittenDisk, Overwrite
  <2>3. Overwrite(WrittenDisk, BatchTarget, call.snaps, 1) =
           [start.disk EXCEPT ![BatchTarget[1]] = call.snaps[1]]
      BY <1>1, <1>4, <2>1 DEF DiskType
  <2>4. Overwrite(WrittenDisk, BatchTarget, call.snaps, 0) =
          [f \in Files |-> WrittenDisk[f]]
      BY <1>4, <2>1
  <2> QED BY <2>2, <2>3, <2>4
<1>6. call.snaps[1] = Atomic!snapshot(BatchTarget[1])
    BY <1>0, AtomicSnapshots
<1> QED BY <1>1, <1>3, <1>5, <1>6 DEF Atomic!Swapped, Atomic!Replace

\* The file of a written patch that is left as it is.
LEMMA AbandonMaps ==
    ASSUME StepInv, BatchInv, AloneInv, call.op = "apply_patch", Faults,
           BatchTarget[1] \in Checked, disk = WrittenDisk,
           call.wrote = 1, Len(call.snaps) = 1, ~ At("compare"),
           Recorded = 0, Aborts
    PROVE  Atomic!Next
<1>1. /\ start'.disk = Atomic!Swapped(call.ids[1])
      /\ start'.patches = start.patches /\ start'.undo = start.undo
      /\ Atomic!Fail("apply_patch", "E_INTERNAL_ERROR")
      /\ tx' = tx /\ begun' = begun /\ stagingDirs' = stagingDirs
    BY ApplyCall, Untouched, RefusesSeen, AppliedDisk DEF Aborts
<1>2. /\ Atomic!Swappable(call.ids[1])
      /\ Atomic!FileOf(call.ids[1]) = BatchTarget[1]
    BY ApplyCall, AsFound, AtomicCas
<1>3. Atomic!ApplyAbandoned(call.ids[1])
    BY <1>1, <1>2, ApplyCall
    DEF Atomic!ApplyAbandoned, Atomic!CheckFails, Atomic!txVars
<1> QED BY <1>3, ApplyCall DEF Atomic!Next, Atomic!apply_patch

LEMMA VerifyMaps ==
    ASSUME StepInv, BatchInv, AloneInv, Verify
    PROVE  Maps
<1>1. /\ At("verify") /\ call.at \in 1..Len(call.ids) /\ Batching
      /\ call.wrote = Len(call.ids) /\ Len(call.snaps) = Len(call.ids)
      /\ Recorded = 0 /\ ~ At("restore") /\ ~ At("compare")
      /\ File = BatchTarget[call.at]
    BY InBatch DEF Verify, At, StepInv, CallShape, LoopShape, Progress,
       Recorded, File, Patch, BatchTarget
<1>2. CASE /\ Faults /\ File \in Checked /\ call.op = "apply_patch"
           /\ Refuses("E_INTERNAL_ERROR")
  <2>1. Len(call.ids) = 1
      BY <1>2, ApplyCall
  <2>2. call.at = 1 /\ call.wrote = 1 /\ Len(call.snaps) = 1
      BY <1>1, <2>1
  <2>3. disk = WrittenDisk
      BY <1>1, WholeDisk DEF BatchDisk
  <2> QED BY <1>1, <1>2, <2>2, <2>3, AbandonMaps DEF Verify, Aborts, Maps
<1> QED BY <1>2, MovesOn DEF Verify, Raised, CheckFails

(* The batch that is being rolled back stopped for a reason Engine knows.  *)
LEMMA StopSeen ==
    ASSUME StepInv, BatchInv, AloneInv, At("restore"),
           call.op = "commit_transaction"
    PROVE  Atomic!StopsAfter(call.wrote, call.verify)
<1>1. /\ Atomic!Count = Len(call.ids) /\ Atomic!Target = BatchTarget
      /\ Len(call.ids) \in Nat
      /\ Atomic!Wrote(Len(call.ids)) =
           Overwrite(start.disk, BatchTarget, BatchNew, Len(call.ids))
    BY AtomicBatch, CallFields DEF StepInv, StepType
<1>2. call.wrote = Len(call.ids) => Atomic!Wrote(Atomic!Count) = WrittenDisk
    BY <1>1 DEF WrittenDisk
<1>3. \A f : Atomic!Passes(WrittenDisk, f) <=> Passes(WrittenDisk, f)
    BY DEF Atomic!Passes, Passes
<1>4. ASSUME call.wrote = Len(call.ids), call.verify,
             \E i \in 1..Len(call.ids) : ~ Passes(WrittenDisk, BatchTarget[i])
      PROVE  ~ Atomic!Verified(call.verify)
    BY <1>1, <1>2, <1>3, <1>4 DEF Atomic!Verified
<1> QED BY <1>1, <1>4 DEF AloneInv, StopInv, Atomic!StopsAfter

\* A rollback of an apply_patch is one of a text its checker did not pass.
LEMMA ApplyStopped ==
    ASSUME StepInv, AloneInv, At("restore"), call.op = "apply_patch"
    PROVE  /\ ~ Passes(WrittenDisk, BatchTarget[1]) \/ CheckFails(BatchTarget[1])
           /\ BatchTarget[1] \in Checked /\ call.wrote = 1
<1>1. Len(call.ids) = 1
    BY ApplyCall
<1>2. /\ call.wrote = Len(call.ids)
      /\ \E i \in 1..Len(call.ids) :
           \/ ~ Passes(WrittenDisk, BatchTarget[i])
           \/ Faults /\ BatchTarget[i] \in Checked
    BY DEF AloneInv, StopInv
<1> QED BY <1>1, <1>2 DEF Passes, CheckFails

LEMMA RestoreMaps ==
    ASSUME StepInv, BatchInv, AloneInv, Restore
    PROVE  Maps
<1>1. /\ At("restore") /\ Batching /\ call.at <= call.wrote
      /\ call.at \in Nat /\ call.at >= 1 /\ call.wrote \in Nat
      /\ call.wrote <= Len(call.ids) /\ Len(call.ids) \in Nat
      /\ Len(call.snaps) = Len(call.ids)
      /\ Recorded = 0 /\ ~ At("compare")
  <2>1. At("restore") /\ Batching /\ call.at <= call.wrote
        /\ Recorded = 0 /\ ~ At("compare")
      BY InBatch DEF Restore, At, Recorded
  <2>2. /\ call.at \in 1..(call.wrote + 1) /\ call.wrote <= Len(call.ids)
        /\ call.wrote \in Nat /\ Len(call.ids) \in Nat
        /\ Len(call.snaps) = Len(call.ids)
      BY <2>1, CallFields
      DEF StepInv, StepType, CallShape, LoopShape, Progress
  <2> QED BY <2>1, <2>2
<1>2. CASE Faults /\ UNCHANGED disk /\ Refuses("E_INTERNAL_ERROR")
  <2>1. disk = Overwrite(WrittenDisk, BatchTarget, call.snaps, call.at - 1)
      BY <1>1, WholeDisk DEF BatchDisk
  <2>2. Aborts
      BY <1>2 DEF Aborts, Restore
  <2>3. CASE call.op = "apply_patch"
    <3>1. Len(call.ids) = 1 /\ call.wrote = 1 /\ call.at = 1
          /\ BatchTarget[1] \in Checked
        BY <1>1, <2>3, ApplyCall, ApplyStopped
    <3>2. disk = WrittenDisk
        BY <1>1, <2>1, <2>3, <3>1, AppliedDisk
    <3> QED BY <1>1, <1>2, <2>2, <2>3, <3>1, <3>2, AbandonMaps DEF Maps
  <2>4. CASE call.op = "commit_transaction"
    <3>1. /\ start'.patches = start.patches /\ start'.undo = start.undo
          /\ start'.disk = disk
          /\ Atomic!Fail("commit_transaction", "E_INTERNAL_ERROR")
          /\ tx' = tx /\ begun' = begun /\ stagingDirs' = stagingDirs
        BY <1>1, <2>2, <2>4, Untouched, RefusesSeen DEF Aborts
    <3>2. Atomic!Count = Len(call.ids)
        BY <2>4, AtomicBatch
    <3>3. Atomic!CasPasses
        BY <1>1, <2>4, <3>2, AtomicCasCommit DEF Atomic!CasPasses
    <3>4. /\ call.wrote \in 1..Atomic!Count
          /\ call.at - 1 \in 0..(Atomic!Count - 1) /\ call.at - 1 < call.wrote
          /\ call.at - 1 \in Nat
        BY <1>1, <3>2
    <3>5. disk = Atomic!RolledBack(call.wrote, call.at - 1)
        BY <1>1, <2>1, <2>4, <3>4, AtomicSnapshots DEF WrittenDisk
    <3>6. Atomic!StopsAfter(call.wrote, call.verify) /\ call.verify \in BOOLEAN
        BY <1>1, <2>4, StopSeen, CallFields DEF StepInv, StepType
    <3>7. Atomic!CommitRollbackRaises(tx.tx_id, call.verify)
        BY <1>2, <2>4, <3>1, <3>3, <3>4, <3>5, <3>6, CommitCall
        DEF Atomic!CommitRollbackRaises, Atomic!txVars
    <3> QED BY <2>4, <3>6, <3>7, CommitCall
            DEF Atomic!Next, Atomic!commit_transaction, Maps
  <2> QED BY <1>1, <2>3, <2>4 DEF Batching
<1>3. CASE UNCHANGED <<reply, start, raced, orphans>> /\ UNCHANGED txVars
    BY <1>3, Stutters DEF txVars
<1> QED BY <1>2, <1>3 DEF Restore

(* The transaction as Engine sees it close.                                *)
LEMMA CloseSeen ==
    ASSUME Close
    PROVE  Atomic!Close
BY DEF Close, Atomic!Close, Closed, Atomic!Closed

LEMMA RestoredMaps ==
    ASSUME StepInv, BatchInv, AloneInv, Restored
    PROVE  Maps
<1>1. /\ At("restore") /\ Batching /\ call.wrote \in Nat
      /\ call.at - 1 = call.wrote
      /\ call.wrote <= Len(call.ids) /\ Len(call.ids) \in Nat
      /\ Len(call.snaps) = Len(call.ids)
      /\ Recorded = 0 /\ ~ At("compare")
  <2>1. At("restore") /\ Batching /\ call.at > call.wrote
        /\ Recorded = 0 /\ ~ At("compare")
      BY InBatch DEF Restored, At, Recorded
  <2>2. /\ call.at \in 1..(call.wrote + 1) /\ call.wrote <= Len(call.ids)
        /\ call.wrote \in Nat /\ Len(call.ids) \in Nat
        /\ Len(call.snaps) = Len(call.ids)
      BY <2>1, CallFields
      DEF StepInv, StepType, CallShape, LoopShape, Progress
  <2> QED BY <2>1, <2>2
<1>2. /\ start'.disk = disk /\ start'.patches = start.patches
      /\ start'.undo = start.undo
    BY <1>1, Untouched, EndsSeen DEF Restored
<1>3. disk = Overwrite(WrittenDisk, BatchTarget, call.snaps, call.wrote)
    BY <1>1, WholeDisk DEF BatchDisk
<1>4. CASE call.op = "apply_patch"
  <2>1. Fail(call.op, "E_SYNTAX_ERROR") /\ UNCHANGED txVars
      BY <1>4 DEF Restored
  <2>2. reply' = Atomic!Answer("apply_patch", "E_SYNTAX_ERROR", {})
      BY <1>4, <2>1 DEF Fail, Answer, Atomic!Answer
  <2>3. /\ Len(call.ids) = 1 /\ call.wrote = 1 /\ call.ids[1] \in PatchIds
        /\ 1 \in 1..Len(call.ids)
        /\ Atomic!Pending(call.ids[1])
        /\ ~ Passes(WrittenDisk, BatchTarget[1]) \/ CheckFails(BatchTarget[1])
      BY <1>1, <1>4, ApplyCall, ApplyStopped
  <2>4. /\ Atomic!Swappable(call.ids[1])
        /\ Atomic!FileOf(call.ids[1]) = BatchTarget[1]
      BY <1>1, <2>3, AsFound, AtomicCas
  <2>5. /\ WrittenDisk = Atomic!Swapped(call.ids[1])
        /\ disk = [start.disk EXCEPT ![BatchTarget[1]]
                     = Atomic!snapshot(BatchTarget[1])]
      BY <1>1, <1>3, <1>4, <2>3, AppliedDisk
  <2>6. \/ ~ Atomic!Passes(Atomic!Swapped(call.ids[1]),
                           Atomic!FileOf(call.ids[1]))
        \/ Atomic!CheckFails(Atomic!FileOf(call.ids[1]))
      BY <2>3, <2>4, <2>5 DEF Passes, Atomic!Passes, CheckFails, Atomic!CheckFails
  <2>7. start'.disk = Atomic!Replace(Atomic!FileOf(call.ids[1]),
                        Atomic!snapshot(Atomic!FileOf(call.ids[1])))
      BY <1>2, <2>4, <2>5 DEF Atomic!Replace
  <2>8. Atomic!ApplyRollsBack(call.ids[1])
      BY <1>2, <2>1, <2>2, <2>3, <2>4, <2>6, <2>7
      DEF Atomic!ApplyRollsBack, Atomic!Fail, txVars, Atomic!txVars
  <2> QED BY <2>3, <2>8 DEF Atomic!Next, Atomic!apply_patch, Maps
<1>5. CASE call.op = "commit_transaction"
  <2>1. Fail(call.op, "E_ROLLBACK_TRIGGERED") /\ Atomic!Close
      BY <1>5, CloseSeen DEF Restored
  <2>2. Atomic!Fail("commit_transaction", "E_ROLLBACK_TRIGGERED")
      BY <1>5, <2>1 DEF Fail, Answer, Atomic!Answer, Atomic!Fail
  <2>3. Atomic!Count = Len(call.ids)
      BY <1>5, AtomicBatch
  <2>4. Atomic!CasPasses
      BY <1>1, <1>5, <2>3, AtomicCasCommit DEF Atomic!CasPasses
  <2>5. call.wrote \in 0..Atomic!Count
      BY <1>1, <2>3
  <2>6. start'.disk = Atomic!RolledBack(call.wrote, call.wrote)
      BY <1>1, <1>2, <1>3, <1>5, AtomicSnapshots DEF WrittenDisk
  <2>7. Atomic!StopsAfter(call.wrote, call.verify) /\ call.verify \in BOOLEAN
      BY <1>1, <1>5, StopSeen, CallFields DEF StepInv, StepType
  <2>8. Atomic!CommitRollsBack(tx.tx_id, call.verify)
      BY <1>2, <1>5, <2>1, <2>2, <2>4, <2>5, <2>6, <2>7, CommitCall
      DEF Atomic!CommitRollsBack
  <2> QED BY <1>5, <2>7, <2>8, CommitCall
          DEF Atomic!Next, Atomic!commit_transaction, Maps
<1> QED BY <1>1, <1>4, <1>5 DEF Batching

(* A recorded batch is wholly on disk, checked, and its records follow     *)
(* those the call found.                                                   *)
LEMMA RecordedUndo ==
    ASSUME StepInv, BatchInv, AloneInv, call.op = "commit_transaction",
           NEW k \in 0..Len(call.ids), NEW stack \in Seq(UndoPatchRecord),
           Len(call.snaps) = Len(call.ids), ~ At("compare"),
           Len(stack) = Len(start.undo) + k,
           \A i \in 1..Len(start.undo) : stack[i] = start.undo[i],
           \A i \in 1..k : stack[Len(start.undo) + i] =
               Applied(call.ids[i], BatchTarget[i], call.snaps[i])
    PROVE  stack = start.undo \o Atomic!Records(k)
<1>1. /\ start.undo \in Seq(UndoPatchRecord) /\ Len(start.undo) \in Nat
      /\ Len(call.ids) \in Nat
    BY LenProperties, CallFields DEF StepInv, StepType, StateType
<1>2. \A i \in 1..k : /\ i \in 1..Len(call.ids)
                      /\ Atomic!Staged(i) = call.ids[i]
                      /\ Atomic!Target[i] = BatchTarget[i]
                      /\ Atomic!Snapshots[i] = call.snaps[i]
    BY <1>1, AtomicBatch, AtomicSnapshots DEF Batching
<1>3. Atomic!Records(k) =
        [i \in 1..k |-> Applied(call.ids[i], BatchTarget[i], call.snaps[i])]
  <2>1. \A i \in 1..k :
          Atomic!Applied(Atomic!Staged(i), Atomic!Target[i],
                         Atomic!Snapshots[i]) =
            Applied(call.ids[i], BatchTarget[i], call.snaps[i])
      BY <1>2 DEF Atomic!Applied, Applied
  <2> QED BY <2>1 DEF Atomic!Records
<1>4. \A i \in 1..k : Applied(call.ids[i], BatchTarget[i], call.snaps[i])
        \in UndoPatchRecord
  <2>1. \A i \in 1..k : Len(start.undo) + i \in 1..Len(stack)
      BY <1>1
  <2> QED BY <2>1, ElementOfSeq
<1> DEFINE records == Atomic!Records(k)
<1>5. /\ records \in Seq(UndoPatchRecord) /\ Len(records) = k
      /\ \A i \in 1..k : records[i] = stack[Len(start.undo) + i]
  <2>1. records \in [1..k -> UndoPatchRecord] /\ k \in Nat
      BY <1>1, <1>3, <1>4
  <2>2. \A i \in 1..k : records[i] = stack[Len(start.undo) + i]
      BY <1>3
  <2> HIDE DEF records
  <2> QED BY <2>1, <2>2
<1> HIDE DEF records
<1>6. /\ start.undo \o records \in Seq(UndoPatchRecord)
      /\ Len(start.undo \o records) = Len(stack)
      /\ \A i \in 1..Len(stack) : (start.undo \o records)[i] = stack[i]
  <2>1. /\ start.undo \o records \in Seq(UndoPatchRecord)
        /\ Len(start.undo \o records) = Len(stack)
      BY <1>1, <1>5
  <2>2. ASSUME NEW i \in 1..Len(stack)
        PROVE  (start.undo \o records)[i] = stack[i]
    <3>1. CASE i \in 1..Len(start.undo)
        BY <1>1, <1>5, <3>1
    <3>2. CASE i \notin 1..Len(start.undo)
      <4>1. /\ i - Len(start.undo) \in 1..k
            /\ Len(start.undo) + (i - Len(start.undo)) = i
          BY <1>1, <3>2
      <4>2. (start.undo \o records)[i] = records[i - Len(start.undo)]
          BY <1>1, <1>5, <3>2, <4>1
      <4> QED BY <1>5, <4>1, <4>2
    <3> QED BY <3>1, <3>2
  <2> QED BY <2>1, <2>2
<1>7. start.undo \o records = stack
    BY <1>6, SeqEqual
<1> QED BY <1>7 DEF records

(* What Engine knows of a commit that has verified its batch.              *)
LEMMA VerifiedSeen ==
    ASSUME StepInv, BatchInv, AloneInv, call.op = "commit_transaction",
           At("record") \/ At("answer")
    PROVE  /\ Atomic!CasPasses /\ Atomic!Verified(call.verify)
           /\ call.verify \in BOOLEAN
           /\ disk = Atomic!Wrote(Atomic!Count)
           /\ Atomic!Count = Len(call.ids) /\ Len(call.ids) \in Nat
           /\ \A k \in 0..Len(call.ids) : Atomic!Room(k)
<1>1. /\ Batching /\ ~ At("compare") /\ ~ At("restore")
      /\ call.wrote = Len(call.ids) /\ call.verify \in BOOLEAN
      /\ Len(call.ids) \in Nat
    BY CallFields DEF Batching, At, StepInv, StepType, CallShape, Progress
<1>2. /\ Atomic!Count = Len(call.ids) /\ Atomic!Target = BatchTarget
      /\ Atomic!Wrote(Len(call.ids)) = WrittenDisk
    BY <1>1, AtomicBatch DEF WrittenDisk
<1>3. disk = WrittenDisk
    BY <1>1, WholeDisk DEF BatchDisk
<1>4. Atomic!CasPasses
    BY <1>1, <1>2, AtomicCasCommit DEF Atomic!CasPasses
<1>5. Atomic!Verified(call.verify)
    BY <1>1, <1>2 DEF AloneInv, CheckInv, Atomic!Verified, Atomic!Passes, Passes
<1>6. \A k \in 0..Len(call.ids) : Atomic!Room(k)
  <2> DEFINE n == Len(start.undo)
             m == Len(call.ids)
  <2>1. n + m <= MaxUndo /\ m \in Nat
      BY <1>1 DEF BatchInv, StackInv
  <2>2. n \in Nat /\ MaxUndo \in Nat
      BY LenProperties, UndoAssumption DEF StepInv, StepType, StateType
  <2> HIDE DEF n, m
  <2>3. \A k \in 0..m : n + k <= MaxUndo
      BY <2>1, <2>2
  <2> QED BY <2>3 DEF n, m, Atomic!Room
<1> QED BY <1>1, <1>2, <1>3, <1>4, <1>5, <1>6

(* The stack once the patch at hand is recorded.                           *)
LEMMA RecordedSoFar ==
    ASSUME StepInv, StepInv', BatchInv, AloneInv, Record,
           call.op = "commit_transaction"
    PROVE  undo' = start.undo \o Atomic!Records(call.at)
<1>1. /\ At("record") /\ Batching /\ call.at \in 1..Len(call.ids)
      /\ Len(call.ids) \in Nat /\ call.at \in Nat
      /\ Len(call.snaps) = Len(call.ids) /\ ~ At("compare")
      /\ Recorded = call.at - 1
    BY InBatch, CallFields DEF Record, At, StepInv, StepType, CallShape,
       LoopShape, Progress, Recorded
<1>2. /\ undo \in Seq(UndoPatchRecord) /\ Len(undo) \in Nat
      /\ Len(start.undo) \in Nat /\ undo' \in Seq(UndoPatchRecord)
    BY LenProperties DEF StepInv, StepType, StateType, TypeInv, TypeOK
<1> DEFINE n == Len(start.undo)
<1>3. /\ n \in Nat /\ Len(undo) = n + (call.at - 1)
      /\ \A i \in 1..n : undo[i] = start.undo[i]
      /\ \A i \in 1..(call.at - 1) : undo[n + i] =
           Applied(call.ids[i], BatchTarget[i], call.snaps[i])
    BY <1>1, <1>2 DEF BatchInv, StackInv
<1>4. /\ Len(undo') = Len(undo) + 1
      /\ \A i \in 1..Len(undo) : undo'[i] = undo[i]
      /\ undo'[Len(undo) + 1] =
           Applied(call.ids[call.at], BatchTarget[call.at], call.snaps[call.at])
  <2>1. BatchTarget[call.at] = File /\ call.ids[call.at] = Patch
      BY <1>1 DEF BatchTarget, File, Patch
  <2>2. undo' = Append(undo, Applied(Patch, File, call.snaps[call.at]))
      BY DEF Record
  <2> QED BY <1>2, <2>1, <2>2
<1> HIDE DEF n
<1>5. Len(undo') = n + call.at /\ \A i \in 1..n : undo'[i] = start.undo[i]
    BY <1>1, <1>3, <1>4
<1>6. \A i \in 1..call.at :
        undo'[n + i] = Applied(call.ids[i], BatchTarget[i], call.snaps[i])
  <2> SUFFICES ASSUME NEW i \in 1..call.at
               PROVE  undo'[n + i] =
                        Applied(call.ids[i], BatchTarget[i], call.snaps[i])
      OBVIOUS
  <2>1. CASE i = call.at
      BY <1>1, <1>3, <1>4, <2>1
  <2>2. CASE i # call.at
    <3>1. i \in 1..(call.at - 1) /\ n + i \in 1..Len(undo)
        BY <1>1, <1>3, <2>2
    <3> QED BY <1>3, <1>4, <3>1
  <2> QED BY <2>1, <2>2
<1>7. call.at \in 0..Len(call.ids)
    BY <1>1
<1> QED BY <1>1, <1>2, <1>5, <1>6, <1>7, RecordedUndo DEF n

LEMMA RecordMaps ==
    ASSUME StepInv, StepInv', BatchInv, AloneInv, Record
    PROVE  Maps
<1>1. /\ At("record") /\ Batching /\ call.at \in 1..Len(call.ids)
      /\ Len(call.ids) \in Nat /\ call.at \in Nat
      /\ Recorded = call.at - 1 /\ Patch = call.ids[call.at]
    BY InBatch, CallFields DEF Record, At, StepInv, StepType, CallShape,
       LoopShape, Recorded, Patch
<1>2. /\ Patch \in PatchIds /\ patches[Patch] = start.patches[Patch]
      /\ MarkError(Patch) = Atomic!MarkError(Patch)
    BY <1>1, NotYetMarked
<1>3. CASE call.op = "apply_patch"
  <2>1. Len(call.ids) = 1
      BY <1>3, ApplyCall
  <2>2. call.at = 1
      BY <1>1, <2>1
  <2>3. Atomic!MarkError(Patch) = "none"
      BY <1>1, <1>3, <2>2, ApplyCall
      DEF Atomic!Pending, Atomic!GetError, Atomic!MarkError
  <2>4. Onward(call, "answer")
      BY <1>2, <2>3 DEF Record
  <2> QED BY <2>4, MovesOn
<1>4. CASE call.op = "commit_transaction" /\ MarkError(Patch) # "none"
  <2>1. /\ start'.disk = disk /\ start'.undo = undo'
        /\ start'.patches = patches'
        /\ Atomic!Fail("commit_transaction", MarkError(Patch))
        /\ tx' = tx /\ begun' = begun /\ stagingDirs' = stagingDirs
    <3>1. \E code : Refuses(code) /\ code = MarkError(Patch) /\ disk' = disk
        BY <1>4 DEF Record
    <3> QED BY <1>4, <3>1, RefusesSeen
  <2>2. /\ call.at \in 1..Atomic!Count
        /\ Atomic!Staged(call.at) = Patch
        /\ Atomic!StagedIds(call.at - 1) = BatchIds(call.at - 1)
    <3>1. /\ Atomic!Count = Len(call.ids)
          /\ \A i \in 1..Len(call.ids) : Atomic!Staged(i) = call.ids[i]
        BY <1>4, AtomicBatch
    <3>2. \A i \in 1..(call.at - 1) : Atomic!Staged(i) = call.ids[i]
        BY <1>1, <3>1
    <3> QED BY <1>1, <3>1, <3>2 DEF Atomic!StagedIds, BatchIds
  <2>3. Atomic!MarkError(Atomic!Staged(call.at)) # "none"
        /\ \A j \in 1..(call.at - 1) :
             Atomic!MarkError(Atomic!Staged(j)) = "none"
    <3>1. \A j \in 1..(call.at - 1) : Atomic!Staged(j) = call.ids[j]
      <4>1. \A i \in 1..Len(call.ids) : Atomic!Staged(i) = call.ids[i]
          BY <1>4, AtomicBatch
      <4> QED BY <1>1, <4>1
    <3> QED BY <1>1, <1>2, <1>4, <2>2, <3>1 DEF AloneInv, MarkInv
  <2>4. patches = Atomic!MarkApplied(Atomic!StagedIds(call.at - 1))
      BY <1>1, <2>2 DEF AloneInv, MarkInv
  <2>5. patches' = IF Atomic!MarkError(Patch) = "E_PATCH_EXPIRED"
                   THEN [Atomic!MarkApplied(Atomic!StagedIds(call.at - 1))
                           EXCEPT ![Patch].status = "expired"]
                   ELSE Atomic!MarkApplied(Atomic!StagedIds(call.at - 1))
      BY <1>2, <1>4, <2>4 DEF Record
  <2>6. undo' = start.undo \o Atomic!Records(call.at)
      BY <1>4, RecordedSoFar
  <2>7. /\ Atomic!CasPasses /\ Atomic!Verified(call.verify)
        /\ call.verify \in BOOLEAN /\ disk = Atomic!Wrote(Atomic!Count)
        /\ Atomic!Room(call.at)
    <3>1. call.at \in 0..Len(call.ids)
        BY <1>1
    <3> QED BY <1>1, <1>4, <3>1, VerifiedSeen
  <2>8. Atomic!CommitMarkRaises(tx.tx_id, call.verify)
      BY <1>2, <1>4, <2>1, <2>2, <2>3, <2>5, <2>6, <2>7, CommitCall
      DEF Atomic!CommitMarkRaises, Atomic!txVars
  <2> QED BY <1>4, <2>7, <2>8, CommitCall
          DEF Atomic!Next, Atomic!commit_transaction, Maps
<1>5. CASE MarkError(Patch) = "none"
    BY <1>5, MovesOn DEF Record
<1> QED BY <1>1, <1>3, <1>4, <1>5 DEF Batching

LEMMA AnswerSuccessMaps ==
    ASSUME StepInv, BatchInv, AloneInv, AnswerSuccess
    PROVE  Maps
<1>1. /\ At("answer") /\ Batching /\ ~ At("compare") /\ ~ At("restore")
      /\ Len(call.snaps) = Len(call.ids) /\ call.wrote = Len(call.ids)
      /\ Len(call.ids) \in Nat /\ Recorded = Len(call.ids)
      /\ call.verify \in BOOLEAN
  <2>1. At("answer") /\ Batching
      BY DEF AnswerSuccess, Batching
  <2>2. Len(call.ids) \in Nat /\ call.verify \in BOOLEAN
      BY CallFields DEF StepInv, StepType
  <2> QED BY <2>1, <2>2 DEF At, Recorded, StepInv, CallShape, Progress
<1>2. /\ start'.disk = disk /\ start'.patches = patches /\ start'.undo = undo
    BY EndsSeen DEF AnswerSuccess
<1>3. disk = WrittenDisk
    BY <1>1, WholeDisk DEF BatchDisk
<1>4. /\ patches = Atomic!MarkApplied(BatchIds(Len(call.ids)))
      /\ \A i \in 1..Len(call.ids) : Atomic!MarkError(call.ids[i]) = "none"
      /\ Ids = BatchIds(Len(call.ids))
    BY <1>1 DEF AloneInv, MarkInv, Ids, BatchIds
<1> DEFINE n == Len(start.undo)
<1>5. /\ undo \in Seq(UndoPatchRecord) /\ start.undo \in Seq(UndoPatchRecord)
      /\ n \in Nat
    BY LenProperties DEF StepInv, StepType, StateType, TypeInv, TypeOK
<1>6. /\ Len(undo) = n + Len(call.ids) /\ n + Len(call.ids) <= MaxUndo
      /\ \A i \in 1..n : undo[i] = start.undo[i]
      /\ \A i \in 1..Len(call.ids) : undo[n + i] =
           Applied(call.ids[i], BatchTarget[i], call.snaps[i])
    BY <1>1 DEF BatchInv, StackInv
<1>7. CASE call.op = "apply_patch"
  <2> DEFINE p == call.ids[1]
  <2>1. /\ Len(call.ids) = 1 /\ 1 \in 1..Len(call.ids) /\ p \in PatchIds
        /\ Atomic!Pending(p)
      BY <1>7, ApplyCall
  <2>2. /\ Atomic!FileOf(p) = BatchTarget[1] /\ Atomic!Swappable(p)
        /\ Atomic!Swapped(p) = disk
        /\ call.snaps[1] = Atomic!snapshot(BatchTarget[1])
    <3>1. Atomic!FileOf(p) = BatchTarget[1] /\ Atomic!Swappable(p)
        BY <1>1, <2>1, AsFound, AtomicCas
    <3> QED BY <1>1, <1>3, <1>7, <2>1, <3>1, AppliedDisk
  <2>3. Ids = {p} /\ patches = Atomic!MarkApplied({p})
    <3>1. BatchIds(1) = {p}
      <4>1. 1..1 = {1}
          OBVIOUS
      <4> QED BY <4>1 DEF BatchIds
    <3> QED BY <1>4, <2>1, <3>1
  <2>4. undo = Append(start.undo,
                 Atomic!Applied(p, Atomic!FileOf(p),
                                Atomic!snapshot(Atomic!FileOf(p))))
    <3> DEFINE rec == Applied(p, BatchTarget[1], call.snaps[1])
    <3>1. Len(undo) = n + 1 /\ undo[n + 1] = rec
        BY <1>6, <2>1
    <3>2. rec \in UndoPatchRecord
      <4>1. n + 1 \in 1..Len(undo)
          BY <1>5, <3>1
      <4> QED BY <1>5, <3>1, <4>1, ElementOfSeq
    <3> HIDE DEF rec
    <3>3. /\ Append(start.undo, rec) \in Seq(UndoPatchRecord)
          /\ Len(Append(start.undo, rec)) = Len(undo)
          /\ \A i \in 1..Len(undo) : undo[i] = Append(start.undo, rec)[i]
      <4>1. /\ Append(start.undo, rec) \in Seq(UndoPatchRecord)
            /\ Len(Append(start.undo, rec)) = n + 1
            /\ \A i \in 1..n : Append(start.undo, rec)[i] = start.undo[i]
            /\ Append(start.undo, rec)[n + 1] = rec
          BY <1>5, <3>2, AppendProperties
      <4> HIDE DEF n
      <4>2. \A i \in 1..Len(undo) : i \in 1..n \/ i = n + 1
          BY <1>5, <3>1
      <4> QED BY <1>6, <3>1, <4>1, <4>2
    <3>4. undo = Append(start.undo, rec)
        BY <1>5, <3>3, SeqEqual
    <3>5. rec = Atomic!Applied(p, Atomic!FileOf(p),
                               Atomic!snapshot(Atomic!FileOf(p)))
        BY <2>2 DEF rec, Applied, Atomic!Applied
    <3> QED BY <3>4, <3>5
  <2>5. Atomic!Room(1)
      BY <1>6, <2>1 DEF Atomic!Room
  <2>6. call.verify =>
          Atomic!Passes(Atomic!Swapped(p), Atomic!FileOf(p))
      BY <1>1, <1>3, <2>1, <2>2
      DEF AloneInv, CheckInv, Passes, Atomic!Passes
  <2>7. reply' = Atomic!Answer("apply_patch", "applied", {p})
        /\ UNCHANGED txVars
      BY <1>7, <2>3 DEF AnswerSuccess, Answer, Atomic!Answer
  <2>8. Atomic!ApplySucceeds(p, call.verify)
      BY <1>2, <2>1, <2>2, <2>3, <2>4, <2>5, <2>6, <2>7
      DEF Atomic!ApplySucceeds, txVars, Atomic!txVars
  <2> QED BY <1>1, <2>1, <2>8 DEF Atomic!Next, Atomic!apply_patch, Maps
<1>8. CASE call.op = "commit_transaction"
  <2>1. /\ Atomic!CasPasses /\ Atomic!Verified(call.verify)
        /\ disk = Atomic!Wrote(Atomic!Count)
        /\ Atomic!Count = Len(call.ids)
    <3>1. At("record") \/ At("answer")
        BY <1>1
    <3> QED BY <1>8, <3>1, VerifiedSeen
  <2>2. Atomic!Room(Atomic!Count)
      BY <1>6, <2>1 DEF Atomic!Room
  <2>3. Atomic!StagedIds(Atomic!Count) = BatchIds(Len(call.ids))
        /\ \A i \in 1..Atomic!Count :
             Atomic!MarkError(Atomic!Staged(i)) = "none"
    <3>1. \A i \in 1..Len(call.ids) : Atomic!Staged(i) = call.ids[i]
        BY <1>8, AtomicBatch
    <3> QED BY <1>4, <2>1, <3>1 DEF Atomic!StagedIds, BatchIds
  <2>4. undo = start.undo \o Atomic!Records(Atomic!Count)
    <3>1. Len(call.ids) \in 0..Len(call.ids)
        BY <1>1
    <3>2. undo = start.undo \o Atomic!Records(Len(call.ids))
        BY <1>1, <1>5, <1>6, <1>8, <3>1, RecordedUndo
    <3> QED BY <2>1, <3>2
  <2>5. /\ reply' = Atomic!Answer("commit_transaction", "committed",
                                  Atomic!StagedIds(Atomic!Count))
        /\ Atomic!Close
      BY <1>4, <1>8, <2>3, CloseSeen DEF AnswerSuccess, Answer, Atomic!Answer
  <2>6. Atomic!CommitSucceeds(tx.tx_id, call.verify)
      BY <1>2, <1>4, <1>8, <2>1, <2>2, <2>3, <2>4, <2>5, CommitCall
      DEF Atomic!CommitSucceeds
  <2> QED BY <1>1, <1>8, <2>6, CommitCall
          DEF Atomic!Next, Atomic!commit_transaction, Maps
<1> QED BY <1>1, <1>7, <1>8 DEF Batching

-----------------------------------------------------------------------------
(* undo_last.                                                              *)

LEMMA UndoCall ==
    ASSUME StepInv, BatchInv, AloneInv, call.op = "undo_last"
    PROVE  /\ \E filter \in Files \cup {AnyFile} :
                /\ call.at \in Atomic!Eligible(filter)
                /\ \A j \in Atomic!Eligible(filter) : j <= call.at
           /\ patches = start.patches
           /\ start.undo \in Seq(UndoPatchRecord)
           /\ call.at \in 1..Len(start.undo)
           /\ disk \in DiskType /\ start.disk \in DiskType
<1>1. \E filter \in Files \cup {AnyFile} :
        /\ call.at \in Atomic!Eligible(filter)
        /\ \A j \in Atomic!Eligible(filter) : j <= call.at
    BY DEF AloneInv, GuardInv, Newest
<1>2. patches = start.patches
  <2>1. start.patches \in PatchesType
      BY DEF StepInv, StepType, StateType
  <2>2. Recorded = 0
      BY DEF StepInv, CallShape, Recorded, At
  <2>3. patches = [p \in PatchIds |-> start.patches[p]]
    <3>1. BatchIds(Recorded) = {}
        BY <2>2 DEF BatchIds
    <3>2. patches = Atomic!MarkApplied({})
        BY <3>1 DEF AloneInv, MarkInv
    <3> QED BY <3>2 DEF Atomic!MarkApplied
  <2> QED BY <2>1, <2>3 DEF PatchesType
<1>3. start.undo \in Seq(UndoPatchRecord) /\ call.at \in 1..Len(start.undo)
    BY DEF StepInv, StepType, StateType, BatchInv, RevertInv
<1>4. disk \in DiskType /\ start.disk \in DiskType
    BY DEF StepInv, StepType, StateType, TypeInv, TypeOK
<1> QED BY <1>1, <1>2, <1>3, <1>4

LEMMA RestoreRecordMaps ==
    ASSUME StepInv, BatchInv, AloneInv, RestoreRecord
    PROVE  Maps
<1>1. CASE UNCHANGED <<disk, undo>> /\ Faults /\ Refuses("E_INTERNAL_ERROR")
  <2>1. call.op = "undo_last" /\ ~ At("reread")
      BY DEF RestoreRecord, At, StepInv, CallShape
  <2>2. undo = start.undo /\ \A f \in Files : disk[f] = start.disk[f]
      BY <2>1 DEF BatchInv, RevertInv, AloneInv
  <2>3. disk = start.disk
      BY <2>1, <2>2, UndoCall DEF DiskType
  <2>4. /\ start'.disk = start.disk /\ start'.undo = start.undo
        /\ start'.patches = start.patches
        /\ Atomic!Fail("undo_last", "E_INTERNAL_ERROR")
        /\ tx' = tx /\ begun' = begun /\ stagingDirs' = stagingDirs
      BY <1>1, <2>1, <2>2, <2>3, UndoCall, RefusesSeen DEF RestoreRecord
  <2>5. PICK filter \in Files \cup {AnyFile} :
          call.at \in Atomic!Eligible(filter)
      BY <2>1, UndoCall
  <2>6. Atomic!undo_last(filter)
      BY <1>1, <2>4, <2>5
      DEF Atomic!undo_last, Atomic!UndoFails, Atomic!txVars
  <2> QED BY <2>5, <2>6 DEF Atomic!Next, Maps
<1>2. CASE UNCHANGED <<reply, start, raced, orphans>> /\ UNCHANGED txVars
    BY <1>2, Stutters DEF txVars
<1> QED BY <1>1, <1>2 DEF RestoreRecord

LEMMA AnswerUndoMaps ==
    ASSUME StepInv, BatchInv, AloneInv, AnswerUndo
    PROVE  Maps
<1>1. call.op = "undo_last" /\ At("reread")
    BY DEF AnswerUndo, At, StepInv, CallShape
<1> DEFINE rec == start.undo[call.at]
<1>2. /\ undo = [start.undo EXCEPT ![call.at].reverted = TRUE]
      /\ \A f \in Files :
           disk[f] = IF f = rec.file THEN rec.snap ELSE start.disk[f]
    BY <1>1 DEF BatchInv, RevertInv, AloneInv
<1>3. rec \in UndoPatchRecord
    BY <1>1, UndoCall, ElementOfSeq
<1>4. undo[call.at].patch = rec.patch
  <2>1. undo = [start.undo EXCEPT ![call.at] = [rec EXCEPT !.reverted = TRUE]]
      BY <1>2
  <2>2. start.undo \in [1..Len(start.undo) -> UndoPatchRecord]
      BY <1>1, UndoCall, LenProperties
  <2>3. undo[call.at] = [rec EXCEPT !.reverted = TRUE]
      BY <1>1, <2>1, <2>2, UndoCall
  <2> QED BY <1>3, <2>3 DEF UndoPatchRecord
<1>5. disk = [start.disk EXCEPT ![rec.file] = rec.snap]
    BY <1>1, <1>2, <1>3, UndoCall DEF DiskType, UndoPatchRecord
<1>6. /\ start'.disk = disk /\ start'.undo = undo
      /\ start'.patches = start.patches
    BY <1>1, EndsSeen, UndoCall DEF AnswerUndo
<1>7. /\ \/ reply' = Atomic!Answer("undo_last", "reverted", {rec.patch})
         \/ Faults /\ Atomic!Fail("undo_last", "E_INTERNAL_ERROR")
      /\ tx' = tx /\ begun' = begun /\ stagingDirs' = stagingDirs
    BY <1>4 DEF AnswerUndo, Answer, Fail, txVars, Atomic!Answer, Atomic!Fail
<1>8. Atomic!Revert(call.at)
    BY <1>2, <1>5, <1>6, <1>7 DEF Atomic!Revert, Atomic!Replace
<1>9. PICK filter \in Files \cup {AnyFile} :
        /\ call.at \in Atomic!Eligible(filter)
        /\ \A j \in Atomic!Eligible(filter) : j <= call.at
    BY <1>1, UndoCall
<1>10. Atomic!undo_last(filter)
    BY <1>6, <1>7, <1>8, <1>9
    DEF Atomic!undo_last, Atomic!UndoReverts, Atomic!txVars
<1> QED BY <1>9, <1>10 DEF Atomic!Next, Maps

-----------------------------------------------------------------------------
(* Between two calls Engine sees the present.                              *)

Seen == start.disk = disk /\ start.patches = patches /\ start.undo = undo

LEMMA IdleSeen ==
    ASSUME StepInv, Idle, start' = Now'
    PROVE  Seen /\ Seen'
BY DEF StepInv, CallShape, Now, Seen

LEMMA SeenNames ==
    ASSUME Seen
    PROVE  /\ \A p : /\ Atomic!Known(p) <=> Known(p)
                     /\ Atomic!GetError(p) = GetError(p)
                     /\ Atomic!Pending(p) <=> Pending(p)
                     /\ Atomic!FileOf(p) = FileOf(p)
           /\ \A f : Atomic!Exists(f) <=> Exists(f)
           /\ \A f, h : Atomic!HashMatches(f, h) <=> HashMatches(f, h)
           /\ \A f, c : Atomic!Replace(f, c) = Replace(f, c)
           /\ \A t : Atomic!Active(t) <=> Active(t)
           /\ Atomic!tx_is_expired <=> tx_is_expired
           /\ Atomic!Closed = Closed
           /\ \A filter : Atomic!Eligible(filter) = Eligible(filter)
           /\ \A p : Atomic!Stage(p) = Stage(p)
<1>1. \A p : /\ Atomic!Known(p) <=> Known(p)
             /\ Atomic!is_expired(p) <=> is_expired(p)
             /\ Atomic!FileOf(p) = FileOf(p)
    BY DEF Seen, Known, is_expired, FileOf, Atomic!Known, Atomic!is_expired,
       Atomic!FileOf
<1>2. \A p : Atomic!GetError(p) = GetError(p)
    BY <1>1 DEF GetError, Atomic!GetError
<1>3. \A p : Atomic!Pending(p) <=> Pending(p)
    BY <1>2 DEF Seen, Pending, Atomic!Pending
<1>4. /\ \A f : Atomic!Exists(f) <=> Exists(f)
      /\ \A f, h : Atomic!HashMatches(f, h) <=> HashMatches(f, h)
      /\ \A f, c : Atomic!Replace(f, c) = Replace(f, c)
    BY DEF Seen, Exists, HashMatches, compute_content_hash, Replace,
       Atomic!Exists, Atomic!HashMatches, Atomic!compute_content_hash,
       Atomic!Replace
<1>5. Atomic!Closed = Closed /\ (Atomic!tx_is_expired <=> tx_is_expired)
    BY DEF Closed, tx_is_expired, Atomic!Closed, Atomic!tx_is_expired
<1>6. \A t : Atomic!Active(t) <=> Active(t)
    BY <1>5 DEF Active, Atomic!Active
<1>7. \A filter : Atomic!Eligible(filter) = Eligible(filter)
    BY DEF Seen, Eligible, Atomic!Eligible
<1>8. \A p : Atomic!Stage(p) = Stage(p)
    BY DEF Stage, IsStaged, Atomic!Stage, Atomic!IsStaged
<1> QED BY <1>1, <1>2, <1>3, <1>4, <1>5, <1>6, <1>7, <1>8

LEMMA SeenReplies ==
    /\ \A op, code : Fail(op, code) <=> Atomic!Fail(op, code)
    /\ \A op, out, ids : Answer(op, out, ids) = Atomic!Answer(op, out, ids)
    /\ NoReply = Atomic!NoReply
BY DEF Fail, Answer, NoReply, Atomic!Fail, Atomic!Answer, Atomic!NoReply

LEMMA ProposalsSeen ==
    ASSUME Seen, Seen', NEW p, NEW path, NEW new, NEW h
    PROVE  /\ propose_edit(p, path, new) => Atomic!propose_edit(p, path, new)
           /\ propose_line_edit(p, path, h, new) =>
                Atomic!propose_line_edit(p, path, h, new)
           /\ ProposeRejected(path) => Atomic!ProposeRejected(path)
<1>1. Proposes(p, path, new) => Atomic!Proposes(p, path, new)
    BY SeenNames, SeenReplies
    DEF Seen, Proposes, store, compute_content_hash, txVars, Atomic!Proposes,
        Atomic!store, Atomic!compute_content_hash, Atomic!txVars
<1>2. ProposeRejected(path) => Atomic!ProposeRejected(path)
    BY SeenNames, SeenReplies
    DEF Seen, ProposeRejected, ProposeErrors, txVars, Atomic!ProposeRejected,
        Atomic!ProposeErrors, Atomic!txVars
<1> QED BY <1>1, <1>2, SeenNames
        DEF propose_edit, propose_line_edit, Atomic!propose_edit,
            Atomic!propose_line_edit

LEMMA RefusalsSeen ==
    ASSUME Seen, Seen', NEW p
    PROVE  PatchUnavailable(p) \/ PatchAlreadyApplied(p) =>
             Atomic!apply_patch(p)
<1>1. PatchUnavailable(p) => Atomic!PatchUnavailable(p)
    BY SeenNames, SeenReplies
    DEF Seen, PatchUnavailable, GetFails, txVars, Atomic!PatchUnavailable,
        Atomic!GetFails, Atomic!txVars
<1>2. PatchAlreadyApplied(p) => Atomic!PatchAlreadyApplied(p)
    BY SeenNames, SeenReplies
    DEF Seen, PatchAlreadyApplied, txVars, Atomic!PatchAlreadyApplied,
        Atomic!txVars
<1> QED BY <1>1, <1>2 DEF Atomic!apply_patch

LEMMA PruneSeen ==
    ASSUME Seen
    PROVE  /\ Close => Atomic!Close
           /\ \A op, t : TxNotFound(op, t) => Atomic!TxNotFound(op, t)
<1>1. Close => Atomic!Close
    BY CloseSeen
<1>2. Prune => Atomic!Prune
    BY <1>1, SeenNames DEF Prune, txVars, Atomic!Prune, Atomic!txVars
<1> QED BY <1>1, <1>2, SeenNames, SeenReplies DEF TxNotFound, Atomic!TxNotFound

LEMMA TxCallsSeen ==
    ASSUME Seen, Seen'
    PROVE  /\ \A p, t : apply_patch_tx(p, t) => Atomic!apply_patch_tx(p, t)
           /\ Begin => Atomic!Begin
           /\ \A t : Rollback(t) => Atomic!Rollback(t)
           /\ \A t : TxNotFound("commit_transaction", t)
                     /\ UNCHANGED <<disk, patches, undo>>
                     => Atomic!commit_transaction(t)
<1>1. ASSUME NEW p, NEW t, apply_patch_tx(p, t)
      PROVE  Atomic!apply_patch_tx(p, t)
  <2>1. StagePatch(p, t) => Atomic!StagePatch(p, t)
      BY SeenNames, SeenReplies DEF Seen, StagePatch, Atomic!StagePatch
  <2>2. StageRaises(p, t) => Atomic!StageRaises(p, t)
      BY SeenNames, SeenReplies
      DEF Seen, StageRaises, txVars, Atomic!StageRaises, Atomic!txVars
  <2> QED BY <1>1, <2>1, <2>2, PruneSeen, SeenNames
          DEF Seen, apply_patch_tx, Atomic!apply_patch_tx
<1>2. Begin => Atomic!Begin
  <2>1. \A t : begin_transaction(t) => Atomic!begin_transaction(t)
      BY SeenNames, SeenReplies
      DEF begin_transaction, Atomic!begin_transaction
  <2>2. BeginRejected => Atomic!BeginRejected
      BY SeenNames, SeenReplies
      DEF BeginRejected, txVars, Atomic!BeginRejected, Atomic!txVars
  <2> QED BY <2>1, <2>2 DEF Seen, Begin, Atomic!Begin
<1>3. ASSUME NEW t, Rollback(t)
      PROVE  Atomic!Rollback(t)
  <2>1. rollback_transaction(t) => Atomic!rollback_transaction(t)
      BY PruneSeen, SeenNames, SeenReplies
      DEF rollback_transaction, Atomic!rollback_transaction
  <2> QED BY <1>3, <2>1, PruneSeen DEF Seen, Rollback, Atomic!Rollback
<1>4. ASSUME NEW t, TxNotFound("commit_transaction", t),
             UNCHANGED <<disk, patches, undo>>
      PROVE  Atomic!commit_transaction(t)
    BY <1>4, PruneSeen DEF Seen, Atomic!commit_transaction
<1> QED BY <1>1, <1>2, <1>3, <1>4

LEMMA NothingToUndoSeen ==
    ASSUME Seen, Seen', NEW filter, Eligible(filter) = {}, undo_last(filter)
    PROVE  Atomic!undo_last(filter)
<1>1. UndoFails(filter) => Atomic!UndoFails(filter)
    BY SeenNames, SeenReplies DEF Seen, UndoFails, Atomic!UndoFails
<1>2. ~ UndoReverts(filter)
    BY DEF UndoReverts
<1> QED BY <1>1, <1>2 DEF Seen, undo_last, txVars, Atomic!undo_last, Atomic!txVars

LEMMA ShortCallMaps ==
    ASSUME StepInv, ShortCall
    PROVE  Atomic!Next
<1>1. Seen /\ Seen'
    BY IdleSeen DEF ShortCall
<1>2. ASSUME NEW p \in PatchIds, NEW path \in Paths, NEW new \in Content,
             \/ propose_edit(p, path, new)
             \/ \E h \in Content : propose_line_edit(p, path, h, new)
      PROVE  Atomic!Next
    BY <1>1, <1>2, ProposalsSeen DEF Atomic!Next
<1>3. ASSUME NEW path \in Paths, ProposeRejected(path)
      PROVE  Atomic!Next
    BY <1>1, <1>3, ProposalsSeen DEF Atomic!Next
<1>4. ASSUME NEW p \in PatchIds, PatchUnavailable(p) \/ PatchAlreadyApplied(p)
      PROVE  Atomic!Next
    BY <1>1, <1>4, RefusalsSeen DEF Atomic!Next
<1>5. ASSUME NEW p \in PatchIds, NEW t \in TxIds, apply_patch_tx(p, t)
      PROVE  Atomic!Next
    BY <1>1, <1>5, TxCallsSeen DEF Atomic!Next
<1>6. ASSUME \/ Begin
             \/ \E t \in TxIds : Rollback(t)
             \/ /\ \E t \in TxIds : TxNotFound("commit_transaction", t)
                /\ UNCHANGED <<disk, patches, undo>>
      PROVE  Atomic!Next
    BY <1>1, <1>6, TxCallsSeen DEF Atomic!Next
<1>7. ASSUME NEW filter \in Files \cup {AnyFile},
             Eligible(filter) = {}, undo_last(filter)
      PROVE  Atomic!Next
    BY <1>1, <1>7, NothingToUndoSeen DEF Atomic!Next
<1> QED BY <1>2, <1>3, <1>4, <1>5, <1>6, <1>7 DEF ShortCall

LEMMA ElsewhereMaps ==
    ASSUME StepInv, Elsewhere, Shared = FALSE
    PROVE  Atomic!Next
<1>1. Environment /\ Seen /\ Seen'
    BY IdleSeen DEF Elsewhere
<1>2. CASE Tick
  <2>1. AgePatches => Atomic!AgePatches
      BY <1>1, SeenNames
      DEF Seen, AgePatches, Older, Atomic!AgePatches, Atomic!Older
  <2>2. AgeTx => Atomic!AgeTx
      BY <1>1, SeenNames DEF AgeTx, Older, Atomic!AgeTx, Atomic!Older
  <2>3. Atomic!Tick
      BY <1>1, <1>2, <2>1, <2>2, SeenReplies DEF Seen, Tick, Atomic!Tick
  <2> QED BY <2>3 DEF Atomic!Next, Atomic!Environment
<1>3. ASSUME NEW f \in Files, ExternalEdit(f),
             UNCHANGED <<patches, undo>>, UNCHANGED txVars
      PROVE  Atomic!Next
  <2>1. Atomic!ExternalEdit(f)
      BY <1>1, <1>3, SeenNames, SeenReplies
      DEF Seen, ExternalEdit, Atomic!ExternalEdit
  <2> QED BY <1>1, <1>3, <2>1
          DEF Seen, txVars, Atomic!txVars, Atomic!Next, Atomic!Environment
<1> QED BY <1>1, <1>2, <1>3 DEF Environment

-----------------------------------------------------------------------------
LEMMA HandlerMaps ==
    ASSUME StepInv, StepInv', BatchInv, AloneInv, Handler
    PROVE  Maps
BY CompareMaps, TakeSnapshotMaps, WriteMaps, VerifyMaps, RestoreMaps,
   RestoredMaps, RecordMaps, AnswerSuccessMaps, RestoreRecordMaps,
   AnswerUndoMaps DEF Handler

LEMMA StepMaps ==
    ASSUME Shared = FALSE, StepInv, StepInv', BatchInv, AloneInv,
           [StepNext]_stepVars
    PROVE  Maps
<1>1. CASE stepVars' = stepVars
    BY <1>1, Stutters DEF stepVars, vars, txVars
<1>2. ASSUME NEW op, NEW ids, NEW verify, Starts(op, ids, verify)
      PROVE  Maps
    BY <1>2, Stutters DEF Starts, vars, txVars
<1>3. ASSUME NEW filter, StartUndo(filter)
      PROVE  Maps
    BY <1>3, Stutters DEF StartUndo, vars, txVars
<1>4. CASE Handler
    BY <1>4, HandlerMaps
<1>5. CASE ShortCall \/ Elsewhere
    BY <1>5, ShortCallMaps, ElsewhereMaps DEF Maps
<1> QED BY <1>1, <1>2, <1>3, <1>4, <1>5
        DEF StepNext, StartApply, StartCommit, Kill

LEMMA InitMaps ==
    ASSUME StepInit
    PROVE  Atomic!Init
<1>1. Seen /\ Init
    BY DEF StepInit, Now, Seen
<1> QED BY <1>1, SeenNames, SeenReplies DEF Init, Seen, Atomic!Init

(* A call that others leave alone is one step of Engine, taken when it is  *)
(* answered: every handler of core/engine.py, however many files it writes *)
(* and wherever it raises.                                                 *)
THEOREM StepsImplementEngine ==
    ASSUME Shared = FALSE
    PROVE  StepSpec => ImplementsEngine
<1>1. StepInit => Atomic!Init
    BY InitMaps
<1>2. StepInv /\ StepInv' /\ BatchInv /\ AloneInv /\ [StepNext]_stepVars
        => [Atomic!Next]_(Atomic!vars)
    BY StepMaps DEF Maps
<1> QED BY <1>1, <1>2, StepInvariant, BatchInvariant, AloneInvariant, PTL
        DEF StepSpec, ImplementsEngine, Atomic!Spec
=============================================================================
