----------------------------- MODULE StepProofs ------------------------------
(***************************************************************************)
(* The step-by-step handlers stay well typed, keep the shape of their      *)
(* loops and leave no staging directory behind, whatever others do between *)
(* two steps and wherever the server is killed.                            *)
(***************************************************************************)
EXTENDS StepProperties, EngineProofs

StateType == [disk : DiskType, patches : PatchesType,
              undo : Seq(UndoPatchRecord)]

-----------------------------------------------------------------------------
(* The shape of a running call.                                            *)

Batching == call.op \in {"apply_patch", "commit_transaction"}

\* The batch: patches the cache knows, each once; one, or what is staged.
BatchShape ==
    /\ \A i \in 1..Len(call.ids) : Known(call.ids[i])
    /\ \A i, j \in 1..Len(call.ids) : call.ids[i] = call.ids[j] => i = j
    /\ call.op = "apply_patch" => Len(call.ids) = 1
    /\ call.op = "commit_transaction" => tx # Closed /\ call.ids = tx.staged

CallShape ==
    /\ Idle => call = NoCall /\ start = Now
    /\ ~ Idle => call.op # "none"
    /\ call.op = "undo_last" <=> call.pc \in {"revert", "reread"}
    /\ ~ Batching => call.ids = <<>>
    /\ LoopShape /\ Progress /\ BatchShape

StepType ==
    /\ TypeInv
    /\ call \in Call
    /\ start \in StateType
    /\ raced \in SUBSET Files
    /\ orphans \in SUBSET TxIds

StepInv == StepType /\ CallShape

-----------------------------------------------------------------------------
(* Lemmas about the call's record and the operators that move it on.       *)

LEMMA CallFields ==
    ASSUME NEW c \in Call
    PROVE  /\ c.op \in {"none", "apply_patch", "commit_transaction", "undo_last"}
           /\ c.pc \in Phases
           /\ c.ids \in Seq(PatchIds) /\ Len(c.ids) \in Nat
           /\ c.verify \in BOOLEAN
           /\ c.at \in Nat /\ c.wrote \in Nat
           /\ c.snaps \in Seq(Content) /\ Len(c.snaps) \in Nat
BY LenProperties DEF Call

(* The next iteration, or the next phase.                                  *)
LEMMA OnwardStep ==
    ASSUME NEW c \in Call, NEW next \in Phases, Onward(c, next),
           c.at \in 1..Len(c.ids)
    PROVE  /\ call' \in Call
           /\ \/ c.at < Len(c.ids) /\ call'.pc = c.pc /\ call'.at = c.at + 1
              \/ c.at = Len(c.ids) /\ call'.pc = next /\ call'.at = 1
           /\ call'.op = c.op /\ call'.ids = c.ids /\ call'.verify = c.verify
           /\ call'.snaps = c.snaps /\ call'.wrote = c.wrote
           /\ reply' = reply /\ start' = start /\ raced' = raced
           /\ orphans' = orphans
           /\ tx' = tx /\ begun' = begun /\ stagingDirs' = stagingDirs
<1>1. c.at \in Nat /\ Len(c.ids) \in Nat /\ c.pc \in Phases
    BY CallFields
<1>2. CASE c.at < Len(c.ids)
  <2>1. call' = [c EXCEPT !.at = c.at + 1] /\ c.at + 1 \in Nat
      BY <1>1, <1>2 DEF Onward
  <2>2. /\ call' \in Call /\ call'.pc = c.pc /\ call'.at = c.at + 1
        /\ call'.op = c.op /\ call'.ids = c.ids /\ call'.verify = c.verify
        /\ call'.snaps = c.snaps /\ call'.wrote = c.wrote
      BY <2>1 DEF Call
  <2> QED BY <1>2, <2>2 DEF Onward, txVars
<1>3. CASE ~ (c.at < Len(c.ids))
  <2>1. call' = [c EXCEPT !.pc = next, !.at = 1] /\ c.at = Len(c.ids)
      BY <1>1, <1>3 DEF Onward
  <2>2. /\ call' \in Call /\ call'.pc = next /\ call'.at = 1
        /\ call'.op = c.op /\ call'.ids = c.ids /\ call'.verify = c.verify
        /\ call'.snaps = c.snaps /\ call'.wrote = c.wrote
      BY <2>1 DEF Call
  <2> QED BY <2>1, <2>2 DEF Onward, txVars
<1> QED BY <1>2, <1>3

LEMMA GoesToStep ==
    ASSUME call \in Call, NEW phase \in Phases, GoesTo(phase)
    PROVE  /\ call' \in Call /\ call'.pc = phase /\ call'.at = 1
           /\ call'.op = call.op /\ call'.ids = call.ids
           /\ call'.verify = call.verify
           /\ call'.snaps = call.snaps /\ call'.wrote = call.wrote
           /\ reply' = reply /\ start' = start /\ raced' = raced
           /\ orphans' = orphans
           /\ tx' = tx /\ begun' = begun /\ stagingDirs' = stagingDirs
<1>1. call' = [call EXCEPT !.pc = phase, !.at = 1]
    BY DEF GoesTo
<1>2. /\ call' \in Call /\ call'.pc = phase /\ call'.at = 1
      /\ call'.op = call.op /\ call'.ids = call.ids
      /\ call'.verify = call.verify
      /\ call'.snaps = call.snaps /\ call'.wrote = call.wrote
    BY <1>1 DEF Call
<1> QED BY <1>2 DEF GoesTo, txVars

(* The call no handler runs.                                               *)
LEMMA NoCallShape ==
    /\ NoCall \in Call /\ NoCall.pc = "idle" /\ NoCall.op = "none"
    /\ NoCall.ids = <<>> /\ NoCall.at = 0
<1>1. <<>> \in Seq(PatchIds) /\ <<>> \in Seq(Content)
    BY EmptySeq
<1> QED BY <1>1 DEF NoCall, Call, Phases

(* Whenever a call ends in a typed state, the next one can begin.          *)
LEMMA EndsShape ==
    ASSUME StepInv, Ends, TypeInv'
    PROVE  StepInv'
<1>1. call' \in Call /\ call'.pc = "idle" /\ call'.op = "none"
      /\ call'.ids = <<>> /\ call'.at = 0
    BY NoCallShape DEF Ends
<1>2. start' = Now' /\ Now' \in StateType
    BY DEF Ends, Now, TypeInv, TypeOK, StateType
<1>3. Idle' /\ call' = NoCall
    BY <1>1 DEF Idle, Ends
<1>4. LoopShape' /\ Progress' /\ BatchShape'
    BY <1>1, EmptySeq DEF LoopShape, Progress, BatchShape, At
<1> QED BY <1>1, <1>2, <1>3, <1>4
    DEF StepInv, StepType, CallShape, Ends, Batching

(* The patch and the file a loop is at.                                    *)
LEMMA PatchType ==
    ASSUME StepInv, NEW i \in 1..Len(call.ids)
    PROVE  /\ call.ids[i] \in PatchIds /\ Known(call.ids[i])
           /\ FileOf(call.ids[i]) \in Files
           /\ patches[call.ids[i]].new \in Content
           /\ patches[call.ids[i]].base \in Content
<1>1. call.ids \in Seq(PatchIds)
    BY CallFields DEF StepInv, StepType
<1>2. call.ids[i] \in PatchIds /\ Known(call.ids[i])
    BY <1>1, ElementOfSeq DEF StepInv, CallShape, BatchShape
<1> QED BY <1>2, KnownType DEF StepInv, StepType, TypeInv

-----------------------------------------------------------------------------
(* How the steps of a handler keep the invariant.                          *)

\* What a step does to the engine's state, apart from the transaction.
Typed ==
    /\ disk' \in DiskType
    /\ patches' \in PatchesType
    /\ undo' \in Seq(UndoPatchRecord)
    /\ reply' \in ReplyType
    /\ \A p \in PatchIds : Known(p) => Known(p)'

LEMMA TypeKept ==
    ASSUME TypeInv, Typed, UNCHANGED txVars \/ Close
    PROVE  TypeInv'
<1>1. TypeOK'
    BY CloseType DEF TypeInv, TypeOK, Typed, txVars
<1>2. CASE UNCHANGED txVars
  <2>1. tx.staged \in Seq(PatchIds)
      BY StagedSeq DEF TypeInv
  <2>2. \A i \in 1..Len(tx.staged) : tx.staged[i] \in PatchIds
      BY <2>1, ElementOfSeq
  <2>3. StagedOnce'
      BY <1>2, <2>2 DEF TypeInv, StagedOnce, Typed, txVars
  <2> QED BY <1>1, <2>3 DEF TypeInv
<1>3. CASE Close
  <2>1. tx'.staged = <<>>
      BY <1>3 DEF Close, Closed
  <2> QED BY <1>1, <2>1, EmptySeq DEF TypeInv, StagedOnce
<1> QED BY <1>2, <1>3

(* What a handler answers with an error.                                   *)
LEMMA RefusesInv ==
    ASSUME StepInv, NEW code \in Outcomes, Refuses(code),
           disk' \in DiskType, patches' \in PatchesType,
           undo' \in Seq(UndoPatchRecord),
           \A p \in PatchIds : Known(p) => Known(p)'
    PROVE  StepInv'
<1>1. call.op \in Tools
    BY CallFields DEF StepInv, StepType, Tools
<1>2. reply' \in ReplyType
    BY <1>1, FailType DEF Refuses
<1>3. TypeInv'
    BY <1>2, TypeKept DEF Refuses, Typed, StepInv, StepType
<1> QED BY <1>3, EndsShape DEF Refuses

(* A phase of a batch that goes on to the same or another phase of it.     *)
LEMMA GoesOnInv ==
    ASSUME StepInv, Batching, ~ Idle,
           disk' \in DiskType, patches' \in PatchesType,
           undo' \in Seq(UndoPatchRecord),
           \A p \in PatchIds : Known(p) => Known(p)',
           call' \in Call, call'.op = call.op, call'.ids = call.ids,
           call'.pc \notin {"idle", "revert", "reread"},
           reply' = reply, start' = start, raced' = raced, orphans' = orphans,
           tx' = tx, begun' = begun, stagingDirs' = stagingDirs,
           LoopShape', Progress'
    PROVE  StepInv'
<1>1. TypeInv'
    BY TypeKept DEF Typed, StepInv, StepType, TypeInv, TypeOK, txVars
<1>2. BatchShape'
  <2>1. \A i \in 1..Len(call.ids) : call.ids[i] \in PatchIds
      BY PatchType
  <2> QED BY <2>1 DEF StepInv, CallShape, BatchShape
<1>3. ~ Idle' /\ Batching' /\ call'.op # "none" /\ call'.op # "undo_last"
    BY DEF Idle, Batching
<1> QED BY <1>1, <1>2, <1>3 DEF StepInv, StepType, CallShape

(* In a phase of a batch a batch is running.                               *)
LEMMA InBatch ==
    ASSUME StepInv, call.pc \notin {"idle", "revert", "reread"}
    PROVE  Batching /\ ~ Idle
BY CallFields DEF StepInv, StepType, CallShape, Batching, Idle

-----------------------------------------------------------------------------
(* The handlers, phase by phase.                                           *)

LEMMA CompareInv ==
    ASSUME StepInv, Compare
    PROVE  StepInv'
<1>0. /\ disk' \in DiskType /\ patches' \in PatchesType
      /\ undo' \in Seq(UndoPatchRecord)
      /\ \A p \in PatchIds : Known(p) => Known(p)'
    BY DEF Compare, StepInv, StepType, TypeInv, TypeOK, Known
<1>1. CASE Onward(call, "snapshot")
  <2>1. At("compare") /\ call \in Call /\ call.at \in 1..Len(call.ids)
        /\ "snapshot" \in Phases
      BY DEF Compare, At, StepInv, StepType, CallShape, LoopShape, Phases
  <2>2. Batching /\ ~ Idle
      BY <2>1, InBatch DEF At
  <2>3. LoopShape' /\ Progress'
      BY <1>1, <2>1, OnwardStep, CallFields, EmptySeq
      DEF LoopShape, Progress, At, StepInv, CallShape
  <2> QED BY <1>0, <1>1, <2>1, <2>2, <2>3, OnwardStep, GoesOnInv DEF At
<1>2. CASE \E code \in Outcomes : Refuses(code)
    BY <1>0, <1>2, RefusesInv
<1> QED BY <1>1, <1>2 DEF Compare, Outcomes, CEMPErrorCode

LEMMA TakeSnapshotInv ==
    ASSUME StepInv, TakeSnapshot
    PROVE  StepInv'
<1>0. /\ disk' \in DiskType /\ patches' \in PatchesType
      /\ undo' \in Seq(UndoPatchRecord)
      /\ \A p \in PatchIds : Known(p) => Known(p)'
    BY DEF TakeSnapshot, StepInv, StepType, TypeInv, TypeOK, Known
<1>1. /\ At("snapshot") /\ call \in Call /\ call.at \in 1..Len(call.ids)
      /\ "write" \in Phases
    BY DEF TakeSnapshot, At, StepInv, StepType, CallShape, LoopShape, Phases
<1> DEFINE snap == IF Exists(File) THEN snapshot(File) ELSE Empty
           c == [call EXCEPT !.snaps = Append(call.snaps, snap)]
<1>2. CASE Onward(c, "write")
  <2>1. FileOf(call.ids[call.at]) \in Files
      BY <1>1, PatchType
  <2>2. snap \in Content
      BY <2>1, GitAssumption, StepAssumption
      DEF StepInv, StepType, TypeInv, TypeOK, DiskType, File, Patch, Exists,
          snapshot
  <2>3. /\ call.snaps \in Seq(Content) /\ Len(call.snaps) \in Nat
        /\ Append(call.snaps, snap) \in Seq(Content)
        /\ Len(Append(call.snaps, snap)) = Len(call.snaps) + 1
      BY <1>1, <2>2, CallFields, AppendProperties
  <2>4. /\ c \in Call /\ c.pc = call.pc /\ c.op = call.op /\ c.ids = call.ids
        /\ c.at = call.at /\ c.wrote = call.wrote
        /\ Len(c.snaps) = Len(call.snaps) + 1
      BY <1>1, <2>3 DEF Call
  <2> HIDE DEF c
  <2>5. Batching /\ ~ Idle
      BY <1>1, InBatch DEF At
  <2>6. LoopShape' /\ Progress'
    <3>1. /\ Len(call.snaps) = call.at - 1 /\ call.wrote = 0
          /\ call.at \in Nat /\ Len(call.ids) \in Nat
        BY <1>1, CallFields DEF Progress, StepInv, CallShape
    <3>2. /\ \/ /\ call.at < Len(call.ids)
                /\ call'.pc = "snapshot" /\ call'.at = call.at + 1
             \/ /\ call.at = Len(call.ids)
                /\ call'.pc = "write" /\ call'.at = 1
          /\ call'.ids = call.ids /\ call'.snaps = c.snaps /\ call'.wrote = 0
        BY <1>1, <1>2, <2>4, <3>1, OnwardStep DEF At
    <3> QED BY <1>1, <2>4, <3>1, <3>2 DEF LoopShape, Progress, At
  <2> QED BY <1>0, <1>1, <1>2, <2>4, <2>5, <2>6, OnwardStep, GoesOnInv DEF At
<1>3. CASE \E code \in Outcomes : Refuses(code)
    BY <1>0, <1>3, RefusesInv
<1> QED BY <1>2, <1>3 DEF TakeSnapshot, Outcomes, CEMPErrorCode

(* Whatever a write or a checker raises.                                   *)
LEMMA RaisedInv ==
    ASSUME StepInv, Raised, call.pc \in {"write", "verify"},
           disk' \in DiskType, patches' \in PatchesType,
           undo' \in Seq(UndoPatchRecord),
           \A p \in PatchIds : Known(p) => Known(p)'
    PROVE  StepInv'
<1>1. CASE GoesTo("restore")
  <2>1. Batching /\ ~ Idle
      BY InBatch
  <2>2. call \in Call /\ "restore" \in Phases
      BY DEF StepInv, StepType, Phases
  <2>3. LoopShape' /\ Progress'
      BY <1>1, <2>2, GoesToStep, CallFields
      DEF LoopShape, Progress, At, StepInv, CallShape
  <2> QED BY <1>1, <2>1, <2>2, <2>3, GoesToStep, GoesOnInv
<1>2. CASE \E code \in Outcomes : Refuses(code)
    BY <1>2, RefusesInv
<1> QED BY <1>1, <1>2 DEF Raised, Outcomes, CEMPErrorCode

LEMMA WriteInv ==
    ASSUME StepInv, Write
    PROVE  StepInv'
<1>1. /\ At("write") /\ call \in Call /\ call.at \in 1..Len(call.ids)
      /\ "verify" \in Phases /\ "record" \in Phases
    BY DEF Write, At, StepInv, StepType, CallShape, LoopShape, Phases
<1>2. /\ patches' \in PatchesType /\ undo' \in Seq(UndoPatchRecord)
      /\ \A p \in PatchIds : Known(p) => Known(p)'
    BY DEF Write, StepInv, StepType, TypeInv, TypeOK, Known
<1> DEFINE c == [call EXCEPT !.wrote = call.wrote + 1]
           next == IF call.verify THEN "verify" ELSE "record"
<1>3. CASE Onward(c, next) /\ disk' = Replace(File, patches[Patch].new)
  <2>1. disk' \in DiskType
      BY <1>1, <1>3, PatchType, ReplaceType
      DEF File, Patch, StepInv, StepType, TypeInv
  <2>2. /\ c \in Call /\ c.pc = call.pc /\ c.op = call.op /\ c.ids = call.ids
        /\ c.at = call.at /\ c.wrote = call.wrote + 1 /\ c.snaps = call.snaps
        /\ next \in Phases /\ next \in {"verify", "record"}
      BY <1>1 DEF Call
  <2> HIDE DEF c, next
  <2>3. Batching /\ ~ Idle
      BY <1>1, InBatch DEF At
  <2>4. LoopShape' /\ Progress'
    <3>1. /\ Len(call.snaps) = Len(call.ids) /\ call.wrote = call.at - 1
          /\ call.at \in Nat /\ Len(call.ids) \in Nat
        BY <1>1, CallFields DEF Progress, StepInv, CallShape
    <3>2. /\ \/ /\ call.at < Len(call.ids)
                /\ call'.pc = "write" /\ call'.at = call.at + 1
             \/ /\ call.at = Len(call.ids)
                /\ call'.pc = next /\ call'.at = 1
          /\ call'.ids = call.ids /\ call'.snaps = call.snaps
          /\ call'.wrote = call.wrote + 1
        BY <1>1, <1>3, <2>2, OnwardStep DEF At
    <3> QED BY <1>1, <2>2, <3>1, <3>2 DEF LoopShape, Progress, At
  <2> QED BY <1>1, <1>2, <1>3, <2>1, <2>2, <2>3, <2>4, OnwardStep, GoesOnInv
          DEF At
<1>4. CASE disk' = disk /\ Raised
    BY <1>1, <1>2, <1>4, RaisedInv DEF At, StepInv, StepType, TypeInv, TypeOK
<1> QED BY <1>3, <1>4 DEF Write

LEMMA VerifyInv ==
    ASSUME StepInv, Verify
    PROVE  StepInv'
<1>0. /\ disk' \in DiskType /\ patches' \in PatchesType
      /\ undo' \in Seq(UndoPatchRecord)
      /\ \A p \in PatchIds : Known(p) => Known(p)'
    BY DEF Verify, StepInv, StepType, TypeInv, TypeOK, Known
<1>1. /\ At("verify") /\ call \in Call /\ call.at \in 1..Len(call.ids)
      /\ "record" \in Phases /\ "restore" \in Phases
    BY DEF Verify, At, StepInv, StepType, CallShape, LoopShape, Phases
<1>2. Batching /\ ~ Idle
    BY <1>1, InBatch DEF At
<1>3. CASE Onward(call, "record")
  <2>1. LoopShape' /\ Progress'
      BY <1>1, <1>3, OnwardStep, CallFields
      DEF LoopShape, Progress, At, StepInv, CallShape
  <2> QED BY <1>0, <1>1, <1>2, <1>3, <2>1, OnwardStep, GoesOnInv DEF At
<1>4. CASE GoesTo("restore")
  <2>1. LoopShape' /\ Progress'
      BY <1>1, <1>4, GoesToStep, CallFields
      DEF LoopShape, Progress, At, StepInv, CallShape
  <2> QED BY <1>0, <1>1, <1>2, <1>4, <2>1, GoesToStep, GoesOnInv
<1>5. CASE Raised
    BY <1>0, <1>1, <1>5, RaisedInv DEF At
<1> QED BY <1>3, <1>4, <1>5 DEF Verify

LEMMA RestoreInv ==
    ASSUME StepInv, Restore
    PROVE  StepInv'
<1>1. /\ At("restore") /\ call \in Call /\ call.at \in 1..call.wrote
      /\ call.wrote \in 0..Len(call.ids) /\ Len(call.snaps) = Len(call.ids)
      /\ call.at \in Nat /\ call.wrote \in Nat /\ Len(call.ids) \in Nat
    BY CallFields DEF Restore, At, StepInv, StepType, CallShape, LoopShape,
       Progress
<1>2. /\ patches' \in PatchesType /\ undo' \in Seq(UndoPatchRecord)
      /\ \A p \in PatchIds : Known(p) => Known(p)'
    BY DEF Restore, StepInv, StepType, TypeInv, TypeOK, Known
<1>3. ASSUME disk' = Replace(File, call.snaps[call.at]),
             call' = [call EXCEPT !.at = call.at + 1],
             UNCHANGED <<reply, start, raced, orphans>>, UNCHANGED txVars
      PROVE  StepInv'
  <2>1. call.snaps \in Seq(Content) /\ call.at \in 1..Len(call.ids)
      BY <1>1, CallFields
  <2>2. call.snaps[call.at] \in Content
      BY <1>1, <2>1, ElementOfSeq
  <2>3. disk' \in DiskType
      BY <1>3, <2>1, <2>2, PatchType, ReplaceType
      DEF File, Patch, StepInv, StepType, TypeInv
  <2>4. /\ call' \in Call /\ call'.pc = call.pc /\ call'.at = call.at + 1
        /\ call'.op = call.op /\ call'.ids = call.ids
        /\ call'.snaps = call.snaps /\ call'.wrote = call.wrote
      BY <1>1, <1>3 DEF Call
  <2>5. Batching /\ ~ Idle
      BY <1>1, InBatch DEF At
  <2>6. LoopShape' /\ Progress'
      BY <1>1, <2>4 DEF LoopShape, Progress, At
  <2> QED BY <1>1, <1>2, <1>3, <2>3, <2>4, <2>5, <2>6, GoesOnInv DEF At, txVars
<1>4. CASE disk' = disk /\ Refuses("E_INTERNAL_ERROR")
    BY <1>2, <1>4, RefusesInv
    DEF Outcomes, CEMPErrorCode, StepInv, StepType, TypeInv, TypeOK
<1> QED BY <1>3, <1>4 DEF Restore

LEMMA RestoredInv ==
    ASSUME StepInv, Restored
    PROVE  StepInv'
<1>0. /\ disk' \in DiskType /\ patches' \in PatchesType
      /\ undo' \in Seq(UndoPatchRecord)
      /\ \A p \in PatchIds : Known(p) => Known(p)'
    BY DEF Restored, StepInv, StepType, TypeInv, TypeOK, Known
<1>1. call.op \in Tools
    BY CallFields DEF StepInv, StepType, Tools
<1>2. reply' \in ReplyType
    BY <1>1, FailType DEF Restored, Outcomes, CEMPErrorCode
<1>3. TypeInv'
    BY <1>0, <1>2, TypeKept DEF Restored, Typed, StepInv, StepType
<1> QED BY <1>3, EndsShape DEF Restored

LEMMA RecordInv ==
    ASSUME StepInv, Record
    PROVE  StepInv'
<1>1. /\ At("record") /\ call \in Call /\ call.at \in 1..Len(call.ids)
      /\ Len(call.snaps) = Len(call.ids) /\ "answer" \in Phases
    BY DEF Record, At, StepInv, StepType, CallShape, LoopShape, Progress, Phases
<1>2. Patch \in PatchIds /\ Known(Patch) /\ File \in Files
    BY <1>1, PatchType DEF Patch, File
<1>3. call.snaps[call.at] \in Content
    BY <1>1, CallFields, ElementOfSeq
<1>4. /\ disk' \in DiskType /\ undo' \in Seq(UndoPatchRecord)
  <2>1. Applied(Patch, File, call.snaps[call.at]) \in UndoPatchRecord
      BY <1>2, <1>3 DEF Applied, UndoPatchRecord
  <2> QED BY <2>1, AppendProperties
      DEF Record, StepInv, StepType, TypeInv, TypeOK
<1>5. CASE patches' = MarkApplied({Patch}) /\ Onward(call, "answer")
  <2>1. patches' \in PatchesType /\ \A p \in PatchIds : Known(p) => Known(p)'
    <3>1. patches' \in PatchesType
        BY <1>2, <1>5, MarkAppliedType DEF StepInv, StepType, TypeInv
    <3>2. ASSUME NEW p \in PatchIds, Known(p)
          PROVE  Known(p)'
      <4>1. patches[p] \in PatchProposal
          BY <3>2, KnownType DEF StepInv, StepType, TypeInv
      <4>2. patches'[p] \in PatchProposal
          BY <1>5, <4>1 DEF MarkApplied, PatchProposal, Status
      <4> QED BY <4>2, PatchAssumption DEF Known
    <3> QED BY <3>1, <3>2
  <2>2. Batching /\ ~ Idle
      BY <1>1, InBatch DEF At
  <2>3. LoopShape' /\ Progress'
      BY <1>1, <1>5, OnwardStep, CallFields
      DEF LoopShape, Progress, At, StepInv, CallShape
  <2> QED BY <1>1, <1>4, <1>5, <2>1, <2>2, <2>3, OnwardStep, GoesOnInv DEF At
<1>6. CASE /\ patches' = [patches EXCEPT ![Patch].status = "expired"]
           /\ Refuses("E_PATCH_EXPIRED")
  <2>1. patches' \in PatchesType
      BY <1>2, <1>6, ExpireType
      DEF Known, StepInv, StepType, TypeInv, TypeOK
  <2>2. ASSUME NEW p \in PatchIds, Known(p)
        PROVE  Known(p)'
    <3>1. patches[p] \in PatchProposal /\ patches \in PatchesType
        BY <2>2, KnownType DEF StepInv, StepType, TypeInv, TypeOK
    <3>2. patches'[p] \in PatchProposal
        BY <1>2, <1>6, <3>1 DEF PatchesType, PatchProposal, Status
    <3> QED BY <3>2, PatchAssumption DEF Known
  <2> QED BY <1>4, <1>6, <2>1, <2>2, RefusesInv DEF Outcomes, CEMPErrorCode
<1>7. CASE UNCHANGED patches /\ Refuses("E_PATCH_ALREADY_APPLIED")
    BY <1>4, <1>7, RefusesInv
    DEF Outcomes, CEMPErrorCode, Known, StepInv, StepType, TypeInv, TypeOK
<1> QED BY <1>5, <1>6, <1>7 DEF Record

LEMMA AnswerSuccessInv ==
    ASSUME StepInv, AnswerSuccess
    PROVE  StepInv'
<1>0. /\ disk' \in DiskType /\ patches' \in PatchesType
      /\ undo' \in Seq(UndoPatchRecord)
      /\ \A p \in PatchIds : Known(p) => Known(p)'
    BY DEF AnswerSuccess, StepInv, StepType, TypeInv, TypeOK, Known
<1>1. Ids \in SUBSET PatchIds
    BY PatchType DEF Ids
<1>2. reply' \in ReplyType
    BY <1>1, AnswerType DEF AnswerSuccess, Tools, Outcomes, CEMPErrorCode
<1>3. TypeInv'
    BY <1>0, <1>2, TypeKept DEF AnswerSuccess, Typed, StepInv, StepType
<1> QED BY <1>3, EndsShape DEF AnswerSuccess

LEMMA RestoreRecordInv ==
    ASSUME StepInv, RestoreRecord
    PROVE  StepInv'
<1>1. /\ At("revert") /\ call \in Call /\ call.at \in 1..Len(undo)
      /\ "reread" \in Phases /\ call.op = "undo_last" /\ ~ Idle
    BY DEF RestoreRecord, At, Idle, StepInv, StepType, CallShape, LoopShape,
       Phases
<1>2. undo \in Seq(UndoPatchRecord) /\ undo[call.at] \in UndoPatchRecord
    BY <1>1, ElementOfSeq DEF StepInv, StepType, TypeInv, TypeOK
<1>3. /\ patches' \in PatchesType
      /\ \A p \in PatchIds : Known(p) => Known(p)'
    BY DEF RestoreRecord, StepInv, StepType, TypeInv, TypeOK, Known
<1>4. ASSUME disk' = Replace(undo[call.at].file, undo[call.at].snap),
             undo' = [undo EXCEPT ![call.at].reverted = TRUE],
             call' = [call EXCEPT !.pc = "reread"],
             UNCHANGED <<reply, start, raced, orphans>>, UNCHANGED txVars
      PROVE  StepInv'
  <2>1. disk' \in DiskType
      BY <1>2, <1>4, ReplaceType
      DEF UndoPatchRecord, StepInv, StepType, TypeInv
  <2>2. /\ undo' = [undo EXCEPT ![call.at] =
                      [undo[call.at] EXCEPT !.reverted = TRUE]]
        /\ [undo[call.at] EXCEPT !.reverted = TRUE] \in UndoPatchRecord
      BY <1>2, <1>4 DEF UndoPatchRecord
  <2>3. undo' \in Seq(UndoPatchRecord) /\ Len(undo') = Len(undo)
      BY <1>1, <1>2, <2>2, ExceptSeq
  <2>4. /\ call' \in Call /\ call'.pc = "reread" /\ call'.at = call.at
        /\ call'.op = call.op /\ call'.ids = call.ids
      BY <1>1, <1>4 DEF Call
  <2>5. TypeInv'
      BY <1>3, <1>4, <2>1, <2>3, TypeKept
      DEF Typed, StepInv, StepType, TypeInv, TypeOK
  <2>6. call'.ids = <<>> /\ LoopShape' /\ Progress' /\ BatchShape'
      BY <1>1, <2>3, <2>4, EmptySeq
      DEF LoopShape, Progress, BatchShape, At, StepInv, CallShape, Batching
  <2> QED BY <1>1, <1>4, <2>4, <2>5, <2>6
      DEF StepInv, StepType, CallShape, Idle, Batching
<1>5. CASE /\ UNCHANGED <<disk, undo>> /\ Refuses("E_INTERNAL_ERROR")
    BY <1>3, <1>5, RefusesInv
    DEF Outcomes, CEMPErrorCode, StepInv, StepType, TypeInv, TypeOK
<1> QED BY <1>4, <1>5 DEF RestoreRecord

LEMMA AnswerUndoInv ==
    ASSUME StepInv, AnswerUndo
    PROVE  StepInv'
<1>0. /\ disk' \in DiskType /\ patches' \in PatchesType
      /\ undo' \in Seq(UndoPatchRecord)
      /\ \A p \in PatchIds : Known(p) => Known(p)'
    BY DEF AnswerUndo, StepInv, StepType, TypeInv, TypeOK, Known
<1>1. undo[call.at] \in UndoPatchRecord
    BY ElementOfSeq
    DEF AnswerUndo, At, StepInv, StepType, CallShape, LoopShape, TypeInv, TypeOK
<1>2. reply' \in ReplyType
  <2>1. {undo[call.at].patch} \in SUBSET PatchIds
      BY <1>1 DEF UndoPatchRecord
  <2> QED BY <2>1, AnswerType, FailType
      DEF AnswerUndo, Tools, Outcomes, CEMPErrorCode
<1>3. TypeInv'
    BY <1>0, <1>2, TypeKept DEF AnswerUndo, Typed, StepInv, StepType
<1> QED BY <1>3, EndsShape DEF AnswerUndo

LEMMA HandlerInv ==
    ASSUME StepInv, Handler
    PROVE  StepInv'
BY CompareInv, TakeSnapshotInv, WriteInv, VerifyInv, RestoreInv, RestoredInv,
   RecordInv, AnswerSuccessInv, RestoreRecordInv, AnswerUndoInv DEF Handler

-----------------------------------------------------------------------------
(* The steps of the others.                                                *)

(* A handler begins.                                                       *)
LEMMA StartsInv ==
    ASSUME StepInv, NEW op \in {"apply_patch", "commit_transaction"},
           NEW ids \in Seq(PatchIds), NEW verify \in BOOLEAN,
           Starts(op, ids, verify),
           \A i \in 1..Len(ids) : Known(ids[i]),
           \A i, j \in 1..Len(ids) : ids[i] = ids[j] => i = j,
           op = "apply_patch" => Len(ids) = 1,
           op = "commit_transaction" => tx # Closed /\ ids = tx.staged
    PROVE  StepInv'
<1>1. TypeInv' /\ start' = start /\ raced' = raced /\ orphans' = orphans
      /\ patches' = patches /\ tx' = tx
    BY TypeKept DEF Starts, vars, txVars, Typed, Known, StepInv, StepType,
       TypeInv, TypeOK
<1>2. Len(ids) \in Nat /\ (ids # <<>> => 1 \in 1..Len(ids))
    BY EmptySeq, LenProperties
<1>3. /\ call' \in Call /\ call'.op = op /\ call'.ids = ids /\ call'.at = 1
      /\ call'.pc = IF ids = <<>> THEN "answer" ELSE "compare"
      /\ call'.snaps = <<>> /\ call'.wrote = 0
    BY EmptySeq DEF Starts, Call, Phases
<1>4. LoopShape'
    BY <1>2, <1>3 DEF LoopShape, At
<1>5. Progress'
    BY <1>2, <1>3, EmptySeq DEF Progress, At
<1>6. BatchShape'
    BY <1>1, <1>3 DEF BatchShape, Known
<1>7. ~ Idle' /\ Batching' /\ call'.pc \notin {"revert", "reread"}
      /\ call'.op # "none" /\ call'.op # "undo_last"
    BY <1>3 DEF Idle, Batching
<1> QED BY <1>1, <1>3, <1>4, <1>5, <1>6, <1>7
    DEF StepInv, StepType, CallShape

LEMMA StartApplyInv ==
    ASSUME StepInv, NEW p \in PatchIds, NEW verify \in BOOLEAN,
           StartApply(p, verify)
    PROVE  StepInv'
<1>1. Known(p)
    BY GetErrorCases DEF StartApply, Pending
<1> DEFINE ids == <<p>>
<1>2. ids \in Seq(PatchIds) /\ Len(ids) = 1 /\ ids[1] = p
    OBVIOUS
<1>3. Starts("apply_patch", ids, verify)
    BY DEF StartApply
<1>4. /\ \A i \in 1..Len(ids) : Known(ids[i])
      /\ \A i, j \in 1..Len(ids) : ids[i] = ids[j] => i = j
    BY <1>1, <1>2
<1> HIDE DEF ids
<1> QED BY <1>2, <1>3, <1>4, StartsInv

LEMMA StartCommitInv ==
    ASSUME StepInv, NEW t \in TxIds, NEW verify \in BOOLEAN,
           StartCommit(t, verify)
    PROVE  StepInv'
<1>1. tx.staged \in Seq(PatchIds) /\ tx # Closed
    BY StagedSeq DEF StartCommit, Active, StepInv, StepType, TypeInv
<1> QED BY <1>1, StartsInv
    DEF StartCommit, StepInv, StepType, TypeInv, StagedOnce

LEMMA StartUndoInv ==
    ASSUME StepInv, NEW filter \in Files \cup {AnyFile}, StartUndo(filter)
    PROVE  StepInv'
<1>1. PICK i \in Eligible(filter) :
        call' = [NoCall EXCEPT !.op = "undo_last", !.pc = "revert", !.at = i]
    BY DEF StartUndo
<1>2. i \in 1..Len(undo) /\ Len(undo) \in Nat /\ i \in Nat
    BY LenProperties DEF Eligible, StepInv, StepType, TypeInv, TypeOK
<1>3. TypeInv' /\ start' = start /\ raced' = raced /\ orphans' = orphans
      /\ undo' = undo
    BY TypeKept DEF StartUndo, vars, txVars, Typed, Known, StepInv, StepType,
       TypeInv, TypeOK
<1>4. /\ call' \in Call /\ call'.op = "undo_last" /\ call'.pc = "revert"
      /\ call'.at = i /\ call'.ids = <<>>
    BY <1>1, <1>2, NoCallShape DEF Call, Phases, NoCall
<1>5. LoopShape' /\ Progress' /\ BatchShape'
    BY <1>2, <1>3, <1>4, EmptySeq DEF LoopShape, Progress, BatchShape, At
<1> QED BY <1>3, <1>4, <1>5 DEF StepInv, StepType, CallShape, Idle, Batching

(* Between two calls start is the present.                                 *)
LEMMA IdleInv ==
    ASSUME StepInv, Idle, TypeInv', call' = call, start' = Now',
           raced' = raced, orphans' = orphans
    PROVE  StepInv'
<1>1. /\ call = NoCall /\ call.pc = "idle" /\ call.op = "none"
      /\ call.ids = <<>>
    BY NoCallShape DEF StepInv, CallShape
<1>2. Now' \in StateType
    BY DEF Now, TypeInv, TypeOK, StateType
<1>3. Idle' /\ LoopShape' /\ Progress' /\ BatchShape'
    BY <1>1, EmptySeq DEF Idle, LoopShape, Progress, BatchShape, At
<1> QED BY <1>1, <1>2, <1>3 DEF StepInv, StepType, CallShape, Batching

LEMMA ShortCallIsNext ==
    ASSUME ShortCall
    PROVE  Next
<1>1. ASSUME NEW p \in PatchIds, PatchUnavailable(p) \/ PatchAlreadyApplied(p)
      PROVE  apply_patch(p)
    BY <1>1 DEF apply_patch
<1>2. ASSUME NEW t \in TxIds, TxNotFound("commit_transaction", t),
             UNCHANGED <<disk, patches, undo>>
      PROVE  commit_transaction(t)
    BY <1>2 DEF commit_transaction
<1> QED BY <1>1, <1>2 DEF ShortCall, Next

LEMMA ShortCallInv ==
    ASSUME StepInv, ShortCall
    PROVE  StepInv'
<1>1. TypeInv'
    BY ShortCallIsNext, TypeInvStep DEF StepInv, StepType
<1> QED BY <1>1, IdleInv DEF ShortCall

(* Time and other programs leave a running batch what it is.               *)
LEMMA EnvironmentStep ==
    ASSUME StepInv, Environment
    PROVE  /\ TypeInv' /\ undo' = undo
           /\ \A p \in PatchIds : Known(p) => Frozen(p)
           /\ tx'.staged = tx.staged /\ (tx # Closed => tx' # Closed)
           /\ tx'.tx_id = tx.tx_id
           /\ begun' = begun /\ stagingDirs' = stagingDirs
<1>1. Next
    BY DEF Next
<1>2. TypeInv' /\ \A p \in PatchIds : Known(p) => Frozen(p)
    BY <1>1, TypeInvStep, PatchStep DEF StepInv, StepType
<1>3. undo' = undo /\ begun' = begun /\ stagingDirs' = stagingDirs
    BY DEF Environment, Tick, txVars
<1>4. /\ tx'.staged = tx.staged /\ (tx # Closed => tx' # Closed)
      /\ tx'.tx_id = tx.tx_id
  <2>1. CASE tx' = tx
      BY <2>1
  <2>2. CASE AgeTx
    <3>1. CASE tx = Closed
        BY <2>2, <3>1 DEF AgeTx
    <3>2. CASE tx # Closed
      <4>1. tx \in Transaction
          BY <3>2 DEF StepInv, StepType, TypeInv, TypeOK, TxType
      <4>2. tx'.tx_id = tx.tx_id /\ tx'.staged = tx.staged
            /\ tx.tx_id \in TxIds
          BY <2>2, <3>2, <4>1 DEF AgeTx, Transaction
      <4> QED BY <4>2, TxAssumption DEF Closed
    <3> QED BY <3>1, <3>2
  <2> QED BY <2>1, <2>2 DEF Environment, Tick, txVars
<1> QED BY <1>2, <1>3, <1>4

LEMMA ElsewhereInv ==
    ASSUME StepInv, Elsewhere
    PROVE  StepInv'
<1>1. CASE Idle
    BY <1>1, EnvironmentStep, IdleInv DEF Elsewhere
<1>2. CASE ~ Idle
  <2>1. /\ call' = call /\ start' = start /\ orphans' = orphans
        /\ raced' \in SUBSET Files /\ ~ Idle'
      BY <1>2 DEF Elsewhere, Idle, StepInv, StepType
  <2>2. LoopShape' /\ Progress'
      BY <2>1, EnvironmentStep
      DEF Elsewhere, LoopShape, Progress, At, StepInv, CallShape
  <2>3. \A i \in 1..Len(call.ids) : Known(call.ids[i])'
      BY PatchType, EnvironmentStep DEF Elsewhere, Frozen
  <2>4. BatchShape'
      BY <2>1, <2>3, EnvironmentStep
      DEF Elsewhere, BatchShape, Known, StepInv, CallShape
  <2> QED BY <1>2, <2>1, <2>2, <2>4, EnvironmentStep
      DEF Elsewhere, StepInv, StepType, CallShape, Batching, Idle
<1> QED BY <1>1, <1>2

LEMMA KillInv ==
    ASSUME StepInv, Kill
    PROVE  StepInv'
<1>1. TypeOK'
  <2>1. NoReply \in ReplyType
      BY AnswerType DEF NoReply, Tools, Outcomes
  <2>2. patches' \in PatchesType
      BY DEF Kill, PatchesType
  <2>3. undo' \in Seq(UndoPatchRecord)
      BY EmptySeq DEF Kill
  <2> QED BY <2>1, <2>2, <2>3
      DEF Kill, StepInv, StepType, TypeInv, TypeOK, TxType
<1>2. tx'.staged = <<>>
    BY DEF Kill, Closed
<1>3. TypeInv'
    BY <1>1, <1>2, EmptySeq DEF TypeInv, StagedOnce
<1>4. call' \in Call /\ call'.pc = "idle" /\ call'.op = "none"
      /\ call'.ids = <<>>
    BY NoCallShape DEF Kill
<1>5. LoopShape' /\ Progress' /\ BatchShape'
    BY <1>4, EmptySeq DEF LoopShape, Progress, BatchShape, At
<1>6. start' \in StateType
    BY <1>1 DEF Kill, Now, TypeOK, StateType
<1>7. orphans' \in SUBSET TxIds
    BY DEF Kill, StepInv, StepType, TypeInv, TypeOK, TxType, Transaction, Closed
<1>8. start' = Now' /\ call' = NoCall /\ raced' = {}
    BY DEF Kill
<1> QED BY <1>3, <1>4, <1>5, <1>6, <1>7, <1>8
    DEF StepInv, StepType, CallShape, Idle, Batching

LEMMA StepInvStep ==
    ASSUME StepInv, [StepNext]_stepVars
    PROVE  StepInv'
<1>1. CASE stepVars' = stepVars
  <2>1. TypeInv'
      BY <1>1, TypeInvStep DEF stepVars, StepInv, StepType
  <2>2. /\ call' = call /\ start' = start /\ raced' = raced
        /\ orphans' = orphans /\ tx' = tx /\ patches' = patches
        /\ undo' = undo /\ disk' = disk
      BY <1>1 DEF stepVars, vars
  <2> QED BY <2>1, <2>2
      DEF StepInv, StepType, CallShape, Idle, Batching, LoopShape, Progress,
          BatchShape, At, Known, Now
<1> QED BY <1>1, StartApplyInv, StartCommitInv, StartUndoInv, HandlerInv,
           ShortCallInv, ElsewhereInv, KillInv DEF StepNext

LEMMA StepInvInit ==
    ASSUME StepInit
    PROVE  StepInv
<1>1. TypeInv
  <2>1. NoReply \in ReplyType
      BY AnswerType DEF NoReply, Tools, Outcomes
  <2>2. TypeOK
      BY <2>1, EmptySeq
      DEF StepInit, Init, TypeOK, DiskType, PatchesType, TxType
  <2> QED BY <2>2, EmptySeq DEF StepInit, Init, TypeInv, StagedOnce, Closed
<1>2. Now \in StateType
    BY <1>1 DEF Now, TypeInv, TypeOK, StateType
<1>3. call \in Call /\ call.pc = "idle" /\ call.op = "none"
      /\ call.ids = <<>>
    BY NoCallShape DEF StepInit
<1>4. LoopShape /\ Progress /\ BatchShape
    BY <1>3, EmptySeq DEF LoopShape, Progress, BatchShape, At
<1> QED BY <1>1, <1>2, <1>3, <1>4
    DEF StepInit, StepInv, StepType, CallShape, Idle, Batching

-----------------------------------------------------------------------------
(* Theorems.                                                               *)

(* Whatever happens between two steps of a handler, and wherever something *)
(* raises, the engine's state stays well typed and the call keeps the      *)
(* shape of its loops and of its batch.                                    *)
THEOREM StepInvariant == StepSpec => []StepInv
<1>1. StepInit => StepInv
    BY StepInvInit
<1>2. StepInv /\ [StepNext]_stepVars => StepInv'
    BY StepInvStep
<1> QED BY <1>1, <1>2, PTL DEF StepSpec

(* The engine's state and the handler's locals have their types.           *)
THEOREM StepTypeCorrect == StepSpec => []StepTypeOK
<1>1. StepInv => StepTypeOK
    BY DEF StepInv, StepType, TypeInv, StepTypeOK, StateType
<1> QED BY <1>1, StepInvariant, PTL

(* A loop never leaves its batch, no file is written before every snapshot *)
(* is taken and none recorded before all are written, a restore never runs *)
(* past what was written and undo_last marks a record that is there.       *)
THEOREM PhasesKeepOrder == StepSpec => []PhasesInOrder
<1>1. StepInv => PhasesInOrder
    BY DEF StepInv, CallShape, PhasesInOrder
<1> QED BY <1>1, StepInvariant, PTL

-----------------------------------------------------------------------------
(* Staging directories.                                                    *)

\* Ids are handed out once: no killed server's is that of the open one.
StagingInv ==
    /\ orphans \subseteq begun
    /\ tx # Closed => tx.tx_id \in begun \ orphans
    /\ OnlyKillsLeaveStaging

\* What a step does to the open transaction.
TxMoves ==
    \/ /\ tx'.tx_id = tx.tx_id /\ (tx = Closed <=> tx' = Closed)
       /\ begun' = begun /\ stagingDirs' = stagingDirs
    \/ Close
    \/ \E t \in TxIds : begin_transaction(t)

LEMMA StagingKept ==
    ASSUME TypeOK, StagingInv, TxMoves, orphans' = orphans
    PROVE  StagingInv'
<1>0. Closed.tx_id = NoTx /\ (tx # Closed => tx.tx_id \in TxIds)
    BY DEF Closed, TypeOK, TxType, Transaction
<1>1. CASE Close
  <2>1. tx' = Closed /\ stagingDirs' = stagingDirs \ {tx.tx_id}
        /\ begun' = begun
      BY <1>1 DEF Close
  <2>2. tx.tx_id \notin orphans
      BY <1>0, TxAssumption DEF StagingInv, TypeOK
  <2>3. stagingDirs \ {tx.tx_id} = orphans /\ tx'.tx_id = NoTx
      BY <1>0, <2>1, <2>2 DEF StagingInv, OnlyKillsLeaveStaging
  <2> QED BY <2>1, <2>3 DEF StagingInv, OnlyKillsLeaveStaging
<1>2. ASSUME NEW t \in TxIds, begin_transaction(t)
      PROVE  StagingInv'
  <2>1. tx'.tx_id = t /\ t # NoTx /\ begun' = begun \cup {t}
        /\ stagingDirs' = (stagingDirs \ {tx.tx_id}) \cup {t} /\ t \notin begun
      BY <1>2, TxAssumption DEF begin_transaction
  <2>2. tx.tx_id \notin orphans
      BY <1>0, TxAssumption DEF StagingInv, TypeOK
  <2>3. stagingDirs \ {tx.tx_id} = orphans
      BY <2>2, <1>0 DEF StagingInv, OnlyKillsLeaveStaging
  <2> QED BY <2>1, <2>3 DEF StagingInv, OnlyKillsLeaveStaging
<1> QED BY <1>1, <1>2 DEF TxMoves, StagingInv, OnlyKillsLeaveStaging

LEMMA ShortCallMovesTx ==
    ASSUME TypeOK, ShortCall
    PROVE  TxMoves
<1>1. ASSUME tx' = tx, begun' = begun, stagingDirs' = stagingDirs
      PROVE  TxMoves
    BY <1>1 DEF TxMoves
<1>2. ASSUME Prune
      PROVE  TxMoves
    BY <1>1, <1>2 DEF Prune, TxMoves, txVars
<1>3. ASSUME NEW p \in PatchIds, NEW t \in TxIds, StagePatch(p, t)
      PROVE  TxMoves
  <2>1. tx \in Transaction /\ tx # Closed
      BY <1>3, ActiveType DEF StagePatch, Active
  <2>2. tx'.tx_id = tx.tx_id /\ tx.tx_id \in TxIds
      BY <1>3, <2>1 DEF StagePatch, Transaction
  <2>3. tx' # Closed
      BY <2>2, TxAssumption DEF Closed
  <2> QED BY <1>3, <2>1, <2>2, <2>3 DEF StagePatch, TxMoves
<1>4. ASSUME NEW p \in PatchIds, NEW t \in TxIds, apply_patch_tx(p, t)
      PROVE  TxMoves
    BY <1>1, <1>2, <1>3, <1>4
    DEF apply_patch_tx, StageRaises, TxNotFound, txVars
<1>5. ASSUME NEW t \in TxIds, Rollback(t)
      PROVE  TxMoves
    BY <1>2, <1>5 DEF Rollback, rollback_transaction, TxNotFound, TxMoves
<1>6. CASE Begin
    BY <1>1, <1>6 DEF Begin, BeginRejected, TxMoves, txVars
<1> QED BY <1>1, <1>2, <1>4, <1>5, <1>6
    DEF ShortCall, propose_edit, propose_line_edit, Proposes, ProposeRejected,
        PatchUnavailable, PatchAlreadyApplied, TxNotFound, undo_last, txVars

LEMMA HandlerMovesTx ==
    ASSUME Handler
    PROVE  TxMoves /\ orphans' = orphans
<1>1. ASSUME tx' = tx, begun' = begun, stagingDirs' = stagingDirs
      PROVE  TxMoves
    BY <1>1 DEF TxMoves
<1>2. ASSUME NEW c, NEW next, Onward(c, next)
      PROVE  TxMoves /\ orphans' = orphans
    BY <1>1, <1>2 DEF Onward, txVars
<1>3. ASSUME NEW code, Refuses(code)
      PROVE  TxMoves /\ orphans' = orphans
    BY <1>1, <1>3 DEF Refuses, Ends, txVars
<1>4. CASE GoesTo("restore")
    BY <1>1, <1>4 DEF GoesTo, txVars
<1>5. CASE Raised
    BY <1>3, <1>4, <1>5 DEF Raised
<1>6. CASE Compare \/ TakeSnapshot
    BY <1>2, <1>3, <1>6 DEF Compare, TakeSnapshot
<1>7. CASE Write \/ Verify
    BY <1>2, <1>4, <1>5, <1>7 DEF Write, Verify
<1>8. CASE Restore \/ RestoreRecord
    BY <1>1, <1>3, <1>8 DEF Restore, RestoreRecord, txVars
<1>9. CASE Record
    BY <1>2, <1>3, <1>9 DEF Record
<1>10. CASE Restored \/ AnswerSuccess \/ AnswerUndo
    BY <1>1, <1>10 DEF Restored, AnswerSuccess, AnswerUndo, Ends, TxMoves, txVars
<1> QED BY <1>6, <1>7, <1>8, <1>9, <1>10 DEF Handler

(* Only killed servers leave staging directories behind: every way a       *)
(* transaction ends removes its own, the open one's is there, and a server *)
(* that starts after a kill takes no orphan for its own.                   *)
THEOREM OnlyKillsLitter == StepSpec => []OnlyKillsLeaveStaging
<1>1. StepInit => StagingInv
    BY DEF StepInit, Init, StagingInv, OnlyKillsLeaveStaging, Closed
<1>2. StepInv /\ StagingInv /\ [StepNext]_stepVars => StagingInv'
  <2> SUFFICES ASSUME StepInv, StagingInv, [StepNext]_stepVars
               PROVE  StagingInv'
      OBVIOUS
  <2>0. TypeOK
      BY DEF StepInv, StepType, TypeInv
  <2>1. ASSUME tx' = tx, begun' = begun, stagingDirs' = stagingDirs,
               orphans' = orphans
        PROVE  StagingInv'
      BY <2>1 DEF StagingInv, OnlyKillsLeaveStaging
  <2>2. CASE Handler
      BY <2>0, <2>2, HandlerMovesTx, StagingKept
  <2>3. CASE ShortCall
      BY <2>0, <2>3, ShortCallMovesTx, StagingKept DEF ShortCall
  <2>4. CASE Elsewhere
    <3>1. TxMoves
      <4>1. CASE tx = Closed
          BY <2>4, <4>1, EnvironmentStep
          DEF Elsewhere, Environment, Tick, AgeTx, txVars, TxMoves
      <4>2. CASE tx # Closed
          BY <2>4, <4>2, EnvironmentStep DEF Elsewhere, TxMoves
      <4> QED BY <4>1, <4>2
    <3> QED BY <2>0, <2>4, <3>1, StagingKept DEF Elsewhere
  <2>5. CASE Kill
    <3>1. tx' = Closed /\ Closed.tx_id = NoTx /\ begun' = begun
          /\ stagingDirs' = stagingDirs
          /\ orphans' = orphans \cup ({tx.tx_id} \ {NoTx})
        BY <2>5 DEF Kill, Closed
    <3>2. {tx.tx_id} \ {NoTx} \subseteq begun
        BY DEF StagingInv, Closed
    <3> QED BY <3>1, <3>2 DEF StagingInv, OnlyKillsLeaveStaging
  <2> QED BY <2>1, <2>2, <2>3, <2>4, <2>5
      DEF StepNext, stepVars, vars, txVars, StartApply, StartCommit, Starts,
          StartUndo
<1>3. StagingInv => OnlyKillsLeaveStaging
    BY DEF StagingInv
<1> QED BY <1>1, <1>2, <1>3, StepInvariant, PTL DEF StepSpec

-----------------------------------------------------------------------------
(* How many steps a call has left.                                         *)

\* The phases of a batch that loop over all its patches, and what follows.
Follows == {<<"compare", "snapshot">>, <<"snapshot", "write">>,
            <<"write", "verify">>, <<"write", "record">>,
            <<"verify", "record">>, <<"record", "answer">>}

LEMMA StepsLeftIs ==
    ASSUME NEW c \in Call
    PROVE  /\ c.pc = "idle" => StepsLeft(c) = 0
           /\ c.pc = "compare" => StepsLeft(c) = 5 * Len(c.ids) + 2 - c.at
           /\ c.pc = "snapshot" => StepsLeft(c) = 4 * Len(c.ids) + 2 - c.at
           /\ c.pc = "write" => StepsLeft(c) = 3 * Len(c.ids) + 2 - c.at
           /\ c.pc = "verify" => StepsLeft(c) = 2 * Len(c.ids) + 2 - c.at
           /\ c.pc = "record" => StepsLeft(c) = Len(c.ids) + 2 - c.at
           /\ c.pc = "restore" => StepsLeft(c) = c.wrote + 2 - c.at
           /\ c.pc = "revert" => StepsLeft(c) = 2
           /\ c.pc \in {"answer", "reread"} => StepsLeft(c) = 1
<1>1. c.at \in Nat /\ c.wrote \in Nat /\ Len(c.ids) \in Nat
    BY CallFields
<1>2. DOMAIN LoopsLeft = {"compare", "snapshot", "write", "verify", "record"}
    BY DEF LoopsLeft
<1>3. /\ LoopsLeft["compare"] = 5 /\ LoopsLeft["snapshot"] = 4
      /\ LoopsLeft["write"] = 3 /\ LoopsLeft["verify"] = 2
      /\ LoopsLeft["record"] = 1
    BY DEF LoopsLeft
<1> QED BY <1>1, <1>2, <1>3 DEF StepsLeft

(* A running call has at least its answer left.                            *)
LEMMA SomeLeft ==
    ASSUME StepInv, ~ Idle
    PROVE  StepsLeft(call) \in Nat \ {0}
<1>1. call \in Call /\ LoopShape
    BY DEF StepInv, StepType, CallShape
<1>2. call.at \in Nat /\ call.wrote \in Nat /\ Len(call.ids) \in Nat
    BY <1>1, CallFields
<1>3. call.pc \in Phases /\ call.pc # "idle"
    BY <1>1, CallFields DEF Idle
<1>4. CASE call.pc = "restore"
  <2>1. call.at <= call.wrote + 1
      BY <1>1, <1>2, <1>4 DEF LoopShape, At
  <2>2. StepsLeft(call) = call.wrote + 2 - call.at
      BY <1>1, <1>4, StepsLeftIs
  <2> QED BY <1>2, <2>1, <2>2
<1>5. CASE call.pc \in {"compare", "snapshot", "write", "verify", "record"}
  <2>1. call.at \in 1..Len(call.ids)
      BY <1>1, <1>5 DEF LoopShape
  <2>2. \/ StepsLeft(call) = 5 * Len(call.ids) + 2 - call.at
        \/ StepsLeft(call) = 4 * Len(call.ids) + 2 - call.at
        \/ StepsLeft(call) = 3 * Len(call.ids) + 2 - call.at
        \/ StepsLeft(call) = 2 * Len(call.ids) + 2 - call.at
        \/ StepsLeft(call) = Len(call.ids) + 2 - call.at
      BY <1>1, <1>5, StepsLeftIs
  <2> QED BY <1>2, <2>1, <2>2
<1>6. CASE call.pc \in {"revert", "reread", "answer"}
    BY <1>1, <1>6, StepsLeftIs
<1> QED BY <1>3, <1>4, <1>5, <1>6 DEF Phases

LEMMA EndsRunsOut ==
    ASSUME StepInv, ~ Idle, call' = NoCall
    PROVE  StepsLeft(call') \in 0..(StepsLeft(call) - 1)
<1>1. StepsLeft(NoCall) = 0
    BY NoCallShape, StepsLeftIs
<1> QED BY <1>1, SomeLeft

(* The next iteration, or the next loop: each has fewer left than the one  *)
(* before, and there is an iteration at least.                             *)
LEMMA OnwardRunsDown ==
    ASSUME StepInv, NEW c \in Call, NEW next,
           c.pc = call.pc, c.ids = call.ids, c.at = call.at,
           <<call.pc, next>> \in Follows, Onward(c, next)
    PROVE  StepsLeft(call') \in 0..(StepsLeft(call) - 1)
<1>1. call \in Call /\ LoopShape
    BY DEF StepInv, StepType, CallShape
<1>2. call.at \in 1..Len(call.ids) /\ Len(call.ids) \in Nat
    BY <1>1, CallFields DEF LoopShape, Follows
<1>3. next \in Phases
    BY DEF Follows, Phases
<1>4. /\ call' \in Call /\ call'.ids = call.ids
      /\ \/ call.at < Len(call.ids) /\ call'.pc = call.pc /\ call'.at = call.at + 1
         \/ call.at = Len(call.ids) /\ call'.pc = next /\ call'.at = 1
    BY <1>2, <1>3, OnwardStep
<1> DEFINE n == Len(call.ids)
           left == StepsLeft(call)
           rest == StepsLeft(call')
<1>5. /\ call.pc = "compare" => left = 5 * n + 2 - call.at
      /\ call.pc = "snapshot" => left = 4 * n + 2 - call.at
      /\ call.pc = "write" => left = 3 * n + 2 - call.at
      /\ call.pc = "verify" => left = 2 * n + 2 - call.at
      /\ call.pc = "record" => left = n + 2 - call.at
    BY <1>1, StepsLeftIs
<1>6. /\ call'.pc = "compare" => rest = 5 * n + 2 - call'.at
      /\ call'.pc = "snapshot" => rest = 4 * n + 2 - call'.at
      /\ call'.pc = "write" => rest = 3 * n + 2 - call'.at
      /\ call'.pc = "verify" => rest = 2 * n + 2 - call'.at
      /\ call'.pc = "record" => rest = n + 2 - call'.at
      /\ call'.pc = "answer" => rest = 1
    BY <1>4, StepsLeftIs
<1>7. n \in Nat \ {0} /\ call.at \in 1..n
    BY <1>2
<1>8. \/ call.pc = "compare" /\ next = "snapshot"
      \/ call.pc = "snapshot" /\ next = "write"
      \/ call.pc = "write" /\ next \in {"verify", "record"}
      \/ call.pc = "verify" /\ next = "record"
      \/ call.pc = "record" /\ next = "answer"
    BY DEF Follows
<1> HIDE DEF n, left, rest
<1>9. CASE call.at < Len(call.ids)
  <2>1. call.at < n /\ call'.pc = call.pc /\ call'.at = call.at + 1
      BY <1>2, <1>4, <1>9 DEF n
  <2>2. rest = left - 1 /\ left \in Nat \ {0}
      BY <1>5, <1>6, <1>7, <1>8, <2>1
  <2> QED BY <2>2 DEF left, rest
<1>10. CASE call.at = Len(call.ids)
  <2>1. call.at = n /\ call'.pc = next /\ call'.at = 1
      BY <1>2, <1>4, <1>10 DEF n
  <2>2. rest \in 0..(left - 1)
      BY <1>5, <1>6, <1>7, <1>8, <2>1
  <2> QED BY <2>2 DEF left, rest
<1> QED BY <1>4, <1>9, <1>10

(* A rollback restores what was written, which is no more than the batch.  *)
LEMMA GoesToRunsDown ==
    ASSUME StepInv, call.pc \in {"write", "verify"}, GoesTo("restore")
    PROVE  StepsLeft(call') \in 0..(StepsLeft(call) - 1)
<1>1. call \in Call /\ LoopShape /\ Progress
    BY DEF StepInv, StepType, CallShape
<1>2. /\ call.at \in 1..Len(call.ids) /\ Len(call.ids) \in Nat
      /\ call.wrote \in Nat /\ call.wrote <= Len(call.ids)
    BY <1>1, CallFields DEF LoopShape, Progress, At
<1>3. call' \in Call /\ call'.pc = "restore" /\ call'.at = 1
      /\ call'.wrote = call.wrote
    BY <1>1, GoesToStep DEF Phases
<1>4. StepsLeft(call') = call.wrote + 1
    BY <1>2, <1>3, StepsLeftIs
<1>5. StepsLeft(call) >= Len(call.ids) + 2 /\ StepsLeft(call) \in Nat
    BY <1>1, <1>2, StepsLeftIs
<1> QED BY <1>2, <1>4, <1>5

LEMMA RaisedRunsDown ==
    ASSUME StepInv, call.pc \in {"write", "verify"}, Raised
    PROVE  StepsLeft(call') \in 0..(StepsLeft(call) - 1)
<1>1. ~ Idle
    BY DEF Idle
<1> QED BY <1>1, EndsRunsOut, GoesToRunsDown DEF Raised, Refuses, Ends

(* Each step of a handler leaves fewer.                                    *)
LEMMA HandlerRunsDown ==
    ASSUME StepInv, Handler
    PROVE  StepsLeft(call') \in 0..(StepsLeft(call) - 1)
<1>0. call \in Call /\ LoopShape
    BY DEF StepInv, StepType, CallShape
<1>1. ASSUME ~ Idle, Ends
      PROVE  StepsLeft(call') \in 0..(StepsLeft(call) - 1)
    BY <1>1, EndsRunsOut DEF Ends
<1>2. CASE Compare
  <2>1. call.pc = "compare" /\ ~ Idle
      BY <1>2 DEF Compare, At, Idle
  <2>2. <<call.pc, "snapshot">> \in Follows
      BY <2>1 DEF Follows
  <2> QED BY <1>0, <1>1, <1>2, <2>1, <2>2, OnwardRunsDown DEF Compare, Refuses
<1>3. CASE TakeSnapshot
  <2>1. call.pc = "snapshot" /\ ~ Idle /\ <<call.pc, "write">> \in Follows
      BY <1>3 DEF TakeSnapshot, At, Idle, Follows
  <2> DEFINE snap == IF Exists(File) THEN snapshot(File) ELSE Empty
             c == [call EXCEPT !.snaps = Append(call.snaps, snap)]
  <2>2. CASE Onward(c, "write")
    <3>1. call.at \in 1..Len(call.ids)
        BY <1>0, <2>1 DEF LoopShape
    <3>2. snap \in Content
        BY <3>1, PatchType, GitAssumption, StepAssumption
        DEF StepInv, StepType, TypeInv, TypeOK, DiskType, File, Patch, Exists,
            snapshot
    <3>3. Append(call.snaps, snap) \in Seq(Content)
        BY <1>0, <3>2, CallFields, AppendProperties
    <3>4. c \in Call /\ c.pc = call.pc /\ c.ids = call.ids /\ c.at = call.at
        BY <1>0, <3>3 DEF Call
    <3> HIDE DEF c
    <3> QED BY <2>1, <2>2, <3>4, OnwardRunsDown
  <2> QED BY <1>1, <1>3, <2>1, <2>2 DEF TakeSnapshot, Refuses
<1>4. CASE Write
  <2> DEFINE next == IF call.verify THEN "verify" ELSE "record"
             c == [call EXCEPT !.wrote = call.wrote + 1]
  <2>1. call.pc = "write" /\ <<call.pc, next>> \in Follows
      BY <1>4 DEF Write, At, Follows
  <2>2. CASE Onward(c, next)
    <3>1. call.wrote + 1 \in Nat
        BY <1>0, CallFields
    <3>2. c \in Call /\ c.pc = call.pc /\ c.ids = call.ids /\ c.at = call.at
        BY <1>0, <3>1 DEF Call
    <3> HIDE DEF c, next
    <3> QED BY <2>1, <2>2, <3>2, OnwardRunsDown
  <2> QED BY <1>4, <2>1, <2>2, RaisedRunsDown DEF Write
<1>5. CASE Verify
  <2>1. call.pc = "verify" /\ <<call.pc, "record">> \in Follows
      BY <1>5 DEF Verify, At, Follows
  <2> QED BY <1>0, <1>5, <2>1, OnwardRunsDown, GoesToRunsDown, RaisedRunsDown
          DEF Verify
<1>6. CASE Restore
  <2>1. call.pc = "restore" /\ ~ Idle /\ call.at <= call.wrote
      BY <1>6 DEF Restore, At, Idle
  <2>2. CASE call' = [call EXCEPT !.at = call.at + 1]
    <3>1. call.at \in Nat /\ call.wrote \in Nat
        BY <1>0, CallFields
    <3>2. call' \in Call /\ call'.pc = "restore" /\ call'.at = call.at + 1
          /\ call'.wrote = call.wrote
        BY <1>0, <2>1, <2>2, <3>1 DEF Call
    <3>3. /\ StepsLeft(call) = call.wrote + 2 - call.at
          /\ StepsLeft(call') = call.wrote + 2 - (call.at + 1)
        BY <1>0, <2>1, <3>2, StepsLeftIs
    <3> QED BY <2>1, <3>1, <3>3
  <2> QED BY <1>1, <1>6, <2>1, <2>2 DEF Restore, Refuses
<1>7. CASE Record
  <2>1. call.pc = "record" /\ ~ Idle /\ <<call.pc, "answer">> \in Follows
      BY <1>7 DEF Record, At, Idle, Follows
  <2> QED BY <1>0, <1>1, <1>7, <2>1, OnwardRunsDown DEF Record, Refuses
<1>8. CASE RestoreRecord
  <2>1. call.pc = "revert" /\ ~ Idle
      BY <1>8 DEF RestoreRecord, At, Idle
  <2>2. CASE call' = [call EXCEPT !.pc = "reread"]
    <3>1. call' \in Call /\ call'.pc = "reread"
        BY <1>0, <2>2 DEF Call, Phases
    <3>2. StepsLeft(call) = 2 /\ StepsLeft(call') = 1
        BY <1>0, <2>1, <3>1, StepsLeftIs
    <3> QED BY <3>2
  <2> QED BY <1>1, <1>8, <2>1, <2>2 DEF RestoreRecord, Refuses
<1>9. CASE Restored \/ AnswerSuccess \/ AnswerUndo
    BY <1>1, <1>9 DEF Restored, AnswerSuccess, AnswerUndo, At, Idle
<1> QED BY <1>2, <1>3, <1>4, <1>5, <1>6, <1>7, <1>8, <1>9 DEF Handler

(* A call begins with five steps per patch left and two more at most.      *)
LEMMA StartsBounded ==
    ASSUME StepInv, StepInv', Idle, [StepNext]_stepVars
    PROVE  StepsLeft(call') <= 5 * Len(call'.ids) + 2
<1>1. call \in Call /\ call' \in Call
    BY DEF StepInv, StepType
<1>2. Len(call'.ids) \in Nat
    BY <1>1, CallFields
<1>3. \/ call'.pc = "idle" \/ call'.pc = "answer" \/ call'.pc = "revert"
      \/ call'.pc = "compare" /\ call'.at = 1
  <2>1. ASSUME NEW op, NEW ids, NEW verify, Starts(op, ids, verify)
        PROVE  call'.pc = "answer" \/ (call'.pc = "compare" /\ call'.at = 1)
      BY <2>1 DEF Starts
  <2>2. ASSUME NEW filter, StartUndo(filter)
        PROVE  call'.pc = "revert"
    <3>1. PICK i \in Eligible(filter) :
            call' = [NoCall EXCEPT !.op = "undo_last", !.pc = "revert", !.at = i]
        BY <2>2 DEF StartUndo
    <3> QED BY <3>1 DEF NoCall
  <2>3. CASE ShortCall \/ Elsewhere \/ UNCHANGED stepVars
      BY <2>3 DEF ShortCall, Elsewhere, stepVars, Idle
  <2>4. CASE Kill
      BY <2>4 DEF Kill, NoCall
  <2>5. ~ Handler
      BY DEF Handler, Compare, TakeSnapshot, Write, Verify, Restore, Restored,
             Record, AnswerSuccess, RestoreRecord, AnswerUndo, At, Idle
  <2> QED BY <2>1, <2>2, <2>3, <2>4, <2>5 DEF StepNext, StartApply, StartCommit
<1> QED BY <1>1, <1>2, <1>3, StepsLeftIs

(* No loop of a handler begins again and nobody else prolongs a call: of   *)
(* what EveryCallAnswered says, all but that a handler can always go on.   *)
THEOREM CallsBounded == StepSpec => CallsRunOut
<1>1. ASSUME StepInv, StepInv', [StepNext]_stepVars
      PROVE  IF Idle THEN StepsLeft(call') <= 5 * Len(call'.ids) + 2
             ELSE \/ call' = call
                  \/ StepsLeft(call') \in 0..(StepsLeft(call) - 1)
  <2>1. CASE Idle
      BY <1>1, <2>1, StartsBounded
  <2>2. CASE ~ Idle
    <3>1. CASE Handler
        BY <1>1, <2>2, <3>1, HandlerRunsDown
    <3>2. CASE Kill
        BY <1>1, <2>2, <3>2, EndsRunsOut DEF Kill
    <3>3. CASE ~ Handler /\ ~ Kill
        BY <1>1, <2>2, <3>3
        DEF StepNext, StartApply, StartCommit, Starts, StartUndo, ShortCall,
            Elsewhere, stepVars
    <3> QED BY <3>1, <3>2, <3>3
  <2> QED BY <2>1, <2>2
<1> QED BY <1>1, StepInvariant, PTL DEF StepSpec, CallsRunOut
=============================================================================
