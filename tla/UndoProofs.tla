----------------------------- MODULE UndoProofs ------------------------------
(***************************************************************************)
(* Undo leads all the way back in a tree nobody else edits: whatever       *)
(* number of patches, batches, failed commits and undos it goes through,   *)
(* while no failed commit leaves a file it wrote without a record.         *)
(* And the engine implements Journal, whoever edits and whatever fails.    *)
(***************************************************************************)
EXTENDS EngineProofs

(* The conditions under which UndoWalksBack is a property of the code.     *)
Alone ==
    /\ Foreign = {}
    /\ Faults = FALSE
    /\ \A path \in Paths : ~ path.abs

OneFile == \A f, g \in Files : f = g

-----------------------------------------------------------------------------
(* The two kinds of step, as undo of one file sees them.                   *)

\* Records are pushed, maybe none; those of f have the text of before.
Extends(f, recs) ==
    /\ undo' = undo \o recs
    /\ \A j \in 1..Len(recs) :
         /\ ~ recs[j].reverted
         /\ recs[j].file = f =>
              Exists(f) /\ Normalize[recs[j].snap] = Normalize[disk[f]]

\* If there is none of f, its text stays.
Pushes(f) ==
    \E recs \in Seq(UndoPatchRecord) :
        /\ Extends(f, recs)
        /\ (\A j \in 1..Len(recs) : recs[j].file # f) => SameText(f)

\* A record not yet reverted is: of f the newest, or of another file.
Pops(f) ==
    \E i \in 1..Len(undo) :
        /\ ~ undo[i].reverted
        /\ undo' = [undo EXCEPT ![i].reverted = TRUE]
        /\ IF undo[i].file = f
           THEN disk'[f] = undo[i].snap /\ \A j \in Eligible(f) : j <= i
           ELSE disk'[f] = disk[f]

LEMMA QuietExtends ==
    ASSUME TypeInv, NEW f \in Files, undo' = undo
    PROVE  \E recs \in Seq(UndoPatchRecord) : recs = <<>> /\ Extends(f, recs)
<1> DEFINE recs == <<>>
<1>1. recs \in Seq(UndoPatchRecord) /\ Len(recs) = 0 /\ undo' = undo \o recs
    BY EmptySeq, ConcatEmptySeq DEF TypeInv, TypeOK
<1>2. recs = <<>>
    OBVIOUS
<1> HIDE DEF recs
<1>3. 1..Len(recs) = {}
    BY <1>1
<1> QED BY <1>1, <1>2, <1>3 DEF Extends

LEMMA QuietPushes ==
    ASSUME TypeInv, NEW f \in Files, undo' = undo, SameText(f)
    PROVE  Pushes(f)
BY QuietExtends DEF Pushes

(* apply_patch pushes one record or changes nothing.                       *)
LEMMA ApplyPushes ==
    ASSUME TypeInv, NEW f \in Files, NEW p \in PatchIds, NEW verify \in BOOLEAN,
           ApplySucceeds(p, verify)
    PROVE  Pushes(f)
<1> USE DEF TypeInv
<1> DEFINE g == FileOf(p)
           rec == Applied(p, g, snapshot(g))
           recs == <<rec>>
<1>1. Known(p) /\ g \in Files /\ Exists(g)
    BY GetErrorCases, KnownType DEF ApplySucceeds, Pending, Swappable
<1>2. rec \in UndoPatchRecord
  <2>1. snapshot(g) \in Content
      BY <1>1, GitAssumption DEF TypeOK, DiskType, Exists, snapshot
  <2> QED BY <1>1, <2>1 DEF Applied, UndoPatchRecord
<1>3. recs \in Seq(UndoPatchRecord) /\ Len(recs) = 1 /\ recs[1] = rec
    BY <1>2
<1>4. undo' = undo \o recs
    BY <1>2, AppendIsConcat DEF ApplySucceeds, TypeOK
<1>5. ~ rec.reverted /\ rec.file = g /\ Normalize[rec.snap] = Normalize[disk[g]]
    BY <1>1, SnapshotText DEF Applied
<1>6. g # f => SameText(f)
    BY SameContent
    DEF ApplySucceeds, Swapped, Replace, TypeOK, DiskType
<1> HIDE DEF recs, rec, g
<1>7. \A j \in 1..Len(recs) : recs[j] = rec
    BY <1>3
<1>8. 1 \in 1..Len(recs)
    BY <1>3
<1> QED BY <1>1, <1>3, <1>4, <1>5, <1>6, <1>7, <1>8 DEF Pushes, Extends

LEMMA ApplyShape ==
    ASSUME TypeInv, Alone, NEW f \in Files, NEW p \in PatchIds, apply_patch(p)
    PROVE  Pushes(f)
<1> USE DEF TypeInv
<1>1. CASE ApplyRollsBack(p)
  <2>1. reply'.out \in RestoringCodes
      BY <1>1, OutcomeOf DEF ApplyRollsBack, Fail, RestoringCodes
  <2> QED BY <1>1, <2>1, ApplyRefused, QuietPushes DEF ApplyRollsBack
<1> QED BY <1>1, ApplyPushes, SameContent, QuietPushes
    DEF apply_patch, PatchUnavailable, PatchAlreadyApplied, ApplyRejected,
        ApplyAbandoned, CheckFails, Alone

(* What the records of the first k patches of a batch add to the stack.    *)
LEMMA RecordsPushed ==
    ASSUME TypeInv, NEW t \in TxIds, Active(t), CasPasses, NEW k \in 0..Count,
           undo' = undo \o Records(k)
    PROVE  /\ Len(undo) \in Nat /\ Len(undo') = Len(undo) + k
           /\ \A j \in 1..k : /\ Len(undo) + j \in 1..Len(undo')
                            /\ undo'[Len(undo) + j] = Records(k)[j]
           /\ \A i \in 1..Len(undo') : i > Len(undo) =>
                /\ i - Len(undo) \in 1..k
                /\ undo'[i] = Records(k)[i - Len(undo)]
<1>1. Count \in Nat /\ Len(undo) \in Nat
    BY ActiveType, LenProperties DEF TypeInv, TypeOK
<1>2. Records(k) \in Seq(UndoPatchRecord) /\ Len(Records(k)) = k
    BY RecordsType
<1>3. /\ Len(undo') = Len(undo) + k
      /\ \A j \in 1..(Len(undo) + k) :
           undo'[j] = IF j <= Len(undo) THEN undo[j]
                                        ELSE Records(k)[j - Len(undo)]
    BY <1>2, ConcatProperties DEF TypeInv, TypeOK
<1>4. ASSUME NEW j \in 1..k
      PROVE  /\ Len(undo) + j \in 1..Len(undo')
             /\ undo'[Len(undo) + j] = Records(k)[j]
    BY <1>1, <1>3
<1>5. ASSUME NEW i \in 1..Len(undo'), i > Len(undo)
      PROVE  /\ i - Len(undo) \in 1..k
             /\ undo'[i] = Records(k)[i - Len(undo)]
    BY <1>1, <1>3, <1>5
<1> QED BY <1>1, <1>3, <1>4, <1>5

(* The records of a batch have the text of before the batch, as its        *)
(* snapshots are taken before its first write.                             *)
LEMMA BatchExtends ==
    ASSUME TypeInv, NEW f \in Files, NEW t \in TxIds, Active(t),
           CasPasses, NEW k \in 0..Count, undo' = undo \o Records(k)
    PROVE  /\ Records(k) \in Seq(UndoPatchRecord) /\ Len(Records(k)) = k
           /\ Extends(f, Records(k))
           /\ \A j \in 1..k : Records(k)[j].file = Target[j]
<1>1. Count \in Nat /\ k \in 0..Count
    BY ActiveType DEF TypeInv
<1>2. Records(k) \in Seq(UndoPatchRecord) /\ Len(Records(k)) = k
    BY <1>1, RecordsType
<1>3. ASSUME NEW j \in 1..k
      PROVE  /\ ~ Records(k)[j].reverted
             /\ Records(k)[j].file = Target[j]
             /\ Records(k)[j].file = f =>
                  /\ Exists(f)
                  /\ Normalize[Records(k)[j].snap] = Normalize[disk[f]]
  <2>1. Records(k)[j] = Applied(Staged(j), Target[j], Snapshots[j])
      BY DEF Records
  <2>2. ~ Records(k)[j].reverted /\ Records(k)[j].file = Target[j]
        /\ Records(k)[j].snap = Snapshots[j]
      BY <2>1 DEF Applied
  <2>3. ASSUME Target[j] = f
        PROVE  Exists(f) /\ Snapshots[j] = snapshot(f)
    <3>1. j \in 1..Count
        BY <1>1
    <3> QED BY <2>3, <3>1 DEF CasPasses, CasError, Snapshots
  <2> QED BY <2>2, <2>3, SnapshotText DEF TypeInv
<1> HIDE DEF Records
<1> QED BY <1>2, <1>3 DEF Extends

(* A batch that is recorded up to some patch pushes its records.           *)
LEMMA BatchPushes ==
    ASSUME TypeInv, NEW f \in Files, NEW t \in TxIds, Active(t),
           CasPasses, NEW k \in 0..Count, undo' = undo \o Records(k),
           (\A i \in 1..k : Target[i] # f) => SameText(f)
    PROVE  Pushes(f)
<1> HIDE DEF Records
<1> QED BY BatchExtends DEF Pushes

(* A commit that succeeds records every file it wrote.                     *)
LEMMA CommitPushes ==
    ASSUME TypeInv, NEW f \in Files, NEW t \in TxIds, NEW verify \in BOOLEAN,
           CommitSucceeds(t, verify)
    PROVE  Pushes(f)
<1> USE DEF TypeInv
<1>1. /\ Active(t) /\ CasPasses /\ Count \in Nat /\ Count \in 0..Count
      /\ disk' = Wrote(Count) /\ undo' = undo \o Records(Count)
    BY ActiveType DEF CommitSucceeds
<1>2. ASSUME \A i \in 1..Count : Target[i] # f
      PROVE  SameText(f)
  <2>1. Wrote(Count)[f] = disk[f]
      BY <1>1, <1>2, OverwriteCases DEF Wrote, LastFor
  <2> QED BY <1>1, <2>1, SameContent
<1> QED BY <1>1, <1>2, BatchPushes

(* So commit_transaction pushes records, or changes nothing.  One that is  *)
(* refused while it marks has pushed some of its records only; a file      *)
(* without one has the text of before.                                     *)
LEMMA CommitShape ==
    ASSUME TypeInv, Alone, ~ LeavesUnrecorded, NEW f \in Files,
           NEW t \in TxIds, commit_transaction(t)
    PROVE  Pushes(f)
<1> USE DEF TypeInv
<1>1. ASSUME NEW verify \in BOOLEAN, CommitMarkRaises(t, verify)
      PROVE  Pushes(f)
  <2>1. Active(t) /\ CasPasses /\ Count \in Nat
      BY <1>1, ActiveType DEF CommitMarkRaises
  <2>2. PICK k \in 1..Count :
          /\ MarkError(Staged(k)) # "none"
          /\ undo' = undo \o Records(k)
          /\ Fail("commit_transaction", MarkError(Staged(k)))
      BY <1>1 DEF CommitMarkRaises
  <2>3. reply'.op = "commit_transaction" /\ k \in 0..Count
      BY <2>1, <2>2, OutcomeOf DEF Fail
  <2>4. ASSUME ~ SameText(f)
        PROVE  \E i \in 1..k : Target[i] = f
    <3>1. PICK i \in 1..Len(undo') : i > Len(undo) /\ undo'[i].file = f
        BY <2>3, <2>4 DEF LeavesUnrecorded
    <3> DEFINE m == i - Len(undo)
    <3>3. m \in 1..k /\ undo'[i] = Records(k)[m]
        BY <2>1, <2>2, <2>3, <3>1, RecordsPushed
    <3>4. Records(k)[m].file = Target[m]
        BY <3>3 DEF Records, Applied
    <3> QED BY <3>1, <3>3, <3>4
  <2> QED BY <2>1, <2>2, <2>3, <2>4, BatchPushes
<1>2. ASSUME NEW verify \in BOOLEAN, CommitRollsBack(t, verify)
      PROVE  Pushes(f)
    BY <1>2, RollbackRestores, QuietPushes DEF CommitRollsBack
<1> QED BY <1>1, <1>2, CommitPushes, SameContent, QuietPushes
    DEF commit_transaction, CommitRejected, CommitRollbackRaises, TxNotFound,
        Alone

(* undo_last pops a record or changes nothing.                             *)
LEMMA UndoShape ==
    ASSUME TypeInv, Alone, NEW f \in Files,
           NEW filter \in Files \cup {AnyFile}, undo_last(filter)
    PROVE  Pushes(f) \/ Pops(f)
<1>1. CASE UndoReverts(filter)
  <2>1. PICK i \in Eligible(filter) :
          /\ \A j \in Eligible(filter) : j <= i
          /\ Revert(i)
      BY <1>1 DEF UndoReverts
  <2>2. /\ i \in 1..Len(undo) /\ ~ undo[i].reverted
        /\ filter \in {AnyFile, undo[i].file}
      BY <2>1 DEF Eligible
  <2>3. undo[i].file \in Files
    <3>1. undo[i] \in UndoPatchRecord
        BY <2>2, ElementOfSeq DEF TypeInv, TypeOK
    <3> QED BY <3>1 DEF UndoPatchRecord
  <2>4. CASE undo[i].file = f
    <3>1. Eligible(f) \subseteq Eligible(filter)
        BY <2>2, <2>4, UndoAssumption DEF Eligible
    <3>2. disk'[f] = undo[i].snap
        BY <2>1, <2>4 DEF Revert, Replace, TypeInv, TypeOK, DiskType
    <3> QED BY <2>1, <2>2, <2>4, <3>1, <3>2 DEF Revert, Pops
  <2>5. CASE undo[i].file # f
    <3>1. disk'[f] = disk[f]
        BY <2>1, <2>3, <2>5 DEF Revert, Replace, TypeInv, TypeOK, DiskType
    <3> QED BY <2>1, <2>2, <2>5, <3>1 DEF Revert, Pops
  <2> QED BY <2>4, <2>5
<1>2. CASE UndoFails(filter)
    BY <1>2, SameContent, QuietPushes DEF UndoFails
<1> QED BY <1>1, <1>2 DEF undo_last

(* Every step is of one of the two kinds.                                  *)
LEMMA StepShape ==
    ASSUME TypeInv, Alone, ~ LeavesUnrecorded, Next, NEW f \in Files
    PROVE  Pushes(f) \/ Pops(f)
<1>1. ASSUME NEW p \in PatchIds, NEW t \in TxIds, apply_patch_tx(p, t)
      PROVE  Pushes(f)
  <2>1. CASE Pending(p) /\ (StagePatch(p, t) \/ StageRaises(p, t))
    <3>1. patches[p].path \in Paths
        BY <2>1, GetErrorCases, KnownType DEF Pending, TypeInv, PatchProposal
    <3> QED BY <1>1, <2>1, <3>1, SameContent, QuietPushes
        DEF Alone, apply_patch_tx, StagePatch, StageRaises, TxNotFound
  <2> QED BY <1>1, <2>1, SameContent, QuietPushes DEF apply_patch_tx
<1>2. ASSUME NEW g \in Files, ExternalEdit(g)
      PROVE  FALSE
    BY <1>2 DEF ExternalEdit, Alone
<1> QED BY <1>1, <1>2, ApplyShape, CommitShape, UndoShape, SameContent,
           QuietPushes
    DEF Next, vars, propose_edit, propose_line_edit, Proposes,
        ProposeRejected, Begin, Rollback, Environment, Tick

-----------------------------------------------------------------------------
(* What undo of a file restores last is its first text.                    *)

Own(f) == {k \in 1..Len(undo) : undo[k].file = f}

WalksBack(f) ==
    \A i \in Own(f) : Oldest(Own(f), i) =>
        IF Eligible(f) = {}
        THEN Exists(f) /\ Normalize[disk[f]] = Normalize[undo[i].snap]
        ELSE \A j \in Eligible(f) : Oldest(Eligible(f), j) =>
               Normalize[undo[j].snap] = Normalize[undo[i].snap]

LEMMA WalksBackIsUndoWalksBack ==
    UndoWalksBack <=> \A f \in Files : WalksBack(f)
BY DEF UndoWalksBack, WalksBack, Own, Oldest

\* A file is not the mark of an undo without a path.
LEMMA EligibleIs ==
    ASSUME NEW f \in Files
    PROVE  Eligible(f) = {k \in Own(f) : ~ undo[k].reverted}
BY UndoAssumption DEF Eligible, Own

(* The places of the records of f among those a step adds.                 *)
New(f, recs) ==
    {k \in (Len(undo) + 1)..(Len(undo) + Len(recs)) :
        recs[k - Len(undo)].file = f}

LEMMA NewRecords ==
    ASSUME TypeInv, NEW f \in Files, NEW recs \in Seq(UndoPatchRecord),
           Extends(f, recs)
    PROVE  /\ Own(f) \subseteq 1..Len(undo)
           /\ Eligible(f) = {k \in Own(f) : ~ undo[k].reverted}
           /\ Own(f)' = Own(f) \cup New(f, recs)
           /\ Eligible(f)' = Eligible(f) \cup New(f, recs)
           /\ \A k \in Own(f) : undo'[k] = undo[k]
           /\ \A k \in New(f, recs) :
                /\ k \in Nat /\ k > Len(undo)
                /\ Exists(f) /\ Normalize[undo'[k].snap] = Normalize[disk[f]]
           /\ New(f, recs) = {} => \A j \in 1..Len(recs) : recs[j].file # f
<1> DEFINE n == Len(undo)
<1>2. n \in Nat /\ Len(recs) \in Nat
    BY LenProperties DEF TypeInv, TypeOK
<1>3. /\ Len(undo') = n + Len(recs)
      /\ \A j \in 1..n : undo'[j] = undo[j]
      /\ \A j \in (n + 1)..(n + Len(recs)) : undo'[j] = recs[j - n]
  <2>1. /\ Len(undo') = n + Len(recs)
        /\ \A j \in 1..(n + Len(recs)) :
             undo'[j] = IF j <= n THEN undo[j] ELSE recs[j - n]
      BY ConcatProperties DEF Extends, TypeInv, TypeOK
  <2> QED BY <1>2, <2>1
<1>4. ASSUME NEW k \in New(f, recs)
      PROVE  /\ undo'[k].file = f /\ ~ undo'[k].reverted /\ k > n
             /\ Exists(f) /\ Normalize[undo'[k].snap] = Normalize[disk[f]]
  <2>1. k - n \in 1..Len(recs) /\ k \in (n + 1)..(n + Len(recs))
        /\ recs[k - n].file = f /\ k > n
      BY <1>2 DEF New
  <2>2. undo'[k] = recs[k - n]
      BY <1>3, <2>1
  <2> QED BY <2>1, <2>2 DEF Extends
<1>5. Own(f) \subseteq 1..n /\ Eligible(f) = {k \in Own(f) : ~ undo[k].reverted}
    BY EligibleIs DEF Own
<1>6. Own(f)' = Own(f) \cup New(f, recs)
  <2>1. 1..Len(undo') = (1..n) \cup ((n + 1)..(n + Len(recs)))
      BY <1>2, <1>3
  <2>2. Own(f)' = {k \in 1..Len(undo') : undo'[k].file = f}
      BY DEF Own
  <2>3. {k \in 1..n : undo'[k].file = f} = Own(f)
      BY <1>3 DEF Own
  <2>4. {k \in (n + 1)..(n + Len(recs)) : undo'[k].file = f} = New(f, recs)
      BY <1>3 DEF New
  <2> QED BY <2>1, <2>2, <2>3, <2>4
<1> HIDE DEF n
<1>7. \A k \in Own(f) : undo'[k] = undo[k]
    BY <1>3, <1>5
<1>8. Eligible(f)' = Eligible(f) \cup New(f, recs)
  <2>1. Eligible(f)' = {k \in Own(f)' : ~ undo'[k].reverted}
      BY UndoAssumption DEF Eligible, Own
  <2> QED BY <1>4, <1>5, <1>6, <1>7, <2>1
<1>9. ASSUME New(f, recs) = {}, NEW j \in 1..Len(recs)
      PROVE  recs[j].file # f
  <2>1. n + j \in (n + 1)..(n + Len(recs)) /\ (n + j) - n = j
    <3>1. j \in 1..Len(recs)
        BY <1>9
    <3> QED BY <1>2, <3>1
  <2> QED BY <1>9, <2>1 DEF New, n
<1>10. \A k \in New(f, recs) : k \in Nat /\ k > n
    BY <1>2 DEF New, n
<1> QED BY <1>4, <1>5, <1>6, <1>7, <1>8, <1>9, <1>10 DEF n

(* New records: the first of them is the oldest not reverted only when all *)
(* of the file before were, and then it held the first text.               *)
LEMMA PushWalksBack ==
    ASSUME TypeInv, NEW f \in Files, WalksBack(f), Pushes(f)
    PROVE  WalksBack(f)'
<1>1. PICK recs \in Seq(UndoPatchRecord) :
        /\ Extends(f, recs)
        /\ (\A j \in 1..Len(recs) : recs[j].file # f) => SameText(f)
    BY DEF Pushes
<1> DEFINE N == New(f, recs)
<1> HIDE DEF N
<1>2. Len(undo) \in Nat
    BY LenProperties DEF TypeInv, TypeOK
<1>3. /\ Own(f) \subseteq 1..Len(undo)
      /\ Eligible(f) = {k \in Own(f) : ~ undo[k].reverted}
      /\ Own(f)' = Own(f) \cup N
      /\ Eligible(f)' = Eligible(f) \cup N
      /\ \A k \in Own(f) : undo'[k] = undo[k]
      /\ \A k \in N : /\ k \in Nat /\ k > Len(undo)
                      /\ Exists(f) /\ Normalize[undo'[k].snap] = Normalize[disk[f]]
      /\ N = {} => SameText(f)
    BY <1>1, NewRecords DEF N
<1>4. CASE N = {}
  <2>1. Own(f)' = Own(f) /\ Eligible(f)' = Eligible(f) /\ Eligible(f) \subseteq Own(f)
      BY <1>3, <1>4
  <2>2. Exists(f) => Exists(f)' /\ Normalize[disk'[f]] = Normalize[disk[f]]
      BY <1>3, <1>4 DEF SameText, Exists
  <2> QED BY <1>3, <2>1, <2>2 DEF WalksBack, Oldest
<1>5. CASE N # {}
  <2>1. SUFFICES ASSUME NEW i \in Own(f)', Oldest(Own(f)', i),
                        NEW j \in Eligible(f)', Oldest(Eligible(f)', j)
                 PROVE  Normalize[undo'[j].snap] = Normalize[undo'[i].snap]
      BY <1>3, <1>5 DEF WalksBack, Oldest
  <2>2. \A k \in Own(f), m \in N : k < m /\ ~ m <= k /\ k \in Nat /\ m \in Nat
    <3>1. ASSUME NEW k \in Own(f), NEW m \in N
          PROVE  k \in 1..Len(undo) /\ m > Len(undo) /\ m \in Nat
        BY <1>2, <1>3
    <3> QED BY <1>2, <3>1
  <2>3. CASE Own(f) = {}
      BY <1>3, <2>3
  <2>4. CASE Own(f) # {}
    <3>1. i \in Own(f) /\ Oldest(Own(f), i) /\ undo'[i] = undo[i]
        BY <1>3, <2>1, <2>2, <2>4 DEF Oldest
    <3>2. CASE Eligible(f) = {}
      <4>1. Normalize[disk[f]] = Normalize[undo[i].snap]
          BY <3>1, <3>2 DEF WalksBack
      <4>2. j \in N
          BY <1>3, <3>2
      <4> QED BY <1>3, <3>1, <4>1, <4>2
    <3>3. CASE Eligible(f) # {}
      <4>1. j \in Eligible(f) /\ Oldest(Eligible(f), j) /\ undo'[j] = undo[j]
          BY <1>3, <2>1, <2>2, <3>3 DEF Oldest
      <4> QED BY <3>1, <3>3, <4>1 DEF WalksBack
    <3> QED BY <3>2, <3>3
  <2> QED BY <2>3, <2>4
<1> QED BY <1>4, <1>5

(* A record less: it is of another file; or another one is the oldest as   *)
(* before; or it was the last, and what it restores is the first text.     *)
LEMMA PopWalksBack ==
    ASSUME TypeInv, NEW f \in Files, WalksBack(f), Pops(f)
    PROVE  WalksBack(f)'
<1>1. PICK i \in 1..Len(undo) :
        /\ ~ undo[i].reverted
        /\ undo' = [undo EXCEPT ![i].reverted = TRUE]
        /\ IF undo[i].file = f
           THEN disk'[f] = undo[i].snap /\ \A j \in Eligible(f) : j <= i
           ELSE disk'[f] = disk[f]
    BY DEF Pops
<1>2. Len(undo) \in Nat
    BY LenProperties DEF TypeInv, TypeOK
<1>3. /\ Len(undo') = Len(undo)
      /\ undo'[i] = [undo[i] EXCEPT !.reverted = TRUE]
      /\ \A j \in 1..Len(undo) : j # i => undo'[j] = undo[j]
  <2>1. undo' = [undo EXCEPT ![i] = [undo[i] EXCEPT !.reverted = TRUE]]
      BY <1>1
  <2>2. undo \in [1..Len(undo) -> UndoPatchRecord] /\ undo \in Seq(UndoPatchRecord)
      BY LenProperties DEF TypeInv, TypeOK
  <2>3. Len(undo') = Len(undo)
      BY <1>2, <2>1, <2>2
  <2> QED BY <1>2, <2>1, <2>2, <2>3
<1>4. \A j \in 1..Len(undo) : undo[j] \in UndoPatchRecord
    BY ElementOfSeq DEF TypeInv, TypeOK
<1>5. \A j \in 1..Len(undo) :
         /\ undo'[j].snap = undo[j].snap
         /\ undo'[j].file = undo[j].file
         /\ undo'[j].reverted = (undo[j].reverted \/ j = i)
    BY <1>2, <1>3, <1>4 DEF UndoPatchRecord
<1>6. Own(f)' = Own(f) /\ Own(f) \subseteq 1..Len(undo)
    BY <1>3, <1>5 DEF Own
<1>7. Eligible(f) = {k \in Own(f) : ~ undo[k].reverted}
    BY EligibleIs
<1>8. Eligible(f)' = {k \in Own(f)' : ~ undo'[k].reverted}
    BY UndoAssumption DEF Eligible, Own
<1>9. CASE undo[i].file # f
  <2>1. Eligible(f)' = Eligible(f)
      BY <1>5, <1>6, <1>7, <1>8, <1>9 DEF Own
  <2> QED BY <1>1, <1>5, <1>6, <1>7, <1>9, <2>1 DEF WalksBack, Oldest, Exists
<1>10. CASE undo[i].file = f
  <2>1. i \in Eligible(f) /\ Eligible(f)' = Eligible(f) \ {i}
      BY <1>1, <1>5, <1>6, <1>7, <1>8, <1>10 DEF Own
  <2>2. SUFFICES ASSUME NEW o \in Own(f), Oldest(Own(f), o)
                 PROVE  IF Eligible(f)' = {}
                        THEN /\ Exists(f)'
                             /\ Normalize[disk'[f]] = Normalize[undo[o].snap]
                        ELSE \A j \in Eligible(f)' : Oldest(Eligible(f)', j) =>
                               Normalize[undo[j].snap] = Normalize[undo[o].snap]
      BY <1>5, <1>6, <1>7, <2>1 DEF WalksBack, Oldest
  <2>3. CASE Eligible(f)' = {}
    <3>1. Oldest(Eligible(f), i)
        BY <2>1, <2>3 DEF Oldest
    <3>2. Normalize[undo[i].snap] = Normalize[undo[o].snap]
        BY <2>1, <2>2, <3>1 DEF WalksBack
    <3>3. undo[i].snap \in Content
        BY <1>4 DEF UndoPatchRecord
    <3> QED BY <1>1, <1>10, <2>3, <3>2, <3>3, ContentAssumption DEF Exists
  <2>4. CASE Eligible(f)' # {}
    <3>1. ASSUME NEW j \in Eligible(f)', Oldest(Eligible(f)', j)
          PROVE  Normalize[undo[j].snap] = Normalize[undo[o].snap]
      <4>1. j \in Eligible(f) /\ j <= i
          BY <1>1, <1>10, <2>1
      <4>2. Oldest(Eligible(f), j)
          BY <2>1, <3>1, <4>1 DEF Oldest
      <4> QED BY <2>2, <4>1, <4>2 DEF WalksBack
    <3> QED BY <2>4, <3>1
  <2> QED BY <2>3, <2>4
<1> QED BY <1>9, <1>10

LEMMA WalksBackInit ==
    ASSUME Init, NEW f \in Files
    PROVE  WalksBack(f)
BY EmptySeq DEF Init, WalksBack, Own

LEMMA WalksBackStep ==
    ASSUME TypeInv, Alone, ~ LeavesUnrecorded, Next, NEW f \in Files,
           WalksBack(f)
    PROVE  WalksBack(f)'
BY StepShape, PushWalksBack, PopWalksBack

LEMMA WalksBackStutter ==
    ASSUME UNCHANGED vars, NEW f \in Files, WalksBack(f)
    PROVE  WalksBack(f)'
BY DEF vars, WalksBack, Own, Eligible, Exists, Oldest

(* Through applies, commits that succeed or fail halfway, and undos with   *)
(* and without a path, undo leads every file back to the text it had at    *)
(* first: its own records do, whatever happens to the files it shares      *)
(* batches with.                                                           *)
THEOREM UndoLeadsBack ==
    ASSUME Alone
    PROVE  RecordingSpec => []UndoWalksBack
<1> DEFINE Walks == \A f \in Files : WalksBack(f)
<1>1. Init => Walks
    BY WalksBackInit
<1>2. TypeInv /\ Walks /\ [Next /\ ~ LeavesUnrecorded]_vars => Walks'
    BY WalksBackStep, WalksBackStutter
<1>3. Walks => UndoWalksBack
    BY WalksBackIsUndoWalksBack
<1>4. RecordingSpec => []TypeInv
  <2>1. [Next /\ ~ LeavesUnrecorded]_vars => [Next]_vars
      OBVIOUS
  <2>2. RecordingSpec => Spec
      BY <2>1, PTL DEF RecordingSpec, Spec
  <2> QED BY <2>2, TypeCorrect, PTL DEF TypeInv
<1> QED BY <1>1, <1>2, <1>3, <1>4, PTL DEF RecordingSpec

(* A commit of patches of one file always records it.                      *)
LEMMA OneFileRecorded ==
    ASSUME TypeInv, Alone, OneFile, Next
    PROVE  ~ LeavesUnrecorded
<1> USE DEF TypeInv
<1>1. ASSUME NEW t \in TxIds, commit_transaction(t), NEW f \in Files, ~ SameText(f)
      PROVE  \E i \in 1..Len(undo') : i > Len(undo) /\ undo'[i].file = f
  <2>1. ASSUME Active(t), CasPasses, NEW k \in 1..Count, undo' = undo \o Records(k)
        PROVE  \E i \in 1..Len(undo') : i > Len(undo) /\ undo'[i].file = f
    <3>1. Count \in Nat /\ k \in 0..Count /\ 1 \in 1..Count /\ 1 \in 1..k
        BY <2>1, ActiveType
    <3>4. Records(k)[1].file = f
        BY <2>1, <3>1, StagedType DEF Records, Applied, OneFile
    <3>5. /\ Len(undo) \in Nat /\ Len(undo) + 1 \in 1..Len(undo')
          /\ undo'[Len(undo) + 1] = Records(k)[1]
        BY <2>1, <3>1, RecordsPushed
    <3> QED BY <3>4, <3>5
  <2>2. ASSUME NEW verify \in BOOLEAN, CommitSucceeds(t, verify)
        PROVE  \E i \in 1..Len(undo') : i > Len(undo) /\ undo'[i].file = f
    <3>1. /\ Active(t) /\ CasPasses /\ Count \in Nat
          /\ disk' = Wrote(Count) /\ undo' = undo \o Records(Count)
        BY <2>2, ActiveType DEF CommitSucceeds
    <3>2. Count # 0
      <4>1. ASSUME Count = 0
            PROVE  Wrote(Count)[f] = disk[f]
          BY <4>1 DEF Wrote, Overwrite
      <4> QED BY <1>1, <3>1, <4>1, SameContent
    <3>3. Count \in 1..Count
        BY <3>1, <3>2
    <3> QED BY <2>1, <3>1, <3>3
  <2>3. ASSUME NEW verify \in BOOLEAN, CommitMarkRaises(t, verify)
        PROVE  \E i \in 1..Len(undo') : i > Len(undo) /\ undo'[i].file = f
      BY <2>1, <2>3 DEF CommitMarkRaises
  <2>4. ASSUME NEW verify \in BOOLEAN, CommitRollsBack(t, verify)
        PROVE  FALSE
      BY <1>1, <2>4, RollbackRestores DEF CommitRollsBack
  <2> QED BY <1>1, <2>2, <2>3, <2>4, SameContent
      DEF commit_transaction, CommitRejected, CommitRollbackRaises, TxNotFound,
          Alone
<1>2. ASSUME reply'.op = "commit_transaction"
      PROVE  \E t \in TxIds : commit_transaction(t)
  <2>1. ASSUME NEW p \in PatchIds, apply_patch(p)
        PROVE  reply'.op = "apply_patch"
      BY <2>1, OutcomeOf
      DEF apply_patch, PatchUnavailable, PatchAlreadyApplied, GetFails, Fail,
          ApplyRejected, ApplySucceeds, ApplyRollsBack, ApplyAbandoned
  <2>2. ASSUME NEW p \in PatchIds, NEW t \in TxIds, apply_patch_tx(p, t)
        PROVE  reply'.op = "apply_patch"
      BY <2>2, OutcomeOf
      DEF apply_patch_tx, StagePatch, StageRaises, TxNotFound, Fail
  <2>3. ASSUME NEW filter \in Files \cup {AnyFile}, undo_last(filter)
        PROVE  reply'.op = "undo_last"
      BY <2>3, OutcomeOf
      DEF undo_last, UndoReverts, UndoFails, Revert, Fail
  <2>4. ASSUME Begin
        PROVE  reply'.op = "begin_transaction"
      BY <2>4, OutcomeOf
      DEF Begin, begin_transaction, BeginRejected, Fail
  <2>5. ASSUME NEW t \in TxIds, Rollback(t)
        PROVE  reply'.op = "rollback_transaction"
      BY <2>5, OutcomeOf
      DEF Rollback, rollback_transaction, TxNotFound, Fail
  <2>6. ASSUME Environment
        PROVE  reply'.op = "none"
      BY <2>6, OutcomeOf DEF Environment, Tick, ExternalEdit, NoReply
  <2>7. ASSUME NEW p \in PatchIds, NEW path \in Paths, NEW new \in Content,
               Proposes(p, path, new)
        PROVE  reply'.op = "propose"
      BY <2>7, OutcomeOf DEF Proposes
  <2>8. ASSUME NEW path \in Paths, ProposeRejected(path)
        PROVE  reply'.op = "propose"
      BY <2>8, OutcomeOf DEF ProposeRejected, Fail
  <2> QED BY <1>2, <2>1, <2>2, <2>3, <2>4, <2>5, <2>6, <2>7, <2>8
      DEF Next, propose_edit, propose_line_edit
<1> QED BY <1>1, <1>2 DEF LeavesUnrecorded

(* So for one file undo always leads back, whichever commits fail.         *)
THEOREM UndoLeadsOneBack ==
    ASSUME Alone, OneFile
    PROVE  Spec => []UndoWalksBack
<1>1. TypeInv /\ [Next]_vars => [Next /\ ~ LeavesUnrecorded]_vars
    BY OneFileRecorded
<1>2. Spec => []TypeInv
    BY TypeCorrect, PTL DEF TypeInv
<1>3. Spec => RecordingSpec
    BY <1>1, <1>2, PTL DEF Spec, RecordingSpec
<1> QED BY <1>3, UndoLeadsBack, PTL

-----------------------------------------------------------------------------
(* The engine keeps the journal.                                           *)

USE DEF FileOf, compute_content_hash

(* What the journal hears of an answer.                                    *)
LEMMA AnswerIs ==
    /\ reply'.out = "ok" => answer' = "proposed"
    /\ reply'.out = "applied" => answer' = "done"
    /\ reply'.out = "committed" => answer' = "done"
    /\ reply'.out = "reverted" => answer' = "undone"
    /\ reply'.out = "none" => answer' = "none"
    /\ reply'.out = "E_INTERNAL_ERROR" => answer' = "failed"
    /\ reply'.op = "commit_transaction" /\ reply'.out \in LateCodes =>
         answer' = "failed"
BY DEF answer, LateCodes

(* What of the journal a step can change.                                  *)
LEMMA TextKept ==
    ASSUME NEW f \in Files, SameText(f)
    PROVE  text'[f] = text[f]
BY DEF SameText, text, Exists

LEMMA TextSwapped ==
    ASSUME TypeOK, NEW f \in Files, Swaps(f)
    PROVE  Promised!Swaps(f)
<1>1. PICK p \in PatchIds :
        /\ Known(p) /\ FileOf(p) = f
        /\ Exists(f) /\ patches[p].base = Normalize[disk[f]]
        /\ disk'[f] = patches[p].new
    BY DEF Swaps
<1>2. patches[p].new # Missing
    BY <1>1, KnownType, ContentAssumption DEF PatchProposal
<1>3. text'[f] = Normalize[patches[p].new] /\ text[f] = patches[p].base
    BY <1>1, <1>2 DEF text, Exists
<1> QED BY <1>1, <1>3 DEF Promised!Swaps, offers

(* Only a proposal makes an offer.                                         *)
LEMMA OffersKept ==
    ASSUME TypeInv, [Next]_vars, reply'.out # "ok"
    PROVE  offers' = offers
<1>1. ASSUME NEW p \in PatchIds, Known(p)
      PROVE  Frozen(p)
    BY <1>1, PatchStep
<1>2. ASSUME NEW p \in PatchIds, Known(p)'
      PROVE  Known(p)
    BY <1>2, NewPatchProposed, OutcomeOf DEF Proposes
<1>3. \A p \in PatchIds :
         /\ Known(p)' <=> Known(p)
         /\ Known(p) => /\ patches'[p].path = patches[p].path
                        /\ patches'[p].base = patches[p].base
                        /\ patches'[p].new = patches[p].new
    BY <1>1, <1>2 DEF Frozen
<1>4. {q \in PatchIds : Known(q)'} = {q \in PatchIds : Known(q)}
    BY <1>3
<1> QED BY <1>3, <1>4 DEF offers

LEMMA OffersGrow ==
    ASSUME TypeInv, NEW p \in PatchIds, NEW path \in Paths, NEW new \in Content,
           Proposes(p, path, new)
    PROVE  Promised!Propose
<1> USE DEF TypeInv
<1>1. /\ Exists(path.file) /\ path.file \in Files /\ ~ Known(p)
      /\ patches' = [patches EXCEPT ![p] =
           [path |-> path, base |-> Normalize[disk[path.file]], new |-> new,
            age |-> 0, status |-> "pending"]]
      /\ UNCHANGED <<disk, undo>> /\ reply'.out = "ok"
    BY PatchAssumption, OutcomeOf DEF Proposes, store
<1>2. /\ Known(p)' /\ patches'[p].path = path
      /\ patches'[p].base = Normalize[disk[path.file]]
      /\ patches'[p].new = new
  <2>1. patches'[p] \in PatchProposal
    <3>1. patches'[p] = [path |-> path, base |-> Normalize[disk[path.file]],
                         new |-> new, age |-> 0, status |-> "pending"]
        BY <1>1 DEF TypeOK, PatchesType
    <3>2. Normalize[disk[path.file]] \in Content
        BY <1>1, ContentAssumption DEF TypeOK, DiskType, Exists
    <3> QED BY <3>1, <3>2, PatchAssumption DEF PatchProposal, Status
  <2> QED BY <1>1, <2>1, PatchAssumption DEF Known, TypeOK, PatchesType
<1>3. \A q \in PatchIds : q # p => patches'[q] = patches[q]
    BY <1>1 DEF TypeOK, PatchesType
<1>4. text' = text /\ past' = past /\ answer' = "proposed"
  <2>1. text' = text /\ past' = past
      BY <1>1 DEF text, past, Exists, Eligible
  <2> QED BY <1>1, <2>1, AnswerIs
<1>5. offers \subseteq offers'
    BY <1>1, <1>3 DEF offers, Known
<1>6. ASSUME NEW o \in offers' \ offers
      PROVE  o.from = text[o.file] /\ o.from # Missing
  <2>1. PICK q \in PatchIds : /\ Known(q)'
                              /\ o = [file |-> patches'[q].path.file,
                                      from |-> patches'[q].base,
                                      to |-> Normalize[patches'[q].new]]
      BY DEF offers
  <2>2. q = p
      BY <1>3, <2>1 DEF offers, Known
  <2>3. o.file = path.file /\ o.from = Normalize[disk[path.file]]
      BY <1>2, <2>1, <2>2
  <2>4. text[path.file] = Normalize[disk[path.file]]
        /\ Normalize[disk[path.file]] \in Content
      BY <1>1, ContentAssumption DEF text, TypeOK, DiskType, Exists
  <2> QED BY <2>3, <2>4, ContentAssumption
<1> QED BY <1>4, <1>5, <1>6 DEF Promised!Propose

(* What undo could give back stays, and the new records have the text of   *)
(* before.                                                                 *)
LEMMA PastExtended ==
    ASSUME TypeInv, NEW f \in Files, NEW recs \in Seq(UndoPatchRecord),
           Extends(f, recs)
    PROVE  /\ Promised!Recorded(f)
           /\ past'[f] = past[f] => \A j \in 1..Len(recs) : recs[j].file # f
<1> DEFINE N == New(f, recs)
           P == {[at |-> i, text |-> Normalize[undo[i].snap]] : i \in Eligible(f)}
           Q == {[at |-> i, text |-> Normalize[undo'[i].snap]] : i \in N}
<1> HIDE DEF N
<1>1. Len(undo) \in Nat
    BY LenProperties DEF TypeInv, TypeOK
<1>2. /\ Eligible(f) \subseteq 1..Len(undo)
      /\ Eligible(f)' = Eligible(f) \cup N
      /\ \A i \in Eligible(f) : undo'[i] = undo[i]
      /\ \A i \in N : /\ i \in Nat /\ i > Len(undo)
                      /\ Exists(f) /\ Normalize[undo'[i].snap] = Normalize[disk[f]]
      /\ N = {} => \A j \in 1..Len(recs) : recs[j].file # f
    BY NewRecords DEF N
<1>3. past[f] = P /\ past'[f] = P \cup Q
  <2>1. past'[f] = {[at |-> i, text |-> Normalize[undo'[i].snap]] :
                      i \in Eligible(f)'}
      BY DEF past
  <2>2. past[f] = P
      BY DEF past
  <2> QED BY <1>2, <2>1, <2>2
<1>4. ASSUME NEW e \in Q
      PROVE  /\ e.text = text[f]
             /\ \A d \in P : d.at < e.at
  <2>1. PICK i \in N : e = [at |-> i, text |-> Normalize[undo'[i].snap]]
      OBVIOUS
  <2>2. e.at = i /\ i \in Nat /\ i > Len(undo) /\ e.text = text[f]
      BY <1>2, <2>1 DEF text
  <2>3. ASSUME NEW d \in P
        PROVE  d.at < e.at
    <3>1. d.at \in 1..Len(undo)
        BY <1>2
    <3> QED BY <1>1, <2>2, <3>1
  <2> QED BY <2>2, <2>3
<1>5. Promised!Recorded(f)
  <2> HIDE DEF P, Q
  <2> QED BY <1>3, <1>4 DEF Promised!Recorded
<1>6. ASSUME past'[f] = past[f]
      PROVE  N = {}
  <2>1. ASSUME NEW i \in N
        PROVE  FALSE
    <3> DEFINE e == [at |-> i, text |-> Normalize[undo'[i].snap]]
    <3>1. e \in Q
        OBVIOUS
    <3>2. e \in P
        BY <1>3, <1>6, <3>1
    <3>3. e.at \in 1..Len(undo)
        BY <1>2, <3>2
    <3> QED BY <1>1, <1>2, <3>3
  <2> QED BY <2>1
<1> QED BY <1>2, <1>5, <1>6

(* The kinds of step.                                                      *)
LEMMA JournalStutters ==
    ASSUME \A f \in Files : SameText(f), undo' = undo, offers' = offers
    PROVE  UNCHANGED Promised!state
<1>1. text' = text
  <2>1. \A f \in Files : text'[f] = text[f]
      BY TextKept
  <2>2. text = [f \in Files |-> text[f]] /\ text' = [f \in Files |-> text'[f]]
      BY DEF text
  <2> QED BY <2>1, <2>2
<1>2. past' = past
    BY DEF past, Eligible
<1> QED BY <1>1, <1>2 DEF Promised!state

LEMMA JournalEdits ==
    ASSUME TypeInv, answer' = "done", offers' = offers,
           \A f \in Files : Pushes(f) /\ (SameText(f) \/ Swaps(f))
    PROVE  Promised!Edit
<1> SUFFICES ASSUME NEW f \in Files
             PROVE  \/ Promised!Kept(f)
                    \/ /\ Promised!Swaps(f) /\ Promised!Recorded(f)
                       /\ past'[f] # past[f]
    BY DEF Promised!Edit
<1>1. PICK recs \in Seq(UndoPatchRecord) :
        /\ Extends(f, recs)
        /\ (\A j \in 1..Len(recs) : recs[j].file # f) => SameText(f)
    BY DEF Pushes
<1>2. Promised!Recorded(f)
      /\ (past'[f] = past[f] => text'[f] = text[f])
    BY <1>1, PastExtended, TextKept
<1>3. Promised!Swaps(f)
    BY TextKept, TextSwapped DEF TypeInv, Promised!Swaps
<1> QED BY <1>2, <1>3 DEF Promised!Kept

LEMMA JournalFails ==
    ASSUME TypeInv, answer' = "failed", offers' = offers,
           \A f \in Files :
             /\ \E recs \in Seq(UndoPatchRecord) : Extends(f, recs)
             /\ SameText(f) \/ Swaps(f)
    PROVE  Promised!Fail
<1> SUFFICES ASSUME NEW f \in Files
             PROVE  Promised!Swaps(f) /\ Promised!Recorded(f)
    BY DEF Promised!Fail
<1>1. Promised!Recorded(f)
    BY PastExtended
<1>2. Promised!Swaps(f)
    BY TextKept, TextSwapped DEF TypeInv, Promised!Swaps
<1> QED BY <1>1, <1>2

LEMMA JournalUndoes ==
    ASSUME TypeInv, NEW filter \in Files \cup {AnyFile}, UndoReverts(filter),
           offers' = offers
    PROVE  Promised!Undo
<1> USE DEF TypeInv
<1>1. PICK i \in Eligible(filter) :
        /\ \A j \in Eligible(filter) : j <= i
        /\ Revert(i)
    BY DEF UndoReverts
<1>2. i \in 1..Len(undo) /\ ~ undo[i].reverted
      /\ filter \in {AnyFile, undo[i].file}
    BY DEF Eligible
<1>3. \A j \in 1..Len(undo) : undo[j] \in UndoPatchRecord
    BY ElementOfSeq DEF TypeOK
<1> DEFINE g == undo[i].file
           e == [at |-> i, text |-> Normalize[undo[i].snap]]
<1>4. g \in Files /\ undo[i].snap \in Content
    BY <1>2, <1>3 DEF UndoPatchRecord
<1>5. i \in Eligible(g) /\ \A j \in Eligible(g) : j <= i
  <2>1. Eligible(g) \subseteq Eligible(filter)
      BY <1>2, <1>4, UndoAssumption DEF Eligible
  <2> QED BY <1>1, <1>2, <2>1 DEF Eligible
<1>6. /\ Len(undo') = Len(undo)
      /\ \A j \in 1..Len(undo) :
           /\ undo'[j].snap = undo[j].snap
           /\ undo'[j].file = undo[j].file
           /\ undo'[j].reverted = (undo[j].reverted \/ j = i)
  <2>1. undo' = [undo EXCEPT ![i] = [undo[i] EXCEPT !.reverted = TRUE]]
      BY <1>1 DEF Revert
  <2>2. undo \in [1..Len(undo) -> UndoPatchRecord] /\ Len(undo) \in Nat
      BY LenProperties DEF TypeOK
  <2>3. Len(undo') = Len(undo)
      BY <2>1, <2>2
  <2> QED BY <1>2, <1>3, <2>1, <2>2, <2>3 DEF UndoPatchRecord
<1>7. ASSUME NEW f \in Files
      PROVE  Eligible(f)' = Eligible(f) \ {i}
  <2>1. Eligible(f)' = {j \in 1..Len(undo') :
                          ~ undo'[j].reverted /\ f \in {AnyFile, undo'[j].file}}
      BY DEF Eligible
  <2> QED BY <1>6, <2>1 DEF Eligible
<1> HIDE DEF e
<1>8. ASSUME NEW f \in Files
      PROVE  past'[f] = past[f] \ {e}
  <2> DEFINE Entry(j) == [at |-> j, text |-> Normalize[undo[j].snap]]
  <2>1. past[f] = {Entry(j) : j \in Eligible(f)}
      BY DEF past
  <2>2. past'[f] = {Entry(j) : j \in Eligible(f) \ {i}}
    <3>1. past'[f] = {[at |-> j, text |-> Normalize[undo'[j].snap]] :
                        j \in Eligible(f)'}
        BY DEF past
    <3>2. \A j \in Eligible(f) \ {i} : undo'[j].snap = undo[j].snap
        BY <1>6 DEF Eligible
    <3> QED BY <1>7, <3>1, <3>2
  <2>3. \A j \in Eligible(f) : Entry(j) = e <=> j = i
      BY DEF e
  <2> HIDE DEF Entry
  <2> QED BY <2>1, <2>2, <2>3
<1>9. e \in past[g] /\ \A d \in past[g] : d.at <= e.at
    BY <1>4, <1>5 DEF past, e
<1>10. past' = [past EXCEPT ![g] = @ \ {e}]
  <2>1. ASSUME NEW f \in Files, f # g
        PROVE  past'[f] = past[f]
    <3>1. i \notin Eligible(f)
        BY <2>1, UndoAssumption DEF Eligible
    <3>2. e \notin past[f]
        BY <3>1 DEF past, e
    <3> QED BY <1>8, <3>2
  <2>2. past = [f \in Files |-> past[f]] /\ past' = [f \in Files |-> past'[f]]
      BY DEF past
  <2> QED BY <1>4, <1>8, <2>1, <2>2
<1>11. text' = [text EXCEPT ![g] = e.text]
  <2>1. disk' = [disk EXCEPT ![g] = undo[i].snap]
      BY <1>1 DEF Revert, Replace
  <2>2. /\ disk'[g] = undo[i].snap
        /\ \A f \in Files : f # g => disk'[f] = disk[f]
      BY <1>4, <2>1 DEF TypeOK, DiskType
  <2>3. text'[g] = e.text
      BY <1>4, <2>2, ContentAssumption DEF text, Exists, e
  <2>4. \A f \in Files : f # g => text'[f] = text[f]
      BY <2>2 DEF text, Exists
  <2>5. text = [f \in Files |-> text[f]] /\ text' = [f \in Files |-> text'[f]]
      BY DEF text
  <2> QED BY <1>4, <2>3, <2>4, <2>5
<1>12. answer' \in {"undone", "failed"}
    BY <1>1, OutcomeOf, AnswerIs DEF Revert, Fail
<1> HIDE DEF g
<1> QED BY <1>4, <1>9, <1>10, <1>11, <1>12 DEF Promised!Undo

(* The tools, one by one.                                                  *)
LEMMA ApplyKeepsJournal ==
    ASSUME TypeInv, Next, NEW p \in PatchIds, apply_patch(p)
    PROVE  [Promised!Next]_Promised!state
<1> USE DEF TypeInv
<1>1. ASSUME NEW verify \in BOOLEAN, ApplySucceeds(p, verify)
      PROVE  Promised!Next
  <2>1. reply'.out = "applied"
      BY <1>1, OutcomeOf DEF ApplySucceeds
  <2>2. \A f \in Files : Pushes(f) /\ (SameText(f) \/ Swaps(f))
      BY <1>1, ApplyPushes, ApplySwaps
  <2> QED BY <2>1, <2>2, AnswerIs, OffersKept, JournalEdits DEF Promised!Next
<1>2. CASE ApplyAbandoned(p)
  <2>1. reply'.out = "E_INTERNAL_ERROR" /\ undo' = undo
      BY <1>2, OutcomeOf DEF ApplyAbandoned, Fail
  <2>2. \A f \in Files : SameText(f) \/ Swaps(f)
      BY ApplySwaps
  <2>3. \A f \in Files : \E recs \in Seq(UndoPatchRecord) : Extends(f, recs)
      BY <2>1, QuietExtends
  <2> QED BY <2>1, <2>2, <2>3, AnswerIs, OffersKept, JournalFails
      DEF Promised!Next
<1>3. CASE ApplyRollsBack(p)
  <2>1. reply'.out \in RestoringCodes /\ reply'.out # "ok" /\ undo' = undo
      BY <1>3, OutcomeOf DEF ApplyRollsBack, Fail, RestoringCodes
  <2>2. \A f \in Files : SameText(f)
      BY <2>1, ApplyRefused
  <2> QED BY <2>1, <2>2, OffersKept, JournalStutters
<1>4. CASE PatchUnavailable(p) \/ PatchAlreadyApplied(p) \/ ApplyRejected(p)
  <2>1. disk' = disk /\ undo' = undo
      BY <1>4 DEF PatchUnavailable, PatchAlreadyApplied, ApplyRejected
  <2>2. reply'.out # "ok"
    <3>1. GetError(p) \in {"E_PATCH_NOT_FOUND", "E_PATCH_EXPIRED", "none"}
        BY GetErrorCases
    <3> QED BY <1>4, <3>1, OutcomeOf
        DEF PatchUnavailable, GetFails, PatchAlreadyApplied, ApplyRejected, Fail
  <2> QED BY <2>1, <2>2, SameContent, OffersKept, JournalStutters
<1> QED BY <1>1, <1>2, <1>3, <1>4 DEF apply_patch

LEMMA CommitKeepsJournal ==
    ASSUME TypeInv, Next, NEW t \in TxIds, commit_transaction(t)
    PROVE  [Promised!Next]_Promised!state
<1> USE DEF TypeInv
<1>0. \A f \in Files : SameText(f) \/ Swaps(f)
    BY CommitSwaps
<1>1. ASSUME NEW verify \in BOOLEAN, CommitSucceeds(t, verify)
      PROVE  Promised!Next
  <2>1. reply'.out = "committed"
      BY <1>1, OutcomeOf DEF CommitSucceeds
  <2>2. \A f \in Files : Pushes(f)
      BY <1>1, CommitPushes
  <2> QED BY <1>0, <2>1, <2>2, AnswerIs, OffersKept, JournalEdits
      DEF Promised!Next
<1>2. ASSUME NEW verify \in BOOLEAN, CommitMarkRaises(t, verify)
      PROVE  Promised!Next
  <2>1. Active(t) /\ CasPasses /\ Count \in Nat
      BY <1>2, ActiveType DEF CommitMarkRaises
  <2>2. PICK k \in 1..Count :
          /\ MarkError(Staged(k)) # "none"
          /\ undo' = undo \o Records(k)
          /\ Fail("commit_transaction", MarkError(Staged(k)))
      BY <1>2 DEF CommitMarkRaises
  <2>3. k \in 0..Count
      BY <2>1
  <2>4. reply'.op = "commit_transaction" /\ reply'.out \in LateCodes
    <3>1. Staged(k) \in PatchIds
        BY <2>1, StagedType
    <3>2. MarkError(Staged(k)) \in LateCodes
        BY <2>2, <3>1, MarkErrorCases DEF LateCodes
    <3> QED BY <2>2, <3>2, OutcomeOf DEF Fail
  <2>5. ASSUME NEW f \in Files
        PROVE  \E recs \in Seq(UndoPatchRecord) : Extends(f, recs)
    <3> HIDE DEF Records
    <3> QED BY <2>1, <2>2, <2>3, BatchExtends
  <2>6. reply'.out # "ok"
      BY <2>4 DEF LateCodes
  <2> QED BY <1>0, <2>4, <2>5, <2>6, AnswerIs, OffersKept, JournalFails
      DEF Promised!Next
<1>3. ASSUME NEW verify \in BOOLEAN, CommitRollsBack(t, verify)
      PROVE  UNCHANGED Promised!state
  <2>1. undo' = undo /\ reply'.out # "ok"
      BY <1>3, OutcomeOf DEF CommitRollsBack, Fail
  <2>2. \A f \in Files : SameText(f)
      BY <1>3, RollbackRestores DEF CommitRollsBack
  <2> QED BY <2>1, <2>2, OffersKept, JournalStutters
<1>4. ASSUME NEW verify \in BOOLEAN, CommitRollbackRaises(t, verify)
      PROVE  Promised!Next
  <2>1. undo' = undo /\ reply'.out = "E_INTERNAL_ERROR"
      BY <1>4, OutcomeOf DEF CommitRollbackRaises, Fail
  <2>2. \A f \in Files : \E recs \in Seq(UndoPatchRecord) : Extends(f, recs)
      BY <2>1, QuietExtends
  <2> QED BY <1>0, <2>1, <2>2, AnswerIs, OffersKept, JournalFails
      DEF Promised!Next
<1>5. CASE \/ CommitRejected(t)
           \/ /\ TxNotFound("commit_transaction", t)
              /\ UNCHANGED <<disk, patches, undo>>
  <2>1. disk' = disk /\ undo' = undo /\ patches' = patches
      BY <1>5 DEF CommitRejected
  <2>2. offers' = offers
      BY <2>1 DEF offers, Known
  <2> QED BY <2>1, <2>2, SameContent, JournalStutters
<1>6. CASE \E verify \in BOOLEAN :
              \/ CommitSucceeds(t, verify)
              \/ CommitMarkRaises(t, verify)
              \/ CommitRollsBack(t, verify)
              \/ CommitRollbackRaises(t, verify)
    BY <1>1, <1>2, <1>3, <1>4, <1>6
<1> QED BY <1>5, <1>6 DEF commit_transaction

LEMMA OthersKeepJournal ==
    ASSUME TypeInv, NEW g \in Files, ExternalEdit(g), UNCHANGED <<patches, undo>>
    PROVE  Promised!Next
<1> USE DEF TypeInv
<1>1. answer' = "none"
    BY OutcomeOf, AnswerIs DEF ExternalEdit, NoReply
<1>2. offers' = offers /\ past' = past
    BY DEF offers, past, Known, Eligible
<1>3. \A f \in Files \ {g} : text'[f] = text[f]
  <2>1. \A f \in Files \ {g} : disk'[f] = disk[f]
      BY DEF ExternalEdit, Replace, TypeOK, DiskType
  <2> QED BY <2>1 DEF text, Exists
<1> QED BY <1>1, <1>2, <1>3 DEF Promised!Next, Promised!Outside

LEMMA JournalStep ==
    ASSUME TypeInv, Next, \A path \in Paths : ~ path.abs
    PROVE  [Promised!Next]_Promised!state
<1> USE DEF TypeInv
<1>1. ASSUME NEW p \in PatchIds, NEW path \in Paths, NEW new \in Content,
             Proposes(p, path, new)
      PROVE  Promised!Next
    BY <1>1, OffersGrow DEF Promised!Next
<1>2. ASSUME disk' = disk, undo' = undo, patches' = patches
      PROVE  UNCHANGED Promised!state
  <2>1. offers' = offers
      BY <1>2 DEF offers, Known
  <2> QED BY <1>2, <2>1, SameContent, JournalStutters
<1>3. ASSUME NEW p \in PatchIds, NEW t \in TxIds, apply_patch_tx(p, t)
      PROVE  disk' = disk /\ undo' = undo /\ patches' = patches
  <2>1. CASE Pending(p) /\ (StagePatch(p, t) \/ StageRaises(p, t))
    <3>1. patches[p].path \in Paths
        BY <2>1, GetErrorCases, KnownType DEF Pending, PatchProposal
    <3> QED BY <1>3, <2>1, <3>1
        DEF apply_patch_tx, StagePatch, StageRaises, TxNotFound
  <2> QED BY <1>3, <2>1 DEF apply_patch_tx
<1>4. ASSUME NEW filter \in Files \cup {AnyFile}, undo_last(filter)
      PROVE  [Promised!Next]_Promised!state
  <2>1. patches' = patches
      BY <1>4 DEF undo_last
  <2>2. offers' = offers
      BY <2>1 DEF offers, Known
  <2>3. CASE UndoReverts(filter)
      BY <2>2, <2>3, JournalUndoes DEF Promised!Next
  <2>4. CASE UndoFails(filter)
      BY <1>2, <2>1, <2>4 DEF UndoFails
  <2> QED BY <1>4, <2>3, <2>4 DEF undo_last
<1>5. CASE Tick
  <2>1. disk' = disk /\ undo' = undo /\ reply'.out # "ok"
      BY <1>5, OutcomeOf DEF Tick, NoReply
  <2> QED BY <2>1, SameContent, OffersKept, JournalStutters
<1> QED BY <1>1, <1>2, <1>3, <1>4, <1>5, ApplyKeepsJournal,
           CommitKeepsJournal, OthersKeepJournal
    DEF Next, propose_edit, propose_line_edit, ProposeRejected, Begin,
        Rollback, Environment

(* The engine implements the journal: whatever calls clients make, others  *)
(* edit and raises, and however long the batches, a client that knows only *)
(* texts, proposals and what can be undone sees nothing else happen.       *)
THEOREM EngineKeepsJournal ==
    ASSUME \A path \in Paths : ~ path.abs
    PROVE  Spec => KeepsJournal
<1>1. Init => Promised!Init
  <2> SUFFICES ASSUME Init
               PROVE  Promised!Init
      OBVIOUS
  <2>1. text \in [Files -> Content]
      BY ContentAssumption DEF Init, text, Exists
  <2>2. offers = {}
      BY DEF Init, offers, Known
  <2>3. past = [f \in Files |-> {}]
      BY EmptySeq DEF Init, past, Eligible
  <2>4. answer = "none"
    <3>1. reply.out = "none"
        BY DEF Init, NoReply, Answer
    <3> QED BY <3>1 DEF answer, LateCodes
  <2> QED BY <2>1, <2>2, <2>3, <2>4 DEF Promised!Init
<1>2. TypeInv /\ [Next]_vars => [Promised!Next]_Promised!state
  <2>1. ASSUME vars' = vars
        PROVE  UNCHANGED Promised!state
      BY <2>1
      DEF vars, Promised!state, text, offers, past, Exists, Known, Eligible
  <2> QED BY <2>1, JournalStep
<1>3. Spec => []TypeInv
    BY TypeCorrect, PTL DEF TypeInv
<1> QED BY <1>1, <1>2, <1>3, PTL DEF Spec, KeepsJournal, Promised!Spec

=============================================================================
