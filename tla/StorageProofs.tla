--------------------------- MODULE StorageProofs ----------------------------
(***************************************************************************)
(* An atomic write is atomic, for any number of processes and any          *)
(* contents: what is proved of Storage.                                    *)
(***************************************************************************)
EXTENDS Storage, TLAPS

LEMMA InitNeverTorn == Init => NeverTorn
  BY StorageAssumption DEF Init, NeverTorn, TypeOK, File, NoFile, FileType, Contents, Whole

LEMMA StepNeverTorn ==
    ASSUME NeverTorn, NEW w \in Writers, Step(w)
    PROVE  NeverTorn'
<1> USE StorageAssumption DEF NeverTorn, TypeOK, File, NoFile, FileType, Contents, Whole,
        Goto, Temporary
<1>1. CASE WriteAndFlush(w)  BY <1>1 DEF WriteAndFlush
<1>2. CASE Fsync(w)          BY <1>2 DEF Fsync
<1>3. CASE Replace(w)        BY <1>3 DEF Replace
<1>4. CASE Raise(w)          BY <1>4 DEF Raise
<1>5. CASE Finally(w)        BY <1>5 DEF Finally
<1> QED BY <1>1, <1>2, <1>3, <1>4, <1>5 DEF Step

LEMMA NextNeverTorn == NeverTorn /\ [Next]_vars => NeverTorn'
<1> SUFFICES ASSUME NeverTorn, [Next]_vars PROVE NeverTorn'
  OBVIOUS
<1>1. ASSUME NEW w \in Writers, Step(w) PROVE NeverTorn'
  BY <1>1, StepNeverTorn
<1> USE StorageAssumption DEF NeverTorn, TypeOK, File, NoFile, FileType, Contents, Whole,
        Goto, Temporary
<1>2. ASSUME NEW w \in Writers, Kill(w) PROVE NeverTorn'
  BY <1>2 DEF Kill
<1>3. ASSUME NEW w \in Writers, NEW c \in Content, Open(w, c) PROVE NeverTorn'
  BY <1>3 DEF Open
<1>4. CASE WriteBack
  BY <1>4 DEF WriteBack
<1>5. CASE PowerLoss
  BY <1>5 DEF PowerLoss
<1>6. CASE UNCHANGED vars
  BY <1>6 DEF vars
<1> QED BY <1>1, <1>2, <1>3, <1>4, <1>5, <1>6 DEF Next

(* Types, and nothing half-written under the target's name.                *)
THEOREM NothingTorn == Spec => []NeverTorn
<1> QED BY InitNeverTorn, NextNeverTorn, PTL DEF Spec

LEMMA InitRefines == Init => Abstract!Init
  BY DEF Init, File, Abstract!Init

(* os.replace is the write: every other step of a call is invisible.       *)
LEMMA StepRefines ==
    ASSUME NeverTorn, NEW w \in Writers, Step(w)
    PROVE  [Abstract!Next]_<<target.seen, stable>>
<1>1. CASE Replace(w)
  <2>1. job[w] \in Content /\ target'.seen = job[w] /\ stable' = stable
    BY <1>1 DEF Replace, NeverTorn, TypeOK, File
  <2>2. Abstract!Put(job[w])
    BY <2>1 DEF Abstract!Put
  <2> QED BY <2>1, <2>2 DEF Abstract!Next
<1>2. CASE ~ Replace(w)
  BY <1>2 DEF Step, WriteAndFlush, Fsync, Raise, Finally
<1> QED BY <1>1, <1>2

LEMMA NextRefines == NeverTorn /\ [Next]_vars => [Abstract!Next]_<<target.seen, stable>>
<1> SUFFICES ASSUME NeverTorn, [Next]_vars PROVE [Abstract!Next]_<<target.seen, stable>>
  OBVIOUS
<1>1. ASSUME NEW w \in Writers, Step(w) PROVE [Abstract!Next]_<<target.seen, stable>>
  BY <1>1, StepRefines
<1>2. ASSUME NEW w \in Writers, Kill(w) PROVE [Abstract!Next]_<<target.seen, stable>>
  BY <1>2 DEF Kill
<1>3. ASSUME NEW w \in Writers, NEW c \in Content, Open(w, c)
      PROVE  [Abstract!Next]_<<target.seen, stable>>
  BY <1>3 DEF Open
<1>4. CASE WriteBack
  BY <1>4 DEF WriteBack, NeverTorn, Abstract!Next, Abstract!WriteBack
<1>5. CASE PowerLoss
  BY <1>5 DEF PowerLoss, File, Abstract!Next, Abstract!PowerLoss
<1>6. CASE UNCHANGED vars
  BY <1>6 DEF vars
<1> QED BY <1>1, <1>2, <1>3, <1>4, <1>5, <1>6 DEF Next

(* A reader sees the old content or a new one, whole, whatever writers,    *)
(* kills and power losses do; a power loss brings back a whole one.        *)
THEOREM WritesAreAtomic == Spec => IsAtomicFile
<1>1. Spec => []NeverTorn
  BY NothingTorn
<1> QED BY <1>1, InitRefines, NextRefines, PTL DEF Spec, IsAtomicFile, Abstract!Spec
=============================================================================
