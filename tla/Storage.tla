------------------------------ MODULE Storage ------------------------------
(***************************************************************************)
(* core/storage.py: atomic_write_file and atomic_write_bytes, one system   *)
(* call at a time.  Server processes over one tree may write the same      *)
(* target at once, each through a temporary sibling with a fresh uuid in   *)
(* its name.  A file has what readers see and what the medium holds.       *)
(* A process may be killed, or the machine lose power, between any two     *)
(* calls; file data reach the medium only by fsync, names in their own     *)
(* time, since the directory is never synced.                              *)
(***************************************************************************)
CONSTANTS
    Writers,    \* the server processes
    Content,    \* what they write, whole
    Missing,    \* no file
    Torn        \* created, and not holding all of its content

ASSUME StorageAssumption == Torn \notin Content /\ Missing \notin Content

VARIABLES
    pc,         \* what each process does next
    job,        \* the content each process was asked to write
    target,     \* the file under its name: seen by readers, stored
    tmp,        \* each process's temporary sibling
    stable      \* what the target's name on the medium leads to

vars == <<pc, job, target, tmp, stable>>

File(seen, stored) == [seen |-> seen, stored |-> stored]
NoFile == File(Missing, Missing)
Whole == Content \cup {Missing}
Contents == Whole \cup {Torn}
FileType == [seen : Contents, stored : Contents]

TypeOK ==
    /\ pc \in [Writers -> {"idle", "write", "fsync", "replace", "finally"}]
    /\ job \in [Writers -> Content]
    /\ target \in FileType
    /\ tmp \in [Writers -> FileType]
    /\ stable \in Contents

Init ==
    /\ pc = [w \in Writers |-> "idle"]
    /\ job \in [Writers -> Content]
    /\ \E c \in Content \cup {Missing} : target = File(c, c) /\ stable = c
    /\ tmp = [w \in Writers |-> NoFile]

Goto(w, next) == pc' = [pc EXCEPT ![w] = next]
Temporary(w, f) == tmp' = [tmp EXCEPT ![w] = f]

-----------------------------------------------------------------------------
(* The call, in program order.  Any system call may raise instead, which   *)
(* leads to the finally clause.                                            *)

\* Seeded fault: the target itself is opened for writing.
OpenInPlace(w, c) ==
    /\ pc[w] = "idle"
    /\ job' = [job EXCEPT ![w] = c]
    /\ target' = [target EXCEPT !.seen = Torn]
    /\ Temporary(w, File(Torn, Torn)) /\ Goto(w, "write")
    /\ UNCHANGED stable

Open(w, c) ==
    /\ pc[w] = "idle"
    /\ job' = [job EXCEPT ![w] = c]
    /\ Temporary(w, File(Torn, Torn)) /\ Goto(w, "write")
    /\ UNCHANGED <<target, stable>>

WriteAndFlush(w) ==
    /\ pc[w] = "write"
    /\ Temporary(w, [tmp[w] EXCEPT !.seen = job[w]]) /\ Goto(w, "fsync")
    /\ UNCHANGED <<job, target, stable>>

\* Seeded fault: flush without fsync.
NoFsync(w) ==
    /\ pc[w] = "fsync"
    /\ Goto(w, "replace")
    /\ UNCHANGED <<job, target, tmp, stable>>

Fsync(w) ==
    /\ pc[w] = "fsync"
    /\ Temporary(w, [tmp[w] EXCEPT !.stored = tmp[w].seen])
    /\ Goto(w, "replace")
    /\ UNCHANGED <<job, target, stable>>

Replace(w) ==
    /\ pc[w] = "replace"
    /\ target' = tmp[w]
    /\ Temporary(w, NoFile) /\ Goto(w, "finally")
    /\ UNCHANGED <<job, stable>>

\* Seeded fault: a failed write is tried again.
RaiseRetries(w) ==
    /\ pc[w] \in {"fsync", "replace"}
    /\ Goto(w, "write")
    /\ UNCHANGED <<job, target, tmp, stable>>

Raise(w) ==
    /\ pc[w] \in {"write", "fsync", "replace"}
    /\ Goto(w, "finally")
    /\ UNCHANGED <<job, target, tmp, stable>>

\* Remove the temporary file if it exists.  An error of unlink is swallowed:
\* the call is over and the file stays, under a name no call uses again.
Finally(w) ==
    /\ pc[w] = "finally"
    /\ Temporary(w, NoFile) /\ Goto(w, "idle")
    /\ UNCHANGED <<job, target, stable>>

Step(w) == WriteAndFlush(w) \/ Fsync(w) \/ Replace(w) \/ Raise(w) \/ Finally(w)

-----------------------------------------------------------------------------
(* A killed process leaves its temporary file behind, as does a failed     *)
(* unlink; a later call never finds it.                                    *)
Kill(w) ==
    /\ pc[w] # "idle"
    /\ Temporary(w, NoFile) /\ Goto(w, "idle")
    /\ UNCHANGED <<job, target, stable>>

WriteBack ==
    /\ stable' = target.stored
    /\ UNCHANGED <<pc, job, target, tmp>>

PowerLoss ==
    /\ target' = File(stable, stable)
    /\ tmp' = [w \in Writers |-> NoFile]
    /\ pc' = [w \in Writers |-> "idle"]
    /\ UNCHANGED <<job, stable>>

Next ==
    \/ \E w \in Writers : Step(w) \/ Kill(w) \/ \E c \in Content : Open(w, c)
    \/ WriteBack
    \/ PowerLoss

Fairness == \A w \in Writers : WF_vars(Step(w))

Spec == Init /\ [][Next]_vars /\ Fairness

-----------------------------------------------------------------------------
(* The refinement: one system call, os.replace, is the whole write.        *)
Abstract == INSTANCE AtomicFile WITH file <- target.seen

(* Every write, kill and power loss is a step of the atomic file or none.  *)
IsAtomicFile == Abstract!Spec

(* A temporary file is whole before it can take the target's name, in the  *)
(* cache and on the medium; so is the target, and what a power loss leaves.*)
NeverTorn ==
    /\ TypeOK
    /\ target.seen \in Whole /\ target.stored = target.seen
    /\ stable \in Whole
    /\ \A w \in Writers :
         /\ pc[w] = "fsync" => tmp[w].seen = job[w]
         /\ pc[w] = "replace" => tmp[w] = File(job[w], job[w])

(* Every call that is not killed returns or raises.                        *)
CallsEnd == \A w \in Writers : pc[w] # "idle" ~> pc[w] = "idle"
=============================================================================
