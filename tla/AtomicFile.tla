---------------------------- MODULE AtomicFile -----------------------------
(***************************************************************************)
(* What the engine relies on when it writes a file: a reader sees the old  *)
(* content or a new one, whole, and a power loss brings back one that was  *)
(* there whole before.                                                     *)
(***************************************************************************)
CONSTANTS Content, Missing

VARIABLES
    file,   \* what a reader finds
    stable  \* what a power loss would leave

Init == file \in Content \cup {Missing} /\ stable = file

Put(c) == file' = c /\ UNCHANGED stable
WriteBack == stable' = file /\ UNCHANGED file
PowerLoss == file' = stable /\ UNCHANGED stable

Next == (\E c \in Content : Put(c)) \/ WriteBack \/ PowerLoss

Spec == Init /\ [][Next]_<<file, stable>>
=============================================================================
