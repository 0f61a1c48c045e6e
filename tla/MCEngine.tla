------------------------------ MODULE MCEngine ------------------------------
(***************************************************************************)
(* Instances of the engine for TLC.                                        *)
(***************************************************************************)
EXTENDS EngineProperties, TLC

CONSTANTS f1, f2, a, b, c, aCR, p1, p2, p3, t1, t2

Relative(F) == [file : F, abs : {FALSE}]
RelPaths == Relative(Files)
MixedPaths == Relative({f1}) \cup [file : {f2}, abs : {TRUE}]
AbsPaths == [file : Files, abs : BOOLEAN]

Same == [x \in Content |-> x]
\* aCR is a with CRLF line endings.
LF == [x \in Content |-> IF x = aCR THEN a ELSE x]

\* The next-state relation never reads reply, and no property checked under
\* this view reads it in the state before a step.
Core == <<disk, patches, undo, tx, begun, stagingDirs>>

Symmetry == Permutations(PatchIds) \cup Permutations(TxIds)
\* When no file has a checker and no content has line endings to convert.
AllAlike == Symmetry \cup Permutations(Files) \cup Permutations(Content)
=============================================================================
