----------------------------- MODULE MCStorage ------------------------------
(***************************************************************************)
(* Two server processes write one file of two possible contents.           *)
(***************************************************************************)
EXTENDS Storage
=============================================================================
