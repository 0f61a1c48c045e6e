----------------------------- MODULE Workspace ------------------------------
(***************************************************************************)
(* The working tree a CEMP server edits, what the server reads and writes  *)
(* of it, and the answer of the last tool call.  core/hasher.py,           *)
(* core/storage.py and verification/ appear as the operators the handlers  *)
(* call; other programs edit the same tree at any time between two calls.  *)
(*                                                                         *)
(* A content is the byte string of a file.  A text is the content it has   *)
(* when written out, so Normalize (decode, then convert line endings) maps *)
(* contents to contents, and a SHA-256 digest of a normalised text is that *)
(* text: two digests are equal exactly when the normalised texts are.      *)
(***************************************************************************)
EXTENDS Naturals, Sequences

CONSTANTS
    Files,      \* the regular files of the workspace
    Content,    \* the byte strings a file can hold
    Missing,    \* what a path holds when there is no file
    Normalize,  \* read_text + normalize_line_endings, Content -> Content
    GitClean,   \* the bytes git gives back for a content it was handed
    Checked,    \* the files whose suffix has a syntax checker
    Broken,     \* the contents that checker rejects
    Foreign,    \* what other programs leave in a file
    Faults      \* whether a write, git or a checker can raise

ASSUME ContentAssumption ==
    /\ Missing \notin Content
    /\ Checked \subseteq Files
    /\ Broken \subseteq Content
    /\ Foreign \subseteq Content \cup {Missing}
    /\ Faults \in BOOLEAN
    /\ Normalize \in [Content -> Content]
    /\ \A c \in Content : Normalize[Normalize[c]] = Normalize[c]

\* `git hash-object -w <path>` may convert line endings (core.autocrlf) and
\* converts nothing else; outside a git tree GitClean is the identity.
ASSUME GitAssumption ==
    /\ GitClean \in [Content -> Content]
    /\ \A c \in Content : Normalize[GitClean[c]] = Normalize[c]

VARIABLES
    disk,       \* file -> content, or Missing
    reply       \* the answer of the last step's tool call

DiskType == [Files -> Content \cup {Missing}]

(***************************************************************************)
(* Answers.  "ids" names the patches a successful call was about.  Of the  *)
(* error codes the protocol reserves, these are the ones a handler raises  *)
(* (or make_cemp_tool, for an exception that is no CEMPError).             *)
(***************************************************************************)
Tools == {"propose", "apply_patch", "undo_last", "begin_transaction",
          "commit_transaction", "rollback_transaction", "none"}
CEMPErrorCode ==
    {"E_NO_MATCH", "E_OCCURRENCE_MISMATCH", "E_INVALID_RANGE", "E_STALE_HASH",
     "E_FILE_MODIFIED", "E_PATCH_NOT_FOUND", "E_PATCH_EXPIRED",
     "E_PATCH_ALREADY_APPLIED", "E_TRANSACTION_NOT_FOUND",
     "E_TRANSACTION_ACTIVE", "E_SYNTAX_ERROR", "E_ROLLBACK_TRIGGERED",
     "E_FILE_NOT_FOUND", "E_UNDO_UNAVAILABLE", "E_INTERNAL_ERROR"}
Outcomes == CEMPErrorCode \cup {"ok", "applied", "staged", "open", "committed",
                                "rolled_back", "reverted", "none"}

Answer(op, out, ids) == [op |-> op, out |-> out, ids |-> ids]
NoReply == Answer("none", "none", {})
Fail(op, code) == reply' = Answer(op, code, {})

(***************************************************************************)
(* Reading: resolve_workspace_path(must_exist) and compute_content_hash.   *)
(***************************************************************************)
Exists(f) == disk[f] # Missing
\* Seeded fault: the digest is taken of the raw bytes.
hash_raw_bytes(c) == c

compute_content_hash(c) == Normalize[c]
HashMatches(f, hash) == compute_content_hash(disk[f]) = hash

\* VerificationRegistry.check: dispatch on the suffix, pass what has no checker.
Passes(d, f) == f \in Checked => d[f] \notin Broken

\* A checker that cannot run answers that the file is invalid, or raises.
CheckFails(f) == Faults /\ f \in Checked

(***************************************************************************)
(* Writing.  Each atomic_write_* replaces one file.  Overwrite is the tree *)
(* after the first k of a sequence of such writes, in order: the last      *)
(* write to a file is the one that stays.                                  *)
(***************************************************************************)
LastFor(f, target, i, k) ==
    target[i] = f /\ \A j \in 1..k : j > i => target[j] # f

Overwrite(d, target, content, k) ==
    [f \in Files |->
        IF \E i \in 1..k : LastFor(f, target, i, k)
        THEN content[CHOOSE i \in 1..k : LastFor(f, target, i, k)]
        ELSE d[f]]

Replace(f, c) == [disk EXCEPT ![f] = c]

(***************************************************************************)
(* Somebody else (an editor, a formatter, a build) changes or deletes a    *)
(* file.                                                                   *)
(***************************************************************************)
ExternalEdit(f) ==
    /\ \E c \in Foreign \ {disk[f]} : disk' = Replace(f, c)
    /\ reply' = NoReply
=============================================================================
