----------------------------- MODULE PatchCache -----------------------------
(***************************************************************************)
(* core/patch_cache.py: proposals by patch_id, each with a time to live.   *)
(* The clock is an age per proposal that stops one past the TTL: is_expired*)
(* asks only whether the age is greater than the TTL.  prune_expired and   *)
(* clear have no caller in the server, so a proposal is never removed.     *)
(***************************************************************************)
EXTENDS Workspace

CONSTANTS
    PatchIds,   \* the uuids the server can hand out
    Paths,      \* file names as a client may spell them
    NoPatch,    \* an id not handed out yet
    PatchTTL

VARIABLE patches

Status == {"pending", "applied", "expired"}
PatchProposal == [path : Paths, base : Content, new : Content,
                  age : 0..(PatchTTL + 1), status : Status]
PatchesType == [PatchIds -> PatchProposal \cup {NoPatch}]

\* A path is relative to the workspace root or absolute; both resolve.
ASSUME PatchAssumption ==
    /\ Paths \subseteq [file : Files, abs : BOOLEAN]
    /\ PatchTTL \in Nat
    /\ NoPatch \notin PatchProposal

Known(p) == patches[p] # NoPatch
is_expired(p) == patches[p].age > PatchTTL
FileOf(p) == patches[p].path.file

\* PatchCache.store under a fresh uuid.
store(p, path, base, new) ==
    /\ ~ Known(p)
    /\ patches' = [patches EXCEPT ![p] =
           [path |-> path, base |-> base, new |-> new,
            age |-> 0, status |-> "pending"]]

\* Seeded fault: get treats a proposal as expired one tick early.
GetErrorEarly(p) ==
    CASE ~ Known(p) -> "E_PATCH_NOT_FOUND"
      [] Known(p) /\ patches[p].age >= PatchTTL -> "E_PATCH_EXPIRED"
      [] OTHER -> "none"

\* The error PatchCache.get raises, and the status it leaves behind.
GetError(p) ==
    CASE ~ Known(p) -> "E_PATCH_NOT_FOUND"
      [] Known(p) /\ is_expired(p) -> "E_PATCH_EXPIRED"
      [] OTHER -> "none"

GetFails(op, p) ==
    /\ GetError(p) # "none"
    /\ patches' = IF Known(p) THEN [patches EXCEPT ![p].status = "expired"]
                              ELSE patches
    /\ Fail(op, GetError(p))

\* The error PatchCache.mark_applied raises for a known patch.
MarkError(p) ==
    CASE is_expired(p) -> "E_PATCH_EXPIRED"
      [] ~ is_expired(p) /\ patches[p].status = "applied" ->
             "E_PATCH_ALREADY_APPLIED"
      [] OTHER -> "none"

\* mark_applied on every patch of a set that it accepts.
MarkApplied(S) ==
    [p \in PatchIds |-> IF p \in S THEN [patches[p] EXCEPT !.status = "applied"]
                                   ELSE patches[p]]

Older(age, ttl) == IF age > ttl THEN age ELSE age + 1

AgePatches ==
    patches' = [p \in PatchIds |->
        IF Known(p) THEN [patches[p] EXCEPT !.age = Older(@, PatchTTL)]
                    ELSE NoPatch]
=============================================================================
