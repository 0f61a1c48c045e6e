# A TLA+ model of the CEMP reference server

CEMP is a code-editing protocol for agents: a client reads files with their
digests, *proposes* an edit (nothing is written), then *applies* the proposal
under a compare-and-swap on the digest, alone or batched in a *transaction*,
with a syntax check after the write and a rollback when it fails, and can
*undo*. This directory models the Python reference implementation
(`src/implementations/python`), checks the model with TLC and proves its main
guarantees with TLAPS.

## 1. The system

### Components

| Component | State | Operations that change it | What makes it correct |
|---|---|---|---|
| Patch cache `core/patch_cache.py` | `patch_id` -> proposal: path, base digest, new text, creation time, status | `store`, `get` (may set EXPIRED), `mark_applied` | a status tells the truth about the disk and the clock |
| Proposals `core/proposals.py` | none | `propose_edit`, `propose_line_edit` (through `store`) | the base is the digest of the text the edit was computed from, and the new text differs from it where the client asked and nowhere else |
| Engine `core/engine.py` | the cache singleton | `apply_patch`, and delegation | an answer tells the truth about the tree |
| Transactions `core/transactions.py` | the one active transaction, its staged patches, its staging directory | begin, stage, commit (five phases), rollback, lazy expiry | all or nothing; nothing written before commit; directories cleaned |
| Undo `core/git_undo.py` | a stack of records with snapshots | `snapshot`, `rollback`, `record_applied`, `undo_last` | last in first out per file, and back to the first text |
| Storage `core/storage.py` | the target and a temporary sibling | `atomic_write_file`, `atomic_write_bytes` | a reader, or a reboot, finds a whole old or a whole new file |
| Hashes `core/hasher.py` | none | pure | equal digests exactly for equal normalised texts |
| Paths `core/workspace.py` | none (environment) | pure | every path used is inside the root and not protected |
| Verification `verification/` | none | runs a checker on the file on disk | a broken file is never left after a successful answer |
| Inspection `core/inspection.py` | none | pure reads | a line number means the same line to every tool |
| Server `server.py`, `server_helpers.py`, `errors/` | none | tool registration, exceptions to answers | any exception becomes an answer |

### How they interact

A tool call enters `server.py`, which calls `core/engine.py`. `apply_patch`
reads the proposal from the cache and either stages it in the transaction or
reads the file, compares digests, takes a snapshot (git), writes (storage),
checks (verification), restores the snapshot or records it on the undo stack,
and marks the proposal. `commit_transaction` does each of these phases for all
staged patches before the next phase. The components share three things: the
working tree, the proposal objects (a staged patch *is* the cache's proposal,
so its status and age go on changing while it is staged) and the undo stack.
Nothing calls back.

FastMCP runs these synchronous tools on its event loop, so calls of one server
do not overlap. What does interleave with calls, and with the steps of a call,
is the clock (two time-to-live rules, both noticed lazily), other programs
editing the tree, other server processes over the same tree, and whoever kills
the server. A restarted server has an empty cache, no undo stack and no
transaction.

### What is hard

* partial failure: every phase of a commit can raise, including the rollback
  of a failed commit and the marking after a successful one;
* one file with several patches in one batch;
* expiry of a proposal between staging and commit, after it was applied, or
  while its syntax check runs;
* undo with and without a path over a stack that failed commits also push to;
* files changed or deleted by others between any two steps of a call;
* a kill between two writes of a batch, or with a transaction open;
* line endings: digests ignore them, git may convert them, bytes have them;
* line numbers: four functions split, number, slice and join lines, each for
  itself;
* crash and power loss around a write.

`PROJECT.json` lists each hazard at the line where it bites, with the
properties about it, or why there is none.

## 2. Modules

| Module | Models | Variables |
|---|---|---|
| `Workspace` | the tree, digests, writes, checks, answers; edits by others | `disk`, `reply` |
| `PatchCache` | `core/patch_cache.py` | `patches` |
| `GitUndo` | `core/git_undo.py` | `undo` |
| `Transactions` | `core/transactions.py` | `tx`, `begun`, `stagingDirs` |
| `Engine` | `core/engine.py`, `core/proposals.py`, the composition: a tool call is one step | all of the above |
| `EngineProperties` | guarantees of `Engine`, and claims the code does not keep; `Journal` as its abstract specification | |
| `Journal` | what a client may rely on | `text`, `offers`, `past`, `answer` |
| `Steps` | `apply_patch`, `commit_transaction` and `undo_last` one access to the tree at a time; kills | those of `Engine`, and `call`, `start`, `raced`, `orphans` |
| `StepProperties` | guarantees of `Steps`; `Engine` as its abstract specification | |
| `AtomicFile` | what the engine relies on when it writes a file | `file`, `stable` |
| `Storage` | `core/storage.py`, one system call at a time | `pc`, `job`, `target`, `tmp`, `stable` |
| `TextEdit` | the text arithmetic of `core/hasher.py`, `core/inspection.py`, `core/proposals.py` | `text`, `answer` |
| `TextProperties` | what a client may rely on when it reads and edits by line | |
| `MCEngine`, `MCSteps`, `MCStorage`, `MCText` | instances for TLC | |
| `EngineProofs`, `UndoProofs` | theorems about `Engine` | |
| `StepProofs`, `BatchProofs`, `RefineProofs` | theorems about `Steps` | |
| `StorageProofs` | theorems about `Storage` | |
| `TextLemmas`, `TextProofs` | what the operators of `TextEdit` compute; theorems about `TextEdit` | |

`Workspace` <- `PatchCache` <- `GitUndo` <- `Transactions` <- `Engine` extend
each other as the Python modules import each other. There are four levels:

* `Engine` implements `Journal` when paths are relative. A client knows of a
  file its text, the texts proposed for it and those undo can give back; it
  does not know of batches, digests, checkers, expiry or staging.

* `Steps` implements `Engine` when nothing else happens while a call runs: the
  steps of a call are one step of `Engine`, taken when the call is answered.
* `Engine` writes a file in one step (`Workspace!Replace`). `Storage` justifies
  that: the system calls of a write implement `AtomicFile`.
* `Engine` takes any text as the outcome of an edit, a normalised one as the
  outcome of a line edit, any idempotent `Normalize`, and a `GitClean` that
  keeps the normalised text. `TextEdit` justifies the last three, by the
  theorems `LineEditIsNormalisedHolds`, `NormalizeTwice` and `CleanSameNormal`
  (the last for files where a carriage return is never alone).

### State and code

* `disk[f]` is the byte string of a file, or `Missing`. `Normalize` is
  `read_text` followed by `normalize_line_endings`; any idempotent function
  will do. A digest is represented by the normalised text itself.
* `GitClean[c]` is what `git cat-file` gives back for what `git hash-object`
  was handed: the bytes (no git, no autocrlf) or the bytes with other line
  endings. `hash-object -w <path>` also runs any clean filter the repository
  has set for the path (`ident`, LFS, `working-tree-encoding`), which may change
  the text; `GitAssumption` leaves such repositories out.
* `patches[p]` is the cache entry; `age` counts ticks since creation and stops
  one past the TTL, since the code only asks whether it is greater.
* `undo` is `_undo_stack`; `snap` the bytes the snapshot will restore.
* `tx` is `_active_transaction` (or `Closed`); `staged` the keys of
  `staged_patches` in dict order. `staged_files` is written and never read, and
  left out. `stagingDirs` is the set of transaction directories that exist.
* `reply` is the answer of the last step: the tool, the outcome (an error code
  or a status) and the patches it names. No action reads it.
* `text`, `offers`, `past` of `Journal` are, in `EngineProperties`, the
  normalised text of each file, the proposals the cache knows, and the
  snapshots of the records not yet reverted with their places in the stack;
  `answer` sorts the outcomes of `reply` by what they promise.
* `call` in `Steps` holds the locals of the running handler: the phase, the
  patches of the loop and the place in it (`at`), the snapshots, and how many
  writes were made (`len(applied_snapshots)` in the code). `start` is what the
  call found, `raced` the files others changed since, and `orphans` the staging
  directories of killed servers; these three are there for the properties.
* `text` in `TextEdit` is the file as characters, of which only the line breaks
  are told apart; `answer` is the last request with its answer.

In `Engine` one tool call is one step, with one action for each way out of the
handler: `apply_patch` is `PatchUnavailable`, `PatchAlreadyApplied`,
`ApplyRejected`, `ApplySucceeds`, `ApplyRollsBack`, `ApplyAbandoned`, or with a
transaction `StagePatch`, `StageRaises`, `TxNotFound`; `commit_transaction` is
`CommitRejected` (phases 1 and 2), `CommitRollsBack` and `CommitRollbackRaises`
(3 and 4, after `k` of the writes), `CommitMarkRaises` and `CommitSucceeds`
(5). A batch is a sequence of writes: `Overwrite(d, target, content, k)` is the
tree after the first `k`, where the last write to a file stays; so writes,
partial writes and partial restores of batches with repeated files are one
operator.

In `Steps` each of these is a path through `Compare`, `TakeSnapshot`, `Write`,
`Verify`, `Restore`, `Restored`, `Record`, `AnswerSuccess`, over a list of
patches; `apply_patch` has a list of one, and what a step raises is handled as
in that handler (`Raised`). `undo_last` is `RestoreRecord`, `AnswerUndo`. The
tools that touch the tree at most once remain actions of `Engine`
(`ShortCall`). The clock is read again when a patch is marked, so a proposal can
expire during its own syntax check. A file deleted in the middle of a call is
met as the code meets it: git cannot hash it and the snapshot is an empty one,
`node --check` rejects it, `py_compile` raises. A `node` that cannot be started
rejects the text it was to check (`node_checker.py:52`), so `CheckFails` can
end in a rollback of a good text as well as in an internal error.

When `Faults` is TRUE a read, a write, git and a checker can raise wherever
the code calls them. `Foreign` is what other programs may leave in a file.

Definitions introduced by a comment "Seeded fault" are faulty variants of the
definition after them. Nothing uses them; each is the variant under which a
property named in `PROJECT.json` ("mutants") fails, which shows that the
property depends on the code being as it is.

## 3. Runs

Files, contents, ids and characters are model values; the numbers are distinct
states, with these configurations.

| Run | Instance | Checks | States |
|---|---|---|---|
| `TwoFiles.cfg` | 2 files (one with a checker), 2 contents (one broken), 2 patches, 1 transaction, others write the good content or delete, faults | `TypeOK`, `RefusedLeavesText`, `SuccessIsUndoable`, `WritesReplaceBase`, `KeepsJournal`, `UndoIsLifoPerFile` | 330 968 |
| `OneFile.cfg` | 1 file, 3 contents of which one is another with CRLF, autocrlf, 2 patches, 2 transactions, others edit and delete, faults | `StagingFollowsTx`, `AppliedHasRecord`, `ExpiredIsFinal`, `StagedOnce`, `RefusedLeavesText`, `SuccessIsUndoable`, `WritesReplaceBase` | 650 343 |
| `UndoHistory.cfg` | 2 files, 3 patches, 1 transaction, no others, no faults, no checkers, under `RecordingSpec` | `UndoWalksBack` | 450 890 |
| `StepsAlone.cfg` | 2 files, 2 patches, 1 transaction, step by step, faults at each step, no others | `ImplementsEngine`, `EveryCallAnswered` | 242 468 |
| `StepsShared.cfg` | the same, with deletions, ticks and kills between any two steps, and staging under an absolute path | `StepTypeOK`, `BatchIsPrefix`, `PhasesInOrder`, `OnlyKillsLeaveStaging`, `RefusedLeavesUnraced`, `ChangesAreUndoable`, `UndoIsWhole`, `CallsRunOut` | 2 023 919 |
| `Text.cfg` | every text of up to 4 characters over one letter and three line breaks, 18 request strings, lines 0 to 5, 1 to 3 occurrences expected, less than no context, some, and more than the most there is | `LineEditKeepsOtherLines`, `WriteBackRespells`, `LineEditIsNormalised`, `EditIsPerLine`, `SearchAgrees` | 180 950 |
| `Storage.cfg` | 2 processes, 2 contents | `NeverTorn`, `IsAtomicFile`, `CallsEnd` | 1 726 |

What they show:

* `RefusedLeavesText`: an answer that says nothing was done, or all was rolled
  back, is true of every file, byte for byte: a file is as it was, or it was
  written and restored and has the bytes git makes of those it had.
* `SuccessIsUndoable`: after a success, undoing a changed file gives its bytes
  back, again as git keeps them, also when a batch has two patches of it.
* `WritesReplaceBase`: whatever the outcome, apply and commit change a file
  only where some patch was computed from exactly the text replaced.
* `StagingFollowsTx`, `StagedOnce`, `AppliedHasRecord`, `ExpiredIsFinal`: the
  three stores agree with each other and with the clock.
* `UndoIsLifoPerFile`: however undos with and without a path mix, each file's
  records are reverted in order, newest first.
* `KeepsJournal`: every step, whatever way a call ends, is one of five things
  or changes nothing a client knows of: a proposal is made of the text the file
  has; an edit replaces texts by what was proposed for them and records, of each
  file it touches, the text of before; a failure may have done any part of that;
  undo gives the newest text of some file back, and takes it off; somebody else
  edits. In particular a success has a record for every file it changed, no
  call but undo forgets one, and an answer that is neither a success nor an
  internal error (nor the commit of `PatchRefusal.cfg`) has changed neither the
  texts nor what can be undone. It holds the four action properties together;
  they are kept beside it because each says one thing, and because
  `WritesReplaceBase` speaks of bytes. A call that changes nothing may answer
  anything, "done" too: replacing a text by itself is a success.
* `UndoWalksBack`: through applies, commits (failed ones too) and undos with
  and without a path, undoing all that is left of a file gives back the text it
  had at first, whatever becomes of the files it shares batches with. It is
  false when others edit the file, and after a commit that fails in phase 5
  with files written and not yet recorded (`LeavesUnrecorded`; see
  `PatchRefusal.cfg`). `RecordingSpec` is `Spec` without such commits: one that
  fails after the last record of its files stays, and with one file that is
  every commit.
* `ImplementsEngine`: what is said of one-step calls holds of the handlers as
  written. `EveryCallAnswered`: each is answered, also when a restore raises
  while an exception is being handled.
* `RefusedLeavesUnraced`, `ChangesAreUndoable`, `UndoIsWhole`: the guarantees of
  an answer when others act in the middle of the call: what they did to one
  file spoils nothing of another, a proposal that expires during its syntax
  check is still undoable, and an undo that answers with an internal error has
  restored the file if and only if it marked the record, so that a retry does
  not skip a patch or restore one twice.
* `CallsRunOut`: a call with n patches has at most 5 n + 2 steps, whatever
  raises where and whatever others do: every step of a handler lowers
  `StepsLeft`, no step of anybody else raises it, and a rollback that raises is
  not begun again.
* `PhasesInOrder`: whatever raises and whatever others do, a batch compares every
  digest before the first snapshot, takes every snapshot before the first write
  and writes every file before the first record, and a rollback restores only
  what was written. Three of the guarantees above rest on it.
* `BatchIsPrefix`: the server may be killed at any step; the tree it leaves has
  the first patches of a batch, or a rollback cut short, and never a later file
  without an earlier one.
* `OnlyKillsLeaveStaging`: what a kill leaves behind is the one directory that
  was open. The run has one transaction id, so no transaction begins after a
  kill there; that a restarted server takes no orphan for its own and leaves
  none of its own is the theorem `OnlyKillsLitter`, for any number of ids.
* `LineEditKeepsOtherLines`, `WriteBackRespells`, `EditIsPerLine`,
  `SearchAgrees`: a line number means the same line to `read_file`,
  `search_code` and both kinds of edit, before and after an edit; the
  properties name the corners where that is not quite so (a blank last line
  without a newline, a form feed, deleting everything). `WriteBackRespells`
  starts from an answer of `read_file`: its hash, range and lines make an edit
  that is accepted. `EditIsPerLine` is about any replacement of a string that
  spans no lines, one with line breaks too: every break of the file stays where
  it was. `SearchAgrees` says how long the context of a match is.
* `NeverTorn`, `IsAtomicFile`, `CallsEnd`: the writer is an atomic file under
  errors, kills and power loss, and a call that is not killed ends.

### Claims the code does not keep

Each of these runs checks one statement of the repository's documents and TLC
refutes it; `PROJECT.json` ("findings") quotes the statement.

| Run | What happens |
|---|---|
| `StagingLeavesDisk.cfg` | staging a patch whose path is absolute writes the live file |
| `PatchRefusal.cfg` | a commit refused because a staged patch expired, or was applied on its own, has already written the batch and leaves the transaction open |
| `SameFileTwice.cfg` | two patches of one file in a transaction, each of which changes it: the first is lost, both are reported |
| `Clobber.cfg` | an edit between the digest test and the write is replaced by the write; nothing after it looks back, so the call can go on to answer a success |
| `MismatchLines.cfg` | a line break that occurs more often than expected is a mismatch that names no line |

The guarantees of the first table are stated so that they hold beside these:
`RefusedLeavesText` leaves out the two codes `PatchRefusal.cfg` is about and
`E_INTERNAL_ERROR`; `WritesReplaceBase` is checked with relative paths; the
properties of `StepsShared.cfg` speak of the files nobody else touched.

Six more disagreements can be read off single actions and have no run: one
undo reverts one patch of a committed transaction, where `server.py:198` speaks
of the transaction (`Revert`); undo overwrites an edit made since the patch,
where `protocol/error-codes.md:58` reserves a code for it (`UndoReverts`); an
applied patch becomes an expired one when asked for after its TTL, where
`protocol/error-codes.md:46` promises the other answer (`GetError`); a checker
or a rollback that raises leaves an unverified, unrecorded text on disk, where
`README.md:27` promises a rollback (`ApplyAbandoned`); a rollback or an undo in
a tree where git converts line endings gives back other bytes than were there,
where `docs/technical-guide.md:308` speaks of the original bytes (`GitClean`);
and a server killed between two writes of a batch leaves its first files
written, where `README.md:26` promises no partial state (`Kill`; how partial is
what `BatchIsPrefix` says).

### Bounds, and why they are enough

* `UndoHistory.cfg` has no checkers: a batch that is rolled back leaves the
  text and the stack of before, a stutter under its view. Its files and its
  contents are symmetric too (`AllAlike`), as no file and no content is told
  from another there.
* `MaxUndo` (2 or 3) bounds the undo stack through the guard `Room`; the code
  has no bound. Two records of one file are needed for order to matter, three
  for a failed commit between two applies. In `Steps` a call begins only when
  there is room for all it may record.
* `PatchIds`, `TxIds` bound how many proposals and transactions there ever are
  (ids are never reused, but for patch ids after a kill). Two patches make the
  smallest batch with a middle, on two files or on one; the second transaction
  meets what the first left.
* TTLs of 0 and 1 tick, so each comes on either side of the other and of a
  call. Ages stop at the TTL plus one.
* `Content` has the smallest sets with a broken and a good content, or two
  spellings of one text.
* The runs of `MCEngine` use the view `Core` (every variable but `reply`):
  no action reads `reply`, and the properties checked with it read only
  `reply'` (so does `Journal!Next` of `answer`), which TLC evaluates on every
  step it generates. Where a symmetry set meets this view, the number of states
  can differ a little from one search to the next. `StepCore` also
  leaves out the parts of `start` that follow from the rest. Patch and
  transaction ids are symmetric; where liveness is checked, `P1First` names the
  first id handed out instead of a symmetry set.
* `WholeTree` (a constraint of `StepsShared.cfg`): a call begins with every file
  present, and others delete files while it runs. That a file is missing when
  the call begins is covered by `TwoFiles.cfg` and `OneFile.cfg`.
* In `TextEdit`, `MaxLen` = 4 has room for two breaks with a line before,
  between or after them, for line 0 and a line past the end, and for a string
  that occurs as often as expected, more often, or less. `LineNumbers`,
  `Counts` and `Contexts` are what a client may send; the code takes any
  integer, and so do the theorems. `MaxContext` is 20 in the code and 2 in the
  run, where the contexts lie below, inside and above the limits. A request and its answer are one state and the next
  request is asked of the same text, since only `apply_patch` changes it.
* Deadlock is checked in every run: a call can always be made.

### Fairness

`Steps`: `WF_stepVars(Handler)`. A handler is straight-line code on the event
loop: it takes no lock and waits for nothing but git and the checkers it
starts, which are assumed to return or to fail. Starting a call, ticks, edits
and kills are not fair. `EveryCallAnswered` is checked without kills (a killed
call has no answer).

`Storage`: `WF_vars(Step(w))` says a process inside a write goes on, as each
system call returns or raises. Starting a write, kills, write-back and power
loss are not fair.

The calls of `Engine` are single steps, so nothing there has to happen
eventually; `TextEdit` answers in one step.

## 4. Proofs

Checked by `tlapm`, for all values of the constants that satisfy the named
assumptions of the modules: any number of files, contents, patches and
transactions, any TTLs, batches of any length, any number of processes.

| Theorem | States |
|---|---|
| `EngineProofs!TypeCorrect` | `TypeOK` and `StagedOnce` always hold |
| `ExpiryFinal`, `AppliedRecorded`, `StagingClean` | the other invariants of `OneFile.cfg` |
| `RefusalsRestore` | `RefusedLeavesText`, byte for byte but for what git converts |
| `UndoLifo` | `UndoIsLifoPerFile` |
| `CompareAndSwap` | `WritesReplaceBase`, assuming no proposal has an absolute path (with one it is false, see above) |
| `SuccessUndoable` | `SuccessIsUndoable` |
| `UndoProofs!EngineKeepsJournal` | `Engine` implements `Journal`, assuming no proposal has an absolute path (one that has is staged over the live file, see above) |
| `UndoProofs!UndoLeadsBack` | `UndoWalksBack` under `RecordingSpec`, for any number of files, assuming `Alone`: no other programs, no faults, relative paths |
| `UndoProofs!UndoLeadsOneBack` | for one file, `UndoWalksBack` under `Spec` |
| `StepProofs!StepTypeCorrect`, `PhasesKeepOrder`, `OnlyKillsLitter`, `CallsBounded` | `StepTypeOK`, `PhasesInOrder`, `OnlyKillsLeaveStaging`, `CallsRunOut` |
| `BatchProofs!RefusalsRestoreUnraced`, `ChangesUndoable`, `UndoWhole` | the other action properties of `StepsShared.cfg`; `ChangesUndoable` says nothing of a commit that is refused as it marks |
| `BatchProofs!KillLeavesPrefix` | `BatchIsPrefix` |
| `RefineProofs!StepsImplementEngine` | `ImplementsEngine`, when nothing else happens while a call runs (`Shared = FALSE`) |
| `StorageProofs!NothingTorn` | `NeverTorn` |
| `StorageProofs!WritesAreAtomic` | `Storage` implements `AtomicFile` |
| `TextProofs!LineEditKeepsOtherLinesHolds`, `WriteBackRespellsHolds`, `LineEditIsNormalisedHolds`, `EditIsPerLineHolds`, `SearchAgreesHolds` | the properties of `Text.cfg`, for texts of any length over any characters, and any line numbers, expected occurrences, context and limit on it |
| `TextProofs!NormalizeTwice`, `CleanSameNormal` | `ContentAssumption` and `GitAssumption` of `Workspace`, of `normalize_line_endings` and of CRLF to LF |

Assumptions: `ContentAssumption` (normalising is idempotent), `GitAssumption`
(git changes line endings and nothing else), `PatchAssumption`,
`UndoAssumption`, `TxAssumption`, `StepAssumption`, `StorageAssumption` (types
and sentinels). TLC evaluates all of them in the runs.

Argument for `Engine`. The inductive invariant is `TypeInv`, that is `TypeOK`
with `StagedOnce`: a commit indexes `patches` by what is staged, so its types
need the staged ids to be known, and marking a batch needs them distinct. Each
other invariant is then preserved by steps from `TypeInv` states. `PatchStep`
says a step freezes a proposal's path, base and text and changes its status
only with cause (past the TTL, or recorded); `UndoStep` that the stack grows
and only the newest eligible record is reverted; `RollbackRestores` that
restoring the snapshots of the files written gives every file back,
whatever files repeat: the last write to a file and its last restore have the
same index, and all snapshots of a file are of the same bytes because they are
taken before the first write.

Argument for `UndoWalksBack`. As undo of one file `f` sees them there are two
kinds of step: records are pushed, maybe none, and those of `f` have the text
of before, which without one stays (`Pushes`); or a record not yet reverted is
popped, of `f` the newest or of another file (`Pops`). `StepShape` says every
step is one of them: all snapshots of a batch are taken before its first write,
so two records of `f` in one batch have the same text. `WalksBack(f)` is
`UndoWalksBack` for one file and is inductive by itself given `TypeInv`: a push
on a stack with records of `f` left to revert does not touch the oldest of
them; a push on one with none begins with the text of before, which is the
first text; a pop of `f` leaves the oldest record or reverts it and puts the
first text back. `OneFileRecorded` says that with one file no step is a
`LeavesUnrecorded`: a batch that writes records its first patch before it marks
any.

Argument for `Journal`. For one file, what a step does to the stack is
`Extends`: the new records of the file are not reverted and hold the text of
before. That is `Recorded`, as every place in the old stack is below the new
ones; `Swaps` is compare and swap; and that proposals stay offers is
`PatchStep`, with `NewPatchProposed` for the new ones. Then each kind of step is
one action: proposals (`Propose`), successes (`Edit`, which needs that a batch
has a record for each file it writes), internal errors and commits refused as
they mark (`Fail`), undo, also one whose answer is lost (`Undo`), edits by
others (`Outside`), and every other call, with the rollbacks that restore the
text, is a stutter.

Argument for `Steps`. Three invariants, each on top of the one before:

* `StepInv` (`StepProofs`): the types, the shape of each loop (`LoopShape`),
  what each phase has done (`Progress`: how many snapshots, how many writes),
  and that the batch is a set of known patches in order (`BatchShape`). It
  holds whatever others do; without `Progress` a restore could run past what
  was written.
* `BatchInv` (`BatchProofs`): for the files nobody else touched, the tree is
  `Overwrite` of the tree the call found, up to the writes made and restores
  made (`DiskInv`); what was compared had the base text (`CasInv`), what was
  snapshot is the tree found (`SnapInv`), the stack is the one found plus the
  records made (`StackInv`), and of an undo the tree and the mark change
  together (`RevertInv`). The three action properties and `BatchIsPrefix` are
  read off it at the steps that end a call (`CallEnds`).
* `AloneInv` (`RefineProofs`): when nobody else acts, also the cache is as
  found but for the marks made (`MarkInv`), the guard the call began with still
  holds of what it found (`GuardInv`), and the checks done are those of the
  written tree (`CheckInv`, `StopInv`). Then each step that ends a call is the
  `Engine` action of that outcome, with `k` and `r` of `CommitRollsBack` and
  `CommitRollbackRaises` the counters of the handler, and every other step is a
  stutter. Short calls and edits are the same formulas on both sides.

Argument for `CallsRunOut`. `StepsLeft` weighs the loops of a call by how many
follow (`LoopsLeft`) and subtracts the place in the loop. From `StepInv`: a
loop is left at its end only, and a restore has `wrote` writes to undo, at most
one per patch, so that to begin it costs no more than to go on.

Argument for `Storage`. `NeverTorn` is inductive: before `os.replace` the
temporary file is whole in memory and, because of `fsync`, on the medium.
`os.replace` then is `AtomicFile!Put`, write-back and power loss are
themselves, and every other step changes nothing a reader sees.

Argument for `TextEdit`. The inductive invariant is `Answered`: the text is a
sequence of characters, and the last answer is what its tool computes of it.
The properties are then statements about operators, for every text
(`TextLemmas`). The library's induction theorems take an operator and cannot be
used here, so induction is stated over sets: a set of numbers with 0 and, with
all below n, also n, is all of `Nat` (`UpTo`, from the least element of its
complement). An operator defined by a recursive function is treated in three
steps: a function that satisfies its equation exists, each of its values has
the wanted shape, and the operator is one of them. On that stand four groups:
`Ascending` lists a set of positions in order and in one way only; `FlattenSeq`
lays pieces one after the other; the lines of a text are the pieces between its
line breaks, so lines that are joined are read back, but for a blank last one;
and the matches of a substring are the greedy choice from the left, so that
replacing in two texts put together is replacing in each when no match crosses
the seam, which by induction over the lines is replacing line by line.

Only model-checked: `EveryCallAnswered` and `CallsEnd`, which are liveness
under fairness, out of the prover's reach. `CallsBounded` proves of the first
all but that a handler can always take its next step. Every other property of a
passing run is a theorem.

## 5. Not modelled

* In `core/workspace.py`, which names a path may have: containment in the root,
  protected names, the search for the root. A path, relative or absolute, leads
  to a file that may be missing; the tests of names come before anything else
  a tool does and change nothing. A second workspace root (the tools pass none).
* In `core/inspection.py`, which files a glob finds, leaves out by name or by
  size; regular expressions; bytes that are not UTF-8 (`errors="replace"`).
* The diff of a proposal; messages, payloads and the JSON of answers.
* A staging directory that cannot be made or removed (`rmtree` ignores errors),
  a custom transaction TTL (the tool passes none), the bytecode files
  `py_compile` leaves.
* How a temporary file gets its name (`storage.py:28`): each write has a name of
  its own, as two random uuids are assumed not to meet.
* `reset`, `clear`, `prune_expired`: called by tests only.
* The protocol's documents and schemas, as prose; the findings quote them.

## 6. Plan

Done, in this order: the engine over one-step calls with its properties and
theorems; storage; the handlers step by step, with kills, and their refinement
of the engine; the text arithmetic; the proofs of the step-by-step guarantees,
of the refinement, of `UndoWalksBack` for any number of files, of the text
arithmetic and of the bound on a call; the client's journal as an abstract
specification, and the proof that the engine implements it.

What is left:

1. `Session`: the two-phase protocol of `protocol/SPECIFICATION.md` with a client
   that retries after errors and reads again after `E_STALE_HASH`.
2. `Paths`: resolution of names over a small tree with links, so that the tools
   agree on which file a name means, and `search_code`'s choice of files.

## 7. Running

    tlc -config TwoFiles.cfg MCEngine.tla
    tlc -config StepsShared.cfg MCSteps.tla
    tlc -config Text.cfg MCText.tla
    tlc -config Storage.cfg MCStorage.tla
    tlapm EngineProofs.tla      # and the other *Proofs modules

`tlapm` checks `RefineProofs` in about three minutes; the modules it extends are
checked by their own runs.
