------------------------------ MODULE TextEdit -------------------------------
(***************************************************************************)
(* The text arithmetic of core/hasher.py, core/inspection.py and           *)
(* core/proposals.py on one file: what a client reads, what it asks for by *)
(* line number or by substring, and the text the server makes of it.  A    *)
(* text is a sequence of characters; only the line breaks are told apart   *)
(* from the other ones.                                                    *)
(*                                                                         *)
(* Python splits lines at more characters than the newline (form feed,     *)
(* U+2028, ...): FF stands for these.  A client sends requests and applies *)
(* what it was proposed before anybody else edits the file (the engine's   *)
(* compare-and-swap sees to that).                                         *)
(***************************************************************************)
EXTENDS Integers, Sequences, SequencesExt

CONSTANTS
    Chars,          \* the characters a file is made of
    LF, CR, FF,     \* the line breaks among them
    Texts,          \* the files to start from
    Pieces,         \* the strings a client sends
    LineNumbers,    \* the line numbers it sends
    Counts,         \* the expected_occurrences it sends
    Contexts,       \* the context_lines it sends
    MaxContext,     \* the most lines of context search_code gives (20)
    MaxLen          \* bound on the length of a file (the code has none)

ASSUME TextAssumption ==
    /\ {LF, CR, FF} \subseteq Chars
    /\ LF # CR /\ CR # FF /\ LF # FF
    /\ Texts \cup Pieces \subseteq Seq(Chars)
    /\ LineNumbers \cup Counts \cup Contexts \subseteq Int
    /\ MaxContext \in Nat
    /\ MaxLen \in Nat

VARIABLES
    text,       \* the characters of the file
    answer      \* the last request and what was answered

vars == <<text, answer>>

-----------------------------------------------------------------------------
(* Characters and lines.                                                   *)

IsCrLf(t, i) == t[i] = CR /\ i < Len(t) /\ t[i + 1] = LF

\* The numbers from 1 to n that are in I, in order.
Ascending(I, n) ==
    LET upTo[k \in 0..n] ==
            IF k = 0 THEN <<>>
            ELSE IF k \in I THEN Append(upTo[k - 1], k) ELSE upTo[k - 1]
    IN  upTo[n]

\* s.replace("\r\n", "\n")
CrLfToLf(t) ==
    LET kept == Ascending({i \in 1..Len(t) : ~ IsCrLf(t, i)}, Len(t))
    IN  [k \in 1..Len(kept) |-> t[kept[k]]]

normalize_line_endings(t) == ReplaceAll(CrLfToLf(t), CR, LF)

\* str.splitlines: one line per break, and one for what follows the last.
Breaks(t) == {i \in 1..Len(t) : t[i] \in {LF, CR, FF}}
LineEnds(t) == IF t = <<>> \/ Len(t) \in Breaks(t)
               THEN Breaks(t) ELSE Breaks(t) \cup {Len(t) + 1}

splitlines(t) ==
    LET s == CrLfToLf(t)
        ends == Ascending(LineEnds(s), Len(s) + 1)
    IN  [k \in 1..Len(ends) |->
            SubSeq(s, IF k = 1 THEN 1 ELSE ends[k - 1] + 1, ends[k] - 1)]

EndLine(line) == Append(line, LF)

\* "\n".join(lines)
Join(lines) ==
    FlattenSeq([k \in 1..Len(lines) |->
        IF k < Len(lines) THEN EndLine(lines[k]) ELSE lines[k]])

EndsWithNewline(t) == t # <<>> /\ Last(t) = LF

\* Path.read_text converts line endings before the code looks at them.
ReadText == normalize_line_endings(text)
ReadLines == splitlines(ReadText)

\* A digest is the normalised text it is taken of.
compute_content_hash(t) == normalize_line_endings(t)

-----------------------------------------------------------------------------
(* Substrings: str.count and str.replace take the leftmost occurrence that *)
(* does not overlap the one before; the empty string occurs in every gap.  *)

Positions(t, s) ==
    {i \in 1..(Len(t) + 1) : /\ i + Len(s) <= Len(t) + 1
                             /\ SubSeq(t, i, i + Len(s) - 1) = s}

Contained(s, t) == Positions(t, s) # {}

Occurrences(t, s) ==
    CHOOSE found \in SUBSET Positions(t, s) :
        \A i \in Positions(t, s) :
            i \in found <=> \A j \in found : j < i => j + Len(s) <= i

Replaced(t, old, new) ==
    LET found == Occurrences(t, old)
        Covered(i) == \E j \in found : j <= i /\ i < j + Len(old)
    IN  FlattenSeq([i \in 1..(Len(t) + 1) |->
            (IF i \in found THEN new ELSE <<>>)
              \o (IF i <= Len(t) /\ ~ Covered(i) THEN <<t[i]>> ELSE <<>>)])

-----------------------------------------------------------------------------
(* The tools.                                                              *)

Nothing == [tool |-> "none"]
Rejected(tool, code) == answer' = [tool |-> tool, out |-> code]

ValidRange(s, e, total) == s >= 1 /\ s <= e /\ e <= total

Lines(first, last) ==
    answer' = [tool |-> "read_file", out |-> "ok", first |-> first,
               lines |-> SubSeq(ReadLines, first, last),
               hash |-> compute_content_hash(ReadText)]

\* The range is optional.
read_file(range) ==
    /\ \/ range = <<>> /\ Lines(1, Len(ReadLines))
       \/ /\ range # <<>> /\ ValidRange(range[1], range[2], Len(ReadLines))
          /\ Lines(range[1], range[2])
       \/ /\ range # <<>> /\ ~ ValidRange(range[1], range[2], Len(ReadLines))
          /\ Rejected("read_file", "E_INVALID_RANGE")
    /\ UNCHANGED text

get_file_hash ==
    /\ answer' = [tool |-> "get_file_hash", out |-> "ok",
                  hash |-> compute_content_hash(ReadText)]
    /\ UNCHANGED text

\* Seeded fault: the window before a match stops a line early.
MatchesStopShort(lines, pattern, context) ==
    [k \in {i \in 1..Len(lines) : Contained(pattern, lines[i])} |->
        [before |-> SubSeq(lines, IF k > context THEN k - context ELSE 1, k - 2),
         after |-> SubSeq(lines, k + 1,
                          IF k + context < Len(lines) THEN k + context
                                                      ELSE Len(lines))]]

\* What search_code reports of one file, by line number.
Matches(lines, pattern, context) ==
    [k \in {i \in 1..Len(lines) : Contained(pattern, lines[i])} |->
        [before |-> SubSeq(lines, IF k > context THEN k - context ELSE 1, k - 1),
         after |-> SubSeq(lines, k + 1,
                          IF k + context < Len(lines) THEN k + context
                                                      ELSE Len(lines))]]

\* max(0, min(20, context_lines))
Clamped(context) == IF context < 0 THEN 0
                    ELSE IF context > MaxContext THEN MaxContext ELSE context

search_code(pattern, context) ==
    /\ answer' = [tool |-> "search_code", out |-> "ok",
                  pattern |-> pattern, context |-> context,
                  matches |-> Matches(ReadLines, pattern, Clamped(context))]
    /\ UNCHANGED text

Proposal(tool, request, new) ==
    answer' = [tool |-> tool, out |-> "ok", request |-> request, new |-> new]

\* The line numbers E_OCCURRENCE_MISMATCH reports.
MatchLines(old) == {i \in 1..Len(ReadLines) : Contained(old, ReadLines[i])}

\* Seeded fault: only the first occurrence is replaced.
EditedFirst(old, new) == ReplaceFirstSubSeq(new, old, ReadText)

Edited(old, new) == Replaced(ReadText, old, new)

propose_edit(old, new, expected) ==
    LET count == Cardinality(Occurrences(ReadText, old)) IN
    /\ \/ count = 0 /\ Rejected("propose_edit", "E_NO_MATCH")
       \/ /\ count # 0 /\ count # expected
          /\ answer' = [tool |-> "propose_edit", out |-> "E_OCCURRENCE_MISMATCH",
                        old |-> old, count |-> count,
                        matches |-> MatchLines(old)]
       \/ /\ count # 0 /\ count = expected
          /\ Proposal("propose_edit", [old |-> old, new |-> new],
                      Edited(old, new))
    /\ UNCHANGED text

\* Seeded faults: the last of the replaced lines is kept; the new text is not
\* normalised.
KeepsLastLine(raw, s, e, new) ==
    SubSeq(splitlines(raw), 1, s - 1)
      \o splitlines(normalize_line_endings(new))
      \o SubSeq(splitlines(raw), e, Len(splitlines(raw)))
KeepsReturns(raw, s, e, new) ==
    SubSeq(splitlines(raw), 1, s - 1)
      \o (IF new = <<>> THEN <<>> ELSE <<new>>)
      \o SubSeq(splitlines(raw), e + 1, Len(splitlines(raw)))

\* The lines of raw with lines s to e replaced, and the text joined of them.
EditedLines(raw, s, e, new) ==
    LET lines == splitlines(raw)
    IN  SubSeq(lines, 1, s - 1)
          \o splitlines(normalize_line_endings(new))
          \o SubSeq(lines, e + 1, Len(lines))

\* Seeded fault: the file is always ended with a newline.
AssembledEnded(raw, s, e, new) == EndLine(Join(EditedLines(raw, s, e, new)))

Assembled(raw, s, e, new) ==
    LET joined == Join(EditedLines(raw, s, e, new))
    IN  IF EndsWithNewline(raw) \/ raw = <<>> THEN EndLine(joined) ELSE joined

propose_line_edit(s, e, new, content_hash) ==
    LET raw == ReadText
        fresh == content_hash = compute_content_hash(raw)
        valid == ValidRange(s, e, Len(splitlines(raw)))
    IN
    /\ \/ ~ fresh /\ Rejected("propose_line_edit", "E_STALE_HASH")
       \/ fresh /\ ~ valid /\ Rejected("propose_line_edit", "E_INVALID_RANGE")
       \/ /\ fresh /\ valid
          /\ Proposal("propose_line_edit", [s |-> s, e |-> e, new |-> new],
                      Assembled(raw, s, e, new))
    /\ UNCHANGED text

\* The client applies what it was just proposed.
apply_patch ==
    /\ answer.tool \in {"propose_edit", "propose_line_edit"}
    /\ answer.out = "ok" /\ Len(answer.new) <= MaxLen
    /\ text' = answer.new
    /\ answer' = Nothing

-----------------------------------------------------------------------------
Init == text \in Texts /\ answer = Nothing

Ask ==
    \/ get_file_hash
    \/ \E range \in {<<>>} \cup (LineNumbers \X LineNumbers) : read_file(range)
    \/ \E pattern \in Pieces, context \in Contexts : search_code(pattern, context)
    \/ \E old, new \in Pieces, expected \in Counts :
         propose_edit(old, new, expected)
    \/ \E s, e \in LineNumbers, new \in Pieces :
         \E h \in {compute_content_hash(ReadText), <<CR>>} :
            propose_line_edit(s, e, new, h)

\* Each request is answered from the file alone, so one is asked at a time.
Next == \/ answer = Nothing /\ Ask
        \/ apply_patch
        \/ answer # Nothing /\ answer' = Nothing /\ UNCHANGED text

Spec == Init /\ [][Next]_vars
=============================================================================
