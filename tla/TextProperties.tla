--------------------------- MODULE TextProperties ----------------------------
(***************************************************************************)
(* What a client may rely on when it reads by line number, edits by line   *)
(* number or by substring, and reads again.                                *)
(***************************************************************************)
EXTENDS TextEdit

Proposed(tool) == answer.tool = tool /\ answer.out = "ok"

\* A text that was joined of lines reads back as these lines, but for a last
\* line that is empty: nothing ends it.
ReadsAs(got, lines) ==
    \/ got = lines
    \/ lines # <<>> /\ Last(lines) = <<>> /\ got = Front(lines)

(* The text a line edit leaves reads as the lines before the range, the    *)
(* new lines and the lines after the range.  Two corners: a blank last     *)
(* line of a file that does not end with a newline is lost, and deleting   *)
(* all lines of a file that does leaves one blank line.                    *)
LineEditKeepsOtherLines ==
    Proposed("propose_line_edit") =>
        LET r == answer.request
            expected == SubSeq(ReadLines, 1, r.s - 1)
                          \o splitlines(normalize_line_endings(r.new))
                          \o SubSeq(ReadLines, r.e + 1, Len(ReadLines))
            got == splitlines(answer.new)
        IN  \/ ReadsAs(got, expected) /\ (got # expected => ~ EndsWithNewline(ReadText))
            \/ expected = <<>> /\ got = << <<>> >> /\ EndsWithNewline(ReadText)

(* Writing back what read_file answered, the range it named and its lines, *)
(* each ended with a newline, with the hash it gave, is never refused and  *)
(* only respells line breaks: other breaks than the newline become         *)
(* newlines everywhere in the file, or are dropped at its end.             *)
Respelled(t) ==
    LET same == ReplaceAll(t, FF, LF)
    IN  IF t # <<>> /\ Last(t) = FF THEN Front(same) ELSE same
Ended(lines) == FlattenSeq([k \in 1..Len(lines) |-> EndLine(lines[k])])
WriteBackRespells ==
    answer.tool = "read_file" /\ answer.out = "ok" /\ answer.lines # <<>> =>
        LET s == answer.first
            e == answer.first + Len(answer.lines) - 1
        IN  /\ answer.hash = compute_content_hash(ReadText)
            /\ ValidRange(s, e, Len(ReadLines))
            /\ Assembled(ReadText, s, e, Ended(answer.lines)) = Respelled(ReadText)

(* What Engine assumes of the text of a proposal: normalising twice is     *)
(* normalising once, and a line edit makes a normalised text.              *)
LineEditIsNormalised ==
    /\ normalize_line_endings(ReadText) = ReadText
    /\ Proposed("propose_line_edit") =>
          normalize_line_endings(answer.new) = answer.new

(* The break that ends the k-th line of a normalised text, if one does.    *)
LineBreak(t, k) ==
    LET end == Ascending(LineEnds(t), Len(t) + 1)[k]
    IN  IF end <= Len(t) THEN <<t[end]>> ELSE <<>>

(* Replacing a string that is inside lines is replacing it in each line,   *)
(* whatever is put there, line breaks included: every other line and every *)
(* break stays as it was.  When the new string is inside a line too no     *)
(* line is moved or joined, so numbers read before the edit stay good.     *)
OneLine(t) == \A i \in 1..Len(t) : t[i] \notin {LF, CR, FF}
EditIsPerLine ==
    Proposed("propose_edit") =>
        LET r == answer.request
            lines == [k \in 1..Len(ReadLines) |->
                         Replaced(ReadLines[k], r.old, r.new)]
        IN  r.old # <<>> /\ OneLine(r.old) =>
              /\ answer.new = FlattenSeq([k \in 1..Len(lines) |->
                                            lines[k] \o LineBreak(ReadText, k)])
              /\ OneLine(r.new) => ReadsAs(splitlines(answer.new), lines)

(* search_code and the other tools agree: a literal pattern inside a line  *)
(* is reported if and only if an edit of it would be matched, and a report *)
(* with its context is a stretch of what read_file gives, as long on       *)
(* either side as was asked for, from no line to MaxContext, or up to the  *)
(* end of the file.                                                        *)
Fewer(m, n) == IF m < n THEN m ELSE n
SearchAgrees ==
    answer.tool = "search_code" =>
        LET found == DOMAIN answer.matches
            total == Len(ReadLines)
            width == IF answer.context < 0 THEN 0
                     ELSE Fewer(answer.context, MaxContext)
        IN
        /\ answer.pattern # <<>> /\ OneLine(answer.pattern) =>
             (found = {} <=> Occurrences(ReadText, answer.pattern) = {})
        /\ \A k \in found :
             LET m == answer.matches[k] IN
             /\ m.before \o <<ReadLines[k]>> \o m.after =
                  SubSeq(ReadLines, k - Len(m.before), k + Len(m.after))
             /\ Len(m.before) = Fewer(k - 1, width)
             /\ Len(m.after) = Fewer(total - k, width)

(* protocol/SPECIFICATION.md: E_OCCURRENCE_MISMATCH includes the line      *)
(* numbers of all detected matches, so of one at least when some text was  *)
(* asked for.  The code looks for old_str in each line by itself, and one  *)
(* that spans lines is in none.                                            *)
MismatchNamesLines ==
    /\ answer.tool = "propose_edit" /\ answer.out = "E_OCCURRENCE_MISMATCH"
    /\ answer.old # <<>>
    => answer.matches # {}
=============================================================================
