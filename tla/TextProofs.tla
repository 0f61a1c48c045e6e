----------------------------- MODULE TextProofs ------------------------------
(***************************************************************************)
(* The properties of TextProperties, for every file, every request and     *)
(* every set of characters.  TextLemmas has what the operators compute;    *)
(* here is the state machine: each answer is what its tool computes of the *)
(* file as it still is.                                                    *)
(***************************************************************************)
EXTENDS TextLemmas

-----------------------------------------------------------------------------
(* The inductive invariant.                                                *)

LineEditAnswered ==
    Proposed("propose_line_edit") =>
        \E s, e \in LineNumbers, new \in Pieces :
            /\ ValidRange(s, e, Len(ReadLines))
            /\ answer.request = [s |-> s, e |-> e, new |-> new]
            /\ answer.new = Assembled(ReadText, s, e, new)

EditAnswered ==
    Proposed("propose_edit") =>
        \E old, new \in Pieces :
            /\ answer.request = [old |-> old, new |-> new]
            /\ answer.new = Replaced(ReadText, old, new)

SearchAnswered ==
    answer.tool = "search_code" =>
        \E pattern \in Pieces, context \in Contexts :
            /\ answer.pattern = pattern /\ answer.context = context
            /\ answer.matches = Matches(ReadLines, pattern, Clamped(context))

ReadAnswered ==
    answer.tool = "read_file" /\ answer.out = "ok" =>
        \E s, e \in Int :
            /\ ValidRange(s, e, Len(ReadLines)) \/ (s = 1 /\ e = Len(ReadLines))
            /\ answer.first = s /\ answer.lines = SubSeq(ReadLines, s, e)
            /\ answer.hash = compute_content_hash(ReadText)

Answered ==
    /\ text \in Seq(Chars)
    /\ LineEditAnswered
    /\ EditAnswered
    /\ SearchAnswered
    /\ ReadAnswered

LEMMA ReadTextType ==
    ASSUME text \in Seq(Chars)
    PROVE  /\ NoReturns(ReadText) /\ ReadText \in Seq(Chars)
           /\ ReadLines \in Seq(TextLine) /\ Len(ReadLines) \in Nat
<1>1. NoReturns(ReadText)
    BY NormalizeNormal DEF ReadText
<1>2. ReadLines \in Seq(TextLine) /\ Len(ReadLines) \in Nat
    BY <1>1, SplitType DEF ReadLines
<1> QED BY <1>1, <1>2 DEF NoReturns

LEMMA PieceIsText ==
    ASSUME NEW p \in Pieces
    PROVE  p \in Seq(Chars)
BY TextAssumption

LEMMA RangeType ==
    ASSUME NEW s \in LineNumbers, NEW e \in LineNumbers, NEW n \in Nat,
           ValidRange(s, e, n)
    PROVE  s \in Nat /\ e \in Nat
BY TextAssumption DEF ValidRange

\* Whatever is proposed is a text.
LEMMA ProposedText ==
    ASSUME Answered, answer.tool \in {"propose_edit", "propose_line_edit"},
           answer.out = "ok"
    PROVE  answer.new \in Seq(Chars)
<1>1. NoReturns(ReadText) /\ ReadText \in Seq(Chars)
    BY ReadTextType DEF Answered
<1>2. CASE answer.tool = "propose_edit"
  <2>1. PICK old \in Pieces, new \in Pieces : answer.new = Replaced(ReadText, old, new)
      BY <1>2 DEF Answered, EditAnswered, Proposed
  <2>2. old \in Seq(Chars) /\ new \in Seq(Chars)
      BY PieceIsText
  <2> QED BY <1>1, <2>1, <2>2, ReplacedLaid
<1>3. CASE answer.tool = "propose_line_edit"
  <2>1. PICK s \in LineNumbers, e \in LineNumbers, new \in Pieces :
           /\ ValidRange(s, e, Len(ReadLines))
           /\ answer.new = Assembled(ReadText, s, e, new)
      BY <1>3 DEF Answered, LineEditAnswered, Proposed
  <2>2. new \in Seq(Chars) /\ s \in Nat /\ e \in Nat
    <3>1. Len(ReadLines) \in Nat
        BY ReadTextType DEF Answered
    <3> QED BY <2>1, <3>1, PieceIsText, RangeType
  <2>3. NoReturns(Assembled(ReadText, s, e, new))
      BY <1>1, <2>1, <2>2, LineEditReads DEF ReadLines
  <2> QED BY <2>1, <2>3 DEF NoReturns
<1> QED BY <1>2, <1>3

LEMMA AnsweredInit == Init => Answered
<1> SUFFICES ASSUME Init
             PROVE  Answered
    OBVIOUS
<1>1. text \in Seq(Chars)
    BY TextAssumption DEF Init
<1>2. answer.tool = "none"
    BY DEF Init, Nothing
<1> QED BY <1>1, <1>2 DEF Answered, LineEditAnswered, EditAnswered,
            SearchAnswered, ReadAnswered, Proposed

\* An answer of another tool, or one that is not "ok".
LEMMA OtherAnswered ==
    ASSUME Answered, text' = text,
           \/ answer'.tool \in {"get_file_hash", "none"}
           \/ /\ answer'.tool \in {"read_file", "propose_line_edit", "propose_edit"}
              /\ answer'.out # "ok"
    PROVE  Answered'
BY DEF Answered, LineEditAnswered, EditAnswered, SearchAnswered, ReadAnswered, Proposed

LEMMA AnsweredStep == Answered /\ [Next]_vars => Answered'
<1> SUFFICES ASSUME Answered, [Next]_vars
             PROVE  Answered'
    OBVIOUS
<1>1. CASE get_file_hash
    BY <1>1, OtherAnswered DEF get_file_hash
<1>2. ASSUME NEW range \in {<<>>} \cup (LineNumbers \X LineNumbers), read_file(range)
      PROVE  Answered'
  <2>1. text' = text
      BY <1>2 DEF read_file
  <2>2. ReadText' = ReadText /\ ReadLines' = ReadLines
      BY <2>1 DEF ReadText, ReadLines
  <2>3. ASSUME NEW s \in Int, NEW e \in Int, Lines(s, e),
               ValidRange(s, e, Len(ReadLines)) \/ (s = 1 /\ e = Len(ReadLines))
        PROVE  Answered'
    <3>1. /\ answer'.tool = "read_file"
          /\ answer'.first = s /\ answer'.lines = SubSeq(ReadLines, s, e)
          /\ answer'.hash = compute_content_hash(ReadText)
        BY <2>3 DEF Lines
    <3>2. ReadAnswered'
        BY <2>2, <2>3, <3>1 DEF ReadAnswered
    <3> QED BY <2>1, <3>1, <3>2 DEF Answered, LineEditAnswered, EditAnswered,
                SearchAnswered, Proposed
  <2>4. CASE range = <<>> /\ Lines(1, Len(ReadLines))
    <3>1. Len(ReadLines) \in Int /\ 1 \in Int
        BY ReadTextType DEF Answered
    <3> QED BY <2>3, <2>4, <3>1
  <2>5. CASE /\ range # <<>> /\ ValidRange(range[1], range[2], Len(ReadLines))
             /\ Lines(range[1], range[2])
    <3>1. range[1] \in Int /\ range[2] \in Int
        BY <1>2, <2>5, TextAssumption
    <3> QED BY <2>3, <2>5, <3>1
  <2>6. CASE Rejected("read_file", "E_INVALID_RANGE")
    <3>1. answer'.tool = "read_file" /\ answer'.out # "ok"
        BY <2>6 DEF Rejected
    <3> QED BY <2>1, <3>1, OtherAnswered
  <2> QED BY <1>2, <2>4, <2>5, <2>6 DEF read_file
<1>3. ASSUME NEW pattern \in Pieces, NEW context \in Contexts, search_code(pattern, context)
      PROVE  Answered'
  <2>1. /\ text' = text /\ answer'.tool = "search_code"
        /\ answer'.pattern = pattern /\ answer'.context = context
        /\ answer'.matches = Matches(ReadLines, pattern, Clamped(context))
      BY <1>3 DEF search_code
  <2>2. ReadLines' = ReadLines
      BY <2>1 DEF ReadLines, ReadText
  <2>3. SearchAnswered'
      BY <2>1, <2>2 DEF SearchAnswered
  <2> QED BY <2>1, <2>3 DEF Answered, LineEditAnswered, EditAnswered, ReadAnswered,
              Proposed
<1>4. ASSUME NEW old \in Pieces, NEW new \in Pieces, NEW expected \in Counts,
             propose_edit(old, new, expected)
      PROVE  Answered'
  <2>1. text' = text
      BY <1>4 DEF propose_edit
  <2>2. CASE answer'.tool = "propose_edit" /\ answer'.out # "ok"
      BY <2>1, <2>2, OtherAnswered
  <2>3. CASE Proposal("propose_edit", [old |-> old, new |-> new],
                      Replaced(ReadText, old, new))
    <3>1. /\ answer'.tool = "propose_edit"
          /\ answer'.request = [old |-> old, new |-> new]
          /\ answer'.new = Replaced(ReadText, old, new)
        BY <2>3 DEF Proposal
    <3>2. ReadText' = ReadText
        BY <2>1 DEF ReadText
    <3>3. EditAnswered'
        BY <3>1, <3>2 DEF EditAnswered
    <3> QED BY <2>1, <3>1, <3>3 DEF Answered, LineEditAnswered, SearchAnswered,
                ReadAnswered, Proposed
  <2>4. \/ answer'.tool = "propose_edit" /\ answer'.out # "ok"
        \/ Proposal("propose_edit", [old |-> old, new |-> new],
                    Replaced(ReadText, old, new))
      BY <1>4 DEF propose_edit, Edited, Rejected
  <2> QED BY <2>2, <2>3, <2>4
<1>5. ASSUME NEW s \in LineNumbers, NEW e \in LineNumbers, NEW new \in Pieces,
             NEW h, propose_line_edit(s, e, new, h)
      PROVE  Answered'
  <2>1. text' = text
      BY <1>5 DEF propose_line_edit
  <2>2. CASE answer'.tool = "propose_line_edit" /\ answer'.out # "ok"
      BY <2>1, <2>2, OtherAnswered
  <2>3. CASE /\ ValidRange(s, e, Len(ReadLines))
             /\ Proposal("propose_line_edit", [s |-> s, e |-> e, new |-> new],
                         Assembled(ReadText, s, e, new))
    <3>1. /\ answer'.tool = "propose_line_edit"
          /\ answer'.request = [s |-> s, e |-> e, new |-> new]
          /\ answer'.new = Assembled(ReadText, s, e, new)
        BY <2>3 DEF Proposal
    <3>2. ReadText' = ReadText /\ ReadLines' = ReadLines
        BY <2>1 DEF ReadText, ReadLines
    <3>3. LineEditAnswered'
        BY <2>3, <3>1, <3>2 DEF LineEditAnswered
    <3> QED BY <2>1, <3>1, <3>3 DEF Answered, EditAnswered, SearchAnswered,
                ReadAnswered, Proposed
  <2>4. \/ answer'.tool = "propose_line_edit" /\ answer'.out # "ok"
        \/ /\ ValidRange(s, e, Len(ReadLines))
           /\ Proposal("propose_line_edit", [s |-> s, e |-> e, new |-> new],
                       Assembled(ReadText, s, e, new))
      BY <1>5 DEF propose_line_edit, Rejected, ReadLines
  <2> QED BY <2>2, <2>3, <2>4
<1>6. CASE apply_patch
  <2>1. text' = answer.new /\ answer'.tool = "none"
      BY <1>6 DEF apply_patch, Nothing
  <2>2. text' \in Seq(Chars)
      BY <1>6, <2>1, ProposedText DEF apply_patch
  <2> QED BY <2>1, <2>2 DEF Answered, LineEditAnswered, EditAnswered,
              SearchAnswered, ReadAnswered, Proposed
<1>7. CASE answer' = Nothing /\ UNCHANGED text
    BY <1>7, OtherAnswered DEF Nothing
<1>8. CASE UNCHANGED vars
  <2>1. text' = text /\ answer' = answer
      BY <1>8 DEF vars
  <2> QED BY <2>1 DEF Answered, LineEditAnswered, EditAnswered, SearchAnswered,
              ReadAnswered, Proposed, ReadText, ReadLines
<1> QED BY <1>1, <1>2, <1>3, <1>4, <1>5, <1>6, <1>7, <1>8 DEF Next, Ask

(* What an answer says of the file is what the tool computes of the file    *)
(* now: nothing between a request and its answer's use changes it.         *)
THEOREM AnsweredAlways == Spec => []Answered
BY AnsweredInit, AnsweredStep, PTL DEF Spec

-----------------------------------------------------------------------------
(* The properties.                                                         *)

(* A normalised text is its own normal form: what Workspace assumes of     *)
(* Normalize, for files that are any texts.                                *)
THEOREM NormalizeTwice ==
    \A t \in Seq(Chars) :
        normalize_line_endings(normalize_line_endings(t)) = normalize_line_endings(t)
BY NormalizeNormal, NormalizeSame

(* Git turns CRLF into LF in files where a carriage return is never alone: *)
(* the normal form is then the same, as Workspace assumes of GitClean.     *)
THEOREM CleanSameNormal ==
    ASSUME NEW t \in Seq(Chars),
           \A i \in 1..Len(t) : t[i] = CR => IsCrLf(t, i)
    PROVE  normalize_line_endings(CrLfToLf(t)) = normalize_line_endings(t)
<1> DEFINE I == {i \in 1..Len(t) : ~ IsCrLf(t, i)}
           kept == Ascending(I, Len(t))
           s == CrLfToLf(t)
<1>1. Len(t) \in Nat /\ s \in Seq(Chars)
    BY LenProperties, CrLfToLfType
<1>2. Lists(kept, I, Len(t))
    BY <1>1, AscendingLists
<1>3. s = [k \in 1..Len(kept) |-> t[kept[k]]]
    BY DEF CrLfToLf
<1> HIDE DEF kept
<1>4. Len(kept) \in Nat /\ \A k \in 1..Len(kept) : kept[k] \in 1..Len(t) /\ kept[k] \in I
    BY <1>2, LenProperties DEF Lists
<1>5. Len(s) = Len(kept) /\ \A k \in 1..Len(s) : s[k] = t[kept[k]]
    BY <1>3, <1>4
<1> HIDE DEF s
<1>6. NoReturns(s)
    BY <1>1, <1>4, <1>5 DEF NoReturns
<1>7. normalize_line_endings(s) = s
    BY <1>6, NormalizeSame
<1>8. normalize_line_endings(t) = s
  <2>1. normalize_line_endings(t) = [i \in 1..Len(s) |-> IF s[i] = CR THEN LF ELSE s[i]]
      BY DEF normalize_line_endings, ReplaceAll, s
  <2>2. s = [i \in 1..Len(s) |-> s[i]]
      BY <1>1, LenProperties
  <2> QED BY <1>6, <2>1, <2>2 DEF NoReturns
<1> QED BY <1>7, <1>8 DEF s

LEMMA LineEditKeepsOtherLinesInv == Answered => LineEditKeepsOtherLines
<1> SUFFICES ASSUME Answered, Proposed("propose_line_edit")
             PROVE  LineEditKeepsOtherLines
    BY DEF LineEditKeepsOtherLines
<1>1. PICK s \in LineNumbers, e \in LineNumbers, new \in Pieces :
         /\ ValidRange(s, e, Len(ReadLines))
         /\ answer.request = [s |-> s, e |-> e, new |-> new]
         /\ answer.new = Assembled(ReadText, s, e, new)
    BY DEF Answered, LineEditAnswered
<1>2. new \in Seq(Chars) /\ s \in Nat /\ e \in Nat /\ NoReturns(ReadText)
  <2>1. Len(ReadLines) \in Nat /\ NoReturns(ReadText)
      BY ReadTextType DEF Answered
  <2> QED BY <1>1, <2>1, PieceIsText, RangeType
<1> DEFINE expected == EditedLines(ReadText, s, e, new)
           got == splitlines(Assembled(ReadText, s, e, new))
<1>3. \/ /\ ReadsAs(got, expected)
         /\ got # expected => ~ EndsWithNewline(ReadText)
      \/ expected = <<>> /\ got = << <<>> >> /\ EndsWithNewline(ReadText)
    BY <1>1, <1>2, LineEditReads DEF ReadLines
<1>4. /\ answer.request.s = s /\ answer.request.e = e /\ answer.request.new = new
      /\ got = splitlines(answer.new)
    BY <1>1
<1>5. expected = SubSeq(ReadLines, 1, s - 1)
                   \o splitlines(normalize_line_endings(new))
                   \o SubSeq(ReadLines, e + 1, Len(ReadLines))
    BY DEF EditedLines, ReadLines
<1> HIDE DEF expected, got
<1> QED BY <1>3, <1>4, <1>5 DEF LineEditKeepsOtherLines

LEMMA LineEditIsNormalisedInv == Answered => LineEditIsNormalised
<1> SUFFICES ASSUME Answered
             PROVE  LineEditIsNormalised
    OBVIOUS
<1>1. NoReturns(ReadText)
    BY ReadTextType DEF Answered
<1>2. normalize_line_endings(ReadText) = ReadText
    BY <1>1, NormalizeSame
<1>3. ASSUME Proposed("propose_line_edit")
      PROVE  normalize_line_endings(answer.new) = answer.new
  <2>1. PICK s \in LineNumbers, e \in LineNumbers, new \in Pieces :
           /\ ValidRange(s, e, Len(ReadLines))
           /\ answer.new = Assembled(ReadText, s, e, new)
      BY <1>3 DEF Answered, LineEditAnswered
  <2>2. new \in Seq(Chars) /\ s \in Nat /\ e \in Nat
    <3>1. Len(ReadLines) \in Nat
        BY ReadTextType DEF Answered
    <3> QED BY <2>1, <3>1, PieceIsText, RangeType
  <2>3. NoReturns(Assembled(ReadText, s, e, new))
      BY <1>1, <2>1, <2>2, LineEditReads DEF ReadLines
  <2> QED BY <2>1, <2>3, NormalizeSame
<1> QED BY <1>2, <1>3 DEF LineEditIsNormalised

LEMMA WriteBackRespellsInv == Answered => WriteBackRespells
<1> SUFFICES ASSUME Answered, answer.tool = "read_file", answer.out = "ok",
                    answer.lines # <<>>
             PROVE  WriteBackRespells
    BY DEF WriteBackRespells
<1> DEFINE n == Len(ReadLines)
           first == answer.first
           last == answer.first + Len(answer.lines) - 1
<1>1. PICK s \in Int, e \in Int :
         /\ ValidRange(s, e, n) \/ (s = 1 /\ e = n)
         /\ answer.first = s /\ answer.lines = SubSeq(ReadLines, s, e)
         /\ answer.hash = compute_content_hash(ReadText)
    BY DEF Answered, ReadAnswered
<1>2. NoReturns(ReadText) /\ ReadLines \in Seq(TextLine) /\ n \in Nat
    BY ReadTextType DEF Answered
<1>3. s \in 1..n /\ e \in s..n
  <2>1. CASE ValidRange(s, e, n)
      BY <1>2, <2>1 DEF ValidRange
  <2>2. CASE s = 1 /\ e = n
    <3>1. n # 0
      <4>1. SUFFICES ASSUME n = 0
                     PROVE  FALSE
          OBVIOUS
      <4>2. SubSeq(ReadLines, 1, 0) = <<>>
          BY <1>2, SubSeqEmpty
      <4> QED BY <1>1, <2>2, <4>1, <4>2
    <3> QED BY <1>2, <2>2, <3>1
  <2> QED BY <1>1, <2>1, <2>2
<1>4. Len(answer.lines) = e + 1 - s
    BY <1>1, <1>2, <1>3, SubSeqIs
<1>5. first = s /\ last = e
    BY <1>1, <1>3, <1>4
<1>6. ValidRange(s, e, n)
    BY <1>2, <1>3 DEF ValidRange
<1>7. Assembled(ReadText, s, e, Ended(answer.lines)) = Respelled(ReadText)
    BY <1>1, <1>2, <1>3, WriteBack DEF ReadLines
<1> HIDE DEF first, last
<1>8. /\ answer.hash = compute_content_hash(ReadText)
      /\ ValidRange(first, last, n)
      /\ Assembled(ReadText, first, last, Ended(answer.lines)) = Respelled(ReadText)
    BY <1>1, <1>5, <1>6, <1>7
<1> QED BY <1>8 DEF WriteBackRespells, first, last

LEMMA EditIsPerLineInv == Answered => EditIsPerLine
<1> SUFFICES ASSUME Answered, Proposed("propose_edit")
             PROVE  EditIsPerLine
    BY DEF EditIsPerLine
<1>1. PICK old \in Pieces, new \in Pieces :
         /\ answer.request = [old |-> old, new |-> new]
         /\ answer.new = Replaced(ReadText, old, new)
    BY DEF Answered, EditAnswered
<1>2. old \in Seq(Chars) /\ new \in Seq(Chars) /\ NoReturns(ReadText)
    BY PieceIsText, ReadTextType DEF Answered
<1>3. old # <<>> /\ OneLine(old) /\ OneLine(new) =>
         ReadsAs(splitlines(answer.new), ReplacedLines(ReadLines, old, new))
    BY <1>1, <1>2, EditPerLine DEF ReadLines
<1>4. answer.request.old = old /\ answer.request.new = new
    BY <1>1
<1> DEFINE r == answer.request
           lines == [k \in 1..Len(ReadLines) |-> Replaced(ReadLines[k], r.old, r.new)]
<1>5. lines = ReplacedLines(ReadLines, old, new)
    BY <1>4 DEF ReplacedLines
<1>6. Len(lines) = Len(ReadLines)
       /\ \A k \in 1..Len(ReadLines) : lines[k] = Replaced(ReadLines[k], old, new)
  <2>1. Len(ReadLines) \in Nat
      BY ReadTextType DEF Answered
  <2> QED BY <1>4, <2>1
<1>7. r.old # <<>> /\ OneLine(r.old) =>
         answer.new = FlattenSeq([k \in 1..Len(lines) |->
                          lines[k] \o LineBreak(ReadText, k)])
  <2> HIDE DEF lines
  <2>1. [k \in 1..Len(lines) |-> lines[k] \o LineBreak(ReadText, k)]
          = [k \in 1..Len(ReadLines) |->
                Cat(Replaced(ReadLines[k], old, new), LineBreak(ReadText, k))]
      BY <1>6 DEF Cat
  <2>2. old # <<>> /\ OneLine(old) =>
          answer.new = FlattenSeq([k \in 1..Len(ReadLines) |->
                Cat(Replaced(ReadLines[k], old, new), LineBreak(ReadText, k))])
      BY <1>1, <1>2, EditKeepsBreaks DEF ReadLines
  <2> QED BY <1>4, <2>1, <2>2
<1>8. r.old # <<>> /\ OneLine(r.old) /\ OneLine(r.new) =>
         ReadsAs(splitlines(answer.new), lines)
  <2> HIDE DEF lines
  <2> QED BY <1>3, <1>4, <1>5
<1> QED BY <1>7, <1>8, Zenon DEF EditIsPerLine

LEMMA SearchAgreesInv == Answered => SearchAgrees
<1> SUFFICES ASSUME Answered, answer.tool = "search_code"
             PROVE  SearchAgrees
    BY DEF SearchAgrees
<1>1. PICK pattern \in Pieces, asked \in Contexts :
         /\ answer.pattern = pattern /\ answer.context = asked
         /\ answer.matches = Matches(ReadLines, pattern, Clamped(asked))
    BY DEF Answered, SearchAnswered
<1> DEFINE context == Clamped(asked)
           total == Len(ReadLines)
           width == IF answer.context < 0 THEN 0
                    ELSE Fewer(answer.context, MaxContext)
<1>a. context \in Nat /\ width = context
  <2>1. asked \in Int /\ MaxContext \in Nat /\ answer.context = asked
      BY <1>1, TextAssumption
  <2> QED BY <2>1 DEF Clamped, Fewer
<1> HIDE DEF context, width
<1>2. /\ NoReturns(ReadText) /\ ReadText \in Seq(Chars)
      /\ ReadLines \in Seq(TextLine) /\ Len(ReadLines) \in Nat /\ pattern \in Seq(Chars)
    BY PieceIsText, ReadTextType DEF Answered
<1> DEFINE found == {i \in 1..Len(ReadLines) : Contained(pattern, ReadLines[i])}
<1>3. DOMAIN answer.matches = found
    BY <1>1 DEF Matches, context
<1>4. ASSUME pattern # <<>>, OneLine(pattern)
      PROVE  found = {} <=> Occurrences(ReadText, pattern) = {}
  <2>1. Positions(ReadText, pattern) # {} <=>
           \E k \in 1..Len(ReadLines) : Positions(ReadLines[k], pattern) # {}
      BY <1>2, <1>4, PatternInLines DEF ReadLines
  <2>2. Occurrences(ReadText, pattern) = {} <=> Positions(ReadText, pattern) = {}
      BY <1>2, OccurrencesAre
  <2> QED BY <2>1, <2>2 DEF Contained
<1>5. ASSUME NEW k \in found
      PROVE  LET m == answer.matches[k]
             IN  /\ m.before \o <<ReadLines[k]>> \o m.after =
                      SubSeq(ReadLines, k - Len(m.before), k + Len(m.after))
                 /\ Len(m.before) = Fewer(k - 1, width)
                 /\ Len(m.after) = Fewer(total - k, width)
  <2> DEFINE a == IF k > context THEN k - context ELSE 1
             b == IF k + context < Len(ReadLines) THEN k + context ELSE Len(ReadLines)
             before == SubSeq(ReadLines, a, k - 1)
             after == SubSeq(ReadLines, k + 1, b)
  <2>1. answer.matches[k] = [before |-> before, after |-> after]
      BY <1>1 DEF Matches, context
  <2>2. k \in 1..Len(ReadLines) /\ a \in 1..k /\ b \in k..Len(ReadLines)
      BY <1>2, <1>a
  <2>7. k - a = Fewer(k - 1, width) /\ b - k = Fewer(total - k, width)
      BY <1>2, <1>a, <2>2 DEF Fewer
  <2> HIDE DEF a, b
  <2>3. /\ before \o <<ReadLines[k]>> \o after = SubSeq(ReadLines, a, b)
        /\ Len(before) = k - a
        /\ Len(after) = b - k
      BY <1>2, <2>2, Around
  <2> HIDE DEF before, after
  <2>4. answer.matches[k].before = before /\ answer.matches[k].after = after
      BY <2>1
  <2>5. k - Len(before) = a /\ k + Len(after) = b
      BY <2>2, <2>3
  <2>6. before \o <<ReadLines[k]>> \o after
          = SubSeq(ReadLines, k - Len(before), k + Len(after))
      BY <2>3, <2>5, Zenon
  <2>8. Len(before) = Fewer(k - 1, width) /\ Len(after) = Fewer(total - k, width)
      BY <2>3, <2>7
  <2> QED BY <2>4, <2>6, <2>8, Zenon
<1> QED BY <1>1, <1>3, <1>4, <1>5 DEF SearchAgrees, width

(* The text a line edit leaves reads as the lines before the range, the    *)
(* new lines and the lines after it, whatever the file, the range and the  *)
(* new text.                                                               *)
THEOREM LineEditKeepsOtherLinesHolds == Spec => []LineEditKeepsOtherLines
BY AnsweredAlways, LineEditKeepsOtherLinesInv, PTL

(* A line edit is normalised before it is cached: the hash of the proposal *)
(* is that of the file it leaves.                                          *)
THEOREM LineEditIsNormalisedHolds == Spec => []LineEditIsNormalised
BY AnsweredAlways, LineEditIsNormalisedInv, PTL

(* Writing back lines that were read changes the spelling of line breaks   *)
(* and nothing else.                                                       *)
THEOREM WriteBackRespellsHolds == Spec => []WriteBackRespells
BY AnsweredAlways, WriteBackRespellsInv, PTL

(* An edit of a string inside lines is that edit in each line, however     *)
(* often it occurs and whatever replaces it.                               *)
THEOREM EditIsPerLineHolds == Spec => []EditIsPerLine
BY AnsweredAlways, EditIsPerLineInv, PTL

(* search_code finds a pattern in some line if and only if propose_edit    *)
(* finds it in the file, and reports it among the lines of read_file.      *)
THEOREM SearchAgreesHolds == Spec => []SearchAgrees
BY AnsweredAlways, SearchAgreesInv, PTL
=============================================================================
