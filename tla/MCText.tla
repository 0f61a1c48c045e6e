------------------------------- MODULE MCText --------------------------------
(***************************************************************************)
(* An instance of the text arithmetic for TLC.                             *)
(***************************************************************************)
EXTENDS TextProperties, TLC

CONSTANTS x, y

\* A client brings y in.
AllTexts == BoundedSeq(Chars \ {y}, MaxLen)

\* Strings a client sends: inside a line, across lines, with either ending.
SomePieces ==
    BoundedSeq({x, y, LF}, 2) \cup {<<CR>>, <<CR, LF>>, <<x, CR, LF>>, <<FF>>,
                                    <<x, FF, y>>}

\* Less than none, some, and more than search_code gives (MaxContext = 2).
SomeContexts == {-1, 1, 3}
=============================================================================
