------------------------------ MODULE Journal -------------------------------
(***************************************************************************)
(* What CEMP promises a client, file by file: a text changes only as it    *)
(* was proposed and from the text the proposal was computed from, a        *)
(* success leaves the text of before to be undone, undo gives these texts  *)
(* back newest first, and an answer that is none of "done", "undone",      *)
(* "failed" means that nothing has changed.                                *)
(***************************************************************************)
EXTENDS Naturals

CONSTANTS Files, Texts, Missing

VARIABLES
    text,    \* file -> its text, or Missing
    offers,  \* the proposals: in this file, this text may become that one
    past,    \* file -> the texts undo can give back, with their order ("at")
    answer   \* of the last call; "none" when no call was made

state == <<text, offers, past>>

Init ==
    /\ text \in [Files -> Texts]
    /\ offers = {}
    /\ past = [f \in Files |-> {}]
    /\ answer = "none"

\* A proposal is made of the text the file has now.
Propose ==
    /\ answer' = "proposed"
    /\ offers \subseteq offers'
    /\ \A o \in offers' \ offers :
         o.from = text[o.file] /\ o.from # Missing
    /\ UNCHANGED <<text, past>>

Kept(f) == text'[f] = text[f] /\ past'[f] = past[f]

Swaps(f) ==
    \/ text'[f] = text[f]
    \/ [file |-> f, from |-> text[f], to |-> text'[f]] \in offers

\* What undo can give back after the step is what it could before, and, for
\* each record the step makes, the text of before.
Recorded(f) ==
    /\ past[f] \subseteq past'[f]
    /\ \A e \in past'[f] \ past[f] :
         e.text = text[f] /\ \A d \in past[f] : d.at < e.at

Edit ==
    /\ answer' = "done"
    /\ \A f \in Files :
         Kept(f) \/ (Swaps(f) /\ Recorded(f) /\ past'[f] # past[f])
    /\ UNCHANGED offers

\* Errors after which the client cannot know: any part of what it asked for
\* may have been done, and any part of that recorded.
Fail ==
    /\ answer' = "failed"
    /\ \A f \in Files : Kept(f) \/ (Swaps(f) /\ Recorded(f))
    /\ UNCHANGED offers

Undo ==
    /\ answer' \in {"undone", "failed"}
    /\ \E f \in Files : \E e \in past[f] :
         /\ \A d \in past[f] : d.at <= e.at
         /\ text' = [text EXCEPT ![f] = e.text]
         /\ past' = [past EXCEPT ![f] = @ \ {e}]
    /\ UNCHANGED offers

\* Somebody else.
Outside ==
    /\ answer' = "none"
    /\ \E f \in Files : \A g \in Files \ {f} : text'[g] = text[g]
    /\ UNCHANGED <<offers, past>>

Next == Propose \/ Edit \/ Fail \/ Undo \/ Outside

\* A call that changes nothing may answer anything.
Spec == Init /\ [][Next]_state
=============================================================================
