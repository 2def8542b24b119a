---------------------------- MODULE MCBsonView ----------------------------
(* Model-checking instances of BsonView.  A file is given by the number of *)
(* rows of each document in each render mode.                              *)
EXTENDS BsonView

CONSTANTS
    OnelineRows,    \* rows of documents 0, 1, ... as kJSONOneline
    OtherRows       \* and in the other render modes

RowsOf(mode) == IF mode = "kJSONOneline" THEN OnelineRows ELSE OtherRows

MCPos ==
    [r \in Renderings |->
        LET pos[d \in 0 .. N] == IF d = 0 THEN 0 ELSE pos[d - 1] + RowsOf(r[1])[d]
        IN  pos]

\* Rows alternate between lengths 1 and 2; 3 in extended JSON.
MCWidth ==
    [r \in Renderings |->
        [row \in 0 .. MCPos[r][N] - 1 |-> IF r[2] = "TenGen" THEN 3 ELSE 1 + (row % 2)]]

OneMode == {"kJSONOneline"}
TwoModes == {"kJSONOneline", "kTextLogs"}

RowsInputs == {"Up", "H", "M", "L", "End", "PageDown", "PageUp", "Wheel", "Resize", "1-4", "q"}
SearchInputs == {"/", "n", "1-4", "s", "Down", "PageDown", "Home", "End", "?",
                 "Left", "Right", "^", "$"}
MarkInputs == {"Button", "Enter", "Tab", "S-Tab", "Down", "Wheel"}

SearchUsers == {SearchInputs}

(***************************************************************************)
(* One user scrolls, one marks.  Marks multiply the states, so that the    *)
(* second one has three lines and a bound on _startLine of its own.        *)
(***************************************************************************)
ScrollOrMarkUsers == {RowsInputs, MarkInputs}
MarkStartLine == 3
MarksWithinBounds ==
    inputs = MarkInputs =>
        winLines = 3 /\ view.startLine \in -MarkStartLine .. MarkStartLine

Uniform4 == <<1, 1, 1, 1>>
Uniform6 == <<1, 1, 1, 1, 1, 1>>
Uneven4 == <<1, 3, 2, 4>>
Uneven6 == <<1, 2, 1, 5, 1, 2>>

\* Patterns are sets of documents, tagged with what the prompt makes of them.
Text(docs) == <<"text", docs>>
MQL(docs) == <<"mql", docs>>
EmptyText == <<"text", {}>>
RejectedMQL == <<"mql", {}>>

MCPatterns == {Text({2, 5}), MQL({1}), EmptyText, RejectedMQL}
MCMQLPatterns == {MQL({1}), RejectedMQL}
MCValidPatterns == {Text({2, 5}), MQL({1})}
MCMatches == [p \in Patterns |-> [r \in Renderings |-> p[2]]]
=============================================================================
