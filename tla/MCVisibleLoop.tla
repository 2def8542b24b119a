--------------------------- MODULE MCVisibleLoop ---------------------------
(* computeVisible called in every position of two files: any first        *)
(* document the cache can supply, any number of lines to skip (negative    *)
(* and beyond the end included), any cursor line and any loading progress. *)
EXTENDS VisibleLoop

CONSTANTS OnelineRows, OtherRows, MaxNegative, MaxStartLine, MaxHeight

MCPos ==
    [r \in Renderings |->
        LET rows == IF r[1] = "kJSONOneline" THEN OnelineRows ELSE OtherRows
            pos[d \in 0 .. N] == IF d = 0 THEN 0 ELSE pos[d - 1] + rows[d]
        IN  pos]

TwoModes == {"kJSONOneline", "kTextLogs"}
Uneven4 == <<1, 3, 2, 4>>
Uneven4b == <<5, 1, 2, 1>>

MCCalls ==
    { [InitialView(lines) EXCEPT !.mode = mode, !.startDoc = s, !.startLine = l, !.docLines = <<>>,
                                 !.lastDoc = 0, !.lastLine = 0, !.cursorLine = c, !.numDocs = n] :
        mode \in Modes, lines \in 1 .. MaxHeight, s \in Docs,
        l \in -MaxNegative .. MaxStartLine, c \in -1 .. MaxHeight, n \in 1 .. N }

\* nextDoc() asks for at most one document more than is loaded.
MCReachableCalls == { w \in MCCalls : w.startDoc <= w.numDocs }
=============================================================================
