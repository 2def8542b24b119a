---------------------------- MODULE VisibleLoop ----------------------------
(***************************************************************************)
(* computeVisible, loop by loop.  BSONCacheView gives what computeVisible  *)
(* computes in closed form (ComputeVisible, TotalDocLines, DocForLine);    *)
(* here its two nested loops run step by step, from any state of the       *)
(* members, against a cache that may still be loading, and the result is   *)
(* compared with the closed form.                                          *)
(***************************************************************************)
EXTENDS BSONCacheView

CONSTANT Calls      \* the views computeVisible is called on

(***************************************************************************)
(* The program is running and the documents it has pointed to are loaded;  *)
(* the first document may be one that is still to be loaded.               *)
(***************************************************************************)
ASSUME CallsAssumption ==
    \A w \in Calls :
      /\ w \in [mode : Modes, ext : JsonFormats, startCol : {w.startCol},
                startDoc : Docs, startLine : Int, lastDoc : Docs, lastLine : Int,
                docLines : Seq(Int), cursorLine : Int, cursorDoc : Docs,
                mainLines : Nat \ {0}, numDocs : 1 .. N, jumpToEnd : BOOLEAN,
                ups : Nat, goal : Docs, proc : {"running"}]
      /\ w.cursorDoc < w.numDocs /\ w.goal < w.numDocs

VARIABLES
    v,              \* the members when the call starts
    pc,             \* "docs": outer loop, "rows": inner loop, "push", or how the call ended
    line, doc, skipLines, thisDocLines, docLines, lastDoc, cursorDoc, numDocs

vars == <<v, pc, line, doc, skipLines, thisDocLines, docLines, lastDoc, cursorDoc, numDocs>>

Height(d) == RowPos(v)[d + 1] - RowPos(v)[d]

Init ==
    /\ v \in Calls
    /\ pc = "docs"
    /\ line = 0 /\ doc = v.startDoc /\ skipLines = v.startLine /\ thisDocLines = 0
    /\ docLines = <<>>
    /\ lastDoc = v.lastDoc /\ cursorDoc = v.cursorDoc /\ numDocs = v.numDocs

\* Mutant: the loop stops at the documents loaded so far.
NextDocNoLoad ==
    /\ pc = "docs"
    /\ IF line < v.mainLines /\ doc < numDocs
       THEN /\ pc' = IF v.mode = "kTextLogs" /\ doc \in Throws THEN "exception" ELSE "rows"
            /\ UNCHANGED numDocs
       ELSE pc' = "done" /\ UNCHANGED numDocs
    /\ thisDocLines' = 0
    /\ UNCHANGED <<v, line, doc, skipLines, docLines, lastDoc, cursorDoc>>

\* Mutant: the end of a complete cache is not tested for, and operator[] never returns.
NextDocNoEndTest ==
    /\ pc = "docs"
    /\ IF line < v.mainLines
       THEN /\ doc < N
            /\ pc' = IF v.mode = "kTextLogs" /\ doc \in Throws THEN "exception" ELSE "rows"
            /\ numDocs' = IF doc >= numDocs THEN doc + 1 ELSE numDocs
       ELSE pc' = "done" /\ UNCHANGED numDocs
    /\ thisDocLines' = 0
    /\ UNCHANGED <<v, line, doc, skipLines, docLines, lastDoc, cursorDoc>>

\* The head of the outer loop, and renderDoc(doc), which loads the document.
NextDoc ==
    /\ pc = "docs"
    /\ IF line < v.mainLines /\ (numDocs # N \/ doc < numDocs)
       THEN /\ pc' = IF v.mode = "kTextLogs" /\ doc \in Throws THEN "exception" ELSE "rows"
            /\ numDocs' = IF doc >= numDocs THEN doc + 1 ELSE numDocs
       ELSE pc' = "done" /\ UNCHANGED numDocs
    /\ thisDocLines' = 0
    /\ UNCHANGED <<v, line, doc, skipLines, docLines, lastDoc, cursorDoc>>

\* One turn of the inner loop: a row of the document is skipped or displayed.
NextRow ==
    /\ pc = "rows"
    /\ IF line < v.mainLines
       THEN /\ IF skipLines > 0
               THEN /\ skipLines' = skipLines - 1
                    /\ UNCHANGED <<line, cursorDoc>>
               ELSE /\ cursorDoc' = IF line = v.cursorLine THEN doc ELSE cursorDoc
                    /\ line' = line + 1
                    /\ UNCHANGED skipLines
            /\ thisDocLines' = thisDocLines + 1
            /\ pc' = IF thisDocLines' = Height(doc) THEN "push" ELSE "rows"
       ELSE pc' = "push" /\ UNCHANGED <<line, skipLines, thisDocLines, cursorDoc>>
    /\ UNCHANGED <<v, doc, docLines, lastDoc, numDocs>>

\* The tail of the outer loop.
PushDoc ==
    /\ pc = "push"
    /\ docLines' = Append(docLines, thisDocLines)
    /\ lastDoc' = doc
    /\ doc' = doc + 1
    /\ pc' = "docs"
    /\ UNCHANGED <<v, line, skipLines, thisDocLines, cursorDoc, numDocs>>

\* std::accumulate over _docLines.
GetTotalDocLines ==
    LET sum[n \in 0 .. Len(docLines)] ==
          IF n = 0 THEN 0 ELSE sum[n - 1] + docLines[n]
    IN  sum[Len(docLines)]

Next == NextDoc \/ NextRow \/ PushDoc

Spec == Init /\ [][Next]_vars /\ WF_vars(Next)

-----------------------------------------------------------------------------
(* Properties *)

(***************************************************************************)
(* When the loops end, the members have the values of the closed form, the *)
(* sum of _docLines that getTotalDocLines takes included, and they end     *)
(* with an exception exactly when the closed form says so.                 *)
(***************************************************************************)
LoopComputesLayout ==
    /\ pc = "done" =>
         ComputeVisible(v) = [v EXCEPT !.docLines = docLines, !.lastDoc = lastDoc,
                                       !.lastLine = line - 1, !.cursorDoc = cursorDoc,
                                       !.numDocs = numDocs]
    /\ pc = "done" => GetTotalDocLines = TotalDocLines(v)
    /\ pc = "exception" => ComputeVisible(v).proc = "exception"

\* The loops end, whatever is skipped and however little is loaded.
LoopTerminates == <>(pc \in {"done", "exception"})
=============================================================================
