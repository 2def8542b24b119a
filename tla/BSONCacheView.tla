---------------------------- MODULE BSONCacheView ----------------------------
(***************************************************************************)
(* Class BSONCacheView: which rows of which documents are on the screen,   *)
(* where the cursor is, and the operations that move them.                 *)
(*                                                                         *)
(* Rendering a document gives one or more screen rows.  The text of a      *)
(* rendering is abstracted to where the rows of each document begin:       *)
(* Pos[r][d] rows of rendering r precede document d, so Pos[r][N] is the   *)
(* number of rows of the whole file.  A rendering is a pair of document    *)
(* render mode and extended JSON mode.                                     *)
(*                                                                         *)
(* The members of the class are the fields of a record v; a method is an   *)
(* operator from the record to the record after the call.  Loops whose     *)
(* body is ++ or -- on one counter are written in closed form.             *)
(***************************************************************************)
EXTENDS Integers, Sequences, FiniteSetsExt

CONSTANTS
    N,              \* documents in the file
    Modes,          \* enum DocumentRenderMode
    Pos,            \* Pos[r][d]: rows of documents 0 .. d-1 in rendering r
    Width,          \* Width[r][row]: length of a row in rendering r
    Throws,         \* documents that textLogs throws a DBException on
    Cols            \* _mainCols

JsonFormats == {"Strict", "TenGen"}
Renderings == Modes \X JsonFormats
Docs == 0 .. N - 1

(***************************************************************************)
(* The first document is only known to end the file when a second one has  *)
(* been loaded (BSONCache), hence N >= 2.                                  *)
(***************************************************************************)
ASSUME NAssumption == N \in Nat /\ N >= 2
ASSUME ColsAssumption == Cols \in Nat \ {0}
ASSUME ThrowsAssumption == Throws \subseteq Docs
ASSUME ModesAssumption == "kJSONOneline" \in Modes

(***************************************************************************)
(* Every document renders to at least one row (text without a newline is   *)
(* one row) and every row belongs to a document.                           *)
(***************************************************************************)
ASSUME PosAssumption ==
    /\ Pos \in [Renderings -> [0 .. N -> Nat]]
    /\ \A r \in Renderings :
         /\ Pos[r][0] = 0
         /\ \A d, e \in 0 .. N : d < e => Pos[r][d] < Pos[r][e]
         /\ \A row \in 0 .. Pos[r][N] - 1 :
              \E d \in Docs : Pos[r][d] <= row /\ row < Pos[r][d + 1]

-----------------------------------------------------------------------------
(* What is visible *)

MinOf(a, b) == IF a < b THEN a ELSE b

Rendering(v) == <<v.mode, v.ext>>
RowPos(v) == Pos[Rendering(v)]
TotalRows(v) == RowPos(v)[N]

\* The document a row of the file belongs to.
DocAt(v, row) == CHOOSE d \in Docs : RowPos(v)[d] <= row /\ row < RowPos(v)[d + 1]

\* The row of the file drawn on screen line 0: a negative _startLine skips nothing.
Top(v) == RowPos(v)[v.startDoc] + (IF v.startLine > 0 THEN v.startLine ELSE 0)

\* Whether the rows from Top on fill the screen.
FillsScreen(v) == Top(v) + v.mainLines <= TotalRows(v)

\* The row after the last one that computeVisible walks over.
WalkEnd(v) == IF FillsScreen(v) THEN Top(v) + v.mainLines ELSE TotalRows(v)

\* The rows drawn.
NumRows(v) ==
    IF FillsScreen(v) THEN v.mainLines
    ELSE IF Top(v) < TotalRows(v) THEN TotalRows(v) - Top(v) ELSE 0

LastWalked(v) == IF FillsScreen(v) THEN DocAt(v, WalkEnd(v) - 1) ELSE N - 1

\* _docLines: for each document walked over, its rows up to WalkEnd, the
\* skipped ones included.
DocLines(v) ==
    [i \in 1 .. LastWalked(v) - v.startDoc + 1 |->
        MinOf(RowPos(v)[v.startDoc + i], WalkEnd(v)) - RowPos(v)[v.startDoc + i - 1]]

\* cache().isComplete(), as BSONCache guarantees it.
IsComplete(v) == v.numDocs = N

\* renderDoc of every document in ds; an exception ends the process.
RenderDocs(v, ds) ==
    IF v.mode = "kTextLogs" /\ ds \cap Throws # {}
    THEN [v EXCEPT !.proc = "exception"]
    ELSE v

\* Mutant: the cache is not extended to the last document walked over.
ComputeVisibleNoLoad(v) ==
    RenderDocs([v EXCEPT !.docLines = DocLines(v),
                         !.lastDoc  = LastWalked(v),
                         !.lastLine = NumRows(v) - 1,
                         !.cursorDoc = IF 0 <= v.cursorLine /\ v.cursorLine < NumRows(v)
                                       THEN DocAt(v, Top(v) + v.cursorLine)
                                       ELSE @],
               v.startDoc .. LastWalked(v))

(***************************************************************************)
(* computeVisible: walk over the documents from _startDoc on, loading them *)
(* through operator[], until the screen is full or the complete cache      *)
(* ends.  _cursorDoc is set when the walk meets screen line _cursorLine.   *)
(***************************************************************************)
ComputeVisible(v) ==
    RenderDocs([v EXCEPT !.docLines = DocLines(v),
                         !.lastDoc  = LastWalked(v),
                         !.lastLine = NumRows(v) - 1,
                         !.numDocs  = IF LastWalked(v) >= @ THEN LastWalked(v) + 1 ELSE @,
                         !.cursorDoc = IF 0 <= v.cursorLine /\ v.cursorLine < NumRows(v)
                                       THEN DocAt(v, Top(v) + v.cursorLine)
                                       ELSE @],
               v.startDoc .. LastWalked(v))

\* getTotalDocLines: the sum of _docLines telescopes.
TotalDocLines(v) == WalkEnd(v) - RowPos(v)[v.startDoc]

\* _docLines.back()
BackDocLines(v) == v.docLines[Len(v.docLines)]

\* _longestLineStartCol, recomputed by every computeVisible.
LongestLineStartCol(v) ==
    Max({0} \cup {Width[Rendering(v)][row] : row \in Top(v) .. Top(v) + NumRows(v) - 1}) - Cols

-----------------------------------------------------------------------------
(* Columns *)

MoveLeft(v) ==
    IF v.startCol > 0 THEN ComputeVisible([v EXCEPT !.startCol = @ - 1]) ELSE v

MoveRight(v) ==
    IF v.startCol < LongestLineStartCol(v)
    THEN ComputeVisible([v EXCEPT !.startCol = @ + 1]) ELSE v

JumpLeft(v) ==
    IF v.startCol # 0 THEN ComputeVisible([v EXCEPT !.startCol = 0]) ELSE v

JumpRight(v) ==
    LET target == IF LongestLineStartCol(v) > 0 THEN LongestLineStartCol(v) ELSE 0
    IN  IF v.startCol # target
        THEN ComputeVisible([v EXCEPT !.startCol = target]) ELSE v

-----------------------------------------------------------------------------
(* The cursor *)

CursorTo(v, target) ==
    IF v.cursorLine # target
    THEN ComputeVisible([v EXCEPT !.cursorLine = target]) ELSE v

CursorTop(v) == CursorTo(v, 0)
CursorMiddle(v) == CursorTo(v, MinOf(v.mainLines \div 2, v.lastLine))
CursorBottom(v) == CursorTo(v, MinOf(v.mainLines - 1, v.lastLine))

CursorUp(v) == IF v.cursorLine > 0 THEN CursorTo(v, v.cursorLine - 1) ELSE v

CursorDown(v) ==
    IF v.cursorLine < v.mainLines - 1 /\ v.cursorLine < v.lastLine
    THEN CursorTo(v, v.cursorLine + 1) ELSE v

-----------------------------------------------------------------------------
(* Scrolling by a row *)

(***************************************************************************)
(* moveDown.  nextDoc() advances _startDoc when the cache may have another *)
(* document.                                                               *)
(***************************************************************************)
MoveDown(v) ==
    LET w == ComputeVisible(v)
    IN  IF w.startLine # w.docLines[1] - 1
        THEN CursorUp(ComputeVisible([w EXCEPT !.startLine = @ + 1]))
        ELSE IF ~IsComplete(w) \/ w.startDoc < w.numDocs - 1
        THEN CursorUp(ComputeVisible([w EXCEPT !.startDoc = @ + 1, !.startLine = 0]))
        ELSE w

\* Mutant: the cursor does not follow its document.
MoveUpLeavesCursor(v) ==
    LET w == ComputeVisible(v)
    IN  IF w.startLine # 0
        THEN ComputeVisible([w EXCEPT !.startLine = @ - 1])
        ELSE IF w.startDoc > 0
        THEN ComputeVisible([w EXCEPT !.startDoc = @ - 1, !.startLine = w.docLines[1] - 1])
        ELSE w

(***************************************************************************)
(* moveUp.  After prevDoc() the new _startLine is taken from _docLines[0], *)
(* which still describes the document that was first before the call.      *)
(***************************************************************************)
MoveUp(v) ==
    LET w == ComputeVisible(v)
    IN  IF w.startLine # 0
        THEN CursorDown(ComputeVisible([w EXCEPT !.startLine = @ - 1]))
        ELSE IF w.startDoc > 0
        THEN CursorDown(ComputeVisible([w EXCEPT !.startDoc = @ - 1,
                                                 !.startLine = w.docLines[1] - 1]))
        ELSE w

MoveCursorUp(v) == CursorUp(IF v.cursorLine = 0 THEN MoveUp(v) ELSE v)

MoveCursorDown(v) == CursorDown(IF v.cursorLine = v.mainLines - 1 THEN MoveDown(v) ELSE v)

-----------------------------------------------------------------------------
(* Scrolling by a page, to the top and to the end *)

JumpUp(v) ==
    CursorTop(IF v.startDoc # 0 \/ v.startLine # 0
              THEN ComputeVisible([v EXCEPT !.startDoc = 0, !.startLine = 0])
              ELSE v)

At(v, s) == [v EXCEPT !.startDoc = s]

\* Mutant: the loop goes on until the screen is full.
JumpDownStopsAtFullScreen(v, s) ==
    /\ NumRows(At(v, s)) - 1 > v.mainLines - 2
    /\ \A later \in s + 1 .. N - 1 : NumRows(At(v, later)) - 1 <= v.mainLines - 2

\* The while loop of jumpDown stops at s, counting down from the last document.
JumpDownStopsAt(v, s) ==
    /\ NumRows(At(v, s)) - 1 >= v.mainLines - 2
    /\ \A later \in s + 1 .. N - 1 : NumRows(At(v, later)) - 1 < v.mainLines - 2

\* Mutant: the request is not cleared when it is carried out.
JumpDownKeepsFlag(v) ==
    IF ~IsComplete(v) THEN [v EXCEPT !.jumpToEnd = TRUE]
    ELSE IF \E s \in Docs : JumpDownStopsAt(v, s)
    THEN LET s == CHOOSE s \in Docs : JumpDownStopsAt(v, s)
             w == RenderDocs(ComputeVisible(At(v, s)), s .. N - 1)
         IN  CursorBottom(ComputeVisible(
               [w EXCEPT !.startLine = TotalDocLines(w) - (w.mainLines - 2)]))
    ELSE RenderDocs([v EXCEPT !.proc = "hung"], Docs)

(***************************************************************************)
(* jumpDown.  The loop keeps _startLine and counts _startDoc down until    *)
(* all but one line of the screen are filled.  When even document 0 does   *)
(* not fill them the unsigned _startDoc wraps around, nothing is visible   *)
(* from there and the loop goes on for 2^64 turns: the process hangs.      *)
(***************************************************************************)
JumpDown(v) ==
    IF ~IsComplete(v) THEN [v EXCEPT !.jumpToEnd = TRUE]
    ELSE IF \E s \in Docs : JumpDownStopsAt(v, s)
    THEN LET s == CHOOSE s \in Docs : JumpDownStopsAt(v, s)
             w == RenderDocs(ComputeVisible(At(v, s)), s .. N - 1)
         IN  [CursorBottom(ComputeVisible(
                [w EXCEPT !.startLine = TotalDocLines(w) - (w.mainLines - 2)]))
              EXCEPT !.jumpToEnd = FALSE]
    ELSE RenderDocs([v EXCEPT !.proc = "hung"], Docs)

\* The while loop of pageUp stops at s, counting down from _startDoc, because
\* the document that was first is now last.
PageUpStopsAt(v, s) ==
    /\ LastWalked(At(v, s)) = v.startDoc
    /\ \A later \in s + 1 .. v.startDoc : LastWalked(At(v, later)) # v.startDoc

\* Mutant: the rows of the first document that were skipped are forgotten.
PageUpForgetsStartLine(v) ==
    IF v.startDoc = 0 /\ v.startLine = 0 THEN CursorTop(v)
    ELSE IF \E s \in 0 .. v.startDoc : PageUpStopsAt(v, s)
    THEN LET s == CHOOSE s \in 0 .. v.startDoc : PageUpStopsAt(v, s)
             w == ComputeVisible(At(v, s))
         IN  ComputeVisible(CursorBottom(
               [w EXCEPT !.startLine = TotalDocLines(w) - BackDocLines(w) - w.mainLines]))
    ELSE JumpUp(v)

(***************************************************************************)
(* pageUp.  When the loop stops, the first line is set so that the old     *)
(* first row is the one after the new last row; when it crashes into the   *)
(* top, the cursor goes down by the rows of the documents now above it.    *)
(***************************************************************************)
PageUp(v) ==
    IF v.startDoc = 0 /\ v.startLine = 0 THEN CursorTop(v)
    ELSE IF \E s \in 0 .. v.startDoc : PageUpStopsAt(v, s)
    THEN LET s == CHOOSE s \in 0 .. v.startDoc : PageUpStopsAt(v, s)
             w == ComputeVisible(At(v, s))
         IN  ComputeVisible(CursorBottom(
               [w EXCEPT !.startLine =
                   TotalDocLines(w) - (BackDocLines(w) - w.startLine) - w.mainLines]))
    ELSE LET w == RenderDocs(ComputeVisible(At(v, 0)), 0 .. v.startDoc)
             above == MinOf(RowPos(w)[v.startDoc], TotalDocLines(w))
         IN  ComputeVisible(
               [w EXCEPT !.cursorLine = MinOf(@ + above + w.startLine, w.mainLines - 1),
                         !.startLine = 0])

\* Mutant: the rows of the last document that were already shown are shown again.
PageDownRepeats(v) ==
    IF v.lastLine < v.mainLines - 1 THEN CursorBottom(v)
    ELSE LET w == ComputeVisible(CursorTop(
                    [v EXCEPT !.startDoc = v.lastDoc, !.startLine = 0]))
         IN  IF w.lastDoc # w.numDocs - 1 THEN ComputeVisible(w)
             ELSE LET end == JumpDown(w)
                  IN  IF end.proc = "hung" THEN end
                      ELSE ComputeVisible([end EXCEPT !.cursorLine = w.mainLines - 1 - w.lastLine])

(***************************************************************************)
(* pageDown.  The last document becomes the first one, without the rows of *)
(* it that were on the screen; if the last loaded document is then in      *)
(* sight the view goes to the end of the file, now or after loading.       *)
(***************************************************************************)
PageDown(v) ==
    IF v.lastLine < v.mainLines - 1 THEN CursorBottom(v)
    ELSE LET w == ComputeVisible(CursorTop(
                    [v EXCEPT !.startDoc = v.lastDoc,
                              !.startLine = BackDocLines(v)
                                 - (TotalDocLines(v) - v.startLine - v.mainLines)]))
         IN  IF w.lastDoc # w.numDocs - 1 THEN ComputeVisible(w)
             ELSE LET end == JumpDown(w)
                  IN  IF end.proc = "hung" THEN end
                      ELSE ComputeVisible([end EXCEPT !.cursorLine = w.mainLines - 1 - w.lastLine])

-----------------------------------------------------------------------------
(* Rendering *)

\* Mutant: the layout is left to the next scroll.
SetDocumentRenderModeNoCompute(v, mode) == [v EXCEPT !.mode = mode, !.startCol = 0]

SetDocumentRenderMode(v, mode) ==
    ComputeVisible([v EXCEPT !.mode = mode, !.startCol = 0])

ToggleExtendedJSONMode(v) ==
    ComputeVisible([v EXCEPT !.ext = IF @ = "Strict" THEN "TenGen" ELSE "Strict"])

\* updateDimensions, from render_main.
UpdateDimensions(v, lines) ==
    IF lines # v.mainLines
    THEN ComputeVisible([v EXCEPT !.mainLines = lines]) ELSE v

-----------------------------------------------------------------------------
(* Documents by line and by number *)

\* Mutant: the skipped lines are not subtracted.
DocForLineIgnoresStartLine(v, line) ==
    { d \in v.startDoc .. v.lastDoc :
        /\ RowPos(v)[d] - RowPos(v)[v.startDoc] <= line
        /\ line < MinOf(RowPos(v)[d + 1], WalkEnd(v)) - RowPos(v)[v.startDoc] }

\* docForLine: none or one document.
DocForLine(v, line) ==
    { d \in v.startDoc .. v.lastDoc :
        /\ RowPos(v)[d] - RowPos(v)[v.startDoc] - v.startLine <= line
        /\ line < MinOf(RowPos(v)[d + 1], WalkEnd(v)) - RowPos(v)[v.startDoc] - v.startLine }

JumpIsOffscreen(v, doc) ==
    \/ doc < v.startDoc
    \/ doc = v.startDoc /\ v.startLine > 0
    \/ doc > v.lastDoc

(***************************************************************************)
(* jumpToDoc.  An offscreen jump is a loop of moveUp() calls: it puts the  *)
(* document first and leaves the number of calls to make in ups (see       *)
(* JumpStep); goal is the argument of the call under way.                  *)
(***************************************************************************)
JumpToDocOffscreen(v, doc) ==
    LET w == [v EXCEPT !.startDoc = doc, !.startLine = 0, !.cursorLine = 0]
    IN  IF v.mainLines \div 4 > 0
        THEN [w EXCEPT !.ups = v.mainLines \div 4, !.goal = doc]
        ELSE ComputeVisible(w)

\* Mutant: the first document is counted too.
JumpToDocOnscreenOffByOne(v, doc) ==
    ComputeVisible([v EXCEPT !.cursorLine = RowPos(v)[doc + 1] - RowPos(v)[v.startDoc] - v.startLine])

JumpToDocOnscreen(v, doc) ==
    ComputeVisible([v EXCEPT !.cursorLine = RowPos(v)[doc] - RowPos(v)[v.startDoc] - v.startLine])

JumpToDoc(v, doc) ==
    IF JumpIsOffscreen(v, doc) THEN JumpToDocOffscreen(v, doc)
    ELSE JumpToDocOnscreen(v, doc)

\* One turn of the loop of _jumpToDocOffscreen.
JumpStep(v) ==
    [MoveUp(v) EXCEPT !.ups = @ - 1, !.goal = IF v.ups = 1 THEN 0 ELSE @]

(***************************************************************************)
(* The view after the first render_main of a window with the given number  *)
(* of lines.                                                               *)
(***************************************************************************)
InitialView(lines) ==
    ComputeVisible(
      [mode |-> "kJSONOneline", ext |-> "Strict", startCol |-> 0,
       startDoc |-> 0, startLine |-> 0, lastDoc |-> 0, lastLine |-> 0, docLines |-> <<>>,
       cursorLine |-> 0, cursorDoc |-> 0, mainLines |-> lines,
       numDocs |-> 1, jumpToEnd |-> FALSE, ups |-> 0, goal |-> 0, proc |-> "running"])
==============================================================================
