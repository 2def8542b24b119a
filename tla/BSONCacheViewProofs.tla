------------------------ MODULE BSONCacheViewProofs ------------------------
(***************************************************************************)
(* Facts about the operations of BSONCacheView, for files of any number of *)
(* documents of any number of rows, windows of any height and any          *)
(* _startLine, negative or beyond the end of the file.  They say what      *)
(* every operation keeps: the document numbers that the view holds are     *)
(* those of loaded documents, and the layout is that of the position.      *)
(***************************************************************************)
EXTENDS BSONCacheView, WellFoundedInduction, TLAPS

ProcStates == {"running", "stopped", "exception", "hung", "fault"}

\* The fields of a view.  Nothing depends on the values of startCol.
IsView(v) ==
    v \in [mode : Modes, ext : JsonFormats, startCol : {v.startCol},
           startDoc : Docs, startLine : Int, lastDoc : Docs, lastLine : Int,
           docLines : Seq(Int), cursorLine : Int, cursorDoc : Docs,
           mainLines : Nat \ {0}, numDocs : 1 .. N, jumpToEnd : BOOLEAN,
           ups : Nat, goal : Docs, proc : ProcStates]

\* A view that computeVisible may be called on: the first document may be one
\* that is still to be loaded.
Callable(v) ==
    /\ IsView(v)
    /\ v.cursorDoc < v.numDocs
    /\ v.goal < v.numDocs

\* A view whose document numbers are those of loaded documents.
Loaded(v) ==
    /\ Callable(v)
    /\ v.startDoc < v.numDocs
    /\ v.lastDoc < v.numDocs
    /\ Len(v.docLines) > 0

\* The layout is that of the position, field by field.
Fresh(v) ==
    /\ v.docLines = DocLines(v)
    /\ v.lastDoc = LastWalked(v)
    /\ v.lastLine = NumRows(v) - 1
    /\ LastWalked(v) < v.numDocs
    /\ 0 <= v.cursorLine /\ v.cursorLine < NumRows(v) =>
         v.cursorDoc = DocAt(v, Top(v) + v.cursorLine)
    /\ v.mode = "kTextLogs" /\ (v.startDoc .. LastWalked(v)) \cap Throws # {} =>
         v.proc = "exception"

(***************************************************************************)
(* What a call may do: documents are only added, the end is not asked for  *)
(* once they are all there, a jump under way goes on, and the process runs *)
(* on unless rendering throws.                                             *)
(***************************************************************************)
Reaches(v, w) ==
    /\ Callable(w)
    /\ w.numDocs >= v.numDocs
    /\ w.jumpToEnd => v.jumpToEnd \/ ~IsComplete(v)
    /\ w.ups = v.ups /\ w.goal = v.goal
    /\ w.proc \in {v.proc, "exception"}

\* What a call that leaves the view consistent may do.
Moves(v, w) == Reaches(v, w) /\ Loaded(w) /\ Fresh(w)

-----------------------------------------------------------------------------
(* Rows and documents *)

\* The first rows of the documents, in the rendering of v.
LEMMA RowPosFacts ==
    ASSUME NEW v, IsView(v)
    PROVE  /\ RowPos(v) \in [0 .. N -> Nat]
           /\ RowPos(v)[0] = 0
           /\ \A d, e \in 0 .. N : d < e => RowPos(v)[d] < RowPos(v)[e]
           /\ \A row \in 0 .. RowPos(v)[N] - 1 :
                \E d \in Docs : RowPos(v)[d] <= row /\ row < RowPos(v)[d + 1]
  <1>1. Rendering(v) \in Renderings
    BY DEF IsView, Rendering, Renderings
  <1> QED
    BY <1>1, PosAssumption DEF RowPos

\* DocAt is the one document that a row of the file belongs to.
LEMMA DocAtFacts ==
    ASSUME NEW v, IsView(v), NEW row \in Nat, row < TotalRows(v)
    PROVE  /\ DocAt(v, row) \in Docs
           /\ RowPos(v)[DocAt(v, row)] <= row
           /\ row < RowPos(v)[DocAt(v, row) + 1]
           /\ \A d \in Docs : RowPos(v)[d] <= row /\ row < RowPos(v)[d + 1] => d = DocAt(v, row)
  <1> DEFINE p == RowPos(v)
  <1>1. /\ p \in [0 .. N -> Nat]
        /\ \A d, e \in 0 .. N : d < e => p[d] < p[e]
        /\ \E d \in Docs : p[d] <= row /\ row < p[d + 1]
    <2>1. row \in 0 .. RowPos(v)[N] - 1
      BY RowPosFacts, NAssumption DEF TotalRows
    <2> QED
      BY <2>1, RowPosFacts
  <1>2. DocAt(v, row) = CHOOSE d \in Docs : p[d] <= row /\ row < p[d + 1]
    BY DEF DocAt
  <1> HIDE DEF p
  <1>3. DocAt(v, row) \in Docs /\ p[DocAt(v, row)] <= row /\ row < p[DocAt(v, row) + 1]
    BY <1>1, <1>2
  <1>4. ASSUME NEW d \in Docs, NEW e \in Docs, p[d] <= row, row < p[d + 1], p[e] <= row, row < p[e + 1]
        PROVE  d = e
    <2>1. CASE d < e
      <3>1. d + 1 \in 0 .. N /\ e \in 0 .. N /\ (d + 1 < e \/ d + 1 = e)
        BY <2>1, NAssumption DEF Docs
      <3>2. p[d + 1] <= p[e]
        BY <1>1, <3>1
      <3>3. p[d + 1] \in Nat /\ p[e] \in Nat
        BY <1>1, <3>1
      <3> QED
        BY <1>4, <3>2, <3>3
    <2>2. CASE e < d
      <3>1. e + 1 \in 0 .. N /\ d \in 0 .. N /\ (e + 1 < d \/ e + 1 = d)
        BY <2>2, NAssumption DEF Docs
      <3>2. p[e + 1] <= p[d]
        BY <1>1, <3>1
      <3>3. p[e + 1] \in Nat /\ p[d] \in Nat
        BY <1>1, <3>1
      <3> QED
        BY <1>4, <3>2, <3>3
    <2> QED
      BY <2>1, <2>2, NAssumption DEF Docs
  <1> QED
    BY <1>3, <1>4 DEF p

\* Where the walk of computeVisible begins and ends.
LEMMA WalkFacts ==
    ASSUME NEW v, IsView(v)
    PROVE  /\ RowPos(v)[v.startDoc] \in Nat
           /\ TotalRows(v) \in Nat
           /\ RowPos(v)[v.startDoc] < TotalRows(v)
           /\ Top(v) \in Nat /\ RowPos(v)[v.startDoc] <= Top(v)
           /\ WalkEnd(v) \in Nat /\ RowPos(v)[v.startDoc] < WalkEnd(v)
           /\ WalkEnd(v) <= TotalRows(v)
           /\ NumRows(v) \in Nat /\ NumRows(v) <= v.mainLines
           /\ NumRows(v) > 0 => Top(v) + NumRows(v) = WalkEnd(v)
           /\ LastWalked(v) \in v.startDoc .. N - 1
           /\ LastWalked(v) \in Docs
           /\ RowPos(v)[LastWalked(v)] < WalkEnd(v)
           /\ WalkEnd(v) <= RowPos(v)[LastWalked(v) + 1]
  <1> DEFINE p == RowPos(v)
  <1>1. /\ p \in [0 .. N -> Nat]
        /\ \A d, e \in 0 .. N : d < e => p[d] < p[e]
    BY RowPosFacts
  <1>2. v.startDoc \in Docs /\ v.startLine \in Int /\ v.mainLines \in Nat \ {0}
    BY DEF IsView
  <1>3. /\ p[v.startDoc] \in Nat /\ p[N] \in Nat /\ p[v.startDoc] < p[N]
        /\ p[N - 1] \in Nat /\ p[N - 1] < p[N]
    BY <1>1, <1>2, NAssumption DEF Docs
  <1>4. TotalRows(v) = p[N] /\ Top(v) \in Nat /\ p[v.startDoc] <= Top(v)
    BY <1>2, <1>3 DEF TotalRows, Top
  <1>5. /\ WalkEnd(v) \in Nat /\ p[v.startDoc] < WalkEnd(v) /\ WalkEnd(v) <= TotalRows(v)
        /\ NumRows(v) \in Nat /\ NumRows(v) <= v.mainLines
        /\ NumRows(v) > 0 => Top(v) + NumRows(v) = WalkEnd(v)
    BY <1>2, <1>3, <1>4 DEF WalkEnd, NumRows, FillsScreen
  <1>6. CASE FillsScreen(v)
    <2> DEFINE row == WalkEnd(v) - 1
               d == DocAt(v, row)
    <2>1. row \in Nat /\ row < TotalRows(v) /\ p[v.startDoc] <= row
      BY <1>3, <1>4, <1>5
    <2>2. d \in Docs /\ p[d] <= row /\ row < p[d + 1]
      BY <2>1, DocAtFacts
    <2>3. LastWalked(v) = d
      BY <1>6 DEF LastWalked
    <2> HIDE DEF p, d
    <2>4. d >= v.startDoc
      <3>1. SUFFICES ASSUME d < v.startDoc PROVE FALSE
        BY <1>2, <2>2, NAssumption DEF Docs
      <3>2. d + 1 \in 0 .. N /\ v.startDoc \in 0 .. N /\ (d + 1 < v.startDoc \/ d + 1 = v.startDoc)
        BY <1>2, <2>2, <3>1, NAssumption DEF Docs
      <3>3. p[d + 1] <= p[v.startDoc] /\ p[d + 1] \in Nat
        BY <1>1, <1>3, <3>2
      <3> QED
        BY <1>3, <2>1, <2>2, <3>3
    <2>5. p[d] \in Nat /\ p[d + 1] \in Nat
      BY <1>1, <2>2, NAssumption DEF Docs
    <2> QED
      BY <1>2, <1>3, <1>4, <1>5, <2>1, <2>2, <2>3, <2>4, <2>5, NAssumption DEF Docs, p
  <1>7. CASE ~FillsScreen(v)
    <2>1. LastWalked(v) = N - 1 /\ WalkEnd(v) = TotalRows(v)
      BY <1>7 DEF LastWalked, WalkEnd
    <2> QED
      BY <1>2, <1>3, <1>4, <1>5, <2>1, NAssumption DEF Docs
  <1> QED
    BY <1>6, <1>7

\* A line of the screen shows a row of a document that was walked over.
LEMMA ShownFacts ==
    ASSUME NEW v, IsView(v), NEW line \in Nat, line < NumRows(v)
    PROVE  /\ Top(v) + line \in Nat /\ Top(v) + line < TotalRows(v)
           /\ DocAt(v, Top(v) + line) \in v.startDoc .. LastWalked(v)
  <1> DEFINE p == RowPos(v)
             row == Top(v) + line
             d == DocAt(v, row)
             l == LastWalked(v)
  <1>1. /\ p \in [0 .. N -> Nat]
        /\ \A a, b \in 0 .. N : a < b => p[a] < p[b]
    BY RowPosFacts
  <1>2. /\ row \in Nat /\ row < TotalRows(v) /\ row < p[l + 1] /\ p[v.startDoc] <= row
        /\ l \in v.startDoc .. N - 1 /\ l \in Docs /\ v.startDoc \in Docs
    <2>0. v.startDoc \in Docs
      BY DEF IsView
    <2>1. l + 1 \in 0 .. N /\ v.startDoc \in Docs
      BY <2>0, WalkFacts, NAssumption DEF Docs
    <2>2. p[l + 1] \in Nat
      BY <1>1, <2>1
    <2> QED
      BY WalkFacts, <2>1, <2>2
  <1>3. d \in Docs /\ p[d] <= row /\ row < p[d + 1]
    BY <1>2, DocAtFacts
  <1> HIDE DEF p, d, l, row
  <1>4. d <= l
    <2>1. SUFFICES ASSUME l < d PROVE FALSE
      BY <1>2, <1>3, NAssumption DEF Docs
    <2>2. l + 1 \in 0 .. N /\ d \in 0 .. N /\ (l + 1 < d \/ l + 1 = d)
      BY <1>2, <1>3, <2>1, NAssumption DEF Docs
    <2>3. p[l + 1] <= p[d] /\ p[l + 1] \in Nat /\ p[d] \in Nat
      BY <1>1, <2>2
    <2> QED
      BY <1>2, <1>3, <2>3
  <1>5. v.startDoc <= d
    <2>1. SUFFICES ASSUME d < v.startDoc PROVE FALSE
      BY <1>2, <1>3, NAssumption DEF Docs
    <2>2. d + 1 \in 0 .. N /\ v.startDoc \in 0 .. N /\ (d + 1 < v.startDoc \/ d + 1 = v.startDoc)
      BY <1>2, <1>3, <2>1, NAssumption DEF Docs
    <2>3. p[d + 1] <= p[v.startDoc] /\ p[d + 1] \in Nat /\ p[v.startDoc] \in Nat
      BY <1>1, <2>2
    <2> QED
      BY <1>2, <1>3, <2>3
  <1> QED
    BY <1>2, <1>3, <1>4, <1>5, NAssumption DEF Docs, d, l, row

\* _docLines has an entry, a number, for every document walked over.
LEMMA DocLinesFacts ==
    ASSUME NEW v, IsView(v)
    PROVE  /\ DocLines(v) \in Seq(Int)
           /\ Len(DocLines(v)) = LastWalked(v) - v.startDoc + 1
           /\ Len(DocLines(v)) > 0
  <1> DEFINE k == LastWalked(v) - v.startDoc + 1
             p == RowPos(v)
  <1>0. v.startDoc \in Docs
    BY DEF IsView
  <1>1. /\ k \in Nat /\ k > 0 /\ v.startDoc \in Docs /\ WalkEnd(v) \in Nat
        /\ v.startDoc + k \in 0 .. N
    BY <1>0, WalkFacts, NAssumption DEF Docs
  <1>2. p \in [0 .. N -> Nat]
    BY RowPosFacts
  <1>3. ASSUME NEW i \in 1 .. k
        PROVE  MinOf(p[v.startDoc + i], WalkEnd(v)) - p[v.startDoc + i - 1] \in Int
    <2>1. v.startDoc + i \in 0 .. N /\ v.startDoc + i - 1 \in 0 .. N
      BY <1>1, <1>3, NAssumption DEF Docs
    <2>2. p[v.startDoc + i] \in Nat /\ p[v.startDoc + i - 1] \in Nat
      BY <1>2, <2>1
    <2> QED
      BY <1>1, <2>2 DEF MinOf
  <1>4. DocLines(v) = [i \in 1 .. k |-> MinOf(p[v.startDoc + i], WalkEnd(v)) - p[v.startDoc + i - 1]]
    BY DEF DocLines
  <1> HIDE DEF k, p
  <1>5. DocLines(v) \in [1 .. k -> Int]
    BY <1>3, <1>4
  <1> QED
    BY <1>1, <1>5 DEF k

-----------------------------------------------------------------------------
(* computeVisible *)

\* The layout depends on the position, the rendering and the height only.
LEMMA SamePosition ==
    ASSUME NEW v, NEW w, w.mode = v.mode, w.ext = v.ext, w.startDoc = v.startDoc,
           w.startLine = v.startLine, w.mainLines = v.mainLines
    PROVE  /\ DocLines(w) = DocLines(v) /\ LastWalked(w) = LastWalked(v)
           /\ NumRows(w) = NumRows(v) /\ Top(w) = Top(v) /\ RowPos(w) = RowPos(v)
           /\ TotalRows(w) = TotalRows(v) /\ WalkEnd(w) = WalkEnd(v)
           /\ FillsScreen(w) = FillsScreen(v)
           /\ \A row : DocAt(w, row) = DocAt(v, row)
  <1>1. RowPos(w) = RowPos(v)
    BY DEF RowPos, Rendering
  <1>2. Top(w) = Top(v) /\ TotalRows(w) = TotalRows(v)
    BY <1>1 DEF Top, TotalRows
  <1>3. FillsScreen(w) = FillsScreen(v)
    BY <1>2 DEF FillsScreen
  <1>4. WalkEnd(w) = WalkEnd(v) /\ NumRows(w) = NumRows(v)
    BY <1>2, <1>3 DEF WalkEnd, NumRows
  <1>5. \A row : DocAt(w, row) = DocAt(v, row)
    BY <1>1 DEF DocAt
  <1>6. LastWalked(w) = LastWalked(v)
    BY <1>3, <1>4, <1>5 DEF LastWalked
  <1>7. DocLines(w) = DocLines(v)
    BY <1>1, <1>4, <1>6 DEF DocLines
  <1> QED
    BY <1>1, <1>2, <1>3, <1>4, <1>5, <1>6, <1>7

\* What computeVisible leaves alone, and what it sets.
LEMMA ComputeVisibleFields ==
    ASSUME NEW v, Callable(v)
    PROVE  LET c == ComputeVisible(v)
           IN  /\ IsView(c) /\ c.startCol = v.startCol
               /\ c.mode = v.mode /\ c.ext = v.ext /\ c.startDoc = v.startDoc
               /\ c.startLine = v.startLine /\ c.mainLines = v.mainLines
               /\ c.cursorLine = v.cursorLine /\ c.jumpToEnd = v.jumpToEnd
               /\ c.ups = v.ups /\ c.goal = v.goal
               /\ c.docLines = DocLines(v) /\ c.lastDoc = LastWalked(v)
               /\ c.lastLine = NumRows(v) - 1
               /\ c.numDocs = IF LastWalked(v) >= v.numDocs THEN LastWalked(v) + 1 ELSE v.numDocs
               /\ c.cursorDoc = IF 0 <= v.cursorLine /\ v.cursorLine < NumRows(v)
                                THEN DocAt(v, Top(v) + v.cursorLine) ELSE v.cursorDoc
               /\ c.proc = IF v.mode = "kTextLogs" /\ (v.startDoc .. LastWalked(v)) \cap Throws # {}
                           THEN "exception" ELSE v.proc
  <1> DEFINE n == IF LastWalked(v) >= v.numDocs THEN LastWalked(v) + 1 ELSE v.numDocs
             k == IF 0 <= v.cursorLine /\ v.cursorLine < NumRows(v)
                  THEN DocAt(v, Top(v) + v.cursorLine) ELSE v.cursorDoc
             throws == v.mode = "kTextLogs" /\ (v.startDoc .. LastWalked(v)) \cap Throws # {}
             u == [v EXCEPT !.docLines = DocLines(v), !.lastDoc = LastWalked(v),
                            !.lastLine = NumRows(v) - 1, !.numDocs = n, !.cursorDoc = k]
  <1>1. IsView(v)
    BY DEF Callable
  <1>0. /\ v.cursorLine \in Int /\ v.cursorDoc \in Docs /\ v.startDoc \in Docs
        /\ v.numDocs \in 1 .. N
    BY <1>1 DEF IsView
  <1>2. DocLines(v) \in Seq(Int) /\ LastWalked(v) \in Docs /\ NumRows(v) \in Nat
    BY <1>1, WalkFacts, DocLinesFacts
  <1>8. n \in 1 .. N
    BY <1>0, <1>2, NAssumption DEF Docs
  <1>3. k \in Docs
    <2>1. CASE 0 <= v.cursorLine /\ v.cursorLine < NumRows(v)
      <3>1. DocAt(v, Top(v) + v.cursorLine) \in v.startDoc .. LastWalked(v)
        BY <1>0, <1>1, <2>1, ShownFacts
      <3> QED
        BY <1>0, <1>2, <2>1, <3>1, NAssumption DEF Docs
    <2>2. CASE ~(0 <= v.cursorLine /\ v.cursorLine < NumRows(v))
      BY <1>0, <2>2
    <2> QED
      BY <2>1, <2>2
  <1>4. ComputeVisible(v) = IF throws THEN [u EXCEPT !.proc = "exception"] ELSE u
    <2>1. ComputeVisible(v) = RenderDocs(u, v.startDoc .. LastWalked(v))
      BY DEF ComputeVisible
    <2>2. u.mode = v.mode
      BY <1>1 DEF IsView
    <2> HIDE DEF u
    <2> QED
      BY <2>1, <2>2 DEF RenderDocs
  <1> HIDE DEF n, k, throws
  <1>5. /\ u.startCol = v.startCol
        /\ u.mode = v.mode /\ u.ext = v.ext /\ u.startDoc = v.startDoc
        /\ u.startLine = v.startLine /\ u.mainLines = v.mainLines
        /\ u.cursorLine = v.cursorLine /\ u.jumpToEnd = v.jumpToEnd
        /\ u.ups = v.ups /\ u.goal = v.goal /\ u.proc = v.proc
        /\ u.docLines = DocLines(v) /\ u.lastDoc = LastWalked(v)
        /\ u.lastLine = NumRows(v) - 1 /\ u.numDocs = n /\ u.cursorDoc = k
    BY <1>1 DEF IsView
  <1>9. IsView(u)
    <2>1. NumRows(v) - 1 \in Int
      BY <1>2
    <2> QED
      BY <1>1, <1>2, <1>3, <1>5, <1>8, <2>1 DEF IsView
  <1> HIDE DEF u
  <1>6. CASE throws
    <2>1. ComputeVisible(v) = [u EXCEPT !.proc = "exception"]
      BY <1>4, <1>6
    <2>2. IsView([u EXCEPT !.proc = "exception"])
      BY <1>9 DEF IsView, ProcStates
    <2> QED
      BY <1>5, <1>6, <1>9, <2>1, <2>2 DEF n, k, throws, IsView
  <1>7. CASE ~throws
    BY <1>4, <1>5, <1>7, <1>9 DEF n, k, throws
  <1> QED
    BY <1>6, <1>7

\* Two views with the same fields are the same view.
LEMMA ViewsAreEqual ==
    ASSUME NEW v, NEW w, IsView(v), IsView(w),
           w.mode = v.mode, w.ext = v.ext, w.startCol = v.startCol,
           w.startDoc = v.startDoc, w.startLine = v.startLine, w.lastDoc = v.lastDoc,
           w.lastLine = v.lastLine, w.docLines = v.docLines, w.cursorLine = v.cursorLine,
           w.cursorDoc = v.cursorDoc, w.mainLines = v.mainLines, w.numDocs = v.numDocs,
           w.jumpToEnd = v.jumpToEnd, w.ups = v.ups, w.goal = v.goal, w.proc = v.proc
    PROVE  w = v
  BY DEF IsView

\* A fresh layout is one that computeVisible does not change.
LEMMA FreshIsStable ==
    ASSUME NEW v, Callable(v), Fresh(v)
    PROVE  ComputeVisible(v) = v
  <1> DEFINE c == ComputeVisible(v)
  <1>1. IsView(v) /\ v.numDocs \in 1 .. N /\ LastWalked(v) \in Docs
    BY WalkFacts DEF Callable, IsView
  <1>2. /\ IsView(c) /\ c.startCol = v.startCol
        /\ c.mode = v.mode /\ c.ext = v.ext /\ c.startDoc = v.startDoc
        /\ c.startLine = v.startLine /\ c.mainLines = v.mainLines
        /\ c.cursorLine = v.cursorLine /\ c.jumpToEnd = v.jumpToEnd
        /\ c.ups = v.ups /\ c.goal = v.goal
        /\ c.docLines = v.docLines /\ c.lastDoc = v.lastDoc /\ c.lastLine = v.lastLine
        /\ c.cursorDoc = v.cursorDoc /\ c.proc = v.proc
    BY ComputeVisibleFields DEF Fresh
  <1>3. c.numDocs = v.numDocs
    <2>1. ~(LastWalked(v) >= v.numDocs)
      BY <1>1, NAssumption DEF Fresh, Docs
    <2> QED
      BY <2>1, ComputeVisibleFields
  <1> QED
    BY <1>1, <1>2, <1>3, ViewsAreEqual

\* computeVisible loads what it walks over and leaves a fresh layout.
LEMMA ComputeVisibleMoves ==
    ASSUME NEW v, NEW x, IsView(v), Reaches(v, x)
    PROVE  /\ Moves(v, ComputeVisible(x))
           /\ ComputeVisible(x).startDoc = x.startDoc
           /\ ComputeVisible(x).startLine = x.startLine
           /\ ComputeVisible(x).mainLines = x.mainLines
           /\ ComputeVisible(x).cursorLine = x.cursorLine
           /\ ComputeVisible(x).mode = x.mode /\ ComputeVisible(x).ext = x.ext
           /\ ComputeVisible(x).jumpToEnd = x.jumpToEnd
           /\ ComputeVisible(x).proc \in {x.proc, "exception"}
  <1> DEFINE c == ComputeVisible(x)
  <1>1. Callable(x) /\ IsView(x)
    BY DEF Reaches, Callable
  <1>2. /\ x.numDocs \in 1 .. N /\ x.cursorDoc \in Docs /\ x.goal \in Docs /\ x.startDoc \in Docs
        /\ x.cursorLine \in Int
        /\ x.cursorDoc < x.numDocs /\ x.goal < x.numDocs
    BY <1>1 DEF Callable, IsView
  <1>3. /\ LastWalked(x) \in x.startDoc .. N - 1 /\ LastWalked(x) \in Docs /\ NumRows(x) \in Nat
        /\ Len(DocLines(x)) > 0
    BY <1>1, WalkFacts, DocLinesFacts
  <1>4. /\ IsView(c) /\ c.startCol = x.startCol
        /\ c.mode = x.mode /\ c.ext = x.ext /\ c.startDoc = x.startDoc
        /\ c.startLine = x.startLine /\ c.mainLines = x.mainLines
        /\ c.cursorLine = x.cursorLine /\ c.jumpToEnd = x.jumpToEnd
        /\ c.ups = x.ups /\ c.goal = x.goal
        /\ c.docLines = DocLines(x) /\ c.lastDoc = LastWalked(x)
        /\ c.lastLine = NumRows(x) - 1
        /\ c.numDocs = IF LastWalked(x) >= x.numDocs THEN LastWalked(x) + 1 ELSE x.numDocs
        /\ c.cursorDoc = IF 0 <= x.cursorLine /\ x.cursorLine < NumRows(x)
                         THEN DocAt(x, Top(x) + x.cursorLine) ELSE x.cursorDoc
        /\ c.proc = IF x.mode = "kTextLogs" /\ (x.startDoc .. LastWalked(x)) \cap Throws # {}
                    THEN "exception" ELSE x.proc
    BY <1>1, ComputeVisibleFields
  <1> HIDE DEF c
  <1>5. LastWalked(x) < c.numDocs /\ c.numDocs >= x.numDocs /\ c.numDocs \in 1 .. N
    BY <1>2, <1>3, <1>4, NAssumption DEF Docs
  <1>6. c.cursorDoc < c.numDocs
    <2>1. CASE 0 <= x.cursorLine /\ x.cursorLine < NumRows(x)
      <3>1. DocAt(x, Top(x) + x.cursorLine) \in x.startDoc .. LastWalked(x)
        BY <1>1, <1>2, <2>1, ShownFacts
      <3>2. c.cursorDoc = DocAt(x, Top(x) + x.cursorLine)
        BY <1>4, <2>1
      <3> QED
        BY <1>2, <1>3, <1>5, <3>1, <3>2, NAssumption DEF Docs
    <2>2. CASE ~(0 <= x.cursorLine /\ x.cursorLine < NumRows(x))
      <3>1. c.cursorDoc = x.cursorDoc
        BY <1>4, <2>2
      <3> QED
        BY <1>2, <1>5, <3>1, NAssumption DEF Docs
    <2> QED
      BY <2>1, <2>2
  <1>7. c.goal < c.numDocs /\ c.startDoc < c.numDocs /\ c.lastDoc < c.numDocs
    BY <1>2, <1>3, <1>4, <1>5, NAssumption DEF Docs
  <1>8. Callable(c) /\ Loaded(c)
    BY <1>3, <1>4, <1>6, <1>7 DEF Callable, Loaded
  <1>9. /\ DocLines(c) = DocLines(x) /\ LastWalked(c) = LastWalked(x)
        /\ NumRows(c) = NumRows(x) /\ Top(c) = Top(x)
        /\ \A row : DocAt(c, row) = DocAt(x, row)
    BY <1>4, SamePosition
  <1>10. Fresh(c)
    BY <1>4, <1>5, <1>9 DEF Fresh
  <1>11. Reaches(v, c)
    <2>1. v.numDocs \in 1 .. N
      BY DEF IsView
    <2>2. c.numDocs >= v.numDocs
      BY <1>2, <1>5, <2>1 DEF Reaches
    <2> QED
      BY <1>4, <1>8, <2>2 DEF Reaches
  <1> QED
    BY <1>4, <1>8, <1>10, <1>11 DEF Moves, c

\* One call after another.
LEMMA ReachesTransitive ==
    ASSUME NEW v, NEW w, NEW u, IsView(v), Reaches(v, w), Reaches(w, u)
    PROVE  Reaches(v, u)
  <1>1. /\ v.numDocs \in 1 .. N /\ w.numDocs \in 1 .. N /\ u.numDocs \in 1 .. N
    BY DEF Reaches, Callable, IsView
  <1> QED
    BY <1>1 DEF Reaches, IsComplete

\* A call that leaves the view consistent, after another call.
LEMMA MovesTransitive ==
    ASSUME NEW v, NEW w, NEW u, IsView(v), Reaches(v, w), Moves(w, u)
    PROVE  Moves(v, u)
  BY ReachesTransitive DEF Moves

\* Nothing done is a call too.
LEMMA ReachesItself ==
    ASSUME NEW v, Callable(v)
    PROVE  Reaches(v, v)
  <1>1. v.numDocs \in 1 .. N
    BY DEF Callable, IsView
  <1> QED
    BY <1>1 DEF Reaches

\* What only moves the view about is a call.
LEMMA SameCacheReaches ==
    ASSUME NEW v, NEW w, Callable(v), IsView(w),
           w.numDocs = v.numDocs, w.cursorDoc = v.cursorDoc, w.jumpToEnd = v.jumpToEnd,
           w.ups = v.ups, w.goal = v.goal, w.proc = v.proc
    PROVE  Reaches(v, w)
  <1>1. v.numDocs \in 1 .. N
    BY DEF Callable, IsView
  <1> QED
    BY <1>1 DEF Reaches, Callable

\* A new column.
LEMMA SetColumn ==
    ASSUME NEW v, Callable(v), NEW col
    PROVE  Reaches(v, [v EXCEPT !.startCol = col])
  <1> DEFINE w == [v EXCEPT !.startCol = col]
  <1>1. IsView(v)
    BY DEF Callable
  <1>2. IsView(w)
    BY <1>1 DEF IsView
  <1>3. /\ w.numDocs = v.numDocs /\ w.cursorDoc = v.cursorDoc /\ w.jumpToEnd = v.jumpToEnd
        /\ w.ups = v.ups /\ w.goal = v.goal /\ w.proc = v.proc
    BY <1>1 DEF IsView
  <1> QED
    BY <1>2, <1>3, SameCacheReaches

\* A new cursor line.
LEMMA SetCursor ==
    ASSUME NEW v, Callable(v), NEW l \in Int
    PROVE  Reaches(v, [v EXCEPT !.cursorLine = l])
  <1> DEFINE w == [v EXCEPT !.cursorLine = l]
  <1>1. IsView(v)
    BY DEF Callable
  <1>2. IsView(w)
    BY <1>1 DEF IsView
  <1>3. /\ w.numDocs = v.numDocs /\ w.cursorDoc = v.cursorDoc /\ w.jumpToEnd = v.jumpToEnd
        /\ w.ups = v.ups /\ w.goal = v.goal /\ w.proc = v.proc
    BY <1>1 DEF IsView
  <1> QED
    BY <1>2, <1>3, SameCacheReaches

\* A new first line.
LEMMA SetLine ==
    ASSUME NEW v, Callable(v), NEW l \in Int
    PROVE  Reaches(v, [v EXCEPT !.startLine = l])
  <1> DEFINE w == [v EXCEPT !.startLine = l]
  <1>1. IsView(v)
    BY DEF Callable
  <1>2. IsView(w)
    BY <1>1 DEF IsView
  <1>3. /\ w.numDocs = v.numDocs /\ w.cursorDoc = v.cursorDoc /\ w.jumpToEnd = v.jumpToEnd
        /\ w.ups = v.ups /\ w.goal = v.goal /\ w.proc = v.proc
    BY <1>1 DEF IsView
  <1> QED
    BY <1>2, <1>3, SameCacheReaches

\* A new first document.
LEMMA SetDoc ==
    ASSUME NEW v, Callable(v), NEW d \in Docs
    PROVE  Reaches(v, [v EXCEPT !.startDoc = d])
  <1> DEFINE w == [v EXCEPT !.startDoc = d]
  <1>1. IsView(v)
    BY DEF Callable
  <1>2. IsView(w)
    BY <1>1 DEF IsView
  <1>3. /\ w.numDocs = v.numDocs /\ w.cursorDoc = v.cursorDoc /\ w.jumpToEnd = v.jumpToEnd
        /\ w.ups = v.ups /\ w.goal = v.goal /\ w.proc = v.proc
    BY <1>1 DEF IsView
  <1> QED
    BY <1>2, <1>3, SameCacheReaches

\* A new first document and line.
LEMMA SetPosition ==
    ASSUME NEW v, Callable(v), NEW d \in Docs, NEW l \in Int
    PROVE  Reaches(v, [v EXCEPT !.startDoc = d, !.startLine = l])
  <1> DEFINE w == [v EXCEPT !.startDoc = d, !.startLine = l]
  <1>1. IsView(v)
    BY DEF Callable
  <1>2. IsView(w)
    BY <1>1 DEF IsView
  <1>3. /\ w.numDocs = v.numDocs /\ w.cursorDoc = v.cursorDoc /\ w.jumpToEnd = v.jumpToEnd
        /\ w.ups = v.ups /\ w.goal = v.goal /\ w.proc = v.proc
    BY <1>1 DEF IsView
  <1> QED
    BY <1>2, <1>3, SameCacheReaches

\* A new cursor line and first line.
LEMMA SetCursorAndLine ==
    ASSUME NEW v, Callable(v), NEW c \in Int, NEW l \in Int
    PROVE  Reaches(v, [v EXCEPT !.cursorLine = c, !.startLine = l])
  <1> DEFINE w == [v EXCEPT !.cursorLine = c, !.startLine = l]
  <1>1. IsView(v)
    BY DEF Callable
  <1>2. IsView(w)
    BY <1>1 DEF IsView
  <1>3. /\ w.numDocs = v.numDocs /\ w.cursorDoc = v.cursorDoc /\ w.jumpToEnd = v.jumpToEnd
        /\ w.ups = v.ups /\ w.goal = v.goal /\ w.proc = v.proc
    BY <1>1 DEF IsView
  <1> QED
    BY <1>2, <1>3, SameCacheReaches

\* Another rendering.
LEMMA SetMode ==
    ASSUME NEW v, Callable(v), NEW mode \in Modes, NEW col
    PROVE  Reaches(v, [v EXCEPT !.mode = mode, !.startCol = col])
  <1> DEFINE w == [v EXCEPT !.mode = mode, !.startCol = col]
  <1>1. IsView(v)
    BY DEF Callable
  <1>2. IsView(w)
    BY <1>1 DEF IsView
  <1>3. /\ w.numDocs = v.numDocs /\ w.cursorDoc = v.cursorDoc /\ w.jumpToEnd = v.jumpToEnd
        /\ w.ups = v.ups /\ w.goal = v.goal /\ w.proc = v.proc
    BY <1>1 DEF IsView
  <1> QED
    BY <1>2, <1>3, SameCacheReaches

\* Another JSON format.
LEMMA SetExt ==
    ASSUME NEW v, Callable(v), NEW ext \in JsonFormats
    PROVE  Reaches(v, [v EXCEPT !.ext = ext])
  <1> DEFINE w == [v EXCEPT !.ext = ext]
  <1>1. IsView(v)
    BY DEF Callable
  <1>2. IsView(w)
    BY <1>1 DEF IsView
  <1>3. /\ w.numDocs = v.numDocs /\ w.cursorDoc = v.cursorDoc /\ w.jumpToEnd = v.jumpToEnd
        /\ w.ups = v.ups /\ w.goal = v.goal /\ w.proc = v.proc
    BY <1>1 DEF IsView
  <1> QED
    BY <1>2, <1>3, SameCacheReaches

\* Another height.
LEMMA SetHeight ==
    ASSUME NEW v, Callable(v), NEW lines \in Nat \ {0}
    PROVE  Reaches(v, [v EXCEPT !.mainLines = lines])
  <1> DEFINE w == [v EXCEPT !.mainLines = lines]
  <1>1. IsView(v)
    BY DEF Callable
  <1>2. IsView(w)
    BY <1>1 DEF IsView
  <1>3. /\ w.numDocs = v.numDocs /\ w.cursorDoc = v.cursorDoc /\ w.jumpToEnd = v.jumpToEnd
        /\ w.ups = v.ups /\ w.goal = v.goal /\ w.proc = v.proc
    BY <1>1 DEF IsView
  <1> QED
    BY <1>2, <1>3, SameCacheReaches

\* An exception ends the process and changes nothing else.
LEMMA RenderDocsReaches ==
    ASSUME NEW v, Callable(v), NEW ds
    PROVE  LET w == RenderDocs(v, ds)
           IN  /\ Reaches(v, w)
               /\ Loaded(v) => Loaded(w)
               /\ Fresh(v) => Fresh(w)
               /\ w.mode = v.mode /\ w.ext = v.ext /\ w.startDoc = v.startDoc
               /\ w.startLine = v.startLine /\ w.mainLines = v.mainLines
               /\ w.cursorLine = v.cursorLine /\ w.numDocs = v.numDocs
               /\ w.jumpToEnd = v.jumpToEnd
  <1> DEFINE w == [v EXCEPT !.proc = "exception"]
  <1>1. v.numDocs \in 1 .. N /\ IsView(v)
    BY DEF Callable, IsView
  <1>2. IsView(w)
    BY <1>1 DEF IsView, ProcStates
  <1>3. /\ w.mode = v.mode /\ w.ext = v.ext /\ w.startDoc = v.startDoc
        /\ w.startLine = v.startLine /\ w.mainLines = v.mainLines
        /\ w.cursorLine = v.cursorLine /\ w.numDocs = v.numDocs
        /\ w.cursorDoc = v.cursorDoc /\ w.lastDoc = v.lastDoc /\ w.lastLine = v.lastLine
        /\ w.docLines = v.docLines /\ w.jumpToEnd = v.jumpToEnd
        /\ w.ups = v.ups /\ w.goal = v.goal /\ w.proc = "exception"
    BY <1>1 DEF IsView
  <1>4. RenderDocs(v, ds) \in {v, w}
    BY DEF RenderDocs
  <1> HIDE DEF w
  <1>5. /\ DocLines(w) = DocLines(v) /\ LastWalked(w) = LastWalked(v)
        /\ NumRows(w) = NumRows(v) /\ Top(w) = Top(v)
        /\ \A row : DocAt(w, row) = DocAt(v, row)
    BY <1>3, SamePosition
  <1>6. Callable(w) /\ (Loaded(v) => Loaded(w))
    BY <1>2, <1>3 DEF Callable, Loaded
  <1>7. Fresh(v) => Fresh(w)
    BY <1>3, <1>5 DEF Fresh
  <1>8. Reaches(v, w)
    BY <1>1, <1>3, <1>6 DEF Reaches, IsComplete
  <1> QED
    BY <1>3, <1>4, <1>6, <1>7, <1>8, ReachesItself

-----------------------------------------------------------------------------
(* The cursor and the columns *)

\* A cursor movement changes nothing but the cursor, and keeps a fresh layout fresh.
Follows(v, w) ==
    /\ Reaches(v, w) /\ Loaded(w)
    /\ Fresh(v) => Fresh(w)
    /\ w.startDoc = v.startDoc /\ w.startLine = v.startLine /\ w.mainLines = v.mainLines
    /\ w.mode = v.mode /\ w.ext = v.ext

\* The cursor goes to a line, wherever that is, and computeVisible finds its document.
LEMMA CursorToFollows ==
    ASSUME NEW v, Loaded(v), NEW target \in Int
    PROVE  Follows(v, CursorTo(v, target))
  <1> DEFINE x == [v EXCEPT !.cursorLine = target]
  <1>1. Callable(v) /\ IsView(v)
    BY DEF Loaded, Callable
  <1>2. CASE v.cursorLine # target
    <2>1. Reaches(v, x)
      BY <1>1, SetCursor
    <2>2. /\ x.startDoc = v.startDoc /\ x.startLine = v.startLine /\ x.mainLines = v.mainLines
          /\ x.mode = v.mode /\ x.ext = v.ext
      BY <1>1 DEF IsView
    <2>3. CursorTo(v, target) = ComputeVisible(x)
      BY <1>2 DEF CursorTo
    <2> HIDE DEF x
    <2> QED
      BY <1>1, <2>1, <2>2, <2>3, ComputeVisibleMoves DEF Follows, Moves
  <1>3. CASE v.cursorLine = target
    BY <1>1, <1>3, ReachesItself DEF CursorTo, Follows
  <1> QED
    BY <1>2, <1>3

\* The five cursor movements.
LEMMA CursorFollows ==
    ASSUME NEW v, Loaded(v)
    PROVE  /\ Follows(v, CursorTop(v)) /\ Follows(v, CursorMiddle(v))
           /\ Follows(v, CursorBottom(v)) /\ Follows(v, CursorUp(v)) /\ Follows(v, CursorDown(v))
  <1>1. /\ Callable(v) /\ v.cursorLine \in Int /\ v.mainLines \in Nat \ {0}
        /\ v.lastLine \in Int
    BY DEF Loaded, Callable, IsView
  <1>2. /\ 0 \in Int /\ MinOf(v.mainLines \div 2, v.lastLine) \in Int
        /\ MinOf(v.mainLines - 1, v.lastLine) \in Int
        /\ v.cursorLine - 1 \in Int /\ v.cursorLine + 1 \in Int
    BY <1>1 DEF MinOf
  <1>3. Follows(v, v)
    BY <1>1, ReachesItself DEF Follows
  <1> QED
    BY <1>2, <1>3, CursorToFollows
       DEF CursorTop, CursorMiddle, CursorBottom, CursorUp, CursorDown

\* After a call that leaves the view consistent the cursor may follow.
LEMMA MovesThenFollows ==
    ASSUME NEW v, NEW w, NEW u, IsView(v), Moves(v, w), Follows(w, u)
    PROVE  Moves(v, u)
  BY ReachesTransitive DEF Moves, Follows

\* From a consistent view a cursor movement leads to a consistent view.
LEMMA FollowsMoves ==
    ASSUME NEW v, NEW w, Fresh(v), Follows(v, w)
    PROVE  Moves(v, w)
  BY DEF Moves, Follows

\* Nothing done to a consistent view leaves it consistent.
LEMMA MovesNowhere ==
    ASSUME NEW v, Loaded(v), Fresh(v)
    PROVE  Moves(v, v)
  BY ReachesItself DEF Moves, Loaded

\* The four movements of the columns.
LEMMA ColumnsMove ==
    ASSUME NEW v, Loaded(v), Fresh(v)
    PROVE  /\ Moves(v, MoveLeft(v)) /\ Moves(v, MoveRight(v))
           /\ Moves(v, JumpLeft(v)) /\ Moves(v, JumpRight(v))
  <1>1. Callable(v) /\ IsView(v) /\ Moves(v, v)
    BY MovesNowhere DEF Loaded, Callable
  <1>2. ASSUME NEW col
        PROVE  Moves(v, ComputeVisible([v EXCEPT !.startCol = col]))
    BY <1>1, SetColumn, ComputeVisibleMoves
  <1>3. Moves(v, MoveLeft(v))
    BY <1>1, <1>2 DEF MoveLeft
  <1>4. Moves(v, MoveRight(v))
    BY <1>1, <1>2 DEF MoveRight
  <1>5. Moves(v, JumpLeft(v))
    BY <1>1, <1>2 DEF JumpLeft
  <1>6. Moves(v, JumpRight(v))
    BY <1>1, <1>2 DEF JumpRight
  <1> QED
    BY <1>3, <1>4, <1>5, <1>6

-----------------------------------------------------------------------------
(* Scrolling *)

\* The number that moveUp and moveDown read from _docLines.
LEMMA FirstDocLines ==
    ASSUME NEW v, Loaded(v)
    PROVE  v.docLines[1] \in Int /\ BackDocLines(v) \in Int
  <1>1. v.docLines \in Seq(Int) /\ Len(v.docLines) > 0
    BY DEF Loaded, Callable, IsView
  <1> QED
    BY <1>1 DEF BackDocLines

\* moveDown, from any view that computeVisible may be called on.
LEMMA MoveDownMoves ==
    ASSUME NEW v, Callable(v)
    PROVE  Moves(v, MoveDown(v))
  <1> DEFINE w == ComputeVisible(v)
             x == [w EXCEPT !.startLine = w.startLine + 1]
             y == [w EXCEPT !.startDoc = w.startDoc + 1, !.startLine = 0]
  <1>1. IsView(v) /\ Moves(v, w)
    BY ReachesItself, ComputeVisibleMoves DEF Callable
  <1>2. /\ Callable(w) /\ IsView(w) /\ Loaded(w) /\ Fresh(w) /\ Reaches(v, w)
        /\ w.startLine \in Int /\ w.startDoc \in Docs /\ w.numDocs \in 1 .. N
        /\ w.startDoc < w.numDocs
    BY <1>1 DEF Moves, Loaded, Callable, IsView
  <1>3. MoveDown(v) = IF w.startLine # w.docLines[1] - 1 THEN CursorUp(ComputeVisible(x))
                      ELSE IF ~IsComplete(w) \/ w.startDoc < w.numDocs - 1
                      THEN CursorUp(ComputeVisible(y)) ELSE w
    BY DEF MoveDown
  <1> HIDE DEF w
  <1>4. Moves(v, CursorUp(ComputeVisible(x)))
    <2>1. Reaches(w, x)
      BY <1>2, SetLine
    <2>2. Moves(v, ComputeVisible(x))
      BY <1>1, <1>2, <2>1, ComputeVisibleMoves, MovesTransitive
    <2> HIDE DEF x
    <2> QED
      BY <1>1, <2>2, CursorFollows, MovesThenFollows DEF Moves
  <1>5. ASSUME ~IsComplete(w) \/ w.startDoc < w.numDocs - 1
        PROVE  Moves(v, CursorUp(ComputeVisible(y)))
    <2>1. w.startDoc + 1 \in Docs /\ 0 \in Int
      BY <1>2, <1>5, NAssumption DEF IsComplete, Docs
    <2>2. Reaches(w, y)
      BY <1>2, <2>1, SetPosition
    <2>3. Moves(v, ComputeVisible(y))
      BY <1>1, <1>2, <2>2, ComputeVisibleMoves, MovesTransitive
    <2> HIDE DEF y
    <2> QED
      BY <1>1, <2>3, CursorFollows, MovesThenFollows DEF Moves
  <1> QED
    BY <1>1, <1>3, <1>4, <1>5

\* moveUp, from any view that computeVisible may be called on.
LEMMA MoveUpMoves ==
    ASSUME NEW v, Callable(v)
    PROVE  Moves(v, MoveUp(v))
  <1> DEFINE w == ComputeVisible(v)
             x == [w EXCEPT !.startLine = w.startLine - 1]
             y == [w EXCEPT !.startDoc = w.startDoc - 1, !.startLine = w.docLines[1] - 1]
  <1>1. IsView(v) /\ Moves(v, w)
    BY ReachesItself, ComputeVisibleMoves DEF Callable
  <1>2. /\ Callable(w) /\ IsView(w) /\ Loaded(w) /\ Fresh(w) /\ Reaches(v, w)
        /\ w.startLine \in Int /\ w.startDoc \in Docs /\ w.docLines[1] \in Int
    BY <1>1, FirstDocLines DEF Moves, Loaded, Callable, IsView
  <1>3. MoveUp(v) = IF w.startLine # 0 THEN CursorDown(ComputeVisible(x))
                    ELSE IF w.startDoc > 0 THEN CursorDown(ComputeVisible(y)) ELSE w
    BY DEF MoveUp
  <1> HIDE DEF w
  <1>4. Moves(v, CursorDown(ComputeVisible(x)))
    <2>1. Reaches(w, x)
      BY <1>2, SetLine
    <2>2. Moves(v, ComputeVisible(x))
      BY <1>1, <1>2, <2>1, ComputeVisibleMoves, MovesTransitive
    <2> HIDE DEF x
    <2> QED
      BY <1>1, <2>2, CursorFollows, MovesThenFollows DEF Moves
  <1>5. ASSUME w.startDoc > 0
        PROVE  Moves(v, CursorDown(ComputeVisible(y)))
    <2>1. w.startDoc - 1 \in Docs /\ w.docLines[1] - 1 \in Int
      BY <1>2, <1>5, NAssumption DEF Docs
    <2>2. Reaches(w, y)
      BY <1>2, <2>1, SetPosition
    <2>3. Moves(v, ComputeVisible(y))
      BY <1>1, <1>2, <2>2, ComputeVisibleMoves, MovesTransitive
    <2> HIDE DEF y
    <2> QED
      BY <1>1, <2>3, CursorFollows, MovesThenFollows DEF Moves
  <1> QED
    BY <1>1, <1>3, <1>4, <1>5

\* Up and Down.
LEMMA MoveCursorMoves ==
    ASSUME NEW v, Loaded(v), Fresh(v)
    PROVE  Moves(v, MoveCursorUp(v)) /\ Moves(v, MoveCursorDown(v))
  <1>1. Callable(v) /\ IsView(v) /\ Moves(v, v) /\ Moves(v, MoveUp(v)) /\ Moves(v, MoveDown(v))
    BY MovesNowhere, MoveUpMoves, MoveDownMoves DEF Loaded, Callable
  <1>2. ASSUME NEW w, Moves(v, w)
        PROVE  Moves(v, CursorUp(w)) /\ Moves(v, CursorDown(w))
    BY <1>1, <1>2, CursorFollows, MovesThenFollows DEF Moves
  <1> QED
    BY <1>1, <1>2 DEF MoveCursorUp, MoveCursorDown

\* Home.
LEMMA JumpUpMoves ==
    ASSUME NEW v, Loaded(v), Fresh(v)
    PROVE  Moves(v, JumpUp(v))
  <1> DEFINE x == [v EXCEPT !.startDoc = 0, !.startLine = 0]
  <1>1. Callable(v) /\ IsView(v) /\ Moves(v, v)
    BY MovesNowhere DEF Loaded, Callable
  <1>2. Moves(v, ComputeVisible(x))
    <2>1. 0 \in Docs /\ 0 \in Int
      BY NAssumption DEF Docs
    <2>2. Reaches(v, x)
      BY <1>1, <2>1, SetPosition
    <2> QED
      BY <1>1, <2>2, ComputeVisibleMoves
  <1>3. ASSUME NEW w, Moves(v, w)
        PROVE  Moves(v, CursorTop(w))
    BY <1>1, <1>3, CursorFollows, MovesThenFollows DEF Moves
  <1> HIDE DEF x
  <1> QED
    BY <1>1, <1>2, <1>3 DEF JumpUp, x

-----------------------------------------------------------------------------
(* End and the pages *)

\* All but less than a screen of the whole file is skipped, or the file is shorter.
PastTheEnd(v) == TotalRows(v) - Top(At(v, 0)) < v.mainLines - 1

\* jumpDown did not find a document to stop at.
Hangs(v, w) ==
    /\ w.proc \in {"hung", "exception"}
    /\ Loaded(w) /\ w.numDocs >= v.numDocs
    /\ w.jumpToEnd => v.jumpToEnd \/ ~IsComplete(v)
    /\ w.ups = v.ups /\ w.goal = v.goal
    /\ PastTheEnd(w)

\* Another first document.
LEMMA AtFields ==
    ASSUME NEW v, Callable(v), NEW s \in Docs
    PROVE  /\ Reaches(v, At(v, s)) /\ IsView(At(v, s))
           /\ At(v, s).startDoc = s /\ At(v, s).startLine = v.startLine
           /\ At(v, s).mainLines = v.mainLines /\ At(v, s).numDocs = v.numDocs
           /\ At(v, s).mode = v.mode /\ At(v, s).ext = v.ext
           /\ At(v, s).cursorLine = v.cursorLine
  <1>1. IsView(v)
    BY DEF Callable
  <1>2. Reaches(v, At(v, s))
    BY SetDoc DEF At
  <1>3. /\ At(v, s).startDoc = s /\ At(v, s).startLine = v.startLine
        /\ At(v, s).mainLines = v.mainLines /\ At(v, s).numDocs = v.numDocs
        /\ At(v, s).mode = v.mode /\ At(v, s).ext = v.ext
        /\ At(v, s).cursorLine = v.cursorLine
    BY <1>1 DEF At, IsView
  <1> QED
    BY <1>2, <1>3 DEF Reaches, Callable

\* Every nonempty set of document numbers has a largest element.
LEMMA LastDocExists ==
    ASSUME NEW T, T \subseteq Docs, T # {}
    PROVE  \E x \in T : \A y \in T : y <= x
  <1> DEFINE R == OpToRel(<, Nat)
             U == {N - 1 - d : d \in T}
  <1>1. U \subseteq Nat /\ U # {}
    <2>1. ASSUME NEW d \in T PROVE N - 1 - d \in Nat
      <3>1. d \in 0 .. N - 1
        BY DEF Docs
      <3> HIDE DEF R, U
      <3> QED
        BY <3>1, NAssumption
    <2>2. U # {}
      OBVIOUS
    <2> QED
      BY <2>1, <2>2
  <1>2. IsWellFoundedOn(R, Nat)
    BY NatLessThanWellFounded
  <1> HIDE DEF R
  <1>3. PICK u \in U : \A w \in U : ~ (<<w, u>> \in R)
    <2> HIDE DEF U
    <2> QED
      BY <1>1, <1>2, WFMin
  <1>4. PICK x \in T : u = N - 1 - x
    OBVIOUS
  <1>5. ASSUME NEW y \in T PROVE y <= x
    <2>1. N - 1 - y \in U /\ N - 1 - y \in Nat /\ u \in Nat
      BY <1>1
    <2>2. ~ (<<N - 1 - y, u>> \in {ss \in Nat \X Nat : ss[1] < ss[2]})
      BY <1>3, <2>1 DEF R, OpToRel
    <2>3. ~(N - 1 - y < u)
      BY <2>1, <2>2
    <2> QED
      BY <1>4, <2>3, NAssumption DEF Docs
  <1> QED
    BY <1>5

\* When the loop of jumpDown stops nowhere, not even the whole file fills the screen.
LEMMA NowhereToStop ==
    ASSUME NEW v, Callable(v), ~ \E s \in Docs : JumpDownStopsAt(v, s)
    PROVE  PastTheEnd(v)
  <1> DEFINE Fills(s) == NumRows(At(v, s)) - 1 >= v.mainLines - 2
             T == {s \in Docs : Fills(s)}
  <1>1. ASSUME NEW s \in Docs
        PROVE  NumRows(At(v, s)) \in Nat /\ v.mainLines \in Nat \ {0}
    BY <1>1, AtFields, WalkFacts DEF Callable, IsView
  <1>2. T = {}
    <2>1. SUFFICES ASSUME T # {} PROVE FALSE
      OBVIOUS
    <2>2. PICK x \in T : \A y \in T : y <= x
      <3>1. T \subseteq Docs
        OBVIOUS
      <3> HIDE DEF T
      <3> QED
        BY <2>1, <3>1, LastDocExists
    <2>3. ASSUME NEW later \in x + 1 .. N - 1
          PROVE  NumRows(At(v, later)) - 1 < v.mainLines - 2
      <3>1. later \in Docs /\ later > x
        BY <2>3, NAssumption DEF Docs
      <3>2. later \notin T
        BY <2>2, <3>1, NAssumption DEF Docs
      <3> QED
        BY <1>1, <3>1, <3>2
    <2>4. JumpDownStopsAt(v, x)
      BY <2>2, <2>3 DEF JumpDownStopsAt
    <2> QED
      BY <2>2, <2>4
  <1>3. 0 \in Docs
    BY NAssumption DEF Docs
  <1>4. NumRows(At(v, 0)) - 1 < v.mainLines - 2
    BY <1>1, <1>2, <1>3
  <1>5. /\ IsView(At(v, 0)) /\ At(v, 0).mainLines = v.mainLines
        /\ RowPos(At(v, 0)) = RowPos(v)
    BY <1>3, AtFields DEF RowPos, Rendering
  <1>6. TotalRows(At(v, 0)) = TotalRows(v) /\ TotalRows(v) \in Nat /\ Top(At(v, 0)) \in Nat
    <2>1. TotalRows(At(v, 0)) = TotalRows(v)
      BY <1>5 DEF TotalRows
    <2> QED
      BY <1>5, <2>1, WalkFacts
  <1> QED
    BY <1>1, <1>3, <1>4, <1>5, <1>6 DEF NumRows, FillsScreen, PastTheEnd

\* jumpDown: End, or the end of loading after it was asked for.
LEMMA JumpDownMoves ==
    ASSUME NEW v, Loaded(v), Fresh(v)
    PROVE  /\ Moves(v, JumpDown(v)) \/ Hangs(v, JumpDown(v))
           /\ IsComplete(v) /\ JumpDown(v).proc = "running" => ~JumpDown(v).jumpToEnd
  <1>1. Callable(v) /\ IsView(v) /\ v.numDocs \in 1 .. N /\ v.jumpToEnd \in BOOLEAN
    BY DEF Loaded, Callable, IsView
  <1>2. CASE ~IsComplete(v)
    <2> DEFINE w == [v EXCEPT !.jumpToEnd = TRUE]
    <2>1. JumpDown(v) = w
      BY <1>2 DEF JumpDown
    <2>2. /\ IsView(w)
          /\ w.mode = v.mode /\ w.ext = v.ext /\ w.startDoc = v.startDoc
          /\ w.startLine = v.startLine /\ w.mainLines = v.mainLines
          /\ w.cursorLine = v.cursorLine /\ w.numDocs = v.numDocs
          /\ w.cursorDoc = v.cursorDoc /\ w.lastDoc = v.lastDoc /\ w.lastLine = v.lastLine
          /\ w.docLines = v.docLines /\ w.ups = v.ups /\ w.goal = v.goal /\ w.proc = v.proc
      BY <1>1 DEF IsView
    <2> HIDE DEF w
    <2>3. /\ DocLines(w) = DocLines(v) /\ LastWalked(w) = LastWalked(v)
          /\ NumRows(w) = NumRows(v) /\ Top(w) = Top(v)
          /\ \A row : DocAt(w, row) = DocAt(v, row)
      BY <2>2, SamePosition
    <2>4. Callable(w) /\ Loaded(w) /\ Fresh(w)
      BY <2>2, <2>3 DEF Callable, Loaded, Fresh
    <2>5. Reaches(v, w)
      BY <1>1, <1>2, <2>2, <2>4 DEF Reaches
    <2> QED
      BY <1>2, <2>1, <2>2, <2>4, <2>5 DEF Moves
  <1>3. CASE IsComplete(v) /\ \E s \in Docs : JumpDownStopsAt(v, s)
    <2> DEFINE s == CHOOSE s \in Docs : JumpDownStopsAt(v, s)
               w == RenderDocs(ComputeVisible(At(v, s)), s .. N - 1)
               x == [w EXCEPT !.startLine = TotalDocLines(w) - (w.mainLines - 2)]
               b == CursorBottom(ComputeVisible(x))
               e == [b EXCEPT !.jumpToEnd = FALSE]
    <2>1. s \in Docs
      BY <1>3
    <2>2. JumpDown(v) = e
      BY <1>3 DEF JumpDown
    <2> HIDE DEF s
    <2>3. Moves(v, ComputeVisible(At(v, s)))
      BY <1>1, <2>1, AtFields, ComputeVisibleMoves
    <2>4. Reaches(v, w) /\ Callable(w)
      BY <1>1, <2>3, RenderDocsReaches, ReachesTransitive DEF Moves, Reaches
    <2> HIDE DEF w
    <2>5. IsView(w) /\ TotalDocLines(w) - (w.mainLines - 2) \in Int
      <3>1. IsView(w) /\ w.mainLines \in Nat
        BY <2>4 DEF Callable, IsView
      <3> QED
        BY <3>1, WalkFacts DEF TotalDocLines
    <2>6. Reaches(v, x)
      BY <1>1, <2>4, <2>5, SetLine, ReachesTransitive
    <2> HIDE DEF x
    <2>7. Moves(v, b)
      BY <1>1, <2>6, ComputeVisibleMoves, CursorFollows, MovesThenFollows DEF Moves
    <2> HIDE DEF b
    <2>8. /\ IsView(b) /\ Callable(b) /\ Loaded(b) /\ Fresh(b) /\ Reaches(v, b)
      BY <2>7 DEF Moves, Loaded, Callable
    <2>9. /\ IsView(e) /\ e.jumpToEnd = FALSE
          /\ e.mode = b.mode /\ e.ext = b.ext /\ e.startDoc = b.startDoc
          /\ e.startLine = b.startLine /\ e.mainLines = b.mainLines
          /\ e.cursorLine = b.cursorLine /\ e.numDocs = b.numDocs
          /\ e.cursorDoc = b.cursorDoc /\ e.lastDoc = b.lastDoc /\ e.lastLine = b.lastLine
          /\ e.docLines = b.docLines /\ e.ups = b.ups /\ e.goal = b.goal /\ e.proc = b.proc
      BY <2>8 DEF IsView
    <2> HIDE DEF e
    <2>10. /\ DocLines(e) = DocLines(b) /\ LastWalked(e) = LastWalked(b)
           /\ NumRows(e) = NumRows(b) /\ Top(e) = Top(b)
           /\ \A row : DocAt(e, row) = DocAt(b, row)
      BY <2>9, SamePosition
    <2>11. Callable(e) /\ Loaded(e) /\ Fresh(e)
      BY <2>8, <2>9, <2>10 DEF Callable, Loaded, Fresh
    <2>12. Reaches(v, e)
      BY <2>8, <2>9, <2>11 DEF Reaches
    <2> QED
      BY <2>2, <2>9, <2>11, <2>12 DEF Moves, Reaches
  <1>4. CASE IsComplete(v) /\ ~ \E s \in Docs : JumpDownStopsAt(v, s)
    <2> DEFINE h == [v EXCEPT !.proc = "hung"]
               r == RenderDocs(h, Docs)
    <2>1. JumpDown(v) = r
      BY <1>4 DEF JumpDown
    <2>2. /\ IsView(h) /\ h.cursorDoc = v.cursorDoc /\ h.goal = v.goal /\ h.numDocs = v.numDocs
          /\ h.startDoc = v.startDoc /\ h.lastDoc = v.lastDoc /\ h.docLines = v.docLines
          /\ h.mode = v.mode /\ h.ext = v.ext /\ h.startLine = v.startLine
          /\ h.mainLines = v.mainLines /\ h.jumpToEnd = v.jumpToEnd /\ h.ups = v.ups
          /\ h.proc = "hung"
      BY <1>1 DEF IsView, ProcStates
    <2> HIDE DEF h
    <2>3. Loaded(h) /\ Callable(h)
      BY <2>2 DEF Loaded, Callable
    <2>4. /\ Loaded(r) /\ Callable(r) /\ r.proc \in {"hung", "exception"}
          /\ r.numDocs = v.numDocs /\ r.jumpToEnd = v.jumpToEnd
          /\ r.ups = v.ups /\ r.goal = v.goal
          /\ r.mode = v.mode /\ r.ext = v.ext /\ r.startLine = v.startLine
          /\ r.mainLines = v.mainLines
      BY <2>2, <2>3, RenderDocsReaches DEF Reaches
    <2> HIDE DEF r
    <2>5. PastTheEnd(v)
      BY <1>1, <1>4, NowhereToStop
    <2>6. PastTheEnd(r)
      <3>0. 0 \in Docs
        BY NAssumption DEF Docs
      <3>1. /\ At(r, 0).startDoc = At(v, 0).startDoc /\ At(r, 0).startLine = At(v, 0).startLine
            /\ At(r, 0).mainLines = At(v, 0).mainLines /\ At(r, 0).mode = At(v, 0).mode
            /\ At(r, 0).ext = At(v, 0).ext
        BY <1>1, <2>4, <3>0, AtFields
      <3>2. Top(At(r, 0)) = Top(At(v, 0))
        BY <3>1, SamePosition
      <3>3. TotalRows(r) = TotalRows(v)
        BY <2>4 DEF TotalRows, RowPos, Rendering
      <3> QED
        BY <2>4, <2>5, <3>2, <3>3 DEF PastTheEnd
    <2> QED
      BY <1>1, <2>1, <2>4, <2>6 DEF Hangs
  <1> QED
    BY <1>2, <1>3, <1>4

\* A view that is moved away from its documents still names loaded ones.
LEMMA LoadedElsewhere ==
    ASSUME NEW w, NEW y, Loaded(w), Callable(y), y.numDocs = w.numDocs,
           y.startDoc \in {w.startDoc, w.lastDoc}, y.lastDoc = w.lastDoc, y.docLines = w.docLines
    PROVE  Loaded(y)
  BY DEF Loaded

\* pageUp.
LEMMA PageUpMoves ==
    ASSUME NEW v, Loaded(v), Fresh(v)
    PROVE  Moves(v, PageUp(v))
  <1>1. Callable(v) /\ IsView(v) /\ v.startDoc \in Docs
    BY DEF Loaded, Callable, IsView
  <1>2. CASE v.startDoc = 0 /\ v.startLine = 0
    BY <1>2, CursorFollows, FollowsMoves DEF PageUp
  <1>3. CASE /\ ~(v.startDoc = 0 /\ v.startLine = 0)
             /\ \E s \in 0 .. v.startDoc : PageUpStopsAt(v, s)
    <2> DEFINE s == CHOOSE s \in 0 .. v.startDoc : PageUpStopsAt(v, s)
               w == ComputeVisible(At(v, s))
               l == TotalDocLines(w) - (BackDocLines(w) - w.startLine) - w.mainLines
               y == [w EXCEPT !.startLine = l]
               b == CursorBottom(y)
    <2>1. PageUp(v) = ComputeVisible(b)
      BY <1>3 DEF PageUp
    <2>2. s \in Docs
      <3>1. s \in 0 .. v.startDoc
        BY <1>3
      <3> HIDE DEF s
      <3> QED
        BY <1>1, <3>1, NAssumption DEF Docs
    <2> HIDE DEF s
    <2>3. Moves(v, w)
      BY <1>1, <2>2, AtFields, ComputeVisibleMoves
    <2> HIDE DEF w
    <2>4. /\ Callable(w) /\ IsView(w) /\ Loaded(w) /\ Reaches(v, w)
          /\ w.startLine \in Int /\ w.mainLines \in Nat
      BY <2>3 DEF Moves, Loaded, Callable, IsView
    <2>5. l \in Int
      BY <2>4, WalkFacts, FirstDocLines DEF TotalDocLines
    <2> HIDE DEF l
    <2>6. Reaches(w, y)
      BY <2>4, <2>5, SetLine
    <2>7. /\ y.numDocs = w.numDocs /\ y.startDoc = w.startDoc /\ y.lastDoc = w.lastDoc
          /\ y.docLines = w.docLines
      BY <2>4 DEF IsView
    <2> HIDE DEF y
    <2>8. Loaded(y)
      BY <2>4, <2>6, <2>7, LoadedElsewhere DEF Reaches
    <2>9. Reaches(y, b)
      BY <2>8, CursorFollows DEF Follows
    <2>10. Reaches(v, b)
      <3>1. Reaches(v, y)
        BY <1>1, <2>4, <2>6, ReachesTransitive
      <3> HIDE DEF b
      <3> QED
        BY <1>1, <2>9, <3>1, ReachesTransitive
    <2> HIDE DEF b
    <2> QED
      BY <1>1, <2>1, <2>10, ComputeVisibleMoves
  <1>4. CASE /\ ~(v.startDoc = 0 /\ v.startLine = 0)
             /\ ~ \E s \in 0 .. v.startDoc : PageUpStopsAt(v, s)
    <2> DEFINE w == RenderDocs(ComputeVisible(At(v, 0)), 0 .. v.startDoc)
               above == MinOf(RowPos(w)[v.startDoc], TotalDocLines(w))
               c == MinOf(w.cursorLine + above + w.startLine, w.mainLines - 1)
               x == [w EXCEPT !.cursorLine = c, !.startLine = 0]
    <2>1. PageUp(v) = ComputeVisible(x)
      BY <1>4 DEF PageUp
    <2>2. 0 \in Docs /\ 0 \in Int
      BY NAssumption DEF Docs
    <2>3. Moves(v, ComputeVisible(At(v, 0)))
      BY <1>1, <2>2, AtFields, ComputeVisibleMoves
    <2>4. Reaches(v, w)
      BY <1>1, <2>3, RenderDocsReaches, ReachesTransitive DEF Moves, Reaches
    <2> HIDE DEF w
    <2>5. Callable(w) /\ IsView(w)
      BY <2>4 DEF Reaches, Callable
    <2>6. c \in Int
      <3>1. w.cursorLine \in Int /\ w.startLine \in Int /\ w.mainLines \in Nat
        BY <2>5 DEF IsView
      <3>2. RowPos(w)[v.startDoc] \in Nat
        <4>1. v.startDoc \in 0 .. N
          BY <1>1, NAssumption DEF Docs
        <4> QED
          BY <2>5, <4>1, RowPosFacts
      <3>3. TotalDocLines(w) \in Int
        BY <2>5, WalkFacts DEF TotalDocLines
      <3> QED
        BY <3>1, <3>2, <3>3 DEF MinOf
    <2> HIDE DEF c
    <2>7. Reaches(w, x)
      BY <2>2, <2>5, <2>6, SetCursorAndLine
    <2> HIDE DEF x
    <2> QED
      BY <1>1, <2>1, <2>4, <2>7, ReachesTransitive, ComputeVisibleMoves
  <1> QED
    BY <1>2, <1>3, <1>4

\* pageDown.
LEMMA PageDownMoves ==
    ASSUME NEW v, Loaded(v), Fresh(v)
    PROVE  Moves(v, PageDown(v)) \/ Hangs(v, PageDown(v))
  <1> DEFINE l == BackDocLines(v) - (TotalDocLines(v) - v.startLine - v.mainLines)
             x == [v EXCEPT !.startDoc = v.lastDoc, !.startLine = l]
             t == CursorTop(x)
             w == ComputeVisible(t)
             end == JumpDown(w)
             c == w.mainLines - 1 - w.lastLine
             e == [end EXCEPT !.cursorLine = c]
  <1>1. /\ Callable(v) /\ IsView(v) /\ v.lastDoc \in Docs /\ v.startLine \in Int
        /\ v.mainLines \in Nat /\ v.numDocs \in 1 .. N
    BY DEF Loaded, Callable, IsView
  <1>2. PageDown(v) = IF v.lastLine < v.mainLines - 1 THEN CursorBottom(v)
                      ELSE IF w.lastDoc # w.numDocs - 1 THEN ComputeVisible(w)
                      ELSE IF end.proc = "hung" THEN end ELSE ComputeVisible(e)
    BY DEF PageDown
  <1>3. Moves(v, CursorBottom(v))
    BY CursorFollows, FollowsMoves
  <1>4. l \in Int
    BY <1>1, WalkFacts, FirstDocLines DEF TotalDocLines
  <1> HIDE DEF l
  <1>5. Reaches(v, x)
    BY <1>1, <1>4, SetPosition
  <1>6. Loaded(x)
    <2>1. /\ x.numDocs = v.numDocs /\ x.startDoc = v.lastDoc /\ x.lastDoc = v.lastDoc
          /\ x.docLines = v.docLines
      BY <1>1 DEF IsView
    <2> HIDE DEF x
    <2> QED
      BY <1>5, <2>1, LoadedElsewhere DEF Reaches
  <1> HIDE DEF x
  <1>7. Reaches(x, t)
    BY <1>6, CursorFollows DEF Follows
  <1> HIDE DEF t
  <1>8. Moves(v, w)
    BY <1>1, <1>5, <1>7, ReachesTransitive, ComputeVisibleMoves
  <1> HIDE DEF w
  <1>9. /\ Loaded(w) /\ Fresh(w) /\ Callable(w) /\ IsView(w) /\ Reaches(v, w)
        /\ w.numDocs \in 1 .. N /\ w.mainLines \in Nat /\ w.lastLine \in Int
    BY <1>8 DEF Moves, Loaded, Callable, IsView
  <1>10. Moves(v, ComputeVisible(w))
    BY <1>1, <1>9, ComputeVisibleMoves
  <1>11. Moves(w, end) \/ Hangs(w, end)
    BY <1>9, JumpDownMoves
  <1> HIDE DEF end
  <1>12. CASE Moves(w, end)
    <2>1. Moves(v, end)
      BY <1>1, <1>9, <1>12, MovesTransitive
    <2>2. Reaches(v, end) /\ Callable(end)
      BY <2>1 DEF Moves, Reaches
    <2>3. c \in Int
      BY <1>9
    <2> HIDE DEF c
    <2>4. Moves(v, ComputeVisible(e))
      BY <1>1, <2>2, <2>3, SetCursor, ReachesTransitive, ComputeVisibleMoves
    <2> HIDE DEF e
    <2> QED
      BY <1>2, <1>3, <1>10, <2>1, <2>4
  <1>13. CASE Hangs(w, end)
    <2>1. Callable(end) /\ IsView(end) /\ end.numDocs \in 1 .. N
      BY <1>13 DEF Hangs, Loaded, Callable, IsView
    <2>2. Hangs(v, end)
      <3>1. end.numDocs >= v.numDocs
        BY <1>1, <1>9, <1>13, <2>1 DEF Hangs, Reaches
      <3>2. end.jumpToEnd => v.jumpToEnd \/ ~IsComplete(v)
        BY <1>1, <1>9, <1>13 DEF Hangs, Reaches, IsComplete
      <3> QED
        BY <1>9, <1>13, <3>1, <3>2 DEF Hangs, Reaches
    <2>3. CASE end.proc = "hung"
      BY <1>2, <1>3, <1>10, <2>2, <2>3
    <2>4. CASE end.proc = "exception"
      <3>1. Reaches(v, end)
        BY <2>1, <2>2, <2>4 DEF Hangs, Reaches
      <3>2. c \in Int
        BY <1>9
      <3> HIDE DEF c
      <3>3. Moves(v, ComputeVisible(e))
        BY <1>1, <2>1, <3>1, <3>2, SetCursor, ReachesTransitive, ComputeVisibleMoves
      <3> HIDE DEF e
      <3> QED
        BY <1>2, <1>3, <1>10, <2>4, <3>3
    <2> QED
      BY <1>13, <2>3, <2>4 DEF Hangs
  <1> QED
    BY <1>11, <1>12, <1>13

-----------------------------------------------------------------------------
(* Rendering, dimensions and jumps to a document *)

\* 1 to 4, s, and render_main after a resize.
LEMMA RenderingMoves ==
    ASSUME NEW v, Loaded(v), Fresh(v), NEW mode \in Modes, NEW lines \in Nat \ {0}
    PROVE  /\ Moves(v, SetDocumentRenderMode(v, mode))
           /\ Moves(v, ToggleExtendedJSONMode(v))
           /\ Moves(v, UpdateDimensions(v, lines))
  <1>1. Callable(v) /\ IsView(v) /\ Moves(v, v)
    BY MovesNowhere DEF Loaded, Callable
  <1>2. Moves(v, SetDocumentRenderMode(v, mode))
    BY <1>1, SetMode, ComputeVisibleMoves DEF SetDocumentRenderMode
  <1>3. Moves(v, ToggleExtendedJSONMode(v))
    <2> DEFINE ext == IF v.ext = "Strict" THEN "TenGen" ELSE "Strict"
    <2>1. ext \in JsonFormats
      BY DEF JsonFormats
    <2>2. ToggleExtendedJSONMode(v) = ComputeVisible([v EXCEPT !.ext = ext])
      BY DEF ToggleExtendedJSONMode
    <2> HIDE DEF ext
    <2> QED
      BY <1>1, <2>1, <2>2, SetExt, ComputeVisibleMoves
  <1>4. Moves(v, UpdateDimensions(v, lines))
    BY <1>1, SetHeight, ComputeVisibleMoves DEF UpdateDimensions
  <1> QED
    BY <1>2, <1>3, <1>4

\* A jump that is under way: everything but the layout is in order.
Jumping(v, w) ==
    /\ Loaded(w) /\ w.ups > 0
    /\ w.numDocs = v.numDocs /\ w.jumpToEnd = v.jumpToEnd /\ w.proc = v.proc

\* jumpToDoc, for a document that is loaded.
LEMMA JumpToDocMoves ==
    ASSUME NEW v, Loaded(v), Fresh(v), NEW doc \in Docs, doc < v.numDocs
    PROVE  Moves(v, JumpToDoc(v, doc)) \/ Jumping(v, JumpToDoc(v, doc))
  <1>1. /\ Callable(v) /\ IsView(v) /\ v.mainLines \in Nat \ {0} /\ v.numDocs \in 1 .. N
        /\ v.startLine \in Int
    BY DEF Loaded, Callable, IsView
  <1>2. Moves(v, JumpToDocOnscreen(v, doc))
    <2> DEFINE c == RowPos(v)[doc] - RowPos(v)[v.startDoc] - v.startLine
    <2>1. c \in Int
      <3>1. doc \in 0 .. N
        BY NAssumption DEF Docs
      <3>2. RowPos(v)[doc] \in Nat /\ RowPos(v)[v.startDoc] \in Nat
        BY <1>1, <3>1, RowPosFacts, WalkFacts
      <3> QED
        BY <1>1, <3>2
    <2>2. JumpToDocOnscreen(v, doc) = ComputeVisible([v EXCEPT !.cursorLine = c])
      BY DEF JumpToDocOnscreen
    <2> HIDE DEF c
    <2> QED
      BY <1>1, <2>1, <2>2, SetCursor, ComputeVisibleMoves
  <1>3. Moves(v, JumpToDocOffscreen(v, doc)) \/ Jumping(v, JumpToDocOffscreen(v, doc))
    <2> DEFINE w == [v EXCEPT !.startDoc = doc, !.startLine = 0, !.cursorLine = 0]
               u == [w EXCEPT !.ups = v.mainLines \div 4, !.goal = doc]
    <2>1. JumpToDocOffscreen(v, doc) = IF v.mainLines \div 4 > 0 THEN u ELSE ComputeVisible(w)
      BY DEF JumpToDocOffscreen
    <2>2. IsView(w)
      <3>1. 0 \in Int
        OBVIOUS
      <3> QED
        BY <1>1, <3>1 DEF IsView
    <2>3. /\ IsView(w) /\ w.startDoc = doc /\ w.cursorDoc = v.cursorDoc /\ w.goal = v.goal
          /\ w.numDocs = v.numDocs /\ w.lastDoc = v.lastDoc /\ w.docLines = v.docLines
          /\ w.jumpToEnd = v.jumpToEnd /\ w.ups = v.ups /\ w.proc = v.proc
      BY <1>1, <2>2 DEF IsView
    <2> HIDE DEF w
    <2>4. Moves(v, ComputeVisible(w))
      BY <1>1, <2>3, SameCacheReaches, ComputeVisibleMoves
    <2>5. v.mainLines \div 4 \in Nat
      BY <1>1
    <2>6. /\ IsView(u) /\ u.ups = v.mainLines \div 4 /\ u.goal = doc
          /\ u.startDoc = w.startDoc /\ u.cursorDoc = w.cursorDoc /\ u.numDocs = w.numDocs
          /\ u.lastDoc = w.lastDoc /\ u.docLines = w.docLines
          /\ u.jumpToEnd = w.jumpToEnd /\ u.proc = w.proc
      BY <2>3, <2>5 DEF IsView
    <2> HIDE DEF u
    <2>7. Loaded(u)
      BY <2>3, <2>6 DEF Loaded, Callable
    <2> QED
      BY <2>1, <2>3, <2>4, <2>6, <2>7 DEF Jumping
  <1> QED
    BY <1>2, <1>3 DEF JumpToDoc

\* One more moveUp() of a jump under way.
LEMMA JumpStepMoves ==
    ASSUME NEW v, Loaded(v), v.ups > 0
    PROVE  LET w == JumpStep(v)
           IN  /\ Loaded(w) /\ Fresh(w)
               /\ w.numDocs >= v.numDocs
               /\ w.jumpToEnd => v.jumpToEnd \/ ~IsComplete(v)
               /\ w.proc \in {v.proc, "exception"}
  <1> DEFINE m == MoveUp(v)
             w == [m EXCEPT !.ups = m.ups - 1, !.goal = IF v.ups = 1 THEN 0 ELSE m.goal]
  <1>1. Callable(v) /\ Moves(v, m)
    BY MoveUpMoves DEF Loaded
  <1>2. JumpStep(v) = w
    BY DEF JumpStep
  <1> HIDE DEF m
  <1>3. /\ Reaches(v, m) /\ Loaded(m) /\ Fresh(m) /\ IsView(m) /\ m.ups = v.ups
        /\ m.ups \in Nat /\ m.goal \in Docs /\ m.numDocs \in 1 .. N /\ m.goal < m.numDocs
    BY <1>1 DEF Moves, Reaches, Loaded, Callable, IsView
  <1>4. m.ups - 1 \in Nat
    BY <1>3
  <1>5. /\ (IF v.ups = 1 THEN 0 ELSE m.goal) \in Docs
        /\ (IF v.ups = 1 THEN 0 ELSE m.goal) < m.numDocs
    BY <1>3, NAssumption DEF Docs
  <1>6. /\ IsView(w) /\ w.goal = IF v.ups = 1 THEN 0 ELSE m.goal
        /\ w.mode = m.mode /\ w.ext = m.ext /\ w.startDoc = m.startDoc
        /\ w.startLine = m.startLine /\ w.mainLines = m.mainLines
        /\ w.cursorLine = m.cursorLine /\ w.numDocs = m.numDocs
        /\ w.cursorDoc = m.cursorDoc /\ w.lastDoc = m.lastDoc /\ w.lastLine = m.lastLine
        /\ w.docLines = m.docLines /\ w.jumpToEnd = m.jumpToEnd /\ w.proc = m.proc
    BY <1>3, <1>4, <1>5 DEF IsView
  <1> HIDE DEF w
  <1>7. /\ DocLines(w) = DocLines(m) /\ LastWalked(w) = LastWalked(m)
        /\ NumRows(w) = NumRows(m) /\ Top(w) = Top(m)
        /\ \A row : DocAt(w, row) = DocAt(m, row)
    BY <1>6, SamePosition
  <1>8. Loaded(w)
    BY <1>3, <1>5, <1>6 DEF Loaded, Callable
  <1>9. Fresh(w)
    BY <1>3, <1>6, <1>7 DEF Fresh
  <1> QED
    BY <1>2, <1>3, <1>6, <1>8, <1>9 DEF Reaches

\* The view of a program that has just started.
LEMMA InitialViewIsFresh ==
    ASSUME NEW lines \in Nat \ {0}
    PROVE  LET v == InitialView(lines)
           IN  /\ Loaded(v) /\ Fresh(v)
               /\ ~v.jumpToEnd /\ v.ups = 0 /\ v.proc \in {"running", "exception"}
               /\ v.mainLines = lines
  <1> DEFINE x == [mode |-> "kJSONOneline", ext |-> "Strict", startCol |-> 0,
                   startDoc |-> 0, startLine |-> 0, lastDoc |-> 0, lastLine |-> 0,
                   docLines |-> <<>>, cursorLine |-> 0, cursorDoc |-> 0, mainLines |-> lines,
                   numDocs |-> 1, jumpToEnd |-> FALSE, ups |-> 0, goal |-> 0,
                   proc |-> "running"]
  <1>1. InitialView(lines) = ComputeVisible(x)
    BY DEF InitialView
  <1>2. IsView(x)
    <2>1. 0 \in Docs /\ 1 \in 1 .. N
      BY NAssumption DEF Docs
    <2>2. <<>> \in Seq(Int)
      OBVIOUS
    <2> QED
      BY <2>1, <2>2, ModesAssumption DEF IsView, JsonFormats, ProcStates
  <1>3. /\ x.cursorDoc = 0 /\ x.goal = 0 /\ x.numDocs = 1 /\ x.jumpToEnd = FALSE
        /\ x.ups = 0 /\ x.proc = "running" /\ x.mainLines = lines
    OBVIOUS
  <1> HIDE DEF x
  <1>4. Reaches(x, x)
    BY <1>2, <1>3, ReachesItself DEF Callable
  <1> QED
    BY <1>1, <1>2, <1>3, <1>4, ComputeVisibleMoves DEF Moves, Reaches

-----------------------------------------------------------------------------
(* Where pages and jumps go *)

\* The last entry of a fresh layout: the rows of the last document up to the end of the walk.
LEMMA BackOfLayout ==
    ASSUME NEW v, Loaded(v), Fresh(v)
    PROVE  BackDocLines(v) = WalkEnd(v) - RowPos(v)[v.lastDoc]
  <1> DEFINE p == RowPos(v)
             k == LastWalked(v) - v.startDoc + 1
  <1>1. IsView(v) /\ v.docLines = DocLines(v) /\ v.lastDoc = LastWalked(v) /\ v.startDoc \in Docs
    BY DEF Loaded, Callable, IsView, Fresh
  <1>2. /\ LastWalked(v) \in v.startDoc .. N - 1 /\ WalkEnd(v) \in Nat
        /\ WalkEnd(v) <= p[LastWalked(v) + 1]
    BY <1>1, WalkFacts
  <1>3. p[LastWalked(v) + 1] \in Nat
    <2>1. LastWalked(v) + 1 \in 0 .. N
      BY <1>1, <1>2, NAssumption DEF Docs
    <2> QED
      BY <1>1, <2>1, RowPosFacts
  <1>4. Len(v.docLines) = k
    BY <1>1, DocLinesFacts
  <1>5. k \in 1 .. k /\ v.startDoc + k = LastWalked(v) + 1 /\ v.startDoc + k - 1 = LastWalked(v)
    BY <1>1, <1>2, NAssumption DEF Docs
  <1>6. DocLines(v)[k] = MinOf(p[v.startDoc + k], WalkEnd(v)) - p[v.startDoc + k - 1]
    BY <1>5 DEF DocLines
  <1> HIDE DEF p, k
  <1>7. MinOf(p[LastWalked(v) + 1], WalkEnd(v)) = WalkEnd(v)
    BY <1>2, <1>3 DEF MinOf
  <1> QED
    BY <1>1, <1>4, <1>5, <1>6, <1>7 DEF BackDocLines, p

\* pageDown, when the page after the present one ends before the last loaded document.
LEMMA PageDownGoesOn ==
    ASSUME NEW v, Loaded(v), Fresh(v), FillsScreen(v), v.startLine >= 0,
           Top(v) + 2 * v.mainLines <= RowPos(v)[v.numDocs - 1]
    PROVE  Top(PageDown(v)) = Top(v) + v.mainLines
  <1> DEFINE p == RowPos(v)
             l == BackDocLines(v) - (TotalDocLines(v) - v.startLine - v.mainLines)
             x == [v EXCEPT !.startDoc = v.lastDoc, !.startLine = l]
             t == CursorTop(x)
             w == ComputeVisible(t)
  <1>1. /\ Callable(v) /\ IsView(v) /\ v.lastDoc \in Docs /\ v.startLine \in Int
        /\ v.mainLines \in Nat \ {0} /\ v.numDocs \in 1 .. N
        /\ v.lastLine = NumRows(v) - 1 /\ v.lastDoc = LastWalked(v) /\ v.startDoc \in Docs
    BY DEF Loaded, Callable, IsView, Fresh
  <1>2. /\ p \in [0 .. N -> Nat]
        /\ \A a, b \in 0 .. N : a < b => p[a] < p[b]
        /\ p[v.startDoc] \in Nat /\ Top(v) \in Nat /\ WalkEnd(v) \in Nat
        /\ p[v.lastDoc] < WalkEnd(v)
    BY <1>1, RowPosFacts, WalkFacts
  <1>3. p[v.lastDoc] \in Nat /\ p[v.numDocs - 1] \in Nat /\ p[N] \in Nat /\ p[v.numDocs - 1] < p[N]
    <2>1. /\ v.lastDoc \in 0 .. N /\ v.numDocs - 1 \in 0 .. N /\ N \in 0 .. N
          /\ v.numDocs - 1 < N
      BY <1>1, NAssumption DEF Docs
    <2> HIDE DEF p
    <2> QED
      BY <1>2, <2>1
  <1>4. /\ Top(v) = p[v.startDoc] + v.startLine /\ WalkEnd(v) = Top(v) + v.mainLines
        /\ ~(v.lastLine < v.mainLines - 1)
    <2>1. Top(v) = p[v.startDoc] + v.startLine
      BY <1>1, <1>2 DEF Top
    <2>2. WalkEnd(v) = Top(v) + v.mainLines
      BY DEF WalkEnd
    <2>3. NumRows(v) = v.mainLines
      BY DEF NumRows
    <2>4. ~(v.lastLine < v.mainLines - 1)
      BY <1>1, <2>3
    <2> QED
      BY <2>1, <2>2, <2>4
  <1>5. l = WalkEnd(v) - p[v.lastDoc]
    <2>1. BackDocLines(v) = WalkEnd(v) - p[v.lastDoc]
      BY BackOfLayout
    <2>2. TotalDocLines(v) = WalkEnd(v) - p[v.startDoc]
      BY DEF TotalDocLines
    <2>3. /\ v.startLine \in Int /\ v.mainLines \in Int /\ WalkEnd(v) \in Int
          /\ p[v.startDoc] \in Int /\ p[v.lastDoc] \in Int
          /\ WalkEnd(v) = p[v.startDoc] + v.startLine + v.mainLines
      BY <1>1, <1>2, <1>3, <1>4
    <2> HIDE DEF p
    <2>4. TotalDocLines(v) - v.startLine - v.mainLines = 0
      BY <2>2, <2>3
    <2> QED
      BY <2>1, <2>3, <2>4
  <1>6. l \in Int /\ l > 0
    BY <1>2, <1>3, <1>5
  <1>7. PageDown(v) = ComputeVisible(w) \/ w.lastDoc = w.numDocs - 1
    BY <1>4 DEF PageDown
  <1> HIDE DEF l
  <1>8. Reaches(v, x)
    BY <1>1, <1>6, SetPosition
  <1>9. /\ x.numDocs = v.numDocs /\ x.startDoc = v.lastDoc /\ x.lastDoc = v.lastDoc
        /\ x.docLines = v.docLines /\ x.startLine = l /\ x.mainLines = v.mainLines
        /\ x.mode = v.mode /\ x.ext = v.ext
    BY <1>1 DEF IsView
  <1> HIDE DEF x
  <1>10. Loaded(x)
    BY <1>8, <1>9, LoadedElsewhere DEF Reaches
  <1>11. /\ Reaches(x, t) /\ t.startDoc = x.startDoc /\ t.startLine = x.startLine
         /\ t.mainLines = x.mainLines /\ t.mode = x.mode /\ t.ext = x.ext
    BY <1>10, CursorFollows DEF Follows
  <1> HIDE DEF t
  <1>12. Reaches(v, t)
    BY <1>1, <1>8, <1>11, ReachesTransitive
  <1>13. /\ Moves(v, w) /\ w.startDoc = v.lastDoc /\ w.startLine = l /\ w.mainLines = v.mainLines
         /\ w.mode = v.mode /\ w.ext = v.ext
    BY <1>1, <1>9, <1>11, <1>12, ComputeVisibleMoves
  <1> HIDE DEF w
  <1>14. /\ Callable(w) /\ IsView(w) /\ w.lastDoc = LastWalked(w) /\ w.numDocs \in 1 .. N
         /\ w.numDocs >= v.numDocs
    BY <1>13 DEF Moves, Reaches, Loaded, Callable, Fresh, IsView
  <1>15. RowPos(w) = p /\ TotalRows(w) = p[N]
    BY <1>13 DEF RowPos, Rendering, TotalRows
  <1> HIDE DEF p
  <1>16. Top(w) = Top(v) + v.mainLines
    BY <1>2, <1>3, <1>4, <1>5, <1>6, <1>13, <1>15 DEF Top
  <1>17. w.lastDoc < v.numDocs - 1
    <2> DEFINE d == LastWalked(w)
    <2>1. FillsScreen(w)
      BY <1>1, <1>2, <1>3, <1>13, <1>15, <1>16 DEF FillsScreen, p
    <2>2. WalkEnd(w) = Top(v) + 2 * v.mainLines
      BY <1>1, <1>2, <1>13, <1>16, <2>1 DEF WalkEnd
    <2>3. p[d] < p[v.numDocs - 1] /\ d \in Docs /\ p[d] \in Nat
      <3>1. d \in Docs /\ p[d] < WalkEnd(w)
        BY <1>14, <1>15, WalkFacts
      <3>2. p[d] \in Nat
        BY <1>2, <3>1, NAssumption DEF Docs
      <3>3. Top(v) + 2 * v.mainLines <= p[v.numDocs - 1]
        BY DEF p
      <3>4. 2 * v.mainLines \in Nat /\ Top(v) \in Nat /\ p[v.numDocs - 1] \in Nat
        BY <1>1, <1>2, <1>3
      <3> HIDE DEF d
      <3> QED
        BY <2>2, <3>1, <3>2, <3>3, <3>4
    <2> HIDE DEF d
    <2>4. d \in 0 .. N /\ v.numDocs - 1 \in 0 .. N
      BY <1>1, <2>3, NAssumption DEF Docs
    <2>5. ~(v.numDocs - 1 < d) /\ v.numDocs - 1 # d
      BY <1>2, <1>3, <2>3, <2>4
    <2> QED
      BY <1>14, <2>4, <2>5 DEF d
  <1>18. PageDown(v) = ComputeVisible(w)
    <2>1. w.lastDoc \in Docs
      BY <1>14 DEF IsView
    <2> QED
      BY <1>1, <1>7, <1>14, <1>17, <2>1, NAssumption DEF Docs
  <1>19. Top(ComputeVisible(w)) = Top(w)
    BY <1>14, ReachesItself, ComputeVisibleMoves, SamePosition
  <1> QED
    BY <1>16, <1>18, <1>19

\* pageUp: where the new page begins.
LEMMA PageUpGoesBack ==
    ASSUME NEW v, Loaded(v), Fresh(v)
    PROVE  \/ Top(PageUp(v)) = 0
           \/ Top(PageUp(v)) = Top(v) - v.mainLines
           \/ /\ PageUp(v).startLine < 0
              /\ Top(PageUp(v)) \in Top(v) - v.mainLines .. Top(v)
  <1>1. /\ Callable(v) /\ IsView(v) /\ v.startDoc \in Docs /\ v.startLine \in Int
        /\ v.mainLines \in Nat \ {0}
    BY DEF Loaded, Callable, IsView
  <1>2. CASE v.startDoc = 0 /\ v.startLine = 0
    <2>1. PageUp(v) = CursorTop(v)
      BY <1>2 DEF PageUp
    <2>2. Top(PageUp(v)) = Top(v)
      BY <2>1, CursorFollows, SamePosition DEF Follows
    <2>3. RowPos(v)[0] = 0
      BY <1>1, RowPosFacts
    <2> QED
      BY <1>2, <2>2, <2>3 DEF Top
  <1>3. CASE /\ ~(v.startDoc = 0 /\ v.startLine = 0)
             /\ \E s \in 0 .. v.startDoc : PageUpStopsAt(v, s)
    <2> DEFINE s == CHOOSE s \in 0 .. v.startDoc : PageUpStopsAt(v, s)
               a == At(v, s)
               w == ComputeVisible(a)
               l == TotalDocLines(w) - (BackDocLines(w) - w.startLine) - w.mainLines
               y == [w EXCEPT !.startLine = l]
               b == CursorBottom(y)
               p == RowPos(v)
    <2>1. PageUp(v) = ComputeVisible(b)
      BY <1>3 DEF PageUp
    <2>2. s \in 0 .. v.startDoc /\ LastWalked(a) = v.startDoc
      BY <1>3 DEF PageUpStopsAt
    <2> HIDE DEF s
    <2>3. s \in Docs
      BY <1>1, <2>2, NAssumption DEF Docs
    <2>4. /\ Reaches(v, a) /\ IsView(a) /\ a.startDoc = s /\ a.startLine = v.startLine
          /\ a.mainLines = v.mainLines /\ a.mode = v.mode /\ a.ext = v.ext
      BY <1>1, <2>3, AtFields
    <2> HIDE DEF a
    <2>5. /\ Moves(v, w) /\ w.startDoc = s /\ w.startLine = v.startLine
          /\ w.mainLines = v.mainLines /\ w.mode = v.mode /\ w.ext = v.ext
      BY <1>1, <2>4, ComputeVisibleMoves
    <2>6. LastWalked(w) = v.startDoc
      BY <2>2, <2>4, <2>5, SamePosition
    <2> HIDE DEF w
    <2>7. /\ Callable(w) /\ IsView(w) /\ Loaded(w) /\ Fresh(w) /\ w.lastDoc = v.startDoc
      BY <2>5, <2>6 DEF Moves, Loaded, Callable, Fresh
    <2>8. RowPos(w) = p
      BY <2>5 DEF RowPos, Rendering
    <2>9. /\ p \in [0 .. N -> Nat]
          /\ \A d, e \in 0 .. N : d < e => p[d] < p[e]
          /\ p[v.startDoc] \in Nat /\ WalkEnd(w) \in Nat
          /\ p[v.startDoc] < WalkEnd(w) /\ Top(w) \in Nat
      BY <1>1, <2>6, <2>7, <2>8, RowPosFacts, WalkFacts
    <2>10. p[s] \in Nat /\ p[s] <= p[v.startDoc]
      <3>1. s \in 0 .. N /\ v.startDoc \in 0 .. N /\ (s < v.startDoc \/ s = v.startDoc)
        BY <1>1, <2>2, <2>3, NAssumption DEF Docs
      <3> HIDE DEF p
      <3> QED
        BY <2>9, <3>1
    <2>11. BackDocLines(w) = WalkEnd(w) - p[v.startDoc]
      BY <2>7, <2>8, BackOfLayout
    <2>12. l = p[v.startDoc] - p[s] + v.startLine - v.mainLines
      BY <1>1, <2>5, <2>8, <2>9, <2>10, <2>11 DEF TotalDocLines
    <2>13. l \in Int
      BY <1>1, <2>9, <2>10, <2>12
    <2> HIDE DEF l
    <2>14. Reaches(w, y)
      BY <2>7, <2>13, SetLine
    <2>15. /\ y.numDocs = w.numDocs /\ y.startDoc = s /\ y.lastDoc = w.lastDoc
           /\ y.docLines = w.docLines /\ y.startLine = l /\ y.mainLines = v.mainLines
           /\ y.mode = v.mode /\ y.ext = v.ext
      BY <2>5, <2>7 DEF IsView
    <2> HIDE DEF y
    <2>16. Loaded(y)
      BY <2>5, <2>7, <2>14, <2>15, LoadedElsewhere DEF Reaches
    <2>17. /\ Reaches(y, b) /\ b.startDoc = s /\ b.startLine = l /\ b.mode = v.mode /\ b.ext = v.ext
      BY <2>15, <2>16, CursorFollows DEF Follows
    <2> HIDE DEF b
    <2>18. /\ PageUp(v).startDoc = s /\ PageUp(v).startLine = l
           /\ PageUp(v).mode = v.mode /\ PageUp(v).ext = v.ext
      <3>1. Reaches(b, b) /\ IsView(b)
        BY <2>17, ReachesItself DEF Reaches, Callable
      <3> QED
        BY <2>1, <2>17, <3>1, ComputeVisibleMoves
    <2>19. Top(PageUp(v)) = p[s] + (IF l > 0 THEN l ELSE 0)
      BY <2>18 DEF Top, RowPos, Rendering
    <2>20. Top(v) = p[v.startDoc] + (IF v.startLine > 0 THEN v.startLine ELSE 0)
      BY DEF Top
    <2>21. v.startLine <= 0 => p[v.startDoc] < p[s] + v.mainLines
      <3>1. Top(w) = p[s] + (IF v.startLine > 0 THEN v.startLine ELSE 0)
        BY <2>5, <2>8 DEF Top
      <3>2. WalkEnd(w) <= Top(w) + v.mainLines
        <4>1. TotalRows(w) \in Nat
          BY <2>7, WalkFacts
        <4> QED
          BY <1>1, <2>5, <2>9, <4>1 DEF WalkEnd, FillsScreen
      <3> QED
        BY <1>1, <2>9, <2>10, <3>1, <3>2
    <2> HIDE DEF p
    <2>22. CASE l < 0
      <3>1. Top(PageUp(v)) = p[s]
        BY <2>10, <2>13, <2>19, <2>22
      <3>2. p[s] <= Top(v) /\ Top(v) \in Int
        BY <1>1, <2>9, <2>10, <2>20
      <3>3. Top(v) - v.mainLines <= p[s]
        BY <1>1, <2>9, <2>10, <2>12, <2>20, <2>21, <2>22
      <3>4. p[s] \in Top(v) - v.mainLines .. Top(v)
        BY <1>1, <2>10, <3>2, <3>3
      <3> QED
        BY <2>18, <2>22, <3>1, <3>4
    <2>23. CASE l >= 0
      BY <1>1, <2>9, <2>10, <2>12, <2>13, <2>19, <2>20, <2>21, <2>23
    <2> QED
      BY <2>13, <2>22, <2>23
  <1>4. CASE /\ ~(v.startDoc = 0 /\ v.startLine = 0)
             /\ ~ \E s \in 0 .. v.startDoc : PageUpStopsAt(v, s)
    <2> DEFINE u == ComputeVisible(At(v, 0))
               w == RenderDocs(u, 0 .. v.startDoc)
               above == MinOf(RowPos(w)[v.startDoc], TotalDocLines(w))
               c == MinOf(w.cursorLine + above + w.startLine, w.mainLines - 1)
               x == [w EXCEPT !.cursorLine = c, !.startLine = 0]
    <2>1. PageUp(v) = ComputeVisible(x)
      BY <1>4 DEF PageUp
    <2>2. 0 \in Docs /\ 0 \in Int
      BY NAssumption DEF Docs
    <2>3. Moves(v, u) /\ u.startDoc = 0
      BY <1>1, <2>2, AtFields, ComputeVisibleMoves
    <2> HIDE DEF u
    <2>4. Callable(w) /\ IsView(w) /\ w.startDoc = 0
      BY <2>3, RenderDocsReaches DEF Moves, Reaches, Callable
    <2> HIDE DEF w
    <2>5. c \in Int
      <3>1. w.cursorLine \in Int /\ w.startLine \in Int /\ w.mainLines \in Nat
        BY <2>4 DEF IsView
      <3>2. RowPos(w)[v.startDoc] \in Nat
        <4>1. v.startDoc \in 0 .. N
          BY <1>1, NAssumption DEF Docs
        <4> QED
          BY <2>4, <4>1, RowPosFacts
      <3>3. TotalDocLines(w) \in Int
        BY <2>4, WalkFacts DEF TotalDocLines
      <3> QED
        BY <3>1, <3>2, <3>3 DEF MinOf
    <2> HIDE DEF c
    <2>6. Reaches(w, x) /\ x.startDoc = 0 /\ x.startLine = 0
      <3>1. Reaches(w, x)
        BY <2>2, <2>4, <2>5, SetCursorAndLine
      <3>2. x.startDoc = 0 /\ x.startLine = 0
        BY <2>4 DEF IsView
      <3> QED
        BY <3>1, <3>2
    <2> HIDE DEF x
    <2>7. Moves(w, PageUp(v)) /\ PageUp(v).startDoc = 0 /\ PageUp(v).startLine = 0
      BY <2>1, <2>4, <2>6, ComputeVisibleMoves
    <2>8. RowPos(PageUp(v))[0] = 0
      BY <2>7, RowPosFacts DEF Moves, Loaded, Callable
    <2> QED
      BY <2>7, <2>8 DEF Top
  <1> QED
    BY <1>2, <1>3, <1>4

\* _jumpToDocOnscreen: the first row of the document is on the screen.
LEMMA OnscreenJumpHits ==
    ASSUME NEW v, Loaded(v), Fresh(v), NEW doc \in Docs, v.startLine >= 0,
           RowPos(v)[doc] \in Top(v) .. Top(v) + v.lastLine
    PROVE  JumpToDoc(v, doc).cursorDoc = doc /\ Top(JumpToDoc(v, doc)) = Top(v)
  <1> DEFINE p == RowPos(v)
             row == p[doc]
             c == p[doc] - p[v.startDoc] - v.startLine
             x == [v EXCEPT !.cursorLine = c]
  <1>1. /\ Callable(v) /\ IsView(v) /\ v.startDoc \in Docs /\ v.startLine \in Int
        /\ v.lastLine = NumRows(v) - 1 /\ v.lastDoc = LastWalked(v)
    BY DEF Loaded, Callable, IsView, Fresh
  <1>2. /\ p \in [0 .. N -> Nat]
        /\ \A d, e \in 0 .. N : d < e => p[d] < p[e]
        /\ p[v.startDoc] \in Nat /\ Top(v) \in Nat /\ NumRows(v) \in Nat
    BY <1>1, RowPosFacts, WalkFacts
  <1>3. row \in Nat /\ p[doc + 1] \in Nat /\ row < p[doc + 1]
    BY <1>2, NAssumption DEF Docs
  <1>4. Top(v) = p[v.startDoc] + v.startLine
    BY <1>1, <1>2 DEF Top
  <1>5. c \in Nat /\ c < NumRows(v) /\ Top(v) + c = row
    <2>1. p[v.startDoc] \in Int /\ v.startLine \in Int /\ row \in Int /\ NumRows(v) \in Int
      BY <1>1, <1>2, <1>3
    <2>2. row \in Top(v) .. Top(v) + (NumRows(v) - 1) /\ Top(v) \in Nat
      BY <1>1, <1>2
    <2>3. ASSUME NEW t \in Nat, NEW r \in Int, NEW n \in Int, NEW a \in Int, NEW b \in Int,
                 t = a + b, r \in t .. t + (n - 1)
          PROVE  r - a - b \in Nat /\ r - a - b < n /\ t + (r - a - b) = r
      BY <2>3
    <2> HIDE DEF p
    <2> QED
      BY <1>4, <2>1, <2>2, <2>3
  <1> HIDE DEF c, p
  <1>6. row < TotalRows(v) /\ DocAt(v, row) \in v.startDoc .. LastWalked(v)
    BY <1>1, <1>5, ShownFacts
  <1>7. DocAt(v, row) = doc
    BY <1>1, <1>3, <1>6, DocAtFacts DEF p
  <1>8. ~JumpIsOffscreen(v, doc)
    <2>1. doc \in v.startDoc .. LastWalked(v)
      BY <1>6, <1>7
    <2>2. ~(doc = v.startDoc /\ v.startLine > 0)
      <3> SUFFICES ASSUME doc = v.startDoc, v.startLine > 0 PROVE FALSE
        OBVIOUS
      <3> QED
        BY <1>1, <1>2, <1>4, <1>5, <1>3
    <2> QED
      <3>1. LastWalked(v) \in Docs
        BY <1>1, WalkFacts
      <3>2. ~(doc < v.startDoc) /\ ~(doc > LastWalked(v))
        BY <1>1, <2>1, <3>1, NAssumption DEF Docs
      <3> QED
        BY <1>1, <2>2, <3>2 DEF JumpIsOffscreen
  <1>9. JumpToDoc(v, doc) = ComputeVisible(x)
    BY <1>8 DEF JumpToDoc, JumpToDocOnscreen, c, p
  <1>10. Reaches(v, x)
    BY <1>1, <1>5, SetCursor
  <1>11. /\ x.cursorLine = c /\ x.startDoc = v.startDoc /\ x.startLine = v.startLine
         /\ x.mainLines = v.mainLines /\ x.mode = v.mode /\ x.ext = v.ext
    BY <1>1 DEF IsView
  <1> HIDE DEF x
  <1>12. /\ NumRows(x) = NumRows(v) /\ Top(x) = Top(v)
         /\ \A r : DocAt(x, r) = DocAt(v, r)
    BY <1>11, SamePosition
  <1>13. Callable(x)
    BY <1>10 DEF Reaches
  <1>14. ComputeVisible(x).cursorDoc = DocAt(v, row)
    BY <1>5, <1>11, <1>12, <1>13, ComputeVisibleFields
  <1>15. Top(ComputeVisible(x)) = Top(v)
    BY <1>11, <1>13, ComputeVisibleFields, SamePosition
  <1> QED
    BY <1>7, <1>9, <1>14, <1>15

\* Every document is one row.
OneRow(v) == \A d \in 0 .. N : RowPos(v)[d] = d

\* A jump to document goal, where all documents are one row: what the moveUp() calls
\* made so far have put above the document, and how many are to come.
OnItsWay(v) ==
    v.ups > 0 /\ OneRow(v) =>
        /\ v.startLine = 0
        /\ v.cursorLine >= 0 /\ v.cursorLine = v.goal - v.startDoc
        /\ v.cursorLine + v.ups <= v.mainLines \div 4

\* The layout of a file whose documents are one row each.
LEMMA OneRowLayout ==
    ASSUME NEW v, IsView(v), OneRow(v), v.startLine = 0
    PROVE  /\ Top(v) = v.startDoc
           /\ NumRows(v) = MinOf(v.mainLines, N - v.startDoc)
           /\ DocLines(v)[1] = 1
           /\ \A d \in Docs : DocAt(v, d) = d
  <1> DEFINE p == RowPos(v)
             s == v.startDoc
  <1>1. s \in Docs /\ v.mainLines \in Nat \ {0}
    BY DEF IsView
  <1>2. s \in 0 .. N /\ s + 1 \in 0 .. N /\ N \in 0 .. N /\ s \in Nat /\ s < N /\ 0 < N /\ N \in Nat
    BY <1>1, NAssumption DEF Docs
  <1>3. p[s] = s /\ p[s + 1] = s + 1 /\ p[N] = N
    BY <1>2 DEF OneRow
  <1>4. Top(v) = s /\ TotalRows(v) = N
    BY <1>2, <1>3 DEF Top, TotalRows
  <1>5. NumRows(v) = MinOf(v.mainLines, N - s)
    BY <1>1, <1>2, <1>4 DEF NumRows, FillsScreen, MinOf
  <1>6. DocLines(v)[1] = 1
    <2>1. 1 \in 1 .. LastWalked(v) - s + 1 /\ WalkEnd(v) \in Nat /\ s < WalkEnd(v)
      BY <1>1, <1>2, <1>3, WalkFacts
    <2>2. DocLines(v)[1] = MinOf(p[s + 1], WalkEnd(v)) - p[s + 1 - 1]
      BY <2>1 DEF DocLines
    <2>3. s + 1 - 1 = s
      BY <1>2
    <2> HIDE DEF p, s
    <2> QED
      BY <1>2, <1>3, <2>1, <2>2, <2>3 DEF MinOf
  <1>7. ASSUME NEW d \in Docs PROVE DocAt(v, d) = d
    <2>1. d \in Nat /\ d < N /\ d \in 0 .. N /\ d + 1 \in 0 .. N
      BY NAssumption DEF Docs
    <2>2. p[d] = d /\ p[d + 1] = d + 1
      BY <2>1 DEF OneRow
    <2>3. p[d] <= d /\ d < p[d + 1]
      BY <2>1, <2>2
    <2> QED
      BY <1>4, <2>1, <2>3, DocAtFacts
  <1> QED
    BY <1>4, <1>5, <1>6, <1>7

\* moveUp does not change the rendering.
LEMMA MoveUpRendering ==
    ASSUME NEW v, Callable(v)
    PROVE  MoveUp(v).mode = v.mode /\ MoveUp(v).ext = v.ext
  <1> DEFINE w == ComputeVisible(v)
             x == [w EXCEPT !.startLine = w.startLine - 1]
             y == [w EXCEPT !.startDoc = w.startDoc - 1, !.startLine = w.docLines[1] - 1]
  <1>1. IsView(v) /\ Moves(v, w) /\ w.mode = v.mode /\ w.ext = v.ext
    BY ReachesItself, ComputeVisibleMoves DEF Callable
  <1>2. /\ Callable(w) /\ IsView(w) /\ Loaded(w)
        /\ w.startLine \in Int /\ w.startDoc \in Docs /\ w.docLines[1] \in Int
    BY <1>1, FirstDocLines DEF Moves, Loaded, Callable, IsView
  <1>3. MoveUp(v) = IF w.startLine # 0 THEN CursorDown(ComputeVisible(x))
                    ELSE IF w.startDoc > 0 THEN CursorDown(ComputeVisible(y)) ELSE w
    BY DEF MoveUp
  <1> HIDE DEF w
  <1>4. ASSUME NEW a, Reaches(w, a), a.mode = w.mode, a.ext = w.ext
        PROVE  /\ CursorDown(ComputeVisible(a)).mode = w.mode
               /\ CursorDown(ComputeVisible(a)).ext = w.ext
    <2> DEFINE u == ComputeVisible(a)
    <2>1. Loaded(u) /\ u.mode = w.mode /\ u.ext = w.ext
      BY <1>2, <1>4, ComputeVisibleMoves DEF Moves
    <2> HIDE DEF u
    <2>2. CursorDown(u).mode = w.mode /\ CursorDown(u).ext = w.ext
      BY <2>1, CursorFollows DEF Follows
    <2> QED
      BY <2>2 DEF u
  <1>5. Reaches(w, x) /\ x.mode = w.mode /\ x.ext = w.ext
    <2>1. x.mode = w.mode /\ x.ext = w.ext
      BY <1>2 DEF IsView
    <2> QED
      BY <1>2, <2>1, SetLine
  <1>6. w.startDoc > 0 => Reaches(w, y) /\ y.mode = w.mode /\ y.ext = w.ext
    <2>1. y.mode = w.mode /\ y.ext = w.ext
      BY <1>2 DEF IsView
    <2>2. w.startDoc > 0 => w.startDoc - 1 \in Docs /\ w.docLines[1] - 1 \in Int
      BY <1>2, NAssumption DEF Docs
    <2> QED
      BY <1>2, <2>1, <2>2, SetPosition
  <1> HIDE DEF x, y
  <1> QED
    BY <1>1, <1>3, <1>4, <1>5, <1>6

\* moveUp keeps the cursor on document g when it shows g now.
LEMMA MoveUpKeepsDoc ==
    ASSUME NEW v, Callable(v), OneRow(v), v.startLine = 0, NEW g \in Docs,
           v.cursorLine \in Nat, v.cursorLine = g - v.startDoc, v.cursorLine < v.mainLines - 1
    PROVE  LET m == MoveUp(v)
           IN  /\ m.mode = v.mode /\ m.ext = v.ext /\ m.mainLines = v.mainLines
               /\ m.startLine = 0 /\ m.cursorLine = g - m.startDoc
               /\ m.cursorLine \in {v.cursorLine, v.cursorLine + 1}
               /\ m.cursorDoc = g
  <1> DEFINE w == ComputeVisible(v)
             y == [w EXCEPT !.startDoc = w.startDoc - 1, !.startLine = w.docLines[1] - 1]
             u == ComputeVisible(y)
             z == [u EXCEPT !.cursorLine = u.cursorLine + 1]
  <1>1. /\ IsView(v) /\ v.startDoc \in Docs /\ v.mainLines \in Nat \ {0}
        /\ g \in Nat /\ g < N /\ v.startDoc \in Nat /\ v.startDoc < N /\ N \in Nat
    BY NAssumption DEF Callable, IsView, Docs
  <1>2. /\ Top(v) = v.startDoc /\ NumRows(v) = MinOf(v.mainLines, N - v.startDoc)
        /\ DocLines(v)[1] = 1 /\ \A d \in Docs : DocAt(v, d) = d
    BY <1>1, OneRowLayout
  <1>3. /\ IsView(w) /\ Callable(w) /\ Moves(v, w)
        /\ w.mode = v.mode /\ w.ext = v.ext /\ w.startDoc = v.startDoc
        /\ w.startLine = v.startLine /\ w.mainLines = v.mainLines /\ w.cursorLine = v.cursorLine
        /\ w.docLines = DocLines(v)
    BY <1>1, ReachesItself, ComputeVisibleFields, ComputeVisibleMoves DEF Moves, Reaches
  <1>4. v.cursorLine < NumRows(v) /\ Top(v) + v.cursorLine = g
    BY <1>1, <1>2 DEF MinOf
  <1>5. w.cursorDoc = g
    BY <1>2, <1>4, ComputeVisibleFields
  <1>6. MoveUp(v) = IF w.startDoc > 0 THEN CursorDown(u) ELSE w
    BY <1>3 DEF MoveUp
  <1> HIDE DEF w
  <1>7. CASE w.startDoc > 0
    <2>1. w.startDoc - 1 \in Docs /\ w.docLines[1] - 1 = 0 /\ 0 \in Int
      BY <1>1, <1>2, <1>3, <1>7, NAssumption DEF Docs
    <2>2. Reaches(w, y)
      BY <1>3, <2>1, SetPosition
    <2>3. /\ y.mode = v.mode /\ y.ext = v.ext /\ y.startDoc = v.startDoc - 1 /\ y.startLine = 0
          /\ y.mainLines = v.mainLines /\ y.cursorLine = v.cursorLine
      BY <1>3, <2>1 DEF IsView
    <2> HIDE DEF y
    <2>4. Callable(y) /\ IsView(y)
      BY <2>2 DEF Reaches, Callable
    <2>5. OneRow(y)
      BY <2>3 DEF OneRow, RowPos, Rendering
    <2>6. /\ Top(y) = v.startDoc - 1 /\ NumRows(y) = MinOf(v.mainLines, N - (v.startDoc - 1))
          /\ \A d \in Docs : DocAt(y, d) = d
      BY <2>3, <2>4, <2>5, OneRowLayout
    <2>7. /\ Moves(y, u) /\ IsView(u) /\ Callable(u)
          /\ u.mode = v.mode /\ u.ext = v.ext /\ u.startDoc = v.startDoc - 1
          /\ u.startLine = 0 /\ u.mainLines = v.mainLines /\ u.cursorLine = v.cursorLine
          /\ u.lastLine = NumRows(y) - 1
      BY <2>3, <2>4, ReachesItself, ComputeVisibleFields, ComputeVisibleMoves DEF Moves, Reaches
    <2> HIDE DEF u
    <2>8. u.cursorLine < u.mainLines - 1 /\ u.cursorLine < u.lastLine
      BY <1>1, <2>6, <2>7 DEF MinOf
    <2>9. CursorDown(u) = ComputeVisible(z)
      <3>1. u.cursorLine # u.cursorLine + 1
        BY <2>7
      <3> QED
        BY <2>8, <3>1 DEF CursorDown, CursorTo
    <2>10. v.cursorLine + 1 \in Int
      OBVIOUS
    <2>11. Reaches(u, z)
      BY <2>7, <2>10, SetCursor
    <2>12. /\ z.mode = v.mode /\ z.ext = v.ext /\ z.startDoc = v.startDoc - 1
           /\ z.startLine = 0 /\ z.mainLines = v.mainLines /\ z.cursorLine = v.cursorLine + 1
      BY <2>7 DEF IsView
    <2> HIDE DEF z
    <2>13. /\ Top(z) = Top(y) /\ NumRows(z) = NumRows(y) /\ \A d : DocAt(z, d) = DocAt(y, d)
      BY <2>3, <2>12, SamePosition
    <2>14. z.cursorLine \in Nat /\ z.cursorLine < NumRows(z) /\ Top(z) + z.cursorLine = g
      BY <1>1, <2>6, <2>12, <2>13 DEF MinOf
    <2>15. Callable(z)
      BY <2>11 DEF Reaches
    <2>16. ComputeVisible(z).cursorDoc = g
      BY <2>6, <2>13, <2>14, <2>15, ComputeVisibleFields
    <2>17. /\ ComputeVisible(z).mode = v.mode /\ ComputeVisible(z).ext = v.ext
           /\ ComputeVisible(z).mainLines = v.mainLines /\ ComputeVisible(z).startLine = 0
           /\ ComputeVisible(z).startDoc = v.startDoc - 1
           /\ ComputeVisible(z).cursorLine = v.cursorLine + 1
      BY <2>12, <2>15, ComputeVisibleFields
    <2>18. v.cursorLine + 1 = g - (v.startDoc - 1)
      BY <1>1
    <2> QED
      BY <1>6, <1>7, <2>9, <2>16, <2>17, <2>18
  <1>8. CASE ~(w.startDoc > 0)
    BY <1>3, <1>5, <1>6, <1>8
  <1> QED
    BY <1>7, <1>8

\* A step of a jump brings the first line closer to where it shall be, and the last one
\* leaves the cursor on the document.
LEMMA JumpStepLands ==
    ASSUME NEW v, Loaded(v), v.ups > 0, OnItsWay(v)
    PROVE  /\ OnItsWay(JumpStep(v))
           /\ v.ups = 1 /\ OneRow(v) => JumpStep(v).cursorDoc = v.goal
  <1> DEFINE m == MoveUp(v)
             w == [m EXCEPT !.ups = m.ups - 1, !.goal = IF v.ups = 1 THEN 0 ELSE m.goal]
  <1>1. /\ Callable(v) /\ Moves(v, m) /\ v.ups \in Nat /\ v.goal \in Docs /\ v.startDoc \in Docs
        /\ v.mainLines \in Nat \ {0} /\ v.cursorLine \in Int
    BY MoveUpMoves DEF Loaded, Callable, IsView
  <1>2. JumpStep(v) = w
    BY DEF JumpStep
  <1>3. OneRow(v) =>
          /\ m.mode = v.mode /\ m.ext = v.ext /\ m.mainLines = v.mainLines
          /\ m.startLine = 0 /\ m.cursorLine = v.goal - m.startDoc
          /\ m.cursorLine \in {v.cursorLine, v.cursorLine + 1}
          /\ m.cursorDoc = v.goal
    <2> SUFFICES ASSUME OneRow(v)
                 PROVE  /\ m.mode = v.mode /\ m.ext = v.ext /\ m.mainLines = v.mainLines
                        /\ m.startLine = 0 /\ m.cursorLine = v.goal - m.startDoc
                        /\ m.cursorLine \in {v.cursorLine, v.cursorLine + 1}
                        /\ m.cursorDoc = v.goal
      OBVIOUS
    <2>1. /\ v.startLine = 0 /\ v.cursorLine = v.goal - v.startDoc /\ v.cursorLine \in Nat
          /\ v.cursorLine + v.ups <= v.mainLines \div 4
      BY <1>1 DEF OnItsWay
    <2>2. v.cursorLine < v.mainLines - 1
      BY <1>1, <2>1
    <2> QED
      BY <1>1, <2>1, <2>2, MoveUpKeepsDoc
  <1> HIDE DEF m
  <1>4. IsView(m) /\ m.ups = v.ups /\ m.goal = v.goal
    BY <1>1 DEF Moves, Reaches, Callable
  <1>5. /\ w.ups = v.ups - 1 /\ w.goal = IF v.ups = 1 THEN 0 ELSE v.goal
        /\ w.mode = m.mode /\ w.ext = m.ext /\ w.startDoc = m.startDoc
        /\ w.startLine = m.startLine /\ w.mainLines = m.mainLines
        /\ w.cursorLine = m.cursorLine /\ w.cursorDoc = m.cursorDoc
    BY <1>4 DEF IsView
  <1> HIDE DEF w
  <1>6. OnItsWay(w)
    <2> SUFFICES ASSUME w.ups > 0, OneRow(w)
                 PROVE  /\ w.startLine = 0 /\ w.cursorLine >= 0 /\ w.cursorLine = w.goal - w.startDoc
                        /\ w.cursorLine + w.ups <= w.mainLines \div 4
      BY DEF OnItsWay
    <2>1. m.mode = v.mode /\ m.ext = v.ext
      BY <1>1, MoveUpRendering DEF m
    <2>2. OneRow(v)
      BY <1>5, <2>1 DEF OneRow, RowPos, Rendering
    <2> QED
      BY <1>1, <1>3, <1>5, <2>2 DEF OnItsWay
  <1> QED
    BY <1>2, <1>3, <1>5, <1>6

\* jumpToDoc starts a jump with the document first and the cursor on it.
LEMMA JumpStarts ==
    ASSUME NEW v, Loaded(v), Fresh(v), v.ups = 0, NEW doc \in Docs, doc < v.numDocs
    PROVE  OnItsWay(JumpToDoc(v, doc))
  <1> DEFINE w == [v EXCEPT !.startDoc = doc, !.startLine = 0, !.cursorLine = 0]
             u == [w EXCEPT !.ups = v.mainLines \div 4, !.goal = doc]
  <1>1. IsView(v) /\ v.mainLines \in Nat
    BY DEF Loaded, Callable, IsView
  <1>2. CASE JumpToDoc(v, doc) = u
    <2>1. /\ u.startLine = 0 /\ u.cursorLine = 0 /\ u.startDoc = doc /\ u.goal = doc
          /\ u.ups = v.mainLines \div 4 /\ u.mainLines = v.mainLines
      BY <1>1 DEF IsView
    <2> HIDE DEF u
    <2>2. doc - doc = 0 /\ 0 + v.mainLines \div 4 <= v.mainLines \div 4
      BY <1>1, NAssumption DEF Docs
    <2> QED
      BY <1>2, <2>1, <2>2 DEF OnItsWay
  <1>3. CASE JumpToDoc(v, doc) # u
    <2> DEFINE c == RowPos(v)[doc] - RowPos(v)[v.startDoc] - v.startLine
               x == [v EXCEPT !.cursorLine = c]
    <2>1. JumpToDoc(v, doc) \in {ComputeVisible(w), ComputeVisible(x)}
      BY <1>3 DEF JumpToDoc, JumpToDocOffscreen, JumpToDocOnscreen
    <2>2. /\ IsView(w) /\ w.ups = 0 /\ w.cursorDoc = v.cursorDoc /\ w.goal = v.goal
          /\ w.numDocs = v.numDocs
      <3>1. 0 \in Int
        OBVIOUS
      <3>2. IsView(w)
        BY <1>1, <3>1 DEF IsView
      <3> QED
        BY <1>1, <3>2 DEF IsView
    <2>3. Callable(w)
      BY <2>2 DEF Loaded, Callable
    <2>4. c \in Int
      <3>1. doc \in 0 .. N /\ v.startDoc \in 0 .. N /\ v.startLine \in Int
        BY <1>1, NAssumption DEF Docs, IsView
      <3>2. RowPos(v)[doc] \in Nat /\ RowPos(v)[v.startDoc] \in Nat
        BY <1>1, <3>1, RowPosFacts, WalkFacts
      <3> QED
        BY <3>1, <3>2
    <2> HIDE DEF c
    <2>5. Reaches(v, x)
      BY <2>4, SetCursor DEF Loaded
    <2> HIDE DEF w, x
    <2>6. JumpToDoc(v, doc).ups = 0
      BY <2>1, <2>2, <2>3, <2>5, ComputeVisibleFields DEF Reaches
    <2> QED
      BY <2>6 DEF OnItsWay
  <1> QED
    BY <1>2, <1>3
=============================================================================
