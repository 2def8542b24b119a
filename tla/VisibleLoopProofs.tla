------------------------- MODULE VisibleLoopProofs -------------------------
(***************************************************************************)
(* The two loops of computeVisible compute what BSONCacheView says they    *)
(* do, for files of any number of documents of any number of rows, windows *)
(* of any height, and every position that computeVisible is called in.     *)
(***************************************************************************)
EXTENDS VisibleLoop, BSONCacheViewProofs

-----------------------------------------------------------------------------
(* The loop invariant *)

\* The rows before "row" have been walked over, each skipped or drawn.
Walked(row) ==
    /\ skipLines > 0 => line = 0 /\ row + skipLines = Top(v)
    /\ skipLines <= 0 => row = Top(v) + line

\* What the loops have left so far of the documents before doc.
Pushed ==
    /\ docLines \in Seq(Int) /\ Len(docLines) = doc - v.startDoc
    /\ \A i \in 1 .. doc - v.startDoc :
         docLines[i] = MinOf(RowPos(v)[v.startDoc + i], WalkEnd(v))
                         - RowPos(v)[v.startDoc + i - 1]
    /\ doc > v.startDoc => lastDoc = doc - 1
    /\ v.mode = "kTextLogs" => (v.startDoc .. doc - 1) \cap Throws = {}

\* The cursor's document is set as soon as its line is drawn.
CursorSet ==
    cursorDoc = IF 0 <= v.cursorLine /\ v.cursorLine < line
                THEN DocAt(v, Top(v) + v.cursorLine) ELSE v.cursorDoc

\* Between two documents: the screen is full, or all rows before doc are done.
AtDocs ==
    /\ numDocs = IF doc > v.startDoc /\ doc - 1 >= v.numDocs THEN doc ELSE v.numDocs
    /\ line < v.mainLines => Walked(RowPos(v)[doc])
    /\ line = v.mainLines => /\ doc > v.startDoc
                             /\ RowPos(v)[doc - 1] < Top(v) + line
                             /\ Top(v) + line <= RowPos(v)[doc]

\* In a document, thisDocLines rows of which are done.
InDoc ==
    /\ doc < N
    /\ v.mode = "kTextLogs" => doc \notin Throws
    /\ numDocs = IF doc >= v.numDocs THEN doc + 1 ELSE v.numDocs
    /\ Walked(RowPos(v)[doc] + thisDocLines)
    /\ RowPos(v)[doc] + thisDocLines <= RowPos(v)[doc + 1]
    /\ line = v.mainLines => thisDocLines > 0
    /\ pc = "rows" => RowPos(v)[doc] + thisDocLines < RowPos(v)[doc + 1]
    /\ pc = "push" => RowPos(v)[doc] + thisDocLines = RowPos(v)[doc + 1] \/ line = v.mainLines

LoopInv ==
    /\ Callable(v)
    /\ v.proc = "running"
    /\ pc \in {"docs", "rows", "push", "done", "exception"}
    /\ doc \in v.startDoc .. N
    /\ line \in 0 .. v.mainLines
    /\ skipLines \in Int /\ thisDocLines \in Nat
    /\ Pushed
    /\ CursorSet
    /\ pc = "docs" => AtDocs
    /\ pc \in {"rows", "push"} => InDoc
    /\ pc = "done" => AtDocs /\ (line = v.mainLines \/ doc = N)
    /\ pc = "exception" => /\ doc < N /\ doc \in Throws /\ v.mode = "kTextLogs"
                           /\ line < v.mainLines /\ Walked(RowPos(v)[doc])

-----------------------------------------------------------------------------
(* Facts about one call *)

\* Where the walk begins, where it ends, and the rows of the documents.
LEMMA CallFacts ==
    ASSUME NEW w, Callable(w)
    PROVE  /\ IsView(w)
           /\ w.startDoc \in Docs /\ w.startLine \in Int /\ w.cursorLine \in Int
           /\ w.mainLines \in Nat \ {0} /\ w.numDocs \in 1 .. N /\ w.cursorDoc \in Docs
           /\ RowPos(w) \in [0 .. N -> Nat]
           /\ \A d, e \in 0 .. N : d < e => RowPos(w)[d] < RowPos(w)[e]
           /\ Top(w) \in Nat /\ RowPos(w)[w.startDoc] <= Top(w)
           /\ w.startLine > 0 => Top(w) = RowPos(w)[w.startDoc] + w.startLine
           /\ w.startLine <= 0 => Top(w) = RowPos(w)[w.startDoc]
           /\ TotalRows(w) = RowPos(w)[N]
           /\ WalkEnd(w) = MinOf(Top(w) + w.mainLines, RowPos(w)[N])
  <1>1. IsView(w)
    BY DEF Callable
  <1>2. /\ w.startDoc \in Docs /\ w.startLine \in Int /\ w.cursorLine \in Int
        /\ w.mainLines \in Nat \ {0} /\ w.numDocs \in 1 .. N /\ w.cursorDoc \in Docs
    BY <1>1 DEF IsView
  <1>3. /\ RowPos(w) \in [0 .. N -> Nat]
        /\ \A d, e \in 0 .. N : d < e => RowPos(w)[d] < RowPos(w)[e]
    BY <1>1, RowPosFacts
  <1>4. Top(w) \in Nat /\ RowPos(w)[w.startDoc] <= Top(w) /\ RowPos(w)[w.startDoc] \in Nat
    BY <1>1, WalkFacts
  <1>5. /\ w.startLine > 0 => Top(w) = RowPos(w)[w.startDoc] + w.startLine
        /\ w.startLine <= 0 => Top(w) = RowPos(w)[w.startDoc]
    BY <1>2, <1>4 DEF Top
  <1>6. TotalRows(w) = RowPos(w)[N] /\ RowPos(w)[N] \in Nat
    BY <1>3, NAssumption DEF TotalRows
  <1>7. WalkEnd(w) = MinOf(Top(w) + w.mainLines, RowPos(w)[N])
    BY <1>2, <1>4, <1>6 DEF WalkEnd, FillsScreen, MinOf
  <1> QED
    BY <1>1, <1>2, <1>3, <1>4, <1>5, <1>6, <1>7

\* The rows of a document of the file.
LEMMA DocRows ==
    ASSUME NEW w, Callable(w), NEW d \in w.startDoc .. N
    PROVE  /\ d \in 0 .. N
           /\ RowPos(w)[d] \in Nat
           /\ RowPos(w)[d] <= RowPos(w)[N]
           /\ d < N => /\ d \in Docs
                       /\ RowPos(w)[d + 1] \in Nat
                       /\ RowPos(w)[d] < RowPos(w)[d + 1]
                       /\ RowPos(w)[d + 1] <= RowPos(w)[N]
  <1>1. /\ w.startDoc \in Docs /\ RowPos(w) \in [0 .. N -> Nat]
        /\ \A a, b \in 0 .. N : a < b => RowPos(w)[a] < RowPos(w)[b]
    BY CallFacts
  <1>2. d \in 0 .. N /\ N \in 0 .. N /\ N \in Nat
    BY <1>1, NAssumption DEF Docs
  <1>3. RowPos(w)[d] \in Nat /\ RowPos(w)[N] \in Nat
    BY <1>1, <1>2
  <1>4. RowPos(w)[d] <= RowPos(w)[N]
    BY <1>1, <1>2, <1>3
  <1>5. CASE d < N
    <2>1. d \in Docs /\ d + 1 \in 0 .. N /\ d < d + 1
      BY <1>2, <1>5 DEF Docs
    <2>2. RowPos(w)[d + 1] \in Nat /\ RowPos(w)[d] < RowPos(w)[d + 1]
      BY <1>1, <1>2, <2>1
    <2>3. RowPos(w)[d + 1] <= RowPos(w)[N]
      BY <1>1, <1>2, <1>3, <2>1, <2>2
    <2> QED
      BY <1>2, <1>3, <1>4, <2>1, <2>2, <2>3
  <1> QED
    BY <1>2, <1>3, <1>4, <1>5

\* A row that a document has is that document's.
LEMMA RowOfDoc ==
    ASSUME NEW w, Callable(w), NEW d \in Docs, NEW row \in Nat,
           RowPos(w)[d] <= row, row < RowPos(w)[d + 1]
    PROVE  DocAt(w, row) = d
  <1>1. IsView(w) /\ TotalRows(w) = RowPos(w)[N] /\ RowPos(w) \in [0 .. N -> Nat]
        /\ \A a, b \in 0 .. N : a < b => RowPos(w)[a] < RowPos(w)[b]
    BY CallFacts
  <1>2. d + 1 \in 0 .. N /\ N \in 0 .. N /\ (d + 1 < N \/ d + 1 = N)
    BY NAssumption DEF Docs
  <1>3. RowPos(w)[d + 1] \in Nat /\ RowPos(w)[N] \in Nat /\ RowPos(w)[d + 1] <= RowPos(w)[N]
    BY <1>1, <1>2
  <1>4. row < TotalRows(w)
    BY <1>1, <1>3
  <1> QED
    BY <1>1, <1>4, DocAtFacts

-----------------------------------------------------------------------------
(* The loop invariant is kept *)

LEMMA LoopStarts ==
    ASSUME Init
    PROVE  LoopInv
  <1>1. v \in Calls
    BY DEF Init
  <1>2. Callable(v) /\ v.proc = "running"
    BY <1>1, CallsAssumption DEF Callable, IsView, ProcStates
  <1>3. /\ v.startDoc \in Docs /\ v.startLine \in Int /\ v.mainLines \in Nat \ {0}
        /\ v.cursorLine \in Int /\ v.numDocs \in 1 .. N
        /\ v.startLine > 0 => Top(v) = RowPos(v)[v.startDoc] + v.startLine
        /\ v.startLine <= 0 => Top(v) = RowPos(v)[v.startDoc]
    BY <1>2, CallFacts
  <1>4. /\ pc = "docs" /\ line = 0 /\ doc = v.startDoc /\ skipLines = v.startLine
        /\ thisDocLines = 0 /\ docLines = <<>> /\ cursorDoc = v.cursorDoc
        /\ numDocs = v.numDocs
    BY DEF Init
  <1>5. doc \in v.startDoc .. N /\ RowPos(v)[doc] \in Nat
    <2>1. doc \in v.startDoc .. N
      BY <1>3, <1>4, NAssumption DEF Docs
    <2> QED
      BY <1>2, <2>1, DocRows
  <1>6. Walked(RowPos(v)[doc])
    BY <1>3, <1>4, <1>5 DEF Walked
  <1>7. AtDocs
    BY <1>3, <1>4, <1>6, NAssumption DEF AtDocs, Docs
  <1>8. Pushed
    <2>1. v.startDoc .. doc - 1 = {} /\ 1 .. doc - v.startDoc = {}
      BY <1>3, <1>4, NAssumption DEF Docs
    <2>2. Len(docLines) = doc - v.startDoc /\ docLines \in Seq(Int)
      BY <1>3, <1>4, NAssumption DEF Docs
    <2>3. ~(doc > v.startDoc)
      BY <1>3, <1>4, NAssumption DEF Docs
    <2> QED
      BY <2>1, <2>2, <2>3 DEF Pushed
  <1>9. CursorSet
    BY <1>3, <1>4 DEF CursorSet
  <1>10. line \in 0 .. v.mainLines /\ skipLines \in Int /\ thisDocLines \in Nat
    BY <1>3, <1>4
  <1> QED
    BY <1>2, <1>4, <1>5, <1>7, <1>8, <1>9, <1>10 DEF LoopInv

\* What LoopInv says at every point of the call.
LEMMA LoopFacts ==
    ASSUME LoopInv
    PROVE  /\ Callable(v) /\ v.startDoc \in Docs /\ v.mainLines \in Nat \ {0}
           /\ v.numDocs \in 1 .. N /\ v.cursorLine \in Int
           /\ doc \in v.startDoc .. N /\ doc \in Nat /\ line \in 0 .. v.mainLines
           /\ skipLines \in Int /\ thisDocLines \in Nat
           /\ Top(v) \in Nat /\ RowPos(v)[doc] \in Nat
           /\ doc < N => doc \in Docs /\ RowPos(v)[doc + 1] \in Nat
  <1>1. Callable(v) /\ doc \in v.startDoc .. N
    BY DEF LoopInv
  <1>2. v.startDoc \in Docs /\ v.mainLines \in Nat \ {0} /\ v.numDocs \in 1 .. N
        /\ v.cursorLine \in Int /\ Top(v) \in Nat
    BY <1>1, CallFacts
  <1>3. RowPos(v)[doc] \in Nat /\ (doc < N => doc \in Docs /\ RowPos(v)[doc + 1] \in Nat)
    BY <1>1, DocRows
  <1>4. doc \in Nat
    BY <1>1, <1>2, NAssumption DEF Docs
  <1> QED
    BY <1>1, <1>2, <1>3, <1>4 DEF LoopInv

\* The head of the outer loop.
LEMMA NextDocKeeps ==
    ASSUME LoopInv, NextDoc
    PROVE  LoopInv'
  <1>1. /\ pc = "docs" /\ v' = v /\ line' = line /\ doc' = doc /\ skipLines' = skipLines
        /\ thisDocLines' = 0 /\ docLines' = docLines /\ lastDoc' = lastDoc
        /\ cursorDoc' = cursorDoc
    BY DEF NextDoc
  <1>2. /\ v.startDoc \in Docs /\ v.mainLines \in Nat \ {0} /\ v.numDocs \in 1 .. N
        /\ doc \in v.startDoc .. N /\ doc \in Nat /\ line \in 0 .. v.mainLines
        /\ RowPos(v)[doc] \in Nat
        /\ doc < N => doc \in Docs /\ RowPos(v)[doc + 1] \in Nat
        /\ doc < N => RowPos(v)[doc] < RowPos(v)[doc + 1]
    BY LoopFacts, DocRows
  <1>3. AtDocs
    BY <1>1 DEF LoopInv
  <1>4. /\ Callable(v') /\ v'.proc = "running" /\ doc' \in v'.startDoc .. N
        /\ line' \in 0 .. v'.mainLines /\ skipLines' \in Int /\ thisDocLines' \in Nat
    BY <1>1 DEF LoopInv
  <1>5. Pushed' /\ CursorSet'
    <2>1. Pushed /\ CursorSet
      BY DEF LoopInv
    <2> QED
      BY <1>1, <2>1 DEF Pushed, CursorSet
  <1>6. CASE line < v.mainLines /\ (numDocs # N \/ doc < numDocs)
    <2>1. doc < N
      <3>1. SUFFICES ASSUME doc = N PROVE FALSE
        BY <1>2, NAssumption DEF Docs
      <3>2. numDocs = N
        BY <1>2, <1>3, <3>1, NAssumption DEF AtDocs, Docs
      <3> QED
        BY <1>2, <1>6, <3>1, <3>2, NAssumption
    <2>2. Walked(RowPos(v)[doc])
      BY <1>3, <1>6 DEF AtDocs
    <2>3. numDocs' = IF doc >= v.numDocs THEN doc + 1 ELSE v.numDocs
      <3>1. numDocs' = IF doc >= numDocs THEN doc + 1 ELSE numDocs
        BY <1>6 DEF NextDoc
      <3>2. numDocs = IF doc > v.startDoc /\ doc - 1 >= v.numDocs THEN doc ELSE v.numDocs
        BY <1>3 DEF AtDocs
      <3> QED
        BY <1>2, <3>1, <3>2, NAssumption DEF Docs
    <2>4. CASE v.mode = "kTextLogs" /\ doc \in Throws
      <3>1. pc' = "exception"
        BY <1>6, <2>4 DEF NextDoc
      <3>2. Walked(RowPos(v)[doc])'
        BY <1>1, <2>2 DEF Walked
      <3> QED
        BY <1>1, <1>4, <1>5, <1>6, <2>1, <2>4, <3>1, <3>2 DEF LoopInv
    <2>5. CASE ~(v.mode = "kTextLogs" /\ doc \in Throws)
      <3>1. pc' = "rows"
        BY <1>6, <2>5 DEF NextDoc
      <3>2. RowPos(v)[doc] + thisDocLines' = RowPos(v)[doc]
        BY <1>1, <1>2
      <3>3. Walked(RowPos(v)[doc] + thisDocLines)'
        BY <1>1, <2>2, <3>2 DEF Walked
      <3>4. InDoc'
        BY <1>1, <1>2, <1>6, <2>1, <2>3, <2>5, <3>1, <3>2, <3>3 DEF InDoc
      <3> QED
        BY <1>4, <1>5, <3>1, <3>4 DEF LoopInv
    <2> QED
      BY <2>4, <2>5
  <1>7. CASE ~(line < v.mainLines /\ (numDocs # N \/ doc < numDocs))
    <2>1. pc' = "done" /\ numDocs' = numDocs
      BY <1>7 DEF NextDoc
    <2>2. line = v.mainLines \/ doc = N
      BY <1>2, <1>7, NAssumption DEF Docs
    <2>3. AtDocs'
      BY <1>1, <1>3, <2>1 DEF AtDocs, Walked
    <2> QED
      BY <1>1, <1>4, <1>5, <2>1, <2>2, <2>3 DEF LoopInv
  <1> QED
    BY <1>6, <1>7

\* A row is skipped, or drawn and perhaps found to be the cursor's.
LEMMA RowWalked ==
    ASSUME LoopInv, NextRow, line < v.mainLines
    PROVE  /\ Walked(RowPos(v)[doc] + thisDocLines)'
           /\ line' \in 0 .. v.mainLines /\ skipLines' \in Int
           /\ CursorSet'
  <1>1. /\ pc = "rows" /\ v' = v /\ doc' = doc /\ thisDocLines' = thisDocLines + 1
    BY DEF NextRow
  <1>2. /\ Callable(v) /\ v.mainLines \in Nat \ {0} /\ v.cursorLine \in Int
        /\ doc \in Nat /\ line \in 0 .. v.mainLines
        /\ skipLines \in Int /\ thisDocLines \in Nat
        /\ Top(v) \in Nat /\ RowPos(v)[doc] \in Nat
        /\ doc < N => doc \in Docs /\ RowPos(v)[doc + 1] \in Nat
    BY LoopFacts
  <1>3. CursorSet /\ InDoc
    BY <1>1 DEF LoopInv
  <1> DEFINE row == RowPos(v)[doc] + thisDocLines
  <1>4. Walked(row) /\ doc < N /\ row < RowPos(v)[doc + 1] /\ row \in Nat
        /\ RowPos(v)[doc] <= row
    BY <1>1, <1>2, <1>3 DEF InDoc
  <1>5. (RowPos(v)[doc] + thisDocLines)' = row + 1
    BY <1>1, <1>2
  <1> HIDE DEF row
  <1>6. CASE skipLines > 0
    <2>1. skipLines' = skipLines - 1 /\ line' = line /\ cursorDoc' = cursorDoc
      BY <1>6 DEF NextRow
    <2>2. line = 0 /\ row + skipLines = Top(v)
      BY <1>4, <1>6 DEF Walked
    <2>3. Walked(RowPos(v)[doc] + thisDocLines)'
      BY <1>1, <1>2, <1>4, <1>5, <1>6, <2>1, <2>2 DEF Walked
    <2>4. CursorSet'
      BY <1>1, <1>3, <2>1 DEF CursorSet
    <2> QED
      BY <1>2, <2>1, <2>3, <2>4
  <1>7. CASE ~(skipLines > 0)
    <2>1. /\ skipLines' = skipLines /\ line' = line + 1
          /\ cursorDoc' = IF line = v.cursorLine THEN doc ELSE cursorDoc
      BY <1>7 DEF NextRow
    <2>2. row = Top(v) + line
      BY <1>2, <1>4, <1>7 DEF Walked
    <2>3. Walked(RowPos(v)[doc] + thisDocLines)'
      BY <1>1, <1>2, <1>4, <1>5, <1>7, <2>1, <2>2 DEF Walked
    <2>4. DocAt(v, Top(v) + line) = doc
      BY <1>2, <1>4, <2>2, RowOfDoc
    <2>5. CursorSet'
      <3>1. CASE line = v.cursorLine
        <4>1. cursorDoc' = DocAt(v, Top(v) + v.cursorLine)
          BY <2>1, <2>4, <3>1
        <4>2. 0 <= v.cursorLine /\ v.cursorLine < line'
          BY <1>2, <2>1, <3>1
        <4> QED
          BY <1>1, <4>1, <4>2 DEF CursorSet
      <3>2. CASE line # v.cursorLine
        <4>1. cursorDoc' = cursorDoc
          BY <2>1, <3>2
        <4>2. v.cursorLine < line' <=> v.cursorLine < line
          BY <1>2, <2>1, <3>2
        <4> QED
          BY <1>1, <1>3, <4>1, <4>2 DEF CursorSet
      <3> QED
        BY <3>1, <3>2
    <2>6. line' \in 0 .. v.mainLines
      BY <1>2, <2>1
    <2> QED
      BY <1>2, <2>1, <2>3, <2>5, <2>6
  <1> QED
    BY <1>6, <1>7

\* One turn of the inner loop.
LEMMA NextRowKeeps ==
    ASSUME LoopInv, NextRow
    PROVE  LoopInv'
  <1>1. /\ pc = "rows" /\ v' = v /\ doc' = doc /\ docLines' = docLines /\ lastDoc' = lastDoc
        /\ numDocs' = numDocs
    BY DEF NextRow
  <1>2. /\ v.mainLines \in Nat \ {0} /\ doc \in Nat /\ line \in 0 .. v.mainLines
        /\ thisDocLines \in Nat /\ RowPos(v)[doc] \in Nat
        /\ doc < N => doc \in Docs /\ RowPos(v)[doc + 1] \in Nat
    BY LoopFacts
  <1>3. InDoc /\ Pushed
    BY <1>1 DEF LoopInv
  <1>4. Callable(v') /\ v'.proc = "running" /\ doc' \in v'.startDoc .. N /\ Pushed'
    BY <1>1, <1>3 DEF LoopInv, Pushed
  <1>5. CASE line < v.mainLines
    <2>1. /\ thisDocLines' = thisDocLines + 1
          /\ pc' = IF thisDocLines' = Height(doc) THEN "push" ELSE "rows"
      BY <1>5 DEF NextRow
    <2>2. /\ Walked(RowPos(v)[doc] + thisDocLines)'
          /\ line' \in 0 .. v.mainLines /\ skipLines' \in Int /\ CursorSet'
      BY <1>5, RowWalked
    <2>3. /\ doc < N /\ RowPos(v)[doc + 1] \in Nat
          /\ RowPos(v)[doc] + thisDocLines < RowPos(v)[doc + 1]
      BY <1>1, <1>2, <1>3 DEF InDoc
    <2>4. /\ thisDocLines' \in Nat /\ thisDocLines' > 0 /\ pc' \in {"rows", "push"}
          /\ RowPos(v)[doc] + thisDocLines' <= RowPos(v)[doc + 1]
          /\ pc' = "rows" => RowPos(v)[doc] + thisDocLines' < RowPos(v)[doc + 1]
          /\ pc' = "push" => RowPos(v)[doc] + thisDocLines' = RowPos(v)[doc + 1]
      BY <1>2, <2>1, <2>3 DEF Height
    <2>5. InDoc'
      BY <1>1, <1>3, <2>2, <2>4 DEF InDoc
    <2> QED
      BY <1>1, <1>4, <2>2, <2>4, <2>5 DEF LoopInv
  <1>6. CASE ~(line < v.mainLines)
    <2>1. /\ pc' = "push" /\ line' = line /\ skipLines' = skipLines
          /\ thisDocLines' = thisDocLines /\ cursorDoc' = cursorDoc
      BY <1>6 DEF NextRow
    <2>2. line = v.mainLines
      BY <1>2, <1>6
    <2>3. InDoc'
      BY <1>1, <1>3, <2>1, <2>2 DEF InDoc, Walked
    <2>4. CursorSet' /\ line' \in 0 .. v'.mainLines /\ skipLines' \in Int
          /\ thisDocLines' \in Nat
      BY <1>1, <2>1 DEF LoopInv, CursorSet
    <2> QED
      BY <1>1, <1>4, <2>1, <2>3, <2>4 DEF LoopInv
  <1> QED
    BY <1>5, <1>6

\* The tail of the outer loop.
LEMMA PushDocKeeps ==
    ASSUME LoopInv, PushDoc
    PROVE  LoopInv'
  <1>1. /\ pc = "push" /\ v' = v /\ docLines' = Append(docLines, thisDocLines)
        /\ lastDoc' = doc /\ doc' = doc + 1 /\ pc' = "docs" /\ line' = line
        /\ skipLines' = skipLines /\ thisDocLines' = thisDocLines
        /\ cursorDoc' = cursorDoc /\ numDocs' = numDocs
    BY DEF PushDoc
  <1>2. /\ Callable(v) /\ v.startDoc \in Docs /\ v.mainLines \in Nat \ {0}
        /\ v.numDocs \in 1 .. N
        /\ doc \in v.startDoc .. N /\ doc \in Nat /\ line \in 0 .. v.mainLines
        /\ skipLines \in Int /\ thisDocLines \in Nat
        /\ Top(v) \in Nat /\ RowPos(v)[doc] \in Nat
        /\ doc < N => doc \in Docs /\ RowPos(v)[doc + 1] \in Nat
    BY LoopFacts
  <1>3. InDoc /\ Pushed /\ CursorSet
    BY <1>1 DEF LoopInv
  <1>4. /\ doc < N /\ RowPos(v)[doc + 1] \in Nat
        /\ RowPos(v)[doc] + thisDocLines <= RowPos(v)[doc + 1]
        /\ line = v.mainLines => thisDocLines > 0
        /\ RowPos(v)[doc] + thisDocLines = RowPos(v)[doc + 1] \/ line = v.mainLines
        /\ numDocs = IF doc >= v.numDocs THEN doc + 1 ELSE v.numDocs
        /\ v.mode = "kTextLogs" => doc \notin Throws
    BY <1>1, <1>2, <1>3 DEF InDoc
  <1>5. Walked(RowPos(v)[doc] + thisDocLines)
    BY <1>3 DEF InDoc
  <1>6. line = v.mainLines => RowPos(v)[doc] + thisDocLines = Top(v) + line
    BY <1>2, <1>5 DEF Walked
  <1>7. doc' \in v'.startDoc .. N /\ doc' > v'.startDoc /\ doc' - 1 = doc
        /\ doc' - v'.startDoc = doc - v.startDoc + 1
        /\ doc - v.startDoc \in Nat
    <2>1. v.startDoc \in Nat /\ v.startDoc <= doc /\ N \in Nat
      BY <1>2, NAssumption DEF Docs
    <2>2. /\ doc + 1 \in v.startDoc .. N /\ doc + 1 > v.startDoc /\ (doc + 1) - 1 = doc
          /\ (doc + 1) - v.startDoc = doc - v.startDoc + 1 /\ doc - v.startDoc \in Nat
      BY <1>2, <1>4, <2>1
    <2>3. doc' = doc + 1 /\ v' = v /\ v'.startDoc = v.startDoc
      BY <1>1
    <2>4. doc' \in v'.startDoc .. N
      BY <2>2, <2>3, Zenon
    <2>5. doc' > v'.startDoc /\ doc' - 1 = doc
      BY <2>2, <2>3, Zenon
    <2>6. doc' - v'.startDoc = doc - v.startDoc + 1
      BY <2>2, <2>3, Zenon
    <2> QED
      BY <2>2, <2>4, <2>5, <2>6, Zenon
  <1>8. AtDocs'
    <2>1. numDocs' = IF doc' > v'.startDoc /\ doc' - 1 >= v'.numDocs THEN doc' ELSE v'.numDocs
      BY <1>1, <1>4, <1>7
    <2>2. ASSUME line < v.mainLines PROVE Walked(RowPos(v)[doc])'
      <3>1. RowPos(v)[doc] + thisDocLines = RowPos(v)[doc + 1]
        BY <1>2, <1>4, <2>2
      <3> QED
        BY <1>1, <1>5, <3>1 DEF Walked
    <2>3. ASSUME line = v.mainLines
          PROVE  RowPos(v)[doc] < Top(v) + line /\ Top(v) + line <= RowPos(v)[doc + 1]
      BY <1>2, <1>4, <1>6, <2>3
    <2> QED
      BY <1>1, <1>7, <2>1, <2>2, <2>3 DEF AtDocs
  <1>9. thisDocLines = MinOf(RowPos(v)[doc + 1], WalkEnd(v)) - RowPos(v)[doc]
    <2>1. WalkEnd(v) = MinOf(Top(v) + v.mainLines, RowPos(v)[N])
      BY <1>2, CallFacts
    <2>2. RowPos(v)[doc + 1] <= RowPos(v)[N] /\ N \in v.startDoc .. N
      BY <1>2, <1>4, DocRows, NAssumption DEF Docs
    <2>3. RowPos(v)[N] \in Nat
      BY <1>2, <2>2, DocRows
    <2>4. RowPos(v)[doc] + thisDocLines <= Top(v) + v.mainLines
      BY <1>2, <1>5 DEF Walked
    <2>5. MinOf(RowPos(v)[doc + 1], WalkEnd(v)) = RowPos(v)[doc] + thisDocLines
      <3>1. CASE line = v.mainLines
        BY <1>2, <1>4, <1>6, <2>1, <2>2, <2>3, <3>1 DEF MinOf
      <3>2. CASE line # v.mainLines
        BY <1>2, <1>4, <2>1, <2>2, <2>3, <2>4, <3>2 DEF MinOf
      <3> QED
        BY <3>1, <3>2
    <2> QED
      BY <1>2, <2>5
  <1>10. Pushed'
    <2>1. /\ docLines \in Seq(Int) /\ Len(docLines) = doc - v.startDoc
          /\ \A i \in 1 .. doc - v.startDoc :
               docLines[i] = MinOf(RowPos(v)[v.startDoc + i], WalkEnd(v))
                               - RowPos(v)[v.startDoc + i - 1]
      BY <1>3 DEF Pushed
    <2>2. /\ docLines' \in Seq(Int) /\ Len(docLines') = doc' - v'.startDoc
          /\ \A i \in 1 .. doc - v.startDoc : docLines'[i] = docLines[i]
          /\ docLines'[doc - v.startDoc + 1] = thisDocLines
      BY <1>1, <1>2, <1>7, <2>1
    <2>3. ASSUME NEW i \in 1 .. doc - v.startDoc + 1
          PROVE  docLines'[i] = MinOf(RowPos(v)[v.startDoc + i], WalkEnd(v))
                                  - RowPos(v)[v.startDoc + i - 1]
      <3>1. CASE i = doc - v.startDoc + 1
        <4>1. v.startDoc + i = doc + 1 /\ v.startDoc + i - 1 = doc
          BY <1>2, <3>1, NAssumption DEF Docs
        <4> QED
          BY <1>9, <2>2, <3>1, <4>1
      <3>2. CASE i # doc - v.startDoc + 1
        <4>1. i \in 1 .. doc - v.startDoc
          BY <1>7, <3>2
        <4> QED
          BY <2>1, <2>2, <4>1
      <3> QED
        BY <3>1, <3>2
    <2>4. ASSUME v.mode = "kTextLogs" PROVE (v.startDoc .. doc) \cap Throws = {}
      <3>1. (v.startDoc .. doc - 1) \cap Throws = {} /\ doc \notin Throws
        BY <1>3, <1>4, <2>4 DEF Pushed
      <3>2. \A d \in v.startDoc .. doc : d = doc \/ d \in v.startDoc .. doc - 1
        BY <1>2, NAssumption DEF Docs
      <3> QED
        BY <3>1, <3>2
    <2> QED
      BY <1>1, <1>7, <2>2, <2>3, <2>4 DEF Pushed
  <1>11. CursorSet'
    BY <1>1, <1>3 DEF CursorSet
  <1> QED
    BY <1>1, <1>2, <1>7, <1>8, <1>10, <1>11 DEF LoopInv

\* The invariant holds throughout the call.
LEMMA LoopInvariant ==
    Spec => []LoopInv
  <1>1. Init => LoopInv
    BY LoopStarts
  <1>2. LoopInv /\ [Next]_vars => LoopInv'
    <2> SUFFICES ASSUME LoopInv, [Next]_vars PROVE LoopInv'
      OBVIOUS
    <2>1. CASE NextDoc
      BY <2>1, NextDocKeeps
    <2>2. CASE NextRow
      BY <2>2, NextRowKeeps
    <2>3. CASE PushDoc
      BY <2>3, PushDocKeeps
    <2>4. CASE UNCHANGED vars
      BY <2>4 DEF vars, LoopInv, Pushed, CursorSet, AtDocs, InDoc, Walked
    <2> QED
      BY <2>1, <2>2, <2>3, <2>4 DEF Next
  <1> QED
    BY <1>1, <1>2, PTL DEF Spec

-----------------------------------------------------------------------------
(* The sum of _docLines *)

\* The smallest of some numbers.
LEMMA LeastNumber ==
    ASSUME NEW T, T \subseteq Nat, T # {}
    PROVE  \E x \in T : \A y \in T : x <= y
  <1> DEFINE R == OpToRel(<, Nat)
  <1>1. IsWellFoundedOn(R, Nat)
    BY NatLessThanWellFounded
  <1> HIDE DEF R
  <1>2. PICK x \in T : \A y \in T : ~ (<<y, x>> \in R)
    BY <1>1, WFMin
  <1>3. ASSUME NEW y \in T PROVE x <= y
    <2>1. ~ (<<y, x>> \in {ss \in Nat \X Nat : ss[1] < ss[2]})
      BY <1>2 DEF R, OpToRel
    <2> QED
      BY <2>1
  <1> QED
    BY <1>3

\* What holds before a loop and is kept by each turn of it holds throughout.
LEMMA EveryTurn ==
    ASSUME NEW L \in Nat, NEW S, 0 \in S,
           \A n \in 1 .. L : n - 1 \in S => n \in S
    PROVE  \A n \in 0 .. L : n \in S
  <1> DEFINE T == {n \in 0 .. L : n \notin S}
  <1>1. SUFFICES ASSUME T # {} PROVE FALSE
    OBVIOUS
  <1>2. T \subseteq Nat
    OBVIOUS
  <1>3. PICK x \in T : \A y \in T : x <= y
    BY <1>1, <1>2, LeastNumber
  <1>4. x \in 1 .. L
    BY <1>3
  <1>5. x - 1 \notin T
    BY <1>3, <1>4
  <1> QED
    BY <1>3, <1>4, <1>5

\* std::accumulate: f[n] is the sum after n elements.
IsSum(f) ==
    /\ f[0] = 0
    /\ \A n \in 1 .. Len(docLines) : f[n] = f[n - 1] + docLines[n]
    /\ GetTotalDocLines = f[Len(docLines)]

LEMMA SumExists ==
    ASSUME docLines \in Seq(Int)
    PROVE  \E f : IsSum(f)
  <1> DEFINE q == docLines
             Body(f, m) == [n \in 0 .. m |-> IF n = 0 THEN 0 ELSE f[n - 1] + q[n]]
             S == {m \in Nat : \E f : f = Body(f, m)}
  <1>1. Len(q) \in Nat
    OBVIOUS
  <1>2. \A m \in 0 .. Len(q) : m \in S
    <2>1. 0 \in S
      <3> DEFINE f == [n \in 0 .. 0 |-> 0]
      <3>1. f = Body(f, 0)
        OBVIOUS
      <3> QED
        BY <3>1
    <2>2. ASSUME NEW m \in 1 .. Len(q), m - 1 \in S PROVE m \in S
      <3>1. PICK f : f = Body(f, m - 1)
        BY <2>2
      <3> DEFINE g == [n \in 0 .. m |-> IF n = m THEN f[m - 1] + q[m] ELSE f[n]]
      <3>2. g = Body(g, m)
        <4> SUFFICES ASSUME NEW n \in 0 .. m
                     PROVE  g[n] = IF n = 0 THEN 0 ELSE g[n - 1] + q[n]
          OBVIOUS
        <4>1. CASE n = m
          <5>1. m # 0 /\ m - 1 \in 0 .. m /\ m - 1 # m /\ g[m - 1] = f[m - 1]
            OBVIOUS
          <5> QED
            BY <4>1, <5>1
        <4>2. CASE n # m /\ n # 0
          <5>1. n \in 0 .. m - 1 /\ n - 1 \in 0 .. m /\ n - 1 # m /\ g[n - 1] = f[n - 1]
            BY <4>2
          <5> QED
            BY <4>2, <5>1, <3>1
        <4>3. CASE n # m /\ n = 0
          BY <4>3, <3>1
        <4> QED
          BY <4>1, <4>2, <4>3
      <3> HIDE DEF g
      <3>3. \E h : h = Body(h, m)
        BY <3>2
      <3> HIDE DEF Body
      <3> QED
        BY <3>3
    <2> HIDE DEF S
    <2> QED
      BY <2>1, <2>2, <1>1, EveryTurn
  <1>3. PICK f : f = Body(f, Len(q))
    <2> HIDE DEF Body
    <2>1. Len(q) \in S
      BY <1>1, <1>2
    <2> QED
      BY <2>1
  <1> DEFINE loop == CHOOSE h : h = Body(h, Len(q))
  <1>4. loop = Body(loop, Len(q))
    BY <1>3
  <1>5. GetTotalDocLines = loop[Len(q)]
    BY DEF GetTotalDocLines
  <1> HIDE DEF loop, q
  <1>6. loop[0] = 0
    BY <1>1, <1>4
  <1>7. ASSUME NEW n \in 1 .. Len(q) PROVE loop[n] = loop[n - 1] + q[n]
    <2>1. n \in 0 .. Len(q) /\ n # 0
      BY <1>1
    <2>2. Body(loop, Len(q))[n] = loop[n - 1] + q[n]
      BY <2>1
    <2> HIDE DEF Body
    <2> QED
      BY <2>2, <1>4
  <1> QED
    BY <1>5, <1>6, <1>7 DEF q, IsSum

-----------------------------------------------------------------------------
(* The end of the call *)

\* The loops end where the closed form says.
LEMMA LoopEnd ==
    ASSUME LoopInv, pc = "done"
    PROVE  /\ doc > v.startDoc
           /\ LastWalked(v) = doc - 1
           /\ NumRows(v) = line
           /\ numDocs = IF LastWalked(v) >= v.numDocs THEN LastWalked(v) + 1 ELSE v.numDocs
  <1>1. /\ Callable(v) /\ v.startDoc \in Docs /\ v.mainLines \in Nat \ {0}
        /\ v.numDocs \in 1 .. N
        /\ doc \in v.startDoc .. N /\ doc \in Nat /\ line \in 0 .. v.mainLines
        /\ skipLines \in Int /\ Top(v) \in Nat /\ RowPos(v)[doc] \in Nat
    BY LoopFacts
  <1>2. AtDocs /\ (line = v.mainLines \/ doc = N)
    BY DEF LoopInv
  <1>3. TotalRows(v) = RowPos(v)[N] /\ N \in v.startDoc .. N
    BY <1>1, CallFacts, NAssumption DEF Docs
  <1>4. RowPos(v)[N] \in Nat /\ RowPos(v)[doc] <= RowPos(v)[N]
    BY <1>1, <1>3, DocRows
  <1>5. CASE line = v.mainLines
    <2>1. /\ doc > v.startDoc /\ RowPos(v)[doc - 1] < Top(v) + line
          /\ Top(v) + line <= RowPos(v)[doc]
      BY <1>2, <1>5 DEF AtDocs
    <2>2. FillsScreen(v) /\ WalkEnd(v) = Top(v) + line /\ NumRows(v) = line
      BY <1>1, <1>3, <1>4, <1>5, <2>1 DEF FillsScreen, WalkEnd, NumRows
    <2>3. doc - 1 \in v.startDoc .. N /\ doc - 1 \in Docs
      BY <1>1, <2>1, NAssumption DEF Docs
    <2>4. RowPos(v)[doc - 1] \in Nat
      BY <1>1, <2>3, DocRows
    <2>5. /\ WalkEnd(v) - 1 \in Nat /\ RowPos(v)[doc - 1] <= WalkEnd(v) - 1
          /\ WalkEnd(v) - 1 < RowPos(v)[doc - 1 + 1]
      BY <1>1, <2>1, <2>2, <2>4
    <2>6. DocAt(v, WalkEnd(v) - 1) = doc - 1
      BY <1>1, <2>3, <2>5, RowOfDoc
    <2>7. LastWalked(v) = doc - 1
      BY <2>2, <2>6 DEF LastWalked
    <2> QED
      BY <1>1, <1>2, <2>1, <2>2, <2>7 DEF AtDocs
  <1>6. CASE line # v.mainLines
    <2>1. doc = N /\ line < v.mainLines /\ Walked(RowPos(v)[N])
      BY <1>1, <1>2, <1>6 DEF AtDocs
    <2>2. ~FillsScreen(v) /\ NumRows(v) = line
      BY <1>1, <1>3, <1>4, <2>1 DEF FillsScreen, NumRows, Walked
    <2>3. LastWalked(v) = doc - 1
      BY <2>1, <2>2 DEF LastWalked
    <2>4. doc > v.startDoc
      BY <1>1, <2>1, NAssumption DEF Docs
    <2> QED
      BY <1>1, <1>2, <2>2, <2>3, <2>4 DEF AtDocs
  <1> QED
    BY <1>5, <1>6

\* _docLines is the list of the closed form.
LEMMA LoopDocLines ==
    ASSUME LoopInv, pc = "done"
    PROVE  docLines = DocLines(v)
  <1>1. /\ v.startDoc \in Docs /\ doc \in Nat /\ doc > v.startDoc /\ LastWalked(v) = doc - 1
    BY LoopFacts, LoopEnd
  <1>2. LastWalked(v) - v.startDoc + 1 = doc - v.startDoc /\ doc - v.startDoc \in Nat
    BY <1>1, NAssumption DEF Docs
  <1> DEFINE k == doc - v.startDoc
             h == [i \in 1 .. k |-> MinOf(RowPos(v)[v.startDoc + i], WalkEnd(v))
                                      - RowPos(v)[v.startDoc + i - 1]]
  <1>3. DocLines(v) = h
    BY <1>2 DEF DocLines
  <1>4. /\ docLines \in Seq(Int) /\ Len(docLines) = k
        /\ \A i \in 1 .. k : docLines[i] = MinOf(RowPos(v)[v.startDoc + i], WalkEnd(v))
                                             - RowPos(v)[v.startDoc + i - 1]
    BY DEF LoopInv, Pushed
  <1>5. \A i \in 1 .. k : docLines[i] = h[i]
    BY <1>4
  <1>6. docLines = [i \in 1 .. k |-> docLines[i]]
    BY <1>4
  <1>7. h = [i \in 1 .. k |-> h[i]]
    OBVIOUS
  <1> HIDE DEF h, k
  <1>8. docLines = h
    BY <1>5, <1>6, <1>7
  <1> QED
    BY <1>3, <1>8

\* getTotalDocLines: the sum telescopes.
LEMMA LoopTotal ==
    ASSUME LoopInv, pc = "done"
    PROVE  GetTotalDocLines = TotalDocLines(v)
  <1> DEFINE p == RowPos(v)
             s == v.startDoc
             k == doc - v.startDoc
             E == WalkEnd(v)
  <1>1. /\ Callable(v) /\ s \in Docs /\ doc \in s .. N /\ doc \in Nat
        /\ doc > s /\ LastWalked(v) = doc - 1
    BY LoopFacts, LoopEnd
  <1>2. /\ p \in [0 .. N -> Nat] /\ \A a, b \in 0 .. N : a < b => p[a] < p[b]
    BY <1>1, CallFacts
  <1>3. E \in Nat /\ p[doc - 1] < E /\ E <= p[doc]
    <2>1. IsView(v)
      BY <1>1 DEF Callable
    <2>2. E \in Nat /\ p[LastWalked(v)] < E /\ E <= p[LastWalked(v) + 1]
      BY <2>1, WalkFacts
    <2>3. LastWalked(v) + 1 = doc
      BY <1>1
    <2> QED
      BY <1>1, <2>2, <2>3
  <1>4. /\ docLines \in Seq(Int) /\ Len(docLines) = k /\ k \in Nat \ {0}
        /\ \A i \in 1 .. k : docLines[i] = MinOf(p[s + i], E) - p[s + i - 1]
    BY <1>1, NAssumption DEF LoopInv, Pushed, Docs
  <1>5. PICK f : IsSum(f)
    BY <1>4, SumExists
  <1>6. /\ f[0] = 0 /\ \A n \in 1 .. k : f[n] = f[n - 1] + docLines[n]
        /\ GetTotalDocLines = f[k]
    BY <1>4, <1>5 DEF IsSum
  <1>7. s + k = doc /\ TotalDocLines(v) = E - p[s]
    BY <1>1, NAssumption DEF TotalDocLines, Docs
  <1>8. s \in Nat /\ s + k \in 0 .. N
    BY <1>1, <1>7, NAssumption DEF Docs
  <1> HIDE DEF p, s, k, E
  <1> DEFINE S == {n \in Nat : n <= k => f[n] = MinOf(p[s + n], E) - p[s]}
  <1>9. \A n \in 0 .. k : s + n \in 0 .. N /\ p[s + n] \in Nat
    <2> SUFFICES ASSUME NEW n \in 0 .. k PROVE s + n \in 0 .. N /\ p[s + n] \in Nat
      OBVIOUS
    <2>1. s + n \in 0 .. N
      BY <1>4, <1>8, NAssumption
    <2> QED
      BY <1>2, <2>1
  <1>10. \A n \in 0 .. k - 1 : p[s + n] < E
    <2> SUFFICES ASSUME NEW n \in 0 .. k - 1 PROVE p[s + n] < E
      OBVIOUS
    <2>1. s + n \in 0 .. N /\ p[s + n] \in Nat /\ k - 1 \in 0 .. k
      BY <1>4, <1>9
    <2>2. s + (k - 1) \in 0 .. N /\ p[s + (k - 1)] \in Nat
      BY <1>9, <2>1
    <2>3. s + (k - 1) = doc - 1
      BY <1>4, <1>7, <1>8
    <2>4. CASE n = k - 1
      BY <1>3, <2>3, <2>4
    <2>5. CASE n # k - 1
      <3>1. s + n < s + (k - 1)
        BY <1>4, <1>8, <2>5
      <3>2. p[s + n] < p[s + (k - 1)]
        BY <1>2, <2>1, <2>2, <3>1
      <3> QED
        BY <1>3, <2>1, <2>2, <2>3, <3>2
    <2> QED
      BY <2>4, <2>5
  <1>11. 0 \in S
    <2>1. s + 0 = s /\ 0 \in 0 .. k - 1 /\ 0 \in 0 .. k
      BY <1>4, <1>8
    <2>2. p[s] < E /\ p[s] \in Nat
      BY <1>9, <1>10, <2>1
    <2> QED
      BY <1>3, <1>6, <2>1, <2>2 DEF MinOf
  <1>12. ASSUME NEW n \in 1 .. k, n - 1 \in S PROVE n \in S
    <2>1. n - 1 \in 0 .. k - 1 /\ n - 1 <= k /\ n \in Nat /\ n \in 0 .. k /\ n - 1 \in 0 .. k
          /\ 0 \in 0 .. k /\ s + 0 = s
      BY <1>4, <1>8, <1>12
    <2>2. f[n - 1] = MinOf(p[s + (n - 1)], E) - p[s]
      BY <1>12, <2>1
    <2>3. p[s + (n - 1)] < E /\ p[s + (n - 1)] \in Nat /\ p[s + n] \in Nat /\ p[s] \in Nat
      BY <1>9, <1>10, <2>1
    <2>4. s + n - 1 = s + (n - 1)
      BY <1>8, <2>1
    <2>5. f[n] = f[n - 1] + (MinOf(p[s + n], E) - p[s + (n - 1)])
      BY <1>4, <1>6, <2>4
    <2>6. f[n - 1] = p[s + (n - 1)] - p[s]
      BY <1>3, <2>2, <2>3 DEF MinOf
    <2>7. MinOf(p[s + n], E) \in Int
      BY <1>3, <2>3 DEF MinOf
    <2>8. f[n] = MinOf(p[s + n], E) - p[s]
      BY <2>3, <2>5, <2>6, <2>7
    <2> QED
      BY <2>1, <2>8
  <1> HIDE DEF S
  <1>13. k \in S
    <2>1. \A n \in 0 .. k : n \in S
      BY <1>4, <1>11, <1>12, EveryTurn
    <2> QED
      BY <1>4, <2>1
  <1>14. f[k] = MinOf(p[doc], E) - p[s]
    BY <1>4, <1>7, <1>13 DEF S
  <1>15. p[doc] \in Nat
    BY <1>4, <1>7, <1>9
  <1>16. MinOf(p[doc], E) = E
    BY <1>3, <1>15 DEF MinOf
  <1> QED
    BY <1>6, <1>7, <1>14, <1>16

\* The record that the loops leave is the one of the closed form.
LEMMA LoopRecord ==
    ASSUME LoopInv, pc = "done"
    PROVE  ComputeVisible(v) = [v EXCEPT !.docLines = docLines, !.lastDoc = lastDoc,
                                         !.lastLine = line - 1, !.cursorDoc = cursorDoc,
                                         !.numDocs = numDocs]
  <1> DEFINE c == ComputeVisible(v)
             u == [v EXCEPT !.docLines = docLines, !.lastDoc = lastDoc,
                            !.lastLine = line - 1, !.cursorDoc = cursorDoc,
                            !.numDocs = numDocs]
  <1>1. Callable(v) /\ IsView(v) /\ line \in Int
    BY LoopFacts DEF Callable
  <1>2. /\ IsView(c) /\ c.startCol = v.startCol
        /\ c.mode = v.mode /\ c.ext = v.ext /\ c.startDoc = v.startDoc
        /\ c.startLine = v.startLine /\ c.mainLines = v.mainLines
        /\ c.cursorLine = v.cursorLine /\ c.jumpToEnd = v.jumpToEnd
        /\ c.ups = v.ups /\ c.goal = v.goal
        /\ c.docLines = DocLines(v) /\ c.lastDoc = LastWalked(v)
        /\ c.lastLine = NumRows(v) - 1
        /\ c.numDocs = IF LastWalked(v) >= v.numDocs THEN LastWalked(v) + 1 ELSE v.numDocs
        /\ c.cursorDoc = IF 0 <= v.cursorLine /\ v.cursorLine < NumRows(v)
                         THEN DocAt(v, Top(v) + v.cursorLine) ELSE v.cursorDoc
        /\ c.proc = IF v.mode = "kTextLogs" /\ (v.startDoc .. LastWalked(v)) \cap Throws # {}
                    THEN "exception" ELSE v.proc
    BY <1>1, ComputeVisibleFields
  <1> HIDE DEF c
  <1>3. /\ doc > v.startDoc /\ LastWalked(v) = doc - 1 /\ NumRows(v) = line
        /\ docLines = DocLines(v)
        /\ numDocs = IF LastWalked(v) >= v.numDocs THEN LastWalked(v) + 1 ELSE v.numDocs
    BY LoopEnd, LoopDocLines
  <1>4. /\ lastDoc = LastWalked(v)
        /\ ~(v.mode = "kTextLogs" /\ (v.startDoc .. LastWalked(v)) \cap Throws # {})
    BY <1>3 DEF LoopInv, Pushed
  <1>5. cursorDoc = IF 0 <= v.cursorLine /\ v.cursorLine < NumRows(v)
                    THEN DocAt(v, Top(v) + v.cursorLine) ELSE v.cursorDoc
    BY <1>3 DEF LoopInv, CursorSet
  <1>6. /\ c.docLines = docLines /\ c.lastDoc = lastDoc /\ c.lastLine = line - 1
        /\ c.cursorDoc = cursorDoc /\ c.numDocs = numDocs /\ c.proc = v.proc
    BY <1>2, <1>3, <1>4, <1>5
  <1>7. docLines \in Seq(Int) /\ lastDoc \in Docs /\ line - 1 \in Int /\ cursorDoc \in Docs
        /\ numDocs \in 1 .. N
    BY <1>1, <1>2, <1>6 DEF IsView
  <1>8. /\ u.startCol = v.startCol
        /\ u.mode = v.mode /\ u.ext = v.ext /\ u.startDoc = v.startDoc
        /\ u.startLine = v.startLine /\ u.mainLines = v.mainLines
        /\ u.cursorLine = v.cursorLine /\ u.jumpToEnd = v.jumpToEnd
        /\ u.ups = v.ups /\ u.goal = v.goal /\ u.proc = v.proc
        /\ u.docLines = docLines /\ u.lastDoc = lastDoc
        /\ u.lastLine = line - 1 /\ u.numDocs = numDocs /\ u.cursorDoc = cursorDoc
    BY <1>1 DEF IsView
  <1>9. IsView(u)
    BY <1>1, <1>7, <1>8 DEF IsView
  <1> HIDE DEF u
  <1>10. c = u
    BY <1>2, <1>6, <1>8, <1>9, ViewsAreEqual
  <1> QED
    BY <1>10 DEF c, u

\* The document that rendering throws on is one that the closed form walks over.
LEMMA LoopThrows ==
    ASSUME LoopInv, pc = "exception"
    PROVE  ComputeVisible(v).proc = "exception"
  <1>1. /\ Callable(v) /\ v.startDoc \in Docs /\ v.mainLines \in Nat \ {0}
        /\ doc \in v.startDoc .. N /\ doc \in Nat /\ line \in 0 .. v.mainLines
        /\ skipLines \in Int /\ Top(v) \in Nat /\ RowPos(v)[doc] \in Nat
    BY LoopFacts
  <1>2. /\ doc < N /\ doc \in Throws /\ v.mode = "kTextLogs" /\ line < v.mainLines
        /\ Walked(RowPos(v)[doc])
    BY DEF LoopInv
  <1>3. /\ IsView(v) /\ RowPos(v) \in [0 .. N -> Nat]
        /\ \A a, b \in 0 .. N : a < b => RowPos(v)[a] < RowPos(v)[b]
        /\ WalkEnd(v) = MinOf(Top(v) + v.mainLines, RowPos(v)[N])
    BY <1>1, CallFacts
  <1>4. RowPos(v)[doc] < WalkEnd(v)
    <2>1. RowPos(v)[doc] < Top(v) + v.mainLines
      BY <1>1, <1>2 DEF Walked
    <2>2. RowPos(v)[doc] < RowPos(v)[N]
      BY <1>1, <1>2, <1>3, NAssumption DEF Docs
    <2> QED
      BY <1>3, <2>1, <2>2 DEF MinOf
  <1>5. /\ LastWalked(v) \in Docs /\ WalkEnd(v) \in Nat
        /\ WalkEnd(v) <= RowPos(v)[LastWalked(v) + 1]
    BY <1>3, WalkFacts
  <1>6. doc <= LastWalked(v)
    <2>1. SUFFICES ASSUME LastWalked(v) < doc PROVE FALSE
      BY <1>1, <1>5, NAssumption DEF Docs
    <2>2. LastWalked(v) + 1 \in 0 .. N /\ doc \in 0 .. N
          /\ (LastWalked(v) + 1 < doc \/ LastWalked(v) + 1 = doc)
      BY <1>1, <1>2, <1>5, <2>1, NAssumption DEF Docs
    <2>3. RowPos(v)[LastWalked(v) + 1] <= RowPos(v)[doc]
          /\ RowPos(v)[LastWalked(v) + 1] \in Nat
      BY <1>3, <2>2
    <2> QED
      BY <1>1, <1>4, <1>5, <2>3
  <1>7. doc \in v.startDoc .. LastWalked(v)
    BY <1>1, <1>5, <1>6, NAssumption DEF Docs
  <1>8. (v.startDoc .. LastWalked(v)) \cap Throws # {}
    BY <1>2, <1>7
  <1> QED
    BY <1>1, <1>2, <1>8, ComputeVisibleFields

\* The closed form of BSONCacheView, on which every statement about the view
\* rests, is what the nested loops of computeVisible and the sum taken by
\* getTotalDocLines compute, whatever the file, the window and the position.
THEOREM LoopsComputeTheLayout ==
    Spec => []LoopComputesLayout
  <1>1. LoopInv => LoopComputesLayout
    BY LoopRecord, LoopTotal, LoopThrows DEF LoopComputesLayout
  <1> QED
    BY <1>1, LoopInvariant, PTL
=============================================================================
