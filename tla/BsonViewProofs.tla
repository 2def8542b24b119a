--------------------------- MODULE BsonViewProofs ---------------------------
(***************************************************************************)
(* Machine-checked proofs about BsonView: the whole program, for any file, *)
(* any heights of the window, any patterns and any user.                   *)
(***************************************************************************)
EXTENDS BsonView, BSONCacheViewProofs, SequenceTheorems

-----------------------------------------------------------------------------
(* The inductive invariant *)

\* The marks and the ends of a drag are documents that are loaded.
MarksOK ==
    /\ marks \in [set : SUBSET Docs, drag : {"none", "mark", "unmark"},
                  first : Docs, last : Docs]
    /\ \A d \in marks.set \cup {marks.first, marks.last} : d < view.numDocs

\* The callbacks, the registered search and the status line fit together.
QueueOK ==
    /\ later \in Seq({"load_more", "search"})
    /\ search = {} \/ \E p \in Patterns : search = {p}
    /\ (\E i \in DOMAIN later : later[i] = "search") => search # {}
    /\ LoaderRunsUntilComplete
    /\ SearchIsPending

(***************************************************************************)
(* The document numbers must be those of loaded documents for the layout   *)
(* to exist, and the layout must be fresh for the operations to compute    *)
(* the next document numbers from it; during a jump (ups > 0) it is not.   *)
(***************************************************************************)
IInv ==
    /\ Loaded(view)
    /\ Idle => Fresh(view)
    /\ OnItsWay(view)
    /\ HangsOnlyPastTheEnd
    /\ winLines \in Nat \ {0}
    /\ MarksOK
    /\ QueueOK

\* What every step does to the view.
ViewStep ==
    /\ Loaded(view')
    /\ view'.numDocs >= view.numDocs
    /\ view'.jumpToEnd => view.jumpToEnd \/ ~IsComplete(view)
    /\ Idle' => Fresh(view')
    /\ OnItsWay(view')
    /\ HangsOnlyPastTheEnd'

-----------------------------------------------------------------------------
(* Smallest and largest documents *)

\* Every nonempty set of document numbers has a smallest element.
LEMMA FirstDocExists ==
    ASSUME NEW T, T \subseteq Docs, T # {}
    PROVE  \E x \in T : \A y \in T : x <= y
  <1> DEFINE R == OpToRel(<, Nat)
  <1>1. T \subseteq Nat
    BY NAssumption DEF Docs
  <1>2. IsWellFoundedOn(R, Nat)
    BY NatLessThanWellFounded
  <1> HIDE DEF R
  <1>3. PICK x \in T : \A y \in T : ~ (<<y, x>> \in R)
    BY <1>1, <1>2, WFMin
  <1>4. ASSUME NEW y \in T PROVE x <= y
    <2>1. ~ (<<y, x>> \in {ss \in Nat \X Nat : ss[1] < ss[2]})
      BY <1>3 DEF R, OpToRel
    <2> QED
      BY <1>1, <2>1
  <1> QED
    BY <1>4

\* Min and Max of a set of document numbers.
LEMMA MinMaxFacts ==
    ASSUME NEW T, T \subseteq Docs, T # {}
    PROVE  /\ Min(T) \in T /\ \A y \in T : Min(T) <= y
           /\ Max(T) \in T /\ \A y \in T : Max(T) >= y
  <1>1. \E x \in T : \A y \in T : x <= y
    BY FirstDocExists
  <1>2. \E x \in T : \A y \in T : y <= x
    BY LastDocExists
  <1>3. \E x \in T : \A y \in T : x >= y
    BY <1>2, NAssumption DEF Docs
  <1> QED
    BY <1>1, <1>3 DEF Min, Max

-----------------------------------------------------------------------------
(* The view *)

\* A call of a view operation by a handler is a step of the view.
LEMMA MovesIsViewStep ==
    ASSUME IInv, Idle, Moves(view, view') \/ Hangs(view, view')
    PROVE  ViewStep
  <1>1. CASE Moves(view, view')
    BY <1>1 DEF Moves, Reaches, ViewStep, HangsOnlyPastTheEnd, Idle, OnItsWay
  <1>2. CASE Hangs(view, view')
    BY <1>2 DEF Hangs, ViewStep, HangsOnlyPastTheEnd, Idle, PastTheEnd, OnItsWay
  <1> QED
    BY <1>1, <1>2

\* A view that is left alone.
LEMMA SameViewStep ==
    ASSUME IInv, view' = view
    PROVE  ViewStep
  <1>1. view.numDocs \in 1 .. N
    BY DEF IInv, Loaded, Callable, IsView
  <1> QED
    BY <1>1 DEF IInv, ViewStep, HangsOnlyPastTheEnd, Idle

\* A process that ends.
LEMMA StopIsViewStep ==
    ASSUME IInv, Idle, NEW p \in ProcStates \ {"hung"}, view' = [view EXCEPT !.proc = p]
    PROVE  ViewStep
  <1>1. IsView(view) /\ view.numDocs \in 1 .. N /\ Loaded(view) /\ Fresh(view)
    BY DEF IInv, Loaded, Callable, IsView
  <1>2. /\ IsView(view')
        /\ view'.mode = view.mode /\ view'.ext = view.ext /\ view'.startDoc = view.startDoc
        /\ view'.startLine = view.startLine /\ view'.mainLines = view.mainLines
        /\ view'.cursorLine = view.cursorLine /\ view'.numDocs = view.numDocs
        /\ view'.cursorDoc = view.cursorDoc /\ view'.lastDoc = view.lastDoc
        /\ view'.lastLine = view.lastLine /\ view'.docLines = view.docLines
        /\ view'.jumpToEnd = view.jumpToEnd /\ view'.ups = view.ups /\ view'.goal = view.goal
        /\ view'.proc = p
    BY <1>1 DEF IsView
  <1>3. Loaded(view')
    BY <1>1, <1>2 DEF Loaded, Callable
  <1>4. /\ DocLines(view') = DocLines(view) /\ LastWalked(view') = LastWalked(view)
        /\ NumRows(view') = NumRows(view) /\ Top(view') = Top(view)
        /\ \A row : DocAt(view', row) = DocAt(view, row)
    <2>1. /\ view'.mode = view.mode /\ view'.ext = view.ext /\ view'.startDoc = view.startDoc
          /\ view'.startLine = view.startLine /\ view'.mainLines = view.mainLines
      BY <1>2
    <2> QED
      BY <2>1, SamePosition
  <1>5. Idle' => Fresh(view')
    BY <1>1, <1>2, <1>4 DEF Idle, Fresh
  <1> QED
    BY <1>1, <1>2, <1>3, <1>5 DEF ViewStep, HangsOnlyPastTheEnd, Idle, OnItsWay

\* A jump that is started.
LEMMA JumpIsViewStep ==
    ASSUME IInv, Idle, NEW doc \in Docs, doc < view.numDocs, view' = JumpToDoc(view, doc)
    PROVE  ViewStep
  <1>1. Loaded(view) /\ Fresh(view) /\ view.numDocs \in 1 .. N
    BY DEF IInv, Loaded, Callable, IsView
  <1>2. Moves(view, view') \/ Jumping(view, view')
    BY <1>1, JumpToDocMoves
  <1>3. CASE Jumping(view, view')
    <2>1. OnItsWay(view')
      BY <1>1, JumpStarts DEF Idle
    <2> QED
      BY <1>1, <1>3, <2>1 DEF Jumping, ViewStep, HangsOnlyPastTheEnd, Idle
  <1> QED
    BY <1>2, <1>3, MovesIsViewStep

\* The documents that a mouse line may stand for are loaded.
LEMMA DocForLineIsLoaded ==
    ASSUME Loaded(view), NEW line, NEW doc \in DocForLine(view, line)
    PROVE  doc \in Docs /\ doc < view.numDocs
  <1>1. /\ view.startDoc \in Docs /\ view.lastDoc \in Docs /\ view.lastDoc < view.numDocs
        /\ view.numDocs \in 1 .. N
    BY DEF Loaded, Callable, IsView
  <1>2. doc \in view.startDoc .. view.lastDoc
    BY DEF DocForLine
  <1> QED
    BY <1>1, <1>2, NAssumption DEF Docs

\* The document that Tab or S-Tab jumps to is marked.
LEMMA TargetIsMarked ==
    ASSUME NEW m, m.set \subseteq Docs, NEW d,
           NEW doc \in NextMarkedDoc(m, d) \cup PrevMarkedDoc(m, d)
    PROVE  doc \in m.set
  <1>1. m.set # {}
    BY DEF NextMarkedDoc, PrevMarkedDoc
  <1>2. ASSUME NEW T, T \subseteq m.set, T # {}
        PROVE  Min(T) \in m.set /\ Max(T) \in m.set
    <2>1. T \subseteq Docs
      BY <1>2
    <2> QED
      BY <1>2, <2>1, MinMaxFacts
  <1>3. doc \in NextMarkedDoc(m, d) => doc \in m.set
    <2> DEFINE after == {e \in m.set : e > d}
    <2>1. after \subseteq m.set
      OBVIOUS
    <2>2. doc \in NextMarkedDoc(m, d) =>
             (doc = Min(after) /\ after # {}) \/ doc = Min(m.set)
      BY <1>1 DEF NextMarkedDoc
    <2> HIDE DEF after
    <2> QED
      BY <1>1, <1>2, <2>1, <2>2
  <1>4. doc \in PrevMarkedDoc(m, d) => doc \in m.set
    <2> DEFINE before == {e \in m.set : e < d}
    <2>1. before \subseteq m.set
      OBVIOUS
    <2>2. doc \in PrevMarkedDoc(m, d) =>
             (doc = Max(before) /\ before # {}) \/ doc = Max(m.set)
      BY <1>1 DEF PrevMarkedDoc
    <2> HIDE DEF before
    <2> QED
      BY <1>1, <1>2, <2>1, <2>2
  <1> QED
    BY <1>3, <1>4

\* The keys that only work on the view.
LEMMA ViewKeysStep ==
    ASSUME IInv, NEW mode \in Modes,
           \/ KeyQuit \/ KeyRenderMode(mode) \/ KeyToggleExtended
           \/ KeyLeft \/ KeyRight \/ KeyLineStart \/ KeyLineEnd
           \/ KeyDown \/ KeyUp \/ KeyHome \/ KeyEnd
           \/ KeyCursorTop \/ KeyCursorMiddle \/ KeyCursorBottom
           \/ KeyPageDown \/ KeyPageUp \/ KeyOther
    PROVE  /\ ViewStep /\ Idle
           /\ extra' = "" /\ UNCHANGED <<marks, search, later, winLines>>
  <1>1. Loaded(view) /\ (Idle => Fresh(view))
    BY DEF IInv
  <1>2. ASSUME NEW k, NEW w, ViewKey(k, w)
        PROVE  /\ Idle /\ view' = w /\ extra' = ""
               /\ UNCHANGED <<marks, search, later, winLines>>
    BY <1>2 DEF ViewKey, Key, ViewBecomes
  <1>3. ASSUME NEW k, NEW w, ViewKey(k, w), Idle => Moves(view, w) \/ Hangs(view, w)
        PROVE  ViewStep
    BY <1>2, <1>3, MovesIsViewStep
  <1>4. CASE KeyQuit
    <2>1. Idle /\ view' = [view EXCEPT !.proc = "stopped"]
      BY <1>2, <1>4 DEF KeyQuit
    <2>2. "stopped" \in ProcStates \ {"hung"}
      BY DEF ProcStates
    <2>3. ViewStep
      BY <2>1, <2>2, StopIsViewStep
    <2> QED
      BY <1>2, <1>4, <2>3 DEF KeyQuit
  <1>5. CASE KeyRenderMode(mode)
    <2>1. 1 \in Nat \ {0}
      OBVIOUS
    <2>2. Idle => Moves(view, SetDocumentRenderMode(view, mode))
      BY <1>1, <2>1, RenderingMoves
    <2> QED
      BY <1>2, <1>3, <1>5, <2>2 DEF KeyRenderMode
  <1>6. CASE KeyToggleExtended
    <2>1. 1 \in Nat \ {0}
      OBVIOUS
    <2>2. Idle => Moves(view, ToggleExtendedJSONMode(view))
      BY <1>1, <2>1, RenderingMoves
    <2> QED
      BY <1>2, <1>3, <1>6, <2>2 DEF KeyToggleExtended
  <1>7. CASE KeyLeft
    BY <1>1, <1>2, <1>3, <1>7, ColumnsMove DEF KeyLeft
  <1>8. CASE KeyRight
    BY <1>1, <1>2, <1>3, <1>8, ColumnsMove DEF KeyRight
  <1>9. CASE KeyLineStart
    BY <1>1, <1>2, <1>3, <1>9, ColumnsMove DEF KeyLineStart
  <1>10. CASE KeyLineEnd
    BY <1>1, <1>2, <1>3, <1>10, ColumnsMove DEF KeyLineEnd
  <1>11. CASE KeyDown
    BY <1>1, <1>2, <1>3, <1>11, MoveCursorMoves DEF KeyDown
  <1>12. CASE KeyUp
    BY <1>1, <1>2, <1>3, <1>12, MoveCursorMoves DEF KeyUp
  <1>13. CASE KeyHome
    BY <1>1, <1>2, <1>3, <1>13, JumpUpMoves DEF KeyHome
  <1>14. CASE KeyEnd
    BY <1>1, <1>2, <1>3, <1>14, JumpDownMoves DEF KeyEnd
  <1>15. CASE KeyCursorTop
    BY <1>1, <1>2, <1>3, <1>15, CursorFollows, FollowsMoves DEF KeyCursorTop
  <1>16. CASE KeyCursorMiddle
    BY <1>1, <1>2, <1>3, <1>16, CursorFollows, FollowsMoves DEF KeyCursorMiddle
  <1>17. CASE KeyCursorBottom
    BY <1>1, <1>2, <1>3, <1>17, CursorFollows, FollowsMoves DEF KeyCursorBottom
  <1>18. CASE KeyPageDown
    BY <1>1, <1>2, <1>3, <1>18, PageDownMoves DEF KeyPageDown
  <1>19. CASE KeyPageUp
    BY <1>1, <1>2, <1>3, <1>19, PageUpMoves DEF KeyPageUp
  <1>20. CASE KeyOther
    BY <1>1, <1>2, <1>3, <1>20, MovesNowhere DEF KeyOther
  <1> QED
    BY <1>4, <1>5, <1>6, <1>7, <1>8, <1>9, <1>10, <1>11, <1>12, <1>13, <1>14, <1>15,
       <1>16, <1>17, <1>18, <1>19, <1>20

-----------------------------------------------------------------------------
(* The marks *)

\* Marks that are left alone stay those of loaded documents.
LEMMA SameMarks ==
    ASSUME IInv, ViewStep, marks' = marks
    PROVE  MarksOK'
  <1>1. /\ view.numDocs \in 1 .. N /\ view'.numDocs \in 1 .. N
        /\ view'.numDocs >= view.numDocs
    BY DEF IInv, ViewStep, Loaded, Callable, IsView
  <1>2. ASSUME NEW d \in marks.set \cup {marks.first, marks.last}
        PROVE  d < view'.numDocs
    <2>1. d \in Docs /\ d < view.numDocs
      BY <1>2 DEF IInv, MarksOK
    <2> QED
      BY <1>1, <2>1, NAssumption DEF Docs
  <1> QED
    BY <1>2 DEF IInv, MarksOK

\* What a drag and Enter make of the marks, when they are told a loaded document.
LEMMA MarkingKeepsMarks ==
    ASSUME IInv, view' = view, NEW doc \in Docs, doc < view.numDocs,
           NEW how \in {"mark", "unmark"},
           marks' \in {DragStart(marks, doc), DragUpdate(marks, doc),
                       DragEnd(marks, doc, how), ToggleMarkDoc(marks, doc)}
    PROVE  MarksOK'
  <1> DEFINE M == [set : SUBSET Docs, drag : {"none", "mark", "unmark"}, first : Docs, last : Docs]
             Below == {d \in Docs : d < view.numDocs}
  <1>1. /\ marks \in M /\ marks.set \subseteq Below /\ marks.first \in Below
        /\ marks.last \in Below /\ doc \in Below /\ view.numDocs \in 1 .. N
    BY DEF IInv, MarksOK, Loaded, Callable, IsView
  <1>2. ASSUME NEW a \in Below, NEW b \in Below
        PROVE  a .. b \subseteq Below
    BY <1>1, NAssumption DEF Docs
  <1>3. DragRange([marks EXCEPT !.last = doc]) \subseteq Below
    <2> DEFINE m == [marks EXCEPT !.last = doc]
    <2>1. m.first = marks.first /\ m.last = doc
      BY <1>1
    <2>2. DragRange(m) = marks.first .. doc \/ DragRange(m) = doc .. marks.first
      BY <2>1 DEF DragRange
    <2> HIDE DEF m
    <2> QED
      BY <1>1, <1>2, <2>2 DEF m
  <1>4. Min({marks.first, doc}) \in Below /\ Max({marks.first, doc}) \in Below
    <2>1. {marks.first, doc} \subseteq Docs
      BY <1>1
    <2> QED
      BY <1>1, <2>1, MinMaxFacts
  <1> HIDE DEF Below
  <1>5. Below \subseteq Docs /\ \A d \in Below : d < view.numDocs
    BY DEF Below
  <1>6. /\ marks' \in M /\ marks'.set \subseteq Below
        /\ marks'.first \in Below /\ marks'.last \in Below
    <2>1. CASE marks' = DragStart(marks, doc)
      BY <1>1, <1>5, <2>1 DEF DragStart
    <2>2. CASE marks' = DragUpdate(marks, doc)
      BY <1>1, <1>5, <2>2 DEF DragUpdate
    <2>3. CASE marks' = DragEnd(marks, doc, how)
      <3> DEFINE range == DragRange([marks EXCEPT !.last = doc])
                 set == IF how = "mark" THEN marks.set \cup range ELSE marks.set \ range
                 lo == Min({marks.first, doc})
                 hi == Max({marks.first, doc})
      <3>1. marks' = [marks EXCEPT !.set = set, !.drag = "none", !.first = lo, !.last = hi]
        BY <2>3 DEF DragEnd
      <3>2. set \subseteq Below
        BY <1>1, <1>3
      <3> HIDE DEF set, lo, hi
      <3> QED
        BY <1>1, <1>4, <1>5, <3>1, <3>2 DEF lo, hi
    <2>4. CASE marks' = ToggleMarkDoc(marks, doc)
      BY <1>1, <1>5, <2>4 DEF ToggleMarkDoc
    <2> QED
      BY <2>1, <2>2, <2>3, <2>4
  <1> QED
    BY <1>5, <1>6 DEF MarksOK

-----------------------------------------------------------------------------
(* The callbacks, the search and the status line *)

Callbacks == {"load_more", "search"}

\* The queue without its head.
LEMMA TailOfQueue ==
    ASSUME NEW q \in Seq(Callbacks), q # <<>>
    PROVE  /\ DOMAIN q = 1 .. Len(q) /\ Len(q) \in Nat /\ Len(q) > 0 /\ Head(q) = q[1]
           /\ Tail(q) \in Seq(Callbacks) /\ Len(Tail(q)) = Len(q) - 1
           /\ DOMAIN Tail(q) = 1 .. Len(q) - 1
           /\ \A i \in 1 .. Len(q) - 1 : Tail(q)[i] = q[i + 1]
  <1>1. /\ Tail(q) \in Seq(Callbacks) /\ Len(Tail(q)) = Len(q) - 1
        /\ \A i \in 1 .. Len(Tail(q)) : Tail(q)[i] = q[i + 1]
        /\ Head(q) = q[1]
    BY HeadTailProperties
  <1>2. DOMAIN q = 1 .. Len(q) /\ Len(q) \in Nat /\ Len(q) > 0
    BY EmptySeq
  <1>3. DOMAIN Tail(q) = 1 .. Len(q) - 1
    BY <1>1
  <1> QED
    BY <1>1, <1>2, <1>3

\* The queue with a callback more.
LEMMA AppendToQueue ==
    ASSUME NEW q \in Seq(Callbacks), NEW c \in Callbacks
    PROVE  /\ DOMAIN q = 1 .. Len(q) /\ Len(q) \in Nat
           /\ Append(q, c) \in Seq(Callbacks) /\ Len(Append(q, c)) = Len(q) + 1
           /\ DOMAIN Append(q, c) = 1 .. Len(q) + 1
           /\ \A i \in 1 .. Len(q) : Append(q, c)[i] = q[i]
           /\ Append(q, c)[Len(q) + 1] = c
  <1>1. /\ Append(q, c) \in Seq(Callbacks) /\ Len(Append(q, c)) = Len(q) + 1
        /\ \A i \in 1 .. Len(q) : Append(q, c)[i] = q[i]
        /\ Append(q, c)[Len(q) + 1] = c
    BY AppendProperties
  <1>2. DOMAIN q = 1 .. Len(q) /\ Len(q) \in Nat
    OBVIOUS
  <1>3. DOMAIN Append(q, c) = 1 .. Len(q) + 1
    BY <1>1
  <1> QED
    BY <1>1, <1>2, <1>3

\* Once the cache is complete and the end is not asked for, this stays so.
LEMMA CompleteStays ==
    ASSUME IInv, ViewStep, IsComplete(view), ~view.jumpToEnd
    PROVE  IsComplete(view') /\ ~view'.jumpToEnd
  <1>1. view.numDocs \in 1 .. N /\ view'.numDocs \in 1 .. N
    BY DEF IInv, ViewStep, Loaded, Callable, IsView
  <1> QED
    BY <1>1, NAssumption DEF ViewStep, IsComplete

\* A handler that does not touch the queue.
LEMMA QuietQueue ==
    ASSUME IInv, ViewStep, Running, UNCHANGED <<later, search>>,
           extra' \in {extra, "", "No previous search"}
    PROVE  QueueOK'
  <1>1. LoaderRunsUntilComplete'
    <2> DEFINE loaders == {i \in DOMAIN later : later[i] = "load_more"}
    <2>1. /\ \A i, j \in loaders : i = j
          /\ loaders = {} => IsComplete(view) /\ ~view.jumpToEnd
      BY DEF IInv, QueueOK, LoaderRunsUntilComplete
    <2>2. loaders = {} => IsComplete(view') /\ ~view'.jumpToEnd
      BY <2>1, CompleteStays
    <2>3. IsComplete(view)' = IsComplete(view')
      BY DEF IsComplete
    <2>4. {i \in DOMAIN later' : later'[i] = "load_more"} = loaders
      OBVIOUS
    <2> QED
      BY <2>1, <2>2, <2>3, <2>4 DEF LoaderRunsUntilComplete, Running
  <1>2. SearchIsPending'
    BY DEF IInv, QueueOK, SearchIsPending, Running
  <1> QED
    BY <1>1, <1>2 DEF IInv, QueueOK

\* doSearch, with a search registered.
LEMMA SearchIsQueued ==
    ASSUME IInv, ViewStep, Running, DoSearch, \E p \in Patterns : search' = {p}
    PROVE  QueueOK'
  <1> DEFINE n == Len(later) + 1
  <1>1. later \in Seq(Callbacks) /\ "search" \in Callbacks
    BY DEF IInv, QueueOK, Callbacks
  <1>2. later' = Append(later, "search") /\ extra' = "Searching..."
    BY DEF DoSearch
  <1>3. /\ DOMAIN later = 1 .. Len(later) /\ Len(later) \in Nat
        /\ later' \in Seq(Callbacks) /\ DOMAIN later' = 1 .. n
        /\ \A i \in 1 .. Len(later) : later'[i] = later[i]
        /\ later'[n] = "search"
    BY <1>1, <1>2, AppendToQueue
  <1>4. {i \in DOMAIN later' : later'[i] = "load_more"} = {i \in DOMAIN later : later[i] = "load_more"}
    <2>1. ASSUME NEW i \in 1 .. n, later'[i] = "load_more"
          PROVE  i \in 1 .. Len(later)
      <3>1. i # n
        BY <1>3, <2>1
      <3> QED
        BY <1>3, <2>1, <3>1
    <2>2. 1 .. Len(later) \subseteq 1 .. n
      BY <1>3
    <2> HIDE DEF n
    <2> QED
      BY <1>3, <2>1, <2>2
  <1>5. LoaderRunsUntilComplete'
    <2> DEFINE loaders == {i \in DOMAIN later : later[i] = "load_more"}
    <2>1. /\ \A i, j \in loaders : i = j
          /\ loaders = {} => IsComplete(view) /\ ~view.jumpToEnd
      BY DEF IInv, QueueOK, LoaderRunsUntilComplete
    <2>2. loaders = {} => IsComplete(view') /\ ~view'.jumpToEnd
      BY <2>1, CompleteStays
    <2>3. IsComplete(view)' = IsComplete(view')
      BY DEF IsComplete
    <2> QED
      BY <1>4, <2>1, <2>2, <2>3 DEF LoaderRunsUntilComplete, Running
  <1>6. SearchIsPending'
    <2>1. n \in DOMAIN later'
      BY <1>3
    <2> QED
      BY <1>2, <1>3, <2>1 DEF SearchIsPending
  <1> QED
    BY <1>3, <1>5, <1>6 DEF QueueOK, Callbacks

\* load_more: a callback that runs leaves the queue, and comes back while there is
\* something to load.
LEMMA LoadMoreStep ==
    ASSUME IInv, LoadMore
    PROVE  ViewStep /\ MarksOK' /\ QueueOK' /\ winLines' = winLines
  <1>1. /\ Idle /\ later \in Seq(Callbacks) /\ later # <<>> /\ Head(later) = "load_more"
        /\ Loaded(view) /\ Fresh(view) /\ view.numDocs \in 1 .. N /\ IsView(view)
        /\ UNCHANGED <<marks, search, extra, focus, winLines>>
        /\ Running
    BY DEF IInv, QueueOK, LoadMore, Serves, Callbacks, Loaded, Callable, IsView, Idle, Running
  <1> DEFINE k == Len(later)
  <1>2. /\ DOMAIN later = 1 .. k /\ k \in Nat /\ k > 0 /\ later[1] = "load_more"
        /\ Tail(later) \in Seq(Callbacks) /\ Len(Tail(later)) = k - 1
        /\ DOMAIN Tail(later) = 1 .. k - 1
        /\ \A i \in 1 .. k - 1 : Tail(later)[i] = later[i + 1]
    BY <1>1, TailOfQueue
  <1>3. \A i, j \in 1 .. k : later[i] = "load_more" /\ later[j] = "load_more" => i = j
    BY <1>2 DEF IInv, QueueOK, LoaderRunsUntilComplete
  <1>4. \A i \in 1 .. k - 1 : Tail(later)[i] # "load_more"
    <2>1. SUFFICES ASSUME NEW i \in 1 .. k - 1, Tail(later)[i] = "load_more" PROVE FALSE
      OBVIOUS
    <2>2. later[i + 1] = "load_more" /\ i + 1 \in 1 .. k /\ 1 \in 1 .. k /\ i + 1 # 1
      BY <1>2, <2>1
    <2> QED
      BY <1>2, <1>3, <2>2
  <1>5. \A i \in 1 .. k : later[i] = "search" => i - 1 \in 1 .. k - 1 /\ Tail(later)[i - 1] = "search"
    <2>1. SUFFICES ASSUME NEW i \in 1 .. k, later[i] = "search"
                   PROVE  i - 1 \in 1 .. k - 1 /\ Tail(later)[i - 1] = "search"
      OBVIOUS
    <2>2. i # 1
      BY <1>2, <2>1
    <2>3. i - 1 \in 1 .. k - 1 /\ (i - 1) + 1 = i
      BY <1>2, <2>1, <2>2
    <2> QED
      BY <1>2, <2>1, <2>3
  <1>6. \A i \in 1 .. k - 1 : Tail(later)[i] = "search" => i + 1 \in 1 .. k /\ later[i + 1] = "search"
    BY <1>2
  <1> HIDE DEF k
  <1>7. CASE ~IsComplete(view)
    <2> DEFINE b == MinOf(view.numDocs + Batch, N)
    <2>1. view' = [view EXCEPT !.numDocs = b] /\ later' = Append(Tail(later), "load_more")
      BY <1>7 DEF LoadMore
    <2>2. b \in 1 .. N /\ b >= view.numDocs
      BY <1>1, BatchAssumption, NAssumption DEF MinOf
    <2> HIDE DEF b
    <2>3. /\ IsView(view') /\ view'.numDocs = b
          /\ view'.mode = view.mode /\ view'.ext = view.ext /\ view'.startDoc = view.startDoc
          /\ view'.startLine = view.startLine /\ view'.mainLines = view.mainLines
          /\ view'.cursorLine = view.cursorLine
          /\ view'.cursorDoc = view.cursorDoc /\ view'.lastDoc = view.lastDoc
          /\ view'.lastLine = view.lastLine /\ view'.docLines = view.docLines
          /\ view'.jumpToEnd = view.jumpToEnd /\ view'.ups = view.ups /\ view'.goal = view.goal
          /\ view'.proc = view.proc
      BY <1>1, <2>1, <2>2 DEF IsView
    <2>4. ViewStep
      <3>1. /\ view.cursorDoc \in Docs /\ view.goal \in Docs /\ view.startDoc \in Docs
            /\ view.lastDoc \in Docs /\ LastWalked(view) \in Docs
            /\ view.cursorDoc < view.numDocs /\ view.goal < view.numDocs
            /\ view.startDoc < view.numDocs /\ view.lastDoc < view.numDocs
            /\ LastWalked(view) < view.numDocs /\ Len(view.docLines) > 0
        BY <1>1, WalkFacts DEF Loaded, Callable, IsView, Fresh
      <3>2. /\ view.cursorDoc < b /\ view.goal < b /\ view.startDoc < b /\ view.lastDoc < b
            /\ LastWalked(view) < b
        BY <1>1, <2>2, <3>1, NAssumption DEF Docs
      <3>3. Loaded(view')
        BY <2>3, <3>1, <3>2 DEF Loaded, Callable
      <3>4. /\ DocLines(view') = DocLines(view) /\ LastWalked(view') = LastWalked(view)
            /\ NumRows(view') = NumRows(view) /\ Top(view') = Top(view)
            /\ \A row : DocAt(view', row) = DocAt(view, row)
        BY <2>3, SamePosition
      <3>5. Fresh(view')
        BY <1>1, <2>3, <3>2, <3>4 DEF Fresh
      <3> QED
        BY <1>1, <2>2, <2>3, <3>3, <3>5 DEF ViewStep, HangsOnlyPastTheEnd, Idle, OnItsWay
    <2>5. MarksOK'
      BY <1>1, <2>4, SameMarks
    <2>6. /\ later' \in Seq(Callbacks) /\ DOMAIN later' = 1 .. k
          /\ \A i \in 1 .. k - 1 : later'[i] = Tail(later)[i]
          /\ later'[k] = "load_more"
      <3>1. "load_more" \in Callbacks
        BY DEF Callbacks
      <3>2. (k - 1) + 1 = k
        BY <1>2
      <3> QED
        BY <1>2, <2>1, <3>1, <3>2, AppendToQueue
    <2>7. \A i \in 1 .. k : i # k => i \in 1 .. k - 1
      BY <1>2
    <2>8. LoaderRunsUntilComplete'
      <3>1. \A i \in 1 .. k : later'[i] = "load_more" => i = k
        BY <1>4, <2>6, <2>7
      <3>2. k \in 1 .. k
        BY <1>2
      <3> QED
        BY <2>6, <3>1, <3>2 DEF LoaderRunsUntilComplete
    <2>9. \A i \in 1 .. k - 1 : i \in 1 .. k
      BY <1>2
    <2>10. SearchIsPending'
      <3>1. (\E i \in DOMAIN later : later[i] = "search") => \E i \in DOMAIN later' : later'[i] = "search"
        <4> SUFFICES ASSUME NEW i \in DOMAIN later, later[i] = "search"
                     PROVE  \E j \in DOMAIN later' : later'[j] = "search"
          OBVIOUS
        <4>1. PICK j \in 1 .. k - 1 : Tail(later)[j] = "search"
          BY <1>2, <1>5
        <4> QED
          BY <2>6, <2>9, <4>1
      <3> QED
        BY <1>1, <3>1 DEF IInv, QueueOK, SearchIsPending
    <2>11. (\E i \in DOMAIN later' : later'[i] = "search") => search' # {}
      <3>1. (\E i \in DOMAIN later' : later'[i] = "search") => \E i \in DOMAIN later : later[i] = "search"
        BY <1>2, <1>6, <2>6, <2>7
      <3> QED
        BY <1>1, <3>1 DEF IInv, QueueOK
    <2> QED
      BY <1>1, <2>4, <2>5, <2>6, <2>8, <2>10, <2>11 DEF IInv, QueueOK, Callbacks
  <1>8. CASE IsComplete(view)
    <2>1. later' = Tail(later) /\ view' = IF view.jumpToEnd THEN JumpDown(view) ELSE view
      BY <1>8 DEF LoadMore, ViewBecomes
    <2>2. ViewStep
      BY <1>1, <2>1, JumpDownMoves, MovesNowhere, MovesIsViewStep
    <2>3. MarksOK'
      BY <1>1, <2>2, SameMarks
    <2>4. view'.proc = "running" => IsComplete(view') /\ ~view'.jumpToEnd
      <3>1. view'.proc = "running" => ~view'.jumpToEnd
        BY <1>1, <1>8, <2>1, JumpDownMoves
      <3>2. view'.numDocs \in 1 .. N /\ view'.numDocs >= view.numDocs
        BY <2>2 DEF ViewStep, Loaded, Callable, IsView
      <3> QED
        BY <1>1, <1>8, <3>1, <3>2, NAssumption DEF IsComplete
    <2>5. IsComplete(view)' = IsComplete(view')
      BY DEF IsComplete
    <2>6. LoaderRunsUntilComplete'
      BY <1>2, <1>4, <2>1, <2>4, <2>5 DEF LoaderRunsUntilComplete, Running
    <2>7. SearchIsPending'
      <3>1. (\E i \in DOMAIN later : later[i] = "search") => \E i \in DOMAIN later' : later'[i] = "search"
        BY <1>2, <1>5, <2>1
      <3> QED
        BY <1>1, <3>1 DEF IInv, QueueOK, SearchIsPending
    <2>8. (\E i \in DOMAIN later' : later'[i] = "search") => search' # {}
      <3>1. (\E i \in DOMAIN later' : later'[i] = "search") => \E i \in DOMAIN later : later[i] = "search"
        BY <1>2, <1>6, <2>1
      <3> QED
        BY <1>1, <3>1 DEF IInv, QueueOK
    <2> QED
      BY <1>1, <1>2, <2>1, <2>2, <2>3, <2>6, <2>7, <2>8 DEF IInv, QueueOK, Callbacks
  <1> QED
    BY <1>7, <1>8

\* The deferred search: what it finds is loaded, and its outcome replaces "Searching...".
LEMMA RunSearchStep ==
    ASSUME IInv, RunSearch
    PROVE  ViewStep /\ MarksOK' /\ QueueOK' /\ winLines' = winLines
  <1>1. /\ Idle /\ later \in Seq(Callbacks) /\ later # <<>> /\ Head(later) = "search"
        /\ Loaded(view) /\ Fresh(view) /\ view.numDocs \in 1 .. N /\ Callable(view)
        /\ view.cursorDoc \in Docs
        /\ UNCHANGED <<marks, search, focus, winLines>> /\ later' = Tail(later)
        /\ Running
    BY DEF IInv, QueueOK, RunSearch, Serves, Callbacks, Loaded, Callable, IsView, Idle, Running
  <1> DEFINE k == Len(later)
  <1>2. /\ DOMAIN later = 1 .. k /\ k \in Nat /\ k > 0 /\ later[1] = "search"
        /\ Tail(later) \in Seq(Callbacks)
        /\ DOMAIN Tail(later) = 1 .. k - 1
        /\ \A i \in 1 .. k - 1 : Tail(later)[i] = later[i + 1]
    BY <1>1, TailOfQueue
  <1>3. 1 \in DOMAIN later
    BY <1>2
  <1>4. PICK p \in Patterns : search = {p}
    BY <1>2, <1>3 DEF IInv, QueueOK
  <1>5. \/ p \notin ValidPatterns /\ extra' = "Invalid search pattern" /\ view' = view
        \/ RenderDocs(view, Searched(p)).proc # "running" /\ view' = RenderDocs(view, Searched(p))
             /\ extra' = extra
        \/ extra' = "Pattern not found" /\ view' = view
        \/ Found(p) # {} /\ extra' = "" /\ view' = JumpToDoc(view, Min(Found(p)))
    BY <1>4 DEF RunSearch, ViewBecomes
  <1>6. ViewStep
    <2>1. CASE view' = view
      BY <2>1, SameViewStep
    <2>2. CASE view' = RenderDocs(view, Searched(p))
      <3>1. Moves(view, view')
        BY <1>1, <2>2, RenderDocsReaches DEF Moves
      <3> QED
        BY <1>1, <3>1, MovesIsViewStep
    <2>3. CASE Found(p) # {} /\ view' = JumpToDoc(view, Min(Found(p)))
      <3>1. Found(p) \subseteq Docs /\ \A d \in Found(p) : d < view.numDocs
        BY <1>1, NAssumption DEF Found, Docs
      <3>2. Min(Found(p)) \in Found(p)
        BY <2>3, <3>1, MinMaxFacts
      <3> QED
        BY <1>1, <2>3, <3>1, <3>2, JumpIsViewStep
    <2> QED
      BY <1>5, <2>1, <2>2, <2>3
  <1>7. MarksOK'
    BY <1>1, <1>6, SameMarks
  <1>8. /\ Running' => extra' # "Searching..."
        /\ extra' # "No search pattern"
    BY <1>5 DEF Running, IInv, QueueOK, SearchIsPending
  <1>9. \A i \in 1 .. k - 1 : i + 1 \in 1 .. k
    BY <1>2
  <1>10. LoaderRunsUntilComplete'
    <2>1. ASSUME NEW i \in 1 .. k, later[i] = "load_more"
          PROVE  i - 1 \in 1 .. k - 1 /\ Tail(later)[i - 1] = "load_more"
      <3>1. i # 1
        BY <1>2, <2>1
      <3>2. i - 1 \in 1 .. k - 1 /\ (i - 1) + 1 = i
        BY <1>2, <2>1, <3>1
      <3> QED
        BY <1>2, <2>1, <3>2
    <2>2. \A i, j \in 1 .. k : later[i] = "load_more" /\ later[j] = "load_more" => i = j
      BY <1>2 DEF IInv, QueueOK, LoaderRunsUntilComplete
    <2>3. ASSUME NEW i \in 1 .. k - 1, NEW j \in 1 .. k - 1,
                 Tail(later)[i] = "load_more", Tail(later)[j] = "load_more"
          PROVE  i = j
      <3>1. i + 1 = j + 1
        BY <1>2, <1>9, <2>2, <2>3
      <3> QED
        BY <3>1
    <2>4. (\A i \in 1 .. k : later[i] # "load_more") => IsComplete(view) /\ ~view.jumpToEnd
      BY <1>1, <1>2 DEF IInv, QueueOK, LoaderRunsUntilComplete
    <2>5. (\A i \in 1 .. k - 1 : Tail(later)[i] # "load_more") => IsComplete(view') /\ ~view'.jumpToEnd
      BY <1>6, <2>1, <2>4, CompleteStays
    <2>6. IsComplete(view)' = IsComplete(view')
      BY DEF IsComplete
    <2> HIDE DEF k
    <2> QED
      BY <1>1, <1>2, <2>3, <2>5, <2>6 DEF LoaderRunsUntilComplete
  <1>11. SearchIsPending'
    BY <1>8 DEF SearchIsPending
  <1> QED
    BY <1>1, <1>2, <1>4, <1>6, <1>7, <1>10, <1>11 DEF QueueOK, Callbacks

-----------------------------------------------------------------------------
(* The other handlers *)

\* A step of a jump, a new geometry drawn, and a new geometry.
LEMMA WindowsStep ==
    ASSUME IInv, ContinueJump \/ Render \/ \E lines \in Heights : Resize(lines)
    PROVE  ViewStep /\ MarksOK' /\ QueueOK' /\ winLines' \in Nat \ {0}
  <1>1. /\ Running /\ Loaded(view) /\ (Idle => Fresh(view)) /\ winLines \in Nat \ {0}
        /\ UNCHANGED <<marks, search, later, extra>>
        /\ view.numDocs \in 1 .. N
    BY DEF IInv, Running, Idle, ContinueJump, Render, Resize, Loaded, Callable, IsView
  <1>2. winLines' \in Nat \ {0}
    BY <1>1, HeightsAssumption DEF ContinueJump, Render, Resize
  <1>3. ViewStep
    <2>1. CASE ContinueJump
      <3>1. view.ups > 0 /\ view.proc = "running" /\ view' = JumpStep(view)
        BY <2>1 DEF ContinueJump, ViewBecomes
      <3>2. /\ Loaded(view') /\ Fresh(view') /\ view'.numDocs >= view.numDocs
            /\ view'.jumpToEnd => view.jumpToEnd \/ ~IsComplete(view)
            /\ view'.proc \in {view.proc, "exception"}
        BY <1>1, <3>1, JumpStepMoves
      <3>3. OnItsWay(view')
        BY <1>1, <3>1, JumpStepLands DEF IInv
      <3> QED
        BY <3>1, <3>2, <3>3 DEF ViewStep, HangsOnlyPastTheEnd
    <2>2. CASE Render
      <3>1. Idle /\ view' = UpdateDimensions(view, winLines)
        BY <2>2 DEF Render, ViewBecomes
      <3>2. "kJSONOneline" \in Modes
        BY ModesAssumption
      <3>3. Moves(view, view')
        BY <1>1, <3>1, <3>2, RenderingMoves
      <3> QED
        BY <3>1, <3>3, MovesIsViewStep
    <2>3. CASE \E lines \in Heights : Resize(lines)
      <3>1. view' = view
        BY <2>3 DEF Resize
      <3> QED
        BY <3>1, SameViewStep
    <2> QED
      BY <2>1, <2>2, <2>3
  <1> QED
    BY <1>1, <1>2, <1>3, SameMarks, QuietQueue

\* The keys of the main window that go to the marks or to the search.
LEMMA OtherKeysStep ==
    ASSUME IInv, KeyEnter \/ KeyTab \/ KeyBackTab \/ KeySearch \/ KeySearchAgain
    PROVE  ViewStep /\ MarksOK' /\ QueueOK' /\ winLines' = winLines
  <1>1. /\ Loaded(view) /\ view.cursorDoc \in Docs /\ view.cursorDoc < view.numDocs
        /\ marks.set \subseteq Docs /\ \A d \in marks.set : d < view.numDocs
    BY DEF IInv, Loaded, Callable, IsView, MarksOK
  <1>2. CASE KeyEnter
    <2>1. /\ Running /\ view' = view /\ UNCHANGED <<search, later, winLines>> /\ extra' = ""
          /\ marks' = ToggleMarkDoc(marks, view.cursorDoc)
      BY <1>2 DEF KeyEnter, Key, Idle, Running
    <2>2. ViewStep
      BY <2>1, SameViewStep
    <2>3. "mark" \in {"mark", "unmark"}
      OBVIOUS
    <2>4. MarksOK'
      BY <1>1, <2>1, <2>3, MarkingKeepsMarks
    <2> QED
      BY <2>1, <2>2, <2>4, QuietQueue
  <1>3. CASE KeyTab \/ KeyBackTab
    <2> DEFINE next == NextMarkedDoc(marks, view.cursorDoc)
               prev == PrevMarkedDoc(marks, view.cursorDoc)
    <2>1. /\ Idle /\ Running /\ UNCHANGED <<marks, search, later, winLines>> /\ extra' = ""
          /\ \/ view' = view
             \/ \E doc \in next \cup prev : view' = JumpToDoc(view, doc)
      BY <1>3 DEF KeyTab, KeyBackTab, KeyJumpMarked, Key, Idle, Running, ViewBecomes
    <2>2. ViewStep
      <3>1. CASE view' = view
        BY <3>1, SameViewStep
      <3>2. ASSUME NEW doc \in next \cup prev, view' = JumpToDoc(view, doc)
            PROVE  ViewStep
        <4>1. doc \in marks.set
          BY <1>1, <3>2, TargetIsMarked
        <4> QED
          BY <1>1, <2>1, <3>2, <4>1, JumpIsViewStep
      <3> QED
        BY <2>1, <3>1, <3>2
    <2> HIDE DEF next, prev
    <2> QED
      BY <2>1, <2>2, SameMarks, QuietQueue
  <1>4. CASE KeySearch
    <2>1. /\ Running /\ view' = view /\ UNCHANGED <<marks, search, later, winLines>> /\ extra' = ""
      BY <1>4 DEF KeySearch, Key, Idle, Running
    <2>2. ViewStep
      BY <2>1, SameViewStep
    <2> QED
      BY <2>1, <2>2, SameMarks, QuietQueue
  <1>5. CASE KeySearchAgain
    <2>1. Running /\ view' = view /\ UNCHANGED <<marks, search, winLines>>
      BY <1>5 DEF KeySearchAgain, Idle, Running
    <2>2. ViewStep
      BY <2>1, SameViewStep
    <2>3. CASE search = {}
      <3>1. later' = later /\ extra' = "No previous search"
        BY <1>5, <2>3 DEF KeySearchAgain
      <3> QED
        BY <2>1, <2>2, <3>1, SameMarks, QuietQueue
    <2>4. CASE search # {}
      <3>1. DoSearch
        BY <1>5, <2>4 DEF KeySearchAgain
      <3>2. \E p \in Patterns : search' = {p}
        BY <2>1, <2>4 DEF IInv, QueueOK
      <3> QED
        BY <2>1, <2>2, <3>1, <3>2, SameMarks, SearchIsQueued
    <2> QED
      BY <2>3, <2>4
  <1> QED
    BY <1>2, <1>3, <1>4, <1>5

\* The prompt.
LEMMA PromptStep ==
    ASSUME IInv, PromptKeys
    PROVE  ViewStep /\ MarksOK' /\ QueueOK' /\ winLines' = winLines
  <1>1. CASE PromptCancel
    <2>1. /\ Running /\ view' = view /\ UNCHANGED <<marks, search, later, extra, winLines>>
      BY <1>1 DEF PromptCancel, Idle, Running
    <2>2. ViewStep
      BY <2>1, SameViewStep
    <2> QED
      BY <2>1, <2>2, SameMarks, QuietQueue
  <1>2. ASSUME NEW p \in Patterns, PromptConfirm(p)
        PROVE  ViewStep /\ MarksOK' /\ QueueOK' /\ winLines' = winLines
    <2>1. /\ Idle /\ Running /\ search' = {p} /\ DoSearch /\ UNCHANGED <<marks, winLines>>
          /\ \E out \in DeleteOutcomes(search) : view' = [view EXCEPT !.proc = out]
      BY <1>2 DEF PromptConfirm, Idle, Running
    <2>2. DeleteOutcomes(search) \subseteq ProcStates \ {"hung"}
      BY DEF DeleteOutcomes, ProcStates
    <2>3. ViewStep
      BY <2>1, <2>2, StopIsViewStep
    <2> QED
      BY <2>1, <2>3, SameMarks, SearchIsQueued
  <1> QED
    BY <1>1, <1>2 DEF PromptKeys

\* The mouse.
LEMMA MouseStep ==
    ASSUME IInv, MouseEvents
    PROVE  ViewStep /\ MarksOK' /\ QueueOK' /\ winLines' = winLines
  <1>1. /\ Idle /\ Running /\ UNCHANGED <<search, later, extra, winLines>>
    BY DEF MouseEvents, MouseWheelDown, MouseWheelUp, MousePress, MouseDrag, MouseRelease,
           Mouse, Idle, Running
  <1>2. Loaded(view) /\ Callable(view)
    BY DEF IInv, Loaded
  <1>3. CASE MouseWheelDown \/ MouseWheelUp
    <2>1. view' \in {MoveDown(view), MoveUp(view)} /\ marks' = marks
      BY <1>3 DEF MouseWheelDown, MouseWheelUp, ViewBecomes
    <2>2. Moves(view, view')
      BY <1>2, <2>1, MoveDownMoves, MoveUpMoves
    <2>3. ViewStep
      BY <1>1, <2>2, MovesIsViewStep
    <2> QED
      BY <1>1, <2>1, <2>3, SameMarks, QuietQueue
  <1>4. ASSUME NEW line, MousePress(line) \/ MouseDrag(line) \/ MouseRelease(line)
        PROVE  ViewStep /\ MarksOK' /\ QueueOK' /\ winLines' = winLines
    <2>1. /\ view' = view
          /\ \E doc \in DocForLine(view, line), how \in {"mark", "unmark"} :
               marks' \in {DragStart(marks, doc), DragUpdate(marks, doc), DragEnd(marks, doc, how)}
      <3>1. view' = view
        BY <1>4 DEF MousePress, MouseDrag, MouseRelease
      <3>2. DragValues(marks) \subseteq {"mark", "unmark"}
        BY DEF DragValues, IInv, MarksOK
      <3> QED
        BY <1>4, <3>1, <3>2 DEF MousePress, MouseDrag, MouseRelease
    <2>2. ViewStep
      BY <2>1, SameViewStep
    <2>3. MarksOK'
      <3>1. PICK doc \in DocForLine(view, line), how \in {"mark", "unmark"} :
              marks' \in {DragStart(marks, doc), DragUpdate(marks, doc), DragEnd(marks, doc, how)}
        BY <2>1
      <3>2. doc \in Docs /\ doc < view.numDocs
        BY <1>2, DocForLineIsLoaded
      <3> QED
        BY <2>1, <3>1, <3>2, MarkingKeepsMarks
    <2> QED
      BY <1>1, <2>2, <2>3, QuietQueue
  <1> QED
    BY <1>3, <1>4 DEF MouseEvents

-----------------------------------------------------------------------------
(* The program *)

\* A step of the view that leaves the rest in order keeps the invariant.
LEMMA StepKeepsIInv ==
    ASSUME ViewStep, MarksOK', QueueOK', winLines' \in Nat \ {0}
    PROVE  IInv'
  BY DEF IInv, ViewStep

(***************************************************************************)
(* After the first render_main the one document loaded is laid out, and    *)
(* load_more is queued.                                                    *)
(***************************************************************************)
LEMMA InitIInv == Init => IInv
  <1> SUFFICES ASSUME Init PROVE IInv
    OBVIOUS
  <1>1. winLines \in Nat \ {0}
    BY HeightsAssumption DEF Init
  <1>2. /\ Loaded(view) /\ Fresh(view) /\ view.proc \in {"running", "exception"}
        /\ view.numDocs \in 1 .. N /\ view.ups = 0
    BY <1>1, InitialViewIsFresh DEF Init, Loaded, Callable, IsView
  <1>3. MarksOK
    <2>1. 0 \in Docs /\ 0 < view.numDocs
      BY <1>2, NAssumption DEF Docs
    <2>2. marks = [set |-> {}, drag |-> "none", first |-> 0, last |-> 0]
      BY DEF Init, NoMarks
    <2>3. marks \in [set : SUBSET Docs, drag : {"none", "mark", "unmark"},
                    first : Docs, last : Docs]
      BY <2>1, <2>2
    <2> QED
      BY <2>1, <2>2, <2>3 DEF MarksOK
  <1>4. QueueOK
    <2>1. later = <<"load_more">> /\ DOMAIN later = {1} /\ later[1] = "load_more"
      <3>1. later = <<"load_more">>
        BY DEF Init
      <3>2. Len(later) = 1 /\ later[1] = "load_more" /\ DOMAIN later = 1 .. 1
        BY <3>1
      <3> QED
        BY <3>1, <3>2
    <2>2. later \in Seq({"load_more", "search"})
      BY <2>1
    <2> QED
      BY <2>1, <2>2 DEF Init, QueueOK, LoaderRunsUntilComplete, SearchIsPending
  <1> QED
    BY <1>1, <1>2, <1>3, <1>4 DEF IInv, HangsOnlyPastTheEnd, OnItsWay

\* Every handler keeps the invariant.
LEMMA NextIInv == IInv /\ [Next]_vars => IInv'
  <1> SUFFICES ASSUME IInv, [Next]_vars PROVE IInv'
    OBVIOUS
  <1>1. winLines \in Nat \ {0}
    BY DEF IInv
  <1>2. CASE LoadMore \/ RunSearch
    BY <1>1, <1>2, LoadMoreStep, RunSearchStep, StepKeepsIInv
  <1>3. CASE ContinueJump \/ Render \/ \E lines \in Heights : Resize(lines)
    BY <1>3, WindowsStep, StepKeepsIInv
  <1>4. CASE KeyEnter \/ KeyTab \/ KeyBackTab \/ KeySearch \/ KeySearchAgain
    BY <1>1, <1>4, OtherKeysStep, StepKeepsIInv
  <1>5. CASE PromptKeys
    BY <1>1, <1>5, PromptStep, StepKeepsIInv
  <1>6. CASE MouseEvents
    BY <1>1, <1>6, MouseStep, StepKeepsIInv
  <1>7. ASSUME NEW mode \in Modes,
               \/ KeyQuit \/ KeyRenderMode(mode) \/ KeyToggleExtended
               \/ KeyLeft \/ KeyRight \/ KeyLineStart \/ KeyLineEnd
               \/ KeyDown \/ KeyUp \/ KeyHome \/ KeyEnd
               \/ KeyCursorTop \/ KeyCursorMiddle \/ KeyCursorBottom
               \/ KeyPageDown \/ KeyPageUp \/ KeyOther
        PROVE  IInv'
    <2>1. /\ ViewStep /\ Idle
          /\ extra' = "" /\ UNCHANGED <<marks, search, later, winLines>>
      BY <1>7, ViewKeysStep
    <2>2. Running
      BY <2>1 DEF Idle, Running
    <2>3. MarksOK' /\ QueueOK'
      BY <2>1, <2>2, SameMarks, QuietQueue
    <2> QED
      BY <1>1, <2>1, <2>3, StepKeepsIInv
  <1>8. CASE UNCHANGED vars
    <2>1. view' = view /\ UNCHANGED <<marks, search, later, extra, winLines>>
      BY <1>8 DEF vars
    <2>2. ViewStep
      BY <2>1, SameViewStep
    <2>3. MarksOK'
      BY <2>1, <2>2, SameMarks
    <2>4. QueueOK'
      BY <2>1 DEF IInv, QueueOK, LoaderRunsUntilComplete, SearchIsPending, Running, IsComplete
    <2> QED
      BY <1>1, <2>1, <2>2, <2>3, <2>4, StepKeepsIInv
  <1>9. CASE MainKeys
    <2>1. "kJSONOneline" \in Modes
      BY ModesAssumption
    <2> QED
      BY <1>4, <1>7, <1>9, <2>1 DEF MainKeys
  <1> QED
    BY <1>2, <1>3, <1>5, <1>6, <1>8, <1>9 DEF Next, Program, User

\* The inductive invariant holds of the program.
LEMMA Invariance == Spec => []IInv
  BY InitIInv, NextIInv, PTL DEF Spec

(***************************************************************************)
(* Every document number that the program holds, on the screen, under the  *)
(* cursor, marked or at the ends of a drag, is that of a loaded document,  *)
(* whatever the file, the window and the user: operator[] is never asked   *)
(* for a document past the end, where _loadTo would spin.                  *)
(***************************************************************************)
THEOREM IndicesAreAlwaysLoaded == Spec => []IndicesAreLoaded
  <1>1. IInv => IndicesAreLoaded
    <2> SUFFICES ASSUME IInv PROVE IndicesAreLoaded
      OBVIOUS
    <2>1. ASSUME NEW d \in Docs, d < view.numDocs
          PROVE  d \in 0 .. view.numDocs - 1
      <3>1. view.numDocs \in 1 .. N
        BY DEF IInv, Loaded, Callable, IsView
      <3> QED
        BY <2>1, <3>1, NAssumption DEF Docs
    <2>2. {view.startDoc, view.lastDoc, view.cursorDoc, view.goal} \subseteq 0 .. view.numDocs - 1
      <3>1. /\ view.startDoc \in Docs /\ view.lastDoc \in Docs
            /\ view.cursorDoc \in Docs /\ view.goal \in Docs
            /\ view.startDoc < view.numDocs /\ view.lastDoc < view.numDocs
            /\ view.cursorDoc < view.numDocs /\ view.goal < view.numDocs
        BY DEF IInv, Loaded, Callable, IsView
      <3> QED
        BY <2>1, <3>1
    <2>3. marks.set \cup {marks.first, marks.last} \subseteq 0 .. view.numDocs - 1
      <3>1. \A d \in marks.set \cup {marks.first, marks.last} : d \in Docs /\ d < view.numDocs
        BY DEF IInv, MarksOK
      <3> QED
        BY <2>1, <3>1
    <2> QED
      BY <2>2, <2>3 DEF IndicesAreLoaded
  <1> QED
    BY <1>1, Invariance, PTL

(***************************************************************************)
(* Between two handlers the layout is the one that computeVisible would    *)
(* compute: no handler, and no path through one, forgets to call it.       *)
(***************************************************************************)
THEOREM LayoutIsAlwaysFresh == Spec => []LayoutIsFresh
  <1>1. IInv => LayoutIsFresh
    BY FreshIsStable DEF IInv, LayoutIsFresh, Loaded
  <1> QED
    BY <1>1, Invariance, PTL

(***************************************************************************)
(* load_more is queued exactly once until the cache is complete and a jump *)
(* to the end that was asked for meanwhile has been made.                  *)
(***************************************************************************)
THEOREM LoaderAlwaysRuns == Spec => []LoaderRunsUntilComplete
  <1>1. IInv => LoaderRunsUntilComplete
    BY DEF IInv, QueueOK
  <1> QED
    BY <1>1, Invariance, PTL

(***************************************************************************)
(* "Searching..." is shown only while a deferred search is queued, and     *)
(* that search finds a pattern registered.                                 *)
(***************************************************************************)
THEOREM SearchIsAlwaysPending == Spec => []SearchIsPending
  <1>1. IInv => SearchIsPending
    BY DEF IInv, QueueOK
  <1> QED
    BY <1>1, Invariance, PTL

(***************************************************************************)
(* jumpDown counts below document 0 only when the file, without the lines  *)
(* that _startLine skips, is shorter than all but one line of the screen.  *)
(***************************************************************************)
THEOREM HangIsPastTheEnd == Spec => []HangsOnlyPastTheEnd
  <1>1. IInv => HangsOnlyPastTheEnd
    BY DEF IInv
  <1> QED
    BY <1>1, Invariance, PTL

(***************************************************************************)
(* A click hits the document that is drawn on its line, for documents of   *)
(* any height, the first and the last of which may be cut off.             *)
(***************************************************************************)
THEOREM ClicksAlwaysHitDrawnDocs == Spec => []ClicksHitDrawnDocs
  <1>1. IInv => ClicksHitDrawnDocs
    <2> SUFFICES ASSUME IInv, Idle, view.startLine >= 0, NEW line \in 0 .. view.mainLines - 1
                 PROVE  DocForLine(view, line) =
                          IF line < NumRows(view) THEN {DocAt(view, Top(view) + line)} ELSE {}
      BY DEF ClicksHitDrawnDocs
    <2> DEFINE v == view
               p == RowPos(v)
               s == v.startDoc
               l == LastWalked(v)
               row == Top(v) + line
               e == WalkEnd(v)
    <2>1. IsView(v) /\ Fresh(v)
      BY DEF IInv, Loaded, Callable
    <2>2. s \in Docs /\ v.startLine \in Int /\ v.mainLines \in Nat /\ v.lastDoc = l
      BY <2>1 DEF IsView, Fresh
    <2>3. Top(v) = p[s] + v.startLine
      BY <2>1, <2>2, WalkFacts DEF Top
    <2>4. /\ p[s] \in Nat /\ e \in Nat /\ Top(v) \in Nat /\ p[s] <= Top(v)
          /\ NumRows(v) \in Nat /\ TotalRows(v) \in Nat
          /\ NumRows(v) > 0 => Top(v) + NumRows(v) = e
          /\ l \in s .. N - 1 /\ e <= TotalRows(v)
      BY <2>1, WalkFacts
    <2>5. /\ p \in [0 .. N -> Nat]
          /\ \A a, b \in 0 .. N : a < b => p[a] < p[b]
      BY <2>1, RowPosFacts
    <2>6. NumRows(v) = 0 => e <= Top(v)
      BY <2>2, <2>4 DEF NumRows, WalkEnd, FillsScreen
    <2> HIDE DEF v, p, s, l, e
    <2>7. row < e <=> line < NumRows(v)
      BY <2>2, <2>4, <2>6
    <2>8. line \in Nat /\ row \in Nat
      BY <2>4
    <2>9. ASSUME NEW d \in s .. l
          PROVE  d \in Docs /\ d + 1 \in 0 .. N /\ p[d] \in Nat /\ p[d + 1] \in Nat
      BY <2>2, <2>4, <2>5, NAssumption DEF Docs
    <2>10. ASSUME NEW d \in s .. l
           PROVE  d \in DocForLine(v, line) <=> p[d] <= row /\ row < p[d + 1] /\ row < e
      <3>1. d \in DocForLine(v, line) <=>
              /\ p[d] - p[s] - v.startLine <= line
              /\ line < MinOf(p[d + 1], e) - p[s] - v.startLine
        BY <2>2 DEF DocForLine, p, e, s
      <3> QED
        BY <2>2, <2>3, <2>4, <2>8, <2>9, <3>1 DEF MinOf
    <2>11. DocForLine(v, line) \subseteq s .. l
      BY <2>2 DEF DocForLine, s
    <2>12. CASE line < NumRows(v)
      <3>1. /\ row < TotalRows(v) /\ DocAt(v, row) \in s .. l
        BY <2>1, <2>8, <2>12, ShownFacts DEF s, l
      <3>2. /\ p[DocAt(v, row)] <= row /\ row < p[DocAt(v, row) + 1]
            /\ \A d \in Docs : p[d] <= row /\ row < p[d + 1] => d = DocAt(v, row)
        BY <2>1, <2>8, <3>1, DocAtFacts DEF p
      <3> HIDE DEF row
      <3>3. DocForLine(v, line) = {DocAt(v, row)}
        BY <2>7, <2>9, <2>10, <2>11, <2>12, <3>1, <3>2
      <3> QED
        BY <2>12, <3>3 DEF row, v
    <2>13. CASE ~(line < NumRows(v))
      <3>1. DocForLine(v, line) = {}
        BY <2>7, <2>10, <2>11, <2>13
      <3> QED
        BY <2>13, <3>1 DEF v
    <2> QED
      BY <2>12, <2>13
  <1> QED
    BY <1>1, Invariance, PTL

(***************************************************************************)
(* Tab and S-Tab undo each other on the marked documents, however many     *)
(* there are.                                                              *)
(***************************************************************************)
THEOREM TabsAreAlwaysInverse == Spec => []TabsAreInverse
  <1>1. IInv => TabsAreInverse
    <2> SUFFICES ASSUME IInv, NEW d \in marks.set
                 PROVE  /\ \E n \in NextMarkedDoc(marks, d) : PrevMarkedDoc(marks, n) = {d}
                        /\ \E p \in PrevMarkedDoc(marks, d) : NextMarkedDoc(marks, p) = {d}
      BY DEF TabsAreInverse
    <2> DEFINE S == marks.set
               After(x) == {e \in S : e > x}
               Before(x) == {e \in S : e < x}
    <2>1. S \subseteq Docs /\ S # {} /\ d \in S
      BY DEF IInv, MarksOK
    <2>2. ASSUME NEW x
          PROVE  /\ NextMarkedDoc(marks, x) =
                      IF After(x) # {} THEN {Min(After(x))} ELSE {Min(S)}
                 /\ PrevMarkedDoc(marks, x) =
                      IF Before(x) # {} THEN {Max(Before(x))} ELSE {Max(S)}
      BY <2>1 DEF NextMarkedDoc, PrevMarkedDoc
    <2>3. \A x : After(x) \subseteq Docs /\ Before(x) \subseteq Docs
      BY <2>1
    <2>4. ASSUME NEW x
          PROVE  /\ \A y : y \in After(x) <=> y \in S /\ y > x
                 /\ \A y : y \in Before(x) <=> y \in S /\ y < x
      OBVIOUS
    <2> HIDE DEF S, After, Before
    <2>5. /\ Min(S) \in S /\ \A y \in S : Min(S) <= y
          /\ Max(S) \in S /\ \A y \in S : Max(S) >= y
      BY <2>1, MinMaxFacts
    <2>6. ASSUME NEW x, After(x) # {}
          PROVE  Min(After(x)) \in After(x) /\ \A y \in After(x) : Min(After(x)) <= y
      BY <2>3, <2>6, MinMaxFacts
    <2>7. ASSUME NEW x, Before(x) # {}
          PROVE  Max(Before(x)) \in Before(x) /\ \A y \in Before(x) : Max(Before(x)) >= y
      BY <2>3, <2>7, MinMaxFacts
    <2>8. \A y \in S : y \in Int
      BY <2>1, NAssumption DEF Docs
    <2>9. \E n \in NextMarkedDoc(marks, d) : PrevMarkedDoc(marks, n) = {d}
      <3>1. CASE After(d) # {}
        <4> DEFINE n == Min(After(d))
        <4>1. n \in S /\ n > d /\ \A y \in S : y > d => n <= y
          BY <2>4, <2>6, <3>1
        <4> HIDE DEF n
        <4>2. d \in Before(n)
          BY <2>1, <2>4, <4>1, <2>8
        <4>3. Max(Before(n)) \in S /\ Max(Before(n)) < n /\ Max(Before(n)) >= d
          BY <2>4, <2>7, <4>2
        <4>4. Max(Before(n)) = d
          BY <2>1, <2>8, <4>1, <4>3
        <4> QED
          BY <2>2, <3>1, <4>2, <4>4 DEF n
      <3>2. CASE After(d) = {}
        <4>1. \A y \in S : y <= d
          BY <2>1, <2>4, <2>8, <3>2
        <4>2. Max(S) = d
          BY <2>1, <2>5, <2>8, <4>1
        <4>3. Before(Min(S)) = {}
          <5>1. ASSUME NEW y \in Before(Min(S)) PROVE FALSE
            <6>1. y \in S /\ y < Min(S)
              BY <2>4
            <6> QED
              BY <2>5, <2>8, <6>1
          <5> QED
            BY <5>1
        <4> QED
          BY <2>2, <3>2, <4>2, <4>3
      <3> QED
        BY <3>1, <3>2
    <2>10. \E p \in PrevMarkedDoc(marks, d) : NextMarkedDoc(marks, p) = {d}
      <3>1. CASE Before(d) # {}
        <4> DEFINE p == Max(Before(d))
        <4>1. p \in S /\ p < d /\ \A y \in S : y < d => p >= y
          BY <2>4, <2>7, <3>1
        <4> HIDE DEF p
        <4>2. d \in After(p)
          BY <2>1, <2>4, <4>1, <2>8
        <4>3. Min(After(p)) \in S /\ Min(After(p)) > p /\ Min(After(p)) <= d
          BY <2>4, <2>6, <4>2
        <4>4. Min(After(p)) = d
          BY <2>1, <2>8, <4>1, <4>3
        <4> QED
          BY <2>2, <3>1, <4>2, <4>4 DEF p
      <3>2. CASE Before(d) = {}
        <4>1. \A y \in S : y >= d
          BY <2>1, <2>4, <2>8, <3>2
        <4>2. Min(S) = d
          BY <2>1, <2>5, <2>8, <4>1
        <4>3. After(Max(S)) = {}
          <5>1. ASSUME NEW y \in After(Max(S)) PROVE FALSE
            <6>1. y \in S /\ y > Max(S)
              BY <2>4
            <6> QED
              BY <2>5, <2>8, <6>1
          <5> QED
            BY <5>1
        <4> QED
          BY <2>2, <3>2, <4>2, <4>3
      <3> QED
        BY <3>1, <3>2
    <2> QED
      BY <2>9, <2>10
  <1> QED
    BY <1>1, Invariance, PTL

(***************************************************************************)
(* dragEnd makes permanent what isMarkedDoc showed, upwards and downwards, *)
(* for any range of documents.                                             *)
(***************************************************************************)
THEOREM DragAlwaysMakesPreviewPermanent == Spec => DragMakesPreviewPermanent
  <1>1. ASSUME IInv, marks.drag # "none", NEW line \in 0 .. winLines - 1
        PROVE  ReleaseMatchesPreview(line)
    <2> SUFFICES ASSUME MouseRelease(line)
                 PROVE  \E doc \in DocForLine(view, line) : \A d \in Docs :
                          IsMarkedDoc(marks', d) = IsMarkedDoc(DragUpdate(marks, doc), d)
      BY DEF ReleaseMatchesPreview
    <2>1. PICK doc \in DocForLine(view, line), how \in DragValues(marks) :
            marks' = DragEnd(marks, doc, how)
      BY DEF MouseRelease
    <2>2. how = marks.drag /\ how \in {"mark", "unmark"}
      BY <1>1, <2>1 DEF DragValues, IInv, MarksOK
    <2> DEFINE preview == DragUpdate(marks, doc)
               range == DragRange(preview)
               set == IF how = "mark" THEN marks.set \cup range ELSE marks.set \ range
    <2>3. /\ preview.set = marks.set /\ preview.drag = marks.drag
          /\ preview = [marks EXCEPT !.last = doc]
      BY <1>1 DEF DragUpdate, IInv, MarksOK
    <2>4. marks'.set = set /\ marks'.drag = "none"
      <3>1. marks' = [marks EXCEPT !.set = set, !.drag = "none",
                                   !.first = Min({marks.first, doc}),
                                   !.last = Max({marks.first, doc})]
        BY <2>1, <2>3 DEF DragEnd
      <3> HIDE DEF set
      <3> QED
        BY <1>1, <3>1 DEF IInv, MarksOK
    <2> HIDE DEF preview
    <2>5. ASSUME NEW d \in Docs
          PROVE  IsMarkedDoc(marks', d) = IsMarkedDoc(preview, d)
      <3>1. IsMarkedDoc(marks', d) = (d \in set)
        BY <2>4 DEF IsMarkedDoc
      <3>2. IsMarkedDoc(preview, d) = IF d \in range THEN how = "mark" ELSE d \in marks.set
        BY <1>1, <2>2, <2>3 DEF IsMarkedDoc
      <3> HIDE DEF range
      <3> QED
        BY <2>2, <3>1, <3>2
    <2> QED
      BY <2>1, <2>5 DEF preview
  <1>2. IInv => [marks.drag # "none" =>
                   \A line \in 0 .. winLines - 1 : ReleaseMatchesPreview(line)]_vars
    BY <1>1
  <1> QED
    BY <1>2, Invariance, PTL DEF DragMakesPreviewPermanent

(***************************************************************************)
(* PageDown shows the rows that follow the page, for documents of any      *)
(* height, as long as the last loaded document does not come into sight.   *)
(***************************************************************************)
THEOREM PageDownIsAlwaysContiguous == Spec => PageDownIsContiguous
  <1>1. IInv => [ FillsScreen(view) /\ view.startLine >= 0
                    /\ Top(view) + 2 * view.mainLines <= RowPos(view)[view.numDocs - 1]
                    /\ KeyPageDown
                  => Top(view') = Top(view) + view.mainLines ]_vars
    <2> SUFFICES ASSUME IInv, KeyPageDown, FillsScreen(view), view.startLine >= 0,
                        Top(view) + 2 * view.mainLines <= RowPos(view)[view.numDocs - 1]
                 PROVE  Top(view') = Top(view) + view.mainLines
      OBVIOUS
    <2>1. Idle /\ view' = PageDown(view)
      BY DEF KeyPageDown, ViewKey, Key, ViewBecomes
    <2> QED
      BY <2>1, PageDownGoesOn DEF IInv
  <1> QED
    BY <1>1, Invariance, PTL DEF PageDownIsContiguous

(***************************************************************************)
(* PageUp leaves out no row, and repeats one only when it has to clamp at  *)
(* the start of a document or of the file.                                 *)
(***************************************************************************)
THEOREM PageUpIsAlwaysContiguous == Spec => PageUpIsContiguous
  <1>1. IInv => [ \/ Top(view') = 0
                  \/ Top(view') = Top(view) - view.mainLines
                  \/ view'.startLine < 0 /\ Top(view') \in Top(view) - view.mainLines .. Top(view)
                  \/ ~KeyPageUp ]_vars
    <2> SUFFICES ASSUME IInv, KeyPageUp
                 PROVE  \/ Top(view') = 0
                        \/ Top(view') = Top(view) - view.mainLines
                        \/ view'.startLine < 0
                             /\ Top(view') \in Top(view) - view.mainLines .. Top(view)
      OBVIOUS
    <2>1. Idle /\ view' = PageUp(view)
      BY DEF KeyPageUp, ViewKey, Key, ViewBecomes
    <2> QED
      BY <2>1, PageUpGoesBack DEF IInv
  <1> QED
    BY <1>1, Invariance, PTL DEF PageUpIsContiguous

(***************************************************************************)
(* A search whose match begins on the screen puts the cursor on it and     *)
(* does not scroll, for documents of any height.                           *)
(***************************************************************************)
THEOREM OnscreenMatchAlwaysGetsCursor == Spec => OnscreenMatchGetsCursor
  <1> DEFINE Hit(p) ==
        RunSearch /\ extra' = "" /\ view'.proc = "running" /\ Found(p) # {}
            /\ view.startLine >= 0
            /\ RowPos(view)[Min(Found(p))] \in Top(view) .. Top(view) + view.lastLine
        => view'.cursorDoc = Min(Found(p)) /\ Top(view') = Top(view)
  <1>0. ASSUME NEW c \in Docs, NEW n \in 1 .. N, NEW d \in c + 1 .. n - 1
        PROVE  d \in Docs
    BY NAssumption DEF Docs
  <1>1. ASSUME IInv, NEW p \in search PROVE Hit(p)
    <2> SUFFICES ASSUME RunSearch, extra' = "", view'.proc = "running", Found(p) # {},
                        view.startLine >= 0,
                        RowPos(view)[Min(Found(p))] \in Top(view) .. Top(view) + view.lastLine
                 PROVE  view'.cursorDoc = Min(Found(p)) /\ Top(view') = Top(view)
      OBVIOUS
    <2>1. /\ Loaded(view) /\ Fresh(view) /\ view.numDocs \in 1 .. N /\ view.cursorDoc \in Docs
      BY <1>1 DEF IInv, RunSearch, Serves, Loaded, Callable, IsView
    <2>2. view' = JumpToDoc(view, Min(Found(p)))
      BY <1>1 DEF RunSearch, ViewBecomes
    <2>3. Found(p) \subseteq Docs
      BY <1>0, <2>1 DEF Found
    <2>4. Min(Found(p)) \in Docs
      BY <2>3, MinMaxFacts
    <2> QED
      BY <2>1, <2>2, <2>4, OnscreenJumpHits
  <1>2. IInv => [\A p \in search : Hit(p)]_vars
    <2> HIDE DEF Hit
    <2> QED
      BY <1>1
  <1> QED
    BY <1>2, Invariance, PTL DEF OnscreenMatchGetsCursor

(***************************************************************************)
(* An offscreen jump, which calls moveUp() a quarter of the screen's lines *)
(* times, ends with the cursor on its document when every document is one  *)
(* row, near the start of the file too, where moveUp() has nothing to do.  *)
(***************************************************************************)
THEOREM JumpAlwaysLandsOnGoal == Spec => JumpLandsOnGoal
  <1>1. ASSUME IInv, [Next]_vars
        PROVE  [ view.ups = 1 /\ view'.ups = 0 /\ view'.proc = "running"
                   /\ (\A d \in 0 .. N : RowPos(view)[d] = d)
                 => view'.cursorDoc = view.goal ]_vars
    <2> SUFFICES ASSUME Next, view.ups = 1, view'.ups = 0, OneRow(view)
                 PROVE  view'.cursorDoc = view.goal
      BY <1>1 DEF OneRow, vars
    <2>1. ~Idle /\ view' # view
      BY DEF Idle
    <2>2. ContinueJump
      <3>1. ~MainKeys
        BY <2>1 DEF MainKeys, KeyQuit, KeyRenderMode, KeyToggleExtended, KeyLeft, KeyRight,
             KeyLineStart, KeyLineEnd, KeyDown, KeyUp, KeyHome, KeyEnd, KeyCursorTop,
             KeyCursorMiddle, KeyCursorBottom, KeyPageDown, KeyPageUp, KeyOther, KeyEnter,
             KeyTab, KeyBackTab, KeyJumpMarked, KeySearch, KeySearchAgain, ViewKey, Key
      <3>2. ~PromptKeys
        BY <2>1 DEF PromptKeys, PromptCancel, PromptConfirm
      <3>3. ~MouseEvents
        BY <2>1 DEF MouseEvents, MouseWheelDown, MouseWheelUp, MousePress, MouseDrag,
             MouseRelease, Mouse
      <3>4. ~(LoadMore \/ RunSearch \/ Render \/ \E lines \in Heights : Resize(lines))
        BY <2>1 DEF LoadMore, RunSearch, Serves, Render, Resize
      <3> QED
        BY <3>1, <3>2, <3>3, <3>4 DEF Next, Program, User
    <2>3. view' = JumpStep(view)
      BY <2>2 DEF ContinueJump, ViewBecomes
    <2> QED
      BY <1>1, <2>3, JumpStepLands DEF IInv
  <1> QED
    BY <1>1, Invariance, PTL DEF JumpLandsOnGoal, Spec
=============================================================================
