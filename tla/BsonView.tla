------------------------------ MODULE BsonView ------------------------------
(***************************************************************************)
(* The running program: the event loop of bsonview over the document       *)
(* cache, the view, the marks, the searches, the prompt and the windows.   *)
(*                                                                         *)
(* One thread runs handlers to their end: event_key and event_mouse for    *)
(* the user's input, event_resize and render_main for the windows, and the *)
(* callbacks queued with tickit_watch_later, which are load_more and the   *)
(* deferred part of doSearch.  The order in which input and queued         *)
(* callbacks are served is left open, except that the queue is first in,   *)
(* first out.                                                              *)
(*                                                                         *)
(* The cache appears as the number of documents loaded so far (see         *)
(* BSONCache).  The prompt appears as the text it is left with; its        *)
(* editing is not part of this module.                                     *)
(***************************************************************************)
EXTENDS BSONCacheView, MarkedDocs

CONSTANTS
    Batch,          \* documents per loadSome() call (100 in the code)
    Heights,        \* heights the main window may have
    Patterns,       \* texts that can be submitted at the prompt
    MQLPatterns,    \* those that start with {: SearchMQL
    ValidPatterns,  \* those for which isValid() holds
    Matches,        \* Matches[p][r]: documents that p matches in rendering r
    Users,          \* the sets of input events that a user may choose from
    MaxStartLine,   \* bound on |_startLine|
    MaxLater        \* bound on the queue of deferred callbacks

ASSUME BatchAssumption == Batch \in Nat \ {0}
ASSUME HeightsAssumption == Heights \subseteq Nat \ {0}
ASSUME MatchesAssumption == Matches \in [Patterns -> [Renderings -> SUBSET Docs]]

VARIABLES
    view,       \* BSONCacheView, the cache's numDocs and the process state
    marks,      \* its marked documents and mouse drag
    search,     \* _lastSearch: none or one pattern
    later,      \* callbacks queued with tickit_watch_later
    extra,      \* SingleLineStatus::_extra
    focus,      \* the window that gets the keys: "main" or "prompt"
    winLines,   \* lines of the main window, as the terminal has them
    inputs      \* the input events of this user, the same for the whole run of bv

vars == <<view, marks, search, later, extra, focus, winLines, inputs>>

Init ==
    /\ winLines \in Heights
    /\ inputs \in Users
    /\ view = InitialView(winLines)
    /\ marks = NoMarks
    /\ search = {}
    /\ later = <<"load_more">>
    /\ extra = ""
    /\ focus = "main"

(***************************************************************************)
(* Between two handlers.  A jump under way (ups > 0) is inside a handler.  *)
(***************************************************************************)
Idle == view.proc = "running" /\ view.ups = 0

\* Every call that moves the view stays within the bound of the run.
ViewBecomes(w) ==
    /\ w.startLine \in -MaxStartLine .. MaxStartLine
    /\ view' = w

-----------------------------------------------------------------------------
(* event_key, main window *)

Key(k) == k \in inputs /\ Idle /\ focus = "main" /\ extra' = ""

ViewKey(k, w) ==
    /\ Key(k)
    /\ UNCHANGED <<marks, search, later, focus, winLines, inputs>>
    /\ ViewBecomes(w)

KeyQuit == ViewKey("q", [view EXCEPT !.proc = "stopped"])
KeyRenderMode(mode) == ViewKey("1-4", SetDocumentRenderMode(view, mode))
KeyToggleExtended == ViewKey("s", ToggleExtendedJSONMode(view))
KeyLeft == ViewKey("Left", MoveLeft(view))
KeyRight == ViewKey("Right", MoveRight(view))
KeyLineStart == ViewKey("^", JumpLeft(view))
KeyLineEnd == ViewKey("$", JumpRight(view))
KeyDown == ViewKey("Down", MoveCursorDown(view))
KeyUp == ViewKey("Up", MoveCursorUp(view))
KeyHome == ViewKey("Home", JumpUp(view))
KeyEnd == ViewKey("End", JumpDown(view))
KeyCursorTop == ViewKey("H", CursorTop(view))
KeyCursorMiddle == ViewKey("M", CursorMiddle(view))
KeyCursorBottom == ViewKey("L", CursorBottom(view))
KeyPageDown == ViewKey("PageDown", PageDown(view))
KeyPageUp == ViewKey("PageUp", PageUp(view))

\* J, K, ? and every key without a command still clear the status text.
KeyOther == ViewKey("?", view)

KeyEnter ==
    /\ Key("Enter")
    /\ marks' = ToggleMarkDoc(marks, view.cursorDoc)
    /\ UNCHANGED <<view, search, later, focus, winLines, inputs>>

\* Tab and S-Tab; without a marked document nothing happens.
KeyJumpMarked(k, target) ==
    /\ Key(k)
    /\ IF target = {} THEN UNCHANGED view
       ELSE \E doc \in target : ViewBecomes(JumpToDoc(view, doc))
    /\ UNCHANGED <<marks, search, later, focus, winLines, inputs>>

KeyTab == KeyJumpMarked("Tab", NextMarkedDoc(marks, view.cursorDoc))
KeyBackTab == KeyJumpMarked("S-Tab", PrevMarkedDoc(marks, view.cursorDoc))

\* / and {
KeySearch ==
    /\ Key("/")
    /\ focus' = "prompt"
    /\ UNCHANGED <<view, marks, search, later, winLines, inputs>>

\* Mutant: the callback is not queued.
DoSearchNoDefer ==
    /\ Len(later) < MaxLater
    /\ extra' = "Searching..."
    /\ UNCHANGED later

(***************************************************************************)
(* doSearch: tell the user, and leave the work to a deferred callback.     *)
(***************************************************************************)
DoSearch ==
    /\ Len(later) < MaxLater
    /\ extra' = "Searching..."
    /\ later' = Append(later, "search")

\* n
KeySearchAgain ==
    /\ "n" \in inputs /\ Idle /\ focus = "main"
    /\ IF search = {} THEN extra' = "No previous search" /\ UNCHANGED later
       ELSE DoSearch
    /\ UNCHANGED <<view, marks, search, focus, winLines, inputs>>

MainKeys ==
    \/ KeyQuit
    \/ \E mode \in Modes : KeyRenderMode(mode)
    \/ KeyToggleExtended
    \/ KeyLeft \/ KeyRight \/ KeyLineStart \/ KeyLineEnd
    \/ KeyDown \/ KeyUp \/ KeyHome \/ KeyEnd
    \/ KeyCursorTop \/ KeyCursorMiddle \/ KeyCursorBottom
    \/ KeyPageDown \/ KeyPageUp \/ KeyOther
    \/ KeyEnter \/ KeyTab \/ KeyBackTab
    \/ KeySearch \/ KeySearchAgain

-----------------------------------------------------------------------------
(* SingleLinePrompt *)

(***************************************************************************)
(* delete _lastSearch.  A SearchMQL whose pattern was rejected has never   *)
(* set _matcher, and its destructor deletes whatever it holds.             *)
(***************************************************************************)
DeleteOutcomes(s) ==
    IF s \subseteq MQLPatterns \ ValidPatterns /\ s # {} THEN {"running", "fault"} ELSE {"running"}

\* Enter: exit(), then submitSearchString(p): registerSearch and doSearch.
PromptConfirm(p) ==
    /\ "/" \in inputs /\ Idle /\ focus = "prompt"
    /\ focus' = "main"
    /\ \E out \in DeleteOutcomes(search) : view' = [view EXCEPT !.proc = out]
    /\ search' = {p}
    /\ DoSearch
    /\ UNCHANGED <<marks, winLines, inputs>>

\* Escape, or Backspace on an empty text: exit().
PromptCancel ==
    /\ "/" \in inputs /\ Idle /\ focus = "prompt"
    /\ focus' = "main"
    /\ UNCHANGED <<view, marks, search, later, extra, winLines, inputs>>

PromptKeys == PromptCancel \/ \E p \in Patterns : PromptConfirm(p)

-----------------------------------------------------------------------------
(* event_mouse: whatever window has the focus *)

Mouse(i) == i \in inputs /\ Idle /\ UNCHANGED <<search, later, extra, focus, winLines, inputs>>

MouseWheelDown == Mouse("Wheel") /\ ViewBecomes(MoveDown(view)) /\ UNCHANGED marks

MouseWheelUp == Mouse("Wheel") /\ ViewBecomes(MoveUp(view)) /\ UNCHANGED marks

MousePress(line) ==
    /\ Mouse("Button")
    /\ \E doc \in DocForLine(view, line) : marks' = DragStart(marks, doc)
    /\ UNCHANGED view

MouseDrag(line) ==
    /\ Mouse("Button")
    /\ \E doc \in DocForLine(view, line) : marks' = DragUpdate(marks, doc)
    /\ UNCHANGED view

(***************************************************************************)
(* A release on a line without a document leaves the drag under way.  A    *)
(* release without a drag reads the empty _dragMarked.                     *)
(***************************************************************************)
MouseRelease(line) ==
    /\ Mouse("Button")
    /\ \E doc \in DocForLine(view, line), how \in DragValues(marks) :
         marks' = DragEnd(marks, doc, how)
    /\ UNCHANGED view

MouseEvents ==
    \/ MouseWheelDown \/ MouseWheelUp
    \/ \E line \in 0 .. winLines - 1 :
         MousePress(line) \/ MouseDrag(line) \/ MouseRelease(line)

-----------------------------------------------------------------------------
(* Windows *)

\* event_resize: the main window gets its new geometry and is exposed.
Resize(lines) ==
    /\ "Resize" \in inputs /\ Idle
    /\ winLines' = lines
    /\ UNCHANGED <<view, marks, search, later, extra, focus, inputs>>

\* render_main: only a change of dimensions changes the view.
Render ==
    /\ Idle /\ winLines # view.mainLines
    /\ ViewBecomes(UpdateDimensions(view, winLines))
    /\ UNCHANGED <<marks, search, later, extra, focus, winLines, inputs>>

-----------------------------------------------------------------------------
(* Deferred callbacks *)

\* The event loop is about to run this callback.
Serves(callback) == Idle /\ later # <<>> /\ Head(later) = callback

\* Mutant: the callback is not queued again when the cache has just become complete.
LoadMoreForgetsEnd ==
    /\ Serves("load_more")
    /\ IF ~IsComplete(view)
       THEN LET n == MinOf(view.numDocs + Batch, N)
            IN  /\ view' = [view EXCEPT !.numDocs = n]
                /\ later' = IF n = N THEN Tail(later) ELSE Append(Tail(later), "load_more")
       ELSE /\ ViewBecomes(IF view.jumpToEnd THEN JumpDown(view) ELSE view)
            /\ later' = Tail(later)
    /\ UNCHANGED <<marks, search, extra, focus, winLines, inputs>>

(***************************************************************************)
(* load_more: load a batch and queue itself again; once the cache is       *)
(* complete, carry out a jump to the end that was asked for meanwhile.     *)
(***************************************************************************)
LoadMore ==
    /\ Serves("load_more")
    /\ IF ~IsComplete(view)
       THEN /\ view' = [view EXCEPT !.numDocs = MinOf(@ + Batch, N)]
            /\ later' = Append(Tail(later), "load_more")
       ELSE /\ ViewBecomes(IF view.jumpToEnd THEN JumpDown(view) ELSE view)
            /\ later' = Tail(later)
    /\ UNCHANGED <<marks, search, extra, focus, winLines, inputs>>

\* searchFor: the loaded documents after the cursor that the pattern matches.
Found(p) == { d \in view.cursorDoc + 1 .. view.numDocs - 1 : d \in Matches[p][Rendering(view)] }

\* The documents that searchFor renders.
Searched(p) ==
    IF p \in MQLPatterns THEN {}
    ELSE view.cursorDoc + 1 .. (IF Found(p) = {} THEN view.numDocs - 1 ELSE Min(Found(p)))

\* Mutant: a search that succeeds leaves the status as it is.
RunSearchKeepsStatus ==
    /\ Serves("search")
    /\ later' = Tail(later)
    /\ search = {} => extra' = "No search pattern" /\ UNCHANGED view
    /\ \A p \in search :
         IF p \notin ValidPatterns
         THEN extra' = "Invalid search pattern" /\ UNCHANGED view
         ELSE IF RenderDocs(view, Searched(p)).proc # "running"
         THEN view' = RenderDocs(view, Searched(p)) /\ UNCHANGED extra
         ELSE IF Found(p) = {}
         THEN extra' = "Pattern not found" /\ UNCHANGED view
         ELSE ViewBecomes(JumpToDoc(view, Min(Found(p)))) /\ UNCHANGED extra
    /\ UNCHANGED <<marks, search, focus, winLines, inputs>>

(***************************************************************************)
(* The deferred part of doSearch, with the search and the cursor of the    *)
(* moment it runs.                                                         *)
(***************************************************************************)
RunSearch ==
    /\ Serves("search")
    /\ later' = Tail(later)
    /\ search = {} => extra' = "No search pattern" /\ UNCHANGED view
    /\ \A p \in search :
         IF p \notin ValidPatterns
         THEN extra' = "Invalid search pattern" /\ UNCHANGED view
         ELSE IF RenderDocs(view, Searched(p)).proc # "running"
         THEN view' = RenderDocs(view, Searched(p)) /\ UNCHANGED extra
         ELSE IF Found(p) = {}
         THEN extra' = "Pattern not found" /\ UNCHANGED view
         ELSE extra' = "" /\ ViewBecomes(JumpToDoc(view, Min(Found(p))))
    /\ UNCHANGED <<marks, search, focus, winLines, inputs>>

\* The jump under way calls moveUp() once more.
ContinueJump ==
    /\ view.proc = "running" /\ view.ups > 0
    /\ ViewBecomes(JumpStep(view))
    /\ UNCHANGED <<marks, search, later, extra, focus, winLines, inputs>>

-----------------------------------------------------------------------------

Program == LoadMore \/ RunSearch \/ ContinueJump \/ Render

User == MainKeys \/ PromptKeys \/ MouseEvents \/ \E lines \in Heights : Resize(lines)

Next == Program \/ User

Spec == Init /\ [][Next]_vars

(***************************************************************************)
(* A handler that was started ends, and the event loop serves the head of  *)
(* the queue however much input comes in.  Nothing is assumed of the user. *)
(* (Strong fairness of the three actions, with what enables them spelled   *)
(* out.)                                                                   *)
(***************************************************************************)
FairSpec ==
    /\ Spec
    /\ []<>(view.proc = "running" /\ view.ups > 0) => []<><<ContinueJump>>_vars
    /\ []<>Serves("load_more") => []<><<LoadMore>>_vars
    /\ []<>Serves("search") => []<><<RunSearch>>_vars

-----------------------------------------------------------------------------
(* Properties *)

Running == view.proc = "running"

(***************************************************************************)
(* Whatever the user did, between two handlers the layout that             *)
(* computeVisible left behind (_docLines, _lastDisplayedDoc,               *)
(* _lastDisplayedLine, _cursorDoc) is the layout of the current position,  *)
(* rendering and height: no handler forgets to recompute it.               *)
(***************************************************************************)
LayoutIsFresh == Idle => ComputeVisible(view) = view

(***************************************************************************)
(* Every document number the program holds (first and last on the screen,  *)
(* under the cursor, marked, at the ends of a drag) is the number of a     *)
(* loaded document, so operator[] is never asked for one past the end of a *)
(* complete cache, where _loadTo would spin.                               *)
(***************************************************************************)
IndicesAreLoaded ==
    Running =>
        /\ {view.startDoc, view.lastDoc, view.cursorDoc, view.goal} \subseteq 0 .. view.numDocs - 1
        /\ marks.set \cup {marks.first, marks.last} \subseteq 0 .. view.numDocs - 1

(***************************************************************************)
(* docForLine, which maps mouse lines to documents, and drawMainLines,     *)
(* which draws them, agree on every line while _startLine is not negative. *)
(***************************************************************************)
ClicksHitDrawnDocs ==
    Idle /\ view.startLine >= 0 =>
        \A line \in 0 .. view.mainLines - 1 :
            DocForLine(view, line) =
                IF line < NumRows(view) THEN {DocAt(view, Top(view) + line)} ELSE {}

(***************************************************************************)
(* pageDown shows the rows that follow the page, none left out and none    *)
(* repeated, unless the last loaded document is to come into sight.  (It   *)
(* then goes on to the end, and jumpDown stops by the heights of documents *)
(* and the old _startLine: it may go back, and out of sight of the end.)   *)
(***************************************************************************)
PageDownIsContiguous ==
    [][ FillsScreen(view) /\ view.startLine >= 0
            /\ Top(view) + 2 * view.mainLines <= RowPos(view)[view.numDocs - 1]
            /\ KeyPageDown
        => Top(view') = Top(view) + view.mainLines ]_vars

(***************************************************************************)
(* pageUp leaves out no row: the page it shows reaches the old page, or is *)
(* the first one.  It repeats no row either, unless it had to clamp at the *)
(* start of a document (a negative _startLine) or of the file.             *)
(***************************************************************************)
PageUpIsContiguous ==
    [][ \/ Top(view') = 0
        \/ Top(view') = Top(view) - view.mainLines
        \/ view'.startLine < 0 /\ Top(view') \in Top(view) - view.mainLines .. Top(view)
        \/ ~KeyPageUp ]_vars

(***************************************************************************)
(* jumpDown counts an unsigned _startDoc down, below 0 if nothing stops    *)
(* it.  It never does so unless the file, without the lines that an        *)
(* earlier command has left in _startLine to be skipped, is shorter than   *)
(* all but one line of the screen.                                         *)
(***************************************************************************)
HangsOnlyPastTheEnd ==
    view.proc = "hung" => TotalRows(view) - Top(At(view, 0)) < view.mainLines - 1

(***************************************************************************)
(* load_more is queued exactly once until it has seen the complete cache,  *)
(* however the cache became complete.                                      *)
(***************************************************************************)
LoaderRunsUntilComplete ==
    LET loaders == { i \in DOMAIN later : later[i] = "load_more" }
    IN  /\ \A i, j \in loaders : i = j
        /\ loaders = {} /\ Running => IsComplete(view) /\ ~view.jumpToEnd

(***************************************************************************)
(* End pressed while the file is still loading is not forgotten: the jump  *)
(* is made once loading is complete (jumpToEndAfterLoadingComplete).       *)
(***************************************************************************)
JumpToEndIsServed == view.jumpToEnd ~> (~view.jumpToEnd \/ ~Running)

(***************************************************************************)
(* "Searching..." is shown only while a deferred search is queued, and the *)
(* deferred search finds the pattern it was queued for registered.         *)
(***************************************************************************)
SearchIsPending ==
    /\ extra = "Searching..." /\ Running => \E i \in DOMAIN later : later[i] = "search"
    /\ extra # "No search pattern"

\* "Searching..." is always replaced by the outcome of the search.
SearchEnds == extra = "Searching..." ~> (extra # "Searching..." \/ ~Running)

(***************************************************************************)
(* An offscreen jump to a match or to a marked document ends with the      *)
(* cursor on that document, when every document is one row.                *)
(***************************************************************************)
JumpLandsOnGoal ==
    [][ view.ups = 1 /\ view'.ups = 0 /\ view'.proc = "running"
            /\ (\A d \in 0 .. N : RowPos(view)[d] = d)
        => view'.cursorDoc = view.goal ]_vars

(***************************************************************************)
(* A search whose match begins on the screen puts the cursor on it, across *)
(* documents of any height, without scrolling (_jumpToDocOnscreen).        *)
(***************************************************************************)
OnscreenMatchGetsCursor ==
    [][ \A p \in search :
          RunSearch /\ extra' = "" /\ view'.proc = "running" /\ Found(p) # {}
              /\ view.startLine >= 0
              /\ RowPos(view)[Min(Found(p))] \in Top(view) .. Top(view) + view.lastLine
          => view'.cursorDoc = Min(Found(p)) /\ Top(view') = Top(view) ]_vars

(***************************************************************************)
(* dragEnd makes the preview permanent: every document is marked after the *)
(* release as isMarkedDoc showed it with the drag extended to that line.   *)
(***************************************************************************)
ReleaseMatchesPreview(line) ==
    MouseRelease(line) =>
        \E doc \in DocForLine(view, line) : \A d \in Docs :
            IsMarkedDoc(marks', d) = IsMarkedDoc(DragUpdate(marks, doc), d)

DragMakesPreviewPermanent ==
    [][ marks.drag # "none" => \A line \in 0 .. winLines - 1 : ReleaseMatchesPreview(line) ]_vars

(***************************************************************************)
(* Tab and S-Tab are inverse to each other on the marked documents: the    *)
(* two walks visit the same cycle (upper_bound, lower_bound and the        *)
(* wrap-arounds fit together).                                             *)
(***************************************************************************)
TabsAreInverse ==
    \A d \in marks.set :
        /\ \E n \in NextMarkedDoc(marks, d) : PrevMarkedDoc(marks, n) = {d}
        /\ \E p \in PrevMarkedDoc(marks, d) : NextMarkedDoc(marks, p) = {d}

=============================================================================
