-------------------------- MODULE SingleLinePrompt --------------------------
(***************************************************************************)
(* Class SingleLinePrompt: the line at the bottom of the screen in which a *)
(* search is typed.                                                        *)
(*                                                                         *)
(* _enteredText is a std::string of bytes, and a text event of libtickit   *)
(* carries one character of one or more bytes.  A byte is abstracted to    *)
(* its place among all the bytes entered since enter(), so that the text   *)
(* tells which bytes are left and in which order.                          *)
(***************************************************************************)
EXTENDS Integers, Sequences

CONSTANTS
    Widths,     \* bytes that a character may have (UTF-8: 1 .. 4)
    MaxEntered  \* bound on the bytes entered before the prompt is left

ASSUME WidthsAssumption == Widths \subseteq Nat \ {0}
ASSUME MaxEnteredAssumption == MaxEntered \in Nat

VARIABLES
    shown,      \* the window is shown and has the focus
    text,       \* _enteredText
    cursorCol,  \* _cursorCol
    entered,    \* bytes entered since enter()
    proc        \* "running", or "terminated" by std::out_of_range

vars == <<shown, text, cursorCol, entered, proc>>

\* The prompt is a global object: its members start as zeros.
Init ==
    /\ shown = FALSE
    /\ text = <<>>
    /\ cursorCol = 0
    /\ entered = 0
    /\ proc = "running"

\* The next n bytes.
Fresh(n) == [i \in 1 .. n |-> entered + i]

\* enter("/", ""), or enter("/", "{") with one byte of initial text.
Enter(initial) ==
    /\ proc = "running" /\ ~shown
    /\ shown' = TRUE
    /\ text' = [i \in 1 .. initial |-> i]
    /\ cursorCol' = initial
    /\ entered' = initial
    /\ UNCHANGED proc

\* _event_key of the prompt's window.
Key == proc = "running" /\ shown

\* A text event: appended, wherever the cursor is.
KeyText(width) ==
    /\ Key
    /\ entered + width <= MaxEntered
    /\ text' = text \o Fresh(width)
    /\ entered' = entered + width
    /\ cursorCol' = cursorCol + 1
    /\ UNCHANGED <<shown, proc>>

\* text.substr(0, n)
Before(n) == SubSeq(text, 1, n)

\* text.substr(pos)
From(pos) == SubSeq(text, pos + 1, Len(text))

(***************************************************************************)
(* The text becomes t, which was made with substr(pos).  substr throws     *)
(* std::out_of_range, which nobody catches, when pos is past the end.      *)
(***************************************************************************)
Cut(pos, t, col) ==
    IF pos > Len(text)
    THEN proc' = "terminated" /\ UNCHANGED <<text, cursorCol>>
    ELSE text' = t /\ cursorCol' = col /\ UNCHANGED proc

Leave == shown' = FALSE /\ UNCHANGED <<text, cursorCol, entered, proc>>

\* Mutant: the byte before the cursor is kept twice.
KeyBackspaceDoubles ==
    /\ Key
    /\ \/ /\ cursorCol > 0
          /\ Cut(cursorCol, Before(cursorCol) \o From(cursorCol - 1), cursorCol - 1)
          /\ UNCHANGED <<shown, entered>>
       \/ /\ cursorCol <= 0 /\ text = <<>>
          /\ Leave

(***************************************************************************)
(* Backspace: the byte before the cursor goes.  In an empty prompt it is   *)
(* Escape; at the start of a text it does nothing.                         *)
(***************************************************************************)
KeyBackspace ==
    /\ Key
    /\ \/ /\ cursorCol > 0
          /\ Cut(cursorCol, Before(cursorCol - 1) \o From(cursorCol), cursorCol - 1)
          /\ UNCHANGED <<shown, entered>>
       \/ /\ cursorCol <= 0 /\ text = <<>>
          /\ Leave

KeyDelete ==
    /\ Key
    /\ cursorCol < Len(text)
    /\ Cut(cursorCol + 1, Before(cursorCol) \o From(cursorCol + 1), cursorCol)
    /\ UNCHANGED <<shown, entered>>

Move(col) == Key /\ cursorCol' = col /\ UNCHANGED <<shown, text, entered, proc>>

KeyLeft == cursorCol > 0 /\ Move(cursorCol - 1)
KeyRight == cursorCol < Len(text) /\ Move(cursorCol + 1)
KeyHome == Move(0)
KeyEnd == Move(Len(text))

\* Mutant: the cursor stays where it was.
KeyClearKeepsColumn ==
    /\ Key
    /\ cursorCol > 0
    /\ Cut(cursorCol, From(cursorCol), cursorCol)
    /\ UNCHANGED <<shown, entered>>

\* C-u: everything before the cursor goes.
KeyClear ==
    /\ Key
    /\ cursorCol > 0
    /\ Cut(cursorCol, From(cursorCol), 0)
    /\ UNCHANGED <<shown, entered>>

\* Escape and Enter: exit(); what the callbacks then do is in BsonView.
KeyEscape == Key /\ Leave
KeyEnter == Key /\ Leave

Next ==
    \/ \E initial \in {0, 1} : Enter(initial)
    \/ \E width \in Widths : KeyText(width)
    \/ KeyBackspace \/ KeyDelete \/ KeyClear
    \/ KeyLeft \/ KeyRight \/ KeyHome \/ KeyEnd
    \/ KeyEscape \/ KeyEnter

Spec == Init /\ [][Next]_vars

-----------------------------------------------------------------------------
(* Properties *)

TypeOK ==
    /\ shown \in BOOLEAN
    /\ text \in Seq(Nat)
    /\ cursorCol \in Nat
    /\ entered \in Nat
    /\ proc \in {"running", "terminated"}

(***************************************************************************)
(* The cursor column, which counts key events, stays inside the text,      *)
(* which counts bytes, whatever is typed and erased; so no substr of       *)
(* _event_key throws (nothing would catch it).                             *)
(***************************************************************************)
ColumnIsInsideText ==
    /\ cursorCol <= Len(text)
    /\ proc = "running"

(***************************************************************************)
(* Editing only erases: the bytes submitted are bytes that were entered    *)
(* since enter(), each at most once and in the order of the keys.          *)
(***************************************************************************)
BytesKeepKeyOrder ==
    /\ \A i, j \in 1 .. Len(text) : i < j => text[i] < text[j]
    /\ \A i \in 1 .. Len(text) : text[i] <= entered
=============================================================================
