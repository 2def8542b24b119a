----------------------------- MODULE MarkedDocs -----------------------------
(***************************************************************************)
(* The marked documents of BSONCacheView and the mouse drag that marks or  *)
(* unmarks a range of them.                                                *)
(*                                                                         *)
(* m.set is _markedDocs.  m.drag is _dragMarked: "none", "mark" (true) or  *)
(* "unmark" (false); m.first and m.last are _dragFirst and _dragLast,      *)
(* which keep their values after a drag and are 0 at the start (the view   *)
(* is a global object).                                                    *)
(***************************************************************************)
EXTENDS Integers, FiniteSetsExt

NoMarks == [set |-> {}, drag |-> "none", first |-> 0, last |-> 0]

\* The documents between the ends of the drag, in either direction.
DragRange(m) ==
    IF m.first <= m.last THEN m.first .. m.last ELSE m.last .. m.first

\* isMarkedDoc: the drag under way is shown as if it were already made.
IsMarkedDoc(m, doc) ==
    IF m.drag # "none" /\ doc \in DragRange(m) THEN m.drag = "mark"
    ELSE doc \in m.set

DragStart(m, doc) ==
    [m EXCEPT !.drag = IF IsMarkedDoc(m, doc) THEN "unmark" ELSE "mark",
              !.first = doc, !.last = doc]

DragUpdate(m, doc) == [m EXCEPT !.last = doc]

\* Mutant: the ends of an upwards drag are not swapped.
DragEndNoSwap(m, doc, how) ==
    LET range == m.first .. doc
    IN  [m EXCEPT !.set = IF how = "mark" THEN @ \cup range ELSE @ \ range,
                  !.drag = "none", !.last = doc]

(***************************************************************************)
(* dragEnd: the range is made permanent and the ends are left in           *)
(* ascending order.  how is the value read from *_dragMarked.              *)
(***************************************************************************)
DragEnd(m, doc, how) ==
    LET range == DragRange([m EXCEPT !.last = doc])
    IN  [m EXCEPT !.set = IF how = "mark" THEN @ \cup range ELSE @ \ range,
                  !.drag = "none",
                  !.first = Min({m.first, doc}), !.last = Max({m.first, doc})]

\* What *_dragMarked may read: reading an empty optional gives any value.
DragValues(m) == IF m.drag = "none" THEN {"mark", "unmark"} ELSE {m.drag}

ToggleMarkDoc(m, doc) ==
    [m EXCEPT !.set = IF IsMarkedDoc(m, doc) THEN @ \ {doc} ELSE @ \cup {doc}]

\* Mutant: lower_bound instead of upper_bound.
NextMarkedDocSticks(m, doc) ==
    LET after == { d \in m.set : d >= doc }
    IN  IF m.set = {} THEN {} ELSE IF after # {} THEN {Min(after)} ELSE {Min(m.set)}

\* nextMarkedDoc: none, the next marked document, or the first one.
NextMarkedDoc(m, doc) ==
    LET after == { d \in m.set : d > doc }
    IN  IF m.set = {} THEN {} ELSE IF after # {} THEN {Min(after)} ELSE {Min(m.set)}

\* prevMarkedDoc: none, the previous marked document, or the last one.
PrevMarkedDoc(m, doc) ==
    LET before == { d \in m.set : d < doc }
    IN  IF m.set = {} THEN {} ELSE IF before # {} THEN {Max(before)} ELSE {Max(m.set)}
=============================================================================
