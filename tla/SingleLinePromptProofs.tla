----------------------- MODULE SingleLinePromptProofs -----------------------
(***************************************************************************)
(* Machine-checked proofs about SingleLinePrompt, for characters of any    *)
(* width and texts of any length.                                          *)
(***************************************************************************)
EXTENDS SingleLinePrompt, SequenceTheorems, TLAPS

(***************************************************************************)
(* The inductive invariant: the column must be known to be inside the text *)
(* for the pieces that substr returns to be what the keys mean, and those  *)
(* pieces keep the order.                                                  *)
(***************************************************************************)
IInv ==
    /\ TypeOK
    /\ ColumnIsInsideText
    /\ BytesKeepKeyOrder

\* A text whose bytes were entered in this order, none after the n-th.
InKeyOrder(t, n) ==
    /\ t \in Seq(Nat)
    /\ \A i, j \in 1 .. Len(t) : i < j => t[i] < t[j]
    /\ \A i \in 1 .. Len(t) : t[i] <= n

(***************************************************************************)
(* What the two substr calls of Backspace, Delete and C-u leave: the text  *)
(* without bytes p+1 .. q, still in order.                                 *)
(***************************************************************************)
LEMMA CutOutKeepsOrder ==
    ASSUME NEW n \in Nat, InKeyOrder(text, n),
           NEW p \in Nat, NEW q \in Nat, p <= q, q <= Len(text)
    PROVE  /\ InKeyOrder(Before(p) \o From(q), n)
           /\ Len(Before(p) \o From(q)) = p + (Len(text) - q)
  <1> DEFINE b == Before(p)
             f == From(q)
             t == b \o f
  <1>1. text \in Seq(Nat) /\ Len(text) \in Nat
    BY DEF InKeyOrder
  <1>2. /\ b \in Seq(Nat) /\ Len(b) = p
        /\ \A i \in 1 .. p : b[i] = text[i]
    BY <1>1 DEF Before
  <1>3. /\ f \in Seq(Nat) /\ Len(f) = Len(text) - q
        /\ \A i \in 1 .. Len(text) - q : f[i] = text[q + i]
    BY <1>1 DEF From
  <1> HIDE DEF b, f
  <1>4. /\ t \in Seq(Nat)
        /\ Len(t) = Len(b) + Len(f)
        /\ \A i \in 1 .. Len(b) + Len(f) : t[i] = IF i <= Len(b) THEN b[i] ELSE f[i - Len(b)]
    BY <1>2, <1>3, ConcatProperties
  <1> HIDE DEF t
  <1>5. Len(t) = p + (Len(text) - q)
    BY <1>1, <1>2, <1>3, <1>4
  <1>6. ASSUME NEW i \in 1 .. Len(t), i <= p PROVE t[i] = text[i] /\ i \in 1 .. Len(text)
    <2>1. i \in 1 .. p /\ i \in 1 .. Len(b) + Len(f) /\ i <= Len(b) /\ i \in 1 .. Len(text)
      BY <1>1, <1>2, <1>4, <1>6
    <2>2. t[i] = b[i]
      BY <1>4, <2>1
    <2> QED
      BY <1>2, <2>1, <2>2
  <1>7. ASSUME NEW i \in 1 .. Len(t), ~(i <= p)
        PROVE  t[i] = text[q + (i - p)] /\ q + (i - p) \in 1 .. Len(text)
    <2>1. i - p \in 1 .. Len(text) - q /\ q + (i - p) \in 1 .. Len(text)
      BY <1>1, <1>5, <1>7
    <2>2. t[i] = f[i - p]
      BY <1>2, <1>4, <1>7
    <2> QED
      BY <1>3, <2>1, <2>2
  <1>8. ASSUME NEW i \in 1 .. Len(t) PROVE t[i] <= n
    <2>1. CASE i <= p
      BY <1>6, <2>1 DEF InKeyOrder
    <2>2. CASE ~(i <= p)
      BY <1>7, <2>2 DEF InKeyOrder
    <2> QED
      BY <2>1, <2>2
  <1>9. ASSUME NEW i \in 1 .. Len(t), NEW j \in 1 .. Len(t), i < j
        PROVE  t[i] < t[j]
    <2>0. \A k, l \in 1 .. Len(text) : k < l => text[k] < text[l]
      BY DEF InKeyOrder
    <2>1. CASE j <= p
      BY <1>1, <1>5, <1>6, <1>9, <2>0, <2>1
    <2>2. CASE i <= p /\ ~(j <= p)
      <3>1. t[i] = text[i] /\ t[j] = text[q + (j - p)] /\ q + (j - p) \in 1 .. Len(text)
        BY <1>6, <1>7, <2>2
      <3>2. i \in 1 .. Len(text) /\ i < q + (j - p)
        BY <1>1, <2>2
      <3> QED
        BY <2>0, <3>1, <3>2
    <2>3. CASE ~(i <= p)
      <3>1. /\ t[i] = text[q + (i - p)] /\ q + (i - p) \in 1 .. Len(text)
            /\ t[j] = text[q + (j - p)] /\ q + (j - p) \in 1 .. Len(text)
        BY <1>7, <1>9, <2>3
      <3>2. q + (i - p) < q + (j - p)
        BY <1>9
      <3> QED
        BY <2>0, <3>1, <3>2
    <2> QED
      BY <1>9, <2>1, <2>2, <2>3
  <1> QED
    BY <1>4, <1>5, <1>8, <1>9 DEF InKeyOrder, t, b, f

(***************************************************************************)
(* What a text event leaves: the new bytes come after all the others.      *)
(***************************************************************************)
LEMMA AppendKeepsOrder ==
    ASSUME entered \in Nat, InKeyOrder(text, entered), NEW width \in Nat
    PROVE  /\ InKeyOrder(text \o Fresh(width), entered + width)
           /\ Len(text \o Fresh(width)) = Len(text) + width
  <1> DEFINE f == Fresh(width)
             t == text \o f
  <1>1. text \in Seq(Nat) /\ Len(text) \in Nat
    BY DEF InKeyOrder
  <1>2. /\ f \in Seq(Nat) /\ Len(f) = width
        /\ \A i \in 1 .. width : f[i] = entered + i
    BY DEF Fresh
  <1> HIDE DEF f
  <1>3. /\ t \in Seq(Nat)
        /\ Len(t) = Len(text) + Len(f)
        /\ \A i \in 1 .. Len(text) + Len(f) :
             t[i] = IF i <= Len(text) THEN text[i] ELSE f[i - Len(text)]
    BY <1>1, <1>2, ConcatProperties
  <1> HIDE DEF t
  <1>4. Len(t) = Len(text) + width
    BY <1>2, <1>3
  <1>5. ASSUME NEW i \in 1 .. Len(t), i <= Len(text)
        PROVE  t[i] = text[i] /\ i \in 1 .. Len(text)
    BY <1>1, <1>2, <1>3, <1>5
  <1>6. ASSUME NEW i \in 1 .. Len(t), ~(i <= Len(text))
        PROVE  t[i] = entered + (i - Len(text)) /\ i - Len(text) \in 1 .. width
    <2>1. i - Len(text) \in 1 .. width
      BY <1>1, <1>4, <1>6
    <2>2. t[i] = f[i - Len(text)]
      BY <1>1, <1>2, <1>3, <1>6
    <2> QED
      BY <1>2, <2>1, <2>2
  <1>7. ASSUME NEW i \in 1 .. Len(text) PROVE text[i] \in Nat /\ text[i] <= entered
    BY <1>1 DEF InKeyOrder
  <1>8. ASSUME NEW i \in 1 .. Len(t) PROVE t[i] <= entered + width
    BY <1>1, <1>5, <1>6, <1>7
  <1>9. ASSUME NEW i \in 1 .. Len(t), NEW j \in 1 .. Len(t), i < j
        PROVE  t[i] < t[j]
    <2>1. CASE j <= Len(text)
      <3>1. t[i] = text[i] /\ t[j] = text[j] /\ i \in 1 .. Len(text) /\ j \in 1 .. Len(text)
        BY <1>1, <1>5, <1>9, <2>1
      <3> QED
        BY <1>9, <3>1 DEF InKeyOrder
    <2>2. CASE i <= Len(text) /\ ~(j <= Len(text))
      BY <1>1, <1>5, <1>6, <1>7, <2>2
    <2>3. CASE ~(i <= Len(text))
      <3>1. ~(j <= Len(text))
        BY <1>1, <1>9, <2>3
      <3>2. t[i] = entered + (i - Len(text)) /\ t[j] = entered + (j - Len(text))
        BY <1>6, <2>3, <3>1
      <3> QED
        BY <1>1, <1>9, <3>2
    <2> QED
      BY <2>1, <2>2, <2>3
  <1> QED
    BY <1>3, <1>4, <1>8, <1>9 DEF InKeyOrder, t, f

\* The invariant in one piece, now and after a step.
LEMMA IInvFacts ==
    ASSUME IInv
    PROVE  /\ shown \in BOOLEAN /\ entered \in Nat /\ proc = "running"
           /\ InKeyOrder(text, entered)
           /\ text \in Seq(Nat) /\ Len(text) \in Nat
           /\ cursorCol \in 0 .. Len(text)
  <1>1. text \in Seq(Nat) /\ Len(text) \in Nat
    BY DEF IInv, TypeOK
  <1> QED
    BY <1>1 DEF IInv, TypeOK, ColumnIsInsideText, BytesKeepKeyOrder, InKeyOrder

LEMMA IInvAfter ==
    ASSUME NEW t, NEW n \in Nat, NEW col \in 0 .. Len(t), InKeyOrder(t, n),
           text' = t, entered' = n, cursorCol' = col,
           shown' \in BOOLEAN, proc' = "running"
    PROVE  IInv'
  <1>1. t \in Seq(Nat) /\ Len(t) \in Nat
    BY DEF InKeyOrder
  <1>2. TypeOK'
    BY <1>1 DEF TypeOK
  <1>3. ColumnIsInsideText'
    BY <1>1 DEF ColumnIsInsideText
  <1>4. BytesKeepKeyOrder'
    BY <1>1 DEF BytesKeepKeyOrder, InKeyOrder
  <1> QED
    BY <1>2, <1>3, <1>4 DEF IInv

LEMMA InitEstablishesIInv == Init => IInv
  <1> SUFFICES ASSUME Init PROVE IInv
    OBVIOUS
  <1>1. text \in Seq(Nat) /\ Len(text) = 0
    BY DEF Init
  <1>2. TypeOK
    BY <1>1 DEF Init, TypeOK
  <1>3. ColumnIsInsideText /\ BytesKeepKeyOrder
    BY <1>1 DEF Init, ColumnIsInsideText, BytesKeepKeyOrder
  <1> QED
    BY <1>2, <1>3 DEF IInv

(***************************************************************************)
(* Cut never throws when its position is inside the text.                  *)
(***************************************************************************)
LEMMA CutPreserves ==
    ASSUME IInv, NEW pos \in 0 .. Len(text), NEW t, InKeyOrder(t, entered),
           NEW col \in 0 .. Len(t), Cut(pos, t, col), UNCHANGED <<shown, entered>>
    PROVE  IInv'
  <1>1. Len(text) \in Nat
    BY DEF IInv, TypeOK
  <1>2. text' = t /\ cursorCol' = col /\ proc' = proc
    BY <1>1 DEF Cut
  <1> QED
    BY <1>2, IInvFacts, IInvAfter

LEMMA MovePreserves ==
    ASSUME IInv, NEW col \in 0 .. Len(text), Move(col)
    PROVE  IInv'
  <1>1. text' = text /\ entered' = entered /\ shown' = shown /\ proc' = proc /\ cursorCol' = col
    BY DEF Move
  <1> QED
    BY <1>1, IInvFacts, IInvAfter

LEMMA StepPreservesIInv == IInv /\ [Next]_vars => IInv'
  <1> SUFFICES ASSUME IInv, [Next]_vars PROVE IInv'
    OBVIOUS
  <1>0. /\ shown \in BOOLEAN /\ entered \in Nat /\ InKeyOrder(text, entered)
        /\ cursorCol \in 0 .. Len(text) /\ proc = "running" /\ Len(text) \in Nat
        /\ text \in Seq(Nat)
    BY IInvFacts
  <1>1. ASSUME NEW initial \in {0, 1}, Enter(initial) PROVE IInv'
    <2> DEFINE t == [i \in 1 .. initial |-> i]
    <2>1. initial \in Nat
      OBVIOUS
    <2>2. t \in Seq(Nat) /\ Len(t) = initial /\ \A i \in 1 .. initial : t[i] = i
      BY <2>1
    <2> HIDE DEF t
    <2>3. InKeyOrder(t, initial) /\ initial \in 0 .. Len(t)
      BY <2>1, <2>2 DEF InKeyOrder
    <2>4. text' = t /\ cursorCol' = initial /\ entered' = initial /\ shown' = TRUE /\ proc' = proc
      BY <1>1 DEF Enter, t
    <2> QED
      BY <1>0, <2>1, <2>3, <2>4, IInvAfter
  <1>2. ASSUME NEW width \in Widths, KeyText(width) PROVE IInv'
    <2> DEFINE t == text \o Fresh(width)
    <2>1. width \in Nat \ {0}
      BY WidthsAssumption
    <2>2. InKeyOrder(t, entered + width) /\ Len(t) = Len(text) + width
      BY <1>0, <2>1, AppendKeepsOrder
    <2> HIDE DEF t
    <2>3. /\ text' = t /\ entered' = entered + width /\ cursorCol' = cursorCol + 1
          /\ shown' = shown /\ proc' = proc
      BY <1>2 DEF KeyText, t
    <2>4. entered + width \in Nat /\ cursorCol + 1 \in 0 .. Len(t)
      BY <1>0, <2>1, <2>2
    <2> QED
      BY <1>0, <2>2, <2>3, <2>4, IInvAfter
  <1>3. ASSUME Leave PROVE IInv'
    <2>1. text' = text /\ cursorCol' = cursorCol /\ entered' = entered /\ proc' = proc /\ shown' = FALSE
      BY <1>3 DEF Leave
    <2> QED
      BY <1>0, <2>1, IInvAfter
  <1>4. CASE KeyBackspace
    <2>1. CASE /\ cursorCol > 0
               /\ Cut(cursorCol, Before(cursorCol - 1) \o From(cursorCol), cursorCol - 1)
               /\ UNCHANGED <<shown, entered>>
      <3> DEFINE t == Before(cursorCol - 1) \o From(cursorCol)
      <3>1. /\ cursorCol - 1 \in Nat /\ cursorCol \in Nat
            /\ cursorCol - 1 <= cursorCol /\ cursorCol <= Len(text)
        BY <1>0, <2>1
      <3>2. InKeyOrder(t, entered) /\ Len(t) = (cursorCol - 1) + (Len(text) - cursorCol)
        BY <1>0, <3>1, CutOutKeepsOrder
      <3> HIDE DEF t
      <3>3. cursorCol - 1 \in 0 .. Len(t)
        BY <1>0, <3>1, <3>2
      <3>4. Cut(cursorCol, t, cursorCol - 1) /\ UNCHANGED <<shown, entered>>
        BY <2>1 DEF t
      <3> QED
        BY <1>0, <3>2, <3>3, <3>4, CutPreserves
    <2> QED
      BY <1>3, <1>4, <2>1 DEF KeyBackspace
  <1>5. CASE KeyDelete
    <2> DEFINE t == Before(cursorCol) \o From(cursorCol + 1)
    <2>1. cursorCol \in Nat /\ cursorCol + 1 \in Nat /\ cursorCol + 1 <= Len(text)
      BY <1>0, <1>5 DEF KeyDelete
    <2>2. InKeyOrder(t, entered) /\ Len(t) = cursorCol + (Len(text) - (cursorCol + 1))
      BY <1>0, <2>1, CutOutKeepsOrder
    <2>3. Cut(cursorCol + 1, t, cursorCol) /\ UNCHANGED <<shown, entered>>
      BY <1>5 DEF KeyDelete
    <2> HIDE DEF t
    <2>4. cursorCol \in 0 .. Len(t) /\ cursorCol + 1 \in 0 .. Len(text)
      BY <1>0, <2>1, <2>2
    <2> QED
      BY <1>0, <2>2, <2>3, <2>4, CutPreserves
  <1>6. CASE KeyClear
    <2> DEFINE t == Before(0) \o From(cursorCol)
    <2>1. cursorCol \in Nat /\ cursorCol <= Len(text)
      BY <1>0
    <2>2. InKeyOrder(t, entered) /\ Len(t) = 0 + (Len(text) - cursorCol)
      BY <1>0, <2>1, CutOutKeepsOrder
    <2>3. t = From(cursorCol)
      <3>1. Before(0) = <<>> /\ From(cursorCol) \in Seq(Nat)
        BY <1>0, <2>1 DEF Before, From
      <3> QED
        BY <3>1, ConcatEmptySeq
    <2>4. Cut(cursorCol, t, 0) /\ UNCHANGED <<shown, entered>>
      BY <1>6, <2>3 DEF KeyClear
    <2> HIDE DEF t
    <2>5. 0 \in 0 .. Len(t)
      BY <1>0, <2>1, <2>2
    <2> QED
      BY <1>0, <2>2, <2>4, <2>5, CutPreserves
  <1>7. CASE KeyLeft
    <2>1. cursorCol - 1 \in 0 .. Len(text) /\ Move(cursorCol - 1)
      BY <1>0, <1>7 DEF KeyLeft
    <2> QED
      BY <2>1, MovePreserves
  <1>8. CASE KeyRight
    <2>1. cursorCol + 1 \in 0 .. Len(text) /\ Move(cursorCol + 1)
      BY <1>0, <1>8 DEF KeyRight
    <2> QED
      BY <2>1, MovePreserves
  <1>9. CASE KeyHome \/ KeyEnd
    <2>1. 0 \in 0 .. Len(text) /\ Len(text) \in 0 .. Len(text)
      BY <1>0
    <2> QED
      BY <1>9, <2>1, MovePreserves DEF KeyHome, KeyEnd
  <1>10. CASE KeyEscape \/ KeyEnter
    BY <1>3, <1>10 DEF KeyEscape, KeyEnter
  <1>11. CASE UNCHANGED vars
    BY <1>0, <1>11, IInvAfter DEF vars
  <1> QED
    BY <1>1, <1>2, <1>4, <1>5, <1>6, <1>7, <1>8, <1>9, <1>10, <1>11 DEF Next

-----------------------------------------------------------------------------

(***************************************************************************)
(* The inductive invariant holds in every behaviour of the prompt.         *)
(***************************************************************************)
THEOREM PromptInvariant == Spec => []IInv
  <1> QED
    BY InitEstablishesIInv, StepPreservesIInv, PTL DEF Spec

(***************************************************************************)
(* Whatever is typed and erased, with characters of any width, _cursorCol  *)
(* stays inside _enteredText and no substr of _event_key throws.           *)
(***************************************************************************)
THEOREM ColumnStaysInside == Spec => []ColumnIsInsideText
  <1>1. IInv => ColumnIsInsideText
    BY DEF IInv
  <1> QED
    BY <1>1, PromptInvariant, PTL

(***************************************************************************)
(* Backspace, Delete and C-u never duplicate or reorder bytes of           *)
(* _enteredText: what is submitted was typed in this order.                *)
(***************************************************************************)
THEOREM TextIsInKeyOrder == Spec => []BytesKeepKeyOrder
  <1>1. IInv => BytesKeepKeyOrder
    BY DEF IInv
  <1> QED
    BY <1>1, PromptInvariant, PTL
=============================================================================
