--------------------------- MODULE MCLockManager ---------------------------
(***************************************************************************)
(* LockManager for TLC, on an ordinary resource and on one whose strong    *)
(* modes go first.  On the latter there are several times as many states,  *)
(* so only some of the lockers nest their requests there.                  *)
(***************************************************************************)
EXTENDS LockManager

CONSTANT PriorityNesters  \* bound: who asks again for a priority resource it holds

InBounds ==
    priority =>
      \A l \in Lockers \ PriorityNesters : req[l].recursiveCount <= 1

\* The bound holds up no step that Fairness is about: a call that has begun goes
\* on, and a holder may always release.
BoundedSpec == Init /\ [][Next /\ InBounds']_vars /\ Fairness
=============================================================================
