----------------------------- MODULE MCReplSet -----------------------------
(***************************************************************************)
(* ReplSet for TLC with three members, from two starts: a fresh set whose  *)
(* members may all stand, for the race of candidates, and one where two    *)
(* primaries have left oplogs that disagree.  There A was primary in term  *)
(* 1 and crashed before anyone had its entry, B has been elected with the  *)
(* vote of C and has written its own.  Init leads to this state.           *)
(***************************************************************************)
EXTENDS ReplSet, TLC

CONSTANTS A, B, C

Diverged ==
    /\ term = (A :> 1 @@ B :> 2 @@ C :> 2)
    /\ mode = (A :> "follower" @@ B :> "kMaster" @@ C :> "follower")
    /\ pendingTerm = [n \in Nodes |-> 0]
    /\ lastVote = (A :> 1 @@ B :> 2 @@ C :> 2)
    /\ diskVote = lastVote
    /\ storing = {}
    /\ election = [n \in Nodes |-> NoElection]
    /\ oplog = (A :> <<0, 1>> @@ B :> <<0, 2>> @@ C :> <<0>>)
    /\ durable = (A :> 2 @@ B :> 2 @@ C :> 1)
    /\ lastCommitted = [n \in Nodes |-> NullOpTime]
    /\ firstOpTime = [n \in Nodes |-> IF n = B THEN <<2, 2>> ELSE NullOpTime]
    /\ memberData = [n \in Nodes |-> [m \in Nodes |-> NullOpTime]]
    /\ committed = {}
    /\ voteWentBack = FALSE

\* A diverged set does not get here: the oplog that is furthest is not cut.
Fresh == \A n \in Nodes : Len(oplog[n]) = 1

\* Bounds: a fresh set has elections up to this term and writes nothing, in a
\* diverged one this member does not stand.
FreshMaxTerm == 2

NeverStands == C

InBounds ==
    IF Fresh
    THEN Fresh' /\ \A n \in Nodes : term'[n] <= FreshMaxTerm
    ELSE mode'[NeverStands] \notin Candidate

BoundedSpec == (Init \/ Diverged) /\ [][Next /\ InBounds]_vars

\* What the next steps depend on. A node that is not primary does not use
\* firstOpTime and memberData, a primary counts no OpTime of an earlier term, and
\* a vote in an earlier term than a node's own is never asked about again.
RelevantState ==
    <<term, mode, pendingTerm, diskVote, storing, election, oplogVars,
      lastCommitted, committed, voteWentBack,
      [n \in Nodes |-> IF lastVote[n] >= term[n] THEN lastVote[n] ELSE 0],
      [n \in Nodes |-> Floor(n)],
      [n \in Nodes |-> [m \in Nodes |->
          IF MayCount(mode[n]) /\ memberData[n][m][1] = term[n]
          THEN memberData[n][m] ELSE NullOpTime]]>>
=============================================================================
