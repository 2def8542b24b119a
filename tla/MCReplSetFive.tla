--------------------------- MODULE MCReplSetFive ---------------------------
(***************************************************************************)
(* ReplSet for TLC with five members, started where A is primary in term 3 *)
(* and has replicated its oplog to D and E. A has entries of term 1 that   *)
(* it wrote before B was primary in term 2; B still has the entry of its   *)
(* own term and C has none of them yet. Init leads to this state: A is     *)
(* elected by D and E, writes twice and crashes, B is elected by C, D and  *)
(* E, writes once and crashes, A is elected by C, D and E and writes once, *)
(* D and E fetch that oplog and B hears of term 3.                         *)
(***************************************************************************)
EXTENDS ReplSet, TLC

CONSTANTS A, B, C, D, E

Lagging ==
    /\ term = [n \in Nodes |-> 3]
    /\ mode = [n \in Nodes |-> IF n = A THEN "kMaster" ELSE "follower"]
    /\ pendingTerm = [n \in Nodes |-> 0]
    /\ lastVote = [n \in Nodes |-> IF n = B THEN 2 ELSE 3]
    /\ diskVote = lastVote
    /\ storing = {}
    /\ election = [n \in Nodes |-> NoElection]
    /\ oplog = [n \in Nodes |-> CASE n \in {A, D, E} -> <<0, 1, 1, 3>>
                                  [] n = B -> <<0, 2>>
                                  [] n = C -> <<0>>]
    /\ durable = [n \in Nodes |-> Len(oplog[n])]
    /\ lastCommitted = [n \in Nodes |-> NullOpTime]
    /\ firstOpTime = [n \in Nodes |-> IF n = A THEN <<3, 4>> ELSE NullOpTime]
    /\ memberData = [n \in Nodes |-> [m \in Nodes |-> NullOpTime]]
    /\ committed = {}
    /\ voteWentBack = FALSE

LaggingSpec == Lagging /\ [][Next]_vars
=============================================================================
