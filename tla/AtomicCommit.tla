---------------------------- MODULE AtomicCommit ----------------------------
(***************************************************************************)
(* What a two-phase commit promises of the participants of one             *)
(* transaction: each works, may then be prepared, and ends committed or    *)
(* aborted; nobody commits unless everybody was prepared, and nobody       *)
(* aborts once somebody has committed.                                     *)
(***************************************************************************)
CONSTANT Shards    \* the participants

VARIABLE outcome   \* what is durably known of the transaction on each shard

Outcomes == {"working", "prepared", "committed", "aborted"}

Init == outcome = [s \in Shards |-> "working"]

Prepare(s) ==
    /\ outcome[s] = "working"
    /\ outcome' = [outcome EXCEPT ![s] = "prepared"]

Commit(s) ==
    /\ outcome[s] = "prepared"
    /\ \A t \in Shards : outcome[t] \in {"prepared", "committed"}
    /\ outcome' = [outcome EXCEPT ![s] = "committed"]

Abort(s) ==
    /\ outcome[s] \in {"working", "prepared"}
    /\ \A t \in Shards : outcome[t] # "committed"
    /\ outcome' = [outcome EXCEPT ![s] = "aborted"]

Next == \E s \in Shards : Prepare(s) \/ Commit(s) \/ Abort(s)

Spec == Init /\ [][Next]_outcome
=============================================================================
