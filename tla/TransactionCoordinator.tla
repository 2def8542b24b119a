----------------------- MODULE TransactionCoordinator -----------------------
(***************************************************************************)
(* The commit of one cross-shard transaction: TransactionCoordinator and   *)
(* its service (db/s/transaction_coordinator*.cpp), the commands that the  *)
(* coordinator sends to the participants, and the coordinateCommit command *)
(* a router sends to the coordinator.  Every shard is a replica set whose  *)
(* primary may fail at any time; the coordinator runs on the primary of    *)
(* the shard Coord, which is a participant itself.                         *)
(*                                                                         *)
(* hist[s] is what the primary of s has written, oldest first: the first   *)
(* entry is majority-committed, the last is what the primary sees, and a   *)
(* failover may lose any of the others.  An entry holds the participant's  *)
(* state and the document of config.transaction_coordinators.              *)
(*                                                                         *)
(* A request once sent stays in msgs: it may be delivered late, again, to  *)
(* the next primary, or never.  A reply is taken from the participant's    *)
(* majority-committed state at the moment the coordinator gets it, since   *)
(* participants answer only after their write, or the no-op write of a     *)
(* NoSuchTransaction error, is majority-committed, and what was answered   *)
(* stays true.                                                             *)
(***************************************************************************)
EXTENDS Naturals, Sequences, FiniteSets

CONSTANTS
    Shards,         \* the participants of the transaction
    Coord,          \* the shard whose primary coordinates the commit
    MaxFailovers    \* bound of this model: failovers in a behaviour

ASSUME CoordAssumption == Coord \in Shards
ASSUME FailoversAssumption == MaxFailovers \in Nat

VARIABLES
    hist,       \* per shard, the writes of its primary, see above
    active,     \* per shard, whether the transaction is open and unprepared
    step,       \* the coordinator's Step, "none" when there is no coordinator
    decision,   \* its _decision
    replied,    \* the shards whose votes, or acks, the coordinator has
    recovering, \* whether the new primary of Coord has not recovered yet
    msgs,       \* the requests sent to participants, as <<request, shard>>
    answers,    \* the outcomes that were reported to the client
    awaitsExit, \* whether a coordinateCommit waits for Coord to exit prepare
    failovers   \* how many failovers have happened

coordVars == <<step, decision, replied, recovering>>
vars == <<hist, active, coordVars, msgs, answers, awaitsExit, failovers>>

Last(s) == hist[s][Len(hist[s])]

Majority(s) == hist[s][1]

\* The primary of s writes: the participant's state, or the coordinator document.
WritePart(s, part) ==
    hist' = [hist EXCEPT ![s] = Append(@, [Last(s) EXCEPT !.part = part])]

WriteDoc(doc) ==
    hist' = [hist EXCEPT ![Coord] = Append(@, [Last(Coord) EXCEPT !.doc = doc])]

-----------------------------------------------------------------------------
\* The transaction has run statements on every shard; the first one on Coord
\* created the coordinator (createCoordinator).
Init ==
    /\ hist = [s \in Shards |-> <<[part |-> "none", doc |-> "none"]>>]
    /\ active = [s \in Shards |-> TRUE]
    /\ step = "kInactive"
    /\ decision = "none"
    /\ replied = {}
    /\ recovering = FALSE
    /\ msgs = {}
    /\ answers = {}
    /\ awaitsExit = FALSE
    /\ failovers = 0

-----------------------------------------------------------------------------
(* Participants *)

InProgress(s) == active[s] \/ Last(s).part = "prepared"

\* prepareTransaction on an open transaction.
Prepare(s) ==
    /\ <<"prepare", s>> \in msgs
    /\ active[s]
    /\ active' = [active EXCEPT ![s] = FALSE]
    /\ WritePart(s, "prepared")
    /\ UNCHANGED <<coordVars, msgs, answers, awaitsExit, failovers>>

\* commitTransaction with a commit timestamp.
CommitPrepared(s) ==
    /\ <<"commit", s>> \in msgs
    /\ Last(s).part = "prepared"
    /\ WritePart(s, "committed")
    /\ UNCHANGED <<active, coordVars, msgs, answers, awaitsExit, failovers>>

\* abortTransaction; an unprepared transaction leaves nothing in the oplog.
AbortOnRequest(s) ==
    /\ <<"abort", s>> \in msgs
    /\ InProgress(s)
    /\ active' = [active EXCEPT ![s] = FALSE]
    /\ IF Last(s).part = "prepared" THEN WritePart(s, "aborted") ELSE UNCHANGED hist
    /\ UNCHANGED <<coordVars, msgs, answers, awaitsExit, failovers>>

\* A transaction that is not prepared is aborted by its lifetime limit, by a
\* killed session or a conflict.
AbortUnprepared(s) ==
    /\ active[s]
    /\ active' = [active EXCEPT ![s] = FALSE]
    /\ UNCHANGED <<hist, coordVars, msgs, answers, awaitsExit, failovers>>

\* Mutant: participants answer before their writes are majority-committed.
AnswersEarly(s) == s \in Shards

\* What a participant has to say is held back until it is majority-committed.
Answers(s) == Len(hist[s]) = 1

-----------------------------------------------------------------------------
(* The coordinator *)

\* runCommit, for the participants that the router named.
RunCommit ==
    /\ step = "kInactive"
    /\ step' = "kWritingParticipantList"
    /\ UNCHANGED <<hist, active, decision, replied, recovering, msgs, answers, awaitsExit, failovers>>

\* cancelIfCommitNotYetStarted: the deadline, a newer transaction, or a router
\* that asks for the outcome only (recoverCommit).
CancelIfCommitNotYetStarted ==
    /\ step = "kInactive"
    /\ step' = "none"
    /\ UNCHANGED <<hist, active, decision, replied, recovering, msgs, answers, awaitsExit, failovers>>

\* persistParticipantListBlocking up to its wait for the majority.
WriteParticipantList ==
    /\ step = "kWritingParticipantList"
    /\ step' = "waitParticipantList"
    /\ WriteDoc("participants")
    /\ UNCHANGED <<active, decision, replied, recovering, msgs, answers, awaitsExit, failovers>>

\* Mutant: the participant list is not awaited.
SendPrepareEarly ==
    /\ step = "waitParticipantList"
    /\ step' = "kWaitingForVotes"
    /\ replied' = {}
    /\ msgs' = msgs \cup {<<"prepare", s>> : s \in Shards}
    /\ UNCHANGED <<hist, active, decision, recovering, answers, awaitsExit, failovers>>

\* The participant list is majority-committed: sendPrepare.
SendPrepare ==
    /\ step = "waitParticipantList"
    /\ Majority(Coord).doc = "participants"
    /\ step' = "kWaitingForVotes"
    /\ replied' = {}
    /\ msgs' = msgs \cup {<<"prepare", s>> : s \in Shards}
    /\ UNCHANGED <<hist, active, decision, recovering, answers, awaitsExit, failovers>>

\* sendPrepareToShard gets a vote to commit; the last of them decides.
ReceiveVoteCommit(s) ==
    /\ step = "kWaitingForVotes"
    /\ s \notin replied
    /\ Answers(s)
    /\ Last(s).part = "prepared"
    /\ replied' = replied \cup {s}
    /\ IF replied' = Shards
       THEN step' = "kWritingDecision" /\ decision' = "commit"
       ELSE UNCHANGED <<step, decision>>
    /\ UNCHANGED <<hist, active, recovering, msgs, answers, awaitsExit, failovers>>

\* sendPrepareToShard gets NoSuchTransaction: no other vote matters any more.
ReceiveVoteAbort(s) ==
    /\ step = "kWaitingForVotes"
    /\ s \notin replied
    /\ Answers(s)
    /\ ~InProgress(s)
    /\ step' = "kWritingDecision"
    /\ decision' = "abort"
    /\ UNCHANGED <<hist, active, replied, recovering, msgs, answers, awaitsExit, failovers>>

\* The deadline cancels the missing votes; so does a shard that is not found.
DeadlineWhilePreparing ==
    /\ step = "kWaitingForVotes"
    /\ step' = "kWritingDecision"
    /\ decision' = "abort"
    /\ UNCHANGED <<hist, active, replied, recovering, msgs, answers, awaitsExit, failovers>>

\* The deadline interrupts the write of the participant list, or the wait for
\* its majority: the write cannot be retried on the scheduler that was shut
\* down, and the coordinator completes with that error.
DeadlineWhileWriting ==
    /\ step \in {"kWritingParticipantList", "waitParticipantList"}
    /\ step' = "none"
    /\ UNCHANGED <<hist, active, decision, replied, recovering, msgs, answers, awaitsExit, failovers>>

\* persistDecisionBlocking up to its wait for the majority.
WriteDecision ==
    /\ step = "kWritingDecision"
    /\ Last(Coord).doc \in {"participants", decision}
    /\ step' = "waitDecision"
    /\ WriteDoc(decision)
    /\ UNCHANGED <<active, decision, replied, recovering, msgs, answers, awaitsExit, failovers>>

\* Mutant: the decision is sent once the primary has written it.
SendDecisionEarly ==
    /\ step = "waitDecision"
    /\ step' = "kWaitingForDecisionAcks"
    /\ replied' = {}
    /\ msgs' = msgs \cup {<<decision, s>> : s \in Shards}
    /\ UNCHANGED <<hist, active, decision, recovering, answers, awaitsExit, failovers>>

\* The decision is majority-committed: sendCommit, sendAbort.
SendDecision ==
    /\ step = "waitDecision"
    /\ Majority(Coord).doc = decision
    /\ step' = "kWaitingForDecisionAcks"
    /\ replied' = {}
    /\ msgs' = msgs \cup {<<decision, s>> : s \in Shards}
    /\ UNCHANGED <<hist, active, decision, recovering, answers, awaitsExit, failovers>>

\* Mutant: NoSuchTransaction is an ack although the abort that caused it may
\* still be lost.
ReceiveAckEarly(s) ==
    /\ step = "kWaitingForDecisionAcks"
    /\ s \notin replied
    /\ ~InProgress(s)
    /\ replied' = replied \cup {s}
    /\ step' = IF replied' = Shards THEN "kDeletingCoordinatorDoc" ELSE step
    /\ UNCHANGED <<hist, active, decision, recovering, msgs, answers, awaitsExit, failovers>>

\* sendDecisionToShard: success, or NoSuchTransaction, which is an ack too.
ReceiveAck(s) ==
    /\ step = "kWaitingForDecisionAcks"
    /\ s \notin replied
    /\ Answers(s)
    /\ ~InProgress(s)
    /\ replied' = replied \cup {s}
    /\ step' = IF replied' = Shards THEN "kDeletingCoordinatorDoc" ELSE step
    /\ UNCHANGED <<hist, active, decision, recovering, msgs, answers, awaitsExit, failovers>>

\* deleteCoordinatorDocBlocking, without waiting for a majority; the
\* coordinator is done, and who waits for it is told the decision.
DeleteDoc ==
    /\ step = "kDeletingCoordinatorDoc"
    /\ WriteDoc("none")
    /\ step' = "none"
    /\ answers' = answers \cup {decision}
    /\ UNCHANGED <<active, decision, replied, recovering, msgs, awaitsExit, failovers>>

\* The delete fails with an error that is not retried: the coordinator is done
\* all the same, and the document stays for the next step-up to find.
DeleteDocFails ==
    /\ step = "kDeletingCoordinatorDoc"
    /\ step' = "none"
    /\ answers' = answers \cup {decision}
    /\ UNCHANGED <<hist, active, decision, replied, recovering, msgs, awaitsExit, failovers>>

\* coordinateCommitTransaction where no coordinator is found: a committed local
\* participant is the outcome, one that is not prepared is aborted.  The
\* session is released while the command waits for it to exit prepare.
RecoverFromLocalParticipant ==
    /\ ~recovering
    /\ step = "none"
    /\ active' = [active EXCEPT ![Coord] = FALSE]
    /\ IF Last(Coord).part = "committed"
       THEN answers' = answers \cup {"commit"} /\ UNCHANGED awaitsExit
       ELSE awaitsExit' = TRUE /\ UNCHANGED answers
    /\ UNCHANGED <<hist, coordVars, msgs, failovers>>

\* What transactionIsCommitted says of the local participant.
LocalOutcome == IF Last(Coord).part = "committed" THEN "commit" ELSE "abort"

\* Mutant: a prepared participant is not waited for.
AnswerFromLocalParticipantEarly ==
    /\ awaitsExit
    /\ answers' = answers \cup {LocalOutcome}
    /\ UNCHANGED <<hist, active, coordVars, msgs, awaitsExit, failovers>>

\* The participant is not, or no longer, prepared: the command checks out the
\* session again and answers.  Other commands may still be waiting.
AnswerFromLocalParticipant ==
    /\ awaitsExit
    /\ Last(Coord).part # "prepared"
    /\ answers' = answers \cup {LocalOutcome}
    /\ UNCHANGED <<hist, active, coordVars, msgs, awaitsExit, failovers>>

-----------------------------------------------------------------------------
(* Replication and failover *)

\* The oldest write that is not yet on a majority gets there.
AdvanceMajority(s) ==
    /\ Len(hist[s]) > 1
    /\ hist' = [hist EXCEPT ![s] = Tail(@)]
    /\ UNCHANGED <<active, coordVars, msgs, answers, awaitsExit, failovers>>

\* The decision is durable and the coordinator has it in _decisionPromise.
DecisionDurable == step \in {"kWaitingForDecisionAcks", "kDeletingCoordinatorDoc"}

\* A new primary has some of the writes; open transactions, and the
\* coordinator with everything it knew, are gone.  Where the old primary
\* stepped down and did not crash, a coordinator with a durable decision gives
\* it to the command that waits (_done), before all participants have acked;
\* and a command that waits for the local participant goes on if that node is
\* elected again, while it gets an error from every other node.
Failover(s) ==
    /\ failovers < MaxFailovers
    /\ failovers' = failovers + 1
    /\ \E n \in 1 .. Len(hist[s]) : hist' = [hist EXCEPT ![s] = SubSeq(@, 1, n)]
    /\ active' = [active EXCEPT ![s] = FALSE]
    /\ IF s = Coord
       THEN /\ step' = "none"
            /\ decision' = "none"
            /\ replied' = {}
            /\ recovering' = TRUE
            /\ \/ UNCHANGED answers
               \/ DecisionDurable /\ answers' = answers \cup {decision}
            /\ awaitsExit' \in {awaitsExit, FALSE}
       ELSE UNCHANGED <<coordVars, answers, awaitsExit>>
    /\ UNCHANGED msgs

\* onStepUp: waits until all it has is majority-committed, then reads the
\* coordinator document and continues (continueCommit).
Recover ==
    /\ recovering
    /\ Len(hist[Coord]) = 1
    /\ recovering' = FALSE
    /\ LET doc == Last(Coord).doc IN
       /\ step' = CASE doc = "none"         -> "none"
                    [] doc = "participants" -> "kWritingParticipantList"
                    [] OTHER                -> "kWritingDecision"
       /\ decision' = IF doc \in {"commit", "abort"} THEN doc ELSE "none"
    /\ UNCHANGED <<hist, active, replied, msgs, answers, awaitsExit, failovers>>

-----------------------------------------------------------------------------
CoordinatorStep ==
    \/ WriteParticipantList \/ SendPrepare
    \/ \E s \in Shards : ReceiveVoteCommit(s) \/ ReceiveVoteAbort(s) \/ ReceiveAck(s)
    \/ WriteDecision \/ SendDecision \/ DeleteDoc
    \/ Recover

ParticipantStep(s) ==
    Prepare(s) \/ CommitPrepared(s) \/ AbortOnRequest(s)

Next ==
    \/ CoordinatorStep
    \/ RunCommit \/ CancelIfCommitNotYetStarted
    \/ RecoverFromLocalParticipant \/ AnswerFromLocalParticipant
    \/ DeleteDocFails
    \/ DeadlineWhilePreparing \/ DeadlineWhileWriting
    \/ \E s \in Shards : \/ ParticipantStep(s)
                         \/ AbortUnprepared(s)
                         \/ AdvanceMajority(s)
                         \/ Failover(s)

\* A request is sent again as long as the coordinator waits for its answer.
Retried(s) ==
    /\ s \notin replied
    /\ \/ step = "kWaitingForVotes" /\ Prepare(s)
       \/ step = "kWaitingForDecisionAcks" /\ (CommitPrepared(s) \/ AbortOnRequest(s))

\* The coordinator's tasks run and are retried until they succeed, a request
\* that is sent again and again is delivered, and writes reach a majority.
\* Clients, deadlines, failovers and the delivery of what nobody sends again
\* are free to come or not.
Fairness ==
    /\ WF_vars(CoordinatorStep)
    /\ \A s \in Shards : WF_vars(Retried(s)) /\ WF_vars(AdvanceMajority(s))

Spec == Init /\ [][Next]_vars

FairSpec == Spec /\ Fairness

-----------------------------------------------------------------------------
(* Properties *)

Steps == {"none", "kInactive", "kWritingParticipantList", "waitParticipantList",
          "kWaitingForVotes", "kWritingDecision", "waitDecision",
          "kWaitingForDecisionAcks", "kDeletingCoordinatorDoc"}

Decisions == {"commit", "abort"}

Entry == [part : {"none", "prepared", "committed", "aborted"},
          doc : {"none", "participants"} \cup Decisions]

\* The type invariant.
TypeOK ==
    /\ hist \in [Shards -> Seq(Entry)]
    /\ \A s \in Shards : hist[s] # <<>>
    /\ active \in [Shards -> BOOLEAN]
    /\ step \in Steps
    /\ decision \in Decisions \cup {"none"}
    /\ replied \subseteq Shards
    /\ recovering \in BOOLEAN
    /\ msgs \subseteq ({"prepare"} \cup Decisions) \X Shards
    /\ answers \subseteq Decisions
    /\ awaitsExit \in BOOLEAN
    /\ failovers \in 0 .. MaxFailovers

\* What is durably known of the transaction on s, as AtomicCommit sees it: a
\* transaction that is gone before it was ever prepared is aborted.
Outcome(s) ==
    CASE Majority(s).part # "none"                     -> Majority(s).part
      [] Majority(s).part = "none" /\ ~InProgress(s)
           /\ Last(s).part = "none"                    -> "aborted"
      [] OTHER                                         -> "working"

Atomic == INSTANCE AtomicCommit WITH outcome <- [s \in Shards |-> Outcome(s)]

\* The commit is atomic whatever fails over, is lost or comes late: the
\* majority-committed states of the participants follow AtomicCommit.
ImplementsAtomicCommit == Atomic!Spec

\* The client is never told two outcomes, and what it is told is what happens.
\* A commit may be answered before it has reached every shard, by a coordinator
\* that steps down, but then it is durable on Coord and no shard ever aborts;
\* after an abort was answered, no shard ever commits.
AnswersAreTrue ==
    /\ Cardinality(answers) <= 1
    /\ \A s \in Shards :
         /\ "commit" \in answers =>
              \/ Outcome(s) = "committed"
              \/ Outcome(s) = "prepared" /\ Majority(Coord).doc = "commit"
         /\ "abort" \in answers => Outcome(s) # "committed"

\* The requests sent never contradict each other: no commit and abort, not
\* even from coordinators of different terms.
OneDecisionIsSent ==
    \A s, t \in Shards : ~(<<"commit", s>> \in msgs /\ <<"abort", t>> \in msgs)

\* A prepared participant is never forgotten: as long as one has a chance to
\* be prepared, a document that a coordinator resumes from is majority-committed.
PreparedIsRemembered ==
    \A s \in Shards : Last(s).part = "prepared" \/ Majority(s).part = "prepared" =>
      /\ Majority(Coord).doc # "none"
      /\ \A i \in DOMAIN hist[Coord] : hist[Coord][i].doc # "none"

\* The deadline ended a coordinator that was to resume an undecided commit.
Abandoned == step = "none" /\ ~recovering /\ Last(Coord).doc = "participants"

\* Every participant leaves the prepared state, in which it holds its locks
\* and cannot abort by itself, unless the coordinator was abandoned.
InDoubtIsResolved ==
    \A s \in Shards : (Last(s).part = "prepared") ~> (Last(s).part # "prepared" \/ Abandoned)
=============================================================================
