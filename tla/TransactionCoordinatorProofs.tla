-------------------- MODULE TransactionCoordinatorProofs --------------------
(***************************************************************************)
(* Machine-checked proofs about TransactionCoordinator, for any set of     *)
(* shards and any number of failovers: the type invariant, the three       *)
(* safety invariants and the refinement of AtomicCommit.                   *)
(*                                                                         *)
(* The argument.  A shard is prepared at most once, since only an open     *)
(* transaction is prepared and no failover opens it again.  Votes are      *)
(* durable before they count, so a commit is decided only where every      *)
(* shard is durably prepared (CommitInv).  A decision is durable before it *)
(* is sent, so no coordinator of a later term reads another (SentInv), and *)
(* the document goes only after every shard is durably done (DocsInv).     *)
(***************************************************************************)
EXTENDS TransactionCoordinator, FiniteSetTheorems, SequenceTheorems, TLAPS

\* A request of this kind was sent, by whichever coordinator.
Sent(request) == \E s \in Shards : <<request, s>> \in msgs

\* The steps before there is a decision, and those after it was sent.
EarlySteps == {"kInactive", "kWritingParticipantList", "waitParticipantList",
               "kWaitingForVotes"}
AckSteps == {"kWaitingForDecisionAcks", "kDeletingCoordinatorDoc"}

\* The positions of the writes of s that are not yet forgotten.
Writes(s) == 1 .. Len(hist[s])

\* The transaction is over on s, even if the primary of s fails over.
Settled(s) ==
    /\ ~active[s]
    /\ \A i \in Writes(s) : hist[s][i].part # "prepared"

\* The transaction is over everywhere.
AllSettled == \A s \in Shards : Settled(s)

\* s was never prepared and never will be.
Refused(s) ==
    /\ ~active[s]
    /\ \A i \in Writes(s) : hist[s][i].part = "none"

\* A participant in state p may later be in state q.
CanFollow(p, q) == q = p \/ p = "none" \/ (p = "prepared" /\ q # "none")

\* A participant's states follow each other, and a request caused each.
PartInv(s) ==
    /\ \A i, j \in Writes(s) :
         i < j => CanFollow(hist[s][i].part, hist[s][j].part)
    /\ \A i \in Writes(s) :
         /\ active[s] => hist[s][i].part = "none"
         /\ hist[s][i].part = "prepared" => msgs # {}
         /\ hist[s][i].part = "committed" => Sent("commit")
         /\ hist[s][i].part = "aborted" => Sent("abort")

PartsInv == \A s \in Shards : PartInv(s)

\* The coordinator document: a decision is never replaced by another one, and
\* the document is deleted only when no participant depends on it.
DocsInv ==
    /\ \A i, j \in Writes(Coord) : i < j =>
         /\ hist[Coord][i].doc \in Decisions =>
              hist[Coord][j].doc \in {hist[Coord][i].doc, "none"}
         /\ hist[Coord][i].doc # "none" /\ hist[Coord][j].doc = "none" => AllSettled
    /\ \A i \in Writes(Coord) :
         /\ hist[Coord][i].doc \in Decisions =>
              recovering \/ decision = hist[Coord][i].doc
         /\ hist[Coord][i].doc = "none" /\ msgs # {} => AllSettled

\* What the coordinator has in memory at each of its steps.
CoordInv ==
    /\ recovering => step = "none" /\ decision = "none"
    /\ step \in EarlySteps =>
         /\ decision = "none"
         /\ \A i \in Writes(Coord) : hist[Coord][i].doc \notin Decisions
    /\ step \notin EarlySteps \cup {"none"} => decision \in Decisions
    /\ step = "kWaitingForVotes" =>
         \A s \in replied : Majority(s).part # "none"
    /\ step \in AckSteps =>
         /\ Sent(decision)
         /\ \A s \in replied : Settled(s)
    /\ step = "kDeletingCoordinatorDoc" => replied = Shards
    /\ step = "none" /\ ~recovering /\ (Sent("commit") \/ Sent("abort")) => AllSettled

\* Once a decision was sent, no coordinator of any term has or reads another.
SentInv ==
    \A d \in Decisions : Sent(d) =>
      /\ step \notin EarlySteps
      /\ decision \in {d, "none"}
      /\ \A i \in Writes(Coord) : hist[Coord][i].doc \in {d, "none"}

\* A coordinator, a document or a request says commit.
CommitDecided ==
    \/ decision = "commit"
    \/ Sent("commit")
    \/ \E i \in Writes(Coord) : hist[Coord][i].doc = "commit"

\* Where a commit is decided, every vote is majority-committed.
CommitInv ==
    CommitDecided => \A s \in Shards : Majority(s).part \in {"prepared", "committed"}

\* What the client was told is decided: a commit was sent, an abort was sent or
\* is certain.  Who waits for the local participant has aborted it unless it
\* was prepared.
AnswersInv ==
    /\ "commit" \in answers => Sent("commit")
    /\ "abort" \in answers => Sent("abort") \/ \E s \in Shards : Refused(s)
    /\ awaitsExit => ~active[Coord]

\* The inductive invariant.
IInv ==
    /\ TypeOK
    /\ PartsInv
    /\ DocsInv
    /\ CoordInv
    /\ SentInv
    /\ OneDecisionIsSent
    /\ CommitInv
    /\ AnswersInv

-----------------------------------------------------------------------------
\* Every shard has a first and a last write, and all of them are entries.
LEMMA HistType ==
    ASSUME TypeOK, NEW s \in Shards
    PROVE  /\ hist[s] \in Seq(Entry)
           /\ Len(hist[s]) \in Nat \ {0}
           /\ 1 \in Writes(s) /\ Len(hist[s]) \in Writes(s)
           /\ \A i \in Writes(s) : hist[s][i] \in Entry
           /\ Last(s) \in Entry /\ Majority(s) \in Entry
  <1>1. hist[s] \in Seq(Entry) /\ hist[s] # <<>>
    BY DEF TypeOK
  <1>2. Len(hist[s]) \in Nat /\ Len(hist[s]) # 0
    BY <1>1
  <1>3. \A i \in Writes(s) : hist[s][i] \in Entry
    BY <1>1 DEF Writes
  <1> QED
    BY <1>1, <1>2, <1>3 DEF Writes, Last, Majority

\* A write of a primary (WritePart, WriteDoc) appends one entry.
LEMMA WriteEffect ==
    ASSUME TypeOK, NEW s \in Shards, NEW e \in Entry,
           hist' = [hist EXCEPT ![s] = Append(@, e)]
    PROVE  /\ hist' \in [Shards -> Seq(Entry)]
           /\ \A t \in Shards : hist'[t] # <<>>
           /\ Len(hist'[s]) = Len(hist[s]) + 1
           /\ \A i \in Writes(s) : hist'[s][i] = hist[s][i]
           /\ hist'[s][Len(hist[s]) + 1] = e
           /\ Last(s)' = e
           /\ \A t \in Shards \ {s} : hist'[t] = hist[t]
           /\ \A t \in Shards : Majority(t)' = Majority(t)
  <1>1. hist[s] \in Seq(Entry) /\ Len(hist[s]) \in Nat \ {0} /\ hist \in [Shards -> Seq(Entry)]
    BY HistType DEF TypeOK
  <1>2. hist'[s] = Append(hist[s], e) /\ \A t \in Shards \ {s} : hist'[t] = hist[t]
    BY <1>1
  <1>3. /\ hist'[s] \in Seq(Entry)
        /\ Len(hist'[s]) = Len(hist[s]) + 1
        /\ \A i \in 1 .. Len(hist[s]) : hist'[s][i] = hist[s][i]
        /\ hist'[s][Len(hist[s]) + 1] = e
    BY <1>1, <1>2
  <1>4. hist' \in [Shards -> Seq(Entry)]
    BY <1>1, <1>2, <1>3
  <1>5. \A t \in Shards : hist'[t] # <<>>
    <2>1. hist'[s] # <<>>
      <3>1. Len(hist'[s]) # 0
        BY <1>1, <1>3
      <3> QED
        BY <3>1, <1>3, EmptySeq
    <2> QED
      BY <1>2, <2>1 DEF TypeOK
  <1>6. \A t \in Shards : Majority(t)' = Majority(t)
    BY <1>1, <1>2, <1>3 DEF Majority
  <1> QED
    BY <1>1, <1>2, <1>3, <1>4, <1>5, <1>6 DEF Writes, Last

\* The rest of a sequence of two or more entries.
LEMMA TailFacts ==
    ASSUME NEW q \in Seq(Entry), Len(q) > 1
    PROVE  /\ Tail(q) \in Seq(Entry)
           /\ Tail(q) # <<>>
           /\ Len(Tail(q)) = Len(q) - 1
           /\ \A i \in 1 .. Len(q) - 1 : Tail(q)[i] = q[i + 1]
  <1>1. Tail(q) \in Seq(Entry) /\ Len(Tail(q)) = Len(q) - 1 /\ Len(q) \in Nat
    OBVIOUS
  <1>2. Len(Tail(q)) # 0
    BY <1>1
  <1>3. Tail(q) # <<>>
    BY <1>2, EmptySeq
  <1>4. \A i \in 1 .. Len(q) - 1 : Tail(q)[i] = q[i + 1]
    OBVIOUS
  <1> QED
    BY <1>1, <1>3, <1>4

\* AdvanceMajority forgets the first write, and the second takes its place.
LEMMA AdvanceEffect ==
    ASSUME TypeOK, NEW s \in Shards, Len(hist[s]) > 1,
           hist' = [hist EXCEPT ![s] = Tail(@)]
    PROVE  /\ hist' \in [Shards -> Seq(Entry)]
           /\ \A t \in Shards : hist'[t] # <<>>
           /\ Len(hist'[s]) = Len(hist[s]) - 1
           /\ \A i \in Writes(s)' : i + 1 \in Writes(s) /\ hist'[s][i] = hist[s][i + 1]
           /\ \A t \in Shards \ {s} : hist'[t] = hist[t]
           /\ \A t \in Shards : Last(t)' = Last(t)
  <1>1. hist[s] \in Seq(Entry) /\ Len(hist[s]) \in Nat \ {0} /\ hist \in [Shards -> Seq(Entry)]
    BY HistType DEF TypeOK
  <1>2. hist'[s] = Tail(hist[s]) /\ \A t \in Shards \ {s} : hist'[t] = hist[t]
    BY <1>1
  <1>3. /\ hist'[s] \in Seq(Entry)
        /\ Len(hist'[s]) = Len(hist[s]) - 1
        /\ \A i \in 1 .. Len(hist[s]) - 1 : hist'[s][i] = hist[s][i + 1]
    BY <1>1, <1>2
  <1>4. hist' \in [Shards -> Seq(Entry)]
    BY <1>1, <1>2, <1>3
  <1>5. \A t \in Shards : hist'[t] # <<>>
    <2>1. hist'[s] # <<>>
      BY <1>1, <1>2, TailFacts
    <2> QED
      BY <1>2, <2>1 DEF TypeOK
  <1>6. \A t \in Shards : Last(t)' = Last(t)
    BY <1>1, <1>2, <1>3 DEF Last
  <1> QED
    BY <1>1, <1>2, <1>3, <1>4, <1>5, <1>6 DEF Writes

\* Failover keeps a non-empty prefix, so the first write.
LEMMA FailoverEffect ==
    ASSUME TypeOK, NEW s \in Shards, NEW n \in 1 .. Len(hist[s]),
           hist' = [hist EXCEPT ![s] = SubSeq(@, 1, n)]
    PROVE  /\ hist' \in [Shards -> Seq(Entry)]
           /\ \A t \in Shards : hist'[t] # <<>>
           /\ Len(hist'[s]) = n
           /\ \A i \in Writes(s)' : i \in Writes(s) /\ hist'[s][i] = hist[s][i]
           /\ \A t \in Shards \ {s} : hist'[t] = hist[t]
           /\ \A t \in Shards : Majority(t)' = Majority(t)
  <1>1. hist[s] \in Seq(Entry) /\ Len(hist[s]) \in Nat \ {0} /\ hist \in [Shards -> Seq(Entry)]
    BY HistType DEF TypeOK
  <1>2. hist'[s] = SubSeq(hist[s], 1, n) /\ \A t \in Shards \ {s} : hist'[t] = hist[t]
    BY <1>1
  <1>3. /\ hist'[s] \in Seq(Entry)
        /\ Len(hist'[s]) = n
        /\ \A i \in 1 .. n : i \in 1 .. Len(hist[s]) /\ hist'[s][i] = hist[s][i]
    BY <1>1, <1>2
  <1>4. hist' \in [Shards -> Seq(Entry)]
    BY <1>1, <1>2, <1>3
  <1>5. \A t \in Shards : hist'[t] # <<>>
    <2>1. hist'[s] # <<>>
      <3>1. Len(hist'[s]) # 0
        BY <1>1, <1>3
      <3> QED
        BY <3>1, EmptySeq
    <2> QED
      BY <1>2, <2>1 DEF TypeOK
  <1>6. \A t \in Shards : Majority(t)' = Majority(t)
    BY <1>1, <1>2, <1>3 DEF Majority
  <1> QED
    BY <1>1, <1>2, <1>3, <1>4, <1>5, <1>6 DEF Writes

-----------------------------------------------------------------------------
\* The open transaction of Init satisfies the invariant.
LEMMA InitEstablishes == Init => IInv
  <1> SUFFICES ASSUME Init PROVE IInv
    OBVIOUS
  <1>1. TypeOK
    <2>1. \A s \in Shards : hist[s] = <<[part |-> "none", doc |-> "none"]>>
      BY DEF Init
    <2>2. [part |-> "none", doc |-> "none"] \in Entry
      BY DEF Entry
    <2>3. <<[part |-> "none", doc |-> "none"]>> \in Seq(Entry)
      BY <2>2
    <2>4. hist \in [Shards -> Seq(Entry)] /\ \A s \in Shards : hist[s] # <<>>
      BY <2>1, <2>3 DEF Init
    <2>5. active \in [Shards -> BOOLEAN] /\ recovering \in BOOLEAN /\ awaitsExit \in BOOLEAN
      BY Zenon DEF Init
    <2> QED
      BY <2>4, <2>5, FailoversAssumption DEF Init, TypeOK, Steps, Decisions
  <1>2. \A s \in Shards : /\ Len(hist[s]) = 1
                          /\ hist[s][1] = [part |-> "none", doc |-> "none"]
    BY DEF Init
  <1>3. \A s \in Shards : \A i \in Writes(s) : hist[s][i] = [part |-> "none", doc |-> "none"]
    BY <1>2 DEF Writes
  <1>4. PartsInv
    BY <1>3 DEF PartsInv, PartInv, CanFollow
  <1>5. DocsInv
    BY <1>3, CoordAssumption DEF Init, DocsInv, Decisions
  <1>6. CoordInv
    BY <1>3, CoordAssumption DEF Init, CoordInv, Decisions, EarlySteps, AckSteps
  <1>7. SentInv /\ OneDecisionIsSent
    BY DEF Init, SentInv, Sent, OneDecisionIsSent
  <1>8. CommitInv
    BY <1>3, CoordAssumption DEF Init, CommitInv, CommitDecided, Sent
  <1>9. AnswersInv
    BY DEF Init, AnswersInv
  <1> QED
    BY <1>1, <1>4, <1>5, <1>6, <1>7, <1>8, <1>9 DEF IInv

\* Steps of the coordinator that write and send nothing.
QuietStep ==
    \/ RunCommit
    \/ CancelIfCommitNotYetStarted
    \/ \E s \in Shards : ReceiveVoteCommit(s) \/ ReceiveVoteAbort(s) \/ ReceiveAck(s)
    \/ DeadlineWhilePreparing
    \/ DeadlineWhileWriting
    \/ Recover

\* Votes, acks, deadlines and recovery keep the invariant.
LEMMA QuietStepPreserves ==
    ASSUME IInv, QuietStep
    PROVE  IInv'
  <1> USE DEF IInv, Decisions
  <1>0. /\ hist' = hist /\ active' = active /\ msgs' = msgs
        /\ answers' = answers /\ awaitsExit' = awaitsExit /\ failovers' = failovers
    BY DEF QuietStep, RunCommit, CancelIfCommitNotYetStarted, ReceiveVoteCommit,
           ReceiveVoteAbort, ReceiveAck, DeadlineWhilePreparing, DeadlineWhileWriting, Recover
  <1>1. PartsInv'
    BY <1>0 DEF PartsInv, PartInv, Writes, Sent
  <1>2. OneDecisionIsSent'
    BY <1>0 DEF OneDecisionIsSent
  <1>3. AnswersInv'
    BY <1>0 DEF AnswersInv, Refused, Writes, Sent
  <1>4. \A s \in Shards : Settled(s)' = Settled(s)
    BY <1>0 DEF Settled, Writes
  <1>5. AllSettled' = AllSettled
    BY <1>4 DEF AllSettled
  <1> USE DEF EarlySteps, AckSteps, Steps
  <1>7. CASE RunCommit \/ CancelIfCommitNotYetStarted \/ DeadlineWhileWriting
    <2>0. step \in EarlySteps /\ step' \in {"none", "kWritingParticipantList"}
          /\ decision' = decision /\ replied' = replied /\ recovering' = recovering
      BY <1>7 DEF RunCommit, CancelIfCommitNotYetStarted, DeadlineWhileWriting
    <2>1. TypeOK'
      BY <1>0, <2>0 DEF TypeOK
    <2>2. DocsInv' /\ CommitInv'
      BY <1>0, <1>5, <2>0 DEF DocsInv, CommitInv, CommitDecided, Writes, Sent, Majority
    <2>3. SentInv'
      BY <1>0, <2>0 DEF SentInv, Sent
    <2>4. CoordInv'
      BY <1>0, <2>0 DEF CoordInv, Writes, SentInv, Sent
    <2> QED
      BY <1>1, <1>2, <1>3, <2>1, <2>2, <2>3, <2>4
  <1>8. ASSUME NEW s \in Shards, ReceiveVoteCommit(s)
        PROVE  IInv'
    <2>0. /\ step = "kWaitingForVotes" /\ s \notin replied
          /\ Len(hist[s]) = 1 /\ Last(s).part = "prepared"
          /\ replied' = replied \cup {s}
          /\ recovering' = recovering
          /\ \/ replied' = Shards /\ step' = "kWritingDecision" /\ decision' = "commit"
             \/ step' = step /\ decision' = decision
      BY <1>8 DEF ReceiveVoteCommit, Answers
    <2>1. TypeOK'
      BY <1>0, <2>0 DEF TypeOK
    <2>2. Majority(s).part = "prepared"
      BY <2>0 DEF Last, Majority
    <2>3. \A t \in replied' : Majority(t).part # "none"
      BY <2>0, <2>2 DEF CoordInv
    <2>4. \A d \in Decisions : ~Sent(d)
      BY <2>0 DEF SentInv
    <2>5. \A t \in Shards : Majority(t).part \in {"none", "prepared"}
      <3> SUFFICES ASSUME NEW t \in Shards PROVE Majority(t).part \in {"none", "prepared"}
        OBVIOUS
      <3>1. Majority(t) \in Entry /\ 1 \in Writes(t)
        BY HistType
      <3>2. Majority(t).part \notin {"committed", "aborted"}
        BY <2>4, <3>1 DEF PartsInv, PartInv, Majority
      <3> QED
        BY <3>1, <3>2 DEF Entry
    <2>6. DocsInv'
      BY <1>0, <1>5, <2>0 DEF DocsInv, CoordInv, Writes
    <2>7. SentInv'
      BY <1>0, <2>4 DEF SentInv, Sent
    <2>8. CommitInv'
      BY <1>0, <2>0, <2>3, <2>4, <2>5 DEF CommitInv, CommitDecided, CoordInv, Majority, Writes, Sent
    <2>9. CoordInv'
      BY <1>0, <2>0, <2>3 DEF CoordInv, Writes, Majority
    <2> QED
      BY <1>1, <1>2, <1>3, <2>1, <2>6, <2>7, <2>8, <2>9
  <1>9. ASSUME \/ DeadlineWhilePreparing
               \/ \E s \in Shards : ReceiveVoteAbort(s)
        PROVE  IInv'
    <2>0. /\ step = "kWaitingForVotes" /\ step' = "kWritingDecision" /\ decision' = "abort"
          /\ replied' = replied /\ recovering' = recovering
      BY <1>9 DEF DeadlineWhilePreparing, ReceiveVoteAbort
    <2>1. TypeOK'
      BY <1>0, <2>0 DEF TypeOK
    <2>2. \A d \in Decisions : ~Sent(d)
      BY <2>0 DEF SentInv
    <2>3. DocsInv' /\ SentInv'
      BY <1>0, <1>5, <2>0, <2>2 DEF DocsInv, CoordInv, SentInv, Writes, Sent
    <2>4. CommitInv'
      BY <1>0, <2>0, <2>2 DEF CommitInv, CommitDecided, CoordInv, Writes, Sent
    <2>5. CoordInv'
      BY <1>0, <2>0 DEF CoordInv
    <2> QED
      BY <1>1, <1>2, <1>3, <2>1, <2>3, <2>4, <2>5
  <1>10. ASSUME NEW s \in Shards, ReceiveAck(s)
         PROVE  IInv'
    <2>0. /\ step = "kWaitingForDecisionAcks"
          /\ Len(hist[s]) = 1 /\ ~InProgress(s)
          /\ replied' = replied \cup {s}
          /\ recovering' = recovering /\ decision' = decision
          /\ \/ replied' = Shards /\ step' = "kDeletingCoordinatorDoc"
             \/ step' = step
      BY <1>10 DEF ReceiveAck, Answers
    <2>1. TypeOK'
      BY <1>0, <2>0 DEF TypeOK
    <2>2. Settled(s)
      BY <2>0 DEF Settled, InProgress, Last, Writes
    <2>3. DocsInv' /\ SentInv' /\ CommitInv'
      BY <1>0, <1>5, <2>0 DEF DocsInv, SentInv, CommitInv, CommitDecided, Majority, Writes, Sent
    <2>4. CoordInv'
      BY <1>0, <1>4, <2>0, <2>2 DEF CoordInv, Sent, TypeOK
    <2> QED
      BY <1>1, <1>2, <1>3, <2>1, <2>3, <2>4
  <1>11. CASE Recover
    <2> DEFINE doc == Last(Coord).doc
    <2>0. /\ recovering /\ Len(hist[Coord]) = 1 /\ ~recovering'
          /\ recovering' \in BOOLEAN
          /\ replied' = replied
      BY <1>11 DEF Recover
    <2>1. \A i \in Writes(Coord) : hist[Coord][i].doc = doc
      BY <2>0 DEF Writes, Last
    <2>2. doc \in {"none", "participants", "commit", "abort"} /\ 1 \in Writes(Coord)
      BY HistType, CoordAssumption DEF Entry
    <2>3. \/ doc = "none" /\ step' = "none" /\ decision' = "none"
          \/ doc = "participants" /\ step' = "kWritingParticipantList" /\ decision' = "none"
          \/ doc \in Decisions /\ step' = "kWritingDecision" /\ decision' = doc
      BY <1>11, <2>2 DEF Recover
    <2> HIDE DEF doc
    <2>4. TypeOK'
      BY <1>0, <2>0, <2>3 DEF TypeOK
    <2>5. DocsInv'
      BY <1>0, <1>5, <2>0, <2>1, <2>3 DEF DocsInv, Writes
    <2>6. SentInv'
      BY <1>0, <2>1, <2>2, <2>3 DEF SentInv, Sent, Writes
    <2>7. CommitInv'
      BY <1>0, <2>1, <2>2, <2>3 DEF CommitInv, CommitDecided, Sent, Writes, Majority
    <2>8. Sent("commit") \/ Sent("abort") => msgs # {}
      BY DEF Sent
    <2>9. CoordInv'
      BY <1>0, <1>5, <2>0, <2>1, <2>2, <2>3, <2>8 DEF CoordInv, DocsInv, Sent, Writes
    <2> QED
      BY <1>1, <1>2, <1>3, <2>4, <2>5, <2>6, <2>7, <2>9
  <1> QED
    BY <1>7, <1>8, <1>9, <1>10, <1>11 DEF QuietStep

-----------------------------------------------------------------------------
\* The two kinds of write, and what a new entry holds.
LEMMA PartWritten ==
    ASSUME TypeOK, NEW s \in Shards,
           NEW p \in {"none", "prepared", "committed", "aborted"}, WritePart(s, p)
    PROVE  /\ hist' \in [Shards -> Seq(Entry)]
           /\ \A t \in Shards : hist'[t] # <<>>
           /\ Len(hist'[s]) = Len(hist[s]) + 1
           /\ \A i \in Writes(s) : hist'[s][i] = hist[s][i]
           /\ hist'[s][Len(hist[s]) + 1].part = p
           /\ hist'[s][Len(hist[s]) + 1].doc = Last(s).doc
           /\ \A t \in Shards \ {s} : hist'[t] = hist[t]
           /\ \A t \in Shards : Majority(t)' = Majority(t)
  <1> DEFINE e == [Last(s) EXCEPT !.part = p]
  <1>1. Last(s) \in Entry
    BY HistType
  <1>2. e \in Entry /\ e.part = p /\ e.doc = Last(s).doc
    BY <1>1 DEF Entry
  <1>3. hist' = [hist EXCEPT ![s] = Append(@, e)]
    BY DEF WritePart
  <1> HIDE DEF e
  <1> QED
    BY <1>2, <1>3, WriteEffect

\* What a write of the coordinator's document does to the histories.
LEMMA DocWritten ==
    ASSUME TypeOK, NEW d \in {"none", "participants"} \cup Decisions, WriteDoc(d)
    PROVE  /\ hist' \in [Shards -> Seq(Entry)]
           /\ \A t \in Shards : hist'[t] # <<>>
           /\ Len(hist'[Coord]) = Len(hist[Coord]) + 1
           /\ \A i \in Writes(Coord) : hist'[Coord][i] = hist[Coord][i]
           /\ hist'[Coord][Len(hist[Coord]) + 1].part = Last(Coord).part
           /\ hist'[Coord][Len(hist[Coord]) + 1].doc = d
           /\ \A t \in Shards \ {Coord} : hist'[t] = hist[t]
           /\ \A t \in Shards : Majority(t)' = Majority(t)
  <1> DEFINE e == [Last(Coord) EXCEPT !.doc = d]
  <1>1. Last(Coord) \in Entry
    BY HistType, CoordAssumption
  <1>2. e \in Entry /\ e.doc = d /\ e.part = Last(Coord).part
    BY <1>1 DEF Entry
  <1>3. hist' = [hist EXCEPT ![Coord] = Append(@, e)]
    BY DEF WriteDoc
  <1> HIDE DEF e
  <1> QED
    BY <1>2, <1>3, WriteEffect, CoordAssumption

\* A write appends one index.
LEMMA NewWrite ==
    ASSUME TypeOK, NEW s \in Shards, Len(hist'[s]) = Len(hist[s]) + 1
    PROVE  /\ Writes(s)' = Writes(s) \cup {Len(hist[s]) + 1}
           /\ Len(hist[s]) + 1 \notin Writes(s)
           /\ Len(hist[s]) \in Writes(s)
           /\ \A i \in Writes(s) : i < Len(hist[s]) + 1 /\ i <= Len(hist[s])
           /\ Writes(s)' \subseteq Nat
  <1>1. Len(hist[s]) \in Nat \ {0}
    BY HistType
  <1> QED
    BY <1>1 DEF Writes

\* The states of a participant stay in order when it writes one that may follow.
LEMMA OrderKept ==
    ASSUME TypeOK, PartsInv, NEW s \in Shards,
           Len(hist'[s]) = Len(hist[s]) + 1,
           \A i \in Writes(s) : hist'[s][i] = hist[s][i],
           CanFollow(Last(s).part, hist'[s][Len(hist[s]) + 1].part)
    PROVE  \A i, j \in Writes(s)' :
             i < j => CanFollow(hist'[s][i].part, hist'[s][j].part)
  <1> DEFINE n == Len(hist[s])
  <1>1. n \in Nat /\ n \in Writes(s)
    BY HistType
  <1>2. Last(s) = hist[s][n]
    BY DEF Last
  <1> SUFFICES ASSUME NEW i \in 1 .. n + 1, NEW j \in 1 .. n + 1, i < j
               PROVE  CanFollow(hist'[s][i].part, hist'[s][j].part)
    BY DEF Writes
  <1> HIDE DEF n
  <1>3. j \in 1 .. n \/ j = n + 1
    BY <1>1
  <1>4. i \in 1 .. n
    BY <1>1
  <1>5. CASE j \in 1 .. n
    BY <1>4, <1>5 DEF PartsInv, PartInv, Writes, n
  <1>6. CASE j = n + 1
    <2>1. hist'[s][i] = hist[s][i] /\ CanFollow(Last(s).part, hist'[s][j].part)
      BY <1>4, <1>6 DEF n, Writes
    <2>2. CASE i = n
      BY <1>2, <2>1, <2>2
    <2>3. CASE i < n
      <3>1. CanFollow(hist[s][i].part, Last(s).part)
        BY <1>1, <1>2, <1>4, <2>3 DEF PartsInv, PartInv, Writes, n
      <3> QED
        BY <2>1, <3>1 DEF CanFollow
    <2> QED
      BY <1>1, <1>4, <2>2, <2>3
  <1> QED
    BY <1>3, <1>5, <1>6

\* What is over on a shard stays over.
LEMMA EndsAreFinal ==
    ASSUME TypeOK, Next, NEW s \in Shards
    PROVE  (Settled(s) => Settled(s)') /\ (Refused(s) => Refused(s)')
  <1>0. Last(s) = hist[s][Len(hist[s])] /\ Len(hist[s]) \in Writes(s)
    BY HistType DEF Last
  <1>1. ASSUME hist'[s] = hist[s], active'[s] => active[s]
        PROVE  (Settled(s) => Settled(s)') /\ (Refused(s) => Refused(s)')
    BY <1>1 DEF Settled, Refused, Writes
  <1>2. ASSUME NEW t \in Shards, Prepare(t) \/ CommitPrepared(t) \/ AbortOnRequest(t)
        PROVE  (Settled(s) => Settled(s)') /\ (Refused(s) => Refused(s)')
    <2>1. CASE t # s
      <3>1. hist'[s] = hist[s] /\ active'[s] = active[s]
        BY <1>2, <2>1 DEF TypeOK, Prepare, CommitPrepared, AbortOnRequest, WritePart
      <3> QED
        BY <1>1, <3>1
    <2>2. CASE t = s
      <3>1. active[s] \/ Last(s).part = "prepared"
        BY <1>2, <2>2 DEF Prepare, CommitPrepared, AbortOnRequest, InProgress
      <3> QED
        BY <1>0, <3>1 DEF Settled, Refused
    <2> QED
      BY <2>1, <2>2
  <1>3. ASSUME NEW d \in {"none", "participants"} \cup Decisions, WriteDoc(d), active' = active
        PROVE  (Settled(s) => Settled(s)') /\ (Refused(s) => Refused(s)')
    <2>1. CASE s # Coord
      BY <1>1, <1>3, <2>1, DocWritten
    <2>2. CASE s = Coord
      BY <1>0, <1>3, <2>2, DocWritten, NewWrite DEF Settled, Refused
    <2> QED
      BY <2>1, <2>2
  <1>4. ASSUME NEW t \in Shards, AdvanceMajority(t)
        PROVE  (Settled(s) => Settled(s)') /\ (Refused(s) => Refused(s)')
    <2>1. CASE s # t
      BY <1>1, <1>4, <2>1, AdvanceEffect DEF AdvanceMajority
    <2>2. CASE s = t
      <3>1. \A i \in Writes(s)' : i + 1 \in Writes(s) /\ hist'[s][i] = hist[s][i + 1]
        BY <1>4, <2>2, AdvanceEffect DEF AdvanceMajority
      <3> QED
        BY <1>4, <3>1 DEF AdvanceMajority, Settled, Refused
    <2> QED
      BY <2>1, <2>2
  <1>5. ASSUME NEW t \in Shards, Failover(t)
        PROVE  (Settled(s) => Settled(s)') /\ (Refused(s) => Refused(s)')
    <2>0. PICK n \in 1 .. Len(hist[t]) : hist' = [hist EXCEPT ![t] = SubSeq(@, 1, n)]
      BY <1>5 DEF Failover
    <2>1. active'[s] => active[s]
      BY <1>5 DEF Failover, TypeOK
    <2>2. CASE s # t
      BY <1>1, <2>0, <2>1, <2>2, FailoverEffect
    <2>3. CASE s = t
      <3>1. \A i \in Writes(s)' : i \in Writes(s) /\ hist'[s][i] = hist[s][i]
        BY <2>0, <2>3, FailoverEffect
      <3> QED
        BY <2>1, <3>1 DEF Settled, Refused
    <2> QED
      BY <2>2, <2>3
  <1>6. CASE QuietStep \/ SendPrepare \/ SendDecision \/ DeleteDocFails \/ AnswerFromLocalParticipant
    <2>1. hist' = hist /\ active' = active
      BY <1>6 DEF SendPrepare, SendDecision, DeleteDocFails, AnswerFromLocalParticipant,
           QuietStep, RunCommit, CancelIfCommitNotYetStarted, ReceiveVoteCommit,
           ReceiveVoteAbort, ReceiveAck, DeadlineWhilePreparing, DeadlineWhileWriting, Recover
    <2> QED
      BY <1>1, <2>1
  <1>7. CASE RecoverFromLocalParticipant \/ \E t \in Shards : AbortUnprepared(t)
    <2>1. hist' = hist /\ (active'[s] => active[s])
      BY <1>7 DEF RecoverFromLocalParticipant, AbortUnprepared, TypeOK
    <2> QED
      BY <1>1, <2>1
  <1>8. CASE WriteParticipantList \/ WriteDecision \/ DeleteDoc
    <2>1. active' = active /\ \E d \in {"none", "participants"} \cup Decisions : WriteDoc(d)
      BY <1>8 DEF WriteParticipantList, WriteDecision, DeleteDoc, TypeOK
    <2> QED
      BY <1>3, <2>1
  <1> QED
    BY <1>2, <1>4, <1>5, <1>6, <1>7, <1>8 DEF Next, CoordinatorStep, ParticipantStep, QuietStep

\* A transaction that is not open any more is never opened again.
LEMMA NeverReopened ==
    ASSUME TypeOK, Next, NEW s \in Shards
    PROVE  active'[s] => active[s]
  <1>1. CASE \/ QuietStep \/ SendPrepare \/ SendDecision \/ DeleteDocFails
             \/ WriteParticipantList \/ WriteDecision \/ DeleteDoc
    BY <1>1 DEF SendPrepare, SendDecision, DeleteDocFails, WriteParticipantList, WriteDecision,
         DeleteDoc, QuietStep, RunCommit, CancelIfCommitNotYetStarted, ReceiveVoteCommit,
         ReceiveVoteAbort, ReceiveAck, DeadlineWhilePreparing, DeadlineWhileWriting, Recover
  <1>2. CASE RecoverFromLocalParticipant \/ AnswerFromLocalParticipant
    BY <1>2 DEF RecoverFromLocalParticipant, AnswerFromLocalParticipant, TypeOK
  <1>3. CASE \E t \in Shards : \/ ParticipantStep(t) \/ AbortUnprepared(t)
                               \/ AdvanceMajority(t) \/ Failover(t)
    BY <1>3 DEF ParticipantStep, Prepare, CommitPrepared, AbortOnRequest, AbortUnprepared,
         AdvanceMajority, Failover, TypeOK
  <1> QED
    BY <1>1, <1>2, <1>3 DEF Next, CoordinatorStep, QuietStep

\* What the client was told stays true when it is told nothing new.
LEMMA AnswersKept ==
    ASSUME TypeOK, Next, AnswersInv, msgs \subseteq msgs', answers' = answers,
           awaitsExit' => awaitsExit
    PROVE  AnswersInv'
  <1>1. \A s \in Shards : (Refused(s) => Refused(s)') /\ (active'[s] => active[s])
    BY EndsAreFinal, NeverReopened
  <1>2. (Sent("commit") => Sent("commit")') /\ (Sent("abort") => Sent("abort")')
    BY DEF Sent
  <1> QED
    BY <1>1, <1>2, CoordAssumption DEF AnswersInv

-----------------------------------------------------------------------------
\* sendPrepare, sendCommit and sendAbort keep the invariant: what they wait for
\* excludes that another decision was or will be sent.
LEMMA SendPreserves ==
    ASSUME IInv, Next, SendPrepare \/ SendDecision
    PROVE  IInv'
  <1> USE DEF IInv, Decisions
  <1>0. /\ hist' = hist /\ active' = active /\ failovers' = failovers
        /\ answers' = answers /\ awaitsExit' = awaitsExit
        /\ decision' = decision /\ recovering' = recovering /\ replied' = {}
    BY DEF SendPrepare, SendDecision
  <1>1. /\ msgs \subseteq msgs' /\ msgs' # {}
        /\ \A r : Sent(r) => Sent(r)'
    <2>1. msgs \subseteq msgs'
      BY DEF SendPrepare, SendDecision
    <2>2. <<"prepare", Coord>> \in msgs' \/ <<decision, Coord>> \in msgs'
      BY CoordAssumption DEF SendPrepare, SendDecision
    <2> QED
      BY <2>1, <2>2 DEF Sent
  <1>2. PartsInv'
    BY <1>0, <1>1 DEF PartsInv, PartInv, Writes
  <1>3. \A s \in Shards : Majority(s)' = Majority(s) /\ Settled(s)' = Settled(s) /\ Refused(s)' = Refused(s)
    BY <1>0 DEF Majority, Settled, Refused, Writes
  <1>4. AllSettled' = AllSettled
    BY <1>3 DEF AllSettled
  <1>5. AnswersInv'
    BY <1>0, <1>1, AnswersKept
  <1>6. Majority(Coord).doc # "none"
    BY DEF SendPrepare, SendDecision, CoordInv, EarlySteps
  <1>7. DocsInv'
    <2>1. ASSUME NEW i \in Writes(Coord), hist[Coord][i].doc = "none"
          PROVE  AllSettled
      <3>1. 1 \in Writes(Coord) /\ i # 1
        BY <1>6, <2>1, HistType, CoordAssumption DEF Majority
      <3>2. 1 < i
        BY <3>1 DEF Writes
      <3> QED
        BY <1>6, <2>1, <3>1, <3>2 DEF DocsInv, Majority
    <2> QED
      BY <1>0, <1>4, <2>1 DEF DocsInv, Writes
  <1>8. CASE SendPrepare
    <2>1. \A d \in Decisions : Sent(d)' = Sent(d)
      BY <1>8 DEF SendPrepare, Sent
    <2>2. TypeOK'
      BY <1>0, <1>8 DEF SendPrepare, TypeOK, Steps
    <2>3. OneDecisionIsSent'
      BY <1>8 DEF OneDecisionIsSent, SendPrepare
    <2>4. step = "waitParticipantList" /\ step' = "kWaitingForVotes"
      BY <1>8 DEF SendPrepare
    <2>5. CoordInv' /\ SentInv'
      BY <1>0, <2>1, <2>4 DEF CoordInv, SentInv, EarlySteps, AckSteps, Writes
    <2>6. CommitInv'
      BY <1>0, <1>3, <2>1 DEF CommitInv, CommitDecided, Writes
    <2> QED
      BY <1>2, <1>5, <1>7, <2>2, <2>3, <2>5, <2>6
  <1>9. CASE SendDecision
    <2>1. step = "waitDecision" /\ step' = "kWaitingForDecisionAcks" /\ Majority(Coord).doc = decision
      BY <1>9 DEF SendDecision
    <2>2. decision \in Decisions
      BY <2>1 DEF CoordInv, EarlySteps
    <2>3. \A d \in Decisions : Sent(d)' <=> Sent(d) \/ d = decision
      BY <1>9, <2>2, CoordAssumption DEF SendDecision, Sent
    <2>4. 1 \in Writes(Coord) /\ hist[Coord][1].doc = decision
      BY <2>1, HistType, CoordAssumption DEF Majority
    <2>5. \A d \in Decisions : Sent(d) => d = decision
      BY <2>2, <2>4 DEF SentInv
    <2>6. TypeOK'
      BY <1>0, <1>9, <2>2 DEF SendDecision, TypeOK, Steps
    <2>7. OneDecisionIsSent'
      <3>1. ~(Sent("commit")' /\ Sent("abort")')
        BY <2>3, <2>5
      <3> QED
        BY <3>1 DEF OneDecisionIsSent, Sent
    <2>8. SentInv'
      <3>1. \A i \in Writes(Coord) : i = 1 \/ 1 < i
        BY DEF Writes
      <3>2. \A i \in Writes(Coord) : hist[Coord][i].doc \in {decision, "none"}
        BY <2>2, <2>4, <3>1 DEF DocsInv
      <3> QED
        BY <1>0, <2>1, <2>2, <2>3, <2>5, <3>2 DEF SentInv, EarlySteps, Writes
    <2>9. CommitInv'
      BY <1>0, <1>3, <2>3 DEF CommitInv, CommitDecided, Writes
    <2>10. CoordInv'
      BY <1>0, <2>1, <2>2, <2>3 DEF CoordInv, EarlySteps, AckSteps
    <2> QED
      BY <1>2, <1>5, <1>7, <2>6, <2>7, <2>8, <2>9, <2>10
  <1> QED
    BY <1>8, <1>9

\* Aborting an unprepared participant, on its own or for a recovering router,
\* keeps the invariant, and the router is told what holds.
LEMMA LocalAbortPreserves ==
    ASSUME IInv, Next,
           \/ RecoverFromLocalParticipant
           \/ AnswerFromLocalParticipant
           \/ \E s \in Shards : AbortUnprepared(s)
    PROVE  IInv'
  <1> USE DEF IInv, Decisions
  <1>0. hist' = hist /\ UNCHANGED <<step, decision, replied, recovering, msgs, failovers>>
    BY DEF RecoverFromLocalParticipant, AnswerFromLocalParticipant, AbortUnprepared, coordVars
  <1>1. active' \in [Shards -> BOOLEAN] /\ \A s \in Shards : active'[s] => active[s]
    BY DEF RecoverFromLocalParticipant, AnswerFromLocalParticipant, AbortUnprepared, TypeOK
  <1>2. \A s \in Shards : Majority(s)' = Majority(s) /\ (Settled(s) => Settled(s)') /\ (Refused(s) => Refused(s)')
    BY <1>0, EndsAreFinal DEF Majority
  <1>3. AllSettled => AllSettled'
    BY <1>2 DEF AllSettled
  <1>4. PartsInv'
    BY <1>0, <1>1 DEF PartsInv, PartInv, Writes, Sent
  <1>5. DocsInv' /\ SentInv' /\ CommitInv' /\ OneDecisionIsSent'
    <2>1. (\A r : Sent(r)' <=> Sent(r)) /\ (\A t \in Shards : Writes(t)' = Writes(t))
      BY <1>0 DEF Sent, Writes
    <2>2. DocsInv'
      BY <1>0, <1>3 DEF DocsInv, Writes
    <2>3. SentInv'
      BY <1>0, <2>1, CoordAssumption DEF SentInv
    <2>4. CommitInv'
      <3>1. CommitDecided' <=> CommitDecided
        BY <1>0, <2>1, CoordAssumption DEF CommitDecided
      <3> QED
        BY <1>0, <1>2, <1>3, <2>1, <3>1 DEF CommitInv
    <2>5. OneDecisionIsSent'
      BY <1>0 DEF OneDecisionIsSent
    <2> QED
      BY <2>2, <2>3, <2>4, <2>5
  <1>6. CoordInv'
    BY <1>0, <1>2, <1>3 DEF CoordInv, Writes, Sent, TypeOK
  <1>7. answers' \subseteq Decisions /\ awaitsExit' \in BOOLEAN
    <2>1. answers' \subseteq Decisions
      BY DEF RecoverFromLocalParticipant, AnswerFromLocalParticipant, LocalOutcome, AbortUnprepared, TypeOK
    <2>2. awaitsExit' = awaitsExit \/ awaitsExit' = TRUE
      BY DEF RecoverFromLocalParticipant, AnswerFromLocalParticipant, AbortUnprepared
    <2> QED
      BY <2>1, <2>2, Zenon DEF TypeOK
  <1>8. TypeOK'
    BY <1>0, <1>1, <1>7 DEF TypeOK
  <1>9. /\ Last(Coord) \in Entry
        /\ Last(Coord) = hist[Coord][Len(hist[Coord])]
        /\ Len(hist[Coord]) \in Writes(Coord)
    BY HistType, CoordAssumption DEF Last
  <1>10. Last(Coord).part = "committed" => Sent("commit")
    BY <1>9, CoordAssumption DEF PartsInv, PartInv
  <1>11. AnswersInv'
    <2>1. CASE \E s \in Shards : AbortUnprepared(s)
      BY <1>0, <2>1, AnswersKept DEF AbortUnprepared
    <2>2. CASE RecoverFromLocalParticipant
      <3>1. /\ active'[Coord] = FALSE
            /\ \/ answers' = answers
               \/ Last(Coord).part = "committed" /\ answers' = answers \cup {"commit"}
        BY <2>2, CoordAssumption DEF RecoverFromLocalParticipant, TypeOK
      <3> QED
        BY <1>0, <1>2, <1>10, <3>1 DEF AnswersInv, Sent
    <2>3. CASE AnswerFromLocalParticipant
      <3>1. /\ awaitsExit /\ awaitsExit' = awaitsExit /\ active' = active
            /\ Last(Coord).part # "prepared"
            /\ answers' = answers \cup {LocalOutcome}
        BY <2>3 DEF AnswerFromLocalParticipant
      <3>2. ~active[Coord]
        BY <3>1 DEF AnswersInv
      <3>3. CASE Last(Coord).part = "committed"
        <4>1. answers' = answers \cup {"commit"}
          BY <3>1, <3>3 DEF LocalOutcome
        <4> QED
          BY <1>0, <1>2, <1>10, <3>1, <3>2, <3>3, <4>1 DEF AnswersInv, Sent
      <3>4. CASE Last(Coord).part = "aborted"
        <4>1. Sent("abort")
          BY <1>9, <3>4, CoordAssumption DEF PartsInv, PartInv
        <4>2. answers' = answers \cup {"abort"}
          BY <3>1, <3>4 DEF LocalOutcome
        <4> QED
          BY <1>0, <1>2, <3>1, <3>2, <4>1, <4>2 DEF AnswersInv, Sent
      <3>5. CASE Last(Coord).part = "none"
        <4>1. \A i \in Writes(Coord) : i < Len(hist[Coord]) \/ i = Len(hist[Coord])
          BY HistType, CoordAssumption DEF Writes
        <4>2. \A i \in Writes(Coord) : hist[Coord][i].part = "none"
          BY <1>9, <3>5, <4>1, CoordAssumption DEF PartsInv, PartInv, CanFollow
        <4>3. Refused(Coord)'
          BY <1>0, <3>1, <3>2, <4>2 DEF Refused, Writes
        <4>4. answers' = answers \cup {"abort"}
          BY <3>1, <3>5 DEF LocalOutcome
        <4> QED
          BY <1>0, <1>2, <3>1, <3>2, <4>3, <4>4, CoordAssumption DEF AnswersInv, Sent
      <3> QED
        BY <1>9, <3>1, <3>3, <3>4, <3>5 DEF Entry
    <2> QED
      BY <2>1, <2>2, <2>3
  <1> QED
    BY <1>4, <1>5, <1>6, <1>8, <1>11

\* A coordinator that could not delete its document is done as well: every
\* participant has acked.
LEMMA DeleteDocFailsPreserves ==
    ASSUME IInv, Next, DeleteDocFails
    PROVE  IInv'
  <1> USE DEF IInv, Decisions
  <1>0. /\ UNCHANGED <<hist, active, decision, replied, recovering, msgs, awaitsExit, failovers>>
        /\ step = "kDeletingCoordinatorDoc" /\ step' = "none"
        /\ answers' = answers \cup {decision}
    BY DEF DeleteDocFails
  <1>1. /\ \A s \in Shards : /\ Settled(s)' <=> Settled(s)
                             /\ Refused(s)' <=> Refused(s)
                             /\ Majority(s)' = Majority(s)
        /\ AllSettled' <=> AllSettled
    BY <1>0 DEF AllSettled, Settled, Refused, Writes, Majority
  <1>2. AllSettled /\ decision \in Decisions /\ Sent(decision)
    BY <1>0 DEF CoordInv, AckSteps, EarlySteps, AllSettled
  <1>3. TypeOK'
    BY <1>0, <1>2 DEF TypeOK, Steps
  <1>4. PartsInv' /\ OneDecisionIsSent'
    BY <1>0 DEF PartsInv, PartInv, OneDecisionIsSent, Writes, Sent
  <1>5. DocsInv' /\ SentInv' /\ CommitInv'
    BY <1>0, <1>1 DEF DocsInv, SentInv, CommitInv, CommitDecided, EarlySteps, Writes, Sent
  <1>6. CoordInv'
    BY <1>0, <1>1, <1>2 DEF CoordInv, EarlySteps, AckSteps
  <1>7. AnswersInv'
    BY <1>0, <1>1, <1>2 DEF AnswersInv, Sent
  <1> QED
    BY <1>3, <1>4, <1>5, <1>6, <1>7

\* The document keeps its order when a document that may follow is written.
LEMMA DocsKept ==
    ASSUME TypeOK, DocsInv,
           Len(hist'[Coord]) = Len(hist[Coord]) + 1,
           \A i \in Writes(Coord) : hist'[Coord][i] = hist[Coord][i],
           NEW d, hist'[Coord][Len(hist[Coord]) + 1].doc = d,
           UNCHANGED <<recovering, decision, msgs>>,
           AllSettled => AllSettled',
           \A i \in Writes(Coord) :
             /\ hist[Coord][i].doc \in Decisions => d \in {hist[Coord][i].doc, "none"}
             /\ hist[Coord][i].doc # "none" /\ d = "none" => AllSettled',
           d \in Decisions => recovering \/ decision = d,
           d = "none" /\ msgs # {} => AllSettled'
    PROVE  DocsInv'
  <1> DEFINE n == Len(hist[Coord])
  <1>1. n \in Nat /\ Writes(Coord) = 1 .. n /\ Writes(Coord)' = 1 .. n + 1
    BY HistType, CoordAssumption DEF Writes
  <1> HIDE DEF n
  <1>2. ASSUME NEW i \in 1 .. n + 1, NEW j \in 1 .. n + 1, i < j
        PROVE  /\ hist'[Coord][i].doc \in Decisions =>
                    hist'[Coord][j].doc \in {hist'[Coord][i].doc, "none"}
               /\ hist'[Coord][i].doc # "none" /\ hist'[Coord][j].doc = "none" => AllSettled'
    <2>1. i \in 1 .. n
      BY <1>1, <1>2
    <2>2. CASE j = n + 1
      BY <1>1, <2>1, <2>2 DEF n
    <2>3. CASE j # n + 1
      <3>1. j \in 1 .. n
        BY <1>1, <2>3
      <3> QED
        BY <1>1, <1>2, <2>1, <3>1 DEF DocsInv
    <2> QED
      BY <2>2, <2>3
  <1>3. ASSUME NEW i \in 1 .. n + 1
        PROVE  /\ hist'[Coord][i].doc \in Decisions =>
                    recovering' \/ decision' = hist'[Coord][i].doc
               /\ hist'[Coord][i].doc = "none" /\ msgs' # {} => AllSettled'
    <2>1. CASE i = n + 1
      BY <2>1 DEF n
    <2>2. CASE i # n + 1
      <3>1. i \in 1 .. n
        BY <1>1, <2>2
      <3> QED
        BY <1>1, <3>1 DEF DocsInv
    <2> QED
      BY <2>1, <2>2
  <1> QED
    BY <1>1, <1>2, <1>3 DEF DocsInv

\* The participants' commands keep the invariant, whenever they are delivered.
LEMMA ParticipantPreserves ==
    ASSUME IInv, Next, NEW s \in Shards, ParticipantStep(s)
    PROVE  IInv'
  <1> USE DEF IInv, Decisions
  <1>0. UNCHANGED <<step, decision, replied, recovering, msgs, failovers, answers, awaitsExit>>
    BY DEF ParticipantStep, Prepare, CommitPrepared, AbortOnRequest, coordVars
  <1>1. /\ active' \in [Shards -> BOOLEAN]
        /\ \A t \in Shards : active'[t] => active[t]
        /\ \A t \in Shards \ {s} : active'[t] = active[t]
    BY DEF ParticipantStep, Prepare, CommitPrepared, AbortOnRequest, TypeOK
  <1>2. CASE hist' = hist
    <2>1. \A t \in Shards : Majority(t)' = Majority(t) /\ (Settled(t) => Settled(t)') /\ (Refused(t) => Refused(t)')
      BY <1>2, EndsAreFinal DEF Majority
    <2>2. AllSettled => AllSettled'
      BY <2>1 DEF AllSettled
    <2>3. TypeOK'
      BY <1>0, <1>1, <1>2 DEF TypeOK
    <2>4. PartsInv'
      <3> SUFFICES ASSUME NEW t \in Shards PROVE PartInv(t)'
        BY DEF PartsInv
      <3>1. PartInv(t) /\ (active'[t] => active[t]) /\ Writes(t)' = Writes(t)
        BY <1>1, <1>2 DEF PartsInv, Writes
      <3>2. /\ Sent("commit")' <=> Sent("commit")
            /\ Sent("abort")' <=> Sent("abort")
        BY <1>0 DEF Sent
      <3> QED
        BY <1>0, <1>2, <3>1, <3>2 DEF PartInv
    <2>5. DocsInv'
      BY <1>0, <1>2, <2>2 DEF DocsInv, Writes
    <2>6. SentInv' /\ CommitInv' /\ OneDecisionIsSent'
      BY <1>0, <1>2, <2>1 DEF SentInv, CommitInv, CommitDecided, OneDecisionIsSent, Writes, Sent
    <2>7. CoordInv'
      BY <1>0, <1>2, <2>1, <2>2 DEF CoordInv, Writes, Sent, TypeOK
    <2>8. AnswersInv'
      BY <1>0, AnswersKept
    <2> QED
      BY <2>3, <2>4, <2>5, <2>6, <2>7, <2>8
  <1>3. ASSUME NEW p \in {"prepared", "committed", "aborted"}, WritePart(s, p),
               CanFollow(Last(s).part, p), ~active'[s], msgs # {},
               p = "committed" => Sent("commit"), p = "aborted" => Sent("abort")
        PROVE  IInv'
    <2> DEFINE n == Len(hist[s])
    <2>1. /\ hist' \in [Shards -> Seq(Entry)] /\ \A t \in Shards : hist'[t] # <<>>
          /\ Len(hist'[s]) = n + 1
          /\ \A i \in Writes(s) : hist'[s][i] = hist[s][i]
          /\ hist'[s][n + 1].part = p /\ hist'[s][n + 1].doc = Last(s).doc
          /\ \A t \in Shards \ {s} : hist'[t] = hist[t]
          /\ \A t \in Shards : Majority(t)' = Majority(t)
      BY <1>3, PartWritten
    <2>2. /\ Writes(s)' = Writes(s) \cup {n + 1}
          /\ n \in Writes(s) /\ Last(s) = hist[s][n]
          /\ \A i \in Writes(s) : i < n + 1 /\ i <= n /\ i \in Nat
      BY <2>1, NewWrite DEF Last, Writes
    <2>3. \A i, j \in Writes(s)' : i < j => CanFollow(hist'[s][i].part, hist'[s][j].part)
      BY <1>3, <2>1, OrderKept
    <2> HIDE DEF n
    <2>4. \A t \in Shards : (Settled(t) => Settled(t)') /\ (Refused(t) => Refused(t)')
      BY EndsAreFinal
    <2>5. AllSettled => AllSettled'
      BY <2>4 DEF AllSettled
    <2>6. TypeOK'
      BY <1>0, <1>1, <2>1 DEF TypeOK
    <2>7. PartsInv'
      <3>1. ASSUME NEW t \in Shards, t # s
            PROVE  PartInv(t)'
        <4>1. PartInv(t) /\ hist'[t] = hist[t] /\ active'[t] = active[t]
          BY <1>1, <2>1, <3>1 DEF PartsInv
        <4> QED
          BY <1>0, <4>1 DEF PartInv, Writes, Sent
      <3>2. PartInv(s)'
        BY <1>0, <1>3, <2>1, <2>2, <2>3 DEF PartsInv, PartInv, Sent
      <3> QED
        BY <3>1, <3>2 DEF PartsInv
    <2>8. \A i \in Writes(Coord)' : \E k \in Writes(Coord) : hist'[Coord][i].doc = hist[Coord][k].doc
      BY <2>1, <2>2, CoordAssumption DEF Writes
    <2>9. DocsInv'
      <3>1. CASE s # Coord
        BY <1>0, <2>1, <2>5, <3>1, CoordAssumption DEF DocsInv, Writes
      <3>2. CASE s = Coord
        <4>1. \A i \in Writes(Coord) : i < n \/ i = n
          BY <2>2, <3>2
        <4>2. \A i \in Writes(Coord) :
                /\ hist[Coord][i].doc \in Decisions => Last(Coord).doc \in {hist[Coord][i].doc, "none"}
                /\ hist[Coord][i].doc # "none" /\ Last(Coord).doc = "none" => AllSettled
          BY <2>2, <3>2, <4>1 DEF DocsInv
        <4>3. /\ Last(Coord).doc \in Decisions => recovering \/ decision = Last(Coord).doc
              /\ Last(Coord).doc = "none" /\ msgs # {} => AllSettled
          BY <2>2, <3>2 DEF DocsInv
        <4>4. /\ Len(hist'[Coord]) = Len(hist[Coord]) + 1
              /\ \A i \in Writes(Coord) : hist'[Coord][i] = hist[Coord][i]
              /\ hist'[Coord][Len(hist[Coord]) + 1].doc = Last(Coord).doc
          BY <2>1, <3>2 DEF n
        <4> QED
          BY <1>0, <2>5, <4>2, <4>3, <4>4, DocsKept
      <3> QED
        BY <3>1, <3>2
    <2>10. SentInv' /\ CommitInv' /\ OneDecisionIsSent'
      BY <1>0, <2>1, <2>8 DEF SentInv, CommitInv, CommitDecided, OneDecisionIsSent, Sent
    <2>11. CoordInv'
      BY <1>0, <2>1, <2>4, <2>5, <2>8 DEF CoordInv, Sent, TypeOK
    <2>12. AnswersInv'
      BY <1>0, AnswersKept
    <2> QED
      BY <2>6, <2>7, <2>9, <2>10, <2>11, <2>12
  <1>4. CASE Prepare(s)
    <2>1. <<"prepare", s>> \in msgs /\ active[s] /\ ~active'[s] /\ WritePart(s, "prepared")
      BY <1>4 DEF Prepare, TypeOK
    <2>2. Last(s).part = "none"
      BY <2>1, HistType DEF PartsInv, PartInv, Last
    <2> QED
      BY <1>3, <2>1, <2>2 DEF CanFollow
  <1>5. CASE CommitPrepared(s)
    <2>1. Sent("commit") /\ Last(s).part = "prepared" /\ WritePart(s, "committed") /\ msgs # {}
      BY <1>5 DEF CommitPrepared, Sent
    <2>2. ~active[s] /\ active' = active
      BY <1>5, <2>1, HistType DEF PartsInv, PartInv, Last, CommitPrepared
    <2> QED
      BY <1>3, <2>1, <2>2 DEF CanFollow
  <1>6. CASE AbortOnRequest(s)
    <2>1. Sent("abort") /\ ~active'[s] /\ msgs # {}
      BY <1>6 DEF AbortOnRequest, Sent, TypeOK
    <2>2. CASE Last(s).part = "prepared"
      BY <1>3, <1>6, <2>1, <2>2 DEF CanFollow, AbortOnRequest
    <2>3. CASE Last(s).part # "prepared"
      BY <1>2, <1>6, <2>3 DEF AbortOnRequest
    <2> QED
      BY <2>2, <2>3
  <1> QED
    BY <1>4, <1>5, <1>6 DEF ParticipantStep

\* The three writes of the coordinator document keep the invariant.
LEMMA DocWritePreserves ==
    ASSUME IInv, Next, WriteParticipantList \/ WriteDecision \/ DeleteDoc
    PROVE  IInv'
  <1> USE DEF IInv, Decisions
  <1>0. UNCHANGED <<active, decision, replied, recovering, msgs, awaitsExit, failovers>>
    BY DEF WriteParticipantList, WriteDecision, DeleteDoc
  <1>1. \A s \in Shards : (Settled(s) => Settled(s)') /\ (Refused(s) => Refused(s)')
    BY EndsAreFinal
  <1>2. AllSettled => AllSettled'
    BY <1>1 DEF AllSettled
  <1>3. OneDecisionIsSent'
    BY <1>0 DEF OneDecisionIsSent
  <1>4. ~recovering
    BY DEF WriteParticipantList, WriteDecision, DeleteDoc, CoordInv
  <1>5. ASSUME NEW d \in {"none", "participants"} \cup Decisions, WriteDoc(d),
               \A i \in Writes(Coord) : hist[Coord][i].doc \in Decisions => d \in {hist[Coord][i].doc, "none"},
               d = "none" => AllSettled',
               d \in Decisions => decision = d
        PROVE  /\ hist' \in [Shards -> Seq(Entry)] /\ \A t \in Shards : hist'[t] # <<>>
               /\ \A t \in Shards : Majority(t)' = Majority(t)
               /\ PartsInv' /\ DocsInv' /\ CommitInv'
               /\ \A i \in Writes(Coord)' :
                    hist'[Coord][i].doc = d \/ \E k \in Writes(Coord) : hist'[Coord][i].doc = hist[Coord][k].doc
    <2> DEFINE n == Len(hist[Coord])
    <2>1. /\ hist' \in [Shards -> Seq(Entry)] /\ \A t \in Shards : hist'[t] # <<>>
          /\ Len(hist'[Coord]) = n + 1
          /\ \A i \in Writes(Coord) : hist'[Coord][i] = hist[Coord][i]
          /\ hist'[Coord][n + 1].part = Last(Coord).part /\ hist'[Coord][n + 1].doc = d
          /\ \A t \in Shards \ {Coord} : hist'[t] = hist[t]
          /\ \A t \in Shards : Majority(t)' = Majority(t)
      BY <1>5, DocWritten
    <2>2. /\ Writes(Coord)' = Writes(Coord) \cup {n + 1}
          /\ n \in Writes(Coord) /\ Last(Coord) = hist[Coord][n]
      BY <2>1, NewWrite, CoordAssumption DEF Last
    <2>3. \A i, j \in Writes(Coord)' : i < j => CanFollow(hist'[Coord][i].part, hist'[Coord][j].part)
      BY <2>1, OrderKept, CoordAssumption DEF CanFollow
    <2>4. DocsInv'
      BY <1>0, <1>2, <1>5, <2>1, DocsKept
    <2> HIDE DEF n
    <2>5. PartsInv'
      <3>1. ASSUME NEW t \in Shards, t # Coord
            PROVE  PartInv(t)'
        <4>1. PartInv(t) /\ hist'[t] = hist[t]
          BY <2>1, <3>1 DEF PartsInv
        <4> QED
          BY <1>0, <4>1 DEF PartInv, Writes, Sent
      <3>2. PartInv(Coord)'
        <4>1. PartInv(Coord)
          BY CoordAssumption DEF PartsInv
        <4>2. \A i \in Writes(Coord)' : \E k \in Writes(Coord) : hist'[Coord][i].part = hist[Coord][k].part
          BY <2>1, <2>2
        <4> QED
          BY <1>0, <2>3, <4>1, <4>2 DEF PartInv, Sent
      <3> QED
        BY <3>1, <3>2 DEF PartsInv
    <2>6. \A i \in Writes(Coord)' :
            hist'[Coord][i].doc = d \/ \E k \in Writes(Coord) : hist'[Coord][i].doc = hist[Coord][k].doc
      BY <2>1, <2>2
    <2>7. CommitInv'
      BY <1>0, <1>5, <2>1, <2>6 DEF CommitInv, CommitDecided, Sent
    <2> QED
      BY <2>1, <2>4, <2>5, <2>6, <2>7
  <1>6. CASE WriteParticipantList
    <2>1. /\ step = "kWritingParticipantList" /\ step' = "waitParticipantList"
          /\ answers' = answers /\ WriteDoc("participants")
      BY <1>6 DEF WriteParticipantList
    <2>2. \A i \in Writes(Coord) : hist[Coord][i].doc \notin Decisions
      BY <2>1 DEF CoordInv, EarlySteps
    <2>3. /\ hist' \in [Shards -> Seq(Entry)] /\ \A t \in Shards : hist'[t] # <<>>
          /\ \A t \in Shards : Majority(t)' = Majority(t)
          /\ PartsInv' /\ DocsInv' /\ CommitInv'
          /\ \A i \in Writes(Coord)' : hist'[Coord][i].doc \notin Decisions
      BY <1>5, <2>1, <2>2
    <2>4. TypeOK'
      BY <1>0, <2>1, <2>3 DEF TypeOK, Steps
    <2>5. SentInv' /\ CoordInv'
      BY <1>0, <2>1, <2>3 DEF SentInv, CoordInv, EarlySteps, AckSteps, Sent
    <2>6. AnswersInv'
      BY <1>0, <2>1, AnswersKept
    <2> QED
      BY <1>3, <2>3, <2>4, <2>5, <2>6
  <1>7. CASE WriteDecision
    <2>1. /\ step = "kWritingDecision" /\ step' = "waitDecision"
          /\ answers' = answers /\ WriteDoc(decision)
      BY <1>7 DEF WriteDecision
    <2>2. decision \in Decisions
      BY <2>1 DEF CoordInv, EarlySteps
    <2>3. \A i \in Writes(Coord) : hist[Coord][i].doc \in Decisions => decision = hist[Coord][i].doc
      BY <1>4 DEF DocsInv
    <2>4. /\ hist' \in [Shards -> Seq(Entry)] /\ \A t \in Shards : hist'[t] # <<>>
          /\ \A t \in Shards : Majority(t)' = Majority(t)
          /\ PartsInv' /\ DocsInv' /\ CommitInv'
          /\ \A i \in Writes(Coord)' :
               hist'[Coord][i].doc = decision \/ \E k \in Writes(Coord) : hist'[Coord][i].doc = hist[Coord][k].doc
      BY <1>5, <2>1, <2>2, <2>3
    <2>5. TypeOK'
      BY <1>0, <2>1, <2>4 DEF TypeOK, Steps
    <2>6. SentInv' /\ CoordInv'
      BY <1>0, <2>1, <2>2, <2>4 DEF SentInv, CoordInv, EarlySteps, AckSteps, Sent
    <2>7. AnswersInv'
      BY <1>0, <2>1, AnswersKept
    <2> QED
      BY <1>3, <2>4, <2>5, <2>6, <2>7
  <1>8. CASE DeleteDoc
    <2>1. /\ step = "kDeletingCoordinatorDoc" /\ step' = "none"
          /\ answers' = answers \cup {decision} /\ WriteDoc("none")
      BY <1>8 DEF DeleteDoc
    <2>2. AllSettled /\ decision \in Decisions /\ Sent(decision)
      BY <2>1 DEF CoordInv, AckSteps, EarlySteps, AllSettled
    <2>3. /\ hist' \in [Shards -> Seq(Entry)] /\ \A t \in Shards : hist'[t] # <<>>
          /\ \A t \in Shards : Majority(t)' = Majority(t)
          /\ PartsInv' /\ DocsInv' /\ CommitInv'
          /\ \A i \in Writes(Coord)' :
               hist'[Coord][i].doc = "none" \/ \E k \in Writes(Coord) : hist'[Coord][i].doc = hist[Coord][k].doc
      BY <1>2, <1>5, <2>1, <2>2
    <2>4. TypeOK'
      BY <1>0, <2>1, <2>2, <2>3 DEF TypeOK, Steps
    <2>5. SentInv' /\ CoordInv'
      BY <1>0, <1>2, <1>4, <2>1, <2>2, <2>3 DEF SentInv, CoordInv, EarlySteps, AckSteps, Sent
    <2>6. AnswersInv'
      BY <1>0, <1>1, <2>1, <2>2 DEF AnswersInv, Sent
    <2> QED
      BY <1>3, <2>3, <2>4, <2>5, <2>6
  <1> QED
    BY <1>6, <1>7, <1>8

\* A write that reaches the majority keeps the invariant.
LEMMA AdvancePreserves ==
    ASSUME IInv, Next, NEW s \in Shards, AdvanceMajority(s)
    PROVE  IInv'
  <1> USE DEF IInv, Decisions
  <1>0. UNCHANGED <<active, step, decision, replied, recovering, msgs, answers, awaitsExit, failovers>>
    BY DEF AdvanceMajority, coordVars
  <1>1. /\ hist' \in [Shards -> Seq(Entry)] /\ \A t \in Shards : hist'[t] # <<>>
        /\ Len(hist'[s]) = Len(hist[s]) - 1
        /\ \A i \in Writes(s)' : i + 1 \in Writes(s) /\ hist'[s][i] = hist[s][i + 1]
        /\ \A t \in Shards \ {s} : hist'[t] = hist[t]
    BY AdvanceEffect DEF AdvanceMajority
  <1>2. \A t \in Shards : (Settled(t) => Settled(t)') /\ (Refused(t) => Refused(t)')
    BY EndsAreFinal
  <1>3. AllSettled => AllSettled'
    BY <1>2 DEF AllSettled
  <1>4. TypeOK'
    BY <1>0, <1>1 DEF TypeOK
  <1>5. PartsInv'
    <2>1. ASSUME NEW t \in Shards, t # s
          PROVE  PartInv(t)'
      <3>1. PartInv(t) /\ hist'[t] = hist[t]
        BY <1>1, <2>1 DEF PartsInv
      <3> QED
        BY <1>0, <3>1 DEF PartInv, Writes, Sent
    <2>2. PartInv(s)'
      <3>1. PartInv(s) /\ \A i, j \in Writes(s)' : i < j => i + 1 < j + 1
        BY DEF PartsInv, Writes
      <3>2. \A i, j \in Writes(s)' : i < j => CanFollow(hist'[s][i].part, hist'[s][j].part)
        BY <1>1, <3>1 DEF PartInv
      <3>3. \A i \in Writes(s)' :
              /\ active'[s] => hist'[s][i].part = "none"
              /\ hist'[s][i].part = "prepared" => msgs' # {}
              /\ hist'[s][i].part = "committed" => Sent("commit")'
              /\ hist'[s][i].part = "aborted" => Sent("abort")'
        <4>1. /\ Sent("commit")' <=> Sent("commit")
              /\ Sent("abort")' <=> Sent("abort")
          BY <1>0 DEF Sent
        <4> QED
          BY <1>0, <1>1, <3>1, <4>1 DEF PartInv
      <3> QED
        BY <3>2, <3>3 DEF PartInv
    <2> QED
      BY <2>1, <2>2 DEF PartsInv
  <1>6. /\ \A i \in Writes(Coord)' : \E k \in Writes(Coord) : hist'[Coord][i] = hist[Coord][k]
        /\ \A i, j \in Writes(Coord)' : i < j => \E k, m \in Writes(Coord) :
             k < m /\ hist'[Coord][i] = hist[Coord][k] /\ hist'[Coord][j] = hist[Coord][m]
    <2>1. CASE s = Coord
      <3>1. \A i, j \in Writes(s)' : i < j => i + 1 < j + 1
        BY DEF Writes
      <3> QED
        BY <1>1, <2>1, <3>1
    <2>2. CASE s # Coord
      BY <1>1, <2>2, CoordAssumption DEF Writes
    <2> QED
      BY <2>1, <2>2
  <1>7. DocsInv'
    BY <1>0, <1>3, <1>6 DEF DocsInv
  <1>8. SentInv' /\ OneDecisionIsSent'
    BY <1>0, <1>6 DEF SentInv, OneDecisionIsSent, Sent
  <1>9. \A t \in Shards : /\ CanFollow(Majority(t).part, Majority(t)'.part)
                          /\ Majority(t)' \in Entry
                          /\ Majority(t)'.part = "aborted" => Sent("abort")
    <2> SUFFICES ASSUME NEW t \in Shards
                 PROVE  /\ CanFollow(Majority(t).part, Majority(t)'.part)
                        /\ Majority(t)' \in Entry
                        /\ Majority(t)'.part = "aborted" => Sent("abort")
      OBVIOUS
    <2>1. PartInv(t) /\ 1 \in Writes(t) /\ Majority(t) = hist[t][1] /\ Majority(t)' = hist'[t][1]
      BY HistType DEF PartsInv, Majority
    <2>2. CASE t # s
      <3>1. hist'[t] = hist[t] /\ Majority(t) \in Entry
        BY <1>1, <2>2, HistType
      <3> QED
        BY <2>1, <3>1 DEF PartInv, CanFollow
    <2>3. CASE t = s
      <3>1. Len(hist[s]) \in Nat /\ Len(hist[s]) > 1
        BY HistType DEF AdvanceMajority
      <3>2. 2 \in Writes(s) /\ hist'[s][1] = hist[s][2]
        BY <1>1, <3>1 DEF Writes
      <3>3. hist[s][2] \in Entry
        BY <3>2, HistType
      <3> QED
        BY <2>1, <2>3, <3>2, <3>3 DEF PartInv
    <2> QED
      BY <2>2, <2>3
  <1>10. CommitInv'
    <2> SUFFICES ASSUME CommitDecided', NEW t \in Shards
                 PROVE  Majority(t)'.part \in {"prepared", "committed"}
      BY DEF CommitInv
    <2>1. CommitDecided
      BY <1>0, <1>6 DEF CommitDecided, Sent
    <2>2. ~Sent("abort")
      BY <2>1 DEF CommitDecided, SentInv, OneDecisionIsSent, Sent
    <2>3. Majority(t).part \in {"prepared", "committed"}
      BY <2>1 DEF CommitInv
    <2> QED
      BY <1>9, <2>2, <2>3 DEF CanFollow, Entry
  <1>11. CoordInv' /\ AnswersInv'
    <2>1. AnswersInv'
      BY <1>0, AnswersKept
    <2>2. CoordInv'
      BY <1>0, <1>2, <1>3, <1>6, <1>9 DEF CoordInv, Sent, TypeOK, CanFollow
    <2> QED
      BY <2>1, <2>2
  <1> QED
    BY <1>4, <1>5, <1>7, <1>8, <1>10, <1>11

\* A failover of any shard, with any loss of writes, keeps the invariant.
LEMMA FailoverPreserves ==
    ASSUME IInv, Next, NEW s \in Shards, Failover(s)
    PROVE  IInv'
  <1> USE DEF IInv, Decisions
  <1>0. /\ UNCHANGED msgs
        /\ \/ answers' = answers
           \/ step \in AckSteps /\ answers' = answers \cup {decision}
        /\ awaitsExit' = awaitsExit \/ awaitsExit' = FALSE
    BY DEF Failover, DecisionDurable, AckSteps
  <1>1. PICK n \in 1 .. Len(hist[s]) : hist' = [hist EXCEPT ![s] = SubSeq(@, 1, n)]
    BY DEF Failover
  <1>2. /\ hist' \in [Shards -> Seq(Entry)] /\ \A t \in Shards : hist'[t] # <<>>
        /\ \A i \in Writes(s)' : i \in Writes(s) /\ hist'[s][i] = hist[s][i]
        /\ \A t \in Shards \ {s} : hist'[t] = hist[t]
        /\ \A t \in Shards : Majority(t)' = Majority(t)
    BY <1>1, FailoverEffect
  <1>3. \A t \in Shards : (Settled(t) => Settled(t)') /\ (Refused(t) => Refused(t)')
    BY EndsAreFinal
  <1>4. AllSettled => AllSettled'
    BY <1>3 DEF AllSettled
  <1>5. active' \in [Shards -> BOOLEAN] /\ \A t \in Shards : active'[t] => active[t]
    BY DEF Failover, TypeOK
  <1>6. failovers' \in 0 .. MaxFailovers
    BY FailoversAssumption DEF Failover, TypeOK
  <1>7. \/ UNCHANGED <<step, decision, replied, recovering>>
        \/ step' = "none" /\ decision' = "none" /\ replied' = {} /\ recovering' = TRUE
    BY DEF Failover, coordVars
  <1>8. TypeOK'
    <2>1. answers' \subseteq Decisions
      BY <1>0 DEF TypeOK, CoordInv, AckSteps, EarlySteps
    <2>2. awaitsExit' \in BOOLEAN
      BY <1>0, Zenon DEF TypeOK
    <2> QED
      BY <1>0, <1>2, <1>5, <1>6, <1>7, <2>1, <2>2 DEF TypeOK, Steps
  <1>9. \A t \in Shards : \A i \in Writes(t)' : i \in Writes(t) /\ hist'[t][i] = hist[t][i]
    BY <1>2 DEF Writes
  <1>10. PartsInv'
    <2> SUFFICES ASSUME NEW t \in Shards PROVE PartInv(t)'
      BY DEF PartsInv
    <2>1. PartInv(t) /\ (active'[t] => active[t])
      BY <1>5 DEF PartsInv
    <2> QED
      BY <1>0, <1>9, <2>1 DEF PartInv, Sent
  <1>11. DocsInv' /\ SentInv' /\ OneDecisionIsSent'
    BY <1>0, <1>4, <1>7, <1>9, CoordAssumption DEF DocsInv, SentInv, OneDecisionIsSent, Sent, EarlySteps
  <1>12. CommitInv'
    BY <1>0, <1>2, <1>7, <1>9, CoordAssumption DEF CommitInv, CommitDecided, Sent
  <1>13. AnswersInv'
    <2>1. step \in AckSteps => Sent(decision) /\ decision \in Decisions
      BY DEF CoordInv, AckSteps, EarlySteps
    <2>2. ~active[Coord] => ~active'[Coord]
      BY <1>5, CoordAssumption
    <2>3. \A r : Sent(r)' <=> Sent(r)
      BY <1>0 DEF Sent
    <2>4. ("commit" \in answers') => Sent("commit")'
      BY <1>0, <2>1, <2>3 DEF AnswersInv
    <2>5. ("abort" \in answers') => Sent("abort")' \/ \E t \in Shards : Refused(t)'
      BY <1>0, <1>3, <2>1, <2>3 DEF AnswersInv
    <2>6. awaitsExit' => ~active'[Coord]
      BY <1>0, <2>2 DEF AnswersInv
    <2> QED
      BY <2>4, <2>5, <2>6 DEF AnswersInv
  <1>14. CoordInv'
    <2>1. CASE UNCHANGED <<step, decision, replied, recovering>>
      <3>1. (\A r : Sent(r)' <=> Sent(r)) /\ replied \subseteq Shards
        BY <1>0 DEF Sent, TypeOK
      <3>2. step \in EarlySteps => \A i \in Writes(Coord)' : hist'[Coord][i].doc \notin Decisions
        BY <1>9, CoordAssumption DEF CoordInv
      <3>3. step = "kWaitingForVotes" => \A t \in replied : Majority(t)'.part # "none"
        BY <1>2, <3>1 DEF CoordInv
      <3>4. step \in AckSteps => Sent(decision) /\ \A t \in replied : Settled(t)'
        BY <1>3, <3>1 DEF CoordInv
      <3>5. step = "none" /\ ~recovering /\ (Sent("commit") \/ Sent("abort")) => AllSettled'
        BY <1>4 DEF CoordInv
      <3> QED
        BY <2>1, <3>1, <3>2, <3>3, <3>4, <3>5 DEF CoordInv
    <2>2. CASE step' = "none" /\ decision' = "none" /\ recovering' = TRUE
      BY <2>2 DEF CoordInv, EarlySteps, AckSteps
    <2> QED
      BY <1>7, <2>1, <2>2
  <1> QED
    BY <1>8, <1>10, <1>11, <1>12, <1>13, <1>14

-----------------------------------------------------------------------------
\* Every step keeps the invariant.
LEMMA NextPreserves ==
    ASSUME IInv, Next
    PROVE  IInv'
  BY QuietStepPreserves, SendPreserves, LocalAbortPreserves, ParticipantPreserves,
     DocWritePreserves, DeleteDocFailsPreserves, AdvancePreserves, FailoverPreserves
     DEF Next, CoordinatorStep, QuietStep

\* So does a step of somebody else.
LEMMA StutterPreserves ==
    ASSUME IInv, UNCHANGED vars
    PROVE  IInv'
  <1> USE DEF IInv
  <1>0. UNCHANGED <<hist, active, step, decision, replied, recovering, msgs, answers, awaitsExit, failovers>>
    BY DEF vars, coordVars
  <1>1. TypeOK' /\ PartsInv' /\ OneDecisionIsSent'
    BY <1>0 DEF TypeOK, PartsInv, PartInv, OneDecisionIsSent, Writes, Sent
  <1>2. /\ \A s \in Shards : (Settled(s)' <=> Settled(s)) /\ (Refused(s)' <=> Refused(s))
                              /\ Majority(s)' = Majority(s)
        /\ AllSettled' <=> AllSettled
    BY <1>0 DEF AllSettled, Settled, Refused, Writes, Majority
  <1>3. DocsInv' /\ SentInv' /\ CommitInv'
    BY <1>0, <1>2 DEF DocsInv, SentInv, CommitInv, CommitDecided, Writes, Sent
  <1>4. CoordInv' /\ AnswersInv'
    BY <1>0, <1>2 DEF CoordInv, AnswersInv, Writes, Sent, TypeOK
  <1> QED
    BY <1>1, <1>3, <1>4

(***************************************************************************)
(* The inductive invariant holds: durable votes before a commit, a durable *)
(* decision before it is sent, every shard done before the document goes,  *)
(* through any number of failovers.                                        *)
(***************************************************************************)
THEOREM CoordinatorInvariant == Spec => []IInv
  <1>1. IInv /\ [Next]_vars => IInv'
    BY NextPreserves, StutterPreserves
  <1> QED
    BY InitEstablishes, <1>1, PTL DEF Spec

\* The coordinator's and the participants' state keeps its types.
THEOREM TypeCorrect == Spec => []TypeOK
  <1>1. IInv => TypeOK
    BY DEF IInv
  <1> QED
    BY CoordinatorInvariant, <1>1, PTL

\* sendCommit and sendAbort are never both called for one transaction, not even
\* by coordinators of different terms.
THEOREM DecisionsAgree == Spec => []OneDecisionIsSent
  <1>1. IInv => OneDecisionIsSent
    BY DEF IInv
  <1> QED
    BY CoordinatorInvariant, <1>1, PTL

\* As long as a participant may be prepared, the document that onStepUp resumes
\* from is durable: deleteCoordinatorDocBlocking never comes too early.
THEOREM PreparedHasDocument == Spec => []PreparedIsRemembered
  <1>1. IInv => PreparedIsRemembered
    <2> SUFFICES ASSUME IInv, NEW s \in Shards,
                        Last(s).part = "prepared" \/ Majority(s).part = "prepared"
                 PROVE  /\ Majority(Coord).doc # "none"
                        /\ \A i \in DOMAIN hist[Coord] : hist[Coord][i].doc # "none"
      BY DEF PreparedIsRemembered
    <2>1. TypeOK /\ PartInv(s) /\ DocsInv
      BY DEF IInv, PartsInv
    <2>2. \E i \in Writes(s) : hist[s][i].part = "prepared"
      BY <2>1, HistType DEF Last, Majority
    <2>3. msgs # {} /\ ~AllSettled
      BY <2>1, <2>2 DEF PartInv, AllSettled, Settled
    <2>4. \A i \in Writes(Coord) : hist[Coord][i].doc # "none"
      BY <2>1, <2>3 DEF DocsInv
    <2>5. DOMAIN hist[Coord] = Writes(Coord) /\ 1 \in Writes(Coord)
      BY <2>1, HistType, CoordAssumption DEF Writes
    <2> QED
      BY <2>4, <2>5 DEF Majority
  <1> QED
    BY CoordinatorInvariant, <1>1, PTL

\* Nobody is committed on any shard unless everybody is prepared, durably.
LEMMA CommittedMeansDecided ==
    ASSUME IInv, NEW s \in Shards, Majority(s).part = "committed"
    PROVE  /\ Sent("commit") /\ ~Sent("abort")
           /\ \A t \in Shards : Majority(t).part \in {"prepared", "committed"}
  <1>1. TypeOK /\ PartInv(s)
    BY DEF IInv, PartsInv
  <1>2. Sent("commit")
    BY <1>1, HistType DEF PartInv, Majority
  <1>3. ~Sent("abort")
    BY <1>2 DEF IInv, OneDecisionIsSent, Sent
  <1> QED
    BY <1>2, <1>3 DEF IInv, CommitInv, CommitDecided

\* What AtomicCommit sees of a shard, from its durable state.
LEMMA OutcomeOfMajority ==
    ASSUME TypeOK, NEW s \in Shards
    PROVE  /\ Majority(s).part # "none" => Outcome(s) = Majority(s).part
           /\ Majority(s).part = "none" => Outcome(s) \in {"working", "aborted"}
  BY DEF Outcome

\* coordinateCommitTransaction never reports two outcomes, and the one it reports,
\* from the coordinator, also one that steps down before all participants have
\* acked, or from the local participant, is the one that every shard reaches.
THEOREM ClientIsToldTheTruth == Spec => []AnswersAreTrue
  <1>1. IInv => AnswersAreTrue
    <2> SUFFICES ASSUME IInv PROVE AnswersAreTrue
      OBVIOUS
    <2>1. TypeOK /\ AnswersInv /\ answers \subseteq {"commit", "abort"}
      BY DEF IInv, TypeOK, Decisions
    <2>2. ASSUME "commit" \in answers
          PROVE  /\ Sent("commit") /\ ~Sent("abort")
                 /\ \A s \in Shards : Majority(s).part \in {"prepared", "committed"}
      <3>1. Sent("commit")
        BY <2>1, <2>2 DEF AnswersInv
      <3> QED
        BY <3>1 DEF IInv, OneDecisionIsSent, Sent, CommitInv, CommitDecided
    <2>3. "commit" \in answers => "abort" \notin answers
      <3> SUFFICES ASSUME "commit" \in answers, "abort" \in answers PROVE FALSE
        OBVIOUS
      <3>1. PICK s \in Shards : Refused(s)
        BY <2>1, <2>2 DEF AnswersInv
      <3>2. Majority(s).part = "none"
        BY <2>1, <3>1, HistType DEF Refused, Majority
      <3> QED
        BY <2>2, <3>2
    <2>4. Cardinality(answers) <= 1
      <3>1. answers = {} \/ answers = {"commit"} \/ answers = {"abort"}
        BY <2>1, <2>3
      <3>2. Cardinality({}) = 0
        BY FS_EmptySet
      <3>3. Cardinality({"commit"}) = 1 /\ Cardinality({"abort"}) = 1
        BY FS_Singleton
      <3> QED
        BY <3>1, <3>2, <3>3
    <2>5. ASSUME NEW s \in Shards, "commit" \in answers
          PROVE  \/ Outcome(s) = "committed"
                 \/ Outcome(s) = "prepared" /\ Majority(Coord).doc = "commit"
      <3>1. Outcome(s) = Majority(s).part /\ Majority(s).part \in {"prepared", "committed"}
        BY <2>1, <2>2, <2>5, OutcomeOfMajority
      <3>2. ASSUME Majority(s).part = "prepared" PROVE Majority(Coord).doc = "commit"
        <4>1. 1 \in Writes(s) /\ 1 \in Writes(Coord)
          BY <2>1, HistType, CoordAssumption
        <4>2. ~AllSettled /\ msgs # {}
          BY <2>2, <2>5, <3>2, <4>1 DEF AllSettled, Settled, Majority, Sent
        <4>3. Majority(Coord).doc # "none"
          BY <4>1, <4>2 DEF IInv, DocsInv, Majority
        <4>4. Majority(Coord).doc \in {"commit", "none"}
          BY <2>2, <2>5, <4>1 DEF IInv, SentInv, Decisions, Majority
        <4> QED
          BY <4>3, <4>4
      <3> QED
        BY <3>1, <3>2
    <2>6. ASSUME NEW s \in Shards, "abort" \in answers PROVE Outcome(s) # "committed"
      <3> SUFFICES ASSUME Outcome(s) = "committed" PROVE FALSE
        OBVIOUS
      <3>1. Majority(s).part = "committed"
        BY <2>1, OutcomeOfMajority
      <3>2. ~Sent("abort") /\ \A t \in Shards : Majority(t).part # "none"
        BY <3>1, CommittedMeansDecided
      <3>3. PICK t \in Shards : Refused(t)
        BY <2>1, <2>6, <3>2 DEF AnswersInv
      <3> QED
        BY <2>1, <3>2, <3>3, HistType DEF Refused, Majority
    <2> QED
      BY <2>4, <2>5, <2>6 DEF AnswersAreTrue
  <1> QED
    BY CoordinatorInvariant, <1>1, PTL

-----------------------------------------------------------------------------
(* The refinement *)

\* The refinement mapping of Atomic.
outcomes == [s \in Shards |-> Outcome(s)]

\* A step that changes the outcome of at most one shard, and only as
\* AtomicCommit allows, is a step of AtomicCommit.
LEMMA OneOutcomeChanges ==
    ASSUME NEW s \in Shards,
           \A t \in Shards \ {s} : Outcome(t)' = Outcome(t),
           \/ Outcome(s)' = Outcome(s)
           \/ Outcome(s) = "working" /\ Outcome(s)' = "prepared"
           \/ /\ Outcome(s) = "prepared" /\ Outcome(s)' = "committed"
              /\ \A t \in Shards : Outcome(t) \in {"prepared", "committed"}
           \/ /\ Outcome(s) \in {"working", "prepared"} /\ Outcome(s)' = "aborted"
              /\ \A t \in Shards : Outcome(t) # "committed"
    PROVE  Atomic!Next \/ outcomes' = outcomes
  <1>1. \A t \in Shards : outcomes[t] = Outcome(t)
    BY DEF outcomes
  <1>2. outcomes' = [outcomes EXCEPT ![s] = Outcome(s)']
    BY DEF outcomes
  <1>3. CASE Outcome(s)' = Outcome(s)
    BY <1>3 DEF outcomes
  <1>4. CASE Outcome(s) = "working" /\ Outcome(s)' = "prepared"
    <2>1. Atomic!Prepare(s)
      BY <1>1, <1>2, <1>4 DEF Atomic!Prepare, outcomes
    <2> QED
      BY <2>1 DEF Atomic!Next
  <1>5. CASE /\ Outcome(s) = "prepared" /\ Outcome(s)' = "committed"
             /\ \A t \in Shards : Outcome(t) \in {"prepared", "committed"}
    <2>1. Atomic!Commit(s)
      BY <1>1, <1>2, <1>5 DEF Atomic!Commit, outcomes
    <2> QED
      BY <2>1 DEF Atomic!Next
  <1>6. CASE /\ Outcome(s) \in {"working", "prepared"} /\ Outcome(s)' = "aborted"
             /\ \A t \in Shards : Outcome(t) # "committed"
    <2>1. Atomic!Abort(s)
      BY <1>1, <1>2, <1>6 DEF Atomic!Abort, outcomes
    <2> QED
      BY <2>1 DEF Atomic!Next
  <1> QED
    BY <1>3, <1>4, <1>5, <1>6

\* The outcome of a shard depends on that shard only.
LEMMA OutcomeUnchanged ==
    ASSUME NEW t \in Shards, hist'[t] = hist[t], active'[t] = active[t]
    PROVE  Outcome(t)' = Outcome(t)
  BY DEF Outcome, Majority, Last, InProgress

(***************************************************************************)
(* Two-phase commit is atomic: the durable states of the participants      *)
(* follow AtomicCommit, whatever fails over, is lost or is delivered late. *)
(***************************************************************************)
THEOREM CommitIsAtomic == Spec => ImplementsAtomicCommit
  <1>1. Init => Atomic!Init
    <2> SUFFICES ASSUME Init PROVE Atomic!Init
      OBVIOUS
    <2>1. ASSUME NEW s \in Shards PROVE Outcome(s) = "working"
      <3>1. active[s] = TRUE /\ Len(hist[s]) = 1 /\ hist[s][1].part = "none"
        BY DEF Init
      <3> QED
        BY <3>1 DEF Outcome, Majority, Last, InProgress
    <2> QED
      BY <2>1 DEF Atomic!Init
  <1>2. IInv /\ IInv' /\ [Next]_vars => [Atomic!Next]_outcomes
    <2> SUFFICES ASSUME IInv, IInv', Next \/ UNCHANGED vars
                 PROVE  Atomic!Next \/ outcomes' = outcomes
      OBVIOUS
    <2>0. TypeOK /\ TypeOK' /\ PartsInv /\ PartsInv'
      BY DEF IInv
    <2>1. ASSUME hist' = hist, active' = active
          PROVE  outcomes' = outcomes
      BY <2>1, OutcomeUnchanged DEF outcomes
    <2>2. ASSUME NEW s \in Shards, hist' = hist, ~active'[s],
                 \A t \in Shards \ {s} : active'[t] = active[t]
          PROVE  Atomic!Next \/ outcomes' = outcomes
      <3>1. \A t \in Shards \ {s} : Outcome(t)' = Outcome(t)
        BY <2>2, OutcomeUnchanged
      <3>2. CASE ~active[s]
        BY <2>2, <3>1, <3>2, OneOutcomeChanges DEF Outcome, Majority, Last, InProgress
      <3>3. CASE active[s]
        <4>1. Majority(s).part = "none" /\ Last(s).part = "none"
          BY <2>0, <3>3, HistType DEF PartsInv, PartInv, Majority, Last
        <4>2. Outcome(s) = "working" /\ Outcome(s)' = "aborted"
          BY <2>2, <3>3, <4>1 DEF Outcome, Majority, Last, InProgress
        <4>3. \A t \in Shards : Outcome(t) # "committed"
          BY <2>0, <4>1, OutcomeOfMajority, CommittedMeansDecided
        <4> QED
          BY <3>1, <4>2, <4>3, OneOutcomeChanges
      <3> QED
        BY <3>2, <3>3
    <2>4. ASSUME NEW s \in Shards, NEW p \in {"prepared", "committed", "aborted"}, WritePart(s, p),
                 \A t \in Shards \ {s} : active'[t] = active[t],
                 InProgress(s)
          PROVE  outcomes' = outcomes
      <3>1. /\ \A t \in Shards \ {s} : hist'[t] = hist[t]
            /\ Majority(s)' = Majority(s)
            /\ hist'[s][Len(hist'[s])].part = p
        BY <2>0, <2>4, PartWritten
      <3>2. Last(s)'.part # "none"
        BY <3>1 DEF Last
      <3>3. Outcome(s)' = Outcome(s)
        BY <2>4, <3>1, <3>2 DEF Outcome
      <3>4. \A t \in Shards : Outcome(t)' = Outcome(t)
        BY <2>4, <3>1, <3>3, OutcomeUnchanged
      <3> QED
        BY <3>4 DEF outcomes
    <2>5. ASSUME NEW d \in {"none", "participants"} \cup Decisions, WriteDoc(d), active' = active
          PROVE  outcomes' = outcomes
      <3>1. /\ \A t \in Shards \ {Coord} : hist'[t] = hist[t]
            /\ Majority(Coord)' = Majority(Coord)
            /\ hist'[Coord][Len(hist'[Coord])].part = Last(Coord).part
        BY <2>0, <2>5, DocWritten, CoordAssumption
      <3>2. Outcome(Coord)' = Outcome(Coord)
        BY <2>5, <3>1 DEF Outcome, InProgress, Last
      <3>3. \A t \in Shards : Outcome(t)' = Outcome(t)
        BY <2>5, <3>1, <3>2, OutcomeUnchanged
      <3> QED
        BY <3>3 DEF outcomes
    <2>6. ASSUME NEW s \in Shards, AdvanceMajority(s)
          PROVE  Atomic!Next \/ outcomes' = outcomes
      <3>1. /\ \A t \in Shards \ {s} : hist'[t] = hist[t]
            /\ Last(s)' = Last(s)
            /\ active' = active /\ msgs' = msgs
            /\ Len(hist[s]) \in Nat /\ Len(hist[s]) > 1
            /\ Len(hist'[s]) = Len(hist[s]) - 1
            /\ \A i \in Writes(s)' : hist'[s][i] = hist[s][i + 1]
        BY <2>0, <2>6, AdvanceEffect, HistType DEF AdvanceMajority
      <3>2. /\ 1 \in Writes(s) /\ 2 \in Writes(s) /\ Len(hist[s]) \in Writes(s)
            /\ Majority(s) = hist[s][1] /\ Majority(s)' = hist[s][2]
            /\ Last(s) = hist[s][Len(hist[s])]
            /\ Majority(s) \in Entry /\ Majority(s)' \in Entry
        BY <2>0, <3>1, HistType DEF Writes, Majority, Last
      <3>3. PartInv(s)
        BY <2>0 DEF PartsInv
      <3>4. /\ CanFollow(Majority(s).part, Majority(s)'.part)
            /\ CanFollow(Majority(s)'.part, Last(s).part)
        BY <3>1, <3>2, <3>3 DEF PartInv, CanFollow
      <3>5. \A t \in Shards \ {s} : Outcome(t)' = Outcome(t)
        BY <3>1, OutcomeUnchanged
      <3>6. CASE Majority(s)'.part = Majority(s).part
        <4>1. Outcome(s)' = Outcome(s)
          BY <3>1, <3>6 DEF Outcome, InProgress
        <4> QED
          BY <3>5, <4>1, OneOutcomeChanges
      <3>7. CASE Majority(s)'.part # Majority(s).part
        <4>1. /\ Majority(s).part \in {"none", "prepared"}
              /\ Majority(s)'.part # "none"
              /\ Outcome(s)' = Majority(s)'.part
              /\ Outcome(s) = IF Majority(s).part = "none" THEN "working" ELSE "prepared"
          <5>1. Majority(s).part \in {"none", "prepared"} /\ Majority(s)'.part # "none"
            BY <3>2, <3>4, <3>7 DEF CanFollow, Entry
          <5>2. Last(s).part # "none"
            BY <3>4, <5>1 DEF CanFollow
          <5> QED
            BY <5>1, <5>2 DEF Outcome
        <4>2. CASE Majority(s)'.part = "prepared"
          <5>1. Majority(s).part = "none"
            BY <3>7, <4>1, <4>2
          <5> QED
            BY <3>5, <4>1, <4>2, <5>1, OneOutcomeChanges
        <4>3. CASE Majority(s)'.part = "committed"
          <5>1. Sent("commit")
            BY <3>2, <3>3, <4>3 DEF PartInv
          <5>2. \A t \in Shards : Majority(t).part \in {"prepared", "committed"}
            BY <5>1 DEF IInv, CommitInv, CommitDecided
          <5>3. \A t \in Shards : Outcome(t) \in {"prepared", "committed"}
            BY <2>0, <5>2, OutcomeOfMajority
          <5> QED
            BY <3>5, <4>1, <4>3, <5>2, <5>3, OneOutcomeChanges
        <4>4. CASE Majority(s)'.part = "aborted"
          <5>1. Sent("abort")
            BY <3>2, <3>3, <4>4 DEF PartInv
          <5>2. \A t \in Shards : Outcome(t) # "committed"
            BY <2>0, <5>1, OutcomeOfMajority, CommittedMeansDecided
          <5> QED
            BY <3>5, <4>1, <4>4, <5>2, OneOutcomeChanges
        <4> QED
          BY <3>2, <4>1, <4>2, <4>3, <4>4 DEF Entry
      <3> QED
        BY <3>6, <3>7
    <2>7. ASSUME NEW s \in Shards, Failover(s)
          PROVE  Atomic!Next \/ outcomes' = outcomes
      <3>0. PICK n \in 1 .. Len(hist[s]) : hist' = [hist EXCEPT ![s] = SubSeq(@, 1, n)]
        BY <2>7 DEF Failover
      <3>1. /\ \A t \in Shards \ {s} : hist'[t] = hist[t]
            /\ Majority(s)' = Majority(s)
            /\ \A i \in Writes(s)' : i \in Writes(s) /\ hist'[s][i] = hist[s][i]
        BY <2>0, <3>0, FailoverEffect
      <3>2. ~active'[s] /\ \A t \in Shards \ {s} : active'[t] = active[t]
        BY <2>0, <2>7 DEF Failover, TypeOK
      <3>3. \A t \in Shards \ {s} : Outcome(t)' = Outcome(t)
        BY <3>1, <3>2, OutcomeUnchanged
      <3>4. CASE Majority(s).part # "none"
        BY <3>1, <3>3, <3>4, OneOutcomeChanges DEF Outcome
      <3>5. CASE Majority(s).part = "none"
        <4>1. \A t \in Shards : Outcome(t) # "committed"
          BY <2>0, <3>5, OutcomeOfMajority, CommittedMeansDecided
        <4>2. CASE Outcome(s) = "aborted"
          <5>1. Last(s).part = "none"
            BY <3>5, <4>2 DEF Outcome
          <5>2. \A i \in Writes(s) : hist[s][i].part = "none"
            <6>1. \A i \in Writes(s) : i < Len(hist[s]) \/ i = Len(hist[s])
              BY <2>0, HistType DEF Writes
            <6> QED
              BY <2>0, <5>1, <6>1, HistType DEF PartsInv, PartInv, CanFollow, Last
          <5>3. /\ Last(s)' = hist'[s][Len(hist'[s])]
                /\ Len(hist'[s]) \in Writes(s)'
            BY <2>0, <3>0, FailoverEffect DEF Last, Writes
          <5>4. Last(s)'.part = "none"
            BY <3>1, <5>2, <5>3
          <5>5. Outcome(s)' = "aborted"
            BY <3>1, <3>2, <3>5, <5>4 DEF Outcome, InProgress
          <5> QED
            BY <3>3, <4>2, <5>5, OneOutcomeChanges
        <4>3. CASE Outcome(s) = "working"
          <5>1. Outcome(s)' \in {"working", "aborted"}
            BY <3>1, <3>5 DEF Outcome
          <5> QED
            BY <3>3, <4>1, <4>3, <5>1, OneOutcomeChanges
        <4> QED
          BY <2>0, <3>5, <4>2, <4>3, OutcomeOfMajority
      <3> QED
        BY <3>4, <3>5
    <2>8. CASE UNCHANGED vars
      BY <2>1, <2>8 DEF vars
    <2>9. CASE QuietStep \/ SendPrepare \/ SendDecision \/ DeleteDocFails \/ AnswerFromLocalParticipant
      <3>1. hist' = hist /\ active' = active
        BY <2>9 DEF SendPrepare, SendDecision, DeleteDocFails, AnswerFromLocalParticipant, QuietStep, RunCommit, CancelIfCommitNotYetStarted,
           ReceiveVoteCommit, ReceiveVoteAbort, ReceiveAck, DeadlineWhilePreparing, DeadlineWhileWriting, Recover
      <3> QED
        BY <2>1, <3>1
    <2>10. CASE WriteParticipantList \/ WriteDecision \/ DeleteDoc
      <3>1. active' = active /\ \E d \in {"none", "participants"} \cup Decisions : WriteDoc(d)
        BY <2>0, <2>10 DEF WriteParticipantList, WriteDecision, DeleteDoc, TypeOK
      <3> QED
        BY <2>5, <3>1
    <2>11. CASE RecoverFromLocalParticipant
      <3>1. hist' = hist /\ ~active'[Coord] /\ \A t \in Shards \ {Coord} : active'[t] = active[t]
        BY <2>0, <2>11, CoordAssumption DEF RecoverFromLocalParticipant, TypeOK
      <3> QED
        BY <2>2, <3>1, CoordAssumption
    <2>12. ASSUME NEW s \in Shards, AbortUnprepared(s)
           PROVE  Atomic!Next \/ outcomes' = outcomes
      <3>1. hist' = hist /\ ~active'[s] /\ \A t \in Shards \ {s} : active'[t] = active[t]
        BY <2>0, <2>12 DEF AbortUnprepared, TypeOK
      <3> QED
        BY <2>2, <3>1
    <2>13. ASSUME NEW s \in Shards, ParticipantStep(s)
           PROVE  Atomic!Next \/ outcomes' = outcomes
      <3>1. \A t \in Shards \ {s} : active'[t] = active[t]
        BY <2>0, <2>13 DEF ParticipantStep, Prepare, CommitPrepared, AbortOnRequest, TypeOK
      <3>2. InProgress(s)
        BY <2>13 DEF ParticipantStep, Prepare, CommitPrepared, AbortOnRequest, InProgress
      <3>3. \/ \E p \in {"prepared", "committed", "aborted"} : WritePart(s, p)
            \/ hist' = hist /\ ~active'[s]
        BY <2>0, <2>13 DEF ParticipantStep, Prepare, CommitPrepared, AbortOnRequest, TypeOK
      <3> QED
        BY <2>2, <2>4, <3>1, <3>2, <3>3
    <2> QED
      BY <2>6, <2>7, <2>8, <2>9, <2>10, <2>11, <2>12, <2>13
         DEF Next, CoordinatorStep, QuietStep
  <1>3. IInv /\ IInv' /\ [Next]_vars => [Atomic!Next]_([s \in Shards |-> Outcome(s)])
    BY <1>2 DEF outcomes
  <1> QED
    BY <1>1, <1>3, CoordinatorInvariant, PTL DEF Spec, ImplementsAtomicCommit, Atomic!Spec
=============================================================================
