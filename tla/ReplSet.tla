------------------------------ MODULE ReplSet ------------------------------
(***************************************************************************)
(* Elections, replication of the oplog and the commit point of a replica   *)
(* set under protocol version 1: TopologyCoordinator, the election and     *)
(* heartbeat code of ReplicationCoordinatorImpl, VoteRequester, the checks *)
(* of OplogFetcher and the common point of RollbackImpl.                   *)
(*                                                                         *)
(* A node's oplog is the sequence of the terms of its entries; an OpTime   *)
(* is the pair <<term, position>>, compared by term first (optime.h). What *)
(* is applied and what is in the oplog are one, what is in the journal     *)
(* (durable) is a prefix of it, and a crash leaves that prefix.            *)
(*                                                                         *)
(* A message is an action that reads the sender and changes the receiver.  *)
(* It may never happen (lost) and may happen again (duplicated). A late    *)
(* one changes nothing more: terms, commit points and reported positions   *)
(* only grow at the receiver. The dry run before an election only decides  *)
(* whether the election starts, and a step-up request skips it: here an    *)
(* election may start whenever a node is a follower.                       *)
(***************************************************************************)
EXTENDS Integers, Sequences, FiniteSets, FiniteSetsExt

CONSTANTS
    Nodes,      \* the voting, data-bearing members of one configuration
    Electable,  \* the members whose priority is not zero
    MaxTerm,    \* bound: no election starts beyond this term
    MaxLen,     \* bound: no entry is written beyond this oplog length
    WriteTerms  \* bound: clients write in these terms only

ASSUME NodesAssumption == IsFiniteSet(Nodes) /\ Nodes # {}
ASSUME ElectableAssumption == Electable \subseteq Nodes
ASSUME BoundsAssumption == MaxTerm \in Nat /\ MaxLen \in Nat \ {0} /\ WriteTerms \subseteq Nat

VARIABLES
    term,           \* TopologyCoordinator::_term
    mode,           \* _role and _leaderMode, and how far an election is
    pendingTerm,    \* _pendingTermUpdateDuringStepDown, 0 when there is none
    lastVote,       \* the term of _lastVote, in memory
    diskVote,       \* the term of the local.replset.election document
    storing,        \* <<voter, term, candidate>>: votes granted, not yet stored
    election,       \* the candidate's VoteRequester: term, OpTime sent, votes
    oplog,          \* the oplog of each node
    durable,        \* how much of it is in the journal
    lastCommitted,  \* _lastCommittedOpTimeAndWallTime
    firstOpTime,    \* _firstOpTimeOfMyTerm
    memberData,     \* the durable OpTime each node knows of each other
    committed,      \* history: every OpTime a primary's own count has committed
    voteWentBack    \* history: whether a member has granted a vote in an earlier
                    \* term than the one it had voted in before

vars == <<term, mode, pendingTerm, lastVote, diskVote, storing, election,
          oplog, durable, lastCommitted, firstOpTime, memberData, committed,
          voteWentBack>>

electionVars == <<lastVote, diskVote, storing, election, voteWentBack>>
oplogVars == <<oplog, durable>>
leaderVars == <<firstOpTime, memberData>>

-----------------------------------------------------------------------------
NullOpTime == <<-1, 0>>
MaxOpTime == <<MaxTerm + 1, MaxLen + 1>>

Before(o, p) == o[1] < p[1] \/ (o[1] = p[1] /\ o[2] < p[2])
MinOpTime(o, p) == IF Before(p, o) THEN p ELSE o
LaterOpTime(o, p) == IF Before(o, p) THEN p ELSE o
Higher(s, t) == IF s < t THEN t ELSE s

OpTimeAt(log, i) == <<log[i], i>>
LastOpTime(log) == OpTimeAt(log, Len(log))
LastApplied(n) == LastOpTime(oplog[n])
LastDurable(n) == OpTimeAt(oplog[n], durable[n])
Contains(log, o) == o[2] \in DOMAIN log /\ log[o[2]] = o[1]

OpTimes == {NullOpTime, MaxOpTime} \cup ((0 .. MaxTerm) \X (1 .. MaxLen))

Majority == Cardinality(Nodes) \div 2 + 1

\* The roles and leader modes of TopologyCoordinator; a candidate is storing
\* its own vote or collecting the others'.
Candidate == {"storingVote", "requesting"}
Leader == {"kLeaderElect", "kMaster", "kSteppingDown"}
Modes == {"follower"} \cup Candidate \cup Leader

NoElection == [term |-> 0, op |-> NullOpTime, votes |-> {}]

-----------------------------------------------------------------------------
\* The replica set is initiated, every member is synced, none is primary yet.
Init ==
    /\ term = [n \in Nodes |-> 0]
    /\ mode = [n \in Nodes |-> "follower"]
    /\ pendingTerm = [n \in Nodes |-> 0]
    /\ lastVote = [n \in Nodes |-> 0]
    /\ diskVote = [n \in Nodes |-> 0]
    /\ storing = {}
    /\ election = [n \in Nodes |-> NoElection]
    /\ oplog = [n \in Nodes |-> <<0>>]
    /\ durable = [n \in Nodes |-> 1]
    /\ lastCommitted = [n \in Nodes |-> NullOpTime]
    /\ firstOpTime = [n \in Nodes |-> NullOpTime]
    /\ memberData = [n \in Nodes |-> [m \in Nodes |-> NullOpTime]]
    /\ committed = {}
    /\ voteWentBack = FALSE

-----------------------------------------------------------------------------
\* Mutant: the start of the primary's term is not looked at.
AdvanceLastCommittedOfEarlierTerm(cp, floor, applied, o, fromSyncSource) ==
    LET sameTerm == o[1] = applied[1]
        usable == IF fromSyncSource /\ ~sameTerm THEN MinOpTime(o, applied) ELSE o
    IN IF sameTerm \/ fromSyncSource THEN LaterOpTime(cp, usable) ELSE cp

\* The commit point of a node at cp once it is told that o is committed: never
\* below floor, where a primary's term begins, and never on another branch.
AdvanceLastCommitted(cp, floor, applied, o, fromSyncSource) ==
    LET sameTerm == o[1] = applied[1]
        usable == IF fromSyncSource /\ ~sameTerm THEN MinOpTime(o, applied) ELSE o
    IN IF ~Before(o, floor) /\ (sameTerm \/ fromSyncSource)
       THEN LaterOpTime(cp, usable)
       ELSE cp

Floor(n) == IF mode[n] \in Leader THEN firstOpTime[n] ELSE NullOpTime

\* Element size - majority of the sorted durable OpTimes of the members.
MajorityOpTime(known) ==
    CHOOSE o \in {known[m] : m \in Nodes} :
        /\ Cardinality({m \in Nodes : ~Before(known[m], o)}) >= Majority
        /\ Cardinality({m \in Nodes : Before(o, known[m])}) < Majority

\* A primary that has learnt of a higher term must not move the commit point.
MayCount(leaderMode) == leaderMode \in {"kLeaderElect", "kMaster"}

\* updateLastCommittedOpTimeAndWallTime on node n, which has commit point cp and
\* the given leader mode, first OpTime of its term, durable OpTime and knowledge.
UpdateLastCommitted(n, cp, leaderMode, first, applied, dur, known) ==
    LET o == MajorityOpTime([known EXCEPT ![n] = dur])
        new == AdvanceLastCommitted(cp, first, applied, o, FALSE)
        counted == MayCount(leaderMode) /\ new # cp
    IN /\ lastCommitted' = [lastCommitted EXCEPT ![n] = IF counted THEN new ELSE cp]
       /\ committed' = committed \cup (IF counted THEN {new} ELSE {})

-----------------------------------------------------------------------------
\* _updateTerm_inlock: a primary first steps down and takes the term over then.
UpdateTerm(n, t) ==
    IF t > term[n] /\ mode[n] \in Leader
    THEN /\ pendingTerm' = [pendingTerm EXCEPT ![n] = Higher(@, t)]
         /\ mode' = [mode EXCEPT ![n] = "kSteppingDown"]
         /\ term' = term
    ELSE /\ term' = [term EXCEPT ![n] = Higher(@, t)]
         /\ UNCHANGED <<pendingTerm, mode>>

\* Whether the handler that brings term t waits for a step down: only the one that
\* starts it has an event to wait for.
WaitsForStepDown(n, t) ==
    /\ t > term[n]
    /\ mode[n] \in Leader
    /\ mode[n] # "kSteppingDown"

\* StepDownSelf: the primary no longer hears from a majority.
PrepareForUnconditionalStepDown(n) ==
    /\ mode[n] \in {"kLeaderElect", "kMaster"}
    /\ mode' = [mode EXCEPT ![n] = "kSteppingDown"]
    /\ UNCHANGED <<term, pendingTerm, electionVars, oplogVars, lastCommitted,
                   leaderVars, committed>>

StepDownFinish(n) ==
    /\ mode[n] = "kSteppingDown"
    /\ mode' = [mode EXCEPT ![n] = "follower"]
    /\ term' = [term EXCEPT ![n] = Higher(@, pendingTerm[n])]
    /\ pendingTerm' = [pendingTerm EXCEPT ![n] = 0]
    /\ UNCHANGED <<electionVars, oplogVars, lastCommitted, leaderVars, committed>>

-----------------------------------------------------------------------------
\* An election. The candidate votes for itself in memory and schedules the write.
StartRealElection(n) ==
    /\ n \in Electable
    /\ mode[n] = "follower"
    /\ term[n] < MaxTerm
    /\ mode' = [mode EXCEPT ![n] = "storingVote"]
    /\ term' = [term EXCEPT ![n] = @ + 1]
    /\ lastVote' = [lastVote EXCEPT ![n] = term[n] + 1]
    /\ election' = [election EXCEPT ![n] = [NoElection EXCEPT !.term = term[n] + 1]]
    /\ UNCHANGED <<pendingTerm, diskVote, storing, voteWentBack, oplogVars,
                   lastCommitted, leaderVars, committed>>

\* Mutant: the write fails and the vote is sent all the same.
StoreLastVoteFails(n, t) == diskVote' = diskVote

\* storeLocalLastVoteDocument replaces the document only by one of a higher term.
StoreLastVote(n, t) == diskVote' = [diskVote EXCEPT ![n] = Higher(@, t)]

WriteLastVoteForMyElection(n) ==
    /\ mode[n] = "storingVote"
    /\ StoreLastVote(n, election[n].term)
    /\ IF term[n] = election[n].term
       THEN /\ mode' = [mode EXCEPT ![n] = "requesting"]
            /\ election' = [election EXCEPT ![n].op = LastApplied(n)]
       ELSE /\ mode' = [mode EXCEPT ![n] = "follower"]
            /\ election' = [election EXCEPT ![n] = NoElection]
    /\ UNCHANGED <<term, pendingTerm, lastVote, storing, voteWentBack, oplogVars,
                   lastCommitted, leaderVars, committed>>

\* The write fails or is cancelled, which loses the election.
WriteLastVoteFails(n) ==
    /\ mode[n] = "storingVote"
    /\ mode' = [mode EXCEPT ![n] = "follower"]
    /\ election' = [election EXCEPT ![n] = NoElection]
    /\ UNCHANGED <<term, pendingTerm, lastVote, diskVote, storing, voteWentBack,
                   oplogVars, lastCommitted, leaderVars, committed>>

GrantsVote(v, c) ==
    /\ election[c].term >= term'[v]
    /\ ~Before(election[c].op, LastApplied(v))
    /\ lastVote[v] # election[c].term

\* v handles the request of c: it takes the term over, which may wait for its own
\* step down, and decides; a vote it grants is still to be stored.
ProcessReplSetRequestVotes(v, c) ==
    LET t == election[c].term
    IN /\ v # c
       /\ mode[c] = "requesting"
       /\ UpdateTerm(v, t)
       /\ IF GrantsVote(v, c) /\ ~WaitsForStepDown(v, t)
          THEN /\ lastVote' = [lastVote EXCEPT ![v] = t]
               /\ storing' = storing \cup {<<v, t, c>>}
               /\ voteWentBack' = (voteWentBack \/ t < lastVote[v])
          ELSE UNCHANGED <<lastVote, storing, voteWentBack>>
       /\ UNCHANGED <<diskVote, election, oplogVars, lastCommitted, leaderVars,
                      committed>>

\* c counts the vote of v if it is still asking for votes in that term.
CountVote(v, t, c) ==
    election' = IF mode[c] = "requesting" /\ election[c].term = t
                THEN [election EXCEPT ![c].votes = @ \cup {v}]
                ELSE election

\* The vote is in the journal and v replies.
ReplyToVoteRequest(v, t, c) ==
    /\ <<v, t, c>> \in storing
    /\ storing' = storing \ {<<v, t, c>>}
    /\ StoreLastVote(v, t)
    /\ CountVote(v, t, c)
    /\ UNCHANGED <<term, mode, pendingTerm, lastVote, voteWentBack, oplogVars,
                   lastCommitted, leaderVars, committed>>

\* _votes starts at one, for the candidate itself.
Elected(n) == Cardinality(election[n].votes) + 1 >= Majority

WinElection(n) ==
    /\ mode[n] = "requesting"
    /\ term[n] = election[n].term
    /\ Elected(n)
    /\ mode' = [mode EXCEPT ![n] = "kLeaderElect"]
    /\ election' = [election EXCEPT ![n] = NoElection]
    /\ firstOpTime' = [firstOpTime EXCEPT ![n] = MaxOpTime]
    /\ UNCHANGED <<term, pendingTerm, lastVote, diskVote, storing, voteWentBack,
                   oplogVars, lastCommitted, memberData, committed>>

\* Superseded, or the other answers are negative or do not come.
LoseElection(n) ==
    /\ mode[n] = "requesting"
    /\ term[n] # election[n].term \/ ~Elected(n)
    /\ mode' = [mode EXCEPT ![n] = "follower"]
    /\ election' = [election EXCEPT ![n] = NoElection]
    /\ UNCHANGED <<term, pendingTerm, lastVote, diskVote, storing, voteWentBack,
                   oplogVars, lastCommitted, leaderVars, committed>>

-----------------------------------------------------------------------------
\* The elected primary has drained its buffer and logs its first entry, with the
\* mutex released; the first entry of its term tells that this has happened.
LoggedTransition(n) == LastApplied(n)[1] = term[n]

OnTransitionToPrimary(n) ==
    /\ mode[n] = "kLeaderElect"
    /\ ~LoggedTransition(n)
    /\ Len(oplog[n]) < MaxLen
    /\ oplog' = [oplog EXCEPT ![n] = Append(@, term[n])]
    /\ UNCHANGED <<term, mode, pendingTerm, electionVars, durable, lastCommitted,
                   leaderVars, committed>>

\* It fails, and changes nothing, when a step down has begun in between.
CompleteTransitionToPrimary(n) ==
    /\ mode[n] = "kLeaderElect"
    /\ LoggedTransition(n)
    /\ mode' = [mode EXCEPT ![n] = "kMaster"]
    /\ firstOpTime' = [firstOpTime EXCEPT ![n] = LastApplied(n)]
    /\ UpdateLastCommitted(n, lastCommitted[n], "kMaster", LastApplied(n),
                           LastApplied(n), LastDurable(n), memberData[n])
    /\ UNCHANGED <<term, pendingTerm, electionVars, oplogVars, memberData>>

\* Writes are accepted until the step down has finished.
CanAcceptNonLocalWrites(n) == mode[n] \in Leader /\ firstOpTime[n] # MaxOpTime

Write(n) ==
    /\ CanAcceptNonLocalWrites(n)
    /\ term[n] \in WriteTerms
    /\ Len(oplog[n]) < MaxLen
    /\ oplog' = [oplog EXCEPT ![n] = Append(@, term[n])]
    /\ UNCHANGED <<term, mode, pendingTerm, electionVars, durable, lastCommitted,
                   leaderVars, committed>>

\* The journal is flushed and setMyLastDurableOpTimeAndWallTime is called.
Flush(n) ==
    /\ durable[n] < Len(oplog[n])
    /\ durable' = [durable EXCEPT ![n] = Len(oplog[n])]
    /\ UpdateLastCommitted(n, lastCommitted[n], mode[n], firstOpTime[n],
                           LastApplied(n), LastApplied(n), memberData[n])
    /\ UNCHANGED <<term, mode, pendingTerm, electionVars, oplog, leaderVars>>

-----------------------------------------------------------------------------
\* The producer of n runs: n is not primary, or catches up after its election, until
\* it starts to step down.
Fetching(n) == mode[n] \notin Leader \/ (mode[n] = "kLeaderElect" /\ ~LoggedTransition(n))

\* checkRemoteOplogStart: s is ahead of n, and has the last entry of n or not.
Ahead(n, s) == Before(LastApplied(n), LastApplied(s))

OplogStartFound(n, s) == Contains(oplog[s], LastApplied(n))

\* The find and getMore commands carry the term of n. A source with a lower one
\* takes it over and fails the command.
FailStaleQuery(n, s) ==
    /\ Fetching(n)
    /\ term[n] > term[s]
    /\ UpdateTerm(s, term[n])
    /\ UNCHANGED <<electionVars, oplogVars, lastCommitted, leaderVars, committed>>

\* processMetadata: the commit point of the sync source, then its term.
ProcessMetadata(n, s) ==
    /\ lastCommitted' = [lastCommitted EXCEPT ![n] =
           AdvanceLastCommitted(@, Floor(n), LastApplied(n), lastCommitted[s], TRUE)]
    /\ UpdateTerm(n, term[s])

\* Whether the batch has an entry for n that is enqueued at once, and not after
\* the step down that a higher term in the metadata may start.
EnqueuesEntry(n, s) == Ahead(n, s) /\ ~WaitsForStepDown(n, term[s])

\* Mutant: the metadata of a first batch is used before the batch is validated.
OnUncheckedBatch(n, s) ==
    /\ Fetching(n)
    /\ term[n] <= term[s]
    /\ ProcessMetadata(n, s)
    /\ oplog' = IF OplogStartFound(n, s) /\ EnqueuesEntry(n, s)
                THEN [oplog EXCEPT ![n] = Append(@, oplog[s][Len(@) + 1])]
                ELSE oplog
    /\ UNCHANGED <<electionVars, durable, leaderVars, committed>>

\* A batch of one entry, or a later batch without any where n has all that s has:
\* its metadata, then the entry. checkRemoteOplogStart has looked at the first batch;
\* the cursor keeps the later ones on the oplog of s.
OnSuccessfulBatch(n, s) ==
    /\ Fetching(n)
    /\ term[n] <= term[s]
    /\ OplogStartFound(n, s)
    /\ ProcessMetadata(n, s)
    /\ oplog' = IF EnqueuesEntry(n, s)
                THEN [oplog EXCEPT ![n] = Append(@, oplog[s][Len(@) + 1])]
                ELSE oplog
    /\ UNCHANGED <<electionVars, durable, leaderVars, committed>>

\* The last position up to which the oplogs of n and s agree.
CommonPoint(n, s) ==
    Max({i \in DOMAIN oplog[n] \cap DOMAIN oplog[s] :
            \A j \in 1 .. i : oplog[n][j] = oplog[s][j]})

MustRollBack(n, s) == mode[n] = "follower" /\ Ahead(n, s) /\ ~OplogStartFound(n, s)

\* The invariant of _findCommonPoint; where it fails the server aborts and starts
\* again (Restart).
CommonPointIsCommitted(n, s) ==
    ~Before(OpTimeAt(oplog[n], CommonPoint(n, s)), lastCommitted[n])

\* Mutant: the durable OpTime is not reset.
RunRollbackKeepingDurable(n, s) ==
    /\ MustRollBack(n, s)
    /\ CommonPointIsCommitted(n, s)
    /\ oplog' = [oplog EXCEPT ![n] = SubSeq(@, 1, CommonPoint(n, s))]
    /\ UNCHANGED <<term, mode, pendingTerm, electionVars, durable, lastCommitted,
                   leaderVars, committed>>

RunRollback(n, s) ==
    /\ MustRollBack(n, s)
    /\ CommonPointIsCommitted(n, s)
    /\ oplog' = [oplog EXCEPT ![n] = SubSeq(@, 1, CommonPoint(n, s))]
    /\ durable' = [durable EXCEPT ![n] = CommonPoint(n, s)]
    /\ UNCHANGED <<term, mode, pendingTerm, electionVars, lastCommitted, leaderVars,
                   committed>>

-----------------------------------------------------------------------------
\* n gets a heartbeat response of s: the commit point in its metadata, its term,
\* its durable OpTime. Only a primary uses what it knows of the others.
HandleHeartbeatResponse(n, s) ==
    LET cp == AdvanceLastCommitted(lastCommitted[n], Floor(n), LastApplied(n),
                                   lastCommitted[s], FALSE)
        known == [memberData[n] EXCEPT ![s] = LaterOpTime(@, LastDurable(s))]
    IN /\ n # s
       /\ UpdateTerm(n, term[s])
       /\ IF mode[n] \in Leader /\ mode[s] \notin Leader
          THEN /\ memberData' = [memberData EXCEPT ![n] = known]
               /\ UpdateLastCommitted(n, cp, mode'[n], firstOpTime[n], LastApplied(n),
                                      LastDurable(n), known)
          ELSE /\ lastCommitted' = [lastCommitted EXCEPT ![n] = cp]
               /\ UNCHANGED <<memberData, committed>>
       /\ UNCHANGED <<electionVars, oplogVars, firstOpTime>>

\* Primary n gets a replSetUpdatePosition command of s.
ProcessReplSetUpdatePosition(n, s) ==
    LET known == [memberData[n] EXCEPT ![s] = LaterOpTime(@, LastDurable(s))]
    IN /\ n # s
       /\ mode[n] \in Leader
       /\ mode[s] \notin Leader
       /\ UpdateTerm(n, term[s])
       /\ memberData' = [memberData EXCEPT ![n] = known]
       /\ UpdateLastCommitted(n, lastCommitted[n], mode'[n], firstOpTime[n],
                              LastApplied(n), LastDurable(n), known)
       /\ UNCHANGED <<electionVars, oplogVars, firstOpTime>>

-----------------------------------------------------------------------------
\* A crash, and the start that follows: the vote and the journal are left, and
\* the term is the higher of the last entry's and the last vote's.
Restart(n) ==
    /\ term' = [term EXCEPT ![n] = Higher(LastDurable(n)[1], diskVote[n])]
    /\ mode' = [mode EXCEPT ![n] = "follower"]
    /\ pendingTerm' = [pendingTerm EXCEPT ![n] = 0]
    /\ lastVote' = [lastVote EXCEPT ![n] = diskVote[n]]
    /\ storing' = {r \in storing : r[1] # n}
    /\ election' = [election EXCEPT ![n] = NoElection]
    /\ oplog' = [oplog EXCEPT ![n] = SubSeq(@, 1, durable[n])]
    /\ lastCommitted' = [lastCommitted EXCEPT ![n] = NullOpTime]
    /\ firstOpTime' = [firstOpTime EXCEPT ![n] = NullOpTime]
    /\ memberData' = [memberData EXCEPT ![n] = [m \in Nodes |-> NullOpTime]]
    /\ UNCHANGED <<diskVote, durable, committed, voteWentBack>>

Next ==
    \/ \E n \in Nodes :
        \/ StartRealElection(n)
        \/ WriteLastVoteForMyElection(n)
        \/ WriteLastVoteFails(n)
        \/ WinElection(n)
        \/ LoseElection(n)
        \/ OnTransitionToPrimary(n)
        \/ CompleteTransitionToPrimary(n)
        \/ Write(n)
        \/ Flush(n)
        \/ PrepareForUnconditionalStepDown(n)
        \/ StepDownFinish(n)
        \/ Restart(n)
    \/ \E n, s \in Nodes :
        \/ ProcessReplSetRequestVotes(n, s)
        \/ FailStaleQuery(n, s)
        \/ OnSuccessfulBatch(n, s)
        \/ RunRollback(n, s)
        \/ HandleHeartbeatResponse(n, s)
        \/ ProcessReplSetUpdatePosition(n, s)
    \/ \E r \in storing : ReplyToVoteRequest(r[1], r[2], r[3])

Spec == Init /\ [][Next]_vars

-----------------------------------------------------------------------------
\* Types: every node's fields are in their ranges, the journal is a prefix of the
\* oplog, and terms never decrease along an oplog.
TypeOK ==
    /\ term \in [Nodes -> 0 .. MaxTerm]
    /\ mode \in [Nodes -> Modes]
    /\ pendingTerm \in [Nodes -> 0 .. MaxTerm]
    /\ lastVote \in [Nodes -> 0 .. MaxTerm]
    /\ diskVote \in [Nodes -> 0 .. MaxTerm]
    /\ storing \subseteq Nodes \X (1 .. MaxTerm) \X Nodes
    /\ election \in [Nodes -> [term : 0 .. MaxTerm, op : OpTimes, votes : SUBSET Nodes]]
    /\ \A n \in Nodes :
        /\ oplog[n] \in Seq(0 .. MaxTerm) /\ durable[n] \in DOMAIN oplog[n]
        /\ \A i, j \in DOMAIN oplog[n] : i < j => oplog[n][i] <= oplog[n][j]
    /\ lastCommitted \in [Nodes -> OpTimes]
    /\ firstOpTime \in [Nodes -> OpTimes]
    /\ memberData \in [Nodes -> [Nodes -> OpTimes]]
    /\ committed \subseteq OpTimes
    /\ voteWentBack \in BOOLEAN

\* Two nodes are never primary in the same term. (They may be: while a primary steps
\* down because of a later term, a vote in a term later still overtakes the step
\* down, and the next request in an earlier term is granted too.)
OnePrimaryPerTerm ==
    \A n, m \in Nodes :
        mode[n] \in Leader /\ mode[m] \in Leader /\ term[n] = term[m] => n = m

\* That is the only way: as long as no member has granted a vote in an earlier term
\* than its last one, two nodes are never primary in the same term, although a
\* voter may crash between granting a vote and storing it, votes overtake a step
\* down, and votes in a later term may be asked for while an earlier vote is still
\* being written.
OnePrimaryUnlessVoteWentBack == ~voteWentBack => OnePrimaryPerTerm

\* As long as no vote went back, a primary has every entry that a primary of an
\* earlier term has counted as majority-committed: an election never loses it.
PrimaryHasCommittedEntries ==
    ~voteWentBack =>
        \A n \in Nodes, o \in committed :
            mode[n] \in Leader /\ o[1] < term[n] => Contains(oplog[n], o)

\* As long as no vote went back, the commit point a node has learnt, whether from
\* its sync source or from a heartbeat of a node it does not sync from, is an entry
\* that a primary has counted as committed, or precedes one in some node's oplog.
CommitPointIsCommitted ==
    ~voteWentBack =>
        \A n \in Nodes :
            \/ lastCommitted[n] = NullOpTime
            \/ \E o \in committed, m \in Nodes :
                /\ ~Before(o, lastCommitted[n])
                /\ Contains(oplog[m], o) /\ Contains(oplog[m], lastCommitted[n])

\* Whenever a node has to roll back, the common point is not before its commit
\* point: the invariants of RollbackImpl::_findCommonPoint never stop the server.
RollbackStopsAtCommitPoint ==
    \A n, s \in Nodes :
        MustRollBack(n, s) => CommonPointIsCommitted(n, s)

\* As long as no vote went back, a node that has to roll back keeps every entry it
\* has whose OpTime a primary has counted as committed. (Nothing is said of entries
\* that are only committed because they precede such an entry elsewhere.)
RollbackKeepsCommitted ==
    ~voteWentBack =>
        \A n, s \in Nodes, o \in committed :
            MustRollBack(n, s) /\ Contains(oplog[n], o) => o[2] <= CommonPoint(n, s)
=============================================================================
