--------------------------- MODULE ReplSetProofs ---------------------------
(***************************************************************************)
(* The type invariant of ReplSet and, as long as no member has granted a   *)
(* vote in an earlier term than its last one (voteWentBack), one primary   *)
(* per term and, in the second half, that what is committed stays          *)
(* committed, for every set of members and every bound.                    *)
(*                                                                         *)
(* An election is safe because two majorities share a voter and a voter    *)
(* answers a candidate only once it has stored its vote. What has to be    *)
(* carried along is every place a vote can be in (Claims): granted and     *)
(* being stored, counted by the candidate, the candidate's own. A primary  *)
(* no longer has the votes, so each one comes with a majority of members   *)
(* that cannot support anyone else in its term (HasMajority).              *)
(***************************************************************************)
EXTENDS ReplSet, FiniteSetTheorems, TLAPS

\* Every nonempty set of naturals has a smallest element.
LEMMA SmallestExists ==
    ASSUME NEW T, T \subseteq Nat, T # {}
    PROVE  \E x \in T : \A y \in T : x <= y
  <1> DEFINE R == OpToRel(<, Nat)
  <1>1. IsWellFoundedOn(R, Nat)
    BY NatLessThanWellFounded
  <1> HIDE DEF R
  <1>2. PICK x \in T : \A y \in T : ~ (<<y, x>> \in R)
    BY <1>1, WFMin
  <1>3. ASSUME NEW y \in T PROVE x <= y
    <2>1. ~ (<<y, x>> \in {ss \in Nat \X Nat : ss[1] < ss[2]})
      BY <1>2 DEF R, OpToRel
    <2> QED
      BY <2>1
  <1> QED
    BY <1>3

\* Every nonempty set of naturals below a bound has a largest element.
LEMMA LargestExists ==
    ASSUME NEW T, NEW b \in Nat, T \subseteq 0 .. b, T # {}
    PROVE  \E x \in T : \A y \in T : y <= x
  <1> DEFINE U == {u \in 0 .. b : b - u \in T}
  <1>1. U \subseteq Nat
    OBVIOUS
  <1>2. PICK t \in T : TRUE
    OBVIOUS
  <1>3. b - t \in U
    <2>1. t \in 0 .. b
      OBVIOUS
    <2>2. b - t \in 0 .. b /\ b - (b - t) = t
      BY <2>1
    <2> QED
      BY <2>2
  <1>4. PICK u \in U : \A y \in U : u <= y
    BY <1>1, <1>3, SmallestExists
  <1>5. ASSUME NEW y \in T PROVE y <= b - u
    <2>1. y \in 0 .. b /\ u \in 0 .. b
      OBVIOUS
    <2>2. b - y \in 0 .. b /\ b - (b - y) = y
      BY <2>1
    <2>3. b - y \in U
      BY <2>2
    <2>4. u <= b - y
      BY <2>3, <1>4
    <2> QED
      BY <2>1, <2>4
  <1> QED
    BY <1>5

\* A majority is at least one node, at most all, and more than half.
LEMMA MajorityType ==
    /\ Cardinality(Nodes) \in Nat \ {0}
    /\ Majority \in Nat \ {0}
    /\ Majority <= Cardinality(Nodes)
    /\ 2 * Majority > Cardinality(Nodes)
  <1>1. Cardinality(Nodes) \in Nat /\ Cardinality(Nodes) # 0
    BY NodesAssumption, FS_CardinalityType, FS_EmptySet
  <1> QED
    BY <1>1 DEF Majority

\* Sets of nodes are finite, so they can be counted.
LEMMA NodeSets ==
    ASSUME NEW S, S \subseteq Nodes
    PROVE  /\ IsFiniteSet(S)
           /\ Cardinality(S) \in 0 .. Cardinality(Nodes)
  BY NodesAssumption, FS_Subset, FS_CardinalityType

\* Two majorities share a node.
LEMMA QuorumsMeet ==
    ASSUME NEW S, NEW T, S \subseteq Nodes, T \subseteq Nodes,
           Cardinality(S) >= Majority, Cardinality(T) >= Majority
    PROVE  \E v \in Nodes : v \in S /\ v \in T
  <1>1. Cardinality(S) + Cardinality(T) > Cardinality(Nodes)
    BY MajorityType, NodeSets
  <1>2. S \cap T # {}
    BY <1>1, FS_MajoritiesIntersect, NodesAssumption
  <1> QED
    BY <1>2

\* An OpTime is a pair of a term and a position within the bounds.
LEMMA OpTimeType ==
    ASSUME NEW o \in OpTimes
    PROVE  o = <<o[1], o[2]>> /\ o[1] \in Int /\ o[2] \in Nat
           /\ o[1] \in -1 .. MaxTerm + 1 /\ o[2] \in 0 .. MaxLen + 1
  BY BoundsAssumption DEF OpTimes, NullOpTime, MaxOpTime

\* Before, the comparison of optime.h, is a strict total order of OpTimes;
\* the smaller and the later of two OpTimes is one of them.
LEMMA OpTimeOrder ==
    ASSUME NEW o \in OpTimes, NEW p \in OpTimes, NEW q \in OpTimes
    PROVE  /\ ~Before(o, o)
           /\ Before(o, p) => ~Before(p, o)
           /\ ~Before(o, p) /\ ~Before(p, o) => o = p
           /\ Before(o, p) /\ Before(p, q) => Before(o, q)
           /\ Before(o, p) /\ ~Before(q, p) => Before(o, q)
           /\ ~Before(p, o) /\ ~Before(q, p) => ~Before(q, o)
           /\ MinOpTime(o, p) \in {o, p} /\ LaterOpTime(o, p) \in {o, p}
  BY OpTimeType DEF Before, MinOpTime, LaterOpTime

\* How many of the nodes are known to be at o or later.
AtLeast(known, o) == {m \in Nodes : ~Before(known[m], o)}

\* A proper subset of a set of nodes has fewer nodes.
LEMMA StrictlyFewer ==
    ASSUME NEW S, NEW T, T \subseteq Nodes, S \subseteq T, S # T
    PROVE  Cardinality(S) < Cardinality(T)
  <1>1. IsFiniteSet(T) /\ Cardinality(S) \in Nat /\ Cardinality(T) \in Nat
    BY NodeSets
  <1>2. Cardinality(S) <= Cardinality(T) /\ (Cardinality(T) = Cardinality(S) => T = S)
    BY <1>1, FS_Subset
  <1> QED
    BY <1>1, <1>2

\* Among some members one has the earliest known OpTime.
LEMMA EarliestKnown ==
    ASSUME NEW known \in [Nodes -> OpTimes], NEW A, A \subseteq Nodes, A # {}
    PROVE  \E m \in A : \A k \in A : ~Before(known[k], known[m])
  <1> DEFINE C(m) == Cardinality(AtLeast(known, known[m]))
             T == {C(m) : m \in A}
  <1>1. \A m \in Nodes : AtLeast(known, known[m]) \subseteq Nodes
    BY DEF AtLeast
  <1>2. T \subseteq 0 .. Cardinality(Nodes) /\ T # {}
    BY <1>1, NodeSets
  <1>3. PICK x \in T : \A y \in T : y <= x
    BY <1>2, LargestExists, MajorityType
  <1>4. PICK m \in A : x = C(m)
    OBVIOUS
  <1>5. ASSUME NEW k \in A, Before(known[k], known[m])
        PROVE  FALSE
    <2>1. AtLeast(known, known[m]) \subseteq AtLeast(known, known[k])
      BY <1>5, OpTimeOrder DEF AtLeast
    <2>2. k \in AtLeast(known, known[k]) /\ k \notin AtLeast(known, known[m])
      BY <1>5, OpTimeOrder DEF AtLeast
    <2>3. C(m) < C(k)
      BY <2>1, <2>2, <1>1, StrictlyFewer
    <2>4. C(k) <= C(m)
      BY <1>3, <1>4
    <2>5. C(m) \in Nat /\ C(k) \in Nat
      BY <1>1, NodeSets
    <2> QED
      BY <2>3, <2>4, <2>5
  <1> QED
    BY <1>5

\* The majority's OpTime is the known OpTime of a member, and a majority of the
\* members has reached it: the CHOOSE in MajorityOpTime has a witness for every
\* number of members.
LEMMA MajorityOpTimeExists ==
    ASSUME NEW known \in [Nodes -> OpTimes]
    PROVE  /\ MajorityOpTime(known) \in {known[m] : m \in Nodes}
           /\ Cardinality(AtLeast(known, MajorityOpTime(known))) >= Majority
  <1> DEFINE Later(o) == {m \in Nodes : Before(o, known[m])}
             C(m) == Cardinality(AtLeast(known, known[m]))
             T == {c \in Nat : c >= Majority /\ \E m \in Nodes : c = C(m)}
  <1>1. \A m \in Nodes : AtLeast(known, known[m]) \subseteq Nodes /\ C(m) \in Nat
    <2>1. \A m \in Nodes : AtLeast(known, known[m]) \subseteq Nodes
      BY DEF AtLeast
    <2> QED
      BY <2>1, NodeSets
  <1>2. T # {}
    <2>1. PICK m \in Nodes : \A k \in Nodes : ~Before(known[k], known[m])
      BY EarliestKnown, NodesAssumption
    <2>2. AtLeast(known, known[m]) = Nodes
      BY <2>1 DEF AtLeast
    <2> QED
      BY <2>2, MajorityType
  <1>3. PICK c \in T : \A y \in T : c <= y
    <2>1. T \subseteq Nat
      OBVIOUS
    <2> HIDE DEF T
    <2> QED
      BY <1>2, <2>1, SmallestExists
  <1>4. PICK m \in Nodes : c = C(m)
    OBVIOUS
  <1>5. Cardinality(Later(known[m])) < Majority
    <2>1. SUFFICES ASSUME Cardinality(Later(known[m])) >= Majority
                   PROVE  FALSE
      BY NodeSets, MajorityType
    <2>2. Later(known[m]) # {}
      BY <2>1, MajorityType, FS_EmptySet
    <2>3. PICK k \in Later(known[m]) : \A j \in Later(known[m]) : ~Before(known[j], known[k])
      BY <2>2, EarliestKnown
    <2>4. Later(known[m]) \subseteq AtLeast(known, known[k])
      BY <2>3 DEF AtLeast
    <2>5. C(k) >= Majority
      <3>1. Cardinality(Later(known[m])) <= C(k)
        BY <2>4, <1>1, NodeSets, FS_Subset
      <3> QED
        BY <3>1, <2>1, <1>1, NodeSets, MajorityType
    <2>6. C(k) \in T
      BY <2>5, <1>1
    <2>7. AtLeast(known, known[k]) \subseteq AtLeast(known, known[m])
      BY OpTimeOrder DEF AtLeast
    <2>8. m \in AtLeast(known, known[m]) /\ m \notin AtLeast(known, known[k])
      BY OpTimeOrder DEF AtLeast
    <2>9. C(k) < C(m)
      BY <2>7, <2>8, <1>1, StrictlyFewer
    <2> QED
      BY <2>6, <2>9, <1>3, <1>4, <1>1
  <1>6. C(m) >= Majority
    BY <1>4
  <1> QED
    BY <1>5, <1>6 DEF MajorityOpTime, AtLeast

-----------------------------------------------------------------------------
\* What the entries of node n satisfy: the oplog is never empty, starts with the
\* entry of the initiation, and no entry has a term the node has not reached.
LogInv(n) ==
    /\ Len(oplog[n]) \in 1 .. MaxLen
    /\ oplog[n][1] = 0
    /\ durable[n] \in 1 .. Len(oplog[n])
    /\ \A i \in 1 .. Len(oplog[n]) : oplog[n][i] <= term[n]
    /\ \A i, j \in 1 .. Len(oplog[n]) : i <= j => oplog[n][i] <= oplog[n][j]

\* The parts of the type invariant, with what an inductive argument needs besides.
StateTypes ==
    /\ term \in [Nodes -> 0 .. MaxTerm]
    /\ mode \in [Nodes -> Modes]
    /\ pendingTerm \in [Nodes -> 0 .. MaxTerm]

VoteTypes ==
    /\ lastVote \in [Nodes -> 0 .. MaxTerm]
    /\ diskVote \in [Nodes -> 0 .. MaxTerm]
    /\ storing \subseteq Nodes \X (1 .. MaxTerm) \X Nodes
    /\ election \in [Nodes -> [term : 0 .. MaxTerm, op : OpTimes, votes : SUBSET Nodes]]
    /\ \A c \in Nodes : mode[c] \in Candidate => election[c].term >= 1

LogTypes ==
    /\ oplog \in [Nodes -> Seq(0 .. MaxTerm)]
    /\ durable \in [Nodes -> Nat]
    /\ \A n \in Nodes : LogInv(n)

CommitTypes ==
    /\ lastCommitted \in [Nodes -> OpTimes]
    /\ firstOpTime \in [Nodes -> OpTimes]
    /\ memberData \in [Nodes -> [Nodes -> OpTimes]]
    /\ committed \subseteq OpTimes

\* The inductive strengthening of TypeOK.
BaseInv == StateTypes /\ VoteTypes /\ LogTypes /\ CommitTypes

\* The strengthening implies the type invariant that the run checks.
LEMMA BaseGivesTypes ==
    ASSUME BaseInv, voteWentBack \in BOOLEAN
    PROVE  TypeOK
  <1>1. ASSUME NEW n \in Nodes
        PROVE  /\ oplog[n] \in Seq(0 .. MaxTerm) /\ durable[n] \in DOMAIN oplog[n]
               /\ \A i, j \in DOMAIN oplog[n] : i < j => oplog[n][i] <= oplog[n][j]
    BY DEF BaseInv, LogTypes, LogInv
  <1> QED
    BY <1>1 DEF BaseInv, StateTypes, VoteTypes, CommitTypes, TypeOK

\* The modes of leaders, of candidates and of followers are disjoint.
LEMMA ModesAre ==
    /\ \A m \in Leader : m \in Modes /\ m \notin Candidate /\ m # "follower"
    /\ \A m \in Candidate : m \in Modes /\ m # "follower"
    /\ "follower" \in Modes
  BY DEF Leader, Candidate, Modes

\* The two special OpTimes are OpTimes.
LEMMA NullOpTimeType == NullOpTime \in OpTimes /\ MaxOpTime \in OpTimes
  BY DEF OpTimes

\* The record of a candidate that has collected no vote has its type.
LEMMA NoElectionType ==
    /\ NoElection \in [term : 0 .. MaxTerm, op : OpTimes, votes : SUBSET Nodes]
    /\ \A t \in 0 .. MaxTerm :
        /\ [NoElection EXCEPT !.term = t] \in
               [term : 0 .. MaxTerm, op : OpTimes, votes : SUBSET Nodes]
        /\ [NoElection EXCEPT !.term = t].term = t
        /\ [NoElection EXCEPT !.term = t].votes = {}
    /\ NoElection.term = 0 /\ NoElection.votes = {}
  BY NullOpTimeType, BoundsAssumption DEF NoElection

\* What a node has applied and what it has in the journal are OpTimes.
LEMMA LogOpTimes ==
    ASSUME BaseInv, NEW n \in Nodes
    PROVE  /\ \A i \in 1 .. Len(oplog[n]) : OpTimeAt(oplog[n], i) \in OpTimes
           /\ LastApplied(n) \in OpTimes
           /\ LastDurable(n) \in OpTimes
           /\ Len(oplog[n]) \in Nat \ {0}
           /\ oplog[n] \in Seq(0 .. MaxTerm)
           /\ durable[n] \in 1 .. Len(oplog[n])
  <1>1. oplog[n] \in Seq(0 .. MaxTerm) /\ Len(oplog[n]) \in 1 .. MaxLen
        /\ durable[n] \in 1 .. Len(oplog[n])
    BY DEF BaseInv, LogTypes, LogInv
  <1>2. \A i \in 1 .. Len(oplog[n]) : OpTimeAt(oplog[n], i) \in OpTimes
    BY <1>1, BoundsAssumption DEF OpTimeAt, OpTimes
  <1> QED
    BY <1>1, <1>2, BoundsAssumption DEF LastApplied, LastDurable, LastOpTime

\* _advanceLastCommittedOpTime answers an OpTime.
LEMMA AdvanceType ==
    ASSUME NEW cp \in OpTimes, NEW floor, NEW applied \in OpTimes, NEW o \in OpTimes,
           NEW b \in BOOLEAN
    PROVE  AdvanceLastCommitted(cp, floor, applied, o, b) \in OpTimes
  BY OpTimeOrder DEF AdvanceLastCommitted, LaterOpTime, MinOpTime

\* updateLastCommittedOpTimeAndWallTime keeps the commit points' types.
LEMMA UpdateLastCommittedType ==
    ASSUME CommitTypes, NEW n \in Nodes, NEW cp \in OpTimes, NEW leaderMode, NEW first,
           NEW applied \in OpTimes, NEW dur \in OpTimes, NEW known \in [Nodes -> OpTimes],
           UpdateLastCommitted(n, cp, leaderMode, first, applied, dur, known)
    PROVE  lastCommitted' \in [Nodes -> OpTimes] /\ committed' \subseteq OpTimes
  <1> DEFINE k == [known EXCEPT ![n] = dur]
             new == AdvanceLastCommitted(cp, first, applied, MajorityOpTime(k), FALSE)
  <1>1. k \in [Nodes -> OpTimes]
    OBVIOUS
  <1>2. MajorityOpTime(k) \in OpTimes
    BY <1>1, MajorityOpTimeExists
  <1>3. new \in OpTimes
    BY <1>2, AdvanceType
  <1>4. /\ lastCommitted' = [lastCommitted EXCEPT ![n] =
               IF MayCount(leaderMode) /\ new # cp THEN new ELSE cp]
        /\ committed' = committed \cup (IF MayCount(leaderMode) /\ new # cp THEN {new} ELSE {})
    BY DEF UpdateLastCommitted
  <1> HIDE DEF k, new
  <1> QED
    BY <1>3, <1>4 DEF CommitTypes

\* What _updateTerm_inlock does to terms and modes: terms grow, a primary keeps
\* its term and stays primary until its step down finishes, and no other node is
\* touched.
LEMMA UpdateTermEffect ==
    ASSUME StateTypes, NEW n \in Nodes, NEW t \in 0 .. MaxTerm, UpdateTerm(n, t)
    PROVE  /\ StateTypes'
           /\ \A m \in Nodes : m # n => term'[m] = term[m] /\ mode'[m] = mode[m]
           /\ \A m \in Nodes :
                /\ term'[m] >= term[m]
                /\ mode'[m] \in Leader <=> mode[m] \in Leader
                /\ mode[m] \in Leader => term'[m] = term[m]
                /\ mode[m] \notin Leader => mode'[m] = mode[m]
                /\ mode[m] = "kSteppingDown" => mode'[m] = "kSteppingDown"
           /\ t <= term[n] => mode' = mode /\ term' = term
           /\ mode[n] \notin Leader => term'[n] >= t /\ term'[n] \in {term[n], t}
           /\ t > term[n] /\ mode[n] \in Leader => mode'[n] = "kSteppingDown" /\ pendingTerm'[n] >= t
           /\ \A m \in Nodes : pendingTerm'[m] >= pendingTerm[m]
  <1>1. CASE t > term[n] /\ mode[n] \in Leader
    <2>1. /\ pendingTerm' = [pendingTerm EXCEPT ![n] = Higher(@, t)]
          /\ mode' = [mode EXCEPT ![n] = "kSteppingDown"]
          /\ term' = term
      BY <1>1 DEF UpdateTerm
    <2>2. "kSteppingDown" \in Leader /\ "kSteppingDown" \in Modes
      BY DEF Leader, Modes
    <2> QED
      BY <1>1, <2>1, <2>2, BoundsAssumption DEF StateTypes, Higher
  <1>2. CASE ~(t > term[n] /\ mode[n] \in Leader)
    <2>1. /\ term' = [term EXCEPT ![n] = Higher(@, t)]
          /\ UNCHANGED <<pendingTerm, mode>>
      BY <1>2 DEF UpdateTerm
    <2> QED
      BY <1>2, <2>1, BoundsAssumption DEF StateTypes, Higher
  <1> QED
    BY <1>1, <1>2

\* What appending an entry to the oplog of n does.
LEMMA AppendEffect ==
    ASSUME LogTypes, NEW n \in Nodes, NEW x \in 0 .. MaxTerm,
           oplog' = [oplog EXCEPT ![n] = Append(@, x)]
    PROVE  /\ oplog' \in [Nodes -> Seq(0 .. MaxTerm)]
           /\ Len(oplog'[n]) = Len(oplog[n]) + 1
           /\ \A i \in 1 .. Len(oplog[n]) : oplog'[n][i] = oplog[n][i]
           /\ oplog'[n][Len(oplog[n]) + 1] = x
           /\ \A m \in Nodes : m # n => oplog'[m] = oplog[m]
  BY DEF LogTypes

\* What a prefix of a sequence is.
LEMMA SubSeqFacts ==
    ASSUME NEW S, NEW q \in Seq(S), NEW k \in 1 .. Len(q)
    PROVE  /\ SubSeq(q, 1, k) \in Seq(S)
           /\ Len(SubSeq(q, 1, k)) = k
           /\ \A i \in 1 .. k : SubSeq(q, 1, k)[i] = q[i]
  <1>1. Len(q) \in Nat /\ k \in Nat
    OBVIOUS
  <1> QED
    BY <1>1

\* The entries of an oplog are terms.
LEMMA EntryTypes ==
    ASSUME LogTypes, NEW n \in Nodes
    PROVE  /\ Len(oplog[n]) \in Nat \ {0}
           /\ oplog[n] \in Seq(0 .. MaxTerm)
           /\ \A i \in 1 .. Len(oplog[n]) :
                oplog[n][i] \in 0 .. MaxTerm /\ oplog[n][i] \in Int
           /\ MaxTerm \in Nat
  <1>1. oplog[n] \in Seq(0 .. MaxTerm) /\ Len(oplog[n]) \in 1 .. MaxLen
    BY DEF LogTypes, LogInv
  <1> QED
    BY <1>1, BoundsAssumption

\* Terms and modes have their types.
LEMMA TermTypes ==
    ASSUME StateTypes, NEW n \in Nodes
    PROVE  term[n] \in 0 .. MaxTerm /\ term[n] \in Int /\ pendingTerm[n] \in 0 .. MaxTerm
           /\ pendingTerm[n] \in Int /\ mode[n] \in Modes /\ MaxTerm \in Nat
  BY BoundsAssumption DEF StateTypes

\* What cutting the oplog of n to its first k entries does.
LEMMA TruncateEffect ==
    ASSUME LogTypes, NEW n \in Nodes, NEW k \in 1 .. Len(oplog[n]),
           oplog' = [oplog EXCEPT ![n] = SubSeq(@, 1, k)]
    PROVE  /\ oplog' \in [Nodes -> Seq(0 .. MaxTerm)]
           /\ Len(oplog'[n]) = k
           /\ \A i \in 1 .. k : oplog'[n][i] = oplog[n][i]
           /\ \A m \in Nodes : m # n => oplog'[m] = oplog[m]
  <1> DEFINE q == SubSeq(oplog[n], 1, k)
  <1>1. q \in Seq(0 .. MaxTerm) /\ Len(q) = k /\ \A i \in 1 .. k : q[i] = oplog[n][i]
    BY EntryTypes, SubSeqFacts
  <1>2. oplog' = [oplog EXCEPT ![n] = q]
    OBVIOUS
  <1> HIDE DEF q
  <1> QED
    BY <1>1, <1>2 DEF LogTypes

\* Appending an entry of the node's term or of an earlier one, not before the last
\* entry's, keeps the oplogs well formed.
LEMMA AppendKeepsLogs ==
    ASSUME LogTypes, StateTypes, StateTypes', NEW n \in Nodes, NEW x \in 0 .. MaxTerm,
           oplog[n][Len(oplog[n])] <= x, x <= term'[n], Len(oplog[n]) < MaxLen,
           oplog' = [oplog EXCEPT ![n] = Append(@, x)], durable' = durable,
           \A m \in Nodes : term[m] <= term'[m]
    PROVE  LogTypes'
  <1>1. /\ oplog' \in [Nodes -> Seq(0 .. MaxTerm)]
        /\ Len(oplog'[n]) = Len(oplog[n]) + 1
        /\ \A i \in 1 .. Len(oplog[n]) : oplog'[n][i] = oplog[n][i]
        /\ oplog'[n][Len(oplog[n]) + 1] = x
        /\ \A m \in Nodes : m # n => oplog'[m] = oplog[m]
    BY AppendEffect
  <1>2. ASSUME NEW m \in Nodes PROVE LogInv(m)'
    <2>1. CASE m # n
      <3>1. oplog'[m] = oplog[m] /\ durable'[m] = durable[m] /\ LogInv(m)
        BY <1>1, <2>1 DEF LogTypes
      <3>2. ASSUME NEW i \in 1 .. Len(oplog[m]) PROVE oplog[m][i] <= term'[m]
        <4>1. oplog[m][i] <= term[m] /\ oplog[m][i] \in Int
          BY <3>1, EntryTypes DEF LogInv
        <4>2. term[m] \in Int /\ term'[m] \in Int /\ term[m] <= term'[m]
          BY <2>1, BoundsAssumption DEF StateTypes
        <4> QED
          BY <4>1, <4>2
      <3> QED
        BY <3>1, <3>2 DEF LogInv
    <2>2. CASE m = n
      <3>1. LogInv(n) /\ Len(oplog[n]) \in Nat
        BY DEF LogTypes, LogInv
      <3>2. \A i \in 1 .. Len(oplog'[n]) : i = Len(oplog[n]) + 1 \/ i \in 1 .. Len(oplog[n])
        BY <1>1, <3>1
      <3>3. ASSUME NEW i \in 1 .. Len(oplog[n])
            PROVE  oplog[n][i] \in 0 .. MaxTerm /\ oplog[n][i] <= x
        <4>1. oplog[n][i] \in 0 .. MaxTerm /\ oplog[n][i] \in Int
              /\ oplog[n][Len(oplog[n])] \in Int /\ x \in Int
          BY <3>1, EntryTypes
        <4>2. Len(oplog[n]) \in 1 .. Len(oplog[n]) /\ i <= Len(oplog[n])
          BY EntryTypes
        <4>3. oplog[n][i] <= oplog[n][Len(oplog[n])]
          BY <3>1, <4>2 DEF LogInv
        <4> QED
          BY <4>1, <4>3
      <3>4. Len(oplog'[n]) \in 1 .. MaxLen /\ oplog'[n][1] = 0
        BY <1>1, <3>1, BoundsAssumption DEF LogInv
      <3>5. durable'[n] \in 1 .. Len(oplog'[n])
        BY <1>1, <3>1 DEF LogInv
      <3>6. \A i \in 1 .. Len(oplog'[n]) : oplog'[n][i] <= term'[n]
        <4>1. x \in Int /\ term'[n] \in Int /\ x <= term'[n]
          BY <1>1, BoundsAssumption DEF StateTypes
        <4>2. ASSUME NEW i \in 1 .. Len(oplog[n]) PROVE oplog[n][i] \in Int /\ oplog[n][i] <= x
          BY <3>3, BoundsAssumption
        <4>3. ASSUME NEW i \in 1 .. Len(oplog[n]) PROVE oplog[n][i] <= term'[n]
          BY <4>1, <4>2
        <4> QED
          BY <1>1, <3>1, <3>2, <4>1, <4>3
      <3>7. \A i, j \in 1 .. Len(oplog'[n]) : i <= j => oplog'[n][i] <= oplog'[n][j]
        BY <1>1, <3>1, <3>2, <3>3 DEF LogInv
      <3> QED
        BY <2>2, <3>4, <3>5, <3>6, <3>7 DEF LogInv
    <2> QED
      BY <2>1, <2>2
  <1> QED
    BY <1>1, <1>2 DEF LogTypes

\* Cutting an oplog keeps the oplogs well formed.
LEMMA TruncateKeepsLogs ==
    ASSUME LogTypes, StateTypes, StateTypes', NEW n \in Nodes,
           NEW k \in 1 .. Len(oplog[n]), NEW d \in 1 .. k,
           oplog' = [oplog EXCEPT ![n] = SubSeq(@, 1, k)],
           durable' = [durable EXCEPT ![n] = d],
           \A m \in Nodes : m # n => term[m] <= term'[m],
           oplog[n][k] <= term'[n]
    PROVE  LogTypes'
  <1>1. /\ oplog' \in [Nodes -> Seq(0 .. MaxTerm)]
        /\ Len(oplog'[n]) = k
        /\ \A i \in 1 .. k : oplog'[n][i] = oplog[n][i]
        /\ \A m \in Nodes : m # n => oplog'[m] = oplog[m]
    BY TruncateEffect
  <1>2. /\ durable' \in [Nodes -> Nat]
        /\ durable'[n] = d
        /\ \A m \in Nodes : m # n => durable'[m] = durable[m]
    BY DEF LogTypes
  <1>3. ASSUME NEW m \in Nodes PROVE LogInv(m)'
    <2>1. CASE m # n
      <3>1. oplog'[m] = oplog[m] /\ durable'[m] = durable[m] /\ LogInv(m)
        BY <1>1, <1>2, <2>1 DEF LogTypes
      <3>2. ASSUME NEW i \in 1 .. Len(oplog[m]) PROVE oplog[m][i] <= term'[m]
        <4>1. oplog[m][i] <= term[m] /\ oplog[m][i] \in Int
          BY <3>1, EntryTypes DEF LogInv
        <4>2. term[m] \in Int /\ term'[m] \in Int /\ term[m] <= term'[m]
          BY <2>1, BoundsAssumption DEF StateTypes
        <4> QED
          BY <4>1, <4>2
      <3> QED
        BY <3>1, <3>2 DEF LogInv
    <2>2. CASE m = n
      <3>1. LogInv(n) /\ Len(oplog[n]) \in Nat
        BY DEF LogTypes, LogInv
      <3>2. \A i \in 1 .. k : i \in 1 .. Len(oplog[n]) /\ oplog[n][i] \in 0 .. MaxTerm
                              /\ oplog[n][i] <= oplog[n][k]
        BY <3>1, EntryTypes DEF LogInv
      <3>3. Len(oplog'[n]) \in 1 .. MaxLen /\ oplog'[n][1] = 0
        BY <1>1, <3>1, BoundsAssumption DEF LogInv
      <3>4. \A i \in 1 .. Len(oplog'[n]) : oplog'[n][i] <= term'[n]
        BY <1>1, <3>2, BoundsAssumption DEF StateTypes
      <3>5. \A i, j \in 1 .. Len(oplog'[n]) : i <= j => oplog'[n][i] <= oplog'[n][j]
        BY <1>1, <3>1, <3>2 DEF LogInv
      <3> QED
        BY <1>1, <1>2, <2>2, <3>3, <3>4, <3>5 DEF LogInv
    <2> QED
      BY <2>1, <2>2
  <1> QED
    BY <1>1, <1>2, <1>3 DEF LogTypes

\* Two oplogs have a common point, up to which they agree, and it is the last such
\* position: the Max in CommonPoint has a witness.
LEMMA CommonPointExists ==
    ASSUME BaseInv, NEW n \in Nodes, NEW s \in Nodes
    PROVE  /\ CommonPoint(n, s) \in 1 .. Len(oplog[n])
           /\ CommonPoint(n, s) \in 1 .. Len(oplog[s])
           /\ \A j \in 1 .. CommonPoint(n, s) : oplog[n][j] = oplog[s][j]
           /\ \A i \in 1 .. Len(oplog[n]) :
                i <= Len(oplog[s]) /\ (\A j \in 1 .. i : oplog[n][j] = oplog[s][j])
                    => i <= CommonPoint(n, s)
  <1> DEFINE S == {i \in DOMAIN oplog[n] \cap DOMAIN oplog[s] :
                      \A j \in 1 .. i : oplog[n][j] = oplog[s][j]}
             b == Len(oplog[n])
  <1>1. /\ DOMAIN oplog[n] = 1 .. Len(oplog[n]) /\ DOMAIN oplog[s] = 1 .. Len(oplog[s])
        /\ Len(oplog[n]) \in Nat \ {0} /\ Len(oplog[s]) \in Nat \ {0}
    BY LogOpTimes
  <1>2. oplog[n][1] = oplog[s][1]
    BY DEF BaseInv, LogTypes, LogInv
  <1>3. 1 \in S
    BY <1>1, <1>2
  <1>4. S \subseteq 0 .. b /\ b \in Nat
    BY <1>1
  <1>5. \E x \in S : \A y \in S : y <= x
    <2> HIDE DEF S, b
    <2> QED
      BY <1>3, <1>4, LargestExists
  <1>6. \A x \in S, y \in S : y <= x => x >= y
    BY <1>4
  <1>7. Max(S) \in S /\ \A y \in S : Max(S) >= y
    <2> HIDE DEF S, b
    <2> QED
      BY <1>5, <1>6 DEF Max
  <1>8. CommonPoint(n, s) = Max(S)
    BY DEF CommonPoint
  <1> QED
    BY <1>1, <1>7, <1>8

\* The entry a batch brings follows the last entry of n in the oplog of s.
LEMMA FetchedEntry ==
    ASSUME BaseInv, NEW n \in Nodes, NEW s \in Nodes, OnSuccessfulBatch(n, s),
           EnqueuesEntry(n, s), StateTypes'
    PROVE  LET k == Len(oplog[n])
               x == oplog[s][k + 1]
           IN  /\ k + 1 \in 1 .. Len(oplog[s])
               /\ oplog' = [oplog EXCEPT ![n] = Append(@, x)]
               /\ durable' = durable
               /\ x \in 0 .. MaxTerm
               /\ k \in 1 .. Len(oplog[s])
               /\ oplog[s][k] = oplog[n][k]
               /\ oplog[n][k] <= x
               /\ k < MaxLen
               /\ x <= term'[n]
  <1> DEFINE k == Len(oplog[n])
             l == Len(oplog[s])
             x == oplog[s][k + 1]
  <1>t. StateTypes /\ LogTypes
    BY DEF BaseInv
  <1>1. k \in Nat \ {0} /\ l \in Nat \ {0}
    BY <1>t, EntryTypes
  <1>2. k \in 1 .. l /\ oplog[s][k] = oplog[n][k]
    <2>1. Contains(oplog[s], <<oplog[n][k], k>>)
      BY DEF OnSuccessfulBatch, OplogStartFound, LastApplied, LastOpTime, OpTimeAt
    <2> QED
      BY <2>1, <1>t, EntryTypes DEF Contains
  <1>3. Before(<<oplog[n][k], k>>, <<oplog[s][l], l>>)
    BY DEF EnqueuesEntry, Ahead, LastApplied, LastOpTime, OpTimeAt
  <1>4. k # l
    BY <1>2, <1>3, <1>1, <1>t, EntryTypes DEF Before
  <1>5. k + 1 \in 1 .. l
    BY <1>1, <1>2, <1>4
  <1>6. x \in 0 .. MaxTerm /\ oplog[n][k] <= x /\ x <= term[s] /\ l <= MaxLen /\ x \in Int
    <2>1. LogInv(s)
      BY <1>t DEF LogTypes
    <2>2. k <= k + 1
      BY <1>1
    <2> QED
      <3>1. x \in 0 .. MaxTerm /\ x \in Int
        BY <1>5, <1>t, EntryTypes
      <3>2. oplog[s][k] <= x /\ x <= term[s] /\ l \in 1 .. MaxLen
        BY <1>2, <1>5, <2>1, <2>2 DEF LogInv
      <3> QED
        BY <1>2, <3>1, <3>2, BoundsAssumption
  <1>7. term'[n] >= term[s] /\ term'[n] \in Int /\ term[s] \in Int
    <2>1. UpdateTerm(n, term[s]) /\ term[n] <= term[s]
      BY DEF OnSuccessfulBatch, ProcessMetadata
    <2>2. CASE mode[n] \notin Leader
      BY <2>1, <2>2, <1>t, UpdateTermEffect, TermTypes DEF StateTypes
    <2>3. CASE mode[n] \in Leader
      <3>1. mode[n] # "kSteppingDown"
        BY <2>3 DEF OnSuccessfulBatch, Fetching
      <3>2. ~(term[s] > term[n])
        BY <2>3, <3>1 DEF EnqueuesEntry, WaitsForStepDown
      <3>3. term'[n] = term[n]
        BY <2>1, <2>3, <1>t, UpdateTermEffect, TermTypes
      <3> QED
        BY <2>1, <3>2, <3>3, <1>t, TermTypes
    <2> QED
      BY <2>2, <2>3
  <1>8. k < MaxLen /\ x <= term'[n]
    BY <1>1, <1>5, <1>6, <1>7, BoundsAssumption
  <1>9. oplog' = [oplog EXCEPT ![n] = Append(@, x)] /\ durable' = durable
    <2>1. oplog' = [oplog EXCEPT ![n] = Append(@, oplog[s][Len(@) + 1])] /\ durable' = durable
      BY DEF OnSuccessfulBatch
    <2> QED
      BY <2>1, <1>t DEF LogTypes
  <1> QED
    BY <1>2, <1>5, <1>6, <1>8, <1>9

\* The strengthening holds initially.
LEMMA BaseInit == Init => BaseInv
  <1> SUFFICES ASSUME Init PROVE BaseInv
    OBVIOUS
  <1>1. StateTypes
    BY BoundsAssumption, ModesAre DEF Init, StateTypes
  <1>2. VoteTypes
    BY BoundsAssumption, ModesAre, NoElectionType DEF Init, VoteTypes
  <1>3. LogTypes
    <2>1. <<0>> \in Seq(0 .. MaxTerm) /\ Len(<<0>>) = 1 /\ <<0>>[1] = 0
      BY BoundsAssumption
    <2>2. ASSUME NEW n \in Nodes PROVE LogInv(n)
      <3>1. oplog[n] = <<0>> /\ durable[n] = 1 /\ term[n] = 0
        BY DEF Init
      <3> QED
        BY <2>1, <3>1, BoundsAssumption DEF LogInv
    <2> QED
      BY <2>1, <2>2 DEF Init, LogTypes
  <1>4. CommitTypes
    BY NullOpTimeType DEF Init, CommitTypes
  <1> QED
    BY <1>1, <1>2, <1>3, <1>4 DEF BaseInv

\* An election ends in the same way when it is lost and when the candidate's own vote
\* cannot be stored.
EndsElection(n) ==
    /\ mode[n] \in Candidate
    /\ mode' = [mode EXCEPT ![n] = "follower"]
    /\ election' = [election EXCEPT ![n] = NoElection]
    /\ UNCHANGED <<term, pendingTerm, lastVote, diskVote, storing, voteWentBack,
                   oplogVars, lastCommitted, leaderVars, committed>>

\* These are the two actions that end one so.
LEMMA ElectionEnds ==
    ASSUME NEW n \in Nodes, LoseElection(n) \/ WriteLastVoteFails(n)
    PROVE  EndsElection(n)
  BY DEF LoseElection, WriteLastVoteFails, EndsElection, Candidate

\* Every step keeps the strengthening; one case per action.
LEMMA BaseKept ==
    ASSUME BaseInv, Next
    PROVE  BaseInv'
  <1> USE DEF electionVars, oplogVars, leaderVars
  <1>t. StateTypes /\ VoteTypes /\ LogTypes /\ CommitTypes
    BY DEF BaseInv
  <1>u. ASSUME UNCHANGED oplogVars, StateTypes', \A m \in Nodes : term[m] <= term'[m]
        PROVE  LogTypes'
    <2>1. ASSUME NEW n \in Nodes PROVE LogInv(n)'
      <3>1. oplog'[n] = oplog[n] /\ durable'[n] = durable[n] /\ LogInv(n)
        BY <1>t, <1>u DEF LogTypes
      <3>2. ASSUME NEW i \in 1 .. Len(oplog[n]) PROVE oplog[n][i] <= term'[n]
        <4>1. oplog[n][i] <= term[n] /\ oplog[n][i] \in Int
          BY <1>t, <3>1, EntryTypes DEF LogInv
        <4>2. term[n] \in Int /\ term'[n] \in Int /\ term[n] <= term'[n]
          BY <1>t, <1>u, BoundsAssumption DEF StateTypes
        <4> QED
          BY <4>1, <4>2
      <3> QED
        BY <3>1, <3>2 DEF LogInv
    <2> QED
      BY <2>1, <1>t, <1>u DEF LogTypes
  <1>r. \A n \in Nodes : term[n] <= term[n]
    BY <1>t, TermTypes
  <1>1. ASSUME NEW n \in Nodes, StartRealElection(n) PROVE BaseInv'
    <2>1. term[n] + 1 \in 1 .. MaxTerm
      BY <1>1, <1>t, TermTypes DEF StartRealElection
    <2>2. StateTypes' /\ \A m \in Nodes : term[m] <= term'[m]
      BY <1>1, <1>t, <2>1, TermTypes, ModesAre DEF StartRealElection, StateTypes, Modes, Candidate
    <2>3. VoteTypes'
      <3> DEFINE e == [NoElection EXCEPT !.term = term[n] + 1]
      <3>1. e \in [term : 0 .. MaxTerm, op : OpTimes, votes : SUBSET Nodes] /\ e.term >= 1
        BY <2>1, NoElectionType, BoundsAssumption
      <3>2. election' = [election EXCEPT ![n] = e]
        BY <1>1 DEF StartRealElection
      <3>3. \A c \in Nodes : c # n => mode'[c] = mode[c]
        BY <1>1, <1>t DEF StartRealElection, StateTypes
      <3> HIDE DEF e
      <3>4. election' \in [Nodes -> [term : 0 .. MaxTerm, op : OpTimes, votes : SUBSET Nodes]]
        BY <1>t, <3>1, <3>2 DEF VoteTypes
      <3>5. ASSUME NEW c \in Nodes, mode'[c] \in Candidate PROVE election'[c].term >= 1
        BY <1>t, <3>1, <3>2, <3>3, <3>5 DEF VoteTypes
      <3>6. lastVote' \in [Nodes -> 0 .. MaxTerm] /\ UNCHANGED <<diskVote, storing>>
        BY <1>1, <1>t, <2>1, BoundsAssumption DEF StartRealElection, VoteTypes
      <3> QED
        BY <1>t, <3>4, <3>5, <3>6 DEF VoteTypes
    <2>4. LogTypes'
      BY <1>1, <1>u, <2>2 DEF StartRealElection
    <2>5. CommitTypes'
      BY <1>1, <1>t DEF StartRealElection, CommitTypes
    <2> QED
      BY <2>2, <2>3, <2>4, <2>5 DEF BaseInv
  <1>2. ASSUME NEW n \in Nodes, WriteLastVoteForMyElection(n) PROVE BaseInv'
    <2>1. StateTypes' /\ LogTypes' /\ CommitTypes'
      <3>1. StateTypes'
        BY <1>2, <1>t, ModesAre DEF WriteLastVoteForMyElection, StateTypes, Modes, Candidate
      <3>2. LogTypes'
        BY <1>2, <3>1, <1>u, <1>r DEF WriteLastVoteForMyElection
      <3> QED
        BY <1>2, <1>t, <3>1, <3>2 DEF WriteLastVoteForMyElection, CommitTypes
    <2>2. diskVote' \in [Nodes -> 0 .. MaxTerm]
      BY <1>2, <1>t, BoundsAssumption DEF WriteLastVoteForMyElection, StoreLastVote, Higher, VoteTypes
    <2>3. election' \in [Nodes -> [term : 0 .. MaxTerm, op : OpTimes, votes : SUBSET Nodes]]
      <3>1. LastApplied(n) \in OpTimes
        BY LogOpTimes
      <3>2. \/ election' = [election EXCEPT ![n].op = LastApplied(n)]
            \/ election' = [election EXCEPT ![n] = NoElection]
        BY <1>2 DEF WriteLastVoteForMyElection
      <3> QED
        BY <3>1, <3>2, <1>t, NoElectionType DEF VoteTypes
    <2>4. ASSUME NEW c \in Nodes, mode'[c] \in Candidate PROVE election'[c].term >= 1
      <3>1. CASE term[n] = election[n].term
        BY <1>2, <1>t, <2>4, <3>1 DEF WriteLastVoteForMyElection, VoteTypes, StateTypes, Candidate
      <3>2. CASE term[n] # election[n].term
        BY <1>2, <1>t, <2>4, <3>2, ModesAre DEF WriteLastVoteForMyElection, VoteTypes, StateTypes
      <3> QED
        BY <3>1, <3>2
    <2> QED
      BY <1>2, <1>t, <2>1, <2>2, <2>3, <2>4 DEF WriteLastVoteForMyElection, VoteTypes, BaseInv
  <1>3. ASSUME NEW n \in Nodes, WinElection(n) PROVE BaseInv'
    <2>1. StateTypes'
      BY <1>3, <1>t, ModesAre DEF WinElection, StateTypes, Modes, Leader
    <2>2. VoteTypes'
      BY <1>3, <1>t, NoElectionType, ModesAre DEF WinElection, VoteTypes, StateTypes, Leader
    <2>3. LogTypes'
      BY <1>3, <2>1, <1>u, <1>r DEF WinElection
    <2>4. CommitTypes'
      BY <1>3, <1>t, NullOpTimeType DEF WinElection, CommitTypes
    <2> QED
      BY <2>1, <2>2, <2>3, <2>4 DEF BaseInv
  <1>4. ASSUME NEW n \in Nodes, EndsElection(n) PROVE BaseInv'
    <2>1. StateTypes'
      BY <1>4, <1>t, ModesAre DEF EndsElection, StateTypes
    <2>2. VoteTypes'
      BY <1>4, <1>t, NoElectionType, ModesAre DEF EndsElection, VoteTypes, StateTypes
    <2>3. LogTypes'
      BY <1>4, <2>1, <1>u, <1>r DEF EndsElection
    <2>4. CommitTypes'
      BY <1>4, <1>t DEF EndsElection, CommitTypes
    <2> QED
      BY <2>1, <2>2, <2>3, <2>4 DEF BaseInv
  <1>a. ASSUME NEW n \in Nodes, Len(oplog[n]) < MaxLen,
               oplog' = [oplog EXCEPT ![n] = Append(@, term[n])],
               UNCHANGED <<term, mode, pendingTerm, electionVars, durable, lastCommitted,
                           leaderVars, committed>>
        PROVE  BaseInv'
    <2>1. StateTypes' /\ VoteTypes' /\ CommitTypes'
      BY <1>a, <1>t DEF StateTypes, VoteTypes, CommitTypes
    <2>2. oplog[n][Len(oplog[n])] <= term[n]
      BY <1>t, EntryTypes DEF LogTypes, LogInv
    <2>3. LogTypes'
      BY <1>a, <1>t, <1>r, <2>1, <2>2, AppendKeepsLogs, TermTypes
    <2> QED
      BY <2>1, <2>3 DEF BaseInv
  <1>5. ASSUME NEW n \in Nodes, OnTransitionToPrimary(n) PROVE BaseInv'
    BY <1>5, <1>a DEF OnTransitionToPrimary
  <1>6. ASSUME NEW n \in Nodes, CompleteTransitionToPrimary(n) PROVE BaseInv'
    <2>1. StateTypes'
      BY <1>6, <1>t, ModesAre DEF CompleteTransitionToPrimary, StateTypes, Modes, Leader
    <2>2. VoteTypes'
      BY <1>6, <1>t, ModesAre DEF CompleteTransitionToPrimary, VoteTypes, StateTypes, Candidate
    <2>3. LogTypes'
      BY <1>6, <2>1, <1>u, <1>r DEF CompleteTransitionToPrimary
    <2>4. lastCommitted' \in [Nodes -> OpTimes] /\ committed' \subseteq OpTimes
      <3>1. lastCommitted[n] \in OpTimes /\ memberData[n] \in [Nodes -> OpTimes]
            /\ LastApplied(n) \in OpTimes /\ LastDurable(n) \in OpTimes
        BY <1>t, LogOpTimes DEF CommitTypes
      <3>2. UpdateLastCommitted(n, lastCommitted[n], "kMaster", LastApplied(n),
                                LastApplied(n), LastDurable(n), memberData[n])
        BY <1>6 DEF CompleteTransitionToPrimary
      <3> QED
        BY <1>t, <3>1, <3>2, UpdateLastCommittedType
    <2>5. CommitTypes'
      BY <1>6, <1>t, <2>4, LogOpTimes DEF CompleteTransitionToPrimary, CommitTypes
    <2> QED
      BY <2>1, <2>2, <2>3, <2>5 DEF BaseInv
  <1>7. ASSUME NEW n \in Nodes, Write(n) PROVE BaseInv'
    BY <1>7, <1>a DEF Write
  <1>8. ASSUME NEW n \in Nodes, Flush(n) PROVE BaseInv'
    <2>1. StateTypes' /\ VoteTypes'
      BY <1>8, <1>t DEF Flush, StateTypes, VoteTypes
    <2>2. LogTypes'
      <3>1. durable' = [durable EXCEPT ![n] = Len(oplog[n])] /\ oplog' = oplog /\ term' = term
        BY <1>8 DEF Flush
      <3>2. durable' \in [Nodes -> Nat] /\ durable'[n] = Len(oplog[n])
            /\ \A m \in Nodes : m # n => durable'[m] = durable[m]
        BY <3>1, <1>t, EntryTypes DEF LogTypes
      <3>3. ASSUME NEW m \in Nodes PROVE LogInv(m)'
        <4>1. durable'[m] \in 1 .. Len(oplog[m])
          <5>1. CASE m = n
            BY <5>1, <3>2, <1>t, EntryTypes
          <5>2. CASE m # n
            BY <5>2, <3>2, <1>t DEF LogTypes, LogInv
          <5> QED
            BY <5>1, <5>2
        <4> QED
          BY <4>1, <3>1, <1>t DEF LogTypes, LogInv
      <3> QED
        BY <3>1, <3>2, <3>3, <1>t DEF LogTypes
    <2>3. lastCommitted' \in [Nodes -> OpTimes] /\ committed' \subseteq OpTimes
      <3>1. lastCommitted[n] \in OpTimes /\ memberData[n] \in [Nodes -> OpTimes]
            /\ LastApplied(n) \in OpTimes
        BY <1>t, LogOpTimes DEF CommitTypes
      <3>2. UpdateLastCommitted(n, lastCommitted[n], mode[n], firstOpTime[n],
                                LastApplied(n), LastApplied(n), memberData[n])
        BY <1>8 DEF Flush
      <3> QED
        BY <1>t, <3>1, <3>2, UpdateLastCommittedType
    <2>4. CommitTypes'
      BY <1>8, <1>t, <2>3 DEF Flush, CommitTypes
    <2> QED
      BY <2>1, <2>2, <2>4 DEF BaseInv
  <1>9. ASSUME NEW n \in Nodes, PrepareForUnconditionalStepDown(n) PROVE BaseInv'
    <2>1. StateTypes'
      BY <1>9, <1>t DEF PrepareForUnconditionalStepDown, StateTypes, Modes, Leader
    <2>2. VoteTypes'
      BY <1>9, <1>t DEF PrepareForUnconditionalStepDown, VoteTypes, StateTypes, Candidate
    <2>3. LogTypes'
      BY <1>9, <2>1, <1>u, <1>r DEF PrepareForUnconditionalStepDown
    <2> QED
      BY <1>9, <1>t, <2>1, <2>2, <2>3 DEF PrepareForUnconditionalStepDown, CommitTypes, BaseInv
  <1>10. ASSUME NEW n \in Nodes, StepDownFinish(n) PROVE BaseInv'
    <2>1. StateTypes' /\ \A m \in Nodes : term[m] <= term'[m]
      BY <1>10, <1>t, BoundsAssumption DEF StepDownFinish, StateTypes, Modes, Higher
    <2>2. VoteTypes'
      BY <1>10, <1>t, ModesAre DEF StepDownFinish, VoteTypes, StateTypes
    <2>3. LogTypes'
      BY <1>10, <2>1, <1>u DEF StepDownFinish
    <2> QED
      BY <1>10, <1>t, <2>1, <2>2, <2>3 DEF StepDownFinish, CommitTypes, BaseInv
  <1>11. ASSUME NEW n \in Nodes, Restart(n) PROVE BaseInv'
    <2>1. durable[n] \in 1 .. Len(oplog[n]) /\ LastDurable(n)[1] = oplog[n][durable[n]]
          /\ oplog[n][durable[n]] \in 0 .. MaxTerm /\ diskVote[n] \in 0 .. MaxTerm
      BY <1>t, LogOpTimes, EntryTypes DEF LastDurable, OpTimeAt, VoteTypes
    <2>2. /\ StateTypes' /\ oplog[n][durable[n]] <= term'[n]
          /\ \A m \in Nodes : m # n => term'[m] = term[m] /\ mode'[m] = mode[m]
      BY <1>11, <1>t, <2>1, ModesAre, BoundsAssumption DEF Restart, StateTypes, Higher
    <2>3. VoteTypes'
      BY <1>11, <1>t, <2>1, <2>2, ModesAre, NoElectionType DEF Restart, VoteTypes, StateTypes
    <2>4. LogTypes'
      <3>1. oplog' = [oplog EXCEPT ![n] = SubSeq(@, 1, durable[n])] /\ durable' = durable
        BY <1>11 DEF Restart
      <3>2. durable' = [durable EXCEPT ![n] = durable[n]]
        BY <3>1, <1>t DEF LogTypes
      <3>3. durable[n] \in 1 .. durable[n] /\ \A m \in Nodes : m # n => term[m] <= term'[m]
        BY <1>t, <2>1, <2>2, <1>r, LogOpTimes
      <3> QED
        BY <1>t, <2>1, <2>2, <3>1, <3>2, <3>3, TruncateKeepsLogs
    <2>5. CommitTypes'
      BY <1>11, <1>t, NullOpTimeType DEF Restart, CommitTypes
    <2> QED
      BY <2>2, <2>3, <2>4, <2>5 DEF BaseInv
  <1>12. ASSUME NEW v \in Nodes, NEW c \in Nodes, ProcessReplSetRequestVotes(v, c)
         PROVE  BaseInv'
    <2>1. election[c].term \in 1 .. MaxTerm
      BY <1>12, <1>t, BoundsAssumption DEF ProcessReplSetRequestVotes, VoteTypes, Candidate
    <2>2. UpdateTerm(v, election[c].term)
      BY <1>12 DEF ProcessReplSetRequestVotes
    <2>3. /\ StateTypes' /\ \A m \in Nodes : term[m] <= term'[m]
          /\ \A m \in Nodes : mode'[m] \in Leader <=> mode[m] \in Leader
          /\ \A m \in Nodes : mode[m] \notin Leader => mode'[m] = mode[m]
      BY <1>t, <2>1, <2>2, UpdateTermEffect, BoundsAssumption DEF StateTypes
    <2>4. VoteTypes'
      <3>1. lastVote' \in [Nodes -> 0 .. MaxTerm] /\ storing' \subseteq Nodes \X (1 .. MaxTerm) \X Nodes
        BY <1>12, <1>t, <2>1 DEF ProcessReplSetRequestVotes, VoteTypes
      <3>2. \A m \in Nodes : mode'[m] \in Candidate => mode[m] \in Candidate
        BY <2>3, ModesAre
      <3> QED
        BY <1>12, <1>t, <3>1, <3>2 DEF ProcessReplSetRequestVotes, VoteTypes
    <2>5. LogTypes'
      BY <1>12, <2>3, <1>u DEF ProcessReplSetRequestVotes
    <2> QED
      BY <1>12, <1>t, <2>3, <2>4, <2>5 DEF ProcessReplSetRequestVotes, CommitTypes, BaseInv
  <1>v. ASSUME NEW n \in Nodes, NEW s \in Nodes, UpdateTerm(n, term[s]), UNCHANGED electionVars
        PROVE  /\ StateTypes' /\ \A m \in Nodes : term[m] <= term'[m]
               /\ VoteTypes'
    <2>1. /\ StateTypes' /\ \A m \in Nodes : term'[m] >= term[m]
          /\ \A m \in Nodes : mode'[m] \in Leader <=> mode[m] \in Leader
          /\ \A m \in Nodes : mode[m] \notin Leader => mode'[m] = mode[m]
      BY <1>v, <1>t, UpdateTermEffect, TermTypes
    <2>2. \A m \in Nodes : mode'[m] \in Candidate => mode[m] \in Candidate
      BY <2>1, ModesAre
    <2>3. \A m \in Nodes : term[m] <= term'[m]
      BY <2>1, <1>t, BoundsAssumption DEF StateTypes
    <2> QED
      BY <2>1, <2>2, <2>3, <1>v, <1>t DEF VoteTypes
  <1>13. ASSUME NEW n \in Nodes, NEW s \in Nodes, FailStaleQuery(n, s) PROVE BaseInv'
    <2>1. StateTypes' /\ (\A m \in Nodes : term[m] <= term'[m]) /\ VoteTypes'
      BY <1>13, <1>v DEF FailStaleQuery
    <2>2. LogTypes'
      BY <1>13, <2>1, <1>u DEF FailStaleQuery
    <2> QED
      BY <1>13, <1>t, <2>1, <2>2 DEF FailStaleQuery, CommitTypes, BaseInv
  <1>14. ASSUME NEW n \in Nodes, NEW s \in Nodes, OnSuccessfulBatch(n, s) PROVE BaseInv'
    <2>1. StateTypes' /\ (\A m \in Nodes : term[m] <= term'[m]) /\ VoteTypes'
      BY <1>14, <1>v DEF OnSuccessfulBatch, ProcessMetadata
    <2>2. CommitTypes'
      <3>1. lastCommitted[n] \in OpTimes /\ lastCommitted[s] \in OpTimes /\ LastApplied(n) \in OpTimes
        BY <1>t, LogOpTimes DEF CommitTypes
      <3>2. AdvanceLastCommitted(lastCommitted[n], Floor(n), LastApplied(n), lastCommitted[s], TRUE)
                \in OpTimes
        BY <3>1, AdvanceType
      <3> QED
        BY <1>14, <1>t, <3>2 DEF OnSuccessfulBatch, ProcessMetadata, CommitTypes
    <2>3. LogTypes'
      <3>1. CASE ~EnqueuesEntry(n, s)
        <4>1. UNCHANGED oplogVars
          BY <1>14, <3>1 DEF OnSuccessfulBatch
        <4> QED
          BY <4>1, <2>1, <1>u
      <3>2. CASE EnqueuesEntry(n, s)
        BY <1>14, <1>t, <2>1, <3>2, FetchedEntry, AppendKeepsLogs
      <3> QED
        BY <3>1, <3>2
    <2> QED
      BY <2>1, <2>2, <2>3 DEF BaseInv
  <1>15. ASSUME NEW n \in Nodes, NEW s \in Nodes, RunRollback(n, s) PROVE BaseInv'
    <2>1. StateTypes' /\ VoteTypes' /\ CommitTypes'
      BY <1>15, <1>t DEF RunRollback, StateTypes, VoteTypes, CommitTypes
    <2>2. CommonPoint(n, s) \in 1 .. Len(oplog[n]) /\ Len(oplog[n]) \in Nat
      BY CommonPointExists, LogOpTimes
    <2>3. CommonPoint(n, s) \in 1 .. CommonPoint(n, s)
      BY <2>2
    <2>4. oplog[n][CommonPoint(n, s)] <= term'[n]
      BY <1>15, <1>t, <2>2 DEF RunRollback, LogTypes, LogInv
    <2>5. LogTypes'
      BY <1>15, <1>t, <1>r, <2>1, <2>2, <2>3, <2>4, TruncateKeepsLogs DEF RunRollback
    <2> QED
      BY <2>1, <2>5 DEF BaseInv
  <1>w. ASSUME NEW n \in Nodes, NEW s \in Nodes, NEW cp \in OpTimes, NEW lm, NEW known,
               known = [memberData[n] EXCEPT ![s] = LaterOpTime(@, LastDurable(s))],
               memberData' = [memberData EXCEPT ![n] = known],
               UpdateLastCommitted(n, cp, lm, firstOpTime[n], LastApplied(n), LastDurable(n), known),
               firstOpTime' = firstOpTime
        PROVE  CommitTypes'
    <2>1. LastApplied(n) \in OpTimes /\ LastDurable(n) \in OpTimes /\ LastDurable(s) \in OpTimes
          /\ memberData[n] \in [Nodes -> OpTimes]
      BY <1>t, LogOpTimes DEF CommitTypes
    <2>2. LaterOpTime(memberData[n][s], LastDurable(s)) \in OpTimes
      BY <2>1 DEF LaterOpTime
    <2>3. known \in [Nodes -> OpTimes]
      BY <1>w, <2>1, <2>2
    <2>4. lastCommitted' \in [Nodes -> OpTimes] /\ committed' \subseteq OpTimes
      BY <1>w, <1>t, <2>1, <2>3, UpdateLastCommittedType
    <2> QED
      BY <1>w, <1>t, <2>3, <2>4 DEF CommitTypes
  <1>16. ASSUME NEW n \in Nodes, NEW s \in Nodes, HandleHeartbeatResponse(n, s) PROVE BaseInv'
    <2> DEFINE cp == AdvanceLastCommitted(lastCommitted[n], Floor(n), LastApplied(n),
                                          lastCommitted[s], FALSE)
    <2>1. StateTypes' /\ (\A m \in Nodes : term[m] <= term'[m]) /\ VoteTypes'
      BY <1>16, <1>v DEF HandleHeartbeatResponse
    <2>2. LogTypes'
      BY <1>16, <2>1, <1>u DEF HandleHeartbeatResponse
    <2>3. cp \in OpTimes
      BY <1>t, LogOpTimes, AdvanceType DEF CommitTypes
    <2>4. CommitTypes'
      <3>1. CASE mode[n] \in Leader /\ mode[s] \notin Leader
        <4> HIDE DEF cp
        <4> QED
          BY <1>16, <2>3, <3>1, <1>w DEF HandleHeartbeatResponse, cp
      <3>2. CASE ~(mode[n] \in Leader /\ mode[s] \notin Leader)
        <4>1. lastCommitted' = [lastCommitted EXCEPT ![n] = cp]
              /\ UNCHANGED <<memberData, committed, firstOpTime>>
          BY <1>16, <3>2 DEF HandleHeartbeatResponse
        <4> HIDE DEF cp
        <4> QED
          BY <1>t, <2>3, <4>1 DEF CommitTypes
      <3> QED
        BY <3>1, <3>2
    <2> QED
      BY <2>1, <2>2, <2>4 DEF BaseInv
  <1>17. ASSUME NEW n \in Nodes, NEW s \in Nodes, ProcessReplSetUpdatePosition(n, s)
         PROVE  BaseInv'
    <2>1. StateTypes' /\ (\A m \in Nodes : term[m] <= term'[m]) /\ VoteTypes'
      BY <1>17, <1>v DEF ProcessReplSetUpdatePosition
    <2>2. LogTypes'
      BY <1>17, <2>1, <1>u DEF ProcessReplSetUpdatePosition
    <2>3. lastCommitted[n] \in OpTimes
      BY <1>t DEF CommitTypes
    <2>4. CommitTypes'
      BY <1>17, <2>3, <1>w DEF ProcessReplSetUpdatePosition
    <2> QED
      BY <2>1, <2>2, <2>4 DEF BaseInv
  <1>18. ASSUME NEW r \in storing, ReplyToVoteRequest(r[1], r[2], r[3]) PROVE BaseInv'
    <2>1. r[1] \in Nodes /\ r[2] \in 1 .. MaxTerm /\ r[3] \in Nodes
      BY <1>t DEF VoteTypes
    <2>2. StateTypes' /\ CommitTypes' /\ UNCHANGED oplogVars /\ term' = term /\ mode' = mode
      BY <1>18, <1>t DEF ReplyToVoteRequest, StateTypes, CommitTypes
    <2>3. LogTypes'
      BY <2>2, <1>u, <1>r
    <2>4. diskVote' \in [Nodes -> 0 .. MaxTerm]
      BY <1>18, <1>t, <2>1, BoundsAssumption DEF ReplyToVoteRequest, StoreLastVote, Higher, VoteTypes
    <2>5. election' \in [Nodes -> [term : 0 .. MaxTerm, op : OpTimes, votes : SUBSET Nodes]]
          /\ \A c \in Nodes : election'[c].term = election[c].term
      BY <1>18, <1>t, <2>1 DEF ReplyToVoteRequest, CountVote, VoteTypes
    <2> QED
      BY <1>18, <1>t, <2>2, <2>3, <2>4, <2>5 DEF ReplyToVoteRequest, VoteTypes, BaseInv
  <1> QED
    BY <1>1, <1>2, <1>3, <1>4, <1>5, <1>6, <1>7, <1>8, <1>9, <1>10, <1>11, <1>12, <1>13,
       <1>14, <1>15, <1>16, <1>17, <1>18, ElectionEnds DEF Next

-----------------------------------------------------------------------------
\* v has voted in term t for c, and the vote may still count: v is c itself, or the
\* candidate has counted it, or it is still being stored.
Claims(v, t, c) ==
    \/ v = c /\ mode[c] \in Candidate /\ election[c].term = t
    \/ v \in election[c].votes /\ election[c].term = t
    \/ <<v, t, c>> \in storing

\* The last vote of v is not beyond its term, or the term it takes over when it has
\* stepped down: a vote may overtake the step down.
VoteBound(v) ==
    \/ lastVote[v] <= term[v]
    \/ mode[v] = "kSteppingDown" /\ lastVote[v] <= pendingTerm[v]

\* What v has voted is on record: stored votes are not beyond the ones in memory,
\* those not beyond the bound above, and a counted vote has been stored.
VoteInv(v) ==
    /\ diskVote[v] <= lastVote[v]
    /\ VoteBound(v)
    /\ \A t \in Nat, c \in Nodes : Claims(v, t, c) => t <= lastVote[v]
    /\ \A c \in Nodes : v \in election[c].votes => election[c].term <= diskVote[v]
    /\ mode[v] = "requesting" => election[v].term <= diskVote[v]

\* v has voted for one candidate in each term.
OneVote(v) ==
    \A t \in Nat, c, d \in Nodes : Claims(v, t, c) /\ Claims(v, t, d) => c = d

\* v can no longer vote for another than c in term t.
Supports(v, t, c) ==
    /\ t <= diskVote[v]
    /\ \A d \in Nodes : Claims(v, t, d) => d = c

\* A majority of the members cannot vote for another candidate in the term of c.
HasMajority(c) ==
    \E Q \in SUBSET Nodes : Cardinality(Q) >= Majority /\ \A v \in Q : Supports(v, term[c], c)

\* A candidate does not count itself among the others; only candidates count.
CandidateInv(c) ==
    /\ c \notin election[c].votes
    /\ mode[c] \notin Candidate => election[c].votes = {}

\* The inductive strengthening of OnePrimaryPerTerm.
ElectionInv ==
    /\ \A v \in Nodes : VoteInv(v) /\ OneVote(v) /\ CandidateInv(v)
    /\ \A c \in Nodes : mode[c] \in Leader => HasMajority(c)
    /\ \A r \in storing : r[1] # r[3]
    /\ OnePrimaryPerTerm

\* Votes and election terms are naturals.
LEMMA VoteNumbers ==
    ASSUME BaseInv, NEW v \in Nodes
    PROVE  /\ diskVote[v] \in Nat /\ lastVote[v] \in Nat /\ term[v] \in Nat
           /\ diskVote[v] \in 0 .. MaxTerm /\ lastVote[v] \in 0 .. MaxTerm
           /\ election[v].term \in Nat /\ election[v].term \in 0 .. MaxTerm
           /\ election[v].votes \subseteq Nodes
  BY BoundsAssumption DEF BaseInv, StateTypes, VoteTypes

\* The strengthening holds initially.
LEMMA ElectionInit == Init => ElectionInv
  <1> SUFFICES ASSUME Init PROVE ElectionInv
    OBVIOUS
  <1>1. ASSUME NEW v \in Nodes
        PROVE  /\ mode[v] = "follower" /\ election[v].votes = {} /\ diskVote[v] = 0
               /\ lastVote[v] = 0 /\ term[v] = 0 /\ storing = {}
               /\ mode[v] \notin Candidate /\ mode[v] \notin Leader /\ mode[v] # "requesting"
    BY NoElectionType DEF Init, Candidate, Leader
  <1>2. ASSUME NEW v \in Nodes, NEW t, NEW c \in Nodes PROVE ~Claims(v, t, c)
    BY <1>1 DEF Claims
  <1>3. storing = {}
    BY DEF Init
  <1>4. OnePrimaryPerTerm
    BY <1>1 DEF OnePrimaryPerTerm
  <1>5. ASSUME NEW v \in Nodes PROVE VoteInv(v) /\ OneVote(v) /\ CandidateInv(v)
    BY <1>1, <1>2 DEF VoteInv, VoteBound, OneVote, CandidateInv
  <1> QED
    BY <1>1, <1>3, <1>4, <1>5 DEF ElectionInv

\* A step in which at most one member votes, in a term it has not voted in, keeps
\* one vote per term and the majorities of the primaries.
LEMMA ClaimsStep ==
    ASSUME BaseInv, BaseInv', ElectionInv,
           NEW v0 \in Nodes, NEW t0 \in Nat, NEW c0, lastVote[v0] < t0,
           \A v, c \in Nodes, t \in Nat :
               Claims(v, t, c)' => Claims(v, t, c) \/ (v = v0 /\ t = t0 /\ c = c0),
           \A v \in Nodes : diskVote[v] <= diskVote'[v],
           \A c \in Nodes : mode'[c] \in Leader => mode[c] \in Leader /\ term'[c] = term[c]
    PROVE  /\ \A v \in Nodes : OneVote(v)'
           /\ \A c \in Nodes : mode'[c] \in Leader => HasMajority(c)'
           /\ OnePrimaryPerTerm'
  <1>1. \A v \in Nodes : VoteInv(v) /\ OneVote(v)
    BY DEF ElectionInv
  <1>2. \A c \in Nodes : ~Claims(v0, t0, c)
    BY <1>1, VoteNumbers DEF VoteInv
  <1>3. ASSUME NEW v \in Nodes PROVE OneVote(v)'
    BY <1>1, <1>2 DEF OneVote
  <1>4. ASSUME NEW v \in Nodes, NEW c \in Nodes, NEW t \in Nat, Supports(v, t, c)
        PROVE  Supports(v, t, c)'
    <2>1. t <= diskVote'[v]
      <3>1. t <= diskVote[v] /\ diskVote[v] <= diskVote'[v] /\ diskVote[v] \in Nat
        BY <1>4, VoteNumbers DEF Supports
      <3>2. diskVote'[v] \in Nat
        BY BoundsAssumption DEF BaseInv, VoteTypes
      <3> QED
        BY <3>1, <3>2
    <2>2. v = v0 => t # t0
      BY <1>1, <1>4, VoteNumbers DEF Supports, VoteInv
    <2> QED
      BY <1>4, <2>1, <2>2 DEF Supports
  <1>5. ASSUME NEW c \in Nodes, mode'[c] \in Leader PROVE HasMajority(c)'
    <2>1. HasMajority(c) /\ term'[c] = term[c] /\ term[c] \in Nat
      BY <1>5, VoteNumbers DEF ElectionInv
    <2> QED
      BY <2>1, <1>4 DEF HasMajority
  <1>6. OnePrimaryPerTerm'
    BY DEF OnePrimaryPerTerm, ElectionInv
  <1> QED
    BY <1>3, <1>5, <1>6

\* v stays within the term it takes over: it has not stepped down, or has taken it.
StepsDownOn(v) ==
    mode[v] = "kSteppingDown" =>
        \/ mode'[v] = "kSteppingDown" /\ pendingTerm[v] <= pendingTerm'[v]
        \/ pendingTerm[v] <= term'[v]

\* A step in which v does not vote keeps its vote within the bound.
LEMMA BoundKept ==
    ASSUME BaseInv, BaseInv', NEW v \in Nodes, VoteBound(v), lastVote'[v] = lastVote[v],
           term[v] <= term'[v], StepsDownOn(v)
    PROVE  VoteBound(v)'
  <1>1. lastVote[v] \in Nat /\ term[v] \in Nat /\ pendingTerm[v] \in Int
    BY VoteNumbers, TermTypes DEF BaseInv
  <1>2. term'[v] \in Nat /\ pendingTerm'[v] \in Nat
    BY BoundsAssumption DEF BaseInv, StateTypes
  <1> QED
    BY <1>1, <1>2 DEF VoteBound, StepsDownOn

\* A node that is not stepping down has not voted beyond its term.
LEMMA PlainBound ==
    ASSUME NEW v \in Nodes, VoteBound(v), mode[v] # "kSteppingDown"
    PROVE  lastVote[v] <= term[v]
  BY DEF VoteBound

\* A step that leaves the votes and the candidates alone keeps the strengthening.
LEMMA QuietElection ==
    ASSUME BaseInv, BaseInv', ElectionInv, UNCHANGED electionVars,
           \A m \in Nodes : mode'[m] \in Candidate <=> mode[m] \in Candidate,
           \A m \in Nodes : mode'[m] \in Candidate => mode'[m] = mode[m],
           \A m \in Nodes : mode'[m] \in Leader => mode[m] \in Leader /\ term'[m] = term[m],
           \A m \in Nodes : term[m] <= term'[m] /\ StepsDownOn(m)
    PROVE  ElectionInv'
  <1> USE DEF electionVars
  <1>1. ASSUME NEW v \in Nodes, NEW c \in Nodes, NEW t \in Nat
        PROVE  Claims(v, t, c)' <=> Claims(v, t, c)
    BY DEF Claims
  <1>2. \A v \in Nodes : diskVote[v] <= diskVote'[v]
    BY VoteNumbers
  <1>3. PICK v0 \in Nodes : TRUE
    BY NodesAssumption
  <1>4. MaxTerm + 1 \in Nat /\ lastVote[v0] < MaxTerm + 1
    BY VoteNumbers, BoundsAssumption
  <1>5. /\ \A v \in Nodes : OneVote(v)'
        /\ \A c \in Nodes : mode'[c] \in Leader => HasMajority(c)'
        /\ OnePrimaryPerTerm'
    BY <1>1, <1>2, <1>4, ClaimsStep
  <1>6. ASSUME NEW v \in Nodes PROVE VoteInv(v)' /\ CandidateInv(v)'
    <2>1. VoteInv(v) /\ CandidateInv(v)
      BY DEF ElectionInv
    <2>2. VoteBound(v)'
      BY <2>1, BoundKept DEF VoteInv
    <2>3. mode'[v] = "requesting" => mode[v] = "requesting"
      BY DEF Candidate
    <2> QED
      BY <1>1, <2>1, <2>2, <2>3 DEF VoteInv, CandidateInv
  <1> QED
    BY <1>5, <1>6 DEF ElectionInv

\* Learning a term never makes a step down forget the term it is for.
LEMMA UpdateTermStepsDown ==
    ASSUME StateTypes, NEW n \in Nodes, NEW t \in 0 .. MaxTerm, UpdateTerm(n, t), NEW m \in Nodes
    PROVE  StepsDownOn(m)
  <1>1. /\ mode[m] = "kSteppingDown" => mode'[m] = "kSteppingDown"
        /\ pendingTerm'[m] >= pendingTerm[m] /\ StateTypes'
    BY UpdateTermEffect
  <1>2. pendingTerm[m] <= pendingTerm'[m]
    BY <1>1, BoundsAssumption DEF StateTypes
  <1> QED
    BY <1>1, <1>2 DEF StepsDownOn

\* Learning a term keeps the strengthening.
LEMMA UpdateTermQuiet ==
    ASSUME BaseInv, BaseInv', ElectionInv, NEW n \in Nodes, NEW s \in Nodes,
           UpdateTerm(n, term[s]), UNCHANGED electionVars
    PROVE  ElectionInv'
  <1>1. /\ \A m \in Nodes : term'[m] >= term[m]
        /\ \A m \in Nodes : mode'[m] \in Leader <=> mode[m] \in Leader
        /\ \A m \in Nodes : mode[m] \in Leader => term'[m] = term[m]
        /\ \A m \in Nodes : mode[m] \notin Leader => mode'[m] = mode[m]
    BY UpdateTermEffect, TermTypes DEF BaseInv
  <1>2. \A m \in Nodes : term[m] <= term'[m]
    BY <1>1, BoundsAssumption DEF BaseInv, StateTypes
  <1>3. \A m \in Nodes : StepsDownOn(m)
    BY UpdateTermStepsDown, TermTypes DEF BaseInv
  <1> QED
    BY <1>1, <1>2, <1>3, ModesAre, QuietElection

\* Every step keeps the strengthening; one case per action.
LEMMA ElectionKept ==
    ASSUME ~voteWentBack', BaseInv, BaseInv', ElectionInv, Next
    PROVE  ElectionInv'
  <1>n. \A v \in Nodes : /\ diskVote[v] \in Nat /\ lastVote[v] \in Nat /\ term[v] \in Nat
                         /\ election[v].term \in Nat /\ election[v].votes \subseteq Nodes
    BY VoteNumbers
  <1>m. \A v \in Nodes : /\ diskVote'[v] \in Nat /\ lastVote'[v] \in Nat /\ term'[v] \in Nat
    BY BoundsAssumption DEF BaseInv, VoteTypes, StateTypes
  <1>f. /\ lastVote \in [Nodes -> 0 .. MaxTerm] /\ diskVote \in [Nodes -> 0 .. MaxTerm]
        /\ election \in [Nodes -> [term : 0 .. MaxTerm, op : OpTimes, votes : SUBSET Nodes]]
        /\ storing \subseteq Nodes \X (1 .. MaxTerm) \X Nodes
        /\ mode \in [Nodes -> Modes] /\ term \in [Nodes -> 0 .. MaxTerm]
        /\ pendingTerm \in [Nodes -> 0 .. MaxTerm]
    BY DEF BaseInv, VoteTypes, StateTypes
  <1>i. \A v \in Nodes : VoteInv(v) /\ OneVote(v) /\ CandidateInv(v)
    BY DEF ElectionInv
  <1>z. PICK v0 \in Nodes : TRUE
    BY NodesAssumption
  <1>y. MaxTerm + 1 \in Nat /\ lastVote[v0] < MaxTerm + 1
    BY VoteNumbers, BoundsAssumption
  <1>p. \A m \in Nodes : term[m] <= term[m] /\ pendingTerm[m] <= pendingTerm[m]
    BY <1>n, TermTypes DEF BaseInv
  <1>q. ASSUME term' = term, pendingTerm' = pendingTerm, UNCHANGED electionVars,
               \A m \in Nodes : mode'[m] = mode[m] \/ (MayCount(mode[m]) /\ mode'[m] \in Leader)
        PROVE  ElectionInv'
    <2>1. \A m \in Nodes : MayCount(mode[m]) => mode[m] \in Leader
      BY DEF MayCount, Leader
    <2>2. \A m \in Nodes : term[m] <= term'[m] /\ StepsDownOn(m)
      BY <1>p, <1>q DEF StepsDownOn, MayCount
    <2> QED
      BY <1>q, <2>1, <2>2, ModesAre, QuietElection
  <1>1. ASSUME NEW n \in Nodes, StartRealElection(n) PROVE ElectionInv'
    <2> DEFINE t0 == term[n] + 1
    <2>1. /\ mode[n] = "follower" /\ mode'[n] = "storingVote" /\ term'[n] = t0 /\ lastVote'[n] = t0
          /\ diskVote' = diskVote /\ storing' = storing
          /\ election'[n].term = t0 /\ election'[n].votes = {}
          /\ \A m \in Nodes : m # n => mode'[m] = mode[m] /\ term'[m] = term[m]
                                       /\ lastVote'[m] = lastVote[m] /\ election'[m] = election[m]
      BY <1>1, <1>f DEF StartRealElection, NoElection
    <2>2. t0 \in Nat /\ lastVote[n] < t0
      BY <1>n, <1>i, <2>1, PlainBound DEF VoteInv
    <2>3. ASSUME NEW v \in Nodes, NEW c \in Nodes, NEW t \in Nat, Claims(v, t, c)'
          PROVE  Claims(v, t, c) \/ (v = n /\ t = t0 /\ c = n)
      BY <2>1, <2>3 DEF Claims
    <2>4. \A c \in Nodes : mode'[c] \in Leader => mode[c] \in Leader /\ term'[c] = term[c]
      BY <2>1 DEF Leader
    <2>5. /\ \A v \in Nodes : OneVote(v)'
          /\ \A c \in Nodes : mode'[c] \in Leader => HasMajority(c)'
          /\ OnePrimaryPerTerm'
      <3>1. \A v \in Nodes : diskVote[v] <= diskVote'[v]
        BY <1>n, <2>1
      <3> HIDE DEF t0
      <3> QED
        BY <2>2, <2>3, <2>4, <3>1, ClaimsStep
    <2>6. ASSUME NEW v \in Nodes PROVE VoteInv(v)'
      <3>1. diskVote'[v] <= lastVote'[v] /\ lastVote[v] <= lastVote'[v]
        BY <1>i, <1>n, <2>1, <2>2 DEF VoteInv
      <3>b. VoteBound(v)'
        <4>1. CASE v = n
          BY <4>1, <1>m, <2>1, <2>2 DEF VoteBound
        <4>2. CASE v # n
          BY <4>2, <1>i, <1>1, <1>p, <2>1 DEF VoteInv, VoteBound, StartRealElection
        <4> QED
          BY <4>1, <4>2
      <3>2. ASSUME NEW t \in Nat, NEW c \in Nodes, Claims(v, t, c)' PROVE t <= lastVote'[v]
        <4>1. CASE Claims(v, t, c)
          BY <4>1, <3>1, <1>i, <1>n, <1>m DEF VoteInv
        <4>2. CASE v = n /\ t = t0 /\ c = n
          BY <4>2, <2>1, <2>2
        <4> QED
          BY <2>3, <3>2, <4>1, <4>2
      <3>3. \A c \in Nodes : v \in election'[c].votes => election'[c].term <= diskVote'[v]
        BY <1>i, <2>1 DEF VoteInv
      <3>4. mode'[v] = "requesting" => election'[v].term <= diskVote'[v]
        BY <1>i, <2>1 DEF VoteInv
      <3> QED
        BY <3>1, <3>b, <3>2, <3>3, <3>4 DEF VoteInv
    <2>7. ASSUME NEW v \in Nodes PROVE CandidateInv(v)'
      BY <1>i, <2>1 DEF CandidateInv
    <2> QED
      BY <2>1, <2>5, <2>6, <2>7 DEF ElectionInv
  <1>2. ASSUME NEW n \in Nodes, WriteLastVoteForMyElection(n) PROVE ElectionInv'
    <2>1. /\ mode[n] = "storingVote" /\ term' = term /\ lastVote' = lastVote /\ storing' = storing
          /\ diskVote' = [diskVote EXCEPT ![n] = Higher(@, election[n].term)]
          /\ \A m \in Nodes : m # n => mode'[m] = mode[m] /\ election'[m] = election[m]
                                       /\ diskVote'[m] = diskVote[m]
          /\ \/ /\ mode'[n] = "requesting" /\ election'[n].term = election[n].term
                /\ election'[n].votes = election[n].votes
             \/ mode'[n] = "follower" /\ election'[n].votes = {}
      BY <1>2, <1>f DEF WriteLastVoteForMyElection, StoreLastVote, NoElection
    <2>2. diskVote[n] <= diskVote'[n] /\ election[n].term <= diskVote'[n]
          /\ diskVote'[n] \in {diskVote[n], election[n].term}
      BY <1>f, <1>n, <2>1 DEF Higher
    <2>3. ASSUME NEW v \in Nodes, NEW c \in Nodes, NEW t \in Nat, Claims(v, t, c)'
          PROVE  Claims(v, t, c)
      BY <2>1, <2>3, ModesAre DEF Claims, Candidate
    <2>4. \A c \in Nodes : mode'[c] \in Leader => mode[c] \in Leader /\ term'[c] = term[c]
      BY <2>1 DEF Leader
    <2>5. \A v \in Nodes : diskVote[v] <= diskVote'[v]
      BY <1>n, <2>1, <2>2
    <2>6. /\ \A v \in Nodes : OneVote(v)'
          /\ \A c \in Nodes : mode'[c] \in Leader => HasMajority(c)'
          /\ OnePrimaryPerTerm'
      BY <1>y, <2>3, <2>4, <2>5, ClaimsStep
    <2>7. Claims(n, election[n].term, n)
      BY <2>1 DEF Claims, Candidate
    <2>8. ASSUME NEW v \in Nodes PROVE VoteInv(v)'
      <3>1. diskVote'[v] <= lastVote'[v]
        BY <1>i, <1>n, <2>1, <2>2, <2>7 DEF VoteInv
      <3>b. VoteBound(v)'
        <4>1. pendingTerm' = pendingTerm /\ (mode[v] = "kSteppingDown" => v # n)
          BY <1>2, <2>1 DEF WriteLastVoteForMyElection
        <4> QED
          BY <4>1, <1>i, <1>p, <2>1, BoundKept DEF VoteInv, StepsDownOn
      <3>2. \A c \in Nodes : v \in election'[c].votes => election'[c].term <= diskVote'[v]
        <4> SUFFICES ASSUME NEW c \in Nodes, v \in election'[c].votes
                     PROVE  election'[c].term <= diskVote'[v]
          OBVIOUS
        <4>1. election'[c].term = election[c].term /\ v \in election[c].votes
          BY <2>1
        <4>2. election[c].term <= diskVote[v]
          BY <4>1, <1>i DEF VoteInv
        <4> QED
          BY <4>1, <4>2, <2>5, <1>n, <1>m
      <3>3. mode'[v] = "requesting" => election'[v].term <= diskVote'[v]
        BY <1>i, <2>1, <2>2 DEF VoteInv
      <3> QED
        BY <1>i, <2>1, <2>3, <3>1, <3>b, <3>2, <3>3 DEF VoteInv
    <2>9. ASSUME NEW v \in Nodes PROVE CandidateInv(v)'
      BY <1>i, <2>1 DEF CandidateInv, Candidate
    <2> QED
      BY <2>1, <2>6, <2>8, <2>9 DEF ElectionInv
  <1>d. ASSUME NEW n \in Nodes, mode[n] \in Candidate,
               UNCHANGED <<term, pendingTerm, lastVote, diskVote, storing>>,
               election' = [election EXCEPT ![n] = NoElection],
               mode' \in [Nodes -> Modes], mode'[n] \notin Candidate,
               \A m \in Nodes : m # n => mode'[m] = mode[m]
        PROVE  /\ \A v \in Nodes : VoteInv(v)' /\ CandidateInv(v)'
               /\ \A r \in storing' : r[1] # r[3]
               /\ \A v, c \in Nodes, t \in Nat : Claims(v, t, c)' => Claims(v, t, c)
    <2>1. /\ election'[n].votes = {}
          /\ \A m \in Nodes : m # n => election'[m] = election[m]
      BY <1>d, <1>f, NoElectionType
    <2>2. ASSUME NEW v \in Nodes, NEW c \in Nodes, NEW t \in Nat, Claims(v, t, c)'
          PROVE  Claims(v, t, c)
      BY <1>d, <2>1, <2>2 DEF Claims
    <2>3. ASSUME NEW v \in Nodes PROVE VoteInv(v)'
      <3>1. (mode'[v] = "requesting" => v # n) /\ (mode[v] = "kSteppingDown" => v # n)
        BY <1>d DEF Candidate
      <3>2. VoteBound(v)'
        BY <1>d, <1>i, <1>p, <3>1, BoundKept DEF VoteInv, StepsDownOn
      <3> QED
        BY <1>d, <1>i, <2>1, <2>2, <3>1, <3>2 DEF VoteInv
    <2>4. ASSUME NEW v \in Nodes PROVE CandidateInv(v)'
      BY <1>d, <1>i, <2>1 DEF CandidateInv
    <2> QED
      BY <1>d, <2>2, <2>3, <2>4 DEF ElectionInv
  <1>3. ASSUME NEW n \in Nodes, WinElection(n) PROVE ElectionInv'
    <2>1. /\ mode[n] = "requesting" /\ mode'[n] = "kLeaderElect" /\ term[n] = election[n].term
          /\ UNCHANGED <<term, pendingTerm, lastVote, diskVote, storing>>
          /\ election' = [election EXCEPT ![n] = NoElection]
          /\ mode' \in [Nodes -> Modes] /\ mode'[n] \notin Candidate /\ mode[n] \in Candidate
          /\ \A m \in Nodes : m # n => mode'[m] = mode[m]
      BY <1>3, <1>f DEF WinElection, Modes, Leader, Candidate
    <2>2. /\ \A v \in Nodes : VoteInv(v)' /\ CandidateInv(v)'
          /\ \A r \in storing' : r[1] # r[3]
          /\ \A v, c \in Nodes, t \in Nat : Claims(v, t, c)' => Claims(v, t, c)
      BY <2>1, <1>d
    <2>3. \A v \in Nodes : OneVote(v)'
      BY <1>i, <2>2 DEF OneVote
    <2> DEFINE Q == election[n].votes \cup {n}
    <2>4. Q \subseteq Nodes /\ Cardinality(Q) >= Majority
      <3>1. election[n].votes \subseteq Nodes /\ n \notin election[n].votes
        BY <1>n, <1>i DEF CandidateInv
      <3>2. IsFiniteSet(election[n].votes)
        BY <3>1, NodeSets
      <3>3. Cardinality(Q) = Cardinality(election[n].votes) + 1
        BY <3>1, <3>2, FS_AddElement
      <3> QED
        BY <1>3, <3>1, <3>3 DEF WinElection, Elected
    <2>5. ASSUME NEW v \in Q PROVE Claims(v, term[n], n) /\ term[n] <= diskVote[v] /\ v \in Nodes
      <3>1. v \in Nodes /\ (v = n \/ v \in election[n].votes)
        BY <2>4
      <3>2. Claims(v, term[n], n)
        BY <2>1, <3>1 DEF Claims, Candidate
      <3>3. term[n] <= diskVote[v]
        BY <1>i, <2>1, <3>1 DEF VoteInv
      <3> QED
        BY <3>1, <3>2, <3>3
    <2>6. ASSUME NEW v \in Q PROVE Supports(v, term[n], n)'
      <3>1. ASSUME NEW d \in Nodes, Claims(v, term[n], d)' PROVE d = n
        BY <1>i, <1>n, <2>1, <2>2, <2>5, <3>1 DEF OneVote
      <3> QED
        BY <2>1, <2>5, <3>1 DEF Supports
    <2>7. HasMajority(n)'
      BY <2>1, <2>4, <2>6 DEF HasMajority
    <2>8. ASSUME NEW c \in Nodes, mode'[c] \in Leader PROVE HasMajority(c)'
      <3>1. CASE c = n
        BY <2>7, <3>1
      <3>2. CASE c # n
        <4>1. HasMajority(c)
          BY <2>1, <2>8, <3>2 DEF ElectionInv
        <4>2. ASSUME NEW v \in Nodes, Supports(v, term[c], c) PROVE Supports(v, term[c], c)'
          BY <1>n, <2>1, <2>2, <4>2 DEF Supports
        <4> QED
          BY <2>1, <4>1, <4>2 DEF HasMajority
      <3> QED
        BY <3>1, <3>2
    <2>9. ASSUME NEW c \in Nodes, c # n, mode[c] \in Leader, term[c] = term[n] PROVE FALSE
      <3>1. PICK P \in SUBSET Nodes : Cardinality(P) >= Majority
                                      /\ \A v \in P : Supports(v, term[c], c)
        BY <2>9 DEF ElectionInv, HasMajority
      <3>2. PICK v \in Nodes : v \in P /\ v \in Q
        BY <2>4, <3>1, QuorumsMeet
      <3> QED
        BY <2>5, <2>9, <3>1, <3>2 DEF Supports
    <2>10. OnePrimaryPerTerm'
      BY <2>1, <2>9 DEF ElectionInv, OnePrimaryPerTerm
    <2> QED
      BY <2>2, <2>3, <2>8, <2>10 DEF ElectionInv
  <1>4. ASSUME NEW n \in Nodes, EndsElection(n) PROVE ElectionInv'
    <2>1. /\ mode[n] \in Candidate /\ mode'[n] = "follower"
          /\ UNCHANGED <<term, pendingTerm, lastVote, diskVote, storing>>
          /\ election' = [election EXCEPT ![n] = NoElection]
          /\ mode' \in [Nodes -> Modes] /\ mode'[n] \notin Candidate
          /\ \A m \in Nodes : m # n => mode'[m] = mode[m]
      BY <1>4, <1>f DEF EndsElection, Modes, Candidate
    <2>2. /\ \A v \in Nodes : VoteInv(v)' /\ CandidateInv(v)'
          /\ \A r \in storing' : r[1] # r[3]
          /\ \A v, c \in Nodes, t \in Nat : Claims(v, t, c)' => Claims(v, t, c)
      BY <2>1, <1>d
    <2>3. \A c \in Nodes : mode'[c] \in Leader => mode[c] \in Leader /\ term'[c] = term[c]
      BY <2>1, ModesAre
    <2>4. \A v \in Nodes : diskVote[v] <= diskVote'[v]
      BY <1>n, <2>1
    <2>5. /\ \A v \in Nodes : OneVote(v)'
          /\ \A c \in Nodes : mode'[c] \in Leader => HasMajority(c)'
          /\ OnePrimaryPerTerm'
      BY <1>y, <2>2, <2>3, <2>4, ClaimsStep
    <2> QED
      BY <2>2, <2>5 DEF ElectionInv
  <1>5. ASSUME NEW n \in Nodes, OnTransitionToPrimary(n) PROVE ElectionInv'
    BY <1>5, <1>q DEF OnTransitionToPrimary
  <1>6. ASSUME NEW n \in Nodes, CompleteTransitionToPrimary(n) PROVE ElectionInv'
    BY <1>6, <1>q, <1>f DEF CompleteTransitionToPrimary, Leader, MayCount
  <1>7. ASSUME NEW n \in Nodes, Write(n) PROVE ElectionInv'
    BY <1>7, <1>q DEF Write
  <1>8. ASSUME NEW n \in Nodes, Flush(n) PROVE ElectionInv'
    BY <1>8, <1>q DEF Flush
  <1>9. ASSUME NEW n \in Nodes, PrepareForUnconditionalStepDown(n) PROVE ElectionInv'
    BY <1>9, <1>q, <1>f DEF PrepareForUnconditionalStepDown, Leader, MayCount
  <1>10. ASSUME NEW n \in Nodes, StepDownFinish(n) PROVE ElectionInv'
    <2>1. /\ mode[n] \in Leader /\ mode'[n] = "follower" /\ term'[n] = Higher(term[n], pendingTerm[n])
          /\ \A m \in Nodes : m # n => mode'[m] = mode[m] /\ term'[m] = term[m]
                                       /\ pendingTerm'[m] = pendingTerm[m]
          /\ UNCHANGED electionVars
      BY <1>10, <1>f DEF StepDownFinish, Leader
    <2>2. \A m \in Nodes : term[m] <= term'[m]
      BY <1>10, <1>f, <1>n, BoundsAssumption DEF StepDownFinish, Higher, BaseInv, StateTypes
    <2>3. pendingTerm[n] <= term'[n]
      BY <2>1, <1>n, TermTypes DEF Higher, BaseInv
    <2>4. \A m \in Nodes : StepsDownOn(m)
      BY <2>1, <2>3, <1>p DEF StepsDownOn
    <2> QED
      BY <2>1, <2>2, <2>4, ModesAre, QuietElection
  <1>11. ASSUME NEW n \in Nodes, Restart(n) PROVE ElectionInv'
    <2>1. /\ mode'[n] = "follower" /\ lastVote'[n] = diskVote[n] /\ diskVote' = diskVote
          /\ election'[n].votes = {}
          /\ storing' = {r \in storing : r[1] # n}
          /\ \A m \in Nodes : m # n => mode'[m] = mode[m] /\ term'[m] = term[m]
                                       /\ lastVote'[m] = lastVote[m] /\ election'[m] = election[m]
      BY <1>11, <1>f, NoElectionType DEF Restart
    <2>2. diskVote[n] <= term'[n]
      <3>1. term'[n] = Higher(LastDurable(n)[1], diskVote[n]) /\ LastDurable(n)[1] \in Int
        BY <1>11, <1>f, LogOpTimes, OpTimeType DEF Restart
      <3> QED
        BY <3>1, <1>n DEF Higher
    <2>3. ASSUME NEW v \in Nodes, NEW c \in Nodes, NEW t \in Nat, Claims(v, t, c)'
          PROVE  /\ Claims(v, t, c)
                 /\ v = n => n \in election[c].votes /\ t = election[c].term
      BY <2>1, <2>3, ModesAre DEF Claims
    <2>4. \A c \in Nodes : mode'[c] \in Leader => mode[c] \in Leader /\ term'[c] = term[c]
      BY <2>1, ModesAre
    <2>5. /\ \A v \in Nodes : OneVote(v)'
          /\ \A c \in Nodes : mode'[c] \in Leader => HasMajority(c)'
          /\ OnePrimaryPerTerm'
      BY <1>y, <1>n, <2>1, <2>3, <2>4, ClaimsStep
    <2>6. ASSUME NEW v \in Nodes PROVE VoteInv(v)'
      <3>1. diskVote'[v] <= lastVote'[v]
        BY <1>i, <1>n, <2>1 DEF VoteInv
      <3>b. VoteBound(v)'
        <4>1. CASE v = n
          BY <4>1, <2>1, <2>2 DEF VoteBound
        <4>2. CASE v # n
          BY <4>2, <1>i, <1>f, <1>11, <2>1 DEF VoteInv, VoteBound, Restart
        <4> QED
          BY <4>1, <4>2
      <3>2. ASSUME NEW t \in Nat, NEW c \in Nodes, Claims(v, t, c)' PROVE t <= lastVote'[v]
        BY <1>i, <2>1, <2>3, <3>2 DEF VoteInv
      <3>3. \A c \in Nodes : v \in election'[c].votes => election'[c].term <= diskVote'[v]
        BY <1>i, <2>1 DEF VoteInv
      <3>4. mode'[v] = "requesting" => election'[v].term <= diskVote'[v]
        BY <1>i, <2>1 DEF VoteInv
      <3> QED
        BY <3>1, <3>b, <3>2, <3>3, <3>4 DEF VoteInv
    <2>7. ASSUME NEW v \in Nodes PROVE CandidateInv(v)'
      BY <1>i, <2>1 DEF CandidateInv
    <2> QED
      BY <2>1, <2>5, <2>6, <2>7 DEF ElectionInv
  <1>12. ASSUME NEW v \in Nodes, NEW c \in Nodes, ProcessReplSetRequestVotes(v, c)
         PROVE  ElectionInv'
    <2> DEFINE t0 == election[c].term
    <2>1. /\ v # c /\ mode[c] = "requesting" /\ UpdateTerm(v, t0)
          /\ UNCHANGED <<diskVote, election>> /\ t0 \in 0 .. MaxTerm /\ t0 \in Nat
      BY <1>12, <1>n, VoteNumbers DEF ProcessReplSetRequestVotes
    <2>2. /\ \A m \in Nodes : term'[m] >= term[m]
          /\ \A m \in Nodes : m # v => term'[m] = term[m]
          /\ \A m \in Nodes : mode'[m] \in Leader <=> mode[m] \in Leader
          /\ \A m \in Nodes : mode[m] \in Leader => term'[m] = term[m]
          /\ \A m \in Nodes : mode[m] \notin Leader => mode'[m] = mode[m]
          /\ mode[v] \notin Leader => term'[v] >= t0
          /\ t0 > term[v] /\ mode[v] \in Leader => mode'[v] = "kSteppingDown" /\ pendingTerm'[v] >= t0
      BY <2>1, UpdateTermEffect, TermTypes DEF BaseInv
    <2>3. \A m \in Nodes : term[m] <= term'[m] /\ StepsDownOn(m)
      BY <2>1, <2>2, <1>n, <1>m, UpdateTermStepsDown DEF BaseInv
    <2>4. CASE ~(GrantsVote(v, c) /\ ~WaitsForStepDown(v, t0))
      <3>1. UNCHANGED electionVars
        BY <1>12, <2>1, <2>4 DEF ProcessReplSetRequestVotes, electionVars
      <3> QED
        BY <2>2, <2>3, <3>1, ModesAre, QuietElection
    <2>5. CASE GrantsVote(v, c) /\ ~WaitsForStepDown(v, t0)
      <3>1. /\ lastVote'[v] = t0 /\ \A m \in Nodes : m # v => lastVote'[m] = lastVote[m]
            /\ storing' = storing \cup {<<v, t0, c>>}
        BY <1>12, <1>f, <2>5 DEF ProcessReplSetRequestVotes
      <3>2. t0 >= term'[v] /\ lastVote[v] # t0
        BY <2>5 DEF GrantsVote
      <3>3. lastVote[v] < t0
        <4>1. ~(t0 < lastVote[v])
          BY <1>12, <2>5 DEF ProcessReplSetRequestVotes
        <4> QED
          BY <4>1, <1>n, <2>1, <3>2
      <3>4. VoteBound(v)'
        <4>1. CASE mode[v] \in Leader /\ t0 > term[v]
          <5>1. mode'[v] = "kSteppingDown" /\ pendingTerm'[v] >= t0 /\ pendingTerm'[v] \in Nat
            BY <4>1, <2>2, BoundsAssumption DEF BaseInv, StateTypes
          <5> QED
            BY <5>1, <2>1, <3>1 DEF VoteBound
        <4>2. CASE mode[v] \in Leader /\ ~(t0 > term[v])
          BY <4>2, <1>n, <1>m, <2>1, <2>2, <3>1 DEF VoteBound
        <4>3. CASE mode[v] \notin Leader
          BY <4>3, <1>m, <2>1, <2>2, <3>1 DEF VoteBound
        <4> QED
          BY <4>1, <4>2, <4>3
      <3>5. ASSUME NEW w \in Nodes, NEW d \in Nodes, NEW t \in Nat, Claims(w, t, d)'
            PROVE  Claims(w, t, d) \/ (w = v /\ t = t0 /\ d = c)
        <4>1. mode'[d] \in Candidate => mode[d] \in Candidate
          BY <2>2, ModesAre
        <4> QED
          BY <2>1, <3>1, <3>5, <4>1 DEF Claims
      <3>6. /\ \A w \in Nodes : OneVote(w)'
            /\ \A d \in Nodes : mode'[d] \in Leader => HasMajority(d)'
            /\ OnePrimaryPerTerm'
        <4>1. \A w \in Nodes : diskVote[w] <= diskVote'[w]
          BY <1>n, <2>1
        <4> HIDE DEF t0
        <4> QED
          BY <2>1, <2>2, <3>3, <3>5, <4>1, ClaimsStep
      <3>7. ASSUME NEW w \in Nodes PROVE VoteInv(w)'
        <4>1. lastVote[w] <= lastVote'[w]
          BY <1>n, <1>m, <3>1, <3>3
        <4>b. VoteBound(w)'
          BY <1>i, <2>3, <3>1, <3>4, BoundKept DEF VoteInv
        <4>2. diskVote'[w] <= lastVote'[w]
          BY <1>i, <1>n, <1>m, <2>1, <4>1 DEF VoteInv
        <4>3. ASSUME NEW t \in Nat, NEW d \in Nodes, Claims(w, t, d)' PROVE t <= lastVote'[w]
          <5>1. CASE Claims(w, t, d)
            BY <5>1, <4>1, <1>i, <1>n, <1>m DEF VoteInv
          <5>2. CASE w = v /\ t = t0 /\ d = c
            BY <5>2, <3>1, <2>1
          <5> QED
            BY <3>5, <4>3, <5>1, <5>2
        <4>4. mode'[w] = "requesting" => mode[w] = "requesting"
          BY <2>2 DEF Leader
        <4> QED
          BY <1>i, <2>1, <4>b, <4>2, <4>3, <4>4 DEF VoteInv
      <3>8. ASSUME NEW w \in Nodes PROVE CandidateInv(w)'
        <4>1. mode'[w] \notin Candidate => mode[w] \notin Candidate
          BY <2>2, ModesAre
        <4> QED
          BY <1>i, <2>1, <4>1 DEF CandidateInv
      <3>9. \A r \in storing' : r[1] # r[3]
        BY <2>1, <3>1 DEF ElectionInv
      <3> QED
        BY <3>6, <3>7, <3>8, <3>9 DEF ElectionInv
    <2> QED
      BY <2>4, <2>5
  <1>13. ASSUME NEW n \in Nodes, NEW s \in Nodes, FailStaleQuery(n, s) PROVE ElectionInv'
    BY <1>13, UpdateTermQuiet DEF FailStaleQuery
  <1>14. ASSUME NEW n \in Nodes, NEW s \in Nodes, OnSuccessfulBatch(n, s) PROVE ElectionInv'
    BY <1>14, UpdateTermQuiet DEF OnSuccessfulBatch, ProcessMetadata
  <1>15. ASSUME NEW n \in Nodes, NEW s \in Nodes, RunRollback(n, s) PROVE ElectionInv'
    BY <1>15, <1>q DEF RunRollback
  <1>16. ASSUME NEW n \in Nodes, NEW s \in Nodes, HandleHeartbeatResponse(n, s) PROVE ElectionInv'
    BY <1>16, UpdateTermQuiet DEF HandleHeartbeatResponse
  <1>17. ASSUME NEW n \in Nodes, NEW s \in Nodes, ProcessReplSetUpdatePosition(n, s)
         PROVE  ElectionInv'
    BY <1>17, UpdateTermQuiet DEF ProcessReplSetUpdatePosition
  <1>18. ASSUME NEW r \in storing, ReplyToVoteRequest(r[1], r[2], r[3]) PROVE ElectionInv'
    <2>1. PICK v \in Nodes, t0 \in 1 .. MaxTerm, c \in Nodes : r = <<v, t0, c>>
      BY <1>f
    <2>2. /\ UNCHANGED <<term, mode, pendingTerm, lastVote>> /\ storing' = storing \ {<<v, t0, c>>}
          /\ diskVote' = [diskVote EXCEPT ![v] = Higher(@, t0)] /\ CountVote(v, t0, c)
          /\ <<v, t0, c>> \in storing
      BY <1>18, <2>1 DEF ReplyToVoteRequest, StoreLastVote
    <2>3. /\ \A m \in Nodes : election'[m].term = election[m].term
          /\ \A m \in Nodes : election'[m].votes = election[m].votes
                \/ /\ m = c /\ mode[c] = "requesting" /\ election[c].term = t0
                   /\ election'[c].votes = election[c].votes \cup {v}
      BY <1>f, <2>2 DEF CountVote
    <2>4. t0 \in Nat /\ t0 <= lastVote[v] /\ v # c
      <3>1. Claims(v, t0, c) /\ t0 \in Nat
        BY <2>2, BoundsAssumption DEF Claims
      <3>2. r[1] # r[3]
        BY DEF ElectionInv
      <3> QED
        BY <1>i, <2>1, <3>1, <3>2 DEF VoteInv
    <2>5. /\ t0 <= diskVote'[v] /\ \A m \in Nodes : diskVote[m] <= diskVote'[m]
          /\ \A m \in Nodes : m # v => diskVote'[m] = diskVote[m]
          /\ diskVote'[v] \in {diskVote[v], t0}
      BY <1>f, <1>n, <2>2, <2>4 DEF Higher
    <2>6. ASSUME NEW w \in Nodes, NEW d \in Nodes, NEW t \in Nat, Claims(w, t, d)'
          PROVE  Claims(w, t, d)
      BY <2>2, <2>3, <2>6 DEF Claims
    <2>7. /\ \A w \in Nodes : OneVote(w)'
          /\ \A d \in Nodes : mode'[d] \in Leader => HasMajority(d)'
          /\ OnePrimaryPerTerm'
      BY <1>y, <2>2, <2>5, <2>6, ClaimsStep
    <2>8. ASSUME NEW w \in Nodes PROVE VoteInv(w)'
      <3>1. diskVote'[w] <= lastVote'[w]
        BY <1>i, <1>n, <2>2, <2>4, <2>5 DEF VoteInv
      <3>b. VoteBound(w)'
        BY <1>i, <2>2 DEF VoteInv, VoteBound
      <3>2. ASSUME NEW d \in Nodes, w \in election'[d].votes
            PROVE  election'[d].term <= diskVote'[w]
        <4>1. CASE w \in election[d].votes
          BY <4>1, <1>i, <1>n, <1>m, <2>3, <2>5 DEF VoteInv
        <4>2. CASE w \notin election[d].votes
          BY <4>2, <2>3, <2>5, <3>2
        <4> QED
          BY <4>1, <4>2
      <3>3. mode'[w] = "requesting" => election'[w].term <= diskVote'[w]
        BY <1>i, <1>n, <1>m, <2>2, <2>3, <2>5 DEF VoteInv
      <3> QED
        BY <1>i, <2>2, <2>6, <3>1, <3>b, <3>2, <3>3 DEF VoteInv
    <2>9. ASSUME NEW w \in Nodes PROVE CandidateInv(w)'
      BY <1>i, <2>2, <2>3, <2>4 DEF CandidateInv, Candidate
    <2> QED
      BY <2>2, <2>7, <2>8, <2>9 DEF ElectionInv
  <1> QED
    BY <1>1, <1>2, <1>3, <1>4, <1>5, <1>6, <1>7, <1>8, <1>9, <1>10, <1>11, <1>12, <1>13,
       <1>14, <1>15, <1>16, <1>17, <1>18, ElectionEnds DEF Next

\* So does a step that changes nothing.
LEMMA BaseStutters ==
    ASSUME BaseInv, UNCHANGED vars
    PROVE  BaseInv'
  BY DEF BaseInv, StateTypes, VoteTypes, LogTypes, LogInv, CommitTypes, vars

\* The same for the elections.
LEMMA ElectionStutters ==
    ASSUME ElectionInv, UNCHANGED vars
    PROVE  ElectionInv'
  <1>1. UNCHANGED <<term, mode, pendingTerm, lastVote, diskVote, storing, election>>
    BY DEF vars
  <1>2. \A v, t, c : Claims(v, t, c)' <=> Claims(v, t, c)
    BY <1>1 DEF Claims
  <1>3. \A v \in Nodes : VoteInv(v)' /\ OneVote(v)' /\ CandidateInv(v)'
    BY <1>1, <1>2 DEF ElectionInv, VoteInv, VoteBound, OneVote, CandidateInv
  <1>4. \A c \in Nodes : HasMajority(c)' <=> HasMajority(c)
    BY <1>1, <1>2 DEF HasMajority, Supports
  <1>5. OnePrimaryPerTerm'
    BY <1>1 DEF ElectionInv, OnePrimaryPerTerm
  <1> QED
    BY <1>1, <1>3, <1>4, <1>5 DEF ElectionInv

\* Once a vote has gone back it has.
LEMMA FlagMoves ==
    ASSUME [Next]_vars
    PROVE  /\ ~voteWentBack' => ~voteWentBack
           /\ voteWentBack \in BOOLEAN => voteWentBack' \in BOOLEAN
  <1>1. CASE voteWentBack' = voteWentBack
    BY <1>1
  <1>2. CASE \E v, c \in Nodes : voteWentBack' = (voteWentBack \/ election[c].term < lastVote[v])
    BY <1>2
  <1> QED
    <2>1. ASSUME NEW n \in Nodes,
                 \/ StartRealElection(n) \/ WriteLastVoteForMyElection(n) \/ WriteLastVoteFails(n)
                 \/ WinElection(n) \/ LoseElection(n) \/ Restart(n)
          PROVE  voteWentBack' = voteWentBack
      BY <2>1 DEF StartRealElection, WriteLastVoteForMyElection, WriteLastVoteFails, WinElection,
                  LoseElection, Restart
    <2>2. ASSUME NEW n \in Nodes,
                 \/ OnTransitionToPrimary(n) \/ CompleteTransitionToPrimary(n) \/ Write(n) \/ Flush(n)
                 \/ PrepareForUnconditionalStepDown(n) \/ StepDownFinish(n)
          PROVE  voteWentBack' = voteWentBack
      BY <2>2 DEF OnTransitionToPrimary, CompleteTransitionToPrimary, Write, Flush,
                  PrepareForUnconditionalStepDown, StepDownFinish, electionVars
    <2>3. ASSUME NEW n \in Nodes, NEW s \in Nodes,
                 \/ FailStaleQuery(n, s) \/ OnSuccessfulBatch(n, s) \/ RunRollback(n, s)
                 \/ HandleHeartbeatResponse(n, s) \/ ProcessReplSetUpdatePosition(n, s)
          PROVE  voteWentBack' = voteWentBack
      BY <2>3 DEF FailStaleQuery, OnSuccessfulBatch, RunRollback, HandleHeartbeatResponse,
                  ProcessReplSetUpdatePosition, electionVars
    <2>4. ASSUME NEW v \in Nodes, NEW c \in Nodes, ProcessReplSetRequestVotes(v, c)
          PROVE  \/ voteWentBack' = voteWentBack
                 \/ voteWentBack' = (voteWentBack \/ election[c].term < lastVote[v])
      BY <2>4 DEF ProcessReplSetRequestVotes
    <2>5. ASSUME NEW r \in storing, ReplyToVoteRequest(r[1], r[2], r[3])
          PROVE  voteWentBack' = voteWentBack
      BY <2>5 DEF ReplyToVoteRequest
    <2>6. CASE UNCHANGED vars
      BY <2>6, <1>1 DEF vars
    <2>7. CASE Next
      BY <2>7, <1>1, <1>2, <2>1, <2>2, <2>3, <2>4, <2>5 DEF Next
    <2> QED
      BY <2>6, <2>7

\* The type of the history variable.
FlagType == voteWentBack \in BOOLEAN

\* The strengthening of the type invariant always holds.
LEMMA BaseInvariant == Spec => []BaseInv
  <1>1. BaseInv /\ [Next]_vars => BaseInv'
    BY BaseKept, BaseStutters
  <1> QED
    BY BaseInit, <1>1, PTL DEF Spec

\* Every node's fields stay in their ranges, the journal is a prefix of the oplog and
\* terms never decrease along an oplog, in every reachable state.
THEOREM TypeCorrect == Spec => []TypeOK
  <1>1. Init => FlagType
    BY DEF Init, FlagType
  <1>2. FlagType /\ [Next]_vars => FlagType'
    BY FlagMoves DEF FlagType
  <1>3. BaseInv /\ FlagType => TypeOK
    BY BaseGivesTypes DEF FlagType
  <1> QED
    BY BaseInvariant, <1>1, <1>2, <1>3, PTL DEF Spec

\* The strengthening for the elections holds until a vote goes back.
LEMMA ElectionInvariant == Spec => [](~voteWentBack => ElectionInv)
  <1>1. BaseInv /\ BaseInv' /\ ElectionInv /\ ~voteWentBack' /\ [Next]_vars => ElectionInv'
    BY ElectionKept, ElectionStutters
  <1>2. [Next]_vars /\ ~voteWentBack' => ~voteWentBack
    BY FlagMoves
  <1> QED
    BY BaseInvariant, ElectionInit, <1>1, <1>2, PTL DEF Spec

\* Until a member grants a vote in an earlier term than its last one, two nodes are
\* never primary in the same term, for every number of members and every bound:
\* whatever crashes, is lost or overtakes a step down, no other way leads there. The
\* run double_vote shows that this one does.
THEOREM OnePrimary == Spec => []OnePrimaryUnlessVoteWentBack
  <1>1. (~voteWentBack => ElectionInv) => OnePrimaryUnlessVoteWentBack
    BY DEF ElectionInv, OnePrimaryUnlessVoteWentBack
  <1> QED
    BY ElectionInvariant, <1>1, PTL

-----------------------------------------------------------------------------
(***************************************************************************)
(* What ReplSet commits stays committed, for every set of members and      *)
(* every bound.                                                            *)
(*                                                                         *)
(* An action is first reduced to what it does to the oplogs (LogStep), to  *)
(* the votes (VoteStep) and to what a primary has heard (CountStep); the   *)
(* invariants are then kept by every such step, and only the roles, the    *)
(* reports and the commit points are argued action by action. They are:    *)
(*   HistoryInv   an entry determines what precedes it, the entries of a   *)
(*                term are one chain, a primary has all those of its term; *)
(*   LeaderCommit an entry of a primary's own term is kept by all who have *)
(*                reported it and passed by by none, or else a majority    *)
(*                that has not reported it has voted in a later term;      *)
(*   CommitInv    a counted entry is kept by a majority and passed by by   *)
(*                none (Safe), and every commit point, with all that its   *)
(*                node has before it, precedes a counted entry.            *)
(* The second is what makes a count valid although reports are old when    *)
(* they are counted, and why only entries of the primary's own term count. *)
(***************************************************************************)

\* The oplog of n has the entry of term t at position i.
Has(n, t, i) == i \in 1 .. Len(oplog[n]) /\ oplog[n][i] = t

\* What an oplog is, said of its entries.
HasInv ==
    \A n \in Nodes :
        /\ \A t, i : Has(n, t, i) =>
             t \in Nat /\ t <= MaxTerm /\ i \in Nat /\ 1 <= i /\ i <= MaxLen /\ t <= term[n]
        /\ \A t, u, i \in Nat : Has(n, t, i) /\ Has(n, u, i) => t = u
        /\ \A t, u, i, j \in Nat : Has(n, t, i) /\ Has(n, u, j) /\ i <= j => t <= u
        /\ \A t, i, j \in Nat : Has(n, t, j) /\ 1 <= i /\ i <= j =>
             \E u \in Nat : Has(n, u, i)
        /\ Has(n, LastApplied(n)[1], LastApplied(n)[2])
        /\ Has(n, LastDurable(n)[1], LastDurable(n)[2])
        /\ LastApplied(n)[1] \in Nat /\ LastApplied(n)[2] \in Nat
        /\ LastDurable(n)[1] \in Nat /\ LastDurable(n)[2] \in Nat
        /\ LastDurable(n)[2] = durable[n] /\ durable[n] \in Nat
        /\ \A t, i \in Nat : Has(n, t, i) => i <= LastApplied(n)[2] /\ t <= LastApplied(n)[1]
        /\ Has(n, 0, 1)

\* The type invariant gives these facts.
LEMMA HasFacts == BaseInv => HasInv
  <1> SUFFICES ASSUME BaseInv PROVE HasInv
    OBVIOUS
  <1> USE DEF Has
  <1>1. ASSUME NEW n \in Nodes
        PROVE  /\ Len(oplog[n]) \in Nat \ {0} /\ Len(oplog[n]) <= MaxLen /\ MaxLen \in Nat
               /\ \A i \in 1 .. Len(oplog[n]) :
                    oplog[n][i] \in Nat /\ oplog[n][i] <= MaxTerm /\ oplog[n][i] <= term[n]
               /\ \A i, j \in 1 .. Len(oplog[n]) : i <= j => oplog[n][i] <= oplog[n][j]
               /\ durable[n] \in 1 .. Len(oplog[n]) /\ oplog[n][1] = 0
    BY EntryTypes, BoundsAssumption DEF BaseInv, LogTypes, LogInv
  <1>2. ASSUME NEW n \in Nodes
        PROVE  /\ LastApplied(n)[1] = oplog[n][Len(oplog[n])]
               /\ LastApplied(n)[2] = Len(oplog[n])
               /\ LastDurable(n)[1] = oplog[n][durable[n]]
               /\ LastDurable(n)[2] = durable[n]
    BY DEF LastApplied, LastDurable, LastOpTime, OpTimeAt
  <1>3. ASSUME NEW n \in Nodes, NEW t \in Nat, NEW u \in Nat, NEW i \in Nat, NEW j \in Nat,
               Has(n, t, i), Has(n, u, j), i <= j
        PROVE  t <= u
    BY <1>1, <1>3
  <1>4. ASSUME NEW n \in Nodes, NEW t \in Nat, NEW i \in Nat, NEW j \in Nat,
               Has(n, t, j), 1 <= i, i <= j
        PROVE  \E u \in Nat : Has(n, u, i)
    BY <1>1, <1>4
  <1>5. ASSUME NEW n \in Nodes, NEW t \in Nat, NEW i \in Nat, Has(n, t, i)
        PROVE  i <= LastApplied(n)[2] /\ t <= LastApplied(n)[1]
    BY <1>1, <1>2, <1>5
  <1>6. ASSUME NEW n \in Nodes, NEW t, NEW i, Has(n, t, i)
        PROVE  t \in Nat /\ t <= MaxTerm /\ i \in Nat /\ 1 <= i /\ i <= MaxLen /\ t <= term[n]
    BY <1>1, <1>6
  <1>7. ASSUME NEW n \in Nodes
        PROVE  /\ Has(n, LastApplied(n)[1], LastApplied(n)[2])
               /\ Has(n, LastDurable(n)[1], LastDurable(n)[2])
               /\ LastApplied(n)[1] \in Nat /\ LastApplied(n)[2] \in Nat
               /\ LastDurable(n)[1] \in Nat /\ LastDurable(n)[2] \in Nat
               /\ LastDurable(n)[2] = durable[n] /\ durable[n] \in Nat
               /\ Has(n, 0, 1)
    BY <1>1, <1>2
  <1>8. ASSUME NEW n \in Nodes, NEW t \in Nat, NEW u \in Nat, NEW i \in Nat,
               Has(n, t, i), Has(n, u, i)
        PROVE  t = u
    BY <1>8
  <1> HIDE DEF Has
  <1> QED
    BY <1>3, <1>4, <1>5, <1>6, <1>7, <1>8 DEF HasInv

\* Those about one entry.
LEMMA HasTypes ==
    ASSUME BaseInv, NEW n \in Nodes, NEW t, NEW i, Has(n, t, i)
    PROVE  t \in Nat /\ i \in Nat /\ 1 <= i /\ t <= term[n]
  BY HasFacts DEF HasInv

\* Those about the last entries.
LEMMA LastFacts ==
    ASSUME BaseInv, NEW n \in Nodes
    PROVE  /\ Has(n, LastDurable(n)[1], LastDurable(n)[2])
           /\ LastDurable(n)[1] \in Nat /\ LastDurable(n)[2] = durable[n] /\ durable[n] \in Nat
           /\ \A t, i \in Nat : Has(n, t, i) => i <= LastApplied(n)[2]
  BY HasFacts DEF HasInv

\* And in the next state.
LEMMA HasFactsNext == BaseInv' => HasInv'
  <1>1. BaseInv => HasInv
    BY HasFacts
  <1> QED
    BY <1>1, PTL

-----------------------------------------------------------------------------
\* Entries determine what precedes them.
LogMatching ==
    \A n, m \in Nodes, t, i \in Nat :
        Has(n, t, i) /\ Has(m, t, i) =>
            \A u, j \in Nat : j <= i /\ Has(n, u, j) => Has(m, u, j)

\* The entries of one term are one chain.
TermChain ==
    \A n, m \in Nodes, t, i, j \in Nat :
        i <= j /\ Has(n, t, j) /\ Has(m, t, i) => Has(n, t, i)

\* A primary has every entry of its term.
LeaderHasTerm ==
    \A c, m \in Nodes, i \in Nat :
        mode[c] \in Leader /\ Has(m, term[c], i) => Has(c, term[c], i)

\* The oplog of n becomes a prefix of the oplog of s.
FromOld(n, s) ==
    \A t, i \in Nat :
        Has(n, t, i)' => /\ Has(s, t, i)
                         /\ \A u, j \in Nat : j <= i /\ Has(s, u, j) => Has(n, u, j)'

\* Primary c writes an entry of its term.
Grows(c) ==
    /\ mode[c] \in Leader /\ mode' = mode /\ term' = term
    /\ \A t, i \in Nat :
         Has(c, t, i)' <=> (Has(c, t, i) \/ (t = term[c] /\ i = LastApplied(c)[2] + 1))
    /\ \A m \in Nodes : m # c => \A t, i \in Nat : Has(m, t, i)' <=> Has(m, t, i)
    /\ UNCHANGED <<pendingTerm, electionVars, durable, lastCommitted, leaderVars, committed>>

\* The journal of m loses nothing.
Kept(m) ==
    /\ durable[m] <= durable'[m]
    /\ \A t, i \in Nat : i <= durable[m] /\ Has(m, t, i) => Has(m, t, i)'

\* The oplog of m loses nothing.
Extends(m) == \A t, i \in Nat : Has(m, t, i) => Has(m, t, i)'

\* A step that leaves the oplogs alone leaves their entries alone.
LEMMA SameLogs ==
    ASSUME BaseInv, oplog' = oplog
    PROVE  /\ \A n \in Nodes, t, i \in Nat : Has(n, t, i)' <=> Has(n, t, i)
           /\ \A n \in Nodes : FromOld(n, n)
  <1>1. \A n \in Nodes, t, i \in Nat : Has(n, t, i)' <=> Has(n, t, i)
    BY DEF Has
  <1> QED
    BY <1>1 DEF FromOld

\* Appending to the oplog of n adds one entry, after the last.
LEMMA AppendLogs ==
    ASSUME BaseInv, NEW n \in Nodes, NEW x \in 0 .. MaxTerm,
           oplog' = [oplog EXCEPT ![n] = Append(@, x)]
    PROVE  /\ \A t, i \in Nat :
                Has(n, t, i)' <=> (Has(n, t, i) \/ (t = x /\ i = LastApplied(n)[2] + 1))
           /\ \A m \in Nodes : m # n => \A t, i \in Nat : Has(m, t, i)' <=> Has(m, t, i)
  <1>0. LogTypes
    BY DEF BaseInv
  <1>1. /\ Len(oplog'[n]) = Len(oplog[n]) + 1
        /\ \A i \in 1 .. Len(oplog[n]) : oplog'[n][i] = oplog[n][i]
        /\ oplog'[n][Len(oplog[n]) + 1] = x
        /\ \A m \in Nodes : m # n => oplog'[m] = oplog[m]
    BY <1>0, AppendEffect
  <1>2. LastApplied(n)[2] = Len(oplog[n]) /\ Len(oplog[n]) \in Nat \ {0}
    BY <1>0, EntryTypes DEF LastApplied, LastOpTime, OpTimeAt
  <1> QED
    BY <1>1, <1>2 DEF Has

\* Cutting the oplog of n to its first k entries, as a crash or a rollback does.
LEMMA CutLogs ==
    ASSUME BaseInv, NEW n \in Nodes, NEW k \in 1 .. Len(oplog[n]),
           oplog' = [oplog EXCEPT ![n] = SubSeq(@, 1, k)]
    PROVE  /\ \A t, i \in Nat : Has(n, t, i)' <=> (Has(n, t, i) /\ i <= k)
           /\ \A m \in Nodes : m # n => \A t, i \in Nat : Has(m, t, i)' <=> Has(m, t, i)
           /\ \A m \in Nodes : FromOld(m, m)
  <1>0. LogTypes
    BY DEF BaseInv
  <1>1. /\ Len(oplog'[n]) = k
        /\ \A i \in 1 .. k : oplog'[n][i] = oplog[n][i]
        /\ \A m \in Nodes : m # n => oplog'[m] = oplog[m]
    BY <1>0, TruncateEffect
  <1>2. Len(oplog[n]) \in Nat \ {0}
    BY <1>0, EntryTypes
  <1>3. \A t, i \in Nat : Has(n, t, i)' <=> (Has(n, t, i) /\ i <= k)
    BY <1>1, <1>2 DEF Has
  <1>4. \A m \in Nodes : m # n => \A t, i \in Nat : Has(m, t, i)' <=> Has(m, t, i)
    BY <1>1 DEF Has
  <1>5. ASSUME NEW m \in Nodes PROVE FromOld(m, m)
    <2>1. CASE m = n
      BY <1>3, <2>1 DEF FromOld
    <2>2. CASE m # n
      BY <1>4, <2>2 DEF FromOld
    <2> QED
      BY <2>1, <2>2
  <1> QED
    BY <1>3, <1>4, <1>5

\* The entry of a batch is appended: the oplog of n becomes a prefix of that of s.
LEMMA CopyLogs ==
    ASSUME BaseInv, LogMatching, NEW n \in Nodes, NEW s \in Nodes, NEW x \in 0 .. MaxTerm,
           Contains(oplog[s], LastApplied(n)),
           Has(s, x, LastApplied(n)[2] + 1),
           oplog' = [oplog EXCEPT ![n] = Append(@, x)]
    PROVE  FromOld(n, s) /\ \A m \in Nodes : m # n => FromOld(m, m)
  <1>h. HasInv
    BY HasFacts
  <1> DEFINE a == LastApplied(n)[1]
             L == LastApplied(n)[2]
  <1>1. Has(s, a, L) /\ Has(n, a, L) /\ a \in Nat /\ L \in Nat
    <2>1. Has(n, a, L)
      BY <1>h DEF HasInv
    <2>2. Has(s, a, L)
      BY DEF Has, Contains
    <2> QED
      BY <2>1, <2>2, <1>h DEF HasInv
  <1>2. /\ \A t, i \in Nat : Has(n, t, i)' <=> (Has(n, t, i) \/ (t = x /\ i = L + 1))
        /\ \A m \in Nodes : m # n => \A t, i \in Nat : Has(m, t, i)' <=> Has(m, t, i)
    BY AppendLogs
  <1>3. Has(s, x, L + 1) /\ x \in Nat
    OBVIOUS
  <1>4. \A t, i \in Nat : Has(n, t, i) => i <= L
    BY <1>h DEF HasInv
  <1> HIDE DEF a, L
  <1>5. ASSUME NEW m \in Nodes, m # n PROVE FromOld(m, m)
    BY <1>2, <1>5 DEF FromOld
  <1>6. ASSUME NEW t \in Nat, NEW i \in Nat, Has(n, t, i)' PROVE Has(s, t, i) /\ i <= L + 1
    BY <1>1, <1>2, <1>3, <1>4, <1>6 DEF LogMatching
  <1>7. ASSUME NEW u \in Nat, NEW j \in Nat, j <= L + 1, Has(s, u, j) PROVE Has(n, u, j)'
    <2>1. CASE j = L + 1
      BY <1>2, <1>3, <1>h, <1>7, <2>1 DEF HasInv
    <2>2. CASE j # L + 1
      <3>1. j <= L
        BY <1>1, <1>7, <2>2
      <3>2. Has(n, u, j)
        BY <1>1, <1>7, <3>1 DEF LogMatching
      <3> QED
        BY <1>2, <3>2
    <2> QED
      BY <2>1, <2>2
  <1>8. FromOld(n, s)
    BY <1>1, <1>6, <1>7 DEF FromOld
  <1> QED
    BY <1>5, <1>8

-----------------------------------------------------------------------------
\* What one step does to the oplogs, the journals and the primaries.
LogStep ==
    /\ (\A n \in Nodes : \E s \in Nodes : FromOld(n, s)) \/ (\E c \in Nodes : Grows(c))
    /\ \A c \in Nodes :
         mode'[c] \in Leader => WinElection(c) \/ (mode[c] \in Leader /\ term'[c] = term[c])
    /\ \A c \in Nodes :
         mode'[c] # "follower" => \A t, i \in Nat : Has(c, t, i) => Has(c, t, i)'
    /\ \A m \in Nodes : Kept(m) \/ (\E s \in Nodes : RunRollback(m, s))
    /\ \A m \in Nodes : Extends(m) \/ Restart(m) \/ (\E s \in Nodes : RunRollback(m, s))

\* A step that leaves the oplogs alone, loses nothing of a journal and makes nobody
\* primary but the winner of an election is such a step.
LEMMA QuietLogStep ==
    ASSUME BaseInv, UNCHANGED oplog,
           \A m \in Nodes : durable[m] <= durable'[m],
           \A c \in Nodes :
               mode'[c] \in Leader => WinElection(c) \/ (mode[c] \in Leader /\ term'[c] = term[c])
    PROVE  LogStep
  <1>1. /\ \A n \in Nodes, t, i \in Nat : Has(n, t, i)' <=> Has(n, t, i)
        /\ \A n \in Nodes : FromOld(n, n)
    BY SameLogs
  <1> QED
    BY <1>1 DEF LogStep, Kept, Extends

\* Every action is such a step; one case per action.
LEMMA LogStepTaken ==
    ASSUME BaseInv, BaseInv', LogMatching, Next
    PROVE  LogStep
  <1> USE DEF electionVars, oplogVars, leaderVars
  <1>h. HasInv /\ StateTypes /\ LogTypes
    BY HasFacts DEF BaseInv
  <1>d. \A m \in Nodes : durable[m] \in Nat /\ durable[m] <= durable[m]
    BY <1>h DEF HasInv
  <1>t. \A m \in Nodes : mode[m] \in Modes /\ term[m] \in 0 .. MaxTerm
    BY <1>h, TermTypes
  <1>m. mode \in [Nodes -> Modes] /\ term \in [Nodes -> 0 .. MaxTerm] /\ StateTypes'
    BY <1>h DEF StateTypes, BaseInv
  <1>f. "follower" \notin Leader /\ "storingVote" \notin Leader /\ "requesting" \notin Leader
    BY DEF Leader
  <1>u. ASSUME NEW n \in Nodes, NEW s \in Nodes, UpdateTerm(n, term[s])
        PROVE  \A c \in Nodes : mode'[c] \in Leader => mode[c] \in Leader /\ term'[c] = term[c]
    BY <1>h, <1>t, <1>u, UpdateTermEffect
  <1>1. ASSUME NEW n \in Nodes, StartRealElection(n) PROVE LogStep
    BY <1>1, <1>d, <1>f, <1>m, QuietLogStep DEF StartRealElection
  <1>2. ASSUME NEW n \in Nodes, WriteLastVoteForMyElection(n) PROVE LogStep
    BY <1>2, <1>d, <1>f, <1>m, QuietLogStep DEF WriteLastVoteForMyElection
  <1>3. ASSUME NEW n \in Nodes, WinElection(n) PROVE LogStep
    <2>1. UNCHANGED <<oplog, durable, term>> /\ mode' = [mode EXCEPT ![n] = "kLeaderElect"]
      BY <1>3 DEF WinElection
    <2> QED
      BY <1>3, <2>1, <1>d, <1>m, QuietLogStep
  <1>4. ASSUME NEW n \in Nodes, EndsElection(n) PROVE LogStep
    BY <1>4, <1>d, <1>f, <1>m, QuietLogStep DEF EndsElection
  <1>w. ASSUME NEW n \in Nodes, mode[n] \in Leader,
               oplog' = [oplog EXCEPT ![n] = Append(@, term[n])],
               UNCHANGED <<term, mode, pendingTerm, electionVars, durable, lastCommitted,
                   leaderVars, committed>>
        PROVE  LogStep
    <2>1. Grows(n)
      BY <1>w, <1>t, AppendLogs DEF Grows
    <2>2. \A m \in Nodes, t, i \in Nat : Has(m, t, i) => Has(m, t, i)'
      BY <2>1 DEF Grows
    <2> QED
      BY <1>w, <1>d, <2>1, <2>2 DEF LogStep, Kept, Extends
  <1>5. ASSUME NEW n \in Nodes, OnTransitionToPrimary(n) PROVE LogStep
    BY <1>5, <1>w DEF OnTransitionToPrimary, Leader
  <1>6. ASSUME NEW n \in Nodes, CompleteTransitionToPrimary(n) PROVE LogStep
    BY <1>6, <1>d, <1>m, QuietLogStep DEF CompleteTransitionToPrimary, Leader
  <1>7. ASSUME NEW n \in Nodes, Write(n) PROVE LogStep
    BY <1>7, <1>w DEF Write, CanAcceptNonLocalWrites
  <1>8. ASSUME NEW n \in Nodes, Flush(n) PROVE LogStep
    <2>1. /\ UNCHANGED <<oplog, mode, term>> /\ durable[n] < Len(oplog[n])
          /\ durable' = [durable EXCEPT ![n] = Len(oplog[n])]
      BY <1>8 DEF Flush
    <2>2. Len(oplog[n]) \in Nat
      BY <1>h, EntryTypes
    <2>3. \A m \in Nodes : durable[m] <= durable'[m]
      BY <1>d, <1>h, <2>1, <2>2 DEF LogTypes
    <2> QED
      BY <2>1, <2>3, QuietLogStep
  <1>9. ASSUME NEW n \in Nodes, PrepareForUnconditionalStepDown(n) PROVE LogStep
    BY <1>9, <1>d, <1>m, QuietLogStep DEF PrepareForUnconditionalStepDown, Leader
  <1>10. ASSUME NEW n \in Nodes, StepDownFinish(n) PROVE LogStep
    BY <1>10, <1>d, <1>f, <1>m, QuietLogStep DEF StepDownFinish
  <1>11. ASSUME NEW n \in Nodes, Restart(n) PROVE LogStep
    <2>1. /\ oplog' = [oplog EXCEPT ![n] = SubSeq(@, 1, durable[n])] /\ durable' = durable
          /\ \A m \in Nodes : m # n => mode'[m] = mode[m] /\ term'[m] = term[m]
          /\ mode'[n] = "follower"
      BY <1>11, <1>f, <1>m DEF Restart
    <2>2. durable[n] \in 1 .. Len(oplog[n])
      BY <1>h DEF LogTypes, LogInv
    <2>3. /\ \A t, i \in Nat : Has(n, t, i)' <=> (Has(n, t, i) /\ i <= durable[n])
          /\ \A m \in Nodes : m # n => \A t, i \in Nat : Has(m, t, i)' <=> Has(m, t, i)
          /\ \A m \in Nodes : FromOld(m, m)
      BY <2>1, <2>2, CutLogs
    <2>4. ASSUME NEW m \in Nodes PROVE Kept(m)
      BY <1>d, <2>1, <2>3 DEF Kept
    <2>5. ASSUME NEW c \in Nodes, mode'[c] \in Leader
          PROVE  c # n /\ mode[c] \in Leader /\ term'[c] = term[c]
      BY <1>f, <2>1, <2>5
    <2>6. ASSUME NEW m \in Nodes, m # n PROVE Extends(m)
      BY <2>3, <2>6 DEF Extends
    <2> QED
      BY <1>11, <2>1, <2>3, <2>4, <2>5, <2>6 DEF LogStep
  <1>12. ASSUME NEW n \in Nodes, NEW s \in Nodes, ProcessReplSetRequestVotes(n, s) PROVE LogStep
    <2>1. UpdateTerm(n, election[s].term) /\ UNCHANGED <<oplog, durable>>
      BY <1>12 DEF ProcessReplSetRequestVotes
    <2>2. election[s].term \in 0 .. MaxTerm
      BY VoteNumbers
    <2>3. \A c \in Nodes : mode'[c] \in Leader => mode[c] \in Leader /\ term'[c] = term[c]
      BY <1>h, <2>1, <2>2, UpdateTermEffect
    <2> QED
      BY <1>d, <2>1, <2>3, QuietLogStep
  <1>13. ASSUME NEW n \in Nodes, NEW s \in Nodes, FailStaleQuery(n, s) PROVE LogStep
    <2>1. UpdateTerm(s, term[n]) /\ UNCHANGED <<oplog, durable>>
      BY <1>13 DEF FailStaleQuery
    <2> QED
      BY <1>d, <1>u, <2>1, QuietLogStep
  <1>14. ASSUME NEW n \in Nodes, NEW s \in Nodes, OnSuccessfulBatch(n, s) PROVE LogStep
    <2>1. UpdateTerm(n, term[s]) /\ durable' = durable /\ Contains(oplog[s], LastApplied(n))
      BY <1>14 DEF OnSuccessfulBatch, ProcessMetadata, OplogStartFound
    <2>2. \A c \in Nodes : mode'[c] \in Leader => mode[c] \in Leader /\ term'[c] = term[c]
      BY <1>u, <2>1
    <2>3. CASE ~EnqueuesEntry(n, s)
      <3>1. oplog' = oplog
        BY <1>14, <2>3 DEF OnSuccessfulBatch
      <3> QED
        BY <1>d, <2>1, <2>2, <3>1, QuietLogStep
    <2>4. CASE EnqueuesEntry(n, s)
      <3> DEFINE x == oplog[s][Len(oplog[n]) + 1]
      <3>1. /\ Len(oplog[n]) + 1 \in 1 .. Len(oplog[s])
            /\ oplog' = [oplog EXCEPT ![n] = Append(@, x)] /\ x \in 0 .. MaxTerm
        BY <1>14, <1>m, <2>4, FetchedEntry
      <3>2. LastApplied(n)[2] = Len(oplog[n])
        BY DEF LastApplied, LastOpTime, OpTimeAt
      <3>3. Has(s, x, LastApplied(n)[2] + 1)
        BY <3>1, <3>2 DEF Has
      <3> HIDE DEF x
      <3>4. FromOld(n, s) /\ \A m \in Nodes : m # n => FromOld(m, m)
        BY <2>1, <3>1, <3>3, CopyLogs
      <3>5. \A m \in Nodes, t, i \in Nat : Has(m, t, i) => Has(m, t, i)'
        BY <3>1, AppendLogs
      <3> QED
        BY <1>d, <2>1, <2>2, <3>4, <3>5 DEF LogStep, Kept, Extends
    <2> QED
      BY <2>3, <2>4
  <1>15. ASSUME NEW n \in Nodes, NEW s \in Nodes, RunRollback(n, s) PROVE LogStep
    <2>1. /\ oplog' = [oplog EXCEPT ![n] = SubSeq(@, 1, CommonPoint(n, s))]
          /\ durable' = [durable EXCEPT ![n] = CommonPoint(n, s)]
          /\ mode' = mode /\ term' = term /\ mode[n] = "follower"
      BY <1>15 DEF RunRollback, MustRollBack
    <2>2. CommonPoint(n, s) \in 1 .. Len(oplog[n])
      BY CommonPointExists
    <2>3. /\ \A m \in Nodes : m # n => \A t, i \in Nat : Has(m, t, i)' <=> Has(m, t, i)
          /\ \A m \in Nodes : FromOld(m, m)
      BY <2>1, <2>2, CutLogs
    <2>4. ASSUME NEW m \in Nodes, m # n PROVE Kept(m)
      BY <1>d, <1>h, <2>1, <2>3, <2>4 DEF Kept, LogTypes
    <2>5. ASSUME NEW m \in Nodes, m # n PROVE Extends(m)
      BY <2>3, <2>5 DEF Extends
    <2> QED
      BY <1>15, <1>f, <2>1, <2>3, <2>4, <2>5 DEF LogStep
  <1>16. ASSUME NEW n \in Nodes, NEW s \in Nodes, HandleHeartbeatResponse(n, s) PROVE LogStep
    BY <1>16, <1>d, <1>u, QuietLogStep DEF HandleHeartbeatResponse
  <1>17. ASSUME NEW n \in Nodes, NEW s \in Nodes, ProcessReplSetUpdatePosition(n, s)
         PROVE  LogStep
    BY <1>17, <1>d, <1>u, QuietLogStep DEF ProcessReplSetUpdatePosition
  <1>18. ASSUME NEW r \in storing, ReplyToVoteRequest(r[1], r[2], r[3]) PROVE LogStep
    BY <1>18, <1>d, <1>m, QuietLogStep DEF ReplyToVoteRequest
  <1> QED
    BY <1>1, <1>2, <1>3, <1>4, <1>5, <1>6, <1>7, <1>8, <1>9, <1>10, <1>11, <1>12, <1>13,
       <1>14, <1>15, <1>16, <1>17, <1>18, ElectionEnds DEF Next

-----------------------------------------------------------------------------
\* d is a candidate in term t and v has voted for it; and it is asking for votes.
Backs(v, t, d) == mode[d] \in Candidate /\ election[d].term = t /\ Claims(v, t, d)
Requests(v, t, d) == mode[d] = "requesting" /\ election[d].term = t /\ Claims(v, t, d)

\* A vote being stored was asked for by a candidate that has stored its own.
StoredInv(r) ==
    /\ r[2] <= diskVote[r[3]]
    /\ ~(mode[r[3]] = "storingVote" /\ election[r[3]].term = r[2])

\* A candidate has no votes while it stores its own, and has the entry that it tells
\* the voters it has.
VoterRole(d) ==
    /\ mode[d] = "storingVote" => election[d].votes = {}
    /\ mode[d] = "requesting" => Has(d, election[d].op[1], election[d].op[2])

\* A later term is pending only while a primary steps down; the first OpTime of a
\* primary's term is unset until the transition is complete, and then of that term.
PrimaryRole(d) ==
    /\ pendingTerm[d] # 0 => mode[d] = "kSteppingDown"
    /\ mode[d] = "kLeaderElect" => firstOpTime[d] = MaxOpTime
    /\ mode[d] = "kMaster" => firstOpTime[d][1] = term[d]

\* What the roles and the votes being stored say of each other.
RolesInv ==
    /\ \A d \in Nodes : VoterRole(d) /\ PrimaryRole(d)
    /\ \A r \in storing : StoredInv(r)

\* What one step does to the votes.
VoteStep ==
    /\ \A v \in Nodes : diskVote[v] <= diskVote'[v]
    /\ \A v, d \in Nodes, t \in Nat : Backs(v, t, d)' => Backs(v, t, d) \/ diskVote[v] < t
    /\ \A v, d \in Nodes, t \in Nat :
         Requests(v, t, d)' =>
            \/ Requests(v, t, d) /\ election'[d].op = election[d].op
            \/ /\ ~Before(election'[d].op, LastApplied(v))
               /\ UNCHANGED oplogVars

\* A step that leaves the votes alone and starts no candidacy is such a step.
LEMMA QuietVoteStep ==
    ASSUME BaseInv, UNCHANGED electionVars,
           \A m \in Nodes : mode'[m] \in Candidate => mode'[m] = mode[m]
    PROVE  VoteStep
  <1> USE DEF electionVars
  <1>1. \A v \in Nodes : diskVote[v] <= diskVote'[v]
    BY VoteNumbers
  <1>2. ASSUME NEW v \in Nodes, NEW d \in Nodes, NEW t \in Nat, mode'[d] \in Candidate,
               Claims(v, t, d)'
        PROVE  Claims(v, t, d)
    BY <1>2 DEF Claims
  <1>3. ASSUME NEW v \in Nodes, NEW d \in Nodes, NEW t \in Nat, Backs(v, t, d)'
        PROVE  Backs(v, t, d)
    BY <1>2, <1>3 DEF Backs
  <1>4. ASSUME NEW v \in Nodes, NEW d \in Nodes, NEW t \in Nat, Requests(v, t, d)'
        PROVE  Requests(v, t, d) /\ election'[d].op = election[d].op
    BY <1>2, <1>4 DEF Requests, Candidate
  <1> QED
    BY <1>1, <1>3, <1>4 DEF VoteStep

\* Every action is such a step; one case per action.
LEMMA VoteStepTaken ==
    ASSUME ~voteWentBack', BaseInv, BaseInv', ElectionInv, RolesInv, Next
    PROVE  VoteStep
  <1> USE DEF electionVars, oplogVars, leaderVars
  <1>m. /\ mode \in [Nodes -> Modes] /\ term \in [Nodes -> 0 .. MaxTerm] /\ StateTypes
        /\ diskVote \in [Nodes -> 0 .. MaxTerm] /\ storing \subseteq Nodes \X (1 .. MaxTerm) \X Nodes
        /\ election \in [Nodes -> [term : 0 .. MaxTerm, op : OpTimes, votes : SUBSET Nodes]]
    BY DEF BaseInv, StateTypes, VoteTypes
  <1>n. \A v \in Nodes : diskVote[v] \in Nat /\ lastVote[v] \in Nat /\ term[v] \in Nat
                        /\ diskVote[v] <= lastVote[v]
                        /\ (mode[v] = "follower" => lastVote[v] <= term[v])
                        /\ election[v].term \in Nat /\ election[v].term \in 0 .. MaxTerm
    BY VoteNumbers DEF ElectionInv, VoteInv, VoteBound
  <1>u. ASSUME NEW n \in Nodes, NEW t \in 0 .. MaxTerm, UpdateTerm(n, t)
        PROVE  \A m \in Nodes : mode'[m] \in Candidate => mode'[m] = mode[m]
    <2>1. \A m \in Nodes : /\ (mode'[m] \in Leader <=> mode[m] \in Leader)
                           /\ (mode[m] \notin Leader => mode'[m] = mode[m])
      BY <1>m, <1>u, UpdateTermEffect
    <2> QED
      BY <2>1 DEF Candidate, Leader
  <1>v. ASSUME NEW n \in Nodes, NEW s \in Nodes, UpdateTerm(n, term[s]), UNCHANGED electionVars
        PROVE  VoteStep
    <2>1. term[s] \in 0 .. MaxTerm
      BY <1>m
    <2> QED
      BY <1>u, <1>v, <2>1, QuietVoteStep
  <1>1. ASSUME NEW n \in Nodes, StartRealElection(n) PROVE VoteStep
    <2>1. /\ mode' = [mode EXCEPT ![n] = "storingVote"] /\ UNCHANGED <<diskVote, storing, oplogVars>>
          /\ mode[n] = "follower"
      BY <1>1 DEF StartRealElection
    <2>2. /\ \A d \in Nodes : d # n => election'[d] = election[d]
          /\ election'[n].votes = {} /\ election'[n].term = term[n] + 1
      BY <1>1, <1>m, <1>n, NoElectionType DEF StartRealElection
    <2>3. ASSUME NEW v \in Nodes, NEW d \in Nodes, NEW t \in Nat, Claims(v, t, d)'
          PROVE  Claims(v, t, d) \/ (v = n /\ d = n /\ t = term[n] + 1)
      BY <1>m, <2>1, <2>2, <2>3 DEF Claims
    <2>4. ASSUME NEW v \in Nodes, NEW d \in Nodes, NEW t \in Nat, Backs(v, t, d)'
          PROVE  Backs(v, t, d) \/ diskVote[v] < t
      <3>1. CASE d # n
        BY <1>m, <2>1, <2>2, <2>3, <2>4, <3>1 DEF Backs
      <3>2. CASE d = n
        <4>1. t = term[n] + 1
          BY <2>2, <2>4, <3>2 DEF Backs
        <4>2. CASE v = n
          BY <1>n, <2>1, <4>1, <4>2
        <4>3. CASE v # n
          <5>1. <<v, t, n>> \in storing
            BY <2>1, <2>2, <2>4, <3>2, <4>3 DEF Backs, Claims
          <5>2. t <= diskVote[n]
            BY <5>1 DEF RolesInv, StoredInv
          <5> QED
            BY <1>n, <2>1, <4>1, <5>2
        <4> QED
          BY <4>2, <4>3
      <3> QED
        BY <3>1, <3>2
    <2>5. ASSUME NEW v \in Nodes, NEW d \in Nodes, NEW t \in Nat, Requests(v, t, d)'
          PROVE  Requests(v, t, d) /\ election'[d].op = election[d].op
      BY <1>m, <2>1, <2>2, <2>3, <2>5 DEF Requests
    <2> QED
      BY <1>n, <2>1, <2>4, <2>5 DEF VoteStep
  <1>2. ASSUME NEW n \in Nodes, WriteLastVoteForMyElection(n) PROVE VoteStep
    <2>1. /\ mode[n] = "storingVote" /\ UNCHANGED <<storing, oplogVars>>
          /\ diskVote' = [diskVote EXCEPT ![n] = Higher(@, election[n].term)]
      BY <1>2 DEF WriteLastVoteForMyElection, StoreLastVote
    <2>2. \A v \in Nodes : diskVote[v] <= diskVote'[v]
      BY <1>m, <1>n, <2>1 DEF Higher
    <2>3. CASE term[n] = election[n].term
      <3>1. /\ mode' = [mode EXCEPT ![n] = "requesting"]
            /\ election' = [election EXCEPT ![n].op = LastApplied(n)]
        BY <1>2, <2>3 DEF WriteLastVoteForMyElection
      <3>2. /\ \A d \in Nodes : election'[d].term = election[d].term /\ election'[d].votes = election[d].votes
            /\ \A d \in Nodes : d # n => election'[d].op = election[d].op /\ mode'[d] = mode[d]
            /\ election'[n].op = LastApplied(n) /\ mode'[n] = "requesting"
        BY <1>m, <3>1
      <3>3. ASSUME NEW v \in Nodes, NEW d \in Nodes, NEW t \in Nat, Claims(v, t, d)'
            PROVE  Claims(v, t, d)
        BY <2>1, <3>2, <3>3 DEF Claims, Candidate
      <3>4. ASSUME NEW v \in Nodes, NEW d \in Nodes, NEW t \in Nat, Backs(v, t, d)'
            PROVE  Backs(v, t, d)
        BY <2>1, <3>2, <3>3, <3>4 DEF Backs, Candidate
      <3>5. ASSUME NEW v \in Nodes, NEW d \in Nodes, NEW t \in Nat, Requests(v, t, d)'
            PROVE  \/ Requests(v, t, d) /\ election'[d].op = election[d].op
                   \/ ~Before(election'[d].op, LastApplied(v)) /\ UNCHANGED oplogVars
        <4>1. CASE d # n
          BY <3>2, <3>3, <3>5, <4>1 DEF Requests
        <4>2. CASE d = n
          <5>1. election[n].votes = {}
            BY <2>1 DEF RolesInv, VoterRole
          <5>2. <<v, t, n>> \notin storing
            <6>1. ASSUME <<v, t, n>> \in storing PROVE FALSE
              <7>1. StoredInv(<<v, t, n>>)
                BY <6>1 DEF RolesInv
              <7> QED
                BY <2>1, <3>2, <3>5, <4>2, <7>1 DEF StoredInv, Requests
            <6> QED
              BY <6>1
          <5>3. v = n
            BY <2>1, <3>2, <3>5, <4>2, <5>1, <5>2 DEF Requests, Claims
          <5>4. LastApplied(n) \in OpTimes
            BY LogOpTimes
          <5> QED
            BY <2>1, <3>2, <4>2, <5>3, <5>4, OpTimeOrder
        <4> QED
          BY <4>1, <4>2
      <3> QED
        BY <2>2, <3>4, <3>5 DEF VoteStep
    <2>4. CASE term[n] # election[n].term
      <3>1. /\ mode' = [mode EXCEPT ![n] = "follower"]
            /\ election' = [election EXCEPT ![n] = NoElection]
        BY <1>2, <2>4 DEF WriteLastVoteForMyElection
      <3>2. ASSUME NEW v \in Nodes, NEW d \in Nodes, NEW t \in Nat, mode'[d] \in Candidate
            PROVE  /\ mode'[d] = mode[d] /\ election'[d] = election[d]
                   /\ Claims(v, t, d)' => Claims(v, t, d)
        BY <1>m, <2>1, <3>1, <3>2 DEF Claims, Candidate
      <3> QED
        BY <2>2, <3>2 DEF VoteStep, Backs, Requests, Candidate
    <2> QED
      BY <2>3, <2>4
  <1>r. ASSUME NEW n \in Nodes, mode'[n] \notin Candidate, storing' \subseteq storing,
               \A d \in Nodes : d # n => mode'[d] = mode[d] /\ election'[d] = election[d],
               diskVote' = diskVote
        PROVE  VoteStep
    <2>1. ASSUME NEW v \in Nodes, NEW d \in Nodes, NEW t \in Nat, mode'[d] \in Candidate
          PROVE  /\ mode'[d] = mode[d] /\ election'[d] = election[d]
                 /\ Claims(v, t, d)' => Claims(v, t, d)
      BY <1>r, <2>1 DEF Claims
    <2> QED
      BY <1>n, <1>r, <2>1 DEF VoteStep, Backs, Requests, Candidate
  <1>3. ASSUME NEW n \in Nodes, WinElection(n) PROVE VoteStep
    BY <1>3, <1>m, <1>r DEF WinElection, Candidate
  <1>4. ASSUME NEW n \in Nodes, EndsElection(n) PROVE VoteStep
    BY <1>4, <1>m, <1>r DEF EndsElection, Candidate
  <1>5. ASSUME NEW n \in Nodes, OnTransitionToPrimary(n) PROVE VoteStep
    BY <1>5, QuietVoteStep DEF OnTransitionToPrimary
  <1>6. ASSUME NEW n \in Nodes, CompleteTransitionToPrimary(n) PROVE VoteStep
    BY <1>6, <1>m, QuietVoteStep DEF CompleteTransitionToPrimary, Candidate
  <1>7. ASSUME NEW n \in Nodes, Write(n) PROVE VoteStep
    BY <1>7, QuietVoteStep DEF Write
  <1>8. ASSUME NEW n \in Nodes, Flush(n) PROVE VoteStep
    BY <1>8, QuietVoteStep DEF Flush
  <1>9. ASSUME NEW n \in Nodes, PrepareForUnconditionalStepDown(n) PROVE VoteStep
    BY <1>9, <1>m, QuietVoteStep DEF PrepareForUnconditionalStepDown, Candidate
  <1>10. ASSUME NEW n \in Nodes, StepDownFinish(n) PROVE VoteStep
    BY <1>10, <1>m, QuietVoteStep DEF StepDownFinish, Candidate
  <1>11. ASSUME NEW n \in Nodes, Restart(n) PROVE VoteStep
    BY <1>11, <1>m, <1>r DEF Restart, Candidate
  <1>12. ASSUME NEW n \in Nodes, NEW s \in Nodes, ProcessReplSetRequestVotes(n, s) PROVE VoteStep
    <2> DEFINE t0 == election[s].term
               G == GrantsVote(n, s) /\ ~(t0 < lastVote[n])
    <2>1. /\ mode[s] = "requesting" /\ UpdateTerm(n, t0) /\ UNCHANGED <<diskVote, election, oplogVars>>
          /\ \/ G /\ storing' = storing \cup {<<n, t0, s>>}
             \/ storing' = storing
      BY <1>12 DEF ProcessReplSetRequestVotes
    <2>2. t0 \in 0 .. MaxTerm /\ t0 \in Nat
      BY <1>n
    <2>3. \A m \in Nodes : mode'[m] \in Candidate => mode'[m] = mode[m]
      BY <1>u, <2>1, <2>2
    <2>4. ASSUME NEW v \in Nodes, NEW d \in Nodes, NEW t \in Nat, Claims(v, t, d)', mode'[d] \in Candidate
          PROVE  Claims(v, t, d) \/ (v = n /\ d = s /\ t = t0 /\ G)
      BY <2>1, <2>3, <2>4 DEF Claims
    <2>5. G => diskVote[n] < t0 /\ ~Before(election[s].op, LastApplied(n))
      <3>1. SUFFICES ASSUME G PROVE diskVote[n] < t0 /\ ~Before(election[s].op, LastApplied(n))
        OBVIOUS
      <3>2. ~Before(election[s].op, LastApplied(n)) /\ lastVote[n] # t0 /\ ~(t0 < lastVote[n])
        BY <3>1 DEF GrantsVote
      <3> QED
        BY <1>n, <2>2, <3>2
    <2> HIDE DEF t0, G
    <2>6. ASSUME NEW v \in Nodes, NEW d \in Nodes, NEW t \in Nat, Backs(v, t, d)'
          PROVE  Backs(v, t, d) \/ diskVote[v] < t
      BY <2>1, <2>3, <2>4, <2>5, <2>6 DEF Backs
    <2>7. ASSUME NEW v \in Nodes, NEW d \in Nodes, NEW t \in Nat, Requests(v, t, d)'
          PROVE  \/ Requests(v, t, d) /\ election'[d].op = election[d].op
                 \/ ~Before(election'[d].op, LastApplied(v)) /\ UNCHANGED oplogVars
      BY <2>1, <2>3, <2>4, <2>5, <2>7 DEF Requests, Candidate
    <2> QED
      BY <1>n, <2>1, <2>6, <2>7 DEF VoteStep
  <1>13. ASSUME NEW n \in Nodes, NEW s \in Nodes, FailStaleQuery(n, s) PROVE VoteStep
    BY <1>13, <1>v DEF FailStaleQuery
  <1>14. ASSUME NEW n \in Nodes, NEW s \in Nodes, OnSuccessfulBatch(n, s) PROVE VoteStep
    BY <1>14, <1>v DEF OnSuccessfulBatch, ProcessMetadata
  <1>15. ASSUME NEW n \in Nodes, NEW s \in Nodes, RunRollback(n, s) PROVE VoteStep
    BY <1>15, QuietVoteStep DEF RunRollback
  <1>16. ASSUME NEW n \in Nodes, NEW s \in Nodes, HandleHeartbeatResponse(n, s) PROVE VoteStep
    BY <1>16, <1>v DEF HandleHeartbeatResponse
  <1>17. ASSUME NEW n \in Nodes, NEW s \in Nodes, ProcessReplSetUpdatePosition(n, s) PROVE VoteStep
    BY <1>17, <1>v DEF ProcessReplSetUpdatePosition
  <1>18. ASSUME NEW r \in storing, ReplyToVoteRequest(r[1], r[2], r[3]) PROVE VoteStep
    <2>1. PICK v0 \in Nodes, t0 \in 1 .. MaxTerm, c \in Nodes : r = <<v0, t0, c>>
      BY <1>m
    <2>2. /\ UNCHANGED <<mode, oplogVars>> /\ storing' \subseteq storing
          /\ diskVote' = [diskVote EXCEPT ![v0] = Higher(@, t0)] /\ CountVote(v0, t0, c)
          /\ <<v0, t0, c>> \in storing
      BY <1>18, <2>1 DEF ReplyToVoteRequest, StoreLastVote
    <2>3. /\ \A m \in Nodes : election'[m].term = election[m].term /\ election'[m].op = election[m].op
          /\ \A m \in Nodes : election'[m].votes = election[m].votes
                \/ /\ m = c /\ election[c].term = t0
                   /\ election'[c].votes = election[c].votes \cup {v0}
      BY <1>m, <2>2 DEF CountVote
    <2>4. \A m \in Nodes : diskVote[m] <= diskVote'[m]
      BY <1>m, <1>n, <2>2, BoundsAssumption DEF Higher
    <2>5. ASSUME NEW v \in Nodes, NEW d \in Nodes, NEW t \in Nat, Claims(v, t, d)'
          PROVE  Claims(v, t, d)
      BY <2>2, <2>3, <2>5 DEF Claims
    <2> QED
      BY <2>2, <2>3, <2>4, <2>5 DEF VoteStep, Backs, Requests
  <1> QED
    BY <1>1, <1>2, <1>3, <1>4, <1>5, <1>6, <1>7, <1>8, <1>9, <1>10, <1>11, <1>12, <1>13,
       <1>14, <1>15, <1>16, <1>17, <1>18, ElectionEnds DEF Next

-----------------------------------------------------------------------------
\* A majority can no longer elect anyone in term t.
Used(t) ==
    \E Q \in SUBSET Nodes :
        /\ Cardinality(Q) >= Majority
        /\ \A v \in Q : t <= diskVote[v] /\ \A d \in Nodes : ~Backs(v, t, d)

\* Terms with entries have had their election, except that of the initiation.
EntriesUsed == \A n \in Nodes, t, i \in Nat : Has(n, t, i) /\ i >= 2 => Used(t)

\* What holds of the oplogs whatever is committed.
HistoryInv == LogMatching /\ TermChain /\ LeaderHasTerm /\ EntriesUsed

\* A term that has had its election never has another: a stored vote is never lost.
LEMMA UsedKept ==
    ASSUME BaseInv, BaseInv', VoteStep, NEW t \in Nat, Used(t)
    PROVE  Used(t)'
  <1>1. PICK Q \in SUBSET Nodes :
            /\ Cardinality(Q) >= Majority
            /\ \A v \in Q : t <= diskVote[v] /\ \A d \in Nodes : ~Backs(v, t, d)
    BY DEF Used
  <1>2. ASSUME NEW v \in Q PROVE t <= diskVote'[v] /\ \A d \in Nodes : ~Backs(v, t, d)'
    <2>1. v \in Nodes /\ t <= diskVote[v] /\ \A d \in Nodes : ~Backs(v, t, d)
      BY <1>1
    <2>2. diskVote[v] \in Nat /\ diskVote'[v] \in Nat
      BY <2>1, BoundsAssumption DEF BaseInv, VoteTypes
    <2> QED
      BY <2>1, <2>2 DEF VoteStep
  <1> QED
    BY <1>1, <1>2 DEF Used

\* The term of a primary has had its election.
LEMMA LeaderUsed ==
    ASSUME ElectionInv, NEW c \in Nodes, mode[c] \in Leader
    PROVE  Used(term[c])
  <1>1. PICK Q \in SUBSET Nodes : Cardinality(Q) >= Majority /\ \A v \in Q : Supports(v, term[c], c)
    BY DEF ElectionInv, HasMajority
  <1>2. ASSUME NEW v \in Q, NEW d \in Nodes PROVE ~Backs(v, term[c], d)
    <2>1. SUFFICES ASSUME Backs(v, term[c], d) PROVE FALSE
      OBVIOUS
    <2>2. d = c
      BY <1>1, <2>1 DEF Supports, Backs
    <2> QED
      BY <2>1, <2>2, ModesAre DEF Backs
  <1>3. \A v \in Q : term[c] <= diskVote[v]
    BY <1>1 DEF Supports
  <1> QED
    BY <1>1, <1>2, <1>3 DEF Used

\* The votes that elect c.
LEMMA WinnerVotes ==
    ASSUME BaseInv, ElectionInv, NEW c \in Nodes, WinElection(c)
    PROVE  LET W == election[c].votes \cup {c}
           IN  /\ W \in SUBSET Nodes
               /\ Cardinality(W) >= Majority
               /\ \A v \in W : Requests(v, term[c], c) /\ Backs(v, term[c], c)
               /\ \A v \in W : term[c] <= diskVote[v]
               /\ term[c] \in Nat /\ term[c] >= 1
  <1>1. /\ mode[c] = "requesting" /\ term[c] = election[c].term /\ Elected(c)
    BY DEF WinElection
  <1>2. election[c].votes \subseteq Nodes /\ c \notin election[c].votes
    BY VoteNumbers DEF ElectionInv, CandidateInv
  <1>3. Cardinality(election[c].votes \cup {c}) = Cardinality(election[c].votes) + 1
    BY <1>2, NodeSets, FS_AddElement
  <1>4. \A v \in election[c].votes \cup {c} : Claims(v, term[c], c)
    BY <1>1 DEF Claims, Candidate
  <1>5. mode[c] \in Candidate
    BY <1>1 DEF Candidate
  <1>6. term[c] \in Nat /\ term[c] >= 1
    BY <1>1, <1>5, VoteNumbers DEF BaseInv, VoteTypes
  <1>7. \A v \in election[c].votes \cup {c} : term[c] <= diskVote[v]
    BY <1>1, <1>2 DEF ElectionInv, VoteInv
  <1>8. election[c].votes \cup {c} \in SUBSET Nodes
    BY <1>2
  <1>9. Cardinality(election[c].votes \cup {c}) >= Majority
    BY <1>1, <1>3 DEF Elected
  <1> QED
    BY <1>1, <1>4, <1>5, <1>6, <1>7, <1>8, <1>9 DEF Requests, Backs

\* No one has an entry of the term of a primary just elected.
LEMMA WinnerStartsTerm ==
    ASSUME BaseInv, ElectionInv, EntriesUsed, NEW c \in Nodes, WinElection(c),
           NEW m \in Nodes, NEW i \in Nat
    PROVE  ~Has(m, term[c], i)
  <1> DEFINE W == election[c].votes \cup {c}
  <1>1. /\ W \in SUBSET Nodes /\ Cardinality(W) >= Majority
        /\ \A v \in W : Backs(v, term[c], c)
        /\ term[c] \in Nat /\ term[c] >= 1
    BY WinnerVotes
  <1> HIDE DEF W
  <1>2. SUFFICES ASSUME Has(m, term[c], i) PROVE FALSE
    OBVIOUS
  <1>h. HasInv
    BY HasFacts
  <1>3. i >= 2
    <2>1. i >= 1 /\ Has(m, 0, 1)
      BY <1>h, <1>2 DEF HasInv
    <2>2. i # 1
      BY <1>h, <1>1, <1>2, <2>1 DEF HasInv
    <2> QED
      BY <2>1, <2>2
  <1>4. Used(term[c])
    BY <1>1, <1>2, <1>3 DEF EntriesUsed
  <1>5. PICK Q \in SUBSET Nodes :
            Cardinality(Q) >= Majority /\ \A v \in Q : ~Backs(v, term[c], c)
    BY <1>4 DEF Used
  <1>6. PICK v \in Nodes : v \in Q /\ v \in W
    BY <1>1, <1>5, QuorumsMeet
  <1> QED
    BY <1>1, <1>5, <1>6

\* Every step keeps the history of the oplogs: an entry is copied with what precedes
\* it, or written by the only primary of its term.
LEMMA HistoryKept ==
    ASSUME BaseInv, BaseInv', ElectionInv, ElectionInv', HistoryInv, LogStep, VoteStep
    PROVE  HistoryInv'
  <1>h. HasInv /\ HasInv'
    BY HasFacts, HasFactsNext
  <1>i. LogMatching /\ TermChain /\ LeaderHasTerm /\ EntriesUsed
    BY DEF HistoryInv
  <1>t. \A c \in Nodes : term[c] \in Nat /\ LastApplied(c)[2] \in Nat
    BY <1>h, VoteNumbers DEF HasInv
  <1>1. CASE \A n \in Nodes : \E s \in Nodes : FromOld(n, s)
    <2>1. ASSUME NEW n \in Nodes, NEW m \in Nodes, NEW t \in Nat, NEW i \in Nat,
                 Has(n, t, i)', Has(m, t, i)', NEW u \in Nat, NEW j \in Nat, j <= i, Has(n, u, j)'
          PROVE  Has(m, u, j)'
      <3>1. PICK s \in Nodes : FromOld(n, s)
        BY <1>1
      <3>2. PICK r \in Nodes : FromOld(m, r)
        BY <1>1
      <3>3. Has(s, t, i) /\ Has(r, t, i) /\ Has(s, u, j)
        BY <2>1, <3>1, <3>2 DEF FromOld
      <3>4. Has(r, u, j)
        BY <1>i, <2>1, <3>3 DEF LogMatching
      <3> QED
        BY <2>1, <3>2, <3>4 DEF FromOld
    <2>2. ASSUME NEW n \in Nodes, NEW m \in Nodes, NEW t \in Nat, NEW i \in Nat, NEW j \in Nat,
                 i <= j, Has(n, t, j)', Has(m, t, i)'
          PROVE  Has(n, t, i)'
      <3>1. PICK s \in Nodes : FromOld(n, s)
        BY <1>1
      <3>2. PICK r \in Nodes : FromOld(m, r)
        BY <1>1
      <3>3. Has(s, t, j) /\ Has(r, t, i)
        BY <2>2, <3>1, <3>2 DEF FromOld
      <3>4. Has(s, t, i)
        BY <1>i, <2>2, <3>3 DEF TermChain
      <3> QED
        BY <2>2, <3>1, <3>4 DEF FromOld
    <2>3. ASSUME NEW c \in Nodes, NEW m \in Nodes, NEW i \in Nat, mode'[c] \in Leader,
                 Has(m, term[c], i)', term'[c] = term[c]
          PROVE  Has(c, term[c], i)'
      <3>1. PICK r \in Nodes : FromOld(m, r)
        BY <1>1
      <3>2. Has(r, term[c], i)
        BY <1>t, <2>3, <3>1 DEF FromOld
      <3>3. CASE WinElection(c)
        BY <1>i, <3>2, <3>3, WinnerStartsTerm
      <3>4. CASE mode[c] \in Leader
        <4>1. Has(c, term[c], i)
          BY <1>i, <3>2, <3>4 DEF LeaderHasTerm
        <4>2. mode'[c] # "follower"
          BY <2>3, ModesAre
        <4> QED
          BY <1>t, <2>3, <4>1, <4>2 DEF LogStep
      <3> QED
        BY <2>3, <3>3, <3>4 DEF LogStep
    <2>4. ASSUME NEW n \in Nodes, NEW t \in Nat, NEW i \in Nat, Has(n, t, i)', i >= 2
          PROVE  Used(t)'
      <3>1. PICK s \in Nodes : FromOld(n, s)
        BY <1>1
      <3>2. Has(s, t, i)
        BY <2>4, <3>1 DEF FromOld
      <3> QED
        BY <1>i, <2>4, <3>2, UsedKept DEF EntriesUsed
    <2>5. LogMatching'
      BY <2>1 DEF LogMatching
    <2>6. TermChain'
      BY <2>2 DEF TermChain
    <2>7. LeaderHasTerm'
      <3>1. ASSUME NEW c \in Nodes, NEW m \in Nodes, NEW i \in Nat, mode'[c] \in Leader,
                   Has(m, term[c], i)'
            PROVE  Has(c, term[c], i)'
        <4>1. term'[c] = term[c]
          BY <3>1 DEF LogStep, WinElection
        <4> QED
          BY <2>3, <3>1, <4>1
      <3> QED
        BY <3>1 DEF LeaderHasTerm
    <2>8. EntriesUsed'
      BY <2>4 DEF EntriesUsed
    <2> QED
      BY <2>5, <2>6, <2>7, <2>8 DEF HistoryInv
  <1>2. ASSUME NEW c \in Nodes, Grows(c) PROVE HistoryInv'
    <2> DEFINE L == LastApplied(c)[2]
               x == term[c]
    <2>1. /\ mode[c] \in Leader /\ mode' = mode /\ term' = term
          /\ \A t, i \in Nat : Has(c, t, i)' <=> (Has(c, t, i) \/ (t = x /\ i = L + 1))
          /\ \A m \in Nodes : m # c => \A t, i \in Nat : Has(m, t, i)' <=> Has(m, t, i)
      BY <1>2 DEF Grows
    <2>2. \A t, i \in Nat : Has(c, t, i) => i <= L
      BY <1>h DEF HasInv
    <2>3. x \in Nat /\ L \in Nat
      BY <1>t
    <2>4. \A m \in Nodes, i \in Nat : Has(m, x, i) => i <= L /\ Has(c, x, i)
      BY <1>i, <2>1, <2>2, <2>3 DEF LeaderHasTerm
    <2> HIDE DEF L, x
    <2>5. ASSUME NEW n \in Nodes, NEW t \in Nat, NEW i \in Nat, Has(n, t, i)'
          PROVE  Has(n, t, i) \/ (n = c /\ t = x /\ i = L + 1)
      BY <2>1, <2>5
    <2>6. ASSUME NEW n \in Nodes, NEW t \in Nat, NEW i \in Nat, Has(n, t, i)
          PROVE  Has(n, t, i)'
      BY <2>1, <2>6
    <2>7. ASSUME NEW n \in Nodes, NEW m \in Nodes, NEW t \in Nat, NEW i \in Nat,
                 Has(n, t, i)', Has(m, t, i)', NEW u \in Nat, NEW j \in Nat, j <= i, Has(n, u, j)'
          PROVE  Has(m, u, j)'
      <3>1. CASE Has(n, t, i) /\ Has(m, t, i)
        <4>1. CASE Has(n, u, j)
          BY <1>i, <2>6, <2>7, <3>1, <4>1 DEF LogMatching
        <4>2. CASE n = c /\ u = x /\ j = L + 1
          BY <2>2, <2>3, <2>7, <3>1, <4>2
        <4> QED
          BY <2>5, <2>7, <4>1, <4>2
      <3>2. CASE n = m
        BY <2>7, <3>2
      <3>3. CASE n # m /\ n = c /\ t = x /\ i = L + 1
        BY <2>1, <2>3, <2>4, <2>7, <3>3
      <3>4. CASE n # m /\ m = c /\ t = x /\ i = L + 1
        BY <2>1, <2>3, <2>4, <2>7, <3>4
      <3> QED
        BY <2>5, <2>7, <3>1, <3>2, <3>3, <3>4
    <2>8. ASSUME NEW n \in Nodes, NEW m \in Nodes, NEW t \in Nat, NEW i \in Nat, NEW j \in Nat,
                 i <= j, Has(n, t, j)', Has(m, t, i)'
          PROVE  Has(n, t, i)'
      <3>1. CASE Has(n, t, j) /\ Has(m, t, i)
        BY <1>i, <2>6, <2>8, <3>1 DEF TermChain
      <3>2. CASE n = c /\ t = x /\ j = L + 1 /\ Has(m, t, i)
        BY <2>4, <2>6, <3>2
      <3>3. CASE m = c /\ t = x /\ i = L + 1 /\ Has(n, t, j)
        BY <2>3, <2>4, <2>8, <3>3
      <3>4. CASE m = c /\ n = c
        BY <2>8, <3>4
      <3> QED
        BY <2>5, <2>8, <3>1, <3>2, <3>3, <3>4
    <2>9. ASSUME NEW d \in Nodes, NEW m \in Nodes, NEW i \in Nat, mode'[d] \in Leader,
                 Has(m, term[d], i)'
          PROVE  Has(d, term[d], i)'
      <3>0. term'[d] = term[d] /\ term[d] \in Nat /\ mode[d] \in Leader
        BY <1>t, <2>1, <2>9
      <3>1. CASE Has(m, term[d], i)
        BY <1>i, <2>6, <3>0, <3>1 DEF LeaderHasTerm
      <3>2. CASE m = c /\ term[d] = x
        <4>1. d = c
          BY <2>1, <3>0, <3>2 DEF x, ElectionInv, OnePrimaryPerTerm
        <4> QED
          BY <2>9, <3>2, <4>1
      <3> QED
        BY <2>5, <2>9, <3>0, <3>1, <3>2
    <2>10. ASSUME NEW n \in Nodes, NEW t \in Nat, NEW i \in Nat, Has(n, t, i)', i >= 2
           PROVE  Used(t)'
      <3>1. Used(x)
        BY <2>1, LeaderUsed DEF x
      <3>2. Used(t)
        BY <1>i, <2>5, <2>10, <3>1 DEF EntriesUsed
      <3> QED
        BY <3>2, UsedKept
    <2>11. LogMatching'
      BY <2>7 DEF LogMatching
    <2>12. TermChain'
      BY <2>8 DEF TermChain
    <2>13. LeaderHasTerm'
      BY <2>9 DEF LeaderHasTerm
    <2>14. EntriesUsed'
      BY <2>10 DEF EntriesUsed
    <2> QED
      BY <2>11, <2>12, <2>13, <2>14 DEF HistoryInv
  <1> QED
    BY <1>1, <1>2 DEF LogStep

-----------------------------------------------------------------------------
\* Every step keeps the roles; one case per action.
LEMMA RolesKept ==
    ASSUME BaseInv, BaseInv', ElectionInv, RolesInv, LogStep, VoteStep, Next
    PROVE  RolesInv'
  <1> USE DEF electionVars, oplogVars, leaderVars
  <1>m. /\ mode \in [Nodes -> Modes] /\ term \in [Nodes -> 0 .. MaxTerm] /\ StateTypes
        /\ diskVote \in [Nodes -> 0 .. MaxTerm] /\ storing \subseteq Nodes \X (1 .. MaxTerm) \X Nodes
        /\ election \in [Nodes -> [term : 0 .. MaxTerm, op : OpTimes, votes : SUBSET Nodes]]
        /\ pendingTerm \in [Nodes -> 0 .. MaxTerm] /\ firstOpTime \in [Nodes -> OpTimes]
        /\ diskVote' \in [Nodes -> 0 .. MaxTerm] /\ storing' \subseteq Nodes \X (1 .. MaxTerm) \X Nodes
    BY DEF BaseInv, StateTypes, VoteTypes, CommitTypes
  <1>n. \A v \in Nodes : diskVote[v] \in Nat /\ diskVote'[v] \in Nat /\ diskVote[v] <= diskVote'[v]
                        /\ (mode[v] = "follower" => diskVote[v] <= term[v])
                        /\ term[v] \in Nat
                        /\ election[v].term \in Nat /\ election[v].term \in 0 .. MaxTerm
    <2>1. \A v \in Nodes : /\ diskVote[v] <= lastVote[v] /\ lastVote[v] \in Nat
                           /\ mode[v] = "follower" => lastVote[v] <= term[v]
      BY VoteNumbers DEF ElectionInv, VoteInv, VoteBound
    <2>2. \A v \in Nodes : diskVote'[v] \in Nat
      BY <1>m, BoundsAssumption
    <2>3. \A v \in Nodes : diskVote[v] <= diskVote'[v]
      BY DEF VoteStep
    <2>4. ASSUME NEW v \in Nodes, mode[v] = "follower" PROVE diskVote[v] <= term[v]
      <3>1. diskVote[v] <= lastVote[v] /\ lastVote[v] <= term[v]
        BY <2>1, <2>4
      <3> QED
        BY <3>1, VoteNumbers
    <2> QED
      BY <2>2, <2>3, <2>4, VoteNumbers
  <1>i. \A d \in Nodes : VoterRole(d) /\ PrimaryRole(d)
    BY DEF RolesInv
  <1>o. \A d \in Nodes : election[d].op[1] \in Int /\ election[d].op[2] \in Nat
    BY <1>m, OpTimeType
  \* Nodes whose candidacy does not change.
  <1>c. ASSUME NEW d \in Nodes, mode'[d] \in Candidate => mode'[d] = mode[d] /\ election'[d] = election[d]
        PROVE  VoterRole(d)'
    <2>1. CASE mode'[d] \in Candidate
      <3>1. mode'[d] = mode[d] /\ election'[d] = election[d] /\ mode'[d] # "follower"
        BY <1>c, <2>1, ModesAre
      <3>2. mode[d] = "requesting" => Has(d, election[d].op[1], election[d].op[2])'
        <4>1. SUFFICES ASSUME mode[d] = "requesting" PROVE Has(d, election[d].op[1], election[d].op[2])'
          OBVIOUS
        <4>2. Has(d, election[d].op[1], election[d].op[2])
          BY <1>i, <4>1 DEF VoterRole
        <4>3. election[d].op[1] \in Nat /\ election[d].op[2] \in Nat
          BY <4>2, HasFacts DEF HasInv
        <4> DEFINE t == election[d].op[1]
                   i == election[d].op[2]
        <4>4. Has(d, t, i) /\ t \in Nat /\ i \in Nat
          BY <4>2, <4>3
        <4>5. election'[d].op[1] = t /\ election'[d].op[2] = i
          BY <3>1
        <4> HIDE DEF t, i
        <4> QED
          BY <3>1, <4>4, <4>5 DEF LogStep
      <3> QED
        BY <1>i, <3>1, <3>2 DEF VoterRole
    <2>2. CASE mode'[d] \notin Candidate
      BY <2>2 DEF VoterRole, Candidate
    <2> QED
      BY <2>1, <2>2
  <1>s. ASSUME storing' \subseteq storing,
               \A d \in Nodes : mode'[d] = "storingVote" => mode[d] = "storingVote" /\ election'[d] = election[d]
        PROVE  \A r \in storing' : StoredInv(r)'
    <2>1. ASSUME NEW r \in storing' PROVE StoredInv(r)'
      <3>1. r \in storing /\ r[3] \in Nodes /\ r[2] \in Nat /\ StoredInv(r)
        BY <1>s, <1>m, <2>1, BoundsAssumption DEF RolesInv
      <3> QED
        BY <1>n, <1>s, <3>1 DEF StoredInv
    <2> QED
      BY <2>1
  <1>q. ASSUME UNCHANGED electionVars, \A d \in Nodes : mode'[d] \in Candidate => mode'[d] = mode[d]
        PROVE  (\A d \in Nodes : VoterRole(d)') /\ (\A r \in storing' : StoredInv(r)')
    <2>1. \A d \in Nodes : mode'[d] \in Candidate => mode'[d] = mode[d] /\ election'[d] = election[d]
      BY <1>q
    <2>2. \A d \in Nodes : VoterRole(d)'
      BY <1>c, <2>1
    <2>3. \A r \in storing' : StoredInv(r)'
      BY <1>q, <1>s DEF Candidate
    <2> QED
      BY <2>2, <2>3
  <1>p. ASSUME UNCHANGED <<term, pendingTerm, mode, firstOpTime>> PROVE \A d \in Nodes : PrimaryRole(d)'
    BY <1>i, <1>p DEF PrimaryRole
  <1>u. ASSUME NEW n \in Nodes, NEW t \in 0 .. MaxTerm, UpdateTerm(n, t), firstOpTime' = firstOpTime
        PROVE  /\ \A m \in Nodes : mode'[m] \in Candidate => mode'[m] = mode[m]
               /\ \A d \in Nodes : PrimaryRole(d)'
    <2>1. \A m \in Nodes : /\ (mode'[m] \in Leader <=> mode[m] \in Leader)
                           /\ (mode[m] \notin Leader => mode'[m] = mode[m])
      BY <1>m, <1>u, UpdateTermEffect
    <2>2. ASSUME NEW d \in Nodes PROVE PrimaryRole(d)'
      <3>1. CASE t > term[n] /\ mode[n] \in Leader
        <4>1. /\ pendingTerm' = [pendingTerm EXCEPT ![n] = Higher(@, t)]
              /\ mode' = [mode EXCEPT ![n] = "kSteppingDown"] /\ term' = term
          BY <1>u, <3>1 DEF UpdateTerm
        <4> QED
          BY <1>i, <1>m, <1>u, <4>1 DEF PrimaryRole
      <3>2. CASE ~(t > term[n] /\ mode[n] \in Leader)
        <4>1. term' = [term EXCEPT ![n] = Higher(@, t)] /\ UNCHANGED <<pendingTerm, mode>>
          BY <1>u, <3>2 DEF UpdateTerm
        <4>2. mode[n] \in Leader => term'[n] = term[n]
          BY <1>n, <1>m, <3>2, <4>1 DEF Higher
        <4>3. mode[d] \in Leader => term'[d] = term[d]
          BY <1>m, <4>1, <4>2
        <4> QED
          BY <1>i, <1>u, <4>1, <4>3 DEF PrimaryRole, Leader
      <3> QED
        BY <3>1, <3>2
    <2>3. \A m \in Nodes : mode'[m] \in Candidate => mode'[m] = mode[m]
      BY <2>1 DEF Candidate, Leader
    <2> QED
      BY <2>2, <2>3
  <1>v. ASSUME NEW n \in Nodes, NEW s \in Nodes, UpdateTerm(n, term[s]), UNCHANGED <<electionVars, firstOpTime>>
        PROVE  RolesInv'
    <2>1. term[s] \in 0 .. MaxTerm
      BY <1>m
    <2>2. /\ \A m \in Nodes : mode'[m] \in Candidate => mode'[m] = mode[m]
          /\ \A d \in Nodes : PrimaryRole(d)'
      BY <1>u, <1>v, <2>1
    <2> QED
      BY <1>q, <1>v, <2>2 DEF RolesInv
  <1>1. ASSUME NEW n \in Nodes, StartRealElection(n) PROVE RolesInv'
    <2>1. /\ mode' = [mode EXCEPT ![n] = "storingVote"] /\ UNCHANGED <<storing, pendingTerm, firstOpTime>>
          /\ term' = [term EXCEPT ![n] = @ + 1] /\ mode[n] = "follower" /\ diskVote' = diskVote
      BY <1>1 DEF StartRealElection
    <2>2. /\ \A d \in Nodes : d # n => election'[d] = election[d] /\ mode'[d] = mode[d] /\ term'[d] = term[d]
          /\ election'[n].votes = {} /\ election'[n].term = term[n] + 1 /\ mode'[n] = "storingVote"
      BY <1>1, <1>m, <1>n, <2>1, NoElectionType DEF StartRealElection
    <2>3. ASSUME NEW d \in Nodes PROVE VoterRole(d)'
      <3>1. CASE d = n
        BY <2>2, <3>1 DEF VoterRole
      <3>2. CASE d # n
        BY <1>c, <2>2, <3>2
      <3> QED
        BY <3>1, <3>2
    <2>4. ASSUME NEW d \in Nodes PROVE PrimaryRole(d)'
      BY <1>i, <2>1, <2>2 DEF PrimaryRole
    <2>5. ASSUME NEW r \in storing' PROVE StoredInv(r)'
      <3>1. r \in storing /\ r[3] \in Nodes /\ r[2] \in Nat /\ StoredInv(r)
        BY <1>m, <2>1, <2>5, BoundsAssumption DEF RolesInv
      <3>2. CASE r[3] = n
        BY <1>n, <2>1, <2>2, <3>1, <3>2 DEF StoredInv
      <3>3. CASE r[3] # n
        BY <2>1, <2>2, <3>1, <3>3 DEF StoredInv
      <3> QED
        BY <3>2, <3>3
    <2> QED
      BY <2>3, <2>4, <2>5 DEF RolesInv
  <1>2. ASSUME NEW n \in Nodes, WriteLastVoteForMyElection(n) PROVE RolesInv'
    <2>1. /\ mode[n] = "storingVote" /\ UNCHANGED <<storing, oplog, term, pendingTerm, firstOpTime>>
          /\ mode'[n] \in {"requesting", "follower"}
          /\ \A d \in Nodes : d # n => mode'[d] = mode[d] /\ election'[d] = election[d]
          /\ mode'[n] = "requesting" => election'[n].op = LastApplied(n)
      BY <1>2, <1>m DEF WriteLastVoteForMyElection
    <2>2. ASSUME NEW d \in Nodes PROVE VoterRole(d)'
      <3>1. CASE d = n
        <4>1. Has(n, LastApplied(n)[1], LastApplied(n)[2])'
          BY HasFactsNext DEF HasInv
        <4>2. LastApplied(n)' = LastApplied(n)
          BY <2>1 DEF LastApplied
        <4> QED
          BY <2>1, <3>1, <4>1, <4>2 DEF VoterRole
      <3>2. CASE d # n
        BY <1>c, <2>1, <3>2
      <3> QED
        BY <3>1, <3>2
    <2>3. ASSUME NEW d \in Nodes PROVE PrimaryRole(d)'
      BY <1>i, <2>1 DEF PrimaryRole
    <2>4. \A r \in storing' : StoredInv(r)'
      BY <1>s, <2>1
    <2> QED
      BY <2>2, <2>3, <2>4 DEF RolesInv
  <1>3. ASSUME NEW n \in Nodes, WinElection(n) PROVE RolesInv'
    <2>1. /\ UNCHANGED <<storing, term, pendingTerm>> /\ mode[n] = "requesting" /\ mode'[n] = "kLeaderElect"
          /\ firstOpTime'[n] = MaxOpTime
          /\ \A d \in Nodes : d # n => mode'[d] = mode[d] /\ election'[d] = election[d] /\ firstOpTime'[d] = firstOpTime[d]
      BY <1>3, <1>m DEF WinElection
    <2>2. \A d \in Nodes : VoterRole(d)'
      BY <1>c, <2>1 DEF Candidate
    <2>3. \A r \in storing' : StoredInv(r)'
      BY <1>s, <2>1
    <2>4. \A d \in Nodes : PrimaryRole(d)'
      BY <1>i, <2>1 DEF PrimaryRole
    <2> QED
      BY <2>2, <2>3, <2>4 DEF RolesInv
  <1>4. ASSUME NEW n \in Nodes, EndsElection(n) PROVE RolesInv'
    <2>1. /\ UNCHANGED <<storing, term, pendingTerm, firstOpTime>> /\ mode[n] \in Candidate /\ mode'[n] = "follower"
          /\ \A d \in Nodes : d # n => mode'[d] = mode[d] /\ election'[d] = election[d]
      BY <1>4, <1>m DEF EndsElection
    <2>2. \A d \in Nodes : VoterRole(d)'
      BY <1>c, <2>1 DEF Candidate
    <2>3. \A r \in storing' : StoredInv(r)'
      BY <1>s, <2>1
    <2>4. \A d \in Nodes : PrimaryRole(d)'
      BY <1>i, <2>1 DEF PrimaryRole, Candidate
    <2> QED
      BY <2>2, <2>3, <2>4 DEF RolesInv
  <1>5. ASSUME NEW n \in Nodes, OnTransitionToPrimary(n) PROVE RolesInv'
    BY <1>5, <1>p, <1>q DEF OnTransitionToPrimary, RolesInv
  <1>6. ASSUME NEW n \in Nodes, CompleteTransitionToPrimary(n) PROVE RolesInv'
    <2>1. /\ UNCHANGED <<electionVars, term, pendingTerm>> /\ mode[n] = "kLeaderElect" /\ mode'[n] = "kMaster"
          /\ firstOpTime'[n][1] = term[n]
          /\ \A d \in Nodes : d # n => mode'[d] = mode[d] /\ firstOpTime'[d] = firstOpTime[d]
      BY <1>6, <1>m DEF CompleteTransitionToPrimary, LoggedTransition
    <2>2. \A d \in Nodes : PrimaryRole(d)'
      BY <1>i, <2>1 DEF PrimaryRole
    <2>3. \A d \in Nodes : mode'[d] \in Candidate => mode'[d] = mode[d]
      BY <2>1 DEF Candidate
    <2> QED
      BY <1>q, <2>1, <2>2, <2>3 DEF RolesInv
  <1>7. ASSUME NEW n \in Nodes, Write(n) PROVE RolesInv'
    BY <1>7, <1>p, <1>q DEF Write, RolesInv
  <1>8. ASSUME NEW n \in Nodes, Flush(n) PROVE RolesInv'
    BY <1>8, <1>p, <1>q DEF Flush, RolesInv
  <1>9. ASSUME NEW n \in Nodes, PrepareForUnconditionalStepDown(n) PROVE RolesInv'
    <2>1. /\ UNCHANGED <<electionVars, term, pendingTerm, firstOpTime>> /\ mode'[n] = "kSteppingDown"
          /\ \A d \in Nodes : d # n => mode'[d] = mode[d]
      BY <1>9, <1>m DEF PrepareForUnconditionalStepDown
    <2>2. \A d \in Nodes : PrimaryRole(d)'
      BY <1>i, <2>1 DEF PrimaryRole
    <2>3. \A d \in Nodes : mode'[d] \in Candidate => mode'[d] = mode[d]
      BY <2>1 DEF Candidate
    <2> QED
      BY <1>q, <2>1, <2>2, <2>3 DEF RolesInv
  <1>10. ASSUME NEW n \in Nodes, StepDownFinish(n) PROVE RolesInv'
    <2>1. /\ UNCHANGED <<electionVars, firstOpTime>> /\ mode'[n] = "follower" /\ pendingTerm'[n] = 0
          /\ \A d \in Nodes : d # n => mode'[d] = mode[d] /\ term'[d] = term[d] /\ pendingTerm'[d] = pendingTerm[d]
      BY <1>10, <1>m DEF StepDownFinish
    <2>2. \A d \in Nodes : PrimaryRole(d)'
      BY <1>i, <2>1 DEF PrimaryRole
    <2>3. \A d \in Nodes : mode'[d] \in Candidate => mode'[d] = mode[d]
      BY <2>1 DEF Candidate
    <2> QED
      BY <1>q, <2>1, <2>2, <2>3 DEF RolesInv
  <1>11. ASSUME NEW n \in Nodes, Restart(n) PROVE RolesInv'
    <2>1. /\ storing' \subseteq storing /\ mode'[n] = "follower" /\ pendingTerm'[n] = 0
          /\ \A d \in Nodes : d # n => /\ mode'[d] = mode[d] /\ term'[d] = term[d] /\ pendingTerm'[d] = pendingTerm[d]
                                       /\ election'[d] = election[d] /\ firstOpTime'[d] = firstOpTime[d]
      BY <1>11, <1>m DEF Restart
    <2>2. \A d \in Nodes : VoterRole(d)'
      BY <1>c, <2>1 DEF Candidate
    <2>3. \A r \in storing' : StoredInv(r)'
      BY <1>s, <2>1
    <2>4. \A d \in Nodes : PrimaryRole(d)'
      BY <1>i, <2>1 DEF PrimaryRole
    <2> QED
      BY <2>2, <2>3, <2>4 DEF RolesInv
  <1>12. ASSUME NEW n \in Nodes, NEW s \in Nodes, ProcessReplSetRequestVotes(n, s) PROVE RolesInv'
    <2>1. /\ mode[s] = "requesting" /\ UpdateTerm(n, election[s].term)
          /\ UNCHANGED <<diskVote, election, firstOpTime>>
          /\ storing' \subseteq storing \cup {<<n, election[s].term, s>>}
      BY <1>12 DEF ProcessReplSetRequestVotes
    <2>2. /\ \A m \in Nodes : mode'[m] \in Candidate => mode'[m] = mode[m]
          /\ \A d \in Nodes : PrimaryRole(d)'
      BY <1>n, <1>u, <2>1
    <2>3. \A d \in Nodes : VoterRole(d)'
      BY <1>c, <2>1, <2>2
    <2>4. ASSUME NEW r \in storing' PROVE StoredInv(r)'
      <3>1. CASE r \in storing
        <4>1. r[3] \in Nodes /\ StoredInv(r)
          BY <1>m, <3>1 DEF RolesInv
        <4> QED
          BY <2>1, <2>2, <4>1 DEF StoredInv, Candidate
      <3>2. CASE r = <<n, election[s].term, s>>
        <4>1. election[s].term <= diskVote[s]
          BY <2>1 DEF ElectionInv, VoteInv
        <4>2. mode'[s] # "storingVote"
          BY <2>1, <2>2 DEF Candidate
        <4> QED
          BY <2>1, <3>2, <4>1, <4>2 DEF StoredInv
      <3> QED
        BY <2>1, <3>1, <3>2
    <2> QED
      BY <2>2, <2>3, <2>4 DEF RolesInv
  <1>13. ASSUME NEW n \in Nodes, NEW s \in Nodes, FailStaleQuery(n, s) PROVE RolesInv'
    BY <1>13, <1>v DEF FailStaleQuery
  <1>14. ASSUME NEW n \in Nodes, NEW s \in Nodes, OnSuccessfulBatch(n, s) PROVE RolesInv'
    BY <1>14, <1>v DEF OnSuccessfulBatch, ProcessMetadata
  <1>15. ASSUME NEW n \in Nodes, NEW s \in Nodes, RunRollback(n, s) PROVE RolesInv'
    BY <1>15, <1>p, <1>q DEF RunRollback, RolesInv
  <1>16. ASSUME NEW n \in Nodes, NEW s \in Nodes, HandleHeartbeatResponse(n, s) PROVE RolesInv'
    BY <1>16, <1>v DEF HandleHeartbeatResponse
  <1>17. ASSUME NEW n \in Nodes, NEW s \in Nodes, ProcessReplSetUpdatePosition(n, s) PROVE RolesInv'
    BY <1>17, <1>v DEF ProcessReplSetUpdatePosition
  <1>18. ASSUME NEW r \in storing, ReplyToVoteRequest(r[1], r[2], r[3]) PROVE RolesInv'
    <2>1. PICK v0 \in Nodes, t0 \in 1 .. MaxTerm, c \in Nodes : r = <<v0, t0, c>>
      BY <1>m
    <2>2. /\ UNCHANGED <<mode, oplog, term, pendingTerm, firstOpTime>> /\ storing' \subseteq storing
          /\ CountVote(v0, t0, c)
      BY <1>18, <2>1 DEF ReplyToVoteRequest
    <2>3. /\ \A m \in Nodes : election'[m].term = election[m].term /\ election'[m].op = election[m].op
          /\ \A m \in Nodes : mode[m] # "requesting" => election'[m] = election[m]
      BY <1>m, <2>2 DEF CountVote
    <2>4. ASSUME NEW d \in Nodes PROVE VoterRole(d)'
      <3>1. Has(d, election[d].op[1], election[d].op[2])' <=> Has(d, election[d].op[1], election[d].op[2])
        BY <2>2, <2>3 DEF Has
      <3> QED
        BY <1>i, <2>2, <2>3, <3>1 DEF VoterRole
    <2>5. \A r1 \in storing' : StoredInv(r1)'
      BY <1>s, <2>2, <2>3
    <2> QED
      BY <1>p, <2>2, <2>4, <2>5 DEF RolesInv
  <1> QED
    BY <1>1, <1>2, <1>3, <1>4, <1>5, <1>6, <1>7, <1>8, <1>9, <1>10, <1>11, <1>12, <1>13,
       <1>14, <1>15, <1>16, <1>17, <1>18, ElectionEnds DEF Next

-----------------------------------------------------------------------------
\* Nobody gets past term t without the entry of term t at position i.
NoBypass(t, i) ==
    /\ \A n \in Nodes, u, j \in Nat : Has(n, u, j) /\ u > t => Has(n, t, i)
    /\ \A c \in Nodes : mode[c] \in Leader /\ term[c] > t => Has(c, t, i)

\* m has the entry in its journal, and every candidate of a later term that m has
\* voted for is as far.
Keeps(m, t, i) ==
    /\ Has(m, t, i) /\ i <= durable[m]
    /\ \A d \in Nodes, u \in Nat :
         u > t /\ Requests(m, u, d) => ~Before(election[d].op, <<t, i>>)

\* A majority keeps the entry o and nobody gets past it.
Safe(o) ==
    /\ NoBypass(o[1], o[2])
    /\ \E Q \in SUBSET Nodes : Cardinality(Q) >= Majority /\ \A m \in Q : Keeps(m, o[1], o[2])

\* A rollback keeps an entry that nobody has got past: the sync source is ahead of n,
\* so it has the entry too, and what precedes it.
LEMMA RollbackKeeps ==
    ASSUME BaseInv, LogMatching, TermChain, NEW t \in Nat, NEW i \in Nat, NoBypass(t, i),
           NEW n \in Nodes, NEW s \in Nodes, MustRollBack(n, s), Has(n, t, i)
    PROVE  i <= CommonPoint(n, s)
  <1>h. HasInv
    BY HasFacts
  <1> DEFINE a == LastApplied(n)[1]
             k == LastApplied(n)[2]
             u == LastApplied(s)[1]
             j == LastApplied(s)[2]
  <1>1. /\ a \in Nat /\ k \in Nat /\ u \in Nat /\ j \in Nat
        /\ Has(n, a, k) /\ Has(s, u, j) /\ t <= a /\ i <= k
    BY <1>h DEF HasInv
  <1>2. a < u \/ (a = u /\ k < j)
    BY DEF MustRollBack, Ahead, Before
  <1> HIDE DEF a, k, u, j
  <1>3. Has(s, t, i)
    <2>1. CASE u > t
      BY <1>1, <2>1 DEF NoBypass
    <2>2. CASE u = t
      <3>1. i <= j
        BY <1>1, <1>2, <2>2
      <3> QED
        BY <1>1, <2>2, <3>1 DEF TermChain
    <2> QED
      BY <1>1, <1>2, <2>1, <2>2
  <1>4. ASSUME NEW p \in 1 .. i PROVE oplog[n][p] = oplog[s][p]
    <2>1. p \in Nat /\ 1 <= p /\ p <= i
      BY <1>4
    <2>2. PICK v \in Nat : Has(n, v, p)
      BY <1>h, <2>1 DEF HasInv
    <2>3. Has(s, v, p)
      BY <1>3, <2>1, <2>2 DEF LogMatching
    <2> QED
      BY <2>2, <2>3 DEF Has
  <1>5. i \in 1 .. Len(oplog[n]) /\ i \in 1 .. Len(oplog[s]) /\ Len(oplog[s]) \in Nat
    BY <1>3, LogOpTimes DEF Has
  <1>6. i <= Len(oplog[s])
    BY <1>5
  <1> QED
    BY <1>4, <1>5, <1>6, CommonPointExists

\* A member that keeps an entry goes on to keep it: neither a crash nor a rollback
\* takes it, and from now on it votes only for candidates that are as far.
LEMMA KeepsKept ==
    ASSUME BaseInv, BaseInv', LogMatching, TermChain, LogStep, VoteStep,
           NEW t \in Nat, NEW i \in Nat, NoBypass(t, i), NEW m \in Nodes, Keeps(m, t, i)
    PROVE  Keeps(m, t, i)'
  <1>h. HasInv /\ HasInv'
    BY HasFacts, HasFactsNext
  <1>k. Has(m, t, i) /\ i <= durable[m] /\ durable[m] \in Nat /\ durable'[m] \in Nat
    BY <1>h DEF Keeps, HasInv
  <1>1. Has(m, t, i)' /\ i <= durable'[m]
    <2>1. CASE Kept(m)
      BY <1>k, <2>1 DEF Kept
    <2>2. ASSUME NEW s \in Nodes, RunRollback(m, s) PROVE Has(m, t, i)' /\ i <= durable'[m]
      <3>1. /\ MustRollBack(m, s)
            /\ oplog' = [oplog EXCEPT ![m] = SubSeq(@, 1, CommonPoint(m, s))]
            /\ durable' = [durable EXCEPT ![m] = CommonPoint(m, s)]
        BY <2>2 DEF RunRollback
      <3>2. i <= CommonPoint(m, s)
        BY <1>k, <3>1, RollbackKeeps
      <3>3. CommonPoint(m, s) \in 1 .. Len(oplog[m])
        BY CommonPointExists
      <3>4. Has(m, t, i)'
        BY <1>k, <3>1, <3>2, <3>3, CutLogs
      <3>5. durable'[m] = CommonPoint(m, s)
        BY <3>1 DEF BaseInv, LogTypes
      <3> QED
        BY <3>2, <3>4, <3>5
    <2> QED
      BY <2>1, <2>2 DEF LogStep
  <1>2. ASSUME NEW d \in Nodes, NEW u \in Nat, u > t, Requests(m, u, d)'
        PROVE  ~Before(election'[d].op, <<t, i>>)
    <2>1. CASE Requests(m, u, d) /\ election'[d].op = election[d].op
      BY <1>2, <2>1 DEF Keeps
    <2>2. CASE ~Before(election'[d].op, LastApplied(m))
      <3>1. election'[d].op[1] \in Int /\ election'[d].op[2] \in Int
        <4>1. election'[d].op \in OpTimes
          BY DEF BaseInv, VoteTypes
        <4> QED
          BY <4>1, OpTimeType
      <3>2. /\ LastApplied(m)[1] \in Nat /\ LastApplied(m)[2] \in Nat
            /\ t <= LastApplied(m)[1] /\ i <= LastApplied(m)[2]
        BY <1>h, <1>k DEF HasInv
      <3> QED
        BY <2>2, <3>1, <3>2 DEF Before
    <2> QED
      BY <1>2, <2>1, <2>2 DEF VoteStep
  <1> QED
    BY <1>1, <1>2 DEF Keeps

\* The winner of a later election has the entry if one of its voters keeps it.
LEMMA WinnerHas ==
    ASSUME BaseInv, ElectionInv, RolesInv, TermChain, NEW t \in Nat, NEW i \in Nat,
           NoBypass(t, i), NEW d \in Nodes, WinElection(d), term[d] > t,
           NEW m \in election[d].votes \cup {d}, Keeps(m, t, i)
    PROVE  Has(d, t, i)
  <1>h. HasInv
    BY HasFacts
  <1>1. Requests(m, term[d], d) /\ term[d] \in Nat /\ m \in Nodes
    <2>1. /\ election[d].votes \cup {d} \in SUBSET Nodes /\ term[d] \in Nat
          /\ \A v \in election[d].votes \cup {d} : Requests(v, term[d], d)
      BY WinnerVotes
    <2> QED
      BY <2>1
  <1> DEFINE a == election[d].op[1]
             k == election[d].op[2]
  <1>2. ~Before(election[d].op, <<t, i>>)
    BY <1>1 DEF Keeps
  <1>3. Has(d, a, k)
    BY DEF RolesInv, VoterRole, WinElection
  <1>4. a \in Nat /\ k \in Nat
    BY <1>h, <1>3 DEF HasInv
  <1>5. a > t \/ (a = t /\ i <= k)
    BY <1>2, <1>4 DEF Before
  <1> HIDE DEF a, k
  <1>6. CASE a > t
    BY <1>3, <1>4, <1>6 DEF NoBypass
  <1>7. CASE a = t /\ i <= k
    <2>1. Has(m, t, i)
      BY DEF Keeps
    <2> QED
      BY <1>1, <1>3, <1>4, <1>7, <2>1 DEF TermChain
  <1> QED
    BY <1>5, <1>6, <1>7

\* Nobody gets past the entry as long as every winner of a later election has it.
LEMMA BypassKept ==
    ASSUME BaseInv, BaseInv', LogStep, NEW t \in Nat, NEW i \in Nat, NoBypass(t, i),
           \A d \in Nodes : WinElection(d) /\ term[d] > t => Has(d, t, i)
    PROVE  NoBypass(t, i)'
  <1>h. HasInv /\ HasInv'
    BY HasFacts, HasFactsNext
  <1>1. ASSUME NEW n \in Nodes, NEW u \in Nat, NEW j \in Nat, Has(n, u, j)', u > t
        PROVE  Has(n, t, i)'
    <2>1. CASE \A m \in Nodes : \E s \in Nodes : FromOld(m, s)
      <3>1. PICK s \in Nodes : FromOld(n, s)
        BY <2>1
      <3>2. Has(s, u, j)
        BY <1>1, <3>1 DEF FromOld
      <3>3. Has(s, t, i)
        BY <1>1, <3>2 DEF NoBypass
      <3>4. i <= j
        <4>1. j < i => u <= t
          BY <1>h, <3>2, <3>3 DEF HasInv
        <4> QED
          BY <1>1, <4>1
      <3> QED
        BY <1>1, <3>1, <3>3, <3>4 DEF FromOld
    <2>2. ASSUME NEW c \in Nodes, Grows(c) PROVE Has(n, t, i)'
      <3>1. /\ mode[c] \in Leader
            /\ \A w, k \in Nat : Has(c, w, k)' <=> (Has(c, w, k) \/ (w = term[c] /\ k = LastApplied(c)[2] + 1))
            /\ \A m \in Nodes : m # c => \A w, k \in Nat : Has(m, w, k)' <=> Has(m, w, k)
        BY <2>2 DEF Grows
      <3>2. CASE Has(n, u, j)
        BY <1>1, <3>1, <3>2 DEF NoBypass
      <3>3. CASE n = c /\ u = term[c]
        BY <1>1, <3>1, <3>3 DEF NoBypass
      <3> QED
        BY <1>1, <3>1, <3>2, <3>3
    <2> QED
      BY <2>1, <2>2 DEF LogStep
  <1>2. ASSUME NEW c \in Nodes, mode'[c] \in Leader, term'[c] > t
        PROVE  Has(c, t, i)'
    <2>1. Has(c, t, i)
      <3>1. CASE WinElection(c)
        BY <1>2, <3>1 DEF WinElection
      <3>2. CASE mode[c] \in Leader /\ term'[c] = term[c]
        BY <1>2, <3>2 DEF NoBypass
      <3> QED
        BY <1>2, <3>1, <3>2 DEF LogStep
    <2>2. mode'[c] # "follower"
      BY <1>2, ModesAre
    <2> QED
      BY <2>1, <2>2 DEF LogStep
  <1> QED
    BY <1>1, <1>2 DEF NoBypass

\* A committed entry stays committed: the voters of a later winner and the majority
\* that keeps the entry share a member.
LEMMA SafeKept ==
    ASSUME BaseInv, BaseInv', ElectionInv, RolesInv, LogMatching, TermChain, LogStep, VoteStep,
           NEW o, o[1] \in Nat, o[2] \in Nat, Safe(o)
    PROVE  Safe(o)'
  <1> DEFINE t == o[1]
             i == o[2]
  <1>1. t \in Nat /\ i \in Nat /\ NoBypass(t, i)
    BY DEF Safe
  <1>2. PICK Q \in SUBSET Nodes : Cardinality(Q) >= Majority /\ \A m \in Q : Keeps(m, t, i)
    BY DEF Safe
  <1> HIDE DEF t, i
  <1>3. ASSUME NEW d \in Nodes, WinElection(d), term[d] > t PROVE Has(d, t, i)
    <2> DEFINE W == election[d].votes \cup {d}
    <2>1. W \in SUBSET Nodes /\ Cardinality(W) >= Majority
      BY <1>3, WinnerVotes
    <2> HIDE DEF W
    <2>2. PICK m \in Nodes : m \in Q /\ m \in W
      BY <1>2, <2>1, QuorumsMeet
    <2> QED
      BY <1>1, <1>2, <1>3, <2>2, WinnerHas DEF W
  <1>4. NoBypass(t, i)'
    BY <1>1, <1>3, BypassKept
  <1>5. \A m \in Q : Keeps(m, t, i)'
    BY <1>1, <1>2, KeepsKept
  <1> QED
    BY <1>2, <1>4, <1>5 DEF Safe, t, i

-----------------------------------------------------------------------------
\* What c knows of m is from a term c has heard of; a candidate knows of nothing in
\* the term it runs for, and a primary has what it knows of in its own term.
MemberInv(c) ==
    \A m \in Nodes :
        /\ memberData[c][m][1] <= Higher(term[c], pendingTerm[c])
        /\ mode[c] \in Candidate => memberData[c][m][1] < election[c].term
        /\ MayCount(mode[c]) /\ memberData[c][m][1] = term[c] =>
             Has(c, memberData[c][m][1], memberData[c][m][2])

\* What one step does to the primaries that count and to what they know.
CountStep ==
    \A c \in Nodes : MayCount(mode'[c]) =>
        /\ WinElection(c) \/ (MayCount(mode[c]) /\ term'[c] = term[c])
        /\ \A m \in Nodes :
             \/ memberData'[c][m] = memberData[c][m]
             \/ /\ m # c /\ memberData'[c][m] = LastDurable(m) /\ UNCHANGED oplogVars
                /\ term'[m] = term[m] /\ term[m] <= term[c] /\ mode'[m] # "kSteppingDown"

\* Every action is such a step; one case per action.
LEMMA CountStepTaken ==
    ASSUME BaseInv, BaseInv', Next
    PROVE  CountStep
  <1> USE DEF electionVars, oplogVars, leaderVars, MayCount
  <1>m. /\ mode \in [Nodes -> Modes] /\ term \in [Nodes -> 0 .. MaxTerm] /\ StateTypes
        /\ memberData \in [Nodes -> [Nodes -> OpTimes]]
        /\ \A n \in Nodes : term[n] \in Nat
    BY VoteNumbers DEF BaseInv, StateTypes, CommitTypes
  <1>u. ASSUME NEW n \in Nodes, NEW t \in 0 .. MaxTerm, UpdateTerm(n, t)
        PROVE  /\ \A c \in Nodes : MayCount(mode'[c]) => MayCount(mode[c]) /\ term'[c] = term[c]
               /\ MayCount(mode'[n]) => t <= term[n]
               /\ \A c \in Nodes : c # n => term'[c] = term[c] /\ mode'[c] = mode[c]
    <2>1. CASE t > term[n] /\ mode[n] \in Leader
      <3>1. mode' = [mode EXCEPT ![n] = "kSteppingDown"] /\ term' = term
        BY <1>u, <2>1 DEF UpdateTerm
      <3> QED
        BY <1>m, <3>1
    <2>2. CASE ~(t > term[n] /\ mode[n] \in Leader)
      <3>1. term' = [term EXCEPT ![n] = Higher(@, t)] /\ mode' = mode
        BY <1>u, <2>2 DEF UpdateTerm
      <3>2. mode[n] \in Leader => t <= term[n] /\ term'[n] = term[n]
        BY <1>m, <2>2, <3>1 DEF Higher
      <3>3. MayCount(mode[n]) => mode[n] \in Leader
        BY DEF Leader
      <3> QED
        BY <1>m, <3>1, <3>2, <3>3
    <2> QED
      BY <2>1, <2>2
  <1>q. ASSUME memberData' = memberData,
               \A c \in Nodes : MayCount(mode'[c]) => MayCount(mode[c]) /\ term'[c] = term[c]
        PROVE  CountStep
    BY <1>q DEF CountStep
  <1>v. ASSUME NEW n \in Nodes, NEW s \in Nodes, UpdateTerm(n, term[s]), memberData' = memberData
        PROVE  CountStep
    <2>1. term[s] \in 0 .. MaxTerm
      BY <1>m
    <2> QED
      BY <1>q, <1>u, <1>v, <2>1
  <1>k. ASSUME NEW n \in Nodes, NEW s \in Nodes, n # s, UpdateTerm(n, term[s]), UNCHANGED oplogVars,
               mode[s] \notin Leader,
               memberData' = [memberData EXCEPT ![n] = [memberData[n] EXCEPT ![s] = LaterOpTime(@, LastDurable(s))]]
        PROVE  CountStep
    <2>1. term[s] \in 0 .. MaxTerm
      BY <1>m
    <2>2. /\ \A c \in Nodes : MayCount(mode'[c]) => MayCount(mode[c]) /\ term'[c] = term[c]
          /\ MayCount(mode'[n]) => term[s] <= term[n]
          /\ term'[s] = term[s] /\ mode'[s] # "kSteppingDown"
      BY <1>k, <1>u, <2>1 DEF Leader
    <2>3. \A c, m \in Nodes : (c # n \/ m # s) => memberData'[c][m] = memberData[c][m]
      BY <1>k, <1>m
    <2>4. memberData'[n][s] \in {memberData[n][s], LastDurable(s)}
      <3>1. memberData'[n][s] = LaterOpTime(memberData[n][s], LastDurable(s))
        BY <1>k, <1>m
      <3> QED
        BY <3>1 DEF LaterOpTime
    <2> QED
      BY <1>k, <2>2, <2>3, <2>4 DEF CountStep
  <1>1. ASSUME NEW n \in Nodes, StartRealElection(n) PROVE CountStep
    BY <1>1, <1>m, <1>q DEF StartRealElection
  <1>2. ASSUME NEW n \in Nodes, WriteLastVoteForMyElection(n) PROVE CountStep
    BY <1>2, <1>m, <1>q DEF WriteLastVoteForMyElection
  <1>3. ASSUME NEW n \in Nodes, WinElection(n) PROVE CountStep
    <2>1. memberData' = memberData /\ \A c \in Nodes : c # n => mode'[c] = mode[c] /\ term'[c] = term[c]
      BY <1>3, <1>m DEF WinElection
    <2> QED
      BY <1>3, <2>1 DEF CountStep
  <1>4. ASSUME NEW n \in Nodes, EndsElection(n) PROVE CountStep
    BY <1>4, <1>m, <1>q DEF EndsElection
  <1>5. ASSUME NEW n \in Nodes, OnTransitionToPrimary(n) PROVE CountStep
    BY <1>5, <1>q DEF OnTransitionToPrimary
  <1>6. ASSUME NEW n \in Nodes, CompleteTransitionToPrimary(n) PROVE CountStep
    BY <1>6, <1>m, <1>q DEF CompleteTransitionToPrimary
  <1>7. ASSUME NEW n \in Nodes, Write(n) PROVE CountStep
    BY <1>7, <1>q DEF Write
  <1>8. ASSUME NEW n \in Nodes, Flush(n) PROVE CountStep
    BY <1>8, <1>q DEF Flush
  <1>9. ASSUME NEW n \in Nodes, PrepareForUnconditionalStepDown(n) PROVE CountStep
    BY <1>9, <1>m, <1>q DEF PrepareForUnconditionalStepDown
  <1>10. ASSUME NEW n \in Nodes, StepDownFinish(n) PROVE CountStep
    BY <1>10, <1>m, <1>q DEF StepDownFinish
  <1>11. ASSUME NEW n \in Nodes, Restart(n) PROVE CountStep
    <2>1. /\ mode'[n] = "follower"
          /\ \A c \in Nodes : c # n => mode'[c] = mode[c] /\ term'[c] = term[c] /\ memberData'[c] = memberData[c]
      BY <1>11, <1>m DEF Restart
    <2> QED
      BY <2>1 DEF CountStep
  <1>12. ASSUME NEW n \in Nodes, NEW s \in Nodes, ProcessReplSetRequestVotes(n, s) PROVE CountStep
    <2>1. UpdateTerm(n, election[s].term) /\ memberData' = memberData
      BY <1>12 DEF ProcessReplSetRequestVotes
    <2>2. election[s].term \in 0 .. MaxTerm
      BY VoteNumbers
    <2> QED
      BY <1>q, <1>u, <2>1, <2>2
  <1>13. ASSUME NEW n \in Nodes, NEW s \in Nodes, FailStaleQuery(n, s) PROVE CountStep
    BY <1>13, <1>v DEF FailStaleQuery
  <1>14. ASSUME NEW n \in Nodes, NEW s \in Nodes, OnSuccessfulBatch(n, s) PROVE CountStep
    BY <1>14, <1>v DEF OnSuccessfulBatch, ProcessMetadata
  <1>15. ASSUME NEW n \in Nodes, NEW s \in Nodes, RunRollback(n, s) PROVE CountStep
    BY <1>15, <1>q DEF RunRollback
  <1>16. ASSUME NEW n \in Nodes, NEW s \in Nodes, HandleHeartbeatResponse(n, s) PROVE CountStep
    <2>1. n # s /\ UpdateTerm(n, term[s]) /\ UNCHANGED oplogVars
      BY <1>16 DEF HandleHeartbeatResponse
    <2>2. \/ memberData' = memberData
          \/ /\ mode[s] \notin Leader
             /\ memberData' = [memberData EXCEPT ![n] = [memberData[n] EXCEPT ![s] = LaterOpTime(@, LastDurable(s))]]
      BY <1>16 DEF HandleHeartbeatResponse
    <2> QED
      BY <1>k, <1>v, <2>1, <2>2
  <1>17. ASSUME NEW n \in Nodes, NEW s \in Nodes, ProcessReplSetUpdatePosition(n, s) PROVE CountStep
    <2>1. /\ n # s /\ UpdateTerm(n, term[s]) /\ UNCHANGED oplogVars /\ mode[s] \notin Leader
          /\ memberData' = [memberData EXCEPT ![n] = [memberData[n] EXCEPT ![s] = LaterOpTime(@, LastDurable(s))]]
      BY <1>17 DEF ProcessReplSetUpdatePosition
    <2> QED
      BY <1>k, <2>1
  <1>18. ASSUME NEW r \in storing, ReplyToVoteRequest(r[1], r[2], r[3]) PROVE CountStep
    BY <1>18, <1>q DEF ReplyToVoteRequest
  <1> QED
    BY <1>1, <1>2, <1>3, <1>4, <1>5, <1>6, <1>7, <1>8, <1>9, <1>10, <1>11, <1>12, <1>13,
       <1>14, <1>15, <1>16, <1>17, <1>18, ElectionEnds DEF Next

\* The first two parts of MemberInv, in the next state.
Heard(c) ==
    \A m \in Nodes :
        /\ memberData'[c][m][1] <= Higher(term'[c], pendingTerm'[c])
        /\ mode'[c] \in Candidate => memberData'[c][m][1] < election'[c].term

\* Every step keeps the first two parts of MemberInv; one case per action.
LEMMA HeardKept ==
    ASSUME BaseInv, BaseInv', RolesInv, \A c \in Nodes : MemberInv(c), Next
    PROVE  \A c \in Nodes : Heard(c)
  <1> USE DEF electionVars, oplogVars, leaderVars
  <1>m. /\ mode \in [Nodes -> Modes] /\ term \in [Nodes -> 0 .. MaxTerm] /\ StateTypes
        /\ memberData \in [Nodes -> [Nodes -> OpTimes]] /\ pendingTerm \in [Nodes -> 0 .. MaxTerm]
        /\ election \in [Nodes -> [term : 0 .. MaxTerm, op : OpTimes, votes : SUBSET Nodes]]
    BY DEF BaseInv, StateTypes, CommitTypes, VoteTypes
  <1>n. \A n \in Nodes : /\ term[n] \in Nat /\ pendingTerm[n] \in Nat
                         /\ term'[n] \in Nat /\ pendingTerm'[n] \in Nat
    <2>1. term' \in [Nodes -> 0 .. MaxTerm] /\ pendingTerm' \in [Nodes -> 0 .. MaxTerm]
      BY DEF BaseInv, StateTypes
    <2> QED
      BY <1>m, <2>1, BoundsAssumption
  <1>d. \A c, m \in Nodes : memberData[c][m][1] \in Int
    BY <1>m, OpTimeType
  <1>i. \A c, m \in Nodes :
            /\ memberData[c][m][1] <= Higher(term[c], pendingTerm[c])
            /\ mode[c] \in Candidate => memberData[c][m][1] < election[c].term
    BY DEF MemberInv
  <1>a. ASSUME NEW c \in Nodes, memberData'[c] = memberData[c], term[c] <= term'[c],
               pendingTerm[c] <= pendingTerm'[c] \/ pendingTerm[c] <= term'[c],
               mode'[c] \in Candidate => mode[c] \in Candidate /\ election'[c].term = election[c].term
        PROVE  Heard(c)
    <2>1. Higher(term[c], pendingTerm[c]) <= Higher(term'[c], pendingTerm'[c])
      BY <1>a, <1>n DEF Higher
    <2>2. Higher(term[c], pendingTerm[c]) \in Int /\ Higher(term'[c], pendingTerm'[c]) \in Int
      BY <1>n DEF Higher
    <2>3. ASSUME NEW m \in Nodes
          PROVE  memberData[c][m][1] <= Higher(term'[c], pendingTerm'[c])
      BY <1>d, <1>i, <2>1, <2>2
    <2> QED
      BY <1>a, <1>i, <2>3 DEF Heard
  <1>b. ASSUME NEW c \in Nodes, UNCHANGED <<memberData, term, pendingTerm, mode, election>>
        PROVE  Heard(c)
    BY <1>a, <1>b, <1>n
  <1>u. ASSUME NEW n \in Nodes, NEW t \in 0 .. MaxTerm, UpdateTerm(n, t)
        PROVE  /\ \A c \in Nodes : /\ term[c] <= term'[c] /\ pendingTerm[c] <= pendingTerm'[c]
                                   /\ (mode'[c] \in Candidate => mode[c] \in Candidate)
               /\ t <= Higher(term'[n], pendingTerm'[n])
               /\ mode'[n] \in Leader <=> mode[n] \in Leader
    <2>1. /\ \A m \in Nodes : /\ (mode'[m] \in Leader <=> mode[m] \in Leader)
                             /\ (mode[m] \notin Leader => mode'[m] = mode[m])
                             /\ term'[m] >= term[m] /\ pendingTerm'[m] >= pendingTerm[m]
          /\ mode[n] \notin Leader => term'[n] >= t
          /\ t > term[n] /\ mode[n] \in Leader => pendingTerm'[n] >= t
      BY <1>m, <1>u, UpdateTermEffect
    <2>2. t <= Higher(term'[n], pendingTerm'[n])
      BY <1>n, <2>1, BoundsAssumption DEF Higher
    <2>3. \A m \in Nodes : mode'[m] \in Candidate => mode[m] \in Candidate
      BY <2>1 DEF Candidate, Leader
    <2> QED
      BY <1>n, <2>1, <2>2, <2>3
  <1>v. ASSUME NEW n \in Nodes, NEW t \in 0 .. MaxTerm, UpdateTerm(n, t), UNCHANGED <<election, memberData>>
        PROVE  \A c \in Nodes : Heard(c)
    <2>1. \A c \in Nodes : /\ term[c] <= term'[c] /\ pendingTerm[c] <= pendingTerm'[c]
                           /\ (mode'[c] \in Candidate => mode[c] \in Candidate)
      BY <1>u, <1>v
    <2> QED
      BY <1>a, <1>v, <2>1
  <1>w. ASSUME NEW n \in Nodes, NEW s \in Nodes, UpdateTerm(n, term[s]), UNCHANGED <<election, memberData>>
        PROVE  \A c \in Nodes : Heard(c)
    BY <1>m, <1>v, <1>w
  <1>k. ASSUME NEW n \in Nodes, NEW s \in Nodes, UpdateTerm(n, term[s]), election' = election, mode[n] \in Leader,
               memberData' = [memberData EXCEPT ![n] = [memberData[n] EXCEPT ![s] = LaterOpTime(@, LastDurable(s))]]
        PROVE  \A c \in Nodes : Heard(c)
    <2>1. term[s] \in 0 .. MaxTerm
      BY <1>m
    <2>2. /\ \A c \in Nodes : /\ term[c] <= term'[c] /\ pendingTerm[c] <= pendingTerm'[c]
                              /\ (mode'[c] \in Candidate => mode[c] \in Candidate)
          /\ term[s] <= Higher(term'[n], pendingTerm'[n])
          /\ mode'[n] \in Leader
      BY <1>k, <1>u, <2>1
    <2>3. ASSUME NEW c \in Nodes, c # n PROVE Heard(c)
      BY <1>a, <1>k, <1>m, <2>2, <2>3
    <2>4. ASSUME NEW m \in Nodes PROVE memberData'[n][m][1] <= Higher(term'[n], pendingTerm'[n])
      <3>1. memberData'[n][m] \in {memberData[n][m], LastDurable(s)}
        <4>1. CASE m = s
          <5>1. memberData'[n][s] = LaterOpTime(memberData[n][s], LastDurable(s))
            BY <1>k, <1>m
          <5> QED
            BY <4>1, <5>1 DEF LaterOpTime
        <4>2. CASE m # s
          BY <1>k, <1>m, <4>2
        <4> QED
          BY <4>1, <4>2
      <3>2. LastDurable(s)[1] <= term[s] /\ LastDurable(s)[1] \in Nat
        BY LastFacts, HasTypes
      <3>3. Higher(term[n], pendingTerm[n]) <= Higher(term'[n], pendingTerm'[n])
        BY <1>n, <2>2 DEF Higher
      <3>4. Higher(term[n], pendingTerm[n]) \in Int /\ Higher(term'[n], pendingTerm'[n]) \in Int
        BY <1>n DEF Higher
      <3>5. CASE memberData'[n][m] = memberData[n][m]
        BY <1>d, <1>i, <3>3, <3>4, <3>5
      <3>6. CASE memberData'[n][m] = LastDurable(s)
        BY <1>n, <2>2, <3>2, <3>4, <3>6
      <3> QED
        BY <3>1, <3>5, <3>6
    <2>5. Heard(n)
      BY <2>2, <2>4, ModesAre DEF Heard
    <2> QED
      BY <2>3, <2>5
  <1>1. ASSUME NEW n \in Nodes, StartRealElection(n) PROVE \A c \in Nodes : Heard(c)
    <2>1. /\ UNCHANGED <<memberData, pendingTerm>> /\ mode[n] = "follower"
          /\ term'[n] = term[n] + 1 /\ election'[n].term = term[n] + 1
          /\ \A c \in Nodes : c # n => mode'[c] = mode[c] /\ term'[c] = term[c] /\ election'[c] = election[c]
      BY <1>1, <1>m, NoElectionType DEF StartRealElection
    <2>2. ASSUME NEW c \in Nodes, c # n PROVE Heard(c)
      BY <1>a, <1>n, <2>1, <2>2
    <2>3. pendingTerm[n] = 0
      BY <2>1 DEF RolesInv, PrimaryRole
    <2>4. ASSUME NEW m \in Nodes PROVE memberData[n][m][1] <= term[n]
      BY <1>i, <1>n, <2>3 DEF Higher
    <2>5. Heard(n)
      BY <1>d, <1>n, <2>1, <2>3, <2>4 DEF Heard, Higher
    <2> QED
      BY <2>2, <2>5
  <1>2. ASSUME NEW n \in Nodes, WriteLastVoteForMyElection(n) PROVE \A c \in Nodes : Heard(c)
    <2>1. /\ UNCHANGED <<memberData, pendingTerm, term>> /\ mode[n] = "storingVote"
          /\ mode'[n] = "requesting" => election'[n].term = election[n].term
          /\ mode'[n] \in {"requesting", "follower"}
          /\ \A c \in Nodes : c # n => mode'[c] = mode[c] /\ election'[c] = election[c]
      BY <1>2, <1>m DEF WriteLastVoteForMyElection
    <2>2. \A c \in Nodes : mode'[c] \in Candidate => mode[c] \in Candidate /\ election'[c].term = election[c].term
      BY <2>1 DEF Candidate
    <2> QED
      BY <1>a, <1>n, <2>1, <2>2
  <1>3. ASSUME NEW n \in Nodes, WinElection(n) PROVE \A c \in Nodes : Heard(c)
    <2>1. /\ UNCHANGED <<memberData, pendingTerm, term>> /\ mode'[n] \notin Candidate
          /\ \A c \in Nodes : c # n => mode'[c] = mode[c] /\ election'[c] = election[c]
      BY <1>3, <1>m DEF WinElection, Candidate
    <2> QED
      BY <1>a, <1>n, <2>1
  <1>4. ASSUME NEW n \in Nodes, EndsElection(n) PROVE \A c \in Nodes : Heard(c)
    <2>1. /\ UNCHANGED <<memberData, pendingTerm, term>> /\ mode'[n] \notin Candidate
          /\ \A c \in Nodes : c # n => mode'[c] = mode[c] /\ election'[c] = election[c]
      BY <1>4, <1>m DEF EndsElection, Candidate
    <2> QED
      BY <1>a, <1>n, <2>1
  <1>5. ASSUME NEW n \in Nodes, OnTransitionToPrimary(n) PROVE \A c \in Nodes : Heard(c)
    BY <1>5, <1>b DEF OnTransitionToPrimary
  <1>6. ASSUME NEW n \in Nodes, CompleteTransitionToPrimary(n) PROVE \A c \in Nodes : Heard(c)
    <2>1. /\ UNCHANGED <<memberData, pendingTerm, term, election>> /\ mode'[n] \notin Candidate
          /\ \A c \in Nodes : c # n => mode'[c] = mode[c]
      BY <1>6, <1>m DEF CompleteTransitionToPrimary, Candidate
    <2> QED
      BY <1>a, <1>n, <2>1
  <1>7. ASSUME NEW n \in Nodes, Write(n) PROVE \A c \in Nodes : Heard(c)
    BY <1>7, <1>b DEF Write
  <1>8. ASSUME NEW n \in Nodes, Flush(n) PROVE \A c \in Nodes : Heard(c)
    BY <1>8, <1>b DEF Flush
  <1>9. ASSUME NEW n \in Nodes, PrepareForUnconditionalStepDown(n) PROVE \A c \in Nodes : Heard(c)
    <2>1. /\ UNCHANGED <<memberData, pendingTerm, term, election>> /\ mode'[n] \notin Candidate
          /\ \A c \in Nodes : c # n => mode'[c] = mode[c]
      BY <1>9, <1>m DEF PrepareForUnconditionalStepDown, Candidate
    <2> QED
      BY <1>a, <1>n, <2>1
  <1>10. ASSUME NEW n \in Nodes, StepDownFinish(n) PROVE \A c \in Nodes : Heard(c)
    <2>1. /\ UNCHANGED <<memberData, election>> /\ mode'[n] \notin Candidate
          /\ term'[n] = Higher(term[n], pendingTerm[n])
          /\ \A c \in Nodes : c # n => mode'[c] = mode[c] /\ term'[c] = term[c] /\ pendingTerm'[c] = pendingTerm[c]
      BY <1>10, <1>m DEF StepDownFinish, Candidate
    <2>2. term[n] <= term'[n] /\ pendingTerm[n] <= term'[n]
      BY <1>n, <2>1 DEF Higher
    <2>3. Heard(n)
      BY <1>a, <2>1, <2>2
    <2>4. ASSUME NEW c \in Nodes, c # n PROVE Heard(c)
      BY <1>a, <1>n, <2>1, <2>4
    <2> QED
      BY <2>3, <2>4
  <1>11. ASSUME NEW n \in Nodes, Restart(n) PROVE \A c \in Nodes : Heard(c)
    <2>1. /\ mode'[n] \notin Candidate /\ \A m \in Nodes : memberData'[n][m] = NullOpTime
          /\ \A c \in Nodes : c # n => /\ mode'[c] = mode[c] /\ term'[c] = term[c] /\ pendingTerm'[c] = pendingTerm[c]
                                       /\ memberData'[c] = memberData[c] /\ election'[c] = election[c]
      BY <1>11, <1>m DEF Restart, Candidate
    <2>2. \A m \in Nodes : memberData'[n][m][1] = -1
      BY <2>1 DEF NullOpTime
    <2>3. Heard(n)
      BY <1>n, <2>1, <2>2 DEF Heard, Higher
    <2>4. ASSUME NEW c \in Nodes, c # n PROVE Heard(c)
      BY <1>a, <1>n, <2>1, <2>4
    <2> QED
      BY <2>3, <2>4
  <1>12. ASSUME NEW n \in Nodes, NEW s \in Nodes, ProcessReplSetRequestVotes(n, s)
         PROVE  \A c \in Nodes : Heard(c)
    <2>1. UpdateTerm(n, election[s].term) /\ UNCHANGED <<election, memberData>>
      BY <1>12 DEF ProcessReplSetRequestVotes
    <2> QED
      BY <1>m, <1>v, <2>1
  <1>13. ASSUME NEW n \in Nodes, NEW s \in Nodes, FailStaleQuery(n, s) PROVE \A c \in Nodes : Heard(c)
    BY <1>13, <1>w DEF FailStaleQuery
  <1>14. ASSUME NEW n \in Nodes, NEW s \in Nodes, OnSuccessfulBatch(n, s) PROVE \A c \in Nodes : Heard(c)
    BY <1>14, <1>w DEF OnSuccessfulBatch, ProcessMetadata
  <1>15. ASSUME NEW n \in Nodes, NEW s \in Nodes, RunRollback(n, s) PROVE \A c \in Nodes : Heard(c)
    BY <1>15, <1>b DEF RunRollback
  <1>16. ASSUME NEW n \in Nodes, NEW s \in Nodes, HandleHeartbeatResponse(n, s) PROVE \A c \in Nodes : Heard(c)
    <2>1. UpdateTerm(n, term[s]) /\ election' = election
      BY <1>16 DEF HandleHeartbeatResponse
    <2>2. \/ memberData' = memberData
          \/ /\ mode[n] \in Leader
             /\ memberData' = [memberData EXCEPT ![n] = [memberData[n] EXCEPT ![s] = LaterOpTime(@, LastDurable(s))]]
      BY <1>16 DEF HandleHeartbeatResponse
    <2> QED
      BY <1>k, <1>w, <2>1, <2>2
  <1>17. ASSUME NEW n \in Nodes, NEW s \in Nodes, ProcessReplSetUpdatePosition(n, s)
         PROVE  \A c \in Nodes : Heard(c)
    <2>1. /\ UpdateTerm(n, term[s]) /\ election' = election /\ mode[n] \in Leader
          /\ memberData' = [memberData EXCEPT ![n] = [memberData[n] EXCEPT ![s] = LaterOpTime(@, LastDurable(s))]]
      BY <1>17 DEF ProcessReplSetUpdatePosition
    <2> QED
      BY <1>k, <2>1
  <1>18. ASSUME NEW r \in storing, ReplyToVoteRequest(r[1], r[2], r[3]) PROVE \A c \in Nodes : Heard(c)
    <2>1. /\ UNCHANGED <<memberData, pendingTerm, term, mode>>
          /\ \A c \in Nodes : election'[c].term = election[c].term
      BY <1>18, <1>m DEF ReplyToVoteRequest, CountVote
    <2> QED
      BY <1>a, <1>n, <2>1
  <1> QED
    BY <1>1, <1>2, <1>3, <1>4, <1>5, <1>6, <1>7, <1>8, <1>9, <1>10, <1>11, <1>12, <1>13,
       <1>14, <1>15, <1>16, <1>17, <1>18, ElectionEnds DEF Next

\* Every step keeps the third: what a primary hears of its own term is its own.
LEMMA MemberKept ==
    ASSUME BaseInv, BaseInv', LogStep, CountStep, LeaderHasTerm',
           NEW c \in Nodes, MemberInv(c), Heard(c)
    PROVE  MemberInv(c)'
  <1>h. HasInv /\ HasInv'
    BY HasFacts, HasFactsNext
  <1>1. ASSUME NEW m \in Nodes, MayCount(mode'[c]), memberData'[c][m][1] = term'[c]
        PROVE  Has(c, memberData[c][m][1], memberData[c][m][2])'
    <2>p. PICK t, i : t = memberData'[c][m][1] /\ i = memberData'[c][m][2]
      OBVIOUS
    <2>1. CASE memberData'[c][m] = memberData[c][m]
      <3>1. MayCount(mode[c]) /\ term'[c] = term[c]
        <4>1. CASE WinElection(c)
          <5>1. /\ mode[c] \in Candidate /\ election[c].term = term[c] /\ term'[c] = term[c]
            BY <4>1 DEF WinElection, Candidate
          <5>2. memberData[c][m][1] < term[c] /\ memberData[c][m][1] = term[c] /\ term[c] \in Nat
            BY <1>1, <2>1, <5>1, VoteNumbers DEF MemberInv
          <5> QED
            BY <5>2
        <4> QED
          BY <1>1, <4>1 DEF CountStep
      <3>2. Has(c, t, i)
        BY <1>1, <2>1, <2>p, <3>1 DEF MemberInv
      <3>3. t \in Nat /\ i \in Nat
        BY <1>h, <3>2 DEF HasInv
      <3>4. mode'[c] # "follower"
        BY <1>1 DEF MayCount
      <3>5. Has(c, t, i)'
        BY <3>2, <3>3, <3>4 DEF LogStep
      <3> QED
        BY <2>p, <3>5
    <2>2. CASE memberData'[c][m] = LastDurable(m) /\ UNCHANGED oplogVars
      <3>1. LastDurable(m)' = LastDurable(m)
        BY <2>2 DEF LastDurable, oplogVars
      <3>2. Has(m, LastDurable(m)[1], LastDurable(m)[2])' /\ LastDurable(m)'[2] \in Nat
        BY <1>h DEF HasInv
      <3>3. mode'[c] \in Leader
        BY <1>1 DEF MayCount, Leader
      <3>4. term'[c] = LastDurable(m)'[1]
        BY <1>1, <2>2, <3>1
      <3>5. Has(c, term[c], LastDurable(m)[2])'
        BY <3>2, <3>3, <3>4 DEF LeaderHasTerm
      <3> QED
        BY <2>2, <3>1, <3>4, <3>5
    <2> QED
      BY <1>1, <2>1, <2>2 DEF CountStep
  <1> QED
    BY <1>1 DEF MemberInv, Heard

-----------------------------------------------------------------------------
\* The members that primary c knows to have its entry at i in their journals.
Acked(c, i) ==
    {m \in Nodes : IF m = c THEN i <= durable[c]
                            ELSE ~Before(memberData[c][m], <<term[c], i>>)}

\* The entry of primary c at i is kept by whoever c knows to have it, and nobody has
\* got past it.
Good(c, i) == NoBypass(term[c], i) /\ \A m \in Acked(c, i) : Keeps(m, term[c], i)

\* A majority that has not reported the entry has voted in a later term.
Dead(c, i) ==
    \E W \in SUBSET Nodes :
        Cardinality(W) >= Majority /\ \A v \in W : v \notin Acked(c, i) /\ term[c] < diskVote[v]

\* The entries of a primary's term are committed as soon as enough members have
\* reported them, or never will be: then a later election has already taken a majority.
LeaderCommit ==
    \A c \in Nodes, i \in Nat :
        MayCount(mode[c]) /\ Has(c, term[c], i) => Good(c, i) \/ Dead(c, i)

\* A member that reports an entry has it in its journal, in a term that is no later.
LEMMA FreshAck ==
    ASSUME BaseInv, BaseInv', TermChain, LogStep, CountStep,
           NEW c \in Nodes, MayCount(mode'[c]), term'[c] = term[c],
           NEW i \in Nat, Has(c, term[c], i),
           NEW m \in Acked(c, i)', m \notin Acked(c, i)
    PROVE  m \in Nodes /\ term'[m] <= term[c] /\ Has(m, term[c], i)' /\ i <= durable'[m]
           /\ mode'[m] # "kSteppingDown"
  <1>h. HasInv /\ HasInv' /\ term[c] \in Nat
    BY HasFacts, HasFactsNext, VoteNumbers
  <1>1. m \in Nodes /\ (IF m = c THEN i <= durable'[c] ELSE ~Before(memberData'[c][m], <<term[c], i>>))
    BY DEF Acked
  <1>2. CASE m = c
    <2>1. mode'[c] # "follower" /\ mode'[c] # "kSteppingDown"
      BY DEF MayCount
    <2>2. Has(c, term[c], i)'
      <3>1. PICK t \in Nat : Has(c, t, i) /\ term'[c] = t
        BY <1>h
      <3> QED
        BY <2>1, <3>1 DEF LogStep
    <2> QED
      BY <1>1, <1>2, <1>h, <2>1, <2>2
  <1>3. CASE m # c
    <2>1. ~Before(memberData'[c][m], <<term[c], i>>) /\ Before(memberData[c][m], <<term[c], i>>)
      BY <1>1, <1>3 DEF Acked
    <2>2. /\ memberData'[c][m] = LastDurable(m) /\ UNCHANGED oplogVars
          /\ term'[m] = term[m] /\ term[m] <= term[c] /\ mode'[m] # "kSteppingDown"
      BY <1>1, <2>1 DEF CountStep
    <2> DEFINE a == LastDurable(m)[1]
               k == LastDurable(m)[2]
    <2>3. /\ a \in Nat /\ k \in Nat /\ Has(m, a, k) /\ k = durable[m] /\ a <= term[m]
      <3>1. a \in Nat /\ k \in Nat /\ Has(m, a, k) /\ k = durable[m]
        BY <1>1, <1>h DEF HasInv
      <3> HIDE DEF a, k
      <3> QED
        BY <1>1, <1>h, <3>1 DEF HasInv
    <2>4. a = term[c] /\ i <= k
      <3>1. ~(a < term[c] \/ (a = term[c] /\ k < i))
        BY <2>1, <2>2 DEF Before
      <3>2. term[m] \in Nat
        BY <1>1, VoteNumbers
      <3> QED
        BY <1>h, <2>2, <2>3, <3>1, <3>2
    <2> HIDE DEF a, k
    <2>5. Has(m, term[c], i)
      BY <1>1, <1>h, <2>3, <2>4 DEF TermChain
    <2>6. Has(m, term[c], i)' <=> Has(m, term[c], i)
      BY <2>2 DEF Has, oplogVars
    <2> QED
      BY <1>1, <2>2, <2>3, <2>4, <2>5, <2>6 DEF oplogVars
  <1> QED
    BY <1>2, <1>3

\* Every step keeps the dilemma: a member that reports the entry keeps it from then
\* on, and an election in a later term that passes it by takes its majority from those
\* that have not reported it.
LEMMA LeaderCommitKept ==
    ASSUME BaseInv, BaseInv', ElectionInv, ElectionInv', RolesInv, HistoryInv, HistoryInv',
           \A c \in Nodes : MemberInv(c),
           LogStep, VoteStep, CountStep, LeaderCommit
    PROVE  LeaderCommit'
  <1>h. HasInv /\ HasInv'
    BY HasFacts, HasFactsNext
  <1>i. LogMatching /\ TermChain /\ LeaderHasTerm /\ EntriesUsed
    BY DEF HistoryInv
  <1>n. \A v \in Nodes : /\ diskVote[v] \in Nat /\ diskVote'[v] \in Nat /\ diskVote[v] <= diskVote'[v]
                         /\ term[v] \in Nat
    <2>1. \A v \in Nodes : diskVote'[v] \in Nat
      BY BoundsAssumption DEF BaseInv, VoteTypes
    <2> QED
      BY <2>1, VoteNumbers DEF VoteStep
  <1>v. ASSUME NEW m \in Nodes, NEW t \in Nat, term'[m] <= t, mode'[m] # "kSteppingDown"
        PROVE  /\ diskVote'[m] <= t
               /\ \A u \in Nat, d \in Nodes : Requests(m, u, d)' => u <= t
    <2>1. /\ diskVote'[m] <= lastVote'[m] /\ lastVote'[m] <= term'[m]
          /\ \A u \in Nat, d \in Nodes : Claims(m, u, d)' => u <= lastVote'[m]
      BY <1>v DEF ElectionInv, VoteInv, VoteBound
    <2>2. diskVote'[m] \in Nat /\ lastVote'[m] \in Nat /\ term'[m] \in Nat
      BY BoundsAssumption DEF BaseInv, VoteTypes, StateTypes
    <2>3. \A u \in Nat, d \in Nodes : Claims(m, u, d)' => u <= t
      BY <1>v, <2>1, <2>2
    <2> QED
      BY <1>v, <2>1, <2>2, <2>3 DEF Requests
  <1>1. SUFFICES ASSUME NEW c \in Nodes, NEW i \in Nat, MayCount(mode'[c]), Has(c, term[c], i)'
                 PROVE  Good(c, i)' \/ Dead(c, i)'
    BY DEF LeaderCommit
  <1>0. /\ term'[c] = term[c] /\ term[c] \in Nat
        /\ mode'[c] # "follower" /\ mode'[c] \in Leader
    BY <1>1, <1>n DEF CountStep, WinElection, MayCount, Leader
  <1>2. PICK t \in Nat : t = term[c]
    BY <1>0
  <1>t. term[c] = t /\ term'[c] = t /\ Has(c, t, i)'
    BY <1>0, <1>1, <1>2
  <1>3. CASE WinElection(c)
    <2>1. oplog' = oplog
      BY <1>3 DEF WinElection, oplogVars
    <2>2. Has(c, term[c], i)
      BY <1>t, <2>1 DEF Has
    <2> QED
      BY <1>3, <1>i, <2>2, WinnerStartsTerm
  <1>4. CASE MayCount(mode[c]) /\ Has(c, t, i)
    <2>f. ASSUME NEW m \in Acked(c, i)', m \notin Acked(c, i)
          PROVE  m \in Nodes /\ term'[m] <= t /\ Has(m, t, i)' /\ i <= durable'[m]
                 /\ mode'[m] # "kSteppingDown"
      <3>1. Has(c, term[c], i)
        BY <1>4, <1>t
      <3>2. m \in Nodes /\ term'[m] <= term[c] /\ Has(m, term[c], i)' /\ i <= durable'[m]
            /\ mode'[m] # "kSteppingDown"
        BY <1>0, <1>1, <1>i, <2>f, <3>1, FreshAck
      <3> QED
        BY <1>t, <3>2
    <2>1. CASE Good(c, i)
      <3>1. NoBypass(t, i) /\ \A m \in Acked(c, i) : Keeps(m, t, i)
        BY <2>1, <1>t DEF Good
      <3>2. ASSUME NEW m \in Acked(c, i)' PROVE Keeps(m, t, i)'
        <4>1. CASE m \in Acked(c, i)
          <5>1. m \in Nodes
            BY <4>1 DEF Acked
          <5> QED
            BY <1>2, <1>i, <3>1, <4>1, <5>1, KeepsKept
        <4>2. CASE m \notin Acked(c, i)
          <5>1. m \in Nodes /\ term'[m] <= t /\ Has(m, t, i)' /\ i <= durable'[m]
                /\ mode'[m] # "kSteppingDown"
            BY <2>f, <4>2
          <5>2. \A u \in Nat, d \in Nodes : Requests(m, u, d)' => u <= t
            BY <1>2, <1>v, <5>1
          <5>3. \A u \in Nat, d \in Nodes : u > t /\ Requests(m, u, d)' => FALSE
            BY <1>2, <5>2
          <5> QED
            BY <5>1, <5>3 DEF Keeps
        <4> QED
          BY <4>1, <4>2
      <3>3. CASE \A d \in Nodes : WinElection(d) /\ term[d] > t => Has(d, t, i)
        <4>1. NoBypass(t, i)'
          BY <1>2, <3>1, <3>3, BypassKept
        <4> QED
          BY <1>t, <3>2, <4>1 DEF Good
      <3>4. ASSUME NEW d \in Nodes, WinElection(d), term[d] > t, ~Has(d, t, i) PROVE Dead(c, i)'
        <4> DEFINE W == election[d].votes \cup {d}
        <4>1. /\ W \in SUBSET Nodes /\ Cardinality(W) >= Majority
              /\ \A v \in W : term[d] <= diskVote[v]
          BY <3>4, WinnerVotes
        <4>2. ASSUME NEW v \in W PROVE v \notin Acked(c, i)' /\ t < diskVote'[v]
          <5>1. v \in Nodes /\ term[d] <= diskVote[v]
            BY <4>1
          <5>2. v \notin Acked(c, i)
            BY <1>2, <1>i, <3>1, <3>4, WinnerHas
          <5>3. UNCHANGED <<durable, memberData>>
            BY <3>4 DEF WinElection, oplogVars
          <5>4. Acked(c, i)' = Acked(c, i)
            BY <1>t, <5>3 DEF Acked
          <5>5. t < diskVote'[v]
            BY <1>2, <1>n, <3>4, <5>1
          <5> QED
            BY <5>2, <5>4, <5>5
        <4> HIDE DEF W
        <4> QED
          BY <1>t, <4>1, <4>2 DEF Dead
      <3> QED
        BY <3>3, <3>4
    <2>2. CASE Dead(c, i)
      <3>1. PICK W \in SUBSET Nodes :
                Cardinality(W) >= Majority /\ \A v \in W : v \notin Acked(c, i) /\ t < diskVote[v]
        BY <2>2, <1>t DEF Dead
      <3>2. ASSUME NEW v \in W PROVE v \notin Acked(c, i)' /\ t < diskVote'[v]
        <4>1. v \in Nodes /\ t < diskVote'[v] /\ diskVote'[v] \in Nat
          BY <1>2, <1>n, <3>1
        <4>2. ASSUME v \in Acked(c, i)' PROVE FALSE
          <5>1. term'[v] <= t /\ mode'[v] # "kSteppingDown"
            BY <2>f, <3>1, <4>2
          <5>2. diskVote'[v] <= t
            BY <1>2, <1>v, <4>1, <5>1
          <5> QED
            BY <1>2, <4>1, <5>2
        <4> QED
          BY <4>1, <4>2
      <3> QED
        BY <1>t, <3>1, <3>2 DEF Dead
    <2> QED
      BY <1>4, <2>1, <2>2, <1>t DEF LeaderCommit
  <1>5. CASE MayCount(mode[c]) /\ ~Has(c, t, i)
    <2>0. mode[c] \in Leader /\ mode[c] # "kSteppingDown" /\ mode[c] \notin Candidate
      BY <1>5 DEF MayCount, Leader, Candidate
    <2>1. Grows(c)
      <3>1. CASE \A n \in Nodes : \E s \in Nodes : FromOld(n, s)
        <4>1. PICK s \in Nodes : FromOld(c, s)
          BY <3>1
        <4>2. Has(s, t, i)
          BY <1>t, <4>1 DEF FromOld
        <4> QED
          BY <1>5, <1>i, <1>t, <2>0, <4>2 DEF LeaderHasTerm
      <3>2. ASSUME NEW d \in Nodes, Grows(d), d # c PROVE FALSE
        <4>1. Has(c, t, i)' <=> Has(c, t, i)
          BY <3>2 DEF Grows
        <4> QED
          BY <1>5, <1>t, <4>1
      <3> QED
        BY <3>1, <3>2 DEF LogStep
    <2>2. /\ i = LastApplied(c)[2] + 1 /\ LastApplied(c)[2] \in Nat
          /\ UNCHANGED <<durable, memberData, diskVote, mode, term>>
      <3>2. i = LastApplied(c)[2] + 1
        BY <1>5, <1>t, <2>1 DEF Grows
      <3>3. UNCHANGED <<durable, memberData, diskVote, mode, term>>
        BY <2>1 DEF Grows, electionVars, leaderVars
      <3> QED
        BY <1>h, <3>2, <3>3 DEF HasInv
    <2>3. ASSUME NEW m \in Nodes, m \in Acked(c, i) PROVE FALSE
      <3>1. CASE m = c
        <4>0. /\ Has(c, LastDurable(c)[1], LastDurable(c)[2]) /\ LastDurable(c)[2] = durable[c]
              /\ LastDurable(c)[1] \in Nat /\ durable[c] \in Nat
          BY LastFacts
        <4>1. durable[c] <= LastApplied(c)[2] /\ durable[c] \in Nat
          BY <4>0, LastFacts
        <4>2. i <= durable[c]
          BY <2>3, <3>1 DEF Acked
        <4> QED
          BY <2>2, <4>1, <4>2
      <3>2. CASE m # c
        <4> DEFINE a == memberData[c][m][1]
                   k == memberData[c][m][2]
        <4>1. ~Before(memberData[c][m], <<t, i>>)
          BY <1>t, <2>3, <3>2 DEF Acked
        <4>2. a \in Int /\ k \in Nat
          <5>1. memberData[c][m] \in OpTimes
            BY DEF BaseInv, CommitTypes
          <5> QED
            BY <5>1, OpTimeType
        <4>3. pendingTerm[c] = 0
          BY <2>0 DEF RolesInv, PrimaryRole
        <4>4. a <= t
          <5>1. a <= Higher(term[c], pendingTerm[c])
            BY DEF MemberInv
          <5> QED
            BY <1>t, <4>3, <5>1 DEF Higher
        <4>5. a = t /\ i <= k
          BY <1>2, <4>1, <4>2, <4>4 DEF Before
        <4>6. Has(c, a, k)
          BY <1>5, <1>t, <4>5 DEF MemberInv
        <4> HIDE DEF a, k
        <4>7. k <= LastApplied(c)[2]
          BY <1>h, <4>2, <4>5, <4>6 DEF HasInv
        <4> QED
          BY <2>2, <4>2, <4>5, <4>7
      <3> QED
        BY <3>1, <3>2
    <2>4. Acked(c, i)' = {}
      <3>1. Acked(c, i)' = Acked(c, i)
        BY <2>2 DEF Acked
      <3> QED
        BY <2>3, <3>1 DEF Acked
    <2>5. ASSUME NEW u \in Nat, u > t, Used(u)' PROVE Dead(c, i)'
      <3>1. PICK Q \in SUBSET Nodes : Cardinality(Q) >= Majority /\ \A v \in Q : u <= diskVote'[v]
        BY <2>5 DEF Used
      <3>2. \A v \in Q : v \notin Acked(c, i)' /\ t < diskVote'[v]
        <4>1. ASSUME NEW v \in Q PROVE t < diskVote'[v]
          <5>1. v \in Nodes /\ u <= diskVote'[v] /\ diskVote'[v] \in Nat
            BY <1>n, <3>1
          <5> QED
            BY <1>2, <2>5, <5>1
        <4> QED
          BY <2>4, <4>1
      <3> QED
        BY <1>t, <3>1, <3>2 DEF Dead
    <2>6. CASE \E u \in Nat : u > t /\ Used(u)'
      BY <2>5, <2>6
    <2>7. CASE ~\E u \in Nat : u > t /\ Used(u)'
      <3>1. ASSUME NEW n \in Nodes, NEW u \in Nat, NEW j \in Nat, Has(n, u, j)', u > t PROVE FALSE
        <4>1. j >= 2
          <5>1. j >= 1 /\ Has(n, 0, 1)'
            BY <1>h, <3>1 DEF HasInv
          <5>2. j # 1
            <6>1. j = 1 => u = 0
              BY <1>h, <3>1, <5>1 DEF HasInv
            <6> QED
              BY <1>2, <3>1, <6>1
          <5> QED
            BY <5>1, <5>2
        <4>2. Used(u)'
          BY <3>1, <4>1 DEF HistoryInv, EntriesUsed
        <4> QED
          BY <2>7, <3>1, <4>2
      <3>2. ASSUME NEW d \in Nodes, mode'[d] \in Leader, term'[d] > t PROVE FALSE
        <4>1. mode[d] \in Leader /\ term'[d] = term[d] /\ term[d] \in Nat
          BY <1>n, <2>2, <3>2
        <4>2. Used(term[d])
          BY <4>1, LeaderUsed
        <4>3. Used(term[d])'
          <5>1. PICK x \in Nat : Used(x) /\ term'[d] = x
            BY <4>1, <4>2
          <5>2. Used(x)'
            BY <5>1, UsedKept
          <5> QED
            BY <5>1, <5>2
        <4> QED
          BY <2>7, <3>2, <4>1, <4>3
      <3>3. NoBypass(t, i)'
        BY <3>1, <3>2 DEF NoBypass
      <3> QED
        BY <2>4, <1>t, <3>3 DEF Good
    <2> QED
      BY <2>6, <2>7
  <1> QED
    BY <1>1, <1>3, <1>4, <1>5 DEF CountStep

-----------------------------------------------------------------------------
\* The commit point of n once its members' journals have been counted.
Counted(n, cp) ==
    AdvanceLastCommitted(cp, firstOpTime[n], LastApplied(n),
                         MajorityOpTime([memberData[n] EXCEPT ![n] = LastDurable(n)]), FALSE)

\* A commit point that a primary's count moves is of its own term and is safe.
CountedFact ==
    BaseInv /\ RolesInv /\ (\A c \in Nodes : MemberInv(c)) /\ LeaderCommit =>
        \A n \in Nodes, cp \in OpTimes :
            MayCount(mode[n]) /\ Counted(n, cp) # cp =>
                /\ Safe(Counted(n, cp))
                /\ Counted(n, cp)[1] = LastApplied(n)[1]

\* This holds in every state of the invariant: a majority has reported the entry, so
\* no majority has voted in a later term without it.
LEMMA CountedIsSafe == CountedFact
  <1> SUFFICES ASSUME BaseInv, RolesInv, \A c \in Nodes : MemberInv(c), LeaderCommit,
                      NEW n \in Nodes, NEW cp \in OpTimes, MayCount(mode[n]), Counted(n, cp) # cp
               PROVE  Safe(Counted(n, cp)) /\ Counted(n, cp)[1] = LastApplied(n)[1]
    BY DEF CountedFact
  <1>h. HasInv
    BY HasFacts
  <1> DEFINE known == [memberData[n] EXCEPT ![n] = LastDurable(n)]
             o == MajorityOpTime(known)
             a == LastApplied(n)[1]
  <1>1. known \in [Nodes -> OpTimes]
    BY LogOpTimes DEF BaseInv, CommitTypes
  <1>2. /\ o \in {known[m] : m \in Nodes}
        /\ Cardinality(AtLeast(known, o)) >= Majority
    BY <1>1, MajorityOpTimeExists
  <1>k. /\ known[n] = LastDurable(n)
        /\ \A m \in Nodes : m # n => known[m] = memberData[n][m]
    BY DEF BaseInv, CommitTypes
  <1> HIDE DEF known, o
  <1>3. o \in OpTimes /\ o[1] \in Int /\ o[2] \in Nat /\ o = <<o[1], o[2]>> /\ o[1] <= MaxTerm + 1
    <2>1. o \in OpTimes
      BY <1>1, <1>2
    <2> QED
      BY <2>1, OpTimeType
  <1>4. Counted(n, cp) = o /\ ~Before(o, firstOpTime[n]) /\ o[1] = a
    BY DEF Counted, AdvanceLastCommitted, LaterOpTime, o, known
  <1>5. /\ a \in Nat /\ a <= term[n] /\ a <= MaxTerm /\ term[n] \in Nat /\ MaxTerm \in Nat
    <2>1. Has(n, LastApplied(n)[1], LastApplied(n)[2])
      BY <1>h DEF HasInv
    <2> QED
      BY <1>h, <2>1, VoteNumbers, BoundsAssumption DEF HasInv
  <1> HIDE DEF a
  <1>6. o[1] = term[n]
    <2>1. CASE mode[n] = "kMaster"
      <3>1. firstOpTime[n][1] = term[n]
        BY <2>1 DEF RolesInv, PrimaryRole
      <3> QED
        BY <1>3, <1>4, <1>5, <3>1 DEF Before
    <2>2. CASE mode[n] = "kLeaderElect"
      <3>1. firstOpTime[n] = MaxOpTime
        BY <2>2 DEF RolesInv, PrimaryRole
      <3>2. firstOpTime[n][1] = MaxTerm + 1
        BY <3>1 DEF MaxOpTime
      <3> QED
        BY <1>3, <1>4, <1>5, <3>2 DEF Before
    <2> QED
      BY <2>1, <2>2 DEF MayCount
  <1>7. Has(n, o[1], o[2])
    <2>1. PICK m \in Nodes : o = known[m]
      BY <1>2
    <2>2. CASE m = n
      BY <1>h, <1>k, <2>1, <2>2 DEF HasInv
    <2>3. CASE m # n
      BY <1>6, <1>k, <2>1, <2>3 DEF MemberInv
    <2> QED
      BY <2>2, <2>3
  <1>8. AtLeast(known, o) \subseteq Acked(n, o[2])
    <2>1. ASSUME NEW m \in Nodes, ~Before(known[m], o) PROVE m \in Acked(n, o[2])
      <3>1. CASE m = n
        <4> DEFINE x == LastDurable(n)[1]
                   y == LastDurable(n)[2]
        <4>1. Has(n, x, y) /\ x \in Nat /\ y \in Nat /\ y = durable[n]
          BY <1>h DEF HasInv
        <4>2. ~(x < o[1] \/ (x = o[1] /\ y < o[2]))
          BY <1>k, <2>1, <3>1 DEF Before
        <4> HIDE DEF x, y
        <4>3. x <= term[n]
          BY <1>h, <4>1 DEF HasInv
        <4>4. o[2] <= durable[n]
          BY <1>3, <1>5, <1>6, <4>1, <4>2, <4>3
        <4> QED
          BY <3>1, <4>4 DEF Acked
      <3>2. CASE m # n
        BY <1>3, <1>6, <1>k, <2>1, <3>2 DEF Acked
      <3> QED
        BY <3>1, <3>2
    <2> QED
      BY <2>1 DEF AtLeast
  <1>9. Cardinality(Acked(n, o[2])) >= Majority /\ Acked(n, o[2]) \in SUBSET Nodes
    <2>1. Acked(n, o[2]) \subseteq Nodes
      BY DEF Acked
    <2>2. IsFiniteSet(Acked(n, o[2])) /\ Cardinality(Acked(n, o[2])) \in Nat
      BY <2>1, NodeSets, MajorityType
    <2>3. Cardinality(AtLeast(known, o)) <= Cardinality(Acked(n, o[2]))
      BY <1>8, <2>2, FS_Subset
    <2>4. Cardinality(AtLeast(known, o)) \in Nat
      <3>1. AtLeast(known, o) \subseteq Nodes
        BY DEF AtLeast
      <3> QED
        BY <3>1, NodeSets, MajorityType
    <2> QED
      BY <1>2, <2>1, <2>2, <2>3, <2>4, MajorityType
  <1>10. Good(n, o[2]) \/ Dead(n, o[2])
    BY <1>3, <1>6, <1>7 DEF LeaderCommit
  <1>11. ~Dead(n, o[2])
    <2>1. SUFFICES ASSUME Dead(n, o[2]) PROVE FALSE
      OBVIOUS
    <2>2. PICK W \in SUBSET Nodes : Cardinality(W) >= Majority /\ \A v \in W : v \notin Acked(n, o[2])
      BY <2>1 DEF Dead
    <2>3. PICK v \in Nodes : v \in W /\ v \in Acked(n, o[2])
      BY <1>9, <2>2, QuorumsMeet
    <2> QED
      BY <2>2, <2>3
  <1>12. Safe(o)
    BY <1>6, <1>9, <1>10, <1>11 DEF Good, Safe
  <1> QED
    BY <1>4, <1>12 DEF a

\* And in the next state.
LEMMA CountedIsSafeNext == CountedFact'
  BY CountedIsSafe, PTL

-----------------------------------------------------------------------------
\* Whoever has o has p, which does not come later.
Under(p, o) ==
    /\ p[1] <= o[1] /\ p[2] <= o[2]
    /\ \A m \in Nodes : Has(m, o[1], o[2]) => Has(m, p[1], p[2])

\* p, and every entry of n that does not come later, is committed with o.
PointOk(n, p, o) ==
    /\ Under(p, o) /\ p[1] <= LastApplied(n)[1]
    /\ \A t, j \in Nat : Has(n, t, j) /\ ~Before(p, <<t, j>>) => Under(<<t, j>>, o)

\* The commit point p of node n is unset or committed.
Point(n, p) == p = NullOpTime \/ \E o \in committed : PointOk(n, p, o)

\* What is committed is safe, and every commit point is committed.
CommitInv ==
    /\ \A o \in committed : Safe(o)
    /\ \A n \in Nodes : Point(n, lastCommitted[n])

\* Some member has a safe entry.
LEMMA SafeIsHeld ==
    ASSUME BaseInv, NEW o, Safe(o)
    PROVE  \E m \in Nodes : Has(m, o[1], o[2]) /\ o[1] \in Nat /\ o[2] \in Nat
  <1>1. PICK Q \in SUBSET Nodes : Cardinality(Q) >= Majority /\ \A m \in Q : Keeps(m, o[1], o[2])
    BY DEF Safe
  <1>2. PICK m \in Nodes : m \in Q
    BY <1>1, QuorumsMeet
  <1>3. Has(m, o[1], o[2])
    BY <1>1, <1>2 DEF Keeps
  <1> QED
    BY <1>3, HasFacts DEF HasInv

\* What precedes a committed entry goes on to precede it.
LEMMA UnderKept ==
    ASSUME BaseInv, LogStep, LeaderHasTerm, NEW o, NEW p, Safe(o), Under(p, o)
    PROVE  Under(p, o)'
  <1>h. HasInv
    BY HasFacts
  <1>1. PICK m0 \in Nodes : Has(m0, o[1], o[2]) /\ o[1] \in Nat /\ o[2] \in Nat
    BY SafeIsHeld
  <1>2. p[1] \in Nat /\ p[2] \in Nat
    <2>1. Has(m0, p[1], p[2])
      BY <1>1 DEF Under
    <2> QED
      BY <1>h, <2>1 DEF HasInv
  <1>3. ASSUME NEW m \in Nodes, Has(m, o[1], o[2])' PROVE Has(m, p[1], p[2])'
    <2>1. CASE \A n \in Nodes : \E s \in Nodes : FromOld(n, s)
      <3>1. PICK s \in Nodes : FromOld(m, s)
        BY <2>1
      <3>2. Has(s, o[1], o[2])
        BY <1>1, <1>3, <3>1 DEF FromOld
      <3>3. Has(s, p[1], p[2]) /\ p[2] <= o[2]
        BY <3>2 DEF Under
      <3> QED
        BY <1>1, <1>2, <1>3, <3>1, <3>3 DEF FromOld
    <2>2. ASSUME NEW c \in Nodes, Grows(c) PROVE Has(m, p[1], p[2])'
      <3>1. /\ mode[c] \in Leader
            /\ \A w, k \in Nat : Has(c, w, k)' <=> (Has(c, w, k) \/ (w = term[c] /\ k = LastApplied(c)[2] + 1))
            /\ \A n \in Nodes : n # c => \A w, k \in Nat : Has(n, w, k)' <=> Has(n, w, k)
        BY <2>2 DEF Grows
      <3>2. Has(m, o[1], o[2])
        <4>1. CASE m = c /\ o[1] = term[c]
          BY <1>1, <3>1, <4>1 DEF LeaderHasTerm
        <4> QED
          BY <1>1, <1>3, <3>1, <4>1
      <3>3. Has(m, p[1], p[2])
        BY <3>2 DEF Under
      <3> QED
        BY <1>2, <3>1, <3>3
    <2> QED
      BY <2>1, <2>2 DEF LogStep
  <1> QED
    BY <1>3 DEF Under

\* A node whose last entry is of the term of p has, up to p, what p's branch has.
SameTermFact ==
    BaseInv /\ LogMatching /\ TermChain =>
        \A n \in Nodes, p, o \in OpTimes :
            Safe(o) /\ Under(p, o) /\ LastApplied(n)[1] = p[1] => PointOk(n, p, o)

\* This holds in every state of the invariant: the entries of a term are one chain.
LEMMA SameTermUnder == SameTermFact
  <1> SUFFICES ASSUME BaseInv, LogMatching, TermChain,
                      NEW n \in Nodes, NEW p \in OpTimes, NEW o \in OpTimes,
                      Safe(o), Under(p, o), LastApplied(n)[1] = p[1]
               PROVE  PointOk(n, p, o)
    BY DEF SameTermFact
  <1>h. HasInv
    BY HasFacts
  <1>1. PICK m0 \in Nodes : Has(m0, o[1], o[2]) /\ o[1] \in Nat /\ o[2] \in Nat
    BY SafeIsHeld
  <1>2. p[1] \in Nat /\ p[2] \in Nat
    <2>1. Has(m0, p[1], p[2])
      BY <1>1 DEF Under
    <2> QED
      BY <1>h, <2>1 DEF HasInv
  <1>3. PICK L \in Nat : L = LastApplied(n)[2]
    BY <1>h DEF HasInv
  <1>4. Has(n, p[1], L)
    BY <1>h, <1>3 DEF HasInv
  <1>5. ASSUME NEW t \in Nat, NEW j \in Nat, Has(n, t, j), ~Before(p, <<t, j>>)
        PROVE  Under(<<t, j>>, o)
    <2>1. t < p[1] \/ (t = p[1] /\ j <= p[2])
      BY <1>2, <1>5 DEF Before
    <2>2. j <= L
      BY <1>3, <1>5, <1>h DEF HasInv
    <2>3. p[1] <= o[1] /\ p[2] <= o[2]
      BY DEF Under
    <2>4. ASSUME NEW m \in Nodes, Has(m, p[1], p[2]) PROVE Has(m, t, j) /\ j <= p[2]
      <3>1. CASE t = p[1] /\ j <= p[2]
        BY <1>2, <1>5, <2>4, <3>1 DEF TermChain
      <3>2. CASE t < p[1] /\ L <= p[2]
        <4>1. Has(m, p[1], L)
          BY <1>2, <1>4, <2>4, <3>2 DEF TermChain
        <4> QED
          BY <1>2, <1>4, <1>5, <2>2, <3>2, <4>1 DEF LogMatching
      <3>3. CASE t < p[1] /\ p[2] < L
        <4>1. Has(n, p[1], p[2])
          BY <1>2, <1>4, <2>4, <3>3 DEF TermChain
        <4>2. ASSUME p[2] <= j PROVE p[1] <= t
          <5>1. \A t1, u1, i1, j1 \in Nat :
                  Has(n, t1, i1) /\ Has(n, u1, j1) /\ i1 <= j1 => t1 <= u1
            BY <1>h DEF HasInv
          <5> QED
            BY <1>2, <1>5, <4>1, <4>2, <5>1
        <4>3. j <= p[2]
          BY <1>2, <3>3, <4>2
        <4> QED
          BY <1>2, <1>5, <2>4, <4>1, <4>3 DEF LogMatching
      <3> QED
        BY <1>2, <2>1, <3>1, <3>2, <3>3
    <2>5. t <= o[1] /\ j <= o[2]
      <3>1. Has(m0, p[1], p[2])
        BY <1>1 DEF Under
      <3>2. j <= p[2]
        BY <2>4, <3>1
      <3> QED
        BY <1>1, <1>2, <2>1, <2>3, <3>2
    <2>6. \A m \in Nodes : Has(m, o[1], o[2]) => Has(m, t, j)
      BY <2>4 DEF Under
    <2> QED
      BY <2>5, <2>6 DEF Under
  <1>6. p[1] <= LastApplied(n)[1]
    BY <1>2
  <1> QED
    BY <1>5, <1>6 DEF PointOk

\* And in the next state.
LEMMA SameTermUnderNext == SameTermFact'
  BY SameTermUnder, PTL

\* A commit point stays committed while the oplog of its node grows: an entry that is
\* added and does not come after the commit point is of the commit point's term.
LEMMA PointExtends ==
    ASSUME BaseInv, BaseInv', LogStep, LeaderHasTerm, TermChain',
           NEW n \in Nodes, NEW p \in OpTimes, NEW o \in OpTimes,
           Safe(o), Extends(n), PointOk(n, p, o)
    PROVE  PointOk(n, p, o)'
  <1>h. HasInv /\ HasInv'
    BY HasFacts, HasFactsNext
  <1>1. PICK m0 \in Nodes : Has(m0, o[1], o[2]) /\ o[1] \in Nat /\ o[2] \in Nat
    BY SafeIsHeld
  <1>u. Under(p, o)
    BY DEF PointOk
  <1>2. p[1] \in Nat /\ p[2] \in Nat
    <2>1. Has(m0, p[1], p[2])
      BY <1>1, <1>u DEF Under
    <2> QED
      BY HasFacts, <2>1 DEF HasInv
  <1>3. PICK L \in Nat : L = LastApplied(n)[2]
    BY <1>h DEF HasInv
  <1>4. PICK a \in Nat : a = LastApplied(n)[1]
    BY <1>h DEF HasInv
  <1>5. Has(n, a, L) /\ p[1] <= a
    BY <1>h, <1>3, <1>4 DEF HasInv, PointOk
  <1>6. Has(n, a, L)'
    BY <1>5 DEF Extends
  <1>7. Under(p, o)'
    BY <1>u, UnderKept
  <1>8. p[1] <= LastApplied(n)'[1]
    <2>1. a <= LastApplied(n)'[1] /\ LastApplied(n)'[1] \in Nat
      BY <1>6, <1>h DEF HasInv
    <2> QED
      BY <1>2, <1>5, <2>1
  <1>9. ASSUME NEW t \in Nat, NEW j \in Nat, Has(n, t, j)', ~Before(p, <<t, j>>)
        PROVE  Under(<<t, j>>, o)'
    <2>1. t < p[1] \/ (t = p[1] /\ j <= p[2])
      BY <1>2, <1>9 DEF Before
    <2>2. CASE Has(n, t, j)
      <3>1. Under(<<t, j>>, o)
        BY <1>9, <2>2 DEF PointOk
      <3> QED
        BY <3>1, UnderKept
    <2>3. CASE ~Has(n, t, j)
      <3>1. ~(j <= L)
        <4>1. SUFFICES ASSUME j <= L PROVE FALSE
          OBVIOUS
        <4>2. 1 <= j
          BY <1>9, <1>h DEF HasInv
        <4>3. PICK u \in Nat : Has(n, u, j)
          BY <1>5, <1>h, <4>1, <4>2 DEF HasInv
        <4>4. Has(n, u, j)'
          BY <4>3 DEF Extends
        <4>5. u = t
          BY <1>9, <1>h, <4>4 DEF HasInv
        <4> QED
          BY <2>3, <4>3, <4>5
      <3>2. a <= t
        BY <1>6, <1>9, <1>h, <3>1 DEF HasInv
      <3>3. t = p[1] /\ j <= p[2]
        BY <1>2, <1>5, <2>1, <3>2
      <3>4. ASSUME NEW m \in Nodes, Has(m, o[1], o[2])' PROVE Has(m, t, j)'
        <4>1. Has(m, p[1], p[2])'
          BY <1>7, <3>4 DEF Under
        <4> QED
          BY <1>2, <1>9, <3>3, <4>1 DEF TermChain
      <3>5. p[1] <= o[1] /\ p[2] <= o[2]
        BY <1>u DEF Under
      <3>6. t <= o[1] /\ j <= o[2]
        BY <1>1, <1>2, <3>3, <3>5
      <3> QED
        BY <3>4, <3>6 DEF Under
    <2> QED
      BY <2>2, <2>3
  <1> QED
    BY <1>7, <1>8, <1>9 DEF PointOk

\* It stays committed in a rollback, which the server refuses below the commit point.
LEMMA PointCut ==
    ASSUME BaseInv, BaseInv', LogStep, LeaderHasTerm,
           NEW n \in Nodes, NEW s \in Nodes, NEW p \in OpTimes, NEW o \in OpTimes,
           Safe(o), p = lastCommitted[n], RunRollback(n, s), PointOk(n, p, o)
    PROVE  PointOk(n, p, o)'
  <1>h. HasInv
    BY HasFacts
  <1>1. PICK k \in 1 .. Len(oplog[n]) : k = CommonPoint(n, s)
    BY CommonPointExists
  <1>2. /\ ~Before(OpTimeAt(oplog[n], k), p)
        /\ oplog' = [oplog EXCEPT ![n] = SubSeq(@, 1, k)]
    BY <1>1 DEF RunRollback, CommonPointIsCommitted
  <1>3. \A t, i \in Nat : Has(n, t, i)' <=> (Has(n, t, i) /\ i <= k)
    BY <1>2, CutLogs
  <1>k. k \in Nat /\ 1 <= k
    BY LogOpTimes
  <1>4. PICK u \in Nat : Has(n, u, k) /\ OpTimeAt(oplog[n], k) = <<u, k>>
    <2>1. Has(n, oplog[n][k], k)
      BY DEF Has
    <2>2. oplog[n][k] \in Nat
      BY <2>1, HasTypes
    <2> QED
      BY <2>1, <2>2 DEF OpTimeAt
  <1>5. Has(n, u, k)'
    BY <1>3, <1>4, <1>k
  <1>6. p[1] <= LastApplied(n)'[1]
    <2>1. u <= LastApplied(n)'[1] /\ LastApplied(n)'[1] \in Nat
      BY <1>5, <1>k, HasFactsNext DEF HasInv
    <2>2. p[1] <= u
      BY <1>2, <1>4, OpTimeType DEF Before
    <2> QED
      BY <2>1, <2>2, OpTimeType
  <1>7. Under(p, o)'
    BY UnderKept DEF PointOk
  <1>8. ASSUME NEW t \in Nat, NEW j \in Nat, Has(n, t, j)', ~Before(p, <<t, j>>)
        PROVE  Under(<<t, j>>, o)'
    <2>1. Under(<<t, j>>, o)
      BY <1>3, <1>8 DEF PointOk
    <2> QED
      BY <2>1, UnderKept
  <1> QED
    BY <1>6, <1>7, <1>8 DEF PointOk

\* The commit point that n takes over from s is committed, from its sync source and
\* from a heartbeat: it is of the term of the last entry of n, or the oplog of s has
\* the last entry of n.
LEMMA LearntPoint ==
    ASSUME BaseInv, LogMatching, TermChain, CommitInv,
           NEW n \in Nodes, NEW s \in Nodes, NEW floor, NEW b \in BOOLEAN,
           b => Contains(oplog[s], LastApplied(n))
    PROVE  Point(n, AdvanceLastCommitted(lastCommitted[n], floor, LastApplied(n),
                                         lastCommitted[s], b))
  <1>h. HasInv
    BY HasFacts
  <1> DEFINE p == lastCommitted[n]
             q == lastCommitted[s]
             a == LastApplied(n)
             usable == IF b /\ q[1] # a[1] THEN MinOpTime(q, a) ELSE q
             new == AdvanceLastCommitted(p, floor, a, q, b)
  <1>1. p \in OpTimes /\ q \in OpTimes /\ a \in OpTimes /\ committed \subseteq OpTimes
    BY LogOpTimes DEF BaseInv, CommitTypes
  <1>2. Point(n, p) /\ Point(s, q)
    BY DEF CommitInv
  <1>3. CASE new = p
    BY <1>2, <1>3
  <1>4. CASE new # p
    <2>1. new = usable /\ Before(p, usable) /\ (q[1] = a[1] \/ b)
      BY <1>4 DEF AdvanceLastCommitted, LaterOpTime
    <2>a. a = <<a[1], a[2]>> /\ a[1] \in Nat /\ a[2] \in Nat /\ Has(n, a[1], a[2])
      BY <1>1, <1>h, OpTimeType DEF HasInv
    <2>2. q # NullOpTime
      <3>1. SUFFICES ASSUME q = NullOpTime PROVE FALSE
        OBVIOUS
      <3>2. q[1] = -1 /\ q[2] = 0
        BY <3>1 DEF NullOpTime
      <3>3. usable = q
        BY <2>a, <3>2 DEF MinOpTime, Before
      <3>4. p[1] \in -1 .. MaxTerm + 1 /\ p[2] \in 0 .. MaxLen + 1
        BY <1>1, OpTimeType
      <3> QED
        BY <2>1, <3>2, <3>3, <3>4, BoundsAssumption DEF Before
    <2>3. PICK o \in committed : PointOk(s, q, o)
      BY <1>2, <2>2 DEF Point
    <2>4. Safe(o) /\ o \in OpTimes
      BY <1>1 DEF CommitInv
    <2>5. Under(q, o)
      BY <2>3 DEF PointOk
    <2>6. CASE q[1] = a[1]
      <3>1. PointOk(n, q, o)
        BY <1>1, <2>4, <2>5, <2>6, SameTermUnder DEF SameTermFact
      <3> QED
        BY <2>1, <2>6, <3>1 DEF Point
    <2>7. CASE q[1] # a[1]
      <3>1. b /\ Has(s, a[1], a[2])
        <4>1. b
          BY <2>1, <2>7
        <4>2. a[2] \in DOMAIN oplog[s] /\ oplog[s][a[2]] = a[1]
          BY <4>1 DEF Contains
        <4>3. DOMAIN oplog[s] = 1 .. Len(oplog[s])
          BY LogOpTimes
        <4> QED
          BY <4>1, <4>2, <4>3 DEF Has
      <3>2. CASE Before(a, q)
        <4>1. ~Before(q, a)
          BY <1>1, <3>2, OpTimeOrder
        <4>2. Under(a, o)
          BY <2>3, <2>a, <3>1, <4>1 DEF PointOk
        <4>3. PointOk(n, a, o)
          BY <1>1, <2>4, <4>2, SameTermUnder DEF SameTermFact
        <4>4. usable = a
          BY <2>7, <3>1, <3>2 DEF MinOpTime
        <4> QED
          BY <2>1, <4>3, <4>4 DEF Point
      <3>3. CASE ~Before(a, q)
        <4>1. usable = q
          BY <2>7, <3>1, <3>3 DEF MinOpTime
        <4>2. q[1] <= a[1]
          BY <1>1, <3>3, OpTimeType DEF Before
        <4>3. ASSUME NEW t \in Nat, NEW j \in Nat, Has(n, t, j), ~Before(q, <<t, j>>)
              PROVE  Under(<<t, j>>, o)
          <5>1. j <= a[2]
            BY <1>h, <4>3 DEF HasInv
          <5>2. Has(s, t, j)
            BY <2>a, <3>1, <4>3, <5>1 DEF LogMatching
          <5> QED
            BY <2>3, <4>3, <5>2 DEF PointOk
        <4>4. PointOk(n, q, o)
          BY <2>5, <4>2, <4>3 DEF PointOk
        <4> QED
          BY <2>1, <4>1, <4>4 DEF Point
      <3> QED
        BY <3>2, <3>3
    <2> QED
      BY <2>6, <2>7
  <1> QED
    BY <1>3, <1>4

-----------------------------------------------------------------------------
\* Every step keeps commit points and committed entries; one case per action.
LEMMA CommitKept ==
    ASSUME BaseInv, BaseInv', ElectionInv, RolesInv, RolesInv', HistoryInv, HistoryInv',
           \A c \in Nodes : MemberInv(c)', LeaderCommit', CommitInv, LogStep, VoteStep, Next
    PROVE  CommitInv'
  <1> USE DEF electionVars, oplogVars, leaderVars
  <1>h. LogMatching /\ TermChain /\ LeaderHasTerm
    BY DEF HistoryInv
  <1>n. LogMatching' /\ TermChain'
    BY DEF HistoryInv
  <1>t. /\ lastCommitted \in [Nodes -> OpTimes] /\ committed \subseteq OpTimes
        /\ firstOpTime \in [Nodes -> OpTimes]
        /\ memberData \in [Nodes -> [Nodes -> OpTimes]] /\ mode \in [Nodes -> Modes]
        /\ durable \in [Nodes -> Nat] /\ oplog \in [Nodes -> Seq(0 .. MaxTerm)]
    BY DEF BaseInv, CommitTypes, StateTypes, LogTypes
  <1>s. ASSUME NEW o \in committed PROVE Safe(o) /\ Safe(o)'
    <2>1. Safe(o)
      BY DEF CommitInv
    <2>2. o[1] \in Nat /\ o[2] \in Nat
      BY <2>1, SafeIsHeld
    <2> QED
      BY <1>h, <2>1, <2>2, SafeKept
  <1>e. ASSUME NEW m \in Nodes, NEW p \in OpTimes, Point(m, p), Extends(m),
               committed \subseteq committed'
        PROVE  Point(m, p)'
    <2>1. CASE p = NullOpTime
      BY <2>1 DEF Point
    <2>2. ASSUME NEW o \in committed, PointOk(m, p, o) PROVE Point(m, p)'
      <3>1. PointOk(m, p, o)'
        BY <1>e, <1>h, <1>n, <1>s, <1>t, <2>2, PointExtends
      <3> QED
        BY <1>e, <3>1 DEF Point
    <2> QED
      BY <1>e, <2>1, <2>2 DEF Point
  <1>q. ASSUME UNCHANGED <<lastCommitted, committed>>, \A m \in Nodes : Extends(m)
        PROVE  CommitInv'
    <2>1. ASSUME NEW m \in Nodes PROVE Point(m, lastCommitted[m])'
      <3>1. PICK p \in OpTimes : p = lastCommitted[m]
        BY <1>t
      <3>2. Point(m, p)'
        BY <1>e, <1>q, <3>1 DEF CommitInv
      <3> QED
        BY <1>q, <3>1, <3>2
    <2> QED
      BY <1>q, <1>s, <2>1 DEF CommitInv
  <1>x. ASSUME UNCHANGED oplog PROVE \A m \in Nodes : Extends(m)
    BY <1>x, SameLogs DEF Extends
  <1>l. ASSUME NEW n \in Nodes, NEW p \in OpTimes, Point(n, p), \A m \in Nodes : Extends(m),
               lastCommitted' = [lastCommitted EXCEPT ![n] = p], committed' = committed
        PROVE  CommitInv'
    <2>1. ASSUME NEW m \in Nodes PROVE Point(m, lastCommitted[m])'
      <3>1. PICK q \in OpTimes : q = lastCommitted'[m] /\ Point(m, q)
        BY <1>l, <1>t DEF CommitInv
      <3>2. Point(m, q)'
        BY <1>e, <1>l, <3>1
      <3> QED
        BY <3>1, <3>2
    <2> QED
      BY <1>l, <1>s, <2>1 DEF CommitInv
  <1>c. ASSUME NEW n \in Nodes, NEW cp \in OpTimes, Point(n, cp), UNCHANGED oplog,
               NEW new, new = Counted(n, cp)',
               lastCommitted' = [lastCommitted EXCEPT ![n] =
                   IF MayCount(mode'[n]) /\ new # cp THEN new ELSE cp],
               committed' = committed \cup (IF MayCount(mode'[n]) /\ new # cp THEN {new} ELSE {})
        PROVE  CommitInv'
    <2>1. CASE ~(MayCount(mode'[n]) /\ new # cp)
      <3>1. lastCommitted' = [lastCommitted EXCEPT ![n] = cp] /\ committed' = committed
        BY <1>c, <2>1
      <3> QED
        BY <1>c, <1>l, <1>x, <3>1
    <2>2. CASE MayCount(mode'[n]) /\ new # cp
      <3>1. lastCommitted' = [lastCommitted EXCEPT ![n] = new] /\ committed' = committed \cup {new}
        BY <1>c, <2>2
      <3>2. Safe(new)' /\ new[1] = LastApplied(n)'[1]
        BY <1>c, <2>2, CountedIsSafeNext DEF CountedFact
      <3>3. new \in OpTimes
        <4>1. committed' \subseteq OpTimes
          BY DEF BaseInv, CommitTypes
        <4> QED
          BY <3>1, <4>1
      <3>4. PointOk(n, new, new)'
        <4>1. new[1] \in Int /\ new[2] \in Nat
          BY <3>3, OpTimeType
        <4>2. Under(new, new)'
          BY <4>1 DEF Under
        <4> QED
          BY <1>n, <3>2, <3>3, <4>2, SameTermUnderNext DEF SameTermFact
      <3>5. ASSUME NEW m \in Nodes PROVE Point(m, lastCommitted[m])'
        <4>1. CASE m = n
          <5>1. Point(n, new)'
            BY <3>1, <3>4 DEF Point
          <5>2. lastCommitted'[n] = new
            BY <1>t, <3>1
          <5> QED
            BY <4>1, <5>1, <5>2
        <4>2. CASE m # n
          <5>1. PICK p \in OpTimes : p = lastCommitted[m] /\ p = lastCommitted'[m]
            BY <1>t, <3>1, <4>2
          <5>2. Point(m, p)
            BY <5>1 DEF CommitInv
          <5>3. Point(m, p)'
            BY <1>c, <1>e, <1>x, <3>1, <5>2
          <5> QED
            BY <5>1, <5>3
        <4> QED
          BY <4>1, <4>2
      <3>6. ASSUME NEW o \in committed' PROVE Safe(o)'
        BY <1>s, <3>1, <3>2
      <3> QED
        BY <3>5, <3>6 DEF CommitInv
    <2> QED
      BY <2>1, <2>2
  <1>k. ASSUME NEW n \in Nodes, NEW cp \in OpTimes, NEW known, Point(n, cp),
               UNCHANGED <<oplog, durable, firstOpTime>>,
               memberData' = [memberData EXCEPT ![n] = known],
               UpdateLastCommitted(n, cp, mode'[n], firstOpTime[n], LastApplied(n),
                                   LastDurable(n), known)
        PROVE  CommitInv'
    <2>1. LastApplied(n)' = LastApplied(n) /\ LastDurable(n)' = LastDurable(n)
      BY <1>k DEF LastApplied, LastDurable
    <2>2. memberData'[n] = known
      BY <1>k, <1>t
    <2>3. Counted(n, cp)' = AdvanceLastCommitted(cp, firstOpTime[n], LastApplied(n),
              MajorityOpTime([known EXCEPT ![n] = LastDurable(n)]), FALSE)
      BY <1>k, <2>1, <2>2 DEF Counted
    <2> QED
      BY <1>c, <1>k, <2>3 DEF UpdateLastCommitted
  <1>1. ASSUME NEW n \in Nodes, StartRealElection(n) PROVE CommitInv'
    BY <1>1, <1>q, <1>x DEF StartRealElection
  <1>2. ASSUME NEW n \in Nodes, WriteLastVoteForMyElection(n) PROVE CommitInv'
    BY <1>2, <1>q, <1>x DEF WriteLastVoteForMyElection
  <1>3. ASSUME NEW n \in Nodes, WinElection(n) PROVE CommitInv'
    BY <1>3, <1>q, <1>x DEF WinElection
  <1>4. ASSUME NEW n \in Nodes, EndsElection(n) PROVE CommitInv'
    BY <1>4, <1>q, <1>x DEF EndsElection
  <1>a. ASSUME NEW n \in Nodes, NEW x \in 0 .. MaxTerm,
               oplog' = [oplog EXCEPT ![n] = Append(@, x)]
        PROVE  \A m \in Nodes : Extends(m)
    BY <1>a, AppendLogs DEF Extends
  <1>5. ASSUME NEW n \in Nodes, OnTransitionToPrimary(n) PROVE CommitInv'
    <2>1. term[n] \in 0 .. MaxTerm
      BY TermTypes DEF BaseInv
    <2>2. /\ UNCHANGED <<lastCommitted, committed>>
          /\ oplog' = [oplog EXCEPT ![n] = Append(@, term[n])]
      BY <1>5 DEF OnTransitionToPrimary
    <2> QED
      BY <1>a, <1>q, <2>1, <2>2
  <1>6. ASSUME NEW n \in Nodes, CompleteTransitionToPrimary(n) PROVE CommitInv'
    <2>1. PICK cp \in OpTimes : cp = lastCommitted[n]
      BY <1>t
    <2>2. /\ UNCHANGED <<oplog, durable, memberData>> /\ mode'[n] = "kMaster"
          /\ firstOpTime'[n] = LastApplied(n)
          /\ UpdateLastCommitted(n, cp, "kMaster", LastApplied(n), LastApplied(n),
                                 LastDurable(n), memberData[n])
      BY <1>6, <1>t, <2>1 DEF CompleteTransitionToPrimary
    <2>3. LastApplied(n)' = LastApplied(n) /\ LastDurable(n)' = LastDurable(n)
      BY <2>2 DEF LastApplied, LastDurable
    <2>4. Counted(n, cp)' = AdvanceLastCommitted(cp, LastApplied(n), LastApplied(n),
              MajorityOpTime([memberData[n] EXCEPT ![n] = LastDurable(n)]), FALSE)
      BY <2>2, <2>3 DEF Counted
    <2>5. Point(n, cp)
      BY <2>1 DEF CommitInv
    <2> QED
      BY <1>c, <2>2, <2>4, <2>5 DEF UpdateLastCommitted
  <1>7. ASSUME NEW n \in Nodes, Write(n) PROVE CommitInv'
    <2>1. term[n] \in 0 .. MaxTerm
      BY TermTypes DEF BaseInv
    <2>2. /\ UNCHANGED <<lastCommitted, committed>>
          /\ oplog' = [oplog EXCEPT ![n] = Append(@, term[n])]
      BY <1>7 DEF Write
    <2> QED
      BY <1>a, <1>q, <2>1, <2>2
  <1>8. ASSUME NEW n \in Nodes, Flush(n) PROVE CommitInv'
    <2>1. PICK cp \in OpTimes : cp = lastCommitted[n]
      BY <1>t
    <2>2. /\ UNCHANGED <<oplog, memberData, mode, firstOpTime>>
          /\ durable'[n] = Len(oplog[n])
          /\ UpdateLastCommitted(n, cp, mode'[n], firstOpTime[n], LastApplied(n),
                                 LastApplied(n), memberData[n])
      BY <1>8, <1>t, <2>1 DEF Flush
    <2>3. LastApplied(n)' = LastApplied(n) /\ LastDurable(n)' = LastApplied(n)
      BY <2>2 DEF LastApplied, LastDurable, LastOpTime
    <2>4. Counted(n, cp)' = AdvanceLastCommitted(cp, firstOpTime[n], LastApplied(n),
              MajorityOpTime([memberData[n] EXCEPT ![n] = LastApplied(n)]), FALSE)
      BY <2>2, <2>3 DEF Counted
    <2>5. Point(n, cp)
      BY <2>1 DEF CommitInv
    <2> QED
      BY <1>c, <2>2, <2>4, <2>5 DEF UpdateLastCommitted
  <1>9. ASSUME NEW n \in Nodes, PrepareForUnconditionalStepDown(n) PROVE CommitInv'
    BY <1>9, <1>q, <1>x DEF PrepareForUnconditionalStepDown
  <1>10. ASSUME NEW n \in Nodes, StepDownFinish(n) PROVE CommitInv'
    BY <1>10, <1>q, <1>x DEF StepDownFinish
  <1>11. ASSUME NEW n \in Nodes, Restart(n) PROVE CommitInv'
    <2>1. /\ lastCommitted' = [lastCommitted EXCEPT ![n] = NullOpTime] /\ committed' = committed
          /\ oplog' = [oplog EXCEPT ![n] = SubSeq(@, 1, durable[n])]
      BY <1>11 DEF Restart
    <2>2. ASSUME NEW m \in Nodes, m # n PROVE Extends(m)
      <3>1. durable[n] \in 1 .. Len(oplog[n])
        BY DEF BaseInv, LogTypes, LogInv
      <3> QED
        BY <2>1, <2>2, <3>1, CutLogs DEF Extends
    <2>3. ASSUME NEW m \in Nodes PROVE Point(m, lastCommitted[m])'
      <3>1. CASE m = n
        BY <1>t, <2>1, <3>1 DEF Point
      <3>2. CASE m # n
        <4>1. PICK p \in OpTimes : p = lastCommitted[m] /\ p = lastCommitted'[m]
          BY <1>t, <2>1, <3>2
        <4>2. Point(m, p)'
          BY <1>e, <2>1, <2>2, <3>2, <4>1 DEF CommitInv
        <4> QED
          BY <4>1, <4>2
      <3> QED
        BY <3>1, <3>2
    <2> QED
      BY <1>s, <2>1, <2>3 DEF CommitInv
  <1>12. ASSUME NEW n \in Nodes, NEW s \in Nodes, ProcessReplSetRequestVotes(n, s)
         PROVE  CommitInv'
    BY <1>12, <1>q, <1>x DEF ProcessReplSetRequestVotes
  <1>13. ASSUME NEW n \in Nodes, NEW s \in Nodes, FailStaleQuery(n, s) PROVE CommitInv'
    BY <1>13, <1>q, <1>x DEF FailStaleQuery
  <1>14. ASSUME NEW n \in Nodes, NEW s \in Nodes, OnSuccessfulBatch(n, s) PROVE CommitInv'
    <2> DEFINE new == AdvanceLastCommitted(lastCommitted[n], Floor(n), LastApplied(n),
                                           lastCommitted[s], TRUE)
    <2>1. /\ lastCommitted' = [lastCommitted EXCEPT ![n] = new] /\ committed' = committed
          /\ Contains(oplog[s], LastApplied(n))
          /\ ~EnqueuesEntry(n, s) => oplog' = oplog
      BY <1>14, <1>t DEF OnSuccessfulBatch, ProcessMetadata, OplogStartFound
    <2>2. \A m \in Nodes : Extends(m)
      <3>1. CASE ~EnqueuesEntry(n, s)
        BY <1>x, <2>1, <3>1
      <3>2. CASE EnqueuesEntry(n, s)
        <4>1. StateTypes'
          BY DEF BaseInv
        <4>2. PICK x \in 0 .. MaxTerm : oplog' = [oplog EXCEPT ![n] = Append(@, x)]
          BY <1>14, <3>2, <4>1, FetchedEntry
        <4> QED
          BY <1>a, <4>2
      <3> QED
        BY <3>1, <3>2
    <2>3. Point(n, new)
      BY <1>h, <2>1, LearntPoint
    <2>4. new \in OpTimes
      BY <1>t, LogOpTimes, AdvanceType
    <2> HIDE DEF new
    <2>5. PICK p \in OpTimes : p = new
      BY <2>4
    <2> QED
      BY <1>l, <2>1, <2>2, <2>3, <2>5
  <1>15. ASSUME NEW n \in Nodes, NEW s \in Nodes, RunRollback(n, s) PROVE CommitInv'
    <2>1. /\ UNCHANGED <<lastCommitted, committed>>
          /\ oplog' = [oplog EXCEPT ![n] = SubSeq(@, 1, CommonPoint(n, s))]
      BY <1>15 DEF RunRollback
    <2>2. ASSUME NEW m \in Nodes, m # n PROVE Extends(m)
      BY <2>1, <2>2, CutLogs, CommonPointExists DEF Extends
    <2>3. ASSUME NEW m \in Nodes PROVE Point(m, lastCommitted[m])'
      <3>1. PICK p \in OpTimes : p = lastCommitted[m] /\ p = lastCommitted'[m]
        BY <1>t, <2>1
      <3>2. Point(m, p)
        BY <3>1 DEF CommitInv
      <3>3. CASE m # n
        <4>1. Point(m, p)'
          BY <1>e, <2>1, <2>2, <3>2, <3>3
        <4> QED
          BY <3>1, <4>1
      <3>4. CASE m = n
        <4>1. CASE p = NullOpTime
          BY <3>1, <4>1 DEF Point
        <4>2. ASSUME NEW o \in committed, PointOk(n, p, o) PROVE Point(n, p)'
          <5>1. PointOk(n, p, o)'
            BY <1>15, <1>h, <1>s, <1>t, <3>1, <3>4, <4>2, PointCut
          <5> QED
            BY <2>1, <5>1 DEF Point
        <4> QED
          BY <3>1, <3>2, <3>4, <4>1, <4>2 DEF Point
      <3> QED
        BY <3>3, <3>4
    <2> QED
      BY <1>s, <2>1, <2>3 DEF CommitInv
  <1>16. ASSUME NEW n \in Nodes, NEW s \in Nodes, HandleHeartbeatResponse(n, s)
         PROVE  CommitInv'
    <2> DEFINE new == AdvanceLastCommitted(lastCommitted[n], Floor(n), LastApplied(n),
                                           lastCommitted[s], FALSE)
               known == [memberData[n] EXCEPT ![s] = LaterOpTime(@, LastDurable(s))]
    <2>1. Point(n, new)
      BY <1>h, LearntPoint
    <2>2. new \in OpTimes
      BY <1>t, LogOpTimes, AdvanceType
    <2>3. UNCHANGED <<oplog, durable, firstOpTime>>
      BY <1>16 DEF HandleHeartbeatResponse
    <2>4. \/ /\ memberData' = [memberData EXCEPT ![n] = known]
             /\ UpdateLastCommitted(n, new, mode'[n], firstOpTime[n], LastApplied(n),
                                    LastDurable(n), known)
          \/ lastCommitted' = [lastCommitted EXCEPT ![n] = new] /\ committed' = committed
      BY <1>16 DEF HandleHeartbeatResponse
    <2> HIDE DEF new, known
    <2>5. PICK cp \in OpTimes : cp = new
      BY <2>2
    <2>6. CASE lastCommitted' = [lastCommitted EXCEPT ![n] = new] /\ committed' = committed
      BY <1>l, <1>x, <2>1, <2>3, <2>5, <2>6
    <2>7. CASE /\ memberData' = [memberData EXCEPT ![n] = known]
               /\ UpdateLastCommitted(n, new, mode'[n], firstOpTime[n], LastApplied(n),
                                      LastDurable(n), known)
      <3>1. UpdateLastCommitted(n, cp, mode'[n], firstOpTime[n], LastApplied(n),
                                LastDurable(n), known)
        BY <2>5, <2>7
      <3> QED
        BY <1>k, <2>1, <2>3, <2>5, <2>7, <3>1
    <2> QED
      BY <2>4, <2>6, <2>7
  <1>17. ASSUME NEW n \in Nodes, NEW s \in Nodes, ProcessReplSetUpdatePosition(n, s)
         PROVE  CommitInv'
    <2> DEFINE known == [memberData[n] EXCEPT ![s] = LaterOpTime(@, LastDurable(s))]
    <2>1. PICK cp \in OpTimes : cp = lastCommitted[n]
      BY <1>t
    <2>2. /\ UNCHANGED <<oplog, durable, firstOpTime>>
          /\ memberData' = [memberData EXCEPT ![n] = known]
          /\ UpdateLastCommitted(n, cp, mode'[n], firstOpTime[n], LastApplied(n),
                                 LastDurable(n), known)
      BY <1>17, <2>1 DEF ProcessReplSetUpdatePosition
    <2>3. Point(n, cp)
      BY <2>1 DEF CommitInv
    <2> HIDE DEF known
    <2> QED
      BY <1>k, <2>2, <2>3
  <1>18. ASSUME NEW r \in storing, ReplyToVoteRequest(r[1], r[2], r[3]) PROVE CommitInv'
    BY <1>18, <1>q, <1>x DEF ReplyToVoteRequest
  <1> QED
    BY <1>1, <1>2, <1>3, <1>4, <1>5, <1>6, <1>7, <1>8, <1>9, <1>10, <1>11, <1>12, <1>13,
       <1>14, <1>15, <1>16, <1>17, <1>18, ElectionEnds DEF Next

-----------------------------------------------------------------------------
\* What the proofs carry along besides the types and the elections.
CommitSafety ==
    /\ RolesInv
    /\ HistoryInv
    /\ \A c \in Nodes : MemberInv(c)
    /\ LeaderCommit
    /\ CommitInv

\* It holds initially.
LEMMA CommitSafetyInit == Init => CommitSafety
  <1> SUFFICES ASSUME Init PROVE CommitSafety
    OBVIOUS
  <1>b. BaseInv
    BY BaseInit
  <1>1. ASSUME NEW n \in Nodes
        PROVE  /\ mode[n] = "follower" /\ term[n] = 0 /\ pendingTerm[n] = 0
               /\ oplog[n] = <<0>> /\ lastCommitted[n] = NullOpTime
               /\ \A m \in Nodes : memberData[n][m] = NullOpTime
               /\ mode[n] \notin Candidate /\ mode[n] \notin Leader /\ ~MayCount(mode[n])
    BY DEF Init, Candidate, Leader, MayCount
  <1>2. storing = {} /\ committed = {}
    BY DEF Init
  <1>3. ASSUME NEW n \in Nodes, NEW t, NEW i PROVE Has(n, t, i) <=> t = 0 /\ i = 1
    BY <1>1 DEF Has
  <1>4. RolesInv
    BY <1>1, <1>2 DEF RolesInv, VoterRole, PrimaryRole
  <1>5. HistoryInv
    BY <1>1, <1>3 DEF HistoryInv, LogMatching, TermChain, LeaderHasTerm, EntriesUsed
  <1>6. ASSUME NEW c \in Nodes PROVE MemberInv(c)
    BY <1>1 DEF MemberInv, Higher, NullOpTime
  <1>7. LeaderCommit
    BY <1>1 DEF LeaderCommit
  <1>8. CommitInv
    BY <1>1, <1>2 DEF CommitInv, Point
  <1> QED
    BY <1>4, <1>5, <1>6, <1>7, <1>8 DEF CommitSafety

\* Every step keeps it.
LEMMA CommitSafetyKept ==
    ASSUME ~voteWentBack', BaseInv, BaseInv', ElectionInv, ElectionInv', CommitSafety, Next
    PROVE  CommitSafety'
  <1>1. RolesInv /\ HistoryInv /\ (\A c \in Nodes : MemberInv(c)) /\ LeaderCommit /\ CommitInv
    BY DEF CommitSafety
  <1>2. LogMatching /\ TermChain
    BY <1>1 DEF HistoryInv
  <1>3. LogStep
    BY <1>2, LogStepTaken
  <1>4. VoteStep
    BY <1>1, VoteStepTaken
  <1>5. CountStep
    BY CountStepTaken
  <1>6. RolesInv'
    BY <1>1, <1>3, <1>4, RolesKept
  <1>7. HistoryInv'
    BY <1>1, <1>3, <1>4, HistoryKept
  <1>8. \A c \in Nodes : MemberInv(c)'
    <2>1. \A c \in Nodes : Heard(c)
      BY <1>1, HeardKept
    <2>2. LeaderHasTerm'
      BY <1>7 DEF HistoryInv
    <2> QED
      BY <1>1, <1>3, <1>5, <2>1, <2>2, MemberKept
  <1>9. LeaderCommit'
    BY <1>1, <1>3, <1>4, <1>5, <1>7, LeaderCommitKept
  <1>10. CommitInv'
    BY <1>1, <1>3, <1>4, <1>6, <1>7, <1>8, <1>9, CommitKept
  <1> QED
    BY <1>6, <1>7, <1>8, <1>9, <1>10 DEF CommitSafety

\* So does a step that changes nothing.
LEMMA CommitSafetyStutters ==
    ASSUME CommitSafety, UNCHANGED vars
    PROVE  CommitSafety'
  <1> USE DEF vars
  <1>1. \A n, t, i : Has(n, t, i)' <=> Has(n, t, i)
    BY DEF Has
  <1>2. \A v, t, d : Claims(v, t, d)' <=> Claims(v, t, d)
    BY DEF Claims
  <1>3. \A n : LastApplied(n)' = LastApplied(n)
    BY DEF LastApplied
  <1>4. RolesInv'
    BY <1>1 DEF CommitSafety, RolesInv, VoterRole, PrimaryRole, StoredInv
  <1>5. LogMatching' /\ TermChain' /\ LeaderHasTerm'
    BY <1>1 DEF CommitSafety, HistoryInv, LogMatching, TermChain, LeaderHasTerm
  <1>6. \A t : Used(t)' <=> Used(t)
    BY <1>1, <1>2 DEF Used, Backs
  <1>7. EntriesUsed'
    BY <1>1, <1>6 DEF CommitSafety, HistoryInv, EntriesUsed
  <1>8. \A c \in Nodes : MemberInv(c)'
    BY <1>1 DEF CommitSafety, MemberInv
  <1>9. \A t, i : NoBypass(t, i)' <=> NoBypass(t, i)
    BY <1>1 DEF NoBypass
  <1>10. \A m, t, i : Keeps(m, t, i)' <=> Keeps(m, t, i)
    BY <1>1, <1>2 DEF Keeps, Requests
  <1>11. \A c, i : Acked(c, i)' = Acked(c, i)
    BY DEF Acked
  <1>12. LeaderCommit'
    BY <1>1, <1>9, <1>10, <1>11 DEF CommitSafety, LeaderCommit, Good, Dead
  <1>13. \A o : Safe(o)' <=> Safe(o)
    BY <1>9, <1>10 DEF Safe
  <1>14. \A p, o : Under(p, o)' <=> Under(p, o)
    BY <1>1 DEF Under
  <1>15. \A n, p : Point(n, p)' <=> Point(n, p)
    BY <1>1, <1>3, <1>14 DEF Point, PointOk
  <1>16. CommitInv'
    BY <1>13, <1>15 DEF CommitSafety, CommitInv
  <1> QED
    BY <1>4, <1>5, <1>7, <1>8, <1>12, <1>16 DEF CommitSafety, HistoryInv

\* It holds until a vote goes back.
LEMMA CommitInvariant == Spec => [](~voteWentBack => CommitSafety)
  <1>1. BaseInv /\ BaseInv' /\ ElectionInv /\ ElectionInv' /\ ~voteWentBack' /\ CommitSafety
            /\ [Next]_vars => CommitSafety'
    BY CommitSafetyKept, CommitSafetyStutters
  <1>2. [Next]_vars /\ ~voteWentBack' => ~voteWentBack
    BY FlagMoves
  <1> QED
    BY BaseInvariant, ElectionInvariant, CommitSafetyInit, <1>1, <1>2, PTL DEF Spec

\* Until a vote goes back, a primary has every entry that a primary of an earlier term
\* has counted as majority-committed, for every number of members and every bound: no
\* election, crash or rollback loses it. Once one has, two primaries of one term may
\* commit different entries.
THEOREM ElectionsLoseNothing == Spec => []PrimaryHasCommittedEntries
  <1>1. BaseInv /\ (~voteWentBack => CommitSafety) => PrimaryHasCommittedEntries
    <2> SUFFICES ASSUME BaseInv, CommitSafety, NEW n \in Nodes, NEW o \in committed,
                        mode[n] \in Leader, o[1] < term[n]
                 PROVE  Contains(oplog[n], o)
      BY DEF PrimaryHasCommittedEntries
    <2>1. Safe(o)
      BY DEF CommitSafety, CommitInv
    <2>2. o[1] \in Nat /\ o[2] \in Nat /\ term[n] \in Nat
      BY <2>1, SafeIsHeld, VoteNumbers
    <2>3. term[n] > o[1]
      BY <2>2
    <2>4. Has(n, o[1], o[2])
      BY <2>1, <2>3 DEF Safe, NoBypass
    <2> QED
      BY <2>4, LogOpTimes DEF Has, Contains
  <1> QED
    BY BaseInvariant, CommitInvariant, <1>1, PTL

\* Until a vote goes back, the commit point a node has learnt, from its sync source,
\* from a heartbeat or by its own count, is an entry that a primary has counted as
\* committed, or precedes one in the oplog of some node.
THEOREM LearntPointsAreCommitted == Spec => []CommitPointIsCommitted
  <1>1. BaseInv /\ (~voteWentBack => CommitSafety) => CommitPointIsCommitted
    <2> SUFFICES ASSUME BaseInv, CommitSafety, NEW n \in Nodes, lastCommitted[n] # NullOpTime
                 PROVE  \E o \in committed, m \in Nodes :
                          /\ ~Before(o, lastCommitted[n])
                          /\ Contains(oplog[m], o) /\ Contains(oplog[m], lastCommitted[n])
      BY DEF CommitPointIsCommitted
    <2> DEFINE p == lastCommitted[n]
    <2>1. PICK o \in committed : PointOk(n, p, o)
      BY DEF CommitSafety, CommitInv, Point
    <2>2. Safe(o) /\ Under(p, o)
      BY <2>1 DEF CommitSafety, CommitInv, PointOk
    <2>3. PICK m \in Nodes : Has(m, o[1], o[2]) /\ o[1] \in Nat /\ o[2] \in Nat
      BY <2>2, SafeIsHeld
    <2>4. Has(m, p[1], p[2]) /\ p[1] <= o[1] /\ p[2] <= o[2]
      BY <2>2, <2>3 DEF Under
    <2>5. p[1] \in Int /\ p[2] \in Nat
      <3>1. p \in OpTimes
        BY DEF BaseInv, CommitTypes
      <3> QED
        BY <3>1, OpTimeType
    <2>6. ~Before(o, p)
      BY <2>3, <2>4, <2>5 DEF Before
    <2>7. Contains(oplog[m], o) /\ Contains(oplog[m], p)
      BY <2>3, <2>4, LogOpTimes DEF Has, Contains
    <2> QED
      BY <2>6, <2>7
  <1> QED
    BY BaseInvariant, CommitInvariant, <1>1, PTL

\* Until a vote goes back, a node that has to roll back keeps every entry it has whose
\* OpTime a primary has counted as committed, whatever the commit point the node itself
\* has heard of.
THEOREM RollbackLosesNothing == Spec => []RollbackKeepsCommitted
  <1>1. BaseInv /\ (~voteWentBack => CommitSafety) => RollbackKeepsCommitted
    <2> SUFFICES ASSUME BaseInv, CommitSafety, NEW n \in Nodes, NEW s \in Nodes,
                        NEW o \in committed, MustRollBack(n, s), Contains(oplog[n], o)
                 PROVE  o[2] <= CommonPoint(n, s)
      BY DEF RollbackKeepsCommitted
    <2>1. Safe(o)
      BY DEF CommitSafety, CommitInv
    <2>2. o[1] \in Nat /\ o[2] \in Nat
      BY <2>1, SafeIsHeld
    <2>3. NoBypass(o[1], o[2])
      BY <2>1 DEF Safe
    <2>4. Has(n, o[1], o[2])
      BY LogOpTimes DEF Has, Contains
    <2>5. LogMatching /\ TermChain
      BY DEF CommitSafety, HistoryInv
    <2> QED
      BY <2>2, <2>3, <2>4, <2>5, RollbackKeeps
  <1> QED
    BY BaseInvariant, CommitInvariant, <1>1, PTL
=============================================================================
