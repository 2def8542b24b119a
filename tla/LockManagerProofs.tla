------------------------- MODULE LockManagerProofs -------------------------
(***************************************************************************)
(* Theorems about LockManager, for every set of lockers, every number of   *)
(* partitions and every recursion depth.  They speak of every state but    *)
(* the last one of a behaviour in which a conversion that was granted      *)
(* while it was given up has been released, or an upgrade on a priority    *)
(* resource has gone uncounted: the two steps that set "corrupt".          *)
(***************************************************************************)
EXTENDS LockManager, FiniteSetTheorems, FunctionTheorems, NaturalsInduction,
        SequenceTheorems, WellFoundedInduction, TLAPS

USE DEF At

-----------------------------------------------------------------------------
(* The inductive invariant *)

LockHeadType ==
    [grantedList : Seq(Lockers), grantedCounts : [Modes -> Int],
     conflictList : Seq(Lockers), conflictCounts : [Modes -> Int],
     conversionsCount : Int, compatibleFirstCount : Int,
     partitions : Seq(Partitions)]

\* The pairs that the operators of LockManager take and return.
State == [req : [Lockers -> RequestType], lock : LockHeadType]

Now == [req |-> req, lock |-> lock]

\* The requests rs beside the lock head as it is.
NowWith(rs) == [req |-> rs, lock |-> lock]

Granted(s) == ToSet(s.lock.grantedList)

Queued(s) == ToSet(s.lock.conflictList)

\* Nobody is twice on a list.
Once(list) == \A i, j \in DOMAIN list : list[i] = list[j] => i = j

\* How many members of S the function f maps to v.
Tally(S, f, v) == Cardinality({l \in S : f[l] = v})

ModeOf(s) == [l \in Lockers |-> s.req[l].mode]

ConvertModeOf(s) == [l \in Lockers |-> s.req[l].convertMode]

StatusOf(s) == [l \in Lockers |-> s.req[l].status]

FirstOf(s) == [l \in Lockers |-> IF s.req[l].compatibleFirst THEN 1 ELSE 0]

Tallied(s) ==
    /\ \A m \in Modes :
         /\ s.lock.grantedCounts[m] = Tally(Granted(s), ModeOf(s), m)
                                        + Tally(Granted(s), ConvertModeOf(s), m)
         /\ s.lock.conflictCounts[m] = Tally(Queued(s), ModeOf(s), m)
    /\ s.lock.conversionsCount = Tally(Granted(s), StatusOf(s), "CONVERTING")
    /\ s.lock.compatibleFirstCount = Tally(Granted(s), FirstOf(s), 1)

\* A request on the granted list: held, and perhaps to be converted to a mode
\* that is really stronger.
GrantedRequest(r) ==
    /\ r.mode \in Modes
    /\ \/ r.status = "GRANTED" /\ r.convertMode = "NONE"
       \/ /\ r.status = "CONVERTING"
          /\ r.convertMode \in Modes \ {r.mode}
          /\ ModeCovered(r.mode, r.convertMode)

WaitingRequest(r) ==
    r.mode \in Modes /\ r.status = "WAITING" /\ r.convertMode = "NONE"

Listed(s) ==
    /\ Once(s.lock.grantedList)
    /\ Once(s.lock.conflictList)
    /\ \A l \in Granted(s) : GrantedRequest(s.req[l])
    /\ \A l \in Queued(s) : WaitingRequest(s.req[l])

Compatible(s) ==
    \A l, k \in Granted(s) :
      l # k => ~Conflicts(s.req[l].mode, {s.req[k].mode})

Well(s) ==
    /\ s \in State
    /\ Listed(s)
    /\ Tallied(s)
    /\ Compatible(s)

\* What a partitioned lock demands of the lock head.
IntentHead(s) ==
    /\ Queued(s) = {}
    /\ \A l \in Granted(s) : /\ s.req[l].mode \in IntentModes
                             /\ s.req[l].convertMode \in IntentModes \cup {"NONE"}

\* l is in the partition it belongs to.
InParts(ps, l) == l \in ToSet(ps[GetPartition(l)])

PartitionedRequest(s, l, p) ==
    /\ p = GetPartition(l)
    /\ p \in ToSet(s.lock.partitions)
    /\ l \notin Granted(s)
    /\ s.req[l].status = "GRANTED"
    /\ s.req[l].mode \in IntentModes
    /\ s.req[l].convertMode = "NONE"
    /\ s.req[l].partitioned

PartsInv(s, ps) ==
    \A p \in Partitions :
      Once(ps[p]) /\ \A l \in ToSet(ps[p]) : PartitionedRequest(s, l, p)

Held(r) == r.status \in {"GRANTED", "CONVERTING"}

\* Whoever holds or waits is on the list it belongs to.
HoldInv(s, ps) ==
    \A l \in Lockers :
      /\ Held(s.req[l]) => l \in Granted(s) \/ InParts(ps, l)
      /\ s.req[l].status = "WAITING" => l \in Queued(s)

\* What a thread at the position "at" knows of its request r.
ThreadInv(r, at, inParts) ==
    /\ at = "idle" => r.status \in {"NEW", "GRANTED"} /\ r.recursiveCount > 0
    /\ at = "lock" => /\ r.status = "NEW"
                      /\ r.mode \in Modes
                      /\ r.convertMode = "NONE"
                      /\ r.recursiveCount = 1
                      /\ r.partitioned = (r.mode \in IntentModes)
    /\ at = "waiting" => /\ r.status \in {"GRANTED", "WAITING", "CONVERTING"}
                         /\ r.recursiveCount > 0
                         /\ r.status = "WAITING" => r.recursiveCount = 1 /\ ~r.partitioned
                         /\ r.status = "CONVERTING" => r.recursiveCount > 1
                         /\ ~inParts
    /\ at = "unlockPartition" => /\ r.status \in {"GRANTED", "CONVERTING"}
                                 /\ r.status = "CONVERTING" => r.recursiveCount > 0
                                 /\ inParts => r.recursiveCount = 0
    /\ at = "unlock" => /\ r.status \in {"GRANTED", "WAITING", "CONVERTING"}
                        /\ r.status = "WAITING" => r.recursiveCount = 0
                        /\ r.status = "CONVERTING" => r.recursiveCount > 0
                        /\ ~inParts

Positions == {"idle", "lock", "waiting", "unlockPartition", "unlock"}

Inv(s, ps, c) ==
    /\ Well(s)
    /\ ps \in [Partitions -> Seq(Lockers)]
    /\ c \in [Lockers -> Positions]
    /\ s.lock.partitions # <<>> => IntentHead(s)
    /\ PartsInv(s, ps)
    /\ HoldInv(s, ps)
    /\ \A l \in Lockers : ThreadInv(s.req[l], c[l], InParts(ps, l))

IInv == priority \in BOOLEAN /\ Inv(Now, parts, pc)

\* The invariant holds until a step has broken what the lists stand for.
Sound == corrupt \in BOOLEAN /\ (~corrupt => IInv)

-----------------------------------------------------------------------------
(* No lost wake-up *)

\* Locker k stands against a request of mode m.
Against(s, m, k) == Conflicts(m, {s.req[k].mode, s.req[k].convertMode})

ConversionsBlocked(s) ==
    \A l \in Granted(s) : s.req[l].status = "CONVERTING" =>
      \E k \in Granted(s) \ {l} : Against(s, s.req[l].convertMode, k)

HeadBlocked(s) ==
    s.lock.conflictList # <<>> =>
      \E k \in Granted(s) : Against(s, s.req[Head(s.lock.conflictList)].mode, k)

Awake(s, first) ==
    /\ ~first => \A l \in Lockers : ~s.req[l].compatibleFirst /\ ~s.req[l].enqueueAtFront
    /\ ConversionsBlocked(s)
    /\ Queued(s) # {} => Granted(s) # {}
    /\ ~first => HeadBlocked(s)

WakeInv == Awake(Now, priority)

SoundAwake == ~corrupt => WakeInv
-----------------------------------------------------------------------------
(* Loops *)

\* The smallest of some numbers.
LEMMA LeastExists ==
    ASSUME NEW T, T \subseteq Nat, T # {}
    PROVE  \E x \in T : \A y \in T : x <= y
  <1> DEFINE R == OpToRel(<, Nat)
  <1>1. IsWellFoundedOn(R, Nat)
    BY NatLessThanWellFounded
  <1> HIDE DEF R
  <1>2. PICK x \in T : \A y \in T : ~ (<<y, x>> \in R)
    BY <1>1, WFMin
  <1>3. ASSUME NEW y \in T PROVE x <= y
    <2>1. ~ (<<y, x>> \in {ss \in Nat \X Nat : ss[1] < ss[2]})
      BY <1>2 DEF R, OpToRel
    <2> QED
      BY <2>1
  <1> QED
    BY <1>3

\* A loop: what holds at first and is kept by each iteration holds throughout.
LEMMA LoopInduction ==
    ASSUME NEW L \in Nat, NEW S, 0 \in S,
           \A n \in 1 .. L : n - 1 \in S => n \in S
    PROVE  \A n \in 0 .. L : n \in S
  <1> DEFINE T == {n \in 0 .. L : n \notin S}
  <1>1. SUFFICES ASSUME T # {} PROVE FALSE
    OBVIOUS
  <1>2. T \subseteq Nat
    OBVIOUS
  <1>3. PICK x \in T : \A y \in T : x <= y
    BY <1>1, <1>2, LeastExists
  <1>4. x \in 1 .. L
    BY <1>3
  <1>5. x - 1 \notin T
    BY <1>3, <1>4
  <1> QED
    BY <1>3, <1>4, <1>5

-----------------------------------------------------------------------------
(* Lists *)

LEMMA ListFacts ==
    ASSUME NEW X, NEW q \in Seq(X)
    PROVE  /\ ToSet(q) \subseteq X
           /\ IsFiniteSet(ToSet(q))
           /\ \A i \in 1 .. Len(q) : q[i] \in ToSet(q)
           /\ \A x \in ToSet(q) : \E i \in 1 .. Len(q) : q[i] = x
           /\ ToSet(q) = {} <=> q = <<>>
  <1>1. q \in [1 .. Len(q) -> X] /\ Len(q) \in Nat /\ DOMAIN q = 1 .. Len(q)
    OBVIOUS
  <1>2. ToSet(q) = {q[i] : i \in 1 .. Len(q)}
    BY <1>1 DEF ToSet
  <1>3. IsFiniteSet(ToSet(q))
    <2>1. q \in Surjection(1 .. Len(q), ToSet(q))
      BY <1>1, <1>2 DEF Surjection
    <2>2. IsFiniteSet(1 .. Len(q))
      BY <1>1, FS_Interval
    <2> QED
      BY <2>1, <2>2, FS_Surjection
  <1>4. ToSet(q) = {} => q = <<>>
    BY <1>1, <1>2
  <1>5. q = <<>> => ToSet(q) = {}
    BY <1>1, <1>2
  <1> QED
    BY <1>1, <1>2, <1>3, <1>4, <1>5

LEMMA AppendFacts ==
    ASSUME NEW X, NEW q \in Seq(X), Once(q), NEW l \in X, l \notin ToSet(q)
    PROVE  /\ Append(q, l) \in Seq(X)
           /\ Once(Append(q, l))
           /\ ToSet(Append(q, l)) = ToSet(q) \cup {l}
  <1> DEFINE t == Append(q, l)
  <1>1. /\ t \in Seq(X) /\ Len(t) = Len(q) + 1 /\ Len(q) \in Nat
        /\ DOMAIN q = 1 .. Len(q) /\ DOMAIN t = 1 .. Len(t)
        /\ \A i \in 1 .. Len(q) : t[i] = q[i]
        /\ t[Len(q) + 1] = l
    OBVIOUS
  <1> HIDE DEF t
  <1>2. \A i \in 1 .. Len(q) : q[i] # l
    BY <1>1 DEF ToSet
  <1>3. Once(t)
    BY <1>1, <1>2 DEF Once
  <1>4. ToSet(t) = ToSet(q) \cup {l}
    BY <1>1 DEF ToSet
  <1> QED
    BY <1>1, <1>3, <1>4 DEF t

LEMMA PrependFacts ==
    ASSUME NEW X, NEW q \in Seq(X), Once(q), NEW l \in X, l \notin ToSet(q)
    PROVE  /\ <<l>> \o q \in Seq(X)
           /\ Once(<<l>> \o q)
           /\ ToSet(<<l>> \o q) = ToSet(q) \cup {l}
  <1> DEFINE t == <<l>> \o q
  <1>1. /\ t \in Seq(X) /\ Len(t) = Len(q) + 1 /\ Len(q) \in Nat
        /\ DOMAIN q = 1 .. Len(q) /\ DOMAIN t = 1 .. Len(t)
        /\ t[1] = l
        /\ \A i \in 2 .. Len(t) : t[i] = q[i - 1]
    OBVIOUS
  <1> HIDE DEF t
  <1>2. \A i \in 1 .. Len(q) : q[i] # l
    BY <1>1 DEF ToSet
  <1>3. Once(t)
    <2> SUFFICES ASSUME NEW i \in 1 .. Len(t), NEW j \in 1 .. Len(t), t[i] = t[j]
                 PROVE  i = j
      BY <1>1 DEF Once
    <2>1. i # 1 => i \in 2 .. Len(t) /\ i - 1 \in 1 .. Len(q)
      BY <1>1
    <2>2. j # 1 => j \in 2 .. Len(t) /\ j - 1 \in 1 .. Len(q)
      BY <1>1
    <2>3. \A a, b \in 1 .. Len(q) : q[a] = q[b] => a = b
      BY <1>1 DEF Once
    <2>4. CASE i = 1 \/ j = 1
      BY <2>1, <2>2, <2>4, <1>1, <1>2
    <2>5. CASE i # 1 /\ j # 1
      BY <2>1, <2>2, <2>3, <2>5, <1>1
    <2> QED
      BY <2>4, <2>5
  <1>4. ToSet(t) = ToSet(q) \cup {l}
    <2>1. ASSUME NEW i \in 1 .. Len(t) PROVE t[i] \in ToSet(q) \cup {l}
      <3>1. i # 1 => i \in 2 .. Len(t) /\ i - 1 \in 1 .. Len(q)
        BY <1>1
      <3>2. \A a \in 1 .. Len(q) : q[a] \in ToSet(q)
        BY <1>1 DEF ToSet
      <3> QED
        BY <3>1, <3>2, <1>1
    <2>2. ASSUME NEW i \in 1 .. Len(q) PROVE \E j \in 1 .. Len(t) : t[j] = q[i]
      <3>1. i + 1 \in 2 .. Len(t) /\ i + 1 \in 1 .. Len(t) /\ (i + 1) - 1 = i
        BY <1>1
      <3>2. t[i + 1] = q[(i + 1) - 1]
        BY <3>1, <1>1
      <3> QED
        BY <3>1, <3>2
    <2>3. l \in ToSet(t)
      BY <1>1 DEF ToSet
    <2>4. ToSet(t) \subseteq ToSet(q) \cup {l}
      <3>1. \A x \in ToSet(t) : \E i \in 1 .. Len(t) : x = t[i]
        BY <1>1 DEF ToSet
      <3> QED
        BY <3>1, <2>1
    <2>5. ToSet(q) \subseteq ToSet(t)
      BY <2>2, <1>1 DEF ToSet
    <2> QED
      BY <2>3, <2>4, <2>5
  <1> QED
    BY <1>1, <1>3, <1>4 DEF t

\* list is q without its element l at position at.
WithoutAt(list, q, l, at) ==
    /\ q[at] = l
    /\ Len(list) = Len(q) - 1
    /\ \A i \in 1 .. Len(q) - 1 : list[i] = IF i < at THEN q[i] ELSE q[i + 1]

LEMMA ConcatOnce ==
    ASSUME NEW X, NEW a \in Seq(X), NEW b \in Seq(X), Once(a), Once(b),
           ToSet(a) \cap ToSet(b) = {}
    PROVE  /\ a \o b \in Seq(X)
           /\ Once(a \o b)
           /\ ToSet(a \o b) = ToSet(a) \cup ToSet(b)
  <1> DEFINE t == a \o b
  <1>1. /\ t \in Seq(X) /\ Len(t) = Len(a) + Len(b)
        /\ \A i \in 1 .. Len(t) : t[i] = IF i <= Len(a) THEN a[i] ELSE b[i - Len(a)]
    BY ConcatProperties
  <1> HIDE DEF t
  <1>2. /\ Len(a) \in Nat /\ Len(b) \in Nat /\ DOMAIN a = 1 .. Len(a)
        /\ DOMAIN b = 1 .. Len(b) /\ DOMAIN t = 1 .. Len(t)
    BY <1>1
  <1>3. ASSUME NEW i \in 1 .. Len(t)
        PROVE  \/ i \in 1 .. Len(a) /\ t[i] = a[i] /\ t[i] \in ToSet(a)
               \/ /\ i \in Len(a) + 1 .. Len(t) /\ i - Len(a) \in 1 .. Len(b)
                  /\ t[i] = b[i - Len(a)] /\ t[i] \in ToSet(b)
    <2>1. CASE i <= Len(a)
      BY <1>1, <1>2, <2>1 DEF ToSet
    <2>2. CASE i > Len(a)
      <3>1. i \in Len(a) + 1 .. Len(t) /\ i - Len(a) \in 1 .. Len(b) /\ ~(i <= Len(a))
        BY <1>1, <1>2, <2>2
      <3>2. t[i] = b[i - Len(a)]
        BY <1>1, <3>1
      <3> QED
        BY <1>2, <3>1, <3>2 DEF ToSet
    <2> QED
      BY <1>2, <2>1, <2>2
  <1>4. Once(t)
    <2> SUFFICES ASSUME NEW i \in 1 .. Len(t), NEW j \in 1 .. Len(t), t[i] = t[j]
                 PROVE  i = j
      BY <1>2 DEF Once
    <2>1. CASE i <= Len(a) /\ j <= Len(a)
      BY <1>2, <1>3, <2>1 DEF Once
    <2>2. CASE i > Len(a) /\ j > Len(a)
      <3>1. /\ i - Len(a) \in 1 .. Len(b) /\ j - Len(a) \in 1 .. Len(b)
            /\ b[i - Len(a)] = b[j - Len(a)]
        BY <1>2, <1>3, <2>2
      <3>2. i - Len(a) = j - Len(a)
        BY <1>2, <3>1 DEF Once
      <3> QED
        BY <1>2, <3>2
    <2>3. CASE ~(i <= Len(a) <=> j <= Len(a))
      BY <1>2, <1>3, <2>3
    <2> QED
      BY <1>2, <2>1, <2>2, <2>3
  <1>5. ToSet(t) \subseteq ToSet(a) \cup ToSet(b)
    <2>1. \A x \in ToSet(t) : \E i \in 1 .. Len(t) : t[i] = x
      BY <1>2 DEF ToSet
    <2> QED
      BY <1>3, <2>1
  <1>6. ToSet(a) \subseteq ToSet(t)
    <2>1. \A i \in 1 .. Len(a) : i \in 1 .. Len(t) /\ t[i] = a[i]
      BY <1>1, <1>2
    <2> QED
      BY <1>2, <2>1 DEF ToSet
  <1>7. ToSet(b) \subseteq ToSet(t)
    <2>1. ASSUME NEW i \in 1 .. Len(b) PROVE b[i] \in ToSet(t)
      <3>1. i + Len(a) \in 1 .. Len(t) /\ ~(i + Len(a) <= Len(a)) /\ (i + Len(a)) - Len(a) = i
        BY <1>1, <1>2
      <3>2. t[i + Len(a)] = b[i]
        BY <1>1, <3>1
      <3> QED
        BY <1>2, <3>1, <3>2 DEF ToSet
    <2>2. \A x \in ToSet(b) : \E i \in 1 .. Len(b) : b[i] = x
      BY <1>2 DEF ToSet
    <2> QED
      BY <2>1, <2>2
  <1> QED
    BY <1>1, <1>4, <1>5, <1>6, <1>7 DEF t

LEMMA UnlinkFacts ==
    ASSUME NEW X, NEW q \in Seq(X), Once(q), NEW l \in ToSet(q)
    PROVE  /\ Unlink(q, l) \in Seq(X)
           /\ Once(Unlink(q, l))
           /\ ToSet(Unlink(q, l)) = ToSet(q) \ {l}
           /\ \E at \in 1 .. Len(q) : WithoutAt(Unlink(q, l), q, l, at)
  <1> DEFINE at == CHOOSE i \in DOMAIN q : q[i] = l
             t == Unlink(q, l)
  <1>1. /\ Len(q) \in Nat /\ DOMAIN q = 1 .. Len(q)
        /\ \A i \in 1 .. Len(q) : q[i] \in X
    OBVIOUS
  <1>2. at \in 1 .. Len(q) /\ q[at] = l
    BY <1>1 DEF ToSet
  <1>3. t = SubSeq(q, 1, at - 1) \o SubSeq(q, at + 1, Len(q))
    BY DEF Unlink, RemoveAt
  <1> HIDE DEF at, t
  <1>4. /\ SubSeq(q, 1, at - 1) \in Seq(X) /\ Len(SubSeq(q, 1, at - 1)) = at - 1
        /\ \A i \in 1 .. at - 1 : SubSeq(q, 1, at - 1)[i] = q[i]
    BY <1>1, <1>2
  <1>5. /\ SubSeq(q, at + 1, Len(q)) \in Seq(X)
        /\ Len(SubSeq(q, at + 1, Len(q))) = Len(q) - at
        /\ \A i \in 1 .. Len(q) - at : SubSeq(q, at + 1, Len(q))[i] = q[at + i]
    <2>1. /\ at + 1 \in Int /\ Len(q) \in Int
          /\ \A i \in at + 1 .. Len(q) : q[i] \in X
      BY <1>1, <1>2
    <2>2. SubSeq(q, at + 1, Len(q)) = [i \in 1 .. (1 + Len(q) - (at + 1)) |-> q[i + (at + 1) - 1]]
      BY <2>1
    <2>3. 1 + Len(q) - (at + 1) = Len(q) - at /\ Len(q) - at \in Nat
      BY <1>1, <1>2
    <2>4. \A i \in 1 .. Len(q) - at : i + (at + 1) - 1 = at + i /\ at + i \in at + 1 .. Len(q)
      BY <1>1, <1>2
    <2> QED
      BY <2>1, <2>2, <2>3, <2>4
  <1>6. /\ t \in Seq(X) /\ Len(t) = Len(q) - 1
        /\ \A i \in 1 .. Len(q) - 1 : t[i] = IF i < at THEN q[i] ELSE q[i + 1]
    <2> DEFINE a == SubSeq(q, 1, at - 1)
               b == SubSeq(q, at + 1, Len(q))
    <2>0. /\ a \in Seq(X) /\ Len(a) = at - 1 /\ (\A i \in 1 .. at - 1 : a[i] = q[i])
          /\ b \in Seq(X) /\ Len(b) = Len(q) - at
          /\ (\A i \in 1 .. Len(q) - at : b[i] = q[at + i]) /\ t = a \o b
      BY <1>3, <1>4, <1>5
    <2> HIDE DEF a, b
    <2>c. /\ t \in Seq(X) /\ Len(t) = Len(a) + Len(b)
          /\ \A i \in 1 .. Len(a) + Len(b) :
               t[i] = IF i <= Len(a) THEN a[i] ELSE b[i - Len(a)]
      BY <2>0, ConcatProperties
    <2>1. t \in Seq(X) /\ Len(t) = Len(q) - 1
      BY <2>0, <2>c, <1>1, <1>2
    <2>2. ASSUME NEW i \in 1 .. Len(q) - 1, i < at PROVE t[i] = q[i]
      BY <2>0, <2>c, <2>2, <1>1, <1>2
    <2>3. ASSUME NEW i \in 1 .. Len(q) - 1, ~(i < at) PROVE t[i] = q[i + 1]
      <3>1. i - (at - 1) \in 1 .. Len(q) - at /\ at + (i - (at - 1)) = i + 1
        BY <2>3, <1>1, <1>2
      <3>2. t[i] = b[i - (at - 1)]
        BY <2>0, <2>c, <2>3, <1>1, <1>2
      <3> QED
        BY <3>1, <3>2, <2>0
    <2> QED
      BY <2>1, <2>2, <2>3
  <1>7. DOMAIN t = 1 .. Len(q) - 1
    BY <1>6, <1>1
  <1>8. Once(t)
    <2> SUFFICES ASSUME NEW i \in 1 .. Len(q) - 1, NEW j \in 1 .. Len(q) - 1, t[i] = t[j]
                 PROVE  i = j
      BY <1>7 DEF Once
    <2>1. \A a, b \in 1 .. Len(q) : q[a] = q[b] => a = b
      BY <1>1 DEF Once
    <2> QED
      BY <2>1, <1>1, <1>2, <1>6
  <1>9. ToSet(t) = ToSet(q) \ {l}
    <2>1. ASSUME NEW i \in 1 .. Len(q) - 1 PROVE t[i] \in ToSet(q) \ {l}
      <3>1. \A a \in 1 .. Len(q) : q[a] = q[at] => a = at
        BY <1>1, <1>2 DEF Once
      <3>2. PICK a \in 1 .. Len(q) : a # at /\ t[i] = q[a]
        BY <1>1, <1>2, <1>6
      <3> QED
        BY <3>1, <3>2, <1>1, <1>2 DEF ToSet
    <2>2. ASSUME NEW a \in 1 .. Len(q), q[a] # l
          PROVE  \E i \in 1 .. Len(q) - 1 : t[i] = q[a]
      <3>1. CASE a < at
        BY <3>1, <1>1, <1>2, <1>6
      <3>2. CASE a > at
        <4>1. a - 1 \in 1 .. Len(q) - 1 /\ ~(a - 1 < at) /\ (a - 1) + 1 = a
          BY <3>2, <1>1, <1>2
        <4> QED
          BY <4>1, <1>6
      <3> QED
        BY <2>2, <3>1, <3>2, <1>2, <1>1
    <2> QED
      BY <2>1, <2>2, <1>1, <1>7 DEF ToSet
  <1>10. WithoutAt(t, q, l, at)
    BY <1>2, <1>6 DEF WithoutAt
  <1> QED
    BY <1>2, <1>6, <1>8, <1>9, <1>10 DEF t

\* The positions of a list whose element is in A are as many as those elements.
LEMMA CountIsTally ==
    ASSUME NEW X, NEW q \in Seq(X), Once(q), NEW A
    PROVE  Cardinality({i \in DOMAIN q : q[i] \in A})
             = Cardinality({l \in ToSet(q) : l \in A})
  <1> DEFINE I == {i \in DOMAIN q : q[i] \in A}
             E == {l \in ToSet(q) : l \in A}
             f == [i \in I |-> q[i]]
  <1>1. DOMAIN q = 1 .. Len(q) /\ Len(q) \in Nat
    OBVIOUS
  <1>2. IsFiniteSet(I)
    <2>1. IsFiniteSet(1 .. Len(q))
      BY <1>1, FS_Interval
    <2> QED
      BY <2>1, <1>1, FS_Subset
  <1>3. f \in Bijection(I, E)
    <2>1. f \in [I -> E]
      BY DEF ToSet
    <2>2. \A a, b \in I : f[a] = f[b] => a = b
      BY DEF Once
    <2>3. \A e \in E : \E a \in I : f[a] = e
      BY DEF ToSet
    <2> QED
      BY <2>1, <2>2, <2>3 DEF Bijection, Injection, IsInjective, Surjection
  <1>4. ExistsBijection(I, E)
    BY <1>3 DEF ExistsBijection
  <1> QED
    BY <1>2, <1>4, FS_Bijection

-----------------------------------------------------------------------------
(* Tallies *)

LEMMA TallyFacts ==
    ASSUME NEW S, IsFiniteSet(S), NEW f, NEW v
    PROVE  /\ Tally(S, f, v) \in Nat
           /\ Tally(S, f, v) = 0 <=> \A l \in S : f[l] # v
  <1> DEFINE T == {l \in S : f[l] = v}
  <1>1. IsFiniteSet(T)
    BY FS_Subset
  <1>2. Cardinality(T) \in Nat /\ (Cardinality(T) = 0 <=> T = {})
    BY <1>1, FS_CardinalityType, FS_EmptySet
  <1> QED
    BY <1>2 DEF Tally

LEMMA TallyAdd ==
    ASSUME NEW S, IsFiniteSet(S), NEW f, NEW v, NEW l, l \notin S
    PROVE  Tally(S \cup {l}, f, v) = Tally(S, f, v) + (IF f[l] = v THEN 1 ELSE 0)
  <1> DEFINE T == {k \in S : f[k] = v}
  <1>1. IsFiniteSet(T) /\ l \notin T
    BY FS_Subset
  <1>2. Cardinality(T) \in Nat
    BY <1>1, FS_CardinalityType
  <1>3. CASE f[l] = v
    <2>1. {k \in S \cup {l} : f[k] = v} = T \cup {l}
      BY <1>3
    <2>2. Cardinality(T \cup {l}) = Cardinality(T) + 1
      BY <1>1, FS_AddElement
    <2> QED
      BY <2>1, <2>2, <1>3 DEF Tally
  <1>4. CASE f[l] # v
    <2>1. {k \in S \cup {l} : f[k] = v} = T
      BY <1>4
    <2>2. Tally(S \cup {l}, f, v) = Tally(S, f, v) /\ Tally(S, f, v) \in Nat
      BY <2>1, <1>2 DEF Tally
    <2> QED
      BY <2>2, <1>4
  <1> QED
    BY <1>3, <1>4

LEMMA TallyRemove ==
    ASSUME NEW S, IsFiniteSet(S), NEW f, NEW v, NEW l \in S
    PROVE  Tally(S \ {l}, f, v) = Tally(S, f, v) - (IF f[l] = v THEN 1 ELSE 0)
  <1>1. IsFiniteSet(S \ {l}) /\ (S \ {l}) \cup {l} = S /\ l \notin S \ {l}
    BY FS_RemoveElement
  <1>2. Tally(S, f, v) = Tally(S \ {l}, f, v) + (IF f[l] = v THEN 1 ELSE 0)
    BY <1>1, TallyAdd
  <1>3. Tally(S \ {l}, f, v) \in Nat
    BY <1>1, TallyFacts
  <1> QED
    BY <1>2, <1>3

LEMMA TallySame ==
    ASSUME NEW S, NEW f, NEW g, NEW v, \A l \in S : f[l] = g[l]
    PROVE  Tally(S, f, v) = Tally(S, g, v)
  <1>1. {l \in S : f[l] = v} = {l \in S : g[l] = v}
    OBVIOUS
  <1> QED
    BY <1>1 DEF Tally
-----------------------------------------------------------------------------
(* The four loops, iteration by iteration.  f[n] is the state after n of them. *)

\* The loop over the granted list in _onLockModeChanged.
IsConversionLoop(s, f) ==
    /\ f[0] = s
    /\ \A n \in 1 .. Len(s.lock.grantedList) : f[n] = GrantConversion(f[n - 1], s.lock.grantedList[n])
    /\ GrantConversions(s) = f[Len(s.lock.grantedList)]

LEMMA ConversionLoop ==
    ASSUME NEW s, s.lock.grantedList \in Seq(Lockers)
    PROVE  \E f : IsConversionLoop(s, f)
  <1> DEFINE q == s.lock.grantedList
             Body(f, m) == [n \in 0 .. m |->
                              IF n = 0 THEN s
                              ELSE GrantConversion(f[n - 1], q[n])]
             S == {m \in Nat : \E f : f = Body(f, m)}
  <1>1. Len(q) \in Nat
    OBVIOUS
  <1>2. \A m \in 0 .. Len(q) : m \in S
    <2>1. 0 \in S
      <3> DEFINE f == [n \in 0 .. 0 |-> s]
      <3>1. f = Body(f, 0)
        OBVIOUS
      <3> QED
        BY <3>1
    <2>2. ASSUME NEW m \in 1 .. Len(q), m - 1 \in S PROVE m \in S
      <3>1. PICK f : f = Body(f, m - 1)
        BY <2>2
      <3> DEFINE g == [n \in 0 .. m |-> IF n = m THEN GrantConversion(f[m - 1], q[m]) ELSE f[n]]
      <3>2. g = Body(g, m)
        <4> SUFFICES ASSUME NEW n \in 0 .. m
                     PROVE  g[n] = IF n = 0 THEN s
                                   ELSE GrantConversion(g[n - 1], q[n])
          OBVIOUS
        <4>1. CASE n = m
          <5>1. m # 0 /\ m - 1 \in 0 .. m /\ m - 1 # m /\ g[m - 1] = f[m - 1]
            OBVIOUS
          <5> QED
            BY <4>1, <5>1
        <4>2. CASE n # m /\ n # 0
          <5>1. n \in 0 .. m - 1 /\ n - 1 \in 0 .. m /\ n - 1 # m /\ g[n - 1] = f[n - 1]
            BY <4>2
          <5> QED
            BY <4>2, <5>1, <3>1
        <4>3. CASE n # m /\ n = 0
          BY <4>3, <3>1
        <4> QED
          BY <4>1, <4>2, <4>3
      <3> HIDE DEF g
      <3>3. \E h : h = Body(h, m)
        BY <3>2
      <3> HIDE DEF Body
      <3> QED
        BY <3>3
    <2> HIDE DEF S
    <2> QED
      BY <2>1, <2>2, <1>1, LoopInduction
  <1>3. PICK f : f = Body(f, Len(q))
    <2> HIDE DEF Body
    <2>1. Len(q) \in S
      BY <1>1, <1>2
    <2> QED
      BY <2>1
  <1> DEFINE loop == CHOOSE h : h = Body(h, Len(q))
  <1>4. loop = Body(loop, Len(q))
    BY <1>3
  <1>5. GrantConversions(s) = loop[Len(q)]
    BY DEF GrantConversions
  <1> HIDE DEF loop, q
  <1>6. loop[0] = s
    BY <1>1, <1>4
  <1>7. ASSUME NEW n \in 1 .. Len(q) PROVE loop[n] = GrantConversion(loop[n - 1], q[n])
    <2>1. n \in 0 .. Len(q) /\ n # 0
      BY <1>1
    <2>2. Body(loop, Len(q))[n] = GrantConversion(loop[n - 1], q[n])
      BY <2>1
    <2> HIDE DEF Body
    <2> QED
      BY <2>2, <1>4
  <1> QED
    BY <1>5, <1>6, <1>7 DEF q, IsConversionLoop

\* The loop over the queue in _onLockModeChanged.
IsWaiterLoop(s, f) ==
    /\ f[0] = [s |-> s, newlyCompatibleFirst |-> FALSE, stop |-> FALSE]
    /\ \A n \in 1 .. Len(s.lock.conflictList) : f[n] = GrantWaiter(f[n - 1], s.lock.conflictList[n])
    /\ GrantWaiters(s) = f[Len(s.lock.conflictList)].s

LEMMA WaiterLoop ==
    ASSUME NEW s, s.lock.conflictList \in Seq(Lockers)
    PROVE  \E f : IsWaiterLoop(s, f)
  <1> DEFINE q == s.lock.conflictList
             Body(f, m) == [n \in 0 .. m |->
                              IF n = 0 THEN [s |-> s, newlyCompatibleFirst |-> FALSE, stop |-> FALSE]
                              ELSE GrantWaiter(f[n - 1], q[n])]
             S == {m \in Nat : \E f : f = Body(f, m)}
  <1>1. Len(q) \in Nat
    OBVIOUS
  <1>2. \A m \in 0 .. Len(q) : m \in S
    <2>1. 0 \in S
      <3> DEFINE f == [n \in 0 .. 0 |-> [s |-> s, newlyCompatibleFirst |-> FALSE, stop |-> FALSE]]
      <3>1. f = Body(f, 0)
        OBVIOUS
      <3> QED
        BY <3>1
    <2>2. ASSUME NEW m \in 1 .. Len(q), m - 1 \in S PROVE m \in S
      <3>1. PICK f : f = Body(f, m - 1)
        BY <2>2
      <3> DEFINE g == [n \in 0 .. m |-> IF n = m THEN GrantWaiter(f[m - 1], q[m]) ELSE f[n]]
      <3>2. g = Body(g, m)
        <4> SUFFICES ASSUME NEW n \in 0 .. m
                     PROVE  g[n] = IF n = 0 THEN [s |-> s, newlyCompatibleFirst |-> FALSE, stop |-> FALSE]
                                   ELSE GrantWaiter(g[n - 1], q[n])
          OBVIOUS
        <4>1. CASE n = m
          <5>1. m # 0 /\ m - 1 \in 0 .. m /\ m - 1 # m /\ g[m - 1] = f[m - 1]
            OBVIOUS
          <5> QED
            BY <4>1, <5>1
        <4>2. CASE n # m /\ n # 0
          <5>1. n \in 0 .. m - 1 /\ n - 1 \in 0 .. m /\ n - 1 # m /\ g[n - 1] = f[n - 1]
            BY <4>2
          <5> QED
            BY <4>2, <5>1, <3>1
        <4>3. CASE n # m /\ n = 0
          BY <4>3, <3>1
        <4> QED
          BY <4>1, <4>2, <4>3
      <3> HIDE DEF g
      <3>3. \E h : h = Body(h, m)
        BY <3>2
      <3> HIDE DEF Body
      <3> QED
        BY <3>3
    <2> HIDE DEF S
    <2> QED
      BY <2>1, <2>2, <1>1, LoopInduction
  <1>3. PICK f : f = Body(f, Len(q))
    <2> HIDE DEF Body
    <2>1. Len(q) \in S
      BY <1>1, <1>2
    <2> QED
      BY <2>1
  <1> DEFINE loop == CHOOSE h : h = Body(h, Len(q))
  <1>4. loop = Body(loop, Len(q))
    BY <1>3
  <1>5. GrantWaiters(s) = loop[Len(q)].s
    BY DEF GrantWaiters
  <1> HIDE DEF loop, q
  <1>6. loop[0] = [s |-> s, newlyCompatibleFirst |-> FALSE, stop |-> FALSE]
    BY <1>1, <1>4
  <1>7. ASSUME NEW n \in 1 .. Len(q) PROVE loop[n] = GrantWaiter(loop[n - 1], q[n])
    <2>1. n \in 0 .. Len(q) /\ n # 0
      BY <1>1
    <2>2. Body(loop, Len(q))[n] = GrantWaiter(loop[n - 1], q[n])
      BY <2>1
    <2> HIDE DEF Body
    <2> QED
      BY <2>2, <1>4
  <1> QED
    BY <1>5, <1>6, <1>7 DEF q, IsWaiterLoop

\* The loop of migratePartitionedLockHeads over the requests it moves.
IsMigrationLoop(rs, f) ==
    /\ f[0] = [req |-> rs, lock |-> [lock EXCEPT !.partitions = <<>>]]
    /\ \A n \in 1 .. Len(PartitionedRequests) : f[n] = NewRequest(f[n - 1], PartitionedRequests[n])
    /\ Migrated(rs) = f[Len(PartitionedRequests)]

LEMMA MigrationLoop ==
    ASSUME NEW rs, PartitionedRequests \in Seq(Lockers)
    PROVE  \E f : IsMigrationLoop(rs, f)
  <1> DEFINE q == PartitionedRequests
             Body(f, m) == [n \in 0 .. m |->
                              IF n = 0 THEN [req |-> rs, lock |-> [lock EXCEPT !.partitions = <<>>]]
                              ELSE NewRequest(f[n - 1], q[n])]
             S == {m \in Nat : \E f : f = Body(f, m)}
  <1>1. Len(q) \in Nat
    OBVIOUS
  <1>2. \A m \in 0 .. Len(q) : m \in S
    <2>1. 0 \in S
      <3> DEFINE f == [n \in 0 .. 0 |-> [req |-> rs, lock |-> [lock EXCEPT !.partitions = <<>>]]]
      <3>1. f = Body(f, 0)
        OBVIOUS
      <3> QED
        BY <3>1
    <2>2. ASSUME NEW m \in 1 .. Len(q), m - 1 \in S PROVE m \in S
      <3>1. PICK f : f = Body(f, m - 1)
        BY <2>2
      <3> DEFINE g == [n \in 0 .. m |-> IF n = m THEN NewRequest(f[m - 1], q[m]) ELSE f[n]]
      <3>2. g = Body(g, m)
        <4> SUFFICES ASSUME NEW n \in 0 .. m
                     PROVE  g[n] = IF n = 0 THEN [req |-> rs, lock |-> [lock EXCEPT !.partitions = <<>>]]
                                   ELSE NewRequest(g[n - 1], q[n])
          OBVIOUS
        <4>1. CASE n = m
          <5>1. m # 0 /\ m - 1 \in 0 .. m /\ m - 1 # m /\ g[m - 1] = f[m - 1]
            OBVIOUS
          <5> QED
            BY <4>1, <5>1
        <4>2. CASE n # m /\ n # 0
          <5>1. n \in 0 .. m - 1 /\ n - 1 \in 0 .. m /\ n - 1 # m /\ g[n - 1] = f[n - 1]
            BY <4>2
          <5> QED
            BY <4>2, <5>1, <3>1
        <4>3. CASE n # m /\ n = 0
          BY <4>3, <3>1
        <4> QED
          BY <4>1, <4>2, <4>3
      <3> HIDE DEF g
      <3>3. \E h : h = Body(h, m)
        BY <3>2
      <3> HIDE DEF Body
      <3> QED
        BY <3>3
    <2> HIDE DEF S
    <2> QED
      BY <2>1, <2>2, <1>1, LoopInduction
  <1>3. PICK f : f = Body(f, Len(q))
    <2> HIDE DEF Body
    <2>1. Len(q) \in S
      BY <1>1, <1>2
    <2> QED
      BY <2>1
  <1> DEFINE loop == CHOOSE h : h = Body(h, Len(q))
  <1>4. loop = Body(loop, Len(q))
    BY <1>3
  <1>5. Migrated(rs) = loop[Len(q)]
    BY DEF Migrated
  <1> HIDE DEF loop, q
  <1>6. loop[0] = [req |-> rs, lock |-> [lock EXCEPT !.partitions = <<>>]]
    BY <1>1, <1>4
  <1>7. ASSUME NEW n \in 1 .. Len(q) PROVE loop[n] = NewRequest(loop[n - 1], q[n])
    <2>1. n \in 0 .. Len(q) /\ n # 0
      BY <1>1
    <2>2. Body(loop, Len(q))[n] = NewRequest(loop[n - 1], q[n])
      BY <2>1
    <2> HIDE DEF Body
    <2> QED
      BY <2>2, <1>4
  <1> QED
    BY <1>5, <1>6, <1>7 DEF q, IsMigrationLoop

\* Position n is the first at which its partition is listed.
FirstListed(q, n) == \A j \in 1 .. n - 1 : q[j] # q[n]

\* The loop of migratePartitionedLockHeads over the partitions.
IsPartitionLoop(q, f) ==
    /\ f[0] = <<>>
    /\ \A n \in 1 .. Len(q) :
         /\ ~FirstListed(q, n) => f[n] = f[n - 1]
         /\ FirstListed(q, n) => f[n] = f[n - 1] \o parts[q[n]]
    /\ PartitionedRequests = f[Len(q)]

LEMMA PartitionLoop ==
    ASSUME NEW q \in Seq(Partitions), q = Reverse(lock.partitions)
    PROVE  \E f : IsPartitionLoop(q, f)
  <1> DEFINE Body(f, m) == [n \in 0 .. m |->
                              IF n = 0 THEN <<>>
                              ELSE IF \E j \in 1 .. n - 1 : q[j] = q[n] THEN f[n - 1] ELSE f[n - 1] \o parts[q[n]]]
             S == {m \in Nat : \E f : f = Body(f, m)}
  <1>1. Len(q) \in Nat
    OBVIOUS
  <1>2. \A m \in 0 .. Len(q) : m \in S
    <2>1. 0 \in S
      <3> DEFINE f == [n \in 0 .. 0 |-> <<>>]
      <3>1. f = Body(f, 0)
        OBVIOUS
      <3> QED
        BY <3>1
    <2>2. ASSUME NEW m \in 1 .. Len(q), m - 1 \in S PROVE m \in S
      <3>1. PICK f : f = Body(f, m - 1)
        BY <2>2
      <3> DEFINE g == [n \in 0 .. m |-> IF n = m
                                        THEN IF \E j \in 1 .. m - 1 : q[j] = q[m]
                                             THEN f[m - 1] ELSE f[m - 1] \o parts[q[m]]
                                        ELSE f[n]]
      <3>2. g = Body(g, m)
        <4> SUFFICES ASSUME NEW n \in 0 .. m
                     PROVE  g[n] = IF n = 0 THEN <<>>
                                   ELSE IF \E j \in 1 .. n - 1 : q[j] = q[n] THEN g[n - 1] ELSE g[n - 1] \o parts[q[n]]
          OBVIOUS
        <4>1. CASE n = m
          <5>1. m # 0 /\ m - 1 \in 0 .. m /\ m - 1 # m /\ g[m - 1] = f[m - 1]
            OBVIOUS
          <5> QED
            BY <4>1, <5>1
        <4>2. CASE n # m /\ n # 0
          <5>1. n \in 0 .. m - 1 /\ n - 1 \in 0 .. m /\ n - 1 # m /\ g[n - 1] = f[n - 1]
            BY <4>2
          <5> QED
            BY <4>2, <5>1, <3>1
        <4>3. CASE n # m /\ n = 0
          BY <4>3, <3>1
        <4> QED
          BY <4>1, <4>2, <4>3
      <3> HIDE DEF g
      <3>3. \E h : h = Body(h, m)
        BY <3>2
      <3> HIDE DEF Body
      <3> QED
        BY <3>3
    <2> HIDE DEF S
    <2> QED
      BY <2>1, <2>2, <1>1, LoopInduction
  <1>3. PICK f : f = Body(f, Len(q))
    <2> HIDE DEF Body
    <2>1. Len(q) \in S
      BY <1>1, <1>2
    <2> QED
      BY <2>1
  <1> DEFINE loop == CHOOSE h : h = Body(h, Len(q))
  <1>4. loop = Body(loop, Len(q))
    BY <1>3
  <1>5. PartitionedRequests = loop[Len(q)]
    BY DEF PartitionedRequests
  <1> HIDE DEF loop
  <1>6. loop[0] = <<>>
    BY <1>1, <1>4
  <1>7. ASSUME NEW n \in 1 .. Len(q)
        PROVE  loop[n] = IF \E j \in 1 .. n - 1 : q[j] = q[n]
                         THEN loop[n - 1] ELSE loop[n - 1] \o parts[q[n]]
    <2>1. n \in 0 .. Len(q) /\ n # 0
      BY <1>1
    <2>2. Body(loop, Len(q))[n] = IF \E j \in 1 .. n - 1 : q[j] = q[n]
                                  THEN loop[n - 1] ELSE loop[n - 1] \o parts[q[n]]
      BY <2>1
    <2> HIDE DEF Body
    <2> QED
      BY <2>2, <1>4
  <1>8. ASSUME NEW n \in 1 .. Len(q)
        PROVE  /\ ~FirstListed(q, n) => loop[n] = loop[n - 1]
               /\ FirstListed(q, n) => loop[n] = loop[n - 1] \o parts[q[n]]
    BY <1>7 DEF FirstListed
  <1> QED
    BY <1>5, <1>6, <1>8 DEF IsPartitionLoop
-----------------------------------------------------------------------------
(* Modes *)

LEMMA ConflictsTable ==
    /\ LockConflictsTable["IS"] = {"X"}
    /\ LockConflictsTable["IX"] = {"S", "X"}
    /\ LockConflictsTable["S"] = {"IX", "X"}
    /\ LockConflictsTable["X"] = {"IS", "IX", "S", "X"}
  BY DEF LockConflictsTable, Modes

LEMMA ModeFacts ==
    /\ \A m, x \in Modes : Conflicts(m, {x}) => Conflicts(x, {m})
    /\ \A m, x \in IntentModes : ~Conflicts(m, {x})
    /\ \A m \in Modes : Conflicts(m, {"X"}) /\ ~Conflicts(m, {"NONE"})
    /\ \A m, x, y \in Modes : ModeCovered(x, y) /\ Conflicts(m, {x}) => Conflicts(m, {y})
  <1>1. ASSUME NEW m \in Modes, NEW x
        PROVE  Conflicts(m, {x}) <=> x \in LockConflictsTable[m]
    BY DEF Conflicts
  <1>2. \A m, x \in Modes : x \in LockConflictsTable[m] => m \in LockConflictsTable[x]
    BY ConflictsTable DEF Modes
  <1>3. \A m, x \in IntentModes : x \notin LockConflictsTable[m]
    BY ConflictsTable DEF IntentModes
  <1>4. \A m \in Modes : "X" \in LockConflictsTable[m] /\ "NONE" \notin LockConflictsTable[m]
    BY ConflictsTable DEF Modes
  <1>5. IntentModes \subseteq Modes
    BY DEF IntentModes, Modes
  <1>6. ASSUME NEW m \in Modes, NEW x \in Modes, NEW y \in Modes,
               ModeCovered(x, y), Conflicts(m, {x})
        PROVE  Conflicts(m, {y})
    BY <1>1, <1>2, <1>6 DEF ModeCovered
  <1> QED
    BY <1>1, <1>2, <1>3, <1>4, <1>5, <1>6

LEMMA ConflictsOne ==
    ASSUME NEW m, NEW E
    PROVE  Conflicts(m, E) <=> \E x \in E : Conflicts(m, {x})
  BY DEF Conflicts

-----------------------------------------------------------------------------
(* States whose lists and counts agree *)

LEMMA StateFacts ==
    ASSUME NEW s \in State
    PROVE  /\ s.req \in [Lockers -> RequestType] /\ s.lock \in LockHeadType
           /\ s.lock.grantedList \in Seq(Lockers) /\ s.lock.conflictList \in Seq(Lockers)
           /\ s.lock.grantedCounts \in [Modes -> Int] /\ s.lock.conflictCounts \in [Modes -> Int]
           /\ s.lock.conversionsCount \in Int /\ s.lock.compatibleFirstCount \in Int
           /\ s.lock.partitions \in Seq(Partitions)
           /\ Granted(s) \subseteq Lockers /\ Queued(s) \subseteq Lockers
           /\ IsFiniteSet(Granted(s)) /\ IsFiniteSet(Queued(s))
           /\ Granted(s) = {} <=> s.lock.grantedList = <<>>
           /\ Queued(s) = {} <=> s.lock.conflictList = <<>>
  <1>1. s.req \in [Lockers -> RequestType] /\ s.lock \in LockHeadType
    BY DEF State
  <1>2. /\ s.lock.grantedList \in Seq(Lockers) /\ s.lock.conflictList \in Seq(Lockers)
        /\ s.lock.grantedCounts \in [Modes -> Int] /\ s.lock.conflictCounts \in [Modes -> Int]
        /\ s.lock.conversionsCount \in Int /\ s.lock.compatibleFirstCount \in Int
        /\ s.lock.partitions \in Seq(Partitions)
    BY <1>1 DEF LockHeadType
  <1>3. /\ Granted(s) \subseteq Lockers /\ IsFiniteSet(Granted(s))
        /\ Granted(s) = {} <=> s.lock.grantedList = <<>>
    <2> DEFINE g == s.lock.grantedList
    <2>1. Granted(s) = ToSet(g) /\ g \in Seq(Lockers)
      BY <1>2 DEF Granted
    <2> HIDE DEF g
    <2>2. ToSet(g) \subseteq Lockers /\ IsFiniteSet(ToSet(g)) /\ (ToSet(g) = {} <=> g = <<>>)
      BY <2>1, ListFacts
    <2> QED
      BY <2>1, <2>2 DEF g
  <1>4. /\ Queued(s) \subseteq Lockers /\ IsFiniteSet(Queued(s))
        /\ Queued(s) = {} <=> s.lock.conflictList = <<>>
    <2> DEFINE g == s.lock.conflictList
    <2>1. Queued(s) = ToSet(g) /\ g \in Seq(Lockers)
      BY <1>2 DEF Queued
    <2> HIDE DEF g
    <2>2. ToSet(g) \subseteq Lockers /\ IsFiniteSet(ToSet(g)) /\ (ToSet(g) = {} <=> g = <<>>)
      BY <2>1, ListFacts
    <2> QED
      BY <2>1, <2>2 DEF g
  <1> QED
    BY <1>1, <1>2, <1>3, <1>4

LEMMA ViewsOf ==
    ASSUME NEW s, NEW l \in Lockers
    PROVE  /\ ModeOf(s)[l] = s.req[l].mode
           /\ ConvertModeOf(s)[l] = s.req[l].convertMode
           /\ StatusOf(s)[l] = s.req[l].status
           /\ FirstOf(s)[l] = IF s.req[l].compatibleFirst THEN 1 ELSE 0
  BY DEF ModeOf, ConvertModeOf, StatusOf, FirstOf

\* What l contributes to a tally.
Share(S, f, l, v) == IF l \in S /\ f[l] = v THEN 1 ELSE 0

LEMMA TallyWithout ==
    ASSUME NEW S, IsFiniteSet(S), NEW f, NEW v, NEW l
    PROVE  Tally(S \ {l}, f, v) = Tally(S, f, v) - Share(S, f, l, v)
  <1>1. CASE l \in S
    BY <1>1, TallyRemove DEF Share
  <1>2. CASE l \notin S
    <2>1. S \ {l} = S
      BY <1>2
    <2>2. Tally(S, f, v) \in Nat
      BY TallyFacts
    <2> QED
      BY <2>1, <2>2, <1>2 DEF Share
  <1> QED
    BY <1>1, <1>2

LEMMA TallyDiffers ==
    ASSUME NEW S, IsFiniteSet(S), NEW T, IsFiniteSet(T), NEW f, NEW g, NEW v, NEW l,
           S \ {l} = T \ {l}, \A k \in S \ {l} : f[k] = g[k]
    PROVE  Tally(T, g, v) = Tally(S, f, v) - Share(S, f, l, v) + Share(T, g, l, v)
  <1>1. Tally(S \ {l}, f, v) = Tally(T \ {l}, g, v)
    BY TallySame
  <1>2. /\ Tally(S \ {l}, f, v) = Tally(S, f, v) - Share(S, f, l, v)
        /\ Tally(T \ {l}, g, v) = Tally(T, g, v) - Share(T, g, l, v)
    BY TallyWithout
  <1>3. Tally(S, f, v) \in Nat /\ Tally(T, g, v) \in Nat
    BY TallyFacts
  <1>4. Share(S, f, l, v) \in Nat /\ Share(T, g, l, v) \in Nat
    BY DEF Share
  <1>5. \A a, b, c, d \in Nat : a - b = c - d => c = a - b + d
    OBVIOUS
  <1>6. Tally(S, f, v) - Share(S, f, l, v) = Tally(T, g, v) - Share(T, g, l, v)
    BY <1>1, <1>2
  <1> QED
    BY <1>3, <1>4, <1>5, <1>6

\* From s to t only the request of l changes, and the lists it is on.
OneMoves(s, t, l) ==
    /\ \A k \in Lockers \ {l} : t.req[k] = s.req[k]
    /\ Granted(s) \ {l} = Granted(t) \ {l}
    /\ Queued(s) \ {l} = Queued(t) \ {l}
    /\ Once(t.lock.grantedList)
    /\ Once(t.lock.conflictList)

\* The counts follow that change.
CountsFollow(s, t, l) ==
    /\ \A m \in Modes :
         /\ t.lock.grantedCounts[m] = s.lock.grantedCounts[m]
              - Share(Granted(s), ModeOf(s), l, m) + Share(Granted(t), ModeOf(t), l, m)
              - Share(Granted(s), ConvertModeOf(s), l, m)
              + Share(Granted(t), ConvertModeOf(t), l, m)
         /\ t.lock.conflictCounts[m] = s.lock.conflictCounts[m]
              - Share(Queued(s), ModeOf(s), l, m) + Share(Queued(t), ModeOf(t), l, m)
    /\ t.lock.conversionsCount = s.lock.conversionsCount
         - Share(Granted(s), StatusOf(s), l, "CONVERTING")
         + Share(Granted(t), StatusOf(t), l, "CONVERTING")
    /\ t.lock.compatibleFirstCount = s.lock.compatibleFirstCount
         - Share(Granted(s), FirstOf(s), l, 1) + Share(Granted(t), FirstOf(t), l, 1)

\* The new request of l suits the list it is on.
FitsIn(t, l) ==
    /\ l \in Granted(t) =>
         /\ GrantedRequest(t.req[l])
         /\ \A k \in Granted(t) \ {l} : ~Conflicts(t.req[l].mode, {t.req[k].mode})
    /\ l \in Queued(t) => WaitingRequest(t.req[l])

LEMMA WellKept ==
    ASSUME NEW s, Well(s), NEW t \in State, NEW l \in Lockers,
           OneMoves(s, t, l), CountsFollow(s, t, l), FitsIn(t, l)
    PROVE  Well(t)
  <1>1. s \in State
    BY DEF Well
  <1>2. /\ IsFiniteSet(Granted(s)) /\ IsFiniteSet(Queued(s)) /\ Granted(s) \subseteq Lockers
        /\ IsFiniteSet(Granted(t)) /\ IsFiniteSet(Queued(t)) /\ Granted(t) \subseteq Lockers
        /\ Queued(s) \subseteq Lockers
    BY <1>1, StateFacts
  <1>3. ASSUME NEW k \in Lockers \ {l}
        PROVE  /\ ModeOf(s)[k] = ModeOf(t)[k] /\ ConvertModeOf(s)[k] = ConvertModeOf(t)[k]
               /\ StatusOf(s)[k] = StatusOf(t)[k] /\ FirstOf(s)[k] = FirstOf(t)[k]
    BY ViewsOf DEF OneMoves
  <1>4. Granted(s) \ {l} = Granted(t) \ {l} /\ Queued(s) \ {l} = Queued(t) \ {l}
    BY DEF OneMoves
  <1>5. ASSUME NEW v
        PROVE  /\ Tally(Granted(t), ModeOf(t), v) = Tally(Granted(s), ModeOf(s), v)
                    - Share(Granted(s), ModeOf(s), l, v) + Share(Granted(t), ModeOf(t), l, v)
               /\ Tally(Granted(t), ConvertModeOf(t), v) = Tally(Granted(s), ConvertModeOf(s), v)
                    - Share(Granted(s), ConvertModeOf(s), l, v)
                    + Share(Granted(t), ConvertModeOf(t), l, v)
               /\ Tally(Granted(t), StatusOf(t), v) = Tally(Granted(s), StatusOf(s), v)
                    - Share(Granted(s), StatusOf(s), l, v) + Share(Granted(t), StatusOf(t), l, v)
               /\ Tally(Granted(t), FirstOf(t), v) = Tally(Granted(s), FirstOf(s), v)
                    - Share(Granted(s), FirstOf(s), l, v) + Share(Granted(t), FirstOf(t), l, v)
               /\ Tally(Queued(t), ModeOf(t), v) = Tally(Queued(s), ModeOf(s), v)
                    - Share(Queued(s), ModeOf(s), l, v) + Share(Queued(t), ModeOf(t), l, v)
    <2>1. Tally(Granted(t), ModeOf(t), v) = Tally(Granted(s), ModeOf(s), v)
            - Share(Granted(s), ModeOf(s), l, v) + Share(Granted(t), ModeOf(t), l, v)
      BY <1>2, <1>3, <1>4, TallyDiffers
    <2>2. Tally(Granted(t), ConvertModeOf(t), v) = Tally(Granted(s), ConvertModeOf(s), v)
            - Share(Granted(s), ConvertModeOf(s), l, v) + Share(Granted(t), ConvertModeOf(t), l, v)
      BY <1>2, <1>3, <1>4, TallyDiffers
    <2>3. Tally(Granted(t), StatusOf(t), v) = Tally(Granted(s), StatusOf(s), v)
            - Share(Granted(s), StatusOf(s), l, v) + Share(Granted(t), StatusOf(t), l, v)
      BY <1>2, <1>3, <1>4, TallyDiffers
    <2>4. Tally(Granted(t), FirstOf(t), v) = Tally(Granted(s), FirstOf(s), v)
            - Share(Granted(s), FirstOf(s), l, v) + Share(Granted(t), FirstOf(t), l, v)
      BY <1>2, <1>3, <1>4, TallyDiffers
    <2>5. Tally(Queued(t), ModeOf(t), v) = Tally(Queued(s), ModeOf(s), v)
            - Share(Queued(s), ModeOf(s), l, v) + Share(Queued(t), ModeOf(t), l, v)
      BY <1>2, <1>3, <1>4, TallyDiffers
    <2> QED
      BY <2>1, <2>2, <2>3, <2>4, <2>5
  <1>6. ASSUME NEW S, IsFiniteSet(S), NEW f, NEW v
        PROVE  Tally(S, f, v) \in Int
    BY <1>6, TallyFacts
  <1>7. ASSUME NEW S, NEW f, NEW v PROVE Share(S, f, l, v) \in Int
    BY DEF Share
  <1>8. Tallied(t)
    <2>1. Tallied(s)
      BY DEF Well
    <2>2. ASSUME NEW m \in Modes
          PROVE  t.lock.grantedCounts[m] = Tally(Granted(t), ModeOf(t), m)
                                             + Tally(Granted(t), ConvertModeOf(t), m)
      <3>1. s.lock.grantedCounts[m] = Tally(Granted(s), ModeOf(s), m)
                                        + Tally(Granted(s), ConvertModeOf(s), m)
        BY <2>1 DEF Tallied
      <3>2. t.lock.grantedCounts[m] = s.lock.grantedCounts[m]
              - Share(Granted(s), ModeOf(s), l, m) + Share(Granted(t), ModeOf(t), l, m)
              - Share(Granted(s), ConvertModeOf(s), l, m)
              + Share(Granted(t), ConvertModeOf(t), l, m)
        BY DEF CountsFollow
      <3>3. /\ Tally(Granted(s), ModeOf(s), m) \in Int
            /\ Tally(Granted(s), ConvertModeOf(s), m) \in Int
        BY <1>2, <1>6
      <3>4. /\ Share(Granted(s), ModeOf(s), l, m) \in Int
            /\ Share(Granted(t), ModeOf(t), l, m) \in Int
            /\ Share(Granted(s), ConvertModeOf(s), l, m) \in Int
            /\ Share(Granted(t), ConvertModeOf(t), l, m) \in Int
        BY <1>7
      <3> QED
        BY <3>1, <3>2, <3>3, <3>4, <1>5
    <2>3. ASSUME NEW m \in Modes
          PROVE  t.lock.conflictCounts[m] = Tally(Queued(t), ModeOf(t), m)
      BY <1>5, <2>1 DEF Tallied, CountsFollow
    <2>4. t.lock.conversionsCount = Tally(Granted(t), StatusOf(t), "CONVERTING")
      BY <1>5, <2>1 DEF Tallied, CountsFollow
    <2>5. t.lock.compatibleFirstCount = Tally(Granted(t), FirstOf(t), 1)
      BY <1>5, <2>1 DEF Tallied, CountsFollow
    <2> QED
      BY <2>2, <2>3, <2>4, <2>5 DEF Tallied
  <1>9. Listed(t)
    <2>1. ASSUME NEW k \in Granted(t) PROVE GrantedRequest(t.req[k])
      BY <1>2, <1>4 DEF Well, Listed, OneMoves, FitsIn
    <2>2. ASSUME NEW k \in Queued(t) PROVE WaitingRequest(t.req[k])
      BY <1>2, <1>4 DEF Well, Listed, OneMoves, FitsIn
    <2> QED
      BY <2>1, <2>2 DEF Listed, OneMoves
  <1>10. Compatible(t)
    <2> SUFFICES ASSUME NEW i \in Granted(t), NEW k \in Granted(t), i # k
                 PROVE  ~Conflicts(t.req[i].mode, {t.req[k].mode})
      BY DEF Compatible
    <2>1. t.req[i].mode \in Modes /\ t.req[k].mode \in Modes
      BY <1>9 DEF Listed, GrantedRequest
    <2>2. CASE i = l
      BY <2>2 DEF FitsIn
    <2>3. CASE k = l
      <3>1. ~Conflicts(t.req[k].mode, {t.req[i].mode})
        BY <2>3 DEF FitsIn
      <3> QED
        BY <3>1, <2>1, ModeFacts
    <2>4. CASE i # l /\ k # l
      BY <2>4, <1>2, <1>4 DEF Well, Compatible, OneMoves
    <2> QED
      BY <2>2, <2>3, <2>4
  <1> QED
    BY <1>8, <1>9, <1>10 DEF Well

\* The modes that the counts show.
LEMMA ModesShown ==
    ASSUME NEW s, Well(s)
    PROVE  /\ \A m \in Modes : m \in ModesOf(s.lock.grantedCounts) <=>
                \E k \in Granted(s) : s.req[k].mode = m \/ s.req[k].convertMode = m
           /\ \A m \in Modes : m \in ModesOf(s.lock.conflictCounts) <=>
                \E k \in Queued(s) : s.req[k].mode = m
           /\ ModesOf(s.lock.grantedCounts) \subseteq Modes
           /\ ModesOf(s.lock.conflictCounts) \subseteq Modes
  <1>1. /\ IsFiniteSet(Granted(s)) /\ IsFiniteSet(Queued(s))
        /\ Granted(s) \subseteq Lockers /\ Queued(s) \subseteq Lockers
    BY StateFacts DEF Well
  <1>2. ASSUME NEW m \in Modes
        PROVE  m \in ModesOf(s.lock.grantedCounts) <=>
                 \E k \in Granted(s) : s.req[k].mode = m \/ s.req[k].convertMode = m
    <2>1. s.lock.grantedCounts[m] = Tally(Granted(s), ModeOf(s), m)
                                      + Tally(Granted(s), ConvertModeOf(s), m)
      BY DEF Well, Tallied
    <2>2. /\ Tally(Granted(s), ModeOf(s), m) \in Nat
          /\ Tally(Granted(s), ModeOf(s), m) = 0 <=> \A k \in Granted(s) : ModeOf(s)[k] # m
          /\ Tally(Granted(s), ConvertModeOf(s), m) \in Nat
          /\ Tally(Granted(s), ConvertModeOf(s), m) = 0
               <=> \A k \in Granted(s) : ConvertModeOf(s)[k] # m
      BY <1>1, TallyFacts
    <2>3. m \in ModesOf(s.lock.grantedCounts) <=> s.lock.grantedCounts[m] > 0
      BY DEF ModesOf
    <2>4. \A k \in Granted(s) : /\ ModeOf(s)[k] = s.req[k].mode
                                /\ ConvertModeOf(s)[k] = s.req[k].convertMode
      BY <1>1, ViewsOf
    <2> QED
      BY <2>1, <2>2, <2>3, <2>4
  <1>3. ASSUME NEW m \in Modes
        PROVE  m \in ModesOf(s.lock.conflictCounts) <=>
                 \E k \in Queued(s) : s.req[k].mode = m
    <2>1. s.lock.conflictCounts[m] = Tally(Queued(s), ModeOf(s), m)
      BY DEF Well, Tallied
    <2>2. /\ Tally(Queued(s), ModeOf(s), m) \in Nat
          /\ Tally(Queued(s), ModeOf(s), m) = 0 <=> \A k \in Queued(s) : ModeOf(s)[k] # m
      BY <1>1, TallyFacts
    <2>3. m \in ModesOf(s.lock.conflictCounts) <=> s.lock.conflictCounts[m] > 0
      BY DEF ModesOf
    <2>4. \A k \in Queued(s) : ModeOf(s)[k] = s.req[k].mode
      BY <1>1, ViewsOf
    <2> QED
      BY <2>1, <2>2, <2>3, <2>4
  <1> QED
    BY <1>2, <1>3 DEF ModesOf

\* The modes that the counts show of the others on the granted list.
LEMMA OthersShown ==
    ASSUME NEW s, Well(s), NEW l \in Granted(s), NEW m \in Modes
    PROVE  /\ m \in ModesWithout(s, l) <=>
                \E k \in Granted(s) \ {l} : s.req[k].mode = m \/ s.req[k].convertMode = m
           /\ s.req[l].status = "GRANTED" =>
                (s.lock.grantedCounts[m] > (IF m = s.req[l].mode THEN 1 ELSE 0) <=>
                   \E k \in Granted(s) \ {l} : s.req[k].mode = m \/ s.req[k].convertMode = m)
  <1> DEFINE a == Tally(Granted(s) \ {l}, ModeOf(s), m)
             b == Tally(Granted(s) \ {l}, ConvertModeOf(s), m)
             r == s.req[l]
  <1>1. IsFiniteSet(Granted(s)) /\ IsFiniteSet(Granted(s) \ {l}) /\ Granted(s) \subseteq Lockers
    BY StateFacts, FS_RemoveElement DEF Well
  <1>2. /\ a \in Nat /\ (a = 0 <=> \A k \in Granted(s) \ {l} : ModeOf(s)[k] # m)
        /\ b \in Nat /\ (b = 0 <=> \A k \in Granted(s) \ {l} : ConvertModeOf(s)[k] # m)
    BY <1>1, TallyFacts
  <1>3. \A k \in Granted(s) : /\ ModeOf(s)[k] = s.req[k].mode
                              /\ ConvertModeOf(s)[k] = s.req[k].convertMode
    BY <1>1, ViewsOf
  <1>4. /\ a = Tally(Granted(s), ModeOf(s), m) - (IF r.mode = m THEN 1 ELSE 0)
        /\ b = Tally(Granted(s), ConvertModeOf(s), m) - (IF r.convertMode = m THEN 1 ELSE 0)
    <2>1. /\ a = Tally(Granted(s), ModeOf(s), m) - (IF ModeOf(s)[l] = m THEN 1 ELSE 0)
          /\ b = Tally(Granted(s), ConvertModeOf(s), m)
                   - (IF ConvertModeOf(s)[l] = m THEN 1 ELSE 0)
      BY <1>1, TallyRemove
    <2> QED
      BY <2>1, <1>3
  <1>5. s.lock.grantedCounts[m] = Tally(Granted(s), ModeOf(s), m)
                                    + Tally(Granted(s), ConvertModeOf(s), m)
    BY DEF Well, Tallied
  <1>6. /\ Tally(Granted(s), ModeOf(s), m) \in Nat
        /\ Tally(Granted(s), ConvertModeOf(s), m) \in Nat
    BY <1>1, TallyFacts
  <1>7. GrantedRequest(r)
    BY DEF Well, Listed
  <1> HIDE DEF a, b, r
  <1>8. s.lock.grantedCounts[m] = a + b + (IF r.mode = m THEN 1 ELSE 0)
                                        + (IF r.convertMode = m THEN 1 ELSE 0)
    BY <1>4, <1>5, <1>6
  <1>9. r.mode # r.convertMode
    BY <1>7 DEF GrantedRequest, Modes
  <1>10. a + b > 0 <=>
           \E k \in Granted(s) \ {l} : s.req[k].mode = m \/ s.req[k].convertMode = m
    BY <1>2, <1>3
  <1>11. m \in ModesWithout(s, l) <=> a + b > 0
    <2>1. m \in ModesWithout(s, l) <=>
            s.lock.grantedCounts[m] > IF m \in {r.mode, r.convertMode} THEN 1 ELSE 0
      BY DEF ModesWithout, r
    <2> QED
      BY <2>1, <1>2, <1>8, <1>9
  <1>12. r.status = "GRANTED" =>
           (s.lock.grantedCounts[m] > (IF m = r.mode THEN 1 ELSE 0) <=> a + b > 0)
    <2>1. r.status = "GRANTED" => r.convertMode # m
      BY <1>7 DEF GrantedRequest, Modes
    <2> QED
      BY <2>1, <1>2, <1>8
  <1> QED
    BY <1>10, <1>11, <1>12 DEF r
-----------------------------------------------------------------------------
(* The steps that lists and counts take together *)

LEMMA AgainstEither ==
    ASSUME NEW s, NEW m, NEW k
    PROVE  Against(s, m, k) <=> \/ Conflicts(m, {s.req[k].mode})
                                \/ Conflicts(m, {s.req[k].convertMode})
  <1> DEFINE a == s.req[k].mode
             b == s.req[k].convertMode
  <1>1. Against(s, m, k) <=> Conflicts(m, {a, b})
    BY DEF Against
  <1>2. Conflicts(m, {a, b}) <=> Conflicts(m, {a}) \/ Conflicts(m, {b})
    BY DEF Conflicts
  <1> QED
    BY <1>1, <1>2

\* Nobody with a granted or requested mode is in the way of m.
LEMMA NotInTheWay ==
    ASSUME NEW s, Well(s), NEW m \in Modes
    PROVE  Conflicts(m, ModesOf(s.lock.grantedCounts)) <=>
             \E k \in Granted(s) : Against(s, m, k)
  <1>1. ASSUME NEW k \in Granted(s)
        PROVE  s.req[k].mode \in Modes /\ s.req[k].convertMode \in Modes \cup {"NONE"}
    BY DEF Well, Listed, GrantedRequest
  <1>2. ASSUME NEW k \in Granted(s)
        PROVE  Against(s, m, k) <=> \/ Conflicts(m, {s.req[k].mode})
                                    \/ Conflicts(m, {s.req[k].convertMode})
    BY AgainstEither
  <1>3. Conflicts(m, ModesOf(s.lock.grantedCounts)) <=>
          \E x \in ModesOf(s.lock.grantedCounts) : Conflicts(m, {x})
    BY ConflictsOne
  <1>4. ASSUME NEW x \in ModesOf(s.lock.grantedCounts), Conflicts(m, {x})
        PROVE  \E k \in Granted(s) : Against(s, m, k)
    <2>1. PICK k \in Granted(s) : s.req[k].mode = x \/ s.req[k].convertMode = x
      BY ModesShown
    <2> QED
      BY <2>1, <1>2, <1>4
  <1>5. ASSUME NEW k \in Granted(s), Against(s, m, k)
        PROVE  \E x \in ModesOf(s.lock.grantedCounts) : Conflicts(m, {x})
    <2>1. CASE Conflicts(m, {s.req[k].mode})
      BY <2>1, <1>1, ModesShown
    <2>2. CASE Conflicts(m, {s.req[k].convertMode})
      <3>1. s.req[k].convertMode \in Modes
        BY <2>2, <1>1, ModeFacts
      <3> QED
        BY <2>2, <3>1, ModesShown
    <2> QED
      BY <2>1, <2>2, <1>2, <1>5
  <1> QED
    BY <1>3, <1>4, <1>5

\* The same without l.
LEMMA OthersNotInTheWay ==
    ASSUME NEW s, Well(s), NEW l \in Granted(s), NEW m \in Modes, NEW E,
           \A x \in Modes : x \in E <=>
             \E k \in Granted(s) \ {l} : s.req[k].mode = x \/ s.req[k].convertMode = x,
           E \subseteq Modes
    PROVE  Conflicts(m, E) <=> \E k \in Granted(s) \ {l} : Against(s, m, k)
  <1>1. ASSUME NEW k \in Granted(s)
        PROVE  s.req[k].mode \in Modes /\ s.req[k].convertMode \in Modes \cup {"NONE"}
    BY DEF Well, Listed, GrantedRequest
  <1>2. ASSUME NEW k \in Granted(s)
        PROVE  Against(s, m, k) <=> \/ Conflicts(m, {s.req[k].mode})
                                    \/ Conflicts(m, {s.req[k].convertMode})
    BY AgainstEither
  <1>3. Conflicts(m, E) <=> \E x \in E : Conflicts(m, {x})
    BY ConflictsOne
  <1>4. ASSUME NEW x \in E, Conflicts(m, {x})
        PROVE  \E k \in Granted(s) \ {l} : Against(s, m, k)
    BY <1>2, <1>4
  <1>5. ASSUME NEW k \in Granted(s) \ {l}, Against(s, m, k)
        PROVE  \E x \in E : Conflicts(m, {x})
    <2>1. CASE Conflicts(m, {s.req[k].mode})
      BY <2>1, <1>1
    <2>2. CASE Conflicts(m, {s.req[k].convertMode})
      <3>1. s.req[k].convertMode \in Modes
        BY <2>2, <1>1, ModeFacts
      <3> QED
        BY <2>2, <3>1
    <2> QED
      BY <2>1, <2>2, <1>2, <1>5
  <1> QED
    BY <1>3, <1>4, <1>5

GrantedNow(r) == [r EXCEPT !.status = "GRANTED"]

WaitsNow(r) == [r EXCEPT !.status = "WAITING"]

LEMMA GrantStep ==
    ASSUME NEW s, Well(s), NEW l \in Lockers, l \notin Granted(s), l \notin Queued(s),
           s.req[l].mode \in Modes, s.req[l].convertMode = "NONE",
           ~Conflicts(s.req[l].mode, ModesOf(s.lock.grantedCounts)),
           NEW t, t = Grant(s, l)
    PROVE  /\ Well(t)
           /\ Granted(t) = Granted(s) \cup {l}
           /\ Queued(t) = Queued(s)
           /\ t.req[l] = GrantedNow(s.req[l])
           /\ \A k \in Lockers \ {l} : t.req[k] = s.req[k]
           /\ t.lock.conflictList = s.lock.conflictList
           /\ t.lock.partitions = s.lock.partitions
  <1> DEFINE r == s.req[l]
  <1>1. s \in State /\ Once(s.lock.grantedList) /\ Once(s.lock.conflictList)
    BY DEF Well, Listed
  <1>2. /\ s.req \in [Lockers -> RequestType] /\ s.lock \in LockHeadType
        /\ s.lock.grantedList \in Seq(Lockers)
        /\ s.lock.grantedCounts \in [Modes -> Int]
        /\ s.lock.compatibleFirstCount \in Int /\ s.lock.conversionsCount \in Int
        /\ s.lock.conflictCounts \in [Modes -> Int]
    BY <1>1, StateFacts
  <1>3. r \in RequestType /\ r.compatibleFirst \in BOOLEAN
    BY <1>2 DEF RequestType
  <1>4. t.req = [s.req EXCEPT ![l].status = "GRANTED"]
    BY DEF Grant
  <1>5. /\ t.lock.grantedList = Append(s.lock.grantedList, l)
        /\ t.lock.grantedCounts = [s.lock.grantedCounts EXCEPT ![r.mode] = @ + 1]
        /\ t.lock.compatibleFirstCount = IF r.compatibleFirst THEN s.lock.compatibleFirstCount + 1
                                         ELSE s.lock.compatibleFirstCount
        /\ t.lock.conflictList = s.lock.conflictList
        /\ t.lock.conflictCounts = s.lock.conflictCounts
        /\ t.lock.conversionsCount = s.lock.conversionsCount
        /\ t.lock.partitions = s.lock.partitions
    BY <1>2 DEF Grant, IncCount, LockHeadType
  <1>6. /\ Append(s.lock.grantedList, l) \in Seq(Lockers)
        /\ Once(Append(s.lock.grantedList, l))
        /\ ToSet(Append(s.lock.grantedList, l)) = ToSet(s.lock.grantedList) \cup {l}
    BY <1>1, <1>2, AppendFacts DEF Granted
  <1>7. t.req \in [Lockers -> RequestType]
    <2>1. [r EXCEPT !.status = "GRANTED"] \in RequestType
      BY <1>3 DEF RequestType
    <2> QED
      BY <2>1, <1>2, <1>4
  <1>8. t.lock \in LockHeadType
    <2> DEFINE gl == Append(s.lock.grantedList, l)
               gc == [s.lock.grantedCounts EXCEPT ![r.mode] = @ + 1]
               cf == IF r.compatibleFirst THEN s.lock.compatibleFirstCount + 1
                     ELSE s.lock.compatibleFirstCount
    <2>1. t.lock = [s.lock EXCEPT !.grantedList = gl, !.grantedCounts = gc,
                                  !.compatibleFirstCount = cf]
      BY <1>2 DEF Grant, IncCount, LockHeadType
    <2>2. gl \in Seq(Lockers) /\ gc \in [Modes -> Int] /\ cf \in Int
      BY <1>2, <1>6
    <2> HIDE DEF gl, gc, cf
    <2> QED
      BY <2>1, <2>2, <1>2 DEF LockHeadType
  <1>9. t \in State
    BY <1>7, <1>8 DEF Grant, State
  <1>10. Granted(t) = Granted(s) \cup {l} /\ Queued(t) = Queued(s)
    BY <1>5, <1>6 DEF Granted, Queued
  <1>11. /\ t.req[l].status = "GRANTED" /\ t.req[l].mode = r.mode
         /\ t.req[l].convertMode = "NONE" /\ t.req[l].compatibleFirst = r.compatibleFirst
         /\ \A k \in Lockers \ {l} : t.req[k] = s.req[k]
    BY <1>2, <1>3, <1>4 DEF RequestType
  <1>12. OneMoves(s, t, l)
    BY <1>1, <1>5, <1>6, <1>10, <1>11 DEF OneMoves
  <1>13. CountsFollow(s, t, l)
    <2>1. /\ ModeOf(t)[l] = r.mode /\ ConvertModeOf(t)[l] = "NONE"
          /\ StatusOf(t)[l] = "GRANTED" /\ FirstOf(t)[l] = IF r.compatibleFirst THEN 1 ELSE 0
      BY <1>11, ViewsOf
    <2>2. ASSUME NEW f, NEW v
          PROVE  /\ Share(Granted(s), f, l, v) = 0 /\ Share(Queued(s), f, l, v) = 0
                 /\ Share(Queued(t), f, l, v) = 0
      BY <1>10 DEF Share
    <2>3. ASSUME NEW m \in Modes
          PROVE  /\ Share(Granted(t), ModeOf(t), l, m) = IF m = r.mode THEN 1 ELSE 0
                 /\ Share(Granted(t), ConvertModeOf(t), l, m) = 0
      BY <1>10, <2>1 DEF Share, Modes
    <2>4. /\ Share(Granted(t), StatusOf(t), l, "CONVERTING") = 0
          /\ Share(Granted(t), FirstOf(t), l, 1) = IF r.compatibleFirst THEN 1 ELSE 0
      BY <1>3, <1>10, <2>1 DEF Share
    <2>5. ASSUME NEW m \in Modes
          PROVE  t.lock.grantedCounts[m] = s.lock.grantedCounts[m] + IF m = r.mode THEN 1 ELSE 0
      BY <1>2, <1>5
    <2>6. \A m \in Modes : s.lock.grantedCounts[m] \in Int /\ s.lock.conflictCounts[m] \in Int
      BY <1>2
    <2>7. ASSUME NEW m \in Modes
          PROVE  t.lock.grantedCounts[m] = s.lock.grantedCounts[m]
                   - Share(Granted(s), ModeOf(s), l, m) + Share(Granted(t), ModeOf(t), l, m)
                   - Share(Granted(s), ConvertModeOf(s), l, m)
                   + Share(Granted(t), ConvertModeOf(t), l, m)
      BY <2>2, <2>3, <2>5, <2>6
    <2>8. ASSUME NEW m \in Modes
          PROVE  t.lock.conflictCounts[m] = s.lock.conflictCounts[m]
                   - Share(Queued(s), ModeOf(s), l, m) + Share(Queued(t), ModeOf(t), l, m)
      BY <1>5, <2>2, <2>6
    <2>9. t.lock.conversionsCount = s.lock.conversionsCount
            - Share(Granted(s), StatusOf(s), l, "CONVERTING")
            + Share(Granted(t), StatusOf(t), l, "CONVERTING")
      BY <1>2, <1>5, <2>2, <2>4
    <2>10. t.lock.compatibleFirstCount = s.lock.compatibleFirstCount
             - Share(Granted(s), FirstOf(s), l, 1) + Share(Granted(t), FirstOf(t), l, 1)
      BY <1>2, <1>3, <1>5, <2>2, <2>4
    <2> QED
      BY <2>7, <2>8, <2>9, <2>10 DEF CountsFollow
  <1>14. FitsIn(t, l)
    <2>1. GrantedRequest(t.req[l])
      BY <1>11 DEF GrantedRequest
    <2>2. ASSUME NEW k \in Granted(t) \ {l} PROVE ~Conflicts(r.mode, {t.req[k].mode})
      <3>1. k \in Granted(s) /\ k \in Lockers /\ t.req[k] = s.req[k]
        BY <1>1, <1>10, <1>11, StateFacts
      <3>2. ~Against(s, r.mode, k)
        BY <3>1, NotInTheWay
      <3> QED
        BY <3>1, <3>2, AgainstEither
    <2> QED
      BY <2>1, <2>2, <1>10, <1>11 DEF FitsIn
  <1>15. Well(t)
    BY <1>9, <1>12, <1>13, <1>14, WellKept
  <1>16. t.req[l] = GrantedNow(r)
    BY <1>2, <1>4 DEF GrantedNow
  <1> QED
    BY <1>5, <1>10, <1>11, <1>15, <1>16

LEMMA EnqueueStep ==
    ASSUME NEW s, Well(s), NEW l \in Lockers, l \notin Granted(s), l \notin Queued(s),
           s.req[l].mode \in Modes, s.req[l].convertMode = "NONE",
           NEW t, t = Enqueue(s, l)
    PROVE  /\ Well(t)
           /\ Granted(t) = Granted(s)
           /\ Queued(t) = Queued(s) \cup {l}
           /\ t.req[l] = WaitsNow(s.req[l])
           /\ \A k \in Lockers \ {l} : t.req[k] = s.req[k]
           /\ ~s.req[l].enqueueAtFront =>
                t.lock.conflictList = Append(s.lock.conflictList, l)
           /\ t.lock.partitions = s.lock.partitions
  <1> DEFINE r == s.req[l]
             list == IF r.enqueueAtFront THEN <<l>> \o s.lock.conflictList
                                         ELSE Append(s.lock.conflictList, l)
  <1>1. s \in State /\ Once(s.lock.grantedList) /\ Once(s.lock.conflictList)
    BY DEF Well, Listed
  <1>2. /\ s.req \in [Lockers -> RequestType] /\ s.lock \in LockHeadType
        /\ s.lock.conflictList \in Seq(Lockers)
        /\ s.lock.grantedCounts \in [Modes -> Int]
        /\ s.lock.compatibleFirstCount \in Int /\ s.lock.conversionsCount \in Int
        /\ s.lock.conflictCounts \in [Modes -> Int]
    BY <1>1, StateFacts
  <1>3. r \in RequestType /\ r.enqueueAtFront \in BOOLEAN
    BY <1>2 DEF RequestType
  <1>4. t.req = [s.req EXCEPT ![l].status = "WAITING"]
    BY DEF Enqueue
  <1>5. /\ t.lock.grantedList = s.lock.grantedList
        /\ t.lock.grantedCounts = s.lock.grantedCounts
        /\ t.lock.compatibleFirstCount = s.lock.compatibleFirstCount
        /\ t.lock.conflictList = list
        /\ t.lock.conflictCounts = [s.lock.conflictCounts EXCEPT ![r.mode] = @ + 1]
        /\ t.lock.conversionsCount = s.lock.conversionsCount
        /\ t.lock.partitions = s.lock.partitions
    BY <1>2 DEF Enqueue, IncCount, LockHeadType
  <1>6. list \in Seq(Lockers) /\ Once(list) /\ ToSet(list) = ToSet(s.lock.conflictList) \cup {l}
    <2>1. CASE r.enqueueAtFront
      BY <2>1, <1>1, <1>2, PrependFacts DEF Queued
    <2>2. CASE ~r.enqueueAtFront
      BY <2>2, <1>1, <1>2, AppendFacts DEF Queued
    <2> QED
      BY <2>1, <2>2
  <1>7. t.req \in [Lockers -> RequestType]
    <2>1. [r EXCEPT !.status = "WAITING"] \in RequestType
      BY <1>3 DEF RequestType
    <2> QED
      BY <2>1, <1>2, <1>4
  <1>8. t.lock \in LockHeadType
    <2> DEFINE cc == [s.lock.conflictCounts EXCEPT ![r.mode] = @ + 1]
    <2>1. t.lock = [s.lock EXCEPT !.conflictList = list, !.conflictCounts = cc]
      BY <1>2 DEF Enqueue, IncCount, LockHeadType
    <2>2. cc \in [Modes -> Int]
      BY <1>2
    <2> HIDE DEF list, cc
    <2> QED
      BY <2>1, <2>2, <1>2, <1>6 DEF LockHeadType
  <1>9. t \in State
    BY <1>7, <1>8 DEF Enqueue, State
  <1>10. Granted(t) = Granted(s) /\ Queued(t) = Queued(s) \cup {l}
    BY <1>5, <1>6 DEF Granted, Queued
  <1>11. /\ t.req[l].status = "WAITING" /\ t.req[l].mode = r.mode
         /\ t.req[l].convertMode = "NONE"
         /\ \A k \in Lockers \ {l} : t.req[k] = s.req[k]
    BY <1>2, <1>3, <1>4 DEF RequestType
  <1>12. OneMoves(s, t, l)
    BY <1>1, <1>5, <1>6, <1>10, <1>11 DEF OneMoves
  <1>13. CountsFollow(s, t, l)
    <2>1. ModeOf(t)[l] = r.mode
      BY <1>11, ViewsOf
    <2>2. ASSUME NEW f, NEW v
          PROVE  /\ Share(Granted(s), f, l, v) = 0 /\ Share(Queued(s), f, l, v) = 0
                 /\ Share(Granted(t), f, l, v) = 0
      BY <1>10 DEF Share
    <2>3. ASSUME NEW m \in Modes
          PROVE  Share(Queued(t), ModeOf(t), l, m) = IF m = r.mode THEN 1 ELSE 0
      BY <1>10, <2>1 DEF Share
    <2>4. ASSUME NEW m \in Modes
          PROVE  t.lock.conflictCounts[m] = s.lock.conflictCounts[m] + IF m = r.mode THEN 1 ELSE 0
      BY <1>2, <1>5
    <2>5. \A m \in Modes : s.lock.grantedCounts[m] \in Int /\ s.lock.conflictCounts[m] \in Int
      BY <1>2
    <2>6. ASSUME NEW m \in Modes
          PROVE  t.lock.grantedCounts[m] = s.lock.grantedCounts[m]
                   - Share(Granted(s), ModeOf(s), l, m) + Share(Granted(t), ModeOf(t), l, m)
                   - Share(Granted(s), ConvertModeOf(s), l, m)
                   + Share(Granted(t), ConvertModeOf(t), l, m)
      BY <1>5, <2>2, <2>5
    <2>7. ASSUME NEW m \in Modes
          PROVE  t.lock.conflictCounts[m] = s.lock.conflictCounts[m]
                   - Share(Queued(s), ModeOf(s), l, m) + Share(Queued(t), ModeOf(t), l, m)
      BY <2>2, <2>3, <2>4, <2>5
    <2>8. t.lock.conversionsCount = s.lock.conversionsCount
            - Share(Granted(s), StatusOf(s), l, "CONVERTING")
            + Share(Granted(t), StatusOf(t), l, "CONVERTING")
      BY <1>2, <1>5, <2>2
    <2>9. t.lock.compatibleFirstCount = s.lock.compatibleFirstCount
            - Share(Granted(s), FirstOf(s), l, 1) + Share(Granted(t), FirstOf(t), l, 1)
      BY <1>2, <1>5, <2>2
    <2> QED
      BY <2>6, <2>7, <2>8, <2>9 DEF CountsFollow
  <1>14. FitsIn(t, l)
    BY <1>10, <1>11 DEF FitsIn, WaitingRequest
  <1>15. Well(t)
    BY <1>9, <1>12, <1>13, <1>14, WellKept
  <1>16. t.req[l] = WaitsNow(r)
    BY <1>2, <1>4 DEF WaitsNow
  <1> QED
    BY <1>5, <1>10, <1>11, <1>15, <1>16

\* s after request l has left the queue, and after it has left the granted list.
Dequeued(s, l) ==
    [req  |-> s.req,
     lock |-> [s.lock EXCEPT !.conflictList = Unlink(@, l),
                             !.conflictCounts = DecCount(@, s.req[l].mode)]]

Released(s, l) ==
    [req  |-> s.req,
     lock |-> [s.lock EXCEPT !.grantedList = Unlink(@, l),
                             !.grantedCounts = DecCount(@, s.req[l].mode),
                             !.compatibleFirstCount =
                                 IF s.req[l].compatibleFirst THEN @ - 1 ELSE @]]

LEMMA Decremented ==
    ASSUME NEW counts \in [Modes -> Int], NEW m \in Modes
    PROVE  DecCount(counts, m) \in [Modes -> Int]
  BY DEF DecCount

LEMMA DequeueStep ==
    ASSUME NEW s, Well(s), NEW l \in Queued(s), NEW t, t = Dequeued(s, l)
    PROVE  /\ Well(t)
           /\ Granted(t) = Granted(s)
           /\ Queued(t) = Queued(s) \ {l}
           /\ t.req = s.req
           /\ t.lock.grantedList = s.lock.grantedList
           /\ t.lock.conflictList = Unlink(s.lock.conflictList, l)
           /\ t.lock.grantedCounts = s.lock.grantedCounts
           /\ t.lock.compatibleFirstCount = s.lock.compatibleFirstCount
           /\ t.lock.partitions = s.lock.partitions
  <1> DEFINE r == s.req[l]
             list == Unlink(s.lock.conflictList, l)
             cc == DecCount(s.lock.conflictCounts, r.mode)
  <1>1. s \in State /\ Once(s.lock.grantedList) /\ Once(s.lock.conflictList)
    BY DEF Well, Listed
  <1>2. /\ s.req \in [Lockers -> RequestType] /\ s.lock \in LockHeadType
        /\ s.lock.conflictList \in Seq(Lockers)
        /\ s.lock.grantedCounts \in [Modes -> Int]
        /\ s.lock.compatibleFirstCount \in Int /\ s.lock.conversionsCount \in Int
        /\ s.lock.conflictCounts \in [Modes -> Int] /\ l \in Lockers
    BY <1>1, StateFacts
  <1>3. l \notin Granted(s) /\ r.mode \in Modes
    BY DEF Well, Listed, GrantedRequest, WaitingRequest
  <1>4. list \in Seq(Lockers) /\ Once(list) /\ ToSet(list) = ToSet(s.lock.conflictList) \ {l}
    BY <1>1, <1>2, UnlinkFacts DEF Queued
  <1>5. cc \in [Modes -> Int]
    BY <1>2, <1>3, Decremented
  <1>6. t.lock = [s.lock EXCEPT !.conflictList = list, !.conflictCounts = cc] /\ t.req = s.req
    BY <1>2 DEF Dequeued
  <1> HIDE DEF list, cc
  <1>7. /\ t.lock.grantedList = s.lock.grantedList
        /\ t.lock.grantedCounts = s.lock.grantedCounts
        /\ t.lock.compatibleFirstCount = s.lock.compatibleFirstCount
        /\ t.lock.conflictList = list
        /\ t.lock.conflictCounts = cc
        /\ t.lock.conversionsCount = s.lock.conversionsCount
        /\ t.lock.partitions = s.lock.partitions
    BY <1>2, <1>6 DEF LockHeadType
  <1>8. t.lock \in LockHeadType
    BY <1>2, <1>4, <1>5, <1>6 DEF LockHeadType
  <1>9. t \in State
    <2>1. t = [req |-> t.req, lock |-> t.lock]
      BY DEF Dequeued
    <2> QED
      BY <2>1, <1>2, <1>6, <1>8 DEF State
  <1>10. Granted(t) = Granted(s) /\ Queued(t) = Queued(s) \ {l}
    BY <1>7, <1>4 DEF Granted, Queued
  <1>12. OneMoves(s, t, l)
    BY <1>1, <1>4, <1>6, <1>7, <1>10 DEF OneMoves
  <1>13. CountsFollow(s, t, l)
    <2>1. ModeOf(s)[l] = r.mode
      BY <1>2, ViewsOf
    <2>2. ASSUME NEW f, NEW v
          PROVE  /\ Share(Granted(s), f, l, v) = 0 /\ Share(Granted(t), f, l, v) = 0
                 /\ Share(Queued(t), f, l, v) = 0
      BY <1>3, <1>10 DEF Share
    <2>3. ASSUME NEW m \in Modes
          PROVE  Share(Queued(s), ModeOf(s), l, m) = IF m = r.mode THEN 1 ELSE 0
      BY <2>1 DEF Share
    <2>4. ASSUME NEW m \in Modes
          PROVE  t.lock.conflictCounts[m] = s.lock.conflictCounts[m] - IF m = r.mode THEN 1 ELSE 0
      BY <1>2, <1>7 DEF cc, DecCount
    <2>5. \A m \in Modes : s.lock.grantedCounts[m] \in Int /\ s.lock.conflictCounts[m] \in Int
      BY <1>2
    <2>6. ASSUME NEW m \in Modes
          PROVE  t.lock.grantedCounts[m] = s.lock.grantedCounts[m]
                   - Share(Granted(s), ModeOf(s), l, m) + Share(Granted(t), ModeOf(t), l, m)
                   - Share(Granted(s), ConvertModeOf(s), l, m)
                   + Share(Granted(t), ConvertModeOf(t), l, m)
      BY <1>7, <2>2, <2>5
    <2>7. ASSUME NEW m \in Modes
          PROVE  t.lock.conflictCounts[m] = s.lock.conflictCounts[m]
                   - Share(Queued(s), ModeOf(s), l, m) + Share(Queued(t), ModeOf(t), l, m)
      BY <2>2, <2>3, <2>4, <2>5
    <2>8. t.lock.conversionsCount = s.lock.conversionsCount
            - Share(Granted(s), StatusOf(s), l, "CONVERTING")
            + Share(Granted(t), StatusOf(t), l, "CONVERTING")
      BY <1>2, <1>7, <2>2
    <2>9. t.lock.compatibleFirstCount = s.lock.compatibleFirstCount
            - Share(Granted(s), FirstOf(s), l, 1) + Share(Granted(t), FirstOf(t), l, 1)
      BY <1>2, <1>7, <2>2
    <2> QED
      BY <2>6, <2>7, <2>8, <2>9 DEF CountsFollow
  <1>14. FitsIn(t, l)
    BY <1>3, <1>10 DEF FitsIn
  <1>15. Well(t)
    BY <1>2, <1>9, <1>12, <1>13, <1>14, WellKept
  <1> QED
    BY <1>6, <1>7, <1>10, <1>15 DEF list

LEMMA ReleaseStep ==
    ASSUME NEW s, Well(s), NEW l \in Granted(s), s.req[l].status = "GRANTED",
           NEW t, t = Released(s, l)
    PROVE  /\ Well(t)
           /\ t.req = s.req
           /\ Granted(t) = Granted(s) \ {l}
           /\ Queued(t) = Queued(s)
           /\ t.lock.conflictList = s.lock.conflictList
           /\ t.lock.grantedCounts = DecCount(s.lock.grantedCounts, s.req[l].mode)
           /\ t.lock.partitions = s.lock.partitions
  <1> DEFINE r == s.req[l]
             list == Unlink(s.lock.grantedList, l)
             gc == DecCount(s.lock.grantedCounts, r.mode)
             cf == IF r.compatibleFirst THEN s.lock.compatibleFirstCount - 1
                                        ELSE s.lock.compatibleFirstCount
  <1>1. s \in State /\ Once(s.lock.grantedList) /\ Once(s.lock.conflictList)
    BY DEF Well, Listed
  <1>2. /\ s.req \in [Lockers -> RequestType] /\ s.lock \in LockHeadType
        /\ s.lock.grantedList \in Seq(Lockers)
        /\ s.lock.grantedCounts \in [Modes -> Int]
        /\ s.lock.compatibleFirstCount \in Int /\ s.lock.conversionsCount \in Int
        /\ s.lock.conflictCounts \in [Modes -> Int] /\ l \in Lockers
    BY <1>1, StateFacts
  <1>3. l \notin Queued(s) /\ r.mode \in Modes /\ r.convertMode = "NONE"
    BY DEF Well, Listed, GrantedRequest, WaitingRequest
  <1>4. list \in Seq(Lockers) /\ Once(list) /\ ToSet(list) = ToSet(s.lock.grantedList) \ {l}
    BY <1>1, <1>2, UnlinkFacts DEF Granted
  <1>5. gc \in [Modes -> Int] /\ cf \in Int
    <2>1. gc \in [Modes -> Int]
      BY <1>2, <1>3, Decremented
    <2>2. cf \in Int
      BY <1>2
    <2> QED
      BY <2>1, <2>2
  <1>6. t.lock = [s.lock EXCEPT !.grantedList = list, !.grantedCounts = gc,
                                !.compatibleFirstCount = cf] /\ t.req = s.req
    BY <1>2 DEF Released
  <1> HIDE DEF list, gc, cf
  <1>7. /\ t.lock.grantedList = list
        /\ t.lock.grantedCounts = gc
        /\ t.lock.compatibleFirstCount = cf
        /\ t.lock.conflictList = s.lock.conflictList
        /\ t.lock.conflictCounts = s.lock.conflictCounts
        /\ t.lock.conversionsCount = s.lock.conversionsCount
        /\ t.lock.partitions = s.lock.partitions
    BY <1>2, <1>6 DEF LockHeadType
  <1>8. t.lock \in LockHeadType
    BY <1>2, <1>4, <1>5, <1>6 DEF LockHeadType
  <1>9. t \in State
    <2>1. t = [req |-> t.req, lock |-> t.lock]
      BY DEF Released
    <2> QED
      BY <2>1, <1>2, <1>6, <1>8 DEF State
  <1>10. Granted(t) = Granted(s) \ {l} /\ Queued(t) = Queued(s)
    BY <1>7, <1>4 DEF Granted, Queued
  <1>12. OneMoves(s, t, l)
    BY <1>1, <1>4, <1>6, <1>7, <1>10 DEF OneMoves
  <1>13. CountsFollow(s, t, l)
    <2>1. /\ ModeOf(s)[l] = r.mode /\ ConvertModeOf(s)[l] = "NONE"
          /\ StatusOf(s)[l] = "GRANTED" /\ FirstOf(s)[l] = IF r.compatibleFirst THEN 1 ELSE 0
      BY <1>2, <1>3, ViewsOf
    <2>2. ASSUME NEW f, NEW v
          PROVE  /\ Share(Granted(t), f, l, v) = 0 /\ Share(Queued(s), f, l, v) = 0
                 /\ Share(Queued(t), f, l, v) = 0
      BY <1>3, <1>10 DEF Share
    <2>3. ASSUME NEW m \in Modes
          PROVE  /\ Share(Granted(s), ModeOf(s), l, m) = IF m = r.mode THEN 1 ELSE 0
                 /\ Share(Granted(s), ConvertModeOf(s), l, m) = 0
      BY <2>1 DEF Share, Modes
    <2>4. /\ Share(Granted(s), StatusOf(s), l, "CONVERTING") = 0
          /\ Share(Granted(s), FirstOf(s), l, 1) = IF r.compatibleFirst THEN 1 ELSE 0
      BY <2>1 DEF Share
    <2>5. ASSUME NEW m \in Modes
          PROVE  t.lock.grantedCounts[m] = s.lock.grantedCounts[m] - IF m = r.mode THEN 1 ELSE 0
      BY <1>2, <1>7 DEF gc, DecCount
    <2>6. \A m \in Modes : s.lock.grantedCounts[m] \in Int /\ s.lock.conflictCounts[m] \in Int
      BY <1>2
    <2>7. ASSUME NEW m \in Modes
          PROVE  t.lock.grantedCounts[m] = s.lock.grantedCounts[m]
                   - Share(Granted(s), ModeOf(s), l, m) + Share(Granted(t), ModeOf(t), l, m)
                   - Share(Granted(s), ConvertModeOf(s), l, m)
                   + Share(Granted(t), ConvertModeOf(t), l, m)
      BY <2>2, <2>3, <2>5, <2>6
    <2>8. ASSUME NEW m \in Modes
          PROVE  t.lock.conflictCounts[m] = s.lock.conflictCounts[m]
                   - Share(Queued(s), ModeOf(s), l, m) + Share(Queued(t), ModeOf(t), l, m)
      BY <1>7, <2>2, <2>6
    <2>9. t.lock.conversionsCount = s.lock.conversionsCount
            - Share(Granted(s), StatusOf(s), l, "CONVERTING")
            + Share(Granted(t), StatusOf(t), l, "CONVERTING")
      BY <1>2, <1>7, <2>2, <2>4
    <2>10. t.lock.compatibleFirstCount = s.lock.compatibleFirstCount
             - Share(Granted(s), FirstOf(s), l, 1) + Share(Granted(t), FirstOf(t), l, 1)
      BY <1>2, <1>7, <2>2, <2>4 DEF cf
    <2> QED
      BY <2>7, <2>8, <2>9, <2>10 DEF CountsFollow
  <1>14. FitsIn(t, l)
    BY <1>3, <1>10 DEF FitsIn
  <1>15. Well(t)
    BY <1>2, <1>9, <1>12, <1>13, <1>14, WellKept
  <1> QED
    BY <1>6, <1>7, <1>10, <1>15 DEF gc

Unit(p) == IF p THEN 1 ELSE 0

LEMMA Recounted ==
    ASSUME NEW h \in LockHeadType, NEW gc \in [Modes -> Int], NEW cv \in Int
    PROVE  [h EXCEPT !.grantedCounts = gc, !.conversionsCount = cv] \in LockHeadType
  BY DEF LockHeadType

\* t is s after l's request has become rr, and the counts gc and cv.
Rewritten(s, t, l, rr, gc, cv) ==
    t = [req |-> [s.req EXCEPT ![l] = rr],
         lock |-> [s.lock EXCEPT !.grantedCounts = gc, !.conversionsCount = cv]]

\* gc and cv count rr in the place of l's request.
Recounts(s, l, rr, gc, cv) ==
    /\ \A m \in Modes : gc[m] = s.lock.grantedCounts[m]
         - Unit(s.req[l].mode = m) + Unit(rr.mode = m)
         - Unit(s.req[l].convertMode = m) + Unit(rr.convertMode = m)
    /\ cv = s.lock.conversionsCount - Unit(s.req[l].status = "CONVERTING")
                                    + Unit(rr.status = "CONVERTING")

Remoded(s, t, l, rr, gc, cv) ==
    Rewritten(s, t, l, rr, gc, cv) /\ Recounts(s, l, rr, gc, cv)

\* rr may take the place of l's granted request.
Suits(s, l, rr) ==
    /\ rr \in RequestType
    /\ GrantedRequest(rr)
    /\ rr.compatibleFirst = s.req[l].compatibleFirst
    /\ \A k \in Granted(s) \ {l} : ~Conflicts(rr.mode, {s.req[k].mode})

\* A granted request changes its mode: a conversion or a downgrade.
LEMMA RemodeStep ==
    ASSUME NEW s, Well(s), NEW l \in Granted(s), NEW rr, Suits(s, l, rr),
           NEW gc \in [Modes -> Int], NEW cv \in Int, NEW t, Remoded(s, t, l, rr, gc, cv)
    PROVE  /\ Well(t)
           /\ t.lock.grantedList = s.lock.grantedList
           /\ t.lock.conflictList = s.lock.conflictList
           /\ t.lock.partitions = s.lock.partitions
  <1> DEFINE r == s.req[l]
  <1>1. s \in State /\ Once(s.lock.grantedList) /\ Once(s.lock.conflictList)
    BY DEF Well, Listed
  <1>2. /\ s.req \in [Lockers -> RequestType] /\ s.lock \in LockHeadType
        /\ s.lock.grantedList \in Seq(Lockers)
        /\ s.lock.grantedCounts \in [Modes -> Int]
        /\ s.lock.compatibleFirstCount \in Int /\ s.lock.conversionsCount \in Int
        /\ s.lock.conflictCounts \in [Modes -> Int] /\ l \in Lockers
        /\ Granted(s) \subseteq Lockers
    BY <1>1, StateFacts
  <1>3. l \notin Queued(s)
    BY DEF Well, Listed, GrantedRequest, WaitingRequest
  <1>6. /\ t.lock = [s.lock EXCEPT !.grantedCounts = gc, !.conversionsCount = cv]
        /\ t.req = [s.req EXCEPT ![l] = rr] /\ t = [req |-> t.req, lock |-> t.lock]
    BY DEF Remoded, Rewritten
  <1>7. /\ t.lock.grantedList = s.lock.grantedList
        /\ t.lock.grantedCounts = gc
        /\ t.lock.compatibleFirstCount = s.lock.compatibleFirstCount
        /\ t.lock.conflictList = s.lock.conflictList
        /\ t.lock.conflictCounts = s.lock.conflictCounts
        /\ t.lock.conversionsCount = cv
        /\ t.lock.partitions = s.lock.partitions
    BY <1>2, <1>6 DEF LockHeadType
  <1>8. t.lock \in LockHeadType
    <2>1. [s.lock EXCEPT !.grantedCounts = gc, !.conversionsCount = cv] \in LockHeadType
      BY <1>2, Recounted, Zenon
    <2> QED
      BY <2>1, <1>6
  <1>9. t \in State
    <2>1. t.req \in [Lockers -> RequestType]
      BY <1>2, <1>6 DEF Suits
    <2> QED
      BY <2>1, <1>6, <1>8 DEF State
  <1>10. Granted(t) = Granted(s) /\ Queued(t) = Queued(s)
    BY <1>7 DEF Granted, Queued
  <1>11. t.req[l] = rr /\ \A k \in Lockers \ {l} : t.req[k] = s.req[k]
    BY <1>2, <1>6
  <1>12. OneMoves(s, t, l)
    BY <1>1, <1>7, <1>10, <1>11 DEF OneMoves
  <1>13. CountsFollow(s, t, l)
    <2>1. /\ ModeOf(s)[l] = r.mode /\ ConvertModeOf(s)[l] = r.convertMode
          /\ StatusOf(s)[l] = r.status /\ FirstOf(s)[l] = IF r.compatibleFirst THEN 1 ELSE 0
          /\ ModeOf(t)[l] = rr.mode /\ ConvertModeOf(t)[l] = rr.convertMode
          /\ StatusOf(t)[l] = rr.status /\ FirstOf(t)[l] = FirstOf(s)[l]
      BY <1>2, <1>11, ViewsOf DEF Suits
    <2>2. ASSUME NEW f, NEW v
          PROVE  Share(Queued(s), f, l, v) = 0 /\ Share(Queued(t), f, l, v) = 0
      BY <1>3, <1>10 DEF Share
    <2>3. ASSUME NEW m \in Modes
          PROVE  /\ Share(Granted(s), ModeOf(s), l, m) = Unit(r.mode = m)
                 /\ Share(Granted(s), ConvertModeOf(s), l, m) = Unit(r.convertMode = m)
                 /\ Share(Granted(t), ModeOf(t), l, m) = Unit(rr.mode = m)
                 /\ Share(Granted(t), ConvertModeOf(t), l, m) = Unit(rr.convertMode = m)
      BY <1>10, <2>1 DEF Share, Unit
    <2>4. /\ Share(Granted(s), StatusOf(s), l, "CONVERTING") = Unit(r.status = "CONVERTING")
          /\ Share(Granted(t), StatusOf(t), l, "CONVERTING") = Unit(rr.status = "CONVERTING")
          /\ Share(Granted(t), FirstOf(t), l, 1) = Share(Granted(s), FirstOf(s), l, 1)
          /\ Share(Granted(s), FirstOf(s), l, 1) \in {0, 1}
      BY <1>10, <2>1 DEF Share, Unit
    <2>5. Recounts(s, l, rr, gc, cv)
      BY DEF Remoded
    <2>6. \A m \in Modes : s.lock.grantedCounts[m] \in Int /\ s.lock.conflictCounts[m] \in Int
      BY <1>2
    <2>7. ASSUME NEW m \in Modes
          PROVE  t.lock.grantedCounts[m] = s.lock.grantedCounts[m]
                   - Share(Granted(s), ModeOf(s), l, m) + Share(Granted(t), ModeOf(t), l, m)
                   - Share(Granted(s), ConvertModeOf(s), l, m)
                   + Share(Granted(t), ConvertModeOf(t), l, m)
      BY <1>7, <2>3, <2>5 DEF Recounts
    <2>8. ASSUME NEW m \in Modes
          PROVE  t.lock.conflictCounts[m] = s.lock.conflictCounts[m]
                   - Share(Queued(s), ModeOf(s), l, m) + Share(Queued(t), ModeOf(t), l, m)
      BY <1>7, <2>2, <2>6
    <2>9. t.lock.conversionsCount = s.lock.conversionsCount
            - Share(Granted(s), StatusOf(s), l, "CONVERTING")
            + Share(Granted(t), StatusOf(t), l, "CONVERTING")
      BY <1>7, <2>4, <2>5 DEF Recounts
    <2>10. t.lock.compatibleFirstCount = s.lock.compatibleFirstCount
             - Share(Granted(s), FirstOf(s), l, 1) + Share(Granted(t), FirstOf(t), l, 1)
      BY <1>2, <1>7, <2>4
    <2> QED
      BY <2>7, <2>8, <2>9, <2>10 DEF CountsFollow
  <1>14. FitsIn(t, l)
    BY <1>2, <1>3, <1>10, <1>11 DEF FitsIn, Suits
  <1>15. Well(t)
    BY <1>2, <1>9, <1>12, <1>13, <1>14, WellKept
  <1> QED
    BY <1>6, <1>7, <1>15

\* Other fields of the requests, and the list of partitions, do not matter.
LEMMA WellSame ==
    ASSUME NEW s, Well(s), NEW t \in State,
           t.lock.grantedList = s.lock.grantedList,
           t.lock.conflictList = s.lock.conflictList,
           t.lock.grantedCounts = s.lock.grantedCounts,
           t.lock.conflictCounts = s.lock.conflictCounts,
           t.lock.conversionsCount = s.lock.conversionsCount,
           t.lock.compatibleFirstCount = s.lock.compatibleFirstCount,
           \A k \in Granted(s) \cup Queued(s) :
             /\ t.req[k].status = s.req[k].status
             /\ t.req[k].mode = s.req[k].mode
             /\ t.req[k].convertMode = s.req[k].convertMode
             /\ t.req[k].compatibleFirst = s.req[k].compatibleFirst
    PROVE  Well(t) /\ Granted(t) = Granted(s) /\ Queued(t) = Queued(s)
  <1>1. Granted(t) = Granted(s) /\ Queued(t) = Queued(s)
    BY DEF Granted, Queued
  <1>2. Granted(s) \subseteq Lockers /\ Queued(s) \subseteq Lockers
    BY StateFacts DEF Well
  <1>3. \A k \in Granted(s) \cup Queued(s) :
          /\ ModeOf(t)[k] = ModeOf(s)[k] /\ ConvertModeOf(t)[k] = ConvertModeOf(s)[k]
          /\ StatusOf(t)[k] = StatusOf(s)[k] /\ FirstOf(t)[k] = FirstOf(s)[k]
    BY <1>2, ViewsOf
  <1>4. ASSUME NEW v
        PROVE  /\ Tally(Granted(t), ModeOf(t), v) = Tally(Granted(s), ModeOf(s), v)
               /\ Tally(Granted(t), ConvertModeOf(t), v) = Tally(Granted(s), ConvertModeOf(s), v)
               /\ Tally(Granted(t), StatusOf(t), v) = Tally(Granted(s), StatusOf(s), v)
               /\ Tally(Granted(t), FirstOf(t), v) = Tally(Granted(s), FirstOf(s), v)
               /\ Tally(Queued(t), ModeOf(t), v) = Tally(Queued(s), ModeOf(s), v)
    BY <1>1, <1>3, TallySame
  <1>5. Tallied(t)
    BY <1>4 DEF Well, Tallied
  <1>6. Listed(t)
    BY <1>1 DEF Well, Listed, GrantedRequest, WaitingRequest
  <1>7. Compatible(t)
    BY <1>1 DEF Well, Compatible
  <1> QED
    BY <1>1, <1>5, <1>6, <1>7 DEF Well
-----------------------------------------------------------------------------
(* _onLockModeChanged *)

\* A request is left alone, or granted what it asked for.
Moved(r, rr) ==
    \/ rr = r
    \/ /\ r.status = "WAITING"
       /\ rr = [r EXCEPT !.status = "GRANTED"]
    \/ /\ r.status = "CONVERTING"
       /\ rr = [r EXCEPT !.status = "GRANTED", !.mode = r.convertMode,
                         !.convertMode = "NONE"]

\* What _onLockModeChanged and each of its iterations may do.
Serves(s, t) ==
    /\ Well(t)
    /\ Granted(s) \subseteq Granted(t)
    /\ Granted(t) \cup Queued(t) = Granted(s) \cup Queued(s)
    /\ \A l \in Lockers : Moved(s.req[l], t.req[l])
    /\ \A l \in Lockers \ (Granted(s) \cup Queued(s)) : t.req[l] = s.req[l]
    /\ t.lock.partitions = s.lock.partitions

LEMMA MovedFields ==
    ASSUME NEW r \in RequestType, NEW rr, Moved(r, rr)
    PROVE  /\ rr.recursiveCount = r.recursiveCount /\ rr.partitioned = r.partitioned
           /\ rr.enqueueAtFront = r.enqueueAtFront /\ rr.compatibleFirst = r.compatibleFirst
           /\ \/ rr = r
              \/ r.status \in {"WAITING", "CONVERTING"} /\ rr.status = "GRANTED"
           /\ \/ rr.mode = r.mode /\ rr.convertMode = r.convertMode
              \/ /\ r.status = "CONVERTING"
                 /\ rr.mode = r.convertMode /\ rr.convertMode = "NONE"
  BY DEF Moved, RequestType

LEMMA MovedTwice ==
    ASSUME NEW r \in RequestType, NEW r1, NEW r2, Moved(r, r1), Moved(r1, r2)
    PROVE  Moved(r, r2)
  <1>1. CASE r1 = r
    BY <1>1
  <1>2. CASE r1 # r
    <2>1. r1.status = "GRANTED"
      BY <1>2, MovedFields
    <2> QED
      BY <2>1 DEF Moved
  <1> QED
    BY <1>1, <1>2

LEMMA ServesTwice ==
    ASSUME NEW s, NEW t, NEW u, Well(s), Serves(s, t), Serves(t, u)
    PROVE  Serves(s, u)
  <1>1. s.req \in [Lockers -> RequestType]
    BY StateFacts DEF Well
  <1>2. ASSUME NEW l \in Lockers PROVE Moved(s.req[l], u.req[l])
    BY <1>1, MovedTwice DEF Serves
  <1> QED
    BY <1>2 DEF Serves

LEMMA ServesNothing ==
    ASSUME NEW s, Well(s)
    PROVE  Serves(s, s)
  BY DEF Serves, Moved

\* Whoever stood in the way still does.
LEMMA StillAgainst ==
    ASSUME NEW s, NEW t, Well(s), Serves(s, t), NEW m \in Modes,
           NEW k \in Granted(s), Against(s, m, k)
    PROVE  k \in Granted(t) /\ Against(t, m, k)
  <1>1. k \in Lockers /\ s.req[k] \in RequestType
    BY StateFacts DEF Well
  <1>2. GrantedRequest(s.req[k])
    BY DEF Well, Listed
  <1>3. CASE t.req[k].mode = s.req[k].mode /\ t.req[k].convertMode = s.req[k].convertMode
    BY <1>3 DEF Against, Serves
  <1>4. CASE /\ s.req[k].status = "CONVERTING"
             /\ t.req[k].mode = s.req[k].convertMode /\ t.req[k].convertMode = "NONE"
    <2>1. /\ s.req[k].mode \in Modes /\ s.req[k].convertMode \in Modes
          /\ ModeCovered(s.req[k].mode, s.req[k].convertMode)
      BY <1>2, <1>4 DEF GrantedRequest
    <2>2. Conflicts(m, {s.req[k].mode}) \/ Conflicts(m, {s.req[k].convertMode})
      BY AgainstEither
    <2>3. Conflicts(m, {t.req[k].mode})
      BY <1>4, <2>1, <2>2, ModeFacts
    <2> QED
      BY <2>3, AgainstEither DEF Serves
  <1> QED
    BY <1>1, <1>3, <1>4, MovedFields DEF Serves

LEMMA ConversionStep ==
    ASSUME NEW s, Well(s), NEW l \in Granted(s), NEW t, t = GrantConversion(s, l)
    PROVE  /\ Serves(s, t)
           /\ t.lock.grantedList = s.lock.grantedList
           /\ t.lock.conflictList = s.lock.conflictList
           /\ \A k \in Lockers \ {l} : t.req[k] = s.req[k]
           /\ t.req[l].status = "CONVERTING" =>
                \E k \in Granted(t) \ {l} : Against(t, t.req[l].convertMode, k)
  <1> DEFINE r == s.req[l]
             rr == [r EXCEPT !.status = "GRANTED", !.mode = r.convertMode,
                             !.convertMode = "NONE"]
             gc == DecCount(s.lock.grantedCounts, r.mode)
             cv == s.lock.conversionsCount - 1
             may == /\ s.lock.conversionsCount > 0
                    /\ r.status = "CONVERTING"
                    /\ ~Conflicts(r.convertMode, ModesWithout(s, l))
  <1>1. /\ s \in State /\ s.req \in [Lockers -> RequestType] /\ s.lock \in LockHeadType
        /\ s.lock.grantedCounts \in [Modes -> Int] /\ s.lock.conversionsCount \in Int
        /\ Granted(s) \subseteq Lockers /\ l \in Lockers /\ IsFiniteSet(Granted(s))
    BY StateFacts DEF Well
  <1>2. GrantedRequest(r) /\ r \in RequestType
    BY <1>1 DEF Well, Listed
  <1>3. r.status = "CONVERTING" =>
          (Conflicts(r.convertMode, ModesWithout(s, l)) <=>
             \E k \in Granted(s) \ {l} : Against(s, r.convertMode, k))
    <2>1. \A m \in Modes : m \in ModesWithout(s, l) <=>
            \E k \in Granted(s) \ {l} : s.req[k].mode = m \/ s.req[k].convertMode = m
      BY OthersShown
    <2>2. ModesWithout(s, l) \subseteq Modes
      BY DEF ModesWithout
    <2>3. r.status = "CONVERTING" => r.convertMode \in Modes
      BY <1>2 DEF GrantedRequest
    <2> QED
      BY <2>1, <2>2, <2>3, OthersNotInTheWay
  <1>4. CASE ~may
    <2>1. t = s
      BY <1>4 DEF GrantConversion
    <2>2. ASSUME r.status = "CONVERTING" PROVE s.lock.conversionsCount > 0
      <3>1. s.lock.conversionsCount = Tally(Granted(s), StatusOf(s), "CONVERTING")
        BY DEF Well, Tallied
      <3>2. /\ Tally(Granted(s), StatusOf(s), "CONVERTING") \in Nat
            /\ Tally(Granted(s), StatusOf(s), "CONVERTING") = 0 <=>
                 \A k \in Granted(s) : StatusOf(s)[k] # "CONVERTING"
        BY <1>1, TallyFacts
      <3>3. StatusOf(s)[l] = "CONVERTING"
        BY <1>1, <2>2, ViewsOf
      <3> QED
        BY <3>1, <3>2, <3>3
    <2>3. Serves(s, s)
      BY ServesNothing
    <2> QED
      BY <1>3, <1>4, <2>1, <2>2, <2>3
  <1>5. CASE may
    <2>1. r.mode \in Modes /\ r.convertMode \in Modes /\ r.status = "CONVERTING"
      BY <1>2, <1>5 DEF GrantedRequest
    <2>2. rr \in RequestType
      BY <1>2, <2>1 DEF RequestType
    <2>3. /\ rr.mode = r.convertMode /\ rr.convertMode = "NONE" /\ rr.status = "GRANTED"
          /\ rr.compatibleFirst = r.compatibleFirst
      BY <1>2 DEF RequestType
    <2>4. GrantedRequest(rr)
      BY <2>1, <2>3 DEF GrantedRequest
    <2>5. ASSUME NEW k \in Granted(s) \ {l} PROVE ~Conflicts(rr.mode, {s.req[k].mode})
      BY <1>3, <1>5, <2>1, <2>3, AgainstEither
    <2>6. gc \in [Modes -> Int] /\ cv \in Int
      BY <1>1, <2>1, Decremented
    <2>7. /\ t.req = [s.req EXCEPT ![l] = rr]
          /\ t.lock = [s.lock EXCEPT !.grantedCounts = gc, !.conversionsCount = cv]
          /\ t = [req |-> t.req, lock |-> t.lock]
      BY <1>1, <1>2, <1>5 DEF GrantConversion, LockHeadType, RequestType
    <2>8. ASSUME NEW m \in Modes
          PROVE  gc[m] = s.lock.grantedCounts[m] - Unit(r.mode = m) + Unit(rr.mode = m)
                           - Unit(r.convertMode = m) + Unit(rr.convertMode = m)
      <3>1. gc[m] = s.lock.grantedCounts[m] - Unit(r.mode = m) /\ s.lock.grantedCounts[m] \in Int
        BY <1>1 DEF DecCount, Unit
      <3>2. Unit(rr.mode = m) = Unit(r.convertMode = m) /\ Unit(rr.convertMode = m) = 0
        BY <2>3 DEF Unit, Modes
      <3>3. Unit(r.mode = m) \in Int /\ Unit(r.convertMode = m) \in Int
        BY DEF Unit
      <3> HIDE DEF r, rr, gc
      <3> QED
        BY <3>1, <3>2, <3>3
    <2>9. cv = s.lock.conversionsCount - Unit(r.status = "CONVERTING")
                                       + Unit(rr.status = "CONVERTING")
      BY <1>1, <2>1, <2>3 DEF Unit
    <2> HIDE DEF rr, gc, cv
    <2>10. Remoded(s, t, l, rr, gc, cv)
      BY <2>7, <2>8, <2>9 DEF Remoded, Rewritten, Recounts
    <2>11. /\ Well(t)
           /\ t.lock.grantedList = s.lock.grantedList
           /\ t.lock.conflictList = s.lock.conflictList
           /\ t.lock.partitions = s.lock.partitions
      <3>1. Suits(s, l, rr)
        BY <2>2, <2>3, <2>4, <2>5 DEF Suits
      <3> QED
        BY <2>6, <2>10, <3>1, RemodeStep
    <2>12. t.req[l] = rr /\ \A k \in Lockers \ {l} : t.req[k] = s.req[k]
      BY <1>1, <2>7
    <2>13. Moved(r, rr)
      BY <2>1 DEF Moved, rr
    <2>14. Serves(s, t)
      BY <1>1, <2>11, <2>12, <2>13 DEF Serves, Moved, Granted, Queued
    <2> QED
      BY <2>3, <2>11, <2>12, <2>14
  <1> QED
    BY <1>4, <1>5

\* After the first loop every conversion that remains has to wait.
LEMMA ConversionsServed ==
    ASSUME NEW s, Well(s), NEW t, t = GrantConversions(s)
    PROVE  /\ Serves(s, t)
           /\ t.lock.grantedList = s.lock.grantedList
           /\ t.lock.conflictList = s.lock.conflictList
           /\ ConversionsBlocked(t)
  <1> DEFINE q == s.lock.grantedList
  <1>1. q \in Seq(Lockers) /\ Len(q) \in Nat /\ Granted(s) \subseteq Lockers
    BY StateFacts DEF Well
  <1>2. PICK f : IsConversionLoop(s, f)
    BY <1>1, ConversionLoop
  <1>2a. /\ f[0] = s
         /\ \A n \in 1 .. Len(q) : f[n] = GrantConversion(f[n - 1], q[n])
         /\ GrantConversions(s) = f[Len(q)]
    BY <1>2 DEF IsConversionLoop
  <1> DEFINE Blocked(u, l) == u.req[l].status = "CONVERTING" =>
                                \E k \in Granted(u) \ {l} : Against(u, u.req[l].convertMode, k)
             Ok(n) == /\ Serves(s, f[n])
                      /\ f[n].lock.grantedList = q
                      /\ f[n].lock.conflictList = s.lock.conflictList
                      /\ \A i \in 1 .. n : Blocked(f[n], q[i])
             S == {n \in Nat : Ok(n)}
  <1>3. 0 \in S
    BY <1>2a, ServesNothing
  <1>4. ASSUME NEW n \in 1 .. Len(q), n - 1 \in S PROVE n \in S
    <2>1. /\ n - 1 \in Nat /\ n \in Nat /\ Serves(s, f[n - 1])
          /\ f[n - 1].lock.grantedList = q
          /\ f[n - 1].lock.conflictList = s.lock.conflictList
          /\ \A i \in 1 .. n - 1 : Blocked(f[n - 1], q[i])
      <3> HIDE DEF Ok
      <3>1. Ok(n - 1) /\ n - 1 \in Nat
        BY <1>4
      <3>2. n \in Nat
        BY <1>1
      <3> HIDE DEF S, Blocked
      <3> QED
        BY <3>1, <3>2 DEF Ok
    <2>2. Well(f[n - 1]) /\ f[n] = GrantConversion(f[n - 1], q[n])
      BY <1>2a, <2>1 DEF Serves
    <2>3. q[n] \in Granted(f[n - 1])
      BY <1>1, <2>1, ListFacts DEF Granted
    <2>4. /\ Serves(f[n - 1], f[n])
          /\ f[n].lock.grantedList = f[n - 1].lock.grantedList
          /\ f[n].lock.conflictList = f[n - 1].lock.conflictList
          /\ \A k \in Lockers \ {q[n]} : f[n].req[k] = f[n - 1].req[k]
          /\ Blocked(f[n], q[n])
      BY <2>2, <2>3, ConversionStep
    <2>5. Serves(s, f[n])
      BY <2>1, <2>4, ServesTwice
    <2>6. ASSUME NEW i \in 1 .. n, i # n PROVE Blocked(f[n], q[i])
      <3>1. i \in 1 .. n - 1 /\ i \in 1 .. Len(q)
        BY <1>1, <2>6
      <3>2. q[i] \in Lockers /\ q[i] \in Granted(f[n - 1]) /\ q[i] # q[n]
        <4>1. Once(q) /\ DOMAIN q = 1 .. Len(q)
          BY <1>1 DEF Well, Listed
        <4>2. q[i] \in Lockers /\ q[i] \in Granted(f[n - 1])
          BY <1>1, <2>1, <3>1, ListFacts DEF Granted
        <4> QED
          BY <4>1, <4>2, <3>1, <2>6 DEF Once
      <3>3. f[n].req[q[i]] = f[n - 1].req[q[i]]
        BY <2>4, <3>2
      <3>4. SUFFICES ASSUME f[n].req[q[i]].status = "CONVERTING"
                     PROVE  \E k \in Granted(f[n]) \ {q[i]} :
                              Against(f[n], f[n].req[q[i]].convertMode, k)
        OBVIOUS
      <3>5. f[n - 1].req[q[i]].convertMode \in Modes
        BY <2>2, <3>2, <3>3, <3>4 DEF Well, Listed, GrantedRequest
      <3>6. PICK k \in Granted(f[n - 1]) \ {q[i]} :
              Against(f[n - 1], f[n - 1].req[q[i]].convertMode, k)
        BY <2>1, <3>1, <3>3, <3>4
      <3>7. k \in Granted(f[n]) /\ Against(f[n], f[n - 1].req[q[i]].convertMode, k)
        <4> DEFINE u == f[n - 1]
                   v == f[n]
                   m == f[n - 1].req[q[i]].convertMode
        <4>1. Well(u) /\ Serves(u, v) /\ m \in Modes /\ k \in Granted(u) /\ Against(u, m, k)
          BY <2>2, <2>4, <3>5, <3>6
        <4> HIDE DEF u, v, m
        <4>2. k \in Granted(v) /\ Against(v, m, k)
          BY <4>1, StillAgainst
        <4> QED
          BY <4>2 DEF v, m
      <3> QED
        BY <3>3, <3>6, <3>7
    <2> HIDE DEF Blocked
    <2>7. \A i \in 1 .. n : Blocked(f[n], q[i])
      BY <2>4, <2>6
    <2> QED
      BY <2>1, <2>4, <2>5, <2>7
  <1> HIDE DEF S
  <1>5. Len(q) \in S
    <2> HIDE DEF q
    <2>1. \A n \in 0 .. Len(q) : n \in S
      BY <1>1, <1>3, <1>4, LoopInduction
    <2> QED
      BY <1>1, <2>1
  <1>6. Ok(Len(q)) /\ t = f[Len(q)]
    BY <1>2a, <1>5 DEF S
  <1>7. ConversionsBlocked(t)
    <2> SUFFICES ASSUME NEW l \in Granted(t) PROVE Blocked(t, l)
      BY DEF ConversionsBlocked
    <2>0. l \in ToSet(q)
      BY <1>6 DEF Granted
    <2> HIDE DEF q
    <2>1. PICK i \in 1 .. Len(q) : q[i] = l
      BY <1>1, <2>0, ListFacts
    <2> HIDE DEF Blocked
    <2> QED
      BY <1>6, <2>1
  <1> QED
    BY <1>6, <1>7

LEMMA BlockedStill ==
    ASSUME NEW s, NEW t, Well(s), Serves(s, t), ConversionsBlocked(s)
    PROVE  ConversionsBlocked(t)
  <1> SUFFICES ASSUME NEW l \in Granted(t), t.req[l].status = "CONVERTING"
               PROVE  \E k \in Granted(t) \ {l} : Against(t, t.req[l].convertMode, k)
    BY DEF ConversionsBlocked
  <1>1. l \in Granted(s) \cup Queued(s) /\ Moved(s.req[l], t.req[l])
    <2>1. Granted(t) \subseteq Lockers
      BY StateFacts DEF Serves, Well
    <2> QED
      BY <2>1 DEF Serves
  <1>2. l \in Lockers /\ s.req[l] \in RequestType
    BY <1>1, StateFacts DEF Well
  <1>3. t.req[l] = s.req[l]
    BY <1>1, <1>2, MovedFields
  <1>4. l \in Granted(s) /\ s.req[l].convertMode \in Modes
    BY <1>1, <1>3 DEF Well, Listed, WaitingRequest, GrantedRequest
  <1>5. PICK k \in Granted(s) \ {l} : Against(s, s.req[l].convertMode, k)
    BY <1>3, <1>4 DEF ConversionsBlocked
  <1>6. k \in Granted(t) /\ Against(t, s.req[l].convertMode, k)
    BY <1>4, <1>5, StillAgainst
  <1> QED
    BY <1>3, <1>5, <1>6

\* The record that the loop over the queue carries.
Progress(a) ==
    /\ a.newlyCompatibleFirst \in BOOLEAN
    /\ a.stop \in BOOLEAN
    /\ a = [s |-> a.s, newlyCompatibleFirst |-> a.newlyCompatibleFirst, stop |-> a.stop]
    /\ Well(a.s)

\* An iteration grants the waiting request l.
Lets(a, b, l) ==
    /\ ~a.stop
    /\ \A k \in Granted(a.s) : ~Against(a.s, a.s.req[l].mode, k)
    /\ Serves(a.s, b.s)
    /\ l \in Granted(b.s)
    /\ Queued(b.s) = Queued(a.s) \ {l}
    /\ b.s.lock.conflictList = Unlink(a.s.lock.conflictList, l)
    /\ b.s.req[l].mode = a.s.req[l].mode
    /\ b.stop => a.s.req[l].mode = "X"
    /\ b.newlyCompatibleFirst => a.newlyCompatibleFirst \/ a.s.req[l].compatibleFirst

\* An iteration finds that l has to wait.
Refuses(a, b, l) ==
    /\ ~a.stop
    /\ \E k \in Granted(a.s) : Against(a.s, a.s.req[l].mode, k)
    /\ b.s = a.s
    /\ b.newlyCompatibleFirst = a.newlyCompatibleFirst
    /\ b.stop <=> Head(a.s.lock.conflictList) = l /\ ~a.newlyCompatibleFirst

LEMMA WaiterStep ==
    ASSUME NEW a, Progress(a), NEW l \in Queued(a.s), NEW b, b = GrantWaiter(a, l)
    PROVE  /\ Progress(b)
           /\ (a.stop /\ b = a) \/ Refuses(a, b, l) \/ Lets(a, b, l)
  <1> DEFINE s == a.s
             r == s.req[l]
             d == Dequeued(s, l)
             clash == Conflicts(r.mode, ModesOf(s.lock.grantedCounts))
             g == Grant(d, l)
  <1>1. /\ Well(s) /\ s \in State /\ l \in Lockers
        /\ s.req \in [Lockers -> RequestType] /\ s.lock \in LockHeadType
        /\ s = [req |-> s.req, lock |-> s.lock]
    BY StateFacts DEF Progress, Well, State
  <1>2. WaitingRequest(r) /\ r \in RequestType
    BY <1>1 DEF Well, Listed
  <1>3. r.mode \in Modes /\ r.convertMode = "NONE" /\ r.status = "WAITING"
    BY <1>2 DEF WaitingRequest
  <1>4. clash <=> \E k \in Granted(s) : Against(s, r.mode, k)
    BY <1>1, <1>3, NotInTheWay
  <1>5. CASE a.stop
    <2>1. b = a
      BY <1>5 DEF GrantWaiter
    <2> QED
      BY <1>5, <2>1
  <1>6. CASE ~a.stop /\ clash
    <2>1. b = [a EXCEPT !.stop = Head(s.lock.conflictList) = l /\ ~a.newlyCompatibleFirst]
      BY <1>6 DEF GrantWaiter
    <2>2. /\ b.s = a.s /\ b.newlyCompatibleFirst = a.newlyCompatibleFirst
          /\ b.stop = (Head(s.lock.conflictList) = l /\ ~a.newlyCompatibleFirst)
          /\ b = [s |-> b.s, newlyCompatibleFirst |-> b.newlyCompatibleFirst, stop |-> b.stop]
      BY <2>1 DEF Progress
    <2>3. Progress(b)
      BY <2>2 DEF Progress
    <2>4. Refuses(a, b, l)
      BY <1>4, <1>6, <2>2 DEF Refuses
    <2> QED
      BY <2>3, <2>4
  <1>7. CASE ~a.stop /\ ~clash
    <2>1. b = [s |-> g,
               newlyCompatibleFirst |->
                 \/ a.newlyCompatibleFirst
                 \/ r.compatibleFirst /\ s.lock.compatibleFirstCount = 0,
               stop |-> r.mode = "X"]
      BY <1>7 DEF GrantWaiter, Dequeued
    <2>3. /\ Well(d) /\ Granted(d) = Granted(s) /\ Queued(d) = Queued(s) \ {l} /\ d.req = s.req
          /\ d.lock.conflictList = Unlink(s.lock.conflictList, l)
          /\ d.lock.grantedCounts = s.lock.grantedCounts
          /\ d.lock.partitions = s.lock.partitions
      BY <1>1, DequeueStep
    <2>4. l \notin Granted(s)
      BY <1>1, <1>3 DEF Well, Listed, GrantedRequest
    <2> HIDE DEF d, g
    <2>5. /\ Well(g) /\ Granted(g) = Granted(d) \cup {l} /\ Queued(g) = Queued(d)
          /\ g.req[l] = GrantedNow(d.req[l])
          /\ \A k \in Lockers \ {l} : g.req[k] = d.req[k]
          /\ g.lock.conflictList = d.lock.conflictList
          /\ g.lock.partitions = d.lock.partitions
      <3>1. g = Grant(d, l)
        BY DEF g
      <3>2. /\ Well(d) /\ l \notin Granted(d) /\ l \notin Queued(d) /\ d.req[l].mode \in Modes
            /\ d.req[l].convertMode = "NONE"
            /\ ~Conflicts(d.req[l].mode, ModesOf(d.lock.grantedCounts))
        BY <1>3, <1>7, <2>3, <2>4
      <3> QED
        BY <1>1, <3>1, <3>2, GrantStep
    <2>6. Serves(s, g)
      <3>1. g.req[l] = GrantedNow(r) /\ Moved(r, g.req[l])
        BY <1>3, <2>3, <2>5 DEF Moved, GrantedNow
      <3>2. \A k \in Lockers \ {l} : g.req[k] = s.req[k] /\ Moved(s.req[k], g.req[k])
        BY <2>3, <2>5 DEF Moved
      <3>3. Granted(g) = Granted(s) \cup {l} /\ Queued(g) = Queued(s) \ {l}
        BY <2>3, <2>5
      <3>4. Granted(g) \cup Queued(g) = Granted(s) \cup Queued(s)
        BY <3>3
      <3> QED
        BY <2>3, <2>5, <3>1, <3>2, <3>3, <3>4 DEF Serves
    <2>7. g.req[l].mode = r.mode
      BY <1>2, <2>3, <2>5 DEF GrantedNow, RequestType
    <2>8. r.compatibleFirst \in BOOLEAN /\ a.newlyCompatibleFirst \in BOOLEAN
      BY <1>2 DEF RequestType, Progress
    <2>9. /\ b.s = g /\ b.stop = (r.mode = "X") /\ b.newlyCompatibleFirst \in BOOLEAN
          /\ b.newlyCompatibleFirst => a.newlyCompatibleFirst \/ r.compatibleFirst
          /\ b = [s |-> b.s, newlyCompatibleFirst |-> b.newlyCompatibleFirst, stop |-> b.stop]
      BY <2>1, <2>8
    <2>10. Progress(b)
      BY <2>5, <2>9 DEF Progress
    <2>11. Lets(a, b, l)
      BY <1>4, <1>7, <2>3, <2>5, <2>6, <2>7, <2>9 DEF Lets
    <2> QED
      BY <2>10, <2>11
  <1> QED
    BY <1>5, <1>6, <1>7

\* list is what remains of q after n elements.
Remains(list, q, n) ==
    Len(list) = Len(q) - n /\ \A i \in 1 .. Len(q) - n : list[i] = q[n + i]

NobodyFirst(s) == \A l \in Lockers : ~s.req[l].compatibleFirst

LEMMA UnlinkFirst ==
    ASSUME NEW q \in Seq(Lockers), NEW n \in 1 .. Len(q), NEW list \in Seq(Lockers), Once(list),
           Remains(list, q, n - 1)
    PROVE  Head(list) = q[n] /\ Remains(Unlink(list, q[n]), q, n)
  <1>1. Len(q) \in Nat /\ Len(list) = Len(q) - n + 1 /\ Len(list) \in Nat
    BY DEF Remains
  <1>2. list[1] = q[n] /\ 1 \in 1 .. Len(list) /\ DOMAIN list = 1 .. Len(list) /\ list # <<>>
    <2>1. 1 \in 1 .. Len(q) - (n - 1) /\ (n - 1) + 1 = n
      BY <1>1
    <2> QED
      BY <1>1, <2>1 DEF Remains
  <1>3. q[n] \in ToSet(list)
    BY <1>2 DEF ToSet
  <1>4a. PICK at \in 1 .. Len(list) : WithoutAt(Unlink(list, q[n]), list, q[n], at)
    BY <1>3, UnlinkFacts
  <1>4. /\ list[at] = q[n]
        /\ Len(Unlink(list, q[n])) = Len(list) - 1
        /\ \A i \in 1 .. Len(list) - 1 :
             Unlink(list, q[n])[i] = IF i < at THEN list[i] ELSE list[i + 1]
    BY <1>4a DEF WithoutAt
  <1>5. at = 1
    BY <1>2, <1>4 DEF Once
  <1>6. ASSUME NEW i \in 1 .. Len(q) - n PROVE Unlink(list, q[n])[i] = q[n + i]
    <2>1. /\ i \in 1 .. Len(list) - 1 /\ ~(i < at) /\ i + 1 \in 1 .. Len(q) - (n - 1)
          /\ (n - 1) + (i + 1) = n + i
      BY <1>1, <1>5
    <2>2. Unlink(list, q[n])[i] = list[i + 1]
      BY <1>4, <2>1
    <2>3. list[i + 1] = q[(n - 1) + (i + 1)]
      BY <2>1 DEF Remains
    <2> QED
      BY <2>1, <2>2, <2>3
  <1>7. Head(list) = q[n]
    BY <1>2
  <1>8. Len(Unlink(list, q[n])) = Len(q) - n
    BY <1>1, <1>4
  <1>9. Remains(Unlink(list, q[n]), q, n)
    BY <1>6, <1>8 DEF Remains
  <1> QED
    BY <1>7, <1>9

\* A granted X blocks the queue.
LEMMA XBlocks ==
    ASSUME NEW s, Well(s), NEW l \in Granted(s), s.req[l].mode = "X"
    PROVE  HeadBlocked(s)
  <1> SUFFICES ASSUME s.lock.conflictList # <<>>
               PROVE  Against(s, s.req[Head(s.lock.conflictList)].mode, l)
    BY DEF HeadBlocked
  <1> DEFINE h == Head(s.lock.conflictList)
  <1>1. h \in Queued(s)
    <2> DEFINE q == s.lock.conflictList
    <2>1. q \in Seq(Lockers) /\ q # <<>> /\ Queued(s) = ToSet(q)
      BY StateFacts DEF Well, Queued
    <2> HIDE DEF q
    <2>2. Head(q) = q[1] /\ 1 \in 1 .. Len(q)
      BY <2>1
    <2>3. Head(q) \in ToSet(q)
      BY <2>1, <2>2, ListFacts
    <2> QED
      BY <2>1, <2>3 DEF q
  <1>2. s.req[h].mode \in Modes
    BY <1>1 DEF Well, Listed, WaitingRequest
  <1>3. Conflicts(s.req[h].mode, {s.req[l].mode})
    BY <1>2, ModeFacts
  <1> QED
    BY <1>3, AgainstEither

\* What the second loop has achieved after n iterations over q, from s.
QueueLoopInv(s, q, a, n) ==
    /\ Progress(a)
    /\ Serves(s, a.s)
    /\ \A i \in n + 1 .. Len(q) : q[i] \in Queued(a.s)
    /\ n > 0 \/ a.stop => Granted(a.s) # {}
    /\ NobodyFirst(s) =>
         /\ ~a.newlyCompatibleFirst
         /\ a.stop => HeadBlocked(a.s)
         /\ ~a.stop => Remains(a.s.lock.conflictList, q, n)

LEMMA QueueIteration ==
    ASSUME NEW s, Well(s), NEW q, q = s.lock.conflictList, NEW n \in 1 .. Len(q),
           NEW a, NEW b, QueueLoopInv(s, q, a, n - 1), b = GrantWaiter(a, q[n])
    PROVE  QueueLoopInv(s, q, b, n)
  <1> DEFINE l == q[n]
  <1>1. /\ q \in Seq(Lockers) /\ Len(q) \in Nat /\ Once(q) /\ DOMAIN q = 1 .. Len(q)
        /\ s \in State /\ s.req \in [Lockers -> RequestType]
    BY StateFacts DEF Well, Listed
  <1>2. Progress(a) /\ Well(a.s) /\ Serves(s, a.s)
    BY DEF QueueLoopInv, Progress
  <1>3. l \in Queued(a.s) /\ l \in Lockers
    <2>1. n \in (n - 1) + 1 .. Len(q)
      BY <1>1
    <2> QED
      BY <1>1, <2>1 DEF QueueLoopInv
  <1>4. Progress(b) /\ ((a.stop /\ b = a) \/ Refuses(a, b, l) \/ Lets(a, b, l))
    BY <1>2, <1>3, WaiterStep
  <1>5. \A i \in n + 1 .. Len(q) : /\ i \in (n - 1) + 1 .. Len(q) /\ q[i] # l
                                   /\ q[i] \in Queued(a.s)
    <2>1. \A i \in n + 1 .. Len(q) : /\ i \in (n - 1) + 1 .. Len(q) /\ i \in 1 .. Len(q)
                                     /\ i # n
      BY <1>1
    <2>2. \A i \in n + 1 .. Len(q) : q[i] # l
      BY <1>1, <2>1 DEF Once
    <2> QED
      BY <2>1, <2>2 DEF QueueLoopInv
  <1>6. NobodyFirst(s) => ~a.s.req[l].compatibleFirst
    <2>1. a.s.req[l].compatibleFirst = s.req[l].compatibleFirst
      BY <1>1, <1>2, <1>3, MovedFields DEF Serves
    <2> QED
      BY <1>3, <2>1 DEF NobodyFirst
  <1>7. a.s.lock.conflictList \in Seq(Lockers) /\ Once(a.s.lock.conflictList)
    BY <1>2, StateFacts DEF Well, Listed
  <1> HIDE DEF l
  <1>8. CASE a.stop /\ b = a
    <2>1. Granted(a.s) # {}
      BY <1>8 DEF QueueLoopInv
    <2> QED
      BY <1>2, <1>5, <1>8, <2>1 DEF QueueLoopInv
  <1>9. CASE Refuses(a, b, l)
    <2>1. Serves(s, b.s) /\ Granted(b.s) # {} /\ \A i \in n + 1 .. Len(q) : q[i] \in Queued(b.s)
      BY <1>2, <1>5, <1>9 DEF Refuses
    <2>2. ASSUME NobodyFirst(s)
          PROVE  ~b.newlyCompatibleFirst /\ b.stop /\ HeadBlocked(b.s)
      <3>1. ~a.newlyCompatibleFirst /\ Remains(a.s.lock.conflictList, q, n - 1)
        BY <1>9, <2>2 DEF QueueLoopInv, Refuses
      <3>2. Head(a.s.lock.conflictList) = l
        BY <1>1, <1>7, <3>1, UnlinkFirst DEF l
      <3> QED
        BY <1>9, <3>1, <3>2 DEF Refuses, HeadBlocked
    <2> QED
      BY <1>4, <2>1, <2>2 DEF QueueLoopInv
  <1>10. CASE Lets(a, b, l)
    <2>1. Serves(s, b.s)
      <3>1. Serves(a.s, b.s)
        BY <1>10 DEF Lets
      <3> QED
        BY <1>2, <3>1, ServesTwice
    <2>2. Granted(b.s) # {} /\ \A i \in n + 1 .. Len(q) : q[i] \in Queued(b.s)
      BY <1>5, <1>10 DEF Lets
    <2>3. ASSUME NobodyFirst(s)
          PROVE  /\ ~b.newlyCompatibleFirst
                 /\ b.stop => HeadBlocked(b.s)
                 /\ ~b.stop => Remains(b.s.lock.conflictList, q, n)
      <3>1. ~a.newlyCompatibleFirst /\ Remains(a.s.lock.conflictList, q, n - 1)
        BY <1>10, <2>3 DEF QueueLoopInv, Lets
      <3>2. ~b.newlyCompatibleFirst
        BY <1>6, <1>10, <2>3, <3>1 DEF Lets
      <3>3. Remains(b.s.lock.conflictList, q, n)
        <4>1. Remains(Unlink(a.s.lock.conflictList, q[n]), q, n)
          BY <1>1, <1>7, <3>1, UnlinkFirst
        <4> QED
          BY <4>1, <1>10 DEF Lets, l
      <3>4. ASSUME b.stop PROVE HeadBlocked(b.s)
        BY <1>4, <1>10, <3>4, XBlocks DEF Lets, Progress
      <3> QED
        BY <3>2, <3>3, <3>4
    <2> QED
      BY <1>4, <2>1, <2>2, <2>3 DEF QueueLoopInv
  <1> QED
    BY <1>4, <1>8, <1>9, <1>10 DEF l

\* After the second loop nobody waits for nothing.
LEMMA WaitersServed ==
    ASSUME NEW s, Well(s), NEW t, t = GrantWaiters(s)
    PROVE  /\ Serves(s, t)
           /\ Queued(t) # {} => Granted(t) # {}
           /\ NobodyFirst(s) => HeadBlocked(t)
  <1> DEFINE q == s.lock.conflictList
  <1>1. q \in Seq(Lockers) /\ Len(q) \in Nat
    BY StateFacts DEF Well
  <1>2. PICK f : IsWaiterLoop(s, f)
    BY <1>1, WaiterLoop
  <1>3. /\ f[0] = [s |-> s, newlyCompatibleFirst |-> FALSE, stop |-> FALSE]
        /\ \A n \in 1 .. Len(q) : f[n] = GrantWaiter(f[n - 1], q[n])
        /\ t = f[Len(q)].s
    BY <1>2 DEF IsWaiterLoop
  <1> DEFINE S == {n \in Nat : QueueLoopInv(s, q, f[n], n)}
  <1>4. 0 \in S
    <2>1. /\ f[0].s = s /\ f[0].newlyCompatibleFirst = FALSE /\ f[0].stop = FALSE
          /\ f[0] = [s |-> f[0].s, newlyCompatibleFirst |-> f[0].newlyCompatibleFirst,
                      stop |-> f[0].stop]
      BY <1>3
    <2>2. Progress(f[0]) /\ Serves(s, f[0].s)
      BY <2>1, ServesNothing DEF Progress
    <2>3. \A i \in 0 + 1 .. Len(q) : q[i] \in Queued(f[0].s)
      BY <1>1, <2>1, ListFacts DEF Queued
    <2>4. Remains(f[0].s.lock.conflictList, q, 0)
      BY <1>1, <2>1 DEF Remains
    <2> QED
      BY <2>1, <2>2, <2>3, <2>4 DEF QueueLoopInv
  <1>5. ASSUME NEW n \in 1 .. Len(q), n - 1 \in S PROVE n \in S
    <2>1. QueueLoopInv(s, q, f[n - 1], n - 1) /\ f[n] = GrantWaiter(f[n - 1], q[n])
      BY <1>3, <1>5
    <2>2. QueueLoopInv(s, q, f[n], n)
      BY <2>1, QueueIteration
    <2> QED
      BY <1>1, <2>2
  <1> HIDE DEF S
  <1>6. Len(q) \in S
    <2> HIDE DEF q
    <2>1. \A n \in 0 .. Len(q) : n \in S
      BY <1>1, <1>4, <1>5, LoopInduction
    <2> QED
      BY <1>1, <2>1
  <1>7. QueueLoopInv(s, q, f[Len(q)], Len(q))
    BY <1>6 DEF S
  <1>8. Queued(t) # {} => Granted(t) # {}
    <2>1. CASE Len(q) > 0
      BY <1>3, <1>7, <2>1 DEF QueueLoopInv
    <2>2. CASE Len(q) = 0
      <3>1. f[Len(q)].s = s
        BY <1>3, <2>2
      <3>2. Queued(s) = {}
        <4>1. q = <<>>
          BY <1>1, <2>2
        <4> QED
          BY <4>1, StateFacts DEF Well
      <3> QED
        BY <1>3, <3>1, <3>2
    <2> QED
      BY <1>1, <2>1, <2>2
  <1>9. ASSUME NobodyFirst(s) PROVE HeadBlocked(t)
    <2>1. CASE f[Len(q)].stop
      BY <1>3, <1>7, <1>9, <2>1 DEF QueueLoopInv
    <2>2. CASE ~f[Len(q)].stop
      <3>1. Remains(t.lock.conflictList, q, Len(q))
        BY <1>3, <1>7, <1>9, <2>2 DEF QueueLoopInv
      <3>2. t.lock.conflictList \in Seq(Lockers)
        BY <1>3, <1>7, StateFacts DEF QueueLoopInv, Progress, Well
      <3>3. Len(t.lock.conflictList) = 0
        BY <1>1, <3>1 DEF Remains
      <3>4. t.lock.conflictList = <<>>
        BY <3>2, <3>3
      <3> QED
        BY <3>4 DEF HeadBlocked
    <2> QED
      BY <2>1, <2>2
  <1> QED
    BY <1>3, <1>7, <1>8, <1>9 DEF QueueLoopInv

LEMMA ModeChangeServed ==
    ASSUME NEW s, Well(s), NEW check \in BOOLEAN, NEW t, t = OnLockModeChanged(s, check)
    PROVE  /\ Serves(s, t)
           /\ ConversionsBlocked(t)
           /\ check => /\ Queued(t) # {} => Granted(t) # {}
                       /\ NobodyFirst(s) => HeadBlocked(t)
           /\ ~check => t.lock.conflictList = s.lock.conflictList
  <1> DEFINE c == GrantConversions(s)
             w == GrantWaiters(c)
  <1>1. /\ Serves(s, c) /\ ConversionsBlocked(c) /\ c.lock.conflictList = s.lock.conflictList
    BY ConversionsServed
  <1>2. Well(c)
    BY <1>1 DEF Serves
  <1> HIDE DEF c
  <1>3. /\ Serves(c, w) /\ (Queued(w) # {} => Granted(w) # {})
        /\ NobodyFirst(c) => HeadBlocked(w)
    BY <1>2, WaitersServed
  <1> HIDE DEF w
  <1>4. Serves(s, w) /\ ConversionsBlocked(w)
    BY <1>1, <1>2, <1>3, ServesTwice, BlockedStill
  <1>5. ASSUME NobodyFirst(s) PROVE NobodyFirst(c)
    <2> SUFFICES ASSUME NEW l \in Lockers PROVE ~c.req[l].compatibleFirst
      BY DEF NobodyFirst
    <2>1. s.req[l] \in RequestType /\ Moved(s.req[l], c.req[l])
      BY <1>1, StateFacts DEF Serves, Well
    <2>2. c.req[l].compatibleFirst = s.req[l].compatibleFirst
      BY <2>1, MovedFields
    <2> QED
      BY <1>5, <2>2 DEF NobodyFirst
  <1>6. t = IF check THEN w ELSE c
    BY DEF OnLockModeChanged, w, c
  <1>7. CASE check
    BY <1>3, <1>4, <1>5, <1>6, <1>7
  <1>8. CASE ~check
    BY <1>1, <1>6, <1>8
  <1> QED
    BY <1>7, <1>8
-----------------------------------------------------------------------------
(* migratePartitionedLockHeads *)

\* The requests of the first n of the partitions q.
MovedFrom(q, n) == {l \in Lockers : \E j \in 1 .. n : l \in ToSet(parts[q[j]])}

LEMMA PartitionFacts ==
    ASSUME NEW l \in Lockers
    PROVE  GetPartition(l) \in Partitions
  BY LockersAssumption, PartitionsAssumption DEF GetPartition, Partitions

LEMMA RequestsToMove ==
    ASSUME NEW rs, Inv(NowWith(rs), parts, pc), NEW r, r = PartitionedRequests
    PROVE  /\ r \in Seq(Lockers)
           /\ Once(r)
           /\ ToSet(r) = {l \in Lockers : InParts(parts, l)}
  <1> DEFINE q == Reverse(lock.partitions)
             L == Len(lock.partitions)
  <1>1. /\ lock.partitions \in Seq(Partitions) /\ L \in Nat
        /\ parts \in [Partitions -> Seq(Lockers)]
    BY StateFacts DEF Inv, Well, NowWith
  <1>2. /\ q \in Seq(Partitions) /\ Len(q) = L
        /\ \A i \in 1 .. L : q[i] \in Partitions /\ q[i] = lock.partitions[L - i + 1]
    BY <1>1 DEF Reverse
  <1>3. PICK f : IsPartitionLoop(q, f)
    BY <1>2, PartitionLoop
  <1>4. /\ f[0] = <<>> /\ r = f[Len(q)]
        /\ \A n \in 1 .. Len(q) : /\ ~FirstListed(q, n) => f[n] = f[n - 1]
                                  /\ FirstListed(q, n) => f[n] = f[n - 1] \o parts[q[n]]
    BY <1>3 DEF IsPartitionLoop
  <1>5. \A p \in Partitions : \A l \in ToSet(parts[p]) :
          /\ l \in Lockers /\ p = GetPartition(l) /\ p \in ToSet(lock.partitions)
    <2>1. \A p \in Partitions : ToSet(parts[p]) \subseteq Lockers
      BY <1>1, ListFacts
    <2> QED
      BY <2>1 DEF Inv, PartsInv, PartitionedRequest, NowWith
  <1>6. \A p \in Partitions : parts[p] \in Seq(Lockers) /\ Once(parts[p])
    BY <1>1 DEF Inv, PartsInv
  <1> HIDE DEF q
  <1> DEFINE S == {n \in Nat : /\ f[n] \in Seq(Lockers) /\ Once(f[n])
                               /\ ToSet(f[n]) = MovedFrom(q, n)}
  <1>7. 0 \in S
    <2>1. f[0] \in Seq(Lockers) /\ Once(f[0]) /\ ToSet(f[0]) = {}
      BY <1>4 DEF Once, ToSet
    <2>2. MovedFrom(q, 0) = {}
      BY DEF MovedFrom
    <2> QED
      BY <2>1, <2>2
  <1>8. ASSUME NEW n \in 1 .. Len(q), n - 1 \in S PROVE n \in S
    <2>1. /\ n \in Nat /\ n - 1 \in Nat /\ q[n] \in Partitions
          /\ \A j \in 1 .. n : j \in 1 .. n - 1 \/ j = n
          /\ \A j \in 1 .. n - 1 : j \in 1 .. n /\ q[j] \in Partitions
      BY <1>2, <1>1
    <2>2. f[n - 1] \in Seq(Lockers) /\ Once(f[n - 1]) /\ ToSet(f[n - 1]) = MovedFrom(q, n - 1)
      BY <1>8
    <2>3. MovedFrom(q, n) = MovedFrom(q, n - 1) \cup ToSet(parts[q[n]])
      BY <1>5, <2>1 DEF MovedFrom
    <2>4. CASE FirstListed(q, n)
      <3>1. f[n] = f[n - 1] \o parts[q[n]]
        BY <1>4, <2>4
      <3>2. MovedFrom(q, n - 1) \cap ToSet(parts[q[n]]) = {}
        BY <1>5, <2>1, <2>4 DEF MovedFrom, FirstListed
      <3>3. /\ f[n - 1] \o parts[q[n]] \in Seq(Lockers)
            /\ Once(f[n - 1] \o parts[q[n]])
            /\ ToSet(f[n - 1] \o parts[q[n]]) = ToSet(f[n - 1]) \cup ToSet(parts[q[n]])
        BY <1>6, <2>1, <2>2, <3>2, ConcatOnce
      <3> QED
        BY <2>1, <2>2, <2>3, <3>1, <3>3
    <2>5. CASE ~FirstListed(q, n)
      <3>1. f[n] = f[n - 1]
        BY <1>4, <2>5
      <3>2. PICK j \in 1 .. n - 1 : q[j] = q[n]
        BY <2>5 DEF FirstListed
      <3>3. ToSet(parts[q[n]]) \subseteq MovedFrom(q, n - 1)
        BY <1>5, <2>1, <3>2 DEF MovedFrom
      <3> QED
        BY <2>1, <2>2, <2>3, <3>1, <3>3
    <2> QED
      BY <2>4, <2>5
  <1>9. Len(q) \in S
    <2> HIDE DEF S
    <2>1. \A n \in 0 .. Len(q) : n \in S
      BY <1>1, <1>2, <1>7, <1>8, LoopInduction
    <2> QED
      BY <1>1, <1>2, <2>1
  <1>10. MovedFrom(q, Len(q)) = {l \in Lockers : InParts(parts, l)}
    <2>1. ASSUME NEW l \in Lockers, NEW j \in 1 .. Len(q), l \in ToSet(parts[q[j]])
          PROVE  InParts(parts, l)
      BY <1>2, <1>5, <2>1 DEF InParts
    <2>2. ASSUME NEW l \in Lockers, InParts(parts, l)
          PROVE  \E j \in 1 .. Len(q) : l \in ToSet(parts[q[j]])
      <3>1. GetPartition(l) \in ToSet(lock.partitions)
        BY <1>5, <2>2, PartitionFacts DEF InParts
      <3>2. PICK i \in 1 .. L : lock.partitions[i] = GetPartition(l)
        BY <1>1, <3>1, ListFacts
      <3>3. L - i + 1 \in 1 .. L /\ L - (L - i + 1) + 1 = i
        BY <1>1
      <3>4. q[L - i + 1] = lock.partitions[L - (L - i + 1) + 1]
        BY <1>2, <3>3
      <3>5. q[L - i + 1] = GetPartition(l)
        BY <3>2, <3>3, <3>4
      <3> QED
        BY <1>2, <2>2, <3>3, <3>5 DEF InParts
    <2> QED
      BY <2>1, <2>2 DEF MovedFrom
  <1> QED
    BY <1>4, <1>9, <1>10

LEMMA NewRequestGranted ==
    ASSUME NEW s, Well(s), IntentHead(s), NEW l \in Lockers, l \notin Granted(s),
           s.req[l].mode \in IntentModes, s.req[l].convertMode = "NONE"
    PROVE  NewRequest(s, l) = Grant(s, l) /\ ~Conflicts(s.req[l].mode, ModesOf(s.lock.grantedCounts))
  <1> DEFINE mode == s.req[l].mode
  <1>1. mode \in Modes
    BY DEF IntentModes, Modes
  <1>2. ASSUME NEW k \in Granted(s) PROVE ~Against(s, mode, k)
    <2>1. s.req[k].mode \in IntentModes /\ s.req[k].convertMode \in IntentModes \cup {"NONE"}
      BY DEF IntentHead
    <2>2. ~Conflicts(mode, {s.req[k].mode}) /\ ~Conflicts(mode, {s.req[k].convertMode})
      BY <1>1, <2>1, ModeFacts
    <2> QED
      BY <2>2, AgainstEither
  <1>3. ~Conflicts(mode, ModesOf(s.lock.grantedCounts))
    BY <1>1, <1>2, NotInTheWay
  <1>4. ModesOf(s.lock.conflictCounts) = {}
    BY ModesShown DEF IntentHead
  <1>5. ~Conflicts(mode, ModesOf(s.lock.conflictCounts))
    BY <1>4 DEF Conflicts
  <1> QED
    BY <1>3, <1>5 DEF NewRequest, MustWait

\* The migration moves every partitioned request to the lock head; no request
\* changes and none has to wait.
LEMMA MigrationMoves ==
    ASSUME NEW rs, Inv(NowWith(rs), parts, pc), NEW s, s = Migrated(rs)
    PROVE  /\ Well(s)
           /\ s.req = rs
           /\ Granted(s) = Granted(Now) \cup {l \in Lockers : InParts(parts, l)}
           /\ Queued(s) = Queued(Now)
           /\ s.lock.conflictList = lock.conflictList
           /\ s.lock.partitions = <<>>
           /\ lock.partitions # <<>> => IntentHead(s)
  <1> DEFINE q == PartitionedRequests
             s0 == [req |-> rs, lock |-> [lock EXCEPT !.partitions = <<>>]]
  <1>1. q \in Seq(Lockers) /\ Once(q) /\ ToSet(q) = {l \in Lockers : InParts(parts, l)}
    BY RequestsToMove
  <1>2. PICK f : IsMigrationLoop(rs, f)
    BY <1>1, MigrationLoop
  <1>3. /\ f[0] = s0 /\ s = f[Len(q)]
        /\ \A n \in 1 .. Len(q) : f[n] = NewRequest(f[n - 1], q[n])
    BY <1>2 DEF IsMigrationLoop
  <1>4. Len(q) \in Nat /\ DOMAIN q = 1 .. Len(q) /\ \A i \in 1 .. Len(q) : q[i] \in Lockers
    BY <1>1
  <1>5. ASSUME NEW n \in 1 .. Len(q)
        PROVE  /\ lock.partitions # <<>> /\ q[n] \notin Granted(NowWith(rs))
               /\ rs[q[n]].status = "GRANTED" /\ rs[q[n]].mode \in IntentModes
               /\ rs[q[n]].convertMode = "NONE"
    <2>1. q[n] \in Lockers /\ InParts(parts, q[n])
      BY <1>1, <1>4, ListFacts
    <2>2. PartitionedRequest(NowWith(rs), q[n], GetPartition(q[n]))
      BY <2>1, PartitionFacts DEF Inv, PartsInv, InParts
    <2>3. lock.partitions # <<>>
      BY <2>2 DEF PartitionedRequest, ToSet, NowWith
    <2> QED
      BY <2>2, <2>3 DEF PartitionedRequest, NowWith
  <1>6. /\ NowWith(rs) \in State /\ NowWith(rs).req = rs /\ NowWith(rs).lock = lock /\ lock \in LockHeadType
        /\ rs \in [Lockers -> RequestType]
    BY StateFacts DEF Inv, Well, NowWith
  <1> DEFINE Ok(n) == /\ Well(f[n]) /\ f[n].req = rs
                      /\ Granted(f[n]) = Granted(NowWith(rs)) \cup {q[i] : i \in 1 .. n}
                      /\ Queued(f[n]) = Queued(NowWith(rs))
                      /\ f[n].lock.conflictList = lock.conflictList
                      /\ f[n].lock.partitions = <<>>
                      /\ lock.partitions # <<>> => IntentHead(f[n])
             S == {n \in Nat : Ok(n)}
  <1> HIDE DEF q
  <1>7. 0 \in S
    <2>1. /\ s0.req = rs /\ s0.lock.partitions = <<>>
          /\ s0.lock.grantedList = lock.grantedList /\ s0.lock.conflictList = lock.conflictList
          /\ s0.lock.grantedCounts = lock.grantedCounts
          /\ s0.lock.conflictCounts = lock.conflictCounts
          /\ s0.lock.conversionsCount = lock.conversionsCount
          /\ s0.lock.compatibleFirstCount = lock.compatibleFirstCount
      BY <1>6 DEF LockHeadType
    <2>2. s0 \in State
      <3>1. <<>> \in Seq(Partitions)
        OBVIOUS
      <3>2. [lock EXCEPT !.partitions = <<>>] \in LockHeadType
        BY <1>6, <3>1 DEF LockHeadType
      <3> QED
        BY <1>6, <3>2 DEF State
    <2> HIDE DEF s0
    <2>3. Well(s0) /\ Granted(s0) = Granted(NowWith(rs)) /\ Queued(s0) = Queued(NowWith(rs))
      BY <1>6, <2>1, <2>2, WellSame DEF Inv
    <2>4. lock.partitions # <<>> => IntentHead(s0)
      BY <1>6, <2>1, <2>3 DEF Inv, IntentHead
    <2> QED
      BY <1>3, <2>1, <2>3, <2>4
  <1>8. ASSUME NEW n \in 1 .. Len(q), n - 1 \in S PROVE n \in S
    <2> DEFINE u == f[n - 1]
               t == f[n]
               l == q[n]
    <2>1. n \in Nat /\ Ok(n - 1) /\ t = NewRequest(u, l)
      BY <1>3, <1>4, <1>8
    <2>2. l \in Lockers /\ lock.partitions # <<>> /\ IntentHead(u) /\ Well(u) /\ u.req = rs
      BY <1>4, <1>5, <2>1
    <2>3. l \notin Granted(u)
      <3>1. \A i \in 1 .. n - 1 : i \in 1 .. Len(q) /\ i # n
        BY <1>4
      <3>2. \A i \in 1 .. n - 1 : q[i] # q[n]
        BY <1>1, <1>4, <3>1 DEF Once
      <3> QED
        BY <1>5, <2>1, <3>2
    <2>4. l \notin Queued(u)
      BY <2>2 DEF IntentHead
    <2>5. u.req[l].mode \in IntentModes /\ u.req[l].mode \in Modes /\ u.req[l].convertMode = "NONE"
      BY <1>5, <2>2 DEF IntentModes, Modes
    <2> HIDE DEF u, t, l
    <2>6. t = Grant(u, l) /\ ~Conflicts(u.req[l].mode, ModesOf(u.lock.grantedCounts))
      BY <2>1, <2>2, <2>3, <2>5, NewRequestGranted
    <2>7. /\ Well(t) /\ Granted(t) = Granted(u) \cup {l} /\ Queued(t) = Queued(u)
          /\ t.req[l] = GrantedNow(u.req[l])
          /\ \A k \in Lockers \ {l} : t.req[k] = u.req[k]
          /\ t.lock.conflictList = u.lock.conflictList
          /\ t.lock.partitions = u.lock.partitions
      BY <2>2, <2>3, <2>4, <2>5, <2>6, GrantStep
    <2>8. t.req = rs
      <3>1. t.req \in [Lockers -> RequestType]
        BY <2>7, StateFacts DEF Well
      <3>2. rs[l] \in RequestType /\ rs[l].status = "GRANTED"
        BY <1>5, <1>6, <2>2 DEF l
      <3>3. GrantedNow(rs[l]) = rs[l]
        BY <3>2 DEF GrantedNow, RequestType
      <3>4. \A k \in Lockers : t.req[k] = rs[k]
        BY <2>2, <2>7, <3>3
      <3> QED
        BY <1>6, <3>1, <3>4
    <2>9. Granted(t) = Granted(NowWith(rs)) \cup {q[i] : i \in 1 .. n}
      <3>1. {q[i] : i \in 1 .. n} = {q[i] : i \in 1 .. n - 1} \cup {l}
        <4>1. \A i : i \in 1 .. n <=> i \in 1 .. n - 1 \/ i = n
          BY <1>4
        <4> QED
          BY <4>1 DEF l
      <3>2. Granted(u) = Granted(NowWith(rs)) \cup {q[i] : i \in 1 .. n - 1}
        BY <2>1 DEF u
      <3> QED
        BY <2>7, <3>1, <3>2
    <2>10. IntentHead(t)
      BY <2>2, <2>5, <2>7, <2>8 DEF IntentHead
    <2>11. Queued(t) = Queued(NowWith(rs)) /\ t.lock.conflictList = lock.conflictList
           /\ t.lock.partitions = <<>>
      BY <2>1, <2>7 DEF u
    <2> QED
      BY <2>1, <2>7, <2>8, <2>9, <2>10, <2>11 DEF t
  <1> HIDE DEF S
  <1>9. Len(q) \in S
    <2>1. \A n \in 0 .. Len(q) : n \in S
      BY <1>4, <1>7, <1>8, LoopInduction
    <2> QED
      BY <1>4, <2>1
  <1>10. {q[i] : i \in 1 .. Len(q)} = {l \in Lockers : InParts(parts, l)}
    BY <1>1, <1>4 DEF ToSet
  <1>11. Ok(Len(q))
    BY <1>9 DEF S
  <1>12. Granted(NowWith(rs)) = Granted(Now) /\ Queued(NowWith(rs)) = Queued(Now)
    BY DEF Granted, Queued, NowWith, Now
  <1> QED
    BY <1>3, <1>10, <1>11, <1>12

-----------------------------------------------------------------------------
(* The parts of the invariant other than Well *)

LEMMA ThreadMoved ==
    ASSUME NEW r \in RequestType, NEW rr, Moved(r, rr), NEW at, NEW i, NEW j, j => i,
           ThreadInv(r, at, i)
    PROVE  ThreadInv(rr, at, j)
  <1>1. /\ rr.recursiveCount = r.recursiveCount /\ rr.partitioned = r.partitioned
        /\ \/ rr = r
           \/ r.status \in {"WAITING", "CONVERTING"} /\ rr.status = "GRANTED"
    BY MovedFields
  <1> QED
    BY <1>1 DEF ThreadInv

\* The step changes no other locker than l, except that it grants requests.
Others(s, ps, c, t, qs, cc, l) ==
    \A k \in Lockers \ {l} :
      /\ Moved(s.req[k], t.req[k])
      /\ cc[k] = c[k]
      /\ InParts(qs, k) <=> InParts(ps, k)
      /\ k \in Granted(t) \/ k \in Queued(t) <=> k \in Granted(s) \/ k \in Queued(s)

\* Locker l itself is where it should be.
Own(t, qs, at, l) ==
    /\ Held(t.req[l]) => l \in Granted(t) \/ InParts(qs, l)
    /\ t.req[l].status = "WAITING" => l \in Queued(t)
    /\ InParts(qs, l) => PartitionedRequest(t, l, GetPartition(l))
    /\ ThreadInv(t.req[l], at, InParts(qs, l))

\* The partitions are lists of their lockers, and none is closed.
Layout(s, t, qs) ==
    /\ qs \in [Partitions -> Seq(Lockers)]
    /\ \A p \in Partitions : Once(qs[p]) /\ \A k \in ToSet(qs[p]) : p = GetPartition(k)
    /\ ToSet(s.lock.partitions) \subseteq ToSet(t.lock.partitions)
    /\ t.lock.partitions # <<>> => IntentHead(t)

LEMMA ReqTyped ==
    ASSUME NEW s, Well(s), NEW l \in Lockers
    PROVE  s.req[l] \in RequestType
  <1>1. s.req \in [Lockers -> RequestType]
    BY StateFacts DEF Well
  <1> QED
    BY <1>1

LEMMA ListedStatus ==
    ASSUME NEW s, Well(s), NEW l
    PROVE  /\ l \in Granted(s) => Held(s.req[l]) /\ s.req[l].status # "WAITING"
           /\ l \in Queued(s) => s.req[l].status = "WAITING" /\ ~Held(s.req[l])
  BY DEF Well, Listed, GrantedRequest, WaitingRequest, Held

LEMMA InvKept ==
    ASSUME NEW s, NEW ps, NEW c, Inv(s, ps, c), NEW t, Well(t), NEW qs,
           NEW cc \in [Lockers -> Positions], NEW l \in Lockers,
           Others(s, ps, c, t, qs, cc, l), Own(t, qs, cc[l], l), Layout(s, t, qs)
    PROVE  Inv(t, qs, cc)
  <1>1. ASSUME NEW k \in Lockers \ {l}
        PROVE  /\ s.req[k] \in RequestType /\ t.req[k] \in RequestType
               /\ Moved(s.req[k], t.req[k])
               /\ cc[k] = c[k]
               /\ InParts(qs, k) <=> InParts(ps, k)
               /\ k \in Granted(t) \/ k \in Queued(t) <=> k \in Granted(s) \/ k \in Queued(s)
    BY ReqTyped DEF Inv, Others
  <1>2. ASSUME NEW k \in Lockers
        PROVE  InParts(qs, k) => PartitionedRequest(t, k, GetPartition(k))
    <2>1. CASE k = l
      BY <2>1 DEF Own
    <2>2. CASE k # l /\ InParts(qs, k)
      <3>1. PartitionedRequest(s, k, GetPartition(k))
        <4>1. k \in ToSet(ps[GetPartition(k)])
          BY <1>1, <2>2 DEF InParts
        <4> QED
          BY <4>1, PartitionFacts DEF Inv, PartsInv
      <3>2. s.req[k].status = "GRANTED" /\ k \notin Granted(s)
        BY <3>1 DEF PartitionedRequest
      <3>3. k \notin Granted(s) /\ k \notin Queued(s)
        BY <3>2, ListedStatus DEF Inv
      <3>4. k \notin Granted(t)
        BY <1>1, <2>2, <3>3
      <3>5. t.req[k] = s.req[k]
        BY <1>1, <2>2, <3>2 DEF Moved
      <3> QED
        BY <3>1, <3>4, <3>5 DEF PartitionedRequest, Layout
    <2> QED
      BY <2>1, <2>2
  <1>3. PartsInv(t, qs)
    <2> SUFFICES ASSUME NEW p \in Partitions
                 PROVE  Once(qs[p]) /\ \A k \in ToSet(qs[p]) : PartitionedRequest(t, k, p)
      BY DEF PartsInv
    <2>1. Once(qs[p]) /\ qs[p] \in Seq(Lockers)
      BY DEF Layout
    <2>2. ASSUME NEW k \in ToSet(qs[p]) PROVE PartitionedRequest(t, k, p)
      <3>1. p = GetPartition(k) /\ k \in Lockers
        BY <2>1, ListFacts DEF Layout
      <3> QED
        BY <1>2, <3>1 DEF InParts
    <2> QED
      BY <2>1, <2>2
  <1>4. HoldInv(t, qs)
    <2> SUFFICES ASSUME NEW k \in Lockers
                 PROVE  /\ Held(t.req[k]) => k \in Granted(t) \/ InParts(qs, k)
                        /\ t.req[k].status = "WAITING" => k \in Queued(t)
      BY DEF HoldInv
    <2>1. CASE k = l
      BY <2>1 DEF Own
    <2>2. CASE k # l
      <3>1. /\ Held(s.req[k]) => k \in Granted(s) \/ InParts(ps, k)
            /\ s.req[k].status = "WAITING" => k \in Queued(s)
        BY DEF Inv, HoldInv
      <3>2. /\ Held(t.req[k]) => Held(s.req[k]) \/ s.req[k].status = "WAITING"
            /\ t.req[k].status = "WAITING" => s.req[k].status = "WAITING"
        BY <1>1, <2>2, MovedFields DEF Held
      <3>3. /\ k \in Granted(t) => Held(t.req[k]) /\ t.req[k].status # "WAITING"
            /\ k \in Queued(t) => t.req[k].status = "WAITING" /\ ~Held(t.req[k])
        BY ListedStatus
      <3> QED
        BY <1>1, <2>2, <3>1, <3>2, <3>3
    <2> QED
      BY <2>1, <2>2
  <1>5. ASSUME NEW k \in Lockers PROVE ThreadInv(t.req[k], cc[k], InParts(qs, k))
    <2>1. CASE k = l
      BY <2>1 DEF Own
    <2>2. CASE k # l
      <3>1. ThreadInv(s.req[k], c[k], InParts(ps, k))
        BY DEF Inv
      <3>2. InParts(qs, k) => InParts(ps, k)
        BY <1>1, <2>2
      <3>3. s.req[k] \in RequestType /\ Moved(s.req[k], t.req[k]) /\ cc[k] = c[k]
        BY <1>1, <2>2
      <3> QED
        BY <3>1, <3>2, <3>3, ThreadMoved
    <2> QED
      BY <2>1, <2>2
  <1> QED
    BY <1>3, <1>4, <1>5 DEF Inv, Layout

\* After the migration the lock is not partitioned and nobody is in a partition.
LEMMA MigratedInv ==
    ASSUME NEW rs, Inv(NowWith(rs), parts, pc), NEW s, s = Migrated(rs)
    PROVE  Inv(s, NoPartitionedRequests, pc)
  <1> DEFINE none == NoPartitionedRequests
  <1>1. /\ Well(s) /\ s.req = rs
        /\ Granted(s) = Granted(Now) \cup {l \in Lockers : InParts(parts, l)}
        /\ Queued(s) = Queued(Now)
        /\ s.lock.partitions = <<>>
    BY MigrationMoves
  <1>2. /\ none \in [Partitions -> Seq(Lockers)]
        /\ \A p \in Partitions : Once(none[p]) /\ ToSet(none[p]) = {}
    BY DEF NoPartitionedRequests, Once, ToSet
  <1>3. \A l \in Lockers : ~InParts(none, l)
    BY <1>2, PartitionFacts DEF InParts
  <1>4. PartsInv(s, none)
    BY <1>2 DEF PartsInv
  <1>5. HoldInv(s, none)
    BY <1>1 DEF Inv, HoldInv, NowWith, Now, Granted, Queued
  <1>6. ASSUME NEW l \in Lockers PROVE ThreadInv(s.req[l], pc[l], InParts(none, l))
    <2>1. ThreadInv(rs[l], pc[l], InParts(parts, l)) /\ rs[l] \in RequestType
      BY ReqTyped DEF Inv, NowWith
    <2>2. Moved(rs[l], rs[l]) /\ (InParts(none, l) => InParts(parts, l))
      BY <1>3 DEF Moved
    <2> QED
      BY <1>1, <2>1, <2>2, ThreadMoved
  <1> QED
    BY <1>1, <1>2, <1>4, <1>5, <1>6 DEF Inv

\* The fields of a request that its lists and partitions are about.
SameStanding(r, rr) ==
    /\ rr.status = r.status
    /\ r.status # "NEW" =>
         /\ rr.mode = r.mode
         /\ rr.convertMode = r.convertMode
         /\ rr.compatibleFirst = r.compatibleFirst
         /\ rr.partitioned = r.partitioned

\* A step of one thread that leaves the lock head and the partitions alone.
LEMMA ThreadStep ==
    ASSUME NEW s, NEW ps, NEW c, Inv(s, ps, c), NEW t \in State, t.lock = s.lock,
           NEW l \in Lockers, \A k \in Lockers \ {l} : t.req[k] = s.req[k],
           SameStanding(s.req[l], t.req[l]),
           NEW at \in Positions, NEW cc, cc = [c EXCEPT ![l] = at],
           ThreadInv(t.req[l], at, InParts(ps, l))
    PROVE  Inv(t, ps, cc)
  <1>1. c \in [Lockers -> Positions] /\ Well(s) /\ ps \in [Partitions -> Seq(Lockers)]
    BY DEF Inv
  <1>2. cc \in [Lockers -> Positions] /\ cc[l] = at /\ \A k \in Lockers \ {l} : cc[k] = c[k]
    BY <1>1
  <1>3. l \in Granted(s) \/ l \in Queued(s) \/ InParts(ps, l) => s.req[l].status # "NEW"
    <2>1. InParts(ps, l) => s.req[l].status # "NEW"
      BY PartitionFacts DEF Inv, PartsInv, InParts, PartitionedRequest
    <2> QED
      BY <1>1, <2>1, ListedStatus DEF Held
  <1>4. \A k \in Granted(s) \cup Queued(s) :
          /\ t.req[k].status = s.req[k].status
          /\ t.req[k].mode = s.req[k].mode
          /\ t.req[k].convertMode = s.req[k].convertMode
          /\ t.req[k].compatibleFirst = s.req[k].compatibleFirst
    <2>1. Granted(s) \subseteq Lockers /\ Queued(s) \subseteq Lockers
      BY <1>1, StateFacts DEF Well
    <2>2. \A k \in Granted(s) \cup Queued(s) : k # l => t.req[k] = s.req[k]
      BY <2>1
    <2> QED
      BY <1>3, <2>2 DEF SameStanding
  <1>5. Well(t) /\ Granted(t) = Granted(s) /\ Queued(t) = Queued(s)
    BY <1>1, <1>4, WellSame
  <1>6. Others(s, ps, c, t, ps, cc, l)
    BY <1>2, <1>5 DEF Others, Moved
  <1>7. Own(t, ps, cc[l], l)
    <2>1. /\ Held(s.req[l]) => l \in Granted(s) \/ InParts(ps, l)
          /\ s.req[l].status = "WAITING" => l \in Queued(s)
      BY DEF Inv, HoldInv
    <2>2. InParts(ps, l) => PartitionedRequest(s, l, GetPartition(l))
      BY PartitionFacts DEF Inv, PartsInv, InParts
    <2>3. InParts(ps, l) => PartitionedRequest(t, l, GetPartition(l))
      BY <1>3, <1>5, <2>2 DEF PartitionedRequest, SameStanding
    <2> QED
      BY <1>2, <1>5, <2>1, <2>3 DEF Own, Held, SameStanding
  <1>8. Layout(s, t, ps)
    <2>1. t.lock.partitions # <<>> => IntentHead(t)
      BY <1>4, <1>5 DEF Inv, IntentHead
    <2>2. \A p \in Partitions : Once(ps[p]) /\ \A k \in ToSet(ps[p]) : p = GetPartition(k)
      BY DEF Inv, PartsInv, PartitionedRequest
    <2> QED
      BY <1>1, <2>1, <2>2 DEF Layout
  <1> QED
    BY <1>2, <1>5, <1>6, <1>7, <1>8, InvKept

\* The lists and the counts are the same: only the partitions may differ.
SameLists(s, t) ==
    /\ t.lock.grantedList = s.lock.grantedList
    /\ t.lock.conflictList = s.lock.conflictList
    /\ t.lock.grantedCounts = s.lock.grantedCounts
    /\ t.lock.conflictCounts = s.lock.conflictCounts
    /\ t.lock.conversionsCount = s.lock.conversionsCount
    /\ t.lock.compatibleFirstCount = s.lock.compatibleFirstCount

\* A step that puts l, who is not on the lists, into its partition or takes it out.
LEMMA PartitionStep ==
    ASSUME NEW s, NEW ps, NEW c, Inv(s, ps, c), NEW t \in State, NEW l \in Lockers,
           l \notin Granted(s), l \notin Queued(s),
           \A k \in Lockers \ {l} : t.req[k] = s.req[k],
           SameLists(s, t),
           ToSet(s.lock.partitions) \subseteq ToSet(t.lock.partitions),
           t.lock.partitions # <<>> => IntentHead(s),
           NEW list \in Seq(Lockers), Once(list),
           ToSet(list) \ {l} = ToSet(ps[GetPartition(l)]) \ {l},
           NEW qs, qs = [ps EXCEPT ![GetPartition(l)] = list],
           NEW cc, cc = [c EXCEPT ![l] = "idle"],
           l \in ToSet(list) => PartitionedRequest(t, l, GetPartition(l)),
           l \notin ToSet(list) => t.req[l].status = "NEW",
           t.req[l].recursiveCount > 0
    PROVE  Inv(t, qs, cc)
  <1> DEFINE P == GetPartition(l)
  <1>1. c \in [Lockers -> Positions] /\ Well(s) /\ ps \in [Partitions -> Seq(Lockers)]
    BY DEF Inv
  <1>2. cc \in [Lockers -> Positions] /\ cc[l] = "idle"
        /\ \A k \in Lockers \ {l} : cc[k] = c[k]
    BY <1>1 DEF Positions
  <1>3. P \in Partitions /\ qs \in [Partitions -> Seq(Lockers)] /\ qs[P] = list
        /\ \A p \in Partitions \ {P} : qs[p] = ps[p]
    BY <1>1, PartitionFacts
  <1>4. Granted(s) \subseteq Lockers \ {l} /\ Queued(s) \subseteq Lockers \ {l}
    BY <1>1, StateFacts DEF Well
  <1>5. Well(t) /\ Granted(t) = Granted(s) /\ Queued(t) = Queued(s)
    BY <1>1, <1>4, WellSame DEF SameLists
  <1> HIDE DEF P
  <1>6. \A k \in Lockers \ {l} : InParts(qs, k) <=> InParts(ps, k)
    <2> SUFFICES ASSUME NEW k \in Lockers \ {l}
                 PROVE  k \in ToSet(qs[GetPartition(k)]) <=> k \in ToSet(ps[GetPartition(k)])
      BY DEF InParts
    <2>1. GetPartition(k) \in Partitions
      BY PartitionFacts
    <2>2. k \in ToSet(list) <=> k \in ToSet(ps[P])
      BY DEF P
    <2> QED
      BY <1>3, <2>1, <2>2
  <1>7. Others(s, ps, c, t, qs, cc, l)
    BY <1>2, <1>5, <1>6 DEF Others, Moved
  <1>8. Own(t, qs, cc[l], l)
    <2>1. InParts(qs, l) <=> l \in ToSet(list)
      BY <1>3 DEF InParts, P
    <2>2. l \in ToSet(list) => t.req[l].status = "GRANTED"
      BY DEF PartitionedRequest
    <2>3. ThreadInv(t.req[l], cc[l], InParts(qs, l))
      BY <1>2, <2>2 DEF ThreadInv
    <2>4. Held(t.req[l]) => InParts(qs, l)
      BY <2>1 DEF Held
    <2>5. t.req[l].status # "WAITING"
      BY <2>2
    <2> QED
      BY <2>1, <2>3, <2>4, <2>5 DEF Own
  <1>9. Layout(s, t, qs)
    <2>1. t.lock.partitions # <<>> => IntentHead(t)
      BY <1>4, <1>5 DEF IntentHead
    <2>2. \A p \in Partitions : Once(ps[p]) /\ \A k \in ToSet(ps[p]) : p = GetPartition(k)
      BY DEF Inv, PartsInv, PartitionedRequest
    <2>3. \A k \in ToSet(list) : P = GetPartition(k)
      <3>1. \A k \in ToSet(list) : k # l => k \in ToSet(ps[P])
        BY DEF P
      <3> QED
        BY <1>3, <2>2, <3>1 DEF P
    <2>4. \A p \in Partitions : Once(qs[p]) /\ \A k \in ToSet(qs[p]) : p = GetPartition(k)
      BY <1>3, <2>2, <2>3
    <2> QED
      BY <1>3, <2>1, <2>4 DEF Layout
  <1> QED
    BY <1>2, <1>5, <1>7, <1>8, <1>9, InvKept

LEMMA ServesIntent ==
    ASSUME NEW u, NEW v, Well(u), Serves(u, v), IntentHead(u)
    PROVE  IntentHead(v)
  <1>1. /\ Well(v) /\ Granted(u) \subseteq Granted(v) /\ Queued(u) = {}
        /\ Granted(v) \cup Queued(v) = Granted(u) \cup Queued(u)
    BY DEF Serves, IntentHead
  <1>2. \A k \in Queued(v) : k \notin Granted(v)
    BY <1>1, ListedStatus
  <1>3. Queued(v) = {} /\ Granted(v) = Granted(u)
    BY <1>1, <1>2
  <1>4. ASSUME NEW k \in Granted(u)
        PROVE  v.req[k].mode \in IntentModes /\ v.req[k].convertMode \in IntentModes \cup {"NONE"}
    <2>1. k \in Lockers
      BY StateFacts DEF Well
    <2>2. Moved(u.req[k], v.req[k]) /\ u.req[k] \in RequestType
      BY <2>1, ReqTyped DEF Serves
    <2>3. /\ u.req[k].mode \in IntentModes /\ u.req[k].convertMode \in IntentModes \cup {"NONE"}
          /\ GrantedRequest(u.req[k])
      BY DEF IntentHead, Well, Listed
    <2>4. u.req[k].status = "CONVERTING" => u.req[k].convertMode \in IntentModes
      BY <2>3 DEF GrantedRequest, Modes
    <2> QED
      BY <2>2, <2>3, <2>4, MovedFields
  <1> QED
    BY <1>3, <1>4 DEF IntentHead

\* What locker l did to the lists; the others are as they were.
OneLeaves(s, u, l) ==
    /\ \A k \in Lockers \ {l} : u.req[k] = s.req[k]
    /\ Granted(u) \ {l} = Granted(s) \ {l}
    /\ Queued(u) \ {l} = Queued(s) \ {l}
    /\ u.lock.partitions = s.lock.partitions
    /\ u.lock.partitions # <<>> => IntentHead(u)

\* What is left of l's request after the others have been served.
Settled(v, t, l) ==
    /\ t.lock = v.lock
    /\ \A k \in Lockers \ {l} : t.req[k] = v.req[k]
    /\ IF l \in Granted(v) \/ l \in Queued(v) THEN t.req[l] = v.req[l]
                                              ELSE t.req[l].status = "NEW"

LEMMA SettledWell ==
    ASSUME NEW v, Well(v), NEW t \in State, NEW l \in Lockers, Settled(v, t, l)
    PROVE  /\ Well(t) /\ Granted(t) = Granted(v) /\ Queued(t) = Queued(v)
           /\ \A k \in Granted(v) \cup Queued(v) : t.req[k] = v.req[k]
  <1>1. Granted(v) \subseteq Lockers /\ Queued(v) \subseteq Lockers
    BY StateFacts DEF Well
  <1>2. \A k \in Granted(v) \cup Queued(v) : t.req[k] = v.req[k]
    BY <1>1 DEF Settled
  <1>3. t.lock = v.lock
    BY DEF Settled
  <1> QED
    BY <1>2, <1>3, WellSame

\* A step of l at the lock head, after which the others are served.
LEMMA HeadStep ==
    ASSUME NEW s, NEW ps, NEW c, Inv(s, ps, c), NEW l \in Lockers, ~InParts(ps, l),
           NEW u, Well(u), OneLeaves(s, u, l), NEW v, Serves(u, v),
           NEW t \in State, Settled(v, t, l),
           NEW at \in Positions, NEW cc, cc = [c EXCEPT ![l] = at],
           ThreadInv(t.req[l], at, FALSE)
    PROVE  Inv(t, ps, cc)
  <1>1. c \in [Lockers -> Positions] /\ Well(s) /\ ps \in [Partitions -> Seq(Lockers)]
    BY DEF Inv
  <1>2. cc \in [Lockers -> Positions] /\ cc[l] = at /\ \A k \in Lockers \ {l} : cc[k] = c[k]
    BY <1>1
  <1>3. /\ Well(v) /\ Granted(v) \cup Queued(v) = Granted(u) \cup Queued(u)
        /\ v.lock.partitions = u.lock.partitions
        /\ \A k \in Lockers : Moved(u.req[k], v.req[k])
    BY DEF Serves
  <1>4. /\ Well(t) /\ Granted(t) = Granted(v) /\ Queued(t) = Queued(v)
        /\ \A k \in Granted(v) \cup Queued(v) : t.req[k] = v.req[k]
    BY <1>3, SettledWell
  <1>5. Others(s, ps, c, t, ps, cc, l)
    <2> SUFFICES ASSUME NEW k \in Lockers \ {l}
                 PROVE  /\ Moved(s.req[k], t.req[k])
                        /\ cc[k] = c[k]
                        /\ k \in Granted(t) \/ k \in Queued(t)
                             <=> k \in Granted(s) \/ k \in Queued(s)
      BY DEF Others
    <2>1. u.req[k] = s.req[k] /\ t.req[k] = v.req[k]
      BY DEF OneLeaves, Settled
    <2>2. /\ k \in Granted(u) <=> k \in Granted(s)
          /\ k \in Queued(u) <=> k \in Queued(s)
      BY DEF OneLeaves
    <2>3. k \in Granted(v) \/ k \in Queued(v) <=> k \in Granted(u) \/ k \in Queued(u)
      BY <1>3
    <2> QED
      BY <1>2, <1>3, <1>4, <2>1, <2>2, <2>3
  <1>6. Own(t, ps, cc[l], l)
    <2>1. /\ l \in Granted(t) => Held(t.req[l]) /\ t.req[l].status # "WAITING"
          /\ l \in Queued(t) => t.req[l].status = "WAITING" /\ ~Held(t.req[l])
      BY <1>4, ListedStatus
    <2>2. l \in Granted(t) \/ l \in Queued(t) \/ t.req[l].status = "NEW"
      BY <1>4 DEF Settled
    <2>3. ThreadInv(t.req[l], cc[l], InParts(ps, l))
      BY <1>2 DEF ThreadInv
    <2> QED
      BY <2>1, <2>2, <2>3 DEF Own, Held
  <1>7. Layout(s, t, ps)
    <2>1. t.lock.partitions = s.lock.partitions
      BY <1>3 DEF OneLeaves, Settled
    <2>2. t.lock.partitions # <<>> => IntentHead(t)
      <3>1. u.lock.partitions # <<>> => IntentHead(v)
        BY ServesIntent DEF OneLeaves
      <3>2. IntentHead(v) => IntentHead(t)
        BY <1>4 DEF IntentHead
      <3> QED
        BY <2>1, <3>1, <3>2 DEF OneLeaves
    <2>3. \A p \in Partitions : Once(ps[p]) /\ \A k \in ToSet(ps[p]) : p = GetPartition(k)
      BY DEF Inv, PartsInv, PartitionedRequest
    <2> QED
      BY <1>1, <2>1, <2>2, <2>3 DEF Layout
  <1> QED
    BY <1>2, <1>4, <1>5, <1>6, <1>7, InvKept

-----------------------------------------------------------------------------
(* The steps of the lockers keep the invariant *)

LEMMA NowFacts ==
    ASSUME IInv
    PROVE  /\ priority \in BOOLEAN /\ Inv(Now, parts, pc) /\ Inv(NowWith(req), parts, pc)
           /\ Well(Now) /\ Now.req = req /\ Now.lock = lock
           /\ req \in [Lockers -> RequestType] /\ lock \in LockHeadType
           /\ parts \in [Partitions -> Seq(Lockers)]
           /\ pc \in [Lockers -> Positions]
  <1>1. priority \in BOOLEAN /\ Inv(Now, parts, pc)
    BY DEF IInv
  <1>2. Well(Now) /\ parts \in [Partitions -> Seq(Lockers)] /\ pc \in [Lockers -> Positions]
    BY <1>1 DEF Inv
  <1>3. Now.req = req /\ Now.lock = lock
    BY DEF Now
  <1>4. Now.req \in [Lockers -> RequestType] /\ Now.lock \in LockHeadType
    BY <1>2, StateFacts DEF Well
  <1>5. NowWith(req) = Now
    BY DEF NowWith, Now
  <1> QED
    BY <1>1, <1>2, <1>3, <1>4, <1>5

LEMMA NextHolds ==
    ASSUME IInv, priority' = priority, NEW t, t = [req |-> req', lock |-> lock'],
           Inv(t, parts', pc')
    PROVE  IInv'
  BY DEF IInv, Now

LEMMA NewIsNowhere ==
    ASSUME NEW s, NEW ps, NEW c, Inv(s, ps, c), NEW l \in Lockers, s.req[l].status = "NEW"
    PROVE  l \notin Granted(s) /\ l \notin Queued(s) /\ ~InParts(ps, l)
  <1>1. l \notin Granted(s) /\ l \notin Queued(s)
    BY ListedStatus DEF Inv, Held
  <1>2. ~InParts(ps, l)
    BY PartitionFacts DEF Inv, PartsInv, InParts, PartitionedRequest
  <1> QED
    BY <1>1, <1>2

\* Whoever holds the lock and is not in a partition is on the granted list.
LEMMA HeldIsGranted ==
    ASSUME NEW s, NEW ps, NEW c, Inv(s, ps, c), NEW l \in Lockers
    PROVE  /\ s.req[l].status = "GRANTED" /\ ~InParts(ps, l) => l \in Granted(s)
           /\ s.req[l].status = "WAITING" => l \in Queued(s)
           /\ InParts(ps, l) => PartitionedRequest(s, l, GetPartition(l))
  <1>1. InParts(ps, l) => PartitionedRequest(s, l, GetPartition(l))
    BY PartitionFacts DEF Inv, PartsInv, InParts
  <1> QED
    BY <1>1 DEF Inv, HoldInv, Held

\* The first request of lockBegin.
Asked(mode, status) ==
    [NewLockRequest EXCEPT !.status = status, !.mode = mode,
                           !.partitioned = mode \in IntentModes,
                           !.enqueueAtFront = GoesFirst(mode),
                           !.compatibleFirst = GoesFirst(mode)]

LEMMA AskedFacts ==
    ASSUME NEW mode \in Modes, NEW status \in {"NEW", "GRANTED"}
    PROVE  /\ Asked(mode, status) \in RequestType
           /\ Asked(mode, status).status = status
           /\ Asked(mode, status).mode = mode
           /\ Asked(mode, status).convertMode = "NONE"
           /\ Asked(mode, status).recursiveCount = 1
           /\ Asked(mode, status).partitioned = (mode \in IntentModes)
           /\ Asked(mode, status).compatibleFirst = GoesFirst(mode)
           /\ Asked(mode, status).enqueueAtFront = GoesFirst(mode)
           /\ NewLockRequest \in RequestType
  <1>1. 1 \in 0 .. MaxRecursion
    BY RecursionAssumption
  <1>2. GoesFirst(mode) \in BOOLEAN /\ (mode \in IntentModes) \in BOOLEAN
    BY DEF GoesFirst
  <1>3. Asked(mode, status) =
          [status |-> status, mode |-> mode, convertMode |-> "NONE",
           recursiveCount |-> 1, partitioned |-> mode \in IntentModes,
           enqueueAtFront |-> GoesFirst(mode), compatibleFirst |-> GoesFirst(mode)]
    <2> DEFINE b == mode \in IntentModes
               g == GoesFirst(mode)
    <2>1. Asked(mode, status) =
            [[status |-> "NEW", mode |-> "NONE", convertMode |-> "NONE",
              recursiveCount |-> 1, partitioned |-> FALSE,
              enqueueAtFront |-> FALSE, compatibleFirst |-> FALSE]
             EXCEPT !.status = status, !.mode = mode, !.partitioned = b,
                    !.enqueueAtFront = g, !.compatibleFirst = g]
      BY DEF Asked, NewLockRequest
    <2> HIDE DEF b, g
    <2>2. Asked(mode, status) =
            [status |-> status, mode |-> mode, convertMode |-> "NONE",
             recursiveCount |-> 1, partitioned |-> b,
             enqueueAtFront |-> g, compatibleFirst |-> g]
      BY <2>1
    <2> QED
      BY <2>2 DEF b, g
  <1> QED
    BY <1>1, <1>2, <1>3 DEF RequestType, NewLockRequest

LEMMA LockBeginKeeps ==
    ASSUME IInv, NEW l \in Lockers, NEW mode \in Modes, LockBegin(l, mode)
    PROVE  IInv'
  <1> DEFINE t == [req |-> req', lock |-> lock']
             P == GetPartition(l)
             fast == mode \in IntentModes /\ HasPartitionedLockHead(P)
             status == IF fast THEN "GRANTED" ELSE "NEW"
             r == Asked(mode, status)
  <1>1. /\ Inv(Now, parts, pc) /\ Now.req = req /\ Now.lock = lock
        /\ req \in [Lockers -> RequestType] /\ lock \in LockHeadType
        /\ parts \in [Partitions -> Seq(Lockers)] /\ pc \in [Lockers -> Positions]
    BY NowFacts
  <1>2. /\ req' = [req EXCEPT ![l] = r] /\ lock' = lock /\ priority' = priority
        /\ req[l].status = "NEW" /\ pc[l] = "idle"
        /\ parts' = IF fast THEN [parts EXCEPT ![P] = Append(@, l)] ELSE parts
        /\ pc' = [pc EXCEPT ![l] = IF fast THEN "idle" ELSE "lock"]
    BY DEF LockBegin, Asked
  <1>3. status \in {"NEW", "GRANTED"}
    OBVIOUS
  <1> HIDE DEF status
  <1>4. /\ r \in RequestType /\ r.status = status /\ r.mode = mode /\ r.convertMode = "NONE"
        /\ r.recursiveCount = 1 /\ r.partitioned = (mode \in IntentModes)
    BY <1>3, AskedFacts
  <1> HIDE DEF r
  <1>5. req' \in [Lockers -> RequestType] /\ req'[l] = r
        /\ \A k \in Lockers \ {l} : req'[k] = req[k]
    BY <1>1, <1>2, <1>4
  <1>6. t \in State /\ t.req = req' /\ t.lock = lock
    BY <1>1, <1>2, <1>5 DEF State
  <1>7. l \notin Granted(Now) /\ l \notin Queued(Now) /\ ~InParts(parts, l)
    BY <1>1, <1>2, NewIsNowhere
  <1>8. Inv(t, parts', pc')
    <2>1. CASE ~fast
      <3>1. status = "NEW" /\ parts' = parts /\ pc' = [pc EXCEPT ![l] = "lock"]
        BY <1>2, <2>1 DEF status
      <3>2. SameStanding(Now.req[l], t.req[l])
        BY <1>1, <1>2, <1>4, <1>5, <1>6, <3>1 DEF SameStanding
      <3>3. ThreadInv(t.req[l], "lock", InParts(parts, l))
        BY <1>4, <1>5, <1>6, <3>1 DEF ThreadInv
      <3>4. "lock" \in Positions
        BY DEF Positions
      <3>5. t.lock = Now.lock /\ \A k \in Lockers \ {l} : t.req[k] = Now.req[k]
        BY <1>1, <1>5, <1>6
      <3> HIDE DEF t, fast, P
      <3> QED
        BY <1>1, <1>6, <3>1, <3>2, <3>3, <3>4, <3>5, ThreadStep
    <2>2. CASE fast
      <3> DEFINE list == Append(parts[P], l)
      <3>1. status = "GRANTED" /\ parts' = [parts EXCEPT ![P] = list]
            /\ pc' = [pc EXCEPT ![l] = "idle"]
        BY <1>2, <2>2 DEF status
      <3>2. P \in Partitions /\ parts[P] \in Seq(Lockers) /\ Once(parts[P]) /\ l \notin ToSet(parts[P])
        BY <1>1, <1>7, PartitionFacts DEF Inv, PartsInv, InParts
      <3>3. list \in Seq(Lockers) /\ Once(list) /\ ToSet(list) = ToSet(parts[P]) \cup {l}
        BY <3>2, AppendFacts
      <3>4. mode \in IntentModes /\ P \in ToSet(lock.partitions)
        BY <2>2 DEF HasPartitionedLockHead
      <3>5. SameLists(Now, t) /\ Granted(t) = Granted(Now)
        BY <1>1, <1>6 DEF SameLists, Granted
      <3>6. PartitionedRequest(t, l, P)
        BY <1>4, <1>5, <1>6, <1>7, <3>1, <3>4, <3>5 DEF PartitionedRequest
      <3>7. t.lock.partitions # <<>> => IntentHead(Now)
        BY <1>1, <1>6 DEF Inv
      <3>8. t.req[l].recursiveCount > 0
        BY <1>4, <1>5, <1>6
      <3>9. ToSet(list) \ {l} = ToSet(parts[P]) \ {l} /\ l \in ToSet(list)
        BY <3>3
      <3>10. ToSet(Now.lock.partitions) \subseteq ToSet(t.lock.partitions)
        BY <1>1, <1>6
      <3>11. \A k \in Lockers \ {l} : t.req[k] = Now.req[k]
        BY <1>1, <1>5, <1>6
      <3> HIDE DEF t, fast, list
      <3> QED
        BY <1>1, <1>6, <1>7, <3>1, <3>3, <3>5, <3>6, <3>7, <3>8, <3>9, <3>10, <3>11,
           PartitionStep DEF P
    <2> QED
      BY <2>1, <2>2
  <1> HIDE DEF fast, P
  <1> QED
    BY <1>2, <1>8, NextHolds

LEMMA ThreadKeeps ==
    ASSUME IInv, NEW l \in Lockers, priority' = priority, lock' = lock, parts' = parts,
           NEW r \in RequestType, req' = [req EXCEPT ![l] = r], SameStanding(req[l], r),
           NEW at \in Positions, pc' = [pc EXCEPT ![l] = at],
           ThreadInv(r, at, InParts(parts, l))
    PROVE  IInv'
  <1> DEFINE t == [req |-> req', lock |-> lock']
  <1>1. /\ Inv(Now, parts, pc) /\ Now.req = req /\ Now.lock = lock
        /\ req \in [Lockers -> RequestType] /\ lock \in LockHeadType
    BY NowFacts
  <1>2. /\ t \in State /\ t.lock = Now.lock /\ t.req[l] = r
        /\ \A k \in Lockers \ {l} : t.req[k] = Now.req[k]
    BY <1>1 DEF State
  <1> HIDE DEF t
  <1>3. Inv(t, parts, pc')
    BY <1>1, <1>2, ThreadStep
  <1> QED
    BY <1>3, NextHolds DEF t

LEMMA ConvertCoveredKeeps ==
    ASSUME IInv, NEW l \in Lockers, NEW mode \in Modes, ConvertCovered(l, mode)
    PROVE  IInv'
  <1> DEFINE r == [req[l] EXCEPT !.recursiveCount = @ + 1]
  <1>1. /\ req \in [Lockers -> RequestType] /\ Inv(Now, parts, pc) /\ Now.req = req
        /\ pc \in [Lockers -> Positions]
    BY NowFacts
  <1>2. /\ req' = [req EXCEPT ![l] = r] /\ lock' = lock /\ priority' = priority
        /\ parts' = parts /\ pc' = [pc EXCEPT ![l] = "idle"] /\ pc[l] = "idle"
        /\ req[l].status = "GRANTED" /\ req[l].recursiveCount < MaxRecursion
    BY <1>1 DEF ConvertCovered
  <1>3. req[l].recursiveCount + 1 \in 0 .. MaxRecursion /\ req[l] \in RequestType
    BY <1>1, <1>2, RecursionAssumption DEF RequestType
  <1>4. r \in RequestType /\ r.recursiveCount > 0 /\ SameStanding(req[l], r)
        /\ r.status = "GRANTED"
    BY <1>2, <1>3 DEF RequestType, SameStanding
  <1>5. ThreadInv(r, "idle", InParts(parts, l)) /\ "idle" \in Positions
    BY <1>4 DEF ThreadInv, Positions
  <1> HIDE DEF r
  <1> QED
    BY <1>2, <1>4, <1>5, ThreadKeeps

LEMMA LockCompleteKeeps ==
    ASSUME IInv, NEW l \in Lockers, LockComplete(l)
    PROVE  IInv'
  <1>1. /\ req \in [Lockers -> RequestType] /\ Inv(Now, parts, pc) /\ Now.req = req
    BY NowFacts
  <1>2. /\ req' = [req EXCEPT ![l] = req[l]] /\ lock' = lock /\ priority' = priority
        /\ parts' = parts /\ pc' = [pc EXCEPT ![l] = "idle"] /\ pc[l] = "waiting"
        /\ req[l].status = "GRANTED"
    BY <1>1 DEF LockComplete
  <1>3. ThreadInv(req[l], "waiting", InParts(parts, l))
    BY <1>1, <1>2 DEF Inv
  <1>4. ThreadInv(req[l], "idle", InParts(parts, l)) /\ "idle" \in Positions
    BY <1>2, <1>3 DEF ThreadInv, Positions
  <1>5. SameStanding(req[l], req[l]) /\ req[l] \in RequestType
    BY <1>1 DEF SameStanding
  <1> QED
    BY <1>2, <1>4, <1>5, ThreadKeeps

\* unlock() drops a reference of a request that is granted, of a conversion that
\* waits, or the only one of a request that waits; it goes on to the mutex unless
\* the request is granted and has references left.
LEMMA UnlockUnlockedKeeps ==
    ASSUME IInv, NEW l \in Lockers, UnlockUnlocked(l),
           \/ pc[l] = "idle" /\ req[l].status = "GRANTED"
           \/ pc[l] = "waiting"
    PROVE  IInv'
  <1> DEFINE count == req[l].recursiveCount - 1
             r == [req[l] EXCEPT !.recursiveCount = count]
             at == CASE req[l].status = "GRANTED" /\ count > 0 -> "idle"
                     [] ~(req[l].status = "GRANTED" /\ count > 0)
                          /\ req[l].partitioned -> "unlockPartition"
                     [] OTHER -> "unlock"
  <1>1. /\ req \in [Lockers -> RequestType] /\ Inv(Now, parts, pc) /\ Now.req = req
        /\ pc \in [Lockers -> Positions]
    BY NowFacts
  <1>2. /\ req' = [req EXCEPT ![l] = r] /\ lock' = lock /\ priority' = priority
        /\ parts' = parts /\ pc' = [pc EXCEPT ![l] = at]
    BY <1>1 DEF UnlockUnlocked
  <1>3. req[l] \in RequestType /\ req[l].recursiveCount \in 0 .. MaxRecursion
    BY <1>1 DEF RequestType
  <1>4. ThreadInv(req[l], pc[l], InParts(parts, l))
    BY <1>1 DEF Inv
  <1>5. /\ req[l].recursiveCount > 0 /\ req[l].status \in {"GRANTED", "WAITING", "CONVERTING"}
        /\ req[l].status = "WAITING" => req[l].recursiveCount = 1 /\ ~req[l].partitioned
                                          /\ ~InParts(parts, l)
        /\ req[l].status = "CONVERTING" => req[l].recursiveCount > 1 /\ ~InParts(parts, l)
    BY <1>3, <1>4 DEF ThreadInv
  <1>6. count \in 0 .. MaxRecursion /\ (count > 0 \/ count = 0)
        /\ (req[l].recursiveCount = 1 => count = 0)
        /\ (req[l].recursiveCount > 1 => count > 0)
    BY <1>3, <1>5, RecursionAssumption
  <1>7. InParts(parts, l) => req[l].partitioned
    BY <1>1, HeldIsGranted DEF PartitionedRequest
  <1> HIDE DEF count
  <1>8. /\ r \in RequestType /\ r.recursiveCount = count /\ r.status = req[l].status
        /\ r.partitioned = req[l].partitioned /\ SameStanding(req[l], r)
    BY <1>3, <1>6 DEF RequestType, SameStanding
  <1>9. at \in Positions /\ ThreadInv(r, at, InParts(parts, l))
    <2>1. CASE req[l].status = "GRANTED" /\ count > 0
      <3>1. at = "idle"
        BY <2>1
      <3> QED
        BY <2>1, <3>1, <1>8 DEF ThreadInv, Positions
    <2>2. CASE ~(req[l].status = "GRANTED" /\ count > 0) /\ req[l].partitioned
      <3>1. at = "unlockPartition"
        BY <2>2
      <3> QED
        BY <2>2, <3>1, <1>5, <1>6, <1>8 DEF ThreadInv, Positions
    <2>3. CASE ~(req[l].status = "GRANTED" /\ count > 0) /\ ~req[l].partitioned
      <3>1. at = "unlock"
        BY <2>3
      <3> QED
        BY <2>3, <3>1, <1>5, <1>6, <1>7, <1>8 DEF ThreadInv, Positions
    <2> QED
      BY <2>1, <2>2, <2>3
  <1> HIDE DEF r, at
  <1> QED
    BY <1>2, <1>8, <1>9, ThreadKeeps

LEMMA AbandonKeeps ==
    ASSUME IInv, NEW l \in Lockers, Abandon(l)
    PROVE  IInv'
  BY UnlockUnlockedKeeps DEF Abandon

LEMMA UnlockRSTLForPrepareKeeps ==
    ASSUME IInv, NEW l \in Lockers, UnlockRSTLForPrepare(l)
    PROVE  IInv'
  <1> DEFINE r == [req[l] EXCEPT !.recursiveCount = 0]
             at == IF req[l].partitioned THEN "unlockPartition" ELSE "unlock"
  <1>1. /\ req \in [Lockers -> RequestType] /\ Inv(Now, parts, pc) /\ Now.req = req
    BY NowFacts
  <1>2. /\ req' = [req EXCEPT ![l] = r] /\ lock' = lock /\ priority' = priority
        /\ parts' = parts /\ pc' = [pc EXCEPT ![l] = at] /\ req[l].status = "GRANTED"
    BY <1>1 DEF UnlockRSTLForPrepare
  <1>3. req[l] \in RequestType /\ 0 \in 0 .. MaxRecursion
    BY <1>1, RecursionAssumption
  <1>4. InParts(parts, l) => req[l].partitioned
    BY <1>1, HeldIsGranted DEF PartitionedRequest
  <1>5. /\ r \in RequestType /\ r.recursiveCount = 0 /\ r.status = "GRANTED"
        /\ SameStanding(req[l], r)
    BY <1>2, <1>3 DEF RequestType, SameStanding
  <1>6. at \in Positions /\ ThreadInv(r, at, InParts(parts, l))
    BY <1>4, <1>5 DEF ThreadInv, Positions
  <1> HIDE DEF r, at
  <1> QED
    BY <1>2, <1>5, <1>6, ThreadKeeps

LEMMA StartPartitionKeeps ==
    ASSUME IInv, NEW l \in Lockers, StartPartition(l)
    PROVE  IInv'
  <1> DEFINE t == [req |-> req', lock |-> lock']
             P == GetPartition(l)
             r == [req[l] EXCEPT !.status = "GRANTED"]
             heads == Append(lock.partitions, P)
             list == Append(parts[P], l)
  <1>1. /\ Inv(Now, parts, pc) /\ Well(Now) /\ Now.req = req /\ Now.lock = lock
        /\ req \in [Lockers -> RequestType] /\ lock \in LockHeadType
        /\ parts \in [Partitions -> Seq(Lockers)]
    BY NowFacts
  <1>2. /\ req' = [req EXCEPT ![l] = r] /\ lock' = [lock EXCEPT !.partitions = heads]
        /\ parts' = [parts EXCEPT ![P] = list] /\ pc' = [pc EXCEPT ![l] = "idle"]
        /\ priority' = priority /\ pc[l] = "lock" /\ MayPartition(l)
    BY <1>1, PartitionFacts DEF StartPartition
  <1>3. ThreadInv(req[l], "lock", InParts(parts, l)) /\ req[l] \in RequestType
    BY <1>1, <1>2 DEF Inv
  <1>4. /\ req[l].status = "NEW" /\ req[l].convertMode = "NONE" /\ req[l].partitioned
        /\ req[l].mode \in IntentModes /\ req[l].recursiveCount = 1
    BY <1>2, <1>3 DEF ThreadInv, MayPartition
  <1>5. /\ r \in RequestType /\ r.status = "GRANTED" /\ r.mode \in IntentModes
        /\ r.convertMode = "NONE" /\ r.partitioned /\ r.recursiveCount > 0
    BY <1>3, <1>4 DEF RequestType
  <1>6. l \notin Granted(Now) /\ l \notin Queued(Now) /\ l \notin ToSet(parts[P])
    BY <1>1, <1>4, NewIsNowhere DEF InParts
  <1>7. /\ lock.partitions \in Seq(Partitions) /\ P \in Partitions
        /\ parts[P] \in Seq(Lockers) /\ Once(parts[P])
    BY <1>1, PartitionFacts DEF LockHeadType, Inv, PartsInv
  <1>8. /\ heads \in Seq(Partitions) /\ P \in ToSet(heads)
        /\ ToSet(lock.partitions) \subseteq ToSet(heads)
    <2>1. heads \in Seq(Partitions) /\ Len(heads) = Len(lock.partitions) + 1
          /\ heads[Len(lock.partitions) + 1] = P
          /\ \A i \in 1 .. Len(lock.partitions) : heads[i] = lock.partitions[i]
      BY <1>7
    <2>2. \A i \in 1 .. Len(heads) : heads[i] \in ToSet(heads)
      BY <2>1, ListFacts
    <2>3. \A x \in ToSet(lock.partitions) :
            \E i \in 1 .. Len(lock.partitions) : lock.partitions[i] = x
      BY <1>7, ListFacts
    <2>4. Len(lock.partitions) \in Nat
      BY <1>7
    <2> HIDE DEF heads
    <2> QED
      BY <2>1, <2>2, <2>3, <2>4
  <1>9. /\ list \in Seq(Lockers) /\ Once(list) /\ l \in ToSet(list)
        /\ ToSet(list) \ {l} = ToSet(parts[P]) \ {l}
    BY <1>6, <1>7, AppendFacts
  <1>10. IntentHead(Now)
    <2>1. ModesOf(lock.grantedCounts) \subseteq IntentModes /\ ModesOf(lock.conflictCounts) = {}
      BY <1>2 DEF MayPartition
    <2>2. \A k \in Queued(Now) : req[k].mode \in Modes
      BY <1>1 DEF Well, Listed, WaitingRequest
    <2>3. Queued(Now) = {}
      BY <1>1, <2>1, <2>2, ModesShown
    <2>4. ASSUME NEW k \in Granted(Now)
          PROVE  req[k].mode \in IntentModes /\ req[k].convertMode \in IntentModes \cup {"NONE"}
      <3>1. req[k].mode \in Modes /\ req[k].convertMode \in Modes \cup {"NONE"}
        BY <1>1 DEF Well, Listed, GrantedRequest
      <3> QED
        BY <1>1, <2>1, <3>1, ModesShown
    <2> QED
      BY <1>1, <2>3, <2>4 DEF IntentHead
  <1> HIDE DEF heads, list, r
  <1>11. lock' \in LockHeadType /\ lock'.partitions = heads
    BY <1>1, <1>2, <1>8 DEF LockHeadType
  <1>12. t \in State /\ t.req = req' /\ t.lock = lock' /\ t.req[l] = r
         /\ \A k \in Lockers \ {l} : t.req[k] = Now.req[k]
    BY <1>1, <1>2, <1>5, <1>11 DEF State
  <1>13. SameLists(Now, t) /\ Granted(t) = Granted(Now)
    BY <1>1, <1>2, <1>12 DEF SameLists, LockHeadType, Granted
  <1>14. PartitionedRequest(t, l, P)
    BY <1>5, <1>6, <1>8, <1>11, <1>12, <1>13 DEF PartitionedRequest
  <1>15. ToSet(Now.lock.partitions) \subseteq ToSet(t.lock.partitions)
    BY <1>1, <1>8, <1>11, <1>12
  <1>16. t.req[l].recursiveCount > 0
    BY <1>5, <1>12
  <1> HIDE DEF t
  <1>17. Inv(t, parts', pc')
    BY <1>1, <1>2, <1>6, <1>9, <1>10, <1>12, <1>13, <1>14, <1>15, <1>16, PartitionStep DEF P
  <1> QED
    BY <1>2, <1>17, NextHolds DEF t

LEMMA UnlockPartitionKeeps ==
    ASSUME IInv, NEW l \in Lockers, UnlockPartition(l)
    PROVE  IInv'
  <1> DEFINE t == [req |-> req', lock |-> lock']
             P == GetPartition(l)
             list == Unlink(parts[P], l)
  <1>1. /\ Inv(Now, parts, pc) /\ Well(Now) /\ Now.req = req /\ Now.lock = lock
        /\ req \in [Lockers -> RequestType] /\ lock \in LockHeadType
        /\ parts \in [Partitions -> Seq(Lockers)]
    BY NowFacts
  <1>2. lock' = lock /\ priority' = priority /\ pc[l] = "unlockPartition"
    BY DEF UnlockPartition
  <1>3. ThreadInv(req[l], "unlockPartition", InParts(parts, l)) /\ req[l] \in RequestType
    BY <1>1, <1>2 DEF Inv
  <1>5. CASE l \notin ToSet(parts[P])
    <2>1. pc' = [pc EXCEPT ![l] = "unlock"] /\ parts' = parts /\ req' = [req EXCEPT ![l] = req[l]]
      BY <1>1, <1>5 DEF UnlockPartition
    <2>2. ThreadInv(req[l], "unlock", InParts(parts, l)) /\ "unlock" \in Positions
      BY <1>3, <1>5 DEF ThreadInv, Positions, InParts
    <2>3. SameStanding(req[l], req[l])
      BY DEF SameStanding
    <2> QED
      BY <1>2, <1>3, <2>1, <2>2, <2>3, ThreadKeeps
  <1>6. CASE l \in ToSet(parts[P])
    <2>1. /\ pc' = [pc EXCEPT ![l] = "idle"] /\ parts' = [parts EXCEPT ![P] = list]
          /\ req' = [req EXCEPT ![l] = NewLockRequest]
      BY <1>1, <1>6, PartitionFacts DEF UnlockPartition
    <2>2. P \in Partitions /\ parts[P] \in Seq(Lockers) /\ Once(parts[P])
      BY <1>1, PartitionFacts DEF Inv, PartsInv
    <2>3. list \in Seq(Lockers) /\ Once(list) /\ ToSet(list) = ToSet(parts[P]) \ {l}
      BY <1>6, <2>2, UnlinkFacts
    <2>4. l \notin Granted(Now) /\ req[l].status = "GRANTED"
      BY <1>1, <1>6, HeldIsGranted DEF InParts, PartitionedRequest
    <2>5. l \notin Queued(Now)
      BY <1>1, <2>4, ListedStatus
    <2>6. /\ NewLockRequest \in RequestType /\ NewLockRequest.status = "NEW"
          /\ NewLockRequest.recursiveCount > 0
      <3>1. 1 \in 0 .. MaxRecursion
        BY RecursionAssumption
      <3> QED
        BY <3>1 DEF NewLockRequest, RequestType
    <2>7. t \in State /\ t.req = req' /\ t.lock = lock /\ t.req[l] = NewLockRequest
          /\ \A k \in Lockers \ {l} : t.req[k] = Now.req[k]
      BY <1>1, <1>2, <2>1, <2>6 DEF State
    <2>8. SameLists(Now, t) /\ t.lock.partitions = Now.lock.partitions
      BY <1>1, <2>7 DEF SameLists
    <2>9. t.lock.partitions # <<>> => IntentHead(Now)
      BY <1>1, <2>8 DEF Inv
    <2>10. l \notin ToSet(list) /\ ToSet(list) \ {l} = ToSet(parts[P]) \ {l}
      BY <2>3
    <2>11. t.req[l].status = "NEW" /\ t.req[l].recursiveCount > 0
      BY <2>6, <2>7
    <2> HIDE DEF t, list
    <2>12. Inv(t, parts', pc')
      BY <1>1, <2>1, <2>3, <2>4, <2>5, <2>7, <2>8, <2>9, <2>10, <2>11, PartitionStep DEF P
    <2> QED
      BY <1>2, <2>12, NextHolds DEF t
  <1> QED
    BY <1>5, <1>6

-----------------------------------------------------------------------------
(* The steps at the lock head *)

\* Locker l comes to the lock head m and is granted.
Admitted(m, t, l) ==
    /\ Granted(t) = Granted(m) \cup {l}
    /\ Queued(t) = Queued(m)
    /\ t.lock.conflictList = m.lock.conflictList
    /\ t.req[l].status = "GRANTED"

\* Locker l comes to the lock head m and must wait.
Parked(m, t, l) ==
    /\ Granted(t) = Granted(m)
    /\ Queued(t) = Queued(m) \cup {l}
    /\ t.req[l].status = "WAITING"
    /\ (\E k \in Granted(m) : Against(m, m.req[l].mode, k)) \/ Queued(m) # {}
    /\ ~m.req[l].enqueueAtFront => t.lock.conflictList = Append(m.lock.conflictList, l)

Comes(m, t, l) ==
    /\ Well(t)
    /\ t.lock.partitions = m.lock.partitions
    /\ \A k \in Lockers \ {l} : t.req[k] = m.req[k]
    /\ t.req[l].mode = m.req[l].mode
    /\ t.req[l].convertMode = "NONE"
    /\ t.req[l].recursiveCount = m.req[l].recursiveCount
    /\ ~t.req[l].partitioned
    /\ t.req[l].compatibleFirst = m.req[l].compatibleFirst
    /\ t.req[l].enqueueAtFront = m.req[l].enqueueAtFront
    /\ Admitted(m, t, l) \/ Parked(m, t, l)

LEMMA SamePair ==
    ASSUME NEW s \in State
    PROVE  [req |-> s.req, lock |-> s.lock] = s
  BY DEF State

\* What a new request keeps.
SameRequest(r, rr) ==
    /\ rr.mode = r.mode
    /\ rr.convertMode = r.convertMode
    /\ rr.recursiveCount = r.recursiveCount
    /\ rr.partitioned = r.partitioned
    /\ rr.compatibleFirst = r.compatibleFirst
    /\ rr.enqueueAtFront = r.enqueueAtFront

LEMMA NewRequestDecides ==
    ASSUME NEW u, Well(u), NEW l \in Lockers, l \notin Granted(u), l \notin Queued(u),
           u.req[l].mode \in Modes, u.req[l].convertMode = "NONE",
           NEW t, t = NewRequest(u, l)
    PROVE  /\ Well(t)
           /\ t.lock.partitions = u.lock.partitions
           /\ \A k \in Lockers \ {l} : t.req[k] = u.req[k]
           /\ SameRequest(u.req[l], t.req[l])
           /\ Admitted(u, t, l) \/ Parked(u, t, l)
  <1>1. u.req[l] \in RequestType
    BY ReqTyped
  <1>2. CASE ~MustWait(u, l)
    <2>1. t = Grant(u, l) /\ ~Conflicts(u.req[l].mode, ModesOf(u.lock.grantedCounts))
      BY <1>2 DEF NewRequest, MustWait
    <2>2. /\ Well(t)
          /\ Granted(t) = Granted(u) \cup {l}
          /\ Queued(t) = Queued(u)
          /\ t.req[l] = GrantedNow(u.req[l])
          /\ \A k \in Lockers \ {l} : t.req[k] = u.req[k]
          /\ t.lock.conflictList = u.lock.conflictList
          /\ t.lock.partitions = u.lock.partitions
      BY <2>1, GrantStep
    <2>3. SameRequest(u.req[l], t.req[l]) /\ t.req[l].status = "GRANTED"
      BY <1>1, <2>2 DEF GrantedNow, RequestType, SameRequest
    <2> QED
      BY <2>2, <2>3 DEF Admitted
  <1>3. CASE MustWait(u, l)
    <2>1. t = Enqueue(u, l)
      BY <1>3 DEF NewRequest
    <2>2. /\ Well(t)
          /\ Granted(t) = Granted(u)
          /\ Queued(t) = Queued(u) \cup {l}
          /\ t.req[l] = WaitsNow(u.req[l])
          /\ \A k \in Lockers \ {l} : t.req[k] = u.req[k]
          /\ ~u.req[l].enqueueAtFront =>
               t.lock.conflictList = Append(u.lock.conflictList, l)
          /\ t.lock.partitions = u.lock.partitions
      BY <2>1, EnqueueStep
    <2>3. SameRequest(u.req[l], t.req[l]) /\ t.req[l].status = "WAITING"
      BY <1>1, <2>2 DEF WaitsNow, RequestType, SameRequest
    <2>4. (\E k \in Granted(u) : Against(u, u.req[l].mode, k)) \/ Queued(u) # {}
      <3>1. CASE Conflicts(u.req[l].mode, ModesOf(u.lock.grantedCounts))
        BY <3>1, NotInTheWay
      <3>2. CASE Conflicts(u.req[l].mode, ModesOf(u.lock.conflictCounts))
        <4>1. PICK x \in ModesOf(u.lock.conflictCounts) : TRUE
          BY <3>2 DEF Conflicts
        <4> QED
          BY <4>1, ModesShown
      <3> QED
        BY <1>3, <3>1, <3>2 DEF MustWait
    <2> QED
      BY <2>2, <2>3, <2>4 DEF Parked
  <1> QED
    BY <1>2, <1>3

\* As m, but the request of l is not partitioned any more.
Unpartitioned(m, u, l) ==
    /\ u \in State
    /\ u.lock = m.lock
    /\ \A k \in Lockers \ {l} : u.req[k] = m.req[k]
    /\ u.req[l].mode = m.req[l].mode
    /\ u.req[l].convertMode = m.req[l].convertMode
    /\ u.req[l].recursiveCount = m.req[l].recursiveCount
    /\ ~u.req[l].partitioned
    /\ u.req[l].compatibleFirst = m.req[l].compatibleFirst
    /\ u.req[l].enqueueAtFront = m.req[l].enqueueAtFront

LEMMA ClearPartitioned ==
    ASSUME NEW m \in State, NEW l \in Lockers
    PROVE  Unpartitioned(m, [m EXCEPT !.req[l].partitioned = FALSE], l)
  <1> DEFINE u == [m EXCEPT !.req[l].partitioned = FALSE]
             a == m.req
             b == m.lock
             r == [a[l] EXCEPT !.partitioned = FALSE]
  <1>1. m = [req |-> a, lock |-> b] /\ a \in [Lockers -> RequestType] /\ b \in LockHeadType
    BY StateFacts, SamePair
  <1>2. u = [[req |-> a, lock |-> b] EXCEPT !.req[l].partitioned = FALSE]
    BY <1>1
  <1>3. a[l] \in RequestType
    BY <1>1
  <1> HIDE DEF a, b, u
  <1>4. /\ r \in RequestType /\ r.mode = a[l].mode /\ r.convertMode = a[l].convertMode
        /\ ~r.partitioned /\ r.recursiveCount = a[l].recursiveCount
        /\ r.compatibleFirst = a[l].compatibleFirst
        /\ r.enqueueAtFront = a[l].enqueueAtFront
    BY <1>3 DEF RequestType
  <1>5. r = [a[l] EXCEPT !.partitioned = FALSE]
    OBVIOUS
  <1> HIDE DEF r
  <1>6. u = [req |-> [a EXCEPT ![l] = r], lock |-> b]
    BY <1>1, <1>2, <1>5
  <1>7. u.req = [a EXCEPT ![l] = r] /\ u.lock = b
    BY <1>6
  <1>8. u.req \in [Lockers -> RequestType] /\ u.req[l] = r
        /\ \A k \in Lockers \ {l} : u.req[k] = a[k]
    BY <1>1, <1>4, <1>7
  <1>9. u \in State
    BY <1>1, <1>6, <1>7, <1>8 DEF State
  <1> QED
    BY <1>4, <1>7, <1>8, <1>9 DEF Unpartitioned, a, b, u

LEMMA NewRequestComes ==
    ASSUME NEW m, Well(m), NEW l \in Lockers, l \notin Granted(m), l \notin Queued(m),
           m.req[l].mode \in Modes, m.req[l].convertMode = "NONE",
           NEW u, Unpartitioned(m, u, l), NEW t, t = NewRequest(u, l)
    PROVE  Comes(m, t, l)
  <1>1. Granted(m) \subseteq Lockers /\ Queued(m) \subseteq Lockers
    BY StateFacts DEF Well
  <1>2. \A k \in Granted(m) \cup Queued(m) : u.req[k] = m.req[k]
    BY <1>1 DEF Unpartitioned
  <1>3. Well(u) /\ Granted(u) = Granted(m) /\ Queued(u) = Queued(m)
    BY <1>2, WellSame DEF Unpartitioned
  <1>4. /\ u.req[l].mode \in Modes /\ u.req[l].convertMode = "NONE"
        /\ l \notin Granted(u) /\ l \notin Queued(u)
    BY <1>3 DEF Unpartitioned
  <1>5. /\ Well(t)
        /\ t.lock.partitions = u.lock.partitions
        /\ \A k \in Lockers \ {l} : t.req[k] = u.req[k]
        /\ SameRequest(u.req[l], t.req[l])
        /\ Admitted(u, t, l) \/ Parked(u, t, l)
    BY <1>3, <1>4, NewRequestDecides
  <1>6. \A k \in Granted(m) : Against(u, u.req[l].mode, k) => Against(m, m.req[l].mode, k)
    BY <1>2 DEF Against, Unpartitioned
  <1>7. Admitted(m, t, l) \/ Parked(m, t, l)
    <2>1. Admitted(u, t, l) => Admitted(m, t, l)
      BY <1>3 DEF Admitted, Unpartitioned
    <2>2. Parked(u, t, l) => Parked(m, t, l)
      BY <1>3, <1>6 DEF Parked, Unpartitioned
    <2> QED
      BY <1>5, <2>1, <2>2
  <1> QED
    BY <1>5, <1>7 DEF Comes, SameRequest, Unpartitioned

LEMMA UseLockHeadComes ==
    ASSUME IInv, NEW l \in Lockers, UseLockHead(l), NEW m, m = Migrated(req),
           NEW t, t = [req |-> req', lock |-> lock']
    PROVE  /\ Comes(m, t, l)
           /\ Inv(m, NoPartitionedRequests, pc)
           /\ m.req = req /\ t.req = req' /\ t.lock = lock'
           /\ l \notin Granted(m) /\ l \notin Queued(m)
           /\ req[l].mode \in Modes /\ req[l].recursiveCount = 1
  <1>1. /\ Inv(Now, parts, pc) /\ Inv(NowWith(req), parts, pc) /\ Now.req = req
    BY NowFacts
  <1>2. Inv(m, NoPartitionedRequests, pc) /\ Well(m) /\ m.req = req
    BY <1>1, MigratedInv, MigrationMoves
  <1>3. ThreadInv(req[l], "lock", InParts(parts, l))
    BY <1>1 DEF Inv, UseLockHead
  <1>4. /\ req[l].status = "NEW" /\ req[l].convertMode = "NONE" /\ req[l].mode \in Modes
        /\ req[l].recursiveCount = 1
    BY <1>3 DEF ThreadInv
  <1>5. l \notin Granted(m) /\ l \notin Queued(m)
    BY <1>2, <1>4, NewIsNowhere
  <1> DEFINE u == [m EXCEPT !.req[l].partitioned = FALSE]
             s == NewRequest(u, l)
  <1>6. req' = s.req /\ lock' = s.lock
    BY DEF UseLockHead
  <1>7. Comes(m, s, l)
    <2>1. Unpartitioned(m, u, l)
      BY <1>2, ClearPartitioned DEF Well
    <2> HIDE DEF u
    <2> QED
      BY <1>2, <1>4, <1>5, <2>1, NewRequestComes
  <1> HIDE DEF s
  <1>8. s \in State
    BY <1>7 DEF Comes, Well
  <1>9. t = s
    BY <1>6, <1>8, SamePair
  <1> QED
    BY <1>2, <1>4, <1>5, <1>6, <1>7, <1>9

LEMMA UseLockHeadKeeps ==
    ASSUME IInv, NEW l \in Lockers, UseLockHead(l)
    PROVE  IInv'
  <1> DEFINE t == [req |-> req', lock |-> lock']
             m == Migrated(req)
             at == IF req'[l].status = "WAITING" THEN "waiting" ELSE "idle"
  <1>1. /\ pc' = [pc EXCEPT ![l] = at] /\ parts' = NoPartitionedRequests /\ priority' = priority
    BY DEF UseLockHead
  <1>2. t.req = req' /\ t.lock = lock'
    OBVIOUS
  <1> HIDE DEF t, m
  <1>3. /\ Comes(m, t, l) /\ Inv(m, NoPartitionedRequests, pc) /\ m.req = req
        /\ l \notin Granted(m) /\ l \notin Queued(m) /\ req[l].recursiveCount = 1
    BY UseLockHeadComes DEF t, m
  <1>4. Well(t) /\ t \in State
    BY <1>3 DEF Comes, Well
  <1>5. ~InParts(NoPartitionedRequests, l)
    BY PartitionFacts DEF InParts, NoPartitionedRequests, ToSet
  <1>6. m.lock.partitions = <<>>
    BY NowFacts, MigrationMoves DEF m
  <1>7. OneLeaves(m, t, l)
    BY <1>3, <1>6 DEF OneLeaves, Comes, Admitted, Parked
  <1>8. Serves(t, t)
    BY <1>4, ServesNothing
  <1>9. Settled(t, t, l)
    BY <1>3 DEF Settled, Comes, Admitted, Parked
  <1>10. at \in Positions /\ ThreadInv(t.req[l], at, FALSE)
    BY <1>2, <1>3 DEF Comes, Admitted, Parked, ThreadInv, Positions
  <1> HIDE DEF at
  <1>11. Inv(t, parts', pc')
    BY <1>1, <1>3, <1>4, <1>5, <1>7, <1>8, <1>9, <1>10, HeadStep
  <1> QED
    BY <1>1, <1>11, NextHolds DEF t

\* The modes that others hold or convert to, as convert() counts them.
OtherModes(m, l) ==
    {x \in Modes : m.lock.grantedCounts[x] > (IF x = m.req[l].mode THEN 1 ELSE 0)}

LEMMA OtherModesShown ==
    ASSUME NEW m, Well(m), NEW l \in Granted(m), m.req[l].status = "GRANTED",
           NEW newMode \in Modes
    PROVE  Conflicts(newMode, OtherModes(m, l)) <=>
             \E k \in Granted(m) \ {l} : Against(m, newMode, k)
  <1> DEFINE E == OtherModes(m, l)
  <1>1. E \subseteq Modes
    BY DEF OtherModes
  <1>2. \A x \in Modes : x \in E <=>
          \E k \in Granted(m) \ {l} : m.req[k].mode = x \/ m.req[k].convertMode = x
    BY OthersShown DEF OtherModes
  <1> HIDE DEF E
  <1>3. Conflicts(newMode, E) <=> \E k \in Granted(m) \ {l} : Against(m, newMode, k)
    BY <1>1, <1>2, OthersNotInTheWay
  <1> QED
    BY <1>3 DEF E

LEMMA IncFacts ==
    ASSUME NEW counts \in [Modes -> Int], NEW a \in Modes
    PROVE  /\ IncCount(counts, a) \in [Modes -> Int]
           /\ \A x \in Modes : IncCount(counts, a)[x] = counts[x] + Unit(a = x)
  BY DEF IncCount, Unit

LEMMA DecFacts ==
    ASSUME NEW counts \in [Modes -> Int], NEW b \in Modes
    PROVE  /\ DecCount(counts, b) \in [Modes -> Int]
           /\ \A x \in Modes : DecCount(counts, b)[x] = counts[x] - Unit(b = x)
  BY DEF DecCount, Unit

\* One more request of mode a and one fewer of mode b.
LEMMA CountMoves ==
    ASSUME NEW counts \in [Modes -> Int], NEW a \in Modes, NEW b \in Modes,
           NEW c, c = DecCount(IncCount(counts, a), b)
    PROVE  c \in [Modes -> Int] /\ \A x \in Modes : c[x] = counts[x] + Unit(a = x) - Unit(b = x)
  <1> DEFINE d == IncCount(counts, a)
  <1>1. d \in [Modes -> Int] /\ \A x \in Modes : d[x] = counts[x] + Unit(a = x)
    BY IncFacts
  <1> HIDE DEF d
  <1>2. DecCount(d, b) \in [Modes -> Int]
        /\ \A x \in Modes : DecCount(d, b)[x] = d[x] - Unit(b = x)
    BY <1>1, DecFacts
  <1>3. c = DecCount(d, b)
    BY DEF d
  <1>4. c \in [Modes -> Int] /\ \A x \in Modes : c[x] = d[x] - Unit(b = x)
    BY <1>2, <1>3
  <1>5. ASSUME NEW x \in Modes
        PROVE  c[x] = counts[x] + Unit(a = x) - Unit(b = x)
    <2>1. c[x] = d[x] - Unit(b = x) /\ d[x] = counts[x] + Unit(a = x)
      BY <1>1, <1>4
    <2>2. counts[x] \in Int /\ Unit(a = x) \in Int /\ Unit(b = x) \in Int
      BY DEF Unit
    <2> QED
      BY <2>1, <2>2
  <1> QED
    BY <1>4, <1>5

ConvertingTo(r, newMode) ==
    [r EXCEPT !.recursiveCount = @ + 1, !.status = "CONVERTING", !.convertMode = newMode]

ConvertedTo(r, newMode) == [r EXCEPT !.recursiveCount = @ + 1, !.mode = newMode]

\* Whether the conversion may be asked for, and what it does to the request.
Convertible(r, newMode) ==
    /\ r.status = "GRANTED"
    /\ r.recursiveCount < MaxRecursion
    /\ ~ModeCovered(newMode, r.mode)
    /\ ModeCovered(r.mode, newMode)

LEMMA ConvertRequest ==
    ASSUME NEW r \in RequestType, NEW newMode \in Modes, Convertible(r, newMode),
           GrantedRequest(r)
    PROVE  /\ r.mode \in Modes /\ r.mode # newMode /\ r.convertMode = "NONE"
           /\ ConvertingTo(r, newMode) \in RequestType
           /\ ConvertingTo(r, newMode).status = "CONVERTING"
           /\ ConvertingTo(r, newMode).mode = r.mode
           /\ ConvertingTo(r, newMode).convertMode = newMode
           /\ ConvertingTo(r, newMode).recursiveCount = r.recursiveCount + 1
           /\ ConvertingTo(r, newMode).compatibleFirst = r.compatibleFirst
           /\ ConvertingTo(r, newMode).enqueueAtFront = r.enqueueAtFront
           /\ GrantedRequest(ConvertingTo(r, newMode))
           /\ ConvertedTo(r, newMode) \in RequestType
           /\ ConvertedTo(r, newMode).status = "GRANTED"
           /\ ConvertedTo(r, newMode).mode = newMode
           /\ ConvertedTo(r, newMode).convertMode = "NONE"
           /\ ConvertedTo(r, newMode).recursiveCount = r.recursiveCount + 1
           /\ ConvertedTo(r, newMode).compatibleFirst = r.compatibleFirst
           /\ ConvertedTo(r, newMode).enqueueAtFront = r.enqueueAtFront
           /\ GrantedRequest(ConvertedTo(r, newMode))
  <1>1. r.mode \in Modes /\ r.convertMode = "NONE" /\ r.status = "GRANTED"
    BY DEF GrantedRequest, Convertible
  <1>2. r.mode # newMode
    BY DEF Convertible, ModeCovered
  <1>3. r.recursiveCount + 1 \in 0 .. MaxRecursion
    BY RecursionAssumption DEF RequestType, Convertible
  <1>4. /\ ConvertingTo(r, newMode) \in RequestType
        /\ ConvertingTo(r, newMode).status = "CONVERTING"
        /\ ConvertingTo(r, newMode).mode = r.mode
        /\ ConvertingTo(r, newMode).convertMode = newMode
        /\ ConvertingTo(r, newMode).recursiveCount = r.recursiveCount + 1
        /\ ConvertingTo(r, newMode).compatibleFirst = r.compatibleFirst
        /\ ConvertingTo(r, newMode).enqueueAtFront = r.enqueueAtFront
    BY <1>3 DEF ConvertingTo, RequestType
  <1>5. /\ ConvertedTo(r, newMode) \in RequestType
        /\ ConvertedTo(r, newMode).status = "GRANTED"
        /\ ConvertedTo(r, newMode).mode = newMode
        /\ ConvertedTo(r, newMode).convertMode = "NONE"
        /\ ConvertedTo(r, newMode).recursiveCount = r.recursiveCount + 1
        /\ ConvertedTo(r, newMode).compatibleFirst = r.compatibleFirst
        /\ ConvertedTo(r, newMode).enqueueAtFront = r.enqueueAtFront
    BY <1>1, <1>3 DEF ConvertedTo, RequestType
  <1>6. GrantedRequest(ConvertingTo(r, newMode))
    BY <1>1, <1>2, <1>4 DEF GrantedRequest, Convertible
  <1>7. GrantedRequest(ConvertedTo(r, newMode))
    BY <1>5 DEF GrantedRequest
  <1> QED
    BY <1>1, <1>2, <1>4, <1>5, <1>6, <1>7

\* l has asked for newMode: it waits for it, or it has it.
Asks(m, t, l, newMode) ==
    /\ Well(t)
    /\ t.lock.grantedList = m.lock.grantedList
    /\ t.lock.conflictList = m.lock.conflictList
    /\ t.lock.partitions = m.lock.partitions
    /\ \A k \in Lockers \ {l} : t.req[k] = m.req[k]
    /\ t.req[l].recursiveCount = m.req[l].recursiveCount + 1
    /\ t.req[l].compatibleFirst = m.req[l].compatibleFirst
    /\ t.req[l].enqueueAtFront = m.req[l].enqueueAtFront
    /\ \/ /\ t.req[l].status = "CONVERTING"
          /\ t.req[l].mode = m.req[l].mode
          /\ t.req[l].convertMode = newMode
          /\ \E k \in Granted(m) \ {l} : Against(m, newMode, k)
       \/ /\ t.req[l].status = "GRANTED"
          /\ t.req[l].mode = newMode
          /\ t.req[l].convertMode = "NONE"

LEMMA RewrittenFacts ==
    ASSUME NEW m, Well(m), NEW l \in Lockers, NEW rr, NEW gc, NEW cv, NEW t,
           Rewritten(m, t, l, rr, gc, cv)
    PROVE  t.req[l] = rr /\ \A k \in Lockers \ {l} : t.req[k] = m.req[k]
  <1>1. m.req \in [Lockers -> RequestType]
    BY StateFacts DEF Well
  <1>2. t.req = [m.req EXCEPT ![l] = rr]
    BY DEF Rewritten
  <1> QED
    BY <1>1, <1>2

LEMMA ConversionWaits ==
    ASSUME NEW m, Well(m), NEW l \in Granted(m), NEW newMode \in Modes,
           Convertible(m.req[l], newMode), Conflicts(newMode, OtherModes(m, l)),
           NEW gc, gc = IncCount(m.lock.grantedCounts, newMode),
           NEW cv, cv = m.lock.conversionsCount + 1,
           NEW t, Rewritten(m, t, l, ConvertingTo(m.req[l], newMode), gc, cv)
    PROVE  Asks(m, t, l, newMode)
  <1> DEFINE r == m.req[l]
             rr == ConvertingTo(r, newMode)
  <1>1. /\ l \in Lockers /\ r \in RequestType /\ GrantedRequest(r)
        /\ m.lock.grantedCounts \in [Modes -> Int] /\ m.lock.conversionsCount \in Int
    BY StateFacts, ReqTyped DEF Well, Listed
  <1> HIDE DEF r
  <1>2. /\ r.mode \in Modes /\ r.convertMode = "NONE" /\ r.status = "GRANTED"
        /\ rr \in RequestType /\ rr.status = "CONVERTING" /\ rr.mode = r.mode
        /\ rr.convertMode = newMode /\ rr.recursiveCount = r.recursiveCount + 1
        /\ rr.compatibleFirst = r.compatibleFirst /\ rr.enqueueAtFront = r.enqueueAtFront
        /\ GrantedRequest(rr)
    BY <1>1, ConvertRequest DEF r, Convertible
  <1>3. gc \in [Modes -> Int] /\ cv \in Int
        /\ \A x \in Modes : gc[x] = m.lock.grantedCounts[x] + Unit(newMode = x)
    BY <1>1 DEF IncCount, Unit
  <1> HIDE DEF rr
  <1>4. Remoded(m, t, l, rr, gc, cv)
    <2>1. \A x \in Modes : gc[x] = m.lock.grantedCounts[x]
             - Unit(r.mode = x) + Unit(rr.mode = x)
             - Unit(r.convertMode = x) + Unit(rr.convertMode = x)
      <3> SUFFICES ASSUME NEW x \in Modes
                   PROVE  gc[x] = m.lock.grantedCounts[x]
                            - Unit(r.mode = x) + Unit(rr.mode = x)
                            - Unit(r.convertMode = x) + Unit(rr.convertMode = x)
        OBVIOUS
      <3>1. x # "NONE"
        BY DEF Modes
      <3>2. Unit(r.convertMode = x) = 0 /\ Unit(rr.mode = x) = Unit(r.mode = x)
            /\ Unit(rr.convertMode = x) = Unit(newMode = x)
        BY <1>2, <3>1 DEF Unit
      <3>3. Unit(r.mode = x) \in Int /\ Unit(newMode = x) \in Int
            /\ m.lock.grantedCounts[x] \in Int
        BY <1>1 DEF Unit
      <3> QED
        BY <1>3, <3>2, <3>3
    <2>2. cv = m.lock.conversionsCount - Unit(r.status = "CONVERTING")
                                       + Unit(rr.status = "CONVERTING")
      BY <1>1, <1>2 DEF Unit
    <2>3. t = [req |-> [m.req EXCEPT ![l] = rr],
               lock |-> [m.lock EXCEPT !.grantedCounts = gc, !.conversionsCount = cv]]
      BY DEF Rewritten, rr, r
    <2> QED
      BY <2>1, <2>2, <2>3 DEF Remoded, Rewritten, Recounts, r
  <1>5. Suits(m, l, rr)
    <2>1. \A k \in Granted(m) \ {l} : ~Conflicts(rr.mode, {m.req[k].mode})
      BY <1>2 DEF Well, Compatible, r
    <2> QED
      BY <1>2, <2>1 DEF Suits, r
  <1>6. /\ Well(t)
        /\ t.lock.grantedList = m.lock.grantedList
        /\ t.lock.conflictList = m.lock.conflictList
        /\ t.lock.partitions = m.lock.partitions
    BY <1>3, <1>4, <1>5, RemodeStep
  <1>7. t.req[l] = rr /\ \A k \in Lockers \ {l} : t.req[k] = m.req[k]
    BY <1>1, RewrittenFacts DEF rr, r
  <1>8. \E k \in Granted(m) \ {l} : Against(m, newMode, k)
    BY <1>2, OtherModesShown DEF r
  <1> QED
    BY <1>2, <1>6, <1>7, <1>8 DEF Asks, r

LEMMA ConversionGranted ==
    ASSUME NEW m, Well(m), NEW l \in Granted(m), NEW newMode \in Modes,
           Convertible(m.req[l], newMode), ~Conflicts(newMode, OtherModes(m, l)),
           NEW gc, gc = DecCount(IncCount(m.lock.grantedCounts, newMode), m.req[l].mode),
           NEW t, Rewritten(m, t, l, ConvertedTo(m.req[l], newMode), gc,
                            m.lock.conversionsCount)
    PROVE  Asks(m, t, l, newMode)
  <1> DEFINE r == m.req[l]
             rr == ConvertedTo(r, newMode)
             cv == m.lock.conversionsCount
  <1>1. /\ l \in Lockers /\ r \in RequestType /\ GrantedRequest(r)
        /\ m.lock.grantedCounts \in [Modes -> Int] /\ cv \in Int
    BY StateFacts, ReqTyped DEF Well, Listed
  <1> HIDE DEF r
  <1>2. /\ r.mode \in Modes /\ r.convertMode = "NONE" /\ r.status = "GRANTED"
        /\ rr \in RequestType /\ rr.status = "GRANTED" /\ rr.mode = newMode
        /\ rr.convertMode = "NONE" /\ rr.recursiveCount = r.recursiveCount + 1
        /\ rr.compatibleFirst = r.compatibleFirst /\ rr.enqueueAtFront = r.enqueueAtFront
        /\ GrantedRequest(rr) /\ r.mode # newMode
    BY <1>1, ConvertRequest DEF r, Convertible
  <1>3. gc \in [Modes -> Int]
        /\ \A x \in Modes : gc[x] = m.lock.grantedCounts[x] + Unit(newMode = x) - Unit(r.mode = x)
    BY <1>1, <1>2, CountMoves DEF r
  <1> HIDE DEF rr
  <1>4. Remoded(m, t, l, rr, gc, cv)
    <2>1. \A x \in Modes : gc[x] = m.lock.grantedCounts[x]
             - Unit(r.mode = x) + Unit(rr.mode = x)
             - Unit(r.convertMode = x) + Unit(rr.convertMode = x)
      <3> SUFFICES ASSUME NEW x \in Modes
                   PROVE  gc[x] = m.lock.grantedCounts[x]
                            - Unit(r.mode = x) + Unit(rr.mode = x)
                            - Unit(r.convertMode = x) + Unit(rr.convertMode = x)
        OBVIOUS
      <3>1. x # "NONE"
        BY DEF Modes
      <3>2. Unit(r.convertMode = x) = 0 /\ Unit(rr.mode = x) = Unit(newMode = x)
            /\ Unit(rr.convertMode = x) = 0
        BY <1>2, <3>1 DEF Unit
      <3>3. Unit(r.mode = x) \in Int /\ Unit(newMode = x) \in Int
            /\ m.lock.grantedCounts[x] \in Int
        BY <1>1 DEF Unit
      <3> QED
        BY <1>3, <3>2, <3>3
    <2>2. cv = m.lock.conversionsCount - Unit(r.status = "CONVERTING")
                                       + Unit(rr.status = "CONVERTING")
      BY <1>1, <1>2 DEF Unit
    <2>3. t = [req |-> [m.req EXCEPT ![l] = rr],
               lock |-> [m.lock EXCEPT !.grantedCounts = gc, !.conversionsCount = cv]]
      BY DEF Rewritten, rr, r
    <2> QED
      BY <2>1, <2>2, <2>3 DEF Remoded, Rewritten, Recounts, r
  <1>5. Suits(m, l, rr)
    <2>1. \A k \in Granted(m) \ {l} : ~Conflicts(rr.mode, {m.req[k].mode})
      <3>1. \A k \in Granted(m) \ {l} : ~Against(m, newMode, k)
        BY <1>2, OtherModesShown DEF r
      <3> QED
        BY <1>2, <3>1, AgainstEither
    <2> QED
      BY <1>2, <2>1 DEF Suits, r
  <1>6. /\ Well(t)
        /\ t.lock.grantedList = m.lock.grantedList
        /\ t.lock.conflictList = m.lock.conflictList
        /\ t.lock.partitions = m.lock.partitions
    BY <1>1, <1>3, <1>4, <1>5, RemodeStep
  <1>7. t.req[l] = rr /\ \A k \in Lockers \ {l} : t.req[k] = m.req[k]
    BY <1>1, RewrittenFacts DEF rr, r
  <1> QED
    BY <1>2, <1>6, <1>7 DEF Asks, r

\* lockBegin() sets the flags of a request it is about to convert: unless that
\* leaves the counts behind, the lists and the counts still agree.
LEMMA PriorityGiven ==
    ASSUME IInv, NEW l \in Lockers, NEW newMode \in Modes, Convert(l, newMode), ~corrupt',
           NEW rs, rs = GivenPriority(l, newMode)
    PROVE  /\ Inv(NowWith(rs), parts, pc)
           /\ rs \in [Lockers -> RequestType]
           /\ rs[l].status = req[l].status /\ rs[l].mode = req[l].mode
           /\ rs[l].convertMode = req[l].convertMode
           /\ rs[l].recursiveCount = req[l].recursiveCount
           /\ \A k \in Lockers \ {l} : rs[k] = req[k]
           /\ ~priority => rs = req
  <1>1. /\ Inv(Now, parts, pc) /\ Inv(NowWith(req), parts, pc) /\ Now.req = req /\ Now.lock = lock
        /\ req \in [Lockers -> RequestType] /\ lock \in LockHeadType /\ req[l] \in RequestType
        /\ pc \in [Lockers -> Positions] /\ parts \in [Partitions -> Seq(Lockers)]
        /\ Well(Now)
    BY NowFacts
  <1>2. CASE ~GoesFirst(newMode)
    <2>1. rs = req
      BY <1>2 DEF GivenPriority
    <2> QED
      BY <1>1, <2>1
  <1>3. CASE GoesFirst(newMode)
    <2> DEFINE r == [req[l] EXCEPT !.enqueueAtFront = TRUE, !.compatibleFirst = TRUE]
               n == NowWith(rs)
               cc == [pc EXCEPT ![l] = "idle"]
               qs == [parts EXCEPT ![GetPartition(l)] = parts[GetPartition(l)]]
    <2>1. rs = [req EXCEPT ![l] = r] /\ priority
      BY <1>3 DEF GivenPriority, GoesFirst
    <2>2. /\ r \in RequestType /\ r.status = req[l].status /\ r.mode = req[l].mode
          /\ r.convertMode = req[l].convertMode /\ r.recursiveCount = req[l].recursiveCount
          /\ r.partitioned = req[l].partitioned /\ r.compatibleFirst = TRUE
      BY <1>1 DEF RequestType
    <2> HIDE DEF r
    <2>3. /\ rs \in [Lockers -> RequestType] /\ rs[l] = r
          /\ \A k \in Lockers \ {l} : rs[k] = req[k]
      BY <1>1, <2>1, <2>2
    <2>4. n \in State /\ n.lock = lock /\ n.req = rs
      BY <1>1, <2>3 DEF NowWith, State
    <2>5. /\ cc = pc /\ qs = parts /\ "idle" \in Positions /\ pc[l] = "idle"
          /\ req[l].status = "GRANTED"
      BY <1>1 DEF Convert, Positions
    <2> HIDE DEF cc, qs
    <2>6. ThreadInv(req[l], "idle", InParts(parts, l))
      BY <1>1, <2>5 DEF Inv
    <2>7. ThreadInv(r, "idle", InParts(parts, l))
      BY <2>2, <2>6 DEF ThreadInv
    <2> HIDE DEF n
    <2>8. \A k \in Lockers \ {l} : n.req[k] = Now.req[k]
      BY <1>1, <2>3, <2>4
    <2>9. CASE l \in Granted(Now)
      <3>1. req[l].compatibleFirst
        BY <1>3, <2>9 DEF Convert, Granted, Now
      <3>2. req[l].compatibleFirst = TRUE
        BY <1>1, <3>1 DEF RequestType
      <3>3. SameStanding(Now.req[l], n.req[l]) /\ n.lock = Now.lock
        BY <1>1, <2>2, <2>3, <2>4, <3>2 DEF SameStanding
      <3>4. ThreadInv(n.req[l], "idle", InParts(parts, l))
        BY <2>3, <2>4, <2>7
      <3>5. Inv(n, parts, cc)
        BY <1>1, <2>4, <2>5, <2>8, <3>3, <3>4, ThreadStep DEF cc
      <3> QED
        BY <2>1, <2>2, <2>3, <2>5, <3>5 DEF n
    <2>10. CASE l \notin Granted(Now)
      <3> DEFINE P == GetPartition(l)
                 list == parts[P]
      <3>1. InParts(parts, l) /\ PartitionedRequest(Now, l, P)
        BY <1>1, <2>5, <2>10, HeldIsGranted
      <3>2. l \notin Queued(Now)
        BY <1>1, <2>5, ListedStatus
      <3>3. SameLists(Now, n) /\ n.lock.partitions = Now.lock.partitions
            /\ Granted(n) = Granted(Now)
        BY <1>1, <2>4 DEF SameLists, Granted
      <3>4. PartitionedRequest(n, l, P)
        BY <1>1, <2>2, <2>3, <2>4, <3>1, <3>3 DEF PartitionedRequest
      <3>5. list \in Seq(Lockers) /\ Once(list) /\ l \in ToSet(list)
        BY <1>1, <3>1, PartitionFacts DEF Inv, PartsInv, InParts
      <3>6. n.lock.partitions # <<>> => IntentHead(Now)
        BY <1>1, <3>3 DEF Inv
      <3>7. n.req[l].recursiveCount > 0
        BY <2>2, <2>3, <2>4, <2>6 DEF ThreadInv
      <3> HIDE DEF list
      <3>8. ToSet(Now.lock.partitions) \subseteq ToSet(n.lock.partitions)
        BY <3>3
      <3>9. qs = [parts EXCEPT ![P] = list] /\ ToSet(list) \ {l} = ToSet(parts[P]) \ {l}
        BY DEF qs, list
      <3>10. Inv(n, qs, cc)
        BY <1>1, <2>4, <2>8, <2>10, <3>2, <3>3, <3>4, <3>5, <3>6, <3>7, <3>8, <3>9,
           PartitionStep DEF P, cc
      <3> QED
        BY <2>1, <2>2, <2>3, <2>5, <3>10 DEF n
    <2> QED
      BY <2>9, <2>10
  <1> QED
    BY <1>2, <1>3

LEMMA ConvertAsks ==
    ASSUME IInv, NEW l \in Lockers, NEW newMode \in Modes, Convert(l, newMode), ~corrupt',
           NEW m, m = Migrated(GivenPriority(l, newMode)), NEW t, t = [req |-> req', lock |-> lock']
    PROVE  /\ Inv(m, NoPartitionedRequests, pc) /\ m.req = GivenPriority(l, newMode)
           /\ m.lock.partitions = <<>>
           /\ m.req[l].recursiveCount = req[l].recursiveCount
           /\ l \in Granted(m)
           /\ Convertible(m.req[l], newMode)
           /\ Asks(m, t, l, newMode)
           /\ pc' = [pc EXCEPT ![l] = IF t.req[l].status = "CONVERTING" THEN "waiting" ELSE "idle"]
  <1> DEFINE none == NoPartitionedRequests
             rs == GivenPriority(l, newMode)
             blocked == Conflicts(newMode, OtherModes(m, l))
             counted == IncCount(m.lock.grantedCounts, newMode)
             back == DecCount(counted, m.req[l].mode)
  <1> HIDE DEF rs
  <1>0. m = Migrated(rs)
    BY DEF rs
  <1>1. /\ Inv(NowWith(rs), parts, pc)
        /\ rs[l].status = req[l].status /\ rs[l].mode = req[l].mode
        /\ rs[l].recursiveCount = req[l].recursiveCount
    BY PriorityGiven DEF rs
  <1>2. Inv(m, none, pc) /\ Well(m) /\ m.req = rs /\ m.lock.partitions = <<>>
    BY <1>0, <1>1, MigratedInv, MigrationMoves
  <1>3. /\ Convertible(m.req[l], newMode) /\ m.req[l].status = "GRANTED"
        /\ m.req[l].recursiveCount = req[l].recursiveCount
    BY <1>1, <1>2 DEF Convert, Convertible
  <1>4. ~InParts(none, l)
    BY PartitionFacts DEF InParts, NoPartitionedRequests, ToSet
  <1>5. l \in Granted(m)
    BY <1>2, <1>3, <1>4, HeldIsGranted
  <1>6. /\ req' = [m.req EXCEPT ![l] = IF blocked THEN ConvertingTo(m.req[l], newMode)
                                                  ELSE ConvertedTo(m.req[l], newMode)]
        /\ lock' = IF blocked
                   THEN [m.lock EXCEPT !.grantedCounts = counted, !.conversionsCount = @ + 1]
                   ELSE [m.lock EXCEPT !.grantedCounts = back]
        /\ pc' = [pc EXCEPT ![l] = IF blocked THEN "waiting" ELSE "idle"]
    BY DEF Convert, OtherModes, ConvertingTo, ConvertedTo
  <1>7. m.lock \in LockHeadType
    BY <1>2, StateFacts DEF Well
  <1> HIDE DEF counted, back
  <1>8. CASE blocked
    <2> DEFINE cv == m.lock.conversionsCount + 1
    <2>1. lock' = [m.lock EXCEPT !.grantedCounts = counted, !.conversionsCount = cv]
      BY <1>6, <1>8
    <2>2. Rewritten(m, t, l, ConvertingTo(m.req[l], newMode), counted, cv)
      BY <1>6, <1>8, <2>1 DEF Rewritten
    <2> HIDE DEF cv
    <2>3. Asks(m, t, l, newMode)
      BY <1>2, <1>3, <1>5, <1>8, <2>2, ConversionWaits DEF cv, counted
    <2>4. t.req[l] = ConvertingTo(m.req[l], newMode)
      BY <1>2, <2>2, RewrittenFacts
    <2>5. t.req[l].status = "CONVERTING"
      <3>1. m.req[l] \in RequestType /\ GrantedRequest(m.req[l])
        BY <1>2, <1>5, ReqTyped DEF Well, Listed
      <3> QED
        BY <1>3, <2>4, <3>1, ConvertRequest
    <2> QED
      BY <1>2, <1>3, <1>5, <1>6, <1>8, <2>3, <2>5 DEF rs
  <1>9. CASE ~blocked
    <2>1. lock' = [m.lock EXCEPT !.grantedCounts = back,
                                 !.conversionsCount = m.lock.conversionsCount]
      BY <1>6, <1>7, <1>9 DEF LockHeadType
    <2>2. Rewritten(m, t, l, ConvertedTo(m.req[l], newMode), back, m.lock.conversionsCount)
      BY <1>6, <1>9, <2>1 DEF Rewritten
    <2>3. Asks(m, t, l, newMode)
      BY <1>2, <1>3, <1>5, <1>9, <2>2, ConversionGranted DEF back, counted
    <2>4. t.req[l] = ConvertedTo(m.req[l], newMode)
      BY <1>2, <2>2, RewrittenFacts
    <2>5. t.req[l].status = "GRANTED"
      <3>1. m.req[l] \in RequestType /\ GrantedRequest(m.req[l])
        BY <1>2, <1>5, ReqTyped DEF Well, Listed
      <3> QED
        BY <1>3, <2>4, <3>1, ConvertRequest
    <2> QED
      BY <1>2, <1>3, <1>5, <1>6, <1>9, <2>3, <2>5 DEF rs
  <1> QED
    BY <1>8, <1>9

LEMMA ConvertKeeps ==
    ASSUME IInv, NEW l \in Lockers, NEW newMode \in Modes, Convert(l, newMode), ~corrupt'
    PROVE  IInv'
  <1> DEFINE t == [req |-> req', lock |-> lock']
             m == Migrated(GivenPriority(l, newMode))
             at == IF t.req[l].status = "CONVERTING" THEN "waiting" ELSE "idle"
  <1>1. parts' = NoPartitionedRequests /\ priority' = priority /\ pc[l] = "idle"
    BY DEF Convert
  <1> HIDE DEF t, m
  <1>2. /\ Inv(m, NoPartitionedRequests, pc) /\ l \in Granted(m)
        /\ m.lock.partitions = <<>> /\ m.req[l].recursiveCount = req[l].recursiveCount
        /\ Asks(m, t, l, newMode) /\ pc' = [pc EXCEPT ![l] = at]
    BY ConvertAsks DEF t, m
  <1>3. Well(t) /\ t \in State /\ m.lock.partitions = <<>>
    BY <1>2 DEF Asks, Well
  <1>4. Granted(t) = Granted(m) /\ Queued(t) = Queued(m)
    BY <1>2 DEF Asks, Granted, Queued
  <1>5. ~InParts(NoPartitionedRequests, l)
    BY PartitionFacts DEF InParts, NoPartitionedRequests, ToSet
  <1>6. OneLeaves(m, t, l)
    BY <1>2, <1>3, <1>4 DEF OneLeaves, Asks
  <1>7. Serves(t, t)
    BY <1>3, ServesNothing
  <1>8. Settled(t, t, l)
    BY <1>2, <1>4 DEF Settled
  <1>9. at \in Positions /\ ThreadInv(t.req[l], at, FALSE)
    <2>1. ThreadInv(req[l], "idle", InParts(parts, l)) /\ req[l] \in RequestType
      BY <1>1, NowFacts DEF Inv
    <2>2. req[l].recursiveCount > 0 /\ req[l].recursiveCount \in Int
      BY <2>1 DEF ThreadInv, RequestType
    <2>3. t.req[l].recursiveCount > 1 /\ t.req[l].recursiveCount > 0
      BY <1>2, <2>2 DEF Asks
    <2>4. t.req[l].status = "CONVERTING" \/ t.req[l].status = "GRANTED"
      BY <1>2 DEF Asks
    <2> QED
      BY <2>3, <2>4 DEF ThreadInv, Positions
  <1> HIDE DEF at
  <1>10. Inv(t, parts', pc')
    BY <1>1, <1>2, <1>3, <1>5, <1>6, <1>7, <1>8, <1>9, HeadStep
  <1> QED
    BY <1>1, <1>10, NextHolds DEF t

\* The step from s to t takes l off the lists, at u, and serves the others, at v.
Departs(s, u, v, t, l) ==
    /\ Well(u)
    /\ OneLeaves(s, u, l)
    /\ Serves(u, v)
    /\ t \in State
    /\ Settled(v, t, l)

LEMMA DepartsKeeps ==
    ASSUME IInv, NEW l \in Lockers, ~InParts(parts, l), NEW t, t = [req |-> req', lock |-> lock'],
           NEW u, NEW v, Departs(Now, u, v, t, l),
           NEW at \in Positions, pc' = [pc EXCEPT ![l] = at], parts' = parts,
           priority' = priority, ThreadInv(t.req[l], at, FALSE)
    PROVE  IInv'
  <1>1. Inv(Now, parts, pc)
    BY NowFacts
  <1>2. Well(u) /\ OneLeaves(Now, u, l) /\ Serves(u, v) /\ t \in State /\ Settled(v, t, l)
    BY DEF Departs
  <1>3. Inv(t, parts, pc')
    BY <1>1, <1>2, HeadStep
  <1> QED
    BY <1>3, NextHolds

LEMMA NewRequestFacts ==
    /\ NewLockRequest \in RequestType
    /\ NewLockRequest.status = "NEW"
    /\ NewLockRequest.recursiveCount = 1
    /\ ~NewLockRequest.compatibleFirst
    /\ ~NewLockRequest.enqueueAtFront
  <1>1. 1 \in 0 .. MaxRecursion
    BY RecursionAssumption
  <1> QED
    BY <1>1 DEF NewLockRequest, RequestType

LEMMA UnlockLockHeadWhere ==
    ASSUME IInv, NEW l \in Lockers, UnlockLockHead(l), ~corrupt'
    PROVE  /\ ~InParts(parts, l)
           /\ \/ /\ req[l].status = "GRANTED" /\ req[l].recursiveCount = 0
                 /\ l \in Granted(Now) /\ l \notin Queued(Now)
              \/ /\ req[l].status = "WAITING" /\ req[l].recursiveCount = 0
                 /\ l \in Queued(Now) /\ l \notin Granted(Now)
              \/ /\ req[l].status = "CONVERTING" /\ req[l].recursiveCount > 0
                 /\ l \in Granted(Now)
  <1>1. Inv(Now, parts, pc) /\ Well(Now) /\ Now.req = req /\ req[l] \in RequestType
    BY NowFacts
  <1>2. ThreadInv(req[l], "unlock", InParts(parts, l))
    BY <1>1 DEF Inv, UnlockLockHead
  <1>3. /\ req[l].status \in {"GRANTED", "WAITING", "CONVERTING"} /\ ~InParts(parts, l)
        /\ req[l].status = "WAITING" => req[l].recursiveCount = 0
        /\ req[l].status = "CONVERTING" => req[l].recursiveCount > 0
    BY <1>2 DEF ThreadInv
  <1>4. req[l].status = "GRANTED" => ~(req[l].recursiveCount > 0)
    BY DEF UnlockLockHead
  <1>5. req[l].recursiveCount \in Nat
    BY <1>1, RecursionAssumption DEF RequestType
  <1>6. req[l].status = "CONVERTING" => l \in Granted(Now)
    BY <1>1, <1>3 DEF Inv, HoldInv, Held
  <1>7. req[l].status = "GRANTED" => req[l].recursiveCount = 0
    BY <1>4, <1>5
  <1> QED
    BY <1>1, <1>3, <1>6, <1>7, HeldIsGranted, ListedStatus DEF Held

\* The lock head without the request of l, and whether its queue is then checked.
LeftBy(l) ==
    IF req[l].status = "GRANTED" THEN Released(Now, l) ELSE Dequeued(Now, l)

ChecksQueue(u, l) ==
    req[l].status = "GRANTED" => u.lock.grantedCounts[req[l].mode] = 0

\* What unlock() does at the lock head with a request that is granted or waits in
\* the queue: l leaves, and the others are served.
LEMMA UnlockLockHeadDeparts ==
    ASSUME IInv, NEW l \in Lockers, UnlockLockHead(l), ~corrupt',
           req[l].status # "CONVERTING", NEW t, t = [req |-> req', lock |-> lock'],
           NEW u, u = LeftBy(l), NEW check, check = ChecksQueue(u, l),
           NEW v, v = OnLockModeChanged(u, check)
    PROVE  /\ Departs(Now, u, v, t, l)
           /\ u.req = req
           /\ t.req[l] = NewLockRequest
           /\ l \notin Granted(v) /\ l \notin Queued(v)
  <1>1. Inv(Now, parts, pc) /\ Well(Now) /\ Now.req = req /\ Now.lock = lock
    BY NowFacts
  <1>2. /\ req[l].recursiveCount = 0
        /\ \/ req[l].status = "GRANTED" /\ l \in Granted(Now) /\ l \notin Queued(Now)
           \/ req[l].status = "WAITING" /\ l \in Queued(Now) /\ l \notin Granted(Now)
    BY UnlockLockHeadWhere
  <1>3. check \in BOOLEAN
    BY DEF ChecksQueue
  <1>4. /\ Well(u) /\ u.req = req
        /\ Granted(u) = Granted(Now) \ {l} /\ Queued(u) = Queued(Now) \ {l}
        /\ u.lock.partitions = lock.partitions
    <2>1. CASE req[l].status = "GRANTED"
      <3>1. u = Released(Now, l) /\ l \in Granted(Now) /\ l \notin Queued(Now)
        BY <1>2, <2>1 DEF LeftBy
      <3>2. /\ Well(u) /\ u.req = Now.req
            /\ Granted(u) = Granted(Now) \ {l} /\ Queued(u) = Queued(Now)
            /\ u.lock.partitions = Now.lock.partitions
        BY <1>1, <2>1, <3>1, ReleaseStep
      <3> QED
        BY <1>1, <3>1, <3>2
    <2>2. CASE req[l].status = "WAITING"
      <3>1. u = Dequeued(Now, l) /\ l \in Queued(Now) /\ l \notin Granted(Now)
        BY <1>2, <2>2 DEF LeftBy
      <3>2. /\ Well(u) /\ u.req = Now.req
            /\ Granted(u) = Granted(Now) /\ Queued(u) = Queued(Now) \ {l}
            /\ u.lock.partitions = Now.lock.partitions
        BY <1>1, <3>1, DequeueStep
      <3> QED
        BY <1>1, <3>1, <3>2
    <2> QED
      BY <1>2, <2>1, <2>2
  <1>5. req' = [v.req EXCEPT ![l] = NewLockRequest] /\ lock' = v.lock
    <2>1. CASE req[l].status = "GRANTED"
      <3>1. u = Released(Now, l)
        BY <2>1 DEF LeftBy
      <3>2. u.lock.grantedCounts = DecCount(lock.grantedCounts, req[l].mode)
        BY <1>1, <1>2, <2>1, <3>1, ReleaseStep
      <3>3. Release(l) = OnLockModeChanged(Released(Now, l),
                           DecCount(lock.grantedCounts, req[l].mode)[req[l].mode] = 0)
        BY <1>1 DEF Release, Released
      <3>4. Release(l) = v
        <4>1. check = (DecCount(lock.grantedCounts, req[l].mode)[req[l].mode] = 0)
          BY <2>1, <3>2 DEF ChecksQueue
        <4> QED
          BY <3>1, <3>3, <4>1
      <3> QED
        BY <1>2, <2>1, <3>4 DEF UnlockLockHead
    <2>2. CASE req[l].status = "WAITING"
      <3>1. u = Dequeued(Now, l) /\ check = TRUE
        BY <2>2 DEF LeftBy, ChecksQueue
      <3>2. CancelWait(l) = v
        BY <1>1, <3>1 DEF CancelWait, Dequeued
      <3> QED
        BY <1>2, <2>2, <3>2 DEF UnlockLockHead
    <2> QED
      BY <1>2, <2>1, <2>2
  <1>6. Serves(u, v)
    BY <1>3, <1>4, ModeChangeServed
  <1>7. /\ v \in State /\ v.req \in [Lockers -> RequestType] /\ v.lock \in LockHeadType
        /\ Granted(v) \cup Queued(v) = Granted(u) \cup Queued(u)
    BY <1>6, StateFacts DEF Serves, Well
  <1>8. l \notin Granted(v) /\ l \notin Queued(v)
    BY <1>4, <1>7
  <1>9. t \in State /\ t.req[l] = NewLockRequest /\ t.lock = v.lock
        /\ \A k \in Lockers \ {l} : t.req[k] = v.req[k]
    <2>1. t.req = req' /\ t.lock = lock'
      OBVIOUS
    <2>2. req' \in [Lockers -> RequestType] /\ lock' \in LockHeadType
      BY <1>5, <1>7, NewRequestFacts
    <2>3. req'[l] = NewLockRequest /\ \A k \in Lockers \ {l} : req'[k] = v.req[k]
      BY <1>5, <1>7
    <2> QED
      BY <1>5, <2>1, <2>2, <2>3 DEF State
  <1>10. Settled(v, t, l)
    BY <1>8, <1>9, NewRequestFacts DEF Settled
  <1>11. OneLeaves(Now, u, l)
    <2>1. u.lock.partitions # <<>> => IntentHead(u)
      BY <1>1, <1>4 DEF Inv, IntentHead
    <2> QED
      BY <1>1, <1>4, <2>1 DEF OneLeaves
  <1> QED
    BY <1>4, <1>6, <1>8, <1>9, <1>10, <1>11 DEF Departs

\* No request has gained or lost its flags.
SameFlags(s, u) ==
    \A k \in Lockers : /\ u.req[k].compatibleFirst = s.req[k].compatibleFirst
                       /\ u.req[k].enqueueAtFront = s.req[k].enqueueAtFront

\* l keeps its place on the granted list, in another mode or without the
\* conversion it waited for, and the others are served.
Downgraded(u, v, t, l) ==
    /\ Departs(Now, u, v, t, l)
    /\ v = OnLockModeChanged(u, TRUE)
    /\ SameFlags(Now, u)
    /\ u.req[l].status = "GRANTED"
    /\ u.req[l].recursiveCount = Now.req[l].recursiveCount
    /\ t = v

\* The granted request of l becomes rr, and the others are served.
LEMMA RemodedDeparts ==
    ASSUME IInv, NEW l \in Granted(Now), NEW rr, Suits(Now, l, rr),
           rr.status = "GRANTED", rr.convertMode = "NONE",
           rr.recursiveCount = req[l].recursiveCount,
           rr.enqueueAtFront = req[l].enqueueAtFront,
           req[l].mode \in IntentModes => rr.mode \in IntentModes,
           NEW gc \in [Modes -> Int], NEW cv \in Int,
           NEW u, Remoded(Now, u, l, rr, gc, cv),
           NEW v, v = OnLockModeChanged(u, TRUE), req' = v.req, lock' = v.lock,
           NEW t, t = [req |-> req', lock |-> lock']
    PROVE  Downgraded(u, v, t, l)
  <1>1. /\ Inv(Now, parts, pc) /\ Well(Now) /\ Now.req = req /\ Now.lock = lock
        /\ req \in [Lockers -> RequestType] /\ Granted(Now) \subseteq Lockers
    BY NowFacts, StateFacts DEF Well
  <1>2. /\ Well(u)
        /\ u.lock.grantedList = lock.grantedList
        /\ u.lock.conflictList = lock.conflictList
        /\ u.lock.partitions = lock.partitions
    BY <1>1, RemodeStep
  <1>3. u.req[l] = rr /\ \A k \in Lockers \ {l} : u.req[k] = req[k]
    BY <1>1, RewrittenFacts DEF Remoded
  <1>4. Granted(u) = Granted(Now) /\ Queued(u) = Queued(Now)
    BY <1>1, <1>2 DEF Granted, Queued
  <1>5. u.lock.partitions # <<>> => IntentHead(u)
    <2> SUFFICES ASSUME lock.partitions # <<>> PROVE IntentHead(u)
      BY <1>2
    <2>1. IntentHead(Now)
      BY <1>1 DEF Inv
    <2>2. rr.mode \in IntentModes
      BY <1>1, <2>1 DEF IntentHead
    <2> QED
      BY <1>1, <1>3, <1>4, <2>1, <2>2 DEF IntentHead
  <1>6. OneLeaves(Now, u, l)
    BY <1>1, <1>2, <1>3, <1>4, <1>5 DEF OneLeaves
  <1>7. Serves(u, v)
    BY <1>2, ModeChangeServed
  <1>8. v \in State
    BY <1>7 DEF Serves, Well
  <1>9. t = v
    BY <1>8, SamePair
  <1>10. Granted(u) \subseteq Granted(v)
    BY <1>7 DEF Serves
  <1>11. Settled(v, t, l)
    BY <1>4, <1>9, <1>10 DEF Settled
  <1>12. Departs(Now, u, v, t, l)
    BY <1>2, <1>6, <1>7, <1>8, <1>9, <1>11 DEF Departs
  <1>13. SameFlags(Now, u)
    <2>1. rr.compatibleFirst = req[l].compatibleFirst
      BY <1>1 DEF Suits
    <2> QED
      BY <1>1, <1>3, <2>1 DEF SameFlags
  <1> QED
    BY <1>1, <1>3, <1>9, <1>12, <1>13 DEF Downgraded

LEMMA CoveredIntent ==
    ASSUME NEW m \in Modes, NEW x \in IntentModes, ModeCovered(m, x)
    PROVE  m \in IntentModes
  <1>1. LockConflictsTable[x] \subseteq {"S", "X"}
    BY ConflictsTable DEF IntentModes
  <1>2. m = "S" \/ m = "X" => "IX" \in LockConflictsTable[m]
    BY ConflictsTable, Zenon DEF Modes
  <1> QED
    BY <1>1, <1>2 DEF ModeCovered, Modes, IntentModes

LEMMA DowngradeDeparts ==
    ASSUME IInv, NEW l \in Lockers, NEW newMode \in Modes, Downgrade(l, newMode),
           NEW t, t = [req |-> req', lock |-> lock']
    PROVE  /\ \E u, v : Downgraded(u, v, t, l)
           /\ ~InParts(parts, l)
  <1> DEFINE counts == DecCount(IncCount(lock.grantedCounts, newMode), req[l].mode)
             rr == [req[l] EXCEPT !.mode = newMode]
             cv == lock.conversionsCount
             u == [req |-> [req EXCEPT ![l].mode = newMode],
                   lock |-> [lock EXCEPT !.grantedCounts = counts]]
             v == OnLockModeChanged(u, TRUE)
  <1>1. /\ Inv(Now, parts, pc) /\ Well(Now) /\ Now.req = req /\ Now.lock = lock
        /\ req \in [Lockers -> RequestType] /\ lock \in LockHeadType /\ req[l] \in RequestType
    BY NowFacts
  <1>2. /\ req' = v.req /\ lock' = v.lock /\ req[l].status = "GRANTED" /\ pc[l] = "idle"
        /\ l \in ToSet(lock.grantedList) /\ newMode # req[l].mode
        /\ ModeCovered(newMode, req[l].mode)
    BY DEF Downgrade
  <1>3. l \in Granted(Now)
    BY <1>1, <1>2 DEF Granted
  <1>4. ~InParts(parts, l)
    BY <1>1, <1>3, HeldIsGranted DEF PartitionedRequest
  <1>5. GrantedRequest(req[l])
    BY <1>1, <1>3 DEF Well, Listed
  <1>6. req[l].mode \in Modes /\ req[l].convertMode = "NONE"
    BY <1>2, <1>5 DEF GrantedRequest
  <1>7. /\ rr \in RequestType /\ rr.mode = newMode /\ rr.convertMode = "NONE"
        /\ rr.status = "GRANTED" /\ rr.compatibleFirst = req[l].compatibleFirst
        /\ rr.enqueueAtFront = req[l].enqueueAtFront
        /\ rr.recursiveCount = req[l].recursiveCount
    BY <1>1, <1>2, <1>6 DEF RequestType
  <1>8. /\ lock.grantedCounts \in [Modes -> Int] /\ cv \in Int /\ counts \in [Modes -> Int]
        /\ \A x \in Modes : counts[x] = lock.grantedCounts[x]
                              + Unit(newMode = x) - Unit(req[l].mode = x)
    <2>1. lock.grantedCounts \in [Modes -> Int] /\ cv \in Int
      BY <1>1 DEF LockHeadType
    <2> QED
      BY <1>6, <2>1, CountMoves
  <1>9. u = [req |-> [req EXCEPT ![l] = rr],
             lock |-> [lock EXCEPT !.grantedCounts = counts, !.conversionsCount = cv]]
    <2>1. [lock EXCEPT !.grantedCounts = counts]
            = [lock EXCEPT !.grantedCounts = counts, !.conversionsCount = cv]
      BY <1>1 DEF LockHeadType
    <2> QED
      BY <2>1
  <1> HIDE DEF counts, rr, u, cv
  <1>10. Remoded(Now, u, l, rr, counts, cv)
    <2>1. \A x \in Modes : counts[x] = lock.grantedCounts[x]
             - Unit(req[l].mode = x) + Unit(rr.mode = x)
             - Unit(req[l].convertMode = x) + Unit(rr.convertMode = x)
      <3> SUFFICES ASSUME NEW x \in Modes
                   PROVE  counts[x] = lock.grantedCounts[x]
                            - Unit(req[l].mode = x) + Unit(rr.mode = x)
                            - Unit(req[l].convertMode = x) + Unit(rr.convertMode = x)
        OBVIOUS
      <3>1. x # "NONE"
        BY DEF Modes
      <3>2. Unit(req[l].convertMode = x) = 0 /\ Unit(rr.mode = x) = Unit(newMode = x)
            /\ Unit(rr.convertMode = x) = 0
        BY <1>6, <1>7, <3>1 DEF Unit
      <3>3. Unit(req[l].mode = x) \in Int /\ Unit(newMode = x) \in Int
            /\ lock.grantedCounts[x] \in Int
        BY <1>8 DEF Unit
      <3> QED
        BY <1>8, <3>2, <3>3
    <2>2. cv = lock.conversionsCount - Unit(req[l].status = "CONVERTING")
                                     + Unit(rr.status = "CONVERTING")
      BY <1>2, <1>7, <1>8 DEF Unit, cv
    <2> QED
      BY <1>1, <1>9, <2>1, <2>2 DEF Remoded, Rewritten, Recounts
  <1>11. Suits(Now, l, rr)
    <2>1. \A k \in Granted(Now) \ {l} : ~Conflicts(req[l].mode, {req[k].mode})
      BY <1>1, <1>3 DEF Well, Compatible
    <2>2. \A k \in Granted(Now) \ {l} : ~Conflicts(rr.mode, {req[k].mode})
      BY <1>2, <1>7, <2>1 DEF Conflicts, ModeCovered
    <2>3. GrantedRequest(rr)
      BY <1>7 DEF GrantedRequest
    <2> QED
      BY <1>1, <1>7, <2>2, <2>3 DEF Suits
  <1>12. req[l].mode \in IntentModes => rr.mode \in IntentModes
    BY <1>2, <1>7, CoveredIntent
  <1>13. v = OnLockModeChanged(u, TRUE)
    OBVIOUS
  <1> HIDE DEF v
  <1>14. Downgraded(u, v, t, l)
    BY <1>1, <1>2, <1>3, <1>7, <1>8, <1>10, <1>11, <1>12, <1>13, RemodedDeparts
  <1> QED
    BY <1>4, <1>14

LEMMA DowngradeKeeps ==
    ASSUME IInv, NEW l \in Lockers, NEW newMode \in Modes, Downgrade(l, newMode)
    PROVE  IInv'
  <1> DEFINE t == [req |-> req', lock |-> lock']
  <1>1. /\ pc' = pc /\ parts' = parts /\ priority' = priority /\ pc[l] = "idle"
        /\ req[l].status = "GRANTED"
    BY DEF Downgrade
  <1>2. /\ Inv(Now, parts, pc) /\ Now.req = req /\ req[l] \in RequestType
        /\ pc \in [Lockers -> Positions]
    BY NowFacts
  <1> HIDE DEF t
  <1>3. PICK u, v : Downgraded(u, v, t, l)
    BY DowngradeDeparts DEF t
  <1>4. Departs(Now, u, v, t, l) /\ t = v
    BY <1>3 DEF Downgraded
  <1>5. ~InParts(parts, l)
    BY DowngradeDeparts DEF t
  <1>6. pc' = [pc EXCEPT ![l] = "idle"] /\ "idle" \in Positions
    BY <1>1, <1>2 DEF Positions
  <1>7. ThreadInv(t.req[l], "idle", FALSE)
    <2>1. ThreadInv(req[l], "idle", FALSE)
      BY <1>1, <1>2 DEF Inv, ThreadInv
    <2>2. Moved(u.req[l], t.req[l]) /\ u.req[l] \in RequestType
      BY <1>4, ReqTyped DEF Departs, Serves
    <2>3. u.req[l].status = "GRANTED" /\ u.req[l].recursiveCount = req[l].recursiveCount
      BY <1>2, <1>3 DEF Downgraded
    <2> QED
      BY <2>1, <2>2, <2>3, MovedFields DEF ThreadInv
  <1> QED
    BY <1>1, <1>4, <1>5, <1>6, <1>7, DepartsKeeps DEF t

\* A conversion that is given up: the request stays, in the mode it was granted.
LEMMA CancelConversionDeparts ==
    ASSUME IInv, NEW l \in Lockers, UnlockLockHead(l), ~corrupt',
           req[l].status = "CONVERTING", NEW t, t = [req |-> req', lock |-> lock']
    PROVE  \E u, v : Downgraded(u, v, t, l)
  <1> DEFINE counts == DecCount(lock.grantedCounts, req[l].convertMode)
             rr == [req[l] EXCEPT !.status = "GRANTED", !.convertMode = "NONE"]
             cv == lock.conversionsCount - 1
             u == [req |-> [req EXCEPT ![l].status = "GRANTED", ![l].convertMode = "NONE"],
                   lock |-> [lock EXCEPT !.conversionsCount = cv, !.grantedCounts = counts]]
             v == OnLockModeChanged(u, TRUE)
  <1>1. /\ Inv(Now, parts, pc) /\ Well(Now) /\ Now.req = req /\ Now.lock = lock
        /\ req \in [Lockers -> RequestType] /\ lock \in LockHeadType /\ req[l] \in RequestType
    BY NowFacts
  <1>2. l \in Granted(Now) /\ req[l].recursiveCount > 0
    BY UnlockLockHeadWhere
  <1>3. req' = v.req /\ lock' = v.lock
    <2>1. CancelConversion(l) = v
      BY DEF CancelConversion
    <2>2. req[l].recursiveCount # 0
      BY <1>1, <1>2 DEF RequestType
    <2> QED
      BY <2>1, <2>2 DEF UnlockLockHead
  <1>4. /\ req[l].mode \in Modes /\ req[l].convertMode \in Modes
    BY <1>1, <1>2 DEF Well, Listed, GrantedRequest
  <1>5. /\ rr \in RequestType /\ rr.mode = req[l].mode /\ rr.convertMode = "NONE"
        /\ rr.status = "GRANTED" /\ rr.compatibleFirst = req[l].compatibleFirst
        /\ rr.enqueueAtFront = req[l].enqueueAtFront
        /\ rr.recursiveCount = req[l].recursiveCount
    BY <1>1 DEF RequestType
  <1>6. /\ lock.grantedCounts \in [Modes -> Int] /\ lock.conversionsCount \in Int /\ cv \in Int
        /\ counts \in [Modes -> Int]
        /\ \A x \in Modes : counts[x] = lock.grantedCounts[x] - Unit(req[l].convertMode = x)
    <2>1. lock.grantedCounts \in [Modes -> Int] /\ lock.conversionsCount \in Int /\ cv \in Int
      BY <1>1 DEF LockHeadType
    <2> QED
      BY <1>4, <2>1, DecFacts
  <1>7. u = [req |-> [req EXCEPT ![l] = rr],
             lock |-> [lock EXCEPT !.grantedCounts = counts, !.conversionsCount = cv]]
    <2>1. [lock EXCEPT !.conversionsCount = cv, !.grantedCounts = counts]
            = [lock EXCEPT !.grantedCounts = counts, !.conversionsCount = cv]
      BY <1>1 DEF LockHeadType
    <2>2. [req EXCEPT ![l].status = "GRANTED", ![l].convertMode = "NONE"]
            = [req EXCEPT ![l] = rr]
      BY <1>1
    <2> QED
      BY <2>1, <2>2
  <1>8. cv = lock.conversionsCount - Unit(req[l].status = "CONVERTING")
                                   + Unit(rr.status = "CONVERTING")
    BY <1>5, <1>6 DEF Unit
  <1>9. v = OnLockModeChanged(u, TRUE)
    OBVIOUS
  <1> HIDE DEF counts, rr, u, cv, v
  <1>10. Remoded(Now, u, l, rr, counts, cv)
    <2>1. ASSUME NEW x \in Modes
          PROVE  counts[x] = lock.grantedCounts[x]
                   - Unit(req[l].mode = x) + Unit(rr.mode = x)
                   - Unit(req[l].convertMode = x) + Unit(rr.convertMode = x)
      <3>1. x # "NONE"
        BY DEF Modes
      <3>2. Unit(rr.mode = x) = Unit(req[l].mode = x) /\ Unit(rr.convertMode = x) = 0
        BY <1>5, <3>1 DEF Unit
      <3>3. Unit(req[l].mode = x) \in Int /\ Unit(req[l].convertMode = x) \in Int
            /\ lock.grantedCounts[x] \in Int
        BY <1>6 DEF Unit
      <3> QED
        BY <1>6, <3>2, <3>3
    <2> QED
      BY <1>1, <1>7, <1>8, <2>1 DEF Remoded, Rewritten, Recounts
  <1>11. Suits(Now, l, rr)
    <2>1. \A k \in Granted(Now) \ {l} : ~Conflicts(req[l].mode, {req[k].mode})
      BY <1>1, <1>2 DEF Well, Compatible
    <2>2. GrantedRequest(rr)
      BY <1>4, <1>5 DEF GrantedRequest
    <2> QED
      BY <1>1, <1>5, <2>1, <2>2 DEF Suits
  <1>12. req[l].mode \in IntentModes => rr.mode \in IntentModes
    BY <1>5
  <1>13. Downgraded(u, v, t, l)
    BY <1>1, <1>2, <1>3, <1>5, <1>6, <1>9, <1>10, <1>11, <1>12, RemodedDeparts
  <1> QED
    BY <1>13

LEMMA UnlockLockHeadKeeps ==
    ASSUME IInv, NEW l \in Lockers, UnlockLockHead(l), ~corrupt'
    PROVE  IInv'
  <1> DEFINE t == [req |-> req', lock |-> lock']
  <1>1. pc' = [pc EXCEPT ![l] = "idle"] /\ parts' = parts /\ priority' = priority
    BY DEF UnlockLockHead
  <1>2. ~InParts(parts, l) /\ "idle" \in Positions
    BY UnlockLockHeadWhere DEF Positions
  <1>3. CASE req[l].status # "CONVERTING"
    <2> DEFINE u == LeftBy(l)
               check == ChecksQueue(u, l)
               v == OnLockModeChanged(u, check)
    <2> HIDE DEF t, u, v, check
    <2>1. Departs(Now, u, v, t, l) /\ t.req[l] = NewLockRequest
      BY <1>3, UnlockLockHeadDeparts DEF t, u, v, check
    <2>2. ThreadInv(t.req[l], "idle", FALSE)
      BY <2>1, NewRequestFacts DEF ThreadInv
    <2> QED
      BY <1>1, <1>2, <2>1, <2>2, DepartsKeeps DEF t
  <1>4. CASE req[l].status = "CONVERTING"
    <2> HIDE DEF t
    <2>1. PICK u, v : Downgraded(u, v, t, l)
      BY <1>4, CancelConversionDeparts DEF t
    <2>2. Departs(Now, u, v, t, l) /\ t = v
      BY <2>1 DEF Downgraded
    <2>3. ThreadInv(t.req[l], "idle", FALSE)
      <3>1. req[l].recursiveCount > 0 /\ Now.req = req
        BY <1>4, UnlockLockHeadWhere, NowFacts
      <3>2. Moved(u.req[l], t.req[l]) /\ u.req[l] \in RequestType
        BY <2>2, ReqTyped DEF Departs, Serves
      <3>3. u.req[l].status = "GRANTED" /\ u.req[l].recursiveCount = req[l].recursiveCount
        BY <2>1, <3>1 DEF Downgraded
      <3> QED
        BY <3>1, <3>2, <3>3, MovedFields DEF ThreadInv
    <2> QED
      BY <1>1, <1>2, <2>2, <2>3, DepartsKeeps DEF t
  <1> QED
    BY <1>3, <1>4

LEMMA EmptyFacts ==
    ASSUME NEW t \in State, t.lock = EmptyLockHead
    PROVE  /\ Well(t) /\ Granted(t) = {} /\ Queued(t) = {} /\ t.lock.partitions = <<>>
           /\ t.lock.conflictList = <<>>
  <1>1. /\ t.lock.grantedList = <<>> /\ t.lock.conflictList = <<>> /\ t.lock.partitions = <<>>
        /\ t.lock.conversionsCount = 0 /\ t.lock.compatibleFirstCount = 0
        /\ \A x \in Modes : t.lock.grantedCounts[x] = 0 /\ t.lock.conflictCounts[x] = 0
    BY DEF EmptyLockHead
  <1>2. Granted(t) = {} /\ Queued(t) = {}
    BY <1>1 DEF Granted, Queued, ToSet
  <1>3. \A f, x : Tally({}, f, x) = 0
    BY FS_EmptySet, TallyFacts
  <1>4. Tallied(t)
    BY <1>1, <1>2, <1>3 DEF Tallied
  <1>5. Listed(t) /\ Compatible(t)
    BY <1>1, <1>2 DEF Listed, Compatible, Once
  <1> QED
    BY <1>1, <1>2, <1>4, <1>5 DEF Well

LEMMA EmptyTyped ==
    EmptyLockHead \in LockHeadType
  <1>1. <<>> \in Seq(Lockers) /\ <<>> \in Seq(Partitions)
    OBVIOUS
  <1>2. [m \in Modes |-> 0] \in [Modes -> Int]
    OBVIOUS
  <1> QED
    BY <1>1, <1>2 DEF EmptyLockHead, LockHeadType

\* The cleaner deletes a lock head only when it has nothing left on it.
LEMMA CleanupMigrates ==
    ASSUME IInv, CleanupUnusedLocks, NEW m, m = Migrated(req),
           NEW t, t = [req |-> req', lock |-> lock']
    PROVE  /\ Well(t) /\ t.req = m.req
           /\ Granted(t) = Granted(m) /\ Queued(t) = Queued(m)
           /\ t.lock.conflictList = m.lock.conflictList
           /\ t.lock.partitions = <<>>
  <1>1. Inv(NowWith(req), parts, pc)
    BY NowFacts
  <1>2. /\ Well(m) /\ m.req = req /\ m.lock.partitions = <<>>
        /\ lock.partitions # <<>> => IntentHead(m)
    BY <1>1, MigrationMoves
  <1>3. IntentHead(m) /\ req' = m.req
        /\ lock' = IF ModesOf(m.lock.grantedCounts) = {} THEN EmptyLockHead ELSE m.lock
    BY <1>2 DEF CleanupUnusedLocks, Partitioned
  <1>4. t.req = req' /\ t.lock = lock'
    OBVIOUS
  <1>5. m \in State /\ m.req \in [Lockers -> RequestType] /\ m.lock \in LockHeadType
    BY <1>2, StateFacts DEF Well
  <1>6. CASE ModesOf(m.lock.grantedCounts) = {}
    <2>1. t.lock = EmptyLockHead /\ t \in State
      BY <1>3, <1>4, <1>5, <1>6, EmptyTyped DEF State
    <2>2. /\ Well(t) /\ Granted(t) = {} /\ Queued(t) = {} /\ t.lock.partitions = <<>>
          /\ t.lock.conflictList = <<>>
      BY <2>1, EmptyFacts
    <2>3. \A k \in Granted(m) : m.req[k].mode \in Modes
      BY <1>2 DEF Well, Listed, GrantedRequest
    <2>4. Granted(m) = {}
      BY <1>2, <1>6, <2>3, ModesShown
    <2>5. Queued(m) = {} /\ m.lock.conflictList = <<>>
      BY <1>3, <1>5, StateFacts DEF IntentHead
    <2> QED
      BY <1>3, <1>4, <2>2, <2>4, <2>5
  <1>7. CASE ModesOf(m.lock.grantedCounts) # {}
    <2>1. t = m
      BY <1>3, <1>5, <1>7, SamePair
    <2> QED
      BY <1>2, <2>1
  <1> QED
    BY <1>6, <1>7

LEMMA CleanupKeeps ==
    ASSUME IInv, CleanupUnusedLocks
    PROVE  IInv'
  <1> DEFINE t == [req |-> req', lock |-> lock']
             m == Migrated(req)
             none == NoPartitionedRequests
  <1>1. parts' = none /\ priority' = priority /\ pc' = pc
    BY DEF CleanupUnusedLocks
  <1> HIDE DEF t, m
  <1>2. /\ Well(t) /\ t.req = m.req
        /\ Granted(t) = Granted(m) /\ Queued(t) = Queued(m)
        /\ t.lock.partitions = <<>>
    BY CleanupMigrates DEF t, m
  <1>3. Inv(m, none, pc)
    BY NowFacts, MigratedInv DEF m
  <1>4. HoldInv(t, none)
    BY <1>2, <1>3 DEF Inv, HoldInv
  <1>5. PartsInv(t, none)
    BY DEF PartsInv, NoPartitionedRequests, Once, ToSet
  <1>6. Inv(t, none, pc)
    BY <1>2, <1>3, <1>4, <1>5 DEF Inv
  <1> QED
    BY <1>1, <1>6, NextHolds DEF t

-----------------------------------------------------------------------------
(* The inductive invariant holds, and what follows from it *)

LEMMA InitHolds ==
    Init => IInv
  <1> SUFFICES ASSUME Init PROVE IInv
    OBVIOUS
  <1> DEFINE none == NoPartitionedRequests
  <1>1. /\ priority \in BOOLEAN /\ parts = none /\ lock = EmptyLockHead
        /\ req \in [Lockers -> RequestType] /\ pc \in [Lockers -> Positions]
        /\ \A l \in Lockers : req[l] = NewLockRequest /\ pc[l] = "idle"
    BY PrioritiesAssumption, NewRequestFacts DEF Init, Positions
  <1>2. Now \in State /\ Now.lock = EmptyLockHead /\ Now.req = req
    BY <1>1, EmptyTyped DEF State, Now
  <1> HIDE DEF none
  <1>3. Well(Now) /\ Now.lock.partitions = <<>>
    BY <1>2, EmptyFacts
  <1>4. /\ none \in [Partitions -> Seq(Lockers)]
        /\ \A p \in Partitions : Once(none[p]) /\ ToSet(none[p]) = {}
    BY DEF NoPartitionedRequests, Once, ToSet, none
  <1>5. PartsInv(Now, none)
    BY <1>4 DEF PartsInv
  <1>6. HoldInv(Now, none)
    BY <1>1, <1>2, NewRequestFacts DEF HoldInv, Held
  <1>7. \A l \in Lockers : ThreadInv(Now.req[l], pc[l], InParts(none, l))
    BY <1>1, <1>2, NewRequestFacts DEF ThreadInv
  <1>8. Inv(Now, none, pc)
    BY <1>1, <1>3, <1>4, <1>5, <1>6, <1>7 DEF Inv
  <1> QED
    BY <1>1, <1>8 DEF IInv

LEMMA NextKeeps ==
    ASSUME IInv, [Next]_vars, ~corrupt'
    PROVE  IInv'
  <1>1. CASE UNCHANGED vars
    BY <1>1 DEF vars, IInv, Now
  <1>2. ASSUME NEW l \in Lockers, StartPartition(l) PROVE IInv'
    BY <1>2, StartPartitionKeeps
  <1>3. ASSUME NEW l \in Lockers, UseLockHead(l) PROVE IInv'
    BY <1>3, UseLockHeadKeeps
  <1>4. ASSUME NEW l \in Lockers, LockComplete(l) PROVE IInv'
    BY <1>4, LockCompleteKeeps
  <1>5. ASSUME NEW l \in Lockers, Abandon(l) PROVE IInv'
    BY <1>5, AbandonKeeps
  <1>6. ASSUME NEW l \in Lockers, Unlock(l) PROVE IInv'
    BY <1>6, UnlockUnlockedKeeps DEF Unlock
  <1>7. ASSUME NEW l \in Lockers, UnlockRSTLForPrepare(l) PROVE IInv'
    BY <1>7, UnlockRSTLForPrepareKeeps
  <1>8. ASSUME NEW l \in Lockers, UnlockPartition(l) PROVE IInv'
    BY <1>8, UnlockPartitionKeeps
  <1>9. ASSUME NEW l \in Lockers, UnlockLockHead(l) PROVE IInv'
    BY <1>9, UnlockLockHeadKeeps
  <1>10. ASSUME NEW l \in Lockers, NEW mode \in Modes, LockBegin(l, mode) PROVE IInv'
    BY <1>10, LockBeginKeeps
  <1>11. ASSUME NEW l \in Lockers, NEW mode \in Modes, ConvertCovered(l, mode) PROVE IInv'
    BY <1>11, ConvertCoveredKeeps
  <1>12. ASSUME NEW l \in Lockers, NEW mode \in Modes, Convert(l, mode) PROVE IInv'
    BY <1>12, ConvertKeeps
  <1>13. ASSUME NEW l \in Lockers, NEW mode \in Modes, Downgrade(l, mode) PROVE IInv'
    BY <1>13, DowngradeKeeps
  <1>14. CASE CleanupUnusedLocks
    BY <1>14, CleanupKeeps
  <1> QED
    BY <1>1, <1>2, <1>3, <1>4, <1>5, <1>6, <1>7, <1>8, <1>9, <1>10, <1>11, <1>12, <1>13,
       <1>14 DEF Next

LEMMA NextStarts ==
    ASSUME corrupt \in BOOLEAN, [Next]_vars
    PROVE  /\ corrupt' \in BOOLEAN
           /\ ~corrupt' => ~corrupt
  <1>1. CASE UNCHANGED vars
    BY <1>1 DEF vars
  <1>2. ASSUME NEW l \in Lockers,
               \/ StartPartition(l) \/ UseLockHead(l) \/ LockComplete(l) \/ UnlockPartition(l)
               \/ UnlockRSTLForPrepare(l) \/ Unlock(l) \/ Abandon(l)
        PROVE  corrupt' = corrupt
    BY <1>2 DEF StartPartition, UseLockHead, LockComplete, UnlockPartition,
                UnlockRSTLForPrepare, Unlock, Abandon, UnlockUnlocked
  <1>3. ASSUME NEW l \in Lockers, UnlockLockHead(l) PROVE ~corrupt /\ corrupt' \in BOOLEAN
    BY <1>3 DEF UnlockLockHead
  <1>4. ASSUME NEW l \in Lockers, NEW mode \in Modes,
               LockBegin(l, mode) \/ ConvertCovered(l, mode) \/ Downgrade(l, mode)
        PROVE  corrupt' = corrupt
    BY <1>4 DEF LockBegin, ConvertCovered, Downgrade
  <1>5. ASSUME NEW l \in Lockers, NEW mode \in Modes, Convert(l, mode)
        PROVE  ~corrupt /\ corrupt' \in BOOLEAN
    BY <1>5 DEF Convert
  <1>6. CASE CleanupUnusedLocks
    BY <1>6 DEF CleanupUnusedLocks
  <1> QED
    BY <1>1, <1>2, <1>3, <1>4, <1>5, <1>6 DEF Next

\* The inductive invariant: the lists, the counts, the partitions and what each
\* thread knows agree, up to the first release of a request that still has
\* references, or the first upgrade that the policy's count misses.
THEOREM InvariantHolds ==
    Spec => []Sound
  <1>1. Init => Sound
    BY InitHolds DEF Init, Sound
  <1>2. Sound /\ [Next]_vars => Sound'
    <2> SUFFICES ASSUME Sound, [Next]_vars PROVE Sound'
      OBVIOUS
    <2>1. corrupt' \in BOOLEAN /\ (~corrupt' => ~corrupt)
      BY NextStarts DEF Sound
    <2>2. ASSUME ~corrupt' PROVE IInv'
      BY <2>1, <2>2, NextKeeps DEF Sound
    <2> QED
      BY <2>1, <2>2 DEF Sound
  <1> QED
    BY <1>1, <1>2, PTL DEF Spec

LEMMA CountsNat ==
    ASSUME NEW s, Well(s)
    PROVE  /\ s.lock.grantedCounts \in [Modes -> Nat] /\ s.lock.conflictCounts \in [Modes -> Nat]
           /\ s.lock.conversionsCount \in Nat /\ s.lock.compatibleFirstCount \in Nat
  <1>1. /\ s.lock.grantedCounts \in [Modes -> Int] /\ s.lock.conflictCounts \in [Modes -> Int]
        /\ IsFiniteSet(Granted(s)) /\ IsFiniteSet(Queued(s))
    BY StateFacts DEF Well
  <1>2. \A f, x : Tally(Granted(s), f, x) \in Nat /\ Tally(Queued(s), f, x) \in Nat
    BY <1>1, TallyFacts
  <1>3. \A m \in Modes : s.lock.grantedCounts[m] \in Nat /\ s.lock.conflictCounts[m] \in Nat
    BY <1>2 DEF Well, Tallied
  <1> QED
    BY <1>1, <1>2, <1>3 DEF Well, Tallied

\* Before a corrupt step the requests, the lock head, the partitions and the
\* threads' positions keep their types; no count goes below zero and no recursiveCount out of range.
THEOREM TypeCorrect ==
    Spec => []TypeOK
  <1>1. Sound => TypeOK
    <2> SUFFICES ASSUME IInv, ~corrupt, corrupt \in BOOLEAN PROVE TypeOK
      BY DEF Sound, TypeOK
    <2>1. /\ priority \in BOOLEAN /\ Well(Now) /\ Now.lock = lock
          /\ req \in [Lockers -> RequestType] /\ lock \in LockHeadType
          /\ parts \in [Partitions -> Seq(Lockers)] /\ pc \in [Lockers -> Positions]
      BY NowFacts
    <2>2. /\ lock.grantedList \in Seq(Lockers) /\ lock.conflictList \in Seq(Lockers)
          /\ lock.partitions \in Seq(Partitions)
      BY <2>1 DEF LockHeadType
    <2>3. /\ lock.grantedCounts \in [Modes -> Nat] /\ lock.conflictCounts \in [Modes -> Nat]
          /\ lock.conversionsCount \in Nat /\ lock.compatibleFirstCount \in Nat
      BY <2>1, CountsNat
    <2> QED
      BY <2>1, <2>2, <2>3 DEF TypeOK, Positions
  <1> QED
    BY <1>1, InvariantHolds, PTL

\* No two lockers hold the resource in conflicting modes before a corrupt step,
\* with conversions that are given up too: two grants on the lock head are
\* compatible, and while there is one in a partition every grant has an intent
\* mode.
THEOREM GrantsAreCompatible ==
    Spec => []NoConflictingGrants
  <1>1. Sound => NoConflictingGrants
    <2> SUFFICES ASSUME IInv, NEW l \in Lockers, NEW k \in Lockers, l # k, Holds(l), Holds(k)
                 PROVE  ~Conflicts(req[l].mode, {req[k].mode})
      BY DEF Sound, NoConflictingGrants
    <2>1. Inv(Now, parts, pc) /\ Well(Now) /\ Now.req = req /\ Now.lock = lock
      BY NowFacts
    <2>2. /\ l \in Granted(Now) \/ InParts(parts, l)
          /\ k \in Granted(Now) \/ InParts(parts, k)
      BY <2>1 DEF Inv, HoldInv, Held, Holds
    <2>3. CASE l \in Granted(Now) /\ k \in Granted(Now)
      BY <2>1, <2>3 DEF Well, Compatible
    <2>4. CASE InParts(parts, l) \/ InParts(parts, k)
      <3>1. /\ InParts(parts, l) => PartitionedRequest(Now, l, GetPartition(l))
            /\ InParts(parts, k) => PartitionedRequest(Now, k, GetPartition(k))
        BY <2>1, HeldIsGranted
      <3>2. lock.partitions # <<>>
        BY <2>1, <2>4, <3>1 DEF PartitionedRequest, ToSet
      <3>3. IntentHead(Now)
        BY <2>1, <3>2 DEF Inv
      <3>4. req[l].mode \in IntentModes /\ req[k].mode \in IntentModes
        BY <2>1, <2>2, <3>1, <3>3 DEF IntentHead, PartitionedRequest
      <3> QED
        BY <3>4, ModeFacts
    <2> QED
      BY <2>2, <2>3, <2>4
  <1> QED
    BY <1>1, InvariantHolds, PTL

\* While the lock is partitioned there is no conflict on the lock head and
\* nothing but intent modes is granted, there or in a partition.
THEOREM PartitionsHoldIntents ==
    Spec => []PartitionedMeansIntent
  <1>1. Sound => PartitionedMeansIntent
    <2> SUFFICES ASSUME IInv, Partitioned
                 PROVE  /\ ModesOf(lock.conflictCounts) = {}
                        /\ ModesOf(lock.grantedCounts) \subseteq IntentModes
                        /\ \A p \in Partitions, l \in Lockers :
                             l \in ToSet(parts[p]) => req[l].mode \in IntentModes
      BY DEF Sound, PartitionedMeansIntent
    <2>1. Inv(Now, parts, pc) /\ Well(Now) /\ Now.req = req /\ Now.lock = lock
      BY NowFacts
    <2>2. IntentHead(Now)
      BY <2>1 DEF Inv, Partitioned
    <2>3. /\ \A m \in Modes : m \in ModesOf(lock.grantedCounts) <=>
               \E k \in Granted(Now) : req[k].mode = m \/ req[k].convertMode = m
          /\ \A m \in Modes : m \in ModesOf(lock.conflictCounts) <=>
               \E k \in Queued(Now) : req[k].mode = m
          /\ ModesOf(lock.grantedCounts) \subseteq Modes
          /\ ModesOf(lock.conflictCounts) \subseteq Modes
      BY <2>1, ModesShown
    <2>4. ModesOf(lock.conflictCounts) = {}
      BY <2>2, <2>3 DEF IntentHead
    <2>5. ASSUME NEW m \in ModesOf(lock.grantedCounts) PROVE m \in IntentModes
      <3>1. m \in Modes /\ m # "NONE"
        BY <2>3 DEF Modes
      <3>2. PICK k \in Granted(Now) : req[k].mode = m \/ req[k].convertMode = m
        BY <2>3, <3>1
      <3> QED
        BY <2>1, <2>2, <3>1, <3>2 DEF IntentHead
    <2>6. \A p \in Partitions, l \in Lockers :
            l \in ToSet(parts[p]) => req[l].mode \in IntentModes
      BY <2>1 DEF Inv, PartsInv, PartitionedRequest
    <2> QED
      BY <2>4, <2>5, <2>6
  <1> QED
    BY <1>1, InvariantHolds, PTL

LEMMA CountOf ==
    ASSUME NEW q \in Seq(Lockers), Once(q), NEW f, NEW v
    PROVE  Cardinality({i \in DOMAIN q : f[q[i]] = v}) = Tally(ToSet(q), f, v)
  <1> DEFINE A == {l \in ToSet(q) : f[l] = v}
  <1>1. Cardinality({i \in DOMAIN q : q[i] \in A}) = Cardinality({l \in ToSet(q) : l \in A})
    BY CountIsTally
  <1>2. \A i \in DOMAIN q : q[i] \in ToSet(q)
    BY ListFacts
  <1>3. {i \in DOMAIN q : q[i] \in A} = {i \in DOMAIN q : f[q[i]] = v}
    BY <1>2
  <1>4. {l \in ToSet(q) : l \in A} = {l \in ToSet(q) : f[l] = v}
    OBVIOUS
  <1> QED
    BY <1>1, <1>3, <1>4 DEF Tally

LEMMA CountOne ==
    ASSUME NEW q \in Seq(Lockers), Once(q), NEW l
    PROVE  Cardinality({i \in DOMAIN q : q[i] = l}) = Unit(l \in ToSet(q))
  <1>1. Cardinality({i \in DOMAIN q : q[i] \in {l}}) = Cardinality({k \in ToSet(q) : k \in {l}})
    BY CountIsTally
  <1>2. {i \in DOMAIN q : q[i] \in {l}} = {i \in DOMAIN q : q[i] = l}
    OBVIOUS
  <1>3. CASE l \in ToSet(q)
    <2>1. {k \in ToSet(q) : k \in {l}} = {l}
      BY <1>3
    <2>2. Cardinality({l}) = 1
      BY FS_Singleton
    <2> QED
      BY <1>1, <1>2, <1>3, <2>1, <2>2 DEF Unit
  <1>4. CASE l \notin ToSet(q)
    <2>1. {k \in ToSet(q) : k \in {l}} = {}
      BY <1>4
    <2>2. Cardinality({}) = 0
      BY FS_EmptySet
    <2> QED
      BY <1>1, <1>2, <1>4, <2>1, <2>2 DEF Unit
  <1> QED
    BY <1>3, <1>4

\* Every holder is on exactly one granted list and every waiter on the queue,
\* and the four counts of the lock head are those of its lists, before a corrupt
\* step.
THEOREM CountsAreExact ==
    Spec => []CountsMatchLists
  <1>1. Sound => CountsMatchLists
    <2> SUFFICES ASSUME IInv PROVE CountsMatchLists
      BY DEF Sound, CountsMatchLists
    <2> DEFINE g == lock.grantedList
               c == lock.conflictList
    <2>1. /\ Inv(Now, parts, pc) /\ Well(Now) /\ Now.req = req /\ Now.lock = lock
          /\ lock \in LockHeadType /\ parts \in [Partitions -> Seq(Lockers)]
      BY NowFacts
    <2>2. /\ g \in Seq(Lockers) /\ c \in Seq(Lockers) /\ Once(g) /\ Once(c)
          /\ Granted(Now) = ToSet(g) /\ Queued(Now) = ToSet(c)
          /\ ToSet(g) \subseteq Lockers /\ ToSet(c) \subseteq Lockers
      BY <2>1, StateFacts DEF Well, Listed, Granted, Queued
    <2>3. \A i \in DOMAIN g : g[i] \in Lockers
      BY <2>2
    <2>4. \A i \in DOMAIN c : c[i] \in Lockers
      BY <2>2
    <2>5. ASSUME NEW l \in Lockers
          PROVE  /\ Count(g, LAMBDA k : k = l) + Count(parts[GetPartition(l)], LAMBDA k : k = l)
                      = (IF Holds(l) THEN 1 ELSE 0)
                 /\ Count(c, LAMBDA k : k = l) = (IF req[l].status = "WAITING" THEN 1 ELSE 0)
      <3> DEFINE p == parts[GetPartition(l)]
      <3>1. p \in Seq(Lockers) /\ Once(p)
        BY <2>1, PartitionFacts DEF Inv, PartsInv
      <3>2. /\ Count(g, LAMBDA k : k = l) = Unit(l \in ToSet(g))
            /\ Count(p, LAMBDA k : k = l) = Unit(l \in ToSet(p))
            /\ Count(c, LAMBDA k : k = l) = Unit(l \in ToSet(c))
        BY <2>2, <3>1, CountOne DEF Count
      <3>3. /\ Holds(l) => l \in ToSet(g) \/ l \in ToSet(p)
            /\ req[l].status = "WAITING" => l \in ToSet(c)
        BY <2>1, <2>2 DEF Inv, HoldInv, Held, Holds, InParts
      <3>4. /\ l \in ToSet(g) => Holds(l)
            /\ l \in ToSet(c) => req[l].status = "WAITING"
        BY <2>1, <2>2, ListedStatus DEF Held, Holds
      <3>5. l \in ToSet(p) => Holds(l) /\ l \notin ToSet(g)
        BY <2>1, <2>2, HeldIsGranted DEF InParts, PartitionedRequest, Holds
      <3> QED
        BY <3>2, <3>3, <3>4, <3>5 DEF Unit
    <2>6. ASSUME NEW m \in Modes
          PROVE  /\ lock.grantedCounts[m] = Count(g, LAMBDA l : req[l].mode = m)
                                              + Count(g, LAMBDA l : req[l].convertMode = m)
                 /\ lock.conflictCounts[m] = Count(c, LAMBDA l : req[l].mode = m)
      <3>1. /\ {i \in DOMAIN g : ModeOf(Now)[g[i]] = m} = {i \in DOMAIN g : req[g[i]].mode = m}
            /\ {i \in DOMAIN g : ConvertModeOf(Now)[g[i]] = m}
                 = {i \in DOMAIN g : req[g[i]].convertMode = m}
            /\ {i \in DOMAIN c : ModeOf(Now)[c[i]] = m} = {i \in DOMAIN c : req[c[i]].mode = m}
        BY <2>1, <2>3, <2>4, ViewsOf
      <3>2. /\ Tally(ToSet(g), ModeOf(Now), m) = Count(g, LAMBDA l : req[l].mode = m)
            /\ Tally(ToSet(g), ConvertModeOf(Now), m) = Count(g, LAMBDA l : req[l].convertMode = m)
            /\ Tally(ToSet(c), ModeOf(Now), m) = Count(c, LAMBDA l : req[l].mode = m)
        BY <2>2, <3>1, CountOf DEF Count
      <3> QED
        BY <2>1, <2>2, <3>2 DEF Well, Tallied
    <2>7. lock.conversionsCount = Count(g, LAMBDA l : req[l].status = "CONVERTING")
      <3>1. {i \in DOMAIN g : StatusOf(Now)[g[i]] = "CONVERTING"}
              = {i \in DOMAIN g : req[g[i]].status = "CONVERTING"}
        BY <2>1, <2>3, ViewsOf
      <3>2. Tally(ToSet(g), StatusOf(Now), "CONVERTING")
              = Count(g, LAMBDA l : req[l].status = "CONVERTING")
        BY <2>2, <3>1, CountOf DEF Count
      <3> QED
        BY <2>1, <2>2, <3>2 DEF Well, Tallied
    <2>8. lock.compatibleFirstCount = Count(g, LAMBDA l : req[l].compatibleFirst)
      <3>1. {i \in DOMAIN g : FirstOf(Now)[g[i]] = 1} = {i \in DOMAIN g : req[g[i]].compatibleFirst}
        BY <2>1, <2>3, ViewsOf
      <3>2. Tally(ToSet(g), FirstOf(Now), 1) = Count(g, LAMBDA l : req[l].compatibleFirst)
        BY <2>2, <3>1, CountOf DEF Count
      <3> QED
        BY <2>1, <2>2, <3>2 DEF Well, Tallied
    <2> QED
      BY <2>5, <2>6, <2>7, <2>8 DEF CountsMatchLists, CompatibleFirstIsCounted
  <1> QED
    BY <1>1, InvariantHolds, PTL

-----------------------------------------------------------------------------
(* No wake-up is lost *)

NoFlags(s) == \A l \in Lockers : ~s.req[l].compatibleFirst /\ ~s.req[l].enqueueAtFront

LEMMA HeadQueued ==
    ASSUME NEW s, Well(s), s.lock.conflictList # <<>>
    PROVE  /\ Head(s.lock.conflictList) \in Queued(s)
           /\ s.req[Head(s.lock.conflictList)].mode \in Modes
           /\ s.req[Head(s.lock.conflictList)].status = "WAITING"
  <1> DEFINE q == s.lock.conflictList
  <1>1. q \in Seq(Lockers)
    BY StateFacts DEF Well
  <1>2. Head(q) = q[1] /\ 1 \in 1 .. Len(q)
    BY <1>1
  <1>3. Head(q) \in ToSet(q)
    <2> HIDE DEF q
    <2> QED
      BY <1>1, <1>2, ListFacts
  <1>4. Head(q) \in Queued(s)
    BY <1>3 DEF Queued
  <1> QED
    BY <1>4 DEF Well, Listed, WaitingRequest

\* Whoever stood in somebody's way still does.
Lasts(s, t) ==
    /\ Granted(s) \subseteq Granted(t)
    /\ \A k \in Granted(s), m \in Modes : Against(s, m, k) => Against(t, m, k)

\* A conversion that waits waited before, or somebody stands in its way.
OldOrBlocked(s, t, k) ==
    \/ /\ k \in Granted(s)
       /\ s.req[k].status = "CONVERTING"
       /\ s.req[k].convertMode = t.req[k].convertMode
    \/ \E j \in Granted(t) \ {k} : Against(t, t.req[k].convertMode, j)

SameQueue(s, t) ==
    /\ t.lock.conflictList = s.lock.conflictList
    /\ \A k \in Queued(s) : t.req[k].mode = s.req[k].mode

LEMMA ConversionsStayBlocked ==
    ASSUME NEW s, NEW t, Well(s), ConversionsBlocked(s), Lasts(s, t),
           \A k \in Granted(t) : t.req[k].status = "CONVERTING" => OldOrBlocked(s, t, k)
    PROVE  ConversionsBlocked(t)
  <1> SUFFICES ASSUME NEW k \in Granted(t), t.req[k].status = "CONVERTING"
               PROVE  \E j \in Granted(t) \ {k} : Against(t, t.req[k].convertMode, j)
    BY DEF ConversionsBlocked
  <1>1. CASE /\ k \in Granted(s)
             /\ s.req[k].status = "CONVERTING"
             /\ s.req[k].convertMode = t.req[k].convertMode
    <2>1. s.req[k].convertMode \in Modes
      BY <1>1 DEF Well, Listed, GrantedRequest
    <2>2. PICK j \in Granted(s) \ {k} : Against(s, s.req[k].convertMode, j)
      BY <1>1 DEF ConversionsBlocked
    <2> QED
      BY <1>1, <2>1, <2>2 DEF Lasts
  <1> QED
    BY <1>1 DEF OldOrBlocked

LEMMA HeadStaysBlocked ==
    ASSUME NEW s, NEW t, Well(s), Lasts(s, t), SameQueue(s, t), HeadBlocked(s)
    PROVE  HeadBlocked(t)
  <1> SUFFICES ASSUME t.lock.conflictList # <<>>
               PROVE  \E k \in Granted(t) : Against(t, t.req[Head(t.lock.conflictList)].mode, k)
    BY DEF HeadBlocked
  <1> DEFINE h == Head(s.lock.conflictList)
  <1>1. h = Head(t.lock.conflictList) /\ s.lock.conflictList # <<>>
    BY DEF SameQueue
  <1>2. h \in Queued(s) /\ s.req[h].mode \in Modes
    BY <1>1, HeadQueued
  <1>3. t.req[h].mode = s.req[h].mode
    BY <1>2 DEF SameQueue
  <1>4. PICK k \in Granted(s) : Against(s, s.req[h].mode, k)
    BY <1>1 DEF HeadBlocked
  <1> HIDE DEF h
  <1> QED
    BY <1>1, <1>2, <1>3, <1>4 DEF Lasts

LEMMA StaysAwake ==
    ASSUME NEW s, NEW t, NEW first, Well(s), Awake(s, first),
           ~first => NoFlags(t), Lasts(s, t), SameQueue(s, t),
           \A k \in Granted(t) : t.req[k].status = "CONVERTING" => OldOrBlocked(s, t, k)
    PROVE  Awake(t, first)
  <1>1. ConversionsBlocked(t)
    BY ConversionsStayBlocked DEF Awake
  <1>2. ~first => HeadBlocked(t)
    BY HeadStaysBlocked DEF Awake
  <1>3. Queued(t) = Queued(s)
    BY DEF SameQueue, Queued
  <1>4. Queued(t) # {} => Granted(t) # {}
    BY <1>3 DEF Awake, Lasts
  <1> QED
    BY <1>1, <1>2, <1>4 DEF Awake, NoFlags

LEMMA NextAwake ==
    ASSUME priority' = priority, NEW t, t = [req |-> req', lock |-> lock'], Awake(t, priority)
    PROVE  WakeInv'
  BY DEF WakeInv, Now

\* The requests on the lists have not changed.
SameListed(s, t) ==
    /\ t.lock.grantedList = s.lock.grantedList
    /\ t.lock.conflictList = s.lock.conflictList
    /\ \A k \in Granted(s) \cup Queued(s) :
         /\ t.req[k].status = s.req[k].status
         /\ t.req[k].mode = s.req[k].mode
         /\ t.req[k].convertMode = s.req[k].convertMode

LEMMA SameAwake ==
    ASSUME NEW s, NEW t, NEW first, Well(s), Awake(s, first), ~first => NoFlags(t),
           SameListed(s, t)
    PROVE  Awake(t, first)
  <1>1. Granted(t) = Granted(s) /\ Queued(t) = Queued(s)
    BY DEF SameListed, Granted, Queued
  <1>2. Lasts(s, t)
    BY <1>1 DEF SameListed, Lasts, Against
  <1>3. SameQueue(s, t)
    BY DEF SameListed, SameQueue
  <1>4. \A k \in Granted(t) : t.req[k].status = "CONVERTING" => OldOrBlocked(s, t, k)
    BY <1>1 DEF SameListed, OldOrBlocked
  <1> QED
    BY <1>2, <1>3, <1>4, StaysAwake

\* A step of one thread that changes no request on the lists.
LEMMA ThreadAwake ==
    ASSUME IInv, WakeInv, NEW l \in Lockers, priority' = priority,
           lock'.grantedList = lock.grantedList, lock'.conflictList = lock.conflictList,
           NEW r, req' = [req EXCEPT ![l] = r],
           l \in Granted(Now) \/ l \in Queued(Now) =>
             r.status = req[l].status /\ r.mode = req[l].mode /\ r.convertMode = req[l].convertMode,
           ~priority => ~r.compatibleFirst /\ ~r.enqueueAtFront
    PROVE  WakeInv'
  <1> DEFINE t == [req |-> req', lock |-> lock']
  <1>1. /\ Well(Now) /\ Now.req = req /\ Now.lock = lock /\ req \in [Lockers -> RequestType]
    BY NowFacts
  <1>2. t.req = req' /\ t.lock = lock'
    OBVIOUS
  <1>3. req'[l] = r /\ \A k \in Lockers \ {l} : req'[k] = req[k]
    BY <1>1
  <1>4. Granted(Now) \subseteq Lockers /\ Queued(Now) \subseteq Lockers
    BY <1>1, StateFacts DEF Well
  <1> HIDE DEF t
  <1>5. SameListed(Now, t)
    BY <1>1, <1>2, <1>3, <1>4 DEF SameListed
  <1>6. ~priority => NoFlags(t)
    BY <1>1, <1>2, <1>3 DEF WakeInv, Awake, NoFlags
  <1>7. Awake(t, priority)
    BY <1>1, <1>5, <1>6, SameAwake DEF WakeInv
  <1> QED
    BY <1>7, NextAwake DEF t

LEMMA NotFirst ==
    ASSUME IInv, WakeInv, NEW l \in Lockers
    PROVE  ~priority => ~req[l].compatibleFirst /\ ~req[l].enqueueAtFront
  BY NowFacts DEF WakeInv, Awake

LEMMA LockBeginWakes ==
    ASSUME IInv, WakeInv, NEW l \in Lockers, NEW mode \in Modes, LockBegin(l, mode)
    PROVE  WakeInv'
  <1> DEFINE fast == mode \in IntentModes /\ HasPartitionedLockHead(GetPartition(l))
             status == IF fast THEN "GRANTED" ELSE "NEW"
             r == Asked(mode, status)
  <1>1. /\ req' = [req EXCEPT ![l] = r] /\ lock' = lock /\ priority' = priority
        /\ req[l].status = "NEW"
    BY DEF LockBegin, Asked
  <1>2. status \in {"NEW", "GRANTED"}
    OBVIOUS
  <1> HIDE DEF status
  <1>3. r.compatibleFirst = GoesFirst(mode) /\ r.enqueueAtFront = GoesFirst(mode)
    BY <1>2, AskedFacts
  <1>4. ~priority => ~r.compatibleFirst /\ ~r.enqueueAtFront
    BY <1>3 DEF GoesFirst
  <1>5. l \notin Granted(Now) /\ l \notin Queued(Now)
    BY <1>1, NowFacts, NewIsNowhere
  <1> HIDE DEF r
  <1> QED
    BY <1>1, <1>4, <1>5, ThreadAwake

LEMMA RecountWakes ==
    ASSUME IInv, WakeInv, NEW l \in Lockers, priority' = priority, lock' = lock, NEW count,
           req' = [req EXCEPT ![l].recursiveCount = count]
    PROVE  WakeInv'
  <1> DEFINE r == [req[l] EXCEPT !.recursiveCount = count]
  <1>1. req \in [Lockers -> RequestType] /\ req[l] \in RequestType
    BY NowFacts
  <1>2. req' = [req EXCEPT ![l] = r]
    OBVIOUS
  <1>3. /\ r.status = req[l].status /\ r.mode = req[l].mode /\ r.convertMode = req[l].convertMode
        /\ r.compatibleFirst = req[l].compatibleFirst /\ r.enqueueAtFront = req[l].enqueueAtFront
    BY <1>1 DEF RequestType
  <1> HIDE DEF r
  <1>4. ~priority => ~r.compatibleFirst /\ ~r.enqueueAtFront
    BY <1>3, NotFirst
  <1> QED
    BY <1>2, <1>3, <1>4, ThreadAwake

LEMMA LockCompleteWakes ==
    ASSUME IInv, WakeInv, NEW l \in Lockers, LockComplete(l)
    PROVE  WakeInv'
  BY DEF LockComplete, WakeInv, Now

LEMMA StartPartitionWakes ==
    ASSUME IInv, WakeInv, NEW l \in Lockers, StartPartition(l)
    PROVE  WakeInv'
  <1> DEFINE r == [req[l] EXCEPT !.status = "GRANTED"]
  <1>1. /\ req \in [Lockers -> RequestType] /\ req[l] \in RequestType /\ lock \in LockHeadType
        /\ Inv(Now, parts, pc) /\ Now.req = req
    BY NowFacts
  <1>2. /\ req' = [req EXCEPT ![l] = r] /\ priority' = priority /\ pc[l] = "lock"
        /\ lock' = [lock EXCEPT !.partitions = Append(@, GetPartition(l))]
    BY DEF StartPartition
  <1>3. r.compatibleFirst = req[l].compatibleFirst /\ r.enqueueAtFront = req[l].enqueueAtFront
    BY <1>1 DEF RequestType
  <1>4. lock'.grantedList = lock.grantedList /\ lock'.conflictList = lock.conflictList
    BY <1>1, <1>2 DEF LockHeadType
  <1>5. ThreadInv(req[l], "lock", InParts(parts, l))
    BY <1>1, <1>2 DEF Inv
  <1>6. l \notin Granted(Now) /\ l \notin Queued(Now)
    BY <1>1, <1>5, NewIsNowhere DEF ThreadInv
  <1> HIDE DEF r
  <1>7. ~priority => ~r.compatibleFirst /\ ~r.enqueueAtFront
    BY <1>3, NotFirst
  <1> QED
    BY <1>2, <1>4, <1>6, <1>7, ThreadAwake

LEMMA UnlockPartitionWakes ==
    ASSUME IInv, WakeInv, NEW l \in Lockers, UnlockPartition(l)
    PROVE  WakeInv'
  <1>1. Inv(Now, parts, pc) /\ Well(Now) /\ Now.req = req
    BY NowFacts
  <1>2. lock' = lock /\ priority' = priority
    BY DEF UnlockPartition
  <1>3. CASE l \notin ToSet(parts[GetPartition(l)])
    <2>1. req' = req
      BY <1>3 DEF UnlockPartition
    <2> QED
      BY <1>2, <2>1 DEF WakeInv, Now
  <1>4. CASE l \in ToSet(parts[GetPartition(l)])
    <2>1. req' = [req EXCEPT ![l] = NewLockRequest]
      BY <1>4 DEF UnlockPartition
    <2>2. req[l].status = "GRANTED" /\ l \notin Granted(Now)
      BY <1>1, <1>4, HeldIsGranted DEF InParts, PartitionedRequest
    <2>3. l \notin Queued(Now)
      BY <1>1, <2>2, ListedStatus
    <2> QED
      BY <1>2, <2>1, <2>2, <2>3, NewRequestFacts, ThreadAwake
  <1> QED
    BY <1>3, <1>4

LEMMA MigrationWakes ==
    ASSUME IInv, WakeInv, NEW rs \in [Lockers -> RequestType], Inv(NowWith(rs), parts, pc),
           \A k \in Granted(Now) \cup Queued(Now) :
             /\ rs[k].status = req[k].status
             /\ rs[k].mode = req[k].mode
             /\ rs[k].convertMode = req[k].convertMode,
           ~priority => rs = req, NEW m, m = Migrated(rs)
    PROVE  Awake(m, priority) /\ Well(m) /\ m.req = rs
  <1> DEFINE n == NowWith(rs)
  <1>1. Well(Now) /\ Now.req = req /\ Now.lock = lock /\ n.req = rs /\ n.lock = lock /\ Well(n)
    BY NowFacts DEF Inv, NowWith
  <1>2. /\ Well(m) /\ m.req = rs /\ m.lock.conflictList = lock.conflictList
        /\ Granted(m) = Granted(Now) \cup {l \in Lockers : InParts(parts, l)}
    BY MigrationMoves
  <1>3. ~priority => NoFlags(n)
    BY <1>1 DEF WakeInv, Awake, NoFlags
  <1> HIDE DEF n
  <1>4. SameListed(Now, n)
    BY <1>1 DEF SameListed
  <1>5. Awake(n, priority)
    BY <1>1, <1>3, <1>4, SameAwake DEF WakeInv
  <1>6. Granted(n) = Granted(Now) /\ Queued(n) = Queued(Now)
    BY <1>1 DEF Granted, Queued
  <1>7. Lasts(n, m)
    BY <1>1, <1>2, <1>6 DEF Lasts, Against
  <1>8. SameQueue(n, m)
    BY <1>1, <1>2 DEF SameQueue
  <1>9. \A k \in Granted(m) : m.req[k].status = "CONVERTING" => OldOrBlocked(n, m, k)
    <2> SUFFICES ASSUME NEW k \in Granted(m), m.req[k].status = "CONVERTING"
                 PROVE  k \in Granted(n)
      BY <1>1, <1>2 DEF OldOrBlocked
    <2>1. Inv(n, parts, pc)
      BY DEF n
    <2> QED
      BY <1>1, <1>2, <1>6, <2>1, HeldIsGranted DEF PartitionedRequest
  <1>10. ~priority => NoFlags(m)
    BY <1>1, <1>2, <1>3 DEF NoFlags
  <1> QED
    BY <1>1, <1>2, <1>5, <1>7, <1>8, <1>9, <1>10, StaysAwake

LEMMA MigrationAwake ==
    ASSUME IInv, WakeInv, NEW m, m = Migrated(req)
    PROVE  Awake(m, priority) /\ Well(m)
  <1>1. Inv(NowWith(req), parts, pc) /\ req \in [Lockers -> RequestType]
    BY NowFacts
  <1> QED
    BY <1>1, MigrationWakes

LEMMA ComesAwake ==
    ASSUME NEW m, Well(m), NEW first, Awake(m, first), NEW l \in Lockers,
           l \notin Granted(m), l \notin Queued(m), m.req[l].mode \in Modes,
           NEW t, Comes(m, t, l)
    PROVE  Awake(t, first)
  <1>1. /\ Well(t) /\ \A k \in Lockers \ {l} : t.req[k] = m.req[k]
        /\ t.req[l].mode = m.req[l].mode
        /\ t.req[l].compatibleFirst = m.req[l].compatibleFirst
        /\ t.req[l].enqueueAtFront = m.req[l].enqueueAtFront
    BY DEF Comes
  <1>2. ~first => NoFlags(t)
    BY <1>1 DEF Awake, NoFlags
  <1>3. Granted(m) \subseteq Lockers \ {l} /\ Queued(m) \subseteq Lockers \ {l}
    BY StateFacts DEF Well
  <1>4. \A k \in Granted(m) \cup Queued(m) : t.req[k] = m.req[k]
    BY <1>1, <1>3
  <1>5. Granted(m) \subseteq Granted(t)
    BY DEF Comes, Admitted, Parked
  <1>6. Lasts(m, t)
    BY <1>4, <1>5 DEF Lasts, Against
  <1>7. \A k \in Granted(t) : t.req[k].status = "CONVERTING" => OldOrBlocked(m, t, k)
    BY <1>4 DEF Comes, Admitted, Parked, OldOrBlocked
  <1>8. CASE Admitted(m, t, l)
    <2>1. SameQueue(m, t)
      BY <1>4, <1>8 DEF Admitted, SameQueue
    <2> QED
      BY <1>2, <1>6, <1>7, <2>1, StaysAwake
  <1>9. CASE Parked(m, t, l)
    <2>1. ConversionsBlocked(t)
      BY <1>6, <1>7, ConversionsStayBlocked DEF Awake
    <2>2. Granted(m) # {}
      BY <1>9 DEF Parked, Awake
    <2>3. ASSUME ~first PROVE HeadBlocked(t)
      <3> DEFINE q == m.lock.conflictList
      <3>1. t.lock.conflictList = Append(q, l)
        BY <1>1, <1>2, <1>9, <2>3 DEF Parked, NoFlags
      <3>2. q \in Seq(Lockers) /\ (Queued(m) = {} <=> q = <<>>)
        BY StateFacts DEF Well
      <3>3. CASE q = <<>>
        <4>1. Head(t.lock.conflictList) = l
          BY <3>1, <3>2, <3>3
        <4>2. PICK k \in Granted(m) : Against(m, m.req[l].mode, k)
          BY <1>9, <3>2, <3>3 DEF Parked
        <4>3. k \in Granted(t) /\ Against(t, t.req[l].mode, k)
          BY <1>1, <1>6, <4>2 DEF Lasts
        <4> QED
          BY <4>1, <4>3 DEF HeadBlocked
      <3>4. CASE q # <<>>
        <4>1. Head(t.lock.conflictList) = Head(q)
          BY <3>1, <3>2, <3>4
        <4>2. Head(q) \in Queued(m) /\ m.req[Head(q)].mode \in Modes
          BY <3>4, HeadQueued
        <4>3. PICK k \in Granted(m) : Against(m, m.req[Head(q)].mode, k)
          BY <2>3, <3>4 DEF Awake, HeadBlocked
        <4>4. k \in Granted(t) /\ Against(t, t.req[Head(q)].mode, k)
          BY <1>4, <1>6, <4>2, <4>3 DEF Lasts
        <4> QED
          BY <4>1, <4>4 DEF HeadBlocked
      <3> QED
        BY <3>3, <3>4
    <2> QED
      BY <1>2, <1>5, <2>1, <2>2, <2>3 DEF Awake, NoFlags
  <1> QED
    BY <1>8, <1>9 DEF Comes

LEMMA UseLockHeadWakes ==
    ASSUME IInv, WakeInv, NEW l \in Lockers, UseLockHead(l)
    PROVE  WakeInv'
  <1> DEFINE t == [req |-> req', lock |-> lock']
             m == Migrated(req)
  <1>1. priority' = priority
    BY DEF UseLockHead
  <1> HIDE DEF t, m
  <1>2. /\ Comes(m, t, l) /\ l \notin Granted(m) /\ l \notin Queued(m) /\ m.req = req
        /\ req[l].mode \in Modes
    BY UseLockHeadComes DEF t, m
  <1>3. Awake(m, priority) /\ Well(m)
    BY MigrationAwake DEF m
  <1>4. Awake(t, priority)
    BY <1>2, <1>3, ComesAwake
  <1> QED
    BY <1>1, <1>4, NextAwake DEF t

LEMMA AsksAwake ==
    ASSUME NEW m, Well(m), NEW first, Awake(m, first), NEW l \in Granted(m),
           NEW newMode \in Modes, Convertible(m.req[l], newMode),
           NEW t, Asks(m, t, l, newMode)
    PROVE  Awake(t, first)
  <1>1. /\ Well(t) /\ \A k \in Lockers \ {l} : t.req[k] = m.req[k]
        /\ t.req[l].compatibleFirst = m.req[l].compatibleFirst
        /\ t.req[l].enqueueAtFront = m.req[l].enqueueAtFront
        /\ Granted(t) = Granted(m)
        /\ t.lock.conflictList = m.lock.conflictList
    BY DEF Asks, Granted
  <1>2. ~first => NoFlags(t)
    BY <1>1 DEF Awake, NoFlags
  <1>3. Granted(m) \subseteq Lockers /\ Queued(m) \subseteq Lockers /\ l \notin Queued(m)
    BY StateFacts, ListedStatus DEF Well
  <1>4. GrantedRequest(m.req[l]) /\ m.req[l].status = "GRANTED"
        /\ ModeCovered(m.req[l].mode, newMode)
    BY DEF Well, Listed, Convertible
  <1>5. m.req[l].mode \in Modes /\ m.req[l].convertMode = "NONE"
    BY <1>4 DEF GrantedRequest
  <1>6. ASSUME NEW x \in Modes, Against(m, x, l) PROVE Against(t, x, l)
    <2>1. Conflicts(x, {m.req[l].mode})
      BY <1>5, <1>6, AgainstEither, ModeFacts
    <2>2. t.req[l].mode = m.req[l].mode \/ t.req[l].mode = newMode
      BY DEF Asks
    <2>3. Conflicts(x, {newMode})
      BY <1>4, <1>5, <2>1, ModeFacts
    <2> QED
      BY <2>1, <2>2, <2>3, AgainstEither
  <1>7. Lasts(m, t)
    <2>1. \A k \in Granted(m) \ {l}, x \in Modes : Against(m, x, k) => Against(t, x, k)
      BY <1>1, <1>3 DEF Against
    <2> QED
      BY <1>1, <1>6, <2>1 DEF Lasts
  <1>8. SameQueue(m, t)
    BY <1>1, <1>3 DEF SameQueue
  <1>9. ASSUME NEW k \in Granted(t), t.req[k].status = "CONVERTING"
        PROVE  OldOrBlocked(m, t, k)
    <2>1. CASE k # l
      BY <1>1, <1>3, <1>9, <2>1 DEF OldOrBlocked
    <2>2. CASE k = l
      <3>1. PICK j \in Granted(m) \ {l} : Against(m, newMode, j)
        BY <1>9, <2>2 DEF Asks
      <3>2. Against(t, newMode, j) /\ j \in Granted(t) \ {l}
        BY <1>1, <1>7, <3>1 DEF Lasts
      <3>3. t.req[l].convertMode = newMode
        BY <1>9, <2>2 DEF Asks
      <3> QED
        BY <2>2, <3>2, <3>3 DEF OldOrBlocked
    <2> QED
      BY <2>1, <2>2
  <1> QED
    BY <1>2, <1>7, <1>8, <1>9, StaysAwake

LEMMA ConvertWakes ==
    ASSUME IInv, WakeInv, NEW l \in Lockers, NEW newMode \in Modes, Convert(l, newMode), ~corrupt'
    PROVE  WakeInv'
  <1> DEFINE t == [req |-> req', lock |-> lock']
             rs == GivenPriority(l, newMode)
             m == Migrated(rs)
  <1>1. priority' = priority
    BY DEF Convert
  <1> HIDE DEF t, m, rs
  <1>2. Asks(m, t, l, newMode) /\ l \in Granted(m) /\ Convertible(m.req[l], newMode)
    BY ConvertAsks DEF t, m, rs
  <1>3. Awake(m, priority) /\ Well(m)
    <2>1. /\ Inv(NowWith(rs), parts, pc) /\ rs \in [Lockers -> RequestType]
          /\ rs[l].status = req[l].status /\ rs[l].mode = req[l].mode
          /\ rs[l].convertMode = req[l].convertMode
          /\ \A k \in Lockers \ {l} : rs[k] = req[k]
          /\ ~priority => rs = req
      BY PriorityGiven DEF rs
    <2>2. Granted(Now) \subseteq Lockers /\ Queued(Now) \subseteq Lockers
      BY NowFacts, StateFacts DEF Well
    <2>3. \A k \in Granted(Now) \cup Queued(Now) :
            /\ rs[k].status = req[k].status
            /\ rs[k].mode = req[k].mode
            /\ rs[k].convertMode = req[k].convertMode
      BY <2>1, <2>2
    <2> QED
      BY <2>1, <2>3, MigrationWakes DEF m
  <1>4. Awake(t, priority)
    BY <1>2, <1>3, AsksAwake
  <1> QED
    BY <1>1, <1>4, NextAwake DEF t

LEMMA CleanupWakes ==
    ASSUME IInv, WakeInv, CleanupUnusedLocks
    PROVE  WakeInv'
  <1> DEFINE t == [req |-> req', lock |-> lock']
             m == Migrated(req)
  <1>1. priority' = priority
    BY DEF CleanupUnusedLocks
  <1> HIDE DEF t, m
  <1>2. /\ t.req = m.req /\ Granted(t) = Granted(m) /\ Queued(t) = Queued(m)
        /\ t.lock.conflictList = m.lock.conflictList
    BY CleanupMigrates DEF t, m
  <1>3. Awake(m, priority) /\ Well(m)
    BY MigrationAwake DEF m
  <1>4. Lasts(m, t) /\ SameQueue(m, t)
    BY <1>2 DEF Lasts, SameQueue, Against
  <1>5. \A k \in Granted(t) : t.req[k].status = "CONVERTING" => OldOrBlocked(m, t, k)
    BY <1>2 DEF OldOrBlocked
  <1>6. ~priority => NoFlags(t)
    BY <1>2, <1>3 DEF Awake, NoFlags
  <1>7. Awake(t, priority)
    BY <1>3, <1>4, <1>5, <1>6, StaysAwake
  <1> QED
    BY <1>1, <1>7, NextAwake DEF t

\* After _onLockModeChanged nobody sleeps for nothing; if it did not look at
\* the queue, then because its first request was still blocked.
LEMMA ServedAwake ==
    ASSUME NEW u, Well(u), NEW check \in BOOLEAN, NEW v, v = OnLockModeChanged(u, check),
           NEW first, ~first => NoFlags(u),
           ~check => /\ Queued(u) # {} => Granted(u) # {}
                     /\ ~first => HeadBlocked(u)
    PROVE  Awake(v, first)
  <1>1. /\ Serves(u, v)
        /\ ConversionsBlocked(v)
        /\ check => /\ Queued(v) # {} => Granted(v) # {}
                    /\ NobodyFirst(u) => HeadBlocked(v)
        /\ ~check => v.lock.conflictList = u.lock.conflictList
    BY ModeChangeServed
  <1>2. \A k \in Lockers : Moved(u.req[k], v.req[k]) /\ u.req[k] \in RequestType
    BY <1>1, ReqTyped DEF Serves
  <1>3. ~first => NoFlags(v)
    BY <1>2, MovedFields DEF NoFlags
  <1>4. CASE check
    BY <1>1, <1>3, <1>4 DEF Awake, NoFlags, NobodyFirst
  <1>5. CASE ~check
    <2>1. Lasts(u, v)
      BY <1>1, StillAgainst DEF Lasts, Serves
    <2>2. SameQueue(u, v)
      <3>1. \A k \in Queued(u) : k \in Lockers /\ u.req[k].status = "WAITING"
        BY StateFacts, ListedStatus DEF Well
      <3>2. \A k \in Queued(u) : v.req[k].mode = u.req[k].mode
        BY <1>2, <3>1, MovedFields
      <3> QED
        BY <1>1, <1>5, <3>2 DEF SameQueue
    <2>3. ~first => HeadBlocked(v)
      BY <1>5, <2>1, <2>2, HeadStaysBlocked
    <2>4. Queued(v) = Queued(u)
      BY <2>2 DEF SameQueue, Queued
    <2>5. Queued(v) # {} => Granted(v) # {}
      BY <1>5, <2>1, <2>4 DEF Lasts
    <2> QED
      BY <1>1, <1>3, <2>3, <2>5 DEF Awake, NoFlags
  <1> QED
    BY <1>4, <1>5

\* A release that leaves others with the released mode opens no way.
LEMMA ReleaseLeavesBlocked ==
    ASSUME NEW s, Well(s), NEW l \in Granted(s), s.req[l].status = "GRANTED",
           NEW u, u = Released(s, l), u.lock.grantedCounts[s.req[l].mode] # 0,
           HeadBlocked(s)
    PROVE  HeadBlocked(u)
  <1> DEFINE h == Head(s.lock.conflictList)
             m == s.req[l].mode
  <1>1. /\ Well(u) /\ u.req = s.req /\ Granted(u) = Granted(s) \ {l}
        /\ u.lock.conflictList = s.lock.conflictList
    BY ReleaseStep
  <1>2. m \in Modes /\ s.req[l].convertMode = "NONE"
    BY DEF Well, Listed, GrantedRequest
  <1> SUFFICES ASSUME s.lock.conflictList # <<>>
               PROVE  \E k \in Granted(u) : Against(u, u.req[h].mode, k)
    BY <1>1 DEF HeadBlocked
  <1>3. s.req[h].mode \in Modes
    BY HeadQueued
  <1>4. PICK k \in Granted(s) : Against(s, s.req[h].mode, k)
    BY DEF HeadBlocked
  <1> HIDE DEF h
  <1>5. CASE k # l
    BY <1>1, <1>4, <1>5 DEF Against
  <1>6. CASE k = l
    <2>1. Conflicts(s.req[h].mode, {m})
      BY <1>2, <1>3, <1>4, <1>6, AgainstEither, ModeFacts
    <2>2. u.lock.grantedCounts[m] \in Nat
      BY <1>1, <1>2, CountsNat
    <2>3. m \in ModesOf(u.lock.grantedCounts)
      BY <1>2, <2>2 DEF ModesOf
    <2>4. PICK j \in Granted(u) : u.req[j].mode = m \/ u.req[j].convertMode = m
      BY <1>1, <1>2, <2>3, ModesShown
    <2>5. Against(u, s.req[h].mode, j)
      BY <2>1, <2>4, AgainstEither
    <2> QED
      BY <1>1, <2>5
  <1> QED
    BY <1>5, <1>6

LEMMA SettledAwake ==
    ASSUME NEW v, Well(v), NEW first, Awake(v, first), NEW l \in Lockers, NEW t \in State,
           Settled(v, t, l), ~t.req[l].compatibleFirst, ~t.req[l].enqueueAtFront
    PROVE  Awake(t, first)
  <1>1. t.lock = v.lock /\ \A k \in Lockers \ {l} : t.req[k] = v.req[k]
    BY DEF Settled
  <1>2. \A k \in Granted(v) \cup Queued(v) : t.req[k] = v.req[k]
    BY SettledWell
  <1>3. SameListed(v, t)
    BY <1>1, <1>2 DEF SameListed
  <1>4. ~first => NoFlags(t)
    BY <1>1 DEF Awake, NoFlags
  <1> QED
    BY <1>3, <1>4, SameAwake

LEMMA LeavingWakes ==
    ASSUME IInv, WakeInv, NEW l \in Lockers, UnlockLockHead(l), ~corrupt',
           req[l].status # "CONVERTING"
    PROVE  WakeInv'
  <1> DEFINE t == [req |-> req', lock |-> lock']
             u == LeftBy(l)
             check == ChecksQueue(u, l)
             v == OnLockModeChanged(u, check)
  <1>1. priority' = priority
    BY DEF UnlockLockHead
  <1>2. check \in BOOLEAN
    BY DEF ChecksQueue
  <1>3. ~check => /\ req[l].status = "GRANTED" /\ u = Released(Now, l)
                  /\ u.lock.grantedCounts[req[l].mode] # 0
    BY DEF ChecksQueue, LeftBy
  <1>4. v = OnLockModeChanged(u, check)
    OBVIOUS
  <1> HIDE DEF t, u, v, check
  <1>5. Departs(Now, u, v, t, l) /\ t.req[l] = NewLockRequest /\ u.req = req
    BY UnlockLockHeadDeparts DEF t, u, v, check
  <1>6. Well(u) /\ Serves(u, v) /\ t \in State /\ Settled(v, t, l)
    BY <1>5 DEF Departs
  <1>7. Well(Now) /\ Now.req = req /\ Awake(Now, priority)
    BY NowFacts DEF WakeInv
  <1>8. ~priority => NoFlags(u)
    BY <1>5, <1>7 DEF Awake, NoFlags
  <1>9. ASSUME ~check
        PROVE  /\ Queued(u) # {} => Granted(u) # {}
               /\ ~priority => HeadBlocked(u)
    <2>1. /\ req[l].status = "GRANTED" /\ u = Released(Now, l)
          /\ u.lock.grantedCounts[req[l].mode] # 0
      BY <1>3, <1>9
    <2>2. l \in Granted(Now)
      BY <2>1, UnlockLockHeadWhere
    <2>3. ~priority => HeadBlocked(u)
      BY <1>7, <2>1, <2>2, ReleaseLeavesBlocked DEF Awake
    <2>4. req[l].mode \in Modes
      BY <1>7, <2>2 DEF Well, Listed, GrantedRequest
    <2>5. req[l].mode \in ModesOf(u.lock.grantedCounts)
      BY <1>6, <2>1, <2>4, CountsNat DEF ModesOf
    <2>6. Granted(u) # {}
      BY <1>6, <2>4, <2>5, ModesShown
    <2> QED
      BY <2>3, <2>6
  <1>10. Awake(v, priority)
    BY <1>2, <1>4, <1>6, <1>8, <1>9, ServedAwake
  <1>11. Well(v)
    BY <1>6 DEF Serves
  <1>12. Awake(t, priority)
    BY <1>5, <1>6, <1>10, <1>11, NewRequestFacts, SettledAwake
  <1> QED
    BY <1>1, <1>12, NextAwake DEF t

LEMMA DowngradedAwake ==
    ASSUME IInv, WakeInv, NEW l \in Lockers, priority' = priority,
           NEW t, t = [req |-> req', lock |-> lock'], NEW u, NEW v, Downgraded(u, v, t, l)
    PROVE  WakeInv'
  <1>1. v = OnLockModeChanged(u, TRUE) /\ SameFlags(Now, u) /\ t = v /\ Well(u)
    BY DEF Downgraded, Departs
  <1>2. ~priority => NoFlags(u)
    BY <1>1 DEF WakeInv, Awake, NoFlags, SameFlags
  <1>3. Awake(v, priority)
    BY <1>1, <1>2, ServedAwake
  <1> QED
    BY <1>1, <1>3, NextAwake

LEMMA UnlockLockHeadWakes ==
    ASSUME IInv, WakeInv, NEW l \in Lockers, UnlockLockHead(l), ~corrupt'
    PROVE  WakeInv'
  <1>1. CASE req[l].status # "CONVERTING"
    BY <1>1, LeavingWakes
  <1>2. CASE req[l].status = "CONVERTING"
    <2> DEFINE t == [req |-> req', lock |-> lock']
    <2>1. priority' = priority
      BY DEF UnlockLockHead
    <2> HIDE DEF t
    <2>2. PICK u, v : Downgraded(u, v, t, l)
      BY <1>2, CancelConversionDeparts DEF t
    <2> QED
      BY <2>1, <2>2, DowngradedAwake DEF t
  <1> QED
    BY <1>1, <1>2

LEMMA DowngradeWakes ==
    ASSUME IInv, WakeInv, NEW l \in Lockers, NEW newMode \in Modes, Downgrade(l, newMode)
    PROVE  WakeInv'
  <1> DEFINE t == [req |-> req', lock |-> lock']
  <1>1. priority' = priority
    BY DEF Downgrade
  <1> HIDE DEF t
  <1>2. PICK u, v : Downgraded(u, v, t, l)
    BY DowngradeDeparts DEF t
  <1> QED
    BY <1>1, <1>2, DowngradedAwake DEF t

LEMMA NextWakes ==
    ASSUME IInv, WakeInv, [Next]_vars, ~corrupt'
    PROVE  WakeInv'
  <1>1. CASE UNCHANGED vars
    BY <1>1 DEF vars, WakeInv, Now
  <1>2. ASSUME NEW l \in Lockers, StartPartition(l) PROVE WakeInv'
    BY <1>2, StartPartitionWakes
  <1>3. ASSUME NEW l \in Lockers, UseLockHead(l) PROVE WakeInv'
    BY <1>3, UseLockHeadWakes
  <1>4. ASSUME NEW l \in Lockers, LockComplete(l) PROVE WakeInv'
    BY <1>4, LockCompleteWakes
  <1>5. ASSUME NEW l \in Lockers, UnlockUnlocked(l) PROVE WakeInv'
    BY <1>5, RecountWakes DEF UnlockUnlocked
  <1>6. ASSUME NEW l \in Lockers, UnlockRSTLForPrepare(l) PROVE WakeInv'
    BY <1>6, RecountWakes DEF UnlockRSTLForPrepare
  <1>7. ASSUME NEW l \in Lockers, UnlockPartition(l) PROVE WakeInv'
    BY <1>7, UnlockPartitionWakes
  <1>8. ASSUME NEW l \in Lockers, UnlockLockHead(l) PROVE WakeInv'
    BY <1>8, UnlockLockHeadWakes
  <1>9. ASSUME NEW l \in Lockers, NEW mode \in Modes, LockBegin(l, mode) PROVE WakeInv'
    BY <1>9, LockBeginWakes
  <1>10. ASSUME NEW l \in Lockers, NEW mode \in Modes, ConvertCovered(l, mode) PROVE WakeInv'
    <2>1. /\ req' = [req EXCEPT ![l].recursiveCount = req[l].recursiveCount + 1]
          /\ lock' = lock /\ priority' = priority
      BY <1>10 DEF ConvertCovered
    <2> QED
      BY <2>1, RecountWakes
  <1>11. ASSUME NEW l \in Lockers, NEW mode \in Modes, Convert(l, mode) PROVE WakeInv'
    BY <1>11, ConvertWakes
  <1>12. ASSUME NEW l \in Lockers, NEW mode \in Modes, Downgrade(l, mode) PROVE WakeInv'
    BY <1>12, DowngradeWakes
  <1>13. CASE CleanupUnusedLocks
    BY <1>13, CleanupWakes
  <1>14. ASSUME NEW l \in Lockers, Unlock(l) \/ Abandon(l) PROVE UnlockUnlocked(l)
    BY <1>14 DEF Unlock, Abandon
  <1> QED
    BY <1>1, <1>2, <1>3, <1>4, <1>5, <1>6, <1>7, <1>8, <1>9, <1>10, <1>11, <1>12, <1>13,
       <1>14 DEF Next

LEMMA InitWakes ==
    Init => WakeInv
  <1> SUFFICES ASSUME Init PROVE WakeInv
    OBVIOUS
  <1>1. IInv
    BY InitHolds
  <1>2. /\ Now.req = req /\ Now.lock = EmptyLockHead /\ Now \in State
        /\ \A l \in Lockers : req[l] = NewLockRequest
    BY <1>1, NowFacts DEF Init, Well
  <1>3. Granted(Now) = {} /\ Queued(Now) = {} /\ Now.lock.conflictList = <<>>
    BY <1>2, EmptyFacts
  <1> QED
    BY <1>2, <1>3, NewRequestFacts DEF WakeInv, Awake, ConversionsBlocked, HeadBlocked

\* No wake-up is lost, whichever threads come, convert, downgrade, give up or
\* release and in whichever order the queue is served: who waits, waits for
\* somebody.  A conversion that is given up lets in those it kept waiting.
THEOREM NoWakeUpIsLost ==
    Spec => []NobodyWaitsForNothing
  <1>1. Spec => []Sound
    BY InvariantHolds
  <1>2. Init => SoundAwake
    BY InitWakes DEF SoundAwake
  <1>3. Sound /\ SoundAwake /\ [Next]_vars => SoundAwake'
    <2> SUFFICES ASSUME Sound, SoundAwake, [Next]_vars, ~corrupt' PROVE WakeInv'
      BY DEF SoundAwake
    <2>1. ~corrupt
      BY NextStarts DEF Sound
    <2> QED
      BY <2>1, NextWakes DEF Sound, SoundAwake
  <1>4. Sound /\ SoundAwake => NobodyWaitsForNothing
    <2> SUFFICES ASSUME IInv, WakeInv PROVE NobodyWaitsForNothing
      BY DEF Sound, SoundAwake, NobodyWaitsForNothing
    <2>1. /\ Inv(Now, parts, pc) /\ Well(Now) /\ Now.req = req /\ Now.lock = lock
          /\ Awake(Now, priority)
      BY NowFacts DEF WakeInv
    <2>2. ASSUME NEW l \in Lockers, req[l].status = "CONVERTING"
          PROVE  Conflicts(req[l].convertMode, ModesWithout(Now, l))
      <3>1. l \in Granted(Now)
        <4>1. l \in Granted(Now) \/ InParts(parts, l)
          BY <2>1, <2>2 DEF Inv, HoldInv, Held
        <4>2. InParts(parts, l) => req[l].status = "GRANTED"
          BY <2>1, HeldIsGranted DEF PartitionedRequest
        <4> QED
          BY <2>2, <4>1, <4>2
      <3>2. req[l].convertMode \in Modes
        BY <2>1, <2>2, <3>1 DEF Well, Listed, GrantedRequest
      <3>3. \E k \in Granted(Now) \ {l} : Against(Now, req[l].convertMode, k)
        BY <2>1, <2>2, <3>1 DEF Awake, ConversionsBlocked
      <3> DEFINE E == ModesWithout(Now, l)
      <3>4. E \subseteq Modes
        BY DEF ModesWithout
      <3>5. \A x \in Modes : x \in E <=>
              \E k \in Granted(Now) \ {l} : Now.req[k].mode = x \/ Now.req[k].convertMode = x
        BY <2>1, <3>1, OthersShown
      <3> HIDE DEF E
      <3>6. Conflicts(req[l].convertMode, E)
        BY <2>1, <3>1, <3>2, <3>3, <3>4, <3>5, OthersNotInTheWay
      <3> QED
        BY <3>6 DEF E
    <2>3. ASSUME lock.conflictList # <<>>
          PROVE  /\ lock.grantedList # <<>>
                 /\ priority \/ Conflicts(req[Head(lock.conflictList)].mode,
                                          ModesOf(lock.grantedCounts))
      <3>1. /\ Granted(Now) = {} <=> lock.grantedList = <<>>
            /\ Queued(Now) = {} <=> lock.conflictList = <<>>
        BY <2>1, StateFacts DEF Well
      <3>2. lock.grantedList # <<>>
        BY <2>1, <2>3, <3>1 DEF Awake
      <3>3. req[Head(lock.conflictList)].mode \in Modes
        BY <2>1, <2>3, HeadQueued
      <3>4. ~priority =>
              \E k \in Granted(Now) : Against(Now, req[Head(lock.conflictList)].mode, k)
        BY <2>1, <2>3 DEF Awake, HeadBlocked
      <3>5. ~priority => Conflicts(req[Head(lock.conflictList)].mode,
                                   ModesOf(lock.grantedCounts))
        BY <2>1, <3>3, <3>4, NotInTheWay
      <3> QED
        BY <3>2, <3>5
    <2> QED
      BY <2>2, <2>3 DEF NobodyWaitsForNothing, Now
  <1> QED
    BY <1>1, <1>2, <1>3, <1>4, PTL DEF Spec
=============================================================================
