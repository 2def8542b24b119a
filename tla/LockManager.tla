---------------------------- MODULE LockManager ----------------------------
(***************************************************************************)
(* The server's lock manager: LockManager and its LockHead and            *)
(* PartitionedLockHead (db/concurrency/lock_manager.cpp), driven by        *)
(* LockerImpl (db/concurrency/lock_state.cpp), for one resource.           *)
(*                                                                         *)
(* A resource has one LockHead: a list of granted requests, a queue of     *)
(* conflicting ones, and the counts of the modes on both.  While nobody    *)
(* wants more than an intent mode the granted requests live in             *)
(* PartitionedLockHeads instead, one per partition of the lockers, and     *)
(* they are migrated to the LockHead when a stronger mode arrives.         *)
(*                                                                         *)
(* What runs under one mutex is one step: a bucket mutex protects the      *)
(* LockHead, a partition mutex the PartitionedLockHead, and a locker's     *)
(* thread may be interleaved between the two.  The unlocked reads of a     *)
(* request's status at the start of unlock() are a step of their own.      *)
(***************************************************************************)
EXTENDS Integers, SequencesExt

CONSTANTS
    Lockers,          \* ids of the lockers, as LockerId a set of numbers
    NumPartitions,    \* LockManager::_numPartitions
    Priorities,       \* the values of "priority" to consider, see below
    MaxRecursion      \* bound of this model: the largest recursiveCount

ASSUME LockersAssumption == Lockers \subseteq Nat
ASSUME PartitionsAssumption == NumPartitions \in Nat \ {0}
ASSUME PrioritiesAssumption == Priorities \subseteq BOOLEAN
ASSUME RecursionAssumption == MaxRecursion \in Nat \ {0}

VARIABLES
    priority,  \* whether the resource is Global, PBWM or RSTL: S and X go first
    req,       \* the LockRequest of each locker for the resource
    lock,      \* the LockHead of the resource
    parts,     \* the grantedList of each partition's PartitionedLockHead
    pc,        \* where each locker's thread is
    corrupt    \* history: whether a step has broken what the lists and the counts
               \* stand for, see Convert and UnlockLockHead

vars == <<priority, req, lock, parts, pc, corrupt>>

Modes == {"IS", "IX", "S", "X"}

IntentModes == {"IS", "IX"}

Partitions == 0 .. NumPartitions - 1

GetPartition(l) == l % NumPartitions

-----------------------------------------------------------------------------
(* Modes and their counts *)

LockConflictsTable ==
    [IS |-> {"X"}, IX |-> {"S", "X"}, S |-> {"IX", "X"}, X |-> Modes]

Conflicts(newMode, existingModes) ==
    LockConflictsTable[newMode] \cap existingModes # {}

\* isModeCovered, and the tests of convert() and downgrade()
ModeCovered(mode, coveringMode) ==
    LockConflictsTable[mode] \subseteq LockConflictsTable[coveringMode]

IncCount(counts, mode) == [counts EXCEPT ![mode] = @ + 1]

DecCount(counts, mode) == [counts EXCEPT ![mode] = @ - 1]

ModesOf(counts) == {m \in Modes : counts[m] > 0}

-----------------------------------------------------------------------------
(* Requests and lock heads.  The operators below take and return the pair  *)
(* s = [req |-> requests, lock |-> LockHead] they change.                  *)

\* LockRequest::initNew
NewLockRequest ==
    [status |-> "NEW", mode |-> "NONE", convertMode |-> "NONE",
     recursiveCount |-> 1, partitioned |-> FALSE,
     enqueueAtFront |-> FALSE, compatibleFirst |-> FALSE]

EmptyLockHead ==
    [grantedList |-> <<>>, grantedCounts |-> [m \in Modes |-> 0],
     conflictList |-> <<>>, conflictCounts |-> [m \in Modes |-> 0],
     conversionsCount |-> 0, compatibleFirstCount |-> 0,
     partitions |-> <<>>]

Partitioned == lock.partitions # <<>>

\* A PartitionedLockHead exists in exactly the partitions the LockHead lists.
HasPartitionedLockHead(p) == p \in ToSet(lock.partitions)

\* LockRequestList::remove
Unlink(list, l) == RemoveAt(list, CHOOSE i \in DOMAIN list : list[i] = l)

Grant(s, l) ==
    LET r == s.req[l] IN
    [req  |-> [s.req EXCEPT ![l].status = "GRANTED"],
     lock |-> [s.lock EXCEPT
                 !.grantedList = Append(@, l),
                 !.grantedCounts = IncCount(@, r.mode),
                 !.compatibleFirstCount = IF r.compatibleFirst THEN @ + 1 ELSE @]]

Enqueue(s, l) ==
    LET r == s.req[l] IN
    [req  |-> [s.req EXCEPT ![l].status = "WAITING"],
     lock |-> [s.lock EXCEPT
                 !.conflictList = IF r.enqueueAtFront THEN <<l>> \o @
                                                      ELSE Append(@, l),
                 !.conflictCounts = IncCount(@, r.mode)]]

\* Mutant: a new request overtakes the ones that wait.
MustWaitForGranted(s, l) ==
    Conflicts(s.req[l].mode, ModesOf(s.lock.grantedCounts))

MustWait(s, l) ==
    LET mode == s.req[l].mode IN
    \/ Conflicts(mode, ModesOf(s.lock.grantedCounts))
    \/ /\ s.lock.compatibleFirstCount = 0
       /\ Conflicts(mode, ModesOf(s.lock.conflictCounts))

NewRequest(s, l) == IF MustWait(s, l) THEN Enqueue(s, l) ELSE Grant(s, l)

\* The requests that migratePartitionedLockHeads moves, in its order: the
\* partitions from the back, a partition that is listed twice only once.
PartitionedRequests ==
    LET heads == Reverse(lock.partitions)
        moved[n \in 0 .. Len(heads)] ==
          IF n = 0 THEN <<>>
          ELSE IF \E j \in 1 .. n - 1 : heads[j] = heads[n] THEN moved[n - 1]
          ELSE moved[n - 1] \o parts[heads[n]]
    IN  moved[Len(heads)]

\* migratePartitionedLockHeads: nothing changes if the lock is not partitioned.
Migrated(requests) ==
    LET q == PartitionedRequests
        after[n \in 0 .. Len(q)] ==
          IF n = 0 THEN [req |-> requests, lock |-> [lock EXCEPT !.partitions = <<>>]]
          ELSE NewRequest(after[n - 1], q[n])
    IN  after[Len(q)]

NoPartitionedRequests == [p \in Partitions |-> <<>>]

-----------------------------------------------------------------------------
(* _onLockModeChanged *)

\* The granted modes without those l itself accounts for.
ModesWithout(s, l) ==
    LET r == s.req[l]
        own(m) == IF m \in {r.mode, r.convertMode} THEN 1 ELSE 0
    IN  {m \in Modes : s.lock.grantedCounts[m] > own(m)}

GrantConversion(s, l) ==
    LET r == s.req[l] IN
    IF /\ s.lock.conversionsCount > 0
       /\ r.status = "CONVERTING"
       /\ ~Conflicts(r.convertMode, ModesWithout(s, l))
    THEN [req  |-> [s.req EXCEPT ![l].status = "GRANTED",
                                 ![l].mode = r.convertMode,
                                 ![l].convertMode = "NONE"],
          lock |-> [s.lock EXCEPT !.conversionsCount = @ - 1,
                                  !.grantedCounts = DecCount(@, r.mode)]]
    ELSE s

\* One iteration over the conflict queue; "stop" is the loop's break.
GrantWaiter(a, l) ==
    LET s == a.s
        r == s.req[l]
        unlinked == [req  |-> s.req,
                     lock |-> [s.lock EXCEPT !.conflictList = Unlink(@, l),
                                             !.conflictCounts = DecCount(@, r.mode)]]
    IN  CASE a.stop -> a
          [] ~a.stop /\ Conflicts(r.mode, ModesOf(s.lock.grantedCounts)) ->
               [a EXCEPT !.stop = Head(s.lock.conflictList) = l
                                    /\ ~a.newlyCompatibleFirst]
          [] OTHER ->
               [s |-> Grant(unlinked, l),
                newlyCompatibleFirst |->
                    \/ a.newlyCompatibleFirst
                    \/ r.compatibleFirst /\ s.lock.compatibleFirstCount = 0,
                stop |-> r.mode = "X"]

\* The first loop, over the granted list: the conversions that fit now.
GrantConversions(s) ==
    LET q == s.lock.grantedList
        after[n \in 0 .. Len(q)] ==
          IF n = 0 THEN s ELSE GrantConversion(after[n - 1], q[n])
    IN  after[Len(q)]

\* The second loop, over the queue as it is when the loop starts.
GrantWaiters(s) ==
    LET q == s.lock.conflictList
        after[n \in 0 .. Len(q)] ==
          IF n = 0
          THEN [s |-> s, newlyCompatibleFirst |-> FALSE, stop |-> FALSE]
          ELSE GrantWaiter(after[n - 1], q[n])
    IN  after[Len(q)].s

OnLockModeChanged(s, checkConflictQueue) ==
    IF checkConflictQueue THEN GrantWaiters(GrantConversions(s))
                          ELSE GrantConversions(s)

-----------------------------------------------------------------------------
(* Operations of the lockers *)

Init ==
    /\ priority \in Priorities
    /\ req = [l \in Lockers |-> NewLockRequest]
    /\ lock = EmptyLockHead
    /\ parts = NoPartitionedRequests
    /\ pc = [l \in Lockers |-> "idle"]
    /\ corrupt = FALSE

\* Where the thread of l is.  The model ends with the first corrupt state: what
\* follows it in the code is a failed invariant() or the removal of a request
\* from a list it is not on.
At(l, where) == pc[l] = where /\ ~corrupt

\* lockBegin() gives the strong modes of the priority resources both flags.
GoesFirst(mode) == priority /\ mode \in {"S", "X"}

\* lockBegin() of a resource the locker does not hold, and lock() until it
\* has looked for a PartitionedLockHead.
LockBegin(l, mode) ==
    /\ At(l, "idle")
    /\ req[l].status = "NEW"
    /\ LET p == GetPartition(l)
           fast == mode \in IntentModes /\ HasPartitionedLockHead(p)
       IN  /\ req' = [req EXCEPT ![l] =
                        [NewLockRequest EXCEPT
                           !.status = IF fast THEN "GRANTED" ELSE "NEW",
                           !.mode = mode,
                           !.partitioned = mode \in IntentModes,
                           !.enqueueAtFront = GoesFirst(mode),
                           !.compatibleFirst = GoesFirst(mode)]]
           /\ parts' = IF fast THEN [parts EXCEPT ![p] = Append(@, l)] ELSE parts
           /\ pc' = [pc EXCEPT ![l] = IF fast THEN "idle" ELSE "lock"]
    /\ UNCHANGED <<priority, lock, corrupt>>

\* Mutants: one of the two tests that allow a partitioned lock is missing.
MayPartitionDespiteGrants(l) ==
    req[l].partitioned /\ ModesOf(lock.conflictCounts) = {}

MayPartitionDespiteConflicts(l) ==
    req[l].partitioned /\ ModesOf(lock.grantedCounts) \subseteq IntentModes

MayPartition(l) ==
    /\ req[l].partitioned
    /\ ModesOf(lock.grantedCounts) \subseteq IntentModes
    /\ ModesOf(lock.conflictCounts) = {}

\* The rest of lock(), under the bucket mutex: start a partition.
StartPartition(l) ==
    /\ At(l, "lock")
    /\ MayPartition(l)
    /\ lock' = [lock EXCEPT !.partitions = Append(@, GetPartition(l))]
    /\ parts' = [parts EXCEPT ![GetPartition(l)] = Append(@, l)]
    /\ req' = [req EXCEPT ![l].status = "GRANTED"]
    /\ pc' = [pc EXCEPT ![l] = "idle"]
    /\ UNCHANGED <<priority, corrupt>>

\* The rest of lock(), under the bucket mutex: use the LockHead.
UseLockHead(l) ==
    /\ At(l, "lock")
    /\ ~MayPartition(l)
    /\ LET s == NewRequest([Migrated(req) EXCEPT !.req[l].partitioned = FALSE], l)
       IN  /\ req' = s.req
           /\ lock' = s.lock
           /\ pc' = [pc EXCEPT ![l] =
                       IF s.req[l].status = "WAITING" THEN "waiting" ELSE "idle"]
    /\ parts' = NoPartitionedRequests
    /\ UNCHANGED <<priority, corrupt>>

\* lockBegin() of a resource that is held, in a mode that is covered.
ConvertCovered(l, newMode) ==
    /\ At(l, "idle")
    /\ req[l].status = "GRANTED"
    /\ req[l].recursiveCount < MaxRecursion
    /\ ModeCovered(newMode, req[l].mode)
    /\ req' = [req EXCEPT ![l].recursiveCount = @ + 1]
    /\ UNCHANGED <<priority, lock, parts, pc, corrupt>>

\* lockBegin() also gives both flags to a request that is already granted: the
\* migration counts it if the request is still in a partition, nothing does if
\* it is on the LockHead.
GivenPriority(l, newMode) ==
    IF GoesFirst(newMode)
    THEN [req EXCEPT ![l].enqueueAtFront = TRUE, ![l].compatibleFirst = TRUE]
    ELSE req

\* lockBegin() of a resource that is held, in a stronger mode.
Convert(l, newMode) ==
    /\ At(l, "idle")
    /\ req[l].status = "GRANTED"
    /\ req[l].recursiveCount < MaxRecursion
    /\ ~ModeCovered(newMode, req[l].mode)
    /\ ModeCovered(req[l].mode, newMode)
    /\ LET s == Migrated(GivenPriority(l, newMode))
           r == s.req[l]
           others == {m \in Modes : s.lock.grantedCounts[m]
                                      > (IF m = r.mode THEN 1 ELSE 0)}
           blocked == Conflicts(newMode, others)
           counted == IncCount(s.lock.grantedCounts, newMode)
       IN  /\ req' = [s.req EXCEPT ![l] =
                        IF blocked
                        THEN [r EXCEPT !.recursiveCount = @ + 1,
                                       !.status = "CONVERTING",
                                       !.convertMode = newMode]
                        ELSE [r EXCEPT !.recursiveCount = @ + 1,
                                       !.mode = newMode]]
           /\ lock' = IF blocked
                      THEN [s.lock EXCEPT !.grantedCounts = counted,
                                          !.conversionsCount = @ + 1]
                      ELSE [s.lock EXCEPT !.grantedCounts =
                                            DecCount(counted, r.mode)]
           /\ pc' = [pc EXCEPT ![l] = IF blocked THEN "waiting" ELSE "idle"]
    /\ parts' = NoPartitionedRequests
    /\ corrupt' = (/\ GoesFirst(newMode) /\ ~req[l].compatibleFirst
                   /\ l \in ToSet(lock.grantedList))
    /\ UNCHANGED priority

\* lockComplete() returns once the request has been granted.
LockComplete(l) ==
    /\ At(l, "waiting")
    /\ req[l].status = "GRANTED"
    /\ pc' = [pc EXCEPT ![l] = "idle"]
    /\ UNCHANGED <<priority, req, lock, parts, corrupt>>

\* unlock() up to its first mutex: the status is read without one.
UnlockUnlocked(l) ==
    LET count == req[l].recursiveCount - 1 IN
    /\ req' = [req EXCEPT ![l].recursiveCount = count]
    /\ pc' = [pc EXCEPT ![l] =
                CASE req[l].status = "GRANTED" /\ count > 0 -> "idle"
                  [] ~(req[l].status = "GRANTED" /\ count > 0)
                       /\ req[l].partitioned -> "unlockPartition"
                  [] OTHER -> "unlock"]
    /\ UNCHANGED <<priority, lock, parts, corrupt>>

\* The holder releases one reference.
Unlock(l) ==
    /\ At(l, "idle")
    /\ req[l].status = "GRANTED"
    /\ UnlockUnlocked(l)

\* lockComplete() gives up at its timeout or when the operation is killed, a
\* waiting request as well as a waiting conversion; either may be granted at
\* that moment.
Abandon(l) ==
    /\ At(l, "waiting")
    /\ UnlockUnlocked(l)

\* unlockRSTLforPrepare: all references at once.
UnlockRSTLForPrepare(l) ==
    /\ priority
    /\ At(l, "idle")
    /\ req[l].status = "GRANTED"
    /\ req' = [req EXCEPT ![l].recursiveCount = 0]
    /\ pc' = [pc EXCEPT ![l] = IF req[l].partitioned THEN "unlockPartition"
                                                     ELSE "unlock"]
    /\ UNCHANGED <<priority, lock, parts, corrupt>>

\* unlock() under the partition mutex: still partitioned, or migrated since.
UnlockPartition(l) ==
    LET p == GetPartition(l) IN
    /\ At(l, "unlockPartition")
    /\ IF l \in ToSet(parts[p])
       THEN /\ parts' = [parts EXCEPT ![p] = Unlink(@, l)]
            /\ req' = [req EXCEPT ![l] = NewLockRequest]
            /\ pc' = [pc EXCEPT ![l] = "idle"]
       ELSE /\ pc' = [pc EXCEPT ![l] = "unlock"]
            /\ UNCHANGED <<req, parts>>
    /\ UNCHANGED <<priority, lock, corrupt>>

Release(l) ==
    LET r == req[l]
        counts == DecCount(lock.grantedCounts, r.mode)
    IN  OnLockModeChanged(
          [req  |-> req,
           lock |-> [lock EXCEPT
                       !.grantedList = Unlink(@, l),
                       !.grantedCounts = counts,
                       !.compatibleFirstCount =
                           IF r.compatibleFirst THEN @ - 1 ELSE @]],
          counts[r.mode] = 0)

CancelWait(l) ==
    OnLockModeChanged(
      [req  |-> req,
       lock |-> [lock EXCEPT !.conflictList = Unlink(@, l),
                             !.conflictCounts = DecCount(@, req[l].mode)]],
      TRUE)

\* Mutants: the mode that was asked for stays counted; whoever waited for the
\* cancelled conversion is not looked at.
CancelConversionStillCounted(l) ==
    OnLockModeChanged(
      [req  |-> [req EXCEPT ![l].status = "GRANTED", ![l].convertMode = "NONE"],
       lock |-> [lock EXCEPT !.conversionsCount = @ - 1]],
      TRUE)

CancelConversionSilently(l) ==
    [req  |-> [req EXCEPT ![l].status = "GRANTED", ![l].convertMode = "NONE"],
     lock |-> [lock EXCEPT !.conversionsCount = @ - 1,
                           !.grantedCounts = DecCount(@, req[l].convertMode)]]

\* The queue is always checked: convertMode is reset before its count is read.
CancelConversion(l) ==
    OnLockModeChanged(
      [req  |-> [req EXCEPT ![l].status = "GRANTED", ![l].convertMode = "NONE"],
       lock |-> [lock EXCEPT !.conversionsCount = @ - 1,
                             !.grantedCounts = DecCount(@, req[l].convertMode)]],
      TRUE)

\* unlock() under the bucket mutex; the locker forgets a request whose last
\* reference it was.  A conversion that was waiting when unlock() looked at it
\* may have been granted since: it is taken off the list although the locker
\* keeps it as a lock it holds.
UnlockLockHead(l) ==
    /\ At(l, "unlock")
    /\ LET s == CASE req[l].status = "GRANTED"    -> Release(l)
                  [] req[l].status = "WAITING"    -> CancelWait(l)
                  [] req[l].status = "CONVERTING" -> CancelConversion(l)
       IN  /\ lock' = s.lock
           /\ req' = IF req[l].recursiveCount = 0
                     THEN [s.req EXCEPT ![l] = NewLockRequest]
                     ELSE s.req
    /\ corrupt' = (req[l].status = "GRANTED" /\ req[l].recursiveCount > 0)
    /\ pc' = [pc EXCEPT ![l] = "idle"]
    /\ UNCHANGED <<priority, parts>>

\* Only a request on the LockHead may be downgraded.
Downgrade(l, newMode) ==
    /\ At(l, "idle")
    /\ req[l].status = "GRANTED"
    /\ l \in ToSet(lock.grantedList)
    /\ newMode # req[l].mode
    /\ ModeCovered(newMode, req[l].mode)
    /\ LET counts == DecCount(IncCount(lock.grantedCounts, newMode), req[l].mode)
           s == OnLockModeChanged(
                  [req  |-> [req EXCEPT ![l].mode = newMode],
                   lock |-> [lock EXCEPT !.grantedCounts = counts]],
                  TRUE)
       IN  req' = s.req /\ lock' = s.lock
    /\ UNCHANGED <<priority, parts, pc, corrupt>>

\* The periodic cleaner migrates the partitions and deletes a LockHead
\* without granted requests.
CleanupUnusedLocks ==
    /\ ~corrupt
    /\ Partitioned
    /\ LET s == Migrated(req)
       IN  /\ req' = s.req
           /\ lock' = IF ModesOf(s.lock.grantedCounts) = {} THEN EmptyLockHead ELSE s.lock
    /\ parts' = NoPartitionedRequests
    /\ UNCHANGED <<priority, pc, corrupt>>

Next ==
    \/ \E l \in Lockers :
         \/ StartPartition(l) \/ UseLockHead(l)
         \/ LockComplete(l) \/ Abandon(l)
         \/ Unlock(l) \/ UnlockRSTLForPrepare(l)
         \/ UnlockPartition(l) \/ UnlockLockHead(l)
         \/ \E mode \in Modes :
              \/ LockBegin(l, mode)
              \/ ConvertCovered(l, mode) \/ Convert(l, mode)
              \/ Downgrade(l, mode)
    \/ CleanupUnusedLocks

\* The thread of l has a step to take other than asking for the lock: a call
\* of the lock manager to finish, or a lock to release.
Runnable(l) ==
    \/ pc[l] \in {"lock", "unlockPartition", "unlock"}
    \/ pc[l] \in {"waiting", "idle"} /\ req[l].status = "GRANTED"

\* A thread inside the lock manager runs on, and every operation that holds
\* the lock ends, which releases its last reference.
Fairness == \A l \in Lockers : []<>~Runnable(l)

Spec == Init /\ [][Next]_vars

FairSpec == Spec /\ Fairness

-----------------------------------------------------------------------------
(* Properties *)

RequestType ==
    [status : {"NEW", "GRANTED", "WAITING", "CONVERTING"},
     mode : Modes \cup {"NONE"}, convertMode : Modes \cup {"NONE"},
     recursiveCount : 0 .. MaxRecursion, partitioned : BOOLEAN,
     enqueueAtFront : BOOLEAN, compatibleFirst : BOOLEAN]

\* The type invariant of the requests, of the lock head and its partitions,
\* and of the threads' positions.
TypeOK ==
    /\ corrupt \in BOOLEAN
    /\ ~corrupt =>
         /\ priority \in BOOLEAN
         /\ req \in [Lockers -> RequestType]
         /\ lock.grantedList \in Seq(Lockers)
         /\ lock.conflictList \in Seq(Lockers)
         /\ lock.grantedCounts \in [Modes -> Nat]
         /\ lock.conflictCounts \in [Modes -> Nat]
         /\ lock.conversionsCount \in Nat
         /\ lock.compatibleFirstCount \in Nat
         /\ lock.partitions \in Seq(Partitions)
         /\ parts \in [Partitions -> Seq(Lockers)]
         /\ pc \in [Lockers -> {"idle", "lock", "waiting", "unlockPartition", "unlock"}]

Holds(l) == req[l].status \in {"GRANTED", "CONVERTING"}

\* No two lockers hold the resource in conflicting modes, whichever path
\* (partition, lock head, queue, conversion, downgrade) granted them.  Here and
\* below, the one state that ends a corrupt behaviour is left out: a release
\* with references left lets others in beside a locker that goes on as a holder.
NoConflictingGrants ==
    ~corrupt =>
      \A l, k \in Lockers :
        l # k /\ Holds(l) /\ Holds(k) => ~Conflicts(req[l].mode, {req[k].mode})

Count(seq, P(_)) == Cardinality({i \in DOMAIN seq : P(seq[i])})

\* The comment at LockHead::compatibleFirstCount: it counts the requests on the
\* granted list which have requested the compatible-first policy.
CompatibleFirstIsCounted ==
    lock.compatibleFirstCount =
      Count(lock.grantedList, LAMBDA l : req[l].compatibleFirst)

\* Every held request is on exactly one granted list and every waiting one on
\* the queue, and the counts of LockHead exactly match the lists, as the
\* comments at grantedCounts and conflictCounts demand.
CountsMatchLists ==
    ~corrupt =>
      /\ \A l \in Lockers :
           LET onHead == Count(lock.grantedList, LAMBDA k : k = l)
               onPart == Count(parts[GetPartition(l)], LAMBDA k : k = l)
               queued == Count(lock.conflictList, LAMBDA k : k = l)
           IN  /\ onHead + onPart = (IF Holds(l) THEN 1 ELSE 0)
               /\ queued = (IF req[l].status = "WAITING" THEN 1 ELSE 0)
      /\ \A m \in Modes :
           /\ lock.grantedCounts[m] =
                Count(lock.grantedList, LAMBDA l : req[l].mode = m)
                + Count(lock.grantedList, LAMBDA l : req[l].convertMode = m)
           /\ lock.conflictCounts[m] =
                Count(lock.conflictList, LAMBDA l : req[l].mode = m)
      /\ lock.conversionsCount =
           Count(lock.grantedList, LAMBDA l : req[l].status = "CONVERTING")
      /\ CompatibleFirstIsCounted

\* As the comment at LockHead::partitions says, a partitioned lock has no
\* conflicts and only intent modes; a thread that missed the fast path and
\* comes late to the bucket keeps to it.
PartitionedMeansIntent ==
    ~corrupt /\ Partitioned =>
      /\ ModesOf(lock.conflictCounts) = {}
      /\ ModesOf(lock.grantedCounts) \subseteq IntentModes
      /\ \A p \in Partitions, l \in Lockers :
           l \in ToSet(parts[p]) => req[l].mode \in IntentModes

\* No wake-up is lost: a conversion waits only for modes that others hold or
\* convert to, the first request of an ordinary resource's queue conflicts
\* with a granted mode, and on any resource somebody holds what is waited for.
\* In particular a cancelled conversion lets those in that it kept waiting.
NobodyWaitsForNothing ==
    ~corrupt =>
      /\ \A l \in Lockers : req[l].status = "CONVERTING" =>
           Conflicts(req[l].convertMode, ModesWithout([req |-> req, lock |-> lock], l))
      /\ lock.conflictList # <<>> =>
           /\ lock.grantedList # <<>>
           /\ priority \/ Conflicts(req[Head(lock.conflictList)].mode,
                                    ModesOf(lock.grantedCounts))

\* Nobody starves on an ordinary resource: whoever waits in the queue is
\* granted the lock or gives up, although compatible requests are let in
\* around him.  (Priority resources turn this fairness off, as the comment at
\* compatibleFirst says.  Conversions overtake the queue and deadlock with
\* each other, so lockers must stop nesting their requests.)
WaitersAreServed ==
    (\A l \in Lockers : <>[](req[l].recursiveCount <= 1)) =>
      \A l \in Lockers :
        (~priority /\ req[l].status = "WAITING")
          ~> (req[l].status # "WAITING" \/ corrupt)

\* The comment in unlock(): a request that is released under the bucket mutex
\* has no references left.
ReleasedRequestsAreUnreferenced ==
    \A l \in Lockers :
      pc[l] = "unlock" /\ req[l].status = "GRANTED" => req[l].recursiveCount = 0
=============================================================================
