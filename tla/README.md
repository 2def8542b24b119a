# bsonview and the server it was branched from: TLA+ models, checks and proofs

The repository is **bsonview** (`bv`), an interactive terminal viewer for BSON
files whose whole program is `src/mongo/bsonview/main.cpp`, inside the MongoDB
server tree it was branched from. This directory specifies all of `bv`, and of
the server the three parts whose correctness depends on interleavings and
failures most: the lock manager, the two-phase commit of cross-shard
transactions, and the replica set protocol (elections, oplog replication, commit
point, rollback).

Line numbers without a file name are lines of `main.cpp` in sections about `bv`,
and of the file named last elsewhere.

## 1. The system

### bv

`bv FILE` maps a file into memory and shows its documents, one or several screen
rows each, like `less`. One thread runs an event loop (libtickit); everything
that happens is a handler or a callback of that loop, and a handler runs to its
end before the next one starts.

| component | state | operations |
|---|---|---|
| `BSONCache` (73-186) | `_docs` (documents found so far), `_complete` | `init`, `operator[]`, `loadSome`, `loadAll`, all through `_loadNext` |
| `BSONCacheView` (554-1367) | first document and line, cursor line and document, layout of the last `computeVisible`, rendering, columns | movement, paging, jumps, rendering, resizing, clicks |
| marks (1046-1194) | `_markedDocs`, the drag under way | Enter, mouse drag, Tab, S-Tab |
| `Search` (474-519, 1370-1433) | `_lastSearch` | `registerSearch`, `searchFor`, `doSearch` (deferred) |
| `SingleLinePrompt` (270-469) | text, cursor column, focus | editing, confirm, cancel |
| `SingleLineStatus` (1436-1531) | `_extra` | `setExtra`, `resize` |
| event loop (1542-1783) | queue of `tickit_watch_later` callbacks, `jumpToEndAfterLoadingComplete` | `event_key`, `event_mouse`, `event_resize`, `render_main`, `load_more`, `defer` |
| startup and exit (1787-1922) | the mapping, libtickit's handles | `_main`, `tickitDone`, `main` |

How they interact:

* Each document begins with its own length, so document *i* is found only by
  hopping over the documents before it. Two loaders extend `_docs`: the idle
  callback `load_more`, 100 documents at a time, and rendering, which asks
  `operator[]` for the documents it draws. The views take `numDocs()` of a
  *complete* cache for the number of documents, and `operator[]` never returns
  for a number past that.
* Every operation of the view changes a few members and calls `computeVisible`,
  which walks over the documents from `_startDoc` on and leaves `_docLines`,
  `_lastDisplayedDoc`, `_lastDisplayedLine` and `_cursorDoc`. The next operation
  computes with those.
* End during loading only sets `jumpToEndAfterLoadingComplete`; the last
  `load_more` makes the jump. A search only shows "Searching..."; a deferred
  callback does the work, with the pattern, cursor and cache of that later time.

What is hard, and what the properties are for (the full list with line numbers
is `"hazards"` in `PROJECT.json`): two loaders sharing a cache; the ends of the
file and of the cache; layouts used after something changed; unsigned and
negative positions; deferred work that must still happen; half-finished drags
and rejected queries.

### The server

| component | state | operations | what it must not get wrong |
|---|---|---|---|
| lock manager (`db/concurrency/lock_manager.cpp`, `lock_state.cpp`) | per resource a `LockHead` (granted list, conflict queue, counts of modes) and `PartitionedLockHead`s; per locker a `LockRequest` | `lock`, `convert`, `unlock`, `downgrade`, `cleanupUnusedLocks`, `lockComplete` and its timeout | conflicting grants, lost wake-ups, counters that drift, the race between partition and bucket mutex |
| transaction coordinator (`db/s/transaction_coordinator*.cpp`, `txn_two_phase_commit_cmds.cpp`, `db/commands/txn_cmds.cpp`) | step and decision of the coordinator, its document in `config.transaction_coordinators`; the state of every participant | prepare, vote, decide, acknowledge, delete; deadline; step-down and step-up recovery; `coordinateCommitTransaction` | one outcome everywhere, whatever fails over or comes late; nobody left prepared |
| replica set (`db/repl/topology_coordinator.cpp`, `replication_coordinator_impl*.cpp`, `vote_requester.cpp`, `oplog_fetcher.cpp`, `rollback_impl.cpp`) | term, role, votes in memory and on disk, oplog and journal, commit point, knowledge of the other members | elections, heartbeats, fetching, update-position, step-down, rollback, restart | two primaries in a term, committed writes lost by an election, rolling back what was committed |

They meet as follows: a coordinator's and a participant's writes are acknowledged
once the replica set of their shard has them majority-committed, and survive a
failover from then on. `TransactionCoordinator` takes this as given (`hist`);
`ReplSet` is where it is checked and proved (`PrimaryHasCommittedEntries`). A transaction
that is prepared gives up the RSTL (`unlockRSTLforPrepare`), which
`LockManager` has as an action, so that the step-down's X request can be granted.

## 2. Modules

| module | models | main source |
|---|---|---|
| `BSONCache` | the cache over any file, well formed or not | 73-186, `bson/bsonobj.h` 388-399, 588-592 |
| `BSONCacheProofs` | TLAPS proofs about `BSONCache` | |
| `BSONCacheView` | the view's operations, as operators on a record | 554-958, 1167-1206, 1288-1365 |
| `VisibleLoop` | `computeVisible` loop by loop | 835-837, 898-958 |
| `VisibleLoopProofs` | TLAPS proof that the loops compute the closed form | |
| `BSONCacheViewProofs` | TLAPS proofs: what every operation of the view keeps | |
| `MarkedDocs` | marks and drags, as operators on a record | 1046-1149 |
| `BsonView` | the program: event loop, view, marks, searches, windows | 1241-1255, 1542-1783, 1861-1893 |
| `BsonViewProofs` | TLAPS proofs about the program | |
| `SingleLinePrompt` | editing in the prompt, byte by byte | 270-469 |
| `SingleLinePromptProofs` | TLAPS proofs about `SingleLinePrompt` | |
| `LockManager` | one resource of the lock manager and the lockers that use it | `lock_manager.cpp` 52-254, 335-797, `lock_state.cpp` 537-585, 850-1042 |
| `LockManagerProofs` | TLAPS proofs about `LockManager` | |
| `AtomicCommit` | what a commit promises: abstract specification | |
| `TransactionCoordinator` | the commit of one transaction over several shards | `transaction_coordinator*.cpp`, `txn_two_phase_commit_cmds.cpp`, `txn_cmds.cpp` |
| `TransactionCoordinatorProofs` | TLAPS proofs about it, the refinement of `AtomicCommit` included | |
| `ReplSet` | a replica set under protocol version 1 | `db/repl/` |
| `ReplSetProofs` | TLAPS proofs: types, elections, and that what is committed stays committed | |
| `MCBSONCache`, `MCVisibleLoop`, `MCBsonView`, `MCLockManager`, `MCReplSet`, `MCReplSetFive` | instances for TLC | |

**BSONCache.** A file is a chain of boundaries (`off`) and a length (`len`);
`docs` holds start offsets. `op` and `bound` are the call under way; every
iteration of the code's `while` loops is one step. A BSONObj built on a boundary
outside the chain throws. A length word that begins inside the file and ends behind
it is completed by the zero padding of the last page, and may pass for a length, or
faults where the file fills that page; so does one behind the end (`Outcomes`,
`WordInFile`). `LengthBytes` is the width of the word, 4 in the code.

**BSONCacheView.** `Pos[r][d]` is the number of rows before document `d` in
rendering `r`; this is all that is kept of the text, apart from the length of
the rows (`Width`). The record's fields are the members of the class (`startDoc`
is `_startDoc`, and so on), with `numDocs` for the cache (its completeness and
its safety are what `BSONCache` establishes) and `proc` for how the process
ended. Loops that count one variable are in closed form: the screen shows the
rows from `Top(v)` on, so what `computeVisible` finds is arithmetic on `Pos`.
`VisibleLoop` runs the real loops against that closed form, and
`VisibleLoopProofs` shows that they agree for every file and window. Two loops keep their
steps or their choice of stopping point: `_jumpToDocOffscreen` is a sequence of
`moveUp` steps (`JumpStep`), and the loops of `jumpDown` and `pageUp` are "the
first document, counting down, at which the loop condition fails"; if `jumpDown`
has none, the unsigned `_startDoc` wraps and the process is `"hung"`.

**BsonView.** One action per key (`KeyDown`, `KeyPageUp`, ...), mouse event,
window event and callback. `later` is the callback queue, first in, first out;
between two callbacks any input may come. `inputs` is the set of events that the user
of this run of `bv` sends, one of `Users`.
Reading the empty `_dragMarked` (1076) gives any value (`DragValues`); deleting
the never-set `_matcher` of a rejected query (1421) may or may not fault
(`DeleteOutcomes`).

**SingleLinePrompt.** `_enteredText` is a sequence of bytes, each named by its
place among the bytes entered since `enter()`; a text event brings one character
of one or more bytes and moves the column by one. `substr` past the end is an
exception that `main` does not catch. `BsonView` has the prompt as the text it
is left with (`PromptConfirm`, `PromptCancel`).

The one-document file is treated in `BSONCache` only; `BSONCacheView` assumes
two or more documents (`NAssumption`), for which the proofs show the cache safe.

**LockManager.** A step is what runs under one mutex. `lock()` that misses the
partition's fast path goes on under the bucket mutex later (`LockBegin`, then
`StartPartition` or `UseLockHead`); `unlock()` reads the status of its request
under no mutex at all (`UnlockUnlocked`), then takes the partition's, then the
bucket's. `_onLockModeChanged` is part of the action that calls it. `priority`
says whether the resource is Global, PBWM or RSTL, whose S and X requests go to
the front of the queue and let compatible ones in (`GoesFirst`). `Abandon` is the
timeout or interruption of `lockComplete`, for a wait in the queue and for a waiting
conversion alike. Two steps of the code break what the lists and the counts stand
for: a release with references left (`UnlockLockHead`, run `locks_race`) and an
upgrade that makes a request on the lock head compatible-first without counting it
(`Convert`). The history variable `corrupt` records them; a
behaviour ends there (`At`), since what follows is a failed invariant of the server or
a locker without the lock it believes to hold, and the other properties speak of the
states before. Setting the two flags of a request and taking the bucket mutex are one
step. In the migration before a conversion (`Migrated`) the flags are already set, as
in the code.

**TransactionCoordinator.** `hist[s]` is what the primary of shard *s* has
written: the first entry is majority-committed, the last is what the primary
sees, and `Failover` loses any of the others. Requests stay in `msgs` and may be
delivered at any later time, any number of times or never. The coordinator's
continuations are its actions, in the order of the future chain of its
constructor; `DeadlineWhilePreparing` and `DeadlineWhileWriting` are what the
deadline does to each. `answers` holds what `coordinateCommitTransaction` has told a
client: the decision when the coordinator ends (`DeleteDoc`, `DeleteDocFails`), the
decision too when it is durable and the node steps down before all acks are in
(`_done`, in `Failover`), or the state of the local participant where no coordinator is
found (`RecoverFromLocalParticipant`, and `AnswerFromLocalParticipant` once it has
left prepare, for which the session is released; `awaitsExit`). A crash answers nobody.
What `commitTransaction` itself answers is not in `answers`. `ImplementsAtomicCommit` maps a shard's outcome to what is
majority-committed there, and to aborted when an unprepared transaction is gone
(`Outcome`).

**ReplSet.** An oplog is the sequence of its entries' terms, an `OpTime` a pair of
term and position. A message is an action that reads the sender and changes the
receiver; not taking it is its loss, taking it again its duplication. What makes
votes hard is kept in steps of its own: the vote granted in memory, the write of
`local.replset.election` with the mutex released, the reply after it
(`ProcessReplSetRequestVotes`, `ReplyToVoteRequest`), and a crash anywhere in
between (`Restart`). A primary that learns of a higher term first steps down and
takes the term over at the end of it (`pendingTerm`). Only the handler that starts
the step-down waits for its end (`WaitsForStepDown`); the handler of a *further* higher
term goes on at once, as in the code. `voteWentBack` is a history variable: a member
has granted a vote in an earlier term than the one it had voted in before. In the
model a new primary that begins to step down while it still catches up stops fetching
at once. A batch brings one entry, or none when the node has all its source has
(`OnSuccessfulBatch`); its metadata is processed in either case. `committed` is a history
variable. `RunRollback` has the invariant of `_findCommonPoint` as a guard
(`CommonPointIsCommitted`): where it fails the server aborts, which is a `Restart`.

## 3. Model checking

| run | asks | bounds |
|---|---|---|
| `cache` | Is the cache an exact, growing prefix of the file, is `isComplete()` true exactly when it should be, do loading and lookups end? | every file of at most 9 bytes (`MaxBytes`), 4 documents (`MaxChain`) of 1-3 bytes (`MaxObjSize`), length words of 2 bytes (`LengthBytes`), batches of 2 |
| `visible` | Do `computeVisible`'s loops end, and compute the closed form? | two files of 4 documents with 1-5 rows, every first document, `_startLine` from -2 to 6, 1-4 lines, every cursor line and loading progress |
| `rows_and_marks` | Is the layout ever stale, do clicks hit what is drawn, does paging leave out rows, is every document number held that of a loaded document? Does a drag make its preview permanent, do Tab and S-Tab fit? | a user who scrolls or one who marks; 4 documents of 1-4 rows and of one row, windows of 2 and 3 lines, one document `textLogs` throws on, `_startLine` up to 6; while marking 3 lines, `_startLine` up to 3 (`MarkStartLine`), all sets of marks and drags |
| `search` | Does every search end with an outcome, does a match get the cursor, is End during loading carried out, when does End hang? | 6 documents, 4 lines, two renderings, text and query patterns, valid and not, two queued callbacks (`MaxLater`) |
| `prompt` | Does the column stay inside the text, does editing keep the order of the keys? | characters of 1-3 bytes, 7 bytes entered per prompt (`MaxEntered`) |
| `locks` | Are conflicting modes ever granted, do the counters match the lists, is a wake-up lost, does a waiter starve, also where strong modes go first and upgrades change the policy? | three lockers, two of them in one partition, an ordinary and a priority resource, `recursiveCount` up to 2 (`MaxRecursion`), on the priority resource for one locker (`PriorityNesters`) |
| `two_phase_commit` | Is the commit atomic, are clients told the truth, is anybody left prepared? | three shards, three failovers (`MaxFailovers`) |
| `replset` | One primary per term, unless a vote went back? Nothing counted as committed lost, commit points real, rollback harmless? | three members; a fresh set in which all may stand, with terms up to 2 (`FreshMaxTerm`) and no writes; and one that starts with two diverged oplogs, in which C does not stand (`NeverStands`), with terms up to 3 (`MaxTerm`), oplogs up to 3 entries (`MaxLen`), client writes in term 3 (`WriteTerms`; a new primary's own first entry comes in every term) |
| `one_document`, `locks_race`, `double_vote`, `rollback_past_commit_point` | statements of comments, assertions and tests that the code does not keep | as small as the case allows |

The bounds are enough for the cases that matter. In `bv`: the file outgrows the
window, loading takes several batches and may be finished by either loader,
documents are shorter, equal to and taller than the window, and paging meets both
ends. `MaxStartLine` is needed because repeated End and Up presses let
`_startLine` grow without limit; `MaxLater` because `n` may be pressed faster than
searches run. In `locks`: three lockers are a holder, a waiter and one that
overtakes, two in one partition and one in another; on the priority resource, which
has several times as many states, one of them nests requests, and the proofs cover
any number. In `two_phase_commit`: one
shard can be neither the coordinator nor the one that refuses, and a recovering
coordinator can fail over again. In `replset` the fresh set has the race of candidates
for one term, with the bounds of `double_vote`, and votes do go back in it. In the
diverged one a further election (term 3) follows
two primaries that left different entries, so that all orders of replicating,
committing, rolling back and crashing around it occur; the start state
(`Diverged`) is one that `Init` leads to. `RelevantState` is a VIEW that leaves
out what no later step reads: the first OpTime and the member data of a node that
is not primary, member data of earlier terms, which cannot pass the test at
`topology_coordinator.cpp` 2462, and votes in terms below a node's own. The bounds of
the diverged set leave no room for a vote that goes back, so there the properties meet
the interleavings of step-downs but not the excepted states.

`CHECK_DEADLOCK FALSE` is used because `bv` stops (q, exceptions) and idles when
no input comes, conversions of locks can wait for each other, a transaction ends,
and a replica set stops at the bounds.

What the passing runs show, beyond the types:

* `DocsArePrefixOfFile`, `CompleteIffAllSeen`, `LoadingOnlyExtends`: the loaders
  may be mixed at will.
* `LayoutIsFresh`: no handler leaves the layout of another position behind.
* `IndicesAreLoaded`: `operator[]` is never asked for a document past the end.
* `LoaderRunsUntilComplete`, `JumpToEndIsServed`: the loader survives the cache
  being completed by rendering, and then makes the jump that was asked for.
* `HangsOnlyPastTheEnd`: `_startDoc--` in `jumpDown` wraps only when the file,
  without the lines that an earlier command has left in `_startLine` to be skipped,
  is shorter than all but one line of the screen.
* `PageDownIsContiguous`, `PageUpIsContiguous`, `ClicksHitDrawnDocs`: what the
  user sees. Their preconditions name the cases in which the code does otherwise:
  `pageDown` when the last loaded document is less than two screens below the top
  (the code may then go on to the end), `pageUp` with a negative `_startLine`, mouse lines while `_startLine` is
  negative.
* `SearchIsPending`, `SearchEnds`, `OnscreenMatchGetsCursor`, `JumpLandsOnGoal`:
  searches. `JumpLandsOnGoal` is for one-row documents: with taller ones
  `moveUp` uses the height of the wrong document (731) and the cursor may end on
  a neighbour.
* `DragMakesPreviewPermanent`, `TabsAreInverse`: marks.
* `ColumnIsInsideText`, `BytesKeepKeyOrder`: the prompt. They do not say that it
  edits well: text typed with the cursor in the middle goes to the end (378), and
  Backspace takes one byte of a character of several (384).

* `NoConflictingGrants`, `PartitionedMeansIntent`: the fast path, the migration to
  the lock head and the race between them ("benign", says `lock_manager.cpp` 439)
  never grant conflicting modes.
* `CountsMatchLists`, `NobodyWaitsForNothing`, `WaitersAreServed`: releases,
  cancelled waits, conversions, cancelled conversions and downgrades keep the counters
  exact and wake whom they must. All the lock properties are about the states before
  the first corrupt step. `WaitersAreServed` is for ordinary resources and lockers that do
  not nest requests: conversions overtake the queue.
* `AnswersAreTrue`, `OneDecisionIsSent`, `PreparedIsRemembered`,
  `ImplementsAtomicCommit`, `InDoubtIsResolved`: two-phase commit with failovers
  of any shard at any time. A client may be told commit before every shard has it,
  by a coordinator that steps down; `AnswersAreTrue` says that every shard then has
  committed, or is prepared with the decision durable.
* `OnePrimaryUnlessVoteWentBack`, `PrimaryHasCommittedEntries`,
  `CommitPointIsCommitted`, `RollbackKeepsCommitted`: the replica set, as long as no
  vote has gone back to an earlier term; `double_vote` shows that one can.
  `RollbackKeepsCommitted` is about the OpTimes a primary has counted, not about
  entries that are committed only because they precede one of those elsewhere.

**Fairness.** `BSONCache!FairSpec`: a call that has started runs to its end
(`WF(Step)`), and `load_more`, which re-arms itself with `tickit_watch_later`, is
served between any number of other calls (`SF(LoadSomeCall)`). `BsonView!FairSpec`:
a handler that was started ends and the head of the callback queue is served,
however much input comes in; libtickit empties the queue once per turn of its
loop. The three strong-fairness conditions are written out with what enables
their actions. Nothing is assumed of the user or of the windows.
`LockManager!FairSpec`: a thread inside the lock manager runs on and a holder
releases in the end (`[]<>~Runnable`); nothing forces a waiter to give up.
`TransactionCoordinator!FairSpec`: the coordinator's tasks run, a request that is
sent again and again (`doWhile` with back-off) is delivered, writes reach a
majority. Failovers, deadlines and clients are free to come or not. `ReplSet` has
no liveness property: elections have random timeouts only.

**Where the code does not do what it says** (`"findings"`):

* `one_document`: a file of exactly one document is never complete and the next
  load builds a BSONObj behind the end of the file (92).
* `locks_race`: a conversion that times out at the moment it is granted is
  released with references left (`lock_manager.cpp` 549, 577).
* `double_vote`: a vote request of a higher term that reaches a primary already
  stepping down does not wait for it and leaves `_lastVote` above `_term`; a late
  request in the old term gets a second vote (`replication_coordinator_impl.cpp`
  3817, `topology_coordinator.cpp` 2739).
* `rollback_past_commit_point`: a node that is behind takes the smaller of its sync
  source's commit point and its own last entry (`topology_coordinator.cpp` 2472),
  an OpTime of an earlier term than the entry that was counted. OpTimes compare by
  term, so a member with an uncommitted entry of a term in between is ahead of it;
  if that becomes its sync source, the common point is before its commit point and
  the server stops at the invariant of `rollback_impl.cpp` 953
  (`RollbackStopsAtCommitPoint`). It takes five members; the start (`Lagging`) is a state that `Init` leads to. A majority has
  the entries all the same, and no entry that a primary has counted itself is ever
  rolled back (`RollbackKeepsCommitted`). The attempt to prove
  `RollbackStopsAtCommitPoint` for every number of members is what showed this.

Behaviours the models show that are not runs:

* End lets `_startDoc--` wrap (763) at once when the file has fewer rows than all
  but one line of the screen, and when pressed repeatedly on a file that is a little
  longer: each press raises `_startLine` by one until nothing stops the loop.
* PageDown can skip the whole first document (822), which "should no longer ever
  happen" (945). PageUp can leave `_startLine` negative (808); Up then never
  scrolls again. After a PageDown that skips documents, Tab may put the cursor
  above the screen (1321). While the file is loading PageDown may ask for the jump
  to its end, because the last *loaded* document came into sight (825).
* PageDown near the end may go back: `jumpDown` looks for the first document to show
  with the `_startLine` of the page (762), so it may stop at a document that is tall
  enough to fill the screen alone, and then shows the end of that one (767). With
  documents of 6, 3 and 1 rows and a screen of 3 lines, PageDown at row 6 goes to row
  5. `PageDownIsContiguous` was first stated without this case; the attempt to prove
  it gave a counterexample.
* A release without a drag changes marks (1076); a search after a rejected query
  deletes a pointer that was never set (1421).
* A recovered coordinator persists its participant list again on the scheduler
  that its deadline shuts down (`transaction_coordinator.cpp` 77, 118, 283): when
  the deadline comes first it ends without a decision, and participants stay
  prepared until the next step-up (`Abandoned` in `InDoubtIsResolved`).
* An upgrade to S or X of Global, PBWM or RSTL makes the request compatible-first
  (`lock_state.cpp` 853). In a partition the migration counts it; after the periodic
  cleanup has moved it to the lock head nothing does, against the comment at
  `lock_manager.cpp` 310, and the release fails the invariant at 585. One locker is
  enough: IX, the cleaner, X. No caller in the repository upgrades these resources
  from an intent mode.
* Two holders that convert to conflicting modes wait for each other until a
  timeout; a stream of conversions starves the queue.

## 4. Proofs

Every theorem is about every value of the constants: any set of files, any heights
of documents and of the window, any patterns and users, any width of characters, any
number of lockers and partitions, of shards and failovers, of members, terms and
entries. None has a hypothesis beyond the assumptions on the constants; every invariant
and every action property of a passing run is proved, and what is left to TLC is
liveness.

| module | theorem | statement |
|---|---|---|
| `BSONCacheProofs` | `CacheInvariant` | `Spec => []IInv` |
| | `TypeCorrect` | `Spec => []TypeOK` |
| | `PrefixOfFile` | `Spec => []DocsArePrefixOfFile` |
| | `CompleteIsExact` | `Spec => []CompleteIffAllSeen` |
| | `MultiDocumentFileIsSafe` | `Spec => []WellFormedFileIsSafe` |
| | `IndicesStayValid` | `Spec => LoadingOnlyExtends` |
| `SingleLinePromptProofs` | `PromptInvariant` | `Spec => []IInv` |
| | `ColumnStaysInside` | `Spec => []ColumnIsInsideText` |
| | `TextIsInKeyOrder` | `Spec => []BytesKeepKeyOrder` |
| `VisibleLoopProofs` | `LoopsComputeTheLayout` | `Spec => []LoopComputesLayout` |
| `BsonViewProofs` | `IndicesAreAlwaysLoaded` | `Spec => []IndicesAreLoaded` |
| | `LayoutIsAlwaysFresh` | `Spec => []LayoutIsFresh` |
| | `ClicksAlwaysHitDrawnDocs` | `Spec => []ClicksHitDrawnDocs` |
| | `LoaderAlwaysRuns` | `Spec => []LoaderRunsUntilComplete` |
| | `SearchIsAlwaysPending` | `Spec => []SearchIsPending` |
| | `HangIsPastTheEnd` | `Spec => []HangsOnlyPastTheEnd` |
| | `TabsAreAlwaysInverse` | `Spec => []TabsAreInverse` |
| | `DragAlwaysMakesPreviewPermanent` | `Spec => DragMakesPreviewPermanent` |
| | `PageDownIsAlwaysContiguous` | `Spec => PageDownIsContiguous` |
| | `PageUpIsAlwaysContiguous` | `Spec => PageUpIsContiguous` |
| | `OnscreenMatchAlwaysGetsCursor` | `Spec => OnscreenMatchGetsCursor` |
| | `JumpAlwaysLandsOnGoal` | `Spec => JumpLandsOnGoal` |
| `LockManagerProofs` | `InvariantHolds` | `Spec => []Sound` |
| | `TypeCorrect` | `Spec => []TypeOK` |
| | `GrantsAreCompatible` | `Spec => []NoConflictingGrants` |
| | `PartitionsHoldIntents` | `Spec => []PartitionedMeansIntent` |
| | `CountsAreExact` | `Spec => []CountsMatchLists` |
| | `NoWakeUpIsLost` | `Spec => []NobodyWaitsForNothing` |
| `TransactionCoordinatorProofs` | `CoordinatorInvariant` | `Spec => []IInv` |
| | `TypeCorrect` | `Spec => []TypeOK` |
| | `DecisionsAgree` | `Spec => []OneDecisionIsSent` |
| | `PreparedHasDocument` | `Spec => []PreparedIsRemembered` |
| | `ClientIsToldTheTruth` | `Spec => []AnswersAreTrue` |
| | `CommitIsAtomic` | `Spec => ImplementsAtomicCommit` |
| `ReplSetProofs` | `TypeCorrect` | `Spec => []TypeOK` |
| | `OnePrimary` | `Spec => []OnePrimaryUnlessVoteWentBack` |
| | `ElectionsLoseNothing` | `Spec => []PrimaryHasCommittedEntries` |
| | `LearntPointsAreCommitted` | `Spec => []CommitPointIsCommitted` |
| | `RollbackLosesNothing` | `Spec => []RollbackKeepsCommitted` |

**The cache.** Assumptions: `FilesAssumption` (a file is a non-empty mapping with a
strictly increasing chain of boundaries, which is what positive length words
give), `MaxDocsAssumption` and `LengthBytesAssumption`. `WellFormedFileIsSafe` is not inductive: that the
next hop stays in the file needs to know where the last loaded document ends
(`DocsArePrefixOfFile`) and that the cache would be complete if that were the end
of the file (`CompleteIffAllSeen`). A file is well formed when its chain reaches its
end and no length word straddles it; `CompleteIffAllSeen` needs the former only. `IInv` is their conjunction with the types and
with "a running process has loaded at least one document". The lemmas compute
`ObjSize`, `GetNextBase` and `Outcomes` at a boundary; `LoadNextPreserves` is the
one hop that all three loops share; `StepPreservesIInv` has one case per action.

**The prompt.** `WidthsAssumption`: a character has at least one byte. `IInv` joins
the column and the order: the pieces `substr` returns are known only for a column
inside the text. `CutOutKeepsOrder` says what taking bytes p+1 .. q out of the text
leaves, `AppendKeepsOrder` what typing adds; with them each key is a few steps.

**The view and the program.** Assumptions: a file of two or more documents
(`NAssumption`; the cache is safe for those), each of one or more rows that fill the
file without gaps (`PosAssumption`: what `Pos` means), windows of at least one line.
The two things an operation of the view relies on depend on each other: the layout
exists only where the first document is one of the file, and the next first
document, cursor line or `_startLine` is computed from the layout. So `IInv` has
both, `Loaded` (the numbers held are those of loaded documents) and `Fresh` (the
layout is that of the position, field by field), the second one only between two
handlers: a jump under way has set `_startDoc` and calls `moveUp` with the old
layout. `ComputeVisibleMoves` is the lemma everything else uses: from any position
inside the file, whatever `_startLine` and `_cursorLine` are, `computeVisible`
reaches a view that is `Loaded` and `Fresh`. Each operation is then a chain of
`Reaches` (what may come before the call) ending in `Moves` (what the call leaves);
`jumpDown` alone may instead end in `Hangs`, and `NowhereToStop` turns "no document
stops the loop" into the arithmetic of `HangsOnlyPastTheEnd`. `FreshIsStable` gives
`LayoutIsFresh` from `Fresh`. `HangsOnlyPastTheEnd` was first stated with
`_startLine` in place of the rows it skips, which is false on short files for the
negative `_startLine` that `pageUp` can leave; the proof showed it. The rest of
`IInv` ties the queue to the search and to the status line (`QueueOK`): that a
deferred search finds a pattern needs that one was registered when it was queued,
and that `load_more` may go needs that no operation asks for the end of a complete
file. `MaxStartLine` and `MaxLater`, the bounds of the runs, are arbitrary here.
Where a page goes is arithmetic on the layout: `BackOfLayout` says what the height of
the last document shown and the sum of the heights shown are in rows of the file, and
`PageDownGoesOn`, `PageUpGoesBack` and `OnscreenJumpHits` put them into the
assignments of the code. An offscreen jump is several `moveUp` calls; `OnItsWay` is
what they keep while every document is one row: the cursor line is the goal less the
first document, and with the calls that are left it never passes a quarter of the
screen, so no `moveUp` finds the cursor elsewhere.

**The loops of computeVisible.** Assumption: `CallsAssumption`, what `Callable` says
of a view of a running process; `BsonViewProofs` shows that every call is such a
one. `LoopInv` says what the counters mean: the rows before the current one have
each been skipped or drawn (`Walked`), `_docLines` has the rows of the documents
passed up to the end of the walk (`Pushed`), the cursor's document is set once its
line is drawn (`CursorSet`), the cache has been extended exactly as far as the walk
has come. Between two documents either the screen is full, in the middle of the last
one perhaps, or every row before the next one is done (`AtDocs`); this is what tells
the two exits of the outer loop apart and gives `LastWalked` and `NumRows` at each.
`LoopTotal` shows that the sum of `_docLines` telescopes.

**The lock manager.** Waits and conversions may be given up at any time. The
theorems are about the states before the first corrupt step (`Sound`: `corrupt`, or
`IInv`): `locks_race` shows one of the two corrupt steps, `Convert` has the other, and the
theorems say that nothing else is wrong. `IInv` has five parts:

* `Well`: nobody is twice on a list, a request on the granted list is granted or
  converting and one in the queue waits, the four counts are those of the lists, and
  the granted modes do not conflict. It is a property of the pair of requests and
  lock head that the operators pass on, so that it can be followed through the
  iterations of a loop, in the middle of which the state is no state of the
  specification.
* while the lock is partitioned nobody waits in the queue, and the modes held and
  converted to are intent modes (`IntentHead`): the fast path may skip the lock head;
* what the partitions list (`PartsInv`): intent requests that are on no other list;
* whoever holds or waits is on the list it belongs to (`HoldInv`);
* what a thread may rely on between two mutexes (`ThreadInv`), by its position: the
  request of a thread that is about to release it is granted or, given up, still
  waits or converts, or has been granted meanwhile; one that missed its partition is
  not there. The unlocked read in `unlock` and the race in
  `lock` ("benign") rest on this.

The loops are functions by recursion on the number of turns; that they exist, and
that what a turn keeps holds at the end, comes from the least counterexample
(`LoopInduction`), since no induction theorem of the library can be instantiated. A
turn takes a request from one list to another or changes one request; `WellKept` has
that argument once, for any change of one request with the counts that go with it.
An upgrade of a partitioned request changes its flags and then migrates it; the
migration is followed with the changed requests (`NowWith`), so that it counts them.
A cancelled conversion keeps its old mode and takes the new one from the counts, which
is a change of one request again, followed by the two passes.
`NoWakeUpIsLost` needs a second invariant on top, `WakeInv`: every conversion that
waits, and on an ordinary resource the head of the queue, has somebody on the granted
list against it, and the queue is empty when nobody holds. After the conversions
have been served in one pass over the granted list, none of those passed over fits:
a grant later in the pass replaces a mode by one that conflicts with all that the
old one conflicted with, which `convert` has as an invariant. After the pass over
the queue its head conflicts, or the loop would have granted it.

**Two-phase commit.** A shard is prepared at most once, because only an open
transaction is prepared and no failover opens one again. Votes are durable before
they count, so a commit is decided only where every shard is durably prepared
(`CommitInv`); a decision is durable before it is sent, so no coordinator of a later
term reads another from the document (`SentInv`); and the document goes only after
every shard is durably done (`DocsInv`). What a client was told has been sent, or is
certain because a shard has refused (`AnswersInv`); a step-down answers only what was
sent, so commit is told only where every shard is durably prepared or committed. `IInv`
says this of every entry of every
shard's history, since a failover may make any of them the last. `CommitIsAtomic`
maps a shard to `Outcome`: a step that makes an entry durable, or ends an
unprepared transaction, is a step of `AtomicCommit`; all others stutter.

**Elections.** `ReplSet`'s assumptions are a finite non-empty set of members,
electable ones among them, and natural bounds. The theorems after `TypeCorrect` hold
until a member grants a vote in an earlier term than its last one (`voteWentBack`),
which nothing in the code prevents (`double_vote`) and a single comparison would; they
say that nothing else is wrong, an overtaken step-down included. The invariant is
carried from step to step while `~voteWentBack'`. Two majorities share a voter; what has to
be carried along is every place a vote can be in (`Claims`: granted and being
stored, counted by the candidate, the candidate's own), one vote per voter and
term (`OneVote`), and, since a primary no longer has the votes that elected it, a
majority that can support nobody else in its term (`HasMajority`). A last vote is
beyond the member's term only while it steps down, and not beyond the term it then
takes over (`VoteBound`). The lemma
`MajorityOpTimeExists` shows that the CHOOSE in `MajorityOpTime` always has a
witness: sorting and taking element size - majority is well defined.

**Commit points.** The condition is that of `OnePrimary`, on which everything
rests. Each action is reduced once to what it does to the oplogs (`LogStep`), to
the votes (`VoteStep`) and to what a primary has heard (`CountStep`). Then:

* `HistoryInv`: an entry determines what precedes it, the entries of a term are one
  chain, and a primary has all those of its term. This needs that a term with
  entries has had its election (`Used`): the winner finds no entry of its term.
* `Safe(o)`: a majority has *o* in its journal, and each of them has voted only for
  candidates that are as far; nobody has an entry of a later term, or is primary in
  one, without having *o*. `SafeKept` is the heart: later winners and the majority
  share a member, and neither crash nor rollback takes *o* from it.
* `LeaderCommit`: for each entry of a primary's own term, those that have reported
  it keep it, and nobody has passed it by, or else a majority that has *not* reported
  it has voted in a later term. This is what makes a count valid although the
  reports are old when they are counted, and it is why the code counts only entries
  of the primary's own term (`topology_coordinator.cpp` 2462).
* `CommitInv`: counted entries are safe, and the commit point of a node, with every
  entry of the node that does not come later, precedes one. The last part is needed
  because a node passes its commit point on, and a receiver that is not as far
  takes its own last entry instead (2472).

`CommitSafety` is the conjunction; TLC has checked it on three members exhaustively
and on five by simulation. Lemmas about a state are used of the next state by
priming them (`HasFactsNext`, `CountedIsSafeNext`, `SameTermUnderNext`).

**Only model-checked.** Liveness, which is out of the prover's reach:
`LoadingFinishes`, `LoadToReturns`, `LoopTerminates`, `SearchEnds`,
`JumpToEndIsServed`, `WaitersAreServed`, `InDoubtIsResolved`. The properties of the
four runs that expect a violation are false; `OnePrimary` says up to which step that of
`double_vote` holds.

## 5. Not modelled

* The text of renderings and of the status line; `textLogs` appears as the
  documents it throws on, `Matcher` as which documents a pattern matches.
* The number of columns is fixed; rows longer than it are covered.
* Window geometry, the checks of `_main` and the exit
  codes: see the plan.
* A file that shrinks while it is mapped (the code's own TODO, 1829).
* `moveNextDoc`, `movePrevDoc` and the `*OnLine` mark helpers have no caller.
* libtickit is external: it appears as the queue, the focus and the window size.
* Of the lock manager: deferred unlocks of a WriteUnitOfWork, tickets, flow
  control, saving and restoring a locker's state.
* Of the transaction coordinator: several transactions of one session, commit
  timestamps, the transaction's statements, the answers of `commitTransaction`.
* Of the replica set: reconfiguration, arbiters, non-voting members, the
  `replSetStepDown` command, priority and catch-up takeovers, initial sync,
  `writeConcernMajorityJournalDefault: false`; the dry run of an election (here a
  follower may run at any time, which allows more), the choice of a sync source.
* The rest of the MongoDB tree (`"components"` lists its parts), 740 thousand
  lines: expressions, query planning, indexes, storage glue, authorization,
  routing, the shell, transport. Most of it transforms data sequentially, and a
  model of it would repeat the code; what runs concurrently and is not modelled
  yet (chunk migration, the balancer, sessions, index builds) would each be a
  module like the ones here.

## 6. Plan

Done, in this order: `BSONCache` and its proofs; `BSONCacheView` with
`VisibleLoop`; `MarkedDocs`; `BsonView` with all handlers; `SingleLinePrompt` and
its proofs; `LockManager`; `AtomicCommit` and `TransactionCoordinator`; `ReplSet`.

Proved since: two-phase commit and its refinement; elections; the safety of the
commit point; the view and the program of `bv`; the loops of `computeVisible`; the
lock manager.

Later, models: window geometry and terminals of one line (326, 1471); `Startup`,
the checks of `_main` and its exit codes (1787-1922).
