--------------------------- MODULE BSONCacheProofs ---------------------------
(***************************************************************************)
(* Machine-checked proofs about BSONCache, for every set of input files,   *)
(* every batch size of loadSome and every width of a length word.          *)
(***************************************************************************)
EXTENDS BSONCache, TLAPS

(***************************************************************************)
(* The inductive invariant.  WellFormedFileIsSafe is not inductive: that   *)
(* the next hop stays inside the file needs to know where the last loaded  *)
(* document ends (DocsArePrefixOfFile) and that the cache would be         *)
(* complete if that were the end of the file (CompleteIffAllSeen).  A      *)
(* running process has at least the document pushed by init.               *)
(***************************************************************************)
NonEmptyWhileRunning == Running => Len(docs) >= 1

IInv ==
    /\ TypeOK
    /\ NonEmptyWhileRunning
    /\ DocsArePrefixOfFile
    /\ CompleteIffAllSeen
    /\ WellFormedFileIsSafe

(***************************************************************************)
(* Facts about a file's chain: the number of documents is a natural        *)
(* number and every boundary is one.                                       *)
(***************************************************************************)
LEMMA ChainFacts ==
    ASSUME file \in Files
    PROVE  /\ NumChained \in Nat
           /\ file.len \in Nat \ {0}
           /\ Len(file.off) = NumChained + 1
           /\ file.off[1] = 0
           /\ \A i \in 1 .. NumChained + 1 : file.off[i] \in Nat
           /\ \A i, j \in 1 .. NumChained + 1 : i < j => file.off[i] < file.off[j]
           /\ \A i \in 1 .. NumChained : file.off[i] < file.len
  <1>1. IsFile(file)
    BY FilesAssumption
  <1>2. file.off \in Seq(Nat) /\ Len(file.off) \in Nat
    BY <1>1 DEF IsFile
  <1> QED
    BY <1>1, <1>2 DEF IsFile, NumChained

\* No two boundaries are the same.
LEMMA BoundariesDiffer ==
    ASSUME file \in Files, NEW i \in 1 .. NumChained + 1, NEW j \in 1 .. NumChained + 1,
           file.off[i] = file.off[j]
    PROVE  i = j
  <1>1. file.off[i] \in Nat /\ file.off[j] \in Nat
    BY ChainFacts
  <1>2. ~(i < j) /\ ~(j < i)
    BY <1>1, ChainFacts
  <1>3. i \in Int /\ j \in Int
    OBVIOUS
  <1> QED
    BY <1>2, <1>3

(***************************************************************************)
(* objsize() of document i is the distance to the next boundary: the       *)
(* boundaries are distinct, so the document at an offset is unique.        *)
(***************************************************************************)
LEMMA ObjSizeOfChained ==
    ASSUME file \in Files, NEW i \in 1 .. NumChained
    PROVE  ObjSize(file.off[i]) = file.off[i + 1] - file.off[i]
  <1>1. \A j \in 1 .. NumChained : file.off[j] = file.off[i] => j = i
    <2>1. \A j \in 1 .. NumChained : j \in 1 .. NumChained + 1
      BY ChainFacts
    <2> QED
      BY <2>1, BoundariesDiffer
  <1> DEFINE k == CHOOSE j \in 1 .. NumChained : file.off[j] = file.off[i]
  <1>2. k \in 1 .. NumChained /\ file.off[k] = file.off[i]
    BY Zenon
  <1>3. k = i
    BY <1>1, <1>2
  <1>4. ObjSize(file.off[i]) = file.off[k + 1] - file.off[k]
    BY DEF ObjSize
  <1> QED
    BY <1>3, <1>4

(***************************************************************************)
(* _getNextBase() of a non-empty prefix of the file is the boundary that   *)
(* ends the last loaded document.                                          *)
(***************************************************************************)
LEMMA NextBaseOfPrefix ==
    ASSUME file \in Files, NEW ds \in Seq(Nat),
           Len(ds) \in 1 .. NumChained, ds[Len(ds)] = file.off[Len(ds)]
    PROVE  GetNextBase(ds) = file.off[Len(ds) + 1]
  <1>1. ObjSize(file.off[Len(ds)]) = file.off[Len(ds) + 1] - file.off[Len(ds)]
    BY ObjSizeOfChained
  <1>2. Len(ds) \in 1 .. NumChained + 1 /\ Len(ds) + 1 \in 1 .. NumChained + 1
    <2>1. NumChained \in Nat
      BY ChainFacts
    <2> QED
      BY <2>1
  <1>3. file.off[Len(ds)] \in Nat /\ file.off[Len(ds) + 1] \in Nat
    BY <1>2, ChainFacts
  <1> QED
    BY <1>1, <1>3 DEF GetNextBase

(***************************************************************************)
(* The outcome of reading the length word at boundary i.                   *)
(***************************************************************************)
LEMMA OutcomeAtBoundary ==
    ASSUME file \in Files, NEW i \in 1 .. NumChained + 1
    PROVE  /\ Outcomes(file.off[i]) \subseteq {"running", "exception", "fault"}
           /\ i <= NumChained /\ WordInFile(file.off[i])
                  => Outcomes(file.off[i]) = {"running"}
           /\ "running" \in Outcomes(file.off[i]) => i <= NumChained
  <1>1. (\E j \in 1 .. NumChained : file.off[j] = file.off[i]) <=> i <= NumChained
    <2>1. \A j \in 1 .. NumChained : j \in 1 .. NumChained + 1 /\ j <= NumChained
      BY ChainFacts
    <2>2. i <= NumChained => i \in 1 .. NumChained
      BY ChainFacts
    <2> QED
      BY <2>1, <2>2, BoundariesDiffer
  <1>2. CASE i <= NumChained
    <2>1. \E j \in 1 .. NumChained : file.off[j] = file.off[i]
      BY <1>1, <1>2
    <2>2. CASE WordInFile(file.off[i])
      BY <1>2, <2>1, <2>2 DEF Outcomes
    <2>3. CASE ~WordInFile(file.off[i])
      <3>1. Outcomes(file.off[i]) = {"running", "fault"}
        BY <2>1, <2>3 DEF Outcomes
      <3> QED
        BY <1>2, <2>3, <3>1
    <2> QED
      BY <2>2, <2>3
  <1>3. CASE ~(i <= NumChained)
    <2>1. ~ \E j \in 1 .. NumChained : file.off[j] = file.off[i]
      BY <1>1, <1>3
    <2>2. Outcomes(file.off[i]) = {"exception"} \/ Outcomes(file.off[i]) = {"exception", "fault"}
      BY <2>1 DEF Outcomes
    <2> QED
      BY <2>2, <1>3
  <1> QED
    BY <1>2, <1>3

\* The state init leaves behind satisfies the invariant.
LEMMA InitEstablishesIInv == Init => IInv
  <1> SUFFICES ASSUME Init PROVE IInv
    OBVIOUS
  <1>1. file \in Files /\ complete = FALSE /\ op = "idle" /\ bound = 0
    BY DEF Init
  <1>2. file.off[1] = 0 /\ NumChained \in Nat /\ 1 \in 1 .. NumChained + 1
    BY <1>1, ChainFacts
  <1>3. /\ proc \in {"running", "exception", "fault"}
        /\ NumChained >= 1 /\ WellFormed => proc = "running"
        /\ proc = "running" => NumChained >= 1
    <2>1. proc \in Outcomes(file.off[1])
      BY <1>2 DEF Init
    <2>2. NumChained >= 1 /\ WellFormed => WordInFile(file.off[1])
      BY <1>2 DEF WellFormed
    <2> QED
      BY <1>1, <1>2, <2>1, <2>2, OutcomeAtBoundary
  <1>4. /\ docs \in Seq(Nat)
        /\ proc = "running" => Len(docs) = 1 /\ docs[1] = 0
        /\ proc # "running" => Len(docs) = 0
    <2>1. CASE proc = "running"
      BY <2>1 DEF Init
    <2>2. CASE proc # "running"
      BY <2>2 DEF Init
    <2> QED
      BY <2>1, <2>2
  <1>5. TypeOK
    BY <1>1, <1>3, <1>4 DEF TypeOK
  <1>6. NonEmptyWhileRunning
    BY <1>4 DEF NonEmptyWhileRunning, Running
  <1>7. DocsArePrefixOfFile
    <2>1. CASE proc = "running"
      <3>1. Len(docs) = 1 /\ docs[1] = file.off[1] /\ NumChained >= 1
        BY <1>2, <1>3, <1>4, <2>1
      <3> QED
        BY <1>2, <3>1 DEF DocsArePrefixOfFile
    <2>2. CASE proc # "running"
      <3>1. Len(docs) = 0
        BY <1>4, <2>2
      <3> QED
        BY <1>2, <3>1 DEF DocsArePrefixOfFile
    <2> QED
      BY <2>1, <2>2
  <1>8. CompleteIffAllSeen
    <2>1. CASE proc = "running"
      <3>1. Len(docs) = 1
        BY <1>4, <2>1
      <3>2. ~(Len(docs) >= 2)
        BY <3>1
      <3> QED
        BY <1>1, <3>2 DEF CompleteIffAllSeen
    <2>2. CASE proc # "running"
      BY <1>1, <1>4, <2>2 DEF CompleteIffAllSeen
    <2> QED
      BY <2>1, <2>2
  <1>9. WellFormedFileIsSafe
    BY <1>2, <1>3 DEF WellFormedFileIsSafe, Running
  <1> QED
    BY <1>5, <1>6, <1>7, <1>8, <1>9 DEF IInv

(***************************************************************************)
(* One hop of _loadNext keeps the part of the invariant that speaks of the *)
(* file, the documents, the completion flag and the process.               *)
(***************************************************************************)
LEMMA LoadNextPreserves ==
    ASSUME IInv, Running, LoadNext, file' = file
    PROVE  /\ docs' \in Seq(Nat)
           /\ complete' \in BOOLEAN
           /\ proc' \in {"running", "exception", "fault"}
           /\ NonEmptyWhileRunning'
           /\ DocsArePrefixOfFile'
           /\ CompleteIffAllSeen'
           /\ WellFormedFileIsSafe'
  <1> DEFINE k == Len(docs)
             base == GetNextBase(docs)
  <1>1. /\ file \in Files /\ docs \in Seq(Nat) /\ complete = FALSE
        /\ k \in 1 .. NumChained
        /\ \A i \in 1 .. k : docs[i] = file.off[i]
    BY ChainFacts
    DEF IInv, TypeOK, NonEmptyWhileRunning, DocsArePrefixOfFile, LoadNext
  <1>2. base = file.off[k + 1]
    BY <1>1, NextBaseOfPrefix, ChainFacts
  <1>3. k + 1 \in 1 .. NumChained + 1 /\ NumChained \in Nat /\ k \in Nat
    BY <1>1, ChainFacts
  <1>4. /\ proc' \in Outcomes(base)
        /\ proc' = "running" => /\ docs' = Append(docs, base)
                                /\ complete' = (GetNextBase(docs') >= file.len)
        /\ proc' # "running" => docs' = docs /\ complete' = complete
    BY DEF LoadNext
  <1>5. /\ proc' \in {"running", "exception", "fault"}
        /\ proc' = "running" => k + 1 <= NumChained
        /\ k + 1 <= NumChained /\ WellFormed => proc' = "running"
    <2>1. k + 1 <= NumChained /\ WellFormed => WordInFile(file.off[k + 1])
      BY <1>3 DEF WellFormed
    <2> QED
      BY <1>1, <1>2, <1>3, <1>4, <2>1, OutcomeAtBoundary
  <1>6. /\ NumChained' = NumChained
        /\ ChainReachesEnd' = ChainReachesEnd
        /\ WellFormed' = WellFormed
    BY DEF NumChained, ChainReachesEnd, WellFormed, WordInFile
  <1>7. k >= 2 => file.off[k + 1] < file.len
    BY <1>1, <1>2, <1>3, ChainFacts
    DEF IInv, CompleteIffAllSeen, SizeOfFileSeen
  <1>8. WellFormed /\ NumChained >= 2 => k + 1 <= NumChained
    BY <1>1, <1>3, <1>7, ChainFacts DEF WellFormed, ChainReachesEnd
  <1>9. CASE proc' = "running"
    <2>1. /\ docs' \in Seq(Nat) /\ Len(docs') = k + 1
          /\ \A i \in 1 .. k : docs'[i] = docs[i]
          /\ docs'[k + 1] = file.off[k + 1]
      <3>1. file.off[k + 1] \in Nat
        BY <1>1, <1>3, ChainFacts
      <3>2. docs' = Append(docs, file.off[k + 1])
        BY <1>2, <1>4, <1>9
      <3> QED
        BY <1>1, <3>1, <3>2
    <2>2. \A i \in 1 .. k + 1 : docs'[i] = file.off[i]
      BY <1>1, <1>3, <2>1
    <2>3. GetNextBase(docs') = file.off[k + 2]
      BY <1>1, <1>3, <1>5, <1>9, <2>1, NextBaseOfPrefix
    <2>4. complete' = (file.off[k + 2] >= file.len) /\ complete' \in BOOLEAN
      BY <1>4, <1>9, <2>3
    <2>5. complete' => k + 1 = NumChained /\ ChainReachesEnd
      <3>1. k + 1 <= NumChained /\ k + 2 \in 1 .. NumChained + 1
        BY <1>3, <1>5, <1>9
      <3>2. k + 2 <= NumChained => file.off[k + 2] < file.len
        BY <1>1, <1>3, ChainFacts
      <3>3. file.off[k + 2] \in Nat /\ file.len \in Nat
        BY <1>1, <3>1, ChainFacts
      <3>6. complete' => file.off[k + 2] >= file.len
        BY <2>4, Zenon
      <3>4. complete' => k + 1 = NumChained
        BY <1>3, <3>1, <3>2, <3>3, <3>6
      <3>7. k + 1 = NumChained => k + 2 = NumChained + 1
        BY <1>3
      <3>5. complete' => file.off[NumChained + 1] >= file.len
        BY <3>4, <3>6, <3>7
      <3> QED
        BY <3>4, <3>5 DEF ChainReachesEnd
    <2>6. SizeOfFileSeen' = file.off[k + 2]
      BY <2>3 DEF SizeOfFileSeen, GetNextBase, ObjSize, NumChained
    <2>7. CompleteIffAllSeen'
      BY <1>6, <2>1, <2>4, <2>5, <2>6 DEF CompleteIffAllSeen
    <2> QED
      BY <1>3, <1>5, <1>6, <1>9, <2>1, <2>2, <2>4, <2>7
      DEF NonEmptyWhileRunning, DocsArePrefixOfFile, WellFormedFileIsSafe, Running
  <1>10. CASE proc' # "running"
    <2>1. docs' = docs /\ complete' = FALSE
      BY <1>1, <1>4, <1>10
    <2>2. SizeOfFileSeen' = SizeOfFileSeen
      BY <2>1 DEF SizeOfFileSeen, GetNextBase, ObjSize, NumChained
    <2>3. CompleteIffAllSeen'
      BY <1>6, <2>1, <2>2, <1>1 DEF IInv, CompleteIffAllSeen
    <2>4. DocsArePrefixOfFile'
      BY <1>6, <2>1 DEF IInv, DocsArePrefixOfFile
    <2>5. WellFormedFileIsSafe'
      BY <1>5, <1>6, <1>8, <1>10 DEF WellFormedFileIsSafe
    <2> QED
      BY <1>1, <1>5, <1>10, <2>1, <2>3, <2>4, <2>5 DEF NonEmptyWhileRunning, Running
  <1> QED
    BY <1>9, <1>10

(***************************************************************************)
(* A step that leaves the file, the documents, the flag and the process    *)
(* alone keeps the invariant when op and bound keep their types.           *)
(***************************************************************************)
LEMMA BookkeepingPreserves ==
    ASSUME IInv, UNCHANGED <<file, docs, complete, proc>>,
           op' \in {"idle", "loadSome", "loadAll", "loadTo"}, bound' \in Nat
    PROVE  IInv'
  BY DEF IInv, TypeOK, NonEmptyWhileRunning, DocsArePrefixOfFile, CompleteIffAllSeen,
         WellFormedFileIsSafe, WellFormed, ChainReachesEnd, WordInFile, Running, NumChained,
         SizeOfFileSeen, GetNextBase, ObjSize

\* The same after a hop: only the types of op and bound remain to be shown.
LEMMA HopPreserves ==
    ASSUME IInv, Running, LoadNext, file' = file,
           op' \in {"idle", "loadSome", "loadAll", "loadTo"}, bound' \in Nat
    PROVE  IInv'
  <1>1. file' \in Files
    BY DEF IInv, TypeOK
  <1> QED
    BY <1>1, LoadNextPreserves DEF IInv, TypeOK

\* Every step of the cache preserves the invariant.
LEMMA StepPreservesIInv == IInv /\ [Next]_vars => IInv'
  <1> SUFFICES ASSUME IInv, [Next]_vars PROVE IInv'
    OBVIOUS
  <1> USE DEF Return
  <1>0. bound \in Nat /\ docs \in Seq(Nat) /\ op \in {"idle", "loadSome", "loadAll", "loadTo"}
    BY DEF IInv, TypeOK
  <1>1. CASE LoadSomeCall
    BY <1>0, <1>1, BookkeepingPreserves, MaxDocsAssumption DEF LoadSomeCall
  <1>2. CASE LoadAllCall
    BY <1>0, <1>2, BookkeepingPreserves DEF LoadAllCall
  <1>3. ASSUME NEW index \in 0 .. Len(docs), LoadToCall(index) PROVE IInv'
    <2>1. index \in Nat
      BY <1>0
    <2> QED
      BY <1>3, <2>1, BookkeepingPreserves DEF LoadToCall
  <1>4. CASE LoadSomeStep
    <2>1. CASE LoadNext /\ bound > 0
      <3>1. bound' \in Nat /\ op' = op
        BY <1>0, <1>4, <2>1 DEF LoadSomeStep, LoadNext
      <3> QED
        BY <1>0, <1>4, <2>1, <3>1, HopPreserves DEF LoadSomeStep
    <2>2. CASE UNCHANGED <<docs, complete, proc>> /\ Return
      BY <1>4, <2>2, BookkeepingPreserves DEF LoadSomeStep
    <2> QED
      BY <1>4, <2>1, <2>2 DEF LoadSomeStep
  <1>5. CASE LoadAllStep
    <2>1. CASE LoadNext /\ UNCHANGED <<op, bound>>
      BY <1>0, <1>5, <2>1, HopPreserves DEF LoadAllStep
    <2>2. CASE UNCHANGED <<docs, complete, proc>> /\ Return
      BY <1>5, <2>2, BookkeepingPreserves DEF LoadAllStep
    <2> QED
      BY <1>5, <2>1, <2>2 DEF LoadAllStep
  <1>6. CASE LoadToStep
    <2>1. CASE LoadNext /\ UNCHANGED <<op, bound>>
      BY <1>0, <1>6, <2>1, HopPreserves DEF LoadToStep
    <2>2. CASE UNCHANGED <<docs, complete, proc, op, bound>>
      BY <1>0, <1>6, <2>2, BookkeepingPreserves DEF LoadToStep
    <2>3. CASE UNCHANGED <<docs, complete, proc>> /\ Return
      BY <1>6, <2>3, BookkeepingPreserves DEF LoadToStep
    <2> QED
      BY <1>6, <2>1, <2>2, <2>3 DEF LoadToStep
  <1>7. CASE UNCHANGED vars
    BY <1>0, <1>7, BookkeepingPreserves DEF vars
  <1> QED
    BY <1>1, <1>2, <1>3, <1>4, <1>5, <1>6, <1>7 DEF Next, Step

\* The invariant holds in every reachable state of the cache.
THEOREM CacheInvariant == Spec => []IInv
  <1>1. Init => IInv
    BY InitEstablishesIInv
  <1>2. IInv /\ [Next]_vars => IInv'
    BY StepPreservesIInv
  <1> QED
    BY <1>1, <1>2, PTL DEF Spec

(***************************************************************************)
(* TypeOK, for every set of files, batch size and width of a length word.  *)
(***************************************************************************)
THEOREM TypeCorrect == Spec => []TypeOK
  <1>1. IInv => TypeOK
    BY DEF IInv
  <1> QED
    BY <1>1, CacheInvariant, PTL

(***************************************************************************)
(* The cache is always a prefix of the file's documents: an index handed   *)
(* out by the cache names the same document for ever.                      *)
(***************************************************************************)
THEOREM PrefixOfFile == Spec => []DocsArePrefixOfFile
  <1>1. IInv => DocsArePrefixOfFile
    BY DEF IInv
  <1> QED
    BY <1>1, CacheInvariant, PTL

(***************************************************************************)
(* isComplete() is set exactly when the end of the file has been seen.     *)
(***************************************************************************)
THEOREM CompleteIsExact == Spec => []CompleteIffAllSeen
  <1>1. IInv => CompleteIffAllSeen
    BY DEF IInv
  <1> QED
    BY <1>1, CacheInvariant, PTL

(***************************************************************************)
(* A well-formed file of at least two documents, none of whose length      *)
(* words straddles its end, never makes the cache read past its end or     *)
(* throw.                                                                  *)
(***************************************************************************)
THEOREM MultiDocumentFileIsSafe == Spec => []WellFormedFileIsSafe
  <1>1. IInv => WellFormedFileIsSafe
    BY DEF IInv
  <1> QED
    BY <1>1, CacheInvariant, PTL

\* What LoadingOnlyExtends allows one step to do.
OnlyExtends ==
    /\ Len(docs') \in {Len(docs), Len(docs) + 1}
    /\ \A i \in 1 .. Len(docs) : docs'[i] = docs[i]
    /\ complete => UNCHANGED <<docs, complete>>

\* A hop appends one document, or none when the length word is rejected.
LEMMA HopOnlyExtends == ASSUME IInv, LoadNext PROVE OnlyExtends
  <1>1. docs \in Seq(Nat) /\ ~complete
    BY DEF IInv, TypeOK, LoadNext
  <1>2. CASE docs' = docs
    BY <1>1, <1>2 DEF OnlyExtends
  <1>3. CASE \E base : docs' = Append(docs, base)
    <2>1. PICK base : docs' = Append(docs, base)
      BY <1>3
    <2>2. Len(docs') = Len(docs) + 1 /\ \A i \in 1 .. Len(docs) : docs'[i] = docs[i]
      BY <1>1, <2>1
    <2> QED
      BY <1>1, <2>2 DEF OnlyExtends
  <1>4. docs' = docs \/ \E base : docs' = Append(docs, base)
    BY DEF LoadNext
  <1> QED
    BY <1>2, <1>3, <1>4

(***************************************************************************)
(* No call of the cache moves or drops a document or un-completes the      *)
(* cache: the numbers that the view, the marks and the searches hold stay  *)
(* good for the life of the program.                                       *)
(***************************************************************************)
THEOREM IndicesStayValid == Spec => LoadingOnlyExtends
  <1>1. IInv /\ [Next]_vars => [OnlyExtends]_vars
    <2> SUFFICES ASSUME IInv, [Next]_vars PROVE OnlyExtends \/ UNCHANGED vars
      OBVIOUS
    <2>1. docs \in Seq(Nat)
      BY DEF IInv, TypeOK
    <2>2. CASE UNCHANGED <<docs, complete>>
      BY <2>1, <2>2 DEF OnlyExtends
    <2>3. CASE LoadNext
      BY <2>3, HopOnlyExtends
    <2>4. UNCHANGED <<docs, complete>> \/ LoadNext \/ UNCHANGED vars
      BY DEF Next, Step, LoadSomeCall, LoadAllCall, LoadToCall, LoadSomeStep, LoadAllStep,
             LoadToStep
    <2> QED
      BY <2>2, <2>3, <2>4
  <1> QED
    BY <1>1, CacheInvariant, PTL DEF Spec, LoadingOnlyExtends, OnlyExtends
==============================================================================
