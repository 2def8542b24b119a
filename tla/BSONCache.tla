------------------------------ MODULE BSONCache ------------------------------
(***************************************************************************)
(* The document cache of bsonview: class BSONCache and BSONObj's           *)
(* length check, on which it rests.                                        *)
(*                                                                         *)
(* The input file is mapped into memory and never parsed as a whole.  Each *)
(* document starts with its own length, so the only way to find document   *)
(* i is to hop over documents 0 .. i-1.  The cache remembers the start of  *)
(* every document reached so far and is extended one hop at a time:        *)
(* loadSome from the idle callback load_more, operator[] from rendering.   *)
(*                                                                         *)
(* A file is abstracted to the chain of boundaries its length words        *)
(* describe: off[1] = 0 is the start of the first document, off[i+1] the   *)
(* end of document i.  The chain of a file with n = Len(off) - 1 readable  *)
(* documents stops at off[n+1] for one of two reasons:                     *)
(*   off[n+1] >= len   the data ends there (or, past it, is truncated);    *)
(*   off[n+1] <  len   the length word found there is not in               *)
(*                     1 .. BSONObjMaxInternalSize.                        *)
(* A length word that straddles the end of the file counts with its        *)
(* missing bytes zero, as the padding of the last page reads.              *)
(*                                                                         *)
(* The process is single threaded: while one call of the cache is under    *)
(* way nothing else runs.  A call is a loop of _loadNext steps; op names   *)
(* the call under way.                                                     *)
(***************************************************************************)
EXTENDS Integers, Sequences

CONSTANTS
    Files,          \* the input files considered: [off: boundaries, len: st_size]
    MaxDocs,        \* default argument of loadSome (100 in the code)
    LengthBytes     \* bytes of a length word (4 in the code)

(***************************************************************************)
(* A file is a non-empty mapping and a strictly increasing chain of        *)
(* boundaries starting at 0, each document starting inside the mapping.    *)
(***************************************************************************)
IsFile(f) ==
    /\ f.len \in Nat \ {0}
    /\ f.off \in Seq(Nat)
    /\ Len(f.off) >= 1
    /\ f.off[1] = 0
    /\ \A i, j \in 1 .. Len(f.off) : i < j => f.off[i] < f.off[j]
    /\ \A i \in 1 .. Len(f.off) - 1 : f.off[i] < f.len

ASSUME FilesAssumption == \A f \in Files : IsFile(f)
ASSUME MaxDocsAssumption == MaxDocs \in Nat \ {0}
ASSUME LengthBytesAssumption == LengthBytes \in Nat \ {0}

VARIABLES
    file,       \* the mapped file, fixed when the program starts
    docs,       \* _docs: start offsets of the documents loaded so far
    complete,   \* _complete
    op,         \* the cache call under way: "idle", "loadSome", "loadAll" or "loadTo"
    bound,      \* loadSome: documents still to load; loadTo: the index asked for
    proc        \* "running", or how the process ended: "exception" or "fault"

vars == <<file, docs, complete, op, bound, proc>>

NumChained == Len(file.off) - 1

Running == proc = "running"

(***************************************************************************)
(* BSONObj::init reads the length word at a boundary and throws            *)
(* (_assertInvalid) unless it is positive and not too large.  For a word   *)
(* inside the file the outcome is the file's.  A word that straddles the   *)
(* end is read as the padding of the last page completes it, unless the    *)
(* file fills its last page: then the missing bytes are not mapped.  At    *)
(* or past the end all of the word is padding, an invalid length, or no    *)
(* mapped page at all.                                                     *)
(***************************************************************************)
WordInFile(base) == base + LengthBytes <= file.len

Outcomes(base) ==
    LET word == IF \E i \in 1 .. NumChained : file.off[i] = base THEN "running"
                                                                  ELSE "exception"
    IN  IF WordInFile(base) THEN {word} ELSE {word, "fault"}

\* objsize() of a document that BSONObj::init accepted.
ObjSize(base) ==
    LET i == CHOOSE j \in 1 .. NumChained : file.off[j] = base
    IN  file.off[i + 1] - file.off[i]

\* Mutant: the hop forgets to add the document's size.
GetNextBaseNoAdvance(ds) == ds[Len(ds)]

GetNextBase(ds) == ds[Len(ds)] + ObjSize(ds[Len(ds)])

\* sizeOfFileSeen
SizeOfFileSeen == GetNextBase(docs)

(***************************************************************************)
(* init(base, end): the first document is pushed at once.  _complete is    *)
(* cleared and not computed.  A length word that is no document's length   *)
(* throws out of init and ends the program.                                *)
(***************************************************************************)
Init ==
    /\ file \in Files
    /\ complete = FALSE
    /\ op = "idle"
    /\ bound = 0
    /\ proc \in Outcomes(0)
    /\ docs = IF proc = "running" THEN <<0>> ELSE <<>>

\* Mutant: the end test is made with the start of the new document.
LoadNextStaleEnd ==
    /\ ~complete
    /\ LET base == GetNextBase(docs)
       IN  \E out \in Outcomes(base) :
             /\ proc' = out
             /\ IF out = "running"
                THEN docs' = Append(docs, base) /\ complete' = (base >= file.len)
                ELSE UNCHANGED <<docs, complete>>

\* Mutant: the end test is strict.
LoadNextStrictEnd ==
    /\ ~complete
    /\ LET base == GetNextBase(docs)
       IN  \E out \in Outcomes(base) :
             /\ proc' = out
             /\ IF out = "running"
                THEN /\ docs' = Append(docs, base)
                     /\ complete' = (GetNextBase(docs') > file.len)
                ELSE UNCHANGED <<docs, complete>>

(***************************************************************************)
(* The body of _loadNext: push the document after the last one, then       *)
(* compare the new end with the end of the file.  The constructor throws   *)
(* before the push.                                                        *)
(***************************************************************************)
LoadNext ==
    /\ ~complete
    /\ LET base == GetNextBase(docs)
       IN  \E out \in Outcomes(base) :
             /\ proc' = out
             /\ IF out = "running"
                THEN /\ docs' = Append(docs, base)
                     /\ complete' = (GetNextBase(docs') >= file.len)
                ELSE UNCHANGED <<docs, complete>>

Return == op' = "idle" /\ bound' = 0

\* Mutant: load_more is not re-armed after its first batch.
LoadSomeCallOnce ==
    /\ Running /\ op = "idle"
    /\ ~complete /\ Len(docs) = 1
    /\ op' = "loadSome"
    /\ bound' = MaxDocs
    /\ UNCHANGED <<file, docs, complete, proc>>

\* loadSome(): load_more calls it only while the cache is not complete.
LoadSomeCall ==
    /\ Running /\ op = "idle"
    /\ ~complete
    /\ op' = "loadSome"
    /\ bound' = MaxDocs
    /\ UNCHANGED <<file, docs, complete, proc>>

\* Mutant: loadAll starts again from the first document.
LoadAllCallRestarts ==
    /\ Running /\ op = "idle"
    /\ op' = "loadAll"
    /\ docs' = <<0>>
    /\ complete' = FALSE
    /\ UNCHANGED <<file, bound, proc>>

\* loadAll().
LoadAllCall ==
    /\ Running /\ op = "idle"
    /\ op' = "loadAll"
    /\ UNCHANGED <<file, docs, complete, bound, proc>>

\* Mutant: the caller does not test isComplete() and numDocs().
LoadToCallNoEndTest(index) ==
    /\ Running /\ op = "idle"
    /\ op' = "loadTo"
    /\ bound' = index
    /\ UNCHANGED <<file, docs, complete, proc>>

(***************************************************************************)
(* operator[](index).  Its callers (computeVisible, drawMainLines,         *)
(* searchFor) walk up from a loaded document and test                      *)
(* !isComplete() || doc < numDocs() before each access.                    *)
(***************************************************************************)
LoadToCall(index) ==
    /\ Running /\ op = "idle"
    /\ index <= Len(docs)
    /\ ~complete \/ index < Len(docs)
    /\ op' = "loadTo"
    /\ bound' = index
    /\ UNCHANGED <<file, docs, complete, proc>>

\* Mutant: loadSome counts one document too many.
LoadSomeStepOffByOne ==
    /\ Running /\ op = "loadSome"
    /\ \/ /\ ~complete /\ bound >= 0
          /\ LoadNext
          /\ bound' = bound - 1
          /\ UNCHANGED op
       \/ /\ complete \/ bound < 0
          /\ Return
          /\ UNCHANGED <<docs, complete, proc>>
    /\ UNCHANGED file

\* One iteration of the while loop of loadSome, or its exit.
LoadSomeStep ==
    /\ Running /\ op = "loadSome"
    /\ \/ /\ ~complete /\ bound > 0
          /\ LoadNext
          /\ bound' = bound - 1
          /\ UNCHANGED op
       \/ /\ complete \/ bound = 0
          /\ Return
          /\ UNCHANGED <<docs, complete, proc>>
    /\ UNCHANGED file

\* One iteration of the while loop of loadAll, or its exit.
LoadAllStep ==
    /\ Running /\ op = "loadAll"
    /\ \/ /\ LoadNext
          /\ UNCHANGED <<op, bound>>
       \/ /\ complete
          /\ Return
          /\ UNCHANGED <<docs, complete, proc>>
    /\ UNCHANGED file

(***************************************************************************)
(* One iteration of the while loop of _loadTo, or its exit.  _loadNext     *)
(* does nothing when the cache is complete, so the loop spins for ever if  *)
(* it is asked for a document past the end.                                *)
(***************************************************************************)
LoadToStep ==
    /\ Running /\ op = "loadTo"
    /\ \/ /\ bound >= Len(docs)
          /\ IF complete THEN UNCHANGED <<docs, complete, proc>> ELSE LoadNext
          /\ UNCHANGED <<op, bound>>
       \/ /\ bound < Len(docs)
          /\ Return
          /\ UNCHANGED <<docs, complete, proc>>
    /\ UNCHANGED file

Step == LoadSomeStep \/ LoadAllStep \/ LoadToStep

Next ==
    \/ LoadSomeCall
    \/ LoadAllCall
    \/ \E index \in 0 .. Len(docs) : LoadToCall(index)
    \/ Step

Spec == Init /\ [][Next]_vars

(***************************************************************************)
(* A call that was started runs to its end.  load_more is re-armed with    *)
(* tickit_watch_later, whose queue is emptied once per turn of the event   *)
(* loop: however many rendering calls come in between, it runs again.      *)
(***************************************************************************)
FairSpec == Spec /\ WF_vars(Step) /\ SF_vars(LoadSomeCall)

-----------------------------------------------------------------------------
(* Properties *)

TypeOK ==
    /\ file \in Files
    /\ docs \in Seq(Nat)
    /\ complete \in BOOLEAN
    /\ op \in {"idle", "loadSome", "loadAll", "loadTo"}
    /\ bound \in Nat
    /\ proc \in {"running", "exception", "fault"}

\* The chain of lengths reaches the end of the file.
ChainReachesEnd == file.off[NumChained + 1] >= file.len

\* Moreover every length word is inside the file: every document can be read.
WellFormed ==
    /\ ChainReachesEnd
    /\ \A i \in 1 .. NumChained : WordInFile(file.off[i])

(***************************************************************************)
(* The cache is a prefix of the file: document i of the cache is document  *)
(* i of the file, whatever mixture of loadSome, loadAll and operator[]     *)
(* calls filled it (_docs.push_back in init and _loadNext).                *)
(***************************************************************************)
DocsArePrefixOfFile ==
    /\ Len(docs) <= NumChained
    /\ \A i \in 1 .. Len(docs) : docs[i] = file.off[i]

(***************************************************************************)
(* isComplete() tells the truth: it is set only when every readable        *)
(* document is in the cache and the end of the file has been seen, and     *)
(* for two documents or more it is set as soon as that is so.  The views   *)
(* take a complete cache's numDocs() as the number of documents.           *)
(***************************************************************************)
CompleteIffAllSeen ==
    /\ complete => Len(docs) = NumChained /\ ChainReachesEnd
    /\ Len(docs) >= 2 /\ SizeOfFileSeen >= file.len => complete

(***************************************************************************)
(* A file of two or more documents whose length words are in the file and  *)
(* whose chain of lengths reaches its end never makes BSONObj throw or     *)
(* touch memory past the mapping: _loadNext compares with _end before the  *)
(* next hop.                                                               *)
(***************************************************************************)
WellFormedFileIsSafe == WellFormed /\ NumChained >= 2 => Running

(***************************************************************************)
(* "Construct a BSONObj from data in the proper format" (bsonobj.h): a     *)
(* BSONObj is only constructed on data of the file, so a well-formed file  *)
(* of any number of documents keeps the program running.                   *)
(***************************************************************************)
AnyWellFormedFileIsSafe == WellFormed => Running

(***************************************************************************)
(* Documents are addressed by index for the life of the program (marks,    *)
(* cursor, search results): loading never moves or drops a document and    *)
(* never un-completes the cache.                                           *)
(***************************************************************************)
LoadingOnlyExtends ==
    [][ /\ Len(docs') \in {Len(docs), Len(docs) + 1}
        /\ \A i \in 1 .. Len(docs) : docs'[i] = docs[i]
        /\ complete => UNCHANGED <<docs, complete>> ]_vars

\* load_more re-arms itself until isComplete(): the whole file is loaded, or
\* a length that is no document's length ends the program.
LoadingFinishes == <>[](complete \/ ~Running)

\* operator[] returns: _loadTo never spins on a complete cache.
LoadToReturns == op = "loadTo" ~> (op = "idle" \/ ~Running)

==============================================================================
