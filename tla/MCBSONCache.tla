---------------------------- MODULE MCBSONCache ----------------------------
(* Model-checking instance of BSONCache: every file of at most MaxBytes    *)
(* bytes and MaxChain chained documents of 1 .. MaxObjSize bytes, among    *)
(* them files that are no BSON at all, that break off at an invalid        *)
(* length, that end in the middle of a document or of its length word, and *)
(* with one document only.                                                 *)
EXTENDS BSONCache

CONSTANTS MaxBytes, MaxChain, MaxObjSize

\* The boundary chain of documents of the given sizes.
Offsets(sizes) ==
    LET end[i \in 0 .. Len(sizes)] == IF i = 0 THEN 0 ELSE end[i - 1] + sizes[i]
    IN  [i \in 1 .. Len(sizes) + 1 |-> end[i - 1]]

MCFiles ==
    { f \in { [off |-> Offsets(sizes), len |-> len] :
                sizes \in UNION { [1 .. n -> 1 .. MaxObjSize] : n \in 0 .. MaxChain },
                len \in 1 .. MaxBytes } : IsFile(f) }
=============================================================================
