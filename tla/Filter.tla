-------------------------------- MODULE Filter --------------------------------
(***************************************************************************)
(* The loop that appends to a slice what passes a test, as a function: the *)
(* prover takes SelectSeq and SortSeq for primitives and knows nothing of  *)
(* them.                                                                   *)
(***************************************************************************)
EXTENDS Integers, Sequences, FiniteSets, Functions

\* The elements of s that are among these, in their order.
Only(s, these) ==
    LET only[i \in 0 .. Len(s)] ==
            IF i = 0 THEN <<>>
            ELSE IF s[i] \in these THEN Append(only[i - 1], s[i]) ELSE only[i - 1]
    IN  only[Len(s)]

\* The sequences that have all the elements of a set, each once.
Orders(U) == Injection(1 .. Cardinality(U), U)

\* A set of numbers in ascending order: the one sequence there is.
Ascending(ns) == {s \in Orders(ns) : \A i, j \in DOMAIN s : i < j => s[i] < s[j]}

\* And in descending order.
Descending(ns) == {s \in Orders(ns) : \A i, j \in DOMAIN s : i < j => s[j] < s[i]}
=============================================================================
