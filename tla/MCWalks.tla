------------------------------- MODULE MCWalks -------------------------------
(***************************************************************************)
(* An instance of Walks.                                                   *)
(***************************************************************************)
EXTENDS Walks

\* Chains of replies that end, or run back into themselves.
Chains ==
    {[m \in Ids |-> IF m = Cardinality(Ids) THEN last ELSE m + 1] :
        last \in Ids \cup {None}}
Reads == {Ids, Ids \ {1}, Ids \ {2, 3}}

\* Every new year from year 1 to 2101, and tick by tick the years around each
\* case of the leap-year rule and around the Unix epoch.
TickedYearsValue == {1, 4, 1600, 1899, 1900, 1969, 1970, 1999, 2000, 2024, 2100}

\* Texts about somebody, where a no-break space is the character that has no
\* part in a handle and ends none, and texts with tags.
AlphabetsValue == {{"@", "space", ".", "!", "a", "nbsp"}, {"<", ">", "/", "a"}}
=============================================================================
