------------------------------- MODULE Identity -------------------------------
(***************************************************************************)
(* HandlesFor of src/internal/platform/identity.go: one query over three   *)
(* tables, whose rows are read until one of them cannot be.                *)
(***************************************************************************)
CONSTANTS
    Entities,
    Nameless,       \* the entities in none of the three tables
    Slugless        \* the realms whose slug is NULL

IdentityAssumption ==
    /\ Nameless \subseteq Entities /\ Slugless \subseteq Entities \ Nameless

\* The handle of any of these: what a caller has to fall back for is the rest.
Handled == Entities \ (Nameless \cup Slugless)

\* Whose handle is found among the ids.  NULL does not scan into a string, and
\* the error is the whole query's.
HandlesFor(ids) == IF ids \cap Slugless = {} THEN ids \cap Handled ELSE {}
=============================================================================
