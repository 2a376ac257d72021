------------------------------ MODULE RealmName ------------------------------
(***************************************************************************)
(* RealmName of src/internal/platform/membership.go: the name of a realm,  *)
(* and before it its parent's, and that one's, each read by a statement of *)
(* its own while others move realms under other parents.  That the parents *)
(* make no circle is for those who write them to keep.                     *)
(***************************************************************************)
EXTENDS Naturals, Sequences, Relation

CONSTANTS
    Realms, Asked,
    None,           \* no parent, or no row
    MaxChanges      \* bound on what others write

RealmNameAssumption ==
    /\ Asked \in Realms /\ None \notin Realms /\ MaxChanges \in Nat

VARIABLES
    parent,         \* of each realm that has a row
    next,           \* the realm to be read, or None at the end
    name,           \* the realms whose names are joined by " | "
    over,           \* a statement has failed, or found no row
    read,           \* history: the parent each of them had when it was read
    changes

vars == <<parent, next, name, over, read, changes>>

Parents == UNION {[rows -> Realms \cup {None}] : rows \in SUBSET Realms}

\* Nobody is above itself.
Rooted(of) ==
    LET up == [r, s \in Realms |-> r \in DOMAIN of /\ of[r] = s]
    IN  IsIrreflexive(TransitiveClosure(up, Realms), Realms)

Init ==
    /\ parent \in {of \in Parents : Rooted(of) /\ Asked \in DOMAIN of}
    /\ next = Asked /\ name = <<>> /\ over = FALSE
    /\ read = <<>> /\ changes = 0

\* One call: the row is read, and RealmName is called for the parent.
Ask ==
    /\ next \in DOMAIN parent
    /\ name' = <<next>> \o name
    /\ read' = <<parent[next]>> \o read
    /\ next' = parent[next]
    /\ UNCHANGED <<parent, over, changes>>

\* A name that could not be read is left out, and what would be above it.
Stop ==
    /\ next # None
    /\ next' = None /\ over' = TRUE
    /\ UNCHANGED <<parent, name, read, changes>>

NoRow == next \notin DOMAIN parent /\ Stop
Fails == next \in DOMAIN parent /\ Stop

\* Others move a realm, or delete it.
Reparent ==
    /\ next # None
    /\ changes < MaxChanges /\ changes' = changes + 1
    /\ parent' \in {of \in Parents : Rooted(of)} \ {parent}
    /\ \E r \in Realms : \A s \in Realms \ {r} :
          /\ s \in DOMAIN parent <=> s \in DOMAIN parent'
          /\ s \in DOMAIN parent => parent'[s] = parent[s]
    /\ UNCHANGED <<next, name, over, read>>

Next == Ask \/ NoRow \/ Fails \/ Reparent

Spec == Init /\ [][Next]_vars
-----------------------------------------------------------------------------
\* The type invariant.
TypeOK ==
    /\ parent \in Parents /\ Rooted(parent)
    /\ next \in Realms \cup {None}
    /\ name \in Seq(Realms) /\ read \in Seq(Realms \cup {None})
    /\ over \in BOOLEAN /\ changes \in 0 .. MaxChanges

\* The platform's "Server | Channel": from the left to the right each realm was
\* the parent of the next when that was read, the last is the one asked for,
\* and the first had no parent unless the walk was cut short.
ParentsFirst ==
    next = None /\ name # <<>> =>
        /\ name[Len(name)] = Asked
        /\ \A i \in 2 .. Len(name) : read[i] = name[i - 1]
        /\ over \/ read[1] = None
=============================================================================
