-------------------------- MODULE ConversationAccess --------------------------
(***************************************************************************)
(* AssertMember of src/internal/platform/membership.go, for reads: the     *)
(* questions it asks the stores one after the other, and what entitles.    *)
(*                                                                         *)
(* A ground is what a question looks for: "free", no community among the   *)
(* contacts of the conversation; "clean", none in its document; "open", a  *)
(* conference that is not private; "row", a row that says the caller is a  *)
(* member, or has the contact; "listed", the caller among participant_ids. *)
(*                                                                         *)
(* "document" is the document and then a query of what sort the entities   *)
(* on it are.  What sort an id is of does not change once it is given out, *)
(* so whenever the query is made it answers for the document that was read.*)
(***************************************************************************)
Grounds   == {"free", "clean", "open", "row", "listed"}

\* What a conversation can be: no realm's, a realm's, a conference's, of the
\* page the caller is, or of a community.
Kinds     == {"direct", "realm", "conference", "own", "community"}

Questions == {"contacts", "document", "realm", "member", "participant"}

\* What follows where there is no row.
WithoutRow(kind) == IF kind = "direct" THEN "participant" ELSE "no"

\* The question that follows, or the answer, by the grounds there are now.
Asked(question, kind, has) ==
    CASE question = "contacts" ->
            IF kind = "community" \/ "free" \notin has THEN "no" ELSE "document"
      [] question = "document" ->
            IF "clean" \notin has THEN "no" ELSE "realm"
      [] question = "realm" ->
            IF kind = "own" \/ (kind = "conference" /\ "open" \in has)
            THEN "yes" ELSE "member"
      [] question = "member" ->
            IF "row" \in has THEN "yes" ELSE WithoutRow(kind)
      [] question = "participant" ->
            IF "listed" \in has THEN "yes" ELSE "no"

\* The sets of grounds that entitle to a conversation.
Enough(kind) ==
    LET own == CASE kind = "direct"     -> {{"row"}, {"listed"}}
                 [] kind = "realm"      -> {{"row"}}
                 [] kind = "conference" -> {{"row"}, {"open"}}
                 [] kind = "own"        -> {{}}
                 [] kind = "community"  -> {}
    IN  {{"free", "clean"} \cup grounds : grounds \in own}
=============================================================================
