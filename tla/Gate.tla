-------------------------------- MODULE Gate --------------------------------
(***************************************************************************)
(* The way to a handler: Middleware and RequireScope of                    *)
(* src/internal/auth/middleware.go with Verify, TouchLastUsed and          *)
(* Authorize of token.go, for the requests that present one credential at  *)
(* any number of replicas.  The rate limit is one step with three          *)
(* outcomes; RateLimit has its inside.                                     *)
(*                                                                         *)
(* The token's row and its owner's permission rows are another service's,  *)
(* and edited between any two steps.  The clock counts seconds, and is     *)
(* Postgres's as well as the replicas'.                                    *)
(***************************************************************************)
EXTENDS Integers

CONSTANTS
    Requests,
    Presents,       \* what each of them presents
    Gated,          \* the requests to a route behind RequireScope
    Rows,           \* the values of the token's row
    Permissions,    \* and of what is stored of the owner's permission
    Never,          \* a NULL timestamp
    TouchInterval,  \* 60 seconds
    MaxTime         \* bound on the clock

Credentials == {"garbage", "unknown", "forged", "token"}

RowType ==
    [active : BOOLEAN, revoked : BOOLEAN, expires : Nat \cup {Never},
     community : BOOLEAN, scopes : {"with", "without", "unreadable"}]

EffectType == [effect : {"grant", "deny"}, expires : Nat \cup {Never}]

ASSUME RequestAssumption ==
    Presents \in [Requests -> Credentials] /\ Gated \subseteq Requests
ASSUME RowAssumption == Rows \subseteq RowType
ASSUME PermissionAssumption ==
    Permissions \subseteq [catalogued : BOOLEAN, effects : SUBSET EffectType]
ASSUME TimeAssumption ==
    Never \notin Int /\ TouchInterval \in Nat /\ MaxTime \in Nat

VARIABLES
    clock,
    row,        \* the token's row, but for last_used_at
    permission, \* the catalog's entry and the owner's rows for it
    lastUsed,   \* last_used_at
    pc,         \* where each request is, or its status
    scoped,     \* did Verify find the scope on each request's token?
    stamp,      \* the NOW() of each request's touch
    ever,       \* history: what held at some moment of each request so far
    always      \* history: what held at all of them

stores  == <<clock, row, permission>>
history == <<ever, always>>
vars    == <<stores, lastUsed, pc, scoped, stamp, history>>

Statuses == {"401", "403", "429", "500", "503"}
Stages   == {"verify", "touch", "touching", "limit", "scope"}

Unexpired(x, now) == x.expires = Never \/ x.expires > now

(***************************************************************************)
(* What Verify and hasExplicitGrant ask of the stores.                     *)
(***************************************************************************)
\* Mutant: an expiry that is checked only when nothing else revokes the token.
LiveUnlessRevoked(w, now) == ~w.community /\ w.active /\ ~w.revoked

Live(w, now) ==
    ~w.community /\ w.active /\ ~w.revoked /\ Unexpired(w, now)

\* An unexpired deny wins over everything, then an unexpired grant, then no.
hasExplicitGrant(p, now) ==
    LET current == {e.effect : e \in {f \in p.effects : Unexpired(f, now)}}
    IN  p.catalogued /\ "deny" \notin current /\ "grant" \in current

(***************************************************************************)
(* The facts that entitle a request, at one moment.  They are spelled out  *)
(* here a second time, for the code above to be held against.              *)
(***************************************************************************)
TokenIsGood(w, now) ==
    /\ w.active /\ ~w.revoked /\ ~w.community
    /\ w.expires # Never => now < w.expires
    /\ w.scopes # "unreadable"

OwnerIsGranted(p, now) ==
    /\ p.catalogued
    /\ \E e \in p.effects : e.effect = "grant" /\ Unexpired(e, now)
    /\ \A e \in p.effects : e.effect = "deny" => ~Unexpired(e, now)

ScopeIsOn(w, now) == TokenIsGood(w, now) /\ w.scopes = "with"

FactNames == {"good", "scoped", "granted", "both"}

Facts(w, p, now) ==
    {f \in FactNames :
        /\ f = "good" => TokenIsGood(w, now)
        /\ f \in {"scoped", "both"} => ScopeIsOn(w, now)
        /\ f \in {"granted", "both"} => OwnerIsGranted(p, now)}

Init ==
    /\ clock = 0
    /\ row \in Rows
    /\ permission \in Permissions
    /\ lastUsed = Never
    /\ pc = [r \in Requests |-> "idle"]
    /\ scoped = [r \in Requests |-> FALSE]
    /\ stamp = [r \in Requests |-> 0]
    /\ ever = [r \in Requests |-> {}]
    /\ always = [r \in Requests |-> {}]

Goto(r, from, to) == pc[r] = from /\ pc' = [pc EXCEPT ![r] = to]

\* A request comes in.  A header or a token that does not parse costs no query.
Arrive(r) ==
    LET facts == Facts(row, permission, clock)
    IN  /\ Goto(r, "idle", IF Presents[r] = "garbage" THEN "401" ELSE "verify")
        /\ ever' = [ever EXCEPT ![r] = facts]
        /\ always' = [always EXCEPT ![r] = facts]
        /\ UNCHANGED <<stores, lastUsed, scoped, stamp>>

\* Verify reads the row, the scopes with it.
Verify(r) ==
    /\ Goto(r, "verify",
            IF /\ Presents[r] = "token"
               /\ Live(row, clock)
               /\ row.scopes # "unreadable"
            THEN "touch" ELSE "401")
    /\ scoped' = [scoped EXCEPT ![r] = row.scopes = "with"]
    /\ UNCHANGED <<stores, lastUsed, stamp, history>>

\* Mutant: whatever the error is, the token is to blame.
Blamed(r) ==
    /\ Goto(r, "verify", "401")
    /\ UNCHANGED <<stores, lastUsed, scoped, stamp, history>>

VerifyFails(r) ==
    /\ Goto(r, "verify", "503")
    /\ UNCHANGED <<stores, lastUsed, scoped, stamp, history>>

\* TouchLastUsed: NOW() is when the statement starts, its condition is judged
\* when it has the row, and its failure is nobody's business.
TouchStarts(r) ==
    /\ Goto(r, "touch", "touching")
    /\ stamp' = [stamp EXCEPT ![r] = clock]
    /\ UNCHANGED <<stores, lastUsed, scoped, history>>

\* Mutant: `<` the wrong way round.
ThrottleReversed(r) ==
    lastUsed' = IF lastUsed = Never \/ stamp[r] - TouchInterval < lastUsed
                THEN stamp[r] ELSE lastUsed

Touched(r) ==
    lastUsed' = IF lastUsed = Never \/ lastUsed < stamp[r] - TouchInterval
                THEN stamp[r] ELSE lastUsed

TouchLastUsed(r) ==
    /\ Goto(r, "touching", "limit")
    /\ Touched(r)
    /\ UNCHANGED <<stores, scoped, stamp, history>>

\* stamp is history from here on: -1 for a touch that may not have happened.
TouchFails(r) ==
    /\ Goto(r, "touching", "limit")
    /\ Touched(r) \/ UNCHANGED lastUsed
    /\ stamp' = [stamp EXCEPT ![r] = -1]
    /\ UNCHANGED <<stores, scoped, history>>

\* CheckRateLimit: allowed, denied, or not answered.
CheckRateLimit(r) ==
    /\ \/ Goto(r, "limit", IF r \in Gated THEN "scope" ELSE "served")
       \/ Goto(r, "limit", "429")
       \/ Goto(r, "limit", "503")
    /\ UNCHANGED <<stores, lastUsed, scoped, stamp, history>>

\* The scope as Verify found it, the grant as it is now.
Authorize(r) ==
    /\ Goto(r, "scope",
            IF scoped[r] /\ hasExplicitGrant(permission, clock)
            THEN "served" ELSE "403")
    /\ UNCHANGED <<stores, lastUsed, scoped, stamp, history>>

AuthorizeFails(r) ==
    /\ scoped[r]
    /\ Goto(r, "scope", "500")
    /\ UNCHANGED <<stores, lastUsed, scoped, stamp, history>>

(***************************************************************************)
(* The stores change, and every request on its way is witness to it.       *)
(***************************************************************************)
Witnessed(w, p, now) ==
    LET facts == Facts(w, p, now)
    IN  /\ ever' = [r \in Requests |->
              IF pc[r] \in Stages THEN ever[r] \cup facts ELSE ever[r]]
        /\ always' = [r \in Requests |->
              IF pc[r] \in Stages THEN always[r] \cap facts ELSE always[r]]

EditRow ==
    /\ row' \in Rows \ {row}
    /\ Witnessed(row', permission, clock)
    /\ UNCHANGED <<clock, permission, lastUsed, pc, scoped, stamp>>

EditPermission ==
    /\ permission' \in Permissions \ {permission}
    /\ Witnessed(row, permission', clock)
    /\ UNCHANGED <<clock, row, lastUsed, pc, scoped, stamp>>

Tick ==
    /\ clock < MaxTime
    /\ clock' = clock + 1
    /\ Witnessed(row, permission, clock + 1)
    /\ UNCHANGED <<row, permission, lastUsed, pc, scoped, stamp>>

Next ==
    \/ \E r \in Requests :
          \/ Arrive(r)
          \/ Verify(r)
          \/ VerifyFails(r)
          \/ TouchStarts(r)
          \/ TouchLastUsed(r)
          \/ TouchFails(r)
          \/ CheckRateLimit(r)
          \/ Authorize(r)
          \/ AuthorizeFails(r)
    \/ EditRow
    \/ EditPermission
    \/ Tick

Spec == Init /\ [][Next]_vars
-----------------------------------------------------------------------------
\* The type invariant; a touch never comes from the future.
TypeOK ==
    /\ clock \in Nat
    /\ row \in Rows
    /\ permission \in Permissions
    /\ lastUsed \in (0 .. clock) \cup {Never}
    /\ pc \in [Requests -> {"idle", "served"} \cup Stages \cup Statuses]
    /\ scoped \in [Requests -> BOOLEAN]
    /\ stamp \in [Requests -> Int]
    /\ \A r \in Requests :
          /\ -1 <= stamp[r] /\ stamp[r] <= clock
          /\ pc[r] = "touching" => stamp[r] >= 0
    /\ ever \in [Requests -> SUBSET FactNames]
    /\ always \in [Requests -> SUBSET FactNames]

\* Nothing is served that was not due at some moment of the request: the
\* token good, and behind RequireScope its scope and the owner's grant, each
\* at a moment of its own.  In particular nothing that arrives after a
\* revocation is served.
ServedWasDue ==
    \A r \in Requests : pc[r] = "served" =>
        /\ Presents[r] = "token"
        /\ "good" \in ever[r]
        /\ r \in Gated => {"scoped", "granted"} \subseteq ever[r]

\* Nobody is sent away with a 401 or a 403 whose credential and permissions
\* were in order throughout, whatever else goes on: trouble with a store is a
\* 503 or a 500, and never told as the credential's fault.
RefusalIsEarned ==
    \A r \in Requests :
        /\ pc[r] = "401" /\ Presents[r] = "token" => "good" \notin always[r]
        /\ pc[r] = "403" => ~({"scoped", "granted"} \subseteq always[r])

\* last_used_at moves forward only, by more than the interval, however many
\* replicas touch it and however late their statements get to the row.
TouchesAreSpaced ==
    [][lastUsed' # lastUsed /\ lastUsed # Never
         => lastUsed' > lastUsed + TouchInterval]_vars

\* And still answers "is this credential in use": no verified request whose
\* touch went through is more than the interval later than last_used_at says.
UseIsRemembered ==
    \A r \in Requests :
        /\ pc[r] \in {"limit", "scope", "served", "403", "429", "500"}
        /\ stamp[r] >= 0
        => lastUsed # Never /\ stamp[r] - TouchInterval <= lastUsed

(***************************************************************************)
(* What a comment or a document says, and the code does not keep.          *)
(***************************************************************************)
\* "A request is allowed only when both hold": at one and the same moment.
ServedWhileBothHeld ==
    \A r \in Requests : pc[r] = "served" /\ r \in Gated => "both" \in ever[r]
=============================================================================
