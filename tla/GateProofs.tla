----------------------------- MODULE GateProofs -----------------------------
(***************************************************************************)
(* Proofs about Gate, for any set of requests, whatever they present, and  *)
(* any rows and permissions the stores may hold.                           *)
(***************************************************************************)
EXTENDS Gate, TLAPS

(***************************************************************************)
(* The code's checks find what entitles a request, and nothing else.       *)
(***************************************************************************)
\* What Verify finds out about a row is that its token is good.
LEMMA LiveIsGood ==
    ASSUME NEW w \in RowType, NEW now \in Nat
    PROVE  Live(w, now) /\ w.scopes # "unreadable" <=> TokenIsGood(w, now)
  BY TimeAssumption DEF RowType, Live, TokenIsGood, Unexpired

\* And what hasExplicitGrant finds out is that the owner is granted.
LEMMA GrantIsGranted ==
    ASSUME NEW p, NEW now
    PROVE  p \in [catalogued : BOOLEAN, effects : SUBSET EffectType]
             => (hasExplicitGrant(p, now) <=> OwnerIsGranted(p, now))
  <1>1. \A x : x \in {e.effect : e \in {f \in p.effects : Unexpired(f, now)}}
                 <=> \E e \in p.effects : Unexpired(e, now) /\ x = e.effect
    OBVIOUS
  <1> QED  BY <1>1 DEF hasExplicitGrant, OwnerIsGranted

\* The facts by name.
LEMMA FactsByName ==
    ASSUME NEW w, NEW p, NEW now
    PROVE  /\ Facts(w, p, now) \subseteq FactNames
           /\ "good" \in Facts(w, p, now) <=> TokenIsGood(w, now)
           /\ "scoped" \in Facts(w, p, now) <=> ScopeIsOn(w, now)
           /\ "granted" \in Facts(w, p, now) <=> OwnerIsGranted(p, now)
  BY DEF Facts, FactNames

(***************************************************************************)
(* TypeOK.                                                                 *)
(***************************************************************************)
\* The states a request may be in.
PCs == {"idle", "served"} \cup Stages \cup Statuses

LEMMA StoresTyped ==
    ASSUME TypeOK
    PROVE  /\ row \in RowType
           /\ permission \in [catalogued : BOOLEAN, effects : SUBSET EffectType]
           /\ clock \in Nat
           /\ Facts(row, permission, clock) \subseteq FactNames
  BY RowAssumption, PermissionAssumption, FactsByName DEF TypeOK

\* The clock is a counter, and every touch carries a time it has had: no
\* interleaving of requests puts last_used_at into the future.
THEOREM TypeCorrect == Spec => []TypeOK
<1>1. Init => TypeOK
  <2> SUFFICES ASSUME Init PROVE TypeOK  OBVIOUS
  <2> QED  BY DEF Init, TypeOK, FactNames
<1>2. TypeOK /\ [Next]_vars => TypeOK'
  <2> SUFFICES ASSUME TypeOK, [Next]_vars PROVE TypeOK'  OBVIOUS
  <2> USE DEF vars, stores, history
  <2>1. ASSUME NEW r \in Requests, Arrive(r) PROVE TypeOK'
    BY <2>1, StoresTyped DEF Arrive, Goto, TypeOK, Stages, Statuses
  <2>2. ASSUME NEW r \in Requests, Verify(r) \/ VerifyFails(r) PROVE TypeOK'
    <3>1. pc' \in [Requests -> PCs]
      BY <2>2 DEF Verify, VerifyFails, Goto, TypeOK, PCs, Stages, Statuses
    <3>2. scoped' \in [Requests -> BOOLEAN]
      BY <2>2 DEF Verify, VerifyFails, TypeOK
    <3>3. \A q \in Requests : pc'[q] = "touching" => pc[q] = "touching"
      BY <2>2 DEF Verify, VerifyFails, Goto, TypeOK
    <3> QED  BY <2>2, <3>1, <3>2, <3>3 DEF Verify, VerifyFails, TypeOK, PCs
  <2>3. ASSUME NEW r \in Requests, TouchStarts(r) PROVE TypeOK'
    BY <2>3 DEF TouchStarts, Goto, TypeOK, Stages, Statuses
  <2>4. ASSUME NEW r \in Requests, TouchLastUsed(r) \/ TouchFails(r)
        PROVE  TypeOK'
    <3>1. ASSUME pc[r] = "touching", Touched(r) \/ UNCHANGED lastUsed,
                 UNCHANGED clock
          PROVE  lastUsed' \in (0 .. clock') \cup {Never}
      BY <3>1, TimeAssumption DEF Touched, TypeOK
    <3> QED  BY <2>4, <3>1 DEF TouchLastUsed, TouchFails, Goto, TypeOK, Stages, Statuses
  <2>5. ASSUME NEW r \in Requests,
               CheckRateLimit(r) \/ Authorize(r) \/ AuthorizeFails(r)
        PROVE  TypeOK'
    <3>1. pc' \in [Requests -> PCs]
      BY <2>5 DEF CheckRateLimit, Authorize, AuthorizeFails, Goto, TypeOK, PCs,
                  Stages, Statuses
    <3>2. \A q \in Requests : pc'[q] = "touching" => pc[q] = "touching"
      BY <2>5 DEF CheckRateLimit, Authorize, AuthorizeFails, Goto, TypeOK
    <3> QED  BY <2>5, <3>1, <3>2 DEF CheckRateLimit, Authorize, AuthorizeFails,
                                     TypeOK, PCs
  <2>6. CASE EditRow \/ EditPermission \/ Tick
    <3>1. /\ clock' \in Nat /\ clock <= clock'
          /\ row' \in Rows /\ permission' \in Permissions
      BY <2>6 DEF EditRow, EditPermission, Tick, TypeOK
    <3>2. Witnessed(row', permission', clock')
      BY <2>6 DEF EditRow, EditPermission, Tick
    <3>3. /\ ever' \in [Requests -> SUBSET FactNames]
          /\ always' \in [Requests -> SUBSET FactNames]
      BY <3>2, FactsByName DEF Witnessed, TypeOK
    <3> QED  BY <2>6, <3>1, <3>3 DEF EditRow, EditPermission, Tick, TypeOK
  <2>7. CASE UNCHANGED vars
    BY <2>7 DEF TypeOK
  <2> QED  BY <2>1, <2>2, <2>3, <2>4, <2>5, <2>6, <2>7 DEF Next
<1> QED  BY <1>1, <1>2, PTL DEF Spec
-----------------------------------------------------------------------------
(***************************************************************************)
(* TouchesAreSpaced and UseIsRemembered.                                   *)
(***************************************************************************)
\* What becomes of last_used_at in any step.
LEMMA TouchMovesForward ==
    ASSUME TypeOK, [Next]_vars, lastUsed' # lastUsed
    PROVE  \E r \in Requests :
              /\ pc[r] = "touching"
              /\ lastUsed' = stamp[r]
              /\ lastUsed = Never \/ lastUsed < stamp[r] - TouchInterval
<1> USE DEF vars, stores, history
<1>1. \E r \in Requests : TouchLastUsed(r) \/ TouchFails(r)
  BY DEF Next, Arrive, Verify, VerifyFails, TouchStarts, CheckRateLimit,
         Authorize, AuthorizeFails, EditRow, EditPermission, Tick
<1> QED  BY <1>1 DEF TouchLastUsed, TouchFails, Touched, Goto

\* However many replicas touch a token's row at once and however late their
\* statements get to it, last_used_at only moves forward, and by more than
\* the interval.
THEOREM TouchesAreSpacedHolds == Spec => TouchesAreSpaced
<1>1. TypeOK /\ [Next]_vars
        => [lastUsed' # lastUsed /\ lastUsed # Never
              => lastUsed' > lastUsed + TouchInterval]_vars
  <2> SUFFICES ASSUME TypeOK, [Next]_vars,
                      lastUsed' # lastUsed, lastUsed # Never
               PROVE  lastUsed' > lastUsed + TouchInterval
    OBVIOUS
  <2>1. PICK r \in Requests :
          lastUsed' = stamp[r] /\ lastUsed < stamp[r] - TouchInterval
    BY TouchMovesForward
  <2> QED  BY <2>1, TimeAssumption DEF TypeOK
<1> QED  BY <1>1, TypeCorrect, PTL DEF Spec, TouchesAreSpaced

\* The token whose use is a request's past is remembered as used, to within
\* the interval, from the end of its touch on.
THEOREM UseIsRememberedHolds == Spec => []UseIsRemembered
<1>1. Init => UseIsRemembered
  BY DEF Init, UseIsRemembered
<1>2. TypeOK /\ TypeOK' /\ UseIsRemembered /\ [Next]_vars => UseIsRemembered'
  <2> SUFFICES ASSUME TypeOK, TypeOK', UseIsRemembered, [Next]_vars,
                      NEW q \in Requests,
                      pc'[q] \in {"limit", "scope", "served", "403", "429", "500"},
                      stamp'[q] >= 0
               PROVE  lastUsed' # Never /\ stamp'[q] - TouchInterval <= lastUsed'
    BY DEF UseIsRemembered
  <2> USE DEF vars, stores, history
  <2>1. CASE /\ pc[q] \in {"limit", "scope", "served", "403", "429", "500"}
             /\ stamp'[q] = stamp[q]
    <3>1. lastUsed # Never /\ stamp[q] - TouchInterval <= lastUsed
      BY <2>1 DEF UseIsRemembered
    <3>2. CASE lastUsed' = lastUsed
      BY <2>1, <3>1, <3>2
    <3>3. CASE lastUsed' # lastUsed
      <4>1. PICK r \in Requests :
              lastUsed' = stamp[r] /\ lastUsed < stamp[r] - TouchInterval
        BY <3>1, <3>3, TouchMovesForward
      <4> QED  BY <2>1, <3>1, <4>1, TimeAssumption DEF TypeOK
    <3> QED  BY <3>2, <3>3
  <2>2. CASE TouchLastUsed(q)
    <3>1. stamp'[q] = stamp[q] /\ stamp[q] \in Int /\ stamp[q] >= 0
      BY <2>2 DEF TouchLastUsed, Goto, TypeOK
    <3>2. lastUsed = Never \/ lastUsed < stamp[q] - TouchInterval
            => lastUsed' = stamp[q]
      BY <2>2 DEF TouchLastUsed, Touched
    <3> QED  BY <2>2, <3>1, <3>2, TimeAssumption DEF TouchLastUsed, Touched, TypeOK
  <2>3. CASE TouchFails(q)
    BY <2>3 DEF TouchFails, TypeOK
  <2>4. \/ /\ pc[q] \in {"limit", "scope", "served", "403", "429", "500"}
           /\ stamp'[q] = stamp[q]
        \/ TouchLastUsed(q) \/ TouchFails(q)
    <3>1. ASSUME NEW r \in Requests, Arrive(r) \/ Verify(r) \/ VerifyFails(r)
          PROVE  stamp' = stamp /\ pc'[q] = pc[q]
      BY <3>1 DEF Arrive, Verify, VerifyFails, Goto, TypeOK
    <3>2. ASSUME NEW r \in Requests, TouchStarts(r)
          PROVE  r # q /\ stamp'[q] = stamp[q] /\ pc'[q] = pc[q]
      BY <3>2 DEF TouchStarts, Goto, TypeOK
    <3>3. ASSUME NEW r \in Requests, TouchLastUsed(r) \/ TouchFails(r), r # q
          PROVE  stamp'[q] = stamp[q] /\ pc'[q] = pc[q]
      BY <3>3 DEF TouchLastUsed, TouchFails, Goto, TypeOK
    <3>4. ASSUME NEW r \in Requests,
                 CheckRateLimit(r) \/ Authorize(r) \/ AuthorizeFails(r)
          PROVE  /\ stamp' = stamp
                 /\ pc'[q] = pc[q] \/ pc[q] \in {"limit", "scope"}
      BY <3>4 DEF CheckRateLimit, Authorize, AuthorizeFails, Goto, TypeOK
    <3>5. CASE EditRow \/ EditPermission \/ Tick \/ UNCHANGED vars
      BY <3>5 DEF EditRow, EditPermission, Tick
    <3> QED  BY <3>1, <3>2, <3>3, <3>4, <3>5 DEF Next
  <2> QED  BY <2>1, <2>2, <2>3, <2>4
<1> QED  BY <1>1, <1>2, TypeCorrect, PTL DEF Spec
-----------------------------------------------------------------------------
(***************************************************************************)
(* ServedWasDue and RefusalIsEarned.  What a request's steps have found is *)
(* in its history, and the present belongs to the history of every request *)
(* that is on its way.                                                     *)
(***************************************************************************)
Judged == {"touch", "touching", "limit", "scope", "served"}

PresentIsWitnessed(r) ==
    pc[r] \in Stages =>
        /\ Facts(row, permission, clock) \subseteq ever[r]
        /\ always[r] \subseteq Facts(row, permission, clock)

FindingsAreDue(r) ==
    pc[r] \in Judged =>
        /\ Presents[r] = "token" /\ "good" \in ever[r]
        /\ scoped[r] => "scoped" \in ever[r]
        /\ ~scoped[r] => "scoped" \notin always[r]

AnswersAreDue(r) ==
    /\ pc[r] = "served" /\ r \in Gated =>
          "scoped" \in ever[r] /\ "granted" \in ever[r]
    /\ pc[r] = "401" /\ Presents[r] = "token" => "good" \notin always[r]
    /\ pc[r] = "403" => "scoped" \notin always[r] \/ "granted" \notin always[r]

DueInv ==
    \A r \in Requests : PresentIsWitnessed(r) /\ FindingsAreDue(r) /\ AnswersAreDue(r)

LEMMA DueInvHolds == Spec => []DueInv
<1>1. Init => DueInv
  BY DEF Init, DueInv, PresentIsWitnessed, FindingsAreDue, AnswersAreDue, Stages, Judged
<1>2. TypeOK /\ DueInv /\ [Next]_vars => DueInv'
  <2> SUFFICES ASSUME TypeOK, DueInv, [Next]_vars, NEW q \in Requests
               PROVE  (PresentIsWitnessed(q) /\ FindingsAreDue(q) /\ AnswersAreDue(q))'
    BY DEF DueInv
  <2> USE DEF vars, stores, history
  <2>0. PresentIsWitnessed(q) /\ FindingsAreDue(q) /\ AnswersAreDue(q)
    BY DEF DueInv
  <2>2. CASE Arrive(q)
    <3>1. /\ ever'[q] = Facts(row, permission, clock)
          /\ always'[q] = Facts(row, permission, clock)
          /\ pc'[q] = IF Presents[q] = "garbage" THEN "401" ELSE "verify"
          /\ UNCHANGED stores
      BY <2>2 DEF Arrive, Goto, TypeOK
    <3> QED  BY <3>1 DEF PresentIsWitnessed, FindingsAreDue, AnswersAreDue, Judged
  <2>3. CASE Verify(q)
    <3>1. /\ pc[q] = "verify" /\ scoped'[q] = (row.scopes = "with")
          /\ UNCHANGED <<stores, history>>
          /\ pc'[q] = IF /\ Presents[q] = "token"
                         /\ Live(row, clock)
                         /\ row.scopes # "unreadable"
                      THEN "touch" ELSE "401"
      BY <2>3 DEF Verify, Goto, TypeOK
    <3>2. Live(row, clock) /\ row.scopes # "unreadable" <=> TokenIsGood(row, clock)
      BY LiveIsGood, StoresTyped
    <3>3. /\ Facts(row, permission, clock) \subseteq ever[q]
          /\ always[q] \subseteq Facts(row, permission, clock)
      BY <2>0, <3>1 DEF PresentIsWitnessed, Stages
    <3>4. CASE pc'[q] = "401"
      <4>1. Presents[q] = "token" => "good" \notin always[q]
        BY <3>1, <3>2, <3>3, <3>4, FactsByName
      <4> QED  BY <3>1, <3>4, <4>1
               DEF PresentIsWitnessed, FindingsAreDue, AnswersAreDue, Stages, Judged
    <3>5. CASE pc'[q] = "touch"
      <4>1. Presents[q] = "token" /\ "good" \in ever[q]
        BY <3>1, <3>2, <3>3, <3>5, FactsByName
      <4>2. scoped'[q] => "scoped" \in ever[q]
        BY <3>1, <3>2, <3>3, <3>5, FactsByName DEF ScopeIsOn
      <4>3. ~scoped'[q] => "scoped" \notin always[q]
        BY <3>1, <3>3, FactsByName DEF ScopeIsOn
      <4> QED  BY <3>1, <3>3, <3>5, <4>1, <4>2, <4>3
               DEF PresentIsWitnessed, FindingsAreDue, AnswersAreDue
    <3> QED  BY <3>1, <3>4, <3>5
  <2>4. CASE VerifyFails(q)
    <3>1. pc'[q] = "503"
      BY <2>4 DEF VerifyFails, Goto, TypeOK
    <3> QED  BY <3>1 DEF PresentIsWitnessed, FindingsAreDue, AnswersAreDue, Stages, Judged
  <2>5. CASE TouchStarts(q) \/ TouchLastUsed(q) \/ TouchFails(q)
    <3>1. /\ pc[q] \in Stages \cap Judged /\ pc'[q] \in {"touching", "limit"}
          /\ scoped' = scoped /\ UNCHANGED <<stores, history>>
      BY <2>5 DEF TouchStarts, TouchLastUsed, TouchFails, Goto, TypeOK, Stages, Judged
    <3> QED  BY <2>0, <3>1 DEF PresentIsWitnessed, FindingsAreDue, AnswersAreDue
  <2>6. CASE CheckRateLimit(q)
    <3>1. /\ pc[q] = "limit" /\ scoped' = scoped /\ UNCHANGED <<stores, history>>
          /\ \/ pc'[q] = "scope" \/ pc'[q] = "429" \/ pc'[q] = "503"
             \/ pc'[q] = "served" /\ q \notin Gated
      BY <2>6 DEF CheckRateLimit, Goto, TypeOK
    <3> QED  BY <2>0, <3>1
             DEF PresentIsWitnessed, FindingsAreDue, AnswersAreDue, Stages, Judged
  <2>7. CASE Authorize(q)
    <3>1. /\ pc[q] = "scope" /\ scoped' = scoped /\ UNCHANGED <<stores, history>>
          /\ pc'[q] = IF scoped[q] /\ hasExplicitGrant(permission, clock)
                      THEN "served" ELSE "403"
      BY <2>7 DEF Authorize, Goto, TypeOK
    <3>2. hasExplicitGrant(permission, clock) <=> OwnerIsGranted(permission, clock)
      BY GrantIsGranted, StoresTyped
    <3>3. /\ Facts(row, permission, clock) \subseteq ever[q]
          /\ always[q] \subseteq Facts(row, permission, clock)
          /\ Presents[q] = "token" /\ "good" \in ever[q]
          /\ scoped[q] => "scoped" \in ever[q]
          /\ ~scoped[q] => "scoped" \notin always[q]
      BY <2>0, <3>1 DEF PresentIsWitnessed, FindingsAreDue, Stages, Judged
    <3>4. CASE pc'[q] = "served"
      <4>1. scoped[q] /\ "granted" \in ever[q]
        BY <3>1, <3>2, <3>3, <3>4, FactsByName
      <4>2. "scoped" \in ever[q]
        BY <3>3, <4>1
      <4> QED  BY <3>1, <3>3, <3>4, <4>1, <4>2
               DEF PresentIsWitnessed, FindingsAreDue, AnswersAreDue, Stages
    <3>5. CASE pc'[q] = "403"
      <4>1. "scoped" \notin always[q] \/ "granted" \notin always[q]
        BY <3>1, <3>2, <3>3, <3>5, FactsByName
      <4> QED  BY <3>1, <3>5, <4>1
               DEF PresentIsWitnessed, FindingsAreDue, AnswersAreDue, Stages, Judged
    <3> QED  BY <3>1, <3>4, <3>5
  <2>8. CASE AuthorizeFails(q)
    <3>1. pc'[q] = "500"
      BY <2>8 DEF AuthorizeFails, Goto, TypeOK
    <3> QED  BY <3>1 DEF PresentIsWitnessed, FindingsAreDue, AnswersAreDue, Stages, Judged
  <2>9. CASE EditRow \/ EditPermission \/ Tick
    <3>1. Witnessed(row', permission', clock') /\ pc' = pc /\ scoped' = scoped
      BY <2>9 DEF EditRow, EditPermission, Tick
    <3>2. CASE pc[q] \in Stages
      <4>1. /\ ever'[q] = ever[q] \cup Facts(row', permission', clock')
            /\ always'[q] = always[q] \cap Facts(row', permission', clock')
        BY <3>1, <3>2 DEF Witnessed
      <4> QED  BY <2>0, <3>1, <4>1 DEF PresentIsWitnessed, FindingsAreDue, AnswersAreDue
    <3>3. CASE pc[q] \notin Stages
      <4>1. ever'[q] = ever[q] /\ always'[q] = always[q]
        BY <3>1, <3>3 DEF Witnessed
      <4> QED  BY <2>0, <3>1, <3>3, <4>1
               DEF PresentIsWitnessed, FindingsAreDue, AnswersAreDue
    <3> QED  BY <3>2, <3>3
  <2>10. ASSUME NEW r \in Requests, r # q,
                \/ Arrive(r) \/ Verify(r) \/ VerifyFails(r) \/ TouchStarts(r)
                \/ TouchLastUsed(r) \/ TouchFails(r) \/ CheckRateLimit(r)
                \/ Authorize(r) \/ AuthorizeFails(r)
         PROVE  /\ pc'[q] = pc[q] /\ scoped'[q] = scoped[q]
                /\ ever'[q] = ever[q] /\ always'[q] = always[q]
                /\ UNCHANGED stores
    BY <2>10 DEF Arrive, Verify, VerifyFails, TouchStarts, TouchLastUsed, TouchFails,
                 CheckRateLimit, Authorize, AuthorizeFails, Goto, TypeOK
  <2>11. ASSUME /\ pc'[q] = pc[q] /\ scoped'[q] = scoped[q]
                /\ ever'[q] = ever[q] /\ always'[q] = always[q]
                /\ UNCHANGED stores
         PROVE  (PresentIsWitnessed(q) /\ FindingsAreDue(q) /\ AnswersAreDue(q))'
    BY <2>0, <2>11 DEF PresentIsWitnessed, FindingsAreDue, AnswersAreDue
  <2>12. CASE UNCHANGED vars
    BY <2>12, <2>11
  <2> QED
    BY <2>2, <2>3, <2>4, <2>5, <2>6, <2>7, <2>8, <2>9, <2>10, <2>11, <2>12 DEF Next
<1> QED  BY <1>1, <1>2, TypeCorrect, PTL DEF Spec

\* No interleaving of requests with revocations, expiries, edits of scopes and
\* of permissions, or failures of the stores gets a request served whose token
\* was not good, or not permitted, at some moment of the request.
THEOREM ServedWasDueHolds == Spec => []ServedWasDue
<1>1. DueInv => ServedWasDue
  BY DEF DueInv, ServedWasDue, FindingsAreDue, AnswersAreDue, Judged
<1> QED  BY <1>1, DueInvHolds, PTL

\* And none gets one refused as unauthenticated or as not permitted that was
\* entitled all the time it was on its way.
THEOREM RefusalIsEarnedHolds == Spec => []RefusalIsEarned
<1>1. DueInv => RefusalIsEarned
  BY DEF DueInv, RefusalIsEarned, AnswersAreDue
<1> QED  BY <1>1, DueInvHolds, PTL
=============================================================================
