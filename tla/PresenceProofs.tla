--------------------------- MODULE PresenceProofs ---------------------------
(***************************************************************************)
(* Theorems about Presence, for any streams, credentials and viewers.      *)
(***************************************************************************)
EXTENDS Presence, TLAPS

USE DEF HandlerStates

LEMMA StepTypeOK == TypeOK /\ [Next]_vars => TypeOK'
<1>. SUFFICES ASSUME TypeOK, [Next]_vars PROVE TypeOK'
  OBVIOUS
<1>. USE CredentialAssumption, FaultAssumption DEF TypeOK
<1>1. ASSUME NEW s \in Streams, Connected(s) \/ ConnectedFails(s)
      PROVE  TypeOK'
  <2>1. row' \in [Credentials -> BOOLEAN]
    BY <1>1 DEF Connected, ConnectedFails, MarkRow
  <2>2. attached' \in [Streams -> BOOLEAN]
    BY <1>1 DEF Connected, ConnectedFails
  <2>3. /\ handler' \in [Streams -> HandlerStates]
        /\ online' \in [Streams -> SUBSET Viewers]
        /\ UNCHANGED <<offline, dot, late, displaced>>
        /\ faults' \in 0 .. MaxFaults
    BY <1>1 DEF Connected, ConnectedFails, Goto, MarkRow, Fault
  <2>. QED
    BY <2>1, <2>2, <2>3
<1>2. ASSUME NEW s \in Streams,
             HangUp(s) \/ ServeReturns(s) \/ Superseded(s) \/ HandlerReturns(s)
      PROVE  TypeOK'
  BY <1>2 DEF HangUp, ServeReturns, Superseded, HandlerReturns, Goto
<1>3. ASSUME NEW s \in Streams, Disconnected(s) \/ DisconnectedFails(s)
      PROVE  TypeOK'
  <2>1. row' \in [Credentials -> BOOLEAN]
    BY <1>3 DEF Disconnected, DisconnectedFails, MarkRow
  <2>2. attached' \in [Streams -> BOOLEAN]
    BY <1>3 DEF Disconnected, DisconnectedFails
  <2>3. /\ handler' \in [Streams -> HandlerStates]
        /\ UNCHANGED <<online, offline, dot, late>>
        /\ faults' \in 0 .. MaxFaults
        /\ displaced' \subseteq Streams
    BY <1>3 DEF Disconnected, DisconnectedFails, Goto, MarkRow, Fault, Siblings
  <2>. QED
    BY <2>1, <2>2, <2>3
<1>4. ASSUME NEW s \in Streams, GoneOffline(s)
      PROVE  TypeOK'
  BY <1>4 DEF GoneOffline, Goto, Fault
<1>5. ASSUME NEW s \in Streams, NEW v \in Viewers,
             PublishOnline(s, v) \/ PublishOffline(s, v) \/ PublishResent(s, v)
      PROVE  TypeOK'
  <2>1. dot' \in [Viewers -> BOOLEAN] /\ late' \subseteq Viewers
    BY <1>5 DEF PublishOnline, PublishOffline, PublishResent, Light, Darken
  <2>2. /\ online' \in [Streams -> SUBSET Viewers]
        /\ offline' \in [Streams -> SUBSET Viewers]
        /\ UNCHANGED <<handler, attached, row, faults, displaced>>
    BY <1>5 DEF PublishOnline, PublishOffline, PublishResent
  <2>. QED
    BY <2>1, <2>2
<1>6. ASSUME NEW s \in Streams, AnnounceFails(s)
      PROVE  TypeOK'
  BY <1>6 DEF AnnounceFails, Fault
<1>7. CASE Exit
  BY <1>7 DEF Exit, Fault
<1>8. CASE UNCHANGED vars
  BY <1>8 DEF vars
<1>. QED
  BY <1>1, <1>2, <1>3, <1>4, <1>5, <1>6, <1>7, <1>8 DEF Next, Serving

(***************************************************************************)
(* Type correctness.                                                       *)
(***************************************************************************)
THEOREM TypeCorrect == Spec => []TypeOK
<1>1. Init => TypeOK
  BY FaultAssumption DEF Init, TypeOK
<1>. QED
  BY <1>1, StepTypeOK, PTL DEF Spec

(***************************************************************************)
(* No row reads online without a stream that has yet to be recorded as     *)
(* ended, or one that ended without being able to.                         *)
(***************************************************************************)
LEMMA StepRows ==
    TypeOK /\ OnlineRowHasAStream /\ [Next]_vars => OnlineRowHasAStream'
<1>. SUFFICES ASSUME TypeOK, OnlineRowHasAStream, [Next]_vars,
                     NEW c \in Credentials, row'[c]
              PROVE  \E s \in Streams :
                        /\ CredentialOf[s] = c
                        /\ handler'[s] \in {"open", "ending", "lost"}
  BY DEF OnlineRowHasAStream
<1>. USE CredentialAssumption DEF TypeOK, OnlineRowHasAStream
<1>1. ASSUME NEW s \in Streams, Connected(s) \/ ConnectedFails(s)
      PROVE  \E t \in Streams :
                /\ CredentialOf[t] = c
                /\ handler'[t] \in {"open", "ending", "lost"}
  <2>1. /\ handler[s] = "new" /\ handler'[s] = "open"
        /\ \A t \in Streams \ {s} : handler'[t] = handler[t]
        /\ c # CredentialOf[s] => row[c]
    BY <1>1 DEF Connected, ConnectedFails, Goto, MarkRow
  <2>2. CASE c = CredentialOf[s]
    BY <2>1, <2>2
  <2>3. CASE c # CredentialOf[s]
    BY <2>1, <2>3
  <2>. QED
    BY <2>2, <2>3
<1>2. ASSUME NEW s \in Streams, Disconnected(s)
      PROVE  \E t \in Streams :
                /\ CredentialOf[t] = c
                /\ handler'[t] \in {"open", "ending", "lost"}
  <2>1. /\ \A t \in Streams \ {s} : handler'[t] = handler[t]
        /\ c # CredentialOf[s] /\ row[c]
    BY <1>2 DEF Disconnected, Goto, MarkRow
  <2>. QED
    BY <2>1
<1>3. ASSUME NEW s \in Streams, DisconnectedFails(s)
      PROVE  \E t \in Streams :
                /\ CredentialOf[t] = c
                /\ handler'[t] \in {"open", "ending", "lost"}
  <2>1. /\ \A t \in Streams \ {s} : handler'[t] = handler[t]
        /\ handler'[s] = "lost"
        /\ row[c]
    BY <1>3 DEF DisconnectedFails, Goto, MarkRow
  <2>. QED
    BY <2>1
<1>4. ASSUME NEW s \in Streams,
             ServeReturns(s) \/ Superseded(s) \/ GoneOffline(s)
               \/ HandlerReturns(s)
      PROVE  \E t \in Streams :
                /\ CredentialOf[t] = c
                /\ handler'[t] \in {"open", "ending", "lost"}
  <2>1. /\ \A t \in Streams \ {s} : handler'[t] = handler[t]
        /\ \/ handler'[s] = "ending"
           \/ handler[s] \in {"grace", "announcing"}
        /\ row[c]
    BY <1>4 DEF ServeReturns, Superseded, GoneOffline, HandlerReturns, Goto
  <2>. QED
    BY <2>1
<1>5. CASE UNCHANGED <<handler, row>>
  BY <1>5
<1>6. CASE Exit
  BY <1>6 DEF Exit
<1>. QED
  BY <1>1, <1>2, <1>3, <1>4, <1>5, <1>6
     DEF Next, Serving, HangUp, PublishOnline, PublishOffline, PublishResent,
         AnnounceFails, vars

THEOREM OnlineRowHasAStreamHolds == Spec => []OnlineRowHasAStream
<1>1. Init => OnlineRowHasAStream
  BY DEF Init, OnlineRowHasAStream
<1>. QED
  BY <1>1, StepRows, TypeCorrect, PTL DEF Spec

(***************************************************************************)
(* faults counts every failure: while it stays at 0, no step was one.      *)
(***************************************************************************)
LEMMA NoFaultSoFar ==
    ASSUME TypeOK, [Next]_vars, faults' = 0
    PROVE  faults = 0 /\ ~Fault
<1>1. ~Fault
  BY DEF Fault, TypeOK
<1>2. faults' = faults \/ Fault
  <2>1. ASSUME NEW s \in Streams, Serving(s)
        PROVE  faults' = faults \/ Fault
    BY <2>1 DEF Serving, ServeReturns, Disconnected, Superseded, GoneOffline,
                HandlerReturns, PublishOnline, PublishOffline
  <2>2. ASSUME NEW s \in Streams,
               \/ Connected(s) \/ ConnectedFails(s) \/ HangUp(s)
               \/ DisconnectedFails(s) \/ AnnounceFails(s)
        PROVE  faults' = faults \/ Fault
    BY <2>2 DEF Connected, ConnectedFails, HangUp, DisconnectedFails,
                AnnounceFails
  <2>. QED
    BY <2>1, <2>2 DEF Next, Exit, PublishResent, vars
<1>. QED
  BY <1>1, <1>2

(***************************************************************************)
(* While nothing has failed, a viewer whose dot was lit by a frame in its  *)
(* time is owed an offline announcement by some stream: that stream has    *)
(* not reached the end of its grace, or is announcing and has not reached  *)
(* the viewer.                                                             *)
(***************************************************************************)
Owes(s, v) ==
    \/ handler[s] \in {"open", "ending", "grace"}
    \/ handler[s] = "announcing" /\ v \in offline[s]

DotsAreOwed ==
    faults = 0 =>
        /\ \A s \in Streams : handler[s] # "lost"
        /\ \A v \in Viewers : dot[v] /\ v \notin late
                                => \E s \in Streams : Owes(s, v)

LEMMA StepDots ==
    ASSUME TypeOK, OnlineRowHasAStream, DotsAreOwed, [Next]_vars, TypeOK'
    PROVE  DotsAreOwed'
<1>. SUFFICES ASSUME faults' = 0 PROVE DotsAreOwed'
  BY DEF DotsAreOwed
<1>1. faults = 0 /\ ~Fault
  BY NoFaultSoFar
<1>2. /\ \A s \in Streams : handler[s] # "lost"
      /\ \A v \in Viewers : dot[v] /\ v \notin late
                              => \E s \in Streams : Owes(s, v)
  BY <1>1 DEF DotsAreOwed
<1>3. ASSUME NEW s \in Streams,
             Connected(s) \/ ServeReturns(s) \/ Disconnected(s)
      PROVE  DotsAreOwed'
  <2>1. /\ \A t \in Streams \ {s} : handler'[t] = handler[t]
        /\ handler'[s] \in {"open", "ending", "grace"}
        /\ UNCHANGED <<offline, dot, late>>
    BY <1>3 DEF Connected, ServeReturns, Disconnected, Goto, TypeOK
  <2>. QED
    BY <1>2, <2>1 DEF DotsAreOwed, Owes
<1>4. ASSUME NEW s \in Streams, Superseded(s)
      PROVE  DotsAreOwed'
  <2>1. /\ \A t \in Streams \ {s} : handler'[t] = handler[t]
        /\ handler[s] = "grace" /\ handler'[s] = "done"
        /\ UNCHANGED <<offline, dot, late>>
    BY <1>4 DEF Superseded, Goto, TypeOK
  <2>2. PICK t \in Streams : handler[t] \in {"open", "ending"}
    BY <1>2, <1>4 DEF Superseded, HasLiveSession, OnlineRowHasAStream
  <2>3. handler'[t] \in {"open", "ending"}
    BY <2>1, <2>2
  <2>. QED
    BY <1>2, <2>1, <2>3 DEF DotsAreOwed, Owes
<1>5. ASSUME NEW s \in Streams, GoneOffline(s)
      PROVE  DotsAreOwed'
  <2>1. /\ \A t \in Streams \ {s} : /\ handler'[t] = handler[t]
                                    /\ offline'[t] = offline[t]
        /\ handler'[s] = "announcing" /\ offline'[s] = Viewers
        /\ UNCHANGED <<dot, late>>
    BY <1>5 DEF GoneOffline, Goto, TypeOK
  <2>. QED
    BY <1>2, <2>1 DEF DotsAreOwed, Owes
<1>6. ASSUME NEW s \in Streams, NEW v \in Viewers, Light(s, v),
             UNCHANGED <<handler, offline>>
      PROVE  DotsAreOwed'
  <2>1. /\ \A w \in Viewers \ {v} : /\ dot'[w] = dot[w]
                                    /\ w \in late => w \in late'
                                    /\ w \in late' => w \in late
        /\ handler[s] \in {"open", "ending", "grace"} \/ v \in late'
    BY <1>6 DEF Light, TypeOK
  <2>2. ASSUME NEW w \in Viewers, dot'[w], w \notin late'
        PROVE  \E u \in Streams : Owes(u, w)
    BY <1>2, <2>1, <2>2 DEF Owes
  <2>. QED
    BY <1>2, <1>6, <2>2 DEF DotsAreOwed, Owes
<1>7. ASSUME NEW v \in Viewers, Darken(v), UNCHANGED handler,
             \A t \in Streams, w \in Viewers \ {v} :
                w \in offline[t] => w \in offline'[t]
      PROVE  DotsAreOwed'
  <2>1. /\ \A w \in Viewers \ {v} : /\ dot'[w] = dot[w]
                                    /\ w \in late => w \in late'
        /\ ~dot'[v]
    BY <1>7 DEF Darken, TypeOK
  <2>. QED
    BY <1>2, <1>7, <2>1 DEF DotsAreOwed, Owes
<1>8. ASSUME NEW s \in Streams, HandlerReturns(s)
      PROVE  DotsAreOwed'
  <2>1. /\ \A t \in Streams \ {s} : handler'[t] = handler[t]
        /\ handler[s] = "announcing" /\ handler'[s] = "done"
        /\ offline[s] = {}
        /\ UNCHANGED <<offline, dot, late>>
    BY <1>8 DEF HandlerReturns, Goto, TypeOK
  <2>. QED
    BY <1>2, <2>1 DEF DotsAreOwed, Owes
<1>9. CASE UNCHANGED <<handler, offline, dot, late>>
  BY <1>2, <1>9 DEF DotsAreOwed, Owes
<1>10. ASSUME NEW s \in Streams, NEW v \in Viewers,
              PublishOnline(s, v) \/ PublishOffline(s, v) \/ PublishResent(s, v)
       PROVE  DotsAreOwed'
  <2>1. CASE PublishOnline(s, v)
    BY <1>6, <2>1 DEF PublishOnline
  <2>2. CASE PublishOffline(s, v)
    <3>1. \A t \in Streams, w \in Viewers \ {v} :
             w \in offline[t] => w \in offline'[t]
      BY <2>2 DEF PublishOffline, TypeOK
    <3>. QED
      BY <1>7, <2>2, <3>1 DEF PublishOffline
  <2>3. CASE PublishResent(s, v)
    BY <1>6, <1>7, <2>3 DEF PublishResent
  <2>. QED
    BY <1>10, <2>1, <2>2, <2>3
<1>. QED
  BY <1>1, <1>3, <1>4, <1>5, <1>8, <1>9, <1>10
     DEF Next, Serving, HangUp, ConnectedFails, DisconnectedFails,
         AnnounceFails, Exit, vars

(***************************************************************************)
(* While nothing has failed, the only dots lit once every stream is over   *)
(* are those a late frame lit.                                             *)
(***************************************************************************)
THEOREM OnlyLateFramesStayHolds == Spec => []OnlyLateFramesStay
<1>1. Init => DotsAreOwed
  BY DEF Init, DotsAreOwed
<1>2. TypeOK /\ TypeOK' /\ OnlineRowHasAStream /\ DotsAreOwed /\ [Next]_vars
        => DotsAreOwed'
  BY StepDots
<1>3. DotsAreOwed => OnlyLateFramesStay
  BY DEF DotsAreOwed, OnlyLateFramesStay, Settled, Owes
<1>. QED
  BY <1>1, <1>2, <1>3, TypeCorrect, OnlineRowHasAStreamHolds, PTL DEF Spec

(***************************************************************************)
(* While nothing has failed, a stream has the row it marked until its own  *)
(* handler, or the end of another stream of its credential, unmarks it.    *)
(***************************************************************************)
KeepsItsRow ==
    faults = 0 =>
        \A s \in Streams \ displaced :
            handler[s] \in {"open", "ending"} => row[CredentialOf[s]]

LEMMA StepKeepsItsRow ==
    ASSUME TypeOK, TypeOK', KeepsItsRow, [Next]_vars
    PROVE  KeepsItsRow'
<1>. SUFFICES ASSUME faults' = 0 PROVE KeepsItsRow'
  BY DEF KeepsItsRow
<1>1. faults = 0 /\ ~Fault
  BY NoFaultSoFar
<1>2. \A s \in Streams \ displaced :
         handler[s] \in {"open", "ending"} => row[CredentialOf[s]]
  BY <1>1 DEF KeepsItsRow
<1>. USE CredentialAssumption
<1>3. ASSUME NEW s \in Streams, Connected(s)
      PROVE  KeepsItsRow'
  <2>1. /\ \A t \in Streams \ {s} : handler'[t] = handler[t]
        /\ row' = [row EXCEPT ![CredentialOf[s]] = TRUE]
        /\ UNCHANGED displaced
    BY <1>3 DEF Connected, Goto, MarkRow, TypeOK
  <2>. QED
    BY <1>2, <2>1 DEF KeepsItsRow, TypeOK
<1>4. ASSUME NEW s \in Streams,
             ServeReturns(s) \/ Superseded(s) \/ GoneOffline(s)
               \/ HandlerReturns(s)
      PROVE  KeepsItsRow'
  <2>1. /\ \A t \in Streams \ {s} : handler'[t] = handler[t]
        /\ handler'[s] \in {"open", "ending"} => handler[s] = "open"
        /\ UNCHANGED <<row, displaced>>
    BY <1>4 DEF ServeReturns, Superseded, GoneOffline, HandlerReturns, Goto,
                TypeOK
  <2>. QED
    BY <1>2, <2>1 DEF KeepsItsRow
<1>5. ASSUME NEW s \in Streams, Disconnected(s)
      PROVE  KeepsItsRow'
  <2>1. /\ \A t \in Streams \ {s} : handler'[t] = handler[t]
        /\ handler'[s] = "grace"
        /\ row' = [row EXCEPT ![CredentialOf[s]] = FALSE]
        /\ displaced' = displaced \cup Siblings(s)
    BY <1>5 DEF Disconnected, Goto, MarkRow, TypeOK
  <2>2. ASSUME NEW t \in Streams \ displaced', handler'[t] \in {"open", "ending"}
        PROVE  row'[CredentialOf[t]]
    <3>1. t # s /\ t \notin displaced /\ handler[t] \in {"open", "ending"}
      BY <2>1, <2>2
    <3>2. CredentialOf[t] # CredentialOf[s]
      BY <2>1, <2>2, <3>1 DEF Siblings
    <3>. QED
      BY <1>2, <2>1, <3>1, <3>2 DEF TypeOK
  <2>. QED
    BY <2>2 DEF KeepsItsRow
<1>6. CASE UNCHANGED <<handler, row, displaced>>
  BY <1>2, <1>6 DEF KeepsItsRow
<1>. QED
  BY <1>1, <1>3, <1>4, <1>5, <1>6
     DEF Next, Serving, HangUp, ConnectedFails, DisconnectedFails,
         AnnounceFails, Exit, PublishOnline, PublishOffline, PublishResent, vars

LEMMA KeepsItsRowInvariant == Spec => []KeepsItsRow
<1>1. Init => KeepsItsRow
  BY DEF Init, KeepsItsRow
<1>2. TypeOK /\ TypeOK' /\ KeepsItsRow /\ [Next]_vars => KeepsItsRow'
  BY StepKeepsItsRow
<1>. QED
  BY <1>1, <1>2, TypeCorrect, PTL DEF Spec

(***************************************************************************)
(* A served stream is online in the sessions collection, and offline is    *)
(* not announced over it, unless a stream of its own credential ended in   *)
(* its time: however streams overlap, reach their cap or come back.        *)
(***************************************************************************)
THEOREM ServedRowIsLiveHolds == Spec => []ServedRowIsLive
<1>1. KeepsItsRow => ServedRowIsLive
  BY DEF KeepsItsRow, ServedRowIsLive
<1>. QED
  BY <1>1, KeepsItsRowInvariant, PTL

THEOREM ServedStaysOnlineHolds == Spec => ServedStaysOnline
<1>1. ASSUME TypeOK, TypeOK', KeepsItsRow, Next,
             NEW s \in Streams, NEW t \in Streams \ displaced,
             handler[s] = "grace", handler'[s] = "announcing", faults' = 0
      PROVE  handler[t] # "open"
  <2>1. faults = 0 /\ ~Fault
    BY <1>1, NoFaultSoFar
  <2>2. ~Exit
    BY <2>1 DEF Exit
  <2>3. PICK u \in Streams :
           \/ Connected(u) \/ ConnectedFails(u) \/ HangUp(u)
           \/ Serving(u) \/ DisconnectedFails(u) \/ AnnounceFails(u)
           \/ \E v \in Viewers : PublishResent(u, v)
    BY <1>1, <2>2 DEF Next
  <2>4. GoneOffline(u)
    BY <1>1, <2>3 DEF Serving, TypeOK, Connected, ConnectedFails,
         HangUp, ServeReturns, Disconnected, DisconnectedFails, Superseded,
         PublishOnline, PublishOffline, PublishResent, AnnounceFails,
         HandlerReturns, Goto
  <2>5. ~HasLiveSession
    BY <2>1, <2>4 DEF GoneOffline
  <2>. QED
    BY <1>1, <2>1, <2>5, CredentialAssumption
       DEF HasLiveSession, KeepsItsRow
<1>2. TypeOK /\ TypeOK' /\ KeepsItsRow /\ [Next]_vars =>
        [\A s \in Streams, t \in Streams \ displaced :
            handler[s] = "grace" /\ handler'[s] = "announcing" /\ faults' = 0
              => handler[t] # "open"]_vars
  BY <1>1
<1>. QED
  BY <1>2, KeepsItsRowInvariant, TypeCorrect, PTL
     DEF Spec, ServedStaysOnline
=============================================================================
