---------------------------- MODULE ProcessProofs ----------------------------
(***************************************************************************)
(* Theorems about what lives as long as the process: main, in Process, for *)
(* any set of streams and of other requests, and the one connection of     *)
(* Publisher, for any number of jobs, queues and dials.                    *)
(***************************************************************************)
EXTENDS Publisher, Process, TLAPS


(***************************************************************************)
(* Steps of a call that change nothing but where the call is.              *)
(***************************************************************************)
Move(j) ==
    Call(j) \/ Lock(j) \/ KeepConnection(j) \/ KeepChannel(j) \/ KeepDeclared(j)

LEMMA StepTypeOK == TypeOK /\ [Next]_vars => TypeOK'
<1>. SUFFICES ASSUME TypeOK, [Next]_vars PROVE TypeOK'
  OBVIOUS
<1>. USE QueueAssumption DEF TypeOK, Holding, Goto, Return, fields, jobs, broker
<1>a. dialled \in Nat /\ live \subseteq 1 .. dialled /\ 0 \in 0 .. dialled
  OBVIOUS
<1>1. ASSUME NEW j \in Jobs, Move(j)
      PROVE  TypeOK'
  BY <1>1 DEF Move, Call, Lock, KeepConnection, KeepChannel, KeepDeclared
<1>2. ASSUME NEW j \in Jobs, Dial(j)
      PROVE  TypeOK'
  <2>1. dialled' = dialled + 1 /\ conn' = dialled + 1
        /\ live' = live \cup {dialled + 1}
    BY <1>2 DEF Dial
  <2>2. dialled + 1 \in 1 .. dialled + 1
    BY <1>a
  <2>3. \A n \in 1 .. dialled : n \in 1 .. dialled + 1
    BY <1>a
  <2>4. live' \subseteq 1 .. dialled'
    BY <1>a, <2>1, <2>2, <2>3
  <2>5. conn' \in 0 .. dialled' /\ dialled' \in Nat
    BY <1>a, <2>1
  <2>. QED
    BY <1>2, <2>4, <2>5 DEF Dial
<1>3. ASSUME NEW j \in Jobs, DialFails(j)
      PROVE  TypeOK'
  BY <1>3 DEF DialFails
<1>4. ASSUME NEW j \in Jobs, OpenChannel(j)
      PROVE  TypeOK'
  BY <1>4 DEF OpenChannel
<1>5. ASSUME NEW j \in Jobs, OpenChannelFails(j)
      PROVE  TypeOK'
  BY <1>5 DEF OpenChannelFails, Noticing
<1>6. ASSUME NEW j \in Jobs, Declare(j)
      PROVE  TypeOK'
  BY <1>6 DEF Declare
<1>7. ASSUME NEW j \in Jobs, DeclareFails(j)
      PROVE  TypeOK'
  BY <1>7 DEF DeclareFails, Noticing
<1>8. ASSUME NEW j \in Jobs, Write(j) \/ Publish(j)
      PROVE  TypeOK'
  <2>1. wire' \in [Jobs -> Nat]
    <3>1. wire[j] + 1 \in Nat
      OBVIOUS
    <3>. QED
      BY <1>8, <3>1 DEF Write, Publish, Sends
  <2>2. UNCHANGED <<conn, channel, declared, belief, dialled, live, present, queued>>
    BY <1>8 DEF Write, Publish
  <2>3. /\ pc' \in [Jobs -> {"idle", "lock", "done"} \cup Holding]
        /\ result' \in [Jobs -> {"none", "sent", "failed"}]
    BY <1>8 DEF Write, Publish
  <2>. QED
    BY <2>1, <2>2, <2>3
<1>9. ASSUME NEW j \in Jobs, PublishFails(j)
      PROVE  TypeOK'
  BY <1>a, <1>9 DEF PublishFails, reset, None
<1>10. CASE Close
  BY <1>a, <1>10 DEF Close, reset, None
<1>11. CASE BrokerHangsUp \/ BrokerReplaced \/ QueueDeleted
  <2>1. CASE BrokerHangsUp
    BY <2>1 DEF BrokerHangsUp
  <2>2. CASE BrokerReplaced
    BY <2>2 DEF BrokerReplaced
  <2>3. CASE QueueDeleted
    BY <2>3 DEF QueueDeleted
  <2>. QED
    BY <1>11, <2>1, <2>2, <2>3
<1>12. CASE LibraryNotices
  BY <1>12 DEF LibraryNotices
<1>13. CASE UNCHANGED vars
  BY <1>13 DEF vars
<1>14. ASSUME NEW j \in Jobs, Arrive(j) \/ Lose(j)
       PROVE  TypeOK'
  <2>1. wire' \in [Jobs -> Nat]
    <3>1. wire[j] - 1 \in Nat
      BY <1>14 DEF Arrive, Lose
    <3>. QED
      BY <1>14, <3>1 DEF Arrive, Lose
  <2>2. queued' \in [Jobs -> Nat]
    <3>1. queued[j] + 1 \in Nat
      OBVIOUS
    <3>. QED
      BY <1>14, <3>1 DEF Arrive, Lose
  <2>3. UNCHANGED <<pc, conn, channel, declared, belief, dialled, live, present,
                    result>>
    BY <1>14 DEF Arrive, Lose
  <2>. QED
    BY <2>1, <2>2, <2>3
<1>. QED
  BY <1>1, <1>2, <1>3, <1>4, <1>5, <1>6, <1>7, <1>8, <1>9, <1>10, <1>11,
     <1>12, <1>13, <1>14
     DEF Next, Work, Ensure, Move

(***************************************************************************)
(* Every variable keeps its type.                                          *)
(***************************************************************************)
THEOREM TypeCorrect == Spec => []TypeOK
<1>1. Init => TypeOK
  BY DEF Init, TypeOK, Holding, None
<1>. QED
  BY <1>1, StepTypeOK, PTL DEF Spec

(***************************************************************************)
(* A connection found closed is closed at both ends, so that the next one  *)
(* replaces it; one that is not in the broker's hands cannot be lost.      *)
(***************************************************************************)
Ends == /\ live \subseteq {conn}
        /\ belief = "closed" => conn \notin live

LEMMA StepEnds ==
    ASSUME TypeOK, Ends, [Next]_vars
    PROVE  Ends'
<1>. USE DEF Ends, TypeOK, fields, jobs, broker
<1>1. ASSUME NEW j \in Jobs,
             \/ Move(j) \/ DialFails(j) \/ OpenChannel(j) \/ OpenChannelFails(j)
             \/ Declare(j) \/ DeclareFails(j) \/ Write(j) \/ Publish(j)
             \/ Arrive(j) \/ Lose(j)
      PROVE  Ends'
  BY <1>1 DEF Move, Call, Lock, KeepConnection, KeepChannel, KeepDeclared,
              DialFails, OpenChannel, OpenChannelFails, Declare, DeclareFails,
              Write, Publish, Arrive, Lose, Noticing
<1>2. ASSUME NEW j \in Jobs, Dial(j)
      PROVE  Ends'
  <2>1. live = {}
    BY <1>2 DEF Dial, NeedsDial, None
  <2>. QED
    BY <1>2, <2>1 DEF Dial
<1>3. ASSUME NEW j \in Jobs, PublishFails(j)
      PROVE  Ends'
  BY <1>3 DEF PublishFails, reset
<1>4. CASE Close
  BY <1>4 DEF Close, reset
<1>5. CASE BrokerHangsUp \/ LibraryNotices \/ BrokerReplaced \/ QueueDeleted
  BY <1>5 DEF BrokerHangsUp, LibraryNotices, BrokerReplaced, QueueDeleted
<1>6. CASE UNCHANGED vars
  BY <1>6 DEF vars
<1>. QED
  BY <1>1, <1>2, <1>3, <1>4, <1>5, <1>6 DEF Next, Work, Ensure, Move

(***************************************************************************)
(* The broker never holds a connection the process has lost track of.      *)
(***************************************************************************)
THEOREM NoConnectionLeaksHolds == Spec => []NoConnectionLeaks
<1>1. Init => Ends
  BY DEF Init, Ends
<1>2. Ends => NoConnectionLeaks
  BY DEF Ends, NoConnectionLeaks
<1>. QED
  BY <1>1, <1>2, StepEnds, TypeCorrect, PTL DEF Spec

(***************************************************************************)
(* When nobody deletes a queue in use, the cache of declared queues is     *)
(* right whenever the connection it was filled on is up.                   *)
(***************************************************************************)
LEMMA StepDeclared ==
    ASSUME ~DeletesQueues, TypeOK, Ends, DeclaredQueuesExist, [Next]_vars
    PROVE  DeclaredQueuesExist'
<1>. USE DEF DeclaredQueuesExist, fields, jobs, broker
<1>1. ASSUME NEW j \in Jobs,
             \/ Move(j) \/ DialFails(j) \/ OpenChannel(j) \/ OpenChannelFails(j)
             \/ Write(j) \/ Publish(j) \/ Dial(j) \/ Arrive(j) \/ Lose(j)
      PROVE  DeclaredQueuesExist'
  BY <1>1 DEF Move, Call, Lock, KeepConnection, KeepChannel, KeepDeclared,
              DialFails, OpenChannel, OpenChannelFails, Write, Publish, Dial,
              Arrive, Lose
<1>2. ASSUME NEW j \in Jobs, Declare(j) \/ DeclareFails(j)
      PROVE  DeclaredQueuesExist'
  BY <1>2 DEF Declare, DeclareFails
<1>3. ASSUME NEW j \in Jobs, PublishFails(j)
      PROVE  DeclaredQueuesExist'
  BY <1>3 DEF PublishFails, reset
<1>4. CASE Close
  BY <1>4 DEF Close, reset
<1>5. CASE BrokerHangsUp \/ BrokerReplaced \/ LibraryNotices \/ QueueDeleted
  BY <1>5 DEF BrokerHangsUp, BrokerReplaced, LibraryNotices, QueueDeleted
<1>6. CASE UNCHANGED vars
  BY <1>6 DEF vars
<1>. QED
  BY <1>1, <1>2, <1>3, <1>4, <1>5, <1>6 DEF Next, Work, Ensure, Move

THEOREM DeclaredQueuesExistHolds ==
    ASSUME ~DeletesQueues
    PROVE  Spec => []DeclaredQueuesExist
<1>1. Init => DeclaredQueuesExist /\ Ends
  BY DEF Init, DeclaredQueuesExist, Ends
<1>2. TypeOK /\ Ends /\ DeclaredQueuesExist /\ [Next]_vars
        => DeclaredQueuesExist'
  BY StepDeclared
<1>. QED
  BY <1>1, <1>2, StepEnds, TypeCorrect, PTL DEF Spec

(***************************************************************************)
(* The mutex excludes, and what the stages of ensureChannel established is *)
(* still so when the job is published.                                     *)
(***************************************************************************)
LEMMA StepPublishes ==
    ASSUME TypeOK, PublishesOnAChannel, [Next]_vars
    PROVE  PublishesOnAChannel'
<1>. USE DEF PublishesOnAChannel, TypeOK, Holding, Goto, Return, fields, jobs,
             broker
<1>1. ASSUME NEW j \in Jobs, Call(j) \/ Lock(j) \/ Arrive(j) \/ Lose(j)
      PROVE  PublishesOnAChannel'
  BY <1>1 DEF Call, Lock, Arrive, Lose
<1>2. ASSUME NEW j \in Jobs,
             KeepConnection(j) \/ KeepChannel(j) \/ KeepDeclared(j)
      PROVE  PublishesOnAChannel'
  BY <1>2 DEF KeepConnection, KeepChannel, KeepDeclared, NeedsDial, NeedsChannel
<1>3. ASSUME NEW j \in Jobs, Dial(j)
      PROVE  PublishesOnAChannel'
  <2>1. /\ \A i \in Jobs \ {j} : pc'[i] = pc[i] /\ pc[i] \notin Holding
        /\ pc'[j] = "open" /\ conn' # None
    BY <1>3 DEF Dial, None
  <2>. QED
    BY <2>1
<1>4. ASSUME NEW j \in Jobs, OpenChannel(j) \/ Declare(j) \/ Write(j)
      PROVE  PublishesOnAChannel'
  BY <1>4 DEF OpenChannel, Declare, Write
<1>5. ASSUME NEW j \in Jobs,
             \/ DialFails(j) \/ OpenChannelFails(j) \/ DeclareFails(j)
             \/ Publish(j) \/ PublishFails(j)
      PROVE  PublishesOnAChannel'
  <2>1. \A i \in Jobs \ {j} : pc'[i] = pc[i] /\ pc[i] \notin Holding
    BY <1>5 DEF DialFails, OpenChannelFails, DeclareFails, Publish, PublishFails
  <2>2. pc'[j] = "done"
    BY <1>5 DEF DialFails, OpenChannelFails, DeclareFails, Publish, PublishFails
  <2>. QED
    BY <2>1, <2>2
<1>6. CASE Close
  BY <1>6 DEF Close
<1>7. CASE BrokerHangsUp \/ LibraryNotices \/ BrokerReplaced \/ QueueDeleted
  BY <1>7 DEF BrokerHangsUp, LibraryNotices, BrokerReplaced, QueueDeleted
<1>8. CASE UNCHANGED vars
  BY <1>8 DEF vars
<1>. QED
  BY <1>1, <1>2, <1>3, <1>4, <1>5, <1>6, <1>7, <1>8 DEF Next, Work, Ensure

THEOREM PublishesOnAChannelHolds == Spec => []PublishesOnAChannel
<1>1. Init => PublishesOnAChannel
  BY DEF Init, PublishesOnAChannel, Holding
<1>. QED
  BY <1>1, StepPublishes, TypeCorrect, PTL DEF Spec

(***************************************************************************)
(* Publisher implements JobQueue: a call has written its job at most once, *)
(* and not before it got to the point, and has answered only at its end.   *)
(***************************************************************************)
WrittenOnce ==
    \A j \in Jobs :
        /\ wire[j] + queued[j] <= 1
        /\ pc[j] \notin {"written", "done"} => wire[j] = 0 /\ queued[j] = 0
        /\ pc[j] # "done" => result[j] = "none"

CalledJobs == {j \in Jobs : pc[j] # "idle"}

LEMMA StepWritten ==
    ASSUME TypeOK, WrittenOnce, [Next]_vars
    PROVE  WrittenOnce' /\ [Promise!Next]_<<CalledJobs, queued, result>>
<1>. USE DEF WrittenOnce, TypeOK, Goto, Return, fields, jobs, broker
<1>1. ASSUME NEW j \in Jobs, Call(j)
      PROVE  WrittenOnce' /\ Promise!Next
  <2>1. CalledJobs' = CalledJobs \cup {j}
    BY <1>1 DEF Call, CalledJobs
  <2>2. UNCHANGED <<queued, result>> /\ WrittenOnce'
    BY <1>1 DEF Call
  <2>. QED
    BY <2>1, <2>2 DEF Promise!Next, Promise!Call, CalledJobs
<1>2. ASSUME NEW j \in Jobs,
             \/ Lock(j) \/ KeepConnection(j) \/ KeepChannel(j) \/ KeepDeclared(j)
             \/ Dial(j) \/ OpenChannel(j) \/ Declare(j) \/ Write(j)
      PROVE  WrittenOnce' /\ UNCHANGED <<CalledJobs, queued, result>>
  <2>1. /\ pc[j] \notin {"idle", "written", "done"}
        /\ pc'[j] \notin {"idle", "done"}
        /\ \A i \in Jobs \ {j} : pc'[i] = pc[i] /\ wire'[i] = wire[i]
        /\ \/ wire'[j] = 0
           \/ wire'[j] = 1 /\ pc'[j] = "written"
        /\ UNCHANGED <<queued, result>>
    BY <1>2 DEF Lock, KeepConnection, KeepChannel, KeepDeclared, Dial,
                OpenChannel, Declare, Write, Sends
  <2>. QED
    BY <2>1 DEF CalledJobs
<1>3. ASSUME NEW j \in Jobs,
             \/ DialFails(j) \/ OpenChannelFails(j) \/ DeclareFails(j)
             \/ Publish(j) \/ PublishFails(j)
      PROVE  WrittenOnce' /\ Promise!Next
  <2>1. /\ pc[j] \notin {"idle", "done"}
        /\ pc' = [pc EXCEPT ![j] = "done"]
        /\ \E answer \in {"sent", "failed"} :
              result' = [result EXCEPT ![j] = answer]
        /\ UNCHANGED <<wire, queued>>
    BY <1>3 DEF DialFails, OpenChannelFails, DeclareFails, Publish, PublishFails
  <2>2. result[j] = "none" /\ j \in CalledJobs /\ CalledJobs' = CalledJobs
    BY <2>1 DEF CalledJobs
  <2>3. WrittenOnce'
    BY <2>1
  <2>. QED
    BY <2>1, <2>2, <2>3 DEF Promise!Next, Promise!Settle, CalledJobs
<1>4. ASSUME NEW j \in Jobs, Arrive(j) \/ Lose(j)
      PROVE  WrittenOnce' /\ [Promise!Next]_<<CalledJobs, queued, result>>
  <2>0. wire[j] > 0
    BY <1>4 DEF Arrive, Lose
  <2>a. wire[j] = 1 /\ queued[j] = 0 /\ j \in CalledJobs
    BY <2>0 DEF CalledJobs
  <2>1. /\ wire' = [wire EXCEPT ![j] = 0]
        /\ queued' = queued \/ queued' = [queued EXCEPT ![j] = 1]
        /\ UNCHANGED <<pc, result>>
    BY <1>4, <2>a DEF Arrive, Lose
  <2>2. CalledJobs' = CalledJobs /\ WrittenOnce'
    BY <2>1, <2>a DEF CalledJobs
  <2>. QED
    BY <2>1, <2>a, <2>2 DEF Promise!Next, Promise!HandOver, CalledJobs
<1>5. CASE Close
  BY <1>5 DEF Close, CalledJobs
<1>6. CASE BrokerHangsUp \/ LibraryNotices \/ BrokerReplaced \/ QueueDeleted
  BY <1>6 DEF BrokerHangsUp, LibraryNotices, BrokerReplaced, QueueDeleted,
              CalledJobs
<1>7. CASE UNCHANGED vars
  BY <1>7 DEF vars, CalledJobs
<1>. QED
  BY <1>1, <1>2, <1>3, <1>4, <1>5, <1>6, <1>7 DEF Next, Work, Ensure

THEOREM KeepsThePromiseHolds == Spec => KeepsThePromise
<1>1. Init => WrittenOnce /\ Promise!Init
  BY DEF Init, WrittenOnce, Promise!Init
<1>2. TypeOK /\ WrittenOnce /\ [Next]_vars
        => WrittenOnce' /\ [Promise!Next]_<<CalledJobs, queued, result>>
  BY StepWritten
<1>. QED
  BY <1>1, <1>2, TypeCorrect, PTL
     DEF Spec, KeepsThePromise, Promise!Spec, Promise!vars, CalledJobs

-----------------------------------------------------------------------------
(***************************************************************************)
(* The process itself.                                                     *)
(***************************************************************************)
\* The requests that something can still happen to.
Active == {r \in Requests : request[r] \in {"running", "querying"}}

Starting == {"postgres", "redis", "mongo"}
Stopping == {"publisher", "closing", "closed", "ending"}

(***************************************************************************)
(* Types, without what ProcessTypeOK says of requests that were cut off.   *)
(***************************************************************************)
Types ==
    /\ main \in Starting \cup {"serving", "draining"} \cup Stopping \cup {"exited"}
    /\ open \subseteq Stores \cup {"publisher"}
    /\ signalled \in BOOLEAN /\ expired \in BOOLEAN
    /\ listener \in {"off", "accepting", "closed"}
    /\ request \in [Requests -> RequestStates]

\* Why the clients outlast the requests: there are none before the last client
\* is open, none is accepted once Shutdown has begun, and unless it gives up
\* none is left when the first is closed.
Order ==
    /\ main = "redis" => open = {"postgres"}
    /\ main = "mongo" => open = {"postgres", "redis"}
    /\ main \in Starting => listener = "off" /\ Active = {} /\ In("cut") = {}
    /\ main \in {"serving", "draining"} =>
          /\ open = Stores \cup {"publisher"}
          /\ In("cut") = {}
    /\ main \in {"draining"} \cup Stopping => listener = "closed"
    /\ main \in Stopping => In("cut") = {} /\ (expired \/ Active = {})
    /\ main = "exited" => Active = {} /\ (expired \/ In("cut") = {})

ProcessInv == Types /\ Order

LEMMA ProcessStarts == ProcessInit => ProcessInv
BY DEF ProcessInit, ProcessInv, Types, Order, Starting, Stopping, Stores, RequestStates, Active, In

\* What a step leaves of the requests, if it leaves them.
LEMMA SameRequests ==
    ASSUME UNCHANGED request
    PROVE  Active' = Active /\ \A state : In(state)' = In(state)
BY DEF Active, In

\* A request moves on: only an accepted one becomes active, and none is cut.
LEMMA RequestMoves ==
    ASSUME ProcessInv, NEW r \in Requests,
           Accept(r) \/ Query(r) \/ EndQuery(r) \/ Respond(r)
    PROVE  ProcessInv'
<1>. USE DEF Accept, Query, EndQuery, Respond, Moves
<1>1. Types'
  BY DEF ProcessInv, Types, RequestStates
<1>2. main' = main /\ open' = open /\ listener' = listener /\ expired' = expired /\ main # "exited"
  OBVIOUS
<1>3. In("cut")' = In("cut")
  BY DEF ProcessInv, Types, In
<1>4. Active' = {} \/ listener = "accepting" \/ Active # {}
  BY DEF ProcessInv, Types, Active
<1>. QED
  BY <1>1, <1>2, <1>3, <1>4 DEF ProcessInv, Order, Types, Starting, Stopping

LEMMA ProcessKeeps ==
    ASSUME ProcessInv, [ProcessNext]_processVars
    PROVE  ProcessInv'
<1>. USE DEF MainGoes
<1>1. CASE OpenPostgres \/ OpenRedis \/ OpenMongo \/ OpenFails
  <2>1. UNCHANGED request
    BY <1>1 DEF OpenPostgres, OpenRedis, OpenMongo, OpenFails
  <2>2. main \in Starting
    BY <1>1 DEF OpenPostgres, OpenRedis, OpenMongo, OpenFails, Starting
  <2>3. Active' = {} /\ In("cut")' = {} /\ listener' = "off"
    BY <1>1, <2>1, <2>2, SameRequests
       DEF ProcessInv, Order, OpenPostgres, OpenRedis, OpenMongo, OpenFails
  <2>4. Types'
    BY <1>1, <2>1 DEF ProcessInv, Types, Starting, Stores, OpenPostgres, OpenRedis, OpenMongo,
                     OpenFails
  <2>5. \/ main' = "redis" /\ open' = {"postgres"}
        \/ main' = "mongo" /\ open' = {"postgres", "redis"}
        \/ main' = "serving" /\ open' = Stores \cup {"publisher"}
        \/ main' = "exited"
    BY <1>1 DEF ProcessInv, Order, Stores, OpenPostgres, OpenRedis, OpenMongo, OpenFails
  <2>. QED
    BY <2>3, <2>4, <2>5 DEF ProcessInv, Order, Starting, Stopping
<1>2. CASE Listen \/ ListenFails \/ Signal
  <2>1. UNCHANGED <<main, open, expired, request>>
    BY <1>2 DEF Listen, ListenFails, Signal
  <2>2. listener' = listener \/ main = "serving"
    BY <1>2 DEF Listen, ListenFails, Signal
  <2>3. Types'
    BY <1>2, <2>1 DEF ProcessInv, Types, Listen, ListenFails, Signal
  <2>4. Active' = Active /\ In("cut")' = In("cut")
    BY <2>1, SameRequests
  <2>. QED
    BY <2>1, <2>2, <2>3, <2>4 DEF ProcessInv, Order, Starting, Stopping
<1>3. CASE Shutdown \/ Drained \/ GraceOver
  <2>1. UNCHANGED <<open, request>>
    BY <1>3 DEF Shutdown, Drained, GraceOver
  <2>2. Active' = Active /\ In("cut")' = In("cut")
    BY <2>1, SameRequests
  <2>3. Types'
    BY <1>3, <2>1 DEF ProcessInv, Types, Stopping, Shutdown, Drained, GraceOver
  <2>4. CASE Shutdown
    BY <2>1, <2>2, <2>3, <2>4 DEF ProcessInv, Order, Starting, Stopping, Shutdown
  <2>5. CASE Drained
    <3>1. Active = {}
      BY <2>5 DEF Drained, Active, In
    <3>. QED
      BY <2>1, <2>2, <2>3, <2>5, <3>1 DEF ProcessInv, Order, Starting, Stopping, Drained
  <2>6. CASE GraceOver
    BY <2>1, <2>2, <2>3, <2>6 DEF ProcessInv, Order, Starting, Stopping, GraceOver
  <2>. QED
    BY <1>3, <2>4, <2>5, <2>6
<1>4. CASE ClosePublisher \/ ClosePostgres \/ CloseRedis
  <2>1. UNCHANGED <<listener, expired, request>> /\ main \in Stopping /\ main' \in Stopping
    BY <1>4 DEF ClosePublisher, ClosePostgres, CloseRedis, Stopping
  <2>2. Active' = Active /\ In("cut")' = In("cut")
    BY <2>1, SameRequests
  <2>3. Types'
    BY <1>4, <2>1 DEF ProcessInv, Types, ClosePublisher, ClosePostgres, CloseRedis
  <2>. QED
    BY <2>1, <2>2, <2>3 DEF ProcessInv, Order, Starting, Stopping
<1>5. CASE End
  <2>1. main = "ending" /\ main' = "exited" /\ UNCHANGED <<open, signalled, listener, expired>>
    BY <1>5 DEF End
  <2>2. Types'
    BY <1>5, <2>1 DEF ProcessInv, Types, End, RequestStates
  <2>3. Active' = {}
    BY <1>5 DEF End, Active, ProcessInv, Types, RequestStates
  <2>4. In("cut")' = Active \cup In("cut")
    BY <1>5 DEF End, Active, In, ProcessInv, Types
  <2>. QED
    BY <2>1, <2>2, <2>3, <2>4 DEF ProcessInv, Order, Starting, Stopping
<1>6. CASE \E r \in Requests : Accept(r) \/ Query(r) \/ EndQuery(r) \/ Respond(r)
  BY <1>6, RequestMoves
<1>7. CASE UNCHANGED processVars
  BY <1>7 DEF processVars, ProcessInv, Types, Order, Active, In
<1>. QED
  BY <1>1, <1>2, <1>3, <1>4, <1>5, <1>6, <1>7 DEF ProcessNext, Start, Stop

THEOREM ProcessInvHolds == ProcessSpec => []ProcessInv
<1>1. ProcessInv /\ [ProcessNext]_processVars => ProcessInv'
  BY ProcessKeeps
<1>. QED
  BY ProcessStarts, <1>1, PTL DEF ProcessSpec

(***************************************************************************)
(* Of a request that is done in time no deploy takes anything.             *)
(***************************************************************************)
THEOREM StoresOutlastRequestsHolds == ProcessSpec => []StoresOutlastRequests
<1>1. In("running") \cup In("querying") = Active
  BY DEF In, Active
<1>2. ProcessInv => StoresOutlastRequests
  BY <1>1 DEF ProcessInv, Types, Order, Starting, Stopping, StoresOutlastRequests
<1>. QED
  BY ProcessInvHolds, <1>2, PTL

THEOREM ProcessTypeOKHolds == ProcessSpec => []ProcessTypeOK
<1>1. ProcessInv => ProcessTypeOK
  BY DEF ProcessInv, Types, Order, Starting, Stopping, ProcessTypeOK
<1>. QED
  BY ProcessInvHolds, <1>1, PTL
=============================================================================
