----------------------------- MODULE Publisher -----------------------------
(***************************************************************************)
(* Publisher of src/internal/queue/queue.go: the one RabbitMQ connection   *)
(* of a process, shared by every request under a mutex, dialled when it is *)
(* found closed and thrown away when a publish fails on it.                *)
(*                                                                         *)
(* The connection has two ends.  The broker's can go away unnoticed, and   *)
(* the client library notices some time later, or on the next call.        *)
(***************************************************************************)
EXTENDS Naturals

CONSTANTS
    Jobs,           \* the calls of Publish: each hands over one job
    Queues,
    QueueOf,        \* the queue each job is published to
    MaxConnections, \* bound on how often the broker is dialled
    DeletesQueues   \* does anybody delete a queue while it is in use?

ASSUME QueueAssumption == QueueOf \in [Jobs -> Queues]
ASSUME BoundAssumption == MaxConnections \in Nat /\ DeletesQueues \in BOOLEAN

None == 0   \* a nil connection: the broker numbers them from 1

VARIABLES
    pc,         \* where each call is
    conn,       \* p.conn
    channel,    \* p.channel: "nil", "open", or "closed" to the library
    declared,   \* p.declared
    belief,     \* what the library takes p.conn to be: "open" or "closed"
    dialled,    \* how many connections the broker has accepted
    live,       \* those whose broker end is up
    present,    \* the broker's queues
    wire,       \* how often each job was written and is still on its way
    queued,     \* how often each job was put on its queue
    result      \* what each call returned

fields == <<conn, channel, declared, belief>>
jobs   == <<wire, queued>>
broker == <<dialled, live, present, jobs>>
vars   == <<pc, fields, broker, result>>

Init ==
    /\ pc = [j \in Jobs |-> "idle"]
    /\ conn = None /\ channel = "nil" /\ declared = {} /\ belief = "open"
    /\ dialled = 0 /\ live = {} /\ present = {}
    /\ wire = [j \in Jobs |-> 0]
    /\ queued = [j \in Jobs |-> 0]
    /\ result = [j \in Jobs |-> "none"]

Goto(j, from, to) == pc[j] = from /\ pc' = [pc EXCEPT ![j] = to]

\* The call ends; the deferred Unlock with it.
Return(j, from, answer) ==
    /\ Goto(j, from, "done")
    /\ result' = [result EXCEPT ![j] = answer]

\* In the middle of a call, the library may notice that the connection is gone.
Noticing == UNCHANGED belief \/ (conn \notin live /\ belief' = "closed")

Holding == {"connect", "open", "declare", "publish", "written"}

Call(j) ==
    /\ Goto(j, "idle", "lock")
    /\ UNCHANGED <<fields, broker, result>>

\* Mutant: no mutex.
Barges(j) ==
    /\ Goto(j, "lock", "connect")
    /\ UNCHANGED <<fields, broker, result>>

Lock(j) ==
    /\ \A i \in Jobs : pc[i] \notin Holding
    /\ Goto(j, "lock", "connect")
    /\ UNCHANGED <<fields, broker, result>>

(***************************************************************************)
(* ensureChannel, in its three stages.                                     *)
(***************************************************************************)
NeedsDial    == conn = None \/ belief = "closed"
NeedsChannel == channel # "open"

KeepConnection(j) ==
    /\ ~NeedsDial
    /\ Goto(j, "connect", "open")
    /\ UNCHANGED <<fields, broker, result>>

Dial(j) ==
    /\ NeedsDial
    /\ dialled < MaxConnections
    /\ Goto(j, "connect", "open")
    /\ dialled' = dialled + 1
    /\ live' = live \cup {dialled'}
    /\ conn' = dialled'
    /\ belief' = "open"
    /\ channel' = "nil"
    /\ declared' = {}
    /\ UNCHANGED <<present, jobs, result>>

DialFails(j) ==
    /\ NeedsDial
    /\ Return(j, "connect", "failed")
    /\ UNCHANGED <<fields, broker>>

KeepChannel(j) ==
    /\ ~NeedsChannel
    /\ Goto(j, "open", "declare")
    /\ UNCHANGED <<fields, broker, result>>

OpenChannel(j) ==
    /\ NeedsChannel
    /\ conn \in live /\ belief = "open"
    /\ Goto(j, "open", "declare")
    /\ channel' = "open"
    /\ declared' = {}
    /\ UNCHANGED <<conn, belief, broker, result>>

\* Mutant: asks the same connection again, the mutex in its hand.
AsksForEver(j) ==
    /\ NeedsChannel
    /\ pc[j] = "open"
    /\ UNCHANGED vars

\* The call finds the connection gone, or runs into some other trouble.
OpenChannelFails(j) ==
    /\ NeedsChannel
    /\ Return(j, "open", "failed")
    /\ Noticing
    /\ UNCHANGED <<conn, channel, declared, broker>>

KeepDeclared(j) ==
    /\ QueueOf[j] \in declared
    /\ Goto(j, "declare", "publish")
    /\ UNCHANGED <<fields, broker, result>>

\* The queue is durable, and declared as every other service declares it.
Declare(j) ==
    /\ QueueOf[j] \notin declared
    /\ conn \in live /\ belief = "open" /\ channel = "open"
    /\ Goto(j, "declare", "publish")
    /\ present' = present \cup {QueueOf[j]}
    /\ declared' = declared \cup {QueueOf[j]}
    /\ UNCHANGED <<conn, channel, belief, dialled, live, jobs, result>>

\* The declaration, made or not, is not answered, or refused: a refusal
\* closes the channel.
DeclareFails(j) ==
    /\ QueueOf[j] \notin declared
    /\ Return(j, "declare", "failed")
    /\ \/ UNCHANGED present
       \/ conn \in live /\ present' = present \cup {QueueOf[j]}
    /\ channel' \in {channel, "closed"}
    /\ Noticing
    /\ UNCHANGED <<conn, declared, dialled, live, jobs>>

(***************************************************************************)
(* PublishWithContext writes the job and waits for no confirmation: it     *)
(* may reach the broker or be lost, before the call returns or after it.   *)
(***************************************************************************)
Sends(j, copies) ==
    \/ UNCHANGED wire
    \/ conn \in live /\ wire' = [wire EXCEPT ![j] = @ + copies]

\* Mutant: a second attempt after the first one's fate is unknown.
WritesTwice(j) ==
    /\ belief = "open" /\ channel = "open"
    /\ Goto(j, "publish", "written")
    /\ Sends(j, 1) \/ Sends(j, 2)
    /\ UNCHANGED <<fields, dialled, live, present, queued, result>>

Write(j) ==
    /\ belief = "open" /\ channel = "open"
    /\ Goto(j, "publish", "written")
    /\ Sends(j, 1)
    /\ UNCHANGED <<fields, dialled, live, present, queued, result>>

Publish(j) ==
    /\ Return(j, "written", "sent")
    /\ UNCHANGED <<fields, broker>>

\* Mutant: the broken connection is forgotten without being closed.
ForgetConnection ==
    /\ UNCHANGED live
    /\ conn' = None /\ channel' = "nil" /\ declared' = {} /\ belief' = "open"

\* reset: both ends are closed, and everything known about them forgotten.
reset ==
    /\ live' = live \ {conn}
    /\ conn' = None /\ channel' = "nil" /\ declared' = {} /\ belief' = "open"

\* Nothing could be written, or the write fails with the job out or not.
PublishFails(j) ==
    /\ Return(j, "publish", "failed") \/ Return(j, "written", "failed")
    /\ reset
    /\ UNCHANGED <<dialled, present, jobs>>

\* main's deferred Close, which waits for the mutex; requests that outlive the
\* shutdown may still call Publish after it.
Close ==
    /\ \A i \in Jobs : pc[i] \notin Holding
    /\ reset
    /\ UNCHANGED <<pc, dialled, present, jobs, result>>

(***************************************************************************)
(* What happens to jobs on their way, and to the connection.               *)
(***************************************************************************)
\* The job gets there: the default exchange puts it on its queue, or drops
\* what is addressed to a queue that does not exist.
Arrive(j) ==
    /\ wire[j] > 0
    /\ wire' = [wire EXCEPT ![j] = @ - 1]
    /\ queued' = IF QueueOf[j] \in present
                 THEN [queued EXCEPT ![j] = @ + 1] ELSE queued
    /\ UNCHANGED <<pc, fields, dialled, live, present, result>>

\* Or it does not, with a connection that broke under it.
Lose(j) ==
    /\ wire[j] > 0
    /\ wire' = [wire EXCEPT ![j] = @ - 1]
    /\ UNCHANGED <<pc, fields, dialled, live, present, queued, result>>

BrokerHangsUp ==
    /\ live # {}
    /\ live' = {}
    /\ UNCHANGED <<pc, fields, dialled, present, jobs, result>>

LibraryNotices ==
    /\ conn # None /\ conn \notin live /\ belief = "open"
    /\ belief' = "closed"
    /\ channel' \in {channel, IF channel = "open" THEN "closed" ELSE channel}
    /\ UNCHANGED <<pc, conn, declared, broker, result>>

\* Another broker answers from now on, with none of the queues.
BrokerReplaced ==
    /\ live = {} /\ present # {}
    /\ present' = {}
    /\ UNCHANGED <<pc, fields, dialled, live, jobs, result>>

QueueDeleted ==
    /\ DeletesQueues
    /\ \E q \in present : present' = present \ {q}
    /\ UNCHANGED <<pc, fields, dialled, live, jobs, result>>

Ensure(j) ==
    \/ KeepConnection(j) \/ Dial(j) \/ DialFails(j)
    \/ KeepChannel(j) \/ OpenChannel(j) \/ OpenChannelFails(j)
    \/ KeepDeclared(j) \/ Declare(j) \/ DeclareFails(j)

Work(j) == Ensure(j) \/ Write(j) \/ Publish(j) \/ PublishFails(j)

Next ==
    \/ \E j \in Jobs : Call(j) \/ Lock(j) \/ Work(j) \/ Arrive(j) \/ Lose(j)
    \/ Close
    \/ BrokerHangsUp
    \/ LibraryNotices
    \/ BrokerReplaced
    \/ QueueDeleted

Spec == Init /\ [][Next]_vars

\* Every call inside the mutex ends, with an answer or an error, and the
\* mutex hands itself to those who wait, as Go's does.
FairSpec ==
    /\ Spec
    /\ \A j \in Jobs : WF_vars(Work(j)) /\ SF_vars(Lock(j))
-----------------------------------------------------------------------------
\* The type invariant.
TypeOK ==
    /\ pc \in [Jobs -> {"idle", "lock", "done"} \cup Holding]
    /\ conn \in 0 .. dialled
    /\ channel \in {"nil", "open", "closed"}
    /\ declared \subseteq Queues
    /\ belief \in {"open", "closed"}
    /\ dialled \in Nat
    /\ live \subseteq 1 .. dialled
    /\ present \subseteq Queues
    /\ wire \in [Jobs -> Nat]
    /\ queued \in [Jobs -> Nat]
    /\ result \in [Jobs -> {"none", "sent", "failed"}]

\* The broker never holds a connection that the process has lost track of.
NoConnectionLeaks == live \subseteq {conn}

\* While the connection is up, what the cache says is declared is there: no
\* job is written to a queue that a replaced broker does not have.
DeclaredQueuesExist == conn \in live => declared \subseteq present

\* The mutex is held by one call at a time, and the one that publishes has a
\* channel and a declared queue, whatever became of them meanwhile.
PublishesOnAChannel ==
    \A j \in Jobs : pc[j] \in Holding =>
        /\ \A i \in Jobs \ {j} : pc[i] \notin Holding
        /\ pc[j] # "connect" => conn # None
        /\ pc[j] \in {"declare", "publish", "written"} => channel # "nil"
        /\ pc[j] \in {"publish", "written"} => QueueOf[j] \in declared

\* Every call of Publish returns: none waits for the mutex for ever.
EveryCallReturns == \A j \in Jobs : pc[j] = "lock" ~> pc[j] = "done"

\* What callers are promised: one answer to each call, and its job on the
\* queue at most once, at any time after the call began.
Promise         == INSTANCE JobQueue WITH called <- {j \in Jobs : pc[j] # "idle"}
KeepsThePromise == Promise!Spec

(***************************************************************************)
(* What a comment or a document says, and the code does not keep.          *)
(***************************************************************************)
\* "Returns false when it could not be handed over": a job Publish returned
\* false for is not on its queue, and the others are, or will be.
FalseMeansNotHandedOver ==
    \A j \in Jobs : result[j] = "failed" => queued[j] = 0

TrueMeansHandedOver ==
    \A j \in Jobs : result[j] = "sent" => queued[j] + wire[j] = 1
=============================================================================
