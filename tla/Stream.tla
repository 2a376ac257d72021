------------------------------- MODULE Stream -------------------------------
(***************************************************************************)
(* Serve of src/internal/stream/sse.go with the frame filter of            *)
(* community.go: one entity's stream, opened again and again by one        *)
(* client, while the platform publishes frames for the entity and moves it *)
(* in and out of a community.                                              *)
(*                                                                         *)
(* Redis forgets a frame that nobody is subscribed to.  Between it and     *)
(* Serve is the client library's channel, which drops what it cannot hold  *)
(* and subscribes again by itself when its connection breaks.              *)
(***************************************************************************)
EXTENDS Naturals, Sequences, FiniteSets

CONSTANTS
    Kinds,          \* the kinds of frames the platform publishes
    Capacity,       \* what the library's channel holds
    MaxFrames, MaxStreams  \* bounds

ASSUME StreamAssumption ==
    /\ Kinds \subseteq {"plain", "garbled", "scoped", "orphan"}
    /\ Capacity \in Nat \ {0}
    /\ MaxFrames \in Nat /\ MaxStreams \in Nat

VARIABLES
    pc,             \* "off", or where Serve is
    streams,        \* how many there have been
    cancelled,      \* the context is done: lifetime over or client gone
    client,         \* "reads", "stalls" or is "gone"
    subscribed,     \* Redis's side of the subscription
    frames,         \* the kind of every frame published so far
    channel,        \* the library's channel: numbers of frames
    hand,           \* the frame Serve has taken; 0: none
    received,       \* what the client has read from this stream
    member,         \* is the entity in the community?
    witness,        \* history: was it, since the frame was taken?
    heard, missed   \* history: the frames of this stream that reached the
                    \* library, and those that were dropped or refused there

connection == <<streams, cancelled, client>>
history    == <<witness, heard, missed>>
vars == <<pc, connection, subscribed, frames, channel, hand, received, member, history>>

Init ==
    /\ pc = "off" /\ streams = 0 /\ cancelled = FALSE /\ client = "gone"
    /\ subscribed = FALSE /\ frames = <<>> /\ channel = <<>> /\ hand = 0
    /\ received = <<>> /\ member \in BOOLEAN
    /\ witness = FALSE /\ heard = {} /\ missed = {}

Goto(from, to) == pc = from /\ pc' = to

\* The client connects; Serve writes its headers and the ready event.
Connect ==
    /\ streams < MaxStreams
    /\ Goto("off", "ready")
    /\ streams' = streams + 1
    /\ cancelled' = FALSE /\ client' = "reads"
    /\ received' = <<>> /\ heard' = {} /\ missed' = {}
    /\ UNCHANGED <<subscribed, frames, channel, hand, member, witness>>

\* Only then it subscribes, and waits for no answer.
Subscribe ==
    /\ Goto("ready", "open")
    /\ UNCHANGED <<connection, subscribed, frames, channel, hand, received, member, history>>

(***************************************************************************)
(* The select loop.                                                        *)
(***************************************************************************)
\* The context is done, or a write has failed: the deferred Close.
Close ==
    /\ pc' = "off"
    /\ subscribed' = FALSE /\ channel' = <<>> /\ hand' = 0
    /\ UNCHANGED <<connection, frames, received, member, history>>

Done       == pc = "open" /\ cancelled /\ Close
WriteFails == pc = "writing" /\ client = "gone" /\ Close

Take ==
    /\ channel # <<>>
    /\ Goto("open", "checking")
    /\ hand' = Head(channel)
    /\ channel' = Tail(channel)
    /\ witness' = member
    /\ UNCHANGED <<connection, subscribed, frames, received, member, heard, missed>>

\* Mutant: the producer has checked it already.
AllowedOnce(kind) == kind # "orphan"

\* communityFrameAllowed: what is not scoped to a community passes unread;
\* what is needs a post and a member, in a community that is still there.
AllowFrame(kind) == kind \in {"plain", "garbled"} \/ (kind = "scoped" /\ member)

Allow ==
    /\ Goto("checking", "writing")
    /\ AllowFrame(frames[hand])
    /\ UNCHANGED <<connection, subscribed, frames, channel, hand, received, member, history>>

\* Refused, or the lookup has failed, as it does when the context is done.
Refuse ==
    /\ Goto("checking", "open")
    /\ \/ ~AllowFrame(frames[hand])
       \/ frames[hand] = "scoped"
    /\ missed' = missed \cup {hand}
    /\ hand' = 0
    /\ UNCHANGED <<connection, subscribed, frames, channel, received, member, witness, heard>>

\* Mutant: a frame that cannot be read is not written.
WriteReadable ==
    /\ client = "reads"
    /\ Goto("writing", "open")
    /\ received' = IF hand = 0 \/ frames[hand] = "garbled" THEN received
                   ELSE Append(received, hand)
    /\ hand' = 0
    /\ UNCHANGED <<connection, subscribed, frames, channel, member, history>>

\* Mutant: the frame is still in hand at the next heartbeat.
WriteAgain ==
    /\ client = "reads"
    /\ Goto("writing", "open")
    /\ received' = IF hand = 0 THEN received ELSE Append(received, hand)
    /\ UNCHANGED <<connection, subscribed, frames, channel, hand, member, history>>

\* The frame verbatim, or a heartbeat, is written and flushed.  To a client
\* that does not read this takes for ever: there is no deadline for a write.
Write ==
    /\ client = "reads"
    /\ Goto("writing", "open")
    /\ received' = IF hand = 0 THEN received ELSE Append(received, hand)
    /\ hand' = 0
    /\ UNCHANGED <<connection, subscribed, frames, channel, member, history>>

Heartbeat ==
    /\ Goto("open", "writing")
    /\ UNCHANGED <<connection, subscribed, frames, channel, hand, received, member, history>>

(***************************************************************************)
(* Redis and the client library.                                           *)
(***************************************************************************)
Subscribed ==
    /\ pc \notin {"off", "ready"} /\ ~subscribed
    /\ subscribed' = TRUE
    /\ UNCHANGED <<pc, connection, frames, channel, hand, received, member, history>>

ConnectionBreaks ==
    /\ subscribed
    /\ subscribed' = FALSE
    /\ UNCHANGED <<pc, connection, frames, channel, hand, received, member, history>>

Publish ==
    /\ Len(frames) < MaxFrames
    /\ \E kind \in Kinds : frames' = Append(frames, kind)
    /\ LET n == Len(frames')
       IN  IF ~subscribed THEN UNCHANGED <<channel, heard, missed>>
           ELSE /\ heard' = heard \cup {n}
                /\ IF Len(channel) < Capacity
                   THEN channel' = Append(channel, n) /\ UNCHANGED missed
                   ELSE missed' = missed \cup {n} /\ UNCHANGED channel
    /\ UNCHANGED <<pc, connection, subscribed, hand, received, member, witness>>

(***************************************************************************)
(* The rest of the world.                                                  *)
(***************************************************************************)
\* Mutant: the lifetime starts anew with every frame.
LifetimeRestarts ==
    /\ pc = "open" /\ ~cancelled /\ received = <<>>
    /\ cancelled' = TRUE
    /\ UNCHANGED <<pc, streams, client, subscribed, frames, channel, hand, received,
                   member, history>>

\* MaxLifetime is over.
LifetimeOver ==
    /\ pc # "off" /\ ~cancelled
    /\ cancelled' = TRUE
    /\ UNCHANGED <<pc, streams, client, subscribed, frames, channel, hand, received,
                   member, history>>

HangUp ==
    /\ pc # "off" /\ client # "gone"
    /\ client' = "gone" /\ cancelled' = TRUE
    /\ UNCHANGED <<pc, streams, subscribed, frames, channel, hand, received, member,
                   history>>

\* The client stops reading and stays connected.
Stall ==
    /\ client = "reads" /\ pc # "off"
    /\ client' = "stalls"
    /\ UNCHANGED <<pc, streams, cancelled, subscribed, frames, channel, hand, received,
                   member, history>>

MoveMember ==
    /\ member' = ~member
    /\ witness' = (witness \/ member')
    /\ UNCHANGED <<pc, connection, subscribed, frames, channel, hand, received, heard, missed>>

Serve == Subscribe \/ Done \/ WriteFails \/ Take \/ Allow \/ Refuse \/ Write

Next ==
    \/ Connect \/ Serve \/ Heartbeat
    \/ Subscribed \/ ConnectionBreaks \/ Publish
    \/ LifetimeOver \/ HangUp \/ Stall \/ MoveMember

Spec == Init /\ [][Next]_vars

\* Serve goes on when it can, and its lifetime passes; the select takes a done
\* context sooner or later, whatever else is ready.
FairSpec == Spec /\ WF_vars(Serve) /\ WF_vars(LifetimeOver) /\ SF_vars(Done)
-----------------------------------------------------------------------------
\* The numbers of the frames published so far.
Published == 1 .. Len(frames)

\* The type invariant; a frame is in hand only while it is checked or written.
TypeOK ==
    /\ pc \in {"off", "ready", "open", "checking", "writing"}
    /\ streams \in 0 .. MaxStreams
    /\ cancelled \in BOOLEAN /\ client \in {"reads", "stalls", "gone"} /\ subscribed \in BOOLEAN
    /\ frames \in Seq(Kinds) /\ Len(frames) <= MaxFrames
    /\ channel \in Seq(Published) /\ Len(channel) <= Capacity
    /\ received \in Seq(Published)
    /\ hand \in {0} \cup Published
    /\ pc = "checking" => hand # 0
    /\ hand # 0 => pc \in {"checking", "writing"}
    /\ member \in BOOLEAN /\ witness \in BOOLEAN
    /\ heard \subseteq Published /\ missed \subseteq Published

\* No frame is written twice or out of order, over heartbeats, refusals and
\* broken connections to Redis.
InOrder == \A i, j \in DOMAIN received : i < j => received[i] < received[j]

Sent(seq) == {seq[i] : i \in DOMAIN seq}

\* "Silently swallowing it would make a schema change look like silence": what
\* reached the library is still under way, or was written, or was dropped by
\* it or refused here; nothing else becomes of it while the stream is open.
\* And nothing is written that was not heard on this stream.
EveryFrameIsAccountedFor ==
    /\ pc # "off" =>
          heard = Sent(received) \cup Sent(channel) \cup missed \cup ({hand} \ {0})
    /\ Sent(received) \subseteq heard

\* "An earlier producer check cannot authorize a former member": a community's
\* frame goes out only if the entity was a member when Serve already had it.
FormerMembersHearNothing ==
    [][Len(received') > Len(received) /\ frames[hand] = "scoped" => witness]_vars

\* "The stream's own MaxLifetime is the bound": every stream ends, unless its
\* client stops reading and stays.
StreamsEnd == pc # "off" ~> pc = "off" \/ client = "stalls"

(***************************************************************************)
(* What a comment or a document says, and the code does not keep.          *)
(***************************************************************************)
\* "Frames published while you are disconnected are gone", the others are not:
\* a client that has seen ready, on a stream that is not over, gets on to
\* every frame.
ReadyMeansListening ==
    [][frames' # frames /\ pc # "off" /\ ~cancelled => heard' # heard]_vars
=============================================================================
