------------------------------ MODULE Presence ------------------------------
(***************************************************************************)
(* The presence of one entity: Recorder of src/internal/presence, called   *)
(* around every /v1/events stream by Events of src/internal/endpoints.     *)
(*                                                                         *)
(* A stream belongs to a credential of the entity.  Connected marks the    *)
(* credential's session row and starts an announcement on the side; when   *)
(* Serve returns, the deferred Disconnected unmarks the row, waits out     *)
(* the grace, asks whether any row of the entity is marked and, if none    *)
(* is, announces the entity offline.  The handler, and with it the         *)
(* response the client is reading, ends only after that.                   *)
(***************************************************************************)
EXTENDS Naturals

CONSTANTS
    Streams,            \* the streams the entity opens, each once
    Credentials,
    CredentialOf,       \* the credential each stream presents
    Viewers,            \* the entities in Scope: contacts and DM partners
    MaxFaults           \* bound on the calls that fail and processes that die

ASSUME CredentialAssumption == CredentialOf \in [Streams -> Credentials]
ASSUME FaultAssumption == MaxFaults \in Nat

VARIABLES
    handler,    \* where each stream's handler is
    attached,   \* is the client's end of the stream up?
    row,        \* the status of each credential's session row
    online,     \* the viewers each stream's online announcement has to reach
    offline,    \* and its offline announcement
    dot,        \* what the last frame each viewer got said
    faults,
    \* Histories, read by no action:
    late,       \* the viewers whose last frame was an online one, published
                \*   after the grace of its own stream was over
    displaced   \* the streams in whose time another stream of the same
                \*   credential was recorded as ended

vars == <<handler, attached, row, online, offline, dot, faults, late, displaced>>

\* "lost" is a handler that ended without having unmarked its row.
HandlerStates ==
    {"new", "open", "ending", "grace", "announcing", "done", "lost"}

Init ==
    /\ handler = [s \in Streams |-> "new"]
    /\ attached = [s \in Streams |-> FALSE]
    /\ row = [c \in Credentials |-> FALSE]
    /\ online = [s \in Streams |-> {}]
    /\ offline = [s \in Streams |-> {}]
    /\ dot = [v \in Viewers |-> FALSE]
    /\ faults = 0
    /\ late = {}
    /\ displaced = {}

Goto(s, from, to) ==
    handler[s] = from /\ handler' = [handler EXCEPT ![s] = to]

Fault == faults < MaxFaults /\ faults' = faults + 1

\* The one row of the stream's credential.
MarkRow(s, status) == row' = [row EXCEPT ![CredentialOf[s]] = status]

\* The other streams of s's credential whose end has not been recorded.
Siblings(s) ==
    {t \in Streams \ {s} : /\ CredentialOf[t] = CredentialOf[s]
                           /\ handler[t] \in {"open", "ending"}}

\* Connected writes the row and leaves the announcement to a goroutine; the
\* stream is served from here on.
Connected(s) ==
    /\ Goto(s, "new", "open")
    /\ attached' = [attached EXCEPT ![s] = TRUE]
    /\ MarkRow(s, TRUE)
    /\ online' = [online EXCEPT ![s] = Viewers]
    /\ UNCHANGED <<offline, dot, faults, late, displaced>>

\* The write fails, applied or not: served all the same, nothing announced.
ConnectedFails(s) ==
    /\ Fault
    /\ Goto(s, "new", "open")
    /\ attached' = [attached EXCEPT ![s] = TRUE]
    /\ UNCHANGED row \/ MarkRow(s, TRUE)
    /\ UNCHANGED <<online, offline, dot, late, displaced>>

\* The client goes away, on purpose or not.
HangUp(s) ==
    /\ attached[s]
    /\ attached' = [attached EXCEPT ![s] = FALSE]
    /\ UNCHANGED <<handler, row, online, offline, dot, faults, late, displaced>>

\* Serve returns: the server notices the client has gone, or the stream has
\* reached MaxLifetime, with its client at the other end.
ServeReturns(s) ==
    /\ Goto(s, "open", "ending")
    /\ UNCHANGED <<attached, row, online, offline, dot, faults, late, displaced>>

\* Mutant: the write runs under the context of the request that ended.
InheritsTheContext(s) ==
    /\ Goto(s, "ending", "grace")
    /\ UNCHANGED <<attached, row, online, offline, dot, faults, late, displaced>>

\* Disconnected begins by unmarking the row, whoever else has marked it.
Disconnected(s) ==
    /\ Goto(s, "ending", "grace")
    /\ MarkRow(s, FALSE)
    /\ displaced' = displaced \cup Siblings(s)
    /\ UNCHANGED <<attached, online, offline, dot, faults, late>>

\* That write fails, applied or not: Disconnected returns at once.
DisconnectedFails(s) ==
    /\ Fault
    /\ Goto(s, "ending", "lost")
    /\ attached' = [attached EXCEPT ![s] = FALSE]
    /\ UNCHANGED row \/ MarkRow(s, FALSE)
    /\ UNCHANGED <<online, offline, dot, late, displaced>>

\* Mutants: no re-read; or one that does not ask for a status.
AnnouncedOnClose == FALSE
AnyRow == \E s \in Streams : handler[s] # "new"

HasLiveSession == \E c \in Credentials : row[c]

\* The grace is over and a live session was found: nothing to announce.
Superseded(s) ==
    /\ HasLiveSession
    /\ Goto(s, "grace", "done")
    /\ attached' = [attached EXCEPT ![s] = FALSE]
    /\ UNCHANGED <<row, online, offline, dot, faults, late, displaced>>

\* The grace is over and no live session was found, or the question failed.
GoneOffline(s) ==
    /\ Goto(s, "grace", "announcing")
    /\ \/ ~HasLiveSession /\ UNCHANGED faults
       \/ Fault
    /\ offline' = [offline EXCEPT ![s] = Viewers]
    /\ UNCHANGED <<attached, row, online, dot, late, displaced>>

\* An online frame reaches v: in time, or when the stream it speaks of is
\* past its grace.  Nothing orders the announcement's goroutine, which has
\* announceTimeout, and the handler, which waits offlineGrace.
Light(s, v) ==
    /\ dot' = [dot EXCEPT ![v] = TRUE]
    /\ late' = IF handler[s] \in {"open", "ending", "grace"}
               THEN late \ {v} ELSE late \cup {v}

Darken(v) ==
    /\ dot' = [dot EXCEPT ![v] = FALSE]
    /\ late' = late \ {v}

\* announce reaches one viewer after the other, in no particular order.
PublishOnline(s, v) ==
    /\ v \in online[s]
    /\ online' = [online EXCEPT ![s] = @ \ {v}]
    /\ Light(s, v)
    /\ UNCHANGED <<handler, attached, row, offline, faults, displaced>>

PublishOffline(s, v) ==
    /\ v \in offline[s]
    /\ offline' = [offline EXCEPT ![s] = @ \ {v}]
    /\ Darken(v)
    /\ UNCHANGED <<handler, attached, row, online, faults, displaced>>

\* Redis has the frame, its reply is lost, and the driver will send it again.
PublishResent(s, v) ==
    /\ \/ v \in online[s] /\ Light(s, v)
       \/ v \in offline[s] /\ Darken(v)
    /\ UNCHANGED <<handler, attached, row, online, offline, faults, displaced>>

\* A scope is partial, a frame cannot be signed, or a publish fails: some of
\* the viewers are not told.
AnnounceFails(s) ==
    /\ Fault
    /\ \/ /\ online[s] # {}
          /\ online' \in {[online EXCEPT ![s] = rest] :
                             rest \in SUBSET online[s] \ {online[s]}}
          /\ UNCHANGED offline
       \/ /\ offline[s] # {}
          /\ offline' \in {[offline EXCEPT ![s] = rest] :
                             rest \in SUBSET offline[s] \ {offline[s]}}
          /\ UNCHANGED online
    /\ UNCHANGED <<handler, attached, row, dot, late, displaced>>

\* The handler returns, and only now does the client see the stream end.
HandlerReturns(s) ==
    /\ offline[s] = {}
    /\ Goto(s, "announcing", "done")
    /\ attached' = [attached EXCEPT ![s] = FALSE]
    /\ UNCHANGED <<row, online, offline, dot, faults, late, displaced>>

\* The process ends: a crash, or a SIGTERM, on which main waits for open
\* streams without telling them to end, and then exits.
Exit ==
    /\ Fault
    /\ \E s \in Streams : handler[s] \in {"open", "ending", "grace", "announcing"}
    /\ handler' = [s \in Streams |->
          IF handler[s] \in {"open", "ending"} THEN "lost"
          ELSE IF handler[s] \in {"grace", "announcing"} THEN "done"
          ELSE handler[s]]
    /\ attached' = [s \in Streams |-> FALSE]
    /\ online' = [s \in Streams |-> {}]
    /\ offline' = [s \in Streams |-> {}]
    /\ UNCHANGED <<row, dot, late, displaced>>

Serving(s) ==
    \/ ServeReturns(s)
    \/ Disconnected(s)
    \/ Superseded(s)
    \/ GoneOffline(s)
    \/ HandlerReturns(s)
    \/ \E v \in Viewers : PublishOnline(s, v) \/ PublishOffline(s, v)

Next ==
    \/ \E s \in Streams :
          \/ Connected(s)
          \/ ConnectedFails(s)
          \/ HangUp(s)
          \/ Serving(s)
          \/ \E v \in Viewers : PublishResent(s, v)
          \/ DisconnectedFails(s)
          \/ AnnounceFails(s)
    \/ Exit

Spec == Init /\ [][Next]_vars

\* A handler and its announcements keep going; no client has to do anything.
FairSpec == Spec /\ \A s \in Streams : WF_vars(Serving(s))
-----------------------------------------------------------------------------
\* The type invariant.
TypeOK ==
    /\ handler \in [Streams -> HandlerStates]
    /\ attached \in [Streams -> BOOLEAN]
    /\ row \in [Credentials -> BOOLEAN]
    /\ online \in [Streams -> SUBSET Viewers]
    /\ offline \in [Streams -> SUBSET Viewers]
    /\ dot \in [Viewers -> BOOLEAN]
    /\ faults \in 0 .. MaxFaults
    /\ late \subseteq Viewers
    /\ displaced \subseteq Streams

\* A row that reads online has a stream behind it that has not been recorded
\* as ended, or one that ended without being able to record it.
OnlineRowHasAStream ==
    \A c \in Credentials : row[c] =>
        \E s \in Streams : /\ CredentialOf[s] = c
                           /\ handler[s] \in {"open", "ending", "lost"}

Settled ==
    \A s \in Streams : /\ handler[s] \in {"new", "done"}
                       /\ online[s] = {} /\ offline[s] = {}

\* When every stream is over and nothing failed, a dot that is still lit was
\* lit by a frame that came after its own stream's grace.  However streams
\* and credentials overlap, the grace and the re-read never end with every
\* handler assuming that another one announces it.
OnlyLateFramesStay ==
    faults = 0 /\ Settled => \A v \in Viewers : dot[v] => v \in late

\* A stream that is being served is online in the source of truth, as long as
\* no other stream of its credential was recorded as ended in its time.
ServedRowIsLive ==
    \A s \in Streams \ displaced :
        faults = 0 /\ handler[s] = "open" => row[CredentialOf[s]]

\* Offline is not announced over a stream that is being served, unless the
\* end of another stream of its own credential has unmarked its row, or a
\* call failed.
ServedStaysOnline ==
    [][\A s \in Streams, t \in Streams \ displaced :
          handler[s] = "grace" /\ handler'[s] = "announcing" /\ faults' = 0
            => handler[t] # "open"]_vars

\* Once every client has gone and none comes back, every dot goes out, but for
\* those a late frame lights, and every row with it, unless something failed.
EverybodyGone == \A s \in Streams : ~attached[s]

GoneGoesDark ==
    EverybodyGone ~> \/ ~EverybodyGone
                     \/ faults > 0
                     \/ /\ \A v \in Viewers : dot[v] => v \in late
                        /\ \A c \in Credentials : ~row[c]

(***************************************************************************)
(* What a comment or a document says, and the code does not keep.          *)
(***************************************************************************)
\* "Settles it from the source of truth rather than from event ordering":
\* when every stream is over and nothing failed, every dot is out.
SettledDotsAreOut ==
    faults = 0 /\ Settled => \A v \in Viewers : ~dot[v]

\* "If the client came back its row is live again": a client that reads an
\* open stream is online in the source of truth.
ConnectedRowIsLive ==
    \A s \in Streams :
        faults = 0 /\ attached[s] /\ handler[s] = "open" => row[CredentialOf[s]]

\* "If the client came back": offline is not announced while a client is
\* connected.  A client cut at MaxLifetime comes back only when it has seen
\* its stream end, which is after the announcement.
NotAnnouncedWhileConnected ==
    [][\A s \in Streams :
          handler[s] = "grace" /\ handler'[s] = "announcing" /\ faults' = 0
            => \A t \in Streams : ~attached[t]]_vars

\* "Long enough for open streams to end cleanly": once the process has gone,
\* no row is left online.
NoRowLeftOnline ==
    (\A s \in Streams : handler[s] \in {"new", "done", "lost"})
        => \A c \in Credentials : ~row[c]
=============================================================================
