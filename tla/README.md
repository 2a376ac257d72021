# developer_service, in TLA+

A TLA+ development of `src/`, the Go service that opens the platform to
programs: bearer tokens, rate limits, an event stream with presence, and the
sending of messages and comments. It holds models that TLC checks on small
instances, and proofs of the most important properties, for all instances, that
TLAPS checks.

## The system

The service is stateless in itself and runs in any number of replicas. What it
shares is in Postgres (tokens, permissions, contacts, realms, posts, comments),
Mongo (messages, conversations, sessions, notifications), Redis (rate-limit
keys, locks, pub/sub) and RabbitMQ (jobs). Node and Django services of the same
platform read and write those stores at the same time.

| Component | Source | State | Operations |
|---|---|---|---|
| Gate | `auth/middleware.go`, `auth/token.go` | the token's row, permission rows, `last_used_at` | Verify, TouchLastUsed, CheckRateLimit, Authorize |
| Rate limit | `auth/ratelimit.go` | one Redis key per token and window | CheckRateLimit: INCR, and EXPIRE on the first |
| Event stream | `stream/sse.go`, `platform/community.go` | a subscription, a channel of the Redis library, the response | Serve: ready, subscribe, filter, write, heartbeat, end |
| Presence | `presence/*.go`, `endpoints.go` Events | one session row per credential; the dots other people see | Connected, Disconnected, announce |
| Job publisher | `queue/queue.go` | one connection, one channel, a cache of declared queues, a mutex | Publish, ensureChannel, reset, Close |
| Sending | `platform/send.go`, `platform/membership.go` | messages, the conversation, frames, pushes, the score's lock | SendMessage and its fan-out |
| Commenting | `platform/comments.go`, `notifications.go`, `post_activity.go`, `mentionable.go`, `community.go` | comments, notifications, activity frames, jobs | CreateComment and its fan-out |
| Reply thread | `platform/thread.go`, `messages.go` | the walk of one request | ReplyThread |
| Text | `platform/mentions_parse.go` | none | ExtractMentions, SanitizeForStorage |
| Conversation reads | `platform/messages.go`, `membership.go`, `identity.go` | one request, over several statements | ConversationMessages, ConversationReplies |
| Moderation reads | `platform/moderation.go`, `community.go` | one request | MessageModeration, PostModeration, CommentModeration |
| Post and mention reads | `platform/posts.go`, `mentions.go`, `community.go`, `identity.go` | one request | PostComments, CommentMentions, CommentReplies |
| Search | `platform/entities.go`, `mentionable.go` | one request | SearchEntities |
| Process | `cmd/developer/main.go`, `connections/` | the clients of the stores, the listener, the requests that run | start, Shutdown, the deferred closes |

Interaction: every `/v1` route passes the Gate, whose third step is the rate
limit. `GET /v1/events` wraps Serve between Connected and Disconnected.
SendMessage and CreateComment write a store first and then fan out, best effort:
to the pub/sub channels that Serve reads and to the publisher's queues.

What is hard: replicas race on the stores with no transaction over two of them;
rows that were read are edited before they are used; any call may fail with its
effect applied; announcements, graces and requests of one entity overlap;
processes end under open streams; one mutex guards a connection with two ends.
`PROJECT.json` lists each of these at its line under `hazards`.

Correct means, for each: a request is served or refused only for cause, and a
limit limits (Gate, rate limit); a frame is written once, in order and to those
entitled (stream); a row or dot says online only for cause and goes out in the
end, but for frames that came late (presence); a job is handed over at most once
and no caller hangs (publisher); nobody hears of what was not stored, or may not
see it, nor twice but for an acknowledgement lost (sending, commenting); a thread is one lineage (reply thread); a read shows what
its caller was entitled to and all that was due (reads); the stores outlast the requests, and the process ends (process).

## The modules

An action is one exchange with a store or one step of a handler between two; what
the code computes in between is part of the action. A failed exchange may have
taken effect. Names are those of the source where TLA+ allows. `PROJECT.json`
maps every definition to its lines. A definition whose comment starts with
`Mutant:` is not part of the specification: it is a definition gone wrong, put
in its place to see that a property would notice.

* **Window**: `windowBounds` with the part of Go's calendar it uses, and the
  Retry-After header. The lengths of the units are constants; an instant is a
  number of ticks since Go's zero time, from which `Truncate` rounds.
* **Calendar**, **Text**: the pure functions beside reference definitions.
  Calendar is a clock that counts days and knows the months on the wall; Text has the regular expressions that `mentions_parse.go` says it
  stands in for, matched leftmost and greedy with backtracking.
* **RateLimit**: any number of requests of one token against Redis. `store`
  holds a key's count, death and life; `held` is the row that a request was
  verified with. The key's death is in whole seconds, as go-redis sends it.
  go-redis sends a command again whose reply it did not get, three times unless
  told otherwise, and `connections.go:81` does not tell: IncrResent and
  ExpireResent are those commands, and the history `resent` names them.
* **Gate**: the four steps for any number of requests of one credential. The
  histories `ever` and `always` collect which entitling facts held at some, and at
  all, moments of a request; the facts are spelled out a second time in the
  module, apart from the code's tests.
* **Presence**: one entity with several streams over several credentials.
  `row` is the sessions collection, `dot` what each viewer was last told,
  `online` and `offline` the viewers an announcement has still to reach. Nothing
  in `presence.go` orders an announcement (`:189`, up to 15 seconds) and the
  offline grace (`:79`, 6 seconds), nor the streams of one credential, and neither
  does the model: an online frame may come after the offline one. Two histories say
  whom that happened to: `late`, the viewers whose dot was last lit after the offline
  frame, and `displaced`, the streams whose row the end of a sibling has unmarked.
* **Publisher** implements **JobQueue**, the abstract specification of what
  callers may count on: one answer, given once, and the job at most once on its
  queue, be it before the answer or after it. PublishWithContext without confirms
  returns when the frame is written (`queue.go:124`): `wire` holds what is on its
  way, which arrives or is lost whenever it does. The refinement mapping
  is the identity on `queued` and `result`, and `called` is who has left "idle".
* **Stream**: Serve, the client's end of the response, Redis's end of the
  subscription, the library's bounded channel. Frames are numbers; their kind
  decides the filter. `heard`, `missed` and `witness` are history.
* **SendMessage**: sends into one conversation, direct or of a realm. Rows are
  pairs (action_by, involved). Each statement is a step: the capability's two, the
  membership's, both again for Receivers, its sources, and the two of the type. Which
  are asked in which order, and what each failure does, is the code's. Two
  histories: `entered`, which community came into the conversation while which
  send resolved its receivers, and `unread`, whose lookup of the realm failed.
* **Comments**: comments on one post, whose tags, among several communities, and
  readers change. WriteNotification is its three exchanges (LoadAccess,
  LoadComment, WriteNotification), of which the last may be made and reported
  as failed. Histories: `entitled`, who could read a comment at some moment since it
  was stored; `late`, the communities a post came into after a draft was let in as
  to another's; `lost`, the notifications inserted without acknowledgement.
* **ReplyThread**: the walk over segments and the two traversals of each.
* **RealmName**: the recursion of that name, one statement for each level, over
  realms that are moved meanwhile.
* **GuardedRead**: what every read promises, as an abstract specification. Facts
  hold in the stores; sets of facts entitle to the request (`entry`) and to each
  thing that can be shown (`ways`). `ever` and `always` are the facts that held at
  some, and at each, moment of the request. One answer is given; what it shows was
  entitled to by facts of `ever`; it is a 404 only if `always` did not entitle.
* **World**: the stores during one request, and those two histories.
  **ConversationAccess**: AssertMember's questions, one a step, and what entitles to a
  conversation; what the document names and what sort those entities are is one
  question, since the sort of an entity never changes. **PostAccess**: `loadPostAccess` and `permits`, and what entitles to a
  post. **CommentRows**: the two steps of `commentRowsForViewer`. **Identity**:
  `HandlesFor`. **Filter**: the loop that keeps what passes a test, and the orders in
  which a store may answer. These are shared by the modules that follow.
* **History**, **Moderation**, **PostReads**, **Search**: one request of the routes
  named above, a statement a step, while others write to what it reads. Rights
  are spelled out in `Ways`, apart from the code's tests.
* **Scope**: one announcement of Recorder, from the two queries for whom to tell to the
  last frame, read from two stores while contacts and conversations change. It
  is a read too: those who are shown are those told.
* **Reads** puts History, Moderation, PostReads, Search and Scope side by side: a
  behaviour is one request of one of them, and all five are mapped to one GuardedRead.
  **Walks** does so with ReplyThread, RealmName, Text and Calendar.
* **Process**: main, from the first Open to the exit, with the requests that net/http
  runs meanwhile. Shutdown of net/http and Close of pgxpool are external.
* **MC...** modules give the constants their values and say nothing else; Stream and
  Process need none.
* **...Proofs** modules hold the theorems: one for each component, but that
  **ProcessProofs** has Process and Publisher, and **AnswersProofs** Walks and Reads.

RateLimit, Presence, Publisher, Gate, SendMessage, Comments, Stream and Process are
not composed into one specification: they meet only through a call
with a few outcomes (CheckRateLimit is one nondeterministic step of Gate; Publish
is true or false to the fan-outs; a request to Process is running, at a
statement, or over), and each caller takes all of them. The reads write nothing,
so that two of them cannot meet at all.

## The runs

| Run | Instance | Shows |
|---|---|---|
| rate_limit | 3 requests, a window turning, 2 ticks to the second, rows edited among three, one command sent again | LimitPerLife, LimitUntilTheLastSecond, LimitTwicePerWindow, DenialIsEarned, RetryAfterIsTight |
| rate_limit_rounding | the same, one row | violated: LimitPerWindow |
| presence | 3 streams, 2 credentials, 1 viewer, 1 fault; overlapping as they like | OnlineRowHasAStream, OnlyLateFramesStay, GoneGoesDark, ServedStaysOnline |
| publisher | 3 calls, 2 queues, 3 connections | NoConnectionLeaks, PublishesOnAChannel, KeepsThePromise, EveryCallReturns |
| gate | 2 requests, one of them behind RequireScope, 3 rows, 2 permissions, 2 seconds | ServedWasDue, RefusalIsEarned, UseIsRemembered |
| send_message | 2 sends, 3 entities of which one a community, direct or a server's channel; the first send may fail or die anywhere | HeardIsStored, AnswersAreTrue, NothingTwice, OnlyLateCommunitiesHear, WrongTypesAreUnread, ConversationIsKept |
| send_realm_fault | the same in a channel, either may fail | violated: RealmRules |
| comments | 3 drafts (one anonymous), 3 old comments, two communities, acknowledgements lost | ThreadsHoldTogether, ToldMayRead, SecondPingsAreUnacknowledged, AnswersAreTrue, WrittenByMembers |
| stream | 3 frames of 4 kinds, 2 streams, a channel of 2 | InOrder, EveryFrameIsAccountedFor, FormerMembersHearNothing, StreamsEnd |
| walks | 5 messages, limits 1 and 4, 1 deletion; 3 realms, 3 moves; texts to length 7 over two alphabets, the no-break space among them; years 1 to 2101 | KeepsTheLine, StopsForCause, Answered; SameText; FollowsTheWallCalendar |
| reads | 2 changes during a request (1 in a search); 6 messages, 5 documents, 4 comments, 6 notifications, 5 entities | AsGuarded, NothingSkipped |
| process | 2 streams, 2 other requests | StoresOutlastRequests, NotHeldHostage |

AsGuarded is the refinement of GuardedRead by all five reads. NothingSkipped is
each read's own: whatever was due throughout is in the answer, in its order, or
pushed out by as many as the limit that were newer (messages, comments,
notifications) or better (search); a batch misses a document only for cause, and
decides a conversation once; an announcement reaches those the half of the scope
that was read holds. KeepsTheLine is about both walks upwards: OneLineage
of a thread, ParentsFirst of a realm's name.

Each `TypeOK` either is a theorem or has been checked on its run's instance; no
run repeats it.

Why the bounds are enough. The races are between two requests over one piece of
state, so two or three actors meet them; a third lets one go stale while two
others race. RateLimit needs a window to end under a request and a tick finer
than a second; OneRetry has one command sent again in a behaviour, for each
further one only counts more of what one does. Presence needs two streams on one
credential and one on another; viewers do not act on one another, and one shows what
becomes of a dot (the proofs are for any set of them). OnlyTheFirstFails lets one
of two sends fail or die: the other is the one that would hear of it. A direct
conversation has no document before the first send; a realm's may have one.
Comments' Bounds has the draft that aims at the other post's comment through before
the other two begin, and only the first of them fail; every draft may lose
acknowledgements.
A channel of two with three frames overflows, and two streams let one inherit
from the other. Five messages with a limit of 4 and readable sets with holes
make a walk of several segments that is cut by shape, by deletion, by
conversation and by the limit. Seven characters hold two mentions, and a tag
within a tag. A read has at most one statement between a check and what it guards
that matters, so that a fact may be taken away and another come between
two of its statements: two changes; a search is two statements and has one.
MCReads draws its messages, posts and entities so that each kind of each
is there: deleted, unreadable, elsewhere, anonymous, without text, without a
slug, of a number that another store uses too, and private, tagged, of one
community or two. The clocks, lives, faults and counters are bounded by
`MaxTime`, `MaxLives`, `MaxFaults`, `MaxFrames`, `MaxStreams`,
`MaxConnections`, `MaxRetries`, `MaxDeleted`, `MaxChanges`, `MaxLength`, `MaxHandle`, `LastYear`.
Deadlock is not checked, because each of these systems may simply be done.

Fairness. A handler that can take a step takes it (`WF` on the steps of Presence's
handlers, Publisher's calls, Stream's Serve, ReplyThread's walk): they are goroutines
and the runtime schedules them. `SF` on Publisher's Lock is Go's mutex, whose
starvation mode hands it to whoever has waited; in Process main goes on, the
fifteen seconds pass and a statement ends, but of no handler is it assumed that it
returns; `SF` on Stream's Done is
`select`, which takes a ready case at random. No fairness is assumed of
clients, of the stores, of failures or of anybody who edits. Writes to a client
that stalls are not assumed to end.

## Proofs

All for any values of the constants under the modules' assumptions.

* **RateLimitProofs**, on the windows: a window contains the instant it was
  computed for; two windows of a period are equal or disjoint; Retry-After lies
  within one second after the window. The year and month cases rest on the
  monotony of DaysBeforeYear and on the existence that YearOf and MonthOf choose
  from. FollowsTheWallCalendar holds at every instant of every year:
  PagesAreDates says that the counting clock's pages are the dates Go computes.

  On the requests: TypeCorrect, LimitPerLife, LimitUntilTheLastSecond,
  LimitTwicePerWindow, DenialIsEarned, RetryAfterIsTight, ImmortalKeysAreFaults,
  all of them with commands that the driver sends again. LimitPerLife
  alone is not
  inductive: it does not know that two requests counted in one life hold
  different counts. IInv adds that (LivesAreApart, with what live keys have
  counted), that an answer follows from the request's own count
  (AdmittedWithinLimit), what a request's snapshot was (Snapshots), and that
  who may set a key's death was its life's first (OpenersAreFirst). The
  admitted requests then map one to one into 1..limit by their counts.
  LimitPerWindow does not hold (rate_limit_rounding). What is left of it,
  LimitTwicePerWindow, needs to know why
  a third life does not begin in a window. SuccessorsOutlive says it: EXPIRE is
  set to less than a second before the end at the earliest (KeysDieLate); a request
  whose life is over has less than a second of its window left, and the life that
  follows gets at least a second (OutlivedLate); so once two lives are over the
  window is (OutlivedTwice), and those counted in time were counted in two
  lives (TwoLives), numbered 1..limit and limit+1..2*limit. LimitUntilTheLastSecond
  says where the second life is: those counted a second or more before the end
  share a life (OneEarlyLife). DenialIsEarned follows
  from CountsAreEarned: no count is higher than the number of calls made under that
  key, one for each request that is past the counter and one for each that was sent
  again, for none is ever taken back.
* **PresenceProofs**: TypeCorrect, OnlineRowHasAStream, OnlyLateFramesStay,
  ServedRowIsLive, ServedStaysOnline, with no assumption on timing, on the order of
  streams or on the lifetime cap. OnlineRowHasAStream is inductive with the types.
  OnlyLateFramesStay follows from DotsAreOwed: each dot lit in time is owed an
  offline frame by some stream still going. ServedStaysOnline follows from KeepsItsRow:
  an open stream that no sibling has displaced has its row, so that whoever comes out of
  the grace and asks for a live session finds one.
* **ProcessProofs**, on Publisher: NoConnectionLeaks and PublishesOnAChannel by an invariant
  on the two ends of the connection; KeepsThePromise is the refinement: Init
  implies JobQueue's and every step is one of its steps or stutters, because
  of WrittenOnce (a job is on its way or queued once at most, and not before
  its call has come to write it).
  DeclaredQueuesExist holds if nobody deletes queues.
* **GateProofs**: ServedWasDue and RefusalIsEarned from DueInv: what a request
  has seen was witnessed, what it carries on from it was due when it was seen.
  TouchesAreSpaced and UseIsRemembered follow from the type invariant and the
  throttle's comparison, for any interval.
* **StreamProofs**: InOrder, EveryFrameIsAccountedFor and
  FormerMembersHearNothing. The invariant joins what was received, what is in
  hand and what the channel holds into one increasing line (Order), says that
  between streams nothing is left over (Accounting), and carries the witness
  from the check to the write (Guarded).
* **ProcessProofs**, on Process: its types and StoresOutlastRequests. The second is not inductive: it
  does not know that no request is accepted once Shutdown has begun, nor that
  none is left when the first client is closed. Order says for each stage of
  main what is open, whether the listener is, and which requests may be left.

* **SendMessageProofs**: HeardIsStored, AnswersAreTrue, NothingTwice,
  OnlyLateCommunitiesHear, ConversationIsKept, WrongTypesAreUnread. None is inductive:
  each speaks
  of what is stored or was told, and the steps act on what a send carries from one
  stage to the next. Whereabouts says for each stage of SendMessage and of fanOut
  what has been read, composed and inserted (a send behind Insert is stored, one before
  it is not); Heard, that every frame, push and last-message summary is about a stored
  send past its insert (or one whose pod is gone) and went to the receivers that send
  resolved; BumpsAreLocked, that the bumps queued and the sends about to queue one are
  together no more than the lives the lock has had; PeopleOnly, that no send past
  the question of its capability has a community for its sender, and that what communities
  are among its receivers, or among those it has yet to read them from, have entered
  since it asked last. OnlyLateCommunitiesHear rests on MemberAssumption, what
  `membership.go:84` says of the rows of realms: their members are people.
  WrongTypesAreUnread, from GivenTypes: each type resolved or stored is the realm's, or
  the claim of a send that could not read it, which stays what it was.
* **CommentsProofs**: ThreadsHoldTogether, AnswersAreTrue, ToldMayRead,
  SecondPingsAreUnacknowledged, WrittenByMembers. Whereabouts again ties the stage of a
  comment to what it has
  loaded and stored; Threads keeps two levels, because a parent that was loaded
  is on the top level of the same post for good; Entitled carries the witness of who
  may read from the check of WriteNotification to its write.
  SecondPingsAreUnacknowledged needs Pings: whoever has a notice counts as notified or
  its acknowledgement was lost, and who is still to be mentioned neither counts nor
  has been mentioned. WrittenByMembers needs LetIn: the INSERT
  (`comments.go:149-152`) asks whether there is any tag and for membership in the
  community read before, and the post is in no other than that one but for those
  it has come into since.

* **AnswersProofs**, on the tools. What a loop, a walk or `LIKE` computes on an
  input of any size is an induction. The theorems of the library that say so take the
  statement as a parameter, which no prover here can instantiate; but that the
  order on finite sets is well-founded has none, and gives each proof its least
  counterexample: the shortest prefix on which Only, an iteration or the places of
  a pattern go wrong (LeastNumber, Induction, Iteration). From that follow what
  Only selects, that `linkedAncestors` lists what lies above its start, that
  `$graphLookup` has found all of it that is within the segment (SegmentFinds,
  SegmentContinues), and that `LIKE`'s set of places is where the term begins
  (LikeStarts, LikeHas).

  On the walks: KeepsTheLine and StopsForCause, for any links, circles included,
  limits and deletions. ThreadInv says that between two segments the walk stands at
  the first message above those it has listed; those were of the conversation when they
  were read, and nothing enters it later. RealmInv says of each name but the last
  that it is what was stored as the parent of its child when that was read. KeepsTheLine
  alone is not inductive: a list says nothing of where the next segment begins.

  On the texts: SameText, for texts of any length and any alphabet. A no-break space ends a
  mention for the expression and not for the loop, so the loop's matches are those of the
  text with its no-break spaces blotted out (ScannedBlotted). Text's definitions are recursive
  functions that go on further up or down the text; Jumps and Iteration say that each
  is defined, Downward is induction from the end. A tag ends at the same
  place for the scanner as for the expression that gives back (TagMatches), so both strip
  the same; no bracket of what is left begins a tag (Calm), so stripping it again
  changes nothing. A handle has no "@" and ends in no space, so the
  expression, which goes on behind its match, still finds whatever mention the
  loop comes to (SearchGoesOn), and its longest handle is the loop's (SameHandles);
  from any place on, the matches left are those the loop still has to note
  (MentionsAreSame).

  On the reads: AsGuarded and NothingSkipped, of all five and for any
  stores, requests and number of changes. ReadsInv has for each read what every stage of it
  has witnessed and still owes. HistoryInv: whose question is asked has passed those
  before it, by facts of `ever`, and what was due and is not in the window had the limit's
  worth of newer messages. ModerationInv: a conversation's decision follows from what
  was witnessed around it, and each id is still in hand, was refused with its
  conversation or is let through. PostInv: the rows and posts asked about so far
  (RowsSound, RowsDue), what the notifications were, and that whoever is told signed.
  SearchInv: what is found was findable and stands in order, what is due and was
  not found had the limit's worth of others before it; that what contains a term of
  plain letters matches its pattern is the argument about `LIKE` (NotEscaped: no letter of
  such a pattern, nor its last `%`, is behind a backslash). ScopeInv: whoever is on the
  way to be told has had a ground (Witnessed), and which half of the scope, once
  read, still holds whom (StillDue). GuardedRead follows from three facts about each: it opens
  unanswered (Opens), its answer is always Justified, and each of its steps is before
  the answer and leaves what entitles as it is (Goes).

The assumptions are the modules' own, among them that the stores are finite, and that a post is
neither a comment nor a notification. What a specific theorem assumes beyond them is said
above and stands in its statement.

What TLC checks and is not proved: the liveness properties (GoneGoesDark,
EveryCallReturns, StreamsEnd, Answered, NotHeldHostage), which are out of the prover's
reach, as is ENABLED.

## Where the code and its words part

Two runs are violations: rate_limit_rounding (a key dies before its window, by
`EXPIRE`'s whole seconds, `ratelimit.go:183-191`) and send_realm_fault (a
failed lookup is taken for an absent one, `send.go:503`, and pins the caller's
type on a realm, against `API.md:686`).

The last section of a module states what a comment or a document says and the
code does not keep; TLC refutes each when it is added to the named cfg. (Of a part
of MCReads it is added as, for instance, `serving = "history" => H!ReadableParents`, and of
MCWalks as `T!SameAnswers`.)
No run of the project rests on them.

| Definition | cfg | What the words are, and what happens |
|---|---|---|
| RateLimit.OthersFillTheWindow | RateLimit | `ratelimit.go:142-146`: every attempt is counted, once; an INCR whose reply is lost is sent again by go-redis (`connections.go:81` leaves its three retries), and at a limit of 1 the request is refused with nobody else in the window |
| RateLimit.NoKeyIsForEver | RateLimit | `ratelimit.go:184-186`: the key must die when the window ends; when the INCR that opened it is sent again and answers 2, nobody sets an EXPIRE (`:182`) |
| RateLimit.TimeToLiveIsSetOnce | RateLimit | `ratelimit.go:184-188`: later increments must not push the time to live out; an EXPIRE that is sent again does, by the time between the two |
| Presence.NoRowLeftOnline | Presence | `main.go:165` gives open streams time to end; shutdown tells none of them to, and rows stay online |
| Presence.ConnectedRowIsLive | Presence | `presence.go:72-73`: a client that came back has a live row; with overlapping streams of a credential the end of one unmarks the row of the other (`:148`) |
| Presence.NotAnnouncedWhileConnected | Presence | `presence.go:71-73`: not announced if the client came back; the same overlap, or a client that reads on at its stream's lifetime cap (`presence.go:64-78`) |
| Presence.SettledDotsAreOut | Presence | `presence.go:71`: settled from the source of truth rather than from event ordering; an online frame that takes longer than the grace (`:189`, `:79`) lights the dot for good |
| Publisher.TrueMeansHandedOver | Publisher | `queue.go:102`: true also for a job lost on the way or sent to a queue that is gone |
| Publisher.FalseMeansNotHandedOver | Publisher | `queue.go:102`: whether the job was handed over; a job written before the connection broke arrives although the answer was false |
| Gate.ServedWhileBothHeld | Gate | `token.go:273`: the scope is Verify's, the grant is read later |
| SendMessage.CommunitiesStayOut | SendMessage | `membership.go:214-216`: no community is a messaging target; one that is added between the last question of the capability and the reading of the receivers (`:158-212`) is told |
| SendMessage.PreviewMovesForward | SendMessage | `send.go:59`, `:209-210`: the preview is the latest; two sends upsert in another order than their dates (`:211`) |
| Comments.OnePing | Comments | `comments.go:310-311`: a mention is no second notification for the same event; it is if the insert of the first (`notifications.go:147`) was made and not acknowledged |
| Comments.AnonymousInCommunities | Comments | `community.go:12`: anonymous contributions require a community post; the INSERT (`comments.go:149`) does not ask that again |
| Stream.ReadyMeansListening | Stream | `sse.go:72`, `API.md:208`: ready is sent (`sse.go:74`) before the subscription reaches Redis |
| Process.ShutdownEndsStreams | Process | `sse.go:53-54`: streamed to until the server shuts down; Shutdown (`main.go:169`) tells no handler, and streams are cut off by the exit |
| History.ReadableParents | Reads | `messages.go:33`, `:384`: the sender replied to is empty if the parent is deleted; the lookup (`:361`) has no `isDeleted` |
| History.HandlesStand | Reads | `endpoints.go:567`: an unresolved handle leaves its field empty; one NULL slug, which `entities.go:77-80` knows of, fails the scan of all (`identity.go:46`) |
| Moderation.InTheOrderAsked | Reads | `moderation.go:151-152`: order follows the caller's ids; `$in` without a sort does not (`:320`) |
| PostReads.NotFoundMeansGone | Reads | `API.md:636-638`: 404 if the post is missing or deleted; so is one that the caller may not see, or that is in two communities (`posts.go:92`) |
| Text.SameAnswers | Walks | `mentions_parse.go:45`: the same answers as the platform's expression; its `\s` takes a no-break space for the end of a mention, the bytes of `:59` and `:88-94` do not |
| Search.OnlyMatches | Reads | `API.md:371`: matched against handle and name; `%`, `_` and a backslash of the term are not escaped (`entities.go:121`) |
| Search.TwoCharacters | Reads | `API.md:372`: fewer than two characters return nothing; bytes are counted (`entities.go:108`) |
| Search.FoundIsAddressable | Reads | `entities.go:67`: what is found was addressable by its handle; realms without a slug are found by name (`:137`) |

Met while modelling and not given a definition: weeks are counted from
Go's zero time, not from the Unix epoch (`ratelimit.go:31`);
a client that stalls keeps its stream past MaxLifetime (`main.go:147-150`);
a comment may be stored in a community whose member its author is not, if the
post moved there from another (`comments.go:149-152`; WrittenByMembers names the case);
the name of an anonymous author stands in a notification written after the
post was untagged (`notifications.go:86`);
RealmName asks for each parent anew and would walk a circle
for ever (`membership.go:278`): the run bounds the moves, and that the walk
ends is not claimed; Ready pings Postgres and Redis and not Mongo
(`endpoints.go:52`); a listener that fails ends the process with code 0
(`main.go:156-159`).

## Not modelled

Frame signing: formatting and an HMAC, without state. Reading the environment,
Health, Version, Whoami and ProfileRedirect: constants, pings and formatting.
Routes are wiring, read to know which handlers are behind RequireScope. Of
connections, the order of opening and closing is Process; pools, timeouts and
retries inside the drivers are external. go-redis's retries are modelled where they
show: in RateLimit and in Presence. Of the score's lock, a SET NX sent again finds
it taken, which SetNX has among its outcomes; of a frame, a PUBLISH sent again is one more frame
to Stream, and to those who are counted as told, the sets of SendMessage and
Comments, the same. The driver of Mongo numbers its writes, so that one it sends again is
made once. Tokens' hashing, ids' randomness, all
wording and the fields of a document are data; ids are taken to be distinct.
That the writer of a notification and its reader agree is not composed: Comments
writes what PostReads reads, each against stores that change under it.

## Plan

Order of the work: the gate with its rate limit, because everything passes it;
presence, stream and publisher, which run for long and concurrently; the two
writers; the thread and the pure functions; the reads; the process; then the proofs, the
walks and the reads last, and among the walks the texts. What is left is what a
writer of notifications and their reader agree on: Comments composed with PostReads
over one store.
