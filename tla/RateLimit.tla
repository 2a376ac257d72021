----------------------------- MODULE RateLimit -----------------------------
(***************************************************************************)
(* CheckRateLimit of src/internal/auth/ratelimit.go for one token: the     *)
(* requests of any number of replicas, each walking                        *)
(*                                                                         *)
(*     token row read -> time.Now -> INCR -> (count = 1) EXPIRE -> answer  *)
(*                                                                         *)
(* at its own pace against one Redis, while time passes, keys die, calls   *)
(* are sent again by the driver or fail, with their effect applied or not, *)
(* replicas die, and the token's rate_limit_int and rate_limit_type are    *)
(* edited by the service that owns them.  Replicas share one clock; a      *)
(* replica whose clock is behind is a request that is slow after reading   *)
(* it.                                                                     *)
(***************************************************************************)
EXTENDS Window, FiniteSets

CONSTANTS
    Requests,   \* the requests that present the token; each is made once
    Plans,      \* the values of (rate_limit_int, rate_limit_type)
    NoLimit,    \* rate_limit_int is NULL
    Never,      \* a Redis key with no time to live
    MaxRetries, \* how often go-redis sends a call again; 3 by default
    StartTime,  \* the clock's first and last instant
    MaxTime

PlanType == [limit : Nat \cup {NoLimit}, period : STRING]

ASSUME PlanAssumption == Plans \subseteq PlanType
ASSUME NullAssumption == NoLimit \notin Nat /\ Never \notin Nat
ASSUME RetryAssumption == MaxRetries \in Nat
ASSUME TimeAssumption == StartTime \in Nat /\ MaxTime \in Nat

VARIABLES
    clock,      \* the instant
    plan,       \* the token's row
    store,      \* Redis: the live keys, their count and death
    pc,         \* where each request is
    held,       \* the row each request's token was read from
    read,       \* the `now` each request works with
    counted,    \* what INCR answered; at and life are history
    lives,      \* history: how many times a key has been created
    resent      \* history: the INCRs that Redis ran and were sent again, each
                \* <<the request, the how manieth of its INCRs>>

vars == <<clock, plan, store, pc, held, read, counted, lives, resent>>

(***************************************************************************)
(* The key of a request, and what Redis does to it.  A key's life is the   *)
(* stretch between its creation and its death.                             *)
(***************************************************************************)
\* Mutant: windows of different periods that start together share a key.
KeyedByStartAlone(period, now) ==
    [period |-> "", start |-> windowBounds(period, now).start]

KeyOf(period, now) ==
    [period |-> period, start |-> windowBounds(period, now).start]

WindowEnd(r) == windowBounds(held[r].period, read[r]).end

Key(r) == KeyOf(held[r].period, read[r])

IsLive(k) == k \in DOMAIN store

\* INCR creates a missing key at 1, without a time to live.
Incremented(k) ==
    [j \in DOMAIN store \cup {k} |->
        IF j # k THEN store[j]
        ELSE IF IsLive(k) THEN [store[k] EXCEPT !.count = @ + 1]
        ELSE [count |-> 1, expires |-> Never, life |-> lives + 1]]

LivesAfter(k) == IF IsLive(k) THEN lives ELSE lives + 1

\* Mutant: a number of seconds taken for one of ticks.
SecondsAsTicks(d) == IF d < Second THEN 1 ELSE d \div Second

\* The client library sends EXPIRE in whole seconds, rounded down, at least 1.
TimeToLive(d) == Second * (IF d < Second THEN 1 ELSE d \div Second)

\* EXPIRE: a no-op on a missing key.
Expired(k, d) ==
    IF IsLive(k)
    THEN [store EXCEPT ![k] = [@ EXCEPT !.expires = clock + TimeToLive(d)]]
    ELSE store

\* The keys that are still there at instant t.
Survivors(t) ==
    LET alive == {k \in DOMAIN store :
                    store[k].expires = Never \/ store[k].expires > t}
    IN  [k \in alive |-> store[k]]

NotCounted == [count |-> 0, life |-> 0, at |-> 0]

Init ==
    /\ clock = StartTime
    /\ plan \in Plans
    /\ store = << >>
    /\ pc = [r \in Requests |-> "idle"]
    /\ held = [r \in Requests |-> plan]
    /\ read = [r \in Requests |-> 0]
    /\ counted = [r \in Requests |-> NotCounted]
    /\ lives = 0
    /\ resent = {}

(***************************************************************************)
(* The steps of a request.                                                 *)
(***************************************************************************)
Goto(r, from, to) == pc[r] = from /\ pc' = [pc EXCEPT ![r] = to]

\* Verify has read the token's row.  No limit: answered without touching
\* Redis.  A limit with a period windowBounds does not know: an error.
Arrive(r) ==
    /\ Goto(r, "idle", IF plan.limit = NoLimit THEN "allowed"
                       ELSE IF plan.period \notin Periods THEN "failed"
                       ELSE "clock")
    /\ held' = [held EXCEPT ![r] = plan]
    /\ UNCHANGED <<clock, plan, store, read, counted, lives, resent>>

ReadClock(r) ==
    /\ Goto(r, "clock", "incr")
    /\ read' = [read EXCEPT ![r] = clock]
    /\ UNCHANGED <<clock, plan, store, held, counted, lives, resent>>

\* Mutant: one too many.
OneMore(r, count) == IF count <= held[r].limit + 1 THEN "allowed" ELSE "denied"

\* Counting comes first, whatever the answer is going to be.
Answer(r, count) == IF count <= held[r].limit THEN "allowed" ELSE "denied"

\* Only the request that opened the key goes on to set its death.
AfterIncr(r, count) == IF count = 1 THEN "expire" ELSE Answer(r, count)

Incr(r) ==
    LET k     == Key(r)
        after == Incremented(k)
    IN  /\ Goto(r, "incr", AfterIncr(r, after[k].count))
        /\ store' = after
        /\ lives' = LivesAfter(k)
        /\ counted' = [counted EXCEPT ![r] =
              [count |-> after[k].count, life |-> after[k].life, at |-> clock]]
        /\ UNCHANGED <<clock, plan, held, read, resent>>

\* Redis runs the call, its answer is lost, and the driver sends it again:
\* one request counts twice.
IncrResent(r) ==
    /\ pc[r] = "incr"
    /\ \E n \in 1 .. MaxRetries :
          /\ \A m \in 1 .. n : <<r, m>> \in resent <=> m < n
          /\ resent' = resent \cup {<<r, n>>}
    /\ store' = Incremented(Key(r))
    /\ lives' = LivesAfter(Key(r))
    /\ UNCHANGED <<clock, plan, pc, held, read, counted>>

\* The driver gives up, its last call run or not: 503 either way.
IncrFails(r) ==
    /\ Goto(r, "incr", "failed")
    /\ \/ UNCHANGED <<store, lives>>
       \/ /\ store' = Incremented(Key(r))
          /\ lives' = LivesAfter(Key(r))
    /\ UNCHANGED <<clock, plan, held, read, counted, resent>>

\* "again": Redis has run the EXPIRE, and the driver is to send it again.
Expiring(r) == pc[r] \in {"expire", "again"}

Remaining(r) == WindowEnd(r) - read[r]

Expire(r) ==
    /\ Expiring(r)
    /\ pc' = [pc EXCEPT ![r] = Answer(r, counted[r].count)]
    /\ store' = Expired(Key(r), Remaining(r))
    /\ UNCHANGED <<clock, plan, held, read, counted, lives, resent>>

\* The answer is lost and the call sent again, with the duration it had; these
\* are not counted, as they leave no count behind.
ExpireResent(r) ==
    /\ MaxRetries # 0 /\ Expiring(r)
    /\ pc' = [pc EXCEPT ![r] = "again"]
    /\ store' = Expired(Key(r), Remaining(r))
    /\ UNCHANGED <<clock, plan, held, read, counted, lives, resent>>

ExpireFails(r) ==
    /\ Expiring(r)
    /\ pc' = [pc EXCEPT ![r] = "failed"]
    /\ store' \in {store, Expired(Key(r), Remaining(r))}
    /\ UNCHANGED <<clock, plan, held, read, counted, lives, resent>>

\* The replica serving the request dies between two of its steps.
Crash(r) ==
    /\ pc[r] \in {"clock", "incr", "expire", "again"}
    /\ pc' = [pc EXCEPT ![r] = "gone"]
    /\ UNCHANGED <<clock, plan, store, held, read, counted, lives, resent>>

\* The token's row is edited: a limit or a period is set, changed or cleared.
EditPlan ==
    /\ plan' \in Plans \ {plan}
    /\ UNCHANGED <<clock, store, pc, held, read, counted, lives, resent>>

\* Time passes; a key whose time to live has run out is gone.
Tick ==
    /\ clock < MaxTime
    /\ clock' = clock + 1
    /\ store' = Survivors(clock + 1)
    /\ UNCHANGED <<plan, pc, held, read, counted, lives, resent>>

Next ==
    \/ \E r \in Requests :
          \/ Arrive(r)
          \/ ReadClock(r)
          \/ Incr(r)
          \/ IncrResent(r)
          \/ IncrFails(r)
          \/ Expire(r)
          \/ ExpireResent(r)
          \/ ExpireFails(r)
          \/ Crash(r)
    \/ EditPlan
    \/ Tick

Spec == Init /\ [][Next]_vars
-----------------------------------------------------------------------------
\* The type invariant.  Every key is the key of some instant already past.
TypeOK ==
    /\ clock \in Nat
    /\ plan \in Plans
    /\ \A k \in DOMAIN store :
          /\ k.period \in Periods
          /\ \E t \in 0 .. clock : k = KeyOf(k.period, t)
          /\ store[k] \in [count : Nat \ {0}, expires : Nat \cup {Never},
                           life : Nat \ {0}]
    /\ pc \in [Requests -> {"idle", "clock", "incr", "expire", "again",
                            "allowed", "denied", "failed", "gone"}]
    /\ held \in [Requests -> Plans]
    /\ read \in [Requests -> Nat]
    /\ counted \in [Requests -> [count : Nat, life : Nat, at : Nat]]
    /\ lives \in Nat
    /\ resent \subseteq Requests \X (1 .. MaxRetries)

IsCounted(r) == counted[r].life # 0
Admitted(r)  == pc[r] = "allowed" /\ IsCounted(r)

\* However the requests interleave, and whatever fails, one life of a key
\* never admits more requests holding a limit of n or less than n.
LimitPerLife ==
    \A r \in Requests : Admitted(r) =>
        Cardinality({s \in Requests :
            /\ Admitted(s)
            /\ counted[s].life = counted[r].life
            /\ held[s].limit <= held[r].limit}) <= held[r].limit

SameWindow(r, s) ==
    /\ held[s].period = held[r].period
    /\ windowBounds(held[s].period, read[s]) =
       windowBounds(held[r].period, read[r])

\* The admitted requests of r's window that were counted before the window
\* was over and hold no higher a limit than r does.
AdmittedInWindow(r) ==
    {s \in Requests :
        /\ Admitted(s)
        /\ SameWindow(r, s)
        /\ counted[s].at < WindowEnd(s)
        /\ held[s].limit <= held[r].limit}

\* The limit of a window holds for the requests counted before its last
\* second: a key dies less than a second before its window, never sooner.
LimitUntilTheLastSecond ==
    \A r \in Requests : Admitted(r) =>
        Cardinality({s \in AdmittedInWindow(r) :
            counted[s].at + Second <= WindowEnd(s)}) <= held[r].limit

\* Over the whole window the limit is met twice at most: a key's successor
\* does not die before the window does.
LimitTwicePerWindow ==
    \A r \in Requests :
        Admitted(r) => Cardinality(AdmittedInWindow(r)) <= 2 * held[r].limit

\* The calls of INCR for r's window but the one that answered r: those of
\* the other requests that have gone as far as the counter, counting those
\* that failed or died there, and those that were sent again, r's too.
OtherCalls(r) ==
    {<<s, 0>> : s \in {q \in Requests \ {r} :
        /\ pc[q] \notin {"idle", "clock"}
        /\ held[q].limit # NoLimit
        /\ held[q].period \in Periods
        /\ SameWindow(r, q)}}
    \cup {call \in resent : SameWindow(r, call[1])}

\* A 429 is accounted for: at least `limit` other calls of the same period
\* and window have gone to the counter.
DenialIsEarned ==
    \A r \in Requests :
        pc[r] = "denied" => Cardinality(OtherCalls(r)) >= held[r].limit

\* A client that waits out the Retry-After it was sent comes back after its
\* window has ended, and was not made to wait a second longer than that.
RetryAfterIsTight ==
    \A r \in Requests : pc[r] = "denied" =>
        LET back == read[r] + Second * RetryAfterSeconds(WindowEnd(r) - read[r])
        IN  WindowEnd(r) < back /\ back <= WindowEnd(r) + Second

\* A key without a time to live belongs to a request that is about to set
\* it, to one that failed or died, or to one whose INCR was sent again:
\* requests answered at the first asking leak no key.
ImmortalKeysAreFaults ==
    \A k \in DOMAIN store : store[k].expires = Never =>
        \E r \in Requests :
            /\ \/ pc[r] \in {"expire", "failed", "gone"}
               \/ \E n \in 1 .. MaxRetries : <<r, n>> \in resent
            /\ held[r].period \in Periods
            /\ Key(r) = k
-----------------------------------------------------------------------------
(***************************************************************************)
(* What the words of the repository say and the code does not keep.        *)
(***************************************************************************)
\* The limit as the token's owner reads it: a window admits no more requests
\* than the limit.  The key must live to the end of its window for this.
LimitPerWindow ==
    \A r \in Requests :
        Admitted(r) => Cardinality(AdmittedInWindow(r)) <= held[r].limit

\* A 429 has `limit` other requests behind it ("counts every attempt", once):
\* a request whose INCR was sent again is refused on its own account.
OthersFillTheWindow ==
    \A r \in Requests : pc[r] = "denied" =>
        Cardinality(OtherCalls(r) \ resent) >= held[r].limit

\* Every window's key dies ("the key must die when the window ends"): it
\* does not when INCR is sent again after opening the key and answers 2.
NoKeyIsForEver ==
    \A k \in DOMAIN store : store[k].expires = Never =>
        \E r \in Requests : Key(r) = k /\ pc[r] \notin {"allowed", "denied"}

\* "Every later increment in the same window must not push the TTL back out":
\* none does, but an EXPIRE that is sent again sets it from a later instant.
TimeToLiveIsSetOnce ==
    [][\A k \in DOMAIN store :
          /\ store[k].expires # Never
          /\ k \in DOMAIN store'
          => store'[k].expires = store[k].expires]_vars
=============================================================================
