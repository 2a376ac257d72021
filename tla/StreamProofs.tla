---------------------------- MODULE StreamProofs ----------------------------
(***************************************************************************)
(* What Stream promises for every number of frames and streams, and every  *)
(* capacity of the library's channel.                                      *)
(***************************************************************************)
EXTENDS Stream, SequenceTheorems, TLAPS

(***************************************************************************)
(* Sequences and what is in them.                                          *)
(***************************************************************************)
LEMMA NothingSent ==
    ASSUME NEW S, NEW s, s = <<>>
    PROVE  s \in Seq(S) /\ Len(s) = 0 /\ Sent(s) = {}
<1>1. s \in Seq(S) /\ Len(s) = 0 /\ DOMAIN s = {}
  OBVIOUS
<1>. QED
  BY <1>1 DEF Sent

LEMMA SentAppend ==
    ASSUME NEW S, NEW s \in Seq(S), NEW x \in S
    PROVE  /\ Append(s, x) \in Seq(S) /\ Len(Append(s, x)) = Len(s) + 1
           /\ Sent(Append(s, x)) = Sent(s) \cup {x}
<1>1. /\ Append(s, x) \in Seq(S) /\ Len(Append(s, x)) = Len(s) + 1
      /\ DOMAIN Append(s, x) = 1 .. Len(s) + 1 /\ DOMAIN s = 1 .. Len(s) /\ Len(s) \in Nat
      /\ \A i \in 1 .. Len(s) : Append(s, x)[i] = s[i]
      /\ Append(s, x)[Len(s) + 1] = x
  OBVIOUS
<1>2. Sent(Append(s, x)) \subseteq Sent(s) \cup {x}
  <2>. SUFFICES ASSUME NEW i \in 1 .. Len(s) + 1
                PROVE  Append(s, x)[i] \in Sent(s) \cup {x}
    BY <1>1 DEF Sent
  <2>1. i \in 1 .. Len(s) \/ i = Len(s) + 1
    BY <1>1
  <2>. QED
    BY <1>1, <2>1 DEF Sent
<1>3. Sent(s) \cup {x} \subseteq Sent(Append(s, x))
  <2>1. x \in Sent(Append(s, x))
    BY <1>1 DEF Sent
  <2>2. ASSUME NEW i \in 1 .. Len(s)
        PROVE  s[i] \in Sent(Append(s, x))
    <3>1. i \in 1 .. Len(s) + 1
      BY <1>1
    <3>. QED
      BY <1>1, <3>1 DEF Sent
  <2>. QED
    BY <1>1, <2>1, <2>2 DEF Sent
<1>. QED
  BY <1>1, <1>2, <1>3

LEMMA SentTail ==
    ASSUME NEW S, NEW s \in Seq(S), s # <<>>
    PROVE  /\ Head(s) \in S /\ Tail(s) \in Seq(S) /\ Len(Tail(s)) = Len(s) - 1
           /\ Sent(s) = Sent(Tail(s)) \cup {Head(s)}
<1>1. /\ Head(s) \in S /\ Tail(s) \in Seq(S) /\ Len(Tail(s)) = Len(s) - 1
      /\ DOMAIN Tail(s) = 1 .. Len(s) - 1 /\ DOMAIN s = 1 .. Len(s)
      /\ Len(s) \in Nat \ {0} /\ Head(s) = s[1]
      /\ \A i \in 1 .. Len(s) - 1 : Tail(s)[i] = s[i + 1]
  OBVIOUS
<1>2. Sent(s) \subseteq Sent(Tail(s)) \cup {Head(s)}
  <2>. SUFFICES ASSUME NEW i \in 1 .. Len(s)
                PROVE  s[i] \in Sent(Tail(s)) \cup {Head(s)}
    BY <1>1 DEF Sent
  <2>1. CASE i = 1
    BY <1>1, <2>1
  <2>2. CASE i # 1
    <3>1. i - 1 \in 1 .. Len(s) - 1 /\ s[i] = Tail(s)[i - 1]
      BY <1>1, <2>2
    <3>. QED
      BY <1>1, <3>1 DEF Sent
  <2>. QED
    BY <2>1, <2>2
<1>3. Sent(Tail(s)) \cup {Head(s)} \subseteq Sent(s)
  <2>1. Head(s) \in Sent(s)
    BY <1>1 DEF Sent
  <2>2. ASSUME NEW i \in 1 .. Len(s) - 1
        PROVE  Tail(s)[i] \in Sent(s)
    <3>1. i + 1 \in 1 .. Len(s) /\ Tail(s)[i] = s[i + 1]
      BY <1>1
    <3>. QED
      BY <1>1, <3>1 DEF Sent
  <2>. QED
    BY <1>1, <2>1, <2>2 DEF Sent
<1>. QED
  BY <1>1, <1>2, <1>3

\* Increasing sequences, by their elements: what an append needs and what
\* taking the first leaves.
Increasing(s) == \A i, j \in DOMAIN s : i < j => s[i] < s[j]

LEMMA IncreasingAppend ==
    ASSUME NEW s \in Seq(Nat), NEW x \in Nat, Increasing(s), \A y \in Sent(s) : y < x
    PROVE  Increasing(Append(s, x))
<1>1. /\ DOMAIN Append(s, x) = 1 .. Len(s) + 1 /\ DOMAIN s = 1 .. Len(s) /\ Len(s) \in Nat
      /\ \A i \in 1 .. Len(s) : Append(s, x)[i] = s[i]
      /\ Append(s, x)[Len(s) + 1] = x
  OBVIOUS
<1>. SUFFICES ASSUME NEW i \in 1 .. Len(s) + 1, NEW j \in 1 .. Len(s) + 1, i < j
              PROVE  Append(s, x)[i] < Append(s, x)[j]
  BY <1>1 DEF Increasing
<1>2. i \in 1 .. Len(s) /\ Append(s, x)[i] = s[i]
  BY <1>1
<1>3. CASE j \in 1 .. Len(s)
  BY <1>1, <1>2, <1>3 DEF Increasing
<1>4. CASE j = Len(s) + 1
  BY <1>1, <1>2, <1>4 DEF Sent
<1>. QED
  BY <1>1, <1>3, <1>4

LEMMA IncreasingTail ==
    ASSUME NEW s \in Seq(Nat), s # <<>>, Increasing(s)
    PROVE  Increasing(Tail(s)) /\ \A y \in Sent(Tail(s)) : Head(s) < y
<1>1. /\ DOMAIN Tail(s) = 1 .. Len(s) - 1 /\ DOMAIN s = 1 .. Len(s)
      /\ Len(s) \in Nat \ {0} /\ Head(s) = s[1]
      /\ \A i \in 1 .. Len(s) - 1 : Tail(s)[i] = s[i + 1] /\ i + 1 \in 1 .. Len(s)
  OBVIOUS
<1>2. Increasing(Tail(s))
  BY <1>1 DEF Increasing
<1>3. ASSUME NEW i \in 1 .. Len(s) - 1
      PROVE  Head(s) < Tail(s)[i]
  BY <1>1 DEF Increasing
<1>. QED
  BY <1>1, <1>2, <1>3 DEF Sent

(***************************************************************************)
(* Types.                                                                  *)
(***************************************************************************)
\* Frame numbers stay frame numbers when another frame is published.
LEMMA MoreFrames ==
    ASSUME TypeOK, Publish
    PROVE  /\ frames' \in Seq(Kinds) /\ Len(frames') = Len(frames) + 1
           /\ Len(frames) \in Nat /\ Len(frames') \in Published'
           /\ Published \subseteq Published' /\ Published' \subseteq Nat \ {0}
           /\ \A n \in Published : n < Len(frames') /\ frames'[n] = frames[n]
<1>. PICK kind \in Kinds : frames' = Append(frames, kind)
  BY DEF Publish
<1>1. frames \in Seq(Kinds)
  BY DEF TypeOK
<1>2. /\ frames' \in Seq(Kinds) /\ Len(frames) \in Nat /\ Len(frames') = Len(frames) + 1
      /\ \A n \in 1 .. Len(frames) : frames'[n] = frames[n]
  BY <1>1
<1>. QED
  BY <1>2 DEF Published

LEMMA InitTypeOK == Init => TypeOK
<1>. SUFFICES ASSUME Init PROVE TypeOK
  OBVIOUS
<1>1. frames \in Seq(Kinds) /\ Len(frames) <= MaxFrames
  BY StreamAssumption, NothingSent DEF Init
<1>2. channel \in Seq(Published) /\ received \in Seq(Published) /\ Len(channel) <= Capacity
  BY StreamAssumption, NothingSent DEF Init
<1>3. streams \in 0 .. MaxStreams
  BY StreamAssumption DEF Init
<1>. QED
  BY <1>1, <1>2, <1>3 DEF Init, TypeOK

LEMMA StepTypeOK == TypeOK /\ [Next]_vars => TypeOK'
<1>. SUFFICES ASSUME TypeOK, [Next]_vars PROVE TypeOK'
  OBVIOUS
<1>. USE StreamAssumption DEF TypeOK, Goto, connection, history
<1>1. CASE frames' = frames
  <2>. Published' = Published
    BY <1>1 DEF Published
  <2>1. CASE Connect
    <3>1. received' \in Seq(Published)
      BY <2>1, NothingSent DEF Connect
    <3>2. streams' \in 0 .. MaxStreams
      BY <2>1 DEF Connect
    <3>. QED
      BY <1>1, <2>1, <3>1, <3>2 DEF Connect
  <2>2. CASE Subscribe
    BY <1>1, <2>2 DEF Subscribe
  <2>3. CASE Done \/ WriteFails
    <3>1. channel' \in Seq(Published) /\ Len(channel') <= Capacity
      BY <2>3, NothingSent DEF Done, WriteFails, Close
    <3>. QED
      BY <1>1, <2>3, <3>1 DEF Done, WriteFails, Close
  <2>4. CASE Take
    <3>1. Head(channel) \in Published /\ Tail(channel) \in Seq(Published)
      BY <2>4, SentTail DEF Take
    <3>2. Len(Tail(channel)) <= Capacity
      BY <2>4, SentTail DEF Take
    <3>3. Head(channel) # 0
      BY <3>1 DEF Published
    <3>. QED
      BY <1>1, <2>4, <3>1, <3>2, <3>3 DEF Take
  <2>5. CASE Allow
    BY <1>1, <2>5 DEF Allow
  <2>6. CASE Refuse
    <3>1. hand \in Published
      BY <2>6 DEF Refuse
    <3>. QED
      BY <1>1, <2>6, <3>1 DEF Refuse
  <2>7. CASE Write
    <3>1. received' \in Seq(Published)
      <4>1. CASE hand = 0
        BY <2>7, <4>1 DEF Write
      <4>2. CASE hand # 0
        <5>1. hand \in Published /\ received' = Append(received, hand)
          BY <2>7, <4>2 DEF Write
        <5>. QED
          BY <5>1, SentAppend
      <4>. QED
        BY <4>1, <4>2
    <3>. QED
      BY <1>1, <2>7, <3>1 DEF Write
  <2>8. CASE Heartbeat
    BY <1>1, <2>8 DEF Heartbeat
  <2>9. CASE Subscribed \/ ConnectionBreaks
    BY <1>1, <2>9 DEF Subscribed, ConnectionBreaks
  <2>10. CASE LifetimeOver \/ HangUp \/ Stall
    BY <1>1, <2>10 DEF LifetimeOver, HangUp, Stall
  <2>11. CASE MoveMember
    BY <1>1, <2>11 DEF MoveMember
  <2>12. CASE UNCHANGED vars
    BY <1>1, <2>12 DEF vars
  <2>13. ~Publish
    BY <1>1, MoreFrames
  <2>. QED
    BY <2>1, <2>2, <2>3, <2>4, <2>5, <2>6, <2>7, <2>8, <2>9, <2>10, <2>11, <2>12, <2>13
       DEF Next, Serve
<1>2. CASE Publish
  <2>1. Len(frames') <= MaxFrames
    BY <1>2, MoreFrames DEF Publish
  <2>2. channel \in Seq(Published') /\ received \in Seq(Published')
    BY <1>2, MoreFrames, SeqMonotonic
  <2>3. channel' \in Seq(Published') /\ Len(channel') <= Capacity
    <3>1. CASE channel' = channel
      BY <2>2, <3>1
    <3>2. CASE channel' = Append(channel, Len(frames')) /\ Len(channel) < Capacity
      <4>1. channel' \in Seq(Published') /\ Len(channel') = Len(channel) + 1
        BY <1>2, <2>2, <3>2, MoreFrames, SentAppend
      <4>2. Len(channel) \in Nat
        OBVIOUS
      <4>. QED
        BY <3>2, <4>1, <4>2
    <3>. QED
      BY <1>2, <3>1, <3>2 DEF Publish
  <2>4. heard' \subseteq Published' /\ missed' \subseteq Published'
    BY <1>2, MoreFrames DEF Publish
  <2>5. hand' \in {0} \cup Published'
    BY <1>2, MoreFrames DEF Publish
  <2>6. frames' \in Seq(Kinds)
    BY <1>2, MoreFrames
  <2>. QED
    BY <1>2, <2>1, <2>2, <2>3, <2>4, <2>5, <2>6 DEF Publish
<1>3. frames' = frames \/ Publish
  BY DEF Next, Serve, Connect, Subscribe, Done, WriteFails, Close, Take, Allow, Refuse,
         Write, Heartbeat, Subscribed, ConnectionBreaks, LifetimeOver, HangUp, Stall,
         MoveMember, vars
<1>. QED
  BY <1>1, <1>2, <1>3

\* Stream keeps its types: whatever is published, read and moved, the channel
\* holds what it can, and everything on its way is a published frame.
THEOREM TypeCorrect == Spec => []TypeOK
  BY InitTypeOK, StepTypeOK, PTL DEF Spec

(***************************************************************************)
(* No frame is lost on the way, or invented.                               *)
(***************************************************************************)
\* Between streams nothing is subscribed, held or in hand, so a new stream
\* starts its accounts empty.
Accounting ==
    /\ subscribed => pc \notin {"off", "ready"}
    /\ pc \in {"off", "ready"} => channel = <<>> /\ hand = 0
    /\ EveryFrameIsAccountedFor

LEMMA InitAccounting == Init => Accounting
  BY NothingSent DEF Init, Accounting, EveryFrameIsAccountedFor

LEMMA StepAccounting == TypeOK /\ Accounting /\ [Next]_vars => Accounting'
<1>. SUFFICES ASSUME TypeOK, Accounting, [Next]_vars PROVE Accounting'
  OBVIOUS
<1>. USE DEF Accounting, EveryFrameIsAccountedFor, Goto, connection, history
<1>1. CASE Connect
  <2>1. Sent(received') = {} /\ Sent(channel') = {}
    BY <1>1, NothingSent DEF Connect
  <2>2. heard' = {} /\ missed' = {} /\ hand' = 0 /\ channel' = <<>> /\ pc' = "ready" /\ ~subscribed'
    BY <1>1 DEF Connect
  <2>. QED
    BY <2>1, <2>2
<1>2. CASE Subscribe
  BY <1>2 DEF Subscribe, Sent
<1>3. CASE Done \/ WriteFails
  BY <1>3 DEF Done, WriteFails, Close, Sent
<1>4. CASE Take
  <2>1. Sent(channel) = Sent(channel') \cup {hand'}
    BY <1>4, SentTail DEF Take, TypeOK
  <2>2. Sent(received') = Sent(received) /\ hand = 0 /\ hand' # 0
    <3>1. Head(channel) \in Published
      BY <1>4, SentTail DEF Take, TypeOK
    <3>. QED
      BY <1>4, <3>1 DEF Take, TypeOK, Sent, Published
  <2>. QED
    BY <1>4, <2>1, <2>2 DEF Take
<1>5. CASE Allow
  BY <1>5 DEF Allow, Sent
<1>6. CASE Refuse
  <2>1. Sent(received') = Sent(received) /\ Sent(channel') = Sent(channel)
    BY <1>6 DEF Refuse, Sent
  <2>. QED
    BY <1>6, <2>1 DEF Refuse, TypeOK
<1>7. CASE Write
  <2>1. Sent(channel') = Sent(channel)
    BY <1>7 DEF Write, Sent
  <2>2. CASE hand = 0
    <3>1. Sent(received') = Sent(received)
      BY <1>7, <2>2 DEF Write, Sent
    <3>. QED
      BY <1>7, <2>1, <2>2, <3>1 DEF Write
  <2>3. CASE hand # 0
    <3>1. received' = Append(received, hand) /\ hand \in Published /\ received \in Seq(Published)
      BY <1>7, <2>3 DEF Write, TypeOK
    <3>2. Sent(received') = Sent(received) \cup {hand}
      BY <3>1, SentAppend
    <3>. QED
      BY <1>7, <2>1, <2>3, <3>2 DEF Write
  <2>. QED
    BY <2>2, <2>3
<1>8. CASE Heartbeat
  BY <1>8 DEF Heartbeat, Sent
<1>9. CASE Subscribed \/ ConnectionBreaks
  BY <1>9 DEF Subscribed, ConnectionBreaks, Sent
<1>10. CASE LifetimeOver \/ HangUp \/ Stall
  BY <1>10 DEF LifetimeOver, HangUp, Stall, Sent
<1>11. CASE MoveMember
  BY <1>11 DEF MoveMember, Sent
<1>12. CASE Publish
  <2>1. Sent(received') = Sent(received)
    BY <1>12 DEF Publish, Sent
  <2>2. CASE ~subscribed
    <3>1. Sent(channel') = Sent(channel)
      BY <1>12, <2>2 DEF Publish, Sent
    <3>. QED
      BY <1>12, <2>1, <2>2, <3>1 DEF Publish
  <2>3. CASE subscribed /\ Len(channel) < Capacity
    <3>1. channel' = Append(channel, Len(frames')) /\ heard' = heard \cup {Len(frames')}
      BY <1>12, <2>3 DEF Publish
    <3>2. Len(frames') \in Published' /\ channel \in Seq(Published')
      BY <1>12, MoreFrames, SeqMonotonic DEF TypeOK
    <3>3. Sent(channel') = Sent(channel) \cup {Len(frames')}
      BY <3>1, <3>2, SentAppend
    <3>. QED
      BY <1>12, <2>1, <2>3, <3>1, <3>3 DEF Publish
  <2>4. CASE subscribed /\ ~(Len(channel) < Capacity)
    <3>1. Sent(channel') = Sent(channel)
      BY <1>12, <2>4 DEF Publish, Sent
    <3>. QED
      BY <1>12, <2>1, <2>4, <3>1 DEF Publish
  <2>. QED
    BY <2>2, <2>3, <2>4
<1>13. CASE UNCHANGED vars
  BY <1>13 DEF vars, Sent
<1>. QED
  BY <1>1, <1>2, <1>3, <1>4, <1>5, <1>6, <1>7, <1>8, <1>9, <1>10, <1>11, <1>12, <1>13
     DEF Next, Serve

\* Every frame that reached the library on this stream is under way, written,
\* dropped by the library or refused; and none is written that was not heard.
THEOREM EveryFrameIsAccountedForHolds == Spec => []EveryFrameIsAccountedFor
<1>1. Accounting => EveryFrameIsAccountedFor
  BY DEF Accounting
<1>. QED
  BY <1>1, InitTypeOK, StepTypeOK, InitAccounting, StepAccounting, PTL DEF Spec

(***************************************************************************)
(* What was allowed out.                                                   *)
(***************************************************************************)
\* From the check to the write the witness stays: a scoped frame is in hand
\* to be written only if the entity was a member since it was taken.
Guarded ==
    /\ pc = "checking" /\ member => witness
    /\ pc = "writing" /\ hand # 0 /\ frames[hand] = "scoped" => witness

LEMMA StepGuarded == TypeOK /\ Accounting /\ Guarded /\ [Next]_vars => Guarded'
<1>. SUFFICES ASSUME TypeOK, Accounting, Guarded, [Next]_vars PROVE Guarded'
  OBVIOUS
<1>. USE DEF Guarded, Goto, connection, history
<1>1. CASE Connect \/ Subscribe \/ Done \/ WriteFails
  BY <1>1 DEF Connect, Subscribe, Done, WriteFails, Close
<1>2. CASE Take \/ Refuse \/ Write
  BY <1>2 DEF Take, Refuse, Write
<1>3. CASE Allow
  BY <1>3 DEF Allow, AllowFrame
<1>4. CASE Heartbeat
  BY <1>4 DEF Heartbeat, TypeOK
<1>5. CASE Publish
  <2>1. hand # 0 => frames'[hand] = frames[hand]
    BY <1>5, MoreFrames DEF TypeOK
  <2>. QED
    BY <1>5, <2>1 DEF Publish
<1>6. CASE MoveMember
  BY <1>6 DEF MoveMember, TypeOK
<1>7. CASE Subscribed \/ ConnectionBreaks \/ LifetimeOver \/ HangUp \/ Stall
  BY <1>7 DEF Subscribed, ConnectionBreaks, LifetimeOver, HangUp, Stall
<1>8. CASE UNCHANGED vars
  BY <1>8 DEF vars
<1>. QED
  BY <1>1, <1>2, <1>3, <1>4, <1>5, <1>6, <1>7, <1>8 DEF Next, Serve

\* A community's frame is written only if the entity was a member at a moment
\* after Serve took it, wherever it is moved meanwhile.
THEOREM FormerMembersHearNothingHolds == Spec => FormerMembersHearNothing
<1>1. Init => Guarded
  BY DEF Init, Guarded
<1>2. TypeOK /\ Guarded /\ [Next]_vars
         => [Len(received') > Len(received) /\ frames[hand] = "scoped" => witness]_vars
  <2>. SUFFICES ASSUME TypeOK, Guarded, [Next]_vars,
                       Len(received') > Len(received), frames[hand] = "scoped"
                PROVE  witness
    OBVIOUS
  <2>1. Len(received) \in Nat /\ received' # received
    BY DEF TypeOK
  <2>2. CASE Connect
    <3>1. Len(received') = 0
      BY <2>2, NothingSent DEF Connect
    <3>. QED
      BY <2>1, <3>1
  <2>3. CASE Write
    BY <2>1, <2>3 DEF Write, Goto, Guarded
  <2>. QED
    BY <2>1, <2>2, <2>3 DEF Next, Serve, Subscribe, Done, WriteFails, Close, Take, Allow,
       Refuse, Heartbeat, Subscribed, ConnectionBreaks, Publish, LifetimeOver, HangUp,
       Stall, MoveMember, vars
<1>. QED
  BY <1>1, <1>2, InitTypeOK, StepTypeOK, InitAccounting, StepAccounting, StepGuarded, PTL
     DEF Spec, FormerMembersHearNothing

(***************************************************************************)
(* Order.                                                                  *)
(***************************************************************************)
\* What was written comes before what is in hand, and that before what the
\* channel holds.
Order ==
    /\ Increasing(received) /\ Increasing(channel)
    /\ \A r \in Sent(received), c \in Sent(channel) : r < c
    /\ hand # 0 => /\ \A r \in Sent(received) : r < hand
                   /\ \A c \in Sent(channel) : hand < c

LEMMA NothingIncreases == Increasing(<<>>)
  BY DEF Increasing

LEMMA Numbers ==
    ASSUME TypeOK
    PROVE  /\ Published \subseteq Nat /\ channel \in Seq(Nat) /\ received \in Seq(Nat)
           /\ Sent(channel) \subseteq Published /\ Sent(received) \subseteq Published
<1>1. Published \subseteq Nat
  BY DEF Published
<1>2. channel \in Seq(Nat) /\ received \in Seq(Nat)
  BY <1>1, SeqMonotonic DEF TypeOK
<1>3. ASSUME NEW seq \in Seq(Published) PROVE Sent(seq) \subseteq Published
  BY DEF Sent
<1>. QED
  BY <1>1, <1>2, <1>3 DEF TypeOK

LEMMA StepOrder == TypeOK /\ Accounting /\ Order /\ [Next]_vars => Order'
<1>. SUFFICES ASSUME TypeOK, Accounting, Order, [Next]_vars PROVE Order'
  OBVIOUS
<1>. USE DEF Order, Goto, connection, history
<1>1. CASE Connect
  <2>1. received' = <<>> /\ channel' = channel /\ channel = <<>> /\ hand' = 0
    BY <1>1 DEF Connect, Accounting
  <2>. QED
    BY <2>1, NothingSent, NothingIncreases
<1>2. CASE Done \/ WriteFails
  <2>1. received' = received /\ channel' = <<>> /\ hand' = 0
    BY <1>2 DEF Done, WriteFails, Close
  <2>. QED
    BY <2>1, NothingSent, NothingIncreases
<1>3. CASE Take
  <2>1. /\ received' = received /\ channel' = Tail(channel) /\ hand' = Head(channel)
        /\ channel # <<>>
    BY <1>3 DEF Take
  <2>2. Increasing(channel') /\ \A c \in Sent(channel') : hand' < c
    BY <2>1, Numbers, IncreasingTail
  <2>3. Sent(channel) = Sent(channel') \cup {hand'}
    BY <2>1, Numbers, SentTail
  <2>. QED
    BY <2>1, <2>2, <2>3
<1>4. CASE Write
  <2>1. CASE hand = 0
    BY <1>4, <2>1 DEF Write
  <2>2. CASE hand # 0
    <3>1. received' = Append(received, hand) /\ channel' = channel /\ hand' = 0
      BY <1>4, <2>2 DEF Write
    <3>2. hand \in Nat
      BY <2>2, Numbers DEF TypeOK
    <3>3. Increasing(received') /\ Sent(received') = Sent(received) \cup {hand}
      <4>1. Increasing(received) /\ \A r \in Sent(received) : r < hand
        BY <2>2
      <4>2. received \in Seq(Nat)
        BY Numbers
      <4>. QED
        BY <3>1, <3>2, <4>1, <4>2, SentAppend, IncreasingAppend
    <3>. QED
      BY <2>2, <3>1, <3>3
  <2>. QED
    BY <2>1, <2>2
<1>5. CASE Publish
  <2>1. received' = received /\ hand' = hand
    BY <1>5 DEF Publish
  <2>2. CASE channel' = channel
    BY <2>1, <2>2
  <2>4. Sent(received') = Sent(received)
    BY <2>1
  <2>3. CASE channel' = Append(channel, Len(frames'))
    <3>1. Len(frames') \in Nat /\ \A n \in Published : n < Len(frames')
      BY <1>5, MoreFrames
    <3>2. Increasing(channel') /\ Sent(channel') = Sent(channel) \cup {Len(frames')}
      BY <2>3, <3>1, Numbers, SentAppend, IncreasingAppend
    <3>3. hand # 0 => hand < Len(frames')
      BY <3>1 DEF TypeOK
    <3>4. \A r \in Sent(received) : r < Len(frames')
      BY <3>1, Numbers
    <3>. HIDE DEF Order
    <3>5. /\ Increasing(received') /\ \A c \in Sent(channel) : hand # 0 => hand < c
          /\ \A r \in Sent(received) : \A c \in Sent(channel) : r < c
          /\ hand # 0 => \A r \in Sent(received) : r < hand
      BY <2>1 DEF Order
    <3>6. \A c \in Sent(channel') : hand' # 0 => hand' < c
      BY <2>1, <3>2, <3>3, <3>5
    <3>7. \A r \in Sent(received'), c \in Sent(channel') : r < c
      BY <2>4, <3>2, <3>4, <3>5
    <3>8. hand' # 0 => \A r \in Sent(received') : r < hand'
      BY <2>1, <3>5
    <3>. QED
      BY <3>2, <3>5, <3>6, <3>7, <3>8 DEF Order
  <2>. QED
    BY <1>5, <2>2, <2>3 DEF Publish
<1>6. CASE Refuse
  BY <1>6 DEF Refuse
<1>7. CASE Subscribe \/ Allow \/ Heartbeat
  BY <1>7 DEF Subscribe, Allow, Heartbeat
<1>8. CASE Subscribed \/ ConnectionBreaks \/ LifetimeOver \/ HangUp \/ Stall \/ MoveMember
  BY <1>8 DEF Subscribed, ConnectionBreaks, LifetimeOver, HangUp, Stall, MoveMember
<1>9. CASE UNCHANGED vars
  BY <1>9 DEF vars
<1>. QED
  BY <1>1, <1>2, <1>3, <1>4, <1>5, <1>6, <1>7, <1>8, <1>9 DEF Next, Serve

\* What a client reads on one stream was published in that order, no frame
\* twice, whatever was dropped or refused in between.
THEOREM InOrderHolds == Spec => []InOrder
<1>1. Init => Order
  BY NothingSent, NothingIncreases DEF Init, Order
<1>2. Order => InOrder
  BY DEF Order, Increasing, InOrder
<1>. QED
  BY <1>1, <1>2, InitTypeOK, StepTypeOK, InitAccounting, StepAccounting, StepOrder, PTL
     DEF Spec
=============================================================================
