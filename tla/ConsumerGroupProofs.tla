------------------------ MODULE ConsumerGroupProofs ------------------------
(***************************************************************************)
(* The properties of ConsumerGroup for every set of consumers, topics and  *)
(* payloads and every bound, from the facts about one stream proved in     *)
(* StreamProofs.                                                           *)
(***************************************************************************)
EXTENDS ConsumerGroup, StreamProofs

(* A stream of the right type that satisfies the invariant of a stream. *)
Sound(s) == s \in StreamType(Message) /\ StreamInv(s)

(* The inductive invariant.  OrderedDelivery alone is not inductive: a flush
   keeps the order only because what it takes is a run that continues the
   offset, and NoHeadOfLineBlock needs what StreamInv says of the buffer. *)
IInv ==
  /\ TypeOK
  /\ \A c \in Consumer, t \in Topic : Sound(stream[c][t])
  /\ OffsetsAccountFor

(* The messages of the model carry natural numbers. *)
LEMMA MessageNumbered == Numbered(Message)
BY BoundsAssumption DEF Numbered, Message

(* An object that was never used is sound. *)
LEMMA FreshSound == Sound(Fresh) /\ Fresh.offset = 0
BY OpenedInv DEF Sound, Fresh, Opened

(* Init establishes the invariant. *)
LEMMA InitInv == Init => IInv
<1>. SUFFICES ASSUME Init  PROVE IInv
  OBVIOUS
<1>1. \A c \in Consumer, t \in Topic : stream[c][t] = Fresh
  BY DEF Init, Streams
<1>2. TypeOK
  BY FreshSound DEF Init, Streams, TypeOK, Sound
<1>3. OffsetsAccountFor
  BY <1>1, FreshSound DEF Init, OffsetsAccountFor
<1>. QED  BY <1>1, <1>2, <1>3, FreshSound DEF IInv

(* Every step keeps the invariant: <1>3 says what a step has to show, and one
   step per action shows it; broadcast and on_message share <1>8. *)
LEMMA StepInv ==
  ASSUME IInv, [Next]_vars
  PROVE  IInv'
<1>. USE DEF IInv
<1>1. /\ members \in Seq(Consumer)
      /\ stream \in [Consumer -> [Topic -> StreamType(Message)]]
      /\ saved \in [Consumer -> [Topic -> Nat]]
      /\ handled \in [Consumer -> [Topic -> SUBSET Nat]]
  BY DEF TypeOK
<1>2. \A c \in Consumer, t \in Topic :
        /\ Sound(stream[c][t]) /\ stream[c][t].offset \in Nat
        /\ 1..stream[c][t].offset \subseteq handled[c][t]
        /\ 1..saved[c][t] \subseteq handled[c][t]
  BY DEF OffsetsAccountFor, Sound, StreamType
<1>3. ASSUME members' \in Seq(Consumer),
             saved' \in [Consumer -> [Topic -> Nat]],
             handled' \in [Consumer -> [Topic -> SUBSET Nat]],
             stream' \in [Consumer -> [Topic -> StreamType(Message)]],
             \A c \in Consumer, t \in Topic :
                /\ Sound(stream'[c][t])
                /\ 1..stream'[c][t].offset \subseteq handled'[c][t]
                /\ 1..saved'[c][t] \subseteq handled'[c][t]
      PROVE  IInv'
  BY <1>3 DEF TypeOK, OffsetsAccountFor
<1>4. Fresh \in StreamType(Message) /\ Sound(Fresh) /\ 1..Fresh.offset = {}
  BY FreshSound DEF Sound
<1>5. ASSUME NEW c \in Consumer, JoinGroup(c)  PROVE IInv'
  <2>1. members' \in Seq(Consumer)
    BY <1>1, <1>5 DEF JoinGroup
  <2>. QED  BY <1>1, <1>2, <1>3, <1>4, <1>5, <2>1 DEF JoinGroup
<1>6. ASSUME NEW c \in Consumer, LeaveGroup(c)  PROVE IInv'
  <2>1. members' \in Seq(Consumer)
    <3>1. PICK i \in 1..Len(members) :
            members' = SubSeq(members, 1, i - 1) \o SubSeq(members, i + 1, Len(members))
      BY <1>6 DEF LeaveGroup
    <3>2. SubSeq(members, 1, i - 1) \in Seq(Consumer)
      BY <1>1
    <3>3. SubSeq(members, i + 1, Len(members)) \in Seq(Consumer)
      BY <1>1
    <3>. QED  BY <3>1, <3>2, <3>3
  <2>. QED  BY <1>1, <1>2, <1>3, <1>4, <1>6, <2>1 DEF LeaveGroup
<1>7. ASSUME NEW c \in Consumer, NEW t \in Topic, Subscribe(c, t)  PROVE IInv'
  <2>1. /\ Sound(Subscribed(stream[c][t]))
        /\ Subscribed(stream[c][t]) \in StreamType(Message)
        /\ Subscribed(stream[c][t]).offset = stream[c][t].offset
    <3>. DEFINE s == stream[c][t]
    <3>1. s \in StreamType(Message) /\ StreamInv(s)
      BY <1>2 DEF Sound
    <3>. HIDE DEF s
    <3>2. Subscribed(s) \in StreamType(Message) /\ StreamInv(Subscribed(s))
      BY <3>1, SubscribedInv
    <3>3. Subscribed(s).offset = s.offset
      BY <3>1 DEF Subscribed, StreamType
    <3>. QED  BY <3>2, <3>3 DEF Sound, s
  <2>. QED  BY <1>1, <1>2, <1>3, <1>7, <2>1 DEF Subscribe
<1>8. ASSUME NEW cs \in SUBSET Consumer, NEW t \in Topic, NEW m \in Message,
             Deliver(cs, t, m)
      PROVE  IInv'
  <2>1. ASSUME NEW c \in Consumer
        PROVE  LET s == stream[c][t]  r == OnMessage(s, m) IN
               /\ r \in StreamType(Message) /\ Sound(r)
               /\ \A x \in (s.offset + 1)..r.offset : x \in Handled(s, m)
               /\ Handled(s, m) \in SUBSET Nat
    <3>. DEFINE s == stream[c][t]
                r == OnMessage(s, m)
    <3>1. s \in StreamType(Message) /\ StreamInv(s)
      BY <1>2 DEF Sound
    <3>. HIDE DEF s
    <3>2. /\ r \in StreamType(Message) /\ StreamInv(r)
          /\ \A x \in (s.offset + 1)..r.offset :
               x \in Numbers(r.delivered) \/ (~s.subscribed /\ x = m.seq)
      BY <3>1, MessageNumbered, OnMessageInv
    <3>3. ASSUME NEW x \in (s.offset + 1)..r.offset, ~s.subscribed, x = m.seq
          PROVE  m.seq = s.offset + 1
      <4>1. r.offset = m.seq => m.seq = s.offset + 1 \/ r.offset = s.offset
        BY <3>3 DEF OnMessage, OnUnsubscribed
      <4>2. m.seq = s.offset + 1 \/ r.offset = s.offset
        BY <3>3 DEF OnMessage, OnUnsubscribed
      <4>3. s.offset \in Nat
        BY <3>1 DEF StreamType
      <4>4. r.offset = s.offset => FALSE
        BY <3>3, <4>3
      <4>. QED  BY <4>2, <4>4
    <3>4. \A x \in (s.offset + 1)..r.offset : x \in Handled(s, m)
      BY <3>2, <3>3 DEF Handled
    <3>5. Handled(s, m) \in SUBSET Nat
      <4>1. Numbers(r.delivered) \in SUBSET Nat
        BY <3>2, MessageNumbered DEF Numbers, StreamType, Numbered
      <4>. QED  BY <4>1, MessageNumbered DEF Handled, Numbered
    <3>. QED  BY <3>2, <3>4, <3>5 DEF Sound, s
  <2>2. /\ members' = members /\ saved' = saved
        /\ stream' = [c \in Consumer |->
                        IF c \in cs
                        THEN [stream[c] EXCEPT ![t] = OnMessage(stream[c][t], m)]
                        ELSE stream[c]]
        /\ handled' = [c \in Consumer |->
                         IF c \in cs
                         THEN [handled[c] EXCEPT ![t] = handled[c][t] \cup Handled(stream[c][t], m)]
                         ELSE handled[c]]
    BY <1>1, <1>8 DEF Deliver
  <2>3. stream' \in [Consumer -> [Topic -> StreamType(Message)]]
    BY <1>1, <2>1, <2>2
  <2>4. handled' \in [Consumer -> [Topic -> SUBSET Nat]]
    BY <1>1, <2>1, <2>2
  <2>5. ASSUME NEW c \in Consumer, NEW u \in Topic
        PROVE  /\ Sound(stream'[c][u])
               /\ 1..stream'[c][u].offset \subseteq handled'[c][u]
               /\ 1..saved'[c][u] \subseteq handled'[c][u]
    <3>1. CASE c \in cs /\ u = t
      <4>. DEFINE s == stream[c][t]
                  r == OnMessage(s, m)
      <4>1. stream'[c][u] = r /\ handled'[c][u] = handled[c][t] \cup Handled(s, m)
        BY <1>1, <2>2, <3>1
      <4>2. /\ r \in StreamType(Message) /\ Sound(r)
            /\ \A x \in (s.offset + 1)..r.offset : x \in Handled(s, m)
        BY <2>1
      <4>3. s.offset \in Nat /\ 1..s.offset \subseteq handled[c][t]
        BY <1>2
      <4>4. r.offset \in Nat
        BY <4>2 DEF StreamType
      <4>. HIDE DEF r, s
      <4>5. \A x \in 1..r.offset : x \in 1..s.offset \/ x \in (s.offset + 1)..r.offset
        BY <4>3, <4>4
      <4>. QED  BY <1>2, <2>2, <3>1, <4>1, <4>2, <4>3, <4>5
    <3>2. CASE ~(c \in cs /\ u = t)
      <4>1. stream'[c][u] = stream[c][u] /\ handled'[c][u] = handled[c][u]
        BY <1>1, <2>2, <3>2
      <4>. QED  BY <1>2, <2>2, <4>1
    <3>. QED  BY <3>1, <3>2
  <2>. QED  BY <1>1, <1>3, <2>2, <2>3, <2>4, <2>5
<1>9. ASSUME NEW t \in Topic, NEW m \in Message, Broadcast(t, m)  PROVE IInv'
  <2>1. Reached(t, m) \in SUBSET Consumer
    BY <1>1 DEF Reached
  <2>. QED  BY <1>8, <1>9, <2>1 DEF Broadcast
<1>10. ASSUME NEW c \in Consumer, NEW t \in Topic, NEW m \in Message,
              OnMessageDirect(c, t, m)
       PROVE  IInv'
  BY <1>8, <1>10 DEF OnMessageDirect
<1>11. ASSUME NEW c \in Consumer, NEW t \in Topic, NEW q \in 1..MaxSeq, Commit(c, t, q)
       PROVE  IInv'
  <2>. DEFINE s == stream[c][t]
              r == Committed(s, q)
  <2>0. q \in Nat
    BY BoundsAssumption
  <2>1. /\ r \in StreamType(Message) /\ Sound(r)
        /\ r.offset = IF q > s.offset THEN q ELSE s.offset
    BY <1>1, <1>2, <2>0, MessageNumbered, CommittedInv DEF Sound
  <2>2. s.offset \in Nat /\ 1..s.offset \subseteq handled[c][t]
    BY <1>2
  <2>3. /\ stream' = [stream EXCEPT ![c][t] = r]
        /\ handled' = [handled EXCEPT ![c][t] = handled[c][t] \cup (s.offset + 1 .. q)]
        /\ members' = members /\ saved' = saved
    BY <1>1, <1>11 DEF Commit
  <2>. HIDE DEF r, s
  <2>4. 1..r.offset \subseteq handled[c][t] \cup (s.offset + 1 .. q)
    <3>1. \A x \in 1..r.offset : x \in 1..s.offset \/ x \in (s.offset + 1 .. q)
      BY <2>0, <2>1, <2>2
    <3>. QED  BY <2>2, <3>1
  <2>5. (s.offset + 1 .. q) \in SUBSET Nat
    BY <2>0, <2>2
  <2>. QED  BY <1>1, <1>2, <1>3, <2>1, <2>3, <2>4, <2>5
<1>12. ASSUME NEW c \in Consumer, SaveState(c)  PROVE IInv'
  <2>1. saved' \in [Consumer -> [Topic -> Nat]]
    BY <1>1, <1>2, <1>12 DEF SaveState
  <2>2. ASSUME NEW d \in Consumer, NEW t \in Topic
        PROVE  1..saved'[d][t] \subseteq handled[d][t]
    BY <1>1, <1>2, <1>12 DEF SaveState
  <2>. QED  BY <1>1, <1>2, <1>3, <1>12, <2>1, <2>2 DEF SaveState
<1>13. ASSUME Crash  PROVE IInv'
  <2>1. members' \in Seq(Consumer)
    BY <1>13 DEF Crash
  <2>. QED  BY <1>1, <1>2, <1>3, <1>4, <1>13, <2>1 DEF Crash, Streams
<1>14. ASSUME NEW c \in Consumer, LoadState(c)  PROVE IInv'
  <2>1. \A t \in Topic : /\ Opened(saved[c][t]) \in StreamType(Message)
                        /\ Sound(Opened(saved[c][t]))
                        /\ Opened(saved[c][t]).offset = saved[c][t]
    BY <1>1, OpenedInv DEF Sound, Opened
  <2>. QED  BY <1>1, <1>2, <1>3, <1>14, <2>1 DEF LoadState
<1>15. CASE UNCHANGED vars
  BY <1>1, <1>2, <1>3, <1>15 DEF vars
<1>. QED
  BY <1>5, <1>6, <1>7, <1>9, <1>10, <1>11, <1>12, <1>13, <1>14, <1>15 DEF Next

(* The invariant holds in every reachable state. *)
THEOREM Invariance == Spec => []IInv
BY InitInv, StepInv, PTL DEF Spec

(* Variables keep their types: offsets are natural numbers, buffers and
   deliveries sequences of messages (consumer_group.py as a whole). *)
THEOREM TypeCorrect == Spec => []TypeOK
<1>1. IInv => TypeOK
  BY DEF IInv
<1>. QED  BY <1>1, Invariance, PTL

(* Whatever order messages arrive in and however often, each consumer object
   delivers strictly rising numbers (on_message, _flush_buffer). *)
THEOREM DeliveryOrdered == Spec => []OrderedDelivery
<1>1. IInv => OrderedDelivery
  BY DEF IInv, Sound, StreamInv, OrderedDelivery
<1>. QED  BY <1>1, Invariance, PTL

(* The reordering buffer loses no number (on_message). *)
THEOREM BufferRetains == Spec => []NothingDropped
<1>1. IInv => NothingDropped
  BY DEF IInv, Sound, StreamInv, NothingDropped
<1>. QED  BY <1>1, Invariance, PTL

(* Without duplicates and explicit commits, no deliverable message waits in the
   buffer (_flush_buffer). *)
THEOREM BufferReleases == Spec => []NoHeadOfLineBlock
<1>1. IInv => NoHeadOfLineBlock
  BY InvClosesGap DEF IInv, Sound, NoHeadOfLineBlock
<1>. QED  BY <1>1, Invariance, PTL

(* Live and saved offsets are safe to restart from (get_state, load_state). *)
THEOREM OffsetsAccounted == Spec => []OffsetsAccountFor
<1>1. IInv => OffsetsAccountFor
  BY DEF IInv
<1>. QED  BY <1>1, Invariance, PTL
=============================================================================
