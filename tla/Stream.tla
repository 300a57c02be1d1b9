------------------------------- MODULE Stream -------------------------------
(***************************************************************************)
(* One consumer's view of one topic: the offset, the reordering buffer and *)
(* what the callbacks have been given (coordination/consumer_group.py).     *)
(*                                                                         *)
(* A stream is the slice of a ConsumerGroup object that belongs to one     *)
(* topic.  No method of that class touches two topics, so a consumer is a  *)
(* function from topics to streams.  The operators below are its methods   *)
(* as functions from the old slice to the new one.                         *)
(*                                                                         *)
(* Fields of the code: subscribed (topic in _topics and in _pending),      *)
(* offset (_offsets.get(topic, 0)), pending (_pending[topic]).             *)
(* Observations, never read by an operator: delivered (the messages the    *)
(* callbacks were given, in order), seen (numbers passed to on_message     *)
(* while subscribed) and clean (no number was passed twice or after the    *)
(* offset had moved beyond it, and commit never moved the offset).         *)
(***************************************************************************)
EXTENDS Least, Sequences

(* A new object: no subscription, nothing buffered, offset taken from the
   offset store when there is one. *)
OpenedBehind(offset) ==   \* mutant: resumes one message too early
  [subscribed |-> FALSE, offset |-> offset - 1, pending |-> <<>>,
   delivered |-> <<>>, seen |-> {}, clean |-> TRUE]

Opened(offset) ==
  [subscribed |-> FALSE, offset |-> offset, pending |-> <<>>,
   delivered |-> <<>>, seen |-> {}, clean |-> TRUE]

Fresh == Opened(0)

Subscribed(s) == [s EXCEPT !.subscribed = TRUE]

(* The while loop of _flush_buffer stops at the first buffered message whose
   number is not the expected one, or at the end of the buffer. *)
FlushStops(s) ==
  {k \in 0..Len(s.pending) :
     k < Len(s.pending) => s.pending[k + 1].seq # s.offset + k + 1}

FlushBufferClears(s) ==   \* mutant: empties the buffer after the loop
  LET n == Least(FlushStops(s)) IN
  [s EXCEPT !.pending   = <<>>,
            !.delivered = @ \o SubSeq(s.pending, 1, n),
            !.offset    = @ + n]

FlushBuffer(s) ==
  LET n == Least(FlushStops(s)) IN
  [s EXCEPT !.pending   = SubSeq(@, n + 1, Len(@)),
            !.delivered = @ \o SubSeq(s.pending, 1, n),
            !.offset    = @ + n]

(* append followed by the stable sort on seq, of a buffer already sorted:
   the message lands after the last one whose number is not larger. *)
BufferSlots(s, m) ==
  {k \in 0..Len(s.pending) :
     k < Len(s.pending) => s.pending[k + 1].seq > m.seq}

BufferUnsorted(s, m) == [s EXCEPT !.pending = Append(@, m)]   \* mutant: no sort

Buffer(s, m) ==
  LET k == Least(BufferSlots(s, m)) IN
  [s EXCEPT !.pending = SubSeq(@, 1, k) \o <<m>> \o SubSeq(@, k + 1, Len(@))]

Observed(s, m) ==
  [s EXCEPT !.seen  = @ \cup {m.seq},
            !.clean = @ /\ m.seq \notin s.seen /\ m.seq > s.offset]

(* on_message of a topic nobody subscribed to: an expected number moves the
   offset before _flush_buffer fails on the missing buffer; a later number
   fails at once; an earlier one is ignored. *)
OnUnsubscribed(s, m) ==
  IF m.seq = s.offset + 1 THEN [s EXCEPT !.offset = m.seq] ELSE s

OnSubscribedAgain(s, m) ==   \* mutant: takes an old number for the expected one
  IF m.seq <= s.offset + 1
  THEN FlushBuffer([s EXCEPT !.offset = m.seq, !.delivered = Append(@, m)])
  ELSE Buffer(s, m)

OnSubscribedAhead(s, m) ==   \* mutant: delivers over a gap
  IF m.seq > s.offset
  THEN FlushBuffer([s EXCEPT !.offset = m.seq, !.delivered = Append(@, m)])
  ELSE s

OnSubscribed(s, m) ==
  CASE m.seq = s.offset + 1 ->
         FlushBuffer([s EXCEPT !.offset = m.seq, !.delivered = Append(@, m)])
    [] m.seq > s.offset + 1 -> Buffer(s, m)
    [] OTHER                -> s

OnMessage(s, m) ==
  IF s.subscribed THEN OnSubscribed(Observed(s, m), m) ELSE OnUnsubscribed(s, m)

(* on_message raises KeyError: self._pending has no list for the topic. *)
Raises(s, m) == ~s.subscribed /\ m.seq > s.offset

(* commit(topic, seq): the offset only moves forward; the buffer is not
   looked at. *)
Committed(s, q) ==
  IF q > s.offset THEN [s EXCEPT !.offset = q, !.clean = FALSE] ELSE s

(***************************************************************************)
(* What a stream promises.                                                  *)
(***************************************************************************)
Numbers(messages) == {messages[i].seq : i \in 1..Len(messages)}

StreamType(Message) ==
  [subscribed : BOOLEAN, offset : Nat, pending : Seq(Message),
   delivered : Seq(Message), seen : SUBSET Nat, clean : BOOLEAN]

(* Callbacks see strictly increasing numbers, none beyond the offset. *)
InOrder(s) ==
  /\ \A i, j \in 1..Len(s.delivered) :
       i < j => s.delivered[i].seq < s.delivered[j].seq
  /\ \A i \in 1..Len(s.delivered) : s.delivered[i].seq <= s.offset

(* A number received while subscribed is behind the offset or buffered. *)
Retained(s) == \A q \in s.seen : q <= s.offset \/ q \in Numbers(s.pending)

(* Nothing that could be delivered waits in the buffer. *)
GapClosed(s) == s.offset + 1 \notin s.seen

(* Without a subscription there is no buffer. *)
Idle(s) == ~s.subscribed => s.pending = <<>> /\ s.seen = {}

(* While the stream is clean, buffered messages have distinct, rising numbers,
   all received, none at or below `bound`. *)
BufferAbove(s, bound) ==
  s.clean =>
    \A i \in 1..Len(s.pending) :
      /\ s.pending[i].seq > bound
      /\ s.pending[i].seq \in s.seen
      /\ \A j \in 1..Len(s.pending) :
           i < j => s.pending[i].seq < s.pending[j].seq

(* The inductive invariant of a stream. *)
StreamInv(s) ==
  /\ InOrder(s)
  /\ Retained(s)
  /\ Idle(s)
  /\ BufferAbove(s, s.offset + 1)
=============================================================================
