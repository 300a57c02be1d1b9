---------------------------- MODULE ConsumerGroup ----------------------------
(***************************************************************************)
(* GroupCoordinator of coordination/consumer_group.py: one group, its      *)
(* members in the insertion order of the dict broadcast walks, and a       *)
(* stream per member and topic.  _membership mirrors the keys of _groups   *)
(* in every operation, so `members` stands for both.                       *)
(*                                                                         *)
(* The environment is any caller of the public API: the application joins, *)
(* leaves, subscribes, commits and saves offsets at any time; messages     *)
(* come in any order and may come again; the process may crash, after      *)
(* which the application joins again (a new object, offset 0) or reopens   *)
(* a consumer from its saved offsets (load_state) and replays to it.       *)
(***************************************************************************)
EXTENDS Stream

CONSTANTS Consumer,    \* consumer ids
          Topic,       \* topics
          Payload,     \* what a message carries
          MaxSeq,      \* bound: largest sequence number sent
          MaxPending   \* bound: buffered messages per stream

ASSUME BoundsAssumption == MaxSeq \in Nat \ {0} /\ MaxPending \in Nat \ {0}

Message == [seq : 1..MaxSeq, payload : Payload]

VARIABLES
  members,    \* consumers in the group, in join order
  stream,     \* stream[c][t]
  saved,      \* saved[c][t]: offset in the last get_state() the application kept
  handled     \* observation, over restarts: numbers delivered to c on t, and
              \* those its offset passed without a delivery because of an
              \* explicit commit or while c was not subscribed

vars == <<members, stream, saved, handled>>

Joined == {members[i] : i \in 1..Len(members)}

Streams(s) == [c \in Consumer |-> [t \in Topic |-> s]]

Init ==
  /\ members  = <<>>
  /\ stream   = Streams(Fresh)
  /\ saved    = [c \in Consumer |-> [t \in Topic |-> 0]]
  /\ handled  = [c \in Consumer |-> [t \in Topic |-> {}]]

------------------------------------------------------------------------------
(* join_group: a member that is there already gets its object back. *)
JoinGroup(c) ==
  /\ c \notin Joined
  /\ members' = Append(members, c)
  /\ stream'  = [stream EXCEPT ![c] = [t \in Topic |-> Fresh]]
  /\ UNCHANGED <<saved, handled>>

(* leave_group drops the member's object with its offsets and buffers. *)
LeaveGroup(c) ==
  /\ \E i \in 1..Len(members) :
       /\ members[i] = c
       /\ members' = SubSeq(members, 1, i - 1) \o SubSeq(members, i + 1, Len(members))
  /\ stream'  = [stream EXCEPT ![c] = [t \in Topic |-> Fresh]]
  /\ UNCHANGED <<saved, handled>>

Subscribe(c, t) ==
  /\ stream' = [stream EXCEPT ![c][t] = Subscribed(@)]
  /\ UNCHANGED <<members, saved, handled>>

(* The numbers on_message(m) delivers, or passes for want of a subscription. *)
Handled(s, m) ==
  Numbers(OnMessage(s, m).delivered)
    \cup (IF ~s.subscribed /\ m.seq = s.offset + 1 THEN {m.seq} ELSE {})

(* Calls c.on_message(t, m) for every c in cs, each against its own stream. *)
Deliver(cs, t, m) ==
  /\ \A c \in cs : Len(OnMessage(stream[c][t], m).pending) <= MaxPending
  /\ stream' = [c \in Consumer |->
                  IF c \in cs
                  THEN [stream[c] EXCEPT ![t] = OnMessage(@, m)]
                  ELSE stream[c]]
  /\ handled' = [c \in Consumer |->
                   IF c \in cs
                   THEN [handled[c] EXCEPT ![t] = @ \cup Handled(stream[c][t], m)]
                   ELSE handled[c]]
  /\ UNCHANGED <<members, saved>>

(* broadcast walks the members in order; the first on_message that raises
   ends the walk, and its own effect stays. *)
Reached(t, m) ==
  {members[i] : i \in {k \in 1..Len(members) :
      \A j \in 1..(k - 1) : ~Raises(stream[members[j]][t], m)}}

Broadcast(t, m) ==
  /\ members # <<>>
  /\ Deliver(Reached(t, m), t, m)

(* on_message on a consumer that is not in the group: one reopened from its
   saved offsets, which broadcast never reaches. *)
OnMessageDirect(c, t, m) ==
  /\ c \notin Joined
  /\ Deliver({c}, t, m)

Commit(c, t, q) ==
  /\ stream' = [stream EXCEPT ![c][t] = Committed(@, q)]
  /\ handled' = [handled EXCEPT ![c][t] = @ \cup (stream[c][t].offset + 1 .. q)]
  /\ UNCHANGED <<members, saved>>

(* The application stores get_state() of a consumer: the offsets only. *)
SaveState(c) ==
  /\ saved' = [saved EXCEPT ![c] = [t \in Topic |-> stream[c][t].offset]]
  /\ UNCHANGED <<members, stream, handled>>

(* The process dies; what get_state() saved survives in the application. *)
Crash ==
  /\ members' = <<>>
  /\ stream'  = Streams(Fresh)
  /\ UNCHANGED <<saved, handled>>

(* load_state builds an object of its own from the saved offsets: no topics,
   no buffer, and not a member of the group. *)
LoadState(c) ==
  /\ c \notin Joined
  /\ stream' = [stream EXCEPT ![c] = [t \in Topic |-> Opened(saved[c][t])]]
  /\ UNCHANGED <<members, saved, handled>>

Next ==
  \/ \E c \in Consumer : JoinGroup(c)
  \/ \E c \in Consumer : LeaveGroup(c)
  \/ \E c \in Consumer, t \in Topic : Subscribe(c, t)
  \/ \E t \in Topic, m \in Message : Broadcast(t, m)
  \/ \E c \in Consumer, t \in Topic, m \in Message : OnMessageDirect(c, t, m)
  \/ \E c \in Consumer, t \in Topic, q \in 1..MaxSeq : Commit(c, t, q)
  \/ \E c \in Consumer : SaveState(c)
  \/ Crash
  \/ \E c \in Consumer : LoadState(c)

Spec == Init /\ [][Next]_vars

------------------------------------------------------------------------------
TypeOK ==
  /\ members \in Seq(Consumer)
  /\ stream \in [Consumer -> [Topic -> StreamType(Message)]]
  /\ saved \in [Consumer -> [Topic -> Nat]]
  /\ handled \in [Consumer -> [Topic -> SUBSET Nat]]

(* Ordered delivery: whatever order messages arrive in and however often, the
   callbacks of a consumer object are given strictly increasing numbers, never
   one beyond its offset (on_message, _flush_buffer). *)
OrderedDelivery == \A c \in Consumer, t \in Topic : InOrder(stream[c][t])

(* The reordering buffer loses nothing: every number a subscribed consumer was
   handed is behind its offset or still buffered (on_message). *)
NothingDropped == \A c \in Consumer, t \in Topic : Retained(stream[c][t])

(* The buffer holds back only what must wait: as long as no number came twice
   and commit moved no offset, the next expected message is never one that
   was received already (_flush_buffer against the sort in on_message). *)
NoHeadOfLineBlock ==
  \A c \in Consumer, t \in Topic :
     stream[c][t].clean => GapClosed(stream[c][t])

(* Offsets are safe to restart from: every number up to a live or a saved
   offset was delivered to that consumer at some time, or was passed over by
   an explicit commit or while nobody was subscribed (get_state, load_state,
   commit). *)
OffsetsAccountFor ==
  \A c \in Consumer, t \in Topic :
     1..stream[c][t].offset \cup 1..saved[c][t]
        \subseteq handled[c][t]
==============================================================================
