----------------------------- MODULE Coordinator -----------------------------
(***************************************************************************)
(* Coordinator of coordination/coordinator.py, one at each node: Raft, the *)
(* dedup log of coordination/dedup.py and the consumers of one topic.      *)
(* Raft is MicroRaft, step for step; every entry it applies goes through   *)
(* _on_commit in the same step.                                            *)
(*                                                                         *)
(* Each node's application holds one consumer of the group cg:<topic>, the *)
(* only group _on_commit looks at; it joins and subscribes when it likes.  *)
(* The dedup file is one the caller has named (dedup_path), so it outlives *)
(* the process.  The RPC between the nodes is the embedder's, as in        *)
(* MicroRaft.  A broadcast is known by the number of the call that made it.*)
(***************************************************************************)
EXTENDS Stream

CONSTANTS Node, None, Campaigner, MaxTerm, MaxLog, MaxCalls, Restarter,
          MaxBroadcasts  \* bound: calls of ordered_broadcast that find a leader

ASSUME NodeAssumption == None \notin Node /\ Campaigner \cup Restarter \subseteq Node
ASSUME BoundAssumption == {MaxTerm, MaxLog, MaxCalls, MaxBroadcasts} \subseteq Nat

VARIABLES
  currentTerm, votedFor, log, role, commitIndex, applied,   \* MicroRaft's
  nextIndex, matchIndex, campaign, calls, restarted,
  topicSeq,   \* _topic_seqs[topic]
  dedup,      \* dedup_log: rows in the order of their ttl, `expired` of them past it
  joined,     \* the consumer is in the group
  stream,     \* its stream
  broadcasts, \* calls of ordered_broadcast made so far
  reached,    \* observation: messages given to callbacks, over all restarts
  excused,    \* observation: numbers whose row expired or was never written
              \* because the process died in between
  late        \* observation: nodes that applied an entry with nobody subscribed

(* The commands Raft carries are the messages of ordered_broadcast. *)
Message == [seq : 1..MaxBroadcasts, payload : 1..MaxBroadcasts]

Raft == INSTANCE MicroRaft WITH Command <- Message

raftVars == <<currentTerm, votedFor, log, role, commitIndex, applied,
              nextIndex, matchIndex, campaign, calls, restarted>>
consumers == <<joined, stream>>
site == <<dedup, consumers, reached, excused, late>>
vars == <<raftVars, topicSeq, broadcasts, site>>

Init ==
  /\ Raft!Init
  /\ topicSeq = [n \in Node |-> 0]
  /\ dedup = [n \in Node |-> [rows |-> <<>>, expired |-> 0]]
  /\ joined = [n \in Node |-> FALSE]
  /\ stream = [n \in Node |-> Fresh]
  /\ broadcasts = 0
  /\ reached = [n \in Node |-> <<>>]
  /\ excused = [n \in Node |-> {}]
  /\ late = {}

------------------------------------------------------------------------------
(* The dedup log.  A row past its time does not count, but it still keeps a new
   row of the same number out (INSERT OR IGNORE) until cleanup drops it. *)
IsProcessedNever(d, seq) == FALSE   \* mutant: the dedup check is gone

IsProcessed(d, seq) == \E i \in d.expired + 1 .. Len(d.rows) : d.rows[i] = seq

MarkProcessed(d, seq) ==
  IF \E i \in 1..Len(d.rows) : d.rows[i] = seq THEN d
  ELSE [d EXCEPT !.rows = Append(@, seq)]

(* What of a node _on_commit changes. *)
Site(n) == [dedup |-> dedup[n], stream |-> stream[n], reached |-> reached[n],
            present |-> joined[n]]

(* The group's broadcast: the consumer gets the message, if there is one. *)
Deliver(st, m) ==
  LET s == IF st.present THEN OnMessage(st.stream, m) ELSE st.stream
  IN [st EXCEPT !.stream = s,
                !.reached = @ \o SubSeq(s.delivered, Len(st.stream.delivered) + 1,
                                        Len(s.delivered))]

(* _on_commit.  When the consumer raises, MicroRaft swallows the exception and
   the number is not marked. *)
OnCommitMarksFirst(st, m) ==   \* mutant: marks before it checks
  LET marked == [st EXCEPT !.dedup = MarkProcessed(@, m.seq)]
  IN IF IsProcessed(marked.dedup, m.seq) THEN marked ELSE Deliver(marked, m)

OnCommit(st, m) ==
  IF IsProcessed(st.dedup, m.seq) THEN st
  ELSE IF st.present /\ Raises(st.stream, m) THEN Deliver(st, m)
  ELSE [Deliver(st, m) EXCEPT !.dedup = MarkProcessed(@, m.seq)]

Commands(entries) == [i \in 1..Len(entries) |-> entries[i].command]

(* _on_commit of one message after the other. *)
OnCommits(st, ms) ==
  LET after[i \in 0..Len(ms)] == IF i = 0 THEN st ELSE OnCommit(after[i - 1], ms[i])
  IN after[Len(ms)]

(* n ends the step at the state st. *)
SiteBecomes(n, st) ==
  /\ dedup' = [dedup EXCEPT ![n] = st.dedup]
  /\ stream' = [stream EXCEPT ![n] = st.stream]
  /\ reached' = [reached EXCEPT ![n] = st.reached]

Served(n) == joined[n] /\ stream[n].subscribed

(* Every entry the Raft step has applied at n goes through _on_commit. *)
CommitsAt(n) ==
  LET new == SubSeq(applied'[n], Len(applied[n]) + 1, Len(applied'[n]))
  IN /\ SiteBecomes(n, OnCommits(Site(n), Commands(new)))
     /\ late' = IF new # <<>> /\ ~Served(n) THEN late \cup {n} ELSE late
     /\ UNCHANGED <<joined, excused, topicSeq, broadcasts>>

------------------------------------------------------------------------------
NextSeqBefore(n) == topicSeq[n]   \* mutant: read before the increment

NextSeqLost(n) == 1   \* mutant: the counter is not stored

(* The number of the next message on the topic. *)
NextSeq(n) == topicSeq[n] + 1

(* ordered_broadcast: the number is taken before the entry is proposed. *)
OrderedBroadcast(n) ==
  /\ role[n] = "Leader"
  /\ broadcasts < MaxBroadcasts
  /\ broadcasts' = broadcasts + 1
  /\ topicSeq' = [topicSeq EXCEPT ![n] = NextSeq(n)]
  /\ Raft!Propose(n, [seq |-> topicSeq'[n], payload |-> broadcasts'])
  /\ UNCHANGED site

HandleAppendEntries(m) == Raft!HandleAppendEntries(m) /\ CommitsAt(m.to)

AppendReplyOk(m) == Raft!AppendReplyOk(m) /\ CommitsAt(m.from)

(* The other steps of MicroRaft apply nothing. *)
RaftGoesOn ==
  /\ \/ \E n \in Node : \/ Raft!StartElection(n) \/ Raft!HandleRequestVote(n)
                        \/ Raft!VoteReply(n) \/ Raft!VoteLost(n) \/ Raft!Heartbeat(n)
     \/ \E m \in calls : Raft!AppendReplyFail(m) \/ Raft!AppendLost(m)
  /\ UNCHANGED <<topicSeq, broadcasts, site>>

JoinGroup(n) ==
  /\ ~joined[n]
  /\ joined' = [joined EXCEPT ![n] = TRUE]
  /\ UNCHANGED <<raftVars, topicSeq, broadcasts, dedup, stream, reached, excused, late>>

Subscribe(n) ==
  /\ joined[n]
  /\ stream' = [stream EXCEPT ![n] = Subscribed(@)]
  /\ UNCHANGED <<raftVars, topicSeq, broadcasts, dedup, joined, reached, excused, late>>

(* The time to live of the oldest row is over. *)
Expire(n) ==
  LET d == dedup[n] IN
  /\ d.expired < Len(d.rows)
  /\ dedup' = [dedup EXCEPT ![n].expired = @ + 1]
  /\ excused' = [excused EXCEPT ![n] = @ \cup {d.rows[d.expired + 1]}]
  /\ UNCHANGED <<raftVars, topicSeq, broadcasts, consumers, reached, late>>

Cleanup(n) ==
  LET d == dedup[n] IN
  /\ d.expired > 0
  /\ dedup' = [dedup EXCEPT ![n] = [rows |-> SubSeq(d.rows, d.expired + 1, Len(d.rows)),
                                    expired |-> 0]]
  /\ UNCHANGED <<raftVars, topicSeq, broadcasts, consumers, reached, excused, late>>

(* What is not in the dedup file dies with the process of n. *)
ProcessDies(n) ==
  /\ Raft!Restart(n)
  /\ topicSeq' = [topicSeq EXCEPT ![n] = 0]
  /\ joined' = [joined EXCEPT ![n] = FALSE]
  /\ stream' = [stream EXCEPT ![n] = Fresh]
  /\ UNCHANGED broadcasts

Restart(n) ==
  /\ ProcessDies(n)
  /\ UNCHANGED <<dedup, reached, excused, late>>

(* What a call that waits to be handled or answered makes n apply. *)
Due(n) ==
  {SubSeq(Raft!TakenLog(m), Len(applied[n]) + 1, Raft!TakenCommit(m)) :
     m \in {x \in calls : x.to = n /\ x.reply = "none"}}
  \cup
  {SubSeq(log[n], Len(applied[n]) + 1, Raft!AnsweredCommit(m)) :
     m \in {x \in calls : x.from = n /\ x.reply = "ok"}}

(* The process dies in _on_commit, after the delivery of the k-th entry and
   before it is marked. *)
DieBeforeMark(n) ==
  \E es \in Due(n) : \E k \in 1..Len(es) :
    LET e  == es[k].command
        st == OnCommits(Site(n), Commands(SubSeq(es, 1, k - 1)))
    IN /\ ~IsProcessed(st.dedup, e.seq)
       /\ ProcessDies(n)
       /\ dedup' = [dedup EXCEPT ![n] = st.dedup]
       /\ reached' = [reached EXCEPT ![n] = Deliver(st, e).reached]
       /\ excused' = [excused EXCEPT ![n] = @ \cup {e.seq}]
       /\ late' = IF Served(n) THEN late ELSE late \cup {n}

Next ==
  \/ \E n \in Node : OrderedBroadcast(n)
  \/ \E m \in calls : HandleAppendEntries(m)
  \/ \E m \in calls : AppendReplyOk(m)
  \/ RaftGoesOn
  \/ \E n \in Node : JoinGroup(n)
  \/ \E n \in Node : Subscribe(n)
  \/ \E n \in Node : Expire(n)
  \/ \E n \in Node : Cleanup(n)
  \/ \E n \in Node : Restart(n)
  \/ \E n \in Node : DieBeforeMark(n)

Spec == Init /\ [][Next]_vars

------------------------------------------------------------------------------
TypeOK ==
  /\ Raft!TypeOK
  /\ topicSeq \in [Node -> 0..MaxBroadcasts]
  /\ dedup \in [Node -> [rows : Seq(1..MaxBroadcasts), expired : Nat]]
  /\ \A n \in Node : dedup[n].expired <= Len(dedup[n].rows)
  /\ joined \in [Node -> BOOLEAN]
  /\ stream \in [Node -> StreamType(Message)]
  /\ broadcasts \in 0..MaxBroadcasts
  /\ reached \in [Node -> Seq(Message)]
  /\ excused \in [Node -> SUBSET (1..MaxBroadcasts)]
  /\ late \subseteq Node

(* Total order: wherever two consumers of the topic run, whenever they joined
   and whatever was lost or restarted, what they were given under one number is
   the same message (ordered_broadcast, _on_commit). *)
SameOrderEverywhere ==
  \A n, p \in Node :
    \A i \in 1..Len(stream[n].delivered), j \in 1..Len(stream[p].delivered) :
      stream[n].delivered[i].seq = stream[p].delivered[j].seq
        => stream[n].delivered[i] = stream[p].delivered[j]

(* Exactly once, as far as the dedup log goes: across restarts, when Raft
   applies its log again from the start, no message reaches the callbacks of a
   node twice, unless its row has expired or the process died before writing
   it (_on_commit, is_processed, mark_processed). *)
ProcessedOnce ==
  \A n \in Node : \A i, j \in 1..Len(reached[n]) :
    i # j /\ reached[n][i].payload = reached[n][j].payload
      => reached[n][i].seq \in excused[n]

(* At a node that never restarted and whose consumer was there in time, the
   callbacks get exactly what Raft has committed, in its order (_on_commit). *)
DeliversTheLog ==
  \A n \in Node \ (late \cup restarted) : stream[n].delivered = Commands(applied[n])
==============================================================================
