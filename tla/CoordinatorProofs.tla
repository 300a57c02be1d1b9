------------------------- MODULE CoordinatorProofs -------------------------
(* Theorems about Coordinator.  What Raft does in it is known from           *)
(* MicroRaftProofs, with the messages of ordered_broadcast for commands.    *)
EXTENDS Coordinator, StreamProofs

RaftP == INSTANCE MicroRaftProofs WITH Command <- Message

(***************************************************************************)
(* The Raft of the coordinator is the one MicroRaftProofs speaks of.       *)
(***************************************************************************)
LEMMA SameCount ==
  /\ \A S : Raft!Cardinality(S) = RaftP!Cardinality(S)
  /\ Raft!Majority = RaftP!Majority
<1>1. ASSUME NEW S  PROVE Raft!Cardinality(S) = RaftP!Cardinality(S)
  BY DEF Raft!Cardinality, RaftP!Cardinality
<1>. QED  BY <1>1 DEF Raft!Majority, RaftP!Majority

(* What the two make of a call or its answer is the same. *)
LEMMA SameCalls ==
  ASSUME NEW m
  PROVE  /\ Raft!TakenLog(m) = RaftP!TakenLog(m)
         /\ Raft!TakenCommit(m) = RaftP!TakenCommit(m)
         /\ Raft!Acknowledged(m) = RaftP!Acknowledged(m)
         /\ Raft!AnsweredCommit(m) = RaftP!AnsweredCommit(m)
<1>1. Raft!TakenLog(m) = RaftP!TakenLog(m) /\ Raft!TakenCommit(m) = RaftP!TakenCommit(m)
  BY DEF Raft!TakenCommit, RaftP!TakenCommit, Raft!Consistent, RaftP!Consistent,
         Raft!TakenLog, RaftP!TakenLog, Raft!MergeLog, RaftP!MergeLog, Raft!Conflicts,
         RaftP!Conflicts, Raft!Least, RaftP!Least
<1>2. Raft!Acknowledged(m) = RaftP!Acknowledged(m)
  BY DEF Raft!Acknowledged, RaftP!Acknowledged
<1>3. ASSUME NEW n, NEW f  PROVE Raft!Replicated(n, f) = RaftP!Replicated(n, f)
  BY SameCount DEF Raft!Replicated, RaftP!Replicated, Raft!Peers, RaftP!Peers
<1>4. Raft!AnsweredCommit(m) = RaftP!AnsweredCommit(m)
  <2>. DEFINE top == Raft!Replicated(m.from, Raft!Acknowledged(m))
              topP == RaftP!Replicated(m.from, RaftP!Acknowledged(m))
  <2>1. top = topP
    BY <1>2, <1>3
  <2>2. /\ Raft!AnsweredCommit(m) = IF top = {} THEN commitIndex[m.from]
                                    ELSE CHOOSE i \in top : \A j \in top : j <= i
        /\ RaftP!AnsweredCommit(m) = IF topP = {} THEN commitIndex[m.from]
                                     ELSE CHOOSE i \in topP : \A j \in topP : j <= i
    BY DEF Raft!AnsweredCommit, RaftP!AnsweredCommit
  <2>. HIDE DEF top, topP
  <2>. QED  BY <2>1, <2>2
<1>. QED  BY <1>1, <1>2, <1>4

(* An action of the one is the same action of the other. *)
LEMMA RaftSteps ==
  /\ \A n : Raft!StartElection(n) => RaftP!StartElection(n)
  /\ \A n : Raft!HandleRequestVote(n) => RaftP!HandleRequestVote(n)
  /\ \A n : Raft!VoteReply(n) => RaftP!VoteReply(n)
  /\ \A n : Raft!VoteLost(n) => RaftP!VoteLost(n)
  /\ \A n : Raft!Heartbeat(n) => RaftP!Heartbeat(n)
  /\ \A n : Raft!Restart(n) => RaftP!Restart(n)
  /\ \A n, c : Raft!Propose(n, c) => RaftP!Propose(n, c)
  /\ \A m : Raft!HandleAppendEntries(m) => RaftP!HandleAppendEntries(m)
  /\ \A m : Raft!AppendReplyOk(m) => RaftP!AppendReplyOk(m)
  /\ \A m : Raft!AppendReplyFail(m) => RaftP!AppendReplyFail(m)
  /\ \A m : Raft!AppendLost(m) => RaftP!AppendLost(m)
<1>1. ASSUME NEW n, Raft!StartElection(n)  PROVE RaftP!StartElection(n)
  BY <1>1 DEF Raft!StartElection, RaftP!StartElection, Raft!Idle, RaftP!Idle,
              Raft!Peers, RaftP!Peers, Raft!Ask, RaftP!Ask, Raft!LastTerm,
              RaftP!LastTerm, Raft!commitment, RaftP!commitment, Raft!leadership,
              RaftP!leadership
<1>2. ASSUME NEW n, Raft!HandleRequestVote(n)  PROVE RaftP!HandleRequestVote(n)
  BY <1>2 DEF Raft!HandleRequestVote, RaftP!HandleRequestVote, Raft!AdoptTerm,
              RaftP!AdoptTerm, Raft!Grants, RaftP!Grants, Raft!LastTerm,
              RaftP!LastTerm, Raft!commitment, RaftP!commitment, Raft!leadership,
              RaftP!leadership
<1>3. ASSUME NEW n, Raft!VoteReply(n)  PROVE RaftP!VoteReply(n)
  BY <1>3, SameCount DEF Raft!VoteReply, RaftP!VoteReply, Raft!ElectionGoesOn,
                         RaftP!ElectionGoesOn, Raft!Idle, RaftP!Idle, Raft!Ask,
                         RaftP!Ask, Raft!leadership, RaftP!leadership, Raft!commitment,
                         RaftP!commitment
<1>4. ASSUME NEW n, Raft!VoteLost(n)  PROVE RaftP!VoteLost(n)
  BY <1>4, SameCount DEF Raft!VoteLost, RaftP!VoteLost, Raft!ElectionGoesOn,
                         RaftP!ElectionGoesOn, Raft!Idle, RaftP!Idle, Raft!Ask,
                         RaftP!Ask, Raft!leadership, RaftP!leadership, Raft!commitment,
                         RaftP!commitment
<1>5. ASSUME NEW n, Raft!Heartbeat(n)  PROVE RaftP!Heartbeat(n)
  BY <1>5, SameCount DEF Raft!Heartbeat, RaftP!Heartbeat, Raft!BroadcastAppendEntries,
                         RaftP!BroadcastAppendEntries, Raft!Peers, RaftP!Peers,
                         Raft!AppendCall, RaftP!AppendCall, Raft!persistent,
                         RaftP!persistent, Raft!commitment, RaftP!commitment,
                         Raft!leadership, RaftP!leadership
<1>6. ASSUME NEW n, Raft!Restart(n)  PROVE RaftP!Restart(n)
  BY <1>6 DEF Raft!Restart, RaftP!Restart, Raft!Idle, RaftP!Idle
<1>7. ASSUME NEW n, NEW c, Raft!Propose(n, c)  PROVE RaftP!Propose(n, c)
  BY <1>7, SameCount DEF Raft!Propose, RaftP!Propose, Raft!BroadcastAppendEntries,
                         RaftP!BroadcastAppendEntries, Raft!Peers, RaftP!Peers,
                         Raft!AppendCall, RaftP!AppendCall, Raft!commitment,
                         RaftP!commitment, Raft!leadership, RaftP!leadership
<1>8. ASSUME NEW m, Raft!HandleAppendEntries(m)  PROVE RaftP!HandleAppendEntries(m)
  BY <1>8 DEF Raft!HandleAppendEntries, RaftP!HandleAppendEntries, Raft!AdoptTerm,
              RaftP!AdoptTerm, Raft!TakenLog, RaftP!TakenLog, Raft!Consistent,
              RaftP!Consistent, Raft!MergeLog, RaftP!MergeLog, Raft!Conflicts,
              RaftP!Conflicts, Raft!Least, RaftP!Least, Raft!TakenCommit,
              RaftP!TakenCommit, Raft!Apply, RaftP!Apply, Raft!leadership,
              RaftP!leadership
<1>9. ASSUME NEW m, Raft!AppendReplyOk(m)  PROVE RaftP!AppendReplyOk(m)
  BY <1>9, SameCalls DEF Raft!AppendReplyOk, RaftP!AppendReplyOk, Raft!Apply,
                         RaftP!Apply, Raft!persistent, RaftP!persistent
<1>10. ASSUME NEW m, Raft!AppendReplyFail(m)  PROVE RaftP!AppendReplyFail(m)
  BY <1>10 DEF Raft!AppendReplyFail, RaftP!AppendReplyFail, Raft!persistent,
               RaftP!persistent, Raft!commitment, RaftP!commitment
<1>11. ASSUME NEW m, Raft!AppendLost(m)  PROVE RaftP!AppendLost(m)
  BY <1>11 DEF Raft!AppendLost, RaftP!AppendLost, Raft!persistent, RaftP!persistent,
               Raft!commitment, RaftP!commitment, Raft!leadership, RaftP!leadership
<1>. QED  BY <1>1, <1>2, <1>3, <1>4, <1>5, <1>6, <1>7, <1>8, <1>9, <1>10, <1>11

(* They begin alike. *)
LEMMA RaftInit == Init => RaftP!Init
BY DEF Init, Raft!Init, RaftP!Init, Raft!Idle, RaftP!Idle

(* Their types are the same. *)
LEMMA RaftTypes == RaftP!TypeOK => Raft!TypeOK
BY DEF Raft!TypeOK, RaftP!TypeOK, Raft!Log, RaftP!Log, Raft!Entry, RaftP!Entry,
       Raft!Campaign, RaftP!Campaign, Raft!Call, RaftP!Call

(* The message ordered_broadcast makes at n. *)
NextMessage(n) == [seq |-> topicSeq[n] + 1, payload |-> broadcasts + 1]

(* A step of the coordinator is a step of Raft, which proposes nothing but the
   message made in that step, or it leaves Raft alone. *)
LEMMA RaftGoesFrom ==
  ASSUME [Next]_vars, topicSeq \in [Node -> Nat], NEW D \in SUBSET Message,
         \A n \in Node : OrderedBroadcast(n) => NextMessage(n) \in D
  PROVE  RaftP!NextFrom(D) \/ UNCHANGED RaftP!vars
<1>1. ASSUME NEW n \in Node, OrderedBroadcast(n)  PROVE RaftP!NextFrom(D)
  <2>1. NextMessage(n) \in Message \cap D
    BY <1>1
  <2>2. /\ RaftP!Propose(n, [seq |-> topicSeq'[n], payload |-> broadcasts'])
        /\ topicSeq' = [topicSeq EXCEPT ![n] = topicSeq[n] + 1]
        /\ broadcasts' = broadcasts + 1
    BY <1>1, RaftSteps DEF OrderedBroadcast, NextSeq
  <2>3. RaftP!Propose(n, NextMessage(n))
    <3>1. topicSeq'[n] = topicSeq[n] + 1
      BY <2>2
    <3>. QED  BY <2>2, <3>1 DEF NextMessage
  <2>. QED  BY <2>1, <2>3 DEF RaftP!NextFrom
<1>2. CASE UNCHANGED vars
  BY <1>2 DEF vars, raftVars, RaftP!vars
<1>3. ASSUME NEW n \in Node, JoinGroup(n) \/ Subscribe(n) \/ Expire(n) \/ Cleanup(n)
      PROVE  UNCHANGED RaftP!vars
  BY <1>3 DEF JoinGroup, Subscribe, Expire, Cleanup, raftVars, RaftP!vars
<1>4. ASSUME NEW n \in Node, Restart(n) \/ DieBeforeMark(n)  PROVE RaftP!NextFrom(D)
  <2>1. Raft!Restart(n)
    BY <1>4 DEF Restart, DieBeforeMark, ProcessDies
  <2>. QED  BY <2>1, RaftSteps DEF RaftP!NextFrom
<1>5. ASSUME NEW m \in calls, HandleAppendEntries(m) \/ AppendReplyOk(m)
      PROVE  RaftP!NextFrom(D)
  BY <1>5, RaftSteps DEF HandleAppendEntries, AppendReplyOk, RaftP!NextFrom
<1>6. CASE RaftGoesOn
  BY <1>6, RaftSteps DEF RaftGoesOn, RaftP!NextFrom
<1>. QED  BY <1>1, <1>2, <1>3, <1>4, <1>5, <1>6 DEF Next

(* A step that proposes what was drawn is a step of Raft. *)
LEMMA RaftGoes ==
  ASSUME NEW D \in SUBSET Message, RaftP!NextFrom(D) \/ UNCHANGED RaftP!vars
  PROVE  [RaftP!Next]_RaftP!vars
BY DEF RaftP!NextFrom, RaftP!Next

(***************************************************************************)
(* What _on_commit does, entry by entry.                                   *)
(***************************************************************************)

(* Whatever holds before the first message, and from one to the next, holds
   after the last: S[i] are the states that may be reached after i messages. *)
LEMMA OnCommitsReach ==
  ASSUME NEW T, NEW ms \in Seq(T), NEW S, NEW st, st \in S[0],
         \A i \in 1..Len(ms) : \A x \in S[i - 1] : OnCommit(x, ms[i]) \in S[i]
  PROVE  OnCommits(st, ms) \in S[Len(ms)]
<1>. DEFINE N == Len(ms)
            Chain(g, k) == g = [i \in 0..k |-> IF i = 0 THEN st ELSE OnCommit(g[i - 1], ms[i])]
<1>1. N \in Nat
  OBVIOUS
<1>2. OnCommits(st, ms) = (CHOOSE g : Chain(g, N))[N]
  BY DEF OnCommits
<1>. HIDE DEF N
<1>3. ASSUME NEW k \in Nat, k <= N, NEW g, Chain(g, k)
      PROVE  \A i \in 0..k : g[i] \in S[i]
  <2>. DEFINE bad == {i \in 0..k : g[i] \notin S[i]}
  <2>. SUFFICES ASSUME bad # {}  PROVE FALSE
    OBVIOUS
  <2>1. bad \in SUBSET Nat
    OBVIOUS
  <2>2. PICK b \in bad : \A y \in bad : b <= y
    BY <2>1, LeastExists
  <2>3. b # 0
    BY <1>3
  <2>4. b - 1 \in 0..k /\ b \in 1..N /\ ~(b <= b - 1)
    BY <1>1, <1>3, <2>2, <2>3
  <2>5. g[b - 1] \in S[b - 1]
    BY <2>2, <2>4
  <2>6. g[b] = OnCommit(g[b - 1], ms[b])
    BY <1>3, <2>2, <2>3
  <2>. QED  BY <2>2, <2>4, <2>5, <2>6 DEF N
<1>4. ASSUME NEW k \in Nat, k <= N  PROVE \E g : Chain(g, k)
  <2>. DEFINE bad == {i \in 0..k : ~\E g : Chain(g, i)}
  <2>. SUFFICES ASSUME bad # {}  PROVE FALSE
    BY <1>4
  <2>1. bad \in SUBSET Nat
    OBVIOUS
  <2>. HIDE DEF Chain
  <2>2. PICK b \in bad : \A y \in bad : b <= y
    BY <2>1, LeastExists
  <2>3. CASE b = 0
    <3>. DEFINE g == [i \in 0..0 |-> st]
    <3>1. Chain(g, 0)
      <4>1. \A i \in 0..0 : i = 0
        OBVIOUS
      <4>. QED  BY <4>1 DEF Chain
    <3>. QED  BY <2>2, <2>3, <3>1
  <2>4. CASE b # 0
    <3>1. b \in Nat /\ b - 1 \in 0..k /\ ~(b <= b - 1)
      BY <1>4, <2>2, <2>4
    <3>2. PICK g : Chain(g, b - 1)
      BY <2>2, <3>1
    <3>. DEFINE h == [i \in 0..b |-> IF i < b THEN g[i] ELSE OnCommit(g[b - 1], ms[b])]
    <3>3. ASSUME NEW i \in 0..b
          PROVE  h[i] = IF i = 0 THEN st ELSE OnCommit(h[i - 1], ms[i])
      <4>1. CASE i = 0
        <5>1. g[0] = st /\ h[0] = g[0]
          BY <2>4, <3>1, <3>2 DEF Chain
        <5>. QED  BY <4>1, <5>1
      <4>2. CASE i # 0 /\ i < b
        <5>1. i \in 0..(b - 1) /\ i - 1 \in 0..b /\ i - 1 < b
          BY <3>1, <4>2
        <5>2. g[i] = OnCommit(g[i - 1], ms[i])
          BY <3>2, <4>2, <5>1 DEF Chain
        <5>. QED  BY <4>2, <5>1, <5>2
      <4>3. CASE i = b
        <5>1. i - 1 \in 0..b /\ i - 1 < b /\ ~(i < b)
          BY <2>4, <3>1, <4>3
        <5>. QED  BY <2>4, <4>3, <5>1
      <4>. QED  BY <3>1, <4>1, <4>2, <4>3
    <3>. HIDE DEF h
    <3>4. h = [i \in 0..b |-> h[i]]
      BY DEF h
    <3>5. Chain(h, b)
      BY <3>3, <3>4 DEF Chain
    <3>. QED  BY <2>2, <3>5
  <2>. QED  BY <2>3, <2>4
<1>. DEFINE f == CHOOSE g : Chain(g, N)
<1>5. Chain(f, N)
  <2>. HIDE DEF Chain
  <2>1. N <= N
    BY <1>1
  <2>2. \E g : Chain(g, N)
    BY <1>1, <1>4, <2>1
  <2>. QED  BY <2>2
<1>. HIDE DEF f, Chain
<1>6. f[N] \in S[N]
  BY <1>1, <1>3, <1>5
<1>. QED  BY <1>2, <1>6 DEF f, N

(* The numbers in the dedup log. *)
Rows(d) == {d.rows[i] : i \in 1..Len(d.rows)}

DedupType == [rows : Seq(1..MaxBroadcasts), expired : Nat]

SiteType(D) == [dedup : DedupType, stream : StreamType(D), reached : Seq(D),
                present : BOOLEAN]

(* What the callbacks of a site were given and what its stream still holds. *)
Held(st) == st.reached \o st.stream.pending

(* The messages of h are marked, in the dedup log d or, if not any more, in X;
   and only those in X are twice in h. *)
Marked(h, d, X) == \A i \in 1..Len(h) : h[i].seq \in Rows(d) \cup X
Once(h, X) == \A i, j \in 1..Len(h) : i # j /\ h[i] = h[j] => h[i].seq \in X

(* The invariant of a site whose messages come from D and whose dedup log has
   lost, or never had, the numbers X. *)
SiteInv(st, D, X) ==
  /\ st \in SiteType(D)
  /\ st.dedup.expired <= Len(st.dedup.rows)
  /\ StreamInv(st.stream)
  /\ \A i \in 1..st.dedup.expired : st.dedup.rows[i] \in X
  /\ Marked(Held(st), st.dedup, X)
  /\ Once(Held(st), X)

(* A message put into a held sequence that did not hold it is there once. *)
LEMMA InsertedOnce ==
  ASSUME NEW M, NEW h \in Seq(M), NEW g \in Seq(M), NEW m, NEW k, InsertedAt(h, g, m, k),
         NEW X, Once(h, X), m.seq \in X \/ \A i \in 1..Len(h) : h[i] # m
  PROVE  Once(g, X)
<1>. DEFINE H == Len(h)
<1>1. /\ H \in Nat /\ k \in 1..(H + 1) /\ Len(g) = H + 1
      /\ \A i \in 1..(H + 1) : g[i] = IF i < k THEN h[i] ELSE IF i = k THEN m ELSE h[i - 1]
  BY DEF InsertedAt
<1>. HIDE DEF H
<1>. SUFFICES ASSUME NEW i \in 1..(H + 1), NEW j \in 1..(H + 1), i # j, g[i] = g[j],
                     g[i].seq \notin X
              PROVE  FALSE
  BY <1>1 DEF Once
<1>2. ASSUME NEW a \in 1..(H + 1)
      PROVE  \/ a = k /\ g[a] = m
             \/ a < k /\ a \in 1..H /\ g[a] = h[a]
             \/ a > k /\ a - 1 \in 1..H /\ g[a] = h[a - 1]
  BY <1>1
<1>3. ASSUME m.seq \notin X  PROVE \A b \in 1..H : h[b] # m
  BY <1>3 DEF H
<1>4. CASE i = k
  <2>1. j # k /\ g[i] = m
    BY <1>2, <1>4
  <2>2. \E b \in 1..H : g[j] = h[b]
    BY <1>1, <1>2, <2>1
  <2>. QED  BY <1>3, <2>1, <2>2
<1>5. CASE j = k
  <2>1. i # k /\ g[j] = m
    BY <1>2, <1>5
  <2>2. \E b \in 1..H : g[i] = h[b]
    BY <1>1, <1>2, <2>1
  <2>. QED  BY <1>3, <2>1, <2>2
<1>6. CASE i # k /\ j # k
  <2>. DEFINE a == IF i < k THEN i ELSE i - 1
              b == IF j < k THEN j ELSE j - 1
  <2>1. a \in 1..H /\ g[i] = h[a]
    BY <1>1, <1>2, <1>6
  <2>2. b \in 1..H /\ g[j] = h[b]
    BY <1>1, <1>2, <1>6
  <2>3. a # b
    BY <1>1, <1>6
  <2>. HIDE DEF a, b
  <2>. QED  BY <2>1, <2>2, <2>3 DEF Once, H
<1>. QED  BY <1>4, <1>5, <1>6

(* If that message is marked too, everything held still is. *)
LEMMA InsertedMarked ==
  ASSUME NEW M, NEW h \in Seq(M), NEW g \in Seq(M), NEW m, NEW k, InsertedAt(h, g, m, k),
         NEW d, NEW e, NEW X, Marked(h, d, X), Rows(d) \subseteq Rows(e),
         m.seq \in Rows(e) \cup X
  PROVE  Marked(g, e, X)
<1>. DEFINE H == Len(h)
            Y == Rows(e) \cup X
<1>1. /\ H \in Nat /\ k \in 1..(H + 1) /\ Len(g) = H + 1
      /\ \A i \in 1..(H + 1) : g[i] = IF i < k THEN h[i] ELSE IF i = k THEN m ELSE h[i - 1]
  BY DEF InsertedAt
<1>2. m.seq \in Y /\ \A i \in 1..H : h[i].seq \in Y
  BY DEF Marked
<1>. HIDE DEF H, Y
<1>3. ASSUME NEW i \in 1..(H + 1)  PROVE g[i].seq \in Y
  <2>1. CASE i < k
    BY <1>1, <1>2, <2>1
  <2>2. CASE i = k
    BY <1>1, <1>2, <2>2
  <2>3. CASE i > k
    BY <1>1, <1>2, <2>3
  <2>. QED  BY <1>1, <2>1, <2>2, <2>3
<1>. QED  BY <1>1, <1>3 DEF Marked, Y

(* mark_processed adds the number to the rows, if it is not there. *)
LEMMA MarkResult ==
  ASSUME NEW d \in DedupType, d.expired <= Len(d.rows), NEW q \in 1..MaxBroadcasts
  PROVE  /\ MarkProcessed(d, q) \in DedupType
         /\ MarkProcessed(d, q).expired = d.expired
         /\ Len(d.rows) <= Len(MarkProcessed(d, q).rows)
         /\ \A i \in 1..d.expired : MarkProcessed(d, q).rows[i] = d.rows[i]
         /\ Rows(MarkProcessed(d, q)) = Rows(d) \cup {q}
<1>. DEFINE r == Append(d.rows, q)
            N == Len(d.rows)
<1>1. d.rows \in Seq(1..MaxBroadcasts) /\ d.expired \in Nat /\ N \in Nat
  BY DEF DedupType
<1>2. CASE \E i \in 1..N : d.rows[i] = q
  <2>1. MarkProcessed(d, q) = d
    BY <1>2 DEF MarkProcessed
  <2>2. q \in Rows(d)
    BY <1>2 DEF Rows
  <2>3. N <= N
    BY <1>1
  <2>. QED  BY <2>1, <2>2, <2>3
<1>3. CASE ~\E i \in 1..N : d.rows[i] = q
  <2>1. /\ r \in Seq(1..MaxBroadcasts) /\ Len(r) = N + 1
        /\ \A i \in 1..N : r[i] = d.rows[i]
        /\ r[N + 1] = q
    BY <1>1
  <2>. HIDE DEF r
  <2>2. MarkProcessed(d, q) = [d EXCEPT !.rows = r]
    BY <1>3 DEF MarkProcessed, r
  <2>3. /\ MarkProcessed(d, q) \in DedupType
        /\ MarkProcessed(d, q).rows = r /\ MarkProcessed(d, q).expired = d.expired
    BY <2>1, <2>2 DEF DedupType
  <2>. HIDE DEF N
  <2>4. \A i \in 1..(N + 1) : i \in 1..N \/ i = N + 1
    BY <1>1
  <2>5. N + 1 \in 1..(N + 1) /\ 1..N \subseteq 1..(N + 1) /\ N <= N + 1
        /\ \A i \in 1..d.expired : i \in 1..N
    BY <1>1 DEF N
  <2>6. Rows(MarkProcessed(d, q)) = {r[i] : i \in 1..(N + 1)} /\ Rows(d) = {d.rows[i] : i \in 1..N}
    BY <2>1, <2>3 DEF Rows, N
  <2>7. {r[i] : i \in 1..(N + 1)} = {d.rows[i] : i \in 1..N} \cup {q}
    BY <2>1, <2>4, <2>5
  <2>. QED  BY <2>1, <2>3, <2>5, <2>6, <2>7 DEF N
<1>. QED  BY <1>2, <1>3

(* What a site holds after the group's broadcast. *)
LEMMA DeliverHolds ==
  ASSUME NEW D, Numbered(D), NEW st \in SiteType(D), StreamInv(st.stream), NEW m \in D
  PROVE  LET w == Deliver(st, m) IN
         /\ w \in SiteType(D) /\ StreamInv(w.stream)
         /\ w.dedup = st.dedup /\ w.present = st.present
         /\ w.stream = IF st.present THEN OnMessage(st.stream, m) ELSE st.stream
         /\ Held(st) \in Seq(D) /\ Held(w) \in Seq(D)
         /\ \/ Held(w) = Held(st)
            \/ /\ st.present /\ st.stream.subscribed
               /\ \E k : InsertedAt(Held(st), Held(w), m, k)
<1>. DEFINE s == st.stream
            f == IF st.present THEN OnMessage(s, m) ELSE s
            r == st.reached
            x == Passed(s, f)
            w == Deliver(st, m)
<1>1. s \in StreamType(D) /\ r \in Seq(D) /\ st.present \in BOOLEAN /\ st.dedup \in DedupType
  BY DEF SiteType
<1>2. w = [st EXCEPT !.stream = f, !.reached = r \o x]
  BY DEF Deliver, Passed
<1>3. s.pending \in Seq(D) /\ s.delivered \in Seq(D)
  BY <1>1 DEF StreamType
<1>4. /\ f \in StreamType(D) /\ StreamInv(f) /\ x \in Seq(D)
      /\ \/ (r \o x) \o f.pending = r \o s.pending
         \/ /\ st.present /\ s.subscribed
            /\ \E k : InsertedAt(r \o s.pending, (r \o x) \o f.pending, m, k)
  <2>1. CASE st.present
    <3>1. OnMessage(s, m) \in StreamType(D) /\ StreamInv(OnMessage(s, m))
      BY <1>1, OnMessageInv
    <3>2. f = OnMessage(s, m)
      BY <2>1
    <3>. HIDE DEF f, s, r
    <3>3. LET e == OnMessage(s, m)
              g == (r \o Passed(s, e)) \o e.pending
          IN /\ Passed(s, e) \in Seq(D)
             /\ \/ g = r \o s.pending
                \/ s.subscribed /\ \E k : InsertedAt(r \o s.pending, g, m, k)
      BY <1>1, <3>1, OnMessageHolds
    <3>. QED  BY <2>1, <3>1, <3>2, <3>3
  <2>2. CASE ~st.present
    <3>1. f = s
      BY <2>2
    <3>. HIDE DEF f
    <3>2. Len(s.delivered) \in Nat
      BY <1>3
    <3>3. x = <<>>
      BY <1>3, <3>1, <3>2 DEF Passed
    <3>4. r \o <<>> = r /\ <<>> \in Seq(D)
      BY <1>1
    <3>. QED  BY <1>1, <3>1, <3>3, <3>4
  <2>. QED  BY <1>1, <2>1, <2>2
<1>. HIDE DEF f, x
<1>5. r \o x \in Seq(D)
  BY <1>1, <1>4
<1>. DEFINE y == r \o x
<1>. HIDE DEF y
<1>6. w = [st EXCEPT !.stream = f, !.reached = y] /\ y \in Seq(D)
  BY <1>2, <1>5 DEF y
<1>7. w \in SiteType(D) /\ w.dedup = st.dedup /\ w.present = st.present
      /\ w.stream = f /\ w.reached = y
  BY <1>1, <1>4, <1>6 DEF SiteType
<1>8. Held(st) = r \o s.pending /\ Held(w) = (r \o x) \o f.pending
  BY <1>7 DEF Held, y
<1>9. f.pending \in Seq(D)
  BY <1>4 DEF StreamType
<1>10. r \o s.pending \in Seq(D) /\ (r \o x) \o f.pending \in Seq(D)
  <2>1. r \o s.pending \in Seq(D)
    BY <1>1, <1>3
  <2>. HIDE DEF r, s
  <2>2. (r \o x) \o f.pending \in Seq(D)
    BY <1>5, <1>9, Concatenated, Zenon
  <2>. QED  BY <2>1, <2>2 DEF r, s
<1>. QED  BY <1>4, <1>7, <1>8, <1>10 DEF f

(* _on_commit of a message of D. *)
LEMMA OnCommitSite ==
  ASSUME NEW D, D \subseteq Message, NEW X, NEW st, SiteInv(st, D, X), NEW m \in D
  PROVE  SiteInv(OnCommit(st, m), D, X) /\ OnCommit(st, m).present = st.present
<1>. DEFINE w == Deliver(st, m)
            d == st.dedup
            q == m.seq
            e == MarkProcessed(d, q)
<1>1. Numbered(D) /\ q \in 1..MaxBroadcasts
  BY BoundAssumption DEF Numbered, Message
<1>2. /\ st \in SiteType(D) /\ StreamInv(st.stream)
      /\ d \in DedupType /\ d.expired <= Len(d.rows)
      /\ \A i \in 1..d.expired : d.rows[i] \in X
      /\ Marked(Held(st), d, X) /\ Once(Held(st), X)
  BY DEF SiteInv, SiteType
<1>3. /\ w \in SiteType(D) /\ StreamInv(w.stream)
      /\ w.dedup = d /\ w.present = st.present
      /\ Held(st) \in Seq(D) /\ Held(w) \in Seq(D)
      /\ \/ Held(w) = Held(st)
         \/ /\ st.present /\ st.stream.subscribed
            /\ \E k : InsertedAt(Held(st), Held(w), m, k)
  BY <1>1, <1>2, DeliverHolds
<1>4. CASE IsProcessed(d, q)
  BY <1>4 DEF OnCommit
<1>5. CASE ~IsProcessed(d, q) /\ st.present /\ Raises(st.stream, m)
  <2>1. OnCommit(st, m) = w
    BY <1>5 DEF OnCommit
  <2>2. Held(w) = Held(st)
    BY <1>3, <1>5 DEF Raises
  <2>. HIDE DEF w, d
  <2>. QED  BY <1>2, <1>3, <2>1, <2>2 DEF SiteInv
<1>6. CASE ~IsProcessed(d, q) /\ ~(st.present /\ Raises(st.stream, m))
  <2>. DEFINE v == [w EXCEPT !.dedup = e]
  <2>1. OnCommit(st, m) = v
    <3>1. OnCommit(st, m) = [w EXCEPT !.dedup = MarkProcessed(w.dedup, m.seq)]
      BY <1>6 DEF OnCommit
    <3>. QED  BY <1>3, <3>1
  <2>2. /\ e \in DedupType /\ e.expired = d.expired /\ Len(d.rows) <= Len(e.rows)
        /\ \A i \in 1..d.expired : e.rows[i] = d.rows[i]
        /\ Rows(e) = Rows(d) \cup {q}
    BY <1>1, <1>2, MarkResult
  <2>. HIDE DEF e, w, d, q
  <2>3. /\ v \in SiteType(D) /\ v.dedup = e /\ v.stream = w.stream
        /\ v.reached = w.reached /\ v.present = w.present
    BY <1>3, <2>2 DEF SiteType
  <2>4. Held(v) = Held(w)
    BY <2>3 DEF Held
  <2>5. q \in X \/ \A i \in 1..Len(Held(st)) : Held(st)[i] # m
    <3>1. \A i \in 1..Len(d.rows) : d.rows[i] = q => i \in 1..d.expired
      BY <1>2, <1>6 DEF IsProcessed, DedupType
    <3>2. q \in Rows(d) => q \in X
      BY <1>2, <3>1 DEF Rows
    <3>. QED  BY <1>2, <3>2 DEF Marked, q
  <2>6. Marked(Held(v), e, X) /\ Once(Held(v), X)
    <3>1. CASE Held(w) = Held(st)
      BY <1>2, <2>2, <2>4, <3>1 DEF Marked
    <3>2. ASSUME NEW k, InsertedAt(Held(st), Held(w), m, k)
          PROVE  Marked(Held(w), e, X) /\ Once(Held(w), X)
      <4>1. Rows(d) \subseteq Rows(e) /\ q \in Rows(e) \cup X
        BY <2>2
      <4>2. Marked(Held(w), e, X)
        BY <1>2, <1>3, <3>2, <4>1, InsertedMarked DEF q
      <4>3. Once(Held(w), X)
        BY <1>2, <1>3, <2>5, <3>2, InsertedOnce DEF q
      <4>. QED  BY <4>2, <4>3
    <3>. QED  BY <1>3, <2>4, <3>1, <3>2
  <2>7. d.expired <= Len(e.rows)
    BY <1>2, <2>2 DEF DedupType
  <2>. HIDE DEF v
  <2>8. SiteInv(v, D, X) /\ v.present = st.present
    BY <1>2, <1>3, <2>2, <2>3, <2>6, <2>7 DEF SiteInv
  <2>. QED  BY <2>1, <2>8
<1>. QED  BY <1>4, <1>5, <1>6

(* _on_commit of one message of D after the other. *)
LEMMA OnCommitsSite ==
  ASSUME NEW D, D \subseteq Message, NEW X, NEW st, SiteInv(st, D, X), NEW ms \in Seq(D)
  PROVE  SiteInv(OnCommits(st, ms), D, X) /\ OnCommits(st, ms).present = st.present
<1>0. ASSUME NEW y, SiteInv(y, D, X), NEW m \in D
      PROVE  SiteInv(OnCommit(y, m), D, X) /\ OnCommit(y, m).present = y.present
  BY ONLY D \subseteq Message, <1>0, OnCommitSite
<1>. DEFINE I == {y \in SiteType(D) : SiteInv(y, D, X) /\ y.present = st.present}
            S == [i \in 0..Len(ms) |-> I]
<1>1. st \in I
  BY DEF SiteInv
<1>2. ASSUME NEW i \in 1..Len(ms), NEW y \in I  PROVE OnCommit(y, ms[i]) \in I
  <2>1. ms[i] \in D
    OBVIOUS
  <2>2. SiteInv(y, D, X) /\ y.present = st.present
    OBVIOUS
  <2>. HIDE DEF I
  <2>3. SiteInv(OnCommit(y, ms[i]), D, X) /\ OnCommit(y, ms[i]).present = st.present
    BY <1>0, <2>1, <2>2
  <2>. QED  BY <2>3 DEF SiteInv, I
<1>3. Len(ms) \in Nat
  OBVIOUS
<1>. HIDE DEF I
<1>4. st \in S[0] /\ \A i \in 1..Len(ms) : \A y \in S[i - 1] : OnCommit(y, ms[i]) \in S[i]
  BY <1>1, <1>2, <1>3
<1>5. OnCommits(st, ms) \in S[Len(ms)]
  <2>. HIDE DEF S
  <2>. QED  BY <1>4, OnCommitsReach
<1>6. OnCommits(st, ms) \in I
  BY <1>3, <1>5
<1>. QED  BY <1>6 DEF I

(***************************************************************************)
(* The inductive invariant.  D are the messages ordered_broadcast has made *)
(* so far; no state variable holds them all, so it is a parameter, and the *)
(* invariant says that some D will do.                                     *)
(***************************************************************************)

(* Every call made one message, and whatever Raft holds is one of them. *)
DrawnInv(D) ==
  /\ D \subseteq Message
  /\ \A x \in D : x.payload <= broadcasts
  /\ \A x, y \in D : x.payload = y.payload => x = y
  /\ RaftP!DrawnFrom(D)

CounterInv ==
  /\ broadcasts \in 0..MaxBroadcasts
  /\ topicSeq \in [Node -> Nat]
  /\ \A n \in Node : topicSeq[n] <= broadcasts

SitesInv(D) ==
  /\ dedup \in [Node -> DedupType]
  /\ stream \in [Node -> StreamType(D)]
  /\ reached \in [Node -> Seq(D)]
  /\ joined \in [Node -> BOOLEAN]
  /\ excused \in [Node -> SUBSET (1..MaxBroadcasts)]
  /\ late \subseteq Node
  /\ \A n \in Node : SiteInv(Site(n), D, excused[n])

CoordInv(D) == RaftP!TypeInv /\ DrawnInv(D) /\ CounterInv /\ SitesInv(D)

(* Nothing is broadcast, delivered or marked at first. *)
LEMMA CoordInit == Init => CoordInv({})
<1>. SUFFICES ASSUME Init  PROVE CoordInv({})
  OBVIOUS
<1>1. RaftP!TypeInv
  BY RaftInit, RaftP!TypeInit, NodeAssumption, BoundAssumption
<1>2. \A S : <<>> \in Seq(S)
  OBVIOUS
<1>3. DrawnInv({})
  <2>1. RaftP!Init
    BY RaftInit
  <2>2. RaftP!DrawnFrom({})
    BY <1>2, <2>1 DEF RaftP!Init, RaftP!DrawnFrom
  <2>. QED  BY <2>2 DEF DrawnInv
<1>4. CounterInv
  BY BoundAssumption DEF Init, CounterInv
<1>5. Fresh \in StreamType({}) /\ StreamInv(Fresh) /\ Fresh.pending = <<>>
  <2>1. Fresh.pending = <<>> /\ 0 \in Nat
    BY DEF Fresh, Opened
  <2>. QED  BY <2>1, OpenedInv DEF Fresh
<1>. DEFINE d == [rows |-> <<>>, expired |-> 0]
<1>6. d \in DedupType /\ d.expired = 0 /\ d.expired <= Len(d.rows) /\ \A i \in 1..d.expired : FALSE
  BY DEF DedupType
<1>. HIDE DEF d
<1>7. ASSUME NEW n \in Node  PROVE SiteInv(Site(n), {}, excused[n])
  <2>1. Site(n) = [dedup |-> d, stream |-> Fresh, reached |-> <<>>, present |-> FALSE]
    BY DEF Init, Site, d
  <2>2. Site(n) \in SiteType({})
    BY <1>2, <1>5, <1>6, <2>1 DEF SiteType
  <2>3. Held(Site(n)) = <<>>
    <3>1. <<>> \o <<>> = <<>>
      OBVIOUS
    <3>. QED  BY <1>5, <2>1, <3>1 DEF Held
  <2>4. \A i \in 1..Len(<<>>) : FALSE
    OBVIOUS
  <2>5. Marked(<<>>, d, excused[n]) /\ Once(<<>>, excused[n])
    BY <2>4 DEF Marked, Once
  <2>6. SiteInv([dedup |-> d, stream |-> Fresh, reached |-> <<>>, present |-> FALSE],
                {}, excused[n])
    BY <1>5, <1>6, <2>1, <2>2, <2>3, <2>5 DEF SiteInv
  <2>. QED  BY <2>1, <2>6
<1>8. SitesInv({})
  BY <1>2, <1>5, <1>6, <1>7 DEF Init, SitesInv, d
<1>. QED  BY <1>1, <1>3, <1>4, <1>8 DEF CoordInv

(* More messages, or more excuses, do no harm. *)
LEMMA SiteGrows ==
  ASSUME NEW D, NEW E, D \subseteq E, NEW X, NEW Y, X \subseteq Y,
         NEW st, SiteInv(st, D, X)
  PROVE  SiteInv(st, E, Y)
<1>1. st \in SiteType(E)
  BY DEF SiteInv, SiteType, StreamType
<1>. QED  BY <1>1 DEF SiteInv, Marked, Once

(* Sites whose messages were drawn stay so when more are drawn. *)
LEMMA SitesGrow ==
  ASSUME NEW D, NEW E, D \subseteq E, SitesInv(D)
  PROVE  SitesInv(E)
<1>1. Seq(D) \subseteq Seq(E)
  OBVIOUS
<1>2. StreamType(D) \subseteq StreamType(E)
  BY DEF StreamType
<1>3. \A n \in Node : SiteInv(Site(n), E, excused[n])
  BY SiteGrows DEF SitesInv
<1>. QED  BY <1>1, <1>2, <1>3 DEF SitesInv

(* And so does Raft. *)
LEMMA DrawnGrows ==
  ASSUME NEW D, NEW E, D \subseteq E, RaftP!DrawnFrom(D)
  PROVE  RaftP!DrawnFrom(E)
<1>1. RaftP!EntriesOf(D) \subseteq RaftP!EntriesOf(E)
  BY DEF RaftP!EntriesOf
<1>2. Seq(RaftP!EntriesOf(D)) \subseteq Seq(RaftP!EntriesOf(E))
  BY <1>1
<1>. QED  BY <1>2 DEF RaftP!DrawnFrom

(* The stream dies with the process. *)
Forgotten(st) == [dedup |-> st.dedup, stream |-> Fresh, reached |-> st.reached,
                  present |-> FALSE]

(* A site that has lost its stream to a restart is as sound as before. *)
LEMMA ForgottenSite ==
  ASSUME NEW D, NEW X, NEW st, SiteInv(st, D, X)
  PROVE  SiteInv(Forgotten(st), D, X)
<1>. DEFINE w == Forgotten(st)
            r == st.reached
            p == st.stream.pending
            R == Len(r)
            P == Len(p)
<1>1. Fresh \in StreamType(D) /\ StreamInv(Fresh) /\ Fresh.pending = <<>>
  <2>1. Fresh.pending = <<>> /\ 0 \in Nat
    BY DEF Fresh, Opened
  <2>. QED  BY <2>1, OpenedInv DEF Fresh
<1>2. /\ w \in SiteType(D)
      /\ w.dedup = st.dedup /\ w.stream = Fresh /\ w.reached = r
      /\ r \in Seq(D) /\ p \in Seq(D)
  BY <1>1 DEF SiteInv, SiteType, Forgotten, StreamType
<1>3. Held(w) = r
  <2>. HIDE DEF w, r
  <2>1. r \o <<>> = r
    BY <1>2
  <2>. QED  BY <1>1, <1>2, <2>1 DEF Held
<1>4. /\ Len(Held(st)) = R + P /\ R \in Nat /\ P \in Nat
      /\ \A i \in 1..R : i \in 1..(R + P) /\ Held(st)[i] = r[i]
  <2>1. Held(st) = r \o p
    BY DEF Held
  <2>. HIDE DEF r, p
  <2>. QED  BY <1>2, <2>1
<1>5. Marked(r, st.dedup, X)
  <2>. HIDE DEF R, P
  <2>1. Marked(Held(st), st.dedup, X)
    BY DEF SiteInv
  <2>. QED  BY <1>4, <2>1 DEF Marked, R
<1>6. Once(r, X)
  <2>. HIDE DEF R, P
  <2>1. Once(Held(st), X)
    BY DEF SiteInv
  <2>. QED  BY <1>4, <2>1 DEF Once, R
<1>. HIDE DEF w
<1>7. SiteInv(w, D, X)
  BY <1>1, <1>2, <1>3, <1>5, <1>6 DEF SiteInv
<1>. QED  BY <1>7 DEF w

(* The commands of entries drawn from D. *)
LEMMA CommandsDrawn ==
  ASSUME NEW D, NEW es \in Seq(RaftP!EntriesOf(D))
  PROVE  /\ Commands(es) \in Seq(D) /\ Len(Commands(es)) = Len(es)
         /\ \A i \in 1..Len(es) : Commands(es)[i] = es[i].command
<1>. DEFINE N == Len(es)
            c == [i \in 1..N |-> es[i].command]
<1>1. N \in Nat /\ \A i \in 1..N : es[i] \in RaftP!EntriesOf(D)
  OBVIOUS
<1>2. \A i \in 1..N : es[i].command \in D
  BY <1>1 DEF RaftP!EntriesOf
<1>. HIDE DEF N
<1>3. c \in [1..N -> D]
  BY <1>2
<1>4. c \in Seq(D) /\ Len(c) = N
  BY <1>1, <1>3
<1>. QED  BY <1>4 DEF Commands, N

(* Only the site of n changes. *)
LEMMA SiteChanges ==
  ASSUME NEW D, SitesInv(D), NEW n \in Node, NEW st,
         NEW X \in SUBSET (1..MaxBroadcasts), SiteInv(st, D, X),
         SiteBecomes(n, st), joined' = [joined EXCEPT ![n] = st.present],
         excused' = [excused EXCEPT ![n] = X], late' \subseteq Node
  PROVE  (SitesInv(D))'
<1>1. /\ st.dedup \in DedupType /\ st.stream \in StreamType(D) /\ st.reached \in Seq(D)
      /\ st.present \in BOOLEAN
      /\ st = [dedup |-> st.dedup, stream |-> st.stream, reached |-> st.reached,
               present |-> st.present]
  BY DEF SiteInv, SiteType
<1>2. /\ dedup \in [Node -> DedupType] /\ stream \in [Node -> StreamType(D)]
      /\ reached \in [Node -> Seq(D)] /\ joined \in [Node -> BOOLEAN]
      /\ excused \in [Node -> SUBSET (1..MaxBroadcasts)]
      /\ \A p \in Node : SiteInv(Site(p), D, excused[p])
  BY DEF SitesInv
<1>3. /\ dedup' = [dedup EXCEPT ![n] = st.dedup]
      /\ stream' = [stream EXCEPT ![n] = st.stream]
      /\ reached' = [reached EXCEPT ![n] = st.reached]
  BY DEF SiteBecomes
<1>4. Site(n)' = st
  BY <1>1, <1>2, <1>3 DEF Site
<1>5. ASSUME NEW p \in Node, p # n  PROVE Site(p)' = Site(p) /\ excused'[p] = excused[p]
  BY <1>2, <1>3, <1>5 DEF Site
<1>6. excused'[n] = X
  BY <1>2
<1>. HIDE DEF Site
<1>7. \A p \in Node : SiteInv(Site(p)', D, excused'[p])
  BY <1>2, <1>4, <1>5, <1>6
<1>8. /\ dedup' \in [Node -> DedupType] /\ stream' \in [Node -> StreamType(D)]
      /\ reached' \in [Node -> Seq(D)] /\ joined' \in [Node -> BOOLEAN]
      /\ excused' \in [Node -> SUBSET (1..MaxBroadcasts)]
  BY <1>1, <1>2, <1>3
<1>. QED  BY <1>7, <1>8 DEF SitesInv

(* Raft's part of a step that broadcasts nothing, or only what is in D. *)
LEMMA DrawnStep ==
  ASSUME NEW D \in SUBSET Message, RaftP!TypeInv, RaftP!DrawnFrom(D),
         topicSeq \in [Node -> Nat], [Next]_vars,
         \A n \in Node : OrderedBroadcast(n) => NextMessage(n) \in D
  PROVE  (RaftP!TypeInv)' /\ (RaftP!DrawnFrom(D))'
<1>1. RaftP!NextFrom(D) \/ UNCHANGED RaftP!vars
  BY RaftGoesFrom
<1>2. [RaftP!Next]_RaftP!vars
  BY <1>1, RaftGoes
<1>3. (RaftP!TypeInv)'
  BY <1>2, RaftP!TypeStep, NodeAssumption, BoundAssumption
<1>4. (RaftP!DrawnFrom(D))'
  BY <1>1, RaftP!DrawnStep, NodeAssumption, BoundAssumption
<1>. QED  BY <1>3, <1>4

(* ordered_broadcast makes a message unlike all before. *)
LEMMA BroadcastStep ==
  ASSUME NEW D, CoordInv(D), NEW n \in Node, OrderedBroadcast(n),
         NEW x, x = NextMessage(n)
  PROVE  /\ x \in Message /\ x.seq = topicSeq[n] + 1
         /\ (CoordInv(D \cup {x}))'
<1>. DEFINE E == D \cup {x}
<1>1. /\ RaftP!TypeInv /\ D \subseteq Message /\ RaftP!DrawnFrom(D)
      /\ \A y \in D : y.payload <= broadcasts
      /\ \A y, z \in D : y.payload = z.payload => y = z
      /\ broadcasts \in 0..MaxBroadcasts /\ topicSeq \in [Node -> Nat]
      /\ \A p \in Node : topicSeq[p] <= broadcasts
      /\ SitesInv(D)
  BY DEF CoordInv, DrawnInv, CounterInv
<1>2. /\ broadcasts < MaxBroadcasts /\ broadcasts' = broadcasts + 1
      /\ topicSeq' = [topicSeq EXCEPT ![n] = topicSeq[n] + 1]
      /\ UNCHANGED site
  BY DEF OrderedBroadcast, NextSeq
<1>3. /\ x.seq = topicSeq[n] + 1 /\ x.payload = broadcasts + 1
      /\ topicSeq[n] \in Nat /\ topicSeq[n] <= broadcasts
      /\ broadcasts \in Nat /\ MaxBroadcasts \in Nat
  BY <1>1, BoundAssumption DEF NextMessage
<1>4. x \in Message
  <2>1. topicSeq[n] + 1 \in 1..MaxBroadcasts /\ broadcasts + 1 \in 1..MaxBroadcasts
    BY <1>2, <1>3
  <2>. QED  BY <2>1 DEF NextMessage, Message
<1>5. E \in SUBSET Message
  BY <1>1, <1>4
<1>6. \A p \in Node : OrderedBroadcast(p) => NextMessage(p) \in E
  <2>1. ASSUME NEW p \in Node, OrderedBroadcast(p)  PROVE p = n
    <3>1. topicSeq' = [topicSeq EXCEPT ![p] = topicSeq[p] + 1]
      BY <2>1 DEF OrderedBroadcast, NextSeq
    <3>2. topicSeq'[p] = topicSeq[p] + 1 /\ topicSeq[p] \in Nat
      BY <1>1, <3>1
    <3>3. p # n => topicSeq'[p] = topicSeq[p]
      BY <1>1, <1>2
    <3>. QED  BY <3>2, <3>3
  <2>. QED  BY <2>1
<1>7. (RaftP!TypeInv)' /\ (RaftP!DrawnFrom(E))'
  <2>1. RaftP!DrawnFrom(E)
    <3>1. D \subseteq E
      OBVIOUS
    <3>. HIDE DEF E
    <3>. QED  BY <1>1, <3>1, DrawnGrows
  <2>2. [Next]_vars
    BY DEF Next
  <2>. HIDE DEF E
  <2>. QED  BY <1>1, <1>5, <1>6, <2>1, <2>2, DrawnStep
<1>8. (SitesInv(E))'
  <2>1. SitesInv(E)
    <3>1. D \subseteq E
      OBVIOUS
    <3>. HIDE DEF E
    <3>. QED  BY <1>1, <3>1, SitesGrow
  <2>2. /\ dedup' = dedup /\ joined' = joined /\ stream' = stream
        /\ reached' = reached /\ excused' = excused /\ late' = late
    BY <1>2 DEF site, consumers
  <2>. HIDE DEF E
  <2>3. ASSUME NEW p \in Node  PROVE Site(p)' = Site(p)
    BY <2>2 DEF Site
  <2>. QED  BY <2>1, <2>2, <2>3 DEF SitesInv
<1>9. CounterInv'
  <2>1. broadcasts' \in 0..MaxBroadcasts
    BY <1>2, <1>3
  <2>2. topicSeq' \in [Node -> Nat]
    BY <1>1, <1>2, <1>3
  <2>3. ASSUME NEW p \in Node  PROVE topicSeq'[p] <= broadcasts'
    <3>1. topicSeq[p] \in Nat /\ topicSeq[p] <= broadcasts
      BY <1>1
    <3>2. topicSeq'[p] = topicSeq[p] \/ topicSeq'[p] = topicSeq[p] + 1
      BY <1>1, <1>2
    <3>. QED  BY <1>2, <1>3, <3>1, <3>2
  <2>. QED  BY <2>1, <2>2, <2>3 DEF CounterInv
<1>10. (DrawnInv(E))'
  <2>1. ASSUME NEW y \in D  PROVE y.payload <= broadcasts' /\ y.payload # x.payload
    <3>1. y.payload \in Nat /\ y.payload <= broadcasts
      BY <1>1 DEF Message
    <3>. QED  BY <1>2, <1>3, <3>1
  <2>2. x.payload <= broadcasts'
    BY <1>2, <1>3
  <2>3. \A y, z \in E : y.payload = z.payload => y = z
    BY <1>1, <2>1
  <2>4. \A y \in E : y.payload <= broadcasts'
    BY <2>1, <2>2
  <2>. HIDE DEF E
  <2>. QED  BY <1>5, <1>7, <2>3, <2>4 DEF DrawnInv
<1>. QED  BY <1>3, <1>4, <1>7, <1>8, <1>9, <1>10 DEF CoordInv

(* What a node newly applies goes through _on_commit. *)
LEMMA CommitsSites ==
  ASSUME NEW D, D \subseteq Message, SitesInv(D), NEW n \in Node, CommitsAt(n),
         applied \in [Node -> Seq(RaftP!EntriesOf(D))],
         applied' \in [Node -> Seq(RaftP!EntriesOf(D))]
  PROVE  (SitesInv(D))'
<1>. DEFINE S == Seq(RaftP!EntriesOf(D))
            new == SubSeq(applied'[n], Len(applied[n]) + 1, Len(applied'[n]))
            st == OnCommits(Site(n), Commands(new))
<1>1. new \in S
  <2>1. applied[n] \in S /\ applied'[n] \in S
    OBVIOUS
  <2>. QED  BY <2>1
<1>2. Commands(new) \in Seq(D)
  <2>. HIDE DEF new
  <2>. QED  BY <1>1, CommandsDrawn
<1>3. SiteInv(Site(n), D, excused[n]) /\ Site(n).present = joined[n]
  BY DEF SitesInv, Site
<1>4. /\ SiteBecomes(n, st) /\ joined' = joined /\ excused' = excused
      /\ late' = late \/ late' = late \cup {n}
  BY DEF CommitsAt
<1>. HIDE DEF new
<1>5. SiteInv(st, D, excused[n]) /\ st.present = joined[n]
  BY <1>2, <1>3, OnCommitsSite
<1>. HIDE DEF st
<1>6. /\ joined' = [joined EXCEPT ![n] = st.present]
      /\ excused' = [excused EXCEPT ![n] = excused[n]]
      /\ excused[n] \in SUBSET (1..MaxBroadcasts)
      /\ late' \subseteq Node
  BY <1>4, <1>5 DEF SitesInv
<1>. QED  BY <1>4, <1>5, <1>6, SiteChanges

(* Its subscription, its dedup log or its consumer changes. *)
LEMMA LocalSteps ==
  ASSUME NEW D, SitesInv(D), NEW n \in Node,
         JoinGroup(n) \/ Subscribe(n) \/ Expire(n) \/ Cleanup(n)
  PROVE  (SitesInv(D))'
<1>. DEFINE s == Site(n)
            X == excused[n]
            d == dedup[n]
<1>1. /\ SiteInv(s, D, X) /\ s.dedup = d /\ s.stream = stream[n]
      /\ s.reached = reached[n] /\ s.present = joined[n]
      /\ dedup \in [Node -> DedupType] /\ stream \in [Node -> StreamType(D)]
      /\ reached \in [Node -> Seq(D)] /\ joined \in [Node -> BOOLEAN]
      /\ excused \in [Node -> SUBSET (1..MaxBroadcasts)] /\ late \subseteq Node
  BY DEF SitesInv, Site
<1>2. /\ s \in SiteType(D) /\ StreamInv(s.stream)
      /\ d \in DedupType /\ d.expired \in Nat /\ d.rows \in Seq(1..MaxBroadcasts)
      /\ d.expired <= Len(d.rows) /\ \A i \in 1..d.expired : d.rows[i] \in X
      /\ Marked(Held(s), d, X) /\ Once(Held(s), X)
      /\ X \in SUBSET (1..MaxBroadcasts)
  BY <1>1 DEF SiteInv, DedupType
<1>3. CASE JoinGroup(n)
  <2>. DEFINE st == [s EXCEPT !.present = TRUE]
  <2>1. /\ dedup' = dedup /\ stream' = stream /\ reached' = reached /\ late' = late
        /\ joined' = [joined EXCEPT ![n] = TRUE] /\ excused' = excused
    BY <1>3 DEF JoinGroup
  <2>. HIDE DEF s, X, d
  <2>2. /\ st \in SiteType(D) /\ st.dedup = s.dedup /\ st.stream = s.stream
        /\ st.reached = s.reached /\ st.present = TRUE
    BY <1>2 DEF SiteType
  <2>. HIDE DEF st
  <2>3. Held(st) = Held(s)
    BY <2>2 DEF Held
  <2>4. SiteInv(st, D, X)
    BY <1>1, <1>2, <2>2, <2>3 DEF SiteInv
  <2>5. SiteBecomes(n, st) /\ excused' = [excused EXCEPT ![n] = X]
    BY <1>1, <2>1, <2>2 DEF SiteBecomes, d, X
  <2>. QED  BY <1>1, <1>2, <2>1, <2>2, <2>4, <2>5, SiteChanges
<1>4. CASE Subscribe(n)
  <2>. DEFINE w == Subscribed(s.stream)
              st == [s EXCEPT !.stream = w]
  <2>1. /\ dedup' = dedup /\ stream' = [stream EXCEPT ![n] = w] /\ reached' = reached
        /\ late' = late /\ joined' = joined /\ excused' = excused
    BY <1>1, <1>4 DEF Subscribe
  <2>. HIDE DEF s, X, d
  <2>2. w \in StreamType(D) /\ StreamInv(w) /\ w.pending = s.stream.pending
    <3>1. s.stream \in StreamType(D)
      BY <1>2 DEF SiteType
    <3>2. w \in StreamType(D) /\ StreamInv(w)
      BY <1>2, <3>1, SubscribedInv
    <3>3. w.pending = s.stream.pending
      BY <3>1 DEF Subscribed, StreamType
    <3>. QED  BY <3>2, <3>3
  <2>. HIDE DEF w
  <2>3. /\ st \in SiteType(D) /\ st.dedup = s.dedup /\ st.stream = w
        /\ st.reached = s.reached /\ st.present = s.present
    BY <1>2, <2>2 DEF SiteType
  <2>. HIDE DEF st
  <2>4. Held(st) = Held(s)
    BY <2>2, <2>3 DEF Held
  <2>5. SiteInv(st, D, X)
    BY <1>1, <1>2, <2>2, <2>3, <2>4 DEF SiteInv
  <2>6. /\ SiteBecomes(n, st) /\ joined' = [joined EXCEPT ![n] = st.present]
        /\ excused' = [excused EXCEPT ![n] = X]
    BY <1>1, <2>1, <2>3 DEF SiteBecomes, d, X
  <2>. QED  BY <1>1, <1>2, <2>1, <2>5, <2>6, SiteChanges
<1>5. CASE Expire(n)
  <2>. DEFINE k == d.expired + 1
              e == [d EXCEPT !.expired = k]
              Y == X \cup {d.rows[k]}
              st == [s EXCEPT !.dedup = e]
  <2>1. /\ d.expired < Len(d.rows)
        /\ dedup' = [dedup EXCEPT ![n] = e] /\ stream' = stream /\ reached' = reached
        /\ late' = late /\ joined' = joined /\ excused' = [excused EXCEPT ![n] = Y]
    BY <1>1, <1>5 DEF Expire, consumers
  <2>. HIDE DEF s, X, d
  <2>2. k \in 1..Len(d.rows) /\ k \in Nat /\ d.rows[k] \in 1..MaxBroadcasts
    <3>1. Len(d.rows) \in Nat
      BY <1>2
    <3>2. k \in 1..Len(d.rows) /\ k \in Nat
      BY <1>2, <2>1, <3>1
    <3>3. \A i \in 1..Len(d.rows) : d.rows[i] \in 1..MaxBroadcasts
      BY <1>2, Suffixed, Zenon
    <3>. QED  BY <3>2, <3>3
  <2>3. \A i \in 1..k : i \in 1..d.expired \/ i = k
    BY <1>2
  <2>. HIDE DEF k
  <2>4. e \in DedupType /\ e.expired = k /\ e.rows = d.rows /\ Rows(e) = Rows(d)
    BY <1>2, <2>2 DEF DedupType, Rows
  <2>. HIDE DEF e
  <2>5. /\ st \in SiteType(D) /\ st.dedup = e /\ st.stream = s.stream
        /\ st.reached = s.reached /\ st.present = s.present
    BY <1>2, <2>4 DEF SiteType
  <2>. HIDE DEF st
  <2>6. Held(st) = Held(s)
    BY <2>5 DEF Held
  <2>7. Marked(Held(st), e, Y) /\ Once(Held(st), Y)
    BY <1>2, <2>4, <2>6 DEF Marked, Once
  <2>8. k <= Len(d.rows) /\ \A i \in 1..k : d.rows[i] \in Y
    BY <1>2, <2>2, <2>3
  <2>9. Y \in SUBSET (1..MaxBroadcasts)
    BY <1>2, <2>2
  <2>. HIDE DEF Y
  <2>10. SiteInv(st, D, Y)
    BY <1>2, <2>4, <2>5, <2>7, <2>8 DEF SiteInv
  <2>11. SiteBecomes(n, st) /\ joined' = [joined EXCEPT ![n] = st.present]
    BY <1>1, <2>1, <2>5 DEF SiteBecomes
  <2>. QED  BY <1>1, <2>1, <2>9, <2>10, <2>11, SiteChanges
<1>6. CASE Cleanup(n)
  <2>. DEFINE N == Len(d.rows)
              k == d.expired
              r == SubSeq(d.rows, k + 1, N)
              e == [rows |-> r, expired |-> 0]
              st == [s EXCEPT !.dedup = e]
  <2>1. /\ dedup' = [dedup EXCEPT ![n] = e] /\ stream' = stream /\ reached' = reached
        /\ late' = late /\ joined' = joined /\ excused' = excused
    BY <1>6 DEF Cleanup, consumers
  <2>. HIDE DEF s, X, d
  <2>2. /\ N \in Nat /\ r \in Seq(1..MaxBroadcasts) /\ Len(r) = N - k
        /\ \A i \in 1..(N - k) : r[i] = d.rows[k + i]
    <3>1. N \in Nat /\ k \in Nat /\ k <= N /\ d.rows \in Seq(1..MaxBroadcasts)
      BY <1>2
    <3>. HIDE DEF k
    <3>2. /\ SubSeq(d.rows, k + 1, Len(d.rows)) \in Seq(1..MaxBroadcasts)
          /\ Len(SubSeq(d.rows, k + 1, Len(d.rows))) = Len(d.rows) - k
          /\ \A i \in 1..(Len(d.rows) - k) :
                SubSeq(d.rows, k + 1, Len(d.rows))[i] = d.rows[k + i]
      BY <3>1, Suffixed, Zenon
    <3>. QED  BY <3>1, <3>2
  <2>. HIDE DEF r
  <2>3. e \in DedupType /\ e.expired = 0 /\ e.rows = r
    BY <2>2 DEF DedupType
  <2>. HIDE DEF e
  <2>4. Rows(d) \subseteq Rows(e) \cup X
    <3>1. ASSUME NEW i \in 1..N  PROVE d.rows[i] \in Rows(e) \cup X
      <4>1. CASE i <= k
        BY <1>2, <2>2, <4>1
      <4>2. CASE i > k
        <5>1. i - k \in 1..(N - k) /\ k + (i - k) = i
          BY <1>2, <2>2, <4>2
        <5>2. r[i - k] = d.rows[i]
          BY <2>2, <5>1
        <5>. QED  BY <2>2, <2>3, <5>1, <5>2 DEF Rows
      <4>. QED  BY <1>2, <2>2, <4>1, <4>2
    <3>. QED  BY <3>1 DEF Rows
  <2>5. /\ st \in SiteType(D) /\ st.dedup = e /\ st.stream = s.stream
        /\ st.reached = s.reached /\ st.present = s.present
    BY <1>2, <2>3 DEF SiteType
  <2>. HIDE DEF st
  <2>6. Held(st) = Held(s)
    BY <2>5 DEF Held
  <2>7. Marked(Held(st), e, X) /\ Once(Held(st), X)
    BY <1>2, <2>4, <2>6 DEF Marked
  <2>8. 0 <= Len(r) /\ \A i \in 1..0 : FALSE
    BY <1>2, <2>2
  <2>9. SiteInv(st, D, X)
    BY <1>2, <2>3, <2>5, <2>7, <2>8 DEF SiteInv
  <2>10. /\ SiteBecomes(n, st) /\ joined' = [joined EXCEPT ![n] = st.present]
         /\ excused' = [excused EXCEPT ![n] = X]
    BY <1>1, <2>1, <2>5 DEF SiteBecomes, X
  <2>. QED  BY <1>1, <1>2, <2>1, <2>9, <2>10, SiteChanges
<1>. QED  BY <1>3, <1>4, <1>5, <1>6

(* What n is about to apply was broadcast. *)
LEMMA DueDrawn ==
  ASSUME NEW D, RaftP!TypeInv, RaftP!DrawnFrom(D), NEW n \in Node, NEW es \in Due(n)
  PROVE  es \in Seq(RaftP!EntriesOf(D))
<1>1. \/ \E m \in calls : m.to = n /\ es = SubSeq(RaftP!TakenLog(m), Len(applied[m.to]) + 1,
                                                 RaftP!TakenCommit(m))
      \/ \E m \in calls : m.from = n /\ es = SubSeq(log[m.from], Len(applied[m.from]) + 1,
                                                   RaftP!AnsweredCommit(m))
  BY SameCalls DEF Due
<1>. QED  BY <1>1, RaftP!AppliedDrawn, NodeAssumption, BoundAssumption

(* The process dies, perhaps between the delivery of a message and its mark. *)
LEMMA DeathSteps ==
  ASSUME NEW D, D \subseteq Message, SitesInv(D), RaftP!TypeInv, RaftP!DrawnFrom(D),
         NEW n \in Node, Restart(n) \/ DieBeforeMark(n)
  PROVE  (SitesInv(D))'
<1>. DEFINE s == Site(n)
            X == excused[n]
<1>1. /\ SiteInv(s, D, X) /\ s.dedup = dedup[n] /\ s.reached = reached[n]
      /\ dedup \in [Node -> DedupType] /\ stream \in [Node -> StreamType(D)]
      /\ reached \in [Node -> Seq(D)] /\ joined \in [Node -> BOOLEAN]
      /\ excused \in [Node -> SUBSET (1..MaxBroadcasts)] /\ late \subseteq Node
      /\ X \in SUBSET (1..MaxBroadcasts)
  BY DEF SitesInv, Site
<1>2. joined' = [joined EXCEPT ![n] = FALSE] /\ stream' = [stream EXCEPT ![n] = Fresh]
  BY DEF Restart, DieBeforeMark, ProcessDies
<1>3. CASE Restart(n)
  <2>1. dedup' = dedup /\ reached' = reached /\ excused' = excused /\ late' = late
    BY <1>3 DEF Restart
  <2>. DEFINE st == Forgotten(s)
  <2>2. SiteInv(st, D, X)
    <3>. HIDE DEF s, X
    <3>. QED  BY <1>1, ForgottenSite
  <2>3. /\ SiteBecomes(n, st) /\ joined' = [joined EXCEPT ![n] = st.present]
        /\ excused' = [excused EXCEPT ![n] = X]
    BY <1>1, <1>2, <2>1 DEF SiteBecomes, Forgotten
  <2>. HIDE DEF st, X
  <2>. QED  BY <1>1, <2>1, <2>2, <2>3, SiteChanges
<1>4. CASE DieBeforeMark(n)
  <2>0. PICK es \in Due(n) : \E k \in 1..Len(es) :
          LET e == es[k].command
              a == OnCommits(s, Commands(SubSeq(es, 1, k - 1)))
          IN /\ ~IsProcessed(a.dedup, e.seq)
             /\ dedup' = [dedup EXCEPT ![n] = a.dedup]
             /\ reached' = [reached EXCEPT ![n] = Deliver(a, e).reached]
             /\ excused' = [excused EXCEPT ![n] = X \cup {e.seq}]
             /\ late' = IF Served(n) THEN late ELSE late \cup {n}
    BY <1>1, <1>4 DEF DieBeforeMark
  <2>1. PICK k \in 1..Len(es) :
          LET e == es[k].command
              a == OnCommits(s, Commands(SubSeq(es, 1, k - 1)))
          IN /\ ~IsProcessed(a.dedup, e.seq)
             /\ dedup' = [dedup EXCEPT ![n] = a.dedup]
             /\ reached' = [reached EXCEPT ![n] = Deliver(a, e).reached]
             /\ excused' = [excused EXCEPT ![n] = X \cup {e.seq}]
             /\ late' = IF Served(n) THEN late ELSE late \cup {n}
    BY <2>0
  <2>. DEFINE ms == Commands(SubSeq(es, 1, k - 1))
              e == es[k].command
              a == OnCommits(s, ms)
              w == Deliver(a, e)
              Y == X \cup {e.seq}
              st == Forgotten(w)
  <2>2. es \in Seq(RaftP!EntriesOf(D))
    BY DueDrawn
  <2>3. e \in D
    <3>1. es[k] \in RaftP!EntriesOf(D)
      BY <2>2
    <3>. QED  BY <3>1 DEF RaftP!EntriesOf
  <2>4. ms \in Seq(D)
    <3>. DEFINE front == SubSeq(es, 1, k - 1)
    <3>1. Len(es) \in Nat /\ k \in Nat
      BY <2>2
    <3>2. front \in Seq(RaftP!EntriesOf(D))
      BY <2>2, <3>1
    <3>. HIDE DEF front
    <3>3. Commands(front) \in Seq(D)
      BY <3>2, CommandsDrawn
    <3>. QED  BY <3>3 DEF front
  <2>5. /\ dedup' = [dedup EXCEPT ![n] = a.dedup]
        /\ reached' = [reached EXCEPT ![n] = w.reached]
        /\ excused' = [excused EXCEPT ![n] = Y]
        /\ late' = IF Served(n) THEN late ELSE late \cup {n}
    BY <2>1
  <2>. HIDE DEF ms, e, s, X
  <2>6. SiteInv(a, D, X)
    BY <1>1, <2>4, OnCommitsSite
  <2>. HIDE DEF a
  <2>7. Numbered(D) /\ e.seq \in 1..MaxBroadcasts
    BY <2>3, BoundAssumption DEF Numbered, Message
  <2>8. SiteInv(a, D, Y)
    BY <2>6, SiteGrows
  <2>9. /\ a \in SiteType(D) /\ StreamInv(a.stream) /\ a.dedup.expired <= Len(a.dedup.rows)
        /\ \A i \in 1..a.dedup.expired : a.dedup.rows[i] \in Y
        /\ Marked(Held(a), a.dedup, Y) /\ Once(Held(a), Y)
    BY <2>8 DEF SiteInv
  <2>10. /\ w \in SiteType(D) /\ StreamInv(w.stream) /\ w.dedup = a.dedup
         /\ Held(a) \in Seq(D) /\ Held(w) \in Seq(D)
         /\ \/ Held(w) = Held(a)
            \/ \E i : InsertedAt(Held(a), Held(w), e, i)
    BY <2>3, <2>7, <2>9, DeliverHolds
  <2>. HIDE DEF w
  <2>11. Marked(Held(w), a.dedup, Y) /\ Once(Held(w), Y)
    <3>1. e.seq \in Y
      OBVIOUS
    <3>. HIDE DEF Y
    <3>2. ASSUME NEW i, InsertedAt(Held(a), Held(w), e, i)
          PROVE  Marked(Held(w), a.dedup, Y) /\ Once(Held(w), Y)
      <4>1. Marked(Held(w), a.dedup, Y)
        BY <2>9, <2>10, <3>1, <3>2, InsertedMarked
      <4>2. Once(Held(w), Y)
        BY <2>9, <2>10, <3>1, <3>2, InsertedOnce
      <4>. QED  BY <4>1, <4>2
    <3>. QED  BY <2>9, <2>10, <3>2
  <2>12. Y \in SUBSET (1..MaxBroadcasts)
    BY <1>1, <2>7
  <2>. HIDE DEF Y
  <2>13. SiteInv(w, D, Y)
    BY <2>9, <2>10, <2>11 DEF SiteInv
  <2>14. SiteInv(st, D, Y)
    BY <2>13, ForgottenSite
  <2>15. SiteBecomes(n, st) /\ joined' = [joined EXCEPT ![n] = st.present]
    BY <1>2, <2>5, <2>10 DEF SiteBecomes, Forgotten
  <2>16. late' \subseteq Node
    BY <1>1, <2>5
  <2>. HIDE DEF st
  <2>. QED  BY <2>5, <2>12, <2>14, <2>15, <2>16, SiteChanges
<1>. QED  BY <1>3, <1>4

(* A step that broadcasts nothing. *)
LEMMA QuietStep ==
  ASSUME NEW D, CoordInv(D), [Next]_vars, \A n \in Node : ~OrderedBroadcast(n)
  PROVE  (CoordInv(D))'
<1>1. /\ RaftP!TypeInv /\ D \in SUBSET Message /\ RaftP!DrawnFrom(D) /\ DrawnInv(D)
      /\ CounterInv /\ SitesInv(D)
  BY DEF CoordInv, DrawnInv
<1>2. (RaftP!TypeInv)' /\ (RaftP!DrawnFrom(D))'
  BY <1>1, DrawnStep DEF CounterInv
<1>3. ASSUME NEW n \in Node, Restart(n) \/ DieBeforeMark(n)
      PROVE  broadcasts' = broadcasts /\ topicSeq' = [topicSeq EXCEPT ![n] = 0]
  BY <1>3 DEF Restart, DieBeforeMark, ProcessDies
<1>4. ASSUME ~\E n \in Node : Restart(n) \/ DieBeforeMark(n)
      PROVE  broadcasts' = broadcasts /\ topicSeq' = topicSeq
  <2>1. CASE UNCHANGED vars
    BY <2>1 DEF vars
  <2>2. ASSUME NEW m \in calls, HandleAppendEntries(m) \/ AppendReplyOk(m)
        PROVE  broadcasts' = broadcasts /\ topicSeq' = topicSeq
    BY <2>2 DEF HandleAppendEntries, AppendReplyOk, CommitsAt
  <2>3. CASE RaftGoesOn
    BY <2>3 DEF RaftGoesOn
  <2>4. ASSUME NEW n \in Node, JoinGroup(n) \/ Subscribe(n) \/ Expire(n) \/ Cleanup(n)
        PROVE  broadcasts' = broadcasts /\ topicSeq' = topicSeq
    BY <2>4 DEF JoinGroup, Subscribe, Expire, Cleanup
  <2>. QED  BY <1>4, <2>1, <2>2, <2>3, <2>4 DEF Next
<1>5. broadcasts' = broadcasts
  BY <1>3, <1>4
<1>6. CounterInv'
  <2>1. topicSeq' = topicSeq \/ \E n \in Node : topicSeq' = [topicSeq EXCEPT ![n] = 0]
    BY <1>3, <1>4
  <2>2. topicSeq \in [Node -> Nat] /\ broadcasts \in 0..MaxBroadcasts
        /\ \A p \in Node : topicSeq[p] <= broadcasts
    BY <1>1 DEF CounterInv
  <2>3. ASSUME NEW n \in Node, topicSeq' = [topicSeq EXCEPT ![n] = 0]
        PROVE  /\ topicSeq' \in [Node -> Nat]
               /\ \A p \in Node : topicSeq'[p] <= broadcasts
    <3>1. 0 \in Nat /\ 0 <= broadcasts
      BY <2>2
    <3>. QED  BY <2>2, <2>3, <3>1
  <2>. QED  BY <1>5, <2>1, <2>2, <2>3 DEF CounterInv
<1>7. (DrawnInv(D))'
  BY <1>1, <1>2, <1>5 DEF DrawnInv
<1>8. (SitesInv(D))'
  <2>1. ASSUME UNCHANGED site  PROVE (SitesInv(D))'
    <3>1. /\ dedup' = dedup /\ joined' = joined /\ stream' = stream
          /\ reached' = reached /\ excused' = excused /\ late' = late
      BY <2>1 DEF site, consumers
    <3>2. ASSUME NEW p \in Node  PROVE Site(p)' = Site(p)
      BY <3>1 DEF Site
    <3>. QED  BY <1>1, <3>1, <3>2 DEF SitesInv
  <2>2. CASE UNCHANGED vars
    BY <2>1, <2>2 DEF vars
  <2>3. CASE RaftGoesOn
    BY <2>1, <2>3 DEF RaftGoesOn
  <2>4. ASSUME NEW m \in calls, HandleAppendEntries(m) \/ AppendReplyOk(m)
        PROVE  (SitesInv(D))'
    <3>1. m.from \in Node /\ m.to \in Node
      BY <1>1 DEF RaftP!TypeInv, RaftP!TypeOK, RaftP!Call
    <3>2. /\ applied \in [Node -> Seq(RaftP!EntriesOf(D))]
          /\ applied' \in [Node -> Seq(RaftP!EntriesOf(D))]
      BY <1>1, <1>2 DEF RaftP!DrawnFrom
    <3>3. \E n \in Node : CommitsAt(n)
      BY <2>4, <3>1 DEF HandleAppendEntries, AppendReplyOk
    <3>. QED  BY <1>1, <3>2, <3>3, CommitsSites
  <2>5. ASSUME NEW n \in Node, JoinGroup(n) \/ Subscribe(n) \/ Expire(n) \/ Cleanup(n)
        PROVE  (SitesInv(D))'
    BY <1>1, <2>5, LocalSteps
  <2>6. ASSUME NEW n \in Node, Restart(n) \/ DieBeforeMark(n)  PROVE (SitesInv(D))'
    BY <1>1, <2>6, DeathSteps
  <2>. QED  BY <2>2, <2>3, <2>4, <2>5, <2>6 DEF Next
<1>. QED  BY <1>2, <1>6, <1>7, <1>8 DEF CoordInv

(* There is always a set of messages, each made by one call of ordered_broadcast,
   from which comes all that Raft carries and all that any node was given, holds
   back or has marked; and what a node was given or holds back is marked or
   excused, and is there once unless it is excused (_on_commit, dedup.py). *)
THEOREM CoordInvariance == Spec => []\E D \in SUBSET Message : CoordInv(D)
<1>1. Init => \E D \in SUBSET Message : CoordInv(D)
  BY CoordInit
<1>2. ASSUME NEW D \in SUBSET Message, CoordInv(D), [Next]_vars
      PROVE  (\E E \in SUBSET Message : CoordInv(E))'
  <2>1. CASE \A n \in Node : ~OrderedBroadcast(n)
    <3>1. (CoordInv(D))'
      BY <1>2, <2>1, QuietStep
    <3>. QED  BY <3>1
  <2>2. ASSUME NEW n \in Node, OrderedBroadcast(n)
        PROVE  (\E E \in SUBSET Message : CoordInv(E))'
    <3>1. PICK x : x = NextMessage(n)
      OBVIOUS
    <3>2. x \in Message /\ (CoordInv(D \cup {x}))'
      BY <1>2, <2>2, <3>1, BroadcastStep
    <3>3. D \cup {x} \in SUBSET Message
      BY <3>2
    <3>. QED  BY <3>2, <3>3
  <2>. QED  BY <2>1, <2>2
<1>3. (\E D \in SUBSET Message : CoordInv(D)) /\ [Next]_vars
        => (\E D \in SUBSET Message : CoordInv(D))'
  BY <1>2
<1>. QED  BY <1>1, <1>3, PTL DEF Spec

(* Whatever is lost, expires, dies or restarts, the dedup log, the streams and
   Raft stay what they are: rows past their time never outnumber the rows, and
   every number and every message is one of ordered_broadcast's. *)
THEOREM CoordinatorTyped == Spec => []TypeOK
<1>1. ASSUME NEW D \in SUBSET Message, CoordInv(D)  PROVE TypeOK
  <2>1. Raft!TypeOK
    BY <1>1, RaftTypes DEF CoordInv, RaftP!TypeInv
  <2>2. SitesInv(Message)
    BY <1>1, SitesGrow DEF CoordInv
  <2>3. topicSeq \in [Node -> 0..MaxBroadcasts] /\ broadcasts \in 0..MaxBroadcasts
    <3>1. /\ topicSeq \in [Node -> Nat] /\ broadcasts \in 0..MaxBroadcasts
          /\ \A n \in Node : topicSeq[n] <= broadcasts
      BY <1>1 DEF CoordInv, CounterInv
    <3>2. \A n \in Node : topicSeq[n] \in 0..MaxBroadcasts
      BY <3>1, BoundAssumption
    <3>. QED  BY <3>1, <3>2
  <2>4. \A n \in Node : dedup[n].expired <= Len(dedup[n].rows)
    BY <2>2 DEF SitesInv, SiteInv, Site
  <2>. QED  BY <2>1, <2>2, <2>3, <2>4 DEF TypeOK, SitesInv, DedupType
<1>2. (\E D \in SUBSET Message : CoordInv(D)) => TypeOK
  BY <1>1
<1>. QED  BY <1>2, CoordInvariance, PTL

(* Exactly once, over all restarts: Raft, which keeps nothing, applies its log
   again from the start; the process may die between a delivery and its mark;
   rows expire, are cleaned up, and while expired keep a new row of their number
   out; a consumer may hold a message back for ever.  Still a message that
   is_processed lets through twice is one whose row expired or was never written. *)
THEOREM AtMostOnce == Spec => []ProcessedOnce
<1>1. ASSUME NEW D \in SUBSET Message, CoordInv(D),
             NEW n \in Node, NEW i \in 1..Len(reached[n]), NEW j \in 1..Len(reached[n]),
             i # j, reached[n][i].payload = reached[n][j].payload
      PROVE  reached[n][i].seq \in excused[n]
  <2>. DEFINE r == reached[n]
              p == stream[n].pending
              h == Held(Site(n))
  <2>1. /\ \A x, y \in D : x.payload = y.payload => x = y
        /\ r \in Seq(D) /\ p \in Seq(D) /\ Once(h, excused[n])
    BY <1>1 DEF CoordInv, DrawnInv, SitesInv, SiteInv, StreamType
  <2>2. h = r \o p
    BY DEF Held, Site
  <2>. HIDE DEF h
  <2>3. r[i] = r[j]
    BY <1>1, <2>1
  <2>. HIDE DEF r, p
  <2>4. i \in 1..Len(r) /\ j \in 1..Len(r)
    BY DEF r
  <2>5. i \in 1..Len(h) /\ j \in 1..Len(h) /\ h[i] = r[i] /\ h[j] = r[j]
    BY <2>1, <2>2, <2>4
  <2>. QED  BY <1>1, <2>1, <2>3, <2>5 DEF Once, r
<1>2. (\E D \in SUBSET Message : CoordInv(D)) => ProcessedOnce
  BY <1>1 DEF ProcessedOnce
<1>. QED  BY <1>2, CoordInvariance, PTL

(* The coordinator is a MicroRaft whose commands are its messages: each of its
   steps is a step of MicroRaft or leaves MicroRaft alone, also where the process
   dies in the middle of _on_commit.  So all that holds of MicroRaft holds of the
   Raft in a coordinator. *)
THEOREM ImplementsRaft == Spec => RaftP!Spec
<1>1. Init => RaftP!Init
  BY RaftInit
<1>2. ASSUME NEW D \in SUBSET Message, CoordInv(D), [Next]_vars
      PROVE  [RaftP!Next]_RaftP!vars
  <2>1. \A n \in Node : OrderedBroadcast(n) => NextMessage(n) \in Message
    <3>. SUFFICES ASSUME NEW n \in Node, OrderedBroadcast(n)
                  PROVE  NextMessage(n) \in Message
      OBVIOUS
    <3>1. PICK x : x = NextMessage(n)
      OBVIOUS
    <3>. QED  BY <1>2, <3>1, BroadcastStep
  <2>2. topicSeq \in [Node -> Nat]
    BY <1>2 DEF CoordInv, CounterInv
  <2>3. RaftP!NextFrom(Message) \/ UNCHANGED RaftP!vars
    BY <1>2, <2>1, <2>2, RaftGoesFrom
  <2>. QED  BY <2>3, RaftGoes
<1>3. (\E D \in SUBSET Message : CoordInv(D)) /\ [Next]_vars => [RaftP!Next]_RaftP!vars
  BY <1>2
<1>. QED  BY <1>1, <1>3, CoordInvariance, PTL DEF Spec, RaftP!Spec

(***************************************************************************)
(* While one node L campaigns and does not restart: its log is the list of *)
(* all messages, numbered by their places, and a node whose consumer was   *)
(* there from the start delivers what Raft applies.                        *)
(***************************************************************************)
LogOf(L) == {log[L][i].command : i \in 1..Len(log[L])}

Numbering(L) ==
  /\ topicSeq[L] = Len(log[L])
  /\ \A i \in 1..Len(log[L]) : log[L][i].command.seq = i

(* The site st has delivered the numbers 1 to a, and knows of no other. *)
StraightSite(st, a) ==
  /\ st.stream.pending = <<>> /\ st.stream.offset = a /\ Len(st.stream.delivered) = a
  /\ \A q \in Rows(st.dedup) : q <= a

Straight(n) ==
  /\ StraightSite(Site(n), Len(applied[n]))
  /\ \A i \in 1..Len(applied[n]) : stream[n].delivered[i] = applied[n][i].command

LeaderInv(L, D) ==
  /\ CoordInv(D) /\ RaftP!TrailInv(L)
  /\ D = LogOf(L) /\ Numbering(L)
  /\ \A n \in Node \ (late \cup restarted) : Straight(n)

(* The consumer of st can take the number after a. *)
Ready(st, D, X, a) ==
  /\ SiteInv(st, D, X) /\ StraightSite(st, a)
  /\ st.present /\ st.stream.subscribed

(* From st to w the callbacks got m as well, the c-th. *)
Further(st, w, m, c) ==
  /\ \A i \in 1..(c - 1) : w.stream.delivered[i] = st.stream.delivered[i]
  /\ w.stream.delivered[c] = m

(* _on_commit of the next number. *)
LEMMA OnCommitStraight ==
  ASSUME NEW D, D \subseteq Message, NEW X, NEW st, NEW a \in Nat, Ready(st, D, X, a),
         NEW m \in D, m.seq = a + 1
  PROVE  Ready(OnCommit(st, m), D, X, a + 1) /\ Further(st, OnCommit(st, m), m, a + 1)
<1>a. /\ SiteInv(st, D, X) /\ StraightSite(st, a)
      /\ st.present /\ st.stream.subscribed
  BY DEF Ready
<1>. DEFINE s == st.stream
            d == st.dedup
            f == OnMessage(s, m)
            w == Deliver(st, m)
            e == MarkProcessed(d, m.seq)
            v == [w EXCEPT !.dedup = e]
<1>1. Numbered(D) /\ m.seq \in 1..MaxBroadcasts
  BY BoundAssumption DEF Numbered, Message
<1>2. /\ st \in SiteType(D) /\ StreamInv(s) /\ d \in DedupType
      /\ d.expired <= Len(d.rows) /\ s \in StreamType(D)
  BY <1>a DEF SiteInv, SiteType
<1>3. s.pending = <<>> /\ s.offset = a /\ Len(s.delivered) = a /\ \A q \in Rows(d) : q <= a
  BY <1>a DEF StraightSite
<1>4. ~IsProcessed(d, m.seq)
  <2>1. \A i \in 1..Len(d.rows) : d.rows[i] <= a
    BY <1>3 DEF Rows
  <2>2. ~(m.seq <= a)
    OBVIOUS
  <2>3. d.expired + 1 .. Len(d.rows) \subseteq 1..Len(d.rows)
    BY <1>2 DEF DedupType
  <2>. HIDE DEF d
  <2>. QED  BY <2>1, <2>2, <2>3 DEF IsProcessed
<1>5. w \in SiteType(D) /\ w.dedup = d /\ w.present = st.present /\ w.stream = f
  BY <1>a, <1>1, <1>2, DeliverHolds
<1>6. OnCommit(st, m) = v
  <2>1. ~(st.present /\ Raises(st.stream, m))
    BY <1>a DEF Raises
  <2>2. OnCommit(st, m) = [w EXCEPT !.dedup = MarkProcessed(w.dedup, m.seq)]
    BY <1>4, <2>1 DEF OnCommit
  <2>. QED  BY <1>5, <2>2
<1>7. /\ f.subscribed /\ f.offset = a + 1 /\ Len(f.pending) = 0 /\ Len(f.delivered) = a + 1
      /\ \A i \in 1..a : f.delivered[i] = s.delivered[i]
      /\ f.delivered[a + 1] = m
  <2>1. s.subscribed /\ m.seq = s.offset + 1
    BY <1>a, <1>3
  <2>. HIDE DEF s
  <2>. QED  BY <1>1, <1>2, <1>3, <2>1, OnMessageNext
<1>8. e \in DedupType /\ Rows(e) = Rows(d) \cup {a + 1}
  BY <1>1, <1>2, MarkResult
<1>9. f.pending = <<>>
  <2>1. f.pending \in Seq(D)
    BY <1>2, <1>5 DEF SiteType, StreamType
  <2>. HIDE DEF f
  <2>. QED  BY <1>7, <2>1
<1>. HIDE DEF e, f, w
<1>10. v.stream = f /\ v.dedup = e
  BY <1>5 DEF SiteType
<1>. HIDE DEF v, d
<1>11. \A q \in Rows(e) : q <= a + 1
  <2>1. \A q \in Rows(d) : q \in Nat
    BY <1>2, BoundAssumption DEF Rows, DedupType
  <2>. QED  BY <1>3, <1>8, <2>1 DEF d
<1>12. SiteInv(OnCommit(st, m), D, X) /\ OnCommit(st, m).present = st.present
  BY <1>a, OnCommitSite
<1>. DEFINE u == OnCommit(st, m)
<1>13. SiteInv(u, D, X) /\ u.present /\ u = v
  BY <1>a, <1>6, <1>12
<1>. HIDE DEF u
<1>14. StraightSite(u, a + 1) /\ u.stream.subscribed
  BY <1>7, <1>9, <1>10, <1>11, <1>13 DEF StraightSite
<1>15. Further(st, u, m, a + 1)
  BY <1>7, <1>10, <1>13 DEF Further, s
<1>. QED  BY <1>13, <1>14, <1>15 DEF Ready, u

(* _on_commit of the numbers that follow a. *)
LEMMA OnCommitsStraight ==
  ASSUME NEW D, D \subseteq Message, NEW X, NEW st, SiteInv(st, D, X),
         NEW a \in Nat, StraightSite(st, a), NEW ms \in Seq(D),
         ms # <<>> => st.present /\ st.stream.subscribed,
         \A i \in 1..Len(ms) : ms[i].seq = a + i
  PROVE  LET w == OnCommits(st, ms)
         IN /\ StraightSite(w, a + Len(ms))
            /\ \A i \in 1..a : w.stream.delivered[i] = st.stream.delivered[i]
            /\ \A i \in 1..Len(ms) : w.stream.delivered[a + i] = ms[i]
<1>. DEFINE N == Len(ms)
            After(y, i) == /\ SiteInv(y, D, X) /\ y.present = st.present
                           /\ y.stream.subscribed = st.stream.subscribed
                           /\ StraightSite(y, a + i)
                           /\ \A j \in 1..a : y.stream.delivered[j] = st.stream.delivered[j]
                           /\ \A j \in 1..i : y.stream.delivered[a + j] = ms[j]
            S == [i \in 0..N |-> {y \in SiteType(D) : After(y, i)}]
<1>1. N \in Nat /\ \A i \in 1..N : ms[i] \in D
  OBVIOUS
<1>2. st \in SiteType(D) /\ After(st, 0)
  BY DEF SiteInv
<1>3. ASSUME NEW i \in 1..N, NEW y, After(y, i - 1)
      PROVE  After(OnCommit(y, ms[i]), i)
  <2>a. PICK b \in Nat : b = a + (i - 1)
    BY <1>1
  <2>0. PICK m \in D : m = ms[i]
    BY <1>1
  <2>. DEFINE w == OnCommit(y, m)
  <2>. HIDE DEF S
  <2>1. /\ i \in Nat /\ b \in Nat /\ b + 1 = a + i /\ ms # <<>>
        /\ \A j \in 1..a : j \in 1..b
        /\ \A j \in 1..(i - 1) : a + j \in 1..b
        /\ \A j \in 1..i : j \in 1..(i - 1) \/ j = i
    BY <1>1, <2>a
  <2>2. SiteInv(y, D, X) /\ y.present /\ y.stream.subscribed /\ StraightSite(y, b)
    BY <1>3, <2>1, <2>a
  <2>3. m.seq = b + 1
    BY <1>1, <2>a, <2>0, <2>1
  <2>. HIDE DEF N, After
  <2>5. /\ SiteInv(w, D, X) /\ w.present
        /\ StraightSite(w, b + 1) /\ w.stream.subscribed
        /\ \A j \in 1..b : w.stream.delivered[j] = y.stream.delivered[j]
        /\ w.stream.delivered[b + 1] = m
    <3>1. Ready(y, D, X, b)
      BY <2>2 DEF Ready
    <3>. HIDE DEF w
    <3>2. Ready(OnCommit(y, m), D, X, b + 1) /\ Further(y, OnCommit(y, m), m, b + 1)
      BY <2>3, <3>1, OnCommitStraight
    <3>3. (b + 1) - 1 = b
      OBVIOUS
    <3>. QED  BY <2>2, <3>2, <3>3 DEF w, Ready, Further
  <2>. HIDE DEF w
  <2>. USE DEF After
  <2>6. w.stream.subscribed = st.stream.subscribed
    <3>1. w.stream.subscribed \in BOOLEAN /\ st.stream.subscribed \in BOOLEAN
      BY <2>5 DEF SiteInv, SiteType, StreamType
    <3>. QED  BY <1>3, <2>1, <2>5, <3>1
  <2>7. \A j \in 1..a : w.stream.delivered[j] = st.stream.delivered[j]
    BY <1>3, <2>1, <2>5
  <2>8. \A j \in 1..i : w.stream.delivered[a + j] = ms[j]
    BY <1>3, <2>0, <2>1, <2>5
  <2>. QED  BY <1>3, <2>0, <2>1, <2>5, <2>6, <2>7, <2>8 DEF w
<1>. HIDE DEF After
<1>4. \A i \in 1..N : \A y \in S[i - 1] : OnCommit(y, ms[i]) \in S[i]
  <2>. SUFFICES ASSUME NEW i \in 1..N, NEW y \in S[i - 1]  PROVE OnCommit(y, ms[i]) \in S[i]
    OBVIOUS
  <2>1. i \in 0..N /\ i - 1 \in 0..N
    BY <1>1
  <2>2. After(y, i - 1)
    BY <2>1
  <2>3. After(OnCommit(y, ms[i]), i)
    BY <1>3, <2>2
  <2>4. OnCommit(y, ms[i]) \in SiteType(D)
    BY <2>3 DEF After, SiteInv
  <2>. QED  BY <2>1, <2>3, <2>4
<1>5. st \in S[0]
  BY <1>1, <1>2
<1>6. OnCommits(st, ms) \in S[N]
  <2>. HIDE DEF S
  <2>. QED  BY <1>4, <1>5, OnCommitsReach
<1>7. After(OnCommits(st, ms), N)
  BY <1>1, <1>6
<1>. QED  BY <1>7 DEF After

(* What a node applies when it takes a call or an answer. *)
LEMMA AppliedGrows ==
  ASSUME NEW D, RaftP!TypeInv, RaftP!DrawnFrom(D), NEW m \in calls, NEW n,
         \/ HandleAppendEntries(m) /\ n = m.to
         \/ AppendReplyOk(m) /\ n = m.from
  PROVE  /\ n \in Node /\ CommitsAt(n) /\ restarted' = restarted
         /\ \E t \in Seq(RaftP!EntriesOf(D)) :
              applied' = [applied EXCEPT ![n] = applied[n] \o t]
<1>1. n \in Node /\ CommitsAt(n)
  BY DEF RaftP!TypeInv, RaftP!TypeOK, RaftP!Call, HandleAppendEntries, AppendReplyOk
<1>2. CASE HandleAppendEntries(m) /\ n = m.to
  <2>. DEFINE t == SubSeq(RaftP!TakenLog(m), Len(applied[m.to]) + 1, RaftP!TakenCommit(m))
  <2>1. RaftP!HandleAppendEntries(m)
    BY <1>2, RaftSteps DEF HandleAppendEntries
  <2>2. applied' = [applied EXCEPT ![n] = applied[n] \o t] /\ restarted' = restarted
    BY <1>2, <2>1 DEF RaftP!HandleAppendEntries, RaftP!Apply
  <2>3. t \in Seq(RaftP!EntriesOf(D))
    BY RaftP!AppliedDrawn, NodeAssumption, BoundAssumption
  <2>. HIDE DEF t
  <2>. QED  BY <1>1, <2>2, <2>3
<1>3. CASE AppendReplyOk(m) /\ n = m.from
  <2>. DEFINE t == SubSeq(log[m.from], Len(applied[m.from]) + 1, RaftP!AnsweredCommit(m))
  <2>1. RaftP!AppendReplyOk(m)
    BY <1>3, RaftSteps DEF AppendReplyOk
  <2>2. applied' = [applied EXCEPT ![n] = applied[n] \o t] /\ restarted' = restarted
    BY <1>3, <2>1 DEF RaftP!AppendReplyOk, RaftP!Apply
  <2>3. t \in Seq(RaftP!EntriesOf(D))
    BY RaftP!AppliedDrawn, NodeAssumption, BoundAssumption
  <2>. HIDE DEF t
  <2>. QED  BY <1>1, <2>2, <2>3
<1>. QED  BY <1>2, <1>3

(* A node stays straight through what it newly applies, unless nobody was there
   to get it. *)
LEMMA CommitsStraight ==
  ASSUME NEW D, D \subseteq Message, NEW L \in Node, D = LogOf(L), Numbering(L),
         log \in [Node -> Seq(RaftP!EntriesOf(D))], log'[L] = log[L],
         SitesInv(D), NEW n \in Node, Straight(n),
         applied \in [Node -> Seq(RaftP!EntriesOf(D))],
         NEW t \in Seq(RaftP!EntriesOf(D)),
         applied' = [applied EXCEPT ![n] = applied[n] \o t],
         RaftP!Within(applied'[n], log[L]),
         CommitsAt(n), n \notin late'
  PROVE  Straight(n)'
<1>. DEFINE T == Seq(RaftP!EntriesOf(D))
            a == Len(applied[n])
            N == Len(t)
            ms == Commands(t)
            st == Site(n)
            w == OnCommits(st, ms)
<1>1. /\ applied[n] \in T /\ a \in Nat /\ N \in Nat
      /\ applied'[n] = applied[n] \o t
  OBVIOUS
<1>2. /\ Len(applied'[n]) = a + N
      /\ \A i \in 1..a : applied'[n][i] = applied[n][i]
      /\ \A i \in 1..N : applied'[n][a + i] = t[i]
      /\ SubSeq(applied'[n], a + 1, a + N) = t
  <2>1. /\ Len(applied[n] \o t) = a + N
        /\ \A i \in 1..(a + N) : (applied[n] \o t)[i] = IF i <= a THEN applied[n][i] ELSE t[i - a]
    <3>. DEFINE q == applied[n]
    <3>1. q \in T /\ t \in T /\ a = Len(q) /\ N = Len(t)
      BY <1>1
    <3>. HIDE DEF q, a, N
    <3>2. /\ Len(q \o t) = Len(q) + Len(t)
          /\ \A i \in 1..(Len(q) + Len(t)) :
                (q \o t)[i] = IF i <= Len(q) THEN q[i] ELSE t[i - Len(q)]
      BY <3>1, Concatenated, Zenon
    <3>. QED  BY <3>1, <3>2 DEF q
  <2>2. \A i \in 1..a : i \in 1..(a + N) /\ i <= a
    BY <1>1
  <2>3. \A i \in 1..N : a + i \in 1..(a + N) /\ ~(a + i <= a) /\ (a + i) - a = i
    BY <1>1
  <2>4. SubSeq(applied[n] \o t, a + 1, a + N) = t
    <3>. DEFINE q == applied[n]
    <3>1. q \in T /\ a = Len(q)
      BY <1>1
    <3>. HIDE DEF q
    <3>2. SubSeq(q \o t, Len(q) + 1, Len(q) + Len(t)) = t
      BY <3>1
    <3>. QED  BY <3>1, <3>2 DEF q
  <2>. HIDE DEF a, N
  <2>. QED  BY <1>1, <2>1, <2>2, <2>3, <2>4
<1>3. ms \in Seq(D) /\ Len(ms) = N /\ \A i \in 1..N : ms[i] = t[i].command
  BY CommandsDrawn
<1>4. SubSeq(applied'[n], Len(applied[n]) + 1, Len(applied'[n])) = t
  BY <1>2
<1>5. /\ SiteBecomes(n, w) /\ joined' = joined
      /\ t # <<>> => joined[n] /\ stream[n].subscribed
  BY <1>4 DEF CommitsAt, Served
<1>6. SiteInv(st, D, excused[n]) /\ StraightSite(st, a)
  BY DEF SitesInv, Straight
<1>7. \A i \in 1..N : ms[i].seq = a + i
  <2>1. /\ a + N <= Len(log[L]) /\ \A j \in 1..(a + N) : applied'[n][j] = log[L][j]
    BY <1>2 DEF RaftP!Within
  <2>2. \A j \in 1..Len(log[L]) : log[L][j].command.seq = j
    BY DEF Numbering
  <2>3. Len(log[L]) \in Nat
    OBVIOUS
  <2>4. \A i \in 1..N : a + i \in 1..(a + N) /\ a + i \in 1..Len(log[L])
    BY <1>1, <2>1, <2>3
  <2>. HIDE DEF a, N, ms
  <2>5. ASSUME NEW i \in 1..N  PROVE ms[i].seq = a + i
    <3>1. applied'[n][a + i] = t[i] /\ applied'[n][a + i] = log[L][a + i]
      BY <1>2, <2>1, <2>4
    <3>2. log[L][a + i].command.seq = a + i
      BY <2>2, <2>4
    <3>. QED  BY <1>3, <3>1, <3>2
  <2>. QED  BY <2>5
<1>8. ms # <<>> => st.present /\ st.stream.subscribed
  <2>1. t = <<>> => ms = <<>>
    BY <1>1, <1>3
  <2>. QED  BY <1>5, <2>1 DEF Site
<1>. HIDE DEF ms, a, N, st
<1>9. SiteInv(w, D, excused[n]) /\ w.present = st.present
  BY <1>3, <1>6, OnCommitsSite
<1>10. /\ StraightSite(w, a + N)
       /\ \A i \in 1..a : w.stream.delivered[i] = st.stream.delivered[i]
       /\ \A i \in 1..N : w.stream.delivered[a + i] = ms[i]
  <2>1. /\ SiteInv(st, D, excused[n]) /\ a \in Nat /\ StraightSite(st, a) /\ ms \in Seq(D)
        /\ ms # <<>> => st.present /\ st.stream.subscribed
        /\ \A i \in 1..Len(ms) : ms[i].seq = a + i
    BY <1>1, <1>3, <1>6, <1>7, <1>8
  <2>. HIDE DEF w
  <2>2. LET u == OnCommits(st, ms)
        IN /\ StraightSite(u, a + Len(ms))
           /\ \A i \in 1..a : u.stream.delivered[i] = st.stream.delivered[i]
           /\ \A i \in 1..Len(ms) : u.stream.delivered[a + i] = ms[i]
    <3>1. ASSUME NEW y, SiteInv(y, D, excused[n]), NEW k \in Nat, StraightSite(y, k),
                 NEW zs \in Seq(D), zs # <<>> => y.present /\ y.stream.subscribed,
                 \A i \in 1..Len(zs) : zs[i].seq = k + i
          PROVE  LET u == OnCommits(y, zs)
                 IN /\ StraightSite(u, k + Len(zs))
                    /\ \A i \in 1..k : u.stream.delivered[i] = y.stream.delivered[i]
                    /\ \A i \in 1..Len(zs) : u.stream.delivered[k + i] = zs[i]
      BY ONLY D \subseteq Message, <3>1, OnCommitsStraight
    <3>. QED  BY ONLY <2>1, <3>1, SMT
  <2>. QED  BY <1>3, <2>2 DEF w
<1>. HIDE DEF w
<1>11. Site(n)' = w
  <2>1. w = [dedup |-> w.dedup, stream |-> w.stream, reached |-> w.reached,
             present |-> w.present]
    BY <1>9 DEF SiteInv, SiteType
  <2>2. /\ dedup'[n] = w.dedup /\ stream'[n] = w.stream /\ reached'[n] = w.reached
        /\ joined'[n] = w.present
    BY <1>5, <1>9 DEF SiteBecomes, SitesInv, Site, st
  <2>. QED  BY <2>1, <2>2 DEF Site
<1>12. stream'[n] = w.stream
  BY <1>5 DEF SiteBecomes, SitesInv
<1>13. ASSUME NEW i \in 1..(a + N)
       PROVE  stream'[n].delivered[i] = applied'[n][i].command
  <2>1. CASE i <= a
    <3>1. i \in 1..a
      BY <1>1, <2>1
    <3>2. st.stream.delivered[i] = applied[n][i].command
      BY <3>1 DEF Straight, Site, a, st
    <3>. QED  BY <1>2, <1>10, <1>12, <3>1, <3>2
  <2>2. CASE i > a
    <3>. DEFINE j == i - a
    <3>1. j \in 1..N /\ i = a + j
      BY <1>1, <2>2
    <3>. HIDE DEF j
    <3>2. stream'[n].delivered[i] = ms[j]
      BY <1>10, <1>12, <3>1
    <3>. QED  BY <1>2, <1>3, <3>1, <3>2
  <2>3. i <= a \/ i > a
    BY <1>1
  <2>. QED  BY <2>1, <2>2, <2>3
<1>. QED  BY <1>2, <1>10, <1>11, <1>13 DEF Straight

(* What of a node a step must leave alone for it to stay straight. *)
LEMMA StraightStays ==
  ASSUME NEW n, Straight(n), applied'[n] = applied[n],
         stream'[n].pending = stream[n].pending, stream'[n].offset = stream[n].offset,
         stream'[n].delivered = stream[n].delivered,
         Rows(dedup'[n]) \subseteq Rows(dedup[n])
  PROVE  Straight(n)'
<1>1. StraightSite(Site(n), Len(applied[n]))'
  BY DEF Straight, StraightSite, Site
<1>. QED  BY <1>1 DEF Straight

(* Joining, subscribing and forgetting rows deliver nothing. *)
LEMMA LocalStraight ==
  ASSUME NEW D, SitesInv(D), NEW n \in Node,
         JoinGroup(n) \/ Subscribe(n) \/ Expire(n) \/ Cleanup(n),
         NEW p \in Node, Straight(p)
  PROVE  Straight(p)'
<1>1. /\ dedup \in [Node -> DedupType] /\ stream \in [Node -> StreamType(D)]
      /\ \A q \in Node : dedup[q].expired <= Len(dedup[q].rows)
  BY DEF SitesInv, SiteInv, Site
<1>2. applied' = applied
  BY DEF JoinGroup, Subscribe, Expire, Cleanup, raftVars
<1>3. /\ stream'[p].pending = stream[p].pending /\ stream'[p].offset = stream[p].offset
      /\ stream'[p].delivered = stream[p].delivered
  <2>1. CASE Subscribe(n)
    <3>1. stream' = [stream EXCEPT ![n] = Subscribed(stream[n])]
      BY <2>1 DEF Subscribe
    <3>. QED  BY <1>1, <3>1 DEF Subscribed, StreamType
  <2>2. CASE JoinGroup(n) \/ Expire(n) \/ Cleanup(n)
    BY <2>2 DEF JoinGroup, Expire, Cleanup, consumers
  <2>. QED  BY <2>1, <2>2
<1>4. Rows(dedup'[p]) \subseteq Rows(dedup[p])
  <2>. DEFINE d == dedup[n]
  <2>1. d \in DedupType /\ d.expired \in Nat /\ d.rows \in Seq(1..MaxBroadcasts)
        /\ d.expired <= Len(d.rows)
    BY <1>1 DEF DedupType
  <2>2. CASE JoinGroup(n) \/ Subscribe(n)
    BY <2>2 DEF JoinGroup, Subscribe
  <2>3. CASE Expire(n)
    <3>1. dedup' = [dedup EXCEPT ![n] = [d EXCEPT !.expired = d.expired + 1]]
      BY <2>3 DEF Expire
    <3>2. dedup'[p] = dedup[p] \/ (p = n /\ dedup'[p].rows = d.rows)
      BY <1>1, <2>1, <3>1 DEF DedupType
    <3>. QED  BY <3>2 DEF Rows
  <2>4. CASE Cleanup(n)
    <3>. DEFINE k == d.expired
                r == SubSeq(d.rows, k + 1, Len(d.rows))
    <3>1. dedup' = [dedup EXCEPT ![n] = [rows |-> r, expired |-> 0]]
      BY <2>4 DEF Cleanup
    <3>2. dedup'[p] = dedup[p] \/ (p = n /\ dedup'[p].rows = r)
      BY <1>1, <3>1
    <3>3. d.rows \in Seq(1..MaxBroadcasts) /\ k \in Nat /\ k <= Len(d.rows)
      BY <2>1
    <3>. HIDE DEF k, d
    <3>4. /\ Len(d.rows) \in Nat /\ Len(r) = Len(d.rows) - k
          /\ \A i \in 1..(Len(d.rows) - k) : r[i] = d.rows[k + i]
      BY <3>3, Suffixed, Zenon
    <3>5. ASSUME NEW i \in 1..Len(r)  PROVE r[i] \in Rows(d)
      <4>1. i \in 1..(Len(d.rows) - k) /\ k + i \in 1..Len(d.rows)
        BY <3>3, <3>4
      <4>2. r[i] = d.rows[k + i]
        BY <3>4, <4>1
      <4>. QED  BY <4>1, <4>2 DEF Rows
    <3>. HIDE DEF r
    <3>. QED  BY <3>2, <3>5 DEF Rows, d
  <2>. QED  BY <2>2, <2>3, <2>4
<1>. QED  BY <1>2, <1>3, <1>4, StraightStays

(* A step in which nobody broadcasts: the leader's log and counter stay. *)
LEMMA QuietStraight ==
  ASSUME NEW L \in Node, Campaigner = {L}, L \notin Restarter,
         NEW D, LeaderInv(L, D), [Next]_vars, \A n \in Node : ~OrderedBroadcast(n)
  PROVE  /\ (RaftP!TrailInv(L))' /\ log'[L] = log[L] /\ topicSeq'[L] = topicSeq[L]
         /\ \A p \in Node \ (late' \cup restarted') : Straight(p)'
<1>. DEFINE Goal == /\ log'[L] = log[L] /\ topicSeq'[L] = topicSeq[L]
                    /\ \A p \in Node \ (late' \cup restarted') : Straight(p)'
<1>1. /\ RaftP!TypeInv /\ RaftP!TrailInv(L) /\ D \in SUBSET Message
      /\ RaftP!DrawnFrom(D) /\ SitesInv(D)
      /\ topicSeq \in [Node -> Nat] /\ D = LogOf(L) /\ Numbering(L)
      /\ \A p \in Node \ (late \cup restarted) : Straight(p)
  BY DEF LeaderInv, CoordInv, DrawnInv, CounterInv
<1>2. /\ log \in [Node -> Seq(RaftP!EntriesOf(D))]
      /\ applied \in [Node -> Seq(RaftP!EntriesOf(D))]
      /\ \A m \in calls : m.from = L /\ m.to # L /\ m.to \in Node
      /\ restarted \subseteq Restarter /\ late \subseteq Node
  BY <1>1 DEF RaftP!DrawnFrom, RaftP!TrailInv, RaftP!TypeInv, RaftP!TypeOK, RaftP!Call,
              SitesInv
<1>3. (RaftP!TrailInv(L))'
  <2>1. RaftP!NextFrom(D) \/ UNCHANGED RaftP!vars
    BY <1>1, RaftGoesFrom
  <2>2. [RaftP!Next]_RaftP!vars
    BY <1>1, <2>1, RaftGoes
  <2>3. RaftP!TrailInv(L) /\ [RaftP!Next]_RaftP!vars => (RaftP!TrailInv(L))'
    BY RaftP!TrailStep, NodeAssumption, BoundAssumption
  <2>. QED  BY <1>1, <2>2, <2>3
<1>4. ASSUME UNCHANGED <<log, applied, restarted, topicSeq, site>>  PROVE Goal
  <2>1. dedup' = dedup /\ stream' = stream /\ late' = late
    BY <1>4 DEF site, consumers
  <2>. QED  BY <1>1, <1>4, <2>1, StraightStays
<1>5. ASSUME UNCHANGED vars  PROVE Goal
  <2>1. UNCHANGED <<log, applied, restarted, topicSeq, site>>
    BY <1>5 DEF vars, raftVars
  <2>. HIDE DEF Goal
  <2>. QED  BY <1>4, <2>1
<1>6. ASSUME RaftGoesOn  PROVE Goal
  <2>1. UNCHANGED <<log, applied, restarted>>
    <3>1. ASSUME NEW n, Raft!StartElection(n)  PROVE UNCHANGED <<log, applied, restarted>>
      BY <3>1 DEF Raft!StartElection, Raft!commitment
    <3>2. ASSUME NEW n, Raft!HandleRequestVote(n)
          PROVE  UNCHANGED <<log, applied, restarted>>
      BY <3>2 DEF Raft!HandleRequestVote, Raft!commitment
    <3>3. ASSUME NEW n, Raft!VoteReply(n) \/ Raft!VoteLost(n)
          PROVE  UNCHANGED <<log, applied, restarted>>
      BY <3>3 DEF Raft!VoteReply, Raft!VoteLost, Raft!ElectionGoesOn, Raft!commitment
    <3>4. ASSUME NEW n, Raft!Heartbeat(n)  PROVE UNCHANGED <<log, applied, restarted>>
      BY <3>4 DEF Raft!Heartbeat, Raft!commitment, Raft!persistent
    <3>5. ASSUME NEW m, Raft!AppendReplyFail(m) \/ Raft!AppendLost(m)
          PROVE  UNCHANGED <<log, applied, restarted>>
      BY <3>5 DEF Raft!AppendReplyFail, Raft!AppendLost, Raft!commitment, Raft!persistent
    <3>. QED  BY <1>6, <3>1, <3>2, <3>3, <3>4, <3>5 DEF RaftGoesOn
  <2>2. UNCHANGED <<topicSeq, site>>
    BY <1>6 DEF RaftGoesOn
  <2>. HIDE DEF Goal
  <2>. QED  BY <1>4, <2>1, <2>2
<1>7. ASSUME NEW n \in Node, JoinGroup(n) \/ Subscribe(n) \/ Expire(n) \/ Cleanup(n)
      PROVE  Goal
  <2>1. log' = log /\ restarted' = restarted /\ topicSeq' = topicSeq /\ late' = late
    BY <1>7 DEF JoinGroup, Subscribe, Expire, Cleanup, raftVars
  <2>. QED  BY <1>1, <1>7, <2>1, LocalStraight
<1>8. ASSUME NEW n \in Node, Restart(n) \/ DieBeforeMark(n)  PROVE Goal
  <2>1. Raft!Restart(n) /\ topicSeq' = [topicSeq EXCEPT ![n] = 0]
        /\ stream' = [stream EXCEPT ![n] = Fresh]
    BY <1>8 DEF Restart, DieBeforeMark, ProcessDies
  <2>2. /\ n \in Restarter /\ restarted' = restarted \cup {n}
        /\ log' = [log EXCEPT ![n] = <<>>] /\ applied' = [applied EXCEPT ![n] = <<>>]
    BY <2>1 DEF Raft!Restart
  <2>3. late \subseteq late' /\ \A p \in Node \ {n} : dedup'[p] = dedup[p]
    <3>1. CASE Restart(n)
      BY <3>1 DEF Restart
    <3>2. CASE DieBeforeMark(n)
      <4>1. /\ \E d : dedup' = [dedup EXCEPT ![n] = d]
            /\ late' = IF Served(n) THEN late ELSE late \cup {n}
        BY <3>2 DEF DieBeforeMark
      <4>2. dedup \in [Node -> DedupType]
        BY <1>1 DEF SitesInv
      <4>. QED  BY <4>1, <4>2
    <3>. QED  BY <1>8, <3>1, <3>2
  <2>4. n # L
    BY <2>2
  <2>5. log'[L] = log[L] /\ topicSeq'[L] = topicSeq[L]
    BY <1>1, <1>2, <2>1, <2>2, <2>4
  <2>6. stream \in [Node -> StreamType(D)]
    BY <1>1 DEF SitesInv
  <2>7. ASSUME NEW p \in Node, p \notin late', p \notin restarted'  PROVE Straight(p)'
    <3>1. p # n /\ Straight(p)
      BY <1>1, <2>2, <2>3, <2>7
    <3>2. stream'[p] = stream[p] /\ applied'[p] = applied[p] /\ dedup'[p] = dedup[p]
      BY <1>2, <2>1, <2>2, <2>3, <2>6, <3>1
    <3>. QED  BY <3>1, <3>2, StraightStays
  <2>. QED  BY <2>5, <2>7
<1>9. ASSUME NEW m \in calls, NEW n, \/ HandleAppendEntries(m) /\ n = m.to
                                     \/ AppendReplyOk(m) /\ n = m.from
      PROVE  Goal
  <2>1. /\ n \in Node /\ CommitsAt(n) /\ restarted' = restarted
        /\ \E t \in Seq(RaftP!EntriesOf(D)) :
             applied' = [applied EXCEPT ![n] = applied[n] \o t]
    BY <1>1, <1>9, AppliedGrows
  <2>2. PICK t \in Seq(RaftP!EntriesOf(D)) :
          applied' = [applied EXCEPT ![n] = applied[n] \o t]
    BY <2>1
  <2>3. log'[L] = log[L]
    <3>1. CASE HandleAppendEntries(m)
      <4>1. \E l : log' = [log EXCEPT ![m.to] = l]
        BY <3>1 DEF HandleAppendEntries, Raft!HandleAppendEntries
      <4>. QED  BY <1>2, <4>1
    <3>2. CASE AppendReplyOk(m)
      BY <3>2 DEF AppendReplyOk, Raft!AppendReplyOk, Raft!persistent
    <3>. QED  BY <1>9, <3>1, <3>2
  <2>4. /\ topicSeq' = topicSeq /\ late \subseteq late'
        /\ \A p \in Node \ {n} : stream'[p] = stream[p] /\ dedup'[p] = dedup[p]
                                 /\ applied'[p] = applied[p]
    <3>1. /\ topicSeq' = topicSeq /\ late \subseteq late'
          /\ \E w : SiteBecomes(n, w)
      BY <2>1 DEF CommitsAt
    <3>2. stream \in [Node -> StreamType(D)] /\ dedup \in [Node -> DedupType]
      BY <1>1 DEF SitesInv
    <3>. QED  BY <1>2, <2>2, <3>1, <3>2 DEF SiteBecomes
  <2>5. RaftP!Within(applied'[n], log[L])
    <3>1. /\ RaftP!Within(applied'[n], log'[n]) /\ RaftP!Within(log'[n], log[L])
          /\ applied'[n] \in Seq(RaftP!Entry) /\ log'[n] \in Seq(RaftP!Entry)
          /\ log[L] \in Seq(RaftP!Entry)
      BY <1>1, <1>3, <2>1, <2>3 DEF RaftP!TrailInv, RaftP!TypeInv, RaftP!TypeOK, RaftP!Log
    <3>. QED  BY <3>1, RaftP!WithinTransitive, NodeAssumption, BoundAssumption
  <2>6. ASSUME NEW p \in Node, p \notin late', p \notin restarted'  PROVE Straight(p)'
    <3>1. Straight(p)
      BY <1>1, <2>1, <2>4, <2>6
    <3>2. CASE p = n
      BY <1>1, <1>2, <2>1, <2>2, <2>3, <2>5, <2>6, <3>1, <3>2, CommitsStraight
    <3>3. CASE p # n
      BY <2>4, <3>1, <3>3, StraightStays
    <3>. QED  BY <3>2, <3>3
  <2>. QED  BY <2>3, <2>4, <2>6
<1>. HIDE DEF Goal
<1>10. Goal
  <2>1. \A m \in calls : HandleAppendEntries(m) \/ AppendReplyOk(m) => Goal
    BY <1>9
  <2>. QED  BY <1>5, <1>6, <1>7, <1>8, <2>1 DEF Next
<1>. QED  BY <1>3, <1>10 DEF Goal

(* ordered_broadcast at the leader: the new message follows the log. *)
LEMMA BroadcastStraight ==
  ASSUME NEW L \in Node, Campaigner = {L}, L \notin Restarter,
         NEW D, LeaderInv(L, D), NEW n \in Node, OrderedBroadcast(n),
         NEW x, x = NextMessage(n)
  PROVE  x \in Message /\ (LeaderInv(L, D \cup {x}))'
<1>. DEFINE E == D \cup {x}
            l == log[L]
            N == Len(l)
            e == [term |-> currentTerm[L], command |-> x]
<1>1. /\ CoordInv(D) /\ RaftP!TrailInv(L) /\ D = LogOf(L) /\ Numbering(L)
      /\ topicSeq \in [Node -> Nat] /\ D \in SUBSET Message /\ RaftP!DrawnFrom(D)
      /\ \A p \in Node \ (late \cup restarted) : Straight(p)
  BY DEF LeaderInv, CoordInv, DrawnInv, CounterInv
<1>2. log \in [Node -> Seq(RaftP!EntriesOf(D))]
  BY <1>1 DEF RaftP!DrawnFrom
<1>3. x \in Message /\ x.seq = topicSeq[n] + 1 /\ (CoordInv(E))'
  BY <1>1, BroadcastStep
<1>4. n = L
  BY <1>1 DEF OrderedBroadcast, RaftP!TrailInv
<1>5. /\ topicSeq' = [topicSeq EXCEPT ![n] = topicSeq[n] + 1]
      /\ broadcasts' = broadcasts + 1 /\ UNCHANGED site
      /\ RaftP!Propose(n, [seq |-> topicSeq'[n], payload |-> broadcasts'])
  BY RaftSteps DEF OrderedBroadcast, NextSeq
<1>6. /\ log' = [log EXCEPT ![L] = Append(l, e)]
      /\ applied' = applied /\ restarted' = restarted /\ topicSeq'[L] = topicSeq[L] + 1
  <2>1. topicSeq'[L] = topicSeq[L] + 1
    BY <1>1, <1>4, <1>5
  <2>2. RaftP!Propose(L, x)
    BY <1>4, <1>5, <2>1 DEF NextMessage
  <2>. QED  BY <2>1, <2>2 DEF RaftP!Propose, RaftP!commitment
<1>7. (RaftP!TrailInv(L))'
  <2>1. \A p \in Node : OrderedBroadcast(p) => NextMessage(p) \in Message
    <3>1. \A p \in Node : OrderedBroadcast(p) => p = n
      BY <1>1, <1>4 DEF OrderedBroadcast, RaftP!TrailInv
    <3>. QED  BY <1>3, <3>1
  <2>2. [Next]_vars
    BY DEF Next
  <2>3. RaftP!NextFrom(Message) \/ UNCHANGED RaftP!vars
    BY <1>1, <2>1, <2>2, RaftGoesFrom
  <2>4. [RaftP!Next]_RaftP!vars
    BY <2>3, RaftGoes
  <2>5. RaftP!TrailInv(L) /\ [RaftP!Next]_RaftP!vars => (RaftP!TrailInv(L))'
    BY RaftP!TrailStep, NodeAssumption, BoundAssumption
  <2>. QED  BY <1>1, <2>4, <2>5
<1>8. /\ N \in Nat /\ log'[L] = Append(l, e)
      /\ Len(log'[L]) = N + 1 /\ log'[L][N + 1] = e
      /\ \A i \in 1..N : log'[L][i] = l[i]
  <2>1. l \in Seq(RaftP!EntriesOf(D)) /\ log'[L] = Append(l, e)
    BY <1>2, <1>6
  <2>. HIDE DEF l, e
  <2>. QED  BY <2>1
<1>. HIDE DEF e
<1>9. e.command = x
  BY DEF e
<1>10. topicSeq[L] = N /\ \A i \in 1..N : l[i].command.seq = i
  BY <1>1 DEF Numbering
<1>11. D = {l[i].command : i \in 1..N}
  BY <1>1 DEF LogOf
<1>. HIDE DEF N, l
<1>12. \A i \in 1..(N + 1) : i \in 1..N \/ i = N + 1
  BY <1>8
<1>13. Numbering(L)'
  <2>1. topicSeq'[L] = Len(log'[L])
    BY <1>6, <1>8, <1>10
  <2>2. x.seq = N + 1
    BY <1>3, <1>4, <1>10
  <2>3. \A i \in 1..(N + 1) : log'[L][i].command.seq = i
    BY <1>8, <1>9, <1>10, <1>12, <2>2
  <2>. QED  BY <1>8, <2>1, <2>3 DEF Numbering
<1>14. E = LogOf(L)'
  <2>1. \A i \in 1..N : log'[L][i].command = l[i].command /\ i \in 1..(N + 1)
    BY <1>8
  <2>2. log'[L][N + 1].command = x /\ N + 1 \in 1..(N + 1)
    BY <1>8, <1>9
  <2>3. {log'[L][i].command : i \in 1..(N + 1)} = D \cup {x}
    BY <1>11, <1>12, <2>1, <2>2
  <2>. QED  BY <1>8, <2>3 DEF LogOf
<1>15. \A p \in Node \ (late' \cup restarted') : Straight(p)'
  <2>1. late' = late /\ dedup' = dedup /\ stream' = stream
    BY <1>5 DEF site, consumers
  <2>. QED  BY <1>1, <1>6, <2>1, StraightStays
<1>. HIDE DEF E
<1>16. (LeaderInv(L, E))'
  BY <1>3, <1>7, <1>13, <1>14, <1>15 DEF LeaderInv
<1>. QED  BY <1>3, <1>16 DEF E

(* While one node campaigns and does not restart, the messages are those of its
   log, and who was there from the start has delivered what Raft has applied. *)
THEOREM LeaderInvariance ==
  ASSUME NEW L \in Node, Campaigner = {L}, L \notin Restarter
  PROVE  Spec => []\E D \in SUBSET Message : LeaderInv(L, D)
<1>1. Init => LeaderInv(L, {})
  <2>. SUFFICES ASSUME Init  PROVE LeaderInv(L, {})
    OBVIOUS
  <2>1. RaftP!Init
    BY RaftInit
  <2>2. RaftP!TrailInv(L)
    BY <2>1, RaftP!TrailInit, NodeAssumption, BoundAssumption
  <2>3. /\ log = [n \in Node |-> <<>>] /\ applied = [n \in Node |-> <<>>]
    BY <2>1 DEF RaftP!Init
  <2>4. Len(<<>>) = 0 /\ 1..0 = {}
    OBVIOUS
  <2>5. LogOf(L) = {} /\ Numbering(L)
    BY <2>3, <2>4 DEF LogOf, Numbering, Init
  <2>6. ASSUME NEW n \in Node  PROVE Straight(n)
    <3>1. /\ Site(n).stream = Fresh /\ Site(n).dedup.rows = <<>>
          /\ applied[n] = <<>> /\ stream[n] = Fresh
      BY <2>3 DEF Init, Site
    <3>2. Fresh.pending = <<>> /\ Fresh.offset = 0 /\ Fresh.delivered = <<>>
      BY DEF Fresh, Opened
    <3>. QED  BY <2>4, <3>1, <3>2 DEF Straight, StraightSite, Rows
  <2>7. CoordInv({})
    BY CoordInit
  <2>. QED  BY <2>2, <2>5, <2>6, <2>7 DEF LeaderInv
<1>2. ASSUME NEW D \in SUBSET Message, LeaderInv(L, D), [Next]_vars
      PROVE  (\E E \in SUBSET Message : LeaderInv(L, E))'
  <2>1. CASE \A n \in Node : ~OrderedBroadcast(n)
    <3>1. /\ (RaftP!TrailInv(L))' /\ log'[L] = log[L] /\ topicSeq'[L] = topicSeq[L]
          /\ \A p \in Node \ (late' \cup restarted') : Straight(p)'
      BY <1>2, <2>1, QuietStraight
    <3>2. (CoordInv(D))'
      BY <1>2, <2>1, QuietStep DEF LeaderInv
    <3>3. D = LogOf(L)' /\ Numbering(L)'
      BY <1>2, <3>1 DEF LeaderInv, LogOf, Numbering
    <3>4. (LeaderInv(L, D))'
      BY <3>1, <3>2, <3>3 DEF LeaderInv
    <3>. QED  BY <3>4
  <2>2. ASSUME NEW n \in Node, OrderedBroadcast(n)
        PROVE  (\E E \in SUBSET Message : LeaderInv(L, E))'
    <3>1. PICK x : x = NextMessage(n)
      OBVIOUS
    <3>2. x \in Message /\ (LeaderInv(L, D \cup {x}))'
      BY <1>2, <2>2, <3>1, BroadcastStraight
    <3>3. D \cup {x} \in SUBSET Message
      BY <3>2
    <3>. QED  BY <3>2, <3>3
  <2>. QED  BY <2>1, <2>2
<1>3. Init => \E D \in SUBSET Message : LeaderInv(L, D)
  BY <1>1
<1>4. (\E D \in SUBSET Message : LeaderInv(L, D)) /\ [Next]_vars
        => (\E D \in SUBSET Message : LeaderInv(L, D))'
  BY <1>2
<1>. QED  BY <1>3, <1>4, PTL DEF Spec

(* Total order while one node campaigns and does not restart: the numbers that
   ordered_broadcast takes are the places in its log, so two consumers of the
   topic, wherever they run and whatever was lost or restarted around them, were
   given the same message under one number. *)
THEOREM OneOrder ==
  ASSUME NEW L \in Node, Campaigner = {L}, L \notin Restarter
  PROVE  Spec => []SameOrderEverywhere
<1>1. ASSUME NEW D \in SUBSET Message, LeaderInv(L, D)  PROVE SameOrderEverywhere
  <2>1. \A x, y \in D : x.seq = y.seq => x = y
    BY <1>1 DEF LeaderInv, LogOf, Numbering
  <2>2. \A n \in Node : stream[n].delivered \in Seq(D)
    BY <1>1 DEF LeaderInv, CoordInv, SitesInv, StreamType
  <2>3. \A n \in Node : \A i \in 1..Len(stream[n].delivered) : stream[n].delivered[i] \in D
    BY <2>2
  <2>. QED  BY <2>1, <2>3 DEF SameOrderEverywhere
<1>2. (\E D \in SUBSET Message : LeaderInv(L, D)) => SameOrderEverywhere
  BY <1>1
<1>. QED  BY <1>2, LeaderInvariance, PTL

(* While one node campaigns and does not restart, a node that never restarted
   and never applied an entry with nobody subscribed has given its callbacks what
   _apply_committed gave _on_commit, all of it and nothing else, in its order:
   the dedup log and the buffer of the stream swallow nothing. *)
THEOREM DeliversRaft ==
  ASSUME NEW L \in Node, Campaigner = {L}, L \notin Restarter
  PROVE  Spec => []DeliversTheLog
<1>1. ASSUME NEW D \in SUBSET Message, LeaderInv(L, D),
             NEW n \in Node, n \notin late, n \notin restarted
      PROVE  stream[n].delivered = Commands(applied[n])
  <2>. DEFINE d == stream[n].delivered
              c == Commands(applied[n])
  <2>1. d \in Seq(D)
    BY <1>1 DEF LeaderInv, CoordInv, SitesInv, StreamType
  <2>2. applied[n] \in Seq(RaftP!EntriesOf(D))
    BY <1>1 DEF LeaderInv, CoordInv, DrawnInv, RaftP!DrawnFrom
  <2>3. /\ c \in Seq(D) /\ Len(c) = Len(applied[n])
        /\ \A i \in 1..Len(applied[n]) : c[i] = applied[n][i].command
    BY <2>2, CommandsDrawn
  <2>4. /\ Len(d) = Len(applied[n])
        /\ \A i \in 1..Len(applied[n]) : d[i] = applied[n][i].command
    BY <1>1 DEF LeaderInv, Straight, StraightSite, Site
  <2>. HIDE DEF c, d
  <2>5. Len(c) = Len(d) /\ \A i \in 1..Len(d) : c[i] = d[i]
    BY <2>3, <2>4
  <2>6. c = d
    BY <2>1, <2>3, <2>5
  <2>. QED  BY <2>6 DEF c, d
<1>2. (\E D \in SUBSET Message : LeaderInv(L, D)) => DeliversTheLog
  BY <1>1 DEF DeliversTheLog
<1>. QED  BY <1>2, LeaderInvariance, PTL
=============================================================================
