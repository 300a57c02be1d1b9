----------------------------- MODULE MeshProofs -----------------------------
(* Theorems about AgentMesh and the requests of MeshRPC on top of it, for any
   agents, capabilities, filters and bounds. *)
EXTENDS MeshRPC, FiniteSetTheorems, SequenceTheorems, TLAPS

(* What the variables are made of: topics, messages, subscriptions, requests. *)
Topic == {Event(c) : c \in Capability} \cup {Request(c) : c \in Method}
           \cup {Reply(a) : a \in Agent}

Message == [topic : Topic, cap : Capability \cup Method \cup Topic, from : Agent,
            ts : Nat, re : Nat]

Sub == [caps : Filter, open : BOOLEAN, since : Nat, got : Seq(Nat)]

(* How a request can end. *)
Outcome == {"answered", "timed out"}

Req == [by : Caller, state : {"waits"} \cup Outcome, answer : Nat, alone : BOOLEAN]

Ends == {Pair(x, y) : x, y \in Agent}

(* The numbers of all messages a callback of s was given. *)
Ears(s) == UNION {Heard(s[i]) : i \in DOMAIN s}

(* The types; a bus has only its domain fixed here, the rest is Callbacks. *)
TypeInv ==
  /\ subs \in [Agent -> Seq(Sub)]
  /\ DOMAIN bus = Agent
  /\ wal \in [Agent -> SUBSET Message]
  /\ last \in [Agent -> 0..now]
  /\ passed \in [Agent -> [Agent -> 0..RateLimit]]
  /\ links \subseteq Ends
  /\ chan \in [Agent -> [Agent -> Seq(Message)]]
  /\ missed \subseteq (1..now) \X Agent
  /\ now \in 0..MaxMsgs
  /\ cuts \in 0..MaxCuts
  /\ reqs \in Seq(Req)
  /\ tasks \subseteq [at : Server, re : DOMAIN reqs]

(* Every message has a number of its own and stays in the log of its sender; on
   a link messages rise; nothing that is under way to an agent or missed by it
   is in its log or has been heard by it. *)
UniqueNumbers ==
  /\ \A a \in Agent : \A m \in wal[a] : m.ts \in 1..now /\ m \in wal[m.from]
  /\ \A a, b \in Agent : \A m \in wal[a], k \in wal[b] : m.ts = k.ts => m = k

LinksRise ==
  /\ \A a \in Agent : chan[a][a] = <<>> /\ Pair(a, a) \notin links
  /\ \A a, b \in Agent : \A i \in 1..Len(chan[a][b]) :
        /\ chan[a][b][i] \in wal[a] /\ chan[a][b][i].from = a
        /\ \A j \in 1..Len(chan[a][b]) : i < j => chan[a][b][i].ts < chan[a][b][j].ts

(* m has not come to b. *)
Unheard(b, m) == m \notin wal[b] /\ m.ts \notin Ears(subs[b])

NotYetHeard ==
  \A b \in Agent :
    /\ Ears(subs[b]) \subseteq 1..now
    /\ \A a \in Agent : \A i \in 1..Len(chan[a][b]) :
          Unheard(b, chan[a][b][i]) /\ <<chan[a][b][i].ts, b>> \notin missed
    /\ \A a \in Agent \ {b} : \A m \in wal[a] :
          m.from = a /\ <<m.ts, b>> \in missed => Unheard(b, m)

SentAreLogged ==
  \A m \in sent : m.from \in Agent /\ m \in wal[m.from] /\ m.topic = Event(m.cap)

Traffic == UniqueNumbers /\ LinksRise /\ NotYetHeard /\ SentAreLogged

(* What a message in a log stands for. *)
Genuine(m) ==
  \/ m.topic = Event(m.cap)
  \/ /\ \E c \in Method : m.topic = Request(c)
     /\ m.re \in DOMAIN reqs /\ reqs[m.re].by = m.from
  \/ /\ m.re \in DOMAIN reqs /\ m.topic = Reply(reqs[m.re].by)
     /\ m.from \in Server

AllGenuine == \A a \in Agent : \A m \in wal[a] : Genuine(m)

(* The callbacks of a transport: the one on the reply topic belongs to a request
   of this agent that waits. *)
Callback(b, t) ==
  \/ t[1] = "agent" /\ bus[b][t] = "route"
  \/ t[1] = "request" /\ bus[b][t] = "handle" /\ b \in Server
  \/ /\ t = Reply(b) /\ bus[b][t] \in DOMAIN reqs
     /\ reqs[bus[b][t]].by = b /\ reqs[bus[b][t]].state = "waits"

Callbacks == \A b \in Agent : \A t \in DOMAIN bus[b] : Callback(b, t)

(* An open subscription's topics have a callback. *)
Covered ==
  \A b \in Agent : \A i \in Open(b) : Topics(subs[b][i].caps) \subseteq DOMAIN bus[b]

(* Listens are not of the future, answers are to requests, logs are finite. *)
Bounded ==
  /\ \A b \in Agent : \A i \in DOMAIN subs[b] : subs[b][i].since <= now
  /\ \A k \in DOMAIN reqs : reqs[k].answer \in DOMAIN reqs \cup {0}
  /\ \A a \in Agent : IsFiniteSet(wal[a])

(* No earlier request of its agent waits any more when a request was alone. *)
AloneStays ==
  \A q, k \in DOMAIN reqs :
     k < q /\ reqs[q].by = reqs[k].by /\ reqs[q].alone => reqs[k].state # "waits"

(* The inductive invariant of the mesh with requests. *)
MeshInv == TypeInv /\ Traffic /\ AllGenuine /\ Callbacks /\ Covered /\ Bounded /\ AloneStays

------------------------------------------------------------------------------
(* Sequences. *)

(* What Append does. *)
LEMMA Appended ==
  ASSUME NEW S, NEW s \in Seq(S), NEW x \in S
  PROVE  /\ Append(s, x) \in Seq(S) /\ Len(s) \in Nat /\ Len(Append(s, x)) = Len(s) + 1
         /\ \A i \in 1..(Len(s) + 1) : Append(s, x)[i] = IF i <= Len(s) THEN s[i] ELSE x
         /\ ToSet(Append(s, x)) = ToSet(s) \cup {x}
<1>. DEFINE r == Append(s, x)
            n == Len(s)
<1>1. /\ r \in Seq(S) /\ n \in Nat /\ Len(r) = n + 1 /\ r[n + 1] = x
      /\ \A i \in 1..n : r[i] = s[i]
  OBVIOUS
<1>2. DOMAIN s = 1..n /\ DOMAIN r = 1..(n + 1)
  BY <1>1
<1>. HIDE DEF r, n
<1>3. \A i \in 1..(n + 1) : r[i] = IF i <= n THEN s[i] ELSE x
  <2>1. ASSUME NEW i \in 1..(n + 1)  PROVE r[i] = IF i <= n THEN s[i] ELSE x
    <3>1. i \in 1..n \/ (i = n + 1 /\ ~(i <= n))
      BY <1>1
    <3>2. i \in 1..n => i <= n
      BY <1>1
    <3>. QED  BY <1>1, <3>1, <3>2
  <2>. QED  BY <2>1
<1>4. ToSet(r) = ToSet(s) \cup {x}
  <2>1. \A i \in 1..n : i \in 1..(n + 1)
    BY <1>1
  <2>2. n + 1 \in 1..(n + 1)
    BY <1>1
  <2>3. \A i \in 1..(n + 1) : i \in 1..n \/ i = n + 1
    BY <1>1
  <2>. QED  BY <1>1, <1>2, <2>1, <2>2, <2>3 DEF ToSet
<1>. QED  BY <1>1, <1>3, <1>4 DEF r, n

(* What concatenation does. *)
LEMMA Joined ==
  ASSUME NEW S, NEW a \in Seq(S), NEW b \in Seq(S)
  PROVE  /\ a \o b \in Seq(S)
         /\ Len(a) \in Nat /\ Len(b) \in Nat /\ Len(a \o b) = Len(a) + Len(b)
         /\ \A i \in 1..(Len(a) + Len(b)) :
               (a \o b)[i] = IF i <= Len(a) THEN a[i] ELSE b[i - Len(a)]
OBVIOUS

(* What taking the head does. *)
LEMMA Popped ==
  ASSUME NEW S, NEW s \in Seq(S), s # <<>>
  PROVE  /\ Len(s) \in Nat \ {0} /\ Head(s) = s[1] /\ Head(s) \in S /\ 1 \in 1..Len(s)
         /\ Tail(s) \in Seq(S) /\ Len(Tail(s)) = Len(s) - 1
         /\ \A i \in 1..Len(Tail(s)) :
              i + 1 \in 1..Len(s) /\ Tail(s)[i] = s[i + 1] /\ 1 < i + 1
<1>1. Len(s) \in Nat \ {0}
  OBVIOUS
<1>2. Tail(s) \in Seq(S) /\ Len(Tail(s)) = Len(s) - 1 /\ Head(s) = s[1] /\ Head(s) \in S
  OBVIOUS
<1>3. \A i \in 1..(Len(s) - 1) : Tail(s)[i] = s[i + 1]
  OBVIOUS
<1>4. \A i \in 1..(Len(s) - 1) : i + 1 \in 1..Len(s) /\ 1 < i + 1
  BY <1>1
<1>5. 1 \in 1..Len(s)
  BY <1>1
<1>. QED  BY <1>1, <1>2, <1>3, <1>4, <1>5

(* s with what was heard added to, at most the numbers of X. *)
SameSubs(s, u, X) ==
  /\ u \in Seq(Sub) /\ Len(u) = Len(s)
  /\ \A i \in 1..Len(s) :
       /\ u[i].caps = s[i].caps /\ u[i].open = s[i].open /\ u[i].since = s[i].since
       /\ Heard(s[i]) \subseteq Heard(u[i])
       /\ Heard(u[i]) \subseteq Heard(s[i]) \cup X

(* What the subscriptions together have heard grows by no more than X. *)
LEMMA EarsGrow ==
  ASSUME NEW s \in Seq(Sub), NEW u, NEW X, SameSubs(s, u, X)
  PROVE  Ears(u) \subseteq Ears(s) \cup X
<1>1. DOMAIN u = DOMAIN s /\ DOMAIN s = 1..Len(s)
  BY DEF SameSubs
<1>. QED  BY <1>1 DEF SameSubs, Ears

(* Nothing heard. *)
LEMMA SubsStay ==
  ASSUME NEW s \in Seq(Sub), NEW X  PROVE SameSubs(s, s, X)
BY DEF SameSubs

(* _dispatch of m, live: every subscription that matches hears it. *)
LEMMA DispatchedSubs ==
  ASSUME NEW s \in Seq(Sub), NEW caps, NEW m \in Message
  PROVE  /\ SameSubs(s, Dispatched(s, caps, m), {m.ts})
         /\ \A i \in 1..Len(s) : Matches(s[i], caps) => m.ts \in Heard(Dispatched(s, caps, m)[i])
<1>. DEFINE d == Dispatched(s, caps, m)
<1>1. m.ts \in Nat
  BY DEF Message
<1>2. DOMAIN s = 1..Len(s) /\ Len(s) \in Nat
  OBVIOUS
<1>3. ASSUME NEW i \in 1..Len(s)
      PROVE  /\ d[i] = IF Matches(s[i], caps)
                       THEN [s[i] EXCEPT !.got = Append(@, m.ts)] ELSE s[i]
             /\ s[i] \in Sub
  BY <1>2 DEF Dispatched
<1>4. d = [i \in 1..Len(s) |-> d[i]]
  BY <1>2 DEF Dispatched
<1>. HIDE DEF d
<1>5. ASSUME NEW i \in 1..Len(s)
      PROVE  /\ d[i] \in Sub
             /\ d[i].caps = s[i].caps /\ d[i].open = s[i].open /\ d[i].since = s[i].since
             /\ Heard(d[i]) = IF Matches(s[i], caps) THEN Heard(s[i]) \cup {m.ts} ELSE Heard(s[i])
  <2>. DEFINE g == Append(s[i].got, m.ts)
  <2>1. s[i] \in Sub /\ s[i].got \in Seq(Nat)
    BY <1>3 DEF Sub
  <2>2. g \in Seq(Nat) /\ ToSet(g) = ToSet(s[i].got) \cup {m.ts}
    BY <1>1, <2>1, Appended
  <2>. HIDE DEF g
  <2>3. CASE Matches(s[i], caps)
    <3>1. d[i] = [s[i] EXCEPT !.got = g]
      BY <1>3, <2>3 DEF g
    <3>. QED  BY <2>1, <2>2, <2>3, <3>1 DEF Sub, Heard
  <2>4. CASE ~Matches(s[i], caps)
    BY <1>3, <2>1, <2>4
  <2>. QED  BY <2>3, <2>4
<1>6. d \in Seq(Sub) /\ Len(d) = Len(s)
  BY <1>2, <1>4, <1>5
<1>7. SameSubs(s, d, {m.ts})
  BY <1>5, <1>6 DEF SameSubs
<1>. QED  BY <1>5, <1>7 DEF d

(* Replayed rows: ms lists some of R. *)
LEMMA DispatchedAgainSubs ==
  ASSUME NEW s \in Seq(Sub), NEW R, R \subseteq Message, NEW n \in Nat, NEW ms \in [1..n -> R]
  PROVE  SameSubs(s, DispatchedAgain(s, ms), {m.ts : m \in R})
<1>. DEFINE d == DispatchedAgain(s, ms)
            z == [k \in DOMAIN ms |-> ms[k].ts]
            X == {m.ts : m \in R}
<1>1. z \in Seq(Nat) /\ Len(z) = n /\ \A k \in 1..n : z[k] \in X
  BY DEF Message
<1>2. DOMAIN s = 1..Len(s) /\ Len(s) \in Nat
  OBVIOUS
<1>3. ASSUME NEW i \in 1..Len(s)
      PROVE  /\ d[i] = IF Matches(s[i], ReplayCaps)
                       THEN [s[i] EXCEPT !.got = @ \o z] ELSE s[i]
             /\ s[i] \in Sub
  BY <1>2 DEF DispatchedAgain
<1>4. d = [i \in 1..Len(s) |-> d[i]]
  BY <1>2 DEF DispatchedAgain
<1>. HIDE DEF d, z, X
<1>5. ASSUME NEW i \in 1..Len(s)
      PROVE  /\ d[i] \in Sub
             /\ d[i].caps = s[i].caps /\ d[i].open = s[i].open /\ d[i].since = s[i].since
             /\ Heard(s[i]) \subseteq Heard(d[i]) /\ Heard(d[i]) \subseteq Heard(s[i]) \cup X
  <2>. DEFINE o == s[i].got
              g == o \o z
  <2>1. s[i] \in Sub /\ o \in Seq(Nat)
    BY <1>3 DEF Sub
  <2>2. g \in Seq(Nat) /\ ToSet(o) \subseteq ToSet(g) /\ ToSet(g) \subseteq ToSet(o) \cup X
    <3>. HIDE DEF o
    <3>1. /\ g \in Seq(Nat) /\ Len(g) = Len(o) + n /\ Len(o) \in Nat
          /\ \A j \in 1..(Len(o) + n) : g[j] = IF j <= Len(o) THEN o[j] ELSE z[j - Len(o)]
      <4>1. /\ o \o z \in Seq(Nat)
            /\ Len(o) \in Nat /\ Len(z) \in Nat /\ Len(o \o z) = Len(o) + Len(z)
            /\ \A j \in 1..(Len(o) + Len(z)) :
                  (o \o z)[j] = IF j <= Len(o) THEN o[j] ELSE z[j - Len(o)]
        BY <1>1, <2>1, Joined, Zenon
      <4>. HIDE DEF g
      <4>2. g = o \o z
        BY DEF g
      <4>. QED  BY <1>1, <4>1, <4>2, Zenon
    <3>. HIDE DEF g
    <3>2. DOMAIN o = 1..Len(o) /\ DOMAIN g = 1..(Len(o) + n)
      BY <2>1, <3>1
    <3>3. ASSUME NEW j \in 1..Len(o)  PROVE j \in 1..(Len(o) + n) /\ g[j] = o[j]
      <4>1. j \in 1..(Len(o) + n) /\ j <= Len(o)
        BY <3>1
      <4>. QED  BY <3>1, <4>1
    <3>4. ASSUME NEW j \in 1..(Len(o) + n)
          PROVE  (j \in 1..Len(o) /\ g[j] = o[j]) \/ g[j] \in X
      <4>1. CASE j <= Len(o)
        <5>1. j \in 1..Len(o)
          BY <3>1, <4>1
        <5>. QED  BY <3>1, <4>1, <5>1
      <4>2. CASE ~(j <= Len(o))
        <5>1. j - Len(o) \in 1..n
          BY <3>1, <4>2
        <5>. QED  BY <1>1, <3>1, <4>2, <5>1
      <4>. QED  BY <4>1, <4>2
    <3>. QED  BY <3>1, <3>2, <3>3, <3>4 DEF ToSet
  <2>. HIDE DEF g
  <2>3. CASE Matches(s[i], ReplayCaps)
    <3>1. d[i] = [s[i] EXCEPT !.got = g]
      BY <1>3, <2>3 DEF g
    <3>. QED  BY <2>1, <2>2, <3>1 DEF Sub, Heard
  <2>4. CASE ~Matches(s[i], ReplayCaps)
    BY <1>3, <2>1, <2>4
  <2>. QED  BY <2>3, <2>4
<1>6. d \in Seq(Sub) /\ Len(d) = Len(s)
  BY <1>2, <1>4, <1>5
<1>. QED  BY <1>5, <1>6 DEF SameSubs, d, X

------------------------------------------------------------------------------
(* What the operations on a message do. *)

(* The three kinds of topics are told apart by their first part. *)
LEMMA Kinds ==
  /\ \A x : Event(x)[1] = "agent" /\ Request(x)[1] = "request" /\ Reply(x)[1] = "reply"
  /\ \A x, y : Event(x) = Event(y) => x = y
  /\ \A x, y : Request(x) = Request(y) => x = y
  /\ \A x, y : Reply(x) = Reply(y) => x = y
BY DEF Event, Request, Reply

(* The gate's count stays within the limit. *)
LEMMA CountedTyped ==
  ASSUME passed \in [Agent -> [Agent -> 0..RateLimit]], NEW b \in Agent,
         NEW m, m.from \in Agent
  PROVE  Counted(b, m) \in [Agent -> [Agent -> 0..RateLimit]]
<1>. DEFINE n == Min({passed[b][m.from] + 1, RateLimit})
<1>1. RateLimit \in Nat /\ passed[b][m.from] \in 0..RateLimit
  BY RateAssumption
<1>2. n \in 0..RateLimit
  <2>1. \E x \in {passed[b][m.from] + 1, RateLimit} :
          \A y \in {passed[b][m.from] + 1, RateLimit} : x =< y
    BY <1>1
  <2>2. n \in {passed[b][m.from] + 1, RateLimit} /\ n =< RateLimit
    BY <2>1 DEF Min
  <2>. QED  BY <1>1, <2>2
<1>3. Counted(b, m) = [passed EXCEPT ![b][m.from] = n]
  BY DEF Counted
<1>. QED  BY <1>2, <1>3

(* At b, what was heard grows by the numbers of X at most, and nowhere else. *)
HeardAt(b, X) ==
  /\ subs' \in [Agent -> Seq(Sub)]
  /\ SameSubs(subs[b], subs'[b], X)
  /\ \A x \in Agent : x # b => subs'[x] = subs[x]

(* b takes m, logs it on top of the logs w, and its subscriptions hear it. *)
Accepts(b, m, w, lost) ==
  /\ wal' = [w EXCEPT ![b] = @ \cup {m}]
  /\ last' = [last EXCEPT ![b] = m.ts]
  /\ subs' = [subs EXCEPT ![b] = Dispatched(subs[b], {m.cap}, m)]
  /\ missed' = missed \cup lost

(* m goes past b. *)
Ignores(b, m, w, lost) ==
  /\ wal' = w /\ last' = last /\ subs' = subs
  /\ missed \cup lost \subseteq missed'
  /\ missed' \subseteq missed \cup lost \cup {<<m.ts, b>>}

(* An event that comes to b. *)
LEMMA Arrives ==
  ASSUME subs \in [Agent -> Seq(Sub)], passed \in [Agent -> [Agent -> 0..RateLimit]],
         NEW b \in Agent, NEW m \in Message, NEW w, NEW lost,
         RouteMessage(b, m, w, lost) \/ NobodyListens(w, lost)
  PROVE  /\ Accepts(b, m, w, lost) \/ Ignores(b, m, w, lost)
         /\ passed' \in [Agent -> [Agent -> 0..RateLimit]]
         /\ HeardAt(b, {m.ts})
<1>1. m.from \in Agent
  BY DEF Message
<1>2. SameSubs(subs[b], Dispatched(subs[b], {m.cap}, m), {m.ts})
  BY DispatchedSubs
<1>3. CASE TRUE \in Verdicts(b, m) /\ passed' = Counted(b, m) /\ Accepts(b, m, w, lost)
  <2>1. Dispatched(subs[b], {m.cap}, m) \in Seq(Sub)
    BY <1>2 DEF SameSubs
  <2>2. passed' \in [Agent -> [Agent -> 0..RateLimit]]
    BY <1>1, <1>3, CountedTyped
  <2>3. HeardAt(b, {m.ts})
    BY <1>2, <1>3, <2>1 DEF HeardAt, Accepts
  <2>. QED  BY <1>3, <2>2, <2>3
<1>4. CASE Ignores(b, m, w, lost) /\ passed' = passed
  BY <1>4, SubsStay DEF Ignores, HeardAt
<1>5. CASE RouteMessage(b, m, w, lost)
  BY <1>3, <1>4, <1>5 DEF RouteMessage, Accepts, Ignores
<1>6. CASE NobodyListens(w, lost)
  BY <1>4, <1>6 DEF NobodyListens, Ignores
<1>. QED  BY <1>5, <1>6

(* No request changes but in its answer. *)
SameReqs ==
  /\ reqs' \in Seq(Req) /\ DOMAIN reqs' = DOMAIN reqs
  /\ \A k \in DOMAIN reqs : /\ reqs'[k].by = reqs[k].by /\ reqs'[k].state = reqs[k].state
                            /\ reqs'[k].alone = reqs[k].alone

(* The request h of b, which waits, gets the answer to q, one of b too. *)
Gets(b, h, q) ==
  /\ h \in DOMAIN reqs /\ reqs[h].by = b /\ reqs[h].state = "waits"
  /\ q \in DOMAIN reqs /\ reqs[q].by = b
  /\ reqs' = [reqs EXCEPT ![h].answer = q]

(* An answer that comes to b. *)
LEMMA AnswerArrives ==
  ASSUME reqs \in Seq(Req), passed \in [Agent -> [Agent -> 0..RateLimit]], Callbacks,
         NEW b \in Agent, NEW m \in Message, Genuine(m), m.topic[1] = "reply",
         TakeReply(b, m)
  PROVE  /\ passed' \in [Agent -> [Agent -> 0..RateLimit]]
         /\ SameReqs
         /\ m.re \in DOMAIN reqs /\ m.topic = Reply(reqs[m.re].by)
         /\ \/ UNCHANGED reqs
            \/ Reply(b) \in DOMAIN bus[b] /\ Gets(b, bus[b][Reply(b)], m.re)
<1>1. m.re \in DOMAIN reqs /\ m.topic = Reply(reqs[m.re].by) /\ m.from \in Agent
  BY Kinds DEF Genuine, Message
<1>2. DOMAIN reqs = 1..Len(reqs) /\ DOMAIN reqs \subseteq Nat
  OBVIOUS
<1>3. CASE m.topic \in DOMAIN bus[b] /\ passed' = Counted(b, m)
           /\ reqs' = [reqs EXCEPT ![bus[b][m.topic]].answer = m.re]
  <2>. DEFINE h == bus[b][m.topic]
  <2>1. Callback(b, m.topic)
    BY <1>3 DEF Callbacks
  <2>2. m.topic = Reply(b) /\ h \in DOMAIN reqs /\ reqs[h].by = b /\ reqs[h].state = "waits"
    BY <2>1 DEF Callback
  <2>3. reqs[m.re].by = b
    BY <1>1, <2>2, Kinds
  <2>. HIDE DEF h
  <2>4. reqs' = [reqs EXCEPT ![h].answer = m.re]
    BY <1>3 DEF h
  <2>5. Gets(b, h, m.re)
    BY <1>1, <2>2, <2>3, <2>4 DEF Gets
  <2>6. reqs[h] \in Req /\ m.re \in Nat
    BY <1>1, <1>2, <2>2
  <2>7. [reqs[h] EXCEPT !.answer = m.re] \in Req
    BY ONLY <2>6 DEF Req
  <2>8. reqs' = [reqs EXCEPT ![h] = [reqs[h] EXCEPT !.answer = m.re]]
    BY <2>4
  <2>9. reqs' \in Seq(Req) /\ DOMAIN reqs' = DOMAIN reqs
    BY <2>2, <2>7, <2>8
  <2>10. ASSUME NEW k \in DOMAIN reqs
         PROVE  /\ reqs'[k].by = reqs[k].by /\ reqs'[k].state = reqs[k].state
                /\ reqs'[k].alone = reqs[k].alone
    <3>1. reqs[k] \in Req
      BY <2>10
    <3>2. reqs'[k] = reqs[k] \/ reqs'[k] = [reqs[k] EXCEPT !.answer = m.re]
      BY <2>8
    <3>. QED  BY ONLY <3>1, <3>2 DEF Req
  <2>. QED  BY <1>1, <1>3, <2>2, <2>5, <2>9, <2>10, CountedTyped DEF SameReqs, h
<1>4. CASE UNCHANGED <<passed, reqs>>
  BY <1>1, <1>4 DEF SameReqs
<1>. QED  BY <1>3, <1>4 DEF TakeReply

------------------------------------------------------------------------------
(* The traffic of messages, for each way in which a step changes it. *)

(* What a message of a link is. *)
LEMMA OnLink ==
  ASSUME TypeInv, Traffic, NEW a \in Agent, NEW b \in Agent, NEW i \in 1..Len(chan[a][b])
  PROVE  /\ chan[a][b] \in Seq(Message) /\ Len(chan[a][b]) \in Nat
         /\ chan[a][b][i] \in Message /\ chan[a][b][i] \in wal[a] /\ chan[a][b][i].from = a
         /\ chan[a][b][i].ts \in 1..now /\ a # b
         /\ Unheard(b, chan[a][b][i]) /\ <<chan[a][b][i].ts, b>> \notin missed
<1>1. chan[a][b] \in Seq(Message) /\ Len(chan[a][b]) \in Nat
  BY DEF TypeInv
<1>2. chan[a][b][i] \in wal[a] /\ chan[a][b][i].from = a
  BY DEF Traffic, LinksRise
<1>3. wal[a] \subseteq Message
  BY DEF TypeInv
<1>4. a # b
  <2>1. ASSUME a = b  PROVE FALSE
    <3>1. chan[a][b] = <<>>
      BY <2>1 DEF Traffic, LinksRise
    <3>2. Len(chan[a][b]) = 0
      BY <3>1
    <3>. QED  BY <3>2
  <2>. QED  BY <2>1
<1>5. chan[a][b][i].ts \in 1..now
  BY <1>2 DEF Traffic, UniqueNumbers
<1>6. Unheard(b, chan[a][b][i]) /\ <<chan[a][b][i].ts, b>> \notin missed
  BY DEF Traffic, NotYetHeard
<1>. QED  BY <1>1, <1>2, <1>3, <1>4, <1>5, <1>6

(* a sends the new message m; X are those who miss it. *)
Sends(a, m, X) ==
  /\ m \in Message /\ m.from = a /\ m.ts = now + 1
  /\ now' = now + 1
  /\ wal' = Logged(a, m)
  /\ chan' = Broadcast(a, m)
  /\ links' = links
  /\ \A x \in X : x = a \/ Pair(a, x) \notin links
  /\ missed \subseteq missed' /\ missed' \subseteq missed \cup {<<m.ts, x>> : x \in X}
  /\ sent' = sent \/ (sent' = sent \cup {m} /\ m.topic = Event(m.cap))

(* What goes out on the links: every message of the new link is one of the old
   or, at its end, m. *)
LEMMA GoesOut ==
  ASSUME TypeInv, Traffic, NEW a \in Agent, NEW m \in Message,
         chan' = Broadcast(a, m)
  PROVE  /\ chan' \in [Agent -> [Agent -> Seq(Message)]]
         /\ \A x, y \in Agent :
              \/ chan'[x][y] = chan[x][y] /\ ~(x = a /\ Pair(a, y) \in links)
              \/ x = a /\ Pair(a, y) \in links /\ chan'[x][y] = Append(chan[a][y], m)
         /\ \A x, y \in Agent : \A i \in 1..Len(chan'[x][y]) :
              \/ i \in 1..Len(chan[x][y]) /\ chan'[x][y][i] = chan[x][y][i]
              \/ /\ x = a /\ Pair(a, y) \in links /\ y # a
                 /\ i = Len(chan[a][y]) + 1 /\ chan'[x][y][i] = m
<1>1. chan \in [Agent -> [Agent -> Seq(Message)]]
  BY DEF TypeInv
<1>2. chan' = [chan EXCEPT ![a] =
                [y \in Agent |-> IF Pair(a, y) \in links THEN Append(chan[a][y], m)
                                                         ELSE chan[a][y]]]
  BY DEF Broadcast
<1>3. \A y \in Agent : Append(chan[a][y], m) \in Seq(Message)
  BY <1>1, Appended
<1>4. chan' \in [Agent -> [Agent -> Seq(Message)]]
  BY <1>1, <1>2, <1>3
<1>5. \A x, y \in Agent :
        \/ chan'[x][y] = chan[x][y] /\ ~(x = a /\ Pair(a, y) \in links)
        \/ x = a /\ Pair(a, y) \in links /\ chan'[x][y] = Append(chan[a][y], m)
  BY <1>1, <1>2
<1>6. ASSUME NEW x \in Agent, NEW y \in Agent, NEW i \in 1..Len(chan'[x][y])
      PROVE  \/ i \in 1..Len(chan[x][y]) /\ chan'[x][y][i] = chan[x][y][i]
             \/ /\ x = a /\ Pair(a, y) \in links /\ y # a
                /\ i = Len(chan[a][y]) + 1 /\ chan'[x][y][i] = m
  <2>1. CASE chan'[x][y] = chan[x][y]
    BY <2>1
  <2>2. CASE x = a /\ Pair(a, y) \in links /\ chan'[x][y] = Append(chan[a][y], m)
    <3>. DEFINE s == chan[a][y]
    <3>1. s \in Seq(Message)
      BY <1>1
    <3>2. y # a
      BY <2>2 DEF Traffic, LinksRise
    <3>. HIDE DEF s
    <3>3. /\ Len(s) \in Nat /\ Len(Append(s, m)) = Len(s) + 1
          /\ \A j \in 1..(Len(s) + 1) : Append(s, m)[j] = IF j <= Len(s) THEN s[j] ELSE m
      BY <3>1, Appended
    <3>4. chan'[x][y] = Append(s, m)
      BY <2>2 DEF s
    <3>5. i \in 1..(Len(s) + 1)
      BY <3>3, <3>4
    <3>6. CASE i <= Len(s)
      <4>1. i \in 1..Len(s)
        BY <3>3, <3>5, <3>6
      <4>. QED  BY <2>2, <3>3, <3>4, <3>5, <3>6, <4>1 DEF s
    <3>7. CASE ~(i <= Len(s))
      <4>1. i = Len(s) + 1
        BY <3>3, <3>5, <3>7
      <4>. QED  BY <2>2, <3>2, <3>3, <3>4, <3>5, <3>7, <4>1 DEF s
    <3>. QED  BY <3>6, <3>7
  <2>. QED  BY <1>5, <2>1, <2>2
<1>. QED  BY <1>4, <1>5, <1>6

(* Numbers stay unique, and links rise, when a sends m. *)
LEMMA TrafficSends ==
  ASSUME TypeInv, Traffic, NEW a \in Agent, NEW m, NEW X, Sends(a, m, X),
         Ears(subs'[a]) \subseteq Ears(subs[a]) \cup {m.ts},
         \A x \in Agent : x # a => Ears(subs'[x]) \subseteq Ears(subs[x])
  PROVE  Traffic'
<1>1. /\ m \in Message /\ m.from = a /\ m.ts = now + 1 /\ now' = now + 1 /\ now \in Nat
      /\ chan' = Broadcast(a, m) /\ links' = links
      /\ \A x \in X : x = a \/ Pair(a, x) \notin links
      /\ missed' \subseteq missed \cup {<<m.ts, x>> : x \in X}
      /\ sent' = sent \/ (sent' = sent \cup {m} /\ m.topic = Event(m.cap))
  BY BoundAssumption DEF Sends, TypeInv
<1>2. /\ \A x \in Agent : x # a => wal'[x] = wal[x]
      /\ wal'[a] = wal[a] \cup {m}
      /\ \A x \in Agent : wal[x] \subseteq wal'[x]
  BY DEF Sends, Logged, TypeInv
<1>3. \A x \in Agent : \A k \in wal[x] :
         k.ts \in 1..now /\ k.ts # m.ts /\ k \in Message /\ k.from \in Agent /\ k \in wal[k.from]
  <2>. SUFFICES ASSUME NEW x \in Agent, NEW k \in wal[x]
                PROVE  /\ k.ts \in 1..now /\ k.ts # m.ts /\ k \in Message
                       /\ k.from \in Agent /\ k \in wal[k.from]
    OBVIOUS
  <2>1. k.ts \in 1..now /\ k \in wal[k.from]
    BY DEF Traffic, UniqueNumbers
  <2>2. k \in Message
    BY DEF TypeInv
  <2>3. k.from \in Agent
    BY <2>2 DEF Message
  <2>4. k.ts # now + 1
    BY <1>1, <2>1
  <2>. QED  BY <1>1, <2>1, <2>2, <2>3, <2>4
<1>4. UniqueNumbers'
  <2>1. ASSUME NEW x \in Agent, NEW k \in wal'[x]  PROVE k.ts \in 1..now' /\ k \in wal'[k.from]
    <3>1. k \in wal[x] \/ k = m
      BY <1>2
    <3>2. CASE k \in wal[x]
      <4>1. k.ts \in 1..now /\ k.from \in Agent /\ k \in wal[k.from]
        BY <1>3, <3>2
      <4>. QED  BY <1>1, <1>2, <4>1
    <3>3. CASE k = m
      BY <1>1, <1>2, <3>3
    <3>. QED  BY <3>1, <3>2, <3>3
  <2>2. ASSUME NEW x \in Agent, NEW y \in Agent, NEW k \in wal'[x], NEW l \in wal'[y], k.ts = l.ts
        PROVE  k = l
    <3>1. (k \in wal[x] \/ k = m) /\ (l \in wal[y] \/ l = m)
      BY <1>2
    <3>. QED  BY <1>3, <2>2, <3>1 DEF Traffic, UniqueNumbers
  <2>. QED  BY <2>1, <2>2 DEF UniqueNumbers
<1>5. \A x, y \in Agent : \A i \in 1..Len(chan'[x][y]) :
        \/ i \in 1..Len(chan[x][y]) /\ chan'[x][y][i] = chan[x][y][i]
        \/ /\ x = a /\ Pair(a, y) \in links /\ y # a
           /\ i = Len(chan[a][y]) + 1 /\ chan'[x][y][i] = m
  BY <1>1, GoesOut
<1>6. \A x, y \in Agent : Len(chan[x][y]) \in Nat
  BY DEF TypeInv
<1>7. LinksRise'
  <2>1. ASSUME NEW x \in Agent  PROVE chan'[x][x] = <<>> /\ Pair(x, x) \notin links'
    <3>1. chan[x][x] = <<>> /\ Pair(x, x) \notin links
      BY DEF Traffic, LinksRise
    <3>2. \/ chan'[x][x] = chan[x][x] /\ ~(x = a /\ Pair(a, x) \in links)
          \/ x = a /\ Pair(a, x) \in links
      BY <1>1, GoesOut
    <3>. QED  BY <1>1, <3>1, <3>2
  <2>2. ASSUME NEW x \in Agent, NEW y \in Agent, NEW i \in 1..Len(chan'[x][y])
        PROVE  /\ chan'[x][y][i] \in wal'[x] /\ chan'[x][y][i].from = x
               /\ \A j \in 1..Len(chan'[x][y]) : i < j => chan'[x][y][i].ts < chan'[x][y][j].ts
    <3>1. CASE i \in 1..Len(chan[x][y]) /\ chan'[x][y][i] = chan[x][y][i]
      <4>1. /\ chan[x][y][i] \in wal[x] /\ chan[x][y][i].from = x /\ chan[x][y][i].ts \in 1..now
            /\ \A j \in 1..Len(chan[x][y]) : i < j => chan[x][y][i].ts < chan[x][y][j].ts
        <5>1. chan[x][y][i].ts \in 1..now
          BY <3>1, OnLink
        <5>. QED  BY <3>1, <5>1 DEF Traffic, LinksRise
      <4>2. ASSUME NEW j \in 1..Len(chan'[x][y]), i < j
            PROVE  chan'[x][y][i].ts < chan'[x][y][j].ts
        <5>1. CASE j \in 1..Len(chan[x][y]) /\ chan'[x][y][j] = chan[x][y][j]
          BY <3>1, <4>1, <4>2, <5>1
        <5>2. CASE chan'[x][y][j] = m
          BY <1>1, <3>1, <4>1, <5>2
        <5>. QED  BY <1>5, <5>1, <5>2
      <4>. QED  BY <1>2, <3>1, <4>1, <4>2
    <3>2. CASE /\ x = a /\ Pair(a, y) \in links /\ y # a
               /\ i = Len(chan[a][y]) + 1 /\ chan'[x][y][i] = m
      <4>1. ASSUME NEW j \in 1..Len(chan'[x][y]), i < j  PROVE FALSE
        <5>1. j \in 1..Len(chan[x][y]) \/ j = Len(chan[a][y]) + 1
          BY <1>5
        <5>. QED  BY <1>6, <3>2, <4>1, <5>1
      <4>. QED  BY <1>1, <1>2, <3>2, <4>1
    <3>. QED  BY <1>5, <3>1, <3>2
  <2>. QED  BY <2>1, <2>2 DEF LinksRise
<1>8. NotYetHeard'
  <2>1. ASSUME NEW b \in Agent  PROVE Ears(subs'[b]) \subseteq 1..now'
    <3>1. Ears(subs[b]) \subseteq 1..now
      BY DEF Traffic, NotYetHeard
    <3>2. Ears(subs'[b]) \subseteq Ears(subs[b]) \cup {now + 1}
      BY <1>1
    <3>. QED  BY <1>1, <3>1, <3>2
  <2>2. ASSUME NEW b \in Agent, NEW k \in Message, k.ts \in 1..now, Unheard(b, k)
        PROVE  k \notin wal'[b] /\ k.ts \notin Ears(subs'[b])
    <3>1. k.ts # m.ts /\ k \notin wal[b] /\ k.ts \notin Ears(subs[b])
      BY <1>1, <2>2 DEF Unheard
    <3>. QED  BY <1>2, <3>1
  <2>3. ASSUME NEW b \in Agent, b # a  PROVE m \notin wal'[b] /\ m.ts \notin Ears(subs'[b])
    <3>1. m \notin wal[b]
      BY <1>3
    <3>2. Ears(subs[b]) \subseteq 1..now /\ m.ts \notin 1..now
      BY <1>1 DEF Traffic, NotYetHeard
    <3>. QED  BY <1>2, <2>3, <3>1, <3>2
  <2>4. ASSUME NEW x \in Agent, NEW b \in Agent, NEW i \in 1..Len(chan'[x][b])
        PROVE  /\ chan'[x][b][i] \notin wal'[b] /\ chan'[x][b][i].ts \notin Ears(subs'[b])
               /\ <<chan'[x][b][i].ts, b>> \notin missed'
    <3>1. CASE i \in 1..Len(chan[x][b]) /\ chan'[x][b][i] = chan[x][b][i]
      <4>. DEFINE k == chan[x][b][i]
      <4>1. k \in Message /\ k.ts \in 1..now /\ Unheard(b, k) /\ <<k.ts, b>> \notin missed
        BY <3>1, OnLink
      <4>. HIDE DEF k
      <4>2. k.ts # m.ts
        BY <1>1, <4>1
      <4>3. <<k.ts, b>> \notin missed'
        BY <1>1, <4>1, <4>2
      <4>4. k \notin wal'[b] /\ k.ts \notin Ears(subs'[b])
        BY <2>2, <4>1
      <4>. QED  BY <3>1, <4>3, <4>4 DEF k
    <3>2. CASE /\ x = a /\ Pair(a, b) \in links /\ b # a
               /\ i = Len(chan[a][b]) + 1 /\ chan'[x][b][i] = m
      <4>1. <<m.ts, b>> \notin missed
        BY <1>1 DEF TypeInv
      <4>2. b \notin X
        BY <1>1, <3>2
      <4>3. <<m.ts, b>> \notin missed'
        BY <1>1, <4>1, <4>2
      <4>. QED  BY <2>3, <3>2, <4>3
    <3>. QED  BY <1>5, <3>1, <3>2
  <2>5. ASSUME NEW b \in Agent, NEW x \in Agent \ {b}, NEW k \in wal'[x],
               k.from = x, <<k.ts, b>> \in missed'
        PROVE  k \notin wal'[b] /\ k.ts \notin Ears(subs'[b])
    <3>1. CASE k \in wal[x]
      <4>1. k.ts \in 1..now /\ k.ts # m.ts /\ k \in Message
        BY <1>3, <3>1
      <4>2. <<k.ts, b>> \in missed
        BY <1>1, <2>5, <4>1
      <4>3. Unheard(b, k)
        BY <2>5, <3>1, <4>2 DEF Traffic, NotYetHeard
      <4>. QED  BY <2>2, <4>1, <4>3
    <3>2. CASE k = m
      <4>1. b # a
        BY <1>1, <2>5, <3>2
      <4>. QED  BY <2>3, <3>2, <4>1
    <3>. QED  BY <1>2, <3>1, <3>2
  <2>. QED  BY <2>1, <2>4, <2>5 DEF NotYetHeard, Unheard
<1>9. SentAreLogged'
  <2>1. ASSUME NEW k \in sent'
        PROVE  k.from \in Agent /\ k \in wal'[k.from] /\ k.topic = Event(k.cap)
    <3>1. CASE k \in sent
      BY <1>2, <3>1 DEF Traffic, SentAreLogged
    <3>2. CASE k \notin sent
      BY <1>1, <1>2, <3>2
    <3>. QED  BY <3>1, <3>2
  <2>. QED  BY <2>1 DEF SentAreLogged
<1>. QED  BY <1>4, <1>7, <1>8, <1>9 DEF Traffic

(* b reads the oldest message m of the link from a: it logs and hears it, or it
   goes past b, who then may have missed it. *)
Reads(a, b, m) ==
  /\ chan[a][b] # <<>> /\ m = Head(chan[a][b])
  /\ chan' = [chan EXCEPT ![a][b] = Tail(@)]
  /\ now' = now /\ links' = links /\ sent' = sent
  /\ \/ /\ wal' = wal /\ subs' = subs
        /\ missed \subseteq missed' /\ missed' \subseteq missed \cup {<<m.ts, b>>}
     \/ /\ wal' = [wal EXCEPT ![b] = @ \cup {m}] /\ missed' = missed
        /\ Ears(subs'[b]) \subseteq Ears(subs[b]) \cup {m.ts}
        /\ \A x \in Agent : x # b => Ears(subs'[x]) \subseteq Ears(subs[x])

(* The link from a to b has lost its head m; the messages left come after it. *)
Shrunk(a, b, m) ==
  /\ chan' \in [Agent -> [Agent -> Seq(Message)]]
  /\ m = chan[a][b][1] /\ 1 \in 1..Len(chan[a][b])
  /\ \A x, y \in Agent : ~(x = a /\ y = b) => chan'[x][y] = chan[x][y]
  /\ Len(chan'[a][b]) = Len(chan[a][b]) - 1 /\ Len(chan[a][b]) \in Nat
  /\ \A i \in 1..Len(chan'[a][b]) :
       /\ i + 1 \in 1..Len(chan[a][b]) /\ chan'[a][b][i] = chan[a][b][i + 1]
       /\ m.ts < chan'[a][b][i].ts
  /\ \A x, y \in Agent : \A i \in 1..Len(chan'[x][y]) :
       \E j \in 1..Len(chan[x][y]) : /\ chan'[x][y][i] = chan[x][y][j]
                                     /\ x = a /\ y = b => 1 < j

(* b has read the first message of its link from a. *)
LEMMA ReadsHead ==
  ASSUME TypeInv, Traffic, NEW a \in Agent, NEW b \in Agent, chan[a][b] # <<>>,
         chan' = [chan EXCEPT ![a][b] = Tail(@)]
  PROVE  Shrunk(a, b, Head(chan[a][b]))
<1>. DEFINE m == Head(chan[a][b])
<1>. DEFINE s == chan[a][b]
<1>1. chan \in [Agent -> [Agent -> Seq(Message)]] /\ s \in Seq(Message)
  BY DEF TypeInv
<1>2. chan' = [chan EXCEPT ![a] = [chan[a] EXCEPT ![b] = Tail(s)]]
  OBVIOUS
<1>. HIDE DEF s
<1>3. /\ Len(s) \in Nat \ {0} /\ Head(s) = s[1] /\ 1 \in 1..Len(s)
      /\ Tail(s) \in Seq(Message) /\ Len(Tail(s)) = Len(s) - 1
      /\ \A i \in 1..Len(Tail(s)) :
           i + 1 \in 1..Len(s) /\ Tail(s)[i] = s[i + 1] /\ 1 < i + 1
  <2>1. s # <<>>
    BY DEF s
  <2>. QED  BY <1>1, <2>1, Popped
<1>4. /\ chan' \in [Agent -> [Agent -> Seq(Message)]] /\ chan'[a][b] = Tail(s)
      /\ \A x, y \in Agent : ~(x = a /\ y = b) => chan'[x][y] = chan[x][y]
  BY <1>1, <1>2, <1>3
<1>5. \A i \in 1..Len(chan'[a][b]) :
        /\ i + 1 \in 1..Len(s) /\ chan'[a][b][i] = s[i + 1] /\ m.ts < chan'[a][b][i].ts
  <2>1. \A i, j \in 1..Len(s) : i < j => s[i].ts < s[j].ts
    BY DEF s, Traffic, LinksRise
  <2>2. m = s[1]
    BY <1>3 DEF s
  <2>3. ASSUME NEW i \in 1..Len(chan'[a][b])
        PROVE  i + 1 \in 1..Len(s) /\ chan'[a][b][i] = s[i + 1] /\ 1 < i + 1
    BY <1>3, <1>4
  <2>4. ASSUME NEW i \in 1..Len(chan'[a][b])  PROVE m.ts < chan'[a][b][i].ts
    <3>1. s[1].ts < s[i + 1].ts
      BY <1>3, <2>1, <2>3
    <3>. QED  BY <2>2, <2>3, <3>1
  <2>. QED  BY <2>3, <2>4
<1>6. ASSUME NEW x \in Agent, NEW y \in Agent, NEW i \in 1..Len(chan'[x][y])
      PROVE  \E j \in 1..Len(chan[x][y]) : /\ chan'[x][y][i] = chan[x][y][j]
                                           /\ x = a /\ y = b => 1 < j
  <2>1. CASE x = a /\ y = b
    <3>1. i + 1 \in 1..Len(s) /\ chan'[x][y][i] = s[i + 1] /\ 1 < i + 1
      BY <1>3, <1>4, <1>5, <2>1
    <3>. QED  BY <2>1, <3>1 DEF s
  <2>2. CASE ~(x = a /\ y = b)
    BY <1>4, <2>2
  <2>. QED  BY <2>1, <2>2
<1>. QED  BY <1>3, <1>4, <1>5, <1>6 DEF s, Shrunk

(* What has come to nobody has been heard by nobody when b has read m too. *)
LEMMA TrafficReads ==
  ASSUME TypeInv, Traffic, NEW a \in Agent, NEW b \in Agent, NEW m, Reads(a, b, m)
  PROVE  Traffic'
<1>1. /\ chan[a][b] # <<>> /\ m = Head(chan[a][b]) /\ chan' = [chan EXCEPT ![a][b] = Tail(@)]
      /\ now' = now /\ links' = links /\ sent' = sent
  BY DEF Reads
<1>2. /\ m = chan[a][b][1] /\ 1 \in 1..Len(chan[a][b])
      /\ \A x, y \in Agent : ~(x = a /\ y = b) => chan'[x][y] = chan[x][y]
      /\ Len(chan'[a][b]) = Len(chan[a][b]) - 1 /\ Len(chan[a][b]) \in Nat
      /\ \A i \in 1..Len(chan'[a][b]) :
           /\ i + 1 \in 1..Len(chan[a][b]) /\ chan'[a][b][i] = chan[a][b][i + 1]
           /\ m.ts < chan'[a][b][i].ts
      /\ \A x, y \in Agent : \A i \in 1..Len(chan'[x][y]) :
           \E j \in 1..Len(chan[x][y]) : /\ chan'[x][y][i] = chan[x][y][j]
                                         /\ x = a /\ y = b => 1 < j
  <2>1. Shrunk(a, b, m)
    BY <1>1, ReadsHead
  <2>. QED  BY <2>1 DEF Shrunk
<1>3. /\ m \in Message /\ m \in wal[a] /\ m.from = a /\ m.ts \in 1..now /\ a # b
      /\ Unheard(b, m) /\ <<m.ts, b>> \notin missed
  BY <1>2, OnLink
<1>4. /\ \A x \in Agent : x # b => wal'[x] = wal[x]
      /\ \A x \in Agent : Ears(subs'[x]) \subseteq Ears(subs[x]) \cup (IF x = b THEN {m.ts} ELSE {})
      /\ \A x \in Agent : wal[x] \subseteq wal'[x]
      /\ \/ /\ wal'[b] = wal[b] /\ subs' = subs
            /\ missed' \subseteq missed \cup {<<m.ts, b>>}
         \/ /\ wal'[b] = wal[b] \cup {m} /\ missed' = missed
  <2>1. wal \in [Agent -> SUBSET Message]
    BY DEF TypeInv
  <2>2. CASE wal' = wal /\ subs' = subs /\ missed' \subseteq missed \cup {<<m.ts, b>>}
    BY <2>2
  <2>3. CASE /\ wal' = [wal EXCEPT ![b] = @ \cup {m}] /\ missed' = missed
             /\ Ears(subs'[b]) \subseteq Ears(subs[b]) \cup {m.ts}
             /\ \A x \in Agent : x # b => Ears(subs'[x]) \subseteq Ears(subs[x])
    <3>1. ASSUME NEW x \in Agent
          PROVE  Ears(subs'[x]) \subseteq Ears(subs[x]) \cup (IF x = b THEN {m.ts} ELSE {})
      BY <2>3
    <3>2. wal'[b] = wal[b] \cup {m} /\ \A x \in Agent : x # b => wal'[x] = wal[x]
      BY <2>1, <2>3
    <3>3. \A x \in Agent : wal[x] \subseteq wal'[x]
      BY <3>2
    <3>. QED  BY <2>3, <3>1, <3>2, <3>3
  <2>. QED  BY <2>2, <2>3 DEF Reads
<1>5. \A x, y \in Agent : \A i \in 1..Len(chan'[x][y]) :
        /\ chan'[x][y][i] \in wal[x] /\ chan'[x][y][i].from = x
        /\ chan'[x][y][i].ts \in 1..now
        /\ Unheard(y, chan'[x][y][i]) /\ <<chan'[x][y][i].ts, y>> \notin missed
  <2>1. ASSUME NEW x \in Agent, NEW y \in Agent, NEW i \in 1..Len(chan'[x][y])
        PROVE  /\ chan'[x][y][i] \in wal[x] /\ chan'[x][y][i].from = x
               /\ chan'[x][y][i].ts \in 1..now
               /\ Unheard(y, chan'[x][y][i]) /\ <<chan'[x][y][i].ts, y>> \notin missed
    <3>1. PICK j \in 1..Len(chan[x][y]) : chan'[x][y][i] = chan[x][y][j]
      BY <1>2
    <3>2. /\ chan[x][y][j] \in wal[x] /\ chan[x][y][j].from = x /\ chan[x][y][j].ts \in 1..now
          /\ Unheard(y, chan[x][y][j]) /\ <<chan[x][y][j].ts, y>> \notin missed
      BY OnLink
    <3>. QED  BY <3>1, <3>2
  <2>. QED  BY <2>1
<1>6. UniqueNumbers'
  <2>1. \A x \in Agent : \A k \in wal'[x] :
          \E y \in Agent : k \in wal[y] /\ k.ts \in 1..now /\ k \in wal[k.from] /\ k.from \in Agent
    <3>1. \A x \in Agent : \A k \in wal'[x] : k \in wal[x] \/ k \in wal[a]
      BY <1>3, <1>4
    <3>2. \A y \in Agent : \A k \in wal[y] : k.ts \in 1..now /\ k \in wal[k.from] /\ k.from \in Agent
      BY DEF Traffic, UniqueNumbers, TypeInv, Message
    <3>. QED  BY <3>1, <3>2
  <2>2. \A x \in Agent : \A k \in wal'[x] : k.ts \in 1..now' /\ k \in wal'[k.from]
    BY <1>1, <1>4, <2>1
  <2>3. \A x, y \in Agent : \A k \in wal'[x], l \in wal'[y] : k.ts = l.ts => k = l
    BY <2>1 DEF Traffic, UniqueNumbers
  <2>. QED  BY <2>2, <2>3 DEF UniqueNumbers
<1>7. LinksRise'
  <2>1. \A x \in Agent : chan'[x][x] = <<>> /\ Pair(x, x) \notin links'
    BY <1>1, <1>2, <1>3 DEF Traffic, LinksRise
  <2>2. ASSUME NEW x \in Agent, NEW y \in Agent, NEW i \in 1..Len(chan'[x][y]),
               NEW j \in 1..Len(chan'[x][y]), i < j
        PROVE  chan'[x][y][i].ts < chan'[x][y][j].ts
    <3>1. CASE x = a /\ y = b
      <4>1. /\ i + 1 \in 1..Len(chan[a][b]) /\ j + 1 \in 1..Len(chan[a][b])
            /\ chan'[a][b][i] = chan[a][b][i + 1] /\ chan'[a][b][j] = chan[a][b][j + 1]
        BY <1>2, <3>1
      <4>2. i + 1 < j + 1
        BY <2>2
      <4>3. chan[a][b][i + 1].ts < chan[a][b][j + 1].ts
        BY <4>1, <4>2 DEF Traffic, LinksRise
      <4>. QED  BY <3>1, <4>1, <4>3
    <3>2. CASE ~(x = a /\ y = b)
      <4>1. chan'[x][y] = chan[x][y]
        BY <1>2, <3>2
      <4>2. i \in 1..Len(chan[x][y]) /\ j \in 1..Len(chan[x][y])
        BY <4>1
      <4>3. chan[x][y][i].ts < chan[x][y][j].ts
        BY <2>2, <4>2 DEF Traffic, LinksRise
      <4>. QED  BY <4>1, <4>3
    <3>. QED  BY <3>1, <3>2
  <2>. QED  BY <1>4, <1>5, <2>1, <2>2 DEF LinksRise
<1>8. NotYetHeard'
  <2>1. \A y \in Agent : Ears(subs'[y]) \subseteq 1..now'
    BY <1>1, <1>3, <1>4 DEF Traffic, NotYetHeard
  <2>2. ASSUME NEW y \in Agent, NEW k \in Message, Unheard(y, k), y = b => k.ts # m.ts
        PROVE  k \notin wal'[y] /\ k.ts \notin Ears(subs'[y])
    BY <1>4, <2>2 DEF Unheard
  <2>3. ASSUME NEW x \in Agent, NEW y \in Agent, NEW i \in 1..Len(chan'[x][y])
        PROVE  /\ chan'[x][y][i] \notin wal'[y] /\ chan'[x][y][i].ts \notin Ears(subs'[y])
               /\ <<chan'[x][y][i].ts, y>> \notin missed'
    <3>. DEFINE k == chan'[x][y][i]
    <3>1. /\ k \in wal[x] /\ k.from = x /\ k.ts \in 1..now /\ k \in Message
          /\ Unheard(y, k) /\ <<k.ts, y>> \notin missed
      <4>1. /\ k \in wal[x] /\ k.from = x /\ k.ts \in 1..now
            /\ Unheard(y, k) /\ <<k.ts, y>> \notin missed
        BY <1>5
      <4>2. wal[x] \subseteq Message
        BY DEF TypeInv
      <4>. QED  BY <4>1, <4>2
    <3>2. y = b => k.ts # m.ts
      <4>1. CASE x = a
        <5>1. SUFFICES ASSUME y = b  PROVE k.ts # m.ts
          OBVIOUS
        <5>2. i \in 1..Len(chan'[a][b]) /\ k = chan'[a][b][i]
          BY <4>1, <5>1
        <5>3. m.ts < k.ts
          BY <1>2, <5>2
        <5>4. k.ts \in Nat /\ m.ts \in Nat
          BY <1>3, <3>1
        <5>. QED  BY ONLY <5>3, <5>4
      <4>2. CASE x # a
        <5>1. k.ts = m.ts => k = m
          BY <1>3, <3>1 DEF Traffic, UniqueNumbers
        <5>. QED  BY <1>3, <3>1, <4>2, <5>1
      <4>. QED  BY <4>1, <4>2
    <3>. HIDE DEF k
    <3>3. <<k.ts, y>> \notin missed'
      BY <1>4, <3>1, <3>2
    <3>4. k \notin wal'[y] /\ k.ts \notin Ears(subs'[y])
      BY <2>2, <3>1, <3>2
    <3>. QED  BY <3>3, <3>4 DEF k
  <2>4. ASSUME NEW y \in Agent, NEW x \in Agent \ {y}, NEW k \in wal'[x],
               k.from = x, <<k.ts, y>> \in missed'
        PROVE  k \notin wal'[y] /\ k.ts \notin Ears(subs'[y])
    <3>1. k \in wal[x] /\ k \in Message /\ k.ts \in 1..now
      <4>1. k \in wal[x] \/ k = m
        BY <1>4
      <4>2. k = m => x = a
        BY <1>3, <2>4
      <4>3. k \in wal[x]
        BY <1>3, <4>1, <4>2
      <4>. QED  BY <4>3 DEF Traffic, UniqueNumbers, TypeInv
    <3>2. CASE <<k.ts, y>> \in missed
      <4>1. Unheard(y, k)
        BY <2>4, <3>1, <3>2 DEF Traffic, NotYetHeard
      <4>2. y = b => k.ts # m.ts
        BY <1>3, <3>2
      <4>. QED  BY <2>2, <3>1, <4>1, <4>2
    <3>3. CASE <<k.ts, y>> \notin missed
      <4>1. k.ts = m.ts /\ y = b /\ wal'[b] = wal[b] /\ subs' = subs
        BY <1>4, <2>4, <3>3
      <4>2. k = m
        BY <1>3, <3>1, <4>1 DEF Traffic, UniqueNumbers
      <4>. QED  BY <1>3, <4>1, <4>2 DEF Unheard
    <3>. QED  BY <3>2, <3>3
  <2>. QED  BY <2>1, <2>3, <2>4 DEF NotYetHeard, Unheard
<1>9. SentAreLogged'
  BY <1>1, <1>4 DEF Traffic, SentAreLogged
<1>. QED  BY <1>6, <1>7, <1>8, <1>9 DEF Traffic

(* Nothing is sent or read; rows of the own log may be replayed. *)
LEMMA TrafficRests ==
  ASSUME TypeInv, Traffic, UNCHANGED <<wal, chan, sent, missed, now>>,
         \A x \in Agent : Pair(x, x) \notin links',
         \A x \in Agent : Ears(subs'[x]) \subseteq Ears(subs[x]) \cup {k.ts : k \in wal[x]}
  PROVE  Traffic'
<1>1. UniqueNumbers' /\ SentAreLogged'
  BY DEF Traffic, UniqueNumbers, SentAreLogged
<1>2. LinksRise'
  BY DEF Traffic, LinksRise
<1>3. NotYetHeard'
  <2>1. \A y \in Agent : Ears(subs'[y]) \subseteq 1..now'
    BY DEF Traffic, NotYetHeard, UniqueNumbers
  <2>2. ASSUME NEW y \in Agent, NEW x \in Agent, NEW k \in wal[x], Unheard(y, k)
        PROVE  (Unheard(y, k))'
    <3>1. \A l \in wal[y] : l.ts # k.ts
      BY <2>2 DEF Traffic, UniqueNumbers, Unheard
    <3>. QED  BY <2>2, <3>1 DEF Unheard
  <2>3. ASSUME NEW y \in Agent, NEW x \in Agent, NEW i \in 1..Len(chan'[x][y])
        PROVE  (Unheard(y, chan[x][y][i]))' /\ <<chan'[x][y][i].ts, y>> \notin missed'
    <3>1. chan'[x][y] = chan[x][y] /\ i \in 1..Len(chan[x][y])
      OBVIOUS
    <3>2. /\ chan[x][y][i] \in wal[x] /\ Unheard(y, chan[x][y][i])
          /\ <<chan[x][y][i].ts, y>> \notin missed
      BY <3>1, OnLink
    <3>. QED  BY <2>2, <3>1, <3>2
  <2>4. ASSUME NEW y \in Agent, NEW x \in Agent \ {y}, NEW k \in wal'[x],
               k.from = x, <<k.ts, y>> \in missed'
        PROVE  (Unheard(y, k))'
    BY <2>2, <2>4 DEF Traffic, NotYetHeard
  <2>. QED  BY <2>1, <2>3, <2>4 DEF NotYetHeard
<1>. QED  BY <1>1, <1>2, <1>3 DEF Traffic

(* A link breaks. *)
LEMMA TrafficCut ==
  ASSUME TypeInv, Traffic, NEW a \in Agent, NEW b \in Agent, Cut(a, b)
  PROVE  chan' \in [Agent -> [Agent -> Seq(Message)]] /\ Traffic'
<1>1. /\ UNCHANGED <<subs, wal, sent, now>> /\ links' \subseteq links
      /\ missed' = missed \cup (UnderWay(a, b) \X {b}) \cup (UnderWay(b, a) \X {a})
  BY DEF Cut
<1>2. chan' \in [Agent -> [Agent -> Seq(Message)]]
      /\ \A x, y \in Agent : \/ chan'[x][y] = <<>>
                             \/ chan'[x][y] = chan[x][y] /\ ~(x = a /\ y = b) /\ ~(x = b /\ y = a)
  <2>1. chan \in [Agent -> [Agent -> Seq(Message)]]
    BY DEF TypeInv
  <2>2. <<>> \in Seq(Message)
    OBVIOUS
  <2>3. chan' = [chan EXCEPT ![a][b] = <<>>, ![b][a] = <<>>]
    BY DEF Cut
  <2>. DEFINE c == [chan EXCEPT ![a] = [chan[a] EXCEPT ![b] = <<>>]]
  <2>4. c \in [Agent -> [Agent -> Seq(Message)]] /\ c[a][b] = <<>>
        /\ \A x, y \in Agent : ~(x = a /\ y = b) => c[x][y] = chan[x][y]
    BY <2>1, <2>2
  <2>5. chan' = [c EXCEPT ![b] = [c[b] EXCEPT ![a] = <<>>]]
    BY <2>3
  <2>. HIDE DEF c
  <2>6. chan' \in [Agent -> [Agent -> Seq(Message)]] /\ chan'[b][a] = <<>>
        /\ \A x, y \in Agent : ~(x = b /\ y = a) => chan'[x][y] = c[x][y]
    BY <2>2, <2>4, <2>5
  <2>7. ASSUME NEW x \in Agent, NEW y \in Agent
        PROVE  \/ chan'[x][y] = <<>>
               \/ chan'[x][y] = chan[x][y] /\ ~(x = a /\ y = b) /\ ~(x = b /\ y = a)
    <3>1. CASE x = b /\ y = a
      BY <2>6, <3>1
    <3>2. CASE ~(x = b /\ y = a) /\ x = a /\ y = b
      BY <2>4, <2>6, <3>2
    <3>3. CASE ~(x = b /\ y = a) /\ ~(x = a /\ y = b)
      BY <2>4, <2>6, <3>3
    <3>. QED  BY <3>1, <3>2, <3>3
  <2>. QED  BY <2>6, <2>7
<1>3. UniqueNumbers' /\ SentAreLogged'
  BY <1>1 DEF Traffic, UniqueNumbers, SentAreLogged
<1>4. Len(<<>>) = 0
  OBVIOUS
<1>5. ASSUME NEW x \in Agent, NEW y \in Agent, NEW i \in 1..Len(chan'[x][y])
      PROVE  /\ chan'[x][y] = chan[x][y] /\ i \in 1..Len(chan[x][y])
             /\ ~(x = a /\ y = b) /\ ~(x = b /\ y = a)
  <2>1. CASE chan'[x][y] = <<>>
    <3>1. i \in 1..0
      BY <1>4, <2>1
    <3>. QED  BY <3>1
  <2>2. CASE chan'[x][y] = chan[x][y] /\ ~(x = a /\ y = b) /\ ~(x = b /\ y = a)
    BY <2>2
  <2>. QED  BY <1>2, <2>1, <2>2
<1>6. LinksRise'
  <2>1. \A x \in Agent : chan'[x][x] = <<>> /\ Pair(x, x) \notin links'
    BY <1>1, <1>2 DEF Traffic, LinksRise
  <2>2. \A x, y \in Agent : \A i \in 1..Len(chan'[x][y]) :
          /\ chan'[x][y][i] \in wal'[x] /\ chan'[x][y][i].from = x
          /\ \A j \in 1..Len(chan'[x][y]) : i < j => chan'[x][y][i].ts < chan'[x][y][j].ts
    <3>1. ASSUME NEW x \in Agent, NEW y \in Agent, NEW i \in 1..Len(chan'[x][y])
          PROVE  /\ chan'[x][y][i] \in wal'[x] /\ chan'[x][y][i].from = x
                 /\ \A j \in 1..Len(chan'[x][y]) :
                      i < j => chan'[x][y][i].ts < chan'[x][y][j].ts
      <4>1. chan'[x][y] = chan[x][y] /\ i \in 1..Len(chan[x][y])
        BY <1>5
      <4>2. /\ chan[x][y][i] \in wal[x] /\ chan[x][y][i].from = x
            /\ \A j \in 1..Len(chan[x][y]) : i < j => chan[x][y][i].ts < chan[x][y][j].ts
        BY <4>1 DEF Traffic, LinksRise
      <4>. QED  BY <1>1, <4>1, <4>2
    <3>. QED  BY <3>1
  <2>. QED  BY <2>1, <2>2 DEF LinksRise
<1>7. ASSUME NEW x \in Agent, NEW y \in Agent, NEW n \in UnderWay(x, y)
      PROVE  \E k \in wal[x] : /\ k.ts = n /\ k.from = x /\ x # y /\ Unheard(y, k)
                               /\ \E i \in 1..Len(chan[x][y]) : chan[x][y][i] = k
  <2>1. PICK i \in DOMAIN chan[x][y] : chan[x][y][i].ts = n
    BY DEF UnderWay, ToSet
  <2>2. i \in 1..Len(chan[x][y])
    <3>1. chan[x][y] \in Seq(Message)
      BY DEF TypeInv
    <3>. QED  BY <2>1, <3>1
  <2>3. /\ chan[x][y][i] \in wal[x] /\ chan[x][y][i].from = x /\ x # y
        /\ Unheard(y, chan[x][y][i])
    BY <2>2, OnLink
  <2>. QED  BY <2>1, <2>2, <2>3
<1>8. NotYetHeard'
  <2>1. \A y \in Agent : Ears(subs'[y]) \subseteq 1..now'
    BY <1>1 DEF Traffic, NotYetHeard
  <2>2. ASSUME NEW x \in Agent, NEW y \in Agent, NEW i \in 1..Len(chan'[x][y])
        PROVE  (Unheard(y, chan[x][y][i]))' /\ <<chan'[x][y][i].ts, y>> \notin missed'
    <3>. DEFINE k == chan[x][y][i]
    <3>1. /\ chan'[x][y] = chan[x][y] /\ i \in 1..Len(chan[x][y])
          /\ ~(x = a /\ y = b) /\ ~(x = b /\ y = a)
      BY <1>5
    <3>2. k \in wal[x] /\ k.from = x /\ Unheard(y, k) /\ <<k.ts, y>> \notin missed
      BY <3>1, OnLink
    <3>3. \A z \in Agent : z # x => k.ts \notin UnderWay(z, y)
      <4>1. ASSUME NEW z \in Agent, z # x, k.ts \in UnderWay(z, y)  PROVE FALSE
        <5>1. PICK l \in wal[z] : l.ts = k.ts /\ l.from = z
          BY <1>7, <4>1
        <5>2. l = k
          BY <3>2, <5>1 DEF Traffic, UniqueNumbers
        <5>. QED  BY <3>2, <4>1, <5>1, <5>2
      <4>. QED  BY <4>1
    <3>. HIDE DEF k
    <3>4. <<k.ts, y>> \notin missed'
      BY <1>1, <3>1, <3>2, <3>3
    <3>. QED  BY <1>1, <3>1, <3>2, <3>4 DEF k, Unheard
  <2>3. ASSUME NEW y \in Agent, NEW x \in Agent \ {y}, NEW k \in wal'[x],
               k.from = x, <<k.ts, y>> \in missed'
        PROVE  (Unheard(y, k))'
    <3>1. k \in wal[x]
      BY <1>1
    <3>2. CASE <<k.ts, y>> \in missed
      BY <1>1, <2>3, <3>1, <3>2 DEF Traffic, NotYetHeard, Unheard
    <3>3. CASE <<k.ts, y>> \notin missed
      <4>1. PICK z \in Agent : k.ts \in UnderWay(z, y)
        BY <1>1, <2>3, <3>3
      <4>2. PICK l \in wal[z] : l.ts = k.ts /\ Unheard(y, l)
        BY <1>7, <4>1
      <4>3. l = k
        BY <3>1, <4>2 DEF Traffic, UniqueNumbers
      <4>. QED  BY <1>1, <4>2, <4>3 DEF Unheard
    <3>. QED  BY <3>2, <3>3
  <2>. QED  BY <2>1, <2>2, <2>3 DEF NotYetHeard
<1>. QED  BY <1>2, <1>3, <1>6, <1>8 DEF Traffic

------------------------------------------------------------------------------
(* The invariant is kept.  First what the steps have in common. *)

(* What is known of the state before a step. *)
LEMMA Known ==
  ASSUME MeshInv
  PROVE  /\ TypeInv /\ Traffic /\ AllGenuine /\ Callbacks /\ Covered /\ Bounded /\ AloneStays
         /\ subs \in [Agent -> Seq(Sub)] /\ DOMAIN bus = Agent
         /\ wal \in [Agent -> SUBSET Message] /\ chan \in [Agent -> [Agent -> Seq(Message)]]
         /\ passed \in [Agent -> [Agent -> 0..RateLimit]]
         /\ now \in Nat /\ reqs \in Seq(Req) /\ DOMAIN reqs = 1..Len(reqs) /\ Len(reqs) \in Nat
         /\ \A a \in Agent : DOMAIN subs[a] = 1..Len(subs[a]) /\ Len(subs[a]) \in Nat
BY BoundAssumption DEF MeshInv, TypeInv

(* Requests may be added and answered; what is said of a message still holds. *)
LEMMA GenuineStays ==
  ASSUME AllGenuine,
         \A k \in DOMAIN reqs : k \in DOMAIN reqs' /\ reqs'[k].by = reqs[k].by,
         \A x \in Agent : \A k \in wal'[x] : (\E y \in Agent : k \in wal[y]) \/ (Genuine(k))'
  PROVE  AllGenuine'
<1>1. ASSUME NEW k, Genuine(k)  PROVE (Genuine(k))'
  BY <1>1 DEF Genuine
<1>. QED  BY <1>1 DEF AllGenuine

(* Nothing is said of a request that changes with its answer. *)
LEMMA RequestsStay ==
  ASSUME Callbacks, AloneStays, reqs' = reqs \/ SameReqs, bus' = bus
  PROVE  Callbacks' /\ AloneStays'
<1>1. DOMAIN reqs' = DOMAIN reqs
      /\ \A k \in DOMAIN reqs : /\ reqs'[k].by = reqs[k].by /\ reqs'[k].state = reqs[k].state
                                /\ reqs'[k].alone = reqs[k].alone
  BY DEF SameReqs
<1>2. Callbacks'
  BY <1>1 DEF Callbacks, Callback
<1>3. AloneStays'
  BY <1>1 DEF AloneStays
<1>. QED  BY <1>2, <1>3

(* The logs gain m at most. *)
LEMMA FiniteStays ==
  ASSUME NEW m, \A x \in Agent : IsFiniteSet(wal[x]),
         \A x \in Agent : wal'[x] = wal[x] \/ wal'[x] = wal[x] \cup {m}
  PROVE  \A x \in Agent : IsFiniteSet(wal'[x])
<1>1. ASSUME NEW x \in Agent  PROVE IsFiniteSet(wal'[x])
  <2>1. IsFiniteSet(wal[x] \cup {m})
    BY FS_AddElement
  <2>. QED  BY <2>1
<1>. QED  BY <1>1

(* Subscriptions hear numbers of X at b; they are as open as before. *)
LEMMA HeardKeeps ==
  ASSUME subs \in [Agent -> Seq(Sub)], NEW b \in Agent, NEW X, HeardAt(b, X)
  PROVE  /\ \A x \in Agent :
              /\ DOMAIN subs'[x] = DOMAIN subs[x]
              /\ \A i \in DOMAIN subs[x] :
                   /\ subs'[x][i].caps = subs[x][i].caps /\ subs'[x][i].open = subs[x][i].open
                   /\ subs'[x][i].since = subs[x][i].since
                   /\ Heard(subs[x][i]) \subseteq Heard(subs'[x][i])
              /\ (Open(x))' = Open(x)
         /\ Ears(subs'[b]) \subseteq Ears(subs[b]) \cup X
         /\ \A x \in Agent : x # b => Ears(subs'[x]) \subseteq Ears(subs[x])
<1>1. ASSUME NEW x \in Agent
      PROVE  /\ DOMAIN subs'[x] = DOMAIN subs[x]
             /\ \A i \in DOMAIN subs[x] :
                  /\ subs'[x][i].caps = subs[x][i].caps /\ subs'[x][i].open = subs[x][i].open
                  /\ subs'[x][i].since = subs[x][i].since
                  /\ Heard(subs[x][i]) \subseteq Heard(subs'[x][i])
  <2>1. CASE x = b
    <3>1. SameSubs(subs[x], subs'[x], X) /\ subs[x] \in Seq(Sub) /\ subs'[x] \in Seq(Sub)
      BY <2>1 DEF HeardAt
    <3>2. DOMAIN subs[x] = 1..Len(subs[x]) /\ DOMAIN subs'[x] = 1..Len(subs'[x])
      BY <3>1
    <3>. QED  BY <3>1, <3>2 DEF SameSubs
  <2>2. CASE x # b
    BY <2>2 DEF HeardAt
  <2>. QED  BY <2>1, <2>2
<1>2. \A x \in Agent : (Open(x))' = Open(x)
  BY <1>1 DEF Open
<1>3. Ears(subs'[b]) \subseteq Ears(subs[b]) \cup X
  <2>1. SameSubs(subs[b], subs'[b], X) /\ subs[b] \in Seq(Sub)
    BY DEF HeardAt
  <2>. QED  BY <2>1, EarsGrow
<1>4. \A x \in Agent : x # b => Ears(subs'[x]) \subseteq Ears(subs[x])
  BY DEF HeardAt
<1>. QED  BY <1>1, <1>2, <1>3, <1>4

(* With the same subscriptions open and no callback gone all are covered, and
   they are not younger than now. *)
LEMMA CoveredStays ==
  ASSUME MeshInv, NEW b \in Agent, NEW X, HeardAt(b, X),
         \A x \in Agent : DOMAIN bus[x] \subseteq DOMAIN bus'[x], now <= now', now' \in Nat
  PROVE  /\ Covered'
         /\ \A x \in Agent : \A i \in DOMAIN subs'[x] : subs'[x][i].since <= now'
<1>1. \A x \in Agent :
              /\ DOMAIN subs'[x] = DOMAIN subs[x]
              /\ \A i \in DOMAIN subs[x] :
                   /\ subs'[x][i].caps = subs[x][i].caps
                   /\ subs'[x][i].since = subs[x][i].since
              /\ (Open(x))' = Open(x)
  BY Known, HeardKeeps
<1>2. Covered'
  BY <1>1, Known DEF Covered, Open
<1>3. ASSUME NEW x \in Agent, NEW i \in DOMAIN subs'[x]  PROVE subs'[x][i].since <= now'
  <2>1. subs[x][i] \in Sub /\ subs[x][i].since <= now /\ subs'[x][i].since = subs[x][i].since
    BY <1>1, Known DEF Bounded
  <2>2. subs[x][i].since \in Nat /\ now \in Nat
    BY <2>1, Known DEF Sub
  <2>. QED  BY <2>1, <2>2
<1>. QED  BY <1>2, <1>3

(* Then the steps of AgentMesh, which leave the requests alone. *)

(* A subscription that has heard nothing adds nothing. *)
LEMMA EarsAppended ==
  ASSUME NEW s \in Seq(Sub), NEW u \in Sub, u.got = <<>>
  PROVE  /\ Ears(Append(s, u)) \subseteq Ears(s)
<1>1. /\ Append(s, u) \in Seq(Sub) /\ Len(s) \in Nat /\ Len(Append(s, u)) = Len(s) + 1
      /\ \A i \in 1..(Len(s) + 1) : Append(s, u)[i] = IF i <= Len(s) THEN s[i] ELSE u
  BY Appended
<1>2. DOMAIN Append(s, u) = 1..(Len(s) + 1) /\ DOMAIN s = 1..Len(s)
  BY <1>1
<1>3. Heard(u) = {}
  BY DEF Heard, ToSet
<1>4. ASSUME NEW i \in 1..(Len(s) + 1)
      PROVE  (i \in 1..Len(s) /\ Append(s, u)[i] = s[i]) \/ Append(s, u)[i] = u
  BY <1>1
<1>. QED  BY <1>2, <1>3, <1>4 DEF Ears

(* A new subscription has heard nothing, and its topics get a callback. *)
LEMMA ListenKeeps ==
  ASSUME MeshInv, NEW a \in Listener, NEW caps \in Filter, Listen(a, caps), UNCHANGED rpcVars
  PROVE  MeshInv'
<1>. DEFINE u == [caps |-> caps, open |-> TRUE, since |-> now, got |-> <<>>]
            s == subs[a]
<1>1. a \in Agent /\ now \in Nat /\ s \in Seq(Sub)
  BY ListenerAssumption, Known
<1>2. u \in Sub /\ u.got = <<>>
  <2>1. <<>> \in Seq(Nat)
    OBVIOUS
  <2>. QED  BY <1>1, <2>1 DEF Sub
<1>3. /\ UNCHANGED <<wal, last, passed, links, chan, sent, missed, now, cuts, reqs, tasks>>
      /\ subs' = [subs EXCEPT ![a] = Append(s, u)]
      /\ bus' = [bus EXCEPT ![a] = Subscribed(bus[a], Topics(caps), "route")]
  BY DEF Listen, rpcVars
<1>. HIDE DEF s
<1>4. /\ Append(s, u) \in Seq(Sub) /\ Len(s) \in Nat /\ Len(Append(s, u)) = Len(s) + 1
      /\ \A i \in 1..(Len(s) + 1) : Append(s, u)[i] = IF i <= Len(s) THEN s[i] ELSE u
      /\ DOMAIN Append(s, u) = 1..(Len(s) + 1) /\ DOMAIN s = 1..Len(s)
  <2>1. /\ Append(s, u) \in Seq(Sub) /\ Len(s) \in Nat /\ Len(Append(s, u)) = Len(s) + 1
        /\ \A i \in 1..(Len(s) + 1) : Append(s, u)[i] = IF i <= Len(s) THEN s[i] ELSE u
    BY <1>1, <1>2, Appended
  <2>. QED  BY <1>1, <2>1
<1>5. TypeInv'
  BY <1>1, <1>3, <1>4, Known DEF TypeInv
<1>6. Ears(Append(s, u)) \subseteq Ears(s)
  BY <1>1, <1>2, EarsAppended
<1>. HIDE DEF u
<1>7. Traffic'
  <2>1. \A x \in Agent : Ears(subs'[x]) \subseteq Ears(subs[x]) \cup {k.ts : k \in wal[x]}
    BY <1>1, <1>3, <1>6, Known DEF s
  <2>2. \A x \in Agent : Pair(x, x) \notin links'
    BY <1>3, Known DEF Traffic, LinksRise
  <2>. QED  BY <1>3, <2>1, <2>2, Known, TrafficRests
<1>8. AllGenuine' /\ AloneStays'
  BY <1>3, Known DEF AllGenuine, Genuine, AloneStays
<1>9. \A x \in Agent : \A i \in DOMAIN subs'[x] :
        (i \in DOMAIN subs[x] /\ subs'[x][i] = subs[x][i]) \/ (x = a /\ subs'[x][i] = u)
  <2>1. ASSUME NEW x \in Agent, NEW i \in DOMAIN subs'[x]
        PROVE  (i \in DOMAIN subs[x] /\ subs'[x][i] = subs[x][i]) \/ (x = a /\ subs'[x][i] = u)
    <3>1. CASE x = a
      <4>1. subs'[x] = Append(s, u)
        BY <1>1, <1>3, <3>1, Known
      <4>2. i \in 1..(Len(s) + 1)
        BY <1>4, <4>1
      <4>3. (i \in 1..Len(s) /\ Append(s, u)[i] = s[i]) \/ Append(s, u)[i] = u
        BY <1>4, <4>2
      <4>. QED  BY <1>4, <3>1, <4>1, <4>3 DEF s
    <3>2. CASE x # a
      BY <1>3, <3>2, Known
    <3>. QED  BY <3>1, <3>2
  <2>. QED  BY <2>1
<1>10. /\ \A x \in Agent : x # a => bus'[x] = bus[x]
       /\ DOMAIN bus'[a] = DOMAIN bus[a] \cup Topics(caps)
       /\ \A t \in DOMAIN bus[a] : bus'[a][t] = bus[a][t]
       /\ \A t \in Topics(caps) : t \notin DOMAIN bus[a] => bus'[a][t] = "route"
  BY <1>1, <1>3, Known DEF Subscribed
<1>11. Callbacks'
  <2>1. ASSUME NEW x \in Agent, NEW t \in DOMAIN bus'[x]  PROVE (Callback(x, t))'
    <3>1. CASE t \in DOMAIN bus[x]
      <4>1. bus'[x][t] = bus[x][t] /\ Callback(x, t)
        BY <1>10, <3>1, Known DEF Callbacks
      <4>. QED  BY <1>3, <4>1 DEF Callback
    <3>2. CASE t \notin DOMAIN bus[x]
      <4>1. x = a /\ t \in Topics(caps) /\ bus'[x][t] = "route"
        BY <1>10, <3>2
      <4>2. t[1] = "agent"
        BY <4>1, Kinds DEF Topics
      <4>. QED  BY <4>1, <4>2 DEF Callback
    <3>. QED  BY <3>1, <3>2
  <2>. QED  BY <2>1 DEF Callbacks
<1>12. Covered'
  <2>1. ASSUME NEW x \in Agent, NEW i \in DOMAIN subs'[x], subs'[x][i].open
        PROVE  Topics(subs'[x][i].caps) \subseteq DOMAIN bus'[x]
    <3>1. CASE i \in DOMAIN subs[x] /\ subs'[x][i] = subs[x][i]
      <4>1. Topics(subs[x][i].caps) \subseteq DOMAIN bus[x]
        BY <2>1, <3>1, Known DEF Covered, Open
      <4>. QED  BY <1>10, <3>1, <4>1
    <3>2. CASE x = a /\ subs'[x][i] = u
      BY <1>10, <3>2 DEF u
    <3>. QED  BY <1>9, <3>1, <3>2
  <2>. QED  BY <2>1 DEF Covered, Open
<1>13. Bounded'
  <2>1. u.since = now /\ now <= now
    BY <1>1 DEF u
  <2>. QED  BY <1>3, <1>9, <2>1, Known DEF Bounded
<1>. QED  BY <1>5, <1>7, <1>8, <1>11, <1>12, <1>13 DEF MeshInv

(* The topics that go are those no open subscription needs. *)
LEMMA CancelKeeps ==
  ASSUME MeshInv, NEW a \in Agent, NEW n \in DOMAIN subs[a], Cancel(a, n), UNCHANGED rpcVars
  PROVE  MeshInv'
<1>. DEFINE s == [subs[a] EXCEPT ![n].open = FALSE]
<1>1. /\ UNCHANGED <<wal, last, passed, links, chan, sent, missed, now, cuts, reqs, tasks>>
      /\ subs' = [subs EXCEPT ![a] = s]
      /\ \/ Active(s, s[n].caps) /\ bus' = bus
         \/ /\ ~Active(s, s[n].caps)
            /\ bus' = [bus EXCEPT ![a] = Unsubscribed(bus[a], Topics(s[n].caps))]
  BY DEF Cancel, rpcVars
<1>2. /\ s \in Seq(Sub) /\ DOMAIN s = DOMAIN subs[a]
      /\ s[n].caps = subs[a][n].caps /\ ~s[n].open
      /\ \A i \in DOMAIN s : i # n => s[i] = subs[a][i]
      /\ s[n].since = subs[a][n].since /\ s[n].got = subs[a][n].got
  <2>1. subs[a] \in Seq(Sub) /\ subs[a][n] \in Sub
    BY Known
  <2>. DEFINE v == [subs[a][n] EXCEPT !.open = FALSE]
  <2>2. /\ v \in Sub /\ v.caps = subs[a][n].caps /\ ~v.open
        /\ v.since = subs[a][n].since /\ v.got = subs[a][n].got
    BY <2>1 DEF Sub
  <2>. HIDE DEF v
  <2>3. s = [subs[a] EXCEPT ![n] = v]
    BY DEF v
  <2>. HIDE DEF s
  <2>4. s \in Seq(Sub)
    BY <2>1, <2>2, <2>3
  <2>5. DOMAIN s = DOMAIN subs[a] /\ s[n] = v /\ \A i \in DOMAIN s : i # n => s[i] = subs[a][i]
    BY <2>3
  <2>. QED  BY <2>2, <2>4, <2>5
<1>. HIDE DEF s
<1>3. /\ \A x \in Agent : x # a => subs'[x] = subs[x]
      /\ subs'[a] = s
  BY <1>1, Known
<1>4. DOMAIN bus' = Agent
  BY <1>1, Known
<1>5. TypeInv'
  BY <1>1, <1>2, <1>4, Known DEF TypeInv
<1>6. Traffic'
  <2>1. Ears(s) \subseteq Ears(subs[a])
    BY <1>2 DEF Ears, Heard
  <2>2. \A x \in Agent : Ears(subs'[x]) \subseteq Ears(subs[x]) \cup {k.ts : k \in wal[x]}
    BY <1>3, <2>1
  <2>3. \A x \in Agent : Pair(x, x) \notin links'
    BY <1>1, Known DEF Traffic, LinksRise
  <2>. QED  BY <1>1, <2>2, <2>3, Known, TrafficRests
<1>7. AllGenuine' /\ AloneStays'
  BY <1>1, Known DEF AllGenuine, Genuine, AloneStays
<1>8. /\ \A x \in Agent : x # a => bus'[x] = bus[x]
      /\ DOMAIN bus'[a] \subseteq DOMAIN bus[a]
      /\ \A t \in DOMAIN bus'[a] : bus'[a][t] = bus[a][t]
      /\ Active(s, s[n].caps) => DOMAIN bus'[a] = DOMAIN bus[a]
      /\ DOMAIN bus[a] \ Topics(s[n].caps) \subseteq DOMAIN bus'[a]
  BY <1>1, Known DEF Unsubscribed
<1>9. Callbacks'
  <2>1. ASSUME NEW x \in Agent, NEW t \in DOMAIN bus'[x]  PROVE (Callback(x, t))'
    <3>1. bus'[x][t] = bus[x][t] /\ Callback(x, t)
      BY <1>8, Known DEF Callbacks
    <3>. QED  BY <1>1, <3>1 DEF Callback
  <2>. QED  BY <2>1 DEF Callbacks
<1>10. Covered'
  <2>1. ASSUME NEW x \in Agent, NEW i \in DOMAIN subs'[x], subs'[x][i].open
        PROVE  Topics(subs'[x][i].caps) \subseteq DOMAIN bus'[x]
    <3>1. CASE x # a
      BY <1>3, <1>8, <2>1, <3>1, Known DEF Covered, Open
    <3>2. CASE x = a
      <4>1. i \in DOMAIN s /\ s[i].open /\ i # n /\ s[i] = subs[a][i]
        BY <1>2, <1>3, <2>1, <3>2
      <4>2. Topics(s[i].caps) \subseteq DOMAIN bus[a]
        BY <1>2, <4>1, Known DEF Covered, Open
      <4>3. CASE Active(s, s[n].caps)
        BY <1>3, <1>8, <3>2, <4>2, <4>3
      <4>4. CASE ~Active(s, s[n].caps)
        <5>1. s[i].caps \cap s[n].caps = {}
          BY <4>1, <4>4 DEF Active
        <5>2. \A t \in Topics(s[i].caps) : t \notin Topics(s[n].caps)
          BY <5>1, Kinds DEF Topics
        <5>. QED  BY <1>3, <1>8, <3>2, <4>2, <5>2
      <4>. QED  BY <4>3, <4>4
    <3>. QED  BY <3>1, <3>2
  <2>. QED  BY <2>1 DEF Covered, Open
<1>11. Bounded'
  <2>1. ASSUME NEW x \in Agent, NEW i \in DOMAIN subs'[x]  PROVE subs'[x][i].since <= now'
    <3>1. i \in DOMAIN subs[x] /\ subs'[x][i].since = subs[x][i].since
      BY <1>2, <1>3
    <3>. QED  BY <1>1, <3>1, Known DEF Bounded
  <2>. QED  BY <1>1, <2>1, Known DEF Bounded
<1>. QED  BY <1>5, <1>6, <1>7, <1>9, <1>10, <1>11 DEF MeshInv

(* What an event that is new to the links, or read from one, leaves as it is. *)
LEMMA EventKeeps ==
  ASSUME MeshInv, NEW b \in Agent, NEW m \in Message, m.ts \in 1..now',
         now <= now', now' \in 0..MaxMsgs,
         HeardAt(b, {m.ts}),
         UNCHANGED <<bus, cuts, reqs, tasks>>, links' = links,
         chan' \in [Agent -> [Agent -> Seq(Message)]],
         passed' \in [Agent -> [Agent -> 0..RateLimit]],
         last' = last \/ last' = [last EXCEPT ![b] = m.ts],
         missed' \subseteq (1..now') \X Agent,
         \A x \in Agent : wal'[x] = wal[x] \/ wal'[x] = wal[x] \cup {m},
         wal' \in [Agent -> SUBSET Message],
         \A x \in Agent : \A k \in wal'[x] : (\E y \in Agent : k \in wal[y]) \/ (Genuine(k))',
         Traffic'
  PROVE  MeshInv'
<1>1. now \in Nat /\ now' \in Nat
  BY BoundAssumption, Known
<1>2. last' \in [Agent -> 0..now']
  <2>1. last \in [Agent -> 0..now]
    BY Known DEF TypeInv
  <2>2. last \in [Agent -> 0..now']
    BY <1>1, <2>1
  <2>3. m.ts \in 0..now'
    BY <1>1
  <2>. QED  BY <2>2, <2>3
<1>3. TypeInv'
  <2>1. subs' \in [Agent -> Seq(Sub)] /\ DOMAIN bus' = Agent
    BY Known DEF HeardAt
  <2>2. /\ links' \subseteq Ends
        /\ cuts' \in 0..MaxCuts /\ reqs' \in Seq(Req)
        /\ tasks' \subseteq [at : Server, re : DOMAIN reqs']
    BY Known DEF TypeInv
  <2>. QED  BY <1>2, <2>1, <2>2 DEF TypeInv
<1>4. AllGenuine'
  BY Known, GenuineStays
<1>5. Callbacks' /\ AloneStays'
  BY Known, RequestsStay
<1>6. /\ Covered'
      /\ \A x \in Agent : \A i \in DOMAIN subs'[x] : subs'[x][i].since <= now'
  BY <1>1, CoveredStays
<1>7. \A x \in Agent : IsFiniteSet(wal'[x])
  BY Known, FiniteStays DEF Bounded
<1>8. Bounded'
  BY <1>6, <1>7, Known DEF Bounded
<1>. QED  BY <1>3, <1>4, <1>5, <1>6, <1>8 DEF MeshInv

(* A new message m of a: what a step that sends it has to say of it. *)
LEMMA NewMessage ==
  ASSUME MeshInv, NEW a \in Agent, NEW m \in Message, m.from = a, m.ts = now + 1,
         now' = now + 1, now < MaxMsgs, wal' = Logged(a, m), chan' = Broadcast(a, m)
  PROVE  /\ now' \in 0..MaxMsgs /\ now <= now' /\ m.ts \in 1..now' /\ now' \in Nat
         /\ chan' \in [Agent -> [Agent -> Seq(Message)]]
         /\ wal' \in [Agent -> SUBSET Message]
         /\ \A x \in Agent : wal'[x] = wal[x] \/ wal'[x] = wal[x] \cup {m}
         /\ \A x \in Agent : \A k \in wal'[x] : (\E y \in Agent : k \in wal[y]) \/ k = m
         /\ missed \subseteq (1..now') \X Agent
         /\ \A x \in Agent : IsFiniteSet(wal'[x])
<1>1. now \in Nat /\ MaxMsgs \in Nat /\ missed \subseteq (1..now) \X Agent
  BY BoundAssumption, Known DEF TypeInv
<1>2. now' \in 0..MaxMsgs /\ now <= now' /\ m.ts \in 1..now' /\ now' \in Nat
  BY <1>1
<1>3. chan' \in [Agent -> [Agent -> Seq(Message)]]
  BY Known, GoesOut
<1>4. /\ wal' \in [Agent -> SUBSET Message]
      /\ \A x \in Agent : wal'[x] = wal[x] \/ wal'[x] = wal[x] \cup {m}
  BY Known DEF Logged
<1>5. \A x \in Agent : \A k \in wal'[x] : (\E y \in Agent : k \in wal[y]) \/ k = m
  BY <1>4
<1>6. missed \subseteq (1..now') \X Agent
  BY <1>1
<1>7. \A x \in Agent : IsFiniteSet(wal'[x])
  BY <1>4, Known, FiniteStays DEF Bounded
<1>. QED  BY <1>2, <1>3, <1>4, <1>5, <1>6, <1>7

(* The message of an emission. *)
LEMMA EmittedMessage ==
  ASSUME now \in Nat, NEW a \in Agent, NEW c \in Capability
  PROVE  \E m \in Message :
            /\ m = [topic |-> Event(c), cap |-> c, from |-> a, ts |-> now + 1, re |-> 0]
            /\ m.topic = Event(m.cap) /\ m.from = a /\ m.ts = now + 1
<1>. DEFINE m == [topic |-> Event(c), cap |-> c, from |-> a, ts |-> now + 1, re |-> 0]
<1>1. Event(c) \in Topic /\ now + 1 \in Nat
  BY DEF Topic
<1>2. m \in Message
  BY <1>1 DEF Message
<1>3. m.topic = Event(m.cap) /\ m.from = a /\ m.ts = now + 1
  OBVIOUS
<1>. QED  BY <1>2, <1>3

(* An event has a number of its own, and the emitter may hear it. *)
LEMMA EmitKeeps ==
  ASSUME MeshInv, NEW a \in Agent, NEW c \in Capability, Emit(a, c), UNCHANGED rpcVars
  PROVE  MeshInv'
<1>00. now \in Nat
  BY Known
<1>0. PICK m \in Message :
        /\ m = [topic |-> Event(c), cap |-> c, from |-> a, ts |-> now + 1, re |-> 0]
        /\ m.topic = Event(m.cap) /\ m.from = a /\ m.ts = now + 1
  BY <1>00, EmittedMessage
<1>. DEFINE X == {x \in Agent : x = a \/ Pair(a, x) \notin links}
            w == Logged(a, m)
<1>1. /\ m \in Message /\ m.topic = Event(m.cap) /\ m.from = a /\ m.ts = now + 1 /\ now \in Nat
  BY <1>0, Known
<1>2. /\ now < MaxMsgs /\ now' = now + 1 /\ sent' = sent \cup {m} /\ chan' = Broadcast(a, m)
      /\ UNCHANGED <<bus, links, cuts, reqs, tasks>>
      /\ RouteMessage(a, m, w, Unreached(a, m)) \/ NobodyListens(w, Unreached(a, m))
  BY <1>0 DEF Emit, rpcVars
<1>3. /\ Accepts(a, m, w, Unreached(a, m)) \/ Ignores(a, m, w, Unreached(a, m))
      /\ passed' \in [Agent -> [Agent -> 0..RateLimit]]
      /\ HeardAt(a, {m.ts})
  BY <1>1, <1>2, Known, Arrives
<1>4. wal' = Logged(a, m)
  <2>1. [w EXCEPT ![a] = @ \cup {m}] = w
    <3>1. wal \in [Agent -> SUBSET Message]
      BY Known
    <3>2. w = [wal EXCEPT ![a] = wal[a] \cup {m}]
      BY DEF Logged
    <3>3. w[a] = wal[a] \cup {m} /\ DOMAIN w = Agent /\ w = [x \in Agent |-> w[x]]
      BY <3>1, <3>2
    <3>. HIDE DEF w
    <3>4. w[a] \cup {m} = w[a]
      BY <3>3
    <3>. QED  BY <3>3, <3>4
  <2>. QED  BY <1>3, <2>1 DEF Accepts, Ignores
<1>5. /\ missed \subseteq missed' /\ missed' \subseteq missed \cup {<<m.ts, x>> : x \in X}
      /\ last' = last \/ last' = [last EXCEPT ![a] = m.ts]
  <2>1. Unreached(a, m) \subseteq {<<m.ts, x>> : x \in X}
    BY DEF Unreached
  <2>2. <<m.ts, a>> \in {<<m.ts, x>> : x \in X}
    OBVIOUS
  <2>. QED  BY <1>3, <2>1, <2>2 DEF Accepts, Ignores
<1>6. Sends(a, m, X)
  BY <1>1, <1>2, <1>4, <1>5 DEF Sends
<1>7. /\ now' \in 0..MaxMsgs /\ now <= now' /\ m.ts \in 1..now' /\ now' \in Nat
      /\ chan' \in [Agent -> [Agent -> Seq(Message)]]
      /\ wal' \in [Agent -> SUBSET Message]
      /\ \A x \in Agent : wal'[x] = wal[x] \/ wal'[x] = wal[x] \cup {m}
      /\ \A x \in Agent : \A k \in wal'[x] : (\E y \in Agent : k \in wal[y]) \/ k = m
      /\ missed \subseteq (1..now') \X Agent
  BY <1>1, <1>2, <1>4, NewMessage
<1>8. Traffic'
  <2>1. /\ Ears(subs'[a]) \subseteq Ears(subs[a]) \cup {m.ts}
        /\ \A x \in Agent : x # a => Ears(subs'[x]) \subseteq Ears(subs[x])
    BY <1>3, Known, HeardKeeps
  <2>. QED  BY <1>6, <2>1, Known, TrafficSends
<1>9. missed' \subseteq (1..now') \X Agent
  BY <1>5, <1>7
<1>10. \A x \in Agent : \A k \in wal'[x] : (\E y \in Agent : k \in wal[y]) \/ (Genuine(k))'
  <2>1. (Genuine(m))'
    BY <1>1 DEF Genuine
  <2>. QED  BY <1>7, <2>1
<1>. QED  BY <1>1, <1>2, <1>3, <1>5, <1>7, <1>8, <1>9, <1>10, EventKeeps

(* An event that is read, and what the gate and the callbacks make of it. *)
LEMMA ReceiveEventKeeps ==
  ASSUME MeshInv, NEW a \in Agent, NEW b \in Agent, ReceiveEvent(a, b), UNCHANGED rpcVars
  PROVE  MeshInv'
<1>. DEFINE m == Head(chan[a][b])
<1>1. /\ chan[a][b] # <<>> /\ chan' = [chan EXCEPT ![a][b] = Tail(@)]
      /\ UNCHANGED <<bus, links, sent, now, cuts, reqs, tasks>>
      /\ RouteMessage(b, m, wal, {}) \/ NobodyListens(wal, {})
  BY DEF ReceiveEvent, rpcVars
<1>2. Shrunk(a, b, m)
  BY <1>1, Known, ReadsHead
<1>. HIDE DEF m
<1>3. m \in Message /\ m \in wal[a] /\ m.ts \in 1..now /\ now \in Nat /\ now \in 0..MaxMsgs
  <2>1. m = chan[a][b][1] /\ 1 \in 1..Len(chan[a][b])
    BY <1>2 DEF Shrunk
  <2>2. /\ chan[a][b][1] \in Message /\ chan[a][b][1] \in wal[a]
        /\ chan[a][b][1].ts \in 1..now
    BY <2>1, Known, OnLink
  <2>3. now \in Nat /\ now \in 0..MaxMsgs
    BY Known DEF TypeInv
  <2>. QED  BY <2>1, <2>2, <2>3
<1>4. /\ Accepts(b, m, wal, {}) \/ Ignores(b, m, wal, {})
      /\ passed' \in [Agent -> [Agent -> 0..RateLimit]]
      /\ HeardAt(b, {m.ts})
  BY <1>1, <1>3, Known, Arrives
<1>5. Reads(a, b, m)
  <2>1. /\ Ears(subs'[b]) \subseteq Ears(subs[b]) \cup {m.ts}
        /\ \A x \in Agent : x # b => Ears(subs'[x]) \subseteq Ears(subs[x])
    BY <1>4, Known, HeardKeeps
  <2>2. CASE Accepts(b, m, wal, {})
    BY <1>1, <2>1, <2>2 DEF Accepts, Reads, m
  <2>3. CASE Ignores(b, m, wal, {})
    BY <1>1, <2>3 DEF Ignores, Reads, m
  <2>. QED  BY <1>4, <2>2, <2>3
<1>6. Traffic'
  BY <1>5, Known, TrafficReads
<1>7. /\ wal' \in [Agent -> SUBSET Message]
      /\ \A x \in Agent : wal'[x] = wal[x] \/ wal'[x] = wal[x] \cup {m}
      /\ last' = last \/ last' = [last EXCEPT ![b] = m.ts]
      /\ missed' \subseteq (1..now') \X Agent
  <2>1. wal \in [Agent -> SUBSET Message] /\ missed \subseteq (1..now) \X Agent
        /\ <<m.ts, b>> \in (1..now) \X Agent
    <3>1. wal \in [Agent -> SUBSET Message] /\ missed \subseteq (1..now) \X Agent
      BY Known DEF TypeInv
    <3>2. m.ts \in 1..now /\ b \in Agent
      BY <1>3
    <3>. QED  BY ONLY <3>1, <3>2
  <2>2. CASE Accepts(b, m, wal, {})
    BY <1>1, <1>3, <2>1, <2>2 DEF Accepts
  <2>3. CASE Ignores(b, m, wal, {})
    BY <1>1, <1>3, <2>1, <2>3 DEF Ignores
  <2>. QED  BY <1>4, <2>2, <2>3
<1>8. \A x \in Agent : \A k \in wal'[x] : (\E y \in Agent : k \in wal[y]) \/ (Genuine(k))'
  BY <1>3, <1>7
<1>9. chan' \in [Agent -> [Agent -> Seq(Message)]]
  BY <1>2 DEF Shrunk
<1>10. m.ts \in 1..now' /\ now <= now' /\ now' \in 0..MaxMsgs
  BY <1>1, <1>3
<1>. QED  BY <1>1, <1>3, <1>4, <1>6, <1>7, <1>8, <1>9, <1>10, EventKeeps

(* Rows that are replayed are in the log: nothing under way or missed is. *)
LEMMA SyncKeeps ==
  ASSUME MeshInv, NEW a \in Agent, SyncOnReconnect(a), UNCHANGED rpcVars
  PROVE  MeshInv' /\ HeardAt(a, {k.ts : k \in wal[a]})
<1>. DEFINE R == Replayed(a)
            Z == {k.ts : k \in wal[a]}
<1>1. R \subseteq wal[a] /\ R \subseteq Message
  BY Known DEF Replayed
<1>2. Cardinality(R) \in Nat
  <2>1. IsFiniteSet(wal[a])
    BY Known DEF Bounded
  <2>2. IsFiniteSet(R)
    BY <1>1, <2>1, FS_Subset
  <2>. QED  BY <2>2, FS_CardinalityType
<1>3. UNCHANGED <<bus, wal, last, passed, links, chan, sent, missed, now, cuts, reqs, tasks>>
  BY DEF SyncOnReconnect, rpcVars
<1>4. PICK ms \in [1..Cardinality(R) -> R] : subs' = [subs EXCEPT ![a] = DispatchedAgain(subs[a], ms)]
  BY DEF SyncOnReconnect
<1>5. SameSubs(subs[a], DispatchedAgain(subs[a], ms), Z)
  <2>1. subs[a] \in Seq(Sub)
    BY Known
  <2>. HIDE DEF R, Z
  <2>2. SameSubs(subs[a], DispatchedAgain(subs[a], ms), {k.ts : k \in R})
    BY <1>1, <1>2, <2>1, DispatchedAgainSubs
  <2>3. {k.ts : k \in R} \subseteq Z
    BY <1>1 DEF Z
  <2>. QED  BY <2>2, <2>3 DEF SameSubs
<1>. HIDE DEF R, Z
<1>6. HeardAt(a, Z)
  <2>1. subs \in [Agent -> Seq(Sub)] /\ DispatchedAgain(subs[a], ms) \in Seq(Sub)
    BY <1>5, Known DEF SameSubs
  <2>2. subs' \in [Agent -> Seq(Sub)] /\ subs'[a] = DispatchedAgain(subs[a], ms)
        /\ \A x \in Agent : x # a => subs'[x] = subs[x]
    BY <1>4, <2>1
  <2>. QED  BY <1>5, <2>2 DEF HeardAt
<1>7. TypeInv'
  BY <1>3, <1>6, Known DEF TypeInv, HeardAt
<1>8. Traffic'
  <2>1. /\ Ears(subs'[a]) \subseteq Ears(subs[a]) \cup Z
        /\ \A x \in Agent : x # a => Ears(subs'[x]) \subseteq Ears(subs[x])
    BY <1>6, Known, HeardKeeps
  <2>2. \A x \in Agent : Ears(subs'[x]) \subseteq Ears(subs[x]) \cup {k.ts : k \in wal[x]}
    BY <2>1 DEF Z
  <2>3. \A x \in Agent : Pair(x, x) \notin links'
    BY <1>3, Known DEF Traffic, LinksRise
  <2>. QED  BY <1>3, <2>2, <2>3, Known, TrafficRests
<1>9. AllGenuine' /\ Callbacks' /\ AloneStays'
  BY <1>3, Known, RequestsStay DEF AllGenuine, Genuine
<1>10. now \in Nat /\ now <= now' /\ now' \in Nat /\ \A x \in Agent : DOMAIN bus[x] \subseteq DOMAIN bus'[x]
  BY <1>3, Known
<1>11. /\ Covered'
       /\ \A x \in Agent : \A i \in DOMAIN subs'[x] : subs'[x][i].since <= now'
  BY <1>6, <1>10, CoveredStays
<1>12. Bounded'
  BY <1>3, <1>11, Known DEF Bounded
<1>. QED  BY <1>6, <1>7, <1>8, <1>9, <1>11, <1>12 DEF MeshInv, Z

(* What is said of logs, callbacks, subscriptions and requests needs no more than
   that they are unchanged. *)
LEMMA RestStays ==
  ASSUME MeshInv, UNCHANGED <<subs, bus, wal, now, reqs>>
  PROVE  AllGenuine' /\ Callbacks' /\ Covered' /\ Bounded' /\ AloneStays'
<1>1. AllGenuine'
  BY Known DEF AllGenuine, Genuine
<1>2. Callbacks' /\ AloneStays'
  BY Known, RequestsStay
<1>3. Covered'
  BY Known DEF Covered, Open
<1>4. Bounded'
  BY Known DEF Bounded
<1>. QED  BY <1>1, <1>2, <1>3, <1>4

(* What a broken link loses is missed, and has been heard by nobody. *)
LEMMA CutKeeps ==
  ASSUME MeshInv, NEW a \in Agent, NEW b \in Agent, Cut(a, b), UNCHANGED rpcVars
  PROVE  MeshInv'
<1>1. /\ UNCHANGED <<subs, bus, wal, last, passed, sent, now, reqs, tasks>>
      /\ links' \subseteq links /\ cuts < MaxCuts /\ cuts' = cuts + 1
      /\ missed' = missed \cup (UnderWay(a, b) \X {b}) \cup (UnderWay(b, a) \X {a})
  BY DEF Cut, rpcVars
<1>2. chan' \in [Agent -> [Agent -> Seq(Message)]] /\ Traffic'
  BY Known, TrafficCut
<1>3. cuts' \in 0..MaxCuts
  <2>1. cuts \in 0..MaxCuts /\ MaxCuts \in Nat
    BY BoundAssumption, Known DEF TypeInv
  <2>2. cuts < MaxCuts /\ cuts' = cuts + 1
    BY <1>1
  <2>. QED  BY ONLY <2>1, <2>2
<1>4. missed' \subseteq (1..now') \X Agent
  <2>1. ASSUME NEW x \in Agent, NEW y \in Agent  PROVE UnderWay(x, y) \subseteq 1..now
    <3>1. ASSUME NEW i \in 1..Len(chan[x][y])  PROVE chan[x][y][i].ts \in 1..now
      BY Known, OnLink
    <3>2. DOMAIN chan[x][y] = 1..Len(chan[x][y])
      <4>1. chan[x][y] \in Seq(Message)
        BY Known
      <4>. QED  BY <4>1
    <3>. QED  BY <3>1, <3>2 DEF UnderWay, ToSet
  <2>2. missed \subseteq (1..now) \X Agent
    BY Known DEF TypeInv
  <2>3. UnderWay(a, b) \subseteq 1..now /\ UnderWay(b, a) \subseteq 1..now
    BY <2>1
  <2>. QED  BY <1>1, <2>2, <2>3
<1>5. TypeInv'
  <2>0. TypeInv
    BY Known
  <2>1. /\ subs' \in [Agent -> Seq(Sub)] /\ DOMAIN bus' = Agent
        /\ wal' \in [Agent -> SUBSET Message] /\ last' \in [Agent -> 0..now']
        /\ passed' \in [Agent -> [Agent -> 0..RateLimit]]
        /\ links' \subseteq Ends
        /\ now' \in 0..MaxMsgs
        /\ reqs' \in Seq(Req) /\ tasks' \subseteq [at : Server, re : DOMAIN reqs']
    BY <1>1, <2>0 DEF TypeInv
  <2>. QED  BY <1>2, <1>3, <1>4, <2>1 DEF TypeInv
<1>6. AllGenuine' /\ Callbacks' /\ Covered' /\ Bounded' /\ AloneStays'
  BY <1>1, RestStays
<1>. QED  BY <1>2, <1>5, <1>6 DEF MeshInv

(* A mended link is empty. *)
LEMMA MendKeeps ==
  ASSUME MeshInv, NEW a \in Agent, NEW b \in Agent, Mend(a, b), UNCHANGED rpcVars
  PROVE  MeshInv'
<1>1. /\ UNCHANGED <<subs, bus, wal, last, passed, chan, sent, missed, now, cuts, reqs, tasks>>
      /\ a # b /\ links' = links \cup {Pair(a, b)}
  BY DEF Mend, rpcVars
<1>2. TypeInv'
  <2>1. Pair(a, b) \in Ends
    BY DEF Ends
  <2>. QED  BY <1>1, <2>1, Known DEF TypeInv
<1>3. Traffic'
  <2>1. ASSUME NEW x \in Agent  PROVE Pair(x, x) \notin links'
    <3>1. Pair(x, x) \notin links
      BY Known DEF Traffic, LinksRise
    <3>2. Pair(x, x) # Pair(a, b)
      BY <1>1 DEF Pair
    <3>. QED  BY <1>1, <3>1, <3>2
  <2>. QED  BY <1>1, <2>1, Known, TrafficRests
<1>4. AllGenuine' /\ Callbacks' /\ Covered' /\ Bounded' /\ AloneStays'
  BY <1>1, RestStays
<1>. QED  BY <1>2, <1>3, <1>4 DEF MeshInv

(* Last the steps of requests. *)

(* A server has a callback for what it serves. *)
LEMMA ServeKeeps ==
  ASSUME MeshInv, NEW s \in Server, NEW c \in Method, Serve(s, c)
  PROVE  MeshInv'
<1>1. /\ UNCHANGED <<subs, wal, last, passed, links, chan, sent, missed, now, cuts, reqs, tasks>>
      /\ bus' = [bus EXCEPT ![s] = Subscribed(bus[s], {Request(c)}, "handle")]
      /\ s \in Agent
  BY RpcAssumption DEF Serve, rpcVars
<1>2. /\ \A x \in Agent : x # s => bus'[x] = bus[x]
      /\ DOMAIN bus' = Agent
      /\ DOMAIN bus'[s] = DOMAIN bus[s] \cup {Request(c)}
      /\ \A t \in DOMAIN bus[s] : bus'[s][t] = bus[s][t]
      /\ Request(c) \notin DOMAIN bus[s] => bus'[s][Request(c)] = "handle"
  BY <1>1, Known DEF Subscribed
<1>3. TypeInv'
  BY <1>1, <1>2, Known DEF TypeInv
<1>4. Traffic'
  <2>1. \A x \in Agent : Pair(x, x) \notin links'
    BY <1>1, Known DEF Traffic, LinksRise
  <2>. QED  BY <1>1, <2>1, Known, TrafficRests
<1>5. AllGenuine' /\ Bounded' /\ AloneStays'
  BY <1>1, Known DEF AllGenuine, Genuine, Bounded, AloneStays
<1>6. Callbacks'
  <2>1. ASSUME NEW x \in Agent, NEW t \in DOMAIN bus'[x]  PROVE (Callback(x, t))'
    <3>1. CASE t \in DOMAIN bus[x]
      <4>1. bus'[x][t] = bus[x][t] /\ Callback(x, t)
        BY <1>2, <3>1, Known DEF Callbacks
      <4>. QED  BY <1>1, <4>1 DEF Callback
    <3>2. CASE t \notin DOMAIN bus[x]
      <4>1. x = s /\ t = Request(c) /\ bus'[x][t] = "handle"
        BY <1>2, <3>2
      <4>. QED  BY <4>1, Kinds DEF Callback
    <3>. QED  BY <3>1, <3>2
  <2>. QED  BY <2>1 DEF Callbacks
<1>7. Covered'
  BY <1>1, <1>2, Known DEF Covered, Open
<1>. QED  BY <1>3, <1>4, <1>5, <1>6, <1>7 DEF MeshInv

(* The end of a request takes the callback of its agent's reply topic away. *)
LEMMA FinishKeeps ==
  ASSUME MeshInv, NEW k \in DOMAIN reqs, NEW o \in Outcome, Finish(k, o)
  PROVE  MeshInv'
<1>. DEFINE a == reqs[k].by
            r == [reqs[k] EXCEPT !.state = o]
<1>1. /\ UNCHANGED <<subs, wal, last, passed, links, chan, sent, missed, now, cuts, tasks>>
      /\ bus' = [bus EXCEPT ![a] = Unsubscribed(bus[a], {Reply(a)})]
      /\ reqs' = [reqs EXCEPT ![k] = r] /\ reqs[k].state = "waits"
  BY DEF Finish
<1>. HIDE DEF r
<1>2. reqs[k] \in Req /\ reqs[k].by \in Caller /\ a \in Agent
  <2>1. reqs[k] \in Req
    <3>1. reqs \in Seq(Req) /\ k \in 1..Len(reqs)
      BY Known
    <3>. QED  BY <3>1, ElementOfSeq, Zenon
  <2>2. reqs[k].by \in Caller
    BY <2>1 DEF Req
  <2>. QED  BY <2>1, <2>2, RpcAssumption
<1>3. /\ reqs' \in Seq(Req) /\ DOMAIN reqs' = DOMAIN reqs
      /\ reqs'[k].state = o
      /\ \A q \in DOMAIN reqs : q # k => reqs'[q] = reqs[q]
      /\ \A q \in DOMAIN reqs : reqs'[q].by = reqs[q].by /\ reqs'[q].answer = reqs[q].answer
                                /\ reqs'[q].alone = reqs[q].alone
  <2>1. r \in Req /\ r.state = o /\ r.by = reqs[k].by /\ r.answer = reqs[k].answer
        /\ r.alone = reqs[k].alone
    BY <1>2 DEF Req, r
  <2>2. reqs' = [reqs EXCEPT ![k] = r]
    BY <1>1
  <2>3. reqs' \in Seq(Req) /\ DOMAIN reqs' = DOMAIN reqs
    <3>1. reqs \in Seq(Req) /\ k \in 1..Len(reqs) /\ r \in Req
      BY <2>1, Known
    <3>2. [reqs EXCEPT ![k] = r] \in Seq(Req)
      BY <3>1, ExceptSeq, Zenon
    <3>. QED  BY <2>2, <3>2
  <2>4. reqs'[k] = r /\ \A q \in DOMAIN reqs : q # k => reqs'[q] = reqs[q]
    BY <2>2
  <2>. QED  BY <2>1, <2>3, <2>4
<1>4. /\ \A x \in Agent : x # a => bus'[x] = bus[x]
      /\ DOMAIN bus' = Agent
      /\ DOMAIN bus'[a] = DOMAIN bus[a] \ {Reply(a)}
      /\ \A t \in DOMAIN bus'[a] : bus'[a][t] = bus[a][t]
  BY <1>1, <1>2, Known DEF Unsubscribed
<1>. HIDE DEF a
<1>5. TypeInv'
  <2>0. TypeInv
    BY Known
  <2>1. /\ subs' \in [Agent -> Seq(Sub)]
        /\ wal' \in [Agent -> SUBSET Message] /\ last' \in [Agent -> 0..now']
        /\ passed' \in [Agent -> [Agent -> 0..RateLimit]]
        /\ links' \subseteq Ends
        /\ chan' \in [Agent -> [Agent -> Seq(Message)]]
        /\ now' \in 0..MaxMsgs
    BY <1>1, <2>0 DEF TypeInv
  <2>2. missed' \subseteq (1..now') \X Agent /\ cuts' \in 0..MaxCuts
    BY <1>1, <2>0 DEF TypeInv
  <2>3. tasks \subseteq [at : Server, re : DOMAIN reqs] /\ tasks' = tasks
    BY <1>1, <2>0 DEF TypeInv
  <2>4. tasks' \subseteq [at : Server, re : DOMAIN reqs']
    BY <1>3, <2>3, Zenon
  <2>. QED  BY <1>3, <1>4, <2>1, <2>2, <2>4 DEF TypeInv
<1>6. Traffic'
  <2>1. \A x \in Agent : Pair(x, x) \notin links'
    BY <1>1, Known DEF Traffic, LinksRise
  <2>. QED  BY <1>1, <2>1, Known, TrafficRests
<1>7. AllGenuine'
  BY <1>1, <1>3, Known DEF AllGenuine, Genuine
<1>8. Bounded'
  BY <1>1, <1>3, Known DEF Bounded
<1>9. AloneStays'
  <2>1. ASSUME NEW q \in DOMAIN reqs, NEW p \in DOMAIN reqs,
               p < q, reqs[q].by = reqs[p].by, reqs[q].alone
        PROVE  reqs'[p].state # "waits"
    <3>1. reqs[p].state # "waits"
      BY <2>1, Known DEF AloneStays
    <3>2. p # k
      BY <1>1, <3>1
    <3>. QED  BY <1>3, <3>1, <3>2
  <2>. QED  BY <1>3, <2>1 DEF AloneStays
<1>10. Callbacks'
  <2>1. ASSUME NEW x \in Agent, NEW t \in DOMAIN bus'[x]  PROVE (Callback(x, t))'
    <3>1. t \in DOMAIN bus[x] /\ bus'[x][t] = bus[x][t] /\ Callback(x, t)
          /\ (x = a => t # Reply(a))
      BY <1>4, Known DEF Callbacks
    <3>2. CASE t = Reply(x)
      <4>1. x # a
        BY <3>1, <3>2
      <4>2. /\ bus[x][t] \in DOMAIN reqs
            /\ reqs[bus[x][t]].by = x /\ reqs[bus[x][t]].state = "waits"
        BY <3>1, <3>2, Kinds DEF Callback
      <4>3. bus[x][t] # k
        BY <4>1, <4>2 DEF a
      <4>. QED  BY <1>3, <3>1, <3>2, <4>2, <4>3 DEF Callback
    <3>3. CASE t # Reply(x)
      BY <3>1, <3>3 DEF Callback
    <3>. QED  BY <3>2, <3>3
  <2>. QED  BY <2>1 DEF Callbacks
<1>11. Covered'
  <2>1. \A caps : Reply(a) \notin Topics(caps)
    BY Kinds DEF Topics
  <2>2. ASSUME NEW x \in Agent, NEW i \in DOMAIN subs[x], subs[x][i].open
        PROVE  Topics(subs[x][i].caps) \subseteq DOMAIN bus'[x]
    <3>1. Topics(subs[x][i].caps) \subseteq DOMAIN bus[x]
      BY <2>2, Known DEF Covered, Open
    <3>2. DOMAIN bus[x] \ {Reply(a)} \subseteq DOMAIN bus'[x]
      BY <1>4
    <3>. QED  BY <2>1, <3>1, <3>2
  <2>. QED  BY <1>1, <2>2 DEF Covered, Open
<1>. QED  BY <1>5, <1>6, <1>7, <1>8, <1>9, <1>10, <1>11 DEF MeshInv

(* The request k of a, and its message. *)
RequestMade(a, c, k, r, m) ==
  /\ k = Len(reqs) + 1
  /\ r = [by |-> a, state |-> "waits", answer |-> 0,
          alone |-> \A q \in DOMAIN reqs : reqs[q].by = a => reqs[q].state # "waits"]
  /\ m = [topic |-> Request(c), cap |-> c, from |-> a, ts |-> now + 1, re |-> k]
  /\ now < MaxMsgs
  /\ now' = now + 1
  /\ reqs' = Append(reqs, r)
  /\ bus' = [bus EXCEPT ![a] = Subscribed(bus[a], {Reply(a)}, k)]
  /\ wal' = Logged(a, m)
  /\ tasks' = tasks \cup (IF m.topic \in DOMAIN bus[a] THEN {[at |-> a, re |-> k]} ELSE {})
  /\ chan' = Broadcast(a, m)
  /\ UNCHANGED <<subs, last, passed, links, sent, missed, cuts>>

(* The same, with what the request and its message are. *)
LEMMA RequestFacts ==
  ASSUME MeshInv, NEW a \in Caller, NEW c \in Method, NEW k, NEW r, NEW m,
         RequestMade(a, c, k, r, m)
  PROVE  /\ a \in Agent /\ k = Len(reqs) + 1 /\ k \in Nat \ {0} /\ k \notin DOMAIN reqs
         /\ r \in Req /\ r.by = a /\ r.state = "waits" /\ r.answer = 0
         /\ r.alone <=> \A q \in DOMAIN reqs : reqs[q].by = a => reqs[q].state # "waits"
         /\ m \in Message /\ m.topic = Request(c) /\ m.from = a /\ m.ts = now + 1 /\ m.re = k
         /\ m.topic[1] = "request"
         /\ reqs' \in Seq(Req) /\ DOMAIN reqs' = DOMAIN reqs \cup {k}
         /\ reqs'[k] = r /\ \A q \in DOMAIN reqs : reqs'[q] = reqs[q]
<1>1. /\ reqs \in Seq(Req) /\ Len(reqs) \in Nat /\ DOMAIN reqs = 1..Len(reqs) /\ now \in Nat
      /\ a \in Agent
  BY Known, RpcAssumption
<1>2. k = Len(reqs) + 1 /\ k \in Nat \ {0} /\ k \notin DOMAIN reqs
  BY <1>1 DEF RequestMade
<1>3. /\ r \in Req /\ r.by = a /\ r.state = "waits" /\ r.answer = 0
      /\ r.alone <=> \A q \in DOMAIN reqs : reqs[q].by = a => reqs[q].state # "waits"
  BY DEF RequestMade, Req
<1>4. /\ m \in Message /\ m.topic = Request(c) /\ m.from = a /\ m.ts = now + 1 /\ m.re = k
  BY <1>1, <1>2 DEF RequestMade, Message, Topic
<1>5. /\ Append(reqs, r) \in Seq(Req) /\ Len(Append(reqs, r)) = Len(reqs) + 1
      /\ \A i \in 1..(Len(reqs) + 1) : Append(reqs, r)[i] = IF i <= Len(reqs) THEN reqs[i] ELSE r
  BY <1>1, <1>3, Appended
<1>6. DOMAIN Append(reqs, r) = 1..(Len(reqs) + 1)
  BY <1>5
<1>7. Append(reqs, r)[k] = r /\ \A q \in DOMAIN reqs : Append(reqs, r)[q] = reqs[q]
  BY <1>1, <1>2, <1>5
<1>8. 1..(Len(reqs) + 1) = 1..Len(reqs) \cup {k}
  BY <1>1, <1>2
<1>9. reqs' = Append(reqs, r)
  BY DEF RequestMade
<1>10. m.topic[1] = "request"
  BY <1>4, Kinds
<1>. QED  BY <1>1, <1>2, <1>3, <1>4, <1>5, <1>6, <1>7, <1>8, <1>9, <1>10

(* A request has a number of its own, and so has its message. *)
LEMMA MakeRequestKeeps ==
  ASSUME MeshInv, NEW a \in Caller, NEW c \in Method, NEW k, NEW r, NEW m,
         RequestMade(a, c, k, r, m)
  PROVE  MeshInv'
<1>1. /\ a \in Agent /\ k = Len(reqs) + 1 /\ k \in Nat \ {0} /\ k \notin DOMAIN reqs
      /\ r \in Req /\ r.by = a /\ r.state = "waits" /\ r.answer = 0
      /\ r.alone <=> \A q \in DOMAIN reqs : reqs[q].by = a => reqs[q].state # "waits"
      /\ m \in Message /\ m.topic = Request(c) /\ m.from = a /\ m.ts = now + 1 /\ m.re = k
      /\ m.topic[1] = "request"
      /\ reqs' \in Seq(Req) /\ DOMAIN reqs' = DOMAIN reqs \cup {k}
      /\ reqs'[k] = r /\ \A q \in DOMAIN reqs : reqs'[q] = reqs[q]
  BY RequestFacts
<1>2. /\ now < MaxMsgs /\ now' = now + 1 /\ wal' = Logged(a, m) /\ chan' = Broadcast(a, m)
      /\ UNCHANGED <<subs, last, passed, links, sent, missed, cuts>>
      /\ bus' = [bus EXCEPT ![a] = Subscribed(bus[a], {Reply(a)}, k)]
      /\ tasks' = tasks \/ (tasks' = tasks \cup {[at |-> a, re |-> k]} /\ m.topic \in DOMAIN bus[a])
  BY DEF RequestMade
<1>3. /\ now' \in 0..MaxMsgs /\ now <= now' /\ m.ts \in 1..now' /\ now' \in Nat
      /\ chan' \in [Agent -> [Agent -> Seq(Message)]]
      /\ wal' \in [Agent -> SUBSET Message]
      /\ \A x \in Agent : \A l \in wal'[x] : (\E y \in Agent : l \in wal[y]) \/ l = m
      /\ missed \subseteq (1..now') \X Agent
      /\ \A x \in Agent : IsFiniteSet(wal'[x])
  BY <1>1, <1>2, NewMessage
<1>4. /\ \A x \in Agent : x # a => bus'[x] = bus[x]
      /\ DOMAIN bus' = Agent
      /\ DOMAIN bus'[a] = DOMAIN bus[a] \cup {Reply(a)}
      /\ \A t \in DOMAIN bus[a] : bus'[a][t] = bus[a][t]
      /\ Reply(a) \notin DOMAIN bus[a] => bus'[a][Reply(a)] = k
  BY <1>1, <1>2, Known DEF Subscribed
<1>5. TypeInv'
  <2>0. TypeInv
    BY Known
  <2>1. last' \in [Agent -> 0..now']
    <3>1. last \in [Agent -> 0..now] /\ now \in Nat /\ now' = now + 1
      BY <1>2, <2>0, Known DEF TypeInv
    <3>2. 0..now \subseteq 0..(now + 1)
      BY <3>1
    <3>. QED  BY <1>2, <3>1, <3>2
  <2>2. tasks' \subseteq [at : Server, re : DOMAIN reqs']
    <3>1. tasks \subseteq [at : Server, re : DOMAIN reqs]
      BY <2>0 DEF TypeInv
    <3>2. tasks \subseteq [at : Server, re : DOMAIN reqs']
      BY <1>1, <3>1
    <3>3. ASSUME m.topic \in DOMAIN bus[a]  PROVE [at |-> a, re |-> k] \in [at : Server, re : DOMAIN reqs']
      <4>1. Callback(a, m.topic)
        BY <1>1, <3>3, Known DEF Callbacks
      <4>2. a \in Server
        BY <1>1, <4>1, Kinds DEF Callback
      <4>. QED  BY <1>1, <4>2
    <3>. QED  BY <1>2, <3>2, <3>3
  <2>3. /\ subs' \in [Agent -> Seq(Sub)]
        /\ passed' \in [Agent -> [Agent -> 0..RateLimit]]
        /\ links' \subseteq Ends
        /\ cuts' \in 0..MaxCuts
    BY <1>2, <2>0 DEF TypeInv
  <2>. QED  BY <1>1, <1>2, <1>3, <1>4, <2>1, <2>2, <2>3 DEF TypeInv
<1>6. Traffic'
  <2>1. Sends(a, m, {})
    BY <1>1, <1>2 DEF Sends
  <2>2. /\ Ears(subs'[a]) \subseteq Ears(subs[a]) \cup {m.ts}
        /\ \A x \in Agent : x # a => Ears(subs'[x]) \subseteq Ears(subs[x])
    BY <1>2
  <2>. QED  BY <1>1, <2>1, <2>2, Known, TrafficSends
<1>7. AllGenuine'
  <2>1. (Genuine(m))'
    BY <1>1 DEF Genuine
  <2>2. \A x \in Agent : \A l \in wal'[x] : (\E y \in Agent : l \in wal[y]) \/ (Genuine(l))'
    BY <1>3, <2>1
  <2>3. \A q \in DOMAIN reqs : q \in DOMAIN reqs' /\ reqs'[q].by = reqs[q].by
    BY <1>1
  <2>. QED  BY <2>2, <2>3, Known, GenuineStays
<1>8. Callbacks'
  <2>1. ASSUME NEW x \in Agent, NEW t \in DOMAIN bus'[x]  PROVE (Callback(x, t))'
    <3>1. CASE t \in DOMAIN bus[x]
      <4>1. bus'[x][t] = bus[x][t] /\ Callback(x, t)
        BY <1>4, <3>1, Known DEF Callbacks
      <4>. QED  BY <1>1, <4>1 DEF Callback
    <3>2. CASE t \notin DOMAIN bus[x]
      <4>1. x = a /\ t = Reply(a) /\ bus'[x][t] = k
        BY <1>4, <3>2
      <4>. QED  BY <1>1, <4>1 DEF Callback
    <3>. QED  BY <3>1, <3>2
  <2>. QED  BY <2>1 DEF Callbacks
<1>9. Covered'
  <2>1. \A x \in Agent : DOMAIN bus[x] \subseteq DOMAIN bus'[x]
    BY <1>4
  <2>. QED  BY <1>2, <2>1, Known DEF Covered, Open
<1>10. Bounded'
  <2>1. ASSUME NEW x \in Agent, NEW i \in DOMAIN subs'[x]  PROVE subs'[x][i].since <= now'
    <3>1. subs[x] \in Seq(Sub) /\ i \in DOMAIN subs[x] /\ subs[x][i].since <= now
      BY <1>2, Known DEF Bounded
    <3>2. subs[x][i] \in Sub
      BY <3>1
    <3>3. subs[x][i].since \in Nat /\ now \in Nat
      BY <3>2, Known DEF Sub
    <3>. QED  BY <1>2, <3>1, <3>3
  <2>2. \A q \in DOMAIN reqs' : reqs'[q].answer \in DOMAIN reqs' \cup {0}
    BY <1>1, Known DEF Bounded
  <2>. QED  BY <1>3, <2>1, <2>2 DEF Bounded
<1>11. AloneStays'
  <2>1. ASSUME NEW q \in DOMAIN reqs', NEW p \in DOMAIN reqs', p < q,
               reqs'[q].by = reqs'[p].by, reqs'[q].alone
        PROVE  reqs'[p].state # "waits"
    <3>1. p \in DOMAIN reqs
      <4>1. \A x \in DOMAIN reqs : x < k
        BY <1>1, Known
      <4>2. ~(k < k)
        BY <1>1
      <4>3. DOMAIN reqs \subseteq Nat
        BY Known
      <4>4. p # k
        BY <1>1, <2>1, <4>1, <4>2, <4>3
      <4>. QED  BY <1>1, <4>4
    <3>2. CASE q \in DOMAIN reqs
      BY <1>1, <2>1, <3>1, <3>2, Known DEF AloneStays
    <3>3. CASE q = k
      BY <1>1, <2>1, <3>1, <3>3
    <3>. QED  BY <1>1, <3>2, <3>3
  <2>. QED  BY <2>1 DEF AloneStays
<1>. QED  BY <1>5, <1>6, <1>7, <1>8, <1>9, <1>10, <1>11 DEF MeshInv

(* What a message at the head of a link is. *)
LEMMA HeadFacts ==
  ASSUME MeshInv, NEW a \in Agent, NEW b \in Agent, NEW m, Shrunk(a, b, m)
  PROVE  /\ m \in Message /\ m \in wal[a] /\ m.from = a /\ m.ts \in 1..now /\ a # b
         /\ Genuine(m) /\ 1 \in 1..Len(chan[a][b]) /\ m = chan[a][b][1]
<1>1. 1 \in 1..Len(chan[a][b]) /\ m = chan[a][b][1]
  BY DEF Shrunk
<1>2. m \in Message /\ m \in wal[a] /\ m.from = a /\ m.ts \in 1..now /\ a # b
  BY <1>1, Known, OnLink
<1>. QED  BY <1>1, <1>2, Known DEF AllGenuine

(* A request that an agent with a callback for it gets is a task of a server. *)
LEMMA TaskTyped ==
  ASSUME MeshInv, NEW b \in Agent, NEW m, Genuine(m), m.topic[1] = "request",
         m.topic \in DOMAIN bus[b]
  PROVE  b \in Server /\ m.re \in DOMAIN reqs /\ reqs[m.re].by = m.from
<1>1. Callback(b, m.topic)
  BY Known DEF Callbacks
<1>2. b \in Server
  BY <1>1, Kinds DEF Callback
<1>3. m.re \in DOMAIN reqs /\ reqs[m.re].by = m.from
  BY Kinds DEF Genuine
<1>. QED  BY <1>2, <1>3

(* A task is that of a server, for a request that was made. *)
LEMMA ReceiveRequestKeeps ==
  ASSUME MeshInv, NEW a \in Agent, NEW b \in Agent, ReceiveRequest(a, b)
  PROVE  MeshInv'
<1>. DEFINE m == Head(chan[a][b])
<1>1. /\ chan[a][b] # <<>> /\ chan' = [chan EXCEPT ![a][b] = Tail(@)]
      /\ UNCHANGED <<subs, bus, wal, last, passed, links, sent, missed, now, cuts, reqs>>
      /\ m.topic[1] = "request"
      /\ tasks' = tasks \cup (IF m.topic \in DOMAIN bus[b] THEN {[at |-> b, re |-> m.re]} ELSE {})
  BY DEF ReceiveRequest
<1>2. Shrunk(a, b, m)
  BY <1>1, Known, ReadsHead
<1>3. Reads(a, b, m)
  BY <1>1 DEF Reads
<1>. HIDE DEF m
<1>4. Traffic'
  BY <1>3, Known, TrafficReads
<1>5. TypeInv'
  <2>0. TypeInv
    BY Known
  <2>1. tasks' \subseteq [at : Server, re : DOMAIN reqs']
    <3>1. tasks \subseteq [at : Server, re : DOMAIN reqs]
      BY <2>0 DEF TypeInv
    <3>2. m.topic \in DOMAIN bus[b] => b \in Server /\ m.re \in DOMAIN reqs
      BY <1>1, <1>2, HeadFacts, TaskTyped
    <3>3. m.topic \in DOMAIN bus[b] => [at |-> b, re |-> m.re] \in [at : Server, re : DOMAIN reqs]
      BY <3>2
    <3>. QED  BY <1>1, <3>1, <3>3
  <2>2. chan' \in [Agent -> [Agent -> Seq(Message)]]
    BY <1>2 DEF Shrunk
  <2>3. /\ subs' \in [Agent -> Seq(Sub)] /\ DOMAIN bus' = Agent
        /\ wal' \in [Agent -> SUBSET Message] /\ last' \in [Agent -> 0..now']
        /\ passed' \in [Agent -> [Agent -> 0..RateLimit]]
        /\ links' \subseteq Ends
        /\ missed' \subseteq (1..now') \X Agent
        /\ now' \in 0..MaxMsgs /\ cuts' \in 0..MaxCuts
        /\ reqs' \in Seq(Req)
    BY <1>1, <2>0 DEF TypeInv
  <2>. QED  BY <2>1, <2>2, <2>3 DEF TypeInv
<1>6. AllGenuine' /\ Callbacks' /\ Covered' /\ Bounded' /\ AloneStays'
  BY <1>1, RestStays
<1>. QED  BY <1>4, <1>5, <1>6 DEF MeshInv

(* What an answer changes of the requests is kept. *)
LEMMA AnswerKeeps ==
  ASSUME MeshInv, NEW b \in Agent, NEW h, NEW q, SameReqs, UNCHANGED reqs \/ Gets(b, h, q)
  PROVE  \A k \in DOMAIN reqs' : reqs'[k].answer \in DOMAIN reqs' \cup {0}
<1>1. DOMAIN reqs' = DOMAIN reqs /\ reqs \in Seq(Req)
  BY Known DEF SameReqs
<1>2. CASE UNCHANGED reqs
  BY <1>2, Known DEF Bounded
<1>3. CASE Gets(b, h, q)
  <2>1. ASSUME NEW k \in DOMAIN reqs  PROVE reqs'[k].answer \in DOMAIN reqs \cup {0}
    <3>1. reqs[k] \in Req /\ reqs[k].answer \in DOMAIN reqs \cup {0} /\ q \in DOMAIN reqs
      BY <1>1, <1>3, Known DEF Bounded, Gets
    <3>. DEFINE r == [reqs[h] EXCEPT !.answer = q]
    <3>2. k = h => r.answer = q
      BY <3>1 DEF Req
    <3>. HIDE DEF r
    <3>3. reqs' = [reqs EXCEPT ![h] = r]
      BY <1>3 DEF Gets, r
    <3>4. reqs'[k] = IF k = h THEN r ELSE reqs[k]
      BY <3>3
    <3>. QED  BY <3>1, <3>2, <3>4
  <2>. QED  BY <1>1, <2>1
<1>. QED  BY <1>2, <1>3

(* The answer m of a task t. *)
AnswerMade(t, m) ==
  /\ m = [topic |-> Reply(reqs[t.re].by), cap |-> Reply(reqs[t.re].by), from |-> t.at,
          ts |-> now + 1, re |-> t.re]
  /\ now < MaxMsgs
  /\ now' = now + 1
  /\ tasks' = tasks \ {t}
  /\ wal' = Logged(t.at, m)
  /\ TakeReply(t.at, m)
  /\ chan' = Broadcast(t.at, m)
  /\ UNCHANGED <<subs, bus, last, links, sent, missed, cuts>>

(* What is known of an answer. *)
LEMMA AnswerFacts ==
  ASSUME MeshInv, NEW t \in tasks, NEW m, AnswerMade(t, m)
  PROVE  /\ t.at \in Server /\ t.at \in Agent /\ t.re \in DOMAIN reqs /\ reqs[t.re].by \in Agent
         /\ m \in Message /\ m.topic = Reply(reqs[t.re].by) /\ m.from = t.at /\ m.ts = now + 1
         /\ m.re = t.re /\ m.topic[1] = "reply" /\ Genuine(m)
         /\ t = [at |-> t.at, re |-> t.re]
<1>1. /\ reqs \in Seq(Req) /\ DOMAIN reqs = 1..Len(reqs) /\ now \in Nat
      /\ tasks \subseteq [at : Server, re : DOMAIN reqs]
  BY Known DEF TypeInv
<1>2. /\ t.at \in Server /\ t.at \in Agent /\ t.re \in DOMAIN reqs
      /\ t = [at |-> t.at, re |-> t.re]
  BY <1>1, RpcAssumption
<1>3. reqs[t.re].by \in Agent
  <2>1. reqs[t.re] \in Req
    BY <1>1, <1>2, ElementOfSeq
  <2>. QED  BY <2>1, RpcAssumption DEF Req
<1>4. m.topic = Reply(reqs[t.re].by) /\ m.from = t.at /\ m.ts = now + 1 /\ m.re = t.re
  BY DEF AnswerMade
<1>5. m \in Message
  <2>1. Reply(reqs[t.re].by) \in Topic
    BY <1>3 DEF Topic
  <2>2. now + 1 \in Nat /\ t.re \in Nat
    BY <1>1, <1>2
  <2>. QED  BY <1>2, <2>1, <2>2 DEF AnswerMade, Message
<1>6. m.topic[1] = "reply" /\ Genuine(m)
  BY <1>2, <1>4, Kinds DEF Genuine
<1>. QED  BY <1>2, <1>3, <1>4, <1>5, <1>6

(* An answer is that of a server, to the agent that asked. *)
LEMMA ReplyToKeeps ==
  ASSUME MeshInv, NEW t \in tasks, NEW m, AnswerMade(t, m)
  PROVE  MeshInv'
<1>. DEFINE a == t.at
<1>1. /\ a \in Agent /\ t.re \in DOMAIN reqs
      /\ m \in Message /\ m.topic = Reply(reqs[t.re].by) /\ m.from = a /\ m.ts = now + 1
      /\ m.re = t.re /\ m.topic[1] = "reply" /\ Genuine(m)
  BY AnswerFacts
<1>2. /\ now < MaxMsgs /\ now' = now + 1 /\ wal' = Logged(a, m) /\ chan' = Broadcast(a, m)
      /\ UNCHANGED <<subs, bus, last, links, sent, missed, cuts>>
      /\ TakeReply(a, m) /\ tasks' = tasks \ {t}
  BY DEF AnswerMade
<1>. HIDE DEF a
<1>3. /\ passed' \in [Agent -> [Agent -> 0..RateLimit]]
      /\ SameReqs
      /\ \/ UNCHANGED reqs
         \/ Reply(a) \in DOMAIN bus[a] /\ Gets(a, bus[a][Reply(a)], m.re)
  BY <1>1, <1>2, Known, AnswerArrives
<1>4. /\ now' \in 0..MaxMsgs /\ now <= now' /\ m.ts \in 1..now' /\ now' \in Nat
      /\ chan' \in [Agent -> [Agent -> Seq(Message)]]
      /\ wal' \in [Agent -> SUBSET Message]
      /\ \A x \in Agent : \A l \in wal'[x] : (\E y \in Agent : l \in wal[y]) \/ l = m
      /\ missed \subseteq (1..now') \X Agent
      /\ \A x \in Agent : IsFiniteSet(wal'[x])
  BY <1>1, <1>2, NewMessage
<1>5. TypeInv'
  <2>0. TypeInv
    BY Known
  <2>1. last' \in [Agent -> 0..now']
    <3>1. last \in [Agent -> 0..now] /\ now \in Nat /\ now' = now + 1
      BY <1>2, <2>0, Known DEF TypeInv
    <3>2. 0..now \subseteq 0..(now + 1)
      BY <3>1
    <3>. QED  BY <1>2, <3>1, <3>2
  <2>2. tasks' \subseteq [at : Server, re : DOMAIN reqs'] /\ reqs' \in Seq(Req)
    <3>1. tasks \subseteq [at : Server, re : DOMAIN reqs]
      BY <2>0 DEF TypeInv
    <3>. QED  BY <1>2, <1>3, <3>1 DEF SameReqs
  <2>3. /\ subs' \in [Agent -> Seq(Sub)] /\ DOMAIN bus' = Agent
        /\ links' \subseteq Ends
        /\ cuts' \in 0..MaxCuts
    BY <1>2, <2>0 DEF TypeInv
  <2>. QED  BY <1>2, <1>3, <1>4, <2>1, <2>2, <2>3 DEF TypeInv
<1>6. Traffic'
  <2>1. Sends(a, m, {})
    BY <1>1, <1>2 DEF Sends
  <2>2. /\ Ears(subs'[a]) \subseteq Ears(subs[a]) \cup {m.ts}
        /\ \A x \in Agent : x # a => Ears(subs'[x]) \subseteq Ears(subs[x])
    BY <1>2
  <2>. QED  BY <1>1, <2>1, <2>2, Known, TrafficSends
<1>7. AllGenuine'
  <2>1. \A q \in DOMAIN reqs : q \in DOMAIN reqs' /\ reqs'[q].by = reqs[q].by
    BY <1>3 DEF SameReqs
  <2>2. (Genuine(m))'
    BY <1>1, <2>1 DEF Genuine
  <2>3. \A x \in Agent : \A l \in wal'[x] : (\E y \in Agent : l \in wal[y]) \/ (Genuine(l))'
    BY <1>4, <2>2
  <2>. QED  BY <2>1, <2>3, Known, GenuineStays
<1>8. Callbacks' /\ AloneStays'
  BY <1>2, <1>3, Known, RequestsStay
<1>9. Covered'
  BY <1>2, Known DEF Covered, Open
<1>10. Bounded'
  <2>1. ASSUME NEW x \in Agent, NEW i \in DOMAIN subs'[x]  PROVE subs'[x][i].since <= now'
    <3>1. subs[x] \in Seq(Sub) /\ i \in DOMAIN subs[x] /\ subs[x][i].since <= now
      BY <1>2, Known DEF Bounded
    <3>2. subs[x][i] \in Sub
      BY <3>1
    <3>3. subs[x][i].since \in Nat /\ now \in Nat
      BY <3>2, Known DEF Sub
    <3>. QED  BY <1>2, <3>1, <3>3
  <2>2. \A q \in DOMAIN reqs' : reqs'[q].answer \in DOMAIN reqs' \cup {0}
    BY <1>1, <1>3, AnswerKeeps
  <2>. QED  BY <1>4, <2>1, <2>2 DEF Bounded
<1>. QED  BY <1>5, <1>6, <1>7, <1>8, <1>9, <1>10 DEF MeshInv

(* An answer goes to the request that holds the topic. *)
LEMMA ReceiveReplyKeeps ==
  ASSUME MeshInv, NEW a \in Agent, NEW b \in Agent, ReceiveReply(a, b)
  PROVE  MeshInv'
<1>. DEFINE m == Head(chan[a][b])
<1>1. /\ chan[a][b] # <<>> /\ chan' = [chan EXCEPT ![a][b] = Tail(@)]
      /\ UNCHANGED <<subs, bus, wal, last, links, sent, missed, now, cuts, tasks>>
      /\ m.topic[1] = "reply" /\ TakeReply(b, m)
  BY DEF ReceiveReply
<1>2. Shrunk(a, b, m)
  BY <1>1, Known, ReadsHead
<1>3. Reads(a, b, m)
  BY <1>1 DEF Reads
<1>. HIDE DEF m
<1>4. Traffic'
  BY <1>3, Known, TrafficReads
<1>5. m \in Message /\ Genuine(m)
  BY <1>2, HeadFacts
<1>6. /\ passed' \in [Agent -> [Agent -> 0..RateLimit]]
      /\ SameReqs
      /\ \/ UNCHANGED reqs
         \/ Reply(b) \in DOMAIN bus[b] /\ Gets(b, bus[b][Reply(b)], m.re)
  BY <1>1, <1>5, Known, AnswerArrives
<1>7. TypeInv'
  <2>0. TypeInv
    BY Known
  <2>1. tasks' \subseteq [at : Server, re : DOMAIN reqs'] /\ reqs' \in Seq(Req)
    <3>1. tasks \subseteq [at : Server, re : DOMAIN reqs]
      BY <2>0 DEF TypeInv
    <3>. QED  BY <1>1, <1>6, <3>1 DEF SameReqs
  <2>2. chan' \in [Agent -> [Agent -> Seq(Message)]]
    BY <1>2 DEF Shrunk
  <2>3. /\ subs' \in [Agent -> Seq(Sub)] /\ DOMAIN bus' = Agent
        /\ wal' \in [Agent -> SUBSET Message] /\ last' \in [Agent -> 0..now']
        /\ links' \subseteq Ends
        /\ missed' \subseteq (1..now') \X Agent
        /\ now' \in 0..MaxMsgs /\ cuts' \in 0..MaxCuts
    BY <1>1, <2>0 DEF TypeInv
  <2>. QED  BY <1>6, <2>1, <2>2, <2>3 DEF TypeInv
<1>8. AllGenuine'
  <2>1. \A q \in DOMAIN reqs : q \in DOMAIN reqs' /\ reqs'[q].by = reqs[q].by
    BY <1>6 DEF SameReqs
  <2>2. \A x \in Agent : \A l \in wal'[x] : (\E y \in Agent : l \in wal[y]) \/ (Genuine(l))'
    BY <1>1
  <2>. QED  BY <2>1, <2>2, Known, GenuineStays
<1>9. Callbacks' /\ AloneStays'
  BY <1>1, <1>6, Known, RequestsStay
<1>10. Covered'
  BY <1>1, Known DEF Covered, Open
<1>11. Bounded'
  <2>1. \A q \in DOMAIN reqs' : reqs'[q].answer \in DOMAIN reqs' \cup {0}
    BY <1>6, AnswerKeeps
  <2>. QED  BY <1>1, <2>1, Known DEF Bounded
<1>. QED  BY <1>4, <1>7, <1>8, <1>9, <1>10, <1>11 DEF MeshInv

(* Every step keeps the invariant. *)
LEMMA MeshStep ==
  ASSUME MeshInv, [RpcNext]_allVars
  PROVE  MeshInv'
<1>1. CASE Next /\ UNCHANGED rpcVars
  <2>1. CASE \E a \in Listener, caps \in Filter : Listen(a, caps)
    BY <1>1, <2>1, ListenKeeps
  <2>2. CASE \E a \in Agent : \E i \in DOMAIN subs[a] : Cancel(a, i)
    BY <1>1, <2>2, CancelKeeps
  <2>3. CASE \E e \in Emits : Emit(e[1], e[2])
    <3>1. PICK e \in Emits : Emit(e[1], e[2])
      BY <2>3
    <3>2. e[1] \in Agent /\ e[2] \in Capability
      BY EmitsAssumption
    <3>. QED  BY <1>1, <3>1, <3>2, EmitKeeps
  <2>4. CASE \E a, b \in Agent : ReceiveEvent(a, b)
    BY <1>1, <2>4, ReceiveEventKeeps
  <2>5. CASE \E a \in Agent : SyncOnReconnect(a)
    BY <1>1, <2>5, SyncKeeps
  <2>6. CASE \E a, b \in Agent : Cut(a, b)
    BY <1>1, <2>6, CutKeeps
  <2>7. CASE \E a, b \in Agent : Mend(a, b)
    BY <1>1, <2>7, MendKeeps
  <2>. QED  BY <1>1, <2>1, <2>2, <2>3, <2>4, <2>5, <2>6, <2>7 DEF Next
<1>2. CASE \E s \in Server, c \in Method : Serve(s, c)
  BY <1>2, ServeKeeps
<1>3. CASE \E a \in Caller, c \in Method : MakeRequest(a, c)
  <2>1. PICK a \in Caller, c \in Method : MakeRequest(a, c)
    BY <1>3
  <2>2. \E k, r, m : RequestMade(a, c, k, r, m)
    BY <2>1 DEF MakeRequest, RequestMade
  <2>. QED  BY <2>2, MakeRequestKeeps
<1>4. CASE \E a, b \in Agent : ReceiveRequest(a, b)
  BY <1>4, ReceiveRequestKeeps
<1>5. CASE \E t \in tasks : ReplyTo(t)
  <2>1. PICK t \in tasks : ReplyTo(t)
    BY <1>5
  <2>2. \E m : AnswerMade(t, m)
    BY <2>1 DEF ReplyTo, AnswerMade
  <2>. QED  BY <2>2, ReplyToKeeps
<1>6. CASE \E a, b \in Agent : ReceiveReply(a, b)
  BY <1>6, ReceiveReplyKeeps
<1>7. CASE \E k \in DOMAIN reqs : Return(k) \/ TimeOut(k)
  <2>1. PICK k \in DOMAIN reqs : Return(k) \/ TimeOut(k)
    BY <1>7
  <2>2. \E o \in Outcome : Finish(k, o)
    BY <2>1, Zenon DEF Return, TimeOut, Outcome
  <2>. QED  BY <2>2, FinishKeeps
<1>8. CASE UNCHANGED allVars
  <2>1. /\ UNCHANGED <<subs, bus, wal, last, passed, links, chan, sent, missed, now, cuts>>
        /\ UNCHANGED <<reqs, tasks>>
    BY <1>8 DEF allVars, vars, rpcVars
  <2>2. TypeInv'
    BY <2>1, Known DEF TypeInv
  <2>3. Traffic'
    <3>1. \A x \in Agent : Pair(x, x) \notin links'
      BY <2>1, Known DEF Traffic, LinksRise
    <3>. QED  BY <2>1, <3>1, Known, TrafficRests
  <2>4. AllGenuine' /\ Callbacks' /\ Covered' /\ Bounded' /\ AloneStays'
    BY <2>1, RestStays
  <2>. QED  BY <2>2, <2>3, <2>4 DEF MeshInv
<1>. QED  BY <1>1, <1>2, <1>3, <1>4, <1>5, <1>6, <1>7, <1>8 DEF RpcNext

(* Nothing is sent, heard or asked at first. *)
LEMMA MeshStart == RpcInit => MeshInv
<1>. SUFFICES ASSUME RpcInit  PROVE MeshInv
  OBVIOUS
<1>1. /\ wal = [a \in Agent |-> {}] /\ passed = [a \in Agent |-> [b \in Agent |-> 0]]
      /\ subs = [a \in Agent |-> <<>>] /\ bus = [a \in Agent |-> <<>>]
      /\ last = [a \in Agent |-> 0]
      /\ links = {Pair(a, b) : a, b \in Agent} \ {{a} : a \in Agent}
      /\ chan = [a \in Agent |-> [b \in Agent |-> <<>>]]
      /\ sent = {} /\ missed = {} /\ now = 0 /\ cuts = 0 /\ reqs = <<>> /\ tasks = {}
  BY DEF RpcInit, Init, LogInit, GateInit
<1>2. /\ <<>> \in Seq(Sub) /\ <<>> \in Seq(Message) /\ <<>> \in Seq(Req)
      /\ Len(<<>>) = 0 /\ DOMAIN <<>> = {} /\ 1..0 = {}
  OBVIOUS
<1>3. MaxMsgs \in Nat /\ MaxCuts \in Nat /\ RateLimit \in Nat
  BY BoundAssumption, RateAssumption
<1>4. TypeInv
  <2>1. links \subseteq Ends
    BY <1>1 DEF Ends
  <2>2. subs \in [Agent -> Seq(Sub)] /\ DOMAIN bus = Agent /\ wal \in [Agent -> SUBSET Message]
    BY <1>1, <1>2
  <2>3. now \in 0..MaxMsgs /\ cuts \in 0..MaxCuts /\ last \in [Agent -> 0..now]
        /\ passed \in [Agent -> [Agent -> 0..RateLimit]]
    BY <1>1, <1>3
  <2>4. chan \in [Agent -> [Agent -> Seq(Message)]]
    BY <1>1, <1>2
  <2>5. missed \subseteq (1..now) \X Agent /\ reqs \in Seq(Req)
        /\ tasks \subseteq [at : Server, re : DOMAIN reqs]
    BY <1>1, <1>2
  <2>. QED  BY <2>1, <2>2, <2>3, <2>4, <2>5 DEF TypeInv
<1>5. Traffic
  <2>1. UniqueNumbers /\ SentAreLogged
    BY <1>1 DEF UniqueNumbers, SentAreLogged
  <2>2. \A a, b \in Agent : chan[a][b] = <<>>
    BY <1>1
  <2>3. LinksRise
    <3>1. ASSUME NEW a \in Agent  PROVE Pair(a, a) \notin links
      BY <1>1 DEF Pair
    <3>. QED  BY <1>2, <2>2, <3>1 DEF LinksRise
  <2>4. NotYetHeard
    <3>1. \A b \in Agent : Ears(subs[b]) = {}
      BY <1>1, <1>2 DEF Ears
    <3>. QED  BY <1>1, <1>2, <2>2, <3>1 DEF NotYetHeard
  <2>. QED  BY <2>1, <2>3, <2>4 DEF Traffic
<1>6. AllGenuine /\ Callbacks /\ AloneStays
  BY <1>1, <1>2 DEF AllGenuine, Callbacks, AloneStays
<1>7. Covered
  BY <1>1, <1>2 DEF Covered, Open
<1>8. Bounded
  BY <1>1, <1>2, FS_EmptySet DEF Bounded
<1>. QED  BY <1>4, <1>5, <1>6, <1>7, <1>8 DEF MeshInv

------------------------------------------------------------------------------
(* The invariant, and what it says. *)

(* The numbers of messages are unique, the links carry them in order, and what
   has come to nobody has been heard by nobody (emit, _route_message,
   sync_on_reconnect); the callback on the reply topic is that of a request
   that waits (request, on_reply_raw). *)
THEOREM MeshInvariance == RpcSpec => []MeshInv
<1>1. MeshInv /\ [RpcNext]_allVars => MeshInv'
  BY MeshStep
<1>. QED  BY <1>1, MeshStart, PTL DEF RpcSpec

(* The state of the agents is of the declared types, and each topic's callback
   is of its kind (listen, request, MeshRPC.listen). *)
THEOREM RpcTyped == RpcSpec => []RpcTypeOK
<1>1. MeshInv => RpcTypeOK
  <2>. SUFFICES ASSUME MeshInv  PROVE RpcTypeOK
    OBVIOUS
  <2>0. TypeInv /\ now \in Nat
    BY Known
  <2>1. ASSUME NEW a \in Agent, NEW i \in DOMAIN subs[a]
        PROVE  /\ subs[a][i].caps \in Filter /\ subs[a][i].open \in BOOLEAN
               /\ subs[a][i].since \in 0..now
               /\ ToSet(subs[a][i].got) \subseteq 1..now
    <3>1. subs[a] \in Seq(Sub) /\ subs[a][i] \in Sub
      BY Known
    <3>2. subs[a][i].since <= now
      BY Known DEF Bounded
    <3>3. ToSet(subs[a][i].got) \subseteq Ears(subs[a])
      BY DEF Ears, Heard
    <3>4. Ears(subs[a]) \subseteq 1..now
      BY Known DEF Traffic, NotYetHeard
    <3>5. /\ subs[a][i].caps \in Filter /\ subs[a][i].open \in BOOLEAN
          /\ subs[a][i].since \in Nat
      BY <3>1 DEF Sub
    <3>. QED  BY <2>0, <3>2, <3>3, <3>4, <3>5
  <2>2. ASSUME NEW a \in Agent  PROVE {m.ts : m \in wal[a]} \subseteq 1..now
    BY Known DEF Traffic, UniqueNumbers
  <2>3. ASSUME NEW a \in Agent, NEW b \in Agent  PROVE UnderWay(a, b) \subseteq 1..now
    <3>1. ASSUME NEW i \in 1..Len(chan[a][b])  PROVE chan[a][b][i].ts \in 1..now
      BY Known, OnLink
    <3>2. DOMAIN chan[a][b] = 1..Len(chan[a][b])
      <4>1. chan[a][b] \in Seq(Message)
        BY Known
      <4>. QED  BY <4>1
    <3>. QED  BY <3>1, <3>2 DEF UnderWay, ToSet
  <2>4. TypeOK
    <3>1. /\ last \in [Agent -> 0..now]
          /\ passed \in [Agent -> [Agent -> 0..RateLimit]]
          /\ links \subseteq Ends
          /\ missed \subseteq (1..now) \X Agent
          /\ now \in 0..MaxMsgs
          /\ cuts \in 0..MaxCuts
      BY <2>0 DEF TypeInv
    <3>2. links \subseteq {Pair(a, b) : a, b \in Agent}
      BY <3>1 DEF Ends
    <3>3. \A a \in Agent : \A i \in DOMAIN subs[a] :
            /\ subs[a][i].caps \in Filter /\ subs[a][i].open \in BOOLEAN
            /\ subs[a][i].since \in 0..now
            /\ ToSet(subs[a][i].got) \subseteq 1..now
      BY <2>1
    <3>4. /\ \A a \in Agent : {m.ts : m \in wal[a]} \subseteq 1..now
          /\ \A a, b \in Agent : UnderWay(a, b) \subseteq 1..now
      BY <2>2, <2>3
    <3>. QED  BY <3>1, <3>2, <3>3, <3>4 DEF TypeOK
  <2>5. ASSUME NEW k \in DOMAIN reqs
        PROVE  reqs[k] \in [by : Caller, state : {"waits", "answered", "timed out"},
                            answer : DOMAIN reqs \cup {0}, alone : BOOLEAN]
    <3>1. reqs \in Seq(Req) /\ reqs[k] \in Req
      BY Known
    <3>2. reqs[k].answer \in DOMAIN reqs \cup {0}
      BY Known DEF Bounded
    <3>3. /\ reqs[k] = [by |-> reqs[k].by, state |-> reqs[k].state,
                        answer |-> reqs[k].answer, alone |-> reqs[k].alone]
          /\ reqs[k].by \in Caller /\ reqs[k].state \in {"waits"} \cup Outcome
          /\ reqs[k].alone \in BOOLEAN
      BY <3>1 DEF Req
    <3>4. {"waits"} \cup Outcome = {"waits", "answered", "timed out"}
      BY Zenon DEF Outcome
    <3>5. reqs[k] \in [by : Caller, state : {"waits"} \cup Outcome,
                      answer : DOMAIN reqs \cup {0}, alone : BOOLEAN]
      BY <3>2, <3>3
    <3>. QED  BY <3>4, <3>5, Zenon
  <2>6. ASSUME NEW a \in Agent, NEW t \in DOMAIN bus[a]
        PROVE  bus[a][t] \in CASE t[1] = "agent" -> {"route"}
                               [] t[1] = "request" -> {"handle"}
                               [] OTHER -> DOMAIN reqs
    <3>1. Callback(a, t)
      BY Known DEF Callbacks
    <3>2. \/ t[1] = "agent" /\ bus[a][t] = "route"
          \/ t[1] = "request" /\ bus[a][t] = "handle"
          \/ t[1] = "reply" /\ bus[a][t] \in DOMAIN reqs
      BY <3>1, Kinds DEF Callback
    <3>. QED  BY <3>2
  <2>7. tasks \subseteq [at : Server, re : DOMAIN reqs]
    BY <2>0 DEF TypeInv
  <2>. QED  BY <2>4, <2>5, <2>6, <2>7 DEF RpcTypeOK
<1>. QED  BY <1>1, MeshInvariance, PTL

(* Catching up brings back nothing that was missed, in any mesh: the log of an
   agent holds nothing of another's that did not come through its gate
   (sync_on_reconnect, wal.replay). *)
THEOREM MissedStay == RpcSpec => []MissedStaysMissed
<1>1. MeshInv => MissedStaysMissed
  <2>. SUFFICES ASSUME MeshInv, NEW b \in Agent, NEW m \in sent, NEW i \in DOMAIN subs[b],
                       m.from # b, <<m.ts, b>> \in missed
                PROVE  m.ts \notin Heard(subs[b][i])
    BY DEF MissedStaysMissed
  <2>1. m.from \in Agent \ {b} /\ m \in wal[m.from]
    BY Known DEF Traffic, SentAreLogged
  <2>2. Unheard(b, m)
    BY <2>1, Known DEF Traffic, NotYetHeard
  <2>. QED  BY <2>2 DEF Unheard, Ears
<1>. QED  BY <1>1, MeshInvariance, PTL

------------------------------------------------------------------------------
(* Requests: what each may have for an answer, and which of them can get one. *)

(* The callbacks on the reply topics are as before. *)
RepliesKept ==
  \A x \in Agent : Reply(x) \in DOMAIN bus[x] =>
     Reply(x) \in DOMAIN bus'[x] /\ bus'[x][Reply(x)] = bus[x][Reply(x)]

(* A step asks, answers or ends a request, or leaves requests alone. *)
LEMMA RequestSteps ==
  ASSUME MeshInv, [RpcNext]_allVars
  PROVE  \/ reqs' = reqs /\ RepliesKept
         \/ \E a \in Caller, c \in Method : \E k, r, m : RequestMade(a, c, k, r, m)
         \/ /\ SameReqs /\ bus' = bus
            /\ \E b \in Agent : \E q : Gets(b, bus[b][Reply(b)], q)
         \/ \E k \in DOMAIN reqs : \E o \in Outcome : Finish(k, o)
<1>1. CASE reqs' = reqs /\ bus' = bus
  BY <1>1 DEF RepliesKept
<1>2. CASE \E a \in Listener, caps \in Filter : Listen(a, caps) /\ UNCHANGED rpcVars
  <2>1. PICK a \in Listener, caps \in Filter : Listen(a, caps) /\ UNCHANGED rpcVars
    BY <1>2
  <2>2. reqs' = reqs /\ bus' = [bus EXCEPT ![a] = Subscribed(bus[a], Topics(caps), "route")]
    BY <2>1 DEF Listen, rpcVars
  <2>3. RepliesKept
    BY <2>2, Known DEF RepliesKept, Subscribed
  <2>. QED  BY <2>2, <2>3
<1>3. CASE \E a \in Agent : \E i \in DOMAIN subs[a] : Cancel(a, i) /\ UNCHANGED rpcVars
  <2>1. PICK a \in Agent : \E i \in DOMAIN subs[a] : Cancel(a, i) /\ UNCHANGED rpcVars
    BY <1>3
  <2>2. /\ reqs' = reqs
        /\ bus' = bus \/ \E caps : bus' = [bus EXCEPT ![a] = Unsubscribed(bus[a], Topics(caps))]
    BY <2>1 DEF Cancel, rpcVars
  <2>3. RepliesKept
    <3>1. CASE bus' = bus
      BY <3>1 DEF RepliesKept
    <3>2. CASE \E caps : bus' = [bus EXCEPT ![a] = Unsubscribed(bus[a], Topics(caps))]
      <4>1. PICK caps : bus' = [bus EXCEPT ![a] = Unsubscribed(bus[a], Topics(caps))]
        BY <3>2
      <4>2. \A x : Reply(x) \notin Topics(caps)
        BY Kinds DEF Topics
      <4>. QED  BY <4>1, <4>2, Known DEF RepliesKept, Unsubscribed
    <3>. QED  BY <2>2, <3>1, <3>2
  <2>. QED  BY <2>2, <2>3
<1>4. CASE Next /\ UNCHANGED rpcVars
  <2>1. ASSUME NEW a, NEW c, Emit(a, c)  PROVE bus' = bus
    BY <2>1 DEF Emit
  <2>2. ASSUME NEW a, NEW b, ReceiveEvent(a, b)  PROVE bus' = bus
    BY <2>2 DEF ReceiveEvent
  <2>3. ASSUME NEW a, SyncOnReconnect(a)  PROVE bus' = bus
    BY <2>3 DEF SyncOnReconnect
  <2>4. ASSUME NEW a, NEW b, Cut(a, b) \/ Mend(a, b)  PROVE bus' = bus
    BY <2>4 DEF Cut, Mend
  <2>5. reqs' = reqs
    BY <1>4 DEF rpcVars
  <2>. QED  BY <1>1, <1>2, <1>3, <1>4, <2>1, <2>2, <2>3, <2>4, <2>5 DEF Next
<1>5. CASE \E s \in Server, c \in Method : Serve(s, c)
  <2>1. PICK s \in Server, c \in Method : Serve(s, c)
    BY <1>5
  <2>2. reqs' = reqs /\ bus' = [bus EXCEPT ![s] = Subscribed(bus[s], {Request(c)}, "handle")]
    BY <2>1 DEF Serve, rpcVars
  <2>3. RepliesKept
    BY <2>2, Known DEF RepliesKept, Subscribed
  <2>. QED  BY <2>2, <2>3
<1>6. CASE \E a \in Caller, c \in Method : MakeRequest(a, c)
  <2>1. PICK a \in Caller, c \in Method : MakeRequest(a, c)
    BY <1>6
  <2>2. \E k, r, m : RequestMade(a, c, k, r, m)
    BY <2>1 DEF MakeRequest, RequestMade
  <2>. QED  BY <2>2
<1>7. CASE \E a, b \in Agent : ReceiveRequest(a, b)
  BY <1>1, <1>7 DEF ReceiveRequest
<1>8. CASE \E t \in tasks : ReplyTo(t)
  <2>0. PICK t \in tasks : ReplyTo(t)
    BY <1>8
  <2>1. PICK m : AnswerMade(t, m)
    BY <2>0 DEF ReplyTo, AnswerMade
  <2>2. t.at \in Agent /\ m \in Message /\ Genuine(m) /\ m.topic[1] = "reply"
    BY <2>1, AnswerFacts
  <2>3. TakeReply(t.at, m) /\ bus' = bus
    BY <2>1 DEF AnswerMade
  <2>4. /\ SameReqs
        /\ \/ UNCHANGED reqs
           \/ Reply(t.at) \in DOMAIN bus[t.at] /\ Gets(t.at, bus[t.at][Reply(t.at)], m.re)
    BY <2>2, <2>3, Known, AnswerArrives
  <2>. QED  BY <1>1, <2>2, <2>3, <2>4
<1>9. CASE \E a, b \in Agent : ReceiveReply(a, b)
  <2>1. PICK a \in Agent, b \in Agent : ReceiveReply(a, b)
    BY <1>9
  <2>. DEFINE m == Head(chan[a][b])
  <2>2. /\ chan[a][b] # <<>> /\ chan' = [chan EXCEPT ![a][b] = Tail(@)]
        /\ m.topic[1] = "reply" /\ TakeReply(b, m) /\ bus' = bus
    BY <2>1 DEF ReceiveReply
  <2>3. m \in Message /\ Genuine(m)
    <3>1. Shrunk(a, b, m)
      BY <2>2, Known, ReadsHead
    <3>. QED  BY <3>1, HeadFacts
  <2>. HIDE DEF m
  <2>4. /\ SameReqs
        /\ \/ UNCHANGED reqs
           \/ Reply(b) \in DOMAIN bus[b] /\ Gets(b, bus[b][Reply(b)], m.re)
    BY <2>2, <2>3, Known, AnswerArrives
  <2>. QED  BY <1>1, <2>2, <2>4
<1>10. CASE \E k \in DOMAIN reqs : Return(k) \/ TimeOut(k)
  BY <1>10, Zenon DEF Return, TimeOut, Outcome
<1>11. CASE UNCHANGED allVars
  BY <1>1, <1>11 DEF allVars, vars, rpcVars
<1>. QED  BY <1>4, <1>5, <1>6, <1>7, <1>8, <1>9, <1>10, <1>11 DEF RpcNext

(* k is a new request of a. *)
Adds(a, k, r) ==
  /\ a \in Agent /\ k = Len(reqs) + 1 /\ k \notin DOMAIN reqs
  /\ r.by = a /\ r.answer = 0
  /\ r.alone <=> \A q \in DOMAIN reqs : reqs[q].by = a => reqs[q].state # "waits"
  /\ DOMAIN reqs' = DOMAIN reqs \cup {k}
  /\ reqs'[k] = r /\ \A q \in DOMAIN reqs : reqs'[q] = reqs[q]

(* A request that is made is such an addition. *)
LEMMA RequestAdds ==
  ASSUME MeshInv, NEW a \in Caller, NEW c \in Method, NEW k, NEW r, NEW m,
         RequestMade(a, c, k, r, m)
  PROVE  Adds(a, k, r)
<1>1. /\ a \in Agent /\ k = Len(reqs) + 1 /\ k \in Nat \ {0} /\ k \notin DOMAIN reqs
      /\ r \in Req /\ r.by = a /\ r.state = "waits" /\ r.answer = 0
      /\ r.alone <=> \A q \in DOMAIN reqs : reqs[q].by = a => reqs[q].state # "waits"
      /\ m \in Message /\ m.topic = Request(c) /\ m.from = a /\ m.ts = now + 1 /\ m.re = k
      /\ m.topic[1] = "request"
      /\ reqs' \in Seq(Req) /\ DOMAIN reqs' = DOMAIN reqs \cup {k}
      /\ reqs'[k] = r /\ \A q \in DOMAIN reqs : reqs'[q] = reqs[q]
  BY RequestFacts
<1>. QED  BY <1>1 DEF Adds

(* A request has the answer of one of its agent's, made while it waited if it is
   a later one. *)
Explained ==
  \A k \in DOMAIN reqs :
     LET q == reqs[k].answer IN
     q \notin {0, k} => reqs[q].by = reqs[k].by /\ (q > k => ~reqs[q].alone)

(* What a request had or gets for an answer. *)
LEMMA AnswersAfter ==
  ASSUME MeshInv, NEW b \in Agent, NEW h, NEW q, Gets(b, h, q)
  PROVE  \A k \in DOMAIN reqs : reqs'[k].answer = IF k = h THEN q ELSE reqs[k].answer
<1>. DEFINE r == [reqs[h] EXCEPT !.answer = q]
<1>1. h \in DOMAIN reqs /\ reqs \in Seq(Req) /\ reqs[h] \in Req
  BY Known DEF Gets
<1>2. r.answer = q
  BY <1>1 DEF Req
<1>. HIDE DEF r
<1>3. reqs' = [reqs EXCEPT ![h] = r]
  BY DEF Gets, r
<1>. QED  BY <1>1, <1>2, <1>3

(* A request gets an answer from the callback that holds its topic only. *)
LEMMA ExplainedStep ==
  ASSUME MeshInv, Explained, [RpcNext]_allVars
  PROVE  Explained'
<1>0. /\ DOMAIN reqs = 1..Len(reqs) /\ Len(reqs) \in Nat /\ reqs \in Seq(Req)
      /\ \A k \in DOMAIN reqs : reqs[k].answer \in DOMAIN reqs \cup {0}
  BY Known DEF Bounded
<1>1. CASE reqs' = reqs
  BY <1>1 DEF Explained
<1>2. ASSUME NEW a \in Caller, NEW c \in Method, NEW k, NEW r, NEW m, RequestMade(a, c, k, r, m)
      PROVE  Explained'
  <2>1. /\ k \notin DOMAIN reqs /\ r.answer = 0 /\ DOMAIN reqs' = DOMAIN reqs \cup {k}
        /\ reqs'[k] = r /\ \A q \in DOMAIN reqs : reqs'[q] = reqs[q]
    <3>1. Adds(a, k, r)
      BY <1>2, RequestAdds
    <3>. QED  BY <3>1 DEF Adds
  <2>. QED  BY <1>0, <2>1 DEF Explained
<1>3. ASSUME SameReqs, NEW b \in Agent, NEW h, NEW q, Gets(b, h, q)
      PROVE  Explained'
  <2>1. /\ DOMAIN reqs' = DOMAIN reqs
        /\ \A k \in DOMAIN reqs : reqs'[k].by = reqs[k].by /\ reqs'[k].alone = reqs[k].alone
    BY <1>3 DEF SameReqs
  <2>2. \A k \in DOMAIN reqs : reqs'[k].answer = IF k = h THEN q ELSE reqs[k].answer
    BY <1>3, AnswersAfter
  <2>3. /\ h \in DOMAIN reqs /\ q \in DOMAIN reqs /\ reqs[h].by = reqs[q].by
        /\ reqs[h].state = "waits"
    BY <1>3 DEF Gets
  <2>4. q > h => ~reqs[q].alone
    <3>1. q > h => h < q
      BY <1>0, <2>3
    <3>. QED  BY <2>3, <3>1, Known DEF AloneStays
  <2>5. ASSUME NEW k \in DOMAIN reqs, reqs'[k].answer \notin {0, k}
        PROVE  /\ reqs'[reqs'[k].answer].by = reqs'[k].by
               /\ reqs'[k].answer > k => ~reqs'[reqs'[k].answer].alone
    <3>1. CASE k = h
      BY <2>1, <2>2, <2>3, <2>4, <3>1
    <3>2. CASE k # h
      <4>1. reqs'[k].answer = reqs[k].answer
        BY <2>2, <3>2
      <4>2. reqs[k].answer \in DOMAIN reqs
        BY <1>0, <2>5, <4>1
      <4>. QED  BY <2>1, <2>5, <4>1, <4>2 DEF Explained
    <3>. QED  BY <3>1, <3>2
  <2>. QED  BY <2>1, <2>5 DEF Explained
<1>4. ASSUME NEW n \in DOMAIN reqs, NEW o \in Outcome, Finish(n, o)
      PROVE  Explained'
  <2>. DEFINE r == [reqs[n] EXCEPT !.state = o]
  <2>1. reqs[n] \in Req
    BY <1>0
  <2>2. r.by = reqs[n].by /\ r.answer = reqs[n].answer /\ r.alone = reqs[n].alone
    BY <2>1 DEF Req
  <2>. HIDE DEF r
  <2>3. reqs' = [reqs EXCEPT ![n] = r]
    BY <1>4 DEF Finish, r
  <2>4. /\ DOMAIN reqs' = DOMAIN reqs
        /\ \A k \in DOMAIN reqs : /\ reqs'[k].by = reqs[k].by /\ reqs'[k].alone = reqs[k].alone
                                  /\ reqs'[k].answer = reqs[k].answer
    BY <2>2, <2>3
  <2>. QED  BY <1>0, <2>4 DEF Explained
<1>. QED  BY <1>1, <1>2, <1>3, <1>4, RequestSteps

(* No end of an earlier request takes the callback of one that waits alone. *)
LEMMA SoloStep ==
  ASSUME MeshInv, SoloIsListening, [RpcNext]_allVars
  PROVE  SoloIsListening'
<1>0. /\ DOMAIN reqs = 1..Len(reqs) /\ Len(reqs) \in Nat /\ reqs \in Seq(Req)
      /\ DOMAIN bus = Agent
      /\ \A k \in DOMAIN reqs : reqs[k].by \in Agent
  <2>1. /\ DOMAIN reqs = 1..Len(reqs) /\ Len(reqs) \in Nat /\ reqs \in Seq(Req)
        /\ DOMAIN bus = Agent
    BY Known
  <2>2. ASSUME NEW k \in DOMAIN reqs  PROVE reqs[k].by \in Agent
    <3>1. reqs[k] \in Req
      BY <2>1
    <3>. QED  BY <3>1, RpcAssumption DEF Req
  <2>. QED  BY <2>1, <2>2
<1>1. CASE reqs' = reqs /\ RepliesKept
  BY <1>0, <1>1 DEF SoloIsListening, RepliesKept
<1>2. ASSUME NEW a \in Caller, NEW c \in Method, NEW k, NEW r, NEW m, RequestMade(a, c, k, r, m)
      PROVE  SoloIsListening'
  <2>1. /\ a \in Agent /\ k = Len(reqs) + 1 /\ k \notin DOMAIN reqs
        /\ r.by = a
        /\ r.alone <=> \A q \in DOMAIN reqs : reqs[q].by = a => reqs[q].state # "waits"
        /\ DOMAIN reqs' = DOMAIN reqs \cup {k}
        /\ reqs'[k] = r /\ \A q \in DOMAIN reqs : reqs'[q] = reqs[q]
    <3>1. Adds(a, k, r)
      BY <1>2, RequestAdds
    <3>. QED  BY <3>1 DEF Adds
  <2>2. bus' = [bus EXCEPT ![a] = Subscribed(bus[a], {Reply(a)}, k)]
    BY <1>2 DEF RequestMade
  <2>3. /\ \A x \in Agent : x # a => bus'[x] = bus[x]
        /\ Reply(a) \in DOMAIN bus'[a]
        /\ Reply(a) \notin DOMAIN bus[a] => bus'[a][Reply(a)] = k
    BY <1>0, <2>1, <2>2 DEF Subscribed
  <2>4. ASSUME NEW n \in DOMAIN reqs', reqs'[n].state = "waits", reqs'[n].alone,
               \A q \in DOMAIN reqs' : q > n => reqs'[q].by # reqs'[n].by
        PROVE  /\ Reply(reqs'[n].by) \in DOMAIN bus'[reqs'[n].by]
               /\ bus'[reqs'[n].by][Reply(reqs'[n].by)] = n
    <3>1. CASE n = k
      <4>1. \A q \in DOMAIN reqs : reqs[q].by = a => reqs[q].state # "waits"
        BY <2>1, <2>4, <3>1
      <4>2. Reply(a) \notin DOMAIN bus[a]
        <5>1. ASSUME Reply(a) \in DOMAIN bus[a]  PROVE FALSE
          <6>1. Callback(a, Reply(a))
            BY <2>1, <5>1, Known DEF Callbacks
          <6>. QED  BY <4>1, <6>1, Kinds DEF Callback
        <5>. QED  BY <5>1
      <4>. QED  BY <2>1, <2>3, <3>1, <4>2
    <3>2. CASE n \in DOMAIN reqs
      <4>1. k > n
        <5>1. n \in 1..Len(reqs) /\ Len(reqs) \in Nat /\ k = Len(reqs) + 1
          BY <1>0, <2>1, <3>2
        <5>. QED  BY ONLY <5>1
      <4>2. reqs[n].by # a
        BY <2>1, <2>4, <3>2, <4>1
      <4>3. \A q \in DOMAIN reqs : q > n => reqs[q].by # reqs[n].by
        BY <2>1, <2>4, <3>2
      <4>4. reqs'[n] = reqs[n] /\ reqs[n].by \in Agent
        BY <1>0, <2>1, <3>2
      <4>5. /\ Reply(reqs[n].by) \in DOMAIN bus[reqs[n].by]
            /\ bus[reqs[n].by][Reply(reqs[n].by)] = n
        BY <2>4, <3>2, <4>3, <4>4 DEF SoloIsListening
      <4>. QED  BY <2>3, <4>2, <4>4, <4>5
    <3>. QED  BY <2>1, <3>1, <3>2
  <2>. QED  BY <2>4 DEF SoloIsListening
<1>3. ASSUME SameReqs, bus' = bus  PROVE SoloIsListening'
  BY <1>3 DEF SoloIsListening, SameReqs
<1>4. ASSUME NEW n \in DOMAIN reqs, NEW o \in Outcome, Finish(n, o)
      PROVE  SoloIsListening'
  <2>. DEFINE r == [reqs[n] EXCEPT !.state = o]
              a == reqs[n].by
  <2>1. reqs[n] \in Req /\ reqs[n].state = "waits" /\ a \in Agent
    <3>1. reqs[n].state = "waits"
      BY <1>4 DEF Finish
    <3>. QED  BY <1>0, <3>1
  <2>2. r.by = reqs[n].by /\ r.alone = reqs[n].alone /\ r.state = o
    BY <2>1 DEF Req
  <2>. HIDE DEF r
  <2>3. reqs' = [reqs EXCEPT ![n] = r]
        /\ bus' = [bus EXCEPT ![a] = Unsubscribed(bus[a], {Reply(a)})]
    BY <1>4 DEF Finish, r
  <2>4. /\ DOMAIN reqs' = DOMAIN reqs
        /\ \A k \in DOMAIN reqs : /\ reqs'[k].by = reqs[k].by /\ reqs'[k].alone = reqs[k].alone
                                  /\ reqs'[k].state = IF k = n THEN o ELSE reqs[k].state
    BY <2>2, <2>3
  <2>. HIDE DEF a
  <2>5. \A x \in Agent : x # a => bus'[x] = bus[x]
    BY <1>0, <2>1, <2>3
  <2>6. ASSUME NEW k \in DOMAIN reqs, reqs'[k].state = "waits", reqs'[k].alone,
               \A q \in DOMAIN reqs' : q > k => reqs'[q].by # reqs'[k].by
        PROVE  /\ Reply(reqs'[k].by) \in DOMAIN bus'[reqs'[k].by]
               /\ bus'[reqs'[k].by][Reply(reqs'[k].by)] = k
    <3>0. o # "waits"
      BY Zenon DEF Outcome
    <3>1. k # n /\ reqs[k].state = "waits" /\ reqs[k].alone /\ reqs'[k].by = reqs[k].by
      BY <2>4, <2>6, <3>0
    <3>2. \A q \in DOMAIN reqs : q > k => reqs[q].by # reqs[k].by
      BY <2>4, <2>6
    <3>3. reqs[k].by # a
      <4>1. ASSUME reqs[k].by = a  PROVE FALSE
        <5>1. ~(n > k)
          BY <3>2, <4>1 DEF a
        <5>2. n < k
          <6>1. n \in Nat /\ k \in Nat /\ k # n
            BY <1>0, <3>1
          <6>. QED  BY ONLY <5>1, <6>1
        <5>. QED  BY <2>1, <3>1, <4>1, <5>2, Known DEF AloneStays, a
      <4>. QED  BY <4>1
    <3>4. /\ Reply(reqs[k].by) \in DOMAIN bus[reqs[k].by]
          /\ bus[reqs[k].by][Reply(reqs[k].by)] = k
      BY <3>1, <3>2 DEF SoloIsListening
    <3>. QED  BY <1>0, <2>5, <3>1, <3>3, <3>4
  <2>. QED  BY <2>4, <2>6 DEF SoloIsListening
<1>. QED  BY <1>1, <1>2, <1>3, <1>4, RequestSteps

(* A request that waits alone holds the callback of its agent's reply topic, for
   any agents, servers and interleaving: the answer to it can come
   (request, the unsubscription at its end). *)
THEOREM SoloListens == RpcSpec => []SoloIsListening
<1>1. RpcInit => SoloIsListening
  BY DEF RpcInit, SoloIsListening
<1>2. MeshInv /\ SoloIsListening /\ [RpcNext]_allVars => SoloIsListening'
  BY SoloStep
<1>. QED  BY <1>1, <1>2, MeshInvariance, PTL DEF RpcSpec

------------------------------------------------------------------------------
(* Events: every listener hears them. *)

(* The open subscriptions of s for the capability of m have heard it. *)
HeardBy(s, m) ==
  \A i \in DOMAIN s : s[i].open /\ m.cap \in s[i].caps => m.ts \in Heard(s[i])

(* An event comes to b: who listens hears it, or the gate refused it. *)
LEMMA EventHeard ==
  ASSUME MeshInv, NEW b \in Agent, NEW m \in Message, m.topic = Event(m.cap),
         NEW w, NEW lost,
         IF m.topic \in DOMAIN bus[b] THEN RouteMessage(b, m, w, lost) ELSE NobodyListens(w, lost)
  PROVE  HeardBy(subs'[b], m) \/ <<m.ts, b>> \in missed'
<1>0. subs \in [Agent -> Seq(Sub)] /\ subs[b] \in Seq(Sub) /\ DOMAIN subs[b] = 1..Len(subs[b])
  BY Known
<1>1. CASE m.topic \notin DOMAIN bus[b]
  <2>1. subs' = subs
    BY <1>1 DEF NobodyListens
  <2>2. ASSUME NEW i \in DOMAIN subs[b], subs[b][i].open  PROVE m.cap \notin subs[b][i].caps
    <3>1. Topics(subs[b][i].caps) \subseteq DOMAIN bus[b]
      BY <2>2, Known DEF Covered, Open
    <3>. QED  BY <1>1, <3>1 DEF Topics
  <2>. QED  BY <2>1, <2>2 DEF HeardBy
<1>2. CASE m.topic \in DOMAIN bus[b]
  <2>1. RouteMessage(b, m, w, lost)
    BY <1>2
  <2>2. CASE subs' = [subs EXCEPT ![b] = Dispatched(subs[b], {m.cap}, m)]
    <3>. DEFINE d == Dispatched(subs[b], {m.cap}, m)
    <3>1. /\ SameSubs(subs[b], d, {m.ts})
          /\ \A i \in 1..Len(subs[b]) : Matches(subs[b][i], {m.cap}) => m.ts \in Heard(d[i])
      BY <1>0, DispatchedSubs
    <3>2. subs'[b] = d
      BY <1>0, <2>2
    <3>. HIDE DEF d
    <3>3. DOMAIN d = 1..Len(subs[b])
      <4>1. d \in Seq(Sub) /\ Len(d) = Len(subs[b])
        BY <3>1 DEF SameSubs
      <4>. QED  BY <4>1
    <3>4. ASSUME NEW i \in 1..Len(subs[b]), d[i].open, m.cap \in d[i].caps
          PROVE  m.ts \in Heard(d[i])
      <4>1. subs[b][i].open /\ m.cap \in subs[b][i].caps
        BY <3>1, <3>4 DEF SameSubs
      <4>2. Matches(subs[b][i], {m.cap})
        BY <4>1 DEF Matches
      <4>. QED  BY <3>1, <4>2
    <3>. QED  BY <3>2, <3>3, <3>4 DEF HeardBy
  <2>3. CASE missed' = missed \cup lost \cup {<<m.ts, b>>}
    BY <2>3
  <2>. QED  BY <2>1, <2>2, <2>3 DEF RouteMessage
<1>. QED  BY <1>1, <1>2

(* What keeps the listeners hearing: subscriptions stay as they are or are new,
   what leaves a link is heard or missed, and so is a new event that is not on
   its link. *)
OldEars ==
  \A b \in Agent : \A i \in DOMAIN subs'[b] : subs'[b][i].open =>
     \/ /\ i \in Open(b)
        /\ subs'[b][i].caps = subs[b][i].caps /\ subs'[b][i].since = subs[b][i].since
        /\ Heard(subs[b][i]) \subseteq Heard(subs'[b][i])
     \/ subs'[b][i].since = now

LeavesLinks ==
  \A a, b \in Agent : \A m \in sent \cap ToSet(chan[a][b]) :
     m \in ToSet(chan'[a][b]) \/ <<m.ts, b>> \in missed' \/ HeardBy(subs'[b], m)

NewEvents ==
  \A m \in sent' \ sent : \A b \in Agent :
     m \in ToSet(chan'[m.from][b]) \/ <<m.ts, b>> \in missed' \/ HeardBy(subs'[b], m)

(* With these three the listeners go on hearing. *)
LEMMA HearsOn ==
  ASSUME MeshInv, ListenersHear, OldEars, LeavesLinks, NewEvents, missed \subseteq missed'
  PROVE  ListenersHear'
<1>. SUFFICES ASSUME NEW a \in Agent, NEW b \in Agent, NEW m \in sent', NEW i \in DOMAIN subs'[b],
                     subs'[b][i].open, m.from = a, m.cap \in subs'[b][i].caps,
                     m.ts > subs'[b][i].since
              PROVE  \/ m.ts \in Heard(subs'[b][i])
                     \/ m \in ToSet(chan'[a][b])
                     \/ <<m.ts, b>> \in missed'
  BY DEF ListenersHear, Open
<1>1. CASE m \notin sent
  BY <1>1 DEF NewEvents, HeardBy
<1>2. CASE m \in sent /\ subs'[b][i].since = now
  <2>1. m.ts \in 1..now /\ now \in Nat
    BY <1>2, Known DEF Traffic, SentAreLogged, UniqueNumbers
  <2>. QED  BY <1>2, <2>1
<1>3. CASE /\ m \in sent /\ i \in Open(b)
           /\ subs'[b][i].caps = subs[b][i].caps /\ subs'[b][i].since = subs[b][i].since
           /\ Heard(subs[b][i]) \subseteq Heard(subs'[b][i])
  <2>1. m.ts \in Heard(subs[b][i]) \/ m \in ToSet(chan[a][b]) \/ <<m.ts, b>> \in missed
    BY <1>3 DEF ListenersHear
  <2>2. CASE m \in ToSet(chan[a][b])
    BY <1>3, <2>2 DEF LeavesLinks, HeardBy
  <2>. QED  BY <1>3, <2>1, <2>2
<1>. QED  BY <1>1, <1>2, <1>3 DEF OldEars

(* Subscriptions that hear more are the old ones. *)
LEMMA OldEarsHear ==
  ASSUME MeshInv, NEW b \in Agent, NEW X, HeardAt(b, X)
  PROVE  OldEars
<1>1. \A x \in Agent :
        /\ DOMAIN subs'[x] = DOMAIN subs[x]
        /\ \A i \in DOMAIN subs[x] :
             /\ subs'[x][i].caps = subs[x][i].caps /\ subs'[x][i].open = subs[x][i].open
             /\ subs'[x][i].since = subs[x][i].since
             /\ Heard(subs[x][i]) \subseteq Heard(subs'[x][i])
        /\ (Open(x))' = Open(x)
  BY Known, HeardKeeps
<1>. QED  BY <1>1 DEF OldEars, Open

(* Nothing leaves a link onto which m goes out. *)
LEMMA LinksGrow ==
  ASSUME MeshInv, NEW a \in Agent, NEW m \in Message, chan' = Broadcast(a, m)
  PROVE  /\ \A x, y \in Agent : ToSet(chan[x][y]) \subseteq ToSet(chan'[x][y])
         /\ \A y \in Agent : Pair(a, y) \in links => m \in ToSet(chan'[a][y])
<1>1. \A x, y \in Agent :
        \/ chan'[x][y] = chan[x][y] /\ ~(x = a /\ Pair(a, y) \in links)
        \/ x = a /\ Pair(a, y) \in links /\ chan'[x][y] = Append(chan[a][y], m)
  <2>1. TypeInv /\ Traffic
    BY Known
  <2>. QED  BY <2>1, GoesOut
<1>2. \A y \in Agent : ToSet(Append(chan[a][y], m)) = ToSet(chan[a][y]) \cup {m}
  <2>1. \A y \in Agent : chan[a][y] \in Seq(Message)
    BY Known
  <2>. QED  BY <2>1, Appended
<1>. QED  BY <1>1, <1>2

(* Only its head leaves a link that is read. *)
LEMMA HeadLeaves ==
  ASSUME MeshInv, NEW a \in Agent, NEW b \in Agent, NEW m, Shrunk(a, b, m)
  PROVE  /\ \A x, y \in Agent : ~(x = a /\ y = b) => chan'[x][y] = chan[x][y]
         /\ ToSet(chan[a][b]) \subseteq ToSet(chan'[a][b]) \cup {m}
<1>1. /\ chan' \in [Agent -> [Agent -> Seq(Message)]]
      /\ m = chan[a][b][1] /\ Len(chan[a][b]) \in Nat
      /\ Len(chan'[a][b]) = Len(chan[a][b]) - 1
      /\ \A i \in 1..Len(chan'[a][b]) : chan'[a][b][i] = chan[a][b][i + 1]
  BY DEF Shrunk
<1>2. /\ DOMAIN chan[a][b] = 1..Len(chan[a][b]) /\ DOMAIN chan'[a][b] = 1..Len(chan'[a][b])
  <2>1. chan[a][b] \in Seq(Message) /\ chan'[a][b] \in Seq(Message)
    BY <1>1, Known
  <2>. QED  BY <2>1
<1>3. ASSUME NEW i \in 1..Len(chan[a][b]), chan[a][b][i] # m
      PROVE  \E j \in 1..Len(chan'[a][b]) : chan'[a][b][j] = chan[a][b][i]
  <2>. DEFINE j == i - 1
  <2>1. i # 1
    BY <1>1, <1>3
  <2>2. j \in 1..Len(chan'[a][b]) /\ j + 1 = i
    BY <1>1, <2>1
  <2>. HIDE DEF j
  <2>3. chan'[a][b][j] = chan[a][b][i]
    BY <1>1, <2>2
  <2>. QED  BY <2>2, <2>3
<1>4. ToSet(chan[a][b]) \subseteq ToSet(chan'[a][b]) \cup {m}
  BY <1>2, <1>3 DEF ToSet
<1>5. \A x, y \in Agent : ~(x = a /\ y = b) => chan'[x][y] = chan[x][y]
  BY DEF Shrunk
<1>. QED  BY <1>4, <1>5

(* Every step has these three. *)
LEMMA HearsStep ==
  ASSUME MeshInv, ListenersHear, [RpcNext]_allVars
  PROVE  ListenersHear'
<1>0. /\ subs \in [Agent -> Seq(Sub)] /\ now \in Nat
      /\ \A m \in sent : m.topic = Event(m.cap) /\ m.from \in Agent /\ m \in wal[m.from]
  BY Known DEF Traffic, SentAreLogged
<1>1. CASE subs' = subs /\ missed \subseteq missed' /\ sent' = sent
           /\ \A a, b \in Agent : ToSet(chan[a][b]) \subseteq ToSet(chan'[a][b])
  <2>1. OldEars
    BY <1>1 DEF OldEars, Open
  <2>2. LeavesLinks /\ NewEvents
    BY <1>1 DEF LeavesLinks, NewEvents
  <2>. QED  BY <1>1, <2>1, <2>2, HearsOn
<1>2. ASSUME NEW a \in Listener, NEW caps \in Filter, Listen(a, caps)
      PROVE  ListenersHear'
  <2>1. /\ UNCHANGED <<missed, sent, chan>> /\ a \in Agent
        /\ subs' = [subs EXCEPT ![a] = Append(subs[a], [caps |-> caps, open |-> TRUE,
                                                        since |-> now, got |-> <<>>])]
    BY <1>2, ListenerAssumption DEF Listen
  <2>. DEFINE u == [caps |-> caps, open |-> TRUE, since |-> now, got |-> <<>>]
              s == subs[a]
  <2>2. u \in Sub /\ u.since = now
    <3>1. <<>> \in Seq(Nat)
      OBVIOUS
    <3>. QED  BY <1>0, <3>1 DEF Sub
  <2>3. subs' = [subs EXCEPT ![a] = Append(s, u)]
    BY <2>1
  <2>4. s \in Seq(Sub)
    BY <1>0, <2>1
  <2>. HIDE DEF u, s
  <2>5. /\ Append(s, u) \in Seq(Sub) /\ Len(s) \in Nat /\ Len(Append(s, u)) = Len(s) + 1
        /\ \A i \in 1..(Len(s) + 1) : Append(s, u)[i] = IF i <= Len(s) THEN s[i] ELSE u
    BY <2>2, <2>4, Appended
  <2>6. DOMAIN Append(s, u) = 1..(Len(s) + 1) /\ DOMAIN s = 1..Len(s)
    BY <2>4, <2>5
  <2>7. ASSUME NEW i \in DOMAIN Append(s, u)
        PROVE  (i \in DOMAIN s /\ Append(s, u)[i] = s[i]) \/ Append(s, u)[i].since = now
    <3>1. CASE i <= Len(s)
      <4>1. i \in 1..Len(s)
        BY <2>5, <2>6, <3>1
      <4>. QED  BY <2>5, <2>6, <3>1, <4>1
    <3>2. CASE ~(i <= Len(s))
      BY <2>2, <2>5, <2>6, <3>2
    <3>. QED  BY <3>1, <3>2
  <2>8. OldEars
    <3>1. ASSUME NEW b \in Agent, NEW i \in DOMAIN subs'[b], subs'[b][i].open
          PROVE  (i \in Open(b) /\ subs'[b][i] = subs[b][i]) \/ subs'[b][i].since = now
      <4>1. CASE b = a
        <5>1. subs'[b] = Append(s, u) /\ subs[b] = s
          BY <1>0, <2>1, <2>3, <4>1 DEF s
        <5>. QED  BY <2>7, <3>1, <5>1 DEF Open
      <4>2. CASE b # a
        <5>1. subs'[b] = subs[b]
          BY <1>0, <2>3, <4>2
        <5>. QED  BY <3>1, <5>1 DEF Open
      <4>. QED  BY <4>1, <4>2
    <3>. QED  BY <3>1 DEF OldEars
  <2>9. LeavesLinks /\ NewEvents
    BY <2>1 DEF LeavesLinks, NewEvents
  <2>. QED  BY <2>1, <2>8, <2>9, HearsOn
<1>3. ASSUME NEW a \in Agent, NEW n \in DOMAIN subs[a], Cancel(a, n)
      PROVE  ListenersHear'
  <2>. DEFINE s == [subs[a] EXCEPT ![n].open = FALSE]
  <2>1. UNCHANGED <<missed, sent, chan>> /\ subs' = [subs EXCEPT ![a] = s]
    BY <1>3 DEF Cancel
  <2>2. DOMAIN s = DOMAIN subs[a] /\ \A i \in DOMAIN s : i # n => s[i] = subs[a][i]
    BY <1>0
  <2>3. ~s[n].open
    <3>1. subs[a][n] \in Sub
      BY <1>0
    <3>. DEFINE v == [subs[a][n] EXCEPT !.open = FALSE]
    <3>2. ~v.open
      BY <3>1 DEF Sub
    <3>. HIDE DEF v
    <3>3. s = [subs[a] EXCEPT ![n] = v]
      BY DEF v
    <3>. HIDE DEF s
    <3>4. s[n] = v
      BY <3>3
    <3>. QED  BY <3>2, <3>4
  <2>. HIDE DEF s
  <2>4. OldEars
    <3>1. ASSUME NEW b \in Agent, NEW i \in DOMAIN subs'[b], subs'[b][i].open
          PROVE  i \in Open(b) /\ subs'[b][i] = subs[b][i]
      <4>1. CASE b = a
        <5>1. subs'[b] = s
          BY <1>0, <2>1, <4>1
        <5>. QED  BY <2>2, <2>3, <3>1, <4>1, <5>1 DEF Open
      <4>2. CASE b # a
        <5>1. subs'[b] = subs[b]
          BY <1>0, <2>1, <4>2
        <5>. QED  BY <3>1, <5>1 DEF Open
      <4>. QED  BY <4>1, <4>2
    <3>. QED  BY <3>1 DEF OldEars
  <2>5. LeavesLinks /\ NewEvents
    BY <2>1 DEF LeavesLinks, NewEvents
  <2>. QED  BY <2>1, <2>4, <2>5, HearsOn
<1>4. ASSUME NEW a \in Agent, NEW c \in Capability, Emit(a, c)
      PROVE  ListenersHear'
  <2>1. PICK m \in Message :
          /\ m = [topic |-> Event(c), cap |-> c, from |-> a, ts |-> now + 1, re |-> 0]
          /\ m.topic = Event(m.cap) /\ m.from = a /\ m.ts = now + 1
    BY <1>0, EmittedMessage
  <2>2. /\ sent' = sent \cup {m} /\ chan' = Broadcast(a, m)
        /\ IF m.topic \in DOMAIN bus[a]
           THEN RouteMessage(a, m, Logged(a, m), Unreached(a, m))
           ELSE NobodyListens(Logged(a, m), Unreached(a, m))
    BY <1>4, <2>1 DEF Emit
  <2>3. HeardBy(subs'[a], m) \/ <<m.ts, a>> \in missed'
    BY <2>1, <2>2, EventHeard
  <2>4. /\ Accepts(a, m, Logged(a, m), Unreached(a, m)) \/ Ignores(a, m, Logged(a, m), Unreached(a, m))
        /\ HeardAt(a, {m.ts})
    <3>1. RouteMessage(a, m, Logged(a, m), Unreached(a, m)) \/ NobodyListens(Logged(a, m), Unreached(a, m))
      BY <2>2
    <3>. QED  BY <2>1, <3>1, Known, Arrives
  <2>5. missed \cup Unreached(a, m) \subseteq missed'
    BY <2>4 DEF Accepts, Ignores
  <2>6. OldEars
    BY <2>4, OldEarsHear
  <2>7. /\ \A x, y \in Agent : ToSet(chan[x][y]) \subseteq ToSet(chan'[x][y])
        /\ \A y \in Agent : Pair(a, y) \in links => m \in ToSet(chan'[a][y])
    BY <2>1, <2>2, LinksGrow
  <2>8. LeavesLinks
    BY <2>7 DEF LeavesLinks
  <2>9. NewEvents
    <3>1. ASSUME NEW b \in Agent
          PROVE  m \in ToSet(chan'[a][b]) \/ <<m.ts, b>> \in missed' \/ HeardBy(subs'[b], m)
      <4>1. CASE b # a /\ Pair(a, b) \notin links
        <5>1. <<m.ts, b>> \in Unreached(a, m)
          BY <4>1 DEF Unreached
        <5>. QED  BY <2>5, <5>1
      <4>. QED  BY <2>3, <2>7, <4>1
    <3>. QED  BY <2>1, <2>2, <3>1 DEF NewEvents
  <2>. QED  BY <2>5, <2>6, <2>8, <2>9, HearsOn
<1>5. ASSUME NEW a \in Agent, NEW b \in Agent, ReceiveEvent(a, b)
      PROVE  ListenersHear'
  <2>. DEFINE m == Head(chan[a][b])
  <2>1. /\ chan[a][b] # <<>> /\ chan' = [chan EXCEPT ![a][b] = Tail(@)] /\ sent' = sent
        /\ IF m.topic \in DOMAIN bus[b] THEN RouteMessage(b, m, wal, {}) ELSE NobodyListens(wal, {})
    BY <1>5 DEF ReceiveEvent
  <2>2. Shrunk(a, b, m)
    BY <2>1, Known, ReadsHead
  <2>. HIDE DEF m
  <2>3. m \in Message
    BY <2>2, HeadFacts
  <2>4. /\ Accepts(b, m, wal, {}) \/ Ignores(b, m, wal, {})
        /\ HeardAt(b, {m.ts})
    <3>1. RouteMessage(b, m, wal, {}) \/ NobodyListens(wal, {})
      BY <2>1
    <3>. QED  BY <2>3, <3>1, Known, Arrives
  <2>5. missed \subseteq missed'
    BY <2>4 DEF Accepts, Ignores
  <2>6. OldEars
    BY <2>4, OldEarsHear
  <2>7. /\ \A x, y \in Agent : ~(x = a /\ y = b) => chan'[x][y] = chan[x][y]
        /\ ToSet(chan[a][b]) \subseteq ToSet(chan'[a][b]) \cup {m}
    BY <2>2, HeadLeaves
  <2>8. m \in sent => HeardBy(subs'[b], m) \/ <<m.ts, b>> \in missed'
    <3>1. ASSUME m \in sent  PROVE m.topic = Event(m.cap)
      BY <1>0, <3>1
    <3>. QED  BY <2>1, <2>3, <3>1, EventHeard
  <2>9. LeavesLinks /\ NewEvents
    BY <2>1, <2>7, <2>8 DEF LeavesLinks, NewEvents
  <2>. QED  BY <2>5, <2>6, <2>9, HearsOn
<1>6. ASSUME NEW a \in Agent, SyncOnReconnect(a), UNCHANGED rpcVars
      PROVE  ListenersHear'
  <2>1. HeardAt(a, {k.ts : k \in wal[a]})
    BY <1>6, SyncKeeps
  <2>2. UNCHANGED <<missed, sent, chan>>
    BY <1>6 DEF SyncOnReconnect
  <2>3. OldEars
    BY <2>1, OldEarsHear
  <2>4. LeavesLinks /\ NewEvents
    BY <2>2 DEF LeavesLinks, NewEvents
  <2>. QED  BY <2>2, <2>3, <2>4, HearsOn
<1>7. ASSUME NEW a \in Agent, NEW b \in Agent, Cut(a, b)
      PROVE  ListenersHear'
  <2>1. /\ subs' = subs /\ sent' = sent
        /\ missed' = missed \cup (UnderWay(a, b) \X {b}) \cup (UnderWay(b, a) \X {a})
        /\ chan' = [chan EXCEPT ![a][b] = <<>>, ![b][a] = <<>>]
    BY <1>7 DEF Cut
  <2>2. OldEars
    BY <2>1 DEF OldEars, Open
  <2>3. \A x, y \in Agent : \/ chan'[x][y] = chan[x][y]
                            \/ (x = a /\ y = b) \/ (x = b /\ y = a)
    BY <2>1, Known
  <2>4. ASSUME NEW x \in Agent, NEW y \in Agent, NEW m \in ToSet(chan[x][y]),
               (x = a /\ y = b) \/ (x = b /\ y = a)
        PROVE  <<m.ts, y>> \in missed'
    <3>1. m.ts \in UnderWay(x, y)
      BY DEF UnderWay
    <3>. QED  BY <2>1, <2>4, <3>1
  <2>5. LeavesLinks
    BY <2>3, <2>4 DEF LeavesLinks
  <2>6. NewEvents
    BY <2>1 DEF NewEvents
  <2>. QED  BY <2>1, <2>2, <2>5, <2>6, HearsOn
<1>8. ASSUME NEW a \in Agent, NEW m \in Message, chan' = Broadcast(a, m),
             UNCHANGED <<subs, missed, sent>>
      PROVE  ListenersHear'
  <2>1. \A x, y \in Agent : ToSet(chan[x][y]) \subseteq ToSet(chan'[x][y])
    BY <1>8, LinksGrow
  <2>. QED  BY <1>1, <1>8, <2>1
<1>9. ASSUME NEW a \in Agent, NEW b \in Agent, UNCHANGED <<subs, missed, sent>>,
             chan[a][b] # <<>>, chan' = [chan EXCEPT ![a][b] = Tail(@)],
             Head(chan[a][b]).topic[1] # "agent"
      PROVE  ListenersHear'
  <2>. DEFINE m == Head(chan[a][b])
  <2>1. Shrunk(a, b, m) /\ m.topic[1] # "agent"
    BY <1>9, Known, ReadsHead
  <2>. HIDE DEF m
  <2>2. /\ \A x, y \in Agent : ~(x = a /\ y = b) => chan'[x][y] = chan[x][y]
        /\ ToSet(chan[a][b]) \subseteq ToSet(chan'[a][b]) \cup {m}
    BY <2>1, HeadLeaves
  <2>3. m \notin sent
    BY <1>0, <2>1, Kinds
  <2>4. OldEars
    BY <1>9 DEF OldEars, Open
  <2>5. LeavesLinks /\ NewEvents
    BY <1>9, <2>2, <2>3 DEF LeavesLinks, NewEvents
  <2>. QED  BY <1>9, <2>4, <2>5, HearsOn
<1>10. CASE Next /\ UNCHANGED rpcVars
  <2>1. CASE \E e \in Emits : Emit(e[1], e[2])
    <3>1. PICK e \in Emits : Emit(e[1], e[2])
      BY <2>1
    <3>2. e[1] \in Agent /\ e[2] \in Capability
      BY EmitsAssumption
    <3>. QED  BY <1>4, <3>1, <3>2
  <2>2. CASE \E a, b \in Agent : Mend(a, b)
    <3>1. UNCHANGED <<subs, missed, sent, chan>>
      BY <2>2 DEF Mend
    <3>. QED  BY <1>1, <3>1
  <2>. QED  BY <1>2, <1>3, <1>5, <1>6, <1>7, <1>10, <2>1, <2>2 DEF Next
<1>11. CASE \E s \in Server, c \in Method : Serve(s, c)
  <2>1. UNCHANGED <<subs, missed, sent, chan>>
    BY <1>11 DEF Serve
  <2>. QED  BY <1>1, <2>1
<1>12. CASE \E a \in Caller, c \in Method : MakeRequest(a, c)
  <2>1. PICK a \in Caller, c \in Method : MakeRequest(a, c)
    BY <1>12
  <2>2. PICK k, r, m : RequestMade(a, c, k, r, m)
    BY <2>1 DEF MakeRequest, RequestMade
  <2>3. m \in Message /\ a \in Agent
    <3>1. /\ a \in Agent /\ k = Len(reqs) + 1 /\ k \in Nat \ {0} /\ k \notin DOMAIN reqs
          /\ r \in Req /\ r.by = a /\ r.state = "waits" /\ r.answer = 0
          /\ r.alone <=> \A q \in DOMAIN reqs : reqs[q].by = a => reqs[q].state # "waits"
          /\ m \in Message /\ m.topic = Request(c) /\ m.from = a /\ m.ts = now + 1 /\ m.re = k
          /\ m.topic[1] = "request"
          /\ reqs' \in Seq(Req) /\ DOMAIN reqs' = DOMAIN reqs \cup {k}
          /\ reqs'[k] = r /\ \A q \in DOMAIN reqs : reqs'[q] = reqs[q]
      BY <2>2, RequestFacts
    <3>. QED  BY <3>1
  <2>4. chan' = Broadcast(a, m) /\ UNCHANGED <<subs, missed, sent>>
    BY <2>2 DEF RequestMade
  <2>. QED  BY <1>8, <2>3, <2>4
<1>13. CASE \E a, b \in Agent : ReceiveRequest(a, b)
  <2>1. PICK a \in Agent, b \in Agent : ReceiveRequest(a, b)
    BY <1>13
  <2>2. /\ UNCHANGED <<subs, missed, sent>> /\ chan[a][b] # <<>>
        /\ chan' = [chan EXCEPT ![a][b] = Tail(@)] /\ Head(chan[a][b]).topic[1] # "agent"
    BY <2>1 DEF ReceiveRequest
  <2>. QED  BY <1>9, <2>2
<1>14. CASE \E t \in tasks : ReplyTo(t)
  <2>0. PICK t \in tasks : ReplyTo(t)
    BY <1>14
  <2>1. PICK m : AnswerMade(t, m)
    BY <2>0 DEF ReplyTo, AnswerMade
  <2>2. t.at \in Agent /\ m \in Message
    BY <2>1, AnswerFacts
  <2>3. chan' = Broadcast(t.at, m) /\ UNCHANGED <<subs, missed, sent>>
    BY <2>1 DEF AnswerMade
  <2>. QED  BY <1>8, <2>2, <2>3
<1>15. CASE \E a, b \in Agent : ReceiveReply(a, b)
  <2>1. PICK a \in Agent, b \in Agent : ReceiveReply(a, b)
    BY <1>15
  <2>2. /\ UNCHANGED <<subs, missed, sent>> /\ chan[a][b] # <<>>
        /\ chan' = [chan EXCEPT ![a][b] = Tail(@)] /\ Head(chan[a][b]).topic[1] # "agent"
    BY <2>1 DEF ReceiveReply
  <2>. QED  BY <1>9, <2>2
<1>16. CASE \E k \in DOMAIN reqs : Return(k) \/ TimeOut(k)
  <2>1. UNCHANGED <<subs, missed, sent, chan>>
    BY <1>16 DEF Return, TimeOut, Finish
  <2>. QED  BY <1>1, <2>1
<1>17. CASE UNCHANGED allVars
  <2>1. UNCHANGED <<subs, missed, sent, chan>>
    BY <1>17 DEF allVars, vars
  <2>. QED  BY <1>1, <2>1
<1>. QED
  BY <1>10, <1>11, <1>12, <1>13, <1>14, <1>15, <1>16, <1>17 DEF RpcNext

(* Every event emitted after an open listen for its capability is heard, is
   under way, or was taken by a broken link or the rate limit: for any agents,
   capabilities, filters and order of listens and cancels (listen,
   _cleanup_topic, _route_message). *)
THEOREM EveryListenerHears == RpcSpec => []ListenersHear
<1>1. RpcInit => ListenersHear
  BY DEF RpcInit, Init, ListenersHear
<1>2. MeshInv /\ ListenersHear /\ [RpcNext]_allVars => ListenersHear'
  BY HearsStep
<1>. QED  BY <1>1, <1>2, MeshInvariance, PTL DEF RpcSpec

------------------------------------------------------------------------------
(* With one server no answer is in two places. *)

(* The requests for q, and the answers to it. *)
Asking(q) == {m \in Message : m.topic[1] = "request" /\ m.re = q}
Telling(q) == {m \in Message : m.topic[1] = "reply" /\ m.re = q}

Places(c, S) == {i \in DOMAIN c : c[i] \in S}
Unique(X) == \A x, y \in X : x = y

(* Of a request and its answer there is at most one: under way to the server s
   (A), in the hands of its task (C), under way to who asked (B), or with a
   request (D). *)
Single(A, B, C, D) ==
  /\ Unique(A) /\ Unique(B) /\ Unique(D)
  /\ A = {} \/ (B = {} /\ C = {} /\ D = {})
  /\ B = {} \/ (C = {} /\ D = {})
  /\ C = {} \/ D = {}

AtWork(q) == {t \in tasks : t.re = q}
Holding(q) == {k \in DOMAIN reqs : reqs[k].answer = q}

(* Where the request q, or its answer, is, with s the server. *)
OnePlace(s, q) ==
  Single(Places(chan[reqs[q].by][s], Asking(q)), Places(chan[s][reqs[q].by], Telling(q)),
         AtWork(q), Holding(q))

(* With one server, nothing is answered in two places. *)
AnsweredOnce == \A s \in Server : Server = {s} => \A q \in DOMAIN reqs : OnePlace(s, q)

(* Y has no more than X. *)
Fewer(Y, X) == (Y # {} => X # {}) /\ (Unique(X) => Unique(Y))

(* What gets less is still in one place. *)
LEMMA FewerPlaces ==
  ASSUME NEW A, NEW B, NEW C, NEW D, Single(A, B, C, D),
         NEW AA, NEW BB, NEW CC, NEW DD,
         Fewer(AA, A), Fewer(BB, B), CC \subseteq C, DD \subseteq D
  PROVE  Single(AA, BB, CC, DD)
<1>1. /\ Unique(AA) /\ Unique(BB) /\ Unique(DD)
  BY DEF Single, Fewer, Unique
<1>2. /\ A = {} => AA = {}
      /\ B = {} => BB = {}
      /\ C = {} => CC = {}
      /\ D = {} => DD = {}
  BY DEF Fewer
<1>. QED  BY <1>1, <1>2 DEF Single

(* Where a message m that a sends is. *)
LEMMA SendPlaces ==
  ASSUME MeshInv, NEW a \in Agent, NEW m \in Message, chan' = Broadcast(a, m), NEW S,
         NEW x \in Agent, NEW y \in Agent
  PROVE  /\ m \notin S \/ x # a \/ y = a => Places(chan'[x][y], S) = Places(chan[x][y], S)
         /\ Places(chan[x][y], S) = {} => Unique(Places(chan'[x][y], S))
<1>1. \/ chan'[x][y] = chan[x][y] /\ ~(x = a /\ Pair(a, y) \in links)
      \/ x = a /\ Pair(a, y) \in links /\ chan'[x][y] = Append(chan[a][y], m)
  <2>1. TypeInv /\ Traffic
    BY Known
  <2>. QED  BY <2>1, GoesOut
<1>2. CASE chan'[x][y] = chan[x][y]
  BY <1>2 DEF Unique
<1>3. CASE x = a /\ Pair(a, y) \in links /\ chan'[x][y] = Append(chan[a][y], m)
  <2>. DEFINE c == chan[x][y]
              d == chan'[x][y]
  <2>1. c \in Seq(Message) /\ y # a
    BY <1>3, Known DEF Traffic, LinksRise
  <2>2. d = Append(c, m)
    BY <1>3
  <2>. HIDE DEF c, d
  <2>3. /\ d \in Seq(Message) /\ Len(c) \in Nat /\ Len(d) = Len(c) + 1
        /\ \A i \in 1..(Len(c) + 1) : d[i] = IF i <= Len(c) THEN c[i] ELSE m
    BY <2>1, <2>2, Appended
  <2>4. DOMAIN c = 1..Len(c) /\ DOMAIN d = 1..(Len(c) + 1)
    BY <2>1, <2>3
  <2>5. ASSUME NEW i \in DOMAIN d
        PROVE  (i \in DOMAIN c /\ d[i] = c[i]) \/ (i = Len(c) + 1 /\ d[i] = m)
    <3>1. CASE i <= Len(c)
      BY <2>3, <2>4, <3>1
    <3>2. CASE ~(i <= Len(c))
      BY <2>3, <2>4, <3>2
    <3>. QED  BY <3>1, <3>2
  <2>6. ASSUME NEW i \in DOMAIN c  PROVE i \in DOMAIN d /\ d[i] = c[i]
    <3>1. i \in 1..(Len(c) + 1) /\ i <= Len(c)
      BY <2>3, <2>4
    <3>. QED  BY <2>3, <2>4, <3>1
  <2>7. m \notin S => Places(d, S) = Places(c, S)
    BY <2>5, <2>6 DEF Places
  <2>8. Places(c, S) = {} => Unique(Places(d, S))
    BY <2>5 DEF Places, Unique
  <2>. QED  BY <1>3, <2>1, <2>7, <2>8 DEF c, d
<1>. QED  BY <1>1, <1>2, <1>3

(* Where messages are when b has read m from a. *)
LEMMA ReadPlaces ==
  ASSUME MeshInv, NEW a \in Agent, NEW b \in Agent, NEW m, Shrunk(a, b, m), NEW S
  PROVE  /\ \A x, y \in Agent : Fewer(Places(chan'[x][y], S), Places(chan[x][y], S))
         /\ m \in S => Places(chan[a][b], S) # {}
         /\ m \in S /\ Unique(Places(chan[a][b], S)) => Places(chan'[a][b], S) = {}
<1>. DEFINE c == chan[a][b]
            d == chan'[a][b]
<1>1. /\ c \in Seq(Message) /\ d \in Seq(Message)
      /\ m = c[1] /\ 1 \in 1..Len(c) /\ Len(c) \in Nat /\ Len(d) = Len(c) - 1
      /\ \A i \in 1..Len(d) : i + 1 \in 1..Len(c) /\ d[i] = c[i + 1]
      /\ \A x, y \in Agent : ~(x = a /\ y = b) => chan'[x][y] = chan[x][y]
  BY Known DEF Shrunk
<1>. HIDE DEF c, d
<1>2. DOMAIN c = 1..Len(c) /\ DOMAIN d = 1..Len(d) /\ DOMAIN d \subseteq Nat \ {0}
  BY <1>1
<1>3. ASSUME NEW i \in Places(d, S)  PROVE i + 1 \in Places(c, S) /\ i \in Nat \ {0}
  BY <1>1, <1>2 DEF Places
<1>4. m \in S => 1 \in Places(c, S)
  BY <1>1, <1>2 DEF Places
<1>5. Places(d, S) # {} => Places(c, S) # {}
  BY <1>3
<1>6. ASSUME Unique(Places(c, S))  PROVE Unique(Places(d, S))
  <2>1. ASSUME NEW i \in Places(d, S), NEW j \in Places(d, S)  PROVE i = j
    <3>1. i + 1 = j + 1 /\ i \in Nat /\ j \in Nat
      BY <1>3, <1>6 DEF Unique
    <3>. QED  BY <3>1
  <2>. QED  BY <2>1 DEF Unique
<1>7. ASSUME Unique(Places(c, S)), m \in S, NEW i \in Places(d, S)  PROVE FALSE
  <2>1. i + 1 = 1 /\ i \in Nat \ {0}
    BY <1>3, <1>4, <1>7 DEF Unique
  <2>. QED  BY <2>1
<1>8. \A x, y \in Agent : Fewer(Places(chan'[x][y], S), Places(chan[x][y], S))
  BY <1>1, <1>5, <1>6 DEF Fewer, c, d
<1>9. m \in S => Places(c, S) # {}
  BY <1>4
<1>10. m \in S /\ Unique(Places(c, S)) => Places(d, S) = {}
  BY <1>7
<1>. QED  BY <1>8, <1>9, <1>10 DEF c, d

(* What the places of a request are made of. *)
LEMMA PlacesTyped ==
  ASSUME MeshInv, NEW s \in Server, Server = {s}
  PROVE  /\ s \in Agent
         /\ \A q \in DOMAIN reqs : reqs[q].by \in Agent /\ q # 0
         /\ \A t \in tasks : t.re \in DOMAIN reqs /\ t = [at |-> s, re |-> t.re]
         /\ \A x, y \in Agent : \A q : q \notin DOMAIN reqs =>
              Places(chan[x][y], Asking(q)) = {} /\ Places(chan[x][y], Telling(q)) = {}
<1>1. /\ reqs \in Seq(Req) /\ DOMAIN reqs = 1..Len(reqs)
      /\ tasks \subseteq [at : Server, re : DOMAIN reqs]
  BY Known DEF TypeInv
<1>2. ASSUME NEW q \in DOMAIN reqs  PROVE reqs[q].by \in Agent /\ q # 0
  <2>1. reqs[q] \in Req /\ q # 0
    BY <1>1
  <2>. QED  BY <2>1, RpcAssumption DEF Req
<1>3. ASSUME NEW t \in tasks  PROVE t.re \in DOMAIN reqs /\ t = [at |-> s, re |-> t.re]
  <2>1. t \in [at : {s}, re : DOMAIN reqs]
    BY <1>1
  <2>. QED  BY <2>1
<1>4. ASSUME NEW x \in Agent, NEW y \in Agent, NEW i \in DOMAIN chan[x][y]
      PROVE  /\ chan[x][y][i].topic[1] = "request" => chan[x][y][i].re \in DOMAIN reqs
             /\ chan[x][y][i].topic[1] = "reply" => chan[x][y][i].re \in DOMAIN reqs
  <2>1. i \in 1..Len(chan[x][y])
    <3>1. chan[x][y] \in Seq(Message)
      BY Known
    <3>. QED  BY <3>1
  <2>2. chan[x][y][i] \in wal[x]
    BY <2>1, Known, OnLink
  <2>3. Genuine(chan[x][y][i])
    BY <2>2, Known DEF AllGenuine
  <2>. QED  BY <2>3, Kinds DEF Genuine
<1>5. s \in Agent
  BY RpcAssumption
<1>. QED  BY <1>2, <1>3, <1>4, <1>5 DEF Places, Asking, Telling

(* The answers that requests have when one of b gets that to p. *)
LEMMA HoldingAfter ==
  ASSUME MeshInv, SameReqs, NEW b \in Agent, NEW h, NEW p,
         UNCHANGED reqs \/ Gets(b, h, p), NEW q
  PROVE  /\ q # p => {k \in DOMAIN reqs' : reqs'[k].answer = q} \subseteq Holding(q)
         /\ reqs' = reqs => {k \in DOMAIN reqs' : reqs'[k].answer = q} = Holding(q)
         /\ Holding(p) = {} => Unique({k \in DOMAIN reqs' : reqs'[k].answer = p})
<1>1. CASE reqs' = reqs
  BY <1>1 DEF Holding, Unique
<1>2. CASE Gets(b, h, p)
  <2>1. DOMAIN reqs' = DOMAIN reqs
    BY DEF SameReqs
  <2>2. \A k \in DOMAIN reqs : reqs'[k].answer = IF k = h THEN p ELSE reqs[k].answer
    BY <1>2, AnswersAfter
  <2>3. q # p => {k \in DOMAIN reqs' : reqs'[k].answer = q} \subseteq Holding(q)
    BY <2>1, <2>2 DEF Holding
  <2>4. Holding(p) = {} => \A k \in DOMAIN reqs' : reqs'[k].answer = p => k = h
    BY <2>1, <2>2 DEF Holding
  <2>5. Holding(p) = {} => Unique({k \in DOMAIN reqs' : reqs'[k].answer = p})
    BY <2>4 DEF Unique
  <2>6. reqs' = reqs => {k \in DOMAIN reqs' : reqs'[k].answer = q} = Holding(q)
    BY DEF Holding
  <2>. QED  BY <2>3, <2>5, <2>6
<1>. QED  BY <1>1, <1>2

(* What OnePlace says of the next state. *)
OnePlaceNext(s, q) ==
  Single(Places(chan'[reqs'[q].by][s], Asking(q)), Places(chan'[s][reqs'[q].by], Telling(q)),
         {t \in tasks' : t.re = q}, {k \in DOMAIN reqs' : reqs'[k].answer = q})

(* What is under way, at work and held is less. *)
LEMMA OnePlaceLess ==
  ASSUME NEW s, NEW q, OnePlace(s, q), reqs'[q].by = reqs[q].by,
         Fewer(Places(chan'[reqs[q].by][s], Asking(q)), Places(chan[reqs[q].by][s], Asking(q))),
         Fewer(Places(chan'[s][reqs[q].by], Telling(q)), Places(chan[s][reqs[q].by], Telling(q))),
         {t \in tasks' : t.re = q} \subseteq AtWork(q),
         {k \in DOMAIN reqs' : reqs'[k].answer = q} \subseteq Holding(q)
  PROVE  OnePlaceNext(s, q)
<1>1. Single(Places(chan[reqs[q].by][s], Asking(q)), Places(chan[s][reqs[q].by], Telling(q)),
             AtWork(q), Holding(q))
  BY DEF OnePlace
<1>2. Single(Places(chan'[reqs[q].by][s], Asking(q)), Places(chan'[s][reqs[q].by], Telling(q)),
             {t \in tasks' : t.re = q}, {k \in DOMAIN reqs' : reqs'[k].answer = q})
  BY <1>1, FewerPlaces
<1>. QED  BY <1>2 DEF OnePlaceNext

(* A request is made: it is under way to the server or at work there. *)
LEMMA OnePlaceAsks ==
  ASSUME MeshInv, NEW s \in Server, Server = {s}, \A q \in DOMAIN reqs : OnePlace(s, q),
         NEW a \in Caller, NEW c \in Method, NEW k, NEW r, NEW m, RequestMade(a, c, k, r, m),
         NEW q \in DOMAIN reqs'
  PROVE  OnePlaceNext(s, q)
<1>1. /\ a \in Agent /\ k = Len(reqs) + 1 /\ k \in Nat \ {0} /\ k \notin DOMAIN reqs
      /\ r \in Req /\ r.by = a /\ r.state = "waits" /\ r.answer = 0
      /\ r.alone <=> \A n \in DOMAIN reqs : reqs[n].by = a => reqs[n].state # "waits"
      /\ m \in Message /\ m.topic = Request(c) /\ m.from = a /\ m.ts = now + 1 /\ m.re = k
      /\ m.topic[1] = "request"
      /\ reqs' \in Seq(Req) /\ DOMAIN reqs' = DOMAIN reqs \cup {k}
      /\ reqs'[k] = r /\ \A n \in DOMAIN reqs : reqs'[n] = reqs[n]
  BY RequestFacts
<1>2. /\ chan' = Broadcast(a, m)
      /\ tasks' = tasks \/ (tasks' = tasks \cup {[at |-> a, re |-> k]} /\ m.topic \in DOMAIN bus[a])
  BY DEF RequestMade
<1>3. /\ s \in Agent
      /\ \A n \in DOMAIN reqs : reqs[n].by \in Agent /\ n # 0
      /\ \A t \in tasks : t.re \in DOMAIN reqs
      /\ \A x, y \in Agent : \A n : n \notin DOMAIN reqs =>
           Places(chan[x][y], Asking(n)) = {} /\ Places(chan[x][y], Telling(n)) = {}
  BY PlacesTyped
<1>4. m \notin Telling(q)
  BY <1>1 DEF Telling
<1>5. CASE q \in DOMAIN reqs
  <2>. DEFINE x == reqs[q].by
  <2>1. x \in Agent /\ q # 0 /\ q # k /\ m \notin Asking(q) /\ reqs'[q].by = x
    BY <1>1, <1>3, <1>5 DEF Asking
  <2>. HIDE DEF x
  <2>2. /\ Places(chan'[x][s], Asking(q)) = Places(chan[x][s], Asking(q))
        /\ Places(chan'[s][x], Telling(q)) = Places(chan[s][x], Telling(q))
    BY <1>1, <1>2, <1>3, <1>4, <2>1, SendPlaces
  <2>3. {t \in tasks' : t.re = q} \subseteq AtWork(q)
    BY <1>2, <2>1 DEF AtWork
  <2>4. {n \in DOMAIN reqs' : reqs'[n].answer = q} \subseteq Holding(q)
    BY <1>1, <2>1 DEF Holding
  <2>5. /\ Fewer(Places(chan'[x][s], Asking(q)), Places(chan[x][s], Asking(q)))
        /\ Fewer(Places(chan'[s][x], Telling(q)), Places(chan[s][x], Telling(q)))
    BY <2>2 DEF Fewer
  <2>. QED  BY <1>5, <2>1, <2>3, <2>4, <2>5, OnePlaceLess DEF x
<1>6. CASE q = k
  <2>1. /\ Places(chan[a][s], Asking(q)) = {} /\ Places(chan[s][a], Telling(q)) = {}
    BY <1>1, <1>3, <1>6
  <2>2. Places(chan'[s][a], Telling(q)) = {}
    BY <1>1, <1>2, <1>3, <1>4, <2>1, SendPlaces
  <2>3. Unique(Places(chan'[a][s], Asking(q)))
    BY <1>1, <1>2, <1>3, <2>1, SendPlaces
  <2>4. {n \in DOMAIN reqs' : reqs'[n].answer = q} = {}
    <3>1. \A n \in DOMAIN reqs : reqs[n].answer # k
      BY <1>1, Known DEF Bounded
    <3>. QED  BY <1>1, <1>6, <3>1
  <2>5. {t \in tasks' : t.re = q} = {} \/ Places(chan'[a][s], Asking(q)) = {}
    <3>1. CASE tasks' = tasks
      BY <1>1, <1>3, <1>6, <3>1
    <3>2. CASE m.topic \in DOMAIN bus[a]
      <4>1. Callback(a, m.topic)
        BY <1>1, <3>2, Known DEF Callbacks
      <4>2. a = s
        BY <1>1, <4>1, Kinds DEF Callback
      <4>3. Places(chan'[a][a], Asking(q)) = Places(chan[a][a], Asking(q))
        BY <1>1, <1>2, SendPlaces
      <4>. QED  BY <2>1, <4>2, <4>3
    <3>. QED  BY <1>2, <3>1, <3>2
  <2>6. Unique({})
    BY DEF Unique
  <2>7. reqs'[q].by = a
    BY <1>1, <1>6
  <2>8. Single(Places(chan'[a][s], Asking(q)), {}, {t \in tasks' : t.re = q}, {})
    BY <2>3, <2>5, <2>6 DEF Single
  <2>. QED  BY <2>2, <2>4, <2>7, <2>8 DEF OnePlaceNext
<1>. QED  BY <1>1, <1>5, <1>6

(* The server gets a request: it is at work and no longer under way. *)
LEMMA OnePlaceServes ==
  ASSUME MeshInv, NEW s \in Server, Server = {s}, \A q \in DOMAIN reqs : OnePlace(s, q),
         NEW a \in Agent, NEW b \in Agent, ReceiveRequest(a, b), NEW q \in DOMAIN reqs'
  PROVE  OnePlaceNext(s, q)
<1>. DEFINE m == Head(chan[a][b])
<1>1. /\ chan[a][b] # <<>> /\ chan' = [chan EXCEPT ![a][b] = Tail(@)]
      /\ reqs' = reqs /\ m.topic[1] = "request"
      /\ \/ tasks' = tasks
         \/ tasks' = tasks \cup {[at |-> b, re |-> m.re]} /\ m.topic \in DOMAIN bus[b]
  BY DEF ReceiveRequest
<1>2. Shrunk(a, b, m)
  BY <1>1, Known, ReadsHead
<1>. HIDE DEF m
<1>3. m \in Message /\ Genuine(m) /\ m.from = a
  BY <1>2, HeadFacts
<1>4. s \in Agent /\ reqs[q].by \in Agent /\ q \in DOMAIN reqs
  BY <1>1, PlacesTyped
<1>. DEFINE x == reqs[q].by
            A == Places(chan[x][s], Asking(q))
            AA == Places(chan'[x][s], Asking(q))
            B == Places(chan[s][x], Telling(q))
            BB == Places(chan'[s][x], Telling(q))
            CC == {t \in tasks' : t.re = q}
            DD == {k \in DOMAIN reqs' : reqs'[k].answer = q}
<1>5. Fewer(AA, A) /\ Fewer(BB, B)
  BY <1>2, <1>4, ReadPlaces
<1>6. DD = Holding(q) /\ reqs'[q].by = x
  BY <1>1 DEF Holding
<1>7. OnePlace(s, q)
  BY <1>4
<1>8. CASE CC \subseteq AtWork(q)
  BY <1>5, <1>6, <1>7, <1>8, OnePlaceLess
<1>9. CASE m.re = q /\ m.topic \in DOMAIN bus[b]
  <2>1. b = s /\ x = a
    BY <1>1, <1>3, <1>9, TaskTyped
  <2>2. m \in Asking(q)
    BY <1>1, <1>3, <1>9 DEF Asking
  <2>3. A # {} /\ (Unique(A) => AA = {})
    BY <1>2, <2>1, <2>2, ReadPlaces
  <2>4. Single(A, B, AtWork(q), Holding(q))
    BY <1>7 DEF OnePlace
  <2>. HIDE DEF A, AA, B, BB, CC, DD
  <2>5. AA = {} /\ BB = {} /\ DD = {}
    BY <1>5, <1>6, <2>3, <2>4 DEF Single, Fewer
  <2>6. Single(AA, BB, CC, DD)
    BY <2>5 DEF Single, Unique
  <2>. QED  BY <1>6, <2>6 DEF OnePlaceNext, AA, BB, CC, DD
<1>10. CC \subseteq AtWork(q) \/ (m.re = q /\ m.topic \in DOMAIN bus[b])
  <2>1. CASE tasks' = tasks
    BY <2>1 DEF AtWork
  <2>2. CASE tasks' = tasks \cup {[at |-> b, re |-> m.re]} /\ m.topic \in DOMAIN bus[b]
    BY <2>2 DEF AtWork
  <2>. QED  BY <1>1, <2>1, <2>2
<1>. QED  BY <1>8, <1>9, <1>10

(* A task is done: its answer is under way, or with a request of the server. *)
LEMMA OnePlaceReplies ==
  ASSUME MeshInv, NEW s \in Server, Server = {s}, \A q \in DOMAIN reqs : OnePlace(s, q),
         NEW t \in tasks, NEW m, AnswerMade(t, m), NEW q \in DOMAIN reqs'
  PROVE  OnePlaceNext(s, q)
<1>. DEFINE p == t.re
<1>1. /\ t.at \in Server /\ t.at \in Agent /\ t.re \in DOMAIN reqs /\ reqs[t.re].by \in Agent
      /\ m \in Message /\ m.topic = Reply(reqs[t.re].by) /\ m.from = t.at /\ m.ts = now + 1
      /\ m.re = t.re /\ m.topic[1] = "reply" /\ Genuine(m)
      /\ t = [at |-> t.at, re |-> t.re]
  BY AnswerFacts
<1>2. /\ chan' = Broadcast(s, m) /\ TakeReply(s, m) /\ tasks' = tasks \ {t}
      /\ t.at = s /\ m.re = p /\ p \in DOMAIN reqs /\ s \in Agent
  BY <1>1 DEF AnswerMade
<1>3. /\ SameReqs
      /\ UNCHANGED reqs \/ Gets(s, bus[s][Reply(s)], p)
  BY <1>1, <1>2, Known, AnswerArrives
<1>. HIDE DEF p
<1>4. /\ q \in DOMAIN reqs /\ reqs'[q].by = reqs[q].by /\ reqs[q].by \in Agent
  BY <1>3, PlacesTyped DEF SameReqs
<1>. DEFINE x == reqs[q].by
            A == Places(chan[x][s], Asking(q))
            AA == Places(chan'[x][s], Asking(q))
            B == Places(chan[s][x], Telling(q))
            BB == Places(chan'[s][x], Telling(q))
            CC == {u \in tasks' : u.re = q}
            DD == {k \in DOMAIN reqs' : reqs'[k].answer = q}
<1>5. OnePlace(s, q)
  BY <1>4
<1>6. AA = A
  <2>1. m \notin Asking(q)
    BY <1>1 DEF Asking
  <2>. QED  BY <1>1, <1>2, <1>4, <2>1, SendPlaces
<1>7. CC \subseteq AtWork(q)
  BY <1>2 DEF AtWork
<1>8. CASE q # p
  <2>1. m \notin Telling(q)
    BY <1>2, <1>8 DEF Telling
  <2>2. BB = B
    BY <1>1, <1>2, <1>4, <2>1, SendPlaces
  <2>3. DD \subseteq Holding(q)
    <3>. HIDE DEF A, AA, B, BB, CC
    <3>1. s \in Agent /\ SameReqs /\ (UNCHANGED reqs \/ Gets(s, bus[s][Reply(s)], p))
      BY <1>2, <1>3
    <3>2. q # p => {k \in DOMAIN reqs' : reqs'[k].answer = q} \subseteq Holding(q)
      BY <3>1, HoldingAfter
    <3>. QED  BY <1>8, <3>2
  <2>4. Fewer(AA, A) /\ Fewer(BB, B)
    BY <1>6, <2>2 DEF Fewer
  <2>. QED  BY <1>4, <1>5, <1>7, <2>3, <2>4, OnePlaceLess
<1>9. CASE q = p
  <2>1. t \in AtWork(q)
    BY <1>9 DEF AtWork, p
  <2>2. Single(A, B, AtWork(q), Holding(q))
    BY <1>5 DEF OnePlace
  <2>3. A = {} /\ B = {} /\ Holding(q) = {}
    <3>. HIDE DEF A, B
    <3>. QED  BY <2>1, <2>2 DEF Single
  <2>4. CC = {}
    <3>1. ASSUME NEW u \in tasks, u.re = q  PROVE u = t
      <4>1. u = [at |-> s, re |-> u.re] /\ t = [at |-> s, re |-> t.re]
        BY PlacesTyped
      <4>. QED  BY <1>9, <3>1, <4>1 DEF p
    <3>. QED  BY <1>2, <3>1
  <2>5. Unique(BB)
    BY <1>1, <1>2, <1>4, <2>3, SendPlaces
  <2>6. Unique(DD)
    BY <1>2, <1>3, <1>9, <2>3, HoldingAfter
  <2>7. BB = {} \/ DD = {}
    <3>1. CASE UNCHANGED reqs
      BY <2>3, <3>1 DEF Holding
    <3>2. CASE Gets(s, bus[s][Reply(s)], p)
      <4>1. x = s
        BY <1>9, <3>2 DEF Gets
      <4>2. BB = B
        BY <1>1, <1>2, <1>4, <4>1, SendPlaces
      <4>. QED  BY <2>3, <4>2
    <3>. QED  BY <1>3, <3>1, <3>2
  <2>. HIDE DEF A, AA, B, BB, CC, DD
  <2>8. Single(AA, BB, CC, DD)
    BY <1>6, <2>3, <2>4, <2>5, <2>6, <2>7 DEF Single, Unique
  <2>. QED  BY <1>4, <2>8 DEF OnePlaceNext, AA, BB, CC, DD
<1>. QED  BY <1>8, <1>9

(* An answer is read: a request has it, or it is gone. *)
LEMMA OnePlaceAnswers ==
  ASSUME MeshInv, NEW s \in Server, Server = {s}, \A q \in DOMAIN reqs : OnePlace(s, q),
         NEW a \in Agent, NEW b \in Agent, ReceiveReply(a, b), NEW q \in DOMAIN reqs'
  PROVE  OnePlaceNext(s, q)
<1>. DEFINE m == Head(chan[a][b])
<1>1. /\ chan[a][b] # <<>> /\ chan' = [chan EXCEPT ![a][b] = Tail(@)]
      /\ tasks' = tasks /\ m.topic[1] = "reply" /\ TakeReply(b, m)
  BY DEF ReceiveReply
<1>2. Shrunk(a, b, m)
  BY <1>1, Known, ReadsHead
<1>. HIDE DEF m
<1>3. m \in Message /\ Genuine(m) /\ m.from = a
  BY <1>2, HeadFacts
<1>4. /\ SameReqs
      /\ UNCHANGED reqs \/ Gets(b, bus[b][Reply(b)], m.re)
  BY <1>1, <1>3, Known, AnswerArrives
<1>5. a = s
  <2>1. m.from \in Server
    BY <1>1, <1>3, Kinds DEF Genuine
  <2>. QED  BY <1>3, <2>1
<1>6. /\ q \in DOMAIN reqs /\ reqs'[q].by = reqs[q].by /\ reqs[q].by \in Agent /\ s \in Agent
  BY <1>4, PlacesTyped DEF SameReqs
<1>. DEFINE x == reqs[q].by
            A == Places(chan[x][s], Asking(q))
            AA == Places(chan'[x][s], Asking(q))
            B == Places(chan[s][x], Telling(q))
            BB == Places(chan'[s][x], Telling(q))
            CC == {u \in tasks' : u.re = q}
            DD == {k \in DOMAIN reqs' : reqs'[k].answer = q}
<1>7. OnePlace(s, q)
  BY <1>6
<1>8. Fewer(AA, A) /\ Fewer(BB, B)
  BY <1>2, <1>6, ReadPlaces
<1>9. CC = AtWork(q)
  BY <1>1 DEF AtWork
<1>10. CASE UNCHANGED reqs \/ q # m.re
  <2>1. DD \subseteq Holding(q)
    BY <1>4, <1>10, HoldingAfter
  <2>. QED  BY <1>6, <1>7, <1>8, <1>9, <2>1, OnePlaceLess
<1>11. CASE Gets(b, bus[b][Reply(b)], m.re) /\ q = m.re
  <2>1. x = b
    BY <1>11 DEF Gets
  <2>2. m \in Telling(q)
    BY <1>1, <1>3, <1>11 DEF Telling
  <2>3. B # {} /\ (Unique(B) => BB = {})
    BY <1>2, <1>5, <2>1, <2>2, ReadPlaces
  <2>4. Single(A, B, AtWork(q), Holding(q))
    BY <1>7 DEF OnePlace
  <2>5. A = {} /\ AtWork(q) = {} /\ Holding(q) = {} /\ BB = {}
    <3>. HIDE DEF A, B, BB
    <3>. QED  BY <2>3, <2>4 DEF Single
  <2>6. Unique(DD)
    BY <1>4, <1>11, <2>5, HoldingAfter
  <2>. HIDE DEF A, AA, B, BB, CC, DD
  <2>7. AA = {}
    BY <1>8, <2>5 DEF Fewer
  <2>8. Single(AA, BB, CC, DD)
    BY <1>9, <2>5, <2>6, <2>7 DEF Single, Unique
  <2>. QED  BY <1>6, <2>8 DEF OnePlaceNext, AA, BB, CC, DD
<1>. QED  BY <1>4, <1>10, <1>11


(* Requests and tasks stay, and no link gets a message about a request. *)
LEMMA OnePlaceRests ==
  ASSUME MeshInv, NEW s \in Server, Server = {s}, \A q \in DOMAIN reqs : OnePlace(s, q),
         tasks' = tasks, DOMAIN reqs' = DOMAIN reqs,
         \A k \in DOMAIN reqs : reqs'[k].by = reqs[k].by /\ reqs'[k].answer = reqs[k].answer,
         \A q : \A x, y \in Agent :
            /\ Fewer(Places(chan'[x][y], Asking(q)), Places(chan[x][y], Asking(q)))
            /\ Fewer(Places(chan'[x][y], Telling(q)), Places(chan[x][y], Telling(q))),
         NEW q \in DOMAIN reqs'
  PROVE  OnePlaceNext(s, q)
<1>1. q \in DOMAIN reqs /\ reqs'[q].by = reqs[q].by /\ reqs[q].by \in Agent /\ s \in Agent
  BY PlacesTyped
<1>2. {t \in tasks' : t.re = q} \subseteq AtWork(q)
  BY DEF AtWork
<1>3. {k \in DOMAIN reqs' : reqs'[k].answer = q} \subseteq Holding(q)
  BY DEF Holding
<1>4. /\ Fewer(Places(chan'[reqs[q].by][s], Asking(q)), Places(chan[reqs[q].by][s], Asking(q)))
      /\ Fewer(Places(chan'[s][reqs[q].by], Telling(q)), Places(chan[s][reqs[q].by], Telling(q)))
  BY <1>1
<1>. QED  BY <1>1, <1>2, <1>3, <1>4, OnePlaceLess

(* Every step leaves a request, or its answer, in one place. *)
LEMMA OnePlaceStep ==
  ASSUME MeshInv, NEW s \in Server, Server = {s}, \A q \in DOMAIN reqs : OnePlace(s, q),
         [RpcNext]_allVars, NEW q \in DOMAIN reqs'
  PROVE  OnePlaceNext(s, q)
<1>1. CASE tasks' = tasks /\ reqs' = reqs /\ chan' = chan
  <2>1. \A S : \A x, y \in Agent : Fewer(Places(chan'[x][y], S), Places(chan[x][y], S))
    BY <1>1 DEF Fewer
  <2>. QED  BY <1>1, <2>1, OnePlaceRests
<1>2. ASSUME NEW a \in Agent, NEW c \in Capability, Emit(a, c), UNCHANGED rpcVars
      PROVE  OnePlaceNext(s, q)
  <2>1. now \in Nat
    BY Known
  <2>2. PICK m \in Message :
          /\ m = [topic |-> Event(c), cap |-> c, from |-> a, ts |-> now + 1, re |-> 0]
          /\ m.topic = Event(m.cap) /\ m.from = a /\ m.ts = now + 1
    BY <2>1, EmittedMessage
  <2>3. chan' = Broadcast(a, m) /\ tasks' = tasks /\ reqs' = reqs
    BY <1>2, <2>2 DEF Emit, rpcVars
  <2>4. \A k : m \notin Asking(k) /\ m \notin Telling(k)
    BY <2>2, Kinds DEF Asking, Telling
  <2>5. ASSUME NEW S, m \notin S, NEW x \in Agent, NEW y \in Agent
        PROVE  Fewer(Places(chan'[x][y], S), Places(chan[x][y], S))
    <3>1. Places(chan'[x][y], S) = Places(chan[x][y], S)
      BY <2>3, <2>5, SendPlaces
    <3>. QED  BY <3>1 DEF Fewer
  <2>. QED  BY <2>3, <2>4, <2>5, OnePlaceRests
<1>3. ASSUME NEW a \in Agent, NEW b \in Agent, ReceiveEvent(a, b), UNCHANGED rpcVars
      PROVE  OnePlaceNext(s, q)
  <2>1. /\ chan[a][b] # <<>> /\ chan' = [chan EXCEPT ![a][b] = Tail(@)]
        /\ tasks' = tasks /\ reqs' = reqs
    BY <1>3 DEF ReceiveEvent, rpcVars
  <2>2. Shrunk(a, b, Head(chan[a][b]))
    BY <2>1, Known, ReadsHead
  <2>3. ASSUME NEW S
        PROVE  \A x, y \in Agent : Fewer(Places(chan'[x][y], S), Places(chan[x][y], S))
    BY <2>2, ReadPlaces
  <2>. QED  BY <2>1, <2>3, OnePlaceRests
<1>4. ASSUME NEW a \in Agent, NEW b \in Agent, Cut(a, b), UNCHANGED rpcVars
      PROVE  OnePlaceNext(s, q)
  <2>1. /\ chan' = [chan EXCEPT ![a][b] = <<>>, ![b][a] = <<>>]
        /\ tasks' = tasks /\ reqs' = reqs
    BY <1>4 DEF Cut, rpcVars
  <2>2. ASSUME NEW S, NEW x \in Agent, NEW y \in Agent
        PROVE  Fewer(Places(chan'[x][y], S), Places(chan[x][y], S))
    <3>1. chan'[x][y] = chan[x][y] \/ chan'[x][y] = <<>>
      BY <2>1, Known
    <3>2. Places(<<>>, S) = {}
      BY DEF Places
    <3>. QED  BY <3>1, <3>2 DEF Fewer, Unique
  <2>. QED  BY <2>1, <2>2, OnePlaceRests
<1>5. CASE Next /\ UNCHANGED rpcVars
  <2>1. CASE \E e \in Emits : Emit(e[1], e[2])
    <3>1. PICK e \in Emits : Emit(e[1], e[2])
      BY <2>1
    <3>2. e[1] \in Agent /\ e[2] \in Capability
      BY EmitsAssumption
    <3>. QED  BY <1>2, <1>5, <3>1, <3>2
  <2>2. ASSUME NEW a, NEW caps, Listen(a, caps)  PROVE chan' = chan
    BY <2>2 DEF Listen
  <2>3. ASSUME NEW a, NEW i, Cancel(a, i)  PROVE chan' = chan
    BY <2>3 DEF Cancel
  <2>4. ASSUME NEW a, SyncOnReconnect(a)  PROVE chan' = chan
    BY <2>4 DEF SyncOnReconnect
  <2>5. ASSUME NEW a, NEW b, Mend(a, b)  PROVE chan' = chan
    BY <2>5 DEF Mend
  <2>6. tasks' = tasks /\ reqs' = reqs
    BY <1>5 DEF rpcVars
  <2>. QED  BY <1>1, <1>3, <1>4, <1>5, <2>1, <2>2, <2>3, <2>4, <2>5, <2>6 DEF Next
<1>6. CASE \E a \in Agent, c \in Method : Serve(a, c)
  BY <1>1, <1>6 DEF Serve, rpcVars
<1>7. CASE \E a \in Caller, c \in Method : MakeRequest(a, c)
  <2>1. PICK a \in Caller, c \in Method : MakeRequest(a, c)
    BY <1>7
  <2>2. \E k, r, m : RequestMade(a, c, k, r, m)
    BY <2>1 DEF MakeRequest, RequestMade
  <2>. QED  BY <2>2, OnePlaceAsks
<1>8. CASE \E a, b \in Agent : ReceiveRequest(a, b)
  BY <1>8, OnePlaceServes
<1>9. CASE \E t \in tasks : ReplyTo(t)
  <2>0. PICK t \in tasks : ReplyTo(t)
    BY <1>9
  <2>1. PICK m : AnswerMade(t, m)
    BY <2>0 DEF ReplyTo, AnswerMade
  <2>. QED  BY <2>1, OnePlaceReplies
<1>10. CASE \E a, b \in Agent : ReceiveReply(a, b)
  BY <1>10, OnePlaceAnswers
<1>11. ASSUME NEW n \in DOMAIN reqs, NEW o, Finish(n, o)
       PROVE  OnePlaceNext(s, q)
  <2>. DEFINE r == [reqs[n] EXCEPT !.state = o]
  <2>1. reqs[n] \in Req
    BY Known
  <2>2. r.by = reqs[n].by /\ r.answer = reqs[n].answer
    BY <2>1 DEF Req
  <2>. HIDE DEF r
  <2>3. reqs' = [reqs EXCEPT ![n] = r] /\ tasks' = tasks /\ chan' = chan
    BY <1>11 DEF Finish, r
  <2>4. /\ DOMAIN reqs' = DOMAIN reqs
        /\ \A k \in DOMAIN reqs : reqs'[k].by = reqs[k].by /\ reqs'[k].answer = reqs[k].answer
    BY <2>2, <2>3
  <2>5. \A S : \A x, y \in Agent : Fewer(Places(chan'[x][y], S), Places(chan[x][y], S))
    BY <2>3 DEF Fewer
  <2>. QED  BY <2>3, <2>4, <2>5, OnePlaceRests
<1>12. CASE \E k \in DOMAIN reqs : Return(k) \/ TimeOut(k)
  BY <1>11, <1>12 DEF Return, TimeOut
<1>13. CASE UNCHANGED allVars
  BY <1>1, <1>13 DEF allVars, vars, rpcVars
<1>14. Server \subseteq Agent
  BY RpcAssumption
<1>. QED  BY <1>5, <1>6, <1>7, <1>8, <1>9, <1>10, <1>12, <1>13, <1>14 DEF RpcNext

(* With one server an answer stays in one place. *)
LEMMA AnsweredOnceStep ==
  ASSUME MeshInv, AnsweredOnce, [RpcNext]_allVars
  PROVE  AnsweredOnce'
<1>. SUFFICES ASSUME NEW s \in Server, Server = {s}, NEW q \in DOMAIN reqs'
              PROVE  OnePlace(s, q)'
  BY DEF AnsweredOnce
<1>1. OnePlaceNext(s, q)
  BY OnePlaceStep DEF AnsweredOnce
<1>. QED  BY <1>1 DEF OnePlaceNext, OnePlace, AtWork, Holding

(* A request gets its own answer, or that of another request of its agent that
   was made while it waited, or, with one server, that ended before without
   taking its own: for any agents and servers, in whatever order requests end
   and answers come (request, reply_to, on_reply_raw). *)
THEOREM AnswersAreExplained == RpcSpec => []AnswersExplained
<1>1. RpcInit => Explained /\ AnsweredOnce
  BY DEF RpcInit, Explained, AnsweredOnce
<1>2. MeshInv /\ Explained /\ [RpcNext]_allVars => Explained'
  BY ExplainedStep
<1>3. MeshInv /\ AnsweredOnce /\ [RpcNext]_allVars => AnsweredOnce'
  BY AnsweredOnceStep
<1>4. MeshInv /\ Explained /\ AnsweredOnce => AnswersExplained
  <2>. SUFFICES ASSUME MeshInv, Explained, AnsweredOnce,
                       NEW k \in DOMAIN reqs, NEW q, q = reqs[k].answer, q \notin {0, k}
                PROVE  /\ reqs[q].by = reqs[k].by
                       /\ q > k => ~reqs[q].alone
                       /\ q < k /\ Cardinality(Server) = 1 => reqs[q].answer # q
    BY DEF AnswersExplained
  <2>1. reqs[q].by = reqs[k].by /\ (q > k => ~reqs[q].alone)
    BY DEF Explained
  <2>2. ASSUME Cardinality(Server) = 1, reqs[q].answer = q  PROVE FALSE
    <3>1. PICK s : Server = {s}
      BY <2>2, RpcAssumption, FS_Singleton
    <3>2. q \in DOMAIN reqs
      BY Known DEF Bounded
    <3>3. OnePlace(s, q)
      BY <3>1, <3>2 DEF AnsweredOnce
    <3>4. Unique(Holding(q))
      BY <3>3 DEF OnePlace, Single
    <3>5. k \in Holding(q) /\ q \in Holding(q)
      BY <2>2, <3>2 DEF Holding
    <3>. QED  BY <3>4, <3>5 DEF Unique
  <2>. QED  BY <2>1, <2>2
<1>. QED  BY <1>1, <1>2, <1>3, <1>4, MeshInvariance, PTL DEF RpcSpec

------------------------------------------------------------------------------
(* The SDK keeps the promise of PubSub to the subscriptions with a filter. *)

(* An event on a link has been emitted, and is later than all that a subscription
   with a filter at the end of the link has heard of its emitter. *)
ComesLater(a, b, m) ==
  /\ m.topic[1] = "agent" => m \in sent
  /\ \A i \in Filtered(b), k \in sent :
        k.from = a /\ k.ts \in Heard(subs[b][i]) => k.ts < m.ts

LinksBringNews == \A a, b \in Agent : \A m \in ToSet(chan[a][b]) : ComesLater(a, b, m)

(* What a subscription with a filter of b has heard after a step it had heard
   before, or it is of X. *)
HearsOnly(b, X) ==
  \A i \in (Filtered(b))' :
     Heard(subs'[b][i]) \subseteq X \cup (IF i \in Filtered(b) THEN Heard(subs[b][i]) ELSE {})

(* Nothing is heard, and of events nothing new is on a link. *)
LEMMA NewsStays ==
  ASSUME MeshInv, LinksBringNews, sent' = sent, \A b \in Agent : HearsOnly(b, {}),
         \A a, b \in Agent : \A m \in ToSet(chan'[a][b]) :
            m \in ToSet(chan[a][b]) \/ (m.topic[1] # "agent" /\ m.ts = now + 1)
  PROVE  LinksBringNews'
<1>. SUFFICES ASSUME NEW a \in Agent, NEW b \in Agent, NEW m \in ToSet(chan'[a][b])
              PROVE  (ComesLater(a, b, m))'
  BY DEF LinksBringNews
<1>1. m.topic[1] = "agent" => m \in sent'
  BY DEF LinksBringNews, ComesLater
<1>2. ASSUME NEW i \in (Filtered(b))', NEW k \in sent', k.from = a, k.ts \in Heard(subs'[b][i])
      PROVE  k.ts < m.ts
  <2>1. i \in Filtered(b) /\ k.ts \in Heard(subs[b][i])
    BY <1>2 DEF HearsOnly
  <2>2. CASE m \in ToSet(chan[a][b])
    BY <1>2, <2>1, <2>2 DEF LinksBringNews, ComesLater
  <2>3. CASE m.ts = now + 1
    <3>1. k.ts \in 1..now /\ now \in Nat
      BY <1>2, Known DEF Traffic, SentAreLogged, UniqueNumbers
    <3>. QED  BY <2>3, <3>1
  <2>. QED  BY <2>2, <2>3
<1>. QED  BY <1>1, <1>2 DEF ComesLater

(* A subscription that hears m and nothing else hears no more than m. *)
LEMMA DispatchHears ==
  ASSUME MeshInv, NEW b \in Agent, NEW X, HeardAt(b, X)
  PROVE  \A c \in Agent : HearsOnly(c, IF c = b THEN X ELSE {})
<1>1. \A c \in Agent : DOMAIN subs'[c] = DOMAIN subs[c]
      /\ \A i \in DOMAIN subs[c] : subs'[c][i].caps = subs[c][i].caps
  BY Known, HeardKeeps
<1>2. ASSUME NEW c \in Agent, NEW i \in (Filtered(c))'
      PROVE  i \in Filtered(c) /\ i \in DOMAIN subs[c]
  BY <1>1 DEF Filtered
<1>3. ASSUME NEW i \in DOMAIN subs[b]
      PROVE  Heard(subs'[b][i]) \subseteq Heard(subs[b][i]) \cup X
  BY Known DEF HeardAt, SameSubs
<1>4. \A c \in Agent : c # b => subs'[c] = subs[c]
  BY DEF HeardAt
<1>. QED  BY <1>2, <1>3, <1>4 DEF HearsOnly

(* A replay is heard by subscriptions without a filter only. *)
LEMMA ReplayIsUnfiltered ==
  ASSUME MeshInv, NEW a \in Agent, SyncOnReconnect(a)
  PROVE  /\ sent' = sent /\ chan' = chan
         /\ \A b \in Agent : DOMAIN subs'[b] = DOMAIN subs[b]
         /\ \A b \in Agent : \A i \in DOMAIN subs[b] :
               subs'[b][i] = subs[b][i] \/ (subs[b][i].caps = {} /\ subs'[b][i].caps = {})
<1>1. PICK ms : subs' = [subs EXCEPT ![a] = DispatchedAgain(@, ms)]
  BY DEF SyncOnReconnect
<1>2. sent' = sent /\ chan' = chan
  BY DEF SyncOnReconnect
<1>. DEFINE d == DispatchedAgain(subs[a], ms)
            z == [k \in DOMAIN ms |-> ms[k].ts]
<1>3. DOMAIN d = DOMAIN subs[a]
  BY DEF DispatchedAgain
<1>4. ASSUME NEW i \in DOMAIN subs[a]
      PROVE  d[i] = subs[a][i] \/ (subs[a][i].caps = {} /\ d[i].caps = {})
  <2>1. d[i] = IF Matches(subs[a][i], ReplayCaps)
               THEN [subs[a][i] EXCEPT !.got = @ \o z] ELSE subs[a][i]
    BY DEF DispatchedAgain
  <2>2. CASE ~Matches(subs[a][i], ReplayCaps)
    BY <2>1, <2>2
  <2>3. CASE Matches(subs[a][i], ReplayCaps)
    <3>1. subs[a][i].caps = {} /\ subs[a][i] \in Sub
      BY <2>3, Known DEF Matches, ReplayCaps
    <3>. DEFINE new == [subs[a][i] EXCEPT !.got = @ \o z]
    <3>2. new.caps = subs[a][i].caps
      BY <3>1 DEF Sub
    <3>. HIDE DEF new, d
    <3>. QED  BY <2>1, <2>3, <3>1, <3>2 DEF new
  <2>. QED  BY <2>2, <2>3
<1>. HIDE DEF d
<1>5. subs' = [subs EXCEPT ![a] = d]
  BY <1>1 DEF d
<1>6. ASSUME NEW b \in Agent
      PROVE  subs'[b] = IF b = a THEN d ELSE subs[b]
  BY <1>5, Known
<1>. QED  BY <1>2, <1>3, <1>4, <1>6

(* An emission. *)
LEMMA NewsEmitted ==
  ASSUME MeshInv, LinksBringNews, NEW a \in Agent, NEW c \in Capability, Emit(a, c)
  PROVE  LinksBringNews'
<1>1. PICK m \in Message :
        /\ m = [topic |-> Event(c), cap |-> c, from |-> a, ts |-> now + 1, re |-> 0]
        /\ m.topic = Event(m.cap) /\ m.from = a /\ m.ts = now + 1
  BY Known, EmittedMessage
<1>2. /\ sent' = sent \cup {m} /\ chan' = Broadcast(a, m)
      /\ RouteMessage(a, m, Logged(a, m), Unreached(a, m)) \/ NobodyListens(Logged(a, m), Unreached(a, m))
  BY <1>1 DEF Emit
<1>3. \A b \in Agent : HearsOnly(b, IF b = a THEN {m.ts} ELSE {})
  <2>1. HeardAt(a, {m.ts})
    BY <1>2, Known, Arrives
  <2>. QED  BY <2>1, DispatchHears
<1>4. \A x, y \in Agent :
        \/ chan'[x][y] = chan[x][y]
        \/ x = a /\ Pair(a, y) \in links /\ chan'[x][y] = Append(chan[a][y], m)
  <2>1. TypeInv /\ Traffic
    BY Known
  <2>. QED  BY <1>1, <1>2, <2>1, GoesOut
<1>5. \A x, y \in Agent : \A n \in ToSet(chan'[x][y]) :
        n \in ToSet(chan[x][y]) \/ (n = m /\ x = a /\ Pair(a, y) \in links)
  <2>1. \A y \in Agent : ToSet(Append(chan[a][y], m)) = ToSet(chan[a][y]) \cup {m}
    <3>1. \A y \in Agent : chan[a][y] \in Seq(Message)
      BY Known
    <3>. QED  BY <3>1, Appended
  <2>2. ASSUME NEW x \in Agent, NEW y \in Agent, NEW n \in ToSet(chan'[x][y])
        PROVE  n \in ToSet(chan[x][y]) \/ (n = m /\ x = a /\ Pair(a, y) \in links)
    <3>1. CASE chan'[x][y] = chan[x][y]
      BY <2>2, <3>1
    <3>2. CASE x = a /\ Pair(a, y) \in links /\ chan'[x][y] = Append(chan[a][y], m)
      <4>1. n \in ToSet(chan[a][y]) \cup {m}
        BY <2>1, <2>2, <3>2
      <4>. QED  BY <3>2, <4>1
    <3>. QED  BY <1>4, <3>1, <3>2
  <2>. QED  BY <2>2
<1>6. \A k \in sent : k.ts \in 1..now /\ k.from \in Agent
  BY Known DEF Traffic, SentAreLogged, UniqueNumbers
<1>7. /\ \A b \in Agent : Ears(subs[b]) \subseteq 1..now
      /\ Pair(a, a) \notin links /\ chan[a][a] = <<>>
  BY Known DEF Traffic, NotYetHeard, LinksRise
<1>. SUFFICES ASSUME NEW x \in Agent, NEW y \in Agent, NEW n \in ToSet(chan'[x][y])
              PROVE  (ComesLater(x, y, n))'
  BY DEF LinksBringNews
<1>8. n.topic[1] = "agent" => n \in sent'
  BY <1>2, <1>5 DEF LinksBringNews, ComesLater
<1>9. ASSUME NEW i \in (Filtered(y))', NEW k \in sent', k.from = x, k.ts \in Heard(subs'[y][i])
      PROVE  k.ts < n.ts
  <2>1. now \in Nat
    BY Known
  <2>2. CASE k \notin sent
    <3>1. k = m /\ x = a
      BY <1>1, <1>2, <1>9, <2>2
    <3>2. y # a
      <4>1. ASSUME y = a  PROVE FALSE
        <5>1. n \in ToSet(chan[a][a])
          BY <1>5, <1>7, <3>1, <4>1
        <5>2. ToSet(<<>>) = {}
          BY DEF ToSet
        <5>. QED  BY <1>7, <5>1, <5>2
      <4>. QED  BY <4>1
    <3>3. i \in Filtered(y) /\ k.ts \in Heard(subs[y][i])
      BY <1>3, <1>9, <3>2 DEF HearsOnly
    <3>4. k.ts \in 1..now
      BY <1>7, <3>3 DEF Ears, Filtered
    <3>. QED  BY <1>1, <2>1, <3>1, <3>4
  <2>3. CASE k \in sent
    <3>1. k.ts \in 1..now
      BY <1>6, <2>3
    <3>2. k.ts # m.ts
      BY <1>1, <2>1, <3>1
    <3>3. i \in Filtered(y) /\ k.ts \in Heard(subs[y][i])
      BY <1>3, <1>9, <3>2 DEF HearsOnly
    <3>4. CASE n \in ToSet(chan[x][y])
      BY <1>9, <2>3, <3>3, <3>4 DEF LinksBringNews, ComesLater
    <3>5. CASE n = m
      BY <1>1, <2>1, <3>1, <3>5
    <3>. QED  BY <1>5, <3>4, <3>5
  <2>. QED  BY <2>2, <2>3
<1>. QED  BY <1>8, <1>9 DEF ComesLater

(* The head of a link is read: what is left comes after it. *)
LEMMA NewsRead ==
  ASSUME MeshInv, LinksBringNews, NEW a \in Agent, NEW b \in Agent, ReceiveEvent(a, b)
  PROVE  LinksBringNews'
<1>. DEFINE m == Head(chan[a][b])
<1>1. /\ chan[a][b] # <<>> /\ chan' = [chan EXCEPT ![a][b] = Tail(@)] /\ sent' = sent
      /\ RouteMessage(b, m, wal, {}) \/ NobodyListens(wal, {})
  BY DEF ReceiveEvent
<1>2. Shrunk(a, b, m)
  BY <1>1, Known, ReadsHead
<1>. HIDE DEF m
<1>3. m \in Message /\ m \in wal[a] /\ m.from = a
  <2>1. m = chan[a][b][1] /\ 1 \in 1..Len(chan[a][b])
    BY <1>2 DEF Shrunk
  <2>2. TypeInv /\ Traffic
    BY Known
  <2>. QED  BY <2>1, <2>2, OnLink
<1>4. \A y \in Agent : HearsOnly(y, IF y = b THEN {m.ts} ELSE {})
  <2>1. HeardAt(b, {m.ts})
    BY <1>1, <1>3, Known, Arrives
  <2>. QED  BY <2>1, DispatchHears
<1>. SUFFICES ASSUME NEW x \in Agent, NEW y \in Agent, NEW n \in ToSet(chan'[x][y])
              PROVE  (ComesLater(x, y, n))'
  BY DEF LinksBringNews
<1>5. n \in ToSet(chan[x][y]) /\ (x = a /\ y = b => m.ts < n.ts)
  <2>0. chan' \in [Agent -> [Agent -> Seq(Message)]] /\ chan \in [Agent -> [Agent -> Seq(Message)]]
    BY <1>2, Known DEF Shrunk
  <2>1. /\ DOMAIN chan'[x][y] = 1..Len(chan'[x][y]) /\ DOMAIN chan[x][y] = 1..Len(chan[x][y])
    <3>1. chan'[x][y] \in Seq(Message) /\ chan[x][y] \in Seq(Message)
      BY <2>0
    <3>. QED  BY <3>1
  <2>2. PICK i \in 1..Len(chan'[x][y]) : n = chan'[x][y][i]
    BY <2>1 DEF ToSet
  <2>3. \E j \in 1..Len(chan[x][y]) : n = chan[x][y][j]
    BY <1>2, <2>2 DEF Shrunk
  <2>4. x = a /\ y = b => m.ts < n.ts
    BY <1>2, <2>2 DEF Shrunk
  <2>. QED  BY <2>1, <2>3, <2>4 DEF ToSet
<1>6. n.topic[1] = "agent" => n \in sent'
  BY <1>1, <1>5 DEF LinksBringNews, ComesLater
<1>7. ASSUME NEW i \in (Filtered(y))', NEW k \in sent', k.from = x, k.ts \in Heard(subs'[y][i])
      PROVE  k.ts < n.ts
  <2>1. k \in sent /\ k \in wal[k.from] /\ k.from \in Agent
    BY <1>1, Known DEF Traffic, SentAreLogged
  <2>2. CASE y = b /\ k.ts = m.ts
    <3>1. k = m
      BY <1>3, <2>1, <2>2, Known DEF Traffic, UniqueNumbers
    <3>. QED  BY <1>3, <1>5, <1>7, <2>2, <3>1
  <2>3. CASE ~(y = b /\ k.ts = m.ts)
    <3>1. i \in Filtered(y) /\ k.ts \in Heard(subs[y][i])
      BY <1>4, <1>7, <2>3 DEF HearsOnly
    <3>. QED  BY <1>5, <1>7, <2>1, <3>1 DEF LinksBringNews, ComesLater
  <2>. QED  BY <2>2, <2>3
<1>. QED  BY <1>6, <1>7 DEF ComesLater

(* LinksBringNews is kept by every step. *)
LEMMA NewsStep ==
  ASSUME MeshInv, LinksBringNews, [RpcNext]_allVars
  PROVE  LinksBringNews'
<1>. DEFINE Still == \A a, b \in Agent : \A m \in ToSet(chan'[a][b]) : m \in ToSet(chan[a][b])
            Same == sent' = sent /\ \A b \in Agent : HearsOnly(b, {})
<1>1. CASE Same /\ Still
  BY <1>1, NewsStays
<1>2. ASSUME subs' = subs  PROVE \A b \in Agent : HearsOnly(b, {})
  BY <1>2 DEF HearsOnly, Filtered
<1>3. ASSUME NEW a \in Agent, NEW m \in Message, chan' = Broadcast(a, m),
             m.topic[1] # "agent", m.ts = now + 1, subs' = subs, sent' = sent
      PROVE  LinksBringNews'
  <2>1. \A x, y \in Agent :
          \/ chan'[x][y] = chan[x][y]
          \/ chan'[x][y] = Append(chan[a][y], m) /\ x = a
    BY <1>3, Known, GoesOut
  <2>2. \A y \in Agent : ToSet(Append(chan[a][y], m)) = ToSet(chan[a][y]) \cup {m}
    <3>1. \A y \in Agent : chan[a][y] \in Seq(Message)
      BY Known
    <3>. QED  BY <3>1, Appended
  <2>3. ASSUME NEW x \in Agent, NEW y \in Agent, NEW n \in ToSet(chan'[x][y])
        PROVE  n \in ToSet(chan[x][y]) \/ n = m
    <3>1. CASE chan'[x][y] = chan[x][y]
      BY <2>3, <3>1
    <3>2. CASE x = a /\ chan'[x][y] = Append(chan[a][y], m)
      <4>1. n \in ToSet(chan[a][y]) \cup {m}
        BY <2>2, <2>3, <3>2
      <4>. QED  BY <3>2, <4>1
    <3>. QED  BY <2>1, <3>1, <3>2
  <2>4. \A a_1, b_1 \in Agent : \A n \in ToSet(chan'[a_1][b_1]) :
          n \in ToSet(chan[a_1][b_1]) \/ (n.topic[1] # "agent" /\ n.ts = now + 1)
    BY <1>3, <2>3
  <2>. QED  BY <1>2, <1>3, <2>4, NewsStays
<1>4. ASSUME NEW a \in Agent, NEW b \in Agent, chan[a][b] # <<>>,
             chan' = [chan EXCEPT ![a][b] = Tail(@)], subs' = subs, sent' = sent
      PROVE  LinksBringNews'
  <2>. DEFINE m == Head(chan[a][b])
  <2>1. Shrunk(a, b, m)
    BY <1>4, Known, ReadsHead
  <2>. HIDE DEF m
  <2>2. Still
    <3>0. chan' \in [Agent -> [Agent -> Seq(Message)]] /\ chan \in [Agent -> [Agent -> Seq(Message)]]
      BY <2>1, Known DEF Shrunk
    <3>1. ASSUME NEW x \in Agent, NEW y \in Agent, NEW n \in ToSet(chan'[x][y])
          PROVE  n \in ToSet(chan[x][y])
      <4>1. DOMAIN chan'[x][y] = 1..Len(chan'[x][y]) /\ DOMAIN chan[x][y] = 1..Len(chan[x][y])
        <5>1. chan'[x][y] \in Seq(Message) /\ chan[x][y] \in Seq(Message)
          BY <3>0
        <5>. QED  BY <5>1
      <4>2. PICK i \in 1..Len(chan'[x][y]) : n = chan'[x][y][i]
        BY <3>1, <4>1 DEF ToSet
      <4>3. \E j \in 1..Len(chan[x][y]) : n = chan[x][y][j]
        BY <2>1, <4>2 DEF Shrunk
      <4>. QED  BY <4>1, <4>3 DEF ToSet
    <3>. QED  BY <3>1
  <2>. QED  BY <1>1, <1>2, <1>4, <2>2
<1>5. CASE Next /\ UNCHANGED rpcVars
  <2>1. ASSUME NEW a \in Listener, NEW caps \in Filter, Listen(a, caps)  PROVE LinksBringNews'
    <3>. DEFINE u == [caps |-> caps, open |-> TRUE, since |-> now, got |-> <<>>]
    <3>1. sent' = sent /\ chan' = chan /\ subs' = [subs EXCEPT ![a] = Append(@, u)]
      BY <2>1 DEF Listen
    <3>2. u \in Sub /\ Heard(u) = {}
      <4>1. <<>> \in Seq(Nat) /\ ToSet(<<>>) = {}
        BY DEF ToSet
      <4>. QED  BY <4>1, Known DEF Sub, Heard
    <3>. HIDE DEF u
    <3>3. a \in Agent
      BY ListenerAssumption
    <3>4. \A b \in Agent : HearsOnly(b, {})
      <4>1. ASSUME NEW b \in Agent, NEW i \in DOMAIN subs'[b]
            PROVE  (i \in DOMAIN subs[b] /\ subs'[b][i] = subs[b][i]) \/ subs'[b][i] = u
        <5>1. CASE b = a
          <6>1. subs[a] \in Seq(Sub) /\ subs'[a] = Append(subs[a], u)
            BY <3>1, <3>3, Known
          <6>. QED  BY <3>2, <4>1, <5>1, <6>1, Appended
        <5>2. CASE b # a
          <6>1. subs'[b] = subs[b]
            BY <3>1, <5>2, Known
          <6>. QED  BY <4>1, <6>1
        <5>. QED  BY <5>1, <5>2
      <4>. QED  BY <3>2, <4>1 DEF HearsOnly, Filtered
    <3>. QED  BY <1>1, <3>1, <3>4
  <2>2. ASSUME NEW a \in Agent, NEW n \in DOMAIN subs[a], Cancel(a, n)  PROVE LinksBringNews'
    <3>. DEFINE s == [subs[a] EXCEPT ![n].open = FALSE]
    <3>1. sent' = sent /\ chan' = chan /\ subs' = [subs EXCEPT ![a] = s]
      BY <2>2 DEF Cancel
    <3>2. /\ DOMAIN s = DOMAIN subs[a]
          /\ \A i \in DOMAIN s : s[i].caps = subs[a][i].caps /\ s[i].got = subs[a][i].got
      <4>1. \A i \in DOMAIN subs[a] : subs[a][i] \in Sub
        BY Known
      <4>. QED  BY <4>1 DEF Sub
    <3>. HIDE DEF s
    <3>3. \A b \in Agent : HearsOnly(b, {})
      <4>1. ASSUME NEW b \in Agent
            PROVE  /\ DOMAIN subs'[b] = DOMAIN subs[b]
                   /\ \A i \in DOMAIN subs'[b] : /\ subs'[b][i].caps = subs[b][i].caps
                                                 /\ subs'[b][i].got = subs[b][i].got
        BY <3>1, <3>2, Known
      <4>. QED  BY <4>1 DEF HearsOnly, Filtered, Heard
    <3>. QED  BY <1>1, <3>1, <3>3
  <2>3. CASE \E e \in Emits : Emit(e[1], e[2])
    <3>1. PICK e \in Emits : Emit(e[1], e[2])
      BY <2>3
    <3>2. e[1] \in Agent /\ e[2] \in Capability
      BY EmitsAssumption
    <3>. QED  BY <3>1, <3>2, NewsEmitted
  <2>4. ASSUME NEW a \in Agent, SyncOnReconnect(a)  PROVE LinksBringNews'
    <3>1. /\ sent' = sent /\ chan' = chan
          /\ \A b \in Agent : DOMAIN subs'[b] = DOMAIN subs[b]
          /\ \A b \in Agent : \A i \in DOMAIN subs[b] :
                subs'[b][i] = subs[b][i] \/ (subs[b][i].caps = {} /\ subs'[b][i].caps = {})
      BY <2>4, ReplayIsUnfiltered
    <3>2. \A b \in Agent : HearsOnly(b, {})
      BY <3>1 DEF HearsOnly, Filtered
    <3>. QED  BY <1>1, <3>1, <3>2
  <2>5. ASSUME NEW a \in Agent, NEW b \in Agent, Cut(a, b)  PROVE LinksBringNews'
    <3>1. /\ subs' = subs /\ sent' = sent
          /\ chan' = [chan EXCEPT ![a][b] = <<>>, ![b][a] = <<>>]
      BY <2>5 DEF Cut
    <3>2. \A x, y \in Agent : chan'[x][y] = chan[x][y] \/ chan'[x][y] = <<>>
      BY <3>1, Known
    <3>3. ToSet(<<>>) = {}
      BY DEF ToSet
    <3>4. Still
      BY <3>2, <3>3
    <3>. QED  BY <1>1, <1>2, <3>1, <3>4
  <2>6. ASSUME NEW a \in Agent, NEW b \in Agent, Mend(a, b)  PROVE LinksBringNews'
    <3>1. subs' = subs /\ sent' = sent /\ chan' = chan
      BY <2>6 DEF Mend
    <3>. QED  BY <1>1, <1>2, <3>1
  <2>. QED  BY <1>5, <2>1, <2>2, <2>3, <2>4, <2>5, <2>6, NewsRead DEF Next
<1>6. CASE \E s \in Server, c \in Method : Serve(s, c)
  <2>1. subs' = subs /\ sent' = sent /\ chan' = chan
    BY <1>6 DEF Serve
  <2>. QED  BY <1>1, <1>2, <2>1
<1>7. CASE \E a \in Caller, c \in Method : MakeRequest(a, c)
  <2>1. PICK a \in Caller, c \in Method : MakeRequest(a, c)
    BY <1>7
  <2>2. PICK k, r, m : RequestMade(a, c, k, r, m)
    BY <2>1 DEF MakeRequest, RequestMade
  <2>3. m \in Message /\ a \in Agent /\ m.topic[1] = "request" /\ m.ts = now + 1
    <3>1. /\ a \in Agent /\ k = Len(reqs) + 1 /\ k \in Nat \ {0} /\ k \notin DOMAIN reqs
          /\ r \in Req /\ r.by = a /\ r.state = "waits" /\ r.answer = 0
          /\ r.alone <=> \A q \in DOMAIN reqs : reqs[q].by = a => reqs[q].state # "waits"
          /\ m \in Message /\ m.topic = Request(c) /\ m.from = a /\ m.ts = now + 1 /\ m.re = k
          /\ m.topic[1] = "request"
          /\ reqs' \in Seq(Req) /\ DOMAIN reqs' = DOMAIN reqs \cup {k}
          /\ reqs'[k] = r /\ \A q \in DOMAIN reqs : reqs'[q] = reqs[q]
      BY <2>2, RequestFacts
    <3>. QED  BY <3>1
  <2>4. chan' = Broadcast(a, m) /\ subs' = subs /\ sent' = sent
    BY <2>2 DEF RequestMade
  <2>. QED  BY <1>3, <2>3, <2>4
<1>8. CASE \E a, b \in Agent : ReceiveRequest(a, b) \/ ReceiveReply(a, b)
  <2>1. PICK a \in Agent, b \in Agent : ReceiveRequest(a, b) \/ ReceiveReply(a, b)
    BY <1>8
  <2>2. /\ subs' = subs /\ sent' = sent /\ chan[a][b] # <<>>
        /\ chan' = [chan EXCEPT ![a][b] = Tail(@)]
    BY <2>1 DEF ReceiveRequest, ReceiveReply
  <2>. QED  BY <1>4, <2>2
<1>9. CASE \E t \in tasks : ReplyTo(t)
  <2>0. PICK t \in tasks : ReplyTo(t)
    BY <1>9
  <2>1. PICK m : AnswerMade(t, m)
    BY <2>0 DEF ReplyTo, AnswerMade
  <2>2. t.at \in Agent /\ m \in Message /\ m.topic[1] # "agent" /\ m.ts = now + 1
    BY <2>1, AnswerFacts
  <2>3. chan' = Broadcast(t.at, m) /\ subs' = subs /\ sent' = sent
    BY <2>1 DEF AnswerMade
  <2>. QED  BY <1>3, <2>2, <2>3
<1>10. CASE \E k \in DOMAIN reqs : Return(k) \/ TimeOut(k)
  <2>1. subs' = subs /\ sent' = sent /\ chan' = chan
    BY <1>10 DEF Return, TimeOut, Finish
  <2>. QED  BY <1>1, <1>2, <2>1
<1>11. CASE UNCHANGED allVars
  <2>1. subs' = subs /\ sent' = sent /\ chan' = chan
    BY <1>11 DEF allVars, vars
  <2>. QED  BY <1>1, <1>2, <2>1
<1>. QED
  BY <1>5, <1>6, <1>7, <1>8, <1>9, <1>10, <1>11 DEF RpcNext

(* What PubSub sees of the subscriptions s of an agent. *)
View(s) == [i \in {i \in DOMAIN s : s[i].caps # {}} |->
              [caps |-> s[i].caps, open |-> s[i].open, got |-> s[i].got]]

(* It sees that of each agent. *)
LEMMA Viewed ==
  /\ PubSubHeard = [a \in Agent |-> View(subs[a])]
  /\ PubSubHeard' = [a \in Agent |-> View(subs'[a])]
BY DEF PubSubHeard, Filtered, View

(* A subscription with a filter is a new one of PubSub; one without is none. *)
LEMMA ListenPromises ==
  ASSUME MeshInv, NEW a \in Listener, NEW caps \in Filter, Listen(a, caps)
  PROVE  [Promise!Next]_(Promise!vars)
<1>. DEFINE u == [caps |-> caps, open |-> TRUE, since |-> now, got |-> <<>>]
            v == [caps |-> caps, open |-> TRUE, got |-> <<>>]
            s == subs[a]
            t == Append(s, u)
            n == Len(s) + 1
<1>1. a \in Agent /\ sent' = sent /\ subs' = [subs EXCEPT ![a] = t]
  BY ListenerAssumption DEF Listen
<1>2. s \in Seq(Sub) /\ u \in Sub /\ Len(s) \in Nat /\ DOMAIN s = 1..Len(s) /\ n \notin DOMAIN s
  <2>1. <<>> \in Seq(Nat)
    OBVIOUS
  <2>2. u \in Sub
    BY <2>1, Known DEF Sub
  <2>3. s \in Seq(Sub) /\ Len(s) \in Nat /\ DOMAIN s = 1..Len(s)
    BY <1>1, Known
  <2>. HIDE DEF s, u
  <2>. QED  BY <2>2, <2>3
<1>3. u.caps = caps /\ v = [caps |-> u.caps, open |-> u.open, got |-> u.got]
  OBVIOUS
<1>. HIDE DEF u, s, v
<1>4. /\ DOMAIN t = DOMAIN s \cup {n} /\ t[n] = u
      /\ \A i \in DOMAIN s : t[i] = s[i]
  <2>1. /\ Len(t) = Len(s) + 1 /\ t \in Seq(Sub)
        /\ \A i \in 1..(Len(s) + 1) : t[i] = IF i <= Len(s) THEN s[i] ELSE u
    BY <1>2, Appended
  <2>2. DOMAIN t = 1..(Len(s) + 1)
    BY <1>2, <2>1
  <2>. HIDE DEF t
  <2>. QED  BY <1>2, <2>1, <2>2
<1>. HIDE DEF t, n
<1>5. /\ PubSubHeard' = [PubSubHeard EXCEPT ![a] = View(t)]
      /\ PubSubHeard[a] = View(s)
  BY <1>1, Known, Viewed DEF s
<1>6. CASE caps = {}
  <2>1. View(t) = View(s)
    <3>1. {i \in DOMAIN t : t[i].caps # {}} = {i \in DOMAIN s : s[i].caps # {}}
      BY <1>3, <1>4, <1>2, <1>6
    <3>. QED  BY <1>4, <3>1 DEF View
  <2>2. PubSubHeard' = PubSubHeard
    BY <1>5, <2>1, Viewed
  <2>. QED  BY <1>1, <2>2 DEF Promise!vars
<1>7. CASE caps # {}
  <2>1. View(t) = [j \in DOMAIN View(s) \cup {n} |-> IF j = n THEN v ELSE View(s)[j]]
    <3>1. {i \in DOMAIN t : t[i].caps # {}} = {i \in DOMAIN s : s[i].caps # {}} \cup {n}
      BY <1>2, <1>3, <1>4, <1>7
    <3>2. DOMAIN View(s) = {i \in DOMAIN s : s[i].caps # {}}
      BY DEF View
    <3>3. \A i \in DOMAIN View(s) : i # n
      BY <1>2, <3>2
    <3>4. \A i \in DOMAIN View(s) :
            View(s)[i] = [caps |-> t[i].caps, open |-> t[i].open, got |-> t[i].got]
      BY <1>4, <3>2 DEF View
    <3>. QED  BY <1>3, <1>4, <3>1, <3>2, <3>3, <3>4 DEF View
  <2>2. n \notin DOMAIN PubSubHeard[a]
    BY <1>2, <1>5 DEF View
  <2>3. n \in DOMAIN PubSubHeard'[a]
    BY <1>1, <1>5, <2>1, Viewed
  <2>4. Promise!Listen(a, n, caps)
    BY <1>1, <1>5, <2>1, <2>2 DEF Promise!Listen, v
  <2>5. caps \in (SUBSET Capability) \ {{}}
    BY <1>7, FilterAssumption
  <2>. QED  BY <1>1, <2>3, <2>4, <2>5 DEF Promise!Next
<1>. QED  BY <1>6, <1>7

(* Cancelling one with a filter cancels it; one without is not seen. *)
LEMMA CancelPromises ==
  ASSUME MeshInv, NEW a \in Agent, NEW n \in DOMAIN subs[a], Cancel(a, n)
  PROVE  [Promise!Next]_(Promise!vars)
<1>. DEFINE s == subs[a]
            t == [s EXCEPT ![n].open = FALSE]
            old == s[n]
            new == [old EXCEPT !.open = FALSE]
<1>1. sent' = sent /\ subs' = [subs EXCEPT ![a] = t]
  BY DEF Cancel
<1>2. /\ old \in Sub /\ new.caps = old.caps /\ new.got = old.got /\ ~new.open
      /\ new.open = FALSE
  <2>1. old \in Sub
    BY Known
  <2>. HIDE DEF old
  <2>. QED  BY <2>1 DEF Sub
<1>3. t = [s EXCEPT ![n] = new] /\ n \in DOMAIN s
  OBVIOUS
<1>. HIDE DEF s, t, new, old
<1>4. DOMAIN t = DOMAIN s /\ t[n] = new /\ \A i \in DOMAIN s : i # n => t[i] = s[i]
  BY <1>3
<1>5. /\ PubSubHeard' = [PubSubHeard EXCEPT ![a] = View(t)]
      /\ PubSubHeard[a] = View(s) /\ DOMAIN PubSubHeard = Agent
  BY <1>1, Known, Viewed DEF s
<1>6. {i \in DOMAIN t : t[i].caps # {}} = {i \in DOMAIN s : s[i].caps # {}}
  BY <1>2, <1>4 DEF old
<1>7. CASE old.caps = {}
  <2>1. View(t) = View(s)
    <3>1. \A i \in {i \in DOMAIN s : s[i].caps # {}} : t[i] = s[i]
      BY <1>4, <1>7 DEF old
    <3>. QED  BY <1>6, <3>1 DEF View
  <2>2. PubSubHeard' = PubSubHeard
    BY <1>5, <2>1, Viewed
  <2>. QED  BY <1>1, <2>2 DEF Promise!vars
<1>8. CASE old.caps # {}
  <2>1. n \in DOMAIN View(s)
    BY <1>3, <1>8 DEF View, old
  <2>2. View(s)[n] = [caps |-> old.caps, open |-> old.open, got |-> old.got]
    BY <2>1 DEF View, old
  <2>3. View(t) = [View(s) EXCEPT ![n] = [caps |-> old.caps, open |-> FALSE, got |-> old.got]]
    <3>1. View(t)[n] = [caps |-> old.caps, open |-> FALSE, got |-> old.got]
      BY <1>2, <1>4, <1>6, <2>1 DEF View
    <3>2. \A i \in DOMAIN View(s) : i # n => View(t)[i] = View(s)[i]
      BY <1>4, <1>6 DEF View
    <3>3. DOMAIN View(t) = DOMAIN View(s) /\ View(t) = [i \in DOMAIN View(t) |-> View(t)[i]]
      BY <1>6 DEF View
    <3>. DEFINE x == [caps |-> old.caps, open |-> FALSE, got |-> old.got]
                p == View(t)
                q == View(s)
    <3>. HIDE DEF x, p, q
    <3>4. p[n] = x /\ (\A i \in DOMAIN q : i # n => p[i] = q[i]) /\ DOMAIN p = DOMAIN q
          /\ p = [i \in DOMAIN p |-> p[i]]
      BY <3>1, <3>2, <3>3 DEF p, q, x
    <3>5. p = [q EXCEPT ![n] = x]
      BY <3>4
    <3>. QED  BY <3>5 DEF p, q, x
  <2>4. View(t) = [View(s) EXCEPT ![n].open = FALSE]
    <3>. DEFINE y == View(s)[n]
                z == [y EXCEPT !.open = FALSE]
    <3>1. y \in [caps : {old.caps}, open : {old.open}, got : {old.got}]
      BY <2>2
    <3>. HIDE DEF y
    <3>2. z \in [caps : {old.caps}, open : {FALSE}, got : {old.got}]
      BY <3>1
    <3>. HIDE DEF z
    <3>3. z = [caps |-> old.caps, open |-> FALSE, got |-> old.got]
      BY <3>2
    <3>. QED  BY <2>3, <3>3 DEF z, y
  <2>5. PubSubHeard' = [PubSubHeard EXCEPT ![a] = [PubSubHeard[a] EXCEPT ![n].open = FALSE]]
    BY <1>5, <2>4
  <2>6. Promise!Cancel(a, n) /\ n \in DOMAIN PubSubHeard[a]
    BY <1>1, <1>5, <2>1, <2>5 DEF Promise!Cancel
  <2>. QED  BY <2>6 DEF Promise!Next
<1>. QED  BY <1>7, <1>8

(* What is dispatched to b is told to the subscriptions that PubSub sees. *)
LEMMA DispatchTold ==
  ASSUME MeshInv, NEW b \in Agent, NEW m \in Message,
         subs' = [subs EXCEPT ![b] = Dispatched(subs[b], {m.cap}, m)]
  PROVE  PubSubHeard' = Promise!Told(b, m)
<1>. DEFINE s == subs[b]
            d == Dispatched(s, {m.cap}, m)
            told == [i \in DOMAIN View(s) |-> Promise!HearsIt(View(s)[i], m)]
<1>1. /\ PubSubHeard' = [PubSubHeard EXCEPT ![b] = View(d)]
      /\ PubSubHeard[b] = View(s)
  BY Known, Viewed
<1>2. /\ DOMAIN d = DOMAIN s
      /\ \A i \in DOMAIN s : d[i] = IF Matches(s[i], {m.cap})
                                    THEN [s[i] EXCEPT !.got = Append(@, m.ts)] ELSE s[i]
  BY DEF Dispatched
<1>3. \A i \in DOMAIN s : s[i] \in Sub
  BY Known
<1>. HIDE DEF s, d
<1>4. \A i \in DOMAIN s : /\ d[i].caps = s[i].caps /\ d[i].open = s[i].open
                          /\ d[i].got = IF Matches(s[i], {m.cap}) THEN Append(s[i].got, m.ts)
                                                                  ELSE s[i].got
  <2>. TAKE i \in DOMAIN s
  <2>. DEFINE old == s[i]
              new == [old EXCEPT !.got = Append(@, m.ts)]
  <2>1. old \in Sub
    BY <1>3
  <2>. HIDE DEF old
  <2>2. new.caps = old.caps /\ new.open = old.open /\ new.got = Append(old.got, m.ts)
    BY <2>1 DEF Sub
  <2>. HIDE DEF new
  <2>3. d[i] = IF Matches(old, {m.cap}) THEN new ELSE old
    BY <1>2 DEF old, new
  <2>. QED  BY <2>2, <2>3 DEF old
<1>5. ASSUME NEW i \in DOMAIN View(s)  PROVE View(d)[i] = told[i] /\ i \in DOMAIN View(d)
  <2>1. /\ i \in DOMAIN s /\ s[i].caps # {}
        /\ View(s)[i] = [caps |-> s[i].caps, open |-> s[i].open, got |-> s[i].got]
    BY DEF View
  <2>2. /\ i \in DOMAIN View(d)
        /\ View(d)[i] = [caps |-> s[i].caps, open |-> s[i].open, got |-> d[i].got]
    BY <1>2, <1>4, <2>1 DEF View
  <2>3. Matches(s[i], {m.cap}) <=> Promise!Concerns(View(s)[i], m)
    BY <2>1 DEF Matches, Promise!Concerns
  <2>4. CASE Matches(s[i], {m.cap})
    <3>1. d[i].got = Append(s[i].got, m.ts)
      BY <1>4, <2>1, <2>4
    <3>2. [View(s)[i] EXCEPT !.got = Append(@, m.ts)]
            = [caps |-> s[i].caps, open |-> s[i].open, got |-> Append(s[i].got, m.ts)]
      <4>. DEFINE y == View(s)[i]
                  g == Append(s[i].got, m.ts)
                  z == [y EXCEPT !.got = g]
      <4>1. /\ y \in [caps : {s[i].caps}, open : {s[i].open}, got : {s[i].got}]
            /\ y.got = s[i].got
        BY <2>1
      <4>. HIDE DEF y
      <4>2. [y EXCEPT !.got = Append(@, m.ts)] = z
        BY <4>1
      <4>. HIDE DEF g
      <4>3. z \in [caps : {s[i].caps}, open : {s[i].open}, got : {g}]
        BY <4>1
      <4>. HIDE DEF z
      <4>4. z = [caps |-> s[i].caps, open |-> s[i].open, got |-> g]
        BY <4>3
      <4>. QED  BY <4>2, <4>4 DEF g, y
    <3>. QED  BY <2>2, <2>3, <2>4, <3>1, <3>2 DEF Promise!HearsIt
  <2>5. CASE ~Matches(s[i], {m.cap})
    <3>1. d[i].got = s[i].got
      BY <1>4, <2>1, <2>5
    <3>. QED  BY <2>1, <2>2, <2>3, <2>5, <3>1 DEF Promise!HearsIt
  <2>. QED  BY <2>4, <2>5
<1>6. DOMAIN View(d) = DOMAIN View(s)
  BY <1>2, <1>4 DEF View
<1>7. View(d) = told
  <2>. DEFINE p == View(d)
              q == View(s)
  <2>1. p = [i \in DOMAIN p |-> p[i]]
    BY DEF View
  <2>2. told = [i \in DOMAIN q |-> told[i]] /\ DOMAIN p = DOMAIN q
    BY <1>6
  <2>3. \A i \in DOMAIN q : p[i] = told[i]
    BY <1>5
  <2>. HIDE DEF p, q, told
  <2>. QED  BY <2>1, <2>2, <2>3 DEF p
<1>. QED  BY <1>1, <1>7 DEF Promise!Told

(* What Contains says of what a subscription got. *)
LEMMA GotHeard ==
  ASSUME NEW s \in Seq(Nat), NEW t
  PROVE  Promise!Contains(s, t) <=> t \in ToSet(s)
BY DEF Promise!Contains, ToSet

(* An emission is one of PubSub. *)
LEMMA EmitPromises ==
  ASSUME MeshInv, NEW a \in Agent, NEW c \in Capability, Emit(a, c)
  PROVE  [Promise!Next]_(Promise!vars)
<1>1. PICK m \in Message :
        /\ m = [topic |-> Event(c), cap |-> c, from |-> a, ts |-> now + 1, re |-> 0]
        /\ m.topic = Event(m.cap) /\ m.from = a /\ m.ts = now + 1
  BY Known, EmittedMessage
<1>2. /\ sent' = sent \cup {m}
      /\ RouteMessage(a, m, Logged(a, m), Unreached(a, m)) \/ NobodyListens(Logged(a, m), Unreached(a, m))
  BY <1>1 DEF Emit
<1>3. subs' = subs \/ subs' = [subs EXCEPT ![a] = Dispatched(subs[a], {m.cap}, m)]
  BY <1>2 DEF RouteMessage, NobodyListens
<1>4. PubSubHeard' = PubSubHeard \/ PubSubHeard' = Promise!Told(m.from, m)
  <2>1. subs' = subs => PubSubHeard' = PubSubHeard
    BY Viewed
  <2>. QED  BY <1>1, <1>3, <2>1, DispatchTold
<1>5. \A k \in sent : k.ts < m.ts
  <2>1. \A k \in sent : k.ts \in 1..now /\ now \in Nat
    BY Known DEF Traffic, SentAreLogged, UniqueNumbers
  <2>. QED  BY <1>1, <2>1
<1>6. Promise!Emit(m)
  BY <1>2, <1>4, <1>5 DEF Promise!Emit
<1>7. m \in sent'
  BY <1>2
<1>. QED  BY <1>6, <1>7 DEF Promise!Next

(* What b reads is heard, by all that it concerns or, if it is refused, by none. *)
LEMMA ReadPromises ==
  ASSUME MeshInv, LinksBringNews, NEW a \in Agent, NEW b \in Agent, ReceiveEvent(a, b)
  PROVE  [Promise!Next]_(Promise!vars)
<1>. DEFINE m == Head(chan[a][b])
<1>1. /\ chan[a][b] # <<>> /\ m.topic[1] = "agent" /\ sent' = sent
      /\ chan' = [chan EXCEPT ![a][b] = Tail(@)]
      /\ subs' = subs \/ subs' = [subs EXCEPT ![b] = Dispatched(subs[b], {m.cap}, m)]
  BY DEF ReceiveEvent, RouteMessage, NobodyListens
<1>2. Shrunk(a, b, m)
  BY <1>1, Known, ReadsHead
<1>. HIDE DEF m
<1>3. m \in Message /\ m.from = a /\ m \in ToSet(chan[a][b])
  <2>1. m = chan[a][b][1] /\ 1 \in 1..Len(chan[a][b])
    BY <1>2 DEF Shrunk
  <2>2. TypeInv /\ Traffic
    BY Known
  <2>3. m \in Message /\ m.from = a /\ chan[a][b] \in Seq(Message)
    BY <2>1, <2>2, OnLink
  <2>4. DOMAIN chan[a][b] = 1..Len(chan[a][b])
    BY <2>3
  <2>. QED  BY <2>1, <2>3, <2>4 DEF ToSet
<1>4. ComesLater(a, b, m)
  BY <1>3 DEF LinksBringNews
<1>5. CASE subs' = subs
  <2>1. PubSubHeard' = PubSubHeard
    BY <1>5, Viewed
  <2>. QED  BY <1>1, <2>1 DEF Promise!vars
<1>6. CASE subs' = [subs EXCEPT ![b] = Dispatched(subs[b], {m.cap}, m)]
  <2>1. PubSubHeard' = Promise!Told(b, m)
    BY <1>3, <1>6, DispatchTold
  <2>2. ASSUME NEW i \in DOMAIN PubSubHeard[b]
        PROVE  Promise!IsNews(PubSubHeard[b][i], m)
    <3>1. /\ i \in Filtered(b) /\ PubSubHeard[b][i].got = subs[b][i].got
      BY <2>2, Viewed DEF View, Filtered
    <3>2. subs[b][i].got \in Seq(Nat)
      <4>1. subs[b][i] \in Sub
        BY <3>1, Known DEF Filtered
      <4>. QED  BY <4>1 DEF Sub
    <3>3. ASSUME NEW k \in sent, k.from = m.from, Promise!Contains(PubSubHeard[b][i].got, k.ts)
          PROVE  k.ts < m.ts
      <4>1. k.ts \in Heard(subs[b][i])
        BY <3>1, <3>2, <3>3, GotHeard DEF Heard
      <4>. QED  BY <1>3, <1>4, <3>1, <3>3, <4>1 DEF ComesLater
    <3>. QED  BY <3>3 DEF Promise!IsNews
  <2>3. Promise!Hear(b, m)
    BY <1>1, <2>1, <2>2 DEF Promise!Hear
  <2>4. m \in sent
    BY <1>1, <1>4 DEF ComesLater
  <2>. QED  BY <2>3, <2>4 DEF Promise!Next
<1>. QED  BY <1>1, <1>5, <1>6

(* A replay is not seen. *)
LEMMA SyncPromises ==
  ASSUME MeshInv, NEW a \in Agent, SyncOnReconnect(a)
  PROVE  UNCHANGED Promise!vars
<1>1. /\ sent' = sent
      /\ \A b \in Agent : DOMAIN subs'[b] = DOMAIN subs[b]
      /\ \A b \in Agent : \A i \in DOMAIN subs[b] :
            subs'[b][i] = subs[b][i] \/ (subs[b][i].caps = {} /\ subs'[b][i].caps = {})
  BY ReplayIsUnfiltered
<1>2. ASSUME NEW b \in Agent  PROVE View(subs'[b]) = View(subs[b])
  <2>1. {i \in DOMAIN subs'[b] : subs'[b][i].caps # {}} = {i \in DOMAIN subs[b] : subs[b][i].caps # {}}
    BY <1>1
  <2>2. \A i \in {i \in DOMAIN subs[b] : subs[b][i].caps # {}} : subs'[b][i] = subs[b][i]
    BY <1>1
  <2>. QED  BY <2>1, <2>2 DEF View
<1>. QED  BY <1>1, <1>2, Viewed DEF Promise!vars

(* Every step is one of PubSub or is not seen. *)
LEMMA StepPromises ==
  ASSUME MeshInv, LinksBringNews, [RpcNext]_allVars
  PROVE  [Promise!Next]_(Promise!vars)
<1>1. CASE subs' = subs /\ sent' = sent
  BY <1>1, Viewed DEF Promise!vars
<1>2. CASE Next
  <2>1. CASE \E e \in Emits : Emit(e[1], e[2])
    <3>1. PICK e \in Emits : Emit(e[1], e[2])
      BY <2>1
    <3>2. e[1] \in Agent /\ e[2] \in Capability
      BY EmitsAssumption
    <3>. QED  BY <3>1, <3>2, EmitPromises
  <2>2. CASE \E a, b \in Agent : Cut(a, b) \/ Mend(a, b)
    <3>1. subs' = subs /\ sent' = sent
      BY <2>2 DEF Cut, Mend
    <3>. QED  BY <1>1, <3>1
  <2>. QED
    BY <1>2, <2>1, <2>2, ListenPromises, CancelPromises, ReadPromises, SyncPromises DEF Next
<1>3. CASE ~Next
  <2>1. subs' = subs /\ sent' = sent
    BY <1>3 DEF RpcNext, Serve, MakeRequest, ReceiveRequest, ReplyTo, ReceiveReply,
                Return, TimeOut, Finish, allVars, vars
  <2>. QED  BY <1>1, <2>1
<1>. QED  BY <1>2, <1>3

(* At first nobody has heard anything. *)
LEMMA StartPromises == RpcInit => Promise!Init /\ LinksBringNews
<1>. SUFFICES ASSUME RpcInit  PROVE Promise!Init /\ LinksBringNews
  OBVIOUS
<1>1. /\ sent = {} /\ subs = [a \in Agent |-> <<>>]
      /\ chan = [a \in Agent |-> [b \in Agent |-> <<>>]]
  BY DEF RpcInit, Init
<1>2. DOMAIN <<>> = {} /\ ToSet(<<>>) = {}
  BY DEF ToSet
<1>3. View(<<>>) = [i \in {} |-> {}]
  BY <1>2 DEF View
<1>4. PubSubHeard = [a \in Agent |-> [i \in {} |-> {}]]
  BY <1>1, <1>3, Viewed
<1>. QED  BY <1>1, <1>2, <1>4 DEF Promise!Init, LinksBringNews

(* The SDK with its links, its gate and its requests keeps the promise of PubSub:
   of each emitter a subscription with a filter hears what it listens for, in
   order, none twice, and nothing after it was cancelled (listen, cancel,
   _route_message, sync_on_reconnect). *)
THEOREM PromiseKept == RpcSpec => KeepsPromise
<1>1. RpcInit => Promise!Init /\ LinksBringNews
  BY StartPromises
<1>2. MeshInv /\ LinksBringNews /\ [RpcNext]_allVars => LinksBringNews'
  BY NewsStep
<1>3. MeshInv /\ LinksBringNews /\ [RpcNext]_allVars => [Promise!Next]_(Promise!vars)
  BY StepPromises
<1>. QED  BY <1>1, <1>2, <1>3, MeshInvariance, PTL DEF RpcSpec, KeepsPromise, Promise!Spec
=============================================================================
