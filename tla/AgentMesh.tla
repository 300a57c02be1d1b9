------------------------------ MODULE AgentMesh ------------------------------
(* The agent SDK (sdk/agent.py): listen, cancel, emit, routing through the
   signature gate (phase0/sig_gate.py), the message log (phase0/wal.py) and
   catching up from it. Every agent is a process of its own; the TCP links
   between processes carry messages in order and break.

   A filter is the set of capabilities listened for; the empty set is a listen
   without a filter. Time is counted in messages: a message's ts is its number. *)
EXTENDS Naturals, FiniteSets, Sequences, SequencesExt, FiniteSetsExt

CONSTANTS
  Agent,
  Capability,
  Listener,   \* the agents that listen
  Emits,      \* who emits what: pairs of an agent and a capability
  Filter,     \* the filters listened with
  RateLimit,  \* messages of one sender the gate surely lets through
  MaxCalls,   \* bound on the calls of listen, and of request in MeshRPC
  MaxMsgs,    \* bound on the messages sent by all
  MaxCuts     \* bound on the links broken

ASSUME FilterAssumption == Filter \subseteq SUBSET Capability
ASSUME EmitsAssumption == Emits \subseteq Agent \X Capability
ASSUME RateAssumption == RateLimit \in Nat \ {0}
ASSUME ListenerAssumption == Listener \subseteq Agent
ASSUME BoundAssumption == {MaxCalls, MaxMsgs, MaxCuts} \subseteq Nat

VARIABLES
  subs,       \* _subscriptions, cancelled ones included, with what each callback got
  bus,        \* the callback the agent's transport holds for each topic it subscribed
  wal,        \* the messages in the agent's log
  last,       \* the time of _last_msg_id, 0 before the first
  passed,     \* messages of each sender the gate has let through, up to its limit
  links,      \* pairs of agents whose processes are connected
  chan,       \* messages under way from one process to another
  sent,       \* all events ever emitted
  missed,     \* events an agent never received or whose gate refused them
  now,        \* the number of the last message
  cuts        \* links broken so far

vars == <<subs, bus, wal, last, passed, links, chan, sent, missed, now, cuts>>

Event(c) == <<"agent", c>>
Pair(a, b) == {a, b}
Topics(caps) == {Event(c) : c \in caps}

\* The tables of the log, and a gate that has seen nobody.
LogInit == wal = [a \in Agent |-> {}]
GateInit == passed = [a \in Agent |-> [b \in Agent |-> 0]]

Init ==
  /\ LogInit
  /\ GateInit
  /\ subs = [a \in Agent |-> <<>>]
  /\ bus = [a \in Agent |-> <<>>]
  /\ last = [a \in Agent |-> 0]
  /\ links = {Pair(a, b) : a, b \in Agent} \ {{a} : a \in Agent}
  /\ chan = [a \in Agent |-> [b \in Agent |-> <<>>]]
  /\ sent = {}
  /\ missed = {}
  /\ now = 0
  /\ cuts = 0

------------------------------------------------------------------------------
(* What a transport callback does. *)

\* The transport keeps the first callback of a topic and skips the others.
Subscribed(b, topics, callback) ==
  [t \in DOMAIN b \cup topics |-> IF t \in DOMAIN b THEN b[t] ELSE callback]

Unsubscribed(b, topics) == [t \in DOMAIN b \ topics |-> b[t]]

(* SigGate.check. The window slides with the time: once the limit has been used
   up, whether the next message is refused depends on when it comes. *)
Verdicts(a, m) == IF passed[a][m.from] < RateLimit THEN {TRUE} ELSE BOOLEAN

\* mutant: the message is counted before the limit is looked at.
CountedFirst(a, m) == [passed EXCEPT ![a][m.from] = @ + 1]

Counted(a, m) == [passed EXCEPT ![a][m.from] = Min({@ + 1, RateLimit})]

\* mutant: a cancelled subscription still matches.
MatchesCancelled(sub, caps) == sub.caps = {} \/ caps \subseteq sub.caps

\* A replayed row has no capability: caps is then empty and only a
\* subscription without a filter matches.
Matches(sub, caps) ==
  /\ sub.open
  /\ sub.caps = {} \/ (caps # {} /\ caps \subseteq sub.caps)

Dispatched(s, caps, m) ==
  [i \in DOMAIN s |-> IF Matches(s[i], caps) THEN [s[i] EXCEPT !.got = Append(@, m.ts)]
                                             ELSE s[i]]

\* The agent's own record of a message it sends: appended before it is published.
Logged(a, m) == [wal EXCEPT ![a] = @ \cup {m}]

\* mutant: the message is logged before the gate has judged it.
RouteMessageLogsFirst(a, m, w, lost) ==
  /\ wal' = [w EXCEPT ![a] = @ \cup {m}]
  /\ \/ /\ TRUE \in Verdicts(a, m)
        /\ passed' = Counted(a, m)
        /\ last' = [last EXCEPT ![a] = m.ts]
        /\ subs' = [subs EXCEPT ![a] = Dispatched(@, {m.cap}, m)]
        /\ missed' = missed \cup lost
     \/ /\ FALSE \in Verdicts(a, m)
        /\ missed' = missed \cup lost \cup {<<m.ts, a>>}
        /\ UNCHANGED <<passed, last, subs>>

\* An event arrives at a; w are the logs and lost the losses of its emission.
RouteMessage(a, m, w, lost) ==
  \/ /\ TRUE \in Verdicts(a, m)
     /\ passed' = Counted(a, m)
     /\ wal' = [w EXCEPT ![a] = @ \cup {m}]
     /\ last' = [last EXCEPT ![a] = m.ts]
     /\ subs' = [subs EXCEPT ![a] = Dispatched(@, {m.cap}, m)]
     /\ missed' = missed \cup lost
  \/ /\ FALSE \in Verdicts(a, m)
     /\ wal' = w
     /\ missed' = missed \cup lost \cup {<<m.ts, a>>}
     /\ UNCHANGED <<passed, last, subs>>

\* An event for which a's transport has no callback.
NobodyListens(w, lost) ==
  /\ wal' = w
  /\ missed' = missed \cup lost
  /\ UNCHANGED <<passed, last, subs>>

\* Message m goes to every process that a is connected with.
Broadcast(a, m) ==
  [chan EXCEPT ![a] =
     [b \in Agent |-> IF Pair(a, b) \in links THEN Append(@[b], m) ELSE @[b]]]

Unreached(a, m) == {<<m.ts, b>> : b \in {b \in Agent \ {a} : Pair(a, b) \notin links}}

------------------------------------------------------------------------------
(* Operations of an agent. *)

Listens == FoldFunction(+, 0, [a \in Agent |-> Len(subs[a])])

Listen(a, caps) ==
  /\ subs' = [subs EXCEPT ![a] = Append(@, [caps |-> caps, open |-> TRUE, since |-> now,
                                            got |-> <<>>])]
  /\ bus' = [bus EXCEPT ![a] = Subscribed(@, Topics(caps), "route")]
  /\ UNCHANGED <<wal, last, passed, links, chan, sent, missed, now, cuts>>

\* mutant: looks for another listen with the very same filter only.
ActiveSame(s, caps) == \E i \in DOMAIN s : s[i].open /\ s[i].caps = caps

\* One capability of the cancelled filter that is still wanted keeps them all.
Active(s, caps) == \E i \in DOMAIN s : s[i].open /\ s[i].caps \cap caps # {}

\* Subscription.cancel and _cleanup_topic.
Cancel(a, i) ==
  LET s == [subs[a] EXCEPT ![i].open = FALSE] IN
  /\ subs[a][i].open
  /\ subs' = [subs EXCEPT ![a] = s]
  /\ bus' = IF Active(s, s[i].caps) THEN bus
            ELSE [bus EXCEPT ![a] = Unsubscribed(@, Topics(s[i].caps))]
  /\ UNCHANGED <<wal, last, passed, links, chan, sent, missed, now, cuts>>

Emit(a, c) ==
  LET m == [topic |-> Event(c), cap |-> c, from |-> a, ts |-> now + 1, re |-> 0] IN
  /\ now < MaxMsgs
  /\ now' = now + 1
  /\ sent' = sent \cup {m}
  /\ IF m.topic \in DOMAIN bus[a]
     THEN RouteMessage(a, m, Logged(a, m), Unreached(a, m))
     ELSE NobodyListens(Logged(a, m), Unreached(a, m))
  /\ chan' = Broadcast(a, m)
  /\ UNCHANGED <<bus, links, cuts>>

\* The process of b reads the next event from that of a.
ReceiveEvent(a, b) ==
  /\ chan[a][b] # <<>> /\ Head(chan[a][b]).topic[1] = "agent"
  /\ LET m == Head(chan[a][b]) IN
     IF m.topic \in DOMAIN bus[b] THEN RouteMessage(b, m, wal, {}) ELSE NobodyListens(wal, {})
  /\ chan' = [chan EXCEPT ![a][b] = Tail(@)]
  /\ UNCHANGED <<bus, links, sent, now, cuts>>

\* Rows of the log have no column for the capability.
ReplayCaps == {}

\* What the log replays: rows of the subscribed topics later than the last
\* message received, by their own time.
Replayed(a) == {m \in wal[a] : m.topic \in DOMAIN bus[a] /\ m.ts > last[a]}

\* Topic by topic, whichever comes first, and by time within a topic.
ReplayOrder(ms) ==
  \A i, j \in DOMAIN ms : i < j =>
     /\ ms[i] # ms[j]
     /\ ms[i].topic = ms[j].topic =>
          /\ ms[i].ts < ms[j].ts
          /\ \A k \in i..j : ms[k].topic = ms[i].topic

DispatchedAgain(s, ms) ==
  [i \in DOMAIN s |->
     IF Matches(s[i], ReplayCaps)
     THEN [s[i] EXCEPT !.got = @ \o [k \in DOMAIN ms |-> ms[k].ts]]
     ELSE s[i]]

\* Every call replays the same rows again; once per subscription is bound enough.
SyncOnReconnect(a) ==
  /\ last[a] # 0 /\ Replayed(a) # {}
  /\ \A i \in DOMAIN subs[a] : Len(subs[a][i].got) <= now
  /\ \E ms \in [1..Cardinality(Replayed(a)) -> Replayed(a)] :
        /\ ReplayOrder(ms)
        /\ subs' = [subs EXCEPT ![a] = DispatchedAgain(@, ms)]
  /\ UNCHANGED <<bus, wal, last, passed, links, chan, sent, missed, now, cuts>>

------------------------------------------------------------------------------
(* The network: a link breaks with what is under way on it, and is mended by
   the reconnect loop. *)
UnderWay(a, b) == {m.ts : m \in ToSet(chan[a][b])}

Cut(a, b) ==
  /\ Pair(a, b) \in links /\ cuts < MaxCuts
  /\ links' = links \ {Pair(a, b)}
  /\ chan' = [chan EXCEPT ![a][b] = <<>>, ![b][a] = <<>>]
  /\ missed' = missed \cup (UnderWay(a, b) \X {b}) \cup (UnderWay(b, a) \X {a})
  /\ cuts' = cuts + 1
  /\ UNCHANGED <<subs, bus, wal, last, passed, sent, now>>

Mend(a, b) ==
  /\ a # b /\ Pair(a, b) \notin links
  /\ links' = links \cup {Pair(a, b)}
  /\ UNCHANGED <<subs, bus, wal, last, passed, chan, sent, missed, now, cuts>>

Next ==
  \/ Listens < MaxCalls /\ \E a \in Listener, caps \in Filter : Listen(a, caps)
  \/ \E a \in Agent : \E i \in DOMAIN subs[a] : Cancel(a, i)
  \/ \E e \in Emits : Emit(e[1], e[2])
  \/ \E a, b \in Agent : ReceiveEvent(a, b)
  \/ \E a \in Agent : SyncOnReconnect(a)
  \/ \E a, b \in Agent : Cut(a, b)
  \/ \E a, b \in Agent : Mend(a, b)

Spec == Init /\ [][Next]_vars

------------------------------------------------------------------------------
TypeOK ==
  /\ \A a \in Agent : \A i \in DOMAIN subs[a] :
        /\ subs[a][i].caps \in Filter /\ subs[a][i].open \in BOOLEAN
        /\ subs[a][i].since \in 0..now
        /\ ToSet(subs[a][i].got) \subseteq 1..now
  /\ \A a \in Agent : {m.ts : m \in wal[a]} \subseteq 1..now
  /\ last \in [Agent -> 0..now]
  /\ passed \in [Agent -> [Agent -> 0..RateLimit]]
  /\ links \subseteq {Pair(a, b) : a, b \in Agent}
  /\ \A a, b \in Agent : UnderWay(a, b) \subseteq 1..now
  /\ missed \subseteq (1..now) \X Agent
  /\ now \in 0..MaxMsgs
  /\ cuts \in 0..MaxCuts

Open(a) == {i \in DOMAIN subs[a] : subs[a][i].open}
Heard(sub) == ToSet(sub.got)

(* Whatever order listens and cancels with overlapping filters come in, an event
   emitted after an open listen for its capability is heard, unless a broken
   link or the rate limit took it or it is still under way (listen,
   _cleanup_topic, _route_message). *)
ListenersHear ==
  \A a, b \in Agent, m \in sent : \A i \in Open(b) :
     /\ m.from = a /\ m.cap \in subs[b][i].caps /\ m.ts > subs[b][i].since
     => \/ m.ts \in Heard(subs[b][i])
        \/ m \in ToSet(chan[a][b])
        \/ <<m.ts, b>> \in missed

(* Catching up brings back nothing that was missed: what a broken link or the
   rate limit took of another agent's events no callback ever gets, with or
   without a filter, however often the agent catches up - its log holds only
   what it received or sent itself (sync_on_reconnect, wal.replay). *)
MissedStaysMissed ==
  \A b \in Agent, m \in sent : \A i \in DOMAIN subs[b] :
     m.from # b /\ <<m.ts, b>> \in missed => m.ts \notin Heard(subs[b][i])

(* What the subscriptions with a filter see of the mesh is what PubSub promises:
   live messages and replays together bring each of them the messages of an
   emitter in order and none twice. *)
Filtered(a) == {i \in DOMAIN subs[a] : subs[a][i].caps # {}}
PubSubHeard ==
  [a \in Agent |-> [i \in Filtered(a) |->
     [caps |-> subs[a][i].caps, open |-> subs[a][i].open, got |-> subs[a][i].got]]]
Promise == INSTANCE PubSub WITH heard <- PubSubHeard
KeepsPromise == Promise!Spec
==============================================================================
