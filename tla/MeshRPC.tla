------------------------------- MODULE MeshRPC -------------------------------
(* Requests and their answers over the agent SDK: AgentMesh.request and reply_to
   (sdk/agent.py) on the calling side, MeshRPC (adapters/langgraph_channel.py)
   on the serving one. All requests of an agent wait on one topic, reply:<did>. *)
EXTENDS AgentMesh

CONSTANTS
  Caller,     \* the agents that make requests
  Server,     \* the agents that serve requests
  Method      \* what they serve

ASSUME RpcAssumption == Caller \subseteq Agent /\ Server \subseteq Agent /\ IsFiniteSet(Server)

VARIABLES
  reqs,       \* the requests made, each with what came of it
  tasks       \* handlers at work: the server and the request it answers

rpcVars == <<reqs, tasks>>
allVars == <<vars, rpcVars>>

Request(c) == <<"request", c>>

\* mutant: the topic of replies names the service and not the caller.
ReplyShared(a) == <<"reply", "all">>

Reply(a) == <<"reply", a>>

RpcInit ==
  /\ Init
  /\ reqs = <<>>
  /\ tasks = {}

\* MeshRPC.listen: the server subscribes to requests for c, past the SDK's listen.
Serve(s, c) ==
  /\ Request(c) \notin DOMAIN bus[s]
  /\ bus' = [bus EXCEPT ![s] = Subscribed(@, {Request(c)}, "handle")]
  /\ UNCHANGED <<subs, wal, last, passed, links, chan, sent, missed, now, cuts, rpcVars>>

(* request(): the reply topic is subscribed with a callback of this request,
   unless an earlier one still holds it; then the request is published. *)
MakeRequest(a, c) ==
  LET k == Len(reqs) + 1
      m == [topic |-> Request(c), cap |-> c, from |-> a, ts |-> now + 1, re |-> k] IN
  /\ now < MaxMsgs
  /\ now' = now + 1
  /\ reqs' = Append(reqs, [by |-> a, state |-> "waits", answer |-> 0,
                           alone |-> \A q \in DOMAIN reqs :
                                       reqs[q].by = a => reqs[q].state # "waits"])
  /\ bus' = [bus EXCEPT ![a] = Subscribed(@, {Reply(a)}, k)]
  /\ wal' = Logged(a, m)
  /\ tasks' = tasks \cup (IF m.topic \in DOMAIN bus[a] THEN {[at |-> a, re |-> k]} ELSE {})
  /\ chan' = Broadcast(a, m)
  /\ UNCHANGED <<subs, last, passed, links, sent, missed, cuts>>

\* handle_raw: a request starts a task of its handler; the gate is not asked.
ReceiveRequest(a, b) ==
  /\ chan[a][b] # <<>> /\ Head(chan[a][b]).topic[1] = "request"
  /\ LET m == Head(chan[a][b]) IN
     tasks' = tasks \cup (IF m.topic \in DOMAIN bus[b] THEN {[at |-> b, re |-> m.re]} ELSE {})
  /\ chan' = [chan EXCEPT ![a][b] = Tail(@)]
  /\ UNCHANGED <<subs, bus, wal, last, passed, links, sent, missed, now, cuts, reqs>>

\* on_reply_raw at b, the callback of whichever request holds the topic.
TakeReply(b, m) ==
  \/ /\ m.topic \in DOMAIN bus[b] /\ TRUE \in Verdicts(b, m)
     /\ passed' = Counted(b, m)
     /\ reqs' = [reqs EXCEPT ![bus[b][m.topic]].answer = m.re]
  \/ /\ m.topic \in DOMAIN bus[b] => FALSE \in Verdicts(b, m)
     /\ UNCHANGED <<passed, reqs>>

\* The handler of a task is done and reply_to() publishes its answer.
ReplyTo(t) ==
  LET to == Reply(reqs[t.re].by)
      m == [topic |-> to, cap |-> to, from |-> t.at, ts |-> now + 1, re |-> t.re] IN
  /\ now < MaxMsgs
  /\ now' = now + 1
  /\ tasks' = tasks \ {t}
  /\ wal' = Logged(t.at, m)
  /\ TakeReply(t.at, m)
  /\ chan' = Broadcast(t.at, m)
  /\ UNCHANGED <<subs, bus, last, links, sent, missed, cuts>>

ReceiveReply(a, b) ==
  /\ chan[a][b] # <<>> /\ Head(chan[a][b]).topic[1] = "reply"
  /\ TakeReply(b, Head(chan[a][b]))
  /\ chan' = [chan EXCEPT ![a][b] = Tail(@)]
  /\ UNCHANGED <<subs, bus, wal, last, links, sent, missed, now, cuts, tasks>>

\* mutant: the callback stays subscribed.
FinishStays(k, state) ==
  /\ reqs[k].state = "waits"
  /\ reqs' = [reqs EXCEPT ![k].state = state]
  /\ UNCHANGED <<vars, tasks>>

\* The end of request(), answered or not: the topic is unsubscribed, whoever
\* holds it.
Finish(k, state) ==
  LET a == reqs[k].by IN
  /\ reqs[k].state = "waits"
  /\ reqs' = [reqs EXCEPT ![k].state = state]
  /\ bus' = [bus EXCEPT ![a] = Unsubscribed(@, {Reply(a)})]
  /\ UNCHANGED <<subs, wal, last, passed, links, chan, sent, missed, now, cuts, tasks>>

Return(k) == reqs[k].answer # 0 /\ Finish(k, "answered")
TimeOut(k) == reqs[k].answer = 0 /\ Finish(k, "timed out")

RpcNext ==
  \/ Next /\ UNCHANGED rpcVars /\ Listens' + Len(reqs) <= MaxCalls
  \/ \E s \in Server, c \in Method : Serve(s, c)
  \/ /\ Listens + Len(reqs) < MaxCalls
     /\ \E a \in Caller, c \in Method : MakeRequest(a, c)
  \/ \E a, b \in Agent : ReceiveRequest(a, b)
  \/ \E t \in tasks : ReplyTo(t)
  \/ \E a, b \in Agent : ReceiveReply(a, b)
  \/ \E k \in DOMAIN reqs : Return(k)
  \/ \E k \in DOMAIN reqs : TimeOut(k)

RpcSpec == RpcInit /\ [][RpcNext]_allVars

------------------------------------------------------------------------------
RpcTypeOK ==
  /\ TypeOK
  /\ \A k \in DOMAIN reqs :
        reqs[k] \in [by : Caller, state : {"waits", "answered", "timed out"},
                    answer : DOMAIN reqs \cup {0}, alone : BOOLEAN]
  /\ tasks \subseteq [at : Server, re : DOMAIN reqs]
  /\ \A a \in Agent : \A t \in DOMAIN bus[a] :
        bus[a][t] \in CASE t[1] = "agent" -> {"route"}
                        [] t[1] = "request" -> {"handle"}
                        [] OTHER -> DOMAIN reqs

(* A request gets its own answer, or that of another request of its agent that
   was made while it waited, or, with one server, that ended before it without
   taking its own: two agents never take each other's answers, and an agent that
   makes one request at a time and is always answered gets what it asked for
   (request, reply_to, on_reply_raw). *)
AnswersExplained ==
  \A k \in DOMAIN reqs :
     LET q == reqs[k].answer IN
     q \notin {0, k} =>
        /\ reqs[q].by = reqs[k].by
        /\ q > k => ~reqs[q].alone
        /\ q < k /\ Cardinality(Server) = 1 => reqs[q].answer # q

(* A request that waits, and that no other request of its agent overlaps, can be
   answered: the callback its transport holds for the reply topic is its own
   (request subscribes once, and its end unsubscribes). *)
SoloIsListening ==
  \A k \in DOMAIN reqs :
     LET a == reqs[k].by IN
     /\ reqs[k].state = "waits" /\ reqs[k].alone
     /\ \A q \in DOMAIN reqs : q > k => reqs[q].by # a
     => Reply(a) \in DOMAIN bus[a] /\ bus[a][Reply(a)] = k
==============================================================================
