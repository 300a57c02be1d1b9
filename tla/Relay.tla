-------------------------------- MODULE Relay --------------------------------
(***************************************************************************)
(* The TCP relay (relay/server.py) and the clients that meet through it    *)
(* (relay/client.py).  The server runs one _handle_client coroutine per    *)
(* connection; they share the registry and can be overtaken at every send. *)
(* A client reads one connection at a time and opens the next one when it  *)
(* has noticed that the last one broke: the server may notice later, so an *)
(* agent can have several handlers.                                        *)
(*                                                                         *)
(* Connections carry messages in order both ways and may break with what   *)
(* is under way.  Encryption, the "registered", "pong" and "error" replies *)
(* (which change nothing at the client) and data messages are left out;    *)
(* an ephemeral key pair is a number, a derived key the pair of the        *)
(* initiator's and the responder's.                                        *)
(***************************************************************************)
EXTENDS Naturals, SequencesExt

CONSTANTS Agent, None,
          Initiator, \* agents that set up E2E sessions
          MaxConn,   \* bound: connections opened
          MaxCuts,   \* bound: connections that break
          MaxKeys    \* bound: ephemeral keys made

ASSUME RelayAssumption ==
  /\ None \notin Agent /\ Initiator \subseteq Agent
  /\ MaxConn \in Nat /\ MaxCuts \in Nat /\ MaxKeys \in Nat

Conn == 1..MaxConn
Keys == 1..MaxKeys

VARIABLES
  owner,     \* owner[c]: the agent that opened c
  phase,     \* phase[c]: where the handler of c is
  tell,      \* tell[c]: connections the handler still sends the peers list to
  registry,  \* _agents: the connection an agent is registered with, or 0
  up, down,  \* what is under way from and to the agent
  cut,       \* connections that have broken
  current,   \* the connection a client uses, or 0
  view,      \* _peers of a client
  session,   \* _e2e_sessions: the derived key a client has for a peer
  pending,   \* _e2e_pending: own key of an attempt, and the peer's once it came
  made,      \* ephemeral keys made so far
  tries,     \* observation: attempts a has made at b
  restarted  \* observation: agents whose process has started again

server == <<phase, tell, registry>>
keys == <<session, pending, made, tries, restarted>>
vars == <<owner, server, up, down, cut, current, view, keys>>

NoAttempt == [own |-> 0, peer |-> 0]

Init ==
  /\ owner = [c \in Conn |-> None]
  /\ phase = [c \in Conn |-> "unused"]
  /\ tell = [c \in Conn |-> {}]
  /\ registry = [a \in Agent |-> 0]
  /\ up = [c \in Conn |-> <<>>]
  /\ down = [c \in Conn |-> <<>>]
  /\ cut = {}
  /\ current = [a \in Agent |-> 0]
  /\ view = [a \in Agent |-> {}]
  /\ session = [a \in Agent |-> [b \in Agent |-> NoAttempt]]
  /\ pending = [a \in Agent |-> [b \in Agent |-> NoAttempt]]
  /\ made = 0
  /\ tries = [a \in Agent |-> [b \in Agent |-> 0]]
  /\ restarted = {}

------------------------------------------------------------------------------
(* The wire.  What is sent on a broken connection, or on none, is lost.  Of
   consecutive peers lists only the last counts: the client overwrites. *)
Overtakes(m, s) == m.type = "peers" /\ s # <<>> /\ s[Len(s)].type = "peers"

Sent(channel, c, m) ==
  IF c = 0 \/ c \in cut THEN channel
  ELSE [channel EXCEPT ![c] = Append(IF Overtakes(m, @) THEN Front(@) ELSE @, m)]

Listed == {a \in Agent : registry[a] # 0}

PeersListAll(a) ==   \* mutant: the agent itself is on its list
  [type |-> "peers", from |-> None, key |-> 0, peers |-> Listed]

PeersList(a) == [type |-> "peers", from |-> None, key |-> 0, peers |-> Listed \ {a}]

E2E(type, agent, key) == [type |-> type, from |-> agent, key |-> key, peers |-> {}]

(* A connection breaks, for whatever reason; either side will notice. *)
Breaks(c) ==
  /\ c \notin cut /\ Cardinality(cut) < MaxCuts
  /\ cut' = cut \cup {c}

Cut(c) ==
  /\ owner[c] # None
  /\ Breaks(c)
  /\ UNCHANGED <<owner, server, up, down, current, view, keys>>

------------------------------------------------------------------------------
(* The server's _handle_client. *)

HandlerAt(c, here, next) == phase[c] = here /\ phase' = [phase EXCEPT ![c] = next]

(* _wait_register: the newest connection of an agent takes its entry. *)
Register(c) ==
  /\ HandlerAt(c, "waiting", "greeting")
  /\ up[c] # <<>> /\ Head(up[c]).type = "register"
  /\ registry' = [registry EXCEPT ![owner[c]] = c]
  /\ up' = [up EXCEPT ![c] = Tail(@)]
  /\ UNCHANGED <<owner, tell, down, cut, current, view, keys>>

(* The connection breaks before anything was registered. *)
NeverRegistered(c) ==
  /\ HandlerAt(c, "waiting", "left")
  /\ c \in cut
  /\ up' = [up EXCEPT ![c] = <<>>]
  /\ UNCHANGED <<owner, tell, registry, down, cut, current, view, keys>>

(* The newcomer's own list, _send_peers_list. *)
Greet(c) ==
  /\ HandlerAt(c, "greeting", "announcing")
  /\ down' = Sent(down, c, PeersList(owner[c]))
  /\ UNCHANGED <<owner, tell, registry, up, cut, current, view, keys>>

Registered == {registry[a] : a \in Listed}

(* _broadcast_peers_update takes its snapshot of the sessions... *)
Announce(c) ==
  /\ HandlerAt(c, "announcing", "serving")
  /\ tell' = [tell EXCEPT ![c] = Registered]
  /\ UNCHANGED <<owner, registry, up, down, cut, current, view, keys>>

(* ... and sends each the list as it is when its turn comes; a handler that
   has announced serves when this is done, one that leaves is gone. *)
Tell(c) ==
  /\ \E t \in tell[c] :
       /\ down' = Sent(down, t, PeersList(owner[t]))
       /\ tell' = [tell EXCEPT ![c] = @ \ {t}]
  /\ UNCHANGED <<owner, phase, registry, up, cut, current, view, keys>>

(* _handle_agent_messages forwards an e2e_init or e2e_accept to whatever
   connection its target is registered with, or answers with an error. *)
Forwarded(m, agent) ==
  E2E(IF m.type = "e2e_init" THEN "e2e_req" ELSE "e2e_ready", agent, m.key)

Serve(c) ==
  /\ phase[c] = "serving" /\ tell[c] = {}
  /\ up[c] # <<>>
  /\ LET m == Head(up[c])
     IN down' = Sent(down, registry[m.from], Forwarded(m, owner[c]))
  /\ up' = [up EXCEPT ![c] = Tail(@)]
  /\ UNCHANGED <<owner, server, cut, current, view, keys>>

(* The end of the connection: the finally clause removes the entry of the
   agent, whichever connection it names by now, and tells the others. *)
EndIfLast(c) ==   \* mutant: the entry stays while the agent has another handler
  /\ HandlerAt(c, "serving", "left") /\ tell[c] = {}
  /\ c \in cut
  /\ up' = [up EXCEPT ![c] = <<>>]
  /\ registry' = IF \E d \in Conn \ {c} : owner[d] = owner[c] /\ phase[d] = "serving"
                 THEN registry ELSE [registry EXCEPT ![owner[c]] = 0]
  /\ tell' = [tell EXCEPT ![c] = {registry'[a] : a \in {b \in Agent : registry'[b] # 0}}]
  /\ UNCHANGED <<owner, down, cut, current, view, keys>>

EndSilently(c) ==   \* mutant: nobody is told
  /\ HandlerAt(c, "serving", "left") /\ tell[c] = {}
  /\ c \in cut
  /\ up' = [up EXCEPT ![c] = <<>>]
  /\ registry' = [registry EXCEPT ![owner[c]] = 0]
  /\ UNCHANGED <<owner, tell, down, cut, current, view, keys>>

End(c) ==
  /\ HandlerAt(c, "serving", "left") /\ tell[c] = {}
  /\ c \in cut
  /\ up' = [up EXCEPT ![c] = <<>>]
  /\ registry' = [registry EXCEPT ![owner[c]] = 0]
  /\ tell' = [tell EXCEPT ![c] = Registered \ {registry[owner[c]]}]
  /\ UNCHANGED <<owner, down, cut, current, view, keys>>

------------------------------------------------------------------------------
(* The client. *)

(* _do_connect: a new connection, with the registration on its way. *)
Connect(a) ==
  /\ current[a] = 0
  /\ \E c \in Conn :
       /\ owner[c] = None /\ \A d \in 1..(c - 1) : owner[d] # None
       /\ owner' = [owner EXCEPT ![c] = a]
       /\ phase' = [phase EXCEPT ![c] = "waiting"]
       /\ up' = [up EXCEPT ![c] = <<E2E("register", a, 0)>>]
       /\ current' = [current EXCEPT ![a] = c]
  /\ UNCHANGED <<tell, registry, down, cut, view, keys>>

Hangup(a) ==
  /\ current' = [current EXCEPT ![a] = 0]
  /\ down' = [down EXCEPT ![current[a]] = <<>>]

(* _read_loop finds the connection broken; _reconnect_loop follows. *)
NoticeCut(a) ==
  /\ current[a] \in cut
  /\ Hangup(a)
  /\ UNCHANGED <<owner, server, up, cut, view, keys>>

(* The process of a dies and starts again with a new client. *)
RestartClient(a) ==
  /\ current[a] # 0
  /\ IF current[a] \in cut THEN UNCHANGED cut ELSE Breaks(current[a])
  /\ Hangup(a)
  /\ view' = [view EXCEPT ![a] = {}]
  /\ session' = [session EXCEPT ![a] = [b \in Agent |-> NoAttempt]]
  /\ pending' = [pending EXCEPT ![a] = [b \in Agent |-> NoAttempt]]
  /\ restarted' = restarted \cup {a}
  /\ UNCHANGED <<owner, server, up, made, tries>>

(* e2e_establish up to its await; the application makes one attempt at a time.
   Without a connection the request is lost and the attempt waits all the same. *)
Establish(a, b) ==
  /\ a \in Initiator /\ a # b
  /\ session[a][b] = NoAttempt /\ pending[a][b] = NoAttempt
  /\ made < MaxKeys
  /\ made' = made + 1
  /\ pending' = [pending EXCEPT ![a][b] = [own |-> made', peer |-> 0]]
  /\ up' = Sent(up, current[a], E2E("e2e_init", b, made'))
  /\ tries' = [tries EXCEPT ![a][b] = @ + 1]
  /\ UNCHANGED <<owner, server, down, cut, current, view, session, restarted>>

(* No e2e_ready within 15 seconds. *)
GiveUp(a, b) ==
  /\ pending[a][b].own # 0 /\ pending[a][b].peer = 0
  /\ pending' = [pending EXCEPT ![a][b] = NoAttempt]
  /\ UNCHANGED <<owner, server, up, down, cut, current, view, session, made, tries, restarted>>

Derived(initiator, responder) == [own |-> initiator, peer |-> responder]

(* The rest of e2e_establish, once its future has a result. *)
Finish(a, b) ==
  /\ pending[a][b].peer # 0
  /\ session' = [session EXCEPT ![a][b] = Derived(pending[a][b].own, pending[a][b].peer)]
  /\ pending' = [pending EXCEPT ![a][b] = NoAttempt]
  /\ UNCHANGED <<owner, server, up, down, cut, current, view, made, tries, restarted>>

(* A turn of _read_loop takes the next message of the connection in use. *)
Readable(a) == {Head(down[c]) : c \in {d \in Conn : d = current[a] /\ down[d] # <<>>}}

Take(a) == down' = [down EXCEPT ![current[a]] = Tail(@)]

ReadPeers(a) ==
  /\ \E m \in Readable(a) :
       /\ Take(a) /\ m.type = "peers"
       /\ view' = [view EXCEPT ![a] = m.peers]
  /\ UNCHANGED <<owner, server, up, cut, current, keys>>

RequestKeySwapped(theirs, own) == Derived(own, theirs)   \* mutant: the salt the other way round

RequestKey(theirs, own) == Derived(theirs, own)

(* _handle_e2e_req: a new key of our own, the derived key replaces whatever
   session there was, and our key goes back (from a task of its own, before the
   client waits for the network again). *)
ReadRequest(a) ==
  /\ made < MaxKeys
  /\ made' = made + 1
  /\ \E m \in Readable(a) :
       /\ Take(a) /\ m.type = "e2e_req"
       /\ session' = [session EXCEPT ![a][m.from] = RequestKey(m.key, made')]
       /\ up' = Sent(up, current[a], E2E("e2e_accept", m.from, made'))
  /\ UNCHANGED <<owner, server, cut, current, view, pending, tries, restarted>>

(* e2e_ready settles the attempt at its sender, if one waits. *)
Settled(a, m) ==
  LET waits == pending[a][m.from].own # 0 /\ pending[a][m.from].peer = 0
  IN pending' = IF waits THEN [pending EXCEPT ![a][m.from].peer = m.key] ELSE pending

ReadReady(a) ==
  /\ \E m \in Readable(a) :
       /\ Take(a) /\ m.type = "e2e_ready"
       /\ Settled(a, m)
  /\ UNCHANGED <<owner, server, up, cut, current, view, session, made, tries, restarted>>

Next ==
  \/ \E c \in Conn : Cut(c)
  \/ \E c \in Conn : Register(c)
  \/ \E c \in Conn : NeverRegistered(c)
  \/ \E c \in Conn : Greet(c)
  \/ \E c \in Conn : Announce(c)
  \/ \E c \in Conn : Tell(c)
  \/ \E c \in Conn : Serve(c)
  \/ \E c \in Conn : End(c)
  \/ \E a \in Agent : Connect(a)
  \/ \E a \in Agent : NoticeCut(a)
  \/ \E a \in Agent : RestartClient(a)
  \/ \E a, b \in Agent : Establish(a, b)
  \/ \E a, b \in Agent : GiveUp(a, b)
  \/ \E a, b \in Agent : Finish(a, b)
  \/ \E a \in Agent : ReadPeers(a)
  \/ \E a \in Agent : ReadRequest(a)
  \/ \E a \in Agent : ReadReady(a)

Spec == Init /\ [][Next]_vars

------------------------------------------------------------------------------
(* Properties. *)

Attempt == [own : 0..MaxKeys, peer : 0..MaxKeys]

Request == [type : {"register", "e2e_init", "e2e_accept"}, from : Agent,
            key : 0..MaxKeys, peers : {{}}]

Notice == [type : {"e2e_req", "e2e_ready"}, from : Agent, key : 0..MaxKeys, peers : {{}}]
          \cup [type : {"peers"}, from : {None}, key : {0}, peers : SUBSET Agent]

Phase == {"unused", "waiting", "greeting", "announcing", "serving", "left"}

(* Types; an agent is never on its own list of peers (peers() says "кроме себя"). *)
TypeOK ==
  /\ owner \in [Conn -> Agent \cup {None}]
  /\ phase \in [Conn -> Phase]
  /\ tell \in [Conn -> SUBSET Conn]
  /\ registry \in [Agent -> 0..MaxConn]
  /\ up \in [Conn -> Seq(Request)]
  /\ down \in [Conn -> Seq(Notice)]
  /\ cut \subseteq Conn
  /\ current \in [Agent -> 0..MaxConn]
  /\ view \in [Agent -> SUBSET Agent]
  /\ \A a \in Agent : a \notin view[a]
  /\ session \in [Agent -> [Agent -> Attempt]]
  /\ pending \in [Agent -> [Agent -> Attempt]]
  /\ made \in 0..MaxKeys
  /\ tries \in [Agent -> [Agent -> Nat]]
  /\ restarted \subseteq Agent

(* The registry never names a connection whose handler has ended, however the
   handlers of one agent overlap: what is forwarded goes to a served agent. *)
NoDeadEntries ==
  \A a \in Agent : registry[a] # 0 =>
    /\ owner[registry[a]] = a
    /\ phase[registry[a]] \in {"greeting", "announcing", "serving"}

HandlersRest ==
  \A c \in Conn :
    /\ tell[c] = {}
    /\ \/ phase[c] \in {"unused", "left"}
       \/ phase[c] = "serving" /\ c \notin cut

ListsRead ==
  \A a \in Agent : current[a] # 0 =>
    \A i \in DOMAIN down[current[a]] : down[current[a]][i].type # "peers"

(* Once comings and goings are over and the lists are read, every registered
   agent knows exactly the other ones: the broadcasts of several handlers
   overtake each other, each takes its snapshot of receivers early and makes
   its lists late, and still the last list an agent gets is the right one. *)
PeersSettle ==
  HandlersRest /\ ListsRead =>
    \A a \in Agent : registry[a] # 0 /\ registry[a] = current[a] => view[a] = Listed \ {a}

(* The key an initiator ends with is the one its peer holds, through losses,
   broken connections and reconnections, unless the peer tried as well, an
   attempt was repeated or one of the two started again. *)
SharedKey ==
  \A a, b \in Agent :
    /\ session[a][b] # NoAttempt
    /\ tries[a][b] = 1 /\ tries[b][a] = 0
    /\ {a, b} \cap restarted = {}
    => session[b][a] = session[a][b]
==============================================================================
