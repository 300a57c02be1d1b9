------------------------------ MODULE Transport ------------------------------
(* The TCP side of P2PTransport (phase0/transport.py): connections between
   processes, the table of writers each node publishes to, its reconnect loops,
   and publications flooded on by relay nodes. Encryption is left out.

   A connection has two ends, which find out that it broke on their own; what
   was written before a break may still be read after it. *)
EXTENDS Phase0, Naturals, FiniteSets, Sequences, SequencesExt, Functions

CONSTANTS
  Relay,       \* nodes in relay mode, which forward what they receive
  Dials,       \* who is given whom as a peer: pairs <<dialer, peer>>
  Publisher,   \* nodes that publish
  Restarter,   \* nodes that stop and start again
  MaxConns,    \* bound on connections made
  MaxPubs,     \* bound on publications
  MaxBreaks    \* bound on connections broken, by the network or by a stop

ASSUME DialsAssumption == Dials \subseteq Node \X Node
ASSUME RelayAssumption == Relay \subseteq Node
ASSUME PublisherAssumption == Publisher \subseteq Node
ASSUME PubsAssumption == MaxPubs \in Nat

VARIABLES
  conns,       \* all connections ever made
  table,       \* _tcp_connections: the connection each peer id writes to
  looping,     \* the dials whose reconnect loop reads a connection
  pubs,        \* publications, each with its publisher and whether all was connected
  got,         \* how often each node's bus got each publication
  down,        \* nodes that do not run
  breaks       \* connections broken so far

tcpVars == <<conns, table, looping, pubs, got, down, breaks>>

Conn == 1..MaxConns
NoKey == <<"none", 0>>
Did(n) == <<"did", n>>      \* the peer id a node gives in its hello
Id(n) == <<"node", n>>      \* its node id, which publications carry
Tcp(c) == <<"tcp", c>>      \* the address of a peer that has not said hello

Hello == [type |-> "hello"]
Pub(m, n) == [type |-> "pub", id |-> m, from |-> n]

TcpInit ==
  /\ conns = <<>>
  /\ table = [n \in Node |-> <<>>]
  /\ looping = {}
  /\ pubs = <<>>
  /\ got = [n \in Node |-> [m \in 1..MaxPubs |-> 0]]
  /\ down = {}
  /\ breaks = 0

------------------------------------------------------------------------------
Entered(t, key, c) == [k \in DOMAIN t \cup {key} |-> IF k = key THEN c ELSE t[k]]
Without(t, keys) == [k \in DOMAIN t \ keys |-> t[k]]

\* What is written to a broken connection is lost; the error is swallowed.
Written(conn, n, items) ==
  IF conn.cut THEN conn
  ELSE IF conn.from = n THEN [conn EXCEPT !.toServer = @ \o items]
                        ELSE [conn EXCEPT !.toClient = @ \o items]

\* One line for each name that the connection has in the table, but not for except.
Lines(t, c, item, except) ==
  [i \in 1..Cardinality({k \in DOMAIN t \ except : t[k] = c}) |-> item]

\* mutant: a relay also sends a publication back to where it came from.
TcpBroadcastBack(cs, n, t, m, except) ==
  [c \in DOMAIN cs |-> Written(cs[c], n, Lines(t, c, Pub(m, n), {}))]

\* _tcp_broadcast of m by n with table t, leaving out the peer it came from.
TcpBroadcast(cs, n, t, m, except) ==
  [c \in DOMAIN cs |-> Written(cs[c], n, Lines(t, c, Pub(m, n), except))]

Delivered(n, m) == [got EXCEPT ![n][m] = @ + 1]

\* What a node does with a publication it read from peer key.
Forwarded(cs, n, t, m, key) ==
  IF n \in Relay /\ Cardinality(DOMAIN t) > 1 THEN TcpBroadcast(cs, n, t, m, {key}) ELSE cs

\* A connection is established when both ends have entered it.
Established(c) ==
  /\ ~conns[c].cut
  /\ \A n \in {conns[c].from, conns[c].to} : c \in Range(table[n])

Whole == \A d \in Dials : \E c \in DOMAIN conns :
            conns[c].from = d[1] /\ conns[c].to = d[2] /\ Established(c)

------------------------------------------------------------------------------
(* The dialing end. *)

\* _reconnect_loop connects, enters the writer and says hello.
Dial(n, p) ==
  LET c == Len(conns) + 1 IN
  /\ <<n, p>> \notin looping /\ {n, p} \cap down = {} /\ c <= MaxConns
  /\ conns' = Append(conns, [from |-> n, to |-> p, key |-> NoKey, cut |-> FALSE,
                             client |-> "open", server |-> "open",
                             toServer |-> <<Hello>>, toClient |-> <<>>])
  /\ table' = [table EXCEPT ![n] = Entered(@, Id(p), c)]
  /\ looping' = looping \cup {<<n, p>>}
  /\ UNCHANGED <<pubs, got, down, breaks>>

ClientRead(c) ==
  LET n == conns[c].from
      item == Head(conns[c].toClient)
      rest == [conns EXCEPT ![c].toClient = Tail(@)] IN
  /\ conns[c].client = "open" /\ conns[c].toClient # <<>>
  /\ got' = Delivered(n, item.id)
  /\ conns' = Forwarded(rest, n, table[n], item.id, Id(conns[c].to))
  /\ UNCHANGED <<table, looping, pubs, down, breaks>>

\* mutant: the loop ends with its first connection.
ClientEndForGood(c) ==
  /\ conns[c].client = "open" /\ conns[c].cut /\ conns[c].toClient = <<>>
  /\ conns' = [conns EXCEPT ![c].client = "closed"]
  /\ UNCHANGED <<table, looping, pubs, got, down, breaks>>

\* The loop finds the connection ended and sleeps; the dead writer stays entered.
ClientEnd(c) ==
  /\ conns[c].client = "open" /\ conns[c].cut /\ conns[c].toClient = <<>>
  /\ conns' = [conns EXCEPT ![c].client = "closed"]
  /\ looping' = looping \ {<<conns[c].from, conns[c].to>>}
  /\ UNCHANGED <<table, pubs, got, down, breaks>>

------------------------------------------------------------------------------
(* The accepting end: _handle_tcp_client. *)
Accepted(c) == conns[c].server = "open" /\ conns[c].key # NoKey

ServerHello(c) ==
  LET n == conns[c].to
      key == Did(conns[c].from) IN
  /\ conns[c].server = "open" /\ conns[c].key = NoKey /\ conns[c].toServer # <<>>
  /\ conns' = [conns EXCEPT ![c].key = key, ![c].toServer = Tail(@)]
  /\ table' = [table EXCEPT ![n] = Entered(@, key, c)]
  /\ UNCHANGED <<looping, pubs, got, down, breaks>>

\* No hello within the timeout, or the connection ended before it: the peer is
\* entered under its address.
HelloTimeout(c) ==
  /\ conns[c].server = "open" /\ conns[c].key = NoKey
  /\ conns' = [conns EXCEPT ![c].key = Tcp(c)]
  /\ table' = [table EXCEPT ![conns[c].to] = Entered(@, Tcp(c), c)]
  /\ UNCHANGED <<looping, pubs, got, down, breaks>>

\* A publication names its sender: the peer is entered under that name, and
\* whatever the table has under the name used so far is dropped.
Renamed(t, key, id, c) == IF key = id THEN t ELSE Without(Entered(t, id, c), {key})

ServerReadPub(c) ==
  LET n == conns[c].to
      item == Head(conns[c].toServer)
      id == Id(item.from)
      t == Renamed(table[n], conns[c].key, id, c)
      rest == [conns EXCEPT ![c].toServer = Tail(@), ![c].key = id] IN
  /\ Accepted(c) /\ conns[c].toServer # <<>> /\ item.type = "pub"
  /\ table' = [table EXCEPT ![n] = t]
  /\ got' = Delivered(n, item.id)
  /\ conns' = Forwarded(rest, n, t, item.id, id)
  /\ UNCHANGED <<looping, pubs, down, breaks>>

\* A late hello is a line of no known use.
ServerReadHello(c) ==
  /\ Accepted(c) /\ conns[c].toServer # <<>> /\ Head(conns[c].toServer).type = "hello"
  /\ conns' = [conns EXCEPT ![c].toServer = Tail(@)]
  /\ UNCHANGED <<table, looping, pubs, got, down, breaks>>

\* mutant: the entry made at hello is dropped, not the one made since.
LeavesByHello(t, key, c) == Without(t, {k \in DOMAIN t : t[k] = c /\ k[1] # "node"})

\* All names whose writer is this connection are dropped.
Leaves(t, key, c) == Without(t, {k \in DOMAIN t : t[k] = c})

ServerEnd(c) ==
  LET n == conns[c].to IN
  /\ Accepted(c) /\ conns[c].cut /\ conns[c].toServer = <<>>
  /\ conns' = [conns EXCEPT ![c].server = "closed"]
  /\ table' = [table EXCEPT ![n] = Leaves(@, conns[c].key, c)]
  /\ UNCHANGED <<looping, pubs, got, down, breaks>>

------------------------------------------------------------------------------
\* publish(): the node's own bus, then every connection.
Publish(n) ==
  LET m == Len(pubs) + 1 IN
  /\ m <= MaxPubs /\ n \notin down
  /\ pubs' = Append(pubs, [by |-> n, whole |-> Whole])
  /\ got' = Delivered(n, m)
  /\ conns' = TcpBroadcast(conns, n, table[n], m, {})
  /\ UNCHANGED <<table, looping, down, breaks>>

\* The end of n on connection c is closed; what n wrote may still be read.
Closed(c, n) ==
  [c EXCEPT !.cut = TRUE,
            !.client = IF c.from = n THEN "closed" ELSE @,
            !.server = IF c.to = n THEN "closed" ELSE @,
            !.toClient = IF c.from = n THEN <<>> ELSE @,
            !.toServer = IF c.to = n THEN <<>> ELSE @]

\* stop(): the loops are cancelled, the writers closed, and the handlers end.
Stop(n) ==
  LET mine == {c \in DOMAIN conns : n \in {conns[c].from, conns[c].to}}
      live == {c \in mine : ~conns[c].cut} IN
  /\ n \in Restarter \ down
  /\ live # {} /\ breaks + Cardinality(live) <= MaxBreaks
  /\ down' = down \cup {n}
  /\ breaks' = breaks + Cardinality(live)
  /\ looping' = {d \in looping : d[1] # n}
  /\ table' = [table EXCEPT ![n] = <<>>]
  /\ conns' = [c \in DOMAIN conns |-> IF c \in mine THEN Closed(conns[c], n) ELSE conns[c]]
  /\ UNCHANGED <<pubs, got>>

\* start(): a new transport listens at the same address; its dials follow.
Start(n) ==
  /\ n \in down
  /\ down' = down \ {n}
  /\ UNCHANGED <<conns, table, looping, pubs, got, breaks>>

\* The network: what is under way in either direction may be lost or still be read.
Break(c) ==
  /\ ~conns[c].cut /\ breaks < MaxBreaks
  /\ breaks' = breaks + 1
  /\ \E there \in {conns[c].toServer, <<>>}, back \in {conns[c].toClient, <<>>} :
        conns' = [conns EXCEPT ![c].cut = TRUE, ![c].toServer = there, ![c].toClient = back]
  /\ UNCHANGED <<table, looping, pubs, got, down>>

TcpNext ==
  \/ \E d \in Dials : Dial(d[1], d[2])
  \/ \E c \in DOMAIN conns : ClientRead(c)
  \/ \E c \in DOMAIN conns : ClientEnd(c)
  \/ \E c \in DOMAIN conns : ServerHello(c)
  \/ \E c \in DOMAIN conns : HelloTimeout(c)
  \/ \E c \in DOMAIN conns : ServerReadPub(c)
  \/ \E c \in DOMAIN conns : ServerReadHello(c)
  \/ \E c \in DOMAIN conns : ServerEnd(c)
  \/ \E n \in Publisher : Publish(n)
  \/ \E n \in Node : Stop(n)
  \/ \E n \in Node : Start(n)
  \/ \E c \in DOMAIN conns : Break(c)

TcpSpec == TcpInit /\ [][TcpNext]_tcpVars

(* Every task of a node that can go on goes on: the event loop runs it, and the
   reconnect loop dials again when it has slept. *)
TcpFairness ==
  /\ \A d \in Dials : WF_tcpVars(Dial(d[1], d[2]))
  /\ \A c \in Conn :
       /\ WF_tcpVars(c \in DOMAIN conns /\ (ClientRead(c) \/ ClientEnd(c)))
       /\ WF_tcpVars(c \in DOMAIN conns /\ (ServerHello(c) \/ HelloTimeout(c)))
       /\ WF_tcpVars(c \in DOMAIN conns /\ (ServerReadPub(c) \/ ServerReadHello(c) \/ ServerEnd(c)))

TcpFairSpec == TcpSpec /\ TcpFairness

------------------------------------------------------------------------------
(* However connections of one peer overlap and rename each other, the accepting
   end never writes to a connection whose handler has ended (_handle_tcp_client
   drops every name of its writer, and a rename never brings one back). *)
NoDeadWriters ==
  \A n \in Node : \A c \in Range(table[n]) : conns[c].to = n => conns[c].server = "open"

\* Nothing is under way and everybody has found out what is broken.
Quiet == \A c \in DOMAIN conns :
           /\ conns[c].toServer = <<>> /\ conns[c].toClient = <<>>
           /\ conns[c].cut => conns[c].client = "closed" /\ conns[c].server = "closed"

OneRelay == \A r, s \in Relay : r = s

(* Along a tree of peers, while their connections hold, flooding brings no
   publication to a node twice, and one made when all were connected reaches
   every node. Around a single relay no other node than the publisher gets it
   twice either when connections break and come back under other names (publish,
   _tcp_broadcast, exclude_peer). What may come back then, to the publisher or
   from relay to relay, is what was read late on the older of two connections of
   one peer: it is left out of the broadcast by its name, and the newer has
   another. *)
FloodReachesOnce ==
  \A m \in DOMAIN pubs : \A n \in Node :
     /\ breaks = 0 \/ (n # pubs[m].by /\ OneRelay) => got[n][m] <= 1
     /\ breaks = 0 /\ Quiet /\ pubs[m].whole => got[n][m] = 1

(* The reconnect loop gets its node connected again after every break and every
   restart of the peer: in the end each dialer holds a connection that works, and
   writes to it (_reconnect_loop, stop). *)
DialersReconnect ==
  \A d \in Dials : <>[]({d[1], d[2]} \cap down = {} => \E c \in DOMAIN conns :
     /\ conns[c].from = d[1] /\ conns[c].to = d[2] /\ ~conns[c].cut
     /\ c \in Range(table[d[1]]))
==============================================================================
