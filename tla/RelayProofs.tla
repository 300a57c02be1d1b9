---------------------------- MODULE RelayProofs ----------------------------
(***************************************************************************)
(* The registry of Relay and the peers lists it sends, for every set of    *)
(* agents and any number of connections that break when they like.         *)
(***************************************************************************)
EXTENDS Relay, SequenceTheorems, TLAPS

(* What a client will hold once it has read s: the last list in it, or v. *)
Settles(s, v, list) ==
  /\ \A i \in DOMAIN s :
       s[i].type = "peers" /\ (\A j \in DOMAIN s : j > i => s[j].type # "peers") => s[i].peers = list
  /\ (\A i \in DOMAIN s : s[i].type # "peers") => v = list

(* A connection belongs to the agent that uses it, is told about only when it
   belongs to somebody, and carries nothing before. *)
Owned ==
  /\ \A a \in Agent : current[a] # 0 => owner[current[a]] = a
  /\ \A c \in Conn : owner[c] = None <=> phase[c] = "unused"
  /\ \A c \in Conn : owner[c] = None => down[c] = <<>>
  /\ \A d \in Conn : \A c \in tell[d] : owner[c] # None

(* No list under way names the agent it goes to. *)
ListsExclude ==
  \A c \in Conn : \A i \in DOMAIN down[c] :
    down[c][i].type = "peers" => owner[c] \notin down[c][i].peers

(* Somebody will still tell connection c. *)
WillBeTold(c) ==
  \E d \in Conn : phase[d] \in {"greeting", "announcing"} \/ c \in tell[d]

(* An agent whose registered connection works either has the right list, on
   its way or read, or somebody is about to make it a new one. *)
Settling ==
  \A a \in Agent :
    /\ registry[a] # 0 /\ registry[a] = current[a] /\ current[a] \notin cut
    => Settles(down[current[a]], view[a], Listed \ {a}) \/ WillBeTold(current[a])

(* The inductive invariant.  PeersSettle looks only at moments of rest;
   Settling says what keeps the lists right in between, and the type of a view
   needs ListsExclude. *)
IInv == TypeOK /\ NoDeadEntries /\ Owned /\ ListsExclude /\ Settling

------------------------------------------------------------------------------
(* The wire. *)

(* What the proofs use of the assumption on the constants. *)
LEMMA Bounds == None \notin Agent /\ MaxConn \in Nat /\ MaxKeys \in Nat
BY RelayAssumption

(* A send leaves the other connections alone. *)
LEMMA SentElsewhere ==
  ASSUME NEW S, NEW ch \in [Conn -> Seq(S)], NEW c, NEW m, NEW d \in Conn, d # c
  PROVE  Sent(ch, c, m)[d] = ch[d]
BY DEF Sent

(* What is left when a list overtakes the last one. *)
LEMMA FrontOf ==
  ASSUME NEW S, NEW s \in Seq(S), s # <<>>
  PROVE  /\ Front(s) \in Seq(S)
         /\ Len(Front(s)) = Len(s) - 1
         /\ \A i \in 1..(Len(s) - 1) : Front(s)[i] = s[i]
<1>. DEFINE n == Len(s) - 1
<1>1. n \in Nat /\ \A i \in 1..n : s[i] \in S
  OBVIOUS
<1>2. /\ SubSeq(s, 1, n) \in Seq(S)
      /\ Len(SubSeq(s, 1, n)) = IF 1 <= n THEN n - 1 + 1 ELSE 0
      /\ \A i \in 1..(n - 1 + 1) : SubSeq(s, 1, n)[i] = s[1 + i - 1]
  <2>. HIDE DEF n
  <2>. QED  BY <1>1, SubSeqProperties
<1>3. Len(SubSeq(s, 1, n)) = n /\ \A i \in 1..n : SubSeq(s, 1, n)[i] = s[i]
  <2>. HIDE DEF n
  <2>. QED  BY <1>1, <1>2
<1>. QED  BY <1>2, <1>3 DEF Front

(* A connection after a send: typed, and with m at its end or as it was. *)
LEMMA SentTyped ==
  ASSUME NEW S, NEW ch \in [Conn -> Seq(S)], NEW c \in 0..MaxConn, NEW m \in S
  PROVE  /\ Sent(ch, c, m) \in [Conn -> Seq(S)]
         /\ c # 0 /\ c \notin cut =>
              /\ Len(Sent(ch, c, m)[c]) > 0
              /\ Sent(ch, c, m)[c][Len(Sent(ch, c, m)[c])] = m
         /\ m.type # "peers" /\ c # 0 =>
              Sent(ch, c, m)[c] \in {ch[c], Append(ch[c], m)}
         /\ \A d \in Conn : \A i \in DOMAIN Sent(ch, c, m)[d] :
              \/ i \in DOMAIN ch[d] /\ Sent(ch, c, m)[d][i] = ch[d][i]
              \/ d = c /\ Sent(ch, c, m)[d][i] = m
<1>. USE Bounds
<1>1. CASE c = 0 \/ c \in cut
  BY <1>1 DEF Sent
<1>2. CASE c # 0 /\ c \notin cut
  <2>. DEFINE s == IF Overtakes(m, ch[c]) THEN Front(ch[c]) ELSE ch[c]
  <2>1. c \in Conn /\ ch[c] \in Seq(S)
    BY <1>2 DEF Conn
  <2>2. /\ s \in Seq(S)
        /\ \A i \in DOMAIN s : i \in DOMAIN ch[c] /\ s[i] = ch[c][i]
        /\ m.type # "peers" => s = ch[c]
    BY <2>1, FrontOf DEF Overtakes
  <2>3. Sent(ch, c, m) = [ch EXCEPT ![c] = Append(s, m)]
    BY <1>2, <2>1 DEF Sent
  <2>. HIDE DEF s
  <2>4. /\ Append(s, m) \in Seq(S)
        /\ Len(Append(s, m)) > 0
        /\ Append(s, m)[Len(Append(s, m))] = m
        /\ \A i \in DOMAIN Append(s, m) : (i \in DOMAIN s /\ Append(s, m)[i] = s[i]) \/ Append(s, m)[i] = m
    BY <2>2
  <2>5. Sent(ch, c, m)[c] = Append(s, m) /\ \A d \in Conn \ {c} : Sent(ch, c, m)[d] = ch[d]
    BY <2>1, <2>3
  <2>. QED  BY <1>2, <2>1, <2>2, <2>3, <2>4, <2>5
<1>. QED  BY <1>1, <1>2

(* The same of what the server sends to agents. *)
LEMMA SentDown ==
  ASSUME down \in [Conn -> Seq(Notice)], NEW c \in 0..MaxConn, NEW m \in Notice
  PROVE  /\ c # 0 /\ c \notin cut =>
              /\ Sent(down, c, m)[c] \in Seq(Notice)
              /\ Len(Sent(down, c, m)[c]) > 0
              /\ Sent(down, c, m)[c][Len(Sent(down, c, m)[c])] = m
         /\ \A d \in Conn : \A i \in DOMAIN Sent(down, c, m)[d] :
              \/ i \in DOMAIN down[d] /\ Sent(down, c, m)[d][i] = down[d][i]
              \/ d = c /\ Sent(down, c, m)[d][i] = m
<1>1. Sent(down, c, m) \in [Conn -> Seq(Notice)]
  BY SentTyped
<1>2. c # 0 => c \in Conn
  BY Bounds DEF Conn
<1>3. c # 0 /\ c \notin cut => Sent(down, c, m)[c] \in Seq(Notice)
  BY <1>1, <1>2
<1>4. c # 0 /\ c \notin cut =>
        /\ Len(Sent(down, c, m)[c]) > 0
        /\ Sent(down, c, m)[c][Len(Sent(down, c, m)[c])] = m
  BY SentTyped
<1>5. \A d \in Conn : \A i \in DOMAIN Sent(down, c, m)[d] :
        \/ i \in DOMAIN down[d] /\ Sent(down, c, m)[d][i] = down[d][i]
        \/ d = c /\ Sent(down, c, m)[d][i] = m
  BY SentTyped
<1>. QED  BY <1>3, <1>4, <1>5

(* A list at the end of a connection is the one that counts. *)
LEMMA SettledByLast ==
  ASSUME NEW s \in Seq(Notice), NEW v, NEW list,
         Len(s) > 0, s[Len(s)].type = "peers", s[Len(s)].peers = list
  PROVE  Settles(s, v, list)
<1>1. Len(s) \in DOMAIN s /\ DOMAIN s = 1..Len(s) /\ Len(s) \in Nat
  OBVIOUS
<1>. QED  BY <1>1 DEF Settles

(* Another message changes nothing of what a client will hold. *)
LEMMA SettledBefore ==
  ASSUME NEW s \in Seq(Notice), NEW v, NEW list, NEW m \in Notice,
         m.type # "peers", Settles(s, v, list)
  PROVE  Settles(Append(s, m), v, list)
<1>. DEFINE t == Append(s, m)
<1>1. /\ DOMAIN s = 1..Len(s) /\ DOMAIN t = 1..(Len(s) + 1) /\ Len(s) \in Nat
      /\ \A i \in DOMAIN s : t[i] = s[i]
      /\ t[Len(s) + 1] = m
  OBVIOUS
<1>. HIDE DEF t
<1>2. ASSUME NEW i \in DOMAIN t, t[i].type = "peers",
             \A j \in DOMAIN t : j > i => t[j].type # "peers"
      PROVE  t[i].peers = list
  <2>1. i \in DOMAIN s /\ t[i] = s[i]
    BY <1>1, <1>2
  <2>2. \A j \in DOMAIN s : j > i => s[j].type # "peers"
    BY <1>1, <1>2
  <2>. QED  BY <1>2, <2>1, <2>2 DEF Settles
<1>3. (\A i \in DOMAIN t : t[i].type # "peers") => v = list
  BY <1>1 DEF Settles
<1>4. Settles(t, v, list)
  BY <1>2, <1>3 DEF Settles
<1>. QED  BY <1>4 DEF t

(* A client that reads a list holds it, and any other message leaves its list. *)
LEMMA SettledByReading ==
  ASSUME NEW s \in Seq(Notice), NEW v, NEW list, s # <<>>, Settles(s, v, list)
  PROVE  Settles(Tail(s), IF Head(s).type = "peers" THEN Head(s).peers ELSE v, list)
<1>. DEFINE t == Tail(s)
           w == IF Head(s).type = "peers" THEN Head(s).peers ELSE v
<1>1. /\ DOMAIN s = 1..Len(s) /\ DOMAIN t = 1..(Len(s) - 1) /\ Len(s) \in Nat /\ Len(s) > 0
      /\ \A i \in DOMAIN t : t[i] = s[i + 1]
      /\ Head(s) = s[1]
  OBVIOUS
<1>. HIDE DEF t
<1>2. ASSUME NEW i \in DOMAIN t, t[i].type = "peers",
             \A j \in DOMAIN t : j > i => t[j].type # "peers"
      PROVE  t[i].peers = list
  <2>1. i + 1 \in DOMAIN s /\ s[i + 1] = t[i]
    BY <1>1
  <2>2. ASSUME NEW j \in DOMAIN s, j > i + 1  PROVE s[j].type # "peers"
    <3>1. j - 1 \in DOMAIN t /\ j - 1 > i /\ t[j - 1] = s[j]
      BY <1>1, <2>2
    <3>. QED  BY <1>2, <3>1
  <2>. QED  BY <1>2, <2>1, <2>2 DEF Settles
<1>3. ASSUME \A i \in DOMAIN t : t[i].type # "peers"  PROVE w = list
  <2>1. \A j \in DOMAIN s : j > 1 => s[j].type # "peers"
    <3>. SUFFICES ASSUME NEW j \in DOMAIN s, j > 1  PROVE s[j].type # "peers"
      OBVIOUS
    <3>1. j - 1 \in DOMAIN t /\ t[j - 1] = s[j]
      BY <1>1
    <3>. QED  BY <1>3, <3>1
  <2>2. CASE Head(s).type = "peers"
    <3>1. 1 \in DOMAIN s
      BY <1>1
    <3>. QED  BY <1>1, <2>1, <2>2, <3>1 DEF Settles
  <2>3. CASE Head(s).type # "peers"
    <3>1. \A j \in DOMAIN s : s[j].type # "peers"
      BY <1>1, <2>1, <2>3
    <3>. QED  BY <2>3, <3>1 DEF Settles
  <2>. QED  BY <2>2, <2>3
<1>. HIDE DEF w
<1>4. Settles(t, w, list)
  BY <1>2, <1>3 DEF Settles
<1>. QED  BY <1>4 DEF t, w

------------------------------------------------------------------------------
(* The invariant holds at first. *)
LEMMA InitInv == Init => IInv
<1>. SUFFICES ASSUME Init  PROVE IInv
  OBVIOUS
<1>. USE Bounds DEF Init
<1>1. TypeOK
  BY DEF TypeOK, Phase, Attempt, NoAttempt
<1>2. NoDeadEntries /\ Owned /\ ListsExclude /\ Settling
  BY DEF NoDeadEntries, Owned, ListsExclude, Settling
<1>. QED  BY <1>1, <1>2 DEF IInv

(* A message that is read was on the connection in use. *)
LEMMA ReadableIs ==
  ASSUME TypeOK, NEW a \in Agent, NEW m \in Readable(a)
  PROVE  /\ current[a] \in Conn /\ down[current[a]] \in Seq(Notice)
         /\ down[current[a]] # <<>> /\ m = Head(down[current[a]]) /\ m \in Notice
         /\ m = down[current[a]][1] /\ 1 \in DOMAIN down[current[a]]
BY DEF Readable, TypeOK

(* What a list or a forwarded message is. *)
LEMMA NoticesTyped ==
  ASSUME TypeOK
  PROVE  /\ \A a : /\ PeersList(a) \in Notice /\ PeersList(a).type = "peers"
                   /\ PeersList(a).peers = Listed \ {a}
         /\ \A m \in Request, a \in Agent :
              Forwarded(m, a) \in Notice /\ Forwarded(m, a).type # "peers"
BY DEF PeersList, Forwarded, E2E, Notice, Request, Listed

(* Each step keeps the types. *)
LEMMA TypeStep ==
  ASSUME IInv, [Next]_vars
  PROVE  TypeOK'
<1>. USE Bounds
<1>1. TypeOK /\ NoDeadEntries /\ Owned /\ ListsExclude
  BY DEF IInv
<1>2. ASSUME NEW c \in Conn, Cut(c)  PROVE TypeOK'
  BY <1>1, <1>2 DEF TypeOK, Cut, Breaks, server, keys
<1>3. ASSUME NEW c \in Conn, Register(c)  PROVE TypeOK'
  <2>1. up' \in [Conn -> Seq(Request)]
    BY <1>1, <1>3 DEF TypeOK, Register
  <2>2. registry' \in [Agent -> 0..MaxConn]
    <3>1. registry \in [Agent -> 0..MaxConn] /\ c \in 0..MaxConn
      BY <1>1 DEF TypeOK, Conn
    <3>2. registry' = [registry EXCEPT ![owner[c]] = c]
      BY <1>3 DEF Register
    <3>. QED  BY <3>1, <3>2
  <2>. QED  BY <1>1, <1>3, <2>1, <2>2 DEF TypeOK, Register, HandlerAt, Phase, keys
<1>4. ASSUME NEW c \in Conn, NeverRegistered(c)  PROVE TypeOK'
  BY <1>1, <1>4 DEF TypeOK, NeverRegistered, HandlerAt, Phase, keys
<1>5. ASSUME NEW c \in Conn, Greet(c)  PROVE TypeOK'
  <2>1. down' \in [Conn -> Seq(Notice)]
    <3>1. down \in [Conn -> Seq(Notice)] /\ c \in 0..MaxConn
      BY <1>1 DEF TypeOK, Conn
    <3>. QED  BY <1>1, <1>5, <3>1, NoticesTyped, SentTyped DEF Greet
  <2>. QED  BY <1>1, <1>5, <2>1 DEF TypeOK, Greet, HandlerAt, Phase, keys
<1>6. ASSUME NEW c \in Conn, Announce(c)  PROVE TypeOK'
  <2>1. Registered \subseteq Conn
    BY <1>1 DEF TypeOK, Registered, Listed, Conn
  <2>. QED  BY <1>1, <1>6, <2>1 DEF TypeOK, Announce, HandlerAt, Phase, keys
<1>7. ASSUME NEW c \in Conn, Tell(c)  PROVE TypeOK'
  <2>1. PICK t \in tell[c] : /\ down' = Sent(down, t, PeersList(owner[t]))
                             /\ tell' = [tell EXCEPT ![c] = @ \ {t}]
    BY <1>7 DEF Tell
  <2>2. down' \in [Conn -> Seq(Notice)]
    <3>1. down \in [Conn -> Seq(Notice)] /\ t \in 0..MaxConn
      BY <1>1 DEF TypeOK, Conn
    <3>. QED  BY <1>1, <2>1, <3>1, NoticesTyped, SentTyped
  <2>. QED  BY <1>1, <1>7, <2>1, <2>2 DEF TypeOK, Tell, keys
<1>8. ASSUME NEW c \in Conn, Serve(c)  PROVE TypeOK'
  <2>. DEFINE m == Head(up[c])
  <2>1. m \in Request /\ registry[m.from] \in 0..MaxConn /\ owner[c] \in Agent
    <3>1. up[c] \in Seq(Request) /\ up[c] # <<>>
      BY <1>1, <1>8 DEF TypeOK, Serve
    <3>5. m \in Request
      BY <3>1
    <3>2. m \in Request /\ m.from \in Agent
      BY <3>5 DEF Request
    <3>3. registry[m.from] \in 0..MaxConn
      BY <1>1, <3>2 DEF TypeOK
    <3>4. owner[c] \in Agent
      BY <1>1, <1>8 DEF TypeOK, Serve, Owned
    <3>. QED  BY <3>2, <3>3, <3>4
  <2>2. down' \in [Conn -> Seq(Notice)]
    <3>1. down \in [Conn -> Seq(Notice)] /\ down' = Sent(down, registry[m.from], Forwarded(m, owner[c]))
      BY <1>1, <1>8 DEF TypeOK, Serve
    <3>2. Forwarded(m, owner[c]) \in Notice
      BY <1>1, <2>1, NoticesTyped
    <3>. QED  BY <2>1, <3>1, <3>2, SentTyped
  <2>3. up' \in [Conn -> Seq(Request)]
    BY <1>1, <1>8 DEF TypeOK, Serve
  <2>. QED  BY <1>1, <1>8, <2>2, <2>3 DEF TypeOK, Serve, server, keys
<1>9. ASSUME NEW c \in Conn, End(c)  PROVE TypeOK'
  <2>1. Registered \subseteq Conn
    BY <1>1 DEF TypeOK, Registered, Listed, Conn
  <2>2. up' \in [Conn -> Seq(Request)]
    BY <1>1, <1>9 DEF TypeOK, End
  <2>3. registry' \in [Agent -> 0..MaxConn]
    <3>1. registry \in [Agent -> 0..MaxConn] /\ 0 \in 0..MaxConn
      BY <1>1 DEF TypeOK
    <3>2. registry' = [registry EXCEPT ![owner[c]] = 0]
      BY <1>9 DEF End
    <3>. QED  BY <3>1, <3>2
  <2>. QED  BY <1>1, <1>9, <2>1, <2>2, <2>3 DEF TypeOK, End, HandlerAt, Phase, keys
<1>10. ASSUME NEW a \in Agent, Connect(a)  PROVE TypeOK'
  <2>1. PICK c \in Conn : /\ owner' = [owner EXCEPT ![c] = a]
                          /\ phase' = [phase EXCEPT ![c] = "waiting"]
                          /\ up' = [up EXCEPT ![c] = <<E2E("register", a, 0)>>]
                          /\ current' = [current EXCEPT ![a] = c]
    BY <1>10 DEF Connect
  <2>2. E2E("register", a, 0) \in Request
    BY DEF E2E, Request
  <2>3. up' \in [Conn -> Seq(Request)]
    BY <1>1, <2>1, <2>2 DEF TypeOK
  <2>4. current' \in [Agent -> 0..MaxConn]
    BY <1>1, <2>1 DEF TypeOK, Conn
  <2>. QED  BY <1>1, <1>10, <2>1, <2>3, <2>4 DEF TypeOK, Connect, Phase, keys
<1>11. ASSUME NEW a \in Agent, Hangup(a)
       PROVE  current' \in [Agent -> 0..MaxConn] /\ down' \in [Conn -> Seq(Notice)]
  <2>1. /\ current \in [Agent -> 0..MaxConn] /\ 0 \in 0..MaxConn
        /\ down \in [Conn -> Seq(Notice)] /\ <<>> \in Seq(Notice)
    BY <1>1 DEF TypeOK
  <2>2. current' = [current EXCEPT ![a] = 0] /\ down' = [down EXCEPT ![current[a]] = <<>>]
    BY <1>11 DEF Hangup
  <2>. QED  BY <2>1, <2>2
<1>12. ASSUME NEW a \in Agent, NoticeCut(a)  PROVE TypeOK'
  BY <1>1, <1>11, <1>12 DEF TypeOK, NoticeCut, server, keys
<1>13. ASSUME NEW a \in Agent, RestartClient(a)  PROVE TypeOK'
  <2>1. cut' \subseteq Conn
    <3>1. current[a] \in Conn /\ cut \subseteq Conn
      BY <1>1, <1>13 DEF TypeOK, RestartClient, Conn
    <3>. QED  BY <1>13, <3>1 DEF RestartClient, Breaks
  <2>2. NoAttempt \in Attempt
    BY DEF Attempt, NoAttempt
  <2>3. session' \in [Agent -> [Agent -> Attempt]] /\ pending' \in [Agent -> [Agent -> Attempt]]
    BY <1>1, <1>13, <2>2 DEF TypeOK, RestartClient
  <2>. QED  BY <1>1, <1>11, <1>13, <2>1, <2>3 DEF TypeOK, RestartClient, server
<1>14. ASSUME NEW a \in Agent, NEW b \in Agent, Establish(a, b)  PROVE TypeOK'
  <2>1. E2E("e2e_init", b, made') \in Request /\ made' \in 0..MaxKeys /\ current[a] \in 0..MaxConn
    BY <1>1, <1>14 DEF TypeOK, Establish, E2E, Request
  <2>2. up' \in [Conn -> Seq(Request)]
    <3>1. up \in [Conn -> Seq(Request)] /\ up' = Sent(up, current[a], E2E("e2e_init", b, made'))
      BY <1>1, <1>14 DEF TypeOK, Establish
    <3>. QED  BY <2>1, <3>1, SentTyped
  <2>3. pending' \in [Agent -> [Agent -> Attempt]] /\ tries' \in [Agent -> [Agent -> Nat]]
    <3>1. [own |-> made', peer |-> 0] \in Attempt
      BY <2>1 DEF Attempt
    <3>2. /\ pending \in [Agent -> [Agent -> Attempt]]
          /\ tries \in [Agent -> [Agent -> Nat]]
          /\ tries[a][b] + 1 \in Nat
      BY <1>1 DEF TypeOK
    <3>3. /\ pending' = [pending EXCEPT ![a][b] = [own |-> made', peer |-> 0]]
          /\ tries' = [tries EXCEPT ![a][b] = tries[a][b] + 1]
      BY <1>14 DEF Establish
    <3>4. pending' \in [Agent -> [Agent -> Attempt]]
      BY <3>1, <3>2, <3>3
    <3>5. tries' \in [Agent -> [Agent -> Nat]]
      BY <3>2, <3>3
    <3>. QED  BY <3>4, <3>5
  <2>. QED  BY <1>1, <1>14, <2>1, <2>2, <2>3 DEF TypeOK, Establish, server
<1>15. ASSUME NEW a \in Agent, NEW b \in Agent, GiveUp(a, b)  PROVE TypeOK'
  <2>1. pending' \in [Agent -> [Agent -> Attempt]]
    <3>1. NoAttempt \in Attempt
      BY DEF NoAttempt, Attempt
    <3>. QED  BY <1>1, <1>15, <3>1 DEF TypeOK, GiveUp
  <2>. QED  BY <1>1, <1>15, <2>1 DEF TypeOK, GiveUp, server
<1>16. ASSUME NEW a \in Agent, NEW b \in Agent, Finish(a, b)  PROVE TypeOK'
  <2>1. pending' \in [Agent -> [Agent -> Attempt]] /\ session' \in [Agent -> [Agent -> Attempt]]
    <3>1. NoAttempt \in Attempt
      BY DEF NoAttempt, Attempt
    <3>2. Derived(pending[a][b].own, pending[a][b].peer) \in Attempt
      <4>1. pending[a][b] \in Attempt
        BY <1>1 DEF TypeOK
      <4>. QED  BY <4>1 DEF Derived, Attempt
    <3>. QED  BY <1>1, <1>16, <3>1, <3>2 DEF TypeOK, Finish
  <2>. QED  BY <1>1, <1>16, <2>1 DEF TypeOK, Finish, server
<1>17. ASSUME NEW a \in Agent, NEW m \in Readable(a), Take(a)
       PROVE  down' \in [Conn -> Seq(Notice)]
  BY <1>1, <1>17, ReadableIs DEF TypeOK, Take
<1>18. ASSUME NEW a \in Agent, ReadPeers(a)  PROVE TypeOK'
  <2>1. PICK m \in Readable(a) : Take(a) /\ m.type = "peers" /\ view' = [view EXCEPT ![a] = m.peers]
    BY <1>18 DEF ReadPeers
  <2>2. m.peers \subseteq Agent /\ a \notin m.peers
    <3>1. owner[current[a]] = a
      BY <1>1, ReadableIs DEF Owned, Conn
    <3>2. m.peers \subseteq Agent
      BY <1>1, <2>1, ReadableIs DEF Notice
    <3>. QED  BY <1>1, <2>1, <3>1, <3>2, ReadableIs DEF ListsExclude
  <2>3. down' \in [Conn -> Seq(Notice)]
    BY <1>17, <2>1
  <2>. QED  BY <1>1, <1>18, <2>1, <2>2, <2>3 DEF TypeOK, ReadPeers, server, keys
<1>19. ASSUME NEW a \in Agent, ReadRequest(a)  PROVE TypeOK'
  <2>1. PICK m \in Readable(a) :
          /\ Take(a) /\ m.type = "e2e_req"
          /\ session' = [session EXCEPT ![a][m.from] = RequestKey(m.key, made')]
          /\ up' = Sent(up, current[a], E2E("e2e_accept", m.from, made'))
    BY <1>19 DEF ReadRequest
  <2>2. /\ m \in Notice /\ m.from \in Agent /\ m.key \in 0..MaxKeys /\ made' \in 0..MaxKeys
        /\ current[a] \in 0..MaxConn
    <3>1. m \in Notice
      BY <1>1, ReadableIs
    <3>2. m.from \in Agent /\ m.key \in 0..MaxKeys
      BY <2>1, <3>1 DEF Notice
    <3>. QED  BY <1>1, <1>19, <3>1, <3>2 DEF TypeOK, ReadRequest
  <2>3. up' \in [Conn -> Seq(Request)]
    <3>1. up \in [Conn -> Seq(Request)] /\ E2E("e2e_accept", m.from, made') \in Request
      BY <1>1, <2>2 DEF TypeOK, E2E, Request
    <3>. QED  BY <2>1, <2>2, <3>1, SentTyped
  <2>4. session' \in [Agent -> [Agent -> Attempt]]
    BY <1>1, <2>1, <2>2 DEF TypeOK, Attempt, RequestKey, Derived
  <2>5. down' \in [Conn -> Seq(Notice)]
    BY <1>17, <2>1
  <2>. QED  BY <1>1, <1>19, <2>2, <2>3, <2>4, <2>5 DEF TypeOK, ReadRequest, server
<1>20. ASSUME NEW a \in Agent, ReadReady(a)  PROVE TypeOK'
  <2>1. PICK m \in Readable(a) : Take(a) /\ m.type = "e2e_ready" /\ Settled(a, m)
    BY <1>20 DEF ReadReady
  <2>2. m \in Notice /\ m.from \in Agent /\ m.key \in 0..MaxKeys
    BY <1>1, <2>1, ReadableIs DEF Notice
  <2>3. pending' \in [Agent -> [Agent -> Attempt]]
    <3>1. pending \in [Agent -> [Agent -> Attempt]] /\ pending[a][m.from] \in Attempt
      BY <1>1, <2>2 DEF TypeOK
    <3>2. [pending[a][m.from] EXCEPT !.peer = m.key] \in Attempt
      BY <2>2, <3>1 DEF Attempt
    <3>3. \/ pending' = pending
          \/ pending' = [pending EXCEPT ![a][m.from] = [pending[a][m.from] EXCEPT !.peer = m.key]]
      BY <2>1, <2>2, <3>1 DEF Settled
    <3>4. CASE pending' = [pending EXCEPT ![a][m.from] = [pending[a][m.from] EXCEPT !.peer = m.key]]
      <4>. DEFINE b == m.from
                  r == [pending[a][m.from] EXCEPT !.peer = m.key]
      <4>1. b \in Agent /\ r \in Attempt /\ pending' = [pending EXCEPT ![a][b] = r]
        BY <2>2, <3>2, <3>4
      <4>. HIDE DEF b, r
      <4>. QED  BY <3>1, <4>1
    <3>. QED  BY <3>1, <3>3, <3>4
  <2>4. down' \in [Conn -> Seq(Notice)]
    BY <1>17, <2>1
  <2>. QED  BY <1>1, <1>20, <2>3, <2>4 DEF TypeOK, ReadReady, server
<1>21. CASE UNCHANGED vars
  BY <1>1, <1>21 DEF TypeOK, vars, server, keys
<1>. QED  BY <1>2, <1>3, <1>4, <1>5, <1>6, <1>7, <1>8, <1>9, <1>10, <1>12, <1>13, <1>14,
             <1>15, <1>16, <1>18, <1>19, <1>20, <1>21 DEF Next

------------------------------------------------------------------------------
(* Each step keeps the registry on live handlers and connections with owners. *)
LEMMA OwnedStep ==
  ASSUME IInv, [Next]_vars
  PROVE  NoDeadEntries' /\ Owned'
<1>. USE Bounds
<1>1. TypeOK /\ NoDeadEntries /\ Owned
  BY DEF IInv
<1>2. /\ owner \in [Conn -> Agent \cup {None}] /\ phase \in [Conn -> Phase]
      /\ tell \in [Conn -> SUBSET Conn] /\ registry \in [Agent -> 0..MaxConn]
      /\ current \in [Agent -> 0..MaxConn] /\ down \in [Conn -> Seq(Notice)]
      /\ 0 \notin Conn /\ 0..MaxConn = Conn \cup {0}
  BY <1>1 DEF TypeOK, Conn
<1>3. ASSUME UNCHANGED <<owner, phase, tell, registry, current>>,
             \A c \in Conn : owner[c] = None => down'[c] = down[c]
      PROVE  NoDeadEntries' /\ Owned'
  BY <1>1, <1>3 DEF NoDeadEntries, Owned
<1>4. ASSUME NEW c \in Conn, Register(c)  PROVE NoDeadEntries' /\ Owned'
  <2>1. /\ phase[c] = "waiting" /\ phase' = [phase EXCEPT ![c] = "greeting"]
        /\ registry' = [registry EXCEPT ![owner[c]] = c]
        /\ UNCHANGED <<owner, tell, current, down>>
    BY <1>4 DEF Register, HandlerAt
  <2>2. owner[c] \in Agent
    BY <1>1, <1>2, <2>1 DEF Owned
  <2>. QED  BY <1>1, <1>2, <2>1, <2>2 DEF NoDeadEntries, Owned
<1>5. ASSUME NEW c \in Conn, NeverRegistered(c)  PROVE NoDeadEntries' /\ Owned'
  <2>1. /\ phase[c] = "waiting" /\ phase' = [phase EXCEPT ![c] = "left"]
        /\ UNCHANGED <<owner, tell, registry, current, down>>
    BY <1>5 DEF NeverRegistered, HandlerAt
  <2>. QED  BY <1>1, <1>2, <2>1 DEF NoDeadEntries, Owned
<1>6. ASSUME NEW c \in Conn, Greet(c)  PROVE NoDeadEntries' /\ Owned'
  <2>1. /\ phase[c] = "greeting" /\ phase' = [phase EXCEPT ![c] = "announcing"]
        /\ down' = Sent(down, c, PeersList(owner[c]))
        /\ UNCHANGED <<owner, tell, registry, current>>
    BY <1>6 DEF Greet, HandlerAt
  <2>2. ASSUME NEW d \in Conn, owner[d] = None  PROVE down'[d] = down[d]
    <3>1. c # d
      BY <1>1, <2>1, <2>2 DEF Owned
    <3>2. down \in [Conn -> Seq(Notice)]
      BY <1>2
    <3>. QED  BY <2>1, <3>1, <3>2, SentElsewhere
  <2>. QED  BY <1>1, <1>2, <2>1, <2>2 DEF NoDeadEntries, Owned
<1>7. ASSUME NEW c \in Conn, Announce(c)  PROVE NoDeadEntries' /\ Owned'
  <2>1. /\ phase[c] = "announcing" /\ phase' = [phase EXCEPT ![c] = "serving"]
        /\ tell' = [tell EXCEPT ![c] = Registered]
        /\ UNCHANGED <<owner, registry, current, down>>
    BY <1>7 DEF Announce, HandlerAt
  <2>2. \A t \in Registered : owner[t] # None
    BY <1>1 DEF NoDeadEntries, Registered, Listed
  <2>. QED  BY <1>1, <1>2, <2>1, <2>2 DEF NoDeadEntries, Owned
<1>8. ASSUME NEW c \in Conn, Tell(c)  PROVE NoDeadEntries' /\ Owned'
  <2>1. PICK t \in tell[c] : /\ down' = Sent(down, t, PeersList(owner[t]))
                             /\ tell' = [tell EXCEPT ![c] = @ \ {t}]
                             /\ UNCHANGED <<owner, phase, registry, current>>
    BY <1>8 DEF Tell
  <2>2. ASSUME NEW d \in Conn, owner[d] = None  PROVE down'[d] = down[d]
    <3>1. t # d
      BY <1>1, <2>2 DEF Owned
    <3>2. down \in [Conn -> Seq(Notice)] /\ down' = Sent(down, t, PeersList(owner[t]))
      BY <1>2, <2>1
    <3>. QED  BY <3>1, <3>2, SentElsewhere
  <2>. QED  BY <1>1, <1>2, <2>1, <2>2 DEF NoDeadEntries, Owned
<1>9. ASSUME NEW c \in Conn, Serve(c)  PROVE NoDeadEntries' /\ Owned'
  <2>. DEFINE t == registry[Head(up[c]).from]
  <2>1. /\ UNCHANGED <<owner, phase, tell, registry, current>>
        /\ up[c] \in Seq(Request) /\ up[c] # <<>>
        /\ down' = Sent(down, t, Forwarded(Head(up[c]), owner[c]))
    BY <1>1, <1>9 DEF TypeOK, Serve, server
  <2>2. Head(up[c]) \in Request
    BY <2>1
  <2>3. t # 0 => owner[t] # None
    BY <1>1, <2>2 DEF NoDeadEntries, Request
  <2>4. ASSUME NEW d \in Conn, owner[d] = None  PROVE down'[d] = down[d]
    <3>1. t # d
      BY <1>2, <2>3, <2>4
    <3>2. down \in [Conn -> Seq(Notice)]
      BY <1>2
    <3>. HIDE DEF t
    <3>3. \A m : Sent(down, t, m)[d] = down[d]
      BY <3>1, <3>2, SentElsewhere
    <3>4. down'[d] = Sent(down, t, Forwarded(Head(up[c]), owner[c]))[d]
      BY <2>1
    <3>. QED  BY <3>3, <3>4
  <2>. QED  BY <1>3, <2>1, <2>4
<1>10. ASSUME NEW c \in Conn, End(c)  PROVE NoDeadEntries' /\ Owned'
  <2>1. /\ phase[c] = "serving" /\ phase' = [phase EXCEPT ![c] = "left"]
        /\ registry' = [registry EXCEPT ![owner[c]] = 0]
        /\ tell' = [tell EXCEPT ![c] = Registered \ {registry[owner[c]]}]
        /\ UNCHANGED <<owner, current, down>>
    BY <1>10 DEF End, HandlerAt
  <2>2. \A t \in Registered : owner[t] # None
    BY <1>1 DEF NoDeadEntries, Registered, Listed
  <2>3. owner[c] \in Agent
    BY <1>1, <1>2, <2>1 DEF Owned
  <2>. QED  BY <1>1, <1>2, <2>1, <2>2, <2>3 DEF NoDeadEntries, Owned
<1>11. ASSUME NEW a \in Agent, Connect(a)  PROVE NoDeadEntries' /\ Owned'
  <2>1. PICK c \in Conn : /\ owner[c] = None /\ owner' = [owner EXCEPT ![c] = a]
                          /\ phase' = [phase EXCEPT ![c] = "waiting"]
                          /\ current' = [current EXCEPT ![a] = c]
                          /\ UNCHANGED <<tell, registry, down>>
    BY <1>11 DEF Connect
  <2>. QED  BY <1>1, <1>2, <2>1 DEF NoDeadEntries, Owned
<1>12. ASSUME NEW a \in Agent, Hangup(a), UNCHANGED <<owner, server>>
       PROVE  NoDeadEntries' /\ Owned'
  BY <1>1, <1>2, <1>12 DEF NoDeadEntries, Owned, Hangup, server
<1>13. ASSUME NEW a \in Agent, NoticeCut(a) \/ RestartClient(a)  PROVE NoDeadEntries' /\ Owned'
  BY <1>12, <1>13 DEF NoticeCut, RestartClient
<1>14. ASSUME NEW a \in Agent, NEW m \in Readable(a), Take(a),
              UNCHANGED <<owner, server, current>>
       PROVE  NoDeadEntries' /\ Owned'
  <2>1. current[a] \in Conn /\ owner[current[a]] = a
    BY <1>1, <1>2, ReadableIs DEF Owned
  <2>2. \A c \in Conn : owner[c] = None => down'[c] = down[c]
    BY <1>2, <1>14, <2>1 DEF Take
  <2>. QED  BY <1>3, <1>14, <2>2 DEF server
<1>15. ASSUME NEW a \in Agent, ReadPeers(a) \/ ReadRequest(a) \/ ReadReady(a)
       PROVE  NoDeadEntries' /\ Owned'
  BY <1>14, <1>15 DEF ReadPeers, ReadRequest, ReadReady
<1>16. ASSUME NEW a \in Agent, NEW b \in Agent, Establish(a, b) \/ GiveUp(a, b) \/ Finish(a, b)
       PROVE  NoDeadEntries' /\ Owned'
  BY <1>3, <1>16 DEF Establish, GiveUp, Finish, server
<1>17. ASSUME NEW c \in Conn, Cut(c)  PROVE NoDeadEntries' /\ Owned'
  BY <1>3, <1>17 DEF Cut, server
<1>18. CASE UNCHANGED vars
  BY <1>3, <1>18 DEF vars, server
<1>. QED  BY <1>4, <1>5, <1>6, <1>7, <1>8, <1>9, <1>10, <1>11, <1>13, <1>15, <1>16, <1>17, <1>18 DEF Next

(* Each step keeps agents off the lists sent to them. *)
LEMMA ListsStep ==
  ASSUME IInv, [Next]_vars
  PROVE  ListsExclude'
<1>. USE Bounds
<1>1. TypeOK /\ NoDeadEntries /\ Owned /\ ListsExclude
  BY DEF IInv
<1>2. /\ down \in [Conn -> Seq(Notice)] /\ owner \in [Conn -> Agent \cup {None}]
      /\ current \in [Agent -> 0..MaxConn] /\ 0..MaxConn = Conn \cup {0}
  BY <1>1 DEF TypeOK, Conn
<1>3. ASSUME UNCHANGED owner, UNCHANGED down  PROVE ListsExclude'
  BY <1>1, <1>3 DEF ListsExclude
<1>4. ASSUME NEW c \in Conn, UNCHANGED owner, down' = Sent(down, c, PeersList(owner[c]))
      PROVE  ListsExclude'
  <2>. DEFINE m == PeersList(owner[c])
  <2>1. m \in Notice /\ owner[c] \notin m.peers /\ c \in 0..MaxConn
    BY <1>1, <1>2, NoticesTyped
  <2>2. \A d \in Conn : \A i \in DOMAIN down'[d] :
           \/ i \in DOMAIN down[d] /\ down'[d][i] = down[d][i]
           \/ d = c /\ down'[d][i] = m
    <3>. HIDE DEF m
    <3>1. down' = Sent(down, c, m)
      BY <1>4 DEF m
    <3>2. down \in [Conn -> Seq(Notice)]
      BY <1>2
    <3>. QED  BY <2>1, <3>1, <3>2, SentTyped
  <2>. HIDE DEF m
  <2>. QED  BY <1>1, <1>4, <2>1, <2>2 DEF ListsExclude
<1>5. ASSUME NEW c \in Conn, Greet(c)  PROVE ListsExclude'
  BY <1>4, <1>5 DEF Greet
<1>6. ASSUME NEW c \in Conn, Tell(c)  PROVE ListsExclude'
  <2>1. PICK t \in tell[c] : down' = Sent(down, t, PeersList(owner[t])) /\ UNCHANGED owner
    BY <1>6 DEF Tell
  <2>2. t \in Conn
    BY <1>1 DEF TypeOK
  <2>. QED  BY <1>4, <2>1, <2>2
<1>7. ASSUME NEW c \in Conn, Serve(c)  PROVE ListsExclude'
  <2>. DEFINE t == registry[Head(up[c]).from]
              m == Forwarded(Head(up[c]), owner[c])
  <2>1. up[c] \in Seq(Request) /\ up[c] # <<>> /\ phase[c] # "unused" /\ UNCHANGED owner /\ down' = Sent(down, t, m)
    BY <1>1, <1>7 DEF TypeOK, Serve
  <2>2. Head(up[c]) \in Request
    BY <2>1
  <2>3. t \in 0..MaxConn /\ owner[c] \in Agent
    BY <1>1, <1>2, <2>1, <2>2 DEF TypeOK, Owned, Request
  <2>4. m \in Notice /\ m.type # "peers"
    BY <1>1, <2>2, <2>3, NoticesTyped
  <2>. HIDE DEF m, t
  <2>5. \A d \in Conn : \A i \in DOMAIN down'[d] :
           \/ i \in DOMAIN down[d] /\ down'[d][i] = down[d][i]
           \/ d = t /\ down'[d][i] = m
    <3>1. down \in [Conn -> Seq(Notice)] /\ down' = Sent(down, t, m)
      BY <1>2, <2>1
    <3>. QED  BY <2>3, <2>4, <3>1, SentDown
  <2>. QED  BY <1>1, <2>1, <2>4, <2>5 DEF ListsExclude
<1>8. ASSUME NEW a \in Agent, Connect(a)  PROVE ListsExclude'
  <2>1. PICK c \in Conn : owner[c] = None /\ owner' = [owner EXCEPT ![c] = a] /\ UNCHANGED down
    BY <1>8 DEF Connect
  <2>2. down[c] = <<>> /\ DOMAIN down[c] = {}
    BY <1>1, <2>1 DEF Owned
  <2>. QED  BY <1>1, <1>2, <2>1, <2>2 DEF ListsExclude
<1>9. ASSUME NEW a \in Agent, NoticeCut(a) \/ RestartClient(a)  PROVE ListsExclude'
  <2>1. down' = [down EXCEPT ![current[a]] = <<>>] /\ UNCHANGED owner
    BY <1>9 DEF NoticeCut, RestartClient, Hangup
  <2>2. \A c \in Conn : down'[c] = down[c] \/ DOMAIN down'[c] = {}
    BY <1>2, <2>1
  <2>. QED  BY <1>1, <2>1, <2>2 DEF ListsExclude
<1>10. ASSUME NEW a \in Agent, ReadPeers(a) \/ ReadRequest(a) \/ ReadReady(a)
       PROVE  ListsExclude'
  <2>1. PICK m \in Readable(a) : down' = [down EXCEPT ![current[a]] = Tail(@)]
    BY <1>10 DEF ReadPeers, ReadRequest, ReadReady, Take
  <2>2. current[a] \in Conn /\ down[current[a]] \in Seq(Notice) /\ down[current[a]] # <<>>
    BY <1>1, ReadableIs
  <2>. DEFINE s == down[current[a]]
  <2>3. \A i \in DOMAIN Tail(s) : i + 1 \in DOMAIN s /\ Tail(s)[i] = s[i + 1]
    BY <2>2
  <2>4. UNCHANGED owner
    BY <1>10 DEF ReadPeers, ReadRequest, ReadReady
  <2>5. ASSUME NEW c \in Conn, NEW i \in DOMAIN down'[c], down'[c][i].type = "peers"
        PROVE  owner[c] \notin down'[c][i].peers
    <3>1. CASE c # current[a]
      BY <1>1, <1>2, <2>1, <2>2, <2>5, <3>1 DEF ListsExclude
    <3>2. CASE c = current[a]
      <4>1. down'[c] = Tail(s)
        BY <1>2, <2>1, <2>2, <3>2
      <4>. QED  BY <1>1, <2>3, <2>5, <3>2, <4>1 DEF ListsExclude
    <3>. QED  BY <3>1, <3>2
  <2>. QED  BY <2>4, <2>5 DEF ListsExclude
<1>11. ASSUME NEW c \in Conn,
              Cut(c) \/ Register(c) \/ NeverRegistered(c) \/ Announce(c) \/ End(c)
       PROVE  ListsExclude'
  BY <1>3, <1>11 DEF Cut, Register, NeverRegistered, Announce, End
<1>12. ASSUME NEW a \in Agent, NEW b \in Agent, Establish(a, b) \/ GiveUp(a, b) \/ Finish(a, b)
       PROVE  ListsExclude'
  BY <1>3, <1>12 DEF Establish, GiveUp, Finish
<1>13. CASE UNCHANGED vars
  BY <1>3, <1>13 DEF vars
<1>. QED  BY <1>5, <1>6, <1>7, <1>8, <1>9, <1>10, <1>11, <1>12, <1>13 DEF Next

(* Each step keeps the lists right or somebody about to right them: the steps
   that change who is listed start a broadcast (<1>4, <1>9), a broadcast
   reaches every registered connection (<1>6), and a list that is sent is the
   right one at that moment (<1>7). *)
LEMMA SettlingStep ==
  ASSUME IInv, [Next]_vars
  PROVE  Settling'
<1>. USE Bounds
<1>1. TypeOK /\ NoDeadEntries /\ Owned /\ Settling
  BY DEF IInv
<1>2. /\ owner \in [Conn -> Agent \cup {None}] /\ phase \in [Conn -> Phase]
      /\ tell \in [Conn -> SUBSET Conn] /\ registry \in [Agent -> 0..MaxConn]
      /\ current \in [Agent -> 0..MaxConn] /\ down \in [Conn -> Seq(Notice)]
      /\ view \in [Agent -> SUBSET Agent]
      /\ 0 \notin Conn /\ 0..MaxConn = Conn \cup {0}
  BY <1>1 DEF TypeOK, Conn
<1>3. ASSUME UNCHANGED <<registry, current, view, down>>, cut \subseteq cut',
             \A c \in Conn : WillBeTold(c) => WillBeTold(c)'
      PROVE  Settling'
  BY <1>1, <1>2, <1>3 DEF Settling, Listed
<1>4. ASSUME NEW c \in Conn, Register(c) \/ Greet(c)  PROVE Settling'
  <2>1. phase'[c] \in {"greeting", "announcing"}
    BY <1>2, <1>4 DEF Register, Greet, HandlerAt
  <2>2. \A x : WillBeTold(x)'
    BY <2>1 DEF WillBeTold
  <2>. QED  BY <2>2 DEF Settling
<1>5. ASSUME NEW c \in Conn, NeverRegistered(c)  PROVE Settling'
  <2>1. /\ phase[c] = "waiting" /\ phase' = [phase EXCEPT ![c] = "left"]
        /\ UNCHANGED <<registry, current, view, down, cut, tell>>
    BY <1>5 DEF NeverRegistered, HandlerAt
  <2>2. \A x \in Conn : WillBeTold(x) => WillBeTold(x)'
    BY <1>2, <2>1 DEF WillBeTold
  <2>. QED  BY <1>3, <2>1, <2>2
<1>6. ASSUME NEW c \in Conn, Announce(c)  PROVE Settling'
  <2>1. tell' = [tell EXCEPT ![c] = Registered] /\ UNCHANGED <<registry, current>>
    BY <1>6 DEF Announce
  <2>2. \A a \in Agent : registry[a] # 0 => registry[a] \in tell'[c]
    BY <1>2, <2>1 DEF Registered, Listed
  <2>. QED  BY <2>1, <2>2 DEF Settling, WillBeTold
<1>7. ASSUME NEW c \in Conn, Tell(c)  PROVE Settling'
  <2>1. PICK t \in tell[c] : /\ down' = Sent(down, t, PeersList(owner[t]))
                             /\ tell' = [tell EXCEPT ![c] = @ \ {t}]
                             /\ UNCHANGED <<owner, phase, registry, cut, current, view>>
    BY <1>7 DEF Tell
  <2>2. SUFFICES ASSUME NEW a \in Agent, registry[a] # 0, registry[a] = current[a], current[a] \notin cut
                 PROVE  Settles(down'[current[a]], view[a], Listed \ {a}) \/ WillBeTold(current[a])'
    BY <2>1 DEF Settling, Listed
  <2>3. down \in [Conn -> Seq(Notice)] /\ t \in 0..MaxConn /\ t # 0 /\ current[a] \in Conn
    BY <1>2, <2>2
  <2>4. CASE current[a] = t
    <3>1. owner[t] = a
      BY <1>1, <2>2, <2>4 DEF Owned
    <3>. DEFINE m == PeersList(a)
                s == Sent(down, t, m)[t]
    <3>2. m \in Notice /\ m.type = "peers" /\ m.peers = Listed \ {a}
      BY <1>1, NoticesTyped
    <3>3. down' = Sent(down, t, m)
      BY <2>1, <3>1
    <3>. HIDE DEF m
    <3>4. s \in Seq(Notice) /\ Len(s) > 0 /\ s[Len(s)] = m
      BY <2>2, <2>3, <2>4, <3>2, SentDown
    <3>. HIDE DEF s
    <3>5. Settles(s, view[a], Listed \ {a})
      BY <3>2, <3>4, SettledByLast
    <3>. QED  BY <2>4, <3>3, <3>5 DEF s
  <2>5. CASE current[a] # t
    <3>1. down'[current[a]] = down[current[a]]
      BY <2>1, <2>3, <2>5, SentElsewhere
    <3>2. WillBeTold(current[a]) => WillBeTold(current[a])'
      BY <1>2, <2>1, <2>5 DEF WillBeTold
    <3>. QED  BY <1>1, <2>2, <3>1, <3>2 DEF Settling
  <2>. QED  BY <2>4, <2>5
<1>8. ASSUME NEW c \in Conn, Serve(c)  PROVE Settling'
  <2>. DEFINE t == registry[Head(up[c]).from]
              m == Forwarded(Head(up[c]), owner[c])
  <2>1. /\ up[c] \in Seq(Request) /\ up[c] # <<>> /\ phase[c] # "unused" /\ down' = Sent(down, t, m)
        /\ UNCHANGED <<owner, phase, tell, registry, cut, current, view>>
    BY <1>1, <1>8 DEF TypeOK, Serve, server
  <2>2. Head(up[c]) \in Request
    BY <2>1
  <2>3. t \in 0..MaxConn /\ owner[c] \in Agent
    BY <1>1, <1>2, <2>1, <2>2 DEF TypeOK, Owned, Request
  <2>4. m \in Notice /\ m.type # "peers"
    BY <1>1, <2>2, <2>3, NoticesTyped
  <2>5. down \in [Conn -> Seq(Notice)]
    BY <1>2
  <2>. HIDE DEF m, t
  <2>6. SUFFICES ASSUME NEW a \in Agent, registry[a] # 0, registry[a] = current[a], current[a] \notin cut
                 PROVE  Settles(down'[current[a]], view[a], Listed \ {a}) \/ WillBeTold(current[a])
    BY <2>1 DEF Settling, Listed, WillBeTold
  <2>. DEFINE x == current[a]
  <2>7. x \in Conn /\ down[x] \in Seq(Notice)
    BY <1>2, <2>6
  <2>8. down'[x] \in {down[x], Append(down[x], m)}
    <3>. HIDE DEF x
    <3>1. CASE x = t
      <4>1. t # 0
        BY <1>2, <2>7, <3>1
      <4>. QED  BY <2>1, <2>3, <2>4, <2>5, <3>1, <4>1, SentTyped
    <3>2. CASE x # t
      BY <2>1, <2>5, <2>7, <3>2, SentElsewhere
    <3>. QED  BY <3>1, <3>2
  <2>9. CASE WillBeTold(x)
    BY <2>9
  <2>10. CASE Settles(down[x], view[a], Listed \ {a})
    <3>1. Settles(Append(down[x], m), view[a], Listed \ {a})
      <4>. HIDE DEF x
      <4>. QED  BY <2>4, <2>7, <2>10, SettledBefore
    <3>. QED  BY <2>8, <2>10, <3>1
  <2>. QED  BY <1>1, <2>6, <2>9, <2>10 DEF Settling
<1>9. ASSUME NEW c \in Conn, End(c)  PROVE Settling'
  <2>1. /\ registry' = [registry EXCEPT ![owner[c]] = 0]
        /\ tell' = [tell EXCEPT ![c] = Registered \ {registry[owner[c]]}]
        /\ UNCHANGED current
        /\ phase[c] = "serving"
    BY <1>9 DEF End, HandlerAt
  <2>2. owner[c] \in Agent
    BY <1>1, <1>2, <2>1 DEF Owned
  <2>3. ASSUME NEW a \in Agent, registry'[a] # 0  PROVE registry'[a] \in tell'[c]
    <3>1. a # owner[c] /\ registry'[a] = registry[a]
      BY <1>2, <2>1, <2>2, <2>3
    <3>2. registry[a] \in Registered
      BY <2>3, <3>1 DEF Registered, Listed
    <3>3. registry[a] # registry[owner[c]]
      BY <1>1, <2>2, <2>3, <3>1 DEF NoDeadEntries
    <3>. QED  BY <1>2, <2>1, <3>1, <3>2, <3>3
  <2>. QED  BY <2>1, <2>3 DEF Settling, WillBeTold
<1>10. ASSUME NEW b \in Agent, Connect(b)  PROVE Settling'
  <2>1. PICK c \in Conn : /\ owner[c] = None /\ owner' = [owner EXCEPT ![c] = b]
                          /\ phase' = [phase EXCEPT ![c] = "waiting"]
                          /\ current' = [current EXCEPT ![b] = c]
                          /\ UNCHANGED <<tell, registry, down, cut, view>>
    BY <1>10 DEF Connect
  <2>2. registry[b] # c
    BY <1>1, <1>2, <2>1 DEF NoDeadEntries
  <2>3. phase[c] = "unused"
    BY <1>1, <2>1 DEF Owned
  <2>. SUFFICES ASSUME NEW a \in Agent, registry[a] # 0, registry[a] = current'[a], current'[a] \notin cut
                PROVE  Settles(down[current'[a]], view[a], Listed \ {a}) \/ WillBeTold(current[a])'
    BY <2>1 DEF Settling, Listed
  <2>4. current'[a] = current[a] /\ current[a] \in Conn
    BY <1>2, <2>1, <2>2
  <2>5. Settles(down[current[a]], view[a], Listed \ {a}) \/ WillBeTold(current[a])
    BY <1>1, <2>4 DEF Settling
  <2>6. WillBeTold(current[a]) => WillBeTold(current[a])'
    BY <1>2, <2>1, <2>3, <2>4 DEF WillBeTold
  <2>. QED  BY <2>4, <2>5, <2>6
<1>11. ASSUME NEW b \in Agent, NoticeCut(b) \/ RestartClient(b)  PROVE Settling'
  <2>1. /\ current' = [current EXCEPT ![b] = 0]
        /\ down' = [down EXCEPT ![current[b]] = <<>>]
        /\ view' = view \/ view' = [view EXCEPT ![b] = {}]
        /\ cut \subseteq cut' /\ UNCHANGED <<phase, tell, registry>>
    BY <1>11 DEF NoticeCut, RestartClient, Hangup, Breaks, server
  <2>2. ASSUME NEW a \in Agent, registry[a] # 0, registry[a] = current'[a], current'[a] \notin cut'
        PROVE  Settles(down'[current'[a]], view'[a], Listed \ {a}) \/ WillBeTold(current'[a])
    <3>1. a # b /\ current'[a] = current[a] /\ view'[a] = view[a]
      BY <1>2, <2>1, <2>2
    <3>2. current[a] \in Conn /\ current[a] # current[b]
      BY <1>1, <1>2, <2>2, <3>1 DEF Owned
    <3>3. down'[current[a]] = down[current[a]]
      BY <1>2, <2>1, <3>2
    <3>. QED  BY <1>1, <2>1, <2>2, <3>1, <3>3 DEF Settling
  <2>. QED  BY <2>1, <2>2 DEF Settling, Listed, WillBeTold
<1>12. ASSUME NEW b \in Agent, NEW m \in Readable(b), Take(b),
              IF m.type = "peers" THEN view' = [view EXCEPT ![b] = m.peers] ELSE UNCHANGED view,
              UNCHANGED <<phase, tell, registry, cut, current>>
       PROVE  Settling'
  <2>1. /\ current[b] \in Conn /\ down[current[b]] \in Seq(Notice) /\ down[current[b]] # <<>>
        /\ m = Head(down[current[b]]) /\ owner[current[b]] = b
    BY <1>1, <1>2, ReadableIs DEF Owned
  <2>2. down' = [down EXCEPT ![current[b]] = Tail(@)]
    BY <1>12 DEF Take
  <2>3. ASSUME NEW a \in Agent, registry[a] # 0, registry[a] = current[a], current[a] \notin cut
        PROVE  Settles(down'[current[a]], view'[a], Listed \ {a}) \/ WillBeTold(current[a])
    <3>1. Settles(down[current[a]], view[a], Listed \ {a}) \/ WillBeTold(current[a])
      BY <1>1, <2>3 DEF Settling
    <3>2. CASE a = b
      <4>. DEFINE s == down[current[b]]
                  w == IF Head(s).type = "peers" THEN Head(s).peers ELSE view[b]
      <4>1. down'[current[b]] = Tail(s) /\ view'[b] = w
        BY <1>2, <1>12, <2>1, <2>2
      <4>2. Settles(s, view[b], Listed \ {b}) => Settles(Tail(s), w, Listed \ {b})
        <5>. HIDE DEF s
        <5>. QED  BY <2>1, SettledByReading DEF s
      <4>. QED  BY <3>1, <3>2, <4>1, <4>2
    <3>3. CASE a # b
      <4>1. current[a] # current[b] /\ current[a] \in Conn
        BY <1>1, <1>2, <2>1, <2>3, <3>3 DEF Owned
      <4>2. down'[current[a]] = down[current[a]] /\ view'[a] = view[a]
        BY <1>2, <1>12, <2>2, <3>3, <4>1
      <4>. QED  BY <3>1, <4>2
    <3>. QED  BY <3>2, <3>3
  <2>. QED  BY <1>12, <2>3 DEF Settling, Listed, WillBeTold
<1>13. ASSUME NEW b \in Agent, ReadPeers(b) \/ ReadRequest(b) \/ ReadReady(b)  PROVE Settling'
  BY <1>12, <1>13 DEF ReadPeers, ReadRequest, ReadReady, server
<1>14. ASSUME UNCHANGED <<registry, current, view, down, phase, tell>>, cut \subseteq cut'
       PROVE  Settling'
  BY <1>3, <1>14 DEF WillBeTold
<1>15. ASSUME NEW c \in Conn, Cut(c)  PROVE Settling'
  BY <1>14, <1>15 DEF Cut, Breaks, server
<1>16. ASSUME NEW a \in Agent, NEW b \in Agent, Establish(a, b) \/ GiveUp(a, b) \/ Finish(a, b)
       PROVE  Settling'
  BY <1>14, <1>16 DEF Establish, GiveUp, Finish, server
<1>17. CASE UNCHANGED vars
  BY <1>14, <1>17 DEF vars, server
<1>. QED  BY <1>4, <1>5, <1>6, <1>7, <1>8, <1>9, <1>10, <1>11, <1>13, <1>15, <1>16, <1>17 DEF Next

------------------------------------------------------------------------------
(* The inductive invariant of the relay. *)
THEOREM Invariance == Spec => []IInv
<1>1. IInv /\ [Next]_vars => IInv'
  BY TypeStep, OwnedStep, ListsStep, SettlingStep DEF IInv
<1>. QED  BY InitInv, <1>1, PTL DEF Spec

(* Type correctness, with no agent on its own list of peers. *)
THEOREM TypeCorrect == Spec => []TypeOK
<1>1. IInv => TypeOK
  BY DEF IInv
<1>. QED  BY Invariance, <1>1, PTL

(* _handle_client and _wait_register: whichever handlers of an agent overlap,
   the registry names only a connection that is still served. *)
THEOREM RegistryServed == Spec => []NoDeadEntries
<1>1. IInv => NoDeadEntries
  BY DEF IInv
<1>. QED  BY Invariance, <1>1, PTL

(* _broadcast_peers_update: when every handler rests and every list is read,
   each registered agent knows exactly the others. *)
THEOREM ListsSettle == Spec => []PeersSettle
<1>1. IInv => PeersSettle
  <2>. SUFFICES ASSUME IInv, HandlersRest, ListsRead,
                       NEW a \in Agent, registry[a] # 0, registry[a] = current[a]
                PROVE  view[a] = Listed \ {a}
    BY DEF PeersSettle
  <2>. DEFINE c == current[a]
  <2>1. c \in Conn /\ c # 0
    BY Bounds DEF IInv, TypeOK, Conn
  <2>2. phase[c] \in {"greeting", "announcing", "serving"}
    BY DEF IInv, NoDeadEntries
  <2>3. c \notin cut /\ ~WillBeTold(c)
    BY <2>1, <2>2 DEF HandlersRest, WillBeTold
  <2>4. Settles(down[c], view[a], Listed \ {a})
    BY <2>3 DEF IInv, Settling
  <2>. QED  BY <2>1, <2>4 DEF ListsRead, Settles
<1>. QED  BY Invariance, <1>1, PTL
------------------------------------------------------------------------------
(* E2E keys. *)

(* Where a channel carries messages of type t that name agent b, on the
   connections an agent a has by own. *)
Places(own, channel, t, a, b) ==
  {p \in Conn \X Nat :
     /\ own[p[1]] = a /\ p[2] \in DOMAIN channel[p[1]]
     /\ channel[p[1]][p[2]].type = t /\ channel[p[1]][p[2]].from = b}

(* The keys these messages bring. *)
Carried(own, channel, t, a, b) ==
  {channel[p[1]][p[2]].key : p \in Places(own, channel, t, a, b)}

AtMostOne(S) == \A p, q \in S : p = q

(* The request of a to b, up to the server and down to b; the answer of b, up to
   the server and down to a. *)
InitsAt(a, b) == Places(owner, up, "e2e_init", a, b)
RequestsAt(a, b) == Places(owner, down, "e2e_req", b, a)
Inits(a, b) == Carried(owner, up, "e2e_init", a, b)
Requests(a, b) == Carried(owner, down, "e2e_req", b, a)
Accepts(a, b) == Carried(owner, up, "e2e_accept", b, a)
Readies(a, b) == Carried(owner, down, "e2e_ready", a, b)

(* Before a has tried, nothing of an exchange of its is there. *)
Untried(a, b) ==
  /\ tries[a][b] = 0 =>
       /\ Inits(a, b) = {} /\ Requests(a, b) = {}
       /\ Accepts(a, b) = {} /\ Readies(a, b) = {}
       /\ pending[a][b] = NoAttempt
  /\ tries[a][b] = 0 /\ tries[b][a] = 0 => session[a][b] = NoAttempt

OnlyTry(a, b) == tries[a][b] = 1 /\ tries[b][a] = 0 /\ {a, b} \cap restarted = {}

(* The only request of a to b is in one place, and as long as it is, there is
   nothing else: it is answered once.  What is on its way back, or has come, is
   the key of the session that b made of it. *)
Exchange(a, b) ==
  /\ AtMostOne(InitsAt(a, b)) /\ AtMostOne(RequestsAt(a, b))
  /\ Inits(a, b) = {} \/ Requests(a, b) = {}
  /\ \A k \in Inits(a, b) \cup Requests(a, b) :
       /\ Accepts(a, b) = {} /\ Readies(a, b) = {}
       /\ session[a][b] = NoAttempt /\ session[b][a] = NoAttempt
       /\ pending[a][b].peer = 0 /\ pending[a][b].own \in {0, k}
  /\ \A k \in Accepts(a, b) \cup Readies(a, b) :
       session[b][a] # NoAttempt /\ session[b][a].peer = k
  /\ pending[a][b].own # 0 /\ session[b][a] # NoAttempt => session[b][a].own = pending[a][b].own
  /\ pending[a][b].peer # 0 => pending[a][b] = session[b][a]
  /\ session[a][b] # NoAttempt => session[a][b] = session[b][a]

Agreed(a, b) == Untried(a, b) /\ (OnlyTry(a, b) => Exchange(a, b))

(* A registration names the agent that sends it. *)
OwnRegistrations ==
  \A c \in Conn : \A i \in DOMAIN up[c] : up[c][i].type = "register" => up[c][i].from = owner[c]

(* SharedKey is not inductive: Agreed says where the request and the answer
   are, and with which key, from the first attempt to the end of it. *)
KeyInv ==
  /\ IInv
  /\ OwnRegistrations
  /\ \A a, b \in Agent : a # b => Agreed(a, b)

(* A change of a channel brings no key and no second copy of a message. *)
Fewer(own, new, old, t, a, b) ==
  /\ Carried(own, new, t, a, b) \subseteq Carried(own, old, t, a, b)
  /\ AtMostOne(Places(own, old, t, a, b)) => AtMostOne(Places(own, new, t, a, b))

(* Where there is no such message there is no key of one. *)
LEMMA NothingCarried ==
  ASSUME NEW own, NEW ch, NEW t, NEW a, NEW b
  PROVE  Carried(own, ch, t, a, b) = {} <=> Places(own, ch, t, a, b) = {}
BY DEF Carried

(* What is known of a message from its place. *)
LEMMA PlaceIs ==
  ASSUME NEW own, NEW ch, NEW t, NEW a, NEW b, NEW p \in Places(own, ch, t, a, b)
  PROVE  /\ p[1] \in Conn /\ p[2] \in Nat /\ p = <<p[1], p[2]>>
         /\ own[p[1]] = a /\ p[2] \in DOMAIN ch[p[1]]
         /\ ch[p[1]][p[2]].type = t /\ ch[p[1]][p[2]].from = b
         /\ ch[p[1]][p[2]].key \in Carried(own, ch, t, a, b)
BY DEF Places, Carried

(* A message is at its place. *)
LEMMA PlaceOf ==
  ASSUME NEW own, NEW ch, NEW t, NEW a, NEW b, NEW c \in Conn, NEW i \in Nat,
         own[c] = a, i \in DOMAIN ch[c], ch[c][i].type = t, ch[c][i].from = b
  PROVE  /\ <<c, i>> \in Places(own, ch, t, a, b)
         /\ ch[c][i].key \in Carried(own, ch, t, a, b)
<1>. DEFINE p == <<c, i>>
<1>1. p \in Conn \X Nat /\ p[1] = c /\ p[2] = i
  OBVIOUS
<1>. HIDE DEF p
<1>2. p \in Places(own, ch, t, a, b)
  BY <1>1 DEF Places
<1>3. ch[p[1]][p[2]].key \in Carried(own, ch, t, a, b)
  BY <1>2 DEF Carried
<1>. QED  BY <1>1, <1>2, <1>3 DEF p

(* A step after which each message stands where it, or the one behind it, stood
   brings nothing new. *)
LEMMA FewerByPlaces ==
  ASSUME NEW own, NEW new, NEW old, NEW t, NEW a, NEW b,
         \A p \in Places(own, new, t, a, b) :
            p \in Places(own, old, t, a, b) /\ new[p[1]][p[2]].key = old[p[1]][p[2]].key
  PROVE  Fewer(own, new, old, t, a, b)
<1>1. AtMostOne(Places(own, old, t, a, b)) => AtMostOne(Places(own, new, t, a, b))
  BY DEF AtMostOne
<1>2. ASSUME NEW k \in Carried(own, new, t, a, b)  PROVE k \in Carried(own, old, t, a, b)
  <2>1. PICK p \in Places(own, new, t, a, b) : k = new[p[1]][p[2]].key
    BY <1>2 DEF Carried
  <2>2. k = old[p[1]][p[2]].key /\ p \in Places(own, old, t, a, b)
    BY <2>1
  <2>. QED  BY <2>2 DEF Carried
<1>. QED  BY <1>1, <1>2 DEF Fewer

(* A channel is emptied, as when its end is closed. *)
LEMMA ClearedFewer ==
  ASSUME NEW S, NEW own, NEW ch \in [Conn -> Seq(S)], NEW c, NEW t, NEW a, NEW b
  PROVE  Fewer(own, [ch EXCEPT ![c] = <<>>], ch, t, a, b)
<1>. DEFINE new == [ch EXCEPT ![c] = <<>>]
<1>1. ASSUME NEW p \in Places(own, new, t, a, b)
      PROVE  p \in Places(own, ch, t, a, b) /\ new[p[1]][p[2]].key = ch[p[1]][p[2]].key
  <2>1. p[1] \in Conn /\ p[2] \in DOMAIN new[p[1]]
    BY PlaceIs
  <2>2. new[p[1]] = ch[p[1]]
    <3>1. CASE p[1] = c
      <4>1. new[p[1]] = <<>>
        BY <2>1, <3>1
      <4>2. DOMAIN new[p[1]] = {}
        BY <4>1
      <4>. QED  BY <2>1, <4>2
    <3>2. CASE p[1] # c
      BY <2>1, <3>2
    <3>. QED  BY <3>1, <3>2
  <2>. HIDE DEF new
  <2>. QED  BY <2>2 DEF Places
<1>. QED  BY <1>1, FewerByPlaces

(* The first message is taken off a channel; if it was the only one of its
   kind, none is left. *)
LEMMA TakenFewer ==
  ASSUME NEW S, NEW own, NEW ch \in [Conn -> Seq(S)], NEW c \in Conn, ch[c] # <<>>,
         NEW t, NEW a, NEW b
  PROVE  /\ Fewer(own, [ch EXCEPT ![c] = Tail(@)], ch, t, a, b)
         /\ own[c] = a /\ Head(ch[c]).type = t /\ Head(ch[c]).from = b =>
              /\ Head(ch[c]).key \in Carried(own, ch, t, a, b)
              /\ AtMostOne(Places(own, ch, t, a, b))
                   => Carried(own, [ch EXCEPT ![c] = Tail(@)], t, a, b) = {}
<1>. DEFINE new == [ch EXCEPT ![c] = Tail(@)]
            old(p) == IF p[1] = c THEN <<c, p[2] + 1>> ELSE p
<1>1. /\ ch[c] \in Seq(S) /\ Len(ch[c]) \in Nat /\ DOMAIN ch[c] = 1..Len(ch[c])
      /\ new[c] = Tail(ch[c]) /\ DOMAIN new[c] = 1..(Len(ch[c]) - 1)
      /\ \A i \in DOMAIN new[c] : new[c][i] = ch[c][i + 1]
      /\ Head(ch[c]) = ch[c][1] /\ 1 \in DOMAIN ch[c]
      /\ \A d \in Conn \ {c} : new[d] = ch[d]
  OBVIOUS
<1>. HIDE DEF new
<1>2. ASSUME NEW p \in Places(own, new, t, a, b)
      PROVE  /\ old(p) \in Places(own, ch, t, a, b)
             /\ new[p[1]][p[2]].key = ch[old(p)[1]][old(p)[2]].key
             /\ old(p)[1] = p[1]
             /\ p[1] = c => old(p)[2] = p[2] + 1 /\ p[2] + 1 # 1
             /\ p[1] # c => old(p) = p
  <2>1. /\ p[1] \in Conn /\ p[2] \in Nat /\ own[p[1]] = a /\ p[2] \in DOMAIN new[p[1]]
        /\ new[p[1]][p[2]].type = t /\ new[p[1]][p[2]].from = b
    BY PlaceIs
  <2>2. CASE p[1] = c
    <3>1. new[p[1]][p[2]] = ch[c][p[2] + 1] /\ p[2] + 1 \in DOMAIN ch[c] /\ p[2] # 0
      <4>1. p[2] \in DOMAIN new[c]
        BY <2>1, <2>2
      <4>2. new[c][p[2]] = ch[c][p[2] + 1]
        BY <1>1, <4>1
      <4>3. p[2] \in 1..(Len(ch[c]) - 1)
        BY <1>1, <4>1
      <4>4. p[2] + 1 \in 1..Len(ch[c]) /\ p[2] # 0
        BY <1>1, <2>1, <4>3
      <4>. QED  BY <1>1, <2>2, <4>2, <4>4
    <3>2. <<c, p[2] + 1>> \in Places(own, ch, t, a, b)
      BY <2>1, <2>2, <3>1, PlaceOf
    <3>. QED  BY <2>1, <2>2, <3>1, <3>2
  <2>3. CASE p[1] # c
    <3>1. new[p[1]] = ch[p[1]]
      BY <1>1, <2>1, <2>3
    <3>2. p \in Places(own, ch, t, a, b)
      BY <2>1, <3>1 DEF Places
    <3>. QED  BY <2>3, <3>1, <3>2
  <2>. QED  BY <2>2, <2>3
<1>. HIDE DEF old
<1>3. Carried(own, new, t, a, b) \subseteq Carried(own, ch, t, a, b)
  BY <1>2 DEF Carried
<1>4. ASSUME AtMostOne(Places(own, ch, t, a, b))  PROVE AtMostOne(Places(own, new, t, a, b))
  <2>. SUFFICES ASSUME NEW p \in Places(own, new, t, a, b), NEW q \in Places(own, new, t, a, b)
                PROVE  p = q
    BY DEF AtMostOne
  <2>1. old(p) = old(q)
    BY <1>2, <1>4 DEF AtMostOne
  <2>2. p[1] = q[1] /\ p[2] \in Nat /\ q[2] \in Nat /\ p = <<p[1], p[2]>> /\ q = <<q[1], q[2]>>
    BY <1>2, <2>1, PlaceIs
  <2>3. CASE p[1] = c
    <3>1. p[2] + 1 = q[2] + 1
      BY <1>2, <2>1, <2>2, <2>3
    <3>2. p[2] = q[2]
      BY <2>2, <3>1
    <3>. QED  BY <2>2, <3>2
  <2>4. CASE p[1] # c
    BY <1>2, <2>1, <2>2, <2>4
  <2>. QED  BY <2>3, <2>4
<1>5. ASSUME own[c] = a, Head(ch[c]).type = t, Head(ch[c]).from = b
      PROVE  /\ Head(ch[c]).key \in Carried(own, ch, t, a, b)
             /\ AtMostOne(Places(own, ch, t, a, b)) => Carried(own, new, t, a, b) = {}
  <2>1. <<c, 1>> \in Places(own, ch, t, a, b) /\ Head(ch[c]).key \in Carried(own, ch, t, a, b)
    <3>1. 1 \in Nat /\ 1 \in DOMAIN ch[c] /\ ch[c][1].type = t /\ ch[c][1].from = b
      BY <1>1, <1>5
    <3>2. <<c, 1>> \in Places(own, ch, t, a, b) /\ ch[c][1].key \in Carried(own, ch, t, a, b)
      BY <1>5, <3>1, PlaceOf
    <3>. QED  BY <1>1, <3>2
  <2>2. ASSUME AtMostOne(Places(own, ch, t, a, b)), NEW p \in Places(own, new, t, a, b)
        PROVE  FALSE
    <3>1. old(p) = <<c, 1>>
      BY <1>2, <2>1, <2>2 DEF AtMostOne
    <3>2. old(p)[1] = c /\ old(p)[2] = 1
      BY <3>1
    <3>. QED  BY <1>2, <3>2
  <2>. QED  BY <2>1, <2>2, NothingCarried
<1>. QED  BY <1>3, <1>4, <1>5 DEF Fewer, new

(* A message that is sent is the only one of its kind if there was none, and
   changes nothing about those of another kind, agent or name. *)
LEMMA SentPlaces ==
  ASSUME NEW S, NEW own, NEW ch \in [Conn -> Seq(S)], NEW c \in 0..MaxConn, NEW m,
         NEW t, NEW a, NEW b, t # "peers"
  PROVE  /\ m.type # t \/ m.from # b \/ (c # 0 /\ own[c] # a)
              => Fewer(own, Sent(ch, c, m), ch, t, a, b)
         /\ Carried(own, Sent(ch, c, m), t, a, b) \subseteq Carried(own, ch, t, a, b) \cup {m.key}
         /\ Carried(own, ch, t, a, b) = {} => AtMostOne(Places(own, Sent(ch, c, m), t, a, b))
<1>. DEFINE new == Sent(ch, c, m)
<1>1. CASE c = 0 \/ c \in cut
  <2>1. new = ch
    BY <1>1 DEF Sent
  <2>. QED  BY <2>1, NothingCarried DEF Fewer, AtMostOne
<1>2. CASE c # 0 /\ c \notin cut
  <2>. DEFINE s == IF Overtakes(m, ch[c]) THEN Front(ch[c]) ELSE ch[c]
              n == Len(s) + 1
  <2>1. c \in Conn /\ ch[c] \in Seq(S)
    BY <1>2, Bounds DEF Conn
  <2>2. /\ s \in Seq(S) /\ Len(s) \in Nat
        /\ \A i \in DOMAIN s : i \in DOMAIN ch[c] /\ s[i] = ch[c][i]
    BY <2>1, FrontOf DEF Overtakes
  <2>3. new = [ch EXCEPT ![c] = Append(s, m)]
    BY <1>2, <2>1 DEF Sent
  <2>. HIDE DEF s
  <2>4. /\ DOMAIN Append(s, m) = 1..n /\ n \in Nat
        /\ Append(s, m)[n] = m
        /\ \A i \in 1..n : i # n => i \in DOMAIN s /\ Append(s, m)[i] = s[i]
    BY <2>2
  <2>5. new[c] = Append(s, m) /\ \A d \in Conn \ {c} : new[d] = ch[d]
    BY <2>1, <2>3
  <2>. HIDE DEF n, new
  <2>6. ASSUME NEW p \in Places(own, new, t, a, b)
        PROVE  \/ p \in Places(own, ch, t, a, b) /\ new[p[1]][p[2]].key = ch[p[1]][p[2]].key
               \/ /\ p = <<c, n>> /\ new[p[1]][p[2]].key = m.key
                  /\ own[c] = a /\ m.type = t /\ m.from = b
    <3>1. /\ p[1] \in Conn /\ p[2] \in Nat /\ own[p[1]] = a /\ p[2] \in DOMAIN new[p[1]]
          /\ new[p[1]][p[2]].type = t /\ new[p[1]][p[2]].from = b /\ p = <<p[1], p[2]>>
      BY PlaceIs
    <3>2. CASE p[1] # c
      <4>1. new[p[1]] = ch[p[1]]
        BY <2>5, <3>1, <3>2
      <4>. QED  BY <3>1, <4>1 DEF Places
    <3>3. CASE p[1] = c /\ p[2] # n
      <4>1. p[2] \in DOMAIN ch[c] /\ new[p[1]][p[2]] = ch[p[1]][p[2]]
        BY <2>2, <2>4, <2>5, <3>1, <3>3
      <4>2. p \in Places(own, ch, t, a, b)
        BY <3>1, <3>3, <4>1, PlaceOf
      <4>. QED  BY <4>1, <4>2
    <3>4. CASE p[1] = c /\ p[2] = n
      <4>1. new[p[1]][p[2]] = m
        BY <2>4, <2>5, <3>4
      <4>. QED  BY <3>1, <3>4, <4>1
    <3>. QED  BY <3>2, <3>3, <3>4
  <2>7. m.type # t \/ m.from # b \/ own[c] # a => Fewer(own, new, ch, t, a, b)
    BY <2>6, FewerByPlaces
  <2>8. Carried(own, new, t, a, b) \subseteq Carried(own, ch, t, a, b) \cup {m.key}
    BY <2>6 DEF Carried
  <2>9. Carried(own, ch, t, a, b) = {} => AtMostOne(Places(own, new, t, a, b))
    BY <2>6, NothingCarried DEF AtMostOne
  <2>. QED  BY <1>2, <2>7, <2>8, <2>9 DEF new
<1>. QED  BY <1>1, <1>2

(* A channel that stays as it is. *)
LEMMA SameFewer ==
  ASSUME NEW own, NEW ch, NEW t, NEW a, NEW b
  PROVE  Fewer(own, ch, ch, t, a, b)
BY DEF Fewer

------------------------------------------------------------------------------
(* The steps. *)

Kind == {"e2e_init", "e2e_accept", "e2e_req", "e2e_ready"}

(* What a pair of agents sees of the channels after a step. *)
LEMMA PairSees ==
  ASSUME owner' = owner, NEW a, NEW b
  PROVE  /\ Inits(a, b)' = Carried(owner, up', "e2e_init", a, b)
         /\ InitsAt(a, b)' = Places(owner, up', "e2e_init", a, b)
         /\ Requests(a, b)' = Carried(owner, down', "e2e_req", b, a)
         /\ RequestsAt(a, b)' = Places(owner, down', "e2e_req", b, a)
         /\ Accepts(a, b)' = Carried(owner, up', "e2e_accept", b, a)
         /\ Readies(a, b)' = Carried(owner, down', "e2e_ready", a, b)
<1>1. /\ Inits(a, b)' = Carried(owner', up', "e2e_init", a, b)
      /\ InitsAt(a, b)' = Places(owner', up', "e2e_init", a, b)
      /\ Requests(a, b)' = Carried(owner', down', "e2e_req", b, a)
      /\ RequestsAt(a, b)' = Places(owner', down', "e2e_req", b, a)
      /\ Accepts(a, b)' = Carried(owner', up', "e2e_accept", b, a)
      /\ Readies(a, b)' = Carried(owner', down', "e2e_ready", a, b)
  BY DEF Inits, InitsAt, Requests, RequestsAt, Accepts, Readies, Places, Carried
<1>. QED  BY <1>1

(* Nothing new is on the channels for a and b. *)
Calm(a, b) ==
  /\ Inits(a, b)' \subseteq Inits(a, b)
  /\ AtMostOne(InitsAt(a, b)) => AtMostOne(InitsAt(a, b)')
  /\ Requests(a, b)' \subseteq Requests(a, b)
  /\ AtMostOne(RequestsAt(a, b)) => AtMostOne(RequestsAt(a, b)')
  /\ Accepts(a, b)' \subseteq Accepts(a, b)
  /\ Readies(a, b)' \subseteq Readies(a, b)

(* The same from what happened to the channels. *)
LEMMA CalmChannels ==
  ASSUME owner' = owner, NEW a, NEW b,
         Fewer(owner, up', up, "e2e_init", a, b), Fewer(owner, up', up, "e2e_accept", b, a),
         Fewer(owner, down', down, "e2e_req", b, a), Fewer(owner, down', down, "e2e_ready", a, b)
  PROVE  Calm(a, b)
<1>1. /\ Carried(owner, up', "e2e_init", a, b) \subseteq Inits(a, b)
      /\ AtMostOne(InitsAt(a, b)) => AtMostOne(Places(owner, up', "e2e_init", a, b))
  BY DEF Fewer, Inits, InitsAt
<1>2. /\ Carried(owner, down', "e2e_req", b, a) \subseteq Requests(a, b)
      /\ AtMostOne(RequestsAt(a, b)) => AtMostOne(Places(owner, down', "e2e_req", b, a))
  BY DEF Fewer, Requests, RequestsAt
<1>3. /\ Inits(a, b)' \subseteq Inits(a, b)
      /\ AtMostOne(InitsAt(a, b)) => AtMostOne(InitsAt(a, b)')
  BY <1>1, PairSees
<1>4. /\ Requests(a, b)' \subseteq Requests(a, b)
      /\ AtMostOne(RequestsAt(a, b)) => AtMostOne(RequestsAt(a, b)')
  BY <1>2, PairSees
<1>5. Accepts(a, b)' \subseteq Accepts(a, b)
  <2>1. Carried(owner, up', "e2e_accept", b, a) \subseteq Accepts(a, b)
    BY DEF Fewer, Accepts
  <2>. QED  BY <2>1, PairSees
<1>6. Readies(a, b)' \subseteq Readies(a, b)
  <2>1. Carried(owner, down', "e2e_ready", a, b) \subseteq Readies(a, b)
    BY DEF Fewer, Readies
  <2>. QED  BY <2>1, PairSees
<1>. QED  BY <1>3, <1>4, <1>5, <1>6 DEF Calm

(* A pair for which nothing new is on the channels, no attempt begins and no
   session is made stays as it was; an attempt may be given up, and an agent that
   starts again forgets. *)
LEMMA Undisturbed ==
  ASSUME NEW a \in Agent, NEW b \in Agent, Agreed(a, b), Calm(a, b),
         tries'[a][b] = tries[a][b], tries'[b][a] = tries[b][a], restarted \subseteq restarted',
         pending'[a][b] \in {pending[a][b], NoAttempt},
         session'[a][b] = session[a][b] \/ (session'[a][b] = NoAttempt /\ a \in restarted'),
         session'[b][a] = session[b][a] \/ (session'[b][a] = NoAttempt /\ b \in restarted')
  PROVE  Agreed(a, b)'
<1>1. Untried(a, b)'
  <2>1. /\ Untried(a, b) /\ Inits(a, b)' \subseteq Inits(a, b)
        /\ Requests(a, b)' \subseteq Requests(a, b)
        /\ Accepts(a, b)' \subseteq Accepts(a, b) /\ Readies(a, b)' \subseteq Readies(a, b)
    BY DEF Agreed, Calm
  <2>. QED  BY <2>1 DEF Untried
<1>2. ASSUME OnlyTry(a, b)'  PROVE Exchange(a, b)'
  <2>1. OnlyTry(a, b)
    BY <1>2 DEF OnlyTry
  <2>2. session'[a][b] = session[a][b] /\ session'[b][a] = session[b][a]
    BY <1>2 DEF OnlyTry
  <2>3. Exchange(a, b)
    BY <2>1 DEF Agreed
  <2>4. NoAttempt.own = 0 /\ NoAttempt.peer = 0
    BY DEF NoAttempt
  <2>. QED  BY <2>2, <2>3, <2>4 DEF Exchange, Calm
<1>. QED  BY <1>1, <1>2 DEF Agreed

(* A step that only takes messages away, of whatever pair. *)
LEMMA QuietStep ==
  ASSUME \A a, b \in Agent : a # b => Agreed(a, b),
         owner' = owner, UNCHANGED keys,
         \A t \in Kind : \A a, b \in Agent :
            Fewer(owner, up', up, t, a, b) /\ Fewer(owner, down', down, t, a, b)
  PROVE  \A a, b \in Agent : a # b => Agreed(a, b)'
<1>. SUFFICES ASSUME NEW a \in Agent, NEW b \in Agent, a # b  PROVE Agreed(a, b)'
  OBVIOUS
<1>1. Calm(a, b)
  BY CalmChannels DEF Kind
<1>. QED  BY <1>1, Undisturbed DEF keys

(* A client and its connection. *)
LEMMA InUse ==
  ASSUME IInv, NEW a \in Agent
  PROVE  /\ current[a] \in 0..MaxConn
         /\ current[a] # 0 => current[a] \in Conn /\ owner[current[a]] = a
BY Bounds DEF IInv, TypeOK, Owned, Conn

(* Registrations stay those of their agents. *)
LEMMA RegistrationsStep ==
  ASSUME IInv, OwnRegistrations, [Next]_vars
  PROVE  OwnRegistrations'
<1>1. /\ up \in [Conn -> Seq(Request)] /\ owner \in [Conn -> Agent \cup {None}]
      /\ current \in [Agent -> 0..MaxConn]
  BY DEF IInv, TypeOK
<1>2. ASSUME owner' = owner, NEW c \in Conn, up' = [up EXCEPT ![c] = <<>>]
      PROVE  OwnRegistrations'
  <2>1. up'[c] = <<>> /\ \A d \in Conn \ {c} : up'[d] = up[d]
    BY <1>1, <1>2
  <2>2. DOMAIN up'[c] = {}
    BY <2>1
  <2>. QED  BY <1>2, <2>1, <2>2 DEF OwnRegistrations
<1>3. ASSUME owner' = owner, NEW c \in Conn, up[c] # <<>>, up' = [up EXCEPT ![c] = Tail(@)]
      PROVE  OwnRegistrations'
  <2>1. /\ up[c] \in Seq(Request) /\ up'[c] = Tail(up[c])
        /\ \A d \in Conn \ {c} : up'[d] = up[d]
    BY <1>1, <1>3
  <2>2. \A i \in DOMAIN Tail(up[c]) : i + 1 \in DOMAIN up[c] /\ Tail(up[c])[i] = up[c][i + 1]
    BY <1>3, <2>1
  <2>. QED  BY <1>3, <2>1, <2>2 DEF OwnRegistrations
<1>4. ASSUME owner' = owner, NEW c \in 0..MaxConn, NEW m \in Request, m.type # "register",
             up' = Sent(up, c, m)
      PROVE  OwnRegistrations'
  <2>1. \A d \in Conn : \A i \in DOMAIN up'[d] :
           \/ i \in DOMAIN up[d] /\ up'[d][i] = up[d][i]
           \/ d = c /\ up'[d][i] = m
    BY <1>1, <1>4, SentTyped
  <2>. QED  BY <1>4, <2>1 DEF OwnRegistrations
<1>5. ASSUME UNCHANGED <<owner, up>>  PROVE OwnRegistrations'
  BY <1>5 DEF OwnRegistrations
<1>6. ASSUME NEW c \in Conn, Register(c) \/ Serve(c)  PROVE OwnRegistrations'
  BY <1>3, <1>6 DEF Register, Serve
<1>7. ASSUME NEW c \in Conn, NeverRegistered(c) \/ End(c)  PROVE OwnRegistrations'
  BY <1>2, <1>7 DEF NeverRegistered, End
<1>8. ASSUME NEW c \in Conn, Cut(c) \/ Greet(c) \/ Announce(c) \/ Tell(c)  PROVE OwnRegistrations'
  BY <1>5, <1>8 DEF Cut, Greet, Announce, Tell
<1>9. ASSUME NEW a \in Agent, Connect(a)  PROVE OwnRegistrations'
  <2>1. PICK c \in Conn : /\ owner' = [owner EXCEPT ![c] = a]
                          /\ up' = [up EXCEPT ![c] = <<E2E("register", a, 0)>>]
    BY <1>9 DEF Connect
  <2>2. /\ up'[c] = <<E2E("register", a, 0)>> /\ owner'[c] = a
        /\ \A d \in Conn \ {c} : up'[d] = up[d] /\ owner'[d] = owner[d]
    BY <1>1, <2>1
  <2>3. E2E("register", a, 0).from = a
    BY DEF E2E
  <2>4. \A i \in DOMAIN up'[c] : up'[c][i] = E2E("register", a, 0)
    BY <2>2
  <2>. QED  BY <2>2, <2>3, <2>4 DEF OwnRegistrations
<1>10. ASSUME NEW a \in Agent, NoticeCut(a) \/ RestartClient(a) \/ ReadPeers(a) \/ ReadReady(a)
       PROVE  OwnRegistrations'
  BY <1>5, <1>10 DEF NoticeCut, RestartClient, ReadPeers, ReadReady
<1>11. ASSUME NEW a \in Agent, NEW b \in Agent, GiveUp(a, b) \/ Finish(a, b)  PROVE OwnRegistrations'
  BY <1>5, <1>11 DEF GiveUp, Finish
<1>12. ASSUME NEW a \in Agent, NEW b \in Agent, Establish(a, b)  PROVE OwnRegistrations'
  <2>1. made' \in 0..MaxKeys /\ current[a] \in 0..MaxConn
    BY <1>12, Bounds DEF Establish, IInv, TypeOK
  <2>2. E2E("e2e_init", b, made') \in Request /\ E2E("e2e_init", b, made').type # "register"
    BY <2>1 DEF E2E, Request
  <2>. QED  BY <1>4, <1>12, <2>1, <2>2 DEF Establish
<1>13. ASSUME NEW a \in Agent, ReadRequest(a)  PROVE OwnRegistrations'
  <2>1. PICK m \in Readable(a) :
          m.type = "e2e_req" /\ up' = Sent(up, current[a], E2E("e2e_accept", m.from, made'))
    BY <1>13 DEF ReadRequest
  <2>2. m \in Notice /\ m.from \in Agent /\ made' \in 0..MaxKeys /\ current[a] \in 0..MaxConn
    <3>1. m \in Notice
      BY ReadableIs DEF IInv
    <3>2. m.from \in Agent
      BY <2>1, <3>1 DEF Notice
    <3>. QED  BY <1>13, <3>1, <3>2, Bounds DEF ReadRequest, IInv, TypeOK
  <2>3. /\ E2E("e2e_accept", m.from, made') \in Request
        /\ E2E("e2e_accept", m.from, made').type # "register"
    BY <2>2 DEF E2E, Request
  <2>. QED  BY <1>4, <1>13, <2>1, <2>2, <2>3 DEF ReadRequest
<1>14. CASE UNCHANGED vars
  BY <1>5, <1>14 DEF vars
<1>. QED  BY <1>6, <1>7, <1>8, <1>9, <1>10, <1>11, <1>12, <1>13, <1>14 DEF Next

(* What the proofs of the steps use of the invariant. *)
LEMMA KeyFacts ==
  ASSUME KeyInv
  PROVE  /\ IInv /\ TypeOK /\ NoDeadEntries /\ Owned
         /\ up \in [Conn -> Seq(Request)] /\ down \in [Conn -> Seq(Notice)]
         /\ owner \in [Conn -> Agent \cup {None}] /\ registry \in [Agent -> 0..MaxConn]
         /\ session \in [Agent -> [Agent -> Attempt]]
         /\ pending \in [Agent -> [Agent -> Attempt]]
         /\ tries \in [Agent -> [Agent -> Nat]]
         /\ OwnRegistrations
         /\ \A a, b \in Agent : a # b => Agreed(a, b)
BY DEF KeyInv, IInv, TypeOK

(* The server's steps but Serve, and those of a client that reads a list, loses
   its connection or has it cut. *)
LEMMA QuietSteps ==
  ASSUME KeyInv, \/ \E c \in Conn : \/ Cut(c) \/ Register(c) \/ NeverRegistered(c)
                                    \/ Greet(c) \/ Announce(c) \/ Tell(c) \/ End(c)
                 \/ \E a \in Agent : NoticeCut(a) \/ ReadPeers(a)
                 \/ UNCHANGED vars
  PROVE  \A a, b \in Agent : a # b => Agreed(a, b)'
<1>1. /\ up \in [Conn -> Seq(Request)] /\ down \in [Conn -> Seq(Notice)] /\ TypeOK
      /\ registry \in [Agent -> 0..MaxConn] /\ tell \in [Conn -> SUBSET Conn]
      /\ \A a, b \in Agent : a # b => Agreed(a, b)
  BY KeyFacts DEF TypeOK
<1>2. "peers" \notin Kind
  BY DEF Kind
<1>3. owner' = owner /\ UNCHANGED keys
  BY DEF Cut, Register, NeverRegistered, Greet, Announce, Tell, End, NoticeCut, ReadPeers, vars
<1>. SUFFICES ASSUME NEW t \in Kind, NEW a \in Agent, NEW b \in Agent
              PROVE  Fewer(owner, up', up, t, a, b) /\ Fewer(owner, down', down, t, a, b)
  BY <1>1, <1>3, QuietStep
<1>4. CASE UNCHANGED <<up, down>>
  BY <1>4, SameFewer
<1>5. ASSUME NEW c \in Conn, Register(c)
      PROVE  Fewer(owner, up', up, t, a, b) /\ Fewer(owner, down', down, t, a, b)
  <2>1. up[c] # <<>> /\ up' = [up EXCEPT ![c] = Tail(@)] /\ down' = down
    BY <1>5 DEF Register
  <2>2. Fewer(owner, up', up, t, a, b)
    BY <1>1, <2>1, TakenFewer
  <2>. QED  BY <2>1, <2>2, SameFewer
<1>6. ASSUME NEW c \in Conn, NeverRegistered(c) \/ End(c)
      PROVE  Fewer(owner, up', up, t, a, b) /\ Fewer(owner, down', down, t, a, b)
  <2>1. up' = [up EXCEPT ![c] = <<>>] /\ down' = down
    BY <1>6 DEF NeverRegistered, End
  <2>2. Fewer(owner, up', up, t, a, b)
    BY <1>1, <2>1, ClearedFewer
  <2>. QED  BY <2>1, <2>2, SameFewer
<1>7. ASSUME NEW c \in 0..MaxConn, NEW x, up' = up, down' = Sent(down, c, PeersList(x))
      PROVE  Fewer(owner, up', up, t, a, b) /\ Fewer(owner, down', down, t, a, b)
  <2>1. PeersList(x).type # t /\ t # "peers"
    BY <1>2 DEF PeersList
  <2>. QED  BY <1>1, <1>7, <2>1, SameFewer, SentPlaces
<1>8. ASSUME NEW c \in Conn, Greet(c) \/ Tell(c)
      PROVE  Fewer(owner, up', up, t, a, b) /\ Fewer(owner, down', down, t, a, b)
  <2>1. PICK d \in Conn : down' = Sent(down, d, PeersList(owner[d])) /\ up' = up
    BY <1>1, <1>8 DEF Greet, Tell
  <2>2. d \in 0..MaxConn
    BY DEF Conn
  <2>. QED  BY <1>7, <2>1, <2>2
<1>9. ASSUME NEW x \in Agent, NoticeCut(x)
      PROVE  Fewer(owner, up', up, t, a, b) /\ Fewer(owner, down', down, t, a, b)
  BY <1>1, <1>9, SameFewer, ClearedFewer DEF NoticeCut, Hangup
<1>10. ASSUME NEW x \in Agent, ReadPeers(x)
       PROVE  Fewer(owner, up', up, t, a, b) /\ Fewer(owner, down', down, t, a, b)
  <2>1. PICK m \in Readable(x) : Take(x)
    BY <1>10 DEF ReadPeers
  <2>2. current[x] \in Conn /\ down[current[x]] # <<>>
    BY <1>1, ReadableIs
  <2>. QED  BY <1>1, <1>10, <2>1, <2>2, SameFewer, TakenFewer DEF ReadPeers, Take
<1>. QED  BY <1>4, <1>5, <1>6, <1>8, <1>9, <1>10 DEF Cut, Announce, vars

(* A request or an answer is passed on: it leaves its place, and has at most one
   new one. *)
LEMMA ServeStep ==
  ASSUME KeyInv, NEW c \in Conn, Serve(c), NEW a \in Agent, NEW b \in Agent, a # b
  PROVE  Agreed(a, b)'
<1>. DEFINE m == Head(up[c])
            d == registry[m.from]
            f == Forwarded(m, owner[c])
<1>1. /\ up \in [Conn -> Seq(Request)] /\ down \in [Conn -> Seq(Notice)]
      /\ up[c] # <<>> /\ up' = [up EXCEPT ![c] = Tail(@)] /\ down' = Sent(down, d, f)
      /\ owner' = owner /\ UNCHANGED keys /\ Agreed(a, b)
      /\ pending[a][b] \in Attempt /\ session[a][b] \in Attempt /\ session[b][a] \in Attempt
  BY KeyFacts DEF Serve
<1>2. m \in Request /\ m.from \in Agent /\ m = up[c][1] /\ 1 \in DOMAIN up[c]
  <2>1. up[c] \in Seq(Request)
    BY <1>1
  <2>2. m \in Request /\ m = up[c][1] /\ 1 \in DOMAIN up[c]
    BY <1>1, <2>1
  <2>. QED  BY <2>2 DEF Request
<1>3. d \in 0..MaxConn /\ (d # 0 => owner[d] = m.from)
  BY <1>2, KeyFacts DEF NoDeadEntries
<1>4. /\ f.from = owner[c] /\ f.key = m.key
      /\ f.type = (IF m.type = "e2e_init" THEN "e2e_req" ELSE "e2e_ready")
      /\ m.type \in {"register", "e2e_init", "e2e_accept"}
      /\ m.type = "register" => m.from = owner[c]
  <2>1. m.type = "register" => m.from = owner[c]
    BY <1>2, KeyFacts DEF OwnRegistrations
  <2>. QED  BY <1>2, <2>1 DEF Forwarded, E2E, Request
<1>. HIDE DEF m, d, f
<1>5. /\ Fewer(owner, up', up, "e2e_init", a, b) /\ Fewer(owner, up', up, "e2e_accept", b, a)
      /\ owner[c] = a /\ m.type = "e2e_init" /\ m.from = b =>
           /\ m.key \in Inits(a, b)
           /\ AtMostOne(InitsAt(a, b)) => Inits(a, b)' = {}
      /\ owner[c] = b /\ m.type = "e2e_accept" /\ m.from = a => m.key \in Accepts(a, b)
  <2>1. /\ Fewer(owner, up', up, "e2e_init", a, b)
        /\ owner[c] = a /\ m.type = "e2e_init" /\ m.from = b =>
             /\ m.key \in Carried(owner, up, "e2e_init", a, b)
             /\ AtMostOne(Places(owner, up, "e2e_init", a, b))
                  => Carried(owner, up', "e2e_init", a, b) = {}
    BY <1>1, TakenFewer DEF m
  <2>2. /\ Fewer(owner, up', up, "e2e_accept", b, a)
        /\ owner[c] = b /\ m.type = "e2e_accept" /\ m.from = a =>
             m.key \in Carried(owner, up, "e2e_accept", b, a)
    BY <1>1, TakenFewer DEF m
  <2>3. Inits(a, b)' = Carried(owner, up', "e2e_init", a, b)
    BY <1>1, PairSees
  <2>. QED  BY <2>1, <2>2, <2>3 DEF Inits, InitsAt, Accepts
<1>6. /\ f.type # "e2e_req" \/ f.from # a \/ (d # 0 /\ owner[d] # b)
           => Fewer(owner, down', down, "e2e_req", b, a)
      /\ Requests(a, b)' \subseteq Requests(a, b) \cup {m.key}
      /\ Requests(a, b) = {} => AtMostOne(RequestsAt(a, b)')
  <2>1. /\ f.type # "e2e_req" \/ f.from # a \/ (d # 0 /\ owner[d] # b)
             => Fewer(owner, down', down, "e2e_req", b, a)
        /\ Carried(owner, down', "e2e_req", b, a) \subseteq Carried(owner, down, "e2e_req", b, a) \cup {f.key}
        /\ Carried(owner, down, "e2e_req", b, a) = {} => AtMostOne(Places(owner, down', "e2e_req", b, a))
    BY <1>1, <1>3, SentPlaces
  <2>2. /\ Requests(a, b)' = Carried(owner, down', "e2e_req", b, a)
        /\ RequestsAt(a, b)' = Places(owner, down', "e2e_req", b, a)
    BY <1>1, PairSees
  <2>. QED  BY <1>4, <2>1, <2>2 DEF Requests, RequestsAt
<1>7. /\ f.type # "e2e_ready" \/ f.from # b \/ (d # 0 /\ owner[d] # a)
           => Fewer(owner, down', down, "e2e_ready", a, b)
      /\ Readies(a, b)' \subseteq Readies(a, b) \cup {m.key}
  <2>1. /\ f.type # "e2e_ready" \/ f.from # b \/ (d # 0 /\ owner[d] # a)
             => Fewer(owner, down', down, "e2e_ready", a, b)
        /\ Carried(owner, down', "e2e_ready", a, b) \subseteq Carried(owner, down, "e2e_ready", a, b) \cup {f.key}
    BY <1>1, <1>3, SentPlaces
  <2>2. Readies(a, b)' = Carried(owner, down', "e2e_ready", a, b)
    BY <1>1, PairSees
  <2>. QED  BY <1>4, <2>1, <2>2 DEF Readies
<1>8. /\ Inits(a, b)' \subseteq Inits(a, b)
      /\ AtMostOne(InitsAt(a, b)) => AtMostOne(InitsAt(a, b)')
      /\ Accepts(a, b)' \subseteq Accepts(a, b)
  <2>1. /\ Inits(a, b)' = Carried(owner, up', "e2e_init", a, b)
        /\ InitsAt(a, b)' = Places(owner, up', "e2e_init", a, b)
        /\ Accepts(a, b)' = Carried(owner, up', "e2e_accept", b, a)
    BY <1>1, PairSees
  <2>. QED  BY <1>5, <2>1 DEF Fewer, Inits, InitsAt, Accepts
<1>9. UNCHANGED <<session, pending, tries, restarted>>
  BY <1>1 DEF keys
<1>10. CASE m.type = "e2e_init" /\ owner[c] = a /\ m.from = b
  <2>1. Fewer(owner, down', down, "e2e_ready", a, b)
    BY <1>4, <1>7, <1>10
  <2>2. Readies(a, b)' \subseteq Readies(a, b)
    <3>1. Readies(a, b)' = Carried(owner, down', "e2e_ready", a, b)
      BY <1>1, PairSees
    <3>. QED  BY <2>1, <3>1 DEF Fewer, Readies
  <2>3. m.key \in Inits(a, b) /\ tries[a][b] # 0
    BY <1>1, <1>5, <1>10 DEF Agreed, Untried
  <2>4. Untried(a, b)'
    BY <1>9, <2>3 DEF Untried
  <2>5. ASSUME OnlyTry(a, b)'  PROVE Exchange(a, b)'
    <3>1. OnlyTry(a, b) /\ Exchange(a, b)
      BY <1>1, <1>9, <2>5 DEF Agreed, OnlyTry
    <3>2. Inits(a, b)' = {} /\ Requests(a, b) = {} /\ Accepts(a, b) = {} /\ Readies(a, b) = {}
      BY <1>5, <1>10, <2>3, <3>1 DEF Exchange
    <3>3. Requests(a, b)' \subseteq {m.key} /\ AtMostOne(RequestsAt(a, b)') /\ AtMostOne(InitsAt(a, b)')
      BY <1>6, <1>8, <3>1, <3>2 DEF Exchange
    <3>4. Accepts(a, b)' = {} /\ Readies(a, b)' = {}
      BY <1>8, <2>2, <3>2
    <3>. QED  BY <1>9, <2>3, <3>1, <3>2, <3>3, <3>4 DEF Exchange
  <2>. QED  BY <2>4, <2>5 DEF Agreed
<1>11. CASE m.type = "e2e_accept" /\ owner[c] = b /\ m.from = a
  <2>1. Fewer(owner, down', down, "e2e_req", b, a)
    BY <1>4, <1>6, <1>11
  <2>2. Requests(a, b)' \subseteq Requests(a, b)
    <3>1. Requests(a, b)' = Carried(owner, down', "e2e_req", b, a)
      BY <1>1, PairSees
    <3>. QED  BY <2>1, <3>1 DEF Fewer, Requests
  <2>3. m.key \in Accepts(a, b) /\ tries[a][b] # 0
    BY <1>1, <1>5, <1>11 DEF Agreed, Untried
  <2>4. Untried(a, b)'
    BY <1>9, <2>3 DEF Untried
  <2>5. ASSUME OnlyTry(a, b)'  PROVE Exchange(a, b)'
    <3>1. OnlyTry(a, b) /\ Exchange(a, b)
      BY <1>1, <1>9, <2>5 DEF Agreed, OnlyTry
    <3>2. Inits(a, b) = {} /\ Requests(a, b) = {}
      BY <2>3, <3>1 DEF Exchange
    <3>3. Inits(a, b)' = {} /\ Requests(a, b)' = {} /\ AtMostOne(InitsAt(a, b)') /\ AtMostOne(RequestsAt(a, b)')
      BY <1>6, <1>8, <2>2, <3>1, <3>2 DEF Exchange
    <3>4. \A k \in Accepts(a, b)' \cup Readies(a, b)' : k \in Accepts(a, b) \cup Readies(a, b)
      BY <1>7, <1>8, <2>3
    <3>. QED  BY <1>9, <3>1, <3>3, <3>4 DEF Exchange
  <2>. QED  BY <2>4, <2>5 DEF Agreed
<1>12. CASE /\ ~(m.type = "e2e_init" /\ owner[c] = a /\ m.from = b)
            /\ ~(m.type = "e2e_accept" /\ owner[c] = b /\ m.from = a)
  <2>1. Fewer(owner, down', down, "e2e_req", b, a) /\ Fewer(owner, down', down, "e2e_ready", a, b)
    <3>1. CASE d = 0
      <4>1. down' = down
        BY <1>1, <3>1 DEF Sent
      <4>. QED  BY <4>1, SameFewer
    <3>2. CASE d # 0
      BY <1>3, <1>4, <1>6, <1>7, <1>12, <3>2
    <3>. QED  BY <3>1, <3>2
  <2>2. Calm(a, b)
    BY <1>1, <1>5, <2>1, CalmChannels
  <2>. QED  BY <1>1, <1>9, <2>2, Undisturbed
<1>. QED  BY <1>10, <1>11, <1>12

(* A new connection carries nothing of an exchange yet. *)
LEMMA ConnectStep ==
  ASSUME KeyInv, NEW x \in Agent, Connect(x), NEW a \in Agent, NEW b \in Agent, a # b
  PROVE  Agreed(a, b)'
<1>1. PICK c \in Conn :
        /\ owner[c] = None /\ owner' = [owner EXCEPT ![c] = x]
        /\ up' = [up EXCEPT ![c] = <<E2E("register", x, 0)>>]
  BY DEF Connect
<1>2. /\ down' = down /\ UNCHANGED keys /\ Agreed(a, b)
      /\ up \in [Conn -> Seq(Request)] /\ owner \in [Conn -> Agent \cup {None}]
      /\ down[c] = <<>>
  BY <1>1, KeyFacts DEF Connect, Owned
<1>3. /\ owner'[c] = x /\ up'[c] = <<E2E("register", x, 0)>>
      /\ \A d \in Conn \ {c} : owner'[d] = owner[d] /\ up'[d] = up[d]
  BY <1>1, <1>2
<1>4. E2E("register", x, 0).type = "register"
  BY DEF E2E
<1>5. \A i \in DOMAIN up'[c] : up'[c][i].type = "register"
  BY <1>3, <1>4
<1>6. ASSUME NEW t \in Kind, NEW y \in Agent, NEW z \in Agent
      PROVE  /\ Carried(owner', up', t, y, z) \subseteq Carried(owner, up, t, y, z)
             /\ Places(owner', up', t, y, z) \subseteq Places(owner, up, t, y, z)
  <2>1. ASSUME NEW p \in Places(owner', up', t, y, z)
        PROVE  p \in Places(owner, up, t, y, z) /\ up'[p[1]][p[2]].key = up[p[1]][p[2]].key
    <3>1. /\ p[1] \in Conn /\ p[2] \in Nat /\ owner'[p[1]] = y /\ p[2] \in DOMAIN up'[p[1]]
          /\ up'[p[1]][p[2]].type = t
      BY PlaceIs
    <3>2. p[1] # c
      BY <1>5, <3>1 DEF Kind
    <3>3. owner'[p[1]] = owner[p[1]] /\ up'[p[1]] = up[p[1]]
      BY <1>3, <3>1, <3>2
    <3>. QED  BY <3>3 DEF Places
  <2>2. ASSUME NEW k \in Carried(owner', up', t, y, z)  PROVE k \in Carried(owner, up, t, y, z)
    <3>1. PICK p \in Places(owner', up', t, y, z) : k = up'[p[1]][p[2]].key
      BY <2>2 DEF Carried
    <3>2. k = up[p[1]][p[2]].key /\ p \in Places(owner, up, t, y, z)
      BY <2>1, <3>1
    <3>. QED  BY <3>2 DEF Carried
  <2>. QED  BY <2>1, <2>2
<1>7. ASSUME NEW t \in Kind, NEW y \in Agent, NEW z \in Agent
      PROVE  /\ Carried(owner', down', t, y, z) \subseteq Carried(owner, down, t, y, z)
             /\ Places(owner', down', t, y, z) \subseteq Places(owner, down, t, y, z)
  <2>1. ASSUME NEW p \in Places(owner', down', t, y, z)
        PROVE  p \in Places(owner, down, t, y, z) /\ down'[p[1]][p[2]].key = down[p[1]][p[2]].key
    <3>1. p[1] \in Conn /\ p[2] \in Nat /\ owner'[p[1]] = y /\ p[2] \in DOMAIN down'[p[1]]
      BY PlaceIs
    <3>2. DOMAIN down[c] = {}
      BY <1>2
    <3>3. p[1] # c
      BY <1>2, <3>1, <3>2
    <3>4. owner'[p[1]] = owner[p[1]] /\ down'[p[1]] = down[p[1]]
      BY <1>2, <1>3, <3>1, <3>3
    <3>. QED  BY <3>4 DEF Places
  <2>2. ASSUME NEW k \in Carried(owner', down', t, y, z)  PROVE k \in Carried(owner, down, t, y, z)
    <3>1. PICK p \in Places(owner', down', t, y, z) : k = down'[p[1]][p[2]].key
      BY <2>2 DEF Carried
    <3>2. k = down[p[1]][p[2]].key /\ p \in Places(owner, down, t, y, z)
      BY <2>1, <3>1
    <3>. QED  BY <3>2 DEF Carried
  <2>. QED  BY <2>1, <2>2
<1>8. /\ Inits(a, b)' \subseteq Inits(a, b) /\ InitsAt(a, b)' \subseteq InitsAt(a, b)
      /\ Accepts(a, b)' \subseteq Accepts(a, b)
  <2>1. /\ Inits(a, b)' = Carried(owner', up', "e2e_init", a, b)
        /\ InitsAt(a, b)' = Places(owner', up', "e2e_init", a, b)
        /\ Accepts(a, b)' = Carried(owner', up', "e2e_accept", b, a)
    BY DEF Inits, InitsAt, Accepts, Places, Carried
  <2>. QED  BY <1>6, <2>1 DEF Kind, Inits, InitsAt, Accepts
<1>9. /\ Requests(a, b)' \subseteq Requests(a, b) /\ RequestsAt(a, b)' \subseteq RequestsAt(a, b)
      /\ Readies(a, b)' \subseteq Readies(a, b)
  <2>1. /\ Requests(a, b)' = Carried(owner', down', "e2e_req", b, a)
        /\ RequestsAt(a, b)' = Places(owner', down', "e2e_req", b, a)
        /\ Readies(a, b)' = Carried(owner', down', "e2e_ready", a, b)
    BY DEF Requests, RequestsAt, Readies, Places, Carried
  <2>. QED  BY <1>7, <2>1 DEF Kind, Requests, RequestsAt, Readies
<1>10. Calm(a, b)
  BY <1>8, <1>9 DEF Calm, AtMostOne
<1>. QED  BY <1>2, <1>10, Undisturbed DEF keys

(* A client forgets its sessions and attempts when its process starts again. *)
LEMMA RestartStep ==
  ASSUME KeyInv, NEW x \in Agent, RestartClient(x), NEW a \in Agent, NEW b \in Agent, a # b
  PROVE  Agreed(a, b)'
<1>1. /\ owner' = owner /\ up' = up /\ down' = [down EXCEPT ![current[x]] = <<>>]
      /\ session' = [session EXCEPT ![x] = [y \in Agent |-> NoAttempt]]
      /\ pending' = [pending EXCEPT ![x] = [y \in Agent |-> NoAttempt]]
      /\ restarted' = restarted \cup {x} /\ tries' = tries
  BY DEF RestartClient, Hangup
<1>2. Calm(a, b)
  BY <1>1, KeyFacts, SameFewer, ClearedFewer, CalmChannels
<1>3. /\ pending'[a][b] \in {pending[a][b], NoAttempt}
      /\ session'[a][b] = session[a][b] \/ (session'[a][b] = NoAttempt /\ a \in restarted')
      /\ session'[b][a] = session[b][a] \/ (session'[b][a] = NoAttempt /\ b \in restarted')
  BY <1>1, KeyFacts
<1>4. Agreed(a, b) /\ tries'[a][b] = tries[a][b] /\ tries'[b][a] = tries[b][a] /\ restarted \subseteq restarted'
  BY <1>1, KeyFacts
<1>. QED  BY <1>2, <1>3, <1>4, Undisturbed

(* No answer comes, and the attempt is given up. *)
LEMMA GiveUpStep ==
  ASSUME KeyInv, NEW x \in Agent, NEW y \in Agent, GiveUp(x, y),
         NEW a \in Agent, NEW b \in Agent, a # b
  PROVE  Agreed(a, b)'
<1>1. /\ owner' = owner /\ up' = up /\ down' = down
      /\ session' = session /\ restarted' = restarted /\ tries' = tries
      /\ pending' = [pending EXCEPT ![x][y] = NoAttempt]
  BY DEF GiveUp
<1>2. Calm(a, b)
  BY <1>1, SameFewer, CalmChannels
<1>3. pending'[a][b] \in {pending[a][b], NoAttempt}
  BY <1>1, KeyFacts
<1>4. Agreed(a, b)
  BY KeyFacts
<1>. QED  BY <1>1, <1>2, <1>3, <1>4, Undisturbed

(* The answer has come: the session is what the peer has. *)
LEMMA FinishStep ==
  ASSUME KeyInv, NEW x \in Agent, NEW y \in Agent, Finish(x, y),
         NEW a \in Agent, NEW b \in Agent, a # b
  PROVE  Agreed(a, b)'
<1>1. /\ owner' = owner /\ up' = up /\ down' = down /\ restarted' = restarted /\ tries' = tries
      /\ pending[x][y].peer # 0
      /\ pending' = [pending EXCEPT ![x][y] = NoAttempt]
      /\ session' = [session EXCEPT ![x][y] = Derived(pending[x][y].own, pending[x][y].peer)]
  BY DEF Finish
<1>2. Calm(a, b)
  BY <1>1, SameFewer, CalmChannels
<1>3. /\ Agreed(a, b) /\ Agreed(b, a) /\ pending[a][b] \in Attempt
      /\ NoAttempt.peer = 0 /\ NoAttempt.own = 0
  BY KeyFacts DEF NoAttempt
<1>4. /\ <<x, y>> # <<a, b>> => pending'[a][b] = pending[a][b] /\ session'[a][b] = session[a][b]
      /\ <<x, y>> # <<b, a>> => session'[b][a] = session[b][a]
      /\ <<x, y>> = <<a, b>> => /\ pending'[a][b] = NoAttempt
                               /\ session'[a][b] = Derived(pending[a][b].own, pending[a][b].peer)
  BY <1>1, KeyFacts
<1>5. CASE x = a /\ y = b
  <2>1. pending[a][b].peer # 0 /\ tries[a][b] # 0
    BY <1>1, <1>3, <1>5 DEF Agreed, Untried
  <2>2. Untried(a, b)'
    BY <1>1, <2>1 DEF Untried
  <2>3. ASSUME OnlyTry(a, b)'  PROVE Exchange(a, b)'
    <3>1. Exchange(a, b)
      BY <1>1, <1>3, <2>3 DEF Agreed, OnlyTry
    <3>2. session'[a][b] = pending[a][b] /\ session'[b][a] = session[b][a] /\ pending'[a][b] = NoAttempt
      BY <1>3, <1>4, <1>5 DEF Derived, Attempt
    <3>3. pending[a][b] = session[b][a] /\ Inits(a, b) = {} /\ Requests(a, b) = {}
      BY <2>1, <3>1 DEF Exchange
    <3>. QED  BY <1>2, <1>3, <3>1, <3>2, <3>3 DEF Exchange, Calm
  <2>. QED  BY <2>2, <2>3 DEF Agreed
<1>6. CASE x = b /\ y = a
  <2>1. tries[b][a] # 0
    BY <1>1, <1>3, <1>6 DEF Agreed, Untried
  <2>2. Untried(a, b)'
    <3>1. pending'[a][b] = pending[a][b]
      BY <1>4, <1>6
    <3>. QED  BY <1>1, <1>2, <1>3, <2>1, <3>1 DEF Untried, Agreed, Calm
  <2>. QED  BY <1>1, <2>1, <2>2 DEF Agreed, OnlyTry
<1>7. CASE <<x, y>> # <<a, b>> /\ <<x, y>> # <<b, a>>
  BY <1>1, <1>2, <1>3, <1>4, <1>7, Undisturbed
<1>. QED  BY <1>5, <1>6, <1>7

(* An attempt begins: when it is the first, nothing of another is there. *)
LEMMA EstablishStep ==
  ASSUME KeyInv, NEW x \in Agent, NEW y \in Agent, Establish(x, y),
         NEW a \in Agent, NEW b \in Agent, a # b
  PROVE  Agreed(a, b)'
<1>. DEFINE m == E2E("e2e_init", y, made')
<1>1. /\ owner' = owner /\ down' = down /\ restarted' = restarted /\ session' = session
      /\ up' = Sent(up, current[x], m) /\ x # y
      /\ tries' = [tries EXCEPT ![x][y] = @ + 1] /\ session[x][y] = NoAttempt
      /\ pending' = [pending EXCEPT ![x][y] = [own |-> made', peer |-> 0]]
  BY DEF Establish
<1>2. /\ m.type = "e2e_init" /\ m.from = y /\ m.key = made'
      /\ up \in [Conn -> Seq(Request)] /\ Agreed(a, b) /\ Agreed(b, a)
      /\ current[x] \in 0..MaxConn /\ (current[x] # 0 => owner[current[x]] = x)
  BY KeyFacts, InUse DEF E2E
<1>3. tries[a][b] \in Nat /\ tries[b][a] \in Nat
  BY KeyFacts
<1>4. /\ <<x, y>> # <<a, b>> => pending'[a][b] = pending[a][b] /\ tries'[a][b] = tries[a][b]
      /\ <<x, y>> # <<b, a>> => tries'[b][a] = tries[b][a]
      /\ <<x, y>> = <<a, b>> => /\ pending'[a][b] = [own |-> made', peer |-> 0]
                               /\ tries'[a][b] = tries[a][b] + 1
      /\ <<x, y>> = <<b, a>> => tries'[b][a] = tries[b][a] + 1
  BY <1>1, KeyFacts
<1>. HIDE DEF m
<1>5. Fewer(owner, up', up, "e2e_accept", b, a)
  BY <1>1, <1>2, SentPlaces
<1>6. <<x, y>> # <<a, b>> => Fewer(owner, up', up, "e2e_init", a, b)
  <2>1. m.type # "e2e_init" \/ m.from # b \/ (current[x] # 0 /\ owner[current[x]] # a)
          => Fewer(owner, up', up, "e2e_init", a, b)
    BY <1>1, <1>2, SentPlaces
  <2>2. current[x] = 0 => up' = up
    BY <1>1 DEF Sent
  <2>. QED  BY <1>2, <2>1, <2>2, SameFewer
<1>7. <<x, y>> # <<a, b>> => Calm(a, b)
  BY <1>1, <1>5, <1>6, SameFewer, CalmChannels
<1>8. CASE x = a /\ y = b
  <2>1. tries'[a][b] # 0
    BY <1>3, <1>4, <1>8
  <2>2. Untried(a, b)'
    BY <2>1 DEF Untried
  <2>3. ASSUME OnlyTry(a, b)'  PROVE Exchange(a, b)'
    <3>1. tries[a][b] = 0 /\ tries[b][a] = 0
      BY <1>3, <1>4, <1>8, <2>3 DEF OnlyTry
    <3>2. /\ Inits(a, b) = {} /\ Requests(a, b) = {} /\ Accepts(a, b) = {} /\ Readies(a, b) = {}
          /\ session[a][b] = NoAttempt /\ session[b][a] = NoAttempt
      BY <1>2, <3>1 DEF Agreed, Untried
    <3>3. /\ Inits(a, b)' \subseteq {made'} /\ AtMostOne(InitsAt(a, b)')
          /\ Accepts(a, b)' = {} /\ Requests(a, b)' = {} /\ Readies(a, b)' = {}
          /\ AtMostOne(RequestsAt(a, b)')
      <4>1. /\ Carried(owner, up', "e2e_init", a, b) \subseteq Inits(a, b) \cup {made'}
            /\ Inits(a, b) = {} => AtMostOne(Places(owner, up', "e2e_init", a, b))
        BY <1>1, <1>2, SentPlaces DEF Inits
      <4>2. /\ Inits(a, b)' = Carried(owner, up', "e2e_init", a, b)
            /\ InitsAt(a, b)' = Places(owner, up', "e2e_init", a, b)
            /\ Accepts(a, b)' = Carried(owner, up', "e2e_accept", b, a)
            /\ Requests(a, b)' = Carried(owner, down, "e2e_req", b, a)
            /\ RequestsAt(a, b)' = Places(owner, down, "e2e_req", b, a)
            /\ Readies(a, b)' = Carried(owner, down, "e2e_ready", a, b)
        BY <1>1, PairSees
      <4>3. Carried(owner, up', "e2e_accept", b, a) = {}
        BY <1>5, <3>2 DEF Fewer, Accepts
      <4>4. RequestsAt(a, b)' = {}
        BY <3>2, <4>2, NothingCarried DEF Requests
      <4>. QED  BY <3>2, <4>1, <4>2, <4>3, <4>4 DEF Requests, Readies, AtMostOne
    <3>4. pending'[a][b].own = made' /\ pending'[a][b].peer = 0
      BY <1>4, <1>8
    <3>. QED  BY <1>1, <3>2, <3>3, <3>4 DEF Exchange
  <2>. QED  BY <2>2, <2>3 DEF Agreed
<1>9. CASE x = b /\ y = a
  <2>1. tries'[b][a] # 0 /\ <<x, y>> # <<a, b>>
    BY <1>1, <1>3, <1>4, <1>9
  <2>2. Untried(a, b)'
    BY <1>2, <1>4, <1>7, <2>1 DEF Untried, Agreed, Calm
  <2>. QED  BY <2>1, <2>2 DEF Agreed, OnlyTry
<1>10. CASE <<x, y>> # <<a, b>> /\ <<x, y>> # <<b, a>>
  BY <1>1, <1>2, <1>4, <1>7, <1>10, Undisturbed
<1>. QED  BY <1>8, <1>9, <1>10

(* A request is answered: it was the only one of its agent, and the key that goes
   back is that of the session it leaves. *)
LEMMA ReadRequestStep ==
  ASSUME KeyInv, NEW x \in Agent, ReadRequest(x), NEW a \in Agent, NEW b \in Agent, a # b
  PROVE  Agreed(a, b)'
<1>1. PICK m \in Readable(x) :
        /\ Take(x) /\ m.type = "e2e_req"
        /\ session' = [session EXCEPT ![x][m.from] = RequestKey(m.key, made')]
        /\ up' = Sent(up, current[x], E2E("e2e_accept", m.from, made'))
  BY DEF ReadRequest
<1>. DEFINE c == current[x]
            f == E2E("e2e_accept", m.from, made')
<1>2. /\ c \in Conn /\ down[c] # <<>> /\ m = Head(down[c]) /\ m \in Notice /\ owner[c] = x
      /\ c \in 0..MaxConn
  <2>1. c \in Conn /\ down[c] # <<>> /\ m = Head(down[c]) /\ m \in Notice
    BY KeyFacts, ReadableIs
  <2>2. c # 0 /\ c \in 0..MaxConn
    BY <2>1, Bounds DEF Conn
  <2>3. owner[c] = x
    BY <2>2, KeyFacts, InUse
  <2>. QED  BY <2>1, <2>2, <2>3
<1>3. m.from \in Agent
  BY <1>1, <1>2 DEF Notice
<1>4. /\ owner' = owner /\ pending' = pending /\ tries' = tries /\ restarted' = restarted
      /\ down' = [down EXCEPT ![c] = Tail(@)] /\ up' = Sent(up, c, f)
      /\ up \in [Conn -> Seq(Request)] /\ down \in [Conn -> Seq(Notice)]
      /\ Agreed(a, b) /\ Agreed(b, a) /\ made' # 0
  <2>1. made' # 0
    BY KeyFacts DEF ReadRequest, TypeOK
  <2>. QED  BY <1>1, <2>1, KeyFacts DEF ReadRequest, Take
<1>5. /\ <<x, m.from>> # <<a, b>> => session'[a][b] = session[a][b]
      /\ <<x, m.from>> # <<b, a>> => session'[b][a] = session[b][a]
      /\ <<x, m.from>> = <<b, a>> => session'[b][a] = RequestKey(m.key, made')
  BY <1>1, <1>3, KeyFacts
<1>6. f.type = "e2e_accept" /\ f.from = m.from /\ f.key = made'
  BY DEF E2E
<1>. HIDE DEF c, f
<1>7. /\ Fewer(owner, down', down, "e2e_req", b, a) /\ Fewer(owner, down', down, "e2e_ready", a, b)
      /\ x = b /\ m.from = a =>
           /\ m.key \in Requests(a, b)
           /\ AtMostOne(RequestsAt(a, b)) => Requests(a, b)' = {}
      /\ x = a /\ m.from = b => m.key \in Requests(b, a)
  <2>1. /\ Fewer(owner, down', down, "e2e_req", b, a)
        /\ x = b /\ m.from = a =>
             /\ m.key \in Carried(owner, down, "e2e_req", b, a)
             /\ AtMostOne(Places(owner, down, "e2e_req", b, a))
                  => Carried(owner, down', "e2e_req", b, a) = {}
    BY <1>1, <1>2, <1>4, TakenFewer
  <2>2. x = a /\ m.from = b => m.key \in Carried(owner, down, "e2e_req", a, b)
    BY <1>1, <1>2, <1>4, TakenFewer
  <2>3. Fewer(owner, down', down, "e2e_ready", a, b)
    BY <1>2, <1>4, TakenFewer
  <2>4. Requests(a, b)' = Carried(owner, down', "e2e_req", b, a)
    BY <1>4, PairSees
  <2>. QED  BY <2>1, <2>2, <2>3, <2>4 DEF Requests, RequestsAt
<1>8. /\ Fewer(owner, up', up, "e2e_init", a, b)
      /\ <<x, m.from>> # <<b, a>> => Fewer(owner, up', up, "e2e_accept", b, a)
      /\ Accepts(a, b)' \subseteq Accepts(a, b) \cup {made'}
  <2>1. Fewer(owner, up', up, "e2e_init", a, b)
    BY <1>2, <1>4, <1>6, SentPlaces
  <2>2. f.from # a \/ (c # 0 /\ owner[c] # b) => Fewer(owner, up', up, "e2e_accept", b, a)
    BY <1>2, <1>4, <1>6, SentPlaces
  <2>3. c # 0
    BY <1>2 DEF Conn
  <2>4. Carried(owner, up', "e2e_accept", b, a) \subseteq Accepts(a, b) \cup {made'}
    BY <1>2, <1>4, <1>6, SentPlaces DEF Accepts
  <2>5. Accepts(a, b)' = Carried(owner, up', "e2e_accept", b, a)
    BY <1>4, PairSees
  <2>. QED  BY <1>2, <1>6, <2>1, <2>2, <2>3, <2>4, <2>5
<1>9. <<x, m.from>> # <<b, a>> => Calm(a, b)
  BY <1>4, <1>7, <1>8, CalmChannels
<1>10. CASE x = b /\ m.from = a
  <2>1. m.key \in Requests(a, b) /\ tries[a][b] # 0
    BY <1>4, <1>7, <1>10 DEF Agreed, Untried
  <2>2. Untried(a, b)'
    BY <1>4, <2>1 DEF Untried
  <2>3. ASSUME OnlyTry(a, b)'  PROVE Exchange(a, b)'
    <3>1. Exchange(a, b)
      BY <1>4, <2>3 DEF Agreed, OnlyTry
    <3>2. /\ Inits(a, b)' \subseteq Inits(a, b) /\ Readies(a, b)' \subseteq Readies(a, b)
          /\ AtMostOne(InitsAt(a, b)')
          /\ AtMostOne(RequestsAt(a, b)')
      <4>1. /\ Inits(a, b)' = Carried(owner, up', "e2e_init", a, b)
            /\ InitsAt(a, b)' = Places(owner, up', "e2e_init", a, b)
            /\ RequestsAt(a, b)' = Places(owner, down', "e2e_req", b, a)
            /\ Readies(a, b)' = Carried(owner, down', "e2e_ready", a, b)
        BY <1>4, PairSees
      <4>2. AtMostOne(InitsAt(a, b)) /\ AtMostOne(RequestsAt(a, b))
        BY <3>1 DEF Exchange
      <4>. QED  BY <1>7, <1>8, <4>1, <4>2 DEF Fewer, Inits, InitsAt, RequestsAt, Readies
    <3>3. Requests(a, b)' = {} /\ Inits(a, b)' = {} /\ Readies(a, b)' = {} /\ Accepts(a, b)' \subseteq {made'}
      <4>1. Requests(a, b)' = {}
        BY <1>7, <1>10, <3>1 DEF Exchange
      <4>2. Inits(a, b) = {} /\ Readies(a, b) = {} /\ Accepts(a, b) = {}
        BY <2>1, <3>1 DEF Exchange
      <4>. QED  BY <1>8, <3>2, <4>1, <4>2
    <3>4. /\ session'[a][b] = session[a][b] /\ session[a][b] = NoAttempt
          /\ pending'[a][b] = pending[a][b]
          /\ pending[a][b].peer = 0 /\ pending[a][b].own \in {0, m.key}
          /\ session'[b][a].own = m.key /\ session'[b][a].peer = made'
      <4>1. session[a][b] = NoAttempt /\ pending[a][b].peer = 0 /\ pending[a][b].own \in {0, m.key}
        BY <2>1, <3>1 DEF Exchange
      <4>2. session'[b][a].own = m.key /\ session'[b][a].peer = made'
        BY <1>5, <1>10 DEF RequestKey, Derived
      <4>. QED  BY <1>4, <1>5, <1>10, <4>1, <4>2
    <3>5. session'[b][a] # NoAttempt
      BY <1>4, <3>4 DEF NoAttempt
    <3>. QED  BY <3>2, <3>3, <3>4, <3>5 DEF Exchange
  <2>. QED  BY <2>2, <2>3 DEF Agreed
<1>11. CASE x = a /\ m.from = b
  <2>1. tries[b][a] # 0
    BY <1>4, <1>7, <1>11 DEF Agreed, Untried
  <2>2. Untried(a, b)'
    BY <1>4, <1>9, <1>11, <2>1 DEF Untried, Agreed, Calm
  <2>. QED  BY <1>4, <2>1, <2>2 DEF Agreed, OnlyTry
<1>12. CASE <<x, m.from>> # <<a, b>> /\ <<x, m.from>> # <<b, a>>
  BY <1>4, <1>5, <1>9, <1>12, Undisturbed
<1>. QED  BY <1>10, <1>11, <1>12

(* An answer settles the attempt that waits, with the key of the peer's session. *)
LEMMA ReadReadyStep ==
  ASSUME KeyInv, NEW x \in Agent, ReadReady(x), NEW a \in Agent, NEW b \in Agent, a # b
  PROVE  Agreed(a, b)'
<1>1. PICK m \in Readable(x) : Take(x) /\ m.type = "e2e_ready" /\ Settled(x, m)
  BY DEF ReadReady
<1>. DEFINE c == current[x]
<1>2. /\ c \in Conn /\ down[c] # <<>> /\ m = Head(down[c]) /\ m \in Notice /\ owner[c] = x
  <2>1. c \in Conn /\ down[c] # <<>> /\ m = Head(down[c]) /\ m \in Notice
    BY KeyFacts, ReadableIs
  <2>. QED  BY <2>1, KeyFacts, Bounds DEF Owned, Conn
<1>3. m.from \in Agent
  BY <1>1, <1>2 DEF Notice
<1>4. /\ owner' = owner /\ session' = session /\ tries' = tries /\ restarted' = restarted
      /\ down' = [down EXCEPT ![c] = Tail(@)] /\ up' = up
      /\ down \in [Conn -> Seq(Notice)] /\ Agreed(a, b)
      /\ pending[a][b] \in Attempt
  BY <1>1, KeyFacts DEF ReadReady, Take
<1>. HIDE DEF c
<1>5. /\ Fewer(owner, down', down, "e2e_req", b, a) /\ Fewer(owner, down', down, "e2e_ready", a, b)
      /\ x = a /\ m.from = b => m.key \in Readies(a, b)
  <2>1. /\ Fewer(owner, down', down, "e2e_ready", a, b)
        /\ x = a /\ m.from = b => m.key \in Carried(owner, down, "e2e_ready", a, b)
    BY <1>1, <1>2, <1>4, TakenFewer
  <2>2. Fewer(owner, down', down, "e2e_req", b, a)
    BY <1>2, <1>4, TakenFewer
  <2>. QED  BY <2>1, <2>2 DEF Readies
<1>6. Calm(a, b)
  BY <1>4, <1>5, SameFewer, CalmChannels
<1>7. \/ pending'[a][b] = pending[a][b]
      \/ /\ x = a /\ m.from = b /\ pending[a][b].own # 0 /\ pending[a][b].peer = 0
         /\ pending'[a][b] = [pending[a][b] EXCEPT !.peer = m.key]
  <2>. DEFINE y == m.from
              r == [pending[x][y] EXCEPT !.peer = m.key]
  <2>1. pending \in [Agent -> [Agent -> Attempt]] /\ y \in Agent
    BY <1>3, KeyFacts
  <2>2. \/ pending' = pending
        \/ /\ pending[x][y].own # 0 /\ pending[x][y].peer = 0
           /\ pending' = [pending EXCEPT ![x][y] = r]
    BY <1>1, <2>1 DEF Settled
  <2>. HIDE DEF r, y
  <2>3. \/ pending'[a][b] = pending[a][b]
        \/ /\ x = a /\ y = b /\ pending[a][b].own # 0 /\ pending[a][b].peer = 0
           /\ pending'[a][b] = r
    BY <2>1, <2>2
  <2>. QED  BY <2>3 DEF r, y
<1>8. CASE pending'[a][b] = pending[a][b]
  BY <1>4, <1>6, <1>8, Undisturbed
<1>9. CASE /\ x = a /\ m.from = b /\ pending[a][b].own # 0 /\ pending[a][b].peer = 0
           /\ pending'[a][b] = [pending[a][b] EXCEPT !.peer = m.key]
  <2>1. m.key \in Readies(a, b) /\ tries[a][b] # 0
    BY <1>4, <1>5, <1>9 DEF Agreed, Untried
  <2>2. Untried(a, b)'
    BY <1>4, <2>1 DEF Untried
  <2>3. ASSUME OnlyTry(a, b)'  PROVE Exchange(a, b)'
    <3>1. Exchange(a, b)
      BY <1>4, <2>3 DEF Agreed, OnlyTry
    <3>2. /\ session[b][a] # NoAttempt /\ session[b][a].peer = m.key
          /\ Inits(a, b) = {} /\ Requests(a, b) = {}
          /\ session[b][a].own = pending[a][b].own
      BY <1>9, <2>1, <3>1 DEF Exchange
    <3>3. pending'[a][b].own = pending[a][b].own /\ pending'[a][b].peer = m.key /\ pending'[a][b] \in [own : 0..MaxKeys, peer : {m.key}]
      BY <1>4, <1>9 DEF Attempt
    <3>4. session[b][a] \in Attempt
      BY KeyFacts
    <3>5. pending'[a][b] = session[b][a]
      BY <3>2, <3>3, <3>4 DEF Attempt
    <3>. QED  BY <1>4, <1>6, <3>1, <3>2, <3>3, <3>5 DEF Exchange, Calm
  <2>. QED  BY <2>2, <2>3 DEF Agreed
<1>. QED  BY <1>7, <1>8, <1>9

(* At first there is nothing of any exchange. *)
LEMMA KeyInit == Init => KeyInv
<1>. SUFFICES ASSUME Init  PROVE KeyInv
  OBVIOUS
<1>1. OwnRegistrations
  BY DEF Init, OwnRegistrations
<1>2. ASSUME NEW a \in Agent, NEW b \in Agent, a # b  PROVE Agreed(a, b)
  <2>1. \A t, x, y : Carried(owner, up, t, x, y) = {} /\ Carried(owner, down, t, x, y) = {}
    <3>. SUFFICES ASSUME NEW t, NEW x, NEW y
                  PROVE  Places(owner, up, t, x, y) = {} /\ Places(owner, down, t, x, y) = {}
      BY NothingCarried
    <3>1. \A c \in Conn : DOMAIN up[c] = {} /\ DOMAIN down[c] = {}
      BY DEF Init
    <3>. QED  BY <3>1, PlaceIs
  <2>2. Untried(a, b)
    BY <2>1 DEF Untried, Init, Inits, Requests, Accepts, Readies
  <2>3. tries[a][b] = 0
    BY DEF Init
  <2>. QED  BY <2>2, <2>3 DEF Agreed, OnlyTry
<1>. QED  BY <1>1, <1>2, InitInv DEF KeyInv

(* The inductive invariant of the keys. *)
THEOREM KeyInvariance == Spec => []KeyInv
<1>1. KeyInv /\ [Next]_vars => KeyInv'
  <2>. SUFFICES ASSUME KeyInv, [Next]_vars  PROVE KeyInv'
    OBVIOUS
  <2>1. IInv'
    BY TypeStep, OwnedStep, ListsStep, SettlingStep DEF IInv, KeyInv
  <2>2. OwnRegistrations'
    BY RegistrationsStep DEF KeyInv
  <2>3. \A a, b \in Agent : a # b => Agreed(a, b)'
    BY QuietSteps, ServeStep, ConnectStep, RestartStep, GiveUpStep, FinishStep, EstablishStep,
       ReadRequestStep, ReadReadyStep DEF Next
  <2>. QED  BY <2>1, <2>2, <2>3 DEF KeyInv
<1>. QED  BY KeyInit, <1>1, PTL DEF Spec

(* e2e_establish, _handle_e2e_req, _handle_e2e_ready: an only attempt ends, if it
   does, with the key its peer holds, whatever breaks in between. *)
THEOREM KeysAgree == Spec => []SharedKey
<1>1. KeyInv => SharedKey
  <2>. SUFFICES ASSUME KeyInv, NEW a \in Agent, NEW b \in Agent, session[a][b] # NoAttempt,
                       tries[a][b] = 1, tries[b][a] = 0, {a, b} \cap restarted = {}
                PROVE  session[b][a] = session[a][b]
    BY DEF SharedKey
  <2>1. a # b
    OBVIOUS
  <2>2. Exchange(a, b)
    BY <2>1 DEF KeyInv, Agreed, OnlyTry
  <2>. QED  BY <2>2 DEF Exchange
<1>. QED  BY KeyInvariance, <1>1, PTL
==============================================================================
