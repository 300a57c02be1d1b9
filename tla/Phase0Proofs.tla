---------------------------- MODULE Phase0Proofs ----------------------------
(* What holds of the phase0 layer for any number of nodes and any bounds: of the
   elections of raft.py, of the connections of transport.py and what floods along
   them, and of what dht.py tells of an agent. The three do not interact, and
   share nothing but the set of nodes. *)
EXTENDS Election, Transport, Discovery, SequenceTheorems, FiniteSetTheorems,
        WellFoundedInduction, TLAPS

(***************************************************************************)
(* Elections: what is stored is well typed, a node gives one vote in a     *)
(* term, and nobody sends heartbeats of a term without a vote of another   *)
(* node in it.                                                             *)
(***************************************************************************)

(* What was published, by its kind. *)
Asked(n, term) == Request(n, term) \in published
Led(n, term) == AppendEntries(n, term) \in published

(* A node other than n gave its vote, to whomever, in the term. *)
OtherVoted(n, term) == \E v \in Node \ {n}, c \in Node : Granted(v, term, c)

(***************************************************************************)
(* The inductive invariant.  OneVotePerTerm speaks of what was published,  *)
(* and a voter decides by votedFor, which outlives terms: the two are tied *)
(* together in the term a node is in now (Bound), and no node has voted    *)
(* or stood in a term it has not reached (Reached).  A candidate or leader *)
(* has asked for votes in its term (Standing), so that the granted answer  *)
(* that makes it leader comes from another node.                           *)
(***************************************************************************)
Reached ==
  \A n \in Node, term \in 1..MaxTerm :
     Asked(n, term) \/ (\E c \in Node : Granted(n, term, c)) => term <= currentTerm[n]

Bound ==
  \A n \in Node :
     /\ Asked(n, currentTerm[n]) => votedFor[n] = n
     /\ \A c \in Node : Granted(n, currentTerm[n], c) => votedFor[n] = c

Standing ==
  \A n \in Node :
     /\ state[n] # "follower" => Asked(n, currentTerm[n]) /\ currentTerm[n] # 0
     /\ state[n] = "candidate" => votesReceived[n] < VotesNeeded
     /\ state[n] = "leader" => OtherVoted(n, currentTerm[n])

ElectionInv ==
  /\ TypeOK
  /\ OneVotePerTerm
  /\ HeartbeatsAreElected
  /\ Reached
  /\ Bound
  /\ Standing

(***************************************************************************)
(* Messages.                                                               *)
(***************************************************************************)

(* What publishing a request, an answer or a heartbeat changes, and what not. *)
LEMMA RequestSent ==
  ASSUME NEW n, NEW t, SendRaft(Request(n, t))
  PROVE  /\ \A p, u : Asked(p, u)' <=> Asked(p, u) \/ (p = n /\ u = t)
         /\ \A p, u : Led(p, u)' <=> Led(p, u)
         /\ \A p, u, d : Granted(p, u, d)' <=> Granted(p, u, d)
<1>. SUFFICES ASSUME NEW p, NEW u, NEW d
              PROVE  /\ Asked(p, u)' <=> Asked(p, u) \/ (p = n /\ u = t)
                     /\ Led(p, u)' <=> Led(p, u)
                     /\ Granted(p, u, d)' <=> Granted(p, u, d)
  OBVIOUS
<1>1. published' = published \cup {Request(n, t)}
  BY DEF SendRaft
<1>2. /\ Request(n, t) = Request(p, u) <=> p = n /\ u = t
      /\ Request(n, t) = AppendEntries(p, u) <=> FALSE
      /\ Request(n, t) = Response(p, u, d, TRUE) <=> FALSE
  BY DEF Request, Response, AppendEntries
<1>. QED  BY <1>1, <1>2 DEF Asked, Led, Granted

(* What a response adds to what was asked, granted and led. *)
LEMMA ResponseSent ==
  ASSUME NEW n, NEW t, NEW c, NEW g \in BOOLEAN, SendRaft(Response(n, t, c, g))
  PROVE  /\ \A p, u : Asked(p, u)' <=> Asked(p, u)
         /\ \A p, u : Led(p, u)' <=> Led(p, u)
         /\ \A p, u, d : Granted(p, u, d)'
                           <=> Granted(p, u, d) \/ (g /\ p = n /\ u = t /\ d = c)
<1>. SUFFICES ASSUME NEW p, NEW u, NEW d
              PROVE  /\ Asked(p, u)' <=> Asked(p, u)
                     /\ Led(p, u)' <=> Led(p, u)
                     /\ Granted(p, u, d)' <=> Granted(p, u, d) \/ (g /\ p = n /\ u = t /\ d = c)
  OBVIOUS
<1>1. published' = published \cup {Response(n, t, c, g)}
  BY DEF SendRaft
<1>2. /\ Response(n, t, c, g) = Request(p, u) <=> FALSE
      /\ Response(n, t, c, g) = AppendEntries(p, u) <=> FALSE
      /\ Response(n, t, c, g) = Response(p, u, d, TRUE) <=> g /\ p = n /\ u = t /\ d = c
  BY DEF Request, Response, AppendEntries
<1>. QED  BY <1>1, <1>2 DEF Asked, Led, Granted

(* What a heartbeat adds. *)
LEMMA HeartbeatSent ==
  ASSUME NEW n, NEW t, SendRaft(AppendEntries(n, t))
  PROVE  /\ \A p, u : Asked(p, u)' <=> Asked(p, u)
         /\ \A p, u : Led(p, u)' <=> Led(p, u) \/ (p = n /\ u = t)
         /\ \A p, u, d : Granted(p, u, d)' <=> Granted(p, u, d)
<1>. SUFFICES ASSUME NEW p, NEW u, NEW d
              PROVE  /\ Asked(p, u)' <=> Asked(p, u)
                     /\ Led(p, u)' <=> Led(p, u) \/ (p = n /\ u = t)
                     /\ Granted(p, u, d)' <=> Granted(p, u, d)
  OBVIOUS
<1>1. published' = published \cup {AppendEntries(n, t)}
  BY DEF SendRaft
<1>2. /\ AppendEntries(n, t) = Request(p, u) <=> FALSE
      /\ AppendEntries(n, t) = AppendEntries(p, u) <=> p = n /\ u = t
      /\ AppendEntries(n, t) = Response(p, u, d, TRUE) <=> FALSE
  BY DEF Request, Response, AppendEntries
<1>. QED  BY <1>1, <1>2 DEF Asked, Led, Granted

(* Without a message nothing is added. *)
LEMMA NothingSent ==
  ASSUME UNCHANGED published
  PROVE  /\ \A p, u : Asked(p, u)' <=> Asked(p, u)
         /\ \A p, u : Led(p, u)' <=> Led(p, u)
         /\ \A p, u, d : Granted(p, u, d)' <=> Granted(p, u, d)
BY DEF Asked, Led, Granted

(* A majority of two or more nodes is more than one. *)
LEMMA MajorityIsMany == VotesNeeded \in Nat /\ VotesNeeded > 1
<1>1. Cardinality(Node) \in Nat /\ Cardinality(Node) > 1
  BY ClusterAssumption, FS_CardinalityType
<1>. QED  BY <1>1 DEF VotesNeeded

(***************************************************************************)
(* Every step keeps the invariant.                                         *)
(***************************************************************************)

(* Nobody has voted and nothing is under way at first. *)
LEMMA ElectionInit == Init => ElectionInv
<1>. SUFFICES ASSUME Init  PROVE ElectionInv
  OBVIOUS
<1>1. 0 \in 0..MaxTerm /\ 0 \in 0..VotesNeeded
  BY BoundAssumption, MajorityIsMany
<1>2. TypeOK
  BY <1>1 DEF Init, TypeOK
<1>. QED
  BY <1>2 DEF Init, ElectionInv, OneVotePerTerm, HeartbeatsAreElected, Reached, Bound,
              Standing, Asked, Led, Granted, OtherVoted

(* A new term is one in which nobody has voted or led. *)
LEMMA StartElectionStep ==
  ASSUME ElectionInv, NEW n \in Node, StartElection(n)
  PROVE  ElectionInv'
<1>. DEFINE t == currentTerm[n] + 1
<1>1. /\ TypeOK /\ OneVotePerTerm /\ HeartbeatsAreElected /\ Reached /\ Bound /\ Standing
  BY DEF ElectionInv
<1>2. /\ currentTerm \in [Node -> 0..MaxTerm] /\ currentTerm[n] \in Nat /\ t \in 1..MaxTerm
      /\ votedFor \in [Node -> Node \cup {None}]
      /\ votesReceived \in [Node -> 0..VotesNeeded]
      /\ state \in [Node -> {"follower", "candidate", "leader"}]
  BY <1>1, BoundAssumption DEF TypeOK, StartElection
<1>3. /\ currentTerm' = [currentTerm EXCEPT ![n] = t]
      /\ votedFor' = [votedFor EXCEPT ![n] = n]
      /\ votesReceived' = [votesReceived EXCEPT ![n] = 1]
      /\ state' = [state EXCEPT ![n] = "candidate"]
      /\ leaderId' = [leaderId EXCEPT ![n] = None]
      /\ running' = running
  BY DEF StartElection
<1>4. currentTerm'[n] = t
  BY <1>2, <1>3
<1>5. SendRaft(Request(n, t))
  BY <1>4 DEF StartElection
<1>. HIDE DEF t
<1>6. /\ \A p, u : Asked(p, u)' <=> Asked(p, u) \/ (p = n /\ u = t)
      /\ \A p, u : Led(p, u)' <=> Led(p, u)
      /\ \A p, u, d : Granted(p, u, d)' <=> Granted(p, u, d)
  BY <1>5, RequestSent
<1>7. TypeOK'
  <2>1. Request(n, t) \in Message
    BY <1>2 DEF Request, Message
  <2>2. published' \subseteq Message
    BY <1>1, <1>5, <2>1 DEF TypeOK, SendRaft
  <2>. QED  BY <1>1, <1>2, <1>3, <2>2, MajorityIsMany DEF TypeOK
<1>8. t > currentTerm[n]
  BY <1>2 DEF t
<1>9. ~Asked(n, t) /\ \A c \in Node : ~Granted(n, t, c)
  BY <1>1, <1>2, <1>8 DEF Reached
<1>10. OneVotePerTerm'
  BY <1>1, <1>6, <1>9 DEF OneVotePerTerm, Asked
<1>11. HeartbeatsAreElected'
  BY <1>1, <1>6 DEF HeartbeatsAreElected, Asked, Led
<1>12. Reached'
  BY <1>1, <1>2, <1>3, <1>6, <1>8 DEF Reached
<1>13. Bound'
  BY <1>1, <1>2, <1>3, <1>6, <1>9 DEF Bound
<1>14. Standing'
  BY <1>1, <1>2, <1>3, <1>6, MajorityIsMany DEF Standing, OtherVoted
<1>. QED  BY <1>7, <1>10, <1>11, <1>12, <1>13, <1>14 DEF ElectionInv

(* A vote is given in the voter's own term, as far as it has come by then, to
   whom it is bound to or, if it is bound to none, to the first that asks. *)
LEMMA RequestVoteStep ==
  ASSUME ElectionInv, NEW n \in Node, NEW m \in published, HandleRequestVote(n, m)
  PROVE  ElectionInv'
<1>. DEFINE newer == Outdated(n, m.term)
            vote == IF newer THEN None ELSE votedFor[n]
            t == IF newer THEN m.term ELSE currentTerm[n]
            g == m.term >= t /\ vote \in {None, m.candidate}
            c == m.candidate
<1>1. /\ TypeOK /\ OneVotePerTerm /\ HeartbeatsAreElected /\ Reached /\ Bound /\ Standing
  BY DEF ElectionInv
<1>2. /\ currentTerm \in [Node -> 0..MaxTerm]
      /\ votedFor \in [Node -> Node \cup {None}]
      /\ votesReceived \in [Node -> 0..VotesNeeded]
      /\ state \in [Node -> {"follower", "candidate", "leader"}]
  BY <1>1 DEF TypeOK
<1>3. /\ m.term \in 1..MaxTerm /\ c \in Node /\ c # n
      /\ m = Request(c, m.term)
  BY <1>1 DEF TypeOK, Message, HandleRequestVote, Request
<1>4. /\ currentTerm' = [currentTerm EXCEPT ![n] = t]
      /\ votedFor' = [votedFor EXCEPT ![n] = IF g THEN c ELSE vote]
      /\ state' = [state EXCEPT ![n] = IF newer THEN "follower" ELSE @]
      /\ UNCHANGED <<leaderId, votesReceived, running>>
      /\ SendRaft(Response(n, t, c, g))
  BY DEF HandleRequestVote
<1>5. /\ newer <=> m.term > currentTerm[n]
      /\ currentTerm[n] \in 0..MaxTerm
  BY <1>2 DEF Outdated
<1>6. /\ g \in BOOLEAN
      /\ t \in 1..MaxTerm
      /\ currentTerm[n] <= t
      /\ newer => t = m.term /\ currentTerm[n] < t
      /\ ~newer => t = currentTerm[n] /\ vote = votedFor[n]
      /\ g => t = m.term
      /\ g => vote = None \/ vote = c
      /\ newer => vote = None
  BY <1>3, <1>5, BoundAssumption
<1>7. vote \in Node \cup {None}
  BY <1>2
<1>. HIDE DEF newer, vote, t, g, c
<1>8. /\ \A p, u : Asked(p, u)' <=> Asked(p, u)
      /\ \A p, u : Led(p, u)' <=> Led(p, u)
      /\ \A p, u, d : Granted(p, u, d)'
                        <=> Granted(p, u, d) \/ (g /\ p = n /\ u = t /\ d = c)
  BY <1>4, <1>6, ResponseSent
<1>9. currentTerm' \in [Node -> 0..MaxTerm] /\ currentTerm'[n] = t
  BY <1>2, <1>4, <1>6
<1>10. TypeOK'
  <2>1. Response(n, t, c, g) \in Message
    BY <1>3, <1>6 DEF Response, Message
  <2>2. published' \subseteq Message
    BY <1>1, <1>4, <2>1 DEF TypeOK, SendRaft
  <2>. QED  BY <1>1, <1>2, <1>3, <1>4, <1>7, <1>9, <2>2 DEF TypeOK
\* The vote of the term, if one was given, is the one given before.
<1>11. /\ Asked(n, t) => ~newer /\ vote = n
       /\ \A d \in Node : Granted(n, t, d) => ~newer /\ vote = d
  BY <1>1, <1>2, <1>6 DEF Reached, Bound
<1>12. OneVotePerTerm'
  BY <1>1, <1>3, <1>6, <1>8, <1>11, NoneAssumption DEF OneVotePerTerm, Asked
<1>13. HeartbeatsAreElected'
  <2>. SUFFICES ASSUME NEW p \in Node, NEW u \in 1..MaxTerm, Led(p, u)'
                PROVE  (Asked(p, u) /\ OtherVoted(p, u))'
    BY DEF HeartbeatsAreElected, Asked, Led, OtherVoted
  <2>1. Asked(p, u) /\ OtherVoted(p, u)
    BY <1>1, <1>8 DEF HeartbeatsAreElected, Asked, Led, OtherVoted
  <2>. QED  BY <1>8, <2>1 DEF OtherVoted
<1>14. Reached'
  BY <1>1, <1>2, <1>4, <1>6, <1>8, <1>9 DEF Reached
<1>15. Bound'
  <2>. SUFFICES ASSUME NEW p \in Node
                PROVE  (/\ Asked(p, currentTerm[p]) => votedFor[p] = p
                        /\ \A d \in Node : Granted(p, currentTerm[p], d) => votedFor[p] = d)'
    BY DEF Bound
  <2>1. CASE p = n
    BY <1>2, <1>3, <1>4, <1>6, <1>8, <1>9, <1>11, <2>1, NoneAssumption
  <2>2. CASE p # n
    BY <1>1, <1>2, <1>4, <1>8, <2>2 DEF Bound
  <2>. QED  BY <2>1, <2>2
<1>16. Standing'
  <2>. SUFFICES ASSUME NEW p \in Node
                PROVE  (/\ state[p] # "follower" => Asked(p, currentTerm[p]) /\ currentTerm[p] # 0
                        /\ state[p] = "candidate" => votesReceived[p] < VotesNeeded
                        /\ state[p] = "leader" => OtherVoted(p, currentTerm[p]))'
    BY DEF Standing
  <2>1. state'[p] # "follower" => state'[p] = state[p] /\ currentTerm'[p] = currentTerm[p]
    BY <1>2, <1>4, <1>6
  <2>. QED  BY <1>1, <1>4, <1>8, <2>1 DEF Standing, OtherVoted
<1>. QED  BY <1>10, <1>12, <1>13, <1>14, <1>15, <1>16 DEF ElectionInv

(* A step that publishes nothing and at which one node, if it reaches a new term,
   becomes a follower there: whatever vote it keeps, it has given none in it. *)
LEMMA TermReached ==
  ASSUME ElectionInv, UNCHANGED published,
         NEW n \in Node, NEW t \in 1..MaxTerm, t >= currentTerm[n],
         currentTerm' = [currentTerm EXCEPT ![n] = t],
         state' = [state EXCEPT ![n] = "follower"],
         \/ votedFor' = [votedFor EXCEPT ![n] = None] /\ t # currentTerm[n]
         \/ votedFor' = votedFor,
         leaderId' \in [Node -> Node \cup {None}],
         \A p \in Node \ {n} : leaderId'[p] = leaderId[p],
         UNCHANGED <<votesReceived, running>>
  PROVE  ElectionInv'
<1>1. /\ TypeOK /\ OneVotePerTerm /\ HeartbeatsAreElected /\ Reached /\ Bound /\ Standing
  BY DEF ElectionInv
<1>2. /\ currentTerm \in [Node -> 0..MaxTerm]
      /\ votedFor \in [Node -> Node \cup {None}]
      /\ state \in [Node -> {"follower", "candidate", "leader"}]
  BY <1>1 DEF TypeOK
<1>3. /\ \A p, u : Asked(p, u)' <=> Asked(p, u)
      /\ \A p, u : Led(p, u)' <=> Led(p, u)
      /\ \A p, u, d : Granted(p, u, d)' <=> Granted(p, u, d)
  BY NothingSent
<1>4. TypeOK'
  BY <1>1, <1>2 DEF TypeOK
<1>5. OneVotePerTerm' /\ HeartbeatsAreElected'
  BY <1>1, <1>3 DEF OneVotePerTerm, HeartbeatsAreElected, Asked, Led
<1>6. Reached'
  BY <1>1, <1>2, <1>3, BoundAssumption DEF Reached
<1>7. Bound'
  <2>. SUFFICES ASSUME NEW p \in Node
                PROVE  (/\ Asked(p, currentTerm[p]) => votedFor[p] = p
                        /\ \A d \in Node : Granted(p, currentTerm[p], d) => votedFor[p] = d)'
    BY DEF Bound
  <2>1. CASE p = n /\ t # currentTerm[n]
    <3>1. ~Asked(n, t) /\ \A d \in Node : ~Granted(n, t, d)
      BY <1>1, <1>2, <2>1 DEF Reached
    <3>. QED  BY <1>2, <1>3, <2>1, <3>1
  <2>2. CASE ~(p = n /\ t # currentTerm[n])
    BY <1>1, <1>2, <1>3, <2>2 DEF Bound
  <2>. QED  BY <2>1, <2>2
<1>8. Standing'
  <2>. SUFFICES ASSUME NEW p \in Node
                PROVE  (/\ state[p] # "follower" => Asked(p, currentTerm[p]) /\ currentTerm[p] # 0
                        /\ state[p] = "candidate" => votesReceived[p] < VotesNeeded
                        /\ state[p] = "leader" => OtherVoted(p, currentTerm[p]))'
    BY DEF Standing
  <2>1. state'[p] # "follower" => state'[p] = state[p] /\ currentTerm'[p] = currentTerm[p]
    BY <1>2
  <2>. QED  BY <1>1, <1>3, <2>1 DEF Standing, OtherVoted
<1>. QED  BY <1>4, <1>5, <1>6, <1>7, <1>8 DEF ElectionInv

(* An answer is counted in the term it is of; the one that makes a leader came
   from another node, since a candidate gives itself no vote in an answer. *)
LEMMA ResponseStep ==
  ASSUME ElectionInv, NEW n \in Node, NEW m \in published, HandleResponse(n, m)
  PROVE  ElectionInv'
<1>1. /\ TypeOK /\ OneVotePerTerm /\ HeartbeatsAreElected /\ Reached /\ Bound /\ Standing
  BY DEF ElectionInv
<1>2. /\ currentTerm \in [Node -> 0..MaxTerm]
      /\ votedFor \in [Node -> Node \cup {None}]
      /\ votesReceived \in [Node -> 0..VotesNeeded]
      /\ leaderId \in [Node -> Node \cup {None}]
      /\ state \in [Node -> {"follower", "candidate", "leader"}]
  BY <1>1 DEF TypeOK
<1>3. /\ m.type = "request_vote_response" /\ state[n] = "candidate"
      /\ UNCHANGED <<running, published>>
  BY DEF HandleResponse, Counting
<1>4. /\ m.term \in 1..MaxTerm /\ m.from \in Node /\ m.candidate \in Node
      /\ m.granted \in BOOLEAN
      /\ m = Response(m.from, m.term, m.candidate, m.granted)
  BY <1>1, <1>3 DEF TypeOK, Message, Response
<1>5. CASE /\ m.term > currentTerm[n]
           /\ currentTerm' = [currentTerm EXCEPT ![n] = m.term]
           /\ state' = [state EXCEPT ![n] = "follower"]
           /\ votedFor' = [votedFor EXCEPT ![n] = None]
           /\ UNCHANGED <<leaderId, votesReceived>>
  <2>1. m.term >= currentTerm[n] /\ m.term # currentTerm[n]
    BY <1>2, <1>4, <1>5
  <2>. QED  BY <1>2, <1>3, <1>4, <1>5, <2>1, TermReached
<1>6. CASE /\ Current(n, m)
           /\ m.granted
           /\ votesReceived' = [votesReceived EXCEPT ![n] = @ + 1]
           /\ IF votesReceived'[n] >= VotesNeeded THEN BecomeLeader(n)
                                                  ELSE UNCHANGED <<state, leaderId>>
           /\ UNCHANGED <<currentTerm, votedFor>>
  <2>1. /\ \A p, u : Asked(p, u)' <=> Asked(p, u)
        /\ \A p, u : Led(p, u)' <=> Led(p, u)
        /\ \A p, u, d : Granted(p, u, d)' <=> Granted(p, u, d)
    BY <1>3, NothingSent
  <2>2. /\ votesReceived[n] \in Nat /\ votesReceived[n] < VotesNeeded
        /\ Asked(n, currentTerm[n])
    BY <1>1, <1>2, <1>3 DEF Standing
  <2>3. votesReceived' \in [Node -> 0..VotesNeeded] /\ votesReceived'[n] = votesReceived[n] + 1
    BY <1>2, <1>6, <2>2, MajorityIsMany
  <2>4. \/ /\ state' = [state EXCEPT ![n] = "leader"]
           /\ leaderId' = [leaderId EXCEPT ![n] = n]
        \/ /\ UNCHANGED <<state, leaderId>>
           /\ votesReceived'[n] < VotesNeeded
    BY <1>6, <2>3, MajorityIsMany DEF BecomeLeader
  <2>5. TypeOK'
    BY <1>1, <1>2, <1>3, <1>6, <2>3, <2>4 DEF TypeOK
  <2>6. OneVotePerTerm' /\ HeartbeatsAreElected' /\ Reached' /\ Bound'
    BY <1>1, <1>6, <2>1 DEF OneVotePerTerm, HeartbeatsAreElected, Reached, Bound, Asked, Led
  <2>7. OtherVoted(n, currentTerm[n])
    <3>1. Granted(m.from, m.term, m.candidate) /\ m.term = currentTerm[n]
      BY <1>4, <1>6 DEF Granted, Current
    <3>2. m.from # n
      BY <1>1, <1>4, <2>2, <3>1 DEF OneVotePerTerm, Asked
    <3>. QED  BY <1>4, <3>1, <3>2 DEF OtherVoted
  <2>8. Standing'
    <3>. SUFFICES ASSUME NEW p \in Node
                  PROVE  (/\ state[p] # "follower" => Asked(p, currentTerm[p]) /\ currentTerm[p] # 0
                          /\ state[p] = "candidate" => votesReceived[p] < VotesNeeded
                          /\ state[p] = "leader" => OtherVoted(p, currentTerm[p]))'
      BY DEF Standing
    <3>1. CASE p = n
      <4>1. currentTerm[n] # 0 /\ currentTerm' = currentTerm
        BY <1>1, <1>3, <1>6 DEF Standing
      <4>2. state'[n] = "candidate" => votesReceived'[n] < VotesNeeded
        BY <1>2, <2>4
      <4>. QED  BY <2>1, <2>2, <2>7, <3>1, <4>1, <4>2 DEF OtherVoted
    <3>2. CASE p # n
      BY <1>1, <1>2, <1>6, <2>1, <2>4, <3>2 DEF Standing, OtherVoted
    <3>. QED  BY <3>1, <3>2
  <2>. QED  BY <2>5, <2>6, <2>8 DEF ElectionInv
<1>. QED  BY <1>5, <1>6 DEF HandleResponse

(* A heartbeat is of the leader's term, which it was elected in. *)
LEMMA HeartbeatStep ==
  ASSUME ElectionInv, NEW n \in Node, Heartbeat(n)
  PROVE  ElectionInv'
<1>. DEFINE t == currentTerm[n]
<1>1. /\ TypeOK /\ OneVotePerTerm /\ HeartbeatsAreElected /\ Reached /\ Bound /\ Standing
  BY DEF ElectionInv
<1>2. /\ state[n] = "leader" /\ SendRaft(AppendEntries(n, t))
      /\ UNCHANGED <<state, currentTerm, votedFor, leaderId, votesReceived, running>>
  BY DEF Heartbeat
<1>3. t \in 1..MaxTerm /\ Asked(n, t) /\ OtherVoted(n, t)
  BY <1>1, <1>2 DEF TypeOK, Standing
<1>. HIDE DEF t
<1>4. /\ \A p, u : Asked(p, u)' <=> Asked(p, u)
      /\ \A p, u : Led(p, u)' <=> Led(p, u) \/ (p = n /\ u = t)
      /\ \A p, u, d : Granted(p, u, d)' <=> Granted(p, u, d)
  BY <1>2, HeartbeatSent
<1>5. TypeOK'
  <2>1. AppendEntries(n, t) \in Message
    BY <1>3 DEF AppendEntries, Message
  <2>. QED  BY <1>1, <1>2, <2>1 DEF TypeOK, SendRaft
<1>6. OneVotePerTerm' /\ Reached' /\ Bound' /\ Standing'
  BY <1>1, <1>2, <1>4 DEF OneVotePerTerm, Reached, Bound, Standing, OtherVoted, Asked
<1>7. HeartbeatsAreElected'
  <2>. SUFFICES ASSUME NEW p \in Node, NEW u \in 1..MaxTerm, Led(p, u)'
                PROVE  (Asked(p, u) /\ OtherVoted(p, u))'
    BY DEF HeartbeatsAreElected, Asked, Led, OtherVoted
  <2>1. Asked(p, u) /\ OtherVoted(p, u)
    BY <1>1, <1>3, <1>4 DEF HeartbeatsAreElected, Asked, Led, OtherVoted
  <2>. QED  BY <1>4, <2>1 DEF OtherVoted
<1>. QED  BY <1>5, <1>6, <1>7 DEF ElectionInv

(* Every step keeps the invariant. *)
LEMMA ElectionStep == ElectionInv /\ [Next]_vars => ElectionInv'
<1>. SUFFICES ASSUME ElectionInv, [Next]_vars  PROVE ElectionInv'
  OBVIOUS
<1>1. ASSUME NEW n \in Node, StartElection(n)  PROVE ElectionInv'
  BY <1>1, StartElectionStep
<1>2. ASSUME NEW n \in Node, Heartbeat(n)  PROVE ElectionInv'
  BY <1>2, HeartbeatStep
<1>3. ASSUME NEW n \in Node, NEW m \in published, HandleRequestVote(n, m)
      PROVE  ElectionInv'
  BY <1>3, RequestVoteStep
<1>4. ASSUME NEW n \in Node, NEW m \in published, HandleResponse(n, m)
      PROVE  ElectionInv'
  BY <1>4, ResponseStep
<1>5. ASSUME NEW n \in Node, NEW m \in published, HandleAppendEntries(n, m)
      PROVE  ElectionInv'
  <2>1. /\ leaderId \in [Node -> Node \cup {None}]
        /\ m.leader \in Node /\ m.term \in 1..MaxTerm
    BY <1>5 DEF ElectionInv, TypeOK, Message, HandleAppendEntries
  <2>2. /\ m.term >= currentTerm[n]
        /\ currentTerm' = [currentTerm EXCEPT ![n] = m.term]
        /\ state' = [state EXCEPT ![n] = "follower"]
        /\ leaderId' = [leaderId EXCEPT ![n] = m.leader]
        /\ UNCHANGED <<votedFor, votesReceived, running, published>>
    BY <1>5 DEF HandleAppendEntries, Follows
  <2>. QED  BY <2>1, <2>2, TermReached
<1>6. ASSUME NEW n \in Node, StopRaft(n)  PROVE ElectionInv'
  <2>1. /\ running' \subseteq running
        /\ UNCHANGED <<state, currentTerm, votedFor, leaderId, votesReceived, published>>
    BY <1>6 DEF StopRaft
  <2>. QED
    BY <2>1, NothingSent DEF ElectionInv, TypeOK, OneVotePerTerm, HeartbeatsAreElected,
                             Reached, Bound, Standing, OtherVoted, Asked, Led, Granted
<1>7. CASE UNCHANGED vars
  BY <1>7 DEF vars, ElectionInv, TypeOK, OneVotePerTerm, HeartbeatsAreElected,
              Reached, Bound, Standing, OtherVoted, Asked, Led, Granted
<1>. QED
  BY <1>1, <1>2, <1>3, <1>4, <1>5, <1>6, <1>7 DEF Next, OnRaftMsg

(* The invariant holds of every behaviour. *)
THEOREM ElectionInvariance == Spec => []ElectionInv
<1>1. Init => ElectionInv
  BY ElectionInit
<1>2. ElectionInv /\ [Next]_vars => ElectionInv'
  BY ElectionStep
<1>. QED  BY <1>1, <1>2, PTL DEF Spec

(* What the nodes hold and publish is well formed; a candidate is never left
   with all the votes it needs, and a leader holds itself for the leader. *)
THEOREM ElectionTyped == Spec => []TypeOK
<1>1. ElectionInv => TypeOK
  BY DEF ElectionInv
<1>. QED  BY <1>1, ElectionInvariance, PTL

(* In a term a node votes for one candidate at most, itself if it stands, in
   every cluster and however its messages are lost, repeated and overtaken. *)
THEOREM SingleVote == Spec => []OneVotePerTerm
<1>1. ElectionInv => OneVotePerTerm
  BY DEF ElectionInv
<1>. QED  BY <1>1, ElectionInvariance, PTL

(* Heartbeats of a term come only from nodes that stood in it, and after another
   node has voted in it. *)
THEOREM HeartbeatsElected == Spec => []HeartbeatsAreElected
<1>1. ElectionInv => HeartbeatsAreElected
  BY DEF ElectionInv
<1>. QED  BY <1>1, ElectionInvariance, PTL

(***************************************************************************)
(* The transport.  A table may name a connection that broke: its writer    *)
(* stays until the handler at its end is done.  What must hold is that the *)
(* handler drops every name its connection has by then, also those it got  *)
(* by a hello or a publication that came late; so the invariant speaks of  *)
(* every name in every table and the handler of what it stands for.        *)
(***************************************************************************)

(* A list of records that have the ends of a connection and its handler. *)
Shaped(cs) ==
  /\ \E S : cs \in Seq(S)
  /\ \A c \in DOMAIN cs : {"from", "to", "server"} \subseteq DOMAIN cs[c]

(* The same connections, between the same nodes, and the same handlers run. *)
SameEnds(cs, ds) ==
  /\ DOMAIN ds = DOMAIN cs
  /\ \A c \in DOMAIN cs : /\ ds[c].from = cs[c].from /\ ds[c].to = cs[c].to
                          /\ ds[c].server = cs[c].server

(* What the tables name are connections, and no handler that n is written to by
   has ended. *)
Live(n, c, cs) == c \in DOMAIN cs /\ (cs[c].to = n => cs[c].server = "open")
Tables(t, cs) ==
  /\ DOMAIN t = Node
  /\ \A n \in Node : \A k \in DOMAIN t[n] : Live(n, t[n][k], cs)

TcpInv == Shaped(conns) /\ Tables(table, conns)

(* Writing to connections leaves their ends and handlers alone. *)
LEMMA BroadcastKeeps ==
  ASSUME NEW cs, Shaped(cs), NEW n, NEW t, NEW m, NEW except
  PROVE  LET ds == TcpBroadcast(cs, n, t, m, except)
         IN Shaped(ds) /\ SameEnds(cs, ds)
<1>. DEFINE lines(c) == Lines(t, c, Pub(m, n), except)
            ds == [c \in DOMAIN cs |-> Written(cs[c], n, lines(c))]
<1>1. ASSUME NEW c \in DOMAIN cs
      PROVE  /\ {"from", "to", "server"} \subseteq DOMAIN ds[c]
             /\ ds[c].from = cs[c].from /\ ds[c].to = cs[c].to
             /\ ds[c].server = cs[c].server
  <2>1. ds[c] = Written(cs[c], n, lines(c))
    OBVIOUS
  <2>. HIDE DEF ds, lines
  <2>. QED  BY <2>1 DEF Written, Shaped
<1>2. \E S : ds \in Seq(S)
  <2>1. PICK S : cs \in Seq(S)
    BY DEF Shaped
  <2>2. DOMAIN cs = 1..Len(cs) /\ Len(cs) \in Nat
    BY <2>1
  <2>3. ds \in Seq({ds[c] : c \in DOMAIN cs})
    BY <2>2
  <2>. QED  BY <2>3
<1>3. TcpBroadcast(cs, n, t, m, except) = ds
  BY DEF TcpBroadcast
<1>4. DOMAIN ds = DOMAIN cs
  OBVIOUS
<1>. HIDE DEF ds
<1>. QED  BY <1>1, <1>2, <1>3, <1>4 DEF Shaped, SameEnds

(* Sending a message on to the other connections is a broadcast. *)
LEMMA ForwardKeeps ==
  ASSUME NEW cs, Shaped(cs), NEW n, NEW t, NEW m, NEW key
  PROVE  LET ds == Forwarded(cs, n, t, m, key)
         IN Shaped(ds) /\ SameEnds(cs, ds)
BY BroadcastKeeps DEF Forwarded, SameEnds

(* A change to one connection that leaves its ends and handler alone. *)
LEMMA ChangeKeeps ==
  ASSUME NEW cs, Shaped(cs), NEW c \in DOMAIN cs, NEW new,
         {"from", "to", "server"} \subseteq DOMAIN new,
         new.from = cs[c].from, new.to = cs[c].to
  PROVE  /\ Shaped([cs EXCEPT ![c] = new])
         /\ new.server = cs[c].server => SameEnds(cs, [cs EXCEPT ![c] = new])
<1>1. PICK S : cs \in Seq(S)
  BY DEF Shaped
<1>2. [cs EXCEPT ![c] = new] \in Seq(S \cup {new})
  BY <1>1
<1>. QED  BY <1>2 DEF Shaped, SameEnds

(* The ends do not tell what a table may name. *)
LEMMA LiveStays ==
  ASSUME NEW cs, NEW ds, SameEnds(cs, ds), NEW n, NEW c, Live(n, c, cs)
  PROVE  Live(n, c, ds)
BY DEF Live, SameEnds

(* A change of the connections that keeps their ends keeps the tables live. *)
LEMMA TablesStay ==
  ASSUME NEW t, NEW cs, NEW ds, Tables(t, cs), SameEnds(cs, ds)
  PROVE  Tables(t, ds)
BY LiveStays DEF Tables

(* A table in which one name more is written to a live connection. *)
LEMMA EnteredLives ==
  ASSUME NEW t, NEW cs, NEW n \in Node, NEW key, NEW c, Tables(t, cs), Live(n, c, cs)
  PROVE  Tables([t EXCEPT ![n] = Entered(@, key, c)], cs)
BY DEF Tables, Entered

(* So does one whose temporary name is replaced by the peer's id. *)
LEMMA RenamedLives ==
  ASSUME NEW t, NEW cs, NEW n \in Node, NEW key, NEW id, NEW c, Tables(t, cs), Live(n, c, cs)
  PROVE  Tables([t EXCEPT ![n] = Renamed(t[n], key, id, c)], cs)
BY DEF Tables, Renamed, Entered, Without

(* The network starts without a connection and without a name in a table. *)
LEMMA TcpStarts == TcpInit => TcpInv
<1>1. Shaped(<<>>)
  <2>1. <<>> \in Seq({}) /\ DOMAIN <<>> = {}
    OBVIOUS
  <2>. QED  BY <2>1 DEF Shaped
<1>. QED  BY <1>1 DEF TcpInit, TcpInv, Tables

(* A step of the transport keeps every table on live connections. *)
LEMMA TcpStep ==
  ASSUME TcpInv, [TcpNext]_tcpVars
  PROVE  TcpInv'
<1>0. Shaped(conns) /\ Tables(table, conns) /\ Dials \subseteq Node \X Node
  BY DialsAssumption DEF TcpInv
<1>. DEFINE Fields == {"from", "to", "server"}
            Goal == Shaped(conns') /\ Tables(table', conns')
<1>1. ASSUME UNCHANGED tcpVars  PROVE Goal
  BY <1>0, <1>1 DEF tcpVars
<1>2. ASSUME NEW d \in Dials, Dial(d[1], d[2])  PROVE Goal
  <2>. DEFINE n == d[1]
              c == Len(conns) + 1
              new == [from |-> n, to |-> d[2], key |-> NoKey, cut |-> FALSE,
                      client |-> "open", server |-> "open",
                      toServer |-> <<Hello>>, toClient |-> <<>>]
  <2>1. n \in Node /\ conns' = Append(conns, new)
        /\ table' = [table EXCEPT ![n] = Entered(@, Id(d[2]), c)]
    BY <1>0, <1>2 DEF Dial
  <2>2. new.server = "open" /\ Fields \subseteq DOMAIN new
    OBVIOUS
  <2>. HIDE DEF new
  <2>3. PICK S : conns \in Seq(S)
    BY <1>0 DEF Shaped
  <2>4. /\ Append(conns, new) \in Seq(S \cup {new})
        /\ DOMAIN conns = 1..Len(conns) /\ Len(conns) \in Nat
        /\ DOMAIN Append(conns, new) = 1..c
        /\ Append(conns, new)[c] = new
        /\ \A i \in 1..Len(conns) : Append(conns, new)[i] = conns[i]
    BY <2>3
  <2>5. Shaped(conns')
    <3>1. \A i \in 1..c : Fields \subseteq DOMAIN conns'[i]
      BY <1>0, <2>1, <2>2, <2>4 DEF Shaped
    <3>. QED  BY <2>1, <2>4, <3>1 DEF Shaped
  <2>6. Tables(table, conns')
    BY <1>0, <2>1, <2>4 DEF Tables, Live
  <2>7. Live(n, c, conns')
    BY <2>1, <2>2, <2>4 DEF Live
  <2>. HIDE DEF n, c
  <2>. QED  BY <2>1, <2>5, <2>6, <2>7, EnteredLives
<1>3. ASSUME NEW c \in DOMAIN conns, ClientRead(c)  PROVE Goal
  <2>. DEFINE new == [conns[c] EXCEPT !.toClient = Tail(@)]
              rest == [conns EXCEPT ![c] = new]
  <2>1. /\ conns' = Forwarded(rest, conns[c].from, table[conns[c].from],
                                  Head(conns[c].toClient).id, Id(conns[c].to))
        /\ table' = table
    BY <1>3 DEF ClientRead
  <2>2. Fields \subseteq DOMAIN conns[c]
    BY <1>0 DEF Shaped
  <2>3. /\ Fields \subseteq DOMAIN new /\ new.from = conns[c].from
        /\ new.to = conns[c].to /\ new.server = conns[c].server
    BY <2>2
  <2>. HIDE DEF new
  <2>4. Shaped(rest) /\ SameEnds(conns, rest)
    BY <1>0, <2>3, ChangeKeeps
  <2>. HIDE DEF rest
  <2>5. Shaped(conns') /\ SameEnds(rest, conns')
    BY <2>1, <2>4, ForwardKeeps
  <2>. QED  BY <1>0, <2>1, <2>4, <2>5, TablesStay
<1>4. ASSUME NEW c \in DOMAIN conns, ClientEnd(c)  PROVE Goal
  <2>. DEFINE new == [conns[c] EXCEPT !.client = "closed"]
  <2>1. conns' = [conns EXCEPT ![c] = new] /\ table' = table
    BY <1>4 DEF ClientEnd
  <2>2. Fields \subseteq DOMAIN conns[c]
    BY <1>0 DEF Shaped
  <2>3. /\ Fields \subseteq DOMAIN new /\ new.from = conns[c].from
        /\ new.to = conns[c].to /\ new.server = conns[c].server
    BY <2>2
  <2>. HIDE DEF new
  <2>. QED  BY <1>0, <2>1, <2>3, ChangeKeeps, TablesStay
<1>5. ASSUME NEW c \in DOMAIN conns, ServerHello(c)  PROVE Goal
  <2>. DEFINE n == conns[c].to
              key == Did(conns[c].from)
              new == [conns[c] EXCEPT !.key = key, !.toServer = Tail(@)]
  <2>1. /\ conns[c].server = "open" /\ conns' = [conns EXCEPT ![c] = new]
        /\ table' = [table EXCEPT ![n] = Entered(@, key, c)]
    BY <1>5 DEF ServerHello
  <2>2. Fields \subseteq DOMAIN conns[c]
    BY <1>0 DEF Shaped
  <2>3. /\ Fields \subseteq DOMAIN new /\ new.from = conns[c].from
        /\ new.to = conns[c].to /\ new.server = conns[c].server
    BY <2>2
  <2>. HIDE DEF new, key
  <2>4. Shaped(conns') /\ SameEnds(conns, conns')
    BY <1>0, <2>1, <2>3, ChangeKeeps
  <2>5. Tables(table, conns') /\ Live(n, c, conns')
    BY <1>0, <2>1, <2>4, TablesStay DEF Live, SameEnds
  <2>. HIDE DEF n
  <2>6. Tables(table', conns')
    <3>1. CASE n \in Node
      BY <2>1, <2>5, <3>1, EnteredLives
    <3>2. CASE n \notin Node
      BY <1>0, <2>1, <2>5, <3>2 DEF Tables
    <3>. QED  BY <3>1, <3>2
  <2>. QED  BY <2>4, <2>6
<1>6. ASSUME NEW c \in DOMAIN conns, HelloTimeout(c)  PROVE Goal
  <2>. DEFINE n == conns[c].to
              key == Tcp(c)
              new == [conns[c] EXCEPT !.key = key]
  <2>1. /\ conns[c].server = "open" /\ conns' = [conns EXCEPT ![c] = new]
        /\ table' = [table EXCEPT ![n] = Entered(@, key, c)]
    BY <1>6 DEF HelloTimeout
  <2>2. Fields \subseteq DOMAIN conns[c]
    BY <1>0 DEF Shaped
  <2>3. /\ Fields \subseteq DOMAIN new /\ new.from = conns[c].from
        /\ new.to = conns[c].to /\ new.server = conns[c].server
    BY <2>2
  <2>. HIDE DEF new, key
  <2>4. Shaped(conns') /\ SameEnds(conns, conns')
    BY <1>0, <2>1, <2>3, ChangeKeeps
  <2>5. Tables(table, conns') /\ Live(n, c, conns')
    BY <1>0, <2>1, <2>4, TablesStay DEF Live, SameEnds
  <2>. HIDE DEF n
  <2>6. Tables(table', conns')
    <3>1. CASE n \in Node
      BY <2>1, <2>5, <3>1, EnteredLives
    <3>2. CASE n \notin Node
      BY <1>0, <2>1, <2>5, <3>2 DEF Tables
    <3>. QED  BY <3>1, <3>2
  <2>. QED  BY <2>4, <2>6
<1>7. ASSUME NEW c \in DOMAIN conns, ServerReadPub(c)  PROVE Goal
  <2>. DEFINE n == conns[c].to
              item == Head(conns[c].toServer)
              id == Id(item.from)
              t == Renamed(table[n], conns[c].key, id, c)
              new == [conns[c] EXCEPT !.toServer = Tail(@), !.key = id]
              rest == [conns EXCEPT ![c] = new]
  <2>1. /\ conns[c].server = "open"
        /\ conns' = Forwarded(rest, n, t, item.id, id)
        /\ table' = [table EXCEPT ![n] = t]
    BY <1>7 DEF ServerReadPub, Accepted
  <2>2. Fields \subseteq DOMAIN conns[c]
    BY <1>0 DEF Shaped
  <2>3. /\ Fields \subseteq DOMAIN new /\ new.from = conns[c].from
        /\ new.to = conns[c].to /\ new.server = conns[c].server
    BY <2>2
  <2>. HIDE DEF new
  <2>4. Shaped(rest) /\ SameEnds(conns, rest)
    BY <1>0, <2>3, ChangeKeeps
  <2>5. Shaped(conns') /\ SameEnds(rest, conns')
    <3>. HIDE DEF rest
    <3>. QED  BY <2>1, <2>4, ForwardKeeps
  <2>6. SameEnds(conns, conns')
    BY <2>4, <2>5 DEF SameEnds
  <2>7. Tables(table, conns') /\ Live(n, c, conns')
    BY <1>0, <2>1, <2>6, TablesStay DEF Live, SameEnds
  <2>. HIDE DEF n, id, rest
  <2>8. Tables(table', conns')
    <3>1. CASE n \in Node
      BY <2>1, <2>7, <3>1, RenamedLives
    <3>2. CASE n \notin Node
      BY <1>0, <2>1, <2>7, <3>2 DEF Tables
    <3>. QED  BY <3>1, <3>2
  <2>. QED  BY <2>5, <2>8
<1>8. ASSUME NEW c \in DOMAIN conns, ServerReadHello(c)  PROVE Goal
  <2>. DEFINE new == [conns[c] EXCEPT !.toServer = Tail(@)]
  <2>1. conns' = [conns EXCEPT ![c] = new] /\ table' = table
    BY <1>8 DEF ServerReadHello
  <2>2. Fields \subseteq DOMAIN conns[c]
    BY <1>0 DEF Shaped
  <2>3. /\ Fields \subseteq DOMAIN new /\ new.from = conns[c].from
        /\ new.to = conns[c].to /\ new.server = conns[c].server
    BY <2>2
  <2>. HIDE DEF new
  <2>. QED  BY <1>0, <2>1, <2>3, ChangeKeeps, TablesStay
<1>9. ASSUME NEW c \in DOMAIN conns, ServerEnd(c)  PROVE Goal
  <2>. DEFINE n == conns[c].to
              new == [conns[c] EXCEPT !.server = "closed"]
  <2>1. /\ conns' = [conns EXCEPT ![c] = new]
        /\ table' = [table EXCEPT ![n] = Leaves(@, conns[c].key, c)]
    BY <1>9 DEF ServerEnd
  <2>2. Fields \subseteq DOMAIN conns[c]
    BY <1>0 DEF Shaped
  <2>3. Fields \subseteq DOMAIN new /\ new.from = conns[c].from /\ new.to = conns[c].to
    BY <2>2
  <2>. HIDE DEF new
  <2>4. Shaped(conns')
    BY <1>0, <2>1, <2>3, ChangeKeeps
  <2>5. DOMAIN table' = Node /\ DOMAIN conns' = DOMAIN conns
    BY <1>0, <2>1 DEF Tables
  <2>6. ASSUME NEW p \in Node, NEW k \in DOMAIN table'[p]  PROVE Live(p, table'[p][k], conns')
    <3>1. k \in DOMAIN table[p] /\ table'[p][k] = table[p][k] /\ (p = n => table[p][k] # c)
      BY <1>0, <2>1, <2>6 DEF Tables, Leaves, Without
    <3>2. Live(p, table[p][k], conns)
      BY <1>0, <3>1 DEF Tables
    <3>. QED  BY <2>1, <2>3, <3>1, <3>2 DEF Live
  <2>. QED  BY <2>4, <2>5, <2>6 DEF Tables
<1>10. ASSUME NEW n \in Publisher, Publish(n)  PROVE Goal
  <2>1. conns' = TcpBroadcast(conns, n, table[n], Len(pubs) + 1, {}) /\ table' = table
    BY <1>10 DEF Publish
  <2>. QED  BY <1>0, <2>1, BroadcastKeeps, TablesStay
<1>11. ASSUME NEW n \in Node, Stop(n)  PROVE Goal
  <2>. DEFINE mine == {c \in DOMAIN conns : n \in {conns[c].from, conns[c].to}}
  <2>1. /\ conns' = [c \in DOMAIN conns |-> IF c \in mine THEN Closed(conns[c], n)
                                            ELSE conns[c]]
        /\ table' = [table EXCEPT ![n] = <<>>]
    BY <1>11 DEF Stop
  <2>2. ASSUME NEW c \in DOMAIN conns
        PROVE  /\ Fields \subseteq DOMAIN conns'[c] /\ conns'[c].to = conns[c].to
               /\ conns[c].to # n => conns'[c].server = conns[c].server
    <3>1. Fields \subseteq DOMAIN conns[c]
      BY <1>0 DEF Shaped
    <3>2. conns'[c] \in {Closed(conns[c], n), conns[c]}
      BY <2>1
    <3>. QED  BY <3>1, <3>2 DEF Closed
  <2>3. DOMAIN conns' = DOMAIN conns
    BY <2>1
  <2>4. \E S : conns' \in Seq(S)
    <3>1. PICK S : conns \in Seq(S)
      BY <1>0 DEF Shaped
    <3>2. DOMAIN conns = 1..Len(conns) /\ Len(conns) \in Nat
      BY <3>1
    <3>. DEFINE close(c) == IF c \in mine THEN Closed(conns[c], n) ELSE conns[c]
    <3>3. conns' = [c \in 1..Len(conns) |-> close(c)]
      BY <2>1, <3>2
    <3>. HIDE DEF close
    <3>4. conns' \in Seq({close(c) : c \in 1..Len(conns)})
      BY <3>2, <3>3
    <3>. QED  BY <3>4
  <2>5. Shaped(conns')
    BY <2>2, <2>3, <2>4 DEF Shaped
  <2>6. ASSUME NEW p \in Node, NEW k \in DOMAIN table'[p]  PROVE Live(p, table'[p][k], conns')
    <3>1. p # n /\ k \in DOMAIN table[p] /\ table'[p] = table[p]
      BY <1>0, <2>1, <2>6 DEF Tables
    <3>2. Live(p, table[p][k], conns)
      BY <1>0, <3>1 DEF Tables
    <3>. QED  BY <2>2, <2>3, <3>1, <3>2 DEF Live
  <2>. QED  BY <1>0, <2>1, <2>5, <2>6 DEF Tables
<1>12. ASSUME NEW n \in Node, Start(n)  PROVE Goal
  BY <1>0, <1>12 DEF Start
<1>13. ASSUME NEW c \in DOMAIN conns, Break(c)  PROVE Goal
  <2>0. /\ table' = table
        /\ \E there \in {conns[c].toServer, <<>>}, back \in {conns[c].toClient, <<>>} :
              conns' = [conns EXCEPT ![c].cut = TRUE, ![c].toServer = there, ![c].toClient = back]
    BY <1>13, Zenon DEF Break
  <2>1. PICK there \in {conns[c].toServer, <<>>}, back \in {conns[c].toClient, <<>>} :
          conns' = [conns EXCEPT ![c].cut = TRUE, ![c].toServer = there, ![c].toClient = back]
    BY <2>0, Zenon
  <2>. DEFINE new == [conns[c] EXCEPT !.cut = TRUE, !.toServer = there, !.toClient = back]
  <2>2. conns' = [conns EXCEPT ![c] = new]
    BY <2>1
  <2>3. Fields \subseteq DOMAIN conns[c]
    BY <1>0 DEF Shaped
  <2>4. /\ Fields \subseteq DOMAIN new /\ new.from = conns[c].from
        /\ new.to = conns[c].to /\ new.server = conns[c].server
    BY <2>3
  <2>. HIDE DEF new
  <2>5. Shaped(conns') /\ SameEnds(conns, conns')
    BY <1>0, <2>2, <2>4, ChangeKeeps
  <2>6. table' = table
    BY <2>0
  <2>. QED  BY <1>0, <2>5, <2>6, TablesStay
<1>14. Goal
  <2>. HIDE DEF Goal
  <2>1. CASE TcpNext
    BY <1>2, <1>3, <1>4, <1>5, <1>6, <1>7, <1>8, <1>9, <1>10, <1>11, <1>12, <1>13, <2>1
    DEF TcpNext
  <2>. QED  BY <1>1, <2>1
<1>. QED  BY <1>0, <1>14 DEF TcpInv

(* Of every behaviour of the transport: connections keep their ends, and each
   name in a table stands for one whose handler, if it is the table's own node
   that runs it, has not ended. *)
THEOREM TcpInvariance == TcpSpec => []TcpInv
BY TcpStarts, TcpStep, PTL DEF TcpSpec

(* The accepting end never writes to a connection whose handler has ended, for
   any nodes and dials, and however connections overlap, break and rename each
   other (_handle_tcp_client, _tcp_broadcast). *)
THEOREM NoWriterIsDead == TcpSpec => []NoDeadWriters
<1>1. TcpInv => NoDeadWriters
  BY DEF TcpInv, Tables, Live, NoDeadWriters, Range
<1>. QED  BY <1>1, TcpInvariance, PTL

(***************************************************************************)
(* Flooding along a tree of peers.  Around the publisher of m, up leads    *)
(* each node to the peer it gets m from.  While connections hold, or       *)
(* around a single relay, m is under way to a node but the publisher at    *)
(* one place at most, and from a node that has it (OnePub); while          *)
(* they hold, it is under way to each node that misses it as soon as the   *)
(* node above has it (Arrived), because all dials stay connected.  The     *)
(* names in the tables must be right for this (NetInv): a relay leaves out *)
(* of its broadcast the one name it read from.                             *)
(***************************************************************************)

Fields == {"from", "to", "key", "cut", "client", "server", "toServer", "toClient"}

(* What the two ends of a connection write. *)
FromDialer(n, np) == {Hello} \cup {Pub(m, n) : m \in 1..np}
FromPeer(n, np) == {Pub(m, n) : m \in 1..np}

(* Before anything else the hello is under way, or the connection broke. *)
Greets(k) == IF k.toServer = <<>> THEN k.cut ELSE Head(k.toServer) = Hello

(* A connection k at place c, while the dials in loops are being read, b of them
   have broken and np publications were made. *)
Wire(c, k, loops, b, np) ==
  /\ Fields \subseteq DOMAIN k
  /\ k.from \in Node /\ k.to \in Node /\ k.from # k.to
  /\ <<k.from, k.to>> \in Dials
  /\ k.key \in {NoKey, Did(k.from), Tcp(c), Id(k.from)}
  /\ k.cut \in BOOLEAN
  /\ k.toServer \in Seq(FromDialer(k.from, np))
  /\ k.toClient \in Seq(FromPeer(k.to, np))
  /\ k.key = NoKey => Greets(k)
  /\ ~k.cut => k.client = "open"
  /\ k.client = "open" => <<k.from, k.to>> \in loops
  /\ b = 0 => ~k.cut

(* No two connections of one dial have a dialing end that is read. *)
Alone(cs) ==
  \A c, d \in DOMAIN cs :
     /\ cs[c].client = "open" /\ cs[d].client = "open"
     /\ cs[c].from = cs[d].from /\ cs[c].to = cs[d].to
     => c = d

Wires(cs, loops, b, np) ==
  /\ \E S : cs \in Seq(S)
  /\ \A c \in DOMAIN cs : Wire(c, cs[c], loops, b, np)
  /\ Alone(cs)

(* Name k of a table of n stands for connection c: at the dialing end it is the
   peer it was configured with, at the accepting end the key of the handler. *)
Name(n, k, c, cs) ==
  /\ c \in DOMAIN cs
  /\ \/ cs[c].from = n /\ k = Id(cs[c].to)
     \/ cs[c].to = n /\ k = cs[c].key /\ k # NoKey

NamesOf(n, t, cs) == \A k \in DOMAIN t : Name(n, k, t[k], cs)

(* Of the connections written to under the names but those in except, c. *)
Sends(c, t, except, cs) == ~cs[c].cut /\ \E k \in DOMAIN t \ except : t[k] = c

(* ds is cs after n has written publication m to the connections of table t. *)
Sent(cs, ds, n, t, m, except) ==
  /\ \E S : ds \in Seq(S)
  /\ DOMAIN ds = DOMAIN cs
  /\ \A c \in DOMAIN cs :
       /\ DOMAIN ds[c] = DOMAIN cs[c]
       /\ ds[c].from = cs[c].from /\ ds[c].to = cs[c].to /\ ds[c].key = cs[c].key
       /\ ds[c].cut = cs[c].cut /\ ds[c].client = cs[c].client
       /\ ds[c].server = cs[c].server
       /\ ds[c].toServer = IF Sends(c, t, except, cs) /\ cs[c].from = n
                           THEN Append(cs[c].toServer, Pub(m, n)) ELSE cs[c].toServer
       /\ ds[c].toClient = IF Sends(c, t, except, cs) /\ cs[c].from # n
                           THEN Append(cs[c].toClient, Pub(m, n)) ELSE cs[c].toClient

(* A connection has one name in a table, and is written one line. *)
LEMMA OneLine ==
  ASSUME NEW cs, NEW n \in Node, NEW t, NEW item, NEW except, NEW c, NamesOf(n, t, cs),
         cs[c].from # cs[c].to
  PROVE  Lines(t, c, item, except) =
           IF \E k \in DOMAIN t \ except : t[k] = c THEN <<item>> ELSE <<>>
<1>. DEFINE K == {k \in DOMAIN t \ except : t[k] = c}
<1>1. \A k, l \in K : k = l
  BY DEF NamesOf, Name
<1>2. Lines(t, c, item, except) = [i \in 1..Cardinality(K) |-> item]
  BY DEF Lines
<1>3. CASE K = {}
  <2>1. Cardinality(K) = 0
    BY <1>3, FS_EmptySet
  <2>. HIDE DEF K
  <2>2. [i \in 1..Cardinality(K) |-> item] = <<>>
    BY <2>1
  <2>. QED  BY <1>2, <1>3, <2>2 DEF K
<1>4. CASE K # {}
  <2>1. PICK k \in K : TRUE
    BY <1>4
  <2>2. K = {k}
    BY <1>1, <2>1
  <2>3. Cardinality(K) = 1
    BY <2>2, FS_Singleton
  <2>4. \E l \in DOMAIN t \ except : t[l] = c
    BY <2>1
  <2>. HIDE DEF K
  <2>5. [i \in 1..Cardinality(K) |-> item] = <<item>>
    BY <2>3
  <2>. QED  BY <1>2, <2>4, <2>5
<1>. QED  BY <1>3, <1>4

(* What a broadcast writes. *)
LEMMA BroadcastSends ==
  ASSUME NEW cs, NEW n \in Node, NEW t, NEW m, NEW except, NEW loops, NEW b, NEW np,
         Wires(cs, loops, b, np), NamesOf(n, t, cs)
  PROVE  Sent(cs, TcpBroadcast(cs, n, t, m, except), n, t, m, except)
<1>. DEFINE item == Pub(m, n)
            lines(c) == Lines(t, c, item, except)
            ds == [c \in DOMAIN cs |-> Written(cs[c], n, lines(c))]
<1>1. TcpBroadcast(cs, n, t, m, except) = ds /\ DOMAIN ds = DOMAIN cs
  BY DEF TcpBroadcast
<1>2. \E S : ds \in Seq(S)
  <2>1. PICK S : cs \in Seq(S)
    BY DEF Wires
  <2>2. DOMAIN cs = 1..Len(cs) /\ Len(cs) \in Nat
    BY <2>1
  <2>3. ds \in Seq({ds[c] : c \in DOMAIN cs})
    BY <2>2
  <2>. QED  BY <2>3
<1>3. ASSUME NEW c \in DOMAIN cs
      PROVE  /\ DOMAIN ds[c] = DOMAIN cs[c]
             /\ ds[c].from = cs[c].from /\ ds[c].to = cs[c].to /\ ds[c].key = cs[c].key
             /\ ds[c].cut = cs[c].cut /\ ds[c].client = cs[c].client
             /\ ds[c].server = cs[c].server
             /\ ds[c].toServer = IF Sends(c, t, except, cs) /\ cs[c].from = n
                                 THEN Append(cs[c].toServer, item) ELSE cs[c].toServer
             /\ ds[c].toClient = IF Sends(c, t, except, cs) /\ cs[c].from # n
                                 THEN Append(cs[c].toClient, item) ELSE cs[c].toClient
  <2>1. /\ Fields \subseteq DOMAIN cs[c] /\ cs[c].from # cs[c].to
        /\ cs[c].toServer \in Seq(FromDialer(cs[c].from, np))
        /\ cs[c].toClient \in Seq(FromPeer(cs[c].to, np))
    BY DEF Wires, Wire
  <2>2. ds[c] = Written(cs[c], n, lines(c))
    OBVIOUS
  <2>3. lines(c) = IF \E k \in DOMAIN t \ except : t[k] = c THEN <<item>> ELSE <<>>
    BY <2>1, OneLine
  <2>. HIDE DEF ds, lines, item
  <2>4. /\ cs[c].toServer \o <<>> = cs[c].toServer
        /\ cs[c].toServer \o <<item>> = Append(cs[c].toServer, item)
        /\ cs[c].toClient \o <<>> = cs[c].toClient
        /\ cs[c].toClient \o <<item>> = Append(cs[c].toClient, item)
    BY <2>1
  <2>. DEFINE sv == cs[c].toServer \o lines(c)
              cl == cs[c].toClient \o lines(c)
  <2>5. /\ sv = IF \E k \in DOMAIN t \ except : t[k] = c THEN Append(cs[c].toServer, item)
                ELSE cs[c].toServer
        /\ cl = IF \E k \in DOMAIN t \ except : t[k] = c THEN Append(cs[c].toClient, item)
                ELSE cs[c].toClient
    BY <2>3, <2>4
  <2>6. ds[c] = IF cs[c].cut THEN cs[c]
                ELSE IF cs[c].from = n THEN [cs[c] EXCEPT !.toServer = sv]
                ELSE [cs[c] EXCEPT !.toClient = cl]
    BY <2>2 DEF Written
  <2>. HIDE DEF sv, cl
  <2>7. CASE cs[c].cut
    BY <2>6, <2>7 DEF Sends
  <2>8. CASE ~cs[c].cut /\ cs[c].from = n
    BY <2>1, <2>5, <2>6, <2>8 DEF Sends, Fields
  <2>9. CASE ~cs[c].cut /\ cs[c].from # n
    BY <2>1, <2>5, <2>6, <2>9 DEF Sends, Fields
  <2>. QED  BY <2>7, <2>8, <2>9
<1>. HIDE DEF ds
<1>. QED  BY <1>1, <1>2, <1>3 DEF Sent

(* Nobody dials itself, nor one that dials it. *)
OneWay == \A n, p \in Node : <<n, p>> \in Dials => n # p /\ <<p, n>> \notin Dials

(* Until a connection breaks, a dialing end has its peer in the table. *)
Knows(t, cs, b) == b = 0 => \A c \in DOMAIN cs : Id(cs[c].to) \in DOMAIN t[cs[c].from]

NetInv ==
  /\ OneWay
  /\ breaks \in Nat
  /\ \E S : pubs \in Seq(S)
  /\ DOMAIN table = Node
  /\ Wires(conns, looping, breaks, Len(pubs))
  /\ \A n \in Node : NamesOf(n, table[n], conns) /\ IsFiniteSet(DOMAIN table[n])
  /\ Knows(table, conns, breaks)

(* The same connections, maybe more, with the same ends and keys. *)
SameKeys(cs, ds) ==
  /\ DOMAIN cs \subseteq DOMAIN ds
  /\ \A c \in DOMAIN cs : /\ ds[c].from = cs[c].from /\ ds[c].to = cs[c].to
                          /\ ds[c].key = cs[c].key

(* The names of a table stay right when connections keep their ends and keys. *)
LEMMA NamesStay ==
  ASSUME NEW n, NEW t, NEW cs, NEW ds, NamesOf(n, t, cs), SameKeys(cs, ds)
  PROVE  NamesOf(n, t, ds)
BY DEF NamesOf, Name, SameKeys

(* One connection changes, and neither its ends nor whether it was given up. *)
LEMMA WireChanges ==
  ASSUME NEW cs, NEW loops, NEW lps, NEW b, NEW b2, NEW np, NEW c \in DOMAIN cs, NEW new,
         Wires(cs, loops, b, np),
         \A d \in DOMAIN cs \ {c} : Wire(d, cs[d], lps, b2, np),
         Wire(c, new, lps, b2, np),
         new.from = cs[c].from, new.to = cs[c].to,
         new.client = "open" => cs[c].client = "open"
  PROVE  Wires([cs EXCEPT ![c] = new], lps, b2, np)
<1>. DEFINE ds == [cs EXCEPT ![c] = new]
<1>1. PICK S : cs \in Seq(S)
  BY DEF Wires
<1>2. ds \in Seq(S \cup {new}) /\ DOMAIN ds = DOMAIN cs
  BY <1>1
<1>3. ds[c] = new /\ \A d \in DOMAIN cs \ {c} : ds[d] = cs[d]
  BY <1>1
<1>. HIDE DEF ds
<1>4. \A d \in DOMAIN ds : Wire(d, ds[d], lps, b2, np)
  BY <1>2, <1>3
<1>5. Alone(ds)
  BY <1>2, <1>3 DEF Alone, Wires
<1>6. \E T : ds \in Seq(T)
  BY <1>2
<1>. QED  BY <1>4, <1>5, <1>6 DEF Wires, ds

(* The same with nothing but the connection itself changed. *)
LEMMA WireChangesAlone ==
  ASSUME NEW cs, NEW loops, NEW b, NEW np, NEW c \in DOMAIN cs, NEW new,
         Wires(cs, loops, b, np), Wire(c, new, loops, b, np),
         new.from = cs[c].from, new.to = cs[c].to, new.client = cs[c].client
  PROVE  Wires([cs EXCEPT ![c] = new], loops, b, np)
<1>1. \A d \in DOMAIN cs \ {c} : Wire(d, cs[d], loops, b, np)
  BY DEF Wires
<1>. QED  BY <1>1, WireChanges

(* Sequences over a larger set. *)
LEMMA MorePubs ==
  ASSUME NEW c, NEW k, NEW loops, NEW b, NEW np \in Nat, Wire(c, k, loops, b, np)
  PROVE  Wire(c, k, loops, b, np + 1)
<1>1. /\ FromDialer(k.from, np) \subseteq FromDialer(k.from, np + 1)
      /\ FromPeer(k.to, np) \subseteq FromPeer(k.to, np + 1)
  <2>1. 1..np \subseteq 1..(np + 1)
    OBVIOUS
  <2>. QED  BY <2>1 DEF FromDialer, FromPeer
<1>2. /\ k.toServer \in Seq(FromDialer(k.from, np + 1))
      /\ k.toClient \in Seq(FromPeer(k.to, np + 1))
  <2>. DEFINE A == FromDialer(k.from, np)
              B == FromDialer(k.from, np + 1)
              C == FromPeer(k.to, np)
              D == FromPeer(k.to, np + 1)
  <2>1. A \subseteq B /\ C \subseteq D /\ k.toServer \in Seq(A) /\ k.toClient \in Seq(C)
    BY <1>1 DEF Wire
  <2>. HIDE DEF A, B, C, D
  <2>2. k.toServer \in Seq(B) /\ k.toClient \in Seq(D)
    BY <2>1
  <2>. QED  BY <2>2 DEF B, D
<1>. QED  BY <1>2 DEF Wire

(* A broadcast of a publication that was made leaves the connections in order. *)
LEMMA SentWires ==
  ASSUME NEW cs, NEW ds, NEW n \in Node, NEW t, NEW m, NEW except, NEW loops, NEW b,
         NEW np, m \in 1..np, Wires(cs, loops, b, np), NamesOf(n, t, cs),
         Sent(cs, ds, n, t, m, except)
  PROVE  Wires(ds, loops, b, np) /\ SameKeys(cs, ds)
<1>1. ASSUME NEW c \in DOMAIN ds  PROVE Wire(c, ds[c], loops, b, np)
  <2>1. c \in DOMAIN cs
    BY DEF Sent
  <2>2. Wire(c, cs[c], loops, b, np)
    BY <2>1 DEF Wires
  <2>3. Sends(c, t, except, cs) /\ cs[c].from # n => cs[c].to = n
    BY <2>1 DEF Sends, NamesOf, Name
  <2>4. /\ DOMAIN ds[c] = DOMAIN cs[c]
        /\ ds[c].from = cs[c].from /\ ds[c].to = cs[c].to /\ ds[c].key = cs[c].key
        /\ ds[c].cut = cs[c].cut /\ ds[c].client = cs[c].client
        /\ ds[c].toServer = IF Sends(c, t, except, cs) /\ cs[c].from = n
                            THEN Append(cs[c].toServer, Pub(m, n)) ELSE cs[c].toServer
        /\ ds[c].toClient = IF Sends(c, t, except, cs) /\ cs[c].from # n
                            THEN Append(cs[c].toClient, Pub(m, n)) ELSE cs[c].toClient
    BY <2>1 DEF Sent
  <2>5. cs[c].from = n => Pub(m, n) \in FromDialer(cs[c].from, np)
    BY DEF FromDialer
  <2>6. cs[c].to = n => Pub(m, n) \in FromPeer(cs[c].to, np)
    BY DEF FromPeer
  <2>7. ds[c].toServer \in Seq(FromDialer(cs[c].from, np))
    <3>1. cs[c].toServer \in Seq(FromDialer(cs[c].from, np))
      BY <2>2 DEF Wire
    <3>. DEFINE A == FromDialer(cs[c].from, np)
                x == Pub(m, n)
    <3>2. cs[c].toServer \in Seq(A) /\ (cs[c].from = n => x \in A)
      BY <3>1, <2>5
    <3>3. ds[c].toServer = cs[c].toServer \/ (cs[c].from = n /\ ds[c].toServer = Append(cs[c].toServer, x))
      BY <2>4
    <3>. HIDE DEF A, x
    <3>4. ds[c].toServer \in Seq(A)
      BY <3>2, <3>3
    <3>. QED  BY <3>4 DEF A
  <2>8. ds[c].toClient \in Seq(FromPeer(cs[c].to, np))
    <3>1. cs[c].toClient \in Seq(FromPeer(cs[c].to, np))
      BY <2>2 DEF Wire
    <3>. DEFINE A == FromPeer(cs[c].to, np)
                x == Pub(m, n)
    <3>2. cs[c].toClient \in Seq(A) /\ (cs[c].to = n => x \in A)
      BY <3>1, <2>6
    <3>3. ds[c].toClient = cs[c].toClient \/ (cs[c].to = n /\ ds[c].toClient = Append(cs[c].toClient, x))
      BY <2>3, <2>4
    <3>. HIDE DEF A, x
    <3>4. ds[c].toClient \in Seq(A)
      BY <3>2, <3>3
    <3>. QED  BY <3>4 DEF A
  <2>9. /\ ds[c].toServer \in Seq(FromDialer(ds[c].from, np))
        /\ ds[c].toClient \in Seq(FromPeer(ds[c].to, np))
    BY <2>4, <2>7, <2>8
  <2>10. /\ Fields \subseteq DOMAIN ds[c] /\ ds[c].from \in Node /\ ds[c].to \in Node
         /\ ds[c].from # ds[c].to /\ <<ds[c].from, ds[c].to>> \in Dials
         /\ ds[c].key \in {NoKey, Did(ds[c].from), Tcp(c), Id(ds[c].from)}
         /\ ds[c].cut \in BOOLEAN /\ (~ds[c].cut => ds[c].client = "open")
         /\ (ds[c].client = "open" => <<ds[c].from, ds[c].to>> \in loops)
         /\ (b = 0 => ~ds[c].cut)
    <3>1. /\ Fields \subseteq DOMAIN cs[c] /\ cs[c].from \in Node /\ cs[c].to \in Node
          /\ cs[c].from # cs[c].to /\ <<cs[c].from, cs[c].to>> \in Dials
          /\ cs[c].key \in {NoKey, Did(cs[c].from), Tcp(c), Id(cs[c].from)}
          /\ cs[c].cut \in BOOLEAN /\ (~cs[c].cut => cs[c].client = "open")
          /\ (cs[c].client = "open" => <<cs[c].from, cs[c].to>> \in loops)
          /\ (b = 0 => ~cs[c].cut)
      BY <2>2 DEF Wire
    <3>. QED  BY <2>4, <3>1
  <2>11. ds[c].key = NoKey => Greets(ds[c])
    <3>1. ASSUME cs[c].key = NoKey  PROVE Greets(ds[c])
      <4>1. Greets(cs[c]) /\ cs[c].toServer \in Seq(FromDialer(cs[c].from, np))
        BY <2>2, <3>1 DEF Wire
      <4>2. \/ ds[c].toServer = cs[c].toServer
            \/ ~cs[c].cut /\ ds[c].toServer = Append(cs[c].toServer, Pub(m, n))
        BY <2>4 DEF Sends
      <4>. DEFINE A == FromDialer(cs[c].from, np)
                  x == Pub(m, n)
                  q == cs[c].toServer
      <4>3. q \in Seq(A) /\ (q # <<>> => Append(q, x) # <<>> /\ Head(Append(q, x)) = Head(q))
        <5>1. q \in Seq(A)
          BY <4>1
        <5>. HIDE DEF A, x, q
        <5>2. q \in Seq(A \cup {x}) /\ x \in A \cup {x}
          BY <5>1
        <5>3. q # <<>> => Len(q) \in Nat /\ Len(q) > 0
          BY <5>1
        <5>4. /\ Len(Append(q, x)) = Len(q) + 1
              /\ q # <<>> => Append(q, x)[1] = q[1]
          BY <5>2, <5>3
        <5>5. q # <<>> => Append(q, x) # <<>>
          BY <5>3, <5>4
        <5>6. Append(q, x) \in Seq(A \cup {x})
          BY <5>2
        <5>7. q # <<>> => Head(Append(q, x)) = Append(q, x)[1] /\ Head(q) = q[1]
          BY <5>2, <5>5, <5>6
        <5>. QED  BY <5>1, <5>4, <5>5, <5>7
      <4>. QED  BY <2>4, <4>1, <4>2, <4>3 DEF Greets
    <3>. QED  BY <2>4, <3>1
  <2>. QED  BY <2>9, <2>10, <2>11 DEF Wire
<1>2. Alone(ds)
  BY DEF Wires, Alone, Sent
<1>3. SameKeys(cs, ds)
  BY DEF Sent, SameKeys
<1>. QED  BY <1>1, <1>2, <1>3 DEF Wires, Sent

(* Until a connection breaks, only c has one of the keys its accepting end may give it. *)
LEMMA OwnName ==
  ASSUME NEW cs, NEW loops, NEW np, Wires(cs, loops, 0, np), OneWay,
         NEW c \in DOMAIN cs, NEW k, NEW e, Name(cs[c].to, k, e, cs),
         k \in {Did(cs[c].from), Tcp(c), Id(cs[c].from)}
  PROVE  e = c
<1>1. /\ e \in DOMAIN cs
      /\ Wire(c, cs[c], loops, 0, np) /\ Wire(e, cs[e], loops, 0, np)
  BY DEF Name, Wires
<1>2. cs[c].client = "open" /\ cs[e].client = "open"
  BY <1>1 DEF Wire
<1>3. cs[e].from = cs[c].from /\ cs[e].to = cs[c].to => e = c
  BY <1>1, <1>2 DEF Wires, Alone
<1>4. CASE cs[e].from = cs[c].to /\ k = Id(cs[e].to)
  <2>1. cs[e].to = cs[c].from
    BY <1>4 DEF Did, Tcp, Id
  <2>2. /\ <<cs[e].from, cs[e].to>> \in Dials /\ <<cs[c].from, cs[c].to>> \in Dials
        /\ cs[c].from \in Node /\ cs[c].to \in Node
    BY <1>1 DEF Wire
  <2>. QED  BY <1>4, <2>1, <2>2 DEF OneWay
<1>5. CASE cs[e].to = cs[c].to /\ k = cs[e].key /\ k # NoKey
  <2>1. k \in {Did(cs[e].from), Tcp(e), Id(cs[e].from)}
    BY <1>1, <1>5 DEF Wire
  <2>2. e = c \/ cs[e].from = cs[c].from
    BY <2>1 DEF Did, Tcp, Id
  <2>. QED  BY <1>3, <1>5, <2>2
<1>. QED  BY <1>4, <1>5 DEF Name

TheirNames(t, cs) ==
  /\ DOMAIN t = Node
  /\ \A n \in Node : NamesOf(n, t[n], cs) /\ IsFiniteSet(DOMAIN t[n])

(* What a table writes to under some name, it still writes to. *)
StillIn(t, u) ==
  \A n \in Node : \A k \in DOMAIN t[n] : \E l \in DOMAIN u[n] : u[n][l] = t[n][k]

(* What a step does to the tables and the connections, as far as their names go. *)
Orderly ==
  /\ breaks' \in Nat /\ (breaks' = 0 => breaks = 0)
  /\ \E S : pubs' \in Seq(S)
  /\ Wires(conns', looping', breaks', Len(pubs'))
  /\ TheirNames(table', conns')
  /\ Knows(table', conns', breaks')
  /\ DOMAIN conns \subseteq DOMAIN conns'
  /\ \A c \in DOMAIN conns : conns'[c].from = conns[c].from /\ conns'[c].to = conns[c].to
  /\ breaks' = 0 => StillIn(table, table')

(* u is t with c entered under key in the table of n. *)
EnteredAs(t, u, n, key, c) == u = [t EXCEPT ![n] = Entered(@, key, c)]

(* A table with one name more, or with one that stood for another connection. *)
LEMMA Enters ==
  ASSUME NEW t, NEW cs, NEW n \in Node, NEW key, NEW c, NEW u,
         TheirNames(t, cs), Name(n, key, c, cs),
         EnteredAs(t, u, n, key, c)
  PROVE  /\ TheirNames(u, cs)
         /\ \A p \in Node : DOMAIN t[p] \subseteq DOMAIN u[p]
         /\ key \in DOMAIN u[n]
         /\ (key \in DOMAIN t[n] => t[n][key] = c) => StillIn(t, u)
<1>. DEFINE v == Entered(t[n], key, c)
<1>1. /\ DOMAIN v = DOMAIN t[n] \cup {key} /\ v[key] = c
      /\ \A k \in DOMAIN t[n] : k # key => v[k] = t[n][k]
  BY DEF Entered
<1>2. DOMAIN u = Node /\ u[n] = v /\ \A p \in Node \ {n} : u[p] = t[p]
  BY DEF TheirNames, EnteredAs
<1>. HIDE DEF v
<1>4. IsFiniteSet(DOMAIN v)
  <2>1. IsFiniteSet(DOMAIN t[n])
    BY DEF TheirNames
  <2>. QED  BY <1>1, <2>1, FS_AddElement
<1>5. NamesOf(n, v, cs)
  BY <1>1 DEF TheirNames, NamesOf
<1>6. TheirNames(u, cs)
  BY <1>2, <1>4, <1>5 DEF TheirNames
<1>7. ASSUME key \in DOMAIN t[n] => t[n][key] = c  PROVE StillIn(t, u)
  <2>1. ASSUME NEW p \in Node, NEW k \in DOMAIN t[p]  PROVE \E l \in DOMAIN u[p] : u[p][l] = t[p][k]
    BY <1>1, <1>2, <1>7, <2>1
  <2>. QED  BY <2>1 DEF StillIn
<1>. QED  BY <1>1, <1>2, <1>6, <1>7

(* The dialing end opens a connection. *)
LEMMA DialOrderly ==
  ASSUME NetInv, NEW d \in Dials, Dial(d[1], d[2])
  PROVE  Orderly
<1>. DEFINE n == d[1]
            p == d[2]
            c == Len(conns) + 1
            new == [from |-> n, to |-> p, key |-> NoKey, cut |-> FALSE,
                    client |-> "open", server |-> "open",
                    toServer |-> <<Hello>>, toClient |-> <<>>]
            np == Len(pubs)
<1>1. /\ <<n, p>> \notin looping /\ looping' = looping \cup {<<n, p>>}
      /\ conns' = Append(conns, new)
      /\ table' = [table EXCEPT ![n] = Entered(@, Id(p), c)]
      /\ pubs' = pubs /\ breaks' = breaks
  BY DEF Dial
<1>2. n \in Node /\ p \in Node /\ <<n, p>> \in Dials /\ n # p /\ <<p, n>> \notin Dials
  BY DialsAssumption DEF NetInv, OneWay
<1>3. /\ Fields \subseteq DOMAIN new
      /\ new.from = n /\ new.to = p /\ new.key = NoKey /\ new.cut = FALSE
      /\ new.client = "open" /\ new.toServer = <<Hello>> /\ new.toClient = <<>>
  BY DEF Fields
<1>. HIDE DEF new
<1>4. PICK S : conns \in Seq(S)
  BY DEF NetInv, Wires
<1>5. /\ conns' \in Seq(S \cup {new})
      /\ DOMAIN conns = 1..Len(conns) /\ Len(conns) \in Nat
      /\ DOMAIN conns' = 1..c /\ conns'[c] = new
      /\ \A i \in DOMAIN conns : conns'[i] = conns[i]
  BY <1>1, <1>4
<1>6. c \in DOMAIN conns' /\ c \notin DOMAIN conns /\ DOMAIN conns' = DOMAIN conns \cup {c}
  BY <1>5
<1>. HIDE DEF n, p, c
<1>7. Wire(c, new, looping', breaks, np)
  <2>1. <<Hello>> \in Seq(FromDialer(n, np)) /\ <<>> \in Seq(FromPeer(p, np))
    <3>1. Hello \in FromDialer(n, np)
      BY DEF FromDialer
    <3>. DEFINE A == FromDialer(n, np)
                x == Hello
    <3>2. x \in A
      BY <3>1
    <3>. HIDE DEF A, x
    <3>3. <<x>> \in Seq(A)
      BY <3>2
    <3>. QED  BY <3>3 DEF A, x
  <2>2. Greets(new)
    <3>1. <<Hello>> # <<>> /\ Head(<<Hello>>) = Hello
      OBVIOUS
    <3>. QED  BY <1>3, <3>1 DEF Greets
  <2>. QED  BY <1>1, <1>2, <1>3, <2>1, <2>2 DEF Wire
<1>8. \A e \in DOMAIN conns : Wire(e, conns[e], looping', breaks, np)
  BY <1>1 DEF NetInv, Wires, Wire
<1>9. \A e \in DOMAIN conns : conns[e].client = "open" => ~(conns[e].from = n /\ conns[e].to = p)
  BY <1>1 DEF NetInv, Wires, Wire
<1>10. Wires(conns', looping', breaks', Len(pubs'))
  <2>1. Alone(conns')
    BY <1>3, <1>5, <1>6, <1>9 DEF Alone, NetInv, Wires
  <2>2. \A e \in DOMAIN conns' : Wire(e, conns'[e], looping', breaks, np)
    BY <1>5, <1>6, <1>7, <1>8
  <2>. QED  BY <1>1, <1>5, <2>1, <2>2 DEF Wires
<1>11. TheirNames(table, conns')
  <2>1. SameKeys(conns, conns')
    BY <1>5, <1>6 DEF SameKeys
  <2>. QED  BY <2>1, NamesStay DEF NetInv, TheirNames
<1>12. Name(n, Id(p), c, conns')
  BY <1>3, <1>5, <1>6 DEF Name
<1>13. /\ TheirNames(table', conns')
       /\ \A q \in Node : DOMAIN table[q] \subseteq DOMAIN table'[q]
       /\ Id(p) \in DOMAIN table'[n]
       /\ (Id(p) \in DOMAIN table[n] => table[n][Id(p)] = c) => StillIn(table, table')
  <2>1. EnteredAs(table, table', n, Id(p), c)
    BY <1>1 DEF EnteredAs
  <2>. QED  BY <1>2, <1>11, <1>12, <2>1, Enters
<1>14. ASSUME breaks = 0, Id(p) \in DOMAIN table[n]  PROVE FALSE
  <2>. DEFINE e == table[n][Id(p)]
  <2>1. Name(n, Id(p), e, conns)
    BY <1>2, <1>14 DEF NetInv, NamesOf
  <2>. HIDE DEF e
  <2>2. e \in DOMAIN conns /\ Wire(e, conns[e], looping, breaks, np)
    BY <2>1 DEF Name, NetInv, Wires
  <2>3. conns[e].client = "open"
    BY <1>14, <2>2 DEF Wire
  <2>4. CASE conns[e].from = n /\ Id(p) = Id(conns[e].to)
    <3>1. conns[e].to = p
      BY <2>4 DEF Id
    <3>. QED  BY <1>9, <2>2, <2>3, <2>4, <3>1
  <2>5. CASE conns[e].to = n /\ Id(p) = conns[e].key
    <3>1. conns[e].from = p
      BY <2>2, <2>5 DEF Wire, NoKey, Did, Tcp, Id
    <3>. QED  BY <1>2, <2>2, <2>5, <3>1 DEF Wire
  <2>. QED  BY <2>1, <2>4, <2>5 DEF Name
<1>15. Knows(table', conns', breaks')
  <2>1. ASSUME breaks = 0, NEW e \in DOMAIN conns'
        PROVE  Id(conns'[e].to) \in DOMAIN table'[conns'[e].from]
    <3>1. CASE e = c
      BY <1>3, <1>5, <1>13, <3>1
    <3>2. CASE e \in DOMAIN conns
      <4>1. Id(conns[e].to) \in DOMAIN table[conns[e].from] /\ conns[e].from \in Node
        BY <2>1, <3>2 DEF NetInv, Knows, Wires, Wire
      <4>. QED  BY <1>5, <1>13, <3>2, <4>1
    <3>. QED  BY <1>6, <2>1, <3>1, <3>2
  <2>. QED  BY <1>1, <2>1 DEF Knows
<1>. QED  BY <1>1, <1>5, <1>6, <1>10, <1>13, <1>14, <1>15 DEF Orderly, NetInv

(* A step that changes one connection and neither its ends nor its key, and no table. *)
LEMMA ChangeOrderly ==
  ASSUME NetInv, NEW c \in DOMAIN conns, NEW new, conns' = [conns EXCEPT ![c] = new],
         Wire(c, new, looping, breaks', Len(pubs)),
         new.from = conns[c].from, new.to = conns[c].to, new.key = conns[c].key,
         new.client = conns[c].client,
         table' = table, looping' = looping, pubs' = pubs,
         breaks' \in Nat, breaks' # breaks => breaks' # 0
  PROVE  Orderly
<1>1. \A d \in DOMAIN conns \ {c} : Wire(d, conns[d], looping, breaks', Len(pubs))
  BY DEF NetInv, Wires, Wire
<1>2. Wires(conns', looping, breaks', Len(pubs))
  BY <1>1, WireChanges DEF NetInv
<1>3. PICK S : conns \in Seq(S)
  BY DEF NetInv, Wires
<1>4. /\ DOMAIN conns' = DOMAIN conns /\ conns'[c] = new
      /\ \A d \in DOMAIN conns : d # c => conns'[d] = conns[d]
  BY <1>3
<1>5. SameKeys(conns, conns')
  BY <1>4 DEF SameKeys
<1>6. TheirNames(table, conns')
  BY <1>5, NamesStay DEF NetInv, TheirNames
<1>7. Knows(table, conns', breaks')
  BY <1>4 DEF NetInv, Knows
<1>8. StillIn(table, table')
  BY DEF StillIn
<1>9. \A d \in DOMAIN conns : conns'[d].from = conns[d].from /\ conns'[d].to = conns[d].to
  BY <1>4
<1>. QED  BY <1>2, <1>4, <1>6, <1>7, <1>8, <1>9 DEF Orderly, NetInv

(* The dialing end gives a connection up. *)
LEMMA ClientEndOrderly ==
  ASSUME NetInv, NEW c \in DOMAIN conns, ClientEnd(c)
  PROVE  Orderly
<1>. DEFINE new == [conns[c] EXCEPT !.client = "closed"]
            dial == <<conns[c].from, conns[c].to>>
<1>1. /\ conns[c].client = "open" /\ conns[c].cut
      /\ conns' = [conns EXCEPT ![c] = new] /\ looping' = looping \ {dial}
      /\ table' = table /\ pubs' = pubs /\ breaks' = breaks
  BY DEF ClientEnd
<1>2. Wire(c, conns[c], looping, breaks, Len(pubs))
  BY DEF NetInv, Wires
<1>3. /\ new.from = conns[c].from /\ new.to = conns[c].to /\ new.key = conns[c].key
      /\ new.cut = conns[c].cut /\ new.client = "closed"
      /\ new.toServer = conns[c].toServer /\ new.toClient = conns[c].toClient
      /\ DOMAIN new = DOMAIN conns[c]
  BY <1>2 DEF Wire, Fields
<1>. HIDE DEF new
<1>4. Wire(c, new, looping', breaks, Len(pubs))
  BY <1>1, <1>2, <1>3 DEF Wire, Greets
<1>5. \A d \in DOMAIN conns \ {c} : Wire(d, conns[d], looping', breaks, Len(pubs))
  <2>1. ASSUME NEW d \in DOMAIN conns \ {c}, conns[d].client = "open"
        PROVE  <<conns[d].from, conns[d].to>> # dial
    BY <1>1, <2>1 DEF NetInv, Wires, Alone
  <2>. QED  BY <1>1, <2>1 DEF NetInv, Wires, Wire
<1>6. Wires(conns', looping', breaks', Len(pubs'))
  BY <1>1, <1>3, <1>4, <1>5, WireChanges DEF NetInv
<1>7. PICK S : conns \in Seq(S)
  BY DEF NetInv, Wires
<1>8. /\ DOMAIN conns' = DOMAIN conns /\ conns'[c] = new
      /\ \A d \in DOMAIN conns : d # c => conns'[d] = conns[d]
  BY <1>1, <1>7
<1>9. SameKeys(conns, conns')
  BY <1>3, <1>8 DEF SameKeys
<1>10. TheirNames(table', conns')
  BY <1>1, <1>9, NamesStay DEF NetInv, TheirNames
<1>11. Knows(table', conns', breaks') /\ StillIn(table, table')
  BY <1>1, <1>3, <1>8 DEF NetInv, Knows, StillIn
<1>. QED  BY <1>1, <1>3, <1>6, <1>8, <1>10, <1>11 DEF Orderly, NetInv

(* The accepting end enters connection c, as new, under its first name. *)
Naming(c, new, key) ==
  /\ conns[c].key = NoKey
  /\ key \in {Did(conns[c].from), Tcp(c)}
  /\ conns' = [conns EXCEPT ![c] = new]
  /\ Wire(c, new, looping, breaks, Len(pubs))
  /\ new.from = conns[c].from /\ new.to = conns[c].to /\ new.key = key
  /\ new.client = conns[c].client
  /\ table' = [table EXCEPT ![conns[c].to] = Entered(@, key, c)]
  /\ looping' = looping /\ pubs' = pubs /\ breaks' = breaks

(* A handler that gives its connection a name changes nothing else. *)
LEMMA NamingOrderly ==
  ASSUME NetInv, NEW c \in DOMAIN conns, NEW new, NEW key, Naming(c, new, key)
  PROVE  Orderly
<1>. DEFINE n == conns[c].to
<1>1. /\ Wires(conns', looping', breaks', Len(pubs'))
      /\ looping' = looping /\ pubs' = pubs /\ breaks' = breaks
  BY WireChangesAlone DEF NetInv, Naming
<1>2. PICK S : conns \in Seq(S)
  BY DEF NetInv, Wires
<1>3. /\ DOMAIN conns' = DOMAIN conns /\ conns'[c] = new
      /\ \A d \in DOMAIN conns : d # c => conns'[d] = conns[d]
      /\ new.from = conns[c].from /\ new.to = conns[c].to /\ new.key = key
  BY <1>2 DEF Naming
<1>4. Wire(c, conns[c], looping, breaks, Len(pubs)) /\ n \in Node
  BY DEF NetInv, Wires, Wire
<1>5. /\ key # NoKey /\ conns[c].key = NoKey
      /\ key \in {Did(conns[c].from), Tcp(c)}
  BY DEF Naming, NoKey, Did, Tcp
<1>6. TheirNames(table, conns')
  <2>1. ASSUME NEW p \in Node, NEW k \in DOMAIN table[p]  PROVE Name(p, k, table[p][k], conns')
    <3>1. Name(p, k, table[p][k], conns)
      BY DEF NetInv, NamesOf
    <3>. QED  BY <1>3, <1>5, <3>1 DEF Name
  <2>. QED  BY <2>1 DEF NetInv, TheirNames, NamesOf
<1>7. Name(n, key, c, conns')
  BY <1>3, <1>5 DEF Name
<1>8. /\ TheirNames(table', conns')
      /\ \A q \in Node : DOMAIN table[q] \subseteq DOMAIN table'[q]
      /\ (key \in DOMAIN table[n] => table[n][key] = c) => StillIn(table, table')
  <2>1. EnteredAs(table, table', n, key, c)
    BY DEF EnteredAs, Naming
  <2>. HIDE DEF n
  <2>. QED  BY <1>4, <1>6, <1>7, <2>1, Enters
<1>9. ASSUME breaks = 0, key \in DOMAIN table[n]  PROVE table[n][key] = c
  <2>1. Name(n, key, table[n][key], conns)
    BY <1>4, <1>9 DEF NetInv, NamesOf
  <2>2. Wires(conns, looping, 0, Len(pubs)) /\ OneWay
    BY <1>9 DEF NetInv
  <2>. QED  BY <1>5, <2>1, <2>2, OwnName
<1>10. Knows(table', conns', breaks')
  BY <1>1, <1>3, <1>8 DEF NetInv, Knows, Wires, Wire
<1>. QED  BY <1>1, <1>3, <1>8, <1>9, <1>10 DEF Orderly, NetInv

(* The accepting end names a connection by its hello. *)
LEMMA ServerHelloOrderly ==
  ASSUME NetInv, NEW c \in DOMAIN conns, ServerHello(c)
  PROVE  Orderly
<1>. DEFINE key == Did(conns[c].from)
            new == [conns[c] EXCEPT !.key = key, !.toServer = Tail(@)]
<1>1. /\ conns[c].key = NoKey /\ conns[c].toServer # <<>>
      /\ conns' = [conns EXCEPT ![c] = new]
      /\ table' = [table EXCEPT ![conns[c].to] = Entered(@, key, c)]
      /\ looping' = looping /\ pubs' = pubs /\ breaks' = breaks
  BY DEF ServerHello
<1>2. Wire(c, conns[c], looping, breaks, Len(pubs))
  BY DEF NetInv, Wires
<1>3. /\ new.from = conns[c].from /\ new.to = conns[c].to /\ new.key = key
      /\ new.cut = conns[c].cut /\ new.client = conns[c].client
      /\ new.toServer = Tail(conns[c].toServer) /\ new.toClient = conns[c].toClient
      /\ DOMAIN new = DOMAIN conns[c]
  BY <1>2 DEF Wire, Fields
<1>. HIDE DEF new, key
<1>4. Tail(conns[c].toServer) \in Seq(FromDialer(conns[c].from, Len(pubs)))
  <2>. DEFINE A == FromDialer(conns[c].from, Len(pubs))
  <2>1. conns[c].toServer \in Seq(A)
    BY <1>2 DEF Wire
  <2>. HIDE DEF A
  <2>2. Tail(conns[c].toServer) \in Seq(A)
    BY <1>1, <2>1
  <2>. QED  BY <2>2 DEF A
<1>5. Wire(c, new, looping, breaks, Len(pubs))
  BY <1>2, <1>3, <1>4 DEF Wire, key, Did, NoKey
<1>6. key \in {Did(conns[c].from), Tcp(c)}
  BY DEF key
<1>. QED  BY <1>1, <1>3, <1>5, <1>6, NamingOrderly DEF Naming

(* The accepting end names a connection whose hello is late by its address. *)
LEMMA HelloTimeoutOrderly ==
  ASSUME NetInv, NEW c \in DOMAIN conns, HelloTimeout(c)
  PROVE  Orderly
<1>. DEFINE key == Tcp(c)
            new == [conns[c] EXCEPT !.key = key]
<1>1. /\ conns[c].key = NoKey
      /\ conns' = [conns EXCEPT ![c] = new]
      /\ table' = [table EXCEPT ![conns[c].to] = Entered(@, key, c)]
      /\ looping' = looping /\ pubs' = pubs /\ breaks' = breaks
  BY DEF HelloTimeout
<1>2. Wire(c, conns[c], looping, breaks, Len(pubs))
  BY DEF NetInv, Wires
<1>3. /\ new.from = conns[c].from /\ new.to = conns[c].to /\ new.key = key
      /\ new.cut = conns[c].cut /\ new.client = conns[c].client
      /\ new.toServer = conns[c].toServer /\ new.toClient = conns[c].toClient
      /\ DOMAIN new = DOMAIN conns[c]
  BY <1>2 DEF Wire, Fields
<1>. HIDE DEF new, key
<1>4. Wire(c, new, looping, breaks, Len(pubs))
  BY <1>2, <1>3 DEF Wire, key, Tcp, NoKey, Greets
<1>5. key \in {Did(conns[c].from), Tcp(c)}
  BY DEF key
<1>. QED  BY <1>1, <1>3, <1>4, <1>5, NamingOrderly DEF Naming

(* A late hello is read and changes no name. *)
LEMMA ServerReadHelloOrderly ==
  ASSUME NetInv, NEW c \in DOMAIN conns, ServerReadHello(c)
  PROVE  Orderly
<1>. DEFINE new == [conns[c] EXCEPT !.toServer = Tail(@)]
<1>1. /\ conns[c].toServer # <<>> /\ conns[c].key # NoKey
      /\ conns' = [conns EXCEPT ![c] = new]
      /\ table' = table /\ looping' = looping /\ pubs' = pubs /\ breaks' = breaks
  BY DEF ServerReadHello, Accepted
<1>2. Wire(c, conns[c], looping, breaks, Len(pubs))
  BY DEF NetInv, Wires
<1>3. /\ new.from = conns[c].from /\ new.to = conns[c].to /\ new.key = conns[c].key
      /\ new.cut = conns[c].cut /\ new.client = conns[c].client
      /\ new.toServer = Tail(conns[c].toServer) /\ new.toClient = conns[c].toClient
      /\ DOMAIN new = DOMAIN conns[c]
  BY <1>2 DEF Wire, Fields
<1>. HIDE DEF new
<1>4. Tail(conns[c].toServer) \in Seq(FromDialer(conns[c].from, Len(pubs)))
  <2>. DEFINE A == FromDialer(conns[c].from, Len(pubs))
  <2>1. conns[c].toServer \in Seq(A)
    BY <1>2 DEF Wire
  <2>. HIDE DEF A
  <2>2. Tail(conns[c].toServer) \in Seq(A)
    BY <1>1, <2>1
  <2>. QED  BY <2>2 DEF A
<1>5. Wire(c, new, looping, breaks', Len(pubs))
  BY <1>1, <1>2, <1>3, <1>4 DEF Wire
<1>6. breaks' \in Nat /\ breaks' = breaks
  BY <1>1 DEF NetInv
<1>. QED  BY <1>1, <1>3, <1>5, <1>6, ChangeOrderly

(* The accepting end ends, and with it every name of the connection. *)
LEMMA ServerEndOrderly ==
  ASSUME NetInv, NEW c \in DOMAIN conns, ServerEnd(c)
  PROVE  Orderly
<1>. DEFINE new == [conns[c] EXCEPT !.server = "closed"]
            n == conns[c].to
            left == Leaves(table[n], conns[c].key, c)
<1>1. /\ conns[c].cut /\ conns' = [conns EXCEPT ![c] = new]
      /\ table' = [table EXCEPT ![n] = left]
      /\ looping' = looping /\ pubs' = pubs /\ breaks' = breaks
  BY DEF ServerEnd
<1>2. Wire(c, conns[c], looping, breaks, Len(pubs))
  BY DEF NetInv, Wires
<1>3. /\ new.from = conns[c].from /\ new.to = conns[c].to /\ new.key = conns[c].key
      /\ new.cut = conns[c].cut /\ new.client = conns[c].client
      /\ new.toServer = conns[c].toServer /\ new.toClient = conns[c].toClient
      /\ DOMAIN new = DOMAIN conns[c]
  BY <1>2 DEF Wire, Fields
<1>. HIDE DEF new
<1>4. Wire(c, new, looping, breaks, Len(pubs))
  BY <1>2, <1>3 DEF Wire, Greets
<1>5. Wires(conns', looping', breaks', Len(pubs'))
  BY <1>1, <1>3, <1>4, WireChangesAlone DEF NetInv
<1>6. PICK S : conns \in Seq(S)
  BY DEF NetInv, Wires
<1>7. /\ DOMAIN conns' = DOMAIN conns /\ conns'[c] = new
      /\ \A d \in DOMAIN conns : d # c => conns'[d] = conns[d]
  BY <1>1, <1>6
<1>8. SameKeys(conns, conns')
  BY <1>3, <1>7 DEF SameKeys
<1>9. TheirNames(table, conns')
  BY <1>8, NamesStay DEF NetInv, TheirNames
<1>10. /\ DOMAIN left \subseteq DOMAIN table[n]
       /\ \A k \in DOMAIN left : left[k] = table[n][k]
  BY DEF Leaves, Without
<1>. HIDE DEF left
<1>11. NamesOf(n, left, conns') /\ IsFiniteSet(DOMAIN left)
  <2>1. n \in Node /\ IsFiniteSet(DOMAIN table[n])
    BY <1>2 DEF Wire, NetInv
  <2>. QED  BY <1>9, <1>10, <2>1, FS_Subset DEF TheirNames, NamesOf
<1>12. TheirNames(table', conns')
  BY <1>1, <1>9, <1>11 DEF TheirNames, NetInv
<1>13. breaks # 0
  BY <1>1, <1>2 DEF Wire
<1>. QED  BY <1>1, <1>3, <1>5, <1>7, <1>12, <1>13 DEF Orderly, NetInv, Knows

(* The other end of a connection of n, what is under way to n, and the place of
   a publication m there. *)
Ends(c, cs) == {cs[c].from, cs[c].to}
Other(c, n, cs) == IF cs[c].from = n THEN cs[c].to ELSE cs[c].from
Line(c, n, cs) == IF cs[c].to = n THEN cs[c].toServer ELSE cs[c].toClient

(* rs is cs after n has read publication m from connection c. *)
Took(cs, rs, c, n, m) ==
  /\ c \in DOMAIN cs /\ n \in Ends(c, cs)
  /\ Line(c, n, cs) # <<>> /\ Head(Line(c, n, cs)) = Pub(m, Other(c, n, cs))
  /\ DOMAIN rs = DOMAIN cs
  /\ \A d \in DOMAIN cs \ {c} : rs[d] = cs[d]
  /\ rs[c].from = cs[c].from /\ rs[c].to = cs[c].to /\ rs[c].cut = cs[c].cut
  /\ rs[c].toServer = IF cs[c].to = n THEN Tail(cs[c].toServer) ELSE cs[c].toServer
  /\ rs[c].toClient = IF cs[c].to = n THEN cs[c].toClient ELSE Tail(cs[c].toClient)

(* ds is rs after n with table t has passed on m, or not, that came from key. *)
PassesOn(n, t) == n \in Relay /\ Cardinality(DOMAIN t) > 1
Passed(rs, ds, n, t, m, key) ==
  /\ PassesOn(n, t) => Sent(rs, ds, n, t, m, {key})
  /\ ~PassesOn(n, t) => ds = rs

(* A step in which n reads m from c; rs are the connections before it is passed on. *)
Reads(c, n, m, rs) ==
  /\ n \in Node /\ m \in 1..Len(pubs)
  /\ Took(conns, rs, c, n, m)
  /\ conns[c].to = n => rs[c].key = Id(conns[c].from)
  /\ Wires(rs, looping, breaks, Len(pubs))
  /\ TheirNames(table', rs)
  /\ Knows(table', rs, breaks)
  /\ breaks = 0 => StillIn(table, table')
  /\ Passed(rs, conns', n, table'[n], m, Id(Other(c, n, conns)))
  /\ got' = [got EXCEPT ![n][m] = @ + 1]
  /\ looping' = looping /\ pubs' = pubs /\ breaks' = breaks

(* Passing on is a broadcast. *)
LEMMA Forwards ==
  ASSUME NEW rs, NEW ds, NEW n \in Node, NEW t, NEW m, NEW key, NEW loops, NEW b, NEW np,
         Wires(rs, loops, b, np), NamesOf(n, t, rs),
         ds = Forwarded(rs, n, t, m, key)
  PROVE  Passed(rs, ds, n, t, m, key)
<1>1. PassesOn(n, t) => ds = TcpBroadcast(rs, n, t, m, {key})
  BY DEF Forwarded, PassesOn
<1>2. ~PassesOn(n, t) => ds = rs
  BY DEF Forwarded, PassesOn
<1>3. Sent(rs, TcpBroadcast(rs, n, t, m, {key}), n, t, m, {key})
  BY BroadcastSends
<1>. QED  BY <1>1, <1>2, <1>3 DEF Passed

(* Reading a publication and passing it on is orderly. *)
LEMMA ReadsOrderly ==
  ASSUME NetInv, NEW c \in DOMAIN conns, NEW n, NEW m, NEW rs, Reads(c, n, m, rs)
  PROVE  Orderly
<1>1. /\ n \in Node /\ m \in 1..Len(pubs)
      /\ DOMAIN rs = DOMAIN conns
      /\ \A d \in DOMAIN conns : rs[d].from = conns[d].from /\ rs[d].to = conns[d].to
      /\ Wires(rs, looping, breaks, Len(pubs)) /\ TheirNames(table', rs)
      /\ Knows(table', rs, breaks) /\ (breaks = 0 => StillIn(table, table'))
      /\ looping' = looping /\ pubs' = pubs /\ breaks' = breaks
      /\ Passed(rs, conns', n, table'[n], m, Id(Other(c, n, conns)))
  BY DEF Reads, Took
<1>2. Wires(conns', looping, breaks, Len(pubs)) /\ SameKeys(rs, conns') /\ DOMAIN conns' = DOMAIN rs
  <2>1. CASE ~PassesOn(n, table'[n])
    <3>1. conns' = rs
      BY <1>1, <2>1 DEF Passed
    <3>2. SameKeys(rs, rs)
      BY DEF SameKeys
    <3>. QED  BY <1>1, <3>1, <3>2
  <2>2. CASE PassesOn(n, table'[n])
    <3>1. Sent(rs, conns', n, table'[n], m, {Id(Other(c, n, conns))})
      BY <1>1, <2>2 DEF Passed
    <3>2. NamesOf(n, table'[n], rs)
      BY <1>1 DEF TheirNames
    <3>3. DOMAIN conns' = DOMAIN rs
      BY <3>1 DEF Sent
    <3>. QED  BY <1>1, <3>1, <3>2, <3>3, SentWires
  <2>. QED  BY <2>1, <2>2
<1>3. TheirNames(table', conns')
  BY <1>1, <1>2, NamesStay DEF TheirNames
<1>4. Knows(table', conns', breaks')
  BY <1>1, <1>2 DEF Knows, SameKeys
<1>5. \A d \in DOMAIN conns : conns'[d].from = conns[d].from /\ conns'[d].to = conns[d].to
  BY <1>1, <1>2 DEF SameKeys
<1>. QED  BY <1>1, <1>2, <1>3, <1>4, <1>5 DEF Orderly, NetInv

(* ClientRead reads a publication. *)
LEMMA ClientReads ==
  ASSUME NetInv, NEW c \in DOMAIN conns, ClientRead(c)
  PROVE  \E m, rs : Reads(c, conns[c].from, m, rs)
<1>. DEFINE n == conns[c].from
            line == conns[c].toClient
            new == [conns[c] EXCEPT !.toClient = Tail(@)]
            rs == [conns EXCEPT ![c] = new]
            np == Len(pubs)
<1>1. /\ line # <<>> /\ got' = [got EXCEPT ![n][Head(line).id] = @ + 1]
      /\ conns' = Forwarded(rs, n, table[n], Head(line).id, Id(conns[c].to))
      /\ table' = table /\ looping' = looping /\ pubs' = pubs /\ breaks' = breaks
  BY DEF ClientRead, Delivered
<1>2. Wire(c, conns[c], looping, breaks, np)
  BY DEF NetInv, Wires
<1>3. /\ new.from = conns[c].from /\ new.to = conns[c].to /\ new.key = conns[c].key
      /\ new.cut = conns[c].cut /\ new.client = conns[c].client
      /\ new.toServer = conns[c].toServer /\ new.toClient = Tail(line)
      /\ DOMAIN new = DOMAIN conns[c]
  BY <1>2 DEF Wire, Fields
<1>4. Tail(line) \in Seq(FromPeer(conns[c].to, np)) /\ Head(line) \in FromPeer(conns[c].to, np)
  <2>. DEFINE A == FromPeer(conns[c].to, np)
  <2>1. line \in Seq(A)
    BY <1>2 DEF Wire
  <2>. HIDE DEF A, line
  <2>2. Tail(line) \in Seq(A) /\ Head(line) \in A
    BY <1>1, <2>1
  <2>. QED  BY <2>2 DEF A
<1>5. PICK m \in 1..np : Head(line) = Pub(m, conns[c].to)
  BY <1>4 DEF FromPeer
<1>6. Head(line).id = m
  BY <1>5 DEF Pub
<1>. HIDE DEF new
<1>7. Wire(c, new, looping, breaks, np)
  BY <1>2, <1>3, <1>4 DEF Wire, Greets
<1>8. Wires(rs, looping, breaks, np)
  BY <1>3, <1>7, WireChangesAlone DEF NetInv
<1>9. PICK S : conns \in Seq(S)
  BY DEF NetInv, Wires
<1>10. /\ DOMAIN rs = DOMAIN conns /\ rs[c] = new
       /\ \A d \in DOMAIN conns : d # c => rs[d] = conns[d]
  BY <1>9
<1>. HIDE DEF rs
<1>11. SameKeys(conns, rs)
  BY <1>3, <1>10 DEF SameKeys
<1>12. TheirNames(table', rs) /\ NamesOf(n, table[n], rs)
  <2>1. TheirNames(table, rs)
    BY <1>11, NamesStay DEF NetInv, TheirNames
  <2>. QED  BY <1>1, <1>2, <2>1 DEF TheirNames, Wire
<1>13. Knows(table', rs, breaks) /\ StillIn(table, table')
  BY <1>1, <1>3, <1>10 DEF NetInv, Knows, StillIn
<1>14. n \in Node /\ conns[c].to # n
  BY <1>2 DEF Wire
<1>15. Passed(rs, conns', n, table[n], m, Id(conns[c].to))
  <2>1. conns' = Forwarded(rs, n, table[n], m, Id(conns[c].to))
    BY <1>1, <1>6
  <2>. QED  BY <1>8, <1>12, <1>14, <2>1, Forwards
<1>16. Took(conns, rs, c, n, m)
  <2>1. n \in Ends(c, conns) /\ Line(c, n, conns) = line /\ Other(c, n, conns) = conns[c].to
    BY <1>14 DEF Ends, Line, Other
  <2>. QED  BY <1>1, <1>3, <1>5, <1>10, <1>14, <2>1 DEF Took
<1>17. Other(c, n, conns) = conns[c].to
  BY DEF Other
<1>18. got' = [got EXCEPT ![n][m] = @ + 1]
  BY <1>1, <1>6
<1>. HIDE DEF n
<1>. QED  BY <1>1, <1>8, <1>12, <1>13, <1>14, <1>15, <1>16, <1>17, <1>18 DEF Reads, n

(* The accepting end of c takes its peer's id for the name of c; rs are the
   connections then. *)
Renames(c, n, id, rs) ==
  /\ n = conns[c].to /\ id = Id(conns[c].from) /\ conns[c].key # NoKey
  /\ DOMAIN rs = DOMAIN conns
  /\ \A d \in DOMAIN conns \ {c} : rs[d] = conns[d]
  /\ rs[c].from = conns[c].from /\ rs[c].to = conns[c].to /\ rs[c].key = id
  /\ table' = [table EXCEPT ![n] = Renamed(table[n], conns[c].key, id, c)]

(* Whatever the name it had stood for, the table keeps all it writes to until a
   connection breaks. *)
LEMMA RenameKeeps ==
  ASSUME NetInv, NEW c \in DOMAIN conns, NEW rs, NEW n, NEW id, Renames(c, n, id, rs)
  PROVE  TheirNames(table', rs) /\ (breaks = 0 => StillIn(table, table'))
         /\ Knows(table', rs, breaks)
<1>. DEFINE t == Renamed(table[n], conns[c].key, id, c)
<1>0. /\ n = conns[c].to /\ id = Id(conns[c].from) /\ conns[c].key # NoKey
      /\ DOMAIN rs = DOMAIN conns
      /\ \A d \in DOMAIN conns \ {c} : rs[d] = conns[d]
      /\ rs[c].from = conns[c].from /\ rs[c].to = conns[c].to /\ rs[c].key = id
      /\ table' = [table EXCEPT ![n] = t]
  BY DEF Renames
<1>. DEFINE key == conns[c].key
<1>1. /\ Wire(c, conns[c], looping, breaks, Len(pubs)) /\ n \in Node
      /\ conns[c].from # n /\ conns[c].from \in Node
  BY <1>0 DEF NetInv, Wires, Wire
<1>2. key \in {Did(conns[c].from), Tcp(c), id}
  BY <1>0, <1>1 DEF Wire
<1>3. /\ key = id => t = table[n]
      /\ key # id => /\ DOMAIN t = (DOMAIN table[n] \cup {id}) \ {key}
                     /\ \A k \in DOMAIN t : t[k] = IF k = id THEN c ELSE table[n][k]
  BY DEF Renamed, Entered, Without
<1>4. /\ DOMAIN table = Node
      /\ \A p \in Node : NamesOf(p, table[p], conns) /\ IsFiniteSet(DOMAIN table[p])
  BY DEF NetInv
<1>5. DOMAIN table' = Node /\ table'[n] = t /\ \A p \in Node \ {n} : table'[p] = table[p]
  BY <1>0, <1>1, <1>4
<1>. HIDE DEF t
<1>6. IsFiniteSet(DOMAIN t)
  <2>1. IsFiniteSet(DOMAIN table[n] \cup {id})
    BY <1>1, <1>4, FS_AddElement
  <2>. QED  BY <1>1, <1>3, <1>4, <2>1, FS_Subset
<1>7. ASSUME NEW p \in Node, NEW k \in DOMAIN table'[p]
      PROVE  Name(p, k, table'[p][k], rs)
  <2>1. CASE p # n
    <3>1. k \in DOMAIN table[p] /\ table'[p][k] = table[p][k]
      BY <1>5, <1>7, <2>1
    <3>2. Name(p, k, table[p][k], conns)
      BY <1>4, <3>1 DEF NamesOf
    <3>. QED  BY <1>0, <2>1, <3>1, <3>2 DEF Name
  <2>2. CASE p = n /\ k \in DOMAIN table[n] /\ table'[p][k] = table[n][k] /\ (k # id => k # key)
    <3>1. Name(n, k, table[n][k], conns)
      BY <1>1, <1>4, <2>2 DEF NamesOf
    <3>2. CASE table[n][k] # c
      BY <1>0, <2>2, <3>1, <3>2 DEF Name
    <3>3. CASE table[n][k] = c
      <4>1. k = key
        BY <1>0, <1>1, <3>1, <3>3 DEF Name
      <4>2. k = id
        BY <2>2, <4>1
      <4>. QED  BY <1>0, <2>2, <3>1, <3>3, <4>1, <4>2 DEF Name
    <3>. QED  BY <3>2, <3>3
  <2>3. CASE p = n /\ k = id /\ key # id
    <3>1. table'[p][k] = c
      BY <1>3, <1>5, <1>7, <2>3
    <3>2. id # NoKey
      BY <1>0 DEF Id, NoKey
    <3>. QED  BY <1>0, <2>3, <3>1, <3>2 DEF Name
  <2>. QED  BY <1>3, <1>5, <1>7, <2>1, <2>2, <2>3
<1>8. TheirNames(table', rs)
  BY <1>4, <1>5, <1>6, <1>7 DEF TheirNames, NamesOf
<1>9. ASSUME breaks = 0  PROVE StillIn(table, table')
  <2>1. ASSUME NEW k \in DOMAIN table[n], k = key \/ k = id  PROVE table[n][k] = c
    <3>1. Name(n, k, table[n][k], conns)
      BY <1>1, <1>4 DEF NamesOf
    <3>2. Wires(conns, looping, 0, Len(pubs)) /\ OneWay
      BY <1>9 DEF NetInv
    <3>3. k \in {Did(conns[c].from), Tcp(c), Id(conns[c].from)}
      BY <1>0, <1>2, <2>1
    <3>. QED  BY <1>0, <3>1, <3>2, <3>3, OwnName
  <2>2. ASSUME NEW k \in DOMAIN table[n]  PROVE \E l \in DOMAIN t : t[l] = table[n][k]
    <3>1. CASE key = id
      BY <1>3, <3>1
    <3>2. CASE key # id /\ (k = key \/ k = id)
      BY <1>3, <2>1, <3>2
    <3>3. CASE key # id /\ k # key /\ k # id
      BY <1>3, <3>3
    <3>. QED  BY <3>1, <3>2, <3>3
  <2>. QED  BY <1>5, <2>2 DEF StillIn
<1>10. Knows(table', rs, breaks)
  <2>1. ASSUME breaks = 0, NEW e \in DOMAIN conns
        PROVE  Id(rs[e].to) \in DOMAIN table'[rs[e].from]
    <3>1. rs[e].to = conns[e].to /\ rs[e].from = conns[e].from /\ conns[e].from \in Node
      BY <1>0 DEF NetInv, Wires, Wire
    <3>2. Id(conns[e].to) \in DOMAIN table[conns[e].from]
      BY <2>1 DEF NetInv, Knows
    <3>3. Id(conns[e].to) = key => key = id
      BY <1>0, <1>2 DEF Did, Tcp, Id
    <3>. QED  BY <1>0, <1>3, <1>5, <3>1, <3>2, <3>3
  <2>. QED  BY <1>0, <2>1 DEF Knows
<1>. QED  BY <1>8, <1>9, <1>10

(* ServerReadPub reads a publication, and gives the connection the name in it. *)
LEMMA ServerReads ==
  ASSUME NetInv, NEW c \in DOMAIN conns, ServerReadPub(c)
  PROVE  \E m, rs : Reads(c, conns[c].to, m, rs)
<1>. DEFINE n == conns[c].to
            line == conns[c].toServer
            id == Id(conns[c].from)
            new == [conns[c] EXCEPT !.toServer = Tail(@), !.key = id]
            rs == [conns EXCEPT ![c] = new]
            t == Renamed(table[n], conns[c].key, id, c)
            np == Len(pubs)
<1>1. /\ line # <<>> /\ Head(line).type = "pub" /\ conns[c].key # NoKey
      /\ table' = [table EXCEPT ![n] = Renamed(table[n], conns[c].key, Id(Head(line).from), c)]
      /\ got' = [got EXCEPT ![n][Head(line).id] = @ + 1]
      /\ conns' = Forwarded([conns EXCEPT ![c].toServer = Tail(@),
                                              ![c].key = Id(Head(line).from)],
                                n, Renamed(table[n], conns[c].key, Id(Head(line).from), c),
                                Head(line).id, Id(Head(line).from))
      /\ looping' = looping /\ pubs' = pubs /\ breaks' = breaks
  BY DEF ServerReadPub, Delivered, Accepted
<1>2. Wire(c, conns[c], looping, breaks, np)
  BY DEF NetInv, Wires
<1>3. /\ new.from = conns[c].from /\ new.to = conns[c].to /\ new.key = id
      /\ new.cut = conns[c].cut /\ new.client = conns[c].client
      /\ new.toServer = Tail(line) /\ new.toClient = conns[c].toClient
      /\ DOMAIN new = DOMAIN conns[c]
  BY <1>2 DEF Wire, Fields
<1>4. Tail(line) \in Seq(FromDialer(conns[c].from, np)) /\ Head(line) \in FromDialer(conns[c].from, np)
  <2>. DEFINE A == FromDialer(conns[c].from, np)
  <2>1. line \in Seq(A)
    BY <1>2 DEF Wire
  <2>. HIDE DEF A, line
  <2>2. Tail(line) \in Seq(A) /\ Head(line) \in A
    BY <1>1, <2>1
  <2>. QED  BY <2>2 DEF A
<1>5. PICK m \in 1..np : Head(line) = Pub(m, conns[c].from)
  BY <1>1, <1>4 DEF FromDialer, Hello
<1>6. Head(line).id = m /\ Head(line).from = conns[c].from
  BY <1>5 DEF Pub
<1>7. [conns EXCEPT ![c].toServer = Tail(@), ![c].key = id] = rs
  OBVIOUS
<1>8. table' = [table EXCEPT ![n] = t] /\ conns' = Forwarded(rs, n, t, m, id)
  BY <1>1, <1>6, <1>7
<1>. HIDE DEF new
<1>9. Wire(c, new, looping, breaks, np)
  <2>1. id \in {NoKey, Did(conns[c].from), Tcp(c), Id(conns[c].from)}
    OBVIOUS
  <2>2. id # NoKey
    BY DEF Id, NoKey
  <2>. HIDE DEF id
  <2>. QED  BY <1>2, <1>3, <1>4, <2>1, <2>2 DEF Wire
<1>10. Wires(rs, looping, breaks, np)
  BY <1>3, <1>9, WireChangesAlone DEF NetInv
<1>11. PICK S : conns \in Seq(S)
  BY DEF NetInv, Wires
<1>12. /\ DOMAIN rs = DOMAIN conns /\ rs[c] = new
       /\ \A d \in DOMAIN conns : d # c => rs[d] = conns[d]
  BY <1>11
<1>. HIDE DEF rs
<1>13. n \in Node /\ conns[c].from # n /\ conns[c].from \in Node
  BY <1>2 DEF Wire
<1>14. /\ TheirNames(table', rs) /\ (breaks = 0 => StillIn(table, table'))
       /\ Knows(table', rs, breaks)
  <2>1. Renames(c, n, id, rs)
    BY <1>1, <1>3, <1>8, <1>12 DEF Renames
  <2>. HIDE DEF n, id
  <2>. QED  BY <2>1, RenameKeeps
<1>15. table'[n] = t
  BY <1>8, <1>13 DEF NetInv
<1>. HIDE DEF t
<1>16. Passed(rs, conns', n, table'[n], m, id)
  <2>1. NamesOf(n, table'[n], rs)
    BY <1>13, <1>14 DEF TheirNames
  <2>2. conns' = Forwarded(rs, n, table'[n], m, id)
    BY <1>8, <1>15
  <2>. HIDE DEF n, id
  <2>. QED  BY <1>10, <1>13, <2>1, <2>2, Forwards
<1>17. Other(c, n, conns) = conns[c].from
  BY <1>13 DEF Other
<1>18. Took(conns, rs, c, n, m)
  <2>1. n \in Ends(c, conns) /\ Line(c, n, conns) = line
    BY DEF Ends, Line
  <2>. QED  BY <1>1, <1>3, <1>5, <1>12, <1>13, <1>17, <2>1 DEF Took
<1>19. got' = [got EXCEPT ![n][m] = @ + 1]
  BY <1>1, <1>6
<1>20. rs[c].key = Id(conns[c].from)
  BY <1>3, <1>12
<1>. HIDE DEF n
<1>. QED  BY <1>20, <1>1, <1>10, <1>13, <1>14, <1>16, <1>17, <1>18, <1>19 DEF Reads, n

(* A node publishes. *)
LEMMA PublishOrderly ==
  ASSUME NetInv, NEW n \in Node, Publish(n)
  PROVE  /\ Orderly
         /\ Wires(conns, looping, breaks, Len(pubs) + 1)
         /\ Sent(conns, conns', n, table[n], Len(pubs) + 1, {})
<1>. DEFINE m == Len(pubs) + 1
<1>1. /\ pubs' = Append(pubs, [by |-> n, whole |-> Whole])
      /\ conns' = TcpBroadcast(conns, n, table[n], m, {})
      /\ table' = table /\ looping' = looping /\ breaks' = breaks
  BY DEF Publish
<1>2. PICK S : pubs \in Seq(S)
  BY DEF NetInv
<1>3. Len(pubs) \in Nat /\ Len(pubs') = m /\ \E T : pubs' \in Seq(T)
  <2>. DEFINE x == [by |-> n, whole |-> Whole]
  <2>. HIDE DEF x
  <2>1. pubs' = Append(pubs, x)
    BY <1>1 DEF x
  <2>2. Append(pubs, x) \in Seq(S \cup {x}) /\ Len(Append(pubs, x)) = Len(pubs) + 1
    BY <1>2
  <2>. QED  BY <1>2, <2>1, <2>2
<1>4. Wires(conns, looping, breaks, m)
  BY <1>3, MorePubs DEF NetInv, Wires
<1>5. NamesOf(n, table[n], conns)
  BY DEF NetInv
<1>6. Sent(conns, conns', n, table[n], m, {})
  BY <1>1, <1>4, <1>5, BroadcastSends
<1>7. m \in 1..m
  BY <1>3
<1>8. Wires(conns', looping, breaks, m) /\ SameKeys(conns, conns')
  BY <1>4, <1>5, <1>6, <1>7, SentWires
<1>9. TheirNames(table, conns')
  BY <1>8, NamesStay DEF NetInv, TheirNames
<1>10. DOMAIN conns' = DOMAIN conns
  BY <1>6 DEF Sent
<1>11. Knows(table, conns', breaks) /\ StillIn(table, table)
  BY <1>8, <1>10 DEF NetInv, Knows, SameKeys, StillIn
<1>. QED  BY <1>1, <1>3, <1>4, <1>6, <1>8, <1>9, <1>10, <1>11 DEF Orderly, NetInv, SameKeys

(* A connection that breaks keeps its ends and its names. *)
LEMMA BreakOrderly ==
  ASSUME NetInv, NEW c \in DOMAIN conns, Break(c)
  PROVE  Orderly
<1>1. /\ table' = table /\ looping' = looping /\ pubs' = pubs /\ breaks' = breaks + 1
      /\ \E there \in {conns[c].toServer, <<>>}, back \in {conns[c].toClient, <<>>} :
            conns' = [conns EXCEPT ![c].cut = TRUE, ![c].toServer = there, ![c].toClient = back]
  BY Zenon DEF Break
<1>2. PICK there \in {conns[c].toServer, <<>>}, back \in {conns[c].toClient, <<>>} :
        conns' = [conns EXCEPT ![c].cut = TRUE, ![c].toServer = there, ![c].toClient = back]
  BY <1>1, Zenon
<1>. DEFINE new == [conns[c] EXCEPT !.cut = TRUE, !.toServer = there, !.toClient = back]
<1>3. conns' = [conns EXCEPT ![c] = new]
  BY <1>2
<1>4. Wire(c, conns[c], looping, breaks, Len(pubs))
  BY DEF NetInv, Wires
<1>5. /\ new.from = conns[c].from /\ new.to = conns[c].to /\ new.key = conns[c].key
      /\ new.cut = TRUE /\ new.client = conns[c].client
      /\ new.toServer = there /\ new.toClient = back
      /\ DOMAIN new = DOMAIN conns[c]
  BY <1>4 DEF Wire, Fields
<1>. HIDE DEF new
<1>6. /\ there \in Seq(FromDialer(conns[c].from, Len(pubs)))
      /\ back \in Seq(FromPeer(conns[c].to, Len(pubs)))
  <2>. DEFINE A == FromDialer(conns[c].from, Len(pubs))
              B == FromPeer(conns[c].to, Len(pubs))
  <2>1. conns[c].toServer \in Seq(A) /\ conns[c].toClient \in Seq(B)
    BY <1>4 DEF Wire
  <2>. HIDE DEF A, B
  <2>2. <<>> \in Seq(A) /\ <<>> \in Seq(B)
    OBVIOUS
  <2>3. there \in Seq(A) /\ back \in Seq(B)
    BY <2>1, <2>2
  <2>. QED  BY <2>3 DEF A, B
<1>7. breaks \in Nat /\ breaks' # 0 /\ breaks' \in Nat
  BY <1>1 DEF NetInv
<1>8. Wire(c, new, looping, breaks', Len(pubs))
  BY <1>4, <1>5, <1>6, <1>7 DEF Wire, Greets
<1>. QED  BY <1>1, <1>3, <1>5, <1>7, <1>8, ChangeOrderly

(* A node that stops leaves the connections of the others in order. *)
LEMMA StopOrderly ==
  ASSUME NetInv, NEW n \in Node, Stop(n)
  PROVE  Orderly /\ breaks' # 0
<1>. DEFINE mine == {c \in DOMAIN conns : n \in {conns[c].from, conns[c].to}}
            live == {c \in mine : ~conns[c].cut}
            np == Len(pubs)
<1>1. /\ live # {} /\ breaks' = breaks + Cardinality(live)
      /\ looping' = {d \in looping : d[1] # n}
      /\ table' = [table EXCEPT ![n] = <<>>]
      /\ conns' = [c \in DOMAIN conns |-> IF c \in mine THEN Closed(conns[c], n) ELSE conns[c]]
      /\ pubs' = pubs
  BY DEF Stop
<1>2. PICK S : conns \in Seq(S)
  BY DEF NetInv, Wires
<1>3. DOMAIN conns = 1..Len(conns) /\ Len(conns) \in Nat
  BY <1>2
<1>4. breaks' \in Nat /\ breaks' # 0
  <2>1. IsFiniteSet(DOMAIN conns)
    BY <1>3, FS_Interval
  <2>2. live \subseteq DOMAIN conns
    OBVIOUS
  <2>. HIDE DEF live
  <2>3. IsFiniteSet(live)
    BY <2>1, <2>2, FS_Subset
  <2>4. Cardinality(live) \in Nat /\ Cardinality(live) # 0
    BY <1>1, <2>3, FS_CardinalityType, FS_EmptySet
  <2>. QED  BY <1>1, <2>4 DEF NetInv
<1>5. \E T : conns' \in Seq(T)
  <2>. DEFINE close(c) == IF c \in mine THEN Closed(conns[c], n) ELSE conns[c]
  <2>1. conns' = [c \in 1..Len(conns) |-> close(c)]
    BY <1>1, <1>3
  <2>. HIDE DEF close
  <2>2. conns' \in Seq({close(c) : c \in 1..Len(conns)})
    BY <1>3, <2>1
  <2>. QED  BY <2>2
<1>6. DOMAIN conns' = DOMAIN conns
  BY <1>1
<1>7. ASSUME NEW c \in DOMAIN conns
      PROVE  /\ conns'[c].from = conns[c].from /\ conns'[c].to = conns[c].to
             /\ conns'[c].key = conns[c].key
             /\ (conns'[c].client = "open" => conns[c].client = "open")
             /\ Wire(c, conns'[c], looping', breaks', np)
  <2>1. Wire(c, conns[c], looping, breaks, np)
    BY DEF NetInv, Wires
  <2>2. CASE c \notin mine
    <3>1. conns'[c] = conns[c] /\ conns[c].from # n
      BY <1>1, <2>2
    <3>2. <<conns[c].from, conns[c].to>> \in looping => <<conns[c].from, conns[c].to>> \in looping'
      BY <1>1, <3>1
    <3>. QED  BY <1>4, <2>1, <3>1, <3>2 DEF Wire
  <2>3. CASE c \in mine
    <3>. DEFINE k == conns[c]
                new == Closed(k, n)
    <3>1. conns'[c] = new
      BY <1>1, <2>3
    <3>2. /\ new.from = k.from /\ new.to = k.to /\ new.key = k.key /\ new.cut = TRUE
          /\ new.client = IF k.from = n THEN "closed" ELSE k.client
          /\ new.toServer = IF k.to = n THEN <<>> ELSE k.toServer
          /\ new.toClient = IF k.from = n THEN <<>> ELSE k.toClient
          /\ DOMAIN new = DOMAIN k
      BY <2>1 DEF Wire, Fields, Closed
    <3>. HIDE DEF new
    <3>3. new.toServer \in Seq(FromDialer(k.from, np)) /\ new.toClient \in Seq(FromPeer(k.to, np))
      <4>. DEFINE A == FromDialer(k.from, np)
                  B == FromPeer(k.to, np)
      <4>1. k.toServer \in Seq(A) /\ k.toClient \in Seq(B)
        BY <2>1 DEF Wire
      <4>. HIDE DEF A, B
      <4>2. new.toServer \in Seq(A) /\ new.toClient \in Seq(B)
        BY <3>2, <4>1
      <4>. QED  BY <4>2 DEF A, B
    <3>4. new.client = "open" => <<k.from, k.to>> \in looping'
      BY <1>1, <2>1, <3>2 DEF Wire
    <3>5. Wire(c, new, looping', breaks', np)
      BY <1>4, <2>1, <3>2, <3>3, <3>4 DEF Wire, Greets
    <3>. QED  BY <3>1, <3>2, <3>5
  <2>. QED  BY <2>2, <2>3
<1>8. Alone(conns')
  BY <1>6, <1>7 DEF NetInv, Wires, Alone
<1>9. Wires(conns', looping', breaks', Len(pubs'))
  BY <1>1, <1>5, <1>6, <1>7, <1>8 DEF Wires
<1>10. SameKeys(conns, conns')
  BY <1>6, <1>7 DEF SameKeys
<1>11. TheirNames(table, conns')
  BY <1>10, NamesStay DEF NetInv, TheirNames
<1>12. NamesOf(n, <<>>, conns') /\ IsFiniteSet(DOMAIN <<>>)
  <2>1. DOMAIN <<>> = {}
    OBVIOUS
  <2>. QED  BY <2>1, FS_EmptySet DEF NamesOf
<1>13. TheirNames(table', conns')
  BY <1>1, <1>11, <1>12 DEF TheirNames
<1>. QED  BY <1>1, <1>4, <1>6, <1>7, <1>9, <1>13 DEF Orderly, Knows, NetInv

(* Nothing of it changes. *)
LEMMA RestOrderly ==
  ASSUME NetInv, conns' = conns, table' = table, looping' = looping, pubs' = pubs, breaks' = breaks
  PROVE  Orderly
BY DEF Orderly, NetInv, TheirNames, StillIn

(* Every step keeps the names and the lines in order. *)
LEMMA NetStep ==
  ASSUME NetInv, [TcpNext]_tcpVars
  PROVE  NetInv' /\ Orderly
<1>1. Orderly => NetInv'
  BY DEF Orderly, NetInv, TheirNames, OneWay
<1>2. ASSUME UNCHANGED tcpVars  PROVE Orderly
  BY <1>2, RestOrderly DEF tcpVars
<1>3. ASSUME NEW c \in DOMAIN conns, ClientRead(c)  PROVE Orderly
  BY <1>3, ClientReads, ReadsOrderly
<1>4. ASSUME NEW c \in DOMAIN conns, ServerReadPub(c)  PROVE Orderly
  BY <1>4, ServerReads, ReadsOrderly
<1>5. ASSUME NEW n \in Node, Start(n)  PROVE Orderly
  BY <1>5, RestOrderly DEF Start
<1>6. ASSUME NEW d \in Dials, Dial(d[1], d[2])  PROVE Orderly
  BY <1>6, DialOrderly
<1>7. ASSUME NEW n \in Publisher, Publish(n)  PROVE Orderly
  BY <1>7, PublishOrderly, PublisherAssumption
<1>8. ASSUME NEW n \in Node, Stop(n)  PROVE Orderly
  BY <1>8, StopOrderly
<1>9. ASSUME NEW c \in DOMAIN conns,
             \/ ClientEnd(c) \/ ServerHello(c) \/ HelloTimeout(c)
             \/ ServerReadHello(c) \/ ServerEnd(c) \/ Break(c)
      PROVE  Orderly
  BY <1>9, ClientEndOrderly, ServerHelloOrderly, HelloTimeoutOrderly,
     ServerReadHelloOrderly, ServerEndOrderly, BreakOrderly
<1>10. Orderly
  <2>1. CASE TcpNext
    BY <1>3, <1>4, <1>5, <1>6, <1>7, <1>8, <1>9, <2>1 DEF TcpNext
  <2>. QED  BY <1>2, <2>1
<1>. QED  BY <1>1, <1>10

(* Place i of what is under way to n on connection c holds publication m. *)
Copy(m, n, c, i, cs) ==
  /\ c \in DOMAIN cs /\ n \in Ends(c, cs)
  /\ i \in DOMAIN Line(c, n, cs)
  /\ Line(c, n, cs)[i].type = "pub" /\ Line(c, n, cs)[i].id = m

(* Whether the head of a line was read. *)
Skip(c, n, cs, ds) == IF Line(c, n, ds) = Line(c, n, cs) THEN 0 ELSE 1

(* In ds there are the publications under way in cs, or fewer. *)
Fewer(cs, ds) ==
  \A m, n, c, i : Copy(m, n, c, i, ds) =>
     /\ i \in Nat \ {0} /\ Copy(m, n, c, i + Skip(c, n, cs, ds), cs)
     /\ Other(c, n, ds) = Other(c, n, cs)

(* There is none fewer. *)
NoneLost(cs, ds) ==
  \A m, n, c, i : Copy(m, n, c, i, cs) => \E j : Copy(m, n, c, j, ds)

(* Lines are lists. *)
LEMMA LinesAreLists ==
  ASSUME NEW cs, NEW loops, NEW b, NEW np, Wires(cs, loops, b, np),
         NEW c \in DOMAIN cs, NEW n
  PROVE  /\ \E S : Line(c, n, cs) \in Seq(S)
         /\ cs[c].from # cs[c].to /\ cs[c].from \in Node /\ cs[c].to \in Node
BY DEF Wires, Wire, Line

(* What line s is when it has lost its hello, or all of it, or nothing. *)
Shorter(s, q, b) ==
  \/ s = q
  \/ q # <<>> /\ Head(q) = Hello /\ s = Tail(q)
  \/ s = <<>> /\ b # 0

Shrinks(cs, ds, b) ==
  /\ DOMAIN cs \subseteq DOMAIN ds
  /\ \A c \in DOMAIN ds \ DOMAIN cs :
       ds[c].toServer = <<Hello>> /\ ds[c].toClient = <<>> /\ ds[c].from # ds[c].to
  /\ \A c \in DOMAIN cs :
       /\ ds[c].from = cs[c].from /\ ds[c].to = cs[c].to
       /\ Shorter(ds[c].toServer, cs[c].toServer, b)
       /\ Shorter(ds[c].toClient, cs[c].toClient, b)

(* Lines that lost only a hello hold the same publications, and those of a broken
   connection the same or fewer. *)
LEMMA ShrinksFewer ==
  ASSUME NEW cs, NEW loops, NEW b, NEW np, Wires(cs, loops, b, np), NEW ds, NEW b2,
         Shrinks(cs, ds, b2)
  PROVE  Fewer(cs, ds) /\ (b2 = 0 => NoneLost(cs, ds))
<1>1. Hello.type = "hello" /\ "hello" # "pub"
  BY DEF Hello
<1>2. ASSUME NEW c \in DOMAIN cs, NEW n \in Ends(c, cs)
      PROVE  /\ n \in Ends(c, ds) /\ Ends(c, ds) = Ends(c, cs)
             /\ Other(c, n, ds) = Other(c, n, cs)
             /\ Shorter(Line(c, n, ds), Line(c, n, cs), b2)
             /\ \E S : Line(c, n, cs) \in Seq(S)
  BY <1>2, LinesAreLists DEF Shrinks, Ends, Other, Line
<1>3. ASSUME NEW m, NEW n, NEW c, NEW i, Copy(m, n, c, i, ds)
      PROVE  /\ i \in Nat \ {0} /\ Copy(m, n, c, i + Skip(c, n, cs, ds), cs)
             /\ Other(c, n, ds) = Other(c, n, cs)
  <2>1. CASE c \notin DOMAIN cs
    <3>1. Line(c, n, ds) = <<Hello>> \/ Line(c, n, ds) = <<>>
      BY <1>3, <2>1 DEF Shrinks, Line, Copy
    <3>2. DOMAIN <<>> = {} /\ \A j \in DOMAIN <<Hello>> : <<Hello>>[j] = Hello
      OBVIOUS
    <3>. QED  BY <1>1, <1>3, <3>1, <3>2 DEF Copy
  <2>2. CASE c \in DOMAIN cs
    <3>. DEFINE q == Line(c, n, cs)
                s == Line(c, n, ds)
    <3>1. n \in Ends(c, cs)
      BY <1>3, <2>2 DEF Copy, Ends, Shrinks
    <3>2. PICK S : q \in Seq(S)
      BY <1>2, <2>2, <3>1
    <3>3. Shorter(s, q, b2) /\ Other(c, n, ds) = Other(c, n, cs)
      BY <1>2, <2>2, <3>1
    <3>4. i \in DOMAIN s /\ s[i].type = "pub" /\ s[i].id = m
      BY <1>3 DEF Copy
    <3>5. Skip(c, n, cs, ds) = IF s = q THEN 0 ELSE 1
      BY DEF Skip
    <3>6. Copy(m, n, c, i + Skip(c, n, cs, ds), cs)
             <=> /\ i + Skip(c, n, cs, ds) \in DOMAIN q
                 /\ q[i + Skip(c, n, cs, ds)].type = "pub"
                 /\ q[i + Skip(c, n, cs, ds)].id = m
      BY <2>2, <3>1 DEF Copy
    <3>. HIDE DEF q, s
    <3>7. CASE s = q
      <4>1. i \in Nat \ {0} /\ i + 0 = i
        BY <3>2, <3>4, <3>7
      <4>. QED  BY <3>3, <3>4, <3>5, <3>6, <3>7, <4>1
    <3>8. CASE s # q /\ q # <<>> /\ s = Tail(q)
      <4>1. i \in Nat \ {0} /\ i + 1 \in DOMAIN q /\ s[i] = q[i + 1]
        BY <3>2, <3>4, <3>8
      <4>. QED  BY <3>3, <3>4, <3>5, <3>6, <3>8, <4>1
    <3>9. CASE s = <<>>
      BY <3>4, <3>9
    <3>. QED  BY <3>3, <3>7, <3>8, <3>9 DEF Shorter
  <2>. QED  BY <2>1, <2>2
<1>4. ASSUME b2 = 0, NEW m, NEW n, NEW c, NEW i, Copy(m, n, c, i, cs)
      PROVE  \E j : Copy(m, n, c, j, ds)
  <2>. DEFINE q == Line(c, n, cs)
              s == Line(c, n, ds)
  <2>1. /\ c \in DOMAIN cs /\ n \in Ends(c, cs) /\ i \in DOMAIN q
        /\ q[i].type = "pub" /\ q[i].id = m
    BY <1>4 DEF Copy
  <2>2. PICK S : q \in Seq(S)
    BY <1>2, <2>1
  <2>3. s = q \/ (q # <<>> /\ Head(q) = Hello /\ s = Tail(q))
    BY <1>2, <1>4, <2>1 DEF Shorter
  <2>4. n \in Ends(c, ds) /\ c \in DOMAIN ds
    BY <1>2, <2>1 DEF Shrinks
  <2>5. \A j : j \in DOMAIN s /\ s[j].type = "pub" /\ s[j].id = m => Copy(m, n, c, j, ds)
    BY <2>4 DEF Copy
  <2>. HIDE DEF q, s
  <2>6. CASE s = q
    BY <2>1, <2>5, <2>6
  <2>7. CASE q # <<>> /\ Head(q) = Hello /\ s = Tail(q)
    <3>1. q[1] = Hello /\ i \in 1..Len(q) /\ Len(q) \in Nat
      BY <2>1, <2>2, <2>7
    <3>2. i # 1
      BY <1>1, <2>1, <3>1
    <3>3. i - 1 \in DOMAIN s /\ s[i - 1] = q[i]
      BY <2>2, <2>7, <3>1, <3>2
    <3>. QED  BY <2>1, <2>5, <3>3
  <2>. QED  BY <2>3, <2>6, <2>7
<1>. QED  BY <1>3, <1>4 DEF Fewer, NoneLost

(* A publication that was read is under way no longer, and all others are. *)
LEMMA TookOne ==
  ASSUME NEW cs, NEW loops, NEW b, NEW np, Wires(cs, loops, b, np),
         NEW rs, NEW c, NEW n, NEW m, Took(cs, rs, c, n, m)
  PROVE  /\ Fewer(cs, rs)
         /\ Copy(m, n, c, 1, cs)
         /\ Skip(c, n, cs, rs) = 1
         /\ \A k, x, d, i : Copy(k, x, d, i, cs) /\ ~(x = n /\ d = c /\ i = 1)
                               => \E j : Copy(k, x, d, j, rs)
<1>1. /\ c \in DOMAIN cs /\ n \in Ends(c, cs)
      /\ Line(c, n, cs) # <<>> /\ Head(Line(c, n, cs)) = Pub(m, Other(c, n, cs))
      /\ DOMAIN rs = DOMAIN cs
      /\ cs[c].from # cs[c].to
  BY LinesAreLists DEF Took
<1>2. PICK S : Line(c, n, cs) \in Seq(S)
  BY <1>1, LinesAreLists
<1>3. Line(c, n, rs) = Tail(Line(c, n, cs))
  BY <1>1 DEF Took, Line, Ends
<1>4. ASSUME NEW d \in DOMAIN cs, NEW x
      PROVE  /\ Ends(d, rs) = Ends(d, cs) /\ Other(d, x, rs) = Other(d, x, cs)
             /\ x \in Ends(d, cs) /\ ~(x = n /\ d = c) => Line(d, x, rs) = Line(d, x, cs)
  <2>1. CASE d = c
    BY <1>1, <2>1 DEF Took, Line, Ends, Other
  <2>2. CASE d # c
    BY <2>2 DEF Took, Line, Ends, Other
  <2>. QED  BY <2>1, <2>2
<1>5. Copy(m, n, c, 1, cs)
  <2>1. 1 \in DOMAIN Line(c, n, cs) /\ Line(c, n, cs)[1] = Head(Line(c, n, cs))
    BY <1>1, <1>2
  <2>. QED  BY <1>1, <2>1 DEF Copy, Pub
<1>6. Skip(c, n, cs, rs) = 1
  <2>. DEFINE q == Line(c, n, cs)
  <2>1. q \in Seq(S) /\ q # <<>>
    BY <1>1, <1>2
  <2>. HIDE DEF q
  <2>2. Len(Tail(q)) = Len(q) - 1 /\ Len(q) \in Nat
    BY <2>1
  <2>3. Tail(q) # q
    BY <2>2
  <2>. QED  BY <1>3, <2>3 DEF Skip, q
<1>7. ASSUME NEW k, NEW x, NEW d, NEW i, Copy(k, x, d, i, rs)
      PROVE  /\ i \in Nat \ {0} /\ Copy(k, x, d, i + Skip(d, x, cs, rs), cs)
             /\ Other(d, x, rs) = Other(d, x, cs)
  <2>1. d \in DOMAIN cs /\ x \in Ends(d, cs)
    BY <1>1, <1>4, <1>7 DEF Copy
  <2>2. PICK T : Line(d, x, cs) \in Seq(T)
    BY <2>1, LinesAreLists
  <2>3. CASE x = n /\ d = c
    <3>. DEFINE q == Line(c, n, cs)
    <3>1. i \in DOMAIN Tail(q) /\ Tail(q)[i].type = "pub" /\ Tail(q)[i].id = k
      BY <1>3, <1>7, <2>3 DEF Copy
    <3>2. q \in Seq(S) /\ q # <<>>
      BY <1>1, <1>2
    <3>. HIDE DEF q
    <3>3. i \in Nat \ {0} /\ i + 1 \in DOMAIN q /\ Tail(q)[i] = q[i + 1]
      BY <3>1, <3>2
    <3>. QED  BY <1>4, <1>6, <2>1, <2>3, <3>1, <3>3 DEF Copy, q
  <2>4. CASE ~(x = n /\ d = c)
    <3>1. Line(d, x, rs) = Line(d, x, cs) /\ Skip(d, x, cs, rs) = 0
      BY <1>4, <2>1, <2>4 DEF Skip
    <3>2. i \in DOMAIN Line(d, x, cs)
      BY <1>7, <3>1 DEF Copy
    <3>3. i \in Nat \ {0} /\ i + 0 = i
      BY <2>2, <3>2
    <3>. QED  BY <1>4, <1>7, <2>1, <3>1, <3>3 DEF Copy
  <2>. QED  BY <2>3, <2>4
<1>8. ASSUME NEW k, NEW x, NEW d, NEW i, Copy(k, x, d, i, cs), ~(x = n /\ d = c /\ i = 1)
      PROVE  \E j : Copy(k, x, d, j, rs)
  <2>1. d \in DOMAIN cs /\ x \in Ends(d, cs) /\ d \in DOMAIN rs /\ x \in Ends(d, rs)
    BY <1>1, <1>4, <1>8 DEF Copy
  <2>2. CASE x = n /\ d = c
    <3>. DEFINE q == Line(c, n, cs)
    <3>1. q \in Seq(S) /\ q # <<>> /\ i \in DOMAIN q /\ q[i].type = "pub" /\ q[i].id = k
      BY <1>1, <1>2, <1>8, <2>2 DEF Copy
    <3>. HIDE DEF q
    <3>2. i - 1 \in DOMAIN Tail(q) /\ Tail(q)[i - 1] = q[i]
      BY <1>8, <2>2, <3>1
    <3>. QED  BY <1>3, <2>1, <2>2, <3>1, <3>2 DEF Copy, q
  <2>3. CASE ~(x = n /\ d = c)
    <3>1. Line(d, x, rs) = Line(d, x, cs)
      BY <1>4, <2>1, <2>3
    <3>. QED  BY <1>8, <2>1, <3>1 DEF Copy
  <2>. QED  BY <2>2, <2>3
<1>. QED  BY <1>5, <1>6, <1>7, <1>8 DEF Fewer

(* ds has the publications under way in cs, and m once more on each connection
   that n wrote it to. *)
OneMore(cs, ds, n, t, m, except) ==
  /\ \A d \in DOMAIN cs : \A x : Other(d, x, ds) = Other(d, x, cs)
  /\ \A k, x, d, i : Copy(k, x, d, i, cs) => Copy(k, x, d, i, ds)
  /\ \A k, x, d, i : Copy(k, x, d, i, ds) =>
        \/ Copy(k, x, d, i, cs)
        \/ /\ k = m /\ Sends(d, t, except, cs) /\ n \in Ends(d, cs)
           /\ x = Other(d, n, cs) /\ i = Len(Line(d, x, cs)) + 1
  /\ \A d \in DOMAIN cs : Sends(d, t, except, cs) => \E i : Copy(m, Other(d, n, cs), d, i, ds)

(* That is what a broadcast does. *)
LEMMA SentOne ==
  ASSUME NEW cs, NEW loops, NEW b, NEW np, Wires(cs, loops, b, np),
         NEW ds, NEW n \in Node, NEW t, NEW m, NEW except, NamesOf(n, t, cs),
         Sent(cs, ds, n, t, m, except)
  PROVE  OneMore(cs, ds, n, t, m, except)
<1>1. ASSUME NEW d \in DOMAIN cs
      PROVE  /\ d \in DOMAIN ds /\ Ends(d, ds) = Ends(d, cs)
             /\ \A x : Other(d, x, ds) = Other(d, x, cs)
             /\ cs[d].from # cs[d].to
  BY LinesAreLists DEF Sent, Ends, Other
<1>2. ASSUME NEW d, Sends(d, t, except, cs)  PROVE d \in DOMAIN cs /\ n \in Ends(d, cs)
  BY <1>2 DEF Sends, NamesOf, Name, Ends
<1>3. ASSUME NEW d \in DOMAIN cs, NEW x \in Ends(d, cs)
      PROVE  Line(d, x, ds) = IF Sends(d, t, except, cs) /\ x = Other(d, n, cs)
                              THEN Append(Line(d, x, cs), Pub(m, n)) ELSE Line(d, x, cs)
  BY <1>1, <1>2 DEF Sent, Line, Ends, Other
<1>4. Pub(m, n).type = "pub" /\ Pub(m, n).id = m
  BY DEF Pub
<1>5. ASSUME NEW d \in DOMAIN cs, NEW x \in Ends(d, cs)
      PROVE  LET q == Line(d, x, cs)
                 s == Append(q, Pub(m, n))
             IN /\ Len(q) \in Nat /\ DOMAIN q = 1..Len(q)
                /\ DOMAIN s = 1..(Len(q) + 1)
                /\ \A i \in DOMAIN q : s[i] = q[i]
                /\ s[Len(q) + 1] = Pub(m, n)
  <2>1. PICK S : Line(d, x, cs) \in Seq(S)
    BY LinesAreLists
  <2>. DEFINE q == Line(d, x, cs)
              y == Pub(m, n)
  <2>2. q \in Seq(S)
    BY <2>1
  <2>. HIDE DEF q, y
  <2>3. q \in Seq(S \cup {y}) /\ y \in S \cup {y}
    BY <2>2
  <2>4. /\ Len(q) \in Nat /\ DOMAIN q = 1..Len(q)
        /\ DOMAIN Append(q, y) = 1..(Len(q) + 1)
        /\ \A i \in DOMAIN q : Append(q, y)[i] = q[i]
        /\ Append(q, y)[Len(q) + 1] = y
    BY <2>3
  <2>. QED  BY <2>4 DEF q, y
<1>6. ASSUME NEW k, NEW x, NEW d, NEW i, Copy(k, x, d, i, cs)  PROVE Copy(k, x, d, i, ds)
  <2>1. d \in DOMAIN cs /\ x \in Ends(d, cs) /\ i \in DOMAIN Line(d, x, cs)
    BY <1>6 DEF Copy
  <2>2. i \in DOMAIN Line(d, x, ds) /\ Line(d, x, ds)[i] = Line(d, x, cs)[i]
    BY <1>3, <1>5, <2>1
  <2>. QED  BY <1>1, <1>6, <2>1, <2>2 DEF Copy
<1>7. ASSUME NEW k, NEW x, NEW d, NEW i, Copy(k, x, d, i, ds)
      PROVE  \/ Copy(k, x, d, i, cs)
             \/ /\ k = m /\ Sends(d, t, except, cs) /\ n \in Ends(d, cs)
                /\ x = Other(d, n, cs) /\ i = Len(Line(d, x, cs)) + 1
  <2>1. d \in DOMAIN ds /\ x \in Ends(d, ds) /\ i \in DOMAIN Line(d, x, ds)
        /\ Line(d, x, ds)[i].type = "pub" /\ Line(d, x, ds)[i].id = k
    BY <1>7 DEF Copy
  <2>2. d \in DOMAIN cs /\ x \in Ends(d, cs)
    BY <1>1, <2>1 DEF Sent
  <2>3. CASE i \in DOMAIN Line(d, x, cs)
    <3>1. Line(d, x, ds)[i] = Line(d, x, cs)[i]
      BY <1>3, <1>5, <2>2, <2>3
    <3>. QED  BY <2>1, <2>2, <2>3, <3>1 DEF Copy
  <2>4. CASE i \notin DOMAIN Line(d, x, cs)
    <3>1. Sends(d, t, except, cs) /\ x = Other(d, n, cs)
      BY <1>3, <2>1, <2>2, <2>4
    <3>2. Line(d, x, ds) = Append(Line(d, x, cs), Pub(m, n))
      BY <1>3, <2>2, <3>1
    <3>3. i = Len(Line(d, x, cs)) + 1 /\ Line(d, x, ds)[i] = Pub(m, n)
      BY <1>5, <2>1, <2>2, <2>4, <3>2
    <3>. QED  BY <1>2, <1>4, <2>1, <3>1, <3>3
  <2>. QED  BY <2>3, <2>4
<1>8. ASSUME NEW d \in DOMAIN cs, Sends(d, t, except, cs)
      PROVE  \E i : Copy(m, Other(d, n, cs), d, i, ds)
  <2>. DEFINE x == Other(d, n, cs)
  <2>1. x \in Ends(d, cs)
    BY DEF Other, Ends
  <2>2. Line(d, x, ds) = Append(Line(d, x, cs), Pub(m, n))
    BY <1>3, <1>8, <2>1
  <2>3. Len(Line(d, x, cs)) + 1 \in DOMAIN Line(d, x, ds)
        /\ Line(d, x, ds)[Len(Line(d, x, cs)) + 1] = Pub(m, n)
    BY <1>5, <2>1, <2>2
  <2>. QED  BY <1>1, <1>4, <2>1, <2>3 DEF Copy
<1>. QED  BY <1>1, <1>6, <1>7, <1>8 DEF OneMore

(* The peers form a tree around p: up leads each other node to a peer nearer to
   p, which is p itself or passes on what it gets, and there are no other peers. *)
TreeAround(p, up, depth) ==
  /\ \A n \in Node \ {p} :
       /\ depth[up[n]] < depth[n]
       /\ up[n] = p \/ up[n] \in Relay
       /\ <<n, up[n]>> \in Dials \/ <<up[n], n>> \in Dials
  /\ \A d \in Dials : \/ d[1] # p /\ up[d[1]] = d[2]
                      \/ d[2] # p /\ up[d[2]] = d[1]

Rooted(p, up) ==
  /\ p \in Node /\ up \in [Node -> Node]
  /\ \E depth \in [Node -> Nat] : TreeAround(p, up, depth)

(* No two nodes dial each other, and around each publisher the peers form a tree. *)
PeersAreTree == OneWay /\ \A p \in Publisher : \E up : Rooted(p, up)

Up(p) == CHOOSE up : Rooted(p, up)

(* Of two peers, one is led to the other, and not both. *)
LEMMA Neighbours ==
  ASSUME NEW p, NEW up, Rooted(p, up), NEW x, NEW y, <<x, y>> \in Dials \/ <<y, x>> \in Dials
  PROVE  /\ x \in Node /\ y \in Node
         /\ (x # p /\ up[x] = y) \/ (y # p /\ up[y] = x)
         /\ ~(x # p /\ up[x] = y /\ y # p /\ up[y] = x)
<1>1. PICK depth \in [Node -> Nat] : TreeAround(p, up, depth)
  BY DEF Rooted
<1>. DEFINE d == <<x, y>>
            e == <<y, x>>
<1>2. x \in Node /\ y \in Node
  BY DialsAssumption
<1>3. d[1] = x /\ d[2] = y /\ e[1] = y /\ e[2] = x /\ (d \in Dials \/ e \in Dials)
  OBVIOUS
<1>. HIDE DEF d, e
<1>4. (x # p /\ up[x] = y) \/ (y # p /\ up[y] = x)
  BY <1>1, <1>3 DEF TreeAround
<1>5. ASSUME x # p, up[x] = y, y # p, up[y] = x  PROVE FALSE
  <2>1. depth[y] < depth[x] /\ depth[x] < depth[y] /\ depth[x] \in Nat /\ depth[y] \in Nat
    BY <1>1, <1>2, <1>5 DEF TreeAround
  <2>. QED  BY <2>1
<1>. QED  BY <1>2, <1>4, <1>5

(* Above each node but the publisher is another, which passes on what it gets. *)
LEMMA Parents ==
  ASSUME NEW p, NEW up, Rooted(p, up), NEW n \in Node \ {p}
  PROVE  up[n] \in Node /\ up[n] # n /\ (up[n] = p \/ up[n] \in Relay)
<1>1. PICK depth \in [Node -> Nat] : TreeAround(p, up, depth)
  BY DEF Rooted
<1>2. depth[up[n]] < depth[n] /\ up[n] \in Node /\ depth[n] \in Nat
  BY <1>1 DEF TreeAround, Rooted
<1>3. up[n] # n
  BY <1>2
<1>. QED  BY <1>1, <1>2, <1>3 DEF TreeAround

(* Around each publisher there is a tree. *)
LEMMA UpIsRooted ==
  ASSUME PeersAreTree, NEW p \in Publisher
  PROVE  Rooted(p, Up(p))
BY DEF PeersAreTree, Up

(* m, published by p, is under way from nodes that have it, further down the tree
   unless it comes back to p or from a relay that wrote it to a second connection. *)
Down(m, p, up, cs, g, b) ==
  \A n, c, i : Copy(m, n, c, i, cs) =>
     /\ n \in Node /\ Other(c, n, cs) \in Node
     /\ n # p => up[n] = Other(c, n, cs)
     /\ b = 0 => n # p
     /\ Other(c, n, cs) = p \/ Other(c, n, cs) \in Relay
     /\ g[Other(c, n, cs)][m] # 0

(* A node other than p gets m once, after the one above it, and there is one copy
   of it under way to the node at most, before that. *)
Single(m, p, up, cs, g) ==
  \A n \in Node \ {p} :
     /\ g[n][m] \in {0, 1}
     /\ g[up[n]][m] = 0 => g[n][m] = 0
     /\ \A c, i : Copy(m, n, c, i, cs) =>
          /\ g[n][m] = 0
          /\ \A d, j : Copy(m, n, d, j, cs) => c = d /\ i = j

Home(m, p, g, b) == g[p][m] \in Nat \ {0} /\ (b = 0 => g[p][m] = 1)

OnePub(m, p, up, cs, g, b) ==
  Down(m, p, up, cs, g, b) /\ Single(m, p, up, cs, g) /\ Home(m, p, g, b)

(* Nothing of it is new in ds and h. *)
SameGot(m, g, h) == \A x \in Node : h[x][m] = g[x][m]

(* What is under way stays in one place when some of it is lost. *)
LEMMA FewerKeeps ==
  ASSUME NEW m, NEW p, NEW up, Rooted(p, up), NEW cs, NEW g, NEW b, OnePub(m, p, up, cs, g, b),
         NEW ds, NEW h, NEW b2, Fewer(cs, ds), SameGot(m, g, h), b2 = 0 => b = 0
  PROVE  OnePub(m, p, up, ds, h, b2)
<1>1. Home(m, p, h, b2)
  BY DEF OnePub, Home, SameGot, Rooted
<1>2. ASSUME NEW n, NEW c, NEW i, Copy(m, n, c, i, ds)
      PROVE  /\ i \in Nat /\ Copy(m, n, c, i + Skip(c, n, cs, ds), cs)
             /\ Other(c, n, ds) = Other(c, n, cs)
             /\ Skip(c, n, cs, ds) \in Nat
  BY <1>2 DEF Fewer, Skip
<1>3. Down(m, p, up, ds, h, b2)
  BY <1>2 DEF OnePub, Down, SameGot
<1>4. ASSUME NEW n \in Node \ {p}
      PROVE  /\ h[n][m] \in {0, 1}
             /\ h[up[n]][m] = 0 => h[n][m] = 0
             /\ \A c, i : Copy(m, n, c, i, ds) =>
                  /\ h[n][m] = 0
                  /\ \A d, j : Copy(m, n, d, j, ds) => c = d /\ i = j
  <2>1. h[n][m] \in {0, 1} /\ (h[up[n]][m] = 0 => h[n][m] = 0) /\ h[n][m] = g[n][m]
    BY Parents DEF OnePub, Single, SameGot
  <2>2. ASSUME NEW c, NEW i, Copy(m, n, c, i, ds)
        PROVE  /\ h[n][m] = 0
               /\ \A d, j : Copy(m, n, d, j, ds) => c = d /\ i = j
    <3>1. Copy(m, n, c, i + Skip(c, n, cs, ds), cs)
      BY <1>2, <2>2
    <3>2. h[n][m] = 0
      BY <2>1, <3>1 DEF OnePub, Single
    <3>3. ASSUME NEW d, NEW j, Copy(m, n, d, j, ds)  PROVE c = d /\ i = j
      <4>1. Copy(m, n, d, j + Skip(d, n, cs, ds), cs)
        BY <1>2, <3>3
      <4>2. c = d /\ i + Skip(c, n, cs, ds) = j + Skip(d, n, cs, ds)
        BY <3>1, <4>1 DEF OnePub, Single
      <4>3. i \in Nat /\ j \in Nat /\ Skip(c, n, cs, ds) \in Nat
        BY <1>2, <2>2, <3>3
      <4>. QED  BY <4>2, <4>3
    <3>. QED  BY <3>2, <3>3
  <2>. QED  BY <2>1, <2>2
<1>5. Single(m, p, up, ds, h)
  BY <1>4 DEF Single
<1>. QED  BY <1>1, <1>3, <1>5 DEF OnePub

(* The copies of m in ds are those in cs. *)
SameCopies(m, cs, ds) ==
  \A n, c, i : Copy(m, n, c, i, ds) => Copy(m, n, c, i, cs) /\ Other(c, n, ds) = Other(c, n, cs)

(* What is under way stays in one place when another publication is written. *)
LEMMA CopiesKeep ==
  ASSUME NEW m, NEW p, NEW up, Rooted(p, up), NEW cs, NEW g, NEW b, OnePub(m, p, up, cs, g, b),
         NEW ds, NEW h, SameCopies(m, cs, ds), SameGot(m, g, h)
  PROVE  OnePub(m, p, up, ds, h, b)
<1>1. Down(m, p, up, ds, h, b)
  BY DEF OnePub, Down, SameCopies, SameGot
<1>2. ASSUME NEW n \in Node \ {p}
      PROVE  /\ h[n][m] \in {0, 1}
             /\ h[up[n]][m] = 0 => h[n][m] = 0
             /\ \A c, i : Copy(m, n, c, i, ds) =>
                  /\ h[n][m] = 0
                  /\ \A d, j : Copy(m, n, d, j, ds) => c = d /\ i = j
  <2>1. h[n][m] \in {0, 1} /\ (h[up[n]][m] = 0 => h[n][m] = 0) /\ h[n][m] = g[n][m]
    BY Parents DEF OnePub, Single, SameGot
  <2>2. \A c, i : Copy(m, n, c, i, ds) => Copy(m, n, c, i, cs)
    BY DEF SameCopies
  <2>3. \A c, i : Copy(m, n, c, i, cs) =>
          g[n][m] = 0 /\ \A d, j : Copy(m, n, d, j, cs) => c = d /\ i = j
    BY DEF OnePub, Single
  <2>. QED  BY <2>1, <2>2, <2>3
<1>4. Single(m, p, up, ds, h)
  BY <1>2 DEF Single
<1>3. Home(m, p, h, b)
  BY DEF OnePub, Home, SameGot, Rooted
<1>. QED  BY <1>1, <1>3, <1>4 DEF OnePub

(* h is g with m once more at n. *)
Gets(m, n, g, h) ==
  /\ g \in [Node -> [1..MaxPubs -> Nat]] /\ m \in 1..MaxPubs /\ n \in Node
  /\ h = [g EXCEPT ![n][m] = @ + 1]

(* Only m at n is counted once more. *)
LEMMA GetsOne ==
  ASSUME NEW m, NEW n, NEW g, NEW h, Gets(m, n, g, h)
  PROVE  /\ h \in [Node -> [1..MaxPubs -> Nat]]
         /\ h[n][m] = g[n][m] + 1 /\ g[n][m] \in Nat
         /\ \A x \in Node \ {n} : h[x] = g[x]
         /\ \A k \in 1..MaxPubs \ {m} : SameGot(k, g, h)
         /\ \A x \in Node, k \in 1..MaxPubs : g[x][k] # 0 => h[x][k] # 0
<1>1. /\ g \in [Node -> [1..MaxPubs -> Nat]] /\ m \in 1..MaxPubs /\ n \in Node
      /\ h = [g EXCEPT ![n] = [g[n] EXCEPT ![m] = g[n][m] + 1]]
  BY DEF Gets
<1>. DEFINE row == [g[n] EXCEPT ![m] = g[n][m] + 1]
<1>2. /\ g[n] \in [1..MaxPubs -> Nat] /\ g[n][m] \in Nat
  BY <1>1
<1>3. /\ row \in [1..MaxPubs -> Nat] /\ row[m] = g[n][m] + 1
      /\ \A k \in 1..MaxPubs \ {m} : row[k] = g[n][k]
  BY <1>1, <1>2
<1>. HIDE DEF row
<1>4. h = [g EXCEPT ![n] = row]
  BY <1>1 DEF row
<1>5. /\ h \in [Node -> [1..MaxPubs -> Nat]] /\ h[n] = row
      /\ \A x \in Node \ {n} : h[x] = g[x]
  BY <1>1, <1>3, <1>4
<1>6. \A x \in Node, k \in 1..MaxPubs \ {m} : h[x][k] = g[x][k]
  BY <1>3, <1>5
<1>7. ASSUME NEW x \in Node, NEW k \in 1..MaxPubs, g[x][k] # 0  PROVE h[x][k] # 0
  <2>1. CASE x = n /\ k = m
    BY <1>2, <1>3, <1>5, <2>1
  <2>2. CASE ~(x = n /\ k = m)
    BY <1>3, <1>5, <1>7, <2>2
  <2>. QED  BY <2>1, <2>2
<1>8. /\ h[n][m] = g[n][m] + 1
      /\ \A k \in 1..MaxPubs \ {m} : SameGot(k, g, h)
  BY <1>3, <1>5, <1>6 DEF SameGot
<1>. QED  BY <1>2, <1>5, <1>7, <1>8

(* n has sent none of it yet, and none of those below n has it. *)
Fresh(m, p, up, n, cs, h) ==
  /\ \A x, d, i : Copy(m, x, d, i, cs) => Other(d, x, cs) # n
  /\ \A x \in Node \ {p} : up[x] = n => h[x][m] = 0

(* n may pass on what q sent it. *)
Below(p, up, n, q, b) ==
  /\ n # p /\ up[n] = q /\ (q = p \/ q \in Relay)

(* Reading takes the one copy for its reader, and leaves it free to pass it on. *)
LEMMA TookKeeps ==
  ASSUME NEW cs, NEW loops, NEW b, NEW np, Wires(cs, loops, b, np), NEW rs, NEW c, NEW n, NEW m,
         Took(cs, rs, c, n, m), NEW p, NEW up, Rooted(p, up), b = 0 \/ OneRelay,
         NEW g, NEW h, OnePub(m, p, up, cs, g, b), Gets(m, n, g, h)
  PROVE  /\ OnePub(m, p, up, rs, h, b)
         /\ n \in Relay => Below(p, up, n, Other(c, n, cs), b) /\ Fresh(m, p, up, n, rs, h)
<1>. DEFINE q == Other(c, n, cs)
<1>1. Fewer(cs, rs) /\ Copy(m, n, c, 1, cs) /\ Skip(c, n, cs, rs) = 1
  BY TookOne
<1>2. /\ n \in Node /\ q \in Node
      /\ n # p => up[n] = q
      /\ b = 0 => n # p
      /\ q = p \/ q \in Relay
      /\ g[q][m] # 0
  BY <1>1 DEF OnePub, Down
<1>3. q # n
  <2>1. c \in DOMAIN cs /\ cs[c].from # cs[c].to
    BY LinesAreLists DEF Took
  <2>. QED  BY <2>1 DEF Other
<1>4. /\ h[n][m] = g[n][m] + 1 /\ g[n][m] \in Nat
      /\ \A x \in Node \ {n} : h[x] = g[x]
      /\ \A x \in Node : g[x][m] # 0 => h[x][m] # 0
  BY GetsOne DEF Gets
<1>. HIDE DEF q
<1>5. Home(m, p, h, b)
  BY <1>2, <1>4 DEF OnePub, Home, Rooted
<1>6. ASSUME NEW x, NEW d, NEW i, Copy(m, x, d, i, rs)
      PROVE  /\ i \in Nat \ {0} /\ Copy(m, x, d, i + Skip(d, x, cs, rs), cs)
             /\ Other(d, x, rs) = Other(d, x, cs)
             /\ Skip(d, x, cs, rs) \in Nat
  BY <1>1, <1>6 DEF Fewer, Skip
<1>7. Down(m, p, up, rs, h, b)
  BY <1>4, <1>6 DEF OnePub, Down
<1>8. ASSUME n # p  PROVE g[n][m] = 0 /\ h[n][m] = 1
  BY <1>1, <1>2, <1>4, <1>8 DEF OnePub, Single
<1>9. ASSUME n # p, NEW d, NEW i, Copy(m, n, d, i, rs)  PROVE FALSE
  <2>1. Copy(m, n, d, i + Skip(d, n, cs, rs), cs)
    BY <1>6, <1>9
  <2>2. d = c /\ i + Skip(d, n, cs, rs) = 1
    BY <1>1, <1>2, <1>9, <2>1 DEF OnePub, Single
  <2>3. i \in Nat \ {0}
    BY <1>6, <1>9
  <2>. QED  BY <1>1, <2>2, <2>3
<1>10. ASSUME NEW x \in Node \ {p}
       PROVE  /\ h[x][m] \in {0, 1}
              /\ h[up[x]][m] = 0 => h[x][m] = 0
              /\ \A d, i : Copy(m, x, d, i, rs) =>
                   /\ h[x][m] = 0
                   /\ \A e, j : Copy(m, x, e, j, rs) => d = e /\ i = j
  <2>1. CASE x = n
    <3>1. h[up[x]][m] # 0
      BY <1>2, <1>4, <2>1
    <3>. QED  BY <1>8, <1>9, <2>1, <3>1
  <2>2. CASE x # n
    <3>1. h[x] = g[x] /\ g[x][m] \in {0, 1} /\ (g[up[x]][m] = 0 => g[x][m] = 0) /\ up[x] \in Node
      BY <1>4, <2>2, Parents DEF OnePub, Single
    <3>2. h[up[x]][m] = 0 => h[x][m] = 0
      BY <1>4, <3>1
    <3>3. ASSUME NEW d, NEW i, Copy(m, x, d, i, rs)
          PROVE  /\ h[x][m] = 0
                 /\ \A e, j : Copy(m, x, e, j, rs) => d = e /\ i = j
      <4>1. Copy(m, x, d, i + Skip(d, x, cs, rs), cs)
        BY <1>6, <3>3
      <4>2. h[x][m] = 0
        BY <3>1, <4>1 DEF OnePub, Single
      <4>3. ASSUME NEW e, NEW j, Copy(m, x, e, j, rs)  PROVE d = e /\ i = j
        <5>1. Copy(m, x, e, j + Skip(e, x, cs, rs), cs)
          BY <1>6, <4>3
        <5>2. d = e /\ i + Skip(d, x, cs, rs) = j + Skip(e, x, cs, rs)
          BY <4>1, <5>1 DEF OnePub, Single
        <5>3. i \in Nat /\ j \in Nat /\ Skip(d, x, cs, rs) \in Nat
          BY <1>6, <3>3, <4>3
        <5>. QED  BY <5>2, <5>3
      <4>. QED  BY <4>2, <4>3
    <3>. QED  BY <3>1, <3>2, <3>3
  <2>. QED  BY <2>1, <2>2
<1>11. OnePub(m, p, up, rs, h, b)
  BY <1>5, <1>7, <1>10 DEF OnePub, Single
<1>12. ASSUME n \in Relay  PROVE Below(p, up, n, q, b) /\ Fresh(m, p, up, n, rs, h)
  <2>1. n # p
    BY <1>2, <1>3, <1>12 DEF OneRelay
  <2>2. Below(p, up, n, q, b)
    BY <1>2, <2>1 DEF Below
  <2>3. ASSUME NEW x, NEW d, NEW i, Copy(m, x, d, i, rs), Other(d, x, rs) = n  PROVE FALSE
    <3>1. g[n][m] # 0
      BY <1>6, <2>3 DEF OnePub, Down
    <3>. QED  BY <1>8, <2>1, <3>1
  <2>4. ASSUME NEW x \in Node \ {p}, up[x] = n  PROVE h[x][m] = 0
    <3>1. g[x][m] = 0 /\ x # n
      BY <1>8, <2>1, <2>4, Parents DEF OnePub, Single
    <3>. QED  BY <1>4, <3>1
  <2>. QED  BY <2>2, <2>3, <2>4 DEF Fresh
<1>. QED  BY <1>11, <1>12 DEF q

(* Between two nodes there is one connection that is not broken. *)
LEMMA OneLive ==
  ASSUME NEW cs, NEW loops, NEW b, NEW np, Wires(cs, loops, b, np), OneWay,
         NEW d \in DOMAIN cs, NEW e \in DOMAIN cs, ~cs[d].cut, ~cs[e].cut,
         NEW n, n \in Ends(d, cs), n \in Ends(e, cs), Other(d, n, cs) = Other(e, n, cs)
  PROVE  d = e
<1>1. Wire(d, cs[d], loops, b, np) /\ Wire(e, cs[e], loops, b, np) /\ Alone(cs)
  BY DEF Wires
<1>2. cs[d].client = "open" /\ cs[e].client = "open"
  BY <1>1 DEF Wire
<1>3. \/ cs[d].from = cs[e].from /\ cs[d].to = cs[e].to
      \/ cs[d].from = cs[e].to /\ cs[d].to = cs[e].from
  BY DEF Ends, Other
<1>4. ~(cs[d].from = cs[e].to /\ cs[d].to = cs[e].from)
  BY <1>1 DEF Wire, OneWay
<1>. QED  BY <1>1, <1>2, <1>3, <1>4 DEF Alone

(* Whom n sends what it sends: those below it, or, once connections broke, p. *)
Onwards(p, up, n, cs, t, except, b) ==
  \A d \in DOMAIN cs : Sends(d, t, except, cs) =>
     /\ Other(d, n, cs) # p => up[Other(d, n, cs)] = n
     /\ b = 0 => Other(d, n, cs) # p

(* A broadcast of m by a node that has it and has not sent it. *)
LEMMA SendKeeps ==
  ASSUME NEW cs, NEW loops, NEW b, NEW np, Wires(cs, loops, b, np), OneWay,
         NEW n \in Node, NEW t, NamesOf(n, t, cs), NEW except,
         NEW ds, NEW m, Sent(cs, ds, n, t, m, except),
         NEW p, NEW up, Rooted(p, up), NEW h, OnePub(m, p, up, cs, h, b),
         Fresh(m, p, up, n, cs, h), Onwards(p, up, n, cs, t, except, b),
         h[n][m] # 0, n = p \/ n \in Relay
  PROVE  OnePub(m, p, up, ds, h, b)
<1>1. OneMore(cs, ds, n, t, m, except)
  BY SentOne
<1>2. \A d : Sends(d, t, except, cs) => d \in DOMAIN cs /\ ~cs[d].cut
  BY DEF Sends, NamesOf, Name
<1>3. \A d \in DOMAIN cs : cs[d].from # cs[d].to /\ cs[d].from \in Node /\ cs[d].to \in Node
  BY LinesAreLists
<1>4. ASSUME NEW x, NEW d, NEW i, Copy(m, x, d, i, ds)
      PROVE  /\ d \in DOMAIN cs /\ Other(d, x, ds) = Other(d, x, cs)
             /\ \/ Copy(m, x, d, i, cs)
                \/ /\ Sends(d, t, except, cs) /\ n \in Ends(d, cs)
                   /\ x = Other(d, n, cs) /\ x \in Node /\ n = Other(d, x, cs)
                   /\ i = Len(Line(d, x, cs)) + 1
  <2>1. d \in DOMAIN cs
    BY <1>1, <1>2, <1>4 DEF Copy, OneMore
  <2>2. ASSUME n \in Ends(d, cs), x = Other(d, n, cs)  PROVE x \in Node /\ n = Other(d, x, cs)
    BY <1>3, <2>1, <2>2 DEF Ends, Other
  <2>. QED  BY <1>1, <1>4, <2>1, <2>2 DEF OneMore
<1>5. Down(m, p, up, ds, h, b)
  <2>1. ASSUME NEW x, NEW d, NEW i, Copy(m, x, d, i, ds)
        PROVE  /\ x \in Node /\ Other(d, x, ds) \in Node
               /\ x # p => up[x] = Other(d, x, ds)
               /\ b = 0 => x # p
               /\ Other(d, x, ds) = p \/ Other(d, x, ds) \in Relay
               /\ h[Other(d, x, ds)][m] # 0
    <3>1. CASE Copy(m, x, d, i, cs)
      BY <1>4, <2>1, <3>1 DEF OnePub, Down
    <3>2. CASE /\ Sends(d, t, except, cs) /\ n \in Ends(d, cs)
               /\ x = Other(d, n, cs) /\ x \in Node /\ n = Other(d, x, cs)
      BY <1>4, <2>1, <3>2 DEF Onwards
    <3>. QED  BY <1>4, <2>1, <3>1, <3>2
  <2>. QED  BY <2>1 DEF Down
<1>6. ASSUME NEW x \in Node \ {p}
      PROVE  /\ h[x][m] \in {0, 1}
             /\ h[up[x]][m] = 0 => h[x][m] = 0
             /\ \A d, i : Copy(m, x, d, i, ds) =>
                  /\ h[x][m] = 0
                  /\ \A e, j : Copy(m, x, e, j, ds) => d = e /\ i = j
  <2>1. ASSUME up[x] = n, NEW d, NEW i, Copy(m, x, d, i, cs)  PROVE FALSE
    BY <2>1 DEF Fresh, OnePub, Down
  <2>2. ASSUME NEW d, NEW i, Copy(m, x, d, i, ds), ~Copy(m, x, d, i, cs)
        PROVE  /\ d \in DOMAIN cs /\ ~cs[d].cut /\ n \in Ends(d, cs) /\ x = Other(d, n, cs)
               /\ up[x] = n /\ i = Len(Line(d, x, cs)) + 1
    BY <1>2, <1>4, <2>2 DEF Onwards
  <2>3. ASSUME NEW d, NEW i, Copy(m, x, d, i, ds)
        PROVE  /\ h[x][m] = 0
               /\ \A e, j : Copy(m, x, e, j, ds) => d = e /\ i = j
    <3>1. h[x][m] = 0
      BY <2>2, <2>3 DEF Fresh, OnePub, Single
    <3>2. ASSUME NEW e, NEW j, Copy(m, x, e, j, ds)  PROVE d = e /\ i = j
      <4>1. CASE Copy(m, x, d, i, cs)
        <5>1. up[x] # n
          BY <2>1, <4>1
        <5>2. Copy(m, x, e, j, cs)
          BY <2>2, <3>2, <5>1
        <5>. QED  BY <4>1, <5>2 DEF OnePub, Single
      <4>2. CASE ~Copy(m, x, d, i, cs)
        <5>1. /\ d \in DOMAIN cs /\ ~cs[d].cut /\ n \in Ends(d, cs) /\ x = Other(d, n, cs)
              /\ up[x] = n /\ i = Len(Line(d, x, cs)) + 1
          BY <2>2, <2>3, <4>2
        <5>2. ~Copy(m, x, e, j, cs)
          BY <2>1, <5>1
        <5>3. /\ e \in DOMAIN cs /\ ~cs[e].cut /\ n \in Ends(e, cs) /\ x = Other(e, n, cs)
              /\ j = Len(Line(e, x, cs)) + 1
          BY <2>2, <3>2, <5>2
        <5>4. d = e
          BY <5>1, <5>3, OneLive
        <5>. QED  BY <5>1, <5>3, <5>4
      <4>. QED  BY <4>1, <4>2
    <3>. QED  BY <3>1, <3>2
  <2>. QED  BY <2>3 DEF OnePub, Single
<1>7. Single(m, p, up, ds, h)
  BY <1>6 DEF Single
<1>. QED  BY <1>5, <1>7 DEF OnePub

(* n read m from q on connection c and passes it on: not to q, while no
   connection breaks, and otherwise to q only if it is the publisher. *)
LEMMA OnwardsBelow ==
  ASSUME NEW rs, NEW loops, NEW b, NEW np, Wires(rs, loops, b, np), OneWay,
         NEW n \in Relay, NEW t, NamesOf(n, t, rs), NEW c \in DOMAIN rs, n \in Ends(c, rs),
         rs[c].to = n => rs[c].key = Id(Other(c, n, rs)),
         NEW p, NEW up, Rooted(p, up), b = 0 \/ OneRelay,
         Below(p, up, n, Other(c, n, rs), b)
  PROVE  Onwards(p, up, n, rs, t, {Id(Other(c, n, rs))}, b)
<1>. DEFINE q == Other(c, n, rs)
<1>1. n # p /\ up[n] = q /\ (q = p \/ q \in Relay) /\ (rs[c].to = n => rs[c].key = Id(q))
  BY DEF Below
<1>2. \A d \in DOMAIN rs : Wire(d, rs[d], loops, b, np)
  BY DEF Wires
<1>3. q # n
  BY <1>2 DEF Other, Wire
<1>4. ASSUME NEW d \in DOMAIN rs, Sends(d, t, {Id(q)}, rs)
      PROVE  /\ Other(d, n, rs) # p => up[Other(d, n, rs)] = n
             /\ b = 0 => Other(d, n, rs) # p
  <2>. DEFINE x == Other(d, n, rs)
  <2>1. PICK k \in DOMAIN t \ {Id(q)} : t[k] = d
    BY <1>4 DEF Sends
  <2>2. Name(n, k, d, rs) /\ ~rs[d].cut
    BY <1>4, <2>1 DEF Sends, NamesOf
  <2>3. \/ rs[d].from = n /\ rs[d].to = x /\ k = Id(x)
        \/ rs[d].to = n /\ rs[d].from = x /\ k = rs[d].key
    <3>1. rs[d].from # rs[d].to
      BY <1>2 DEF Wire
    <3>. QED  BY <2>2, <3>1 DEF Name, Other
  <2>4. <<n, x>> \in Dials \/ <<x, n>> \in Dials
    BY <1>2, <2>3 DEF Wire
  <2>. HIDE DEF x, q
  <2>5. \/ n # p /\ up[n] = x
        \/ x # p /\ up[x] = n
    BY <2>4, Neighbours
  <2>6. CASE x # q
    BY <1>1, <2>5, <2>6 DEF x
  <2>7. CASE x = q
    <3>1. ASSUME b = 0  PROVE FALSE
      <4>1. ~rs[c].cut
        BY <1>2, <3>1 DEF Wire
      <4>2. n \in Ends(d, rs) /\ Other(d, n, rs) = Other(c, n, rs)
        BY <2>3, <2>7 DEF Ends, x, q
      <4>3. d = c
        BY <2>2, <4>1, <4>2, OneLive
      <4>4. k = Id(q)
        BY <1>1, <2>3, <2>7, <4>3
      <4>. QED  BY <2>1, <4>4
    <3>2. q = p
      BY <1>1, <1>3, <3>1 DEF OneRelay
    <3>. QED  BY <2>7, <3>1, <3>2 DEF x
  <2>. QED  BY <2>6, <2>7
<1>. QED  BY <1>4 DEF Onwards

(* Every dial has a connection that both ends write to (Whole). *)
Connected(t, cs) ==
  \A d \in Dials : \E c \in DOMAIN cs :
     /\ cs[c].from = d[1] /\ cs[c].to = d[2] /\ ~cs[c].cut
     /\ \A n \in {d[1], d[2]} : \E k \in DOMAIN t[n] : t[n][k] = c

(* Connected is Whole. *)
LEMMA WholeConnected == Whole <=> Connected(table, conns)
BY DEF Whole, Connected, Established, Range

(* While no connection breaks, what is connected stays so. *)
LEMMA ConnectedStays ==
  ASSUME NEW t, NEW cs, Connected(t, cs), NEW u, NEW ds, StillIn(t, u),
         DOMAIN cs \subseteq DOMAIN ds,
         \A c \in DOMAIN cs : ds[c].from = cs[c].from /\ ds[c].to = cs[c].to /\ ~ds[c].cut
  PROVE  Connected(u, ds)
<1>1. ASSUME NEW d \in Dials
      PROVE  \E c \in DOMAIN ds :
                /\ ds[c].from = d[1] /\ ds[c].to = d[2] /\ ~ds[c].cut
                /\ \A n \in {d[1], d[2]} : \E k \in DOMAIN u[n] : u[n][k] = c
  <2>1. PICK c \in DOMAIN cs :
           /\ cs[c].from = d[1] /\ cs[c].to = d[2]
           /\ \A n \in {d[1], d[2]} : \E k \in DOMAIN t[n] : t[n][k] = c
    BY DEF Connected
  <2>2. d[1] \in Node /\ d[2] \in Node
    BY DialsAssumption
  <2>3. ASSUME NEW n \in {d[1], d[2]}  PROVE \E k \in DOMAIN u[n] : u[n][k] = c
    <3>1. PICK k \in DOMAIN t[n] : t[n][k] = c
      BY <2>1
    <3>2. n \in Node
      BY <2>2
    <3>. QED  BY <3>1, <3>2 DEF StillIn
  <2>. QED  BY <2>1, <2>3
<1>. QED  BY <1>1 DEF Connected

(* So each node but p has a connection to the node above it. *)
LEMMA Links ==
  ASSUME NEW p, NEW up, Rooted(p, up), NEW u, NEW cs, Connected(u, cs), OneWay,
         NEW x \in Node \ {p}
  PROVE  \E e \in DOMAIN cs :
            /\ ~cs[e].cut /\ x \in Ends(e, cs) /\ up[x] \in Ends(e, cs)
            /\ Other(e, up[x], cs) = x /\ Other(e, x, cs) = up[x]
            /\ cs[e].from # cs[e].to
            /\ \E k \in DOMAIN u[up[x]] : u[up[x]][k] = e
            /\ \E k \in DOMAIN u[x] : u[x][k] = e
<1>. DEFINE y == up[x]
<1>1. y \in Node /\ y # x /\ (<<x, y>> \in Dials \/ <<y, x>> \in Dials)
  BY Parents DEF Rooted, TreeAround
<1>. HIDE DEF y
<1>2. PICK e \in DOMAIN cs :
         /\ ~cs[e].cut
         /\ (cs[e].from = x /\ cs[e].to = y) \/ (cs[e].from = y /\ cs[e].to = x)
         /\ \E k \in DOMAIN u[y] : u[y][k] = e
         /\ \E k \in DOMAIN u[x] : u[x][k] = e
  <2>. DEFINE d == <<x, y>>
              f == <<y, x>>
  <2>1. d[1] = x /\ d[2] = y /\ f[1] = y /\ f[2] = x /\ (d \in Dials \/ f \in Dials)
    BY <1>1
  <2>. HIDE DEF d, f
  <2>2. CASE d \in Dials
    BY <2>1, <2>2 DEF Connected
  <2>3. CASE f \in Dials
    BY <2>1, <2>3 DEF Connected
  <2>. QED  BY <2>1, <2>2, <2>3
<1>3. /\ x \in Ends(e, cs) /\ y \in Ends(e, cs) /\ Other(e, y, cs) = x /\ Other(e, x, cs) = y
      /\ cs[e].from # cs[e].to
  BY <1>1, <1>2 DEF Ends, Other
<1>. QED  BY <1>2, <1>3 DEF y

(* n with table t passes on what q sent it, and to x. *)
PassesTo(n, t, cs, q, x) ==
  /\ PassesOn(n, t)
  /\ \E e \in DOMAIN cs : Sends(e, t, {Id(q)}, cs) /\ Other(e, n, cs) = x

(* A node that read from the one above it passes on to each below. *)
LEMMA PassesBelow ==
  ASSUME NEW p, NEW up, Rooted(p, up), NEW u, NEW cs, Connected(u, cs), OneWay,
         NEW loops, NEW np, NEW b, Wires(cs, loops, b, np),
         NEW x \in Node \ {p}, up[x] # p,
         NamesOf(up[x], u[up[x]], cs), IsFiniteSet(DOMAIN u[up[x]])
  PROVE  PassesTo(up[x], u[up[x]], cs, up[up[x]], x)
<1>. DEFINE n == up[x]
            q == up[n]
            t == u[n]
<1>1. PICK e \in DOMAIN cs, k \in DOMAIN t :
         /\ ~cs[e].cut /\ n \in Ends(e, cs) /\ Other(e, n, cs) = x /\ cs[e].from # cs[e].to
         /\ t[k] = e
  BY Links
<1>0. n \in Node \ {p}
  BY Parents
<1>2. PICK f \in DOMAIN cs, l \in DOMAIN t : Other(f, n, cs) = q /\ t[l] = f
  BY <1>0, Links
<1>3. q \in Node /\ (<<n, q>> \in Dials \/ <<q, n>> \in Dials)
  BY <1>0, Parents DEF Rooted, TreeAround
<1>4. x # q
  BY <1>0, <1>3, Neighbours
<1>5. k # l
  BY <1>1, <1>2, <1>4
<1>6. k # Id(q)
  <2>1. Wire(e, cs[e], loops, b, np)
    BY DEF Wires
  <2>2. Name(n, k, e, cs)
    BY <1>1 DEF NamesOf
  <2>3. CASE cs[e].from = n /\ k = Id(cs[e].to)
    BY <1>1, <1>4, <2>3 DEF Other, Id
  <2>4. CASE cs[e].to = n /\ k = cs[e].key /\ k # NoKey
    <3>1. cs[e].from = x
      BY <1>1, <2>4 DEF Other
    <3>2. k \in {Did(x), Tcp(e), Id(x)}
      BY <2>1, <2>4, <3>1 DEF Wire
    <3>. QED  BY <1>4, <3>2 DEF Did, Tcp, Id
  <2>. QED  BY <2>2, <2>3, <2>4 DEF Name
<1>7. n \in Relay
  BY Parents
<1>8. Cardinality(DOMAIN t) > 1
  <2>. DEFINE K == DOMAIN t
  <2>1. IsFiniteSet(K) /\ k \in K /\ l \in K
    OBVIOUS
  <2>. HIDE DEF K
  <2>2. {k, l} \subseteq K
    BY <2>1
  <2>3. Cardinality({k, l}) <= Cardinality(K) /\ Cardinality(K) \in Nat
    BY <2>1, <2>2, FS_Subset, FS_CardinalityType
  <2>. DEFINE S == {k}
  <2>4. {k, l} = S \cup {l} /\ l \notin S /\ IsFiniteSet(S) /\ Cardinality(S) = 1
    BY <1>5, FS_Singleton
  <2>. HIDE DEF S
  <2>5. l \notin S /\ IsFiniteSet(S)
    BY <2>4
  <2>6. Cardinality(S \cup {l}) = Cardinality(S) + 1
    BY <2>5, FS_AddElement
  <2>7. Cardinality(S \cup {l}) = 2
    BY <2>4, <2>6
  <2>. QED  BY <2>3, <2>4, <2>7 DEF K
<1>9. Sends(e, t, {Id(q)}, cs)
  BY <1>1, <1>6 DEF Sends
<1>. QED  BY <1>1, <1>7, <1>8, <1>9 DEF PassesOn, PassesTo

(* Who has it wants it no longer, or it is under way to him, once the node above
   him has it. *)
Arrived(m, p, up, cs, g) ==
  \A n \in Node \ {p} :
     g[up[n]][m] # 0 => g[n][m] # 0 \/ \E c, i : Copy(m, n, c, i, cs)

PubsOK ==
  /\ Len(pubs) <= MaxPubs
  /\ \A m \in DOMAIN pubs : pubs[m].by \in Publisher
  /\ got \in [Node -> [1..MaxPubs -> Nat]]
  /\ \A m \in 1..MaxPubs : m > Len(pubs) => \A n \in Node : got[n][m] = 0

EachOnce ==
  breaks = 0 \/ OneRelay =>
    \A m \in DOMAIN pubs : OnePub(m, pubs[m].by, Up(pubs[m].by), conns, got, breaks)

AllArrive ==
  breaks = 0 =>
    \A m \in DOMAIN pubs : pubs[m].whole =>
       Connected(table, conns) /\ Arrived(m, pubs[m].by, Up(pubs[m].by), conns, got)

FloodInv == NetInv /\ PubsOK /\ EachOnce /\ AllArrive

(* A step that publishes and reads no publication. *)
LEMMA QuietFlood ==
  ASSUME FloodInv, PeersAreTree, Orderly, NetInv', pubs' = pubs, got' = got,
         Fewer(conns, conns'), breaks' = 0 => NoneLost(conns, conns')
  PROVE  FloodInv'
<1>1. breaks' = 0 => breaks = 0
  BY DEF Orderly
<1>2. PubsOK'
  BY DEF FloodInv, PubsOK
<1>3. ASSUME breaks' = 0 \/ OneRelay, NEW m \in DOMAIN pubs
      PROVE  OnePub(m, pubs[m].by, Up(pubs[m].by), conns', got', breaks')
  <2>1. Rooted(pubs[m].by, Up(pubs[m].by))
    BY UpIsRooted DEF FloodInv, PubsOK
  <2>2. OnePub(m, pubs[m].by, Up(pubs[m].by), conns, got, breaks)
    BY <1>1, <1>3 DEF FloodInv, EachOnce
  <2>3. SameGot(m, got, got')
    BY DEF SameGot
  <2>. QED  BY <1>1, <2>1, <2>2, <2>3, FewerKeeps
<1>4. EachOnce'
  BY <1>3 DEF EachOnce, OneRelay
<1>5. ASSUME breaks' = 0, NEW m \in DOMAIN pubs, pubs[m].whole
      PROVE  Connected(table', conns') /\ Arrived(m, pubs[m].by, Up(pubs[m].by), conns', got')
  <2>1. Connected(table, conns) /\ Arrived(m, pubs[m].by, Up(pubs[m].by), conns, got)
    BY <1>1, <1>5 DEF FloodInv, AllArrive
  <2>2. /\ DOMAIN conns \subseteq DOMAIN conns' /\ StillIn(table, table')
        /\ \A c \in DOMAIN conns : /\ conns'[c].from = conns[c].from
                                   /\ conns'[c].to = conns[c].to /\ ~conns'[c].cut
    BY <1>5 DEF Orderly, Wires, Wire
  <2>3. Connected(table', conns')
    BY <2>1, <2>2, ConnectedStays
  <2>4. Arrived(m, pubs[m].by, Up(pubs[m].by), conns', got')
    BY <1>5, <2>1 DEF Arrived, NoneLost
  <2>. QED  BY <2>3, <2>4
<1>6. AllArrive'
  BY <1>5 DEF AllArrive
<1>. QED  BY <1>2, <1>4, <1>6 DEF FloodInv

(* A publication is read, and passed on. *)
LEMMA ReadOnce ==
  ASSUME FloodInv, PeersAreTree, NEW c, NEW n, NEW m, NEW rs, Reads(c, n, m, rs),
         NetInv', breaks = 0 \/ OneRelay, NEW k \in DOMAIN pubs
  PROVE  OnePub(k, pubs[k].by, Up(pubs[k].by), conns', got', breaks)
<1>. DEFINE p == pubs[k].by
            up == Up(p)
            q == Other(c, n, conns)
            t == table'[n]
<1>1. Rooted(p, up)
  BY UpIsRooted DEF FloodInv, PubsOK
<1>2. OnePub(k, p, up, conns, got, breaks)
  BY DEF FloodInv, EachOnce
<1>3. /\ n \in Node /\ m \in 1..Len(pubs) /\ Took(conns, rs, c, n, m)
      /\ Wires(rs, looping, breaks, Len(pubs)) /\ NamesOf(n, t, rs)
      /\ conns[c].to = n => rs[c].key = Id(conns[c].from)
  BY DEF Reads, TheirNames
<1>4. Gets(m, n, got, got')
  <2>1. m \in 1..MaxPubs
    <3>1. Len(pubs) \in Nat /\ Len(pubs) <= MaxPubs
      BY DEF FloodInv, NetInv, PubsOK
    <3>. QED  BY <1>3, <3>1, PubsAssumption
  <2>. QED  BY <1>3, <2>1 DEF Reads, Gets, FloodInv, PubsOK
<1>5. Wires(conns, looping, breaks, Len(pubs)) /\ OneWay
  BY DEF FloodInv, NetInv
<1>6. /\ PassesOn(n, t) => Sent(rs, conns', n, t, m, {Id(q)})
      /\ ~PassesOn(n, t) => conns' = rs
  BY DEF Reads, Passed
<1>. HIDE DEF p, up, q, t
<1>7. CASE k # m
  <2>1. SameGot(k, got, got')
    <3>1. k \in 1..MaxPubs
      BY PubsAssumption DEF FloodInv, NetInv, PubsOK
    <3>. QED  BY <1>4, <1>7, <3>1, GetsOne
  <2>2. Fewer(conns, rs)
    BY <1>3, <1>5, TookOne
  <2>3. OnePub(k, p, up, rs, got', breaks)
    BY <1>1, <1>2, <2>1, <2>2, FewerKeeps
  <2>4. SameCopies(k, rs, conns')
    <3>1. CASE PassesOn(n, t)
      <4>1. Sent(rs, conns', n, t, m, {Id(q)})
        BY <1>6, <3>1
      <4>2. OneMore(rs, conns', n, t, m, {Id(q)})
        BY <1>3, <4>1, SentOne
      <4>3. \A x, d, i : Copy(k, x, d, i, conns') => Copy(k, x, d, i, rs)
        BY <1>7, <4>2 DEF OneMore
      <4>. QED  BY <4>2, <4>3 DEF SameCopies, Copy, OneMore
    <3>2. CASE ~PassesOn(n, t)
      BY <1>6, <3>2 DEF SameCopies
    <3>. QED  BY <3>1, <3>2
  <2>5. SameGot(k, got', got')
    BY DEF SameGot
  <2>. QED  BY <1>1, <2>3, <2>4, <2>5, CopiesKeep DEF p, up
<1>8. CASE k = m
  <2>1. /\ OnePub(m, p, up, rs, got', breaks)
        /\ n \in Relay => Below(p, up, n, q, breaks) /\ Fresh(m, p, up, n, rs, got')
    BY <1>1, <1>2, <1>3, <1>4, <1>5, <1>8, TookKeeps DEF q
  <2>2. CASE ~PassesOn(n, t)
    BY <1>6, <1>8, <2>1, <2>2 DEF p, up
  <2>3. CASE PassesOn(n, t)
    <3>1. n \in Relay /\ Sent(rs, conns', n, t, m, {Id(q)})
      BY <1>6, <2>3 DEF PassesOn
    <3>2. c \in DOMAIN rs /\ n \in Ends(c, rs) /\ Other(c, n, rs) = q
          /\ (rs[c].to = n => rs[c].key = Id(q))
      <4>1. /\ c \in DOMAIN rs /\ rs[c].from = conns[c].from /\ rs[c].to = conns[c].to
            /\ n \in Ends(c, conns) /\ rs[c].from # rs[c].to
        BY <1>3, LinesAreLists DEF Took
      <4>. QED  BY <1>3, <4>1 DEF Ends, Other, q
    <3>3. Onwards(p, up, n, rs, t, {Id(q)}, breaks)
      BY <1>1, <1>3, <1>5, <2>1, <3>1, <3>2, OnwardsBelow
    <3>4. got'[n][m] # 0
      BY <1>4, GetsOne
    <3>5. OnePub(m, p, up, conns', got', breaks)
      BY <1>1, <1>3, <1>5, <2>1, <3>1, <3>3, <3>4, SendKeeps
    <3>. QED  BY <1>8, <3>5 DEF p, up
  <2>. QED  BY <2>2, <2>3
<1>. QED  BY <1>7, <1>8

(* What has been read has arrived, and what is passed on is under way. *)
LEMMA ReadArrives ==
  ASSUME FloodInv, PeersAreTree, NEW c, NEW n, NEW m, NEW rs, Reads(c, n, m, rs),
         NetInv', breaks = 0, NEW k \in DOMAIN pubs, pubs[k].whole
  PROVE  Connected(table', conns') /\ Arrived(k, pubs[k].by, Up(pubs[k].by), conns', got')
<1>. DEFINE p == pubs[k].by
            up == Up(p)
            q == Other(c, n, conns)
            t == table'[n]
<1>1. Rooted(p, up)
  BY UpIsRooted DEF FloodInv, PubsOK
<1>2. /\ OnePub(k, p, up, conns, got, breaks)
      /\ Connected(table, conns) /\ Arrived(k, p, up, conns, got)
  BY DEF FloodInv, EachOnce, AllArrive
<1>3. /\ n \in Node /\ m \in 1..Len(pubs) /\ Took(conns, rs, c, n, m)
      /\ Wires(rs, looping, breaks, Len(pubs)) /\ NamesOf(n, t, rs) /\ IsFiniteSet(DOMAIN t)
      /\ StillIn(table, table')
      /\ PassesOn(n, t) => Sent(rs, conns', n, t, m, {Id(q)})
      /\ ~PassesOn(n, t) => conns' = rs
  BY DEF Reads, TheirNames, Passed
<1>4. /\ Wires(conns, looping, breaks, Len(pubs)) /\ OneWay
      /\ m \in 1..MaxPubs /\ k \in 1..MaxPubs
      /\ got \in [Node -> [1..MaxPubs -> Nat]]
      /\ got' = [got EXCEPT ![n][m] = @ + 1]
  <2>1. Len(pubs) \in Nat /\ Len(pubs) <= MaxPubs /\ DOMAIN pubs = 1..Len(pubs)
    BY DEF FloodInv, NetInv, PubsOK
  <2>. QED  BY <1>3, <2>1, PubsAssumption DEF FloodInv, NetInv, PubsOK, Reads
<1>5. Gets(m, n, got, got')
  BY <1>3, <1>4 DEF Gets
<1>6. /\ got'[n][m] # 0
      /\ \A x \in Node : got[x][k] # 0 => got'[x][k] # 0
      /\ \A x \in Node : ~(x = n /\ k = m) => got'[x][k] = got[x][k]
  <2>1. /\ got'[n][m] = got[n][m] + 1 /\ got[n][m] \in Nat
        /\ \A x \in Node \ {n} : got'[x] = got[x]
        /\ \A j \in 1..MaxPubs \ {m} : SameGot(j, got, got')
        /\ \A x \in Node, j \in 1..MaxPubs : got[x][j] # 0 => got'[x][j] # 0
    BY <1>5, GetsOne
  <2>. QED  BY <1>4, <2>1 DEF SameGot
<1>7. /\ \A d \in DOMAIN conns : /\ d \in DOMAIN rs /\ rs[d].from = conns[d].from
                                 /\ rs[d].to = conns[d].to /\ ~rs[d].cut
      /\ Copy(m, n, c, 1, conns)
      /\ \A j, x, d, i : Copy(j, x, d, i, conns) /\ ~(x = n /\ d = c /\ i = 1)
                            => \E l : Copy(j, x, d, l, rs)
  <2>1. \A d \in DOMAIN conns : d \in DOMAIN rs /\ rs[d].from = conns[d].from /\ rs[d].to = conns[d].to
    BY <1>3 DEF Took
  <2>2. \A d \in DOMAIN rs : ~rs[d].cut
    BY <1>3 DEF Wires, Wire
  <2>. QED  BY <1>3, <1>4, <2>1, <2>2, TookOne
<1>8. Connected(table', rs)
  BY <1>2, <1>3, <1>7, ConnectedStays
<1>9. /\ DOMAIN rs \subseteq DOMAIN conns'
      /\ \A d \in DOMAIN rs : /\ conns'[d].from = rs[d].from
                              /\ conns'[d].to = rs[d].to /\ ~conns'[d].cut
  <2>1. \A d \in DOMAIN rs : ~rs[d].cut
    BY <1>3 DEF Wires, Wire
  <2>. QED  BY <1>3, <2>1 DEF Sent
<1>10. Connected(table', conns')
  BY <1>8, <1>9, ConnectedStays DEF StillIn
<1>. HIDE DEF p, up, q, t
<1>11. PassesOn(n, t) => OneMore(rs, conns', n, t, m, {Id(q)})
  BY <1>3, SentOne
<1>12. ASSUME NEW j, NEW x, NEW d, NEW i, Copy(j, x, d, i, rs)  PROVE Copy(j, x, d, i, conns')
  BY <1>3, <1>11, <1>12 DEF OneMore
<1>13. ASSUME NEW x \in Node \ {p}, got'[up[x]][k] # 0
       PROVE  got'[x][k] # 0 \/ \E d, i : Copy(k, x, d, i, conns')
  <2>1. CASE k = m /\ x = n
    BY <1>6, <2>1
  <2>2. CASE k = m /\ up[x] = n
    <3>1. n # p /\ up[n] = q
      BY <1>2, <1>7, <2>2 DEF OnePub, Down, q
    <3>2. PassesTo(n, t, rs, q, x)
      <4>. DEFINE u == table'
      <4>1. /\ up[x] # p /\ NamesOf(up[x], u[up[x]], rs) /\ IsFiniteSet(DOMAIN u[up[x]])
            /\ Connected(u, rs) /\ x \in Node \ {p}
        BY <1>3, <1>8, <2>2, <3>1 DEF t
      <4>. HIDE DEF u
      <4>2. PassesTo(up[x], u[up[x]], rs, up[up[x]], x)
        BY <1>1, <1>3, <1>4, <4>1, PassesBelow
      <4>. QED  BY <2>2, <3>1, <4>2 DEF u, t
    <3>3. PICK e \in DOMAIN rs : Sends(e, t, {Id(q)}, rs) /\ Other(e, n, rs) = x
      BY <3>2 DEF PassesTo
    <3>4. \E i : Copy(m, x, e, i, conns')
      BY <1>11, <3>2, <3>3 DEF OneMore, PassesTo
    <3>. QED  BY <2>2, <3>4
  <2>3. CASE ~(k = m /\ x = n) /\ ~(k = m /\ up[x] = n)
    <3>1. up[x] \in Node
      BY <1>1, Parents
    <3>2. got[up[x]][k] # 0
      BY <1>6, <1>13, <2>3, <3>1
    <3>3. CASE got[x][k] # 0
      BY <1>6, <3>3
    <3>4. CASE \E d, i : Copy(k, x, d, i, conns)
      <4>1. PICK d, i : Copy(k, x, d, i, conns)
        BY <3>4
      <4>2. ~(x = n /\ d = c /\ i = 1)
        BY <1>7, <2>3, <4>1 DEF Copy
      <4>3. \E l : Copy(k, x, d, l, rs)
        BY <1>7, <4>1, <4>2
      <4>. QED  BY <1>12, <4>3
    <3>. QED  BY <1>2, <3>2, <3>3, <3>4 DEF Arrived
  <2>. QED  BY <2>1, <2>2, <2>3
<1>14. Arrived(k, p, up, conns', got')
  BY <1>13 DEF Arrived
<1>. QED  BY <1>10, <1>14 DEF p, up

(* A read keeps the invariant. *)
LEMMA ReadFlood ==
  ASSUME FloodInv, PeersAreTree, NEW c, NEW n, NEW m, NEW rs, Reads(c, n, m, rs), NetInv'
  PROVE  FloodInv'
<1>1. pubs' = pubs /\ breaks' = breaks /\ n \in Node /\ m \in 1..Len(pubs)
      /\ got' = [got EXCEPT ![n][m] = @ + 1]
  BY DEF Reads
<1>2. /\ Len(pubs) \in Nat /\ Len(pubs) <= MaxPubs
      /\ got \in [Node -> [1..MaxPubs -> Nat]]
      /\ \A k \in 1..MaxPubs : k > Len(pubs) => \A x \in Node : got[x][k] = 0
  BY DEF FloodInv, NetInv, PubsOK
<1>3. Gets(m, n, got, got')
  BY <1>1, <1>2, PubsAssumption DEF Gets
<1>4. got' \in [Node -> [1..MaxPubs -> Nat]] /\ \A k \in 1..MaxPubs \ {m} : SameGot(k, got, got')
  BY <1>3, GetsOne
<1>5. ASSUME NEW k \in 1..MaxPubs, k > Len(pubs), NEW x \in Node  PROVE got'[x][k] = 0
  <2>1. k # m
    BY <1>1, <1>2, <1>5
  <2>. QED  BY <1>2, <1>4, <1>5, <2>1 DEF SameGot
<1>6. PubsOK'
  BY <1>1, <1>4, <1>5 DEF FloodInv, PubsOK
<1>7. EachOnce'
  BY <1>1, ReadOnce DEF EachOnce, OneRelay
<1>8. AllArrive'
  BY <1>1, ReadArrives DEF AllArrive
<1>. QED  BY <1>6, <1>7, <1>8 DEF FloodInv

(* What is under way was published. *)
LEMMA CopyIsPublished ==
  ASSUME NEW cs, NEW loops, NEW b, NEW np, Wires(cs, loops, b, np),
         NEW k, NEW x, NEW d, NEW i, Copy(k, x, d, i, cs)
  PROVE  k \in 1..np
<1>1. /\ d \in DOMAIN cs /\ i \in DOMAIN Line(d, x, cs)
      /\ Line(d, x, cs)[i].type = "pub" /\ Line(d, x, cs)[i].id = k
  BY DEF Copy
<1>. DEFINE A == FromDialer(cs[d].from, np)
            B == FromPeer(cs[d].to, np)
            q == Line(d, x, cs)
<1>2. cs[d].toServer \in Seq(A) /\ cs[d].toClient \in Seq(B)
  BY <1>1 DEF Wires, Wire
<1>3. q \in Seq(A) \/ q \in Seq(B)
  BY <1>2 DEF Line
<1>4. i \in DOMAIN q
  BY <1>1
<1>. HIDE DEF A, B, q
<1>5. q[i] \in A \/ q[i] \in B
  BY <1>3, <1>4
<1>. QED  BY <1>1, <1>5 DEF A, B, q, FromDialer, FromPeer, Hello, Pub

(* What a publisher is connected to is below it. *)
LEMMA OnwardsFirst ==
  ASSUME NEW cs, NEW loops, NEW b, NEW np, Wires(cs, loops, b, np), OneWay,
         NEW n, NEW t, NamesOf(n, t, cs), NEW up, Rooted(n, up)
  PROVE  Onwards(n, up, n, cs, t, {}, b)
<1>1. ASSUME NEW d \in DOMAIN cs, Sends(d, t, {}, cs)
      PROVE  up[Other(d, n, cs)] = n /\ Other(d, n, cs) # n
  <2>. DEFINE x == Other(d, n, cs)
  <2>1. Wire(d, cs[d], loops, b, np)
    BY DEF Wires
  <2>2. cs[d].from = n \/ cs[d].to = n
    BY <1>1 DEF Sends, NamesOf, Name
  <2>3. x # n /\ (<<n, x>> \in Dials \/ <<x, n>> \in Dials)
    BY <2>1, <2>2 DEF Other, Wire
  <2>. HIDE DEF x
  <2>4. up[x] = n
    BY <2>3, Neighbours
  <2>. QED  BY <2>3, <2>4 DEF x
<1>. QED  BY <1>1 DEF Onwards

(* A publication starts with its publisher, and is under way to all its peers. *)
LEMMA PublishFlood ==
  ASSUME FloodInv, PeersAreTree, NEW n \in Publisher, Publish(n), NetInv'
  PROVE  FloodInv'
<1>. DEFINE m == Len(pubs) + 1
            up == Up(n)
            t == table[n]
            new == [by |-> n, whole |-> Whole]
<1>1. /\ m <= MaxPubs /\ pubs' = Append(pubs, new) /\ got' = [got EXCEPT ![n][m] = @ + 1]
      /\ table' = table /\ looping' = looping /\ breaks' = breaks
  BY DEF Publish, Delivered
<1>2. /\ Len(pubs) \in Nat /\ Len(pubs) <= MaxPubs /\ m \in 1..MaxPubs /\ m \notin 1..Len(pubs)
      /\ got \in [Node -> [1..MaxPubs -> Nat]]
      /\ \A k \in 1..MaxPubs : k > Len(pubs) => \A x \in Node : got[x][k] = 0
      /\ \A k \in DOMAIN pubs : pubs[k].by \in Publisher
      /\ n \in Node
  BY <1>1, PubsAssumption, PublisherAssumption DEF FloodInv, NetInv, PubsOK
<1>. HIDE DEF new
<1>3. /\ Len(pubs') = m /\ DOMAIN pubs' = DOMAIN pubs \cup {m} /\ pubs'[m] = new
      /\ DOMAIN pubs = 1..Len(pubs)
      /\ \A k \in DOMAIN pubs : pubs'[k] = pubs[k]
  <2>1. PICK S : pubs \in Seq(S)
    BY DEF FloodInv, NetInv
  <2>2. pubs \in Seq(S \cup {new}) /\ new \in S \cup {new}
    BY <2>1
  <2>. QED  BY <1>1, <2>2
<1>4. new.by = n /\ new.whole = Whole
  BY DEF new
<1>5. /\ Wires(conns, looping, breaks, Len(pubs)) /\ OneWay /\ NamesOf(n, t, conns)
      /\ Rooted(n, up) /\ Sent(conns, conns', n, t, m, {})
  BY <1>2, PublishOrderly, UpIsRooted DEF FloodInv, NetInv
<1>6. \A x, d, i : ~Copy(m, x, d, i, conns)
  BY <1>2, <1>5, CopyIsPublished
<1>7. Gets(m, n, got, got')
  BY <1>1, <1>2 DEF Gets
<1>8. /\ got' \in [Node -> [1..MaxPubs -> Nat]] /\ got'[n][m] = 1
      /\ \A x \in Node \ {n} : got'[x] = got[x] /\ got'[x][m] = 0
      /\ \A k \in 1..MaxPubs \ {m} : SameGot(k, got, got')
  <2>1. /\ got' \in [Node -> [1..MaxPubs -> Nat]] /\ got'[n][m] = got[n][m] + 1
        /\ \A x \in Node \ {n} : got'[x] = got[x]
        /\ \A k \in 1..MaxPubs \ {m} : SameGot(k, got, got')
    BY <1>7, GetsOne
  <2>2. \A x \in Node : got[x][m] = 0
    BY <1>2
  <2>. QED  BY <1>2, <2>1, <2>2
<1>9. OneMore(conns, conns', n, t, m, {})
  BY <1>2, <1>5, SentOne
<1>. HIDE DEF m, up, t
<1>10. PubsOK'
  <2>1. ASSUME NEW k \in 1..MaxPubs, k > Len(pubs'), NEW x \in Node  PROVE got'[x][k] = 0
    <3>1. k # m /\ k > Len(pubs)
      BY <1>2, <1>3, <2>1 DEF m
    <3>. QED  BY <1>2, <1>8, <3>1 DEF SameGot
  <2>2. \A k \in DOMAIN pubs' : pubs'[k].by \in Publisher
    BY <1>2, <1>3, <1>4
  <2>. QED  BY <1>1, <1>3, <1>8, <2>1, <2>2 DEF PubsOK
<1>11. ASSUME breaks = 0 \/ OneRelay  PROVE OnePub(m, n, up, conns', got', breaks)
  <2>1. OnePub(m, n, up, conns, got', breaks)
    BY <1>2, <1>6, <1>8 DEF OnePub, Down, Single, Home
  <2>2. Fresh(m, n, up, n, conns, got')
    BY <1>6, <1>8 DEF Fresh
  <2>3. Onwards(n, up, n, conns, t, {}, breaks)
    BY <1>5, OnwardsFirst
  <2>. QED  BY <1>2, <1>5, <1>8, <2>1, <2>2, <2>3, SendKeeps
<1>12. ASSUME NEW k \in DOMAIN pubs
       PROVE  /\ Rooted(pubs[k].by, Up(pubs[k].by)) /\ k \in 1..MaxPubs \ {m}
              /\ SameGot(k, got, got') /\ SameCopies(k, conns, conns')
  <2>1. k \in 1..MaxPubs \ {m}
    BY <1>2, <1>3, PubsAssumption DEF m
  <2>2. SameCopies(k, conns, conns')
    BY <1>9, <2>1 DEF OneMore, SameCopies, Copy
  <2>. QED  BY <1>2, <1>8, <2>1, <2>2, UpIsRooted
<1>13. EachOnce'
  <2>1. ASSUME breaks = 0 \/ OneRelay, NEW k \in DOMAIN pubs
        PROVE  OnePub(k, pubs[k].by, Up(pubs[k].by), conns', got', breaks)
    <3>1. OnePub(k, pubs[k].by, Up(pubs[k].by), conns, got, breaks)
      BY <2>1 DEF FloodInv, EachOnce
    <3>. QED  BY <1>12, <3>1, CopiesKeep
  <2>. QED  BY <1>1, <1>3, <1>4, <1>11, <2>1 DEF EachOnce, OneRelay, up
<1>14. ASSUME breaks = 0, Connected(table, conns)  PROVE Connected(table', conns')
  <2>1. /\ DOMAIN conns \subseteq DOMAIN conns' /\ StillIn(table, table')
        /\ \A d \in DOMAIN conns : /\ conns'[d].from = conns[d].from
                                   /\ conns'[d].to = conns[d].to /\ ~conns'[d].cut
    BY <1>1, <1>5, <1>14 DEF Sent, StillIn, Wires, Wire
  <2>. QED  BY <1>14, <2>1, ConnectedStays
<1>15. ASSUME Connected(table, conns)  PROVE Arrived(m, n, up, conns', got')
  <2>1. ASSUME NEW x \in Node \ {n}, got'[up[x]][m] # 0
        PROVE  \E d, i : Copy(m, x, d, i, conns')
    <3>1. up[x] = n
      BY <1>5, <1>8, <2>1, Parents
    <3>2. PICK e \in DOMAIN conns :
             /\ ~conns[e].cut /\ Other(e, up[x], conns) = x
             /\ \E k \in DOMAIN table[up[x]] : table[up[x]][k] = e
      BY <1>5, <1>15, Links
    <3>3. Sends(e, t, {}, conns)
      BY <3>1, <3>2 DEF Sends, t
    <3>. QED  BY <1>9, <3>1, <3>2, <3>3 DEF OneMore
  <2>. QED  BY <2>1 DEF Arrived
<1>16. AllArrive'
  <2>1. ASSUME breaks = 0, NEW k \in DOMAIN pubs, pubs[k].whole
        PROVE  /\ Connected(table', conns')
               /\ Arrived(k, pubs[k].by, Up(pubs[k].by), conns', got')
    <3>1. /\ Connected(table, conns)
          /\ Arrived(k, pubs[k].by, Up(pubs[k].by), conns, got)
      BY <2>1 DEF FloodInv, AllArrive
    <3>2. \A x \in Node \ {pubs[k].by} : Up(pubs[k].by)[x] \in Node
      BY <1>12, Parents
    <3>3. \A x, d, i : Copy(k, x, d, i, conns) => Copy(k, x, d, i, conns')
      BY <1>9 DEF OneMore
    <3>4. Arrived(k, pubs[k].by, Up(pubs[k].by), conns', got')
      BY <1>12, <3>1, <3>2, <3>3 DEF Arrived, SameGot
    <3>. QED  BY <1>14, <2>1, <3>1, <3>4
  <2>2. ASSUME breaks = 0, Whole
        PROVE  Connected(table', conns') /\ Arrived(m, n, Up(n), conns', got')
    BY <1>14, <1>15, <2>2, WholeConnected DEF up
  <2>. QED  BY <1>1, <1>3, <1>4, <2>1, <2>2 DEF AllArrive
<1>. QED  BY <1>10, <1>13, <1>16 DEF FloodInv

(* One connection changes, and loses no more than it may. *)
LEMMA ChangeShrinks ==
  ASSUME NEW cs, NEW c \in DOMAIN cs, NEW new, NEW b,
         new.from = cs[c].from, new.to = cs[c].to,
         Shorter(new.toServer, cs[c].toServer, b), Shorter(new.toClient, cs[c].toClient, b)
  PROVE  Shrinks(cs, [cs EXCEPT ![c] = new], b)
<1>. DEFINE ds == [cs EXCEPT ![c] = new]
<1>1. DOMAIN ds = DOMAIN cs /\ ds[c] = new /\ \A d \in DOMAIN cs \ {c} : ds[d] = cs[d]
  OBVIOUS
<1>. HIDE DEF ds
<1>2. ASSUME NEW d \in DOMAIN cs
      PROVE  /\ ds[d].from = cs[d].from /\ ds[d].to = cs[d].to
             /\ Shorter(ds[d].toServer, cs[d].toServer, b)
             /\ Shorter(ds[d].toClient, cs[d].toClient, b)
  <2>1. CASE d = c
    BY <1>1, <2>1
  <2>2. CASE d # c
    BY <1>1, <2>2 DEF Shorter
  <2>. QED  BY <2>1, <2>2
<1>3. Shrinks(cs, ds, b)
  BY <1>1, <1>2 DEF Shrinks
<1>. QED  BY <1>3 DEF ds

(* A new connection carries a hello. *)
LEMMA DialShrinks ==
  ASSUME NetInv, NEW d \in Dials, Dial(d[1], d[2])
  PROVE  Shrinks(conns, conns', breaks')
<1>. DEFINE new == [from |-> d[1], to |-> d[2], key |-> NoKey, cut |-> FALSE,
                    client |-> "open", server |-> "open",
                    toServer |-> <<Hello>>, toClient |-> <<>>]
<1>1. conns' = Append(conns, new)
  BY DEF Dial
<1>2. PICK S : conns \in Seq(S)
  BY DEF NetInv, Wires
<1>3. new.toServer = <<Hello>> /\ new.toClient = <<>> /\ new.from = d[1] /\ new.to = d[2]
  OBVIOUS
<1>4. d[1] # d[2]
  <2>1. d = <<d[1], d[2]>> /\ d[1] \in Node /\ d[2] \in Node
    BY DialsAssumption
  <2>. QED  BY <2>1 DEF NetInv, OneWay
<1>. HIDE DEF new
<1>5. /\ DOMAIN conns \subseteq DOMAIN conns'
      /\ \A c \in DOMAIN conns : conns'[c] = conns[c]
      /\ \A c \in DOMAIN conns' \ DOMAIN conns : conns'[c] = new
  <2>1. conns \in Seq(S \cup {new}) /\ new \in S \cup {new}
    BY <1>2
  <2>. QED  BY <1>1, <2>1
<1>. QED  BY <1>3, <1>4, <1>5 DEF Shrinks, Shorter

(* The end of a loop or of a handler changes no line, and a hello that is not read
   in time neither. *)
LEMMA EndsShrink ==
  ASSUME NetInv, NEW c \in DOMAIN conns, ClientEnd(c) \/ ServerEnd(c) \/ HelloTimeout(c)
  PROVE  Shrinks(conns, conns', breaks')
<1>1. PICK new : /\ conns' = [conns EXCEPT ![c] = new]
                 /\ \/ new = [conns[c] EXCEPT !.client = "closed"]
                    \/ new = [conns[c] EXCEPT !.server = "closed"]
                    \/ new = [conns[c] EXCEPT !.key = Tcp(c)]
  BY DEF ClientEnd, ServerEnd, HelloTimeout
<1>2. Fields \subseteq DOMAIN conns[c]
  BY DEF NetInv, Wires, Wire
<1>3. /\ new.from = conns[c].from /\ new.to = conns[c].to
      /\ new.toServer = conns[c].toServer /\ new.toClient = conns[c].toClient
  BY <1>1, <1>2 DEF Fields
<1>4. Shrinks(conns, [conns EXCEPT ![c] = new], breaks')
  BY <1>3, ChangeShrinks DEF Shorter
<1>. QED  BY <1>1, <1>4

(* A handler reads the hello, in time or late. *)
LEMMA HellosShrink ==
  ASSUME NetInv, NEW c \in DOMAIN conns, ServerHello(c) \/ ServerReadHello(c)
  PROVE  Shrinks(conns, conns', breaks')
<1>. DEFINE q == conns[c].toServer
<1>1. PICK new : /\ conns' = [conns EXCEPT ![c] = new]
                 /\ \/ new = [conns[c] EXCEPT !.key = Did(conns[c].from), !.toServer = Tail(@)]
                    \/ new = [conns[c] EXCEPT !.toServer = Tail(@)]
  BY DEF ServerHello, ServerReadHello
<1>2. /\ Fields \subseteq DOMAIN conns[c] /\ q \in Seq(FromDialer(conns[c].from, Len(pubs)))
      /\ conns[c].key = NoKey => Greets(conns[c])
  BY DEF NetInv, Wires, Wire
<1>3. /\ new.from = conns[c].from /\ new.to = conns[c].to
      /\ new.toServer = Tail(q) /\ new.toClient = conns[c].toClient
  BY <1>1, <1>2 DEF Fields
<1>4. q # <<>> /\ Head(q) = Hello
  <2>1. CASE ServerHello(c)
    BY <1>2, <2>1 DEF ServerHello, Greets
  <2>2. CASE ServerReadHello(c)
    <3>1. q # <<>> /\ Head(q).type = "hello"
      BY <2>2 DEF ServerReadHello
    <3>2. Head(q) \in FromDialer(conns[c].from, Len(pubs))
      <4>. DEFINE A == FromDialer(conns[c].from, Len(pubs))
      <4>1. q \in Seq(A) /\ q # <<>>
        BY <1>2, <3>1
      <4>. HIDE DEF A, q
      <4>2. Head(q) \in A
        BY <4>1
      <4>. QED  BY <4>2 DEF A
    <3>. QED  BY <3>1, <3>2 DEF FromDialer, Pub
  <2>. QED  BY <2>1, <2>2
<1>. HIDE DEF q
<1>5. Shrinks(conns, [conns EXCEPT ![c] = new], breaks')
  BY <1>3, <1>4, ChangeShrinks DEF Shorter, q
<1>. QED  BY <1>1, <1>5

(* A broken connection loses lines. *)
LEMMA BreakShrinks ==
  ASSUME NetInv, NEW c \in DOMAIN conns, Break(c)
  PROVE  Shrinks(conns, conns', breaks')
<1>1. PICK there, back :
         /\ there \in {conns[c].toServer, <<>>} /\ back \in {conns[c].toClient, <<>>}
         /\ conns' = [conns EXCEPT ![c].cut = TRUE, ![c].toServer = there, ![c].toClient = back]
  BY DEF Break
<1>. DEFINE new == [conns[c] EXCEPT !.cut = TRUE, !.toServer = there, !.toClient = back]
<1>2. conns' = [conns EXCEPT ![c] = new]
  BY <1>1
<1>3. Fields \subseteq DOMAIN conns[c]
  BY DEF NetInv, Wires, Wire
<1>4. /\ new.from = conns[c].from /\ new.to = conns[c].to
      /\ new.toServer = there /\ new.toClient = back
  BY <1>3 DEF Fields
<1>5. breaks' # 0
  BY DEF Break, NetInv
<1>. HIDE DEF new
<1>6. Shrinks(conns, [conns EXCEPT ![c] = new], breaks')
  BY <1>1, <1>4, <1>5, ChangeShrinks DEF Shorter
<1>. QED  BY <1>2, <1>6

(* A node that stops reads nothing that was under way to it. *)
LEMMA StopShrinks ==
  ASSUME NetInv, NEW n \in Node, Stop(n), breaks' # 0
  PROVE  Shrinks(conns, conns', breaks')
<1>. DEFINE mine == {c \in DOMAIN conns : n \in {conns[c].from, conns[c].to}}
<1>1. conns' = [c \in DOMAIN conns |-> IF c \in mine THEN Closed(conns[c], n) ELSE conns[c]]
  BY DEF Stop
<1>2. DOMAIN conns' = DOMAIN conns
  BY <1>1
<1>3. ASSUME NEW c \in DOMAIN conns
      PROVE  /\ conns'[c].from = conns[c].from /\ conns'[c].to = conns[c].to
             /\ conns'[c].toServer \in {conns[c].toServer, <<>>}
             /\ conns'[c].toClient \in {conns[c].toClient, <<>>}
  <2>1. Fields \subseteq DOMAIN conns[c]
    BY DEF NetInv, Wires, Wire
  <2>2. conns'[c] = Closed(conns[c], n) \/ conns'[c] = conns[c]
    BY <1>1
  <2>. QED  BY <2>1, <2>2 DEF Closed, Fields
<1>. QED  BY <1>2, <1>3 DEF Shrinks, Shorter

(* A step in which nobody reads or makes a publication. *)
LEMMA StillFlood ==
  ASSUME FloodInv, PeersAreTree, Orderly, NetInv', Shrinks(conns, conns', breaks'),
         pubs' = pubs, got' = got
  PROVE  FloodInv'
<1>1. Wires(conns, looping, breaks, Len(pubs))
  BY DEF FloodInv, NetInv
<1>2. Fewer(conns, conns') /\ (breaks' = 0 => NoneLost(conns, conns'))
  BY <1>1, ShrinksFewer
<1>. QED  BY <1>2, QuietFlood

(* At the start nothing was published. *)
LEMMA FloodInit ==
  ASSUME PeersAreTree, TcpInit
  PROVE  FloodInv
<1>1. /\ conns = <<>> /\ pubs = <<>> /\ looping = {} /\ breaks = 0
      /\ table = [n \in Node |-> <<>>] /\ got = [n \in Node |-> [m \in 1..MaxPubs |-> 0]]
  BY DEF TcpInit
<1>2. DOMAIN <<>> = {} /\ <<>> \in Seq({}) /\ Len(<<>>) = 0
  OBVIOUS
<1>3. Wires(conns, looping, breaks, Len(pubs))
  BY <1>1, <1>2 DEF Wires, Alone
<1>4. \A n \in Node : NamesOf(n, table[n], conns) /\ IsFiniteSet(DOMAIN table[n])
  BY <1>1, <1>2, FS_EmptySet DEF NamesOf
<1>5. NetInv
  BY <1>1, <1>2, <1>3, <1>4, DialsAssumption DEF NetInv, PeersAreTree, Knows
<1>6. PubsOK
  <2>1. Len(pubs) <= MaxPubs /\ DOMAIN pubs = {}
    BY <1>1, <1>2, PubsAssumption
  <2>. QED  BY <1>1, <2>1 DEF PubsOK
<1>7. EachOnce /\ AllArrive
  BY <1>1, <1>2 DEF EachOnce, AllArrive
<1>. QED  BY <1>5, <1>6, <1>7 DEF FloodInv

(* Every step keeps the invariant. *)
LEMMA FloodStep ==
  ASSUME PeersAreTree, FloodInv, [TcpNext]_tcpVars
  PROVE  FloodInv'
<1>1. NetInv /\ NetInv' /\ Orderly
  BY NetStep DEF FloodInv
<1>2. CASE \E n \in Node : Start(n)
  <2>1. conns' = conns /\ pubs' = pubs /\ got' = got
    BY <1>2 DEF Start
  <2>2. Shrinks(conns, conns', breaks')
    BY <2>1 DEF Shrinks, Shorter
  <2>. QED  BY <1>1, <2>1, <2>2, StillFlood
<1>3. CASE UNCHANGED tcpVars
  <2>1. conns' = conns /\ pubs' = pubs /\ got' = got
    BY <1>3 DEF tcpVars
  <2>2. Shrinks(conns, conns', breaks')
    BY <2>1 DEF Shrinks, Shorter
  <2>. QED  BY <1>1, <2>1, <2>2, StillFlood
<1>4. ASSUME NEW d \in Dials, Dial(d[1], d[2])  PROVE FloodInv'
  <2>1. Shrinks(conns, conns', breaks') /\ pubs' = pubs /\ got' = got
    BY <1>1, <1>4, DialShrinks DEF Dial
  <2>. QED  BY <1>1, <2>1, StillFlood
<1>5. ASSUME NEW c \in DOMAIN conns, ClientRead(c)  PROVE FloodInv'
  <2>1. PICK m, rs : Reads(c, conns[c].from, m, rs)
    BY <1>1, <1>5, ClientReads
  <2>. QED  BY <1>1, <2>1, ReadFlood
<1>6. ASSUME NEW c \in DOMAIN conns, ServerReadPub(c)  PROVE FloodInv'
  <2>1. PICK m, rs : Reads(c, conns[c].to, m, rs)
    BY <1>1, <1>6, ServerReads
  <2>. QED  BY <1>1, <2>1, ReadFlood
<1>7. ASSUME NEW c \in DOMAIN conns, ClientEnd(c) \/ ServerEnd(c) \/ HelloTimeout(c)
      PROVE  FloodInv'
  <2>1. Shrinks(conns, conns', breaks') /\ pubs' = pubs /\ got' = got
    BY <1>1, <1>7, EndsShrink DEF ClientEnd, ServerEnd, HelloTimeout
  <2>. QED  BY <1>1, <2>1, StillFlood
<1>8. ASSUME NEW c \in DOMAIN conns, ServerHello(c) \/ ServerReadHello(c)  PROVE FloodInv'
  <2>1. Shrinks(conns, conns', breaks') /\ pubs' = pubs /\ got' = got
    BY <1>1, <1>8, HellosShrink DEF ServerHello, ServerReadHello
  <2>. QED  BY <1>1, <2>1, StillFlood
<1>9. ASSUME NEW c \in DOMAIN conns, Break(c)  PROVE FloodInv'
  <2>1. Shrinks(conns, conns', breaks') /\ pubs' = pubs /\ got' = got
    BY <1>1, <1>9, BreakShrinks DEF Break
  <2>. QED  BY <1>1, <2>1, StillFlood
<1>10. ASSUME NEW n \in Node, Stop(n)  PROVE FloodInv'
  <2>1. Shrinks(conns, conns', breaks') /\ pubs' = pubs /\ got' = got
    BY <1>1, <1>10, StopOrderly, StopShrinks DEF Stop
  <2>. QED  BY <1>1, <2>1, StillFlood
<1>11. ASSUME NEW n \in Publisher, Publish(n)  PROVE FloodInv'
  BY <1>1, <1>11, PublishFlood
<1>12. CASE TcpNext
  BY <1>2, <1>4, <1>5, <1>6, <1>7, <1>8, <1>9, <1>10, <1>11, <1>12 DEF TcpNext
<1>. QED  BY <1>3, <1>12

(* What floods along a tree of peers is in one place on the way to each node. *)
THEOREM FloodInvariance ==
  ASSUME PeersAreTree
  PROVE  TcpSpec => []FloodInv
<1>1. TcpInit => FloodInv
  BY FloodInit
<1>2. FloodInv /\ [TcpNext]_tcpVars => FloodInv'
  BY FloodStep
<1>. QED  BY <1>1, <1>2, PTL DEF TcpSpec

(* When nothing is under way, every node has what was published when all was
   connected: of those without it, one nearest to the publisher would be below a
   node that has it. *)
LEMMA QuietReaches ==
  ASSUME FloodInv, PeersAreTree, breaks = 0, Quiet, NEW m \in DOMAIN pubs, pubs[m].whole,
         NEW n \in Node
  PROVE  got[n][m] # 0
<1>. DEFINE p == pubs[m].by
            up == Up(p)
<1>1. Rooted(p, up)
  BY UpIsRooted DEF FloodInv, PubsOK
<1>2. Arrived(m, p, up, conns, got) /\ Home(m, p, got, breaks)
  BY DEF FloodInv, AllArrive, EachOnce, OnePub
<1>. HIDE DEF p, up
<1>3. \A x, c, i : ~Copy(m, x, c, i, conns)
  BY DEF Quiet, Copy, Line
<1>4. PICK depth \in [Node -> Nat] : TreeAround(p, up, depth)
  BY <1>1 DEF Rooted
<1>. DEFINE Missing == {x \in Node : got[x][m] = 0}
            S == {depth[x] : x \in Missing}
<1>5. CASE Missing = {}
  BY <1>5
<1>6. CASE Missing # {}
  <2>1. S \in SUBSET Nat /\ S # {}
    BY <1>6
  <2>. HIDE DEF S
  <2>2. PICK d \in S : \A y \in S : ~(<<y, d>> \in OpToRel(<, Nat))
    BY <2>1, NatLessThanWellFounded, WFMin
  <2>3. ASSUME NEW y \in S, y < d  PROVE FALSE
    <3>. DEFINE pair == <<y, d>>
    <3>1. pair \in Nat \X Nat /\ pair[1] < pair[2]
      BY <2>1, <2>2, <2>3
    <3>. HIDE DEF pair
    <3>2. pair \in OpToRel(<, Nat)
      BY <3>1 DEF OpToRel
    <3>. QED  BY <2>2, <3>2 DEF pair
  <2>4. PICK x \in Node : got[x][m] = 0 /\ depth[x] = d
    BY <2>2 DEF S
  <2>5. x # p
    BY <1>2, <2>4 DEF Home
  <2>6. up[x] \in Node /\ depth[up[x]] < depth[x]
    BY <1>1, <1>4, <2>5 DEF TreeAround, Rooted
  <2>7. depth[up[x]] \notin S
    BY <2>3, <2>4, <2>6
  <2>8. got[up[x]][m] # 0
    BY <2>6, <2>7 DEF S
  <2>. QED  BY <1>2, <1>3, <2>4, <2>5, <2>8 DEF Arrived
<1>. QED  BY <1>5, <1>6

(* The invariant says what FloodReachesOnce does. *)
LEMMA FloodsAreOnce ==
  ASSUME FloodInv, PeersAreTree
  PROVE  FloodReachesOnce
<1>1. ASSUME NEW m \in DOMAIN pubs, NEW n \in Node,
             breaks = 0 \/ (n # pubs[m].by /\ OneRelay)
      PROVE  got[n][m] <= 1 /\ got[n][m] \in Nat
  <2>1. OnePub(m, pubs[m].by, Up(pubs[m].by), conns, got, breaks)
    BY <1>1 DEF FloodInv, EachOnce
  <2>2. CASE n = pubs[m].by
    BY <1>1, <2>1, <2>2 DEF OnePub, Home
  <2>3. CASE n # pubs[m].by
    BY <2>1, <2>3 DEF OnePub, Single
  <2>. QED  BY <2>2, <2>3
<1>2. ASSUME NEW m \in DOMAIN pubs, NEW n \in Node, breaks = 0, Quiet, pubs[m].whole
      PROVE  got[n][m] = 1
  <2>1. got[n][m] # 0
    BY <1>2, QuietReaches
  <2>2. got[n][m] <= 1 /\ got[n][m] \in Nat
    BY <1>1, <1>2
  <2>. QED  BY <2>1, <2>2
<1>. QED  BY <1>1, <1>2 DEF FloodReachesOnce

(* Along a tree of peers, no publication reaches a node twice, and all nodes have
   it when nothing is under way (publish, _tcp_broadcast, exclude_peer). *)
THEOREM FloodsOnce ==
  ASSUME PeersAreTree
  PROVE  TcpSpec => []FloodReachesOnce
<1>1. FloodInv => FloodReachesOnce
  BY FloodsAreOnce
<1>. QED  BY <1>1, FloodInvariance, PTL

(***************************************************************************)
(* Discovery.  Two lists of different sizes, trimmed from the front, keep  *)
(* what is heard of an agent; one drops entries that expired, too.  They   *)
(* agree because every put goes to both, to each as a key that is there    *)
(* once: versions are compared nowhere.                                    *)
(***************************************************************************)

CacheEntry == [key : Agent \cup Bridged, version : 1..MaxVersion, live : BOOLEAN]
BucketRow == [key : Agent \cup Bridged, version : 1..MaxVersion]

(* No key is in a list twice. *)
Unique(s) == \A i, j \in DOMAIN s : s[i].key = s[j].key => i = j

(* An agent's cache and bucket, which tell the same of every key in both. *)
Lists(c, b) ==
  /\ c \in Seq(CacheEntry) /\ Len(c) <= MaxKeys /\ Unique(c)
  /\ b \in Seq(BucketRow) /\ Len(b) <= BucketSize /\ Unique(b)
  /\ \A i \in DOMAIN c, j \in DOMAIN b : c[i].key = b[j].key => c[i].version = b[j].version

DhtInv ==
  /\ started \subseteq Agent
  /\ version \in [Agent -> 0..MaxVersion]
  /\ \A a \in started : version[a] > 0
  /\ DOMAIN cache = Agent /\ DOMAIN bucket = Agent
  /\ \A a \in Agent : Lists(cache[a], bucket[a])
  /\ net \subseteq [key : Agent \cup Bridged, version : 1..MaxVersion, to : started]
  /\ bridged \in 0..MaxBridged

(* What is left of a list when the entry of a key goes: no entry of that key. *)
LEMMA OthersAreLeft ==
  ASSUME NEW E, NEW s \in Seq(E), Unique(s), NEW key
  PROVE  LET r == Others(s, key) IN
         /\ r \in Seq(E) /\ Len(r) <= Len(s) /\ Unique(r)
         /\ \A i \in DOMAIN r : r[i].key # key /\ \E j \in DOMAIN s : r[i] = s[j]
<1>. DEFINE r == Others(s, key)
            n == Len(s)
<1>1. n \in Nat /\ DOMAIN s = 1..n
  OBVIOUS
<1>2. CASE key \notin Keys(s)
  <2>1. r = s
    BY <1>2 DEF Others
  <2>2. \A i \in DOMAIN s : s[i].key # key
    BY <1>2 DEF Keys, ToSet
  <2>. QED  BY <2>1, <2>2
<1>3. CASE key \in Keys(s)
  <2>1. \E i \in DOMAIN s : s[i].key = key
    BY <1>3 DEF Keys, ToSet
  <2>. DEFINE k == CHOOSE i \in DOMAIN s : s[i].key = key
  <2>2. k \in 1..n /\ s[k].key = key
    BY <1>1, <2>1
  <2>3. r = SubSeq(s, 1, k - 1) \o SubSeq(s, k + 1, n)
    BY <1>3 DEF Others, RemoveAt
  <2>. DEFINE front == SubSeq(s, 1, k - 1)
              back == SubSeq(s, k + 1, n)
  <2>. HIDE DEF k, r, n
  <2>4. /\ front \in Seq(E) /\ Len(front) = k - 1
        /\ \A i \in 1..(k - 1) : front[i] = s[i]
    BY <1>1, <2>2 DEF n
  <2>5. /\ back \in Seq(E) /\ Len(back) = n - k
        /\ \A i \in 1..(n - k) : back[i] = s[k + i]
    <3>1. k + 1 \in Int /\ n \in Int /\ n - (k + 1) + 1 = n - k
      BY <1>1, <2>2
    <3>2. \A i \in (k + 1)..n : i \in 1..n
      BY <1>1, <2>2
    <3>3. \A i \in (k + 1)..n : s[i] \in E
      BY <1>1, <3>2, ElementOfSeq DEF n
    <3>4. /\ back \in Seq(E)
          /\ Len(back) = IF k + 1 <= n THEN n - (k + 1) + 1 ELSE 0
          /\ \A i \in 1..(n - (k + 1) + 1) : back[i] = s[k + 1 + i - 1]
      BY <3>1, <3>3, SubSeqProperties
    <3>5. Len(back) = n - k
      BY <1>1, <2>2, <3>1, <3>4
    <3>6. \A i \in 1..(n - k) : k + 1 + i - 1 = k + i
      BY <2>2
    <3>. QED  BY <3>1, <3>4, <3>5, <3>6
  <2>. HIDE DEF front, back
  <2>6. /\ r \in Seq(E) /\ Len(r) = n - 1 /\ DOMAIN r = 1..(n - 1)
        /\ \A i \in 1..(n - 1) : r[i] = s[IF i < k THEN i ELSE i + 1]
    <3>1. /\ r \in Seq(E) /\ Len(r) = (k - 1) + (n - k)
          /\ \A i \in 1..((k - 1) + (n - k)) :
               r[i] = IF i <= k - 1 THEN front[i] ELSE back[i - (k - 1)]
      <4>1. r = front \o back
        BY <2>3 DEF front, back
      <4>. QED  BY <2>4, <2>5, <4>1, ConcatProperties
    <3>2. (k - 1) + (n - k) = n - 1 /\ DOMAIN r = 1..(n - 1)
      BY <1>1, <2>2, <3>1
    <3>3. ASSUME NEW i \in 1..(n - 1)  PROVE r[i] = s[IF i < k THEN i ELSE i + 1]
      <4>1. CASE i < k
        <5>1. i \in 1..(k - 1) /\ i <= k - 1
          BY <1>1, <2>2, <4>1
        <5>. QED  BY <2>4, <3>1, <3>2, <4>1, <5>1
      <4>2. CASE ~(i < k)
        <5>1. ~(i <= k - 1) /\ i - (k - 1) \in 1..(n - k) /\ k + (i - (k - 1)) = i + 1
          BY <1>1, <2>2, <4>2
        <5>. QED  BY <2>5, <3>1, <3>2, <4>2, <5>1
      <4>. QED  BY <4>1, <4>2
    <3>. QED  BY <3>1, <3>2, <3>3
  <2>. DEFINE from(i) == IF i < k THEN i ELSE i + 1
  <2>7. \A i \in 1..(n - 1) : from(i) \in 1..n /\ from(i) # k /\ r[i] = s[from(i)]
    BY <1>1, <2>2, <2>6
  <2>8. \A i, j \in 1..(n - 1) : from(i) = from(j) => i = j
    BY <1>1, <2>2
  <2>. HIDE DEF from
  <2>9. Unique(r)
    BY <1>1, <2>6, <2>7, <2>8 DEF Unique
  <2>10. \A i \in 1..(n - 1) : r[i].key # key
    BY <1>1, <2>2, <2>7 DEF Unique
  <2>. QED  BY <1>1, <2>6, <2>7, <2>9, <2>10 DEF n, r
<1>. QED  BY <1>2, <1>3

(* r has the entry e of a key and entries of s of other keys. *)
PutInto(r, E, s, e, key, size) ==
  /\ r \in Seq(E) /\ Len(r) <= size /\ Unique(r)
  /\ \A i \in DOMAIN r :
       \/ r[i] = e
       \/ r[i].key # key /\ (\E j \in DOMAIN s : r[i] = s[j])

(* What a store or a put leaves: the new entry, and old ones of other keys. *)
LEMMA PutLeaves ==
  ASSUME NEW E, NEW s \in Seq(E), Unique(s), NEW e \in E, NEW size \in Nat \ {0},
         NEW key, e.key = key
  PROVE  PutInto(Newest(Append(Others(s, key), e), size), E, s, e, key, size)
<1>. DEFINE o == Others(s, key)
            p == Append(o, e)
            m == Len(p)
            r == Newest(p, size)
<1>0. r = Newest(p, size)
  OBVIOUS
<1>1. /\ o \in Seq(E) /\ Len(o) \in Nat /\ DOMAIN o = 1..Len(o) /\ Unique(o)
      /\ \A i \in DOMAIN o : o[i].key # key /\ \E j \in DOMAIN s : o[i] = s[j]
  BY OthersAreLeft
<1>. HIDE DEF o
<1>2. /\ p \in Seq(E) /\ m = Len(o) + 1 /\ m \in Nat /\ DOMAIN p = 1..m /\ p[m] = e
      /\ \A i \in 1..Len(o) : p[i] = o[i]
  BY <1>1
<1>. SUFFICES PutInto(r, E, s, e, key, size)
  BY DEF o, p, r
<1>. USE DEF PutInto
<1>. HIDE DEF p, m, r
<1>3. \A i \in 1..m : p[i] = e \/ (p[i].key # key /\ \E j \in DOMAIN s : p[i] = s[j])
  BY <1>1, <1>2
<1>4. Unique(p)
  <2>1. ASSUME NEW i \in 1..m, NEW j \in 1..m, p[i].key = p[j].key  PROVE i = j
    <3>1. CASE i = m /\ j = m
      BY <3>1
    <3>2. CASE i # m /\ j # m
      <4>1. i \in 1..Len(o) /\ j \in 1..Len(o)
        BY <1>1, <1>2, <3>2
      <4>. QED  BY <1>1, <1>2, <2>1, <4>1 DEF Unique
    <3>3. CASE i # m /\ j = m
      <4>1. i \in 1..Len(o)
        BY <1>1, <1>2, <3>3
      <4>. QED  BY <1>1, <1>2, <2>1, <3>3, <4>1
    <3>4. CASE i = m /\ j # m
      <4>1. j \in 1..Len(o)
        BY <1>1, <1>2, <3>4
      <4>. QED  BY <1>1, <1>2, <2>1, <3>4, <4>1
    <3>. QED  BY <3>1, <3>2, <3>3, <3>4
  <2>. QED  BY <1>2, <2>1 DEF Unique
<1>5. CASE m <= size
  <2>1. r = p
    BY <1>0, <1>5 DEF Newest, m
  <2>. QED  BY <1>2, <1>3, <1>4, <1>5, <2>1 DEF m
<1>6. CASE ~(m <= size)
  <2>1. r = SubSeq(p, m - size + 1, m)
    BY <1>0, <1>6 DEF Newest, m
  <2>2. /\ m - size + 1 \in 1..m /\ m - (m - size + 1) + 1 = size
        /\ \A i \in 1..size : (m - size + 1) + i - 1 = m - size + i /\ m - size + i \in 1..m
    BY <1>2, <1>6
  <2>3. /\ r \in Seq(E) /\ Len(r) = size /\ DOMAIN r = 1..size
        /\ \A i \in 1..size : r[i] = p[m - size + i]
    BY <1>2, <2>1, <2>2 DEF m
  <2>4. Unique(r)
    <3>1. ASSUME NEW i \in 1..size, NEW j \in 1..size, r[i].key = r[j].key  PROVE i = j
      <4>1. /\ m - size + i \in DOMAIN p /\ m - size + j \in DOMAIN p
            /\ p[m - size + i].key = p[m - size + j].key
        BY <1>2, <2>2, <2>3, <3>1
      <4>2. m - size + i = m - size + j
        BY <1>4, <4>1 DEF Unique
      <4>. QED  BY <1>2, <4>2
    <3>. QED  BY <2>3, <3>1 DEF Unique
  <2>5. \A i \in 1..size : r[i] = e \/ (r[i].key # key /\ \E j \in DOMAIN s : r[i] = s[j])
    <3>1. ASSUME NEW i \in 1..size
          PROVE  r[i] = e \/ (r[i].key # key /\ \E j \in DOMAIN s : r[i] = s[j])
      <4>1. m - size + i \in 1..m /\ r[i] = p[m - size + i]
        BY <2>2, <2>3
      <4>. QED  BY <1>3, <4>1
    <3>. QED  BY <3>1
  <2>. QED  BY <2>3, <2>4, <2>5
<1>. QED  BY <1>2, <1>5, <1>6

(* Storing what is heard of a key leaves cache and bucket in agreement. *)
LEMMA PutAgrees ==
  ASSUME NEW c, NEW b, Lists(c, b),
         NEW key \in Agent \cup Bridged, NEW ver \in 1..MaxVersion
  PROVE  Lists(Store(c, key, ver), BucketPut(b, key, ver))
<1>. DEFINE e == Entry(key, ver)
            f == BucketEntry(key, ver)
            s == Store(c, key, ver)
            p == BucketPut(b, key, ver)
<1>1. /\ e \in CacheEntry /\ e.key = key /\ e.version = ver
      /\ f \in BucketRow /\ f.key = key /\ f.version = ver
  BY DEF Entry, BucketEntry, CacheEntry, BucketRow
<1>2. /\ s = Newest(Append(Others(c, key), e), MaxKeys)
      /\ p = Newest(Append(Others(b, key), f), BucketSize)
  BY DEF Store, BucketPut
<1>. HIDE DEF e, f, s, p
<1>3. /\ c \in Seq(CacheEntry) /\ Unique(c) /\ b \in Seq(BucketRow) /\ Unique(b)
      /\ \A i \in DOMAIN c, j \in DOMAIN b : c[i].key = b[j].key => c[i].version = b[j].version
      /\ MaxKeys \in Nat \ {0} /\ BucketSize \in Nat \ {0}
  BY SizeAssumption, VersionAssumption DEF Lists
<1>4. PutInto(s, CacheEntry, c, e, key, MaxKeys)
  BY <1>1, <1>2, <1>3, PutLeaves
<1>5. PutInto(p, BucketRow, b, f, key, BucketSize)
  BY <1>1, <1>2, <1>3, PutLeaves
<1>. USE DEF PutInto
<1>6. ASSUME NEW i \in DOMAIN s, NEW j \in DOMAIN p, s[i].key = p[j].key
      PROVE  s[i].version = p[j].version
  <2>1. CASE s[i] = e
    BY <1>1, <1>5, <1>6, <2>1
  <2>2. CASE s[i] # e
    <3>1. s[i].key # key /\ \E k \in DOMAIN c : s[i] = c[k]
      BY <1>4, <2>2
    <3>2. p[j].key # key /\ p[j] # f
      BY <1>1, <1>6, <3>1
    <3>3. \E l \in DOMAIN b : p[j] = b[l]
      BY <1>5, <3>2
    <3>. QED  BY <1>3, <1>6, <3>1, <3>3
  <2>. QED  BY <2>1, <2>2
<1>. QED  BY <1>4, <1>5, <1>6 DEF Lists, s, p

(* The lists of one agent change, those of the others do not. *)
LEMMA ListsStep ==
  ASSUME DhtInv, NEW a \in Agent, NEW c, NEW b, Lists(c, b),
         cache' = [cache EXCEPT ![a] = c], bucket' = [bucket EXCEPT ![a] = b]
  PROVE  /\ DOMAIN cache' = Agent /\ DOMAIN bucket' = Agent
         /\ \A d \in Agent : Lists(cache'[d], bucket'[d])
BY DEF DhtInv

(* Storing an announced manifest keeps the receiver's two lists agreeing. *)
LEMMA PutStep ==
  ASSUME DhtInv, NEW a \in Agent,
         NEW key \in Agent \cup Bridged, NEW ver \in 1..MaxVersion,
         HandlePut(a, key, ver)
  PROVE  /\ DOMAIN cache' = Agent /\ DOMAIN bucket' = Agent
         /\ \A d \in Agent : Lists(cache'[d], bucket'[d])
<1>1. /\ cache' = [cache EXCEPT ![a] = Store(cache[a], key, ver)]
      /\ bucket' = [bucket EXCEPT ![a] = BucketPut(bucket[a], key, ver)]
  BY DEF HandlePut
<1>2. Lists(cache[a], bucket[a])
  BY DEF DhtInv
<1>. QED  BY <1>1, <1>2, PutAgrees, ListsStep

(* Agents start with empty lists, and nothing is announced. *)
LEMMA DhtStarts == DhtInit => DhtInv
<1>1. <<>> \in Seq(CacheEntry) /\ <<>> \in Seq(BucketRow) /\ Len(<<>>) = 0
      /\ DOMAIN <<>> = {}
  OBVIOUS
<1>2. Lists(<<>>, <<>>)
  BY SizeAssumption, VersionAssumption, <1>1 DEF Lists, Unique
<1>. QED  BY SizeAssumption, VersionAssumption, <1>2 DEF DhtInit, DhtInv

(* A step of the DHT keeps the two lists of every agent agreeing. *)
LEMMA DhtStep ==
  ASSUME DhtInv, [DhtNext]_dhtVars
  PROVE  DhtInv'
<1>. DEFINE K == Agent \cup Bridged
            V == 1..MaxVersion
            ListsOK == /\ DOMAIN cache = Agent /\ DOMAIN bucket = Agent
                       /\ \A a \in Agent : Lists(cache[a], bucket[a])
            NetOK == net \subseteq [key : K, version : V, to : started]
            Rest == /\ started \subseteq Agent
                    /\ version \in [Agent -> 0..MaxVersion]
                    /\ \A a \in started : version[a] > 0
                    /\ bridged \in 0..MaxBridged
<1>0. ListsOK /\ NetOK /\ Rest /\ MaxVersion \in Nat /\ MaxBridged \in Nat
  BY SizeAssumption, VersionAssumption DEF DhtInv
<1>1. ASSUME NEW a, NEW ver \in V, NEW key \in K
      PROVE  ToOthers(key, ver, started) \subseteq [key : K, version : V, to : started]
  BY DEF ToOthers, Put
<1>2. ASSUME NEW a \in started  PROVE a \in Agent /\ version[a] \in V /\ a \in K
  BY <1>0, <1>2
<1>3. ASSUME UNCHANGED dhtVars  PROVE ListsOK' /\ NetOK' /\ Rest'
  BY <1>0, <1>3 DEF dhtVars
<1>4. ASSUME NEW a \in Agent, StartAgent(a)  PROVE ListsOK' /\ NetOK' /\ Rest'
  <2>. DEFINE ver == version[a] + 1
  <2>1. ver \in V /\ a \in K /\ started \subseteq started'
    BY <1>0, <1>4 DEF StartAgent
  <2>2. ListsOK'
    <3>1. Lists(Store(cache[a], a, ver), BucketPut(bucket[a], a, ver))
      BY <1>0, <2>1, PutAgrees
    <3>2. /\ cache' = [cache EXCEPT ![a] = Store(cache[a], a, ver)]
          /\ bucket' = [bucket EXCEPT ![a] = BucketPut(bucket[a], a, ver)]
      BY <1>4 DEF StartAgent
    <3>. QED  BY <3>1, <3>2, ListsStep
  <2>3. NetOK'
    <3>1. ToOthers(a, ver, started) \subseteq [key : K, version : V, to : started]
      BY <1>1, <2>1
    <3>2. net' = net \cup ToOthers(a, ver, started)
      BY <1>4 DEF StartAgent
    <3>. QED  BY <1>0, <2>1, <3>1, <3>2
  <2>4. Rest'
    BY <1>0, <1>4 DEF StartAgent
  <2>. QED  BY <2>2, <2>3, <2>4
<1>5. ASSUME NEW a \in Agent, Republish(a)  PROVE ListsOK' /\ NetOK' /\ Rest'
  <2>1. a \in started /\ HandlePut(a, a, version[a])
        /\ net' = net \cup ToOthers(a, version[a], started)
        /\ UNCHANGED <<started, version, bridged>>
    BY <1>5 DEF Republish
  <2>2. ListsOK'
    BY <1>2, <2>1, PutStep
  <2>3. ToOthers(a, version[a], started) \subseteq [key : K, version : V, to : started]
    BY <1>1, <1>2, <2>1
  <2>. QED  BY <1>0, <2>1, <2>2, <2>3
<1>6. ASSUME NEW m \in net, OnDhtMsg(m)  PROVE ListsOK' /\ NetOK' /\ Rest'
  <2>1. m.to \in Agent /\ m.key \in K /\ m.version \in V
    BY <1>0, <1>6
  <2>2. HandlePut(m.to, m.key, m.version) /\ net' = net \ {m}
        /\ UNCHANGED <<started, version, bridged>>
    BY <1>6 DEF OnDhtMsg
  <2>3. ListsOK'
    BY <2>1, <2>2, PutStep
  <2>. QED  BY <1>0, <2>2, <2>3
<1>7. ASSUME NEW m \in net, OnUnsigned(m)  PROVE ListsOK' /\ NetOK' /\ Rest'
  <2>. DEFINE a == m.to
              s == Store(cache[a], m.key, m.version)
              p == BucketPut(bucket[a], m.key, m.version)
  <2>1. a \in started /\ a \in Agent /\ m.key \in K /\ m.version \in V
    BY <1>0, <1>7
  <2>2. UNCHANGED <<started, version, bridged>>
    BY <1>7 DEF OnUnsigned
  <2>3. CASE HandlePut(a, m.key, m.version) /\ net' = net \ {m}
    <3>1. ListsOK'
      BY <2>1, <2>3, PutStep
    <3>. QED  BY <1>0, <2>2, <2>3, <3>1
  <2>4. CASE /\ cache' = [cache EXCEPT ![a] = Store(s, a, version[a])]
             /\ bucket' = [bucket EXCEPT ![a] = BucketPut(p, a, version[a])]
             /\ net' = (net \ {m}) \cup ToOthers(a, version[a], started)
    <3>1. Lists(s, p)
      BY <1>0, <2>1, PutAgrees
    <3>. HIDE DEF s, p
    <3>2. Lists(Store(s, a, version[a]), BucketPut(p, a, version[a]))
      BY <1>2, <2>1, <3>1, PutAgrees
    <3>3. ListsOK'
      BY <2>1, <2>4, <3>2, ListsStep
    <3>4. ToOthers(a, version[a], started) \subseteq [key : K, version : V, to : started]
      BY <1>1, <1>2, <2>1
    <3>. QED  BY <1>0, <2>2, <2>4, <3>3, <3>4
  <2>. QED  BY <1>7, <2>3, <2>4 DEF OnUnsigned
<1>8. ASSUME NEW a \in Agent, StopAgent(a)  PROVE ListsOK' /\ NetOK' /\ Rest'
  <2>1. /\ started' = started \ {a} /\ net' = {m \in net : m.to # a}
        /\ cache' = [cache EXCEPT ![a] = <<>>] /\ bucket' = [bucket EXCEPT ![a] = <<>>]
        /\ UNCHANGED <<version, bridged>>
    BY <1>8 DEF StopAgent
  <2>2. Lists(<<>>, <<>>)
    <3>1. /\ <<>> \in Seq(CacheEntry) /\ <<>> \in Seq(BucketRow) /\ Len(<<>>) = 0
          /\ DOMAIN <<>> = {}
      OBVIOUS
    <3>. QED  BY SizeAssumption, VersionAssumption, <3>1 DEF Lists, Unique
  <2>3. ListsOK'
    BY <2>1, <2>2, ListsStep
  <2>. QED  BY <1>0, <2>1, <2>3
<1>9. ASSUME NEW a \in Agent, NEW key \in K, Get(a, key)  PROVE ListsOK' /\ NetOK' /\ Rest'
  <2>. DEFINE o == Others(cache[a], key)
  <2>1. cache' = [cache EXCEPT ![a] = o] /\ UNCHANGED <<started, version, bucket, net, bridged>>
    BY <1>9 DEF Get
  <2>2. Lists(cache[a], bucket[a])
    BY <1>0
  <2>3. /\ o \in Seq(CacheEntry) /\ Len(o) <= Len(cache[a]) /\ Unique(o)
        /\ \A i \in DOMAIN o : \E j \in DOMAIN cache[a] : o[i] = cache[a][j]
    BY <2>2, OthersAreLeft DEF Lists
  <2>. HIDE DEF o
  <2>4. Len(o) <= MaxKeys
    <3>1. Len(o) \in Nat /\ Len(cache[a]) \in Nat /\ Len(cache[a]) <= MaxKeys
      BY <2>2, <2>3, LenProperties DEF Lists
    <3>. QED  BY SizeAssumption, VersionAssumption, <2>3, <3>1
  <2>5. Lists(o, bucket[a])
    BY <2>2, <2>3, <2>4 DEF Lists
  <2>. QED  BY <1>0, <2>1, <2>5
<1>10. ASSUME NEW a \in Agent, NEW i \in DOMAIN cache[a], Expire(a, i)
       PROVE  ListsOK' /\ NetOK' /\ Rest'
  <2>. DEFINE c == [cache[a] EXCEPT ![i].live = FALSE]
  <2>1. cache' = [cache EXCEPT ![a] = c] /\ UNCHANGED <<started, version, bucket, net, bridged>>
    BY <1>10 DEF Expire
  <2>2. Lists(cache[a], bucket[a]) /\ cache[a] \in Seq(CacheEntry)
    BY <1>0 DEF Lists
  <2>3. /\ c \in Seq(CacheEntry) /\ Len(c) = Len(cache[a]) /\ DOMAIN c = DOMAIN cache[a]
        /\ \A j \in DOMAIN c : c[j].key = cache[a][j].key /\ c[j].version = cache[a][j].version
    <3>. DEFINE gone == [cache[a][i] EXCEPT !.live = FALSE]
    <3>1. cache[a][i] \in CacheEntry
      BY <2>2
    <3>2. gone \in CacheEntry /\ gone.key = cache[a][i].key /\ gone.version = cache[a][i].version
      BY <3>1 DEF CacheEntry
    <3>3. c = [cache[a] EXCEPT ![i] = gone]
      OBVIOUS
    <3>. HIDE DEF gone, c
    <3>. QED  BY <2>2, <3>2, <3>3
  <2>. HIDE DEF c
  <2>4. Lists(c, bucket[a])
    BY <2>2, <2>3 DEF Lists, Unique
  <2>. QED  BY <1>0, <2>1, <2>4
<1>11. ASSUME NEW x \in Bridged, Bridge(x)  PROVE ListsOK' /\ NetOK' /\ Rest'
  <2>1. /\ net' = net \cup ToOthers(x, 1, started)
        /\ bridged < MaxBridged /\ bridged' = bridged + 1
        /\ UNCHANGED <<started, version, cache, bucket>>
    BY <1>11 DEF Bridge
  <2>2. ToOthers(x, 1, started) \subseteq [key : K, version : V, to : started]
    <3>1. CASE started = {}
      BY <3>1 DEF ToOthers
    <3>2. CASE started # {}
      <4>1. 1 \in V
        BY <1>0, <3>2
      <4>. QED  BY <1>1, <4>1
    <3>. QED  BY <3>1, <3>2
  <2>. QED  BY <1>0, <2>1, <2>2
<1>12. ASSUME NEW m \in net, Lose(m)  PROVE ListsOK' /\ NetOK' /\ Rest'
  BY <1>0, <1>12 DEF Lose
<1>13. ListsOK' /\ NetOK' /\ Rest'
  <2>. HIDE DEF K, ListsOK, NetOK, Rest
  <2>1. CASE DhtNext
    BY <1>4, <1>5, <1>6, <1>7, <1>8, <1>9, <1>10, <1>11, <1>12, <2>1 DEF DhtNext, K
  <2>. QED  BY <1>3, <2>1
<1>. QED  BY <1>13 DEF DhtInv

(* A list without a key twice is as long as it has keys. *)
LEMMA AsLongAsKeys ==
  ASSUME NEW E, NEW s \in Seq(E), Unique(s)
  PROVE  Len(s) = Cardinality(Keys(s))
<1>. DEFINE n == Len(s)
            keyAt == [i \in 1..n |-> s[i].key]
<1>1. n \in Nat /\ DOMAIN s = 1..n
  OBVIOUS
<1>2. Keys(s) = {s[i].key : i \in 1..n}
  BY <1>1 DEF Keys, ToSet
<1>. HIDE DEF n
<1>3. /\ keyAt \in [1..n -> Keys(s)]
      /\ \A k \in Keys(s) : \E i \in 1..n : keyAt[i] = k
      /\ \A i, j \in 1..n : keyAt[i] = keyAt[j] => i = j
  BY <1>1, <1>2 DEF Unique
<1>. HIDE DEF keyAt
<1>4. keyAt \in Surjection(1..n, Keys(s)) /\ keyAt \in Injection(1..n, Keys(s))
  BY <1>3 DEF Surjection, Injection, IsInjective
<1>5. IsFiniteSet(1..n) /\ Cardinality(1..n) = n
  BY <1>1, FS_Interval
<1>6. Cardinality(Keys(s)) = Cardinality(1..n)
  BY <1>4, <1>5, FS_Surjection
<1>. QED  BY <1>5, <1>6 DEF n

(* The lists have at most one entry for a key, so they are as long as their keys are many. *)
LEMMA DhtTyped == DhtInv => DhtTypeOK
<1>. SUFFICES ASSUME DhtInv PROVE DhtTypeOK
  OBVIOUS
<1>1. ASSUME NEW a \in Agent
      PROVE  /\ Keys(cache[a]) \cup Keys(bucket[a]) \subseteq Key
             /\ Len(cache[a]) <= MaxKeys /\ Len(cache[a]) = Cardinality(Keys(cache[a]))
             /\ Len(bucket[a]) <= BucketSize /\ Len(bucket[a]) = Cardinality(Keys(bucket[a]))
  <2>1. Lists(cache[a], bucket[a])
    BY DEF DhtInv
  <2>2. /\ cache[a] \in Seq(CacheEntry) /\ bucket[a] \in Seq(BucketRow)
        /\ \A i \in DOMAIN cache[a] : cache[a][i] \in CacheEntry
        /\ \A i \in DOMAIN bucket[a] : bucket[a][i] \in BucketRow
    BY <2>1 DEF Lists
  <2>3. Keys(cache[a]) \cup Keys(bucket[a]) \subseteq Key
    BY <2>2 DEF Keys, ToSet, Key, CacheEntry, BucketRow
  <2>. QED  BY <2>1, <2>2, <2>3, AsLongAsKeys DEF Lists
<1>. QED  BY <1>1 DEF DhtInv, DhtTypeOK, Key

(* The three lookups of one agent read one version of a key between them. *)
LEMMA OneVersion ==
  ASSUME DhtInv, NEW a \in Agent, NEW key
  PROVE  Cardinality(Query(a, key) \cup Lookup(a, key) \cup FindAgents(a, key)) <= 1
<1>. DEFINE F == Query(a, key) \cup Lookup(a, key) \cup FindAgents(a, key)
            c == cache[a]
            b == bucket[a]
<1>1. Lists(c, b)
  BY DEF DhtInv
<1>2. ASSUME NEW v \in F
      PROVE  \/ \E i \in DOMAIN c : c[i].key = key /\ c[i].version = v
             \/ \E i \in DOMAIN b : b[i].key = key /\ b[i].version = v
  BY DEF Query, Lookup, FindAgents, Versions, ToSet
<1>. HIDE DEF F, c, b
<1>3. ASSUME NEW v \in F, NEW w \in F  PROVE v = w
  BY <1>1, <1>2 DEF Lists, Unique
<1>4. CASE F = {}
  BY <1>4, FS_EmptySet DEF F
<1>5. CASE F # {}
  <2>1. PICK v : F = {v}
    BY <1>3, <1>5
  <2>2. Cardinality(F) = 1
    BY <2>1, FS_Singleton
  <2>. QED  BY <2>2 DEF F
<1>. QED  BY <1>4, <1>5

(* Of every behaviour of discovery: no key is in a list twice, and cache and
   bucket of an agent tell the same version of a key that is in both. *)
THEOREM DhtInvariance == DhtSpec => []DhtInv
BY DhtStarts, DhtStep, PTL DEF DhtSpec

(* The cache holds no more than its limit and each key once, whatever is put,
   dropped or expires; the same of the bucket (_store, _bucket_put, get). *)
THEOREM DhtTypes == DhtSpec => []DhtTypeOK
BY DhtTyped, DhtInvariance, PTL

(* query(), get() and find_agents() never tell different things of one agent,
   for any agents, bridged names and sizes of cache and bucket (_store,
   _bucket_put, handle_message, _bucket_search). *)
THEOREM SurfacesNeverContradict == DhtSpec => []SurfacesAgree
<1>1. DhtInv => SurfacesAgree
  BY OneVersion DEF SurfacesAgree
<1>. QED  BY <1>1, DhtInvariance, PTL
=============================================================================
