------------------------------ MODULE Election ------------------------------
(* Elections of the small Raft over the pub/sub transport (phase0/raft.py), whose
   log replication is a stub: nothing in the repository gives it entries.

   Everything is published on the one topic _raft, which every node, the sender
   included, reads. The transport may lose a publication, overtake it with a later
   one, or deliver it again: a node may take any publication made so far, at any
   time and any number of times. *)
EXTENDS Phase0, Naturals, FiniteSets

CONSTANTS
  None,
  Campaigner,  \* the nodes whose election timeout runs out
  Stopper,     \* the nodes that are stopped
  MaxTerm      \* bound on the terms

ASSUME NoneAssumption == None \notin Node
\* A node without peers leads at once, which is left out.
ASSUME ClusterAssumption == IsFiniteSet(Node) /\ Cardinality(Node) > 1
ASSUME SubsetAssumption == Campaigner \subseteq Node /\ Stopper \subseteq Node
ASSUME BoundAssumption == MaxTerm \in Nat

VARIABLES
  state,
  currentTerm,
  votedFor,
  leaderId,
  votesReceived,
  running,      \* the nodes whose loops run: stop() ends those, not the subscription
  published     \* all messages ever published on _raft

vars == <<state, currentTerm, votedFor, leaderId, votesReceived, running, published>>

Init ==
  /\ state = [n \in Node |-> "follower"]
  /\ currentTerm = [n \in Node |-> 0]
  /\ votedFor = [n \in Node |-> None]
  /\ leaderId = [n \in Node |-> None]
  /\ votesReceived = [n \in Node |-> 0]
  /\ running = Node
  /\ published = {}

Request(n, term) == [type |-> "request_vote", term |-> term, candidate |-> n]
Response(n, term, c, granted) ==
  [type |-> "request_vote_response", term |-> term, candidate |-> c, granted |-> granted,
   from |-> n]
AppendEntries(n, term) == [type |-> "append_entries", term |-> term, leader |-> n]

\* Every node is on the list of peers, itself included.
VotesNeeded == (Cardinality(Node) \div 2) + 1

\* Whomever it is meant for, a message goes to the topic.
SendRaft(m) == published' = published \cup {m}

------------------------------------------------------------------------------
(* The election loop: the timeout is up and no heartbeat came lately. The requests
   are published in tasks of their own, one for each peer, all the same. *)
StartElection(n) ==
  /\ n \in running \cap Campaigner
  /\ state[n] # "leader"
  /\ currentTerm[n] < MaxTerm
  /\ currentTerm' = [currentTerm EXCEPT ![n] = @ + 1]
  /\ votedFor' = [votedFor EXCEPT ![n] = n]
  /\ votesReceived' = [votesReceived EXCEPT ![n] = 1]
  /\ state' = [state EXCEPT ![n] = "candidate"]
  /\ leaderId' = [leaderId EXCEPT ![n] = None]
  /\ SendRaft(Request(n, currentTerm'[n]))
  /\ UNCHANGED running

\* mutant: an equal term clears the vote too.
OutdatedOrEqual(n, term) == term >= currentTerm[n]

Outdated(n, term) == term > currentTerm[n]

HandleRequestVote(n, m) ==
  LET newer == Outdated(n, m.term)
      vote == IF newer THEN None ELSE votedFor[n]
      term == IF newer THEN m.term ELSE currentTerm[n]
      granted == m.term >= term /\ vote \in {None, m.candidate}
  IN /\ m.type = "request_vote"
     /\ m.candidate # n
     /\ currentTerm' = [currentTerm EXCEPT ![n] = term]
     /\ state' = [state EXCEPT ![n] = IF newer THEN "follower" ELSE @]
     /\ votedFor' = [votedFor EXCEPT ![n] = IF granted THEN m.candidate ELSE vote]
     /\ SendRaft(Response(n, term, m.candidate, granted))
     /\ UNCHANGED <<leaderId, votesReceived, running>>

\* mutant: answers of earlier terms count.
CurrentOrOld(n, m) == m.term <= currentTerm[n]

Current(n, m) == m.term = currentTerm[n]

BecomeLeader(n) ==
  /\ state' = [state EXCEPT ![n] = "leader"]
  /\ leaderId' = [leaderId EXCEPT ![n] = n]

\* mutant: a leader goes on counting.
CountingOn(n) == state[n] # "follower"

Counting(n) == state[n] = "candidate"

\* Whose request was answered is not looked at.
HandleResponse(n, m) ==
  /\ m.type = "request_vote_response"
  /\ Counting(n)
  /\ \/ /\ m.term > currentTerm[n]
        /\ currentTerm' = [currentTerm EXCEPT ![n] = m.term]
        /\ state' = [state EXCEPT ![n] = "follower"]
        /\ votedFor' = [votedFor EXCEPT ![n] = None]
        /\ UNCHANGED <<leaderId, votesReceived>>
     \/ /\ Current(n, m)
        /\ m.granted
        /\ votesReceived' = [votesReceived EXCEPT ![n] = @ + 1]
        /\ IF votesReceived'[n] >= VotesNeeded THEN BecomeLeader(n)
                                               ELSE UNCHANGED <<state, leaderId>>
        /\ UNCHANGED <<currentTerm, votedFor>>
  /\ UNCHANGED <<running, published>>

------------------------------------------------------------------------------
(* Heartbeats. *)

Heartbeat(n) ==
  /\ n \in running
  /\ state[n] = "leader"
  /\ SendRaft(AppendEntries(n, currentTerm[n]))
  /\ UNCHANGED <<state, currentTerm, votedFor, leaderId, votesReceived, running>>

\* mutant: a leader of the same term is not followed.
FollowsNewer(n, m) == m.term > currentTerm[n]

Follows(n, m) == m.term >= currentTerm[n]

\* The vote is kept, even when the term is a new one.
HandleAppendEntries(n, m) ==
  /\ m.type = "append_entries"
  /\ m.leader # n
  /\ Follows(n, m)
  /\ currentTerm' = [currentTerm EXCEPT ![n] = m.term]
  /\ state' = [state EXCEPT ![n] = "follower"]
  /\ leaderId' = [leaderId EXCEPT ![n] = m.leader]
  /\ UNCHANGED <<votedFor, votesReceived, running, published>>

\* Whatever is read on the topic goes to its handler: requests and heartbeats in
\* tasks of their own, responses at once.
OnRaftMsg(n, m) ==
  \/ HandleRequestVote(n, m)
  \/ HandleResponse(n, m)
  \/ HandleAppendEntries(n, m)

StopRaft(n) ==
  /\ n \in running \cap Stopper
  /\ running' = running \ {n}
  /\ UNCHANGED <<state, currentTerm, votedFor, leaderId, votesReceived, published>>

Next ==
  \/ \E n \in Node : StartElection(n)
  \/ \E n \in Node : Heartbeat(n)
  \/ \E n \in Node, m \in published : OnRaftMsg(n, m)
  \/ \E n \in Node : StopRaft(n)

Spec == Init /\ [][Next]_vars

(* A leader's loop publishes a heartbeat every half second, and some of them
   reach every node. *)
Hears(n, p) == \E m \in published : /\ m.type = "append_entries"
                                    /\ m.leader = p
                                    /\ m.term = currentTerm[p]
                                    /\ HandleAppendEntries(n, m)

FairSpec ==
  /\ Spec
  /\ \A n \in Node : WF_vars(Heartbeat(n))
  /\ \A n, p \in Node : WF_vars(Hears(n, p))

------------------------------------------------------------------------------
Message ==
  UNION { [type : {"request_vote"}, term : 1..MaxTerm, candidate : Node],
          [type : {"request_vote_response"}, term : 1..MaxTerm, candidate : Node,
           granted : BOOLEAN, from : Node],
          [type : {"append_entries"}, term : 1..MaxTerm, leader : Node] }

TypeOK ==
  /\ state \in [Node -> {"follower", "candidate", "leader"}]
  /\ currentTerm \in [Node -> 0..MaxTerm]
  /\ votedFor \in [Node -> Node \cup {None}]
  /\ leaderId \in [Node -> Node \cup {None}]
  /\ votesReceived \in [Node -> 0..VotesNeeded]
  /\ running \subseteq Node
  /\ published \subseteq Message
  /\ \A n \in Node : state[n] = "leader" => leaderId[n] = n

Granted(n, term, c) == Response(n, term, c, TRUE) \in published

(* In a term a node gives its vote to one candidate at most, itself if it stands,
   although it keeps the vote of an earlier term when it follows a new leader and
   answers every copy of a request (_start_election, _handle_request_vote,
   _handle_append_entries). *)
OneVotePerTerm ==
  \A n, c \in Node, term \in 1..MaxTerm :
     Granted(n, term, c)
       => /\ Request(n, term) \notin published
          /\ \A d \in Node : Granted(n, term, d) => d = c

(* Whoever has sent a heartbeat of a term asked for votes in that term, and some
   other node gave its vote in it, be it to another candidate
   (_handle_request_vote_response, _heartbeat_loop). *)
HeartbeatsAreElected ==
  \A n \in Node, term \in 1..MaxTerm :
     AppendEntries(n, term) \in published
       => /\ Request(n, term) \in published
          /\ \E v \in Node \ {n}, c \in Node : Granted(v, term, c)

Leading == {n \in running : state[n] = "leader"}

(* Two leaders do not last: once no more elections start, their heartbeats leave
   at most one of them (_heartbeat_loop, _handle_append_entries). *)
LeadersSettle == <>[](Cardinality(Leading) <= 1)

(* There is one leader in a term, as the test at phase0/raft.py:327 asserts. *)
OneLeaderPerTerm ==
  \A n, p \in Leading : currentTerm[n] = currentTerm[p] => n = p
==============================================================================
