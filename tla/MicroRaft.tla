----------------------------- MODULE MicroRaft -----------------------------
(***************************************************************************)
(* MicroRaft of coordination/raft.py: a cluster of nodes, each an asyncio  *)
(* object whose coroutines run one at a time and can be overtaken by any   *)
(* other wherever they await.  The only awaits that matter are those of    *)
(* _send_rpc, which the embedder supplies: it hands the request to the     *)
(* peer's handle_rpc and returns the reply, or None when either is lost.   *)
(*                                                                         *)
(* A campaign asks one peer at a time and holds at most one call           *)
(* (`campaign`).  AppendEntries calls are tasks of their own, so any       *)
(* number of them, old and new, wait for handling or carry a reply         *)
(* (`calls`); they are handled and answered in any order.  Two identical   *)
(* outstanding calls are one member of the set.                            *)
(***************************************************************************)
EXTENDS Least, Sequences

CONSTANTS Node, None,
          Campaigner,    \* nodes whose election timer may fire
          Command,       \* what is proposed
          MaxTerm,       \* bound: elections started
          MaxLog,        \* bound: length of a log a leader still appends to
          MaxCalls,      \* bound: outstanding AppendEntries calls
          Restarter      \* bound: nodes that restart, once each

ASSUME NodeAssumption == None \notin Node /\ Campaigner \cup Restarter \subseteq Node
ASSUME BoundAssumption == {MaxTerm, MaxLog, MaxCalls} \subseteq Nat

VARIABLES
  currentTerm, votedFor, log,     \* called persistent in the code, kept in memory
  role, commitIndex,
  applied,      \* entries given to the commit callbacks; last_applied is its length
  nextIndex, matchIndex,
  campaign,     \* the _start_election that is under way at a node
  calls,        \* outstanding AppendEntries calls
  restarted     \* nodes that have restarted

persistent == <<currentTerm, votedFor, log>>
leadership == <<nextIndex, matchIndex>>
commitment == <<commitIndex, applied>>
vars == <<currentTerm, votedFor, log, role, commitIndex, applied,
          nextIndex, matchIndex, campaign, calls, restarted>>

Entry == [term : 1..MaxTerm, command : Command]
Log == Seq(Entry)

Peers(n) == Node \ {n}
Majority == Cardinality(Node) \div 2 + 1

LastTerm(l) == IF l = <<>> THEN 0 ELSE l[Len(l)].term

(* No election under way.  `asked` is the peer whose answer is awaited. *)
Idle == [asked |-> None, todo |-> {}, votes |-> 0, term |-> 0,
         lastIndex |-> 0, lastTerm |-> 0, reply |-> "none"]

Init ==
  /\ currentTerm = [n \in Node |-> 0]
  /\ votedFor    = [n \in Node |-> None]
  /\ log         = [n \in Node |-> <<>>]
  /\ role        = [n \in Node |-> "Follower"]
  /\ commitIndex = [n \in Node |-> 0]
  /\ applied     = [n \in Node |-> <<>>]
  /\ nextIndex   = [n \in Node |-> [p \in Node |-> 1]]
  /\ matchIndex  = [n \in Node |-> [p \in Node |-> 0]]
  /\ campaign    = [n \in Node |-> Idle]
  /\ calls       = {}
  /\ restarted   = {}

------------------------------------------------------------------------------
(* Elections. *)

(* The next RequestVote of n's campaign c: the term is read again for every
   peer, the length and last term of the log are those of its start. *)
Ask(n, c, p, term) ==
  [c EXCEPT !.asked = p, !.todo = @ \ {p}, !.term = term, !.reply = "none"]

(* The election timer of a node that is no leader fires (_start_election). *)
StartElection(n) ==
  /\ n \in Campaigner
  /\ role[n] # "Leader"
  /\ campaign[n] = Idle
  /\ currentTerm[n] < MaxTerm
  /\ currentTerm' = [currentTerm EXCEPT ![n] = @ + 1]
  /\ votedFor' = [votedFor EXCEPT ![n] = n]
  /\ role' = [role EXCEPT ![n] = "Candidate"]
  /\ \E p \in Peers(n) :
       campaign' = [campaign EXCEPT ![n] =
         Ask(n, [Idle EXCEPT !.todo = Peers(n), !.votes = 1,
                             !.lastIndex = Len(log[n]), !.lastTerm = LastTerm(log[n])],
             p, currentTerm[n] + 1)]
  /\ UNCHANGED <<log, commitment, leadership, calls, restarted>>

(* handle_rpc: a newer term is adopted and ends leadership or candidacy; the
   vote given in the old term stays. *)
AdoptTermLeading(n, term) ==   \* mutant: a leader goes on leading
  /\ currentTerm' = [currentTerm EXCEPT ![n] = IF term > @ THEN term ELSE @]
  /\ role' = role

AdoptTerm(n, term) ==
  /\ currentTerm' = [currentTerm EXCEPT ![n] = IF term > @ THEN term ELSE @]
  /\ role' = [role EXCEPT ![n] = IF term > currentTerm[n] THEN "Follower" ELSE @]

(* The rest of _handle_request_vote, at a voter v whose term is adopted. *)
Grants(v, c, candidate) ==
  /\ c.term >= currentTerm[v]
  /\ votedFor[v] \in {None, candidate}
  /\ \/ c.lastTerm > LastTerm(log[v])
     \/ c.lastTerm = LastTerm(log[v]) /\ c.lastIndex >= Len(log[v])

HandleRequestVote(n) ==
  LET c == campaign[n]
      v == c.asked
  IN /\ v # None
     /\ c.reply = "none"
     /\ AdoptTerm(v, c.term)
     /\ votedFor' = [votedFor EXCEPT ![v] = IF Grants(v, c, n) THEN n ELSE @]
     /\ campaign' = [campaign EXCEPT ![n].reply =
                       IF Grants(v, c, n) THEN "granted" ELSE "denied"]
     /\ UNCHANGED <<log, commitment, leadership, calls, restarted>>

(* _start_election goes on with an answer or with None: it asks the next peer,
   becomes leader, or gives up.  Neither the state nor the term is looked at
   again. *)
ElectionGoesOn(n, granted) ==
  LET c == campaign[n]
      votes == IF granted THEN c.votes + 1 ELSE c.votes
  IN /\ \/ /\ granted /\ votes >= Majority
           /\ role' = [role EXCEPT ![n] = "Leader"]
           /\ votedFor' = [votedFor EXCEPT ![n] = None]
           /\ nextIndex' = [nextIndex EXCEPT ![n] = [p \in Node |-> Len(log[n]) + 1]]
           /\ matchIndex' = [matchIndex EXCEPT ![n] = [p \in Node |-> 0]]
           /\ campaign' = [campaign EXCEPT ![n] = Idle]
        \/ /\ ~(granted /\ votes >= Majority)
           /\ c.todo # {}
           /\ \E p \in c.todo :
                campaign' = [campaign EXCEPT ![n] =
                               Ask(n, [c EXCEPT !.votes = votes], p, currentTerm[n])]
           /\ UNCHANGED <<role, votedFor, leadership>>
        \/ /\ ~(granted /\ votes >= Majority)
           /\ c.todo = {}
           /\ role' = [role EXCEPT ![n] = "Follower"]
           /\ campaign' = [campaign EXCEPT ![n] = Idle]
           /\ UNCHANGED <<votedFor, leadership>>
     /\ UNCHANGED <<currentTerm, log, commitment, calls, restarted>>

VoteReply(n) ==
  /\ campaign[n].reply # "none"
  /\ ElectionGoesOn(n, campaign[n].reply = "granted")

(* The request or its answer is lost: _send_rpc returns None. *)
VoteLost(n) ==
  /\ campaign[n].asked # None
  /\ ElectionGoesOn(n, FALSE)

------------------------------------------------------------------------------
(* Replication. *)

(* _broadcast_append_entries: one call per peer, built from next_index.  A
   next_index beyond the leader's own log gives previous term 0.  A call that
   never gets through is not recorded: `reached` is the peers whose call does. *)
AppendCallOff(n, p, l) ==   \* mutant: previous index off by one
  LET prev == nextIndex[n][p] - 2
  IN [from |-> n, to |-> p, term |-> currentTerm[n],
      prev |-> prev,
      prevTerm |-> IF prev \in 1..Len(l) THEN l[prev].term ELSE 0,
      entries |-> SubSeq(l, nextIndex[n][p], Len(l)),
      commit |-> commitIndex[n], reply |-> "none"]

AppendCall(n, p, l) ==
  LET prev == nextIndex[n][p] - 1
  IN [from |-> n, to |-> p, term |-> currentTerm[n],
      prev |-> prev,
      prevTerm |-> IF prev \in 1..Len(l) THEN l[prev].term ELSE 0,
      entries |-> SubSeq(l, prev + 1, Len(l)),
      commit |-> commitIndex[n], reply |-> "none"]

BroadcastAppendEntries(n, l) ==
  /\ \E reached \in SUBSET Peers(n) :
       calls' = calls \cup {AppendCall(n, p, l) : p \in reached}
  /\ Cardinality(calls') <= MaxCalls

(* A turn of _leader_loop. *)
Heartbeat(n) ==
  /\ role[n] = "Leader"
  /\ BroadcastAppendEntries(n, log[n])
  /\ UNCHANGED <<persistent, role, commitment, leadership, campaign, restarted>>

(* propose: append and replicate at once. *)
Propose(n, command) ==
  /\ role[n] = "Leader"
  /\ Len(log[n]) < MaxLog
  /\ log' = [log EXCEPT ![n] = Append(@, [term |-> currentTerm[n], command |-> command])]
  /\ BroadcastAppendEntries(n, log'[n])
  /\ UNCHANGED <<currentTerm, votedFor, role, commitment, leadership, campaign, restarted>>

(* Where the entries es after place prev first disagree with l in term. *)
Conflicts(l, prev, es) ==
  {k \in 1..Len(es) : prev + k <= Len(l) /\ l[prev + k].term # es[k].term}

(* The for loop of _handle_append_entries: cut at the first conflict, then
   append what is beyond the log. *)
MergeLogAppends(l, prev, es) == l \o es   \* mutant: appends what is there already

MergeLogCuts(l, prev, es) == SubSeq(l, 1, prev) \o es   \* mutant: cuts without a conflict

MergeLog(l, prev, es) ==
  LET kept == IF Conflicts(l, prev, es) = {} THEN Len(l)
              ELSE prev + Least(Conflicts(l, prev, es)) - 1
  IN SubSeq(l, 1, kept) \o SubSeq(es, kept - prev + 1, Len(es))

(* The log consistency check. *)
ConsistentLength(l, m) == m.prev <= Len(l)   \* mutant: the term is not compared

Consistent(l, m) ==
  m.prev > 0 => m.prev <= Len(l) /\ l[m.prev].term = m.prevTerm

(* What taking the call m makes of its addressee's log and commit index. *)
TakenLog(m) ==
  IF Consistent(log[m.to], m) THEN MergeLog(log[m.to], m.prev, m.entries) ELSE log[m.to]

TakenCommit(m) ==
  IF Consistent(log[m.to], m) /\ m.commit > commitIndex[m.to]
  THEN IF m.commit < Len(TakenLog(m)) THEN m.commit ELSE Len(TakenLog(m))
  ELSE commitIndex[m.to]

(* _apply_committed: the entries up to c go to the commit callbacks. *)
Apply(n, l, c) ==
  applied' = [applied EXCEPT ![n] = @ \o SubSeq(l, Len(@) + 1, c)]

(* handle_rpc of AppendEntries.  The term of the call is never compared with
   the node's own: a stale leader's entries are taken like any other. *)
HandleAppendEntries(m) ==
  LET f == m.to IN
  /\ m.reply = "none"
  /\ AdoptTerm(f, m.term)
  /\ log' = [log EXCEPT ![f] = TakenLog(m)]
  /\ commitIndex' = [commitIndex EXCEPT ![f] = TakenCommit(m)]
  /\ Apply(f, TakenLog(m), TakenCommit(m))
  /\ calls' = (calls \ {m})
       \cup {[m EXCEPT !.reply = IF Consistent(log[f], m) THEN "ok" ELSE "fail"]}
  /\ UNCHANGED <<votedFor, leadership, campaign, restarted>>

(* _update_commit_index: the highest entry of the current term that match_index
   says a majority holds. *)
Replicated(n, match) ==
  {i \in commitIndex[n] + 1 .. Len(log[n]) :
     /\ log[n][i].term = currentTerm[n]
     /\ Cardinality({p \in Peers(n) : match[p] >= i}) + 1 >= Majority}

(* The answer reaches _send_append_entries.  Success is taken to mean that the
   peer holds the whole log as it is now, whatever the call carried; and the
   node need not be leader any more. *)
Acknowledged(m) == [matchIndex[m.from] EXCEPT ![m.to] = Len(log[m.from])]

AnsweredCommit(m) ==
  LET top == Replicated(m.from, Acknowledged(m))
  IN IF top = {} THEN commitIndex[m.from] ELSE CHOOSE i \in top : \A j \in top : j <= i

AppendReplyOk(m) ==
  LET n == m.from IN
  /\ m.reply = "ok"
  /\ matchIndex' = [matchIndex EXCEPT ![n] = Acknowledged(m)]
  /\ nextIndex' = [nextIndex EXCEPT ![n][m.to] = Len(log[n]) + 1]
  /\ commitIndex' = [commitIndex EXCEPT ![n] = AnsweredCommit(m)]
  /\ Apply(n, log[n], AnsweredCommit(m))
  /\ calls' = calls \ {m}
  /\ UNCHANGED <<persistent, role, campaign, restarted>>

AppendReplyFailStays(m) ==   \* mutant: next_index is not decremented
  /\ m.reply = "fail"
  /\ calls' = calls \ {m}
  /\ UNCHANGED <<persistent, role, commitment, leadership, campaign, restarted>>

AppendReplyFail(m) ==
  /\ m.reply = "fail"
  /\ nextIndex' = [nextIndex EXCEPT ![m.from][m.to] = IF @ > 1 THEN @ - 1 ELSE @]
  /\ calls' = calls \ {m}
  /\ UNCHANGED <<persistent, role, commitment, matchIndex, campaign, restarted>>

(* The call is lost on its way, or its answer is. *)
AppendLost(m) ==
  /\ calls' = calls \ {m}
  /\ UNCHANGED <<persistent, role, commitment, leadership, campaign, restarted>>

(* The process of n dies and starts again: nothing was stored.  Its own calls
   die with it; those of others may still reach it. *)
Restart(n) ==
  /\ n \in Restarter \ restarted
  /\ restarted' = restarted \cup {n}
  /\ currentTerm' = [currentTerm EXCEPT ![n] = 0]
  /\ votedFor' = [votedFor EXCEPT ![n] = None]
  /\ log' = [log EXCEPT ![n] = <<>>]
  /\ role' = [role EXCEPT ![n] = "Follower"]
  /\ commitIndex' = [commitIndex EXCEPT ![n] = 0]
  /\ applied' = [applied EXCEPT ![n] = <<>>]
  /\ nextIndex' = [nextIndex EXCEPT ![n] = [p \in Node |-> 1]]
  /\ matchIndex' = [matchIndex EXCEPT ![n] = [p \in Node |-> 0]]
  /\ campaign' = [campaign EXCEPT ![n] = Idle]
  /\ calls' = {m \in calls : m.from # n}

Next ==
  \/ \E n \in Node : StartElection(n)
  \/ \E n \in Node : HandleRequestVote(n)
  \/ \E n \in Node : VoteReply(n)
  \/ \E n \in Node : VoteLost(n)
  \/ \E n \in Node : Heartbeat(n)
  \/ \E n \in Node, command \in Command : Propose(n, command)
  \/ \E m \in calls : HandleAppendEntries(m)
  \/ \E m \in calls : AppendReplyOk(m)
  \/ \E m \in calls : AppendReplyFail(m)
  \/ \E m \in calls : AppendLost(m)
  \/ \E n \in Node : Restart(n)

Spec == Init /\ [][Next]_vars

(* Calls and answers may be lost, but not those between two nodes for ever: the
   loop of a leader that keeps calling gets through again and again. *)
Reached(n, p) == Heartbeat(n) /\ \E m \in calls' \ calls : m.to = p
Handled(n, p) == \E m \in calls : m.from = n /\ m.to = p /\ HandleAppendEntries(m)
Answered(n, p) ==
  \E m \in calls : m.from = n /\ m.to = p /\ (AppendReplyOk(m) \/ AppendReplyFail(m))

Fairness ==
  \A n \in Campaigner : \A p \in Peers(n) :
     SF_vars(Reached(n, p)) /\ SF_vars(Handled(n, p)) /\ SF_vars(Answered(n, p))

FairSpec == Spec /\ Fairness

------------------------------------------------------------------------------
Call == [from : Node, to : Node, term : 1..MaxTerm, prev : Nat, prevTerm : 0..MaxTerm,
         entries : Log, commit : Nat, reply : {"none", "ok", "fail"}]

Campaign == [asked : Node \cup {None}, todo : SUBSET Node, votes : Nat,
             term : 0..MaxTerm, lastIndex : Nat, lastTerm : 0..MaxTerm,
             reply : {"none", "granted", "denied"}]

TypeOK ==
  /\ currentTerm \in [Node -> 0..MaxTerm]
  /\ votedFor \in [Node -> Node \cup {None}]
  /\ log \in [Node -> Log]
  /\ role \in [Node -> {"Follower", "Candidate", "Leader"}]
  /\ commitIndex \in [Node -> Nat]
  /\ applied \in [Node -> Log]
  /\ nextIndex \in [Node -> [Node -> Nat \ {0}]]
  /\ matchIndex \in [Node -> [Node -> Nat]]
  /\ campaign \in [Node -> Campaign]
  /\ calls \subseteq Call
  /\ restarted \subseteq Restarter

Ordered(l) == \A i, j \in 1..Len(l) : i < j => l[i].term <= l[j].term

(* Log terms never fall along a log and never exceed the node's term, although
   entries of a stale leader are accepted and conflicts cut the log: the last
   term, by which _handle_request_vote judges how recent a log is, is the
   largest in it (_handle_append_entries, propose). *)
LogTermsOrdered ==
  \A n \in Node : Ordered(log[n]) /\ LastTerm(log[n]) <= currentTerm[n]

(* A leader leads in one term: it leaves its term only by ceasing to lead
   (handle_rpc, _step_down). *)
LeaderKeepsTerm ==
  [][\A n \in Node : role[n] = "Leader" /\ role'[n] = "Leader"
                        => currentTerm'[n] = currentTerm[n]]_vars

Prefix(a, b) == Len(a) <= Len(b) /\ a = SubSeq(b, 1, Len(a))

(* State machine safety while one node campaigns: no two nodes have given their
   commit callbacks different entries at one place, and what a node has applied
   is still in its log (_apply_committed, _update_commit_index). *)
StateMachineSafety ==
  /\ \A n, m \in Node : Prefix(applied[n], applied[m]) \/ Prefix(applied[m], applied[n])
  /\ \A n \in Node : Prefix(applied[n], log[n])

(* While one node campaigns, followers never diverge: whatever a follower holds,
   after conflicts, losses, stale calls and a restart, is the beginning of the
   leader's log (_handle_append_entries). *)
FollowersTrail ==
  \A n, p \in Node : role[n] = "Leader" => Prefix(log[p], log[n])

(* A command a leader has taken reaches every node's state machine, although a
   success reply pushes next_index past what the peer holds
   (_send_append_entries: the decrement on failure finds the way back). *)
ProposedIsApplied ==
  \A n \in Campaigner, i \in 1..MaxLog :
     (role[n] = "Leader" /\ Len(log[n]) >= i) ~> (\A p \in Node : Len(applied[p]) >= i)
==============================================================================
