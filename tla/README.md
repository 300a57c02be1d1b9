# Formal models of the P2P agent mesh

TLA+ models of the parts of this repository whose correctness depends on the
order in which things happen, the TLC configurations that check them, and
proofs, checked by TLAPS, of what matters most about them for every size of the
system. All of it is read off the code under `src/`; where the documentation
says something else, the code is what is modelled, and the difference is
reported below.

    tlc -workers 2 -config MCRelay.cfg MCRelay     # check a model
    tlapm RelayProofs.tla                          # check the proofs of a module

## 1. The system

Agents publish events, answer requests and coordinate through one another.
Everything is Python and asyncio: within a process one coroutine runs at a time
and another can overtake it at every `await`; callbacks run to their end.
Between processes there are TCP connections (or an RPC the embedder supplies)
that lose what is under way when they break.

| Component | State it keeps | Operations | Hard behaviours |
|---|---|---|---|
| **Consumer groups** `coordination/consumer_group.py` | per consumer and topic: subscription, offset, reordering buffer; members of a group in join order | join, leave, subscribe, broadcast, on_message, commit, get_state, load_state | messages out of order and repeated, gaps, one member raising, restarting from saved offsets |
| **MicroRaft** `coordination/raft.py` | term, vote, log, role, commit index, applied entries, next/match index | election, vote, heartbeat, propose, append, commit | overlapping and stale calls, campaigns overtaken by other terms, restarts with nothing stored |
| **Coordinator** `coordination/coordinator.py`, dedup log `coordination/dedup.py` | counter per topic, dedup rows in SQLite, a Raft node, groups | ordered_broadcast, _on_commit, create_group, cleanup | log replayed over old dedup rows, death between delivery and row, change of leader |
| **TCP relay server** `relay/server.py` | registry agent → connection, handler per connection | register, peers list, broadcast of the list, forwarding, end of a connection | several handlers of one agent, broadcasts overtaking each other |
| **TCP relay client** `relay/client.py` | connection, peers view, E2E sessions and attempts | connect, reconnect, e2e_establish, reading | late answers, crossing attempts, restarts |
| **WebSocket / HTTP relays** `relay/ws_relay.py`, `relay/http_*.py` | the same registry; per-agent queues in the HTTP one | register, send, poll, expire | polling against expiry |
| **Relay redundancy** `relay/redundancy.py` | list of relays, the active one | connect, reconnect, health | failover in the middle of use |
| **phase0 Raft** `phase0/raft.py` | term, vote, role, votes counted | election, vote, heartbeat, all over one topic | broadcast answers, repeated and late messages, two candidates |
| **P2P transport** `phase0/transport.py` | process-wide bus topic → callbacks, TCP connections by peer | publish, subscribe, unsubscribe, reconnect loop, relay mode, start, stop | flooding, connections that overlap and are renamed while in use, reconnection |
| **Agent SDK** `sdk/agent.py`, `sdk/chrono_agent.py` | subscriptions, topics, last message | listen, emit, query, request, reply_to, sync_on_reconnect | one reply topic for all requests, overlapping filters, catching up |
| **WAL and signature gate** `phase0/wal.py`, `phase0/ring_buffer.py`, `phase0/sig_gate.py`, `phase0/identity.py` | SQLite log, ring of system messages, rate windows | append, replay, prune, check | what is logged against what was refused |
| **DHT** `phase0/dht.py`, `phase0/dht_kademlia.py` | cache and buckets of agents; routing table | put, get, search, expiry | metadata overtaken or lost, two stores that forget on their own, restarts |
| **Secure handshake** `phase0/handshake.py` | session key | a straight-line exchange | message order only |
| **DePIN device** `depin/*.py` | telemetry log, Merkle tree, registry with time to live | connect, disconnect, reboot, publish, sync, append, cleanup, register, heartbeat | several objects of one device, late reboots, cleanup under a reader |
| **Reputation, chronology** `core/*.py` | SQL tables | weighted scores | none: arithmetic |
| **Adapters** `adapters/*.py` | handlers of RPC methods | serving requests; bindings to frameworks | handlers that answer late |
| **Nodes, CLI, pilots** | – | wiring and demonstrations | none of their own |

How they interact. `Coordinator` owns a `MicroRaft`, a `GroupCoordinator` and a
`DedupLog`: `ordered_broadcast` numbers a message and proposes it; Raft calls
`_on_commit` for every entry it applies, which asks the dedup log, broadcasts
to the group `cg:<topic>`, and writes the row. `AgentMesh` owns a transport, a
WAL, a signature gate, a DHT store and optionally a relay client. Relay clients
meet only through a relay server. `AgentMesh.listen` and `request` subscribe
callbacks at the transport, at most one per topic and node; `publish` calls the
callbacks of the process and writes to every TCP connection. `DePINDevice` owns
an `AgentMesh` and a log of its own, and shares one registry with the other
devices of its process.

What would make each part correct: a *consumer* delivers in order, holds back
no message that is next, loses none, and its saved offsets account for what it
handled; *Raft* keeps one order of commands at all nodes and applies what a
leader took; the *coordinator* delivers what is committed, everywhere in the
same order, and processes nothing twice; the *relay* never forwards to a dead
connection, every agent ends with the right list of peers, and both ends of an
E2E session hold the same key. The *SDK* lets each open subscription hear what it
listens for, in order and once, as far as links hold; a *request* gets its own
answer or the wrong one only for causes that can be named. The *transport* ends
up connected, never writes to a finished handler and floods along a tree without
repeats. In an *election* votes are single and leaders settle to one. The *DHT*'s
lookups agree and find who runs, with what it offers now. A *device* that is
listed is connected, its log loses nothing under a reader, and its Merkle root
says which messages it has.

## 2. Modules

| Module | Models | Built on |
|---|---|---|
| `Least` | least element of a set of naturals | – |
| `Stream` | one consumer's view of one topic: the methods of `ConsumerGroup` as functions | `Least` |
| `ConsumerGroup` | one group, its members, their streams, crashes | `Stream` |
| `MicroRaft` | a cluster of `MicroRaft` nodes and its RPC | `Least` |
| `Coordinator` | a `Coordinator` per node: dedup log and consumer over Raft | `Stream`, `INSTANCE MicroRaft` with messages for commands |
| `Relay` | relay server and clients | – |
| `PubSub` | abstract: what listening and emitting promise, whatever is below | – |
| `AgentMesh` | agents with subscriptions, log, gate and links that break | implements `PubSub` |
| `MeshRPC` | requests and answers on top of it | `AgentMesh` |
| `Phase0` | the nodes of the two modules below | – |
| `Transport` | TCP connections, renaming, reconnect loops, relay mode | `Phase0` |
| `Election` | the Raft of `phase0`: elections and heartbeats | `Phase0` |
| `Discovery` | metadata of agents in cache and buckets | – |
| `Merkle` | tree and difference of two logs, as functions | – |
| `Device` | device objects, telemetry log, registry, gateway, reader | `Merkle` |
| `StreamProofs`, `ConsumerGroupProofs`, `MicroRaftProofs`, `RelayProofs`, `DeviceProofs` | theorems | the module of the name |
| `Phase0Proofs` | theorems about elections, connections and metadata | `Election`, `Transport`, `Discovery` |
| `CoordinatorProofs` | theorems, among them that a coordinator's Raft is `MicroRaft` | `Coordinator`, `StreamProofs`, `INSTANCE MicroRaftProofs` |
| `MeshProofs` | theorems about agents and their requests, among them the refinement of `PubSub` | `MeshRPC` |
| `MC*` | model values and symmetry | the module of the name |

`PROJECT.json` maps every definition to the lines it stands for. Operators
marked `\* mutant` are what a plausible bug would make of the definition below
them; no specification uses them.

### ConsumerGroup and Stream

A method of `ConsumerGroup` touches one topic only, so a consumer is a function
from topics to *streams* and `Stream` has the methods as functions from the old
slice to the new one: `on_message` (`OnMessage`, with `Buffer` for append and
stable sort, `FlushBuffer` for the loop of `_flush_buffer`), `subscribe`,
`commit`, and the constructor (`Opened`). `Raises` says when `on_message` ends
in a `KeyError`; the offset it moved first stays moved.

`GroupCoordinator` is the state machine: `members` is the order of the dict
`broadcast` walks, `stream[c][t]` the streams, `saved` the offsets the
application kept from `get_state()`. The environment is any caller: every
number may come in any order and again; the process may crash and the
application either joins anew or reopens a consumer with `load_state`, which
makes an object outside the group (`OnMessageDirect`).

Left out: callbacks that call back into the consumer (a `commit` inside a
callback is overwritten at `consumer_group.py:71`), and the `offset_store` dict
being shared with its caller.

### MicroRaft

`_send_rpc` (`raft.py:460`) always returns `None`, so the class works only
where an embedder overrides it, as the tests do. The model takes such an RPC:
it hands the request to the peer's `handle_rpc` and returns the reply, or loses
either. `_start_election` awaits one peer after the other, so a campaign holds
at most one call, and everything else may happen at the node meanwhile.
`AppendEntries` calls are tasks of their own: `calls` is the set of those that
wait for handling or for their answer to be read, in any order; a deposed
leader's old call may be handled long after. Each action is a stretch of code
between two awaits: `StartElection`, `HandleRequestVote`, `VoteReply`/`VoteLost`,
`Heartbeat`, `Propose`, `HandleAppendEntries` (with `_apply_committed`),
`AppendReplyOk` (with `_update_commit_index`), `AppendReplyFail`, `AppendLost`,
`Restart` (the code calls term, vote and log persistent and stores none of
them).

Deliberate readings of the code: `voted_for` is not reset when a higher term is
adopted; `_become_leader` clears it; an `AppendEntries` of an old term is taken
(its term is never compared); a success reply sets `match_index` to the length
of the leader's log *when the reply comes*. Two identical outstanding calls are
one. Left out: the unused inbox, timestamps, nodes that list themselves among
their peers.

### Coordinator

The Raft of `MicroRaft`, step for step through `INSTANCE`, and per node the
counter `_topic_seqs`, the dedup rows, and one consumer of the group
`cg:<topic>`, the only group `_on_commit` looks at. Every entry a Raft step
applies goes through `OnCommit` in that same step, one after the other
(`OnCommits`), because `_apply_committed` calls the callbacks without awaiting. `DieBeforeMark` is the death of the
process inside `_on_commit`, between the delivery and the row. Rows expire in
the order they were written (one time to live for all), an expired row does not
count but keeps a new one out until `Cleanup` (`INSERT OR IGNORE`).

Observation variables: `reached` (what the callbacks of a node were given, over
all its restarts), `excused` (numbers whose row expired or was lost in
`DieBeforeMark`), `late` (nodes that applied something with nobody subscribed).

Left out: commands that are not messages, which `_on_commit` ignores, leaving
the group, groups `_on_commit` does not reach, and a dedup file the caller has
not named (that one dies with the process).

### Relay

`phase[c]` is where the server's `_handle_client` of connection `c` stands:
waiting for the registration, greeting (the newcomer's list), announcing (the
snapshot of `_broadcast_peers_update`), serving, left; `tell[c]` is whom the
broadcast of that handler has still to send to. A handler can be overtaken at
every send, and only there: the lock of the registry is never held over an
await that yields, so a list and the write that carries it are one step
(`Tell`), and the `pop` in the `finally` clause and the snapshot after it are
one (`End`). The list is made when its turn comes, the receivers are fixed
before. The registry is keyed by the agent: `Register` overwrites and `End`
removes whatever connection the entry names.

A client reads one connection (`current`), notices a break on its own
(`NoticeCut`) and opens the next (`Connect`), so the server may still serve the
old one. What is under way on an abandoned connection is dropped. Of
consecutive peers lists on a connection only the last is kept, since the client
overwrites its view with each. An ephemeral key is a number, and a derived key
the pair of the initiator's and the responder's, so two sessions agree exactly
when they come from one exchange.

Left out: data messages (they change no state of the relay, and nothing is
promised of them), rate and connection limits, `stop()`, and one agent making
several attempts at the same peer at the same time.

### AgentMesh, MeshRPC and PubSub

Every agent is a process with one transport. `bus[a]` holds the one callback per
topic the transport keeps (`Subscribed` skips a topic that is there, as
`subscribe` does); `chan[a][b]` is what is under way on the link of two
processes, in order, and `Cut` loses it in both directions. `emit` appends to
the agent's own log, calls its own callback if it listens, and writes to the
links: `Emit` is all three, since nothing that concerns another agent can come
between them. `_route_message` is `RouteMessage`: gate, log, time of the last
message, callbacks, in that order; the gate counts a sender's messages, and once
the limit is used up whether the next one passes depends on when it comes
(`Verdicts`). `Active` is the test of `_cleanup_topic`: one capability of the
cancelled filter that somebody still wants keeps *all* its topics.
`SyncOnReconnect` replays rows later than the last message received; rows of the
log have no column for the capability, so `Matches` sees none and only
subscriptions without a filter get them. The topics are those of a Python set:
`ReplayOrder` lets them come in any order, each with its rows by time
(`DispatchedAgain`).

`MeshRPC` adds `request` (`MakeRequest`, then `Return` or `TimeOut`, both of
which unsubscribe the reply topic whoever holds it), the serving end of
`langgraph_channel.py` (`Serve`, `ReceiveRequest`, a task per request in
`tasks`), and `reply_to`. `on_reply_raw` takes any answer on the topic: nothing
in it names the request.

`PubSub` says what somebody who listens for capabilities may rely on: of each
emitter, its capabilities only, in order, none twice, and nothing after
`cancel`. `KeepsPromise` is the refinement `MeshRPC => PubSub` with `heard` the
subscriptions with a filter, each under the place it has in the SDK's list, so
that those without a filter can be left out. Messages may be lost; when they may
not is `ListenersHear`.

Left out: `stop()` (a stopped agent is in `Discovery`), `prune` and the ring
buffer (called by nobody, or read by nobody), topics given to
`sync_on_reconnect` explicitly.

### Transport

`conns[c]` is one TCP connection with its two ends, each of which finds out on
its own that it broke (`ClientEnd`, `ServerEnd`), and what is under way each
way; `table[n]` is `_tcp_connections`, the connection each peer id writes to.
The accepting end enters a peer under the id of its hello, under its address if
none comes in time (`HelloTimeout`), and under the sender's node id with the
first publication (`Renamed`, which drops whatever the old name has by then); the
dialing end under the id it was configured with. `Leaves` is the `finally`
clause. `_tcp_broadcast` writes to every entry; a relay node passes on what it
reads. `Stop` and `Start` are a node that is stopped and made again. `pubs`
remembers of each publication who made it and whether all dials were connected
at both ends then (`Whole`), `got` how often each node's bus got it.

Left out: TLS, pings, answers to hellos (the dialing end waits at most three
seconds for one and goes on either way), and notices of subscriptions, on which
no receiver acts.

### Election

All messages are published on one topic that everybody reads, so `published` is
the set of those ever sent (`SendRaft`) and a node may take any of them at any
time, again, or never: lost, repeated and late in one. An answer does not say
for whom it counts, or rather nobody looks: `HandleResponse` compares terms.
`_handle_append_entries` follows a leader of an equal term and keeps the vote it
has. `running` are the nodes whose loops run; `stop()` leaves the subscription,
so a stopped node goes on voting. Left out: a node without peers, which leads at
once, and the log, which nothing in the repository gives entries.

### Discovery

`version[a]` stands for the capabilities of an agent: a new one with each start.
`cache[a]` is the ordered dict and `bucket[a]` the bucket of `dht.py`; all names
fall into one bucket, the case where they compete. `HandlePut` stores in both
whatever comes, old or new. `OnUnsigned` is the second half of `_on_dht_msg`: a
trusted name without a signature is stored too, and the agent may answer with
its own metadata. `Query` (which looks at no expiry), `Lookup` and `FindAgents`
are what the three ways of asking return. `started` are the agents that run.

### Merkle and Device

`Merkle` has the tree as functions: hashes are terms, so two roots are equal
exactly when the trees are. The loop of `_build` is `Levels`, which goes on as
often as there are messages: a level of one is its own next level. `Device` has the objects `DePINDevice` of one device
that may overlap in a process, sharing the log's file and one registry entry.
`connect` and `disconnect` await the mesh in the middle (`ConnectStart` /
`Connected`, `Disconnect` / `Stopped`); the task of a reboot command runs at any
later time (`OnCommand`, `Reboot`). The log is a set of rows that a query puts in
order (`InOrder` is `ORDER BY seq`); `Appended` is `INSERT OR IGNORE` on the hash
of content and time. `held` is a gateway that hears some of the telemetry,
`mark` and `read` a reader that asks for what comes after the last row it has.
`GetAll` has the code's limit, as a constant. Left out: events, heartbeats and
the status of a device, and `get_proof`.

## 3. What is checked

All runs explore every reachable state within their bounds.

| Run | Instance | Shows | Distinct states |
|---|---|---|---|
| `consumer_group` | 2 consumers, 1 topic, numbers 1–3, at most 2 buffered | `OrderedDelivery`, `NothingDropped`, `NoHeadOfLineBlock`, `OffsetsAccountFor` | 1,604,396 |
| `raft` | 3 nodes, 2 of them campaign, 2 terms, logs to 2, 1 call under way | `LogTermsOrdered`, `LeaderKeepsTerm` | 944,799 |
| `raft_stable` | 3 nodes, 1 campaigns, 1 restarts, 2 commands, 2 calls under way | `StateMachineSafety`, `FollowersTrail` | 1,224,942 |
| `raft_progress` | 3 nodes, 1 campaigns, 1 restarts, fairness | `ProposedIsApplied` | 25,186 |
| `coordinator` | 2 nodes, 1 campaigns, both restart, 2 broadcasts | `SameOrderEverywhere`, `ProcessedOnce`, `DeliversTheLog` | 745,665 |
| `relay` | 2 agents, 1 initiates, 3 connections, 1 break, 2 keys | `NoDeadEntries`, `PeersSettle`, `SharedKey` | 3,256,460 |
| `agent_mesh` | 2 agents, 2 capabilities, 3 filters, 2 calls of listen or request, 3 messages, 1 cut | `ListenersHear`, `MissedStaysMissed`, `AnswersExplained`, `SoloIsListening`, `KeepsPromise` | 863,761 |
| `transport` | 2 nodes dial a relay, 4 connections, 2 publications, 2 breaks or a stop | `NoDeadWriters`, `FloodReachesOnce`, `DialersReconnect` | 1,136,050 |
| `device` | 2 objects, 1 metric, 4 rows of which `get_all` gives 3, times 0–3 | `RegisteredIsConnected`, `ReaderMissesNothing`, `RootTellsMessages`, `DiffCompletes` | 4,936,259 |
| `election` | 3 nodes, 2 candidates, 1 stops, 2 terms | `OneVotePerTerm`, `HeartbeatsAreElected`, `LeadersSettle` | 199,278 |
| `discovery` | 2 agents with 2 starts each, a bridged name, 2 places in the cache | `SurfacesAgree`, `Converges` | 197,399 |
| `election_leaders` | as `election`, nobody stops | violates `OneLeaderPerTerm` | – |

Most passing runs also check the type invariant of their module: not
`raft_stable` and `raft_progress`, whose module `raft` checks, nor `transport`.

**Why the bounds are enough to be interesting.** Three numbers give a gap, a
message ahead of the gap and one that closes it, in every order; a stream's
buffer of two holds the case where the head blocks what is behind. Two terms
and two campaigners give a deposed leader with a log of its own; with one
campaigner, two calls under way at once are what lets an old call be handled
after a newer one. In `coordinator` two messages over one dedup file are
enough to replay a log with one message remembered and one not; larger
instances (3 messages with one restart each, 3 messages and 3 log entries with
one restarting node, 2 calls under way) were explored too and agree. In `relay` three connections
for two agents give one agent two overlapping handlers, and the break can be a
restart; that an initiator's peer may itself be reconnecting is covered as
either of the two may own the second connection. In `agent_mesh` two
subscriptions may overlap, nest or leave the filter out, one capability comes
over the link and the other from the listener itself; three messages are a
request, its late answer and an event around them, or two events and what is
replayed of them; a rate limit of two is used up by the third message. In `transport` four connections
give each dialer a second one that overlaps with the first, or one of them a
third; with a relay in the middle a publication makes two hops. In `device` the
fourth row is the one `get_all` no longer returns, and three ticks let rows
expire, be cleaned up and be followed by others. In `election` the second term
gives votes, answers and heartbeats of an old term to be taken in a new one, and
two candidates of one term. In `discovery` the three names compete for two
places in the cache, and the second start of an agent gives old metadata that
arrives after the new. The bounds (`MaxSeq`, `MaxPending`, `MaxTerm`, `MaxLog`,
`MaxCalls`, `MaxBroadcasts`, `MaxConn`, `MaxConns`, `MaxCuts`, `MaxKeys` of `Relay`,
`MaxMsgs`, `MaxPubs`, `MaxBreaks`, `MaxTime`, `MaxRows`, `MaxVersion`, `MaxBridged`) are guards of
actions only and listed among the constants of each module. Deadlock is not
checked where they, or lost votes, can use the system up.

**Symmetry** is used for consumers, for nodes of one role, for device objects, and
for agents where both play the same part; never in the run with a liveness property.

**Preconditions are part of the properties.** `StateMachineSafety` and
`FollowersTrail` are stated for one campaigner: commitment is premature
(difference 2 below), and with a second leader a committed entry can be
overwritten. `NoHeadOfLineBlock` holds while no number
came twice and no `commit` moved the offset: a duplicate that is ahead is
buffered twice, and its second copy blocks the buffer. `SharedKey` excludes
crossing and repeated attempts and restarts: a late `e2e_ready` settles a later
attempt, and sessions outlive the peer's process. `FloodReachesOnce` is about a
tree of peers, in which no two dial each other: a cycle of relays repeats a
publication for ever, since nothing in it names it. When connections break it
speaks of a single relay, and not of the publisher: a relay leaves out of a
broadcast the one name it read from, so what it reads late on the older of two
connections of a peer goes back on the newer, to the publisher or to another
relay. `AnswersExplained` says which wrong answers there can be.
`Converges` asks that the cache has room for the agents that run.
`DiffCompletes` asks that the other side lacks only the newest messages, for
`compute_diff` counts and does not compare.

**Refinement.** `KeepsPromise` (run `agent_mesh`) is `PubSub`'s specification with
what the subscriptions with a filter have heard substituted for `heard`: every
step of the SDK, of a request, and of the network is a step of `PubSub` or
leaves it unchanged.

**Fairness** is assumed in four runs. `raft_progress`: for each leader and peer: a heartbeat to
the peer happens, a call that is out is handled, and an answer is read, again
and again if again and again possible (strong fairness: single calls and
answers may be lost, each time). The code justifies the first by
`_leader_loop`, which never stops calling while it leads; the other two are
what the embedder's RPC must offer: two nodes are not cut off for ever. Nothing
is assumed of elections, restarts or proposals; the property speaks only of a
node that leads. `transport`: every task that can go on does (weak fairness of
dialing, of the two ends of a connection, and of the wait for a hello): that is
asyncio's event loop, and a reconnect loop whose sleep is at most 30 seconds.
Nothing is assumed of publishing, breaks, stops and starts; a node that stays
down for ever is excused by the property. `election`: a leader's loop publishes
heartbeats, and one of each leader's is at some time read by each node; nothing
of elections, which the bound on terms ends, so `LeadersSettle` speaks of what
is left after the last one. `discovery`: the republish loop, and that not every
publication of an agent to another is lost (strong fairness, for each one may
be).

## 4. What is proved

For every value of the constants that meets the assumptions the modules declare,
and, where it says so, one hypothesis more:

* **Consumer groups** (`ConsumerGroupProofs`): `TypeCorrect`,
  `DeliveryOrdered`, `BufferRetains`, `BufferReleases`, `OffsetsAccounted`.
  The invariant gives every stream `StreamInv`: delivered numbers rise and do
  not pass the offset, everything seen is behind the offset or buffered, there
  is no buffer without a subscription, and, while the stream is clean, the
  buffer rises strictly and stays *above the next expected number*. This last
  part is the strengthening `NoHeadOfLineBlock` needs. `_flush_buffer` breaks
  it for a moment (the offset has moved to the head of the buffer), so
  `StreamProofs` proves it of the loop's result from a weaker bound
  (`BufferAbove(s, s.offset)` on entry, `FlushKeepsInv`), and of the
  insertion sort (`BufferKeepsInv`). Offsets are accounted for along the run
  of numbers a flush delivers (`FlushDelivers`).
* **MicroRaft** (`MicroRaftProofs`): `Typed`, `TermsOrdered`
  (`LogTermsOrdered`), `LeaderTermKept` (`LeaderKeepsTerm`). A follower takes
  the entries of arbitrarily old calls of any leader, so that its own log is
  ordered is not inductive: `TermInv` says of every *call under way* too that
  its entries climb, start no lower than the term at the place they follow and
  end no higher than the call's term. `MergeSound` then shows that cutting at a
  conflict and appending keeps a log in order, and `AdoptRaises` that the
  receiver's term has caught up with the call's.

  While one node campaigns and does not restart (`Campaigner = {L}`,
  `L \notin Restarter`), whatever the others do: `FollowersFollow`
  (`FollowersTrail`) and `OneStateMachine` (`StateMachineSafety`). Both come
  from `TrailInv(L)`: nobody else leads or asks for votes, every call under way
  is a copy of a part of `L`'s log, `next_index` is at most one beyond it, every
  log is a beginning of `L`'s, and what is applied is a beginning of the log.
  Premature commitment (difference 2 below) does no harm then, for no call ever
  conflicts with a log. Without the hypothesis they are false: a leader that
  restarts has lost its log, and in a larger cluster than those of the runs it
  writes another.
* **Coordinator** (`CoordinatorProofs`): `ImplementsRaft` is the refinement:
  each step is a step of `MicroRaft` with messages for commands, or leaves it
  alone, also where the process dies inside `_on_commit`; what is proved of
  `MicroRaft` therefore holds of a coordinator's Raft. `CoordinatorTyped` and
  `AtMostOnce` (`ProcessedOnce`) follow from `CoordInv(D)`, which holds for some
  set `D` of messages at all times: one for each call of `ordered_broadcast`,
  and all that Raft carries and any node was given is from `D`; and, node by
  node (`SiteInv`), whatever the callbacks were given *or the stream still
  buffers* has a row or is excused, and is there once unless it is excused.
  The buffer must be in it, since a buffered message is marked long before it
  is delivered. `OnCommits` applies several entries in one step; `OnCommitsReach`
  goes from one to the next.

  Under the hypothesis on the campaigner above: `OneOrder`
  (`SameOrderEverywhere`) and `DeliversRaft` (`DeliversTheLog`), from
  `LeaderInv`: the counter of the topic is the length of `L`'s log, the number
  of a message is its place there, and a node that was listening from the start
  has delivered just what Raft has applied (`Straight`). The run `coordinator`
  lets the leader restart too, with two nodes.
* **phase0 Raft** (`Phase0Proofs`): `ElectionTyped`, `SingleVote`
  (`OneVotePerTerm`), `HeartbeatsElected` (`HeartbeatsAreElected`), for any
  cluster of two or more. `OneVotePerTerm` speaks of answers ever published,
  while a voter looks only at `voted_for`, which outlives terms. `Bound` ties
  the two together in the term a node is in, `Reached` says that nobody has
  voted or stood in a later term, and `Standing` that a candidate has published
  its request, lacks a vote, and that a leader has that of another node.
* **Relay** (`RelayProofs`): `TypeCorrect`, `RegistryServed`
  (`NoDeadEntries`), `ListsSettle` (`PeersSettle`). `PeersSettle` speaks only
  of moments of rest. What holds in between is `Settling`: of each registered
  connection in use that is not broken, the last list under way, or the view
  when none is, is the right one – or somebody will tell it: a handler that is
  about to announce, or one whose `tell` names the connection. Each change of
  the registry (`Register`, `End`) must therefore start a broadcast whose
  snapshot covers everybody registered, and a list sent too early must be
  followed by another; that is what the proof of `SettlingStep` checks, action
  by action. `Owned` and `ListsExclude` say that connections in use belong to
  their agent and that no list names its receiver.

  `KeysAgree` (`SharedKey`) is proved of each two agents. That they hold the same
  key at the end depends on every stage before: `Exchange` says that, as long as
  `a` has tried once and nobody else, its request is in one place only, above or
  below the server; that nothing else of the exchange exists meanwhile; and that
  an answer under way, or read, carries the key of the session the other end
  made of it. `Untried` says the channels start empty of it, and
  `OwnRegistrations` keeps the server from handing it to a connection of somebody
  else.

* **Agents and requests** (`MeshProofs`): `RpcTyped`, `MissedStay`
  (`MissedStaysMissed`), `EveryListenerHears` (`ListenersHear`), `SoloListens`
  (`SoloIsListening`), `AnswersAreExplained` (`AnswersExplained`) and
  `PromiseKept`, the refinement `KeepsPromise`, for any agents, capabilities,
  filters, callers and servers. `MeshInv` is about messages, callbacks and
  requests at once, since each needs the others:
  * `Traffic`: a message's number is its own and it is in its sender's log; on a
    link messages rise; what is under way to an agent, or was missed by it, is
    neither in its log nor heard. That is what keeps a *replay* from bringing
    back what was missed: a row that is replayed has come through the gate.
  * `AllGenuine`: what the requests and answers in the logs stand for.
  * `Callbacks`: a callback on a reply topic belongs to a request of that agent
    that still waits, `Covered`: the topics of an open subscription have one.
    `_cleanup_topic` unsubscribes all topics of a filter or none, and `Covered`
    is why that never deafens another subscription.
  * `AloneStays`: when a request was alone, no earlier one of its agent waits
    afterwards.

  `ListenersHear` is then inductive together with it: subscriptions stay or are
  new (`OldEars`), what leaves a link is heard or missed (`LeavesLinks`), a new
  event is on its links, heard or missed (`NewEvents`). For
  `AnswersExplained` there are two more: `Explained` (an answer comes from the
  agent's own requests, and from a later one only if that overlapped) and
  `AnsweredOnce`: with one server, a request is in *one place* – under way to
  the server, in the hands of its task, its answer under way back, or with a
  request – so that no two requests ever hold the same answer. Each place is
  counted by where on the link it stands, since a link could carry it twice.

  For the refinement one more is needed, `LinksBringNews`: what is under way to an
  agent is later than all that its subscriptions with a filter have heard of the
  sender, and was emitted. Each step is then `Listen`, `Cancel`, `Emit` or `Hear`
  of `PubSub`, or is not seen there (`StepPromises`); a replay is not seen because
  rows of the log have no capability, so it reaches only subscriptions without a
  filter (`SyncPromises`).
* **Device** (`DeviceProofs`): `DeviceTypes`, `ListedIsConnected`
  (`RegisteredIsConnected`), `ReaderGetsAll` (`ReaderMissesNothing`), `RootsTell`
  (`RootTellsMessages`) and `DiffsComplete` (`DiffCompletes`), for any number of
  objects, rows and messages and any times to live.
  * The invariant adds `Ordered`: rows have seqs of their own, none above
    `lastSeq`, and the reader's mark is not above it either, so what is appended
    after a cleanup is still after the mark. `InOrderEnumerates` proves that
    `ORDER BY seq` lists each row once, by rising seq: a row's place is the number
    of those before it.
  * The levels of a tree are a recursive function; that it has values for every
    log is `TowerExists`, and that its levels shrink to a root within as many
    steps as there are messages is `TowerHeight`. A level of two and more and the
    level above determine each other's elements (`PairsShape`, `RangeBelow`), so
    two logs with one root have the same elements level by level, down to the
    messages (`RootsDiffer`); they cannot run out at different heights, since a
    leaf is never a pair. A root does not tell a message that is there twice:
    `DiffsComplete` needs that no message is in the log twice (`Distinct`), which
    `INSERT OR IGNORE` keeps. Induction is over sets of numbers (`ReachesAll`),
    from the well-foundedness of `<`, and not by the library's induction rules,
    which the provers cannot instantiate.
* **Connections and flooding** (`Phase0Proofs`): `NoWriterIsDead`
  (`NoDeadWriters`) for any dials and relays, and `FloodsOnce`
  (`FloodReachesOnce`) for any tree of peers, with any relays inside it.
  * The first follows from `TcpInv`: connections keep their ends, and an entry of
    an accepting end's table is a connection whose handler runs.
  * The second has the hypothesis `PeersAreTree`: no two nodes dial each other,
    and around each publisher there is a tree, `Up`, that leads each other node to
    a peer nearer to the publisher, which is the publisher or a relay.
    `FloodInv` says of each publication, while connections hold or around a
    single relay, that it is under way only from nodes that have it, and down the
    tree unless it comes back to the publisher (`Down`); that it is under way to a
    node at one place at most, and then the node lacks it, and that whoever is
    below a node that lacks it lacks it too (`Single`); and, if it was made when
    all was connected and connections hold, that it is under way to each node that
    lacks it and is below one that has it (`Arrived`), since all dials stay
    connected (`Connected`). So when nothing is
    under way, a node without it nearest to the publisher would be below one that
    has it (`QuietReaches`).
  * A relay leaves out the *name* it read from. That this is the only name of
    that connection, and that a dial has one connection that works, is `NetInv`:
    at the dialing end a name is the peer's node id, at the accepting end the key
    of the handler (`Name`), before which the line starts with the hello
    (`Greets`), and a connection has one name in a table (`OneLine`).
* **Metadata** (`Phase0Proofs`): `DhtTypes` (`DhtTypeOK`) and
  `SurfacesNeverContradict` (`SurfacesAgree`), for any agents and any sizes of the
  two lists. `DhtInv` says that a key is once in a list (`Unique`), and that an
  agent's cache and bucket, wherever both have a key, have one version of it
  (`Lists`): every put goes to both.

The assumptions say that roles are subsets of nodes or agents, bounds natural
numbers, `None` no node or agent, `Server` finite and a cluster of at least two:
what the modules' constants mean. Listing the properties by how they stand:

* proved, and checked by a run: all but those below; with the hypothesis named:
  `StateMachineSafety`, `FollowersTrail`, `SameOrderEverywhere`, `DeliversTheLog`
  and `FloodReachesOnce`. The run `transport` has one relay in the middle of its
  tree; that several in a row pass on everything once, while connections hold, is
  the theorem's;
* beyond the prover: `ProposedIsApplied`, `DialersReconnect`, `LeadersSettle` and
  `Converges`, which are liveness under fairness.

None of the modules declares a recursive operator.

## 5. Differences between the code and what is said of it

Shown by a run:

1. *phase0 Raft.* The test at `phase0/raft.py:327` asserts one leader. A vote
   response is read by all and counted by every candidate of its term, whomever
   the vote was given to, so one vote makes two leaders of one term
   (`election_leaders`); they settle to one again (`LeadersSettle`).

Found while modelling, and in the models, each of which takes the code as it is:

2. An entry is said to be committed when a majority confirms it (`coordination/raft.py:11`).
   A success reply counts the log as it is when the reply comes
   (`AppendReplyOk`): the answer to an empty heartbeat that arrives after a
   `propose` commits an entry only the leader holds.
3. What is committed is said to be delivered (`coordinator.py:97`). A new
   leader numbers a topic from 1 again, and every node takes its messages for
   duplicates.
4. `broadcast` is said to send to all members of a group
   (`consumer_group.py:186`). A member that has joined and not subscribed makes
   it raise for any later number, and the members after it get nothing
   (`Raises`, `Reached`).
5. Both agents are said to compute one session key (`relay/SPEC.md:57`). When
   each tries the other at the same time they keep two different ones.
6. Who registers is said to be in the list of peers (`relay/SPEC.md:97`). An
   agent that has reconnected loses its entry when the server comes to its
   older connection (`End`).
7. `request` is said to wait for the answer (`sdk/agent.py:383`). An answer that
   comes late serves the next request of the agent, and of two requests that
   overlap the second never hears its own (`AnswersExplained`).
8. `sync_on_reconnect` is said to catch up on what was missed
   (`sdk/agent.py:456`). It replays only what the agent had received or sent
   itself, and to subscriptions with a filter nothing at all
   (`MissedStaysMissed`).
9. The last `cancel` is said to unsubscribe (`sdk/agent.py:58`). One capability
   of a filter that somebody else wants keeps the topics of the others
   (`Active`).
10. The device is called offline-first (`depin/device.py`). `disconnect` closes
   the log and nothing opens it again, so `publish_telemetry` raises from then
   on, connected or not (`Stopped`, `Connected`).

Visible without a model: `_send_rpc` of the coordination Raft never sends;
`Coordinator` never calls `dedup.cleanup`, and its usage text creates the group
`analysts`, which nothing reaches; a relay client's `connected` never becomes
false again; a vote binds its giver in later terms, and a new leader clears its
own. The bus calls an agent's own callbacks, so it hears what it emits itself.
`ChronoAgentMesh` overrides the synchronous `_route_message` with a coroutine
nobody awaits. A publication that is read late on an old connection takes the
sender's name away from its newer one, to which the accepting end then stops
writing. Stopped agents stay in what `query` and `find_agents` return;
`put_agent` stores under another key than `put`. `get_all` returns the *oldest*
rows, so beyond 1000 the published root no longer changes; `get_proof` gives
leaves for the siblings of inner nodes; nobody sends the heartbeats the registry
waits for, and only `get` and `list_all` look at its time to live.
`_tcp_notify_sub` iterates over the live table while it awaits.

## 6. What is left

Not modelled, and why:

* *The routing table of `dht_kademlia.py`*: no agent uses it; its buckets are
  lists that one coroutine at a time changes.
* *WebSocket and HTTP relays, relay redundancy*: the registry and forwarding are
  those of `Relay`; what is their own is a queue per agent that a poll empties,
  and a loop over a list of relays.
* *Data messages of the relay*: they change no state of it, and nothing is
  promised of them.
* *The handshake* (`phase0/handshake.py`): straight-line cryptography.
* *Scores and SQL reports* (`core/`): arithmetic on floating-point numbers.
* *Bindings to external frameworks* (`adapters/` but for the RPC), entry points,
  pilots and demonstrations: wiring, with no state of their own.
