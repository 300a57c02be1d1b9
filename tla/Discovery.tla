----------------------------- MODULE Discovery -----------------------------
(* How agents find each other: every agent publishes its metadata on the topic
   _dht when it starts and every minute (sdk/agent.py), and everyone keeps what
   it hears in a cache and in buckets (phase0/dht.py). Bridges publish for agents
   that do not sign.

   An agent has other capabilities each time its process starts: a version. What
   was on a connection before a restart may still be read after it, so a
   publication may be overtaken by later ones; it may also be lost. *)
EXTENDS Naturals, FiniteSets, Sequences, SequencesExt

CONSTANTS
  Agent,
  Bridged,      \* trusted names that a bridge publishes, unsigned
  MaxKeys,      \* size of the cache
  BucketSize,   \* size of a bucket: all keys are taken to fall into one
  MaxVersion,   \* bound on the starts of each agent
  MaxBridged    \* bound on the publications of the bridge

ASSUME DisjointAssumption == Agent \cap Bridged = {}
ASSUME SizeAssumption == MaxKeys \in Nat \ {0} /\ BucketSize \in Nat \ {0}
ASSUME VersionAssumption == MaxVersion \in Nat /\ MaxBridged \in Nat

VARIABLES
  started,    \* the agents that run
  version,    \* the version of each agent's capabilities; 0 before it first starts
  cache,      \* _cache: keys and values in the order they were last stored, and
              \* whether each is still live: its time may be over
  bucket,     \* the bucket, in the order of its puts
  net,        \* publications under way, each to one agent
  bridged     \* publications the bridge has made

dhtVars == <<started, version, cache, bucket, net, bridged>>

DhtInit ==
  /\ started = {}
  /\ version = [a \in Agent |-> 0]
  /\ cache = [a \in Agent |-> <<>>]
  /\ bucket = [a \in Agent |-> <<>>]
  /\ net = {}
  /\ bridged = 0

------------------------------------------------------------------------------
(* The store. *)

Entry(key, ver) == [key |-> key, version |-> ver, live |-> TRUE]
BucketEntry(key, ver) == [key |-> key, version |-> ver]
Keys(entries) == {e.key : e \in ToSet(entries)}

\* A key is in a list once at most (DhtTypeOK): the others are what is left without it.
Others(entries, key) ==
  IF key \notin Keys(entries) THEN entries
  ELSE RemoveAt(entries, CHOOSE i \in DOMAIN entries : entries[i].key = key)

\* mutant: the last entries give way.
NewestYields(s, n) == IF Len(s) <= n THEN s ELSE SubSeq(s, 1, n)

Newest(s, n) == IF Len(s) <= n THEN s ELSE SubSeq(s, Len(s) - n + 1, Len(s))

\* mutant: nothing gives way.
StoreUntrimmed(entries, key, ver) == Append(Others(entries, key), Entry(key, ver))

\* The key moves to the end; the first entries give way. The times in the values
\* are not compared.
Store(entries, key, ver) == Newest(Append(Others(entries, key), Entry(key, ver)), MaxKeys)

\* mutant: an entry that is there is not replaced, and is found as well.
BucketPutTwice(entries, key, ver) == Newest(Append(entries, BucketEntry(key, ver)), BucketSize)

BucketPut(entries, key, ver) ==
  Newest(Append(Others(entries, key), BucketEntry(key, ver)), BucketSize)

HandlePut(a, key, ver) ==
  /\ cache' = [cache EXCEPT ![a] = Store(@, key, ver)]
  /\ bucket' = [bucket EXCEPT ![a] = BucketPut(@, key, ver)]

Versions(entries, key) == {e.version : e \in {e \in entries : e.key = key}}

(* What a finds of an agent: query() and find_agents() look at no expiry, get()
   does. *)
Query(a, key) == Versions(ToSet(cache[a]), key)
FindAgents(a, key) == Versions(ToSet(bucket[a]), key)
Lookup(a, key) == Versions({e \in ToSet(cache[a]) : e.live}, key)

\* Whoever asks get() for an entry whose time is over drops it.
Get(a, key) ==
  /\ a \in started
  /\ \E e \in ToSet(cache[a]) : e.key = key /\ ~e.live
  /\ cache' = [cache EXCEPT ![a] = Others(@, key)]
  /\ UNCHANGED <<started, version, bucket, net, bridged>>

------------------------------------------------------------------------------
(* Agents. *)

Put(key, ver, b) == [key |-> key, version |-> ver, to |-> b]
ToOthers(a, ver, agents) == {Put(a, ver, b) : b \in agents \ {a}}

\* start(): the topic is subscribed and the metadata published, which the agent
\* hears itself.
StartAgent(a) ==
  LET ver == version[a] + 1 IN
  /\ a \notin started /\ version[a] < MaxVersion
  /\ started' = started \cup {a}
  /\ version' = [version EXCEPT ![a] = ver]
  /\ cache' = [cache EXCEPT ![a] = Store(cache[a], a, ver)]
  /\ bucket' = [bucket EXCEPT ![a] = BucketPut(bucket[a], a, ver)]
  /\ net' = net \cup ToOthers(a, ver, started)
  /\ UNCHANGED bridged

\* The republish loop; _publish_metadata.
Republish(a) ==
  /\ a \in started
  /\ HandlePut(a, a, version[a])
  /\ net' = net \cup ToOthers(a, version[a], started)
  /\ UNCHANGED <<started, version, bridged>>

\* _on_dht_msg with the signed metadata of an agent.
OnDhtMsg(m) ==
  /\ m.key \in Agent
  /\ HandlePut(m.to, m.key, m.version)
  /\ net' = net \ {m}
  /\ UNCHANGED <<started, version, bridged>>

(* _on_dht_msg with the unsigned metadata of a trusted name: the agent answers
   with its own, unless it did so within the last second. *)
OnUnsigned(m) ==
  LET a == m.to
      stored == Store(cache[a], m.key, m.version)
      put == BucketPut(bucket[a], m.key, m.version) IN
  /\ m.key \in Bridged
  /\ \/ /\ HandlePut(a, m.key, m.version)
        /\ net' = net \ {m}
     \/ /\ cache' = [cache EXCEPT ![a] = Store(stored, a, version[a])]
        /\ bucket' = [bucket EXCEPT ![a] = BucketPut(put, a, version[a])]
        /\ net' = (net \ {m}) \cup ToOthers(a, version[a], started)
  /\ UNCHANGED <<started, version, bridged>>

\* stop(): what was found is gone with it, for the next start makes a new agent.
StopAgent(a) ==
  /\ a \in started
  /\ started' = started \ {a}
  /\ net' = {m \in net : m.to # a}
  /\ cache' = [cache EXCEPT ![a] = <<>>]
  /\ bucket' = [bucket EXCEPT ![a] = <<>>]
  /\ UNCHANGED <<version, bridged>>

------------------------------------------------------------------------------
\* A day has passed since the entry was stored; an agent that runs has refreshed
\* its own many times over.
Expire(a, i) ==
  /\ a \in started
  /\ cache[a][i].live /\ cache[a][i].key \notin started
  /\ cache' = [cache EXCEPT ![a][i].live = FALSE]
  /\ UNCHANGED <<started, version, bucket, net, bridged>>

Bridge(x) ==
  /\ bridged < MaxBridged
  /\ bridged' = bridged + 1
  /\ net' = net \cup ToOthers(x, 1, started)
  /\ UNCHANGED <<started, version, cache, bucket>>

\* Lost on a broken connection, or refused by the rate limit of the gate.
Lose(m) ==
  /\ net' = net \ {m}
  /\ UNCHANGED <<started, version, cache, bucket, bridged>>

DhtNext ==
  \/ \E a \in Agent : StartAgent(a)
  \/ \E a \in Agent : Republish(a)
  \/ \E m \in net : OnDhtMsg(m)
  \/ \E m \in net : OnUnsigned(m)
  \/ \E a \in Agent : StopAgent(a)
  \/ \E a \in Agent, key \in Agent \cup Bridged : Get(a, key)
  \/ \E a \in Agent : \E i \in DOMAIN cache[a] : Expire(a, i)
  \/ \E x \in Bridged : Bridge(x)
  \/ \E m \in net : Lose(m)

DhtSpec == DhtInit /\ [][DhtNext]_dhtVars

\* The loop of an agent republishes for ever, and not all of it is lost.
DhtFairSpec ==
  /\ DhtSpec
  /\ \A a \in Agent : WF_dhtVars(Republish(a))
  /\ \A a \in Agent : \A b \in Agent \ {a}, ver \in 1..MaxVersion :
        SF_dhtVars(Put(a, ver, b) \in net /\ OnDhtMsg(Put(a, ver, b)))

------------------------------------------------------------------------------
Key == Agent \cup Bridged
DhtTypeOK ==
  /\ started \subseteq Agent
  /\ version \in [Agent -> 0..MaxVersion]
  /\ \A a \in Agent :
       /\ Keys(cache[a]) \cup Keys(bucket[a]) \subseteq Key
       /\ Len(cache[a]) <= MaxKeys /\ Len(cache[a]) = Cardinality(Keys(cache[a]))
       /\ Len(bucket[a]) <= BucketSize /\ Len(bucket[a]) = Cardinality(Keys(bucket[a]))
  /\ net \subseteq [key : Key, version : 1..MaxVersion, to : started]
  /\ bridged \in 0..MaxBridged

(* query() and get(), which read the cache, and find_agents(), which reads the
   buckets, never contradict each other about an agent, whatever was overtaken,
   expired or gave way (handle_message, _store, _bucket_put, _bucket_search). *)
SurfacesAgree ==
  \A a \in Agent, key \in Key :
     Cardinality(Query(a, key) \cup Lookup(a, key) \cup FindAgents(a, key)) <= 1

(* In the end every running agent finds every other one with the capabilities it
   has now, by query() and by get(), although old metadata may come after new,
   what was known of it may have expired, and the cache may be too small for all
   names ever heard: as long as it is large enough for the agents that run
   (_dht_republish_loop, handle_message, _store, query, get). *)
Converges ==
  <>[](Cardinality(started) <= MaxKeys
         => \A a, b \in started :
              Query(a, b) = {version[b]} /\ Lookup(a, b) = {version[b]})
==============================================================================
