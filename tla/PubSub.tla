------------------------------- MODULE PubSub -------------------------------
(* What listen() and emit() of the agent SDK promise to somebody who listens
   for capabilities, whatever transport is below: of each emitter, an open
   subscription hears messages of its capabilities only, in the order they were
   emitted, none of them twice; a cancelled one hears nothing more. Messages may
   be lost. *)
EXTENDS Naturals, Sequences, SequencesExt

CONSTANTS
  Agent,
  Capability

VARIABLES
  sent,     \* the messages emitted, each with the time of its emission
  heard     \* each agent's subscriptions, by a name each has for good

vars == <<sent, heard>>

Init ==
  /\ sent = {}
  /\ heard = [a \in Agent |-> [i \in {} |-> {}]]

Listen(a, i, caps) ==
  /\ i \notin DOMAIN heard[a]
  /\ heard' = [heard EXCEPT ![a] =
       [j \in DOMAIN @ \cup {i} |->
          IF j = i THEN [caps |-> caps, open |-> TRUE, got |-> <<>>] ELSE @[j]]]
  /\ UNCHANGED sent

Cancel(a, i) ==
  /\ heard' = [heard EXCEPT ![a][i].open = FALSE]
  /\ UNCHANGED sent

Concerns(sub, m) == sub.open /\ m.cap \in sub.caps

\* m is later than all that the subscription has heard of its emitter.
IsNews(sub, m) == \A k \in sent : k.from = m.from /\ Contains(sub.got, k.ts) => k.ts < m.ts

HearsIt(sub, m) == IF Concerns(sub, m) THEN [sub EXCEPT !.got = Append(@, m.ts)] ELSE sub

\* The open subscriptions of b that m concerns hear it.
Told(b, m) == [heard EXCEPT ![b] = [i \in DOMAIN @ |-> HearsIt(@[i], m)]]

Emit(m) ==
  /\ \A k \in sent : k.ts < m.ts
  /\ sent' = sent \cup {m}
  /\ heard' \in {heard, Told(m.from, m)}

Hear(b, m) ==
  /\ \A i \in DOMAIN heard[b] : Concerns(heard[b][i], m) => IsNews(heard[b][i], m)
  /\ heard' = Told(b, m)
  /\ UNCHANGED sent

Next ==
  \/ \E a \in Agent, caps \in (SUBSET Capability) \ {{}} :
        \E i \in DOMAIN heard'[a] : Listen(a, i, caps)
  \/ \E a \in Agent : \E i \in DOMAIN heard[a] : Cancel(a, i)
  \/ \E m \in sent' : Emit(m)
  \/ \E b \in Agent, m \in sent : Hear(b, m)

Spec == Init /\ [][Next]_vars
==============================================================================
