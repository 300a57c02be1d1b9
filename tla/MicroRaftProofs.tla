-------------------------- MODULE MicroRaftProofs --------------------------
(***************************************************************************)
(* Terms along a log, for every cluster, every bound and every schedule of *)
(* losses, stale calls and restarts.                                       *)
(***************************************************************************)
EXTENDS MicroRaft, FiniteSetTheorems, SequenceTheorems, TLAPS

(* A non-empty set of naturals has a least element, so the CHOOSE in Least
   finds one: the position at which logs part is well defined. *)
LEMMA LeastExists ==
  ASSUME NEW S \in SUBSET Nat, S # {}
  PROVE  /\ Least(S) \in S
         /\ \A y \in S : Least(S) <= y
<1>1. PICK x \in S : \A y \in S : ~(<<y, x>> \in OpToRel(<, Nat))
  BY NatLessThanWellFounded, WFMin
<1>2. ASSUME NEW y \in S, y < x  PROVE FALSE
  <2>. DEFINE pair == <<y, x>>
  <2>1. pair \in Nat \X Nat /\ pair[1] < pair[2]
    BY <1>2
  <2>. HIDE DEF pair
  <2>2. pair \in OpToRel(<, Nat)
    BY <2>1 DEF OpToRel
  <2>. QED  BY <1>1, <2>2 DEF pair
<1>3. \A y \in S : x <= y
  BY <1>2
<1>. QED  BY <1>3 DEF Least

(* A non-empty set of naturals below a bound has a greatest element. *)
LEMMA GreatestExists ==
  ASSUME NEW L \in Nat, NEW S \in SUBSET (0..L), S # {}
  PROVE  \E x \in S : \A y \in S : y <= x
<1>. DEFINE D == {L - x : x \in S}
<1>1. D \in SUBSET Nat /\ D # {}
  <2>1. \A x \in S : L - x \in Nat
    OBVIOUS
  <2>2. PICK x \in S : TRUE
    OBVIOUS
  <2>3. L - x \in D
    BY <2>2
  <2>. QED  BY <2>1, <2>3
<1>2. Least(D) \in D /\ \A y \in D : Least(D) <= y
  BY <1>1, LeastExists
<1>3. PICK x \in S : Least(D) = L - x
  BY <1>2
<1>4. \A y \in S : L - x <= L - y
  BY <1>2, <1>3
<1>5. \A y \in S : y <= x
  BY <1>4
<1>. QED  BY <1>5

(* Entries with any natural term: the bound MaxTerm plays no part here. *)
TermEntry == [term : Nat, command : Command]

(* K numbers that never fall. *)
Climbing(K, f) == \A i, j \in 1..K : i < j => f[i] <= f[j]

(* rt is the A numbers lt followed by the B numbers et, which start no lower
   than lt ends. *)
Spliced(A, B, R, lt, et, rt) ==
  /\ R = A + B
  /\ Climbing(A, lt) /\ Climbing(B, et)
  /\ \A i \in 1..A : rt[i] = lt[i]
  /\ \A i \in 1..B : rt[A + i] = et[i]
  /\ A > 0 /\ B > 0 => lt[A] <= et[1]

(* Two sequences that never fall, spliced, never fall. *)
LEMMA SplicedClimbs ==
  ASSUME NEW A \in Nat, NEW B \in Nat, NEW R \in Nat,
         NEW lt \in [1..A -> Nat], NEW et \in [1..B -> Nat], NEW rt \in [1..R -> Nat],
         Spliced(A, B, R, lt, et, rt)
  PROVE  Climbing(R, rt)
<1>0. /\ R = A + B
      /\ \A i, j \in 1..A : i < j => lt[i] <= lt[j]
      /\ \A i, j \in 1..B : i < j => et[i] <= et[j]
      /\ \A i \in 1..A : rt[i] = lt[i]
      /\ \A i \in 1..B : rt[A + i] = et[i]
      /\ A > 0 /\ B > 0 => lt[A] <= et[1]
  BY DEF Spliced, Climbing
<1>. USE <1>0
<1>1. ASSUME NEW i \in 1..R, A < i
      PROVE  i - A \in 1..B /\ rt[i] = et[i - A]
  <2>1. i - A \in 1..B /\ A + (i - A) = i
    BY <1>1
  <2>. QED  BY <2>1
<1>2. ASSUME NEW i \in 1..R, i <= A
      PROVE  i \in 1..A /\ rt[i] = lt[i] /\ rt[i] <= lt[A] /\ A \in 1..A
  <2>1. i \in 1..A /\ A \in 1..A /\ lt[i] \in Nat
    BY <1>2
  <2>2. i = A \/ i < A
    BY <2>1
  <2>3. lt[i] <= lt[A]
    BY <2>1, <2>2
  <2>. QED  BY <2>1, <2>3
<1>3. ASSUME NEW i \in 1..B  PROVE et[1] <= et[i] /\ 1 \in 1..B
  <2>1. 1 \in 1..B /\ (i = 1 \/ 1 < i)
    OBVIOUS
  <2>2. et[i] \in Nat
    OBVIOUS
  <2>3. CASE i = 1
    BY <2>1, <2>2, <2>3
  <2>4. CASE 1 < i
    BY <2>1, <2>4
  <2>. QED  BY <2>1, <2>3, <2>4
<1>4. ASSUME NEW i \in 1..R, NEW j \in 1..R, i < j
      PROVE  rt[i] <= rt[j]
  <2>1. CASE j <= A
    <3>1. i <= A
      BY <1>4, <2>1
    <3>. QED  BY <1>2, <1>4, <2>1, <3>1
  <2>2. CASE i <= A /\ A < j
    <3>1. rt[i] <= lt[A] /\ A \in 1..A
      BY <1>2, <2>2
    <3>2. j - A \in 1..B /\ rt[j] = et[j - A]
      BY <1>1, <2>2
    <3>3. et[1] <= et[j - A] /\ 1 \in 1..B
      BY <1>3, <3>2
    <3>4. lt[A] <= et[1]
      BY <3>1, <3>3
    <3>5. rt[i] \in Nat /\ lt[A] \in Nat /\ et[1] \in Nat /\ et[j - A] \in Nat
      BY <3>1, <3>2, <3>3
    <3>. QED  BY <3>1, <3>2, <3>3, <3>4, <3>5
  <2>3. CASE A < i
    <3>1. A < j
      BY <1>4, <2>3
    <3>2. /\ i - A \in 1..B /\ rt[i] = et[i - A]
          /\ j - A \in 1..B /\ rt[j] = et[j - A]
      BY <1>1, <2>3, <3>1
    <3>3. i - A < j - A
      BY <1>4
    <3>. QED  BY <3>2, <3>3
  <2>. QED  BY <2>1, <2>2, <2>3
<1>. QED  BY <1>4 DEF Climbing

(* The entries a call carries: they climb, up to the term of the call, from the
   term it gives for the place before them. *)
SoundEntries(m) ==
  /\ m.entries \in Seq(TermEntry)
  /\ m.prev \in Nat /\ m.term \in Nat /\ m.prevTerm \in Nat
  /\ Ordered(m.entries)
  /\ \A i \in 1..Len(m.entries) : m.entries[i].term <= m.term
  /\ m.prev > 0 => \A i \in 1..Len(m.entries) : m.prevTerm <= m.entries[i].term

(* A log whose terms climb to at most t. *)
SoundLog(l, t) ==
  /\ l \in Seq(TermEntry)
  /\ Ordered(l)
  /\ \A i \in 1..Len(l) : l[i].term <= t

(* How much of the log a merge keeps: not less than the part the consistency
   check has found equal, and up to there the entries agree in term. *)
LEMMA MergeKeeps ==
  ASSUME NEW l \in Seq(TermEntry), NEW es \in Seq(TermEntry),
         NEW prev \in Nat, prev <= Len(l)
  PROVE  LET kept == IF Conflicts(l, prev, es) = {} THEN Len(l)
                     ELSE prev + Least(Conflicts(l, prev, es)) - 1
         IN /\ kept \in prev..Len(l)
            /\ \A k \in 1..Len(es) : prev + k <= kept => l[prev + k].term = es[k].term
<1>. DEFINE C == Conflicts(l, prev, es)
            k0 == Least(C)
            L == Len(l)
            E == Len(es)
<1>1. L \in Nat /\ E \in Nat
  OBVIOUS
<1>2. CASE C = {}
  <2>1. \A k \in 1..E : prev + k <= L => l[prev + k].term = es[k].term
    BY <1>2 DEF Conflicts
  <2>2. L \in prev..L
    BY <1>1
  <2>. QED  BY <1>2, <2>1, <2>2
<1>3. CASE C # {}
  <2>1. C \in SUBSET Nat
    BY <1>1 DEF Conflicts
  <2>2. k0 \in C /\ \A k \in C : k0 <= k
    BY <1>3, <2>1, LeastExists
  <2>. HIDE DEF k0
  <2>3. k0 \in 1..E /\ prev + k0 <= L
    BY <2>2 DEF Conflicts
  <2>4. prev + k0 - 1 \in prev..L
    BY <1>1, <2>3
  <2>5. ASSUME NEW k \in 1..E, prev + k <= prev + k0 - 1
        PROVE  l[prev + k].term = es[k].term
    <3>1. ~(k0 <= k) /\ prev + k <= L
      BY <1>1, <2>3, <2>5
    <3>2. k \notin C
      BY <2>2, <3>1
    <3>. QED  BY <3>1, <3>2 DEF Conflicts
  <2>. QED  BY <1>3, <2>4, <2>5 DEF k0
<1>. QED  BY <1>2, <1>3

(* Merging sound entries into a sound log that passed the consistency check
   gives a sound log. *)
LEMMA MergeSound ==
  ASSUME NEW l, NEW t \in Nat, SoundLog(l, t),
         NEW m, SoundEntries(m), m.term <= t, Consistent(l, m)
  PROVE  SoundLog(MergeLog(l, m.prev, m.entries), t)
<1>. DEFINE es == m.entries
            prev == m.prev
            kept == IF Conflicts(l, prev, es) = {} THEN Len(l)
                    ELSE prev + Least(Conflicts(l, prev, es)) - 1
            head == SubSeq(l, 1, kept)
            tail == SubSeq(es, kept - prev + 1, Len(es))
            r == head \o tail
            L == Len(l)
            E == Len(es)
            s == kept - prev
            B == IF s < E THEN E - s ELSE 0
<1>1. /\ l \in Seq(TermEntry) /\ es \in Seq(TermEntry) /\ prev \in Nat
      /\ L \in Nat /\ E \in Nat /\ prev <= L
      /\ m.term \in Nat /\ m.prevTerm \in Nat
  BY DEF SoundLog, SoundEntries, Consistent
<1>2. /\ kept \in prev..L
      /\ \A k \in 1..E : prev + k <= kept => l[prev + k].term = es[k].term
  BY <1>1, MergeKeeps
<1>3. MergeLog(l, prev, es) = r
  BY DEF MergeLog
<1>4. /\ \A i \in 1..L : l[i] \in TermEntry /\ l[i].term \in Nat
      /\ \A i \in 1..E : es[i] \in TermEntry /\ es[i].term \in Nat
  <2>1. /\ \A i \in 1..L : l[i] \in TermEntry
        /\ \A i \in 1..E : es[i] \in TermEntry
    BY <1>1
  <2>2. \A e \in TermEntry : e.term \in Nat
    BY DEF TermEntry
  <2>. QED  BY <2>1, <2>2
<1>5. /\ \A i, j \in 1..L : i < j => l[i].term <= l[j].term
      /\ \A i, j \in 1..E : i < j => es[i].term <= es[j].term
      /\ \A i \in 1..L : l[i].term <= t
      /\ \A i \in 1..E : es[i].term <= m.term
  BY DEF SoundLog, SoundEntries, Ordered
<1>6. /\ prev > 0 => l[prev].term = m.prevTerm
      /\ prev > 0 => \A i \in 1..E : m.prevTerm <= es[i].term
  BY DEF SoundEntries, Consistent
<1>. HIDE DEF kept, L, E, es, prev
<1>7. kept \in Nat /\ kept <= L /\ s \in Nat /\ kept = prev + s
  BY <1>1, <1>2
<1>8. B \in Nat /\ (s < E => B = E - s) /\ (~(s < E) => B = 0)
  BY <1>1, <1>7
<1>9. /\ head \in Seq(TermEntry) /\ Len(head) = kept
      /\ \A i \in 1..kept : head[i] = l[i]
  BY <1>1, <1>7 DEF L
<1>10. /\ tail \in Seq(TermEntry) /\ Len(tail) = B
       /\ \A i \in 1..B : tail[i] = es[s + i]
  <2>. HIDE DEF s, B
  <2>1. tail = SubSeq(es, s + 1, E)
    BY DEF s, E
  <2>2. CASE s < E
    BY <1>1, <1>7, <1>8, <2>1, <2>2 DEF E
  <2>3. CASE ~(s < E)
    <3>1. tail = <<>>
      BY <1>1, <1>7, <2>1, <2>3 DEF E
    <3>2. \A i \in 1..B : FALSE
      BY <1>8, <2>3
    <3>3. <<>> \in Seq(TermEntry) /\ Len(<<>>) = 0
      OBVIOUS
    <3>. HIDE DEF tail
    <3>. QED  BY <1>8, <2>3, <3>1, <3>2, <3>3
  <2>. QED  BY <2>2, <2>3
<1>. HIDE DEF head, tail, s, B
<1>11. /\ r \in Seq(TermEntry) /\ Len(r) = kept + B
       /\ \A i \in 1..(kept + B) :
            r[i] = IF i <= kept THEN head[i] ELSE tail[i - kept]
  BY <1>9, <1>10, ConcatProperties
<1>. HIDE DEF r
<1>. DEFINE R == kept + B
            lt == [i \in 1..kept |-> l[i].term]
            et == [i \in 1..B |-> es[s + i].term]
            rt == [i \in 1..R |-> r[i].term]
<1>12. /\ \A i \in 1..kept : i \in 1..L /\ i \in 1..R /\ i <= kept
       /\ \A i \in 1..B : /\ s + i \in 1..E /\ kept + i \in 1..R
                          /\ ~(kept + i <= kept) /\ (kept + i) - kept = i
       /\ R \in Nat
  BY <1>1, <1>7, <1>8
<1>13. /\ \A i \in 1..kept : r[i] = l[i]
       /\ \A i \in 1..B : r[kept + i] = es[s + i]
  <2>1. ASSUME NEW i \in 1..kept  PROVE r[i] = l[i]
    BY <1>9, <1>11, <1>12 DEF R
  <2>2. ASSUME NEW i \in 1..B  PROVE r[kept + i] = es[s + i]
    <3>1. r[kept + i] = tail[(kept + i) - kept]
      BY <1>11, <1>12 DEF R
    <3>. QED  BY <1>10, <1>12, <3>1
  <2>. QED  BY <2>1, <2>2
<1>14. /\ lt \in [1..kept -> Nat] /\ et \in [1..B -> Nat] /\ rt \in [1..R -> Nat]
  <2>1. \A i \in 1..R : r[i].term \in Nat
    <3>1. \A i \in 1..R : r[i] \in TermEntry
      BY <1>11 DEF R
    <3>2. \A e \in TermEntry : e.term \in Nat
      BY DEF TermEntry
    <3>. QED  BY <3>1, <3>2
  <2>. QED  BY <1>4, <1>12, <2>1
<1>15. /\ \A i \in 1..kept : lt[i] = l[i].term
       /\ \A i \in 1..B : et[i] = es[s + i].term
       /\ \A i \in 1..R : rt[i] = r[i].term
  OBVIOUS
<1>. HIDE DEF R, lt, et, rt
<1>16. Spliced(kept, B, R, lt, et, rt)
  <2>1. Climbing(kept, lt)
    BY <1>5, <1>12, <1>15 DEF Climbing
  <2>2. Climbing(B, et)
    <3>1. ASSUME NEW i \in 1..B, NEW j \in 1..B, i < j
          PROVE  et[i] <= et[j]
      <4>1. s + i < s + j
        BY <1>7, <3>1
      <4>. QED  BY <1>5, <1>12, <1>15, <4>1
    <3>. QED  BY <3>1 DEF Climbing
  <2>3. /\ \A i \in 1..kept : rt[i] = lt[i]
        /\ \A i \in 1..B : rt[kept + i] = et[i]
    BY <1>12, <1>13, <1>15
  <2>4. ASSUME kept > 0, B > 0  PROVE lt[kept] <= et[1]
    <3>1. kept \in 1..kept /\ 1 \in 1..B /\ s + 1 \in 1..E
      BY <1>7, <1>8, <1>12, <2>4
    <3>2. lt[kept] = l[kept].term /\ et[1] = es[s + 1].term
      BY <1>15, <3>1
    <3>3. CASE s = 0
      <4>1. kept = prev /\ prev > 0
        BY <1>1, <1>7, <2>4, <3>3
      <4>. QED  BY <1>6, <3>1, <3>2, <4>1
    <3>4. CASE s # 0
      <4>1. s \in 1..E /\ s < s + 1 /\ prev + s = kept /\ kept <= kept
        BY <1>1, <1>7, <3>1, <3>4
      <4>2. l[kept].term = es[s].term
        BY <1>2, <4>1
      <4>. QED  BY <1>5, <3>1, <3>2, <4>1, <4>2
    <3>. QED  BY <3>3, <3>4
  <2>. QED  BY <2>1, <2>2, <2>3, <2>4 DEF Spliced, R
<1>17. Climbing(R, rt)
  BY <1>7, <1>8, <1>12, <1>14, <1>16, SplicedClimbs
<1>18. Ordered(r)
  BY <1>11, <1>15, <1>17 DEF Ordered, Climbing, R
<1>19. \A i \in 1..Len(r) : r[i].term <= t
  <2>1. ASSUME NEW i \in 1..R  PROVE r[i].term <= t
    <3>1. CASE i \in 1..kept
      BY <1>5, <1>12, <1>13, <3>1
    <3>2. CASE i - kept \in 1..B
      <4>1. kept + (i - kept) = i /\ s + (i - kept) \in 1..E
        BY <1>7, <1>12, <3>2
      <4>2. r[i].term = es[s + (i - kept)].term
        BY <1>13, <3>2, <4>1
      <4>3. es[s + (i - kept)].term <= m.term /\ es[s + (i - kept)].term \in Nat
        BY <1>4, <1>5, <4>1
      <4>4. \A x \in Nat : x <= m.term => x <= t
        BY <1>1
      <4>. QED  BY <4>2, <4>3, <4>4
    <3>3. i \in 1..kept \/ i - kept \in 1..B
      BY <1>7, <1>8 DEF R
    <3>. QED  BY <3>1, <3>2, <3>3
  <2>. QED  BY <1>11, <2>1 DEF R
<1>. QED  BY <1>3, <1>11, <1>18, <1>19 DEF SoundLog, es, prev

(* A log sound up to one term is sound up to any later one. *)
LEMMA SoundLater ==
  ASSUME NEW l, NEW t \in Nat, NEW u \in Nat, SoundLog(l, t), t <= u
  PROVE  SoundLog(l, u)
<1>1. \A i \in 1..Len(l) : l[i].term \in Nat /\ l[i].term <= t
  <2>1. \A i \in 1..Len(l) : l[i] \in TermEntry
    BY DEF SoundLog
  <2>2. \A e \in TermEntry : e.term \in Nat
    BY DEF TermEntry
  <2>. QED  BY <2>1, <2>2 DEF SoundLog
<1>2. \A x \in Nat : x <= t => x <= u
  OBVIOUS
<1>. QED  BY <1>1, <1>2 DEF SoundLog

(* The empty log is sound, and appending an entry of the term itself keeps a
   log sound: that is what propose does. *)
LEMMA AppendSound ==
  ASSUME NEW l, NEW t \in Nat, SoundLog(l, t), NEW e \in TermEntry, e.term = t
  PROVE  SoundLog(Append(l, e), t) /\ SoundLog(<<>>, t)
<1>. DEFINE r == Append(l, e)
            L == Len(l)
<1>1. /\ l \in Seq(TermEntry) /\ L \in Nat
      /\ r \in Seq(TermEntry) /\ Len(r) = L + 1
      /\ \A i \in 1..L : r[i] = l[i]
      /\ r[L + 1] = e
  BY DEF SoundLog
<1>2. /\ \A i, j \in 1..L : i < j => l[i].term <= l[j].term
      /\ \A i \in 1..L : l[i].term <= t
  BY DEF SoundLog, Ordered
<1>. HIDE DEF L, r
<1>3. ASSUME NEW i \in 1..(L + 1)  PROVE r[i].term <= t
  <2>1. i \in 1..L \/ i = L + 1
    BY <1>1
  <2>2. t <= t
    OBVIOUS
  <2>. QED  BY <1>1, <1>2, <2>1, <2>2
<1>4. ASSUME NEW i \in 1..(L + 1), NEW j \in 1..(L + 1), i < j
      PROVE  r[i].term <= r[j].term
  <2>1. i \in 1..L /\ (j \in 1..L \/ j = L + 1)
    BY <1>1, <1>4
  <2>. QED  BY <1>1, <1>2, <1>4, <2>1
<1>5. SoundLog(r, t)
  BY <1>1, <1>3, <1>4 DEF SoundLog, Ordered
<1>6. SoundLog(<<>>, t)
  BY DEF SoundLog, Ordered
<1>. QED  BY <1>5, <1>6 DEF r

(* What a call carries of a sound log, from place p + 1 on. *)
LEMMA SuffixSound ==
  ASSUME NEW l, NEW t \in Nat, SoundLog(l, t), NEW p \in Nat,
         NEW m, m.entries = SubSeq(l, p + 1, Len(l)), m.prev = p, m.term = t,
         m.prevTerm = IF p \in 1..Len(l) THEN l[p].term ELSE 0
  PROVE  SoundEntries(m)
<1>. DEFINE L == Len(l)
            es == m.entries
            E == Len(es)
<1>1. l \in Seq(TermEntry) /\ L \in Nat
  BY DEF SoundLog
<1>2. /\ \A i, j \in 1..L : i < j => l[i].term <= l[j].term
      /\ \A i \in 1..L : l[i].term <= t /\ l[i].term \in Nat
  <2>1. \A i \in 1..L : l[i] \in TermEntry
    BY <1>1
  <2>2. \A e \in TermEntry : e.term \in Nat
    BY DEF TermEntry
  <2>. QED  BY <2>1, <2>2 DEF SoundLog, Ordered
<1>3. CASE p < L
  <2>1. /\ es \in Seq(TermEntry) /\ E = L - p
        /\ \A i \in 1..(L - p) : es[i] = l[p + i]
    BY <1>1, <1>3
  <2>. HIDE DEF L, es, E
  <2>2. \A i \in 1..E : p + i \in 1..L
    BY <1>1, <1>3, <2>1
  <2>3. \A i \in 1..E : es[i] = l[p + i]
    BY <2>1
  <2>4. \A i \in 1..E : es[i].term <= t
    BY <1>2, <2>2, <2>3
  <2>5. ASSUME NEW i \in 1..E, NEW j \in 1..E, i < j
        PROVE  es[i].term <= es[j].term
    <3>1. p + i < p + j
      BY <2>5
    <3>. QED  BY <1>2, <2>2, <2>3, <3>1
  <2>6. ASSUME p > 0, NEW i \in 1..E  PROVE m.prevTerm <= es[i].term
    <3>1. p \in 1..L /\ p < p + i
      BY <1>1, <1>3, <2>6
    <3>2. m.prevTerm = l[p].term
      BY <3>1 DEF L
    <3>. QED  BY <1>2, <2>2, <2>3, <3>1, <3>2
  <2>7. m.prevTerm \in Nat
    BY <1>2 DEF L
  <2>. QED  BY <2>1, <2>4, <2>5, <2>6, <2>7 DEF SoundEntries, Ordered, es, E
<1>4. CASE ~(p < L)
  <2>1. es = <<>>
    BY <1>1, <1>4
  <2>2. m.prevTerm \in Nat
    BY <1>2
  <2>. HIDE DEF es, L
  <2>. QED  BY <2>1, <2>2 DEF SoundEntries, Ordered, es
<1>. QED  BY <1>3, <1>4

(***************************************************************************)
(* The invariant of the system.                                            *)
(***************************************************************************)
TermCampaign ==
  [asked : Node \cup {None}, todo : SUBSET Node, votes : Nat, term : Nat,
   lastIndex : Nat, lastTerm : Nat, reply : {"none", "granted", "denied"}]

TermCall ==
  [from : Node, to : Node, term : Nat, prev : Nat, prevTerm : Nat,
   entries : Seq(TermEntry), commit : Nat, reply : {"none", "ok", "fail"}]

TermTypes ==
  /\ currentTerm \in [Node -> Nat]
  /\ role \in [Node -> {"Follower", "Candidate", "Leader"}]
  /\ nextIndex \in [Node -> [Node -> Nat \ {0}]]
  /\ campaign \in [Node -> TermCampaign]
  /\ commitIndex \in [Node -> Nat]
  /\ calls \subseteq TermCall
  /\ log \in [Node -> Seq(TermEntry)]

(* LogTermsOrdered is not inductive: what a follower takes comes from a call
   that may be older than anything in the logs now, so the calls under way have
   to be sound as well. *)
TermInv ==
  /\ TermTypes
  /\ \A n \in Node : SoundLog(log[n], currentTerm[n])
  /\ \A m \in calls : SoundEntries(m)

(* Logs are empty and no call is under way at first. *)
LEMMA TermInit == Init => TermInv
<1>. SUFFICES ASSUME Init  PROVE TermInv
  OBVIOUS
<1>1. Idle \in TermCampaign
  BY DEF Idle, TermCampaign
<1>2. TermTypes
  BY <1>1 DEF Init, TermTypes
<1>3. SoundLog(<<>>, 0)
  BY DEF SoundLog, Ordered
<1>. QED  BY <1>2, <1>3 DEF Init, TermInv

(* Adopting a term never lowers one, and leaves the node at the term at least. *)
LEMMA AdoptRaises ==
  ASSUME TermTypes, NEW n \in Node, NEW term \in Nat, AdoptTerm(n, term)
  PROVE  /\ currentTerm' \in [Node -> Nat]
         /\ role' \in [Node -> {"Follower", "Candidate", "Leader"}]
         /\ \A v \in Node : currentTerm[v] <= currentTerm'[v]
         /\ term <= currentTerm'[n]
<1>1. \A v \in Node : currentTerm[v] \in Nat
  BY DEF TermTypes
<1>2. \A v \in Node : currentTerm'[v] = IF v = n /\ term > currentTerm[n]
                                         THEN term ELSE currentTerm[v]
  BY DEF AdoptTerm, TermTypes
<1>3. currentTerm' \in [Node -> Nat] /\ role' \in [Node -> {"Follower", "Candidate", "Leader"}]
  BY DEF AdoptTerm, TermTypes
<1>. QED  BY <1>1, <1>2, <1>3

(* A call keeps its soundness when only its reply changes. *)
LEMMA ReplySound ==
  ASSUME NEW m \in TermCall, SoundEntries(m), NEW r \in {"none", "ok", "fail"}
  PROVE  [m EXCEPT !.reply = r] \in TermCall /\ SoundEntries([m EXCEPT !.reply = r])
BY DEF TermCall, SoundEntries

(* What one node's new call carries is sound if its log is. *)
LEMMA CallSound ==
  ASSUME TermTypes, NEW n \in Node, NEW p \in Node,
         NEW l \in Seq(TermEntry), SoundLog(l, currentTerm[n])
  PROVE  AppendCall(n, p, l) \in TermCall /\ SoundEntries(AppendCall(n, p, l))
<1>. DEFINE k == nextIndex[n][p] - 1
            t == currentTerm[n]
            m == AppendCall(n, p, l)
<1>1. k \in Nat /\ t \in Nat /\ commitIndex[n] \in Nat /\ Len(l) \in Nat
  BY DEF TermTypes
<1>2. m = [from |-> n, to |-> p, term |-> t, prev |-> k,
           prevTerm |-> IF k \in 1..Len(l) THEN l[k].term ELSE 0,
           entries |-> SubSeq(l, k + 1, Len(l)),
           commit |-> commitIndex[n], reply |-> "none"]
  BY DEF AppendCall
<1>. HIDE DEF k, t, m
<1>3. SoundEntries(m)
  <2>1. /\ m.entries = SubSeq(l, k + 1, Len(l)) /\ m.prev = k /\ m.term = t
        /\ m.prevTerm = IF k \in 1..Len(l) THEN l[k].term ELSE 0
    BY <1>2
  <2>. QED  BY <1>1, <2>1, SuffixSound DEF t
<1>4. m \in TermCall
  BY <1>1, <1>2, <1>3 DEF SoundEntries, TermCall
<1>. QED  BY <1>3, <1>4 DEF m

(* A campaign that asks its next peer is still well formed. *)
LEMMA AskTyped ==
  ASSUME NEW n \in Node, NEW c \in TermCampaign, NEW p \in Node, NEW t \in Nat
  PROVE  Ask(n, c, p, t) \in TermCampaign
BY DEF Ask, TermCampaign

(* Every step keeps the invariant. *)
LEMMA TermStep == TermInv /\ [Next]_vars => TermInv'
<1>. SUFFICES ASSUME TermInv, [Next]_vars  PROVE TermInv'
  OBVIOUS
<1>1. /\ TermTypes
      /\ currentTerm \in [Node -> Nat]
      /\ role \in [Node -> {"Follower", "Candidate", "Leader"}]
      /\ nextIndex \in [Node -> [Node -> Nat \ {0}]]
      /\ campaign \in [Node -> TermCampaign]
      /\ commitIndex \in [Node -> Nat]
      /\ calls \subseteq TermCall
      /\ log \in [Node -> Seq(TermEntry)]
      /\ \A n \in Node : SoundLog(log[n], currentTerm[n])
      /\ \A m \in calls : SoundEntries(m)
  BY DEF TermInv, TermTypes
<1>2. ASSUME currentTerm' \in [Node -> Nat],
             role' \in [Node -> {"Follower", "Candidate", "Leader"}],
             nextIndex' \in [Node -> [Node -> Nat \ {0}]],
             campaign' \in [Node -> TermCampaign],
             commitIndex' \in [Node -> Nat],
             calls' \subseteq TermCall,
             log' \in [Node -> Seq(TermEntry)],
             \A n \in Node : SoundLog(log'[n], currentTerm'[n]),
             \A m \in calls' : SoundEntries(m)
      PROVE  TermInv'
  BY <1>2 DEF TermInv, TermTypes
<1>3. \A n \in Node : /\ log[n] \in Seq(TermEntry) /\ Len(log[n]) \in Nat
                      /\ LastTerm(log[n]) \in Nat /\ currentTerm[n] \in Nat
  <2>1. \A e \in TermEntry : e.term \in Nat
    BY DEF TermEntry
  <2>2. ASSUME NEW n \in Node, log[n] # <<>>
        PROVE  log[n][Len(log[n])] \in TermEntry
    BY <1>1, <2>2
  <2>. QED  BY <1>1, <2>1, <2>2 DEF LastTerm
<1>4. \A c \in TermCampaign : /\ c.term \in Nat /\ c.asked \in Node \cup {None}
                              /\ c.votes + 1 \in Nat
  BY DEF TermCampaign
(* A step that raises no log and lowers no term keeps the logs sound. *)
<1>5. ASSUME currentTerm' \in [Node -> Nat], log' = log,
             \A n \in Node : currentTerm[n] <= currentTerm'[n]
      PROVE  \A n \in Node : SoundLog(log'[n], currentTerm'[n])
  BY <1>1, <1>3, <1>5, SoundLater
<1>6. ASSUME NEW n \in Node, StartElection(n)  PROVE TermInv'
  <2>1. /\ currentTerm' \in [Node -> Nat]
        /\ \A v \in Node : currentTerm[v] <= currentTerm'[v]
        /\ role' \in [Node -> {"Follower", "Candidate", "Leader"}]
    BY <1>1, <1>3, <1>6 DEF StartElection
  <2>2. campaign' \in [Node -> TermCampaign]
    <3>. DEFINE c == [Idle EXCEPT !.todo = Peers(n), !.votes = 1,
                                  !.lastIndex = Len(log[n]), !.lastTerm = LastTerm(log[n])]
                t == currentTerm[n] + 1
    <3>1. PICK p \in Peers(n) : campaign' = [campaign EXCEPT ![n] = Ask(n, c, p, t)]
      BY <1>6 DEF StartElection
    <3>2. t \in Nat /\ p \in Node /\ Peers(n) \subseteq Node
      BY <1>3 DEF Peers
    <3>3. c \in TermCampaign
      BY <1>3, <3>2 DEF Idle, TermCampaign
    <3>. HIDE DEF c, t
    <3>4. Ask(n, c, p, t) \in TermCampaign
      BY <3>2, <3>3, AskTyped
    <3>. QED  BY <1>1, <3>1, <3>4
  <2>3. UNCHANGED <<log, commitIndex, nextIndex, calls>>
    BY <1>6 DEF StartElection, commitment, leadership
  <2>. QED  BY <1>1, <1>2, <1>5, <2>1, <2>2, <2>3
<1>7. ASSUME NEW n \in Node, HandleRequestVote(n)  PROVE TermInv'
  <2>. DEFINE c == campaign[n]
              v == c.asked
  <2>1. c.term \in Nat /\ v \in Node
    BY <1>1, <1>4, <1>7 DEF HandleRequestVote
  <2>2. AdoptTerm(v, c.term)
    BY <1>7 DEF HandleRequestVote
  <2>3. /\ currentTerm' \in [Node -> Nat]
        /\ role' \in [Node -> {"Follower", "Candidate", "Leader"}]
        /\ \A x \in Node : currentTerm[x] <= currentTerm'[x]
    BY <1>1, <2>1, <2>2, AdoptRaises
  <2>4. campaign' \in [Node -> TermCampaign]
    <3>1. \A r \in {"granted", "denied"} : [c EXCEPT !.reply = r] \in TermCampaign
      <4>1. c \in TermCampaign
        BY <1>1
      <4>. HIDE DEF c
      <4>. QED  BY <4>1 DEF TermCampaign
    <3>2. \E r \in {"granted", "denied"} :
            campaign' = [campaign EXCEPT ![n] = [campaign[n] EXCEPT !.reply = r]]
      BY <1>7 DEF HandleRequestVote
    <3>. QED  BY <1>1, <3>1, <3>2
  <2>5. UNCHANGED <<log, commitIndex, nextIndex, calls>>
    BY <1>7 DEF HandleRequestVote, commitment, leadership
  <2>. QED  BY <1>1, <1>2, <1>5, <2>3, <2>4, <2>5
<1>8. ASSUME NEW n \in Node, NEW granted \in BOOLEAN, ElectionGoesOn(n, granted)
      PROVE  TermInv'
  <2>. DEFINE c == campaign[n]
              votes == IF granted THEN c.votes + 1 ELSE c.votes
  <2>1. UNCHANGED <<currentTerm, log, commitIndex, calls>>
    BY <1>8 DEF ElectionGoesOn, commitment
  <2>2. c \in TermCampaign /\ votes \in Nat /\ Idle \in TermCampaign
    BY <1>1 DEF TermCampaign, Idle
  <2>3. campaign' \in [Node -> TermCampaign]
    <3>1. ASSUME NEW p \in c.todo
          PROVE  Ask(n, [c EXCEPT !.votes = votes], p, currentTerm[n]) \in TermCampaign
      <4>1. currentTerm[n] \in Nat /\ p \in Node
        BY <1>3, <2>2 DEF TermCampaign
      <4>. HIDE DEF c, votes
      <4>2. [c EXCEPT !.votes = votes] \in TermCampaign
        BY <2>2 DEF TermCampaign
      <4>. QED  BY <4>1, <4>2, AskTyped
    <3>2. \/ campaign' = [campaign EXCEPT ![n] = Idle]
          \/ \E p \in c.todo :
               campaign' = [campaign EXCEPT ![n] =
                              Ask(n, [c EXCEPT !.votes = votes], p, currentTerm[n])]
      BY <1>8 DEF ElectionGoesOn
    <3>. QED  BY <1>1, <2>2, <3>1, <3>2
  <2>4. role' \in [Node -> {"Follower", "Candidate", "Leader"}]
    BY <1>1, <1>8 DEF ElectionGoesOn
  <2>5. nextIndex' \in [Node -> [Node -> Nat \ {0}]]
    <3>1. [p \in Node |-> Len(log[n]) + 1] \in [Node -> Nat \ {0}]
      BY <1>3
    <3>2. \/ nextIndex' = nextIndex
          \/ nextIndex' = [nextIndex EXCEPT ![n] = [p \in Node |-> Len(log[n]) + 1]]
      BY <1>8 DEF ElectionGoesOn, leadership
    <3>. QED  BY <1>1, <3>1, <3>2
  <2>. QED  BY <1>1, <1>2, <2>1, <2>3, <2>4, <2>5
<1>9. ASSUME NEW n \in Node, VoteReply(n) \/ VoteLost(n)  PROVE TermInv'
  <2>1. \E granted \in BOOLEAN : ElectionGoesOn(n, granted)
    BY <1>9 DEF VoteReply, VoteLost
  <2>. QED  BY <1>8, <2>1
<1>10. ASSUME NEW n \in Node, NEW l \in Seq(TermEntry), SoundLog(l, currentTerm[n]),
              BroadcastAppendEntries(n, l)
       PROVE  calls' \subseteq TermCall /\ \A m \in calls' : SoundEntries(m)
  <2>1. ASSUME NEW p \in Node
        PROVE  AppendCall(n, p, l) \in TermCall /\ SoundEntries(AppendCall(n, p, l))
    BY <1>1, <1>10, CallSound
  <2>2. PICK reached \in SUBSET Node :
          calls' = calls \cup {AppendCall(n, p, l) : p \in reached}
    BY <1>10 DEF BroadcastAppendEntries, Peers
  <2>. QED  BY <1>1, <2>1, <2>2
<1>11. ASSUME NEW n \in Node, Heartbeat(n)  PROVE TermInv'
  <2>1. calls' \subseteq TermCall /\ \A m \in calls' : SoundEntries(m)
    BY <1>1, <1>10, <1>11 DEF Heartbeat
  <2>2. UNCHANGED <<currentTerm, log, role, commitIndex, nextIndex, campaign>>
    BY <1>11 DEF Heartbeat, persistent, commitment, leadership
  <2>. QED  BY <1>1, <1>2, <2>1, <2>2
<1>12. ASSUME NEW n \in Node, NEW command \in Command, Propose(n, command)
       PROVE  TermInv'
  <2>. DEFINE e == [term |-> currentTerm[n], command |-> command]
              l == Append(log[n], e)
  <2>1. e \in TermEntry /\ e.term = currentTerm[n]
    BY <1>3 DEF TermEntry
  <2>. HIDE DEF e
  <2>2. l \in Seq(TermEntry) /\ SoundLog(l, currentTerm[n])
    BY <1>1, <1>3, <2>1, AppendSound
  <2>3. log' = [log EXCEPT ![n] = l]
    BY <1>12 DEF Propose, e
  <2>4. log'[n] = l
    BY <1>1, <2>3
  <2>5. calls' \subseteq TermCall /\ \A m \in calls' : SoundEntries(m)
    BY <1>10, <1>12, <2>2, <2>4 DEF Propose
  <2>6. UNCHANGED <<currentTerm, role, commitIndex, nextIndex, campaign>>
    BY <1>12 DEF Propose, commitment, leadership
  <2>. HIDE DEF l
  <2>7. log' \in [Node -> Seq(TermEntry)]
    BY <1>1, <2>2, <2>3
  <2>8. \A v \in Node : SoundLog(log'[v], currentTerm'[v])
    BY <1>1, <2>2, <2>3, <2>4, <2>6
  <2>. QED  BY <1>1, <1>2, <2>5, <2>6, <2>7, <2>8
<1>13. ASSUME NEW m \in calls, HandleAppendEntries(m)  PROVE TermInv'
  <2>. DEFINE f  == m.to
              ok == Consistent(log[f], m)
              l  == IF ok THEN MergeLog(log[f], m.prev, m.entries) ELSE log[f]
              c  == IF ok /\ m.commit > commitIndex[f]
                    THEN IF m.commit < Len(l) THEN m.commit ELSE Len(l)
                    ELSE commitIndex[f]
              r  == IF ok THEN "ok" ELSE "fail"
  <2>1. m \in TermCall /\ SoundEntries(m)
    BY <1>1
  <2>2. f \in Node /\ m.term \in Nat /\ m.commit \in Nat
    BY <2>1 DEF TermCall
  <2>3. AdoptTerm(f, m.term)
    BY <1>13 DEF HandleAppendEntries
  <2>4. /\ currentTerm' \in [Node -> Nat]
        /\ role' \in [Node -> {"Follower", "Candidate", "Leader"}]
        /\ \A x \in Node : currentTerm[x] <= currentTerm'[x]
        /\ m.term <= currentTerm'[f]
    BY <1>1, <2>2, <2>3, AdoptRaises
  <2>5. /\ log' = [log EXCEPT ![f] = l]
        /\ commitIndex' = [commitIndex EXCEPT ![f] = c]
        /\ calls' = (calls \ {m}) \cup {[m EXCEPT !.reply = r]}
        /\ UNCHANGED <<nextIndex, campaign>>
    BY <1>13 DEF HandleAppendEntries, TakenLog, TakenCommit, leadership
  <2>6. \A v \in Node : SoundLog(log[v], currentTerm'[v])
    BY <1>1, <1>3, <2>4, SoundLater
  <2>7. SoundLog(l, currentTerm'[f])
    <3>1. CASE ok
      BY <2>1, <2>2, <2>4, <2>6, <3>1, MergeSound
    <3>2. CASE ~ok
      BY <2>2, <2>6, <3>2
    <3>. QED  BY <3>1, <3>2
  <2>8. l \in Seq(TermEntry) /\ Len(l) \in Nat
    BY <2>7 DEF SoundLog
  <2>9. c \in Nat
    <3>1. commitIndex[f] \in Nat
      BY <1>1, <2>2
    <3>. HIDE DEF l, ok
    <3>. QED  BY <2>2, <2>8, <3>1
  <2>10. [m EXCEPT !.reply = r] \in TermCall /\ SoundEntries([m EXCEPT !.reply = r])
    BY <2>1, ReplySound
  <2>. HIDE DEF f, ok, l, c, r
  <2>11. log' \in [Node -> Seq(TermEntry)] /\ commitIndex' \in [Node -> Nat]
    BY <1>1, <2>2, <2>5, <2>8, <2>9
  <2>12. \A v \in Node : SoundLog(log'[v], currentTerm'[v])
    BY <1>1, <2>2, <2>5, <2>6, <2>7
  <2>13. calls' \subseteq TermCall /\ \A x \in calls' : SoundEntries(x)
    BY <1>1, <2>5, <2>10
  <2>. QED  BY <1>1, <1>2, <2>4, <2>5, <2>11, <2>12, <2>13
<1>14. ASSUME NEW m \in calls, AppendReplyOk(m)  PROVE TermInv'
  <2>. DEFINE n == m.from
              L == Len(log[n])
              match == [matchIndex[n] EXCEPT ![m.to] = Len(log[n])]
              top == Replicated(n, match)
              c == IF top = {} THEN commitIndex[n]
                   ELSE CHOOSE i \in top : \A j \in top : j <= i
  <2>1. n \in Node /\ m.to \in Node
    BY <1>1 DEF TermCall
  <2>2. L \in Nat /\ commitIndex[n] \in Nat
    BY <1>1, <1>3, <2>1
  <2>3. top \in SUBSET (0..L)
    <3>1. top \subseteq commitIndex[n] + 1 .. L
      BY DEF Replicated
    <3>. HIDE DEF L, top
    <3>. QED  BY <2>2, <3>1
  <2>4. /\ commitIndex' = [commitIndex EXCEPT ![n] = c]
        /\ nextIndex' = [nextIndex EXCEPT ![n][m.to] = L + 1]
        /\ calls' = calls \ {m}
        /\ UNCHANGED <<currentTerm, log, role, campaign>>
    BY <1>14 DEF AppendReplyOk, Acknowledged, AnsweredCommit, persistent
  <2>. HIDE DEF L, top
  <2>5. c \in Nat
    <3>1. ASSUME top # {}  PROVE c \in 0..L
      BY <2>2, <2>3, <3>1, GreatestExists
    <3>. QED  BY <2>2, <3>1
  <2>. HIDE DEF n, c
  <2>6. commitIndex' \in [Node -> Nat]
    BY <1>1, <2>4, <2>5
  <2>7. nextIndex' \in [Node -> [Node -> Nat \ {0}]]
    BY <1>1, <2>1, <2>2, <2>4
  <2>. QED  BY <1>1, <1>2, <2>4, <2>6, <2>7
<1>15. ASSUME NEW m \in calls, AppendReplyFail(m)  PROVE TermInv'
  <2>1. m.from \in Node /\ m.to \in Node
    BY <1>1 DEF TermCall
  <2>2. nextIndex[m.from][m.to] \in Nat \ {0}
    BY <1>1, <2>1
  <2>3. /\ nextIndex' = [nextIndex EXCEPT ![m.from][m.to] = IF @ > 1 THEN @ - 1 ELSE @]
        /\ calls' = calls \ {m}
        /\ UNCHANGED <<currentTerm, log, role, commitIndex, campaign>>
    BY <1>15 DEF AppendReplyFail, persistent, commitment
  <2>4. nextIndex' \in [Node -> [Node -> Nat \ {0}]]
    <3>. DEFINE a == m.from
                b == m.to
                x == IF nextIndex[a][b] > 1 THEN nextIndex[a][b] - 1 ELSE nextIndex[a][b]
                row == [nextIndex[a] EXCEPT ![b] = x]
    <3>1. x \in Nat \ {0}
      BY <2>2
    <3>2. nextIndex' = [nextIndex EXCEPT ![a] = row]
      BY <2>3
    <3>3. a \in Node /\ nextIndex[a] \in [Node -> Nat \ {0}]
      BY <1>1, <2>1
    <3>. HIDE DEF a, b, x
    <3>4. row \in [Node -> Nat \ {0}]
      BY <3>1, <3>3
    <3>. HIDE DEF row
    <3>. QED  BY <1>1, <3>2, <3>4
  <2>. QED  BY <1>1, <1>2, <2>3, <2>4
<1>16. ASSUME NEW m \in calls, AppendLost(m)  PROVE TermInv'
  <2>1. /\ calls' = calls \ {m}
        /\ UNCHANGED <<currentTerm, log, role, commitIndex, nextIndex, campaign>>
    BY <1>16 DEF AppendLost, persistent, commitment, leadership
  <2>. QED  BY <1>1, <1>2, <2>1
<1>17. ASSUME NEW n \in Node, Restart(n)  PROVE TermInv'
  <2>1. /\ currentTerm' = [currentTerm EXCEPT ![n] = 0]
        /\ log' = [log EXCEPT ![n] = <<>>]
        /\ role' = [role EXCEPT ![n] = "Follower"]
        /\ commitIndex' = [commitIndex EXCEPT ![n] = 0]
        /\ nextIndex' = [nextIndex EXCEPT ![n] = [p \in Node |-> 1]]
        /\ campaign' = [campaign EXCEPT ![n] = Idle]
        /\ calls' = {m \in calls : m.from # n}
    BY <1>17 DEF Restart
  <2>2. SoundLog(<<>>, 0) /\ Idle \in TermCampaign
    BY DEF SoundLog, Ordered, Idle, TermCampaign
  <2>3. /\ currentTerm' \in [Node -> Nat]
        /\ role' \in [Node -> {"Follower", "Candidate", "Leader"}]
        /\ nextIndex' \in [Node -> [Node -> Nat \ {0}]]
        /\ campaign' \in [Node -> TermCampaign]
        /\ commitIndex' \in [Node -> Nat]
        /\ log' \in [Node -> Seq(TermEntry)]
    BY <1>1, <2>1, <2>2
  <2>4. \A v \in Node : SoundLog(log'[v], currentTerm'[v])
    <3>1. ASSUME NEW v \in Node, v = n  PROVE SoundLog(log'[v], currentTerm'[v])
      <4>1. log'[v] = <<>> /\ currentTerm'[v] = 0
        BY <1>1, <2>1, <3>1
      <4>. QED  BY <4>1, <2>2
    <3>2. ASSUME NEW v \in Node, v # n  PROVE SoundLog(log'[v], currentTerm'[v])
      <4>1. log'[v] = log[v] /\ currentTerm'[v] = currentTerm[v]
        BY <1>1, <2>1, <3>2
      <4>. QED  BY <4>1, <1>1
    <3>. QED  BY <3>1, <3>2
  <2>. QED  BY <1>1, <1>2, <2>1, <2>3, <2>4
<1>18. CASE UNCHANGED vars
  BY <1>1, <1>2, <1>18 DEF vars
<1>. QED
  BY <1>6, <1>7, <1>9, <1>11, <1>12, <1>13, <1>14, <1>15, <1>16, <1>17, <1>18 DEF Next

(***************************************************************************)
(* The theorems.                                                           *)
(***************************************************************************)

(* The invariant holds of every behaviour: logs and calls under way carry
   entries whose terms climb to at most the node's, or the call's, term. *)
THEOREM TermInvariance == Spec => []TermInv
<1>1. Init => TermInv
  BY TermInit
<1>2. TermInv /\ [Next]_vars => TermInv'
  BY TermStep
<1>. QED  BY <1>1, <1>2, PTL DEF Spec

(* Along every node's log the terms never fall, and none exceeds the node's:
   so the last term, on which _handle_request_vote relies to tell a recent log,
   is the largest. *)
THEOREM TermsOrdered == Spec => []LogTermsOrdered
<1>1. TermInv => LogTermsOrdered
  <2>. SUFFICES ASSUME TermInv, NEW n \in Node
                PROVE  Ordered(log[n]) /\ LastTerm(log[n]) <= currentTerm[n]
    BY DEF LogTermsOrdered
  <2>1. /\ log[n] \in Seq(TermEntry) /\ currentTerm[n] \in Nat
        /\ SoundLog(log[n], currentTerm[n])
    BY DEF TermInv, TermTypes
  <2>. DEFINE l == log[n]
              t == currentTerm[n]
  <2>. HIDE DEF l, t
  <2>2. Ordered(l) /\ \A i \in 1..Len(l) : l[i].term <= t
    BY <2>1 DEF SoundLog, l, t
  <2>3. t \in Nat /\ l \in Seq(TermEntry)
    BY <2>1 DEF l, t
  <2>4. l # <<>> => Len(l) \in 1..Len(l)
    BY <2>3
  <2>5. LastTerm(l) <= t
    BY <2>2, <2>3, <2>4 DEF LastTerm
  <2>. QED  BY <2>2, <2>5 DEF l, t
<1>. QED  BY <1>1, TermInvariance, PTL

(* A node that leads before and after a step leads in the same term: handle_rpc
   and _start_election change the term only of a node that does not lead on. *)
THEOREM LeaderTermKept == Spec => LeaderKeepsTerm
<1>1. TermInv /\ [Next]_vars
        => [\A n \in Node : role[n] = "Leader" /\ role'[n] = "Leader"
                               => currentTerm'[n] = currentTerm[n]]_vars
  <2>. SUFFICES ASSUME TermInv, Next, NEW v \in Node,
                       role[v] = "Leader", role'[v] = "Leader"
                PROVE  currentTerm'[v] = currentTerm[v]
    OBVIOUS
  <2>1. /\ currentTerm \in [Node -> Nat]
        /\ role \in [Node -> {"Follower", "Candidate", "Leader"}]
    BY DEF TermInv, TermTypes
  <2>2. ASSUME NEW n, NEW term, AdoptTerm(n, term)  PROVE currentTerm'[v] = currentTerm[v]
    BY <2>1, <2>2 DEF AdoptTerm
  <2>3. ASSUME NEW n \in Node, StartElection(n)  PROVE currentTerm'[v] = currentTerm[v]
    BY <2>1, <2>3 DEF StartElection
  <2>4. ASSUME NEW n \in Node, Restart(n)  PROVE currentTerm'[v] = currentTerm[v]
    BY <2>1, <2>4 DEF Restart
  <2>5. ASSUME NEW n \in Node, HandleRequestVote(n)  PROVE currentTerm'[v] = currentTerm[v]
    BY <2>2, <2>5 DEF HandleRequestVote
  <2>6. ASSUME NEW m \in calls, HandleAppendEntries(m)  PROVE currentTerm'[v] = currentTerm[v]
    BY <2>2, <2>6 DEF HandleAppendEntries
  <2>7. ASSUME NEW n \in Node, VoteReply(n) \/ VoteLost(n) \/ Heartbeat(n)
        PROVE  currentTerm'[v] = currentTerm[v]
    BY <2>7 DEF VoteReply, VoteLost, Heartbeat, ElectionGoesOn, persistent
  <2>8. ASSUME NEW n \in Node, NEW command \in Command, Propose(n, command)
        PROVE  currentTerm'[v] = currentTerm[v]
    BY <2>8 DEF Propose
  <2>9. ASSUME NEW m \in calls, AppendReplyOk(m) \/ AppendReplyFail(m) \/ AppendLost(m)
        PROVE  currentTerm'[v] = currentTerm[v]
    BY <2>9 DEF AppendReplyOk, AppendReplyFail, AppendLost, persistent
  <2>. QED  BY <2>3, <2>4, <2>5, <2>6, <2>7, <2>8, <2>9 DEF Next
<1>. QED  BY <1>1, TermInvariance, PTL DEF Spec, LeaderKeepsTerm

(***************************************************************************)
(* Types.                                                                  *)
(***************************************************************************)

(* TypeOK is not inductive.  The entries and calls of a leader have a term of 1
   or more only because nobody campaigns or leads in term 0; and what is applied
   are entries only because no commit index that lies beyond the log, as one can
   after a cut, is beyond what is applied already. *)
TypeInv ==
  /\ TypeOK
  /\ \A n \in Node : role[n] = "Leader" \/ campaign[n] # Idle => currentTerm[n] >= 1
  /\ \A n \in Node : commitIndex[n] <= Len(applied[n])

(* What _apply_committed hands over are entries, and as many as are committed. *)
LEMMA ApplyTyped ==
  ASSUME NEW S, NEW a \in Seq(S), NEW l \in Seq(S), NEW c \in Nat,
         c <= Len(l) \/ c <= Len(a)
  PROVE  /\ a \o SubSeq(l, Len(a) + 1, c) \in Seq(S)
         /\ c <= Len(a \o SubSeq(l, Len(a) + 1, c))
<1>. DEFINE new == SubSeq(l, Len(a) + 1, c)
<1>1. CASE Len(a) < c
  <2>1. new \in Seq(S) /\ Len(new) = c - Len(a)
    BY <1>1
  <2>. HIDE DEF new
  <2>. QED  BY <2>1, <1>1
<1>2. CASE ~(Len(a) < c)
  <2>1. new = <<>>
    BY <1>2
  <2>. HIDE DEF new
  <2>2. a \o <<>> = a
    OBVIOUS
  <2>. QED  BY <1>2, <2>1, <2>2
<1>. QED  BY <1>1, <1>2

(* A merge of entries of some set is a sequence of entries of that set. *)
LEMMA MergeTyped ==
  ASSUME NEW S \in SUBSET Entry, NEW l \in Seq(S), NEW es \in Seq(S),
         NEW prev \in Nat, prev <= Len(l)
  PROVE  MergeLog(l, prev, es) \in Seq(S)
<1>. DEFINE kept == IF Conflicts(l, prev, es) = {} THEN Len(l)
                    ELSE prev + Least(Conflicts(l, prev, es)) - 1
<1>1. S \subseteq TermEntry
  BY DEF Entry, TermEntry
<1>2. l \in Seq(TermEntry) /\ es \in Seq(TermEntry)
  BY <1>1
<1>3. kept \in prev..Len(l)
  BY <1>2, MergeKeeps
<1>4. MergeLog(l, prev, es) = SubSeq(l, 1, kept) \o SubSeq(es, kept - prev + 1, Len(es))
  BY DEF MergeLog
<1>. HIDE DEF kept
<1>5. SubSeq(l, 1, kept) \in Seq(S)
  BY <1>3
<1>6. SubSeq(es, kept - prev + 1, Len(es)) \in Seq(S)
  BY <1>3
<1>. QED  BY <1>4, <1>5, <1>6

(* The last term of a log. *)
LEMMA LastTermTyped ==
  ASSUME NEW l \in Log
  PROVE  LastTerm(l) \in 0..MaxTerm
<1>1. \A e \in Entry : e.term \in 0..MaxTerm
  BY BoundAssumption DEF Entry
<1>2. l # <<>> => l[Len(l)] \in Entry
  BY DEF Log
<1>. QED  BY <1>1, <1>2, BoundAssumption DEF LastTerm

(* A call of a node that leads, or would, is a call. *)
LEMMA CallTyped ==
  ASSUME TypeOK, NEW n \in Node, NEW p \in Node, NEW l \in Log, currentTerm[n] >= 1
  PROVE  AppendCall(n, p, l) \in Call
<1>. DEFINE k == nextIndex[n][p] - 1
<1>1. /\ k \in Nat /\ currentTerm[n] \in 1..MaxTerm /\ commitIndex[n] \in Nat
      /\ l \in Seq(Entry)
  <2>1. nextIndex[n][p] \in Nat \ {0}
    BY DEF TypeOK
  <2>2. currentTerm[n] \in 0..MaxTerm /\ commitIndex[n] \in Nat
    BY DEF TypeOK
  <2>. QED  BY <2>1, <2>2, BoundAssumption DEF Log
<1>2. (IF k \in 1..Len(l) THEN l[k].term ELSE 0) \in 0..MaxTerm
  <2>1. \A e \in Entry : e.term \in 0..MaxTerm
    BY BoundAssumption DEF Entry
  <2>2. k \in 1..Len(l) => l[k] \in Entry
    BY <1>1
  <2>. QED  BY <2>1, <2>2, BoundAssumption
<1>3. SubSeq(l, k + 1, Len(l)) \in Log
  BY <1>1 DEF Log
<1>4. AppendCall(n, p, l) =
        [from |-> n, to |-> p, term |-> currentTerm[n], prev |-> k,
         prevTerm |-> IF k \in 1..Len(l) THEN l[k].term ELSE 0,
         entries |-> SubSeq(l, k + 1, Len(l)),
         commit |-> commitIndex[n], reply |-> "none"]
  BY DEF AppendCall
<1>. HIDE DEF k
<1>. QED  BY <1>1, <1>2, <1>3, <1>4 DEF Call

(* The initial state is of the declared types. *)
LEMMA TypeInit == Init => TypeInv
<1>. SUFFICES ASSUME Init  PROVE TypeInv
  OBVIOUS
<1>1. Idle \in Campaign /\ <<>> \in Log /\ Len(<<>>) = 0
  BY BoundAssumption DEF Idle, Campaign, Log
<1>2. TypeOK
  BY <1>1, BoundAssumption DEF Init, TypeOK
<1>. QED  BY <1>1, <1>2 DEF Init, TypeInv

(* Every step keeps the types. *)
LEMMA TypeStep == TypeInv /\ [Next]_vars => TypeInv'
<1>. SUFFICES ASSUME TypeInv, [Next]_vars  PROVE TypeInv'
  OBVIOUS
<1>0. TypeOK
  BY DEF TypeInv
<1>1. /\ currentTerm \in [Node -> 0..MaxTerm]
      /\ votedFor \in [Node -> Node \cup {None}]
      /\ log \in [Node -> Log]
      /\ role \in [Node -> {"Follower", "Candidate", "Leader"}]
      /\ commitIndex \in [Node -> Nat]
      /\ applied \in [Node -> Log]
      /\ nextIndex \in [Node -> [Node -> Nat \ {0}]]
      /\ matchIndex \in [Node -> [Node -> Nat]]
      /\ campaign \in [Node -> Campaign]
      /\ calls \subseteq Call
      /\ restarted \subseteq Restarter
      /\ \A n \in Node : role[n] = "Leader" \/ campaign[n] # Idle => currentTerm[n] >= 1
      /\ \A n \in Node : commitIndex[n] <= Len(applied[n])
      /\ MaxTerm \in Nat
  BY BoundAssumption DEF TypeInv, TypeOK
<1>. DEFINE Elected(t, r, c) ==
              \A n \in Node : r[n] = "Leader" \/ c[n] # Idle => t[n] >= 1
            Covered(c, a) == \A n \in Node : c[n] <= Len(a[n])
            ElectionTypes ==
              /\ currentTerm \in [Node -> 0..MaxTerm]
              /\ votedFor \in [Node -> Node \cup {None}]
              /\ role \in [Node -> {"Follower", "Candidate", "Leader"}]
              /\ campaign \in [Node -> Campaign]
            LogTypes ==
              /\ log \in [Node -> Log]
              /\ commitIndex \in [Node -> Nat]
              /\ applied \in [Node -> Log]
            IndexTypes ==
              /\ nextIndex \in [Node -> [Node -> Nat \ {0}]]
              /\ matchIndex \in [Node -> [Node -> Nat]]
            CallTypes == calls \subseteq Call
<1>2. ASSUME ElectionTypes', LogTypes', IndexTypes', CallTypes', restarted' \subseteq Restarter,
             Elected(currentTerm', role', campaign'), Covered(commitIndex', applied')
      PROVE  TypeInv'
  BY <1>2 DEF TypeInv, TypeOK
<1>3. /\ ElectionTypes /\ LogTypes /\ IndexTypes /\ CallTypes
      /\ Elected(currentTerm, role, campaign) /\ Covered(commitIndex, applied)
  BY <1>1
<1>4. /\ UNCHANGED <<currentTerm, votedFor, role, campaign>>
           => ElectionTypes' /\ Elected(currentTerm', role', campaign')
      /\ UNCHANGED <<log, commitIndex, applied>>
           => LogTypes' /\ Covered(commitIndex', applied')
      /\ UNCHANGED <<nextIndex, matchIndex>> => IndexTypes'
  BY <1>3
<1>. HIDE DEF Elected, Covered, ElectionTypes, LogTypes, IndexTypes, CallTypes
<1>5. \A n \in Node : /\ log[n] \in Log /\ log[n] \in Seq(Entry) /\ Len(log[n]) \in Nat
                      /\ applied[n] \in Log /\ applied[n] \in Seq(Entry)
                      /\ currentTerm[n] \in 0..MaxTerm /\ commitIndex[n] \in Nat
  BY <1>1 DEF Log
(* Adopting a term keeps the election's types: it lowers none. *)
<1>6. ASSUME NEW n \in Node, NEW t \in 0..MaxTerm, AdoptTerm(n, t),
             votedFor' \in [Node -> Node \cup {None}],
             campaign' \in [Node -> Campaign],
             \A x \in Node : campaign'[x] # Idle => campaign[x] # Idle
      PROVE  ElectionTypes' /\ Elected(currentTerm', role', campaign')
  <2>1. /\ currentTerm' = [currentTerm EXCEPT ![n] = IF t > @ THEN t ELSE @]
        /\ role' = [role EXCEPT ![n] = IF t > currentTerm[n] THEN "Follower" ELSE @]
    BY <1>6 DEF AdoptTerm
  <2>2. ElectionTypes'
    BY <1>1, <1>6, <2>1 DEF ElectionTypes
  <2>3. ASSUME NEW x \in Node, role'[x] = "Leader" \/ campaign'[x] # Idle
        PROVE  currentTerm'[x] >= 1
    <3>1. role[x] = "Leader" \/ campaign[x] # Idle
      BY <1>1, <1>6, <2>1, <2>3
    <3>2. currentTerm[x] >= 1 /\ currentTerm[x] \in 0..MaxTerm
      BY <1>1, <3>1
    <3>3. currentTerm'[x] = IF x = n /\ t > currentTerm[n] THEN t ELSE currentTerm[x]
      BY <1>1, <2>1
    <3>. QED  BY <1>1, <3>2, <3>3
  <2>. QED  BY <2>2, <2>3 DEF Elected
<1>7. ASSUME NEW n \in Node, StartElection(n)  PROVE TypeInv'
  <2>1. /\ currentTerm' = [currentTerm EXCEPT ![n] = @ + 1]
        /\ currentTerm[n] < MaxTerm
        /\ votedFor' = [votedFor EXCEPT ![n] = n]
        /\ role' = [role EXCEPT ![n] = "Candidate"]
        /\ UNCHANGED <<log, commitIndex, applied, nextIndex, matchIndex, calls, restarted>>
    BY <1>7 DEF StartElection, commitment, leadership
  <2>2. currentTerm[n] + 1 \in 0..MaxTerm /\ currentTerm[n] + 1 >= 1
    BY <1>1, <1>5, <2>1
  <2>3. \E c \in Campaign : campaign' = [campaign EXCEPT ![n] = c]
    <3>. DEFINE c0 == [Idle EXCEPT !.todo = Peers(n), !.votes = 1,
                                   !.lastIndex = Len(log[n]), !.lastTerm = LastTerm(log[n])]
    <3>1. PICK p \in Peers(n) :
            campaign' = [campaign EXCEPT ![n] = Ask(n, c0, p, currentTerm[n] + 1)]
      BY <1>7 DEF StartElection
    <3>2. p \in Node /\ Peers(n) \subseteq Node
      BY DEF Peers
    <3>3. c0 \in Campaign
      <4>1. LastTerm(log[n]) \in 0..MaxTerm /\ Len(log[n]) \in Nat
        BY <1>5, LastTermTyped
      <4>2. ASSUME NEW P \in SUBSET Node, NEW k \in Nat, NEW t \in 0..MaxTerm
            PROVE  [Idle EXCEPT !.todo = P, !.votes = 1, !.lastIndex = k, !.lastTerm = t]
                     \in Campaign
        <5>1. 0 \in 0..MaxTerm /\ 1 \in Nat
          BY <1>1
        <5>. QED  BY <5>1 DEF Idle, Campaign
      <4>. QED  BY <3>2, <4>1, <4>2
    <3>. HIDE DEF c0
    <3>4. Ask(n, c0, p, currentTerm[n] + 1) \in Campaign
      BY <2>2, <3>2, <3>3 DEF Ask, Campaign
    <3>. QED  BY <3>1, <3>4
  <2>4. ElectionTypes'
    BY <1>1, <2>1, <2>2, <2>3 DEF ElectionTypes
  <2>5. ASSUME NEW x \in Node, role'[x] = "Leader" \/ campaign'[x] # Idle
        PROVE  currentTerm'[x] >= 1
    BY <1>1, <2>1, <2>2, <2>3, <2>5
  <2>. QED  BY <1>1, <1>2, <1>3, <1>4, <2>1, <2>4, <2>5 DEF Elected, CallTypes
<1>8. ASSUME NEW n \in Node, HandleRequestVote(n)  PROVE TypeInv'
  <2>. DEFINE c == campaign[n]
              v == c.asked
  <2>1. c \in Campaign /\ c # Idle
    BY <1>1, <1>8 DEF HandleRequestVote, Idle
  <2>2. c.term \in 0..MaxTerm /\ v \in Node
    BY <1>8, <2>1 DEF HandleRequestVote, Campaign
  <2>3. /\ AdoptTerm(v, c.term)
        /\ UNCHANGED <<log, commitIndex, applied, nextIndex, matchIndex, calls, restarted>>
    BY <1>8 DEF HandleRequestVote, commitment, leadership
  <2>4. votedFor' \in [Node -> Node \cup {None}]
    BY <1>1, <1>8, <2>2 DEF HandleRequestVote
  <2>5. \E d \in Campaign : campaign' = [campaign EXCEPT ![n] = d]
    <3>1. \A r \in {"granted", "denied"} : [c EXCEPT !.reply = r] \in Campaign
      <4>. HIDE DEF c
      <4>. QED  BY <2>1 DEF Campaign
    <3>2. \E r \in {"granted", "denied"} :
            campaign' = [campaign EXCEPT ![n] = [campaign[n] EXCEPT !.reply = r]]
      BY <1>8 DEF HandleRequestVote
    <3>. QED  BY <3>1, <3>2
  <2>6. /\ campaign' \in [Node -> Campaign]
        /\ \A x \in Node : campaign'[x] # Idle => campaign[x] # Idle
    BY <1>1, <2>1, <2>5
  <2>. HIDE DEF c, v
  <2>7. ElectionTypes' /\ Elected(currentTerm', role', campaign')
    <3>1. AdoptTerm(v, c.term)
      BY <2>3
    <3>. QED  BY ONLY <1>6, <2>2, <2>4, <2>6, <3>1
  <2>. QED  BY <1>1, <1>2, <1>3, <1>4, <2>3, <2>7 DEF CallTypes
<1>9. ASSUME NEW n \in Node, NEW granted \in BOOLEAN, campaign[n] # Idle,
             ElectionGoesOn(n, granted)
      PROVE  TypeInv'
  <2>. DEFINE c == campaign[n]
              votes == IF granted THEN c.votes + 1 ELSE c.votes
  <2>1. UNCHANGED <<currentTerm, log, commitIndex, applied, calls, restarted>>
    BY <1>9 DEF ElectionGoesOn, commitment
  <2>2. c \in Campaign /\ votes \in Nat /\ Idle \in Campaign /\ currentTerm[n] >= 1
    <3>1. c \in Campaign /\ currentTerm[n] >= 1
      BY <1>1, <1>9
    <3>2. votes \in Nat
      BY ONLY <3>1 DEF Campaign
    <3>3. Idle \in Campaign
      BY BoundAssumption DEF Campaign, Idle
    <3>. QED  BY ONLY <3>1, <3>2, <3>3
  <2>3. campaign' \in [Node -> Campaign]
        /\ \A x \in Node : x # n => campaign'[x] = campaign[x]
    <3>1. ASSUME NEW p \in c.todo
          PROVE  Ask(n, [c EXCEPT !.votes = votes], p, currentTerm[n]) \in Campaign
      <4>1. currentTerm[n] \in 0..MaxTerm /\ p \in Node
        BY <1>5, <2>2 DEF Campaign
      <4>. HIDE DEF c, votes
      <4>2. [c EXCEPT !.votes = votes] \in Campaign
        BY <2>2 DEF Campaign
      <4>. QED  BY <4>1, <4>2 DEF Ask, Campaign
    <3>2. \/ campaign' = [campaign EXCEPT ![n] = Idle]
          \/ \E p \in c.todo :
               campaign' = [campaign EXCEPT ![n] =
                              Ask(n, [c EXCEPT !.votes = votes], p, currentTerm[n])]
      BY <1>9 DEF ElectionGoesOn
    <3>. QED  BY <1>1, <2>2, <3>1, <3>2
  <2>4. /\ votedFor' \in [Node -> Node \cup {None}]
        /\ role' \in [Node -> {"Follower", "Candidate", "Leader"}]
        /\ \A x \in Node : x # n => role'[x] = role[x]
    <3>1. role \in [Node -> {"Follower", "Candidate", "Leader"}] /\ votedFor \in [Node -> Node \cup {None}]
      BY <1>1
    <3>. QED  BY <1>9, <3>1 DEF ElectionGoesOn
  <2>5. IndexTypes'
    <3>1. /\ [p \in Node |-> Len(log[n]) + 1] \in [Node -> Nat \ {0}]
          /\ [p \in Node |-> 0] \in [Node -> Nat]
      BY <1>5
    <3>2. \/ nextIndex' = nextIndex /\ matchIndex' = matchIndex
          \/ /\ nextIndex' = [nextIndex EXCEPT ![n] = [p \in Node |-> Len(log[n]) + 1]]
             /\ matchIndex' = [matchIndex EXCEPT ![n] = [p \in Node |-> 0]]
      BY <1>9 DEF ElectionGoesOn, leadership
    <3>3. nextIndex \in [Node -> [Node -> Nat \ {0}]] /\ matchIndex \in [Node -> [Node -> Nat]]
      BY <1>1
    <3>. QED  BY ONLY <3>1, <3>2, <3>3 DEF IndexTypes
  <2>6. ElectionTypes'
    BY <1>1, <2>1, <2>3, <2>4 DEF ElectionTypes
  <2>7. Elected(currentTerm', role', campaign')
    BY <1>1, <2>1, <2>2, <2>3, <2>4 DEF Elected
  <2>. QED  BY <1>1, <1>2, <1>3, <1>4, <2>1, <2>5, <2>6, <2>7 DEF CallTypes
<1>10. ASSUME NEW n \in Node, VoteReply(n) \/ VoteLost(n)  PROVE TypeInv'
  <2>1. \E granted \in BOOLEAN : ElectionGoesOn(n, granted)
    BY <1>10 DEF VoteReply, VoteLost
  <2>2. campaign[n] # Idle
    <3>1. Idle.asked = None /\ Idle.reply = "none"
      BY DEF Idle
    <3>. QED  BY <1>10, <3>1 DEF VoteReply, VoteLost
  <2>. QED  BY <1>9, <2>1, <2>2
<1>11. ASSUME NEW n \in Node, NEW l \in Log, role[n] = "Leader", BroadcastAppendEntries(n, l)
       PROVE  CallTypes'
  <2>1. ASSUME NEW p \in Node  PROVE AppendCall(n, p, l) \in Call
    BY <1>0, <1>1, <1>11, CallTyped
  <2>2. PICK reached \in SUBSET Node :
          calls' = calls \cup {AppendCall(n, p, l) : p \in reached}
    BY <1>11 DEF BroadcastAppendEntries, Peers
  <2>. QED  BY <1>1, <2>1, <2>2 DEF CallTypes
<1>12. ASSUME NEW n \in Node, Heartbeat(n)  PROVE TypeInv'
  <2>1. CallTypes'
    BY <1>5, <1>11, <1>12 DEF Heartbeat
  <2>. QED  BY <1>1, <1>2, <1>4, <1>12, <2>1 DEF Heartbeat, persistent, commitment, leadership
<1>13. ASSUME NEW n \in Node, NEW command \in Command, Propose(n, command)
       PROVE  TypeInv'
  <2>. DEFINE e == [term |-> currentTerm[n], command |-> command]
              l == Append(log[n], e)
  <2>1. role[n] = "Leader" /\ currentTerm[n] \in 1..MaxTerm
    BY <1>1, <1>5, <1>13 DEF Propose
  <2>2. e \in Entry
    BY <2>1 DEF Entry
  <2>. HIDE DEF e
  <2>3. l \in Log
    BY <1>5, <2>2 DEF Log
  <2>4. log' = [log EXCEPT ![n] = l]
    BY <1>13 DEF Propose, e
  <2>. HIDE DEF l
  <2>5. log'[n] = l
    BY <1>1, <2>4
  <2>6. CallTypes'
    BY <1>11, <1>13, <2>1, <2>3, <2>5 DEF Propose
  <2>7. UNCHANGED <<currentTerm, votedFor, role, commitIndex, applied, nextIndex, matchIndex,
                    campaign, restarted>>
    BY <1>13 DEF Propose, commitment, leadership
  <2>8. LogTypes' /\ Covered(commitIndex', applied')
    BY <1>1, <2>3, <2>4, <2>7 DEF LogTypes, Covered
  <2>. QED  BY <1>1, <1>2, <1>4, <2>6, <2>7, <2>8
(* A node that has the log l and the commit index c applies up to c. *)
<1>14. ASSUME NEW f \in Node, NEW l \in Log, NEW c \in Nat,
              c <= Len(l) \/ c = commitIndex[f],
              log' = [log EXCEPT ![f] = l], commitIndex' = [commitIndex EXCEPT ![f] = c],
              Apply(f, l, c)
       PROVE  LogTypes' /\ Covered(commitIndex', applied')
  <2>. DEFINE a == applied[f] \o SubSeq(l, Len(applied[f]) + 1, c)
  <2>1. c <= Len(l) \/ c <= Len(applied[f])
    BY <1>1, <1>14
  <2>2. a \in Log /\ c <= Len(a)
    BY <1>5, <2>1, ApplyTyped DEF Log
  <2>3. applied' = [applied EXCEPT ![f] = a]
    BY <1>14 DEF Apply
  <2>. HIDE DEF a
  <2>. QED  BY <1>1, <1>14, <2>2, <2>3 DEF LogTypes, Covered
<1>15. ASSUME NEW m \in calls, HandleAppendEntries(m)  PROVE TypeInv'
  <2>. DEFINE f == m.to
              l == TakenLog(m)
              c == TakenCommit(m)
              r == IF Consistent(log[f], m) THEN "ok" ELSE "fail"
  <2>1. /\ m \in Call /\ f \in Node /\ m.term \in 0..MaxTerm /\ m.commit \in Nat
        /\ m.prev \in Nat /\ m.entries \in Log
    <3>1. m \in Call
      BY <1>1
    <3>. QED  BY ONLY <3>1 DEF Call
  <2>2. /\ AdoptTerm(f, m.term)
        /\ log' = [log EXCEPT ![f] = l]
        /\ commitIndex' = [commitIndex EXCEPT ![f] = c]
        /\ Apply(f, l, c)
        /\ calls' = (calls \ {m}) \cup {[m EXCEPT !.reply = r]}
        /\ UNCHANGED <<votedFor, nextIndex, matchIndex, campaign, restarted>>
    BY <1>15 DEF HandleAppendEntries, leadership
  <2>3. l \in Log
    <3>1. CASE Consistent(log[f], m)
      <4>1. m.prev <= Len(log[f])
        BY <1>5, <2>1, <3>1 DEF Consistent
      <4>. QED  BY <1>5, <2>1, <3>1, <4>1, MergeTyped DEF TakenLog, Log
    <3>2. CASE ~Consistent(log[f], m)
      BY <1>5, <2>1, <3>2 DEF TakenLog
    <3>. QED  BY <3>1, <3>2
  <2>4. Len(l) \in Nat
    BY <2>3 DEF Log
  <2>5. c \in Nat /\ (c <= Len(l) \/ c = commitIndex[f])
    <3>1. \/ c = commitIndex[f]
          \/ c = IF m.commit < Len(l) THEN m.commit ELSE Len(l)
      BY DEF TakenCommit
    <3>. HIDE DEF l, c
    <3>. QED  BY <1>5, <2>1, <2>4, <3>1
  <2>6. [m EXCEPT !.reply = r] \in Call
    BY <2>1 DEF Call
  <2>. HIDE DEF f, l, c, r
  <2>7. ElectionTypes' /\ Elected(currentTerm', role', campaign')
    BY <1>1, <1>6, <2>1, <2>2
  <2>8. LogTypes' /\ Covered(commitIndex', applied')
    BY <1>14, <2>1, <2>2, <2>3, <2>5
  <2>9. CallTypes'
    BY <1>1, <2>2, <2>6 DEF CallTypes
  <2>. QED  BY <1>1, <1>2, <1>4, <2>2, <2>7, <2>8, <2>9
<1>16. ASSUME NEW m \in calls, AppendReplyOk(m)  PROVE TypeInv'
  <2>. DEFINE n == m.from
              L == Len(log[n])
              top == Replicated(n, Acknowledged(m))
              c == AnsweredCommit(m)
  <2>1. n \in Node /\ m.to \in Node
    BY <1>1 DEF Call
  <2>2. /\ matchIndex' = [matchIndex EXCEPT ![n] = [matchIndex[n] EXCEPT ![m.to] = L]]
        /\ nextIndex' = [nextIndex EXCEPT ![n][m.to] = L + 1]
        /\ commitIndex' = [commitIndex EXCEPT ![n] = c]
        /\ Apply(n, log[n], c)
        /\ calls' = calls \ {m}
        /\ UNCHANGED <<currentTerm, votedFor, log, role, campaign, restarted>>
    BY <1>16 DEF AppendReplyOk, Acknowledged, persistent
  <2>3. L \in Nat /\ commitIndex[n] \in Nat
    BY <1>5, <2>1
  <2>4. top \in SUBSET (0..L)
    <3>1. top \subseteq commitIndex[n] + 1 .. L
      BY DEF Replicated
    <3>. HIDE DEF L, top
    <3>. QED  BY <2>3, <3>1
  <2>5. c = IF top = {} THEN commitIndex[n] ELSE CHOOSE i \in top : \A j \in top : j <= i
    BY DEF AnsweredCommit
  <2>. HIDE DEF top, c
  <2>6. c \in Nat /\ (c <= L \/ c = commitIndex[n])
    <3>. HIDE DEF L
    <3>1. ASSUME top # {}  PROVE c \in 0..L
      BY <2>3, <2>4, <2>5, <3>1, GreatestExists
    <3>. QED  BY <2>3, <2>5, <3>1
  <2>7. LogTypes' /\ Covered(commitIndex', applied')
    <3>1. log' = [log EXCEPT ![n] = log[n]]
      BY <1>1, <2>2
    <3>. QED  BY <1>5, <1>14, <2>1, <2>2, <2>6, <3>1
  <2>8. IndexTypes'
    <3>. HIDE DEF n, L
    <3>1. [matchIndex[n] EXCEPT ![m.to] = L] \in [Node -> Nat]
      BY <1>1, <2>1, <2>3
    <3>2. L + 1 \in Nat \ {0}
      BY <2>3
    <3>. QED  BY <1>1, <2>1, <2>2, <3>1, <3>2 DEF IndexTypes
  <2>. QED  BY <1>1, <1>2, <1>4, <2>2, <2>7, <2>8 DEF CallTypes
<1>17. ASSUME NEW m \in calls, AppendReplyFail(m)  PROVE TypeInv'
  <2>. DEFINE a == m.from
              b == m.to
              x == IF nextIndex[a][b] > 1 THEN nextIndex[a][b] - 1 ELSE nextIndex[a][b]
              row == [nextIndex[a] EXCEPT ![b] = x]
  <2>1. a \in Node /\ b \in Node
    BY <1>1 DEF Call
  <2>2. /\ nextIndex' = [nextIndex EXCEPT ![a] = row]
        /\ calls' = calls \ {m}
        /\ UNCHANGED <<currentTerm, votedFor, log, role, commitIndex, applied, matchIndex,
                       campaign, restarted>>
    BY <1>17 DEF AppendReplyFail, persistent, commitment
  <2>3. nextIndex[a][b] \in Nat \ {0} /\ nextIndex[a] \in [Node -> Nat \ {0}]
    BY <1>1, <2>1
  <2>4. x \in Nat \ {0}
    BY <2>3
  <2>. HIDE DEF a, b, x
  <2>5. row \in [Node -> Nat \ {0}]
    BY <2>3, <2>4
  <2>. HIDE DEF row
  <2>6. IndexTypes'
    BY <1>1, <2>2, <2>5 DEF IndexTypes
  <2>. QED  BY <1>1, <1>2, <1>4, <2>2, <2>6 DEF CallTypes
<1>18. ASSUME NEW m \in calls, AppendLost(m)  PROVE TypeInv'
  BY <1>1, <1>2, <1>4, <1>18 DEF AppendLost, persistent, commitment, leadership, CallTypes
<1>19. ASSUME NEW n \in Node, Restart(n)  PROVE TypeInv'
  <2>1. /\ restarted' = restarted \cup {n} /\ n \in Restarter
        /\ currentTerm' = [currentTerm EXCEPT ![n] = 0]
        /\ votedFor' = [votedFor EXCEPT ![n] = None]
        /\ log' = [log EXCEPT ![n] = <<>>]
        /\ role' = [role EXCEPT ![n] = "Follower"]
        /\ commitIndex' = [commitIndex EXCEPT ![n] = 0]
        /\ applied' = [applied EXCEPT ![n] = <<>>]
        /\ nextIndex' = [nextIndex EXCEPT ![n] = [p \in Node |-> 1]]
        /\ matchIndex' = [matchIndex EXCEPT ![n] = [p \in Node |-> 0]]
        /\ campaign' = [campaign EXCEPT ![n] = Idle]
        /\ calls' = {m \in calls : m.from # n}
    BY <1>19 DEF Restart
  <2>2. <<>> \in Log /\ Len(<<>>) = 0 /\ Idle \in Campaign
    BY <1>1 DEF Log, Idle, Campaign
  <2>3. ElectionTypes' /\ Elected(currentTerm', role', campaign')
    BY <1>1, <2>1, <2>2 DEF ElectionTypes, Elected
  <2>4. LogTypes' /\ Covered(commitIndex', applied')
    BY <1>1, <2>1, <2>2 DEF LogTypes, Covered
  <2>5. IndexTypes'
    BY <1>1, <2>1 DEF IndexTypes
  <2>. QED  BY <1>1, <1>2, <2>1, <2>3, <2>4, <2>5 DEF CallTypes
<1>20. CASE UNCHANGED vars
  BY <1>1, <1>2, <1>4, <1>20 DEF vars, CallTypes
<1>. QED
  BY <1>7, <1>8, <1>10, <1>12, <1>13, <1>15, <1>16, <1>17, <1>18, <1>19, <1>20 DEF Next

(* The types, with those of every call under way, for any cluster. *)
THEOREM TypeInvariance == Spec => []TypeInv
<1>. QED  BY TypeInit, TypeStep, PTL DEF Spec

(* Whatever is lost, delayed or restarted, and although a commit index may come
   to lie beyond a log that was cut, what is applied are entries, and every term
   on the way, in a log and in a call is one that was campaigned for. *)
THEOREM Typed == Spec => []TypeOK
<1>1. TypeInv => TypeOK
  BY DEF TypeInv
<1>. QED  BY <1>1, TypeInvariance, PTL

(***************************************************************************)
(* One campaigner.  The cluster of which StateMachineSafety and            *)
(* FollowersTrail are stated: only L campaigns, and L does not restart;    *)
(* everything else may be lost, delayed, repeated or restarted.            *)
(***************************************************************************)

(* a is the beginning of b, place by place. *)
Within(a, b) == Len(a) <= Len(b) /\ \A i \in 1..Len(a) : a[i] = b[i]

(* The call m carries what the log l has after place m.prev. *)
CopiesFrom(m, l) ==
  /\ m.prev + Len(m.entries) <= Len(l)
  /\ \A k \in 1..Len(m.entries) : m.entries[k] = l[m.prev + k]

(* FollowersTrail is not inductive: a follower takes what a call carries, so the
   calls under way have to be copies of L's log, and so has what L will send
   from next_index on; and nobody else may come to lead.  That what is applied
   is in the log needs the logs of followers never to be cut, which holds since
   no call conflicts with them. *)
TrailInv(L) ==
  /\ TypeInv
  /\ \A n \in Node \ {L} : role[n] # "Leader" /\ campaign[n] = Idle
  /\ \A p \in Node : nextIndex[L][p] <= Len(log[L]) + 1
  /\ \A m \in calls : m.from = L /\ m.to # L /\ CopiesFrom(m, log[L])
  /\ \A p \in Node : Within(log[p], log[L]) /\ Within(applied[p], log[p])

(* What lies within a log is a beginning of it. *)
LEMMA WithinIsPrefix ==
  ASSUME NEW S, NEW a \in Seq(S), NEW b \in Seq(S), Within(a, b)
  PROVE  Prefix(a, b)
<1>1. Len(a) \in Nat /\ Len(b) \in Nat /\ Len(a) <= Len(b) /\ \A i \in 1..Len(a) : a[i] = b[i]
  BY DEF Within
<1>. DEFINE c == SubSeq(b, 1, Len(a))
<1>2. c \in Seq(S) /\ Len(c) = Len(a) /\ \A i \in 1..Len(a) : c[i] = b[i]
  BY <1>1
<1>. HIDE DEF c
<1>3. a = c
  BY <1>1, <1>2, SeqEqual
<1>. QED  BY <1>1, <1>3 DEF Prefix, c

(* A beginning of a beginning is one. *)
LEMMA WithinTransitive ==
  ASSUME NEW S, NEW a \in Seq(S), NEW b \in Seq(S), NEW c \in Seq(S),
         Within(a, b), Within(b, c)
  PROVE  Within(a, c)
BY DEF Within

(* Of two beginnings of one log, one is the beginning of the other. *)
LEMMA WithinComparable ==
  ASSUME NEW S, NEW a \in Seq(S), NEW b \in Seq(S), NEW c \in Seq(S),
         Within(a, c), Within(b, c)
  PROVE  Within(a, b) \/ Within(b, a)
<1>1. Len(a) \in Nat /\ Len(b) \in Nat
  OBVIOUS
<1>2. CASE Len(a) <= Len(b)
  BY <1>1, <1>2 DEF Within
<1>3. CASE Len(b) <= Len(a)
  BY <1>1, <1>3 DEF Within
<1>. QED  BY <1>1, <1>2, <1>3

(* What a node applies further is what its log has next. *)
LEMMA ApplyTrails ==
  ASSUME NEW S, NEW a \in Seq(S), NEW l \in Seq(S), NEW c \in Nat,
         Within(a, l), c <= Len(l) \/ c <= Len(a)
  PROVE  Within(a \o SubSeq(l, Len(a) + 1, c), l)
<1>. DEFINE new == SubSeq(l, Len(a) + 1, c)
            A == Len(a)
<1>1. A \in Nat /\ Len(l) \in Nat /\ A <= Len(l) /\ \A i \in 1..A : a[i] = l[i]
  BY DEF Within
<1>2. CASE A < c
  <2>1. c <= Len(l)
    BY <1>1, <1>2
  <2>2. /\ new \in Seq(S) /\ Len(new) = c - A
        /\ \A i \in 1..(c - A) : new[i] = l[A + i]
    BY <1>1, <1>2, <2>1
  <2>. DEFINE r == a \o new
  <2>. HIDE DEF new
  <2>3. /\ r \in Seq(S) /\ Len(r) = c
        /\ \A i \in 1..c : r[i] = IF i <= A THEN a[i] ELSE new[i - A]
    <3>1. A + Len(new) = c
      BY <1>1, <2>2
    <3>2. /\ r \in Seq(S) /\ Len(r) = A + Len(new)
          /\ \A i \in 1..(A + Len(new)) : r[i] = IF i <= A THEN a[i] ELSE new[i - A]
      BY <2>2, ConcatProperties
    <3>. QED  BY <3>1, <3>2
  <2>. HIDE DEF r
  <2>4. ASSUME NEW i \in 1..c  PROVE r[i] = l[i]
    <3>1. CASE i <= A
      BY <1>1, <2>3, <3>1
    <3>2. CASE ~(i <= A)
      <4>1. i - A \in 1..(c - A) /\ A + (i - A) = i
        BY <1>1, <3>2
      <4>. QED  BY <2>2, <2>3, <3>2, <4>1
    <3>. QED  BY <3>1, <3>2
  <2>5. Within(r, l)
    BY <2>1, <2>3, <2>4 DEF Within
  <2>. QED  BY <2>5 DEF r, new
<1>3. CASE ~(A < c)
  <2>1. new = <<>>
    BY <1>1, <1>3
  <2>2. a \o <<>> = a
    OBVIOUS
  <2>. QED  BY <2>1, <2>2
<1>. QED  BY <1>2, <1>3

(* A merge of copies into a beginning of the same log cuts nothing: the result
   is a beginning of it again, and begins with what was there. *)
LEMMA MergeTrails ==
  ASSUME NEW l \in Log, NEW full \in Log, Within(l, full),
         NEW m, m.entries \in Log, m.prev \in Nat, m.prev <= Len(l), CopiesFrom(m, full)
  PROVE  LET r == MergeLog(l, m.prev, m.entries) IN Within(r, full) /\ Within(l, r)
<1>. DEFINE es == m.entries
            prev == m.prev
            L == Len(l)
            E == Len(es)
            s == L - prev
            head == SubSeq(l, 1, L)
            tail == SubSeq(es, s + 1, E)
            r == head \o tail
            B == IF s < E THEN E - s ELSE 0
<1>1. /\ l \in Seq(Entry) /\ es \in Seq(Entry) /\ full \in Seq(Entry)
      /\ L \in Nat /\ E \in Nat /\ prev \in Nat /\ s \in Nat /\ L = prev + s
      /\ Len(full) \in Nat /\ L <= Len(full) /\ prev + E <= Len(full)
      /\ \A i \in 1..L : l[i] = full[i]
      /\ \A k \in 1..E : es[k] = full[prev + k]
  BY DEF Log, Within, CopiesFrom
<1>2. Conflicts(l, prev, es) = {}
  <2>. HIDE DEF L, E, prev, es
  <2>1. ASSUME NEW k \in 1..E, prev + k <= L  PROVE l[prev + k] = es[k]
    <3>1. prev + k \in 1..L
      BY <1>1, <2>1
    <3>. QED  BY <1>1, <3>1
  <2>. QED  BY <2>1 DEF Conflicts, L, E
<1>3. MergeLog(l, prev, es) = r
  BY <1>2 DEF MergeLog
<1>. HIDE DEF prev, es
<1>4. head \in Seq(Entry) /\ Len(head) = L /\ \A i \in 1..L : head[i] = l[i]
  <2>1. l \in Seq(Entry) /\ L = Len(l) /\ L \in Nat
    BY <1>1
  <2>. HIDE DEF s, L
  <2>. QED  BY <2>1
<1>5. B \in Nat /\ (s < E => B = E - s) /\ (~(s < E) => B = 0)
  <2>1. s \in Nat /\ E \in Nat
    BY <1>1
  <2>. HIDE DEF s, E
  <2>. QED  BY <2>1
<1>6. /\ tail \in Seq(Entry) /\ Len(tail) = B
      /\ \A i \in 1..B : s + i \in 1..E /\ tail[i] = es[s + i]
  <2>. HIDE DEF s, B, L
  <2>1. CASE s < E
    <3>1. /\ es \in Seq(Entry) /\ E = Len(es) /\ E \in Nat /\ s \in Nat
          /\ s + 1 \in 1..(E + 1) /\ B = E - s /\ B \in Nat
      BY <1>1, <1>5, <2>1
    <3>. HIDE DEF E
    <3>2. tail \in Seq(Entry) /\ Len(tail) = B
      BY <2>1, <3>1
    <3>3. \A i \in 1..B : s + i \in 1..E /\ tail[i] = es[s + i]
      BY <2>1, <3>1
    <3>. QED  BY <3>2, <3>3
  <2>2. CASE ~(s < E)
    <3>1. tail = <<>>
      BY <1>1, <2>2
    <3>2. <<>> \in Seq(Entry) /\ Len(<<>>) = 0
      OBVIOUS
    <3>. HIDE DEF tail
    <3>. QED  BY <1>5, <2>2, <3>1, <3>2
  <2>. QED  BY <2>1, <2>2
<1>. HIDE DEF head, tail, B, s, L
<1>7. /\ r \in Seq(Entry) /\ Len(r) = L + B
      /\ \A i \in 1..(L + B) : r[i] = IF i <= L THEN head[i] ELSE tail[i - L]
  <2>1. Len(head) + Len(tail) = L + B
    BY <1>4, <1>6
  <2>. QED  BY <1>4, <1>6, <2>1, ConcatProperties
<1>. HIDE DEF r
<1>8. ASSUME NEW i \in 1..(L + B)
      PROVE  i \in 1..Len(full) /\ r[i] = full[i] /\ (i <= L => r[i] = l[i])
  <2>1. CASE i <= L
    <3>1. i \in 1..L /\ i \in 1..Len(full)
      BY <1>1, <2>1
    <3>. QED  BY <1>1, <1>4, <1>7, <2>1, <3>1
  <2>2. CASE ~(i <= L)
    <3>1. i - L \in 1..B
      BY <1>1, <1>5, <2>2
    <3>2. r[i] = es[s + (i - L)] /\ s + (i - L) \in 1..E
      <4>1. r[i] = tail[i - L]
        BY <1>7, <2>2
      <4>2. tail[i - L] = es[s + (i - L)] /\ s + (i - L) \in 1..E
        BY ONLY <1>6, <3>1
      <4>. QED  BY ONLY <4>1, <4>2
    <3>3. prev + (s + (i - L)) = i
      BY <1>1, <1>5
    <3>4. i \in 1..Len(full)
      BY <1>1, <1>5, <3>2, <3>3
    <3>. QED  BY <1>1, <2>2, <3>2, <3>3, <3>4
  <2>. QED  BY <2>1, <2>2
<1>9. L + B <= Len(full) /\ L <= L + B /\ L + B \in Nat
  <2>1. L + B = 0 \/ L + B \in 1..(L + B)
    BY <1>1, <1>5
  <2>2. L + B = 0 \/ L + B \in 1..Len(full)
    BY <1>8, <2>1
  <2>. QED  BY <1>1, <1>5, <2>2
<1>10. Within(r, full)
  BY <1>7, <1>8, <1>9 DEF Within
<1>11. Within(l, r)
  <2>1. ASSUME NEW i \in 1..L  PROVE l[i] = r[i]
    <3>1. i \in 1..(L + B) /\ i <= L
      BY <1>1, <1>9
    <3>. QED  BY <1>8, <3>1
  <2>. QED  BY <1>7, <1>9, <2>1 DEF Within, L
<1>. QED  BY <1>3, <1>10, <1>11 DEF prev, es

(* A call carries a copy of the log it is built from. *)
LEMMA CallCopies ==
  ASSUME NEW n, NEW p, NEW l \in Log, nextIndex[n][p] \in Nat \ {0},
         nextIndex[n][p] <= Len(l) + 1
  PROVE  LET m == AppendCall(n, p, l) IN m.from = n /\ m.to = p /\ CopiesFrom(m, l)
<1>. DEFINE k == nextIndex[n][p] - 1
            m == AppendCall(n, p, l)
            es == SubSeq(l, k + 1, Len(l))
<1>1. k \in Nat /\ k <= Len(l) /\ l \in Seq(Entry) /\ Len(l) \in Nat
  BY DEF Log
<1>2. m.from = n /\ m.to = p /\ m.prev = k /\ m.entries = es
  BY DEF AppendCall
<1>. HIDE DEF k, m
<1>3. Len(es) = Len(l) - k /\ \A i \in 1..(Len(l) - k) : es[i] = l[k + i]
  BY <1>1
<1>. HIDE DEF es
<1>. QED  BY <1>1, <1>2, <1>3 DEF CopiesFrom, m

(* What L appends leaves copies and beginnings of its log what they are. *)
LEMMA LogGrows ==
  ASSUME NEW S, NEW l \in Seq(S), NEW e \in S
  PROVE  /\ Append(l, e) \in Seq(S) /\ Len(Append(l, e)) = Len(l) + 1
         /\ Within(l, Append(l, e))
         /\ \A a \in Seq(S) : Within(a, l) => Within(a, Append(l, e))
         /\ \A m : m.prev \in Nat /\ m.entries \in Seq(S) /\ CopiesFrom(m, l)
                     => CopiesFrom(m, Append(l, e))
<1>. DEFINE r == Append(l, e)
<1>1. r \in Seq(S) /\ Len(r) = Len(l) + 1 /\ Len(l) \in Nat /\ \A i \in 1..Len(l) : r[i] = l[i]
  OBVIOUS
<1>. HIDE DEF r
<1>2. Within(l, r)
  BY <1>1 DEF Within
<1>3. ASSUME NEW a \in Seq(S), Within(a, l)  PROVE Within(a, r)
  BY <1>1, <1>2, <1>3, WithinTransitive
<1>4. ASSUME NEW m, m.prev \in Nat, m.entries \in Seq(S), CopiesFrom(m, l)
      PROVE  CopiesFrom(m, r)
  <2>. DEFINE E == Len(m.entries)
  <2>1. E \in Nat /\ m.prev + E <= Len(l) /\ \A k \in 1..E : m.entries[k] = l[m.prev + k]
    BY <1>4 DEF CopiesFrom
  <2>. HIDE DEF E
  <2>2. \A k \in 1..E : m.prev + k \in 1..Len(l)
    BY <1>1, <1>4, <2>1
  <2>3. m.prev + E <= Len(r)
    BY <1>1, <1>4, <2>1
  <2>. QED  BY <1>1, <2>1, <2>2, <2>3 DEF CopiesFrom, E
<1>. QED  BY <1>1, <1>2, <1>3, <1>4 DEF r

(* All logs are empty at first. *)
LEMMA TrailInit ==
  ASSUME NEW L \in Node
  PROVE  Init => TrailInv(L)
<1>. SUFFICES ASSUME Init  PROVE TrailInv(L)
  OBVIOUS
<1>1. TypeInv
  BY TypeInit
<1>2. Within(<<>>, <<>>) /\ Len(<<>>) = 0
  BY DEF Within
<1>. QED  BY <1>1, <1>2 DEF Init, TrailInv

(* Every step keeps the invariant. *)
LEMMA TrailStep ==
  ASSUME NEW L \in Node, Campaigner = {L}, L \notin Restarter
  PROVE  TrailInv(L) /\ [Next]_vars => (TrailInv(L))'
<1>. SUFFICES ASSUME TrailInv(L), [Next]_vars  PROVE (TrailInv(L))'
  OBVIOUS
<1>1. /\ role \in [Node -> {"Follower", "Candidate", "Leader"}]
      /\ log \in [Node -> Log]
      /\ commitIndex \in [Node -> Nat]
      /\ applied \in [Node -> Log]
      /\ nextIndex \in [Node -> [Node -> Nat \ {0}]]
      /\ campaign \in [Node -> Campaign]
      /\ calls \subseteq Call
      /\ \A n \in Node : commitIndex[n] <= Len(applied[n])
      /\ TypeInv
  BY DEF TrailInv, TypeInv, TypeOK
<1>2. /\ \A n \in Node \ {L} : role[n] # "Leader" /\ campaign[n] = Idle
      /\ \A p \in Node : nextIndex[L][p] <= Len(log[L]) + 1
      /\ \A m \in calls : m.from = L /\ m.to # L /\ CopiesFrom(m, log[L])
      /\ \A p \in Node : Within(log[p], log[L]) /\ Within(applied[p], log[p])
  BY DEF TrailInv
<1>3. TypeInv'
  BY <1>1, TypeStep
<1>. DEFINE OneLeads   == \A n \in Node \ {L} : role[n] # "Leader" /\ campaign[n] = Idle
            NextBounded == \A p \in Node : nextIndex[L][p] <= Len(log[L]) + 1
            CallsCopy  == \A m \in calls : m.from = L /\ m.to # L /\ CopiesFrom(m, log[L])
            LogsTrail  == \A p \in Node : Within(log[p], log[L]) /\ Within(applied[p], log[p])
<1>4. ASSUME OneLeads', NextBounded', CallsCopy', LogsTrail'  PROVE (TrailInv(L))'
  BY <1>3, <1>4 DEF TrailInv
<1>5. /\ UNCHANGED <<role, campaign>> => OneLeads'
      /\ UNCHANGED <<nextIndex, log>> => NextBounded'
      /\ UNCHANGED <<log, applied>> => LogsTrail'
      /\ log' = log /\ calls' \subseteq calls => CallsCopy'
  BY <1>2
<1>. HIDE DEF OneLeads, NextBounded, CallsCopy, LogsTrail
<1>6. \A n \in Node : /\ log[n] \in Seq(Entry) /\ Len(log[n]) \in Nat
                      /\ applied[n] \in Seq(Entry) /\ Len(applied[n]) \in Nat
                      /\ commitIndex[n] \in Nat
  BY <1>1 DEF Log
(* Nobody but L begins to campaign or to lead by adopting a term. *)
<1>7. ASSUME NEW n \in Node, NEW t, AdoptTerm(n, t),
             \A x \in Node \ {L} : campaign'[x] = campaign[x]
      PROVE  OneLeads'
  BY <1>1, <1>2, <1>7 DEF AdoptTerm, OneLeads
<1>8. ASSUME NEW n \in Node, StartElection(n)  PROVE (TrailInv(L))'
  <2>1. n = L /\ UNCHANGED <<log, applied, nextIndex, calls>>
    BY <1>8 DEF StartElection, commitment, leadership
  <2>2. OneLeads'
    <3>1. /\ role' = [role EXCEPT ![n] = "Candidate"]
          /\ \E c : campaign' = [campaign EXCEPT ![n] = c]
      BY <1>8 DEF StartElection
    <3>. QED  BY <1>1, <1>2, <2>1, <3>1 DEF OneLeads
  <2>. QED  BY <1>4, <1>5, <2>1, <2>2
<1>9. ASSUME NEW n \in Node, HandleRequestVote(n)  PROVE (TrailInv(L))'
  <2>1. /\ campaign[n].asked # None
        /\ \E t : AdoptTerm(campaign[n].asked, t)
        /\ \E c : campaign' = [campaign EXCEPT ![n] = c]
        /\ UNCHANGED <<log, applied, nextIndex, calls>>
    BY <1>9 DEF HandleRequestVote, commitment, leadership
  <2>2. n = L
    <3>1. Idle.asked = None
      BY DEF Idle
    <3>. QED  BY <1>2, <2>1, <3>1
  <2>3. campaign[n].asked \in Node
    BY <1>1, <2>1 DEF Campaign
  <2>4. OneLeads'
    BY <1>1, <1>7, <2>1, <2>2, <2>3
  <2>. QED  BY <1>4, <1>5, <2>1, <2>4
<1>10. ASSUME NEW n \in Node, VoteReply(n) \/ VoteLost(n)  PROVE (TrailInv(L))'
  <2>1. PICK granted \in BOOLEAN : ElectionGoesOn(n, granted)
    BY <1>10 DEF VoteReply, VoteLost
  <2>2. n = L
    <3>1. Idle.asked = None /\ Idle.reply = "none"
      BY DEF Idle
    <3>. QED  BY <1>2, <1>10, <3>1 DEF VoteReply, VoteLost
  <2>3. /\ UNCHANGED <<log, applied, calls>>
        /\ role' = role \/ \E r : role' = [role EXCEPT ![n] = r]
        /\ \E c : campaign' = [campaign EXCEPT ![n] = c]
        /\ \/ nextIndex' = nextIndex
           \/ nextIndex' = [nextIndex EXCEPT ![n] = [p \in Node |-> Len(log[n]) + 1]]
    BY <2>1 DEF ElectionGoesOn, commitment, leadership
  <2>4. OneLeads'
    BY <1>1, <1>2, <2>2, <2>3 DEF OneLeads
  <2>5. NextBounded'
    BY <1>1, <1>2, <1>6, <2>2, <2>3 DEF NextBounded
  <2>. QED  BY <1>4, <1>5, <2>3, <2>4, <2>5
(* What L sends of its log, or of its log with one entry more. *)
<1>11. ASSUME NEW l \in Log, Len(log[L]) <= Len(l), BroadcastAppendEntries(L, l),
              \A m \in calls : CopiesFrom(m, l)
       PROVE  \A m \in calls' : m.from = L /\ m.to # L /\ CopiesFrom(m, l)
  <2>1. ASSUME NEW p \in Node \ {L}
        PROVE  LET m == AppendCall(L, p, l) IN m.from = L /\ m.to # L /\ CopiesFrom(m, l)
    <3>1. nextIndex[L][p] \in Nat \ {0} /\ nextIndex[L][p] <= Len(l) + 1
      <4>1. Len(l) \in Nat
        BY DEF Log
      <4>2. nextIndex[L][p] \in Nat \ {0} /\ nextIndex[L][p] <= Len(log[L]) + 1
        BY <1>1, <1>2
      <4>. QED  BY <1>6, <1>11, <4>1, <4>2
    <3>. QED  BY <3>1, CallCopies
  <2>2. PICK reached \in SUBSET (Node \ {L}) :
          calls' = calls \cup {AppendCall(L, p, l) : p \in reached}
    BY <1>11 DEF BroadcastAppendEntries, Peers
  <2>. QED  BY <1>2, <1>11, <2>1, <2>2
<1>12. ASSUME NEW n \in Node, Heartbeat(n)  PROVE (TrailInv(L))'
  <2>1. n = L /\ BroadcastAppendEntries(L, log[L])
    BY <1>2, <1>12 DEF Heartbeat
  <2>2. UNCHANGED <<log, role, applied, nextIndex, campaign>>
    BY <1>12 DEF Heartbeat, persistent, commitment, leadership
  <2>3. Len(log[L]) <= Len(log[L]) /\ \A m \in calls : CopiesFrom(m, log[L])
    BY <1>2, <1>6
  <2>4. CallsCopy'
    BY <1>1, <1>11, <2>1, <2>2, <2>3 DEF CallsCopy
  <2>. QED  BY <1>4, <1>5, <2>2, <2>4
<1>13. ASSUME NEW n \in Node, NEW command \in Command, Propose(n, command)
       PROVE  (TrailInv(L))'
  <2>. DEFINE e == [term |-> currentTerm[n], command |-> command]
              l == Append(log[L], e)
  <2>1. n = L /\ BroadcastAppendEntries(L, log'[L])
    BY <1>2, <1>13 DEF Propose
  <2>2. /\ log' = [log EXCEPT ![L] = l]
        /\ UNCHANGED <<role, applied, nextIndex, campaign>>
    BY <1>13, <2>1 DEF Propose, commitment, leadership
  <2>3. e \in Entry
    <3>1. currentTerm[n] \in 1..MaxTerm
      <4>1. role[n] = "Leader"
        BY <1>13 DEF Propose
      <4>2. currentTerm[n] \in 0..MaxTerm /\ currentTerm[n] >= 1 /\ MaxTerm \in Nat
        BY <1>1, <4>1, BoundAssumption DEF TypeInv, TypeOK
      <4>. QED  BY <4>2
    <3>. QED  BY <3>1 DEF Entry
  <2>. HIDE DEF e
  <2>4. /\ l \in Seq(Entry) /\ Len(l) = Len(log[L]) + 1
        /\ Within(log[L], l)
        /\ \A a \in Seq(Entry) : Within(a, log[L]) => Within(a, l)
        /\ \A m : m.prev \in Nat /\ m.entries \in Seq(Entry) /\ CopiesFrom(m, log[L])
                     => CopiesFrom(m, l)
    BY <1>6, <2>3, LogGrows
  <2>. HIDE DEF l
  <2>5. log'[L] = l /\ \A p \in Node : p # L => log'[p] = log[p]
    BY <1>1, <2>2
  <2>6. ASSUME NEW m \in calls  PROVE CopiesFrom(m, l)
    <3>1. m \in Call /\ CopiesFrom(m, log[L])
      BY <1>1, <1>2
    <3>2. m.prev \in Nat /\ m.entries \in Seq(Entry)
      BY <3>1 DEF Call, Log
    <3>. QED  BY ONLY <2>4, <3>1, <3>2
  <2>7. CallsCopy'
    <3>1. Len(log[L]) <= Len(l) /\ l \in Log
      BY <1>6, <2>4 DEF Log
    <3>. QED  BY <1>11, <2>1, <2>5, <2>6, <3>1 DEF CallsCopy
  <2>8. NextBounded'
    <3>1. \A p \in Node : nextIndex[L][p] \in Nat /\ nextIndex[L][p] <= Len(log[L]) + 1
      BY <1>1, <1>2
    <3>2. Len(log[L]) \in Nat
      BY <1>6
    <3>3. nextIndex' = nextIndex /\ Len(l) = Len(log[L]) + 1 /\ log'[L] = l
      BY <2>2, <2>4, <2>5
    <3>. QED  BY ONLY <3>1, <3>2, <3>3 DEF NextBounded
  <2>9. LogsTrail'
    <3>1. ASSUME NEW p \in Node
          PROVE  Within(log'[p], l) /\ Within(applied[p], log'[p])
      <4>1. CASE p = L
        <5>1. Len(l) <= Len(l)
          BY <1>6, <2>4
        <5>2. Within(l, l)
          BY <5>1 DEF Within
        <5>. QED  BY <1>2, <1>6, <2>4, <2>5, <4>1, <5>2
      <4>2. CASE p # L
        BY <1>2, <1>6, <2>4, <2>5, <4>2
      <4>. QED  BY <4>1, <4>2
    <3>. QED  BY <2>2, <2>5, <3>1 DEF LogsTrail
  <2>. QED  BY <1>4, <1>5, <2>2, <2>7, <2>8, <2>9
<1>14. ASSUME NEW m \in calls, HandleAppendEntries(m)  PROVE (TrailInv(L))'
  <2>. DEFINE f == m.to
              l == TakenLog(m)
              c == TakenCommit(m)
              a == applied[f] \o SubSeq(l, Len(applied[f]) + 1, c)
              r == IF Consistent(log[f], m) THEN "ok" ELSE "fail"
  <2>1. /\ f \in Node /\ f # L /\ m.from = L /\ CopiesFrom(m, log[L])
        /\ m \in Call /\ m.commit \in Nat /\ m.prev \in Nat /\ m.entries \in Log
    BY <1>1, <1>2 DEF Call
  <2>2. /\ AdoptTerm(f, m.term)
        /\ log' = [log EXCEPT ![f] = l]
        /\ applied' = [applied EXCEPT ![f] = a]
        /\ calls' = (calls \ {m}) \cup {[m EXCEPT !.reply = r]}
        /\ UNCHANGED <<nextIndex, campaign>>
    BY <1>14 DEF HandleAppendEntries, Apply, leadership
  <2>3. Within(l, log[L]) /\ Within(log[f], l) /\ l \in Seq(Entry)
    <3>1. CASE Consistent(log[f], m)
      <4>1. m.prev <= Len(log[f])
        BY <1>6, <2>1, <3>1 DEF Consistent
      <4>2. l = MergeLog(log[f], m.prev, m.entries)
        BY <3>1 DEF TakenLog
      <4>3. log[f] \in Log /\ log[L] \in Log
        BY <1>1, <2>1
      <4>4. l \in Log
        BY <2>1, <4>1, <4>2, <4>3, MergeTyped DEF Log
      <4>. HIDE DEF l, f
      <4>5. Within(l, log[L]) /\ Within(log[f], l)
        BY <1>2, <2>1, <4>1, <4>2, <4>3, MergeTrails
      <4>. QED  BY <4>4, <4>5 DEF Log
    <3>2. CASE ~Consistent(log[f], m)
      <4>1. l = log[f]
        BY <3>2 DEF TakenLog
      <4>2. Within(log[f], log[f])
        BY <1>6, <2>1 DEF Within
      <4>. QED  BY <1>2, <1>6, <2>1, <4>1, <4>2
    <3>. QED  BY <3>1, <3>2
  <2>4. c \in Nat /\ (c <= Len(l) \/ c <= Len(applied[f]))
    <3>1. \/ c = commitIndex[f]
          \/ c = IF m.commit < Len(l) THEN m.commit ELSE Len(l)
      BY DEF TakenCommit
    <3>2. Len(l) \in Nat /\ commitIndex[f] \in Nat /\ commitIndex[f] <= Len(applied[f])
      BY <1>1, <2>1, <2>3
    <3>. HIDE DEF f, l, c
    <3>. QED  BY <2>1, <3>1, <3>2
  <2>. HIDE DEF f, l, c
  <2>5. Within(a, l)
    <3>1. Within(applied[f], l)
      BY <1>2, <1>6, <2>1, <2>3, WithinTransitive
    <3>. QED  BY <1>6, <2>1, <2>3, <2>4, <3>1, ApplyTrails
  <2>. HIDE DEF a, r
  <2>6. /\ log'[f] = l /\ applied'[f] = a
        /\ \A p \in Node : p # f => log'[p] = log[p] /\ applied'[p] = applied[p]
    BY <1>1, <2>1, <2>2
  <2>7. LogsTrail'
    <3>1. ASSUME NEW p \in Node
          PROVE  Within(log'[p], log[L]) /\ Within(applied'[p], log'[p])
      BY <1>2, <2>3, <2>5, <2>6
    <3>. QED  BY <2>1, <2>6, <3>1 DEF LogsTrail
  <2>8. CallsCopy'
    <3>1. LET x == [m EXCEPT !.reply = r]
          IN x.from = m.from /\ x.to = m.to /\ x.prev = m.prev /\ x.entries = m.entries
      BY <2>1 DEF Call
    <3>2. CopiesFrom([m EXCEPT !.reply = r], log[L])
      BY <2>1, <3>1 DEF CopiesFrom
    <3>3. \A x \in calls' : x.from = L /\ x.to # L /\ CopiesFrom(x, log[L])
      BY <1>2, <2>1, <2>2, <3>1, <3>2 DEF f
    <3>. QED  BY <2>1, <2>6, <3>3 DEF CallsCopy
  <2>9. NextBounded'
    BY <1>2, <2>1, <2>2, <2>6 DEF NextBounded
  <2>10. OneLeads'
    BY <1>7, <2>1, <2>2
  <2>. QED  BY <1>4, <2>7, <2>8, <2>9, <2>10
<1>15. ASSUME NEW m \in calls, AppendReplyOk(m)  PROVE (TrailInv(L))'
  <2>. DEFINE c == AnsweredCommit(m)
              top == Replicated(L, Acknowledged(m))
              a == applied[L] \o SubSeq(log[L], Len(applied[L]) + 1, c)
              K == Len(log[L])
  <2>1. m.from = L /\ m.to \in Node
    BY <1>1, <1>2 DEF Call
  <2>2. /\ nextIndex' = [nextIndex EXCEPT ![L] = [nextIndex[L] EXCEPT ![m.to] = K + 1]]
        /\ applied' = [applied EXCEPT ![L] = a]
        /\ calls' \subseteq calls
        /\ UNCHANGED <<log, role, campaign>>
    BY <1>15, <2>1 DEF AppendReplyOk, Apply, persistent
  <2>3. K \in Nat /\ commitIndex[L] \in Nat /\ commitIndex[L] <= Len(applied[L])
    BY <1>1, <1>6
  <2>4. top \in SUBSET (0..K)
    <3>1. top \subseteq commitIndex[L] + 1 .. K
      BY DEF Replicated
    <3>. HIDE DEF K, top
    <3>. QED  BY <2>3, <3>1
  <2>5. c = IF top = {} THEN commitIndex[L] ELSE CHOOSE i \in top : \A j \in top : j <= i
    BY <2>1 DEF AnsweredCommit
  <2>. HIDE DEF c, top
  <2>6. c \in Nat /\ (c <= K \/ c <= Len(applied[L]))
    <3>. HIDE DEF K
    <3>1. ASSUME top # {}  PROVE c \in 0..K
      BY <2>3, <2>4, <2>5, <3>1, GreatestExists
    <3>. QED  BY <2>3, <2>5, <3>1
  <2>7. Within(a, log[L])
    BY <1>2, <1>6, <2>6, ApplyTrails
  <2>. HIDE DEF a
  <2>8. LogsTrail'
    BY <1>1, <1>2, <2>2, <2>7 DEF LogsTrail
  <2>9. NextBounded'
    <3>1. \A p \in Node : nextIndex'[L][p] = IF p = m.to THEN K + 1 ELSE nextIndex[L][p]
      BY <1>1, <2>1, <2>2
    <3>2. K + 1 <= K + 1
      BY <2>3
    <3>. QED  BY <1>2, <2>2, <3>1, <3>2 DEF NextBounded
  <2>. QED  BY <1>4, <1>5, <2>2, <2>8, <2>9
<1>16. ASSUME NEW m \in calls, AppendReplyFail(m)  PROVE (TrailInv(L))'
  <2>. DEFINE k == nextIndex[L][m.to]
              x == IF k > 1 THEN k - 1 ELSE k
  <2>1. m.from = L /\ m.to \in Node /\ k \in Nat \ {0} /\ k <= Len(log[L]) + 1
    BY <1>1, <1>2 DEF Call
  <2>2. /\ nextIndex' = [nextIndex EXCEPT ![L] = [nextIndex[L] EXCEPT ![m.to] = x]]
        /\ calls' \subseteq calls
        /\ UNCHANGED <<log, role, applied, campaign>>
    BY <1>16, <2>1 DEF AppendReplyFail, persistent, commitment
  <2>3. x <= Len(log[L]) + 1
    BY <1>6, <2>1
  <2>. HIDE DEF k, x
  <2>4. \A p \in Node : nextIndex'[L][p] = IF p = m.to THEN x ELSE nextIndex[L][p]
    BY <1>1, <2>1, <2>2
  <2>5. NextBounded'
    BY <1>2, <2>2, <2>3, <2>4 DEF NextBounded
  <2>. QED  BY <1>4, <1>5, <2>2, <2>5
<1>17. ASSUME NEW m \in calls, AppendLost(m)  PROVE (TrailInv(L))'
  BY <1>4, <1>5, <1>17 DEF AppendLost, persistent, commitment, leadership
<1>18. ASSUME NEW n \in Node, Restart(n)  PROVE (TrailInv(L))'
  <2>1. /\ n # L
        /\ log' = [log EXCEPT ![n] = <<>>]
        /\ role' = [role EXCEPT ![n] = "Follower"]
        /\ applied' = [applied EXCEPT ![n] = <<>>]
        /\ nextIndex' = [nextIndex EXCEPT ![n] = [p \in Node |-> 1]]
        /\ campaign' = [campaign EXCEPT ![n] = Idle]
        /\ calls' \subseteq calls
    BY <1>18 DEF Restart
  <2>2. log'[L] = log[L] /\ nextIndex'[L] = nextIndex[L]
    BY <1>1, <2>1
  <2>3. OneLeads'
    BY <1>1, <1>2, <2>1 DEF OneLeads
  <2>4. NextBounded'
    BY <1>2, <2>2 DEF NextBounded
  <2>5. CallsCopy'
    BY <1>2, <2>1, <2>2 DEF CallsCopy
  <2>6. LogsTrail'
    <3>1. Within(<<>>, log[L]) /\ Within(<<>>, <<>>)
      BY <1>6 DEF Within
    <3>2. /\ log'[n] = <<>> /\ applied'[n] = <<>>
          /\ \A p \in Node : p # n => log'[p] = log[p] /\ applied'[p] = applied[p]
      BY <1>1, <2>1
    <3>. QED  BY <1>2, <2>2, <3>1, <3>2 DEF LogsTrail
  <2>. QED  BY <1>4, <2>3, <2>4, <2>5, <2>6
<1>19. CASE UNCHANGED vars
  BY <1>4, <1>5, <1>19 DEF vars
<1>. QED
  BY <1>8, <1>9, <1>10, <1>12, <1>13, <1>14, <1>15, <1>16, <1>17, <1>18, <1>19 DEF Next

(* With one campaigner that does not restart, every log is a beginning of its
   log, every call carries a copy of a part of it, and what a node has applied
   is a beginning of what it holds. *)
THEOREM TrailInvariance ==
  ASSUME NEW L \in Node, Campaigner = {L}, L \notin Restarter
  PROVE  Spec => []TrailInv(L)
<1>1. Init => TrailInv(L)
  BY TrailInit
<1>2. TrailInv(L) /\ [Next]_vars => (TrailInv(L))'
  BY TrailStep
<1>. QED  BY <1>1, <1>2, PTL DEF Spec

(* Followers never diverge while one node campaigns: neither a stale call that
   _handle_append_entries takes like any other, nor a next_index that a success
   reply pushed past what the peer holds, puts anything into a follower's log
   but the beginning of the leader's. *)
THEOREM FollowersFollow ==
  ASSUME NEW L \in Node, Campaigner = {L}, L \notin Restarter
  PROVE  Spec => []FollowersTrail
<1>1. TrailInv(L) => FollowersTrail
  <2>. SUFFICES ASSUME TrailInv(L), NEW n \in Node, NEW p \in Node, role[n] = "Leader"
                PROVE  Prefix(log[p], log[n])
    BY DEF FollowersTrail
  <2>1. n = L /\ Within(log[p], log[L])
    BY DEF TrailInv
  <2>2. log[p] \in Seq(Entry) /\ log[L] \in Seq(Entry)
    BY DEF TrailInv, TypeInv, TypeOK, Log
  <2>. QED  BY <2>1, <2>2, WithinIsPrefix
<1>. QED  BY <1>1, TrailInvariance, PTL

(* State machine safety while one node campaigns: of what any two nodes gave
   their commit callbacks one is the beginning of the other, and _apply_committed
   never gave anything that the log no longer holds. *)
THEOREM OneStateMachine ==
  ASSUME NEW L \in Node, Campaigner = {L}, L \notin Restarter
  PROVE  Spec => []StateMachineSafety
<1>1. TrailInv(L) => StateMachineSafety
  <2>. SUFFICES ASSUME TrailInv(L)  PROVE StateMachineSafety
    OBVIOUS
  <2>1. \A n \in Node : /\ log[n] \in Seq(Entry) /\ applied[n] \in Seq(Entry)
                        /\ Within(log[n], log[L]) /\ Within(applied[n], log[n])
    BY DEF TrailInv, TypeInv, TypeOK, Log
  <2>2. \A n \in Node : Within(applied[n], log[L])
    BY <2>1, WithinTransitive
  <2>3. ASSUME NEW n \in Node, NEW m \in Node
        PROVE  Prefix(applied[n], applied[m]) \/ Prefix(applied[m], applied[n])
    <3>1. Within(applied[n], applied[m]) \/ Within(applied[m], applied[n])
      BY <2>1, <2>2, WithinComparable
    <3>. QED  BY <2>1, <3>1, WithinIsPrefix
  <2>4. \A n \in Node : Prefix(applied[n], log[n])
    BY <2>1, WithinIsPrefix
  <2>. QED  BY <2>3, <2>4 DEF StateMachineSafety
<1>. QED  BY <1>1, TrailInvariance, PTL

(***************************************************************************)
(* What Raft carries.                                                      *)
(***************************************************************************)

(* Entries whose commands come from D. *)
EntriesOf(D) == {e \in Entry : e.command \in D}

(* Raft invents no command: if all it holds came from D, so does all it will
   hold, as long as what is proposed does. *)
DrawnFrom(D) ==
  /\ log \in [Node -> Seq(EntriesOf(D))]
  /\ applied \in [Node -> Seq(EntriesOf(D))]
  /\ \A m \in calls : m.entries \in Seq(EntriesOf(D))

NextFrom(D) ==
  \/ \E n \in Node : \/ StartElection(n) \/ HandleRequestVote(n) \/ VoteReply(n)
                     \/ VoteLost(n) \/ Heartbeat(n) \/ Restart(n)
  \/ \E n \in Node, command \in Command \cap D : Propose(n, command)
  \/ \E m \in calls : \/ HandleAppendEntries(m) \/ AppendReplyOk(m)
                      \/ AppendReplyFail(m) \/ AppendLost(m)

(* What m.to holds and applies when it takes the call m. *)
LEMMA TakenDrawn ==
  ASSUME TypeInv, NEW D, DrawnFrom(D), NEW m \in calls
  PROVE  /\ TakenLog(m) \in Seq(EntriesOf(D))
         /\ TakenCommit(m) \in Nat
         /\ \/ TakenCommit(m) <= Len(TakenLog(m))
            \/ TakenCommit(m) <= Len(applied[m.to])
<1>1. /\ m.to \in Node /\ m.prev \in Nat /\ m.commit \in Nat
      /\ log[m.to] \in Seq(EntriesOf(D)) /\ m.entries \in Seq(EntriesOf(D))
      /\ commitIndex[m.to] \in Nat /\ commitIndex[m.to] <= Len(applied[m.to])
  BY DEF TypeInv, TypeOK, Call, DrawnFrom
<1>2. TakenLog(m) \in Seq(EntriesOf(D))
  <2>1. CASE Consistent(log[m.to], m)
    <3>1. m.prev <= Len(log[m.to])
      BY <1>1, <2>1 DEF Consistent
    <3>2. EntriesOf(D) \in SUBSET Entry
      BY DEF EntriesOf
    <3>. QED  BY <1>1, <2>1, <3>1, <3>2, MergeTyped DEF TakenLog
  <2>2. CASE ~Consistent(log[m.to], m)
    BY <1>1, <2>2 DEF TakenLog
  <2>. QED  BY <2>1, <2>2
<1>. DEFINE l == TakenLog(m)
<1>3. \/ TakenCommit(m) = commitIndex[m.to]
      \/ TakenCommit(m) = IF m.commit < Len(l) THEN m.commit ELSE Len(l)
  BY DEF TakenCommit
<1>4. Len(l) \in Nat
  BY <1>2
<1>. HIDE DEF l
<1>5. /\ TakenCommit(m) \in Nat
      /\ TakenCommit(m) <= Len(l) \/ TakenCommit(m) <= Len(applied[m.to])
  BY <1>1, <1>3, <1>4
<1>. QED  BY <1>2, <1>5 DEF l

(* What m.from commits when the answer to its call m arrives. *)
LEMMA AnsweredDrawn ==
  ASSUME TypeInv, NEW m \in calls
  PROVE  /\ AnsweredCommit(m) \in Nat
         /\ \/ AnsweredCommit(m) <= Len(log[m.from])
            \/ AnsweredCommit(m) <= Len(applied[m.from])
<1>. DEFINE n == m.from
            K == Len(log[n])
            top == Replicated(n, Acknowledged(m))
            c == AnsweredCommit(m)
<1>1. /\ n \in Node /\ K \in Nat
      /\ commitIndex[n] \in Nat /\ commitIndex[n] <= Len(applied[n])
  <2>1. m \in Call
    BY DEF TypeInv, TypeOK
  <2>2. n \in Node
    BY <2>1 DEF Call
  <2>. HIDE DEF n
  <2>3. /\ log[n] \in Seq(Entry)
        /\ commitIndex[n] \in Nat /\ commitIndex[n] <= Len(applied[n])
    BY <2>2 DEF TypeInv, TypeOK, Log
  <2>. QED  BY <2>2, <2>3
<1>2. top \in SUBSET (0..K)
  <2>1. top \subseteq commitIndex[n] + 1 .. K
    BY DEF Replicated
  <2>. HIDE DEF K, top
  <2>. QED  BY <1>1, <2>1
<1>3. c = IF top = {} THEN commitIndex[n] ELSE CHOOSE i \in top : \A j \in top : j <= i
  BY DEF AnsweredCommit
<1>. HIDE DEF top, c, K
<1>4. ASSUME top # {}  PROVE c \in 0..K
  BY <1>1, <1>2, <1>3, <1>4, GreatestExists
<1>5. c \in Nat /\ (c <= K \/ c <= Len(applied[n]))
  BY <1>1, <1>3, <1>4
<1>. QED  BY <1>5 DEF c, K

(* A node that applies further gives its callbacks entries drawn from D. *)
LEMMA AppliedDrawn ==
  ASSUME TypeInv, NEW D, DrawnFrom(D), NEW m \in calls
  PROVE  /\ SubSeq(TakenLog(m), Len(applied[m.to]) + 1, TakenCommit(m))
              \in Seq(EntriesOf(D))
         /\ SubSeq(log[m.from], Len(applied[m.from]) + 1, AnsweredCommit(m))
              \in Seq(EntriesOf(D))
<1>1. ASSUME NEW a \in Nat, NEW S, NEW l \in Seq(S), NEW c \in Nat, c <= Len(l) \/ c <= a
      PROVE  SubSeq(l, a + 1, c) \in Seq(S)
  <2>1. CASE a < c
    BY <1>1, <2>1
  <2>2. CASE ~(a < c)
    <3>1. SubSeq(l, a + 1, c) = <<>>
      BY <1>1, <2>2
    <3>2. <<>> \in Seq(S)
      OBVIOUS
    <3>. QED  BY <3>1, <3>2
  <2>. QED  BY <2>1, <2>2
<1>2. /\ m.to \in Node /\ m.from \in Node
      /\ log[m.from] \in Seq(EntriesOf(D))
      /\ Len(applied[m.to]) \in Nat /\ Len(applied[m.from]) \in Nat
  <2>1. m.to \in Node /\ m.from \in Node
    BY DEF TypeInv, TypeOK, Call
  <2>2. /\ log[m.from] \in Seq(EntriesOf(D))
        /\ applied[m.to] \in Seq(EntriesOf(D)) /\ applied[m.from] \in Seq(EntriesOf(D))
    BY <2>1 DEF DrawnFrom
  <2>. QED  BY <2>1, <2>2
<1>. QED  BY <1>1, <1>2, TakenDrawn, AnsweredDrawn

(* No step puts anything but drawn commands into logs and calls. *)
LEMMA DrawnStep ==
  ASSUME TypeInv, NEW D, DrawnFrom(D), NextFrom(D) \/ UNCHANGED vars
  PROVE  (DrawnFrom(D))'
<1>. DEFINE S == Seq(EntriesOf(D))
<1>1. /\ log \in [Node -> S] /\ applied \in [Node -> S]
      /\ \A m \in calls : m.entries \in S
  BY DEF DrawnFrom
<1>2. calls \subseteq Call
  BY DEF TypeInv, TypeOK
<1>3. ASSUME log' \in [Node -> S], applied' \in [Node -> S],
             \A m \in calls' : m.entries \in S
      PROVE  (DrawnFrom(D))'
  BY <1>3 DEF DrawnFrom
<1>4. <<>> \in S
  OBVIOUS
(* A step that changes neither the logs nor what is applied, and adds no call. *)
<1>5. ASSUME log' = log, applied' = applied, calls' \subseteq calls
      PROVE  (DrawnFrom(D))'
  BY <1>1, <1>3, <1>5
<1>6. ASSUME NEW n \in Node, NEW l \in S, BroadcastAppendEntries(n, l)
      PROVE  \A m \in calls' : m.entries \in S
  <2>1. ASSUME NEW p \in Node  PROVE AppendCall(n, p, l).entries \in S
    <3>. DEFINE k == nextIndex[n][p] - 1
    <3>1. k \in Nat
      <4>1. nextIndex[n][p] \in Nat \ {0}
        BY DEF TypeInv, TypeOK
      <4>. QED  BY <4>1
    <3>2. AppendCall(n, p, l).entries = SubSeq(l, k + 1, Len(l))
      BY DEF AppendCall
    <3>. HIDE DEF k
    <3>. QED  BY <3>1, <3>2
  <2>2. PICK reached \in SUBSET Node :
          calls' = calls \cup {AppendCall(n, p, l) : p \in reached}
    BY <1>6 DEF BroadcastAppendEntries, Peers
  <2>. HIDE DEF S
  <2>. QED  BY <1>1, <2>1, <2>2
<1>7. ASSUME NEW n \in Node, StartElection(n)  PROVE (DrawnFrom(D))'
  BY <1>5, <1>7 DEF StartElection, commitment
<1>8. ASSUME NEW n \in Node, HandleRequestVote(n)  PROVE (DrawnFrom(D))'
  BY <1>5, <1>8 DEF HandleRequestVote, commitment
<1>9. ASSUME NEW n \in Node, VoteReply(n) \/ VoteLost(n)  PROVE (DrawnFrom(D))'
  BY <1>5, <1>9 DEF VoteReply, VoteLost, ElectionGoesOn, commitment
<1>10. ASSUME NEW n \in Node, Heartbeat(n)  PROVE (DrawnFrom(D))'
  <2>1. BroadcastAppendEntries(n, log[n]) /\ log' = log /\ applied' = applied
    BY <1>10 DEF Heartbeat, persistent, commitment
  <2>2. log[n] \in S
    BY <1>1
  <2>. HIDE DEF S
  <2>. QED  BY <1>1, <1>3, <1>6, <2>1, <2>2
<1>11. ASSUME NEW n \in Node, Restart(n)  PROVE (DrawnFrom(D))'
  <2>1. /\ log' = [log EXCEPT ![n] = <<>>] /\ applied' = [applied EXCEPT ![n] = <<>>]
        /\ calls' \subseteq calls
    BY <1>11 DEF Restart
  <2>. HIDE DEF S
  <2>. QED  BY <1>1, <1>3, <1>4, <2>1
<1>12. ASSUME NEW n \in Node, NEW command \in Command \cap D, Propose(n, command)
       PROVE  (DrawnFrom(D))'
  <2>. DEFINE e == [term |-> currentTerm[n], command |-> command]
              l == Append(log[n], e)
  <2>1. e \in EntriesOf(D)
    <3>1. currentTerm[n] \in 1..MaxTerm
      <4>1. role[n] = "Leader"
        BY <1>12 DEF Propose
      <4>2. currentTerm[n] \in 0..MaxTerm /\ currentTerm[n] >= 1 /\ MaxTerm \in Nat
        BY <4>1, BoundAssumption DEF TypeInv, TypeOK
      <4>. QED  BY <4>2
    <3>. QED  BY <3>1 DEF Entry, EntriesOf
  <2>2. log' = [log EXCEPT ![n] = l] /\ applied' = applied
    BY <1>12 DEF Propose, commitment
  <2>. HIDE DEF e
  <2>3. l \in S
    BY <1>1, <2>1
  <2>. HIDE DEF l, S
  <2>4. log'[n] = l
    BY <1>1, <2>2
  <2>5. BroadcastAppendEntries(n, l)
    BY <1>12, <2>4 DEF Propose
  <2>. QED  BY <1>1, <1>3, <1>6, <2>2, <2>3, <2>5
<1>13. ASSUME NEW m \in calls, HandleAppendEntries(m)  PROVE (DrawnFrom(D))'
  <2>. DEFINE f == m.to
              l == TakenLog(m)
              c == TakenCommit(m)
              a == applied[f] \o SubSeq(l, Len(applied[f]) + 1, c)
              r == IF Consistent(log[f], m) THEN "ok" ELSE "fail"
  <2>1. /\ log' = [log EXCEPT ![f] = l]
        /\ applied' = [applied EXCEPT ![f] = a]
        /\ calls' = (calls \ {m}) \cup {[m EXCEPT !.reply = r]}
    BY <1>13 DEF HandleAppendEntries, Apply
  <2>2. l \in S /\ c \in Nat /\ (c <= Len(l) \/ c <= Len(applied[f]))
    BY TakenDrawn
  <2>3. f \in Node
    BY <1>2 DEF Call
  <2>. HIDE DEF f, l, c, r
  <2>4. a \in S
    BY <1>1, <2>2, <2>3, ApplyTyped
  <2>5. [m EXCEPT !.reply = r].entries = m.entries
    BY <1>2 DEF Call
  <2>. HIDE DEF a, S
  <2>. QED  BY <1>1, <1>3, <2>1, <2>2, <2>3, <2>4, <2>5
<1>14. ASSUME NEW m \in calls, AppendReplyOk(m)  PROVE (DrawnFrom(D))'
  <2>. DEFINE f == m.from
              c == AnsweredCommit(m)
              a == applied[f] \o SubSeq(log[f], Len(applied[f]) + 1, c)
  <2>1. log' = log /\ applied' = [applied EXCEPT ![f] = a] /\ calls' \subseteq calls
    BY <1>14 DEF AppendReplyOk, Apply, persistent
  <2>2. c \in Nat /\ (c <= Len(log[f]) \/ c <= Len(applied[f]))
    BY AnsweredDrawn
  <2>3. f \in Node
    BY <1>2 DEF Call
  <2>. HIDE DEF f, c
  <2>4. a \in S
    BY <1>1, <2>2, <2>3, ApplyTyped
  <2>. HIDE DEF a, S
  <2>. QED  BY <1>1, <1>3, <2>1, <2>3, <2>4
<1>15. ASSUME NEW m \in calls, AppendReplyFail(m) \/ AppendLost(m)  PROVE (DrawnFrom(D))'
  BY <1>5, <1>15 DEF AppendReplyFail, AppendLost, persistent, commitment
<1>16. CASE UNCHANGED vars
  BY <1>5, <1>16 DEF vars
<1>. HIDE DEF S
<1>. QED
  BY <1>7, <1>8, <1>9, <1>10, <1>11, <1>12, <1>13, <1>14, <1>15, <1>16 DEF NextFrom
=============================================================================
