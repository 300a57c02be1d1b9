---------------------------- MODULE StreamProofs ----------------------------
(* Facts about the operators of Stream, for messages of any set M whose     *)
(* elements carry a natural number.                                         *)
EXTENDS Stream, FiniteSetTheorems, SequenceTheorems, TLAPS

(* A non-empty set of naturals has a least element, so the CHOOSE in Least
   finds one: the flush loop and the sorted
   insertion are well defined. *)
LEMMA LeastExists ==
  ASSUME NEW S \in SUBSET Nat, S # {}
  PROVE  /\ Least(S) \in S
         /\ \A y \in S : Least(S) <= y
<1>1. PICK x \in S : \A y \in S : ~(<<y, x>> \in OpToRel(<, Nat))
  BY NatLessThanWellFounded, WFMin
<1>2. ASSUME NEW y \in S, y < x  PROVE FALSE
  <2>. DEFINE pair == <<y, x>>
  <2>1. pair \in Nat \X Nat /\ pair[1] < pair[2]
    BY <1>2
  <2>. HIDE DEF pair
  <2>2. pair \in OpToRel(<, Nat)
    BY <2>1 DEF OpToRel
  <2>. QED  BY <1>1, <2>2 DEF pair
<1>3. \A y \in S : x <= y
  BY <1>2
<1>. QED  BY <1>3 DEF Least

(* The messages of M carry natural numbers. *)
Numbered(M) == \A m \in M : m.seq \in Nat

(* f is s with the first n buffered messages moved to the deliveries. *)
Moved(M, s, f, n) ==
  /\ f \in StreamType(M)
  /\ n \in Nat /\ n <= Len(s.pending)
  /\ f.offset = s.offset + n
  /\ f.subscribed = s.subscribed /\ f.seen = s.seen /\ f.clean = s.clean
  /\ Len(f.pending) = Len(s.pending) - n
  /\ \A i \in 1..Len(f.pending) : f.pending[i] = s.pending[n + i]
  /\ Len(f.delivered) = Len(s.delivered) + n
  /\ \A i \in 1..Len(f.delivered) :
       f.delivered[i] = IF i <= Len(s.delivered)
                        THEN s.delivered[i]
                        ELSE s.pending[i - Len(s.delivered)]

(* Those n messages continue the offset, and the one after them does not. *)
Run(s, n) ==
  /\ n \in 0..Len(s.pending)
  /\ \A i \in 1..n : s.pending[i].seq = s.offset + i
  /\ n < Len(s.pending) => s.pending[n + 1].seq # s.offset + n + 1

(* All that StreamInv says, except that the buffer may start with the expected
   message: the state in which on_message calls _flush_buffer. *)
ReadyToFlush(s) ==
  /\ InOrder(s)
  /\ Retained(s)
  /\ s.subscribed
  /\ BufferAbove(s, s.offset)

(* Numbers without messages: K numbers f rise strictly. *)
Rising(K, f) == \A i, j \in 1..K : i < j => f[i] < f[j]

(* The n numbers after the D numbers sd, together fd, are o+1, ..., o+n, and
   the D numbers rise up to at most o. *)
Extends(o, n, D, E, sd, fd) ==
  /\ E = D + n
  /\ Rising(D, sd)
  /\ \A i \in 1..D : sd[i] <= o
  /\ \A i \in 1..D : fd[i] = sd[i]
  /\ \A i \in 1..n : fd[D + i] = o + i

(* fp is the rest of the P rising numbers sp above o after the first n, which
   are o+1, ..., o+n. *)
Rest(o, n, P, Q, sp, fp) ==
  /\ n <= P /\ Q = P - n
  /\ Rising(P, sp)
  /\ \A i \in 1..P : sp[i] > o
  /\ \A i \in 1..n : sp[i] = o + i
  /\ \A i \in 1..Q : fp[i] = sp[n + i]
  /\ n < P => sp[n + 1] # o + n + 1

(* What the flush loop takes: the longest run of expected numbers at the head
   of the buffer. *)
LEMMA FlushRun ==
  ASSUME NEW M, NEW s \in StreamType(M)
  PROVE  Run(s, Least(FlushStops(s)))
<1>. DEFINE n == Least(FlushStops(s))
<1>1. Len(s.pending) \in Nat
  BY DEF StreamType
<1>2. Len(s.pending) \in FlushStops(s) /\ FlushStops(s) \in SUBSET Nat
  BY <1>1 DEF FlushStops
<1>3. n \in FlushStops(s) /\ \A k \in FlushStops(s) : n <= k
  BY <1>2, LeastExists
<1>. HIDE DEF n
<1>4. ASSUME NEW i \in 1..n  PROVE s.pending[i].seq = s.offset + i
  <2>1. i - 1 \in 0..Len(s.pending) /\ i - 1 < Len(s.pending) /\ ~(n <= i - 1)
    BY <1>1, <1>3 DEF FlushStops
  <2>2. i - 1 \notin FlushStops(s)
    BY <2>1, <1>3
  <2>3. s.pending[(i - 1) + 1].seq = s.offset + (i - 1) + 1
    BY <2>1, <2>2 DEF FlushStops
  <2>4. (i - 1) + 1 = i /\ s.offset + (i - 1) + 1 = s.offset + i
    BY DEF StreamType
  <2>. QED  BY <2>3, <2>4
<1>. QED  BY <1>3, <1>4 DEF FlushStops, Run, n

(* The flush itself: what is left in the buffer, what was delivered, and where
   the offset ends, entry by entry. *)
LEMMA FlushResult ==
  ASSUME NEW M, NEW s \in StreamType(M)
  PROVE  Moved(M, s, FlushBuffer(s), Least(FlushStops(s)))
<1>. DEFINE n == Least(FlushStops(s))
            f == FlushBuffer(s)
<1>0. n \in 0..Len(s.pending)
  BY FlushRun DEF Run
<1>f. f = [s EXCEPT !.pending = SubSeq(s.pending, n + 1, Len(s.pending)),
                    !.delivered = s.delivered \o SubSeq(s.pending, 1, n),
                    !.offset = s.offset + n]
  BY DEF FlushBuffer, StreamType
<1>. HIDE DEF n, f
<1>. DEFINE p == SubSeq(s.pending, n + 1, Len(s.pending))
            r == SubSeq(s.pending, 1, n)
            d == s.delivered \o r
<1>1. /\ n \in 0..Len(s.pending)
      /\ s.pending \in Seq(M) /\ s.delivered \in Seq(M) /\ s.offset \in Nat
      /\ Len(s.pending) \in Nat /\ Len(s.delivered) \in Nat
  BY <1>0 DEF StreamType
<1>2. f = [s EXCEPT !.pending = p, !.delivered = d, !.offset = s.offset + n]
  BY <1>f
<1>3. /\ p \in Seq(M)
      /\ Len(p) = Len(s.pending) - n
      /\ \A i \in 1..(Len(s.pending) - n) : p[i] = s.pending[n + i]
  BY <1>1
<1>4. /\ r \in Seq(M)
      /\ Len(r) = n
      /\ \A i \in 1..n : r[i] = s.pending[i]
  BY <1>1
<1>5. /\ d \in Seq(M)
      /\ Len(d) = Len(s.delivered) + n
      /\ \A i \in 1..(Len(s.delivered) + n) :
           d[i] = IF i <= Len(s.delivered) THEN s.delivered[i]
                  ELSE s.pending[i - Len(s.delivered)]
  <2>. HIDE DEF r
  <2>1. /\ d \in Seq(M)
        /\ Len(d) = Len(s.delivered) + Len(r)
        /\ \A i \in 1..(Len(s.delivered) + Len(r)) :
             d[i] = IF i <= Len(s.delivered) THEN s.delivered[i]
                    ELSE r[i - Len(s.delivered)]
    <3>1. s.delivered \in Seq(M) /\ r \in Seq(M)
      BY <1>1, <1>4
    <3>. QED  BY <3>1, ConcatProperties
  <2>2. \A i \in 1..(Len(s.delivered) + n) :
           ~(i <= Len(s.delivered)) => i - Len(s.delivered) \in 1..n
    BY <1>1
  <2>. QED  BY <1>1, <1>4, <2>1, <2>2
<1>6. s.offset + n \in Nat
  BY <1>1
<1>. HIDE DEF p, d
<1>7. /\ f \in StreamType(M)
      /\ f.pending = p /\ f.delivered = d /\ f.offset = s.offset + n
      /\ f.subscribed = s.subscribed /\ f.seen = s.seen /\ f.clean = s.clean
  BY <1>2, <1>3, <1>5, <1>6 DEF StreamType
<1>8. Moved(M, s, f, n)
  BY <1>1, <1>3, <1>5, <1>7 DEF Moved
<1>. QED  BY <1>8 DEF n, f

(* Delivered numbers stay in order and within the offset when a run moves. *)
LEMMA ExtendsRises ==
  ASSUME NEW o \in Nat, NEW n \in Nat, NEW D \in Nat, NEW E \in Nat,
         NEW sd \in [1..D -> Nat], NEW fd \in [1..E -> Nat],
         Extends(o, n, D, E, sd, fd)
  PROVE  Rising(E, fd) /\ \A i \in 1..E : fd[i] <= o + n
<1>0. /\ E = D + n
      /\ \A i, j \in 1..D : i < j => sd[i] < sd[j]
      /\ \A i \in 1..D : sd[i] <= o
      /\ \A i \in 1..D : fd[i] = sd[i]
      /\ \A i \in 1..n : fd[D + i] = o + i
  BY DEF Extends, Rising
<1>. USE <1>0
<1>1. ASSUME NEW i \in 1..E, ~(i <= D)
      PROVE  i - D \in 1..n /\ fd[i] = o + (i - D)
  <2>1. i - D \in 1..n /\ D + (i - D) = i
    BY <1>1
  <2>2. fd[D + (i - D)] = o + (i - D)
    BY <2>1
  <2>. QED  BY <2>1, <2>2
<1>2. ASSUME NEW i \in 1..E, i <= D
      PROVE  i \in 1..D /\ fd[i] = sd[i] /\ fd[i] <= o
  BY <1>2
<1>3. ASSUME NEW i \in 1..E, NEW j \in 1..E, i < j
      PROVE  fd[i] < fd[j]
  <2>1. CASE j <= D
    <3>1. i <= D
      BY <1>3, <2>1
    <3>. QED  BY <1>2, <1>3, <2>1, <3>1
  <2>2. CASE i <= D /\ ~(j <= D)
    BY <1>2, <1>1, <2>2
  <2>3. CASE ~(i <= D) /\ ~(j <= D)
    BY <1>1, <1>3, <2>3
  <2>. QED  BY <1>3, <2>1, <2>2, <2>3
<1>4. ASSUME NEW i \in 1..E
      PROVE  fd[i] <= o + n
  BY <1>1, <1>2
<1>. QED  BY <1>3, <1>4 DEF Rising

(* What stays in the buffer rises strictly, above the next expected number. *)
LEMMA RestRises ==
  ASSUME NEW o \in Nat, NEW n \in Nat, NEW P \in Nat, NEW Q \in Nat,
         NEW sp \in [1..P -> Nat], NEW fp \in [1..Q -> Nat],
         Rest(o, n, P, Q, sp, fp)
  PROVE  Rising(Q, fp) /\ \A i \in 1..Q : fp[i] > o + n + 1
<1>0. /\ n <= P /\ Q = P - n
      /\ \A i, j \in 1..P : i < j => sp[i] < sp[j]
      /\ \A i \in 1..P : sp[i] > o
      /\ \A i \in 1..n : sp[i] = o + i
      /\ \A i \in 1..Q : fp[i] = sp[n + i]
      /\ n < P => sp[n + 1] # o + n + 1
  BY DEF Rest, Rising
<1>. USE <1>0
<1>1. ASSUME NEW i \in 1..Q
      PROVE  n + i \in 1..P /\ n + 1 \in 1..P /\ fp[i] = sp[n + i] /\ fp[i] \in Nat
  OBVIOUS
<1>2. ASSUME NEW i \in 1..Q, NEW j \in 1..Q, i < j
      PROVE  fp[i] < fp[j]
  BY <1>1, <1>2
<1>3. ASSUME NEW i \in 1..Q
      PROVE  fp[i] > o + n + 1
  <2>1. n + 1 \in 1..P /\ sp[n + 1] \in Nat /\ n < P
    BY <1>1, <1>3
  <2>2. sp[n + 1] > o + n
    <3>1. CASE n = 0
      BY <2>1, <3>1
    <3>2. CASE n # 0
      <4>1. n \in 1..P /\ n < n + 1 /\ sp[n] = o + n
        BY <3>2
      <4>. QED  BY <2>1, <4>1
    <3>. QED  BY <3>1, <3>2
  <2>3. sp[n + 1] > o + n + 1
    <3>1. PICK x \in Nat : x = sp[n + 1]
      BY <2>1
    <3>2. x # o + n + 1
      BY <2>1, <3>1
    <3>3. x > o + n
      BY <2>2, <3>1
    <3>4. x > o + n + 1
      BY <3>2, <3>3
    <3>. QED  BY <3>1, <3>4
  <2>4. CASE i = 1
    <3>1. 1 \in 1..Q
      BY <1>3, <2>4
    <3>2. fp[1] = sp[n + 1]
      BY <3>1
    <3>. QED  BY <2>1, <2>3, <2>4, <3>2
  <2>5. CASE i # 1
    <3>. DEFINE k == n + i
    <3>1. k \in 1..P /\ n + 1 < k /\ fp[i] = sp[k] /\ sp[k] \in Nat
      BY <1>1, <2>5
    <3>. HIDE DEF k
    <3>2. sp[n + 1] < sp[k]
      BY <2>1, <3>1
    <3>. QED  BY <2>1, <2>3, <3>1, <3>2
  <2>. QED  BY <2>4, <2>5
<1>. QED  BY <1>2, <1>3 DEF Rising

(* Moving the n expected messages at the head of the buffer to the deliveries
   gives an invariant stream, if the next one is not expected. *)
LEMMA MoveKeepsInv ==
  ASSUME NEW M, Numbered(M),
         NEW s \in StreamType(M), NEW f, NEW n,
         ReadyToFlush(s), Run(s, n), Moved(M, s, f, n)
  PROVE  StreamInv(f)
<1>. DEFINE o == s.offset
            P == Len(s.pending)
            D == Len(s.delivered)
            Q == Len(f.pending)
            E == Len(f.delivered)
            sp == [i \in 1..P |-> s.pending[i].seq]
            sd == [i \in 1..D |-> s.delivered[i].seq]
            fp == [i \in 1..Q |-> f.pending[i].seq]
            fd == [i \in 1..E |-> f.delivered[i].seq]
<1>1. /\ s.pending \in Seq(M) /\ s.delivered \in Seq(M)
      /\ f.pending \in Seq(M) /\ f.delivered \in Seq(M)
      /\ s.seen \subseteq Nat
      /\ o \in Nat /\ n \in Nat
  BY DEF StreamType, Moved
<1>2. /\ P \in Nat /\ D \in Nat /\ Q \in Nat /\ E \in Nat
      /\ n <= P /\ Q = P - n /\ E = D + n
  BY <1>1 DEF Moved
<1>3. /\ sp \in [1..P -> Nat] /\ sd \in [1..D -> Nat]
      /\ fp \in [1..Q -> Nat] /\ fd \in [1..E -> Nat]
  BY <1>1 DEF Numbered
<1>4. /\ \A i \in 1..P : sp[i] = s.pending[i].seq
      /\ \A i \in 1..D : sd[i] = s.delivered[i].seq
      /\ \A i \in 1..Q : fp[i] = f.pending[i].seq
      /\ \A i \in 1..E : fd[i] = f.delivered[i].seq
  OBVIOUS
<1>5. /\ \A i \in 1..n : s.pending[i].seq = o + i
      /\ n < P => s.pending[n + 1].seq # o + n + 1
      /\ \A i \in 1..Q : f.pending[i] = s.pending[n + i]
      /\ \A i \in 1..E : f.delivered[i] = IF i <= D THEN s.delivered[i]
                                            ELSE s.pending[i - D]
  BY DEF Run, Moved
<1>6. /\ \A i, j \in 1..D : i < j => s.delivered[i].seq < s.delivered[j].seq
      /\ \A i \in 1..D : s.delivered[i].seq <= o
      /\ \A q \in s.seen : q <= o \/ \E i \in 1..P : q = s.pending[i].seq
      /\ s.clean => \A i \in 1..P :
           /\ s.pending[i].seq > o
           /\ s.pending[i].seq \in s.seen
           /\ \A j \in 1..P : i < j => s.pending[i].seq < s.pending[j].seq
  BY DEF ReadyToFlush, InOrder, Retained, Numbers, BufferAbove
<1>7. /\ f.offset = o + n
      /\ f.subscribed
      /\ f.seen = s.seen
      /\ f.clean = s.clean
      /\ Len(f.pending) = Q
      /\ Len(f.delivered) = E
  BY DEF Moved, ReadyToFlush
<1>. HIDE DEF o, P, D, Q, E, sp, sd, fp, fd
<1>8. InOrder(f)
  <2>1. \A i \in 1..D : fd[i] = sd[i]
    <3>. \A i \in 1..D : i \in 1..E /\ i <= D
      BY <1>1, <1>2
    <3>. QED  BY <1>4, <1>5
  <2>2. \A i \in 1..n : fd[D + i] = o + i
    <3>. \A i \in 1..n : D + i \in 1..E /\ ~(D + i <= D) /\ (D + i) - D = i
      BY <1>1, <1>2
    <3>. QED  BY <1>4, <1>5
  <2>3. Extends(o, n, D, E, sd, fd)
    BY <1>2, <1>4, <1>6, <2>1, <2>2 DEF Extends, Rising
  <2>4. Rising(E, fd) /\ \A i \in 1..E : fd[i] <= o + n
    BY <1>1, <1>2, <1>3, <2>3, ExtendsRises
  <2>. QED  BY <1>4, <1>7, <2>4 DEF InOrder, Rising
<1>9. Retained(f)
  <2>1. ASSUME NEW q \in s.seen, ~(q <= o + n)
        PROVE  \E i \in 1..Q : f.pending[i].seq = q
    <3>1. q \in Nat /\ ~(q <= o)
      BY <1>1, <2>1
    <3>2. PICK i \in 1..P : s.pending[i].seq = q
      BY <3>1, <1>6
    <3>3. i \in 1..n => q = o + i
      BY <1>5, <3>2
    <3>4. ~(i <= n)
      BY <1>1, <1>2, <2>1, <3>1, <3>3
    <3>5. i - n \in 1..Q /\ n + (i - n) = i
      BY <1>1, <1>2, <3>4
    <3>. QED  BY <1>5, <3>2, <3>5
  <2>. QED  BY <1>7, <2>1 DEF Retained, Numbers
<1>10. BufferAbove(f, f.offset + 1)
  <2>. SUFFICES ASSUME f.clean
                PROVE  /\ Rising(Q, fp)
                       /\ \A i \in 1..Q : fp[i] > o + n + 1
                       /\ \A i \in 1..Q : fp[i] \in f.seen
    BY <1>4, <1>7 DEF BufferAbove, Rising
  <2>1. \A i \in 1..Q : n + i \in 1..P
    BY <1>1, <1>2
  <2>2. \A i \in 1..n : i \in 1..P
    BY <1>1, <1>2
  <2>3. n < P => n + 1 \in 1..P
    BY <1>1, <1>2
  <2>4. /\ Rising(P, sp)
        /\ \A i \in 1..P : sp[i] > o
    BY <1>4, <1>6, <1>7 DEF Rising
  <2>5. \A i \in 1..Q : fp[i] = sp[n + i]
    BY <1>4, <1>5, <2>1
  <2>6. \A i \in 1..n : sp[i] = o + i
    BY <1>4, <1>5, <2>2
  <2>7. n < P => sp[n + 1] # o + n + 1
    BY <1>4, <1>5, <2>3
  <2>8. Rest(o, n, P, Q, sp, fp)
    BY <1>2, <2>4, <2>5, <2>6, <2>7 DEF Rest
  <2>9. Rising(Q, fp) /\ \A i \in 1..Q : fp[i] > o + n + 1
    BY <1>1, <1>2, <1>3, <2>8, RestRises
  <2>. QED  BY <1>4, <1>6, <1>7, <2>1, <2>5, <2>9
<1>11. Idle(f)
  BY <1>7 DEF Idle
<1>. QED  BY <1>8, <1>9, <1>10, <1>11 DEF StreamInv

(* A stream whose buffer may start with the expected message is an invariant
   stream again once it is flushed. *)
LEMMA FlushKeepsInv ==
  ASSUME NEW M, Numbered(M), NEW s \in StreamType(M), ReadyToFlush(s)
  PROVE  /\ FlushBuffer(s) \in StreamType(M)
         /\ StreamInv(FlushBuffer(s))
<1>1. Run(s, Least(FlushStops(s)))
  BY FlushRun
<1>2. Moved(M, s, FlushBuffer(s), Least(FlushStops(s)))
  BY FlushResult
<1>. QED  BY <1>1, <1>2, MoveKeepsInv DEF Moved

(***************************************************************************)
(* Insertion into the buffer.                                              *)
(***************************************************************************)

(* b is s with m at place k + 1 of the buffer, after the messages that are not
   later than m and before those that are. *)
Inserted(M, s, b, m, k) ==
  /\ b \in StreamType(M)
  /\ k \in 0..Len(s.pending)
  /\ b.offset = s.offset /\ b.delivered = s.delivered
  /\ b.subscribed = s.subscribed /\ b.seen = s.seen /\ b.clean = s.clean
  /\ Len(b.pending) = Len(s.pending) + 1
  /\ \A i \in 1..Len(b.pending) :
       b.pending[i] = IF i <= k THEN s.pending[i]
                      ELSE IF i = k + 1 THEN m
                      ELSE s.pending[i - 1]
  /\ \A i \in 1..k : ~(s.pending[i].seq > m.seq)
  /\ k < Len(s.pending) => s.pending[k + 1].seq > m.seq

(* The number q among the P rising numbers sp above o, none of them q, at
   place k + 1 of the R numbers bp. *)
Among(o, q, P, R, k, sp, bp) ==
  /\ k <= P /\ R = P + 1 /\ q > o
  /\ Rising(P, sp)
  /\ \A i \in 1..P : sp[i] > o
  /\ \A i \in 1..k : sp[i] < q
  /\ k < P => sp[k + 1] > q
  /\ \A i \in 1..k : bp[i] = sp[i]
  /\ bp[k + 1] = q
  /\ \A i \in (k + 1)..P : bp[i + 1] = sp[i]

(* The insertion puts the message where the sort would. *)
LEMMA BufferResult ==
  ASSUME NEW M, NEW s \in StreamType(M), NEW m \in M
  PROVE  Inserted(M, s, Buffer(s, m), m, Least(BufferSlots(s, m)))
<1>. DEFINE k == Least(BufferSlots(s, m))
            b == Buffer(s, m)
            head == SubSeq(s.pending, 1, k)
            tail == SubSeq(s.pending, k + 1, Len(s.pending))
            front == head \o <<m>>
            all == front \o tail
<1>1. /\ Len(s.pending) \in Nat
      /\ s.pending \in Seq(M)
  BY DEF StreamType
<1>2. Len(s.pending) \in BufferSlots(s, m) /\ BufferSlots(s, m) \in SUBSET Nat
  BY <1>1 DEF BufferSlots
<1>3. k \in BufferSlots(s, m) /\ \A x \in BufferSlots(s, m) : k <= x
  BY <1>2, LeastExists
<1>4. b = [s EXCEPT !.pending = all]
  BY DEF Buffer, StreamType
<1>. HIDE DEF k, b
<1>5. k \in 0..Len(s.pending) /\ (k < Len(s.pending) => s.pending[k + 1].seq > m.seq)
  BY <1>3 DEF BufferSlots
<1>6. ASSUME NEW i \in 1..k  PROVE ~(s.pending[i].seq > m.seq)
  <2>1. i - 1 \in 0..Len(s.pending) /\ i - 1 < Len(s.pending) /\ ~(k <= i - 1)
    BY <1>1, <1>5
  <2>2. i - 1 \notin BufferSlots(s, m)
    BY <2>1, <1>3
  <2>3. ~(s.pending[(i - 1) + 1].seq > m.seq)
    BY <2>1, <2>2 DEF BufferSlots
  <2>4. (i - 1) + 1 = i
    OBVIOUS
  <2>. QED  BY <2>3, <2>4
<1>7. /\ head \in Seq(M) /\ Len(head) = k
      /\ \A i \in 1..k : head[i] = s.pending[i]
  BY <1>1, <1>5
<1>8. /\ tail \in Seq(M) /\ Len(tail) = Len(s.pending) - k
      /\ \A i \in 1..(Len(s.pending) - k) : tail[i] = s.pending[k + i]
  BY <1>1, <1>5
<1>. HIDE DEF head, tail
<1>9. /\ front \in Seq(M) /\ Len(front) = k + 1
      /\ \A i \in 1..k : front[i] = s.pending[i]
      /\ front[k + 1] = m
  <2>1. <<m>> \in Seq(M) /\ Len(<<m>>) = 1 /\ <<m>>[1] = m
    OBVIOUS
  <2>2. /\ front \in Seq(M) /\ Len(front) = Len(head) + Len(<<m>>)
        /\ \A i \in 1..(Len(head) + Len(<<m>>)) :
             front[i] = IF i <= Len(head) THEN head[i] ELSE <<m>>[i - Len(head)]
    BY <1>7, <2>1, ConcatProperties
  <2>3. \A i \in 1..k : i \in 1..(k + 1) /\ i <= k
    BY <1>1, <1>5
  <2>4. k + 1 \in 1..(k + 1) /\ ~(k + 1 <= k) /\ (k + 1) - k = 1
    BY <1>1, <1>5
  <2>. QED  BY <1>7, <2>1, <2>2, <2>3, <2>4
<1>. HIDE DEF front
<1>10. /\ all \in Seq(M) /\ Len(all) = Len(s.pending) + 1
       /\ \A i \in 1..Len(all) :
            all[i] = IF i <= k THEN s.pending[i]
                     ELSE IF i = k + 1 THEN m
                     ELSE s.pending[i - 1]
  <2>1. /\ all \in Seq(M) /\ Len(all) = Len(front) + Len(tail)
        /\ \A i \in 1..(Len(front) + Len(tail)) :
             all[i] = IF i <= Len(front) THEN front[i] ELSE tail[i - Len(front)]
    BY <1>8, <1>9, ConcatProperties
  <2>2. Len(all) = Len(s.pending) + 1
    <3>. DEFINE L == Len(s.pending)
    <3>1. L \in Nat /\ k \in Nat
      BY <1>1, <1>5
    <3>2. Len(all) = (k + 1) + (L - k)
      BY <1>8, <1>9, <2>1
    <3>. HIDE DEF L
    <3>3. (k + 1) + (L - k) = L + 1
      BY <3>1
    <3>. QED  BY <3>2, <3>3 DEF L
  <2>. HIDE DEF all
  <2>3. ASSUME NEW i \in 1..Len(all), i <= k  PROVE all[i] = s.pending[i]
    <3>1. i \in 1..k /\ i <= k + 1
      BY <1>1, <1>5, <2>2, <2>3
    <3>. QED  BY <1>9, <2>1, <3>1
  <2>4. ASSUME NEW i \in 1..Len(all), i = k + 1  PROVE all[i] = m
    BY <1>1, <1>5, <1>9, <2>1, <2>4
  <2>5. ASSUME NEW i \in 1..Len(all), ~(i <= k), i # k + 1
        PROVE  all[i] = s.pending[i - 1]
    <3>1. ~(i <= k + 1) /\ i - (k + 1) \in 1..(Len(s.pending) - k)
          /\ k + (i - (k + 1)) = i - 1
      BY <1>1, <1>5, <2>2, <2>5
    <3>2. all[i] = tail[i - (k + 1)]
      BY <1>9, <2>1, <3>1
    <3>. QED  BY <1>8, <3>1, <3>2
  <2>. QED  BY <2>1, <2>2, <2>3, <2>4, <2>5
<1>. HIDE DEF all
<1>11. /\ b \in StreamType(M) /\ b.pending = all
       /\ b.offset = s.offset /\ b.delivered = s.delivered
       /\ b.subscribed = s.subscribed /\ b.seen = s.seen /\ b.clean = s.clean
  BY <1>4, <1>10 DEF StreamType
<1>12. Inserted(M, s, b, m, k)
  BY <1>5, <1>6, <1>10, <1>11 DEF Inserted
<1>. QED  BY <1>12 DEF k, b

(* Numbers that rise strictly go on doing so with a new one in its place. *)
LEMMA AmongRises ==
  ASSUME NEW o \in Nat, NEW q \in Nat, NEW P \in Nat, NEW R \in Nat, NEW k \in Nat,
         NEW sp \in [1..P -> Nat], NEW bp \in [1..R -> Nat],
         Among(o, q, P, R, k, sp, bp)
  PROVE  Rising(R, bp) /\ \A i \in 1..R : bp[i] > o
<1>0. /\ k <= P /\ R = P + 1 /\ q > o
      /\ \A i, j \in 1..P : i < j => sp[i] < sp[j]
      /\ \A i \in 1..P : sp[i] > o
      /\ \A i \in 1..k : sp[i] < q
      /\ k < P => sp[k + 1] > q
      /\ \A i \in 1..k : bp[i] = sp[i]
      /\ bp[k + 1] = q
      /\ \A i \in (k + 1)..P : bp[i + 1] = sp[i]
  BY DEF Among, Rising
<1>. USE <1>0
<1>1. ASSUME NEW i \in 1..R, i <= k
      PROVE  i \in 1..P /\ bp[i] = sp[i] /\ bp[i] < q /\ bp[i] > o
  BY <1>1
<1>2. ASSUME NEW i \in 1..R, i = k + 1
      PROVE  bp[i] = q /\ bp[i] > o
  BY <1>2
<1>3. ASSUME NEW i \in 1..R, k + 1 < i
      PROVE  /\ i - 1 \in 1..P /\ bp[i] = sp[i - 1]
             /\ bp[i] > q /\ bp[i] > o
  <2>. DEFINE x == i - 1
  <2>1. x \in (k + 1)..P /\ x \in 1..P /\ x + 1 = i /\ k + 1 \in 1..P /\ k < P
    BY <1>3
  <2>. HIDE DEF x
  <2>2. bp[i] = sp[x]
    BY <2>1
  <2>3. sp[x] > q
    <3>1. sp[k + 1] > q /\ sp[k + 1] \in Nat /\ sp[x] \in Nat
      BY <2>1
    <3>2. CASE x = k + 1
      BY <3>1, <3>2
    <3>3. CASE x # k + 1
      <4>1. k + 1 < x
        BY <2>1, <3>3
      <4>2. sp[k + 1] < sp[x]
        BY <2>1, <4>1
      <4>. QED  BY <3>1, <4>2
    <3>. QED  BY <3>2, <3>3
  <2>4. sp[x] > o
    BY <2>1
  <2>. QED  BY <2>1, <2>2, <2>3, <2>4 DEF x
<1>4. ASSUME NEW i \in 1..R, NEW j \in 1..R, i < j
      PROVE  bp[i] < bp[j]
  <2>1. CASE j <= k
    <3>1. i <= k
      BY <1>4, <2>1
    <3>. QED  BY <1>1, <1>4, <2>1, <3>1
  <2>2. CASE j = k + 1
    <3>1. i <= k
      BY <1>4, <2>2
    <3>. QED  BY <1>1, <2>2, <3>1
  <2>3. CASE k + 1 < j /\ i <= k + 1
    <3>1. bp[j] > q /\ bp[j] \in Nat /\ bp[i] \in Nat
      BY <1>3, <2>3
    <3>2. i <= k \/ i = k + 1
      BY <2>3
    <3>3. bp[i] <= q
      BY <1>1, <1>2, <3>1, <3>2
    <3>. QED  BY <3>1, <3>3
  <2>4. CASE k + 1 < i
    <3>1. k + 1 < j
      BY <1>4, <2>4
    <3>2. /\ i - 1 \in 1..P /\ bp[i] = sp[i - 1]
          /\ j - 1 \in 1..P /\ bp[j] = sp[j - 1]
      BY <1>3, <2>4, <3>1
    <3>3. i - 1 < j - 1
      BY <1>4
    <3>. QED  BY <3>2, <3>3
  <2>. QED  BY <1>4, <2>1, <2>2, <2>3, <2>4
<1>5. ASSUME NEW i \in 1..R
      PROVE  bp[i] > o
  <2>1. i <= k \/ i = k + 1 \/ k + 1 < i
    OBVIOUS
  <2>. QED  BY <1>1, <1>2, <1>3, <2>1
<1>. QED  BY <1>4, <1>5 DEF Rising

(* Buffering a message that came early keeps the invariant: it is retained, and
   while the stream is clean the buffer goes on rising strictly. *)
LEMMA BufferKeepsInv ==
  ASSUME NEW M, Numbered(M),
         NEW s \in StreamType(M), StreamInv(s), s.subscribed,
         NEW m \in M, m.seq > s.offset + 1
  PROVE  /\ Buffer(Observed(s, m), m) \in StreamType(M)
         /\ StreamInv(Buffer(Observed(s, m), m))
<1>. DEFINE w == Observed(s, m)
            b == Buffer(w, m)
            k == Least(BufferSlots(w, m))
            o == s.offset
            q == m.seq
            P == Len(s.pending)
            R == Len(b.pending)
            sp == [i \in 1..P |-> s.pending[i].seq]
            bp == [i \in 1..R |-> b.pending[i].seq]
<1>1. q \in Nat /\ o \in Nat
  BY DEF Numbered, StreamType
<1>2. /\ w \in StreamType(M)
      /\ w.offset = o /\ w.delivered = s.delivered /\ w.pending = s.pending
      /\ w.subscribed = s.subscribed /\ w.seen = s.seen \cup {q}
      /\ w.clean => s.clean /\ q \notin s.seen
  BY <1>1 DEF Observed, StreamType
<1>. HIDE DEF w
<1>3. Inserted(M, w, b, m, k)
  BY <1>2, BufferResult
<1>. HIDE DEF b, k
<1>4. /\ b \in StreamType(M)
      /\ k \in Nat /\ k <= P
      /\ b.offset = o /\ b.delivered = s.delivered
      /\ b.subscribed /\ b.seen = s.seen \cup {q}
      /\ b.clean => s.clean /\ q \notin s.seen
      /\ R = P + 1
      /\ \A i \in 1..R :
           b.pending[i] = IF i <= k THEN s.pending[i]
                          ELSE IF i = k + 1 THEN m
                          ELSE s.pending[i - 1]
      /\ \A i \in 1..k : ~(s.pending[i].seq > q)
      /\ k < P => s.pending[k + 1].seq > q
  <2>1. /\ b \in StreamType(M) /\ k \in 0..P
        /\ b.offset = w.offset /\ b.delivered = w.delivered
        /\ b.subscribed = w.subscribed /\ b.seen = w.seen /\ b.clean = w.clean
        /\ R = P + 1
        /\ \A i \in 1..R :
             b.pending[i] = IF i <= k THEN s.pending[i]
                            ELSE IF i = k + 1 THEN m
                            ELSE s.pending[i - 1]
        /\ \A i \in 1..k : ~(s.pending[i].seq > q)
        /\ k < P => s.pending[k + 1].seq > q
    BY <1>2, <1>3, Zenon DEF Inserted
  <2>2. P \in Nat
    BY DEF StreamType
  <2>. HIDE DEF P, R, o, q
  <2>3. k \in Nat /\ k <= P
    BY <2>1, <2>2
  <2>. QED  BY <1>2, <2>1, <2>3
<1>5. /\ P \in Nat /\ R \in Nat
      /\ sp \in [1..P -> Nat] /\ bp \in [1..R -> Nat]
  BY <1>4 DEF StreamType, Numbered
<1>6. /\ \A i \in 1..P : sp[i] = s.pending[i].seq
      /\ \A i \in 1..R : bp[i] = b.pending[i].seq
  OBVIOUS
<1>7. /\ \A x \in s.seen : x <= o \/ \E i \in 1..P : x = s.pending[i].seq
      /\ s.clean => \A i \in 1..P :
           /\ s.pending[i].seq > o + 1
           /\ s.pending[i].seq \in s.seen
           /\ \A j \in 1..P : i < j => s.pending[i].seq < s.pending[j].seq
      /\ InOrder(s)
  BY DEF StreamInv, Retained, Numbers, BufferAbove
<1>8. Len(b.pending) = R /\ o + 1 \in Nat /\ q > o + 1
  BY <1>1
<1>. HIDE DEF o, q, P, R, sp, bp
<1>9. /\ \A i \in 1..k : i \in 1..P /\ i \in 1..R /\ i <= k
      /\ k + 1 \in 1..R /\ ~(k + 1 <= k)
      /\ \A i \in (k + 1)..P : /\ i \in 1..P /\ i + 1 \in 1..R
                               /\ ~(i + 1 <= k) /\ i + 1 # k + 1 /\ (i + 1) - 1 = i
      /\ k < P => k + 1 \in 1..P
  BY <1>4, <1>5
<1>10. /\ \A i \in 1..k : b.pending[i] = s.pending[i]
       /\ b.pending[k + 1] = m
       /\ \A i \in (k + 1)..P : b.pending[i + 1] = s.pending[i]
  BY <1>4, <1>9
<1>11. InOrder(b)
  BY <1>4, <1>7 DEF InOrder, o
<1>12. Retained(b)
  <2>1. q \in Numbers(b.pending)
    BY <1>8, <1>9, <1>10 DEF Numbers, q
  <2>2. ASSUME NEW x \in s.seen, ~(x <= o)  PROVE x \in Numbers(b.pending)
    <3>1. PICK i \in 1..P : x = s.pending[i].seq
      BY <1>7, <2>2
    <3>2. CASE i \in 1..k
      BY <1>8, <1>9, <1>10, <3>1, <3>2 DEF Numbers
    <3>3. CASE i \in (k + 1)..P
      BY <1>8, <1>9, <1>10, <3>1, <3>3 DEF Numbers
    <3>4. i \in 1..k \/ i \in (k + 1)..P
      BY <1>4, <1>5
    <3>. QED  BY <3>2, <3>3, <3>4
  <2>. QED  BY <1>4, <2>1, <2>2 DEF Retained
<1>13. BufferAbove(b, b.offset + 1)
  <2>. SUFFICES ASSUME b.clean
                PROVE  /\ Rising(R, bp)
                       /\ \A i \in 1..R : bp[i] > o + 1
                       /\ \A i \in 1..R : bp[i] \in b.seen
    BY <1>4, <1>6, <1>8 DEF BufferAbove, Rising
  <2>1. /\ Rising(P, sp)
        /\ \A i \in 1..P : sp[i] > o + 1 /\ sp[i] \in s.seen
        /\ q \notin s.seen
    BY <1>4, <1>6, <1>7 DEF Rising
  <2>2. \A i \in 1..k : sp[i] < q
    <3>1. ASSUME NEW i \in 1..k  PROVE sp[i] < q
      <4>0. i \in 1..P /\ sp[i] = s.pending[i].seq /\ ~(s.pending[i].seq > q)
        BY <1>4, <1>6, <1>9
      <4>1. sp[i] \in Nat /\ ~(sp[i] > q) /\ sp[i] # q
        BY <1>5, <2>1, <4>0
      <4>. QED  BY <1>1, <4>1
    <3>. QED  BY <3>1
  <2>3. k < P => sp[k + 1] > q
    BY <1>4, <1>6, <1>9
  <2>4. /\ \A i \in 1..k : bp[i] = sp[i]
        /\ bp[k + 1] = q
        /\ \A i \in (k + 1)..P : bp[i + 1] = sp[i]
    BY <1>6, <1>9, <1>10 DEF q
  <2>5. Among(o + 1, q, P, R, k, sp, bp)
    BY <1>4, <1>8, <2>1, <2>2, <2>3, <2>4 DEF Among
  <2>6. Rising(R, bp) /\ \A i \in 1..R : bp[i] > o + 1
    <3>. DEFINE u == o + 1
    <3>. u \in Nat /\ Among(u, q, P, R, k, sp, bp)
      BY <1>8, <2>5
    <3>. HIDE DEF u
    <3>1. Rising(R, bp) /\ \A i \in 1..R : bp[i] > u
      BY <1>1, <1>4, <1>5, AmongRises
    <3>. QED  BY <3>1 DEF u
  <2>7. \A i \in 1..R : bp[i] \in b.seen
    <3>1. ASSUME NEW i \in 1..R  PROVE bp[i] \in b.seen
      <4>1. CASE i \in 1..k
        BY <1>4, <1>9, <2>1, <2>4, <4>1
      <4>2. CASE i = k + 1
        BY <1>4, <2>4, <4>2
      <4>3. CASE i - 1 \in (k + 1)..P
        <5>1. (i - 1) + 1 = i
          BY <4>3
        <5>. QED  BY <1>4, <1>9, <2>1, <2>4, <4>3, <5>1
      <4>4. i \in 1..k \/ i = k + 1 \/ i - 1 \in (k + 1)..P
        BY <1>4, <1>5
      <4>. QED  BY <4>1, <4>2, <4>3, <4>4
    <3>. QED  BY <3>1
  <2>. QED  BY <2>6, <2>7
<1>14. Idle(b)
  BY <1>4 DEF Idle
<1>15. StreamInv(b)
  BY <1>11, <1>12, <1>13, <1>14 DEF StreamInv
<1>. QED  BY <1>4, <1>15 DEF b, w

(***************************************************************************)
(* The operations.                                                         *)
(***************************************************************************)

(* A new stream, whatever offset it is opened at, satisfies the invariant. *)
LEMMA OpenedInv ==
  ASSUME NEW M, NEW offset \in Nat
  PROVE  Opened(offset) \in StreamType(M) /\ StreamInv(Opened(offset))
BY DEF Opened, StreamType, StreamInv, InOrder, Retained, Idle, BufferAbove, Numbers

(* Subscribing changes nothing the invariant speaks of. *)
LEMMA SubscribedInv ==
  ASSUME NEW M, NEW s \in StreamType(M), StreamInv(s)
  PROVE  Subscribed(s) \in StreamType(M) /\ StreamInv(Subscribed(s))
<1>. DEFINE w == Subscribed(s)
<1>1. /\ w \in StreamType(M)
      /\ w.subscribed /\ w.offset = s.offset /\ w.pending = s.pending
      /\ w.delivered = s.delivered /\ w.seen = s.seen /\ w.clean = s.clean
  BY DEF Subscribed, StreamType
<1>. HIDE DEF w
<1>2. StreamInv(w)
  BY <1>1 DEF StreamInv, InOrder, Retained, Idle, BufferAbove
<1>. QED  BY <1>1, <1>2 DEF w

(* An explicit commit only moves the offset forward, and gives up cleanness. *)
LEMMA CommittedInv ==
  ASSUME NEW M, Numbered(M), NEW s \in StreamType(M), StreamInv(s), NEW q \in Nat
  PROVE  /\ Committed(s, q) \in StreamType(M) /\ StreamInv(Committed(s, q))
         /\ Committed(s, q).offset = IF q > s.offset THEN q ELSE s.offset
<1>. DEFINE w == [s EXCEPT !.offset = q, !.clean = FALSE]
<1>1. CASE ~(q > s.offset)
  BY <1>1 DEF Committed
<1>2. CASE q > s.offset
  <2>1. /\ w \in StreamType(M)
        /\ w.subscribed = s.subscribed /\ w.offset = q /\ w.pending = s.pending
        /\ w.delivered = s.delivered /\ w.seen = s.seen /\ ~w.clean
    BY DEF StreamType
  <2>2. Committed(s, q) = w
    BY <1>2 DEF Committed
  <2>. HIDE DEF w
  <2>3. /\ s.offset \in Nat /\ s.seen \subseteq Nat
        /\ \A i \in 1..Len(s.delivered) : s.delivered[i].seq \in Nat
    BY DEF StreamType, Numbered
  <2>4. \A x \in Nat : x <= s.offset => x <= q
    BY <1>2, <2>3
  <2>5. InOrder(w) /\ Retained(w)
    BY <2>1, <2>3, <2>4 DEF StreamInv, InOrder, Retained
  <2>6. Idle(w) /\ BufferAbove(w, w.offset + 1)
    BY <2>1 DEF StreamInv, Idle, BufferAbove
  <2>. QED  BY <1>2, <2>1, <2>2, <2>5, <2>6 DEF StreamInv
<1>. QED  BY <1>1, <1>2

(* What a flush passes, it delivers. *)
LEMMA FlushDelivers ==
  ASSUME NEW M, NEW s \in StreamType(M),
         NEW x \in (s.offset + 1)..FlushBuffer(s).offset
  PROVE  x \in Numbers(FlushBuffer(s).delivered)
<1>. DEFINE n == Least(FlushStops(s))
            f == FlushBuffer(s)
            o == s.offset
            P == Len(s.pending)
            D == Len(s.delivered)
<1>1. Run(s, n) /\ Moved(M, s, f, n)
  BY FlushRun, FlushResult
<1>. HIDE DEF n, f
<1>2. /\ o \in Nat /\ P \in Nat /\ D \in Nat /\ n \in Nat /\ n <= P
      /\ f.offset = o + n /\ Len(f.delivered) = D + n
      /\ \A i \in 1..(D + n) :
            f.delivered[i] = IF i <= D THEN s.delivered[i] ELSE s.pending[i - D]
      /\ \A i \in 1..n : s.pending[i].seq = o + i
  <2>1. o \in Nat /\ P \in Nat /\ D \in Nat
    BY DEF StreamType
  <2>2. n \in Nat /\ n <= P /\ f.offset = o + n /\ Len(f.delivered) = D + n
    BY <1>1 DEF Moved
  <2>3. \A i \in 1..n : s.pending[i].seq = o + i
    BY <1>1 DEF Run
  <2>4. \A i \in 1..Len(f.delivered) :
          f.delivered[i] = IF i <= D THEN s.delivered[i] ELSE s.pending[i - D]
    BY <1>1 DEF Moved
  <2>. QED  BY <2>1, <2>2, <2>3, <2>4
<1>3. x \in (o + 1)..(o + n)
  BY <1>2 DEF f
<1>. HIDE DEF o, P, D
<1>. DEFINE i == D + (x - o)
<1>4. /\ i \in 1..(D + n) /\ ~(i <= D) /\ i - D = x - o
      /\ x - o \in 1..n /\ o + (x - o) = x
  BY <1>2, <1>3
<1>. HIDE DEF i
<1>5. f.delivered[i].seq = x
  BY <1>2, <1>4
<1>6. i \in 1..Len(f.delivered)
  BY <1>2, <1>4
<1>. QED  BY <1>5, <1>6 DEF Numbers, f

(* The flush keeps what was delivered before. *)
LEMMA FlushKeepsDelivered ==
  ASSUME NEW M, NEW s \in StreamType(M)
  PROVE  Numbers(s.delivered) \subseteq Numbers(FlushBuffer(s).delivered)
<1>. DEFINE n == Least(FlushStops(s))
            f == FlushBuffer(s)
            D == Len(s.delivered)
<1>1. Moved(M, s, f, n)
  BY FlushResult
<1>. HIDE DEF n, f
<1>2. /\ D \in Nat /\ n \in Nat /\ Len(f.delivered) = D + n
      /\ \A i \in 1..(D + n) :
            f.delivered[i] = IF i <= D THEN s.delivered[i] ELSE s.pending[i - D]
  BY <1>1 DEF Moved, StreamType
<1>3. Numbers(s.delivered) = {s.delivered[i].seq : i \in 1..D}
  BY DEF Numbers
<1>. HIDE DEF D
<1>4. ASSUME NEW i \in 1..D
      PROVE  i \in 1..Len(f.delivered) /\ f.delivered[i] = s.delivered[i]
  <2>1. i \in 1..(D + n) /\ i <= D
    BY <1>2
  <2>. QED  BY <1>2, <2>1
<1>. QED  BY <1>3, <1>4 DEF Numbers, f

(* on_message keeps the type and the invariant, never moves the offset back, and
   delivers every number a subscribed stream's offset passes. *)
LEMMA OnMessageInv ==
  ASSUME NEW M, Numbered(M), NEW s \in StreamType(M), StreamInv(s), NEW m \in M
  PROVE  /\ OnMessage(s, m) \in StreamType(M)
         /\ StreamInv(OnMessage(s, m))
         /\ \A x \in (s.offset + 1)..OnMessage(s, m).offset :
              x \in Numbers(OnMessage(s, m).delivered) \/ (~s.subscribed /\ x = m.seq)
<1>. DEFINE o == s.offset
            q == m.seq
            w == Observed(s, m)
            e == [w EXCEPT !.offset = q, !.delivered = Append(w.delivered, m)]
<1>1. o \in Nat /\ q \in Nat
  BY DEF StreamType, Numbered
<1>2. /\ w \in StreamType(M)
      /\ w.subscribed = s.subscribed /\ w.offset = o /\ w.pending = s.pending
      /\ w.delivered = s.delivered /\ w.seen = s.seen \cup {q}
      /\ w.clean => s.clean /\ q \notin s.seen /\ q > o
  BY <1>1 DEF Observed, StreamType
<1>3. \A i \in 1..Len(s.delivered) : s.delivered[i] \in M /\ s.delivered[i].seq \in Nat
  BY DEF StreamType, Numbered
<1>4. InOrder(s) /\ Retained(s) /\ Idle(s) /\ BufferAbove(s, s.offset + 1)
  BY DEF StreamInv
<1>5. CASE ~s.subscribed /\ q = o + 1
  <2>. DEFINE u == [s EXCEPT !.offset = q]
  <2>1. /\ u \in StreamType(M)
        /\ ~u.subscribed /\ u.offset = q /\ u.pending = s.pending
        /\ u.delivered = s.delivered /\ u.seen = s.seen /\ u.clean = s.clean
    BY <1>1, <1>5 DEF StreamType
  <2>2. OnMessage(s, m) = u
    BY <1>5 DEF OnMessage, OnUnsubscribed
  <2>. HIDE DEF u
  <2>3. u.pending = <<>> /\ u.seen = {}
    BY <1>4, <1>5, <2>1 DEF Idle
  <2>4. InOrder(u)
    <3>1. \A x \in Nat : x <= o => x <= q
      BY <1>1, <1>5
    <3>. QED  BY <1>3, <1>4, <2>1, <3>1 DEF InOrder
  <2>5. StreamInv(u)
    BY <2>3, <2>4 DEF StreamInv, Retained, Idle, BufferAbove
  <2>6. \A x \in (o + 1)..u.offset : x = q
    BY <1>1, <1>5, <2>1
  <2>. QED  BY <1>5, <2>1, <2>2, <2>5, <2>6
<1>6. CASE ~s.subscribed /\ q # o + 1
  <2>1. OnMessage(s, m) = s
    BY <1>6 DEF OnMessage, OnUnsubscribed
  <2>2. \A x \in (o + 1)..o : FALSE
    BY <1>1
  <2>. QED  BY <2>1, <2>2
<1>7. CASE s.subscribed /\ q = o + 1
  <2>1. Append(w.delivered, m) \in Seq(M)
    BY <1>2 DEF StreamType
  <2>2. /\ e \in StreamType(M)
        /\ e.subscribed /\ e.offset = q /\ e.pending = s.pending
        /\ e.delivered = Append(s.delivered, m) /\ e.seen = s.seen \cup {q}
        /\ e.clean => s.clean
    BY <1>1, <1>2, <1>7, <2>1 DEF StreamType
  <2>3. OnMessage(s, m) = FlushBuffer(e)
    <3>1. OnMessage(s, m) = OnSubscribed(w, m)
      BY <1>7 DEF OnMessage
    <3>2. m.seq = w.offset + 1 /\ ~(m.seq > w.offset + 1)
      BY <1>1, <1>2, <1>7
    <3>. HIDE DEF w
    <3>3. OnSubscribed(w, m) = FlushBuffer(e)
      BY <3>2 DEF OnSubscribed
    <3>. QED  BY <3>1, <3>3
  <2>. HIDE DEF e, w
  <2>. DEFINE D == Len(s.delivered)
  <2>4. /\ D \in Nat /\ Len(e.delivered) = D + 1
        /\ \A i \in 1..D : e.delivered[i] = s.delivered[i]
        /\ e.delivered[D + 1] = m
    BY <2>2 DEF StreamType
  <2>5. /\ \A i, j \in 1..D : i < j => s.delivered[i].seq < s.delivered[j].seq
        /\ \A i \in 1..D : s.delivered[i].seq <= o /\ s.delivered[i].seq \in Nat
    BY <1>3, <1>4 DEF InOrder
  <2>. HIDE DEF D, o, q
  <2>6. InOrder(e)
    <3>1. \A i \in 1..D : e.delivered[i].seq < q /\ e.delivered[i].seq <= q
      <4>1. \A x \in Nat : x <= o => x < q /\ x <= q
        BY <1>1, <1>7
      <4>. QED  BY <2>4, <2>5, <4>1
    <3>2. e.delivered[D + 1].seq = q /\ q <= q
      BY <1>1, <2>4 DEF q
    <3>3. ASSUME NEW i \in 1..(D + 1), NEW j \in 1..(D + 1), i < j
          PROVE  e.delivered[i].seq < e.delivered[j].seq
      <4>1. i \in 1..D /\ (j \in 1..D \/ j = D + 1)
        BY <2>4, <3>3
      <4>. QED  BY <2>4, <2>5, <3>1, <3>2, <3>3, <4>1
    <3>4. ASSUME NEW i \in 1..(D + 1)  PROVE e.delivered[i].seq <= q
      <4>1. i \in 1..D \/ i = D + 1
        BY <2>4
      <4>. QED  BY <3>1, <3>2, <4>1
    <3>. QED  BY <2>2, <2>4, <3>3, <3>4 DEF InOrder
  <2>7. Retained(e)
    <3>1. s.seen \subseteq Nat /\ \A x \in Nat : x <= o => x <= q
      BY <1>1, <1>7 DEF StreamType
    <3>2. q <= q
      BY <1>1
    <3>. QED  BY <1>4, <2>2, <3>1, <3>2 DEF Retained, o
  <2>8. BufferAbove(e, e.offset)
    BY <1>4, <1>7, <2>2 DEF BufferAbove, o
  <2>9. ReadyToFlush(e)
    BY <2>2, <2>6, <2>7, <2>8 DEF ReadyToFlush
  <2>10. FlushBuffer(e) \in StreamType(M) /\ StreamInv(FlushBuffer(e))
    BY <2>2, <2>9, FlushKeepsInv
  <2>11. ASSUME NEW x \in (o + 1)..FlushBuffer(e).offset
         PROVE  x \in Numbers(FlushBuffer(e).delivered)
    <3>1. CASE x = q
      <4>1. q \in Numbers(e.delivered)
        <5>1. D + 1 \in 1..Len(e.delivered) /\ e.delivered[D + 1].seq = q
          BY <2>4 DEF q
        <5>. QED  BY <5>1 DEF Numbers
      <4>. QED  BY <2>2, <3>1, <4>1, FlushKeepsDelivered
    <3>2. CASE x # q
      <4>1. FlushBuffer(e).offset \in Nat
        BY <2>10 DEF StreamType
      <4>2. x \in (e.offset + 1)..FlushBuffer(e).offset
        BY <1>1, <1>7, <2>2, <2>11, <3>2, <4>1
      <4>. QED  BY <2>2, <4>2, FlushDelivers
    <3>. QED  BY <3>1, <3>2
  <2>. QED  BY <2>3, <2>10, <2>11 DEF o
<1>8. CASE s.subscribed /\ q > o + 1
  <2>1. OnMessage(s, m) = Buffer(w, m)
    <3>1. q # o + 1
      BY <1>1, <1>8
    <3>. QED  BY <1>2, <1>8, <3>1 DEF OnMessage, OnSubscribed
  <2>2. Buffer(w, m) \in StreamType(M) /\ StreamInv(Buffer(w, m))
    BY <1>8, BufferKeepsInv
  <2>3. Buffer(w, m).offset = o
    BY <1>2, BufferResult DEF Inserted
  <2>4. \A x \in (o + 1)..o : FALSE
    BY <1>1
  <2>. QED  BY <2>1, <2>2, <2>3, <2>4
<1>9. CASE s.subscribed /\ ~(q > o + 1) /\ q # o + 1
  <2>1. OnMessage(s, m) = w
    BY <1>2, <1>9 DEF OnMessage, OnSubscribed
  <2>2. q <= o /\ ~(q > o)
    BY <1>1, <1>9
  <2>. HIDE DEF w
  <2>3. StreamInv(w)
    BY <1>2, <1>4, <1>9, <2>2 DEF StreamInv, InOrder, Retained, Idle, BufferAbove
  <2>4. \A x \in (o + 1)..o : FALSE
    BY <1>1
  <2>. QED  BY <1>2, <2>1, <2>3, <2>4
<1>. QED  BY <1>5, <1>6, <1>7, <1>8, <1>9

(* In an invariant stream that is clean the next expected number was never
   received: nothing deliverable waits. *)
LEMMA InvClosesGap ==
  ASSUME NEW M, NEW s \in StreamType(M), StreamInv(s), s.clean
  PROVE  GapClosed(s)
<1>. SUFFICES ASSUME s.offset + 1 \in s.seen  PROVE FALSE
  BY DEF GapClosed
<1>1. ~(s.offset + 1 <= s.offset) /\ ~(s.offset + 1 > s.offset + 1)
  BY DEF StreamType
<1>2. PICK i \in 1..Len(s.pending) : s.offset + 1 = s.pending[i].seq
  BY <1>1 DEF StreamInv, Retained, Numbers
<1>. QED  BY <1>1, <1>2 DEF StreamInv, BufferAbove

(***************************************************************************)
(* What on_message does with the messages it holds.                        *)
(***************************************************************************)

(* f is s after the expected message m and the first n buffered ones. *)
Taken(s, f, m, n) ==
  /\ n \in 0..Len(s.pending)
  /\ f.offset = s.offset + 1 + n
  /\ Len(f.pending) = Len(s.pending) - n
  /\ \A i \in 1..Len(f.pending) : f.pending[i] = s.pending[n + i]
  /\ Len(f.delivered) = Len(s.delivered) + 1 + n
  /\ \A i \in 1..Len(f.delivered) :
       f.delivered[i] = IF i <= Len(s.delivered) THEN s.delivered[i]
                        ELSE IF i = Len(s.delivered) + 1 THEN m
                        ELSE s.pending[i - (Len(s.delivered) + 1)]

(* g is h with m put in at place k. *)
InsertedAt(h, g, m, k) ==
  /\ Len(g) = Len(h) + 1
  /\ k \in 1..Len(g)
  /\ \A i \in 1..Len(g) :
       g[i] = IF i < k THEN h[i] ELSE IF i = k THEN m ELSE h[i - 1]

(* What the callbacks get when the stream s becomes f. *)
Passed(s, f) == SubSeq(f.delivered, Len(s.delivered) + 1, Len(f.delivered))

(* The elements of a concatenation, by place. *)
LEMMA Concatenated ==
  ASSUME NEW M, NEW a \in Seq(M), NEW b \in Seq(M)
  PROVE  /\ a \o b \in Seq(M)
         /\ Len(a) \in Nat /\ Len(b) \in Nat /\ Len(a \o b) = Len(a) + Len(b)
         /\ \A i \in 1..(Len(a) + Len(b)) :
               (a \o b)[i] = IF i <= Len(a) THEN a[i] ELSE b[i - Len(a)]
OBVIOUS

(* The elements of a suffix, by place. *)
LEMMA Suffixed ==
  ASSUME NEW M, NEW a \in Seq(M), NEW k \in Nat, k <= Len(a)
  PROVE  /\ SubSeq(a, k + 1, Len(a)) \in Seq(M)
         /\ Len(a) \in Nat /\ Len(SubSeq(a, k + 1, Len(a))) = Len(a) - k
         /\ \A i \in 1..(Len(a) - k) : SubSeq(a, k + 1, Len(a))[i] = a[k + i]
         /\ \A i \in 1..Len(a) : a[i] \in M
OBVIOUS

(* The three ways on_message goes. *)
LEMMA OnMessageCases ==
  ASSUME NEW M, Numbered(M), NEW s \in StreamType(M), NEW m \in M
  PROVE  LET f == OnMessage(s, m) IN
         /\ f.subscribed = s.subscribed
         /\ \/ /\ ~(s.subscribed /\ m.seq > s.offset)
               /\ f.delivered = s.delivered /\ f.pending = s.pending
            \/ /\ s.subscribed /\ m.seq = s.offset + 1
               /\ \E n \in 0..Len(s.pending) : Taken(s, f, m, n)
            \/ /\ s.subscribed /\ m.seq > s.offset + 1
               /\ f.delivered = s.delivered
               /\ \E k \in 0..Len(s.pending) : InsertedAt(s.pending, f.pending, m, k + 1)
<1>. DEFINE o == s.offset
            q == m.seq
            w == Observed(s, m)
            e == [w EXCEPT !.offset = q, !.delivered = Append(w.delivered, m)]
            f == OnMessage(s, m)
            D == Len(s.delivered)
            P == Len(s.pending)
<1>1. o \in Nat /\ q \in Nat /\ D \in Nat /\ P \in Nat
  BY DEF StreamType, Numbered
<1>2. /\ w \in StreamType(M)
      /\ w.subscribed = s.subscribed /\ w.offset = o /\ w.pending = s.pending
      /\ w.delivered = s.delivered
  BY <1>1 DEF Observed, StreamType
<1>3. CASE ~s.subscribed
  BY <1>3 DEF OnMessage, OnUnsubscribed, StreamType
<1>4. CASE s.subscribed /\ q = o + 1
  <2>1. Append(w.delivered, m) \in Seq(M)
    BY <1>2 DEF StreamType
  <2>2. /\ e \in StreamType(M)
        /\ e.offset = o + 1 /\ e.pending = s.pending /\ e.subscribed = s.subscribed
        /\ e.delivered = Append(s.delivered, m)
    BY <1>1, <1>2, <1>4, <2>1 DEF StreamType
  <2>3. f = FlushBuffer(e)
    <3>1. f = OnSubscribed(w, m)
      BY <1>4 DEF OnMessage
    <3>2. m.seq = w.offset + 1 /\ ~(m.seq > w.offset + 1)
      BY <1>1, <1>2, <1>4
    <3>. HIDE DEF w, f
    <3>3. OnSubscribed(w, m) = FlushBuffer(e)
      BY <3>2 DEF OnSubscribed
    <3>. QED  BY <3>1, <3>3
  <2>. HIDE DEF e, w, f
  <2>4. PICK n : Moved(M, e, f, n)
    BY <2>2, <2>3, FlushResult
  <2>5. /\ Len(e.delivered) = D + 1
        /\ \A i \in 1..D : e.delivered[i] = s.delivered[i]
        /\ e.delivered[D + 1] = m
    BY <2>2 DEF StreamType
  <2>6. /\ n \in Nat /\ n <= P /\ f.offset = o + 1 + n /\ Len(f.pending) = P - n
        /\ \A i \in 1..Len(f.pending) : f.pending[i] = s.pending[n + i]
        /\ Len(f.delivered) = D + 1 + n
    BY <1>1, <2>2, <2>4, <2>5 DEF Moved
  <2>7. ASSUME NEW i \in 1..(D + 1 + n)
        PROVE  f.delivered[i] = IF i <= D THEN s.delivered[i]
                                ELSE IF i = D + 1 THEN m
                                ELSE s.pending[i - (D + 1)]
    <3>1. f.delivered[i] = IF i <= D + 1 THEN e.delivered[i] ELSE s.pending[i - (D + 1)]
      BY <2>2, <2>4, <2>5, <2>6 DEF Moved
    <3>. HIDE DEF D
    <3>2. CASE i <= D
      BY <1>1, <2>5, <3>1, <3>2
    <3>3. CASE i = D + 1
      BY <1>1, <2>5, <3>1, <3>3
    <3>4. CASE ~(i <= D) /\ i # D + 1
      BY <1>1, <3>1, <3>4
    <3>. QED  BY <3>2, <3>3, <3>4
  <2>8. Taken(s, f, m, n)
    BY <1>1, <2>6, <2>7 DEF Taken
  <2>9. n \in 0..P
    BY <1>1, <2>6
  <2>10. f.subscribed = s.subscribed
    BY <2>2, <2>4 DEF Moved
  <2>. QED  BY <1>4, <2>8, <2>9, <2>10 DEF f
<1>5. CASE s.subscribed /\ q > o + 1
  <2>1. f = Buffer(w, m)
    <3>1. q # o + 1
      BY <1>1, <1>5
    <3>. QED  BY <1>2, <1>5, <3>1 DEF OnMessage, OnSubscribed
  <2>. HIDE DEF w, f
  <2>2. PICK k : Inserted(M, w, f, m, k)
    BY <1>2, <2>1, BufferResult
  <2>3. /\ k \in 0..P /\ f.delivered = s.delivered /\ Len(f.pending) = P + 1
        /\ f.subscribed = s.subscribed
        /\ \A i \in 1..(P + 1) :
             f.pending[i] = IF i <= k THEN s.pending[i]
                            ELSE IF i = k + 1 THEN m ELSE s.pending[i - 1]
    BY <1>2, <2>2 DEF Inserted
  <2>4. \A i \in 1..(P + 1) : i <= k <=> i < k + 1
    BY <1>1, <2>3
  <2>5. InsertedAt(s.pending, f.pending, m, k + 1)
    BY <1>1, <2>3, <2>4 DEF InsertedAt
  <2>. QED  BY <1>5, <2>3, <2>5 DEF f
<1>6. CASE s.subscribed /\ ~(q > o + 1) /\ q # o + 1
  <2>1. ~(q > o)
    BY <1>1, <1>6
  <2>2. OnMessage(s, m) = w
    BY <1>2, <1>6 DEF OnMessage, OnSubscribed
  <2>. HIDE DEF w
  <2>. QED  BY <1>2, <2>1, <2>2
<1>. QED  BY <1>3, <1>4, <1>5, <1>6

(* The next expected message, when nothing is buffered. *)
LEMMA OnMessageNext ==
  ASSUME NEW M, Numbered(M), NEW s \in StreamType(M), NEW m \in M,
         s.subscribed, m.seq = s.offset + 1, s.pending = <<>>
  PROVE  LET f == OnMessage(s, m)
         IN /\ f.subscribed /\ f.offset = s.offset + 1 /\ Len(f.pending) = 0
            /\ Len(f.delivered) = Len(s.delivered) + 1
            /\ \A i \in 1..Len(s.delivered) : f.delivered[i] = s.delivered[i]
            /\ f.delivered[Len(s.delivered) + 1] = m
<1>. DEFINE f == OnMessage(s, m)
            o == s.offset
            D == Len(s.delivered)
<1>1. o \in Nat /\ D \in Nat /\ Len(s.pending) = 0
  BY DEF StreamType
<1>2. o + 1 > o /\ ~(o + 1 > o + 1)
  BY <1>1
<1>3. f.subscribed /\ \E n \in 0..Len(s.pending) : Taken(s, f, m, n)
  <2>. HIDE DEF f
  <2>. QED  BY <1>2, OnMessageCases DEF f
<1>. HIDE DEF f
<1>4. PICK n \in 0..0 : Taken(s, f, m, n)
  BY <1>1, <1>3
<1>5. /\ f.offset = o + 1 + n /\ Len(f.pending) = 0 - n /\ Len(f.delivered) = D + 1 + n
      /\ \A i \in 1..Len(f.delivered) :
            f.delivered[i] = IF i <= D THEN s.delivered[i] ELSE IF i = D + 1 THEN m
                             ELSE s.pending[i - (D + 1)]
  BY <1>1, <1>4 DEF Taken
<1>. HIDE DEF o, D
<1>6. n = 0
  OBVIOUS
<1>7. f.offset = o + 1 /\ Len(f.pending) = 0 /\ Len(f.delivered) = D + 1
  BY <1>1, <1>5, <1>6
<1>8. \A i \in 1..D : i \in 1..(D + 1) /\ i <= D
  BY <1>1
<1>9. D + 1 \in 1..(D + 1) /\ ~(D + 1 <= D)
  BY <1>1
<1>. QED  BY <1>3, <1>5, <1>7, <1>8, <1>9 DEF f, o, D

(* What was passed to the callbacks before and what waits, r and s.pending, one
   after the other: on_message leaves it as it is, or puts the message in at one
   place, if there is a subscription. *)
LEMMA OnMessageHolds ==
  ASSUME NEW M, Numbered(M), NEW s \in StreamType(M), NEW m \in M,
         OnMessage(s, m) \in StreamType(M), NEW r \in Seq(M)
  PROVE  LET f == OnMessage(s, m)
             g == (r \o Passed(s, f)) \o f.pending
         IN /\ Passed(s, f) \in Seq(M)
            /\ \/ g = r \o s.pending
               \/ s.subscribed /\ \E k : InsertedAt(r \o s.pending, g, m, k)
<1>. DEFINE f == OnMessage(s, m)
            D == Len(s.delivered)
            E == Len(f.delivered)
            P == Len(s.pending)
            Q == Len(f.pending)
            R == Len(r)
            x == Passed(s, f)
            h == r \o s.pending
            g == (r \o x) \o f.pending
<1>1. /\ s.delivered \in Seq(M) /\ s.pending \in Seq(M)
      /\ f.delivered \in Seq(M) /\ f.pending \in Seq(M)
  BY DEF StreamType
<1>2. D \in Nat /\ E \in Nat /\ P \in Nat /\ Q \in Nat /\ R \in Nat
  BY <1>1
<1>. HIDE DEF f
<1>3. h \in Seq(M) /\ Len(h) = R + P
      /\ \A i \in 1..(R + P) : h[i] = IF i <= R THEN r[i] ELSE s.pending[i - R]
  BY <1>1
<1>. HIDE DEF h
<1>4. CASE f.delivered = s.delivered
  <2>1. x = <<>>
    BY <1>1, <1>2, <1>4 DEF Passed
  <2>2. x \in Seq(M)
    <3>1. <<>> \in Seq(M)
      OBVIOUS
    <3>. QED  BY <2>1, <3>1
  <2>3. r \o x = r
    <3>1. r \o <<>> = r
      OBVIOUS
    <3>. QED  BY <2>1, <3>1
  <2>4. g = r \o f.pending
    BY <2>3
  <2>5. CASE f.pending = s.pending
    BY <2>2, <2>4, <2>5 DEF f, h
  <2>6. ASSUME NEW k \in 0..P, InsertedAt(s.pending, f.pending, m, k + 1)
        PROVE  InsertedAt(h, g, m, R + k + 1)
    <3>1. /\ Q = P + 1
          /\ \A i \in 1..(P + 1) :
                f.pending[i] = IF i < k + 1 THEN s.pending[i]
                               ELSE IF i = k + 1 THEN m ELSE s.pending[i - 1]
      BY <2>6 DEF InsertedAt
    <3>2. Len(g) = R + P + 1
          /\ \A i \in 1..(R + P + 1) : g[i] = IF i <= R THEN r[i] ELSE f.pending[i - R]
      <4>1. Len(g) = R + Q /\ \A i \in 1..(R + Q) :
                                g[i] = IF i <= R THEN r[i] ELSE f.pending[i - R]
        <5>. HIDE DEF x, g
        <5>. QED  BY <1>1, <2>4, Concatenated
      <4>2. R + Q = R + P + 1
        BY <1>2, <3>1
      <4>. QED  BY <4>1, <4>2
    <3>. HIDE DEF g, P, Q, R
    <3>3. ASSUME NEW i \in 1..(R + P + 1)
          PROVE  g[i] = IF i < R + k + 1 THEN h[i]
                        ELSE IF i = R + k + 1 THEN m ELSE h[i - 1]
      <4>1. CASE i <= R
        BY <1>2, <1>3, <2>6, <3>2, <4>1
      <4>2. CASE i > R
        <5>. DEFINE j == i - R
        <5>1. j \in 1..(P + 1) /\ i = R + j /\ ~(i <= R)
          BY <1>2, <4>2
        <5>2. g[i] = f.pending[j]
          BY <3>2, <5>1
        <5>. HIDE DEF j
        <5>3. CASE j < k + 1
          <6>1. i < R + k + 1 /\ i \in 1..(R + P) /\ i - R = j
            BY <1>2, <2>6, <5>1, <5>3
          <6>. QED  BY <1>3, <3>1, <5>1, <5>2, <5>3, <6>1
        <5>4. CASE j = k + 1
          <6>1. i = R + k + 1 /\ ~(i < R + k + 1) /\ ~(j < k + 1)
            BY <1>2, <2>6, <5>1, <5>4
          <6>. QED  BY <3>1, <5>1, <5>2, <5>4, <6>1
        <5>5. CASE ~(j < k + 1) /\ j # k + 1
          <6>1. /\ ~(i < R + k + 1) /\ i # R + k + 1
                /\ i - 1 \in 1..(R + P) /\ ~(i - 1 <= R) /\ (i - 1) - R = j - 1
            BY <1>2, <2>6, <5>1, <5>5
          <6>. QED  BY <1>3, <3>1, <5>1, <5>2, <5>5, <6>1
        <5>. QED  BY <5>3, <5>4, <5>5
      <4>. QED  BY <1>2, <4>1, <4>2
    <3>4. R + k + 1 \in 1..(R + P + 1)
      BY <1>2, <2>6
    <3>. QED  BY <1>3, <3>2, <3>3, <3>4 DEF InsertedAt
  <2>7. ASSUME s.subscribed, \E k \in 0..P : InsertedAt(s.pending, f.pending, m, k + 1)
        PROVE  s.subscribed /\ \E k : InsertedAt(h, g, m, k)
    BY <2>6, <2>7
  <2>8. \/ f.delivered = s.delivered /\ f.pending = s.pending
        \/ s.subscribed /\ \E n \in 0..P : Taken(s, f, m, n)
        \/ s.subscribed /\ \E k \in 0..P : InsertedAt(s.pending, f.pending, m, k + 1)
    BY OnMessageCases DEF f
  <2>9. ~\E n \in 0..P : Taken(s, f, m, n)
    BY <1>2, <1>4 DEF Taken
  <2>. QED  BY <2>2, <2>5, <2>7, <2>8, <2>9 DEF f, h
<1>5. CASE f.delivered # s.delivered
  <2>1. PICK n \in 0..P : Taken(s, f, m, n)
    BY <1>5, OnMessageCases DEF f
  <2>2. s.subscribed
    BY <1>5, OnMessageCases DEF f
  <2>3. /\ Q = P - n /\ E = D + 1 + n /\ n \in Nat /\ n <= P
        /\ \A i \in 1..Q : f.pending[i] = s.pending[n + i]
        /\ \A i \in 1..E : f.delivered[i] = IF i <= D THEN s.delivered[i]
                                            ELSE IF i = D + 1 THEN m
                                            ELSE s.pending[i - (D + 1)]
    BY <1>2, <2>1 DEF Taken
  <2>4. x \in Seq(M) /\ Len(x) = n + 1 /\ \A i \in 1..(n + 1) : x[i] = f.delivered[D + i]
    BY <1>1, <1>2, <2>3 DEF Passed
  <2>. HIDE DEF x, D, E
  <2>. DEFINE y == r \o x
  <2>10. /\ y \in Seq(M) /\ Len(y) = R + (n + 1)
         /\ \A i \in 1..(R + (n + 1)) : y[i] = IF i <= R THEN r[i] ELSE x[i - R]
    <3>. HIDE DEF R
    <3>1. y \in Seq(M) /\ Len(r) \in Nat /\ Len(y) = Len(r) + Len(x)
          /\ \A i \in 1..(Len(r) + Len(x)) : y[i] = IF i <= Len(r) THEN r[i] ELSE x[i - Len(r)]
      BY <2>4, Concatenated, Zenon
    <3>. QED  BY <2>4, <3>1 DEF R
  <2>. HIDE DEF y
  <2>11. /\ Len(g) = Len(y) + Q
         /\ \A i \in 1..(Len(y) + Q) :
               g[i] = IF i <= Len(y) THEN y[i] ELSE f.pending[i - Len(y)]
    <3>1. g = y \o f.pending
      BY DEF y
    <3>. HIDE DEF g
    <3>2. /\ Len(y \o f.pending) = Len(y) + Len(f.pending)
          /\ \A i \in 1..(Len(y) + Len(f.pending)) :
                (y \o f.pending)[i] = IF i <= Len(y) THEN y[i] ELSE f.pending[i - Len(y)]
      BY <1>1, <2>10, Concatenated, Zenon
    <3>. QED  BY <3>1, <3>2
  <2>. HIDE DEF g, P, Q, R
  <2>12. Len(y) + Q = R + P + 1
    BY <1>2, <2>3, <2>10
  <2>5. Len(g) = R + P + 1
    BY <2>11, <2>12
  <2>6. ASSUME NEW i \in 1..(R + P + 1)
        PROVE  g[i] = IF i <= R THEN r[i]
                      ELSE IF i <= R + (n + 1) THEN x[i - R]
                      ELSE f.pending[i - (R + (n + 1))]
    <3>1. g[i] = IF i <= R + (n + 1) THEN y[i] ELSE f.pending[i - (R + (n + 1))]
      BY <2>10, <2>11, <2>12
    <3>2. CASE i <= R + (n + 1)
      <4>1. i \in 1..(R + (n + 1))
        BY <1>2, <2>3, <3>2
      <4>. QED  BY <2>10, <3>1, <3>2, <4>1
    <3>3. CASE ~(i <= R + (n + 1))
      <4>1. ~(i <= R)
        BY <1>2, <2>3, <3>3
      <4>. QED  BY <3>1, <3>3, <4>1
    <3>. QED  BY <3>2, <3>3
  <2>7. ASSUME NEW i \in 1..(R + P + 1)
        PROVE  g[i] = IF i < R + 1 THEN h[i] ELSE IF i = R + 1 THEN m ELSE h[i - 1]
    <3>1. CASE i <= R
      <4>1. i \in 1..R /\ i < R + 1 /\ i \in 1..(R + P)
        BY <1>2, <3>1
      <4>. QED  BY <1>3, <2>6, <3>1, <4>1
    <3>2. CASE i = R + 1
      <4>1. /\ ~(i <= R) /\ i <= R + (n + 1) /\ i - R = 1 /\ 1 \in 1..(n + 1)
            /\ D + 1 \in 1..E /\ ~(D + 1 <= D) /\ ~(i < R + 1)
        BY <1>2, <2>3, <3>2
      <4>2. x[1] = m
        BY <2>3, <2>4, <4>1
      <4>. QED  BY <2>6, <3>2, <4>1, <4>2
    <3>3. CASE i > R + 1
      <4>. DEFINE j == i - (R + 1)
      <4>1. /\ j \in 1..P /\ ~(i <= R) /\ ~(i < R + 1) /\ i # R + 1
            /\ i - 1 \in 1..(R + P) /\ ~(i - 1 <= R) /\ (i - 1) - R = j
        BY <1>2, <3>3
      <4>2. h[i - 1] = s.pending[j]
        BY <1>3, <4>1
      <4>3. CASE i <= R + (n + 1)
        <5>1. /\ i - R \in 1..(n + 1) /\ D + (i - R) \in 1..E
              /\ ~(D + (i - R) <= D) /\ D + (i - R) # D + 1
              /\ (D + (i - R)) - (D + 1) = j
          BY <1>2, <2>3, <3>3, <4>3
        <5>2. x[i - R] = f.delivered[D + (i - R)]
          BY <2>4, <5>1
        <5>3. f.delivered[D + (i - R)] = s.pending[j]
          BY <2>3, <5>1
        <5>. QED  BY <2>6, <4>1, <4>2, <4>3, <5>2, <5>3
      <4>4. CASE ~(i <= R + (n + 1))
        <5>1. /\ i - (R + (n + 1)) \in 1..Q
              /\ n + (i - (R + (n + 1))) = j
          <6>1. Q = P - n /\ n \in Nat /\ R \in Nat /\ P \in Nat
            BY <1>2, <2>3
          <6>. QED  BY ONLY i \in 1..(R + P + 1), <3>3, <4>4, <6>1 DEF j
        <5>2. f.pending[i - (R + (n + 1))] = s.pending[j]
          BY <2>3, <5>1
        <5>. QED  BY <2>6, <4>1, <4>2, <4>4, <5>2
      <4>. QED  BY <4>3, <4>4
    <3>. QED  BY <1>2, <3>1, <3>2, <3>3
  <2>8. R + 1 \in 1..(R + P + 1)
    BY <1>2
  <2>9. InsertedAt(h, g, m, R + 1)
    BY <1>3, <2>5, <2>7, <2>8 DEF InsertedAt
  <2>. QED  BY <2>2, <2>4, <2>9 DEF f, g, h, x
<1>. QED  BY <1>4, <1>5
=============================================================================
