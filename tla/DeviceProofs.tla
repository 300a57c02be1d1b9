---------------------------- MODULE DeviceProofs ----------------------------
(* The log of a device, its reader and its entry in the registry, for any     *)
(* objects of the device, any lifetimes and any schedule of cleanups, reboots *)
(* and deaths of the process.                                                 *)
EXTENDS Device, FiniteSetTheorems, SequenceTheorems, WellFoundedInduction, TLAPS

(* Finitely many rows, told apart by their seq: what a table with that primary
   key can hold. *)
Table(rows) ==
  /\ IsFiniteSet(rows)
  /\ \A row \in rows : row.seq \in Nat
  /\ \A row, other \in rows : row.seq = other.seq => row = other

(* The log's key is never reused, and the reader is not ahead of it. *)
Ordered ==
  /\ Table(log)
  /\ \A row \in log : row.seq <= lastSeq
  /\ mark <= lastSeq
  /\ \A i \in DOMAIN read : read[i] <= mark

(* No message is in the log twice. *)
Distinct(rows) == \A row, other \in rows : row.msg = other.msg => row = other

IInv ==
  TypeOK /\ RegisteredIsConnected /\ Ordered /\ Distinct(log) /\ ReaderMissesNothing

------------------------------------------------------------------------------
(* ORDER BY seq is well defined: it enumerates the rows of a table, each once,
   by rising seq. *)
LEMMA InOrderEnumerates ==
  ASSUME NEW rows, Table(rows)
  PROVE  LET s == InOrder(rows) IN
         /\ Cardinality(rows) \in Nat
         /\ DOMAIN s = 1..Cardinality(rows)
         /\ \A i \in 1..Cardinality(rows) : s[i] \in rows
         /\ \A i, j \in 1..Cardinality(rows) : i < j => s[i].seq < s[j].seq
         /\ \A row \in rows : \E i \in 1..Cardinality(rows) : s[i] = row
<1>. DEFINE n == Cardinality(rows)
            rank(row) == Cardinality(Before(rows, row))
            place == [row \in rows |-> rank(row) + 1]
<1>1. IsFiniteSet(rows) /\ n \in Nat
  BY FS_CardinalityType DEF Table
<1>2. ASSUME NEW row \in rows
      PROVE  IsFiniteSet(Before(rows, row)) /\ rank(row) \in Nat /\ rank(row) < n
  <2>1. Before(rows, row) \in SUBSET rows /\ row \notin Before(rows, row)
    BY DEF Before, Table
  <2>2. /\ IsFiniteSet(Before(rows, row)) /\ rank(row) <= n
        /\ n = rank(row) => rows = Before(rows, row)
    BY <1>1, <2>1, FS_Subset
  <2>3. rank(row) \in Nat
    BY <2>2, FS_CardinalityType
  <2>. QED  BY <1>1, <2>1, <2>2, <2>3
<1>3. ASSUME NEW row \in rows, NEW other \in rows, row.seq < other.seq
      PROVE  rank(row) < rank(other)
  <2>1. /\ Before(rows, row) \in SUBSET Before(rows, other)
        /\ row \in Before(rows, other) /\ row \notin Before(rows, row)
    <3>1. row.seq \in Nat /\ other.seq \in Nat /\ \A r \in rows : r.seq \in Nat
      BY DEF Table
    <3>. QED  BY <1>3, <3>1 DEF Before
  <2>2. rank(row) <= rank(other) /\ rank(row) # rank(other)
    BY <1>2, <2>1, FS_Subset
  <2>. QED  BY <1>2, <2>2
<1>4. place \in Injection(rows, 1..n)
  <2>1. place \in [rows -> 1..n]
    BY <1>1, <1>2
  <2>2. ASSUME NEW row \in rows, NEW other \in rows, row # other
        PROVE  rank(row) # rank(other)
    <3>1. row.seq \in Nat /\ other.seq \in Nat /\ row.seq # other.seq
      BY <2>2 DEF Table
    <3>2. row.seq < other.seq \/ other.seq < row.seq
      BY <3>1
    <3>. QED  BY <1>2, <1>3, <3>2
  <2>3. ASSUME NEW row \in rows, NEW other \in rows, place[row] = place[other]
        PROVE  row = other
    BY <1>2, <2>2, <2>3
  <2>. QED  BY <2>1, <2>3 DEF Injection, IsInjective
<1>5. place \in Surjection(rows, 1..n)
  <2>1. IsFiniteSet(1..n) /\ Cardinality(1..n) = n
    BY <1>1, FS_Interval
  <2>. QED  BY <1>4, <2>1, FS_Injection
<1>6. ASSUME NEW i \in 1..n
      PROVE  InOrder(rows)[i] \in rows /\ rank(InOrder(rows)[i]) = i - 1
  <2>1. PICK row \in rows : place[row] = i
    BY <1>5 DEF Surjection
  <2>2. rank(row) = i - 1
    BY <1>2, <2>1
  <2>3. InOrder(rows)[i] = CHOOSE r \in rows : rank(r) = i - 1
    BY DEF InOrder
  <2>. HIDE DEF rank
  <2>. QED  BY <2>2, <2>3
<1>7. ASSUME NEW i \in 1..n, NEW j \in 1..n, i < j
      PROVE  InOrder(rows)[i].seq < InOrder(rows)[j].seq
  <2>1. /\ InOrder(rows)[i] \in rows /\ InOrder(rows)[j] \in rows
        /\ rank(InOrder(rows)[i]) = i - 1 /\ rank(InOrder(rows)[j]) = j - 1
    BY <1>6
  <2>2. /\ InOrder(rows)[i].seq \in Nat /\ InOrder(rows)[j].seq \in Nat
        /\ InOrder(rows)[i] # InOrder(rows)[j]
    BY <1>7, <2>1 DEF Table
  <2>3. ~(InOrder(rows)[j].seq < InOrder(rows)[i].seq)
    BY <1>3, <1>7, <2>1
  <2>4. InOrder(rows)[i].seq # InOrder(rows)[j].seq
    BY <2>1, <2>2 DEF Table
  <2>. QED  BY <2>2, <2>3, <2>4
<1>8. ASSUME NEW row \in rows  PROVE \E i \in 1..n : InOrder(rows)[i] = row
  <2>1. place[row] \in 1..n
    BY <1>1, <1>2
  <2>2. /\ InOrder(rows)[place[row]] \in rows
        /\ rank(InOrder(rows)[place[row]]) = rank(row)
    BY <1>2, <1>6, <2>1
  <2>3. place[InOrder(rows)[place[row]]] = place[row]
    BY <2>2
  <2>4. InOrder(rows)[place[row]] = row
    BY <1>4, <2>2, <2>3 DEF Injection, IsInjective
  <2>. QED  BY <2>1, <2>4
<1>9. DOMAIN InOrder(rows) = 1..n
  BY DEF InOrder
<1>. QED  BY <1>1, <1>6, <1>7, <1>8, <1>9

(* A table stays one when rows go, or when one comes with a seq of its own. *)
LEMMA SomeRows ==
  ASSUME NEW rows, Table(rows), NEW some \in SUBSET rows
  PROVE  Table(some)
BY FS_Subset DEF Table

(* A row numbered above all others extends a table. *)
LEMMA OneMoreRow ==
  ASSUME NEW rows, Table(rows), NEW row, row.seq \in Nat,
         \A other \in rows : other.seq < row.seq
  PROVE  Table(rows \cup {row})
<1>1. IsFiniteSet(rows \cup {row})
  BY FS_AddElement DEF Table
<1>2. \A other \in rows : other.seq \in Nat /\ other.seq < row.seq
  BY DEF Table
<1>. QED  BY <1>1, <1>2 DEF Table

(* get_all returns at most Limit messages of the log, and none twice if the log
   has none twice. *)
LEMMA GetAllReturns ==
  ASSUME NEW S, Table(log), \A row \in log : row.msg \in S
  PROVE  /\ GetAll \in Seq(S) /\ Len(GetAll) <= Limit
         /\ Distinct(log) => \A i, j \in DOMAIN GetAll : GetAll[i] = GetAll[j] => i = j
<1>. DEFINE n == Cardinality(log)
            k == IF n < Limit THEN n ELSE Limit
            first == SubSeq(InOrder(log), 1, k)
<1>1. /\ n \in Nat /\ DOMAIN InOrder(log) = 1..n
      /\ \A i \in 1..n : InOrder(log)[i] \in log
  BY InOrderEnumerates
<1>2. InOrder(log) \in Seq(log) /\ Len(InOrder(log)) = n
  <2>1. InOrder(log) \in [1..n -> log]
    BY <1>1 DEF InOrder
  <2>. HIDE DEF n
  <2>. QED  BY <1>1, <2>1
<1>3. k \in Nat /\ k <= n /\ k <= Limit
  <2>. HIDE DEF n
  <2>. QED  BY <1>1, LimitAssumption
<1>. HIDE DEF n, k
<1>4. first \in Seq(log) /\ Len(first) = k
  BY <1>1, <1>2, <1>3
<1>. HIDE DEF first
<1>5. GetAll = [i \in 1..k |-> first[i].msg]
  <2>1. GetAll = Messages(first)
    BY DEF GetAll, first, k, n
  <2>. QED  BY <1>3, <1>4, <2>1 DEF Messages
<1>6. \A i \in 1..k : first[i] \in log
  BY <1>3, <1>4
<1>7. ASSUME Distinct(log), NEW i \in DOMAIN GetAll, NEW j \in DOMAIN GetAll,
             GetAll[i] = GetAll[j]
      PROVE  i = j
  <2>1. i \in 1..k /\ j \in 1..k
    BY <1>5
  <2>2. first[i].msg = first[j].msg
    BY <1>5, <1>7, <2>1
  <2>3. first[i] = first[j]
    BY <1>6, <1>7, <2>1, <2>2 DEF Distinct
  <2>4. /\ first[i] = InOrder(log)[i] /\ first[j] = InOrder(log)[j]
        /\ i \in 1..n /\ j \in 1..n
    BY <1>1, <1>2, <1>3, <2>1 DEF first
  <2>5. ASSUME NEW x \in 1..n, NEW y \in 1..n, x < y
        PROVE  InOrder(log)[x] # InOrder(log)[y]
    <3>1. /\ InOrder(log)[x].seq < InOrder(log)[y].seq
          /\ InOrder(log)[x].seq \in Nat
      BY <1>1, <2>5, InOrderEnumerates DEF Table, n
    <3>. QED  BY <3>1
  <2>6. ~(i < j) /\ ~(j < i)
    BY <2>3, <2>4, <2>5
  <2>. QED  BY <1>3, <2>1, <2>6
<1>8. GetAll \in Seq(S) /\ Len(GetAll) <= Limit
  BY <1>3, <1>5, <1>6
<1>. QED  BY <1>7, <1>8

(* get_since returns the rows after a seq, by rising seq, none left out. *)
LEMMA GetSinceReturns ==
  ASSUME Table(log), NEW seq \in Nat
  PROVE  LET s == GetSince(seq) IN
         /\ s \in Seq(log) /\ DOMAIN s = 1..Len(s)
         /\ \A i \in 1..Len(s) : s[i].seq > seq
         /\ \A i, j \in 1..Len(s) : i < j => s[i].seq < s[j].seq
         /\ \A row \in log : row.seq > seq => \E i \in 1..Len(s) : s[i] = row
<1>. DEFINE rows == {row \in log : row.seq > seq}
            n == Cardinality(rows)
            s == InOrder(rows)
<1>1. Table(rows)
  BY SomeRows
<1>2. /\ n \in Nat /\ DOMAIN s = 1..n
      /\ \A i \in 1..n : s[i] \in rows
      /\ \A i, j \in 1..n : i < j => s[i].seq < s[j].seq
      /\ \A row \in rows : \E i \in 1..n : s[i] = row
  <2>. HIDE DEF rows
  <2>. QED  BY <1>1, InOrderEnumerates
<1>3. s \in [1..n -> log]
  <2>1. s = [i \in 1..n |-> s[i]]
    BY <1>2 DEF InOrder
  <2>2. \A i \in 1..n : s[i] \in log
    BY <1>2
  <2>. HIDE DEF s, n
  <2>. QED  BY <2>1, <2>2
<1>4. GetSince(seq) = s
  BY DEF GetSince
<1>5. s \in Seq(log) /\ Len(s) = n
  <2>. HIDE DEF s, n
  <2>. QED  BY <1>2, <1>3
<1>6. /\ \A i \in 1..n : s[i].seq > seq
      /\ \A row \in log : row.seq > seq => \E i \in 1..n : s[i] = row
  BY <1>2
<1>. HIDE DEF s, n
<1>. QED  BY <1>2, <1>4, <1>5, <1>6

------------------------------------------------------------------------------
(* The device starts with an empty log and no reader. *)
LEMMA InitInv == Init => IInv
<1>1. SUFFICES ASSUME Init PROVE IInv
  OBVIOUS
<1>2. TypeOK
  BY <1>1, LimitAssumption, BoundsAssumption DEF Init, TypeOK
<1>3. Ordered /\ Distinct(log)
  BY <1>1, FS_EmptySet DEF Init, Ordered, Distinct, Table
<1>. QED  BY <1>1, <1>2, <1>3
  DEF Init, IInv, RegisteredIsConnected, ReaderMissesNothing, ListByType, ListAll, Range

(* What a step may do to the log: nothing; append one row, with a seq larger
   than any given before; or drop rows. *)
LEMMA LogSteps ==
  ASSUME TypeOK, [Next]_vars
  PROVE  \/ UNCHANGED <<log, lastSeq, mark, read>>
         \/ \E msg \in Message :
              /\ \A row \in log : row.msg # msg
              /\ log' = log \cup {[seq |-> lastSeq + 1, msg |-> msg]}
              /\ lastSeq < MaxRows /\ lastSeq' = lastSeq + 1
              /\ UNCHANGED <<mark, read>>
         \/ log' \in SUBSET log /\ UNCHANGED <<lastSeq, mark, read>>
         \/ /\ UNCHANGED <<log, lastSeq>>
            /\ GetSince(mark) # <<>>
            /\ read' = read \o [i \in DOMAIN GetSince(mark) |-> GetSince(mark)[i].seq]
            /\ mark' = GetSince(mark)[Len(GetSince(mark))].seq
<1>1. CASE \E o \in Object : Cleanup(o)
  BY <1>1 DEF Cleanup, readerVars
<1>2. CASE \E o \in Object : Read(o)
  BY <1>2 DEF Read, logVars
<1>3. CASE \E o \in Object, metric \in Metric : PublishTelemetry(o, metric)
  <2>1. PICK o \in Object, metric \in Metric : PublishTelemetry(o, metric)
    BY <1>3
  <2>2. Telemetry(metric) \in Message
    BY DEF Telemetry, Message, TypeOK
  <2>. QED  BY <2>1, <2>2 DEF PublishTelemetry, Appended, NextSeq, logVars, readerVars
<1>4. CASE \/ \E o \in Object : Create(o) \/ ConnectStart(o) \/ Connected(o) \/ Disconnect(o)
           \/ \E o \in Object : Stopped(o) \/ OnCommand(o) \/ Reboot(o) \/ Sync(o)
           \/ ProcessDies \/ Get \/ Heartbeat \/ Tick \/ UNCHANGED vars
  BY <1>4 DEF Create, ConnectStart, Connected, Disconnect, Stopped, OnCommand, Reboot, Sync,
              ProcessDies, Get, Heartbeat, Tick, vars, logVars, readerVars
<1>. QED  BY <1>1, <1>2, <1>3, <1>4 DEF Next

(* The rows the reader is given, appended to what it has read. *)
LEMMA ReadOn ==
  ASSUME TypeOK, Ordered,
         GetSince(mark) # <<>>,
         read' = read \o [i \in DOMAIN GetSince(mark) |-> GetSince(mark)[i].seq],
         mark' = GetSince(mark)[Len(GetSince(mark))].seq
  PROVE  /\ mark' \in 0..MaxRows /\ mark' <= lastSeq
         /\ read' \in Seq(1..MaxRows)
         /\ \A i \in DOMAIN read' : read'[i] <= mark'
         /\ ReaderMissesNothing /\ UNCHANGED log => ReaderMissesNothing'
<1>. DEFINE s == GetSince(mark)
            n == Len(s)
            seqs == [i \in DOMAIN s |-> s[i].seq]
            m == Len(read)
<1>1. /\ mark \in Nat /\ Table(log) /\ read \in Seq(1..MaxRows) /\ m \in Nat
      /\ DOMAIN read = 1..m /\ \A i \in 1..m : read[i] <= mark /\ read[i] \in 1..MaxRows
      /\ \A row \in log : row.seq \in 1..MaxRows /\ row.seq <= lastSeq
  <2>1. mark \in Nat /\ Table(log) /\ read \in Seq(1..MaxRows)
    BY DEF TypeOK, Ordered
  <2>2. m \in Nat /\ DOMAIN read = 1..m /\ \A i \in 1..m : read[i] \in 1..MaxRows
    BY <2>1, LenProperties, ElementOfSeq
  <2>3. \A i \in DOMAIN read : read[i] <= mark
    BY DEF Ordered
  <2>4. \A row \in log : row.seq \in 1..MaxRows /\ row.seq <= lastSeq
    <3>1. log \subseteq [seq : 1..MaxRows, msg : Message]
      BY DEF TypeOK
    <3>. QED  BY <3>1 DEF Ordered
  <2>. HIDE DEF m
  <2>. QED  BY <2>1, <2>2, <2>3, <2>4
<1>2. /\ s \in Seq(log) /\ DOMAIN s = 1..n
      /\ \A i \in 1..n : s[i].seq > mark
      /\ \A i, j \in 1..n : i < j => s[i].seq < s[j].seq
      /\ \A row \in log : row.seq > mark => \E i \in 1..n : s[i] = row
  BY <1>1, GetSinceReturns
<1>. HIDE DEF s
<1>3. n \in Nat /\ n > 0 /\ \A i \in 1..n : s[i] \in log
  BY <1>2 DEF s
<1>4. /\ seqs \in Seq(1..MaxRows) /\ Len(seqs) = n
      /\ \A i \in 1..n : /\ seqs[i] = s[i].seq /\ seqs[i] \in 1..MaxRows
                         /\ mark < seqs[i] /\ seqs[i] <= lastSeq
  <2>1. \A i \in 1..n : /\ s[i].seq \in 1..MaxRows /\ s[i].seq <= lastSeq /\ mark < s[i].seq
    BY <1>1, <1>2, <1>3
  <2>2. seqs = [i \in 1..n |-> s[i].seq]
    BY <1>2
  <2>. HIDE DEF seqs, n
  <2>. QED  BY <1>3, <2>1, <2>2
<1>5. mark' = seqs[n] /\ read' = read \o seqs
  BY <1>3, <1>4 DEF s
<1>6. \A i \in 1..n : seqs[i] <= seqs[n]
  <2>1. \A i \in 1..n : i < n => s[i].seq < s[n].seq
    BY <1>2, <1>3
  <2>2. \A i \in 1..n : i < n => seqs[i] < seqs[n]
    BY <1>3, <1>4, <2>1
  <2>. HIDE DEF seqs, n
  <2>. QED  BY <1>3, <1>4, <2>2
<1>7. \A i, j \in 1..n : i < j => seqs[i] < seqs[j]
  BY <1>2, <1>4
<1>8. \A row \in log : row.seq > mark => \E i \in 1..n : seqs[i] = row.seq
  BY <1>2, <1>4
<1>. HIDE DEF seqs, n, m
<1>9. /\ read' \in Seq(1..MaxRows) /\ Len(read') = m + n /\ DOMAIN read' = 1..(m + n)
      /\ \A i \in 1..m : read'[i] = read[i]
      /\ \A i \in (m + 1)..(m + n) : i - m \in 1..n /\ read'[i] = seqs[i - m]
  <2>1. /\ read \o seqs \in Seq(1..MaxRows) /\ Len(read \o seqs) = m + n
        /\ \A i \in 1..(m + n) :
             (read \o seqs)[i] = IF i <= m THEN read[i] ELSE seqs[i - m]
    BY <1>1, <1>4, ConcatProperties DEF m
  <2>2. DOMAIN (read \o seqs) = 1..(m + n)
    BY <2>1
  <2>3. \A i \in (m + 1)..(m + n) : i - m \in 1..n /\ ~(i <= m) /\ i \in 1..(m + n)
    BY <1>1, <1>3
  <2>4. \A i \in 1..m : i <= m /\ i \in 1..(m + n)
    BY <1>1, <1>3
  <2>. QED  BY <1>5, <2>1, <2>2, <2>3, <2>4
<1>10. mark' \in 1..MaxRows /\ mark < mark' /\ mark' <= lastSeq
  BY <1>3, <1>4, <1>5
<1>11. ASSUME NEW i \in DOMAIN read'  PROVE read'[i] <= mark'
  <2>1. CASE i \in 1..m
    BY <1>1, <1>9, <1>10, <2>1
  <2>2. CASE i \in (m + 1)..(m + n)
    BY <1>3, <1>5, <1>6, <1>9, <2>2
  <2>. QED  BY <1>1, <1>3, <1>9, <2>1, <2>2
<1>12. ASSUME ReaderMissesNothing, log' = log  PROVE ReaderMissesNothing'
  <2>1. ASSUME NEW i \in DOMAIN read', NEW j \in DOMAIN read', i < j
        PROVE  read'[i] < read'[j]
    <3>1. CASE j \in 1..m
      BY <1>1, <1>9, <1>12, <2>1, <3>1 DEF ReaderMissesNothing
    <3>2. CASE i \in 1..m /\ j \in (m + 1)..(m + n)
      <4>1. read'[i] <= mark /\ read'[i] \in Nat
        BY <1>1, <1>9, <3>2
      <4>2. j - m \in 1..n /\ read'[j] = seqs[j - m]
        BY <1>9, <3>2
      <4>3. mark < read'[j] /\ read'[j] \in Nat
        BY <1>4, <4>2
      <4>. QED  BY <1>1, <4>1, <4>3
    <3>3. CASE i \in (m + 1)..(m + n) /\ j \in (m + 1)..(m + n)
      <4>1. i - m \in 1..n /\ j - m \in 1..n /\ i - m < j - m
        BY <1>1, <1>3, <2>1, <3>3
      <4>. QED  BY <1>7, <1>9, <3>3, <4>1
    <3>. QED  BY <1>1, <1>3, <1>9, <2>1, <3>1, <3>2, <3>3
  <2>2. ASSUME NEW row \in log, row.seq <= mark'
        PROVE  \E i \in DOMAIN read' : read'[i] = row.seq
    <3>1. CASE row.seq <= mark
      <4>1. PICK i \in DOMAIN read : read[i] = row.seq
        BY <1>12, <3>1 DEF ReaderMissesNothing, Range
      <4>. QED  BY <1>1, <1>3, <1>9, <4>1
    <3>2. CASE row.seq > mark
      <4>1. PICK i \in 1..n : seqs[i] = row.seq
        BY <1>8, <3>2
      <4>2. /\ m + i \in (m + 1)..(m + n) /\ (m + i) - m = i
            /\ m + i \in 1..(m + n)
        BY <1>1, <1>3, <4>1
      <4>3. read'[m + i] = seqs[i]
        BY <1>9, <4>2
      <4>. QED  BY <1>9, <4>1, <4>2, <4>3
    <3>3. row.seq \in Nat /\ mark \in Nat
      BY <1>1
    <3>4. row.seq <= mark \/ row.seq > mark
      BY <3>3
    <3>. QED  BY <3>1, <3>2, <3>4
  <2>3. \A row \in log' : row.seq <= mark' => row.seq \in Range(read')
    BY <1>12, <2>2 DEF Range
  <2>. QED  BY <2>1, <2>3 DEF ReaderMissesNothing
<1>13. mark' \in 0..MaxRows
  BY <1>10
<1>. QED  BY <1>9, <1>10, <1>11, <1>12, <1>13

------------------------------------------------------------------------------
(* Each step keeps the types; where the object has come to decides the rest. *)
LEMMA TypeStep ==
  ASSUME IInv, [Next]_vars
  PROVE  TypeOK'
<1>0. TypeOK /\ Ordered
  BY DEF IInv
<1>1. /\ log' \subseteq [seq : 1..MaxRows, msg : Message]
      /\ lastSeq' \in 0..MaxRows /\ mark' \in 0..MaxRows /\ read' \in Seq(1..MaxRows)
  <2>1. CASE UNCHANGED <<log, lastSeq, mark, read>>
    BY <1>0, <2>1 DEF TypeOK
  <2>2. CASE \E msg \in Message :
               /\ \A row \in log : row.msg # msg
               /\ log' = log \cup {[seq |-> lastSeq + 1, msg |-> msg]}
               /\ lastSeq < MaxRows /\ lastSeq' = lastSeq + 1
               /\ UNCHANGED <<mark, read>>
    <3>1. lastSeq + 1 \in 1..MaxRows
      BY <1>0, <2>2, BoundsAssumption DEF TypeOK
    <3>. QED  BY <1>0, <2>2, <3>1 DEF TypeOK
  <2>3. CASE log' \in SUBSET log /\ UNCHANGED <<lastSeq, mark, read>>
    BY <1>0, <2>3 DEF TypeOK
  <2>4. CASE /\ UNCHANGED <<log, lastSeq>>
             /\ GetSince(mark) # <<>>
             /\ read' = read \o [i \in DOMAIN GetSince(mark) |-> GetSince(mark)[i].seq]
             /\ mark' = GetSince(mark)[Len(GetSince(mark))].seq
    BY <1>0, <2>4, ReadOn DEF TypeOK
  <2>. QED  BY <1>0, <2>1, <2>2, <2>3, <2>4, LogSteps
<1>2. /\ mode' \in [Object -> {"none", "new", "starting", "on", "stopping", "off"}]
      /\ rebooting' \subseteq {o \in Object : mode'[o] # "none"}
      /\ open' \in [Object -> BOOLEAN]
      /\ \A o \in Object : mode'[o] = "new" => open'[o]
  <2>. USE <1>0 DEF TypeOK
  <2>1. CASE \E o \in Object : Create(o)
    BY <2>1 DEF Create, OpenLog
  <2>2. CASE \E o \in Object : ConnectStart(o)
    BY <2>2 DEF ConnectStart
  <2>3. CASE \E o \in Object : Connected(o)
    BY <2>3 DEF Connected
  <2>4. CASE \E o \in Object : Disconnect(o)
    BY <2>4 DEF Disconnect
  <2>5. CASE \E o \in Object : Stopped(o)
    BY <2>5 DEF Stopped, CloseLog
  <2>6. CASE \E o \in Object : OnCommand(o)
    BY <2>6 DEF OnCommand
  <2>7. CASE \E o \in Object : Reboot(o)
    BY <2>7 DEF Reboot, CloseLog
  <2>8. CASE ProcessDies
    BY <2>8 DEF ProcessDies
  <2>9. CASE \/ \E o \in Object : Cleanup(o) \/ Read(o) \/ Sync(o)
             \/ \E o \in Object, metric \in Metric : PublishTelemetry(o, metric)
             \/ Get \/ Heartbeat \/ Tick \/ UNCHANGED vars
    BY <2>9 DEF Cleanup, Read, Sync, PublishTelemetry, Get, Heartbeat, Tick, vars
  <2>. QED  BY <2>1, <2>2, <2>3, <2>4, <2>5, <2>6, <2>7, <2>8, <2>9 DEF Next
<1>3. listed' \in (0..now') \cup {NotListed} /\ now' \in 0..MaxTime
  <2>. USE <1>0 DEF TypeOK
  <2>1. CASE Tick
    BY <2>1, BoundsAssumption DEF Tick
  <2>2. CASE \/ \E o \in Object : Connected(o)
             \/ Heartbeat
    BY <2>2 DEF Connected, Heartbeat, Register
  <2>3. CASE \/ \E o \in Object : Disconnect(o) \/ Reboot(o)
             \/ ProcessDies \/ Get
    BY <2>3 DEF Disconnect, Reboot, ProcessDies, Get, Unregister
  <2>4. CASE \/ \E o \in Object : Cleanup(o) \/ Read(o) \/ Create(o) \/ ConnectStart(o)
             \/ \E o \in Object : Stopped(o) \/ OnCommand(o) \/ Sync(o)
             \/ \E o \in Object, metric \in Metric : PublishTelemetry(o, metric)
             \/ UNCHANGED vars
    BY <2>4 DEF Cleanup, Read, Create, ConnectStart, Stopped, OnCommand, Sync,
                PublishTelemetry, vars
  <2>. QED  BY <2>1, <2>2, <2>3, <2>4 DEF Next
<1>4. held' \in Seq(Message)
  <2>1. CASE \E o \in Object, metric \in Metric : PublishTelemetry(o, metric)
    <3>1. PICK o \in Object, metric \in Metric : PublishTelemetry(o, metric)
      BY <2>1
    <3>2. Telemetry(metric) \in Message /\ held \in Seq(Message)
      BY <1>0 DEF Telemetry, TypeOK, Message
    <3>3. held' \in {held, Append(held, Telemetry(metric))}
      BY <3>1 DEF PublishTelemetry, Emitted
    <3>4. Append(held, Telemetry(metric)) \in Seq(Message)
      BY <3>2
    <3>. QED  BY <3>2, <3>3, <3>4
  <2>2. CASE ~\E o \in Object, metric \in Metric : PublishTelemetry(o, metric)
    <3>1. held' = held
      BY <2>2 DEF Next, Cleanup, Read, Create, ConnectStart, Connected, Disconnect, Stopped,
                  OnCommand, Reboot, Sync, ProcessDies, Get, Heartbeat, Tick, vars
    <3>. QED  BY <1>0, <3>1 DEF TypeOK
  <2>. QED  BY <2>1, <2>2
<1>5. synced' \in Seq(Message) /\ Len(synced') <= Limit
  <2>1. CASE \E o \in Object : Sync(o)
    <3>1. synced' = GetAll
      BY <2>1 DEF Sync
    <3>2. Table(log) /\ \A row \in log : row.msg \in Message
      BY <1>0 DEF TypeOK, Ordered
    <3>. QED  BY <3>1, <3>2, GetAllReturns
  <2>2. CASE ~\E o \in Object : Sync(o)
    <3>1. synced' = synced
      BY <2>2 DEF Next, Cleanup, Read, Create, ConnectStart, Connected, Disconnect, Stopped,
                  OnCommand, Reboot, PublishTelemetry, ProcessDies, Get, Heartbeat, Tick, vars
    <3>. QED  BY <1>0, <3>1 DEF TypeOK
  <2>. QED  BY <2>1, <2>2
<1>. QED  BY <1>1, <1>2, <1>3, <1>4, <1>5 DEF TypeOK

(* Whatever leaves the device without a connected object takes it off the list. *)
LEMMA RegistryStep ==
  ASSUME IInv, [Next]_vars
  PROVE  RegisteredIsConnected'
<1>. USE DEF RegisteredIsConnected, ListByType, ListAll
<1>0. /\ mode \in [Object -> {"none", "new", "starting", "on", "stopping", "off"}]
      /\ listed # NotListed => \E o \in Object : mode[o] = "on"
  BY DEF IInv, TypeOK
<1>1. CASE \E o \in Object : Create(o) \/ ConnectStart(o) \/ Stopped(o)
  BY <1>0, <1>1 DEF Create, ConnectStart, Stopped
<1>2. CASE \E o \in Object : Connected(o)
  BY <1>0, <1>2 DEF Connected
<1>3. CASE (\E o \in Object : Disconnect(o) \/ Reboot(o)) \/ ProcessDies \/ Get
  BY <1>3 DEF Disconnect, Reboot, ProcessDies, Get, Unregister
<1>4. CASE \/ \E o \in Object : Cleanup(o) \/ Read(o) \/ OnCommand(o) \/ Sync(o)
           \/ \E o \in Object, metric \in Metric : PublishTelemetry(o, metric)
           \/ Heartbeat \/ Tick \/ UNCHANGED vars
  BY <1>0, <1>4 DEF Cleanup, Read, OnCommand, Sync, PublishTelemetry, Heartbeat, Tick, vars
<1>. QED  BY <1>1, <1>2, <1>3, <1>4 DEF Next

(* The reader misses nothing: a row that comes has a seq it has not passed, and
   a row that goes is none it will be asked about. *)
LEMMA ReaderStep ==
  ASSUME IInv, [Next]_vars
  PROVE  Ordered' /\ Distinct(log') /\ ReaderMissesNothing'
<1>0. /\ TypeOK /\ Ordered /\ Distinct(log) /\ ReaderMissesNothing
      /\ lastSeq \in Nat /\ mark \in Nat /\ mark <= lastSeq
      /\ Table(log) /\ \A row \in log : row.seq \in Nat /\ row.seq <= lastSeq
  BY DEF IInv, TypeOK, Ordered, Table
<1>1. CASE UNCHANGED <<log, lastSeq, mark, read>>
  BY <1>0, <1>1 DEF Ordered, ReaderMissesNothing
<1>2. CASE \E msg \in Message :
             /\ \A row \in log : row.msg # msg
             /\ log' = log \cup {[seq |-> lastSeq + 1, msg |-> msg]}
             /\ lastSeq < MaxRows /\ lastSeq' = lastSeq + 1
             /\ UNCHANGED <<mark, read>>
  <2>1. PICK msg \in Message :
          /\ log' = log \cup {[seq |-> lastSeq + 1, msg |-> msg]}
          /\ \A row \in log : row.msg # msg
    BY <1>2
  <2>. DEFINE new == [seq |-> lastSeq + 1, msg |-> msg]
  <2>2. new.seq = lastSeq + 1 /\ new.seq \in Nat /\ \A row \in log : row.seq < new.seq
    BY <1>0
  <2>3. log' = log \cup {new} /\ new.msg = msg
    BY <2>1
  <2>. HIDE DEF new
  <2>4. Table(log')
    BY <1>0, <2>2, <2>3, OneMoreRow
  <2>5. \A row \in log' : row.seq <= lastSeq'
    BY <1>0, <1>2, <2>2, <2>3
  <2>6. mark' <= lastSeq' /\ \A i \in DOMAIN read' : read'[i] <= mark'
    BY <1>0, <1>2 DEF Ordered
  <2>7. ~(new.seq <= mark)
    BY <1>0, <2>2
  <2>8. ReaderMissesNothing'
    BY <1>0, <1>2, <2>3, <2>7 DEF ReaderMissesNothing
  <2>9. Distinct(log')
    BY <1>0, <2>1, <2>3 DEF Distinct
  <2>. QED  BY <2>4, <2>5, <2>6, <2>8, <2>9 DEF Ordered
<1>3. CASE log' \in SUBSET log /\ UNCHANGED <<lastSeq, mark, read>>
  <2>1. Table(log')
    BY <1>0, <1>3, SomeRows
  <2>. QED  BY <1>0, <1>3, <2>1 DEF Ordered, Distinct, ReaderMissesNothing
<1>4. CASE /\ UNCHANGED <<log, lastSeq>>
           /\ GetSince(mark) # <<>>
           /\ read' = read \o [i \in DOMAIN GetSince(mark) |-> GetSince(mark)[i].seq]
           /\ mark' = GetSince(mark)[Len(GetSince(mark))].seq
  <2>1. /\ mark' <= lastSeq /\ \A i \in DOMAIN read' : read'[i] <= mark'
        /\ ReaderMissesNothing'
    BY <1>0, <1>4, ReadOn
  <2>. QED  BY <1>0, <1>4, <2>1 DEF Ordered
<1>. QED  BY <1>0, <1>1, <1>2, <1>3, <1>4, LogSteps

------------------------------------------------------------------------------
(* The tree over a log. *)

(* A set with 0 and with the successor of each of its numbers has them all. *)
LEMMA ReachesAll ==
  ASSUME NEW S, 0 \in S, \A k \in Nat : k \in S => k + 1 \in S
  PROVE  \A k \in Nat : k \in S
<1>. DEFINE R == {k \in Nat : k \notin S}
<1>1. CASE R = {}
  BY <1>1
<1>2. CASE R # {}
  <2>1. R \in SUBSET Nat
    OBVIOUS
  <2>. HIDE DEF R
  <2>2. PICK d \in R : \A y \in R : ~(<<y, d>> \in OpToRel(<, Nat))
    BY <1>2, <2>1, NatLessThanWellFounded, WFMin
  <2>3. d \in Nat /\ d \notin S /\ d # 0
    BY <2>2 DEF R
  <2>4. d - 1 \in Nat /\ d - 1 < d /\ d = (d - 1) + 1
    BY <2>3
  <2>5. d - 1 \notin S
    BY <2>3, <2>4
  <2>6. d - 1 \in R
    BY <2>4, <2>5 DEF R
  <2>. DEFINE pair == <<d - 1, d>>
  <2>7. pair \in Nat \X Nat /\ pair[1] < pair[2]
    BY <2>3, <2>4
  <2>. HIDE DEF pair
  <2>8. pair \in OpToRel(<, Nat)
    BY <2>7 DEF OpToRel
  <2>. QED  BY <2>2, <2>6, <2>8 DEF pair
<1>. QED  BY <1>1, <1>2

(* A set of numbers that has one has a least. *)
LEMMA LeastOne ==
  ASSUME NEW S \in SUBSET Nat, S # {}
  PROVE  \E d \in S : \A y \in S : d <= y
<1>1. PICK d \in S : \A y \in S : ~(<<y, d>> \in OpToRel(<, Nat))
  BY NatLessThanWellFounded, WFMin
<1>2. ASSUME NEW y \in S, y < d  PROVE FALSE
  <2>. DEFINE pair == <<y, d>>
  <2>1. pair \in Nat \X Nat /\ pair[1] < pair[2]
    BY <1>2
  <2>. HIDE DEF pair
  <2>2. pair \in OpToRel(<, Nat)
    BY <2>1 DEF OpToRel
  <2>. QED  BY <1>1, <2>2 DEF pair
<1>. QED  BY <1>2

(* T holds the levels of a tree over the leaves, up to the n-th. *)
Tower(T, leaves, n) ==
  T = [k \in 0..n |-> IF k = 0 THEN leaves ELSE Pairs(T[k - 1])]

(* The levels exist, however many. *)
LEMMA TowerExists ==
  ASSUME NEW leaves, NEW n \in Nat
  PROVE  \E T : Tower(T, leaves, n)
<1>. DEFINE S == {k \in Nat : \E T : Tower(T, leaves, k)}
<1>1. 0 \in S
  <2>. DEFINE T == [k \in 0..0 |-> leaves]
  <2>1. T = [k \in 0..0 |-> IF k = 0 THEN leaves ELSE Pairs(T[k - 1])]
    OBVIOUS
  <2>. QED  BY <2>1 DEF Tower
<1>2. ASSUME NEW k \in Nat, k \in S  PROVE k + 1 \in S
  <2>1. PICK T : Tower(T, leaves, k)
    BY <1>2
  <2>2. T = [j \in 0..k |-> IF j = 0 THEN leaves ELSE Pairs(T[j - 1])]
    BY <2>1 DEF Tower
  <2>. DEFINE U == [j \in 0..(k + 1) |-> IF j = k + 1 THEN Pairs(T[k]) ELSE T[j]]
  <2>3. ASSUME NEW j \in 0..(k + 1)
        PROVE  U[j] = IF j = 0 THEN leaves ELSE Pairs(U[j - 1])
    <3>1. CASE j = 0
      BY <2>2, <3>1
    <3>2. CASE j = k + 1
      <4>1. j - 1 = k /\ k \in 0..(k + 1) /\ k # k + 1 /\ j # 0
        BY <3>2
      <4>. QED  BY <3>2, <4>1
    <3>3. CASE j # 0 /\ j # k + 1
      <4>1. j \in 0..k /\ j - 1 \in 0..(k + 1) /\ j - 1 # k + 1
        BY <3>3
      <4>. QED  BY <2>2, <3>3, <4>1
    <3>. QED  BY <3>1, <3>2, <3>3
  <2>4. U = [j \in 0..(k + 1) |-> U[j]]
    OBVIOUS
  <2>. HIDE DEF U
  <2>5. U = [j \in 0..(k + 1) |-> IF j = 0 THEN leaves ELSE Pairs(U[j - 1])]
    BY <2>3, <2>4
  <2>. QED  BY <2>5 DEF Tower
<1>3. \A k \in Nat : k \in S
  <2>. HIDE DEF S
  <2>. QED  BY <1>1, <1>2, ReachesAll
<1>. QED  BY <1>3

(* The leaves of a log. *)
Leaves(messages) == [i \in DOMAIN messages |-> Leaf(messages[i])]

LEMMA LevelsAreTower ==
  ASSUME NEW S, NEW messages \in Seq(S)
  PROVE  Tower(Levels(messages), Leaves(messages), Len(messages))
<1>1. Len(messages) \in Nat
  OBVIOUS
<1>2. \E T : T = [k \in 0..Len(messages) |->
                    IF k = 0 THEN Leaves(messages) ELSE Pairs(T[k - 1])]
  BY <1>1, TowerExists DEF Tower
<1>3. Levels(messages) =
        CHOOSE T : T = [k \in 0..Len(messages) |->
                          IF k = 0 THEN Leaves(messages) ELSE Pairs(T[k - 1])]
  BY DEF Levels, Leaves
<1>. QED  BY <1>2, <1>3 DEF Tower

(* A list of two or more is half as long on the level above, which consists of
   pairs of its elements, all of them. *)
LEMMA PairsShape ==
  ASSUME NEW S, NEW level \in Seq(S), Len(level) >= 2
  PROVE  /\ Pairs(level) \in Seq(S \X S)
         /\ Len(Pairs(level)) < Len(level) /\ Len(Pairs(level)) > 0
         /\ \A i \in 1..Len(level) :
              \E p \in Range(Pairs(level)) : level[i] = p[1] \/ level[i] = p[2]
         /\ \A p \in Range(Pairs(level)) : p[1] \in Range(level) /\ p[2] \in Range(level)
<1>. DEFINE n == Len(level)
            m == (n + 1) \div 2
            other(i) == IF 2 * i <= n THEN 2 * i ELSE 2 * i - 1
            P == [i \in 1..m |-> <<level[2 * i - 1], level[other(i)]>>]
<1>1. n \in Nat /\ n >= 2 /\ DOMAIN level = 1..n /\ \A i \in 1..n : level[i] \in S
  OBVIOUS
<1>2. Pairs(level) = P
  BY <1>1 DEF Pairs
<1>. HIDE DEF n
<1>3. m \in Nat /\ m < n /\ m > 0 /\ (2 * m = n \/ 2 * m = n + 1)
  BY <1>1
<1>. HIDE DEF m
<1>4. ASSUME NEW i \in 1..m  PROVE 2 * i - 1 \in 1..n /\ other(i) \in 1..n
  BY <1>1, <1>3
<1>5. P \in Seq(S \X S) /\ Len(P) = m /\ DOMAIN P = 1..m
  BY <1>1, <1>3, <1>4
<1>6. \A i \in 1..m : P[i][1] = level[2 * i - 1] /\ P[i][2] = level[other(i)]
  OBVIOUS
<1>7. ASSUME NEW i \in 1..n
      PROVE  \E p \in Range(P) : level[i] = p[1] \/ level[i] = p[2]
  <2>1. PICK j \in Nat : i = 2 * j \/ i = 2 * j - 1
    <3>. DEFINE h == (i + 1) \div 2
    <3>1. h \in Nat /\ (i = 2 * h \/ i = 2 * h - 1)
      BY <1>1
    <3>. QED  BY <3>1
  <2>2. j \in 1..m
    BY <1>1, <1>3, <2>1
  <2>3. P[j] \in Range(P)
    BY <2>2, <1>5 DEF Range
  <2>4. i = 2 * j => other(j) = i
    BY <1>1
  <2>. HIDE DEF P, other
  <2>. QED  BY <1>6, <2>1, <2>2, <2>3, <2>4
<1>8. ASSUME NEW p \in Range(P)  PROVE p[1] \in Range(level) /\ p[2] \in Range(level)
  <2>1. PICK i \in 1..m : p = P[i]
    BY <1>5 DEF Range
  <2>. HIDE DEF P, other
  <2>2. p[1] = level[2 * i - 1] /\ p[2] = level[other(i)]
    BY <1>6, <2>1
  <2>. QED  BY <1>1, <1>4, <2>2 DEF Range
<1>. HIDE DEF P
<1>. QED  BY <1>2, <1>3, <1>5, <1>7, <1>8 DEF n

(* The elements of a level follow from the level above. *)
LEMMA RangeBelow ==
  ASSUME NEW S, NEW low \in Seq(S), Len(low) >= 2,
         NEW R, NEW other \in Seq(R), Len(other) >= 2,
         Range(Pairs(low)) = Range(Pairs(other))
  PROVE  Range(low) = Range(other)
<1>1. ASSUME NEW A, NEW B, NEW a \in Seq(A), NEW b \in Seq(B), Len(a) >= 2, Len(b) >= 2,
             Range(Pairs(a)) = Range(Pairs(b)), NEW x \in Range(a)
      PROVE  x \in Range(b)
  <2>1. PICK i \in 1..Len(a) : x = a[i]
    BY DEF Range
  <2>2. PICK p \in Range(Pairs(a)) : x = p[1] \/ x = p[2]
    BY <1>1, <2>1, PairsShape
  <2>3. p[1] \in Range(b) /\ p[2] \in Range(b)
    BY <1>1, PairsShape
  <2>. QED  BY <2>2, <2>3
<1>2. Range(low) \subseteq Range(other)
  <2>. SUFFICES ASSUME NEW x \in Range(low) PROVE x \in Range(other)
    OBVIOUS
  <2>. QED  BY <1>1
<1>3. Range(other) \subseteq Range(low)
  <2>. SUFFICES ASSUME NEW x \in Range(other) PROVE x \in Range(low)
    OBVIOUS
  <2>. QED  BY <1>1
<1>. QED  BY <1>2, <1>3

List(s) == \E S : s \in Seq(S)

(* The tree over a log has levels of two and more that are halved up to height
   a, and its root from there on. *)
Height(T, a, n) ==
  /\ a \in 0..n
  /\ \A k \in 0..n : k < a => List(T[k]) /\ Len(T[k]) >= 2
  /\ \A k \in 1..n : T[k] = Pairs(T[k - 1])
  /\ \A k \in 0..n : k >= a => T[k] = T[a]
  /\ List(T[a]) /\ Len(T[a]) = 1

LEMMA TowerHeight ==
  ASSUME NEW S, NEW leaves \in Seq(S), leaves # <<>>, NEW T, Tower(T, leaves, Len(leaves))
  PROVE  \E a \in 0..Len(leaves) : Height(T, a, Len(leaves))
<1>. DEFINE n == Len(leaves)
<1>1. n \in Nat /\ n >= 1
  BY EmptySeq
<1>2. T[0] = leaves /\ \A k \in 1..n : T[k] = Pairs(T[k - 1])
  <2>1. T = [k \in 0..n |-> IF k = 0 THEN leaves ELSE Pairs(T[k - 1])]
    BY DEF Tower
  <2>. HIDE DEF n
  <2>2. 0 \in 0..n /\ \A k \in 1..n : k \in 0..n /\ k # 0
    BY <1>1
  <2>. QED  BY <2>1, <2>2
<1>. DEFINE len(k) == Len(T[k])
            shrinks(k) == /\ List(T[k]) /\ len(k) \in Nat /\ len(k) >= 1
                          /\ len(k) = 1 \/ len(k) + k <= n
            Done == {k \in Nat : ~(k <= n) \/ shrinks(k)}
<1>3. 0 \in Done
  <2>1. List(leaves)
    BY DEF List
  <2>. QED  BY <1>1, <1>2, <2>1
<1>. HIDE DEF n
<1>4. ASSUME NEW k \in Nat, k \in Done  PROVE k + 1 \in Done
  <2>1. CASE k + 1 > n
    <3>. HIDE DEF shrinks
    <3>. QED  BY <1>1, <2>1
  <2>2. CASE k + 1 <= n
    <3>1. shrinks(k) /\ k + 1 \in 1..n /\ k = (k + 1) - 1
      <4>. HIDE DEF shrinks
      <4>. QED  BY <1>1, <1>4, <2>2
    <3>2. T[k + 1] = Pairs(T[k])
      BY <1>2, <3>1
    <3>3. CASE len(k) = 1
      <4>1. T[k + 1] = T[k]
        BY <3>2, <3>3 DEF Pairs
      <4>2. len(k + 1) = 1 /\ List(T[k + 1])
        BY <3>1, <3>3, <4>1
      <4>3. shrinks(k + 1)
        <5>. HIDE DEF len
        <5>. QED  BY <4>2
      <4>. HIDE DEF shrinks
      <4>. QED  BY <4>3
    <3>4. CASE len(k) # 1
      <4>1. PICK R : T[k] \in Seq(R)
        BY <3>1 DEF List
      <4>2. len(k) >= 2 /\ len(k) \in Nat /\ len(k) + k <= n
        <5>. HIDE DEF len
        <5>. QED  BY <1>1, <3>1, <3>4
      <4>3. /\ T[k + 1] \in Seq(R \X R)
            /\ len(k + 1) < len(k) /\ len(k + 1) > 0
        BY <3>2, <4>1, <4>2, PairsShape
      <4>4. len(k + 1) \in Nat /\ List(T[k + 1])
        BY <4>3 DEF List
      <4>5. shrinks(k + 1)
        <5>. HIDE DEF len
        <5>. QED  BY <1>1, <4>2, <4>3, <4>4
      <4>. HIDE DEF shrinks
      <4>. QED  BY <4>5
    <3>. QED  BY <3>3, <3>4
  <2>. HIDE DEF Done
  <2>. QED  BY <1>1, <2>1, <2>2
<1>5. ASSUME NEW k \in 0..n  PROVE shrinks(k)
  <2>1. \A i \in Nat : i \in Done
    <3>. HIDE DEF Done
    <3>. QED  BY <1>3, <1>4, ReachesAll
  <2>2. k \in Nat /\ k <= n
    BY <1>1
  <2>. HIDE DEF shrinks
  <2>. QED  BY <2>1, <2>2
<1>. DEFINE Tops == {k \in 0..n : len(k) = 1}
<1>6. n \in Tops
  <2>1. n \in 0..n
    BY <1>1
  <2>2. shrinks(n)
    BY <1>5, <2>1
  <2>3. len(n) = 1
    <3>. HIDE DEF len
    <3>. QED  BY <1>1, <2>2
  <2>. QED  BY <2>1, <2>3
<1>7. PICK a \in Tops : \A y \in Tops : a <= y
  <2>1. Tops \in SUBSET Nat
    BY <1>1
  <2>. HIDE DEF Tops
  <2>. QED  BY <1>6, <2>1, LeastOne
<1>8. ASSUME NEW k \in 0..n, k < a  PROVE List(T[k]) /\ Len(T[k]) >= 2
  <2>1. k \notin Tops
    BY <1>1, <1>7, <1>8
  <2>2. len(k) # 1
    BY <2>1
  <2>3. shrinks(k)
    BY <1>5
  <2>4. List(T[k]) /\ len(k) >= 2
    <3>. HIDE DEF len
    <3>. QED  BY <2>2, <2>3
  <2>. QED  BY <2>4
<1>. DEFINE Same == {k \in Nat : a + k <= n => T[a + k] = T[a]}
<1>9. \A k \in Nat : k \in Same
  <2>1. 0 \in Same
    BY <1>1, <1>7
  <2>2. ASSUME NEW k \in Nat, k \in Same  PROVE k + 1 \in Same
    <3>1. CASE a + (k + 1) <= n
      <4>1. T[a + k] = T[a] /\ a + (k + 1) \in 1..n /\ (a + (k + 1)) - 1 = a + k
        BY <1>1, <1>7, <2>2, <3>1
      <4>2. T[a + (k + 1)] = Pairs(T[a])
        BY <1>2, <4>1
      <4>3. Pairs(T[a]) = T[a]
        BY <1>7 DEF Pairs
      <4>. QED  BY <4>2, <4>3
    <3>. QED  BY <3>1
  <2>. HIDE DEF Same
  <2>. QED  BY <2>1, <2>2, ReachesAll
<1>10. ASSUME NEW k \in 0..n, k >= a  PROVE T[k] = T[a]
  <2>1. k - a \in Nat /\ a + (k - a) = k
    BY <1>1, <1>7, <1>10
  <2>2. k - a \in Same
    BY <1>9, <2>1
  <2>. QED  BY <1>1, <2>1, <2>2
<1>11. a \in 0..n /\ Len(T[a]) = 1 /\ List(T[a])
  BY <1>5, <1>7
<1>. QED  BY <1>2, <1>8, <1>10, <1>11 DEF Height, n

(* T holds the levels of the tree over a log, whose root is all of level a. *)
Tree(messages, T, a) ==
  /\ a \in Nat
  /\ T[0] = Leaves(messages)
  /\ \A k \in Nat : k < a => List(T[k]) /\ Len(T[k]) >= 2 /\ T[k + 1] = Pairs(T[k])
  /\ List(T[a]) /\ Len(T[a]) = 1 /\ RootHash(messages) = T[a][1]

LEMMA LogHasTree ==
  ASSUME NEW S, NEW messages \in Seq(S), messages # <<>>
  PROVE  \E T : \E a \in Nat : Tree(messages, T, a)
<1>. DEFINE n == Len(messages)
            T == Levels(messages)
            leaves == Leaves(messages)
<1>1. n \in Nat /\ leaves \in Seq({Leaf(m) : m \in S}) /\ Len(leaves) = n /\ leaves # <<>>
  <2>1. n \in Nat /\ n # 0 /\ DOMAIN messages = 1..n /\ \A i \in 1..n : messages[i] \in S
    BY EmptySeq
  <2>2. leaves = [i \in 1..n |-> Leaf(messages[i])]
    BY <2>1 DEF Leaves
  <2>. HIDE DEF leaves, n
  <2>3. \A i \in 1..n : Leaf(messages[i]) \in {Leaf(m) : m \in S}
    BY <2>1
  <2>4. leaves \in Seq({Leaf(m) : m \in S}) /\ Len(leaves) = n
    BY <2>1, <2>2, <2>3
  <2>. QED  BY <2>1, <2>4
<1>2. Tower(T, leaves, n)
  BY LevelsAreTower
<1>. HIDE DEF T, leaves
<1>3. PICK a \in 0..n : Height(T, a, n)
  <2>. HIDE DEF n
  <2>. QED  BY <1>1, <1>2, TowerHeight
<1>4. T[0] = leaves
  <2>1. T = [k \in 0..n |-> IF k = 0 THEN leaves ELSE Pairs(T[k - 1])]
    BY <1>2 DEF Tower
  <2>. HIDE DEF n
  <2>2. 0 \in 0..n
    BY <1>1
  <2>. QED  BY <2>1, <2>2
<1>5. RootHash(messages) = T[a][1]
  <2>1. RootHash(messages) = T[n][1]
    BY DEF RootHash, T, n
  <2>2. n \in 0..n /\ n >= a
    BY <1>1, <1>3
  <2>. QED  BY <1>3, <2>1, <2>2 DEF Height
<1>. HIDE DEF n
<1>6. ASSUME NEW k \in Nat, k < a
      PROVE  List(T[k]) /\ Len(T[k]) >= 2 /\ T[k + 1] = Pairs(T[k])
  <2>1. k \in 0..n /\ k + 1 \in 1..n /\ (k + 1) - 1 = k
    BY <1>1, <1>3, <1>6
  <2>. QED  BY <1>3, <1>6, <2>1 DEF Height
<1>7. Tree(messages, T, a)
  BY <1>3, <1>4, <1>5, <1>6 DEF Tree, Height, leaves
<1>. QED  BY <1>3, <1>7

(* Elements of the level above a level of two and more are pairs. *)
LEMMA AboveArePairs ==
  ASSUME NEW low, List(low), Len(low) >= 2, NEW x \in Range(Pairs(low))
  PROVE  \E y, z : x = <<y, z>>
<1>1. PICK R : low \in Seq(R)
  BY DEF List
<1>2. Pairs(low) \in Seq(R \X R)
  BY <1>1, PairsShape
<1>3. x \in R \X R
  BY <1>2 DEF Range
<1>. QED  BY <1>3

(* The root over a log is the root over no other messages. *)
LEMMA RootsDiffer ==
  ASSUME NEW S, NEW s \in Seq(S), NEW T, NEW a \in Nat, Tree(s, T, a),
         NEW t \in Seq(S), NEW U, NEW b \in Nat, Tree(t, U, b),
         a <= b, RootHash(s) = RootHash(t)
  PROVE  Range(s) = Range(t)
<1>. DEFINE Same == {j \in Nat : ~(j <= a) \/ Range(T[a - j]) = Range(U[b - j])}
<1>1. 0 \in Same
  <2>1. ASSUME NEW l, List(l), Len(l) = 1  PROVE Range(l) = {l[1]}
    <3>1. PICK R : l \in Seq(R)
      BY <2>1 DEF List
    <3>2. DOMAIN l = 1..1
      BY <2>1, <3>1
    <3>. QED  BY <3>2 DEF Range
  <2>2. Range(T[a]) = {RootHash(s)} /\ Range(U[b]) = {RootHash(t)}
    BY <2>1 DEF Tree
  <2>3. a - 0 = a /\ b - 0 = b
    OBVIOUS
  <2>. QED  BY <2>2, <2>3
<1>2. ASSUME NEW j \in Nat, j \in Same  PROVE j + 1 \in Same
  <2>1. CASE j + 1 <= a
    <3>1. Range(T[a - j]) = Range(U[b - j])
      BY <1>2, <2>1
    <3>. DEFINE k == a - (j + 1)
                h == b - (j + 1)
    <3>2. /\ k \in Nat /\ k < a /\ k + 1 = a - j
          /\ h \in Nat /\ h < b /\ h + 1 = b - j
      BY <2>1
    <3>. HIDE DEF k, h
    <3>3. /\ List(T[k]) /\ Len(T[k]) >= 2 /\ T[k + 1] = Pairs(T[k])
          /\ List(U[h]) /\ Len(U[h]) >= 2 /\ U[h + 1] = Pairs(U[h])
      BY <3>2 DEF Tree
    <3>4. PICK R : T[k] \in Seq(R)
      BY <3>3 DEF List
    <3>5. PICK Q : U[h] \in Seq(Q)
      BY <3>3 DEF List
    <3>6. Range(T[k]) = Range(U[h])
      BY <3>1, <3>2, <3>3, <3>4, <3>5, RangeBelow
    <3>. QED  BY <3>6 DEF k, h
  <2>2. CASE ~(j + 1 <= a)
    BY <2>2
  <2>. QED  BY <2>1, <2>2
<1>3. Range(T[0]) = Range(U[b - a])
  <2>1. \A j \in Nat : j \in Same
    <3>. HIDE DEF Same
    <3>. QED  BY <1>1, <1>2, ReachesAll
  <2>2. a \in Same /\ a <= a /\ a - a = 0
    BY <2>1
  <2>. QED  BY <2>2
<1>4. T[0] = Leaves(s) /\ U[0] = Leaves(t)
  BY DEF Tree
<1>5. ASSUME NEW l \in Seq(S)  PROVE Range(Leaves(l)) = {<<m>> : m \in Range(l)}
  BY DEF Leaves, Leaf, Range
<1>6. CASE a = b
  <2>1. b - a = 0
    BY <1>6
  <2>2. {<<m>> : m \in Range(s)} = {<<m>> : m \in Range(t)}
    BY <1>3, <1>4, <1>5, <2>1
  <2>3. ASSUME NEW A, NEW B, {<<m>> : m \in A} = {<<m>> : m \in B}, NEW x \in A
        PROVE  x \in B
    <3>1. <<x>> \in {<<m>> : m \in B}
      BY <2>3
    <3>2. PICK m \in B : <<x>> = <<m>>
      BY <3>1
    <3>. QED  BY <3>2
  <2>4. Range(s) \subseteq Range(t)
    <3>. SUFFICES ASSUME NEW x \in Range(s) PROVE x \in Range(t)
      OBVIOUS
    <3>. QED  BY <2>2, <2>3
  <2>5. Range(t) \subseteq Range(s)
    <3>. SUFFICES ASSUME NEW x \in Range(t) PROVE x \in Range(s)
      OBVIOUS
    <3>. QED  BY <2>2, <2>3
  <2>. QED  BY <2>4, <2>5
<1>7. CASE a < b
  <2>. DEFINE h == b - a - 1
  <2>1. h \in Nat /\ h < b /\ h + 1 = b - a
    BY <1>7
  <2>. HIDE DEF h
  <2>2. List(U[h]) /\ Len(U[h]) >= 2 /\ U[b - a] = Pairs(U[h])
    BY <2>1 DEF Tree
  <2>3. \A x \in Range(Leaves(s)) : \E y, z : x = <<y, z>>
    BY <1>3, <1>4, <2>2, AboveArePairs
  <2>4. Range(s) = {}
    <3>. SUFFICES ASSUME NEW x \in Range(s) PROVE FALSE
      OBVIOUS
    <3>1. <<x>> \in Range(Leaves(s))
      BY <1>5
    <3>2. PICK y, z : <<x>> = <<y, z>>
      BY <2>3, <3>1
    <3>3. Len(<<x>>) = 1 /\ Len(<<y, z>>) = 2
      OBVIOUS
    <3>. QED  BY <3>2, <3>3
  <2>5. Range(U[b - a]) = {}
    BY <1>3, <1>4, <1>5, <2>4
  <2>6. PICK R : U[h] \in Seq(R)
    BY <2>2 DEF List
  <2>7. Pairs(U[h]) \in Seq(R \X R) /\ Len(Pairs(U[h])) > 0
    BY <2>2, <2>6, PairsShape
  <2>8. 1 \in DOMAIN Pairs(U[h])
    BY <2>7
  <2>. QED  BY <2>2, <2>5, <2>8 DEF Range
<1>. QED  BY <1>6, <1>7

(* Two logs with the same root hold the same messages. *)
LEMMA RootTells ==
  ASSUME NEW S, NEW s \in Seq(S), NEW t \in Seq(S), RootHash(s) = RootHash(t)
  PROVE  Range(s) = Range(t)
<1>1. ASSUME NEW l \in Seq(S), l # <<>>  PROVE RootHash(l) # <<>>
  <2>1. PICK T : \E a \in Nat : Tree(l, T, a)
    BY <1>1, LogHasTree
  <2>2. PICK a \in Nat : Tree(l, T, a)
    BY <2>1
  <2>3. CASE a = 0
    <3>1. RootHash(l) = Leaves(l)[1]
      BY <2>2, <2>3 DEF Tree
    <3>2. 1 \in DOMAIN l
      BY <1>1, EmptySeq
    <3>3. RootHash(l) = <<l[1]>>
      BY <3>1, <3>2 DEF Leaves, Leaf
    <3>. QED  BY <3>3
  <2>4. CASE a # 0
    <3>. DEFINE h == a - 1
    <3>1. h \in Nat /\ h < a /\ h + 1 = a
      BY <2>4
    <3>. HIDE DEF h
    <3>2. List(T[h]) /\ Len(T[h]) >= 2 /\ T[a] = Pairs(T[h])
      BY <2>2, <3>1 DEF Tree
    <3>3. RootHash(l) \in Range(Pairs(T[h]))
      <4>1. List(T[a]) /\ Len(T[a]) = 1 /\ RootHash(l) = T[a][1]
        BY <2>2 DEF Tree
      <4>2. 1 \in DOMAIN T[a]
        BY <4>1 DEF List
      <4>. QED  BY <3>2, <4>1, <4>2 DEF Range
    <3>4. PICK y, z : RootHash(l) = <<y, z>>
      BY <3>2, <3>3, AboveArePairs
    <3>. QED  BY <3>4
  <2>. QED  BY <2>3, <2>4
<1>2. RootHash(<<>>) = <<>>
  BY DEF RootHash, EmptyRoot
<1>3. CASE s = <<>> \/ t = <<>>
  BY <1>1, <1>2, <1>3
<1>4. CASE s # <<>> /\ t # <<>>
  <2>1. PICK T : \E a \in Nat : Tree(s, T, a)
    BY <1>4, LogHasTree
  <2>2. PICK a \in Nat : Tree(s, T, a)
    BY <2>1
  <2>3. PICK U : \E b \in Nat : Tree(t, U, b)
    BY <1>4, LogHasTree
  <2>4. PICK b \in Nat : Tree(t, U, b)
    BY <2>3
  <2>5. a <= b \/ b <= a
    OBVIOUS
  <2>. QED  BY <2>2, <2>4, <2>5, RootsDiffer
<1>. QED  BY <1>3, <1>4

(* Who has missed only the newest messages is sent exactly those: the same root
   means that nothing is missing, and the counts tell how many are. *)
LEMMA DiffIsRest ==
  ASSUME NEW S, NEW all \in Seq(S), NEW some \in Seq(S),
         \A i, j \in DOMAIN all : all[i] = all[j] => i = j,
         IsPrefix(some, all)
  PROVE  some \o ComputeDiff(all, RootHash(some), Len(some)) = all
<1>. DEFINE n == Len(all)
            k == Len(some)
<1>1. /\ n \in Nat /\ k \in Nat /\ k <= n
      /\ DOMAIN all = 1..n /\ DOMAIN some = 1..k
      /\ \A i \in 1..n : all[i] \in S
  BY DEF IsPrefix
<1>2. \A i \in 1..k : some[i] = all[i]
  <2>1. SubSeq(some, 1, k) = SubSeq(all, 1, k)
    BY DEF IsPrefix
  <2>2. \A i \in 1..k : SubSeq(some, 1, k)[i] = some[i] /\ SubSeq(all, 1, k)[i] = all[i]
    BY <1>1
  <2>. QED  BY <2>1, <2>2
<1>. HIDE DEF n, k
<1>3. CASE RootHash(some) = RootHash(all)
  <2>1. Range(some) = Range(all)
    BY <1>3, RootTells
  <2>2. k = n
    <3>1. CASE k < n
      <4>1. n \in 1..n /\ n \notin 1..k
        BY <1>1, <3>1
      <4>2. all[n] \in Range(some)
        BY <1>1, <2>1, <4>1 DEF Range
      <4>3. PICK i \in 1..k : all[n] = some[i]
        BY <1>1, <4>2 DEF Range
      <4>4. i \in 1..n /\ all[n] = all[i]
        BY <1>1, <1>2, <4>3
      <4>. QED  BY <1>1, <4>1, <4>4
    <3>. QED  BY <1>1, <3>1
  <2>3. some = all
    BY <1>1, <1>2, <2>2 DEF n, k
  <2>4. ComputeDiff(all, RootHash(some), Len(some)) = <<>>
    BY <1>3 DEF ComputeDiff
  <2>. QED  BY <2>3, <2>4
<1>4. CASE RootHash(some) # RootHash(all) /\ k = 0
  <2>1. some = <<>>
    BY <1>4 DEF k
  <2>2. ComputeDiff(all, RootHash(some), Len(some)) = all
    BY <1>4 DEF ComputeDiff, k
  <2>. QED  BY <2>1, <2>2
<1>5. CASE RootHash(some) # RootHash(all) /\ k # 0
  <2>1. n > k
    <3>1. CASE n = k
      <4>1. some = all
        BY <1>1, <1>2, <3>1 DEF n, k
      <4>. QED  BY <1>5, <4>1
    <3>. QED  BY <1>1, <3>1
  <2>. DEFINE rest == SubSeq(all, k + 1, n)
  <2>2. ComputeDiff(all, RootHash(some), Len(some)) = rest
    <3>1. n - (n - k) + 1 = k + 1
      BY <1>1
    <3>. QED  BY <1>5, <2>1, <3>1 DEF ComputeDiff, Newest, n, k
  <2>3. /\ rest \in Seq(S) /\ Len(rest) = n - k
        /\ \A i \in 1..(n - k) : rest[i] = all[k + i]
    <3>1. /\ k + 1 \in Int /\ n \in Int /\ k + 1 <= n /\ n - (k + 1) + 1 = n - k
          /\ \A i \in (k + 1)..n : all[i] \in S
          /\ \A i \in 1..(n - k) : (k + 1) + i - 1 = k + i
      BY <1>1, <2>1
    <3>2. /\ rest \in Seq(S) /\ Len(rest) = n - (k + 1) + 1
          /\ \A i \in 1..(n - (k + 1) + 1) : rest[i] = all[(k + 1) + i - 1]
      BY <3>1, SubSeqProperties
    <3>. HIDE DEF rest
    <3>. QED  BY <3>1, <3>2
  <2>. HIDE DEF rest
  <2>4. /\ some \o rest \in Seq(S) /\ Len(some \o rest) = n
        /\ \A i \in 1..n : (some \o rest)[i] = IF i <= k THEN some[i] ELSE rest[i - k]
    BY <1>1, <2>1, <2>3, ConcatProperties DEF k
  <2>5. ASSUME NEW i \in 1..n  PROVE (some \o rest)[i] = all[i]
    <3>1. CASE i <= k
      BY <1>1, <1>2, <2>4, <3>1
    <3>2. CASE i > k
      <4>1. i - k \in 1..(n - k) /\ k + (i - k) = i /\ ~(i <= k)
        BY <1>1, <3>2
      <4>. QED  BY <2>3, <2>4, <4>1
    <3>3. i <= k \/ i > k
      BY <1>1
    <3>. QED  BY <3>1, <3>2, <3>3
  <2>6. some \o rest = all
    BY <1>1, <2>4, <2>5, SeqEqual DEF n
  <2>. QED  BY <2>2, <2>6
<1>. QED  BY <1>3, <1>4, <1>5

------------------------------------------------------------------------------
(* The types; a listed device is connected; the log is a table whose keys rise
   and are never reused, and the reader is not ahead of it (DePINDevice,
   DeviceRegistry, DePINWAL). *)
THEOREM DeviceInvariance == Spec => []IInv
<1>1. IInv /\ [Next]_vars => IInv'
  BY TypeStep, RegistryStep, ReaderStep DEF IInv
<1>. QED  BY InitInv, <1>1, PTL DEF Spec

(* Whatever is in the device's variables is of its type, the list of messages
   behind a published root no longer than get_all's limit (sync). *)
THEOREM DeviceTypes == Spec => []TypeOK
BY DeviceInvariance, PTL DEF IInv

(* A device that the registry lists is connected, by whichever object, however
   many objects of it there are and whenever a reboot comes (connect,
   disconnect, reboot, list_by_type, list_all). *)
THEOREM ListedIsConnected == Spec => []RegisteredIsConnected
BY DeviceInvariance, PTL DEF IInv

(* A reader of the log is given each row that was not cleaned up before it
   asked, none twice and in order, for any limits and times to keep rows
   (append, get_since, cleanup). *)
THEOREM ReaderGetsAll == Spec => []ReaderMissesNothing
BY DeviceInvariance, PTL DEF IInv

(* A gateway whose messages have the root that was published has the messages
   the root was made of, whatever it has twice, at any number of messages
   (MerkleTree._build, sync). *)
THEOREM RootsTell == Spec => []RootTellsMessages
<1>1. IInv => RootTellsMessages
  BY RootTells DEF IInv, TypeOK, RootTellsMessages
<1>. QED  BY DeviceInvariance, <1>1, PTL

(* A gateway that has missed only the newest messages of a log, however long, is
   sent exactly those (compute_diff, get_all, append). *)
THEOREM DiffsComplete == Spec => []DiffCompletes
<1>1. ASSUME IInv  PROVE DiffCompletes
  <2>1. Table(log) /\ Distinct(log) /\ held \in Seq(Message) /\ \A row \in log : row.msg \in Message
    BY <1>1 DEF IInv, TypeOK, Ordered
  <2>2. GetAll \in Seq(Message) /\ \A i, j \in DOMAIN GetAll : GetAll[i] = GetAll[j] => i = j
    BY <2>1, GetAllReturns
  <2>. QED  BY <2>1, <2>2, DiffIsRest DEF DiffCompletes
<1>. QED  BY DeviceInvariance, <1>1, PTL
==============================================================================
