------------------------------- MODULE Device -------------------------------
(* A DePIN device (depin/device.py) with its telemetry log (depin/wal.py), its
   entry in the registry of its process (depin/registry.py), a gateway that
   listens to its telemetry, and a reader of the log.

   Several DePINDevice objects of one device may live in its process, when it is
   set up again before the object that was there has gone; they share the file
   of the log. The file outlives the process. *)
EXTENDS Merkle, FiniteSets, Functions

CONSTANTS
  Object,     \* the DePINDevice objects
  Metric,     \* what is measured
  Limit,      \* rows get_all returns
  Ttl,        \* time a row is kept
  DeviceTtl,  \* time a device is registered without a heartbeat
  NotListed,
  MaxTime,    \* bound on the time
  MaxRows     \* bound on the rows ever written, and on what the gateway hears

ASSUME LimitAssumption == Limit \in Nat \ {0}
ASSUME TtlAssumption == Ttl \in Nat /\ DeviceTtl \in Nat
ASSUME NotListedAssumption == NotListed \notin Nat
ASSUME BoundsAssumption == MaxTime \in Nat /\ MaxRows \in Nat

VARIABLES
  mode,       \* how far each object has come: connected when "on"
  rebooting,  \* the objects with a task of their command callback that will reboot
  open,       \* whether its connection to the log is open
  listed,     \* _last_seen of the device in the registry, or NotListed
  log,        \* the rows of the log's table
  lastSeq,    \* the largest seq ever given, which SQLite keeps beside the table
  held,       \* the telemetry the gateway has heard, in order
  synced,     \* the messages behind the Merkle root published last
  mark,       \* the seq up to which the reader has read
  read,       \* the seqs it has read, in order
  now

logVars == <<log, lastSeq>>
readerVars == <<mark, read>>
vars == <<mode, rebooting, open, listed, logVars, held, synced, readerVars, now>>

Init ==
  /\ mode = [o \in Object |-> "none"]
  /\ rebooting = {}
  /\ open = [o \in Object |-> FALSE]
  /\ listed = NotListed
  /\ log = {}
  /\ lastSeq = 0
  /\ held = <<>>
  /\ synced = <<>>
  /\ mark = 0
  /\ read = <<>>
  /\ now = 0

------------------------------------------------------------------------------
(* The log. *)

\* The table is made if the file has none; the connection is closed.
OpenLog(o) == open' = [open EXCEPT ![o] = TRUE]
CloseLog(o) == open' = [open EXCEPT ![o] = FALSE]

Telemetry(metric) == [metric |-> metric, ts |-> now]
Messages(rows) == [i \in DOMAIN rows |-> rows[i].msg]

\* ORDER BY seq ASC.
Before(rows, row) == {other \in rows : other.seq < row.seq}
InOrder(rows) ==
  [i \in 1..Cardinality(rows) |->
     CHOOSE row \in rows : Cardinality(Before(rows, row)) = i - 1]

\* mutant: the primary key is not AUTOINCREMENT: a seq is one more than the largest there is.
NextSeqReused == 1 + Max({0} \cup {row.seq : row \in log})

NextSeq == lastSeq + 1

\* INSERT OR IGNORE: a message of the same content and time is there already.
Appended(msg) ==
  IF \E row \in log : row.msg = msg THEN UNCHANGED logVars
  ELSE /\ lastSeq < MaxRows
       /\ log' = log \cup {[seq |-> NextSeq, msg |-> msg]}
       /\ lastSeq' = NextSeq

\* mutant: all rows.
GetAllUnlimited == Messages(InOrder(log))

\* The oldest rows.
GetAll ==
  Messages(SubSeq(InOrder(log), 1, IF Cardinality(log) < Limit THEN Cardinality(log) ELSE Limit))

GetSince(seq) == InOrder({row \in log : row.seq > seq})

Expired(row) == row.msg.ts + Ttl < now

Cleanup(o) ==
  /\ open[o]
  /\ log' = {row \in log : ~Expired(row)}
  /\ log' # log
  /\ UNCHANGED <<mode, rebooting, open, listed, lastSeq, held, synced, readerVars, now>>

\* A reader asks for the rows after the last it has read.
Read(o) ==
  /\ open[o]
  /\ GetSince(mark) # <<>>
  /\ read' = read \o [i \in DOMAIN GetSince(mark) |-> GetSince(mark)[i].seq]
  /\ mark' = GetSince(mark)[Len(GetSince(mark))].seq
  /\ UNCHANGED <<mode, rebooting, open, listed, logVars, held, synced, now>>

------------------------------------------------------------------------------
(* Lifecycle. Starting and stopping the mesh agent are awaited. *)

Create(o) ==
  /\ mode[o] = "none"
  /\ mode' = [mode EXCEPT ![o] = "new"]
  /\ OpenLog(o)
  /\ UNCHANGED <<rebooting, listed, logVars, held, synced, readerVars, now>>

ConnectStart(o) ==
  /\ mode[o] \in {"new", "off"}
  /\ mode' = [mode EXCEPT ![o] = "starting"]
  /\ UNCHANGED <<rebooting, open, listed, logVars, held, synced, readerVars, now>>

\* Of the registry: the entry is made or replaced, whoever made it; it is removed.
Register == listed' = now
Unregister == listed' = NotListed

\* The mesh has started: commands are listened to and the device registered.
Connected(o) ==
  /\ mode[o] = "starting"
  /\ mode' = [mode EXCEPT ![o] = "on"]
  /\ Register
  /\ UNCHANGED <<rebooting, open, logVars, held, synced, readerVars, now>>

\* mutant: the device is left in the registry.
DisconnectListed(o) ==
  /\ mode[o] \in {"new", "on"}
  /\ mode' = [mode EXCEPT ![o] = "stopping"]
  /\ UNCHANGED <<rebooting, open, listed, logVars, held, synced, readerVars, now>>

Disconnect(o) ==
  /\ mode[o] \in {"new", "on"}
  /\ mode' = [mode EXCEPT ![o] = "stopping"]
  /\ Unregister
  /\ UNCHANGED <<rebooting, open, logVars, held, synced, readerVars, now>>

\* The mesh has stopped: the log is closed, and connect() does not open it again.
Stopped(o) ==
  /\ mode[o] = "stopping"
  /\ mode' = [mode EXCEPT ![o] = "off"]
  /\ CloseLog(o)
  /\ UNCHANGED <<rebooting, listed, logVars, held, synced, readerVars, now>>

\* A command to reboot comes in while the device listens: its callback gets a task.
OnCommand(o) ==
  /\ mode[o] \in {"on", "stopping"} /\ rebooting = {}
  /\ rebooting' = {o}
  /\ UNCHANGED <<mode, open, listed, logVars, held, synced, readerVars, now>>

(* The task calls disconnect(), however far the object has come by then: it may
   have disconnected, and be on its way to connect again. *)
Reboot(o) ==
  /\ o \in rebooting
  /\ rebooting' = rebooting \ {o}
  /\ Unregister
  /\ mode' = [mode EXCEPT ![o] = IF @ = "on" THEN "stopping" ELSE @]
  /\ IF mode[o] = "starting" THEN CloseLog(o) ELSE UNCHANGED open
  /\ UNCHANGED <<logVars, held, synced, readerVars, now>>

ProcessDies ==
  /\ mode' = [o \in Object |-> "none"]
  /\ mode' # mode
  /\ rebooting' = {}
  /\ open' = [o \in Object |-> FALSE]
  /\ listed' = NotListed
  /\ UNCHANGED <<logVars, held, synced, readerVars, now>>

------------------------------------------------------------------------------
(* Telemetry and synchronisation. *)

\* What is emitted may be lost on its way to the gateway.
Emitted(o, msg) ==
  held' \in IF mode[o] = "on" THEN {held, Append(held, msg)} ELSE {held}

\* With the log closed it raises before anything is emitted.
PublishTelemetry(o, metric) ==
  /\ open[o]
  /\ Len(held) < MaxRows
  /\ Appended(Telemetry(metric))
  /\ Emitted(o, Telemetry(metric))
  /\ UNCHANGED <<mode, rebooting, open, listed, synced, readerVars, now>>

Sync(o) ==
  /\ mode[o] = "on"
  /\ open[o]
  /\ synced' = GetAll
  /\ UNCHANGED <<mode, rebooting, open, listed, logVars, held, readerVars, now>>

------------------------------------------------------------------------------
(* The registry. *)

Outlived == listed # NotListed /\ listed + DeviceTtl < now

\* Whether the device is listed among those of its type, and among the active.
ListByType == listed # NotListed
ListAll == listed # NotListed /\ ~Outlived

\* get() removes a device it finds expired.
Get ==
  /\ Outlived
  /\ Unregister
  /\ UNCHANGED <<mode, rebooting, open, logVars, held, synced, readerVars, now>>

\* A heartbeat revives a device that has expired and that nobody looked up.
Heartbeat ==
  /\ listed # NotListed
  /\ listed # now
  /\ listed' = now
  /\ UNCHANGED <<mode, rebooting, open, logVars, held, synced, readerVars, now>>

Tick ==
  /\ now < MaxTime
  /\ now' = now + 1
  /\ UNCHANGED <<mode, rebooting, open, listed, logVars, held, synced, readerVars>>

Next ==
  \/ \E o \in Object : Cleanup(o)
  \/ \E o \in Object : Read(o)
  \/ \E o \in Object : Create(o)
  \/ \E o \in Object : ConnectStart(o)
  \/ \E o \in Object : Connected(o)
  \/ \E o \in Object : Disconnect(o)
  \/ \E o \in Object : Stopped(o)
  \/ \E o \in Object : OnCommand(o)
  \/ \E o \in Object : Reboot(o)
  \/ \E o \in Object, metric \in Metric : PublishTelemetry(o, metric)
  \/ \E o \in Object : Sync(o)
  \/ ProcessDies
  \/ Get
  \/ Heartbeat
  \/ Tick

Spec == Init /\ [][Next]_vars

------------------------------------------------------------------------------
Message == [metric : Metric, ts : 0..MaxTime]

TypeOK ==
  /\ mode \in [Object -> {"none", "new", "starting", "on", "stopping", "off"}]
  /\ rebooting \subseteq {o \in Object : mode[o] # "none"}
  /\ open \in [Object -> BOOLEAN]
  /\ \A o \in Object : mode[o] = "new" => open[o]
  /\ listed \in (0..now) \cup {NotListed}
  /\ log \subseteq [seq : 1..MaxRows, msg : Message]
  /\ lastSeq \in 0..MaxRows
  /\ held \in Seq(Message)
  /\ synced \in Seq(Message) /\ Len(synced) <= Limit
  /\ mark \in 0..MaxRows
  /\ read \in Seq(1..MaxRows)
  /\ now \in 0..MaxTime

(* A device that the registry lists is connected, by whichever object, however
   their lives overlap and however late a reboot comes (connect, disconnect,
   reboot, list_by_type, list_all). *)
RegisteredIsConnected == ListByType \/ ListAll => \E o \in Object : mode[o] = "on"

(* A reader that asks for what comes after the last row it has read gets every
   row that has not been cleaned up before, and none twice, although cleanups
   may empty the table (append, get_since, cleanup). *)
ReaderMissesNothing ==
  /\ \A i, j \in DOMAIN read : i < j => read[i] < read[j]
  /\ \A row \in log : row.seq <= mark => row.seq \in Range(read)

(* A gateway whose log has the published root holds the messages the root was
   made of, and no others, although it may hold the last one twice (_build). *)
RootTellsMessages == RootHash(held) = RootHash(synced) => Range(held) = Range(synced)

(* A gateway that has missed only the newest messages is sent exactly those
   (compute_diff). *)
DiffCompletes ==
  IsPrefix(held, GetAll)
    => held \o ComputeDiff(GetAll, RootHash(held), Len(held)) = GetAll
==============================================================================
