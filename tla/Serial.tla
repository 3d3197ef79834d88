------------------------------- MODULE Serial -------------------------------
(***************************************************************************)
(* Serial ports (elab/edf/normal/elab_serial.c) over the simulated RS485   *)
(* bus and port pair (elab/edf/driver/simulator/simu_serial.c): the write  *)
(* under mutex_tx that waits for tx_end, the read with its deadline, the   *)
(* half duplex transfer, the receiving thread of each port, and the        *)
(* driver's write into the ports at the other end.                         *)
(*                                                                         *)
(* The ports are open throughout.  A message queue is a bounded sequence,  *)
(* which is what MessageQueue implements until an empty queue is polled:   *)
(* the model stops there (astray), as it does at a failed assertion.       *)
(***************************************************************************)
EXTENDS Integers, Sequences, FiniteSets

CONSTANTS
  Port,
  Targets,     \* the ports a write on a port is delivered to: slave[] or partner
  HalfDuplex,  \* the ports with attr.mode ELAB_SERIAL_MODE_HALF_DUPLEX
  User,        \* the threads that call elab_serial_write, _read and _xfer
  PortOf,      \* the port each of them uses
  Writer, Reader, Transferrer,  \* which of the three calls it makes
  Timeouts,    \* of each one's reads: "forever", "timed" (neither 0 nor forever), "poll" (0)
  Size,        \* bytes in a write, and asked for by a read
  WireSize,    \* SIMU_SERIAL_BUFFER_MAX
  RxSize,      \* attr.rx_bufsz
  Tested,      \* the ports that a tester may put into test mode
  None

Byte == User \X (1 .. Size)   \* the i-th byte of a write of a thread

ASSUME SerialAssumption ==
  /\ Targets \in [Port -> Seq(Port) \ {<<>>}]
  /\ \A p \in Port : \A k \in 1 .. Len(Targets[p]) : Targets[p][k] # p
  /\ HalfDuplex \subseteq Port
  /\ PortOf \in [User -> Port]
  /\ Writer \cup Reader \cup Transferrer \subseteq User
  /\ \A t \in Transferrer : PortOf[t] \in HalfDuplex
  /\ Timeouts \in [User -> SUBSET {"forever", "timed", "poll"}]
  /\ {Size, WireSize, RxSize} \subseteq Nat \ {0}
  /\ Tested \subseteq Port
  /\ None \notin User \cup Byte

VARIABLES
  mutex_tx,    \* serial->mutex_tx: its holder
  sem_tx,      \* serial->sem_tx
  tx,          \* what set_tx last told the driver
  bus,         \* simu_serial->mutex: its holder
  wire,        \* simu_serial->queue_rx
  queue_rx,    \* serial->queue_rx
  rx,          \* where the receiving thread is
  data,        \* the byte it has in its hand
  test,        \* elab_device_is_test_mode
  at,          \* the call a thread is in, and where in it
  last,        \* history: the byte that was last read from a port
  astray,      \* history: an empty queue was polled
  halted       \* an assertion failed

txVars  == <<mutex_tx, sem_tx, tx>>
rxVars  == <<wire, queue_rx, rx, data>>
endVars == <<astray, halted>>
vars == <<txVars, bus, rxVars, test, at, last, endVars>>

Running == ~astray /\ ~halted
Idle == [op |-> "idle"]

-----------------------------------------------------------------------------
Init ==
  /\ mutex_tx = [p \in Port |-> None]
  /\ sem_tx = [p \in Port |-> 0]
  /\ tx = [p \in Port |-> FALSE]
  /\ bus = [p \in Port |-> None]
  /\ wire = [p \in Port |-> <<>>] /\ queue_rx = [p \in Port |-> <<>>]
  /\ rx = [p \in Port |-> "check"] /\ data = [p \in Port |-> None]
  /\ test = [p \in Port |-> FALSE]
  /\ at = [t \in User |-> Idle]
  /\ last = [p \in Port |-> None]
  /\ astray = FALSE /\ halted = FALSE

In(t, op)  == Running /\ at[t].op = op
Goto(t, op) == at' = [at EXCEPT ![t].op = op]
Return(t)   == at' = [at EXCEPT ![t] = Idle]

-----------------------------------------------------------------------------
(* elab_serial_write, by itself or as the first half of elab_serial_xfer   *)
(* (reply is then the timeout of the transfer).  In test mode it returns   *)
(* without having done anything.                                           *)
CallWrite(t, reply) ==
  /\ In(t, "idle") /\ ~test[PortOf[t]]
  /\ at' = [at EXCEPT ![t] = [op |-> "write.lock", reply |-> reply]]
  /\ UNCHANGED <<txVars, bus, rxVars, test, last, endVars>>

(* Mutant: the port is not locked. *)
WriteLockNothing(t) ==
  LET p == PortOf[t]
  IN  /\ In(t, "write.lock")
      /\ mutex_tx' = mutex_tx
      /\ tx' = [tx EXCEPT ![p] = p \in HalfDuplex]
      /\ Goto(t, "bus.own")
      /\ UNCHANGED <<sem_tx, bus, rxVars, test, last, endVars>>

WriteLock(t) ==
  LET p == PortOf[t]
  IN  /\ In(t, "write.lock") /\ mutex_tx[p] = None
      /\ mutex_tx' = [mutex_tx EXCEPT ![p] = t]
      /\ tx' = [tx EXCEPT ![p] = p \in HalfDuplex]
      /\ Goto(t, "bus.own")
      /\ UNCHANGED <<sem_tx, bus, rxVars, test, last, endVars>>

(* The driver's write: it holds its own mutex while it takes the mutex of  *)
(* every port at the other end in turn and fills that port's queue.  At    *)
(* the end it calls elab_serial_tx_end.                                    *)
BusOwn(t) ==
  LET p == PortOf[t]
  IN  /\ In(t, "bus.own") /\ bus[p] = None
      /\ bus' = [bus EXCEPT ![p] = t]
      /\ at' = [at EXCEPT ![t] = [op |-> "bus.target", k |-> 1, reply |-> at[t].reply]]
      /\ UNCHANGED <<txVars, rxVars, test, last, endVars>>

TargetOf(t) == Targets[PortOf[t]][at[t].k]

(* Mutant: the mutex of the other end is not taken. *)
BusTargetUnlocked(t) ==
  /\ In(t, "bus.target")
  /\ bus' = bus
  /\ at' = [at EXCEPT ![t] = [op |-> "bus.put", k |-> at[t].k, i |-> 1, reply |-> at[t].reply]]
  /\ UNCHANGED <<txVars, rxVars, test, last, endVars>>

BusTarget(t) ==
  /\ In(t, "bus.target") /\ bus[TargetOf(t)] = None
  /\ bus' = [bus EXCEPT ![TargetOf(t)] = t]
  /\ at' = [at EXCEPT ![t] = [op |-> "bus.put", k |-> at[t].k, i |-> 1, reply |-> at[t].reply]]
  /\ UNCHANGED <<txVars, rxVars, test, last, endVars>>

(* Mutant: elab_serial_tx_end is called for every port written to. *)
BusPutEndsEach(t) ==
  LET p == PortOf[t]
      q == TargetOf(t)
  IN  /\ In(t, "bus.put") /\ Len(wire[q]) < WireSize
      /\ wire' = [wire EXCEPT ![q] = Append(@, <<t, at[t].i>>)]
      /\ sem_tx' = [sem_tx EXCEPT ![p] = @ + IF at[t].i = Size THEN 1 ELSE 0]
      /\ \/ /\ at[t].i < Size
            /\ at' = [at EXCEPT ![t].i = @ + 1]
            /\ bus' = bus
         \/ /\ at[t].i = Size /\ at[t].k < Len(Targets[p])
            /\ at' = [at EXCEPT ![t] = [op |-> "bus.target", k |-> at[t].k + 1, reply |-> at[t].reply]]
            /\ bus' = [bus EXCEPT ![q] = None]
         \/ /\ at[t].i = Size /\ at[t].k = Len(Targets[p])
            /\ at' = [at EXCEPT ![t] = [op |-> "write.wait", reply |-> at[t].reply]]
            /\ bus' = [bus EXCEPT ![q] = None, ![p] = None]
      /\ UNCHANGED <<mutex_tx, tx, queue_rx, rx, data, test, last, endVars>>

(* Mutant: the driver never calls elab_serial_tx_end. *)
BusPutEndsNever(t) ==
  LET p == PortOf[t]
      q == TargetOf(t)
  IN  /\ In(t, "bus.put") /\ Len(wire[q]) < WireSize /\ at[t].i = Size /\ at[t].k = Len(Targets[p])
      /\ wire' = [wire EXCEPT ![q] = Append(@, <<t, at[t].i>>)]
      /\ at' = [at EXCEPT ![t] = [op |-> "write.wait", reply |-> at[t].reply]]
      /\ bus' = [bus EXCEPT ![q] = None, ![p] = None]
      /\ UNCHANGED <<txVars, queue_rx, rx, data, test, last, endVars>>

BusPut(t) ==
  LET p == PortOf[t]
      q == TargetOf(t)
  IN  /\ In(t, "bus.put") /\ Len(wire[q]) < WireSize
      /\ wire' = [wire EXCEPT ![q] = Append(@, <<t, at[t].i>>)]
      /\ \/ /\ at[t].i < Size
            /\ at' = [at EXCEPT ![t].i = @ + 1]
            /\ UNCHANGED <<bus, sem_tx>>
         \/ /\ at[t].i = Size /\ at[t].k < Len(Targets[p])
            /\ at' = [at EXCEPT ![t] = [op |-> "bus.target", k |-> at[t].k + 1, reply |-> at[t].reply]]
            /\ bus' = [bus EXCEPT ![q] = None]
            /\ sem_tx' = sem_tx
         \/ /\ at[t].i = Size /\ at[t].k = Len(Targets[p])
            /\ at' = [at EXCEPT ![t] = [op |-> "write.wait", reply |-> at[t].reply]]
            /\ bus' = [bus EXCEPT ![q] = None, ![p] = None]
            /\ sem_tx' = [sem_tx EXCEPT ![p] = @ + 1]
      /\ UNCHANGED <<mutex_tx, tx, queue_rx, rx, data, test, last, endVars>>

ReadAt(op, n, timeout) == [op |-> op, n |-> n, timeout |-> timeout]

(* The steps of elab_serial_read before it asks the queue for a byte: a    *)
(* timed read looks at the clock first.                                    *)
NextByte(n, timeout) ==
  ReadAt(IF timeout = "timed" THEN "read.deadline" ELSE "read.get", n, timeout)

(* What elab_serial_read does first: in test mode a read without timeout   *)
(* waits for the normal mode and any other one returns after a delay.      *)
ReadEntry(t, timeout) ==
  IF ~test[PortOf[t]] THEN NextByte(0, timeout)
  ELSE IF timeout = "forever" THEN ReadAt("read.test", 0, timeout)
  ELSE Idle

(* elab_serial_xfer between its write and its read: it gives up when its   *)
(* timeout has passed, else it reads for as long as the write has taken,   *)
(* which may be 0.                                                         *)
ReadTimeouts(reply) == IF reply = "timed" THEN {"none", "timed", "poll"} ELSE {reply}

AfterWrite(t, reply) ==
  {IF r = "none" THEN Idle ELSE ReadEntry(t, r) : r \in ReadTimeouts(reply)}

WriteWait(t) ==
  LET p == PortOf[t]
  IN  /\ In(t, "write.wait") /\ sem_tx[p] > 0
      /\ sem_tx' = [sem_tx EXCEPT ![p] = @ - 1]
      /\ tx' = [tx EXCEPT ![p] = FALSE]
      /\ mutex_tx' = [mutex_tx EXCEPT ![p] = None]
      /\ \E a \in AfterWrite(t, at[t].reply) : at' = [at EXCEPT ![t] = a]
      /\ UNCHANGED <<bus, rxVars, test, last, endVars>>

-----------------------------------------------------------------------------
(* elab_serial_read *)

CallRead(t, timeout) ==
  /\ In(t, "idle") /\ ReadEntry(t, timeout) # Idle
  /\ at' = [at EXCEPT ![t] = ReadEntry(t, timeout)]
  /\ UNCHANGED <<txVars, bus, rxVars, test, last, endVars>>

ReadTest(t) ==
  /\ In(t, "read.test") /\ ~test[PortOf[t]]
  /\ Return(t)
  /\ UNCHANGED <<txVars, bus, rxVars, test, last, endVars>>

(* The first look at the clock: the deadline has passed, or not yet. *)
ReadExpired(t) ==
  /\ In(t, "read.deadline")
  /\ Return(t)
  /\ UNCHANGED <<txVars, bus, rxVars, test, last, endVars>>

ReadInTime(t) ==
  /\ In(t, "read.deadline")
  /\ Goto(t, "read.clock")
  /\ UNCHANGED <<txVars, bus, rxVars, test, last, endVars>>

(* The second look, to compute how long to wait.  By then nothing may be   *)
(* left (0), or the difference has wrapped: to osWaitForever, or to a      *)
(* value that osMessageQueueGet asserts not to get.                        *)
ReadClock(t) ==
  /\ In(t, "read.clock")
  /\ \/ /\ \E time \in {"timed", "poll", "forever"} :
             at' = [at EXCEPT ![t] = [op |-> "read.get", n |-> at[t].n, timeout |-> "timed", time |-> time]]
        /\ UNCHANGED endVars
     \/ halted' = TRUE /\ UNCHANGED <<at, astray>>
  /\ UNCHANGED <<txVars, bus, rxVars, test, last>>

(* The timeout that osMessageQueueGet is called with. *)
WaitOf(t) == IF at[t].timeout = "timed" THEN at[t].time ELSE at[t].timeout

ReadGet(t) ==
  LET p == PortOf[t]
  IN  /\ In(t, "read.get")
      /\ \/ /\ queue_rx[p] # <<>>
            /\ queue_rx' = [queue_rx EXCEPT ![p] = Tail(@)]
            /\ last' = [last EXCEPT ![p] = Head(queue_rx[p])]
            /\ at' = [at EXCEPT ![t] = IF at[t].n + 1 = Size THEN Idle
                                       ELSE NextByte(at[t].n + 1, at[t].timeout)]
            /\ UNCHANGED endVars
         \/ /\ queue_rx[p] = <<>> /\ WaitOf(t) = "timed"
            /\ Return(t)
            /\ UNCHANGED <<queue_rx, last, endVars>>
         \/ /\ queue_rx[p] = <<>> /\ WaitOf(t) = "poll"
            /\ astray' = TRUE
            /\ UNCHANGED <<queue_rx, last, at, halted>>
      /\ UNCHANGED <<txVars, bus, wire, rx, data, test>>

-----------------------------------------------------------------------------
(* The receiving thread (_thread_entry).  It looks at the test mode before *)
(* it waits for a byte, and not again.                                     *)
RxCheck(p) ==
  /\ Running /\ rx[p] = "check" /\ ~test[p]
  /\ rx' = [rx EXCEPT ![p] = "read"]
  /\ UNCHANGED <<txVars, bus, wire, queue_rx, data, test, at, last, endVars>>

RxRead(p) ==
  /\ Running /\ rx[p] = "read" /\ wire[p] # <<>>
  /\ data' = [data EXCEPT ![p] = Head(wire[p])]
  /\ wire' = [wire EXCEPT ![p] = Tail(@)]
  /\ rx' = [rx EXCEPT ![p] = "put"]
  /\ UNCHANGED <<txVars, bus, queue_rx, test, at, last, endVars>>

RxPut(p) ==
  /\ Running /\ rx[p] = "put" /\ Len(queue_rx[p]) < RxSize
  /\ queue_rx' = [queue_rx EXCEPT ![p] = Append(@, data[p])]
  /\ data' = [data EXCEPT ![p] = None]
  /\ rx' = [rx EXCEPT ![p] = "check"]
  /\ UNCHANGED <<txVars, bus, wire, test, at, last, endVars>>

(* elab_device_set_test_mode and elab_device_set_normal_mode, by a tester. *)
SetTestMode(p) ==
  /\ Running /\ p \in Tested /\ ~test[p]
  /\ test' = [test EXCEPT ![p] = TRUE]
  /\ UNCHANGED <<txVars, bus, rxVars, at, last, endVars>>

SetNormalMode(p) ==
  /\ Running /\ test[p]
  /\ test' = [test EXCEPT ![p] = FALSE]
  /\ UNCHANGED <<txVars, bus, rxVars, at, last, endVars>>

-----------------------------------------------------------------------------
Call(t) ==
  \/ t \in Writer /\ CallWrite(t, "none")
  \/ t \in Transferrer /\ \E timeout \in Timeouts[t] : CallWrite(t, timeout)
  \/ t \in Reader /\ \E timeout \in Timeouts[t] : CallRead(t, timeout)

Step(t) ==
  \/ WriteLock(t) \/ BusOwn(t) \/ BusTarget(t) \/ BusPut(t) \/ WriteWait(t)
  \/ ReadTest(t) \/ ReadExpired(t) \/ ReadInTime(t) \/ ReadClock(t) \/ ReadGet(t)

RxStep(p) == RxCheck(p) \/ RxRead(p) \/ RxPut(p)

Next ==
  \/ \E t \in User : Call(t) \/ Step(t)
  \/ \E p \in Port : RxStep(p) \/ SetTestMode(p) \/ SetNormalMode(p)

Spec == Init /\ [][Next]_vars

(* Every thread is scheduled, a writer comes into a mutex that is free for *)
(* it again and again, the readers keep reading, and a port in test mode   *)
(* is given back.                                                          *)
FairSpec ==
  /\ Spec
  /\ \A t \in Writer \cup Transferrer : SF_vars(Step(t))
  /\ \A t \in Reader : WF_vars(Call(t) \/ Step(t))
  /\ \A p \in Port : WF_vars(RxStep(p))
  /\ \A p \in Tested : WF_vars(SetNormalMode(p))

-----------------------------------------------------------------------------
(***************************************************************************)
(* Properties                                                              *)
(***************************************************************************)

Users(p, ops) == {t \in User : PortOf[t] = p /\ at[t].op \in ops}

Reads == {"poll", "timed", "forever"}
Replies == Reads \cup {"none"}

Calls == {Idle}
  \cup [op : {"write.lock", "bus.own", "write.wait"}, reply : Replies]
  \cup [op : {"bus.target"}, k : Nat, reply : Replies]
  \cup [op : {"bus.put"}, k : Nat, i : 1 .. Size, reply : Replies]
  \cup [op : {"read.test", "read.deadline", "read.clock", "read.get"}, n : 0 .. Size - 1, timeout : Reads]
  \cup [op : {"read.get"}, n : 0 .. Size - 1, timeout : {"timed"}, time : Reads]

(* Every variable keeps its range, and no queue holds more than it has     *)
(* room for.                                                               *)
TypeOK ==
  /\ mutex_tx \in [Port -> User \cup {None}] /\ bus \in [Port -> User \cup {None}]
  /\ sem_tx \in [Port -> Nat]
  /\ tx \in [Port -> BOOLEAN] /\ test \in [Port -> BOOLEAN]
  /\ wire \in [Port -> Seq(Byte)] /\ queue_rx \in [Port -> Seq(Byte)]
  /\ \A p \in Port : Len(wire[p]) <= WireSize /\ Len(queue_rx[p]) <= RxSize
  /\ rx \in [Port -> {"check", "read", "put"}]
  /\ data \in [Port -> Byte \cup {None}] /\ last \in [Port -> Byte \cup {None}]
  /\ at \in [User -> Calls]
  /\ astray \in BOOLEAN /\ halted \in BOOLEAN

(* The bytes on their way to the readers of a port, from the one that was  *)
(* read last to the one that was sent last.                                *)
Some(b) == IF b = None THEN <<>> ELSE <<b>>
Stream(p) == Some(last[p]) \o queue_rx[p] \o Some(data[p]) \o wire[p]

(* A byte that a byte of a write may be followed by. *)
Follows(b, c) == IF b[2] < Size THEN c = <<b[1], b[2] + 1>> ELSE c[2] = 1

(* elab_serial_write / simu_serial _write / _thread_entry: the writes of   *)
(* all threads and ports that send to a port arrive there one behind the   *)
(* other, each whole and in order, through two queues and a thread that    *)
(* may lag behind; the last one may be incomplete only while its sender is *)
(* still in the driver's write to that port.                               *)
WritesStayWhole ==
  \A p \in Port :
    LET bytes  == Stream(p)
        newest == bytes[Len(bytes)]
        writer == newest[1]
    IN  /\ \A j \in 1 .. Len(bytes) - 1 : Follows(bytes[j], bytes[j + 1])
        /\ bytes # <<>> /\ newest[2] < Size =>
             at[writer].op = "bus.put" /\ TargetOf(writer) = p /\ at[writer].i = newest[2] + 1

Sending == {"bus.own", "bus.target", "bus.put", "write.wait"}

(* elab_serial_write: a half duplex port is switched to sending exactly    *)
(* while one thread, and only one, is between set_tx(true) and             *)
(* set_tx(false): no write ends the transmission of another one.           *)
OneSenderAtATime ==
  \A p \in Port :
    /\ Cardinality(Users(p, Sending)) = IF mutex_tx[p] = None THEN 0 ELSE 1
    /\ p \in HalfDuplex => (tx[p] <=> Users(p, Sending) # {})

(* elab_serial_tx_end: a write returns on its own end of transmission, no  *)
(* permit is ever left over for the next one.                              *)
TxEndIsOwn == \A p \in Port : sem_tx[p] = Cardinality(Users(p, {"write.wait"}))

(* Two threads that hold the mutex of their own end of the bus and wait    *)
(* for each other's.                                                       *)
Crossed ==
  \E t, u \in User :
    /\ at[t].op = "bus.target" /\ bus[TargetOf(t)] = u
    /\ at[u].op = "bus.target" /\ bus[TargetOf(u)] = t

Writing(t) == at[t].op \in {"write.lock"} \cup Sending

(* elab_serial_write returns, though it waits for two or more mutexes, for *)
(* room in the queue of the other end and for its tx_end, if the ports are *)
(* read; the one exception are two ends of a bus that wait for each other. *)
WriteEnds == \A t \in Writer \cup Transferrer : Writing(t) ~> (~Writing(t) \/ Crossed \/ ~Running)

(* What a test of the source claims.                                       *)
(* A read with a timeout of some milliseconds ends, with ELAB_ERR_TIMEOUT  *)
(* if nothing is received.                                                 *)
TimedRead(t) == at[t].op \in {"read.deadline", "read.clock", "read.get"} /\ at[t].timeout = "timed"
TimedReadEnds == \A t \in User : TimedRead(t) ~> (~TimedRead(t) \/ ~Running)
=============================================================================
