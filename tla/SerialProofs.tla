---------------------------- MODULE SerialProofs ----------------------------
(***************************************************************************)
(* Machine-checked proofs about Serial, for every number of ports, every   *)
(* bus that connects them, any threads, and any size of writes and queues. *)
(***************************************************************************)
EXTENDS Serial, FiniteSetTheorems, SequenceTheorems, TLAPS

-----------------------------------------------------------------------------
(* The inductive invariant.                                                *)

(* Who is between set_tx(TRUE) and set_tx(FALSE) holds mutex_tx of the     *)
(* port, and the mutex is held by nobody else; the driver has been told so *)
(* of a half duplex port, and there is a permit exactly if the holder is   *)
(* about to take it.                                                       *)
Ends(p) == mutex_tx[p] # None /\ at[mutex_tx[p]].op = "write.wait"

SenderInv ==
  /\ \A t \in User : at[t].op \in Sending => mutex_tx[PortOf[t]] = t
  /\ \A p \in Port :
       /\ mutex_tx[p] # None => PortOf[mutex_tx[p]] = p /\ at[mutex_tx[p]].op \in Sending
       /\ tx[p] <=> p \in HalfDuplex /\ mutex_tx[p] # None
       /\ sem_tx[p] = IF Ends(p) THEN 1 ELSE 0

(* A thread in the driver holds the mutex of its own end, and while it     *)
(* puts bytes that of the other end too.                                   *)
BusInv ==
  \A t \in User :
    /\ at[t].op \in {"bus.target", "bus.put"} =>
         bus[PortOf[t]] = t /\ at[t].k \in 1 .. Len(Targets[PortOf[t]])
    /\ at[t].op = "bus.put" => bus[TargetOf(t)] = t

(* The receiving thread has a byte in its hand exactly when it is about to *)
(* put it into the port's queue.                                           *)
RxInv == \A p \in Port : (rx[p] = "put") <=> (data[p] # None)

(* Bytes follow each other as those of whole writes do; only the newest    *)
(* one may be in the middle of a write, and then its sender is about to    *)
(* put the next one.                                                       *)
Newest(s) == s[Len(s)]

Chain(s) == \A j \in 1 .. Len(s) - 1 : Follows(s[j], s[j + 1])

Unfinished(p, b) ==
  b[2] < Size => /\ at[b[1]].op = "bus.put" /\ TargetOf(b[1]) = p
                 /\ at[b[1]].i = b[2] + 1

StreamInv ==
  \A p \in Port : /\ Chain(Stream(p))
                  /\ Stream(p) # <<>> => Unfinished(p, Newest(Stream(p)))

(* And a thread that has put some of its bytes put the newest one.         *)
PutInv ==
  \A t \in User, p \in Port :
    at[t].op = "bus.put" /\ at[t].i > 1 /\ TargetOf(t) = p =>
      Stream(p) # <<>> /\ Newest(Stream(p)) = <<t, at[t].i - 1>>

SerialInv == TypeOK /\ SenderInv /\ BusInv /\ RxInv /\ StreamInv /\ PutInv

-----------------------------------------------------------------------------
(* The constants. *)

LEMMA Constants ==
  /\ Size \in Nat \ {0} /\ WireSize \in Nat \ {0} /\ RxSize \in Nat \ {0}
  /\ None \notin User /\ None \notin Byte
  /\ \A t \in User : PortOf[t] \in Port
BY SerialAssumption

LEMMA TargetIsOther ==
  ASSUME NEW p \in Port, NEW k \in 1 .. Len(Targets[p])
  PROVE  Targets[p][k] \in Port /\ Targets[p][k] # p
<1>1. Targets \in [Port -> Seq(Port) \ {<<>>}]
  BY SerialAssumption
<1>2. Targets[p] \in Seq(Port)
  BY <1>1
<1>3. Targets[p][k] \in Port
  BY <1>2, ElementOfSeq
<1>4. \A q \in Port : \A j \in 1 .. Len(Targets[q]) : Targets[q][j] # q
  BY SerialAssumption
<1> QED BY <1>3, <1>4

LEMMA HasTarget ==
  ASSUME NEW p \in Port
  PROVE  1 \in 1 .. Len(Targets[p]) /\ Len(Targets[p]) \in Nat
<1>1. Targets \in [Port -> Seq(Port) \ {<<>>}]
  BY SerialAssumption
<1>2. Targets[p] \in Seq(Port) /\ Targets[p] # <<>>
  BY <1>1
<1> QED BY <1>2, EmptySeq

-----------------------------------------------------------------------------
(* The places of a call. *)

LEMMA Places ==
  ASSUME NEW c \in Calls
  PROVE  /\ c.op \in {"write.lock", "bus.own", "write.wait"} =>
              c = [op |-> c.op, reply |-> c.reply] /\ c.reply \in Replies
         /\ c.op = "bus.target" => c.k \in Nat /\ c.reply \in Replies
         /\ c.op = "bus.put" =>
              c = [op |-> "bus.put", k |-> c.k, i |-> c.i, reply |-> c.reply]
              /\ c.k \in Nat /\ c.i \in 1 .. Size /\ c.reply \in Replies
         /\ c.op \in {"read.deadline", "read.clock"} =>
              c = [op |-> c.op, n |-> c.n, timeout |-> c.timeout]
         /\ c.op \in {"read.deadline", "read.clock", "read.get"} =>
              c.n \in 0 .. Size - 1 /\ c.timeout \in Reads
<1>1. CASE c = Idle
  BY <1>1 DEF Idle
<1>2. CASE c \in [op : {"write.lock", "bus.own", "write.wait"}, reply : Replies]
  BY <1>2
<1>3. CASE c \in [op : {"bus.target"}, k : Nat, reply : Replies]
  BY <1>3
<1>4. CASE c \in [op : {"bus.put"}, k : Nat, i : 1 .. Size, reply : Replies]
  BY <1>4
<1>5. CASE c \in [op : {"read.test", "read.deadline", "read.clock", "read.get"},
                  n : 0 .. Size - 1, timeout : Reads]
  BY <1>5
<1>6. CASE c \in [op : {"read.get"}, n : 0 .. Size - 1, timeout : {"timed"}, time : Reads]
  BY <1>6 DEF Reads
<1> QED BY <1>1, <1>2, <1>3, <1>4, <1>5, <1>6 DEF Calls

LEMMA CallsMade ==
  /\ Idle \in Calls
  /\ \A op \in {"write.lock", "bus.own", "write.wait"}, r \in Replies :
       [op |-> op, reply |-> r] \in Calls
  /\ \A k \in Nat, r \in Replies : [op |-> "bus.target", k |-> k, reply |-> r] \in Calls
  /\ \A k \in Nat, i \in 1 .. Size, r \in Replies :
       [op |-> "bus.put", k |-> k, i |-> i, reply |-> r] \in Calls
  /\ \A op \in {"read.test", "read.deadline", "read.clock", "read.get"}, n \in 0 .. Size - 1,
        timeout \in Reads :
       [op |-> op, n |-> n, timeout |-> timeout] \in Calls
  /\ \A n \in 0 .. Size - 1, time \in Reads :
       [op |-> "read.get", n |-> n, timeout |-> "timed", time |-> time] \in Calls
BY DEF Calls

LEMMA EntryIsCall ==
  ASSUME NEW t \in User, NEW timeout \in Reads
  PROVE  ReadEntry(t, timeout) \in Calls /\ ReadEntry(t, timeout).op \notin Sending
<1>1. 0 \in 0 .. Size - 1
  BY Constants
<1>2. NextByte(0, timeout) \in Calls /\ NextByte(0, timeout).op \notin Sending
  BY <1>1, CallsMade DEF NextByte, ReadAt, Sending
<1>3. ReadAt("read.test", 0, timeout) \in Calls
      /\ ReadAt("read.test", 0, timeout).op \notin Sending
  BY <1>1, CallsMade DEF ReadAt, Sending
<1>4. Idle \in Calls /\ Idle.op \notin Sending
  BY CallsMade DEF Idle, Sending
<1> QED BY <1>2, <1>3, <1>4 DEF ReadEntry

LEMMA NextIsCall ==
  ASSUME NEW n \in 0 .. Size - 1, NEW timeout \in Reads
  PROVE  NextByte(n, timeout) \in Calls /\ NextByte(n, timeout).op \notin Sending
BY CallsMade DEF NextByte, ReadAt, Sending

LEMMA AfterIsCall ==
  ASSUME NEW t \in User, NEW reply \in Replies, NEW c \in AfterWrite(t, reply)
  PROVE  c \in Calls /\ c.op \notin Sending
<1>1. PICK r \in ReadTimeouts(reply) : c = IF r = "none" THEN Idle ELSE ReadEntry(t, r)
  BY DEF AfterWrite
<1>2. r # "none" => r \in Reads
  BY DEF ReadTimeouts, Replies, Reads
<1>3. Idle \in Calls /\ Idle.op \notin Sending
  BY CallsMade DEF Idle, Sending
<1> QED BY <1>1, <1>2, <1>3, EntryIsCall

-----------------------------------------------------------------------------
(* What the steps do, as far as the invariant looks at it.                 *)

(* A call that begins, or a step of a read that takes no byte: only the    *)
(* place of one thread changes, which is in no write.                      *)
Aside(t) ==
  /\ at[t].op \notin Sending
  /\ \E c \in Calls : c.op \notin Sending /\ at' = [at EXCEPT ![t] = c]
  /\ UNCHANGED <<txVars, bus, rxVars, test, last, endVars>>

(* The model stops. *)
Stops ==
  /\ UNCHANGED <<txVars, bus, rxVars, test, at, last>>
  /\ astray' \in BOOLEAN /\ halted' \in BOOLEAN

(* A byte is read. *)
Consumes(t) ==
  LET p == PortOf[t]
  IN  /\ at[t].op \notin Sending /\ queue_rx[p] # <<>>
      /\ \E c \in Calls : c.op \notin Sending /\ at' = [at EXCEPT ![t] = c]
      /\ queue_rx' = [queue_rx EXCEPT ![p] = Tail(@)]
      /\ last' = [last EXCEPT ![p] = Head(queue_rx[p])]
      /\ UNCHANGED <<txVars, bus, wire, rx, data, test, endVars>>

LEMMA CallsAreAside ==
  ASSUME TypeOK, NEW t \in User, Call(t)
  PROVE  Aside(t)
<1>1. /\ \A r \in Replies : [op |-> "write.lock", reply |-> r] \in Calls
      /\ "write.lock" \notin Sending /\ "idle" \notin Sending
  BY CallsMade DEF Sending
<1>2. Timeouts[t] \subseteq Reads /\ Reads \subseteq Replies /\ "none" \in Replies
  BY SerialAssumption DEF Reads, Replies
<1>3. ASSUME NEW r \in Replies, CallWrite(t, r) PROVE Aside(t)
  <2> DEFINE c == [op |-> "write.lock", reply |-> r]
  <2>1. c \in Calls /\ c.op \notin Sending
    BY <1>1
  <2>2. at' = [at EXCEPT ![t] = c] /\ at[t].op \notin Sending
        /\ UNCHANGED <<txVars, bus, rxVars, test, last, endVars>>
    BY <1>1, <1>3 DEF CallWrite, In
  <2> HIDE DEF c
  <2> QED BY <2>1, <2>2 DEF Aside
<1>4. ASSUME NEW r \in Reads, CallRead(t, r) PROVE Aside(t)
  BY <1>1, <1>4, EntryIsCall DEF CallRead, In, Aside
<1> QED BY <1>2, <1>3, <1>4 DEF Call

LEMMA ReadStepsDo ==
  ASSUME TypeOK, NEW t \in User,
         ReadTest(t) \/ ReadExpired(t) \/ ReadInTime(t) \/ ReadClock(t) \/ ReadGet(t)
  PROVE  Aside(t) \/ Stops \/ Consumes(t)
<1>1. at[t] \in Calls /\ astray \in BOOLEAN /\ halted \in BOOLEAN
  BY DEF TypeOK
<1>2. Idle \in Calls /\ Idle.op \notin Sending
  BY CallsMade DEF Idle, Sending
<1>3. CASE ReadTest(t) \/ ReadExpired(t)
  BY <1>2, <1>3 DEF ReadTest, ReadExpired, In, Return, Aside, Sending
<1>4. CASE ReadInTime(t)
  <2> DEFINE c == [op |-> "read.clock", n |-> at[t].n, timeout |-> at[t].timeout]
  <2>1. at[t].op = "read.deadline" /\ at[t].op \notin Sending
    BY <1>4 DEF ReadInTime, In, Sending
  <2>2. c \in Calls /\ c.op \notin Sending
    BY <1>1, <2>1, Places, CallsMade DEF Sending
  <2>3. at[t] = [op |-> "read.deadline", n |-> at[t].n, timeout |-> at[t].timeout]
    BY <1>1, <2>1, Places
  <2>4. [at[t] EXCEPT !.op = "read.clock"] = c
    BY <2>3
  <2>5. at' = [at EXCEPT ![t] = c]
    BY <1>4, <2>4 DEF ReadInTime, Goto, TypeOK
  <2> HIDE DEF c
  <2> QED BY <1>4, <2>1, <2>2, <2>5 DEF ReadInTime, Aside
<1>5. CASE ReadClock(t)
  <2>1. at[t].op = "read.clock" /\ at[t].op \notin Sending
    BY <1>5 DEF ReadClock, In, Sending
  <2>2. at[t].n \in 0 .. Size - 1
    BY <1>1, <2>1, Places
  <2>3. ASSUME NEW time \in {"timed", "poll", "forever"},
               at' = [at EXCEPT ![t] = [op |-> "read.get", n |-> at[t].n, timeout |-> "timed", time |-> time]],
               UNCHANGED <<txVars, bus, rxVars, test, last, endVars>>
        PROVE  Aside(t)
    <3> DEFINE c == [op |-> "read.get", n |-> at[t].n, timeout |-> "timed", time |-> time]
    <3>1. c \in Calls /\ c.op \notin Sending
      BY <2>2, <2>3, CallsMade DEF Sending, Reads
    <3> HIDE DEF c
    <3>2. at' = [at EXCEPT ![t] = c]
      BY <2>3 DEF c
    <3> QED BY <2>1, <2>3, <3>1, <3>2 DEF Aside
  <2>4. ASSUME halted' = TRUE, UNCHANGED <<at, astray>>,
               UNCHANGED <<txVars, bus, rxVars, test, last>>
        PROVE  Stops
    BY <1>1, <2>4 DEF Stops
  <2> QED BY <1>5, <2>3, <2>4 DEF ReadClock
<1>6. CASE ReadGet(t)
  <2>1. at[t].op = "read.get" /\ at[t].op \notin Sending
    BY <1>6 DEF ReadGet, In, Sending
  <2>2. at[t].n \in 0 .. Size - 1 /\ at[t].timeout \in Reads
    BY <1>1, <2>1, Places
  <2> DEFINE p == PortOf[t]
             c == IF at[t].n + 1 = Size THEN Idle ELSE NextByte(at[t].n + 1, at[t].timeout)
  <2>3. c \in Calls /\ c.op \notin Sending
    <3>1. CASE at[t].n + 1 = Size
      BY <1>2, <3>1
    <3>2. CASE at[t].n + 1 # Size
      <4>1. at[t].n + 1 \in 0 .. Size - 1
        BY <2>2, <3>2, Constants
      <4> QED BY <2>2, <3>2, <4>1, NextIsCall
    <3> QED BY <3>1, <3>2
  <2> HIDE DEF c
  <2>4. \/ queue_rx[p] # <<>>
           /\ queue_rx' = [queue_rx EXCEPT ![p] = Tail(@)]
           /\ last' = [last EXCEPT ![p] = Head(queue_rx[p])]
           /\ at' = [at EXCEPT ![t] = c] /\ UNCHANGED endVars
        \/ Return(t) /\ UNCHANGED <<queue_rx, last, endVars>>
        \/ astray' = TRUE /\ UNCHANGED <<queue_rx, last, at, halted>>
    BY <1>6 DEF ReadGet, c
  <2>5. UNCHANGED <<txVars, bus, wire, rx, data, test>>
    BY <1>6 DEF ReadGet
  <2> QED BY <1>1, <1>2, <2>1, <2>3, <2>4, <2>5 DEF Aside, Stops, Consumes, Return, rxVars
<1> QED BY <1>3, <1>4, <1>5, <1>6

(* The three steps of a write before its bytes, and its end. *)
LEMMA LockDoes ==
  ASSUME TypeOK, NEW t \in User, WriteLock(t)
  PROVE  LET c == [op |-> "bus.own", reply |-> at[t].reply]
         IN  at[t].op = "write.lock" /\ c \in Calls /\ at' = [at EXCEPT ![t] = c]
<1>1. at[t] \in Calls /\ at[t].op = "write.lock"
  BY DEF TypeOK, WriteLock, In
<1>2. at[t] = [op |-> "write.lock", reply |-> at[t].reply] /\ at[t].reply \in Replies
  BY <1>1, Places
<1>3. [at[t] EXCEPT !.op = "bus.own"] = [op |-> "bus.own", reply |-> at[t].reply]
  BY <1>2
<1> QED BY <1>1, <1>2, <1>3, CallsMade DEF WriteLock, Goto, TypeOK

LEMMA OwnDoes ==
  ASSUME TypeOK, NEW t \in User, BusOwn(t)
  PROVE  LET c == [op |-> "bus.target", k |-> 1, reply |-> at[t].reply]
         IN  at[t].op = "bus.own" /\ c \in Calls /\ at' = [at EXCEPT ![t] = c]
<1>1. at[t] \in Calls /\ at[t].op = "bus.own"
  BY DEF TypeOK, BusOwn, In
<1>2. at[t].reply \in Replies
  BY <1>1, Places
<1> QED BY <1>1, <1>2, CallsMade DEF BusOwn

LEMMA TargetDoes ==
  ASSUME TypeOK, NEW t \in User, BusTarget(t)
  PROVE  LET c == [op |-> "bus.put", k |-> at[t].k, i |-> 1, reply |-> at[t].reply]
         IN  at[t].op = "bus.target" /\ c \in Calls /\ at' = [at EXCEPT ![t] = c]
<1>1. at[t] \in Calls /\ at[t].op = "bus.target"
  BY DEF TypeOK, BusTarget, In
<1>2. at[t].reply \in Replies /\ at[t].k \in Nat /\ 1 \in 1 .. Size
  BY <1>1, Places, Constants
<1> QED BY <1>1, <1>2, CallsMade DEF BusTarget

(* A byte is put; behind the last one the thread goes on to the next port, *)
(* or it is done.                                                          *)
PutsNext(t) ==
  /\ at[t].i < Size
  /\ LET c == [op |-> "bus.put", k |-> at[t].k, i |-> at[t].i + 1, reply |-> at[t].reply]
     IN  c \in Calls /\ at' = [at EXCEPT ![t] = c]
  /\ UNCHANGED <<bus, sem_tx>>

PutsLast(t) ==
  /\ at[t].i = Size /\ at[t].k < Len(Targets[PortOf[t]])
  /\ LET c == [op |-> "bus.target", k |-> at[t].k + 1, reply |-> at[t].reply]
     IN  c \in Calls /\ at' = [at EXCEPT ![t] = c]
  /\ bus' = [bus EXCEPT ![TargetOf(t)] = None]
  /\ sem_tx' = sem_tx

PutsAll(t) ==
  /\ at[t].i = Size /\ at[t].k = Len(Targets[PortOf[t]])
  /\ LET c == [op |-> "write.wait", reply |-> at[t].reply]
     IN  c \in Calls /\ at' = [at EXCEPT ![t] = c]
  /\ bus' = [bus EXCEPT ![TargetOf(t)] = None, ![PortOf[t]] = None]
  /\ sem_tx' = [sem_tx EXCEPT ![PortOf[t]] = @ + 1]

LEMMA PutDoes ==
  ASSUME TypeOK, NEW t \in User, BusPut(t)
  PROVE  /\ at[t].op = "bus.put" /\ at[t].i \in 1 .. Size /\ at[t].k \in Nat
         /\ PutsNext(t) \/ PutsLast(t) \/ PutsAll(t)
<1>1. at[t] \in Calls /\ at[t].op = "bus.put"
  BY DEF TypeOK, BusPut, In
<1>2. /\ at[t].reply \in Replies /\ at[t].k \in Nat /\ at[t].i \in 1 .. Size
      /\ at[t] = [op |-> "bus.put", k |-> at[t].k, i |-> at[t].i, reply |-> at[t].reply]
  BY <1>1, Places
<1>3. CASE at[t].i < Size /\ at' = [at EXCEPT ![t].i = @ + 1] /\ UNCHANGED <<bus, sem_tx>>
  <2>1. at[t].i + 1 \in 1 .. Size
    BY <1>2, <1>3, Constants
  <2>2. [at[t] EXCEPT !.i = @ + 1]
          = [op |-> "bus.put", k |-> at[t].k, i |-> at[t].i + 1, reply |-> at[t].reply]
    BY <1>2
  <2>3. at' = [at EXCEPT ![t] = [at[t] EXCEPT !.i = @ + 1]]
    BY <1>3 DEF TypeOK
  <2> QED BY <1>1, <1>2, <1>3, <2>1, <2>2, <2>3, CallsMade DEF PutsNext
<1>4. CASE /\ at[t].i = Size /\ at[t].k < Len(Targets[PortOf[t]])
           /\ at' = [at EXCEPT ![t] = [op |-> "bus.target", k |-> at[t].k + 1, reply |-> at[t].reply]]
           /\ bus' = [bus EXCEPT ![TargetOf(t)] = None] /\ sem_tx' = sem_tx
  <2>1. at[t].k + 1 \in Nat
    BY <1>2
  <2>2. [op |-> "bus.target", k |-> at[t].k + 1, reply |-> at[t].reply] \in Calls
    BY <1>2, <2>1, CallsMade
  <2>3. PutsLast(t)
    BY <1>4, <2>2 DEF PutsLast
  <2> QED BY <1>1, <1>2, <2>3
<1>5. CASE /\ at[t].i = Size /\ at[t].k = Len(Targets[PortOf[t]])
           /\ at' = [at EXCEPT ![t] = [op |-> "write.wait", reply |-> at[t].reply]]
           /\ bus' = [bus EXCEPT ![TargetOf(t)] = None, ![PortOf[t]] = None]
           /\ sem_tx' = [sem_tx EXCEPT ![PortOf[t]] = @ + 1]
  BY <1>1, <1>2, <1>5, CallsMade DEF PutsAll
<1> QED BY <1>1, <1>2, <1>3, <1>4, <1>5 DEF BusPut

LEMMA WaitDoes ==
  ASSUME TypeOK, NEW t \in User, WriteWait(t)
  PROVE  /\ at[t].op = "write.wait"
         /\ \E c \in Calls : c.op \notin Sending /\ at' = [at EXCEPT ![t] = c]
<1>1. at[t] \in Calls /\ at[t].op = "write.wait"
  BY DEF TypeOK, WriteWait, In
<1>2. at[t].reply \in Replies
  BY <1>1, Places
<1> QED BY <1>1, <1>2, AfterIsCall DEF WriteWait

(* What is left: the steps of the receiving thread and of a tester.        *)
Tests ==
  /\ test' \in [Port -> BOOLEAN]
  /\ UNCHANGED <<txVars, bus, rxVars, at, last, endVars>>

LEMMA TestsAreTests ==
  ASSUME TypeOK, NEW p \in Port, SetTestMode(p) \/ SetNormalMode(p)
  PROVE  Tests
BY DEF TypeOK, SetTestMode, SetNormalMode, Tests

-----------------------------------------------------------------------------
(* Types. *)

LEMMA AtKeepsType ==
  ASSUME TypeOK, NEW t \in User, NEW c \in Calls, at' = [at EXCEPT ![t] = c]
  PROVE  at' \in [User -> Calls] /\ at'[t] = c /\ \A u \in User \ {t} : at'[u] = at[u]
BY DEF TypeOK

LEMMA TargetInPort ==
  ASSUME NEW t \in User, at[t].k \in 1 .. Len(Targets[PortOf[t]])
  PROVE  TargetOf(t) \in Port /\ TargetOf(t) # PortOf[t]
BY Constants, TargetIsOther DEF TargetOf

LEMMA PutKeepsType ==
  ASSUME TypeOK, BusInv, NEW t \in User, BusPut(t)
  PROVE  TypeOK'
<1> DEFINE q == TargetOf(t)
           b == <<t, at[t].i>>
<1>1. /\ at[t].op = "bus.put" /\ at[t].i \in 1 .. Size
      /\ PutsNext(t) \/ PutsLast(t) \/ PutsAll(t)
  BY PutDoes
<1>2. q \in Port /\ PortOf[t] \in Port
  BY <1>1, TargetInPort, Constants DEF BusInv
<1>3. b \in Byte
  BY <1>1 DEF Byte
<1> HIDE DEF q, b
<1>4. Len(wire[q]) < WireSize /\ wire' = [wire EXCEPT ![q] = Append(@, b)]
      /\ UNCHANGED <<mutex_tx, tx, queue_rx, rx, data, test, last, endVars>>
  BY DEF BusPut, q, b
<1>5. at' \in [User -> Calls]
  BY <1>1, AtKeepsType DEF PutsNext, PutsLast, PutsAll
<1>6. bus' \in [Port -> User \cup {None}] /\ sem_tx' \in [Port -> Nat]
  <2>1. \/ UNCHANGED <<bus, sem_tx>>
        \/ bus' = [bus EXCEPT ![q] = None] /\ sem_tx' = sem_tx
        \/ /\ bus' = [bus EXCEPT ![q] = None, ![PortOf[t]] = None]
           /\ sem_tx' = [sem_tx EXCEPT ![PortOf[t]] = @ + 1]
    BY <1>1 DEF PutsNext, PutsLast, PutsAll, q
  <2>2. bus \in [Port -> User \cup {None}] /\ sem_tx \in [Port -> Nat]
    BY DEF TypeOK
  <2> QED BY <1>2, <2>1, <2>2
<1>7. wire' \in [Port -> Seq(Byte)] /\ \A p \in Port : Len(wire'[p]) <= WireSize
  <2>1. wire \in [Port -> Seq(Byte)] /\ \A p \in Port : Len(wire[p]) <= WireSize
    BY DEF TypeOK
  <2>2. Append(wire[q], b) \in Seq(Byte) /\ Len(Append(wire[q], b)) = Len(wire[q]) + 1
    BY <1>2, <1>3, <2>1, AppendProperties
  <2>3. Len(wire[q]) + 1 <= WireSize
    BY <1>2, <1>4, <2>1, LenProperties, Constants
  <2> QED BY <1>2, <1>4, <2>1, <2>2, <2>3
<1> QED BY <1>4, <1>5, <1>6, <1>7 DEF TypeOK, endVars

LEMMA ConsumesKeepsType ==
  ASSUME TypeOK, NEW t \in User, Consumes(t)
  PROVE  TypeOK'
<1> DEFINE p == PortOf[t]
<1>1. p \in Port
  BY Constants
<1>2. PICK c \in Calls : at' = [at EXCEPT ![t] = c]
  BY DEF Consumes
<1>3. /\ queue_rx[p] # <<>> /\ queue_rx' = [queue_rx EXCEPT ![p] = Tail(@)]
      /\ last' = [last EXCEPT ![p] = Head(queue_rx[p])]
      /\ UNCHANGED <<txVars, bus, wire, rx, data, test, endVars>>
  BY DEF Consumes
<1> HIDE DEF p
<1>4. queue_rx[p] \in Seq(Byte) /\ Len(queue_rx[p]) <= RxSize
  BY <1>1 DEF TypeOK
<1>5. /\ Head(queue_rx[p]) \in Byte /\ Tail(queue_rx[p]) \in Seq(Byte)
      /\ Len(Tail(queue_rx[p])) <= RxSize
  <2>1. /\ Head(queue_rx[p]) \in Byte /\ Tail(queue_rx[p]) \in Seq(Byte)
        /\ Len(Tail(queue_rx[p])) = Len(queue_rx[p]) - 1
    BY <1>3, <1>4, HeadTailProperties
  <2> QED BY <1>4, <2>1, LenProperties, Constants
<1>6. at' \in [User -> Calls]
  BY <1>2, AtKeepsType
<1>7. last' \in [Port -> Byte \cup {None}]
  BY <1>3, <1>5 DEF TypeOK
<1>8. queue_rx' \in [Port -> Seq(Byte)] /\ \A o \in Port : Len(queue_rx'[o]) <= RxSize
  BY <1>1, <1>3, <1>5 DEF TypeOK
<1> QED BY <1>3, <1>6, <1>7, <1>8 DEF TypeOK, txVars, endVars

LEMMA RxKeepsType ==
  ASSUME TypeOK, RxInv, NEW p \in Port, RxStep(p)
  PROVE  TypeOK'
<1>1. CASE RxCheck(p)
  BY <1>1 DEF RxCheck, TypeOK, txVars, endVars
<1>2. CASE RxRead(p)
  <2>1. /\ wire[p] # <<>> /\ wire' = [wire EXCEPT ![p] = Tail(@)]
        /\ data' = [data EXCEPT ![p] = Head(wire[p])] /\ rx' = [rx EXCEPT ![p] = "put"]
        /\ UNCHANGED <<txVars, bus, queue_rx, test, at, last, endVars>>
    BY <1>2 DEF RxRead
  <2>2. wire[p] \in Seq(Byte) /\ Len(wire[p]) <= WireSize
    BY DEF TypeOK
  <2>3. /\ Head(wire[p]) \in Byte /\ Tail(wire[p]) \in Seq(Byte)
        /\ Len(Tail(wire[p])) = Len(wire[p]) - 1
    BY <2>1, <2>2, HeadTailProperties
  <2>4. Len(Tail(wire[p])) <= WireSize
    BY <2>2, <2>3, LenProperties, Constants
  <2>5. wire' \in [Port -> Seq(Byte)] /\ \A o \in Port : Len(wire'[o]) <= WireSize
    BY <2>1, <2>3, <2>4 DEF TypeOK
  <2>6. data' \in [Port -> Byte \cup {None}] /\ rx' \in [Port -> {"check", "read", "put"}]
    BY <2>1, <2>3 DEF TypeOK
  <2> QED BY <2>1, <2>5, <2>6 DEF TypeOK, txVars, endVars
<1>3. CASE RxPut(p)
  <2>1. /\ rx[p] = "put" /\ Len(queue_rx[p]) < RxSize
        /\ queue_rx' = [queue_rx EXCEPT ![p] = Append(@, data[p])]
        /\ data' = [data EXCEPT ![p] = None] /\ rx' = [rx EXCEPT ![p] = "check"]
        /\ UNCHANGED <<txVars, bus, wire, test, at, last, endVars>>
    BY <1>3 DEF RxPut
  <2>2. data[p] \in Byte /\ queue_rx[p] \in Seq(Byte)
    BY <2>1 DEF TypeOK, RxInv
  <2>3. /\ Append(queue_rx[p], data[p]) \in Seq(Byte)
        /\ Len(Append(queue_rx[p], data[p])) = Len(queue_rx[p]) + 1
    BY <2>2, AppendProperties
  <2>4. Len(queue_rx[p]) + 1 <= RxSize
    BY <2>1, <2>2, LenProperties, Constants
  <2>5. queue_rx' \in [Port -> Seq(Byte)] /\ \A o \in Port : Len(queue_rx'[o]) <= RxSize
    BY <2>1, <2>3, <2>4 DEF TypeOK
  <2>6. data' \in [Port -> Byte \cup {None}] /\ rx' \in [Port -> {"check", "read", "put"}]
    BY <2>1 DEF TypeOK
  <2> QED BY <2>1, <2>5, <2>6 DEF TypeOK, txVars, endVars
<1> QED BY <1>1, <1>2, <1>3 DEF RxStep

LEMMA StepKeepsType ==
  ASSUME TypeOK, BusInv, RxInv, [Next]_vars
  PROVE  TypeOK'
<1>1. ASSUME NEW t \in User, Aside(t) PROVE TypeOK'
  <2>1. PICK c \in Calls : at' = [at EXCEPT ![t] = c]
    BY <1>1 DEF Aside
  <2>2. at' \in [User -> Calls]
    BY <2>1, AtKeepsType
  <2> QED BY <1>1, <2>2 DEF Aside, TypeOK, txVars, rxVars, endVars
<1>2. CASE Stops
  BY <1>2 DEF Stops, TypeOK, txVars, rxVars
<1>3. ASSUME NEW t \in User, WriteLock(t) PROVE TypeOK'
  <2>1. at' \in [User -> Calls]
    BY <1>3, LockDoes, AtKeepsType
  <2>2. mutex_tx' \in [Port -> User \cup {None}] /\ tx' \in [Port -> BOOLEAN]
    BY <1>3, Constants DEF WriteLock, TypeOK
  <2> QED BY <1>3, <2>1, <2>2 DEF WriteLock, TypeOK, rxVars, endVars
<1>4. ASSUME NEW t \in User, BusOwn(t) PROVE TypeOK'
  <2>1. at' \in [User -> Calls]
    BY <1>4, OwnDoes, AtKeepsType
  <2>2. bus' \in [Port -> User \cup {None}]
    BY <1>4, Constants DEF BusOwn, TypeOK
  <2> QED BY <1>4, <2>1, <2>2 DEF BusOwn, TypeOK, txVars, rxVars, endVars
<1>5. ASSUME NEW t \in User, BusTarget(t) PROVE TypeOK'
  <2>1. at' \in [User -> Calls]
    BY <1>5, TargetDoes, AtKeepsType
  <2>2. bus' \in [Port -> User \cup {None}]
    BY <1>5, Constants DEF BusTarget, TypeOK
  <2> QED BY <1>5, <2>1, <2>2 DEF BusTarget, TypeOK, txVars, rxVars, endVars
<1>6. ASSUME NEW t \in User, WriteWait(t) PROVE TypeOK'
  <2>1. at' \in [User -> Calls]
    BY <1>6, WaitDoes, AtKeepsType
  <2>2. /\ mutex_tx' \in [Port -> User \cup {None}] /\ tx' \in [Port -> BOOLEAN]
        /\ sem_tx' \in [Port -> Nat]
    BY <1>6, Constants DEF WriteWait, TypeOK
  <2> QED BY <1>6, <2>1, <2>2 DEF WriteWait, TypeOK, rxVars, endVars
<1>7. CASE Tests
  BY <1>7 DEF Tests, TypeOK, txVars, rxVars, endVars
<1>8. CASE UNCHANGED vars
  BY <1>8 DEF vars, TypeOK, txVars, rxVars, endVars
<1> QED BY <1>1, <1>2, <1>3, <1>4, <1>5, <1>6, <1>7, <1>8, CallsAreAside, ReadStepsDo,
           PutKeepsType, ConsumesKeepsType, RxKeepsType, TestsAreTests DEF Next, Step

-----------------------------------------------------------------------------
(* One sender at a time. *)

(* A step that keeps a thread where it is as far as SenderInv looks.       *)
LEMMA SenderSame ==
  ASSUME TypeOK, SenderInv, UNCHANGED txVars, NEW t \in User, NEW c \in Calls,
         at' = [at EXCEPT ![t] = c],
         at[t].op \in Sending <=> c.op \in Sending,
         at[t].op = "write.wait" <=> c.op = "write.wait"
  PROVE  SenderInv'
<1>1. at'[t] = c /\ \A u \in User \ {t} : at'[u] = at[u]
  BY AtKeepsType
<1>2. \A u \in User : /\ at'[u].op \in Sending <=> at[u].op \in Sending
                      /\ at'[u].op = "write.wait" <=> at[u].op = "write.wait"
  BY <1>1
<1>3. UNCHANGED <<mutex_tx, sem_tx, tx>>
  BY DEF txVars
<1>4. \A p \in Port : mutex_tx[p] # None => mutex_tx[p] \in User
  BY DEF TypeOK
<1>5. \A p \in Port : Ends(p)' <=> Ends(p)
  BY <1>2, <1>3, <1>4 DEF Ends
<1> QED BY <1>2, <1>3, <1>4, <1>5 DEF SenderInv

LEMMA LockKeepsSender ==
  ASSUME TypeOK, SenderInv, NEW t \in User, WriteLock(t)
  PROVE  SenderInv'
<1> DEFINE p == PortOf[t]
           c == [op |-> "bus.own", reply |-> at[t].reply]
<1>1. at[t].op = "write.lock" /\ c \in Calls /\ at' = [at EXCEPT ![t] = c]
  BY LockDoes
<1>2. c.op = "bus.own" /\ p \in Port
  BY Constants
<1> HIDE DEF p, c
<1>3. /\ mutex_tx[p] = None /\ mutex_tx' = [mutex_tx EXCEPT ![p] = t]
      /\ tx' = [tx EXCEPT ![p] = p \in HalfDuplex] /\ sem_tx' = sem_tx
  BY DEF WriteLock, p
<1>4. at'[t] = c /\ \A u \in User \ {t} : at'[u] = at[u]
  BY <1>1, AtKeepsType
<1>5. mutex_tx \in [Port -> User \cup {None}] /\ tx \in [Port -> BOOLEAN] /\ t # None
  BY Constants DEF TypeOK
<1>6. ASSUME NEW u \in User, at'[u].op \in Sending PROVE mutex_tx'[PortOf[u]] = u
  <2>1. CASE u = t
    BY <1>2, <1>3, <1>5, <2>1 DEF p
  <2>2. CASE u # t
    <3>1. at[u].op \in Sending
      BY <1>4, <1>6, <2>2
    <3>2. mutex_tx[PortOf[u]] = u /\ u # None /\ PortOf[u] \in Port
      BY <3>1, Constants DEF SenderInv
    <3> QED BY <1>3, <1>5, <3>2
  <2> QED BY <2>1, <2>2
<1>7. ASSUME NEW o \in Port
      PROVE  /\ mutex_tx'[o] # None => PortOf[mutex_tx'[o]] = o /\ at'[mutex_tx'[o]].op \in Sending
             /\ tx'[o] <=> o \in HalfDuplex /\ mutex_tx'[o] # None
             /\ sem_tx'[o] = IF Ends(o)' THEN 1 ELSE 0
  <2>1. CASE o = p
    <3>1. mutex_tx'[o] = t /\ (tx'[o] <=> o \in HalfDuplex)
      BY <1>3, <1>5, <2>1
    <3>2. at'[t].op = "bus.own" /\ PortOf[t] = o
      BY <1>2, <1>4, <2>1 DEF p
    <3>3. ~Ends(o)' /\ ~Ends(o)
      BY <1>3, <2>1, <3>1, <3>2 DEF Ends
    <3>4. sem_tx'[o] = 0
      BY <1>3, <3>3 DEF SenderInv
    <3> QED BY <1>5, <3>1, <3>2, <3>3, <3>4 DEF Sending
  <2>2. CASE o # p
    <3>1. mutex_tx'[o] = mutex_tx[o] /\ tx'[o] = tx[o] /\ sem_tx'[o] = sem_tx[o]
      BY <1>3, <1>5, <2>2
    <3>2. mutex_tx[o] # None => mutex_tx[o] # t /\ mutex_tx[o] \in User
      BY <1>5, <2>2 DEF SenderInv, p
    <3>3. mutex_tx[o] # None => at'[mutex_tx[o]] = at[mutex_tx[o]]
      BY <1>4, <3>2
    <3>4. Ends(o)' <=> Ends(o)
      BY <3>1, <3>3 DEF Ends
    <3> QED BY <3>1, <3>3, <3>4 DEF SenderInv
  <2> QED BY <2>1, <2>2
<1> QED BY <1>6, <1>7 DEF SenderInv

(* The last byte has been put: tx_end gives the permit the sender is now   *)
(* waiting for.                                                            *)
LEMMA PutsAllKeepsSender ==
  ASSUME TypeOK, SenderInv, NEW t \in User, at[t].op = "bus.put", PutsAll(t),
         UNCHANGED <<mutex_tx, tx>>
  PROVE  SenderInv'
<1> DEFINE p == PortOf[t]
           c == [op |-> "write.wait", reply |-> at[t].reply]
<1>1. c \in Calls /\ at' = [at EXCEPT ![t] = c] /\ sem_tx' = [sem_tx EXCEPT ![p] = @ + 1]
  BY DEF PutsAll
<1>2. c.op = "write.wait" /\ p \in Port
  BY Constants
<1> HIDE DEF p, c
<1>3. at'[t] = c /\ \A u \in User \ {t} : at'[u] = at[u]
  BY <1>1, AtKeepsType
<1>4. mutex_tx[p] = t /\ t # None
  BY Constants DEF SenderInv, Sending, p
<1>5. \A u \in User : at'[u].op \in Sending <=> at[u].op \in Sending
  BY <1>2, <1>3 DEF Sending
<1>6. ASSUME NEW o \in Port PROVE sem_tx'[o] = IF Ends(o)' THEN 1 ELSE 0
  <2>1. CASE o = p
    <3>1. ~Ends(o) /\ Ends(o)'
      BY <1>2, <1>3, <1>4, <2>1 DEF Ends
    <3>2. sem_tx[o] = 0
      BY <3>1 DEF SenderInv
    <3> QED BY <1>1, <2>1, <3>1, <3>2 DEF TypeOK
  <2>2. CASE o # p
    <3>1. mutex_tx[o] # t
      BY <1>4, <2>2 DEF SenderInv, p
    <3>2. Ends(o)' <=> Ends(o)
      BY <1>3, <3>1 DEF Ends, TypeOK
    <3> QED BY <1>1, <2>2, <3>2 DEF SenderInv, TypeOK
  <2> QED BY <2>1, <2>2
<1>7. \A o \in Port : mutex_tx[o] # None => mutex_tx[o] \in User
  BY DEF TypeOK
<1> QED BY <1>5, <1>6, <1>7 DEF SenderInv

LEMMA WaitKeepsSender ==
  ASSUME TypeOK, SenderInv, NEW t \in User, WriteWait(t)
  PROVE  SenderInv'
<1> DEFINE p == PortOf[t]
<1>1. at[t].op = "write.wait" /\ p \in Port
  BY WaitDoes, Constants
<1>2. PICK c \in Calls : c.op \notin Sending /\ at' = [at EXCEPT ![t] = c]
  BY WaitDoes
<1>3. /\ mutex_tx' = [mutex_tx EXCEPT ![p] = None] /\ tx' = [tx EXCEPT ![p] = FALSE]
      /\ sem_tx' = [sem_tx EXCEPT ![p] = @ - 1]
  BY DEF WriteWait
<1> HIDE DEF p
<1>4. at'[t] = c /\ \A u \in User \ {t} : at'[u] = at[u]
  BY <1>2, AtKeepsType
<1>5. mutex_tx[p] = t /\ t # None
  BY <1>1, Constants DEF SenderInv, Sending, p
<1>6. /\ mutex_tx \in [Port -> User \cup {None}] /\ tx \in [Port -> BOOLEAN]
      /\ sem_tx \in [Port -> Nat]
  BY DEF TypeOK
<1>7. ASSUME NEW u \in User, at'[u].op \in Sending PROVE mutex_tx'[PortOf[u]] = u
  <2>1. u # t /\ at[u].op \in Sending
    BY <1>2, <1>4, <1>7
  <2>2. mutex_tx[PortOf[u]] = u /\ PortOf[u] \in Port
    BY <2>1, Constants DEF SenderInv
  <2> QED BY <1>3, <1>5, <1>6, <2>1, <2>2
<1>8. ASSUME NEW o \in Port
      PROVE  /\ mutex_tx'[o] # None => PortOf[mutex_tx'[o]] = o /\ at'[mutex_tx'[o]].op \in Sending
             /\ tx'[o] <=> o \in HalfDuplex /\ mutex_tx'[o] # None
             /\ sem_tx'[o] = IF Ends(o)' THEN 1 ELSE 0
  <2>1. CASE o = p
    <3>1. Ends(o) /\ sem_tx[o] = 1
      BY <1>1, <1>5, <2>1 DEF Ends, SenderInv
    <3>2. mutex_tx'[o] = None /\ ~tx'[o] /\ sem_tx'[o] = 0
      BY <1>3, <1>6, <2>1, <3>1
    <3> QED BY <3>2 DEF Ends
  <2>2. CASE o # p
    <3>1. mutex_tx'[o] = mutex_tx[o] /\ tx'[o] = tx[o] /\ sem_tx'[o] = sem_tx[o]
      BY <1>3, <1>6, <2>2
    <3>2. mutex_tx[o] # None => mutex_tx[o] # t /\ mutex_tx[o] \in User
      BY <1>6, <2>2 DEF SenderInv, p
    <3>3. mutex_tx[o] # None => at'[mutex_tx[o]] = at[mutex_tx[o]]
      BY <1>4, <3>2
    <3>4. Ends(o)' <=> Ends(o)
      BY <3>1, <3>3 DEF Ends
    <3> QED BY <3>1, <3>3, <3>4 DEF SenderInv
  <2> QED BY <2>1, <2>2
<1> QED BY <1>7, <1>8 DEF SenderInv

LEMMA StepKeepsSender ==
  ASSUME TypeOK, SenderInv, [Next]_vars
  PROVE  SenderInv'
<1>1. ASSUME NEW t \in User, Aside(t) \/ Consumes(t) PROVE SenderInv'
  <2>1. PICK c \in Calls : c.op \notin Sending /\ at' = [at EXCEPT ![t] = c]
    BY <1>1 DEF Aside, Consumes
  <2>2. at[t].op \notin Sending /\ UNCHANGED txVars
    BY <1>1 DEF Aside, Consumes
  <2> QED BY <2>1, <2>2, SenderSame DEF Sending
<1>2. ASSUME UNCHANGED <<txVars, at>> PROVE SenderInv'
  BY <1>2 DEF SenderInv, Ends, txVars
<1>3. ASSUME NEW t \in User, BusOwn(t) PROVE SenderInv'
  <2> DEFINE c == [op |-> "bus.target", k |-> 1, reply |-> at[t].reply]
  <2>1. at[t].op = "bus.own" /\ c \in Calls /\ at' = [at EXCEPT ![t] = c] /\ c.op = "bus.target"
    BY <1>3, OwnDoes
  <2>2. UNCHANGED txVars
    BY <1>3 DEF BusOwn
  <2> HIDE DEF c
  <2> QED BY <2>1, <2>2, SenderSame DEF Sending
<1>4. ASSUME NEW t \in User, BusTarget(t) PROVE SenderInv'
  <2> DEFINE c == [op |-> "bus.put", k |-> at[t].k, i |-> 1, reply |-> at[t].reply]
  <2>1. at[t].op = "bus.target" /\ c \in Calls /\ at' = [at EXCEPT ![t] = c] /\ c.op = "bus.put"
    BY <1>4, TargetDoes
  <2>2. UNCHANGED txVars
    BY <1>4 DEF BusTarget
  <2> HIDE DEF c
  <2> QED BY <2>1, <2>2, SenderSame DEF Sending
<1>5. ASSUME NEW t \in User, BusPut(t) PROVE SenderInv'
  <2>1. at[t].op = "bus.put" /\ UNCHANGED <<mutex_tx, tx>>
    BY <1>5 DEF BusPut, In
  <2>2. CASE PutsNext(t)
    <3> DEFINE c == [op |-> "bus.put", k |-> at[t].k, i |-> at[t].i + 1, reply |-> at[t].reply]
    <3>1. c \in Calls /\ at' = [at EXCEPT ![t] = c] /\ c.op = "bus.put" /\ sem_tx' = sem_tx
      BY <2>2 DEF PutsNext
    <3> HIDE DEF c
    <3> QED BY <2>1, <3>1, SenderSame DEF Sending, txVars
  <2>3. CASE PutsLast(t)
    <3> DEFINE c == [op |-> "bus.target", k |-> at[t].k + 1, reply |-> at[t].reply]
    <3>1. c \in Calls /\ at' = [at EXCEPT ![t] = c] /\ c.op = "bus.target" /\ sem_tx' = sem_tx
      BY <2>3 DEF PutsLast
    <3> HIDE DEF c
    <3> QED BY <2>1, <3>1, SenderSame DEF Sending, txVars
  <2> QED BY <1>5, <2>1, <2>2, <2>3, PutDoes, PutsAllKeepsSender
<1>6. ASSUME NEW p \in Port, RxStep(p) PROVE UNCHANGED <<txVars, at>>
  BY <1>6 DEF RxStep, RxCheck, RxRead, RxPut
<1> QED BY <1>1, <1>2, <1>3, <1>4, <1>5, <1>6, CallsAreAside, ReadStepsDo, LockKeepsSender,
           WaitKeepsSender, TestsAreTests DEF Next, Step, Stops, Tests, vars

-----------------------------------------------------------------------------
(* The mutexes of the driver, and the hand of the receiving thread. *)

InDriver == {"bus.target", "bus.put"}

BusOf(t) ==
  /\ at[t].op \in InDriver => bus[PortOf[t]] = t /\ at[t].k \in 1 .. Len(Targets[PortOf[t]])
  /\ at[t].op = "bus.put" => bus[TargetOf(t)] = t

LEMMA BusInvIs == BusInv <=> \A t \in User : BusOf(t)
BY DEF BusInv, BusOf, InDriver

(* Of the threads a step does not move, each keeps its mutexes if the step *)
(* takes and gives back none of theirs.                                    *)
LEMMA OthersKeepBus ==
  ASSUME TypeOK, BusInv, NEW t \in User, NEW c \in Calls, at' = [at EXCEPT ![t] = c],
         NEW u \in User, u # t,
         \A q \in Port : bus[q] = u => bus'[q] = u
  PROVE  BusOf(u)'
<1>1. at'[u] = at[u]
  BY AtKeepsType
<1>2. TargetOf(u)' = TargetOf(u)
  BY <1>1 DEF TargetOf
<1>3. PortOf[u] \in Port
  BY Constants
<1>4. at[u].op = "bus.put" => TargetOf(u) \in Port
  BY TargetInPort DEF BusInv
<1> QED BY <1>1, <1>2, <1>3, <1>4 DEF BusOf, BusInv, InDriver

LEMMA BusSame ==
  ASSUME TypeOK, BusInv, NEW t \in User, NEW c \in Calls, at' = [at EXCEPT ![t] = c],
         c.op \notin InDriver, bus' = bus
  PROVE  BusInv'
<1>1. at'[t] = c
  BY AtKeepsType
<1>2. BusOf(t)'
  BY <1>1 DEF BusOf, InDriver
<1>3. \A u \in User \ {t} : BusOf(u)'
  BY OthersKeepBus
<1> QED BY <1>2, <1>3, BusInvIs DEF BusInv, BusOf, InDriver

LEMMA OwnKeepsBus ==
  ASSUME TypeOK, BusInv, NEW t \in User, BusOwn(t)
  PROVE  BusInv'
<1> DEFINE c == [op |-> "bus.target", k |-> 1, reply |-> at[t].reply]
<1>1. c \in Calls /\ at' = [at EXCEPT ![t] = c] /\ c.op = "bus.target" /\ c.k = 1
  BY OwnDoes
<1>2. bus[PortOf[t]] = None /\ bus' = [bus EXCEPT ![PortOf[t]] = t] /\ PortOf[t] \in Port
  BY Constants DEF BusOwn
<1> HIDE DEF c
<1>3. at'[t] = c
  BY <1>1, AtKeepsType
<1>4. BusOf(t)'
  BY <1>1, <1>2, <1>3, HasTarget DEF BusOf, InDriver, TypeOK
<1>5. ASSUME NEW u \in User, u # t PROVE BusOf(u)'
  <2>1. \A q \in Port : bus[q] = u => bus'[q] = u
    BY <1>2, <1>5, Constants DEF TypeOK
  <2> QED BY <1>1, <1>5, <2>1, OthersKeepBus
<1> QED BY <1>4, <1>5 DEF BusInv, BusOf, InDriver

LEMMA TargetKeepsBus ==
  ASSUME TypeOK, BusInv, NEW t \in User, BusTarget(t)
  PROVE  BusInv'
<1> DEFINE c == [op |-> "bus.put", k |-> at[t].k, i |-> 1, reply |-> at[t].reply]
           q == TargetOf(t)
<1>1. /\ at[t].op = "bus.target" /\ c \in Calls /\ at' = [at EXCEPT ![t] = c]
      /\ c.op = "bus.put" /\ c.k = at[t].k
  BY TargetDoes
<1>2. bus[PortOf[t]] = t /\ at[t].k \in 1 .. Len(Targets[PortOf[t]])
  BY <1>1 DEF BusInv
<1>3. q \in Port /\ q # PortOf[t]
  BY <1>2, TargetInPort
<1> HIDE DEF c
<1>4. at'[t] = c
  BY <1>1, AtKeepsType
<1>5. TargetOf(t)' = q
  BY <1>1, <1>4 DEF TargetOf
<1> HIDE DEF q
<1>6. bus[q] = None /\ bus' = [bus EXCEPT ![q] = t]
  BY DEF BusTarget, q
<1>7. PortOf[t] \in Port /\ bus'[q] = t /\ bus'[PortOf[t]] = t
  BY <1>2, <1>3, <1>6, Constants DEF TypeOK
<1>8. BusOf(t)'
  BY <1>1, <1>2, <1>4, <1>5, <1>7 DEF BusOf, InDriver
<1>9. ASSUME NEW u \in User, u # t PROVE BusOf(u)'
  <2>1. \A o \in Port : bus[o] = u => bus'[o] = u
    BY <1>3, <1>6, <1>9, Constants DEF TypeOK
  <2> QED BY <1>1, <1>9, <2>1, OthersKeepBus
<1> QED BY <1>8, <1>9 DEF BusInv, BusOf, InDriver

LEMMA PutKeepsBus ==
  ASSUME TypeOK, BusInv, NEW t \in User, BusPut(t)
  PROVE  BusInv'
<1> DEFINE q == TargetOf(t)
           p == PortOf[t]
<1>1. /\ at[t].op = "bus.put" /\ at[t].i \in 1 .. Size /\ at[t].k \in Nat
      /\ PutsNext(t) \/ PutsLast(t) \/ PutsAll(t)
  BY PutDoes
<1>2. /\ bus[p] = t /\ at[t].k \in 1 .. Len(Targets[p]) /\ bus[q] = t
  BY <1>1 DEF BusInv
<1>3. q \in Port /\ p \in Port /\ q # p
  BY <1>2, TargetInPort, Constants
<1>4. CASE PutsNext(t)
  <2> DEFINE c == [op |-> "bus.put", k |-> at[t].k, i |-> at[t].i + 1, reply |-> at[t].reply]
  <2>1. c \in Calls /\ at' = [at EXCEPT ![t] = c] /\ c.op = "bus.put" /\ c.k = at[t].k /\ bus' = bus
    BY <1>4 DEF PutsNext
  <2> HIDE DEF c
  <2>2. at'[t] = c
    BY <2>1, AtKeepsType
  <2>3. TargetOf(t)' = q
    BY <2>1, <2>2 DEF TargetOf
  <2>4. BusOf(t)'
    BY <1>2, <2>1, <2>2, <2>3 DEF BusOf
  <2>5. \A u \in User \ {t} : BusOf(u)'
    BY <2>1, OthersKeepBus
  <2> QED BY <2>4, <2>5 DEF BusInv, BusOf, InDriver
<1>5. CASE PutsLast(t)
  <2> DEFINE c == [op |-> "bus.target", k |-> at[t].k + 1, reply |-> at[t].reply]
  <2>1. c \in Calls /\ at' = [at EXCEPT ![t] = c] /\ c.op = "bus.target" /\ c.k = at[t].k + 1
    BY <1>5 DEF PutsLast
  <2>2. at[t].k < Len(Targets[p]) /\ bus' = [bus EXCEPT ![q] = None]
    BY <1>5 DEF PutsLast
  <2> HIDE DEF c, q, p
  <2>3. at'[t] = c
    BY <2>1, AtKeepsType
  <2>4. at[t].k + 1 \in 1 .. Len(Targets[p]) /\ bus'[p] = t
    BY <1>1, <1>2, <1>3, <2>2, HasTarget DEF TypeOK
  <2>5. BusOf(t)'
    BY <2>1, <2>3, <2>4 DEF BusOf, p
  <2>6. ASSUME NEW u \in User, u # t PROVE BusOf(u)'
    <3>1. \A o \in Port : bus[o] = u => bus'[o] = u
      BY <1>2, <2>2, <2>6 DEF TypeOK
    <3> QED BY <2>1, <2>6, <3>1, OthersKeepBus
  <2> QED BY <2>5, <2>6 DEF BusInv, BusOf, InDriver
<1>6. CASE PutsAll(t)
  <2> DEFINE c == [op |-> "write.wait", reply |-> at[t].reply]
  <2>1. c \in Calls /\ at' = [at EXCEPT ![t] = c] /\ c.op = "write.wait"
    BY <1>6 DEF PutsAll
  <2>2. bus' = [bus EXCEPT ![q] = None, ![p] = None]
    BY <1>6 DEF PutsAll
  <2> HIDE DEF c, q, p
  <2>3. at'[t] = c
    BY <2>1, AtKeepsType
  <2>4. BusOf(t)'
    BY <2>1, <2>3 DEF BusOf, InDriver
  <2>5. ASSUME NEW u \in User, u # t PROVE BusOf(u)'
    <3>1. \A o \in Port : bus[o] = u => bus'[o] = u
      BY <1>2, <1>3, <2>2, <2>5 DEF TypeOK
    <3> QED BY <2>1, <2>5, <3>1, OthersKeepBus
  <2> QED BY <2>4, <2>5 DEF BusInv, BusOf, InDriver
<1> QED BY <1>1, <1>4, <1>5, <1>6

LEMMA StepKeepsBus ==
  ASSUME TypeOK, BusInv, [Next]_vars
  PROVE  BusInv'
<1>1. ASSUME NEW t \in User, Aside(t) \/ Consumes(t) PROVE BusInv'
  <2>1. PICK c \in Calls : c.op \notin Sending /\ at' = [at EXCEPT ![t] = c]
    BY <1>1 DEF Aside, Consumes
  <2>2. bus' = bus
    BY <1>1 DEF Aside, Consumes
  <2> QED BY <2>1, <2>2, BusSame DEF Sending, InDriver
<1>2. ASSUME UNCHANGED <<bus, at>> PROVE BusInv'
  BY <1>2 DEF BusInv, TargetOf
<1>3. ASSUME NEW t \in User, WriteLock(t) PROVE BusInv'
  <2> DEFINE c == [op |-> "bus.own", reply |-> at[t].reply]
  <2>1. c \in Calls /\ at' = [at EXCEPT ![t] = c] /\ c.op = "bus.own"
    BY <1>3, LockDoes
  <2>2. bus' = bus
    BY <1>3 DEF WriteLock
  <2> HIDE DEF c
  <2> QED BY <2>1, <2>2, BusSame DEF InDriver
<1>4. ASSUME NEW t \in User, WriteWait(t) PROVE BusInv'
  <2>1. PICK c \in Calls : c.op \notin Sending /\ at' = [at EXCEPT ![t] = c]
    BY <1>4, WaitDoes
  <2>2. bus' = bus
    BY <1>4 DEF WriteWait
  <2> QED BY <2>1, <2>2, BusSame DEF Sending, InDriver
<1>5. ASSUME NEW p \in Port, RxStep(p) PROVE UNCHANGED <<bus, at>>
  BY <1>5 DEF RxStep, RxCheck, RxRead, RxPut
<1> QED BY <1>1, <1>2, <1>3, <1>4, <1>5, CallsAreAside, ReadStepsDo, OwnKeepsBus, TargetKeepsBus,
           PutKeepsBus, TestsAreTests DEF Next, Step, Stops, Tests, vars

LEMMA StepKeepsHand ==
  ASSUME TypeOK, RxInv, [Next]_vars
  PROVE  RxInv'
<1>1. ASSUME UNCHANGED <<rx, data>> PROVE RxInv'
  BY <1>1 DEF RxInv
<1>2. ASSUME NEW p \in Port, RxStep(p) PROVE RxInv'
  <2>1. CASE RxCheck(p)
    BY <2>1 DEF RxCheck, RxInv, TypeOK
  <2>2. CASE RxRead(p)
    <3>1. Head(wire[p]) \in Byte
      BY <2>2, HeadTailProperties DEF RxRead, TypeOK
    <3> QED BY <2>2, <3>1, Constants DEF RxRead, RxInv, TypeOK
  <2>3. CASE RxPut(p)
    BY <2>3 DEF RxPut, RxInv, TypeOK
  <2> QED BY <1>2, <2>1, <2>2, <2>3 DEF RxStep
<1>3. ASSUME NEW t \in User, Aside(t) \/ Consumes(t) PROVE UNCHANGED <<rx, data>>
  BY <1>3 DEF Aside, Consumes, rxVars
<1>4. ASSUME NEW t \in User, WriteLock(t) \/ BusOwn(t) \/ BusTarget(t) \/ BusPut(t) \/ WriteWait(t)
      PROVE  UNCHANGED <<rx, data>>
  BY <1>4 DEF WriteLock, BusOwn, BusTarget, BusPut, WriteWait, rxVars
<1>5. Stops \/ Tests \/ UNCHANGED vars => UNCHANGED <<rx, data>>
  BY DEF Stops, Tests, vars, rxVars
<1> QED BY <1>1, <1>2, <1>3, <1>4, <1>5, CallsAreAside, ReadStepsDo, TestsAreTests DEF Next, Step

-----------------------------------------------------------------------------
(* Streams of bytes. *)

LEMMA AppendBehind ==
  ASSUME NEW S, NEW x \in Seq(S), NEW w \in Seq(S), NEW b \in S
  PROVE  x \o Append(w, b) = Append(x \o w, b)
<1>1. Append(w, b) = w \o <<b>> /\ <<b>> \in Seq(S)
  BY AppendIsConcat
<1>2. x \o w \in Seq(S)
  BY ConcatProperties
<1>3. Append(x \o w, b) = (x \o w) \o <<b>>
  BY <1>2, AppendIsConcat
<1> QED BY <1>1, <1>3, ConcatAssociative

LEMMA HeadAndTail ==
  ASSUME NEW S, NEW s \in Seq(S), s # <<>>
  PROVE  /\ Head(s) \in S /\ Tail(s) \in Seq(S) /\ <<Head(s)>> \in Seq(S)
         /\ s = <<Head(s)>> \o Tail(s)
<1>1. /\ Head(s) \in S /\ Tail(s) \in Seq(S) /\ Len(Tail(s)) = Len(s) - 1
      /\ \A j \in 1 .. Len(Tail(s)) : Tail(s)[j] = s[j + 1]
  BY HeadTailProperties
<1>2. <<Head(s)>> \in Seq(S) /\ Len(<<Head(s)>>) = 1 /\ <<Head(s)>>[1] = s[1]
  BY <1>1
<1>3. Len(s) \in Nat /\ Len(s) > 0
  BY EmptySeq, LenProperties
<1> DEFINE h == <<Head(s)>>
           r == Tail(s)
<1>4. /\ h \o r \in Seq(S) /\ Len(h \o r) = 1 + Len(r)
      /\ \A j \in 1 .. 1 + Len(r) : (h \o r)[j] = IF j <= 1 THEN h[1] ELSE r[j - 1]
  <2>1. h \in Seq(S) /\ r \in Seq(S) /\ Len(h) = 1
    BY <1>1, <1>2
  <2> HIDE DEF h, r
  <2>2. /\ h \o r \in Seq(S) /\ Len(h \o r) = Len(h) + Len(r)
        /\ \A j \in 1 .. Len(h) + Len(r) : (h \o r)[j] = IF j <= Len(h) THEN h[j] ELSE r[j - Len(h)]
    BY <2>1, ConcatProperties
  <2> QED BY <2>1, <2>2
<1>5. \A j \in 1 .. Len(s) : s[j] = (h \o r)[j]
  <2> TAKE j \in 1 .. Len(s)
  <2>1. CASE j = 1
    BY <1>1, <1>2, <1>3, <1>4, <2>1
  <2>2. CASE j # 1
    <3>1. j - 1 \in 1 .. Len(r) /\ j \in 1 .. 1 + Len(r) /\ ~(j <= 1)
      BY <1>1, <1>3, <2>2
    <3>2. (h \o r)[j] = r[j - 1] /\ r[j - 1] = s[(j - 1) + 1]
      BY <1>1, <1>4, <3>1
    <3> QED BY <1>3, <3>2
  <2> QED BY <2>1, <2>2
<1>6. s = h \o r
  <2>1. Len(s) = Len(h \o r)
    BY <1>1, <1>3, <1>4
  <2> QED BY <1>4, <1>5, <2>1, SeqEqual
<1> QED BY <1>1, <1>2, <1>6

LEMMA SomeIsSeq ==
  ASSUME NEW b \in Byte \cup {None}
  PROVE  Some(b) \in Seq(Byte)
BY DEF Some

LEMMA StreamParts ==
  ASSUME TypeOK, NEW p \in Port
  PROVE  /\ Some(last[p]) \in Seq(Byte) /\ queue_rx[p] \in Seq(Byte)
         /\ Some(data[p]) \in Seq(Byte) /\ wire[p] \in Seq(Byte)
         /\ Some(last[p]) \o queue_rx[p] \in Seq(Byte)
         /\ (Some(last[p]) \o queue_rx[p]) \o Some(data[p]) \in Seq(Byte)
         /\ Stream(p) \in Seq(Byte)
         /\ Stream(p) = ((Some(last[p]) \o queue_rx[p]) \o Some(data[p])) \o wire[p]
<1>1. /\ Some(last[p]) \in Seq(Byte) /\ queue_rx[p] \in Seq(Byte)
      /\ Some(data[p]) \in Seq(Byte) /\ wire[p] \in Seq(Byte)
  BY SomeIsSeq DEF TypeOK
<1>2. Some(last[p]) \o queue_rx[p] \in Seq(Byte)
  BY <1>1, ConcatProperties
<1>3. (Some(last[p]) \o queue_rx[p]) \o Some(data[p]) \in Seq(Byte)
  BY <1>1, <1>2, ConcatProperties
<1>4. ((Some(last[p]) \o queue_rx[p]) \o Some(data[p])) \o wire[p] \in Seq(Byte)
  BY <1>1, <1>3, ConcatProperties
<1> QED BY <1>1, <1>2, <1>3, <1>4 DEF Stream

(* A byte that is put is the newest one of the port it is put to.          *)
LEMMA PutStream ==
  ASSUME TypeOK, NEW t \in User, BusPut(t), NEW q \in Port, q = TargetOf(t)
  PROVE  /\ <<t, at[t].i>> \in Byte
         /\ Stream(q)' = Append(Stream(q), <<t, at[t].i>>)
         /\ \A p \in Port \ {q} : Stream(p)' = Stream(p)
<1> DEFINE b == <<t, at[t].i>>
<1>1. b \in Byte
  BY PutDoes DEF Byte
<1>2. /\ wire' = [wire EXCEPT ![q] = Append(@, b)]
      /\ UNCHANGED <<queue_rx, data, last>>
  BY DEF BusPut
<1> HIDE DEF b
<1>3. wire \in [Port -> Seq(Byte)]
  BY DEF TypeOK
<1>4. \A p \in Port \ {q} : Stream(p)' = Stream(p)
  BY <1>2, <1>3 DEF Stream
<1>5. Stream(q)' = Append(Stream(q), b)
  <2> DEFINE x == (Some(last[q]) \o queue_rx[q]) \o Some(data[q])
  <2>1. Stream(q)' = x \o Append(wire[q], b)
    BY <1>2, <1>3 DEF Stream
  <2>2. x \in Seq(Byte) /\ wire[q] \in Seq(Byte) /\ Stream(q) = x \o wire[q]
    BY StreamParts
  <2> HIDE DEF x
  <2> QED BY <1>1, <2>1, <2>2, AppendBehind
<1> QED BY <1>1, <1>4, <1>5 DEF b

(* The receiving thread only moves bytes on.                               *)
LEMMA RxStream ==
  ASSUME TypeOK, RxInv, NEW q \in Port, RxStep(q)
  PROVE  \A p \in Port : Stream(p)' = Stream(p)
<1>1. CASE RxCheck(q)
  BY <1>1 DEF RxCheck, Stream
<1>2. CASE RxRead(q)
  <2> DEFINE w == wire[q]
             a == Some(last[q]) \o queue_rx[q]
  <2>1. /\ rx[q] = "read" /\ w # <<>> /\ data' = [data EXCEPT ![q] = Head(w)]
        /\ wire' = [wire EXCEPT ![q] = Tail(w)] /\ UNCHANGED <<queue_rx, last>>
    BY <1>2 DEF RxRead
  <2>2. data \in [Port -> Byte \cup {None}] /\ wire \in [Port -> Seq(Byte)]
    BY DEF TypeOK
  <2>3. data[q] = None
    BY <2>1 DEF RxInv
  <2>4. /\ w \in Seq(Byte) /\ a \in Seq(Byte)
        /\ Stream(q) = (a \o Some(data[q])) \o w
    BY StreamParts
  <2>5. Stream(q)' = (a \o Some(data'[q])) \o wire'[q]
    BY <2>1 DEF Stream
  <2>6. \A p \in Port \ {q} : Stream(p)' = Stream(p)
    BY <2>1, <2>2 DEF Stream
  <2>7. data'[q] = Head(w) /\ wire'[q] = Tail(w)
    BY <2>1, <2>2
  <2> HIDE DEF w, a
  <2>8. Head(w) \in Byte /\ Tail(w) \in Seq(Byte) /\ <<Head(w)>> \in Seq(Byte) /\ w = <<Head(w)>> \o Tail(w)
    BY <2>1, <2>4, HeadAndTail
  <2>9. Some(data'[q]) = <<Head(w)>> /\ Some(data[q]) = <<>>
    BY <2>3, <2>7, <2>8, Constants DEF Some
  <2>10. (a \o <<Head(w)>>) \o Tail(w) = a \o w
    BY <2>4, <2>8, ConcatAssociative
  <2>11. a \o <<>> = a
    BY <2>4, ConcatEmptySeq
  <2>12. Stream(q)' = Stream(q)
    BY <2>4, <2>5, <2>7, <2>9, <2>10, <2>11
  <2> QED BY <2>6, <2>12
<1>3. CASE RxPut(q)
  <2> DEFINE w == wire[q]
             a == Some(last[q])
             r == queue_rx[q]
  <2>1. /\ rx[q] = "put" /\ data' = [data EXCEPT ![q] = None]
        /\ queue_rx' = [queue_rx EXCEPT ![q] = Append(r, data[q])] /\ UNCHANGED <<wire, last>>
    BY <1>3 DEF RxPut
  <2>2. data \in [Port -> Byte \cup {None}] /\ queue_rx \in [Port -> Seq(Byte)]
    BY DEF TypeOK
  <2>3. data[q] \in Byte /\ data[q] # None
    BY <2>1, <2>2 DEF RxInv
  <2>4. /\ w \in Seq(Byte) /\ a \in Seq(Byte) /\ r \in Seq(Byte) /\ a \o r \in Seq(Byte)
        /\ Stream(q) = ((a \o r) \o Some(data[q])) \o w
    BY StreamParts
  <2>5. Stream(q)' = ((a \o queue_rx'[q]) \o Some(data'[q])) \o w
    BY <2>1 DEF Stream
  <2>6. \A p \in Port \ {q} : Stream(p)' = Stream(p)
    BY <2>1, <2>2 DEF Stream
  <2>7. data'[q] = None /\ queue_rx'[q] = Append(r, data[q])
    BY <2>1, <2>2
  <2> HIDE DEF w, a, r
  <2>8. Some(data'[q]) = <<>> /\ Some(data[q]) = <<data[q]>>
    BY <2>3, <2>7 DEF Some
  <2>9. a \o Append(r, data[q]) = Append(a \o r, data[q])
    BY <2>3, <2>4, AppendBehind
  <2>10. Append(a \o r, data[q]) = (a \o r) \o <<data[q]>> /\ Append(a \o r, data[q]) \in Seq(Byte)
    BY <2>3, <2>4, AppendIsConcat, AppendProperties
  <2>11. Append(a \o r, data[q]) \o <<>> = Append(a \o r, data[q])
    BY <2>10, ConcatEmptySeq
  <2>12. Stream(q)' = Stream(q)
    BY <2>4, <2>5, <2>7, <2>8, <2>9, <2>10, <2>11
  <2> QED BY <2>6, <2>12
<1> QED BY <1>1, <1>2, <1>3 DEF RxStep

(* A byte that is read falls out of the stream at its old end.             *)
LEMMA ConsumeStream ==
  ASSUME TypeOK, NEW t \in User, Consumes(t), NEW q \in Port, q = PortOf[t]
  PROVE  /\ Some(last[q]) \in Seq(Byte) /\ Stream(q)' \in Seq(Byte)
         /\ Stream(q)' # <<>> /\ Stream(q) = Some(last[q]) \o Stream(q)'
         /\ \A p \in Port \ {q} : Stream(p)' = Stream(p)
<1> DEFINE a == Some(last[q])
           r == queue_rx[q]
           d == Some(data[q])
           w == wire[q]
<1>1. /\ r # <<>> /\ queue_rx' = [queue_rx EXCEPT ![q] = Tail(r)]
      /\ last' = [last EXCEPT ![q] = Head(r)] /\ UNCHANGED <<wire, data>>
  BY DEF Consumes
<1>2. last \in [Port -> Byte \cup {None}] /\ queue_rx \in [Port -> Seq(Byte)]
  BY DEF TypeOK
<1>3. \A p \in Port \ {q} : Stream(p)' = Stream(p)
  BY <1>1, <1>2 DEF Stream
<1>4. Stream(q)' = ((Some(last'[q]) \o queue_rx'[q]) \o d) \o w
  BY <1>1 DEF Stream
<1>5. last'[q] = Head(r) /\ queue_rx'[q] = Tail(r)
  BY <1>1, <1>2
<1>6. a \in Seq(Byte) /\ r \in Seq(Byte) /\ d \in Seq(Byte) /\ w \in Seq(Byte)
  BY StreamParts
<1>6a. Stream(q) = ((a \o r) \o d) \o w
  BY StreamParts
<1> HIDE DEF a, r, d, w
<1>7. Head(r) \in Byte /\ r = <<Head(r)>> \o Tail(r)
  BY <1>1, <1>6, HeadAndTail
<1>8. Some(last'[q]) = <<Head(r)>>
  BY <1>5, <1>7, Constants DEF Some
<1>9. Stream(q)' = (r \o d) \o w
  BY <1>4, <1>5, <1>7, <1>8
<1>10. r \o d \in Seq(Byte) /\ (r \o d) \o w \in Seq(Byte)
  <2>1. r \o d \in Seq(Byte)
    BY <1>6, ConcatProperties
  <2> QED BY <1>6, <2>1, ConcatProperties
<1>11. ((a \o r) \o d) \o w = a \o ((r \o d) \o w)
  <2>1. PICK y \in Seq(Byte) : y = r \o d
    BY <1>10
  <2>2. (a \o r) \o d = a \o y
    BY <1>6, <2>1, ConcatAssociative
  <2>3. (a \o y) \o w = a \o (y \o w)
    BY <1>6, ConcatAssociative
  <2> QED BY <2>1, <2>2, <2>3
<1>12. (r \o d) \o w # <<>>
  <2>1. r \o d # <<>>
    BY <1>1, <1>6, ConcatEqualIffEmpty
  <2> QED BY <1>6, <1>10, <2>1, ConcatEqualIffEmpty
<1> QED BY <1>3, <1>6, <1>9, <1>10, <1>11, <1>12, <1>6a DEF a

-----------------------------------------------------------------------------
(* Writes stay whole. *)

LEMMA ChainAppend ==
  ASSUME NEW s \in Seq(Byte), NEW b \in Byte, Chain(s), s # <<>> => Follows(Newest(s), b)
  PROVE  /\ Append(s, b) # <<>> /\ Newest(Append(s, b)) = b /\ Chain(Append(s, b))
<1> DEFINE r == Append(s, b)
<1>1. /\ r \in Seq(Byte) /\ r # <<>> /\ Len(r) = Len(s) + 1 /\ Len(s) \in Nat
      /\ \A j \in 1 .. Len(s) : r[j] = s[j]
      /\ r[Len(s) + 1] = b
  BY AppendProperties, LenProperties
<1>2. Newest(r) = b
  BY <1>1 DEF Newest
<1>3. ASSUME NEW j \in 1 .. Len(r) - 1 PROVE Follows(r[j], r[j + 1])
  <2>1. j \in 1 .. Len(s) /\ r[j] = s[j]
    BY <1>1
  <2>2. CASE j < Len(s)
    <3>1. j \in 1 .. Len(s) - 1 /\ j + 1 \in 1 .. Len(s)
      BY <1>1, <2>1, <2>2
    <3>2. r[j + 1] = s[j + 1] /\ Follows(s[j], s[j + 1])
      BY <1>1, <3>1 DEF Chain
    <3> QED BY <2>1, <3>2
  <2>3. CASE j = Len(s)
    <3>1. r[j + 1] = b /\ s # <<>> /\ s[j] = Newest(s)
      BY <1>1, <2>1, <2>3, EmptySeq DEF Newest
    <3> QED BY <2>1, <3>1
  <2> QED BY <1>1, <2>1, <2>2, <2>3
<1> QED BY <1>1, <1>2, <1>3 DEF Chain

LEMMA ChainBehind ==
  ASSUME NEW x \in Seq(Byte), NEW y \in Seq(Byte), y # <<>>, Chain(x \o y)
  PROVE  Chain(y) /\ Newest(x \o y) = Newest(y) /\ x \o y # <<>>
<1> DEFINE s == x \o y
           n == Len(x)
<1>1. /\ Len(s) = n + Len(y) /\ n \in Nat /\ Len(y) \in Nat \ {0}
      /\ \A j \in 1 .. n + Len(y) : s[j] = IF j <= n THEN x[j] ELSE y[j - n]
  BY ConcatProperties, LenProperties, EmptySeq
<1>2. \A j \in 1 .. Len(s) - 1 : Follows(s[j], s[j + 1])
  BY DEF Chain
<1>3. s # <<>>
  BY ConcatEqualIffEmpty
<1> HIDE DEF s, n
<1>4. \A j \in 1 .. Len(y) : y[j] = s[n + j]
  BY <1>1
<1>5. ASSUME NEW j \in 1 .. Len(y) - 1 PROVE Follows(y[j], y[j + 1])
  <2>1. /\ n + j \in 1 .. Len(s) - 1 /\ j \in 1 .. Len(y) /\ j + 1 \in 1 .. Len(y)
        /\ n + (j + 1) = (n + j) + 1
    BY <1>1
  <2>2. Follows(s[n + j], s[(n + j) + 1])
    BY <1>2, <2>1
  <2> QED BY <1>4, <2>1, <2>2
<1>6. Newest(s) = Newest(y)
  BY <1>1, <1>4 DEF Newest
<1> QED BY <1>3, <1>5, <1>6 DEF Chain, s

(* A step that puts no byte: it may take the oldest ones of the streams.   *)
LEMMA StreamSame ==
  ASSUME StreamInv, PutInv,
         \A p \in Port : Chain(Stream(p)') /\ (Stream(p)' # <<>> <=> Stream(p) # <<>>),
         \A p \in Port : Stream(p) # <<>> => Newest(Stream(p)') = Newest(Stream(p)),
         \A u \in User : at[u].op = "bus.put" => at'[u] = at[u],
         \A u \in User : at'[u].op = "bus.put" => at'[u] = at[u] \/ at'[u].i = 1,
         \A p \in Port : Stream(p) # <<>> => Newest(Stream(p))[1] \in User
  PROVE  StreamInv' /\ PutInv'
<1>1. ASSUME NEW p \in Port, Stream(p)' # <<>>, NEW n, n = Newest(Stream(p)'), n[2] < Size
      PROVE  at'[n[1]].op = "bus.put" /\ TargetOf(n[1])' = p /\ at'[n[1]].i = n[2] + 1
  <2>1. Stream(p) # <<>> /\ Newest(Stream(p)) = n /\ n[1] \in User
    BY <1>1
  <2>2. n[2] < Size
    BY <1>1
  <2>3. at[n[1]].op = "bus.put" /\ TargetOf(n[1]) = p /\ at[n[1]].i = n[2] + 1
    BY <2>1, <2>2 DEF StreamInv, Unfinished
  <2>4. at'[n[1]] = at[n[1]]
    BY <2>1, <2>3
  <2> QED BY <2>1, <2>3, <2>4 DEF TargetOf
<1>2. StreamInv'
  BY <1>1 DEF StreamInv, Unfinished, Chain, Newest
<1>3. ASSUME NEW u \in User, NEW p \in Port, at'[u].op = "bus.put", at'[u].i > 1, TargetOf(u)' = p
      PROVE  Stream(p)' # <<>> /\ Newest(Stream(p)') = <<u, at'[u].i - 1>>
  <2>1. at'[u] = at[u]
    BY <1>3
  <2>2. at[u].op = "bus.put" /\ at[u].i > 1 /\ TargetOf(u) = p
    BY <1>3, <2>1 DEF TargetOf
  <2>3. Stream(p) # <<>> /\ Newest(Stream(p)) = <<u, at[u].i - 1>>
    BY <2>2 DEF PutInv
  <2> QED BY <2>1, <2>3
<1>4. PutInv'
  BY <1>3 DEF PutInv, Newest
<1> QED BY <1>2, <1>4

LEMMA NewestIsByte ==
  ASSUME TypeOK, NEW p \in Port, Stream(p) # <<>>
  PROVE  /\ Newest(Stream(p)) \in Byte /\ Newest(Stream(p))[1] \in User
         /\ Newest(Stream(p))[2] \in 1 .. Size
<1> DEFINE s == Stream(p)
<1>1. s \in Seq(Byte)
  BY StreamParts
<1> HIDE DEF s
<1>2. Len(s) \in 1 .. Len(s)
  BY <1>1, EmptySeq DEF s
<1>3. s[Len(s)] \in Byte
  BY <1>1, <1>2, ElementOfSeq
<1> QED BY <1>3 DEF Newest, Byte, s

LEMMA PutKeepsStreams ==
  ASSUME TypeOK, BusInv, StreamInv, PutInv, NEW t \in User, BusPut(t)
  PROVE  StreamInv' /\ PutInv'
<1> DEFINE b == <<t, at[t].i>>
<1>1. /\ at[t].op = "bus.put" /\ at[t].i \in 1 .. Size /\ at[t].k \in Nat
      /\ PutsNext(t) \/ PutsLast(t) \/ PutsAll(t)
  BY PutDoes
<1>2. PICK q \in Port : q = TargetOf(t) /\ bus[q] = t
  BY <1>1, TargetInPort DEF BusInv
<1>3. /\ b \in Byte /\ Stream(q)' = Append(Stream(q), b)
      /\ \A p \in Port \ {q} : Stream(p)' = Stream(p)
  BY <1>2, PutStream
<1>4. Stream(q) \in Seq(Byte) /\ Chain(Stream(q))
  BY <1>2, StreamParts DEF StreamInv
<1>5. Stream(q) # <<>> => Follows(Newest(Stream(q)), b)
  <2> SUFFICES ASSUME Stream(q) # <<>> PROVE Follows(Newest(Stream(q)), b)
    OBVIOUS
  <2> DEFINE n == Newest(Stream(q))
  <2>1. n[1] \in User /\ n[2] \in 1 .. Size
    BY <1>2, NewestIsByte
  <2>2. CASE n[2] < Size
    <3>1. at[n[1]].op = "bus.put" /\ TargetOf(n[1]) = q /\ at[n[1]].i = n[2] + 1
      BY <1>2, <2>2 DEF StreamInv, Unfinished
    <3>2. n[1] = t
      BY <1>2, <2>1, <3>1 DEF BusInv
    <3> QED BY <2>2, <3>1, <3>2 DEF Follows
  <2>3. CASE ~(n[2] < Size)
    <3>1. ~(at[t].i > 1)
      <4> SUFFICES ASSUME at[t].i > 1 PROVE FALSE
        OBVIOUS
      <4>1. n = <<t, at[t].i - 1>>
        BY <1>1, <1>2 DEF PutInv
      <4> QED BY <1>1, <2>3, <4>1, Constants
    <3>2. at[t].i = 1
      BY <1>1, <3>1, Constants
    <3> QED BY <2>3, <3>2 DEF Follows
  <2> QED BY <2>2, <2>3
<1> HIDE DEF b
<1>6. Stream(q)' # <<>> /\ Newest(Stream(q)') = b /\ Chain(Stream(q)')
  BY <1>3, <1>4, <1>5, ChainAppend
<1>7. /\ \A u \in User \ {t} : at'[u] = at[u]
      /\ \/ /\ at[t].i < Size /\ at'[t].op = "bus.put" /\ at'[t].k = at[t].k
            /\ at'[t].i = at[t].i + 1
         \/ at[t].i = Size /\ at'[t].op # "bus.put"
  <2>1. CASE PutsNext(t)
    BY <2>1, AtKeepsType DEF PutsNext
  <2>2. CASE PutsLast(t)
    BY <2>2, AtKeepsType DEF PutsLast
  <2>3. CASE PutsAll(t)
    BY <2>3, AtKeepsType DEF PutsAll
  <2> QED BY <1>1, <2>1, <2>2, <2>3
<1>8. \A u \in User \ {t} : TargetOf(u)' = TargetOf(u)
  BY <1>7 DEF TargetOf
<1>9. at'[t].op = "bus.put" => TargetOf(t)' = q
  BY <1>2, <1>7 DEF TargetOf
<1>10. ASSUME NEW p \in Port, NEW n, Stream(p)' # <<>>, n = Newest(Stream(p)'), n[2] < Size
       PROVE  at'[n[1]].op = "bus.put" /\ TargetOf(n[1])' = p /\ at'[n[1]].i = n[2] + 1
  <2>1. CASE p = q
    <3>1. n = b /\ b[1] = t /\ b[2] = at[t].i
      BY <1>6, <1>10, <2>1 DEF b
    <3> QED BY <1>1, <1>7, <1>9, <1>10, <2>1, <3>1, Constants
  <2>2. CASE p # q
    <3>1. Stream(p) # <<>> /\ n = Newest(Stream(p))
      BY <1>3, <1>10, <2>2
    <3>2. n[1] \in User
      BY <3>1, NewestIsByte
    <3>3. at[n[1]].op = "bus.put" /\ TargetOf(n[1]) = p /\ at[n[1]].i = n[2] + 1
      BY <1>10, <3>1 DEF StreamInv, Unfinished
    <3>4. n[1] # t
      BY <1>2, <2>2, <3>3
    <3> QED BY <1>7, <1>8, <3>2, <3>3, <3>4
  <2> QED BY <2>1, <2>2
<1>11. StreamInv'
  <2>1. \A p \in Port : Chain(Stream(p)')
    BY <1>3, <1>6 DEF StreamInv
  <2> QED BY <1>10, <2>1 DEF StreamInv, Unfinished, Chain, Newest
<1>12. ASSUME NEW u \in User, NEW p \in Port, at'[u].op = "bus.put", at'[u].i > 1, TargetOf(u)' = p
       PROVE  Stream(p)' # <<>> /\ Newest(Stream(p)') = <<u, at'[u].i - 1>>
  <2>1. CASE u = t
    <3>1. p = q /\ at'[t].i = at[t].i + 1
      BY <1>7, <1>9, <1>12, <2>1
    <3>2. b = <<t, at'[t].i - 1>>
      BY <1>1, <3>1 DEF b
    <3> QED BY <1>6, <2>1, <3>1, <3>2
  <2>2. CASE u # t
    <3>1. at'[u] = at[u] /\ TargetOf(u) = p
      BY <1>7, <1>8, <1>12, <2>2
    <3>2. bus[p] = u
      BY <1>12, <3>1 DEF BusInv
    <3>3. p # q
      BY <1>2, <2>2, <3>2
    <3>4. Stream(p) # <<>> /\ Newest(Stream(p)) = <<u, at[u].i - 1>>
      BY <1>12, <3>1 DEF PutInv
    <3> QED BY <1>3, <3>1, <3>3, <3>4
  <2> QED BY <2>1, <2>2
<1>13. PutInv'
  BY <1>12 DEF PutInv, Newest
<1> QED BY <1>11, <1>13

LEMMA ConsumesKeepsStreams ==
  ASSUME TypeOK, StreamInv, PutInv, NEW t \in User, Consumes(t)
  PROVE  StreamInv' /\ PutInv'
<1>1. PICK q \in Port : q = PortOf[t]
  BY Constants
<1>2. PICK c \in Calls : c.op \notin Sending /\ at' = [at EXCEPT ![t] = c]
  BY DEF Consumes
<1>3. at[t].op \notin Sending
  BY DEF Consumes
<1>4. at'[t] = c /\ \A u \in User \ {t} : at'[u] = at[u]
  BY <1>2, AtKeepsType
<1>5. /\ Some(last[q]) \in Seq(Byte) /\ Stream(q)' \in Seq(Byte)
      /\ Stream(q)' # <<>> /\ Stream(q) = Some(last[q]) \o Stream(q)'
      /\ \A p \in Port \ {q} : Stream(p)' = Stream(p)
  BY <1>1, ConsumeStream
<1>6. Chain(Stream(q)') /\ Newest(Stream(q)) = Newest(Stream(q)') /\ Stream(q) # <<>>
  BY <1>5, ChainBehind DEF StreamInv
<1>7. \A p \in Port : /\ Chain(Stream(p)') /\ (Stream(p)' # <<>> <=> Stream(p) # <<>>)
                      /\ Stream(p) # <<>> => Newest(Stream(p)') = Newest(Stream(p))
  BY <1>5, <1>6 DEF StreamInv
<1>8. /\ \A u \in User : at[u].op = "bus.put" => at'[u] = at[u]
      /\ \A u \in User : at'[u].op = "bus.put" => at'[u] = at[u] \/ at'[u].i = 1
  BY <1>2, <1>3, <1>4 DEF Sending
<1> QED BY <1>7, <1>8, NewestIsByte, StreamSame

LEMMA StepKeepsStreams ==
  ASSUME TypeOK, BusInv, RxInv, StreamInv, PutInv, [Next]_vars
  PROVE  StreamInv' /\ PutInv'
<1>1. ASSUME \A p \in Port : Stream(p)' = Stream(p),
             \A u \in User : at[u].op = "bus.put" => at'[u] = at[u],
             \A u \in User : at'[u].op = "bus.put" => at'[u] = at[u] \/ at'[u].i = 1
      PROVE  StreamInv' /\ PutInv'
  <2>1. \A p \in Port : /\ Chain(Stream(p)') /\ (Stream(p)' # <<>> <=> Stream(p) # <<>>)
                        /\ Stream(p) # <<>> => Newest(Stream(p)') = Newest(Stream(p))
    BY <1>1 DEF StreamInv
  <2> QED BY <1>1, <2>1, NewestIsByte, StreamSame
<1>2. ASSUME UNCHANGED <<last, queue_rx, data, wire>> PROVE \A p \in Port : Stream(p)' = Stream(p)
  BY <1>2 DEF Stream
<1>3. ASSUME NEW t \in User, NEW c \in Calls, at' = [at EXCEPT ![t] = c],
             at[t].op # "bus.put", c.op = "bus.put" => c.i = 1
      PROVE  /\ \A u \in User : at[u].op = "bus.put" => at'[u] = at[u]
             /\ \A u \in User : at'[u].op = "bus.put" => at'[u] = at[u] \/ at'[u].i = 1
  <2>1. at'[t] = c /\ \A u \in User \ {t} : at'[u] = at[u]
    BY <1>3, AtKeepsType
  <2> QED BY <1>3, <2>1
<1>4. ASSUME NEW t \in User, Aside(t) PROVE StreamInv' /\ PutInv'
  <2>1. PICK c \in Calls : c.op \notin Sending /\ at' = [at EXCEPT ![t] = c]
    BY <1>4 DEF Aside
  <2>2. at[t].op # "bus.put" /\ c.op # "bus.put" /\ UNCHANGED <<last, queue_rx, data, wire>>
    BY <1>4, <2>1 DEF Aside, Sending, rxVars
  <2> QED BY <1>1, <1>2, <1>3, <2>1, <2>2
<1>5. ASSUME UNCHANGED <<at, last, queue_rx, data, wire>> PROVE StreamInv' /\ PutInv'
  BY <1>1, <1>2, <1>5
<1>6. ASSUME NEW t \in User, WriteLock(t) PROVE StreamInv' /\ PutInv'
  <2> DEFINE c == [op |-> "bus.own", reply |-> at[t].reply]
  <2>1. at[t].op = "write.lock" /\ c \in Calls /\ at' = [at EXCEPT ![t] = c] /\ c.op = "bus.own"
    BY <1>6, LockDoes
  <2>2. UNCHANGED <<last, queue_rx, data, wire>>
    BY <1>6 DEF WriteLock, rxVars
  <2> HIDE DEF c
  <2> QED BY <1>1, <1>2, <1>3, <2>1, <2>2
<1>7. ASSUME NEW t \in User, BusOwn(t) PROVE StreamInv' /\ PutInv'
  <2> DEFINE c == [op |-> "bus.target", k |-> 1, reply |-> at[t].reply]
  <2>1. at[t].op = "bus.own" /\ c \in Calls /\ at' = [at EXCEPT ![t] = c] /\ c.op = "bus.target"
    BY <1>7, OwnDoes
  <2>2. UNCHANGED <<last, queue_rx, data, wire>>
    BY <1>7 DEF BusOwn, rxVars
  <2> HIDE DEF c
  <2> QED BY <1>1, <1>2, <1>3, <2>1, <2>2
<1>8. ASSUME NEW t \in User, BusTarget(t) PROVE StreamInv' /\ PutInv'
  <2> DEFINE c == [op |-> "bus.put", k |-> at[t].k, i |-> 1, reply |-> at[t].reply]
  <2>1. at[t].op = "bus.target" /\ c \in Calls /\ at' = [at EXCEPT ![t] = c] /\ c.i = 1
    BY <1>8, TargetDoes
  <2>2. UNCHANGED <<last, queue_rx, data, wire>>
    BY <1>8 DEF BusTarget, rxVars
  <2> HIDE DEF c
  <2> QED BY <1>1, <1>2, <1>3, <2>1, <2>2
<1>9. ASSUME NEW t \in User, WriteWait(t) PROVE StreamInv' /\ PutInv'
  <2>1. at[t].op = "write.wait"
    BY <1>9, WaitDoes
  <2>2. PICK c \in Calls : c.op \notin Sending /\ at' = [at EXCEPT ![t] = c]
    BY <1>9, WaitDoes
  <2>3. c.op # "bus.put" /\ UNCHANGED <<last, queue_rx, data, wire>>
    BY <1>9, <2>2 DEF WriteWait, rxVars, Sending
  <2> QED BY <1>1, <1>2, <1>3, <2>1, <2>2, <2>3
<1>10. ASSUME NEW p \in Port, RxStep(p) PROVE StreamInv' /\ PutInv'
  <2>1. at' = at
    BY <1>10 DEF RxStep, RxCheck, RxRead, RxPut
  <2> QED BY <1>1, <1>10, <2>1, RxStream
<1>11. Stops \/ Tests \/ UNCHANGED vars => UNCHANGED <<at, last, queue_rx, data, wire>>
  BY DEF Stops, Tests, vars, rxVars
<1> QED BY <1>4, <1>5, <1>6, <1>7, <1>8, <1>9, <1>10, <1>11, CallsAreAside, ReadStepsDo,
           PutKeepsStreams, ConsumesKeepsStreams, TestsAreTests DEF Next, Step

-----------------------------------------------------------------------------
(* The invariant, and what it says. *)

LEMMA InitSerial == Init => SerialInv
<1> SUFFICES ASSUME Init PROVE SerialInv
  OBVIOUS
<1>1. \A p \in Port : Stream(p) = <<>>
  <2> TAKE p \in Port
  <2>1. last[p] = None /\ data[p] = None /\ queue_rx[p] = <<>> /\ wire[p] = <<>>
    BY DEF Init
  <2> QED BY <2>1 DEF Stream, Some
<1>2. \A t \in User : at[t] = Idle /\ at[t].op = "idle"
  BY DEF Init, Idle
<1>3. TypeOK
  <2>1. Idle \in Calls /\ <<>> \in Seq(Byte) /\ Len(<<>>) = 0
    BY CallsMade, EmptySeq
  <2>2. 0 <= WireSize /\ 0 <= RxSize
    BY Constants
  <2> QED BY <2>1, <2>2 DEF Init, TypeOK
<1>4. SenderInv
  BY <1>2, Constants DEF Init, SenderInv, Ends, Sending
<1>5. BusInv
  BY <1>2 DEF BusInv
<1>6. RxInv
  BY DEF Init, RxInv
<1>7. StreamInv
  BY <1>1 DEF StreamInv, Chain
<1>8. PutInv
  BY <1>2 DEF PutInv
<1> QED BY <1>3, <1>4, <1>5, <1>6, <1>7, <1>8 DEF SerialInv

(* Every thread that sends holds its port's mutex, every thread in the     *)
(* driver those of the two ends, and the bytes under way form whole        *)
(* writes: the invariant the properties below follow from.                 *)
THEOREM SerialInvariant == Spec => []SerialInv
<1>1. SerialInv /\ [Next]_vars => SerialInv'
  BY StepKeepsType, StepKeepsSender, StepKeepsBus, StepKeepsHand, StepKeepsStreams DEF SerialInv
<1> QED BY <1>1, InitSerial, PTL DEF Spec

(* Every variable keeps its range, and no queue of a port or of the bus    *)
(* holds more than it has room for.                                        *)
THEOREM SerialTypes == Spec => []TypeOK
<1>1. SerialInv => TypeOK
  BY DEF SerialInv
<1> QED BY <1>1, SerialInvariant, PTL

(* elab_serial_write, the driver's _write and _thread_entry: what arrives  *)
(* at a port are whole writes one behind the other, however many threads   *)
(* and ports send to it, whatever sizes the two queues have.               *)
THEOREM SerialWritesStayWhole == Spec => []WritesStayWhole
<1>1. SerialInv => WritesStayWhole
  BY DEF SerialInv, StreamInv, Chain, Newest, Unfinished, WritesStayWhole
<1> QED BY <1>1, SerialInvariant, PTL

(* The threads between set_tx(true) and set_tx(false) of a port.           *)
LEMMA SendersAre ==
  ASSUME TypeOK, SenderInv, NEW p \in Port
  PROVE  /\ Users(p, Sending) = IF mutex_tx[p] = None THEN {} ELSE {mutex_tx[p]}
         /\ Users(p, {"write.wait"}) = IF Ends(p) THEN {mutex_tx[p]} ELSE {}
<1>1. mutex_tx[p] \in User \cup {None} /\ None \notin User
  BY Constants DEF TypeOK
<1>2. ASSUME NEW t \in User PROVE PortOf[t] = p /\ at[t].op \in Sending <=> t = mutex_tx[p]
  BY <1>1, <1>2 DEF SenderInv
<1>3. Users(p, Sending) = IF mutex_tx[p] = None THEN {} ELSE {mutex_tx[p]}
  BY <1>1, <1>2 DEF Users
<1>4. ASSUME NEW t \in User
      PROVE  PortOf[t] = p /\ at[t].op = "write.wait" <=> t = mutex_tx[p] /\ at[t].op = "write.wait"
  BY <1>2, <1>4 DEF Sending
<1>5. Users(p, {"write.wait"}) = IF Ends(p) THEN {mutex_tx[p]} ELSE {}
  BY <1>1, <1>4 DEF Users, Ends
<1> QED BY <1>3, <1>5

(* elab_serial_write: at most one thread is between set_tx(true) and       *)
(* set_tx(false) of a port, and a half duplex port is switched to sending  *)
(* exactly while there is one.                                             *)
THEOREM SerialOneSenderAtATime == Spec => []OneSenderAtATime
<1>1. ASSUME SerialInv PROVE OneSenderAtATime
  <2> SUFFICES ASSUME NEW p \in Port
               PROVE  /\ Cardinality(Users(p, Sending)) = IF mutex_tx[p] = None THEN 0 ELSE 1
                      /\ p \in HalfDuplex => (tx[p] <=> Users(p, Sending) # {})
    BY DEF OneSenderAtATime
  <2>1. TypeOK /\ SenderInv
    BY <1>1 DEF SerialInv
  <2>2. Users(p, Sending) = IF mutex_tx[p] = None THEN {} ELSE {mutex_tx[p]}
    BY <2>1, SendersAre
  <2>3. Cardinality({}) = 0 /\ Cardinality({mutex_tx[p]}) = 1
    BY FS_EmptySet, FS_Singleton
  <2>4. tx[p] <=> p \in HalfDuplex /\ mutex_tx[p] # None
    BY <2>1 DEF SenderInv
  <2> QED BY <2>2, <2>3, <2>4
<1> QED BY <1>1, SerialInvariant, PTL

(* elab_serial_tx_end: a port's semaphore holds a permit exactly while its *)
(* sender waits for it, so no write returns on the end of another one's    *)
(* transmission.                                                           *)
THEOREM SerialTxEndIsOwn == Spec => []TxEndIsOwn
<1>1. ASSUME SerialInv PROVE TxEndIsOwn
  <2> SUFFICES ASSUME NEW p \in Port
               PROVE  sem_tx[p] = Cardinality(Users(p, {"write.wait"}))
    BY DEF TxEndIsOwn
  <2>1. TypeOK /\ SenderInv
    BY <1>1 DEF SerialInv
  <2>2. Users(p, {"write.wait"}) = IF Ends(p) THEN {mutex_tx[p]} ELSE {}
    BY <2>1, SendersAre
  <2>3. Cardinality({}) = 0 /\ Cardinality({mutex_tx[p]}) = 1
    BY FS_EmptySet, FS_Singleton
  <2>4. sem_tx[p] = IF Ends(p) THEN 1 ELSE 0
    BY <2>1 DEF SenderInv
  <2> QED BY <2>2, <2>3, <2>4
<1> QED BY <1>1, SerialInvariant, PTL
=============================================================================
