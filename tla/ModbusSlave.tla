---------------------------- MODULE ModbusSlave ----------------------------
(***************************************************************************)
(* The Modbus RTU slaves of a line (elab/midware/modbus): the thread that  *)
(* takes bytes until the line is idle, the checks of the eight functions,  *)
(* the application's callbacks, called item by item, and the reply.        *)
(*                                                                         *)
(* A request is a record of the fields the handlers look at, a reply is    *)
(* the sequence of its bytes, because the master cuts the stream of        *)
(* replies by length (ModbusMaster).  What a receive buffer holds between  *)
(* two idle times is nothing, one whole frame, or Junk: damaged or glued   *)
(* frames have a wrong CRC.                                                *)
(***************************************************************************)
EXTENDS Integers, SequencesExt

CONSTANTS
  Slaves,     \* the slaves, by their node_addr
  Items,      \* the numbers of coils, inputs and registers
  Known,      \* by table, the items for which the callbacks report no error
  Values,     \* of a register; a coil or input is 0 or 1
  FpStart,    \* MODBUS_CFG_FP_START_IX
  MaxBits, MaxRegs, MaxFloats,  \* the most of each in one request: 2000, 125, 62
  Foreign,    \* requests that some master may send, on the line of slaves alone
  None, Junk

Tables == {"coil", "di", "in", "holding"}
Reads  == 1 .. 4
Writes == {5, 6, 15, 16}
ILLEGAL_FC == 1
ILLEGAL_DATA_ADDR == 2
ILLEGAL_DATA_QTY == 3
ILLEGAL_DATA_VAL == 4

Bit == {0, 1}
Byte == 0 .. 255
Word == 0 .. 65535

Request ==
  { r \in [addr : Byte, fc : Byte, start : Items, count : Word,
           vals : Seq(Values),   \* of a write: as many as count says are decoded
           ndata : Nat,          \* rx_frame_ndata_bytes
           bytes : Byte] :       \* the byte count field of functions 15 and 16
      /\ r.fc \in Writes => Len(r.vals) = r.count
      /\ r.fc \in {5, 6} => r.count = 1
      /\ r.fc \in {5, 15} => r.vals \in Seq(Bit) }

ASSUME SlaveAssumption ==
  /\ Slaves \subseteq 1 .. 247
  /\ Known \in [Tables -> SUBSET Items]
  /\ FpStart \in Nat
ASSUME LimitAssumption ==   \* their replies fit into a frame
  /\ {MaxBits, MaxRegs, MaxFloats} \subseteq Nat
  /\ MaxBits <= 2000 /\ MaxRegs <= 125 /\ MaxFloats <= 62
ASSUME WordAssumption ==
  /\ Items \subseteq Word
  /\ Values \subseteq Word /\ Bit \subseteq Values
ASSUME RequestAssumption ==
  /\ Foreign \subseteq Request
  /\ None \notin Request \cup {Junk} /\ Junk \notin Request

VARIABLES
  table,     \* the application's data: what the callbacks read and write
  write_en,
  rx_buff,   \* since the line was last idle: None, a request or Junk
  frame,     \* the request that mbs_handler serves
  stage,     \* "listen"; "check": in mbs_fcXX, before its loop; "items": in the loop
  done,      \* the items read or written so far, with their values
  admitted,  \* history: write_en when the request was dispatched
  line       \* the replies on their way to the master, of the first what is left

slaveVars == <<table, write_en, rx_buff, frame, stage, done, admitted, line>>

(* A byte of a reply whose value nobody knows, or looks at. *)
ANY == 256

SlaveTypeOK ==
  /\ table \in [Slaves -> [Tables -> [Items -> Values]]]
  /\ \A s \in Slaves, k \in {"coil", "di"}, a \in Items : table[s][k][a] \in Bit
  /\ write_en \in [Slaves -> BOOLEAN] /\ admitted \in [Slaves -> BOOLEAN]
  /\ \A s \in Slaves : /\ rx_buff[s] \in {None, Junk} \/ rx_buff[s] \in Request
                       /\ frame[s] = None \/ frame[s] \in Request
                       /\ done[s] \in Seq(Items \X Values)
                       /\ stage[s] \in {"listen", "check", "items"}
                       /\ (stage[s] = "listen") <=> (frame[s] = None)
                       /\ frame[s] # None => Len(done[s]) <= frame[s].count
  /\ line \in Seq(Seq(Byte \cup {ANY}))

InitSlaves ==
  /\ table = [s \in Slaves |-> [k \in Tables |-> [a \in Items |-> 0]]]
  /\ write_en = [s \in Slaves |-> FALSE]
  /\ admitted = [s \in Slaves |-> FALSE]
  /\ rx_buff = [s \in Slaves |-> None]
  /\ frame = [s \in Slaves |-> None]
  /\ stage = [s \in Slaves |-> "listen"]
  /\ done = [s \in Slaves |-> <<>>]
  /\ line = <<>>

-----------------------------------------------------------------------------
(* Requests and replies *)

Table(fc) == CASE fc \in {1, 5, 15} -> "coil" [] fc = 2 -> "di"
               [] fc = 4 -> "in" [] OTHER -> "holding"
IsBits(fc) == Table(fc) \in {"coil", "di"}
Width(a) == IF a < FpStart THEN 2 ELSE 4    \* bytes of a register

(* The number of the i-th item of a request is a uint16_t. *)
Number(f, i) == (f.start + i - 1) % 65536

(* A range of registers that begins before FpStart and ends behind it, or  *)
(* goes on with register 0 behind 65535: all are counted like the first    *)
(* one, and copied each in its own width.                                  *)
Straddles(f) == /\ ~IsBits(f.fc)
                /\ \E i \in 1 .. f.count : Width(Number(f, i)) # Width(f.start)

BytesForBits(n) == (n - 1) \div 8 + 1   \* of 1 to 2000 coils or inputs

(* The number of data bytes in the reply to a read. *)
ReplySize(f) == IF IsBits(f.fc) THEN BytesForBits(f.count) ELSE f.count * Width(f.start)

WordBytes(v) == <<v \div 256, v % 256>>
(* A float is copied byte by byte; here its last two bytes tell its value. *)
ItemBytes(a, v) == IF a < FpStart THEN WordBytes(v) ELSE <<0, 0>> \o WordBytes(v)

(* Eight coils to a byte, the first in its lowest bit. *)
PackedByte(items, j) ==
  LET bit(i) == IF 8 * (j - 1) + i \in DOMAIN items THEN items[8 * (j - 1) + i][2] ELSE 0
  IN  bit(1) + 2 * bit(2) + 4 * bit(3) + 8 * bit(4)
        + 16 * bit(5) + 32 * bit(6) + 64 * bit(7) + 128 * bit(8)

(* The bytes that the registers before the i-th one fill. *)
Before(f, i) == 2 * (i - 1) + 2 * Cardinality({k \in 1 .. i - 1 : Width(Number(f, k)) = 4})

RegisterByte(f, items, j) ==
  LET holds(i) == j \in Before(f, i) + 1 .. Before(f, i + 1)
      n == CHOOSE i \in DOMAIN items : holds(i)
  IN  IF \E i \in DOMAIN items : holds(i)
      THEN ItemBytes(items[n][1], items[n][2])[j - Before(f, n)]
      ELSE ANY   \* left in the buffer by an earlier frame

CRC == <<ANY, ANY>>

ExceptionBytes(f, code) == <<f.addr, 128 + (f.fc % 128), code>> \o CRC

(* tx_frame_ndata_bytes is set from the request: of a range that straddles *)
(* FpStart more or less was put there than is sent.                        *)
ReadBytes(f, items) ==
  <<f.addr, f.fc, ReplySize(f)>>
    \o [j \in 1 .. ReplySize(f) |->
          IF IsBits(f.fc) THEN PackedByte(items, j) ELSE RegisterByte(f, items, j)]
    \o CRC

(* Functions 5 and 6 send back four bytes of the request, 15 and 16 the    *)
(* start and the count.                                                    *)
EchoBytes(f) ==
  LET echoed == CASE f.fc = 5 -> <<255 * f.vals[1], 0>>
                  [] f.fc = 6 -> SubSeq(ItemBytes(f.start, f.vals[1]), 1, 2)
                  [] OTHER    -> WordBytes(f.count)
  IN  <<f.addr, f.fc>> \o WordBytes(f.start) \o echoed \o CRC

-----------------------------------------------------------------------------
(* The receiving thread *)

(* Bytes that follow before the line was idle join those in the buffer. *)
Joined(buff, f) == IF buff = None THEN f ELSE Junk

(* Mutant: function 16 is served whether or not writes are enabled. *)
DispatchedAlways(s, f) == /\ f # Junk
                          /\ f.addr \in {s, 0}
                          /\ f.fc \in Writes \ {16} => write_en[s]

(* The read of a byte timed out: mbs_rtu_task takes what has come, and     *)
(* mbs_handler looks at the address and, for a write, at write_en.         *)
Dispatched(s, f) == /\ f # Junk
                    /\ f.addr \in {s, 0}
                    /\ f.fc \in Writes => write_en[s]

LineIdle(s) ==
  /\ stage[s] = "listen" /\ rx_buff[s] # None
  /\ rx_buff' = [rx_buff EXCEPT ![s] = None]
  /\ IF Dispatched(s, rx_buff[s])
     THEN /\ frame' = [frame EXCEPT ![s] = rx_buff[s]]
          /\ stage' = [stage EXCEPT ![s] = "check"]
          /\ admitted' = [admitted EXCEPT ![s] = write_en[s]]
     ELSE UNCHANGED <<frame, stage, admitted>>
  /\ UNCHANGED <<table, write_en, done, line>>

(* What the head of mbs_fcXX makes of the request: no reply, an exception, *)
(* or 0: go on.  Functions 5 and 15 look at write_en once more.            *)
SILENT == -1
MostRegs(f) == IF f.start < FpStart THEN MaxRegs ELSE MaxFloats

ReadVerdict(f) ==
  IF f.ndata # 4 THEN SILENT
  ELSE IF f.count \notin 1 .. (IF IsBits(f.fc) THEN MaxBits ELSE MostRegs(f))
       THEN ILLEGAL_DATA_QTY ELSE 0

CoilVerdict(s, f) ==
  IF f.ndata # 4 THEN SILENT ELSE IF ~write_en[s] THEN ILLEGAL_DATA_VAL ELSE 0

RegVerdict(f) == IF f.ndata # 2 + Width(f.start) THEN SILENT ELSE 0

CoilsVerdict(s, f) ==
  IF ~write_en[s] THEN ILLEGAL_DATA_VAL
  ELSE IF f.ndata < 6 THEN SILENT
  ELSE IF f.bytes # (IF f.count = 0 THEN 1 ELSE BytesForBits(f.count)) \/ f.ndata # f.bytes + 5
       THEN ILLEGAL_DATA_VAL ELSE 0

RegsVerdict(f) ==
  IF f.count \notin 1 .. MostRegs(f) \/ f.ndata - 5 # f.bytes THEN ILLEGAL_DATA_QTY
  ELSE IF f.bytes \div f.count # Width(f.start) THEN ILLEGAL_DATA_VAL ELSE 0

Verdict(s, f) ==
  CASE f.fc \in Reads -> ReadVerdict(f)
    [] f.fc = 5  -> CoilVerdict(s, f)
    [] f.fc = 6  -> RegVerdict(f)
    [] f.fc = 15 -> CoilsVerdict(s, f)
    [] f.fc = 16 -> RegsVerdict(f)
    [] OTHER     -> ILLEGAL_FC

(* Mutant: function 16 does not return after it has set the exception. *)
ReplyEchoed(s, code) ==
  LET f == frame[s]
  IN  CASE f.fc = 16 -> EchoBytes(f)
        [] f.fc # 16 /\ code # 0 -> ExceptionBytes(f, code)
        [] f.fc # 16 /\ code = 0 -> IF f.fc \in Reads THEN ReadBytes(f, done[s]) ELSE EchoBytes(f)

ReplyBytes(s, code) ==
  LET f == frame[s]
  IN  CASE code # 0 -> ExceptionBytes(f, code)
        [] code = 0 /\ f.fc \in Reads -> ReadBytes(f, done[s])
        [] code = 0 /\ f.fc \in Writes -> EchoBytes(f)

(* Mutant: broadcasts are answered. *)
AnsweredAlways(s, code) == code # SILENT

(* Broadcasts are not answered. *)
Answered(s, code) == code # SILENT /\ frame[s].addr # 0

Finish(s, code) ==
  /\ line' = IF Answered(s, code) THEN Append(line, ReplyBytes(s, code)) ELSE line
  /\ frame' = [frame EXCEPT ![s] = None]
  /\ stage' = [stage EXCEPT ![s] = "listen"]
  /\ done' = [done EXCEPT ![s] = <<>>]
  /\ admitted' = [admitted EXCEPT ![s] = FALSE]

Check(s) ==
  /\ stage[s] = "check"
  /\ LET code == Verdict(s, frame[s])
     IN  \/ /\ code = 0
            /\ stage' = [stage EXCEPT ![s] = "items"]
            /\ UNCHANGED <<frame, line, done, admitted>>
         \/ code # 0 /\ Finish(s, code)
  /\ UNCHANGED <<table, write_en, rx_buff>>

(* Mutant: the loop runs once more. *)
MoreItemsAndOne(s) == Len(done[s]) <= frame[s].count

MoreItems(s) == Len(done[s]) < frame[s].count
NextItem(s) == Number(frame[s], Len(done[s]) + 1)
Accepted(s) == NextItem(s) \in Known[Table(frame[s].fc)]   \* else MODBUS_ERR_RANGE

(* The value the request carries for the next item.  Of a range that       *)
(* straddles FpStart it may be any: the floats are composed of bytes of    *)
(* other values, and of what an earlier frame left behind the request.     *)
Carried(s) == IF Straddles(frame[s]) THEN Values ELSE {frame[s].vals[Len(done[s]) + 1]}

Failed(s) ==
  /\ ~Accepted(s)
  /\ Finish(s, ILLEGAL_DATA_ADDR)
  /\ UNCHANGED table

(* Mutant: function 4 reads the holding registers, as function 3 does. *)
ReadHolding(s) ==
  LET k == IF frame[s].fc = 4 THEN "holding" ELSE Table(frame[s].fc)
  IN  /\ Accepted(s) /\ frame[s].fc \in Reads
      /\ done' = [done EXCEPT ![s] = Append(@, <<NextItem(s), table[s][k][NextItem(s)]>>)]
      /\ UNCHANGED <<table, frame, stage, admitted, line>>

Read(s) ==
  /\ Accepted(s) /\ frame[s].fc \in Reads
  /\ done' = [done EXCEPT ![s] =
                Append(@, <<NextItem(s), table[s][Table(frame[s].fc)][NextItem(s)]>>)]
  /\ UNCHANGED <<table, frame, stage, admitted, line>>

Write(s) ==
  /\ Accepted(s) /\ frame[s].fc \in Writes
  /\ \E v \in Carried(s) :
       /\ table' = [table EXCEPT ![s][Table(frame[s].fc)][NextItem(s)] = v]
       /\ done' = [done EXCEPT ![s] = Append(@, <<NextItem(s), v>>)]
  /\ UNCHANGED <<frame, stage, admitted, line>>

(* One round of the loop, with one call of a callback. *)
Item(s) ==
  /\ stage[s] = "items" /\ MoreItems(s)
  /\ Failed(s) \/ Read(s) \/ Write(s)
  /\ UNCHANGED <<write_en, rx_buff>>

SendReply(s) ==
  /\ stage[s] = "items" /\ Len(done[s]) = frame[s].count
  /\ Finish(s, 0)
  /\ UNCHANGED <<table, write_en, rx_buff>>

SlaveThread(s) == LineIdle(s) \/ Check(s) \/ Item(s) \/ SendReply(s)

-----------------------------------------------------------------------------
(* The application of a slave *)

(* mb_slave_write_enable *)
WriteEnable(s, status) ==
  /\ write_en' = [write_en EXCEPT ![s] = status]
  /\ UNCHANGED <<table, rx_buff, frame, stage, done, admitted, line>>

(* The data behind the callbacks belongs to the application. *)
Change(s, k, a, v) ==
  /\ table' = [table EXCEPT ![s][k][a] = v]
  /\ UNCHANGED <<write_en, rx_buff, frame, stage, done, admitted, line>>

-----------------------------------------------------------------------------
(* The slaves by themselves: some master sends any of the requests Foreign *)
(* while its line is free, perhaps too early, and takes the replies.       *)

Arrive(f) ==
  /\ line = <<>>
  /\ rx_buff' = [s \in Slaves |-> Joined(rx_buff[s], f)]
  /\ UNCHANGED <<table, write_en, frame, stage, done, admitted, line>>

Taken ==
  /\ line # <<>> /\ line' = <<>>
  /\ UNCHANGED <<table, write_en, rx_buff, frame, stage, done, admitted>>

SlaveNext ==
  \/ \E s \in Slaves : \/ SlaveThread(s)
                       \/ \E status \in BOOLEAN : WriteEnable(s, status)
  \/ \E f \in Foreign : Arrive(f)
  \/ Taken

SlaveSpec == InitSlaves /\ [][SlaveNext]_slaveVars

-----------------------------------------------------------------------------
Ended(s) == frame[s] # None /\ frame'[s] = None
Sent == IF Len(line') > Len(line) THEN line'[Len(line')] ELSE <<>>
IsWrite(s) == frame[s] # None /\ frame[s].fc \in Writes

(* The items a write asks for; only their numbers if it straddles FpStart. *)
Obeyed(f, items) ==
  \A i \in DOMAIN items : /\ items[i][1] = Number(f, i)
                          /\ Straddles(f) \/ items[i][2] = f.vals[i]

Reported(s) ==
  Ended(s) /\ IsWrite(s) =>
    LET f == frame[s]
        n == Len(done[s])
    IN  /\ Obeyed(f, done[s])
        /\ CASE Sent = <<>> -> f.addr = 0 \/ n = 0
             [] Sent # <<>> /\ Sent[2] = f.fc -> n = f.count
             [] Sent # <<>> /\ Sent[2] # f.fc /\ Sent[3] = ILLEGAL_DATA_ADDR ->
                  n < f.count /\ Number(f, n + 1) \notin Known[Table(f.fc)]
             [] OTHER -> n = 0

(* What the reply to a write says is what the slave did: an echo that it   *)
(* wrote every item that was asked for, the exception "illegal address"    *)
(* that it wrote those before the first one its application does not know, *)
(* any other exception that it wrote nothing, and silence that it wrote    *)
(* nothing either, unless the request was a broadcast.                     *)
EffectAsReported == [][\A s \in Slaves : Reported(s)]_slaveVars

(* Once mb_slave_write_enable(FALSE) has returned, the only request that   *)
(* can still write is the one that was already being served: each write    *)
(* belongs to a request that mbs_handler took while writes were enabled.   *)
DisableStopsNext ==
  [][\A s \in Slaves : Len(done'[s]) > Len(done[s]) /\ IsWrite(s) => admitted[s]]_slaveVars
=============================================================================
