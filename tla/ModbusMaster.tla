---------------------------- MODULE ModbusMaster ----------------------------
(***************************************************************************)
(* A Modbus RTU master (elab/midware/modbus/modbus_master.c, modbus.c) and *)
(* the slaves of its line.  The twelve functions mbm_fcXX have one body:   *)
(* take the mutex, fill the transmit frame, send it, read as many bytes as *)
(* the reply must have or until the timeout, compare the reply with the    *)
(* transmit frame, release the mutex.  They differ in the request, in the  *)
(* length they expect and in what they compare.                            *)
(*                                                                         *)
(* The line may damage or lose a request, and a reply arrives in pieces,   *)
(* some of them damaged or lost.  A slave compares the CRC of a request    *)
(* (modbus_slave.c:1451-1453: Junk is dropped); the master stores that of  *)
(* a reply (modbus.c:427-428) and never compares it.                       *)
(* What was received and not read stays in the queue of the serial port.   *)
(* With Punctual, a slave answers within rx_timeout or not at all.         *)
(***************************************************************************)
EXTENDS ModbusSlave

CONSTANTS
  Task,      \* the threads that use the channel
  Asked,     \* the requests they may make
  MaxCalls,  \* bound: how many calls are made
  MaxDamage, \* bound: how often the reply to a call is damaged
  Noise,     \* what a byte of a damaged reply may become
  Punctual

ASSUME MasterAssumption ==
  /\ Asked \subseteq {f \in Request : f.fc \in Reads \cup Writes /\ f.count > 0}
  /\ MaxCalls \in Nat /\ MaxDamage \in Nat /\ Noise \subseteq Byte
  /\ Punctual \in BOOLEAN
  /\ None \notin Task

VARIABLES
  mutex,     \* pch->mutex: its holder
  tx_frame,  \* pch->tx_frame_data: the request that was last put there
  queue_rx,  \* of the serial port: what has arrived and was not read
  at,        \* where in its call a task is
  call,      \* the request it makes
  result,    \* what the last call returned: an error, and what was read; it
             \* is forgotten when the next one begins
  calls,     \* history: the number of calls
  held,      \* history: by item, the values it had since the request was sent
  ran,       \* history: the slave carried the request out since it was sent
  damage     \* history: how often what is on its way to the master, or came
             \* there and was not read, was damaged

masterVars == <<mutex, tx_frame, queue_rx, at, call, result, calls>>
vars == <<slaveVars, masterVars, held, ran, damage>>

Errors == {"NONE", "TIMED_OUT", "SLAVE_ADDR", "FC", "BYTE_COUNT", "COIL_ADDR",
           "COIL_QTY", "REG_ADDR", "NBR_REG"}

TypeOK ==
  /\ SlaveTypeOK
  /\ mutex \in Task \cup {None}
  /\ tx_frame \in Asked \cup {None}
  /\ queue_rx \in Seq(Byte \cup {ANY})
  /\ at \in [Task -> {"idle", "lock", "send", "wait"}]
  /\ call \in [Task -> Asked \cup {None}]
  /\ result \in [err : Errors, vals : Seq(Nat)]
  /\ calls \in 0 .. MaxCalls
  /\ held \in [Task -> [Items -> SUBSET Values]]
  /\ ran \in [Task -> BOOLEAN]
  /\ damage \in 0 .. MaxDamage

Nothing == [a \in Items |-> {}]
Outcome(e, items) == [err |-> e, vals |-> items]

Init ==
  /\ InitSlaves
  /\ mutex = None /\ tx_frame = None /\ queue_rx = <<>> /\ calls = 0
  /\ at = [t \in Task |-> "idle"]
  /\ call = [t \in Task |-> None]
  /\ result = Outcome("NONE", <<>>)
  /\ held = [t \in Task |-> Nothing]
  /\ ran = [t \in Task |-> FALSE]
  /\ damage = 0

-----------------------------------------------------------------------------
(* size_expect *)
Expected(f) == IF f.fc \in Reads THEN 5 + ReplySize(f) ELSE 8

(* mbm_coil_di_read_resp and its like: the first difference between the    *)
(* reply b and the transmit frame f.  The CRC is not compared.             *)
Compared(f, b) ==
  LET start == SubSeq(b, 3, 4) # WordBytes(f.start)
      count == SubSeq(b, 5, 6) # WordBytes(f.count)
  IN  CASE b[1] # f.addr -> "SLAVE_ADDR"
        [] b[1] = f.addr /\ b[2] # f.fc -> "FC"
        [] OTHER ->
             CASE f.fc \in Reads -> IF b[3] # ReplySize(f) THEN "BYTE_COUNT" ELSE "NONE"
               [] f.fc \in {5, 15} -> IF start THEN "COIL_ADDR"
                                      ELSE IF f.fc = 15 /\ count THEN "COIL_QTY" ELSE "NONE"
               [] f.fc \in {6, 16} -> IF start THEN "REG_ADDR"
                                      ELSE IF f.fc = 16 /\ count THEN "NBR_REG" ELSE "NONE"

Mask == <<1, 2, 4, 8, 16, 32, 64, 128>>

(* The value of the i-th item in the reply to a read. *)
Parsed(f, b, i) ==
  IF IsBits(f.fc) THEN (b[4 + (i - 1) \div 8] \div Mask[1 + ((i - 1) % 8)]) % 2
  ELSE LET last == 3 + i * Width(f.start) IN 256 * b[last - 1] + b[last]

Evaluated(f, b) ==
  LET e == Compared(f, b)
  IN  Outcome(e, IF e = "NONE" /\ f.fc \in Reads
                 THEN [i \in 1 .. f.count |-> Parsed(f, b, i)] ELSE <<>>)

-----------------------------------------------------------------------------
(* The functions mbm_fcXX *)

Call(t) ==
  /\ at[t] = "idle" /\ calls < MaxCalls
  /\ \E f \in Asked : call' = [call EXCEPT ![t] = f]
  /\ at' = [at EXCEPT ![t] = "lock"]
  /\ calls' = calls + 1
  /\ UNCHANGED <<slaveVars, mutex, tx_frame, queue_rx, result, held, ran, damage>>

(* Mutant: the mutex is not waited for. *)
FreeAlways == TRUE

Free == mutex = None

Acquire(t) ==
  /\ at[t] = "lock" /\ Free
  /\ mutex' = t
  /\ at' = [at EXCEPT ![t] = "send"]
  /\ result' = Outcome("NONE", <<>>)
  /\ UNCHANGED <<slaveVars, tx_frame, queue_rx, call, calls, held, ran, damage>>

(* mbm_tx_cmd.  The request reaches some slaves whole, others damaged, the *)
(* rest not at all.                                                        *)
Now(f) == IF f.addr \in Slaves
          THEN [a \in Items |-> {table[f.addr][Table(f.fc)][a]}] ELSE Nothing

Send(t) ==
  /\ at[t] = "send"
  /\ tx_frame' = call[t]
  /\ \E whole \in SUBSET Slaves : \E damaged \in SUBSET (Slaves \ whole) :
       rx_buff' = [s \in Slaves |->
                     IF s \in whole THEN Joined(rx_buff[s], call[t])
                     ELSE IF s \in damaged THEN Junk ELSE rx_buff[s]]
  /\ at' = [at EXCEPT ![t] = "wait"]
  /\ held' = [held EXCEPT ![t] = Now(call[t])]
  /\ UNCHANGED <<table, write_en, frame, stage, done, admitted, line,
                 mutex, queue_rx, call, result, calls, ran, damage>>

(* Mutant: after a timeout the function returns and keeps the mutex. *)
ReleasedUnlessLate(e) == IF e = "TIMED_OUT" THEN mutex ELSE None

Released(e) == None

Return(t, r) ==
  /\ result' = r
  /\ mutex' = Released(r.err)
  /\ at' = [at EXCEPT ![t] = "idle"]
  /\ call' = [call EXCEPT ![t] = None]
  /\ held' = [held EXCEPT ![t] = Nothing]
  /\ ran' = [ran EXCEPT ![t] = FALSE]
  /\ damage' = IF line = <<>> /\ queue_rx' = <<>> THEN 0 ELSE damage
  /\ UNCHANGED <<slaveVars, tx_frame, calls>>

(* mbm_rx_blocking got its bytes; the reply is compared. *)
Receive(t) ==
  /\ at[t] = "wait"
  /\ LET n == Expected(tx_frame)
     IN  /\ Len(queue_rx) >= n
         /\ queue_rx' = SubSeq(queue_rx, n + 1, Len(queue_rx))
         /\ Return(t, Evaluated(tx_frame, SubSeq(queue_rx, 1, n)))

(* Nothing is on its way any more. *)
Quiet == /\ line = <<>>
         /\ \A s \in Slaves : rx_buff[s] = None /\ frame[s] = None

LateError == "TIMED_OUT"

(* mbm_rx_blocking got too few bytes, or none: those it got are gone. *)
Timeout(t) ==
  /\ at[t] = "wait"
  /\ Len(queue_rx) < Expected(tx_frame)
  /\ Punctual => Quiet
  /\ queue_rx' = <<>>
  /\ Return(t, Outcome(LateError, <<>>))

(* The receiving thread of the serial port. *)
Deliver ==
  /\ line # <<>>
  /\ LET reply == Head(line)
     IN  \E n \in 1 .. Len(reply) :
           /\ queue_rx' = queue_rx \o SubSeq(reply, 1, n)
           /\ line' = IF n = Len(reply) THEN Tail(line)
                      ELSE [line EXCEPT ![1] = SubSeq(reply, n + 1, Len(reply))]
  /\ UNCHANGED <<table, write_en, rx_buff, frame, stage, done, admitted,
                 mutex, tx_frame, at, call, result, calls, held, ran, damage>>

(* The next byte of the reply becomes another, or the rest of it is lost.  *)
Damage ==
  /\ line # <<>> /\ damage < MaxDamage
  /\ LET reply == Head(line)
     IN  \/ \E v \in Noise : /\ v # reply[1]
                             /\ line' = [line EXCEPT ![1] = [reply EXCEPT ![1] = v]]
         \/ line' = Tail(line)
  /\ damage' = damage + 1
  /\ UNCHANGED <<table, write_en, rx_buff, frame, stage, done, admitted, masterVars, held, ran>>

Member(t) == Acquire(t) \/ Send(t) \/ Receive(t) \/ Timeout(t)

-----------------------------------------------------------------------------
(* A step of a slave, and what the waiting tasks may know of it. *)
CarriesOut(s, f) == /\ s = f.addr /\ frame[s] = f /\ Ended(s)
                    /\ Len(done[s]) = f.count

Observed ==
  /\ held' = [t \in Task |->
       IF at[t] = "wait" /\ call[t].addr \in Slaves
       THEN [a \in Items |-> held[t][a] \cup {table'[call[t].addr][Table(call[t].fc)][a]}]
       ELSE held[t]]
  /\ ran' = [t \in Task |-> ran[t] \/ (at[t] = "wait" /\ \E s \in Slaves : CarriesOut(s, call[t]))]
  /\ UNCHANGED <<masterVars, damage>>

SlaveMoves(s) == SlaveThread(s) /\ Observed

Application(s) ==
  /\ \/ ~write_en[s] /\ WriteEnable(s, TRUE)
     \/ \E k \in {"di", "in"} : \E a \in Known[k], v \in IF k = "di" THEN Bit ELSE Values :
          v # table[s][k][a] /\ Change(s, k, a, v)
  /\ Observed

Next == \/ \E t \in Task : Call(t) \/ Member(t)
        \/ Deliver \/ Damage
        \/ \E s \in Slaves : SlaveMoves(s) \/ Application(s)

(* The operating system runs every thread, hands the mutex on, and lets a  *)
(* timeout pass; nobody has to call, and no application has to do anything. *)
Fairness ==
  /\ \A t \in Task : /\ SF_vars(Acquire(t))
                     /\ WF_vars(Send(t)) /\ WF_vars(Receive(t) \/ Timeout(t))
  /\ WF_vars(Deliver)
  /\ \A s \in Slaves : WF_vars(SlaveMoves(s))

Spec == Init /\ [][Next]_vars /\ Fairness

-----------------------------------------------------------------------------
Waits(t) == at[t] = "wait"
Succeeds(t) == at[t] = "wait" /\ at'[t] = "idle" /\ result'.err = "NONE"

(* While a task waits for its reply the channel is its own: no other task  *)
(* has overwritten the transmit frame, which the reply is compared with.   *)
FrameIsOwn == \A t \in Task : Waits(t) => mutex = t /\ tx_frame = call[t]

(* If slaves answer in time or not at all, nothing is left of a call when  *)
(* the next one begins, whatever the line lost, however short an exception *)
(* was: the stream of replies never gets out of step with the requests.    *)
NothingLeftOver == Punctual /\ mutex = None => queue_rx = <<>> /\ line = <<>>

(* A read that returns MODBUS_ERR_NONE returns, item by item, a value that *)
(* the slave had since the request was sent ("the current value").  A      *)
(* range that straddles FpStart is excluded: its floats arrive cut short.  *)
(* So is a reply that was damaged.                                         *)
Current(t) ==
  /\ Len(result'.vals) = call[t].count
  /\ \A i \in 1 .. call[t].count : result'.vals[i] \in held[t][Number(call[t], i)]

ReadIsCurrent ==
  [][\A t \in Task : Succeeds(t) /\ call[t].fc \in Reads /\ ~Straddles(call[t])
                      /\ damage = 0 => Current(t)]_vars

(* To be violated: the same of a reply that was damaged, which the master  *)
(* (mbm_rx_reply, modbus_master.c:1596-1615) cannot tell, as it does *)
(* not compare the CRC.                                                    *)
ReadTellsCurrent ==
  [][\A t \in Task : Succeeds(t) /\ call[t].fc \in Reads /\ ~Straddles(call[t])
                      => Current(t)]_vars

(* A write that returns MODBUS_ERR_NONE was carried out by its slave, to   *)
(* the last item, since the request was sent.                              *)
WriteTookEffect ==
  [][\A t \in Task : Succeeds(t) /\ call[t].fc \in Writes => ran[t]]_vars

(* Every call returns, also while others use the channel and when the line *)
(* loses everything.                                                       *)
CallReturns == \A t \in Task : at[t] = "lock" ~> at[t] = "idle"
=============================================================================
