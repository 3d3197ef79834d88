# Verification of eLab in TLA+

eLab is a framework for embedded programs in C (`src/elab-master/elab`): a
cooperative kernel, an operating system layer, a device framework with device
classes and drivers, and middleware. This directory holds TLA+ modules that
model its concurrent core, TLC configurations that check them, and proofs that
TLAPS checks. Paths below are relative to `src/elab-master/elab`.

## 1. Inventory

| Component | State it keeps | Operations | What is hard about it | Modelled |
|---|---|---|---|---|
| BasicOS kernel `os/basic_os` | task table (state, timeout), timer table, one millisecond clock and its 15 day offset, the earliest timer timeout | tick interrupt, delay, yield, exit, timer start / stop / reset, the check of all timeouts | priorities and round robin, a rescheduling in the middle of the check, callbacks that call back, rebasing absolute times | `BasicOS` |
| Device framework `edf/elab_device.c` | device table and count, per device enable count, test mode, mutex | register, unregister, find, open, close, read, write, modes | a table mutex made by its first users, reads outside the mutexes, holes in the table, drivers that fail | `EdfDevice` |
| POSIX OS layer `os/posix` | threads, mutexes, semaphores, message queues, event flags, timers | the CMSIS-RTOS2 calls of `os/cmsis_os.h` | two semaphores and a ring under a mutex; a timer thread with callbacks; condition variables | queues: `MessageQueue`, `BoundedQueue`; timers: `OsTimer`, `Timers` |
| Serial port `edf/normal/elab_serial.c` | receive queue and thread, `sem_tx`, two mutexes, direction | write, read, transfer, end of transmission | a write waits for its driver, a read has a deadline over several bytes, half duplex | `Serial` |
| Simulated bus `edf/driver/simulator/simu_serial.c` | a queue and a mutex per end, slaves, partner | write to the other ends, read, build a bus or pair | two mutexes at a time, several senders into one queue | `Serial` |
| Linux UART `edf/driver/linux/driver_uart.c` | a file descriptor, two threads' worth of I/O | read, write, configure | never announces the end of transmission | a mutant of `Serial` |
| Other device classes `edf/normal` | attributes, CAN's receive queue | one driver call under the lock | little | no |
| Button `edf/user/elab_button.c` | last samples, level, gesture, two times, a timer and a mutex | register, unregister, the timer's callback, functions under the lock | a callback beside registration and removal; timing of press and release | `Button` |
| Other user devices `edf/user` | LED sequence, RS485 direction, motor | read, write, a blink step | little | no |
| Hash table `elib/hash_table.c` | cells with data and three hashes | add, remove, get | gaps, bounded probing, lookups beside additions, no lock | `HashTable` |
| Other libraries `elib` | byte ring, CRC | push, pop | wrap | no |
| Signal captor `midware/esig_captor` | a ring of signals | fill, drain | no exclusion | no |
| Event database `midware/edb` | the text of an INI file, a mutex | open, read a value | | no |
| Modbus `midware/modbus` | channel buffers and frames, a mutex, `write_en` | twelve requests of a master, eight functions of a slave | lost, damaged, late and short answers, framing by idle time, partial writes | `ModbusSlave`, `ModbusMaster` |
| Start up `common/elab_export.c` | export tables | ordered init, poll, exit | order of levels, catching up, the wrap of the clock, signals at any point | `Startup` |
| Assertions and log `common` | | | a failed assertion ends the program | as `halted` |
| Win32 and MCU layers `os/win32`, `os/mcu` | | the same interface | | no: bindings to Windows and to ARM's wrapper |
| `3rd`, `lesson`, `mcu`, `example`, `project` | | | | no: third party code and examples |

How they interact. Every driver registers with the device framework; a device
class calls its driver through a table of functions, under the device's mutex
or its own. All blocking goes through the OS layer. BasicOS is the kernel of
programs that have no OS layer below them and shares nothing with the POSIX
layer. A write on a simulated serial port runs, in one thread and through four
mutexes and a queue, from `elab_serial_write` into the queue of the port at the
other end; that port's receiving thread takes the bytes from there into the
queue that `elab_serial_read` reads. A Modbus channel sits on such a port: a
slave's thread reads bytes from it until the line is idle, a master's call
writes a request and reads as many bytes as the reply must have. `elab_run`
initialises the kernel, with it the thread that calls all timers' callbacks, and
makes the thread that initialises and polls everything else. A button is a
device and a timer: its callback runs in the timer thread, under the timers'
mutex, and takes the device's mutex. The simulated devices find their
counterparts by name in one hash table that has no lock.

What correctness means, component by component:

* **BasicOS**: a delay is not short; a timer is not early; the CPU belongs to a
  ready task and to the idle task only when no task above its priority is ready;
  peers take turns; a task that parked itself will be taken out; time is continuous.
* **Device framework**: the table holds the registered devices and the search
  finds them; the enable count is the number of opens; a sole device has one
  user; the driver is on while somebody uses it, also when it is called.
* **Message queue**: it is a bounded first-in first-out queue; no thread waits
  beside a message or a free slot that nobody is about to announce.
* **Serial port and bus**: a write arrives whole and in order at every port at
  the other end; one sender at a time on half duplex; each write waits for its
  own end of transmission, and ends; a read with a timeout ends.
* **Modbus**: what a master's call returns was answered by its own slave to its
  own request; a reply tells what was written; nothing is written for a request
  taken while writes were disabled; every call returns.
* **Timers**: no callback is early, or comes for a timer that was stopped, or
  beside another; every running timer is called.
* **Button**: a callback meets its device; a gesture is told for presses that
  there were; a gesture ends when the button is left alone.
* **Hash table**: what is stored is found, and nothing else, whoever adds and
  removes meanwhile.
* **Start up**: levels come in order and are undone in the opposite order;
  a poll function is neither early nor passed over nor starved.

Section "hazards" of `PROJECT.json` lists, line by line, what is hard to test.

## 2. Modules

    BasicOS ............ the kernel            MCBasicOSTasks, MCBasicOSTimers
      BasicOSProofs .... its theorems
    EdfDevice .......... the device framework  MCEdfDevice
      EdfDeviceProofs
    BoundedQueue ....... what a queue promises
      MessageQueue ..... the POSIX queue, refines it      MCMessageQueue
        MessageQueueProofs
    Serial ............. ports, bus, readers and writers  MCSerialBus, MCSerialPair
      SerialProofs
    ModbusSlave ........ the slaves of a line             MCModbusSlave
      ModbusMaster ..... a master and its slaves          MCModbusMaster
        ModbusProofs
    Timers ............. what timers promise
      OsTimer .......... the POSIX timers, refine it      MCOsTimer
        OsTimerProofs
      Button ........... a button over any such timers    MCButton
        ButtonProofs
    HashTable .......... the table of names               MCStartup
    Startup ............ from start to exit               MCStartup
      StartupProofs .... the theorems of both

Operators whose comment begins with "Mutant:" are used by no specification.
Each is a plausible mistake in the code; in place of the definition that follows
it, it breaks the property that `PROJECT.json` pairs it with.

### BasicOS

Tasks are switched inside kernel calls only, so between two critical sections of
a call the only other actor is the tick interrupt: one action is one critical
section. `pc[t]` says where in a call a task stands. `state`, `timeout`,
`current`, `time`, `timeOffset`, `timeOutMin`, `idleBackup`, `running`, `tmo`,
`period` are the fields of the C structures (the module says which).
`bos_check_timer` is cut at the two places where it is left: the idle task calls
the scheduler in its middle (`CheckGiveWay`, and `CheckResume` when it runs
again), and callbacks run with the critical section released (`CheckTimers` up
to the first callback, `CallbackReturn` behind it). A callback is whatever calls
of the timer functions happen until it returns.

`Sheduler` (the source's spelling) states what the scan of `bos_sheduler`
selects; `MCBasicOSTasks` also states the scan as a loop and assumes both are
equal, which TLC evaluates for all task states of the run. `remain` and
`tremain` are history variables: the ticks that are still owed to a delay or a
timer. The 32 bit words are numbers modulo `Wrap`; 15 days are `Day15`.
A delayed task's `timeout` is set to 0 when it is woken, because nothing reads
it any more. Periods may be any that the code accepts, up to 30 days of a word of
49.7: the sum `time + period` of a start then stays within a word, the one that
`CallbackReturn` makes when the callback has started its own timer again may not
(`SumWraps`), and `lapped` records the timers that this happened to since their
last start.

### EdfDevice

A section under a device's mutex is one action; every read outside of the
mutexes is one of its own: the two looks at `_edf_table[0]`, the search inside
`elab_device_register` before its insertion, the enabled check of
`elab_device_unregister` before its removal, the check of count and test mode
in `elab_device_read`, which any thread with the handle may call.

The table's own mutex is made by whoever needs it first: `_edf_mutex` looks for it
(`EdfMutex`) and makes it (`EdfCreate`) without a lock, so that two first callers may
each make one and be in its sections together. The sections are therefore cut: a
thread gets a mutex (`ref`), enters when nobody is inside under that mutex (`Enter`), and
goes through `RegisterAdd` and `RegisterStore`, or `UnregisterFind`, `UnregisterRemove` and
`UnregisterCount`, with what it has read in `got`; the search is one step whose
result is open while somebody changes the table beside it (`Results`). A store
behind the end of the table is undefined and ends the model. `met` records that
two threads were inside at once.

A failed assertion sets `halted`. Devices are static memory and outlive their
registration, so a stale handle can be used. A user that was refused by the
driver does not believe to have the device open (`opens` is the set of opens
that were not closed yet). `holed`, `torn`, `failed` and `met` record the four
circumstances under which less holds, and each property names the ones it needs.

### BoundedQueue and MessageQueue

`BoundedQueue` is the promise: append and take, at most `Capacity` messages.
`MessageQueue` is `cmsis_os.c`: acquire a permit, enter the mutex and move an
index and the two flags, post the other semaphore. `Contents` is the refinement
mapping: the slots from `tail` on, as many as the indices and flags say. `astray`
records that an empty queue was polled with timeout 0, or that messages were
reset away: the code then breaks the promise, see section 6.

### Serial

One action per mutex taken and per byte moved. Semaphores and mutexes are
their holders or counts; the queues are the bounded sequences that
`MessageQueue` implements. A byte is its writer and its position, so that the
order of bytes can be told at the other end. The clock is abstracted to what
the code's comparisons can find: a deadline has passed or not, and the second
look may find some time, none, or a wrapped difference. `Targets` says which
ports a write on a port reaches: the slaves of a master in their order, the
master of a slave, the partner in a pair. The model stops at `astray` (a read
whose transfer left it a timeout of 0 polls an empty queue) and at `halted`.

### ModbusSlave and ModbusMaster

`ModbusSlave` is the thread of a slave: it takes what came before the line was
idle (`LineIdle`: the address, and `write_en` for a write), checks length, count
and byte count (`Check`, with `Verdict` for the eight functions), calls the
application item by item (`Item`), and replies (`SendReply`, `Finish`). The
application may change `write_en` and its data between any two callbacks. By
itself a slave is checked against requests that any master may send, the
malformed ones included (`Foreign`). `ModbusMaster` composes the slaves with
one master of several threads. The twelve `mbm_fcXX` have one body, which the
actions `Call`, `Acquire`, `Send`, `Receive` and `Timeout` follow; they differ in
the request and in what `Expected`, `Compared` and `Parsed` make of it.

A request is a record of what the handlers look at. A reply is a sequence of
bytes, since the master cuts the stream of replies by length and compares
positions in it; the two bytes of a CRC are there and have no value (`ANY`),
since the master does not compare them. `PackedByte` and `RegisterByte` say what
the copying loops leave at each place of a reply. `line` holds the replies on their way, `Deliver`
moves any number of their bytes into `queue_rx`, which stands for the receive
queue of `Serial`. The line loses and damages requests (`Send`): a damaged request,
or two glued together, is `Junk`, which a slave drops for its CRC. It also loses
and damages replies, byte by byte between their pieces (`Damage`), and there the
master does not look: `mb_rtu_rx` stores the CRC of a reply and nothing compares
it. A damaged reply passes if its address, function and length, or the echo of a
write, still fit, and a read then returns what the slave never had.
`NothingLeftOver`, `FrameIsOwn`, `WriteTookEffect` and `CallReturns` hold of damaged
replies too. `ReadIsCurrent` cannot, and excepts the calls that got one: `damage`
counts the damage done to what is on its way or lies in the queue, and is 0
again when a call returns and leaves neither. The results of earlier calls are
forgotten when the next one takes the mutex.

`Punctual` is the assumption that a slave answers within `rx_timeout` or not at
all: a timeout then passes only when nothing is on its way (`Quiet`). The
properties of the master hold under it and need it: the code does not empty
the receive queue before it sends, so that with `Punctual = FALSE` TLC finds
`ReadIsCurrent` violated by the late answer to a read that timed out, which is
returned as the answer to the next one. Also assumed: a slave does not take the
replies of the other slaves for requests (their lengths and addresses differ),
and the callbacks of a slave are installed.

A range of registers that begins before `MODBUS_CFG_FP_START_IX` and ends behind
it (`Straddles`) is measured in registers of two bytes while its floats take
four. The numbers of items are `uint16_t` (`Number`): behind 65535 a range goes on
with item 0, so that a range of floats that begins near the end straddles the
other way round. Both are modelled: the values written may be any, the reply is
cut or filled up with what an earlier frame left. The properties exclude what
cannot hold of it.

### Timers and OsTimer

`Timers` is what users of `os/cmsis_os.h` may count on, whatever the time:
callbacks of running timers only, one at a time, none while a timer function is
under way. `OsTimer` is `cmsis_os.c`: the table, `timeout_min`, and the pass of a
timer thread cut at every look at the clock and at each callback. A call of
`osTimerNew`, `Start`, `Stop` or `Delete` is one action, since it does all its work
under the mutex. Timeouts are numbers modulo `Wrap`; `owed` and `ahead` are
history: the ticks until a timer is due, and how many times the clock has to
wrap before it shows the timeout's epoch.

`elab_run` calls `osKernelInitialize` twice (`elab_export.c:159` and 162), so that
two timer threads exist and `mutex_timer` is replaced, perhaps while the first
thread holds the old mutex: `InitializeAgain`. A thread evaluates `mutex_timer`
(`Read`, into `mine`), acquires what it has read (`Lock`), and evaluates the
variable again to release it (`Unlock`): if it is replaced between the first and
the last of these, `torn` is set. The model then lets the threads go on until they
are inside, by two mutexes perhaps, and stops there. `Tick` bounds how late a callback gets, and stops where a timer waits for
the next epoch of the clock (`Missed`).

### Button

`Button` takes any timers that keep the promise: it EXTENDS `Timers` and steps
with its actions, so `OsTimer`'s refinement carries over. Registration makes the
timer, registers the device and starts the timer, three actions; removal deletes
the timer and unregisters the device, two. The callback takes the lock, samples
and leaves: `Sample` is the whole body of `_timer_func`, `Told` its `switch`.
Times are kept as differences to the clock, no further than the code compares
them. When callbacks come is left open, because a late timer thread makes up for
missed periods in a burst. `stale` records that registration found a state in
the memory it did not clear.

### Startup and HashTable

A walk over levels and entries, `Position` and `Advance`, serves initialisation
and every exit. One step of a walk is one entry of the table, its function's call
and its return apart. `Signal` starts a handler, in the thread that polls (which
it interrupts for good) or in another; a later handler interrupts an earlier one
of its thread. `Call`, `Return` and `Pass` are the loops of `_poll_func_execute`.
`Cost` bounds the time spent in a function, `MaxLate` how far one may fall behind:
without it a poll function that takes longer than its period keeps the thread for
ever, which the code allows.

`HashTable` cuts a lookup at every cell and an addition between its data and its
hashes, since lookups of other threads come between. One thread adds and
removes, as the creation of simulated devices does, and it adds no name that is
there, as `simu_serial.c:96` asserts. That two names in use agree in all three
hashes is excluded.

## 3. Runs

| Run | Instance | Shows |
|---|---|---|
| `os_tasks` | 5 tasks: three of priority 2, one of priority 1, idle in the middle of the table; delays of 2; rebase at 2, words of 7 values; time to 3 between rebases | `SuspendedHasPeer`, `IdleRunsLast`, `NoEarlyWake`, `WaitGrowsOnlyByResume`, and the liveness property `RoundRobin` |
| `os_timers` | 1 task, idle, a periodic and a one-shot timer, period 3, words of 7 values, so that twice the period behind time 1 wraps; time to 2 between rebases | `NoEarlyFire`, `ClockIsSteady`, `MinBoundLostOnlyBy` |
| `edf_device` | 2 threads, a shared and a sole device, a table of 2, a count to 2, one of the four exceptions at a time (`AtMostOne`) | `TableHoldsLive`, `CountIsOpens`, `SoleHasOneUser`, `OnWhileOpen`, `FindIsRight` |
| `message_queue` | 3 threads, 2 messages, 2 slots, all three kinds of timeout | `PermitsAddUp`, refinement `IsQueue` |
| `serial_bus` | half duplex master with 2 threads, 2 slaves, writes of 2 bytes, queues of 1, a slave that is put into test mode | `WritesStayWhole`, `OneSenderAtATime`, `TxEndIsOwn` |
| `serial_pair` | master and slave, a transfer with a timeout, a writer, readers on both ends | liveness `WriteEnds` |
| `modbus_slave` | 1 slave, items 0 to 3 and 65535, of which register 3 is unknown and those from 2 on are floats, 31 requests of all functions with wrong lengths, counts, functions, addresses, ranges behind 65535, and broadcasts | `SlaveTypeOK`, `EffectAsReported`, `DisableStopsNext` |
| `modbus_master` | 2 threads, 2 slaves, 2 calls out of 7 requests: reads, writes that are carried out, refused half way, and broadcast; one damage (`MaxDamage`), of a byte to 1 (`Noise`) or of all that is left of a reply | `FrameIsOwn`, `NothingLeftOver`, `ReadIsCurrent`, `WriteTookEffect`, liveness `CallReturns` |
| `timers` | 2 timers, 2 timer threads, periods of 1 and 2, a clock of 10 values that starts anywhere, callbacks up to one tick late | `MinIsBound`, `OnePassAtATime`, `TimerNotEarly`, refinement `KeepsPromise`, liveness `TimerFires` |
| `button` | one button; a click of 2 to 4 ticks, a pause of 3, four samples | `CallbackHasDevice`, `GesturesAreBacked`, liveness `GestureEnds` |
| `startup` | 2 levels with an initialisation and an exit function each, out of order; periods 2 and 4, a clock of 10 values, up to 4 ticks late, 2 signals. Apart from it: 4 names, 3 cells, searches that pass one taken cell, one reader | `LevelsInOrder`, `PollsOnTime`, `LookupIsRight`, liveness `PollsEndlessly` |
| `serial_late` | as `serial_pair` | `TimedReadEnds` is violated, section 6 |

The type invariants (`TypeOK` of each module) are conjuncts of the inductive
invariants of section 4.

Why these bounds are enough. The clock: `Day15` and `Wrap` are small so that
rebases and wraps happen within a few ticks; `MaxTime` leaves time for a timeout
to be passed, overdue, and rebased; that a task calls `bos_check_timer` before
time exceeds it is the one restriction on the environment, and it is named. Three
tasks of one priority are the least among which a wrong search starves one; one
task of priority 1 meets the idle task's priority. The ring with two slots is
empty, partly filled and full; three threads give two of one side against one of
the other. Two devices are the least for a hole; two threads the least for every
pair of unlocked read and change, and the least that can make two edf mutexes.
`AtMostOne` cuts the run where a second one of `holed`, `torn`, `failed` and `met` would
begin: each property excepts at least one of them or none, and the proofs need no
such cut. A byte of a reply that becomes 1 may be a value, an item, an address or
a function that another request of the run has. Queues of one byte are full at nearly every
step. Frames of two bytes can be torn. In the Modbus runs a write of two items can
fail at its second; two calls are the least of which one can meet what the
other left; that replies of all functions, with one to nine items, are as long
as the master expects, pass its comparison and are parsed to what was read is
evaluated as an assumption of the run (`RepliesArePassed`), and so is that an
exception is shorter than every reply (`ExceptionsAreShort`); section 4 has the
lemmas for all requests. Two timers are the least for one
that is due behind one that is not, and for a bound that names a stopped timer;
a clock of ten values wraps inside every run. The button's times keep the order
of the code's (pause shorter than the longest click, long press from there on).
In the table of names three names begin at the last cell, of which two find
room: the search wraps, meets gaps, and meets its limit.

`VIEW`s leave out history that no action reads and that the run's properties do
not mention (each MC module says why); `CHECK_DEADLOCK FALSE` is set where the
program may stop at a failed assertion or where the run ends at `astray`. The
message queue's run is cut with the constraint `~astray`, since nothing is
promised beyond.

Fairness. `RoundRobin` assumes that the tick interrupt keeps coming, that the
kernel finishes its steps, and that a task calls the kernel again: BasicOS is
cooperative, and its tasks are endless loops around `bos_delay_ms`. `WriteEnds`
assumes strong fairness of the writers' steps (a mutex that is free again and
again is obtained: POSIX mutexes under a fair scheduler), weak fairness of the
receiving threads and readers, and that a port is given back from test mode.
No fairness is assumed of calls to write. `TimerFires` assumes that time passes, that
both timer threads run and that callbacks return, and nothing of the calls.
`GestureEnds` assumes that the callback gets the device's mutex in its turn (strong
fairness), that threads leave the functions of the button, and that a registration
or removal that was begun is finished; nothing is assumed of the pin.
`PollsEndlessly` assumes that the polling thread runs, that poll functions return,
and that a handler that runs goes on. `CallReturns` assumes strong fairness of
taking the master's mutex, and weak fairness of the other steps of a call (the
timeout among them), of the slaves' threads and of the serial port's receiving
thread. That `elab_serial_read` ends by its timeout is taken from its interface;
`serial_late` shows the one way in which it does not.

## 4. Proofs

`tlapm` proves, for every value of the constants that satisfies the named
assumptions (`TaskAssumption`, `TimeAssumption`, `QueueAssumption`, `SlaveAssumption`,
`LimitAssumption`, `WordAssumption`, `RequestAssumption`, `MasterAssumption`,
`EdfAssumption`, `TimerAssumption`, `ButtonAssumption`, `SerialAssumption`,
`StartupAssumption`, `HashAssumption`):

* `BasicOSProofs`. `TaskInv` is the conjunction of `TypeOK`, `SuspendedHasPeer`,
  `CurrentIsReady`, `IdleRunsLast` and two facts that make it inductive: the
  idle task is always ready, and only the task that has the CPU is inside a
  callback. `TypeCorrect`, `ParkedKeepAPeer` and `CpuGoesToReady` follow.
  `ClockInv` adds how absolute times and owed ticks relate: the time left to a
  delayed task is at least `remain`, also modulo a wrapped rebase
  (`DelayHolds`); the same for timers (`TimerHolds`) and for a timer that was
  started inside its own callback (`RestartHolds`). `DelaysAreNeverShort`,
  `TimersAreNeverEarly` and `WaitsOnlyShrink` are the action properties
  `NoEarlyWake`, `NoEarlyFire` and `WaitGrowsOnlyByResume`.
  `ClockMovesByTicks` follows from the types alone: a sum that wraps at most once
  keeps its remainder when the rebase moves a part of it from one summand to the
  other. `MinBoundLostInThreeWays` needs `MinInv`: while a callback runs, the timeout
  of its own timer leaves room for the period that is added when it returns, also if
  the callback started or reset that timer (`CallbackNear`), or the sum wraps, which is
  the third way. `Prio`, the number
  of tasks and timers, and the word width are arbitrary. The one bound in these
  theorems is `MaxTime`, how long no task calls `bos_check_timer`: `TimeAssumption`
  asks that it leaves room in a word for one delay and for one period. With 30 days,
  the longest that `bos_timer_start` accepts, these are almost 20 days of 49.7.
  It does not ask for room for a second period: the wrap in `CallbackReturn` is in the
  model, and what the invariant says of a timer's timeout holds unless it is `lapped`.
* `MessageQueueProofs`. `Inv` is `TypeOK`, the relation of flags and indices
  (`Ring`: equal indices mean empty or full, and never both) and
  `PermitsAddUp`. It is inductive for every capacity, every finite set of
  threads and all messages. `PermitsAreKept` adds `FlagsDiffer`; `RingIsQueue`
  is the refinement of `BoundedQueue`, from the lemmas on what storing and
  taking do to `Contents`.
* `SerialProofs`. `SenderInv`: who is between `elab_serial_write`'s two locks holds
  `mutex_tx`, and is the one sender of its port; `sem_tx` has a permit only for
  that sender. `BusInv` and `PutInv`: a thread in the driver holds the mutexes of
  both ends while it puts bytes. `StreamInv` is the heart of it: what was read
  last, the receive queue, the byte the receiving thread has in its hand, and
  the wire, taken together, are whole writes one behind the other, and only the newest
  may be unfinished; then its writer is in the driver, at the next byte.
  `SerialWritesStayWhole`, `SerialOneSenderAtATime` and `SerialTxEndIsOwn` are the
  properties of `serial_bus`, `SerialTypes` the types, for any ports, threads,
  lengths of writes and queues.
* `ModbusProofs`, in three layers. *The replies*: lemmas say how long each reply
  is and what is at each of its places (`ExceptionSays`, `EchoSays`, `ReadSays`),
  and that what the master parses from the reply to a read is what the slave read
  (`ParsedIsRead`: eight coils to a byte and the master's masks, registers of two
  and of four bytes). *The slaves*: `SlaveInv` says of each that what is done of
  a request is what was asked for, in order, that a write being served was
  taken while writes were enabled, and that a request in its loop has passed the
  limits, so that its reply fits into a frame: all are needed at the end of a
  request, when the reply is made. It is inductive for the slaves with any master
  (`SlaveInvariant`) and, with `MutexInv` and `ChannelShape`, for the line of
  `ModbusMaster` (`LineInvariant`; `SlavesOfNext` reduces a step of the composition
  to a step of a slave or of none). `RepliesTellEffects`, `DisabledWritesStop` and
  `SlaveTypes` are the properties of `modbus_slave`, `MutexGuardsFrame` is
  `FrameIsOwn`, and `LineRepliesTellEffects` carries the first over to the
  composition. *The line*: under `Punctual`, `PunctualInv` says that while a task
  waits there is its request (with the slaves it reached), or the one reply to
  it (`Replied`: what is in the queue and what is still on the line are together
  an answer to this request, by what the slave's data were since it was sent),
  and that otherwise there is nothing a slave would take or a master would read.
  It is inductive because an exception is shorter than any reply that is waited
  for, and no reply is longer: a call takes a whole reply, or times out when
  nothing is on its way. Damage shortens a reply or changes a byte of it: the lengths
  stay below those bounds (`DamageKeepsPunctual`), while `Replied` says what the bytes
  are of an undamaged reply only. `StreamKeepsStep`, `WritesTakeEffect` and `ReadsAreCurrent`
  are `NothingLeftOver`, `WriteTookEffect` and `ReadIsCurrent`. The numbers of slaves,
  threads, items, values and requests are arbitrary.
* `EdfDeviceProofs`. `EdfInv` adds to `TypeOK` and `TableHoldsLive` what a thread may
  rely on inside a call (`PlaceOK`): only its owner registers and unregisters a
  device, so it is the same in all parts of the call; and, until two threads
  have met, that a thread in a section is alone there (`SecInv`), so that the count
  or slot it has read is still right (`ReadOK`). Each device is in one slot at most,
  which makes the count the size of the table's contents. All five properties of
  `edf_device` are proved, for any finite set of threads, the cardinalities
  included, and with the making of the mutex in the model.
* `OsTimerProofs`. `TimerInv`: unless `mutex_timer` was replaced under a thread,
  whoever waits for the mutex waits for the one it names, and whoever is inside
  holds it; `timeout_min` is a
  bound for all running timers, except behind the entry that a pass is at; a
  timeout is the clock plus the ticks owed, less whole epochs. `MinIsBound`,
  `OnePassAtATime`, `TimerNotEarly` follow, and `CallbacksKeepPromise`, the
  refinement of `Timers`, for any number of timers and any width of the clock.
* `ButtonProofs`. `LifeInv` follows the timer through registration and removal,
  where `Timers` keeps callbacks out; `BackedInv` says how many presses each state
  of the machine stands for. With `CallbacksKeepPromise`, `CallbackHasDevice`
  holds of the button over the real timers.
* `StartupProofs`. Of `Startup`: behind its place every walk leaves finished
  functions only, also when it is interrupted; a timeout differs from clock and owed
  ticks by whole epochs, of which the code's two comparisons tell the right one. Any
  table, periods and number of signals. `StartupAssumption` says how late a poll
  function may be: less than 30 days, and less than what the word leaves beyond.
  Of `HashTable`: a stored name has one home, at most `SeekMax` cells from its
  start, and no cell in front of it holds its hashes; a search under way has
  not passed it and has counted no more cells than it has passed. Any capacity,
  limit, hash function and number of readers. That a greatest prime exists is
  proved too (`PrimeMax`).

Only model-checked: liveness (`RoundRobin`, `WriteEnds`, `CallReturns`, `TimerFires`,
`GestureEnds`, `PollsEndlessly`), which is out of the prover's reach, as is everything
about ENABLED. Every invariant and every action property of the runs has its
theorem. That `Sheduler` is what the loop of `bos_sheduler` computes is checked over all task
states of the run's size: it would need induction over a data structure. That the
master's comparison passes a good reply is evaluated on the run's requests
(`RepliesArePassed` of `MCModbusMaster`) and not proved yet. No module declares a
RECURSIVE operator.

## 5. Plan

Done, in this order: `BasicOS`; `EdfDevice`; `BoundedQueue` and `MessageQueue`;
`Serial` with the simulated bus; `ModbusSlave` and `ModbusMaster`; `Timers` and
`OsTimer`; `Button`; `HashTable`; `Startup`; with the proof modules of all of them.

What would come next: that a punctual slave's good reply passes the master's
comparison (`Compared` after `ReadBytes` and `EchoBytes`), proved as `ParsedIsRead` is;
registration and removal of serial ports, with the end of the receiving thread;
CAN's receive queue, which follows the serial port's.

## 6. Where the code disagrees with its own words

| Configuration | Claim | What happens |
|---|---|---|
| `MCBasicOSSleep.cfg` | `bos_delay_ms` delays "for the given time" (`basic_os.c:293`) | the idle task gives way between waking and rebasing; a delay that expires meanwhile wraps to almost 2^32 ms |
| `MCBasicOSStop.cfg` | false means "not timer is timeout" (`basic_os.c:505`) | after `bos_timer_stop` the check passes over other timers that are due, line 465 |
| `MCEdfFind.cfg` | the test finds each device before it unregisters it (`test_edf_core.c:134`) | a hole in the table ends the search |
| `MCBasicOSPeriod.cfg` | `bos_timer_start` accepts periods of up to 30 days (`basic_os.c:432`) | started again in its own callback, a timer is next due two periods on, line 587; above some 17 days that wraps, and it is called at once |
| `MCOsTimerTwice.cfg` | "Create one thread for timer function" (`cmsis_os.c:101`) | `elab_run` initialises twice; the first thread may work on the table under the mutex that was replaced, beside the second |
| `MCEdfFirst.cfg` | "This function registers a device driver" (`elab_device.c:37`) | two first callers make a mutex each, line 403, and store in the same slot: one device is lost |
| `MCEdfAccess.cfg` | a device that is read is enabled (`elab_device.c:352`) | the last user closes it between the assertion and the call of the driver, line 363 |
| `MCModbusNoise.cfg` | a read "will receive the current value" (`modbus_master.c:340`) | the CRC of a reply is never compared: damaged data is returned with `MODBUS_ERR_NONE` |
| run `serial_late`, `MCSerialLate.cfg` | a read with a timeout of 10 ms returns `ELAB_ERR_TIMEOUT` (`test_serial.c:394`) | the deadline passes between two looks at the clock and the wait becomes `osWaitForever` |

All but the last are configurations to be run by hand; `MCBasicOSSleep.cfg` goes with
`MCBasicOSTasks.tla`, `MCBasicOSStop.cfg` and `MCBasicOSPeriod.cfg` with
`MCBasicOSTimers.tla`, `MCEdfFind.cfg`, `MCEdfFirst.cfg` and `MCEdfAccess.cfg` with
`MCEdfDevice.tla`, `MCOsTimerTwice.cfg` with `MCOsTimer.tla` and `MCModbusNoise.cfg` with
`MCModbusMaster.tla`. Each checks one property, whose comment gives the claim, and TLC
prints the behaviour in question.

More have no configuration of their own. A poll function may have a period of up
to 30 days (`elab_export.h:110`), but with more than 2^32 ms less 30 days, some 19.7
days, it is called at once when its timeout lies behind the wrap of the clock
(`elab_export.c:346`): `PollsOnTime` speaks of the periods that fit (`Short`).
`osTimerStop` and `osTimerDelete` have a branch that computes `timeout_min` again and
is never taken, because the state has been assigned before it is compared
(`cmsis_os.c:689`): harmless, as `MinIsBound` and `TimerFires` show. Timers compare
their timeouts by size, so that one whose sum wraps is called at once and one
that misses the wrap waits for 49.7 days; `TimerNotEarly` and `TimerFires` name both.
A 33rd timer is written behind the table (`cmsis_os.c:599`). A button that is pressed
for a second time longer than 500 ms tells nothing and keeps its state until the
next press (`elab_button.c:243`), the exception `Overlong` of `GestureEnds`.
`elab_button_register` does not set `state`, so that a button in memory from
`malloc` may begin with a gesture nobody made: `stale`. `osMessageQueueGet` with timeout 0 takes a
stale slot from an empty queue (`cmsis_os.c:396` tells only `osErrorTimeout` from
success; `cmsis_os.h:722` says "timeout if Queue is empty"): the models record it
as `astray` and promise nothing beyond. Two ends of a simulated bus that write
at the same time wait for each other's mutex for ever (`simu_serial.c:399` and
417): `WriteEnds` names it as its exception, `Crossed`. A request of a Modbus
master that timed out may be answered late and taken for the answer to the
next, although that "will receive the current value" (`modbus_master.c:340`):
`Punctual` excludes it. The comments of the `mbm_fcXX` say `MODBUS_ERR_RX` of a
timeout; the code returns `MODBUS_ERR_TIMED_OUT`.

The comment at `basic_os.c:117` calls the idle task's priority the lowest, while
tasks of priority 1 share it: `IdleRunsLast` therefore speaks of tasks above
priority 1.

## 7. Not modelled

Formatting and logging; the third party code, examples and lessons; the Win32
and MCU layers; drivers that are register or file access only; the creation and
destruction of ports, buses and channels; Modbus ASCII; `osMessageQueueDelete`.

Event flags (`cmsis_os.c`) have users among tests and examples only. LED, ADC, CAN,
SPI, I2C and the other device classes are one driver call under a lock. The
signal captor's ring is filled and drained with nothing in between; what a race
leaves of it is up to compiler and processor. How BasicOS lays out and moves
stacks is address arithmetic on the compiler's calling convention. The event
database reads an INI file. Most of the repository's lines are vendored headers,
chip support and lessons, of which none is part of the program.

## 8. Running it

    tlc -workers 2 -config MCBasicOSTasks.cfg MCBasicOSTasks.tla
    tlapm BasicOSProofs.tla

The larger runs take one to three minutes.
