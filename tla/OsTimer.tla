------------------------------ MODULE OsTimer -------------------------------
(***************************************************************************)
(* The timers of the POSIX layer (elab/os/posix/cmsis_os.c): a table under *)
(* one mutex, a bound on the earliest timeout, and a thread that calls the *)
(* callbacks while it holds the mutex.                                     *)
(*                                                                         *)
(* elab_run initialises the kernel twice (elab/common/elab_export.c), so   *)
(* there are two such threads.  The first evaluates mutex_timer, waits for *)
(* the mutex it has read and evaluates the variable again to release it;   *)
(* the second initialisation may replace the mutex anywhere between these. *)
(* Two threads then work on the table under two mutexes (torn): the model  *)
(* follows them into the critical section and stops there.                 *)
(*                                                                         *)
(* A call of a timer function is one action: it does its work under the    *)
(* mutex and waits for nothing there.  Words of 32 bits are numbers modulo *)
(* Wrap.  MaxLate bounds how late a callback comes.                        *)
(***************************************************************************)
EXTENDS Integers

CONSTANTS
  Count,      \* RTOS_TIMER_NUM_MAX
  Wrap,       \* 2^32
  Ticks,      \* the periods given to osTimerStart
  MaxLate,    \* bound
  None

Slot == 0 .. Count - 1
Word == 0 .. Wrap - 1
UINT32_MAX == Wrap - 1

(* The timer threads and mutexes of the two initialisations.               *)
TimerThread == {1, 2}

ASSUME TimerAssumption ==
  /\ Count \in Nat \ {0}
  /\ Wrap \in Nat /\ Wrap > 1
  /\ Ticks \subseteq 1 .. Wrap - 1
  /\ MaxLate \in Nat
  /\ None \notin Slot \cup TimerThread

VARIABLES
  state, type, timeout, ticks,   \* fields of the table's entries
  timeout_min,
  clock,        \* osKernelGetTickCount
  mutex_timer,  \* which of the two mutexes the variable names
  owner,        \* of each mutex
  pc, i,        \* of each timer thread: where it is, the entry it is at
  mine,         \* of each timer thread: the mutex it waits for
  torn,         \* history: mutex_timer was replaced under a thread that used it
  owed,         \* history: ticks until the timer is due, negative when late
  ahead         \* history: epochs of the clock between it and the timeout

(* The timer whose callback runs.                                          *)
Calling == IF \E t \in TimerThread : pc[t] = "call"
             THEN i[CHOOSE t \in TimerThread : pc[t] = "call"] ELSE None

Promise == INSTANCE Timers WITH calling <- Calling

tableVars  == <<state, type, timeout, ticks, timeout_min>>
threadVars == <<mutex_timer, owner, pc, i, mine, torn>>
timeVars   == <<owed, ahead>>
vars == <<tableVars, threadVars, timeVars, clock>>

Booted  == mutex_timer = 2
Free    == owner[mutex_timer] = None
Running == {s \in Slot : state[s] = "run"}

-----------------------------------------------------------------------------
(* The first osKernelInitialize has ended. *)
Init ==
  /\ state = [s \in Slot |-> "unused"]
  /\ type = [s \in Slot |-> "once"]
  /\ timeout = [s \in Slot |-> 0]
  /\ ticks = [s \in Slot |-> 0]
  /\ timeout_min = 0
  /\ clock \in Word
  /\ mutex_timer = 1
  /\ owner = [m \in TimerThread |-> None]
  /\ pc = [t \in TimerThread |-> IF t = 1 THEN "wait" ELSE "off"]
  /\ i = [t \in TimerThread |-> 0]
  /\ mine = [t \in TimerThread |-> 1]
  /\ torn = FALSE
  /\ owed = [s \in Slot |-> 0]
  /\ ahead = [s \in Slot |-> 0]

(* The first thread has read the name of the mutex and not yet let go. *)
Reading == pc[1] \notin {"wait", "delay"}

(* The second one: a new mutex, a second thread, and a table that no one   *)
(* has used yet.                                                           *)
InitializeAgain ==
  /\ ~Booted
  /\ state' = [s \in Slot |-> "unused"]
  /\ mutex_timer' = 2
  /\ pc' = [pc EXCEPT ![2] = "wait"]
  /\ torn' = Reading
  /\ UNCHANGED <<type, timeout, ticks, timeout_min, owner, i, mine, timeVars, clock>>

(* Before the threads of the program run, nobody calls a timer function.   *)
MayCall == Booted /\ Free /\ ~torn

osTimerNew(s, k) ==
  /\ MayCall
  /\ state[s] = "unused"
  /\ \A r \in 0 .. s - 1 : state[r] # "unused"
  /\ state' = [state EXCEPT ![s] = "idle"]
  /\ type' = [type EXCEPT ![s] = k]
  /\ UNCHANGED <<timeout, ticks, timeout_min, threadVars, timeVars, clock>>

(* Mutant: the bound on the timeouts is left alone. *)
StartForgetsMin(s, n) ==
  /\ MayCall
  /\ state[s] # "unused"
  /\ timeout' = [timeout EXCEPT ![s] = (n + clock) % Wrap]
  /\ ticks' = [ticks EXCEPT ![s] = n]
  /\ state' = [state EXCEPT ![s] = "run"]
  /\ owed' = [owed EXCEPT ![s] = n]
  /\ ahead' = [ahead EXCEPT ![s] = (n + clock) \div Wrap]
  /\ UNCHANGED <<type, timeout_min, threadVars, clock>>

osTimerStart(s, n) ==
  /\ MayCall
  /\ state[s] # "unused"
  /\ timeout' = [timeout EXCEPT ![s] = (n + clock) % Wrap]
  /\ ticks' = [ticks EXCEPT ![s] = n]
  /\ state' = [state EXCEPT ![s] = "run"]
  /\ timeout_min' = IF timeout_min > timeout'[s] THEN timeout'[s] ELSE timeout_min
  /\ owed' = [owed EXCEPT ![s] = n]
  /\ ahead' = [ahead EXCEPT ![s] = (n + clock) \div Wrap]
  /\ UNCHANGED <<type, threadVars, clock>>

(* Both assign the state before they compare it with RUN: the branch that  *)
(* would compute timeout_min again is never taken.                         *)
Retire(s, st) ==
  /\ MayCall
  /\ state[s] # "unused"
  /\ state' = [state EXCEPT ![s] = st]
  /\ UNCHANGED <<type, timeout, ticks, timeout_min, threadVars, timeVars, clock>>

(* Mutant: a timer is stopped without waiting for mutex_timer. *)
StopWithoutMutex(s) ==
  /\ Booted /\ ~torn
  /\ state[s] # "unused"
  /\ state' = [state EXCEPT ![s] = "idle"]
  /\ UNCHANGED <<type, timeout, ticks, timeout_min, threadVars, timeVars, clock>>

osTimerStop(s)   == Retire(s, "idle")
osTimerDelete(s) == Retire(s, "unused")

-----------------------------------------------------------------------------
(* _thread_entry_timer *)
Goto(t, where) == pc' = [pc EXCEPT ![t] = where]

(* osMutexAcquire(mutex_timer): the argument is evaluated first ... *)
Read(t) ==
  /\ pc[t] = "wait"
  /\ mine' = [mine EXCEPT ![t] = mutex_timer]
  /\ Goto(t, "enter")
  /\ UNCHANGED <<tableVars, mutex_timer, owner, i, torn, timeVars, clock>>

(* Mutant: the thread goes in without the mutex. *)
LockAnyway(t) ==
  /\ pc[t] = "enter"
  /\ owner' = [owner EXCEPT ![mine[t]] = t]
  /\ Goto(t, "look")
  /\ UNCHANGED <<tableVars, mutex_timer, i, mine, torn, timeVars, clock>>

(* ... and the mutex of then is waited for. *)
Lock(t) ==
  /\ pc[t] = "enter" /\ owner[mine[t]] = None
  /\ owner' = [owner EXCEPT ![mine[t]] = t]
  /\ Goto(t, "look")
  /\ UNCHANGED <<tableVars, mutex_timer, i, mine, torn, timeVars, clock>>

Look(t) ==
  /\ ~torn /\ pc[t] = "look"
  /\ Goto(t, IF timeout_min <= clock THEN "scan" ELSE "unlock")
  /\ i' = [i EXCEPT ![t] = 0]
  /\ UNCHANGED <<tableVars, mutex_timer, owner, mine, torn, timeVars, clock>>

Step(t) == i' = [i EXCEPT ![t] = @ + 1]

(* Mutant: when one timer is due, all that run are called. *)
DueWithTheRest(s) == state[s] = "run" /\ clock >= timeout_min

Due(s) == state[s] = "run" /\ clock >= timeout[s]

Examine(t) ==
  /\ ~torn /\ pc[t] = "scan" /\ i[t] \in Slot
  /\ \/ Due(i[t]) /\ Goto(t, "call") /\ UNCHANGED i
     \/ ~Due(i[t]) /\ Step(t) /\ UNCHANGED pc
  /\ UNCHANGED <<tableVars, mutex_timer, owner, mine, torn, timeVars, clock>>

(* The callback has returned. *)
Return(t) ==
  /\ ~torn /\ pc[t] = "call"
  /\ LET s == i[t] IN
       \/ /\ type[s] = "periodic"
          /\ timeout' = [timeout EXCEPT ![s] = (@ + ticks[s]) % Wrap]
          /\ owed' = [owed EXCEPT ![s] = @ + ticks[s]]
          /\ ahead' = [ahead EXCEPT ![s] = @ + ((timeout[s] + ticks[s]) \div Wrap)]
          /\ UNCHANGED state
       \/ /\ type[s] = "once"
          /\ state' = [state EXCEPT ![s] = "idle"]
          /\ UNCHANGED <<timeout, timeVars>>
  /\ Goto(t, "scan")
  /\ Step(t)
  /\ UNCHANGED <<type, ticks, timeout_min, mutex_timer, owner, mine, torn, clock>>

(* What the loop over the running timers computes. *)
LeastOfTimeouts(m) ==
  /\ m \in Word
  /\ \A s \in Running : m <= timeout[s]
  /\ m = UINT32_MAX \/ \E s \in Running : m = timeout[s]

Update(t) ==
  /\ ~torn /\ pc[t] = "scan" /\ i[t] = Count
  /\ timeout_min' \in Word /\ LeastOfTimeouts(timeout_min')
  /\ Goto(t, "unlock")
  /\ UNCHANGED <<state, type, timeout, ticks, mutex_timer, owner, i, mine, torn, timeVars, clock>>

(* Mutant: the mutex is released where the table was scanned only. *)
UnlockAfterScan(t) ==
  /\ ~torn /\ pc[t] = "unlock"
  /\ owner' = IF i[t] = Count THEN [owner EXCEPT ![mutex_timer] = None] ELSE owner
  /\ Goto(t, "delay")
  /\ UNCHANGED <<tableVars, mutex_timer, i, mine, torn, timeVars, clock>>

(* The mutex that mutex_timer names by then is released.  osDelay follows. *)
Unlock(t) ==
  /\ ~torn /\ pc[t] = "unlock"
  /\ owner' = [owner EXCEPT ![mutex_timer] = None]
  /\ Goto(t, "delay")
  /\ UNCHANGED <<tableVars, mutex_timer, i, mine, torn, timeVars, clock>>

Missed(s) == state[s] = "run" /\ ahead[s] < 0

(* Time is bounded in two ways: no callback is later than MaxLate while a  *)
(* thread is on its way to call it, and a timer that the clock's wrap left *)
(* behind is not followed for a whole epoch.                               *)
Tick ==
  /\ ~torn
  /\ \A s \in Slot : ~Missed(s)
  /\ \/ \A s \in Running : owed[s] > -MaxLate
     \/ \A t \in TimerThread : pc[t] \in {"off", "delay"}
  /\ clock' = (clock + 1) % Wrap
  /\ owed' = [s \in Slot |-> IF s \in Running THEN owed[s] - 1 ELSE owed[s]]
  /\ ahead' = [s \in Slot |-> IF s \in Running /\ clock' = 0 THEN ahead[s] - 1 ELSE ahead[s]]
  /\ pc' = [t \in TimerThread |-> IF pc[t] = "delay" THEN "wait" ELSE pc[t]]
  /\ UNCHANGED <<tableVars, mutex_timer, owner, i, mine, torn>>

ThreadNext(t) ==
  \/ Read(t) \/ Lock(t) \/ Look(t)
  \/ Examine(t) \/ Return(t) \/ Update(t) \/ Unlock(t)

CallNext(s) ==
  \/ \E k \in {"once", "periodic"} : osTimerNew(s, k)
  \/ \E n \in Ticks : osTimerStart(s, n)
  \/ osTimerStop(s) \/ osTimerDelete(s)

Next ==
  \/ InitializeAgain
  \/ \E t \in TimerThread : ThreadNext(t)
  \/ \E s \in Slot : CallNext(s)
  \/ Tick

Spec == Init /\ [][Next]_vars

(* Time passes, the timer threads run, and callbacks return.               *)
FairSpec ==
  /\ Spec
  /\ WF_vars(InitializeAgain) /\ WF_vars(Tick)
  /\ \A t \in TimerThread : WF_vars(ThreadNext(t))

-----------------------------------------------------------------------------
TypeOK ==
  /\ state \in [Slot -> {"unused", "idle", "run"}]
  /\ type \in [Slot -> {"once", "periodic"}]
  /\ timeout \in [Slot -> Word]
  /\ ticks \in [Slot -> Word]
  /\ timeout_min \in Word
  /\ clock \in Word
  /\ mutex_timer \in TimerThread
  /\ owner \in [TimerThread -> TimerThread \cup {None}]
  /\ pc \in [TimerThread -> {"off", "wait", "enter", "look", "scan", "call", "unlock", "delay"}]
  /\ i \in [TimerThread -> 0 .. Count]
  /\ mine \in [TimerThread -> TimerThread]
  /\ torn \in BOOLEAN
  /\ owed \in [Slot -> Int]
  /\ ahead \in [Slot -> Int]

Inside(t) == pc[t] \in {"look", "scan", "call", "unlock"}

(* timeout_min is not later than the timeout of any running timer while    *)
(* nobody is at work on the table, although osTimerStop and osTimerDelete  *)
(* leave it as it was: a timer that is due is not passed over.             *)
MinIsBound ==
  Free /\ Booted /\ ~torn => \A s \in Running : timeout_min <= timeout[s]

(* The two timer threads that a double initialisation leaves behind do not *)
(* work on the table, and do not run callbacks, at the same time: whoever  *)
(* is inside holds the mutex that the timer functions take too.            *)
OnePassAtATime ==
  ~torn => \A t \in TimerThread : Inside(t) => owner[mutex_timer] = t

Begins(s) == \E t \in TimerThread : pc[t] = "scan" /\ pc'[t] = "call" /\ i[t] = s

(* No callback comes before its ticks have passed, counted from            *)
(* osTimerStart or from the last time it was due, as long as its timeout   *)
(* lies in the same epoch of the 32 bit clock: a sum that wrapped is due   *)
(* at once.                                                                *)
TimerNotEarly ==
  [][\A s \in Slot : Begins(s) => owed[s] <= 0 \/ ahead[s] > 0]_vars

(* Callbacks keep what Timers says: none for a timer that is stopped or    *)
(* deleted, none while a timer function is under way, one call per start   *)
(* of a timer that fires once.                                             *)
KeepsPromise == Promise!TimersSpec

(* A running timer is called, unless it is started again for ever or the   *)
(* clock wrapped before a thread looked: a timer then waits for the next   *)
(* epoch.                                                                  *)
TimerFires == \A s \in Slot :
  \/ []<><<\E n \in Ticks : osTimerStart(s, n)>>_vars
  \/ (state[s] = "run") ~> \/ \E t \in TimerThread : pc[t] = "call" /\ i[t] = s
                           \/ state[s] # "run" \/ torn
                           \/ \E r \in Slot : Missed(r)

-----------------------------------------------------------------------------
(* What a comment of the source claims, and the code does not keep.        *)

(* "Create one thread for timer function": the table is never in the hands *)
(* of two timer threads.                                                   *)
OneThreadInside ==
  \A t, u \in TimerThread : Inside(t) /\ Inside(u) => t = u
=============================================================================
