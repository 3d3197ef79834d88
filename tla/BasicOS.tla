------------------------------ MODULE BasicOS ------------------------------
(***************************************************************************)
(* The BasicOS kernel (elab/os/basic_os/basic_os.c): cooperative tasks     *)
(* with priorities, round robin among tasks of one priority, delays and    *)
(* soft timers, all driven by one millisecond counter that the tick        *)
(* interrupt advances.                                                     *)
(*                                                                         *)
(* Tasks are only switched inside kernel calls, so between two critical    *)
(* sections of a call the only other actor is the tick interrupt.  One     *)
(* action is one critical section; pc says where in a kernel call a task   *)
(* stands.  bos_check_timer is left at two places: the idle task calls the *)
(* scheduler in its middle (and resumes there when it runs again), and a   *)
(* timer callback runs with the critical section released.                 *)
(***************************************************************************)
EXTENDS Integers, FiniteSets

CONSTANTS
  TaskCount,   \* bos.task_count, the idle task included
  Idle,        \* position of the idle task in the exported task table
  Prio,        \* declared priority of each task; the idle task declares 1
  MaxPriority, \* BOS_MAX_PRIORITY
  TimerCount,  \* bos.timer_count
  OneShot,     \* the timers exported with oneshoot # 0
  Wrap,        \* UINT32_MAX + 1
  Day15,       \* BOS_MS_NUM_15DAY
  MaxTime,     \* bound: some task enters bos_check_timer before time exceeds it
  Delays,      \* the arguments of bos_delay_ms
  Periods      \* the arguments of bos_timer_start and bos_timer_reset

Task  == 0 .. TaskCount - 1
Timer == 0 .. TimerCount - 1
Word  == 0 .. Wrap - 1

ASSUME TaskAssumption ==
  /\ TaskCount \in Nat \ {0}
  /\ Idle \in Task
  /\ MaxPriority \in Nat
  /\ Prio \in [Task -> 1 .. MaxPriority]
  /\ Prio[Idle] = 1

ASSUME TimeAssumption ==
  /\ TimerCount \in Nat \ {0}
  /\ OneShot \subseteq Timer
  /\ Wrap \in Nat /\ Day15 \in Nat \ {0}
  /\ MaxTime \in Nat /\ MaxTime + 1 < Wrap
  /\ Delays \subseteq Nat \ {0} /\ \A d \in Delays : MaxTime + 1 + d < Wrap
  /\ Periods \subseteq Nat /\ \A p \in Periods : MaxTime + 1 + p < Wrap

VARIABLES
  state,       \* task_data->state ("Running" is declared and never assigned)
  timeout,     \* task_data->timeout; 0 once the task is woken, when nothing reads it
  current,     \* bos_current
  pc,          \* where the task stands in a kernel call
  time,        \* bos.time
  idleBackup,  \* bos.time_idle_backup
  timeOffset,  \* bos.time_offset
  timeOutMin,  \* bos.time_out_min
  running,     \* timer->running
  tmo,         \* timer->timeout
  period,      \* timer->period
  cb,          \* index of the loop of bos_check_timer while a callback runs
  remain,      \* history: ticks left of the delay a task asked for
  tremain,     \* history: ticks left until a started timer may first fire
  lapped       \* history: the timeout has wrapped since the timer was started

taskVars  == <<state, timeout, current, remain>>
clockVars == <<time, timeOffset>>
timerVars == <<running, tmo, period, tremain, lapped>>
vars == <<taskVars, clockVars, timerVars, pc, idleBackup, timeOutMin, cb>>

-----------------------------------------------------------------------------
(* uint32_t subtraction. *)
Sub(x, y) == (x - y) % Wrap

(* How many tasks a scan of the table that starts behind task c passes     *)
(* before it looks at t; c itself comes last.                              *)
ScanDistance(c, t) == (t - c - 1) % TaskCount

FirstAfter(c, S) ==
  CHOOSE t \in S : \A u \in S : ScanDistance(c, t) <= ScanDistance(c, u)

Lowest(S) == CHOOSE i \in S : \A j \in S : i <= j

(* Mutant: any task of the priority is taken for a peer, a delayed one too. *)
PeersAnyState(t, st) ==
  {u \in Task \ {t} : Prio[u] = Prio[t] /\ st[u] # "Stop"}

(* The tasks that may take over from t at t's own priority. *)
Peers(t, st) ==
  {u \in Task \ {t} : Prio[u] = Prio[t] /\ st[u] \in {"Suspended", "Ready"}}

(* bos_sheduler: the first ready task of the highest priority in scan      *)
(* order.  The idle task takes part with its declared priority 1; it is    *)
(* passed over for a ready task of priority 1 only if the task that gives  *)
(* up the CPU has priority 1 itself.                                       *)
TopReady(st) ==
  {t \in Task : /\ st[t] = "Ready"
                /\ \A u \in Task : st[u] = "Ready" => Prio[u] <= Prio[t]}

Sheduler(c, st) ==
  LET top   == TopReady(st)
      first == FirstAfter(c, top)
  IN  IF first = Idle /\ Prio[c] = 1 /\ top # {Idle}
        THEN FirstAfter(c, top \ {Idle})
        ELSE first

MinTimeout(run, tm) == Lowest({Wrap - 1} \cup {tm[i] : i \in {j \in Timer : run[j]}})

-----------------------------------------------------------------------------
(* basic_os_init, then basic_os_run up to the first task switch. *)
Init ==
  /\ state = [t \in Task |-> "Ready"]
  /\ timeout = [t \in Task |-> 0]
  /\ current = Lowest({t \in Task : \A u \in Task : Prio[u] <= Prio[t]})
  /\ pc = [t \in Task |-> "app"]
  /\ time = 0 /\ idleBackup = 0 /\ timeOffset = 0
  /\ timeOutMin = Wrap - 1
  /\ running = [i \in Timer |-> FALSE]
  /\ tmo = [i \in Timer |-> 0]
  /\ period = [i \in Timer |-> 0]
  /\ cb = 0
  /\ remain = [t \in Task |-> 0]
  /\ tremain = [i \in Timer |-> 0]
  /\ lapped = [i \in Timer |-> FALSE]

(* bos_tick, from the timer interrupt. *)
BosTick ==
  /\ time < MaxTime \/ (time = MaxTime /\ idleBackup = time)
  /\ time' = time + 1
  /\ remain' = [t \in Task |-> IF remain[t] = 0 THEN 0 ELSE remain[t] - 1]
  /\ tremain' = [i \in Timer |-> IF tremain[i] = 0 THEN 0 ELSE tremain[i] - 1]
  /\ UNCHANGED <<state, timeout, current, pc, idleBackup, timeOffset, timeOutMin,
                 running, tmo, period, lapped, cb>>

-----------------------------------------------------------------------------
(* bos_check_timer *)

(* Where a task goes on when bos_check_timer returns. *)
AfterCheck(t) == IF t = Idle THEN "app" ELSE "select"

(* Mutant: bos.time is cleared before it is added to bos.time_offset. *)
CheckTimersOffsetLate(t, st) ==
  LET base == IF time >= Day15 THEN time ELSE 0
  IN  /\ time' = time - base
      /\ timeOffset' = (timeOffset + time') % Wrap
      /\ timeout' = [u \in Task |-> IF st[u] = "Blocked" THEN Sub(timeout[u], base) ELSE 0]
      /\ tmo' = [i \in Timer |-> IF running[i] THEN Sub(tmo[i], base) ELSE tmo[i]]
      /\ timeOutMin' = Sub(timeOutMin, base)
      /\ pc' = [pc EXCEPT ![t] = AfterCheck(t)]
      /\ cb' = cb

(* Mutant: the rebase forgets the delayed tasks. *)
CheckTimersForgetsTasks(t, st) ==
  LET base == IF time >= Day15 THEN time ELSE 0
  IN  /\ time' = time - base
      /\ timeOffset' = (timeOffset + base) % Wrap
      /\ timeout' = timeout
      /\ tmo' = [i \in Timer |-> IF running[i] THEN Sub(tmo[i], base) ELSE tmo[i]]
      /\ timeOutMin' = Sub(timeOutMin, base)
      /\ pc' = [pc EXCEPT ![t] = AfterCheck(t)]
      /\ cb' = cb

(* The part behind the task loop: the 15 day rebase and the timer loop up  *)
(* to its first callback.  st is the state of the tasks by then.           *)
CheckTimers(t, st) ==
  LET base == IF time >= Day15 THEN time ELSE 0
      now  == time - base
      tm   == [i \in Timer |-> IF running[i] THEN Sub(tmo[i], base) ELSE tmo[i]]
      low  == Sub(timeOutMin, base)
      due  == IF now >= low THEN {i \in Timer : running[i] /\ now >= tm[i]} ELSE {}
  IN  /\ time' = now
      /\ timeOffset' = (timeOffset + base) % Wrap
      /\ timeout' = [u \in Task |-> IF st[u] = "Blocked" THEN Sub(timeout[u], base) ELSE 0]
      /\ tmo' = tm
      /\ timeOutMin' = low
      /\ \/ /\ due # {}
            /\ cb' = Lowest(due)
            /\ pc' = [pc EXCEPT ![t] = "callback"]
         \/ /\ due = {}
            /\ cb' = cb
            /\ pc' = [pc EXCEPT ![t] = AfterCheck(t)]

(* The idle loop calls bos_check_timer; nothing to do until time moves on. *)
EntryIdle ==
  /\ current = Idle /\ pc[Idle] = "app"
  /\ idleBackup # time
  /\ idleBackup' = time
  /\ pc' = [pc EXCEPT ![Idle] = "gated"]
  /\ UNCHANGED <<taskVars, clockVars, timerVars, timeOutMin, cb>>

Woken == {t \in Task : state[t] = "Blocked" /\ time >= timeout[t]}

WakeTasks == [t \in Task |-> IF t \in Woken THEN "Ready" ELSE state[t]]

(* Mutant: the idle task wakes the delayed tasks and keeps the CPU. *)
CheckGiveWayKeepsCpu ==
  /\ current = Idle /\ pc[Idle] = "gated" /\ Woken # {}
  /\ state' = WakeTasks
  /\ timeout' = [t \in Task |-> IF t \in Woken THEN 0 ELSE timeout[t]]
  /\ pc' = [pc EXCEPT ![Idle] = "resumed"]
  /\ UNCHANGED <<current, remain, clockVars, timerVars, idleBackup, timeOutMin, cb>>

(* The critical section of bos_check_timer from its start: wake the tasks  *)
(* whose delay has passed.  The idle task then gives way in the middle.    *)
CheckGiveWay ==
  /\ current = Idle /\ pc[Idle] = "gated" /\ Woken # {}
  /\ state' = WakeTasks
  /\ current' = Sheduler(Idle, WakeTasks)
  /\ pc' = [pc EXCEPT ![Idle] = "resumed"]
  /\ timeout' = [t \in Task |-> IF t \in Woken THEN 0 ELSE timeout[t]]
  /\ UNCHANGED <<remain, clockVars, timerVars, idleBackup, timeOutMin, cb>>

CheckTasks(t) ==
  /\ current = t /\ pc[t] = "gated"
  /\ t # Idle \/ Woken = {}
  /\ state' = WakeTasks
  /\ CheckTimers(t, WakeTasks)
  /\ UNCHANGED <<current, remain, running, period, tremain, lapped, idleBackup>>

CheckResume ==
  /\ current = Idle /\ pc[Idle] = "resumed"
  /\ CheckTimers(Idle, state)
  /\ UNCHANGED <<state, current, remain, running, period, tremain, lapped, idleBackup>>

(* The next timeout of a periodic timer is a uint32_t sum.  It wraps for a *)
(* timer that was started in its own callback with a period above 17 days. *)
SumWraps == cb \notin OneShot /\ tmo[cb] + period[cb] >= Wrap

(* A callback returns: the loop goes on behind its timer, with the time    *)
(* and the timers as they are by now.                                      *)
CallbackReturn(t) ==
  /\ current = t /\ pc[t] = "callback"
  /\ running' = [running EXCEPT ![cb] = IF cb \in OneShot THEN FALSE ELSE @]
  /\ tmo' = [tmo EXCEPT ![cb] = IF cb \in OneShot THEN @ ELSE (@ + period[cb]) % Wrap]
  /\ lapped' = [lapped EXCEPT ![cb] = @ \/ SumWraps]
  /\ LET due == {i \in Timer : i > cb /\ running'[i] /\ time >= tmo'[i]}
     IN  \/ /\ due # {}
            /\ cb' = Lowest(due)
            /\ UNCHANGED <<pc, timeOutMin>>
         \/ /\ due = {}
            /\ timeOutMin' = MinTimeout(running', tmo')
            /\ pc' = [pc EXCEPT ![t] = AfterCheck(t)]
            /\ cb' = cb
  /\ UNCHANGED <<taskVars, clockVars, period, tremain, idleBackup>>

-----------------------------------------------------------------------------
(* Calls of the tasks.  The idle task never delays, yields or exits. *)

Calling(t) == current = t /\ pc[t] = "app" /\ t # Idle

(* bos_task_yield (and bos_delay_ms(0)) calls bos_check_timer(false) ... *)
BosTaskYield(t) ==
  /\ Calling(t)
  /\ idleBackup' = time
  /\ pc' = [pc EXCEPT ![t] = IF idleBackup = time THEN "select" ELSE "gated"]
  /\ UNCHANGED <<taskVars, clockVars, timerVars, timeOutMin, cb>>

(* Mutant: the task to change places with is sought from the table's start. *)
YieldSelectFromStart(t) ==
  /\ current = t /\ pc[t] = "select"
  /\ pc' = [pc EXCEPT ![t] = "app"]
  /\ IF Peers(t, state) = {} THEN UNCHANGED <<state, current>>
     ELSE LET next == Lowest(Peers(t, state))
          IN  /\ state' = [state EXCEPT ![t] = "Suspended", ![next] = "Ready"]
              /\ current' = Sheduler(t, state')
  /\ UNCHANGED <<timeout, remain, clockVars, timerVars, idleBackup, timeOutMin, cb>>

(* ... and then looks for a task of its own priority to change places with. *)
YieldSelect(t) ==
  /\ current = t /\ pc[t] = "select"
  /\ pc' = [pc EXCEPT ![t] = "app"]
  /\ \/ /\ Peers(t, state) # {}
        /\ LET next == FirstAfter(t, Peers(t, state))
           IN  state' = [state EXCEPT ![t] = "Suspended", ![next] = "Ready"]
        /\ current' = Sheduler(t, state')
     \/ /\ Peers(t, state) = {}
        /\ UNCHANGED <<state, current>>
  /\ UNCHANGED <<timeout, remain, clockVars, timerVars, idleBackup, timeOutMin, cb>>

(* Mutant: a delaying task does not hand its priority on to a parked peer. *)
BosDelayMsAlone(t, ms) ==
  /\ Calling(t)
  /\ timeout' = [timeout EXCEPT ![t] = (time + ms) % Wrap]
  /\ remain' = [remain EXCEPT ![t] = ms]
  /\ state' = [state EXCEPT ![t] = "Blocked"]
  /\ current' = Sheduler(t, state')
  /\ UNCHANGED <<clockVars, timerVars, pc, idleBackup, timeOutMin, cb>>

BosDelayMs(t, ms) ==
  /\ Calling(t)
  /\ timeout' = [timeout EXCEPT ![t] = (time + ms) % Wrap]
  /\ remain' = [remain EXCEPT ![t] = ms]
  /\ LET next == FirstAfter(t, Peers(t, state))
     IN  state' = [u \in Task |-> IF u = t THEN "Blocked"
                                  ELSE IF Peers(t, state) # {} /\ u = next THEN "Ready"
                                  ELSE state[u]]
  /\ current' = Sheduler(t, state')
  /\ UNCHANGED <<clockVars, timerVars, pc, idleBackup, timeOutMin, cb>>

BosTaskExit(t) ==
  /\ Calling(t)
  /\ state' = [state EXCEPT ![t] = "Stop"]
  /\ current' = Sheduler(t, state')
  /\ UNCHANGED <<timeout, remain, clockVars, timerVars, pc, idleBackup, timeOutMin, cb>>

-----------------------------------------------------------------------------
(* The soft timer calls: from a task, the idle hook or a timer callback. *)

InUserCode == pc[current] \in {"app", "callback"}

(* Mutant: a timer is started without computing its timeout. *)
BosTimerStartStale(i, p) ==
  /\ InUserCode
  /\ running' = [running EXCEPT ![i] = TRUE]
  /\ period' = [period EXCEPT ![i] = p]
  /\ tremain' = [tremain EXCEPT ![i] = p]
  /\ lapped' = [lapped EXCEPT ![i] = FALSE]
  /\ timeOutMin' = IF tmo[i] < timeOutMin THEN tmo[i] ELSE timeOutMin
  /\ UNCHANGED <<taskVars, clockVars, tmo, pc, idleBackup, cb>>

(* Mutant: time_out_min is not touched when a timer is started. *)
BosTimerStartNoMin(i, p) ==
  /\ InUserCode
  /\ running' = [running EXCEPT ![i] = TRUE]
  /\ period' = [period EXCEPT ![i] = p]
  /\ tmo' = [tmo EXCEPT ![i] = (time + p) % Wrap]
  /\ tremain' = [tremain EXCEPT ![i] = p]
  /\ lapped' = [lapped EXCEPT ![i] = FALSE]
  /\ UNCHANGED <<taskVars, clockVars, timeOutMin, pc, idleBackup, cb>>

BosTimerStart(i, p) ==
  /\ InUserCode
  /\ running' = [running EXCEPT ![i] = TRUE]
  /\ period' = [period EXCEPT ![i] = p]
  /\ tmo' = [tmo EXCEPT ![i] = (time + p) % Wrap]
  /\ tremain' = [tremain EXCEPT ![i] = p]
  /\ lapped' = [lapped EXCEPT ![i] = FALSE]
  /\ timeOutMin' = IF tmo'[i] < timeOutMin THEN tmo'[i] ELSE timeOutMin
  /\ UNCHANGED <<taskVars, clockVars, pc, idleBackup, cb>>

(* The loop reads timer_table[timer_id] in every round, so no other timer  *)
(* is ever looked at: the minimum becomes the stopped timer's own timeout  *)
(* (seen in the rounds before its turn) or UINT32_MAX.                     *)
BosTimerStop(i) ==
  /\ InUserCode
  /\ running' = [running EXCEPT ![i] = FALSE]
  /\ tremain' = [tremain EXCEPT ![i] = 0]
  /\ timeOutMin' = IF running[i] /\ i > 0 THEN tmo[i] ELSE Wrap - 1
  /\ UNCHANGED <<taskVars, clockVars, tmo, period, lapped, pc, idleBackup, cb>>

(* The timeout is not computed anew. *)
BosTimerReset(i, p) ==
  /\ InUserCode
  /\ running' = [running EXCEPT ![i] = TRUE]
  /\ period' = [period EXCEPT ![i] = p]
  /\ timeOutMin' = IF timeOutMin > tmo[i] THEN tmo[i] ELSE timeOutMin
  /\ UNCHANGED <<taskVars, clockVars, tmo, tremain, lapped, pc, idleBackup, cb>>

-----------------------------------------------------------------------------
Kernel ==
  \/ EntryIdle \/ CheckGiveWay \/ CheckResume
  \/ \E t \in Task : CheckTasks(t) \/ CallbackReturn(t) \/ YieldSelect(t)

TaskCall ==
  \E t \in Task :
    \/ BosTaskYield(t)
    \/ \E ms \in Delays : BosDelayMs(t, ms)
    \/ BosTaskExit(t)

TimerCall ==
  \E i \in Timer :
    \/ \E p \in Periods : BosTimerStart(i, p) \/ BosTimerReset(i, p)
    \/ BosTimerStop(i)

Next == BosTick \/ Kernel \/ TaskCall \/ TimerCall

Spec == Init /\ [][Next]_vars

(* The tick interrupt keeps coming, the kernel's own steps are finished,   *)
(* and a task that has the CPU calls the kernel again (tasks are endless   *)
(* loops around bos_delay_ms or bos_task_yield).                           *)
FairSpec == Spec /\ WF_vars(BosTick) /\ WF_vars(Kernel) /\ WF_vars(TaskCall)
-----------------------------------------------------------------------------
(***************************************************************************)
(* Properties                                                              *)
(***************************************************************************)

(* Every kernel variable stays in its C range; a task is never left        *)
(* parked in a place of bos_check_timer that its role cannot reach.        *)
TypeOK ==
  /\ state \in [Task -> {"Ready", "Blocked", "Suspended", "Stop"}]
  /\ timeout \in [Task -> Word]
  /\ current \in Task
  /\ pc \in [Task -> {"app", "gated", "resumed", "select", "callback"}]
  /\ time \in 0 .. MaxTime + 1 /\ idleBackup \in 0 .. MaxTime + 1
  /\ timeOffset \in Word /\ timeOutMin \in Word
  /\ running \in [Timer -> BOOLEAN]
  /\ tmo \in [Timer -> Word]
  /\ period \in [Timer -> Periods \cup {0}]
  /\ cb \in Timer
  /\ remain \in [Task -> Nat]
  /\ tremain \in [Timer -> Nat]
  /\ lapped \in [Timer -> BOOLEAN]

(* bos_task_yield parks the calling task as Suspended, and only a task of  *)
(* its own priority ever takes it out of that state: so as long as a task  *)
(* is Suspended, some task of its priority must be left that will run and  *)
(* yield or delay.  The one way to lose that task is bos_task_exit, which  *)
(* wakes no peer.                                                          *)
SuspendedHasPeer ==
  \A t \in Task : state[t] = "Suspended" =>
    \E u \in Task \ {t} : Prio[u] = Prio[t] /\ state[u] \in {"Ready", "Stop"}

(* The task that has the CPU is one the scheduler may pick: a task that    *)
(* blocked, stopped or parked itself is off the CPU when its call ends.    *)
CurrentIsReady == state[current] = "Ready"

(* The idle task has the CPU only while no task above priority 1 is ready, *)
(* although it finds expired delays itself and reschedules in the middle   *)
(* of bos_check_timer.                                                     *)
IdleRunsLast ==
  current = Idle => \A t \in Task : Prio[t] > 1 => state[t] # "Ready"

(* bos_delay_ms: a task is never made ready before its delay has passed,   *)
(* whatever the peers do and however often the counter is rebased by the   *)
(* 15 day adjustment in between.                                           *)
NoEarlyWake ==
  [][\A t \in Task : state[t] = "Blocked" /\ state'[t] # "Blocked" => remain[t] = 0]_vars

(* bos_delay_ms: the wait that is left to a delayed task never grows.  The *)
(* one exception is the rebase in the second half of bos_check_timer: if   *)
(* another task had the CPU in between, a delay that expired meanwhile     *)
(* wraps to almost UINT32_MAX.                                             *)
WaitLeft(t) == timeout[t] - time

WaitGrows(t) ==
  state[t] = "Blocked" /\ state'[t] = "Blocked" /\ WaitLeft(t)' > WaitLeft(t)

WaitGrowsOnlyByResume ==
  [][\A t \in Task : WaitGrows(t) => CheckResume /\ timeout[t] < time]_vars

(* bos_timer_start: no callback of a timer starts before the period that   *)
(* its last bos_timer_start named has passed, also when the timer was      *)
(* started again inside its own callback or the counter was rebased.  The  *)
(* one exception is a timer whose timeout has wrapped in that callback.    *)
FiredNow(i) ==
  /\ pc'[current] = "callback" /\ cb' = i
  /\ pc[current] = "callback" => cb # i

NoEarlyFire ==
  [][\A i \in Timer : FiredNow(i) => tremain[i] = 0 \/ lapped[i]]_vars

(* bos_time() = time_offset + time moves by single ticks only: the rebase  *)
(* is invisible to its callers.                                            *)
BosTime == (timeOffset + time) % Wrap

ClockIsSteady == [][BosTime' \in {BosTime, (BosTime + 1) % Wrap}]_vars

(* bos_check_timer looks at the timers only once time has reached          *)
(* time_out_min, so time_out_min must not exceed the timeout of a running  *)
(* timer.                                                                  *)
MinIsLowerBound == \A i \in Timer : running[i] => timeOutMin <= tmo[i]

(* Only three steps can lose that bound: bos_timer_stop, which drops the   *)
(* other timers' timeouts, a rebase that comes when time has already       *)
(* passed time_out_min or a timer's timeout (the difference wraps), and    *)
(* the return of a callback that makes its timer's timeout wrap.           *)
Overdue == timeOutMin < time \/ \E i \in Timer : running[i] /\ tmo[i] < time

MinBoundLostOnlyBy ==
  [][MinIsLowerBound /\ ~MinIsLowerBound' =>
       \/ \E i \in Timer : BosTimerStop(i)
       \/ Overdue /\ time' < time
       \/ SumWraps /\ \E t \in Task : CallbackReturn(t)]_vars

(* Round robin: while a task of the highest priority has the CPU, every    *)
(* other task of that priority which is ready or parked by its own yield   *)
(* gets its turn, unless one of them has left with bos_task_exit.          *)
Highest(t) == \A u \in Task : Prio[u] <= Prio[t]

RoundRobin ==
  \A t \in Task \ {Idle} :
    Highest(t) =>
      (state[t] \in {"Ready", "Suspended"} /\ Highest(current))
        ~> (current = t \/ \E u \in Task : Highest(u) /\ state[u] = "Stop")

-----------------------------------------------------------------------------
(* What the comments of the source claim, and the code does not keep.      *)

(* "Delayed time in mili-seconds": a delayed task is never further from    *)
(* its wakeup than the longest delay any task asks for.                    *)
NoOversleep ==
  \A t \in Task : state[t] = "Blocked" => \E d \in Delays : WaitLeft(t) <= d

(* "The soft-timer's period in mili-second", up to 30 days: no callback of *)
(* a timer starts before the period of its last start has passed.          *)
NoFireBeforePeriod == [][\A i \in Timer : FiredNow(i) => tremain[i] = 0]_vars

(* "If false, not timer is timeout": when bos_check_timer ends without     *)
(* having called a callback, no running timer is past its timeout.         *)
NoTimeoutMissed ==
  [][\A t \in Task :
       pc[t] \in {"gated", "resumed"} /\ pc'[t] = AfterCheck(t) =>
         \A i \in Timer : ~(running'[i] /\ time' >= tmo'[i])]_vars
=============================================================================
