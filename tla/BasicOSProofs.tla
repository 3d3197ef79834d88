--------------------------- MODULE BasicOSProofs ---------------------------
(***************************************************************************)
(* Machine-checked proofs about BasicOS, for every task table, every set   *)
(* of timers and every value of the time constants that the assumptions    *)
(* of BasicOS admit.                                                       *)
(***************************************************************************)
EXTENDS BasicOS, WellFoundedInduction, TLAPS

-----------------------------------------------------------------------------
(* The scheduler's choices are well defined: facts about the operators.    *)

(* A nonempty set of natural numbers has a least element. *)
LEMMA NatHasLeast ==
  ASSUME NEW S \in SUBSET Nat, S # {}
  PROVE  \E x \in S : \A y \in S : x <= y
<1> DEFINE R == {ss \in Nat \X Nat : ss[1] < ss[2]}
<1>1. IsWellFoundedOn(R, Nat)
  BY NatLessThanWellFounded, Zenon DEF OpToRel
<1> HIDE DEF R
<1>2. PICK x \in S : \A y \in S : ~(<<y, x>> \in R)
  BY <1>1, WFMin
<1>3. ASSUME NEW y \in S PROVE x <= y
  BY <1>2, <<y, x>> \in Nat \X Nat DEF R
<1> QED BY <1>3

(* Lowest returns the least element: the timer loops and the minimum of    *)
(* the timeouts rely on it.                                                *)
LEMMA LowestIsLeast ==
  ASSUME NEW S \in SUBSET Nat, S # {}
  PROVE  Lowest(S) \in S /\ \A y \in S : Lowest(S) <= y
BY NatHasLeast DEF Lowest

(* uint32_t arithmetic stays in range, and is exact where nothing wraps. *)
LEMMA SubInWord ==
  ASSUME NEW x \in Word, NEW y \in Word
  PROVE  Sub(x, y) \in Word /\ (y <= x => Sub(x, y) = x - y)
BY TimeAssumption DEF Sub, Word

LEMMA AddExact ==
  ASSUME NEW x \in Nat
  PROVE  Wrap # 0 => /\ x % Wrap \in Word
                     /\ x < Wrap => x % Wrap = x
BY TimeAssumption DEF Word

(* The scan of the task table finds a member of every nonempty set. *)
LEMMA FirstAfterIsMember ==
  ASSUME NEW c \in Task, NEW S \in SUBSET Task, S # {}
  PROVE  FirstAfter(c, S) \in S
<1> DEFINE D == {ScanDistance(c, t) : t \in S}
<1>1. \A t \in Task : ScanDistance(c, t) \in Nat
  BY TaskAssumption DEF ScanDistance, Task
<1>2. D \in SUBSET Nat /\ D # {}
  BY <1>1
<1>3. PICK d \in D : \A e \in D : d <= e
  BY <1>2, NatHasLeast
<1>4. \E t \in S : \A u \in S : ScanDistance(c, t) <= ScanDistance(c, u)
  BY <1>3
<1> QED BY <1>4 DEF FirstAfter

(* Some task has the highest priority of any nonempty set of tasks. *)
LEMMA HighestExists ==
  ASSUME NEW S \in SUBSET Task, S # {}
  PROVE  \E t \in S : \A u \in S : Prio[u] <= Prio[t]
<1> DEFINE D == {MaxPriority - Prio[t] : t \in S}
<1>1. \A t \in Task : Prio[t] \in Nat /\ MaxPriority - Prio[t] \in Nat
  BY TaskAssumption
<1>2. D \in SUBSET Nat /\ D # {}
  BY <1>1
<1>3. PICK d \in D : \A e \in D : d <= e
  BY <1>2, NatHasLeast
<1>4. PICK t \in S : d = MaxPriority - Prio[t]
  BY <1>3
<1>5. \A u \in S : MaxPriority - Prio[t] <= MaxPriority - Prio[u]
  BY <1>3, <1>4
<1>6. \A u \in S : Prio[u] <= Prio[t]
  BY <1>1, <1>5, TaskAssumption
<1> QED BY <1>6

(* bos_sheduler picks a ready task that no ready task exceeds in declared  *)
(* priority.  The idle task, always ready, makes sure there is one.        *)
LEMMA ShedulerPicksTop ==
  ASSUME NEW c \in Task, NEW st, st[Idle] = "Ready"
  PROVE  Sheduler(c, st) \in TopReady(st)
<1> DEFINE R == {t \in Task : st[t] = "Ready"}
<1>1. R \in SUBSET Task /\ R # {}
  BY TaskAssumption
<1>2. PICK t \in R : \A u \in R : Prio[u] <= Prio[t]
  BY <1>1, HighestExists
<1>3. t \in TopReady(st)
  BY <1>2 DEF TopReady
<1>4. TopReady(st) \in SUBSET Task
  BY DEF TopReady
<1>5. FirstAfter(c, TopReady(st)) \in TopReady(st)
  BY <1>3, <1>4, FirstAfterIsMember
<1>6. CASE FirstAfter(c, TopReady(st)) = Idle /\ Prio[c] = 1 /\ TopReady(st) # {Idle}
  <2>1. TopReady(st) \ {Idle} # {}
    BY <1>5, <1>6
  <2>2. FirstAfter(c, TopReady(st) \ {Idle}) \in TopReady(st) \ {Idle}
    BY <1>4, <2>1, FirstAfterIsMember
  <2> QED BY <1>6, <2>2 DEF Sheduler
<1>7. CASE ~(FirstAfter(c, TopReady(st)) = Idle /\ Prio[c] = 1 /\ TopReady(st) # {Idle})
  BY <1>5, <1>7 DEF Sheduler
<1> QED BY <1>6, <1>7

(* The tasks a call may make ready are live tasks of the caller's priority. *)
LEMMA NextIsPeer ==
  ASSUME NEW t \in Task, NEW st, Peers(t, st) # {}
  PROVE  LET next == FirstAfter(t, Peers(t, st))
         IN  /\ next \in Task \ {t}
             /\ Prio[next] = Prio[t]
             /\ st[next] \in {"Suspended", "Ready"}
<1>1. Peers(t, st) \in SUBSET Task
  BY DEF Peers
<1>2. FirstAfter(t, Peers(t, st)) \in Peers(t, st)
  BY <1>1, FirstAfterIsMember
<1> QED BY <1>2 DEF Peers

-----------------------------------------------------------------------------
(* The inductive invariant of the task half.                               *)

(* The idle task never blocks, parks or stops, so the scheduler always has *)
(* somebody to pick.                                                       *)
IdleReady == state[Idle] = "Ready" /\ pc[Idle] # "select"

(* A callback runs on the CPU of the task that called bos_check_timer.     *)
CallbackOwner == \A t \in Task : pc[t] = "callback" => current = t

TaskInv ==
  /\ TypeOK
  /\ IdleReady
  /\ CallbackOwner
  /\ CurrentIsReady
  /\ IdleRunsLast
  /\ SuspendedHasPeer

(* What a reschedule establishes. *)
LEMMA AfterReschedule ==
  ASSUME NEW c \in Task, NEW st, st[Idle] = "Ready",
         state' = st, current' = Sheduler(c, st)
  PROVE  current' \in Task /\ CurrentIsReady' /\ IdleRunsLast'
<1>1. Sheduler(c, st) \in TopReady(st)
  BY ShedulerPicksTop
<1>2. /\ current' \in Task /\ st[current'] = "Ready"
      /\ \A u \in Task : st[u] = "Ready" => Prio[u] <= Prio[current']
  BY <1>1 DEF TopReady
<1>3. \A t \in Task : Prio[t] \in Nat
  BY TaskAssumption
<1>4. IdleRunsLast'
  BY <1>2, <1>3, TaskAssumption DEF IdleRunsLast
<1> QED BY <1>2, <1>4 DEF CurrentIsReady

(* The 15 day rebase and the timer loop of bos_check_timer, with the       *)
(* amount of the rebase made explicit.                                     *)
Base == IF time >= Day15 THEN time ELSE 0

Rebased(i) == IF running[i] THEN Sub(tmo[i], Base) ELSE tmo[i]

LEMMA CheckTimersEffect ==
  ASSUME NEW t \in Task, NEW st, CheckTimers(t, st)
  PROVE  /\ time' = time - Base
         /\ timeOffset' = (timeOffset + Base) % Wrap
         /\ timeout' = [u \in Task |-> IF st[u] = "Blocked" THEN Sub(timeout[u], Base) ELSE 0]
         /\ tmo' = [i \in Timer |-> Rebased(i)]
         /\ timeOutMin' = Sub(timeOutMin, Base)
         /\ \/ /\ pc' = [pc EXCEPT ![t] = "callback"]
               /\ \E due \in SUBSET Timer :
                    /\ due # {} /\ cb' = Lowest(due)
                    /\ \A i \in due : running[i] /\ time' >= tmo'[i]
            \/ cb' = cb /\ pc' = [pc EXCEPT ![t] = AfterCheck(t)]
<1> DEFINE due == IF time - Base >= Sub(timeOutMin, Base)
                    THEN {i \in Timer : running[i] /\ time - Base >= Rebased(i)} ELSE {}
<1>1. /\ time' = time - Base
      /\ timeOffset' = (timeOffset + Base) % Wrap
      /\ timeout' = [u \in Task |-> IF st[u] = "Blocked" THEN Sub(timeout[u], Base) ELSE 0]
      /\ tmo' = [i \in Timer |-> Rebased(i)]
      /\ timeOutMin' = Sub(timeOutMin, Base)
  BY DEF CheckTimers, Base, Rebased
<1>2. \/ due # {} /\ cb' = Lowest(due) /\ pc' = [pc EXCEPT ![t] = "callback"]
      \/ cb' = cb /\ pc' = [pc EXCEPT ![t] = AfterCheck(t)]
  BY Zenon DEF CheckTimers, Base, Rebased
<1>3. due \in SUBSET Timer /\ \A i \in due : running[i] /\ time' >= tmo'[i]
  BY <1>1
<1> HIDE DEF due
<1> QED BY <1>1, <1>2, <1>3

LEMMA BaseInWord ==
  ASSUME TypeOK
  PROVE  Base \in Word /\ Base <= time /\ time - Base \in 0 .. MaxTime + 1
BY TimeAssumption DEF TypeOK, Word, Base

LEMMA CheckTimersTypes ==
  ASSUME TypeOK, NEW t \in Task, NEW st, CheckTimers(t, st)
  PROVE  /\ timeout' \in [Task -> Word]
         /\ time' \in 0 .. MaxTime + 1
         /\ timeOffset' \in Word /\ timeOutMin' \in Word
         /\ tmo' \in [Timer -> Word]
         /\ cb' \in Timer
         /\ pc' \in [Task -> {"app", "gated", "resumed", "select", "callback"}]
<1>1. \A x \in Word : Sub(x, Base) \in Word
  BY BaseInWord, SubInWord
<1>2. 0 \in Word
  BY TimeAssumption DEF Word
<1>3. timeout' \in [Task -> Word]
  BY <1>1, <1>2, CheckTimersEffect DEF TypeOK
<1>4. tmo' \in [Timer -> Word]
  BY <1>1, CheckTimersEffect DEF TypeOK, Rebased
<1>5. timeOutMin' \in Word
  BY <1>1, CheckTimersEffect DEF TypeOK
<1>6. time' \in 0 .. MaxTime + 1
  BY BaseInWord, CheckTimersEffect
<1>7. timeOffset' \in Word
  <2>1. timeOffset + Base \in Nat
    BY BaseInWord DEF TypeOK, Word
  <2> QED BY <2>1, CheckTimersEffect, TimeAssumption DEF Word
<1>8. cb' \in Timer
  <2>1. ASSUME NEW due \in SUBSET Timer, due # {} PROVE Lowest(due) \in Timer
    <3>1. due \in SUBSET Nat
      BY <2>1 DEF Timer
    <3>2. Lowest(due) \in due
      BY <2>1, <3>1, LowestIsLeast
    <3> QED BY <2>1, <3>2
  <2> QED BY <2>1, CheckTimersEffect DEF TypeOK
<1>9. pc' \in [Task -> {"app", "gated", "resumed", "select", "callback"}]
  BY CheckTimersEffect DEF TypeOK, AfterCheck
<1> QED BY <1>3, <1>4, <1>5, <1>6, <1>7, <1>8, <1>9

-----------------------------------------------------------------------------
(* TaskInv holds from the start and through every step.                    *)

LEMMA TaskInvInit == Init => TaskInv
<1> SUFFICES ASSUME Init PROVE TaskInv
  OBVIOUS
<1> DEFINE top == {t \in Task : \A u \in Task : Prio[u] <= Prio[t]}
<1>1. top # {}
  BY HighestExists, TaskAssumption
<1>2. top \in SUBSET Nat
  BY DEF Task
<1>3. current \in top
  BY <1>1, <1>2, LowestIsLeast DEF Init
<1>4. current \in Task /\ \A u \in Task : Prio[u] <= Prio[current]
  BY <1>3
<1>5. TypeOK
  BY <1>4, TaskAssumption, TimeAssumption DEF Init, TypeOK, Word, Timer
<1>6. \A t \in Task : Prio[t] \in Nat
  BY TaskAssumption
<1>7. IdleRunsLast
  <2>1. ASSUME current = Idle, NEW t \in Task PROVE ~(Prio[t] > 1)
    <3>1. Prio[t] <= 1 /\ Prio[t] \in Nat
      BY <1>4, <1>6, <2>1, TaskAssumption
    <3> QED BY <3>1
  <2> QED BY <2>1 DEF IdleRunsLast
<1>8. IdleReady /\ CallbackOwner /\ CurrentIsReady /\ SuspendedHasPeer
  BY <1>4, TaskAssumption DEF Init, IdleReady, CallbackOwner, CurrentIsReady,
                              SuspendedHasPeer
<1> QED BY <1>5, <1>7, <1>8 DEF TaskInv

(* Waking the delayed tasks takes nobody out of Ready, Stop or Suspended.  *)
LEMMA WakeFacts ==
  ASSUME TypeOK
  PROVE  /\ WakeTasks \in [Task -> {"Ready", "Blocked", "Suspended", "Stop"}]
         /\ \A t \in Task : /\ state[t] # "Blocked" => WakeTasks[t] = state[t]
                            /\ WakeTasks[t] # state[t] =>
                                 state[t] = "Blocked" /\ WakeTasks[t] = "Ready"
BY DEF WakeTasks, Woken, TypeOK

LEMMA WakeKeepsPeers ==
  ASSUME TypeOK, SuspendedHasPeer, state' = WakeTasks
  PROVE  SuspendedHasPeer'
<1> SUFFICES ASSUME NEW t \in Task, state'[t] = "Suspended"
             PROVE  \E u \in Task \ {t} : Prio[u] = Prio[t] /\ state'[u] \in {"Ready", "Stop"}
  BY DEF SuspendedHasPeer
<1>1. state[t] = "Suspended"
  BY WakeFacts
<1>2. PICK u \in Task \ {t} : Prio[u] = Prio[t] /\ state[u] \in {"Ready", "Stop"}
  BY <1>1 DEF SuspendedHasPeer
<1> QED BY <1>2, WakeFacts

LEMMA TickKeepsTaskInv == TaskInv /\ BosTick => TaskInv'
<1> SUFFICES ASSUME TaskInv, BosTick PROVE TaskInv'
  OBVIOUS
<1>1. TypeOK'
  <2>1. remain' \in [Task -> Nat] /\ tremain' \in [Timer -> Nat]
    BY DEF TaskInv, TypeOK, BosTick
  <2>2. time' \in 0 .. MaxTime + 1
    BY TimeAssumption DEF TaskInv, TypeOK, BosTick
  <2> QED BY <2>1, <2>2 DEF TaskInv, TypeOK, BosTick
<1> QED BY <1>1 DEF TaskInv, BosTick, IdleReady, CallbackOwner, CurrentIsReady,
                    IdleRunsLast, SuspendedHasPeer

LEMMA EntryIdleKeepsTaskInv == TaskInv /\ EntryIdle => TaskInv'
<1> SUFFICES ASSUME TaskInv, EntryIdle PROVE TaskInv'
  OBVIOUS
<1>1. TypeOK'
  BY DEF TaskInv, TypeOK, EntryIdle, taskVars, clockVars, timerVars
<1> QED BY <1>1 DEF TaskInv, TypeOK, EntryIdle, taskVars, IdleReady, CallbackOwner,
                    CurrentIsReady, IdleRunsLast, SuspendedHasPeer

LEMMA GiveWayKeepsTaskInv == TaskInv /\ CheckGiveWay => TaskInv'
<1> SUFFICES ASSUME TaskInv, CheckGiveWay PROVE TaskInv'
  OBVIOUS
<1>1. WakeTasks[Idle] = "Ready"
  BY WakeFacts, TaskAssumption DEF TaskInv, IdleReady
<1>2. current' \in Task /\ CurrentIsReady' /\ IdleRunsLast'
  BY <1>1, TaskAssumption, AfterReschedule DEF CheckGiveWay
<1>3. TypeOK'
  <2>1. timeout' \in [Task -> Word]
    BY TimeAssumption DEF CheckGiveWay, TaskInv, TypeOK, Word
  <2> QED BY <1>2, <2>1, WakeFacts DEF CheckGiveWay, TaskInv, TypeOK, clockVars, timerVars
<1>4. CallbackOwner' /\ IdleReady'
  BY <1>1, TaskAssumption DEF CheckGiveWay, TaskInv, TypeOK, CallbackOwner, IdleReady
<1>5. SuspendedHasPeer'
  BY WakeKeepsPeers DEF CheckGiveWay, TaskInv
<1> QED BY <1>2, <1>3, <1>4, <1>5 DEF TaskInv

LEMMA CheckKeepsTaskInv ==
  ASSUME NEW t \in Task
  PROVE  TaskInv /\ CheckTasks(t) => TaskInv'
<1> SUFFICES ASSUME TaskInv, CheckTasks(t) PROVE TaskInv'
  OBVIOUS
<1>1. TypeOK /\ CheckTimers(t, WakeTasks) /\ current = t /\ current' = t /\ state' = WakeTasks
  BY DEF TaskInv, CheckTasks
<1>2. TypeOK'
  BY <1>1, CheckTimersTypes, WakeFacts DEF CheckTasks, TypeOK
<1>3. SuspendedHasPeer'
  BY <1>1, WakeKeepsPeers DEF TaskInv
<1>4. CurrentIsReady'
  BY <1>1, WakeFacts DEF TaskInv, CurrentIsReady
<1>5. IdleRunsLast'
  <2>1. CASE t = Idle
    BY <1>1, <2>1 DEF CheckTasks, WakeTasks, TaskInv, TypeOK, IdleRunsLast
  <2>2. CASE t # Idle
    BY <1>1, <2>2 DEF IdleRunsLast
  <2> QED BY <2>1, <2>2
<1>6. CallbackOwner' /\ IdleReady'
  <2>1. \A u \in Task \ {t} : pc'[u] = pc[u]
    BY <1>1, CheckTimersEffect DEF TypeOK
  <2>2. t = Idle => pc'[t] # "select"
    BY <1>1, CheckTimersEffect DEF TypeOK, AfterCheck
  <2>3. state'[Idle] = "Ready"
    BY <1>1, WakeFacts, TaskAssumption DEF TaskInv, IdleReady
  <2>4. IdleReady'
    BY <2>1, <2>2, <2>3, TaskAssumption DEF TaskInv, IdleReady
  <2> QED BY <1>1, <2>1, <2>4 DEF TaskInv, CallbackOwner
<1> QED BY <1>2, <1>3, <1>4, <1>5, <1>6 DEF TaskInv

LEMMA ResumeKeepsTaskInv == TaskInv /\ CheckResume => TaskInv'
<1> SUFFICES ASSUME TaskInv, CheckResume PROVE TaskInv'
  OBVIOUS
<1>1. TypeOK /\ CheckTimers(Idle, state) /\ current = Idle /\ Idle \in Task
  BY TaskAssumption DEF TaskInv, CheckResume
<1>2. TypeOK'
  BY <1>1, CheckTimersTypes DEF CheckResume, TypeOK
<1>3. SuspendedHasPeer' /\ CurrentIsReady' /\ IdleRunsLast'
  BY DEF TaskInv, CheckResume, SuspendedHasPeer, CurrentIsReady, IdleRunsLast
<1>4. CallbackOwner' /\ IdleReady'
  <2>1. \A u \in Task \ {Idle} : pc'[u] = pc[u]
    BY <1>1, CheckTimersEffect DEF TypeOK
  <2>2. pc'[Idle] # "select"
    BY <1>1, CheckTimersEffect DEF TypeOK, AfterCheck
  <2> QED BY <1>1, <2>1, <2>2 DEF TaskInv, CheckResume, CallbackOwner, IdleReady
<1> QED BY <1>2, <1>3, <1>4 DEF TaskInv

LEMMA CallbackKeepsTaskInv ==
  ASSUME NEW t \in Task
  PROVE  TaskInv /\ CallbackReturn(t) => TaskInv'
<1> SUFFICES ASSUME TaskInv, CallbackReturn(t) PROVE TaskInv'
  OBVIOUS
<1> DEFINE due == {i \in Timer : i > cb /\ running'[i] /\ time >= tmo'[i]}
<1>1. TypeOK /\ current = t /\ current' = t /\ state' = state /\ pc[t] = "callback"
  BY DEF TaskInv, CallbackReturn, taskVars
<1>2. running' \in [Timer -> BOOLEAN]
  BY DEF TaskInv, TypeOK, CallbackReturn
<1>3. tmo' \in [Timer -> Word]
  <2>1. \A i \in Timer : tmo[i] \in Nat /\ period[i] \in Nat
    <3>1. \A p \in Periods \cup {0} : p \in Nat
      BY TimeAssumption
    <3> QED BY <1>1, <3>1 DEF TypeOK, Word
  <2>2. \A i \in Timer : (tmo[i] + period[i]) % Wrap \in Word
    BY <2>1, TimeAssumption DEF Word
  <2> QED BY <2>2 DEF TaskInv, TypeOK, CallbackReturn
<1>4. \/ due # {} /\ cb' = Lowest(due) /\ UNCHANGED <<pc, timeOutMin>>
      \/ cb' = cb /\ timeOutMin' = MinTimeout(running', tmo')
         /\ pc' = [pc EXCEPT ![t] = AfterCheck(t)]
  BY Zenon DEF CallbackReturn
<1>5. cb' \in Timer
  <2>1. due \in SUBSET Nat /\ due \in SUBSET Timer
    BY DEF Timer
  <2>2. due # {} => Lowest(due) \in due
    BY <2>1, LowestIsLeast
  <2> QED BY <1>1, <1>4, <2>1, <2>2 DEF TypeOK
<1>6. timeOutMin' \in Word
  <2> DEFINE S == {Wrap - 1} \cup {tmo'[i] : i \in {j \in Timer : running'[j]}}
  <2>1. S \in SUBSET Word /\ S # {}
    BY <1>3, TimeAssumption DEF Word
  <2>2. S \in SUBSET Nat
    BY <2>1 DEF Word
  <2> HIDE DEF S
  <2>3. Lowest(S) \in S
    BY <2>1, <2>2, LowestIsLeast
  <2>4. MinTimeout(running', tmo') \in Word
    BY <2>1, <2>3 DEF MinTimeout, S
  <2> QED BY <1>1, <1>4, <2>4 DEF TypeOK
<1>7. /\ pc' \in [Task -> {"app", "gated", "resumed", "select", "callback"}]
      /\ \A u \in Task \ {t} : pc'[u] = pc[u]
      /\ t = Idle => pc'[t] # "select"
  BY <1>1, <1>4 DEF TypeOK, AfterCheck
<1>8. TypeOK'
  BY <1>1, <1>2, <1>3, <1>5, <1>6, <1>7 DEF CallbackReturn, TypeOK, taskVars, clockVars
<1>9. SuspendedHasPeer' /\ CurrentIsReady' /\ IdleRunsLast'
  BY <1>1 DEF TaskInv, SuspendedHasPeer, CurrentIsReady, IdleRunsLast
<1>10. CallbackOwner' /\ IdleReady'
  BY <1>1, <1>7, TaskAssumption DEF TaskInv, CallbackOwner, IdleReady
<1> QED BY <1>8, <1>9, <1>10 DEF TaskInv

LEMMA YieldKeepsTaskInv ==
  ASSUME NEW t \in Task
  PROVE  TaskInv /\ BosTaskYield(t) => TaskInv'
<1> SUFFICES ASSUME TaskInv, BosTaskYield(t) PROVE TaskInv'
  OBVIOUS
<1>1. TypeOK'
  BY DEF TaskInv, TypeOK, BosTaskYield, taskVars, clockVars, timerVars
<1>2. CallbackOwner' /\ IdleReady'
  BY DEF TaskInv, TypeOK, BosTaskYield, Calling, CallbackOwner, IdleReady, taskVars
<1> QED BY <1>1, <1>2 DEF TaskInv, BosTaskYield, taskVars, CurrentIsReady, IdleRunsLast,
                          SuspendedHasPeer

LEMMA SelectKeepsTaskInv ==
  ASSUME NEW t \in Task
  PROVE  TaskInv /\ YieldSelect(t) => TaskInv'
<1> SUFFICES ASSUME TaskInv, YieldSelect(t) PROVE TaskInv'
  OBVIOUS
<1>1. TypeOK /\ current = t /\ pc[t] = "select" /\ t # Idle
  BY DEF TaskInv, YieldSelect, IdleReady
<1>2. CASE Peers(t, state) = {}
  <2>1. state' = state /\ current' = current /\ pc' = [pc EXCEPT ![t] = "app"]
    BY <1>2 DEF YieldSelect
  <2>2. TypeOK'
    BY <1>1, <2>1 DEF YieldSelect, TypeOK, clockVars, timerVars
  <2> QED BY <1>1, <2>1, <2>2 DEF TaskInv, TypeOK, IdleReady, CallbackOwner,
                                  CurrentIsReady, IdleRunsLast, SuspendedHasPeer
<1>3. CASE Peers(t, state) # {}
  <2> DEFINE next == FirstAfter(t, Peers(t, state))
  <2>1. /\ next \in Task \ {t} /\ Prio[next] = Prio[t]
        /\ state[next] \in {"Suspended", "Ready"}
    BY <1>3, NextIsPeer
  <2>2. /\ state' = [state EXCEPT ![t] = "Suspended", ![next] = "Ready"]
        /\ current' = Sheduler(t, state') /\ pc' = [pc EXCEPT ![t] = "app"]
    BY <1>3 DEF YieldSelect
  <2> HIDE DEF next
  <2>3. state'[Idle] = "Ready"
    BY <1>1, <2>1, <2>2, TaskAssumption DEF TaskInv, TypeOK, IdleReady
  <2>4. current' \in Task /\ CurrentIsReady' /\ IdleRunsLast'
    BY <2>2, <2>3, AfterReschedule
  <2>5. TypeOK'
    BY <1>1, <2>1, <2>2, <2>4 DEF YieldSelect, TypeOK, clockVars, timerVars
  <2>6. CallbackOwner' /\ IdleReady'
    BY <1>1, <2>2, <2>3 DEF TaskInv, TypeOK, CallbackOwner, IdleReady
  <2>7. SuspendedHasPeer'
    BY <1>1, <2>1, <2>2 DEF TaskInv, TypeOK, SuspendedHasPeer
  <2> QED BY <2>4, <2>5, <2>6, <2>7 DEF TaskInv
<1> QED BY <1>2, <1>3

LEMMA DelayKeepsTaskInv ==
  ASSUME NEW t \in Task, NEW ms \in Delays
  PROVE  TaskInv /\ BosDelayMs(t, ms) => TaskInv'
<1> SUFFICES ASSUME TaskInv, BosDelayMs(t, ms) PROVE TaskInv'
  OBVIOUS
<1> DEFINE next == FirstAfter(t, Peers(t, state))
<1>1. TypeOK /\ current = t /\ pc[t] = "app" /\ t # Idle
  BY DEF TaskInv, BosDelayMs, Calling
<1>2. Peers(t, state) # {} => /\ next \in Task \ {t} /\ Prio[next] = Prio[t]
                             /\ state[next] \in {"Suspended", "Ready"}
  BY NextIsPeer
<1>3. /\ state' = [u \in Task |-> IF u = t THEN "Blocked"
                                   ELSE IF Peers(t, state) # {} /\ u = next THEN "Ready"
                                   ELSE state[u]]
      /\ current' = Sheduler(t, state') /\ pc' = pc
  BY DEF BosDelayMs
<1> HIDE DEF next
<1>4. state'[Idle] = "Ready"
  BY <1>1, <1>3, TaskAssumption DEF TaskInv, IdleReady
<1>5. current' \in Task /\ CurrentIsReady' /\ IdleRunsLast'
  BY <1>3, <1>4, AfterReschedule
<1>6. timeout' \in [Task -> Word] /\ remain' \in [Task -> Nat]
  <2>1. ms \in Nat /\ (time + ms) % Wrap \in Word
    BY <1>1, TimeAssumption DEF TypeOK, Word
  <2> QED BY <1>1, <2>1 DEF BosDelayMs, TypeOK
<1>7. TypeOK'
  BY <1>1, <1>3, <1>5, <1>6 DEF BosDelayMs, TypeOK, clockVars, timerVars
<1>8. CallbackOwner' /\ IdleReady'
  BY <1>1, <1>3, <1>4 DEF TaskInv, CallbackOwner, IdleReady
<1>9. SuspendedHasPeer'
  <2> SUFFICES ASSUME NEW v \in Task, state'[v] = "Suspended"
               PROVE  \E u \in Task \ {v} : Prio[u] = Prio[v] /\ state'[u] \in {"Ready", "Stop"}
    BY DEF SuspendedHasPeer
  <2>1. state[v] = "Suspended" /\ v # t
    BY <1>3
  <2>2. PICK u \in Task \ {v} : Prio[u] = Prio[v] /\ state[u] \in {"Ready", "Stop"}
    BY <2>1 DEF TaskInv, SuspendedHasPeer
  <2>3. CASE u # t
    BY <1>3, <2>2, <2>3
  <2>4. CASE u = t
    <3>1. v \in Peers(t, state)
      BY <2>1, <2>2, <2>4 DEF Peers
    <3>2. next # v
      BY <1>3, <2>1, <3>1
    <3> QED BY <1>2, <1>3, <2>2, <2>4, <3>1, <3>2
  <2> QED BY <2>3, <2>4
<1> QED BY <1>5, <1>7, <1>8, <1>9 DEF TaskInv

LEMMA ExitKeepsTaskInv ==
  ASSUME NEW t \in Task
  PROVE  TaskInv /\ BosTaskExit(t) => TaskInv'
<1> SUFFICES ASSUME TaskInv, BosTaskExit(t) PROVE TaskInv'
  OBVIOUS
<1>1. /\ TypeOK /\ current = t /\ pc[t] = "app" /\ t # Idle
      /\ state' = [state EXCEPT ![t] = "Stop"] /\ current' = Sheduler(t, state')
  BY DEF TaskInv, BosTaskExit, Calling
<1>2. state'[Idle] = "Ready"
  BY <1>1, TaskAssumption DEF TaskInv, TypeOK, IdleReady
<1>3. current' \in Task /\ CurrentIsReady' /\ IdleRunsLast'
  BY <1>1, <1>2, AfterReschedule
<1>4. TypeOK'
  BY <1>1, <1>3 DEF BosTaskExit, TypeOK, clockVars, timerVars
<1>5. CallbackOwner' /\ IdleReady'
  BY <1>1, <1>2 DEF TaskInv, BosTaskExit, CallbackOwner, IdleReady
<1>6. SuspendedHasPeer'
  BY <1>1 DEF TaskInv, TypeOK, SuspendedHasPeer
<1> QED BY <1>3, <1>4, <1>5, <1>6 DEF TaskInv

LEMMA TimerCallKeepsTaskInv == TaskInv /\ TimerCall => TaskInv'
<1> SUFFICES ASSUME TaskInv, TimerCall PROVE TaskInv'
  OBVIOUS
<1>1. PICK i \in Timer : \/ \E p \in Periods : BosTimerStart(i, p) \/ BosTimerReset(i, p)
                         \/ BosTimerStop(i)
  BY DEF TimerCall
<1>2. /\ UNCHANGED <<state, timeout, current, remain, time, timeOffset, pc, idleBackup, cb>>
      /\ TypeOK'
  <2>1. ASSUME NEW p \in Periods, BosTimerStart(i, p)
        PROVE  /\ UNCHANGED <<state, timeout, current, remain, time, timeOffset, pc, idleBackup, cb>>
               /\ TypeOK'
    <3>1. p \in Nat /\ (time + p) % Wrap \in Word
      BY TimeAssumption DEF TaskInv, TypeOK, Word
    <3>2. tmo' \in [Timer -> Word] /\ tmo'[i] \in Word
      BY <2>1, <3>1 DEF TaskInv, TypeOK, BosTimerStart
    <3>3. timeOutMin' \in Word
      BY <2>1, <3>2 DEF TaskInv, TypeOK, BosTimerStart
    <3> QED BY <2>1, <3>1, <3>2, <3>3 DEF TaskInv, TypeOK, BosTimerStart, taskVars, clockVars
  <2>2. ASSUME NEW p \in Periods, BosTimerReset(i, p)
        PROVE  /\ UNCHANGED <<state, timeout, current, remain, time, timeOffset, pc, idleBackup, cb>>
               /\ TypeOK'
    BY <2>2, TimeAssumption DEF TaskInv, TypeOK, BosTimerReset, taskVars, clockVars
  <2>3. ASSUME BosTimerStop(i)
        PROVE  /\ UNCHANGED <<state, timeout, current, remain, time, timeOffset, pc, idleBackup, cb>>
               /\ TypeOK'
    <3>1. Wrap - 1 \in Word
      BY TimeAssumption DEF Word
    <3> QED BY <2>3, <3>1 DEF TaskInv, TypeOK, BosTimerStop, taskVars, clockVars
  <2> QED BY <1>1, <2>1, <2>2, <2>3
<1> QED BY <1>2 DEF TaskInv, IdleReady, CallbackOwner, CurrentIsReady, IdleRunsLast,
                    SuspendedHasPeer

LEMMA TaskInvStep == TaskInv /\ [Next]_vars => TaskInv'
<1> SUFFICES ASSUME TaskInv, [Next]_vars PROVE TaskInv'
  OBVIOUS
<1>1. CASE BosTick
  BY <1>1, TickKeepsTaskInv
<1>2. CASE Kernel
  BY <1>2, EntryIdleKeepsTaskInv, GiveWayKeepsTaskInv, ResumeKeepsTaskInv,
     CheckKeepsTaskInv, CallbackKeepsTaskInv, SelectKeepsTaskInv DEF Kernel
<1>3. CASE TaskCall
  BY <1>3, YieldKeepsTaskInv, DelayKeepsTaskInv, ExitKeepsTaskInv DEF TaskCall
<1>4. CASE TimerCall
  BY <1>4, TimerCallKeepsTaskInv
<1>5. CASE UNCHANGED vars
  BY <1>5 DEF TaskInv, TypeOK, IdleReady, CallbackOwner, CurrentIsReady, IdleRunsLast,
              SuspendedHasPeer, vars, taskVars, clockVars, timerVars
<1> QED BY <1>1, <1>2, <1>3, <1>4, <1>5 DEF Next

(* The invariant of the task half, for every task table. *)
THEOREM TaskInvariant == Spec => []TaskInv
BY TaskInvInit, TaskInvStep, PTL DEF Spec

(* Every kernel variable keeps its C range. *)
THEOREM TypeCorrect == Spec => []TypeOK
<1>1. TaskInv => TypeOK
  BY DEF TaskInv
<1> QED BY <1>1, TaskInvariant, PTL

(* A parked task is never alone with its priority, except after an exit.   *)
THEOREM ParkedKeepAPeer == Spec => []SuspendedHasPeer
<1>1. TaskInv => SuspendedHasPeer
  BY DEF TaskInv
<1> QED BY <1>1, TaskInvariant, PTL

(* Whoever has the CPU is ready; the idle task has it only while no task   *)
(* above priority 1 is ready.                                              *)
THEOREM CpuGoesToReady == Spec => [](CurrentIsReady /\ IdleRunsLast)
<1>1. TaskInv => CurrentIsReady /\ IdleRunsLast
  BY DEF TaskInv
<1> QED BY <1>1, TaskInvariant, PTL

-----------------------------------------------------------------------------
(* The inductive invariant of the clock half: what the stored timeouts say *)
(* about the ticks that are still to come.                                 *)

DelayHolds ==
  \A t \in Task : state[t] = "Blocked" /\ remain[t] > 0 => timeout[t] = time + remain[t]

TimerHolds ==
  \A i \in Timer : tremain[i] > 0 /\ ~lapped[i] => tmo[i] >= time + tremain[i]

ClockInv == TaskInv /\ DelayHolds /\ TimerHolds

(* What a step does to the timers that leaves the clock alone. *)
LEMMA DelayKept ==
  ASSUME DelayHolds, UNCHANGED <<timeout, remain, time>>,
         \A t \in Task : state'[t] = "Blocked" => state[t] = "Blocked"
  PROVE  DelayHolds'
BY DEF DelayHolds

LEMMA TickKeepsClockInv == ClockInv /\ BosTick => DelayHolds' /\ TimerHolds'
<1> SUFFICES ASSUME ClockInv, BosTick PROVE DelayHolds' /\ TimerHolds'
  OBVIOUS
<1>1. /\ TypeOK /\ time \in Nat /\ current \in Task /\ cb \in Timer
      /\ \A t \in Task : remain[t] \in Nat /\ timeout[t] \in Nat
      /\ \A i \in Timer : tremain[i] \in Nat /\ tmo[i] \in Nat
  BY DEF ClockInv, TaskInv, TypeOK, Word
<1>2. DelayHolds'
  BY <1>1 DEF ClockInv, DelayHolds, BosTick
<1>3. TimerHolds'
  BY <1>1 DEF ClockInv, TimerHolds, BosTick
<1> QED BY <1>2, <1>3

(* The rebase moves the clock and every pending timeout by the same amount. *)
LEMMA RebaseKeepsDelays ==
  ASSUME ClockInv, NEW t \in Task, CheckTimers(t, state'), remain' = remain,
         \A u \in Task : state'[u] = "Blocked" => state[u] = "Blocked"
  PROVE  DelayHolds'
<1> SUFFICES ASSUME NEW u \in Task, state'[u] = "Blocked", remain[u] > 0
             PROVE  timeout'[u] = time' + remain[u]
  BY DEF DelayHolds
<1>1. /\ Base \in Word /\ Base <= time /\ time \in Nat
      /\ remain[u] \in Nat /\ timeout[u] \in Word
  BY BaseInWord DEF ClockInv, TaskInv, TypeOK
<1>2. timeout[u] = time + remain[u]
  BY DEF ClockInv, DelayHolds
<1>3. time' = time - Base /\ timeout'[u] = Sub(timeout[u], Base)
  BY CheckTimersEffect
<1>4. Base <= timeout[u]
  BY <1>1, <1>2 DEF Word
<1>5. Sub(timeout[u], Base) = timeout[u] - Base
  BY <1>1, <1>4, SubInWord
<1> QED BY <1>1, <1>2, <1>3, <1>5 DEF Word

LEMMA RebaseKeepsTimers ==
  ASSUME ClockInv, NEW t \in Task, NEW st, CheckTimers(t, st), UNCHANGED <<tremain, lapped>>
  PROVE  TimerHolds'
<1> SUFFICES ASSUME NEW i \in Timer, tremain[i] > 0, ~lapped[i]
             PROVE  tmo'[i] >= time' + tremain[i]
  BY DEF TimerHolds
<1>1. /\ Base \in Word /\ Base <= time /\ time \in Nat
      /\ tremain[i] \in Nat /\ tmo[i] \in Word
  BY BaseInWord DEF ClockInv, TaskInv, TypeOK
<1>2. tmo[i] >= time + tremain[i]
  BY DEF ClockInv, TimerHolds
<1>3. time' = time - Base /\ tmo'[i] = Rebased(i)
  BY CheckTimersEffect
<1>4. Base <= tmo[i]
  BY <1>1, <1>2 DEF Word
<1>5. Sub(tmo[i], Base) = tmo[i] - Base
  BY <1>1, <1>4, SubInWord
<1> QED BY <1>1, <1>2, <1>3, <1>5 DEF Word, Rebased

(* A callback starts only for a timer whose started period is over.        *)
LEMMA CallbackIsDue ==
  ASSUME ClockInv, NEW t \in Task, NEW st, CheckTimers(t, st), UNCHANGED <<tremain, lapped>>,
         pc'[t] = "callback", current = t, pc[t] # "callback"
  PROVE  cb' \in Timer /\ (tremain[cb'] = 0 \/ lapped[cb'])
<1>1. TypeOK
  BY DEF ClockInv, TaskInv
<1>2. AfterCheck(t) # "callback"
  BY DEF AfterCheck
<1>3. PICK due \in SUBSET Timer : /\ due # {} /\ cb' = Lowest(due)
                                 /\ \A i \in due : running[i] /\ time' >= tmo'[i]
  BY <1>1, <1>2, CheckTimersEffect DEF TypeOK
<1>4. due \in SUBSET Nat
  BY DEF Timer
<1>5. cb' \in due
  BY <1>3, <1>4, LowestIsLeast
<1>6. time' >= tmo'[cb'] /\ tmo'[cb'] \in Nat /\ time' \in Nat /\ tremain[cb'] \in Nat
  BY <1>1, <1>3, <1>5, CheckTimersTypes DEF TypeOK, Word
<1>7. TimerHolds'
  BY RebaseKeepsTimers
<1> QED BY <1>5, <1>6, <1>7 DEF TimerHolds

LEMMA CheckKeepsClockInv ==
  ASSUME NEW t \in Task
  PROVE  ClockInv /\ CheckTasks(t) =>
           /\ DelayHolds' /\ TimerHolds'
           /\ pc'[t] = "callback" => tremain[cb'] = 0 \/ lapped[cb']
<1> SUFFICES ASSUME ClockInv, CheckTasks(t)
             PROVE  /\ DelayHolds' /\ TimerHolds'
                    /\ pc'[t] = "callback" => tremain[cb'] = 0 \/ lapped[cb']
  OBVIOUS
<1>1. /\ TypeOK /\ CheckTimers(t, state') /\ remain' = remain /\ UNCHANGED <<tremain, lapped>>
      /\ current = t /\ current' = t /\ pc[t] = "gated" /\ state' = WakeTasks
  BY DEF ClockInv, TaskInv, CheckTasks
<1>2. DelayHolds'
  BY <1>1, WakeFacts, RebaseKeepsDelays
<1>3. TimerHolds'
  BY <1>1, RebaseKeepsTimers
<1>4. pc'[t] = "callback" => tremain[cb'] = 0 \/ lapped[cb']
  BY <1>1, CallbackIsDue
<1> QED BY <1>2, <1>3, <1>4

LEMMA ResumeKeepsClockInv ==
  ClockInv /\ CheckResume =>
    /\ DelayHolds' /\ TimerHolds'
    /\ pc'[Idle] = "callback" => tremain[cb'] = 0 \/ lapped[cb']
<1> SUFFICES ASSUME ClockInv, CheckResume
             PROVE  /\ DelayHolds' /\ TimerHolds'
                    /\ pc'[Idle] = "callback" => tremain[cb'] = 0 \/ lapped[cb']
  OBVIOUS
<1>1. /\ TypeOK /\ CheckTimers(Idle, state') /\ remain' = remain /\ UNCHANGED <<tremain, lapped>>
      /\ current = Idle /\ current' = Idle /\ pc[Idle] = "resumed" /\ state' = state
      /\ Idle \in Task
  BY TaskAssumption DEF ClockInv, TaskInv, CheckResume
<1>2. DelayHolds'
  BY <1>1, RebaseKeepsDelays
<1>3. TimerHolds'
  BY <1>1, RebaseKeepsTimers
<1>4. pc'[Idle] = "callback" => tremain[cb'] = 0 \/ lapped[cb']
  BY <1>1, CallbackIsDue
<1> QED BY <1>2, <1>3, <1>4

LEMMA CallbackKeepsClockInv ==
  ASSUME NEW t \in Task
  PROVE  ClockInv /\ CallbackReturn(t) =>
           /\ DelayHolds' /\ TimerHolds'
           /\ pc'[t] = "callback" => tremain[cb'] = 0 \/ lapped[cb']
<1> SUFFICES ASSUME ClockInv, CallbackReturn(t)
             PROVE  /\ DelayHolds' /\ TimerHolds'
                    /\ pc'[t] = "callback" => tremain[cb'] = 0 \/ lapped[cb']
  OBVIOUS
<1> DEFINE due == {i \in Timer : i > cb /\ running'[i] /\ time >= tmo'[i]}
<1>1. /\ TypeOK /\ current = t /\ current' = t /\ pc[t] = "callback" /\ cb \in Timer
      /\ UNCHANGED <<state, timeout, remain, tremain, time>>
  BY DEF ClockInv, TaskInv, TypeOK, CallbackReturn, taskVars, clockVars
<1>2. DelayHolds'
  BY <1>1, DelayKept DEF ClockInv
<1>3. TimerHolds'
  <2> SUFFICES ASSUME NEW i \in Timer, tremain[i] > 0, ~lapped'[i]
               PROVE  tmo'[i] >= time + tremain[i]
    BY <1>1 DEF TimerHolds
  <2>1. /\ ~lapped[i] /\ tmo[i] >= time + tremain[i]
        /\ i = cb => ~SumWraps
    <3>1. lapped' = [lapped EXCEPT ![cb] = @ \/ SumWraps]
      BY DEF CallbackReturn
    <3>2. lapped'[i] = IF i = cb THEN lapped[i] \/ SumWraps ELSE lapped[i]
      BY <1>1, <3>1 DEF TypeOK
    <3> QED BY <3>2 DEF ClockInv, TimerHolds
  <2>2. CASE i # cb \/ i \in OneShot
    BY <1>1, <2>1, <2>2 DEF CallbackReturn, TypeOK
  <2>3. CASE i = cb /\ i \notin OneShot
    <3>1. /\ period[i] \in Nat /\ tmo[i] \in Nat /\ time \in Nat /\ tremain[i] \in Nat
          /\ tmo[i] + period[i] < Wrap
      <4>1. \A q \in Periods \cup {0} : q \in Nat
        BY TimeAssumption
      <4>2. period[i] \in Nat /\ tmo[i] \in Nat /\ time \in Nat /\ tremain[i] \in Nat
        BY <1>1, <4>1 DEF TypeOK, Word
      <4> QED BY <2>1, <2>3, <4>2, TimeAssumption DEF SumWraps
    <3>2. (tmo[i] + period[i]) % Wrap = tmo[i] + period[i]
      BY <3>1, TimeAssumption
    <3>3. tmo'[i] = tmo[i] + period[i]
      BY <1>1, <2>3, <3>2 DEF CallbackReturn, TypeOK
    <3> QED BY <2>1, <3>1, <3>3
  <2> QED BY <2>2, <2>3
<1>4. \/ due # {} /\ cb' = Lowest(due)
      \/ pc' = [pc EXCEPT ![t] = AfterCheck(t)]
  BY Zenon DEF CallbackReturn
<1>5. pc'[t] = "callback" => tremain[cb'] = 0 \/ lapped[cb']
  <2> SUFFICES ASSUME pc'[t] = "callback" PROVE tremain[cb'] = 0 \/ lapped[cb']
    OBVIOUS
  <2>1. due # {} /\ cb' = Lowest(due)
    BY <1>1, <1>4 DEF AfterCheck, TypeOK
  <2>2. due \in SUBSET Nat
    BY DEF Timer
  <2>3. cb' \in due
    BY <2>1, <2>2, LowestIsLeast
  <2>4. TypeOK'
    BY CallbackKeepsTaskInv DEF ClockInv, TaskInv
  <2>5. cb' \in Timer /\ time >= tmo'[cb'] /\ tmo'[cb'] \in Nat /\ time \in Nat
        /\ tremain[cb'] \in Nat /\ cb' # cb
    BY <1>1, <2>3, <2>4 DEF TypeOK, Word, Timer
  <2>6. lapped'[cb'] = lapped[cb']
    BY <1>1, <2>3, <2>5 DEF CallbackReturn, TypeOK
  <2> QED BY <1>1, <1>3, <2>5, <2>6 DEF TimerHolds
<1> QED BY <1>2, <1>3, <1>5

LEMMA DelayKeepsClockInv ==
  ASSUME NEW t \in Task, NEW ms \in Delays
  PROVE  ClockInv /\ BosDelayMs(t, ms) => DelayHolds'
<1> SUFFICES ASSUME ClockInv, BosDelayMs(t, ms) PROVE DelayHolds'
  OBVIOUS
<1>1. TypeOK /\ time \in Nat /\ time <= MaxTime + 1 /\ ms \in Nat /\ MaxTime + 1 + ms < Wrap
  BY TimeAssumption DEF ClockInv, TaskInv, TypeOK
<1>2. (time + ms) % Wrap = time + ms
  BY <1>1, TimeAssumption
<1>3. timeout'[t] = time + ms /\ remain'[t] = ms /\ time' = time
  BY <1>1, <1>2 DEF BosDelayMs, TypeOK, clockVars
<1>4. \A u \in Task \ {t} : timeout'[u] = timeout[u] /\ remain'[u] = remain[u]
  BY <1>1 DEF BosDelayMs, TypeOK
<1>5. \A u \in Task \ {t} : state'[u] = "Blocked" => state[u] = "Blocked"
  <2> DEFINE next == FirstAfter(t, Peers(t, state))
  <2>1. state' = [u \in Task |-> IF u = t THEN "Blocked"
                                ELSE IF Peers(t, state) # {} /\ u = next THEN "Ready"
                                ELSE state[u]]
    BY DEF BosDelayMs
  <2> HIDE DEF next
  <2> QED BY <2>1
<1> QED BY <1>3, <1>4, <1>5 DEF ClockInv, DelayHolds

LEMMA TimerCallKeepsClockInv == ClockInv /\ TimerCall => DelayHolds' /\ TimerHolds'
<1> SUFFICES ASSUME ClockInv, TimerCall PROVE DelayHolds' /\ TimerHolds'
  OBVIOUS
<1>1. PICK i \in Timer : \/ \E p \in Periods : BosTimerStart(i, p) \/ BosTimerReset(i, p)
                         \/ BosTimerStop(i)
  BY DEF TimerCall
<1>2. /\ TypeOK /\ time \in Nat /\ time <= MaxTime + 1 /\ cb \in Timer
      /\ \A p \in Periods : p \in Nat /\ (time + p) % Wrap = time + p
  <2>1. TypeOK /\ time \in Nat /\ time <= MaxTime + 1 /\ cb \in Timer
    BY TimeAssumption DEF ClockInv, TaskInv, TypeOK
  <2>2. ASSUME NEW p \in Periods PROVE p \in Nat /\ (time + p) % Wrap = time + p
    <3>1. p \in Nat /\ MaxTime + 1 + p < Wrap
      BY TimeAssumption
    <3> QED BY <2>1, <3>1, TimeAssumption
  <2> QED BY <2>1, <2>2
<1>3. ASSUME NEW p \in Periods, BosTimerStart(i, p)
      PROVE  DelayHolds' /\ TimerHolds'
  <2>1. UNCHANGED <<state, timeout, remain, time, pc, current, cb>>
    BY <1>3 DEF BosTimerStart, taskVars, clockVars
  <2>2. /\ tmo'[i] = time + p /\ tremain'[i] = p
        /\ \A j \in Timer \ {i} : /\ tmo'[j] = tmo[j] /\ tremain'[j] = tremain[j]
                                 /\ lapped'[j] = lapped[j]
    BY <1>2, <1>3 DEF BosTimerStart, TypeOK
  <2>3. TimerHolds'
    BY <1>2, <2>1, <2>2 DEF ClockInv, TimerHolds
  <2> QED BY <2>1, <2>3, DelayKept DEF ClockInv
<1>4. ASSUME NEW p \in Periods, BosTimerReset(i, p)
      PROVE  DelayHolds' /\ TimerHolds'
  BY <1>4 DEF BosTimerReset, taskVars, clockVars, ClockInv, DelayHolds, TimerHolds
<1>5. ASSUME BosTimerStop(i)
      PROVE  DelayHolds' /\ TimerHolds'
  <2>1. UNCHANGED <<state, timeout, remain, time, pc, current, cb, tmo, lapped>>
    BY <1>5 DEF BosTimerStop, taskVars, clockVars
  <2>2. tremain'[i] = 0 /\ \A j \in Timer \ {i} : tremain'[j] = tremain[j]
    BY <1>2, <1>5 DEF BosTimerStop, TypeOK
  <2>3. TimerHolds'
    BY <1>2, <2>1, <2>2 DEF ClockInv, TimerHolds
  <2> QED BY <2>1, <2>3, DelayKept DEF ClockInv
<1> QED BY <1>1, <1>3, <1>4, <1>5

(* The other steps leave the timers and the clock alone, keep blocked      *)
(* tasks blocked and start no callback.                                    *)
Quiet ==
  /\ UNCHANGED <<remain, time, timeOffset, running, tmo, period, tremain, lapped, timeOutMin, cb>>
  /\ pc'[current] # "callback" /\ pc'[current'] # "callback"

LEMMA QuietSteps ==
  ASSUME TaskInv, NEW t \in Task
  PROVE  /\ EntryIdle => Quiet /\ UNCHANGED <<state, timeout>>
         /\ CheckGiveWay => Quiet
         /\ YieldSelect(t) => Quiet /\ UNCHANGED timeout
         /\ BosTaskYield(t) => Quiet /\ UNCHANGED <<state, timeout>>
         /\ BosTaskExit(t) => Quiet /\ UNCHANGED timeout
<1>1. /\ TypeOK /\ current \in Task
      /\ \/ TaskInv'
         \/ ~(EntryIdle \/ CheckGiveWay \/ YieldSelect(t) \/ BosTaskYield(t) \/ BosTaskExit(t))
  BY EntryIdleKeepsTaskInv, GiveWayKeepsTaskInv, SelectKeepsTaskInv, YieldKeepsTaskInv,
     ExitKeepsTaskInv DEF TaskInv, TypeOK
<1>2. EntryIdle => Quiet /\ UNCHANGED <<state, timeout>>
  BY <1>1 DEF EntryIdle, Quiet, TypeOK, taskVars, clockVars, timerVars
<1>3. CheckGiveWay => Quiet
  <2> SUFFICES ASSUME CheckGiveWay PROVE Quiet
    OBVIOUS
  <2>1. pc' = [pc EXCEPT ![Idle] = "resumed"] /\ current = Idle /\ current' \in Task
    BY <1>1 DEF CheckGiveWay, TaskInv, TypeOK
  <2>2. \A u \in Task : pc[u] = "callback" => u = Idle
    BY <2>1 DEF TaskInv, CallbackOwner
  <2> QED BY <1>1, <2>1, <2>2 DEF CheckGiveWay, Quiet, TypeOK, clockVars, timerVars
<1>4. YieldSelect(t) => Quiet /\ UNCHANGED timeout
  <2> SUFFICES ASSUME YieldSelect(t) PROVE Quiet /\ UNCHANGED timeout
    OBVIOUS
  <2>1. pc' = [pc EXCEPT ![t] = "app"] /\ current = t /\ current' \in Task
    BY <1>1 DEF YieldSelect, TaskInv, TypeOK
  <2>2. \A u \in Task : pc[u] = "callback" => u = t
    BY <2>1 DEF TaskInv, CallbackOwner
  <2> QED BY <1>1, <2>1, <2>2 DEF YieldSelect, Quiet, TypeOK, clockVars, timerVars
<1>5. BosTaskYield(t) => Quiet /\ UNCHANGED <<state, timeout>>
  BY <1>1 DEF BosTaskYield, Calling, Quiet, TypeOK, taskVars, clockVars, timerVars
<1>6. BosTaskExit(t) => Quiet /\ UNCHANGED timeout
  <2> SUFFICES ASSUME BosTaskExit(t) PROVE Quiet /\ UNCHANGED timeout
    OBVIOUS
  <2>1. pc' = pc /\ current = t /\ pc[t] = "app" /\ current' \in Task
    BY <1>1 DEF BosTaskExit, Calling, TaskInv, TypeOK
  <2>2. \A u \in Task : pc[u] # "callback"
    BY <2>1 DEF TaskInv, CallbackOwner
  <2> QED BY <1>1, <2>1, <2>2 DEF BosTaskExit, Quiet, clockVars, timerVars
<1> QED BY <1>2, <1>3, <1>4, <1>5, <1>6

LEMMA QuietKeepsClockInv ==
  ASSUME ClockInv, Quiet,
         \A u \in Task : state'[u] = "Blocked" => state[u] = "Blocked" /\ timeout'[u] = timeout[u]
  PROVE  DelayHolds' /\ TimerHolds'
BY DEF ClockInv, Quiet, DelayHolds, TimerHolds

(* Which tasks leave or enter Blocked in a step other than a delay.        *)
LEMMA SelectBlocksNobody ==
  ASSUME TaskInv, NEW t \in Task, YieldSelect(t)
  PROVE  \A u \in Task : (state'[u] = "Blocked") = (state[u] = "Blocked")
<1> DEFINE next == FirstAfter(t, Peers(t, state))
<1>1. TypeOK /\ state[t] = "Ready"
  BY DEF TaskInv, YieldSelect, CurrentIsReady
<1>2. CASE Peers(t, state) = {}
  BY <1>2 DEF YieldSelect
<1>3. CASE Peers(t, state) # {}
  <2>1. next \in Task \ {t} /\ state[next] \in {"Suspended", "Ready"}
    BY <1>3, NextIsPeer
  <2>2. state' = [state EXCEPT ![t] = "Suspended", ![next] = "Ready"]
    BY <1>3 DEF YieldSelect
  <2> HIDE DEF next
  <2> QED BY <1>1, <2>1, <2>2 DEF TypeOK
<1> QED BY <1>2, <1>3

LEMMA ClockInvStep == ClockInv /\ [Next]_vars => ClockInv'
<1> SUFFICES ASSUME ClockInv, [Next]_vars PROVE DelayHolds' /\ TimerHolds'
  BY TaskInvStep DEF ClockInv
<1>1. TaskInv /\ TypeOK
  BY DEF ClockInv, TaskInv
<1>2. CASE BosTick
  BY <1>2, TickKeepsClockInv
<1>3. CASE EntryIdle
  BY <1>1, <1>3, QuietSteps, QuietKeepsClockInv, TaskAssumption
<1>4. CASE CheckGiveWay
  <2>1. \A u \in Task : state'[u] = "Blocked" => state[u] = "Blocked" /\ timeout'[u] = timeout[u]
    BY <1>4 DEF CheckGiveWay, WakeTasks
  <2> QED BY <1>1, <1>4, <2>1, QuietSteps, QuietKeepsClockInv, TaskAssumption
<1>5. CASE CheckResume
  BY <1>5, ResumeKeepsClockInv
<1>6. ASSUME NEW t \in Task, CheckTasks(t) \/ CallbackReturn(t)
      PROVE  DelayHolds' /\ TimerHolds'
  BY <1>6, CheckKeepsClockInv, CallbackKeepsClockInv
<1>7. ASSUME NEW t \in Task, YieldSelect(t)
      PROVE  DelayHolds' /\ TimerHolds'
  BY <1>1, <1>7, QuietSteps, QuietKeepsClockInv, SelectBlocksNobody
<1>8. ASSUME NEW t \in Task, BosTaskYield(t)
      PROVE  DelayHolds' /\ TimerHolds'
  BY <1>1, <1>8, QuietSteps, QuietKeepsClockInv
<1>9. ASSUME NEW t \in Task, NEW ms \in Delays, BosDelayMs(t, ms)
      PROVE  DelayHolds' /\ TimerHolds'
  <2>1. DelayHolds'
    BY <1>9, DelayKeepsClockInv
  <2>2. TimerHolds'
    BY <1>9 DEF BosDelayMs, ClockInv, TimerHolds, clockVars, timerVars
  <2> QED BY <2>1, <2>2
<1>10. ASSUME NEW t \in Task, BosTaskExit(t)
       PROVE  DelayHolds' /\ TimerHolds'
  <2>1. \A u \in Task : state'[u] = "Blocked" => state[u] = "Blocked"
    BY <1>1, <1>10 DEF BosTaskExit, TypeOK
  <2> QED BY <1>1, <1>10, <2>1, QuietSteps, QuietKeepsClockInv
<1>11. CASE TimerCall
  BY <1>11, TimerCallKeepsClockInv
<1>12. CASE UNCHANGED vars
  BY <1>12 DEF ClockInv, DelayHolds, TimerHolds, vars, taskVars, clockVars, timerVars
<1> QED BY <1>2, <1>3, <1>4, <1>5, <1>6, <1>7, <1>8, <1>9, <1>10, <1>11, <1>12
        DEF Next, Kernel, TaskCall

(* The invariant of the clock half, for every set of timers and any bound. *)
THEOREM ClockInvariant == Spec => []ClockInv
<1>1. Init => ClockInv
  <2> SUFFICES ASSUME Init PROVE ClockInv
    OBVIOUS
  <2>1. TaskInv
    BY TaskInvInit
  <2>2. DelayHolds /\ TimerHolds
    BY <2>1 DEF Init, DelayHolds, TimerHolds, TaskInv, TypeOK
  <2> QED BY <2>1, <2>2 DEF ClockInv
<1> QED BY <1>1, ClockInvStep, PTL DEF Spec

(* No task is made ready before the delay it asked for has passed. *)
THEOREM DelaysAreNeverShort == Spec => NoEarlyWake
<1> DEFINE Late == \A t \in Task : state[t] = "Blocked" /\ state'[t] # "Blocked" => remain[t] = 0
<1>1. ClockInv /\ [Next]_vars => [Late]_vars
  <2> SUFFICES ASSUME ClockInv, Next, NEW t \in Task, state[t] = "Blocked",
                      state'[t] # "Blocked"
               PROVE  remain[t] = 0
    OBVIOUS
  <2>1. TaskInv /\ TypeOK /\ state[current] = "Ready"
    BY DEF ClockInv, TaskInv, CurrentIsReady
  <2>2. ASSUME time >= timeout[t] PROVE remain[t] = 0
    <3>1. remain[t] \in Nat /\ time \in Nat
      BY <2>1 DEF TypeOK
    <3> QED BY <2>2, <3>1 DEF ClockInv, DelayHolds
  <2>3. CASE BosTick
    BY <2>3 DEF BosTick
  <2>4. CASE EntryIdle \/ CheckResume
    BY <2>4 DEF EntryIdle, CheckResume, taskVars
  <2>5. CASE CheckGiveWay
    BY <2>2, <2>5 DEF CheckGiveWay, WakeTasks, Woken
  <2>6. ASSUME NEW u \in Task, CheckTasks(u) PROVE remain[t] = 0
    BY <2>2, <2>6 DEF CheckTasks, WakeTasks, Woken
  <2>7. ASSUME NEW u \in Task, CallbackReturn(u) \/ BosTaskYield(u) PROVE remain[t] = 0
    BY <2>7 DEF CallbackReturn, BosTaskYield, taskVars
  <2>8. ASSUME NEW u \in Task, YieldSelect(u) PROVE remain[t] = 0
    BY <2>1, <2>8, SelectBlocksNobody
  <2>9. ASSUME NEW u \in Task, NEW ms \in Delays, BosDelayMs(u, ms) PROVE remain[t] = 0
    <3> DEFINE next == FirstAfter(u, Peers(u, state))
    <3>1. Peers(u, state) # {} => state[next] # "Blocked"
      BY NextIsPeer
    <3>2. state' = [v \in Task |-> IF v = u THEN "Blocked"
                                  ELSE IF Peers(u, state) # {} /\ v = next THEN "Ready"
                                  ELSE state[v]]
      BY <2>9 DEF BosDelayMs
    <3> HIDE DEF next
    <3> QED BY <3>1, <3>2
  <2>10. ASSUME NEW u \in Task, BosTaskExit(u) PROVE remain[t] = 0
    BY <2>1, <2>10 DEF BosTaskExit, Calling, TypeOK
  <2>11. CASE TimerCall
    BY <2>11 DEF TimerCall, BosTimerStart, BosTimerStop, BosTimerReset, taskVars
  <2> QED BY <2>3, <2>4, <2>5, <2>6, <2>7, <2>8, <2>9, <2>10, <2>11 DEF Next, Kernel, TaskCall
<1> QED BY <1>1, ClockInvariant, PTL DEF Spec, NoEarlyWake

(* No timer's callback starts before the period it was started with is     *)
(* over, unless its timeout has wrapped in its own callback since then.    *)
THEOREM TimersAreNeverEarly == Spec => NoEarlyFire
<1> DEFINE Late == \A i \in Timer : FiredNow(i) => tremain[i] = 0 \/ lapped[i]
<1>1. ClockInv /\ [Next]_vars => [Late]_vars
  <2> SUFFICES ASSUME ClockInv, Next, NEW i \in Timer, FiredNow(i)
               PROVE  tremain[i] = 0 \/ lapped[i]
    OBVIOUS
  <2>1. /\ TaskInv /\ TypeOK /\ pc'[current] = "callback" /\ cb' = i
        /\ pc[current] = "callback" => cb # i
    BY DEF ClockInv, TaskInv, FiredNow
  <2>2. ~(pc'[current] = pc[current] /\ cb' = cb)
    BY <2>1
  <2>3. CASE BosTick
    BY <2>2, <2>3 DEF BosTick
  <2>4. CASE EntryIdle \/ CheckGiveWay
    BY <2>1, <2>4, QuietSteps, TaskAssumption DEF Quiet
  <2>5. CASE CheckResume
    BY <2>1, <2>5, ResumeKeepsClockInv DEF CheckResume
  <2>6. ASSUME NEW u \in Task, CheckTasks(u) PROVE tremain[i] = 0 \/ lapped[i]
    BY <2>1, <2>6, CheckKeepsClockInv DEF CheckTasks
  <2>7. ASSUME NEW u \in Task, CallbackReturn(u) PROVE tremain[i] = 0 \/ lapped[i]
    BY <2>1, <2>7, CallbackKeepsClockInv DEF CallbackReturn
  <2>8. ASSUME NEW u \in Task, YieldSelect(u) \/ BosTaskYield(u) \/ BosTaskExit(u)
        PROVE  tremain[i] = 0 \/ lapped[i]
    BY <2>1, <2>8, QuietSteps DEF Quiet
  <2>9. ASSUME NEW u \in Task, NEW ms \in Delays, BosDelayMs(u, ms) PROVE tremain[i] = 0 \/ lapped[i]
    BY <2>2, <2>9 DEF BosDelayMs
  <2>10. CASE TimerCall
    BY <2>2, <2>10 DEF TimerCall, BosTimerStart, BosTimerStop, BosTimerReset
  <2> QED BY <2>3, <2>4, <2>5, <2>6, <2>7, <2>8, <2>9, <2>10 DEF Next, Kernel, TaskCall
<1> QED BY <1>1, ClockInvariant, PTL DEF Spec, NoEarlyFire

(* The wait left to a delayed task grows in the resumed half of            *)
(* bos_check_timer only, and only if the delay has already expired.        *)
THEOREM WaitsOnlyShrink == Spec => WaitGrowsOnlyByResume
<1> DEFINE Shrinks == \A t \in Task : WaitGrows(t) => CheckResume /\ timeout[t] < time
<1>1. TaskInv /\ [Next]_vars => [Shrinks]_vars
  <2> SUFFICES ASSUME TaskInv, Next, NEW t \in Task, WaitGrows(t)
               PROVE  CheckResume /\ timeout[t] < time
    OBVIOUS
  <2>1. /\ TypeOK /\ state[t] = "Blocked" /\ state'[t] = "Blocked"
        /\ timeout[t] \in Word /\ timeout[t] \in Nat /\ time \in Nat
        /\ timeout'[t] - time' > timeout[t] - time
    BY DEF TaskInv, TypeOK, Word, WaitGrows, WaitLeft
  <2>2. ~(timeout'[t] = timeout[t] /\ time' \in {time, time + 1})
    BY <2>1
  (* The rebase is exact for a delay that has not expired. *)
  <2>3. ASSUME NEW u \in Task, NEW st, CheckTimers(u, st), st[t] = "Blocked", ~(timeout[t] < time)
        PROVE  FALSE
    <3>1. Base \in Word /\ Base \in Nat /\ Base <= timeout[t]
      BY <2>1, <2>3, BaseInWord DEF Word
    <3>2. timeout'[t] = timeout[t] - Base /\ time' = time - Base
      BY <2>1, <2>3, <3>1, SubInWord, CheckTimersEffect
    <3> QED BY <2>1, <3>1, <3>2
  <2>4. CASE BosTick
    BY <2>2, <2>4 DEF BosTick
  <2>5. CASE EntryIdle
    BY <2>2, <2>5 DEF EntryIdle, taskVars, clockVars
  <2>6. CASE CheckGiveWay
    BY <2>1, <2>2, <2>6 DEF CheckGiveWay, WakeTasks, clockVars
  <2>7. CASE CheckResume
    BY <2>1, <2>3, <2>7, TaskAssumption DEF CheckResume
  <2>8. ASSUME NEW u \in Task, CheckTasks(u) PROVE FALSE
    <3>1. state' = WakeTasks /\ CheckTimers(u, state')
      BY <2>8 DEF CheckTasks
    <3>2. ~(timeout[t] < time)
      BY <2>1, <3>1 DEF WakeTasks, Woken
    <3> QED BY <2>1, <2>3, <3>1, <3>2
  <2>9. ASSUME NEW u \in Task, CallbackReturn(u) \/ BosTaskYield(u) PROVE FALSE
    BY <2>2, <2>9 DEF CallbackReturn, BosTaskYield, taskVars, clockVars
  <2>10. ASSUME NEW u \in Task, YieldSelect(u) PROVE FALSE
    BY <2>2, <2>10 DEF YieldSelect, clockVars
  <2>11. ASSUME NEW u \in Task, NEW ms \in Delays, BosDelayMs(u, ms) PROVE FALSE
    <3>1. u # t
      BY <2>1, <2>11 DEF TaskInv, CurrentIsReady, BosDelayMs, Calling
    <3> QED BY <2>1, <2>2, <2>11, <3>1 DEF BosDelayMs, clockVars, TypeOK
  <2>12. ASSUME NEW u \in Task, BosTaskExit(u) PROVE FALSE
    BY <2>2, <2>12 DEF BosTaskExit, clockVars
  <2>13. CASE TimerCall
    BY <2>2, <2>13 DEF TimerCall, BosTimerStart, BosTimerStop, BosTimerReset, taskVars, clockVars
  <2> QED BY <2>4, <2>5, <2>6, <2>7, <2>8, <2>9, <2>10, <2>11, <2>12, <2>13
          DEF Next, Kernel, TaskCall
<1> QED BY <1>1, TaskInvariant, PTL DEF Spec, WaitGrowsOnlyByResume

-----------------------------------------------------------------------------
(* The clock and the lower bound of the timers.                            *)

(* The remainder of a sum that wraps at most once. *)
LEMMA WrapOnce ==
  ASSUME NEW x \in Nat, x < 2 * Wrap
  PROVE  x % Wrap = IF x < Wrap THEN x ELSE x - Wrap
<1>1. Wrap \in Nat \ {0}
  BY TimeAssumption
<1>2. CASE x < Wrap
  BY <1>1, <1>2
<1>3. CASE ~(x < Wrap)
  <2>1. x - Wrap \in 0 .. Wrap - 1 /\ x = 1 * Wrap + (x - Wrap)
    BY <1>1, <1>3
  <2> QED BY <1>1, <1>3, <2>1
<1> QED BY <1>2, <1>3

(* Moving b units from one summand to the other, where the first one wraps, *)
(* or adding one to a sum that has wrapped, gives the same remainder.      *)
LEMMA MovedSum ==
  ASSUME NEW o \in Word, NEW n \in Word, NEW b \in 0 .. n
  PROVE  (((o + b) % Wrap) + (n - b)) % Wrap = (o + n) % Wrap
<1> DEFINE r == (o + b) % Wrap
           y == r + (n - b)
           z == o + n
<1>1. Wrap \in Nat \ {0} /\ o \in Nat /\ n \in Nat /\ b \in Nat /\ o < Wrap /\ n < Wrap /\ b <= n
  BY TimeAssumption DEF Word
<1>2. r = IF o + b < Wrap THEN o + b ELSE o + b - Wrap
  BY <1>1, WrapOnce
<1>3. y = z \/ (y = z - Wrap /\ ~(z < Wrap))
  <2> HIDE DEF r
  <2> QED BY <1>1, <1>2
<1>4. y \in Nat /\ z \in Nat /\ z < 2 * Wrap /\ (y = z - Wrap => y < Wrap)
  <2> HIDE DEF r
  <2> QED BY <1>1, <1>2, <1>3
<1> HIDE DEF r, y, z
<1>5. ASSUME y = z - Wrap, ~(z < Wrap) PROVE y % Wrap = z % Wrap
  <2>1. z % Wrap = z - Wrap /\ y < 2 * Wrap /\ y < Wrap
    BY <1>1, <1>4, <1>5, WrapOnce
  <2>2. y % Wrap = y
    BY <1>4, <2>1, WrapOnce
  <2> QED BY <1>5, <2>1, <2>2
<1>6. y % Wrap = z % Wrap
  BY <1>3, <1>5
<1> QED BY <1>6 DEF r, y, z

LEMMA TickedSum ==
  ASSUME NEW x \in Nat, x + 1 < 2 * Wrap
  PROVE  (x + 1) % Wrap = ((x % Wrap) + 1) % Wrap
<1>1. Wrap \in Nat \ {0}
  BY TimeAssumption
<1>2. CASE x < Wrap
  BY <1>1, <1>2, WrapOnce
<1>3. CASE ~(x < Wrap)
  <2> DEFINE y == x - Wrap + 1
             z == x + 1
  <2>1. x % Wrap = x - Wrap
    BY <1>1, <1>3, WrapOnce
  <2>2. y \in Nat /\ z \in Nat /\ y < Wrap /\ y < 2 * Wrap /\ z < 2 * Wrap /\ ~(z < Wrap) /\ y = z - Wrap
    BY <1>1, <1>3
  <2> HIDE DEF y, z
  <2>3. y % Wrap = z % Wrap
    BY <2>2, WrapOnce
  <2> QED BY <2>1, <2>3 DEF y, z
<1> QED BY <1>2, <1>3

(* What the rebase takes from bos.time it adds to bos.time_offset: the sum *)
(* the callers of bos_time see is the same.                                *)
LEMMA RebaseKeepsBosTime ==
  ASSUME TypeOK, NEW t \in Task, NEW st, CheckTimers(t, st)
  PROVE  BosTime' = BosTime
<1>1. timeOffset \in Word /\ time \in Word /\ Base \in 0 .. time
  BY BaseInWord, TimeAssumption DEF TypeOK, Word
<1>2. (((timeOffset + Base) % Wrap) + (time - Base)) % Wrap = (timeOffset + time) % Wrap
  BY <1>1, MovedSum
<1>3. BosTime' = (timeOffset' + time') % Wrap
  BY DEF BosTime
<1>4. time' = time - Base /\ timeOffset' = (timeOffset + Base) % Wrap
  BY CheckTimersEffect
<1>5. BosTime' = BosTime
  BY <1>2, <1>3, <1>4 DEF BosTime
<1> QED BY <1>5

(* bos_time moves by single ticks only, through every rebase and through   *)
(* the wrap of its own sum.                                                *)
THEOREM ClockMovesByTicks == Spec => ClockIsSteady
<1> DEFINE Steady == BosTime' \in {BosTime, (BosTime + 1) % Wrap}
<1>1. TaskInv /\ [Next]_vars => [Steady]_vars
  <2> SUFFICES ASSUME TaskInv, Next PROVE Steady
    OBVIOUS
  <2>1. TypeOK
    BY DEF TaskInv
  <2>2. CASE BosTick
    <3>1. time' = time + 1 /\ timeOffset' = timeOffset
      BY <2>2 DEF BosTick
    <3>2. timeOffset \in Nat /\ time \in Nat /\ timeOffset < Wrap /\ time + 1 < Wrap
      BY <2>1, <2>2, TimeAssumption DEF TypeOK, Word, BosTick
    <3>3. (timeOffset + time + 1) % Wrap = (((timeOffset + time) % Wrap) + 1) % Wrap
      BY <3>2, TickedSum, TimeAssumption
    <3>4. BosTime' = (timeOffset' + time') % Wrap
      BY DEF BosTime
    <3>5. timeOffset' + time' = timeOffset + time + 1
      BY <3>1, <3>2
    <3>6. BosTime' = (timeOffset + time + 1) % Wrap
      BY <3>4, <3>5
    <3> QED BY <3>3, <3>6 DEF BosTime
  <2>3. ASSUME NEW t \in Task, CheckTasks(t) PROVE Steady
    BY <2>1, <2>3, RebaseKeepsBosTime DEF CheckTasks
  <2>4. CASE CheckResume
    BY <2>1, <2>4, RebaseKeepsBosTime, TaskAssumption DEF CheckResume
  <2>5. ASSUME UNCHANGED clockVars PROVE Steady
    BY <2>5 DEF clockVars, BosTime
  <2>6. ASSUME NEW t \in Task, CallbackReturn(t) \/ YieldSelect(t) PROVE UNCHANGED clockVars
    BY <2>6 DEF CallbackReturn, YieldSelect
  <2>7. EntryIdle \/ CheckGiveWay => UNCHANGED clockVars
    BY DEF EntryIdle, CheckGiveWay
  <2>8. TaskCall \/ TimerCall => UNCHANGED clockVars
    BY DEF TaskCall, BosTaskYield, BosDelayMs, BosTaskExit,
           TimerCall, BosTimerStart, BosTimerStop, BosTimerReset
  <2> QED BY <2>2, <2>3, <2>4, <2>5, <2>6, <2>7, <2>8 DEF Next, Kernel
<1> QED BY <1>1, TaskInvariant, PTL DEF Spec, ClockIsSteady

(* The rebase keeps the bound unless time is already past it or past a     *)
(* running timer's timeout.                                                *)
LEMMA RebaseKeepsMin ==
  ASSUME TypeOK, MinIsLowerBound, NEW t \in Task, NEW st, CheckTimers(t, st),
         running' = running, ~(Overdue /\ time' < time)
  PROVE  MinIsLowerBound'
<1> SUFFICES ASSUME NEW i \in Timer, running[i] PROVE timeOutMin' <= tmo'[i]
  BY DEF MinIsLowerBound
<1>1. /\ timeOutMin' = Sub(timeOutMin, Base) /\ tmo'[i] = Sub(tmo[i], Base)
      /\ time' = time - Base
  BY CheckTimersEffect DEF Rebased
<1>2. /\ timeOutMin \in Word /\ tmo[i] \in Word /\ timeOutMin <= tmo[i]
      /\ Base \in Word /\ Base <= time /\ time \in Nat
  BY BaseInWord, TimeAssumption DEF TypeOK, MinIsLowerBound
<1>3. Base <= timeOutMin /\ Base <= tmo[i]
  <2>1. CASE Base = 0
    BY <1>2, <2>1 DEF Word
  <2>2. CASE Base # 0
    <3>1. time' < time
      BY <1>1, <1>2, <2>2 DEF Word
    <3>2. ~(timeOutMin < time) /\ ~(tmo[i] < time)
      BY <3>1 DEF Overdue
    <3> QED BY <1>2, <3>2 DEF Word
  <2> QED BY <2>1, <2>2
<1>4. timeOutMin' = timeOutMin - Base /\ tmo'[i] = tmo[i] - Base
  BY <1>1, <1>2, <1>3, SubInWord
<1> QED BY <1>2, <1>4 DEF Word

LEMMA CallbackKeepsMin ==
  ASSUME TaskInv, MinIsLowerBound, NEW t \in Task, CallbackReturn(t), ~SumWraps
  PROVE  MinIsLowerBound'
<1>1. /\ TypeOK /\ TypeOK' /\ current = t /\ pc[t] = "callback" /\ cb \in Timer
      /\ timeOutMin \in Nat
  <2>1. TaskInv /\ TaskInv'
    BY TaskInvStep DEF Next, Kernel
  <2>2. TypeOK /\ TypeOK'
    BY <2>1 DEF TaskInv
  <2>3. cb \in Timer /\ timeOutMin \in Nat
    BY <2>2 DEF TypeOK, Word
  <2>4. current = t /\ pc[t] = "callback"
    BY DEF CallbackReturn
  <2> QED BY <2>2, <2>3, <2>4
<1>2. CASE timeOutMin' = MinTimeout(running', tmo')
  <2> SUFFICES ASSUME NEW i \in Timer, running'[i] PROVE timeOutMin' <= tmo'[i]
    BY DEF MinIsLowerBound
  <2> DEFINE S == {Wrap - 1} \cup {tmo'[j] : j \in {k \in Timer : running'[k]}}
  <2>1. S \in SUBSET Nat /\ S # {} /\ tmo'[i] \in S
    BY <1>1, TimeAssumption DEF TypeOK, Word
  <2>2. timeOutMin' = Lowest(S)
    BY <1>2 DEF MinTimeout
  <2> HIDE DEF S
  <2> QED BY <2>1, <2>2, LowestIsLeast
<1>3. CASE UNCHANGED timeOutMin
  <2> SUFFICES ASSUME NEW i \in Timer, running'[i] PROVE timeOutMin <= tmo'[i]
    BY <1>3 DEF MinIsLowerBound
  <2>1. running[i] /\ (i = cb => i \notin OneShot)
    BY <1>1 DEF CallbackReturn, TypeOK
  <2>2. timeOutMin <= tmo[i] /\ tmo[i] \in Nat
    BY <1>1, <2>1 DEF MinIsLowerBound, TypeOK, Word
  <2>3. CASE i # cb
    BY <1>1, <2>2, <2>3 DEF CallbackReturn, TypeOK
  <2>4. CASE i = cb
    <3>1. \A q \in Periods \cup {0} : q \in Nat
      BY TimeAssumption
    <3>2. period[i] \in Nat
      BY <1>1, <3>1 DEF TypeOK
    <3>3. tmo[i] + period[i] < Wrap
      BY <2>1, <2>2, <2>4, <3>2, TimeAssumption DEF SumWraps
    <3>4. (tmo[i] + period[i]) % Wrap = tmo[i] + period[i]
      BY <2>2, <3>2, <3>3, AddExact, TimeAssumption
    <3>5. tmo'[i] = tmo[i] + period[i]
      BY <1>1, <2>1, <2>4, <3>4 DEF CallbackReturn, TypeOK
    <3> QED BY <1>1, <2>2, <3>2, <3>5
  <2> QED BY <2>3, <2>4
<1> QED BY <1>2, <1>3 DEF CallbackReturn

LEMMA TimerCallKeepsMin ==
  ASSUME TypeOK, TypeOK', MinIsLowerBound, TimerCall, \A i \in Timer : ~BosTimerStop(i)
  PROVE  MinIsLowerBound'
<1>1. timeOutMin \in Nat /\ \A i \in Timer : tmo[i] \in Nat /\ tmo'[i] \in Nat
  BY DEF TypeOK, Word
<1>2. PICK i \in Timer, p \in Periods : BosTimerStart(i, p) \/ BosTimerReset(i, p)
  BY DEF TimerCall
<1>3. \A j \in Timer \ {i} : running'[j] = running[j] /\ tmo'[j] = tmo[j]
  BY <1>2 DEF BosTimerStart, BosTimerReset, TypeOK
<1>4. timeOutMin' <= timeOutMin /\ timeOutMin' <= tmo'[i] /\ timeOutMin' \in Nat
  <2>1. CASE BosTimerStart(i, p)
    <3>1. timeOutMin' = IF tmo'[i] < timeOutMin THEN tmo'[i] ELSE timeOutMin
      BY <2>1 DEF BosTimerStart
    <3> QED BY <1>1, <3>1
  <2>2. CASE BosTimerReset(i, p)
    <3>1. (timeOutMin' = IF timeOutMin > tmo[i] THEN tmo[i] ELSE timeOutMin) /\ tmo' = tmo
      BY <2>2 DEF BosTimerReset
    <3> QED BY <1>1, <3>1
  <2> QED BY <1>2, <2>1, <2>2
<1> QED BY <1>1, <1>3, <1>4 DEF MinIsLowerBound

(* time_out_min stays below the timeout of every running timer, except     *)
(* through bos_timer_stop, a rebase that comes too late and a callback     *)
(* whose timer's timeout wraps.                                            *)
THEOREM MinBoundLostInThreeWays == Spec => MinBoundLostOnlyBy
<1> DEFINE Named == \/ \E i \in Timer : BosTimerStop(i)
                    \/ Overdue /\ time' < time
                    \/ SumWraps /\ \E t \in Task : CallbackReturn(t)
<1>1. TaskInv /\ [Next]_vars => [MinIsLowerBound /\ ~MinIsLowerBound' => Named]_vars
  <2> SUFFICES ASSUME TaskInv, Next, MinIsLowerBound, ~Named PROVE MinIsLowerBound'
    OBVIOUS
  <2>1. TaskInv /\ TypeOK /\ TypeOK'
    BY TaskInvStep DEF TaskInv
  <2>2. ASSUME UNCHANGED <<running, tmo, timeOutMin>> PROVE MinIsLowerBound'
    BY <2>2 DEF MinIsLowerBound
  <2>3. CASE BosTick \/ EntryIdle \/ CheckGiveWay
    BY <2>2, <2>3 DEF BosTick, EntryIdle, CheckGiveWay, timerVars
  <2>4. ASSUME NEW t \in Task, CheckTasks(t) PROVE MinIsLowerBound'
    BY <2>1, <2>4, RebaseKeepsMin DEF CheckTasks
  <2>5. CASE CheckResume
    BY <2>1, <2>5, RebaseKeepsMin, TaskAssumption DEF CheckResume
  <2>6. ASSUME NEW t \in Task, CallbackReturn(t) PROVE MinIsLowerBound'
    BY <2>6, CallbackKeepsMin
  <2>7. ASSUME NEW t \in Task, YieldSelect(t) PROVE MinIsLowerBound'
    BY <2>2, <2>7 DEF YieldSelect, timerVars
  <2>8. CASE TaskCall
    BY <2>2, <2>8 DEF TaskCall, BosTaskYield, BosDelayMs, BosTaskExit, timerVars
  <2>9. CASE TimerCall
    BY <2>1, <2>9, TimerCallKeepsMin
  <2> QED BY <2>3, <2>4, <2>5, <2>6, <2>7, <2>8, <2>9 DEF Next, Kernel
<1> QED BY <1>1, TaskInvariant, PTL DEF Spec, MinBoundLostOnlyBy
=============================================================================
