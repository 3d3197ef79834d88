--------------------------- MODULE OsTimerProofs ----------------------------
(***************************************************************************)
(* The timers are safe for every size of the table, every word width and   *)
(* every set of periods: one thread at a time is at work, the bound on the *)
(* timeouts holds, no callback is early, and callbacks keep what Timers    *)
(* promises.                                                               *)
(*                                                                         *)
(* The argument: the mutex a thread has read is the one the others take,   *)
(* and the thread that is inside holds it, so nothing that a pass has read *)
(* changes under it; and a timer's timeout and epoch are always the clock  *)
(* and the ticks it has left.                                              *)
(***************************************************************************)
EXTENDS OsTimer, TLAPS

Places == {"off", "wait", "enter", "look", "scan", "call", "unlock", "delay"}

(* Who is inside and what it has in hand.                                  *)
InsideInv ==
  /\ OnePassAtATime
  /\ mutex_timer = 1 => /\ owner[2] = None /\ pc[2] = "off" /\ ~torn
                        /\ \A s \in Slot : state[s] = "unused"
  /\ \A t \in TimerThread : pc[t] = "call" =>
       i[t] \in Slot /\ state[i[t]] = "run" /\ ~torn
  /\ ~torn => \A t \in TimerThread : pc[t] = "enter" => mine[t] = mutex_timer

(* The bound, from the end of one pass to the middle of the next.          *)
BoundInv ==
  ~torn /\ (\A t \in TimerThread : pc[t] \notin {"scan", "call"}) =>
    \A s \in Running : timeout_min <= timeout[s]

(* A timeout is where the clock will be when its ticks have passed.        *)
DueInv == \A s \in Running : timeout[s] + Wrap * ahead[s] = clock + owed[s]

TimerInv == TypeOK /\ InsideInv /\ BoundInv /\ DueInv

-----------------------------------------------------------------------------
(* A sum of two words overflows once at most.                              *)
LEMMA SumOfWords ==
  ASSUME NEW x \in Word, NEW y \in Word
  PROVE  /\ (x + y) % Wrap \in Word
         /\ (x + y) \div Wrap \in Int
         /\ ((x + y) % Wrap) + Wrap * ((x + y) \div Wrap) = x + y
BY TimerAssumption DEF Word

LEMMA Epochs ==
  ASSUME NEW a \in Int
  PROVE  /\ Wrap * a \in Int
         /\ Wrap * (a - 1) = Wrap * a - Wrap
         /\ \A b \in Int : Wrap * (a + b) = Wrap * a + Wrap * b
         /\ a <= 0 => Wrap * a <= 0
BY TimerAssumption

LEMMA ClockTicks ==
  ASSUME NEW c \in Word
  PROVE  /\ (c + 1) % Wrap \in Word
         /\ (c + 1) % Wrap = IF c = Wrap - 1 THEN 0 ELSE c + 1
<1>1. CASE c = Wrap - 1
  BY <1>1, TimerAssumption DEF Word
<1>2. CASE c # Wrap - 1
  BY <1>2, TimerAssumption DEF Word
<1> QED BY <1>1, <1>2

LEMMA TimerInitInv == Init => TimerInv
<1> SUFFICES ASSUME Init PROVE TimerInv
  OBVIOUS
<1>1. TypeOK
  <2>1. 0 \in Word /\ 0 \in 0 .. Count /\ 1 \in TimerThread
    BY TimerAssumption DEF Word, TimerThread
  <2>2. pc \in [TimerThread -> Places]
    BY DEF Init, Places
  <2>3. /\ state \in [Slot -> {"unused", "idle", "run"}]
        /\ type \in [Slot -> {"once", "periodic"}]
    BY DEF Init
  <2>4. /\ timeout \in [Slot -> Word] /\ ticks \in [Slot -> Word]
        /\ timeout_min \in Word /\ clock \in Word
        /\ owed \in [Slot -> Int] /\ ahead \in [Slot -> Int]
    BY <2>1 DEF Init
  <2>5. /\ mutex_timer \in TimerThread /\ torn \in BOOLEAN
        /\ owner \in [TimerThread -> TimerThread \cup {None}]
        /\ i \in [TimerThread -> 0 .. Count]
        /\ mine \in [TimerThread -> TimerThread]
    BY <2>1 DEF Init
  <2> QED BY <2>2, <2>3, <2>4, <2>5 DEF TypeOK, Places
<1>2. InsideInv
  BY TimerAssumption DEF Init, InsideInv, OnePassAtATime, Inside, TimerThread
<1>3. BoundInv /\ DueInv
  BY DEF Init, BoundInv, DueInv, Running
<1> QED BY <1>1, <1>2, <1>3 DEF TimerInv

LEMMA InitializeAgainInv == ASSUME TimerInv, InitializeAgain PROVE TimerInv'
<1>1. mutex_timer = 1 /\ mutex_timer' = 2 /\ owner[2] = None /\ pc[2] = "off"
  BY DEF TimerInv, TypeOK, InsideInv, InitializeAgain, Booted, TimerThread
<1>2. state' = [s \in Slot |-> "unused"] /\ pc' = [pc EXCEPT ![2] = "wait"]
      /\ torn' = Reading /\ UNCHANGED <<type, timeout, ticks, timeout_min, owner, i, mine, owed, ahead, clock>>
  BY <1>1 DEF InitializeAgain, timeVars
<1>3. TypeOK'
  BY <1>1, <1>2 DEF TimerInv, TypeOK, TimerThread, Reading
<1>4. pc[1] # "call" /\ pc'[1] = pc[1] /\ pc'[2] = "wait"
  BY <1>1, <1>2 DEF TimerInv, TypeOK, InsideInv, TimerThread
<1>5. OnePassAtATime'
  BY <1>2, <1>4 DEF OnePassAtATime, Inside, TimerThread, Reading
<1>6. InsideInv'
  BY <1>1, <1>2, <1>4, <1>5 DEF InsideInv, TimerThread, Reading
<1>7. BoundInv' /\ DueInv'
  BY <1>2 DEF BoundInv, DueInv, Running
<1> QED BY <1>3, <1>6, <1>7 DEF TimerInv

(* A timer function runs while no thread is inside.                        *)
LEMMA NobodyInside ==
  ASSUME TimerInv, ~torn, Free
  PROVE  \A t \in TimerThread : ~Inside(t) /\ pc[t] \notin {"look", "scan", "call", "unlock"}
BY TimerAssumption DEF TimerInv, InsideInv, OnePassAtATime, Inside, Free

(* What a timer function has to show. *)
LEMMA CallInv ==
  ASSUME TimerInv, MayCall, UNCHANGED threadVars, TypeOK', BoundInv', DueInv'
  PROVE  TimerInv'
<1>1. mutex_timer = 2 /\ UNCHANGED <<mutex_timer, owner, pc, i, mine, torn>> /\ ~torn /\ Free
  BY DEF MayCall, Booted, threadVars
<1>2. InsideInv'
  BY <1>1, NobodyInside DEF TimerInv, InsideInv, OnePassAtATime, Inside
<1> QED BY <1>2 DEF TimerInv

LEMMA NewInv ==
  ASSUME TimerInv, NEW s \in Slot, NEW k \in {"once", "periodic"}, osTimerNew(s, k)
  PROVE  TimerInv'
<1>1. TypeOK'
  BY DEF osTimerNew, TimerInv, TypeOK, threadVars, timeVars
<1>2. Running' = Running
  BY DEF osTimerNew, TimerInv, TypeOK, Running
<1>3. BoundInv' /\ DueInv'
  BY <1>2 DEF osTimerNew, TimerInv, BoundInv, DueInv, threadVars, timeVars
<1> QED BY <1>1, <1>3, CallInv DEF osTimerNew

LEMMA RetireInv ==
  ASSUME TimerInv, NEW s \in Slot, NEW st \in {"idle", "unused"}, Retire(s, st)
  PROVE  TimerInv'
<1>1. TypeOK'
  BY DEF Retire, TimerInv, TypeOK, threadVars, timeVars
<1>2. Running' \subseteq Running
  BY DEF Retire, TimerInv, TypeOK, Running
<1>3. BoundInv' /\ DueInv'
  BY <1>2 DEF Retire, TimerInv, BoundInv, DueInv, threadVars, timeVars
<1> QED BY <1>1, <1>3, CallInv DEF Retire

LEMMA StartInv ==
  ASSUME TimerInv, NEW s \in Slot, NEW n \in Ticks, osTimerStart(s, n)
  PROVE  TimerInv'
<1>1. /\ n \in Word /\ clock \in Word /\ (n + clock) % Wrap \in Word
      /\ (n + clock) \div Wrap \in Int /\ n \in Int
      /\ ((n + clock) % Wrap) + Wrap * ((n + clock) \div Wrap) = n + clock
  BY SumOfWords, TimerAssumption DEF TimerInv, TypeOK, Word
<1> DEFINE m == (n + clock) % Wrap
           e == (n + clock) \div Wrap
<1>2. /\ timeout' = [timeout EXCEPT ![s] = m] /\ ticks' = [ticks EXCEPT ![s] = n]
      /\ state' = [state EXCEPT ![s] = "run"] /\ owed' = [owed EXCEPT ![s] = n]
      /\ ahead' = [ahead EXCEPT ![s] = e] /\ UNCHANGED <<type, threadVars, clock>>
      /\ timeout_min' = IF timeout_min > timeout'[s] THEN timeout'[s] ELSE timeout_min
  BY DEF osTimerStart
<1>3. m \in Word /\ e \in Int /\ m + Wrap * e = n + clock
  BY <1>1
<1> HIDE DEF m, e
<1>4. timeout' \in [Slot -> Word] /\ timeout_min' \in Word /\ timeout'[s] = m
      /\ timeout_min' <= m /\ timeout_min' <= timeout_min
  BY <1>2, <1>3, TimerAssumption DEF TimerInv, TypeOK, Word
<1>5. TypeOK'
  BY <1>1, <1>2, <1>3, <1>4 DEF TimerInv, TypeOK, threadVars
<1>6. BoundInv'
  <2>1. ASSUME NEW r \in Running' PROVE timeout_min' <= timeout'[r]
    <3>1. CASE r = s
      BY <1>4, <3>1
    <3>2. CASE r # s
      <4>1. r \in Running /\ timeout'[r] = timeout[r]
        BY <1>2, <3>2 DEF Running, TimerInv, TypeOK
      <4>2. timeout_min <= timeout[r]
        BY <4>1, NobodyInside DEF TimerInv, BoundInv, osTimerStart, MayCall
      <4>3. timeout_min \in Int /\ timeout[r] \in Int /\ timeout_min' \in Int
        BY <1>4, <4>1, TimerAssumption DEF TimerInv, TypeOK, Word, Running
      <4> QED BY <1>4, <4>1, <4>2, <4>3
    <3> QED BY <3>1, <3>2
  <2> QED BY <2>1 DEF BoundInv
<1>7. DueInv'
  <2>1. ASSUME NEW r \in Running'
        PROVE  timeout'[r] + Wrap * ahead'[r] = clock' + owed'[r]
    <3>1. CASE r = s
      <4>1. timeout'[r] = m /\ ahead'[r] = e /\ owed'[r] = n /\ clock' = clock
        BY <1>2, <3>1 DEF TimerInv, TypeOK
      <4> QED BY <1>1, <1>3, <4>1 DEF Word
    <3>2. CASE r # s
      BY <1>2, <3>2 DEF Running, TimerInv, TypeOK, DueInv
    <3> QED BY <3>1, <3>2
  <2> QED BY <2>1 DEF DueInv
<1> QED BY <1>2, <1>5, <1>6, <1>7, CallInv DEF osTimerStart

(* A thread that is inside is there alone, and holds the mutex. *)
LEMMA InsideAlone ==
  ASSUME TimerInv, ~torn, NEW t \in TimerThread, Inside(t)
  PROVE  /\ owner[mutex_timer] = t
         /\ \A u \in TimerThread : u # t => ~Inside(u)
         /\ mutex_timer \in TimerThread
BY DEF TimerInv, InsideInv, OnePassAtATime, TypeOK

(* A step of a thread that leaves the table alone. *)
LEMMA TableStays ==
  ASSUME TimerInv, UNCHANGED <<tableVars, timeVars, clock>>
  PROVE  /\ Running' = Running /\ DueInv'
         /\ (~torn' /\ (\A t \in TimerThread : pc'[t] \notin {"scan", "call"})
              => ~torn /\ (\A t \in TimerThread : pc[t] \notin {"scan", "call"})) => BoundInv'
BY DEF TimerInv, tableVars, timeVars, Running, DueInv, BoundInv

LEMMA ReadInv == ASSUME TimerInv, NEW t \in TimerThread, Read(t) PROVE TimerInv'
<1>1. /\ pc[t] = "wait" /\ mine' = [mine EXCEPT ![t] = mutex_timer]
      /\ pc' = [pc EXCEPT ![t] = "enter"]
      /\ UNCHANGED <<tableVars, mutex_timer, owner, i, torn, timeVars, clock>>
  BY DEF Read, Goto
<1>2. TypeOK'
  BY <1>1 DEF TimerInv, TypeOK, tableVars, timeVars
<1>3. \A u \in TimerThread : /\ pc'[u] = IF u = t THEN "enter" ELSE pc[u]
                             /\ mine'[u] = IF u = t THEN mutex_timer ELSE mine[u]
  BY <1>1 DEF TimerInv, TypeOK
<1>4. InsideInv'
  <2>1. OnePassAtATime'
    BY <1>1, <1>3 DEF TimerInv, InsideInv, OnePassAtATime, Inside
  <2>2. mutex_timer = 1 => t # 2
    BY <1>1 DEF TimerInv, InsideInv, TimerThread
  <2> QED BY <1>1, <1>3, <2>1, <2>2 DEF InsideInv, TimerInv, tableVars, TimerThread
<1>5. DueInv' /\ BoundInv'
  BY <1>1, <1>3, TableStays
<1> QED BY <1>2, <1>4, <1>5 DEF TimerInv

(* The mutex the thread has read is free: nobody is inside, unless it is   *)
(* not the one the others take.                                            *)
LEMMA LockInv == ASSUME TimerInv, NEW t \in TimerThread, Lock(t) PROVE TimerInv'
<1>1. /\ pc[t] = "enter" /\ owner[mine[t]] = None
      /\ owner' = [owner EXCEPT ![mine[t]] = t] /\ pc' = [pc EXCEPT ![t] = "look"]
      /\ UNCHANGED <<tableVars, mutex_timer, i, mine, torn, timeVars, clock>>
  BY DEF Lock, Goto
<1>2. TypeOK'
  BY <1>1 DEF TimerInv, TypeOK, tableVars, timeVars
<1>3. /\ mutex_timer \in TimerThread /\ mine[t] \in TimerThread
      /\ \A u \in TimerThread : pc'[u] = IF u = t THEN "look" ELSE pc[u]
      /\ owner'[mine[t]] = t
      /\ \A m \in TimerThread : m # mine[t] => owner'[m] = owner[m]
  BY <1>1 DEF TimerInv, TypeOK
<1>4. ~torn => mine[t] = mutex_timer /\ Free
  BY <1>1 DEF TimerInv, InsideInv, Free
<1>5. InsideInv'
  <2>1. OnePassAtATime'
    BY <1>1, <1>3, <1>4, NobodyInside DEF OnePassAtATime, Inside
  <2>2. mutex_timer = 1 => t # 2 /\ owner'[2] = None
    BY <1>1, <1>3, <1>4 DEF TimerInv, InsideInv, TimerThread
  <2> QED BY <1>1, <1>3, <2>1, <2>2 DEF InsideInv, TimerInv, tableVars, TimerThread
<1>6. DueInv' /\ BoundInv'
  BY <1>1, <1>3, TableStays
<1> QED BY <1>2, <1>5, <1>6 DEF TimerInv

(* A thread that stays inside. *)
LEMMA StaysInside ==
  ASSUME TimerInv, ~torn, NEW t \in TimerThread, Inside(t),
         NEW place \in {"look", "scan", "call", "unlock"}, Goto(t, place),
         UNCHANGED <<mutex_timer, owner, mine, torn>>, TypeOK',
         mutex_timer = 1 => UNCHANGED state,
         place = "call" => i'[t] \in Slot /\ state'[i'[t]] = "run"
  PROVE  /\ InsideInv'
         /\ \A u \in TimerThread : u # t => pc'[u] = pc[u] /\ pc[u] \notin {"scan", "call"}
         /\ pc'[t] = place
<1>1. \A u \in TimerThread : pc'[u] = IF u = t THEN place ELSE pc[u]
  BY DEF Goto, TimerInv, TypeOK
<1>2. \A u \in TimerThread : u # t => ~Inside(u) /\ pc[u] \notin {"scan", "call"}
  BY InsideAlone DEF Inside
<1>3. OnePassAtATime'
  BY <1>1, <1>2, InsideAlone DEF OnePassAtATime, Inside
<1>4. mutex_timer = 1 => t # 2
  BY DEF TimerInv, InsideInv, Inside, TimerThread
<1> QED BY <1>1, <1>2, <1>3, <1>4 DEF InsideInv, TimerInv, TimerThread

LEMMA LookInv == ASSUME TimerInv, NEW t \in TimerThread, Look(t) PROVE TimerInv'
<1> DEFINE place == IF timeout_min <= clock THEN "scan" ELSE "unlock"
<1>1. /\ ~torn /\ pc[t] = "look" /\ Inside(t) /\ Goto(t, place)
      /\ place \in {"look", "scan", "call", "unlock"} /\ place # "call"
      /\ i' = [i EXCEPT ![t] = 0]
      /\ UNCHANGED <<tableVars, mutex_timer, owner, mine, torn, timeVars, clock>>
  BY DEF Look, Inside
<1> HIDE DEF place
<1>2. TypeOK'
  <2>1. i' \in [TimerThread -> 0 .. Count]
    BY <1>1, TimerAssumption DEF TimerInv, TypeOK
  <2> QED BY <1>1, <2>1 DEF TimerInv, TypeOK, tableVars, timeVars, Goto
<1>3. InsideInv' /\ \A u \in TimerThread : u # t => pc[u] \notin {"scan", "call"}
  BY <1>1, <1>2, StaysInside DEF tableVars
<1>4. DueInv' /\ BoundInv'
  BY <1>1, <1>3, TableStays
<1> QED BY <1>2, <1>3, <1>4 DEF TimerInv

LEMMA ExamineInv == ASSUME TimerInv, NEW t \in TimerThread, Examine(t) PROVE TimerInv'
<1>1. /\ ~torn /\ pc[t] = "scan" /\ Inside(t) /\ i[t] \in Slot
      /\ UNCHANGED <<tableVars, mutex_timer, owner, mine, torn, timeVars, clock>>
  BY DEF Examine, Inside
<1>2. PICK place \in {"scan", "call"} :
        /\ Goto(t, place)
        /\ place = "call" => i' = i /\ state[i[t]] = "run"
        /\ place = "scan" => Step(t)
  <2>1. CASE Due(i[t])
    <3>1. Goto(t, "call") /\ i' = i /\ state[i[t]] = "run"
      BY <2>1 DEF Examine, Due
    <3> QED BY <3>1
  <2>2. CASE ~Due(i[t])
    <3>1. Goto(t, "scan") /\ Step(t)
      BY <1>1, <2>2 DEF Examine, Goto, TimerInv, TypeOK
    <3> QED BY <3>1
  <2> QED BY <2>1, <2>2
<1>3. TypeOK'
  <2>1. i' \in [TimerThread -> 0 .. Count]
    <3>1. CASE place = "call"
      BY <1>2, <3>1 DEF TimerInv, TypeOK
    <3>2. CASE place = "scan"
      <4>1. i[t] + 1 \in 0 .. Count
        BY <1>1, TimerAssumption DEF Slot
      <4>2. i' = [i EXCEPT ![t] = i[t] + 1] /\ i \in [TimerThread -> 0 .. Count]
        BY <1>2, <3>2 DEF Step, TimerInv, TypeOK
      <4> QED BY <4>1, <4>2
    <3> QED BY <3>1, <3>2
  <2> QED BY <1>1, <1>2, <2>1 DEF TimerInv, TypeOK, tableVars, timeVars, Goto
<1>4. InsideInv' /\ pc'[t] = place
  BY <1>1, <1>2, <1>3, StaysInside DEF tableVars
<1>5. DueInv' /\ BoundInv'
  BY <1>1, <1>4, TableStays
<1> QED BY <1>3, <1>4, <1>5 DEF TimerInv

LEMMA ReturnInv == ASSUME TimerInv, NEW t \in TimerThread, Return(t) PROVE TimerInv'
<1>1. PICK s \in Slot : s = i[t]
  BY DEF Return, TimerInv, InsideInv
<1>2. /\ ~torn /\ pc[t] = "call" /\ Inside(t) /\ Goto(t, "scan") /\ Step(t)
      /\ state[s] = "run" /\ s \in Running
      /\ UNCHANGED <<type, ticks, timeout_min, mutex_timer, owner, mine, torn, clock>>
  BY <1>1 DEF Return, Inside, TimerInv, InsideInv, Running
<1>3. i' \in [TimerThread -> 0 .. Count]
  BY <1>1, <1>2, TimerAssumption DEF Step, TimerInv, TypeOK, Slot
<1>4. TypeOK' /\ DueInv'
  <2>1. CASE type[s] = "periodic"
    <3>1. /\ timeout[s] \in Word /\ ticks[s] \in Word /\ owed[s] \in Int /\ ahead[s] \in Int
          /\ clock \in Int
      BY TimerAssumption DEF TimerInv, TypeOK, Word
    <3> DEFINE m == (timeout[s] + ticks[s]) % Wrap
               e == (timeout[s] + ticks[s]) \div Wrap
               n == owed[s] + ticks[s]
               a == ahead[s] + e
    <3>2. m \in Word /\ e \in Int /\ m + Wrap * e = timeout[s] + ticks[s]
      BY <3>1, SumOfWords
    <3>3. /\ timeout' = [timeout EXCEPT ![s] = m] /\ owed' = [owed EXCEPT ![s] = n]
          /\ ahead' = [ahead EXCEPT ![s] = a] /\ state' = state
      BY <1>1, <2>1 DEF Return
    <3>4. n \in Int /\ a \in Int
      BY <3>1, <3>2, TimerAssumption DEF Word
    <3>5. m + Wrap * a = clock + n
      <4> HIDE DEF m, e
      <4>1. timeout[s] + Wrap * ahead[s] = clock + owed[s]
        BY <1>2 DEF TimerInv, DueInv
      <4>2. Wrap * a = Wrap * ahead[s] + Wrap * e /\ Wrap * ahead[s] \in Int /\ Wrap * e \in Int
        BY <3>1, <3>2, Epochs
      <4>3. timeout[s] \in Int /\ ticks[s] \in Int /\ m \in Int
        BY <3>1, <3>2, TimerAssumption DEF Word
      <4> HIDE DEF a
      <4> QED BY <3>1, <3>2, <4>1, <4>2, <4>3 DEF n
    <3> HIDE DEF m, e, n, a
    <3>6. TypeOK'
      BY <1>2, <1>3, <3>2, <3>3, <3>4 DEF TimerInv, TypeOK, Goto
    <3>7. ASSUME NEW r \in Running'
          PROVE  timeout'[r] + Wrap * ahead'[r] = clock' + owed'[r]
      <4>1. r \in Running /\ r \in Slot
        BY <3>3, <3>7 DEF Running
      <4>2. CASE r = s
        <5>1. timeout'[r] = m /\ ahead'[r] = a /\ owed'[r] = n
          BY <3>3, <4>2 DEF TimerInv, TypeOK
        <5> QED BY <1>2, <3>5, <5>1
      <4>3. CASE r # s
        <5>1. timeout'[r] = timeout[r] /\ ahead'[r] = ahead[r] /\ owed'[r] = owed[r]
          BY <3>3, <4>1, <4>3 DEF TimerInv, TypeOK
        <5> QED BY <1>2, <4>1, <5>1 DEF TimerInv, DueInv
      <4> QED BY <4>2, <4>3
    <3> QED BY <3>6, <3>7 DEF DueInv
  <2>2. CASE type[s] = "once"
    <3>1. state' = [state EXCEPT ![s] = "idle"] /\ UNCHANGED <<timeout, timeVars>>
      BY <1>1, <2>2 DEF Return
    <3>2. TypeOK'
      BY <1>2, <1>3, <3>1 DEF TimerInv, TypeOK, Goto, timeVars
    <3>3. Running' \subseteq Running
      BY <3>1 DEF TimerInv, TypeOK, Running
    <3> QED BY <1>2, <3>1, <3>2, <3>3 DEF TimerInv, DueInv, timeVars
  <2> QED BY <2>1, <2>2 DEF TimerInv, TypeOK
<1>5. mutex_timer # 1
  BY <1>2 DEF TimerInv, InsideInv
<1>6. InsideInv' /\ pc'[t] = "scan"
  BY <1>2, <1>4, <1>5, StaysInside
<1>7. BoundInv'
  BY <1>6 DEF BoundInv
<1> QED BY <1>4, <1>6, <1>7 DEF TimerInv

LEMMA UpdateInv == ASSUME TimerInv, NEW t \in TimerThread, Update(t) PROVE TimerInv'
<1>1. /\ ~torn /\ pc[t] = "scan" /\ Inside(t) /\ Goto(t, "unlock")
      /\ timeout_min' \in Word
      /\ LeastOfTimeouts(timeout_min')
      /\ UNCHANGED <<state, type, timeout, ticks, mutex_timer, owner, i, mine, torn, timeVars, clock>>
  BY DEF Update, Inside
<1>2. TypeOK'
  BY <1>1 DEF TimerInv, TypeOK, timeVars, Goto
<1>3. InsideInv'
  BY <1>1, <1>2, StaysInside
<1>4. BoundInv' /\ DueInv'
  BY <1>1 DEF TimerInv, BoundInv, DueInv, Running, LeastOfTimeouts, timeVars
<1> QED BY <1>2, <1>3, <1>4 DEF TimerInv

LEMMA UnlockInv == ASSUME TimerInv, NEW t \in TimerThread, Unlock(t) PROVE TimerInv'
<1>1. /\ ~torn /\ pc[t] = "unlock" /\ Inside(t)
      /\ owner' = [owner EXCEPT ![mutex_timer] = None] /\ pc' = [pc EXCEPT ![t] = "delay"]
      /\ UNCHANGED <<tableVars, mutex_timer, i, mine, torn, timeVars, clock>>
  BY DEF Unlock, Goto, Inside
<1>2. TypeOK'
  BY <1>1 DEF TimerInv, TypeOK, tableVars, timeVars
<1>3. \A u \in TimerThread : pc'[u] = IF u = t THEN "delay" ELSE pc[u]
  BY <1>1 DEF TimerInv, TypeOK
<1>4. InsideInv'
  <2>1. \A u \in TimerThread : u # t => ~Inside(u)
    BY <1>1, InsideAlone
  <2>2. OnePassAtATime'
    BY <1>3, <2>1 DEF OnePassAtATime, Inside
  <2>3. mutex_timer = 1 => t # 2 /\ owner'[2] = None
    BY <1>1 DEF TimerInv, InsideInv, TypeOK, TimerThread
  <2> QED BY <1>1, <1>3, <2>2, <2>3 DEF InsideInv, TimerInv, tableVars, TimerThread
<1>5. DueInv' /\ BoundInv'
  BY <1>1, <1>3, TableStays
<1> QED BY <1>2, <1>4, <1>5 DEF TimerInv

LEMMA TickInv == ASSUME TimerInv, Tick PROVE TimerInv'
<1>1. /\ clock' = (clock + 1) % Wrap
      /\ owed' = [s \in Slot |-> IF s \in Running THEN owed[s] - 1 ELSE owed[s]]
      /\ ahead' = [s \in Slot |-> IF s \in Running /\ clock' = 0 THEN ahead[s] - 1 ELSE ahead[s]]
      /\ pc' = [t \in TimerThread |-> IF pc[t] = "delay" THEN "wait" ELSE pc[t]]
      /\ UNCHANGED <<tableVars, mutex_timer, owner, i, mine, torn>>
  BY DEF Tick
<1>2. clock \in Word /\ clock' \in Word
      /\ clock' = IF clock = Wrap - 1 THEN 0 ELSE clock + 1
  BY <1>1, ClockTicks DEF TimerInv, TypeOK
<1>3. TypeOK'
  <2>1. owed' \in [Slot -> Int] /\ ahead' \in [Slot -> Int]
    BY <1>1 DEF TimerInv, TypeOK
  <2>2. pc' \in [TimerThread -> {"off", "wait", "enter", "look", "scan", "call", "unlock", "delay"}]
    BY <1>1 DEF TimerInv, TypeOK
  <2> QED BY <1>1, <1>2, <2>1, <2>2 DEF TimerInv, TypeOK, tableVars
<1>4. InsideInv'
  BY <1>1 DEF TimerInv, InsideInv, OnePassAtATime, Inside, tableVars, TimerThread
<1>5. BoundInv'
  BY <1>1 DEF TimerInv, BoundInv, Running, tableVars
<1>6. DueInv'
  <2>1. ASSUME NEW r \in Running'
        PROVE  timeout'[r] + Wrap * ahead'[r] = clock' + owed'[r]
    <3>1. /\ r \in Running /\ r \in Slot /\ timeout'[r] = timeout[r]
          /\ timeout[r] + Wrap * ahead[r] = clock + owed[r]
      BY <1>1 DEF Running, tableVars, TimerInv, DueInv
    <3>2. /\ owed'[r] = owed[r] - 1
          /\ ahead'[r] = IF clock' = 0 THEN ahead[r] - 1 ELSE ahead[r]
      BY <1>1, <3>1
    <3>3. timeout[r] \in Int /\ ahead[r] \in Int /\ owed[r] \in Int /\ clock \in Int /\ Wrap \in Int
      BY <3>1, TimerAssumption DEF TimerInv, TypeOK, Word
    <3>4. Wrap * ahead[r] \in Int /\ Wrap * (ahead[r] - 1) = Wrap * ahead[r] - Wrap
      BY <3>3, Epochs
    <3> DEFINE old == Wrap * ahead[r]
               new == Wrap * ahead'[r]
    <3>5. CASE clock = Wrap - 1
      <4>1. clock' = 0
        BY <1>2, <3>5
      <4>2. new = old - Wrap
        BY <3>2, <3>4, <4>1
      <4>3. timeout[r] + old = clock + owed[r] /\ old \in Int
        BY <3>1, <3>4
      <4> HIDE DEF old, new
      <4>4. timeout'[r] + new = clock' + owed'[r]
        BY <3>1, <3>2, <3>3, <3>5, <4>1, <4>2, <4>3
      <4> QED BY <4>4 DEF new
    <3>6. CASE clock # Wrap - 1
      <4>1. clock' = clock + 1 /\ clock' # 0
        BY <1>2, <3>6, TimerAssumption DEF Word
      <4>2. new = old
        BY <3>2, <4>1
      <4>3. timeout[r] + old = clock + owed[r] /\ old \in Int
        BY <3>1, <3>4
      <4> HIDE DEF old, new
      <4>4. timeout'[r] + new = clock' + owed'[r]
        BY <3>1, <3>2, <3>3, <4>1, <4>2, <4>3
      <4> QED BY <4>4 DEF new
    <3> QED BY <3>5, <3>6
  <2> QED BY <2>1 DEF DueInv
<1> QED BY <1>3, <1>4, <1>5, <1>6 DEF TimerInv

LEMMA TimerNextInv == TimerInv /\ [Next]_vars => TimerInv'
<1> SUFFICES ASSUME TimerInv, [Next]_vars PROVE TimerInv'
  OBVIOUS
<1>1. CASE UNCHANGED vars
  BY <1>1 DEF vars, tableVars, threadVars, timeVars, TimerInv, TypeOK, InsideInv, OnePassAtATime,
     Inside, BoundInv, DueInv, Running
<1>2. CASE InitializeAgain
  BY <1>2, InitializeAgainInv
<1>3. ASSUME NEW t \in TimerThread, ThreadNext(t) PROVE TimerInv'
  BY <1>3, ReadInv, LockInv, LookInv, ExamineInv, ReturnInv, UpdateInv, UnlockInv DEF ThreadNext
<1>4. ASSUME NEW s \in Slot, CallNext(s) PROVE TimerInv'
  BY <1>4, NewInv, StartInv, RetireInv DEF CallNext, osTimerStop, osTimerDelete
<1>5. CASE Tick
  BY <1>5, TickInv
<1> QED BY <1>1, <1>2, <1>3, <1>4, <1>5 DEF Next

(* Who is inside, how far the bound can be relied on and when each timer   *)
(* is due, at every step.                                                  *)
THEOREM TimerInvariant == Spec => []TimerInv
BY TimerInitInv, TimerNextInv, PTL DEF Spec

(* Every variable of the timers keeps its range.                           *)
THEOREM TimerTypes == Spec => []TypeOK
BY TimerInvariant, PTL DEF TimerInv

(* Of the two timer threads one at a time works on the table.              *)
THEOREM ThreadsTakeTurns == Spec => []OnePassAtATime
<1>1. TimerInv => OnePassAtATime
  BY DEF TimerInv, InsideInv
<1> QED BY <1>1, TimerInvariant, PTL

(* No timer that runs is due before the bound, whatever was stopped and    *)
(* deleted: a thread that goes by the bound passes none over.              *)
THEOREM BoundIsKept == Spec => []MinIsBound
<1>1. TimerInv => MinIsBound
  <2> SUFFICES ASSUME TimerInv, Free, ~torn
               PROVE  \A s \in Running : timeout_min <= timeout[s]
    BY DEF MinIsBound
  <2> QED BY NobodyInside DEF TimerInv, BoundInv
<1> QED BY <1>1, TimerInvariant, PTL

-----------------------------------------------------------------------------
(* A thread begins a callback in Examine only. *)
LEMMA BeginsInExamine ==
  ASSUME TimerInv, [Next]_vars, NEW t \in TimerThread, pc[t] # "call", pc'[t] = "call"
  PROVE  Examine(t) /\ Due(i[t]) /\ i[t] \in Slot
<1>1. ASSUME NEW u \in TimerThread, NEW place, place # "call", pc' = [pc EXCEPT ![u] = place]
      PROVE  FALSE
  BY <1>1 DEF TimerInv, TypeOK
<1>2. pc' # pc
  OBVIOUS
<1>3. ~InitializeAgain /\ ~Tick /\ pc \in [TimerThread -> Places]
  BY <1>1 DEF InitializeAgain, Tick, TimerInv, TypeOK, Places, TimerThread
<1>4. \A s \in Slot : ~CallNext(s)
  BY <1>2 DEF CallNext, osTimerNew, osTimerStart, osTimerStop, osTimerDelete, Retire, threadVars
<1>5. PICK u \in TimerThread : ThreadNext(u)
  BY <1>2, <1>3, <1>4 DEF Next, vars, threadVars
<1>6. Examine(u) /\ Due(i[u])
  BY <1>1, <1>2, <1>5 DEF ThreadNext, Read, Lock, Look, Examine, Return, Update, Unlock, Goto
<1>7. u = t
  BY <1>3, <1>6 DEF Examine, Goto
<1> QED BY <1>6, <1>7 DEF Examine

(* No callback comes before its ticks have passed, but of a timer whose    *)
(* sum wrapped, for every word width and every set of periods.             *)
THEOREM TimersAreNotEarly == Spec => TimerNotEarly
<1>1. ASSUME TimerInv, [Next]_vars, NEW s \in Slot, Begins(s)
      PROVE  owed[s] <= 0 \/ ahead[s] > 0
  <2>1. PICK t \in TimerThread : pc[t] = "scan" /\ pc'[t] = "call" /\ i[t] = s
    BY <1>1 DEF Begins
  <2>2. Due(s)
    BY <1>1, <2>1, BeginsInExamine
  <2>3. s \in Running /\ clock >= timeout[s]
    BY <2>2 DEF Due, Running
  <2>4. timeout[s] + Wrap * ahead[s] = clock + owed[s]
    BY <1>1, <2>3 DEF TimerInv, DueInv
  <2>5. timeout[s] \in Int /\ clock \in Int /\ owed[s] \in Int /\ ahead[s] \in Int
    BY <1>1, TimerAssumption DEF TimerInv, TypeOK, Word
  <2>6. Wrap * ahead[s] \in Int /\ (ahead[s] <= 0 => Wrap * ahead[s] <= 0)
    BY <2>5, Epochs
  <2> QED BY <2>3, <2>4, <2>5, <2>6
<1>2. TimerInv /\ [Next]_vars
        => [\A s \in Slot : Begins(s) => owed[s] <= 0 \/ ahead[s] > 0]_vars
  BY <1>1
<1> QED BY <1>2, TimerInvariant, PTL DEF Spec, TimerNotEarly

-----------------------------------------------------------------------------
(* The refinement mapping: whose callback runs. *)
LEMMA CallingNow ==
  ASSUME TimerInv
  PROVE  /\ (\A t \in TimerThread : pc[t] # "call") => Calling = None
         /\ \A t \in TimerThread : pc[t] = "call" => Calling = i[t]
<1>1. ASSUME NEW t \in TimerThread, pc[t] = "call"
      PROVE  \A u \in TimerThread : pc[u] = "call" => u = t
  BY <1>1, InsideAlone DEF Inside, TimerInv, InsideInv
<1> QED BY <1>1 DEF Calling

LEMMA CallingThen ==
  ASSUME TimerInv'
  PROVE  /\ (\A t \in TimerThread : pc'[t] # "call") => Calling' = None
         /\ \A t \in TimerThread : pc'[t] = "call" => Calling' = i'[t]
<1>1. ASSUME NEW t \in TimerThread, pc'[t] = "call"
      PROVE  \A u \in TimerThread : pc'[u] = "call" => u = t
  BY <1>1 DEF TimerInv, InsideInv, OnePassAtATime, Inside
<1> QED BY <1>1 DEF Calling

(* A timer function is one of Timers', between two callbacks. *)
LEMMA CallIsPromised ==
  ASSUME TimerInv, NEW s \in Slot, CallNext(s)
  PROVE  Promise!TimersNext
<1>1. ~torn /\ Free /\ MayCall /\ UNCHANGED <<pc, i>>
  BY DEF CallNext, osTimerNew, osTimerStart, osTimerStop, osTimerDelete, Retire, MayCall, threadVars
<1>2. Calling = None /\ Calling' = Calling
  BY <1>1, NobodyInside, CallingNow DEF Calling
<1>3. ASSUME NEW k \in {"once", "periodic"}, osTimerNew(s, k)
      PROVE  Promise!New(s, k) /\ k \in Promise!Types
  BY <1>2, <1>3 DEF osTimerNew, Promise!New, Promise!Become, Promise!Types
<1>4. ASSUME NEW n \in Ticks, osTimerStart(s, n)
      PROVE  Promise!Start(s)
  BY <1>2, <1>4 DEF osTimerStart, Promise!Start, Promise!Become
<1>5. osTimerStop(s) => Promise!Stop(s)
  BY <1>2 DEF osTimerStop, Retire, Promise!Stop, Promise!Become
<1>6. osTimerDelete(s) => Promise!Delete(s)
  BY <1>2 DEF osTimerDelete, Retire, Promise!Delete, Promise!Become
<1> QED BY <1>3, <1>4, <1>5, <1>6 DEF CallNext, Promise!TimersNext

(* A thread begins and ends callbacks; the rest of what it does shows      *)
(* nowhere.                                                                *)
LEMMA ExamineIsPromised ==
  ASSUME TimerInv, TimerInv', NEW t \in TimerThread, Examine(t)
  PROVE  Promise!TimersNext \/ UNCHANGED Promise!timerVars
<1>1. /\ ~torn /\ ~torn' /\ pc[t] = "scan" /\ Inside(t) /\ i[t] \in Slot
      /\ UNCHANGED <<state, type>>
  BY DEF Examine, Inside, tableVars
<1>2. \A u \in TimerThread : pc[u] # "call"
  BY <1>1, InsideAlone DEF Inside
<1>3. Calling = None
  BY <1>2, CallingNow
<1>4. CASE Due(i[t])
  <2>1. i' = i /\ pc'[t] = "call" /\ state[i[t]] = "run"
    BY <1>4 DEF Examine, Goto, Due, TimerInv, TypeOK
  <2>2. Calling' = i[t]
    BY <1>1, <2>1, CallingThen
  <2>3. Promise!Begin(i[t])
    BY <1>1, <1>3, <2>1, <2>2 DEF Promise!Begin
  <2> QED BY <1>1, <2>3 DEF Promise!TimersNext
<1>5. CASE ~Due(i[t])
  <2>1. pc' = pc
    BY <1>1, <1>5 DEF Examine
  <2>2. Calling' = None
    BY <1>2, <2>1, CallingThen
  <2> QED BY <1>1, <1>3, <2>2 DEF Promise!timerVars
<1> QED BY <1>4, <1>5

LEMMA ReturnIsPromised ==
  ASSUME TimerInv, TimerInv', NEW t \in TimerThread, Return(t)
  PROVE  Promise!TimersNext
<1>1. PICK s \in Slot : s = i[t] /\ state[s] = "run"
  BY DEF Return, TimerInv, InsideInv
<1>2. ~torn /\ pc[t] = "call" /\ Inside(t) /\ Goto(t, "scan") /\ type' = type
  BY DEF Return, Inside
<1>3. \A u \in TimerThread : pc'[u] # "call"
  <2>1. \A u \in TimerThread : u # t => pc[u] # "call"
    BY <1>2, InsideAlone DEF Inside
  <2> QED BY <1>2, <2>1 DEF Goto, TimerInv, TypeOK
<1>4. Calling = s /\ Calling' = None
  BY <1>1, <1>2, <1>3, CallingNow, CallingThen
<1>5. state' = [state EXCEPT ![s] = IF type[s] = "once" THEN "idle" ELSE "run"]
  <2>1. CASE type[s] = "once"
    BY <1>1, <2>1 DEF Return
  <2>2. CASE type[s] # "once"
    <3>1. state' = state
      BY <1>1, <2>2 DEF Return
    <3> QED BY <1>1, <2>2, <3>1 DEF TimerInv, TypeOK
  <2> QED BY <2>1, <2>2
<1>6. Promise!End(s)
  BY <1>2, <1>4, <1>5 DEF Promise!End, Promise!Become
<1> QED BY <1>6 DEF Promise!TimersNext

LEMMA OthersAreSilent ==
  ASSUME TimerInv, TimerInv',
         \/ UNCHANGED vars \/ InitializeAgain \/ Tick
         \/ \E t \in TimerThread : Read(t) \/ Lock(t) \/ Look(t) \/ Update(t) \/ Unlock(t)
  PROVE  UNCHANGED Promise!timerVars
<1>1. CASE InitializeAgain
  <2>1. mutex_timer = 1 /\ pc'[2] = "wait" /\ pc'[1] = pc[1] /\ pc[2] = "off"
    BY <1>1 DEF InitializeAgain, Booted, TimerInv, TypeOK, InsideInv, TimerThread
  <2>2. pc[1] # "call" /\ \A s \in Slot : state[s] = "unused"
    BY <2>1 DEF TimerInv, InsideInv, TimerThread
  <2>3. state' = state /\ type' = type
    BY <1>1, <2>2 DEF InitializeAgain, TimerInv, TypeOK
  <2>4. Calling = None /\ Calling' = None
    BY <2>1, <2>2, CallingNow, CallingThen DEF TimerThread
  <2> QED BY <2>3, <2>4 DEF Promise!timerVars
<1>2. CASE UNCHANGED vars
  BY <1>2 DEF vars, tableVars, threadVars, Promise!timerVars, Calling
<1>3. CASE Tick
  <2>1. i' = i /\ \A t \in TimerThread : (pc'[t] = "call") <=> (pc[t] = "call")
    BY <1>3 DEF Tick
  <2>2. Calling' = Calling
    <3>1. torn' = torn /\ ~torn
      BY <1>3 DEF Tick
    <3> QED BY <2>1, <3>1, CallingNow, CallingThen
  <2> QED BY <1>3, <2>2 DEF Tick, tableVars, Promise!timerVars
<1>4. ASSUME NEW t \in TimerThread, Read(t) \/ Lock(t) \/ Look(t) \/ Update(t) \/ Unlock(t)
      PROVE  UNCHANGED Promise!timerVars
  <2>1. /\ UNCHANGED <<state, type>> /\ pc[t] # "call" /\ pc'[t] # "call"
        /\ \A u \in TimerThread : u # t => pc'[u] = pc[u] /\ i'[u] = i[u]
    BY <1>4 DEF Read, Lock, Look, Update, Unlock, Goto, tableVars, TimerInv, TypeOK
  <2>2. Calling' = Calling
    BY <2>1, CallingNow, CallingThen
  <2> QED BY <2>1, <2>2 DEF Promise!timerVars
<1> QED BY <1>1, <1>2, <1>3, <1>4

(* Callbacks keep what Timers promises, for every number of timers: none   *)
(* of a timer at rest, one at a time, and no timer function meanwhile.     *)
THEOREM CallbacksKeepPromise == Spec => KeepsPromise
<1>1. Init => Promise!TimersInit
  <2> SUFFICES ASSUME Init PROVE Promise!TimersInit
    OBVIOUS
  <2>1. Calling = None
    BY TimerInitInv, CallingNow DEF Init, TimerThread
  <2> QED BY <2>1 DEF Init, Promise!TimersInit, Promise!Types
<1>2. TimerInv /\ TimerInv' /\ [Next]_vars => [Promise!TimersNext]_Promise!timerVars
  <2> SUFFICES ASSUME TimerInv, TimerInv', [Next]_vars
               PROVE  Promise!TimersNext \/ UNCHANGED Promise!timerVars
    OBVIOUS
  <2> QED BY CallIsPromised, ExamineIsPromised, ReturnIsPromised, OthersAreSilent
          DEF Next, ThreadNext
<1> QED BY <1>1, <1>2, TimerInvariant, PTL DEF Spec, KeepsPromise, Promise!TimersSpec
=============================================================================
