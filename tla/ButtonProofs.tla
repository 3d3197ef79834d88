---------------------------- MODULE ButtonProofs ----------------------------
(***************************************************************************)
(* The callback of a button meets its device, and gestures are told for    *)
(* presses that have ended, for every number of samples and all times.     *)
(*                                                                         *)
(* The argument: registration and removal take the timer through a fixed   *)
(* course, and Timers keeps callbacks out of every part of it but one; and *)
(* each state of the gesture implies how many presses have ended since the *)
(* last gesture.                                                           *)
(***************************************************************************)
EXTENDS Button, SequenceTheorems, TLAPS

(* Where a button's timer is in each part of its life.                     *)
LifeInv ==
  /\ \A s \in Slot : s # timer => state[s] = "unused"
  /\ timer # None => type[timer] = "periodic"
  /\ task = "none" => (listed <=> timer # None) /\ (listed => state[timer] = "run")
  /\ task = "made" => timer # None /\ ~listed /\ state[timer] = "idle"
  /\ task = "listed" => timer # None /\ listed /\ state[timer] = "idle"
  /\ task = "deleted" => timer # None /\ listed /\ state[timer] = "unused"
  /\ calling # None => calling = timer /\ task = "none"
  /\ at # "out" => calling # None

(* What each state of a gesture knows of the presses.                      *)
BackedInv ==
  /\ ~unbacked
  /\ ~stale =>
       /\ gesture = "pressed" /\ ~pressed => presses >= 1
       /\ gesture = "double.idle" => presses >= 1
       /\ gesture = "double.pressed" => presses >= 1 /\ (~pressed => presses = 2)

ButtonInv == TypeOK /\ LifeInv /\ BackedInv

-----------------------------------------------------------------------------
LEMMA FlagsShift ==
  ASSUME NEW flags \in [1 .. Samples -> BOOLEAN], NEW level \in BOOLEAN
  PROVE  Append(Tail(flags), level) \in [1 .. Samples -> BOOLEAN]
<1>1. flags \in Seq(BOOLEAN) /\ Len(flags) = Samples
  <2>1. Samples \in Nat
    BY ButtonAssumption
  <2>2. flags \in Seq(BOOLEAN)
    BY <2>1
  <2> QED BY <2>1, <2>2, LenProperties
<1>2. flags # << >>
  BY <1>1, ButtonAssumption, EmptySeq
<1>3. Tail(flags) \in Seq(BOOLEAN) /\ Len(Tail(flags)) = Samples - 1
  BY <1>1, <1>2, HeadTailProperties
<1>4. Append(Tail(flags), level) \in Seq(BOOLEAN) /\ Len(Append(Tail(flags), level)) = Samples
  BY <1>3, AppendProperties, ButtonAssumption
<1> QED BY <1>4, LenProperties

LEMMA ButtonInitInv == Init => ButtonInv
<1> SUFFICES ASSUME Init PROVE ButtonInv
  OBVIOUS
<1>1. TypeOK
  <2>1. 0 \in 0 .. ClickMax + 1 /\ 0 \in 0 .. IdleMax
    BY ButtonAssumption
  <2>2. 0 \in 0 .. 2 /\ [n \in 1 .. Samples |-> FALSE] \in [1 .. Samples -> BOOLEAN]
    OBVIOUS
  <2>3. state \in [Slot -> States] /\ type \in [Slot -> Types] /\ gesture \in Gesture
    BY DEF Init, TimersInit, States, Gesture
  <2> QED BY <2>1, <2>2, <2>3, Zenon DEF Init, TimersInit, TypeOK
<1>2. LifeInv
  BY DEF Init, TimersInit, LifeInv
<1>3. BackedInv
  BY DEF Init, BackedInv
<1> QED BY <1>1, <1>2, <1>3 DEF ButtonInv

LEMMA RegisterInv == ASSUME ButtonInv, Register PROVE ButtonInv'
<1>1. PICK s \in Slot : New(s, "periodic") /\ timer' = s
  BY DEF Register
<1>2. /\ calling = None /\ calling' = None /\ state[s] = "unused"
      /\ state' = [state EXCEPT ![s] = "idle"] /\ type' = [type EXCEPT ![s] = "periodic"]
  BY <1>1 DEF New, Become
<1>3. /\ state \in [Slot -> States] /\ type \in [Slot -> Types]
      /\ timer = None /\ task = "none" /\ ~listed /\ at = "out"
  BY <1>2 DEF Register, ButtonInv, TypeOK, LifeInv
<1>4. TypeOK'
  <2>1. state' \in [Slot -> States] /\ type' \in [Slot -> Types]
    BY <1>2, <1>3 DEF States, Types
  <2>2. 0 \in 0 .. ClickMax + 1
    BY ButtonAssumption
  <2>3. 0 \in 0 .. 2 /\ [n \in 1 .. Samples |-> FALSE] \in [1 .. Samples -> BOOLEAN]
    OBVIOUS
  <2>4. stale' \in BOOLEAN /\ pressed' \in BOOLEAN /\ task' \in {"none", "made", "listed", "deleted"}
    BY DEF Register
  <2>5. calling' \in Slot \cup {None} /\ timer' \in Slot \cup {None}
    BY <1>1, <1>2
  <2> QED BY <2>1, <2>2, <2>3, <2>4, <2>5 DEF Register, ButtonInv, TypeOK
<1>5. LifeInv'
  <2>1. \A r \in Slot : r # s => state'[r] = "unused"
    BY <1>2, <1>3, ButtonAssumption DEF ButtonInv, LifeInv
  <2>2. s # None /\ state'[s] = "idle" /\ type'[s] = "periodic"
    BY <1>2, <1>3, ButtonAssumption
  <2>3. task' = "made" /\ ~listed' /\ at' = "out"
    BY <1>3 DEF Register
  <2> QED BY <1>1, <1>2, <2>1, <2>2, <2>3 DEF LifeInv
<1>6. BackedInv'
  BY DEF Register, ButtonInv, BackedInv, Gesture
<1> QED BY <1>4, <1>5, <1>6 DEF ButtonInv

LEMMA RegisterDeviceInv == ASSUME ButtonInv, RegisterDevice PROVE ButtonInv'
<1>1. TypeOK'
  BY DEF ButtonInv, TypeOK, RegisterDevice, timerVars, levelVars, gestureVars
<1>2. LifeInv'
  BY DEF ButtonInv, LifeInv, RegisterDevice, timerVars
<1>3. BackedInv'
  BY DEF ButtonInv, BackedInv, RegisterDevice, levelVars, gestureVars
<1> QED BY <1>1, <1>2, <1>3 DEF ButtonInv

(* A timer function is called on the timer of the button. *)
LEMMA TimerCall ==
  ASSUME ButtonInv, timer # None, NEW st \in States,
         calling = None, Become(timer, st), UNCHANGED <<type, calling>>
  PROVE  /\ timer \in Slot /\ state'[timer] = st
         /\ state' \in [Slot -> States] /\ type' \in [Slot -> Types]
         /\ \A s \in Slot : s # timer => state'[s] = "unused"
BY DEF ButtonInv, TypeOK, LifeInv, Become

LEMMA RegisterStartInv == ASSUME ButtonInv, RegisterStart PROVE ButtonInv'
<1>1. /\ task = "listed" /\ timer # None /\ listed /\ calling = None
      /\ Become(timer, "run") /\ task' = "none"
      /\ UNCHANGED <<type, calling, timer, listed, lock, at, levelVars, gestureVars>>
  BY DEF ButtonInv, LifeInv, RegisterStart, Start
<1>2. "run" \in States
  BY DEF States
<1>3. TypeOK'
  BY <1>1, <1>2, TimerCall DEF ButtonInv, TypeOK, levelVars, gestureVars
<1>4. LifeInv'
  BY <1>1, <1>2, TimerCall DEF ButtonInv, LifeInv
<1>5. BackedInv'
  BY <1>1 DEF ButtonInv, BackedInv, levelVars, gestureVars
<1> QED BY <1>3, <1>4, <1>5 DEF ButtonInv

LEMMA UnregisterTimerInv == ASSUME ButtonInv, UnregisterTimer PROVE ButtonInv'
<1>1. /\ task = "none" /\ timer # None /\ listed /\ calling = None
      /\ Become(timer, "unused") /\ task' = "deleted"
      /\ UNCHANGED <<type, calling, timer, listed, lock, at, levelVars, gestureVars>>
  BY DEF ButtonInv, LifeInv, UnregisterTimer, Delete
<1>2. "unused" \in States
  BY DEF States
<1>3. TypeOK'
  BY <1>1, <1>2, TimerCall DEF ButtonInv, TypeOK, levelVars, gestureVars
<1>4. LifeInv'
  BY <1>1, <1>2, TimerCall DEF ButtonInv, LifeInv
<1>5. BackedInv'
  BY <1>1 DEF ButtonInv, BackedInv, levelVars, gestureVars
<1> QED BY <1>3, <1>4, <1>5 DEF ButtonInv

LEMMA UnregisterDeviceInv == ASSUME ButtonInv, UnregisterDevice PROVE ButtonInv'
<1>1. /\ task = "deleted" /\ state[timer] = "unused" /\ calling = None /\ at = "out"
      /\ timer' = None /\ task' = "none" /\ listed' = FALSE
      /\ UNCHANGED <<state, type, calling, lock, at, levelVars, gestureVars>>
  BY DEF ButtonInv, LifeInv, UnregisterDevice, timerVars
<1>2. TypeOK'
  BY <1>1 DEF ButtonInv, TypeOK, levelVars, gestureVars
<1>3. LifeInv'
  <2>1. \A s \in Slot : state[s] = "unused"
    BY <1>1 DEF ButtonInv, LifeInv
  <2> QED BY <1>1, <2>1 DEF LifeInv
<1>4. BackedInv'
  BY <1>1 DEF ButtonInv, BackedInv, levelVars, gestureVars
<1> QED BY <1>2, <1>3, <1>4 DEF ButtonInv

(* The lock alone, and time, change nothing that the invariants are about. *)
LEMMA LockInv ==
  ASSUME ButtonInv, UserLock \/ UserUnlock \/ CallbackLock
  PROVE  ButtonInv'
<1>1. /\ lock' \in {None, "user", "callback"} /\ at' \in {at, "in"}
      /\ at' # at => calling # None
      /\ UNCHANGED <<state, type, calling, timer, listed, task, levelVars, gestureVars>>
  BY DEF UserLock, UserUnlock, CallbackLock, timerVars, lifeVars
<1>2. TypeOK'
  BY <1>1 DEF ButtonInv, TypeOK, levelVars, gestureVars
<1>3. LifeInv'
  BY <1>1 DEF ButtonInv, LifeInv
<1>4. BackedInv'
  BY <1>1 DEF ButtonInv, BackedInv, levelVars, gestureVars
<1> QED BY <1>2, <1>3, <1>4 DEF ButtonInv

LEMMA TickInv == ASSUME ButtonInv, Tick PROVE ButtonInv'
<1>1. UNCHANGED <<state, type, calling, timer, listed, task, lock, at, levelVars,
                  gesture, stale, presses, unbacked>>
  BY DEF Tick, timerVars, lifeVars
<1>2. since_press' \in 0 .. ClickMax + 1 /\ since_release' \in 0 .. IdleMax
  BY ButtonAssumption DEF Tick, Upto, ButtonInv, TypeOK
<1>3. TypeOK'
  BY <1>1, <1>2 DEF ButtonInv, TypeOK, levelVars
<1>4. LifeInv' /\ BackedInv'
  BY <1>1 DEF ButtonInv, LifeInv, BackedInv, levelVars
<1> QED BY <1>3, <1>4 DEF ButtonInv

LEMMA CallbackBeginInv == ASSUME ButtonInv, CallbackBegin PROVE ButtonInv'
<1>1. /\ timer # None /\ calling = None /\ state[timer] = "run" /\ calling' = timer
      /\ UNCHANGED <<state, type, timer, listed, task, lock, at, levelVars, gestureVars>>
  BY DEF CallbackBegin, Begin, lifeVars
<1>2. task = "none"
  BY <1>1 DEF ButtonInv, TypeOK, LifeInv
<1>3. TypeOK'
  BY <1>1 DEF ButtonInv, TypeOK, levelVars, gestureVars
<1>4. LifeInv'
  BY <1>1, <1>2 DEF ButtonInv, LifeInv
<1>5. BackedInv'
  BY <1>1 DEF ButtonInv, BackedInv, levelVars, gestureVars
<1> QED BY <1>3, <1>4, <1>5 DEF ButtonInv

LEMMA CallbackEndInv == ASSUME ButtonInv, CallbackEnd PROVE ButtonInv'
<1>1. /\ at = "done" /\ at' = "out" /\ lock' = None /\ calling' = None
      /\ Become(calling, IF type[calling] = "once" THEN "idle" ELSE "run")
      /\ UNCHANGED <<type, timer, listed, task, levelVars, gestureVars>>
  BY DEF CallbackEnd, End, lifeVars
<1>2. /\ calling = timer /\ timer # None /\ timer \in Slot /\ task = "none"
      /\ state[timer] = "run" /\ type[timer] = "periodic"
  BY <1>1 DEF ButtonInv, TypeOK, LifeInv
<1>3. state' = state
  BY <1>1, <1>2 DEF Become, ButtonInv, TypeOK
<1>4. TypeOK'
  BY <1>1, <1>3 DEF ButtonInv, TypeOK, levelVars, gestureVars
<1>5. LifeInv'
  BY <1>1, <1>2, <1>3 DEF ButtonInv, LifeInv
<1>6. BackedInv'
  BY <1>1 DEF ButtonInv, BackedInv, levelVars, gestureVars
<1> QED BY <1>4, <1>5, <1>6 DEF ButtonInv

-----------------------------------------------------------------------------
(* Each state passes on what it knows, and tells what it may.              *)
LEMMA ToldIsBacked ==
  ASSUME ButtonInv, ~stale, NEW p \in BOOLEAN, NEW sp, NEW sr, NEW ended \in 0 .. 2,
         ended >= presses, pressed /\ ~p => ended = Upto(presses + 1, 2)
  PROVE  /\ ~(ended < Needs[Told(p, sp, sr)[2]])
         /\ Told(p, sp, sr)[2] = "none" =>
              /\ Told(p, sp, sr)[1] = "pressed" /\ ~p => ended >= 1
              /\ Told(p, sp, sr)[1] = "double.idle" => ended >= 1
              /\ Told(p, sp, sr)[1] = "double.pressed" => ended >= 1 /\ (~p => ended = 2)
         /\ Told(p, sp, sr)[2] # "none" => Told(p, sp, sr)[1] = "idle"
<1>1. gesture \in Gesture /\ presses \in 0 .. 2 /\ pressed \in BOOLEAN
  BY DEF ButtonInv, TypeOK
<1>2. pressed /\ ~p => ended >= 1
  BY <1>1 DEF Upto
<1>3. Needs.none = 0 /\ Needs.click = 1 /\ Needs.long = 1 /\ Needs.double = 2
  BY DEF Needs
<1>4. CASE gesture = "idle"
  BY <1>3, <1>4 DEF Told
<1>5. CASE gesture = "pressed"
  <2>1. ~p => ended >= 1
    BY <1>1, <1>2, <1>5 DEF ButtonInv, BackedInv
  <2> QED BY <1>3, <1>5, <2>1 DEF Told
<1>6. CASE gesture = "double.idle"
  <2>1. ended >= 1
    BY <1>1, <1>6 DEF ButtonInv, BackedInv
  <2> QED BY <1>3, <1>6, <2>1 DEF Told, AfterClick
<1>7. CASE gesture = "double.pressed"
  <2>1. ended >= 1 /\ (~p => ended = 2)
    BY <1>1, <1>7 DEF ButtonInv, BackedInv, Upto
  <2> QED BY <1>3, <1>7, <2>1 DEF Told
<1>8. CASE gesture = "other"
  BY <1>3, <1>8 DEF Told
<1> QED BY <1>1, <1>4, <1>5, <1>6, <1>7, <1>8 DEF Gesture

LEMMA ToldType ==
  ASSUME ButtonInv, NEW p \in BOOLEAN, NEW sp, NEW sr
  PROVE  Told(p, sp, sr)[1] \in Gesture
<1>1. gesture \in Gesture
  BY DEF ButtonInv, TypeOK
<1> QED BY <1>1 DEF Told, AfterClick, Gesture

LEMMA SampleInv ==
  ASSUME ButtonInv, NEW level \in BOOLEAN, Sample(level)
  PROVE  ButtonInv'
<1> DEFINE flags == Append(Tail(flag_dejitter), level)
           p     == Level(flags)
           sp    == IF p /\ ~pressed THEN 0 ELSE since_press
           sr    == IF pressed /\ ~p THEN 0 ELSE since_release
           ended == IF pressed /\ ~p THEN Upto(presses + 1, 2) ELSE presses
           told  == Told(p, sp, sr)
<1>1. /\ flag_dejitter' = flags /\ pressed' = p
      /\ since_press' = sp /\ since_release' = sr
      /\ gesture' = told[1] /\ stale' = (stale /\ told[1] # "idle")
      /\ presses' = IF told[2] = "none" THEN ended ELSE 0
      /\ unbacked' = (unbacked \/ (~stale /\ ended < Needs[told[2]]))
      /\ at = "in" /\ at' = "done"
      /\ UNCHANGED <<state, type, calling, timer, listed, task, lock>>
  BY DEF Sample, timerVars, lifeVars
<1>2. /\ pressed \in BOOLEAN /\ presses \in 0 .. 2 /\ stale \in BOOLEAN /\ unbacked \in BOOLEAN
      /\ since_press \in 0 .. ClickMax + 1 /\ since_release \in 0 .. IdleMax
      /\ flag_dejitter \in [1 .. Samples -> BOOLEAN]
  BY DEF ButtonInv, TypeOK
<1>3. flags \in [1 .. Samples -> BOOLEAN]
  BY <1>2, FlagsShift
<1>4. p \in BOOLEAN
  <2> HIDE DEF flags
  <2> QED BY <1>2 DEF Level
<1>5. sp \in 0 .. ClickMax + 1 /\ sr \in 0 .. IdleMax
  <2> HIDE DEF p
  <2> QED BY <1>2, ButtonAssumption
<1>6. /\ ended \in 0 .. 2 /\ ended >= presses
      /\ pressed /\ ~p => ended = Upto(presses + 1, 2)
  <2> HIDE DEF p
  <2> QED BY <1>2 DEF Upto
<1> HIDE DEF flags, p, sp, sr, ended
<1>7. told[1] \in Gesture
  BY <1>4, ToldType
<1>8. ~stale =>
        /\ ~(ended < Needs[told[2]])
        /\ told[2] = "none" =>
             /\ told[1] = "pressed" /\ ~p => ended >= 1
             /\ told[1] = "double.idle" => ended >= 1
             /\ told[1] = "double.pressed" => ended >= 1 /\ (~p => ended = 2)
        /\ told[2] # "none" => told[1] = "idle"
  BY <1>4, <1>6, ToldIsBacked
<1> HIDE DEF told
<1>9. ~unbacked'
  <2>1. ~unbacked
    BY DEF ButtonInv, BackedInv
  <2> QED BY <1>1, <1>8, <2>1, Zenon
<1>10. TypeOK'
  <2>1. presses' \in 0 .. 2 /\ stale' \in BOOLEAN /\ unbacked' \in BOOLEAN
    BY <1>1, <1>2, <1>6
  <2> QED BY <1>1, <1>3, <1>4, <1>5, <1>7, <2>1 DEF ButtonInv, TypeOK
<1>11. LifeInv'
  BY <1>1 DEF ButtonInv, LifeInv
<1>12. BackedInv'
  <2> SUFFICES ASSUME ~stale'
               PROVE  /\ gesture' = "pressed" /\ ~pressed' => presses' >= 1
                      /\ gesture' = "double.idle" => presses' >= 1
                      /\ gesture' = "double.pressed" => presses' >= 1 /\ (~pressed' => presses' = 2)
    BY <1>9 DEF BackedInv
  <2>1. CASE stale
    BY <1>1, <2>1
  <2>2. CASE ~stale
    BY <1>1, <1>8, <2>2
  <2> QED BY <2>1, <2>2
<1> QED BY <1>10, <1>11, <1>12 DEF ButtonInv

LEMMA StutterInv == ASSUME ButtonInv, UNCHANGED vars PROVE ButtonInv'
BY DEF ButtonInv, TypeOK, LifeInv, BackedInv, vars, timerVars, lifeVars, levelVars, gestureVars

(* What holds in every state: types, the timer's course through the life   *)
(* of a button, and the presses behind each state of a gesture.            *)
THEOREM ButtonInvariant == Spec => []ButtonInv
<1>1. ButtonInv /\ [Next]_vars => ButtonInv'
  <2> SUFFICES ASSUME ButtonInv, [Next]_vars PROVE ButtonInv'
    OBVIOUS
  <2>1. CASE Register \/ RegisterDevice \/ RegisterStart
    BY <2>1, RegisterInv, RegisterDeviceInv, RegisterStartInv
  <2>2. CASE UnregisterTimer \/ UnregisterDevice
    BY <2>2, UnregisterTimerInv, UnregisterDeviceInv
  <2>3. CASE UserLock \/ UserUnlock
    BY <2>3, LockInv
  <2>4. CASE Callback
    BY <2>4, CallbackBeginInv, LockInv, SampleInv, CallbackEndInv DEF Callback
  <2>5. CASE Tick
    BY <2>5, TickInv
  <2>6. CASE UNCHANGED vars
    BY <2>6, StutterInv
  <2> QED BY <2>1, <2>2, <2>3, <2>4, <2>5, <2>6 DEF Next
<1> QED BY <1>1, ButtonInitInv, PTL DEF Spec

(* elab_button_register starts the timer last and elab_button_unregister   *)
(* deletes it first: no callback meets a button without its device, with   *)
(* any timers that keep what Timers promises.                              *)
THEOREM CallbacksHaveDevice == Spec => []CallbackHasDevice
<1>1. ButtonInv => CallbackHasDevice
  BY DEF ButtonInv, LifeInv, CallbackHasDevice
<1> QED BY <1>1, ButtonInvariant, PTL

(* The state machine of _timer_func tells a gesture for as many presses as *)
(* it has seen end, whatever the pin, the clock and the delays of the      *)
(* callbacks, once it has been idle.                                       *)
THEOREM GesturesHavePresses == Spec => []GesturesAreBacked
<1>1. ButtonInv => GesturesAreBacked
  BY DEF ButtonInv, BackedInv, GesturesAreBacked
<1> QED BY <1>1, ButtonInvariant, PTL
=============================================================================
