------------------------------- MODULE Button -------------------------------
(***************************************************************************)
(* A button (elab/edf/user/elab_button.c): the callback of a periodic      *)
(* timer samples the pin, rejects bounces, and tells clicks, double clicks *)
(* and long presses apart, under the lock of the button's device, while    *)
(* threads of the program register, use and unregister it.                 *)
(*                                                                         *)
(* The timer is any that keeps what Timers promises.  How its callbacks    *)
(* lie in time is left open: a late timer thread makes up for periods in a *)
(* burst.  Times are differences to the clock, counted as far as they are  *)
(* compared.  To whom events are sent (e_sig, cb) is left out.             *)
(***************************************************************************)
EXTENDS Timers, Integers, Sequences

CONSTANTS
  Samples,    \* equal samples that make a level: 4
  ClickMin,   \* ELAB_BUTTON_CLICK_TIME_MIN
  ClickMax,   \* ELAB_BUTTON_CLICK_TIME_MAX, ELAB_BUTTON_LONGPRESS_TIME_MIN
  IdleMax     \* ELAB_BUTTON_DOUBLE_CLICK_IDLE_TIME_MAX

ASSUME ButtonAssumption ==
  /\ Samples \in Nat \ {0}
  /\ ClickMin \in Nat /\ ClickMax \in Nat /\ IdleMax \in Nat
  /\ ClickMin <= ClickMax
  /\ None \notin Slot /\ None \notin {"user", "callback"}

VARIABLES
  timer,          \* me->timer
  listed,         \* registered as a device: its mutex exists
  lock,           \* who holds the device's mutex
  at,             \* where the callback is
  task,           \* where a thread is that registers or unregisters
  pressed,
  flag_dejitter,  \* the last samples
  gesture,        \* me->state
  since_press,    \* the clock less time_pressed
  since_release,  \* the clock less time_release
  stale,          \* history: gesture is what was in the memory before
  presses,        \* history: presses that ended since the last gesture, to 2
  unbacked        \* history: a gesture was told without its presses

lifeVars    == <<timer, listed, task>>
levelVars   == <<pressed, flag_dejitter>>
gestureVars == <<gesture, since_press, since_release, stale, presses, unbacked>>
vars == <<timerVars, lifeVars, lock, at, levelVars, gestureVars>>

Gesture == {"idle", "pressed", "double.idle", "double.pressed", "other"}

-----------------------------------------------------------------------------
Init ==
  /\ TimersInit
  /\ timer = None /\ listed = FALSE /\ task = "none"
  /\ lock = None /\ at = "out"
  /\ pressed = FALSE
  /\ flag_dejitter = [n \in 1 .. Samples |-> FALSE]
  /\ gesture = "idle" /\ since_press = 0 /\ since_release = 0
  /\ stale = FALSE /\ presses = 0 /\ unbacked = FALSE

(* elab_button_register leaves state and time_release as they are in the   *)
(* memory of the button, which malloc may have given.                      *)
Register ==
  /\ task = "none" /\ timer = None
  /\ \E s \in Slot : New(s, "periodic") /\ timer' = s
  /\ task' = "made"
  /\ pressed' = FALSE
  /\ flag_dejitter' = [n \in 1 .. Samples |-> FALSE]
  /\ gesture' \in Gesture
  /\ since_press' = 0 /\ since_release' \in 0 .. IdleMax
  /\ stale' = (gesture' # "idle")
  /\ presses' = 0
  /\ UNCHANGED <<listed, lock, at, unbacked>>

RegisterDevice ==
  /\ task = "made"
  /\ listed' = TRUE
  /\ task' = "listed"
  /\ UNCHANGED <<timerVars, timer, lock, at, levelVars, gestureVars>>

(* Mutant: the timer is started before the device is registered. *)
StartSooner ==
  /\ task \in {"made", "listed"}
  /\ Start(timer)
  /\ task' = IF task = "listed" THEN "none" ELSE task
  /\ UNCHANGED <<timer, listed, lock, at, levelVars, gestureVars>>

RegisterStart ==
  /\ task = "listed"
  /\ Start(timer)
  /\ task' = "none"
  /\ UNCHANGED <<timer, listed, lock, at, levelVars, gestureVars>>

(* The program does not unregister a button that a thread is using.        *)
UnregisterTimer ==
  /\ task = "none" /\ listed /\ lock # "user"
  /\ Delete(timer)
  /\ task' = "deleted"
  /\ UNCHANGED <<timer, listed, lock, at, levelVars, gestureVars>>

UnregisterDevice ==
  /\ task = "deleted"
  /\ listed' = FALSE
  /\ timer' = None
  /\ task' = "none"
  /\ UNCHANGED <<timerVars, lock, at, levelVars, gestureVars>>

(* elab_button_is_pressed and the other functions that use the lock.       *)
UserLock ==
  /\ task = "none" /\ listed /\ lock = None
  /\ lock' = "user"
  /\ UNCHANGED <<timerVars, lifeVars, at, levelVars, gestureVars>>

UserUnlock ==
  /\ lock = "user"
  /\ lock' = None
  /\ UNCHANGED <<timerVars, lifeVars, at, levelVars, gestureVars>>

-----------------------------------------------------------------------------
(* _timer_func *)
CallbackBegin ==
  /\ timer # None
  /\ Begin(timer)
  /\ UNCHANGED <<lifeVars, lock, at, levelVars, gestureVars>>

CallbackLock ==
  /\ calling # None /\ at = "out" /\ lock = None
  /\ lock' = "callback" /\ at' = "in"
  /\ UNCHANGED <<timerVars, lifeVars, levelVars, gestureVars>>

AllAre(flags, level) == \A n \in 1 .. Samples : flags[n] = level

(* What the samples make of the level. *)
Level(flags) ==
  IF ~pressed /\ AllAre(flags, TRUE) THEN TRUE
  ELSE IF pressed /\ AllAre(flags, FALSE) THEN FALSE ELSE pressed

(* Mutant: only a press ends a pause that has been too long. *)
AfterClickWaits(p, sr) ==
  IF p /\ sr >= IdleMax THEN <<"idle", "click">>
  ELSE <<IF p THEN "double.pressed" ELSE "double.idle", "none">>

(* Mutant: a click is told and the state left as it is. *)
AfterClickStays(p, sr) ==
  <<IF p THEN "double.pressed" ELSE "double.idle", IF sr >= IdleMax THEN "click" ELSE "none">>

(* The pause after a click: a press may make it a double click, unless the *)
(* pause has been too long by now.                                         *)
AfterClick(p, sr) ==
  IF sr >= IdleMax THEN <<"idle", "click">>
  ELSE <<IF p THEN "double.pressed" ELSE "double.idle", "none">>

(* The next state and the event of each state, from the level and from the *)
(* times since the press and the release.                                  *)
Told(p, sp, sr) ==
  CASE gesture = "idle" -> <<IF p THEN "pressed" ELSE "idle", "none">>
    [] gesture = "pressed" ->
         IF p \/ sp < ClickMin THEN <<"pressed", "none">>
         ELSE IF sp >= ClickMax THEN <<"idle", "long">> ELSE <<"double.idle", "none">>
    [] gesture = "double.idle" -> AfterClick(p, sr)
    [] gesture = "double.pressed" ->
         IF ~p /\ sp \in ClickMin .. ClickMax THEN <<"idle", "double">>
         ELSE <<"double.pressed", "none">>
    [] gesture = "other" -> <<"idle", "none">>

Needs == [none |-> 0, click |-> 1, long |-> 1, double |-> 2]

Upto(n, bound) == IF n < bound THEN n ELSE bound

Sample(level) ==
  /\ at = "in"
  /\ LET flags == Append(Tail(flag_dejitter), level)
         p     == Level(flags)
         sp    == IF p /\ ~pressed THEN 0 ELSE since_press
         sr    == IF pressed /\ ~p THEN 0 ELSE since_release
         ended == IF pressed /\ ~p THEN Upto(presses + 1, 2) ELSE presses
         told  == Told(p, sp, sr)
     IN /\ flag_dejitter' = flags
        /\ pressed' = p
        /\ since_press' = sp /\ since_release' = sr
        /\ gesture' = told[1]
        /\ stale' = (stale /\ told[1] # "idle")
        /\ presses' = IF told[2] = "none" THEN ended ELSE 0
        /\ unbacked' = (unbacked \/ (~stale /\ ended < Needs[told[2]]))
  /\ at' = "done"
  /\ UNCHANGED <<timerVars, lifeVars, lock>>

CallbackEnd ==
  /\ at = "done"
  /\ End(calling)
  /\ lock' = None /\ at' = "out"
  /\ UNCHANGED <<lifeVars, levelVars, gestureVars>>

Tick ==
  /\ since_press' = Upto(since_press + 1, ClickMax + 1)
  /\ since_release' = Upto(since_release + 1, IdleMax)
  /\ UNCHANGED <<timerVars, lifeVars, lock, at, levelVars, gesture, stale, presses, unbacked>>

Callback == CallbackBegin \/ CallbackLock \/ (\E level \in BOOLEAN : Sample(level)) \/ CallbackEnd

Next ==
  \/ Register \/ RegisterDevice \/ RegisterStart
  \/ UnregisterTimer \/ UnregisterDevice
  \/ UserLock \/ UserUnlock
  \/ Callback \/ Tick

Spec == Init /\ [][Next]_vars

(* Time passes, the timer's thread runs and gets the device's mutex in its *)
(* turn, and threads that are inside a function of the button leave it.    *)
FairSpec ==
  /\ Spec
  /\ WF_vars(Tick) /\ SF_vars(Callback)
  /\ WF_vars(UserUnlock) /\ WF_vars(RegisterDevice) /\ WF_vars(RegisterStart)
  /\ WF_vars(UnregisterDevice)

-----------------------------------------------------------------------------
TypeOK ==
  /\ state \in [Slot -> States] /\ type \in [Slot -> Types]
  /\ calling \in Slot \cup {None}
  /\ timer \in Slot \cup {None}
  /\ listed \in BOOLEAN
  /\ task \in {"none", "made", "listed", "deleted"}
  /\ lock \in {None, "user", "callback"}
  /\ at \in {"out", "in", "done"}
  /\ pressed \in BOOLEAN
  /\ flag_dejitter \in [1 .. Samples -> BOOLEAN]
  /\ gesture \in Gesture
  /\ since_press \in 0 .. ClickMax + 1
  /\ since_release \in 0 .. IdleMax
  /\ stale \in BOOLEAN /\ unbacked \in BOOLEAN
  /\ presses \in 0 .. 2

(* The callback of a button's timer meets a device that is registered and  *)
(* whose mutex exists, from its first instruction to its last: it does not *)
(* come before the registration is complete, and elab_button_unregister    *)
(* waits for it.                                                           *)
CallbackHasDevice == calling # None => listed /\ calling = timer

(* Every gesture is told for presses that have ended and were not told     *)
(* before: one for a click or a long press, two for a double click.  This  *)
(* is not so of a first gesture that registration found in the memory.     *)
GesturesAreBacked == ~unbacked

(* The second press was longer than a click may be. *)
Overlong == gesture = "double.pressed" /\ ~pressed /\ since_press > ClickMax

(* When the button is released and left alone the gesture comes to an end, *)
(* whatever the callbacks met of the clock, except behind a second press   *)
(* that was too long: that state is left with the next press only.         *)
GestureEnds ==
  (~pressed /\ gesture # "idle" /\ listed) ~> (gesture = "idle" \/ pressed \/ Overlong \/ ~listed)
=============================================================================
