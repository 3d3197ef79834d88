------------------------------- MODULE Timers -------------------------------
(***************************************************************************)
(* What the timers of the OS layer promise to those who use them           *)
(* (elab/os/cmsis_os.h), whatever the time: a callback runs on a timer     *)
(* that was started and neither stopped nor deleted, one callback at a     *)
(* time, and no call of a timer function returns while one runs.           *)
(***************************************************************************)
CONSTANTS
  Slot,      \* timers there may be
  None

VARIABLES
  state,     \* of each timer
  type,      \* once or periodic, given to osTimerNew
  calling    \* the timer whose callback runs, or None

timerVars == <<state, type, calling>>

States == {"unused", "idle", "run"}
Types  == {"once", "periodic"}

TimersInit ==
  /\ state = [s \in Slot |-> "unused"]
  /\ type \in [Slot -> Types]
  /\ calling = None

Become(s, st) == state' = [state EXCEPT ![s] = st]

New(s, k) ==
  /\ calling = None /\ state[s] = "unused"
  /\ Become(s, "idle")
  /\ type' = [type EXCEPT ![s] = k]
  /\ UNCHANGED calling

Start(s) ==
  /\ calling = None /\ state[s] # "unused"
  /\ Become(s, "run")
  /\ UNCHANGED <<type, calling>>

Stop(s) ==
  /\ calling = None /\ state[s] # "unused"
  /\ Become(s, "idle")
  /\ UNCHANGED <<type, calling>>

Delete(s) ==
  /\ calling = None /\ state[s] # "unused"
  /\ Become(s, "unused")
  /\ UNCHANGED <<type, calling>>

Begin(s) ==
  /\ calling = None /\ state[s] = "run"
  /\ calling' = s
  /\ UNCHANGED <<state, type>>

(* A timer that fires once is idle when its callback has returned.         *)
End(s) ==
  /\ calling = s
  /\ calling' = None
  /\ Become(s, IF type[s] = "once" THEN "idle" ELSE "run")
  /\ UNCHANGED type

TimersNext == \E s \in Slot :
  \/ \E k \in Types : New(s, k)
  \/ Start(s) \/ Stop(s) \/ Delete(s)
  \/ Begin(s) \/ End(s)

TimersSpec == TimersInit /\ [][TimersNext]_timerVars
=============================================================================
