-------------------------- MODULE MCBasicOSTimers --------------------------
(***************************************************************************)
(* BasicOS with the soft timers in the foreground: one user task beside    *)
(* the idle task, a periodic timer and a one-shot timer.                   *)
(***************************************************************************)
EXTENDS BasicOS

MCPrio == [t \in Task |-> IF t = Idle THEN 1 ELSE 2]

(* No action reads timeOffset or remain, and the properties of this run    *)
(* mention no more of them than the change of timeOffset in one step:      *)
(* states that differ in these two alone are alike.                        *)
View == <<state, timeout, current, timerVars, pc, time, idleBackup, timeOutMin, cb>>
=============================================================================
