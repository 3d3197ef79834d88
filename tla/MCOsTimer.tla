----------------------------- MODULE MCOsTimer ------------------------------
(***************************************************************************)
(* Two timers under two timer threads, and a clock of ten values.          *)
(*                                                                         *)
(* A state does not show what nobody reads: the times of a timer that does *)
(* not run, the entry a thread is at while it is not among them, and the   *)
(* mutex it has read when it does not wait for it.                         *)
(***************************************************************************)
EXTENDS OsTimer

Times(s) == IF state[s] = "run"
              THEN <<timeout[s], ticks[s], owed[s], ahead[s]>> ELSE <<>>

At(t) == IF pc[t] \in {"scan", "call"} THEN i[t] ELSE 0

WaitsFor(t) == IF pc[t] = "enter" THEN mine[t] ELSE None

View == <<state, type, [s \in Slot |-> Times(s)], timeout_min, clock,
          mutex_timer, owner, pc, [t \in TimerThread |-> <<At(t), WaitsFor(t)>>], torn>>
=============================================================================
