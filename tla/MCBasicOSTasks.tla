--------------------------- MODULE MCBasicOSTasks ---------------------------
(***************************************************************************)
(* BasicOS with the tasks in the foreground: two tasks of the highest      *)
(* priority 2 that take turns, one of priority 1 beside the idle task, and *)
(* the built-in timer only.                                                *)
(***************************************************************************)
EXTENDS BasicOS, SequencesExt

MCPrio == [t \in Task |-> IF t \in {0, 2, 3} THEN 2 ELSE 1]

(* bos_sheduler's loop as the source writes it, to compare with Sheduler. *)
LoopBody(c, st, acc, t) ==
  LET one == IF st[t] = "Ready" /\ Prio[t] > acc.priority
               THEN [next |-> t, priority |-> Prio[t]] ELSE acc
  IN  IF st[t] = "Ready" /\ Prio[t] = Prio[c] /\ one.next = Idle
        THEN [next |-> t, priority |-> Prio[t]] ELSE one

ScanSheduler(c, st) ==
  FoldLeft(LAMBDA acc, t : LoopBody(c, st, acc, t),
           [next |-> Idle, priority |-> 0],
           [k \in 1 .. TaskCount |-> (c + k) % TaskCount]).next

(* No action reads timeOffset, and with no period to start a timer with no *)
(* action depends on timeOutMin: states that differ in these two alone are *)
(* alike for every property of this run.                                   *)
View == <<taskVars, pc, time, idleBackup>>

ASSUME ShedulerIsTheLoop ==
  \A c \in Task, st \in [Task -> {"Ready", "Blocked"}] :
    st[Idle] = "Ready" => Sheduler(c, st) = ScanSheduler(c, st)
=============================================================================
