--------------------------- MODULE MCMessageQueue ---------------------------
(***************************************************************************)
(* The message queue with three threads that both put and get, two slots   *)
(* and two messages.                                                       *)
(***************************************************************************)
EXTENDS MessageQueue, TLC

CONSTANTS t1, t2, t3, m1, m2

MCThread == {t1, t2, t3}
MCMessage == {m1, m2}
Symmetry == Permutations(MCThread) \cup Permutations(MCMessage)

(* Nothing is promised any more once an empty queue was polled, or one     *)
(* with messages reset: the run ends there.                                *)
Bounded == ~astray

(* No action reads what an earlier Get copied out, and nothing follows a   *)
(* failed assertion.                                                       *)
View == IF halted THEN <<>> ELSE <<ringVars, semVars, at, astray>>
=============================================================================
