---------------------------- MODULE MCEdfDevice ----------------------------
(***************************************************************************)
(* The device framework with two threads: one owns a device that several   *)
(* users may open, the other one a sole device; the table has room for     *)
(* both.                                                                   *)
(***************************************************************************)
EXTENDS EdfDevice

CONSTANTS t1, t2, shared, sole

MCThread == {t1, t2}
MCDevice == {shared, sole}
MCTester == {<<t2, shared>>}
MCFlaky == {sole}
MCSole == {sole}
MCOwner == [d \in MCDevice |-> IF d = shared THEN t1 ELSE t2]
MCName == [d \in MCDevice |-> d]

(* Nothing follows a failed assertion, and it changes nothing else: one    *)
(* halted state stands for all of them.                                    *)
View == IF halted THEN <<>> ELSE vars

(* Bound: how many of the things that the properties except have happened  *)
(* in the states whose successors are looked at.                           *)
AtMostOne == \A p, q \in {1, 2, 3, 4} :
  LET had == <<holed, torn, failed, met>> IN had[p] /\ had[q] => p = q
=============================================================================
