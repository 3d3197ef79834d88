---------------------------- MODULE MCSerialBus ----------------------------
(***************************************************************************)
(* A bus of a half duplex master and two slaves: two threads of the master *)
(* send to both slaves, one of them waits for an answer; each slave has a  *)
(* thread that reads what was sent and one that answers.                   *)
(***************************************************************************)
EXTENDS Serial

CONSTANTS master, a, b, m1, m2, a1, b1

MCPort == {master, a, b}
MCTargets == [p \in MCPort |-> IF p = master THEN <<a, b>> ELSE <<master>>]
MCHalfDuplex == {master}
MCUser == {m1, m2, a1, b1}
MCPortOf == [t \in MCUser |-> CASE t = a1 -> a [] t = b1 -> b [] OTHER -> master]
MCWriter == {m1, a1, b1}
MCReader == {a1}
MCTransferrer == {m2}
MCTested == {a}
MCTimeouts == [t \in MCUser |-> {"forever"}]

(* Nothing follows where the model stops: one state stands for all. *)
View == IF Running THEN vars ELSE <<>>
=============================================================================
