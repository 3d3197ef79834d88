---------------------------- MODULE MCSerialPair ----------------------------
(***************************************************************************)
(* A half duplex master and its only slave, both with a thread that reads  *)
(* all the time: one thread of the master sends and waits for the answer,  *)
(* one thread of the slave sends.                                          *)
(***************************************************************************)
EXTENDS Serial

CONSTANTS master, slave, m, mr, s, sr

MCPort == {master, slave}
MCTargets == [p \in MCPort |-> IF p = master THEN <<slave>> ELSE <<master>>]
MCHalfDuplex == {master}
MCUser == {m, mr, s, sr}
MCPortOf == [t \in MCUser |-> IF t \in {m, mr} THEN master ELSE slave]
MCWriter == {s}
MCReader == {mr, sr}
MCTransferrer == {m}
MCTimeouts == [t \in MCUser |-> IF t = m THEN {"timed"} ELSE {"forever"}]

(* The property of this run does not mention what was read, and nothing    *)
(* follows where the model stops: one state stands for all of those.       *)
View == IF Running THEN <<txVars, bus, rxVars, test, at>> ELSE <<>>
=============================================================================
