----------------------------- MODULE MCStartup ------------------------------
(***************************************************************************)
(* A program from start to exit, and the table of names in which its       *)
(* devices are found.  They share no variable, so a behaviour moves one of *)
(* them only (side): their state spaces add up instead of multiplying.     *)
(*                                                                         *)
(* The program has two levels with an initialisation and an exit function  *)
(* each, out of order in the table, and two poll functions.  Of the four   *)
(* names three begin at the last of three cells, where two may be stored.  *)
(***************************************************************************)
EXTENDS Startup, HashTable, TLC

CONSTANTS a, b, c, d

VARIABLE side

MCTable == <<[level |-> 1, exit |-> FALSE], [level |-> 0, exit |-> TRUE],
             [level |-> 0, exit |-> FALSE], [level |-> 1, exit |-> TRUE]>>

MCPeriod == <<2, 4>>

MCKey  == {a, b, c, d}
MCHash == a :> 2 @@ b :> 5 @@ c :> 8 @@ d :> 0

MCInit ==
  /\ side \in {"program", "names"}
  /\ HashInit
  /\ Init /\ (side = "names" => clock = 0)

MCNext ==
  /\ \/ side = "program" /\ Next /\ UNCHANGED hashVars
     \/ side = "names" /\ HashNext /\ UNCHANGED vars
  /\ UNCHANGED side

MCSpec ==
  /\ MCInit /\ [][MCNext]_<<side, vars, hashVars>>
  /\ WF_vars(side = "program" /\ Tick)
  /\ WF_vars(side = "program" /\ PollThread)
  /\ \A h \in Handler : WF_vars(side = "program" /\ (ExitStep(h) \/ End(h)))

(* Every poll function of the program is called again and again, also one  *)
(* behind a function that has many periods to make up for (the loop of     *)
(* _poll_func_execute ends), until a signal's handler interrupts the       *)
(* thread for good.                                                        *)
PollsEndlessly == side = "program" => PollsGoRound

(* Nobody looks at the clock any more when the thread is interrupted.      *)
View == <<side, hashVars, pc, walk, handler, ended, inited, exited,
          IF Runs THEN <<clock, pollVars>> ELSE <<>>>>
=============================================================================
