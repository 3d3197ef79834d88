------------------------------ MODULE Startup -------------------------------
(***************************************************************************)
(* The life of a program (elab/common/elab_export.c): the exported         *)
(* functions are initialised level by level, then polled, each with a      *)
(* period of its own, until a signal runs the exit functions from the      *)
(* highest level down and ends the process.                                *)
(*                                                                         *)
(* A signal's handler runs in whatever thread the signal meets.  In the    *)
(* thread that initialises and polls it interrupts it for good, in another *)
(* thread it runs beside it; a second signal, of another number, starts a  *)
(* second handler.  The 32 bit clock is a number modulo Wrap.              *)
(***************************************************************************)
EXTENDS Integers, Sequences, FiniteSets

CONSTANTS
  Table,      \* the entries of section elab_export, in link order
  Period,     \* period_ms of the entries of section expoll
  Wrap,       \* 2^32
  PollMax,    \* ELAB_POLL_PERIOD_MAX, 30 days
  MaxLate,    \* bound: how far a poll function may fall behind
  Cost,       \* bound: ticks in the initialisation, and then from the call of
              \* a poll function, or the start of a round, to the next call
  Handler     \* bound: the signals that may arrive, 1 .. n

Fn   == 1 .. Len(Table)
Poll == 1 .. Len(Period)
Word == 0 .. Wrap - 1

(* _get_init_export_table: the module itself enters a function of level 0. *)
export_level_max == CHOOSE n \in {Table[f].level : f \in Fn} : \A f \in Fn : Table[f].level <= n

ASSUME StartupAssumption ==
  /\ Table \in Seq([level : -1 .. 127, exit : BOOLEAN])
  /\ \E f \in Fn : Table[f].level = 0
  /\ Wrap \in Nat /\ PollMax \in Nat /\ MaxLate \in Nat /\ Cost \in Nat
  /\ Handler \subseteq Nat /\ IsFiniteSet(Handler)
  /\ Period \in Seq(1 .. PollMax) /\ Len(Period) > 0
  /\ PollMax < Wrap
  /\ MaxLate < PollMax /\ MaxLate < Wrap - PollMax

VARIABLES
  clock,      \* elab_time_ms
  timeout,    \* timeout_ms of each poll entry
  pc,         \* of the thread that initialises and polls
  walk,       \* where it is in the table while it initialises
  poll,       \* the poll entry it is at
  spent,      \* ticks of the last Cost
  handler,    \* of each signal: where it is in the table, and its thread
  ended,      \* exit(-1)
  inited,     \* history: the initialisation functions that have returned
  exited,     \* history: the exit functions that have returned
  owed        \* history: ticks until a poll function is due

pollVars == <<timeout, poll, spent, owed>>
lifeVars == <<walk, inited>>
exitVars == <<handler, exited, ended>>
vars == <<clock, pc, pollVars, lifeVars, exitVars>>

(* A position in the two nested loops over levels and entries.             *)
Position(level) == [level |-> level, f |-> 1, in |-> FALSE]

Calls(w, exit) == Table[w.f].level = w.level /\ Table[w.f].exit = exit

Advance(w, up) ==
  IF w.f < Len(Table) THEN [w EXCEPT !.f = @ + 1, !.in = FALSE]
  ELSE [w EXCEPT !.level = @ + up, !.f = 1, !.in = FALSE]

-----------------------------------------------------------------------------
(* elab_run has read both tables (_get_poll_export_table) and made the     *)
(* thread.                                                                 *)
Init ==
  /\ clock \in Word
  /\ timeout = [p \in Poll |-> (clock + Period[p]) % Wrap]
  /\ pc = "init"
  /\ walk = Position(0)
  /\ poll = 1 /\ spent = 0
  /\ handler = [h \in Handler |-> [thread |-> "none"]]
  /\ ended = FALSE
  /\ inited = {} /\ exited = {}
  /\ owed = Period

(* The thread runs unless a handler has interrupted it. *)
Runs == ~ended /\ \A h \in Handler : handler[h].thread # "poll"

InitStep ==
  /\ Runs /\ pc = "init" /\ walk.level <= export_level_max
  /\ \/ /\ ~walk.in /\ Calls(walk, FALSE)
        /\ walk' = [walk EXCEPT !.in = TRUE]
        /\ UNCHANGED inited
     \/ /\ ~walk.in /\ ~Calls(walk, FALSE)
        /\ walk' = Advance(walk, 1)
        /\ UNCHANGED inited
     \/ /\ walk.in
        /\ inited' = inited \cup {walk.f}
        /\ walk' = Advance(walk, 1)
  /\ UNCHANGED <<clock, pc, pollVars, exitVars>>

InitDone ==
  /\ Runs /\ pc = "init" /\ walk.level > export_level_max
  /\ pc' = "poll" /\ spent' = 0
  /\ UNCHANGED <<clock, timeout, poll, owed, lifeVars, exitVars>>

(* Mutant: a function that is due at this very tick has to wait. *)
DueLater(p) ==
  \/ clock > timeout[p] /\ clock - timeout[p] < PollMax
  \/ clock < timeout[p] /\ timeout[p] - clock > PollMax

Due(p) ==
  \/ clock >= timeout[p] /\ clock - timeout[p] < PollMax
  \/ clock < timeout[p] /\ timeout[p] - clock > PollMax

(* Mutant: the next timeout is not set. *)
CallAgain ==
  /\ Runs /\ pc = "poll" /\ poll \in Poll /\ Due(poll)
  /\ UNCHANGED <<timeout, owed>>
  /\ pc' = "func" /\ spent' = 0
  /\ UNCHANGED <<clock, poll, lifeVars, exitVars>>

Call ==
  /\ Runs /\ pc = "poll" /\ poll \in Poll /\ Due(poll)
  /\ timeout' = [timeout EXCEPT ![poll] = (@ + Period[poll]) % Wrap]
  /\ owed' = [owed EXCEPT ![poll] = @ + Period[poll]]
  /\ pc' = "func" /\ spent' = 0
  /\ UNCHANGED <<clock, poll, lifeVars, exitVars>>

Return ==
  /\ Runs /\ pc = "func"
  /\ pc' = "poll"
  /\ UNCHANGED <<clock, pollVars, lifeVars, exitVars>>

Pass ==
  /\ Runs /\ pc = "poll" /\ poll \in Poll /\ ~Due(poll)
  /\ poll' = poll + 1
  /\ UNCHANGED <<clock, pc, timeout, spent, owed, lifeVars, exitVars>>

(* osDelay at the end of a round *)
Sleep ==
  /\ Runs /\ pc = "poll" /\ poll \notin Poll
  /\ pc' = "delay"
  /\ UNCHANGED <<clock, pollVars, lifeVars, exitVars>>

Wake ==
  /\ Runs /\ pc = "delay"
  /\ pc' = "poll"
  /\ poll' = 1 /\ spent' = 0
  /\ UNCHANGED <<clock, timeout, owed, lifeVars, exitVars>>

Tick ==
  /\ Runs
  /\ spent < Cost /\ \A p \in Poll : owed[p] > -MaxLate
  /\ spent' = spent + 1
  /\ clock' = (clock + 1) % Wrap
  /\ owed' = [p \in Poll |-> owed[p] - 1]
  /\ UNCHANGED <<pc, timeout, poll, lifeVars, exitVars>>

-----------------------------------------------------------------------------
(* signal_handler and elab_exit *)
Signal(h, th) ==
  /\ ~ended
  /\ handler[h].thread = "none"
  /\ \A g \in Handler : g < h => handler[g].thread # "none"
  /\ handler' = [handler EXCEPT ![h] = [thread |-> th, walk |-> Position(export_level_max)]]
  /\ UNCHANGED <<clock, pc, pollVars, lifeVars, exited, ended>>

(* The last handler of a thread runs, those before it are interrupted. *)
RunsHandler(h) ==
  /\ ~ended /\ handler[h].thread # "none"
  /\ \A g \in Handler : g > h => handler[g].thread # handler[h].thread

MoveTo(h, w) == handler' = [handler EXCEPT ![h].walk = w]

ExitStep(h) ==
  /\ RunsHandler(h) /\ handler[h].walk.level >= 0
  /\ LET w == handler[h].walk IN
       \/ ~w.in /\ Calls(w, TRUE) /\ MoveTo(h, [w EXCEPT !.in = TRUE]) /\ UNCHANGED exited
       \/ ~w.in /\ ~Calls(w, TRUE) /\ MoveTo(h, Advance(w, -1)) /\ UNCHANGED exited
       \/ w.in /\ MoveTo(h, Advance(w, -1)) /\ exited' = exited \cup {w.f}
  /\ UNCHANGED <<clock, pc, pollVars, lifeVars, ended>>

(* Mutant: level 0 is left out. *)
EndEarly(h) ==
  /\ RunsHandler(h) /\ handler[h].walk.level <= 0
  /\ ended' = TRUE
  /\ UNCHANGED <<clock, pc, pollVars, lifeVars, handler, exited>>

End(h) ==
  /\ RunsHandler(h) /\ handler[h].walk.level < 0
  /\ ended' = TRUE
  /\ UNCHANGED <<clock, pc, pollVars, lifeVars, handler, exited>>

PollThread == InitStep \/ InitDone \/ Call \/ Return \/ Pass \/ Sleep \/ Wake

Next ==
  \/ PollThread \/ Tick
  \/ \E h \in Handler : ExitStep(h) \/ End(h) \/ \E th \in {"poll", "other"} : Signal(h, th)

Spec == Init /\ [][Next]_vars

(* Time passes, functions return, a handler that is not interrupted runs.  *)
FairSpec ==
  /\ Spec /\ WF_vars(Tick) /\ WF_vars(PollThread)
  /\ \A h \in Handler : WF_vars(ExitStep(h) \/ End(h))
-----------------------------------------------------------------------------
Walk == [level : -1 .. export_level_max + 1, f : Fn, in : BOOLEAN]

TypeOK ==
  /\ clock \in Word
  /\ timeout \in [Poll -> Word]
  /\ pc \in {"init", "poll", "func", "delay"}
  /\ walk \in Walk
  /\ poll \in 1 .. Len(Period) + 1
  /\ spent \in 0 .. Cost
  /\ handler \in [Handler -> {[thread |-> "none"]} \cup [thread : {"poll", "other"}, walk : Walk]]
  /\ ended \in BOOLEAN
  /\ inited \subseteq Fn /\ exited \subseteq Fn
  /\ owed \in [Poll -> Int]

(* A period that fits between the two halves of the wrap test.             *)
Short(p) == Period[p] <= Wrap - PollMax

(* A poll function is called when its period has passed and not before,    *)
(* and no round passes one over that is due, across the wrap of the clock  *)
(* and behind any delay: every period that was missed is made up for.      *)
PollsOnTime ==
  [][ (\A p \in Poll : Short(p)) =>
        /\ pc = "poll" /\ pc' = "func" => owed[poll] <= 0
        /\ poll' = poll + 1 => owed[poll] > 0 ]_vars

Of(exit) == {f \in Fn : Table[f].exit = exit /\ Table[f].level >= 0}

Above(level) == {f \in Fn : Table[f].level > level}

(* An initialisation function runs when those of the lower levels have     *)
(* returned, an exit function when those of the higher levels have, in     *)
(* every handler; nothing is polled before the initialisation is complete; *)
(* and the process does not end, however many signals there are, before    *)
(* all exit functions have returned.                                       *)
LevelsInOrder ==
  /\ walk.in => Of(FALSE) \subseteq inited \cup Above(walk.level - 1)
  /\ pc # "init" => Of(FALSE) \subseteq inited
  /\ \A h \in Handler : handler[h].thread # "none" /\ handler[h].walk.in =>
       Of(TRUE) \cap Above(handler[h].walk.level) \subseteq exited
  /\ ended => Of(TRUE) \subseteq exited

(* Every poll function is called again and again, also those behind one    *)
(* that has a lot to make up for, until the thread is interrupted.         *)
PollsGoRound == \A p \in Poll : []<>(pc = "func" /\ poll = p) \/ <>~Runs
=============================================================================
