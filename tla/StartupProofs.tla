--------------------------- MODULE StartupProofs ----------------------------
(***************************************************************************)
(* A program from start to exit, for every table, every set of periods,    *)
(* every word width and any number of signals; and the table of names its  *)
(* devices are found in, for every capacity, every bound on the probes,    *)
(* every hash function and every number of readers.                        *)
(***************************************************************************)
EXTENDS Startup, HashTable, WellFoundedInduction, SequenceTheorems, TLAPS

LEMMA LeastNat ==
  ASSUME NEW S \in SUBSET Nat, S # {}
  PROVE  \E g \in S : \A h \in S : g <= h
<1> DEFINE R == {ss \in Nat \X Nat : ss[1] < ss[2]}
<1>1. IsWellFoundedOn(R, Nat)
  BY NatLessThanWellFounded, Zenon DEF OpToRel
<1>2. PICK g \in S : \A h \in S : ~(<<h, g>> \in R)
  <2> HIDE DEF R
  <2> QED BY <1>1, WFMin
<1>3. ASSUME NEW h \in S PROVE g <= h
  <2>1. ~(<<h, g>> \in R)
    BY <1>2
  <2> QED BY <2>1
<1> QED BY <1>3

-----------------------------------------------------------------------------
(***************************************************************************)
(* Levels come in their order and poll functions on time.                  *)
(*                                                                         *)
(* The argument: behind its place in the table every walk leaves finished  *)
(* functions only, whoever interrupts it; and a timeout differs from the   *)
(* clock and the ticks that are owed by a whole number of epochs, of which *)
(* the two comparisons tell the one that counts.                           *)
(***************************************************************************)

LEMMA Bounds ==
  /\ Wrap \in Nat /\ PollMax \in Nat /\ MaxLate \in Nat /\ Cost \in Nat
  /\ 0 < Wrap /\ PollMax < Wrap /\ MaxLate < PollMax /\ MaxLate < Wrap - PollMax
BY StartupAssumption

LEMMA TableType ==
  /\ Len(Table) \in Nat /\ Fn = 1 .. Len(Table)
  /\ \A f \in Fn : Table[f].level \in -1 .. 127 /\ Table[f].exit \in BOOLEAN
<1> DEFINE Entry == [level : -1 .. 127, exit : BOOLEAN]
<1>1. Table \in Seq(Entry)
  BY StartupAssumption
<1>2. Len(Table) \in Nat /\ Table \in [1 .. Len(Table) -> Entry]
  <2> HIDE DEF Entry
  <2> QED BY <1>1, LenProperties
<1>3. \A f \in Fn : Table[f] \in Entry
  <2> HIDE DEF Entry
  <2> QED BY <1>2 DEF Fn
<1> QED BY <1>2, <1>3 DEF Fn

LEMMA PeriodType ==
  /\ Len(Period) \in Nat \ {0} /\ Poll = 1 .. Len(Period)
  /\ Period \in [Poll -> 1 .. PollMax]
  /\ \A p \in Poll : Period[p] \in Word /\ Period[p] > 0 /\ Period[p] <= PollMax
<1> DEFINE Length == 1 .. PollMax
<1>1. Period \in Seq(Length)
  BY StartupAssumption
<1>2. Len(Period) \in Nat /\ Period \in [1 .. Len(Period) -> Length]
  <2> HIDE DEF Length
  <2> QED BY <1>1, LenProperties
<1>3. \A p \in Poll : Period[p] \in 1 .. PollMax
  BY <1>2 DEF Poll
<1> QED BY <1>2, <1>3, StartupAssumption DEF Poll, Word

(* A sum of two words overflows once at most. *)
LEMMA SumOfWords ==
  ASSUME NEW x \in Word, NEW y \in Word
  PROVE  /\ (x + y) % Wrap \in Word
         /\ (x + y) % Wrap = x + y \/ (x + y) % Wrap = x + y - Wrap
<1>1. Wrap \in Nat \ {0} /\ x \in Int /\ y \in Int /\ x >= 0 /\ y >= 0 /\ x < Wrap /\ y < Wrap
  BY StartupAssumption DEF Word
<1>2. CASE x + y < Wrap
  BY <1>1, <1>2 DEF Word
<1>3. CASE x + y >= Wrap
  BY <1>1, <1>3 DEF Word
<1> QED BY <1>1, <1>2, <1>3

(* The highest level there is. *)
LEMMA LevelMax ==
  /\ export_level_max \in 0 .. 127
  /\ \A f \in Fn : Table[f].level <= export_level_max
<1> DEFINE L == {Table[f].level : f \in Fn}
           D == {127 - l : l \in L}
<1>1. L \subseteq -1 .. 127 /\ 0 \in L
  BY TableType, StartupAssumption
<1>2. D \in SUBSET Nat /\ D # {}
  BY <1>1
<1>3. PICK d \in D : \A e \in D : d <= e
  <2> HIDE DEF D
  <2> QED BY <1>2, LeastNat
<1>4. PICK m \in L : d = 127 - m
  BY <1>3
<1>5. \A l \in L : l <= m
  <2> SUFFICES ASSUME NEW l \in L PROVE l <= m
    OBVIOUS
  <2>1. 127 - m <= 127 - l
    BY <1>3, <1>4
  <2> HIDE DEF L
  <2> QED BY <1>1, <2>1
<1>6. \A f \in Fn : Table[f].level <= m
  BY <1>5
<1>7. export_level_max \in L /\ \A f \in Fn : Table[f].level <= export_level_max
  BY <1>6 DEF export_level_max
<1>8. export_level_max >= 0
  BY <1>1, <1>7
<1>9. export_level_max \in -1 .. 127
  BY <1>1, <1>7
<1> QED BY <1>7, <1>8, <1>9

LEMMA FnType ==
  /\ export_level_max \in Int /\ export_level_max >= 0
  /\ \A f \in Fn : /\ f \in Int /\ f >= 1 /\ f <= Len(Table)
                   /\ Table[f].level \in Int /\ Table[f].level <= export_level_max
  /\ Len(Table) \in Nat /\ 1 \in Fn
  /\ \A f \in Fn : f < Len(Table) => f + 1 \in Fn
<1>1. export_level_max \in Int /\ export_level_max >= 0
  BY LevelMax
<1>2. Len(Table) \in Nat /\ Fn = 1 .. Len(Table)
  BY TableType
<1>3. ASSUME NEW f \in Fn
      PROVE  Table[f].level \in Int /\ Table[f].level <= export_level_max
  <2>1. Table[f].level \in -1 .. 127
    BY TableType
  <2> QED BY <2>1, LevelMax
<1>4. 1 \in Fn
  BY <1>2, StartupAssumption
<1> QED BY <1>1, <1>2, <1>3, <1>4

-----------------------------------------------------------------------------
(* The functions that a walk up, or down, has left behind. *)
Below(w)  == {f \in Fn : Table[f].level < w.level \/ (Table[f].level = w.level /\ f < w.f)}
Beyond(w) == {f \in Fn : Table[f].level > w.level \/ (Table[f].level = w.level /\ f < w.f)}

OrderInv ==
  /\ walk.in => walk.level <= export_level_max
  /\ pc = "init" => Of(FALSE) \cap Below(walk) \subseteq inited
  /\ pc # "init" => Of(FALSE) \subseteq inited /\ ~walk.in
  /\ \A h \in Handler : handler[h].thread # "none" =>
       Of(TRUE) \cap Beyond(handler[h].walk) \subseteq exited
  /\ ended => Of(TRUE) \subseteq exited

(* The epochs between a timeout and the clock with what is owed. *)
OwedInv == \A p \in Poll : Short(p) =>
  /\ -MaxLate <= owed[p] /\ owed[p] <= Period[p]
  /\ timeout[p] - clock - owed[p] \in {-Wrap, 0, Wrap}

StartupInv == TypeOK /\ OrderInv /\ OwedInv

LEMMA StartupInitInv == Init => StartupInv
<1> SUFFICES ASSUME Init PROVE StartupInv
  OBVIOUS
<1>1. Position(0) \in Walk /\ 1 \in Fn
  BY TableType, LevelMax, StartupAssumption DEF Position, Walk
<1>3. ASSUME NEW p \in Poll
      PROVE  /\ timeout[p] \in Word
             /\ timeout[p] - clock - owed[p] \in {-Wrap, 0, Wrap}
  <2> DEFINE sum == (clock + Period[p]) % Wrap
  <2>1. clock \in Word /\ Period[p] \in Word
    BY PeriodType DEF Init
  <2>2. sum \in Word /\ (sum = clock + Period[p] \/ sum = clock + Period[p] - Wrap)
    BY <2>1, SumOfWords
  <2>3. timeout[p] = sum /\ owed[p] = Period[p]
    BY DEF Init
  <2> HIDE DEF sum
  <2>4. sum - clock - Period[p] \in {-Wrap, 0, Wrap}
    BY <2>1, <2>2, Bounds DEF Word
  <2> QED BY <2>2, <2>3, <2>4
<1>4. TypeOK
  <2>1. 1 \in 1 .. Len(Period) + 1 /\ 0 \in 0 .. Cost /\ owed \in [Poll -> Int]
    BY PeriodType, StartupAssumption DEF Init
  <2>2. timeout \in [Poll -> Word]
    BY <1>3 DEF Init
  <2> QED BY <1>1, <2>1, <2>2 DEF Init, TypeOK
<1>5. OrderInv
  <2>1. Of(FALSE) \cap Below(walk) = {}
    <3>1. walk.level = 0 /\ walk.f = 1
      BY DEF Init, Position
    <3>2. \A f \in Fn : f \in Int /\ f >= 1 /\ Table[f].level \in Int
      BY FnType
    <3> QED BY <3>1, <3>2 DEF Below, Of
  <2> QED BY <2>1 DEF Init, Position, OrderInv
<1>6. OwedInv
  BY <1>3, PeriodType, Bounds DEF Init, OwedInv
<1> QED BY <1>4, <1>5, <1>6 DEF StartupInv

LEMMA Place ==
  ASSUME NEW level \in -1 .. export_level_max + 1, NEW f \in Fn, NEW in \in BOOLEAN
  PROVE  [level |-> level, f |-> f, in |-> in] \in Walk
BY DEF Walk

(* What a step up, or down, adds to what a walk has left behind. *)
LEMMA StepUp ==
  ASSUME NEW w \in Walk, w.level <= export_level_max
  PROVE  /\ Advance(w, 1) \in Walk /\ ~Advance(w, 1).in
         /\ \A f \in Below(Advance(w, 1)) :
              f \in Below(w) \/ (f = w.f /\ Table[f].level = w.level)
<1>1. w.level \in -1 .. export_level_max /\ w.f \in Fn /\ 1 \in Fn
  BY FnType DEF Walk
<1>2. Advance(w, 1) \in Walk /\ ~Advance(w, 1).in
  <2>1. CASE w.f < Len(Table)
    <3>1. Advance(w, 1) = [level |-> w.level, f |-> w.f + 1, in |-> FALSE]
      BY <2>1 DEF Advance, Walk
    <3>2. w.level \in -1 .. export_level_max + 1 /\ w.f + 1 \in Fn
      BY <1>1, <2>1, FnType
    <3>3. Advance(w, 1) \in Walk
      BY <3>1, <3>2, Place
    <3>4. Advance(w, 1).in = FALSE
      BY <3>1
    <3> QED BY <3>3, <3>4
  <2>2. CASE ~(w.f < Len(Table))
    <3>1. Advance(w, 1) = [level |-> w.level + 1, f |-> 1, in |-> FALSE]
      BY <1>1, <2>2, FnType DEF Advance, Walk
    <3>2. w.level + 1 \in -1 .. export_level_max + 1
      BY <1>1, FnType
    <3>3. Advance(w, 1) \in Walk
      BY <1>1, <3>1, <3>2, Place
    <3>4. Advance(w, 1).in = FALSE
      BY <3>1
    <3> QED BY <3>3, <3>4
  <2> QED BY <2>1, <2>2
<1>3. ASSUME NEW f \in Below(Advance(w, 1))
      PROVE  f \in Below(w) \/ (f = w.f /\ Table[f].level = w.level)
  <2>1. f \in Fn /\ Table[f].level \in Int /\ f \in Int /\ w.f \in Int /\ w.level \in Int
        /\ f >= 1 /\ f <= Len(Table) /\ w.f <= Len(Table)
    <3>1. f \in Fn
      BY DEF Below
    <3> QED BY <1>1, <3>1, FnType
  <2>2. CASE w.f < Len(Table)
    <3>1. Advance(w, 1).level = w.level /\ Advance(w, 1).f = w.f + 1
      BY <2>2 DEF Advance, Walk
    <3> QED BY <2>1, <3>1 DEF Below
  <2>3. CASE ~(w.f < Len(Table))
    <3>1. Advance(w, 1).level = w.level + 1 /\ Advance(w, 1).f = 1
      BY <2>3 DEF Advance, Walk
    <3> QED BY <2>1, <2>3, <3>1, FnType DEF Below
  <2> QED BY <2>2, <2>3
<1> QED BY <1>2, <1>3

LEMMA StepDown ==
  ASSUME NEW w \in Walk, w.level >= 0
  PROVE  /\ Advance(w, -1) \in Walk /\ ~Advance(w, -1).in
         /\ \A f \in Beyond(Advance(w, -1)) :
              f \in Beyond(w) \/ (f = w.f /\ Table[f].level = w.level)
<1>1. w.level \in 0 .. export_level_max + 1 /\ w.f \in Fn /\ 1 \in Fn
  BY FnType DEF Walk
<1>2. Advance(w, -1) \in Walk /\ ~Advance(w, -1).in
  <2>1. CASE w.f < Len(Table)
    <3>1. Advance(w, -1) = [level |-> w.level, f |-> w.f + 1, in |-> FALSE]
      BY <2>1 DEF Advance, Walk
    <3>2. w.level \in -1 .. export_level_max + 1 /\ w.f + 1 \in Fn
      BY <1>1, <2>1, FnType
    <3>3. Advance(w, -1) \in Walk
      BY <3>1, <3>2, Place
    <3>4. Advance(w, -1).in = FALSE
      BY <3>1
    <3> QED BY <3>3, <3>4
  <2>2. CASE ~(w.f < Len(Table))
    <3>1. Advance(w, -1) = [level |-> w.level - 1, f |-> 1, in |-> FALSE]
      BY <1>1, <2>2, FnType DEF Advance, Walk
    <3>2. w.level - 1 \in -1 .. export_level_max + 1
      BY <1>1, FnType
    <3>3. Advance(w, -1) \in Walk
      BY <1>1, <3>1, <3>2, Place
    <3>4. Advance(w, -1).in = FALSE
      BY <3>1
    <3> QED BY <3>3, <3>4
  <2> QED BY <2>1, <2>2
<1>3. ASSUME NEW f \in Beyond(Advance(w, -1))
      PROVE  f \in Beyond(w) \/ (f = w.f /\ Table[f].level = w.level)
  <2>1. f \in Fn /\ Table[f].level \in Int /\ f \in Int /\ w.f \in Int /\ w.level \in Int
        /\ f >= 1 /\ f <= Len(Table) /\ w.f <= Len(Table)
    <3>1. f \in Fn
      BY DEF Beyond
    <3> QED BY <1>1, <3>1, FnType
  <2>2. CASE w.f < Len(Table)
    <3>1. Advance(w, -1).level = w.level /\ Advance(w, -1).f = w.f + 1
      BY <2>2 DEF Advance, Walk
    <3> QED BY <2>1, <3>1 DEF Beyond
  <2>3. CASE ~(w.f < Len(Table))
    <3>1. Advance(w, -1).level = w.level - 1 /\ Advance(w, -1).f = 1
      BY <2>1, <2>3 DEF Advance, Walk
    <3> QED BY <2>1, <2>3, <3>1, FnType DEF Beyond
  <2> QED BY <2>2, <2>3
<1> QED BY <1>2, <1>3

(* The two comparisons tell the epoch that counts. *)
LEMMA DueIsOwed ==
  ASSUME StartupInv, NEW p \in Poll, Short(p)
  PROVE  Due(p) <=> owed[p] <= 0
<1>1. /\ timeout[p] \in Int /\ clock \in Int /\ owed[p] \in Int /\ Period[p] \in Int
      /\ 0 <= timeout[p] /\ timeout[p] < Wrap /\ 0 <= clock /\ clock < Wrap
  BY PeriodType, Bounds DEF StartupInv, TypeOK, Word
<1>2. /\ -MaxLate <= owed[p] /\ owed[p] <= Period[p]
      /\ timeout[p] - clock - owed[p] \in {-Wrap, 0, Wrap}
      /\ Period[p] <= PollMax /\ Period[p] <= Wrap - PollMax
  BY PeriodType DEF StartupInv, OwedInv, Short
<1>3. CASE timeout[p] - clock = owed[p]
  BY <1>1, <1>2, <1>3, Bounds DEF Due
<1>4. CASE timeout[p] - clock = owed[p] + Wrap
  BY <1>1, <1>2, <1>4, Bounds DEF Due
<1>5. CASE timeout[p] - clock = owed[p] - Wrap
  BY <1>1, <1>2, <1>5, Bounds DEF Due
<1> QED BY <1>1, <1>2, <1>3, <1>4, <1>5, Bounds

-----------------------------------------------------------------------------
LEMMA InitStepInv == ASSUME StartupInv, InitStep PROVE StartupInv'
<1>1. /\ walk \in Walk /\ pc = "init" /\ walk.level <= export_level_max
      /\ UNCHANGED <<clock, pc, timeout, poll, spent, owed, handler, exited, ended>>
  BY DEF StartupInv, TypeOK, InitStep, pollVars, exitVars
<1>2. walk' \in Walk /\ (walk'.in => walk'.level <= export_level_max)
  <2>1. [walk EXCEPT !.in = TRUE] \in Walk /\ [walk EXCEPT !.in = TRUE].level = walk.level
    BY <1>1 DEF Walk
  <2> QED BY <1>1, <2>1, StepUp DEF InitStep
<1>3. inited' \subseteq Fn
  BY <1>1 DEF InitStep, StartupInv, TypeOK, Walk
<1>4. Of(FALSE) \cap Below(walk') \subseteq inited'
  <2>1. Of(FALSE) \cap Below(walk) \subseteq inited
    BY <1>1 DEF StartupInv, OrderInv
  <2>2. CASE walk' = [walk EXCEPT !.in = TRUE] /\ UNCHANGED inited
    <3>1. walk'.level = walk.level /\ walk'.f = walk.f
      BY <1>1, <2>2 DEF Walk
    <3> QED BY <2>1, <2>2, <3>1 DEF Below
  <2>3. CASE walk' = Advance(walk, 1) /\ ~Calls(walk, FALSE) /\ UNCHANGED inited
    BY <1>1, <2>1, <2>3, StepUp DEF Calls, Of
  <2>4. CASE walk' = Advance(walk, 1) /\ inited' = inited \cup {walk.f}
    BY <1>1, <2>1, <2>4, StepUp
  <2> QED BY <2>2, <2>3, <2>4 DEF InitStep
<1>5. TypeOK'
  BY <1>1, <1>2, <1>3 DEF StartupInv, TypeOK
<1>6. OrderInv'
  BY <1>1, <1>2, <1>4 DEF StartupInv, OrderInv
<1>7. OwedInv'
  BY <1>1 DEF StartupInv, OwedInv
<1> QED BY <1>5, <1>6, <1>7 DEF StartupInv

LEMMA InitDoneInv == ASSUME StartupInv, InitDone PROVE StartupInv'
<1>1. /\ walk \in Walk /\ pc = "init" /\ walk.level > export_level_max
      /\ pc' = "poll" /\ spent' = 0
      /\ UNCHANGED <<clock, timeout, poll, owed, walk, inited, handler, exited, ended>>
  BY DEF StartupInv, TypeOK, InitDone, lifeVars, exitVars
<1>2. TypeOK'
  BY <1>1, Bounds DEF StartupInv, TypeOK
<1>3. ~walk.in
  BY <1>1, LevelMax DEF StartupInv, OrderInv, Walk
<1>4. Of(FALSE) \subseteq Below(walk)
  <2>1. \A f \in Fn : Table[f].level < walk.level
    <3>1. walk.level \in Int
      BY <1>1, FnType DEF Walk
    <3> QED BY <1>1, <3>1, FnType
  <2> QED BY <2>1 DEF Of, Below
<1>5. OrderInv'
  BY <1>1, <1>3, <1>4 DEF StartupInv, OrderInv
<1>6. OwedInv'
  BY <1>1 DEF StartupInv, OwedInv
<1> QED BY <1>2, <1>5, <1>6 DEF StartupInv

LEMMA CallInv == ASSUME StartupInv, Call PROVE StartupInv'
<1>1. /\ poll \in Poll /\ Due(poll) /\ pc = "poll" /\ pc' = "func" /\ spent' = 0
      /\ timeout' = [timeout EXCEPT ![poll] = (@ + Period[poll]) % Wrap]
      /\ owed' = [owed EXCEPT ![poll] = @ + Period[poll]]
      /\ UNCHANGED <<clock, poll, walk, inited, handler, exited, ended>>
  BY DEF Call, lifeVars, exitVars
<1>2. /\ timeout[poll] \in Word /\ Period[poll] \in Word /\ owed[poll] \in Int
      /\ timeout \in [Poll -> Word] /\ owed \in [Poll -> Int] /\ clock \in Word
  BY <1>1, PeriodType DEF StartupInv, TypeOK
<1> DEFINE sum == (timeout[poll] + Period[poll]) % Wrap
<1>3. sum \in Word /\ (sum = timeout[poll] + Period[poll] \/ sum = timeout[poll] + Period[poll] - Wrap)
  BY <1>2, SumOfWords
<1>4. timeout'[poll] = sum /\ owed'[poll] = owed[poll] + Period[poll]
  BY <1>1, <1>2
<1>5. \A p \in Poll : p # poll => timeout'[p] = timeout[p] /\ owed'[p] = owed[p]
  BY <1>1, <1>2
<1>6. timeout' \in [Poll -> Word] /\ owed' \in [Poll -> Int]
  BY <1>1, <1>2, <1>3 DEF Word
<1>7. TypeOK'
  BY <1>1, <1>6, Bounds DEF StartupInv, TypeOK
<1>8. OrderInv'
  BY <1>1 DEF StartupInv, OrderInv
<1>9. OwedInv'
  <2> SUFFICES ASSUME NEW p \in Poll, Short(p)
               PROVE  /\ -MaxLate <= owed'[p] /\ owed'[p] <= Period[p]
                      /\ timeout'[p] - clock - owed'[p] \in {-Wrap, 0, Wrap}
    BY <1>1 DEF OwedInv, Short
  <2>1. /\ -MaxLate <= owed[p] /\ owed[p] <= Period[p]
        /\ timeout[p] - clock - owed[p] \in {-Wrap, 0, Wrap}
    BY DEF StartupInv, OwedInv
  <2>2. CASE p # poll
    BY <1>5, <2>1, <2>2
  <2>3. CASE p = poll
    <3>1. owed[poll] <= 0
      BY <1>1, <2>3, DueIsOwed
    <3> HIDE DEF sum
    <3>2. -MaxLate <= owed[poll] + Period[poll] /\ owed[poll] + Period[poll] <= Period[poll]
      BY <1>2, <2>1, <2>3, <3>1, Bounds DEF Word
    <3>3. sum - clock - (owed[poll] + Period[poll]) \in {-Wrap, 0, Wrap}
      BY <1>2, <1>3, <2>1, <2>3, <3>1, <3>2, Bounds DEF Word
    <3> QED BY <1>4, <2>3, <3>2, <3>3
  <2> QED BY <2>2, <2>3
<1> QED BY <1>7, <1>8, <1>9 DEF StartupInv

(* Return, Pass, Sleep and Wake change where the thread is. *)
LEMMA MoveInv ==
  ASSUME StartupInv, Return \/ Pass \/ Sleep \/ Wake
  PROVE  StartupInv'
<1>1. /\ pc # "init" /\ pc' \in {"poll", "func", "delay"} /\ spent' \in {spent, 0}
      /\ UNCHANGED <<clock, timeout, owed, walk, inited, handler, exited, ended>>
  BY DEF Return, Pass, Sleep, Wake, StartupInv, TypeOK, pollVars, lifeVars, exitVars
<1>2. poll' \in 1 .. Len(Period) + 1
  BY PeriodType DEF Return, Pass, Sleep, Wake, StartupInv, TypeOK, pollVars
<1>3. TypeOK'
  BY <1>1, <1>2, Bounds DEF StartupInv, TypeOK
<1>4. OrderInv'
  BY <1>1 DEF StartupInv, OrderInv
<1>5. OwedInv'
  BY <1>1 DEF StartupInv, OwedInv
<1> QED BY <1>3, <1>4, <1>5 DEF StartupInv

LEMMA TickInv == ASSUME StartupInv, Tick PROVE StartupInv'
<1>1. /\ spent' = spent + 1 /\ spent < Cost /\ \A p \in Poll : owed[p] > -MaxLate
      /\ clock' = (clock + 1) % Wrap /\ owed' = [p \in Poll |-> owed[p] - 1]
      /\ UNCHANGED <<pc, timeout, poll, walk, inited, handler, exited, ended>>
  BY DEF Tick, lifeVars, exitVars
<1>2. clock \in Word /\ clock' \in Word /\ (clock' = clock + 1 \/ clock' = clock + 1 - Wrap)
  <2>1. clock \in Int /\ 0 <= clock /\ clock <= Wrap - 1 /\ clock \in Word
    BY Bounds DEF StartupInv, TypeOK, Word
  <2>2. CASE clock = Wrap - 1
    <3>1. clock + 1 = Wrap /\ Wrap % Wrap = 0
      BY <2>1, <2>2, Bounds
    <3> QED BY <1>1, <2>1, <2>2, <3>1, Bounds DEF Word
  <2>3. CASE clock < Wrap - 1
    <3>1. (clock + 1) % Wrap = clock + 1
      BY <2>1, <2>3, Bounds
    <3> QED BY <1>1, <2>1, <2>3, <3>1, Bounds DEF Word
  <2> QED BY <2>1, <2>2, <2>3, Bounds
<1>3. /\ owed \in [Poll -> Int] /\ owed' \in [Poll -> Int]
      /\ \A p \in Poll : owed'[p] = owed[p] - 1 /\ timeout[p] \in Word
  BY <1>1 DEF StartupInv, TypeOK
<1>4. spent' \in 0 .. Cost
  BY <1>1, Bounds DEF StartupInv, TypeOK
<1>5. TypeOK'
  BY <1>1, <1>2, <1>3, <1>4 DEF StartupInv, TypeOK
<1>6. OrderInv'
  BY <1>1 DEF StartupInv, OrderInv
<1>7. OwedInv'
  <2> SUFFICES ASSUME NEW p \in Poll, Short(p)
               PROVE  /\ -MaxLate <= owed'[p] /\ owed'[p] <= Period[p]
                      /\ timeout[p] - clock' - owed'[p] \in {-Wrap, 0, Wrap}
    BY <1>1 DEF OwedInv, Short
  <2>1. /\ -MaxLate <= owed[p] /\ owed[p] <= Period[p]
        /\ timeout[p] - clock - owed[p] \in {-Wrap, 0, Wrap}
    BY DEF StartupInv, OwedInv
  <2>2. Period[p] \in Int /\ owed[p] \in Int /\ owed[p] > -MaxLate /\ Period[p] < Wrap
    BY <1>1, <1>3, PeriodType, Bounds DEF Word
  <2>3. -MaxLate <= owed[p] - 1 /\ owed[p] - 1 <= Period[p]
    BY <2>1, <2>2, Bounds
  <2>4. timeout[p] - clock' - (owed[p] - 1) \in {-Wrap, 0, Wrap}
    <3> DEFINE d == timeout[p] - clock - owed[p]
    <3>1. timeout[p] \in Int /\ 0 <= timeout[p] /\ timeout[p] < Wrap
          /\ clock \in Int /\ clock' \in Int /\ 0 <= clock'
      BY <1>2, <1>3, Bounds DEF Word
    <3>2. CASE clock' = clock + 1
      BY <2>1, <2>2, <3>1, <3>2
    <3>3. CASE clock' = clock + 1 - Wrap
      <4>1. timeout[p] - clock' - (owed[p] - 1) = d + Wrap
        BY <2>2, <3>1, <3>3, Bounds
      <4>2. d \in {-Wrap, 0, Wrap} /\ d + Wrap < Wrap + Wrap
        <5>1. d \in {-Wrap, 0, Wrap}
          BY <2>1
        <5>2. timeout[p] - clock' - (owed[p] - 1) < Wrap + Wrap
          BY <2>2, <3>1, Bounds
        <5> HIDE DEF d
        <5> QED BY <4>1, <5>1, <5>2
      <4> HIDE DEF d
      <4>3. d + Wrap \in {0, Wrap}
        BY <4>2, Bounds
      <4> QED BY <4>1, <4>3
    <3> QED BY <1>2, <3>2, <3>3
  <2> QED BY <1>3, <2>3, <2>4
<1> QED BY <1>5, <1>6, <1>7 DEF StartupInv

(* What is known of a handler, and of a step of one handler. *)
Installed == [thread : {"poll", "other"}, walk : Walk]

LEMMA HandlerType ==
  ASSUME StartupInv
  PROVE  /\ handler \in [Handler -> {[thread |-> "none"]} \cup Installed]
         /\ \A h \in Handler : handler[h].thread # "none" => handler[h] \in Installed
         /\ \A r \in Installed : r.thread # "none" /\ r.walk \in Walk
<1>1. handler \in [Handler -> {[thread |-> "none"]} \cup Installed]
  BY DEF StartupInv, TypeOK, Installed
<1>2. ASSUME NEW h \in Handler, handler[h].thread # "none"
      PROVE  handler[h] \in Installed
  <2>1. handler[h] \in {[thread |-> "none"]} \cup Installed
    BY <1>1
  <2> QED BY <1>2, <2>1
<1>3. \A r \in Installed : r.thread # "none" /\ r.walk \in Walk
  BY DEF Installed
<1> QED BY <1>1, <1>2, <1>3

LEMMA HandlerInv ==
  ASSUME StartupInv, NEW h \in Handler, NEW r \in Installed,
         UNCHANGED <<clock, pc, timeout, poll, spent, owed, walk, inited, ended>>,
         ~ended, exited' \subseteq Fn, exited \subseteq exited',
         handler' = [handler EXCEPT ![h] = r],
         Of(TRUE) \cap Beyond(r.walk) \subseteq exited'
  PROVE  StartupInv'
<1>1. handler' \in [Handler -> {[thread |-> "none"]} \cup Installed]
  BY HandlerType
<1>2. TypeOK'
  BY <1>1 DEF StartupInv, TypeOK, Installed
<1>3. ASSUME NEW g \in Handler, handler'[g].thread # "none"
      PROVE  Of(TRUE) \cap Beyond(handler'[g].walk) \subseteq exited'
  <2>1. CASE g = h
    <3>1. handler'[g] = r
      BY <2>1, HandlerType
    <3> QED BY <3>1
  <2>2. CASE g # h
    <3>1. handler'[g] = handler[g]
      BY <2>2, HandlerType
    <3>2. Of(TRUE) \cap Beyond(handler[g].walk) \subseteq exited
      BY <1>3, <3>1 DEF StartupInv, OrderInv
    <3> QED BY <3>1, <3>2
  <2> QED BY <2>1, <2>2
<1>4. OrderInv'
  BY <1>3 DEF StartupInv, OrderInv
<1>5. OwedInv'
  BY DEF StartupInv, OwedInv
<1> QED BY <1>2, <1>4, <1>5 DEF StartupInv

LEMMA SignalInv ==
  ASSUME StartupInv, NEW h \in Handler, NEW th \in {"poll", "other"}, Signal(h, th)
  PROVE  StartupInv'
<1> DEFINE r == [thread |-> th, walk |-> Position(export_level_max)]
<1>1. Position(export_level_max) \in Walk
  <2>1. export_level_max \in -1 .. export_level_max + 1
    BY FnType
  <2> QED BY <2>1, FnType, Place DEF Position
<1>2. r \in Installed
  BY <1>1 DEF Installed
<1>3. Beyond(r.walk) = {}
  <2>1. r.walk.level = export_level_max /\ r.walk.f = 1
    BY DEF Position
  <2> HIDE DEF r
  <2> QED BY <2>1, FnType DEF Beyond
<1>4. /\ UNCHANGED <<clock, pc, timeout, poll, spent, owed, walk, inited, ended, exited>>
      /\ ~ended /\ handler' = [handler EXCEPT ![h] = r]
  BY DEF Signal, pollVars, lifeVars
<1>5. exited' \subseteq Fn /\ exited \subseteq exited'
  BY <1>4 DEF StartupInv, TypeOK
<1> HIDE DEF r
<1> QED BY <1>2, <1>3, <1>4, <1>5, HandlerInv

LEMMA ExitStepInv ==
  ASSUME StartupInv, NEW h \in Handler, ExitStep(h)
  PROVE  StartupInv'
<1> DEFINE w == handler[h].walk
<1>1. /\ ~ended /\ handler[h].thread # "none" /\ w.level >= 0
      /\ UNCHANGED <<clock, pc, timeout, poll, spent, owed, walk, inited, ended>>
  BY DEF ExitStep, RunsHandler, pollVars, lifeVars
<1>2. handler[h] \in Installed /\ w \in Walk
  BY <1>1, HandlerType
<1>3. Of(TRUE) \cap Beyond(w) \subseteq exited /\ exited \subseteq Fn
  BY <1>1 DEF StartupInv, OrderInv, TypeOK
<1>4. PICK v \in Walk :
        /\ handler' = [handler EXCEPT ![h].walk = v]
        /\ exited' \subseteq Fn /\ exited \subseteq exited'
        /\ Of(TRUE) \cap Beyond(v) \subseteq exited'
  <2>1. CASE MoveTo(h, [w EXCEPT !.in = TRUE]) /\ UNCHANGED exited
    <3> DEFINE v == [w EXCEPT !.in = TRUE]
    <3>1. v \in Walk /\ v.level = w.level /\ v.f = w.f
      BY <1>2 DEF Walk
    <3>2. Beyond(v) = Beyond(w)
      BY <3>1 DEF Beyond
    <3> QED BY <1>3, <2>1, <3>1, <3>2 DEF MoveTo
  <2>2. CASE MoveTo(h, Advance(w, -1)) /\ ~Calls(w, TRUE) /\ UNCHANGED exited
    <3>1. Of(TRUE) \cap Beyond(Advance(w, -1)) \subseteq exited
      BY <1>1, <1>2, <1>3, <2>2, StepDown DEF Calls, Of
    <3> QED BY <1>1, <1>2, <1>3, <2>2, <3>1, StepDown DEF MoveTo
  <2>3. CASE MoveTo(h, Advance(w, -1)) /\ exited' = exited \cup {w.f}
    <3>1. Of(TRUE) \cap Beyond(Advance(w, -1)) \subseteq exited'
      BY <1>1, <1>2, <1>3, <2>3, StepDown
    <3>2. w.f \in Fn
      BY <1>2 DEF Walk
    <3> QED BY <1>1, <1>2, <1>3, <2>3, <3>1, <3>2, StepDown DEF MoveTo
  <2> QED BY <2>1, <2>2, <2>3 DEF ExitStep
<1> DEFINE r == [handler[h] EXCEPT !.walk = v]
<1>5. r \in Installed /\ r.walk = v
  BY <1>2 DEF Installed
<1>6. handler' = [handler EXCEPT ![h] = r]
  BY <1>4
<1> HIDE DEF r, w
<1> QED BY <1>1, <1>4, <1>5, <1>6, HandlerInv

LEMMA EndInv == ASSUME StartupInv, NEW h \in Handler, End(h) PROVE StartupInv'
<1>1. /\ handler[h].thread # "none" /\ handler[h].walk.level < 0 /\ ended'
      /\ UNCHANGED <<clock, pc, timeout, poll, spent, owed, walk, inited, handler, exited>>
  BY DEF End, RunsHandler, pollVars, lifeVars
<1>2. TypeOK'
  BY <1>1 DEF End, StartupInv, TypeOK
<1>3. Of(TRUE) \subseteq exited
  <2>1. handler[h].walk.level \in Int
    <3>1. handler[h].walk \in Walk
      BY <1>1, HandlerType
    <3> QED BY <3>1, FnType DEF Walk
  <2>2. Of(TRUE) \subseteq Beyond(handler[h].walk)
    BY <1>1, <2>1, FnType DEF Of, Beyond
  <2> QED BY <1>1, <2>2 DEF StartupInv, OrderInv
<1>4. OrderInv'
  BY <1>1, <1>3 DEF StartupInv, OrderInv
<1>5. OwedInv'
  BY <1>1 DEF StartupInv, OwedInv
<1> QED BY <1>2, <1>4, <1>5 DEF StartupInv

LEMMA StutterInv == ASSUME StartupInv, UNCHANGED vars PROVE StartupInv'
<1>1. UNCHANGED <<clock, pc, timeout, poll, spent, owed, walk, inited, handler, exited, ended>>
  BY DEF vars, pollVars, lifeVars, exitVars
<1>2. TypeOK'
  BY <1>1 DEF StartupInv, TypeOK
<1>3. OrderInv' /\ OwedInv'
  BY <1>1 DEF StartupInv, OrderInv, OwedInv
<1> QED BY <1>2, <1>3 DEF StartupInv

(* What holds in every state: types, the functions behind each walk are    *)
(* finished, and timeouts are where the ticks that are owed put them.      *)
THEOREM StartupInvariant == Spec => []StartupInv
<1>1. StartupInv /\ [Next]_vars => StartupInv'
  <2> SUFFICES ASSUME StartupInv, [Next]_vars PROVE StartupInv'
    OBVIOUS
  <2>1. CASE PollThread
    BY <2>1, InitStepInv, InitDoneInv, CallInv, MoveInv DEF PollThread
  <2>2. CASE Tick
    BY <2>2, TickInv
  <2>3. CASE \E h \in Handler : ExitStep(h) \/ End(h) \/ \E th \in {"poll", "other"} : Signal(h, th)
    BY <2>3, ExitStepInv, EndInv, SignalInv
  <2>4. CASE UNCHANGED vars
    BY <2>4, StutterInv
  <2> QED BY <2>1, <2>2, <2>3, <2>4 DEF Next
<1> QED BY <1>1, StartupInitInv, PTL DEF Spec

(* elab_run and elab_exit go through the levels in order, and the process  *)
(* ends behind the last exit function, whatever table it was linked with   *)
(* and however many signals interrupt it or each other.                    *)
THEOREM LevelsAreInOrder == Spec => []LevelsInOrder
<1>1. StartupInv => LevelsInOrder
  <2> SUFFICES ASSUME StartupInv PROVE LevelsInOrder
    OBVIOUS
  <2>1. walk \in Walk
    BY DEF StartupInv, TypeOK
  <2>2. walk.in => Of(FALSE) \subseteq inited \cup Above(walk.level - 1)
    <3> SUFFICES ASSUME walk.in, NEW f \in Of(FALSE), f \notin inited
                 PROVE  f \in Above(walk.level - 1)
      OBVIOUS
    <3>1. f \notin Below(walk)
      BY DEF StartupInv, OrderInv
    <3>2. f \in Fn /\ Table[f].level \in Int /\ walk.level \in Int
      BY <2>1, FnType DEF Of, Walk
    <3> QED BY <3>1, <3>2 DEF Below, Above
  <2>3. ASSUME NEW h \in Handler
        PROVE  handler[h].thread # "none" /\ handler[h].walk.in =>
                 Of(TRUE) \cap Above(handler[h].walk.level) \subseteq exited
    BY DEF StartupInv, OrderInv, Above, Beyond
  <2> QED BY <2>2, <2>3 DEF LevelsInOrder, StartupInv, OrderInv
<1> QED BY <1>1, StartupInvariant, PTL

(* _poll_func_execute calls a function when its period has passed and not  *)
(* before, for every set of periods that are short enough, every width of  *)
(* the clock and every delay that is shorter than ELAB_POLL_PERIOD_MAX.    *)
THEOREM PollsAreOnTime == Spec => PollsOnTime
<1> DEFINE Timely == (\A p \in Poll : Short(p)) =>
                       /\ pc = "poll" /\ pc' = "func" => owed[poll] <= 0
                       /\ poll' = poll + 1 => owed[poll] > 0
<1>1. StartupInv /\ [Next]_vars => [Timely]_vars
  <2> SUFFICES ASSUME StartupInv, Next PROVE Timely
    <3> HIDE DEF Timely
    <3> QED OBVIOUS
  <2> SUFFICES ASSUME \A p \in Poll : Short(p)
               PROVE  /\ pc = "poll" /\ pc' = "func" => owed[poll] <= 0
                      /\ poll' = poll + 1 => owed[poll] > 0
    OBVIOUS
  <2>1. poll \in Nat \ {0}
    BY PeriodType DEF StartupInv, TypeOK
  <2>2. pc = "poll" /\ pc' = "func" => Call
    BY DEF Next, PollThread, InitStep, InitDone, Return, Pass, Sleep, Wake, Tick, ExitStep, End, Signal
  <2>3. poll' = poll + 1 => Pass
    <3>1. poll' = poll \/ poll' = 1 \/ Pass
      BY DEF Next, PollThread, InitStep, InitDone, Call, Return, Sleep, Wake, Tick,
             ExitStep, End, Signal, pollVars
    <3>2. poll' = poll + 1 => poll' # poll /\ poll' # 1
      BY <2>1
    <3> QED BY <3>1, <3>2
  <2>4. Call => owed[poll] <= 0
    BY DueIsOwed DEF Call
  <2>5. Pass => owed[poll] > 0
    <3> SUFFICES ASSUME Pass PROVE owed[poll] > 0
      OBVIOUS
    <3>1. poll \in Poll /\ ~Due(poll)
      BY DEF Pass
    <3>2. owed[poll] \in Int
      BY <3>1 DEF StartupInv, TypeOK
    <3> QED BY <3>1, <3>2, DueIsOwed
  <2> QED BY <2>2, <2>3, <2>4, <2>5
<1>2. Spec => [][Timely]_vars
  <2> HIDE DEF Timely
  <2> QED BY <1>1, StartupInvariant, PTL DEF Spec
<1> QED BY <1>2 DEF Timely, PollsOnTime

-----------------------------------------------------------------------------
(***************************************************************************)
(* Lookups are right.                                                      *)
(*                                                                         *)
(* The argument: a name is stored in a home, at a distance from where its  *)
(* search begins that is at most SeekMax, and no cell in front of its home *)
(* holds its hashes.  Neither filling nor emptying other cells changes     *)
(* that, so a search that began after the name was stored has never gone   *)
(* past the home: it counts no more cells than it has passed.              *)
(***************************************************************************)

(* CHOOSE finds a prime: of those up to Capacity, 1 among them, there is a *)
(* greatest.                                                               *)
LEMMA PrimeMax == prime_max \in 1 .. Capacity
<1> USE HashAssumption
<1> DEFINE Gaps == {g \in 0 .. Capacity - 1 : IsPrime(Capacity - g)}
<1>1. Capacity - 1 \in Gaps
  BY DEF IsPrime
<1>2. PICK g \in Gaps : \A h \in Gaps : g <= h
  <2>1. Gaps \in SUBSET Nat /\ Gaps # {}
    BY <1>1
  <2> HIDE DEF Gaps
  <2> QED BY <2>1, LeastNat
<1>3. \A m \in Capacity - g + 1 .. Capacity : ~IsPrime(m)
  <2> SUFFICES ASSUME NEW m \in Capacity - g + 1 .. Capacity, IsPrime(m)
               PROVE  FALSE
    OBVIOUS
  <2>1. g \in 0 .. Capacity - 1
    OBVIOUS
  <2>2. Capacity - m \in 0 .. Capacity - 1 /\ Capacity - (Capacity - m) = m
    BY <2>1
  <2>3. Capacity - m \in Gaps
    BY <2>2
  <2> QED BY <2>1, <2>3, <1>2
<1>4. /\ Capacity - g \in 1 .. Capacity
      /\ IsPrime(Capacity - g)
  OBVIOUS
<1> QED BY <1>3, <1>4 DEF prime_max

(* Every search stays inside the table.                                    *)
LEMMA IndexInTable ==
  ASSUME NEW k \in Key, NEW i \in Nat
  PROVE  Index(k, i) \in Cell
<1>1. Hash[k] \in Nat /\ Capacity \in Nat /\ Capacity > 0
  BY HashAssumption
<1>2. index_start(k) \in Nat
  BY <1>1, PrimeMax DEF index_start
<1> QED BY <1>1, <1>2 DEF Index, Cell

-----------------------------------------------------------------------------
Offset == 0 .. Capacity - 1

Writing == [op : {"add", "fill", "remove"}, key : Key, i : Offset, count : Nat]
Getting == [op : {"get", "read"}, key : Key, i : Offset, count : Nat, steady : BOOLEAN]
Done    == [op : {"done"}, key : Key, steady : BOOLEAN, result : Key \cup {NULL}]

HashTypeOK ==
  /\ data \in [Cell -> Key \cup {NULL}]
  /\ hash \in [Cell -> Key \cup {NULL}]
  /\ write \in {Resting} \cup Writing
  /\ lookup \in [Reader -> {Resting} \cup Getting \cup Done]
  /\ stored \subseteq Key /\ removed \subseteq Key

(* No cell before the i-th of k's search holds k's hashes.                 *)
Clear(k, i) == \A j \in Offset : j < i => hash[Index(k, j)] # k

Home(k, i) ==
  /\ i \in Offset /\ i <= SeekMax
  /\ data[Index(k, i)] = k /\ hash[Index(k, i)] = k
  /\ Clear(k, i)

Filled(c) == write.op = "fill" /\ c = Index(write.key, write.i)

(* What is stored, cell by cell. *)
CellsAgree ==
  /\ \A c \in Cell : data[c] # NULL =>
       \/ Filled(c) /\ data[c] = write.key
       \/ ~Filled(c) /\ data[c] \in stored /\ hash[c] = data[c]
  /\ \A c, e \in Cell : data[c] # NULL /\ data[c] = data[e] => c = e
  /\ \A c \in Cell : hash[c] # NULL => hash[c] \in removed \/ data[c] = hash[c]

StoredHaveHomes == \A k \in stored : \E i \in Offset : Home(k, i)

WriterIsRight ==
  /\ write.op \in {"add", "fill"} =>
       /\ write.key \notin stored
       /\ write.count = write.i /\ write.i <= SeekMax
       /\ Clear(write.key, write.i)
       /\ \A j \in Offset : j < write.i => data[Index(write.key, j)] \notin {NULL, write.key}
  /\ write.op = "fill" => data[Index(write.key, write.i)] = write.key

ReaderIsRight(l) ==
  /\ l.op \in {"get", "read"} /\ l.steady => l.key \in stored
  /\ l.op = "get" =>
       /\ l.count <= l.i
       /\ l.steady => \E h \in Offset : l.i <= h /\ Home(l.key, h)
  /\ l.op = "read" =>
       /\ l.steady => Home(l.key, l.i)
       /\ l.key \notin removed => hash[Index(l.key, l.i)] = l.key
  /\ l.op = "done" =>
       /\ l.steady => l.result = l.key
       /\ l.key \notin removed => l.result \in {l.key, NULL}

HashInv ==
  /\ HashTypeOK
  /\ CellsAgree
  /\ StoredHaveHomes
  /\ WriterIsRight
  /\ \A r \in Reader : ReaderIsRight(lookup[r])

LEMMA InitInv == HashInit => HashInv
BY HashAssumption DEF HashInit, HashInv, HashTypeOK, CellsAgree, StoredHaveHomes,
   WriterIsRight, ReaderIsRight, Resting, Filled

(* What a search finds in its cell. *)
LEMMA SearchCell ==
  ASSUME HashTypeOK, NEW s \in Writing \cup Getting
  PROVE  /\ s.key \in Key /\ s.i \in Offset /\ s.i \in Nat
         /\ Index(s.key, s.i) \in Cell
BY IndexInTable, HashAssumption DEF Writing, Getting, Offset

LEMMA CallAddInv == ASSUME HashInv, NEW k \in Key, CallAdd(k) PROVE HashInv'
<1>1. write' = [op |-> "add", key |-> k, i |-> 0, count |-> 0]
  BY DEF CallAdd, Search
<1>2. /\ k \notin stored /\ write = Resting
      /\ UNCHANGED <<data, hash, lookup, stored, removed>>
  BY DEF CallAdd
<1>3. HashTypeOK'
  BY <1>1, <1>2, HashAssumption DEF HashInv, HashTypeOK, Writing, Offset
<1>4. CellsAgree'
  BY <1>1, <1>2 DEF HashInv, CellsAgree, Filled, Resting
<1>5. WriterIsRight'
  BY <1>1, <1>2, HashAssumption DEF WriterIsRight, Clear, Offset
<1>6. StoredHaveHomes' /\ \A r \in Reader : ReaderIsRight(lookup[r])'
  BY <1>2 DEF HashInv, StoredHaveHomes, ReaderIsRight, Home, Clear
<1> QED BY <1>3, <1>4, <1>5, <1>6 DEF HashInv

LEMMA CallRemoveInv == ASSUME HashInv, NEW k \in Key, CallRemove(k) PROVE HashInv'
<1>1. write' = [op |-> "remove", key |-> k, i |-> 0, count |-> 0]
  BY DEF CallRemove, Search
<1>2. write = Resting /\ UNCHANGED <<data, hash, lookup, stored, removed>>
  BY DEF CallRemove
<1>3. HashTypeOK'
  BY <1>1, <1>2, HashAssumption DEF HashInv, HashTypeOK, Writing, Offset
<1>4. CellsAgree'
  BY <1>1, <1>2 DEF HashInv, CellsAgree, Filled, Resting
<1>5. WriterIsRight'
  BY <1>1 DEF WriterIsRight
<1>6. StoredHaveHomes' /\ \A r \in Reader : ReaderIsRight(lookup[r])'
  BY <1>2 DEF HashInv, StoredHaveHomes, ReaderIsRight, Home, Clear
<1> QED BY <1>3, <1>4, <1>5, <1>6 DEF HashInv

(* A step of the writer that leaves the homes of the names that stay, and  *)
(* the hashes of names that were never removed, leaves a reader right that *)
(* does not look for a name that goes.                                     *)
LEMMA ReadersStay ==
  ASSUME NEW r \in Reader, ReaderIsRight(lookup[r]), HashTypeOK,
         lookup[r]' = lookup[r], removed \subseteq removed',
         \A k \in stored \ stored' : lookup[r].op = "none" \/ lookup[r].key # k,
         \A k \in stored \cap stored', h \in Offset : Home(k, h) => Home(k, h)',
         \A c \in Cell : hash[c] # NULL /\ hash[c] \notin removed => hash'[c] = hash[c]
  PROVE  ReaderIsRight(lookup[r])'
<1> DEFINE l == lookup[r]
<1>1. CASE l.op \notin {"get", "read"}
  BY <1>1 DEF ReaderIsRight
<1>2. CASE l.op = "get"
  BY <1>2 DEF ReaderIsRight
<1>3. CASE l.op = "read"
  <2>1. l \in Getting
    BY <1>3 DEF HashTypeOK, Resting, Done
  <2>2. Index(l.key, l.i) \in Cell /\ l.i \in Offset /\ l.key # NULL
    BY <2>1, SearchCell, HashAssumption
  <2> QED BY <1>3, <2>2 DEF ReaderIsRight
<1> QED BY <1>1, <1>2, <1>3

LEMMA AddProbeInv == ASSUME HashInv, AddProbe PROVE HashInv'
<1> DEFINE k == write.key
           c == Index(write.key, write.i)
<1>1. write \in Writing /\ write.op = "add"
  BY DEF AddProbe, HashInv, HashTypeOK, Resting
<1>2. k \in Key /\ write.i \in Offset /\ c \in Cell /\ k # NULL
  BY <1>1, SearchCell, HashAssumption DEF HashInv
<1>3. /\ k \notin stored /\ write.count = write.i /\ write.i <= SeekMax
      /\ Clear(k, write.i)
      /\ \A j \in Offset : j < write.i => data[Index(k, j)] \notin {NULL, k}
  BY <1>1 DEF HashInv, WriterIsRight
<1>4. /\ \A e \in Cell : data[e] # NULL => data[e] \in stored /\ hash[e] = data[e]
      /\ \A e, f \in Cell : data[e] # NULL /\ data[e] = data[f] => e = f
      /\ \A e \in Cell : hash[e] # NULL => hash[e] \in removed \/ data[e] = hash[e]
  BY <1>1 DEF HashInv, CellsAgree, Filled
<1>5. UNCHANGED <<hash, lookup, stored, removed>>
  BY DEF AddProbe
<1>a. CASE ~Taken(write)
  <2>1. /\ data' = [data EXCEPT ![c] = k]
        /\ write' = [write EXCEPT !.op = "fill"]
        /\ data[c] = NULL
    BY <1>a DEF AddProbe, Taken
  <2>2. write' \in Writing /\ write'.key = k /\ write'.i = write.i /\ write'.op = "fill"
        /\ write'.count = write.count
    BY <1>1, <2>1 DEF Writing
  <2>3. HashTypeOK'
    BY <1>1, <1>2, <1>5, <2>1, <2>2 DEF HashInv, HashTypeOK
  <2>4. data' \in [Cell -> Key \cup {NULL}] /\ data'[c] = k
        /\ \A e \in Cell : e # c => data'[e] = data[e]
    BY <1>2, <2>1, <2>3 DEF HashInv, HashTypeOK
  <2>5. CellsAgree'
    BY <1>2, <1>3, <1>4, <1>5, <2>1, <2>2, <2>4 DEF CellsAgree, Filled, Index, index_start
  <2>6. ASSUME NEW n \in stored, NEW h \in Offset, Home(n, h)
        PROVE  Home(n, h)'
    <3>1. n \in Key /\ n # NULL /\ Index(n, h) \in Cell
      BY IndexInTable, HashAssumption DEF HashInv, HashTypeOK, Offset
    <3>2. Index(n, h) # c
      BY <2>1, <2>6, <3>1 DEF Home
    <3>3. data'[Index(n, h)] = data[Index(n, h)]
      BY <2>4, <3>1, <3>2
    <3> QED BY <1>5, <2>6, <3>3 DEF Home, Clear, Index, index_start
  <2>7. StoredHaveHomes'
    BY <1>5, <2>6 DEF HashInv, StoredHaveHomes
  <2>8. WriterIsRight'
    <3>1. ASSUME NEW j \in Offset, j < write.i
          PROVE  data'[Index(k, j)] \notin {NULL, k}
      <4>1. Index(k, j) \in Cell
        BY <1>2, IndexInTable, HashAssumption DEF Offset
      <4> QED BY <1>2, <1>3, <2>1, <2>4, <3>1, <4>1
    <3> QED BY <1>3, <1>5, <2>2, <2>4, <3>1 DEF WriterIsRight, Clear, Index, index_start
  <2>9. \A r \in Reader : ReaderIsRight(lookup[r])'
    BY <1>5, <2>6, ReadersStay DEF HashInv
  <2> QED BY <2>3, <2>5, <2>7, <2>8, <2>9 DEF HashInv
<1>b. CASE Taken(write) /\ ~LastTaken(write)
  <2>1. data' = data /\ write' = PassTaken(write)
    BY <1>b DEF AddProbe
  <2>2. /\ write' = [op |-> "add", key |-> k, i |-> write.i + 1, count |-> write.count + 1]
        /\ write.i + 1 \in Offset /\ write.count + 1 \in Nat /\ write.count + 1 <= SeekMax
    <3>1. write.i + 1 # Capacity /\ ~(write.count + 1 > SeekMax)
      BY <1>b DEF LastTaken
    <3>2. write.count \in Nat /\ write.i \in 0 .. Capacity - 1
      BY <1>1 DEF Writing, Offset
    <3>3. write.i + 1 \in Offset /\ write.count + 1 \in Nat /\ write.count + 1 <= SeekMax
      BY <3>1, <3>2, HashAssumption DEF Offset
    <3>4. write' = [op |-> "add", key |-> k, i |-> write.i + 1, count |-> write.count + 1]
      <4> DEFINE n == write.i + 1
                 m == write.count + 1
      <4>1. write' = [[write EXCEPT !.i = n] EXCEPT !.count = m]
        BY <2>1 DEF PassTaken
      <4> HIDE DEF n, m
      <4>2. write' = [op |-> "add", key |-> k, i |-> n, count |-> m]
        BY <1>1, <4>1 DEF Writing
      <4> QED BY <4>2 DEF n, m
    <3> QED BY <3>3, <3>4
  <2>3. HashTypeOK'
    BY <1>2, <1>5, <2>1, <2>2 DEF HashInv, HashTypeOK, Writing
  <2>4. CellsAgree'
    BY <1>4, <1>5, <2>1, <2>2 DEF CellsAgree, Filled
  <2>5. data[c] \notin {NULL, k} /\ hash[c] # k
    BY <1>2, <1>3, <1>4, <1>b DEF Taken
  <2>6. WriterIsRight'
    <3>1. ASSUME NEW j \in Offset, j < write.i + 1
          PROVE  hash[Index(k, j)] # k /\ data[Index(k, j)] \notin {NULL, k}
      BY <1>2, <1>3, <2>5, <3>1 DEF Clear, Offset
    <3> QED BY <1>3, <1>5, <2>1, <2>2, <3>1 DEF WriterIsRight, Clear, Index, index_start
  <2>7. StoredHaveHomes' /\ \A r \in Reader : ReaderIsRight(lookup[r])'
    BY <1>5, <2>1 DEF HashInv, StoredHaveHomes, ReaderIsRight, Home, Clear
  <2> QED BY <2>3, <2>4, <2>6, <2>7 DEF HashInv
<1>c. CASE Taken(write) /\ LastTaken(write)
  <2>1. data' = data /\ write' = Resting
    BY <1>c DEF AddProbe
  <2>2. HashTypeOK' /\ WriterIsRight'
    BY <1>5, <2>1 DEF HashInv, HashTypeOK, WriterIsRight, Resting
  <2>3. CellsAgree'
    BY <1>4, <1>5, <2>1 DEF CellsAgree, Filled, Resting
  <2>4. StoredHaveHomes' /\ \A r \in Reader : ReaderIsRight(lookup[r])'
    BY <1>5, <2>1 DEF HashInv, StoredHaveHomes, ReaderIsRight, Home, Clear
  <2> QED BY <2>2, <2>3, <2>4 DEF HashInv
<1> QED BY <1>a, <1>b, <1>c

LEMMA AddFillInv == ASSUME HashInv, AddFill PROVE HashInv'
<1>1. write \in Writing /\ write.op = "fill"
  BY DEF AddFill, HashInv, HashTypeOK, Resting
<1>0. PICK k \in Key, i \in Offset : k = write.key /\ i = write.i
  BY <1>1 DEF Writing
<1> DEFINE c == Index(k, i)
<1>2. c \in Cell /\ k # NULL
  BY <1>0, <1>1, SearchCell, HashAssumption DEF HashInv
<1>3. /\ k \notin stored /\ i <= SeekMax
      /\ Clear(k, i)
      /\ \A j \in Offset : j < i => data[Index(k, j)] \notin {NULL, k}
      /\ data[c] = k
  BY <1>0, <1>1 DEF HashInv, WriterIsRight
<1>4. /\ \A e \in Cell : e # c /\ data[e] # NULL => data[e] \in stored /\ hash[e] = data[e]
      /\ \A e, f \in Cell : data[e] # NULL /\ data[e] = data[f] => e = f
      /\ \A e \in Cell : hash[e] # NULL => hash[e] \in removed \/ data[e] = hash[e]
  BY <1>0, <1>1 DEF HashInv, CellsAgree, Filled
<1>5. /\ hash' = [hash EXCEPT ![c] = k] /\ write' = Resting
      /\ stored' = stored \cup {k}
      /\ UNCHANGED <<data, lookup, removed>>
  BY <1>0 DEF AddFill
<1>6. HashTypeOK'
  BY <1>2, <1>5 DEF HashInv, HashTypeOK
<1>7. hash'[c] = k /\ \A e \in Cell : e # c => hash'[e] = hash[e]
  BY <1>2, <1>5 DEF HashInv, HashTypeOK
<1>8. CellsAgree'
  BY <1>2, <1>3, <1>4, <1>5, <1>7 DEF CellsAgree, Filled, Resting
<1>9. ASSUME NEW n \in stored, NEW h \in Offset, Home(n, h)
      PROVE  Home(n, h)'
  <2>1. n \in Key /\ n # k /\ \A j \in Offset : Index(n, j) \in Cell
    BY <1>3, IndexInTable, HashAssumption DEF HashInv, HashTypeOK, Offset
  <2>2. Index(n, h) # c
    BY <1>3, <1>9, <2>1 DEF Home
  <2>3. hash'[Index(n, h)] = n
    BY <1>7, <1>9, <2>1, <2>2 DEF Home
  <2>4. \A j \in Offset : j < h => hash'[Index(n, j)] # n
    BY <1>7, <1>9, <2>1 DEF Home, Clear
  <2> QED BY <1>5, <1>9, <2>3, <2>4 DEF Home, Clear, Index, index_start
<1>10. Home(k, i)'
  <2>1. ASSUME NEW j \in Offset, j < i PROVE hash'[Index(k, j)] # k
    <3>1. Index(k, j) \in Cell
      BY <1>2, IndexInTable, HashAssumption DEF Offset
    <3>2. data[Index(k, j)] # k /\ hash[Index(k, j)] # k
      BY <1>3, <2>1 DEF Clear
    <3> QED BY <1>3, <1>7, <3>1, <3>2
  <2> HIDE DEF c
  <2>2. data'[c] = k /\ hash'[c] = k
    BY <1>3, <1>5, <1>7
  <2> QED BY <1>3, <2>1, <2>2 DEF Home, Clear, Index, index_start, c
<1>11. StoredHaveHomes'
  BY <1>2, <1>5, <1>9, <1>10 DEF HashInv, StoredHaveHomes
<1>12. WriterIsRight'
  BY <1>5 DEF WriterIsRight, Resting
<1>13. \A r \in Reader : ReaderIsRight(lookup[r])'
  <2>1. \A e \in Cell : hash[e] # NULL /\ hash[e] \notin removed => hash'[e] = hash[e]
    BY <1>3, <1>4, <1>7
  <2> QED BY <1>5, <1>9, <2>1, ReadersStay DEF HashInv
<1> QED BY <1>6, <1>8, <1>11, <1>12, <1>13 DEF HashInv

LEMMA RemoveProbeInv == ASSUME HashInv, RemoveProbe PROVE HashInv'
<1>1. write \in Writing /\ write.op = "remove"
  BY DEF RemoveProbe, HashInv, HashTypeOK, Resting
<1>2. PICK k \in Key, i \in Offset : k = write.key /\ i = write.i
  BY <1>1 DEF Writing
<1> DEFINE c == Index(k, i)
<1>3. c \in Cell /\ k # NULL
  BY <1>1, <1>2, SearchCell, HashAssumption DEF HashInv
<1>4. /\ \A e \in Cell : data[e] # NULL => data[e] \in stored /\ hash[e] = data[e]
      /\ \A e, f \in Cell : data[e] # NULL /\ data[e] = data[f] => e = f
      /\ \A e \in Cell : hash[e] # NULL => hash[e] \in removed \/ data[e] = hash[e]
  BY <1>1 DEF HashInv, CellsAgree, Filled
<1>5. hash' = hash
  BY DEF RemoveProbe
<1>a. CASE Matches(write)
  <2>1. /\ data' = [data EXCEPT ![c] = NULL]
        /\ stored' = stored \ {k} /\ removed' = removed \cup {k}
        /\ Disturb(k) /\ write' = Resting
        /\ data[c] = k /\ hash[c] = k
    <3>1. data[c] # NULL /\ hash[c] = k
      BY <1>2, <1>a DEF Matches, Taken
    <3>2. data[c] = k
      BY <1>3, <1>4, <3>1
    <3> QED BY <1>2, <1>a, <3>1, <3>2 DEF RemoveProbe
  <2>2. \A r \in Reader :
          lookup'[r] = IF lookup[r].op # "none" /\ lookup[r].key = k
                         THEN [lookup[r] EXCEPT !.steady = FALSE] ELSE lookup[r]
    BY <2>1 DEF Disturb
  <2>3. HashTypeOK'
    <3>1. data' \in [Cell -> Key \cup {NULL}] /\ stored' \subseteq Key /\ removed' \subseteq Key
      BY <1>3, <2>1 DEF HashInv, HashTypeOK
    <3>2. ASSUME NEW r \in Reader
          PROVE  lookup'[r] \in {Resting} \cup Getting \cup Done
      <4>1. lookup[r] \in {Resting} \cup Getting \cup Done
        BY DEF HashInv, HashTypeOK
      <4> QED BY <2>2, <4>1 DEF Resting, Getting, Done
    <3>3. lookup' \in [Reader -> {Resting} \cup Getting \cup Done]
      BY <2>1, <3>2 DEF Disturb
    <3> QED BY <1>5, <2>1, <3>1, <3>3 DEF HashInv, HashTypeOK
  <2>4. data'[c] = NULL /\ \A e \in Cell : e # c => data'[e] = data[e]
    BY <1>3, <2>1 DEF HashInv, HashTypeOK
  <2>5. CellsAgree'
    BY <1>3, <1>4, <1>5, <2>1, <2>4 DEF CellsAgree, Filled, Resting
  <2>6. ASSUME NEW n \in stored \cap stored', NEW h \in Offset, Home(n, h)
        PROVE  Home(n, h)'
    <3>1. n # k /\ Index(n, h) \in Cell /\ data[Index(n, h)] = n
      BY <2>1, <2>6, IndexInTable, HashAssumption DEF HashInv, HashTypeOK, Offset, Home
    <3>2. data'[Index(n, h)] = n
      BY <2>1, <2>4, <3>1
    <3> QED BY <1>5, <2>6, <3>2 DEF Home, Clear, Index, index_start
  <2>7. StoredHaveHomes'
    BY <2>1, <2>6 DEF HashInv, StoredHaveHomes
  <2>8. WriterIsRight'
    BY <2>1 DEF WriterIsRight, Resting
  <2>9. ASSUME NEW r \in Reader PROVE ReaderIsRight(lookup[r])'
    <3>1. CASE lookup[r].op # "none" /\ lookup[r].key = k
      <4>1. lookup[r] \in Getting \cup Done /\ ReaderIsRight(lookup[r])
        BY <3>1 DEF HashInv, HashTypeOK, Resting
      <4>2. /\ lookup'[r] = [lookup[r] EXCEPT !.steady = FALSE]
            /\ lookup[r].key \in removed'
        BY <2>1, <2>2, <3>1
      <4>3. /\ lookup'[r].op = lookup[r].op /\ ~lookup'[r].steady
            /\ lookup'[r].key \in removed'
            /\ lookup[r].op = "get" => lookup'[r].count <= lookup'[r].i
        BY <4>1, <4>2 DEF Getting, Done, ReaderIsRight
      <4> QED BY <4>3 DEF ReaderIsRight
    <3>2. CASE ~(lookup[r].op # "none" /\ lookup[r].key = k)
      BY <1>5, <2>1, <2>2, <2>6, <3>2, ReadersStay DEF HashInv
    <3> QED BY <3>1, <3>2
  <2> QED BY <2>3, <2>5, <2>7, <2>8, <2>9 DEF HashInv
<1>b. CASE ~Matches(write)
  <2>1. UNCHANGED <<data, hash, lookup, stored, removed>>
    BY <1>b DEF RemoveProbe
  <2>2. write' = Resting \/ (write' \in Writing /\ write'.op = "remove")
    <3>1. CASE i + 1 # Capacity
      <4>1. i + 1 \in Offset
        BY <3>1, HashAssumption DEF Offset
      <4>2. write.count + 1 \in Nat
        BY <1>1 DEF Writing
      <4> DEFINE n == i + 1
                 m == write.count + 1
      <4>3. \/ write' = Resting
            \/ write' = [[write EXCEPT !.i = n] EXCEPT !.count = m]
            \/ write' = [write EXCEPT !.i = n]
        BY <1>2, <1>b, <3>1 DEF RemoveProbe, PassTaken
      <4> HIDE DEF n, m
      <4>4. n \in Offset /\ m \in Nat
        BY <4>1, <4>2 DEF n, m
      <4> QED BY <1>1, <4>3, <4>4 DEF Writing
    <3>2. CASE i + 1 = Capacity
      BY <1>2, <1>b, <3>2 DEF RemoveProbe
    <3> QED BY <3>1, <3>2
  <2>3. HashTypeOK'
    BY <2>1, <2>2 DEF HashInv, HashTypeOK
  <2>4. CellsAgree' /\ WriterIsRight'
    BY <1>4, <2>1, <2>2 DEF CellsAgree, Filled, Resting, WriterIsRight
  <2>5. StoredHaveHomes' /\ \A r \in Reader : ReaderIsRight(lookup[r])'
    BY <2>1 DEF HashInv, StoredHaveHomes, ReaderIsRight, Home, Clear
  <2> QED BY <2>3, <2>4, <2>5 DEF HashInv
<1> QED BY <1>a, <1>b

(* What a step of a reader has to show. *)
LEMMA ReaderStep ==
  ASSUME HashInv, NEW r \in Reader, NEW l, Look(r, l),
         UNCHANGED <<data, hash, write, stored, removed>>,
         l \in Getting \cup Done, ReaderIsRight(l)
  PROVE  HashInv'
<1>1. lookup' = [lookup EXCEPT ![r] = l]
  BY DEF Look
<1>2. HashTypeOK'
  BY <1>1 DEF HashInv, HashTypeOK
<1>3. CellsAgree' /\ StoredHaveHomes' /\ WriterIsRight'
  BY DEF HashInv, CellsAgree, Filled, StoredHaveHomes, Home, Clear, WriterIsRight
<1>4. ASSUME NEW q \in Reader PROVE ReaderIsRight(lookup[q])'
  <2>1. ReaderIsRight(lookup'[q])
    BY <1>1 DEF HashInv, HashTypeOK
  <2> QED BY <2>1 DEF ReaderIsRight, Home, Clear
<1> QED BY <1>2, <1>3, <1>4 DEF HashInv

LEMMA CallGetInv ==
  ASSUME HashInv, NEW r \in Reader, NEW k \in Key, CallGet(r, k) PROVE HashInv'
<1> DEFINE l == [op |-> "get", key |-> k, i |-> 0, count |-> 0, steady |-> k \in stored]
<1>1. l \in Getting
  BY HashAssumption DEF Getting, Offset
<1>2. k \in stored => \E h \in Offset : 0 <= h /\ Home(k, h)
  BY HashAssumption DEF HashInv, StoredHaveHomes, Offset
<1>3. /\ l.op = "get" /\ l.key = k /\ l.i = 0 /\ l.count = 0
      /\ l.steady <=> k \in stored
  OBVIOUS
<1> HIDE DEF l
<1>5. ReaderIsRight(l)
  BY <1>2, <1>3 DEF ReaderIsRight
<1>4. Look(r, l) /\ UNCHANGED <<data, hash, write, stored, removed>>
  BY DEF CallGet, l
<1> QED BY <1>1, <1>4, <1>5, ReaderStep

(* A lookup that is over finds nothing where the name cannot be.           *)
LEMMA FinishInv ==
  ASSUME HashInv, NEW r \in Reader, lookup[r] \in Getting, NEW result,
         Finish(r, result), result \in Key \cup {NULL},
         UNCHANGED <<data, hash, write, stored, removed>>,
         lookup[r].steady => result = lookup[r].key,
         lookup[r].key \notin removed => result \in {lookup[r].key, NULL}
  PROVE  HashInv'
<1> DEFINE l == [op |-> "done", key |-> lookup[r].key, steady |-> lookup[r].steady,
                 result |-> result]
<1>1. l \in Getting \cup Done /\ ReaderIsRight(l)
  BY DEF Getting, Done, ReaderIsRight
<1>2. Look(r, l)
  BY DEF Finish
<1> HIDE DEF l
<1> QED BY <1>1, <1>2, ReaderStep

LEMMA GetProbeInv == ASSUME HashInv, NEW r \in Reader, GetProbe(r) PROVE HashInv'
<1> DEFINE l == lookup[r]
<1>1. l \in Getting /\ l.op = "get"
  BY DEF GetProbe, HashInv, HashTypeOK, Resting, Done
<1>2. PICK k \in Key, i \in Offset : k = l.key /\ i = l.i
  BY <1>1 DEF Getting
<1> DEFINE c == Index(k, i)
<1>3. c \in Cell /\ k # NULL /\ i \in Nat
  BY <1>1, <1>2, SearchCell, HashAssumption DEF HashInv, Offset
<1>4. /\ l.count \in Nat /\ l.count <= i
      /\ l.steady => k \in stored
      /\ l.steady => \E h \in Offset : i <= h /\ Home(k, h)
  BY <1>1, <1>2 DEF HashInv, ReaderIsRight, Getting
<1>5. UNCHANGED <<data, hash, write, stored, removed>>
  BY DEF GetProbe
(* No cell before the home matches, and the home does.                     *)
<1>6. ASSUME NEW h \in Offset, i <= h, Home(k, h), ~Matches(l)
      PROVE  i + 1 <= h /\ ~LastTaken(l)
  <2>1. i # h
    BY <1>2, <1>3, <1>6 DEF Home, Matches, Taken
  <2>2. i + 1 <= h /\ h <= SeekMax /\ h < Capacity
    BY <1>3, <1>6, <2>1, HashAssumption DEF Home, Offset
  <2> QED BY <1>2, <1>3, <1>4, <2>2, HashAssumption DEF LastTaken, Offset
(* One cell further. *)
<1>7. ASSUME NEW n \in {l.count, l.count + 1}, i + 1 # Capacity, ~Matches(l),
             Look(r, [op |-> "get", key |-> k, i |-> i + 1, count |-> n, steady |-> l.steady])
      PROVE  HashInv'
  <2> DEFINE m == [op |-> "get", key |-> k, i |-> i + 1, count |-> n, steady |-> l.steady]
  <2>1. i + 1 \in Offset /\ n \in Nat /\ n <= i + 1
    BY <1>3, <1>4, <1>7, HashAssumption DEF Offset
  <2>2. m \in Getting
    BY <1>1, <2>1 DEF Getting
  <2>3. ReaderIsRight(m)
    BY <1>4, <1>6, <1>7, <2>1 DEF ReaderIsRight
  <2> HIDE DEF m
  <2>4. Look(r, m)
    BY <1>7 DEF m
  <2> QED BY <1>5, <2>2, <2>3, <2>4, ReaderStep
<1>a. CASE Matches(l) /\ Look(r, [l EXCEPT !.op = "read"])
  <2> DEFINE m == [op |-> "read", key |-> k, i |-> i, count |-> l.count, steady |-> l.steady]
  <2>1. [l EXCEPT !.op = "read"] = m /\ m \in Getting
    BY <1>1, <1>2, <1>4 DEF Getting
  <2>2. hash[c] = k /\ data[c] # NULL
    BY <1>2, <1>a DEF Matches, Taken
  <2>3. l.steady => Home(k, i)
    BY <1>3, <1>4, <2>2 DEF Home, Clear, Offset
  <2>4. ReaderIsRight(m)
    BY <1>4, <2>2, <2>3 DEF ReaderIsRight
  <2> HIDE DEF m
  <2> QED BY <1>a, <1>5, <2>1, <2>4, ReaderStep
<1>b. CASE ~Taken(l) /\ i + 1 = Capacity /\ Finish(r, NULL)
  <2>1. ~l.steady
    BY <1>4, <1>6, <1>b, <1>2, HashAssumption DEF Offset, Matches
  <2> QED BY <1>1, <1>5, <1>b, <2>1, FinishInv
<1>c. CASE ~Taken(l) /\ i + 1 # Capacity /\ Look(r, [l EXCEPT !.i = @ + 1])
  <2>1. [l EXCEPT !.i = @ + 1]
          = [op |-> "get", key |-> k, i |-> i + 1, count |-> l.count, steady |-> l.steady]
    BY <1>1, <1>2 DEF Getting
  <2>2. ~Matches(l)
    BY <1>c DEF Matches
  <2> QED BY <1>7, <1>c, <2>1, <2>2
<1>d. CASE Taken(l) /\ ~Matches(l) /\ LastTaken(l) /\ Finish(r, NULL)
  <2>1. ~l.steady
    BY <1>4, <1>6, <1>d
  <2> QED BY <1>1, <1>5, <1>d, <2>1, FinishInv
<1>e. CASE Taken(l) /\ ~Matches(l) /\ ~LastTaken(l) /\ Look(r, PassTaken(l))
  <2> DEFINE n == l.count + 1
  <2>1. PassTaken(l)
          = [op |-> "get", key |-> k, i |-> i + 1, count |-> n, steady |-> l.steady]
    <3> DEFINE j == i + 1
    <3>1. PassTaken(l) = [[l EXCEPT !.i = j] EXCEPT !.count = n]
      BY <1>2 DEF PassTaken
    <3> HIDE DEF j, n
    <3>2. PassTaken(l) = [op |-> "get", key |-> k, i |-> j, count |-> n, steady |-> l.steady]
      BY <1>1, <1>2, <3>1 DEF Getting
    <3> QED BY <3>2 DEF j
  <2>2. i + 1 # Capacity
    BY <1>2, <1>e DEF LastTaken
  <2> QED BY <1>7, <1>e, <2>1, <2>2
<1> QED BY <1>2, <1>a, <1>b, <1>c, <1>d, <1>e DEF GetProbe

LEMMA GetReadInv == ASSUME HashInv, NEW r \in Reader, GetRead(r) PROVE HashInv'
<1> DEFINE l == lookup[r]
           c == Index(l.key, l.i)
<1>1. l \in Getting /\ l.op = "read"
  BY DEF GetRead, HashInv, HashTypeOK, Resting, Done
<1>2. c \in Cell /\ l.key \in Key /\ l.key # NULL
  BY <1>1, SearchCell, HashAssumption DEF HashInv
<1>3. /\ l.steady => data[c] = l.key
      /\ l.key \notin removed => data[c] = l.key
  BY <1>1, <1>2 DEF HashInv, ReaderIsRight, CellsAgree, Home
<1>4. data[c] \in Key \cup {NULL}
  BY <1>2 DEF HashInv, HashTypeOK
<1> QED BY <1>1, <1>3, <1>4, FinishInv DEF GetRead

LEMMA NextInv == HashInv /\ [HashNext]_hashVars => HashInv'
<1> SUFFICES ASSUME HashInv, [HashNext]_hashVars PROVE HashInv'
  OBVIOUS
<1>1. CASE UNCHANGED hashVars
  BY <1>1 DEF hashVars, HashInv, HashTypeOK, CellsAgree, Filled, StoredHaveHomes, Home, Clear,
     WriterIsRight, ReaderIsRight
<1>2. CASE HashNext
  BY <1>2, CallAddInv, CallRemoveInv, AddProbeInv, AddFillInv, RemoveProbeInv,
     CallGetInv, GetProbeInv, GetReadInv DEF HashNext
<1> QED BY <1>1, <1>2

(* What is in the cells, what the writer is about to do and what each      *)
(* reader has found so far fit together at every step.                     *)
THEOREM TableInvariant == HashSpec => []HashInv
BY InitInv, NextInv, PTL DEF HashSpec

(* A lookup finds what was stored under its name all the time it took, and *)
(* never something else under a name that was never removed, for every     *)
(* capacity, bound on the probes, hash function and number of readers.     *)
THEOREM LookupsAreRight == HashSpec => []LookupIsRight
<1>1. HashInv => LookupIsRight
  BY DEF HashInv, ReaderIsRight, LookupIsRight
<1> QED BY <1>1, TableInvariant, PTL

=============================================================================
