--------------------------- MODULE EdfDeviceProofs --------------------------
(***************************************************************************)
(* The device framework is right for every number of threads and devices,  *)
(* every size of its table and every limit of the enable counts.           *)
(*                                                                         *)
(* The argument: a device is registered and unregistered by its owner      *)
(* only, so it is the same in all steps of these functions; and as long as *)
(* no two threads met in sections of the edf mutex, the thread that is in  *)
(* one is alone, so what it has read of the table and the count is true.   *)
(***************************************************************************)
EXTENDS EdfDevice, FiniteSetTheorems, TLAPS

Places == {Idle} \cup [op : Ops, dev : Device]

(* The places where a thread relies on what it has read in its section.    *)
Critical == {"reg.store", "unreg.remove", "unreg.count"}

(* What a thread at a place inside a call may rely on.                     *)
PlaceOK(t, p) ==
  /\ p.op \in {"reg.deref", "reg.scan", "reg.add", "reg.store"} => Owner[p.dev] = t /\ p.dev \notin live
  /\ p.op \in {"unreg.find", "unreg.remove"} => Owner[p.dev] = t /\ p.dev \in live
  /\ p.op = "unreg.count" => Owner[p.dev] = t

PlaceInv == \A t \in Thread : PlaceOK(t, at[t])

SecInv ==
  /\ \A t \in Thread : at[t].op \in Critical => sec[t] = "in"
  /\ ~met => \A t, u \in Thread : sec[t] = "in" /\ sec[u] = "in" => t = u

TablePart ==
  /\ InTable \subseteq live /\ Cardinality(InTable) <= Due /\ count <= MaxDevices
  /\ ~holed => InTable = live /\ \A i \in Slot : table[i] # None <=> i < Due
  /\ \A i, j \in Slot : table[i] # None /\ table[i] = table[j] => i = j

ReadOK(t) ==
  /\ at[t].op = "reg.store" => got[t] = count /\ count < MaxDevices
  /\ at[t].op = "unreg.remove" => got[t] \in Slot /\ table[got[t]] = at[t].dev
  /\ at[t].op = "unreg.count" => got[t] = count

TableInv == ~met => TablePart /\ \A t \in Thread : ReadOK(t)

UseInv == ~torn =>
  /\ \A d \in Sole : Opens(d) <= 1 /\ (enable[d] = 0 => opens[d] = {})
  /\ ~failed => \A d \in Device :
       enable[d] = Opens(d) /\ (on[d] <=> opens[d] # {})

EdfInv == TypeOK /\ PlaceInv /\ SecInv /\ TableInv /\ UseInv

-----------------------------------------------------------------------------
LEMMA LeastNat ==
  ASSUME NEW S \in SUBSET Nat, S # {}
  PROVE  \E g \in S : \A h \in S : g <= h
<1> DEFINE R == {ss \in Nat \X Nat : ss[1] < ss[2]}
<1>1. IsWellFoundedOn(R, Nat)
  BY NatLessThanWellFounded, Zenon DEF OpToRel
<1>2. PICK g \in S : \A h \in S : ~(<<h, g>> \in R)
  <2> HIDE DEF R
  <2> QED BY <1>1, WFMin
<1>3. ASSUME NEW h \in S PROVE g <= h
  <2>1. ~(<<h, g>> \in R)
    BY <1>2
  <2> QED BY <2>1
<1> QED BY <1>3

LEMMA SlotType ==
  /\ MaxDevices \in Nat /\ MaxDevices > 0
  /\ CountWrap \in Nat /\ CountWrap > MaxDevices
  /\ Slot \subseteq Nat /\ IsFiniteSet(Slot)
  /\ \A i \in Nat : i \in Slot <=> i < MaxDevices
<1>1. /\ MaxDevices \in Nat /\ MaxDevices > 0
      /\ CountWrap \in Nat /\ CountWrap > MaxDevices
  BY EdfAssumption
<1>2. IsFiniteSet(0 .. MaxDevices - 1)
  BY <1>1, FS_Interval
<1> QED BY <1>1, <1>2 DEF Slot

(* The devices in the table are finitely many. *)
LEMMA InTableFinite ==
  ASSUME NEW tb \in [Slot -> Device \cup {None}]
  PROVE  IsFiniteSet({tb[i] : i \in {j \in Slot : tb[j] # None}})
<1> DEFINE J == {j \in Slot : tb[j] # None}
           T == {tb[i] : i \in J}
           f == [i \in J |-> tb[i]]
<1>1. IsFiniteSet(J)
  BY SlotType, FS_Subset
<1>2. f \in Surjection(J, T)
  BY DEF Surjection
<1> HIDE DEF J, T, f
<1> QED BY <1>1, <1>2, FS_Surjection DEF T, J

(* So are the opens of a device. *)
LEMMA OpensFinite ==
  ASSUME EdfInv, NEW d \in Device
  PROVE  IsFiniteSet(opens[d]) /\ Opens(d) \in Nat /\ (Opens(d) = 0 <=> opens[d] = {})
<1>1. IsFiniteSet(Thread \X (1 .. MaxOpens))
  <2>1. IsFiniteSet(1 .. MaxOpens) /\ IsFiniteSet(Thread)
    BY EdfAssumption, FS_Interval
  <2> QED BY <2>1, FS_Product
<1>2. opens[d] \subseteq Thread \X (1 .. MaxOpens)
  BY DEF EdfInv, TypeOK
<1>3. IsFiniteSet(opens[d])
  BY <1>1, <1>2, FS_Subset
<1> QED BY <1>3, FS_CardinalityType, FS_EmptySet DEF Opens

LEMMA EdfInitInv == Init => EdfInv
<1> SUFFICES ASSUME Init PROVE EdfInv
  OBVIOUS
<1>1. TypeOK
  <2>1. 0 \in 0 .. CountWrap - 1 /\ 0 \in 0 .. MaxCount
    BY EdfAssumption
  <2> QED BY <2>1 DEF Init, TypeOK
<1>2. InTable = {} /\ IsFiniteSet(InTable) /\ Cardinality(InTable) = 0
  BY FS_EmptySet DEF Init, InTable
<1>3. \A t \in Thread : at[t].op = "idle"
  BY DEF Init, Idle
<1>4. TableInv
  <2>1. \A i \in Slot : table[i] = None /\ ~(i < 0)
    BY SlotType DEF Init
  <2>2. Due = 0 /\ count = 0
    BY <1>3 DEF Init, Due
  <2>3. TablePart
    BY <1>2, <2>1, <2>2, SlotType DEF Init, TablePart
  <2> QED BY <1>3, <2>3 DEF TableInv, ReadOK
<1>5. PlaceInv /\ SecInv
  BY <1>3 DEF Init, PlaceInv, PlaceOK, SecInv, Critical
<1>6. UseInv
  BY FS_EmptySet, EdfAssumption DEF Init, UseInv, Opens
<1> QED BY <1>1, <1>4, <1>5, <1>6 DEF EdfInv

(* Steps that leave all but halted, test and handle as they are. *)
LEMMA StillInv ==
  ASSUME EdfInv, halted' \in BOOLEAN,
         test' \in [Device -> Thread \cup {None}],
         UNCHANGED <<tableVars, lockVars, mutex, enable, on, at, handle, opens, ghostVars>>
  PROVE  EdfInv'
<1>1. UNCHANGED <<table, count, edf, sec, ref, got, mutex, enable, on, at, handle, opens,
                  live, holed, torn, failed, met>>
  BY DEF tableVars, lockVars, ghostVars
<1>2. TypeOK'
  BY <1>1 DEF EdfInv, TypeOK
<1>3. PlaceInv' /\ SecInv'
  BY <1>1 DEF EdfInv, PlaceInv, PlaceOK, SecInv
<1>4. TableInv'
  BY <1>1 DEF EdfInv, TableInv, TablePart, ReadOK, InTable, Due
<1>5. UseInv'
  BY <1>1 DEF EdfInv, UseInv, Opens
<1> QED BY <1>2, <1>3, <1>4, <1>5 DEF EdfInv

LEMMA HaltInv == ASSUME EdfInv, Halt PROVE EdfInv'
<1>1. test \in [Device -> Thread \cup {None}]
  BY DEF EdfInv, TypeOK
<1> QED BY <1>1, StillInv DEF Halt, deviceVars

(* The thread that is in a section is alone there.                         *)
LEMMA Alone ==
  ASSUME EdfInv, ~met, NEW t \in Thread, sec[t] = "in"
  PROVE  /\ \A u \in Thread : u # t => sec[u] # "in" /\ at[u].op \notin Critical
         /\ Due = IF at[t].op = "unreg.count" THEN count - 1 ELSE count
<1>1. ASSUME NEW u \in Thread, u # t PROVE sec[u] # "in" /\ at[u].op \notin Critical
  BY <1>1 DEF EdfInv, SecInv
<1>2. \A u \in Thread : at[u].op = "unreg.count" => u = t
  BY <1>1 DEF Critical
<1> QED BY <1>1, <1>2 DEF Due

(* Where the others are when a thread adds or removes a device of its own. *)
LEMMA OthersKeepPlace ==
  ASSUME EdfInv, NEW t \in Thread, NEW d \in Device, Owner[d] = t,
         NEW p \in Places, at' = [at EXCEPT ![t] = p], PlaceOK(t, p)',
         live' \subseteq live \cup {d}, live \subseteq live' \cup {d}
  PROVE  PlaceInv' /\ at' \in [Thread -> Places]
<1>1. at' \in [Thread -> Places]
  BY DEF EdfInv, TypeOK, Places
<1>2. ASSUME NEW u \in Thread PROVE PlaceOK(u, at[u])'
  <2>1. CASE u = t
    <3>1. at'[u] = p
      BY <2>1 DEF EdfInv, TypeOK
    <3> QED BY <2>1, <3>1 DEF PlaceOK
  <2>2. CASE u # t
    <3>1. at'[u] = at[u] /\ PlaceOK(u, at[u])
      BY <2>2 DEF EdfInv, TypeOK, PlaceInv
    <3> QED BY <2>2, <3>1 DEF PlaceOK
  <2> QED BY <2>1, <2>2
<1> QED BY <1>1, <1>2 DEF PlaceInv

(* The sections when a thread moves: it does not enter one.                *)
LEMMA SectionsKept ==
  ASSUME EdfInv, NEW t \in Thread, NEW p, at' = [at EXCEPT ![t] = p],
         \A u \in Thread \ {t} : sec'[u] = sec[u],
         sec'[t] = "in" => sec[t] = "in", p.op \in Critical => sec'[t] = "in",
         met' = met
  PROVE  SecInv'
<1>1. ASSUME NEW u \in Thread, at'[u].op \in Critical PROVE sec'[u] = "in"
  <2>1. CASE u = t
    BY <1>1, <2>1 DEF EdfInv, TypeOK
  <2>2. CASE u # t
    BY <1>1, <2>2 DEF EdfInv, TypeOK, SecInv
  <2> QED BY <2>1, <2>2
<1>2. ASSUME ~met', NEW u \in Thread, NEW v \in Thread, sec'[u] = "in", sec'[v] = "in"
      PROVE  u = v
  <2>1. sec[u] = "in" /\ sec[v] = "in"
    BY <1>2
  <2> QED BY <1>2, <2>1 DEF EdfInv, SecInv
<1> QED BY <1>1, <1>2 DEF SecInv

(* What a thread leaves when it goes from its section.                     *)
LEMMA LeaveType ==
  ASSUME EdfInv, NEW t \in Thread, Leave(t)
  PROVE  /\ edf' \in Thread \cup {None}
         /\ sec' \in [Thread -> {"out", "mutex", "create", "enter", "in"}]
         /\ ref' \in [Thread -> Thread \cup {None}]
         /\ got' \in [Thread -> 0 .. CountWrap - 1]
         /\ sec'[t] = "out"
         /\ \A u \in Thread \ {t} : sec'[u] = sec[u] /\ got'[u] = got[u]
<1>1. 0 \in 0 .. CountWrap - 1
  BY SlotType
<1> QED BY <1>1 DEF Leave, EdfInv, TypeOK

(* Steps that move a thread and change neither devices nor the table.      *)
LEMMA MoveInv ==
  ASSUME EdfInv, NEW t \in Thread, NEW p \in Places, PlaceOK(t, p),
         at' = [at EXCEPT ![t] = p],
         at[t].op \notin Critical, p.op \notin Critical,
         edf' \in Thread \cup {None},
         sec' \in [Thread -> {"out", "mutex", "create", "enter", "in"}],
         ref' \in [Thread -> Thread \cup {None}],
         got' \in [Thread -> 0 .. CountWrap - 1],
         \A u \in Thread \ {t} : sec'[u] = sec[u] /\ got'[u] = got[u],
         sec'[t] = "in" => sec[t] = "in",
         handle' \in [Thread -> Device \cup {None}],
         UNCHANGED <<tableVars, deviceVars, opens, ghostVars, halted>>
  PROVE  EdfInv'
<1>0. UNCHANGED <<table, count, mutex, enable, test, on, opens, live, holed, torn, failed, met, halted>>
  BY DEF tableVars, deviceVars, ghostVars
<1>1. at' \in [Thread -> Places]
  BY DEF EdfInv, TypeOK, Places
<1>2. TypeOK'
  BY <1>0, <1>1 DEF EdfInv, TypeOK, Places
<1>3. PlaceInv'
  <2> SUFFICES ASSUME NEW u \in Thread PROVE PlaceOK(u, at[u])'
    BY DEF PlaceInv
  <2>1. PlaceOK(u, at'[u])
    <3>1. CASE u = t
      BY <3>1 DEF EdfInv, TypeOK
    <3>2. CASE u # t
      BY <3>2 DEF EdfInv, TypeOK, PlaceInv
    <3> QED BY <3>1, <3>2
  <2> QED BY <1>0, <2>1 DEF PlaceOK
<1>4. SecInv'
  BY <1>0, SectionsKept
<1>5. ASSUME ~met PROVE TablePart' /\ \A u \in Thread : ReadOK(u)'
  <2>1. Due' = Due
    <3>1. ASSUME NEW u \in Thread PROVE at'[u].op = "unreg.count" <=> at[u].op = "unreg.count"
      BY DEF EdfInv, TypeOK, Critical
    <3> QED BY <1>0, <3>1 DEF Due
  <2>2. TablePart'
    BY <1>0, <1>5, <2>1 DEF EdfInv, TableInv, TablePart, InTable
  <2>3. ASSUME NEW u \in Thread PROVE ReadOK(u)'
    <3>1. CASE u = t
      <4>1. at'[u].op \notin Critical
        BY <3>1 DEF EdfInv, TypeOK
      <4> QED BY <4>1 DEF ReadOK, Critical
    <3>2. CASE u # t
      <4>1. at'[u] = at[u] /\ got'[u] = got[u] /\ ReadOK(u)
        BY <1>5, <3>2 DEF EdfInv, TypeOK, TableInv
      <4> QED BY <1>0, <4>1 DEF ReadOK
    <3> QED BY <3>1, <3>2
  <2> QED BY <2>2, <2>3
<1>6. TableInv'
  BY <1>0, <1>5 DEF TableInv
<1>7. UseInv'
  BY <1>0 DEF EdfInv, UseInv, Opens
<1> QED BY <1>2, <1>3, <1>4, <1>6, <1>7 DEF EdfInv

(* elab_device_find: the first entry of the name in front of any hole. *)
LEMMA FoundIs ==
  ASSUME NEW tb \in [Slot -> Device \cup {None}], NEW n
  PROVE  \/ /\ Found(tb, n) = None
            /\ \A i \in Slot : (\A j \in 0 .. i : tb[j] # None) => Name[tb[i]] # n
         \/ \E i \in Slot : tb[i] # None /\ Name[tb[i]] = n /\ Found(tb, n) = tb[i]
<1> DEFINE seen == {i \in Slot : \A j \in 0 .. i : tb[j] # None}
           hits == {i \in seen : Name[tb[i]] = n}
<1>1. CASE hits = {}
  BY <1>1 DEF Found
<1>2. CASE hits # {}
  <2>1. \A i \in hits : i \in Slot /\ tb[i] # None /\ Name[tb[i]] = n
    BY SlotType
  <2>2. hits \in SUBSET Nat
    BY SlotType
  <2>3. \E i \in hits : \A j \in hits : i <= j
    <3> HIDE DEF hits
    <3> QED BY <1>2, <2>2, LeastNat
  <2> DEFINE c == CHOOSE i \in hits : \A j \in hits : i <= j
  <2>4. c \in hits
    <3> HIDE DEF hits
    <3> QED BY <2>3
  <2>5. Found(tb, n) = tb[c]
    BY <1>2 DEF Found
  <2> HIDE DEF hits, c
  <2> QED BY <2>1, <2>4, <2>5
<1> QED BY <1>1, <1>2

LEMMA PlaceIsOp ==
  ASSUME NEW op \in Ops, NEW d \in Device
  PROVE  /\ [op |-> op, dev |-> d] \in Places
         /\ [op |-> op, dev |-> d].op = op /\ [op |-> op, dev |-> d].dev = d
BY DEF Places

LEMMA PlaceOf ==
  ASSUME EdfInv, NEW t \in Thread, at[t].op # "idle"
  PROVE  at[t].op \in Ops /\ at[t].dev \in Device
<1>1. at[t] \in [op : Ops, dev : Device]
  BY DEF EdfInv, TypeOK, Idle
<1> QED BY <1>1

LEMMA LockTypes ==
  ASSUME EdfInv
  PROVE  /\ edf \in Thread \cup {None}
         /\ sec \in [Thread -> {"out", "mutex", "create", "enter", "in"}]
         /\ ref \in [Thread -> Thread \cup {None}]
         /\ got \in [Thread -> 0 .. CountWrap - 1]
         /\ handle \in [Thread -> Device \cup {None}]
         /\ test \in [Device -> Thread \cup {None}]
         /\ table \in [Slot -> Device \cup {None}]
BY DEF EdfInv, TypeOK

LEMMA IdlePlace ==
  ASSUME NEW t \in Thread
  PROVE  Idle \in Places /\ Idle.op \notin Critical /\ PlaceOK(t, Idle) /\ PlaceOK(t, Idle)'
BY DEF Places, PlaceOK, Idle, Critical

(* A thread goes to a place inside a call, in no section or approaching    *)
(* one.                                                                    *)
LEMMA GotoInv ==
  ASSUME EdfInv, NEW t \in Thread, NEW op \in Ops \ Critical, NEW d \in Device,
         Goto(t, op, d), at[t].op \notin Critical, PlaceOK(t, [op |-> op, dev |-> d]),
         UNCHANGED lockVars \/ Approach(t),
         UNCHANGED <<tableVars, deviceVars, handle, opens, ghostVars, halted>>
  PROVE  EdfInv'
<1> DEFINE p == [op |-> op, dev |-> d]
<1>1. p \in Places /\ p.op \notin Critical
  BY PlaceIsOp
<1>2. /\ edf' \in Thread \cup {None}
      /\ sec' \in [Thread -> {"out", "mutex", "create", "enter", "in"}]
      /\ ref' \in [Thread -> Thread \cup {None}]
      /\ got' \in [Thread -> 0 .. CountWrap - 1]
      /\ \A u \in Thread \ {t} : sec'[u] = sec[u] /\ got'[u] = got[u]
      /\ sec'[t] = "in" => sec[t] = "in"
  <2>1. CASE UNCHANGED lockVars
    BY <2>1, LockTypes DEF lockVars
  <2>2. CASE Approach(t)
    BY <2>2, LockTypes DEF Approach
  <2> QED BY <2>1, <2>2
<1>3. handle' \in [Thread -> Device \cup {None}] /\ at' = [at EXCEPT ![t] = p]
  BY LockTypes DEF Goto
<1> HIDE DEF p
<1> QED BY <1>1, <1>2, <1>3, MoveInv DEF p

(* The calls and the first look at the table. *)
LEMMA CallInv ==
  ASSUME EdfInv, NEW t \in Thread,
         \/ \E d \in Device : CallFind(t, d) \/ CallRegister(t, d) \/ CallUnregister(t, d)
         \/ Deref(t)
  PROVE  EdfInv'
<1>1. /\ {"find.deref", "find.scan", "reg.deref", "reg.scan", "reg.add", "unreg.find"} \subseteq Ops \ Critical
      /\ Idle.op \notin Critical
  BY DEF Ops, Critical, Idle
<1>2. ASSUME NEW d \in Device, CallFind(t, d) PROVE EdfInv'
  <2>1. PICK op \in {"find.deref", "find.scan"} : Goto(t, op, d) /\ (UNCHANGED lockVars \/ Approach(t))
    BY <1>2 DEF CallFind
  <2>2. PlaceOK(t, [op |-> op, dev |-> d])
    BY DEF PlaceOK
  <2> QED BY <1>1, <1>2, <2>1, <2>2, GotoInv DEF CallFind
<1>3. ASSUME NEW d \in Device, CallRegister(t, d) PROVE EdfInv'
  <2>1. PICK op \in {"reg.deref", "reg.scan"} : Goto(t, op, d) /\ (UNCHANGED lockVars \/ Approach(t))
    BY <1>3 DEF CallRegister
  <2>2. PlaceOK(t, [op |-> op, dev |-> d])
    BY <1>3 DEF PlaceOK, CallRegister
  <2> QED BY <1>1, <1>3, <2>1, <2>2, GotoInv DEF CallRegister
<1>4. ASSUME NEW d \in Device, CallUnregister(t, d) PROVE EdfInv'
  <2>1. PlaceOK(t, [op |-> "unreg.find", dev |-> d])
    BY <1>4 DEF PlaceOK, CallUnregister
  <2> QED BY <1>1, <1>4, <2>1, HaltInv, GotoInv DEF CallUnregister
<1>5. CASE Deref(t)
  <2>1. CASE Halt
    BY <2>1, HaltInv
  <2>2. CASE ~Halt
    <3> DEFINE op == IF at[t].op = "find.deref" THEN "find.scan" ELSE "reg.scan"
    <3>1. at[t].op \in {"find.deref", "reg.deref"} /\ Goto(t, op, at[t].dev) /\ Approach(t)
          /\ UNCHANGED <<tableVars, deviceVars, handle, opens, ghostVars, halted>>
      BY <1>5, <2>2 DEF Deref
    <3>2. PlaceOK(t, at[t])
      BY DEF EdfInv, PlaceInv
    <3>3. at[t].dev \in Device /\ PlaceOK(t, [op |-> op, dev |-> at[t].dev])
      BY <3>1, <3>2, PlaceOf DEF PlaceOK
    <3>4. op \in Ops \ Critical /\ at[t].op \notin Critical
      BY <1>1, <3>1
    <3> HIDE DEF op
    <3> QED BY <3>1, <3>3, <3>4, GotoInv
  <2> QED BY <2>1, <2>2
<1> QED BY <1>2, <1>3, <1>4, <1>5

(* The searches in their sections. *)
LEMMA ResultType ==
  ASSUME EdfInv, NEW t \in Thread, NEW n, NEW r \in Results(t, n)
  PROVE  r \in Device \cup {None}
<1>1. Found(table, n) \in Device \cup {None}
  BY LockTypes, FoundIs
<1> QED BY <1>1 DEF Results

LEMMA SearchInv ==
  ASSUME EdfInv, NEW t \in Thread, FindScan(t) \/ RegisterScan(t)
  PROVE  EdfInv'
<1>1. CASE Halt
  BY <1>1, HaltInv
<1>2. CASE ~Halt /\ FindScan(t)
  <2>1. PICK r \in Results(t, Name[at[t].dev]) :
          /\ handle' = [handle EXCEPT ![t] = r] /\ at' = [at EXCEPT ![t] = Idle] /\ Leave(t)
          /\ UNCHANGED <<tableVars, deviceVars, opens, ghostVars, halted>>
    BY <1>2 DEF FindScan
  <2>2. handle' \in [Thread -> Device \cup {None}]
    BY <2>1, ResultType, LockTypes
  <2>3. at[t].op \notin Critical
    BY <1>2 DEF FindScan, In, Critical
  <2> QED BY <2>1, <2>2, <2>3, IdlePlace, LeaveType, MoveInv
<1>3. CASE ~Halt /\ RegisterScan(t)
  <2> DEFINE p == [op |-> "reg.add", dev |-> at[t].dev]
  <2>1. /\ at[t].op = "reg.scan" /\ at' = [at EXCEPT ![t] = p]
        /\ sec' = [sec EXCEPT ![t] = "mutex"] /\ ref' = [ref EXCEPT ![t] = None]
        /\ UNCHANGED <<tableVars, edf, got, deviceVars, handle, opens, ghostVars, halted>>
    BY <1>3 DEF RegisterScan, In, Goto
  <2>2. PlaceOK(t, at[t])
    BY DEF EdfInv, PlaceInv
  <2>3. p \in Places /\ PlaceOK(t, p) /\ p.op \notin Critical /\ at[t].op \notin Critical
    <3>1. "reg.add" \in Ops /\ at[t].dev \in Device
      BY <2>1, PlaceOf DEF Ops
    <3> QED BY <2>1, <2>2, <3>1, PlaceIsOp DEF PlaceOK, Critical
  <2>4. /\ sec' \in [Thread -> {"out", "mutex", "create", "enter", "in"}]
        /\ ref' \in [Thread -> Thread \cup {None}]
        /\ \A u \in Thread \ {t} : sec'[u] = sec[u] /\ got'[u] = got[u]
        /\ sec'[t] # "in"
    BY <2>1, LockTypes
  <2> HIDE DEF p
  <2> QED BY <2>1, <2>3, <2>4, LockTypes, MoveInv
<1> QED BY <1>1, <1>2, <1>3

(* The way into a section. *)
LEMMA SectionInv ==
  ASSUME EdfInv, NEW t \in Thread, EdfMutex(t) \/ EdfCreate(t) \/ Enter(t)
  PROVE  EdfInv'
<1>1. /\ sec[t] \in {"mutex", "create", "enter"} /\ sec' \in [Thread -> {"out", "mutex", "create", "enter", "in"}]
      /\ \A u \in Thread \ {t} : sec'[u] = sec[u]
      /\ edf' \in Thread \cup {None} /\ ref' \in [Thread -> Thread \cup {None}]
      /\ met' \in BOOLEAN /\ (~met' => ~met)
      /\ UNCHANGED <<table, count, got, mutex, enable, test, on, at, handle, opens, live, holed,
                     torn, failed, halted>>
  <2>1. edf # None => edf \in Thread
    BY LockTypes
  <2>2. CASE EdfMutex(t)
    BY <2>1, <2>2, LockTypes DEF EdfMutex, tableVars, deviceVars, ghostVars, EdfInv, TypeOK
  <2>3. CASE EdfCreate(t)
    BY <2>3, LockTypes DEF EdfCreate, tableVars, deviceVars, ghostVars, EdfInv, TypeOK
  <2>4. CASE Enter(t)
    BY <2>4, LockTypes DEF Enter, tableVars, deviceVars, EdfInv, TypeOK
  <2> QED BY <2>2, <2>3, <2>4
<1>2. TypeOK'
  BY <1>1 DEF EdfInv, TypeOK
<1>3. PlaceInv'
  BY <1>1 DEF EdfInv, PlaceInv, PlaceOK
<1>4. SecInv'
  <2>1. ASSUME NEW u \in Thread, at[u].op \in Critical PROVE sec'[u] = "in"
    BY <1>1, <2>1 DEF EdfInv, SecInv
  <2>2. ASSUME ~met', NEW u \in Thread, NEW v \in Thread, sec'[u] = "in", sec'[v] = "in"
        PROVE  u = v
    <3>1. sec'[t] = "in" => \A w \in Thread : sec[w] # "in"
      BY <1>1, <2>2, LockTypes DEF EdfMutex, EdfCreate, Enter
    <3>2. \A a, b \in Thread : sec[a] = "in" /\ sec[b] = "in" => a = b
      BY <1>1, <2>2 DEF EdfInv, SecInv
    <3> QED BY <1>1, <2>2, <3>1, <3>2
  <2> QED BY <1>1, <2>1, <2>2 DEF SecInv
<1>5. TableInv'
  BY <1>1 DEF EdfInv, TableInv, TablePart, ReadOK, InTable, Due
<1>6. UseInv'
  BY <1>1 DEF EdfInv, UseInv, Opens
<1> QED BY <1>2, <1>3, <1>4, <1>5, <1>6 DEF EdfInv

-----------------------------------------------------------------------------
(* The first half of _add_device. *)
LEMMA RegisterAddInv ==
  ASSUME EdfInv, NEW t \in Thread, RegisterAdd(t)
  PROVE  EdfInv'
<1>0. PICK d, p : d = at[t].dev /\ p = [op |-> "reg.store", dev |-> d]
  OBVIOUS
<1>1. CASE Halt
  BY <1>1, HaltInv
<1>2. CASE ~Halt
  <2>1. /\ at[t].op = "reg.add" /\ sec[t] = "in" /\ count < MaxDevices
        /\ enable' = [enable EXCEPT ![d] = 0] /\ mutex' = [mutex EXCEPT ![d] = TRUE]
        /\ torn' = (torn \/ opens[d] # {}) /\ got' = [got EXCEPT ![t] = count]
        /\ at' = [at EXCEPT ![t] = p]
        /\ UNCHANGED <<table, count, edf, sec, ref, test, on, handle, opens, live, holed, failed,
                       met, halted>>
    BY <1>0, <1>2 DEF RegisterAdd, In, Goto, tableVars
  <2>2. d \in Device /\ PlaceOK(t, at[t])
    BY <1>0, <2>1, PlaceOf DEF EdfInv, PlaceInv
  <2>3. p \in Places /\ p.op = "reg.store" /\ p.dev = d
    BY <1>0, <2>2, PlaceIsOp DEF Ops
  <2>4. Owner[d] = t /\ PlaceOK(t, p)'
    BY <1>0, <2>1, <2>2, <2>3 DEF PlaceOK
  <2>5. /\ count \in 0 .. CountWrap - 1 /\ enable \in [Device -> 0 .. MaxCount]
        /\ torn \in BOOLEAN /\ mutex \in [Device -> BOOLEAN]
    BY DEF EdfInv, TypeOK
  <2>6. PlaceInv' /\ at' \in [Thread -> Places]
    BY <2>1, <2>2, <2>3, <2>4, OthersKeepPlace
  <2>7. TypeOK'
    <3>1. /\ enable' \in [Device -> 0 .. MaxCount] /\ mutex' \in [Device -> BOOLEAN]
          /\ torn' \in BOOLEAN /\ got' \in [Thread -> 0 .. CountWrap - 1]
      BY <2>1, <2>2, <2>5, LockTypes, EdfAssumption
    <3> QED BY <2>1, <2>6, <3>1 DEF EdfInv, TypeOK, Places
  <2>8. SecInv'
    BY <2>1, <2>3, SectionsKept
  <2>9. ASSUME ~met PROVE TablePart' /\ \A u \in Thread : ReadOK(u)'
    <3>1. \A u \in Thread : at'[u].op = "unreg.count" <=> at[u].op = "unreg.count"
      BY <2>1, <2>3 DEF EdfInv, TypeOK
    <3>2. Due' = Due
      BY <2>1, <3>1 DEF Due
    <3>3. TablePart'
      BY <2>1, <2>9, <3>2 DEF EdfInv, TableInv, TablePart, InTable
    <3>4. ASSUME NEW u \in Thread PROVE ReadOK(u)'
      <4>1. CASE u = t
        BY <2>1, <2>3, <4>1, LockTypes DEF EdfInv, TypeOK, ReadOK
      <4>2. CASE u # t
        <5>1. at'[u] = at[u] /\ at[u].op \notin Critical
          BY <2>1, <2>9, <4>2, Alone DEF EdfInv, TypeOK
        <5> QED BY <5>1 DEF ReadOK, Critical
      <4> QED BY <4>1, <4>2
    <3> QED BY <3>3, <3>4
  <2>10. TableInv'
    BY <2>1, <2>9 DEF TableInv
  <2>11. UseInv'
    <3> SUFFICES ASSUME ~torn'
                 PROVE  /\ \A e \in Sole : Opens(e) <= 1 /\ (enable'[e] = 0 => opens[e] = {})
                        /\ ~failed => \A e \in Device :
                             enable'[e] = Opens(e) /\ (on[e] <=> opens[e] # {})
      BY <2>1 DEF UseInv, Opens
    <3>1. ~torn /\ opens[d] = {} /\ Opens(d) = 0
      BY <2>1, FS_EmptySet DEF Opens
    <3>2. \A e \in Device : enable'[e] = IF e = d THEN 0 ELSE enable[e]
      BY <2>1, <2>5
    <3>3. Sole \subseteq Device
      BY EdfAssumption
    <3> QED BY <3>1, <3>2, <3>3 DEF EdfInv, UseInv
  <2> QED BY <2>6, <2>7, <2>8, <2>10, <2>11 DEF EdfInv
<1> QED BY <1>1, <1>2

(* Steps that leave the section and change the table, the count or the     *)
(* devices that are registered.                                            *)
LEMMA LeaveInv ==
  ASSUME EdfInv, NEW t \in Thread, sec[t] = "in", NEW d \in Device, Owner[d] = t,
         at' = [at EXCEPT ![t] = Idle], Leave(t),
         table' \in [Slot -> Device \cup {None}], count' \in 0 .. CountWrap - 1,
         live' \subseteq live \cup {d}, live \subseteq live' \cup {d}, live' \subseteq Device,
         torn' \in BOOLEAN, torn => torn',
         ~met => TablePart',
         UNCHANGED <<deviceVars, handle, opens, holed, failed, met, halted>>
  PROVE  EdfInv'
<1>0. UNCHANGED <<mutex, enable, test, on>>
  BY DEF deviceVars
<1>1. PlaceInv' /\ at' \in [Thread -> Places]
  BY IdlePlace, OthersKeepPlace
<1>2. TypeOK'
  BY <1>0, <1>1, LeaveType DEF EdfInv, TypeOK, Places
<1>3. SecInv'
  <2>1. Idle.op \notin Critical
    BY IdlePlace
  <2>2. sec'[t] # "in" /\ \A u \in Thread \ {t} : sec'[u] = sec[u]
    BY LeaveType
  <2> QED BY <2>1, <2>2, SectionsKept
<1>4. ASSUME ~met, NEW u \in Thread PROVE ReadOK(u)'
  <2>1. at'[u].op \notin Critical
    <3>1. CASE u = t
      BY <3>1, IdlePlace DEF EdfInv, TypeOK
    <3>2. CASE u # t
      BY <1>4, <3>2, Alone DEF EdfInv, TypeOK
    <3> QED BY <3>1, <3>2
  <2> QED BY <2>1 DEF ReadOK, Critical
<1>5. TableInv'
  BY <1>4 DEF TableInv
<1>6. UseInv'
  BY <1>0 DEF EdfInv, UseInv, Opens
<1> QED BY <1>1, <1>2, <1>3, <1>5, <1>6 DEF EdfInv

(* Once the thread that was alone in its section is out of it, nothing is  *)
(* due.                                                                    *)
LEMMA DueAfter ==
  ASSUME EdfInv, ~met, NEW t \in Thread, sec[t] = "in", at' = [at EXCEPT ![t] = Idle]
  PROVE  Due' = count'
<1>1. ASSUME NEW u \in Thread PROVE at'[u].op # "unreg.count"
  <2>1. CASE u = t
    BY <2>1, IdlePlace DEF EdfInv, TypeOK, Critical
  <2>2. CASE u # t
    BY <2>2, Alone DEF EdfInv, TypeOK, Critical
  <2> QED BY <2>1, <2>2
<1> QED BY <1>1 DEF Due

LEMMA TablePartIs ==
  ASSUME EdfInv, ~met
  PROVE  /\ InTable \subseteq live /\ IsFiniteSet(InTable) /\ Cardinality(InTable) \in Nat
         /\ Cardinality(InTable) <= Due /\ count \in 0 .. MaxDevices
         /\ ~holed => InTable = live /\ \A i \in Slot : table[i] # None <=> i < Due
         /\ \A i, j \in Slot : table[i] # None /\ table[i] = table[j] => i = j
<1>1. IsFiniteSet(InTable)
  BY LockTypes, InTableFinite DEF InTable
<1>2. count \in 0 .. MaxDevices
  BY SlotType DEF EdfInv, TypeOK, TableInv, TablePart
<1> QED BY <1>1, <1>2, FS_CardinalityType DEF EdfInv, TableInv, TablePart

(* The second half of _add_device. *)
LEMMA RegisterStoreInv ==
  ASSUME EdfInv, NEW t \in Thread, RegisterStore(t)
  PROVE  EdfInv'
<1> DEFINE d == at[t].dev
<1>1. CASE Halt
  BY <1>1, HaltInv
<1>2. CASE ~Halt
  <2>1. PICK n \in {got[t], count} :
          /\ at[t].op = "reg.store" /\ sec[t] = "in" /\ n < MaxDevices
          /\ table' = [i \in Slot |-> IF i = n THEN d ELSE IF got[t] = 0 THEN None ELSE table[i]]
          /\ count' = n + 1 /\ live' = live \cup {d}
          /\ at' = [at EXCEPT ![t] = Idle] /\ Leave(t)
          /\ UNCHANGED <<deviceVars, handle, opens, holed, torn, failed, met, halted>>
    BY <1>2 DEF RegisterStore, In
  <2>2. d \in Device /\ Owner[d] = t /\ d \notin live /\ d # None
    <3>1. PlaceOK(t, at[t])
      BY DEF EdfInv, PlaceInv
    <3> QED BY <2>1, <3>1, PlaceOf, EdfAssumption DEF PlaceOK
  <2> HIDE DEF d
  <2>3. /\ table \in [Slot -> Device \cup {None}] /\ count \in 0 .. CountWrap - 1
        /\ live \subseteq Device /\ torn \in BOOLEAN
    BY DEF EdfInv, TypeOK
  <2>4. n \in Nat /\ count' \in 0 .. CountWrap - 1
    <3>1. n \in 0 .. CountWrap - 1
      BY <2>3, LockTypes
    <3> QED BY <2>1, <3>1, SlotType
  <2>5. table' \in [Slot -> Device \cup {None}]
    BY <2>1, <2>2, <2>3
  <2>6. ASSUME ~met PROVE TablePart'
    <3>1. n = count /\ got[t] = count /\ count \in Slot /\ Due = count /\ Due' = count + 1
      <4>1. got[t] = count
        BY <2>1, <2>6 DEF EdfInv, TableInv, ReadOK
      <4> QED BY <2>1, <2>4, <2>6, <4>1, Alone, DueAfter, SlotType
    <3>2. /\ InTable \subseteq live /\ IsFiniteSet(InTable) /\ Cardinality(InTable) \in Nat
          /\ Cardinality(InTable) <= count /\ count \in 0 .. MaxDevices
      BY <2>6, <3>1, TablePartIs
    <3>3. ASSUME NEW i \in Slot PROVE table'[i] = IF i = count THEN d ELSE table[i]
      <4>1. CASE count = 0
        <5>1. InTable = {}
          BY <3>2, <4>1, FS_EmptySet
        <5>2. table[i] = None
          BY <2>3, <5>1 DEF InTable
        <5> QED BY <2>1, <3>1, <4>1, <5>2
      <4>2. CASE count # 0
        BY <2>1, <3>1, <4>2
      <4> QED BY <4>1, <4>2
    <3>4. InTable' \subseteq InTable \cup {d}
      BY <2>2, <3>3 DEF InTable
    <3>5. Cardinality(InTable') <= Due' /\ InTable' \subseteq live' /\ count' <= MaxDevices
      <4>1. IsFiniteSet(InTable \cup {d}) /\ Cardinality(InTable \cup {d}) \in Nat
            /\ Cardinality(InTable \cup {d}) <= Cardinality(InTable) + 1
        <5>1. /\ IsFiniteSet(InTable \cup {d})
              /\ Cardinality(InTable \cup {d}) =
                   IF d \in InTable THEN Cardinality(InTable) ELSE Cardinality(InTable) + 1
          BY <3>2, FS_AddElement
        <5>2. Cardinality(InTable \cup {d}) \in Nat
          BY <5>1, FS_CardinalityType
        <5> QED BY <3>2, <5>1, <5>2
      <4>2. IsFiniteSet(InTable') /\ Cardinality(InTable') <= Cardinality(InTable \cup {d})
        BY <3>4, <4>1, FS_Subset
      <4>3. Cardinality(InTable') \in Nat
        BY <4>2, FS_CardinalityType
      <4>4. count' <= MaxDevices
        BY <2>1, <3>1, <3>2, SlotType
      <4> QED BY <2>1, <3>1, <3>2, <3>4, <4>1, <4>2, <4>3, <4>4
    <3>6. ASSUME ~holed PROVE InTable' = live' /\ \A i \in Slot : table'[i] # None <=> i < Due'
      <4>1. InTable = live /\ \A i \in Slot : table[i] # None <=> i < count
        BY <2>6, <3>1, <3>6, TablePartIs
      <4>2. table[count] = None
        BY <3>1, <3>2, <4>1
      <4>3. \A i \in Slot : table'[i] # None <=> i < count + 1
        BY <2>2, <3>1, <3>2, <3>3, <4>1, SlotType
      <4>4. InTable \subseteq InTable'
        <5> SUFFICES ASSUME NEW i \in Slot, table[i] # None PROVE table[i] \in InTable'
          BY DEF InTable
        <5>1. table'[i] = table[i] /\ table'[i] # None
          BY <3>3, <4>2
        <5> QED BY <5>1 DEF InTable
      <4>5. d \in InTable'
        BY <2>2, <3>1, <3>3 DEF InTable
      <4> QED BY <2>1, <3>1, <3>4, <4>1, <4>3, <4>4, <4>5
    <3>7. \A i, j \in Slot : table'[i] # None /\ table'[i] = table'[j] => i = j
      <4>1. \A i \in Slot : table[i] # d
        BY <2>2, <3>2 DEF InTable
      <4> QED BY <2>6, <3>3, <4>1, TablePartIs
    <3> QED BY <2>1, <3>5, <3>6, <3>7 DEF TablePart
  <2>7. live' \subseteq Device
    BY <2>1, <2>2, <2>3
  <2> QED BY <2>1, <2>2, <2>3, <2>4, <2>5, <2>6, <2>7, LeaveInv
<1> QED BY <1>1, <1>2

-----------------------------------------------------------------------------
LEMMA UnregisterFindInv ==
  ASSUME EdfInv, NEW t \in Thread, UnregisterFind(t)
  PROVE  EdfInv'
<1>0. PICK d, p : d = at[t].dev /\ p = [op |-> "unreg.remove", dev |-> d]
  OBVIOUS
<1>1. /\ at[t].op = "unreg.find" /\ sec[t] = "in"
      /\ UNCHANGED <<table, count, deviceVars, mutex, enable, test, on, handle, opens, holed, failed, met, halted>>
  BY DEF UnregisterFind, In, tableVars, deviceVars
<1>2. d \in Device /\ PlaceOK(t, at[t]) /\ Owner[d] = t /\ d \in live /\ d # None
  <2>1. d \in Device /\ PlaceOK(t, at[t])
    BY <1>0, <1>1, PlaceOf DEF EdfInv, PlaceInv
  <2> QED BY <1>0, <1>1, <2>1, EdfAssumption DEF PlaceOK
<1>3. ASSUME NEW i \in Slot, table[i] = d, got' = [got EXCEPT ![t] = i], Goto(t, "unreg.remove", d),
             UNCHANGED <<edf, sec, ref, live, torn>>
      PROVE  EdfInv'
  <2>1. p \in Places /\ p.op = "unreg.remove" /\ p.dev = d /\ at' = [at EXCEPT ![t] = p]
    BY <1>0, <1>2, <1>3, PlaceIsOp DEF Ops, Goto
  <2>2. PlaceOK(t, p)'
    BY <1>2, <1>3, <2>1 DEF PlaceOK
  <2>3. PlaceInv' /\ at' \in [Thread -> Places]
    BY <1>2, <1>3, <2>1, <2>2, OthersKeepPlace
  <2>4. TypeOK'
    <3>1. got' \in [Thread -> 0 .. CountWrap - 1]
      BY <1>3, SlotType, LockTypes
    <3> QED BY <1>1, <1>3, <2>3, <3>1 DEF EdfInv, TypeOK, Places
  <2>5. SecInv'
    BY <1>1, <1>3, <2>1, SectionsKept
  <2>6. ASSUME ~met PROVE TablePart' /\ \A u \in Thread : ReadOK(u)'
    <3>1. \A u \in Thread : at'[u].op = "unreg.count" <=> at[u].op = "unreg.count"
      BY <1>1, <2>1 DEF EdfInv, TypeOK
    <3>2. Due' = Due
      BY <1>1, <3>1 DEF Due
    <3>3. TablePart'
      BY <1>1, <1>3, <2>6, <3>2 DEF EdfInv, TableInv, TablePart, InTable
    <3>4. ASSUME NEW u \in Thread PROVE ReadOK(u)'
      <4>1. CASE u = t
        BY <1>1, <1>3, <2>1, <4>1, LockTypes DEF EdfInv, TypeOK, ReadOK
      <4>2. CASE u # t
        <5>1. at'[u] = at[u] /\ at[u].op \notin Critical
          BY <1>1, <2>1, <2>6, <4>2, Alone DEF EdfInv, TypeOK
        <5> QED BY <5>1 DEF ReadOK, Critical
      <4> QED BY <4>1, <4>2
    <3> QED BY <3>3, <3>4
  <2>7. TableInv'
    BY <1>1, <2>6 DEF TableInv
  <2>8. UseInv'
    BY <1>1, <1>3 DEF EdfInv, UseInv, Opens
  <2> QED BY <2>3, <2>4, <2>5, <2>7, <2>8 DEF EdfInv
<1>4. ASSUME \A i \in Slot : table[i] # d, live' = live \ {d}, torn' = (torn \/ opens[d] # {}),
             at' = [at EXCEPT ![t] = Idle], Leave(t)
      PROVE  EdfInv'
  <2>1. /\ table' \in [Slot -> Device \cup {None}] /\ count' \in 0 .. CountWrap - 1
        /\ live' \subseteq Device /\ torn' \in BOOLEAN /\ (torn => torn')
    BY <1>1, <1>4 DEF EdfInv, TypeOK
  <2>2. ASSUME ~met PROVE TablePart'
    <3>1. d \notin InTable /\ InTable' = InTable
      BY <1>1, <1>4 DEF InTable
    <3>2. Due = count /\ Due' = count
      BY <1>1, <1>4, <2>2, Alone, DueAfter
    <3>3. holed
      BY <1>2, <2>2, <3>1, TablePartIs
    <3> QED BY <1>1, <1>4, <2>2, <3>1, <3>2, <3>3, TablePartIs DEF TablePart
  <2> QED BY <1>1, <1>2, <1>4, <2>1, <2>2, LeaveInv
<1> QED BY <1>0, <1>3, <1>4 DEF UnregisterFind

LEMMA UnregisterRemoveInv ==
  ASSUME EdfInv, NEW t \in Thread, UnregisterRemove(t)
  PROVE  EdfInv'
<1>0. PICK k, d, p : k = got[t] /\ d = at[t].dev /\ p = [op |-> "unreg.count", dev |-> d]
  OBVIOUS
<1>1. CASE Halt
  BY <1>1, HaltInv
<1>2. CASE ~Halt
  <2>1. /\ at[t].op = "unreg.remove" /\ sec[t] = "in"
        /\ table' = [table EXCEPT ![k] = None]
        /\ mutex' = [mutex EXCEPT ![d] = FALSE]
        /\ live' = live \ {d} /\ torn' = (torn \/ opens[d] # {})
        /\ holed' = (holed \/ (k + 1 < MaxDevices /\ table[k + 1] # None))
        /\ got' = [got EXCEPT ![t] = count] /\ at' = [at EXCEPT ![t] = p]
        /\ UNCHANGED <<count, edf, sec, ref, enable, test, on, handle, opens, failed, met, halted>>
    BY <1>0, <1>2 DEF UnregisterRemove, In, Goto
  <2>2. d \in Device /\ Owner[d] = t /\ d \in live /\ d # None
    <3>1. PlaceOK(t, at[t])
      BY DEF EdfInv, PlaceInv
    <3> QED BY <1>0, <2>1, <3>1, PlaceOf, EdfAssumption DEF PlaceOK
  <2>3. p \in Places /\ p.op = "unreg.count" /\ p.dev = d /\ PlaceOK(t, p)'
    <3>1. p \in Places /\ p.op = "unreg.count" /\ p.dev = d
      BY <1>0, <2>2, PlaceIsOp DEF Ops
    <3> QED BY <2>2, <3>1 DEF PlaceOK
  <2>4. at[t].dev = d
    BY <1>0
  <2>5. /\ table \in [Slot -> Device \cup {None}] /\ count \in 0 .. CountWrap - 1
        /\ live \subseteq Device /\ torn \in BOOLEAN /\ holed \in BOOLEAN
        /\ mutex \in [Device -> BOOLEAN]
    BY DEF EdfInv, TypeOK
  <2>6. PlaceInv' /\ at' \in [Thread -> Places]
    BY <2>1, <2>2, <2>3, OthersKeepPlace
  <2>7. TypeOK'
    <3>1. /\ mutex' \in [Device -> BOOLEAN] /\ live' \subseteq Device
          /\ torn' \in BOOLEAN /\ holed' \in BOOLEAN
          /\ table' \in [Slot -> Device \cup {None}] /\ got' \in [Thread -> 0 .. CountWrap - 1]
      BY <2>1, <2>2, <2>5, LockTypes
    <3> QED BY <2>1, <2>6, <3>1 DEF EdfInv, TypeOK, Places
  <2>8. SecInv'
    BY <2>1, SectionsKept
  <2>9. ASSUME ~met PROVE TablePart' /\ \A u \in Thread : ReadOK(u)'
    <3>1. Due = count /\ k \in Slot /\ table[k] = d
      <4>1. ReadOK(t)
        BY <2>9 DEF EdfInv, TableInv
      <4> QED BY <1>0, <2>1, <2>4, <2>9, <4>1, Alone DEF ReadOK
    <3>2. Due' = count - 1 /\ at'[t].op = "unreg.count"
      <4>1. at'[t].op = "unreg.count"
        BY <2>1, <2>3 DEF EdfInv, TypeOK
      <4> QED BY <2>1, <4>1 DEF Due
    <3>3. /\ InTable \subseteq live /\ IsFiniteSet(InTable) /\ Cardinality(InTable) \in Nat
          /\ Cardinality(InTable) <= count /\ count \in 0 .. MaxDevices
          /\ \A i, j \in Slot : table[i] # None /\ table[i] = table[j] => i = j
      BY <2>9, <3>1, TablePartIs
    <3>4. ASSUME NEW i \in Slot PROVE table'[i] = IF i = k THEN None ELSE table[i]
      BY <2>1, <2>5
    <3>5. InTable' = InTable \ {d} /\ d \in InTable
      <4>1. \A i \in Slot : table[i] = d => i = k
        BY <2>2, <3>1, <3>3
      <4>2. d \in InTable
        BY <2>2, <3>1 DEF InTable
      <4>3. InTable' \subseteq InTable \ {d}
        BY <3>4, <4>1 DEF InTable
      <4>4. ASSUME NEW e \in InTable, e # d PROVE e \in InTable'
        <5>1. PICK i \in Slot : table[i] # None /\ table[i] = e
          BY <4>4 DEF InTable
        <5>2. table'[i] = e /\ e # None
          BY <3>1, <3>4, <4>4, <5>1
        <5> QED BY <5>2 DEF InTable
      <4> QED BY <4>2, <4>3, <4>4
    <3>6. Cardinality(InTable') <= Due' /\ InTable' \subseteq live' /\ count' <= MaxDevices
      <4>1. /\ Cardinality(InTable') = Cardinality(InTable) - 1
        BY <3>3, <3>5, FS_RemoveElement
      <4> QED BY <2>1, <3>2, <3>3, <3>5, <4>1, SlotType
    <3>7. ASSUME ~holed' PROVE InTable' = live' /\ \A i \in Slot : table'[i] # None <=> i < Due'
      <4>1. InTable = live /\ \A i \in Slot : table[i] # None <=> i < count
        BY <2>1, <2>9, <3>1, <3>7, TablePartIs
      <4>2. k \in Nat /\ k < MaxDevices /\ k < count
        BY <2>2, <3>1, <4>1, SlotType
      <4>3. k = count - 1
        <5>1. CASE k + 1 < MaxDevices
          <6>1. k + 1 \in Slot /\ table[k + 1] = None
            <7>1. k + 1 \in Nat
              BY <4>2
            <7>2. k + 1 \in Slot
              BY <5>1, <7>1, SlotType
            <7> QED BY <2>1, <3>7, <5>1, <7>2
          <6>2. ~(k + 1 < count)
            BY <4>1, <6>1
          <6> QED BY <3>3, <4>2, <6>2
        <5>2. CASE ~(k + 1 < MaxDevices)
          BY <3>3, <4>2, <5>2, SlotType
        <5> QED BY <5>1, <5>2
      <4>4. ASSUME NEW i \in Slot PROVE table'[i] # None <=> i < count - 1
        <5>1. i \in Nat /\ (table[i] # None <=> i < count)
          BY <4>1, SlotType
        <5>2. CASE i = k
          BY <3>3, <3>4, <4>3, <5>1, <5>2
        <5>3. CASE i # k
          BY <3>3, <3>4, <4>3, <5>1, <5>3
        <5> QED BY <5>2, <5>3
      <4> QED BY <2>1, <3>2, <3>5, <4>1, <4>4
    <3>8. \A i, j \in Slot : table'[i] # None /\ table'[i] = table'[j] => i = j
      BY <3>3, <3>4
    <3>9. ASSUME NEW u \in Thread PROVE ReadOK(u)'
      <4>1. CASE u = t
        BY <2>1, <3>2, <4>1, LockTypes DEF ReadOK
      <4>2. CASE u # t
        <5>1. at'[u] = at[u] /\ at[u].op \notin Critical
          BY <2>1, <2>9, <4>2, Alone DEF EdfInv, TypeOK
        <5> QED BY <5>1 DEF ReadOK, Critical
      <4> QED BY <4>1, <4>2
    <3> QED BY <3>6, <3>7, <3>8, <3>9 DEF TablePart
  <2>10. TableInv'
    BY <2>1, <2>9 DEF TableInv
  <2>11. UseInv'
    BY <2>1 DEF EdfInv, UseInv, Opens
  <2> QED BY <2>6, <2>7, <2>8, <2>10, <2>11 DEF EdfInv
<1> QED BY <1>1, <1>2

LEMMA UnregisterCountInv ==
  ASSUME EdfInv, NEW t \in Thread, UnregisterCount(t)
  PROVE  EdfInv'
<1>1. PICK n \in {got[t], count} :
        /\ at[t].op = "unreg.count" /\ sec[t] = "in" /\ count' = (n - 1) % CountWrap
        /\ at' = [at EXCEPT ![t] = Idle] /\ Leave(t)
        /\ UNCHANGED <<table, deviceVars, handle, opens, live, holed, torn, failed, met, halted>>
  BY DEF UnregisterCount, In, ghostVars
<1>2. n \in 0 .. CountWrap - 1 /\ CountWrap \in Nat /\ CountWrap > 0
  BY LockTypes, SlotType DEF EdfInv, TypeOK
<1>3. count' \in 0 .. CountWrap - 1 /\ (n > 0 => count' = n - 1)
  BY <1>1, <1>2
<1>4. at[t].dev \in Device /\ Owner[at[t].dev] = t
  <2>1. PlaceOK(t, at[t])
    BY DEF EdfInv, PlaceInv
  <2> QED BY <1>1, <2>1, PlaceOf DEF PlaceOK
<1>5. ASSUME ~met PROVE TablePart'
  <2>1. n = count /\ Due = count - 1
    BY <1>1, <1>5, Alone DEF EdfInv, TableInv, ReadOK
  <2>2. count > 0 /\ count \in 0 .. MaxDevices
    BY <1>5, <2>1, TablePartIs
  <2>3. Due' = Due /\ count' = count - 1
    BY <1>1, <1>3, <1>5, <2>1, <2>2, DueAfter
  <2>4. InTable' = InTable /\ count' <= MaxDevices
    BY <1>1, <2>2, <2>3, SlotType DEF InTable
  <2> QED BY <1>1, <1>5, <2>3, <2>4, TablePartIs DEF TablePart
<1>6. live' \subseteq Device /\ torn' \in BOOLEAN /\ table' \in [Slot -> Device \cup {None}]
  BY <1>1 DEF EdfInv, TypeOK
<1> QED BY <1>1, <1>3, <1>4, <1>5, <1>6, LeaveInv

(* Reading, writing and the test mode. *)
LEMMA AccessInv ==
  ASSUME EdfInv, NEW t \in Thread,
         \/ CallAccess(t) \/ AccessTest(t) \/ AccessDriver(t)
         \/ \E who \in {t, None} : SetMode(t, who)
  PROVE  EdfInv'
<1>0. {"access.test", "access.driver"} \subseteq Ops \ Critical
  BY DEF Ops, Critical
<1>1. CASE Halt
  BY <1>1, HaltInv
<1>2. CASE ~Halt /\ CallAccess(t)
  <2>1. /\ handle[t] \in Device /\ at[t] = Idle /\ Goto(t, "access.test", handle[t]) /\ UNCHANGED lockVars
        /\ UNCHANGED <<tableVars, deviceVars, handle, opens, ghostVars, halted>>
    BY <1>2, LockTypes DEF CallAccess, User
  <2>2. PlaceOK(t, [op |-> "access.test", dev |-> handle[t]])
    BY DEF PlaceOK
  <2> QED BY <1>0, <2>1, <2>2, IdlePlace, GotoInv
<1>3. CASE ~Halt /\ (AccessTest(t) \/ AccessDriver(t))
  <2> DEFINE p == [op |-> "access.driver", dev |-> at[t].dev]
  <2>1. /\ at[t].op \in {"access.test", "access.driver"}
        /\ at' = [at EXCEPT ![t] = Idle] \/ at' = [at EXCEPT ![t] = p]
        /\ UNCHANGED <<tableVars, lockVars, deviceVars, handle, opens, ghostVars, halted>>
    BY <1>3 DEF AccessTest, AccessDriver
  <2>2. p \in Places /\ PlaceOK(t, p) /\ p.op \notin Critical /\ at[t].op \notin Critical
    BY <1>0, <2>1, PlaceOf, PlaceIsOp DEF PlaceOK
  <2> HIDE DEF p
  <2> QED BY <2>1, <2>2, IdlePlace, LockTypes, MoveInv DEF lockVars
<1>4. ASSUME NEW who \in {t, None}, ~Halt, SetMode(t, who) PROVE EdfInv'
  <2>1. /\ test' = [test EXCEPT ![handle[t]] = who]
        /\ UNCHANGED <<tableVars, lockVars, mutex, enable, on, at, handle, opens, ghostVars, halted>>
    BY <1>4 DEF SetMode
  <2>2. test' \in [Device -> Thread \cup {None}] /\ halted' \in BOOLEAN
    BY <2>1, LockTypes DEF EdfInv, TypeOK
  <2> QED BY <2>1, <2>2, StillInv
<1> QED BY <1>1, <1>2, <1>3, <1>4

-----------------------------------------------------------------------------
(* One more open, or one less. *)
LEMMA OpensStep ==
  ASSUME EdfInv, NEW t \in Thread, NEW d \in Device
  PROVE  /\ AddOpen(t, d) =>
              /\ opens' \in [Device -> SUBSET (Thread \X (1 .. MaxOpens))]
              /\ Opens(d)' = Opens(d) + 1 /\ opens'[d] # {}
              /\ \A e \in Device : opens[e] \subseteq opens'[e]
         /\ DropOpen(t, d) =>
              /\ opens' \in [Device -> SUBSET (Thread \X (1 .. MaxOpens))]
              /\ Opens(d)' = Opens(d) - 1 /\ opens[d] # {}
              /\ \A e \in Device, u \in Thread, n \in 1 .. MaxOpens :
                   u # t /\ <<u, n>> \in opens[e] => <<u, n>> \in opens'[e]
         /\ AddOpen(t, d) \/ DropOpen(t, d) =>
              \A e \in Device : e # d => opens'[e] = opens[e] /\ Opens(e)' = Opens(e)
<1>1. opens \in [Device -> SUBSET (Thread \X (1 .. MaxOpens))]
  BY DEF EdfInv, TypeOK
<1>2. IsFiniteSet(opens[d])
  BY OpensFinite
<1>3. ASSUME AddOpen(t, d)
      PROVE  /\ opens' \in [Device -> SUBSET (Thread \X (1 .. MaxOpens))]
             /\ Opens(d)' = Opens(d) + 1 /\ opens'[d] # {}
             /\ \A e \in Device : opens[e] \subseteq opens'[e]
  <2>1. PICK n \in 1 .. MaxOpens :
          <<t, n>> \notin opens[d] /\ opens' = [opens EXCEPT ![d] = @ \cup {<<t, n>>}]
    BY <1>3 DEF AddOpen
  <2>2. opens'[d] = opens[d] \cup {<<t, n>>}
    BY <1>1, <2>1
  <2>3. Opens(d)' = Opens(d) + 1
    BY <1>2, <2>1, <2>2, FS_AddElement DEF Opens
  <2> QED BY <1>1, <2>1, <2>2, <2>3
<1>4. ASSUME DropOpen(t, d)
      PROVE  /\ opens' \in [Device -> SUBSET (Thread \X (1 .. MaxOpens))]
             /\ Opens(d)' = Opens(d) - 1 /\ opens[d] # {}
             /\ \A e \in Device, u \in Thread, n \in 1 .. MaxOpens :
                  u # t /\ <<u, n>> \in opens[e] => <<u, n>> \in opens'[e]
  <2>1. PICK n \in 1 .. MaxOpens :
          <<t, n>> \in opens[d] /\ opens' = [opens EXCEPT ![d] = @ \ {<<t, n>>}]
    BY <1>4 DEF DropOpen
  <2>2. opens'[d] = opens[d] \ {<<t, n>>}
    BY <1>1, <2>1
  <2>3. Opens(d)' = Opens(d) - 1
    BY <1>2, <2>1, <2>2, FS_RemoveElement DEF Opens
  <2>4. ASSUME NEW e \in Device, NEW u \in Thread, NEW m \in 1 .. MaxOpens,
               u # t, <<u, m>> \in opens[e]
        PROVE  <<u, m>> \in opens'[e]
    BY <1>1, <2>1, <2>4
  <2> QED BY <1>1, <2>1, <2>2, <2>3, <2>4
<1>5. ASSUME AddOpen(t, d) \/ DropOpen(t, d), NEW e \in Device, e # d
      PROVE  opens'[e] = opens[e] /\ Opens(e)' = Opens(e)
  <2>1. opens'[e] = opens[e]
    BY <1>1, <1>5 DEF AddOpen, DropOpen
  <2> QED BY <2>1 DEF Opens
<1> QED BY <1>3, <1>4, <1>5

LEMMA OpenInv ==
  ASSUME EdfInv, NEW t \in Thread, Open(t)
  PROVE  EdfInv'
<1>0. PICK d \in Device \cup {None} : d = handle[t]
  BY DEF EdfInv, TypeOK
<1>1. CASE Halt
  BY <1>1, HaltInv
<1>2. CASE ~Halt
  <2>1. /\ User(t) /\ enable[d] < (IF d \in Sole THEN 1 ELSE MaxCount)
        /\ enable' = [enable EXCEPT ![d] = @ + 1]
        /\ \/ AddOpen(t, d) /\ on' = [on EXCEPT ![d] = TRUE] /\ failed' = failed
           \/ failed' = TRUE /\ UNCHANGED <<opens, on>>
        /\ UNCHANGED <<table, count, edf, sec, ref, got, mutex, test, at, handle, live, holed, torn,
                       met, halted>>
    BY <1>0, <1>2 DEF Open, tableVars, lockVars
  <2>2. d \in Device
    BY <1>0, <2>1 DEF User
  <2>3. /\ enable \in [Device -> 0 .. MaxCount] /\ on \in [Device -> BOOLEAN]
        /\ opens \in [Device -> SUBSET (Thread \X (1 .. MaxOpens))] /\ failed \in BOOLEAN
    BY DEF EdfInv, TypeOK
  <2>4. enable[d] \in Nat /\ enable[d] + 1 \in 0 .. MaxCount /\ (d \in Sole => enable[d] = 0)
    BY <2>1, <2>2, <2>3, EdfAssumption
  <2>5. enable' \in [Device -> 0 .. MaxCount] /\ \A e \in Device : enable'[e] = IF e = d THEN enable[d] + 1 ELSE enable[e]
    BY <2>1, <2>2, <2>3, <2>4
  <2>6. TypeOK'
    <3>1. opens' \in [Device -> SUBSET (Thread \X (1 .. MaxOpens))]
      BY <2>1, <2>2, <2>3, OpensStep
    <3>2. on' \in [Device -> BOOLEAN] /\ failed' \in BOOLEAN
      BY <2>1, <2>2, <2>3
    <3> QED BY <2>1, <2>5, <3>1, <3>2 DEF EdfInv, TypeOK
  <2>7. PlaceInv' /\ SecInv'
    BY <2>1 DEF EdfInv, PlaceInv, PlaceOK, SecInv
  <2>9. TableInv'
    BY <2>1 DEF EdfInv, TableInv, TablePart, ReadOK, InTable, Due
  <2>10. UseInv'
    <3> SUFFICES ASSUME ~torn
                 PROVE  /\ \A e \in Sole : Opens(e)' <= 1 /\ (enable'[e] = 0 => opens'[e] = {})
                        /\ ~failed' => \A e \in Device :
                             enable'[e] = Opens(e)' /\ (on'[e] <=> opens'[e] # {})
      BY <2>1 DEF UseInv
    <3>1. UseInv /\ Sole \subseteq Device
      BY EdfAssumption DEF EdfInv
    <3>2. Opens(d) \in Nat /\ (Opens(d) = 0 <=> opens[d] = {})
      BY <2>2, OpensFinite
    <3>3. CASE AddOpen(t, d) /\ on' = [on EXCEPT ![d] = TRUE] /\ failed' = failed
      <4>1. Opens(d)' = Opens(d) + 1 /\ opens'[d] # {}
            /\ \A e \in Device : e # d => opens'[e] = opens[e] /\ Opens(e)' = Opens(e)
        BY <2>2, <3>3, OpensStep
      <4>2. ASSUME NEW e \in Sole PROVE Opens(e)' <= 1 /\ (enable'[e] = 0 => opens'[e] = {})
        <5>1. CASE e = d
          BY <2>2, <2>4, <2>5, <3>1, <3>2, <4>1, <5>1 DEF UseInv
        <5>2. CASE e # d
          BY <2>5, <3>1, <4>1, <5>2 DEF UseInv
        <5> QED BY <5>1, <5>2
      <4>3. ASSUME ~failed', NEW e \in Device
            PROVE  enable'[e] = Opens(e)' /\ (on'[e] <=> opens'[e] # {})
        <5>1. enable[e] = Opens(e) /\ (on[e] <=> opens[e] # {})
          BY <3>1, <3>3, <4>3 DEF UseInv
        <5>2. on'[e] = IF e = d THEN TRUE ELSE on[e]
          BY <2>3, <3>3
        <5> QED BY <2>5, <4>1, <5>1, <5>2
      <4> QED BY <4>2, <4>3
    <3>4. CASE failed' = TRUE /\ UNCHANGED <<opens, on>>
      <4>1. \A e \in Sole : enable'[e] = 0 => enable[e] = 0
        BY <2>4, <2>5, <3>1
      <4> QED BY <3>1, <3>4, <4>1 DEF UseInv, Opens
    <3> QED BY <2>1, <3>3, <3>4
  <2> QED BY <2>6, <2>7, <2>9, <2>10 DEF EdfInv
<1> QED BY <1>1, <1>2

LEMMA CloseInv ==
  ASSUME EdfInv, NEW t \in Thread, Close(t)
  PROVE  EdfInv'
<1>0. PICK d \in Device \cup {None} : d = handle[t]
  BY DEF EdfInv, TypeOK
<1>1. CASE Halt
  BY <1>1, HaltInv
<1>2. CASE ~Halt
  <2>1. /\ User(t) /\ (IF d \in Sole THEN enable[d] > 0 ELSE enable[d] < MaxCount)
        /\ enable' = [enable EXCEPT ![d] = (@ - 1) % (MaxCount + 1)]
        /\ DropOpen(t, d)
        /\ \/ on' = [on EXCEPT ![d] = @ /\ enable[d] # 1] /\ failed' = failed
           \/ failed' = TRUE /\ on' = on
        /\ UNCHANGED <<table, count, edf, sec, ref, got, mutex, test, at, handle, live, holed, torn,
                       met, halted>>
    BY <1>0, <1>2 DEF Close, tableVars, lockVars
  <2>2. d \in Device /\ at[t] = Idle
    BY <1>0, <2>1 DEF User
  <2>3. /\ enable \in [Device -> 0 .. MaxCount] /\ on \in [Device -> BOOLEAN]
        /\ opens \in [Device -> SUBSET (Thread \X (1 .. MaxOpens))] /\ failed \in BOOLEAN
    BY DEF EdfInv, TypeOK
  <2>4. enable[d] \in Nat /\ enable[d] <= MaxCount /\ MaxCount \in Nat /\ MaxCount > 0
    BY <2>2, <2>3, EdfAssumption
  <2>5. /\ (enable[d] - 1) % (MaxCount + 1) \in 0 .. MaxCount
        /\ enable[d] > 0 => (enable[d] - 1) % (MaxCount + 1) = enable[d] - 1
    BY <2>4
  <2>6. /\ enable' \in [Device -> 0 .. MaxCount]
        /\ enable[d] > 0 => enable'[d] = enable[d] - 1
        /\ \A e \in Device : e # d => enable'[e] = enable[e]
    BY <2>1, <2>2, <2>3, <2>5
  <2>7. /\ opens' \in [Device -> SUBSET (Thread \X (1 .. MaxOpens))]
        /\ Opens(d)' = Opens(d) - 1 /\ opens[d] # {}
        /\ \A e \in Device, u \in Thread, n \in 1 .. MaxOpens :
             u # t /\ <<u, n>> \in opens[e] => <<u, n>> \in opens'[e]
        /\ \A e \in Device : e # d => opens'[e] = opens[e] /\ Opens(e)' = Opens(e)
    BY <2>1, <2>2, OpensStep
  <2>8. TypeOK'
    <3>1. on' \in [Device -> BOOLEAN] /\ failed' \in BOOLEAN
      BY <2>1, <2>2, <2>3
    <3> QED BY <2>1, <2>6, <2>7, <3>1 DEF EdfInv, TypeOK
  <2>9. PlaceInv' /\ SecInv'
    BY <2>1 DEF EdfInv, PlaceInv, PlaceOK, SecInv
  <2>10. TableInv'
    BY <2>1 DEF EdfInv, TableInv, TablePart, ReadOK, InTable, Due
  <2>11. UseInv'
    <3> SUFFICES ASSUME ~torn
                 PROVE  /\ \A e \in Sole : Opens(e)' <= 1 /\ (enable'[e] = 0 => opens'[e] = {})
                        /\ ~failed' => \A e \in Device :
                             enable'[e] = Opens(e)' /\ (on'[e] <=> opens'[e] # {})
      BY <2>1 DEF UseInv
    <3>1. UseInv /\ Sole \subseteq Device
      BY EdfAssumption DEF EdfInv
    <3>2. Opens(d) \in Nat /\ Opens(d) > 0
      BY <2>2, <2>7, OpensFinite
    <3>3. Opens(d)' = 0 <=> opens'[d] = {}
      <4>1. IsFiniteSet(opens[d]) /\ opens'[d] \subseteq opens[d]
        BY <2>1, <2>2, <2>3, OpensFinite DEF DropOpen
      <4>2. IsFiniteSet(opens'[d])
        BY <4>1, FS_Subset
      <4> QED BY <4>2, FS_EmptySet DEF Opens
    <3>4. ASSUME NEW e \in Sole PROVE Opens(e)' <= 1 /\ (enable'[e] = 0 => opens'[e] = {})
      <4>1. CASE e = d
        <5>1. Opens(d) <= 1
          BY <3>1, <4>1 DEF UseInv
        <5> QED BY <2>7, <3>2, <3>3, <4>1, <5>1
      <4>2. CASE e # d
        BY <2>6, <2>7, <3>1, <4>2 DEF UseInv
      <4> QED BY <4>1, <4>2
    <3>5. ASSUME ~failed', NEW e \in Device
          PROVE  enable'[e] = Opens(e)' /\ (on'[e] <=> opens'[e] # {})
      <4>1. ~failed /\ on' = [on EXCEPT ![d] = @ /\ enable[d] # 1]
        BY <2>1, <3>5
      <4>2. enable[e] = Opens(e) /\ (on[e] <=> opens[e] # {})
        BY <3>1, <4>1 DEF UseInv
      <4>3. CASE e = d
        <5>1. enable'[d] = enable[d] - 1
          BY <2>6, <3>2, <4>2, <4>3
        <5>2. on'[d] = (on[d] /\ enable[d] # 1)
          BY <2>2, <2>3, <4>1
        <5>3. on[d]
          BY <2>7, <4>2, <4>3
        <5>4. enable[d] # 1 <=> opens'[d] # {}
          BY <2>7, <3>2, <3>3, <4>2, <4>3
        <5> QED BY <2>7, <4>2, <4>3, <5>1, <5>2, <5>3, <5>4
      <4>4. CASE e # d
        <5>1. on'[e] = on[e]
          BY <2>3, <4>1, <4>4
        <5> QED BY <2>6, <2>7, <4>2, <4>4, <5>1
      <4> QED BY <4>3, <4>4
    <3> QED BY <3>4, <3>5
  <2> QED BY <2>8, <2>9, <2>10, <2>11 DEF EdfInv
<1> QED BY <1>1, <1>2

LEMMA EdfStutterInv == ASSUME EdfInv, UNCHANGED vars PROVE EdfInv'
<1>1. halted' \in BOOLEAN /\ test' \in [Device -> Thread \cup {None}]
  BY DEF vars, deviceVars, EdfInv, TypeOK
<1> QED BY <1>1, StillInv DEF vars, deviceVars

-----------------------------------------------------------------------------
(* What holds in every state: types, what a thread inside a call may rely  *)
(* on, the table and the devices in it, and the enable counts.             *)
THEOREM EdfInvariant == Spec => []EdfInv
<1>1. EdfInv /\ [Next]_vars => EdfInv'
  <2> SUFFICES ASSUME EdfInv, [Next]_vars PROVE EdfInv'
    OBVIOUS
  <2>1. ASSUME NEW t \in Thread, Registry(t) PROVE EdfInv'
    BY <2>1, CallInv, SectionInv, SearchInv, RegisterAddInv, RegisterStoreInv,
       UnregisterFindInv, UnregisterRemoveInv, UnregisterCountInv DEF Registry
  <2>2. ASSUME NEW t \in Thread, Use(t) PROVE EdfInv'
    BY <2>2, OpenInv, CloseInv, AccessInv DEF Use
  <2>3. CASE UNCHANGED vars
    BY <2>3, EdfStutterInv
  <2> QED BY <2>1, <2>2, <2>3 DEF Next
<1> QED BY <1>1, EdfInitInv, PTL DEF Spec

(* The device count and the enable counts stay in the ranges of their C    *)
(* types, and no thread is anywhere but in a call of elab_device.c.        *)
THEOREM EdfTypes == Spec => []TypeOK
<1>1. EdfInv => TypeOK
  BY DEF EdfInv
<1> QED BY <1>1, EdfInvariant, PTL

(* elab_device_register and elab_device_unregister keep the table and its  *)
(* count, for any number of threads that add and remove their devices.     *)
THEOREM TableIsLive == Spec => []TableHoldsLive
<1>1. EdfInv => TableHoldsLive
  BY DEF EdfInv, TableInv, TablePart, TableHoldsLive
<1> QED BY <1>1, EdfInvariant, PTL

(* elab_device_find returns the right device, or NULL where it may.        *)
THEOREM FindReturnsRight == Spec => FindIsRight
<1> DEFINE Right == \A t \in Thread : FindScan(t) /\ ~met =>
             LET n == Name[at[t].dev]
             IN  /\ handle'[t] # None => handle'[t] \in live /\ Name[handle'[t]] = n
                 /\ handle'[t] = None /\ ~holed => \A d \in live : Name[d] # n
<1>1. EdfInv => Right
  <2> SUFFICES ASSUME EdfInv, NEW t \in Thread, FindScan(t), ~met, NEW n, n = Name[at[t].dev]
               PROVE  /\ handle'[t] # None => handle'[t] \in live /\ Name[handle'[t]] = n
                      /\ handle'[t] = None /\ ~holed => \A d \in live : Name[d] # n
    OBVIOUS
  <2>1. table \in [Slot -> Device \cup {None}]
    BY DEF EdfInv, TypeOK
  <2>2. handle'[t] = Found(table, n)
    <3>1. sec[t] = "in"
      BY DEF FindScan, In
    <3>2. Beside(t) = {}
      BY <3>1, Alone DEF Beside
    <3> QED BY <3>2 DEF FindScan, Results, EdfInv, TypeOK
  <2>3. InTable \subseteq live /\ (~holed => InTable = live /\ \A i \in Slot : table[i] # None <=> i < count)
    <3>1. Due = count
      BY Alone DEF FindScan, In
    <3> QED BY <3>1, TablePartIs
  <2>4. ASSUME NEW i \in Slot, table[i] # None, Name[table[i]] = n, handle'[t] = table[i]
        PROVE  handle'[t] # None /\ handle'[t] \in live /\ Name[handle'[t]] = n
    BY <2>3, <2>4 DEF InTable
  <2>5. ASSUME \A i \in Slot : (\A j \in 0 .. i : table[j] # None) => Name[table[i]] # n,
               ~holed, NEW d \in live
        PROVE  Name[d] # n
    <3>1. PICK i \in Slot : table[i] # None /\ table[i] = d
      BY <2>3, <2>5 DEF InTable
    <3>2. i \in Nat /\ i < count /\ count \in Nat
      BY <2>3, <2>5, <3>1, SlotType DEF EdfInv, TypeOK
    <3>3. ASSUME NEW j \in 0 .. i PROVE table[j] # None
      <4>1. j \in Slot /\ j < count
        BY <3>1, <3>2, <3>3, SlotType
      <4> QED BY <2>3, <2>5, <4>1
    <3> QED BY <2>5, <3>1, <3>3
  <2>6. CASE \A i \in Slot : (\A j \in 0 .. i : table[j] # None) => Name[table[i]] # n
    <3>1. ~holed => \A d \in live : Name[d] # n
      BY <2>5, <2>6
    <3>2. handle'[t] # None => \E i \in Slot : table[i] # None /\ Name[table[i]] = n /\ handle'[t] = table[i]
      BY <2>1, <2>2, FoundIs
    <3> QED BY <2>4, <3>1, <3>2
  <2>7. CASE \E i \in Slot : table[i] # None /\ Name[table[i]] = n /\ handle'[t] = table[i]
    BY <2>4, <2>7
  <2> QED BY <2>1, <2>2, <2>6, <2>7, FoundIs
<1>2. Spec => [][Right]_vars
  <2> HIDE DEF Right
  <2> QED BY <1>1, EdfInvariant, PTL DEF Spec
<1> QED BY <1>2 DEF Right, FindIsRight

(* __device_enable counts the opens that are not closed yet.               *)
THEOREM CountsAreOpens == Spec => []CountIsOpens
<1>1. EdfInv => CountIsOpens
  BY DEF EdfInv, UseInv, CountIsOpens
<1> QED BY <1>1, EdfInvariant, PTL

(* A sole device has one user, also if the driver refuses.                 *)
THEOREM SoleIsSole == Spec => []SoleHasOneUser
<1>1. EdfInv => SoleHasOneUser
  BY DEF EdfInv, UseInv, SoleHasOneUser
<1> QED BY <1>1, EdfInvariant, PTL

(* The driver is told to switch on and off with the first user and behind  *)
(* the last one.                                                           *)
THEOREM DriverOnWhileOpen == Spec => []OnWhileOpen
<1>1. EdfInv => OnWhileOpen
  <2> SUFFICES ASSUME EdfInv, ~torn, ~failed, NEW d \in Device PROVE on[d] <=> Opens(d) > 0
    BY DEF OnWhileOpen
  <2>1. on[d] <=> opens[d] # {}
    BY DEF EdfInv, UseInv
  <2> QED BY <2>1, OpensFinite
<1> QED BY <1>1, EdfInvariant, PTL

=============================================================================
