----------------------------- MODULE EdfDevice -----------------------------
(***************************************************************************)
(* The device framework (elab/edf/elab_device.c): the table of registered  *)
(* devices, the search for a device by its name, and the enable count of   *)
(* each device, used by several threads.                                   *)
(*                                                                         *)
(* A critical section under a device's own mutex is one action, and so is  *)
(* each read that the code does outside of the mutexes.  The sections      *)
(* under the edf mutex are in steps, because the first callers may each    *)
(* make an edf mutex of their own and then be in a section together.  A    *)
(* failed assertion stops the program (halted).  The device objects are    *)
(* static memory of their drivers: they outlive their registration.        *)
(***************************************************************************)
EXTENDS Integers, FiniteSets

CONSTANTS
  Thread,
  Device,
  Name,        \* attr.name of each device
  Sole,        \* the devices with attr.sole
  Owner,       \* the thread whose driver code registers a device
  MaxDevices,  \* ELAB_DEV_NUM_MAX
  CountWrap,   \* 2^32: _edf_device_count is a uint32_t
  MaxCount,    \* UINT8_MAX
  MaxOpens,    \* bound: how often one thread has one device open at a time
  Tester,      \* which thread uses the test mode of which device
  Flaky,       \* the devices whose ops->enable may return an error
  None         \* NULL

Slot == 0 .. MaxDevices - 1
Names == {Name[d] : d \in Device}

ASSUME EdfAssumption ==
  /\ MaxDevices \in Nat \ {0} /\ MaxCount \in Nat \ {0}
  /\ MaxOpens \in Nat \ {0} /\ IsFiniteSet(Thread)
  /\ CountWrap \in Nat /\ CountWrap > MaxDevices
  /\ Sole \subseteq Device /\ Flaky \subseteq Device
  /\ Tester \subseteq Thread \X Device
  /\ Owner \in [Device -> Thread]
  /\ None \notin Device \cup Thread

VARIABLES
  table,       \* _edf_table
  count,       \* _edf_device_count
  edf,         \* _mutex_edf: NULL, or the thread that made this mutex
  sec,         \* how far a thread is on its way into a section of the edf mutex
  ref,         \* the edf mutex that a thread got from _edf_mutex
  got,         \* what a thread in a section has read: the count, or a slot
  mutex,       \* me->mutex # NULL
  enable,      \* me->enable_count
  test,        \* me->thread_test
  on,          \* what the driver was last told through ops->enable
  at,          \* the call a thread is in, and where in it
  handle,      \* the result of a thread's last elab_device_find
  opens,       \* history: the opens of each device not closed yet, <<thread, n>>
  live,        \* history: devices registered and not unregistered since
  holed,       \* history: a device left the table from before its end
  torn,        \* history: a device came or went while some thread held it open
  failed,      \* history: an ops->enable returned an error
  met,         \* history: two threads were in sections of the edf mutex at once
  halted       \* an assertion failed

tableVars  == <<table, count>>
lockVars   == <<edf, sec, ref, got>>
deviceVars == <<mutex, enable, test, on>>
ghostVars  == <<live, holed, torn, failed, met>>
vars == <<tableVars, lockVars, deviceVars, at, handle, opens, ghostVars, halted>>

Idle == [op |-> "idle"]

-----------------------------------------------------------------------------
Init ==
  /\ table = [i \in Slot |-> None] /\ count = 0
  /\ edf = None
  /\ sec = [t \in Thread |-> "out"]
  /\ ref = [t \in Thread |-> None]
  /\ got = [t \in Thread |-> 0]
  /\ mutex = [d \in Device |-> FALSE]
  /\ enable = [d \in Device |-> 0]
  /\ test = [d \in Device |-> None]
  /\ on = [d \in Device |-> FALSE]
  /\ at = [t \in Thread |-> Idle]
  /\ handle = [t \in Thread |-> None]
  /\ opens = [d \in Device |-> {}]
  /\ live = {} /\ holed = FALSE /\ torn = FALSE /\ failed = FALSE
  /\ met = FALSE /\ halted = FALSE

Goto(t, op, d) == at' = [at EXCEPT ![t] = [op |-> op, dev |-> d]]

(* elab_assert and assert: nothing runs after a failed one. *)
Halt == /\ halted' = TRUE
        /\ UNCHANGED <<tableVars, lockVars, deviceVars, at, handle, opens, ghostVars>>

(* The way into a section of the edf mutex: _edf_mutex() looks whether     *)
(* there is one, makes one if there was none, and reads it again (or has   *)
(* kept what it made); the mutex that came out of this is then acquired.   *)
Approach(t) == sec' = [sec EXCEPT ![t] = "mutex"] /\ UNCHANGED <<edf, ref, got>>

EdfMutex(t) ==
  /\ ~halted /\ sec[t] = "mutex"
  /\ \/ edf = None /\ sec' = [sec EXCEPT ![t] = "create"] /\ ref' = ref
     \/ edf # None /\ sec' = [sec EXCEPT ![t] = "enter"] /\ ref' = [ref EXCEPT ![t] = edf]
  /\ UNCHANGED <<tableVars, edf, got, deviceVars, at, handle, opens, ghostVars, halted>>

EdfCreate(t) ==
  /\ ~halted /\ sec[t] = "create"
  /\ edf' = t
  /\ \/ sec' = [sec EXCEPT ![t] = "mutex"] /\ ref' = ref
     \/ sec' = [sec EXCEPT ![t] = "enter"] /\ ref' = [ref EXCEPT ![t] = t]
  /\ UNCHANGED <<tableVars, got, deviceVars, at, handle, opens, ghostVars, halted>>

Enter(t) ==
  /\ ~halted /\ sec[t] = "enter"
  /\ \A u \in Thread : sec[u] = "in" => ref[u] # ref[t]
  /\ sec' = [sec EXCEPT ![t] = "in"]
  /\ met' = (met \/ \E u \in Thread : sec[u] = "in")
  /\ UNCHANGED <<tableVars, edf, ref, got, deviceVars, at, handle, opens, live, holed, torn,
                 failed, halted>>

In(t, op) == ~halted /\ at[t].op = op /\ sec[t] = "in"

Leave(t) ==
  /\ sec' = [sec EXCEPT ![t] = "out"] /\ ref' = [ref EXCEPT ![t] = None]
  /\ got' = [got EXCEPT ![t] = 0] /\ edf' = edf

(* elab_device_find(attr->name) for d: called by a user who wants d, or by *)
(* elab_device_register, which asserts that there is no such device yet.   *)
(* The first table entry is looked at before the mutex is taken, twice.    *)
CallFind(t, d) ==
  /\ ~halted /\ at[t] = Idle
  /\ \/ table[0] # None /\ Goto(t, "find.deref", d) /\ UNCHANGED lockVars
     \/ table[0] = None /\ Goto(t, "find.scan", d) /\ Approach(t)
  /\ UNCHANGED <<tableVars, deviceVars, handle, opens, ghostVars, halted>>

CallRegister(t, d) ==
  /\ ~halted /\ at[t] = Idle /\ Owner[d] = t /\ d \notin live
  /\ \/ table[0] # None /\ Goto(t, "reg.deref", d) /\ UNCHANGED lockVars
     \/ table[0] = None /\ Goto(t, "reg.scan", d) /\ Approach(t)
  /\ UNCHANGED <<tableVars, deviceVars, handle, opens, ghostVars, halted>>

(* The entry may be gone at the second look; a compiler that reads it only *)
(* once does not notice.                                                   *)
Deref(t) ==
  /\ ~halted /\ at[t].op \in {"find.deref", "reg.deref"}
  /\ \/ table[0] = None /\ Halt
     \/ /\ Goto(t, IF at[t].op = "find.deref" THEN "find.scan" ELSE "reg.scan", at[t].dev)
        /\ Approach(t)
        /\ UNCHANGED <<tableVars, deviceVars, handle, opens, ghostVars, halted>>

(* Mutant: the scan starts behind the first entry. *)
FoundFromSecond(tb, n) ==
  LET seen == {i \in Slot : i > 0 /\ \A j \in 0 .. i : tb[j] # None}
      hits == {i \in seen : Name[tb[i]] = n}
  IN  IF hits = {} THEN None ELSE tb[CHOOSE i \in hits : \A j \in hits : i <= j]

(* The scan ends at the first empty entry. *)
Found(tb, n) ==
  LET seen == {i \in Slot : \A j \in 0 .. i : tb[j] # None}
      hits == {i \in seen : Name[tb[i]] = n}
  IN  IF hits = {} THEN None ELSE tb[CHOOSE i \in hits : \A j \in hits : i <= j]

InTable == {table[i] : i \in {j \in Slot : table[j] # None}}

(* The threads that change the table while t searches it: only where two   *)
(* edf mutexes were made.  What t reads then is a race: it may see any     *)
(* device that comes or goes, or none, or crash on an entry that vanishes  *)
(* between two looks at it.                                                *)
Beside(t) == {u \in Thread \ {t} : sec[u] = "in" /\ at[u].op \notin {"find.scan", "reg.scan"}}

Results(t, n) ==
  IF Beside(t) = {} THEN {Found(table, n)}
  ELSE {None} \cup {d \in Device : /\ Name[d] = n
                                  /\ \/ d \in InTable
                                     \/ \E u \in Beside(t) : at[u].dev = d}

FindScan(t) ==
  /\ In(t, "find.scan")
  /\ \/ Beside(t) # {} /\ Halt
     \/ /\ \E r \in Results(t, Name[at[t].dev]) : handle' = [handle EXCEPT ![t] = r]
        /\ at' = [at EXCEPT ![t] = Idle] /\ Leave(t)
        /\ UNCHANGED <<tableVars, deviceVars, opens, ghostVars, halted>>

RegisterScan(t) ==
  /\ In(t, "reg.scan")
  /\ \/ (Beside(t) # {} \/ \E r \in Results(t, Name[at[t].dev]) : r # None) /\ Halt
     \/ /\ None \in Results(t, Name[at[t].dev])
        /\ Goto(t, "reg.add", at[t].dev)
        /\ sec' = [sec EXCEPT ![t] = "mutex"] /\ ref' = [ref EXCEPT ![t] = None]
        /\ UNCHANGED <<tableVars, edf, got, deviceVars, handle, opens, ghostVars, halted>>

(* The second half of elab_device_register, in a section of its own: the   *)
(* device's fields, and _add_device with its assertion about the count ... *)
RegisterAdd(t) ==
  LET d == at[t].dev
  IN  /\ In(t, "reg.add")
      /\ \/ count >= MaxDevices /\ Halt
         \/ /\ count < MaxDevices
            /\ enable' = [enable EXCEPT ![d] = 0]
            /\ mutex' = [mutex EXCEPT ![d] = TRUE]
            /\ torn' = (torn \/ opens[d] # {})
            /\ got' = [got EXCEPT ![t] = count]
            /\ Goto(t, "reg.store", d)
            /\ UNCHANGED <<tableVars, edf, sec, ref, test, on, handle, opens, live, holed, failed,
                           met, halted>>

(* ... and its store, at the count read before or at the count read again: *)
(* they differ where two threads add together.  A store past the end of    *)
(* the table is undefined: nothing is said of what follows.                *)
RegisterStore(t) ==
  LET d == at[t].dev
  IN  /\ In(t, "reg.store")
      /\ \E n \in {got[t], count} :
           \/ n >= MaxDevices /\ Halt
           \/ /\ n < MaxDevices
              /\ table' = [i \in Slot |-> IF i = n THEN d ELSE IF got[t] = 0 THEN None ELSE table[i]]
              /\ count' = n + 1
              /\ live' = live \cup {d}
              /\ at' = [at EXCEPT ![t] = Idle] /\ Leave(t)
              /\ UNCHANGED <<deviceVars, handle, opens, holed, torn, failed, met, halted>>

(* elab_device_unregister: its assertion about the enable count ... *)
CallUnregister(t, d) ==
  /\ ~halted /\ at[t] = Idle /\ Owner[d] = t /\ d \in live
  /\ \/ (~mutex[d] \/ enable[d] > 0) /\ Halt
     \/ /\ mutex[d] /\ enable[d] = 0
        /\ Goto(t, "unreg.find", d) /\ Approach(t)
        /\ UNCHANGED <<tableVars, deviceVars, handle, opens, ghostVars, halted>>

(* ... its search for the device's slot ... *)
UnregisterFind(t) ==
  LET d == at[t].dev
  IN  /\ In(t, "unreg.find")
      /\ \/ \E i \in Slot :
              /\ table[i] = d /\ \A j \in Slot : j < i => table[j] # d
              /\ got' = [got EXCEPT ![t] = i]
              /\ Goto(t, "unreg.remove", d)
              /\ UNCHANGED <<edf, sec, ref, live, torn>>
         \/ /\ \A i \in Slot : table[i] # d
            /\ live' = live \ {d} /\ torn' = (torn \/ opens[d] # {})
            /\ at' = [at EXCEPT ![t] = Idle] /\ Leave(t)
      /\ UNCHANGED <<tableVars, deviceVars, handle, opens, holed, failed, met, halted>>

(* ... the removal, which destroys the device's mutex without taking it: a *)
(* user inside a section of that mutex (here a user about to enter it, the *)
(* sections being single actions) makes the destruction fail, which is     *)
(* asserted not to happen ...                                              *)
UnregisterRemove(t) ==
  LET d == at[t].dev
      s == got[t]
  IN  /\ In(t, "unreg.remove")
      /\ \/ (\E u \in Thread \ {t} : at[u] = Idle /\ handle[u] = d) /\ Halt
         \/ /\ table' = [table EXCEPT ![s] = None]
            /\ mutex' = [mutex EXCEPT ![d] = FALSE]
            /\ live' = live \ {d}
            /\ holed' = (holed \/ (s + 1 < MaxDevices /\ table[s + 1] # None))
            /\ torn' = (torn \/ opens[d] # {})
            /\ got' = [got EXCEPT ![t] = count]
            /\ Goto(t, "unreg.count", d)
            /\ UNCHANGED <<count, edf, sec, ref, enable, test, on, handle, opens, failed, met, halted>>

(* Mutant: the count is not decremented. *)
CountKept(t) ==
  /\ In(t, "unreg.count")
  /\ at' = [at EXCEPT ![t] = Idle] /\ Leave(t)
  /\ UNCHANGED <<tableVars, deviceVars, handle, opens, ghostVars, halted>>

(* ... and the count, read and written back. *)
UnregisterCount(t) ==
  /\ In(t, "unreg.count")
  /\ \E n \in {got[t], count} : count' = (n - 1) % CountWrap
  /\ at' = [at EXCEPT ![t] = Idle] /\ Leave(t)
  /\ UNCHANGED <<table, deviceVars, handle, opens, ghostVars, halted>>

-----------------------------------------------------------------------------
(* Calls of a thread with the handle that its last search returned.  They  *)
(* take the device's mutex, which must exist.                              *)

User(t) == ~halted /\ at[t] = Idle /\ handle[t] # None

HasOpen(t, d) == \E n \in 1 .. MaxOpens : <<t, n>> \in opens[d]
MayOpen(t, d) == \E n \in 1 .. MaxOpens : <<t, n>> \notin opens[d]

AddOpen(t, d) == \E n \in 1 .. MaxOpens :
  <<t, n>> \notin opens[d] /\ opens' = [opens EXCEPT ![d] = @ \cup {<<t, n>>}]
DropOpen(t, d) == \E n \in 1 .. MaxOpens :
  <<t, n>> \in opens[d] /\ opens' = [opens EXCEPT ![d] = @ \ {<<t, n>>}]

(* Mutant: a sole device is opened like any other. *)
OpenUnasserted(t) ==
  LET d == handle[t]
  IN  /\ User(t) /\ MayOpen(t, d) /\ mutex[d] /\ enable[d] < MaxCount
      /\ enable' = [enable EXCEPT ![d] = @ + 1]
      /\ AddOpen(t, d)
      /\ on' = [on EXCEPT ![d] = TRUE]
      /\ UNCHANGED <<tableVars, lockVars, mutex, test, at, handle, ghostVars, halted>>

(* Mutant: only the open that switches the device on is counted. *)
OpenCountsFirst(t) ==
  LET d == handle[t]
  IN  /\ User(t) /\ MayOpen(t, d) /\ mutex[d]
      /\ enable[d] < (IF d \in Sole THEN 1 ELSE MaxCount)
      /\ enable' = [enable EXCEPT ![d] = 1]
      /\ AddOpen(t, d)
      /\ on' = [on EXCEPT ![d] = TRUE]
      /\ UNCHANGED <<tableVars, lockVars, mutex, test, at, handle, ghostVars, halted>>

(* elab_device_open: the count is raised even if ops->enable fails, but a  *)
(* caller that got an error does not take the device for open.             *)
Open(t) ==
  LET d == handle[t]
  IN  /\ User(t) /\ MayOpen(t, d)
      /\ \/ (~mutex[d] \/ enable[d] >= (IF d \in Sole THEN 1 ELSE MaxCount)) /\ Halt
         \/ /\ mutex[d]
            /\ enable[d] < (IF d \in Sole THEN 1 ELSE MaxCount)
            /\ enable' = [enable EXCEPT ![d] = @ + 1]
            /\ \/ /\ AddOpen(t, d)
                  /\ on' = [on EXCEPT ![d] = TRUE]
                  /\ failed' = failed
               \/ /\ enable[d] = 0 /\ d \in Flaky
                  /\ failed' = TRUE
                  /\ UNCHANGED <<opens, on>>
            /\ UNCHANGED <<tableVars, lockVars, mutex, test, at, handle, live, holed, torn, met, halted>>

(* Mutant: the first close switches the device off. *)
CloseAtOnce(t) ==
  LET d == handle[t]
  IN  /\ User(t) /\ HasOpen(t, d) /\ mutex[d] /\ enable[d] > 0
      /\ enable' = [enable EXCEPT ![d] = @ - 1]
      /\ DropOpen(t, d)
      /\ on' = [on EXCEPT ![d] = FALSE]
      /\ UNCHANGED <<tableVars, lockVars, mutex, test, at, handle, ghostVars, halted>>

(* elab_device_close, of a device the thread has opened.  Only a sole      *)
(* device asserts that its count is not zero; the assertion that all other *)
(* devices make, count < UINT8_MAX, lets a count of zero wrap around.      *)
Close(t) ==
  LET d == handle[t]
  IN  /\ User(t) /\ HasOpen(t, d)
      /\ \/ /\ \/ ~mutex[d]
               \/ d \in Sole /\ enable[d] = 0
               \/ d \notin Sole /\ enable[d] >= MaxCount
            /\ Halt
         \/ /\ mutex[d]
            /\ IF d \in Sole THEN enable[d] > 0 ELSE enable[d] < MaxCount
            /\ enable' = [enable EXCEPT ![d] = (@ - 1) % (MaxCount + 1)]
            /\ DropOpen(t, d)
            /\ \/ on' = [on EXCEPT ![d] = @ /\ enable[d] # 1] /\ failed' = failed
               \/ enable[d] = 1 /\ d \in Flaky /\ failed' = TRUE /\ on' = on
            /\ UNCHANGED <<tableVars, lockVars, mutex, test, at, handle, live, holed, torn, met, halted>>

(* elab_device_read and elab_device_write, of any thread with the handle:  *)
(* the count and the test mode are read without the mutex, then the driver *)
(* is called.                                                              *)
CallAccess(t) ==
  LET d == handle[t]
  IN  /\ User(t)
      /\ \/ enable[d] = 0 /\ Halt
         \/ /\ enable[d] # 0
            /\ Goto(t, "access.test", d)
            /\ UNCHANGED <<tableVars, lockVars, deviceVars, handle, opens, ghostVars, halted>>

AccessTest(t) ==
  LET d == at[t].dev
  IN  /\ ~halted /\ at[t].op = "access.test"
      /\ at' = [at EXCEPT ![t] = IF test[d] # None THEN Idle ELSE [op |-> "access.driver", dev |-> d]]
      /\ UNCHANGED <<tableVars, lockVars, deviceVars, handle, opens, ghostVars, halted>>

AccessDriver(t) ==
  /\ ~halted /\ at[t].op = "access.driver"
  /\ at' = [at EXCEPT ![t] = Idle]
  /\ UNCHANGED <<tableVars, lockVars, deviceVars, handle, opens, ghostVars, halted>>

(* elab_device_set_test_mode and elab_device_set_normal_mode. *)
SetMode(t, who) ==
  LET d == handle[t]
  IN  /\ User(t) /\ <<t, d>> \in Tester
      /\ \/ ~mutex[d] /\ Halt
         \/ /\ mutex[d]
            /\ test' = [test EXCEPT ![d] = who]
            /\ UNCHANGED <<tableVars, lockVars, mutex, enable, on, at, handle, opens, ghostVars, halted>>

-----------------------------------------------------------------------------
Registry(t) ==
  \/ \E d \in Device : CallFind(t, d) \/ CallRegister(t, d) \/ CallUnregister(t, d)
  \/ EdfMutex(t) \/ EdfCreate(t) \/ Enter(t)
  \/ Deref(t) \/ FindScan(t)
  \/ RegisterScan(t) \/ RegisterAdd(t) \/ RegisterStore(t)
  \/ UnregisterFind(t) \/ UnregisterRemove(t) \/ UnregisterCount(t)

Use(t) ==
  \/ Open(t) \/ Close(t)
  \/ CallAccess(t) \/ AccessTest(t) \/ AccessDriver(t)
  \/ \E who \in {t, None} : SetMode(t, who)

Next == \E t \in Thread : Registry(t) \/ Use(t)

Spec == Init /\ [][Next]_vars

-----------------------------------------------------------------------------
(***************************************************************************)
(* Properties                                                              *)
(***************************************************************************)

Ops == {"find.deref", "find.scan", "reg.deref", "reg.scan", "reg.add", "reg.store",
        "unreg.find", "unreg.remove", "unreg.count", "access.test", "access.driver"}

(* Every variable keeps its range; the device count and the enable counts  *)
(* never leave the range of their C types.                                 *)
TypeOK ==
  /\ table \in [Slot -> Device \cup {None}]
  /\ count \in 0 .. CountWrap - 1
  /\ edf \in Thread \cup {None}
  /\ sec \in [Thread -> {"out", "mutex", "create", "enter", "in"}]
  /\ ref \in [Thread -> Thread \cup {None}]
  /\ got \in [Thread -> 0 .. CountWrap - 1]
  /\ mutex \in [Device -> BOOLEAN]
  /\ enable \in [Device -> 0 .. MaxCount]
  /\ test \in [Device -> Thread \cup {None}]
  /\ on \in [Device -> BOOLEAN]
  /\ at \in [Thread -> {Idle} \cup [op : Ops, dev : Device]]
  /\ handle \in [Thread -> Device \cup {None}]
  /\ opens \in [Device -> SUBSET (Thread \X (1 .. MaxOpens))]
  /\ live \subseteq Device
  /\ {holed, torn, failed, met, halted} \subseteq BOOLEAN

(* The count, without a device whose removal is not counted yet. *)
Due == IF \E t \in Thread : at[t].op = "unreg.count" THEN count - 1 ELSE count

(* elab_device_register / elab_device_unregister: as long as devices leave *)
(* the table from its end, it holds the registered devices in its first    *)
(* _edf_device_count slots and no other.  After the first hole the slot    *)
(* that the next device gets may be a live one; all that is left then is   *)
(* that the table holds registered devices only, and never more of them    *)
(* than the count says.  If two threads made an edf mutex each and met in  *)
(* their sections, nothing is left.                                        *)
TableHoldsLive ==
  ~met =>
    /\ InTable \subseteq live /\ Cardinality(InTable) <= Due
    /\ ~holed => InTable = live /\ \A i \in Slot : table[i] # None <=> i < Due

(* elab_device_find returns a registered device of the name it was asked   *)
(* for, and NULL only if no registered device has that name: the latter    *)
(* as long as there never was a hole in the table, and both as long as no  *)
(* two threads met in sections under different edf mutexes.                *)
FindIsRight ==
  [][\A t \in Thread : FindScan(t) /\ ~met =>
       LET n == Name[at[t].dev]
       IN  /\ handle'[t] # None => handle'[t] \in live /\ Name[handle'[t]] = n
           /\ handle'[t] = None /\ ~holed => \A d \in live : Name[d] # n]_vars

Opens(d) == Cardinality(opens[d])

(* __device_enable: the enable count is the number of opens not closed     *)
(* yet, whatever the threads' steps in between, unless the driver once     *)
(* refused or the device was unregistered under a user's feet.             *)
CountIsOpens == ~torn /\ ~failed => \A d \in Device : enable[d] = Opens(d)

(* A sole device never has two users, even if the driver refuses to be     *)
(* switched on or off.                                                     *)
SoleHasOneUser == ~torn => \A d \in Sole : Opens(d) <= 1

(* The driver is switched on exactly while somebody has the device open.   *)
OnWhileOpen == ~torn /\ ~failed => \A d \in Device : on[d] <=> Opens(d) > 0

(* What the tests and the assertions of the source claim.                  *)

(* test_edf_core.c unregisters the devices in the order of their           *)
(* registration and finds each of them before: a search that sees no other *)
(* call in between finds every registered device.                          *)
FindFinds ==
  [][\A t \in Thread : FindScan(t) /\ ~met =>
       (handle'[t] = None => \A d \in live : Name[d] # Name[at[t].dev])]_vars

(* elab_device_read and elab_device_write assert that the device is        *)
(* enabled before they call its driver: the driver is switched on then.    *)
DriverCalledWhileOn ==
  \A t \in Thread : at[t].op = "access.driver" /\ ~torn /\ ~failed => on[at[t].dev]

(* elab_device_register registers the device: unless devices left the      *)
(* table from before its end, every registered device stands in the table. *)
NoneLost == ~holed => live \subseteq InTable
=============================================================================
