---------------------------- MODULE MessageQueue ----------------------------
(***************************************************************************)
(* The message queue of the POSIX layer (elab/os/posix/cmsis_os.c): a ring *)
(* of msg_count slots under a mutex, a semaphore of the messages in it and *)
(* one of the free slots.                                                  *)
(*                                                                         *)
(* Each semaphore operation and each critical section is one action; a     *)
(* thread that waits stays where it is.  A message is a value, its copying *)
(* is one assignment.                                                      *)
(***************************************************************************)
EXTENDS Integers, Sequences, FiniteSets

CONSTANTS
  Thread,
  Message,
  Capacity,    \* msg_count
  Garbage,     \* what malloc left in a slot
  CanReset     \* whether osMessageQueueReset is ever called

Slot == 0 .. Capacity - 1

ASSUME QueueAssumption ==
  /\ Capacity \in Nat \ {0}
  /\ IsFiniteSet(Thread)
  /\ Garbage \notin Message
  /\ CanReset \in BOOLEAN

VARIABLES
  memory, head, tail,
  empty, full,
  sem_empty,   \* permits to take a message
  sem_full,    \* permits to store one
  at,          \* where a thread is in osMessageQueuePut or osMessageQueueGet
  got,         \* what the last osMessageQueueGet of a thread copied out
  astray,      \* history: an empty queue was polled, or one with messages reset
  halted       \* an assertion failed

ringVars == <<memory, head, tail, empty, full>>
semVars  == <<sem_empty, sem_full>>
vars == <<ringVars, semVars, at, got, astray, halted>>

(* The timeout argument: osWaitForever, 0, or something between.           *)
Timeouts == {"forever", "timed", "poll"}
Idle == [op |-> "idle"]

-----------------------------------------------------------------------------
(* osMessageQueueNew *)
Init ==
  /\ memory = [i \in Slot |-> Garbage]
  /\ head = 0 /\ tail = 0
  /\ empty = TRUE /\ full = FALSE
  /\ sem_empty = 0 /\ sem_full = Capacity
  /\ at = [t \in Thread |-> Idle]
  /\ got = [t \in Thread |-> Garbage]
  /\ astray = FALSE /\ halted = FALSE

(* Nothing runs after a failed assertion. *)
Halt == halted' = TRUE /\ UNCHANGED <<ringVars, semVars, at, got, astray>>

Goto(t, op) == at' = [at EXCEPT ![t].op = op]
Return(t)   == at' = [at EXCEPT ![t] = Idle]

CallPut(t, m, timeout) ==
  /\ ~halted /\ at[t] = Idle
  /\ at' = [at EXCEPT ![t] = [op |-> "put.wait", msg |-> m, timeout |-> timeout]]
  /\ UNCHANGED <<ringVars, semVars, got, astray, halted>>

(* osMessageQueuePut asserts that it got its permit: a full queue that is  *)
(* not waited for forever stops the program.                               *)
PutAcquire(t) ==
  /\ ~halted /\ at[t].op = "put.wait"
  /\ \/ /\ sem_full > 0
        /\ sem_full' = sem_full - 1
        /\ Goto(t, "put.store")
        /\ UNCHANGED <<ringVars, sem_empty, got, astray, halted>>
     \/ sem_full = 0 /\ at[t].timeout # "forever" /\ Halt

(* Mutant: the slot is filled when the index has moved on. *)
StoreAhead(m) ==
  /\ memory' = [memory EXCEPT ![(head + 1) % Capacity] = m]
  /\ head' = (head + 1) % Capacity
  /\ empty' = FALSE
  /\ full' = (full \/ head' = tail)
  /\ tail' = tail

Store(m) ==
  /\ memory' = [memory EXCEPT ![head] = m]
  /\ head' = (head + 1) % Capacity
  /\ empty' = FALSE
  /\ full' = (full \/ head' = tail)
  /\ tail' = tail

PutStore(t) ==
  /\ ~halted /\ at[t].op = "put.store"
  /\ \/ full /\ empty /\ Halt
     \/ /\ ~(full /\ empty)
        /\ Store(at[t].msg)
        /\ Goto(t, "put.post")
        /\ UNCHANGED <<semVars, got, astray, halted>>

PutPost(t) ==
  /\ ~halted /\ at[t].op = "put.post"
  /\ sem_empty' = sem_empty + 1
  /\ Return(t)
  /\ UNCHANGED <<ringVars, sem_full, got, astray, halted>>

CallGet(t, timeout) ==
  /\ ~halted /\ at[t] = Idle
  /\ at' = [at EXCEPT ![t] = [op |-> "get.wait", timeout |-> timeout]]
  /\ UNCHANGED <<ringVars, semVars, got, astray, halted>>

(* osMessageQueueGet returns on osErrorTimeout only: the osErrorResource   *)
(* of a timeout of 0 goes on as if there were a message.                   *)
GetAcquire(t) ==
  /\ ~halted /\ at[t].op = "get.wait"
  /\ \/ /\ sem_empty > 0
        /\ sem_empty' = sem_empty - 1
        /\ Goto(t, "get.take")
        /\ UNCHANGED <<ringVars, sem_full, got, astray, halted>>
     \/ /\ sem_empty = 0 /\ at[t].timeout = "timed"
        /\ Return(t)
        /\ UNCHANGED <<ringVars, semVars, got, astray, halted>>
     \/ /\ sem_empty = 0 /\ at[t].timeout = "poll"
        /\ Goto(t, "get.take")
        /\ astray' = TRUE
        /\ UNCHANGED <<ringVars, semVars, got, halted>>

Take(t) ==
  /\ got' = [got EXCEPT ![t] = memory[tail]]
  /\ tail' = (tail + 1) % Capacity
  /\ full' = FALSE
  /\ empty' = (empty \/ head = tail')
  /\ UNCHANGED <<memory, head>>

GetTake(t) ==
  /\ ~halted /\ at[t].op = "get.take"
  /\ \/ full /\ empty /\ Halt
     \/ /\ ~(full /\ empty)
        /\ Take(t)
        /\ Goto(t, "get.post")
        /\ UNCHANGED <<semVars, astray, halted>>

(* Mutant: the slot is not given back. *)
GetPostNothing(t) ==
  /\ ~halted /\ at[t].op = "get.post"
  /\ Return(t)
  /\ UNCHANGED <<ringVars, semVars, got, astray, halted>>

GetPost(t) ==
  /\ ~halted /\ at[t].op = "get.post"
  /\ sem_full' = sem_full + 1
  /\ Return(t)
  /\ UNCHANGED <<ringVars, sem_empty, got, astray, halted>>

(* osMessageQueueReset clears the ring and leaves the semaphores. *)
Reset(t) ==
  /\ ~halted /\ at[t] = Idle /\ CanReset
  /\ head' = 0 /\ tail' = 0
  /\ empty' = TRUE /\ full' = FALSE
  /\ astray' = (astray \/ ~empty)
  /\ UNCHANGED <<memory, semVars, at, got, halted>>

-----------------------------------------------------------------------------
Step(t) ==
  \/ PutAcquire(t) \/ PutStore(t) \/ PutPost(t)
  \/ GetAcquire(t) \/ GetTake(t) \/ GetPost(t)

Next == \E t \in Thread :
  \/ \E timeout \in Timeouts : CallGet(t, timeout) \/ \E m \in Message : CallPut(t, m, timeout)
  \/ Step(t)
  \/ Reset(t)

Spec == Init /\ [][Next]_vars

-----------------------------------------------------------------------------
(***************************************************************************)
(* Properties                                                              *)
(***************************************************************************)

(* The threads at one of the places ops. *)
In(ops) == {t \in Thread : at[t].op \in ops}

Calls == {Idle} \cup [op : {"put.wait", "put.store", "put.post"}, msg : Message, timeout : Timeouts]
               \cup [op : {"get.wait", "get.take", "get.post"}, timeout : Timeouts]

(* Every variable keeps its range: the indices stay inside the ring. *)
TypeOK ==
  /\ memory \in [Slot -> Message \cup {Garbage}]
  /\ head \in Slot /\ tail \in Slot
  /\ empty \in BOOLEAN /\ full \in BOOLEAN
  /\ astray \in BOOLEAN /\ halted \in BOOLEAN
  /\ sem_empty \in Nat /\ sem_full \in Nat
  /\ at \in [Thread -> Calls]
  /\ got \in [Thread -> Message \cup {Garbage}]

(* How many messages the ring holds, and which, the oldest first. *)
Count == IF empty THEN 0 ELSE IF full THEN Capacity ELSE (head - tail) % Capacity
Contents == [i \in 1 .. Count |-> memory[(tail + i - 1) % Capacity]]

(* osMessageQueuePut and osMessageQueueGet, for any interleaving of their  *)
(* semaphore operations and critical sections: the permits that are free   *)
(* and the calls under way that hold one account for every message and for *)
(* every free slot.  A waiting thread therefore never sleeps beside a      *)
(* message or a slot that nobody is about to announce.                     *)
PermitsAddUp ==
  ~astray => /\ sem_empty + Cardinality(In({"put.post", "get.take"})) = Count
             /\ sem_full + Cardinality(In({"put.store", "get.post"})) = Capacity - Count

(* The assertion of osMessageQueuePut and osMessageQueueGet on the two     *)
(* flags never fails, and whoever has passed its semaphore finds a message *)
(* to take, or a free slot to fill.                                        *)
FlagsDiffer ==
  ~astray => /\ ~(full /\ empty)
             /\ \A t \in In({"get.take"}) : ~empty
             /\ \A t \in In({"put.store"}) : ~full

(* What a queue promises. *)
Queue == INSTANCE BoundedQueue WITH queue <- Contents

(* The ring, its flags and its semaphores implement the bounded queue:     *)
(* every step stores one message behind the others, takes the oldest one,  *)
(* or is invisible, until an empty queue is polled or one is reset with    *)
(* messages in it.                                                         *)
IsQueue == [][Queue!Next \/ astray']_<<Contents, got>>
=============================================================================
