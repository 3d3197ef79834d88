---------------------------- MODULE BoundedQueue ----------------------------
(***************************************************************************)
(* What a message queue of the OS layer promises to its callers (the       *)
(* osMessageQueue functions of elab/os/cmsis_os.h): a first-in first-out   *)
(* queue of at most Capacity messages that loses none, repeats none and    *)
(* makes none up.                                                          *)
(***************************************************************************)
EXTENDS Integers, Sequences

CONSTANTS
  Thread,
  Message,
  Capacity

VARIABLES
  queue,       \* the messages, the oldest first
  got          \* what the last osMessageQueueGet of a thread copied out

Put(t, m) ==
  /\ Len(queue) < Capacity
  /\ queue' = Append(queue, m)
  /\ got' = got

Get(t) ==
  /\ queue # <<>>
  /\ got' = [got EXCEPT ![t] = Head(queue)]
  /\ queue' = Tail(queue)

Next == \E t \in Thread : Get(t) \/ \E m \in Message : Put(t, m)
=============================================================================
