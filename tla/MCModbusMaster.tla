--------------------------- MODULE MCModbusMaster ---------------------------
(***************************************************************************)
(* Two tasks that use one channel, and two slaves.  A byte of a reply may  *)
(* become 1, or its rest may be lost, once in every call.                  *)
(***************************************************************************)
EXTENDS ModbusMaster

CONSTANTS p, q

MCItems == 0 .. 2
MCKnown == [k \in Tables |-> IF k = "holding" THEN {0, 1} ELSE IF k = "in" THEN {0} ELSE {}]

Ask(addr, fc, start, count, vals, ndata, bytes) ==
  [addr |-> addr, fc |-> fc, start |-> start, count |-> count, vals |-> vals,
   ndata |-> ndata, bytes |-> bytes]

(* Reads of an input register of both slaves and of two holding registers, *)
(* a write that is carried out, one that is refused behind its first       *)
(* register, one to the other slave, and one to both.                      *)
MCAsked ==
  { Ask(1, 4, 0, 1, <<>>, 4, 0), Ask(2, 4, 0, 1, <<>>, 4, 0), Ask(1, 3, 0, 2, <<>>, 4, 0),
    Ask(1, 16, 0, 2, <<1, 1>>, 9, 4), Ask(1, 16, 1, 2, <<1, 1>>, 9, 4),
    Ask(2, 6, 0, 1, <<1>>, 4, 0), Ask(0, 6, 0, 1, <<1>>, 4, 0) }

(* Of all twelve functions: the reply that a slave makes is as long as the *)
(* master expects, passes its comparison, and is parsed to what was read.  *)
AnyRead == [addr : {1}, fc : Reads, start : {0, FpStart}, count : {1, 2, 8, 9}]
AnyWrite == [addr : {1}, fc : Writes, start : {0, FpStart}, count : {1}, vals : {<<0>>, <<1>>}]
ReadBack(f, values) ==
  Evaluated(f, ReadBytes(f, [i \in 1 .. f.count |-> <<f.start + i - 1, values[i]>>]))

ASSUME RepliesArePassed ==
  /\ \A f \in {g \in AnyRead : ~Straddles(g)} : \A v \in [1 .. f.count -> {0, 1}] :
       /\ ReadBack(f, v) = Outcome("NONE", v)
       /\ Expected(f) = Len(ReadBytes(f, [i \in 1 .. f.count |-> <<f.start + i - 1, v[i]>>]))
  /\ \A f \in AnyWrite :
       Compared(f, EchoBytes(f)) = "NONE" /\ Expected(f) = Len(EchoBytes(f))

(* An exception is shorter than every reply that a master waits for. *)
ASSUME ExceptionsAreShort ==
  \A f \in AnyRead \cup AnyWrite : Len(ExceptionBytes(f, ILLEGAL_FC)) < Expected(f)
=============================================================================
