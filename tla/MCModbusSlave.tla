--------------------------- MODULE MCModbusSlave ---------------------------
(***************************************************************************)
(* One slave, with the items 0 to 3 and 65535, which 0 follows: register 3 *)
(* is unknown and those from 2 on are floats; and requests of a master     *)
(* that also sends wrong lengths, counts, functions, addresses, ranges     *)
(* that go on behind 65535, and broadcasts.                                *)
(***************************************************************************)
EXTENDS ModbusSlave

MCItems == 0 .. 3 \cup {65535}
MCKnown == [k \in Tables |-> IF k = "holding" THEN {0, 1, 2, 65535}
                            ELSE IF k = "coil" THEN {0, 65535} ELSE {0}]

Ask(fc, start, count, vals, ndata, bytes) ==
  [addr |-> 1, fc |-> fc, start |-> start, count |-> count, vals |-> vals,
   ndata |-> ndata, bytes |-> bytes]

MCForeign ==
  { Ask(1, 0, 1, <<>>, 4, 0), Ask(1, 0, 2, <<>>, 4, 0), Ask(2, 0, 1, <<>>, 4, 0),
    Ask(3, 0, 2, <<>>, 4, 0), Ask(3, 1, 2, <<>>, 4, 0), Ask(3, 0, 0, <<>>, 4, 0),
    Ask(3, 0, 1, <<>>, 5, 0), Ask(3, 0, 1, <<>>, 4, 0), Ask(4, 0, 1, <<>>, 4, 0), Ask(7, 0, 1, <<>>, 4, 0),
    Ask(5, 0, 1, <<1>>, 4, 0), Ask(5, 1, 1, <<1>>, 4, 0),
    Ask(6, 0, 1, <<1>>, 4, 0), Ask(6, 2, 1, <<1>>, 6, 0), Ask(6, 2, 1, <<1>>, 4, 0),
    Ask(15, 0, 1, <<1>>, 6, 1), Ask(15, 0, 2, <<1, 1>>, 6, 1), Ask(15, 0, 1, <<1>>, 6, 2),
    Ask(16, 0, 2, <<1, 0>>, 9, 4), Ask(16, 2, 2, <<1, 1>>, 13, 8), Ask(16, 1, 2, <<1, 1>>, 9, 4),
    Ask(16, 0, 2, <<0, 1>>, 10, 5), Ask(16, 0, 2, <<0, 1>>, 9, 3), Ask(16, 0, 2, <<0, 1>>, 7, 2),
    Ask(1, 65535, 2, <<>>, 4, 0), Ask(3, 65535, 2, <<>>, 4, 0),
    Ask(15, 65535, 2, <<1, 1>>, 6, 1), Ask(16, 65535, 2, <<1, 0>>, 13, 8),
    [Ask(16, 2, 2, <<1, 1>>, 13, 8) EXCEPT !.addr = 0],
    [Ask(6, 0, 1, <<0>>, 4, 0) EXCEPT !.addr = 0],
    [Ask(6, 0, 1, <<1>>, 4, 0) EXCEPT !.addr = 2] }
=============================================================================
