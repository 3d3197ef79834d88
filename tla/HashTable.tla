----------------------------- MODULE HashTable ------------------------------
(***************************************************************************)
(* The table of names (elab/elib/hash_table.c), in which the simulated     *)
(* devices are found.  It has no lock: one thread adds and removes (the    *)
(* one that creates and destroys devices), others look names up meanwhile, *)
(* at every access to a simulated pin.                                     *)
(*                                                                         *)
(* A lookup looks at one slot per step; an addition writes the data before *)
(* the hashes.  The three hashes of a name are told apart by the name they *)
(* belong to: no two names in use agree in all three.  What is stored      *)
(* under a name is that name.                                              *)
(***************************************************************************)
EXTENDS Integers

CONSTANTS
  Key,        \* names
  Hash,       \* _hash_time33 of each
  Capacity,
  SeekMax,    \* HASH_SEEK_TIMES_MAX
  Reader,     \* threads that look names up
  NULL

Cell == 0 .. Capacity - 1

ASSUME HashAssumption ==
  /\ Capacity \in Nat \ {0}
  /\ SeekMax \in Nat
  /\ Hash \in [Key -> Nat]
  /\ NULL \notin Key

(* _get_prime_max *)
IsPrime(n) == \A d \in 2 .. n - 1 : n % d # 0
prime_max == CHOOSE n \in 1 .. Capacity :
               IsPrime(n) /\ \A m \in n + 1 .. Capacity : ~IsPrime(m)

index_start(k) == Hash[k] % prime_max
Index(k, i)    == (index_start(k) + i) % Capacity

VARIABLES
  data,      \* of each cell: what is stored, or NULL
  hash,      \* of each cell: the name whose hashes it holds, or NULL at first
  write,     \* what the writer is doing
  lookup,    \* what each reader is doing
  stored,    \* history: the names whose addition is complete
  removed    \* history: the names that were ever removed

hashVars == <<data, hash, write, lookup, stored, removed>>

Resting == [op |-> "none"]

-----------------------------------------------------------------------------
(* hash_table_init *)
HashInit ==
  /\ data = [c \in Cell |-> NULL]
  /\ hash = [c \in Cell |-> NULL]
  /\ write = Resting
  /\ lookup = [r \in Reader |-> Resting]
  /\ stored = {} /\ removed = {}

(* The loops over the cells: where a search is, and times_count.           *)
Search(op, k) == [op |-> op, key |-> k, i |-> 0, count |-> 0]

Taken(s)   == data[Index(s.key, s.i)] # NULL
Matches(s) == Taken(s) /\ hash[Index(s.key, s.i)] = s.key

(* The search ends behind this cell. *)
LastTaken(s) == s.count + 1 > SeekMax \/ s.i + 1 = Capacity

PassTaken(s) == [s EXCEPT !.i = @ + 1, !.count = @ + 1]

-----------------------------------------------------------------------------
(* hash_table_add: the caller has made sure that the name is not there.    *)
CallAdd(k) ==
  /\ write = Resting /\ k \notin stored
  /\ write' = Search("add", k)
  /\ UNCHANGED <<data, hash, lookup, stored, removed>>

AddProbe ==
  /\ write.op = "add"
  /\ \/ /\ ~Taken(write)
        /\ data' = [data EXCEPT ![Index(write.key, write.i)] = write.key]
        /\ write' = [write EXCEPT !.op = "fill"]
     \/ /\ Taken(write) /\ ~LastTaken(write)
        /\ write' = PassTaken(write)
        /\ UNCHANGED data
     \/ /\ Taken(write) /\ LastTaken(write)      \* ELAB_ERR_FULL
        /\ write' = Resting
        /\ UNCHANGED data
  /\ UNCHANGED <<hash, lookup, stored, removed>>

AddFill ==
  /\ write.op = "fill"
  /\ hash' = [hash EXCEPT ![Index(write.key, write.i)] = write.key]
  /\ stored' = stored \cup {write.key}
  /\ write' = Resting
  /\ UNCHANGED <<data, lookup, removed>>

(* hash_table_remove *)
Disturb(k) == lookup' = [r \in Reader |->
  IF lookup[r].op # "none" /\ lookup[r].key = k
    THEN [lookup[r] EXCEPT !.steady = FALSE] ELSE lookup[r]]

CallRemove(k) ==
  /\ write = Resting
  /\ write' = Search("remove", k)
  /\ UNCHANGED <<data, hash, lookup, stored, removed>>

RemoveProbe ==
  /\ write.op = "remove"
  /\ \/ /\ Matches(write)
        /\ data' = [data EXCEPT ![Index(write.key, write.i)] = NULL]
        /\ stored' = stored \ {write.key}
        /\ removed' = removed \cup {write.key}
        /\ Disturb(write.key)
        /\ write' = Resting
     \/ /\ ~Matches(write)
        /\ write' = IF write.i + 1 = Capacity \/ (Taken(write) /\ LastTaken(write)) THEN Resting
                    ELSE IF Taken(write) THEN PassTaken(write)
                    ELSE [write EXCEPT !.i = @ + 1]
        /\ UNCHANGED <<data, lookup, stored, removed>>
  /\ UNCHANGED hash

-----------------------------------------------------------------------------
(* hash_table_get: hash_table_index, then the data of the cell it found.   *)
Look(r, l) == lookup' = [lookup EXCEPT ![r] = l]

CallGet(r, k) ==
  /\ lookup[r].op \in {"none", "done"}
  /\ Look(r, [op |-> "get", key |-> k, i |-> 0, count |-> 0, steady |-> k \in stored])
  /\ UNCHANGED <<data, hash, write, stored, removed>>

Finish(r, result) ==
  Look(r, [op |-> "done", key |-> lookup[r].key, steady |-> lookup[r].steady, result |-> result])

(* Mutant: an empty cell ends the search. *)
GetProbeToGap(r) ==
  /\ lookup[r].op = "get"
  /\ \/ Matches(lookup[r]) /\ Look(r, [lookup[r] EXCEPT !.op = "read"])
     \/ ~Taken(lookup[r]) /\ Finish(r, NULL)
     \/ /\ Taken(lookup[r]) /\ ~Matches(lookup[r])
        /\ IF LastTaken(lookup[r]) THEN Finish(r, NULL) ELSE Look(r, PassTaken(lookup[r]))
  /\ UNCHANGED <<data, hash, write, stored, removed>>

GetProbe(r) ==
  /\ lookup[r].op = "get"
  /\ LET l == lookup[r] IN
       \/ Matches(l) /\ Look(r, [l EXCEPT !.op = "read"])
       \/ /\ ~Taken(l)
          /\ IF l.i + 1 = Capacity THEN Finish(r, NULL) ELSE Look(r, [l EXCEPT !.i = @ + 1])
       \/ /\ Taken(l) /\ ~Matches(l)
          /\ IF LastTaken(l) THEN Finish(r, NULL) ELSE Look(r, PassTaken(l))
  /\ UNCHANGED <<data, hash, write, stored, removed>>

GetRead(r) ==
  /\ lookup[r].op = "read"
  /\ Finish(r, data[Index(lookup[r].key, lookup[r].i)])
  /\ UNCHANGED <<data, hash, write, stored, removed>>

HashNext ==
  \/ \E k \in Key : CallAdd(k) \/ CallRemove(k)
  \/ AddProbe \/ AddFill \/ RemoveProbe
  \/ \E r \in Reader : (\E k \in Key : CallGet(r, k)) \/ GetProbe(r) \/ GetRead(r)

HashSpec == HashInit /\ [][HashNext]_hashVars

-----------------------------------------------------------------------------
(* A lookup finds what was stored under its name all the time it took,     *)
(* whatever else is added and removed meanwhile, before it and behind it;  *)
(* and the lookup of a name that was never removed finds nothing else,     *)
(* although a cell's data is there before its hashes.                      *)
LookupIsRight == \A r \in Reader : lookup[r].op = "done" =>
  /\ lookup[r].steady => lookup[r].result = lookup[r].key
  /\ lookup[r].key \notin removed => lookup[r].result \in {lookup[r].key, NULL}
=============================================================================
