------------------------- MODULE MessageQueueProofs -------------------------
(***************************************************************************)
(* Machine-checked proofs about MessageQueue, for every number of threads, *)
(* every capacity and every set of messages.                               *)
(***************************************************************************)
EXTENDS MessageQueue, FiniteSetTheorems, SequenceTheorems, TLAPS

-----------------------------------------------------------------------------
(* Arithmetic of the ring. *)

(* Within one turn, % Capacity subtracts Capacity at most once. *)
LEMMA OneTurn ==
  ASSUME NEW x \in Nat, x < 2 * Capacity
  PROVE  x % Capacity = IF x < Capacity THEN x ELSE x - Capacity
<1>1. Capacity \in Nat \ {0}
  BY QueueAssumption
<1>2. CASE x < Capacity
  BY <1>1, <1>2
<1>3. CASE x >= Capacity
  <2>1. x - Capacity \in 0 .. Capacity - 1
    BY <1>1, <1>3
  <2>2. x = 1 * Capacity + (x - Capacity)
    BY <1>1
  <2> QED BY <1>1, <1>3, <2>1, <2>2
<1> QED BY <1>1, <1>2, <1>3

(* The distance from y to x along the ring. *)
LEMMA Distance ==
  ASSUME NEW x \in Slot, NEW y \in Slot
  PROVE  (x - y) % Capacity = IF x < y THEN x - y + Capacity ELSE x - y
<1>1. Capacity \in Nat \ {0} /\ x \in 0 .. Capacity - 1 /\ y \in 0 .. Capacity - 1
  BY QueueAssumption DEF Slot
<1>2. CASE x < y
  BY <1>1, <1>2
<1>3. CASE x >= y
  BY <1>1, <1>3, x - y \in 0 .. Capacity - 1
<1> QED BY <1>1, <1>2, <1>3

-----------------------------------------------------------------------------
(* Threads that move: how many are at one of the places ops. *)

LEMMA Moved ==
  ASSUME NEW A \in SUBSET Thread, NEW B, NEW t \in Thread, NEW b \in BOOLEAN,
         B = IF b THEN (A \ {t}) \cup {t} ELSE A \ {t}
  PROVE  /\ Cardinality(A) \in Nat
         /\ Cardinality(B) = (Cardinality(A) - (IF t \in A THEN 1 ELSE 0)) + (IF b THEN 1 ELSE 0)
         /\ t \in A => Cardinality(A) > 0
<1> DEFINE C == A \ {t}
<1>1. IsFiniteSet(A)
  BY QueueAssumption, FS_Subset
<1>2. /\ IsFiniteSet(C)
      /\ Cardinality(C) = IF t \in A THEN Cardinality(A) - 1 ELSE Cardinality(A)
  BY <1>1, FS_RemoveElement
<1>3. Cardinality(C \cup {t}) = Cardinality(C) + 1
  BY <1>2, FS_AddElement
<1>4. Cardinality(A) \in Nat /\ Cardinality(C) \in Nat
  BY <1>1, <1>2, FS_CardinalityType
<1> QED BY <1>2, <1>3, <1>4

-----------------------------------------------------------------------------
(* The ring. *)

(* The flags tell an empty ring from a full one. *)
Ring == ~(full /\ empty) /\ (head = tail <=> full \/ empty)

LEMMA CountIsLength ==
  ASSUME TypeOK, Ring
  PROVE  /\ Count \in 0 .. Capacity
         /\ empty <=> Count = 0
         /\ full <=> Count = Capacity
         /\ Contents \in Seq(Message \cup {Garbage}) /\ Len(Contents) = Count
         /\ head = IF tail + Count < Capacity THEN tail + Count ELSE tail + Count - Capacity
<1>1. Capacity \in Nat \ {0} /\ head \in 0 .. Capacity - 1 /\ tail \in 0 .. Capacity - 1
  BY QueueAssumption DEF TypeOK, Slot
<1>2. ~empty /\ ~full => Count = IF head > tail THEN head - tail ELSE head - tail + Capacity
  <2>1. (head - tail) % Capacity = IF head < tail THEN head - tail + Capacity ELSE head - tail
    BY Distance DEF TypeOK
  <2> QED BY <1>1, <2>1 DEF Ring, Count, TypeOK
<1>3. /\ Count \in 0 .. Capacity
      /\ empty <=> Count = 0
      /\ full <=> Count = Capacity
      /\ head = IF tail + Count < Capacity THEN tail + Count ELSE tail + Count - Capacity
  BY <1>1, <1>2 DEF Ring, Count, TypeOK
<1>4. \A i \in 1 .. Count : (tail + i - 1) % Capacity \in Slot
  BY <1>1, <1>3 DEF Slot
<1>5. \A i \in 1 .. Count : memory[(tail + i - 1) % Capacity] \in Message \cup {Garbage}
  BY <1>4 DEF TypeOK
<1> QED BY <1>3, <1>5 DEF Contents

LEMMA CountIsNat == TypeOK => Count \in Nat
BY QueueAssumption, Distance DEF TypeOK, Count, Slot

LEMMA StoreAppends ==
  ASSUME TypeOK, Ring, ~full, NEW m \in Message, Store(m)
  PROVE  /\ Count < Capacity
         /\ Count' = Count + 1
         /\ Contents' = Append(Contents, m)
         /\ Ring' /\ head' \in Slot
<1>1. Capacity \in Nat \ {0} /\ head \in 0 .. Capacity - 1 /\ tail \in 0 .. Capacity - 1
  BY QueueAssumption DEF TypeOK, Slot
<1>2. head' = IF head + 1 < Capacity THEN head + 1 ELSE 0
  BY <1>1, OneTurn DEF Store
<1>3. Count \in 0 .. Capacity - 1 /\ Len(Contents) = Count
      /\ head = IF tail + Count < Capacity THEN tail + Count ELSE tail + Count - Capacity
  BY <1>1, CountIsLength
<1>4. Ring' /\ head' \in Slot
  <2>1. ~empty' /\ (full' <=> head' = tail')
    BY DEF Store, TypeOK
  <2>2. head' \in Slot
    BY <1>1, <1>2 DEF Slot
  <2> QED BY <2>1, <2>2 DEF Ring
<1>5. Count' = Count + 1
  <2>1. CASE full'
    <3>1. Count' = Capacity /\ head' = tail
      BY <2>1 DEF Store, TypeOK, Count
    <3> QED BY <1>1, <1>2, <1>3, <3>1
  <2>2. CASE ~full'
    <3>1. head' # tail /\ ~empty'
      BY <2>2 DEF Store, TypeOK
    <3>2. (head' - tail) % Capacity = IF head' < tail THEN head' - tail + Capacity ELSE head' - tail
      BY <1>4, Distance DEF TypeOK
    <3>3. (head' - tail) % Capacity = Count + 1
      BY <1>1, <1>2, <1>3, <3>1, <3>2
    <3> QED BY <2>2, <3>1, <3>3 DEF Count, Store
  <2> QED BY <2>1, <2>2
<1>6. ASSUME NEW i \in 1 .. Count
      PROVE  (tail + i - 1) % Capacity \in Slot /\ (tail + i - 1) % Capacity # head
  <2>1. tail + i - 1 \in Nat /\ tail + i - 1 < 2 * Capacity
    BY <1>1, <1>3
  <2>2. (tail + i - 1) % Capacity = IF tail + i - 1 < Capacity THEN tail + i - 1 ELSE tail + i - 1 - Capacity
    BY <1>1, <2>1, OneTurn
  <2> QED BY <1>1, <1>3, <2>2 DEF Slot
<1>7. (tail + Count) % Capacity = head
  <2>1. tail + Count \in Nat /\ tail + Count < 2 * Capacity
    BY <1>1, <1>3
  <2>2. (tail + Count) % Capacity = IF tail + Count < Capacity THEN tail + Count ELSE tail + Count - Capacity
    <3> DEFINE x == tail + Count
    <3>1. x \in Nat /\ x < 2 * Capacity
      BY <2>1
    <3> HIDE DEF x
    <3>2. x % Capacity = IF x < Capacity THEN x ELSE x - Capacity
      BY <1>1, <3>1, OneTurn
    <3> QED BY <1>1, <1>3, <2>1, <3>2 DEF x
  <2> QED BY <1>1, <1>3, <2>2
<1>8. Contents' = [i \in 1 .. Count + 1 |-> memory'[(tail + i - 1) % Capacity]]
  BY <1>5 DEF Contents, Store
<1>9. \A i \in 1 .. Count : Contents[i] = memory[(tail + i - 1) % Capacity]
  BY DEF Contents
<1>10. memory' \in [Slot -> Message \cup {Garbage}]
  BY DEF Store, TypeOK
<1>11. ASSUME NEW i \in 1 .. Count + 1
       PROVE  /\ Contents'[i] \in Message \cup {Garbage}
              /\ Contents'[i] = IF i = Count + 1 THEN m ELSE Contents[i]
  <2>1. Contents'[i] = memory'[(tail + i - 1) % Capacity]
    BY <1>8
  <2>2. CASE i = Count + 1
    <3>1. (tail + i - 1) % Capacity = head
      BY <1>1, <1>3, <1>7, <2>2
    <3> QED BY <2>1, <2>2, <3>1 DEF Store, TypeOK
  <2>3. CASE i # Count + 1
    <3>1. i \in 1 .. Count
      BY <1>3, <2>3
    <3> QED BY <1>6, <1>9, <1>10, <2>1, <2>3, <3>1 DEF Store, TypeOK
  <2> QED BY <2>2, <2>3
<1> DEFINE M == Message \cup {Garbage}
           c == Contents'
<1>12. Contents' = Append(Contents, m)
  <2>1. Contents \in Seq(M) /\ m \in M
    BY CountIsLength
  <2>2. /\ Append(Contents, m) \in Seq(M)
        /\ Len(Append(Contents, m)) = Count + 1
        /\ \A i \in 1 .. Count : Append(Contents, m)[i] = Contents[i]
        /\ Append(Contents, m)[Count + 1] = m
    BY <1>3, <2>1, AppendProperties
  <2>3. c \in Seq(M) /\ Len(c) = Count + 1
    <3>1. Count + 1 \in Nat /\ DOMAIN c = 1 .. Count + 1
      BY <1>3, <1>8
    <3>2. c = [i \in 1 .. Count + 1 |-> c[i]]
      BY <1>8
    <3>3. \A i \in 1 .. Count + 1 : c[i] \in M
      BY <1>11
    <3> HIDE DEF c, M
    <3> QED BY <3>1, <3>2, <3>3
  <2>4. \A i \in 1 .. Len(c) : c[i] = Append(Contents, m)[i]
    <3> TAKE i \in 1 .. Len(c)
    <3>1. i = Count + 1 \/ i \in 1 .. Count
      BY <1>3, <2>3
    <3> QED BY <1>11, <2>2, <2>3, <3>1
  <2> HIDE DEF M, c
  <2>5. c = Append(Contents, m)
    BY <2>2, <2>3, <2>4, SeqEqual
  <2> QED BY <2>5 DEF c
<1> HIDE DEF c
<1>13. Count < Capacity
  BY <1>1, <1>3
<1> QED BY <1>4, <1>5, <1>12, <1>13

LEMMA TakeRemoves ==
  ASSUME TypeOK, Ring, ~empty, NEW t \in Thread, Take(t)
  PROVE  /\ Count' = Count - 1
         /\ Contents # <<>>
         /\ got' = [got EXCEPT ![t] = Head(Contents)]
         /\ Contents' = Tail(Contents)
         /\ Ring' /\ tail' \in Slot
<1>1. Capacity \in Nat \ {0} /\ head \in 0 .. Capacity - 1 /\ tail \in 0 .. Capacity - 1
  BY QueueAssumption DEF TypeOK, Slot
<1>2. tail' = IF tail + 1 < Capacity THEN tail + 1 ELSE 0
  BY <1>1, OneTurn DEF Take
<1>3. Count \in 1 .. Capacity /\ Len(Contents) = Count /\ Contents \in Seq(Message \cup {Garbage})
      /\ head = IF tail + Count < Capacity THEN tail + Count ELSE tail + Count - Capacity
  BY <1>1, CountIsLength
<1>4. Ring' /\ tail' \in Slot
  <2>1. ~full' /\ (empty' <=> head' = tail')
    BY DEF Take, TypeOK
  <2>2. tail' \in Slot
    BY <1>1, <1>2 DEF Slot
  <2> QED BY <2>1, <2>2 DEF Ring
<1>5. Count' = Count - 1
  <2>1. CASE empty'
    BY <1>1, <1>2, <1>3, <2>1, CountIsLength DEF Take, TypeOK, Count, Ring
  <2>2. CASE ~empty'
    <3>1. head # tail' /\ ~full' /\ head' = head
      BY <2>2 DEF Take, TypeOK
    <3>2. (head - tail') % Capacity = IF head < tail' THEN head - tail' + Capacity ELSE head - tail'
      BY <1>4, Distance DEF TypeOK
    <3>3. (head - tail') % Capacity = Count - 1
      BY <1>1, <1>2, <1>3, <3>1, <3>2
    <3> QED BY <2>2, <3>1, <3>3 DEF Count
  <2> QED BY <2>1, <2>2
<1>6. Contents[1] = memory[tail]
  BY <1>1, <1>3, OneTurn DEF Contents
<1>7. ASSUME NEW i \in 1 .. Count - 1
      PROVE  (tail' + i - 1) % Capacity = (tail + i) % Capacity
  <2>1. /\ tail + i \in Nat /\ tail + i < 2 * Capacity
        /\ tail' + i - 1 \in Nat /\ tail' + i - 1 < 2 * Capacity
    BY <1>1, <1>2, <1>3
  <2>2. (tail + i) % Capacity = IF tail + i < Capacity THEN tail + i ELSE tail + i - Capacity
    BY <1>1, <2>1, OneTurn
  <2>3. (tail' + i - 1) % Capacity = IF tail' + i - 1 < Capacity THEN tail' + i - 1 ELSE tail' + i - 1 - Capacity
    <3> DEFINE x == tail' + i - 1
    <3>1. x \in Nat /\ x < 2 * Capacity
      BY <2>1
    <3> HIDE DEF x
    <3>2. x % Capacity = IF x < Capacity THEN x ELSE x - Capacity
      BY <1>1, <3>1, OneTurn
    <3> QED BY <1>1, <1>2, <2>1, <3>2 DEF x
  <2> QED BY <1>1, <1>2, <1>3, <2>2, <2>3
<1>8. Contents' = [i \in 1 .. Count - 1 |-> memory[(tail' + i - 1) % Capacity]]
  BY <1>5 DEF Contents, Take
<1>9. \A i \in 1 .. Count - 1 : Contents[i + 1] = memory[(tail + i) % Capacity]
  BY <1>1, <1>3 DEF Contents
<1> DEFINE M == Message \cup {Garbage}
           c == Contents'
<1>10. Contents # <<>>
  BY <1>3
<1>11. Contents' = Tail(Contents)
  <2>1. /\ Tail(Contents) \in Seq(M)
        /\ Len(Tail(Contents)) = Count - 1
        /\ \A i \in 1 .. Count - 1 : Tail(Contents)[i] = Contents[i + 1]
    BY <1>3, <1>10, HeadTailProperties
  <2>2. \A i \in 1 .. Count - 1 : c[i] = Contents[i + 1] /\ Contents[i + 1] \in M
    BY <1>3, <1>7, <1>8, <1>9
  <2>3. c \in Seq(M) /\ Len(c) = Count - 1
    BY <1>3, <1>8, <2>2
  <2>4. \A i \in 1 .. Len(c) : c[i] = Tail(Contents)[i]
    BY <2>1, <2>2, <2>3
  <2> HIDE DEF M, c
  <2>5. c = Tail(Contents)
    BY <2>1, <2>3, <2>4, SeqEqual
  <2> QED BY <2>5 DEF c
<1>12. got' = [got EXCEPT ![t] = Head(Contents)]
  <2>1. Head(Contents) = memory[tail]
    BY <1>3, <1>6, <1>10
  <2> QED BY <2>1 DEF Take
<1> HIDE DEF c
<1> QED BY <1>4, <1>5, <1>10, <1>11, <1>12

-----------------------------------------------------------------------------
(* The inductive invariant: the types, what the flags say, and the permit  *)
(* accounts, which alone tell that the thread in a critical section finds  *)
(* a message or a free slot there.                                         *)

Inv == TypeOK /\ (~astray => Ring) /\ PermitsAddUp

Held  == {"put.post", "get.take"}
Freed == {"put.store", "get.post"}

One(b) == IF b THEN 1 ELSE 0

(* How the two accounts change when thread t goes to the place r. *)
LEMMA Accounts ==
  ASSUME TypeOK, NEW t \in Thread, NEW r, at' = [at EXCEPT ![t] = r]
  PROVE  /\ Cardinality(In(Held)) \in Nat /\ Cardinality(In(Freed)) \in Nat
         /\ Cardinality(In(Held)') = (Cardinality(In(Held)) - One(at[t].op \in Held)) + One(r.op \in Held)
         /\ Cardinality(In(Freed)') = (Cardinality(In(Freed)) - One(at[t].op \in Freed)) + One(r.op \in Freed)
         /\ at[t].op \in Held => Cardinality(In(Held)) > 0
         /\ at[t].op \in Freed => Cardinality(In(Freed)) > 0
<1>1. DOMAIN at = Thread
  BY DEF TypeOK
<1>2. ASSUME NEW ops
      PROVE  /\ Cardinality(In(ops)) \in Nat
             /\ Cardinality(In(ops)') = (Cardinality(In(ops)) - One(at[t].op \in ops)) + One(r.op \in ops)
             /\ at[t].op \in ops => Cardinality(In(ops)) > 0
  <2> DEFINE b == r.op \in ops
             A == In(ops)
             B == In(ops)'
  <2>1. A \in SUBSET Thread /\ (t \in A <=> at[t].op \in ops) /\ b \in BOOLEAN
    BY DEF In
  <2>2. B = IF b THEN (A \ {t}) \cup {t} ELSE A \ {t}
    BY <1>1 DEF In
  <2> HIDE DEF A, B, b
  <2>3. /\ Cardinality(A) \in Nat
        /\ Cardinality(B) = (Cardinality(A) - (IF t \in A THEN 1 ELSE 0)) + (IF b THEN 1 ELSE 0)
        /\ t \in A => Cardinality(A) > 0
    BY <2>1, <2>2, Moved
  <2> QED BY <2>1, <2>3 DEF One, A, B, b
<1> QED BY <1>2 DEF Held, Freed

(* A call under way goes to another of its places. *)
LEMMA PlaceType ==
  ASSUME TypeOK, NEW t \in Thread, NEW p
  PROVE  /\ at[t].op \in {"put.wait", "put.store", "put.post"} =>
              /\ at[t].msg \in Message
              /\ p \in {"put.store", "put.post"} => [at[t] EXCEPT !.op = p] \in Calls
         /\ at[t].op \in {"get.wait", "get.take", "get.post"} /\ p \in {"get.take", "get.post"} =>
              [at[t] EXCEPT !.op = p] \in Calls
         /\ at[t].op \in {"put.wait", "put.store", "put.post", "get.wait", "get.take", "get.post"} =>
              [at[t] EXCEPT !.op = p].op = p
<1>1. at[t] \in Calls
  BY DEF TypeOK
<1> QED BY <1>1 DEF Calls, Idle

LEMMA NextSlot ==
  ASSUME NEW i \in Slot
  PROVE  (i + 1) % Capacity \in Slot
BY QueueAssumption DEF Slot

(* Any step that leaves the ring alone. *)
LEMMA RingUnchanged ==
  ASSUME UNCHANGED ringVars
  PROVE  (Ring' <=> Ring) /\ Count' = Count /\ Contents' = Contents
BY DEF ringVars, Ring, Count, Contents

LEMMA InvInit == Init => Inv
<1> SUFFICES ASSUME Init PROVE Inv
  OBVIOUS
<1>1. TypeOK
  <2>1. 0 \in Slot /\ Idle \in Calls /\ Capacity \in Nat
    BY QueueAssumption DEF Slot, Calls
  <2> QED BY <2>1 DEF Init, TypeOK
<1>2. Ring /\ Count = 0
  BY DEF Init, Ring, Count
<1>3. In(Held) = {} /\ In(Freed) = {}
  BY DEF Init, In, Idle, Held, Freed
<1>4. PermitsAddUp
  BY <1>2, <1>3, FS_EmptySet, QueueAssumption DEF PermitsAddUp, Init, Held, Freed
<1> QED BY <1>1, <1>2, <1>4 DEF Inv

(* A step keeps the accounts if it moves as many permits as it moves       *)
(* threads and messages.                                                   *)
LEMMA MoveKeepsAccounts ==
  ASSUME Inv, TypeOK', NEW t \in Thread, NEW r, at' = [at EXCEPT ![t] = r],
         ~astray' => /\ ~astray /\ Ring'
                     /\ (sem_empty' - sem_empty) + (One(r.op \in Held) - One(at[t].op \in Held)) = Count' - Count
                     /\ (sem_full' - sem_full) + (One(r.op \in Freed) - One(at[t].op \in Freed)) = Count - Count'
  PROVE  Inv'
<1> SUFFICES ASSUME ~astray' PROVE Ring' /\ PermitsAddUp'
  BY DEF Inv, PermitsAddUp
<1> DEFINE h == Cardinality(In(Held))
           k == Cardinality(In(Freed))
           h2 == Cardinality(In(Held)')
           k2 == Cardinality(In(Freed)')
           e2 == sem_empty'
           f2 == sem_full'
           n2 == Count'
           a == One(at[t].op \in Held)
           b == One(r.op \in Held)
           c == One(at[t].op \in Freed)
           d == One(r.op \in Freed)
<1>1. h \in Nat /\ k \in Nat /\ h2 = (h - a) + b /\ k2 = (k - c) + d
  BY Accounts DEF Inv
<1>2. a \in {0, 1} /\ b \in {0, 1} /\ c \in {0, 1} /\ d \in {0, 1}
  BY DEF One
<1>3. Count \in Nat /\ n2 \in Nat /\ Capacity \in Nat
  <2>1. (TypeOK => Count \in Nat)'
    BY CountIsNat, PTL
  <2> QED BY <2>1, CountIsNat, QueueAssumption DEF Inv
<1>4. sem_empty \in Nat /\ sem_full \in Nat /\ e2 \in Nat /\ f2 \in Nat
  BY DEF Inv, TypeOK
<1>5. sem_empty + h = Count /\ sem_full + k = Capacity - Count
  BY DEF Inv, PermitsAddUp, Held, Freed
<1>6. (e2 - sem_empty) + (b - a) = n2 - Count /\ (f2 - sem_full) + (d - c) = Count - n2
  OBVIOUS
<1> HIDE DEF h, k, h2, k2, a, b, c, d, e2, f2, n2
<1>7. e2 + h2 = n2 /\ f2 + k2 = Capacity - n2
  BY <1>1, <1>2, <1>3, <1>4, <1>5, <1>6
<1> QED BY <1>7 DEF PermitsAddUp, h2, k2, e2, f2, n2, Held, Freed

LEMMA CallKeepsInv ==
  ASSUME Inv, NEW t \in Thread,
         \/ \E timeout \in Timeouts : CallGet(t, timeout)
         \/ \E timeout \in Timeouts, m \in Message : CallPut(t, m, timeout)
  PROVE  Inv'
<1>1. PICK r \in Calls : r.op \in {"get.wait", "put.wait"} /\ at' = [at EXCEPT ![t] = r]
  BY DEF CallGet, CallPut, Calls
<1>2. at[t].op = "idle" /\ UNCHANGED <<ringVars, semVars, got, astray, halted>>
  BY DEF CallGet, CallPut, Idle
<1>3. TypeOK'
  BY <1>1, <1>2 DEF Inv, TypeOK, ringVars, semVars
<1>4. One(at[t].op \in Held) = 0 /\ One(r.op \in Held) = 0
      /\ One(at[t].op \in Freed) = 0 /\ One(r.op \in Freed) = 0
  BY <1>1, <1>2 DEF One, Held, Freed
<1>5. sem_empty' - sem_empty = 0 /\ sem_full' - sem_full = 0 /\ Count - Count = 0
  BY <1>2, CountIsNat DEF Inv, TypeOK, semVars
<1>6. ~astray' => /\ ~astray /\ Ring'
                  /\ (sem_empty' - sem_empty) + (One(r.op \in Held) - One(at[t].op \in Held)) = Count' - Count
                  /\ (sem_full' - sem_full) + (One(r.op \in Freed) - One(at[t].op \in Freed)) = Count - Count'
  BY <1>2, <1>4, <1>5, RingUnchanged DEF Inv
<1> QED BY <1>1, <1>3, <1>6, MoveKeepsAccounts

(* A thread inside a critical section found what its permit stands for. *)
LEMMA PermitHolds ==
  ASSUME Inv, ~astray, NEW t \in Thread
  PROVE  /\ Ring
         /\ at[t].op \in Held => ~empty
         /\ at[t].op \in Freed => ~full
<1>1. Ring /\ TypeOK
  BY DEF Inv
<1>3. at[t].op \in Held => Cardinality(In(Held)) > 0
  <2>1. In(Held) \in SUBSET Thread /\ (at[t].op \in Held => t \in In(Held))
    BY DEF In
  <2> HIDE DEF In
  <2>2. t \in In(Held) => Cardinality(In(Held)) > 0
    BY <2>1, FS_Subset, FS_EmptySet, FS_CardinalityType, QueueAssumption
  <2> QED BY <2>1, <2>2
<1>4. at[t].op \in Freed => Cardinality(In(Freed)) > 0
  <2>1. In(Freed) \in SUBSET Thread /\ (at[t].op \in Freed => t \in In(Freed))
    BY DEF In
  <2>2. t \in In(Freed) => Cardinality(In(Freed)) > 0
    BY <2>1, FS_Subset, FS_EmptySet, FS_CardinalityType, QueueAssumption
  <2> QED BY <2>1, <2>2
<1>5. /\ sem_empty + Cardinality(In(Held)) = Count
      /\ sem_full + Cardinality(In(Freed)) = Capacity - Count
      /\ Cardinality(In(Held)) \in Nat /\ Cardinality(In(Freed)) \in Nat
  <2>1. In(Held) \in SUBSET Thread /\ In(Freed) \in SUBSET Thread
    BY DEF In
  <2>2. Cardinality(In(Held)) \in Nat /\ Cardinality(In(Freed)) \in Nat
    BY <2>1, FS_Subset, FS_CardinalityType, QueueAssumption
  <2> QED BY <2>2 DEF Inv, PermitsAddUp, Held, Freed
<1>6. sem_empty \in Nat /\ sem_full \in Nat /\ Capacity \in Nat /\ Count \in 0 .. Capacity
      /\ (empty <=> Count = 0) /\ (full <=> Count = Capacity)
  BY <1>1, CountIsLength, QueueAssumption DEF TypeOK
<1>7. at[t].op \in Held => Count # 0
  BY <1>3, <1>5, <1>6
<1>8. at[t].op \in Freed => Count # Capacity
  BY <1>4, <1>5, <1>6
<1> QED BY <1>1, <1>6, <1>7, <1>8

LEMMA HaltKeepsInv == Inv /\ Halt => Inv'
<1> SUFFICES ASSUME Inv, Halt PROVE Inv'
  OBVIOUS
<1>1. UNCHANGED <<ringVars, semVars, at, got, astray>> /\ halted' = TRUE
  BY DEF Halt
<1>2. TypeOK'
  BY <1>1 DEF Inv, TypeOK, ringVars, semVars
<1> QED BY <1>1, <1>2, RingUnchanged DEF Inv, PermitsAddUp, In, semVars

LEMMA PutAcquireKeepsInv ==
  ASSUME Inv, NEW t \in Thread, PutAcquire(t)
  PROVE  Inv'
<1>1. CASE Halt
  BY <1>1, HaltKeepsInv
<1>2. CASE ~Halt
  <2> DEFINE r == [at[t] EXCEPT !.op = "put.store"]
  <2>1. /\ at[t].op = "put.wait" /\ sem_full > 0 /\ sem_full' = sem_full - 1
        /\ at' = [at EXCEPT ![t] = r]
        /\ UNCHANGED <<ringVars, sem_empty, got, astray, halted>>
    BY <1>2 DEF PutAcquire, Goto
  <2>2. r \in Calls /\ r.op = "put.store"
    BY <2>1, PlaceType DEF Inv
  <2> HIDE DEF r
  <2>3. TypeOK'
    BY <2>1, <2>2 DEF Inv, TypeOK, ringVars
  <2>4. One(at[t].op \in Held) = 0 /\ One(r.op \in Held) = 0
        /\ One(at[t].op \in Freed) = 0 /\ One(r.op \in Freed) = 1
    BY <2>1, <2>2 DEF One, Held, Freed
  <2>5. sem_empty' - sem_empty = 0 /\ sem_full' - sem_full = -1 /\ Count - Count = 0
    BY <2>1, CountIsNat DEF Inv, TypeOK
  <2>6. ~astray' => /\ ~astray /\ Ring'
                    /\ (sem_empty' - sem_empty) + (One(r.op \in Held) - One(at[t].op \in Held)) = Count' - Count
                    /\ (sem_full' - sem_full) + (One(r.op \in Freed) - One(at[t].op \in Freed)) = Count - Count'
    BY <2>1, <2>4, <2>5, RingUnchanged DEF Inv
  <2> QED BY <2>1, <2>3, <2>6, MoveKeepsAccounts
<1> QED BY <1>1, <1>2

LEMMA PutStoreKeepsInv ==
  ASSUME Inv, NEW t \in Thread, PutStore(t)
  PROVE  Inv'
<1>1. CASE Halt
  BY <1>1, HaltKeepsInv
<1>2. CASE ~Halt
  <2> DEFINE r == [at[t] EXCEPT !.op = "put.post"]
  <2>1. /\ at[t].op = "put.store" /\ Store(at[t].msg)
        /\ at' = [at EXCEPT ![t] = r]
        /\ UNCHANGED <<semVars, got, astray, halted>>
    BY <1>2 DEF PutStore, Goto
  <2>2. r \in Calls /\ r.op = "put.post" /\ at[t].msg \in Message
    BY <2>1, PlaceType DEF Inv
  <2> HIDE DEF r
  <2>3. TypeOK'
    BY <2>1, <2>2, NextSlot DEF Inv, TypeOK, Store, semVars
  <2>4. One(at[t].op \in Held) = 0 /\ One(r.op \in Held) = 1
        /\ One(at[t].op \in Freed) = 1 /\ One(r.op \in Freed) = 0
    BY <2>1, <2>2 DEF One, Held, Freed
  <2>5. sem_empty' - sem_empty = 0 /\ sem_full' - sem_full = 0
    BY <2>1 DEF Inv, TypeOK, semVars
  <2>6. ~astray' => ~astray /\ Ring' /\ Count' = Count + 1 /\ Count \in Nat
    <3> SUFFICES ASSUME ~astray PROVE Ring' /\ Count' = Count + 1 /\ Count \in Nat
      BY <2>1
    <3>1. Ring /\ ~full /\ TypeOK
      BY <2>1, PermitHolds DEF Inv, Freed
    <3> QED BY <2>1, <2>2, <3>1, StoreAppends, CountIsNat
  <2>7. ~astray' => /\ ~astray /\ Ring'
                    /\ (sem_empty' - sem_empty) + (One(r.op \in Held) - One(at[t].op \in Held)) = Count' - Count
                    /\ (sem_full' - sem_full) + (One(r.op \in Freed) - One(at[t].op \in Freed)) = Count - Count'
    BY <2>4, <2>5, <2>6
  <2> QED BY <2>1, <2>3, <2>7, MoveKeepsAccounts
<1> QED BY <1>1, <1>2

LEMMA PutPostKeepsInv ==
  ASSUME Inv, NEW t \in Thread, PutPost(t)
  PROVE  Inv'
<1>1. /\ at[t].op = "put.post" /\ at' = [at EXCEPT ![t] = Idle]
      /\ sem_empty' = sem_empty + 1 /\ UNCHANGED <<ringVars, sem_full, got, astray, halted>>
  BY DEF PutPost, Return
<1>2. Idle \in Calls /\ Idle.op = "idle"
  BY DEF Calls, Idle
<1>3. TypeOK'
  BY <1>1, <1>2 DEF Inv, TypeOK, ringVars
<1>4. One(at[t].op \in Held) = 1 /\ One(Idle.op \in Held) = 0
      /\ One(at[t].op \in Freed) = 0 /\ One(Idle.op \in Freed) = 0
  BY <1>1, <1>2 DEF One, Held, Freed
<1>5. sem_empty' - sem_empty = 1 /\ sem_full' - sem_full = 0 /\ Count - Count = 0
  BY <1>1, CountIsNat DEF Inv, TypeOK
<1>6. ~astray' => /\ ~astray /\ Ring'
                  /\ (sem_empty' - sem_empty) + (One(Idle.op \in Held) - One(at[t].op \in Held)) = Count' - Count
                  /\ (sem_full' - sem_full) + (One(Idle.op \in Freed) - One(at[t].op \in Freed)) = Count - Count'
  BY <1>1, <1>4, <1>5, RingUnchanged DEF Inv
<1> QED BY <1>1, <1>3, <1>6, MoveKeepsAccounts

LEMMA GetPostKeepsInv ==
  ASSUME Inv, NEW t \in Thread, GetPost(t)
  PROVE  Inv'
<1>1. /\ at[t].op = "get.post" /\ at' = [at EXCEPT ![t] = Idle]
      /\ sem_full' = sem_full + 1 /\ UNCHANGED <<ringVars, sem_empty, got, astray, halted>>
  BY DEF GetPost, Return
<1>2. Idle \in Calls /\ Idle.op = "idle"
  BY DEF Calls, Idle
<1>3. TypeOK'
  BY <1>1, <1>2 DEF Inv, TypeOK, ringVars
<1>4. One(at[t].op \in Held) = 0 /\ One(Idle.op \in Held) = 0
      /\ One(at[t].op \in Freed) = 1 /\ One(Idle.op \in Freed) = 0
  BY <1>1, <1>2 DEF One, Held, Freed
<1>5. sem_empty' - sem_empty = 0 /\ sem_full' - sem_full = 1 /\ Count - Count = 0
  BY <1>1, CountIsNat DEF Inv, TypeOK
<1>6. ~astray' => /\ ~astray /\ Ring'
                  /\ (sem_empty' - sem_empty) + (One(Idle.op \in Held) - One(at[t].op \in Held)) = Count' - Count
                  /\ (sem_full' - sem_full) + (One(Idle.op \in Freed) - One(at[t].op \in Freed)) = Count - Count'
  BY <1>1, <1>4, <1>5, RingUnchanged DEF Inv
<1> QED BY <1>1, <1>3, <1>6, MoveKeepsAccounts

LEMMA GetAcquireKeepsInv ==
  ASSUME Inv, NEW t \in Thread, GetAcquire(t)
  PROVE  Inv'
<1> DEFINE r == [at[t] EXCEPT !.op = "get.take"]
<1>1. at[t].op = "get.wait" /\ UNCHANGED <<ringVars, got, halted>>
  BY DEF GetAcquire, semVars
<1>2. r \in Calls /\ r.op = "get.take" /\ Idle \in Calls /\ Idle.op = "idle"
  <2>1. Idle \in Calls /\ Idle.op = "idle"
    BY DEF Calls, Idle
  <2> QED BY <1>1, <2>1, PlaceType DEF Inv
<1>3. /\ One(at[t].op \in Held) = 0 /\ One(r.op \in Held) = 1 /\ One(Idle.op \in Held) = 0
      /\ One(at[t].op \in Freed) = 0 /\ One(r.op \in Freed) = 0 /\ One(Idle.op \in Freed) = 0
  BY <1>1, <1>2 DEF One, Held, Freed
<1>4. /\ ringVars' = ringVars
      /\ (Ring' <=> Ring) /\ Count' = Count /\ Count - Count = 0
  BY <1>1, RingUnchanged, CountIsNat DEF Inv
<1>5. CASE sem_empty > 0
  <2>1. /\ sem_empty' = sem_empty - 1 /\ at' = [at EXCEPT ![t] = r]
        /\ UNCHANGED <<sem_full, astray>>
    BY <1>5 DEF GetAcquire, Goto
  <2> HIDE DEF r
  <2>2. TypeOK'
    BY <1>1, <1>2, <1>5, <2>1 DEF Inv, TypeOK, ringVars
  <2>3. sem_empty' - sem_empty = -1 /\ sem_full' - sem_full = 0
    BY <2>1 DEF Inv, TypeOK
  <2>4. ~astray' => /\ ~astray /\ Ring'
                    /\ (sem_empty' - sem_empty) + (One(r.op \in Held) - One(at[t].op \in Held)) = Count' - Count
                    /\ (sem_full' - sem_full) + (One(r.op \in Freed) - One(at[t].op \in Freed)) = Count - Count'
    BY <1>3, <1>4, <2>1, <2>3 DEF Inv
  <2> QED BY <2>1, <2>2, <2>4, MoveKeepsAccounts
<1>6. CASE sem_empty = 0 /\ at' = [at EXCEPT ![t] = Idle] /\ UNCHANGED <<semVars, astray>>
  <2>1. TypeOK'
    BY <1>1, <1>2, <1>6 DEF Inv, TypeOK, ringVars, semVars
  <2>2. sem_empty' - sem_empty = 0 /\ sem_full' - sem_full = 0
    BY <1>6 DEF Inv, TypeOK, semVars
  <2>3. ~astray' => /\ ~astray /\ Ring'
                    /\ (sem_empty' - sem_empty) + (One(Idle.op \in Held) - One(at[t].op \in Held)) = Count' - Count
                    /\ (sem_full' - sem_full) + (One(Idle.op \in Freed) - One(at[t].op \in Freed)) = Count - Count'
    BY <1>3, <1>4, <1>6, <2>2 DEF Inv
  <2> QED BY <1>6, <2>1, <2>3, MoveKeepsAccounts
<1>7. CASE sem_empty = 0 /\ at' = [at EXCEPT ![t] = r] /\ astray' = TRUE /\ UNCHANGED semVars
  <2> HIDE DEF r
  <2>1. TypeOK'
    BY <1>1, <1>2, <1>7 DEF Inv, TypeOK, ringVars, semVars
  <2> QED BY <1>7, <2>1, MoveKeepsAccounts
<1> QED BY <1>5, <1>6, <1>7 DEF GetAcquire, Goto, Return

LEMMA GetTakeKeepsInv ==
  ASSUME Inv, NEW t \in Thread, GetTake(t)
  PROVE  Inv'
<1>1. CASE Halt
  BY <1>1, HaltKeepsInv
<1>2. CASE ~Halt
  <2> DEFINE r == [at[t] EXCEPT !.op = "get.post"]
  <2>1. /\ at[t].op = "get.take" /\ Take(t)
        /\ at' = [at EXCEPT ![t] = r]
        /\ UNCHANGED <<semVars, astray, halted>>
    BY <1>2 DEF GetTake, Goto
  <2>2. r \in Calls /\ r.op = "get.post"
    BY <2>1, PlaceType DEF Inv
  <2> HIDE DEF r
  <2>3. TypeOK'
    BY <2>1, <2>2, NextSlot DEF Inv, TypeOK, Take, semVars
  <2>4. One(at[t].op \in Held) = 1 /\ One(r.op \in Held) = 0
        /\ One(at[t].op \in Freed) = 0 /\ One(r.op \in Freed) = 1
    BY <2>1, <2>2 DEF One, Held, Freed
  <2>5. sem_empty' - sem_empty = 0 /\ sem_full' - sem_full = 0
    BY <2>1 DEF Inv, TypeOK, semVars
  <2>6. ~astray' => ~astray /\ Ring' /\ Count' = Count - 1 /\ Count \in Nat
    <3> SUFFICES ASSUME ~astray PROVE Ring' /\ Count' = Count - 1 /\ Count \in Nat
      BY <2>1
    <3>1. Ring /\ ~empty /\ TypeOK
      BY <2>1, PermitHolds DEF Inv, Held
    <3> QED BY <2>1, <3>1, TakeRemoves, CountIsNat
  <2>7. ~astray' => /\ ~astray /\ Ring'
                    /\ (sem_empty' - sem_empty) + (One(r.op \in Held) - One(at[t].op \in Held)) = Count' - Count
                    /\ (sem_full' - sem_full) + (One(r.op \in Freed) - One(at[t].op \in Freed)) = Count - Count'
    BY <2>4, <2>5, <2>6
  <2> QED BY <2>1, <2>3, <2>7, MoveKeepsAccounts
<1> QED BY <1>1, <1>2

LEMMA ResetKeepsInv ==
  ASSUME Inv, NEW t \in Thread, Reset(t)
  PROVE  Inv'
<1>1. /\ head' = 0 /\ tail' = 0 /\ empty' = TRUE /\ full' = FALSE
      /\ astray' = (astray \/ ~empty)
      /\ UNCHANGED <<memory, semVars, at, got, halted>>
  BY DEF Reset
<1>2. TypeOK'
  <2>1. 0 \in Slot
    BY QueueAssumption DEF Slot
  <2> QED BY <1>1, <2>1 DEF Inv, TypeOK, semVars
<1>3. Ring' /\ Count' = 0
  BY <1>1 DEF Ring, Count
<1>4. ~astray' => ~astray /\ Count = 0
  BY <1>1 DEF Count, Inv, TypeOK
<1> QED BY <1>1, <1>2, <1>3, <1>4 DEF Inv, PermitsAddUp, In, semVars

LEMMA InvStep == Inv /\ [Next]_vars => Inv'
<1> SUFFICES ASSUME Inv, [Next]_vars PROVE Inv'
  OBVIOUS
<1>1. CASE UNCHANGED vars
  <2>1. UNCHANGED <<ringVars, semVars, at, got, astray, halted>>
    BY <1>1 DEF vars
  <2>2. TypeOK'
    BY <2>1 DEF Inv, TypeOK, ringVars, semVars
  <2> QED BY <2>1, <2>2, RingUnchanged DEF Inv, PermitsAddUp, In, semVars
<1>2. CASE Next
  BY <1>2, CallKeepsInv, PutAcquireKeepsInv, PutStoreKeepsInv, PutPostKeepsInv,
     GetAcquireKeepsInv, GetTakeKeepsInv, GetPostKeepsInv, ResetKeepsInv DEF Next, Step
<1> QED BY <1>1, <1>2

(* The accounts, the flags and the types hold together, always. *)
THEOREM QueueInvariant == Spec => []Inv
<1> QED BY InvInit, InvStep, PTL DEF Spec

(* Every variable of the queue keeps its range; in particular the indices  *)
(* stay inside the ring, even when the queue has gone astray.              *)
THEOREM QueueTypes == Spec => []TypeOK
<1>1. Inv => TypeOK
  BY DEF Inv
<1> QED BY <1>1, QueueInvariant, PTL

(* No permit is ever lost or made up, however the calls interleave, and    *)
(* the assertions on the flags never fail.                                 *)
THEOREM PermitsAreKept == Spec => [](PermitsAddUp /\ FlagsDiffer)
<1>1. Inv => PermitsAddUp /\ FlagsDiffer
  <2> SUFFICES ASSUME Inv PROVE PermitsAddUp /\ FlagsDiffer
    OBVIOUS
  <2>1. \A t \in Thread : ~astray => (at[t].op \in Held => ~empty) /\ (at[t].op \in Freed => ~full)
    BY PermitHolds
  <2> QED BY <2>1 DEF Inv, FlagsDiffer, Ring, In, Held, Freed
<1> QED BY <1>1, QueueInvariant, PTL

(* A critical section is a step of the bounded queue. *)
LEMMA PutStoreIsPut ==
  ASSUME Inv, ~astray, NEW t \in Thread, PutStore(t), ~Halt
  PROVE  \E m \in Message : Queue!Put(t, m)
<1>1. at[t].op = "put.store" /\ Store(at[t].msg) /\ got' = got
  BY DEF PutStore
<1>2. at[t].msg \in Message
  BY <1>1, PlaceType DEF Inv
<1>3. Ring /\ ~full /\ TypeOK
  BY <1>1, PermitHolds DEF Inv, Freed
<1>4. Count < Capacity /\ Contents' = Append(Contents, at[t].msg)
  BY <1>1, <1>2, <1>3, StoreAppends
<1>5. Len(Contents) = Count
  BY <1>3, CountIsLength
<1> QED BY <1>1, <1>2, <1>4, <1>5 DEF Queue!Put

LEMMA GetTakeIsGet ==
  ASSUME Inv, ~astray, NEW t \in Thread, GetTake(t), ~Halt
  PROVE  Queue!Get(t)
<1>1. at[t].op = "get.take" /\ Take(t)
  BY DEF GetTake
<1>2. Ring /\ ~empty /\ TypeOK
  BY <1>1, PermitHolds DEF Inv, Held
<1> QED BY <1>1, <1>2, TakeRemoves DEF Queue!Get

LEMMA OthersAreInvisible ==
  ASSUME Inv, ~astray', [Next]_vars,
         \A t \in Thread : ~(PutStore(t) /\ ~Halt) /\ ~(GetTake(t) /\ ~Halt)
  PROVE  UNCHANGED <<Contents, got>>
<1>1. CASE UNCHANGED <<ringVars, got>>
  BY <1>1, RingUnchanged
<1>2. CASE \E t \in Thread : Reset(t)
  <2>1. empty /\ empty' /\ got' = got
    BY <1>2 DEF Reset, Inv, TypeOK
  <2>2. Count = 0 /\ Count' = 0
    BY <2>1 DEF Count
  <2>3. Contents = [i \in {} |-> memory[(tail + i - 1) % Capacity]]
        /\ Contents' = [i \in {} |-> memory'[(tail' + i - 1) % Capacity]]
    BY <2>2 DEF Contents
  <2> QED BY <2>1, <2>3
<1> QED BY <1>1, <1>2 DEF Next, Step, vars, Halt, CallGet, CallPut, PutAcquire, PutStore,
           PutPost, GetAcquire, GetTake, GetPost

(* The ring with its flags and its semaphores implements the bounded       *)
(* queue, for every capacity and every number of threads.                  *)
THEOREM RingIsQueue == Spec => IsQueue
<1>1. Inv /\ [Next]_vars => [Queue!Next \/ astray']_<<Contents, got>>
  <2> SUFFICES ASSUME Inv, [Next]_vars, ~astray' PROVE Queue!Next \/ UNCHANGED <<Contents, got>>
    OBVIOUS
  <2>1. CASE \E t \in Thread : PutStore(t) /\ ~Halt
    <3>1. ~astray
      BY <2>1 DEF PutStore
    <3> QED BY <2>1, <3>1, PutStoreIsPut DEF Queue!Next
  <2>2. CASE \E t \in Thread : GetTake(t) /\ ~Halt
    <3>1. ~astray
      BY <2>2 DEF GetTake
    <3> QED BY <2>2, <3>1, GetTakeIsGet DEF Queue!Next
  <2> QED BY <2>1, <2>2, OthersAreInvisible
<1> QED BY <1>1, QueueInvariant, PTL DEF Spec, IsQueue
=============================================================================
